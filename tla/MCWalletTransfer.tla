-------------------------- MODULE MCWalletTransfer --------------------------
(* The transfer page embedded in the home page, with two runs of createQuote() *)
(* that overlap when the page is left during one.                              *)
EXTENDS WalletTransfer

CONSTANTS alice, bob, sponsor

=============================================================================
