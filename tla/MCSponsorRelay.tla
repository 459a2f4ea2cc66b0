--------------------------- MODULE MCSponsorRelay ---------------------------
(* Small instances of SponsorRelay.  Quote q1 has two candidate transactions *)
(* (b1, b2), quote q2 has one (b3).                                          *)
EXTENDS SponsorRelayInv, TLC

CONSTANTS r1, r2, q1, q2, b1, b2, b3

OneQuote == [b \in Bytes |-> q1]

TwoQuotes == [b \in Bytes |-> IF b = b3 THEN q2 ELSE q1]

Connections == Permutations({r1, r2})

=============================================================================
