---------------------------- MODULE MCBetaBudget ----------------------------
(* Small instances of BetaBudget.  Quotes q1 and q2 are of one wallet, q3 is *)
(* of another; each limit is one that some set of them exceeds.              *)
EXTENDS BetaBudget, TLC

CONSTANTS q1, q2, q3, a, b, h1, h2, g1, g2

Wallets == [q \in Quotes |-> IF q = q3 THEN b ELSE a]
Sats == [q \in Quotes |-> IF q = q2 THEN 1 ELSE 2]

Actors == Permutations({h1, h2}) \cup Permutations({g1, g2})

=============================================================================
