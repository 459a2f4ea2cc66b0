----------------------------- MODULE MCFailover -----------------------------
(* Two operators, in either order of the listing, and three keys at the door. *)
EXTENDS Failover

CONSTANTS o1, o2, k1, k2, k3

Requests == k1 :> 2 @@ k2 :> 1 @@ k3 :> 1

Others == Permutations({k2, k3})

=============================================================================
