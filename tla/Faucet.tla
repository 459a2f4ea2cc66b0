------------------------------- MODULE Faucet -------------------------------
(***************************************************************************)
(* The testnet faucet of the web application: a signed request takes the   *)
(* sponsor's lock, looks up the claim of its address, records a new one,   *)
(* and only then broadcasts the payment.  The lock and the claims are kept *)
(* in Redis, where the lock has a lease and a claim is saved by its owner  *)
(* only, or in files, where the lock stays until it is unlinked.           *)
(*                                                                         *)
(* Requests run concurrently, each may end between two steps, and may      *)
(* outlive its lease.  Time is counted in units longer than the five       *)
(* minutes of a challenge, of which Lease make the lease of the lock and   *)
(* Day make the day between two claims.                                    *)
(***************************************************************************)
EXTENDS Naturals

CONSTANTS
    Requests,       \* the requests the server may be working on at once
    Addresses, Challenges,
    Stores,         \* the kinds of store: "redis", "file"
    Lease, Day,
    Longest,        \* bound: the units a request takes up to its claim, and after it
    Faults,         \* "die": a request ends; "store": a call of the store
                    \* throws; "network": the answer to a broadcast is lost
    None,           \* no claim, no challenge
    Free,           \* nobody has the lock
    Torn,           \* a claim file of which only a part was written
    Orphan          \* the owner of a lock whose request has ended

ASSUME FaucetAssumption ==
    /\ Stores \subseteq {"redis", "file"}
    /\ Lease \in Nat \ {0} /\ Day \in Nat \ {0} /\ Longest \in 0 .. Day - 1
    /\ Faults \subseteq {"die", "store", "network"}
    /\ Free \notin [owner : Requests \cup {Orphan}, age : 0 .. Lease - 1]
    /\ {None, Torn} \cap [challenge : Challenges, age : 0 .. Day] = {}
    /\ None # Torn /\ Orphan \notin Requests

VARIABLES
    store,          \* which store is configured
    lock,           \* the sponsor's lock, and for how long it is held
    claims,         \* by address: its claim
    requests,       \* by request: its stage, and its age since its claim or its start
    expired,        \* the challenges that are not accepted any more
    paid,           \* ghost: by address, the age of the claim of its last payment
    again           \* ghost: the addresses paid again within the day

vars == <<store, lock, claims, requests, expired, paid, again>>

Stages == {"idle", "read", "save", "broadcast", "remove", "release"}

Claim == [challenge : Challenges, age : 0 .. Day]

Working == [stage : Stages \ {"idle"}, address : Addresses, challenge : Challenges,
            age : 0 .. Longest]

Idle == [stage |-> "idle", address |-> None, challenge |-> None, age |-> 0]

\* Locks, claims, requests and payments keep their form through every fault;
\* an idle request has left nothing behind that is not an orphan.
TypeOK ==
    /\ store \in Stores
    /\ lock = Free \/ lock \in [owner : Requests \cup {Orphan}, age : 0 .. Lease - 1]
    /\ claims \in [Addresses -> Claim \cup {None, Torn}]
    /\ requests \in [Requests -> Working \cup {Idle}]
    /\ \A r \in Requests : requests[r] = Idle => lock = Free \/ lock.owner # r
    /\ expired \subseteq Challenges
    /\ paid \in [Addresses -> 0 .. Day] /\ again \subseteq Addresses

Init ==
    /\ store \in Stores
    /\ lock = Free
    /\ claims = [a \in Addresses |-> None]
    /\ requests = [r \in Requests |-> Idle]
    /\ expired = {}
    /\ paid = [a \in Addresses |-> Day] /\ again = {}

At(r, stage) == requests[r].stage = stage

Goto(r, stage) == requests' = [requests EXCEPT ![r].stage = stage]

Owns(r) == lock # Free /\ lock.owner = r

\* The request has been answered, or has died; nobody knows its owner key.
End(r) ==
    /\ requests' = [requests EXCEPT ![r] = Idle]
    /\ lock' = IF Owns(r) THEN [lock EXCEPT !.owner = Orphan] ELSE lock

-----------------------------------------------------------------------------
(* POST *)

\* A request with a valid signature and challenge takes the lock: SET NX, or a
\* file that must not exist.  With the lock taken it is answered 409.  When the
\* answer of the store is lost, the request does not know that it has the lock.
Acquire(r, a, k) ==
    /\ At(r, "idle") /\ k \notin expired /\ lock = Free
    /\ \/ /\ lock' = [owner |-> r, age |-> 0]
          /\ requests' = [requests EXCEPT ![r] =
                             [stage |-> "read", address |-> a, challenge |-> k, age |-> 0]]
       \/ /\ "store" \in Faults
          /\ lock' = [owner |-> Orphan, age |-> 0] /\ UNCHANGED requests
    /\ UNCHANGED <<store, claims, expired, paid, again>>

\* An earlier claim with the same challenge is answered again, one of the last
\* day is refused, and a file that cannot be parsed throws.
Claimed(r) ==
    LET previous == claims[requests[r].address] IN
    \/ previous = Torn
    \/ /\ previous # None
       /\ (previous.challenge = requests[r].challenge \/ previous.age < Day)

\* The answer is given without the finally block.
ReadReturning(r) ==
    /\ At(r, "read")
    /\ \/ Claimed(r) /\ requests' = [requests EXCEPT ![r] = Idle]
       \/ ~Claimed(r) /\ Goto(r, "save")
       \/ Goto(r, "release")
    /\ UNCHANGED <<store, lock, claims, expired, paid, again>>

\* store.read(), the balance of the sponsor, and the transaction with its nonce:
\* any of them may be the last thing the request does.
Read(r) ==
    /\ At(r, "read")
    /\ \/ ~Claimed(r) /\ Goto(r, "save")
       \/ Goto(r, "release")
    /\ UNCHANGED <<store, lock, claims, expired, paid, again>>

\* store.save(): Redis refuses it of a request that has lost the lock.
MaySave(r) == store = "file" \/ Owns(r)

Save(r) ==
    /\ At(r, "save")
    /\ IF MaySave(r)
       THEN /\ claims' = [claims EXCEPT ![requests[r].address] =
                             [challenge |-> requests[r].challenge, age |-> 0]]
            /\ \/ requests' = [requests EXCEPT ![r].stage = "broadcast", ![r].age = 0]
               \/ "store" \in Faults /\ Goto(r, "release")
       ELSE Goto(r, "release") /\ UNCHANGED claims
    /\ UNCHANGED <<store, lock, expired, paid, again>>

\* The write throws before it has done anything, or in the middle of the file.
FailSave(r) ==
    /\ At(r, "save") /\ "store" \in Faults
    /\ \/ UNCHANGED claims
       \/ /\ store = "file"
          /\ claims' = [claims EXCEPT ![requests[r].address] = Torn]
    /\ Goto(r, "release")
    /\ UNCHANGED <<store, lock, expired, paid, again>>

Pay(r) ==
    LET a == requests[r].address IN
    /\ paid' = [paid EXCEPT ![a] = requests[r].age]
    /\ again' = IF paid[a] < Day THEN again \cup {a} ELSE again

Keep == UNCHANGED <<paid, again>>

\* A broadcast that throws is taken for one that was refused.
BroadcastRemoving(r) ==
    /\ At(r, "broadcast")
    /\ \/ Pay(r) /\ Goto(r, "release")
       \/ Pay(r) /\ "network" \in Faults /\ Goto(r, "remove")
       \/ Keep /\ Goto(r, "remove")
    /\ UNCHANGED <<store, lock, claims, expired>>

\* The network takes the transaction or refuses it; when the answer is lost the
\* claim is kept, whether it was taken or not.  A refused payment is taken back.
Broadcast(r) ==
    /\ At(r, "broadcast")
    /\ \/ Pay(r) /\ Goto(r, "release")
       \/ Keep /\ Goto(r, "remove")
       \/ "network" \in Faults /\ Keep /\ Goto(r, "release")
    /\ UNCHANGED <<store, lock, claims, expired>>

\* store.remove() of a refused payment does not ask for the lock.
RemoveClaim(r) ==
    /\ At(r, "remove")
    /\ \/ claims' = [claims EXCEPT ![requests[r].address] = None]
       \/ "store" \in Faults /\ UNCHANGED claims
    /\ Goto(r, "release")
    /\ UNCHANGED <<store, lock, expired, paid, again>>

\* store.release(): Redis deletes the lock of its owner only, a file is unlinked
\* whoever made it.
Release(r) ==
    /\ At(r, "release")
    /\ \/ /\ requests' = [requests EXCEPT ![r] = Idle]
          /\ lock' = IF store = "file" \/ Owns(r) THEN Free ELSE lock
       \/ "store" \in Faults /\ End(r)
    /\ UNCHANGED <<store, claims, expired, paid, again>>

-----------------------------------------------------------------------------
(* Ends of requests, and time *)

\* The function or the server it runs in is stopped.
Die(r) ==
    /\ "die" \in Faults /\ ~At(r, "idle")
    /\ End(r)
    /\ \/ UNCHANGED claims
       \/ /\ store = "file" /\ At(r, "save")
          /\ claims' = [claims EXCEPT ![requests[r].address] = Torn]
    /\ UNCHANGED <<store, expired, paid, again>>

\* The operator removes the lock file of a server that has crashed.
RemoveLock ==
    /\ store = "file" /\ Owns(Orphan)
    /\ lock' = Free
    /\ UNCHANGED <<store, claims, requests, expired, paid, again>>

Older(age) == IF age = Day THEN Day ELSE age + 1

\* The lock is set without a lease.
LeasedForEver == lock

Leased ==
    IF lock = Free \/ store = "file" THEN lock
    ELSE IF lock.age + 1 = Lease THEN Free ELSE [lock EXCEPT !.age = @ + 1]

\* What was challenged before is not accepted any more; a name that nothing
\* refers to stands for another challenge from now on.
Tick ==
    /\ \A r \in Requests : requests[r].age < Longest \/ At(r, "idle")
    /\ lock' = Leased
    /\ claims' = [a \in Addresses |->
                     IF claims[a] \in {None, Torn} THEN claims[a]
                     ELSE [claims[a] EXCEPT !.age = Older(@)]]
    /\ requests' = [r \in Requests |->
                       IF At(r, "idle") THEN Idle ELSE [requests[r] EXCEPT !.age = @ + 1]]
    /\ expired' = {k \in Challenges :
                      \/ \E r \in Requests : requests[r].challenge = k
                      \/ \E a \in Addresses :
                            claims[a] \notin {None, Torn} /\ claims[a].challenge = k}
    /\ paid' = [a \in Addresses |-> Older(paid[a])]
    /\ UNCHANGED <<store, again>>

Step(r) == Read(r) \/ Save(r) \/ FailSave(r) \/ Broadcast(r) \/ RemoveClaim(r) \/ Release(r)

Next ==
    \/ \E r \in Requests, a \in Addresses, k \in Challenges : Acquire(r, a, k)
    \/ \E r \in Requests : Step(r) \/ Die(r)
    \/ RemoveLock \/ Tick

\* Every call of the server is answered or times out, and time passes.
Spec == Init /\ [][Next]_vars /\ WF_vars(Tick) /\ \A r \in Requests : WF_vars(Step(r))

-----------------------------------------------------------------------------
\* No address is paid twice out of claims less than a day apart, whatever answers
\* are lost, requests end or leases run out: a claim is written by the holder of
\* the lock before its payment is sent, and only a payment that was refused takes
\* it back.
PaidOncePerDay == again = {}

\* A lock is always given up, also by a request that is refused, fails or loses
\* its lease; only the lock file of a request that has ended waits for the
\* operator to remove it.
LockGivenUp == lock # Free ~> (lock = Free \/ (store = "file" /\ Owns(Orphan)))

=============================================================================
