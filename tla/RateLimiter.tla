---------------------------- MODULE RateLimiter ----------------------------
(***************************************************************************)
(* limitPublicRequest(): the first thing a relay does with a request.      *)
(* Every key, an address and a class of requests, has a window that starts *)
(* with its first request; requests beyond the maximum are refused until   *)
(* the window ends.  The table of windows is swept only when it is full.   *)
(* A tick is a millisecond; the Retry-After header speaks of seconds.      *)
(***************************************************************************)
EXTENDS Naturals, FiniteSets, FiniteSetsExt, Functions, TLC

CONSTANTS
    Keys,           \* bound: an address with "read" or "write"
    Maximum,        \* Maximum[k]: the requests of k one window lets in
    Duration,       \* of a window, in ticks
    Second,         \* ticks of a second, 1000 in the code
    Capacity        \* windows the table holds

ASSUME RateLimiterAssumption ==
    /\ Maximum \in [Keys -> Nat \ {0}]
    /\ {Duration, Second, Capacity} \subseteq Nat \ {0}

VARIABLES
    windows,    \* the table, a function from some keys to their windows
    admitted,   \* admitted[k][n]: requests of k let in n ticks ago
    told        \* ticks left of the wait that a refused key was told

doorVars == <<windows, admitted, told>>

DoorInit ==
    /\ windows = << >>
    /\ admitted = [k \in Keys |-> [n \in 0 .. Duration - 1 |-> 0]]
    /\ told = << >>

\* The map once k is set to v.
Put(map, k, v) == [j \in {k} \cup DOMAIN map |-> IF j = k THEN v ELSE map[j]]

Live(k) == k \in DOMAIN windows /\ windows[k].age < Duration

\* A full table is emptied.
SweptClean ==
    IF Cardinality(DOMAIN windows) >= Capacity THEN << >> ELSE windows

Swept ==
    IF Cardinality(DOMAIN windows) >= Capacity
    THEN Restrict(windows, {k \in DOMAIN windows : Live(k)})
    ELSE windows

NoRoom(k) == ~Live(k) /\ Cardinality(DOMAIN Swept) >= Capacity

\* The table once a request of k has been counted.  Counts beyond Maximum + 1
\* are told apart by nothing.
Counted(k) ==
    IF Live(k) THEN [windows EXCEPT ![k].count = Min({@ + 1, Maximum[k] + 1})]
    ELSE IF NoRoom(k) THEN Swept
    ELSE Put(Swept, k, [age |-> 0, count |-> 1])

Admits(k) == ~NoRoom(k) /\ Counted(k)[k].count <= Maximum[k]

\* The fraction of a second is cut off.
SecondsCut(ticks) == ticks \div Second

\* Math.ceil() of a duration in seconds.
Seconds(ticks) == (ticks + Second - 1) \div Second

\* In seconds.
RetryAfter(k) ==
    IF NoRoom(k) THEN Seconds(Duration) ELSE Max({1, Seconds(Duration - Counted(k)[k].age)})

\* The client waits for that many seconds.
Wait(k) == RetryAfter(k) * Second

\* A request of k meets the limiter; a refusal is a 429 and nothing more.
Knock(k) ==
    /\ windows' = Counted(k)
    /\ IF Admits(k)
       THEN /\ admitted' = [admitted EXCEPT ![k][0] = @ + 1]
            /\ told' = Restrict(told, DOMAIN told \ {k})
       ELSE /\ told' = Put(told, k, Wait(k))
            /\ UNCHANGED admitted

Tick ==
    /\ windows' = [k \in DOMAIN windows |->
                      [windows[k] EXCEPT !.age = Min({@ + 1, Duration})]]
    /\ admitted' = [k \in Keys |-> [n \in 0 .. Duration - 1 |->
                      IF n = 0 THEN 0 ELSE admitted[k][n - 1]]]
    /\ told' = [k \in DOMAIN told |-> Max({0, told[k] - 1})]

-----------------------------------------------------------------------------
\* Whatever windows end, are swept or are refused a place, fewer than twice the
\* maximum get in during any stretch as long as a window.
BurstBounded ==
    \A k \in Keys :
        FoldFunction(LAMBDA m, n : m + n, 0, admitted[k]) < 2 * Maximum[k]

\* A client alone behind its address that waits as long as it was told is let
\* in, unless the windows of others fill the table.
WaitIsEnough == \A k \in DOMAIN told : told[k] = 0 => Admits(k) \/ NoRoom(k)

=============================================================================
