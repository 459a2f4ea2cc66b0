-------------------------- MODULE Operators_proofs --------------------------
(***************************************************************************)
(* Proofs about what a client meets of the operators: Failover, which asks *)
(* them one after the other, the RateLimiter at the door of each, and      *)
(* OperatorRegistry, which lists them; for any operators, keys, limits,    *)
(* window lengths, table size, timeout and tasks, with or without lost     *)
(* requests, crashes and failed writes.                                    *)
(***************************************************************************)
EXTENDS Failover, OperatorRegistry, SumTheorems, SequenceTheorems

USE RateLimiterAssumption, FailoverAssumption

-----------------------------------------------------------------------------
(* The client. *)

\* Operators are asked one after the other, and the next one only while no
\* signature is known to an answer that arrived.
Asking ==
    /\ attempt \in Nat
    /\ pc = "list" => signedBy = {}
    /\ pc = "send" => attempt > 0 /\ signedBy \subseteq lostBy
    /\ pc = "answered" =>
          attempt > 0 /\ (MayTryNext(answer) => signedBy \subseteq lostBy)
    /\ AnsweredSignatureIsFinal

\* A client never goes on after an answer of an operator that has signed.
THEOREM AnswersAreFinal == Spec => []AnsweredSignatureIsFinal
<1>1. Init => Asking
  BY DEF Init, Asking, AnsweredSignatureIsFinal
<1>2. ASSUME Asking, [Next]_vars PROVE Asking'
  <2> USE <1>2 DEF Asking, AnsweredSignatureIsFinal, Asked, clientVars
  <2>1. CASE UNCHANGED clientVars
    BY <2>1 DEF MayTryNext
  <2>2. CASE List
    BY <2>2 DEF List
  <2>3. CASE Send
    BY <2>3 DEF Send, Signs, MayTryNext
  <2>4. CASE LoseRequest
    BY <2>4 DEF LoseRequest, Signs, MayTryNext
  <2>5. CASE TryNext
    BY <2>5 DEF TryNext
  <2>6. CASE Finish
    BY <2>6 DEF Finish
  <2>7. CASE OthersArrive \/ TimePasses
    BY <2>1, <2>7 DEF OthersArrive, TimePasses
  <2>8. ASSUME NEW o \in Candidates, BalanceChanges(o) PROVE Asking'
    BY <2>8 DEF BalanceChanges, MayTryNext
  <2> QED
    BY <2>1, <2>2, <2>3, <2>4, <2>5, <2>6, <2>7, <2>8 DEF Next, vars
<1>3. Asking => AnsweredSignatureIsFinal
  BY DEF Asking
<1> QED
  BY <1>1, <1>2, <1>3, PTL DEF Spec

-----------------------------------------------------------------------------
(* The table of windows. *)

WindowRecord == [age : 0 .. Duration, count : Nat]

Ticks == 0 .. Duration - 1

DoorTypes ==
    /\ DOMAIN windows \subseteq Keys /\ windows \in [DOMAIN windows -> WindowRecord]
    /\ DOMAIN told \subseteq Keys /\ told \in [DOMAIN told -> Nat]
    /\ admitted \in [Keys -> [Ticks -> Nat]]

\* The larger of two numbers.
LEMMA MaxOfTwo ==
    ASSUME NEW m \in Nat, NEW n \in Nat
    PROVE  Max({m, n}) \in {m, n} /\ Max({m, n}) >= m /\ Max({m, n}) >= n
<1>1. \E x \in {m, n} : \A y \in {m, n} : x >= y
  <2>1. CASE m >= n
    BY <2>1
  <2>2. CASE n >= m
    BY <2>2
  <2> QED
    BY <2>1, <2>2
<1> QED
  BY <1>1 DEF Max

\* The smaller of two numbers.
LEMMA MinOfTwo ==
    ASSUME NEW m \in Nat, NEW n \in Nat
    PROVE  Min({m, n}) \in {m, n} /\ Min({m, n}) <= m /\ Min({m, n}) <= n
<1>1. \E x \in {m, n} : \A y \in {m, n} : x <= y
  <2>1. CASE m >= n
    BY <2>1
  <2>2. CASE n >= m
    BY <2>2
  <2> QED
    BY <2>1, <2>2
<1> QED
  BY <1>1 DEF Min

\* A sweep keeps the live windows.
LEMMA SweptKeeps ==
    ASSUME DoorTypes
    PROVE  /\ DOMAIN Swept \subseteq DOMAIN windows
           /\ Swept \in [DOMAIN Swept -> WindowRecord]
           /\ \A k \in DOMAIN Swept : Swept[k] = windows[k]
           /\ \A k \in Keys : Live(k) => k \in DOMAIN Swept
<1>1. CASE Swept = windows
  BY <1>1 DEF DoorTypes, Live
<1>2. CASE Swept = Restrict(windows, {k \in DOMAIN windows : Live(k)})
  BY <1>2 DEF DoorTypes, Live, Restrict
<1> QED
  BY <1>1, <1>2 DEF Swept

\* What a request of k finds and leaves: a live window that counts it, a table
\* with no room, or a window of its own.
LEMMA Knocked ==
    ASSUME DoorTypes, NEW k \in Keys
    PROVE  /\ DOMAIN Counted(k) \subseteq Keys
           /\ Counted(k) \in [DOMAIN Counted(k) -> WindowRecord]
           /\ \A j \in Keys \ {k} :
                 /\ j \in DOMAIN Counted(k) => j \in DOMAIN windows /\ Counted(k)[j] = windows[j]
                 /\ Live(j) => j \in DOMAIN Counted(k)
           /\ \/ /\ Live(k) /\ ~NoRoom(k) /\ k \in DOMAIN Counted(k)
                 /\ Counted(k)[k].age = windows[k].age
                 /\ Counted(k)[k].count = Min({windows[k].count + 1, Maximum[k] + 1})
              \/ /\ ~Live(k) /\ NoRoom(k)
                 /\ k \in DOMAIN Counted(k) => k \in DOMAIN windows /\ Counted(k)[k] = windows[k]
              \/ /\ ~Live(k) /\ ~NoRoom(k) /\ k \in DOMAIN Counted(k)
                 /\ Counted(k)[k] = [age |-> 0, count |-> 1]
<1>1. CASE Live(k)
  <2> DEFINE c == Min({windows[k].count + 1, Maximum[k] + 1})
  <2>1. Counted(k) = [windows EXCEPT ![k].count = c]
    BY <1>1 DEF Counted
  <2>2. c \in Nat
    <3> DEFINE m == windows[k].count + 1
               n == Maximum[k] + 1
    <3>1. m \in Nat /\ n \in Nat
      BY <1>1 DEF DoorTypes, WindowRecord, Live
    <3> HIDE DEF m, n
    <3>2. Min({m, n}) \in {m, n}
      BY <3>1, MinOfTwo
    <3> QED
      BY <3>1, <3>2 DEF m, n
  <2> HIDE DEF c
  <2>3. k \in DOMAIN windows /\ windows[k] \in WindowRecord
    BY <1>1 DEF Live, DoorTypes
  <2>4. /\ [windows[k] EXCEPT !.count = c] \in WindowRecord
        /\ [windows[k] EXCEPT !.count = c].age = windows[k].age
        /\ [windows[k] EXCEPT !.count = c].count = c
    BY <2>2, <2>3 DEF WindowRecord
  <2>5. /\ DOMAIN Counted(k) = DOMAIN windows
        /\ \A j \in DOMAIN windows :
              Counted(k)[j] = IF j = k THEN [windows[k] EXCEPT !.count = c] ELSE windows[j]
        /\ Counted(k) \in [DOMAIN windows -> WindowRecord]
    BY <2>1, <2>3, <2>4 DEF DoorTypes
  <2> QED
    BY <1>1, <2>3, <2>4, <2>5 DEF DoorTypes, Live, NoRoom, c
<1>2. CASE ~Live(k) /\ NoRoom(k)
  <2>1. Counted(k) = Swept
    BY <1>2 DEF Counted
  <2> QED
    BY <1>2, <2>1, SweptKeeps DEF DoorTypes
<1>3. CASE ~Live(k) /\ ~NoRoom(k)
  <2> DEFINE w == [age |-> 0, count |-> 1]
  <2>1. Counted(k) = [j \in {k} \cup DOMAIN Swept |-> IF j = k THEN w ELSE Swept[j]]
    BY <1>3 DEF Counted, Put
  <2>2. w \in WindowRecord
    BY DEF WindowRecord
  <2> HIDE DEF w
  <2>3. Counted(k) \in [{k} \cup DOMAIN Swept -> WindowRecord] /\ DOMAIN Counted(k) = {k} \cup DOMAIN Swept
    BY <2>1, <2>2, SweptKeeps
  <2>4. Counted(k)[k] = w /\ \A j \in DOMAIN Swept \ {k} : Counted(k)[j] = windows[j]
    BY <2>1, SweptKeeps
  <2> QED
    BY <1>3, <2>3, <2>4, SweptKeeps DEF DoorTypes, w
<1> QED
  BY <1>1, <1>2, <1>3

\* Every step is a request of some key at the door, a tick, or leaves it alone.
LEMMA DoorMoves ==
    ASSUME [Next]_vars
    PROVE  (\E k \in Keys : Knock(k)) \/ Tick \/ UNCHANGED doorVars
<1>1. Arrives => Knock(Client) \/ UNCHANGED doorVars
  BY DEF Arrives
<1>2. CASE Send
  BY <1>1, <1>2 DEF Send
<1>3. CASE LoseRequest
  BY <1>1, <1>3 DEF LoseRequest
<1> QED
  BY <1>2, <1>3 DEF Next, vars, List, TryNext, Finish, OthersArrive, TimePasses, BalanceChanges

\* One more tick of age.
LEMMA Aged ==
    ASSUME DoorTypes, Tick
    PROVE  /\ DOMAIN windows' = DOMAIN windows
           /\ \A k \in DOMAIN windows :
                 /\ windows'[k] \in WindowRecord /\ windows'[k].count = windows[k].count
                 /\ windows'[k].age = IF windows[k].age < Duration THEN windows[k].age + 1
                                      ELSE Duration
<1>1. windows' = [k \in DOMAIN windows |-> [windows[k] EXCEPT !.age = Min({@ + 1, Duration})]]
  BY DEF Tick
<1>2. ASSUME NEW k \in DOMAIN windows
      PROVE  /\ windows'[k] \in WindowRecord /\ windows'[k].count = windows[k].count
             /\ windows'[k].age = IF windows[k].age < Duration THEN windows[k].age + 1
                                  ELSE Duration
  <2> DEFINE a == Min({windows[k].age + 1, Duration})
             w == windows[k]
  <2>1. w \in WindowRecord
    BY DEF DoorTypes
  <2>2. a = IF windows[k].age < Duration THEN windows[k].age + 1 ELSE Duration
    <3> DEFINE n == windows[k].age + 1
    <3>1. n \in Nat /\ Duration \in Nat
      BY <2>1 DEF WindowRecord
    <3>2. a \in {n, Duration} /\ a <= n /\ a <= Duration
      <4> HIDE DEF n
      <4>1. Min({n, Duration}) \in {n, Duration} /\ Min({n, Duration}) <= n /\ Min({n, Duration}) <= Duration
        BY <3>1, MinOfTwo
      <4> QED
        BY <4>1 DEF n
    <3> QED
      BY <2>1, <3>1, <3>2 DEF WindowRecord
  <2>3. a \in 0 .. Duration
    BY <2>1, <2>2 DEF WindowRecord
  <2>4. windows'[k] = [w EXCEPT !.age = a]
    BY <1>1
  <2> HIDE DEF a, w
  <2>5. windows'[k] \in WindowRecord /\ windows'[k].count = w.count /\ windows'[k].age = a
    BY <2>1, <2>3, <2>4 DEF WindowRecord
  <2> QED
    BY <2>2, <2>5 DEF w
<1> QED
  BY <1>1, <1>2

\* Whole seconds, rounded up, are no shorter than the ticks they stand for.
LEMMA SecondsCover ==
    ASSUME NEW t \in Nat
    PROVE  Seconds(t) \in Nat /\ Seconds(t) * Second >= t
<1> DEFINE m == t + Second - 1
<1>1. m \in Nat /\ m + 1 = t + Second
  OBVIOUS
<1>2. Second \in Nat /\ Second > 0
  OBVIOUS
<1> HIDE DEF m
<1> DEFINE q == m \div Second
<1>3. q \in Nat /\ m % Second \in Nat /\ m % Second < Second /\ m = q * Second + (m % Second)
  BY <1>1, <1>2
<1>4. Seconds(t) = q
  BY DEF Seconds, m
<1> HIDE DEF q
<1>5. q * Second \in Nat
  BY <1>2, <1>3
<1> DEFINE p == q * Second
<1> HIDE DEF p
<1>6. p \in Nat /\ p >= t
  BY <1>1, <1>2, <1>3, <1>5 DEF p
<1> QED
  BY <1>3, <1>4, <1>6 DEF p

\* More seconds are more ticks.
LEMMA LongerInTicks ==
    ASSUME NEW m \in Nat, NEW n \in Nat, m >= n
    PROVE  m * Second \in Nat /\ n * Second \in Nat /\ m * Second >= n * Second
  OBVIOUS

\* What a request is told to wait for, and what is counted of it.
LEMMA KnockCounts ==
    ASSUME DoorTypes, NEW k \in Keys, Knock(k)
    PROVE  /\ windows' = Counted(k)
           /\ \/ /\ Admits(k)
                 /\ admitted' = [admitted EXCEPT ![k][0] = @ + 1]
                 /\ DOMAIN told' = DOMAIN told \ {k}
                 /\ \A j \in DOMAIN told' : told'[j] = told[j]
                 /\ told' \in [DOMAIN told' -> Nat]
              \/ /\ ~Admits(k)
                 /\ admitted' = admitted
                 /\ DOMAIN told' = DOMAIN told \cup {k}
                 /\ \A j \in DOMAIN told \ {k} : told'[j] = told[j]
                 /\ told'[k] = Wait(k)
<1>1. CASE Admits(k)
  BY <1>1 DEF Knock, Restrict, DoorTypes
<1>2. CASE ~Admits(k)
  BY <1>2 DEF Knock, Put, DoorTypes
<1> QED
  BY <1>1, <1>2

\* The wait a refused key is told: the rest of the window that counts it.
LEMMA RefusedWait ==
    ASSUME DoorTypes, NEW k \in Keys, ~Admits(k)
    PROVE  /\ Wait(k) \in Nat
           /\ NoRoom(k) \/ (/\ Live(k) /\ Wait(k) + windows[k].age >= Duration
                            /\ Counted(k)[k].age = windows[k].age)
<1>1. CASE NoRoom(k)
  <2>1. Seconds(Duration) \in Nat
    BY SecondsCover
  <2> QED
    BY <1>1, <2>1 DEF RetryAfter, Wait
<1>2. CASE ~NoRoom(k)
  <2>1. Live(k) /\ Counted(k)[k].age = windows[k].age
    <3>1. ~(Counted(k)[k].count <= Maximum[k])
      BY <1>2 DEF Admits
    <3>2. 1 <= Maximum[k]
      OBVIOUS
    <3>3. Counted(k)[k] # [age |-> 0, count |-> 1]
      BY <3>1, <3>2
    <3> QED
      BY <1>2, <3>3, Knocked
  <2> DEFINE rest == Duration - Counted(k)[k].age
             n == Seconds(rest)
  <2>2. rest \in Nat /\ rest + windows[k].age = Duration /\ windows[k].age \in Nat
    BY <2>1 DEF DoorTypes, WindowRecord, Live
  <2>3. RetryAfter(k) = Max({1, n})
    BY <1>2 DEF RetryAfter
  <2> HIDE DEF rest
  <2>4. n \in Nat /\ n * Second >= rest
    BY <2>2, SecondsCover
  <2> HIDE DEF n
  <2>5. Max({1, n}) \in {1, n} /\ Max({1, n}) >= n
    BY <2>4, MaxOfTwo
  <2>6. RetryAfter(k) \in Nat /\ RetryAfter(k) >= n
    BY <2>3, <2>4, <2>5
  <2>7. Wait(k) \in Nat /\ Wait(k) >= n * Second
    BY <2>4, <2>6, LongerInTicks DEF Wait
  <2>8. n * Second \in Nat
    BY <2>4, LongerInTicks
  <2> QED
    BY <2>1, <2>2, <2>4, <2>7, <2>8
<1> QED
  BY <1>1, <1>2

\* The door keeps its types.
LEMMA StepDoorTypes ==
    ASSUME DoorTypes, [Next]_vars
    PROVE  DoorTypes'
<1>1. ASSUME NEW k \in Keys, Knock(k) PROVE DoorTypes'
  <2>1. DOMAIN windows' \subseteq Keys /\ windows' \in [DOMAIN windows' -> WindowRecord]
    BY <1>1, KnockCounts, Knocked
  <2>2. admitted' \in [Keys -> [Ticks -> Nat]]
    <3>1. CASE admitted' = [admitted EXCEPT ![k][0] = @ + 1]
      <4>1. admitted[k] \in [Ticks -> Nat] /\ 0 \in Ticks
        BY DEF DoorTypes, Ticks
      <4>2. [admitted[k] EXCEPT ![0] = @ + 1] \in [Ticks -> Nat]
        BY <4>1
      <4> QED
        BY <3>1, <4>2 DEF DoorTypes
    <3>2. CASE admitted' = admitted
      BY <3>2 DEF DoorTypes
    <3> QED
      BY <1>1, <3>1, <3>2, KnockCounts
  <2>3. DOMAIN told' \subseteq Keys /\ told' \in [DOMAIN told' -> Nat]
    <3>1. CASE Admits(k)
      BY <1>1, <3>1, KnockCounts DEF DoorTypes
    <3>2. CASE ~Admits(k)
      <4>1. Wait(k) \in Nat
        BY <3>2, RefusedWait
      <4>2. told' = [j \in {k} \cup DOMAIN told |-> IF j = k THEN Wait(k) ELSE told[j]]
        BY <1>1, <3>2 DEF Knock, Put
      <4> QED
        BY <4>1, <4>2 DEF DoorTypes
    <3> QED
      BY <3>1, <3>2
  <2> QED
    BY <2>1, <2>2, <2>3 DEF DoorTypes
<1>2. CASE Tick
  <2>1. windows' \in [DOMAIN windows -> WindowRecord] /\ DOMAIN windows' = DOMAIN windows
    BY <1>2, Aged DEF Tick
  <2>2. admitted' \in [Keys -> [Ticks -> Nat]]
    <3>1. \A k \in Keys, n \in Ticks : (IF n = 0 THEN 0 ELSE admitted[k][n - 1]) \in Nat
      <4>1. \A n \in Ticks : n # 0 => n - 1 \in Ticks
        BY DEF Ticks
      <4>2. \A k \in Keys : admitted[k] \in [Ticks -> Nat]
        BY DEF DoorTypes
      <4> QED
        BY <4>1, <4>2
    <3>2. admitted' = [k \in Keys |-> [n \in Ticks |-> IF n = 0 THEN 0 ELSE admitted[k][n - 1]]]
      BY <1>2 DEF Tick, Ticks
    <3> QED
      BY <3>1, <3>2
  <2>3. told' \in [DOMAIN told -> Nat] /\ DOMAIN told' = DOMAIN told
    <3>1. \A k \in DOMAIN told : Max({0, told[k] - 1}) \in Nat
      <4> SUFFICES ASSUME NEW k \in DOMAIN told PROVE Max({0, told[k] - 1}) \in Nat
        OBVIOUS
      <4>1. CASE told[k] = 0
        <5>1. Max({0, 0 - 1}) = 0
          BY DEF Max
        <5> QED
          BY <4>1, <5>1
      <4>2. CASE told[k] # 0
        <5> DEFINE n == told[k] - 1
        <5>1. n \in Nat
          BY <4>2 DEF DoorTypes
        <5> HIDE DEF n
        <5>2. Max({0, n}) \in {0, n}
          BY <5>1, MaxOfTwo
        <5> QED
          BY <5>1, <5>2 DEF n
      <4> QED
        BY <4>1, <4>2
    <3> QED
      BY <1>2, <3>1 DEF Tick
  <2> QED
    BY <2>1, <2>2, <2>3 DEF DoorTypes
<1>3. CASE UNCHANGED doorVars
  BY <1>3 DEF doorVars, DoorTypes
<1> QED
  BY <1>1, <1>2, <1>3, DoorMoves

-----------------------------------------------------------------------------
(* Waiting. *)

\* What is left of a wait lasts until the window ends.
Waits ==
    \A k \in DOMAIN told : Live(k) => windows[k].age + told[k] >= Duration

\* Every step keeps it.
LEMMA StepWaits ==
    ASSUME DoorTypes, DoorTypes', Waits, [Next]_vars
    PROVE  Waits'
<1>1. ASSUME NEW k \in Keys, Knock(k) PROVE Waits'
  <2> SUFFICES ASSUME NEW j \in DOMAIN told', Live(j)'
               PROVE  windows'[j].age + told'[j] >= Duration
    BY DEF Waits
  <2>0. j \in Keys /\ j \in DOMAIN windows' /\ windows'[j].age < Duration
    BY DEF DoorTypes, Live
  <2>1. CASE j # k
    <3>1. j \in DOMAIN windows /\ windows'[j] = windows[j]
      <4>1. windows' = Counted(k)
        BY <1>1, KnockCounts
      <4> QED
        BY <2>0, <2>1, <4>1, Knocked
    <3>2. Live(j)
      BY <2>0, <3>1 DEF Live
    <3>3. j \in DOMAIN told /\ told'[j] = told[j]
      BY <1>1, <2>1, KnockCounts
    <3> QED
      BY <3>1, <3>2, <3>3 DEF Waits
  <2>2. CASE j = k
    <3>1. ~Admits(k) /\ told'[k] = Wait(k) /\ windows' = Counted(k)
      BY <1>1, <2>2, KnockCounts
    <3>2. CASE NoRoom(k)
      <4>1. k \in DOMAIN windows /\ windows'[k] = windows[k] /\ ~Live(k)
        BY <2>0, <2>2, <3>1, <3>2, Knocked
      <4> QED
        BY <2>0, <2>2, <4>1 DEF Live
    <3>3. CASE ~NoRoom(k)
      <4>1. Wait(k) + windows[k].age >= Duration /\ Counted(k)[k].age = windows[k].age
        BY <3>1, <3>3, RefusedWait
      <4>2. Wait(k) \in Nat /\ windows'[k].age \in Nat
        BY <2>0, <2>2, <3>1, RefusedWait DEF DoorTypes, WindowRecord
      <4> QED
        BY <2>2, <3>1, <4>1, <4>2
    <3> QED
      BY <3>2, <3>3
  <2> QED
    BY <2>1, <2>2
<1>2. CASE Tick
  <2> SUFFICES ASSUME NEW j \in DOMAIN told', Live(j)'
               PROVE  windows'[j].age + told'[j] >= Duration
    BY DEF Waits
  <2>1. j \in DOMAIN told /\ told'[j] = Max({0, told[j] - 1})
    BY <1>2 DEF Tick
  <2>2. j \in DOMAIN windows /\ windows'[j].age < Duration
    BY <1>2, Aged DEF Live
  <2>3. windows[j].age \in Nat /\ windows[j].age < Duration /\ windows'[j].age = windows[j].age + 1
    BY <1>2, <2>2, Aged DEF DoorTypes, WindowRecord
  <2>4. told[j] \in Nat /\ windows[j].age + told[j] >= Duration
    BY <2>1, <2>2, <2>3 DEF Waits, Live, DoorTypes
  <2>5. told[j] # 0
    BY <2>3, <2>4
  <2> DEFINE n == told[j] - 1
  <2>6. n \in Nat /\ told[j] = n + 1
    BY <2>4, <2>5
  <2> HIDE DEF n
  <2>7. Max({0, n}) \in {0, n} /\ Max({0, n}) >= n
    BY <2>6, MaxOfTwo
  <2>8. told'[j] >= n /\ told'[j] \in Nat
    BY <2>1, <2>6, <2>7 DEF n
  <2> QED
    BY <2>3, <2>4, <2>6, <2>8
<1>3. CASE UNCHANGED doorVars
  BY <1>3 DEF doorVars, Waits, Live
<1> QED
  BY <1>1, <1>2, <1>3, DoorMoves

\* A client that has waited finds its window over.
LEMMA WaitedEnough ==
    ASSUME DoorTypes, Waits
    PROVE  WaitIsEnough
<1> SUFFICES ASSUME NEW k \in DOMAIN told, told[k] = 0, ~NoRoom(k)
             PROVE  Admits(k)
  BY DEF WaitIsEnough
<1>1. k \in Keys
  BY DEF DoorTypes
<1>2. ~Live(k)
  BY DEF Waits, Live, DoorTypes, WindowRecord
<1>3. Counted(k)[k] = [age |-> 0, count |-> 1]
  BY <1>1, <1>2, Knocked
<1>4. Counted(k)[k].count = 1 /\ 1 <= Maximum[k]
  BY <1>1, <1>3
<1> QED
  BY <1>4 DEF Admits

-----------------------------------------------------------------------------
(* Bursts. *)

\* Requests let in lo to hi ticks ago, of those that f counts by age.
Within(f, lo, hi) == SumOver(f, lo .. hi)

\* Stretches are finite, and what is let in can be counted.
LEMMA Stretch ==
    ASSUME NEW f \in [Ticks -> Nat], NEW lo \in Nat, NEW hi \in Int, hi < Duration
    PROVE  /\ IsFiniteSet(lo .. hi) /\ lo .. hi \subseteq Ticks
           /\ Counts(f, lo .. hi) /\ Within(f, lo, hi) \in Nat
<1>1. IsFiniteSet(lo .. hi)
  BY FS_Interval
<1>2. lo .. hi \subseteq Ticks
  BY DEF Ticks
<1>3. Counts(f, lo .. hi)
  BY <1>2 DEF Counts
<1> QED
  BY <1>1, <1>2, <1>3, SumType DEF Within

\* A stretch is its two halves.
LEMMA SplitAt ==
    ASSUME NEW f \in [Ticks -> Nat], NEW a \in Ticks
    PROVE  Within(f, 0, Duration - 1) = Within(f, 0, a) + Within(f, a + 1, Duration - 1)
<1>1. 0 .. a \in SUBSET (0 .. Duration - 1)
  BY DEF Ticks
<1>2. (0 .. Duration - 1) \ (0 .. a) = (a + 1) .. (Duration - 1)
  BY DEF Ticks
<1>3. IsFiniteSet(0 .. Duration - 1) /\ Counts(f, 0 .. Duration - 1)
  BY Stretch
<1> DEFINE S == 0 .. Duration - 1
           U == 0 .. a
<1>4. SumOver(f, S) = SumOver(f, U) + SumOver(f, S \ U)
  <2>1. U \in SUBSET S /\ IsFiniteSet(S) /\ Counts(f, S)
    BY <1>1, <1>3
  <2> HIDE DEF S, U
  <2> QED
    BY <2>1, SumDisjoint
<1> QED
  BY <1>2, <1>4 DEF Within

\* What was let in earlier than now.
LEMMA Earlier ==
    ASSUME NEW f \in [Ticks -> Nat], NEW g, Alike(f, g, Ticks \ {0}),
           NEW lo \in Nat \ {0}, NEW hi \in Int, hi < Duration
    PROVE  Within(g, lo, hi) = Within(f, lo, hi)
<1>1. IsFiniteSet(lo .. hi) /\ lo .. hi \subseteq Ticks
  BY Stretch
<1>2. \A n \in Ticks : n # 0 => g[n] = f[n]
  BY DEF Alike
<1>3. 0 \notin lo .. hi
  OBVIOUS
<1> DEFINE S == lo .. hi
<1> HIDE DEF S
<1>4. Alike(f, g, S)
  BY <1>1, <1>2, <1>3 DEF Alike, S
<1>5. SumOver(f, S) = SumOver(g, S)
  BY <1>1, <1>4, SumSame DEF S
<1> QED
  BY <1>5 DEF Within, S

\* One more is let in now.
LEMMA OneMore ==
    ASSUME NEW f \in [Ticks -> Nat], NEW g, g = [f EXCEPT ![0] = @ + 1], NEW a \in Ticks
    PROVE  /\ g \in [Ticks -> Nat] /\ g[0] = f[0] + 1 /\ g[a] >= f[a]
           /\ Within(g, 0, a) = Within(f, 0, a) + 1
<1>1. /\ g \in [Ticks -> Nat] /\ g[0] = f[0] + 1
      /\ \A n \in Ticks : n # 0 => g[n] = f[n]
  BY DEF Ticks
<1> DEFINE S == 0 .. a
<1>2. /\ IsFiniteSet(S) /\ Counts(f, S) /\ Counts(g, S) /\ 0 \in S /\ S \subseteq Ticks
  <2>1. a \in Int /\ a < Duration /\ 0 \in S
    BY DEF Ticks
  <2> QED
    BY <1>1, <2>1, Stretch
<1>3. Alike(f, g, S \ {0})
  BY <1>1, <1>2 DEF Alike
<1>4. SumOver(g, S) = SumOver(f, S) - f[0] + g[0]
  <2> HIDE DEF S
  <2> QED
    BY <1>2, <1>3, SumChanged
<1>5. SumOver(f, S) \in Nat /\ f[0] \in Nat
  BY <1>2, SumType DEF Counts
<1> HIDE DEF S
<1>6. SumOver(g, S) = SumOver(f, S) + 1
  BY <1>1, <1>4, <1>5
<1>7. g[a] >= f[a]
  BY <1>1
<1> QED
  BY <1>1, <1>6, <1>7 DEF Within, S

\* A tick passes: everything was let in one tick earlier.
LEMMA Shifted ==
    ASSUME NEW f \in [Ticks -> Nat], NEW g,
           g = [n \in Ticks |-> IF n = 0 THEN 0 ELSE f[n - 1]]
    PROVE  /\ g \in [Ticks -> Nat] /\ g[0] = 0
           /\ \A n \in Ticks : n + 1 \in Ticks => g[n + 1] = f[n]
           /\ \A lo \in Nat, hi \in Int :
                 hi < Duration - 1 => Within(g, lo + 1, hi + 1) = Within(f, lo, hi)
           /\ \A hi \in -1 .. Duration - 2 : Within(g, 0, hi + 1) = Within(f, 0, hi)
<1>1. /\ g \in [Ticks -> Nat] /\ g[0] = 0
      /\ \A n \in Ticks : n + 1 \in Ticks => g[n + 1] = f[n]
  <2>1. \A n \in Ticks : n # 0 => n - 1 \in Ticks /\ f[n - 1] \in Nat
    BY DEF Ticks
  <2>2. 0 \in Ticks
    BY DEF Ticks
  <2>3. \A n \in Ticks : n + 1 # 0 /\ (n + 1) - 1 = n
    BY DEF Ticks
  <2> QED
    BY <2>1, <2>2, <2>3
<1>2. ASSUME NEW lo \in Nat, NEW hi \in Int, hi < Duration - 1
      PROVE  Within(g, lo + 1, hi + 1) = Within(f, lo, hi)
  <2> DEFINE S == lo .. hi
             later == [n \in S |-> n + 1]
  <2>1. IsFiniteSet(S) /\ Counts(f, S)
    <3>1. hi < Duration
      BY <1>2
    <3> QED
      BY <3>1, Stretch
  <2>2. \A n \in S : later[n] = n + 1 /\ n \in Ticks /\ n + 1 \in Ticks
    BY <1>2 DEF Ticks
  <2>3. {later[n] : n \in S} = (lo + 1) .. (hi + 1)
    <3>1. ASSUME NEW m \in (lo + 1) .. (hi + 1) PROVE m \in {later[n] : n \in S}
      <4>1. m - 1 \in S /\ later[m - 1] = m
        OBVIOUS
      <4> QED
        BY <4>1
    <3>2. ASSUME NEW n \in S PROVE later[n] \in (lo + 1) .. (hi + 1)
      OBVIOUS
    <3> QED
      BY <3>1, <3>2
  <2>4. \A n \in S : g[later[n]] = f[n]
    BY <1>1, <2>2
  <2>5. \A m, n \in S : later[m] = later[n] => m = n
    OBVIOUS
  <2> HIDE DEF S, later
  <2>6. SumOver(g, {later[n] : n \in S}) = SumOver(f, S)
    BY <2>1, <2>4, <2>5, SumRenamed
  <2> QED
    BY <2>3, <2>6 DEF Within, S
<1>3. ASSUME NEW hi \in -1 .. Duration - 2 PROVE Within(g, 0, hi + 1) = Within(f, 0, hi)
  <2> DEFINE S == 0 .. hi + 1
  <2>1. IsFiniteSet(S) /\ Counts(g, S) /\ 0 \in S /\ S \ {0} = 1 .. hi + 1
    <3>1. hi + 1 \in Int /\ hi + 1 < Duration /\ 0 \in S /\ S \ {0} = 1 .. hi + 1
      OBVIOUS
    <3> QED
      BY <1>1, <3>1, Stretch
  <2>2. SumOver(g, 1 .. hi + 1) = Within(f, 0, hi) /\ Within(f, 0, hi) \in Nat
    <3>1. hi \in Int /\ hi < Duration - 1 /\ hi < Duration /\ 0 \in Nat /\ 0 + 1 = 1
      OBVIOUS
    <3>2. Within(g, 0 + 1, hi + 1) = Within(f, 0, hi)
      BY <1>2, <3>1
    <3> QED
      BY <3>1, <3>2, Stretch DEF Within
  <2>3. SumOver(g, S) = g[0] + SumOver(g, S \ {0})
    <3> HIDE DEF S
    <3> QED
      BY <2>1, SumRemove
  <2>4. SumOver(g, S) = Within(f, 0, hi)
    <3>1. SumOver(g, S \ {0}) = Within(f, 0, hi)
      BY <2>1, <2>2, Zenon
    <3> HIDE DEF S
    <3> QED
      BY <1>1, <2>2, <2>3, <3>1
  <2> QED
    BY <2>4 DEF Within
<1> QED
  BY <1>1, <1>2, <1>3

\* A key whose window is a ticks old and has counted c requests: the window let
\* its first request in, and no more than it counted; all others before it were
\* fewer than the maximum m.
InWindow(f, a, c, m) ==
    /\ f[a] >= 1
    /\ Within(f, 0, a) <= c /\ Within(f, 0, a) <= m
    /\ Within(f, a + 1, Duration - 1) < m

\* A key without a window: nothing was let in during this tick.
Between(f, m) == f[0] = 0 /\ Within(f, 0, Duration - 1) < m

Bursts ==
    \A k \in Keys :
        IF Live(k) THEN InWindow(admitted[k], windows[k].age, windows[k].count, Maximum[k])
        ELSE Between(admitted[k], Maximum[k])

\* A request that a window counts.
LEMMA CountedIn ==
    ASSUME NEW f \in [Ticks -> Nat], NEW a \in Ticks, NEW c \in Nat, NEW m \in Nat \ {0},
           InWindow(f, a, c, m), NEW d \in Nat, d = Min({c + 1, m + 1})
    PROVE  /\ InWindow(f, a, d, m)
           /\ d <= m => InWindow([f EXCEPT ![0] = @ + 1], a, d, m)
<1>1. d = c + 1 \/ d = m + 1
  <2> DEFINE x == c + 1
             y == m + 1
  <2>1. x \in Nat /\ y \in Nat /\ d = Min({x, y})
    OBVIOUS
  <2> HIDE DEF x, y
  <2>2. d \in {x, y}
    BY <2>1, MinOfTwo
  <2> QED
    BY <2>2 DEF x, y
<1>2. a \in Int /\ a < Duration
  BY DEF Ticks
<1>3. Within(f, 0, a) \in Nat
  BY <1>2, Stretch
<1>4. InWindow(f, a, d, m)
  BY <1>1, <1>3 DEF InWindow
<1>5. ASSUME d <= m PROVE InWindow([f EXCEPT ![0] = @ + 1], a, d, m)
  <2> DEFINE g == [f EXCEPT ![0] = @ + 1]
  <2>1. d = c + 1
    <3>1. d # m + 1
      BY <1>5
    <3> QED
      BY <1>1, <3>1
  <2>2. /\ Within(g, 0, a) = Within(f, 0, a) + 1 /\ g[a] >= f[a]
        /\ g \in [Ticks -> Nat]
    BY OneMore
  <2>3. a + 1 \in Nat \ {0} /\ Duration - 1 \in Int /\ Duration - 1 < Duration
    BY DEF Ticks
  <2>4. Within(g, a + 1, Duration - 1) = Within(f, a + 1, Duration - 1)
    <3> DEFINE lo == a + 1
               hi == Duration - 1
    <3>1. lo \in Nat \ {0} /\ hi \in Int /\ hi < Duration
      BY <2>3
    <3>2. Alike(f, g, Ticks \ {0})
      BY DEF Alike
    <3> HIDE DEF lo, hi, g
    <3>3. Within(g, lo, hi) = Within(f, lo, hi)
      BY <3>1, <3>2, Earlier
    <3> QED
      BY <3>3 DEF lo, hi
  <2>5. f[a] \in Nat /\ g[a] \in Nat
    BY <2>2
  <2> HIDE DEF g
  <2>6. InWindow(g, a, d, m)
    BY <1>3, <1>5, <2>1, <2>2, <2>4, <2>5 DEF InWindow
  <2> QED
    BY <2>6 DEF g
<1> QED
  BY <1>4, <1>5

\* The request that opens a window.
LEMMA OpensWindow ==
    ASSUME NEW f \in [Ticks -> Nat], NEW m \in Nat \ {0}, Between(f, m)
    PROVE  InWindow([f EXCEPT ![0] = @ + 1], 0, 1, m)
<1> DEFINE g == [f EXCEPT ![0] = @ + 1]
<1>1. 0 \in Ticks /\ 0 \in Int /\ 0 < Duration
  BY DEF Ticks
<1>2. g[0] = 1 /\ Within(g, 0, 0) = Within(f, 0, 0) + 1
  <2>1. g = [f EXCEPT ![0] = @ + 1]
    OBVIOUS
  <2> HIDE DEF g
  <2>2. g[0] = f[0] + 1 /\ Within(g, 0, 0) = Within(f, 0, 0) + 1
    BY <1>1, <2>1, OneMore
  <2> QED
    BY <2>2 DEF Between
<1>3. Within(f, 0, 0) = 0
  <2>1. 0 .. 0 = {} \cup {0} /\ IsFiniteSet({}) /\ Counts(f, {} \cup {0})
    BY <1>1, FS_EmptySet DEF Counts
  <2>2. SumOver(f, {} \cup {0}) = SumOver(f, {}) + f[0]
    BY <2>1, SumAdd
  <2>3. SumOver(f, 0 .. 0) = SumOver(f, {} \cup {0})
    BY <2>1, Zenon
  <2> QED
    BY <2>2, <2>3, SumEmpty DEF Within, Between
<1>4. Within(g, 1, Duration - 1) = Within(f, 1, Duration - 1)
  <2> DEFINE hi == Duration - 1
  <2>1. 1 \in Nat \ {0} /\ hi \in Int /\ hi < Duration
    OBVIOUS
  <2>2. Alike(f, g, Ticks \ {0})
    BY DEF Alike
  <2> HIDE DEF hi, g
  <2>3. Within(g, 1, hi) = Within(f, 1, hi)
    BY <2>1, <2>2, Earlier
  <2> QED
    BY <2>3 DEF hi
<1>5. Within(f, 1, Duration - 1) < m
  <2>1. Within(f, 0, Duration - 1) = Within(f, 0, 0) + Within(f, 0 + 1, Duration - 1)
    BY <1>1, SplitAt
  <2>2. 1 \in Nat /\ Duration - 1 \in Int /\ Duration - 1 < Duration /\ 0 + 1 = 1
    OBVIOUS
  <2>3. Within(f, 1, Duration - 1) \in Nat
    BY <2>2, Stretch
  <2> QED
    BY <1>3, <2>1, <2>2, <2>3 DEF Between
<1> HIDE DEF g
<1>6. InWindow(g, 0, 1, m)
  <2>1. 0 + 1 = 1
    OBVIOUS
  <2> QED
    BY <1>2, <1>3, <1>4, <1>5, <2>1 DEF InWindow
<1> QED
  BY <1>6 DEF g

\* Requests let in longer ago than the shifted stretch are no longer counted.
LEMMA LastFalls ==
    ASSUME NEW f \in [Ticks -> Nat], NEW lo \in 0 .. Duration - 1
    PROVE  Within(f, lo, Duration - 1) = Within(f, lo, Duration - 2) + f[Duration - 1]
<1> DEFINE S == lo .. Duration - 2
           x == Duration - 1
<1>1. IsFiniteSet(S) /\ x \notin S /\ lo .. Duration - 1 = S \cup {x}
  <2>1. lo \in Nat /\ Duration - 2 \in Int /\ x \notin S
    OBVIOUS
  <2>2. lo .. Duration - 1 = S \cup {x}
    OBVIOUS
  <2>3. IsFiniteSet(S)
    BY <2>1, FS_Interval
  <2> QED
    BY <2>1, <2>2, <2>3
<1>2. Counts(f, S \cup {x})
  BY DEF Counts, Ticks
<1>3. SumOver(f, S \cup {x}) = SumOver(f, S) + f[x]
  <2> HIDE DEF S, x
  <2> QED
    BY <1>1, <1>2, SumAdd
<1>4. SumOver(f, lo .. Duration - 1) = SumOver(f, S \cup {x})
  BY <1>1, Zenon
<1> QED
  BY <1>3, <1>4 DEF Within

\* A tick of a window that goes on, of one that ends, and of none.
LEMMA TickIn ==
    ASSUME NEW f \in [Ticks -> Nat], NEW g,
           g = [n \in Ticks |-> IF n = 0 THEN 0 ELSE f[n - 1]],
           NEW a \in Ticks, NEW c \in Nat, NEW m \in Nat \ {0}, InWindow(f, a, c, m)
    PROVE  /\ a + 1 < Duration => InWindow(g, a + 1, c, m)
           /\ a + 1 = Duration => Between(g, m)
<1>1. a \in Int /\ a < Duration /\ Within(f, 0, a) \in Nat /\ f[a] \in Nat /\ Duration - 1 \in Ticks
  <2>1. a \in Int /\ a < Duration /\ f[a] \in Nat /\ Duration - 1 \in Ticks
    BY DEF Ticks
  <2>2. Within(f, 0, a) \in Nat
    BY <2>1, Stretch
  <2> QED
    BY <2>1, <2>2
<1>2. g \in [Ticks -> Nat] /\ g[0] = 0
  BY Shifted
<1>3. ASSUME a + 1 < Duration PROVE InWindow(g, a + 1, c, m)
  <2>1. a + 1 \in Ticks /\ a \in -1 .. Duration - 2
    BY <1>3 DEF Ticks
  <2>2. g[a + 1] = f[a] /\ Within(g, 0, a + 1) = Within(f, 0, a)
    BY <2>1, Shifted
  <2> DEFINE lo == a + 1
  <2>3. lo \in Nat /\ lo \in 0 .. Duration - 1 /\ Duration - 2 \in Int /\ Duration - 2 < Duration - 1
        /\ Duration - 2 < Duration /\ (Duration - 2) + 1 = Duration - 1
    BY <2>1 DEF Ticks
  <2>4. Within(g, lo + 1, Duration - 1) = Within(f, lo, Duration - 2)
    <3> HIDE DEF lo
    <3>1. Within(g, lo + 1, (Duration - 2) + 1) = Within(f, lo, Duration - 2)
      BY <2>3, Shifted
    <3> QED
      BY <2>3, <3>1
  <2>5. Within(f, lo, Duration - 1) = Within(f, lo, Duration - 2) + f[Duration - 1]
    BY <2>3, LastFalls
  <2>6. Within(f, lo, Duration - 2) \in Nat /\ f[Duration - 1] \in Nat
    BY <1>1, <2>3, Stretch
  <2> HIDE DEF lo
  <2>7. Within(g, lo + 1, Duration - 1) < m
    BY <2>4, <2>5, <2>6 DEF InWindow, lo
  <2> QED
    BY <1>1, <2>2, <2>7 DEF InWindow, lo
<1>4. ASSUME a + 1 = Duration PROVE Between(g, m)
  <2>1. a = Duration - 1 /\ Duration - 2 \in -1 .. Duration - 2 /\ (Duration - 2) + 1 = Duration - 1
        /\ 0 \in 0 .. Duration - 1 /\ Duration - 2 \in Int /\ Duration - 2 < Duration
    BY <1>1, <1>4
  <2>2. Within(g, 0, Duration - 1) = Within(f, 0, Duration - 2)
    <3>1. Within(g, 0, (Duration - 2) + 1) = Within(f, 0, Duration - 2)
      BY <2>1, Shifted
    <3> QED
      BY <2>1, <3>1
  <2>3. Within(f, 0, Duration - 1) = Within(f, 0, Duration - 2) + f[Duration - 1]
    BY <2>1, LastFalls
  <2>4. Within(f, 0, Duration - 2) \in Nat
    BY <2>1, Stretch
  <2> QED
    BY <1>1, <1>2, <2>1, <2>2, <2>3, <2>4 DEF InWindow, Between
<1> QED
  BY <1>3, <1>4

\* And of a key that has none.
LEMMA TickBetween ==
    ASSUME NEW f \in [Ticks -> Nat], NEW g,
           g = [n \in Ticks |-> IF n = 0 THEN 0 ELSE f[n - 1]],
           NEW m \in Nat \ {0}, Between(f, m)
    PROVE  Between(g, m)
<1>1. g \in [Ticks -> Nat] /\ g[0] = 0 /\ Duration - 1 \in Ticks
  BY Shifted DEF Ticks
<1>2. /\ Duration - 2 \in -1 .. Duration - 2 /\ (Duration - 2) + 1 = Duration - 1
      /\ 0 \in 0 .. Duration - 1 /\ Duration - 2 \in Int /\ Duration - 2 < Duration
  OBVIOUS
<1>3. Within(g, 0, Duration - 1) = Within(f, 0, Duration - 2)
  <2>1. Within(g, 0, (Duration - 2) + 1) = Within(f, 0, Duration - 2)
    BY <1>2, Shifted
  <2> QED
    BY <1>2, <2>1
<1>4. Within(f, 0, Duration - 1) = Within(f, 0, Duration - 2) + f[Duration - 1]
  BY <1>2, LastFalls
<1>5. Within(f, 0, Duration - 2) \in Nat /\ f[Duration - 1] \in Nat
  BY <1>1, <1>2, Stretch
<1> QED
  BY <1>1, <1>3, <1>4, <1>5 DEF Between

-----------------------------------------------------------------------------
(* The bound. *)

\* Nothing has been let in yet.
LEMMA InitDoor ==
    ASSUME Init
    PROVE  DoorTypes /\ Waits /\ Bursts
<1>1. windows = << >> /\ told = << >> /\ admitted = [k \in Keys |-> [n \in Ticks |-> 0]]
  BY DEF Init, DoorInit, Ticks
<1>2. DOMAIN windows = {} /\ DOMAIN told = {}
  BY <1>1
<1>3. DoorTypes /\ Waits
  BY <1>1, <1>2 DEF DoorTypes, Waits
<1>4. ASSUME NEW k \in Keys PROVE ~Live(k) /\ Between(admitted[k], Maximum[k])
  <2> DEFINE f == admitted[k]
             S == 0 .. Duration - 1
  <2>1. /\ \A n \in S : f[n] = 0
        /\ IsFiniteSet(S) /\ 0 \in S /\ Maximum[k] \in Nat \ {0}
    <3>1. \A n \in S : f[n] = 0
      BY <1>1 DEF Ticks
    <3>2. 0 \in Int /\ Duration - 1 \in Int /\ 0 \in S /\ Maximum[k] \in Nat \ {0}
      OBVIOUS
    <3>3. IsFiniteSet(S)
      BY <3>2, FS_Interval
    <3> QED
      BY <3>1, <3>2, <3>3
  <2> HIDE DEF f, S
  <2>2. SumOver(f, S) = 0 /\ f[0] = 0
    BY <2>1, SumZero
  <2>3. Between(f, Maximum[k])
    BY <2>1, <2>2 DEF Between, Within, S
  <2> QED
    BY <1>2, <2>3 DEF Live, f
<1> QED
  BY <1>3, <1>4 DEF Bursts

\* A request leaves every key's requests within bounds: it is counted by the
\* window it meets, or opens one.
LEMMA KnockBursts ==
    ASSUME DoorTypes, DoorTypes', Bursts, NEW k \in Keys, Knock(k)
    PROVE  Bursts'
<1> SUFFICES ASSUME NEW j \in Keys
             PROVE  IF Live(j)' THEN InWindow(admitted'[j], windows'[j].age,
                                              windows'[j].count, Maximum[j])
                    ELSE Between(admitted'[j], Maximum[j])
  BY DEF Bursts
<1>1. admitted[j] \in [Ticks -> Nat] /\ Maximum[j] \in Nat \ {0}
  BY DEF DoorTypes
<1>2. windows' = Counted(k) /\ (Live(j)' <=> j \in DOMAIN windows' /\ windows'[j].age < Duration)
  BY KnockCounts DEF Live
<1>3. CASE j # k
  <2>1. admitted'[j] = admitted[j]
    BY <1>3, KnockCounts DEF DoorTypes
  <2>2. Live(j)' <=> Live(j)
    BY <1>2, <1>3, Knocked DEF Live
  <2>3. Live(j) => windows'[j] = windows[j]
    BY <1>2, <1>3, <2>2, Knocked DEF Live
  <2> QED
    BY <2>1, <2>2, <2>3 DEF Bursts
<1>4. CASE j = k
  <2> DEFINE f == admitted[k]
             g == [f EXCEPT ![0] = @ + 1]
             m == Maximum[k]
  <2>0. f \in [Ticks -> Nat] /\ m \in Nat \ {0}
    BY <1>1, <1>4
  <2>1. admitted'[k] = IF Admits(k) THEN g ELSE f
    <3>1. CASE Admits(k)
      BY <3>1, KnockCounts DEF DoorTypes
    <3>2. CASE ~Admits(k)
      BY <3>2, KnockCounts
    <3> QED
      BY <3>1, <3>2
  <2>2. CASE Live(k)
    <3> DEFINE a == windows[k].age
               c == windows[k].count
               d == Counted(k)[k].count
    <3>1. /\ k \in DOMAIN Counted(k) /\ Counted(k)[k].age = a /\ ~NoRoom(k)
          /\ d = Min({c + 1, m + 1}) /\ Counted(k)[k] \in WindowRecord
      BY <2>2, Knocked
    <3>2. a \in Ticks /\ a < Duration /\ c \in Nat /\ d \in Nat
      BY <2>2, <3>1 DEF Live, DoorTypes, WindowRecord, Ticks
    <3>3. InWindow(f, a, c, m)
      BY <2>2 DEF Bursts
    <3>4. Admits(k) <=> d <= m
      BY <3>1 DEF Admits
    <3>5. Live(k)' /\ windows'[k].age = a /\ windows'[k].count = d
      BY <1>2, <1>4, <3>1, <3>2
    <3> HIDE DEF f, a, c, d, m
    <3>6. InWindow(f, a, d, m) /\ (d <= m => InWindow(g, a, d, m))
      BY <2>0, <3>1, <3>2, <3>3, CountedIn
    <3>7. InWindow(admitted'[k], a, d, m)
      BY <2>1, <3>4, <3>6
    <3> QED
      BY <1>4, <3>5, <3>7 DEF m
  <2>3. CASE ~Live(k) /\ NoRoom(k)
    <3>1. ~Live(k)' /\ ~Admits(k)
      BY <1>2, <1>4, <2>3, Knocked DEF Live, Admits
    <3>2. Between(f, m)
      BY <2>3 DEF Bursts
    <3> QED
      BY <1>4, <2>1, <3>1, <3>2
  <2>4. CASE ~Live(k) /\ ~NoRoom(k)
    <3>1. k \in DOMAIN Counted(k) /\ Counted(k)[k] = [age |-> 0, count |-> 1]
      BY <2>4, Knocked
    <3>2. Admits(k) /\ Live(k)' /\ windows'[k].age = 0 /\ windows'[k].count = 1
      BY <1>2, <1>4, <2>0, <2>4, <3>1 DEF Admits
    <3>3. Between(f, m)
      BY <2>4 DEF Bursts
    <3>4. InWindow(g, 0, 1, m)
      <4> HIDE DEF f, m
      <4> QED
        BY <2>0, <3>3, OpensWindow
    <3> QED
      BY <1>4, <2>1, <3>2, <3>4
  <2> QED
    BY <2>2, <2>3, <2>4
<1> QED
  BY <1>3, <1>4

\* A tick does: what a window let in ages with it, and once the window is over
\* only what its last tick still counts remains.
LEMMA TickBursts ==
    ASSUME DoorTypes, Bursts, Tick
    PROVE  Bursts'
<1> SUFFICES ASSUME NEW j \in Keys
             PROVE  IF Live(j)' THEN InWindow(admitted'[j], windows'[j].age,
                                              windows'[j].count, Maximum[j])
                    ELSE Between(admitted'[j], Maximum[j])
  BY DEF Bursts
<1> DEFINE f == admitted[j]
           g == admitted'[j]
           m == Maximum[j]
<1>1. f \in [Ticks -> Nat] /\ m \in Nat \ {0}
  BY DEF DoorTypes
<1>2. g = [n \in Ticks |-> IF n = 0 THEN 0 ELSE f[n - 1]]
  BY DEF Tick, Ticks
<1>3. Live(j)' <=> j \in DOMAIN windows' /\ windows'[j].age < Duration
  BY DEF Live
<1>4. CASE Live(j)
  <2> DEFINE a == windows[j].age
             c == windows[j].count
  <2>1. j \in DOMAIN windows' /\ windows'[j].age = a + 1 /\ windows'[j].count = c
    BY <1>4, Aged DEF Live
  <2>2. a \in Ticks /\ a < Duration /\ a \in Nat /\ c \in Nat
    BY <1>4 DEF Live, DoorTypes, WindowRecord, Ticks
  <2>3. InWindow(f, a, c, m)
    BY <1>4 DEF Bursts
  <2>4. (Live(j)' <=> a + 1 < Duration) /\ (a + 1 < Duration \/ a + 1 = Duration)
    BY <1>3, <2>1, <2>2
  <2> HIDE DEF f, g, a, c, m
  <2>5. /\ a + 1 < Duration => InWindow(g, a + 1, c, m)
        /\ a + 1 = Duration => Between(g, m)
    BY <1>1, <1>2, <2>2, <2>3, TickIn
  <2>6. IF Live(j)' THEN InWindow(g, a + 1, c, m) ELSE Between(g, m)
    BY <2>4, <2>5
  <2> QED
    BY <2>1, <2>6 DEF g, m
<1>5. CASE ~Live(j)
  <2>1. ~Live(j)'
    BY <1>3, <1>5, Aged DEF Live, DoorTypes, WindowRecord
  <2>2. Between(f, m)
    BY <1>5 DEF Bursts
  <2>3. Between(g, m)
    <3> HIDE DEF f, g, m
    <3> QED
      BY <1>1, <1>2, <2>2, TickBetween
  <2> QED
    BY <2>1, <2>3
<1> QED
  BY <1>4, <1>5

\* Every step keeps the bounds.
LEMMA StepBursts ==
    ASSUME DoorTypes, DoorTypes', Bursts, [Next]_vars
    PROVE  Bursts'
<1>1. CASE UNCHANGED doorVars
  BY <1>1 DEF doorVars, Bursts, Live
<1> QED
  BY <1>1, KnockBursts, TickBursts, DoorMoves

\* Two windows touch any stretch as long as one: the later let in no more than
\* the maximum, the earlier fewer, its first request being too long ago.
LEMMA Bounded ==
    ASSUME DoorTypes, Bursts
    PROVE  BurstBounded
<1> SUFFICES ASSUME NEW k \in Keys
             PROVE  FoldFunction(LAMBDA m, n : m + n, 0, admitted[k]) < 2 * Maximum[k]
  BY DEF BurstBounded
<1> DEFINE f == admitted[k]
           m == Maximum[k]
           total == Within(f, 0, Duration - 1)
<1>1. f \in [Ticks -> Nat] /\ m \in Nat \ {0} /\ DOMAIN f = 0 .. Duration - 1
  BY DEF DoorTypes, Ticks
<1>2. total \in Nat
  <2>1. Duration - 1 \in Int /\ Duration - 1 < Duration
    OBVIOUS
  <2> HIDE DEF f
  <2> QED
    BY <1>1, <2>1, Stretch
<1>3. ASSUME Live(k) PROVE total < 2 * m
  <2> DEFINE a == windows[k].age
             c == windows[k].count
  <2>1. a \in Ticks /\ a \in Int /\ a < Duration
    BY <1>3 DEF Live, DoorTypes, WindowRecord, Ticks
  <2>2. InWindow(f, a, c, m)
    BY <1>3 DEF Bursts
  <2> HIDE DEF f, a, c, m
  <2>3. total = Within(f, 0, a) + Within(f, a + 1, Duration - 1)
    BY <1>1, <2>1, SplitAt
  <2> DEFINE lo == a + 1
             hi == Duration - 1
  <2>4. lo \in Nat /\ hi \in Int /\ hi < Duration
    BY <2>1 DEF Ticks
  <2>5. Within(f, lo, hi) \in Nat /\ Within(f, 0, a) \in Nat
    <3> HIDE DEF lo, hi
    <3> QED
      BY <1>1, <2>1, <2>4, Stretch
  <2> HIDE DEF total
  <2>6. total < 2 * m
    <3>1. Within(f, 0, a) <= m /\ Within(f, lo, hi) < m
      BY <2>2 DEF InWindow
    <3> QED
      BY <1>1, <1>2, <2>3, <2>5, <3>1
  <2> QED
    BY <2>6 DEF f, m, total
<1>4. ASSUME ~Live(k) PROVE total < 2 * m
  <2>1. Between(f, m)
    BY <1>4 DEF Bursts
  <2> HIDE DEF f, m
  <2>2. total < m
    BY <2>1 DEF Between
  <2> HIDE DEF total
  <2>3. total < 2 * m
    BY <1>1, <1>2, <2>2
  <2> QED
    BY <2>3 DEF f, m, total
<1>5. FoldFunction(LAMBDA x, y : x + y, 0, f) = total
  BY <1>1 DEF FoldFunction, FoldFunctionOnSet, Within, SumOver, MapThenSumSet, MapThenFoldSet
<1> QED
  BY <1>3, <1>4, <1>5

-----------------------------------------------------------------------------
(* Theorems about the rate limiter. *)

\* The rate limiter's windows and its admissions agree in every state.
THEOREM DoorKept == Spec => [](DoorTypes /\ Waits /\ Bursts)
<1>1. Init => DoorTypes /\ Waits /\ Bursts
  BY InitDoor
<1>2. DoorTypes /\ Waits /\ Bursts /\ [Next]_vars => (DoorTypes /\ Waits /\ Bursts)'
  BY StepDoorTypes, StepWaits, StepBursts
<1> QED
  BY <1>1, <1>2, PTL DEF Spec

\* limitPublicRequest(): whatever is swept, refused or begun anew, a key is let
\* in fewer than twice its maximum times in any stretch as long as a window.
THEOREM BurstsBounded == Spec => []BurstBounded
<1>1. DoorTypes /\ Waits /\ Bursts => BurstBounded
  BY Bounded
<1> QED
  BY <1>1, DoorKept, PTL

\* Retry-After: a key that waits as long as it was told is let in, unless other
\* keys fill the table.
THEOREM WaitsEnough == Spec => []WaitIsEnough
<1>1. DoorTypes /\ Waits /\ Bursts => WaitIsEnough
  BY WaitedEnough
<1> QED
  BY <1>1, DoorKept, PTL

-----------------------------------------------------------------------------
(* The registry. *)

\* A record says no more than what was heard of its operator, and its rate is
\* that of its outcomes.
Honest(ages, o, record) ==
    record.beat >= ages[o] /\ record.rate = FailureRate(record.history)

AllHonest(ages, content) == \A o \in DOMAIN content : Honest(ages, o, content[o])

\* What the file holds, and what the puts will make of it.
Truthful ==
    /\ file \in Contents => AllHonest(heard, file)
    /\ temporary \in Contents => AllHonest(heard, temporary)
    /\ \A p \in DOMAIN puts :
          /\ puts[p].stage # "rename" => Honest(heard, p[2], puts[p].record)
          /\ puts[p].stage \in {"open", "write"} =>
                puts[p].seen \in Contents /\ AllHonest(heard, puts[p].seen)

\* As long as nothing was shared, one put has the temporary file in hand, empty
\* until it has written all of it.
OneWriter ==
    ~shared =>
        /\ Readable
        /\ \A p, q \in Writing : p = q
        /\ \A p \in Writing :
              /\ puts[p].on = "temporary"
              /\ puts[p].stage = "write" => temporary = Empty
              /\ puts[p].stage = "rename" => temporary \in Contents

RegistryInv == TypeOK /\ Truthful /\ OneWriter

-----------------------------------------------------------------------------
(* Records. *)

\* A record while it is updated: its rate may count an outcome more than the
\* window keeps.
Drafts == [status : Statuses, funded : BOOLEAN, beat : Ages,
           rate : [bad : Nat, of : Nat], history : SeqOf(BOOLEAN, Window)]

\* A history is a sequence of at most Window outcomes.
LEMMA Histories ==
    ASSUME NEW h
    PROVE  h \in SeqOf(BOOLEAN, Window) <=> h \in Seq(BOOLEAN) /\ Len(h) <= Window
<1>0. Window \in Nat
  BY RegistryAssumption
<1>1. ASSUME h \in SeqOf(BOOLEAN, Window) PROVE h \in Seq(BOOLEAN) /\ Len(h) <= Window
  <2>1. PICK m \in 0 .. Window : h \in [1 .. m -> BOOLEAN]
    BY <1>1 DEF SeqOf
  <2>2. h \in Seq(BOOLEAN)
    BY <1>0, <2>1, SeqDef
  <2>3. Len(h) = m
    BY <1>0, <2>1, <2>2, LenProperties
  <2> QED
    BY <1>0, <2>1, <2>2, <2>3
<1>2. ASSUME h \in Seq(BOOLEAN), Len(h) <= Window PROVE h \in SeqOf(BOOLEAN, Window)
  <2>1. Len(h) \in 0 .. Window /\ h \in [1 .. Len(h) -> BOOLEAN]
    BY <1>0, <1>2, LenProperties
  <2> QED
    BY <2>1 DEF SeqOf
<1> QED
  BY <1>1, <1>2

\* A sequence has no more failures than outcomes.
LEMMA RateInRange ==
    ASSUME NEW h \in Seq(BOOLEAN)
    PROVE  /\ FailureRate(h) \in [bad : Nat, of : Nat]
           /\ Len(h) <= Window => FailureRate(h) \in Rates
<1> DEFINE S == {i \in DOMAIN h : ~h[i]}
<1>1. Len(h) \in Nat /\ DOMAIN h = 1 .. Len(h)
  BY LenProperties
<1>2. IsFiniteSet(DOMAIN h) /\ Cardinality(DOMAIN h) = Len(h)
  <2> DEFINE n == Len(h)
  <2>1. n \in Nat /\ DOMAIN h = 1 .. n
    BY <1>1
  <2> HIDE DEF n
  <2>2. IsFiniteSet(1 .. n) /\ Cardinality(1 .. n) = IF 1 > n THEN 0 ELSE n - 1 + 1
    BY <2>1, FS_Interval
  <2>3. Cardinality(1 .. n) = n
    BY <2>1, <2>2
  <2> QED
    BY <2>1, <2>2, <2>3 DEF n
<1>3. Cardinality(S) \in Nat /\ Cardinality(S) <= Len(h)
  <2>1. S \in SUBSET DOMAIN h
    OBVIOUS
  <2> HIDE DEF S
  <2> QED
    BY <1>2, <2>1, FS_Subset, FS_CardinalityType
<1>4. FailureRate(h) = [bad |-> Cardinality(S), of |-> Len(h)]
  BY DEF FailureRate
<1> HIDE DEF S
<1> QED
  BY <1>1, <1>3, <1>4, RegistryAssumption DEF Rates

\* What assess() makes of a record: the heartbeat and the history are kept, the
\* rate is that of the history.
LEMMA Assessed ==
    ASSUME NEW record \in Drafts
    PROVE  /\ Assess(record) \in Records
           /\ Assess(record).beat = record.beat
           /\ Assess(record).rate = FailureRate(Assess(record).history)
           /\ Assess(record).status = "ONLINE" => ~Unhealthy(record) /\ record.status # "OFFLINE"
<1> DEFINE s == IF Unhealthy(record) THEN "UNHEALTHY"
                ELSE IF record.status = "UNHEALTHY" THEN "ONLINE" ELSE record.status
           kept == [record EXCEPT !.status = s]
           rate == FailureRate(record.history)
<1>1. s \in Statuses /\ (s = "ONLINE" => ~Unhealthy(record) /\ record.status # "OFFLINE")
  BY DEF Drafts, Statuses
<1>2. rate \in Rates
  <2>1. record.history \in Seq(BOOLEAN) /\ Len(record.history) <= Window
    BY Histories DEF Drafts
  <2> QED
    BY <2>1, RateInRange
<1>3. Assess(record) = [kept EXCEPT !.rate = rate]
  BY DEF Assess, AssessKeepingRate
<1> HIDE DEF s, rate
<1>4. /\ Assess(record).status = s /\ Assess(record).funded = record.funded
      /\ Assess(record).beat = record.beat /\ Assess(record).rate = rate
      /\ Assess(record).history = record.history /\ Assess(record) \in Records
  BY <1>1, <1>2, <1>3 DEF Drafts, Records
<1> QED
  BY <1>1, <1>4 DEF rate

\* Every record is a draft.
LEMMA RecordsAreDrafts ==
    Records \subseteq Drafts
<1>1. Rates \subseteq [bad : Nat, of : Nat]
  BY RegistryAssumption DEF Rates
<1> QED
  BY <1>1 DEF Records, Drafts

\* A registration, a heartbeat and an outcome make records of their operator
\* whose rate is that of their history.
LEMMA NewRecords ==
    ASSUME NEW funds \in BOOLEAN
    PROVE  /\ \A status \in Statuses :
                 /\ Registered(status, funds) \in Records
                 /\ Registered(status, funds).beat = 0
                 /\ Registered(status, funds).rate
                       = FailureRate(Registered(status, funds).history)
           /\ \A record \in Records :
                 /\ Beaten(record, funds) \in Records /\ Beaten(record, funds).beat = 0
                 /\ Beaten(record, funds).rate = FailureRate(Beaten(record, funds).history)
                 /\ WithOutcome(record, funds) \in Records
                 /\ WithOutcome(record, funds).beat = record.beat
                 /\ WithOutcome(record, funds).rate
                       = FailureRate(WithOutcome(record, funds).history)
<1>0. Window \in Nat \ {0} /\ 0 \in Ages
  BY RegistryAssumption DEF Ages
<1>1. ASSUME NEW status \in Statuses
      PROVE  /\ Registered(status, funds) \in Records
             /\ Registered(status, funds).beat = 0
             /\ Registered(status, funds).rate = FailureRate(Registered(status, funds).history)
  <2> DEFINE empty == <<>>
  <2>1. empty \in Seq(BOOLEAN) /\ Len(empty) = 0
    BY EmptySeq
  <2>2. empty \in SeqOf(BOOLEAN, Window) /\ FailureRate(empty) \in Rates
    <3> HIDE DEF empty
    <3>1. Len(empty) <= Window
      BY <1>0, <2>1
    <3> QED
      BY <2>1, <3>1, Histories, RateInRange
  <2>3. Registered(status, funds) = [status |-> status, funded |-> funds, beat |-> 0,
                                     rate |-> FailureRate(empty), history |-> empty]
    BY DEF Registered
  <2> HIDE DEF empty
  <2> QED
    BY <1>0, <2>2, <2>3 DEF Records
<1>2. ASSUME NEW record \in Records
      PROVE  /\ Beaten(record, funds) \in Records /\ Beaten(record, funds).beat = 0
             /\ Beaten(record, funds).rate = FailureRate(Beaten(record, funds).history)
  <2> DEFINE new == [record EXCEPT !.status = "ONLINE", !.funded = funds, !.beat = 0]
  <2>1. new \in Drafts /\ new.beat = 0
    <3>1. record \in Drafts
      BY RecordsAreDrafts
    <3> QED
      BY <1>0, <3>1 DEF Drafts, Statuses
  <2>2. Beaten(record, funds) = Assess(new)
    BY DEF Beaten
  <2> HIDE DEF new
  <2> QED
    BY <2>1, <2>2, Assessed
<1>3. ASSUME NEW record \in Records
      PROVE  /\ WithOutcome(record, funds) \in Records
             /\ WithOutcome(record, funds).beat = record.beat
             /\ WithOutcome(record, funds).rate = FailureRate(WithOutcome(record, funds).history)
  <2> DEFINE outcomes == Append(record.history, funds)
             cut == IF Len(outcomes) > Window THEN Tail(outcomes) ELSE outcomes
             new == [record EXCEPT !.rate = FailureRate(outcomes), !.history = cut]
  <2>1. record \in Drafts
    BY RecordsAreDrafts
  <2>2. record.history \in Seq(BOOLEAN) /\ Len(record.history) <= Window
    BY Histories DEF Records
  <2>3. outcomes \in Seq(BOOLEAN) /\ Len(outcomes) = Len(record.history) + 1 /\ outcomes # <<>>
    BY <2>2
  <2>4. cut \in Seq(BOOLEAN) /\ Len(cut) <= Window
    <3>1. Len(outcomes) \in Nat /\ Len(outcomes) <= Window + 1
      <4>1. Len(record.history) \in Nat
        BY <2>2, LenProperties
      <4> HIDE DEF outcomes
      <4> QED
        BY <1>0, <2>2, <2>3, <4>1
    <3> HIDE DEF outcomes
    <3>2. Tail(outcomes) \in Seq(BOOLEAN) /\ Len(Tail(outcomes)) = Len(outcomes) - 1
      BY <2>3, HeadTailProperties
    <3>3. CASE Len(outcomes) > Window
      BY <1>0, <3>1, <3>2, <3>3
    <3>4. CASE ~(Len(outcomes) > Window)
      BY <1>0, <2>3, <3>1, <3>4
    <3> QED
      BY <3>3, <3>4
  <2>5. cut \in SeqOf(BOOLEAN, Window) /\ FailureRate(outcomes) \in [bad : Nat, of : Nat]
    <3> HIDE DEF cut, outcomes
    <3> QED
      BY <2>3, <2>4, Histories, RateInRange
  <2>6. WithOutcome(record, funds) = Assess(new)
    BY DEF WithOutcome
  <2>7. new \in Drafts /\ new.beat = record.beat
    <3> DEFINE rate == FailureRate(outcomes)
    <3> HIDE DEF cut, rate
    <3> QED
      BY <2>1, <2>5 DEF Drafts, rate
  <2> HIDE DEF new
  <2> QED
    BY <2>6, <2>7, Assessed
<1> QED
  BY <1>1, <1>2, <1>3

-----------------------------------------------------------------------------
(* Files. *)

\* Contents are what maps operators to records, and none of them is one of the
\* files that hold no registry.
LEMMA ContentsAre ==
    /\ \A c : c \in Contents <=> DOMAIN c \subseteq Operators /\ c \in [DOMAIN c -> Records]
    /\ Empty \notin Contents /\ Garbage \notin Contents /\ Absent \notin Contents
<1>1. Empty \notin Contents /\ Garbage \notin Contents /\ Absent \notin Contents
  BY RegistryAssumption
<1>2. ASSUME NEW c, c \in Contents
      PROVE  DOMAIN c \subseteq Operators /\ c \in [DOMAIN c -> Records]
  BY <1>2 DEF Contents
<1>3. ASSUME NEW c, DOMAIN c \subseteq Operators, c \in [DOMAIN c -> Records]
      PROVE  c \in Contents
  BY <1>3 DEF Contents
<1> QED
  BY <1>1, <1>2, <1>3

\* What is honest stays so when more is heard of an operator.
LEMMA StillHonest ==
    ASSUME NEW ages \in [Operators -> Ages], NEW later \in [Operators -> Ages],
           \A o \in Operators : later[o] <= ages[o]
    PROVE  /\ \A o \in Operators : \A record \in Records :
                 Honest(ages, o, record) => Honest(later, o, record)
           /\ \A c \in Contents : AllHonest(ages, c) => AllHonest(later, c)
<1>1. ASSUME NEW o \in Operators, NEW record \in Records, Honest(ages, o, record)
      PROVE  Honest(later, o, record)
  <2>1. record.beat \in Nat /\ ages[o] \in Nat /\ later[o] \in Nat
    BY RegistryAssumption DEF Records, Ages
  <2> QED
    BY <1>1, <2>1 DEF Honest
<1>2. ASSUME NEW c \in Contents, AllHonest(ages, c) PROVE AllHonest(later, c)
  BY <1>1, <1>2, ContentsAre DEF AllHonest
<1> QED
  BY <1>1, <1>2

\* What is read in a file.
LEMMA FileRead ==
    ASSUME TypeOK, Truthful
    PROVE  /\ Listed \subseteq Operators
           /\ Readable => file \in Contents /\ Listed = DOMAIN file
           /\ \A o \in Listed : file[o] \in Records /\ Honest(heard, o, file[o])
<1>1. ASSUME Readable PROVE file \in Contents /\ Listed = DOMAIN file
  BY <1>1 DEF TypeOK, Readable, Listed
<1>2. CASE Readable
  BY <1>1, <1>2, ContentsAre DEF Truthful, AllHonest
<1>3. CASE ~Readable
  BY <1>3 DEF Listed
<1> QED
  BY <1>1, <1>2, <1>3

\* What a put writes: the record of its operator, and what it has seen of the
\* others.
LEMMA Written ==
    ASSUME TypeOK, Truthful, NEW p \in DOMAIN puts, puts[p].stage = "write"
    PROVE  /\ Content(p) \in Contents /\ AllHonest(heard, Content(p))
           /\ DOMAIN Content(p) = {p[2]} \cup DOMAIN puts[p].seen
<1> DEFINE seen == puts[p].seen
           record == puts[p].record
<1>1. /\ p[2] \in Operators /\ record \in Records /\ Honest(heard, p[2], record)
      /\ seen \in Contents /\ AllHonest(heard, seen)
  BY DEF TypeOK, Truthful, Puts, Tasks
<1>2. Content(p) = [o \in {p[2]} \cup DOMAIN seen |-> IF o = p[2] THEN record ELSE seen[o]]
  BY DEF Content
<1> HIDE DEF seen, record
<1>3. DOMAIN seen \subseteq Operators /\ \A o \in DOMAIN seen : seen[o] \in Records
  BY <1>1, ContentsAre
<1>4. /\ DOMAIN Content(p) = {p[2]} \cup DOMAIN seen
      /\ DOMAIN Content(p) \subseteq Operators /\ Content(p) \in [DOMAIN Content(p) -> Records]
  BY <1>1, <1>2, <1>3
<1>5. Content(p) \in Contents
  BY <1>4, ContentsAre
<1>6. AllHonest(heard, Content(p))
  BY <1>1, <1>2, <1>4 DEF AllHonest
<1> QED
  BY <1>4, <1>5, <1>6 DEF seen

-----------------------------------------------------------------------------
(* Steps. *)

\* The process ends.
LEMMA Exited ==
    ASSUME RegistryInv, Exit, UNCHANGED <<file, heard, shared>>
    PROVE  RegistryInv'
<1>1. puts' = <<>> /\ DOMAIN puts' = {} /\ temporary' = Absent
  BY DEF Exit
<1>2. TypeOK'
  <2>1. puts' \in [DOMAIN puts' -> Puts]
    BY <1>1
  <2> QED
    BY <1>1, <2>1 DEF RegistryInv, TypeOK
<1>3. Truthful'
  BY <1>1, ContentsAre DEF RegistryInv, Truthful
<1>4. OneWriter'
  BY <1>1 DEF RegistryInv, OneWriter, Writing, Readable
<1> QED
  BY <1>2, <1>3, <1>4 DEF RegistryInv

\* A put is given up, or its process ends.
LEMMA Thrown ==
    ASSUME RegistryInv, NEW p \in DOMAIN puts, Throw(p), UNCHANGED <<file, heard, shared>>
    PROVE  RegistryInv'
<1>1. CASE p[1] = Timer
  BY <1>1, Exited DEF Throw
<1>2. CASE p[1] # Timer
  <2>1. /\ temporary' = temporary /\ DOMAIN puts' = DOMAIN puts \ {p}
        /\ puts' = [x \in DOMAIN puts \ {p} |-> puts[x]]
    BY <1>2 DEF Throw, Without, Restrict
  <2>2. \A x \in DOMAIN puts' : x \in DOMAIN puts /\ puts'[x] = puts[x]
    BY <2>1
  <2>3. TypeOK'
    BY <2>1, <2>2 DEF RegistryInv, TypeOK
  <2>4. Truthful'
    BY <2>1, <2>2 DEF RegistryInv, Truthful
  <2>5. Writing' \subseteq Writing /\ \A x \in Writing' : puts'[x] = puts[x]
    BY <2>2 DEF Writing
  <2>6. OneWriter'
    BY <2>1, <2>5 DEF RegistryInv, OneWriter, Readable
  <2> QED
    BY <2>3, <2>4, <2>6 DEF RegistryInv
<1> QED
  BY <1>1, <1>2

\* A caller starts the puts of records that are honest by what was heard when it
\* read the file.
LEMMA Started ==
    ASSUME RegistryInv, NEW t \in Tasks, NEW records, Start(t, records),
           DOMAIN records \subseteq Operators,
           heard' \in [Operators -> Ages],
           \A o \in Operators : heard'[o] <= heard[o],
           \A o \in DOMAIN records : records[o] \in Records /\ Honest(heard', o, records[o]),
           UNCHANGED <<file, temporary, shared>>
    PROVE  RegistryInv'
<1> DEFINE new == {<<t, o>> : o \in DOMAIN records}
<1>1. /\ DOMAIN puts' = DOMAIN puts \cup new
      /\ \A x \in DOMAIN puts : puts'[x] = puts[x]
      /\ \A x \in new : x \notin DOMAIN puts => puts'[x] = NewPut(records[x[2]])
      /\ puts' = [x \in DOMAIN puts' |-> puts'[x]]
  BY DEF Start
<1>2. \A x \in new : x \in Tasks \X Operators /\ x[2] \in DOMAIN records
  OBVIOUS
<1>3. \A x \in DOMAIN puts : puts[x] \in Puts /\ x[2] \in Operators
  BY DEF RegistryInv, TypeOK
<1>4. ASSUME NEW record \in Records
      PROVE  /\ NewPut(record) \in Puts /\ NewPut(record).stage = "read"
             /\ NewPut(record).record = record
  BY <1>4 DEF NewPut, Puts
<1> HIDE DEF new
<1>5. TypeOK'
  <2>1. ASSUME NEW x \in DOMAIN puts' PROVE x \in Tasks \X Operators /\ puts'[x] \in Puts
    <3>1. CASE x \in DOMAIN puts
      BY <1>1, <1>3, <3>1 DEF RegistryInv, TypeOK
    <3>2. CASE x \notin DOMAIN puts
      <4>1. x \in new
        BY <1>1, <3>2
      <4> QED
        BY <1>1, <1>2, <1>4, <3>2, <4>1
    <3> QED
      BY <3>1, <3>2
  <2>2. puts' \in [DOMAIN puts' -> Puts]
    BY <1>1, <2>1
  <2> QED
    BY <2>1, <2>2 DEF RegistryInv, TypeOK
<1>6. Truthful'
  <2>1. /\ \A o \in Operators : \A record \in Records :
              Honest(heard, o, record) => Honest(heard', o, record)
        /\ \A c \in Contents : AllHonest(heard, c) => AllHonest(heard', c)
    <3>1. heard \in [Operators -> Ages]
      BY DEF RegistryInv, TypeOK
    <3> QED
      BY <3>1, StillHonest
  <2>2. ASSUME NEW x \in DOMAIN puts'
        PROVE  /\ puts'[x].stage # "rename" => Honest(heard', x[2], puts'[x].record)
               /\ puts'[x].stage \in {"open", "write"} =>
                     puts'[x].seen \in Contents /\ AllHonest(heard', puts'[x].seen)
    <3>1. CASE x \in DOMAIN puts
      <4>1. puts'[x] = puts[x] /\ puts[x].record \in Records /\ x[2] \in Operators
        BY <1>1, <1>3, <3>1 DEF Puts
      <4> QED
        BY <2>1, <3>1, <4>1 DEF RegistryInv, Truthful
    <3>2. CASE x \notin DOMAIN puts
      <4>1. x \in new
        BY <1>1, <3>2
      <4> QED
        BY <1>1, <1>2, <1>4, <3>2, <4>1
    <3> QED
      BY <3>1, <3>2
  <2>3. /\ file \in Contents => AllHonest(heard', file)
        /\ temporary \in Contents => AllHonest(heard', temporary)
    BY <2>1 DEF RegistryInv, Truthful
  <2> QED
    BY <2>2, <2>3 DEF Truthful
<1>7. OneWriter'
  <2>1. ASSUME NEW x \in DOMAIN puts', x \notin DOMAIN puts PROVE puts'[x].stage = "read"
    BY <1>1, <1>2, <1>4, <2>1
  <2>2. Writing' = Writing /\ \A x \in Writing : puts'[x] = puts[x]
    BY <1>1, <2>1 DEF Writing
  <2> QED
    BY <2>2 DEF RegistryInv, OneWriter, Readable
<1> QED
  BY <1>5, <1>6, <1>7 DEF RegistryInv

\* list() and get() put back what assess() makes of the records they changed.
LEMMA ListingStarts ==
    ASSUME RegistryInv, NEW t \in Tasks, NEW ops, ops \subseteq Listed, ListOperators(t, ops)
    PROVE  RegistryInv'
<1>1. CASE ~Readable
  BY <1>1, Exited DEF ListOperators
<1>2. CASE Readable
  <2> DEFINE records == [o \in Changed(ops) |-> Assess(file[o])]
  <2>1. Start(t, records) /\ UNCHANGED <<file, temporary, heard, shared>>
    BY <1>2 DEF ListOperators
  <2>2. DOMAIN records \subseteq Operators /\ DOMAIN records \subseteq Listed
    BY FileRead DEF RegistryInv, Changed
  <2>3. ASSUME NEW o \in DOMAIN records
        PROVE  records[o] \in Records /\ Honest(heard, o, records[o])
    <3>1. file[o] \in Drafts /\ Honest(heard, o, file[o])
      BY <2>2, FileRead, RecordsAreDrafts DEF RegistryInv
    <3>2. records[o] = Assess(file[o])
      OBVIOUS
    <3> HIDE DEF records
    <3> QED
      BY <3>1, <3>2, Assessed DEF Honest
  <2>4. heard \in [Operators -> Ages] /\ \A o \in Operators : heard[o] <= heard[o]
    BY RegistryAssumption DEF RegistryInv, TypeOK, Ages
  <2> HIDE DEF records
  <2> QED
    BY <2>1, <2>2, <2>3, <2>4, Started
<1> QED
  BY <1>1, <1>2

\* A registration or a heartbeat is heard, and put as heard just now.
LEMMA HeardStarts ==
    ASSUME RegistryInv, NEW t \in Tasks, NEW o \in Operators, NEW record \in Records,
           record.beat = 0, record.rate = FailureRate(record.history),
           heard' = [heard EXCEPT ![o] = 0], Start(t, [x \in {o} |-> record]),
           UNCHANGED <<file, temporary, shared>>
    PROVE  RegistryInv'
<1> DEFINE records == [x \in {o} |-> record]
<1>1. heard \in [Operators -> Ages] /\ 0 \in Ages /\ \A n \in Ages : 0 <= n /\ n <= n
  BY RegistryAssumption DEF RegistryInv, TypeOK, Ages
<1>2. heard' \in [Operators -> Ages] /\ heard'[o] = 0 /\ \A x \in Operators : heard'[x] <= heard[x]
  BY <1>1
<1>3. Honest(heard', o, record)
  BY <1>2 DEF Honest
<1>4. DOMAIN records = {o} /\ records[o] = record /\ Start(t, records)
  OBVIOUS
<1> HIDE DEF records
<1> QED
  BY <1>2, <1>3, <1>4, Started

\* An outcome is put with the heartbeat that was read.
LEMMA OutcomeStarts ==
    ASSUME RegistryInv, NEW t \in Tasks, RecordOutcome(t)
    PROVE  RegistryInv'
<1>1. PICK successful \in BOOLEAN :
            Start(t, [x \in {Self} |-> WithOutcome(file[Self], successful)])
  BY DEF RecordOutcome
<1> DEFINE record == WithOutcome(file[Self], successful)
           records == [x \in {Self} |-> record]
<1>2. Self \in Operators /\ file[Self] \in Records /\ Honest(heard, Self, file[Self])
  BY FileRead DEF RecordOutcome, RegistryInv
<1>3. /\ record \in Records /\ record.beat = file[Self].beat
      /\ record.rate = FailureRate(record.history)
  BY <1>2, NewRecords
<1> HIDE DEF record
<1>4. Honest(heard, Self, record)
  BY <1>2, <1>3 DEF Honest
<1>5. DOMAIN records = {Self} /\ records[Self] = record /\ Start(t, records)
  BY <1>1 DEF record
<1>6. heard \in [Operators -> Ages] /\ \A x \in Operators : heard[x] <= heard[x]
  BY RegistryAssumption DEF RegistryInv, TypeOK, Ages
<1> HIDE DEF records
<1> QED
  BY <1>2, <1>3, <1>4, <1>5, <1>6, Started DEF RecordOutcome

\* put() reads the records of the others.
LEMMA PutReads ==
    ASSUME RegistryInv, NEW p \in DOMAIN puts, PutRead(p)
    PROVE  RegistryInv'
<1>1. CASE ~Readable
  BY <1>1, Thrown DEF PutRead
<1>2. CASE Readable
  <2> DEFINE seen == Restrict(file, Listed \ {p[2]})
  <2>1. seen \in Contents /\ AllHonest(heard, seen)
    <3>1. DOMAIN seen = Listed \ {p[2]} /\ \A o \in DOMAIN seen : seen[o] = file[o]
      BY DEF Restrict
    <3>2. seen = [o \in DOMAIN seen |-> seen[o]]
      BY DEF Restrict
    <3> HIDE DEF seen
    <3>3. seen \in [DOMAIN seen -> Records] /\ DOMAIN seen \subseteq Operators
      BY <3>1, <3>2, FileRead DEF RegistryInv
    <3> QED
      BY <3>1, <3>3, FileRead, ContentsAre DEF RegistryInv, AllHonest
  <2>2. puts' = [puts EXCEPT ![p].stage = "open", ![p].seen = seen]
    BY <1>2 DEF PutRead
  <2> HIDE DEF seen
  <2>3. /\ DOMAIN puts' = DOMAIN puts /\ \A x \in DOMAIN puts \ {p} : puts'[x] = puts[x]
        /\ puts'[p] \in Puts /\ puts'[p].stage = "open" /\ puts'[p].seen = seen
        /\ puts'[p].record = puts[p].record /\ puts' \in [DOMAIN puts -> Puts]
    <3>1. puts \in [DOMAIN puts -> Puts]
      BY DEF RegistryInv, TypeOK
    <3>2. puts[p] \in Puts
      BY <3>1
    <3> QED
      BY <2>1, <2>2, <3>1, <3>2 DEF Puts
  <2>4. TypeOK'
    BY <1>2, <2>3 DEF RegistryInv, TypeOK, PutRead
  <2>5. Truthful'
    <3>1. file' = file /\ temporary' = temporary /\ heard' = heard
      BY <1>2 DEF PutRead
    <3>2. Honest(heard, p[2], puts'[p].record)
      BY <2>3 DEF RegistryInv, Truthful, PutRead
    <3> QED
      BY <2>1, <2>3, <3>1, <3>2 DEF RegistryInv, Truthful
  <2>6. Writing' = Writing /\ \A x \in Writing : puts'[x] = puts[x]
    BY <2>3 DEF Writing, PutRead
  <2>7. OneWriter'
    BY <1>2, <2>6 DEF RegistryInv, OneWriter, Readable, PutRead
  <2> QED
    BY <2>4, <2>5, <2>7 DEF RegistryInv
<1> QED
  BY <1>1, <1>2

\* put() truncates the temporary file.
LEMMA PutOpens ==
    ASSUME RegistryInv, NEW p \in DOMAIN puts, PutOpen(p)
    PROVE  RegistryInv'
<1>1. /\ DOMAIN puts' = DOMAIN puts /\ \A x \in DOMAIN puts \ {p} : puts'[x] = puts[x]
      /\ puts'[p].stage = "write" /\ puts'[p].on = "temporary"
      /\ puts'[p].seen = puts[p].seen
      /\ puts'[p].record = puts[p].record /\ puts' \in [DOMAIN puts -> Puts]
  <2>1. puts \in [DOMAIN puts -> Puts] /\ puts[p] \in Puts
    BY DEF RegistryInv, TypeOK
  <2> QED
    BY <2>1 DEF Puts, PutOpen
<1>2. TypeOK'
  BY <1>1 DEF RegistryInv, TypeOK, PutOpen
<1>3. Truthful'
  BY <1>1, ContentsAre DEF RegistryInv, Truthful, PutOpen
<1>4. OneWriter'
  <2>1. Writing' = Writing \cup {p}
    BY <1>1 DEF Writing
  <2> QED
    BY <1>1, <2>1 DEF RegistryInv, OneWriter, Readable, PutOpen
<1> QED
  BY <1>2, <1>3, <1>4 DEF RegistryInv

\* put() writes the whole registry, and nobody else does at the same time unless
\* the temporary file is shared.
LEMMA PutWrites ==
    ASSUME RegistryInv, NEW p \in DOMAIN puts, PutWrite(p)
    PROVE  RegistryInv'
<1> DEFINE content == Content(p)
<1>1. content \in Contents /\ AllHonest(heard, content)
  BY Written DEF RegistryInv, PutWrite
<1>2. /\ temporary' \in {temporary, content, Garbage} /\ file' \in {file, content, Garbage}
      /\ heard' = heard /\ shared' = shared /\ puts[p].stage = "write"
      /\ puts[p].on = "temporary" => file' = file
      /\ puts[p].on = "temporary" /\ temporary = Empty => temporary' = content
  BY DEF PutWrite, Overwritten
<1>3. NoRecord \in Records
  BY NewRecords DEF NoRecord, Statuses
<1>4. /\ DOMAIN puts' = DOMAIN puts /\ \A x \in DOMAIN puts \ {p} : puts'[x] = puts[x]
      /\ puts'[p].stage = "rename" /\ puts'[p].on = puts[p].on
      /\ puts' \in [DOMAIN puts -> Puts]
  <2>1. puts \in [DOMAIN puts -> Puts] /\ puts[p] \in Puts
    BY DEF RegistryInv, TypeOK
  <2>2. puts' = [puts EXCEPT ![p].stage = "rename", ![p].seen = Absent, ![p].record = NoRecord]
    BY DEF PutWrite
  <2> QED
    BY <1>3, <2>1, <2>2 DEF Puts
<1> HIDE DEF content
<1>5. TypeOK'
  BY <1>1, <1>2, <1>4 DEF RegistryInv, TypeOK
<1>6. Truthful'
  BY <1>1, <1>2, <1>4, ContentsAre DEF RegistryInv, Truthful
<1>7. OneWriter'
  <2>1. Writing' = Writing /\ p \in Writing
    BY <1>2, <1>4 DEF Writing
  <2> SUFFICES ASSUME ~shared
               PROVE  /\ Readable'
                      /\ \A x \in Writing' : x = p
                      /\ puts'[p].on = "temporary" /\ temporary' \in Contents
    BY <1>2, <1>4, <2>1 DEF OneWriter
  <2>2. /\ Readable /\ puts[p].on = "temporary" /\ temporary = Empty
        /\ \A x \in Writing : x = p
    BY <1>2, <2>1 DEF RegistryInv, OneWriter
  <2> QED
    BY <1>1, <1>2, <1>4, <2>1, <2>2 DEF Readable
<1> QED
  BY <1>5, <1>6, <1>7 DEF RegistryInv

\* put() renames the temporary file over the registry.
LEMMA PutRenames ==
    ASSUME RegistryInv, NEW p \in DOMAIN puts, PutRename(p)
    PROVE  RegistryInv'
<1>1. CASE temporary = Absent
  BY <1>1, Thrown DEF PutRename
<1>2. CASE temporary # Absent
  <2>1. file' = temporary /\ temporary' = Absent /\ heard' = heard /\ shared' = shared
    BY <1>2 DEF PutRename
  <2>2. DOMAIN puts' = DOMAIN puts \ {p}
    BY <1>2 DEF PutRename, Without, Restrict
  <2>3. puts' = [x \in DOMAIN puts \ {p} |->
                    IF puts[x].stage = "write" THEN [puts[x] EXCEPT !.on = Renamed[@]]
                    ELSE puts[x]]
    BY <1>2 DEF PutRename, Without, Restrict
  <2>4. ASSUME NEW x \in DOMAIN puts'
        PROVE  /\ puts'[x] \in Puts /\ puts'[x].stage = puts[x].stage
               /\ puts'[x].record = puts[x].record /\ puts'[x].seen = puts[x].seen
    <3>1. puts[x] \in Puts
      BY <2>2 DEF RegistryInv, TypeOK
    <3>2. Renamed[puts[x].on] \in {"temporary", "registry", "unlinked"}
      BY <3>1 DEF Puts, Renamed
    <3> QED
      BY <2>2, <2>3, <3>1, <3>2 DEF Puts
  <2>5. TypeOK'
    <3>1. puts' \in [DOMAIN puts' -> Puts]
      BY <2>2, <2>3, <2>4
    <3> QED
      BY <1>2, <2>1, <2>2, <3>1 DEF RegistryInv, TypeOK
  <2>6. Truthful'
    BY <2>1, <2>2, <2>4, ContentsAre DEF RegistryInv, Truthful
  <2>7. OneWriter'
    <3> SUFFICES ASSUME ~shared PROVE Readable' /\ Writing' = {}
      BY <2>1 DEF OneWriter
    <3>1. p \in Writing /\ \A x \in Writing : x = p
      BY DEF RegistryInv, OneWriter, Writing, PutRename
    <3>2. temporary \in Contents
      BY <3>1 DEF RegistryInv, OneWriter, PutRename
    <3>3. Writing' = {}
      BY <2>2, <2>4, <3>1 DEF Writing
    <3> QED
      BY <2>1, <3>2, <3>3, ContentsAre DEF Readable
  <2> QED
    BY <2>5, <2>6, <2>7 DEF RegistryInv
<1> QED
  BY <1>1, <1>2

\* Time passes while no put is in flight.
LEMMA HeartbeatsKept ==
    ASSUME RegistryInv, HeartbeatsAge
    PROVE  RegistryInv'
<1>1. DOMAIN puts = {} /\ puts' = puts
  BY DEF HeartbeatsAge
<1>2. \A m \in Ages : Older(m) \in Ages /\ \A n \in Ages : m >= n => Older(m) >= Older(n)
  BY RegistryAssumption DEF Ages, Older
<1>3. /\ heard' = [o \in Operators |-> Older(heard[o])] /\ heard' \in [Operators -> Ages]
      /\ heard \in [Operators -> Ages]
  BY <1>2 DEF HeartbeatsAge, RegistryInv, TypeOK
<1>4. file' \in Contents /\ AllHonest(heard', file')
  <2>1. file' = [o \in Listed |-> [file[o] EXCEPT !.beat = Older(@)]]
    BY DEF HeartbeatsAge
  <2>2. ASSUME NEW o \in Listed PROVE file'[o] \in Records /\ Honest(heard', o, file'[o])
    <3>1. o \in Operators /\ file[o] \in Records /\ Honest(heard, o, file[o])
      BY FileRead DEF RegistryInv
    <3>2. file[o].beat \in Ages /\ heard[o] \in Ages /\ file[o].beat >= heard[o]
      BY <1>3, <3>1 DEF Records, Honest
    <3>3. Older(file[o].beat) \in Ages /\ Older(file[o].beat) >= Older(heard[o])
      BY <1>2, <3>2
    <3>4. file'[o] = [file[o] EXCEPT !.beat = Older(file[o].beat)]
      BY <2>1
    <3>5. /\ file'[o] \in Records /\ file'[o].beat = Older(file[o].beat)
          /\ file'[o].rate = file[o].rate /\ file'[o].history = file[o].history
      BY <3>1, <3>3, <3>4 DEF Records
    <3> QED
      BY <1>3, <3>1, <3>3, <3>5 DEF Honest
  <2>3. DOMAIN file' = Listed /\ Listed \subseteq Operators
    BY <2>1, FileRead DEF RegistryInv
  <2>4. file' \in [DOMAIN file' -> Records]
    BY <2>1, <2>2, <2>3
  <2> QED
    BY <2>2, <2>3, <2>4, ContentsAre DEF AllHonest
<1>5. temporary' \in {Absent, Garbage} /\ temporary' \notin Contents
  BY ContentsAre DEF HeartbeatsAge
<1>6. TypeOK'
  BY <1>1, <1>3, <1>4, <1>5 DEF RegistryInv, TypeOK, HeartbeatsAge
<1>7. Truthful'
  BY <1>1, <1>4, <1>5 DEF Truthful
<1>8. OneWriter'
  BY <1>1, <1>4, ContentsAre DEF OneWriter, Readable, Writing
<1> QED
  BY <1>6, <1>7, <1>8 DEF RegistryInv

-----------------------------------------------------------------------------
(* Theorems about the registry. *)

\* The registry starts with a record of its own operator.
LEMMA InitRegistry ==
    ASSUME RegistryInit
    PROVE  RegistryInv
<1> DEFINE record == Registered("OFFLINE", TRUE)
<1>1. /\ file = [o \in {Self} |-> record] /\ temporary = Absent /\ puts = <<>>
      /\ DOMAIN puts = {} /\ heard = [o \in Operators |-> 0] /\ shared = FALSE
  BY DEF RegistryInit
<1>2. record \in Records /\ record.beat = 0 /\ record.rate = FailureRate(record.history)
  BY NewRecords DEF Statuses
<1> HIDE DEF record
<1>3. heard \in [Operators -> Ages] /\ Self \in Operators
  BY <1>1, RegistryAssumption DEF Ages
<1>4. file \in Contents /\ AllHonest(heard, file)
  <2>1. DOMAIN file = {Self} /\ file[Self] = record
    BY <1>1
  <2>2. file \in [DOMAIN file -> Records]
    BY <1>1, <1>2
  <2> QED
    BY <1>1, <1>2, <1>3, <2>1, <2>2, ContentsAre DEF AllHonest, Honest
<1>5. TypeOK
  <2>1. puts \in [DOMAIN puts -> Puts]
    BY <1>1
  <2> QED
    BY <1>1, <1>3, <1>4, <2>1 DEF TypeOK
<1>6. Truthful
  BY <1>1, <1>4, ContentsAre DEF Truthful
<1>7. OneWriter
  BY <1>1, <1>4, ContentsAre DEF OneWriter, Readable, Writing
<1> QED
  BY <1>5, <1>6, <1>7 DEF RegistryInv

\* Every step keeps the invariant.
LEMMA StepRegistry ==
    ASSUME RegistryInv, [RegistryNext]_registryVars
    PROVE  RegistryInv'
<1>1. CASE Poll
  BY <1>1, ListingStarts DEF Poll, Tasks
<1>2. CASE HeartbeatsAge
  BY <1>2, HeartbeatsKept
<1>3. CASE Crash
  BY <1>3, Exited DEF Crash
<1>4. ASSUME NEW t \in Requests, GetOperators(t) PROVE RegistryInv'
  <2>1. t \in Tasks
    BY DEF Tasks
  <2>2. ASSUME NEW o \in Listed, ListOperators(t, {o}) PROVE RegistryInv'
    BY <2>1, <2>2, ListingStarts
  <2> QED
    BY <1>4, <2>1, <2>2, ListingStarts DEF GetOperators
<1>5. ASSUME NEW t \in Requests, RecordOutcome(t) PROVE RegistryInv'
  BY <1>5, OutcomeStarts DEF Tasks
<1>6. ASSUME NEW t \in Requests, NEW o \in Operators, Register(t, o) PROVE RegistryInv'
  <2>1. PICK status \in Chosen, funds \in Reports[o] :
              Start(t, [x \in {o} |-> Registered(status, funds)])
    BY <1>6 DEF Register
  <2>2. status \in Statuses /\ funds \in BOOLEAN /\ t \in Tasks
    BY RegistryAssumption DEF Statuses, Tasks
  <2> DEFINE record == Registered(status, funds)
  <2>3. record \in Records /\ record.beat = 0 /\ record.rate = FailureRate(record.history)
    BY <2>2, NewRecords
  <2>4. Start(t, [x \in {o} |-> record])
    BY <2>1
  <2> HIDE DEF record
  <2> QED
    BY <1>6, <2>2, <2>3, <2>4, HeardStarts DEF Register
<1>7. ASSUME NEW t \in Requests, NEW o \in Operators, Heartbeat(t, o) PROVE RegistryInv'
  <2>1. PICK funds \in Reports[o] : Start(t, [x \in {o} |-> Beaten(file[o], funds)])
    BY <1>7 DEF Heartbeat
  <2>2. funds \in BOOLEAN /\ t \in Tasks
    BY RegistryAssumption DEF Tasks
  <2>3. file[o] \in Records
    BY <1>7, FileRead DEF Heartbeat, RegistryInv
  <2> DEFINE record == Beaten(file[o], funds)
  <2>4. record \in Records /\ record.beat = 0 /\ record.rate = FailureRate(record.history)
    BY <2>2, <2>3, NewRecords
  <2>5. Start(t, [x \in {o} |-> record])
    BY <2>1
  <2> HIDE DEF record
  <2> QED
    BY <1>7, <2>2, <2>4, <2>5, HeardStarts DEF Heartbeat
<1>8. ASSUME NEW p \in DOMAIN puts,
             PutRead(p) \/ PutOpen(p) \/ PutWrite(p) \/ FailWrite(p) \/ PutRename(p)
      PROVE  RegistryInv'
  BY <1>8, PutReads, PutOpens, PutWrites, PutRenames, Thrown DEF FailWrite
<1>9. CASE UNCHANGED registryVars
  BY <1>9 DEF registryVars, RegistryInv, TypeOK, Truthful, OneWriter, Readable, Writing
<1> QED
  BY <1>1, <1>2, <1>3, <1>4, <1>5, <1>6, <1>7, <1>8, <1>9 DEF RegistryNext

\* JsonOperatorRegistryStore: records, files and puts keep their form, no record
\* promises more than was heard of its operator, and only one put at a time has
\* the temporary file in hand until two share it.
THEOREM RegistryKept == RegistrySpec => []RegistryInv
<1>1. RegistryInit => RegistryInv
  BY InitRegistry
<1>2. RegistryInv /\ [RegistryNext]_registryVars => RegistryInv'
  BY StepRegistry
<1> QED
  BY <1>1, <1>2, PTL DEF RegistrySpec

\* Every record keeps at most Window outcomes, whichever updates overwrite one
\* another.
THEOREM RegistryTyped == RegistrySpec => []TypeOK
<1>1. RegistryInv => TypeOK
  BY DEF RegistryInv
<1> QED
  BY <1>1, RegistryKept, PTL

\* put(): the registry can be parsed at every moment, also after a crash or a
\* failed write, as long as no two puts had the temporary file in hand at once.
THEOREM RegistryParses == RegistrySpec => []FileReadable
<1>1. RegistryInv => FileReadable
  BY DEF RegistryInv, OneWriter, FileReadable
<1> QED
  BY <1>1, RegistryKept, PTL

\* list(): an operator that is shown as ONLINE is funded, was heard within the
\* timeout and keeps the failure rate over the outcomes in its record.
THEOREM ListingsHonest == RegistrySpec => []ListingHonest
<1>1. ASSUME RegistryInv PROVE ListingHonest
  <2> SUFFICES ASSUME NEW o \in ListedOnline
               PROVE  /\ file[o].funded /\ heard[o] <= Timeout
                      /\ ~TooHigh(FailureRate(file[o].history))
    BY DEF ListingHonest
  <2>1. o \in Operators /\ file[o] \in Records /\ Honest(heard, o, file[o])
    BY <1>1, FileRead DEF RegistryInv, ListedOnline
  <2>2. ~Unhealthy(file[o]) /\ file[o].status # "OFFLINE"
    BY <2>1, RecordsAreDrafts, Assessed DEF ListedOnline
  <2>3. file[o].funded /\ ~(file[o].beat > Timeout) /\ ~TooHigh(file[o].rate)
    BY <2>1, <2>2 DEF Unhealthy, Records
  <2>4. file[o].beat \in Nat /\ heard[o] \in Nat /\ Timeout \in Nat
    BY <1>1, <2>1, RegistryAssumption DEF Records, Ages, RegistryInv, TypeOK
  <2> QED
    BY <2>1, <2>3, <2>4 DEF Honest
<1> QED
  BY <1>1, RegistryKept, PTL

=============================================================================
