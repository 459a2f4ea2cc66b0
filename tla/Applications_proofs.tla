------------------------- MODULE Applications_proofs -------------------------
(***************************************************************************)
(* Proofs about the two programs beside the relay: the faucet of the web   *)
(* application, for any requests, addresses, leases and days, over either  *)
(* store; and the operator desktop, for any clicks at once.                *)
(***************************************************************************)
EXTENDS Faucet, Desktop, SequenceTheorems, TLAPS

USE FaucetAssumption

-----------------------------------------------------------------------------
(* The inductive invariant. *)

\* No claim that stands in the way of another one.
Claimable(a) == claims[a] = None \/ (claims[a] # Torn /\ claims[a].age = Day)

\* A lock file has its owner at work, and one request at work has it.
FileLocked == store = "file" => \A r \in Requests : At(r, "idle") \/ Owns(r)

\* Who may save has an address to claim, and nobody else can take it.
MayClaim ==
    \A r \in Requests : At(r, "save") /\ MaySave(r) => Claimable(requests[r].address)

\* A request whose payment is still open.
Paying(r) == requests[r].stage \in {"broadcast", "remove"}

\* An open payment stands on the claim of its own request, of the same age, and
\* on no payment of the last day.
Covered ==
    \A r \in Requests : Paying(r) =>
        LET a == requests[r].address IN
        /\ claims[a] \notin {None, Torn} /\ claims[a].age = requests[r].age
        /\ paid[a] = Day

OnePayer ==
    \A r, s \in Requests : r # s /\ Paying(r) /\ Paying(s) =>
        requests[r].address # requests[s].address

\* An address paid within the day has a claim that is no older.
PaidIsClaimed ==
    \A a \in Addresses : paid[a] < Day =>
        claims[a] \notin {None, Torn} /\ claims[a].age <= paid[a]

ClaimsCover ==
    FileLocked /\ MayClaim /\ Covered /\ OnePayer /\ PaidIsClaimed /\ PaidOncePerDay

-----------------------------------------------------------------------------
(* Each step keeps the invariant. *)

\* The faucet starts well typed, with nothing claimed and nothing paid.
LEMMA Start == Init => TypeOK /\ ClaimsCover
  BY DEF Init, TypeOK, Claim, Idle, ClaimsCover, FileLocked, MayClaim, Covered, OnePayer,
         PaidIsClaimed, PaidOncePerDay, Paying, At

\* Every step keeps the types.
LEMMA StepTypes ==
    ASSUME TypeOK, FileLocked, [Next]_vars
    PROVE  TypeOK'
<1> USE DEF TypeOK, Claim, Working, Stages, Idle, At, Owns
<1>1. CASE UNCHANGED vars
  BY <1>1 DEF vars
<1>2. CASE RemoveLock
  BY <1>2 DEF RemoveLock
<1>3. CASE Tick
  <2>1. requests' \in [Requests -> Working \cup {Idle}]
    <3> SUFFICES ASSUME NEW r \in Requests PROVE requests'[r] \in Working \cup {Idle}
      BY <1>3 DEF Tick
    <3>1. CASE At(r, "idle")
      BY <1>3, <3>1 DEF Tick
    <3>2. CASE ~At(r, "idle")
      <4>1. requests[r].age + 1 \in 0 .. Longest
        BY <1>3, <3>2 DEF Tick
      <4> QED
        BY <1>3, <3>2, <4>1 DEF Tick
    <3> QED
      BY <3>1, <3>2
  <2>2. claims' \in [Addresses -> Claim \cup {None, Torn}]
    BY <1>3 DEF Tick, Older
  <2>3. lock' = Free \/ (lock # Free /\ lock' \in {lock, [lock EXCEPT !.age = @ + 1]}
                          /\ lock' \in [owner : Requests \cup {Orphan}, age : 0 .. Lease - 1])
    <3>1. CASE lock = Free \/ store = "file"
      BY <1>3, <3>1 DEF Tick, Leased
    <3>2. CASE ~(lock = Free \/ store = "file") /\ lock.age + 1 = Lease
      BY <1>3, <3>2 DEF Tick, Leased
    <3>3. CASE ~(lock = Free \/ store = "file") /\ lock.age + 1 # Lease
      <4>1. lock.age \in 0 .. Lease - 1 /\ lock.age + 1 \in 0 .. Lease - 1
        BY <3>3
      <4> QED
        BY <1>3, <3>3, <4>1 DEF Tick, Leased
    <3> QED
      BY <3>1, <3>2, <3>3
  <2>4. \A r \in Requests : requests'[r] = Idle => lock' = Free \/ lock'.owner # r
    BY <1>3, <2>3 DEF Tick
  <2>5. paid' \in [Addresses -> 0 .. Day] /\ expired' \subseteq Challenges
    <3>1. \A n \in 0 .. Day : Older(n) \in 0 .. Day
      BY DEF Older
    <3> QED
      BY <1>3, <3>1 DEF Tick
  <2> QED
    BY <1>3, <2>1, <2>2, <2>3, <2>4, <2>5 DEF Tick
<1>4. ASSUME NEW r \in Requests, NEW a \in Addresses, NEW k \in Challenges, Acquire(r, a, k)
      PROVE  TypeOK'
  BY <1>4 DEF Acquire
<1>5. ASSUME NEW r \in Requests, Die(r) PROVE TypeOK'
  BY <1>5 DEF Die, End
<1>6. ASSUME NEW r \in Requests, Step(r) PROVE TypeOK'
  <2>1. CASE Read(r)
    BY <2>1 DEF Read, Goto
  <2>2. CASE Save(r)
    BY <2>2 DEF Save, Goto
  <2>3. CASE FailSave(r)
    BY <2>3 DEF FailSave, Goto
  <2>4. CASE Broadcast(r)
    BY <2>4 DEF Broadcast, Goto, Pay, Keep
  <2>5. CASE RemoveClaim(r)
    BY <2>5 DEF RemoveClaim, Goto
  <2>6. CASE Release(r)
    BY <2>6 DEF Release, End
  <2> QED
    BY <1>6, <2>1, <2>2, <2>3, <2>4, <2>5, <2>6 DEF Step
<1> QED
  BY <1>1, <1>2, <1>3, <1>4, <1>5, <1>6 DEF Next

\* The lock file excludes every other request.
LEMMA StepFileLocked ==
    ASSUME TypeOK, TypeOK', FileLocked, [Next]_vars
    PROVE  FileLocked'
<1> USE DEF TypeOK, Claim, Working, Stages, Idle, At, Owns, FileLocked
<1>1. CASE UNCHANGED vars
  BY <1>1 DEF vars
<1>2. CASE RemoveLock
  BY <1>2 DEF RemoveLock
<1>3. CASE Tick
  BY <1>3 DEF Tick, Leased, Older
<1>4. ASSUME NEW r \in Requests, NEW a \in Addresses, NEW k \in Challenges, Acquire(r, a, k)
      PROVE  FileLocked'
  BY <1>4 DEF Acquire
<1>5. ASSUME NEW r \in Requests, Die(r) PROVE FileLocked'
  BY <1>5 DEF Die, End
<1>6. ASSUME NEW r \in Requests, Step(r) PROVE FileLocked'
  <2>1. CASE Read(r)
    BY <2>1 DEF Read, Goto
  <2>2. CASE Save(r)
    BY <2>2 DEF Save, Goto
  <2>3. CASE FailSave(r)
    BY <2>3 DEF FailSave, Goto
  <2>4. CASE Broadcast(r)
    BY <2>4 DEF Broadcast, Goto, Pay, Keep
  <2>5. CASE RemoveClaim(r)
    BY <2>5 DEF RemoveClaim, Goto
  <2>6. CASE Release(r)
    BY <2>6 DEF Release, End
  <2> QED
    BY <1>6, <2>1, <2>2, <2>3, <2>4, <2>5, <2>6 DEF Step
<1> QED
  BY <1>1, <1>2, <1>3, <1>4, <1>5, <1>6 DEF Next

\* A claim that is not of the last day is a day old.
LEMMA DayOld == \A x \in Claim : ~(x.age < Day) => x.age = Day
<1> TAKE x \in Claim
<1>1. x.age \in 0 .. Day
  BY DEF Claim
<1> QED
  BY <1>1

\* What the holder of the lock has looked up stays true while it holds it.
LEMMA StepMayClaim ==
    ASSUME TypeOK, TypeOK', ClaimsCover, [Next]_vars
    PROVE  MayClaim'
<1> USE DEF TypeOK, Claim, Working, Stages, Idle, At, Owns, ClaimsCover, FileLocked, MayClaim, Claimable, MaySave
<1>1. CASE UNCHANGED vars
  BY <1>1 DEF vars
<1>2. CASE RemoveLock
  BY <1>2 DEF RemoveLock
<1>3. CASE Tick
  BY <1>3 DEF Tick, Leased, Older
<1>4. ASSUME NEW r \in Requests, NEW a \in Addresses, NEW k \in Challenges, Acquire(r, a, k)
      PROVE  MayClaim'
  BY <1>4 DEF Acquire
<1>5. ASSUME NEW r \in Requests, Die(r) PROVE MayClaim'
  BY <1>5 DEF Die, End
<1>6. ASSUME NEW r \in Requests, Step(r) PROVE MayClaim'
  <2>1. CASE Read(r)
    <3>1. ASSUME NEW s \in Requests, At(s, "save")' PROVE At(s, "save") \/ (s = r /\ ~Claimed(r))
      <4>1. ASSUME Goto(r, "release") PROVE s # r
        BY <3>1, <4>1 DEF Goto
      <4>2. s # r => requests'[s] = requests[s]
        BY <2>1 DEF Read, Goto
      <4> QED
        BY <2>1, <3>1, <4>1, <4>2 DEF Read
    <3>2. \A s \in Requests : requests'[s].address = requests[s].address
      BY <2>1 DEF Read, Goto
    <3>3. At(r, "read") /\ ~Claimed(r) => Claimable(requests[r].address)
      <4> SUFFICES ASSUME At(r, "read"), ~Claimed(r) PROVE Claimable(requests[r].address)
        OBVIOUS
      <4>1. requests[r].address \in Addresses
        OBVIOUS
      <4>2. claims[requests[r].address] \in Claim \cup {None, Torn}
        BY <4>1
      <4> QED
        BY <4>2, DayOld DEF Claimed
    <3> QED
      BY <2>1, <3>1, <3>2, <3>3 DEF Read
  <2>2. CASE Save(r)
    BY <2>2 DEF Save, Goto
  <2>3. CASE FailSave(r)
    BY <2>3 DEF FailSave, Goto
  <2>4. CASE Broadcast(r)
    BY <2>4 DEF Broadcast, Goto, Pay, Keep
  <2>5. CASE RemoveClaim(r)
    BY <2>5 DEF RemoveClaim, Goto
  <2>6. CASE Release(r)
    BY <2>6 DEF Release, End
  <2> QED
    BY <1>6, <2>1, <2>2, <2>3, <2>4, <2>5, <2>6 DEF Step
<1> QED
  BY <1>1, <1>2, <1>3, <1>4, <1>5, <1>6 DEF Next

\* An open payment keeps its own claim.
LEMMA StepCovered ==
    ASSUME TypeOK, TypeOK', ClaimsCover, [Next]_vars
    PROVE  (Covered /\ OnePayer)'
<1> USE DEF TypeOK, Claim, Working, Stages, Idle, At, Owns, ClaimsCover, Covered, OnePayer, Paying, MayClaim, Claimable, MaySave, FileLocked, PaidIsClaimed
<1>1. CASE UNCHANGED vars
  BY <1>1 DEF vars
<1>2. CASE RemoveLock
  BY <1>2 DEF RemoveLock
<1>3. CASE Tick
  BY <1>3 DEF Tick, Leased, Older
<1>4. ASSUME NEW r \in Requests, NEW a \in Addresses, NEW k \in Challenges, Acquire(r, a, k)
      PROVE  (Covered /\ OnePayer)'
  BY <1>4 DEF Acquire
<1>5. ASSUME NEW r \in Requests, Die(r) PROVE (Covered /\ OnePayer)'
  BY <1>5 DEF Die, End
<1>6. ASSUME NEW r \in Requests, Step(r) PROVE (Covered /\ OnePayer)'
  <2>1. CASE Read(r)
    BY <2>1 DEF Read, Goto
  <2>2. CASE Save(r)
    BY <2>2 DEF Save, Goto
  <2>3. CASE FailSave(r)
    BY <2>3 DEF FailSave, Goto
  <2>4. CASE Broadcast(r)
    BY <2>4 DEF Broadcast, Goto, Pay, Keep
  <2>5. CASE RemoveClaim(r)
    BY <2>5 DEF RemoveClaim, Goto
  <2>6. CASE Release(r)
    BY <2>6 DEF Release, End
  <2> QED
    BY <1>6, <2>1, <2>2, <2>3, <2>4, <2>5, <2>6 DEF Step
<1> QED
  BY <1>1, <1>2, <1>3, <1>4, <1>5, <1>6 DEF Next

\* A payment keeps a claim for a day.
LEMMA StepPaid ==
    ASSUME TypeOK, TypeOK', ClaimsCover, [Next]_vars
    PROVE  (PaidIsClaimed /\ PaidOncePerDay)'
<1> USE DEF TypeOK, Claim, Working, Stages, Idle, At, Owns, ClaimsCover, Covered, OnePayer, Paying, MayClaim, Claimable, MaySave, FileLocked, PaidIsClaimed, PaidOncePerDay
<1>1. CASE UNCHANGED vars
  BY <1>1 DEF vars
<1>2. CASE RemoveLock
  BY <1>2 DEF RemoveLock
<1>3. CASE Tick
  BY <1>3 DEF Tick, Leased, Older
<1>4. ASSUME NEW r \in Requests, NEW a \in Addresses, NEW k \in Challenges, Acquire(r, a, k)
      PROVE  (PaidIsClaimed /\ PaidOncePerDay)'
  BY <1>4 DEF Acquire
<1>5. ASSUME NEW r \in Requests, Die(r) PROVE (PaidIsClaimed /\ PaidOncePerDay)'
  BY <1>5 DEF Die, End
<1>6. ASSUME NEW r \in Requests, Step(r) PROVE (PaidIsClaimed /\ PaidOncePerDay)'
  <2>1. CASE Read(r)
    BY <2>1 DEF Read, Goto
  <2>2. CASE Save(r)
    BY <2>2 DEF Save, Goto
  <2>3. CASE FailSave(r)
    BY <2>3 DEF FailSave, Goto
  <2>4. CASE Broadcast(r)
    BY <2>4 DEF Broadcast, Goto, Pay, Keep
  <2>5. CASE RemoveClaim(r)
    BY <2>5 DEF RemoveClaim, Goto
  <2>6. CASE Release(r)
    BY <2>6 DEF Release, End
  <2> QED
    BY <1>6, <2>1, <2>2, <2>3, <2>4, <2>5, <2>6 DEF Step
<1> QED
  BY <1>1, <1>2, <1>3, <1>4, <1>5, <1>6 DEF Next

-----------------------------------------------------------------------------
(* What it is for. *)

\* Every claim covers the payments made out of it.
THEOREM AlwaysCovered == Spec => [](TypeOK /\ ClaimsCover)
<1>1. TypeOK /\ ClaimsCover /\ [Next]_vars => TypeOK'
  BY StepTypes DEF ClaimsCover
<1>2. TypeOK /\ ClaimsCover /\ [Next]_vars => ClaimsCover'
  <2> SUFFICES ASSUME TypeOK, ClaimsCover, [Next]_vars PROVE ClaimsCover'
    OBVIOUS
  <2>1. TypeOK'
    BY <1>1
  <2>2. FileLocked'
    BY <2>1, StepFileLocked DEF ClaimsCover
  <2> QED
    BY <2>1, <2>2, StepMayClaim, StepCovered, StepPaid DEF ClaimsCover
<1> QED
  BY Start, <1>1, <1>2, PTL DEF Spec

\* Locks, claims, requests and payments keep their form, and an idle request
\* holds no lock.
THEOREM TypeCorrect == Spec => []TypeOK
  BY AlwaysCovered, PTL

\* No address is paid twice out of claims less than a day apart.
THEOREM PaidOnce == Spec => []PaidOncePerDay
<1>1. ClaimsCover => PaidOncePerDay
  BY DEF ClaimsCover
<1> QED
  BY <1>1, AlwaysCovered, PTL

-----------------------------------------------------------------------------
(* The operator desktop. *)

\* The commands that change units, and all that a click may give.
Switches == {"install", "enable", "disable"}

Commands == Switches \cup {"start", "stop"}

InOrder(s) == \E S : s \in Seq(S)

\* A call is of a refresh that waits for the status, or of a click in hand.
OfPage(call, stage, hands) ==
    \/ call.by = "refresh" /\ call.command = "status" /\ stage = "status"
    \/ /\ call.by \in Clicks /\ hands[call.by] \in Commands
       /\ call.command \in {"status", hands[call.by]}

\* What is between page and main thread: each refresh and each click waits for
\* one call, or for its answer.
Waiting ==
    /\ InOrder(queue) /\ InOrder(answers)
    /\ clicks \in [Clicks -> Commands \cup {"none"}]
    /\ \A i \in DOMAIN queue : OfPage(queue[i], refresh, clicks)
    /\ \A i \in DOMAIN answers : OfPage(answers[i], refresh, clicks)
    /\ \A i, j \in DOMAIN queue : queue[i].by = queue[j].by => i = j
    /\ \A i, j \in DOMAIN answers : answers[i].by = answers[j].by => i = j
    /\ \A i \in DOMAIN queue, j \in DOMAIN answers : queue[i].by # answers[j].by

\* A status that the page has not seen yet shows the units as they are, unless
\* units were changed after it was taken.
StillTrue ==
    \A i \in DOMAIN answers : answers[i].command = "status" =>
        \/ answers[i].state.units = units
        \/ \E j \in DOMAIN answers : j > i /\ answers[j].command \in Switches

\* A click that changes no units does not make the box wrong either.
BoxIsTrue ==
    serviceState # Unknown /\ (\A c \in Clicks : clicks[c] \notin Switches) /\ ~unseen
        => checked = Autostart

PageFollows == Waiting /\ StillTrue /\ BoxIsTrue

\* The end and the beginning of what waits.
LEMMA Appended ==
    ASSUME NEW s, InOrder(s), NEW e
    PROVE  /\ InOrder(Append(s, e)) /\ Len(s) \in Nat /\ DOMAIN s = 1 .. Len(s)
           /\ DOMAIN Append(s, e) = 1 .. Len(s) + 1
           /\ \A i \in 1 .. Len(s) : Append(s, e)[i] = s[i]
           /\ Append(s, e)[Len(s) + 1] = e
<1>1. PICK S : s \in Seq(S)
  BY DEF InOrder
<1>2. s \in Seq(S \cup {e})
  BY <1>1
<1>3. Append(s, e) \in Seq(S \cup {e})
  BY <1>2
<1> QED
  BY <1>2, <1>3 DEF InOrder

LEMMA Taken ==
    ASSUME NEW s, InOrder(s), s # <<>>
    PROVE  /\ InOrder(Tail(s)) /\ Len(s) \in Nat \ {0} /\ DOMAIN s = 1 .. Len(s)
           /\ Head(s) = s[1] /\ DOMAIN Tail(s) = 1 .. Len(s) - 1
           /\ \A i \in 1 .. Len(s) - 1 : Tail(s)[i] = s[i + 1]
<1>1. PICK S : s \in Seq(S)
  BY DEF InOrder
<1>2. Tail(s) \in Seq(S)
  BY <1>1
<1> QED
  BY <1>1, <1>2 DEF InOrder

\* The commands that only start or stop the relay leave the units alone.
LEMMA Untouched ==
    ASSUME NEW command, command \notin Switches, NEW n,
           n \in 0 .. Len(Changes(command))
    PROVE  After(command, n) = units /\ n = 0
<1>1. Changes(command) = <<>>
  BY DEF Changes, Switches
<1>2. n = 0
  BY <1>1
<1>3. DOMAIN SubSeq(Changes(command), 1, n) = {}
  BY <1>1, <1>2
<1> QED
  BY <1>2, <1>3 DEF After, FoldLeft, MapThenFoldSet

\* A call that is made by somebody who waits for none keeps the others.
LEMMA Calls ==
    ASSUME Waiting, NEW by, NEW command, Call(by, command),
           OfPage([by |-> by, command |-> command], refresh', clicks'),
           clicks' \in [Clicks -> Commands \cup {"none"}],
           NEW rest, InOrder(rest), answers' = rest,
           \A j \in DOMAIN rest : rest[j].by # by /\ OfPage(rest[j], refresh', clicks'),
           \A i, j \in DOMAIN rest : rest[i].by = rest[j].by => i = j,
           \A i \in DOMAIN queue : queue[i].by # by /\ OfPage(queue[i], refresh', clicks'),
           \A i \in DOMAIN queue, j \in DOMAIN rest : queue[i].by # rest[j].by
    PROVE  Waiting'
<1> DEFINE e == [by |-> by, command |-> command]
<1>1. queue' = Append(queue, e) /\ e.by = by
  BY DEF Call
<1>2. /\ InOrder(queue') /\ Len(queue) \in Nat /\ DOMAIN queue = 1 .. Len(queue)
      /\ DOMAIN queue' = 1 .. Len(queue) + 1
      /\ \A i \in 1 .. Len(queue) : queue'[i] = queue[i]
      /\ queue'[Len(queue) + 1] = e
  <2> HIDE DEF e
  <2> QED
    BY <1>1, Appended DEF Waiting
<1>3. \A i \in DOMAIN queue' : (i \in DOMAIN queue /\ queue'[i] = queue[i]) \/ queue'[i] = e
  BY <1>2
<1>4. \A i \in DOMAIN queue' : OfPage(queue'[i], refresh', clicks')
  BY <1>3
<1>5. \A i, j \in DOMAIN queue' : queue'[i].by = queue'[j].by => i = j
  <2> HIDE DEF e
  <2> QED
    BY <1>1, <1>2 DEF Waiting
<1>6. \A i \in DOMAIN queue', j \in DOMAIN rest : queue'[i].by # rest[j].by
  BY <1>3, e.by = by
<1> QED
  BY <1>2, <1>4, <1>5, <1>6 DEF Waiting

\* The steps that neither call nor answer.
Aside ==
    \/ Refresh \/ SelectView \/ ProcessChanges \/ NetworkChanges
    \/ \E e \in Endpoints : Probe(e) \/ LoseProbe(e)
    \/ UNCHANGED desktopVars

\* Every step keeps one call or answer for each that waits.
LEMMA StepWaiting ==
    ASSUME Waiting, [DesktopNext]_desktopVars
    PROVE  Waiting'
<1> USE DesktopAssumption
<1>1. CASE Aside
  <2>1. UNCHANGED <<queue, answers, clicks>> /\ (refresh' = refresh \/ refresh = "idle")
    BY <1>1 DEF Aside, Refresh, SelectView, ProcessChanges, NetworkChanges, Probe, LoseProbe,
                Respond, desktopVars, worldVars, shownVars, pageVars
  <2> QED
    BY <2>1 DEF Waiting, OfPage
<1>2. CASE Execute
  <2> DEFINE call == Head(queue)
  <2>1. /\ queue # <<>> /\ queue' = Tail(queue) /\ UNCHANGED <<refresh, clicks>>
        /\ \E answer : /\ answers' = Append(answers, answer)
                       /\ answer.by = call.by /\ answer.command = call.command
    BY <1>2 DEF Execute, pageVars
  <2>2. PICK answer : /\ answers' = Append(answers, answer)
                      /\ answer.by = call.by /\ answer.command = call.command
    BY <2>1
  <2>3. /\ InOrder(queue') /\ Len(queue) \in Nat \ {0} /\ DOMAIN queue = 1 .. Len(queue)
        /\ call = queue[1] /\ DOMAIN queue' = 1 .. Len(queue) - 1
        /\ \A i \in 1 .. Len(queue) - 1 : queue'[i] = queue[i + 1]
    BY <2>1, Taken DEF Waiting
  <2>4. /\ InOrder(answers') /\ Len(answers) \in Nat /\ DOMAIN answers = 1 .. Len(answers)
        /\ DOMAIN answers' = 1 .. Len(answers) + 1
        /\ \A i \in 1 .. Len(answers) : answers'[i] = answers[i]
        /\ answers'[Len(answers) + 1] = answer
    BY <2>2, Appended DEF Waiting
  <2>5. \A i \in DOMAIN queue' : i + 1 \in DOMAIN queue /\ queue'[i] = queue[i + 1]
    BY <2>3
  <2>6. \A i \in DOMAIN answers' :
           (i \in DOMAIN answers /\ answers'[i] = answers[i]) \/ (i = Len(answers) + 1 /\ answers'[i] = answer)
    BY <2>4
  <2>7. /\ \A i \in DOMAIN queue' : OfPage(queue'[i], refresh', clicks')
        /\ \A i \in DOMAIN answers' : OfPage(answers'[i], refresh', clicks')
    BY <2>1, <2>2, <2>3, <2>5, <2>6 DEF Waiting, OfPage
  <2>8. \A i, j \in DOMAIN queue' : queue'[i].by = queue'[j].by => i = j
    BY <2>3, <2>5 DEF Waiting
  <2>9. \A i, j \in DOMAIN answers' : answers'[i].by = answers'[j].by => i = j
    BY <2>2, <2>3, <2>6 DEF Waiting
  <2>10. \A i \in DOMAIN queue', j \in DOMAIN answers' : queue'[i].by # answers'[j].by
    BY <2>2, <2>3, <2>5, <2>6 DEF Waiting
  <2> QED
    BY <2>1, <2>3, <2>4, <2>7, <2>8, <2>9, <2>10 DEF Waiting
<1>3. CASE Render
  <2>1. /\ Call("refresh", "status") /\ refresh = "probing" /\ refresh' = "status"
        /\ UNCHANGED <<answers, clicks>>
    BY <1>3 DEF Render
  <2>2. /\ \A j \in DOMAIN answers : answers[j].by # "refresh" /\ OfPage(answers[j], refresh', clicks')
        /\ \A i \in DOMAIN queue : queue[i].by # "refresh" /\ OfPage(queue[i], refresh', clicks')
    BY <2>1 DEF Waiting, OfPage
  <2>3. OfPage([by |-> "refresh", command |-> "status"], refresh', clicks')
    BY <2>1 DEF OfPage
  <2> QED
    BY <2>1, <2>2, <2>3, Calls DEF Waiting
<1>4. ASSUME NEW c \in Clicks, Click(c) PROVE Waiting'
  <2>1. PICK command \in Commands :
           /\ clicks[c] = "none" /\ clicks' = [clicks EXCEPT ![c] = command]
           /\ Call(c, command) /\ UNCHANGED <<answers, refresh>>
    BY <1>4 DEF Click, Commands, Switches
  <2>2. "none" \notin Commands
    BY DEF Commands, Switches
  <2>3. /\ \A j \in DOMAIN answers : answers[j].by # c /\ OfPage(answers[j], refresh', clicks')
        /\ \A i \in DOMAIN queue : queue[i].by # c /\ OfPage(queue[i], refresh', clicks')
    BY <2>1, <2>2 DEF Waiting, OfPage
  <2>4. OfPage([by |-> c, command |-> command], refresh', clicks')
    BY <2>1 DEF OfPage, Waiting
  <2>5. clicks' \in [Clicks -> Commands \cup {"none"}]
    BY <2>1 DEF Waiting
  <2> QED
    BY <2>1, <2>3, <2>4, <2>5, Calls DEF Waiting
<1>5. CASE answers # <<>> /\ answers' = Tail(answers) /\ (HandleStatus \/ HandleCommand)
  <2> DEFINE answer == Head(answers)
  <2>1. /\ InOrder(answers') /\ Len(answers) \in Nat \ {0} /\ DOMAIN answers = 1 .. Len(answers)
        /\ answer = answers[1] /\ DOMAIN answers' = 1 .. Len(answers) - 1
        /\ \A i \in 1 .. Len(answers) - 1 : answers'[i] = answers[i + 1]
    BY <1>5, Taken DEF Waiting
  <2>2. \A i \in DOMAIN answers' :
           /\ i + 1 \in DOMAIN answers /\ answers'[i] = answers[i + 1]
           /\ answers'[i].by # answer.by /\ OfPage(answers'[i], refresh, clicks)
    BY <2>1 DEF Waiting
  <2>3. \A i, j \in DOMAIN answers' : answers'[i].by = answers'[j].by => i = j
    BY <2>1, <2>2 DEF Waiting
  <2>4. OfPage(answer, refresh, clicks)
    BY <2>1 DEF Waiting
  <2>5. \A i \in DOMAIN queue : queue[i].by # answer.by /\ OfPage(queue[i], refresh, clicks)
    BY <2>1 DEF Waiting
  <2>6. \A i \in DOMAIN queue, j \in DOMAIN answers' : queue[i].by # answers'[j].by
    BY <2>2 DEF Waiting
  <2>7. CASE HandleStatus
    <3>1. /\ refresh' = IF answer.by = "refresh" THEN "idle" ELSE refresh
          /\ clicks' = [c \in Clicks |-> IF c = answer.by THEN "none" ELSE clicks[c]]
          /\ UNCHANGED queue
      BY <2>7 DEF HandleStatus, RefreshAfter
    <3>2. clicks' \in [Clicks -> Commands \cup {"none"}]
      BY <3>1 DEF Waiting
    <3>3. /\ \A i \in DOMAIN answers' : OfPage(answers'[i], refresh', clicks')
          /\ \A i \in DOMAIN queue : OfPage(queue[i], refresh', clicks')
      BY <2>2, <2>5, <3>1 DEF OfPage
    <3> QED
      BY <2>1, <2>3, <2>6, <3>1, <3>2, <3>3 DEF Waiting
  <2>8. CASE HandleCommand
    <3>1. /\ answer.command # "status" /\ UNCHANGED refresh
          /\ \/ Call(answer.by, "status") /\ UNCHANGED clicks
             \/ clicks' = [clicks EXCEPT ![answer.by] = "none"] /\ UNCHANGED queue
      BY <2>8 DEF HandleCommand
    <3>2. answer.by \in Clicks /\ clicks[answer.by] \in Commands
      BY <2>4, <3>1 DEF OfPage
    <3>3. CASE Call(answer.by, "status") /\ UNCHANGED clicks
      <4>1. OfPage([by |-> answer.by, command |-> "status"], refresh', clicks')
        BY <3>2, <3>3 DEF OfPage
      <4>2. /\ \A i \in DOMAIN answers' :
                  answers'[i].by # answer.by /\ OfPage(answers'[i], refresh', clicks')
            /\ \A i \in DOMAIN queue :
                  queue[i].by # answer.by /\ OfPage(queue[i], refresh', clicks')
        BY <2>2, <2>5, <3>1, <3>3
      <4>3. clicks' \in [Clicks -> Commands \cup {"none"}] /\ InOrder(answers')
        BY <2>1, <3>3 DEF Waiting
      <4> DEFINE by == answer.by
      <4> HIDE DEF answer, by
      <4> QED
        BY <2>3, <2>6, <3>3, <4>1, <4>2, <4>3, Calls, Zenon DEF by
    <3>4. CASE clicks' = [clicks EXCEPT ![answer.by] = "none"] /\ UNCHANGED queue
      <4>1. clicks' \in [Clicks -> Commands \cup {"none"}]
        BY <3>4 DEF Waiting
      <4>2. /\ \A i \in DOMAIN answers' : OfPage(answers'[i], refresh', clicks')
            /\ \A i \in DOMAIN queue : OfPage(queue[i], refresh', clicks')
        BY <2>2, <2>5, <3>1, <3>4 DEF OfPage, Waiting
      <4> QED
        BY <2>1, <2>3, <2>6, <3>4, <4>1, <4>2 DEF Waiting
    <3> QED
      BY <3>1, <3>3, <3>4
  <2> QED
    BY <1>5, <2>7, <2>8
<1> QED
  BY <1>1, <1>2, <1>3, <1>4, <1>5 DEF DesktopNext, OwnStep, Aside, HandleStatus, HandleCommand

\* A step that executes nothing leaves the units, and every status that was
\* taken of them, as they were.
LEMMA StepStillTrue ==
    ASSUME Waiting, StillTrue, [DesktopNext]_desktopVars
    PROVE  StillTrue'
<1>1. CASE Aside \/ Render \/ \E c \in Clicks : Click(c)
  BY <1>1 DEF Aside, Render, Click, Refresh, SelectView, ProcessChanges, NetworkChanges, Probe,
              LoseProbe, Respond, desktopVars, worldVars, StillTrue
<1>2. CASE answers # <<>> /\ answers' = Tail(answers) /\ UNCHANGED units
  <2>1. /\ Len(answers) \in Nat \ {0} /\ DOMAIN answers = 1 .. Len(answers)
        /\ DOMAIN answers' = 1 .. Len(answers) - 1
        /\ \A i \in 1 .. Len(answers) - 1 : answers'[i] = answers[i + 1]
    BY <1>2, Taken DEF Waiting
  <2> SUFFICES ASSUME NEW i \in DOMAIN answers', answers'[i].command = "status",
                      answers'[i].state.units # units
               PROVE  \E j \in DOMAIN answers' : j > i /\ answers'[j].command \in Switches
    BY <1>2 DEF StillTrue
  <2>2. i + 1 \in DOMAIN answers /\ answers'[i] = answers[i + 1]
    BY <2>1
  <2>3. PICK j \in DOMAIN answers : j > i + 1 /\ answers[j].command \in Switches
    BY <2>2 DEF StillTrue
  <2>4. j - 1 \in DOMAIN answers' /\ j - 1 > i /\ answers'[j - 1] = answers[j]
    BY <2>1, <2>2, <2>3
  <2> QED
    BY <2>3, <2>4
<1>3. CASE Execute
  <2> DEFINE call == Head(queue)
  <2>1. PICK answer :
           /\ answers' = Append(answers, answer) /\ answer.command = call.command
           /\ call.command = "status" => answer.state.units = units'
           /\ call.command \notin Switches => units' = units
    <3>1. \A n \in 0 .. Len(Changes(call.command)) :
             call.command \notin Switches => After(call.command, n) = units
      BY Untouched
    <3>2. Len(Changes(call.command)) \in Nat
      BY DEF Changes
    <3>3. CASE units' = After(call.command, Len(Changes(call.command)))
               /\ answers' = Append(answers, [by |-> call.by, command |-> call.command,
                                              ok |-> TRUE, state |-> Status'])
      BY <3>1, <3>2, <3>3 DEF Status
    <3>4. CASE /\ call.command # "status"
               /\ \E n \in 0 .. Len(Changes(call.command)) : units' = After(call.command, n)
               /\ answers' = Append(answers, [by |-> call.by, command |-> call.command,
                                              ok |-> FALSE, state |-> Unknown])
      BY <3>1, <3>4
    <3> QED
      BY <1>3, <3>3, <3>4 DEF Execute
  <2>2. /\ Len(answers) \in Nat /\ DOMAIN answers = 1 .. Len(answers)
        /\ DOMAIN answers' = 1 .. Len(answers) + 1
        /\ \A i \in 1 .. Len(answers) : answers'[i] = answers[i]
        /\ answers'[Len(answers) + 1] = answer
    BY <2>1, Appended DEF Waiting
  <2> SUFFICES ASSUME NEW i \in DOMAIN answers', answers'[i].command = "status",
                      answers'[i].state.units # units'
               PROVE  \E j \in DOMAIN answers' : j > i /\ answers'[j].command \in Switches
    BY DEF StillTrue
  <2>3. "status" \notin Switches
    BY DEF Switches
  <2>4. i # Len(answers) + 1
    BY <2>1, <2>2
  <2>5. i \in DOMAIN answers /\ answers'[i] = answers[i]
    BY <2>2, <2>4
  <2>6. CASE answer.command \in Switches
    BY <2>2, <2>5, <2>6
  <2>7. CASE answer.command \notin Switches
    <3>1. units' = units
      BY <2>1, <2>7
    <3>2. PICK j \in DOMAIN answers : j > i /\ answers[j].command \in Switches
      BY <2>5, <3>1 DEF StillTrue
    <3> QED
      BY <2>2, <3>2
  <2> QED
    BY <2>6, <2>7
<1> QED
  BY <1>1, <1>2, <1>3
  DEF DesktopNext, OwnStep, Aside, HandleStatus, HandleCommand, worldVars

\* The box is only left alone, with no click in hand that changes units, where
\* it says what the units do.
LEMMA StepBoxIsTrue ==
    ASSUME Waiting, StillTrue, BoxIsTrue, [DesktopNext]_desktopVars
    PROVE  BoxIsTrue'
<1> USE DesktopAssumption
<1> SUFFICES ASSUME serviceState' # Unknown, ~unseen',
                    \A c \in Clicks : clicks'[c] \notin Switches
             PROVE  checked' = Autostart'
  BY DEF BoxIsTrue
<1>1. CASE UNCHANGED <<units, clicks, shownVars>>
  BY <1>1 DEF BoxIsTrue, Autostart, shownVars
<1>2. CASE Aside \/ Render
  <2>1. UNCHANGED <<units, clicks, serviceState, checked, unseen>>
    BY <1>2 DEF Aside, Render, Refresh, SelectView, ProcessChanges, NetworkChanges, Probe,
                LoseProbe, Respond, desktopVars, worldVars, pageVars, shownVars
  <2> QED
    BY <2>1 DEF BoxIsTrue, Autostart
<1>3. CASE Execute
  <2> DEFINE call == Head(queue)
  <2>1. queue # <<>> /\ UNCHANGED <<clicks, serviceState, checked, unseen>>
    BY <1>3 DEF Execute, pageVars, shownVars
  <2>2. 1 \in DOMAIN queue /\ call = queue[1]
    BY <2>1, Taken DEF Waiting
  <2>3. call.command \notin Switches
    BY <2>1, <2>2 DEF Waiting, OfPage, Switches
  <2>4. units' = units
    <3>1. \A n \in 0 .. Len(Changes(call.command)) : After(call.command, n) = units
      BY <2>3, Untouched
    <3>2. Len(Changes(call.command)) \in Nat
      BY DEF Changes
    <3> QED
      BY <1>3, <3>1, <3>2 DEF Execute
  <2> QED
    BY <2>1, <2>4 DEF BoxIsTrue, Autostart
<1>4. ASSUME NEW c \in Clicks, Click(c) PROVE checked' = Autostart'
  <2>1. PICK command \in Commands :
           /\ clicks[c] = "none" /\ clicks' = [clicks EXCEPT ![c] = command]
           /\ checked' = IF command \in {"enable", "disable"} THEN ~checked ELSE checked
           /\ UNCHANGED <<units, serviceState, unseen>>
    BY <1>4 DEF Click, Commands, Switches, worldVars
  <2>2. command \notin Switches /\ checked' = checked
    BY <2>1 DEF Waiting, Switches
  <2>3. \A x \in Clicks : clicks[x] \notin Switches
    BY <2>1 DEF Waiting, Switches
  <2> QED
    BY <2>1, <2>2, <2>3 DEF BoxIsTrue, Autostart
<1>5. CASE HandleStatus
  <2> DEFINE answer == Head(answers)
  <2>1. /\ answers # <<>> /\ answer.command = "status"
        /\ checked' = \A u \in Units : answer.state.units[u].enabled
        /\ clicks' = [c \in Clicks |-> IF c = answer.by THEN "none" ELSE clicks[c]]
        /\ UNCHANGED units
    BY <1>5 DEF HandleStatus, worldVars
  <2>2. 1 \in DOMAIN answers /\ answer = answers[1] /\ DOMAIN answers = 1 .. Len(answers)
    BY <2>1, Taken DEF Waiting
  <2>3. ASSUME NEW j \in DOMAIN answers, j > 1 PROVE answers[j].command \notin Switches
    <3>1. answers[j].by # answer.by
      BY <2>2, <2>3 DEF Waiting
    <3> QED
      BY <2>1, <3>1 DEF Waiting, OfPage, Switches
  <2>4. answer.state.units = units
    BY <2>1, <2>2, <2>3 DEF StillTrue
  <2> QED
    BY <2>1, <2>4 DEF Autostart
<1>6. CASE HandleCommand
  <2> DEFINE answer == Head(answers)
             c == answer.by
  <2>1. /\ answers # <<>> /\ answer.command # "status"
        /\ serviceState' = IF answer.ok /\ answer.command = "install" THEN answer.state
                           ELSE serviceState
        /\ \/ UNCHANGED <<clicks, unseen>>
           \/ /\ clicks' = [clicks EXCEPT ![c] = "none"] /\ ~AsksStatus(answer)
              /\ unseen' = (unseen \/ answer.command = "install")
        /\ UNCHANGED <<units, checked>>
    BY <1>6 DEF HandleCommand, worldVars
  <2>2. 1 \in DOMAIN answers /\ answer = answers[1]
    BY <2>1, Taken DEF Waiting
  <2>3. c \in Clicks /\ clicks[c] = answer.command
    BY <2>1, <2>2 DEF Waiting, OfPage
  <2>4. answer.command \notin Switches /\ ~unseen
    <3>1. CASE UNCHANGED <<clicks, unseen>>
      BY <2>3, <3>1
    <3>2. CASE ~AsksStatus(answer) /\ unseen' = (unseen \/ answer.command = "install")
      <4>1. ~unseen /\ answer.command # "install"
        BY <3>2
      <4> QED
        BY <3>2, <4>1 DEF AsksStatus, Switches
    <3> QED
      BY <2>1, <3>1, <3>2
  <2>5. serviceState' = serviceState /\ \A x \in Clicks : clicks[x] \notin Switches
    BY <2>1, <2>3, <2>4 DEF Waiting, Switches
  <2> QED
    BY <2>1, <2>4, <2>5 DEF BoxIsTrue, Autostart
<1> QED
  BY <1>2, <1>3, <1>4, <1>5, <1>6 DEF DesktopNext, OwnStep, Aside

\* What waits for the page, and what the page shows, stays true of the units.
THEOREM AlwaysFollows == DesktopSpec => []PageFollows
<1>1. DesktopInit => PageFollows
  <2>1. InOrder(<<>>)
    BY DEF InOrder
  <2>2. ASSUME queue = <<>> PROVE DOMAIN queue = {}
    BY <2>2
  <2>3. ASSUME answers = <<>> PROVE DOMAIN answers = {}
    BY <2>3
  <2> QED
    BY <2>1, <2>2, <2>3 DEF DesktopInit, PageFollows, Waiting, StillTrue, BoxIsTrue
<1>2. PageFollows /\ [DesktopNext]_desktopVars => PageFollows'
  BY StepWaiting, StepStillTrue, StepBoxIsTrue DEF PageFollows
<1> QED
  BY <1>1, <1>2, PTL DEF DesktopSpec

\* The checkbox says what will happen at the next start of the machine whenever
\* no click is under way and no failed install was left unseen, for any number
\* of clicks at once.
THEOREM BoxTells == DesktopSpec => []BoxTellsTruth
<1>1. PageFollows => BoxTellsTruth
  BY DEF PageFollows, BoxIsTrue, BoxTellsTruth, Switches
<1> QED
  BY <1>1, AlwaysFollows, PTL

=============================================================================
