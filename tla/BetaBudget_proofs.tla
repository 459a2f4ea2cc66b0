-------------------------- MODULE BetaBudget_proofs --------------------------
(***************************************************************************)
(* Proofs about BetaBudget for any quotes, fees, quotas and loss cap, any  *)
(* number of handlers, readers and days, and any set of faults.            *)
(***************************************************************************)
EXTENDS BetaBudget, SumTheorems

USE BudgetAssumption

-----------------------------------------------------------------------------
(* The inductive invariant. *)

\* From its reservation to its answer, a handler works on a reserved quote: it
\* signs away the fee that is reserved for it, whatever it had estimated.
Reserved ==
    \A h \in Handlers :
        /\ pc[h] \in {"sign", "attach", "check", "sending"} => job[h] \in Held
        /\ pc[h] = "reserve" => now[h] \in 1 .. MaxDay /\ fee[h] \in Fees
        /\ pc[h] = "sign" => fee[h] = entries[job[h]].fee
        /\ pc[h] \in {"attach", "check", "sending"} => signed[job[h]] = entries[job[h]].fee

\* A quote that is open, or has not come to the signature yet, is not signed for,
\* and no two handlers work on one.
Working == {"reserve", "sign", "attach", "check", "sending", "release"}

Owned ==
    /\ \A h \in Handlers : pc[h] \in Working => job[h] \notin open
    /\ \A h, k \in Handlers :
          h # k /\ pc[h] \in Working /\ pc[k] \in Working => job[h] # job[k]
    /\ \A h \in Handlers : pc[h] \in {"reserve", "sign", "release"} => signed[job[h]] = 0
    /\ \A q \in open : signed[q] = 0

\* What is signed away for a quote is what is reserved for it.
Charged ==
    /\ \A q \in Quotes : signed[q] \in {0, entries[q].fee}
    /\ \A q \in sent : q \in Held /\ signed[q] = entries[q].fee

\* A receipt is only read for a reserved quote, and has an outcome only for a
\* transaction that was sent.
ReadForReserved ==
    \A g \in Readers : seen[g] # None =>
        /\ seen[g].quote \in Held
        /\ seen[g].receipt \in Outcomes => seen[g].quote \in sent

\* The fee reserved for each quote, 0 when there is no entry.
Booked == [q \in Quotes |-> entries[q].fee]

\* A settled entry was charged what is reserved for it.
Settled ==
    \A q \in Quotes :
        /\ entries[q].actual \in {0, entries[q].fee}
        /\ entries[q].outcome # "none" => entries[q].actual = entries[q].fee

\* What is reserved for a day, signed or not, fits its quotas.
Quotas ==
    \A d \in 1 .. MaxDay :
        /\ \A o \in Origins :
              Sum(Outflow, {q \in On(d) : OriginOf[q] = o}) <= WalletDailyLimit
        /\ Sum(Outflow, On(d)) <= DailyLimit
        /\ Sum(Booked, On(d)) <= DailyFeeLimit

\* Reservations no receipt shows to be reimbursed; Uncovered also holds those
\* whose receipt was contradicted later, and can outgrow the cap.
Owed == {q \in Held : entries[q].outcome # "success"}

Losses == Sum(Booked, Owed) <= LossCap

Handling == Reserved /\ Owned /\ Charged /\ ReadForReserved

Ledger == IsFiniteSet(Held) /\ Handling /\ Settled /\ Quotas /\ Losses

-----------------------------------------------------------------------------
(* Entries. *)

\* Entries that count for the same.
AlikeEntries(e, f) ==
    e.day = f.day /\ e.fee = f.fee /\ e.outcome = f.outcome /\ e.actual = f.actual

\* An entry whose transaction or failure changes is an entry, with the same
\* day, fee, outcome and charge.
LEMMA EntryFields ==
    ASSUME NEW e \in Entry
    PROVE  /\ [e EXCEPT !.txid = TRUE] \in Entry
           /\ AlikeEntries([e EXCEPT !.txid = TRUE], e)
           /\ \A code \in {"none", "other", "accounting"} :
                 /\ [e EXCEPT !.failure = code] \in Entry
                 /\ AlikeEntries([e EXCEPT !.failure = code], e)
  BY DEF Entry, AlikeEntries

\* Fees are numbers.
LEMMA FeeTypes ==
    /\ \A e \in Entry : e.fee \in Nat
    /\ \A f \in Fees \cup {0} : f \in Nat
<1>1. \A f \in Fees \cup {0} : f \in Nat
  OBVIOUS
<1>2. \A e \in Entry : e.fee \in Fees \cup {0}
  BY DEF Entry
<1> QED
  BY <1>1, <1>2

\* A new entry.
Fresh(d, f) == [Absent EXCEPT !.day = d, !.fee = f]

LEMMA NewEntry ==
    ASSUME NEW d \in 1 .. MaxDay, NEW f \in Fees
    PROVE  /\ Absent \in Entry /\ Absent.day = 0 /\ Absent.outcome = "none"
           /\ Absent.fee = 0 /\ Absent.actual = 0
           /\ Fresh(d, f) \in Entry
           /\ Fresh(d, f).day = d /\ Fresh(d, f).fee = f
           /\ Fresh(d, f).outcome = "none" /\ Fresh(d, f).actual = 0
<1>1. Absent \in Entry /\ Absent.day = 0 /\ Absent.outcome = "none"
      /\ Absent.fee = 0 /\ Absent.actual = 0
  BY DEF Absent, Entry
<1> DEFINE a == Absent
           e == [a EXCEPT !.day = d, !.fee = f]
<1>2. d \in 0 .. MaxDay /\ f \in Fees \cup {0}
  OBVIOUS
<1>3. a \in Entry /\ a.outcome = "none" /\ a.actual = 0
  BY <1>1
<1> HIDE DEF a
<1>4. e \in Entry /\ e.day = d /\ e.fee = f /\ e.outcome = "none" /\ e.actual = 0
  BY <1>2, <1>3 DEF Entry
<1>5. Fresh(d, f) = e
  BY DEF Fresh, a
<1> QED
  BY <1>1, <1>4, <1>5

\* What the types say of the ledger.
EntryTypes ==
    /\ entries \in [Quotes -> Entry]
    /\ \A q \in Quotes : entries[q].day = 0 => entries[q] = Absent

\* Days and fees stay, and settled outcomes.
Kept ==
    \A q \in Quotes :
        /\ entries'[q].day = entries[q].day
        /\ entries'[q].fee = entries[q].fee
        /\ entries[q].outcome # "none" => entries'[q].outcome = entries[q].outcome

\* A new reservation that its day's quotas and the loss cap admit.
Opens(q, f, d) ==
    /\ q \notin Held /\ Admits(q, f, d)
    /\ entries' = [entries EXCEPT ![q] = Fresh(d, f)]

\* An entry that is replaced by one of the same day and fee keeps the types.
LEMMA Replaced ==
    ASSUME TypeOK, Settled, NEW q \in Held, NEW e \in Entry, NEW written,
           e.day = entries[q].day, e.fee = entries[q].fee,
           entries[q].outcome # "none" => e.outcome = entries[q].outcome,
           e.actual \in {0, e.fee}, e.outcome # "none" => e.actual = e.fee,
           Save(q, e, written)
    PROVE  EntryTypes' /\ Settled' /\ Kept
<1>1. q \in Quotes /\ entries[q].day # 0
  BY DEF Held
<1>2. entries' = entries \/ entries' = [entries EXCEPT ![q] = e]
  BY DEF Save
<1>3. CASE entries' = entries
  BY <1>3 DEF TypeOK, EntryTypes, Kept, Settled
<1>4. CASE entries' = [entries EXCEPT ![q] = e]
  <2>1. \A u \in Quotes : entries'[u] = IF u = q THEN e ELSE entries[u]
    BY <1>4 DEF TypeOK
  <2>2. entries' \in [Quotes -> Entry]
    BY <1>4 DEF TypeOK
  <2> QED
    BY <1>1, <2>1, <2>2 DEF TypeOK, EntryTypes, Kept, Settled
<1> QED
  BY <1>2, <1>3, <1>4

\* So does one that differs in nothing that counts.
LEMMA ReplacedAlike ==
    ASSUME TypeOK, Settled, NEW q \in Held, NEW e \in Entry, NEW written,
           AlikeEntries(e, entries[q]), Save(q, e, written)
    PROVE  EntryTypes' /\ Settled' /\ Kept
<1>1. q \in Quotes
  BY DEF Held
<1> QED
  BY <1>1, Replaced DEF AlikeEntries, Settled

\* What recordFailure() does to the ledger.
LEMMA NotedKeeps ==
    ASSUME TypeOK, Settled, NEW q \in Quotes, NEW code \in {"other", "accounting"},
           NEW written, Noted(q, code, written)
    PROVE  EntryTypes' /\ Settled' /\ Kept
<1>1. CASE q \in Held
  <2>1. entries[q] \in Entry
    BY DEF TypeOK
  <2> QED
    BY <1>1, <2>1, EntryFields, ReplacedAlike DEF Noted
<1>2. CASE q \notin Held
  BY <1>2 DEF Noted, TypeOK, EntryTypes, Settled, Kept
<1> QED
  BY <1>1, <1>2

\* Every step leaves the ledger's days, fees and outcomes alone, or opens an entry.
LEMMA LedgerMoves ==
    ASSUME TypeOK, Handling, Settled, [Next]_vars
    PROVE  /\ EntryTypes' /\ Settled'
           /\ \/ Kept
              \/ \E h \in Handlers :
                    pc[h] = "reserve" /\ job[h] \in Quotes /\ Opens(job[h], fee[h], now[h])
<1> USE DEF Handling
<1>1. ASSUME UNCHANGED entries PROVE EntryTypes' /\ Settled' /\ Kept
  BY <1>1 DEF EntryTypes, Settled, Kept, TypeOK
<1>2. ASSUME NEW h \in Handlers, Reserve(h)
      PROVE  /\ EntryTypes' /\ Settled'
             /\ \/ Kept
                \/ pc[h] = "reserve" /\ job[h] \in Quotes /\ Opens(job[h], fee[h], now[h])
  <2>1. pc[h] = "reserve" /\ now[h] \in 1 .. MaxDay /\ fee[h] \in Fees /\ job[h] \in Quotes
    BY <1>2 DEF Reserve, At, Reserved, TypeOK
  <2>2. \/ UNCHANGED entries
        \/ Opens(job[h], fee[h], now[h])
    BY <1>2 DEF Reserve, Save, Opens, Fresh
  <2>3. ASSUME Opens(job[h], fee[h], now[h]) PROVE EntryTypes' /\ Settled'
    <3> DEFINE e == Fresh(now[h], fee[h])
    <3>1. \A u \in Quotes : entries'[u] = IF u = job[h] THEN e ELSE entries[u]
      BY <2>1, <2>3 DEF Opens, TypeOK
    <3>2. entries' \in [Quotes -> Entry]
      BY <2>1, <2>3, NewEntry DEF Opens, TypeOK
    <3>3. e.day # 0 /\ e.outcome = "none" /\ e.actual = 0
      BY <2>1, NewEntry
    <3> HIDE DEF e
    <3> QED
      BY <3>1, <3>2, <3>3 DEF EntryTypes, Settled, TypeOK
  <2> QED
    BY <1>1, <2>1, <2>2, <2>3
<1>3. ASSUME NEW h \in Handlers, Attach(h) PROVE EntryTypes' /\ Settled' /\ Kept
  <2>1. job[h] \in Held /\ job[h] \in Quotes
    BY <1>3 DEF Attach, At, Reserved, Held
  <2>2. entries[job[h]] \in Entry
    BY <2>1 DEF TypeOK
  <2>3. PICK written \in WriteOutcomes : Save(job[h], [entries[job[h]] EXCEPT !.txid = TRUE], written)
    BY <1>3 DEF Attach
  <2> QED
    BY <2>1, <2>2, <2>3, EntryFields, ReplacedAlike
<1>4. ASSUME NEW h \in Handlers, RecordFailure(h) PROVE EntryTypes' /\ Settled' /\ Kept
  <2>1. job[h] \in Quotes
    BY <1>4 DEF RecordFailure, TypeOK
  <2>2. PICK written \in WriteOutcomes : Noted(job[h], "other", written)
    BY <1>4 DEF RecordFailure
  <2> QED
    BY <2>1, <2>2, NotedKeeps
<1>5. ASSUME NEW g \in Readers, RecordContradiction(g) PROVE EntryTypes' /\ Settled' /\ Kept
  <2>1. seen[g].quote \in Quotes
    BY <1>5 DEF RecordContradiction, TypeOK
  <2>2. PICK written \in WriteOutcomes : Noted(seen[g].quote, "accounting", written)
    BY <1>5 DEF RecordContradiction
  <2> QED
    BY <2>1, <2>2, NotedKeeps
<1>6. ASSUME NEW g \in Readers, Settle(g) PROVE EntryTypes' /\ Settled' /\ Kept
  <2> DEFINE q == seen[g].quote
             outcome == seen[g].receipt
             x == [entries[q] EXCEPT !.outcome = outcome, !.actual = signed[q],
                             !.failure = IF @ = "accounting" THEN "none" ELSE @]
  <2>1. q \in Held /\ q \in Quotes /\ outcome \in Outcomes /\ signed[q] = entries[q].fee
    BY <1>6 DEF Settle, ReadForReserved, Charged, Held
  <2>2. entries[q].outcome # "none" => outcome = entries[q].outcome
    BY <1>6 DEF Settle, Contradicts
  <2>3. PICK written \in WriteOutcomes : Save(q, x, written)
    BY <1>6 DEF Settle
  <2>4. entries[q] \in Entry /\ signed[q] \in Nat
    BY <2>1 DEF TypeOK
  <2>5. x \in Entry /\ x.day = entries[q].day /\ x.fee = entries[q].fee
        /\ x.outcome = outcome /\ x.actual = entries[q].fee
    <3> DEFINE e == entries[q]
               f == signed[q]
    <3>1. e \in Entry /\ outcome \in Outcomes /\ f \in Nat /\ f = e.fee
      BY <2>1, <2>4
    <3>2. x = [e EXCEPT !.outcome = outcome, !.actual = f,
                        !.failure = IF @ = "accounting" THEN "none" ELSE @]
      OBVIOUS
    <3> HIDE DEF e, f, x, outcome
    <3>3. x \in Entry /\ x.day = e.day /\ x.fee = e.fee /\ x.outcome = outcome /\ x.actual = e.fee
      BY <3>1, <3>2 DEF Entry, Outcomes
    <3> QED
      BY <3>3 DEF e
  <2> HIDE DEF q, outcome, x
  <2> QED
    BY <2>1, <2>2, <2>3, <2>5, Replaced
<1>7. ASSUME \/ UNCHANGED vars \/ NextDay \/ Crash
             \/ \E h \in Handlers :
                   \/ RefuseToSign(h) \/ Sign(h) \/ FailCheck(h) \/ Send(h) \/ AnswerLost(h)
                   \/ Complete(h) \/ Release(h) \/ \E q \in Quotes : Begin(h, q)
             \/ \E g \in Readers :
                   \/ Contradict(g) \/ Ignore(g) \/ \E q \in Quotes : ReadReceipt(g, q)
      PROVE  UNCHANGED entries
  BY <1>7 DEF vars, NextDay, Crash, RefuseToSign, Sign, FailCheck, Send, AnswerLost, Complete,
     Release, Begin, Contradict, Ignore, ReadReceipt
<1> QED
  BY <1>1, <1>2, <1>3, <1>4, <1>5, <1>6, <1>7 DEF Next, HandlerStep, ReaderStep

-----------------------------------------------------------------------------
(* Handlers and readers. *)

\* What the types say of everything else.
OtherTypes ==
    /\ day \in 1 .. MaxDay
    /\ open \subseteq Quotes
    /\ signed \in [Quotes -> Nat]
    /\ sent \subseteq Quotes
    /\ pc \in [Handlers -> PCs]
    /\ job \in [Handlers -> Quotes \cup {None}]
    /\ \A h \in Handlers : job[h] = None <=> pc[h] = "idle"
    /\ now \in [Handlers -> 0 .. MaxDay]
    /\ fee \in [Handlers -> Fees \cup {0}]
    /\ seen \in [Readers -> [quote : Quotes, receipt : Receipts] \cup {None}]

\* Every step keeps the other types.
LEMMA StepOther ==
    ASSUME TypeOK, [Next]_vars
    PROVE  OtherTypes'
<1> USE DEF TypeOK, OtherTypes, PCs, worldVars, handlerVars, At, Finish
<1>1. CASE UNCHANGED vars
  BY <1>1 DEF vars
<1>2. CASE NextDay
  BY <1>2 DEF NextDay
<1>3. CASE Crash
  BY <1>3 DEF Crash
<1>4. ASSUME NEW h \in Handlers, HandlerStep(h) PROVE OtherTypes'
  <2>1. ASSUME NEW q \in Quotes, Begin(h, q) PROVE OtherTypes'
    BY <2>1 DEF Begin
  <2>2. CASE Reserve(h)
    BY <2>2 DEF Reserve
  <2>3. CASE RefuseToSign(h) \/ FailCheck(h) \/ AnswerLost(h)
    BY <2>3 DEF RefuseToSign, FailCheck, AnswerLost
  <2>4. CASE Sign(h)
    <3>1. job[h] \in Quotes
      BY <2>4 DEF Sign
    <3>2. signed[job[h]] \in Nat /\ fee[h] \in Nat
      BY <3>1, FeeTypes
    <3> QED
      BY <2>4, <3>1, <3>2 DEF Sign
  <2>5. CASE Attach(h)
    BY <2>5 DEF Attach
  <2>6. CASE Send(h)
    BY <2>6 DEF Send
  <2>7. CASE Complete(h)
    BY <2>7 DEF Complete
  <2>8. CASE Release(h)
    BY <2>8 DEF Release
  <2>9. CASE RecordFailure(h)
    BY <2>9 DEF RecordFailure
  <2> QED
    BY <1>4, <2>1, <2>2, <2>3, <2>4, <2>5, <2>6, <2>7, <2>8, <2>9 DEF HandlerStep
<1>5. ASSUME NEW g \in Readers, ReaderStep(g) PROVE OtherTypes'
  <2>1. ASSUME NEW q \in Quotes, ReadReceipt(g, q) PROVE OtherTypes'
    BY <2>1 DEF ReadReceipt, Answers, Receipts, Outcomes
  <2>2. CASE Contradict(g)
    BY <2>2 DEF Contradict, Receipts
  <2>3. CASE RecordContradiction(g) \/ Settle(g) \/ Ignore(g)
    BY <2>3 DEF RecordContradiction, Settle, Ignore
  <2> QED
    BY <1>5, <2>1, <2>2, <2>3 DEF ReaderStep
<1> QED
  BY <1>1, <1>2, <1>3, <1>4, <1>5 DEF Next

-----------------------------------------------------------------------------
(* Reservations. *)

\* Nothing that is held is ever given up, nor its fee changed.
FeesKept == \A q \in Held : q \in Held' /\ entries'[q].fee = entries[q].fee

LEMMA HeldGrows ==
    ASSUME TypeOK,
           \/ Kept
           \/ \E h \in Handlers :
                 Opens(job[h], fee[h], now[h]) /\ now[h] \in 1 .. MaxDay /\ fee[h] \in Fees
    PROVE  FeesKept
<1>1. CASE Kept
  BY <1>1 DEF Kept, Held, FeesKept
<1>2. ASSUME NEW h \in Handlers, Opens(job[h], fee[h], now[h]) PROVE FeesKept
  BY <1>2 DEF Opens, Held, TypeOK, FeesKept
<1> QED
  BY <1>1, <1>2

\* A handler that starts to sign has its reservation, old or new, at the fee it
\* is going to sign.
LEMMA ReserveHolds ==
    ASSUME TypeOK, Reserved, NEW h \in Handlers, Reserve(h), pc'[h] # "release"
    PROVE  job[h] \in Held' /\ fee'[h] = entries'[job[h]].fee
<1>1. /\ pc[h] = "reserve" /\ now[h] \in 1 .. MaxDay /\ fee[h] \in Fees /\ job[h] \in Quotes
      /\ pc'[h] = "sign" /\ fee'[h] = fee[h]
  BY DEF Reserve, At, Reserved, TypeOK
<1>2. CASE job[h] \in Held
  BY <1>1, <1>2 DEF Reserve, At, Held, Serves, TypeOK
<1>3. CASE job[h] \notin Held
  <2>1. entries' = [entries EXCEPT ![job[h]] = Fresh(now[h], fee[h])]
    BY <1>1, <1>3 DEF Reserve, At, Save, TypeOK, Fresh
  <2>2. entries'[job[h]] = Fresh(now[h], fee[h])
    BY <1>1, <2>1 DEF TypeOK
  <2>3. Fresh(now[h], fee[h]).day # 0 /\ Fresh(now[h], fee[h]).fee = fee[h]
    <3> DEFINE d == now[h]
               f == fee[h]
    <3>1. d \in 1 .. MaxDay /\ f \in Fees
      BY <1>1
    <3> HIDE DEF d, f
    <3>2. Fresh(d, f).day # 0 /\ Fresh(d, f).fee = f
      BY <3>1, NewEntry
    <3> QED
      BY <3>2 DEF d, f
  <2> QED
    BY <1>1, <2>2, <2>3 DEF Held
<1> QED
  BY <1>2, <1>3

\* Handlers, signatures and receipts stay those of reserved quotes.
LEMMA StepHandling ==
    ASSUME TypeOK, Handling, FeesKept, EntryTypes', [Next]_vars
    PROVE  Handling'
<1> USE DEF TypeOK, PCs, Handling, Reserved, Owned, Working, Charged, ReadForReserved,
            worldVars, handlerVars, At, Finish, FeesKept
<1>6. \A q \in Quotes \ Held : signed[q] = 0
  BY DEF Held, Absent
<1>1. CASE UNCHANGED vars
  BY <1>1 DEF vars
<1>2. CASE NextDay
  BY <1>2 DEF NextDay
<1>3. CASE Crash
  BY <1>3 DEF Crash
<1>4. ASSUME NEW h \in Handlers, HandlerStep(h) PROVE Handling'
  <2>1. ASSUME NEW q \in Quotes, Begin(h, q) PROVE Handling'
    BY <2>1 DEF Begin
  <2>2. CASE Reserve(h)
    <3>1. UNCHANGED <<open, signed, sent, job, seen>>
          /\ pc' \in {[pc EXCEPT ![h] = to] : to \in {"sign", "release"}}
      BY <2>2 DEF Reserve
    <3>2. pc'[h] # "release" => job[h] \in Held' /\ fee'[h] = entries'[job[h]].fee
      BY <2>2, ReserveHolds
    <3>3. /\ pc[h] = "reserve"
          /\ now' = [now EXCEPT ![h] = 0]
          /\ \A k \in Handlers \ {h} : fee'[k] = fee[k]
      BY <2>2 DEF Reserve
    <3>4. job[h] \in Quotes
      BY <3>3
    <3>5. (Reserved /\ Owned)'
      BY <3>1, <3>2, <3>3, <3>4
    <3>6. (Charged /\ ReadForReserved)'
      BY <1>6, <3>1
    <3> QED
      BY <3>5, <3>6
  <2>3. CASE RefuseToSign(h) \/ FailCheck(h) \/ AnswerLost(h)
    BY <2>3 DEF RefuseToSign, FailCheck, AnswerLost
  <2>4. CASE Sign(h)
    <3>1. /\ pc[h] = "sign" /\ pc' = [pc EXCEPT ![h] = "attach"]
          /\ UNCHANGED <<entries, open, sent, job, seen>>
          /\ job[h] \in Quotes /\ job[h] \in Held
          /\ now' = [now EXCEPT ![h] = 0] /\ \A k \in Handlers \ {h} : fee'[k] = fee[k]
      BY <2>4 DEF Sign
    <3>2. signed' = [signed EXCEPT ![job[h]] = entries[job[h]].fee]
      <4>1. signed[job[h]] = 0 /\ fee[h] = entries[job[h]].fee /\ fee[h] \in Nat
        BY <3>1, FeeTypes
      <4>2. signed[job[h]] + fee[h] = entries[job[h]].fee
        BY <4>1
      <4>3. signed' = [signed EXCEPT ![job[h]] = signed[job[h]] + fee[h]]
        BY <2>4 DEF Sign
      <4> QED
        BY <4>2, <4>3
    <3>3. job[h] \notin sent \/ signed'[job[h]] = entries'[job[h]].fee
      BY <3>1, <3>2
    <3>4. Held' = Held
      BY <3>1 DEF Held
    <3> QED
      BY <3>1, <3>2, <3>3, <3>4
  <2>5. CASE Attach(h)
    BY <1>6, <2>5 DEF Attach
  <2>6. CASE Send(h)
    BY <2>6 DEF Send
  <2>7. CASE Complete(h)
    BY <2>7 DEF Complete
  <2>8. CASE Release(h)
    BY <2>8 DEF Release
  <2>9. CASE RecordFailure(h)
    BY <1>6, <2>9 DEF RecordFailure
  <2> QED
    BY <1>4, <2>1, <2>2, <2>3, <2>4, <2>5, <2>6, <2>7, <2>8, <2>9 DEF HandlerStep
<1>5. ASSUME NEW g \in Readers, ReaderStep(g) PROVE Handling'
  <2>1. ASSUME NEW q \in Quotes, ReadReceipt(g, q) PROVE Handling'
    <3>1. q \in Held
      BY <2>1 DEF ReadReceipt, Held, Absent
    <3>2. PICK receipt \in Answers(q) : seen' = [seen EXCEPT ![g] = [quote |-> q, receipt |-> receipt]]
      BY <2>1 DEF ReadReceipt
    <3>3. UNCHANGED <<entries, worldVars, handlerVars>>
      BY <2>1 DEF ReadReceipt
    <3>4. receipt \in Outcomes => q \in sent
      BY DEF Answers, Outcomes
    <3> QED
      BY <3>1, <3>2, <3>3, <3>4
  <2>2. CASE Contradict(g)
    <3>1. /\ UNCHANGED <<entries, worldVars, handlerVars>>
          /\ seen'[g].quote = seen[g].quote /\ seen[g] # None
          /\ seen'[g].receipt = "rejected"
          /\ \A r \in Readers \ {g} : seen'[r] = seen[r]
      BY <2>2 DEF Contradict
    <3> QED
      BY <3>1 DEF Outcomes
  <2>3. CASE RecordContradiction(g) \/ Settle(g) \/ Ignore(g)
    BY <1>6, <2>3 DEF RecordContradiction, Settle, Ignore
  <2> QED
    BY <1>5, <2>1, <2>2, <2>3 DEF ReaderStep
<1> QED
  BY <1>1, <1>2, <1>3, <1>4, <1>5 DEF Next

-----------------------------------------------------------------------------
(* Quotas and losses. *)

\* The module's sums are those of SumTheorems.
LEMMA SumIsOver == \A of, S : Sum(of, S) = SumOver(of, S)
  BY DEF Sum, SumOver

\* Amounts and fees can be summed over any quotes.
LEMMA Amounts == \A S \in SUBSET Quotes : Counts(Outflow, S)
  BY DEF Counts

LEMMA FeesCount ==
    ASSUME EntryTypes
    PROVE  \A S \in SUBSET Quotes : Counts(Booked, S)
<1>1. \A q \in Quotes : entries[q].fee \in Nat
  BY FeeTypes DEF EntryTypes
<1> QED
  BY <1>1 DEF Counts, Booked

\* Settled or not, an entry counts for the fee that is reserved for it.
LEMMA CostIsBooked ==
    ASSUME TypeOK, Settled
    PROVE  Cost = Booked
<1> SUFFICES ASSUME NEW q \in Quotes PROVE Cost[q] = Booked[q]
  BY DEF Cost, Booked
<1>1. entries[q].fee \in Nat /\ entries[q].actual \in {0, entries[q].fee}
  BY FeeTypes DEF TypeOK, Settled
<1>2. Larger(entries[q].actual, entries[q].fee) = entries[q].fee
  BY <1>1 DEF Larger
<1>3. Cost[q] = CASE entries[q].failure = "accounting" ->
                       Larger(entries[q].actual, entries[q].fee)
                  [] entries[q].failure # "accounting" /\ entries[q].outcome # "none" ->
                       entries[q].actual
                  [] OTHER -> entries[q].fee
  BY DEF Cost
<1> QED
  BY <1>2, <1>3 DEF Settled, Booked

\* One more quote in a sum that has room for it.
LEMMA RoomForOne ==
    ASSUME NEW f, NEW S, IsFiniteSet(S), NEW q, q \notin S, Counts(f, S \cup {q}),
           NEW limit, Sum(f, S) + f[q] <= limit, NEW T, T = S \cup {q}
    PROVE  Sum(f, T) <= limit
  BY SumAdd, SumIsOver

\* A part of what fits, fits.
LEMMA PartFits ==
    ASSUME NEW f, NEW S, IsFiniteSet(S), Counts(f, S), NEW limit \in Nat,
           Sum(f, S) <= limit, NEW T \in SUBSET S
    PROVE  Sum(f, T) <= limit
<1>1. SumOver(f, T) <= SumOver(f, S) /\ SumOver(f, S) \in Nat
  BY SumSubset, SumType
<1>2. IsFiniteSet(T) /\ Counts(f, T)
  BY FS_Subset DEF Counts
<1>3. SumOver(f, T) \in Nat
  BY <1>2, SumType
<1> QED
  BY <1>1, <1>3, SumIsOver

\* While entries keep their days and outcomes, quotas and cap hold.
LEMMA KeptFits ==
    ASSUME TypeOK, EntryTypes', Kept, IsFiniteSet(Held), Quotas, Losses
    PROVE  IsFiniteSet(Held)' /\ Quotas' /\ Losses'
<1>1. Held' = Held
  BY DEF Kept, Held
<1>2. \A d : On(d)' = On(d)
  BY <1>1 DEF Kept, On, Held
<1>3. Owed' \subseteq Owed
  BY <1>1 DEF Owed, Kept, Held
<1>4. Booked' = Booked
  BY DEF Kept, Booked
<1>5. Losses'
  <2>1. IsFiniteSet(Owed) /\ Owed \subseteq Quotes /\ EntryTypes
    BY FS_Subset DEF Owed, Held, TypeOK, EntryTypes
  <2>2. Sum(Booked, Owed') <= LossCap
    BY <1>3, <2>1, FeesCount, PartFits DEF Losses
  <2> QED
    BY <1>4, <2>2 DEF Losses
<1>6. Quotas'
  BY <1>2, <1>4 DEF Quotas
<1> QED
  BY <1>1, <1>5, <1>6

\* What reserve() admits fits.
LEMMA OpensFits ==
    ASSUME TypeOK, EntryTypes', IsFiniteSet(Held), Settled, Quotas, Losses,
           NEW q \in Quotes, NEW f \in Fees, NEW day0 \in 1 .. MaxDay, Opens(q, f, day0)
    PROVE  IsFiniteSet(Held)' /\ Quotas' /\ Losses'
<1>1. /\ q \notin Held /\ Admits(q, f, day0)
      /\ \A u \in Quotes : entries'[u] = IF u = q THEN Fresh(day0, f) ELSE entries[u]
  BY DEF Opens, TypeOK
<1>2. /\ entries'[q].day = day0 /\ entries'[q].outcome = "none" /\ day0 # 0
      /\ entries'[q].fee = f
  <2>1. Fresh(day0, f).day = day0 /\ Fresh(day0, f).outcome = "none" /\ Fresh(day0, f).fee = f
    BY NewEntry
  <2>2. entries'[q] = Fresh(day0, f)
    BY <1>1
  <2> QED
    BY <2>1, <2>2
<1>3. Held' = Held \cup {q}
  BY <1>1, <1>2 DEF Held
<1>4. IsFiniteSet(Held)'
  BY <1>3, FS_AddElement
<1>5. /\ On(day0)' = On(day0) \cup {q} /\ q \notin On(day0)
      /\ \A d \in 1 .. MaxDay : d # day0 => On(d)' = On(d)
  BY <1>1, <1>2, <1>3 DEF On, Held
<1>6. \A S \in SUBSET Held : IsFiniteSet(S) /\ S \subseteq Quotes
  BY FS_Subset DEF Held
<1> DEFINE B == Booked'
<1>11. B[q] = f /\ \A S \in SUBSET Quotes : Counts(B, S)
  <2>1. B[q] = f
    BY <1>2 DEF Booked
  <2>2. \A u \in Quotes : entries'[u].fee \in Nat
    BY FeeTypes DEF EntryTypes
  <2> QED
    BY <2>1, <2>2 DEF Counts, Booked
<1>12. \A S \in SUBSET Held : Sum(B, S) = Sum(Booked, S)
  <2>1. \A S \in SUBSET Held : Alike(B, Booked, S)
    BY <1>1 DEF Alike, Booked, Held
  <2> HIDE DEF B
  <2> QED
    BY <1>6, <2>1, SumSame, SumIsOver
<1>7. Quotas'
  <2> SUFFICES ASSUME NEW d \in 1 .. MaxDay
               PROVE  /\ \A o \in Origins :
                            Sum(Outflow, {u \in On(d)' : OriginOf[u] = o}) <= WalletDailyLimit
                      /\ Sum(Outflow, On(d)') <= DailyLimit
                      /\ Sum(B, On(d)') <= DailyFeeLimit
    BY DEF Quotas
  <2>1. CASE d # day0
    <3>1. On(d)' = On(d) /\ On(d) \in SUBSET Held
      BY <1>5, <2>1 DEF On
    <3>2. Sum(B, On(d)') = Sum(Booked, On(d))
      BY <1>12, <3>1
    <3> HIDE DEF B
    <3> QED
      BY <3>1, <3>2 DEF Quotas
  <2>2. CASE d = day0
    <3>1. IsFiniteSet(On(d)) /\ On(d) \cup {q} \subseteq Quotes /\ On(d) \in SUBSET Held
      BY <1>6 DEF On
    <3>2. /\ Sum(Outflow, On(d)) + Outflow[q] <= DailyLimit
          /\ Sum(B, On(d)) + B[q] <= DailyFeeLimit
      <4>1. Sum(Booked, On(d)) + f <= DailyFeeLimit
        BY <1>1, <2>2, CostIsBooked DEF Admits
      <4> HIDE DEF B
      <4> QED
        BY <1>1, <1>11, <1>12, <2>2, <3>1, <4>1 DEF Admits
    <3>3. Sum(Outflow, On(d)') <= DailyLimit /\ Sum(B, On(d)') <= DailyFeeLimit
      <4> HIDE DEF B
      <4> QED
        BY <1>5, <1>11, <2>2, <3>1, <3>2, Amounts, RoomForOne
    <3>4. ASSUME NEW o \in Origins
          PROVE  Sum(Outflow, {u \in On(d)' : OriginOf[u] = o}) <= WalletDailyLimit
      <4> DEFINE mine == {u \in On(d) : OriginOf[u] = o}
                 next == {u \in On(d)' : OriginOf[u] = o}
      <4>1. CASE OriginOf[q] = o
        <5>1. IsFiniteSet(mine) /\ mine \cup {q} \subseteq Quotes /\ q \notin mine
          BY <1>1, <1>6, <3>1 DEF On
        <5>2. Sum(Outflow, mine) + Outflow[q] <= WalletDailyLimit
          BY <1>1, <2>2, <4>1 DEF Admits
        <5>3. next = mine \cup {q}
          BY <1>5, <2>2, <4>1
        <5> HIDE DEF mine, next
        <5>4. Sum(Outflow, next) <= WalletDailyLimit
          BY <5>1, <5>2, <5>3, Amounts, RoomForOne
        <5> QED
          BY <5>4 DEF next
      <4>2. CASE OriginOf[q] # o
        <5>1. next = mine
          BY <1>5, <2>2, <4>2
        <5>2. Sum(Outflow, mine) <= WalletDailyLimit
          BY DEF Quotas
        <5> HIDE DEF mine, next
        <5>3. Sum(Outflow, next) <= WalletDailyLimit
          BY <5>1, <5>2
        <5> QED
          BY <5>3 DEF next
      <4> QED
        BY <4>1, <4>2
    <3> QED
      BY <3>3, <3>4
  <2> QED
    BY <2>1, <2>2
<1>8. Losses'
  <2>1. Owed' = Owed \cup {q} /\ q \notin Owed /\ Owed \subseteq Uncovered /\ Uncovered \subseteq Held
    BY <1>1, <1>2, <1>3 DEF Owed, Uncovered, Covered, Held
  <2>2. Sum(Booked, Uncovered) + f <= LossCap
    BY <1>1, CostIsBooked DEF Admits
  <2> HIDE DEF B
  <2>3. Sum(B, Owed) + B[q] <= LossCap
    <3>1. /\ IsFiniteSet(Uncovered) /\ Counts(B, Uncovered)
          /\ IsFiniteSet(Owed) /\ Counts(B, Owed)
      BY <1>6, <1>11, <2>1
    <3>2. /\ SumOver(B, Owed) <= SumOver(B, Uncovered)
          /\ SumOver(B, Uncovered) \in Nat /\ SumOver(B, Owed) \in Nat
      BY <2>1, <3>1, SumSubset, SumType
    <3>3. Sum(B, Uncovered) = Sum(Booked, Uncovered)
      BY <1>12, <2>1
    <3>4. f \in Nat
      OBVIOUS
    <3> QED
      BY <1>11, <2>2, <3>2, <3>3, <3>4, SumIsOver
  <2>4. IsFiniteSet(Owed) /\ Owed \cup {q} \subseteq Quotes
    BY <1>6, <2>1
  <2>5. Sum(B, Owed') <= LossCap
    BY <1>11, <2>1, <2>3, <2>4, RoomForOne
  <2> QED
    BY <2>5 DEF Losses, B
<1> QED
  BY <1>4, <1>7, <1>8

-----------------------------------------------------------------------------
(* The theorems. *)

\* It holds at the start.
LEMMA Start ==
    ASSUME Init
    PROVE  TypeOK /\ Ledger
<1>1. Absent \in Entry /\ Absent.day = 0 /\ Absent.fee = 0 /\ Absent.actual = 0
      /\ Absent.outcome = "none"
  BY DEF Absent, Entry, Outcomes
<1>2. TypeOK
  BY <1>1 DEF Init, TypeOK, PCs
<1>3. Held = {} /\ IsFiniteSet({})
  BY <1>1, FS_EmptySet DEF Init, Held
<1>4. Handling /\ Settled
  BY <1>1 DEF Init, Handling, Reserved, Owned, Working, Charged, ReadForReserved, Settled
<1>5. \A of : Sum(of, {}) = 0
  BY SumEmpty, SumIsOver
<1>6. Owed = {} /\ \A d : On(d) = {}
  BY <1>3 DEF Owed, On
<1>7. Losses
  BY <1>5, <1>6 DEF Losses
<1>8. Quotas
  <2>1. \A d, o : {q \in On(d) : OriginOf[q] = o} = {}
    BY <1>6
  <2> QED
    BY <1>5, <1>6, <2>1 DEF Quotas
<1> QED
  BY <1>2, <1>3, <1>4, <1>7, <1>8 DEF Ledger

\* A step of the ledger, seen from its entries.
LEMMA StepLedger ==
    ASSUME TypeOK, Ledger, [Next]_vars
    PROVE  TypeOK' /\ Ledger'
<1>1. EntryTypes' /\ OtherTypes' /\ Settled'
  BY LedgerMoves, StepOther DEF Ledger
<1>2. TypeOK'
  BY <1>1 DEF TypeOK, EntryTypes, OtherTypes
<1>3. IsFiniteSet(Held)' /\ Quotas' /\ Losses' /\ FeesKept
  <2>1. CASE Kept
    BY <1>1, <2>1, KeptFits, HeldGrows DEF Ledger
  <2>2. ASSUME NEW h \in Handlers, pc[h] = "reserve", job[h] \in Quotes,
               Opens(job[h], fee[h], now[h])
        PROVE  IsFiniteSet(Held)' /\ Quotas' /\ Losses' /\ FeesKept
    <3>1. now[h] \in 1 .. MaxDay /\ fee[h] \in Fees
      BY <2>2 DEF Ledger, Handling, Reserved
    <3> QED
      BY <1>1, <2>2, <3>1, OpensFits, HeldGrows DEF Ledger
  <2> QED
    BY <2>1, <2>2, LedgerMoves DEF Ledger
<1>4. Handling'
  BY <1>1, <1>3, StepHandling DEF Ledger
<1> QED
  BY <1>1, <1>2, <1>3, <1>4 DEF Ledger

\* Every signature has a reservation, and reservations fit quotas and cap,
\* whatever handlers race, fail or crash and whenever midnight falls.
THEOREM AlwaysReserved == Spec => [](TypeOK /\ Ledger)
  BY Start, StepLedger, PTL DEF Spec

\* The ledger's entries, handlers and receipts keep their form.
THEOREM TypeCorrect == Spec => []TypeOK
  BY AlwaysReserved, PTL

\* The fees signed away for some of the quotes in a set are at most what is
\* booked for the set.
LEMMA SignedFits ==
    ASSUME TypeOK, Charged, NEW S \in SUBSET Quotes, IsFiniteSet(S),
           NEW limit \in Nat, Sum(Booked, S) <= limit,
           NEW T \in SUBSET S, \A q \in T : signed[q] # 0
    PROVE  Sum(signed, T) <= limit
<1>1. EntryTypes /\ Counts(Booked, S)
  BY FeesCount DEF TypeOK, EntryTypes
<1>2. Sum(Booked, T) <= limit
  BY <1>1, PartFits
<1>3. Alike(signed, Booked, T) /\ IsFiniteSet(T)
  BY FS_Subset DEF Alike, Booked, Charged
<1> QED
  BY <1>2, <1>3, SumSame, SumIsOver

\* What is signed on behalf of a day stays within its quotas, whatever the fee
\* estimate is at each attempt.
THEOREM QuotasHold == Spec => []DailyQuotasHold
<1>1. TypeOK /\ Ledger => DailyQuotasHold
  <2> SUFFICES ASSUME TypeOK, Ledger, NEW d \in 1 .. MaxDay
               PROVE  LET spent == {q \in Quotes : signed[q] # 0 /\ entries[q].day = d}
                      IN  /\ \A o \in Origins :
                                Sum(Outflow, {q \in spent : OriginOf[q] = o}) <= WalletDailyLimit
                          /\ Sum(Outflow, spent) <= DailyLimit
                          /\ Sum(signed, spent) <= DailyFeeLimit
    BY DEF DailyQuotasHold
  <2> DEFINE spent == {q \in Quotes : signed[q] # 0 /\ entries[q].day = d}
  <2>1. spent \in SUBSET On(d) /\ IsFiniteSet(On(d)) /\ On(d) \subseteq Quotes
    BY FS_Subset DEF Ledger, On, Held
  <2>2. Counts(Outflow, On(d))
    BY <2>1, Amounts
  <2>3. Sum(Outflow, spent) <= DailyLimit /\ Sum(signed, spent) <= DailyFeeLimit
    <3>1. \A q \in spent : signed[q] # 0
      OBVIOUS
    <3> HIDE DEF spent
    <3> QED
      BY <2>1, <2>2, <3>1, PartFits, SignedFits DEF Ledger, Handling, Quotas
  <2>4. ASSUME NEW o \in Origins
        PROVE  Sum(Outflow, {q \in spent : OriginOf[q] = o}) <= WalletDailyLimit
    <3> DEFINE mine == {q \in On(d) : OriginOf[q] = o}
               part == {q \in spent : OriginOf[q] = o}
    <3>1. part \in SUBSET mine /\ IsFiniteSet(mine) /\ mine \subseteq On(d)
      BY <2>1, FS_Subset
    <3>2. Counts(Outflow, mine)
      BY <2>1, <3>1, Amounts
    <3>3. Sum(Outflow, mine) <= WalletDailyLimit
      BY DEF Ledger, Quotas
    <3> HIDE DEF mine, part
    <3>4. Sum(Outflow, part) <= WalletDailyLimit
      BY <3>1, <3>2, <3>3, PartFits
    <3> QED
      BY <3>4 DEF part
  <2> QED
    BY <2>3, <2>4
<1> QED
  BY <1>1, AlwaysReserved, PTL

\* What is signed and not shown to be reimbursed stays within the loss cap,
\* whatever the fee estimate is at each attempt.
THEOREM LossIsCapped == Spec => []LossWithinCap
<1>1. TypeOK /\ Ledger => LossWithinCap
  <2> SUFFICES ASSUME TypeOK, Ledger PROVE LossWithinCap
    OBVIOUS
  <2> DEFINE spent == {q \in Quotes : signed[q] # 0 /\ entries[q].outcome # "success"}
  <2>1. IsFiniteSet(Owed) /\ Owed \in SUBSET Quotes
    BY FS_Subset DEF Ledger, Owed, Held
  <2>2. spent \in SUBSET Owed /\ \A q \in spent : signed[q] # 0
    BY DEF Ledger, Handling, Charged, Owed, Held, TypeOK, Absent
  <2> HIDE DEF spent
  <2>3. Sum(signed, spent) <= LossCap
    BY <2>1, <2>2, SignedFits DEF Ledger, Handling, Losses
  <2> QED
    BY <2>3 DEF LossWithinCap, spent
<1> QED
  BY <1>1, AlwaysReserved, PTL

\* A settled entry keeps its outcome, whatever receipts are read later.
THEOREM OutcomesAreFinal == Spec => SettledIsFinal
<1>1. TypeOK /\ Ledger /\ [Next]_vars =>
        [\A q \in Quotes :
            entries[q].outcome # "none" => entries'[q].outcome = entries[q].outcome]_vars
  <2> SUFFICES ASSUME TypeOK, Ledger, [Next]_vars, NEW q \in Quotes, entries[q].outcome # "none"
               PROVE  entries'[q].outcome = entries[q].outcome
    OBVIOUS
  <2>1. CASE Kept
    BY <2>1 DEF Kept
  <2>2. ASSUME NEW h \in Handlers, job[h] \in Quotes, Opens(job[h], fee[h], now[h])
        PROVE  entries'[q].outcome = entries[q].outcome
    <3>1. job[h] # q
      BY <2>2 DEF Opens, Held, TypeOK, Absent
    <3> QED
      BY <2>2, <3>1 DEF Opens, TypeOK
  <2> QED
    BY <2>1, <2>2, LedgerMoves DEF Ledger
<1> QED
  BY <1>1, AlwaysReserved, PTL DEF Spec, SettledIsFinal

=============================================================================
