------------------------ MODULE Reimbursement_proofs ------------------------
(***************************************************************************)
(* Proofs about Reimbursement for any number of sponsorships, overlapping  *)
(* callers and payments, any valid pricing policy, and any set of faults.  *)
(***************************************************************************)
EXTENDS Reimbursement, SequenceTheorems, TLAPS

USE ReimbursementAssumption

-----------------------------------------------------------------------------
(* The inductive invariant. *)

\* A caller that has entered serialized() and read its record.
Entered == {"sponsored", "pay", "save", "put", "payment"}

Exclusive == \A c \in Callers : inside = c <=> pc[c] \in Entered

\* The statuses a caller may be about to write, by the status it has read.
Coming(s) ==
    CASE store[s].status = "BROADCAST" -> {"CONFIRMED", "REJECTED", "CONFIRMATION_TIMEOUT"}
      [] store[s].status = "CONFIRMED" -> {"PAYMENTS_BROADCAST", "REIMBURSEMENT_FAILED"}
      [] store[s].status = "PAYMENTS_BROADCAST" -> {"REIMBURSED", "REIMBURSEMENT_FAILED"}
      [] OTHER -> {}

\* What a caller has read stays true until it leaves serialized().
ReadHolds ==
    \A c \in Callers :
        LET record == store[job[c]]
        IN  /\ pc[c] = "sponsored" => record.status = "BROADCAST"
            /\ pc[c] \in {"pay", "save"} => record.status = "CONFIRMED"
            /\ pc[c] = "save" => record.payment = 0 /\ payments[job[c]] # <<>>
            /\ pc[c] = "payment" => record.status = "PAYMENTS_BROADCAST"
            /\ pc[c] = "put" =>
                  /\ target[c] \in Coming(job[c])
                  /\ target[c] = "CONFIRMED" => chain[job[c]] = "success"
                  /\ target[c] = "PAYMENTS_BROADCAST" => record.payment # 0
                  /\ target[c] = "REIMBURSED" =>
                        record.payment # 0 /\ payments[job[c]][record.payment] = "success"

\* A record beyond CONFIRMED is one of an executed sponsorship, and a record
\* names a payment that was made.
Executed ==
    \A s \in Sponsorships :
        /\ store[s].status \in {"CONFIRMED", "PAYMENTS_BROADCAST", "REIMBURSED"} =>
              chain[s] = "success"
        /\ store[s].payment <= Len(payments[s])

\* A caller that owes the record of s the name of its payment, or its failure.
Owes(c, s) ==
    /\ job[c] = s
    /\ pc[c] = "save" \/ (pc[c] = "put" /\ target[c] = "REIMBURSEMENT_FAILED")

\* A payment no record names is about to be named or given up, was given up, or
\* was left behind by a restart or a failed write.
Followed ==
    \A s \in Sponsorships :
        payments[s] # <<>> /\ store[s].payment = 0 =>
            \/ s \in unnamed
            \/ store[s].status = "REIMBURSEMENT_FAILED"
            \/ \E c \in Callers : Owes(c, s)

Reconciled ==
    /\ Exclusive /\ ReadHolds /\ Executed /\ Followed
    /\ PaymentsMatchRecords /\ PaidAtMostOnce

-----------------------------------------------------------------------------
(* Pricing. *)

\* The larger of two numbers.
LEMMA MaxOfTwo ==
    ASSUME NEW m \in Nat, NEW n \in Nat
    PROVE  Max({m, n}) \in {m, n} /\ Max({m, n}) >= m /\ Max({m, n}) >= n
<1>1. \E x \in {m, n} : \A y \in {m, n} : x >= y
  <2>1. CASE m >= n
    BY <2>1
  <2>2. CASE n >= m
    BY <2>2
  <2> QED
    BY <2>1, <2>2
<1> QED
  BY <1>1 DEF Max

\* Rounding up gives the least number of denominators that reaches the numerator.
LEMMA CeilDivides ==
    ASSUME NEW n \in Nat, NEW d \in Nat \ {0}
    PROVE  /\ ceilDivide(n, d) \in Nat
           /\ ceilDivide(n, d) * d >= n
           /\ ceilDivide(n, d) * d < n + d
<1> DEFINE q == (n + d - 1) \div d
           r == (n + d - 1) % d
<1>1. q \in Int /\ r \in 0 .. d - 1 /\ n + d - 1 = d * q + r
  OBVIOUS
<1>2. d * q = q * d
  BY <1>1
<1>3. q >= 0
  <2> SUFFICES ASSUME q < 0 PROVE FALSE
    BY <1>1
  <2>1. q + 1 <= 0 /\ d * (q + 1) <= 0
    BY <1>1
  <2>2. d * q + d <= 0
    BY <1>1, <2>1
  <2> QED
    BY <1>1, <2>2
<1> QED
  BY <1>1, <1>2, <1>3 DEF ceilDivide

\* It is a natural number.
LEMMA CeilType == \A n \in Nat, d \in Nat \ {0} : ceilDivide(n, d) \in Nat
  BY CeilDivides

\* Prices are whole sats.
LEMMA PricedType ==
    ASSUME NEW fee \in Nat
    PROVE  /\ Converted(fee) \in Nat /\ Markup(fee) \in Nat
           /\ Priced(fee) \in Nat
           /\ Priced(fee) >= Minimum
           /\ Priced(fee) >= Converted(fee) + Markup(fee) + FailureReserve
<1> USE PolicyAssumption DEF ValidPolicy
<1>1. fee * RateNumerator \in Nat /\ RateDenominator \in Nat \ {0}
  OBVIOUS
<1>2. Converted(fee) \in Nat
  <2> DEFINE n == fee * RateNumerator
  <2>1. n \in Nat
    BY <1>1
  <2> HIDE DEF n
  <2>2. ceilDivide(n, RateDenominator) \in Nat
    BY <1>1, <2>1, CeilType
  <2> QED
    BY <2>2 DEF Converted, n
<1>3. Converted(fee) * MarkupBps \in Nat
  BY <1>2
<1>4. Markup(fee) \in Nat
  BY <1>3, CeilType DEF Markup
<1>5. Converted(fee) + Markup(fee) + FailureReserve \in Nat /\ Minimum \in Nat
  BY <1>2, <1>4
<1> QED
  BY <1>2, <1>4, <1>5, MaxOfTwo DEF Priced

-----------------------------------------------------------------------------
(* Each step keeps the invariant. *)

\* A record that create() writes is well formed.
LEMMA NewRecord ==
    ASSUME NEW fee \in Fees, Payable(fee)
    PROVE  Amount(fee) \in Nat
  BY PricedType DEF Amount

\* A payment that is mined or dropped is the same payment.
LEMMA SettledPayment ==
    ASSUME TypeOK, NEW s \in Sponsorships, NEW i \in 1 .. MaxPayments, SettlePayment(s, i)
    PROVE  /\ payments' \in [Sponsorships -> Seq(ChainStates)]
           /\ \A u \in Sponsorships :
                 /\ Len(payments'[u]) = Len(payments[u])
                 /\ payments'[u] = <<>> <=> payments[u] = <<>>
                 /\ \A j \in 1 .. Len(payments[u]) :
                       payments[u][j] # "pending" => payments'[u][j] = payments[u][j]
           /\ UNCHANGED <<store, chain, late, unnamed, inside, pc, todo, job, target>>

<1>1. UNCHANGED <<store, chain, late, unnamed, inside, pc, todo, job, target>>
  BY DEF SettlePayment, worldVars, callerVars
<1>2. PICK x \in {"success", "failed"} : payments' = [payments EXCEPT ![s][i] = x]
  BY DEF SettlePayment
<1>3. payments[s] \in Seq(ChainStates) /\ i \in 1 .. Len(payments[s]) /\ payments[s][i] = "pending"
  BY LenProperties DEF TypeOK, SettlePayment
<1> DEFINE new == [payments[s] EXCEPT ![i] = x]
<1>4. payments' = [payments EXCEPT ![s] = new]
  BY <1>2
<1>5. x \in ChainStates
  BY DEF ChainStates
<1>6. /\ new \in Seq(ChainStates) /\ Len(new) = Len(payments[s])
      /\ \A j \in 1 .. Len(payments[s]) : new[j] = IF j = i THEN x ELSE payments[s][j]
  BY <1>3, <1>5, ExceptSeq
<1>7. new # <<>> /\ payments[s] # <<>>
  BY <1>3, <1>6, EmptySeq
<1> HIDE DEF new
<1> QED
  BY <1>1, <1>3, <1>4, <1>6, <1>7 DEF TypeOK

\* A payment that is made is added to those that were.
LEMMA AddedPayment ==
    ASSUME TypeOK, NEW s \in Sponsorships, Transfer(s)
    PROVE  /\ payments' \in [Sponsorships -> Seq(ChainStates)]
           /\ \A u \in Sponsorships \ {s} : payments'[u] = payments[u]
           /\ payments'[s] # <<>>
           /\ Len(payments'[s]) = Len(payments[s]) + 1 /\ Len(payments'[s]) <= MaxPayments
           /\ \A j \in 1 .. Len(payments[s]) : payments'[s][j] = payments[s][j]
<1>1. payments' = [payments EXCEPT ![s] = Append(payments[s], "pending")]
  BY DEF Transfer
<1>2. payments[s] \in Seq(ChainStates) /\ "pending" \in ChainStates /\ Len(payments[s]) \in Nat
  BY DEF TypeOK, ChainStates
<1>3. /\ Append(payments[s], "pending") \in Seq(ChainStates)
      /\ Len(Append(payments[s], "pending")) = Len(payments[s]) + 1
      /\ \A j \in 1 .. Len(payments[s]) : Append(payments[s], "pending")[j] = payments[s][j]
  BY <1>2, AppendProperties
<1>4. Append(payments[s], "pending") # <<>>
  BY <1>2, <1>3, EmptySeq
<1> QED
  BY <1>1, <1>2, <1>3, <1>4 DEF TypeOK, Transfer

\* What the types say of the callers.
CallerTypes ==
    /\ inside \in Callers \cup {Nobody}
    /\ pc \in [Callers -> PCs]
    /\ todo \in [Callers -> SUBSET Sponsorships]
    /\ job \in [Callers -> Sponsorships \cup {NoJob}]
    /\ \A c \in Callers : job[c] = NoJob <=> pc[c] \in {"idle", "next"}
    /\ target \in [Callers -> TransactionStates]

\* A caller inside serialized() goes on, or leaves it, well typed.
LEMMA CallerMoves ==
    ASSUME TypeOK, NEW c \in Callers, pc[c] \notin {"idle", "next"}
    PROVE  /\ job[c] \in Sponsorships
           /\ Return(c) \/ Throw(c) => CallerTypes'
           /\ \A to \in Entered :
                 GoTo(c, to) /\ inside' \in {inside, c} /\ UNCHANGED target => CallerTypes'
           /\ \A status \in TransactionStates : WriteNext(c, status) => CallerTypes'
<1> USE DEF TypeOK, CallerTypes, PCs
<1>1. Return(c) => CallerTypes'
  BY DEF Return
<1>2. Throw(c) => CallerTypes'
  BY DEF Throw
<1>3. ASSUME NEW to \in Entered, GoTo(c, to), inside' \in {inside, c}, UNCHANGED target
      PROVE  CallerTypes'
  BY <1>3 DEF GoTo, Entered
<1>4. ASSUME NEW status \in TransactionStates, WriteNext(c, status) PROVE CallerTypes'
  BY <1>4 DEF WriteNext, GoTo, TransactionStates
<1> QED
  BY <1>1, <1>2, <1>3, <1>4

\* A caller that is not idle or between records has one.
LEMMA Working ==
    ASSUME TypeOK
    PROVE  \A c \in Callers : pc[c] \notin {"idle", "next"} => job[c] \in Sponsorships
  BY DEF TypeOK

\* A record whose status changes is a record.
LEMMA RecordFields ==
    ASSUME NEW x \in Record
    PROVE  \A status \in TransactionStates :
                 LET y == [x EXCEPT !.status = status]
                 IN  y \in Record /\ y.status = status /\ y.payment = x.payment
                     /\ y.fee = x.fee /\ y.amount = x.amount
  BY DEF Record

\* And so is one that names a payment.
LEMMA RecordNames ==
    ASSUME NEW x \in Record, NEW n \in 0 .. MaxPayments, NEW y, y = [x EXCEPT !.payment = n]
    PROVE  /\ y \in Record /\ y.status = x.status /\ y.payment = n
           /\ y.fee = x.fee /\ y.amount = x.amount
  BY DEF Record

\* What PutStatus and SavePayment write is a record of the same sponsorship.
LEMMA ChangedRecord ==
    ASSUME TypeOK, NEW s \in Sponsorships, store[s].status # "NONE",
           NEW x \in Record, x.status # "NONE", x.fee = store[s].fee, x.amount = store[s].amount,
           store' = [store EXCEPT ![s] = x]
    PROVE  /\ store' \in [Sponsorships -> Record]
           /\ \A u \in Sponsorships :
                 store'[u] = NoRecord \/ (/\ store'[u].status # "NONE" /\ Payable(store'[u].fee)
                                         /\ store'[u].amount = Amount(store'[u].fee))
<1>1. store' \in [Sponsorships -> Record]
  BY DEF TypeOK
<1>2. Payable(store[s].fee) /\ store[s].amount = Amount(store[s].fee)
  BY DEF TypeOK, NoRecord
<1>3. \A u \in Sponsorships : store'[u] = IF u = s THEN x ELSE store[u]
  BY DEF TypeOK
<1> QED
  BY <1>1, <1>2, <1>3 DEF TypeOK

\* The caller of a listing takes a record of it, or has done.
LEMMA ListingMoves ==
    ASSUME TypeOK, NEW c \in Callers, TakeNext(c)
    PROVE  /\ pc[c] = "next" /\ UNCHANGED <<store, payments, chain, late, unnamed, inside, target>>
           /\ CallerTypes'
           /\ pc'[c] \in {"waiting", "idle"}
           /\ \A d \in Callers \ {c} : pc'[d] = pc[d] /\ job'[d] = job[d]
<1> USE DEF TypeOK, CallerTypes, PCs, worldVars
<1>1. ASSUME NEW s \in todo[c], pc[c] = "next",
             pc' = [pc EXCEPT ![c] = "waiting"], todo' = [todo EXCEPT ![c] = @ \ {s}],
             job' = [job EXCEPT ![c] = s], UNCHANGED <<inside, target>>
      PROVE  /\ CallerTypes' /\ pc'[c] \in {"waiting", "idle"}
             /\ \A d \in Callers \ {c} : pc'[d] = pc[d] /\ job'[d] = job[d]
  BY <1>1
<1>2. ASSUME pc[c] = "next", pc' = [pc EXCEPT ![c] = "idle"], UNCHANGED <<todo, job, inside, target>>
      PROVE  /\ CallerTypes' /\ pc'[c] \in {"waiting", "idle"}
             /\ \A d \in Callers \ {c} : pc'[d] = pc[d] /\ job'[d] = job[d]
  BY <1>2
<1> QED
  BY <1>1, <1>2 DEF TakeNext

\* What a caller finds of a payment.
LEMMA PaymentOutcomes ==
    ASSUME NEW c \in Callers, PaymentStatus(c)
    PROVE  /\ pc[c] = "payment" /\ UNCHANGED <<store, payments, chain, late, unnamed>>
           /\ \/ WriteNext(c, "REIMBURSEMENT_FAILED")
              \/ /\ WriteNext(c, "REIMBURSED")
                 /\ store[job[c]].payment # 0
                 /\ payments[job[c]][store[job[c]].payment] = "success"
              \/ Return(c)
  BY DEF PaymentStatus, worldVars

\* Every step keeps the types.
LEMMA StepTypes ==
    ASSUME TypeOK, ReadHolds, Exclusive, [Next]_vars
    PROVE  TypeOK'
<1> USE DEF TypeOK, Record, ChainStates, PCs, TransactionStates, callerVars, worldVars
<1>1. CASE UNCHANGED vars
  BY <1>1 DEF vars
<1>2. CASE Crash
  BY <1>2 DEF Crash, LeaveUnnamed
<1>3. ASSUME NEW s \in Sponsorships, SettleSponsored(s) PROVE TypeOK'
  BY <1>3 DEF SettleSponsored
<1>4. ASSUME NEW s \in Sponsorships, PassDeadline(s) PROVE TypeOK'
  BY <1>4 DEF PassDeadline
<1>5. ASSUME NEW s \in Sponsorships, Create(s) PROVE TypeOK'
  BY <1>5, NewRecord DEF Create, TransactionStates
<1>6. ASSUME NEW s \in Sponsorships, NEW i \in 1 .. MaxPayments, SettlePayment(s, i)
      PROVE  TypeOK'
  BY <1>6, SettledPayment
<1>7. ASSUME NEW c \in Callers, Poll(c) PROVE TypeOK'
  BY <1>7 DEF Poll
<1>8. ASSUME NEW c \in Callers, NEW s \in Sponsorships, Ask(c, s) PROVE TypeOK'
  BY <1>8 DEF Ask
<1>9. ASSUME NEW c \in Callers, CallerStep(c) PROVE TypeOK'
  <2>1. CASE TakeNext(c)
    BY <2>1, ListingMoves DEF CallerTypes
  <2>2. CASE Read(c)
    <3>1. pc[c] \notin {"idle", "next"} /\ {"sponsored", "pay", "payment"} \subseteq Entered
      BY <2>2 DEF Read, Entered
    <3>2. CallerTypes'
      BY <2>2, <3>1, CallerMoves DEF Read
    <3> QED
      BY <2>2, <3>2 DEF Read, CallerTypes
  <2>3. CASE StatusUnavailable(c)
    <3>1. CallerTypes'
      BY <2>3, CallerMoves DEF StatusUnavailable
    <3> QED
      BY <2>3, <3>1 DEF StatusUnavailable, CallerTypes
  <2>4. CASE SponsoredStatus(c)
    <3>1. CallerTypes'
      BY <2>4, CallerMoves DEF SponsoredStatus
    <3> QED
      BY <2>4, <3>1 DEF SponsoredStatus, CallerTypes
  <2>5. CASE PutStatus(c)
    <3>1. pc[c] = "put" /\ "pay" \in Entered /\ job[c] \in Sponsorships
      BY <2>5, CallerMoves DEF PutStatus, Entered
    <3>2. CallerTypes'
      BY <2>5, <3>1, CallerMoves DEF PutStatus
    <3>3. store[job[c]].status # "NONE" /\ target[c] # "NONE"
      BY <2>5, <3>1 DEF PutStatus, ReadHolds, Coming
    <3> DEFINE x == [store[job[c]] EXCEPT !.status = target[c]]
    <3>4. store' \in {store, [store EXCEPT ![job[c]] = x]} /\ unnamed' \subseteq Sponsorships
      BY <2>5, <3>1 DEF PutStatus, LeaveUnnamed
    <3>5. x \in Record /\ x.status = target[c] /\ x.fee = store[job[c]].fee /\ x.amount = store[job[c]].amount
      <4>1. store[job[c]] \in Record /\ target[c] \in TransactionStates
        BY <3>1
      <4> HIDE DEF TypeOK, Record, TransactionStates
      <4> QED
        BY <4>1, RecordFields
    <3> HIDE DEF x
    <3> QED
      BY <2>5, <3>1, <3>2, <3>3, <3>4, <3>5, ChangedRecord DEF PutStatus, CallerTypes
  <2>6. CASE SkipPayment(c)
    <3>1. CallerTypes'
      BY <2>6, CallerMoves DEF SkipPayment
    <3> QED
      BY <2>6, <3>1 DEF SkipPayment, CallerTypes
  <2>7. CASE Pay(c)
    <3>1. CallerTypes'
      BY <2>7, CallerMoves DEF Pay, Entered
    <3>2. job[c] \in Sponsorships /\ Transfer(job[c])
      BY <2>7, CallerMoves DEF Pay
    <3> QED
      BY <2>7, <3>1, <3>2, AddedPayment DEF Pay, CallerTypes
  <2>8. CASE PayThrows(c)
    <3>1. CallerTypes'
      BY <2>8, CallerMoves DEF PayThrows
    <3>2. job[c] \in Sponsorships /\ (UNCHANGED payments \/ Transfer(job[c]))
      BY <2>8, CallerMoves DEF PayThrows
    <3> QED
      BY <2>8, <3>1, <3>2, AddedPayment DEF PayThrows, CallerTypes
  <2>9. CASE SavePayment(c)
    <3>1. CallerTypes' /\ job[c] \in Sponsorships
      BY <2>9, CallerMoves DEF SavePayment
    <3>2. store[job[c]].status # "NONE"
      BY <2>9, <3>1 DEF SavePayment, ReadHolds
    <3> DEFINE x == [store[job[c]] EXCEPT !.payment = Len(payments[job[c]])]
    <3>3. store' \in {store, [store EXCEPT ![job[c]] = x]}
      BY <2>9 DEF SavePayment
    <3>4. Len(payments[job[c]]) \in 0 .. MaxPayments
      BY <3>1
    <3>5. /\ x \in Record /\ x.status = store[job[c]].status
          /\ x.fee = store[job[c]].fee /\ x.amount = store[job[c]].amount
      <4>1. store[job[c]] \in Record
        BY <3>1
      <4> DEFINE r == store[job[c]]
                 n == Len(payments[job[c]])
      <4>2. r \in Record /\ n \in 0 .. MaxPayments /\ x = [r EXCEPT !.payment = n]
        BY <3>4, <4>1
      <4> HIDE DEF TypeOK, Record, x, r, n
      <4>3. /\ x \in Record /\ x.status = r.status
            /\ x.fee = r.fee /\ x.amount = r.amount
        BY <4>2, RecordNames
      <4> QED
        BY <4>3 DEF r
    <3> HIDE DEF x
    <3> QED
      <4>1. CASE store' = [store EXCEPT ![job[c]] = x]
        <5>1. x.status # "NONE"
          BY <3>2, <3>5
        <5>2. /\ store' \in [Sponsorships -> Record]
              /\ \A u \in Sponsorships :
                    store'[u] = NoRecord \/ (/\ store'[u].status # "NONE" /\ Payable(store'[u].fee)
                                            /\ store'[u].amount = Amount(store'[u].fee))
          <6> HIDE DEF TypeOK, Record
          <6> QED
            BY <3>1, <3>2, <3>5, <4>1, <5>1, ChangedRecord
        <5> QED
          BY <2>9, <3>1, <5>2 DEF SavePayment, CallerTypes
      <4>2. CASE store' = store
        BY <2>9, <3>1, <4>2 DEF SavePayment, CallerTypes
      <4> QED
        BY <3>3, <4>1, <4>2
  <2>10. CASE PaymentStatus(c)
    <3>1. CallerTypes'
      BY <2>10, CallerMoves DEF PaymentStatus
    <3> QED
      BY <2>10, <3>1 DEF PaymentStatus, CallerTypes
  <2> QED
    BY <1>9, <2>1, <2>2, <2>3, <2>4, <2>5, <2>6, <2>7, <2>8, <2>9, <2>10
       DEF CallerStep
<1> QED
  BY <1>1, <1>2, <1>3, <1>4, <1>5, <1>6, <1>7, <1>8, <1>9 DEF Next

\* serialized() lets one caller in.
LEMMA StepExclusive ==
    ASSUME TypeOK, TypeOK', Exclusive, [Next]_vars
    PROVE  Exclusive'
<1> USE DEF TypeOK, Record, ChainStates, PCs, Exclusive, Entered, callerVars, worldVars
<1>1. CASE UNCHANGED vars
  BY <1>1 DEF vars
<1>2. CASE Crash
  BY <1>2 DEF Crash, LeaveUnnamed
<1>3. ASSUME NEW s \in Sponsorships, SettleSponsored(s) PROVE Exclusive'
  BY <1>3 DEF SettleSponsored
<1>4. ASSUME NEW s \in Sponsorships, PassDeadline(s) PROVE Exclusive'
  BY <1>4 DEF PassDeadline
<1>5. ASSUME NEW s \in Sponsorships, Create(s) PROVE Exclusive'
  BY <1>5, NewRecord DEF Create
<1>6. ASSUME NEW s \in Sponsorships, NEW i \in 1 .. MaxPayments, SettlePayment(s, i)
      PROVE  Exclusive'
  BY <1>6, SettledPayment
<1>7. ASSUME NEW c \in Callers, Poll(c) PROVE Exclusive'
  BY <1>7 DEF Poll
<1>8. ASSUME NEW c \in Callers, NEW s \in Sponsorships, Ask(c, s) PROVE Exclusive'
  BY <1>8 DEF Ask
<1>9. ASSUME NEW c \in Callers, CallerStep(c) PROVE Exclusive'
  <2>1. CASE TakeNext(c)
    <3>1. /\ inside' = inside /\ pc[c] \notin Entered /\ pc'[c] \notin Entered
          /\ \A d \in Callers \ {c} : pc'[d] = pc[d]
      BY <2>1, ListingMoves
    <3> QED
      BY <3>1
  <2>2. CASE Read(c)
    BY <2>2 DEF Read, GoTo, Return, Active
  <2>3. CASE StatusUnavailable(c)
    BY <2>3 DEF StatusUnavailable, Throw
  <2>4. CASE SponsoredStatus(c)
    BY <2>4 DEF SponsoredStatus, GoTo, Return, WriteNext
  <2>5. CASE PutStatus(c)
    BY <2>5 DEF PutStatus, GoTo, Return, Throw, LeaveUnnamed, CanTransition, WriteOutcomes
  <2>6. CASE SkipPayment(c)
    BY <2>6 DEF SkipPayment, GoTo, WriteNext
  <2>7. CASE Pay(c)
    BY <2>7 DEF Pay, GoTo, Transfer
  <2>8. CASE PayThrows(c)
    BY <2>8 DEF PayThrows, GoTo, WriteNext, Transfer
  <2>9. CASE SavePayment(c)
    BY <2>9 DEF SavePayment, GoTo, WriteNext, WriteOutcomes
  <2>10. CASE PaymentStatus(c)
    <3>1. CASE Return(c)
      BY <2>10, <3>1, PaymentOutcomes DEF Return
    <3>2. CASE pc[c] = "payment" /\ \E status \in TransactionStates : WriteNext(c, status)
      BY <3>2 DEF WriteNext, GoTo
    <3> QED
      BY <2>10, <3>1, <3>2, PaymentOutcomes DEF TransactionStates
  <2> QED
    BY <1>9, <2>1, <2>2, <2>3, <2>4, <2>5, <2>6, <2>7, <2>8, <2>9, <2>10
       DEF CallerStep
<1> QED
  BY <1>1, <1>2, <1>3, <1>4, <1>5, <1>6, <1>7, <1>8, <1>9 DEF Next

\* A sponsored transaction that is mined or dropped was neither.
LEMMA SettledSponsored ==
    ASSUME TypeOK, NEW s \in Sponsorships, SettleSponsored(s)
    PROVE  /\ \A u \in Sponsorships : chain[u] = "success" => chain'[u] = "success"
           /\ UNCHANGED <<store, payments, late, unnamed, inside, pc, todo, job, target>>
<1>1. PICK x \in {"success", "failed"} : chain' = [chain EXCEPT ![s] = x]
  BY DEF SettleSponsored
<1> QED
  BY <1>1 DEF SettleSponsored, TypeOK, callerVars

\* The payment of u that is named n is one the chain executed.
PaidWith(u, n) == n # 0 /\ payments[u][n] = "success"

\* A payment a record names stays executed.
LEMMA SettledNamed ==
    ASSUME TypeOK, Executed, NEW s \in Sponsorships, NEW i \in 1 .. MaxPayments,
           SettlePayment(s, i)
    PROVE  /\ UNCHANGED <<store, chain, late, unnamed, inside, pc, todo, job, target>>
           /\ \A u \in Sponsorships : payments'[u] = <<>> <=> payments[u] = <<>>
           /\ \A u \in Sponsorships :
                 PaidWith(u, store[u].payment) => PaidWith(u, store[u].payment)'
<1>1. ASSUME NEW u \in Sponsorships, PaidWith(u, store[u].payment)
      PROVE  PaidWith(u, store[u].payment)'
  <2>1. store[u].payment \in 1 .. Len(payments[u])
    <3>1. store[u].payment \in 0 .. MaxPayments /\ Len(payments[u]) \in Nat
      BY DEF TypeOK, Record
    <3> QED
      BY <1>1, <3>1 DEF PaidWith, Executed
  <2> QED
    BY <1>1, <2>1, SettledPayment DEF PaidWith
<1> QED
  BY <1>1, SettledPayment

\* What PaymentsMatchRecords and Executed say of the status of one record.
Keeps(s) ==
    /\ store[s].status \in {"CONFIRMED", "PAYMENTS_BROADCAST", "REIMBURSED"} =>
          chain[s] = "success"
    /\ payments[s] # <<>> => chain[s] = "success"
    /\ store[s].status \in {"PAYMENTS_BROADCAST", "REIMBURSED"} => store[s].payment # 0
    /\ store[s].status = "REIMBURSED" => payments[s][store[s].payment] = "success"

\* What a caller has read stays true while it is inside.
LEMMA StepReadHolds ==
    ASSUME TypeOK, TypeOK', Exclusive, ReadHolds, Executed, PaymentsMatchRecords, [Next]_vars
    PROVE  ReadHolds'
<1> USE DEF TypeOK, Record, ChainStates, PCs, Exclusive, Entered, ReadHolds, Coming, Executed, PaymentsMatchRecords, callerVars, worldVars
<1>1. CASE UNCHANGED vars
  BY <1>1 DEF vars
<1>2. CASE Crash
  BY <1>2 DEF Crash, LeaveUnnamed
<1>3. ASSUME NEW s \in Sponsorships, SettleSponsored(s) PROVE ReadHolds'
  <2>1. /\ \A u \in Sponsorships : chain[u] = "success" => chain'[u] = "success"
        /\ UNCHANGED <<store, payments, late, unnamed, inside, pc, todo, job, target>>
    BY <1>3, SettledSponsored
  <2>2. ASSUME NEW c \in Callers, pc[c] = "put" PROVE job[c] \in Sponsorships
    BY <2>2, Working
  <2> QED
    BY <2>1, <2>2
<1>4. ASSUME NEW s \in Sponsorships, PassDeadline(s) PROVE ReadHolds'
  BY <1>4 DEF PassDeadline
<1>5. ASSUME NEW s \in Sponsorships, Create(s) PROVE ReadHolds'
  BY <1>5, NewRecord DEF Create
<1>6. ASSUME NEW s \in Sponsorships, NEW i \in 1 .. MaxPayments, SettlePayment(s, i)
      PROVE  ReadHolds'
  <2>1. /\ UNCHANGED <<store, chain, late, unnamed, inside, pc, todo, job, target>>
        /\ \A u \in Sponsorships : payments'[u] = <<>> <=> payments[u] = <<>>
        /\ \A u \in Sponsorships : PaidWith(u, store[u].payment) => PaidWith(u, store[u].payment)'
    BY <1>6, SettledNamed
  <2>2. \A c \in Callers : pc[c] \in {"put", "save"} => job[c] \in Sponsorships
    BY Working
  <2> QED
    BY <2>1, <2>2 DEF PaidWith
<1>7. ASSUME NEW c \in Callers, Poll(c) PROVE ReadHolds'
  BY <1>7 DEF Poll
<1>8. ASSUME NEW c \in Callers, NEW s \in Sponsorships, Ask(c, s) PROVE ReadHolds'
  BY <1>8 DEF Ask
<1>9. ASSUME NEW c \in Callers, CallerStep(c) PROVE ReadHolds'
  <2>1. CASE TakeNext(c)
    BY <2>1 DEF TakeNext
  <2>2. CASE Read(c)
    <3>1. UNCHANGED <<store, payments, chain>> /\ pc[c] = "waiting" /\ inside = Nobody
      BY <2>2 DEF Read
    <3>2. \A d \in Callers : d # c => pc'[d] = pc[d] /\ pc[d] \notin Entered
      BY <2>2, <3>1 DEF Read, GoTo, Return
    <3>3. CASE pc'[c] = "next"
      BY <3>1, <3>2, <3>3
    <3>4. CASE /\ job' = job
               /\ \/ pc'[c] = "sponsored" /\ store[job[c]].status = "BROADCAST"
                  \/ pc'[c] = "pay" /\ store[job[c]].status = "CONFIRMED"
                  \/ pc'[c] = "payment" /\ store[job[c]].status = "PAYMENTS_BROADCAST"
      BY <3>1, <3>2, <3>4
    <3> QED
      BY <2>2, <3>3, <3>4 DEF Read, GoTo, Return
  <2>3. CASE StatusUnavailable(c)
    BY <2>3 DEF StatusUnavailable, Throw
  <2>4. CASE SponsoredStatus(c)
    BY <2>4 DEF SponsoredStatus, GoTo, Return, WriteNext
  <2>5. CASE PutStatus(c)
    BY <2>5 DEF PutStatus, GoTo, Return, Throw, LeaveUnnamed, CanTransition, WriteOutcomes
  <2>6. CASE SkipPayment(c)
    BY <2>6 DEF SkipPayment, GoTo, WriteNext
  <2>7. CASE Pay(c)
    BY <2>7 DEF Pay, GoTo, Transfer
  <2>8. CASE PayThrows(c)
    BY <2>8 DEF PayThrows, GoTo, WriteNext, Transfer
  <2>9. CASE SavePayment(c)
    BY <2>9 DEF SavePayment, GoTo, WriteNext, WriteOutcomes
  <2>10. CASE PaymentStatus(c)
    BY <2>10 DEF PaymentStatus, GoTo, WriteNext, Return
  <2> QED
    BY <1>9, <2>1, <2>2, <2>3, <2>4, <2>5, <2>6, <2>7, <2>8, <2>9, <2>10
       DEF CallerStep
<1> QED
  BY <1>1, <1>2, <1>3, <1>4, <1>5, <1>6, <1>7, <1>8, <1>9 DEF Next

\* A payment that is made disturbs no record.
LEMMA PaymentKeeps ==
    ASSUME TypeOK, Executed, PaymentsMatchRecords, NEW s \in Sponsorships, Transfer(s),
           UNCHANGED <<store, chain>>, store[s].status = "CONFIRMED"
    PROVE  Executed' /\ PaymentsMatchRecords'
<1>1. \A u \in Sponsorships : Keeps(u) /\ store[u].payment <= Len(payments[u])
  BY DEF Executed, PaymentsMatchRecords, Keeps
<1>2. ASSUME NEW u \in Sponsorships \ {s}
      PROVE  Keeps(u)' /\ store'[u].payment <= Len(payments'[u])
  BY <1>1, AddedPayment DEF Keeps
<1>3. store[s].payment \in 0 .. MaxPayments /\ Len(payments[s]) \in Nat
  BY DEF TypeOK, Record
<1>4. Keeps(s)' /\ store'[s].payment <= Len(payments'[s])
  BY <1>1, <1>3, AddedPayment DEF Keeps
<1> QED
  BY <1>2, <1>4 DEF Executed, PaymentsMatchRecords, Keeps

\* Records, payments and the chain stay in step.
LEMMA StepExecuted ==
    ASSUME TypeOK, TypeOK', Exclusive, ReadHolds, Executed, PaymentsMatchRecords, [Next]_vars
    PROVE  (Executed /\ PaymentsMatchRecords)'
<1> USE DEF TypeOK, Record, ChainStates, PCs, Exclusive, Entered, ReadHolds, Coming, Executed, PaymentsMatchRecords, callerVars, worldVars
<1>1. CASE UNCHANGED vars
  BY <1>1 DEF vars
<1>2. CASE Crash
  BY <1>2 DEF Crash, LeaveUnnamed
<1>3. ASSUME NEW s \in Sponsorships, SettleSponsored(s) PROVE (Executed /\ PaymentsMatchRecords)'
  BY <1>3, SettledSponsored
<1>4. ASSUME NEW s \in Sponsorships, PassDeadline(s) PROVE (Executed /\ PaymentsMatchRecords)'
  BY <1>4 DEF PassDeadline
<1>5. ASSUME NEW s \in Sponsorships, Create(s) PROVE (Executed /\ PaymentsMatchRecords)'
  BY <1>5, NewRecord DEF Create
<1>6. ASSUME NEW s \in Sponsorships, NEW i \in 1 .. MaxPayments, SettlePayment(s, i)
      PROVE  (Executed /\ PaymentsMatchRecords)'
  <2>1. /\ UNCHANGED <<store, chain, late, unnamed, inside, pc, todo, job, target>>
        /\ \A u \in Sponsorships :
              /\ Len(payments'[u]) = Len(payments[u])
              /\ payments'[u] = <<>> <=> payments[u] = <<>>
              /\ PaidWith(u, store[u].payment) => PaidWith(u, store[u].payment)'
    BY <1>6, SettledPayment, SettledNamed
  <2> QED
    BY <2>1 DEF PaidWith
<1>7. ASSUME NEW c \in Callers, Poll(c) PROVE (Executed /\ PaymentsMatchRecords)'
  BY <1>7 DEF Poll
<1>8. ASSUME NEW c \in Callers, NEW s \in Sponsorships, Ask(c, s) PROVE (Executed /\ PaymentsMatchRecords)'
  BY <1>8 DEF Ask
<1>9. ASSUME NEW c \in Callers, CallerStep(c) PROVE (Executed /\ PaymentsMatchRecords)'
  <2>1. CASE TakeNext(c)
    BY <2>1 DEF TakeNext
  <2>2. CASE Read(c)
    BY <2>2 DEF Read, GoTo, Return, Active
  <2>3. CASE StatusUnavailable(c)
    BY <2>3 DEF StatusUnavailable, Throw
  <2>4. CASE SponsoredStatus(c)
    BY <2>4 DEF SponsoredStatus, GoTo, Return, WriteNext
  <2>5. CASE PutStatus(c)
    <3>1. /\ UNCHANGED <<payments, chain>> /\ job[c] \in Sponsorships /\ pc[c] = "put"
          /\ target[c] \in Coming(job[c])
          /\ store' \in {store, [store EXCEPT ![job[c]].status = target[c]]}
      BY <2>5, CallerMoves DEF PutStatus, Coming
    <3>2. CASE store' = store
      BY <3>1, <3>2
    <3>3. ASSUME store' = [store EXCEPT ![job[c]].status = target[c]]
          PROVE  Executed' /\ PaymentsMatchRecords'
      <4>1. \A u \in Sponsorships :
               /\ store'[u].payment = store[u].payment
               /\ u # job[c] => store'[u].status = store[u].status
        BY <3>1, <3>3
      <4>2. store'[job[c]].status = target[c]
        BY <3>1, <3>3
      <4>3. ASSUME NEW u \in Sponsorships, u # job[c]
            PROVE  /\ Keeps(u)' /\ store'[u].payment <= Len(payments'[u])
        BY <3>1, <4>1, <4>3 DEF Keeps
      <4>4. ASSUME NEW u \in Sponsorships, u = job[c]
            PROVE  /\ Keeps(u)' /\ store'[u].payment <= Len(payments'[u])
        BY <3>1, <4>1, <4>2, <4>4 DEF Keeps
      <4> QED
        BY <4>3, <4>4 DEF Keeps
    <3> QED
      BY <3>1, <3>2, <3>3
  <2>6. CASE SkipPayment(c)
    BY <2>6 DEF SkipPayment, GoTo, WriteNext
  <2>7. CASE Pay(c)
    <3>1. /\ job[c] \in Sponsorships /\ Transfer(job[c]) /\ UNCHANGED <<store, chain>>
          /\ store[job[c]].status = "CONFIRMED" /\ store[job[c]].payment = 0
      BY <2>7, CallerMoves DEF Pay
    <3> QED
      BY <3>1, PaymentKeeps
  <2>8. CASE PayThrows(c)
    <3>1. /\ job[c] \in Sponsorships /\ UNCHANGED <<store, chain>>
          /\ UNCHANGED payments \/ Transfer(job[c])
          /\ store[job[c]].status = "CONFIRMED" /\ store[job[c]].payment = 0
      BY <2>8, CallerMoves DEF PayThrows
    <3>2. CASE UNCHANGED payments
      BY <3>1, <3>2
    <3>3. CASE Transfer(job[c])
      BY <3>1, <3>3, PaymentKeeps
    <3> QED
      BY <3>1, <3>2, <3>3
  <2>9. CASE SavePayment(c)
    BY <2>9 DEF SavePayment, GoTo, WriteNext, WriteOutcomes
  <2>10. CASE PaymentStatus(c)
    BY <2>10 DEF PaymentStatus, GoTo, WriteNext, Return
  <2> QED
    BY <1>9, <2>1, <2>2, <2>3, <2>4, <2>5, <2>6, <2>7, <2>8, <2>9, <2>10
       DEF CallerStep
<1> QED
  BY <1>1, <1>2, <1>3, <1>4, <1>5, <1>6, <1>7, <1>8, <1>9 DEF Next

\* A caller that makes no payment and goes on owing what it owed forgets none.
LEMMA StillFollowed ==
    ASSUME Followed, PaidAtMostOnce, NEW c \in Callers,
           UNCHANGED payments, unnamed \subseteq unnamed',
           \A s \in Sponsorships : store'[s].payment = 0 => store[s].payment = 0,
           \A s \in Sponsorships :
              store[s].status = "REIMBURSEMENT_FAILED" =>
                 store'[s].status = "REIMBURSEMENT_FAILED",
           \A d \in Callers \ {c} : pc'[d] = pc[d] /\ job'[d] = job[d] /\ target'[d] = target[d],
           \A s \in Sponsorships :
              Owes(c, s) => \/ Owes(c, s)' \/ s \in unnamed' \/ store'[s].payment # 0
                            \/ payments[s] = <<>>
                            \/ store'[s].status = "REIMBURSEMENT_FAILED"
    PROVE  Followed' /\ PaidAtMostOnce'
<1>1. PaidAtMostOnce'
  BY DEF PaidAtMostOnce
<1>2. ASSUME NEW s \in Sponsorships, payments'[s] # <<>>, store'[s].payment = 0
      PROVE  \/ s \in unnamed'
             \/ store'[s].status = "REIMBURSEMENT_FAILED"
             \/ \E d \in Callers : Owes(d, s)'
  <2>1. CASE s \in unnamed \/ store[s].status = "REIMBURSEMENT_FAILED"
    BY <2>1
  <2>2. ASSUME NEW d \in Callers, Owes(d, s)
        PROVE  s \in unnamed' \/ store'[s].status = "REIMBURSEMENT_FAILED" \/ \E e \in Callers : Owes(e, s)'
    <3>1. CASE d = c
      BY <1>2, <2>2, <3>1
    <3>2. CASE d # c
      BY <2>2, <3>2 DEF Owes
    <3> QED
      BY <3>1, <3>2
  <2> QED
    BY <1>2, <2>1, <2>2 DEF Followed
<1> QED
  BY <1>1, <1>2 DEF Followed

\* A caller that owes no payment forgets none.
LEMMA NothingOwed ==
    ASSUME Followed, PaidAtMostOnce, NEW c \in Callers, pc[c] \notin {"save", "put"},
           UNCHANGED <<payments, store, unnamed>>,
           \A d \in Callers \ {c} : pc'[d] = pc[d] /\ job'[d] = job[d] /\ target'[d] = target[d]
    PROVE  Followed' /\ PaidAtMostOnce'
<1>1. \A s \in Sponsorships : ~Owes(c, s)
  BY DEF Owes
<1> QED
  BY <1>1, StillFollowed

\* No payment is forgotten, so none is made again.
LEMMA StepFollowed ==
    ASSUME TypeOK, TypeOK', Exclusive, ReadHolds, Followed, PaidAtMostOnce, [Next]_vars
    PROVE  Followed' /\ PaidAtMostOnce'
<1> USE DEF worldVars, callerVars
<1>1. CASE UNCHANGED vars
  BY <1>1 DEF vars, Followed, PaidAtMostOnce, Owes
<1>2. CASE Crash
  <2>1. \A s \in Sponsorships : payments[s] # <<>> /\ store[s].payment = 0 => s \in unnamed'
    BY <1>2 DEF Crash, LeaveUnnamed
  <2>2. UNCHANGED <<payments, store>> /\ unnamed \subseteq unnamed'
    BY <1>2 DEF Crash, LeaveUnnamed
  <2> QED
    BY <2>1, <2>2 DEF Followed, PaidAtMostOnce
<1>3. ASSUME NEW s \in Sponsorships, SettleSponsored(s)
      PROVE  Followed' /\ PaidAtMostOnce'
  BY <1>3, SettledSponsored DEF Followed, PaidAtMostOnce, Owes
<1>4. ASSUME NEW s \in Sponsorships, PassDeadline(s)
      PROVE  Followed' /\ PaidAtMostOnce'
  BY <1>4 DEF PassDeadline, Followed, PaidAtMostOnce, Owes
<1>5. ASSUME NEW s \in Sponsorships, Create(s)
      PROVE  Followed' /\ PaidAtMostOnce'
  <2>1. /\ UNCHANGED <<payments, unnamed, inside, pc, job, target>>
        /\ store[s].status = "NONE" /\ store'[s].payment = 0
        /\ \A u \in Sponsorships \ {s} : store'[u] = store[u]
    BY <1>5 DEF Create, TypeOK
  <2>2. store[s].payment = 0
    BY <2>1 DEF TypeOK, NoRecord
  <2> QED
    BY <2>1, <2>2 DEF Followed, PaidAtMostOnce, Owes
<1>6. ASSUME NEW s \in Sponsorships, NEW i \in 1 .. MaxPayments, SettlePayment(s, i)
      PROVE  Followed' /\ PaidAtMostOnce'
  BY <1>6, SettledPayment DEF Followed, PaidAtMostOnce, Owes
<1>7. ASSUME NEW c \in Callers, Poll(c)
      PROVE  Followed' /\ PaidAtMostOnce'
  BY <1>7, NothingOwed DEF Poll, TypeOK
<1>8. ASSUME NEW c \in Callers, NEW s \in Sponsorships, Ask(c, s)
      PROVE  Followed' /\ PaidAtMostOnce'
  BY <1>8, NothingOwed DEF Ask, TypeOK
<1>9. ASSUME NEW c \in Callers, CallerStep(c)
      PROVE  Followed' /\ PaidAtMostOnce'
  <2>1. CASE TakeNext(c)
    BY <2>1, ListingMoves, NothingOwed
  <2>2. CASE Read(c)
    <3>1. pc[c] = "waiting" /\ UNCHANGED <<payments, store, unnamed, target>>
      BY <2>2 DEF Read, Return
    <3>2. \A d \in Callers \ {c} : pc'[d] = pc[d] /\ job'[d] = job[d]
      BY <2>2 DEF Read, GoTo, Return, TypeOK
    <3> QED
      BY <3>1, <3>2, NothingOwed
  <2>3. CASE StatusUnavailable(c)
    <3>1. /\ pc[c] \in {"sponsored", "payment"} /\ UNCHANGED <<payments, store, unnamed, target>>
          /\ \A d \in Callers \ {c} : pc'[d] = pc[d] /\ job'[d] = job[d]
      BY <2>3 DEF StatusUnavailable, Throw, TypeOK
    <3> QED
      BY <3>1, NothingOwed
  <2>4. CASE SponsoredStatus(c)
    <3>1. pc[c] = "sponsored" /\ UNCHANGED <<payments, store, unnamed>>
      BY <2>4 DEF SponsoredStatus
    <3>2. \A d \in Callers \ {c} : pc'[d] = pc[d] /\ job'[d] = job[d] /\ target'[d] = target[d]
      BY <2>4 DEF SponsoredStatus, WriteNext, GoTo, Return, TypeOK
    <3> QED
      BY <3>1, <3>2, NothingOwed
  <2>5. CASE PutStatus(c)
    <3>1. /\ UNCHANGED payments /\ job[c] \in Sponsorships /\ pc[c] = "put"
          /\ target[c] \in Coming(job[c])
      BY <2>5, CallerMoves DEF PutStatus, ReadHolds
    <3>2. \A d \in Callers \ {c} : pc'[d] = pc[d] /\ job'[d] = job[d] /\ target'[d] = target[d]
      BY <2>5 DEF PutStatus, GoTo, Return, Throw, TypeOK
    <3>3. CASE store' = [store EXCEPT ![job[c]].status = target[c]] /\ UNCHANGED unnamed
      <4>1. \A s \in Sponsorships : store'[s].payment = store[s].payment
        BY <3>1, <3>3 DEF TypeOK, Record
      <4>2. /\ \A s \in Sponsorships \ {job[c]} : store'[s].status = store[s].status
            /\ store'[job[c]].status = target[c]
        BY <3>1, <3>3 DEF TypeOK, Record
      <4>3. store[job[c]].status # "REIMBURSEMENT_FAILED"
        BY <3>1 DEF Coming
      <4>4. \A s \in Sponsorships : Owes(c, s) => store'[s].status = "REIMBURSEMENT_FAILED"
        BY <3>1, <4>2 DEF Owes
      <4> QED
        BY <3>1, <3>2, <3>3, <4>1, <4>2, <4>3, <4>4, StillFollowed
    <3>4. CASE UNCHANGED store /\ LeaveUnnamed({job[c]})
      <4>1. /\ unnamed \subseteq unnamed'
            /\ payments[job[c]] # <<>> /\ store[job[c]].payment = 0 => job[c] \in unnamed'
        BY <3>4 DEF LeaveUnnamed
      <4>2. \A s \in Sponsorships :
               Owes(c, s) => \/ s \in unnamed' \/ store'[s].payment # 0 \/ payments[s] = <<>>
        BY <3>4, <4>1 DEF Owes
      <4> QED
        BY <3>1, <3>2, <3>4, <4>1, <4>2, StillFollowed
    <3> QED
      BY <2>5, <3>3, <3>4 DEF PutStatus
  <2>6. CASE SkipPayment(c)
    <3>1. /\ pc[c] = "pay" /\ UNCHANGED <<payments, store, unnamed>>
          /\ \A d \in Callers \ {c} : pc'[d] = pc[d] /\ job'[d] = job[d] /\ target'[d] = target[d]
      BY <2>6 DEF SkipPayment, WriteNext, GoTo, TypeOK
    <3> QED
      BY <3>1, NothingOwed
  <2>7. ASSUME Pay(c) \/ PayThrows(c)
        PROVE  Followed' /\ PaidAtMostOnce'
    <3>1. /\ job[c] \in Sponsorships /\ pc[c] = "pay"
          /\ store[job[c]].status = "CONFIRMED" /\ store[job[c]].payment = 0
      BY <2>7, CallerMoves DEF Pay, PayThrows, ReadHolds
    <3>2. UNCHANGED <<store, unnamed>> /\ (UNCHANGED payments \/ Transfer(job[c]))
      BY <2>7 DEF Pay, PayThrows
    <3>3. /\ \A d \in Callers \ {c} : pc'[d] = pc[d] /\ job'[d] = job[d] /\ target'[d] = target[d]
          /\ job'[c] = job[c]
          /\ pc'[c] = "save" \/ (pc'[c] = "put" /\ target'[c] = "REIMBURSEMENT_FAILED")
      BY <2>7 DEF Pay, PayThrows, WriteNext, GoTo, TypeOK
    <3>4. \A d \in Callers : ~Owes(d, job[c])
      <4>1. \A d \in Callers : pc[d] \in Entered => d = c
        BY <3>1, ReimbursementAssumption DEF Exclusive, Entered
      <4> QED
        BY <3>1, <4>1 DEF Owes, Entered
    <3>5. payments[job[c]] = <<>> \/ job[c] \in unnamed
      BY <3>1, <3>4 DEF Followed
    <3>6. CASE UNCHANGED payments
      BY <3>1, <3>2, <3>3, <3>6, NothingOwed
    <3>7. CASE Transfer(job[c])
      <4>1. /\ \A u \in Sponsorships \ {job[c]} : payments'[u] = payments[u]
            /\ Len(payments'[job[c]]) = Len(payments[job[c]]) + 1
        BY <3>1, <3>7, AddedPayment
      <4>2. PaidAtMostOnce'
        BY <3>2, <3>5, <4>1 DEF PaidAtMostOnce
      <4>3. \A s \in Sponsorships : s = job[c] => Owes(c, s)'
        BY <3>3 DEF Owes
      <4>4. ASSUME NEW s \in Sponsorships \ {job[c]}, payments'[s] # <<>>, store'[s].payment = 0
            PROVE  \/ s \in unnamed'
                   \/ store'[s].status = "REIMBURSEMENT_FAILED"
                   \/ \E d \in Callers : Owes(d, s)'
        <5>1. ASSUME NEW d \in Callers, Owes(d, s) PROVE Owes(d, s)'
          BY <3>1, <3>3, <4>4, <5>1 DEF Owes
        <5> QED
          BY <3>2, <4>1, <4>4, <5>1 DEF Followed
      <4> QED
        BY <4>2, <4>3, <4>4 DEF Followed
    <3> QED
      BY <3>2, <3>6, <3>7
  <2>8. CASE SavePayment(c)
    <3>1. /\ job[c] \in Sponsorships /\ pc[c] = "save"
          /\ payments[job[c]] # <<>> /\ payments[job[c]] \in Seq(ChainStates)
      <4>1. job[c] \in Sponsorships /\ pc[c] = "save"
        BY <2>8, Working DEF SavePayment
      <4> QED
        BY <4>1 DEF ReadHolds, TypeOK
    <3>2. Len(payments[job[c]]) # 0
      BY <3>1, EmptySeq
    <3>3. PICK written \in WriteOutcomes :
             /\ store' = IF written THEN [store EXCEPT ![job[c]].payment = Len(payments[job[c]])]
                         ELSE store
             /\ WriteNext(c, IF written THEN "PAYMENTS_BROADCAST" ELSE "REIMBURSEMENT_FAILED")
      BY <2>8 DEF SavePayment
    <3>4. /\ \A d \in Callers \ {c} : pc'[d] = pc[d] /\ job'[d] = job[d] /\ target'[d] = target[d]
          /\ job' = job /\ pc'[c] = "put"
          /\ target'[c] = IF written THEN "PAYMENTS_BROADCAST" ELSE "REIMBURSEMENT_FAILED"
      BY <3>3 DEF WriteNext, GoTo, TypeOK
    <3>5. UNCHANGED <<payments, unnamed>>
      BY <2>8 DEF SavePayment
    <3>6. CASE written
      <4> DEFINE n == Len(payments[job[c]])
      <4>1. store' = [store EXCEPT ![job[c]].payment = n] /\ n # 0
        BY <3>2, <3>3, <3>6
      <4> HIDE DEF n
      <4>2. \A s \in Sponsorships :
               /\ store'[s].status = store[s].status
               /\ s # job[c] => store'[s].payment = store[s].payment
        BY <4>1 DEF TypeOK, Record
      <4>3. store'[job[c]].payment # 0
        BY <3>1, <4>1 DEF TypeOK, Record
      <4>4. \A s \in Sponsorships : Owes(c, s) => store'[s].payment # 0
        BY <4>3 DEF Owes
      <4> QED
        BY <3>4, <3>5, <4>2, <4>3, <4>4, StillFollowed
    <3>7. CASE ~written
      <4>1. store' = store /\ \A s \in Sponsorships : Owes(c, s) => Owes(c, s)'
        BY <3>3, <3>4, <3>7 DEF Owes
      <4> QED
        BY <3>4, <3>5, <4>1, StillFollowed
    <3> QED
      BY <3>6, <3>7
  <2>9. CASE PaymentStatus(c)
    <3>1. pc[c] = "payment" /\ UNCHANGED <<payments, store, unnamed>>
      BY <2>9, PaymentOutcomes
    <3>2. Return(c) \/ \E status \in TransactionStates : WriteNext(c, status)
      BY <2>9, PaymentOutcomes DEF TransactionStates
    <3>3. \A d \in Callers \ {c} : pc'[d] = pc[d] /\ job'[d] = job[d] /\ target'[d] = target[d]
      BY <3>2 DEF WriteNext, GoTo, Return, TypeOK
    <3> QED
      BY <3>1, <3>3, NothingOwed
  <2> QED
    BY <1>9, <2>1, <2>2, <2>3, <2>4, <2>5, <2>6, <2>7, <2>8, <2>9 DEF CallerStep
<1> QED
  BY <1>1, <1>2, <1>3, <1>4, <1>5, <1>6, <1>7, <1>8, <1>9 DEF Next

-----------------------------------------------------------------------------
(* The theorems. *)

\* It holds at the start.
LEMMA Start ==
    ASSUME Init
    PROVE  TypeOK /\ Reconciled
<1>1. TypeOK
  <2>1. NoRecord \in Record
    BY DEF NoRecord, Record
  <2>2. <<>> \in Seq(ChainStates) /\ Len(<<>>) = 0
    OBVIOUS
  <2> QED
    BY <2>1, <2>2 DEF Init, TypeOK, ChainStates, PCs, TransactionStates
<1>2. Exclusive /\ ReadHolds
  BY DEF Init, Exclusive, ReadHolds, Entered
<1>3. Executed /\ Followed /\ PaymentsMatchRecords /\ PaidAtMostOnce
  BY DEF Init, NoRecord, Executed, Followed, PaymentsMatchRecords, PaidAtMostOnce
<1> QED
  BY <1>1, <1>2, <1>3 DEF Reconciled

\* And always: records, payments and the chain stay in step, whatever callers
\* overlap, fail or are lost with the process.
THEOREM AlwaysReconciled == Spec => [](TypeOK /\ Reconciled)
<1>1. Init => TypeOK /\ Reconciled
  BY Start
<1>2. ASSUME TypeOK, Reconciled, [Next]_vars PROVE TypeOK' /\ Reconciled'
  <2>1. TypeOK'
    BY <1>2, StepTypes DEF Reconciled
  <2>2. Exclusive'
    BY <1>2, <2>1, StepExclusive DEF Reconciled
  <2>3. ReadHolds'
    BY <1>2, <2>1, StepReadHolds DEF Reconciled
  <2>4. Executed' /\ PaymentsMatchRecords'
    BY <1>2, <2>1, StepExecuted DEF Reconciled
  <2>5. Followed' /\ PaidAtMostOnce'
    BY <1>2, <2>1, StepFollowed DEF Reconciled
  <2> QED
    BY <2>1, <2>2, <2>3, <2>4, <2>5 DEF Reconciled
<1> QED
  BY <1>1, <1>2, PTL DEF Spec

\* The types hold, and a record promises what the policy pays for its fee.
THEOREM TypeCorrect == Spec => []TypeOK
  BY AlwaysReconciled, PTL

\* Only executed sponsorships are paid for, a record that moved on names its
\* payment, and REIMBURSED is only said of a payment the chain executed.
THEOREM PaymentsMatch == Spec => []PaymentsMatchRecords
<1>1. Reconciled => PaymentsMatchRecords
  BY DEF Reconciled
<1> QED
  BY <1>1, AlwaysReconciled, PTL

\* No sponsorship is paid twice, unless a restart or a second failed write left
\* a payment its record does not name.
THEOREM PaidOnce == Spec => []PaidAtMostOnce
<1>1. Reconciled => PaidAtMostOnce
  BY DEF Reconciled
<1> QED
  BY <1>1, AlwaysReconciled, PTL

\* calculateReimbursement() never quotes less than the network fee is worth at
\* the policy's rate, and what it does not refuse is within the policy's bounds.
THEOREM PricedCoversFee ==
    \A fee \in Nat :
        Payable(fee) =>
            /\ Priced(fee) \in Minimum .. Maximum
            /\ Priced(fee) * RateDenominator >= fee * RateNumerator
<1> SUFFICES ASSUME NEW fee \in Nat, Payable(fee)
             PROVE  /\ Priced(fee) \in Minimum .. Maximum
                    /\ Priced(fee) * RateDenominator >= fee * RateNumerator
  OBVIOUS
<1>1. /\ RateNumerator \in Nat /\ RateDenominator \in Nat \ {0}
      /\ Minimum \in Nat /\ Maximum \in Nat /\ FailureReserve \in Nat
  BY PolicyAssumption DEF ValidPolicy
<1>2. Priced(fee) \in Minimum .. Maximum
  BY <1>1, PricedType DEF Payable
<1> DEFINE n == fee * RateNumerator
           p == Priced(fee)
           q == Converted(fee)
<1>3. n \in Nat
  BY <1>1
<1>4. q * RateDenominator >= n
  <2> HIDE DEF n
  <2>1. ceilDivide(n, RateDenominator) * RateDenominator >= n
    BY <1>1, <1>3, CeilDivides
  <2> QED
    BY <2>1 DEF Converted, n
<1>5. p \in Nat /\ q \in Nat /\ p >= q
  BY <1>1, PricedType
<1>6. p * RateDenominator >= q * RateDenominator
  <2> HIDE DEF p, q, n
  <2>1. (p - q) * RateDenominator >= 0
    BY <1>1, <1>5
  <2>2. (p - q) * RateDenominator = p * RateDenominator - q * RateDenominator
    BY <1>1, <1>5
  <2> QED
    BY <1>1, <1>5, <2>1, <2>2
<1>7. p * RateDenominator >= n
  <2> HIDE DEF p, q, n
  <2> QED
    BY <1>1, <1>3, <1>4, <1>5, <1>6
<1> QED
  BY <1>2, <1>7

-----------------------------------------------------------------------------
(* The records implement the lifecycle. *)

\* A record's status and payment, as a reader of the records sees them.
Seen == <<[s \in Sponsorships |-> Status(s)], [s \in Sponsorships |-> store[s].payment]>>

\* A step that leaves the file alone is invisible to its readers.
LEMMA Unseen ==
    ASSUME UNCHANGED store
    PROVE  UNCHANGED Seen
  BY DEF Seen, Status

\* Creating the record, and each change of its status, is a legal change.
LEMMA Advances ==
    ASSUME TypeOK, NEW s \in Sponsorships, NEW to \in TransactionStates,
           CanTransition(Status(s), to), Status(s)' = to,
           \A u \in Sponsorships : store'[u].payment = store[u].payment,
           \A u \in Sponsorships \ {s} : store'[u] = store[u]
    PROVE  Lifecycle!Advance(s)
<1> DEFINE status == [u \in Sponsorships |-> Status(u)]
<1>1. CanTransition(status[s], to)
  OBVIOUS
<1>2. status' = [status EXCEPT ![s] = to]
  BY DEF Status
<1>3. [u \in Sponsorships |-> store[u].payment]' = [u \in Sponsorships |-> store[u].payment]
  OBVIOUS
<1> QED
  BY <1>1, <1>2, <1>3 DEF Lifecycle!Advance, Lifecycle!CanTransition, Lifecycle!Transitions,
     CanTransition, Transitions, Lifecycle!TransactionStates, TransactionStates

\* Every step of the worker is a step of the lifecycle, or invisible.
LEMMA StepImplements ==
    ASSUME TypeOK, Reconciled, [Next]_vars
    PROVE  [Lifecycle!Next]_Seen
<1> USE DEF worldVars, callerVars
<1>1. CASE UNCHANGED vars
  BY <1>1, Unseen DEF vars
<1>2. CASE Crash
  BY <1>2, Unseen DEF Crash
<1>3. ASSUME NEW s \in Sponsorships, SettleSponsored(s) \/ PassDeadline(s)
      PROVE  [Lifecycle!Next]_Seen
  BY <1>3, Unseen DEF SettleSponsored, PassDeadline
<1>4. ASSUME NEW s \in Sponsorships, Create(s) PROVE [Lifecycle!Next]_Seen
  <2>1. PICK fee \in Fees :
           store' = [store EXCEPT ![s] = [status |-> "BROADCAST", payment |-> 0,
                                        fee |-> fee, amount |-> Amount(fee)]]
    BY <1>4 DEF Create
  <2>2. store[s].status = "NONE" /\ store[s].payment = 0
    BY <1>4 DEF Create, TypeOK, NoRecord
  <2>3. store'[s].status = "BROADCAST" /\ store'[s].payment = 0
    BY <2>1 DEF TypeOK
  <2>4. \A u \in Sponsorships \ {s} : store'[u] = store[u]
    BY <2>1 DEF TypeOK
  <2>5. CanTransition(Status(s), "BROADCAST") /\ Status(s)' = "BROADCAST"
    BY <2>2, <2>3 DEF Status, CanTransition, Transitions
  <2>6. Lifecycle!Advance(s)
    BY <2>2, <2>3, <2>4, <2>5, Advances DEF TransactionStates
  <2> QED
    BY <2>6 DEF Lifecycle!Next
<1>5. ASSUME NEW s \in Sponsorships, NEW i \in 1 .. MaxPayments, SettlePayment(s, i)
      PROVE  [Lifecycle!Next]_Seen
  BY <1>5, Unseen DEF SettlePayment
<1>6. ASSUME NEW c \in Callers, Poll(c) PROVE [Lifecycle!Next]_Seen
  BY <1>6, Unseen DEF Poll
<1>7. ASSUME NEW c \in Callers, NEW s \in Sponsorships, Ask(c, s) PROVE [Lifecycle!Next]_Seen
  BY <1>7, Unseen DEF Ask
<1>8. ASSUME NEW c \in Callers, PutStatus(c) PROVE [Lifecycle!Next]_Seen
  <2>1. job[c] \in Sponsorships /\ target[c] \in TransactionStates
    BY <1>8, Working DEF PutStatus, TypeOK
  <2>2. CASE store' = store
    BY <2>2, Unseen
  <2>3. CASE /\ store' = [store EXCEPT ![job[c]].status = target[c]]
             /\ CanTransition(store[job[c]].status, target[c])
    <3>0. PICK s \in Sponsorships, to \in TransactionStates : s = job[c] /\ to = target[c]
      BY <2>1
    <3>1. /\ \A u \in Sponsorships : store'[u].payment = store[u].payment
          /\ \A u \in Sponsorships \ {s} : store'[u] = store[u]
          /\ store'[s].status = to
      BY <3>0, <2>3 DEF TypeOK, Record
    <3>2. store[s].status # "NONE" /\ to # "NONE"
      BY <3>0, <2>3 DEF CanTransition, Transitions, TransactionStates
    <3>3. CanTransition(Status(s), to) /\ Status(s)' = to
      BY <2>3, <3>0, <3>1, <3>2 DEF Status
    <3>4. Lifecycle!Advance(s)
      BY <3>1, <3>3, Advances
    <3> QED
      BY <3>4 DEF Lifecycle!Next
  <2> QED
    BY <1>8, <2>2, <2>3 DEF PutStatus
<1>9. ASSUME NEW c \in Callers, SavePayment(c) PROVE [Lifecycle!Next]_Seen
  <2>1. job[c] \in Sponsorships /\ pc[c] = "save"
    BY <1>9, Working DEF SavePayment
  <2>2. /\ store[job[c]].status = "CONFIRMED" /\ store[job[c]].payment = 0
        /\ Len(payments[job[c]]) # 0
    BY <2>1, EmptySeq DEF Reconciled, ReadHolds, TypeOK
  <2>3. CASE store' = store
    BY <2>3, Unseen
  <2>4. CASE store' = [store EXCEPT ![job[c]].payment = Len(payments[job[c]])]
    <3>0. PICK s \in Sponsorships, n \in {Len(payments[job[c]])} : s = job[c] /\ n = Len(payments[job[c]])
      BY <2>1
    <3> DEFINE payment == [u \in Sponsorships |-> store[u].payment]
    <3>1. store' = [store EXCEPT ![s].payment = n] /\ n # 0
          /\ store[s].status = "CONFIRMED" /\ store[s].payment = 0
      BY <3>0, <2>1, <2>2, <2>4
    <3>2. /\ \A u \in Sponsorships : store'[u].status = store[u].status
          /\ \A u \in Sponsorships \ {s} : store'[u].payment = store[u].payment
          /\ store'[s].payment = n
      BY <3>1 DEF TypeOK, Record
    <3>3. [u \in Sponsorships |-> Status(u)]' = [u \in Sponsorships |-> Status(u)]
      BY <3>2 DEF Status
    <3>4. payment' = [payment EXCEPT ![s] = n] /\ payment[s] = 0
      BY <3>1, <3>2
    <3>5. payment'[s] = n /\ payment' = [payment EXCEPT ![s] = payment'[s]]
      BY <3>1, <3>4
    <3>6. [u \in Sponsorships |-> Status(u)][s] = "CONFIRMED"
      BY <3>1 DEF Status
    <3>7. Lifecycle!NamePayment(s)
      BY <3>1, <3>3, <3>4, <3>5, <3>6 DEF Lifecycle!NamePayment
    <3> QED
      BY <3>7 DEF Lifecycle!Next
  <2> QED
    BY <1>9, <2>3, <2>4 DEF SavePayment
<1>10. ASSUME NEW c \in Callers, CallerStep(c), ~PutStatus(c), ~SavePayment(c)
       PROVE  [Lifecycle!Next]_Seen
  <2>1. store' = store
    BY <1>10 DEF CallerStep, TakeNext, Read, StatusUnavailable, SponsoredStatus, SkipPayment,
       Pay, PayThrows, PaymentStatus
  <2> QED
    BY <2>1, Unseen
<1> QED
  BY <1>1, <1>2, <1>3, <1>4, <1>5, <1>6, <1>7, <1>8, <1>9, <1>10 DEF Next

\* The worker implements the public lifecycle: legal changes of status only, and
\* a payment named once, while CONFIRMED, and never renamed.
THEOREM Implements == Spec => ImplementsLifecycle
<1>1. Init => Lifecycle!Init
  <2> SUFFICES ASSUME Init PROVE Lifecycle!Init
    OBVIOUS
  <2>1. \A s \in Sponsorships : Status(s) = "SPONSORED" /\ store[s].payment = 0
    BY DEF Init, NoRecord, Status
  <2> QED
    BY <2>1 DEF Lifecycle!Init
<1>2. TypeOK /\ Reconciled /\ [Next]_vars => [Lifecycle!Next]_Seen
  BY StepImplements
<1> QED
  BY <1>1, <1>2, AlwaysReconciled, PTL DEF Spec, ImplementsLifecycle, Lifecycle!Spec, Seen

=============================================================================
