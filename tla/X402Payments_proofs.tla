------------------------- MODULE X402Payments_proofs -------------------------
(***************************************************************************)
(* Proofs about X402Payments for any number of connections, payments and   *)
(* requests, any capacity, and with any set of faults.                     *)
(***************************************************************************)
EXTENDS X402Payments, FiniteSetTheorems, TLAPS

USE X402Assumption

-----------------------------------------------------------------------------
(* The inductive invariant. *)

\* A handler that has reserved its quote and not answered yet.
Holding == {"check", "settle", "receipt", "broadcast", "release"}

\* One that may still give the quote back.
MayRelease == Holding \ {"broadcast"}

\* A payment on file stays bound to one request, in memory and on disk, and is
\* settled for that request only.
Binds ==
    /\ \A p \in Payments : file.bindings[p] # None => bindings[p] = file.bindings[p]
    /\ SettledStaysBound
    /\ \A p \in receipts \cup file.receipts : charged[p] # None

\* What each handler knows of the payment it carries.
Progress ==
    /\ \A r \in Requests :
          pc[r] \in {"reserve", "check", "settle"} /\ ~cached[r] =>
             file.bindings[payment[r]] = input[r]
    /\ \A r \in Requests : cached[r] => charged[payment[r]] = input[r]
    /\ \A r \in Requests :
          pc[r] \in {"receipt", "broadcast"} => charged[payment[r]] = input[r]
    /\ \A r \in Requests :
          pc[r] \in {"idle", "lookup", "admit", "verify", "bind", "receipt"} => ~cached[r]

\* A quote is held by one handler.
OneHolder ==
    /\ \A r \in Requests : pc[r] \in Holding => quote[input[r]] = "PROCESSING"
    /\ \A r, s \in Requests :
          r # s /\ pc[r] \in Holding /\ pc[s] \in Holding => input[r] # input[s]

\* The receipts that were written.
Filed == (receipts \cup file.receipts) \ unfiled

\* The request of a written receipt has left the hands of every handler that
\* could offer it for another payment.
Final ==
    /\ \A p \in Filed : quote[charged[p]] # "ISSUED"
    /\ \A p \in Filed, r \in Requests : pc[r] \in MayRelease => input[r] # charged[p]
    /\ \A p, u \in Filed : charged[p] = charged[u] => p = u

Accounted == Binds /\ Progress /\ OneHolder /\ Final /\ PaidBeforeBroadcast

-----------------------------------------------------------------------------
(* Each step keeps the invariant. *)

\* The store starts well typed and accounted for.
LEMMA Start == Init => TypeOK /\ Accounted
  BY DEF Init, TypeOK, PCs, Binding, NoBindings, Accounted, Binds, Progress, OneHolder, Final,
         Holding, MayRelease, Filed, SettledStaysBound, PaidBeforeBroadcast

\* How a step leaves the handler that takes it.
HandlerTypes ==
    /\ pc \in [Requests -> PCs]
    /\ payment \in [Requests -> Payments \cup {None}]
    /\ input \in [Requests -> Inputs \cup {None}]
    /\ \A r \in Requests : pc[r] # "idle" => payment[r] # None /\ input[r] # None
    /\ cached \in [Requests -> BOOLEAN]

\* A handler that answers or goes on stays well typed.
LEMMA Moves ==
    ASSUME TypeOK, NEW r \in Requests
    PROVE  /\ Answer(r) => HandlerTypes'
           /\ \A from \in PCs \ {"idle"}, to \in PCs : GoTo(r, from, to) => HandlerTypes'
<1> USE DEF TypeOK, HandlerTypes
<1>1. Answer(r) => HandlerTypes'
  BY DEF Answer, PCs
<1>2. ASSUME NEW from \in PCs \ {"idle"}, NEW to \in PCs, GoTo(r, from, to) PROVE HandlerTypes'
  BY <1>2 DEF GoTo, At, requestVars
<1> QED
  BY <1>1, <1>2

\* What a binding does: it is refused, written, or left in memory only.
LEMMA BindOutcomes ==
    ASSUME NEW r \in Requests, Bind(r)
    PROVE  /\ pc[r] = "bind"
           /\ UNCHANGED <<quote, charged, unfiled, served>>
           /\ \/ UNCHANGED <<bindings, receipts, file>> /\ Answer(r)
              \/ /\ bindings[payment[r]] \in {None, input[r]}
                 /\ bindings' = [bindings EXCEPT ![payment[r]] = input[r]]
                 /\ receipts' = receipts
                 /\ \/ /\ file' = [bindings |-> bindings', receipts |-> receipts]
                       /\ GoTo(r, "bind", "reserve")
                    \/ file' = file /\ Answer(r)
<1>1. CASE BoundElsewhere(r) /\ Answer(r) /\ UNCHANGED storeVars
  BY <1>1 DEF Bind, storeVars
<1>2. ASSUME NEW written \in WriteOutcomes, ~BoundElsewhere(r),
             Save([bindings EXCEPT ![payment[r]] = input[r]], receipts, written),
             IF written THEN GoTo(r, "bind", "reserve") ELSE Answer(r)
      PROVE  /\ bindings[payment[r]] \in {None, input[r]}
             /\ bindings' = [bindings EXCEPT ![payment[r]] = input[r]]
             /\ receipts' = receipts
             /\ \/ /\ file' = [bindings |-> bindings', receipts |-> receipts]
                   /\ GoTo(r, "bind", "reserve")
                \/ file' = file /\ Answer(r)
  BY <1>2 DEF Save, BoundElsewhere
<1> QED
  BY <1>1, <1>2 DEF Bind

\* Every step keeps the types.
LEMMA StepTypes ==
    ASSUME TypeOK, Accounted, [Next]_vars
    PROVE  TypeOK'
<1> USE DEF TypeOK, PCs, Binding
<1>1. CASE UNCHANGED vars
  BY <1>1 DEF vars, storeVars, requestVars
<1>2. CASE Crash
  BY <1>2 DEF Crash, Load, NoBindings, Accounted, Binds, SettledStaysBound
<1>3. ASSUME NEW r \in Requests, Step(r) PROVE TypeOK'
  <2>1. CASE Request(r)
    BY <2>1 DEF Request, storeVars, requestVars, At
  <2>2. CASE Lookup(r)
    <3>1. CASE Answer(r)
      BY <2>2, <3>1, Moves DEF Lookup, storeVars, HandlerTypes
    <3>2. ASSUME ~Answer(r) PROVE TypeOK'
      <4>1. /\ pc[r] = "lookup"
            /\ pc' = [pc EXCEPT ![r] = IF payment[r] \in receipts THEN "reserve" ELSE "admit"]
            /\ cached' = [cached EXCEPT ![r] = payment[r] \in receipts]
            /\ UNCHANGED requestVars
        BY <2>2, <3>2 DEF Lookup, At
      <4> QED
        BY <2>2, <4>1 DEF Lookup, storeVars, requestVars
    <3> QED
      BY <3>1, <3>2
  <2>3. CASE Admit(r)
    BY <2>3, Moves DEF Admit, storeVars, HandlerTypes
  <2>4. CASE Verify(r)
    BY <2>4, Moves DEF Verify, storeVars, HandlerTypes
  <2>5. CASE Bind(r)
    BY <2>5, BindOutcomes, Moves DEF HandlerTypes
  <2>6. CASE ReserveQuote(r)
    BY <2>6, Moves DEF ReserveQuote, storeVars, HandlerTypes, MayReserve
  <2>7. CASE Check(r)
    BY <2>7 DEF Check, storeVars, requestVars, GoTo, At
  <2>8. CASE SkipSettlement(r)
    BY <2>8 DEF SkipSettlement, storeVars, requestVars, GoTo, At
  <2>9. CASE Settle(r)
    BY <2>9 DEF Settle, storeVars, requestVars, GoTo, At
  <2>10. CASE SaveReceipt(r)
    BY <2>10 DEF SaveReceipt, storeVars, requestVars, GoTo, At, Save, WriteOutcomes,
                Accounted, Binds, Progress, SettledStaysBound
  <2>11. CASE Broadcast(r)
    BY <2>11 DEF Broadcast, storeVars, requestVars, Answer
  <2>12. CASE ReleaseQuote(r)
    BY <2>12 DEF ReleaseQuote, storeVars, requestVars, Answer
  <2> QED
    BY <1>3, <2>1, <2>2, <2>3, <2>4, <2>5, <2>6, <2>7, <2>8, <2>9, <2>10, <2>11, <2>12 DEF Step
<1> QED
  BY <1>1, <1>2, <1>3 DEF Next

\* No step binds a payment again, or settles it for another request.
LEMMA StepBinds ==
    ASSUME TypeOK, TypeOK', Accounted, [Next]_vars
    PROVE  Binds'
<1> USE DEF TypeOK, PCs, Binding, Accounted, Binds, Progress, SettledStaysBound
<1>1. CASE UNCHANGED vars
  BY <1>1 DEF vars, storeVars, requestVars
<1>2. CASE Crash
  BY <1>2 DEF Crash, Load, NoBindings
<1>3. ASSUME NEW r \in Requests, Step(r) PROVE Binds'
  <2>1. CASE Request(r)
    BY <2>1 DEF Request, storeVars, requestVars, At
  <2>2. CASE Lookup(r)
    BY <2>2 DEF Lookup, storeVars, requestVars, At, Answer, BoundElsewhere
  <2>3. CASE Admit(r)
    BY <2>3 DEF Admit, storeVars, requestVars, GoTo, At, Answer
  <2>4. CASE Verify(r)
    BY <2>4 DEF Verify, storeVars, requestVars, GoTo, At, Answer
  <2>5. CASE Bind(r)
    BY <2>5, BindOutcomes DEF GoTo, At, Answer, requestVars
  <2>6. CASE ReserveQuote(r)
    BY <2>6 DEF ReserveQuote, storeVars, requestVars, GoTo, At, Answer, MayReserve
  <2>7. CASE Check(r)
    BY <2>7 DEF Check, storeVars, requestVars, GoTo, At
  <2>8. CASE SkipSettlement(r)
    BY <2>8 DEF SkipSettlement, storeVars, requestVars, GoTo, At
  <2>9. CASE Settle(r)
    BY <2>9 DEF Settle, storeVars, requestVars, GoTo, At
  <2>10. CASE SaveReceipt(r)
    BY <2>10 DEF SaveReceipt, storeVars, requestVars, GoTo, At, Save, WriteOutcomes
  <2>11. CASE Broadcast(r)
    BY <2>11 DEF Broadcast, storeVars, requestVars, Answer
  <2>12. CASE ReleaseQuote(r)
    BY <2>12 DEF ReleaseQuote, storeVars, requestVars, Answer
  <2> QED
    BY <1>3, <2>1, <2>2, <2>3, <2>4, <2>5, <2>6, <2>7, <2>8, <2>9, <2>10, <2>11, <2>12 DEF Step
<1> QED
  BY <1>1, <1>2, <1>3 DEF Next

\* What a handler knows of its payment stays true.
LEMMA StepProgress ==
    ASSUME TypeOK, TypeOK', Accounted, [Next]_vars
    PROVE  Progress'
<1> USE DEF TypeOK, PCs, Binding, Accounted, Binds, Progress, SettledStaysBound
<1>1. CASE UNCHANGED vars
  BY <1>1 DEF vars, storeVars, requestVars
<1>2. CASE Crash
  BY <1>2 DEF Crash, Load, NoBindings
<1>3. ASSUME NEW r \in Requests, Step(r) PROVE Progress'
  <2>1. CASE Request(r)
    BY <2>1 DEF Request, storeVars, requestVars, At
  <2>2. CASE Lookup(r)
    BY <2>2 DEF Lookup, storeVars, requestVars, At, Answer, BoundElsewhere
  <2>3. CASE Admit(r)
    BY <2>3 DEF Admit, storeVars, requestVars, GoTo, At, Answer
  <2>4. CASE Verify(r)
    BY <2>4 DEF Verify, storeVars, requestVars, GoTo, At, Answer
  <2>5. CASE Bind(r)
    BY <2>5, BindOutcomes DEF GoTo, At, Answer, requestVars
  <2>6. CASE ReserveQuote(r)
    BY <2>6 DEF ReserveQuote, storeVars, requestVars, GoTo, At, Answer, MayReserve
  <2>7. CASE Check(r)
    BY <2>7 DEF Check, storeVars, requestVars, GoTo, At
  <2>8. CASE SkipSettlement(r)
    BY <2>8 DEF SkipSettlement, storeVars, requestVars, GoTo, At
  <2>9. CASE Settle(r)
    BY <2>9 DEF Settle, storeVars, requestVars, GoTo, At
  <2>10. CASE SaveReceipt(r)
    BY <2>10 DEF SaveReceipt, storeVars, requestVars, GoTo, At, Save, WriteOutcomes
  <2>11. CASE Broadcast(r)
    BY <2>11 DEF Broadcast, storeVars, requestVars, Answer
  <2>12. CASE ReleaseQuote(r)
    BY <2>12 DEF ReleaseQuote, storeVars, requestVars, Answer
  <2> QED
    BY <1>3, <2>1, <2>2, <2>3, <2>4, <2>5, <2>6, <2>7, <2>8, <2>9, <2>10, <2>11, <2>12 DEF Step
<1> QED
  BY <1>1, <1>2, <1>3 DEF Next

\* No step hands a quote to two handlers.
LEMMA StepOneHolder ==
    ASSUME TypeOK, TypeOK', Accounted, [Next]_vars
    PROVE  OneHolder'
<1> USE DEF TypeOK, PCs, Binding, Accounted, OneHolder, Holding
<1>1. CASE UNCHANGED vars
  BY <1>1 DEF vars, storeVars, requestVars
<1>2. CASE Crash
  BY <1>2 DEF Crash, Load, NoBindings
<1>3. ASSUME NEW r \in Requests, Step(r) PROVE OneHolder'
  <2>1. CASE Request(r)
    BY <2>1 DEF Request, storeVars, requestVars, At
  <2>2. CASE Lookup(r)
    BY <2>2 DEF Lookup, storeVars, requestVars, At, Answer, BoundElsewhere
  <2>3. CASE Admit(r)
    BY <2>3 DEF Admit, storeVars, requestVars, GoTo, At, Answer
  <2>4. CASE Verify(r)
    BY <2>4 DEF Verify, storeVars, requestVars, GoTo, At, Answer
  <2>5. CASE Bind(r)
    BY <2>5, BindOutcomes DEF GoTo, At, Answer, requestVars
  <2>6. CASE ReserveQuote(r)
    BY <2>6 DEF ReserveQuote, storeVars, requestVars, GoTo, At, Answer, MayReserve
  <2>7. CASE Check(r)
    BY <2>7 DEF Check, storeVars, requestVars, GoTo, At
  <2>8. CASE SkipSettlement(r)
    BY <2>8 DEF SkipSettlement, storeVars, requestVars, GoTo, At
  <2>9. CASE Settle(r)
    BY <2>9 DEF Settle, storeVars, requestVars, GoTo, At
  <2>10. CASE SaveReceipt(r)
    BY <2>10 DEF SaveReceipt, storeVars, requestVars, GoTo, At, Save, WriteOutcomes
  <2>11. CASE Broadcast(r)
    BY <2>11 DEF Broadcast, storeVars, requestVars, Answer
  <2>12. CASE ReleaseQuote(r)
    BY <2>12 DEF ReleaseQuote, storeVars, requestVars, Answer
  <2> QED
    BY <1>3, <2>1, <2>2, <2>3, <2>4, <2>5, <2>6, <2>7, <2>8, <2>9, <2>10, <2>11, <2>12 DEF Step
<1> QED
  BY <1>1, <1>2, <1>3 DEF Next

\* A request with a written receipt is not offered again.
LEMMA StepFinal ==
    ASSUME TypeOK, TypeOK', Accounted, [Next]_vars
    PROVE  Final'
<1> USE DEF TypeOK, PCs, Binding, Accounted, Binds, Progress, SettledStaysBound, OneHolder, Final, Filed, Holding, MayRelease
<1>1. CASE UNCHANGED vars
  BY <1>1 DEF vars, storeVars, requestVars
<1>2. CASE Crash
  BY <1>2 DEF Crash, Load, NoBindings
<1>3. ASSUME NEW r \in Requests, Step(r) PROVE Final'
  <2>1. CASE Request(r)
    BY <2>1 DEF Request, storeVars, requestVars, At
  <2>2. CASE Lookup(r)
    BY <2>2 DEF Lookup, storeVars, requestVars, At, Answer, BoundElsewhere
  <2>3. CASE Admit(r)
    BY <2>3 DEF Admit, storeVars, requestVars, GoTo, At, Answer
  <2>4. CASE Verify(r)
    BY <2>4 DEF Verify, storeVars, requestVars, GoTo, At, Answer
  <2>5. CASE Bind(r)
    BY <2>5, BindOutcomes DEF GoTo, At, Answer, requestVars
  <2>6. CASE ReserveQuote(r)
    BY <2>6 DEF ReserveQuote, storeVars, requestVars, GoTo, At, Answer, MayReserve
  <2>7. CASE Check(r)
    BY <2>7 DEF Check, storeVars, requestVars, GoTo, At
  <2>8. CASE SkipSettlement(r)
    BY <2>8 DEF SkipSettlement, storeVars, requestVars, GoTo, At
  <2>9. CASE Settle(r)
    BY <2>9 DEF Settle, storeVars, requestVars, GoTo, At
  <2>10. CASE SaveReceipt(r)
    BY <2>10 DEF SaveReceipt, storeVars, requestVars, GoTo, At, Save, WriteOutcomes
  <2>11. CASE Broadcast(r)
    BY <2>11 DEF Broadcast, storeVars, requestVars, Answer
  <2>12. CASE ReleaseQuote(r)
    BY <2>12 DEF ReleaseQuote, storeVars, requestVars, Answer
  <2> QED
    BY <1>3, <2>1, <2>2, <2>3, <2>4, <2>5, <2>6, <2>7, <2>8, <2>9, <2>10, <2>11, <2>12 DEF Step
<1> QED
  BY <1>1, <1>2, <1>3 DEF Next

\* Nothing unpaid is broadcast, and no payment is charged again.
LEMMA StepPaid ==
    ASSUME TypeOK, TypeOK', Accounted, [Next]_vars
    PROVE  PaidBeforeBroadcast'
<1> USE DEF TypeOK, PCs, Binding, Accounted, Progress, PaidBeforeBroadcast
<1>1. CASE UNCHANGED vars
  BY <1>1 DEF vars, storeVars, requestVars
<1>2. CASE Crash
  BY <1>2 DEF Crash, Load, NoBindings
<1>3. ASSUME NEW r \in Requests, Step(r) PROVE PaidBeforeBroadcast'
  <2>1. CASE Request(r)
    BY <2>1 DEF Request, storeVars, requestVars, At
  <2>2. CASE Lookup(r)
    BY <2>2 DEF Lookup, storeVars, requestVars, At, Answer, BoundElsewhere
  <2>3. CASE Admit(r)
    BY <2>3 DEF Admit, storeVars, requestVars, GoTo, At, Answer
  <2>4. CASE Verify(r)
    BY <2>4 DEF Verify, storeVars, requestVars, GoTo, At, Answer
  <2>5. CASE Bind(r)
    BY <2>5, BindOutcomes DEF GoTo, At, Answer, requestVars
  <2>6. CASE ReserveQuote(r)
    BY <2>6 DEF ReserveQuote, storeVars, requestVars, GoTo, At, Answer, MayReserve
  <2>7. CASE Check(r)
    BY <2>7 DEF Check, storeVars, requestVars, GoTo, At
  <2>8. CASE SkipSettlement(r)
    BY <2>8 DEF SkipSettlement, storeVars, requestVars, GoTo, At
  <2>9. CASE Settle(r)
    BY <2>9 DEF Settle, storeVars, requestVars, GoTo, At
  <2>10. CASE SaveReceipt(r)
    BY <2>10 DEF SaveReceipt, storeVars, requestVars, GoTo, At, Save, WriteOutcomes
  <2>11. CASE Broadcast(r)
    BY <2>11 DEF Broadcast, storeVars, requestVars, Answer
  <2>12. CASE ReleaseQuote(r)
    BY <2>12 DEF ReleaseQuote, storeVars, requestVars, Answer
  <2> QED
    BY <1>3, <2>1, <2>2, <2>3, <2>4, <2>5, <2>6, <2>7, <2>8, <2>9, <2>10, <2>11, <2>12 DEF Step
<1> QED
  BY <1>1, <1>2, <1>3 DEF Next

-----------------------------------------------------------------------------
(* The places of the store. *)

\* The payments that a version of the bindings has a place for.
Places(b) == {p \in Payments : b[p] # None}

\* The handlers between the capacity test and the binding.
OnTheWay == {r \in Requests : pc[r] \in {"verify", "bind"}}

\* Each handler on the way may still take a place; what is on disk was once in
\* memory, with at least one handler done.
Crowded ==
    /\ IsFiniteSet(Places(bindings))
    /\ IsFiniteSet(Places(file.bindings))
    /\ Cardinality(Places(bindings)) + Cardinality(OnTheWay) < Capacity + Cardinality(Requests)
    /\ Cardinality(Places(file.bindings)) < Capacity + Cardinality(Requests)

\* The handlers on the way are finitely many, at most as many as there are
\* connections, and fewer when one of the connections is elsewhere.
LEMMA OnTheWayCount ==
    /\ IsFiniteSet(OnTheWay)
    /\ Cardinality(OnTheWay) \in Nat
    /\ Cardinality(Requests) \in Nat
    /\ Cardinality(OnTheWay) <= Cardinality(Requests)
  BY FS_Subset, FS_CardinalityType DEF OnTheWay

\* The store starts empty.
LEMMA StartCrowded == Init => Crowded
<1> SUFFICES ASSUME Init PROVE Crowded
  OBVIOUS
<1>1. Places(bindings) = {} /\ Places(file.bindings) = {} /\ OnTheWay = {}
  BY DEF Init, NoBindings, Places, OnTheWay
<1>2. IsFiniteSet({}) /\ Cardinality({}) = 0
  BY FS_EmptySet
<1>3. Cardinality(Requests) \in Nat
  BY FS_CardinalityType
<1> QED
  BY <1>1, <1>2, <1>3 DEF Crowded

\* A step that leaves the store alone, and lets no handler in.
LEMMA StoreAlone ==
    ASSUME Crowded, bindings' = bindings, file'.bindings \in {file.bindings, bindings},
           OnTheWay' \subseteq OnTheWay
    PROVE  Crowded'
<1>1. /\ Cardinality(OnTheWay') \in Nat
      /\ Cardinality(OnTheWay') <= Cardinality(OnTheWay)
  BY OnTheWayCount, FS_Subset, FS_CardinalityType
<1>2. Places(bindings)' = Places(bindings)
  BY DEF Places
<1>3. Places(file.bindings)' \in {Places(file.bindings), Places(bindings)}
  BY DEF Places
<1>4. Cardinality(Places(bindings)) \in Nat /\ Cardinality(Places(file.bindings)) \in Nat
  BY FS_CardinalityType DEF Crowded
<1> QED
  BY <1>1, <1>2, <1>3, <1>4, OnTheWayCount DEF Crowded

\* A handler that is let in finds a place that is free.
LEMMA LetIn ==
    ASSUME TypeOK, TypeOK', Crowded, NEW r \in Requests, Admit(r)
    PROVE  Crowded'
<1>1. CASE Full
  <2>1. OnTheWay' \subseteq OnTheWay
    BY <1>1 DEF Admit, Answer, OnTheWay, TypeOK
  <2> QED
    BY <1>1, <2>1, StoreAlone DEF Admit, storeVars
<1>2. CASE ~Full
  <2>1. bindings' = bindings /\ file' = file
    BY DEF Admit, storeVars
  <2>2. Cardinality(Places(bindings)) \in Nat
    BY FS_CardinalityType DEF Crowded
  <2>3. Cardinality(Places(bindings)) < Capacity
    BY <1>2, <2>2 DEF Full, Bound, Places
  <2>4. /\ Cardinality(OnTheWay') \in Nat
        /\ Cardinality(OnTheWay') <= Cardinality(Requests)
    BY FS_Subset, FS_CardinalityType DEF OnTheWay
  <2>5. /\ Places(bindings)' = Places(bindings)
        /\ Places(file.bindings)' = Places(file.bindings)
    BY <2>1 DEF Places
  <2> QED
    BY <2>2, <2>3, <2>4, <2>5, OnTheWayCount DEF Crowded
<1> QED
  BY <1>1, <1>2

\* A handler that binds its payment takes at most one place, and is off the way.
LEMMA TakesPlace ==
    ASSUME TypeOK, TypeOK', Crowded, NEW r \in Requests, Bind(r)
    PROVE  Crowded'
<1>1. pc[r] = "bind" /\ pc'[r] \notin {"verify", "bind"} /\ pc' = [pc EXCEPT ![r] = pc'[r]]
  BY BindOutcomes DEF Answer, GoTo, At, TypeOK
<1>2. r \in OnTheWay /\ OnTheWay' = OnTheWay \ {r}
  BY <1>1 DEF OnTheWay, TypeOK
<1>3. CASE UNCHANGED <<bindings, receipts, file>>
  BY <1>2, <1>3, StoreAlone
<1>4. CASE /\ bindings' = [bindings EXCEPT ![payment[r]] = input[r]]
           /\ file'.bindings \in {bindings', file.bindings}
  <2>1. payment[r] \in Payments
    BY <1>1 DEF TypeOK
  <2>2. Places(bindings)' \subseteq Places(bindings) \cup {payment[r]}
    BY <1>4, <2>1 DEF Places, TypeOK, Binding
  <2>3. /\ IsFiniteSet(Places(bindings) \cup {payment[r]})
        /\ Cardinality(Places(bindings) \cup {payment[r]}) <= Cardinality(Places(bindings)) + 1
        /\ Cardinality(Places(bindings) \cup {payment[r]}) \in Nat
        /\ Cardinality(Places(bindings)) \in Nat
    <3> DEFINE S == Places(bindings)
    <3>1. IsFiniteSet(S) /\ Cardinality(S) \in Nat
      BY FS_CardinalityType DEF Crowded
    <3> HIDE DEF S
    <3>2. /\ IsFiniteSet(S \cup {payment[r]})
          /\ Cardinality(S \cup {payment[r]}) \in {Cardinality(S), Cardinality(S) + 1}
      BY <3>1, FS_AddElement
    <3> QED
      BY <3>1, <3>2 DEF S
  <2>4. /\ IsFiniteSet(Places(bindings)')
        /\ Cardinality(Places(bindings)') \in Nat
        /\ Cardinality(Places(bindings)') <= Cardinality(Places(bindings)) + 1
    BY <2>2, <2>3, FS_Subset, FS_CardinalityType
  <2>5. /\ Cardinality(OnTheWay') = Cardinality(OnTheWay) - 1
        /\ Cardinality(OnTheWay') \in Nat
    BY <1>2, OnTheWayCount, FS_RemoveElement, FS_CardinalityType
  <2>6. Places(file.bindings)' \in {Places(file.bindings), Places(bindings)'}
    BY <1>4 DEF Places
  <2> QED
    BY <2>3, <2>4, <2>5, <2>6, OnTheWayCount DEF Crowded
<1> QED
  BY <1>3, <1>4, BindOutcomes

\* A restart takes the places that are on disk, with no handler on the way.
LEMMA Restart ==
    ASSUME Crowded, Crash
    PROVE  Crowded'
<1>1. OnTheWay' = {}
  BY DEF Crash, OnTheWay
<1>2. Cardinality({}) = 0
  BY FS_EmptySet
<1>3. /\ Places(bindings)' = Places(file.bindings)
      /\ Places(file.bindings)' = Places(file.bindings)
  BY DEF Crash, Load, Places
<1>4. Cardinality(Places(file.bindings)) \in Nat
  BY FS_CardinalityType DEF Crowded
<1> QED
  BY <1>1, <1>2, <1>3, <1>4, OnTheWayCount DEF Crowded

\* No step takes a place that no handler was let in for.
LEMMA StepCrowded ==
    ASSUME TypeOK, TypeOK', Crowded, [Next]_vars
    PROVE  Crowded'
<1>1. CASE UNCHANGED vars
  BY <1>1, StoreAlone DEF vars, storeVars, OnTheWay
<1>2. CASE Crash
  BY <1>2, Restart
<1>3. ASSUME NEW r \in Requests, Step(r) PROVE Crowded'
  <2>1. CASE Admit(r)
    BY <2>1, LetIn
  <2>2. CASE Bind(r)
    BY <2>2, TakesPlace
  <2>3. CASE SaveReceipt(r)
    <3>1. bindings' = bindings /\ file'.bindings \in {file.bindings, bindings}
      BY <2>3 DEF SaveReceipt, Save
    <3>2. OnTheWay' \subseteq OnTheWay
      BY <2>3 DEF SaveReceipt, GoTo, At, OnTheWay, TypeOK
    <3> QED
      BY <3>1, <3>2, StoreAlone
  <2>4. CASE \/ Request(r) \/ Lookup(r) \/ Verify(r) \/ ReserveQuote(r) \/ Check(r)
             \/ SkipSettlement(r) \/ Settle(r) \/ Broadcast(r) \/ ReleaseQuote(r)
    <3>1. bindings' = bindings /\ file' = file
      BY <2>4 DEF Request, Lookup, Verify, ReserveQuote, Check, SkipSettlement, Settle,
                  Broadcast, ReleaseQuote, storeVars
    <3>2. pc' = [pc EXCEPT ![r] = pc'[r]]
      BY <2>4 DEF Request, Lookup, Verify, ReserveQuote, Check, SkipSettlement, Settle,
                  Broadcast, ReleaseQuote, Answer, GoTo, At, TypeOK
    <3>3. pc[r] \in {"verify", "bind"} \/ pc'[r] \notin {"verify", "bind"}
      BY <2>4 DEF Request, Lookup, Verify, ReserveQuote, Check, SkipSettlement, Settle,
                  Broadcast, ReleaseQuote, Answer, GoTo, At, TypeOK
    <3>4. OnTheWay' \subseteq OnTheWay
      BY <3>2, <3>3 DEF OnTheWay, TypeOK
    <3> QED
      BY <3>1, <3>4, StoreAlone
  <2> QED
    BY <1>3, <2>1, <2>2, <2>3, <2>4 DEF Step
<1> QED
  BY <1>1, <1>2, <1>3 DEF Next

-----------------------------------------------------------------------------
(* What it is for. *)

\* The store, the handlers and the facilitator agree on what was paid for what.
THEOREM AlwaysAccounted == Spec => [](TypeOK /\ Accounted)
<1>1. TypeOK /\ Accounted /\ [Next]_vars => TypeOK'
  BY StepTypes
<1>2. TypeOK /\ Accounted /\ [Next]_vars => Accounted'
  <2> SUFFICES ASSUME TypeOK, Accounted, [Next]_vars PROVE Accounted'
    OBVIOUS
  <2>1. TypeOK'
    BY <1>1
  <2> QED
    BY <2>1, StepBinds, StepProgress, StepOneHolder, StepFinal, StepPaid DEF Accounted
<1> QED
  BY Start, <1>1, <1>2, PTL DEF Spec

\* Bindings, receipts, quotes and handlers keep their form, and a receipt is
\* only held for a bound payment, also after a restart.
THEOREM TypeCorrect == Spec => []TypeOK
  BY AlwaysAccounted, PTL

\* Nothing is sponsored for free, through races, failed writes and restarts.
THEOREM PaidFirst == Spec => []PaidBeforeBroadcast
<1>1. Accounted => PaidBeforeBroadcast
  BY DEF Accounted
<1> QED
  BY <1>1, AlwaysAccounted, PTL

\* A settled payment is bound on disk to the request it was settled for.
THEOREM SettledIsBound == Spec => []SettledStaysBound
<1>1. Accounted => SettledStaysBound
  BY DEF Accounted, Binds
<1> QED
  BY <1>1, AlwaysAccounted, PTL

\* A request has one receipt, unless the write of a receipt threw.
THEOREM OneReceipt == Spec => []OneReceiptPerRequest
<1>1. TypeOK /\ Accounted => OneReceiptPerRequest
  <2> SUFFICES ASSUME TypeOK, Accounted, NEW p \in receipts \ unfiled, NEW u \in receipts \ unfiled,
                      bindings[p] = bindings[u]
               PROVE  p = u
    BY DEF OneReceiptPerRequest
  <2>1. charged[p] = bindings[p] /\ charged[u] = bindings[u]
    BY DEF TypeOK, Accounted, Binds, SettledStaysBound
  <2> QED
    BY <2>1 DEF Accounted, Final, Filed
<1> QED
  BY <1>1, AlwaysAccounted, PTL

\* The store is overrun by fewer payments than there are connections, whatever
\* races, failed writes and restarts there are.
THEOREM OverrunLimited == Spec => []OverrunIsBounded
<1>1. TypeOK /\ TypeOK' /\ Crowded /\ [Next]_vars => Crowded'
  BY StepCrowded
<1>2. Crowded => OverrunIsBounded
  <2> SUFFICES ASSUME Crowded PROVE OverrunIsBounded
    OBVIOUS
  <2>1. Cardinality(Places(bindings)) \in Nat
    BY FS_CardinalityType DEF Crowded
  <2> QED
    BY <2>1, OnTheWayCount DEF Crowded, OverrunIsBounded, Bound, Places
<1> QED
  BY StartCrowded, <1>1, <1>2, TypeCorrect, PTL DEF Spec

=============================================================================
