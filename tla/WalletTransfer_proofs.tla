------------------------ MODULE WalletTransfer_proofs ------------------------
(***************************************************************************)
(* Proofs about WalletTransfer for any number of flows, quotes and blocks, *)
(* any amounts, prices and balance, on either page.                        *)
(***************************************************************************)
EXTENDS WalletTransfer, SumTheorems, SequenceTheorems

USE WalletAssumption, PricingAssumption, AdapterAssumption

-----------------------------------------------------------------------------
(* The invariant. *)

Parties == {Origin, Recipient, Sponsor}

Calls == [args : [quote : Nat, amount : Nat, fee : Nat, recipient : {Recipient}, expires : Nat],
          outflow : Nat, mode : {"deny"}]

QuoteRecord ==
    [amount : Nat, fee : Nat, recipient : {Recipient}, issued : Nat, expires : Nat,
     sent : Calls \cup {None}, tx : {"none", "pending"} \cup Mined, owned : Nat \cup {None}]

Begun == [stage : Stages \ {"idle"}, page : {"shown", "left"},
          intent : [amount : Nat, max : Nat], quote : Ids \cup {None}, signed : Calls \cup {None}]

Flow == {Idle} \cup Begun

Followed == [tx : Ids \cup {None}, receipt : Ids \cup {None}, terminal : BOOLEAN]

\* What TypeOK says of a flow and of a quote.
Good(flow, qs) ==
    \/ flow = Idle
    \/ /\ flow.stage \in Stages \ {"idle"} /\ flow.page \in {"shown", "left"}
       /\ flow.intent.amount > 0 /\ flow.intent.max > 0
       /\ IF flow.stage = "quoting" THEN flow.quote = None
          ELSE /\ flow.quote \in DOMAIN qs
               /\ qs[flow.quote].amount = flow.intent.amount
               /\ qs[flow.quote].fee <= flow.intent.max
       /\ flow.signed = IF flow.stage \in {"final", "submit", "answer"}
                        THEN Prepare(flow.quote, qs[flow.quote]) ELSE None

GoodQuote(q, quote) ==
    /\ quote.tx \in {"none", "pending"} \cup Mined
    /\ quote.expires = quote.issued + Lifetime
    /\ quote.owned = None <=> quote.tx \notin Mined
    /\ quote.sent = IF quote.tx = "none" THEN None ELSE Prepare(q, quote)

FlowForms == flows \in [Flows -> Flow] /\ \A f \in Flows : Good(flows[f], quotes)

QuoteForms ==
    /\ quotes \in Seq(QuoteRecord) /\ Len(quotes) <= MaxQuotes
    /\ \A q \in DOMAIN quotes : GoodQuote(q, quotes[q])

PageForms ==
    /\ {open, busy} \subseteq BOOLEAN
    /\ form \in Nat /\ {breakEven, costFloor} \subseteq Floors
    /\ {sponsorship, receipt, saved, mounted.tx, mounted.receipt} \subseteq DOMAIN quotes \cup {None}
    /\ mounted \in Followed
    /\ {status, poll} \subseteq {None, "pending", "dropped"} \cup Mined

\* A flow has a quote of its own, and nobody else sends its transaction.
Owned ==
    /\ \A f \in Flows : flows[f].stage \in {"verify", "approve", "prompt", "final", "submit"} =>
          quotes[flows[f].quote].tx = "none"
    /\ \A f, g \in Flows : f # g /\ flows[f].quote = flows[g].quote => flows[f].quote = None

\* The embedded page runs one flow, and none while it follows a transaction.
OneAtATime ==
    Embedded =>
        /\ \A f, g \in Active : f = g
        /\ Active # {} => busy /\ sponsorship = None

\* What the embedded page shows, polls and is told is about the receipt it has.
Following ==
    Embedded =>
        /\ receipt = sponsorship
        /\ sponsorship = None => mounted = Nothing /\ poll = None /\ status = None
        /\ mounted.tx \in {None, sponsorship}
        /\ poll \in Mined => mounted.tx # None /\ quotes[mounted.tx].tx = poll
        /\ status \in Mined => quotes[sponsorship].tx = status

\* An origin that could not pay did not own enough.
Blamed ==
    \A q \in DOMAIN quotes :
        quotes[q].tx \in {"FEE_TRANSFER_FAILED", "RECIPIENT_TRANSFER_FAILED"} =>
            quotes[q].owned < quotes[q].amount + quotes[q].fee

\* What the successful transfers of a sequence of quotes moved.
Done(qs) == {q \in DOMAIN qs : qs[q].tx = "success"}

Paid(qs) == SumOver([q \in Done(qs) |-> qs[q].amount], Done(qs))

Fees(qs) == SumOver([q \in Done(qs) |-> qs[q].fee], Done(qs))

Ledgers == [Parties -> 0 .. Balance]

Accounts ==
    /\ height \in 0 .. MaxHeight /\ ledger \in Ledgers
    /\ \A p \in {Recipient, Sponsor} : ledger[p] = Due(p, Paid(quotes), Fees(quotes))
    /\ ledger[Origin] = Balance - Paid(quotes) - Fees(quotes)

InHand ==
    /\ FlowForms /\ QuoteForms /\ PageForms
    /\ Owned /\ OneAtATime /\ Following /\ Blamed /\ Accounts

-----------------------------------------------------------------------------
(* Prices. *)

\* Among natural numbers up to a bound one is the least.
LEMMA LeastOf ==
    ASSUME NEW v \in Nat, NEW S, S \subseteq 0 .. v, S # {}
    PROVE  Min(S) \in S
<1> DEFINE N == 0 .. v
           Bad == {0 .. x : x \in S}
<1>1. IsFiniteSet(N) /\ Bad \subseteq SUBSET N /\ Bad # {}
  <2>1. IsFiniteSet(N)
    BY FS_Interval
  <2>2. \A x \in S : 0 .. x \in SUBSET N
    OBVIOUS
  <2> QED
    BY <2>1, <2>2
<1>2. PICK T \in Bad : \A U \in Bad : U \subseteq T => U = T
  <2> HIDE DEF Bad, N
  <2> QED
    BY <1>1, SmallestSubset
<1>3. PICK x \in S : T = 0 .. x
  BY <1>2
<1>4. \A y \in S : x <= y
  <2> SUFFICES ASSUME NEW y \in S, y < x PROVE FALSE
    OBVIOUS
  <2>1. 0 .. y \in Bad /\ 0 .. y \subseteq T /\ x \in T /\ x \notin 0 .. y
    BY <1>3
  <2> QED
    BY <1>2, <2>1
<1> QED
  BY <1>4 DEF Min

\* The largest of three numbers.
LEMMA MaxOfThree ==
    ASSUME NEW a \in Nat, NEW b \in Nat, NEW c \in Nat
    PROVE  /\ Max({a, b, c}) \in {a, b, c}
           /\ Max({a, b, c}) >= a /\ Max({a, b, c}) >= b /\ Max({a, b, c}) >= c
<1>1. \E x \in {a, b, c} : \A y \in {a, b, c} : x >= y
  <2>1. CASE a >= b /\ a >= c
    BY <2>1
  <2>2. CASE b >= a /\ b >= c
    BY <2>2
  <2>3. CASE c >= a /\ c >= b
    BY <2>3
  <2> QED
    BY <2>1, <2>2, <2>3
<1> QED
  BY <1>1 DEF Max

\* A quotient of natural numbers is one.
LEMMA Quotient ==
    ASSUME NEW n \in Nat, NEW d \in Nat \ {0}
    PROVE  n \div d \in Nat
<1> DEFINE q == n \div d
           r == n % d
<1>1. q \in Int /\ r \in 0 .. d - 1 /\ n = d * q + r
  OBVIOUS
<1>2. q >= 0
  <2> SUFFICES ASSUME q < 0 PROVE FALSE
    BY <1>1
  <2>1. q + 1 <= 0 /\ d * (q + 1) <= 0
    BY <1>1
  <2>2. d * q + d <= 0
    BY <1>1, <2>1
  <2> QED
    BY <1>1, <2>2
<1> QED
  BY <1>1, <1>2

\* The fee before the floors.
LEMMA LogarithmicType ==
    ASSUME NEW amount \in Nat
    PROVE  Logarithmic(amount) \in Nat
<1>1. CeilDiv(amount, Scale) \in Nat
  <2>1. amount + Scale - 1 \in Nat
    OBVIOUS
  <2> QED
    BY <2>1, Quotient DEF CeilDiv
<1> DEFINE v == 1 + CeilDiv(amount, Scale)
<1>2. v \in Nat
  BY <1>1
<1> HIDE DEF v
<1>3. CeilLog2(v) \in Nat
  <2> DEFINE S == {v} \cup {e \in 0 .. v : 2 ^ e >= v}
  <2>1. S \subseteq 0 .. v /\ S # {}
    BY <1>2
  <2> HIDE DEF S
  <2>2. Min(S) \in S
    BY <1>2, <2>1, LeastOf
  <2> QED
    BY <2>1, <2>2 DEF CeilLog2, S
<1> DEFINE e == CeilLog2(v)
<1> HIDE DEF e
<1>4. Growth * e \in Nat
  BY <1>3 DEF e
<1> QED
  BY <1>4 DEF Logarithmic, v, e

\* What the relay charges and what the page expects are positive.
LEMMA FeeTypes ==
    ASSUME NEW amount \in Nat, NEW floor \in Nat
    PROVE  /\ SponsorFee(amount, floor) \in Nat \ {0}
           /\ EstimatedFee(amount, floor) \in Nat \ {0}
<1> DEFINE l == Logarithmic(amount)
<1>1. l \in Nat
  BY LogarithmicType
<1> HIDE DEF l
<1>2. Max({1, l, floor}) \in {1, l, floor} /\ Max({1, l, floor}) >= 1
  BY <1>1, MaxOfThree
<1>3. Max({l, 1, floor}) \in {1, l, floor} /\ Max({l, 1, floor}) >= 1
  BY <1>1, MaxOfThree
<1> QED
  BY <1>1, <1>2, <1>3 DEF SponsorFee, EstimatedFee, l

\* A part of the balance is an amount.
LEMMA PercentType ==
    ASSUME NEW balance \in Nat, NEW percent \in Nat, NEW floor \in Nat
    PROVE  AmountByPercent(balance, percent, floor) \in Nat
<1> DEFINE part == (balance * percent) \div 100
           fee  == EstimatedFee(part, floor)
           safe == IF balance > fee THEN balance - fee ELSE 0
<1>1. part \in Nat
  <2>1. balance * percent \in Nat
    OBVIOUS
  <2> QED
    BY <2>1, Quotient
<1>2. fee \in Nat
  <2> HIDE DEF part
  <2> QED
    BY <1>1, FeeTypes
<1> HIDE DEF fee
<1>3. safe \in Nat
  BY <1>2
<1> HIDE DEF safe
<1>4. safe * percent \in Nat
  BY <1>3
<1>5. (safe * percent) \div 100 \in Nat
  BY <1>4, Quotient
<1> QED
  BY <1>5 DEF AmountByPercent, safe, fee

-----------------------------------------------------------------------------
(* The adapter. *)

\* The origin is neither of the others, which may be one.
LEMMA Distinct == Origin # Recipient /\ Origin # Sponsor
  BY WalletAssumption

\* A call of the adapter that comes back with an error changes nothing, and when
\* it blames the balance, the balance was too low; one that succeeds pays both,
\* as its post-condition says.
LEMMA Executed ==
    ASSUME NEW l \in Ledgers, NEW tx \in Calls, NEW h \in Nat, NEW result,
           tx.outflow = tx.args.amount + tx.args.fee,
           result = Outcome(l, tx, Origin, Sponsor, h)
    PROVE  /\ result.status \in Mined \ {"POST_CONDITION"}
           /\ result.status # "success" => result.ledger = l
           /\ result.status \in {"FEE_TRANSFER_FAILED", "RECIPIENT_TRANSFER_FAILED"} =>
                 l[Origin] < tx.args.amount + tx.args.fee
           /\ result.status = "success" =>
                 /\ tx.args.amount + tx.args.fee <= l[Origin]
                 /\ result.ledger \in [Parties -> Int]
                 /\ result.ledger[Origin] = l[Origin] - tx.args.amount - tx.args.fee
                 /\ \A p \in {Recipient, Sponsor} :
                       result.ledger[p] = l[p] + Due(p, tx.args.amount, tx.args.fee)
<1> DEFINE call == tx.args
           called == SponsoredTransfer(l, call, Origin, Sponsor, h)
           invalid == ArgumentError(call, Origin, Sponsor, h)
           afterFee == Transferred(l, call.fee, Origin, Sponsor)
           paid == Transferred(afterFee, call.amount, Origin, call.recipient)
<1>1. /\ call.amount \in Nat /\ call.fee \in Nat /\ call.recipient = Recipient
      /\ l[Origin] \in Nat /\ l[Recipient] \in Nat /\ l[Sponsor] \in Nat
      /\ l \in [Parties -> Int]
  BY DEF Calls, Ledgers, Parties
<1>2. /\ afterFee \in [Parties -> Int]
      /\ afterFee[Origin] = l[Origin] - call.fee
      /\ afterFee[Recipient] = IF Recipient = Sponsor THEN l[Recipient] + call.fee ELSE l[Recipient]
      /\ afterFee[Sponsor] = l[Sponsor] + call.fee
  BY <1>1, Distinct DEF Transferred, Ledgers, Parties
<1>3. /\ paid \in [Parties -> Int]
      /\ paid[Origin] = l[Origin] - call.fee - call.amount
      /\ \A p \in {Recipient, Sponsor} : paid[p] = l[p] + Due(p, call.amount, call.fee)
  <2> HIDE DEF call, afterFee
  <2>1. CASE Recipient = Sponsor
    BY <1>1, <1>2, <2>1, Distinct DEF Transferred, Parties, Due
  <2>2. CASE Recipient # Sponsor
    BY <1>1, <1>2, <2>2, Distinct DEF Transferred, Parties, Due
  <2> QED
    BY <2>1, <2>2
<1>4. CASE invalid # "none"
  <2>1. invalid \in Errors \ {"FEE_TRANSFER_FAILED", "RECIPIENT_TRANSFER_FAILED", "POST_CONDITION"}
    BY <1>4 DEF ArgumentError, Errors
  <2>2. called = [status |-> invalid, ledger |-> l]
    BY <1>4 DEF SponsoredTransfer
  <2>3. invalid # "success"
    BY <2>1 DEF Errors
  <2> HIDE DEF invalid, called
  <2>4. result = [status |-> invalid, ledger |-> l]
    BY <2>2, <2>3 DEF Outcome, called, call
  <2> QED
    BY <2>1, <2>3, <2>4 DEF Mined
<1>5. CASE invalid = "none"
  <2>1. call.amount # 0 /\ call.fee # 0
    BY <1>5 DEF ArgumentError
  <2> HIDE DEF invalid, call
  <2>2. CASE ~CanTransfer(l, call.fee, Origin, Sponsor)
    <3>1. l[Origin] < call.fee
      BY <1>1, <2>1, <2>2, Distinct DEF CanTransfer
    <3>2. result = [status |-> "FEE_TRANSFER_FAILED", ledger |-> l]
      BY <1>5, <2>2 DEF Outcome, SponsoredTransfer, call, invalid
    <3>3. result.status = "FEE_TRANSFER_FAILED" /\ result.ledger = l
      BY <3>2
    <3> QED
      BY <1>1, <3>1, <3>3 DEF Mined, Errors, call
  <2>3. CASE CanTransfer(l, call.fee, Origin, Sponsor)
             /\ ~CanTransfer(afterFee, call.amount, Origin, call.recipient)
    <3>1. l[Origin] - call.fee < call.amount
      <4> HIDE DEF afterFee
      <4> QED
        BY <1>1, <1>2, <2>1, <2>3, Distinct DEF CanTransfer
    <3>2. result = [status |-> "RECIPIENT_TRANSFER_FAILED", ledger |-> l]
      BY <1>5, <2>3 DEF Outcome, SponsoredTransfer, call, invalid
    <3>3. result.status = "RECIPIENT_TRANSFER_FAILED" /\ result.ledger = l
      BY <3>2
    <3> QED
      BY <1>1, <3>1, <3>3 DEF Mined, Errors, call
  <2>4. CASE CanTransfer(l, call.fee, Origin, Sponsor)
             /\ CanTransfer(afterFee, call.amount, Origin, call.recipient)
    <3>1. call.amount <= l[Origin] - call.fee
      <4> HIDE DEF afterFee
      <4> QED
        BY <1>1, <1>2, <2>4 DEF CanTransfer
    <3>2. called = [status |-> "success", ledger |-> paid]
      BY <1>5, <2>4 DEF SponsoredTransfer, invalid
    <3>3. l[Origin] - paid[Origin] = tx.outflow
      <4> HIDE DEF paid
      <4> QED
        BY <1>1, <1>3 DEF call
    <3> HIDE DEF paid, called
    <3>4. result = [status |-> "success", ledger |-> paid]
      BY <3>2, <3>3 DEF Outcome, called, call
    <3>5. result.status = "success" /\ result.ledger = paid
      BY <3>4
    <3> QED
      BY <1>1, <1>3, <3>1, <3>5 DEF Mined, call
  <2> QED
    BY <2>2, <2>3, <2>4
<1> QED
  BY <1>4, <1>5

-----------------------------------------------------------------------------
(* Quotes. *)

\* The terms a transaction is prepared from.
SameTerms(a, b) ==
    a.amount = b.amount /\ a.fee = b.fee /\ a.recipient = b.recipient /\ a.expires = b.expires

\* What a step may do to the quotes: issue one, and let a transaction go on that
\* is not mined; the terms never change.
Kept(qs, rs) ==
    /\ DOMAIN qs \subseteq DOMAIN rs
    /\ \A q \in DOMAIN qs : SameTerms(qs[q], rs[q])
    /\ \A q \in DOMAIN qs : qs[q].tx \in Mined => rs[q] = qs[q]

\* The transactions that are sent are those that were prepared.
OnlySent(qs, rs) ==
    /\ rs \in [DOMAIN qs -> QuoteRecord]
    /\ \A q \in DOMAIN qs :
          \/ rs[q] = qs[q]
          \/ /\ qs[q].tx = "none"
             /\ rs[q] = [qs[q] EXCEPT !.sent = Prepare(q, qs[q]), !.tx = "pending"]

\* The names of states are different.
LEMMA Names ==
    /\ "none" \notin Mined /\ "pending" \notin Mined /\ "success" \in Mined
    /\ None \notin Mined /\ None # "pending" /\ None # "dropped"
  BY DEF Mined, Errors

\* No quote has the name of none.
LEMMA Quoted ==
    ASSUME QuoteForms
    PROVE  /\ DOMAIN quotes = 1 .. Len(quotes) /\ Len(quotes) \in 0 .. MaxQuotes
           /\ DOMAIN quotes \subseteq Ids /\ None \notin DOMAIN quotes
           /\ \A q \in DOMAIN quotes : quotes[q] \in QuoteRecord
  BY DEF QuoteForms, Ids

\* The transaction prepared for a quote agrees to the amount and the fee.
LEMMA Prepared ==
    ASSUME NEW q \in Nat, NEW quote \in QuoteRecord
    PROVE  /\ Prepare(q, quote) \in Calls
           /\ Prepare(q, quote).outflow = quote.amount + quote.fee
           /\ Prepare(q, quote).args.amount = quote.amount
           /\ Prepare(q, quote).args.fee = quote.fee
<1>1. quote.amount \in Nat /\ quote.fee \in Nat /\ quote.recipient = Recipient /\ quote.expires \in Nat
  BY DEF QuoteRecord
<1> QED
  BY <1>1 DEF Prepare, Calls

\* The page accepts from the wallet only what it asked for.
LEMMA SignedAsAsked ==
    ASSUME NEW asked \in Calls, NEW tx \in Returned(asked), ValidSigned(tx, asked)
    PROVE  tx = asked
<1>1. asked.outflow \in Nat /\ asked.args.amount \in Nat /\ asked.args.fee \in Nat
  BY DEF Calls
<1>2. tx.mode = "deny" /\ tx.args = asked.args /\ tx.outflow = asked.outflow
  BY DEF ValidSigned
<1>3. CASE tx = [asked EXCEPT !.mode = "allow"]
  <2>1. tx.mode = "allow"
    BY <1>3 DEF Calls
  <2> QED
    BY <1>2, <2>1
<1>4. CASE tx = [asked EXCEPT !.outflow = @ + 1]
  <2>1. tx.outflow = asked.outflow + 1
    BY <1>4 DEF Calls
  <2> QED
    BY <1>1, <1>2, <2>1
<1>5. CASE tx = [asked EXCEPT !.args.amount = @ + 1]
  <2>1. tx.args.amount = asked.args.amount + 1
    BY <1>5 DEF Calls
  <2> QED
    BY <1>1, <1>2, <2>1
<1>6. CASE tx = [asked EXCEPT !.args.fee = @ + 1]
  <2>1. tx.args.fee = asked.args.fee + 1
    BY <1>6 DEF Calls
  <2> QED
    BY <1>1, <1>2, <2>1
<1> QED
  BY <1>3, <1>4, <1>5, <1>6 DEF Returned

\* A quote whose transaction is sent.
LEMMA SentQuote ==
    ASSUME NEW q \in Nat, NEW quote \in QuoteRecord, GoodQuote(q, quote), quote.tx = "none",
           NEW new, new = [quote EXCEPT !.sent = Prepare(q, quote), !.tx = "pending"]
    PROVE  /\ new \in QuoteRecord /\ GoodQuote(q, new) /\ SameTerms(quote, new)
           /\ new.tx = "pending"
<1> DEFINE p == Prepare(q, quote)
<1>1. p \in Calls
  BY Prepared
<1> HIDE DEF p
<1>2. new = [quote EXCEPT !.sent = p, !.tx = "pending"]
  BY DEF p
<1>3. /\ new \in QuoteRecord /\ new.sent = p /\ new.tx = "pending"
      /\ new.amount = quote.amount /\ new.fee = quote.fee /\ new.recipient = quote.recipient
      /\ new.issued = quote.issued /\ new.expires = quote.expires /\ new.owned = quote.owned
  BY <1>1, <1>2 DEF QuoteRecord
<1>4. Prepare(q, new) = p
  BY <1>3 DEF Prepare, p
<1> QED
  BY <1>3, <1>4, Names DEF GoodQuote, SameTerms

\* What mining makes of a quote.
Ended(quote, outcome, owned) == [quote EXCEPT !.tx = outcome, !.owned = owned]

\* A quote whose transaction is mined.
LEMMA MinedQuote ==
    ASSUME NEW q \in Nat, NEW quote \in QuoteRecord, GoodQuote(q, quote), quote.tx = "pending",
           NEW outcome \in Mined, NEW owned \in 0 .. Balance,
           NEW new, new = Ended(quote, outcome, owned)
    PROVE  /\ new \in QuoteRecord /\ GoodQuote(q, new) /\ SameTerms(quote, new)
           /\ new.tx = outcome /\ new.owned = owned
<1>0. owned \in Nat \cup {None} /\ owned # None /\ outcome \in {"none", "pending"} \cup Mined
  OBVIOUS
<1>1. /\ new \in QuoteRecord /\ new.tx = outcome /\ new.owned = owned
      /\ new.amount = quote.amount /\ new.fee = quote.fee /\ new.recipient = quote.recipient
      /\ new.issued = quote.issued /\ new.expires = quote.expires /\ new.sent = quote.sent
  <2> DEFINE States == {"none", "pending"} \cup Mined
  <2>1. outcome \in States /\ quote \in [amount : Nat, fee : Nat, recipient : {Recipient},
           issued : Nat, expires : Nat, sent : Calls \cup {None}, tx : States, owned : Nat \cup {None}]
    BY <1>0 DEF QuoteRecord
  <2> HIDE DEF States
  <2>2. new \in [amount : Nat, fee : Nat, recipient : {Recipient},
           issued : Nat, expires : Nat, sent : Calls \cup {None}, tx : States, owned : Nat \cup {None}]
    BY <1>0, <2>1 DEF Ended
  <2>3. new \in QuoteRecord
    BY <2>2 DEF QuoteRecord, States
  <2> QED
    BY <2>1, <2>3 DEF Ended
<1>2. Prepare(q, new) = Prepare(q, quote)
  BY <1>1 DEF Prepare
<1> QED
  BY <1>0, <1>1, <1>2, Names DEF GoodQuote, SameTerms

\* What sending does to the quotes.
LEMMA Sending ==
    ASSUME QuoteForms, Blamed, OnlySent(quotes, quotes')
    PROVE  /\ QuoteForms' /\ Blamed' /\ Kept(quotes, quotes')
           /\ Done(quotes') = Done(quotes)
<1>1. /\ DOMAIN quotes = 1 .. Len(quotes) /\ Len(quotes) \in Nat
      /\ quotes' \in [1 .. Len(quotes) -> QuoteRecord]
  <2>1. DOMAIN quotes = 1 .. Len(quotes) /\ Len(quotes) \in Nat
    BY Quoted
  <2>2. quotes' \in [DOMAIN quotes -> QuoteRecord]
    BY DEF OnlySent
  <2> QED
    BY <2>1, <2>2
<1>2. quotes' \in Seq(QuoteRecord) /\ Len(quotes') = Len(quotes) /\ DOMAIN quotes' = DOMAIN quotes
  BY <1>1
<1>3. ASSUME NEW q \in DOMAIN quotes
      PROVE  /\ GoodQuote(q, quotes'[q]) /\ SameTerms(quotes[q], quotes'[q])
             /\ quotes'[q] = quotes[q] \/ (quotes[q].tx = "none" /\ quotes'[q].tx = "pending")
  <2>1. q \in Nat /\ quotes[q] \in QuoteRecord /\ GoodQuote(q, quotes[q])
    BY Quoted DEF QuoteForms
  <2>2. CASE quotes'[q] = quotes[q]
    BY <2>1, <2>2 DEF SameTerms
  <2>3. CASE /\ quotes[q].tx = "none"
             /\ quotes'[q] = [quotes[q] EXCEPT !.sent = Prepare(q, quotes[q]), !.tx = "pending"]
    <3> DEFINE old == quotes[q]
               new == quotes'[q]
    <3>1. /\ old \in QuoteRecord /\ GoodQuote(q, old) /\ old.tx = "none" /\ q \in Nat
          /\ new = [old EXCEPT !.sent = Prepare(q, old), !.tx = "pending"]
      BY <2>1, <2>3
    <3> HIDE DEF old, new
    <3>2. GoodQuote(q, new) /\ SameTerms(old, new) /\ new.tx = "pending"
      BY <3>1, SentQuote
    <3> QED
      BY <3>1, <3>2 DEF old, new
  <2> QED
    BY <2>2, <2>3 DEF OnlySent
<1>4. QuoteForms'
  BY <1>2, <1>3 DEF QuoteForms
<1>5. Kept(quotes, quotes')
  BY <1>2, <1>3, Names DEF Kept
<1>6. Blamed'
  BY <1>2, <1>3, Names DEF Blamed
<1>7. Done(quotes') = Done(quotes)
  BY <1>2, <1>3 DEF Done
<1> QED
  BY <1>4, <1>5, <1>6, <1>7

\* A flow that asks the relay to send gives it the transaction prepared for its
\* quote, which nobody has sent.
LEMMA Asks ==
    ASSUME FlowForms, QuoteForms, Owned, NEW f \in Flows, At(f, "submit")
    PROVE  /\ flows[f].quote \in DOMAIN quotes /\ flows[f].quote # None
           /\ quotes[flows[f].quote].tx = "none"
           /\ flows[f].signed = Prepare(flows[f].quote, quotes[flows[f].quote])
  BY Quoted DEF FlowForms, Good, Owned, At, Idle

\* Submit sends the transaction of one quote.
LEMMA Submits ==
    ASSUME FlowForms, QuoteForms, Owned, NEW f \in Flows, Submit(f)
    PROVE  OnlySent(quotes, quotes') /\ \A q \in DOMAIN quotes \ {flows[f].quote} : quotes'[q] = quotes[q]
<1> DEFINE k == flows[f].quote
           new == [quotes[k] EXCEPT !.sent = Prepare(k, quotes[k]), !.tx = "pending"]
<1>1. /\ k \in DOMAIN quotes /\ quotes[k].tx = "none" /\ k \in Nat /\ quotes[k] \in QuoteRecord
      /\ GoodQuote(k, quotes[k])
  <2>1. k \in DOMAIN quotes /\ quotes[k].tx = "none"
    BY Asks DEF Submit
  <2> HIDE DEF k
  <2>2. k \in Nat /\ quotes[k] \in QuoteRecord /\ GoodQuote(k, quotes[k])
    BY <2>1, Quoted DEF QuoteForms
  <2> QED
    BY <2>1, <2>2
<1>2. quotes' = [quotes EXCEPT ![k] = new]
  BY Asks DEF Submit, Sent
<1>3. new \in QuoteRecord
  BY <1>1, SentQuote
<1> HIDE DEF k
<1>4. quotes \in [DOMAIN quotes -> QuoteRecord]
  BY Quoted DEF QuoteForms
<1>5. quotes' \in [DOMAIN quotes -> QuoteRecord] /\ quotes'[k] = new
      /\ \A q \in DOMAIN quotes \ {k} : quotes'[q] = quotes[q]
  <2> HIDE DEF new
  <2> QED
    BY <1>1, <1>2, <1>3, <1>4
<1>6. OnlySent(quotes, quotes')
  BY <1>1, <1>5 DEF OnlySent
<1> QED
  BY <1>5, <1>6 DEF k

\* Of what was being submitted when the page is loaded again, the relay may send
\* some.
LEMMA Reaches ==
    ASSUME FlowForms, QuoteForms, Owned, Reload
    PROVE  OnlySent(quotes, quotes')
<1>1. PICK reached \in SUBSET {f \in Flows : /\ At(f, "submit")
                                           /\ Accepts(flows[f].quote, flows[f].signed)} :
          quotes' = [q \in DOMAIN quotes |->
                        IF \E f \in reached : flows[f].quote = q
                        THEN LET f == CHOOSE f \in reached : flows[f].quote = q
                             IN  Sent(q, flows[f].signed)
                        ELSE quotes[q]]
  BY DEF Reload
<1> DEFINE Of(q) == CHOOSE f \in reached : flows[f].quote = q
           New(q) == [quotes[q] EXCEPT !.sent = Prepare(q, quotes[q]), !.tx = "pending"]
<1>2. ASSUME NEW q \in DOMAIN quotes
      PROVE  /\ quotes'[q] \in QuoteRecord
             /\ quotes'[q] = quotes[q] \/ (quotes[q].tx = "none" /\ quotes'[q] = New(q))
  <2>1. q \in Nat /\ quotes[q] \in QuoteRecord /\ GoodQuote(q, quotes[q])
    BY Quoted DEF QuoteForms
  <2>2. CASE \E f \in reached : flows[f].quote = q
    <3>1. Of(q) \in reached /\ flows[Of(q)].quote = q
      BY <2>2
    <3>2. quotes'[q] = Sent(q, flows[Of(q)].signed)
      BY <1>1, <2>2
    <3> HIDE DEF Of
    <3>3. Of(q) \in Flows /\ At(Of(q), "submit")
      BY <3>1
    <3>4. quotes[q].tx = "none" /\ flows[Of(q)].signed = Prepare(q, quotes[q])
      BY <3>1, <3>3, Asks
    <3>5. quotes'[q] = New(q)
      BY <3>2, <3>4 DEF Sent
    <3>6. New(q) \in QuoteRecord
      BY <2>1, <3>4, SentQuote
    <3> QED
      BY <3>4, <3>5, <3>6
  <2>3. CASE ~ \E f \in reached : flows[f].quote = q
    BY <1>1, <2>1, <2>3
  <2> QED
    BY <2>2, <2>3
<1>3. quotes' = [q \in DOMAIN quotes |-> quotes'[q]]
  BY <1>1
<1>4. quotes' \in [DOMAIN quotes -> QuoteRecord]
  BY <1>2, <1>3
<1> QED
  BY <1>2, <1>4 DEF OnlySent

\* A flow that has no quote yet has an intent.
LEMMA Intends ==
    ASSUME FlowForms, NEW f \in Flows, ~At(f, "idle")
    PROVE  flows[f] \in Begun /\ flows[f].intent.amount \in Nat /\ flows[f].intent.amount > 0
  BY DEF FlowForms, Flow, Begun, Good, At, Idle

\* The relay's new quote is for what was asked, and nobody has sent it.
LEMMA Issues ==
    ASSUME FlowForms, QuoteForms, PageForms, Blamed, Accounts, NEW f \in Flows, IssueQuote(f)
    PROVE  LET n == Len(quotes) + 1 IN
           /\ QuoteForms' /\ Blamed' /\ Kept(quotes, quotes') /\ Done(quotes') = Done(quotes)
           /\ n \in Ids /\ n \notin DOMAIN quotes /\ DOMAIN quotes' = DOMAIN quotes \cup {n}
           /\ quotes'[n].amount = flows[f].intent.amount
           /\ quotes'[n].fee <= flows[f].intent.max
           /\ quotes'[n].tx = "none"
<1> DEFINE n == Len(quotes) + 1
           amount == flows[f].intent.amount
           fee == SponsorFee(amount, costFloor)
           new == Issued(amount, fee)
<1>1. amount \in Nat /\ fee \in Nat /\ height \in Nat /\ fee <= flows[f].intent.max
  <2>1. amount \in Nat
    BY Intends DEF IssueQuote, At
  <2>2. costFloor \in Nat
    BY DEF PageForms
  <2>3. fee \in Nat
    <3> HIDE DEF amount
    <3> QED
      BY <2>1, <2>2, FeeTypes
  <2> QED
    BY <2>1, <2>3 DEF IssueQuote, Accounts
<1>2. quotes' = Append(quotes, new) /\ Len(quotes) < MaxQuotes
  BY DEF IssueQuote
<1> HIDE DEF amount, fee
<1>3. /\ new \in QuoteRecord /\ GoodQuote(n, new)
      /\ new.amount = amount /\ new.fee = fee /\ new.tx = "none"
  BY <1>1, Names DEF Issued, QuoteRecord, GoodQuote
<1> HIDE DEF new
<1>4. DOMAIN quotes = 1 .. Len(quotes) /\ Len(quotes) \in Nat
  BY Quoted
<1>5. /\ quotes' \in Seq(QuoteRecord) /\ Len(quotes') = n /\ DOMAIN quotes' = 1 .. n
      /\ quotes'[n] = new /\ \A q \in 1 .. Len(quotes) : quotes'[q] = quotes[q]
  BY <1>2, <1>3, <1>4, AppendProperties, LenProperties DEF QuoteForms
<1>6. DOMAIN quotes' = DOMAIN quotes \cup {n} /\ n \notin DOMAIN quotes /\ n \in Ids
  BY <1>2, <1>4, <1>5 DEF Ids
<1> HIDE DEF n
<1>7. \A q \in DOMAIN quotes : quotes'[q] = quotes[q]
  BY <1>4, <1>5
<1>8. QuoteForms'
  <2>1. Len(quotes') <= MaxQuotes
    BY <1>2, <1>4, <1>5 DEF n
  <2>2. \A q \in DOMAIN quotes' : GoodQuote(q, quotes'[q])
    BY <1>3, <1>5, <1>6, <1>7 DEF QuoteForms
  <2> QED
    BY <1>5, <2>1, <2>2 DEF QuoteForms
<1>9. Blamed' /\ Kept(quotes, quotes') /\ Done(quotes') = Done(quotes)
  <2>1. \A q \in DOMAIN quotes' : q \in DOMAIN quotes \/ quotes'[q].tx = "none"
    BY <1>3, <1>5, <1>6
  <2>2. Blamed'
    BY <1>7, <2>1 DEF Blamed
  <2>3. Kept(quotes, quotes')
    BY <1>6, <1>7 DEF Kept, SameTerms
  <2>4. Done(quotes') = Done(quotes)
    BY <1>6, <1>7, <2>1 DEF Done
  <2> QED
    BY <2>2, <2>3, <2>4
<1> QED
  BY <1>1, <1>3, <1>5, <1>6, <1>8, <1>9 DEF n, amount

-----------------------------------------------------------------------------
(* The ledger. *)

\* The quotes of successful transfers are finitely many, and their terms numbers.
LEMMA DoneFinite ==
    ASSUME QuoteForms
    PROVE  /\ IsFiniteSet(Done(quotes)) /\ Done(quotes) \subseteq DOMAIN quotes
           /\ \A q \in Done(quotes) : quotes[q].amount \in Nat /\ quotes[q].fee \in Nat
<1>1. IsFiniteSet(DOMAIN quotes)
  <2>1. DOMAIN quotes = 1 .. Len(quotes) /\ Len(quotes) \in Int /\ 1 \in Int
    BY Quoted
  <2>2. IsFiniteSet(1 .. Len(quotes))
    BY <2>1, FS_Interval
  <2> QED
    BY <2>1, <2>2
<1>2. Done(quotes) \subseteq DOMAIN quotes
  BY DEF Done
<1>3. IsFiniteSet(Done(quotes))
  BY <1>1, <1>2, FS_Subset
<1> QED
  BY <1>2, <1>3, Quoted DEF QuoteRecord

\* As long as no transfer succeeds, the same was paid.
LEMMA PaidSame ==
    ASSUME Kept(quotes, quotes'), Done(quotes') = Done(quotes)
    PROVE  Paid(quotes') = Paid(quotes) /\ Fees(quotes') = Fees(quotes)
<1>1. \A q \in Done(quotes) : quotes'[q] = quotes[q]
  BY Names DEF Kept, Done
<1>2. [q \in Done(quotes') |-> quotes'[q].amount] = [q \in Done(quotes) |-> quotes[q].amount]
  BY <1>1
<1>3. [q \in Done(quotes') |-> quotes'[q].fee] = [q \in Done(quotes) |-> quotes[q].fee]
  BY <1>1
<1> QED
  BY <1>2, <1>3 DEF Paid, Fees

\* A transfer that succeeds adds its amount and its fee.
LEMMA PaidMore ==
    ASSUME QuoteForms, Kept(quotes, quotes'), NEW k \in DOMAIN quotes, k \notin Done(quotes),
           Done(quotes') = Done(quotes) \cup {k}
    PROVE  /\ Paid(quotes') = Paid(quotes) + quotes[k].amount
           /\ Fees(quotes') = Fees(quotes) + quotes[k].fee
<1> DEFINE S == Done(quotes)
           T == Done(quotes')
           a == [q \in S |-> quotes[q].amount]
           b == [q \in T |-> quotes'[q].amount]
           c == [q \in S |-> quotes[q].fee]
           d == [q \in T |-> quotes'[q].fee]
<1>1. T = S \cup {k} /\ k \notin S /\ IsFiniteSet(S)
  BY DoneFinite
<1>2. \A q \in T : SameTerms(quotes[q], quotes'[q]) /\ quotes[q].amount \in Nat /\ quotes[q].fee \in Nat
  BY <1>1, DoneFinite, Quoted DEF Kept, QuoteRecord
<1>3. Alike(a, b, S) /\ Counts(b, S \cup {k}) /\ b[k] = quotes[k].amount
  BY <1>1, <1>2 DEF Alike, Counts, SameTerms
<1>4. Alike(c, d, S) /\ Counts(d, S \cup {k}) /\ d[k] = quotes[k].fee
  BY <1>1, <1>2 DEF Alike, Counts, SameTerms
<1>5. Paid(quotes) = SumOver(a, S) /\ Paid(quotes') = SumOver(b, T)
      /\ Fees(quotes) = SumOver(c, S) /\ Fees(quotes') = SumOver(d, T)
  BY DEF Paid, Fees
<1> HIDE DEF S, T, a, b, c, d
<1>6. SumOver(b, T) = SumOver(b, S) + b[k] /\ SumOver(d, T) = SumOver(d, S) + d[k]
  BY <1>1, <1>3, <1>4, SumAdd
<1>7. SumOver(b, S) = SumOver(a, S) /\ SumOver(d, S) = SumOver(c, S)
  BY <1>1, <1>3, <1>4, SumSame
<1> QED
  BY <1>3, <1>4, <1>5, <1>6, <1>7

\* What was paid is a number.
LEMMA PaidType ==
    ASSUME QuoteForms
    PROVE  Paid(quotes) \in Nat /\ Fees(quotes) \in Nat
<1> DEFINE S == Done(quotes)
           a == [q \in S |-> quotes[q].amount]
           c == [q \in S |-> quotes[q].fee]
<1>1. IsFiniteSet(S) /\ Counts(a, S) /\ Counts(c, S)
  BY DoneFinite DEF Counts
<1> HIDE DEF S, a, c
<1>2. SumOver(a, S) \in Nat /\ SumOver(c, S) \in Nat
  BY <1>1, SumType
<1> QED
  BY <1>2 DEF Paid, Fees, S, a, c

\* The two fields that mining sets.
LEMMA TwoFields ==
    ASSUME NEW D, NEW k \in D, NEW qs \in [D -> QuoteRecord], NEW t, NEW o
    PROVE  [qs EXCEPT ![k].tx = t, ![k].owned = o] = [qs EXCEPT ![k] = [qs[k] EXCEPT !.tx = t, !.owned = o]]
  OBVIOUS

\* A transaction is mined: the sums follow the ledger, and an origin is blamed
\* only for what it did not own.
LEMMA Mines ==
    ASSUME QuoteForms, Blamed, Accounts, NEW k \in DOMAIN quotes, Mine(k)
    PROVE  /\ QuoteForms' /\ Blamed' /\ Kept(quotes, quotes') /\ Accounts'
           /\ DOMAIN quotes' = DOMAIN quotes
<1> DEFINE old == quotes[k]
           result == Outcome(ledger, quotes[k].sent, Origin, Sponsor, height + 1)
           outcome == result.status
           new == [old EXCEPT !.tx = outcome, !.owned = ledger[Origin]]
<1>1. /\ k \in Nat /\ old \in QuoteRecord /\ GoodQuote(k, old) /\ old.tx = "pending"
      /\ quotes' = [quotes EXCEPT ![k] = new] /\ ledger' = result.ledger /\ height' = height
  <2>1. k \in Nat /\ quotes[k] \in QuoteRecord /\ GoodQuote(k, quotes[k]) /\ quotes[k].tx = "pending"
    BY Quoted DEF Mine, QuoteForms
  <2>2. quotes \in [DOMAIN quotes -> QuoteRecord]
    BY LenProperties DEF QuoteForms
  <2>3. /\ quotes' = [quotes EXCEPT ![k].tx = outcome, ![k].owned = ledger[Origin]]
        /\ ledger' = result.ledger /\ height' = height
    BY DEF Mine
  <2> HIDE DEF outcome, result
  <2>4. quotes' = [quotes EXCEPT ![k] = new]
    BY <2>2, <2>3, TwoFields
  <2> QED
    BY <2>1, <2>3, <2>4
<1>2. /\ ledger \in Ledgers /\ height \in 0 .. MaxHeight /\ ledger[Origin] \in 0 .. Balance
      /\ ledger[Recipient] \in 0 .. Balance /\ ledger[Sponsor] \in 0 .. Balance
  BY DEF Accounts, Ledgers, Parties
<1> HIDE DEF old
<1>3. /\ old.sent \in Calls /\ old.sent.outflow = old.sent.args.amount + old.sent.args.fee
      /\ old.sent.args.amount = old.amount /\ old.sent.args.fee = old.fee
      /\ old.amount \in Nat /\ old.fee \in Nat
  <2>1. old.sent = Prepare(k, old)
    BY <1>1, Names DEF GoodQuote
  <2>2. old.amount \in Nat /\ old.fee \in Nat
    BY <1>1 DEF QuoteRecord
  <2> QED
    BY <1>1, <2>1, <2>2, Prepared
<1>4. result = Outcome(ledger, old.sent, Origin, Sponsor, height + 1) /\ height + 1 \in Nat
  BY <1>2 DEF old
<1> HIDE DEF result
<1>5. /\ result.status \in Mined
      /\ result.status # "success" => result.ledger = ledger
      /\ result.status \in {"FEE_TRANSFER_FAILED", "RECIPIENT_TRANSFER_FAILED"} =>
            ledger[Origin] < old.sent.args.amount + old.sent.args.fee
      /\ result.status = "success" =>
            /\ old.sent.args.amount + old.sent.args.fee <= ledger[Origin]
            /\ result.ledger \in [Parties -> Int]
            /\ result.ledger[Origin] = ledger[Origin] - old.sent.args.amount - old.sent.args.fee
            /\ \A p \in {Recipient, Sponsor} :
                  result.ledger[p] = ledger[p] + Due(p, old.sent.args.amount, old.sent.args.fee)
  BY <1>2, <1>3, <1>4, Executed
<1>6. /\ new \in QuoteRecord /\ GoodQuote(k, new) /\ SameTerms(old, new)
      /\ new.tx = outcome /\ new.owned = ledger[Origin]
  <2> DEFINE own == ledger[Origin]
  <2>1. /\ own \in 0 .. Balance /\ outcome \in Mined
        /\ k \in Nat /\ old \in QuoteRecord /\ GoodQuote(k, old) /\ old.tx = "pending"
        /\ new = Ended(old, outcome, own)
    BY <1>1, <1>2, <1>5 DEF Ended
  <2> HIDE DEF own, outcome, new
  <2>2. /\ new \in QuoteRecord /\ GoodQuote(k, new) /\ SameTerms(old, new)
        /\ new.tx = outcome /\ new.owned = own
    BY <2>1, MinedQuote
  <2> QED
    BY <2>2 DEF own
<1> HIDE DEF new
<1>7. /\ quotes' \in Seq(QuoteRecord) /\ Len(quotes') = Len(quotes)
      /\ DOMAIN quotes' = DOMAIN quotes /\ quotes'[k] = new
      /\ \A q \in DOMAIN quotes \ {k} : quotes'[q] = quotes[q]
  <2>1. quotes \in Seq(QuoteRecord) /\ k \in 1 .. Len(quotes) /\ DOMAIN quotes = 1 .. Len(quotes)
    BY Quoted DEF QuoteForms
  <2> QED
    BY <1>1, <1>6, <2>1, ExceptSeq, LenProperties
<1>8. QuoteForms'
  BY <1>6, <1>7 DEF QuoteForms
<1>9. Kept(quotes, quotes')
  <2>1. \A q \in DOMAIN quotes : SameTerms(quotes[q], quotes'[q])
    BY <1>6, <1>7 DEF SameTerms, old
  <2>2. \A q \in DOMAIN quotes : quotes[q].tx \in Mined => quotes'[q] = quotes[q]
    BY <1>1, <1>7, Names DEF old
  <2> QED
    BY <1>7, <2>1, <2>2 DEF Kept
<1>10. Blamed'
  <2>1. new.tx \in {"FEE_TRANSFER_FAILED", "RECIPIENT_TRANSFER_FAILED"} => new.owned < new.amount + new.fee
    BY <1>3, <1>5, <1>6 DEF SameTerms
  <2> QED
    BY <1>7, <2>1 DEF Blamed
<1>11. /\ k \notin Done(quotes)
       /\ Done(quotes') = IF outcome = "success" THEN Done(quotes) \cup {k} ELSE Done(quotes)
  BY <1>1, <1>6, <1>7 DEF Done, old
<1>12. Accounts'
  <2>1. CASE outcome # "success"
    <3>1. Paid(quotes') = Paid(quotes) /\ Fees(quotes') = Fees(quotes)
      BY <1>9, <1>11, <2>1, PaidSame
    <3>2. ledger' = ledger
      BY <1>1, <1>5, <2>1
    <3> QED
      BY <1>1, <3>1, <3>2 DEF Accounts
  <2>2. CASE outcome = "success"
    <3>1. Paid(quotes') = Paid(quotes) + old.amount /\ Fees(quotes') = Fees(quotes) + old.fee
      <4>1. Done(quotes') = Done(quotes) \cup {k}
        BY <1>11, <2>2
      <4> QED
        BY <1>9, <1>11, <4>1, PaidMore DEF old
    <3>2. /\ old.amount + old.fee <= ledger[Origin] /\ ledger' \in [Parties -> Int]
          /\ ledger'[Origin] = ledger[Origin] - old.amount - old.fee
          /\ \A p \in {Recipient, Sponsor} : ledger'[p] = ledger[p] + Due(p, old.amount, old.fee)
      BY <1>1, <1>3, <1>5, <2>2
    <3>3. /\ \A p \in {Recipient, Sponsor} : ledger[p] = Due(p, Paid(quotes), Fees(quotes))
          /\ ledger[Origin] = Balance - Paid(quotes) - Fees(quotes)
          /\ Paid(quotes) \in Nat /\ Fees(quotes) \in Nat
      BY PaidType DEF Accounts
    <3>4. /\ \A p \in {Recipient, Sponsor} : ledger'[p] = Due(p, Paid(quotes'), Fees(quotes'))
          /\ ledger'[Origin] = Balance - Paid(quotes') - Fees(quotes')
          /\ ledger'[Origin] \in 0 .. Balance
          /\ Paid(quotes') \in Nat /\ Fees(quotes') \in Nat
      <4> DEFINE a == Paid(quotes)
                 c == Fees(quotes)
      <4>1. a \in Nat /\ c \in Nat /\ Paid(quotes') = a + old.amount /\ Fees(quotes') = c + old.fee
        BY <3>1, <3>3
      <4> HIDE DEF a, c
      <4>2. \A p \in {Recipient, Sponsor} :
               Due(p, a, c) + Due(p, old.amount, old.fee) = Due(p, a + old.amount, c + old.fee)
        BY <1>3, <4>1 DEF Due
      <4>3. \A p \in {Recipient, Sponsor} : ledger'[p] = Due(p, a, c) + Due(p, old.amount, old.fee)
        BY <3>2, <3>3 DEF a, c
      <4> QED
        BY <1>2, <1>3, <3>2, <3>3, <4>1, <4>2, <4>3 DEF a, c
    <3>5. ledger' \in Ledgers
      <4>1. \A p \in {Recipient, Sponsor} : ledger'[p] \in 0 .. Balance
        BY <3>4 DEF Due
      <4>2. \A p \in Parties : ledger'[p] \in 0 .. Balance
        BY <3>4, <4>1 DEF Parties
      <4> QED
        BY <3>2, <4>2 DEF Ledgers
    <3>6. /\ \A p \in {Recipient, Sponsor} : ledger'[p] = Due(p, Paid(quotes'), Fees(quotes'))
          /\ ledger'[Origin] = Balance - Paid(quotes') - Fees(quotes')
      BY <3>4
    <3> QED
      BY <1>1, <1>2, <3>5, <3>6 DEF Accounts
  <2> QED
    BY <2>1, <2>2
<1> QED
  BY <1>7, <1>8, <1>9, <1>10, <1>12

\* Nothing happens to the quotes.
LEMMA SameQuotes ==
    ASSUME QuoteForms, Blamed, quotes' = quotes
    PROVE  QuoteForms' /\ Blamed' /\ Kept(quotes, quotes') /\ Done(quotes') = Done(quotes)
<1>1. QuoteForms' /\ Done(quotes') = Done(quotes)
  BY DEF QuoteForms
<1>2. Blamed'
  BY DEF Blamed
<1>3. Kept(quotes, quotes')
  BY DEF Kept, SameTerms
<1> QED
  BY <1>1, <1>2, <1>3

\* As long as no transfer succeeds, the ledger stays.
LEMMA SameAccounts ==
    ASSUME Accounts, Kept(quotes, quotes'), Done(quotes') = Done(quotes),
           ledger' = ledger, height' \in 0 .. MaxHeight
    PROVE  Accounts'
  BY PaidSame DEF Accounts

\* What every step does to the quotes and the ledger.
LEMMA QuotesStep ==
    ASSUME InHand, [Next]_vars
    PROVE  QuoteForms' /\ Blamed' /\ Kept(quotes, quotes') /\ Accounts'
<1> USE DEF InHand
<1>1. ASSUME quotes' = quotes, ledger' = ledger, height' = height
      PROVE  QuoteForms' /\ Blamed' /\ Kept(quotes, quotes') /\ Accounts'
  <2>1. height' \in 0 .. MaxHeight
    BY <1>1 DEF Accounts
  <2> QED
    BY <1>1, <2>1, SameQuotes, SameAccounts
<1>2. ASSUME NEW f \in Flows, Step(f)
      PROVE  QuoteForms' /\ Blamed' /\ Kept(quotes, quotes') /\ Accounts'
  <2>1. CASE CreateQuote(f) \/ Verify(f) \/ Check(f) \/ Sign(f) \/ Answered(f) \/ Throw(f)
    <3>1. quotes' = quotes /\ ledger' = ledger /\ height' = height
      BY <2>1 DEF CreateQuote, Verify, Check, Sign, Answered, Throw
    <3> QED
      BY <1>1, <3>1
  <2>2. CASE IssueQuote(f)
    <3>1. QuoteForms' /\ Blamed' /\ Kept(quotes, quotes') /\ Done(quotes') = Done(quotes)
      BY <2>2, Issues
    <3>2. ledger' = ledger /\ height' \in 0 .. MaxHeight
      BY <2>2 DEF IssueQuote, Accounts
    <3> QED
      BY <3>1, <3>2, SameAccounts
  <2>3. CASE Submit(f)
    <3>1. QuoteForms' /\ Blamed' /\ Kept(quotes, quotes') /\ Done(quotes') = Done(quotes)
      BY <2>3, Submits, Sending
    <3>2. ledger' = ledger /\ height' \in 0 .. MaxHeight
      BY <2>3 DEF Submit, Accounts
    <3> QED
      BY <3>1, <3>2, SameAccounts
  <2> QED
    BY <1>2, <2>1, <2>2, <2>3 DEF Step
<1>3. CASE Edit \/ RefreshPricing \/ Reset \/ Leave \/ Commit \/ Poll \/ PollAnswered \/ PollLost
           \/ Reprice
  <2>1. quotes' = quotes /\ ledger' = ledger /\ height' = height
    BY <1>3 DEF Edit, RefreshPricing, Reset, Leave, Commit, Poll, PollAnswered, PollLost, Reprice
  <2> QED
    BY <1>1, <2>1
<1>4. CASE Reload
  <2>1. QuoteForms' /\ Blamed' /\ Kept(quotes, quotes') /\ Done(quotes') = Done(quotes)
    BY <1>4, Reaches, Sending
  <2>2. ledger' = ledger /\ height' \in 0 .. MaxHeight
    BY <1>4 DEF Reload, Accounts
  <2> QED
    BY <2>1, <2>2, SameAccounts
<1>5. CASE Tick
  <2>1. quotes' = quotes /\ ledger' = ledger /\ height' \in 0 .. MaxHeight
    BY <1>5 DEF Tick, Accounts
  <2> QED
    BY <2>1, SameQuotes, SameAccounts
<1>6. CASE \E q \in DOMAIN quotes : Mine(q)
  BY <1>6, Mines
<1>7. CASE UNCHANGED vars
  <2>1. quotes' = quotes /\ ledger' = ledger /\ height' = height
    BY <1>7 DEF vars
  <2> QED
    BY <1>1, <2>1
<1> QED
  BY <1>2, <1>3, <1>4, <1>5, <1>6, <1>7 DEF Next

-----------------------------------------------------------------------------
(* Flows. *)

\* One flow goes on, the others wait.
Becomes(f, flow) ==
    /\ flows' \in [Flows -> Flow] /\ flows'[f] = flow
    /\ \A g \in Flows \ {f} : flows'[g] = flows[g]

\* A flow that goes on with its intent.
Advanced(f, stage, quote, signed) ==
    [stage |-> stage, page |-> flows[f].page, intent |-> flows[f].intent, quote |-> quote,
     signed |-> signed]

Unsent == {"verify", "approve", "prompt", "final", "submit"}

\* Terms that stay keep what was said of a flow.
LEMMA GoodKept ==
    ASSUME NEW flow, NEW qs, NEW rs, Kept(qs, rs), Good(flow, qs)
    PROVE  Good(flow, rs)
<1>1. CASE flow = Idle
  BY <1>1 DEF Good
<1>2. CASE flow # Idle
  <2>1. CASE flow.stage = "quoting"
    BY <1>2, <2>1 DEF Good
  <2>2. CASE flow.stage # "quoting"
    <3>1. /\ flow.quote \in DOMAIN qs /\ flow.quote \in DOMAIN rs
          /\ SameTerms(qs[flow.quote], rs[flow.quote])
      BY <1>2, <2>2 DEF Good, Kept
    <3>2. Prepare(flow.quote, qs[flow.quote]) = Prepare(flow.quote, rs[flow.quote])
      BY <3>1 DEF Prepare, SameTerms
    <3> QED
      BY <1>2, <2>2, <3>1, <3>2 DEF Good, SameTerms
  <2> QED
    BY <2>1, <2>2
<1> QED
  BY <1>1, <1>2

\* Where a flow's quote is.
LEMMA QuoteOf ==
    ASSUME FlowForms, NEW f \in Flows
    PROVE  /\ flows[f].quote \in DOMAIN quotes \cup {None}
           /\ flows[f].stage \in Unsent \cup {"answer"} => flows[f].quote \in DOMAIN quotes
  BY DEF FlowForms, Good, Idle, Unsent

\* A flow that goes on keeps the flows good.
LEMMA FormsKept ==
    ASSUME FlowForms, Kept(quotes, quotes'), NEW f \in Flows, NEW flow, Becomes(f, flow),
           Good(flow, quotes')
    PROVE  FlowForms'
<1>1. ASSUME NEW g \in Flows PROVE Good(flows'[g], quotes')
  <2>1. CASE g = f
    BY <2>1 DEF Becomes
  <2>2. CASE g # f
    <3>1. flows'[g] = flows[g] /\ Good(flows[g], quotes)
      BY <2>2 DEF Becomes, FlowForms
    <3> QED
      BY <3>1, GoodKept
  <2> QED
    BY <2>1, <2>2
<1> QED
  BY <1>1 DEF FlowForms, Becomes

\* A flow that goes on with its quote, with none or with a new one keeps the
\* quotes owned.
LEMMA OwnedKept ==
    ASSUME FlowForms, QuoteForms, Owned, NEW f \in Flows, NEW flow, Becomes(f, flow),
           flow.quote \in {flows[f].quote, None} \/ flow.quote \notin DOMAIN quotes \cup {None},
           \A q \in DOMAIN quotes \ {flows[f].quote} : quotes[q].tx = "none" => quotes'[q].tx = "none",
           flow.stage \in Unsent => quotes'[flow.quote].tx = "none"
    PROVE  Owned'
<1>1. ASSUME NEW g \in Flows, flows'[g].stage \in Unsent
      PROVE  quotes'[flows'[g].quote].tx = "none"
  <2>1. CASE g = f
    BY <1>1, <2>1 DEF Becomes
  <2>2. CASE g # f
    <3>1. flows'[g] = flows[g]
      BY <2>2 DEF Becomes
    <3>2. flows[g].quote \in DOMAIN quotes /\ quotes[flows[g].quote].tx = "none"
      BY <1>1, <3>1, QuoteOf DEF Owned, Unsent
    <3>3. flows[g].quote # flows[f].quote
      BY <2>2, <3>2, Quoted DEF Owned
    <3> QED
      BY <3>1, <3>2, <3>3
  <2> QED
    BY <2>1, <2>2
<1>2. ASSUME NEW g \in Flows, NEW h \in Flows, g # h, flows'[g].quote = flows'[h].quote
      PROVE  flows'[g].quote = None
  <2>1. CASE g # f /\ h # f
    BY <1>2, <2>1 DEF Becomes, Owned
  <2>2. CASE g = f
    <3>1. flows'[h] = flows[h] /\ flows'[f] = flow /\ flows[h].quote \in DOMAIN quotes \cup {None}
      BY <1>2, <2>2, QuoteOf DEF Becomes
    <3> QED
      BY <1>2, <2>2, <3>1 DEF Owned
  <2>3. CASE h = f
    <3>1. flows'[g] = flows[g] /\ flows'[f] = flow /\ flows[g].quote \in DOMAIN quotes \cup {None}
      BY <1>2, <2>3, QuoteOf DEF Becomes
    <3> QED
      BY <1>2, <2>3, <3>1 DEF Owned
  <2> QED
    BY <2>1, <2>2, <2>3
<1> QED
  BY <1>1, <1>2 DEF Owned, Unsent

\* A flow that has begun and its update.
LEMMA Advances ==
    ASSUME FlowForms, NEW f \in Flows, ~At(f, "idle"), NEW stage \in Stages \ {"idle"},
           NEW quote \in Ids \cup {None}, NEW signed \in Calls \cup {None},
           flows' = [flows EXCEPT ![f] = Advanced(f, stage, quote, signed)]
    PROVE  Becomes(f, Advanced(f, stage, quote, signed))
<1> DEFINE new == Advanced(f, stage, quote, signed)
<1>1. flows \in [Flows -> Flow]
  BY DEF FlowForms
<1>2. new \in Flow
  BY Intends DEF Flow, Begun, Advanced
<1> HIDE DEF new
<1>3. flows' = [flows EXCEPT ![f] = new]
  BY DEF new
<1>4. Becomes(f, new)
  BY <1>1, <1>2, <1>3 DEF Becomes
<1> QED
  BY <1>4 DEF new

\* A flow that changes its stage only.
LEMMA Goes ==
    ASSUME FlowForms, NEW f \in Flows, ~At(f, "idle"), NEW stage \in Stages \ {"idle"}, Goto(f, stage)
    PROVE  Becomes(f, Advanced(f, stage, flows[f].quote, flows[f].signed))
<1>1. flows[f].quote \in Ids \cup {None} /\ flows[f].signed \in Calls \cup {None}
  BY Intends DEF Begun
<1>2. Advanced(f, stage, flows[f].quote, flows[f].signed) = [flows[f] EXCEPT !.stage = stage]
  BY Intends DEF Begun, Advanced
<1>3. flows' = [flows EXCEPT ![f] = [flows[f] EXCEPT !.stage = stage]]
  BY DEF Goto
<1> QED
  BY <1>1, <1>2, <1>3, Advances

\* A flow that ends.
LEMMA Finishes ==
    ASSUME FlowForms, NEW f \in Flows, Finish(f)
    PROVE  Becomes(f, Idle)
<1>1. flows \in [Flows -> Flow] /\ Idle \in Flow
  BY DEF FlowForms, Flow
<1> QED
  BY <1>1 DEF Finish, Becomes

\* A flow that begins.
LEMMA Begins ==
    ASSUME FlowForms, PageForms, NEW f \in Flows, CreateQuote(f)
    PROVE  \E flow : Becomes(f, flow) /\ Good(flow, quotes) /\ flow.quote = None /\ flow.stage = "quoting"
<1> DEFINE flow == [stage |-> "quoting", page |-> "shown", intent |-> Intent, quote |-> None,
                    signed |-> None]
<1>1. form \in Nat /\ form > 0 /\ EstimatedFee(form, breakEven) \in Nat \ {0}
  <2>1. form \in Nat /\ breakEven \in Nat
    BY DEF PageForms
  <2> QED
    BY <2>1, FeeTypes DEF CreateQuote
<1>2. Intent \in [amount : Nat, max : Nat] /\ Intent.amount > 0 /\ Intent.max > 0
  BY <1>1 DEF Intent
<1>3. flow \in Flow
  BY <1>2 DEF Flow, Begun, Stages
<1>4. Good(flow, quotes)
  BY <1>2 DEF Good, Stages
<1>5. flows' = [flows EXCEPT ![f] = flow]
  <2>1. flow = [Idle EXCEPT !.stage = "quoting", !.intent = Intent]
    <3> DEFINE i == Intent
               w == [Idle EXCEPT !.stage = "quoting", !.intent = i]
    <3> HIDE DEF i
    <3>1. w \in [stage : {"idle", "quoting"}, page : {"shown"}, intent : {None, i}, quote : {None}, signed : {None}]
      BY DEF Idle
    <3>2. /\ w.stage = "quoting" /\ w.page = "shown" /\ w.intent = i /\ w.quote = None
          /\ w.signed = None
      BY DEF Idle
    <3> HIDE DEF w
    <3>3. w = [stage |-> w.stage, page |-> w.page, intent |-> w.intent, quote |-> w.quote,
               signed |-> w.signed]
      BY <3>1
    <3>4. w = [stage |-> "quoting", page |-> "shown", intent |-> i, quote |-> None, signed |-> None]
      BY <3>2, <3>3
    <3> QED
      BY <3>4 DEF w, i
  <2> QED
    BY <2>1 DEF CreateQuote
<1> HIDE DEF flow
<1>6. Becomes(f, flow)
  BY <1>3, <1>5 DEF Becomes, FlowForms
<1>7. flow.quote = None /\ flow.stage = "quoting"
  BY DEF flow
<1> QED
  BY <1>4, <1>6, <1>7

\* A flow gets its quote.
LEMMA GetsQuote ==
    ASSUME InHand, NEW f \in Flows, IssueQuote(f)
    PROVE  LET flow == Advanced(f, "verify", Len(quotes) + 1, None)
           IN  Becomes(f, flow) /\ Good(flow, quotes')
<1> DEFINE n == Len(quotes) + 1
<1>1. /\ n \in Ids /\ n \in DOMAIN quotes' /\ quotes'[n].amount = flows[f].intent.amount
      /\ quotes'[n].fee <= flows[f].intent.max
  BY Issues DEF InHand
<1>2. flows' = [flows EXCEPT ![f].stage = "verify", ![f].quote = n]
  BY DEF IssueQuote
<1> HIDE DEF n
<1>3. /\ flows \in [Flows -> Flow] /\ ~At(f, "idle") /\ FlowForms
      /\ flows[f].signed = None /\ flows[f].intent.amount > 0 /\ flows[f].intent.max > 0
      /\ flows[f].page \in {"shown", "left"}
  <2>1. flows[f].stage = "quoting"
    BY DEF IssueQuote, At
  <2> QED
    BY <2>1 DEF InHand, FlowForms, At, Good, Idle
<1>4. Advanced(f, "verify", n, None) = [flows[f] EXCEPT !.stage = "verify", !.quote = n]
  <2> DEFINE r == flows[f]
             w == [r EXCEPT !.stage = "verify", !.quote = n]
  <2>1. r \in Begun
    BY <1>3, Intends
  <2> HIDE DEF r
  <2>2. w \in Begun
    BY <1>1, <2>1 DEF Begun, Stages
  <2>3. w.stage = "verify" /\ w.page = r.page /\ w.quote = n /\ w.intent = r.intent /\ w.signed = r.signed
    BY <2>1 DEF Begun
  <2> HIDE DEF w
  <2>4. w = [stage |-> w.stage, page |-> w.page, intent |-> w.intent, quote |-> w.quote,
             signed |-> w.signed]
    BY <2>2 DEF Begun
  <2>5. w = [stage |-> "verify", page |-> r.page, intent |-> r.intent, quote |-> n, signed |-> r.signed]
    BY <2>3, <2>4
  <2> QED
    BY <1>3, <2>5 DEF Advanced, r, w
<1>5. flows' = [flows EXCEPT ![f] = Advanced(f, "verify", n, None)]
  BY <1>2, <1>3, <1>4
<1>6. Becomes(f, Advanced(f, "verify", n, None))
  BY <1>1, <1>3, <1>5, Advances DEF Stages
<1>7. Good(Advanced(f, "verify", n, None), quotes')
  BY <1>1, <1>3 DEF Good, Advanced, Stages
<1> QED
  BY <1>6, <1>7 DEF n

\* The wallet signs what was prepared.
LEMMA Signs ==
    ASSUME InHand, NEW f \in Flows, Sign(f)
    PROVE  LET flow == Advanced(f, "final", flows[f].quote, Prepare(flows[f].quote, quotes[flows[f].quote]))
           IN  Becomes(f, flow) /\ Good(flow, quotes)
<1> DEFINE q == flows[f].quote
           asked == Prepare(q, quotes[q])
<1>1. FlowForms /\ QuoteForms /\ ~At(f, "idle") /\ flows[f].stage = "prompt"
  BY DEF InHand, Sign, At
<1>2. q \in DOMAIN quotes /\ q \in Ids /\ quotes[q] \in QuoteRecord /\ q \in Nat
  <2>1. q \in DOMAIN quotes
    BY <1>1, QuoteOf DEF Unsent
  <2> QED
    BY <1>1, <2>1, Quoted
<1>3. asked \in Calls
  <2> HIDE DEF q
  <2> QED
    BY <1>2, Prepared
<1>4. flows' = [flows EXCEPT ![f].stage = "final", ![f].signed = asked]
  <2>1. PICK tx \in Returned(asked) :
           /\ ValidSigned(tx, asked)
           /\ flows' = [flows EXCEPT ![f].stage = "final", ![f].signed = tx]
    BY DEF Sign, Quote
  <2> HIDE DEF asked
  <2>2. tx = asked
    BY <1>3, <2>1, SignedAsAsked
  <2> QED
    BY <2>1, <2>2
<1> HIDE DEF asked
<1>5. Advanced(f, "final", q, asked) = [flows[f] EXCEPT !.stage = "final", !.signed = asked]
  <2> DEFINE r == flows[f]
             w == [r EXCEPT !.stage = "final", !.signed = asked]
  <2>1. r \in Begun
    BY <1>1, Intends
  <2> HIDE DEF r
  <2>2. w \in Begun
    BY <1>1, <1>3, <2>1 DEF Begun, Stages
  <2>3. w.stage = "final" /\ w.page = r.page /\ w.signed = asked /\ w.intent = r.intent /\ w.quote = r.quote
    BY <2>1 DEF Begun
  <2> HIDE DEF w
  <2>4. w = [stage |-> w.stage, page |-> w.page, intent |-> w.intent, quote |-> w.quote,
             signed |-> w.signed]
    BY <2>2 DEF Begun
  <2>5. w = [stage |-> "final", page |-> r.page, intent |-> r.intent, quote |-> r.quote, signed |-> asked]
    BY <2>3, <2>4
  <2> QED
    BY <1>1, <2>5 DEF Advanced, r, w
<1>6. flows' = [flows EXCEPT ![f] = Advanced(f, "final", q, asked)]
  <2>1. flows \in [Flows -> Flow]
    BY <1>1 DEF FlowForms
  <2> QED
    BY <1>4, <1>5, <2>1
<1>7. Becomes(f, Advanced(f, "final", q, asked))
  BY <1>1, <1>2, <1>3, <1>6, Advances DEF Stages
<1>8. Good(Advanced(f, "final", q, asked), quotes)
  <2>1. Good(flows[f], quotes) /\ flows[f] # Idle
    BY <1>1 DEF FlowForms, Idle
  <2> QED
    BY <1>1, <2>1 DEF Good, Advanced, Stages, asked
<1> QED
  BY <1>7, <1>8 DEF q, asked

\* Steps of a flow keep the flows good and the quotes owned.
LEMMA FlowStep ==
    ASSUME InHand, NEW f \in Flows, Step(f)
    PROVE  FlowForms' /\ Owned' /\ \A g \in Flows \ {f} : flows'[g] = flows[g]
<1> DEFINE k == flows[f].quote
           Goal == FlowForms' /\ Owned' /\ \A g \in Flows \ {f} : flows'[g] = flows[g]
<1>1. /\ FlowForms /\ QuoteForms /\ PageForms /\ Owned /\ Kept(quotes, quotes')
      /\ Good(flows[f], quotes)
  BY QuotesStep DEF InHand, FlowForms, Next
\* Of the quotes, the flow changes its own at most.
<1>2. ASSUME NEW flow, Becomes(f, flow), Good(flow, quotes'),
             flow.quote \in {k, None} \/ flow.quote \notin DOMAIN quotes \cup {None},
             \A q \in DOMAIN quotes \ {k} : quotes[q].tx = "none" => quotes'[q].tx = "none",
             flow.stage \in Unsent => quotes'[flow.quote].tx = "none"
      PROVE  Goal
  BY <1>1, <1>2, FormsKept, OwnedKept DEF Becomes
<1> HIDE DEF Goal
\* A flow that keeps its quote and changes none.
<1>3. ASSUME NEW stage \in Stages \ {"idle"}, NEW signed, quotes' = quotes,
             Becomes(f, Advanced(f, stage, k, signed)), Good(Advanced(f, stage, k, signed), quotes),
             flows[f].stage \in Unsent
      PROVE  Goal
  <2> DEFINE flow == Advanced(f, stage, k, signed)
  <2>1. flow.quote = k /\ quotes'[k].tx = "none"
    BY <1>1, <1>3 DEF Advanced, Owned, Unsent
  <2>2. Becomes(f, flow) /\ Good(flow, quotes')
    BY <1>3
  <2> HIDE DEF flow
  <2> QED
    BY <1>2, <1>3, <2>1, <2>2
<1>4. CASE CreateQuote(f)
  <2>1. PICK flow : Becomes(f, flow) /\ Good(flow, quotes) /\ flow.quote = None /\ flow.stage = "quoting"
    BY <1>1, <1>4, Begins
  <2>2. quotes' = quotes
    BY <1>4 DEF CreateQuote
  <2> QED
    BY <1>2, <2>1, <2>2 DEF Unsent, Goal
<1>5. CASE IssueQuote(f)
  <2> DEFINE n == Len(quotes) + 1
             flow == Advanced(f, "verify", n, None)
  <2>1. Becomes(f, flow) /\ Good(flow, quotes')
    BY <1>5, GetsQuote
  <2>2. n \in Ids /\ n \notin DOMAIN quotes /\ quotes'[n].tx = "none" /\ n # None
    BY <1>5, Issues DEF InHand, Ids
  <2>3. \A q \in DOMAIN quotes : quotes'[q] = quotes[q]
    <3>1. quotes \in Seq(QuoteRecord) /\ DOMAIN quotes = 1 .. Len(quotes) /\ Len(quotes) \in Nat
      BY <1>1, Quoted DEF QuoteForms
    <3>2. \E new : quotes' = Append(quotes, new)
      BY <1>5 DEF IssueQuote
    <3> QED
      BY <3>1, <3>2
  <2> HIDE DEF n
  <2>4. flow.quote = n
    BY DEF Advanced
  <2> HIDE DEF flow
  <2> QED
    BY <1>2, <2>1, <2>2, <2>3, <2>4 DEF Goal
<1>6. CASE Verify(f)
  <2>1. flows[f].stage = "verify" /\ Goto(f, "approve") /\ quotes' = quotes
    BY <1>6 DEF Verify, At
  <2>2. Becomes(f, Advanced(f, "approve", k, flows[f].signed))
    BY <1>1, <2>1, Goes DEF At, Stages
  <2>3. Good(Advanced(f, "approve", k, flows[f].signed), quotes)
    BY <1>1, <2>1 DEF Good, Advanced, Stages, Idle
  <2> QED
    BY <1>3, <2>1, <2>2, <2>3 DEF Stages, Unsent, Goal
<1>7. CASE Check(f)
  <2>1. quotes' = quotes
    BY <1>7 DEF Check
  <2>2. CASE flows[f].stage = "approve" /\ Goto(f, "prompt")
    <3>1. Becomes(f, Advanced(f, "prompt", k, flows[f].signed))
      BY <1>1, <2>2, Goes DEF At, Stages
    <3>2. Good(Advanced(f, "prompt", k, flows[f].signed), quotes)
      BY <1>1, <2>2 DEF Good, Advanced, Stages, Idle
    <3> QED
      BY <1>3, <2>1, <2>2, <3>1, <3>2 DEF Stages, Unsent, Goal
  <2>3. CASE flows[f].stage = "final" /\ Goto(f, "submit")
    <3>1. Becomes(f, Advanced(f, "submit", k, flows[f].signed))
      BY <1>1, <2>3, Goes DEF At, Stages
    <3>2. Good(Advanced(f, "submit", k, flows[f].signed), quotes)
      BY <1>1, <2>3 DEF Good, Advanced, Stages, Idle
    <3> QED
      BY <1>3, <2>1, <2>3, <3>1, <3>2 DEF Stages, Unsent, Goal
  <2> QED
    BY <1>7, <2>2, <2>3 DEF Check, At
<1>8. CASE Sign(f)
  <2>1. flows[f].stage = "prompt" /\ quotes' = quotes
    BY <1>8 DEF Sign, At
  <2> DEFINE asked == Prepare(k, quotes[k])
  <2>2. Becomes(f, Advanced(f, "final", k, asked)) /\ Good(Advanced(f, "final", k, asked), quotes)
    BY <1>8, Signs
  <2> HIDE DEF asked, k
  <2> QED
    BY <1>3, <2>1, <2>2 DEF Stages, Unsent, Goal
<1>9. CASE Submit(f)
  <2> DEFINE flow == Advanced(f, "answer", k, flows[f].signed)
  <2>1. flows[f].stage = "submit" /\ Goto(f, "answer")
    BY <1>9 DEF Submit, At
  <2>2. Becomes(f, flow)
    BY <1>1, <2>1, Goes DEF At, Stages
  <2>3. Good(flow, quotes')
    <3>1. Good(flow, quotes)
      BY <1>1, <2>1 DEF Good, Advanced, Stages, Idle
    <3> QED
      BY <1>1, <3>1, GoodKept
  <2>4. \A q \in DOMAIN quotes \ {k} : quotes'[q] = quotes[q]
    BY <1>1, <1>9, Submits
  <2>5. flow.quote = k /\ flow.stage = "answer"
    BY DEF Advanced
  <2> HIDE DEF flow
  <2> QED
    BY <1>2, <2>2, <2>3, <2>4, <2>5 DEF Unsent, Goal
<1>10. CASE Answered(f) \/ Throw(f)
  <2>1. Finish(f) /\ quotes' = quotes
    BY <1>10 DEF Answered, Throw
  <2>2. Becomes(f, Idle)
    BY <1>1, <2>1, Finishes
  <2>3. Good(Idle, quotes') /\ Idle.quote = None /\ Idle.stage = "idle"
    BY DEF Good, Idle
  <2> QED
    BY <1>2, <2>1, <2>2, <2>3 DEF Unsent, Goal
<1> QED
  BY <1>4, <1>5, <1>6, <1>7, <1>8, <1>9, <1>10 DEF Step, Goal

\* A flow of a page that was left.
Behind(flow) == [flow EXCEPT !.page = "left"]

LEMMA LeftBehind ==
    ASSUME NEW flow \in Begun, NEW qs, Good(flow, qs), flow # Idle
    PROVE  LET new == Behind(flow) IN
           /\ new \in Begun /\ Good(new, qs) /\ new.page = "left"
           /\ new.stage = flow.stage /\ new.quote = flow.quote
<1> DEFINE new == Behind(flow)
<1>1. /\ new \in Begun /\ new.page = "left" /\ new.stage = flow.stage
      /\ new.intent = flow.intent /\ new.quote = flow.quote /\ new.signed = flow.signed
  BY DEF Begun, Behind
<1> HIDE DEF new
<1>2. Good(new, qs)
  BY <1>1 DEF Good
<1> QED
  BY <1>1, <1>2 DEF new

\* Every step keeps the flows good and the quotes owned.
LEMMA FlowsStep ==
    ASSUME InHand, [Next]_vars
    PROVE  FlowForms' /\ Owned'
<1>1. FlowForms /\ QuoteForms /\ Owned /\ Kept(quotes, quotes')
  BY QuotesStep DEF InHand
<1>2. ASSUME flows' = flows, \A q \in DOMAIN quotes : quotes[q].tx = "none" => quotes'[q] = quotes[q]
      PROVE  FlowForms' /\ Owned'
  <2>1. \A g \in Flows : Good(flows[g], quotes')
    BY <1>1, GoodKept DEF FlowForms
  <2>2. FlowForms'
    BY <1>1, <1>2, <2>1 DEF FlowForms
  <2>3. \A g \in Flows : flows[g].stage \in Unsent => flows[g].quote \in DOMAIN quotes
    BY <1>1, QuoteOf
  <2>4. Owned'
    BY <1>1, <1>2, <2>3 DEF Owned, Unsent
  <2> QED
    BY <2>2, <2>4
<1>3. CASE \E f \in Flows : Step(f)
  BY <1>3, FlowStep
<1>4. CASE Edit \/ RefreshPricing \/ Reset \/ Commit \/ Poll \/ PollAnswered \/ PollLost \/ Reprice
           \/ Tick \/ UNCHANGED vars
  <2>1. flows' = flows /\ quotes' = quotes
    BY <1>4 DEF Edit, RefreshPricing, Reset, Commit, Poll, PollAnswered, PollLost, Reprice, Tick,
                pageVars, vars
  <2> QED
    BY <1>2, <2>1
<1>5. CASE Reload
  <2>1. flows' = [f \in Flows |-> Idle]
    BY <1>5 DEF Reload
  <2>2. \A f \in Flows : flows'[f] = Idle
    BY <2>1
  <2>3. flows' \in [Flows -> Flow]
    BY <2>1 DEF Flow
  <2>4. FlowForms'
    BY <2>2, <2>3 DEF FlowForms, Good
  <2>5. \A f \in Flows : flows'[f].stage = "idle" /\ flows'[f].quote = None
    BY <2>2 DEF Idle
  <2>6. Owned'
    BY <2>5 DEF Owned
  <2> QED
    BY <2>4, <2>6
<1>6. CASE Leave
  <2>1. \A f \in Flows : flows'[f] = Idle \/ (~At(f, "idle") /\ flows'[f] = Behind(flows[f]))
    BY <1>6 DEF Leave, Behind
  <2>2. quotes' = quotes
    BY <1>6 DEF Leave
  <2>3. ASSUME NEW f \in Flows, ~At(f, "idle")
        PROVE  LET new == Behind(flows[f]) IN
               /\ new \in Begun /\ Good(new, quotes)
               /\ new.stage = flows[f].stage /\ new.quote = flows[f].quote
    <3> DEFINE old == flows[f]
    <3>1. old \in Begun /\ Good(old, quotes) /\ old # Idle
      BY <1>1, <2>3, Intends DEF FlowForms, At, Idle
    <3> HIDE DEF old
    <3> QED
      BY <3>1, LeftBehind DEF old
  <2>4. flows' \in [Flows -> Flow]
    <3>1. \A f \in Flows : flows'[f] \in Flow
      BY <2>1, <2>3 DEF Flow
    <3>2. flows' = [f \in Flows |-> flows'[f]]
      BY <1>6 DEF Leave
    <3> QED
      BY <3>1, <3>2
  <2>5. \A f \in Flows : Good(flows'[f], quotes')
    BY <2>1, <2>2, <2>3 DEF Good
  <2>6. \A f \in Flows : \/ flows'[f].stage = "idle" /\ flows'[f].quote = None
                         \/ flows'[f].stage = flows[f].stage /\ flows'[f].quote = flows[f].quote
    BY <2>1, <2>3 DEF Idle
  <2>7. Owned'
    BY <1>1, <2>2, <2>6 DEF Owned
  <2> QED
    BY <2>4, <2>5, <2>7 DEF FlowForms
<1>7. CASE \E q \in DOMAIN quotes : Mine(q)
  <2>1. PICK k \in DOMAIN quotes : Mine(k)
    BY <1>7
  <2>2. flows' = flows /\ quotes[k].tx = "pending"
    BY <2>1 DEF Mine, pageVars
  <2>3. \A q \in DOMAIN quotes \ {k} : quotes'[q] = quotes[q]
    <3>1. quotes \in [DOMAIN quotes -> QuoteRecord]
      BY <1>1, LenProperties DEF QuoteForms
    <3>2. \E t, o : quotes' = [quotes EXCEPT ![k].tx = t, ![k].owned = o]
      BY <2>1 DEF Mine
    <3> QED
      BY <3>1, <3>2
  <2> QED
    BY <1>2, <2>2, <2>3
<1> QED
  BY <1>3, <1>4, <1>5, <1>6, <1>7 DEF Next

-----------------------------------------------------------------------------
(* The page. *)

\* Every step keeps the form of what the page knows.
LEMMA PageStep ==
    ASSUME InHand, [Next]_vars
    PROVE  PageForms'
<1>1. /\ FlowForms /\ QuoteForms /\ PageForms /\ Accounts /\ DOMAIN quotes \subseteq DOMAIN quotes'
      /\ QuoteForms'
  BY QuotesStep DEF InHand, Kept
<1>2. /\ DOMAIN quotes \subseteq Ids /\ mounted \in Followed /\ Nothing \in Followed
      /\ Nothing.tx = None /\ Nothing.receipt = None
  BY <1>1, Quoted DEF PageForms, Followed, Nothing
<1>3. /\ {open, busy} \subseteq BOOLEAN
      /\ form \in Nat /\ {breakEven, costFloor} \subseteq Floors
      /\ {sponsorship, receipt, saved, mounted.tx, mounted.receipt} \subseteq DOMAIN quotes \cup {None}
      /\ {status, poll} \subseteq {None, "pending", "dropped"} \cup Mined
  BY <1>1 DEF PageForms
<1>4. CASE \E f \in Flows : Step(f)
  <2>1. PICK f \in Flows : Step(f)
    BY <1>4
  <2>2. CASE CreateQuote(f) \/ IssueQuote(f) \/ Check(f) \/ Sign(f) \/ Submit(f) \/ Throw(f)
    <3>1. /\ UNCHANGED <<form, breakEven, open, sponsorship, status, receipt, saved,
                         mounted, poll, costFloor>>
          /\ busy' \in {busy, TRUE} \/ busy' = (busy /\ ~OnPage(f))
      BY <2>2 DEF CreateQuote, IssueQuote, Check, Sign, Submit, Throw, Finish
    <3>2. busy' \in BOOLEAN
      BY <1>3, <3>1
    <3> QED
      BY <1>1, <1>2, <1>3, <3>1, <3>2 DEF PageForms
  <2>3. CASE Verify(f)
    <3>1. /\ UNCHANGED <<form, breakEven, open, busy, receipt, saved, mounted, poll, costFloor>>
          /\ sponsorship' \in {sponsorship, None} /\ status' \in {status, None}
      BY <2>3 DEF Verify
    <3> QED
      BY <1>1, <1>2, <1>3, <3>1 DEF PageForms
  <2>4. CASE Answered(f)
    <3>1. /\ UNCHANGED <<form, breakEven, open, status, mounted, poll, costFloor>>
          /\ busy' = (busy /\ ~OnPage(f))
          /\ {receipt', sponsorship', saved'} \subseteq {flows[f].quote, receipt, sponsorship, saved}
      BY <2>4 DEF Answered, Finish
    <3>2. flows[f].quote \in DOMAIN quotes \cup {None}
      BY <1>1, QuoteOf
    <3>3. {sponsorship', receipt', saved', mounted.tx, mounted.receipt} \subseteq DOMAIN quotes \cup {None}
      BY <1>3, <3>1, <3>2
    <3>4. {open', busy'} \subseteq BOOLEAN
      BY <1>3, <3>1
    <3> QED
      BY <1>1, <1>2, <1>3, <3>1, <3>3, <3>4 DEF PageForms
  <2> QED
    BY <2>1, <2>2, <2>3, <2>4 DEF Step
<1>5. CASE Edit
  <2>1. ledger[Origin] \in Nat /\ breakEven \in Nat /\ \A p \in Percents : p \in Nat
    <3>1. ledger[Origin] \in Nat
      BY <1>1 DEF Accounts, Ledgers, Parties
    <3>2. breakEven \in Nat
      BY <1>3
    <3>3. ASSUME NEW p \in Percents PROVE p \in Nat
      <4>1. Percents \subseteq 0 .. 100
        OBVIOUS
      <4> QED
        BY <4>1
    <3> QED
      BY <3>1, <3>2, <3>3
  <2>2. \A p \in Percents : AmountByPercent(ledger[Origin], p, breakEven) \in Nat
    BY <2>1, PercentType
  <2>3. form' \in Nat
    BY <1>5, <2>2 DEF Edit
  <2>4. UNCHANGED <<breakEven, open, busy, sponsorship, status, receipt, saved, mounted,
                    poll, costFloor>>
    BY <1>5 DEF Edit
  <2> QED
    BY <1>1, <1>2, <1>3, <2>3, <2>4 DEF PageForms
<1>6. CASE RefreshPricing
  <2>1. breakEven' \in {breakEven, costFloor} /\ open' \in BOOLEAN
    <3>1. CASE \E info \in Info : breakEven' = info.breakEven /\ open' = info.open
      <4>1. PICK info \in Info : breakEven' = info.breakEven /\ open' = info.open
        BY <3>1
      <4>2. PICK paused \in BOOLEAN : info = [breakEven |-> costFloor, open |-> ~paused]
        BY DEF Info, Paused
      <4>3. info.breakEven = costFloor /\ info.open \in BOOLEAN
        BY <4>2
      <4> QED
        BY <4>1, <4>3
    <3>2. CASE UNCHANGED breakEven /\ open' = FALSE
      BY <3>2
    <3> QED
      BY <1>6, <3>1, <3>2 DEF RefreshPricing
  <2>2. UNCHANGED <<form, busy, sponsorship, status, receipt, saved, mounted, poll, costFloor>>
    BY <1>6 DEF RefreshPricing
  <2> QED
    BY <1>1, <1>2, <1>3, <2>1, <2>2 DEF PageForms
<1>7. CASE Reset
  <2>1. /\ UNCHANGED <<form, breakEven, open, busy, costFloor>>
        /\ receipt' = None /\ saved' = None /\ sponsorship' = None /\ status' = None
        /\ mounted' = Nothing /\ poll' = None
    BY <1>7 DEF Reset
  <2> QED
    BY <1>1, <1>2, <1>3, <2>1 DEF PageForms
<1>8. CASE Leave \/ Reload
  <2>1. /\ UNCHANGED <<saved, costFloor>>
        /\ form' = 0 /\ breakEven' = costFloor /\ open' \in BOOLEAN /\ busy' = FALSE
        /\ receipt' = saved /\ sponsorship' = saved /\ status' = None
        /\ mounted' = Nothing /\ poll' = None
    BY <1>8 DEF Leave, Reload, Opens
  <2> QED
    BY <1>1, <1>2, <1>3, <2>1 DEF PageForms
<1>9. CASE Commit
  <2>1. /\ UNCHANGED <<form, breakEven, open, sponsorship, status, receipt, saved, costFloor>>
        /\ mounted' = Current /\ poll' = None /\ busy' \in BOOLEAN
    BY <1>3, <1>9 DEF Commit
  <2>2. Current \in Followed /\ Current.tx = sponsorship /\ Current.receipt = receipt
    BY <1>2, <1>3 DEF Current, Followed, Terminal
  <2> QED
    BY <1>1, <1>2, <1>3, <2>1, <2>2 DEF PageForms
<1>10. CASE Poll
  <2>1. UNCHANGED <<form, breakEven, open, busy, sponsorship, status, receipt, saved,
                    mounted, costFloor>>
    BY <1>10 DEF Poll
  <2>2. poll' \in {"pending", "dropped"} \cup Mined
    BY <1>10 DEF Poll
  <2> QED
    BY <1>1, <1>2, <1>3, <2>1, <2>2 DEF PageForms
<1>11. CASE PollAnswered \/ PollLost
  <2>1. /\ UNCHANGED <<form, breakEven, open, busy, sponsorship, receipt, saved,
                       mounted, costFloor>>
        /\ poll' = None /\ status' \in {status, poll}
    BY <1>11 DEF PollAnswered, PollLost
  <2> QED
    BY <1>1, <1>2, <1>3, <2>1 DEF PageForms
<1>12. CASE Reprice
  <2>1. UNCHANGED <<form, breakEven, open, busy, sponsorship, status, receipt, saved,
                    mounted, poll>> /\ costFloor' \in Floors
    BY <1>12 DEF Reprice, pageVars
  <2> QED
    BY <1>1, <1>2, <1>3, <2>1 DEF PageForms
<1>13. CASE Tick \/ (\E q \in DOMAIN quotes : Mine(q)) \/ UNCHANGED vars
  <2>1. UNCHANGED <<form, breakEven, open, busy, sponsorship, status, receipt, saved,
                    mounted, poll, costFloor>>
    BY <1>13 DEF Tick, Mine, pageVars, vars
  <2> QED
    BY <1>1, <1>2, <1>3, <2>1 DEF PageForms
<1> QED
  BY <1>4, <1>5, <1>6, <1>7, <1>8, <1>9, <1>10, <1>11, <1>12, <1>13 DEF Next

\* A status that the embedded page shows while it follows nothing does not end.
LEMMA NothingEnds ==
    ASSUME Following, Embedded, sponsorship = None
    PROVE  Current = Nothing /\ mounted = Nothing /\ poll = None /\ status = None /\ receipt = None
<1>1. mounted = Nothing /\ poll = None /\ status = None /\ receipt = None
  BY DEF Following
<1>2. Terminal(status) = FALSE
  BY <1>1, Names DEF Terminal
<1>3. Current = Nothing
  BY <1>1, <1>2, Zenon DEF Current, Nothing
<1> QED
  BY <1>1, <1>3

\* A flow that has begun stays on its page when it goes on.
LEMMA StaysOnPage ==
    ASSUME InHand, NEW f \in Flows,
           IssueQuote(f) \/ Verify(f) \/ Check(f) \/ Sign(f) \/ Submit(f)
    PROVE  flows'[f].page = flows[f].page
<1> DEFINE old == flows[f]
<1>1. FlowForms /\ flows \in [Flows -> Flow] /\ ~At(f, "idle")
  BY DEF InHand, FlowForms, IssueQuote, Verify, Check, Sign, Submit, At
<1>2. old \in Begun
  BY <1>1, Intends
<1> HIDE DEF old
<1>3. CASE IssueQuote(f)
  <2> DEFINE n == Len(quotes) + 1
  <2> HIDE DEF n
  <2>1. flows' = [flows EXCEPT ![f].stage = "verify", ![f].quote = n]
    BY <1>3 DEF IssueQuote, n
  <2>2. flows'[f] = [old EXCEPT !.stage = "verify", !.quote = n]
    BY <1>1, <2>1 DEF old
  <2> QED
    BY <1>2, <2>2 DEF Begun, old
<1>4. CASE Verify(f) \/ Check(f) \/ Submit(f)
  <2>1. PICK stage \in Stages : Goto(f, stage)
    BY <1>4 DEF Verify, Check, Submit, Stages
  <2>2. flows'[f] = [old EXCEPT !.stage = stage]
    BY <1>1, <2>1 DEF Goto, old
  <2> QED
    BY <1>2, <2>2 DEF Begun, old
<1>5. CASE Sign(f)
  <2>1. PICK tx : flows' = [flows EXCEPT ![f].stage = "final", ![f].signed = tx]
    BY <1>5 DEF Sign
  <2>2. flows'[f] = [old EXCEPT !.stage = "final", !.signed = tx]
    BY <1>1, <2>1 DEF old
  <2> QED
    BY <1>2, <2>2 DEF Begun, old
<1> QED
  BY <1>3, <1>4, <1>5

\* The embedded page goes on running one flow, and none while it follows a
\* transaction.
LEMMA OneStep ==
    ASSUME InHand, [Next]_vars
    PROVE  OneAtATime'
<1> SUFFICES ASSUME Embedded PROVE OneAtATime'
  BY DEF OneAtATime
<1> DEFINE Runs(g) == ~At(g, "idle") /\ OnPage(g)
<1>1. /\ \A g, h \in Flows : Runs(g) /\ Runs(h) => g = h
      /\ \A g \in Flows : Runs(g) => busy /\ sponsorship = None
  BY DEF InHand, OneAtATime, Active
\* A step after which no more flows run on the page.
<1>2. ASSUME \A g \in Flows : Runs(g)' =>
                Runs(g) /\ busy' = busy /\ sponsorship' \in {sponsorship, None}
      PROVE  OneAtATime'
  <2>1. \A g, h \in Flows : Runs(g)' /\ Runs(h)' => g = h
    BY <1>1, <1>2
  <2>2. \A g \in Flows : Runs(g)' => busy' /\ sponsorship' = None
    <3> SUFFICES ASSUME NEW g \in Flows, Runs(g)' PROVE busy' /\ sponsorship' = None
      OBVIOUS
    <3>1. Runs(g) /\ busy' = busy /\ sponsorship' \in {sponsorship, None}
      BY <1>2
    <3>2. busy /\ sponsorship = None
      BY <1>1, <3>1
    <3>3. busy'
      BY <3>1, <3>2, Zenon
    <3>4. sponsorship' = None
      BY <3>1, <3>2
    <3> QED
      BY <3>3, <3>4
  <2> QED
    BY <2>1, <2>2 DEF OneAtATime, Active
<1>3. CASE \E f \in Flows : Step(f)
  <2>1. PICK f \in Flows : Step(f)
    BY <1>3
  <2>2. \A g \in Flows \ {f} : flows'[g] = flows[g]
    BY <2>1, FlowStep
  <2>3. CASE CreateQuote(f)
    <3>1. ~busy /\ busy' = TRUE /\ sponsorship = None /\ sponsorship' = None
      BY <2>3 DEF CreateQuote, FormShown
    <3>2. \A g \in Flows : ~Runs(g)
      BY <1>1, <3>1
    <3>3. \A g \in Flows : Runs(g)' => g = f
      BY <2>2, <3>2 DEF At, OnPage
    <3> QED
      BY <3>1, <3>3 DEF OneAtATime, Active
  <2>4. CASE IssueQuote(f) \/ Verify(f) \/ Check(f) \/ Sign(f) \/ Submit(f)
    <3>1. ~At(f, "idle")
      BY <2>4 DEF IssueQuote, Verify, Check, Sign, Submit, At
    <3>2. busy' = busy /\ sponsorship' \in {sponsorship, None}
      BY <2>4 DEF IssueQuote, Verify, Check, Sign, Submit
    <3>3. flows'[f].page = flows[f].page
      BY <2>4, StaysOnPage
    <3>4. \A g \in Flows : Runs(g)' => Runs(g)
      BY <2>2, <3>1, <3>3 DEF At, OnPage
    <3> QED
      BY <1>2, <3>2, <3>4
  <2>5. CASE Answered(f) \/ Throw(f)
    <3>1. /\ Finish(f) /\ ~At(f, "idle") /\ busy' = (busy /\ ~OnPage(f))
          /\ ~OnPage(f) => sponsorship' = sponsorship
      BY <2>5 DEF Answered, Throw, At, Finish
    <3>2. ~Runs(f)'
      <4>1. Becomes(f, Idle)
        BY <3>1, Finishes DEF InHand
      <4>2. flows'[f].stage = "idle"
        BY <4>1 DEF Becomes, Idle
      <4> QED
        BY <4>2 DEF At
    <3>3. \A g \in Flows : Runs(g)' => g # f /\ Runs(g)
      BY <2>2, <3>2 DEF At, OnPage
    <3>4. CASE OnPage(f)
      <4>1. \A g \in Flows : ~Runs(g)'
        BY <1>1, <3>1, <3>3, <3>4
      <4> QED
        BY <1>2, <4>1
    <3>5. CASE ~OnPage(f)
      <4>1. busy' = busy
        BY <3>1, <3>5 DEF InHand, PageForms
      <4> QED
        BY <1>2, <3>1, <3>3, <3>5, <4>1
    <3> QED
      BY <3>4, <3>5
  <2> QED
    BY <2>1, <2>3, <2>4, <2>5 DEF Step
<1>4. CASE Edit \/ RefreshPricing \/ Reset \/ Poll \/ PollAnswered \/ PollLost \/ Reprice \/ Tick
           \/ (\E q \in DOMAIN quotes : Mine(q)) \/ UNCHANGED vars
  <2>1. flows' = flows /\ busy' = busy /\ sponsorship' \in {sponsorship, None}
    BY <1>4 DEF Edit, RefreshPricing, Reset, Poll, PollAnswered, PollLost, Reprice, Tick, Mine,
                pageVars, vars
  <2> QED
    BY <1>2, <2>1 DEF At, OnPage
<1>5. CASE Commit
  <2>1. flows' = flows /\ sponsorship' = sponsorship /\ busy' = (busy /\ ~(Current.terminal /\ ~mounted.terminal))
    BY <1>5 DEF Commit
  <2>2. ASSUME sponsorship = None PROVE busy' = busy
    <3>1. Current.terminal = FALSE
      BY <2>2, NothingEnds DEF InHand, Nothing
    <3> QED
      BY <2>1, <3>1 DEF InHand, PageForms
  <2> QED
    BY <1>1, <1>2, <2>1, <2>2 DEF At, OnPage
<1>6. CASE Leave \/ Reload
  <2>1. \A g \in Flows : ~Runs(g)'
    <3> SUFFICES ASSUME NEW g \in Flows PROVE ~Runs(g)'
      OBVIOUS
    <3>1. CASE flows'[g] = Idle
      BY <3>1 DEF At, Idle
    <3>2. CASE ~At(g, "idle") /\ flows'[g] = Behind(flows[g])
      <4> DEFINE old == flows[g]
      <4>1. old \in Begun
        BY <3>2, Intends DEF InHand
      <4> HIDE DEF old
      <4>2. Behind(old).page = "left"
        BY <4>1 DEF Behind, Begun
      <4> QED
        BY <3>2, <4>2 DEF OnPage, old
    <3> QED
      BY <1>6, <3>1, <3>2 DEF Leave, Reload, Behind
  <2> QED
    BY <1>2, <2>1
<1> QED
  BY <1>3, <1>4, <1>5, <1>6 DEF Next

\* What the embedded page shows and is told stays about the receipt it has.
LEMMA FollowingStep ==
    ASSUME InHand, [Next]_vars
    PROVE  Following'
<1> SUFFICES ASSUME Embedded PROVE Following'
  BY DEF Following
<1>1. /\ receipt = sponsorship
      /\ sponsorship = None => mounted = Nothing /\ poll = None /\ status = None
      /\ mounted.tx \in {None, sponsorship}
      /\ poll \in Mined => mounted.tx # None /\ quotes[mounted.tx].tx = poll
      /\ status \in Mined => quotes[sponsorship].tx = status
  BY DEF InHand, Following
<1>2. /\ \A q \in DOMAIN quotes : quotes[q].tx \in Mined => quotes'[q].tx = quotes[q].tx
      /\ {sponsorship, mounted.tx} \subseteq DOMAIN quotes \cup {None}
  BY QuotesStep DEF InHand, Kept, PageForms
\* What is mined stays.
<1>3. /\ poll \in Mined => quotes'[mounted.tx].tx = poll
      /\ status \in Mined => quotes'[sponsorship].tx = status
  BY <1>1, <1>2, Names
<1>4. Nothing.tx = None
  BY DEF Nothing
<1>5. CASE \E f \in Flows : Step(f)
  <2>1. PICK f \in Flows : Step(f)
    BY <1>5
  <2>2. CASE CreateQuote(f) \/ IssueQuote(f) \/ Check(f) \/ Sign(f) \/ Submit(f) \/ Throw(f)
    <3>1. UNCHANGED <<sponsorship, receipt, status, mounted, poll>>
      BY <2>2 DEF CreateQuote, IssueQuote, Check, Sign, Submit, Throw
    <3> QED
      BY <1>1, <1>3, <3>1 DEF Following
  <2>3. CASE (Verify(f) \/ Answered(f)) /\ OnPage(f)
    <3>1. f \in Active
      BY <2>3 DEF Verify, Answered, Active, At
    <3>2. sponsorship = None
      BY <3>1 DEF InHand, OneAtATime
    <3>3. mounted' = Nothing /\ poll' = None /\ status' = None /\ receipt' = sponsorship'
      BY <1>1, <2>3, <3>2 DEF Verify, Answered
    <3> QED
      BY <1>4, <3>3, Names DEF Following
  <2>4. CASE (Verify(f) \/ Answered(f)) /\ ~OnPage(f)
    <3>1. UNCHANGED <<sponsorship, receipt, status, mounted, poll>>
      BY <2>4 DEF Verify, Answered
    <3> QED
      BY <1>1, <1>3, <3>1 DEF Following
  <2> QED
    BY <2>1, <2>2, <2>3, <2>4 DEF Step
<1>6. CASE Edit \/ RefreshPricing \/ Reprice \/ Tick \/ (\E q \in DOMAIN quotes : Mine(q)) \/ UNCHANGED vars
  <2>1. UNCHANGED <<sponsorship, receipt, status, mounted, poll>>
    BY <1>6 DEF Edit, RefreshPricing, Reprice, Tick, Mine, pageVars, vars
  <2> QED
    BY <1>1, <1>3, <2>1 DEF Following
<1>7. CASE Reset \/ Leave \/ Reload
  <2>1. mounted' = Nothing /\ poll' = None /\ status' = None /\ receipt' = sponsorship'
    BY <1>7 DEF Reset, Leave, Reload, Opens
  <2> QED
    BY <1>4, <2>1, Names DEF Following
<1>8. CASE Commit
  <2>1. UNCHANGED <<sponsorship, receipt, status>> /\ mounted' = Current /\ poll' = None
    BY <1>8 DEF Commit
  <2>2. sponsorship = None => Current = Nothing
    BY NothingEnds DEF InHand
  <2>3. Current.tx = sponsorship
    BY DEF Current
  <2> QED
    BY <1>1, <1>3, <2>1, <2>2, <2>3, Names DEF Following
<1>9. CASE Poll
  <2>1. UNCHANGED <<sponsorship, receipt, status, mounted, quotes>> /\ mounted.tx # None
    BY <1>9 DEF Poll
  <2>2. poll' \in Mined => quotes[mounted.tx].tx = poll'
    <3> DEFINE tx == quotes[mounted.tx].tx
    <3>1. poll' \in IF tx \in Mined THEN {tx} ELSE {"pending", "dropped"}
      BY <1>9 DEF Poll
    <3> HIDE DEF tx
    <3>2. "dropped" \notin Mined
      BY DEF Mined, Errors
    <3>3. poll' \in Mined => poll' = tx
      BY <3>1, <3>2, Names
    <3> QED
      BY <3>3 DEF tx
  <2>3. sponsorship # None
    BY <1>1, <1>4, <2>1
  <2> QED
    BY <1>1, <2>1, <2>2, <2>3 DEF Following
<1>10. CASE PollAnswered
  <2>1. UNCHANGED <<sponsorship, receipt, mounted, quotes>> /\ poll # None /\ poll' = None /\ status' = poll
    BY <1>10 DEF PollAnswered
  <2>2. sponsorship # None
    BY <1>1, <2>1
  <2> QED
    BY <1>1, <2>1, <2>2, Names DEF Following
<1>11. CASE PollLost
  <2>1. UNCHANGED <<sponsorship, receipt, status, mounted, quotes>> /\ poll' = None
    BY <1>11 DEF PollLost
  <2> QED
    BY <1>1, <2>1, Names DEF Following
<1> QED
  BY <1>5, <1>6, <1>7, <1>8, <1>9, <1>10, <1>11 DEF Next

-----------------------------------------------------------------------------
(* The theorems. *)

\* Initially nothing is in hand.
LEMMA InitInHand == Init => InHand
<1> SUFFICES ASSUME Init PROVE InHand
  OBVIOUS
<1>1. /\ form = 0 /\ busy = FALSE /\ flows = [f \in Flows |-> Idle]
      /\ sponsorship = None /\ status = None /\ receipt = None /\ saved = None
      /\ mounted = Nothing /\ poll = None
      /\ costFloor \in Floors /\ breakEven = costFloor /\ open \in BOOLEAN
      /\ quotes = <<>> /\ height = 0
      /\ ledger = [p \in Parties |-> IF p = Origin THEN Balance ELSE 0]
  BY DEF Init, Parties
<1>2. FlowForms
  BY <1>1 DEF FlowForms, Flow, Good
<1>3. QuoteForms
  BY <1>1 DEF QuoteForms
<1>4. PageForms
  <2>1. Nothing.tx = None /\ Nothing.receipt = None /\ Nothing \in Followed
    BY DEF Nothing, Followed
  <2> QED
    BY <1>1, <2>1 DEF PageForms
<1>5. Owned
  BY <1>1 DEF Owned, Idle
<1>6. OneAtATime
  BY <1>1 DEF OneAtATime, Active, At, Idle
<1>7. Following
  BY <1>1, Names DEF Following, Nothing
<1>8. Blamed
  BY <1>1 DEF Blamed
<1>9. Accounts
  <2>1. Done(quotes) = {}
    BY <1>1 DEF Done
  <2>2. Paid(quotes) = 0 /\ Fees(quotes) = 0
    BY <2>1, SumEmpty DEF Paid, Fees
  <2>3. ledger \in Ledgers
    BY <1>1 DEF Ledgers
  <2>4. ledger[Origin] = Balance /\ \A p \in {Recipient, Sponsor} : ledger[p] = Due(p, 0, 0)
    BY <1>1, Distinct DEF Parties, Due
  <2> QED
    BY <1>1, <2>2, <2>3, <2>4 DEF Accounts
<1> QED
  BY <1>2, <1>3, <1>4, <1>5, <1>6, <1>7, <1>8, <1>9 DEF InHand

\* The invariant is of the form that TypeOK says.
LEMMA Typed == InHand => TypeOK
<1> SUFFICES ASSUME InHand PROVE TypeOK
  OBVIOUS
<1>1. FlowForms /\ QuoteForms /\ PageForms /\ Accounts
  BY DEF InHand
<1>2. mounted.terminal \in BOOLEAN
  BY <1>1 DEF PageForms, Followed
<1>3. \A f \in Flows : Good(flows[f], quotes)
  BY <1>1 DEF FlowForms
<1>4. \A q \in DOMAIN quotes : GoodQuote(q, quotes[q])
  BY <1>1 DEF QuoteForms
<1> QED
  BY <1>1, <1>2, <1>3, <1>4 DEF TypeOK, PageForms, QuoteForms, Accounts, Ledgers, Parties, Good, GoodQuote

\* At most one of the flows of the embedded page has begun.
LEMMA AtMostOne == InHand => OneTransferPerPage
<1> SUFFICES ASSUME InHand, Embedded PROVE Cardinality(Active) <= 1 /\ (Active # {} => busy /\ sponsorship = None)
  BY DEF OneTransferPerPage
<1>1. (\A f, g \in Active : f = g) /\ (Active # {} => busy /\ sponsorship = None)
  BY DEF InHand, OneAtATime
<1>2. CASE Active = {}
  BY <1>1, <1>2, FS_EmptySet
<1>3. CASE Active # {}
  <2>1. PICK f : Active = {f}
    BY <1>1, <1>3
  <2>2. Cardinality({f}) = 1
    BY FS_Singleton
  <2> QED
    BY <1>1, <2>1, <2>2
<1> QED
  BY <1>2, <1>3

\* What the embedded page shows is what happened.
LEMMA ShownIsTrue == InHand => ShownOutcomeIsTrue
<1> SUFFICES ASSUME InHand, Embedded, sponsorship # None
             PROVE  /\ receipt = sponsorship
                    /\ Terminal(status) => quotes[sponsorship].tx = status
                    /\ Needed # None => quotes[sponsorship].owned < Needed
  BY DEF ShownOutcomeIsTrue
<1>1. /\ receipt = sponsorship /\ sponsorship \in DOMAIN quotes
      /\ status \in Mined => quotes[sponsorship].tx = status
  BY DEF InHand, Following, PageForms
<1>2. ASSUME Needed # None PROVE quotes[sponsorship].owned < Needed
  <2>1. /\ status \in {"FEE_TRANSFER_FAILED", "RECIPIENT_TRANSFER_FAILED"}
        /\ Needed = quotes[receipt].amount + quotes[receipt].fee
    BY <1>2 DEF Needed
  <2>2. quotes[sponsorship].tx = status
    BY <1>1, <2>1 DEF Mined, Errors
  <2> QED
    BY <1>1, <2>1, <2>2 DEF InHand, Blamed
<1> QED
  BY <1>1, <1>2 DEF Terminal

\* A fold of a function adds up its values.
LEMMA FoldIsSum ==
    ASSUME NEW g
    PROVE  FoldFunction(LAMBDA m, n : m + n, 0, g) = SumOver(g, DOMAIN g)
  BY DEF SumOver, MapThenSumSet, MapThenFoldSet, FoldFunction, FoldFunctionOnSet

\* The sums of the ledger are those of the successful transfers.
LEMMA SumsAreExact == InHand => ExactOutflow
<1> SUFFICES ASSUME InHand PROVE ExactOutflow
  OBVIOUS
<1>1. Succeeded = Done(quotes)
  BY DEF Succeeded, Done
<1>2. Paid(quotes) = Sum("amount")
  <2> DEFINE g == [q \in Succeeded |-> quotes[q]["amount"]]
  <2>1. g = [q \in Done(quotes) |-> quotes[q].amount] /\ DOMAIN g = Done(quotes)
    BY <1>1
  <2>2. FoldFunction(LAMBDA m, n : m + n, 0, g) = SumOver(g, DOMAIN g)
    BY FoldIsSum
  <2> QED
    BY <2>1, <2>2 DEF Paid, Sum
<1>3. Fees(quotes) = Sum("fee")
  <2> DEFINE g == [q \in Succeeded |-> quotes[q]["fee"]]
  <2>1. g = [q \in Done(quotes) |-> quotes[q].fee] /\ DOMAIN g = Done(quotes)
    BY <1>1
  <2>2. FoldFunction(LAMBDA m, n : m + n, 0, g) = SumOver(g, DOMAIN g)
    BY FoldIsSum
  <2> QED
    BY <2>1, <2>2 DEF Fees, Sum
<1> QED
  BY <1>2, <1>3 DEF InHand, Accounts, ExactOutflow

\* InHand is an invariant.
THEOREM AlwaysInHand == Spec => []InHand
<1>1. InHand /\ [Next]_vars => InHand'
  <2> SUFFICES ASSUME InHand, [Next]_vars PROVE InHand'
    OBVIOUS
  <2> QED
    BY QuotesStep, FlowsStep, PageStep, OneStep, FollowingStep DEF InHand
<1> QED
  BY <1>1, InitInHand, PTL DEF Spec

\* The page, the relay and the chain keep their forms.
THEOREM TypeCorrect == Spec => []TypeOK
  BY AlwaysInHand, Typed, PTL

\* One page of the home page has one transfer in hand at a time, also after another
\* one was left with a transfer in hand.
THEOREM OneTransfer == Spec => []OneTransferPerPage
  BY AlwaysInHand, AtMostOne, PTL

\* It shows the outcome of the transfer whose receipt it has, and blames the
\* balance of the origin only when that was too low.
THEOREM OutcomeTrue == Spec => []ShownOutcomeIsTrue
  BY AlwaysInHand, ShownIsTrue, PTL

\* The origin pays for the successful transfers and for nothing else, and what it
\* pays is what the recipient and the sponsor get, who may be one.
THEOREM OutflowExact == Spec => []ExactOutflow
  BY AlwaysInHand, SumsAreExact, PTL

-----------------------------------------------------------------------------
(* What one quote buys. *)

\* validatePostConditions(): a transaction that matches its quote never fails its
\* post-condition; it pays the amount of the quote to the recipient and the fee to
\* the sponsor, both to a sponsor that is the recipient, or nothing.
THEOREM MatchedPaysExactly ==
    ASSUME NEW q \in Nat, NEW quote \in QuoteRecord, NEW tx, MatchesQuote(tx, q, quote),
           NEW l \in Ledgers, NEW h \in Nat, NEW result,
           result = Outcome(l, tx, Origin, Sponsor, h)
    PROVE  /\ result.status \in Mined \ {"POST_CONDITION"}
           /\ result.status # "success" => result.ledger = l
           /\ result.status = "success" =>
                 /\ result.ledger[Origin] = l[Origin] - quote.amount - quote.fee
                 /\ \A p \in {Recipient, Sponsor} :
                       result.ledger[p] = l[p] + Due(p, quote.amount, quote.fee)
<1> DEFINE p == Prepare(q, quote)
<1>1. /\ p \in Calls /\ p.outflow = quote.amount + quote.fee
      /\ p.args.amount = quote.amount /\ p.args.fee = quote.fee
  BY Prepared
<1>2. tx.args = p.args /\ tx.outflow = p.outflow
  BY <1>1 DEF MatchesQuote
<1> HIDE DEF p
<1>3. result = Outcome(l, p, Origin, Sponsor, h)
  BY <1>2 DEF Outcome
<1>4. p.outflow = p.args.amount + p.args.fee
  BY <1>1
<1> QED
  BY <1>1, <1>3, <1>4, Executed

\* createQuote(): whatever the amount, the relay's fee covers its costs, and it is
\* more than the page agrees to pay only if the relay's cost floor is.
THEOREM FeeWithinEstimate ==
    ASSUME NEW amount \in Nat, NEW floor \in Nat, NEW read \in Nat
    PROVE  /\ SponsorFee(amount, floor) >= floor
           /\ SponsorFee(amount, floor) > EstimatedFee(amount, read) =>
                 floor > EstimatedFee(amount, read) /\ floor > read
<1> DEFINE l == Logarithmic(amount)
<1>1. l \in Nat
  BY LogarithmicType
<1> HIDE DEF l
<1>2. /\ Max({1, l, floor}) \in {1, l, floor}
      /\ Max({1, l, floor}) >= 1 /\ Max({1, l, floor}) >= l /\ Max({1, l, floor}) >= floor
  BY <1>1, MaxOfThree
<1>3. /\ Max({l, 1, read}) \in {l, 1, read}
      /\ Max({l, 1, read}) >= 1 /\ Max({l, 1, read}) >= l /\ Max({l, 1, read}) >= read
  BY <1>1, MaxOfThree
<1>4. SponsorFee(amount, floor) = Max({1, l, floor}) /\ EstimatedFee(amount, read) = Max({l, 1, read})
  BY DEF SponsorFee, EstimatedFee, l
<1> QED
  BY <1>1, <1>2, <1>3, <1>4

=============================================================================
