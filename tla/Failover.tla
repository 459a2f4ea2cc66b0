------------------------------ MODULE Failover ------------------------------
(***************************************************************************)
(* sponsorWithFailover(): a client offers one origin-signed transaction to *)
(* the operators a registry listing calls healthy, in order, until one of  *)
(* them sponsors it.  The listing is a snapshot; an operator's real        *)
(* capacity may be gone when the request arrives.  One of the operators is *)
(* watched through its rate limiter, which other requests meet meanwhile.  *)
(***************************************************************************)
EXTENDS RateLimiter, SequencesExt

CONSTANTS
    Candidates,     \* the operators there are
    Door,           \* the operator whose rate limiter is watched
    Client,         \* the key of the client's requests there
    Lossy           \* whether requests and answers get lost

ASSUME FailoverAssumption ==
    /\ Door \in Candidates /\ Client \in Keys
    /\ Lossy \in BOOLEAN

VARIABLES
    eligible,   \* the sequence of operators the loop runs over
    attempt,    \* index of the operator being asked
    pc,
    answer,     \* what that operator answered
    funded,     \* operators that really have STX
    signedBy,   \* operators that signed the transaction
    lostBy      \* operators whose answer was lost

clientVars == <<eligible, attempt, pc, answer, funded, signedBy, lostBy>>
vars == <<clientVars, doorVars>>

Init ==
    /\ eligible = <<>> /\ attempt = 0
    /\ pc = "list" /\ answer = "none"
    /\ funded \in SUBSET Candidates
    /\ signedBy = {} /\ lostBy = {}
    /\ DoorInit

\* ONLINE, with a balance, when the registry last looked.
List ==
    /\ pc = "list"
    /\ \E listed \in SUBSET Candidates : eligible' \in SetToSeqs(listed)
    /\ attempt' = IF eligible' = <<>> THEN 0 ELSE 1
    /\ pc' = IF eligible' = <<>> THEN "failed" ELSE "send"
    /\ UNCHANGED <<answer, funded, signedBy, lostBy, doorVars>>

\* Other clients spend an operator's STX, or it is funded again.
BalanceChanges(o) ==
    /\ pc # "returned" /\ pc # "failed"
    /\ funded' \in {funded \cup {o}, funded \ {o}}
    /\ UNCHANGED <<eligible, attempt, pc, answer, signedBy, lostBy, doorVars>>

Asked == eligible[attempt]

Signs(o) == signedBy' = signedBy \cup {o}

\* The request arrives, and is let in by the limiter or refused.
Arrives == IF Asked = Door THEN Knock(Client) ELSE UNCHANGED doorVars

LetIn == Asked = Door => Admits(Client)

\* POST /v1/sponsor.  A funded operator signs and broadcasts; it may also fail
\* after it signed, or refuse before (another 503 among the reasons).
Send ==
    /\ pc = "send" /\ pc' = "answered"
    /\ Arrives
    /\ \/ LetIn /\ Asked \in funded /\ Signs(Asked)
          /\ answer' \in {"BROADCAST", "UNAVAILABLE", "rejected"}
       \/ LetIn /\ Asked \in funded /\ UNCHANGED signedBy /\ answer' \in {"UNAVAILABLE", "rejected"}
       \/ LetIn /\ Asked \notin funded /\ UNCHANGED signedBy /\ answer' = "INSUFFICIENT_STX"
       \/ ~LetIn /\ UNCHANGED signedBy /\ answer' = "rejected"
    /\ UNCHANGED <<eligible, attempt, funded, lostBy>>

\* The fetch throws: the request never arrived, or its answer did not.
LoseRequest ==
    /\ Lossy
    /\ pc = "send" /\ pc' = "answered"
    /\ answer' = "lost"
    /\ lostBy' = lostBy \cup {Asked}
    /\ \/ UNCHANGED <<signedBy, doorVars>>
       \/ Arrives /\ UNCHANGED signedBy
       \/ Arrives /\ LetIn /\ Asked \in funded /\ Signs(Asked)
    /\ UNCHANGED <<eligible, attempt, funded>>

\* Any 503 taken for a lack of capacity.
MayTryNextOn503(a) == a \in {"INSUFFICIENT_STX", "UNAVAILABLE", "lost"}

\* isCapacityRejection, and the catch block that continues the loop.
MayTryNext(a) == a \in {"INSUFFICIENT_STX", "lost"}

TryNext ==
    /\ pc = "answered" /\ MayTryNext(answer)
    /\ IF attempt < Len(eligible) THEN attempt' = attempt + 1 /\ pc' = "send"
       ELSE pc' = "failed" /\ UNCHANGED attempt
    /\ answer' = "none"
    /\ UNCHANGED <<eligible, funded, signedBy, lostBy, doorVars>>

Finish ==
    /\ pc = "answered" /\ ~MayTryNext(answer)
    /\ pc' = IF answer = "BROADCAST" THEN "returned" ELSE "failed"
    /\ UNCHANGED <<eligible, attempt, answer, funded, signedBy, lostBy, doorVars>>

\* Requests of other clients, and others of this one.
OthersArrive == /\ \E k \in Keys : Knock(k)
                /\ UNCHANGED clientVars

TimePasses == Tick /\ UNCHANGED clientVars

Next ==
    \/ List \/ Send \/ LoseRequest \/ TryNext \/ Finish
    \/ OthersArrive \/ TimePasses
    \/ \E o \in Candidates : BalanceChanges(o)

Spec == Init /\ [][Next]_vars

-----------------------------------------------------------------------------
\* As far as the client can know: nobody is asked after an operator that signed
\* and whose answer arrived, even an answer that reports a failure.
AnsweredSignatureIsFinal ==
    \A o \in signedBy \ lostBy : attempt > 0 /\ Asked = o

=============================================================================
