-------------------------- MODULE OperatorRegistry --------------------------
(***************************************************************************)
(* The JSON operator registry of one relay process: registrations,         *)
(* heartbeats, outcomes of sponsorships, and listings.  Each of them reads *)
(* the file, changes a record and puts it back without a lock; a put reads *)
(* the whole file again, writes all of it to one temporary file per        *)
(* process and renames that over the registry.  Every await is a step of   *)
(* its own.                                                                *)
(*                                                                         *)
(* Time is kept as the age of a heartbeat, in units of which Timeout make  *)
(* the heartbeat timeout; older than that is one age.  A put ends within   *)
(* the unit in which it started.                                           *)
(***************************************************************************)
EXTENDS Naturals, Sequences, SequencesExt, FiniteSets, Functions

CONSTANTS
    Operators,      \* the operators there are
    Self,           \* the operator this process sponsors as
    Timer,          \* the task of the health poll
    Requests,       \* the tasks of requests to the process
    Chosen,         \* bound: the statuses with which operators are registered
    Reports,        \* by operator: whether it may report funds
    Timeout,        \* heartbeatTimeoutMs
    Window,         \* outcomeWindowSize
    MaxPuts,        \* bound: puts in flight at once
    Faults,         \* "crash": the process dies; "disk": a write throws
    Empty,          \* a file that was truncated and not yet written
    Garbage,        \* a file with the end of a longer one behind its text
    Absent          \* no file

VARIABLES
    file,           \* the registry: records, or a file JSON.parse refuses
    temporary,      \* the temporary file of this process
    puts,           \* the puts in flight, by task and operator
    heard,          \* ghost: by operator, the age of its latest heartbeat or registration
    shared          \* ghost: two puts had the temporary file in hand at once

registryVars == <<file, temporary, puts, heard, shared>>

-----------------------------------------------------------------------------
(* Records *)

Ages == 0 .. Timeout + 1

Rates == [bad : 0 .. Window, of : 0 .. Window]

Statuses == {"ONLINE", "OFFLINE", "UNHEALTHY"}

Records == [status : Statuses, funded : BOOLEAN,
            beat : Ages, rate : Rates, history : SeqOf(BOOLEAN, Window)]

FailureRate(outcomes) ==
    [bad |-> Cardinality({i \in DOMAIN outcomes : ~outcomes[i]}), of |-> Len(outcomes)]

\* maximumFailureRate is one half.
TooHigh(rate) == 2 * rate.bad > rate.of

Unhealthy(record) ==
    /\ record.status # "OFFLINE"
    /\ ~record.funded \/ record.beat > Timeout \/ TooHigh(record.rate)

\* The rate that was decided on is stored.
AssessKeepingRate(record) ==
    [record EXCEPT !.status = IF Unhealthy(record) THEN "UNHEALTHY"
                              ELSE IF @ = "UNHEALTHY" THEN "ONLINE" ELSE @]

\* assess(): the status follows from the rate in the record, and the rate that
\* is stored from its history.
Assess(record) ==
    [AssessKeepingRate(record) EXCEPT !.rate = FailureRate(record.history)]

Beaten(record, funds) ==
    Assess([record EXCEPT !.status = "ONLINE", !.funded = funds, !.beat = 0])

\* The window is never cut.
WithOutcomeUncut(record, successful) ==
    LET outcomes == Append(record.history, successful)
    IN  Assess([record EXCEPT !.rate = FailureRate(outcomes), !.history = outcomes])

\* recordOutcome(): the rate is of one outcome more than the window keeps.
WithOutcome(record, successful) ==
    LET outcomes == Append(record.history, successful)
    IN  Assess([record EXCEPT
                    !.rate = FailureRate(outcomes),
                    !.history = IF Len(outcomes) > Window THEN Tail(outcomes) ELSE outcomes])

-----------------------------------------------------------------------------
(* Files and puts *)

Contents == UNION {[ops -> Records] : ops \in SUBSET Operators}

ASSUME RegistryAssumption ==
    /\ Chosen \subseteq {"ONLINE", "OFFLINE", "UNHEALTHY"}
    /\ Self \in Operators /\ Timer \notin Requests
    /\ Reports \in [Operators -> (SUBSET BOOLEAN) \ {{}}]
    /\ Timeout \in Nat \ {0} /\ Window \in Nat \ {0}
    /\ Faults \subseteq {"crash", "disk"}
    /\ Cardinality({Empty, Garbage, Absent}) = 3
    /\ {Empty, Garbage, Absent} \cap Contents = {}

Readable == file \notin {Empty, Garbage}

Tasks == {Timer} \cup Requests

NewPut(record) == [stage |-> "read", record |-> record, seen |-> Absent, on |-> "temporary"]

Running(t) == \E p \in DOMAIN puts : p[1] = t

\* The puts that have the temporary file, or its name, in hand.
Writing == {p \in DOMAIN puts : puts[p].stage \in {"write", "rename"}}

Without(p) == Restrict(puts, DOMAIN puts \ {p})

Puts == [stage : {"read", "open", "write", "rename"}, record : Records,
         seen : Contents \cup {Absent}, on : {"temporary", "registry", "unlinked"}]

\* Every record keeps at most Window outcomes, and every heartbeat, rate and
\* history stays in range, whichever updates of recordOutcome() and
\* recordHeartbeat() overwrite one another.
TypeOK ==
    /\ file \in Contents \cup {Empty, Garbage}
    /\ temporary \in Contents \cup {Empty, Garbage, Absent}
    /\ DOMAIN puts \subseteq Tasks \X Operators /\ puts \in [DOMAIN puts -> Puts]
    /\ heard \in [Operators -> Ages] /\ shared \in BOOLEAN

Registered(status, funds) ==
    [status |-> status, funded |-> funds, beat |-> 0,
     rate |-> FailureRate(<<>>), history |-> <<>>]

NoRecord == Registered("OFFLINE", TRUE)

RegistryInit ==
    /\ file = [o \in {Self} |-> Registered("OFFLINE", TRUE)]
    /\ temporary = Absent /\ puts = <<>>
    /\ heard = [o \in Operators |-> 0] /\ shared = FALSE

\* The process ends; the next one has another name for its temporary file.
Exit == puts' = <<>> /\ temporary' = Absent

\* Nobody catches the rejection of the health poll, which ends the process.
\* The other callers answer with an error.
Throw(p) ==
    IF p[1] = Timer THEN Exit ELSE puts' = Without(p) /\ UNCHANGED temporary

-----------------------------------------------------------------------------
(* The callers: each reads the file and starts its puts *)

Start(t, records) ==
    /\ Cardinality(DOMAIN puts) + Cardinality(DOMAIN records) <= MaxPuts
    /\ puts' = [p \in DOMAIN puts \cup {<<t, o>> : o \in DOMAIN records} |->
                  IF p \in DOMAIN puts THEN puts[p] ELSE NewPut(records[p[2]])]

Listed == IF Readable THEN DOMAIN file ELSE {}

Changed(ops) == {o \in ops : Assess(file[o]).status # file[o].status}

\* list(), of the timer and of GET /v1/operators, and get() of one operator.
ListOperators(t, ops) ==
    /\ ~Running(t)
    /\ IF Readable THEN /\ Changed(ops) # {}
                        /\ Start(t, [o \in Changed(ops) |-> Assess(file[o])])
                        /\ UNCHANGED temporary
       ELSE t = Timer /\ Exit
    /\ UNCHANGED <<file, heard, shared>>

Poll == ListOperators(Timer, Listed)

GetOperators(t) ==
    \/ ListOperators(t, Listed)
    \/ \E o \in Listed : ListOperators(t, {o})

\* register() refuses an operator that the file lists.
Register(t, o) ==
    /\ ~Running(t) /\ Readable /\ o \notin Listed
    /\ heard' = [heard EXCEPT ![o] = 0]
    /\ \E status \in Chosen, funds \in Reports[o] :
          Start(t, [x \in {o} |-> Registered(status, funds)])
    /\ UNCHANGED <<file, temporary, shared>>

\* A heartbeat that reads an unreadable file, or one without the operator, is
\* answered with an error.
Heartbeat(t, o) ==
    /\ ~Running(t) /\ o \in Listed
    /\ heard' = [heard EXCEPT ![o] = 0]
    /\ \E funds \in Reports[o] : Start(t, [x \in {o} |-> Beaten(file[o], funds)])
    /\ UNCHANGED <<file, temporary, shared>>

\* recordSuccess() and recordFailure() of a sponsorship.
RecordOutcome(t) ==
    /\ ~Running(t) /\ Self \in Listed
    /\ \E successful \in BOOLEAN :
          Start(t, [x \in {Self} |-> WithOutcome(file[Self], successful)])
    /\ UNCHANGED <<file, temporary, heard, shared>>

-----------------------------------------------------------------------------
(* put() *)

\* The entries of the others; the put's own is replaced.
PutRead(p) ==
    /\ puts[p].stage = "read"
    /\ IF Readable THEN /\ puts' = [puts EXCEPT ![p].stage = "open",
                                         ![p].seen = Restrict(file, Listed \ {p[2]})]
                        /\ UNCHANGED temporary
       ELSE Throw(p)
    /\ UNCHANGED <<file, heard, shared>>

\* The registry itself is written.
PutOpenInPlace(p) ==
    /\ puts[p].stage = "open"
    /\ file' = Empty
    /\ puts' = [puts EXCEPT ![p].stage = "write", ![p].on = "registry"]
    /\ shared' = (shared \/ Writing # {})
    /\ UNCHANGED <<temporary, heard>>

\* writeFile opens and truncates the file first.
PutOpen(p) ==
    /\ puts[p].stage = "open"
    /\ temporary' = Empty
    /\ puts' = [puts EXCEPT ![p].stage = "write", ![p].on = "temporary"]
    /\ shared' = (shared \/ Writing # {})
    /\ UNCHANGED <<file, heard>>

\* What a file holds after content was written to it from the start.
Overwritten(old, content) ==
    IF old \in {Empty, content} THEN {content} ELSE {content, Garbage}

\* The whole registry, as the put makes it out of what it has seen.
Content(p) == [o \in {p[2]} \cup DOMAIN puts[p].seen |->
                  IF o = p[2] THEN puts[p].record ELSE puts[p].seen[o]]

PutWrite(p) ==
    LET content == Content(p) IN
    /\ puts[p].stage = "write"
    /\ puts' = [puts EXCEPT ![p].stage = "rename", ![p].seen = Absent, ![p].record = NoRecord]
    /\ temporary' \in IF puts[p].on = "temporary" THEN Overwritten(temporary, content)
                      ELSE {temporary}
    /\ file' \in IF puts[p].on = "registry" THEN Overwritten(file, content) ELSE {file}
    /\ UNCHANGED <<heard, shared>>

FailWrite(p) ==
    /\ "disk" \in Faults
    /\ puts[p].stage = "write"
    /\ Throw(p)
    /\ UNCHANGED <<file, heard, shared>>

\* Whoever has the temporary file open now has the registry open.
Renamed == [temporary |-> "registry", registry |-> "unlinked", unlinked |-> "unlinked"]

PutRename(p) ==
    /\ puts[p].stage = "rename"
    /\ IF temporary = Absent THEN Throw(p) /\ UNCHANGED file
       ELSE /\ file' = temporary /\ temporary' = Absent
            /\ puts' = [x \in DOMAIN Without(p) |->
                           IF puts[x].stage = "write" THEN [puts[x] EXCEPT !.on = Renamed[@]]
                           ELSE puts[x]]
    /\ UNCHANGED <<heard, shared>>

-----------------------------------------------------------------------------
Older(age) == IF age > Timeout THEN age ELSE age + 1

HeartbeatsAge ==
    /\ puts = <<>> /\ Readable
    /\ file' = [o \in Listed |-> [file[o] EXCEPT !.beat = Older(@)]]
    /\ heard' = [o \in Operators |-> Older(heard[o])]
    /\ temporary' = IF temporary = Absent THEN Absent ELSE Garbage
    /\ UNCHANGED <<puts, shared>>

Crash ==
    /\ "crash" \in Faults
    /\ Exit
    /\ UNCHANGED <<file, heard, shared>>

RegistryNext ==
    \/ Poll \/ HeartbeatsAge \/ Crash
    \/ \E t \in Requests :
          \/ GetOperators(t) \/ RecordOutcome(t)
          \/ \E o \in Operators : Register(t, o) \/ Heartbeat(t, o)
    \/ \E p \in DOMAIN puts :
          PutRead(p) \/ PutOpen(p) \/ PutWrite(p) \/ FailWrite(p) \/ PutRename(p)

RegistrySpec == RegistryInit /\ [][RegistryNext]_registryVars

-----------------------------------------------------------------------------
\* As long as no two puts had the temporary file in hand at once, the registry
\* can be parsed at every moment, also after a crash or a failed write in the
\* middle of a put: the replacement write of JsonOperatorRegistryStore.put().
FileReadable == ~shared => Readable

ListedOnline == {o \in Listed : Assess(file[o]).status = "ONLINE"}

\* An operator that list() shows as ONLINE is funded, sent a heartbeat within the
\* timeout, and keeps the failure rate over the outcomes in its record, also when
\* heartbeats, outcomes and listings overwrote each other's records: no update
\* that is lost makes a stale operator look alive.
ListingHonest ==
    \A o \in ListedOnline :
        /\ file[o].funded /\ heard[o] <= Timeout
        /\ ~TooHigh(FailureRate(file[o].history))

=============================================================================
