------------------------------ MODULE Desktop ------------------------------
(***************************************************************************)
(* The operator desktop: a page that watches one relay and one follower    *)
(* and switches two systemd units, the relay's system unit and the         *)
(* dashboard's user unit.  Commands that change units are calls which the  *)
(* main thread executes one after another; their answers, and those of     *)
(* the probes, arrive while the page handles other events.                 *)
(*                                                                         *)
(* A command is the sequence of changes it makes.  The first one that      *)
(* fails (a denied password, a full disk, systemctl) ends it with an error *)
(* and leaves the changes before it.                                       *)
(***************************************************************************)
EXTENDS Naturals, Sequences, SequencesExt

CONSTANTS
    Followers,      \* bound: the states the follower goes through
    Fundings,       \* bound: whether the sponsor's balance is, or may become, too low
    Clicks,         \* bound: handlers of clicks in hand at once
    Unknown         \* not asked yet

ASSUME DesktopAssumption ==
    /\ Followers \subseteq {"down", "syncing", "synced"} /\ Followers # {}
    /\ Fundings \subseteq BOOLEAN /\ Fundings # {}
    /\ "refresh" \notin Clicks

VARIABLES
    units,          \* by unit: whether its file is there and it starts by itself
    process,        \* the relay's process
    funded,         \* the sponsor has the minimum balance
    follower,       \* the Stacks follower
    view,           \* the view the page shows
    refresh,        \* stage of refresh()
    probes,         \* its responses so far, by endpoint
    clicks,         \* by handler of a click: the command it is about
    queue,          \* calls the main thread has not executed
    answers,        \* answers the page has not handled
    shown,          \* what render() and renderDiagnostics() last showed
    serviceState,   \* what the page knows of the units
    checked,        \* the autostart checkbox
    unseen          \* ghost: an install failed and no status was asked since

worldVars == <<units, process, funded, follower>>
shownVars == <<shown, serviceState, checked, unseen>>
pageVars == <<view, refresh, probes, clicks>>
desktopVars == <<worldVars, pageVars, queue, answers, shownVars>>

-----------------------------------------------------------------------------
(* The services *)

Units == {"relay", "dashboard"}

\* is-active: not of a process that died and that Restart=on-failure will start
\* again.  One that does not listen yet is one whose probes are lost.
Active == process = "serving"

Autostart == \A u \in Units : units[u].enabled

\* status()
Status == [units |-> units, active |-> Active]

Endpoints == {"live", "ready", "node"}

Unasked == [e \in Endpoints |-> Unknown]

\* A connection that fails, or a response that takes too long.
Lost == [ok |-> FALSE, status |-> Unknown, operator |-> Unknown]

\* What an endpoint answers, as far as the monitor looks at it.  The relay's
\* readiness is a status; it says nothing of the operator.
Response(e) ==
    CASE e = "node" /\ follower # "down" ->
            [ok |-> TRUE, status |-> follower, operator |-> Unknown]
      [] e = "live" /\ process = "serving" ->
            [ok |-> TRUE, status |-> "ok", operator |-> Unknown]
      [] e = "ready" /\ process = "serving" ->
            [ok |-> funded, status |-> IF funded THEN "ready" ELSE "not_ready",
             operator |-> Unknown]
      [] OTHER -> Lost

\* What each endpoint is expected to say.
Expected(e, r) ==
    CASE e = "live"  -> r.status = "ok"
      [] e = "ready" -> r.status = "ready" /\ r.operator = "healthy"
      [] e = "node"  -> TRUE

\* validate_response(): another response is no better than none.
Valid(e, r) == r.ok /\ Expected(e, r)

\* snapshot(): what the page is given for three responses.
Snapshot(responses) ==
    [live   |-> Valid("live", responses["live"]),
     ready  |-> Valid("ready", responses["ready"]),
     node   |-> Valid("node", responses["node"]),
     synced |-> responses["node"].status = "synced"]

Overall(s) ==
    IF s.live /\ s.ready /\ s.node /\ s.synced THEN "healthy"
    ELSE IF s.live \/ s.node THEN "degraded" ELSE "offline"

\* diagnosticChecks(), of the required checks and synchronization.
Diagnostics(s) ==
    [liveness |-> IF s.live THEN "pass" ELSE "fail",
     readiness |-> IF s.ready THEN "pass" ELSE "fail",
     follower |-> IF s.node THEN "pass" ELSE "fail",
     synchronization |-> IF s.node /\ s.synced THEN "pass" ELSE "warn"]

Healthy == process = "serving" /\ funded /\ follower = "synced"

-----------------------------------------------------------------------------
(* Commands *)

Set(u, field, to) == [unit |-> u, field |-> field, to |-> to]

Changes(command) ==
    CASE command = "install" ->
            <<Set("relay", "installed", TRUE), Set("relay", "enabled", TRUE),
              Set("dashboard", "installed", TRUE), Set("dashboard", "enabled", TRUE)>>
      [] command \in {"enable", "disable"} ->
            <<Set("relay", "enabled", command = "enable"),
              Set("dashboard", "enabled", command = "enable")>>
      [] OTHER -> <<>>

\* The page may ask for every command; the relay's unit has to be there.
Permitted(command) == command \in {"install", "status"} \/ units["relay"].installed

After(command, n) ==
    FoldLeft(LAMBDA us, c : [us EXCEPT ![c.unit][c.field] = c.to],
             units, SubSeq(Changes(command), 1, n))

ProcessAfter(command) ==
    CASE command = "start" -> "serving"
      [] command = "stop"  -> "stopped"
      [] OTHER             -> process

\* The main thread executes the next call.
Execute ==
    LET call == Head(queue)
        all == Len(Changes(call.command))
        Answer(ok, state) == Append(answers, [by |-> call.by, command |-> call.command,
                                              ok |-> ok, state |-> state])
    IN
    /\ queue # <<>> /\ queue' = Tail(queue)
    /\ \/ /\ Permitted(call.command)
          /\ units' = After(call.command, all)
          /\ process' = ProcessAfter(call.command)
          /\ answers' = Answer(TRUE, Status')
       \/ /\ call.command # "status"
          /\ \E n \in 0 .. all :
                /\ n > 0 => Permitted(call.command) /\ n < all
                /\ units' = After(call.command, n)
          /\ answers' = Answer(FALSE, Unknown)
          /\ UNCHANGED process
    /\ UNCHANGED <<funded, follower, pageVars, shownVars>>

Call(by, command) == queue' = Append(queue, [by |-> by, command |-> command])

-----------------------------------------------------------------------------
(* The page *)

\* selectView(); the refresh it ends with is Refresh.
SelectView ==
    /\ view' \in {"overview", "activity"} \ {view}
    /\ UNCHANGED <<worldVars, refresh, probes, clicks, queue, answers, shownVars>>

\* refresh(), of the timer and of the buttons; the activity view has another.
Refresh ==
    /\ view = "overview" /\ refresh = "idle"
    /\ refresh' = "probing"
    /\ UNCHANGED <<worldVars, view, probes, clicks, queue, answers, shownVars>>

Respond(e, response) ==
    /\ refresh = "probing" /\ probes[e] = Unknown
    /\ probes' = [probes EXCEPT ![e] = response]
    /\ UNCHANGED <<worldVars, view, refresh, clicks, queue, answers, shownVars>>

\* The services are asked at any moment of the refresh, and in any order.
Probe(e) == Respond(e, Response(e))

LoseProbe(e) == Respond(e, Lost)

Shown(s) == [overall |-> Overall(s), checks |-> Diagnostics(s)]

\* render(), renderDiagnostics(), and the call of refreshServices().
Render ==
    /\ refresh = "probing" /\ \A e \in Endpoints : probes[e] # Unknown
    /\ shown' = Shown(Snapshot(probes))
    /\ refresh' = "status"
    /\ Call("refresh", "status")
    /\ UNCHANGED <<worldVars, view, probes, clicks, answers, serviceState, checked, unseen>>

\* A click on Start or Stop relay, on the checkbox, or in the install dialog.
Click(c) ==
    /\ clicks[c] = "none"
    /\ \E command \in {"install", "enable", "disable", "start", "stop"} :
          /\ clicks' = [clicks EXCEPT ![c] = command]
          /\ Call(c, command)
          /\ command \in {"enable", "disable"} =>
                /\ serviceState # Unknown
                /\ \A u \in Units : serviceState.units[u].installed
                /\ checked = (command = "disable")
          /\ command \in {"start", "stop"} =>
                /\ serviceState # Unknown /\ serviceState.units["relay"].installed
                /\ serviceState.active = (command = "stop")
          /\ checked' = IF command \in {"enable", "disable"} THEN ~checked ELSE checked
    /\ UNCHANGED <<worldVars, view, refresh, probes, answers, shown, serviceState, unseen>>

\* No command that failed is followed by a look at the units.
AsksStatusOnSuccess(answer) == answer.ok

\* Whether the handler of a click goes on with refreshServices().
AsksStatus(answer) == answer.ok \/ answer.command \in {"enable", "disable"}

\* Only a refresh that throws gives the flag back.
RefreshingHeld(answer) == refresh

RefreshAfter(answer) == IF answer.by = "refresh" THEN "idle" ELSE refresh

\* The page handles the answers in the order of the calls.
HandleStatus ==
    LET answer == Head(answers) IN
    /\ answers # <<>> /\ answers' = Tail(answers)
    /\ answer.command = "status"
    /\ serviceState' = answer.state
    /\ checked' = \A u \in Units : answer.state.units[u].enabled
    /\ unseen' = FALSE
    /\ refresh' = RefreshAfter(answer)
    /\ probes' = IF answer.by = "refresh" THEN Unasked ELSE probes
    /\ clicks' = [c \in Clicks |-> IF c = answer.by THEN "none" ELSE clicks[c]]
    /\ UNCHANGED <<worldVars, view, queue, shown>>

\* The click handlers, from the answer of their command on.
HandleCommand ==
    LET answer == Head(answers)
        c == answer.by
    IN
    /\ answers # <<>> /\ answers' = Tail(answers)
    /\ answer.command # "status"
    /\ serviceState' = IF answer.ok /\ answer.command = "install" THEN answer.state
                       ELSE serviceState
    /\ IF AsksStatus(answer) THEN Call(c, "status") /\ UNCHANGED <<clicks, unseen>>
       ELSE /\ clicks' = [clicks EXCEPT ![c] = "none"]
            /\ unseen' = (unseen \/ answer.command = "install")
            /\ UNCHANGED queue
    /\ UNCHANGED <<worldVars, view, refresh, probes, shown, checked>>

-----------------------------------------------------------------------------
(* Around the page *)

\* The process dies, or is started again by systemd.
ProcessChanges ==
    /\ \/ process = "serving" /\ process' = "waiting"
       \/ process = "waiting" /\ process' = "serving"
    /\ UNCHANGED <<units, funded, follower, pageVars, queue, answers, shownVars>>

NetworkChanges ==
    /\ funded' \in Fundings /\ follower' \in Followers
    /\ UNCHANGED <<units, process, pageVars, queue, answers, shownVars>>

\* The units were installed before, or not; the page has just been opened.
DesktopInit ==
    /\ \E there \in BOOLEAN :
          /\ units = [u \in Units |-> [installed |-> there, enabled |-> there]]
          /\ process \in IF there THEN {"serving", "stopped"} ELSE {"stopped"}
    /\ funded \in Fundings /\ follower \in Followers
    /\ view = "overview" /\ refresh = "idle" /\ probes = Unasked
    /\ clicks = [c \in Clicks |-> "none"] /\ queue = <<>> /\ answers = <<>>
    /\ shown = Unknown /\ serviceState = Unknown /\ checked = FALSE /\ unseen = FALSE

\* What the desktop does once it is left alone.
OwnStep ==
    \/ Refresh \/ Render \/ Execute \/ HandleStatus \/ HandleCommand
    \/ \E e \in Endpoints : Probe(e)

DesktopNext ==
    \/ OwnStep \/ SelectView \/ ProcessChanges \/ NetworkChanges
    \/ \E e \in Endpoints : LoseProbe(e)
    \/ \E c \in Clicks : Click(c)

DesktopSpec == DesktopInit /\ [][DesktopNext]_desktopVars

\* The interval fires every 15 seconds, every probe ends, and neither the main
\* thread nor the web view keeps an event for ever.
FairSpec ==
    /\ DesktopSpec
    /\ WF_desktopVars(Refresh) /\ WF_desktopVars(Render)
    /\ WF_desktopVars(Execute) /\ WF_desktopVars(HandleStatus) /\ WF_desktopVars(HandleCommand)
    /\ \A e \in Endpoints : WF_desktopVars(Probe(e))

-----------------------------------------------------------------------------
\* Whenever no handler of a click is under way, the checkbox says what will
\* happen at the next start of the machine, however the commands of several
\* clicks and of a refresh overlapped and wherever they failed.  The exception
\* is an install that failed, after which the page does not look again.
BoxTellsTruth ==
    serviceState # Unknown /\ (\A c \in Clicks : clicks[c] = "none") /\ ~unseen
        => checked = Autostart

\* Left alone on the overview, the page comes to show the services as they are,
\* whatever was stale, lost or under way before: no refresh leaves the flag set
\* that keeps the next one from starting.
PageCatchesUp ==
    <>[][OwnStep]_desktopVars =>
        <>[](view = "overview" =>
                /\ serviceState = Status /\ checked = Autostart
                /\ shown = Shown(Snapshot([e \in Endpoints |-> Response(e)])))

\* A refresh whose three responses came from a healthy relay and a synchronized
\* follower shows the relay as ready: README.md:120, "The Rust/Tauri operator
\* desktop monitors relay readiness, sponsor balance".
HealthyShownHealthy ==
    refresh = "status" /\ (\A e \in Endpoints : probes[e].ok) /\ probes["node"].status = "synced"
        => shown.overall = "healthy"

=============================================================================
