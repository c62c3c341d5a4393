------------------------------ MODULE Dashboard ------------------------------
(***************************************************************************)
(* How a dashboard answers: the one dialog of each browser                 *)
(* (dashboard/frontend/app.js), the websocket manager in the loop of the   *)
(* API server (api/websocket.py), and the confirmation manager in the loop *)
(* of the bus.  An answer of the panel lacks the field the latter reads    *)
(* and has no effect here (PanelAnswerCounts in TaskPipeline).             *)
(***************************************************************************)
EXTENDS Naturals, Sequences, FiniteSets

CONSTANTS
    Browser,      \* browsers that have the dashboard open
    Held,         \* tasks for which confirmation is asked
    NoneHeld,     \* null
    MaxAsked,     \* bound: confirmation_required events in all
    MaxCuts       \* bound: connections cut, by the network or by the manager

ASSUME NullAssumption == /\ NoneHeld \notin Held
                         /\ {"none", "shutdown"} \cap Held = {}
ASSUME BoundsAssumption == MaxAsked \in Nat /\ MaxCuts \in Nat /\ IsFiniteSet(Browser)

VARIABLES
    dialog,     \* what each browser's dialog shows: a task, "shutdown" or nothing
    pendingId,  \* _pendingConfirmTaskId
    callback,   \* is _confirmCallback set?
    link,       \* of each browser: up, deaf (dropped by the manager), down
    wire,       \* questions on their way to each browser
    mail,       \* messages on their way to the server
    tracked,    \* _pending_confirmation_task_id
    clearing,   \* the server has published an answer and not cleared tracked yet
    answers,    \* user_response_received on the bus
    waiting,    \* pending_confirmations
    released,   \* tasks that were let go by an answer
    shutDown,   \* the shutdown was requested
    approved,   \* history: what was on the screen when somebody chose Allow
    astray,     \* history: tasks let go in place of one asked for before them
    askedAt,    \* history: the event by which each task was asked for last
    askedFor,   \* events so far
    cuts        \* cuts so far

dashboardVars == <<dialog, pendingId, callback, link, wire, mail, tracked, clearing, answers,
                   waiting, released, shutDown, approved, astray, askedAt, askedFor, cuts>>

browserVars == <<dialog, pendingId, callback>>
serverVars  == <<tracked, clearing>>
historyVars == <<approved, astray, askedAt, askedFor>>

DashboardInit ==
    /\ dialog = [b \in Browser |-> "none"]
    /\ pendingId = [b \in Browser |-> NoneHeld]
    /\ callback = [b \in Browser |-> FALSE]
    /\ link = [b \in Browser |-> "up"]
    /\ wire = [b \in Browser |-> << >>]
    /\ mail = << >> /\ tracked = NoneHeld /\ clearing = FALSE
    /\ answers = << >> /\ waiting = {} /\ released = {}
    /\ shutDown = FALSE /\ approved = {} /\ astray = {}
    /\ askedAt = [q \in Held |-> 0] /\ askedFor = 0 /\ cuts = 0

-----------------------------------------------------------------------------
(* The loop of the bus. *)

\* A connection to which sending fails is dropped, though it may still be open.
Broadcast(q) ==
    \E lost \in SUBSET {b \in Browser : link[b] = "up"} :
        /\ cuts + Cardinality(lost) <= MaxCuts /\ cuts' = cuts + Cardinality(lost)
        /\ link' = [b \in Browser |-> IF b \in lost THEN "deaf" ELSE link[b]]
        /\ wire' = [b \in Browser |-> IF link'[b] = "up" THEN Append(wire[b], q) ELSE wire[b]]

\* _track_confirmation.  Mutant: a task that is tracked already stays.
TrackFirst(q) == tracked' = IF tracked = NoneHeld THEN q ELSE tracked
Track(q) == tracked' = q

\* confirmation_required, by one gate or the other: the manager of confirmations
\* holds the task, the websocket manager notes and forwards it.
Asks(q) ==
    /\ askedFor < MaxAsked /\ askedFor' = askedFor + 1
    /\ askedAt' = [askedAt EXCEPT ![q] = askedFor']
    /\ waiting' = waiting \union {q}
    /\ Track(q)
    /\ Broadcast(q)
    /\ UNCHANGED <<browserVars, mail, clearing, answers, released, shutDown, approved, astray>>

\* handle_user_response: an answer for a task that is not held is ignored.
AnswerArrives ==
    /\ answers # << >>
    /\ answers' = Tail(answers)
    /\ LET a == Head(answers)
       IN /\ waiting' = waiting \ {a.id}
          /\ released' = IF a.allow /\ a.id \in waiting THEN released \union {a.id} ELSE released
    /\ UNCHANGED <<browserVars, link, wire, mail, serverVars, shutDown, historyVars, cuts>>

Expires(q) ==
    /\ q \in waiting
    /\ waiting' = waiting \ {q}
    /\ UNCHANGED <<browserVars, link, wire, mail, serverVars, answers, released, shutDown,
                   historyVars, cuts>>

-----------------------------------------------------------------------------
(* The browser. *)

\* A new dialog takes the place of the old one, and its time starts anew.
Show(b, what, withCallback) ==
    /\ dialog' = [dialog EXCEPT ![b] = what]
    /\ callback' = [callback EXCEPT ![b] = withCallback]

Receive(b) ==
    /\ wire[b] # << >>
    /\ wire' = [wire EXCEPT ![b] = Tail(@)]
    /\ pendingId' = [pendingId EXCEPT ![b] = Head(wire[b])]
    /\ Show(b, Head(wire[b]), FALSE)
    /\ UNCHANGED <<link, mail, serverVars, answers, waiting, released, shutDown, historyVars,
                   cuts>>

RequestShutdown(b) ==
    /\ ~shutDown /\ dialog[b] # "shutdown"
    /\ Show(b, "shutdown", TRUE)
    /\ UNCHANGED <<pendingId, link, wire, mail, serverVars, answers, waiting, released, shutDown,
                   historyVars, cuts>>

\* A click, the Escape key, or thirty seconds without either.  This dashboard sends
\* the id of the task; a client that follows the documented format sends none, nor
\* do the legacy callers of app.js.  A message is not sent where the socket is closed.
Respond(b, allow) ==
    /\ dialog[b] # "none"
    /\ dialog' = [dialog EXCEPT ![b] = "none"]
    /\ approved' = IF allow THEN approved \union {dialog[b]} ELSE approved
    /\ IF callback[b]
       THEN /\ callback' = [callback EXCEPT ![b] = FALSE]
            /\ shutDown' = (shutDown \/ allow)
            /\ UNCHANGED <<pendingId, mail>>
       ELSE /\ pendingId' = [pendingId EXCEPT ![b] = NoneHeld]
            /\ \E id \in {pendingId[b], NoneHeld} :
                 mail' = IF link[b] = "down" THEN mail
                         ELSE Append(mail, [id |-> id, shown |-> dialog[b], allow |-> allow])
            /\ UNCHANGED <<callback, shutDown>>
    /\ UNCHANGED <<link, wire, serverVars, answers, waiting, released, astray, askedAt,
                   askedFor, cuts>>

\* The page stays as it is; what was asked meanwhile is never shown.
Disconnect(b) ==
    /\ link[b] # "down" /\ cuts < MaxCuts /\ cuts' = cuts + 1
    /\ link' = [link EXCEPT ![b] = "down"]
    /\ wire' = [wire EXCEPT ![b] = << >>]
    /\ UNCHANGED <<browserVars, mail, serverVars, answers, waiting, released, shutDown,
                   historyVars>>

Connect(b) ==
    /\ link[b] = "down"
    /\ link' = [link EXCEPT ![b] = "up"]
    /\ UNCHANGED <<browserVars, wire, mail, serverVars, answers, waiting, released, shutDown,
                   historyVars, cuts>>

-----------------------------------------------------------------------------
(* The loop of the API server. *)

\* An answer without an id is taken for the task asked for last.
HandleMessage ==
    /\ mail # << >> /\ ~clearing
    /\ mail' = Tail(mail)
    /\ LET a  == Head(mail)
           id == IF a.id # NoneHeld THEN a.id ELSE tracked
       IN IF id = NoneHeld THEN UNCHANGED <<answers, clearing>>
          ELSE answers' = Append(answers, [id |-> id, allow |-> a.allow]) /\ clearing' = TRUE
    /\ astray' = LET a == Head(mail)
                 IN IF a.allow /\ a.id = NoneHeld /\ tracked # NoneHeld
                       /\ askedAt[a.shown] < askedAt[tracked]
                    THEN astray \union {tracked} ELSE astray
    /\ UNCHANGED <<browserVars, link, wire, tracked, waiting, released, shutDown, approved,
                   askedAt, askedFor, cuts>>

\* By now the bus may have another task to note, which is forgotten with the first.
ClearTracked ==
    /\ clearing
    /\ clearing' = FALSE /\ tracked' = NoneHeld
    /\ UNCHANGED <<browserVars, link, wire, mail, answers, waiting, released, shutDown,
                   historyVars, cuts>>

DashboardNext ==
    \/ \E q \in Held : Asks(q) \/ Expires(q)
    \/ \E b \in Browser : \/ Receive(b) \/ RequestShutdown(b) \/ Disconnect(b) \/ Connect(b)
                          \/ \E allow \in BOOLEAN : Respond(b, allow)
    \/ AnswerArrives \/ HandleMessage \/ ClearTracked

DashboardSpec == DashboardInit /\ [][DashboardNext]_dashboardVars
-----------------------------------------------------------------------------
Reply == [id : Held \union {NoneHeld}, allow : BOOLEAN]
SentAnswer == [id : Held \union {NoneHeld}, shown : Held, allow : BOOLEAN]

(* Type correctness of the dashboards and the server. *)
DashboardTypeOK ==
    /\ dialog \in [Browser -> Held \union {"none", "shutdown"}]
    /\ pendingId \in [Browser -> Held \union {NoneHeld}]
    /\ callback \in [Browser -> BOOLEAN]
    /\ link \in [Browser -> {"up", "deaf", "down"}]
    /\ wire \in [Browser -> Seq(Held)]
    /\ mail \in Seq(SentAnswer) /\ answers \in Seq(Reply)
    /\ tracked \in Held \union {NoneHeld} /\ clearing \in BOOLEAN
    /\ waiting \subseteq Held /\ released \subseteq Held
    /\ shutDown \in BOOLEAN /\ approved \subseteq Held \union {"shutdown"}
    /\ astray \subseteq Held /\ askedAt \in [Held -> 0..MaxAsked]
    /\ askedFor \in 0..MaxAsked /\ cuts \in 0..MaxCuts

(* What is let go, or shut down, was on the screen when somebody chose Allow:    *)
(* dialogs that replace each other, connections that come and go and questions   *)
(* asked twice turn no approval into that of another.  The exception is an        *)
(* answer that names no task: it can let go a task nobody saw, but only one that  *)
(* was asked for after the task it was meant for, never an older one.             *)
ApprovedOrOvertaken ==
    /\ released \subseteq approved \union astray
    /\ shutDown => "shutdown" \in approved
=============================================================================
