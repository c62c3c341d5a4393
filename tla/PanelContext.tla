---------------------------- MODULE PanelContext ----------------------------
(***************************************************************************)
(* Which window a query typed into the panel refers to.  Two loops of the  *)
(* window detector (context/window_detector.py) follow the focus and keep  *)
(* the last snapshot and the last real context; the thread of the hotkey   *)
(* takes a snapshot of its own (panel/hotkey_listener.py); the panel       *)
(* chooses when a query is submitted (panel/panel_controller.py), and the  *)
(* detector serves the choice to the task, on the bus, later.              *)
(*                                                                         *)
(* Windows are told apart by their titles, as the code does.  The panel    *)
(* gives its window no title (Qt takes the program's name), so it is known *)
(* by its process alone; a page of the dashboard is known by its title.    *)
(* xdotool is asked for the title and then for the process of the window in *)
(* focus, which may be another one by then.  The two readings are one step  *)
(* in which the focus may move: the loop does nothing else between them.    *)
(***************************************************************************)
EXTENDS Naturals

CONSTANTS
    Screen,      \* the windows
    PanelWindow, \* the panel's, of the agent's process
    Titled,      \* windows whose title names the agent
    Unknown,     \* the title of a window that could not be asked for its title
    NoScreen,    \* None
    Query,       \* tasks, typed or spoken
    MaxFocus,    \* bound: how often the focus moves
    MaxPresses,  \* bound: how often the hotkey is pressed
    MaxUnread    \* bound: how often a title, or a process, cannot be had

ASSUME ScreenAssumption ==
    /\ PanelWindow \in Screen \ Titled /\ Titled \subseteq Screen
    /\ {Unknown, NoScreen} \cap Screen = {} /\ Unknown # NoScreen
    /\ {"idle", "waits", "asked"} \cap (Screen \union {Unknown, NoScreen}) = {}
ASSUME FocusAssumption == MaxFocus \in Nat /\ MaxPresses \in Nat /\ MaxUnread \in Nat

VARIABLES
    front,    \* the window that has the focus
    moves,     \* how often it has moved
    lines,     \* lines of xprop the focus loop has not read
    unread,    \* how often a title, or a process, could not be had
    lastTitle, \* last_title
    external,  \* _last_external_snapshot
    real,      \* _last_real_context
    pre,       \* pre_panel_context
    reading,   \* of each capture under way: the title it has read, or where it is
    whose,     \* of each capture: whose process it has read with the title
    toggles,   \* panel_toggle_requested, on the bus
    presses,   \* how often the hotkey was pressed
    query,     \* of each task: where it is, the context chosen for it and served
    blind,     \* history: was the panel opened or used with no real context known?
    misread    \* history: was the panel's title kept with no process, or another's?

focusVars  == <<front, moves, lines>>
panelVars  == <<focusVars, unread, lastTitle, external, real, pre, reading, whose, toggles,
                presses, query, blind, misread>>

\* The process read with a title: the agent's, or another or none.
ProcessOf(w) == IF w = PanelWindow THEN "agent" ELSE "other"

\* A snapshot: its title and process, and whether the loops took it (their task ids
\* are stale to the panel), a task did, or the hotkey.
Snapshot == [title : Screen \union {Unknown, NoScreen}, process : {"agent", "other"},
             by : {"watch", "task", "hotkey"}]
Absent   == [title |-> NoScreen, process |-> "other", by |-> "watch"]
Known(s) == s.title # NoScreen

Capturer == {"poll", "focus", "task", "mouse"}

\* The first snapshot, before there is a panel.
PanelInit ==
    /\ front \in Screen \ {PanelWindow} /\ moves = 0 /\ lines = 0
    /\ \/ front \in Titled /\ external = Absent
       \/ front \notin Titled /\ external = [Absent EXCEPT !.title = front]
       \/ MaxUnread > 0 /\ external = [Absent EXCEPT !.title = Unknown]
    /\ lastTitle = external.title
    /\ unread = IF lastTitle = Unknown THEN 1 ELSE 0
    /\ real = Absent /\ pre = Absent
    /\ reading = [c \in Capturer |-> "idle"]
    /\ whose = [c \in Capturer |-> "other"]
    /\ toggles = 0 /\ presses = 0
    /\ query = [q \in Query |-> [at |-> "none", chosen |-> Absent, served |-> NoScreen]]
    /\ blind = FALSE /\ misread = FALSE

-----------------------------------------------------------------------------
(* The window detector, in the loop of the bus. *)

MovesTo(w) ==
    /\ w # front /\ moves < MaxFocus
    /\ front' = w /\ moves' = moves + 1 /\ lines' = lines + 1

Focus(w) ==
    /\ MovesTo(w)
    /\ UNCHANGED <<unread, lastTitle, external, real, pre, reading, whose, toggles, presses,
                   query, blind, misread>>

\* The window that is left is the real context, and then the loop waits 80 ms.
FocusLine ==
    /\ lines > 0 /\ reading["focus"] = "idle"
    /\ lines' = lines - 1
    /\ real' = IF /\ Known(external) /\ external.title \notin Titled
                  /\ external.process # "agent"
               THEN external ELSE real
    /\ reading' = [reading EXCEPT !["focus"] = "waits"]
    /\ UNCHANGED <<unread, front, moves, lastTitle, external, pre, whose, toggles, presses,
                   query, blind, misread>>

\* xdotool names the window that has the focus, or fails.
Title(t) ==
    \/ t = front /\ UNCHANGED unread
    \/ t = Unknown /\ unread < MaxUnread /\ unread' = unread + 1

\* The title and then the process.  Where the title fails, so does the process; it
\* may fail alone, and the focus may move before it is read.
Reads(t, p) ==
    \/ /\ Title(t) /\ p = (IF t = Unknown THEN "other" ELSE ProcessOf(t))
       /\ UNCHANGED focusVars
    \/ /\ t = front /\ p = "other"
       /\ unread < MaxUnread /\ unread' = unread + 1
       /\ UNCHANGED focusVars
    \/ /\ t = front /\ \E w \in Screen : MovesTo(w) /\ p = ProcessOf(w)
       /\ UNCHANGED unread

\* What a capture keeps until its snapshot is complete.
KeepsRead(c, t, p) ==
    /\ lastTitle' = t
    /\ reading' = [reading EXCEPT ![c] = t]
    /\ whose' = [whose EXCEPT ![c] = p]
    /\ misread' = (misread \/ (t = PanelWindow /\ p = "other"))

Skips(c, t) == c # "task" /\ (t \in Titled \/ t = lastTitle)

\* From the title to the snapshot there are a classification and a directory to
\* wait for.
ReadTitle(c) ==
    /\ c # "mouse"
    /\ reading[c] = (CASE c = "poll" -> "idle" [] c = "focus" -> "waits" [] OTHER -> "asked")
    /\ \E t \in {front, Unknown}, p \in {"agent", "other"} :
         /\ Reads(t, p)
         /\ \/ /\ Skips(c, t)
               /\ reading' = [reading EXCEPT ![c] = "idle"]
               /\ UNCHANGED <<lastTitle, whose, misread, query>>
            \/ /\ c = "task" /\ t \in Titled
               /\ reading' = [reading EXCEPT ![c] = "idle"]
               /\ query' = [q \in Query |->
                              IF query[q].at # "capturing" THEN query[q]
                              ELSE [query[q] EXCEPT !.at = "served",
                                                    !.served = external.title]]
               /\ UNCHANGED <<lastTitle, whose, misread>>
            \/ /\ ~Skips(c, t) /\ t \notin Titled
               /\ KeepsRead(c, t, p)
               /\ UNCHANGED query
    /\ UNCHANGED <<external, real, pre, toggles, presses, blind>>

PolledReal(s) == IF s.process # "agent" /\ s.title # real.title THEN s ELSE real

Commit(c) ==
    /\ reading[c] \notin {"idle", "waits", "asked"}
    /\ LET s == [title |-> reading[c], process |-> whose[c],
                 by |-> IF c = "task" THEN "task" ELSE "watch"]
       IN /\ external' = s
          /\ real' = IF c = "poll" THEN PolledReal(s) ELSE real
          /\ query' = [q \in Query |->
                         IF c # "task" \/ query[q].at # "capturing" THEN query[q]
                         ELSE [query[q] EXCEPT !.at = "served", !.served = s.title]]
          /\ pre' = IF c = "mouse" THEN s ELSE pre
    /\ reading' = [reading EXCEPT ![c] = "idle"]
    /\ whose' = [whose EXCEPT ![c] = "other"]
    /\ UNCHANGED <<unread, focusVars, lastTitle, toggles, presses, blind, misread>>

-----------------------------------------------------------------------------
(* The hotkey, in a thread of its own. *)

\* Nobody looks at the process of what the hotkey took.
HotkeyTakes(t) ==
    /\ pre' = [title |-> t, process |-> "other", by |-> "hotkey"]
    /\ UNCHANGED external

\* The detector's own snapshot is marked, not a copy of it.
HotkeyTakesLast ==
    LET marked == [external EXCEPT !.by = "hotkey"]
    IN IF Known(external) THEN external' = marked /\ pre' = marked
       ELSE UNCHANGED <<external, pre>>

\* Where the title or the process cannot be had, the first window of the list of all
\* that is of another process; where there is no list, or the title is the agent's,
\* the last snapshot.
HotkeyPressed ==
    /\ presses < MaxPresses /\ presses' = presses + 1
    /\ toggles' = toggles + 1
    /\ \E t \in {front, Unknown} :
         /\ Title(t)
         /\ \/ t \in Screen \ Titled /\ HotkeyTakes(t)
            \/ t = Unknown /\ \E w \in Screen \ {PanelWindow} : HotkeyTakes(w)
            \/ t \in Titled \union {Unknown} /\ HotkeyTakesLast
    /\ UNCHANGED <<focusVars, lastTitle, real, reading, whose, query, blind, misread>>

-----------------------------------------------------------------------------
(* The panel. *)

\* The payload is an Event and no dict, so each toggle counts as one by mouse.
\* With nothing known a snapshot is taken, whose title is read at once, or, behind
\* an own title, the last one; what the hotkey took is kept only if it is there now.
OnToggle ==
    /\ toggles > 0 /\ reading["task"] = "idle" /\ reading["mouse"] = "idle"
    /\ toggles' = toggles - 1
    /\ blind' = (blind \/ ~Known(real))
    /\ \/ /\ pre.by = "hotkey"
          /\ UNCHANGED <<unread, focusVars, lastTitle, pre, reading, whose, misread>>
       \/ /\ pre.by # "hotkey" /\ Known(real) /\ pre' = real
          /\ UNCHANGED <<unread, focusVars, lastTitle, reading, whose, misread>>
       \/ /\ pre.by # "hotkey" /\ ~Known(real)
          /\ \E t \in {front, Unknown}, p \in {"agent", "other"} :
               /\ Reads(t, p)
               /\ \/ /\ t \in Titled
                     /\ pre' = IF Known(external) THEN external ELSE pre
                     /\ UNCHANGED <<lastTitle, reading, whose, misread>>
                  \/ t \notin Titled /\ KeepsRead("mouse", t, p) /\ UNCHANGED pre
    /\ UNCHANGED <<external, real, presses, query>>

\* Mutant: what the hotkey took is used, wherever the user has been since.
ChosenAlways ==
    CASE pre.by = "hotkey"          -> pre
      [] pre.by = "task"            -> pre
      [] OTHER                      -> real

Chosen ==
    CASE pre.by = "hotkey" /\ (~Known(real) \/ real.title = pre.title) -> pre
      [] pre.by = "task"                                               -> pre
      [] OTHER                                                         -> real

Submit(q) ==
    /\ query[q].at = "none" /\ front = PanelWindow
    /\ query' = [query EXCEPT ![q].at = "asked", ![q].chosen = Chosen]
    /\ blind' = (blind \/ ~Known(real))
    /\ UNCHANGED <<unread, focusVars, lastTitle, external, real, pre, reading, whose, toggles,
                   presses, misread>>

\* A spoken task brings no context.
Speak(q) ==
    /\ query[q].at = "none"
    /\ query' = [query EXCEPT ![q].at = "asked"]
    /\ UNCHANGED <<unread, focusVars, lastTitle, external, real, pre, reading, whose, toggles,
                   presses, blind, misread>>

\* The context in the request is served as it is, without a look at the windows.
AnswerContext(q) ==
    IF Known(query[q].chosen)
    THEN /\ query' = [query EXCEPT ![q].at = "served", ![q].served = query[q].chosen.title]
         /\ UNCHANGED reading
    ELSE /\ query' = [query EXCEPT ![q].at = "capturing"]
         /\ reading' = [reading EXCEPT !["task"] = "asked"]

\* request_context_snapshot: the bus waits for the capture.
Requested(q) ==
    /\ query[q].at = "asked" /\ reading["task"] = "idle"
    /\ AnswerContext(q)
    /\ UNCHANGED <<unread, focusVars, lastTitle, external, real, pre, whose, toggles, presses,
                   blind, misread>>

PanelNext ==
    \/ \E w \in Screen : Focus(w)
    \/ FocusLine \/ HotkeyPressed \/ OnToggle
    \/ \E c \in Capturer : ReadTitle(c) \/ Commit(c)
    \/ \E q \in Query : Submit(q) \/ Speak(q) \/ Requested(q)

PanelSpec == PanelInit /\ [][PanelNext]_panelVars
-----------------------------------------------------------------------------
(* Type correctness of the snapshots, the captures and the tasks. *)
PanelTypeOK ==
    /\ front \in Screen /\ unread \in 0..MaxUnread
    /\ lastTitle \in Screen \union {Unknown, NoScreen}
    /\ external \in Snapshot /\ real \in Snapshot /\ pre \in Snapshot
    /\ reading \in [Capturer -> Screen \union {Unknown, "idle", "waits", "asked"}]
    /\ whose \in [Capturer -> {"agent", "other"}]
    /\ query \in [Query -> [at : {"none", "asked", "capturing", "served"},
                            chosen : Snapshot,
                            served : Screen \union {Unknown, NoScreen}]]
    /\ blind \in BOOLEAN /\ misread \in BOOLEAN

(* Where a context of another program was known whenever the panel was opened   *)
(* and used, no query refers to a window that the agent's title gives away, and  *)
(* none to the panel itself unless a capture kept the panel's title without its   *)
(* process; the hotkey and the last snapshot do take the panel for a window of    *)
(* the user, and that alone is no reason.  What the panel chose is what the task   *)
(* gets, wherever the focus has moved between the two.                            *)
RefersToAnother ==
    \A q \in Query :
        /\ ~blind => /\ query[q].chosen.title \notin Titled
                     /\ query[q].chosen.title = PanelWindow => misread
        /\ query[q].at = "served" /\ Known(query[q].chosen) =>
               query[q].served = query[q].chosen.title
=============================================================================
