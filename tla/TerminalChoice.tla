--------------------------- MODULE TerminalChoice ---------------------------
(***************************************************************************)
(* Where a command runs: TerminalResolver keeps a stack of the terminals   *)
(* the user focused and picks a profile (a silent subprocess, the user's   *)
(* own terminal, a new window, or a question to the user); the executor    *)
(* checks the choice and the shell tool carries it out, while windows come *)
(* and go.                                                                 *)
(***************************************************************************)
EXTENDS Integers, Sequences, FiniteSets, Functions

CONSTANTS
    Window,       \* terminal windows of the desktop
    OwnWindow,    \* the one Operonix itself runs in
    StackDepth,   \* maxlen of _focus_stack
    MaxChanges    \* bound: times the desktop changes while a command is placed

ASSUME WindowAssumption ==
    OwnWindow \in Window /\ StackDepth \in Nat \ {0} /\ MaxChanges \in Nat

VARIABLES
    listed,    \* terminal windows, as wmctrl lists them
    pts,       \* windows whose pseudo-terminal is found
    writable,  \* and may be written to
    recent,    \* _focus_stack, the latest first
    near,      \* tenths by which a window's directory matches the task's
    hint,      \* effective profile hint of the command
    place,     \* where the placing of the command stands
    target,    \* the profile chosen
    effects,   \* where the command was run
    outcome,   \* what the tool returns
    changes    \* times the desktop changed

terminalVars == <<listed, pts, writable, recent, near, hint, place, target,
                  effects, outcome, changes>>

Ghost == [profile |-> "ghost", window |-> OwnWindow, candidates |-> {}]
Lab == [profile |-> "lab", window |-> OwnWindow, candidates |-> {}]
Bridge(w) == [profile |-> "bridge", window |-> w, candidates |-> {}]
Ambiguous(ws) == [profile |-> "ambiguous", window |-> OwnWindow, candidates |-> ws]

-----------------------------------------------------------------------------
(* core/terminal_resolver.py *)

\* _list_terminals: the window of Operonix itself is left out.
Terminals == Range(listed) \ {OwnWindow}

\* The place of window w in order, where it comes first.
PlaceIn(order, w) ==
    CHOOSE k \in DOMAIN order : order[k] = w /\ \A i \in 1 .. k - 1 : order[i] # w

\* _cwd_score and the recency bonus, in thousandths of the total.
Recency(w) ==
    LET loss == 45 * (PlaceIn(recent, w) - 1)
    IN IF w \notin Range(recent) \/ loss > 300 THEN 0 ELSE 300 - loss

Score(w) == 70 * near[w] + Recency(w)

\* A stable sort by score, the highest first, puts v before w.
RanksHigher(v, w) ==
    \/ Score(v) > Score(w)
    \/ Score(v) = Score(w) /\ PlaceIn(listed, v) < PlaceIn(listed, w)

\* What the sort puts first; nothing where there is nothing to sort.
BestOf(ws) == {w \in ws : \A v \in ws \ {w} : RanksHigher(w, v)}

TopGroup == {w \in Terminals : \A best \in BestOf(Terminals) :
                Score(best) > 0 /\ Score(best) - Score(w) < 50}

\* The profile the resolver returns, as a set of one.
Resolved ==
    LET reachable == Terminals \intersect pts
        ties == TopGroup \intersect pts
        latest == {w \in reachable : recent # << >> /\ w = Head(recent)}
    IN IF hint = "ghost" THEN {Ghost}
       ELSE IF hint = "lab" THEN {Lab}
       ELSE IF Terminals = {} THEN {Ghost}
       ELSE IF latest # {} THEN {Bridge(w) : w \in latest}
       ELSE IF hint = "bridge" /\ (\E v, w \in ties : v # w) THEN {Ambiguous(ties)}
       ELSE IF reachable # {} THEN {Bridge(w) : w \in BestOf(reachable)}
       ELSE IF hint = "bridge" THEN {Lab} ELSE {Ghost}

\* The focus stack with w on top, what falls off its end forgotten.
Pushed(w) ==
    [k \in 1 .. IF Len(recent) < StackDepth THEN Len(recent) + 1 ELSE StackDepth |->
        IF k = 1 THEN w ELSE recent[k - 1]]

\* _update_focus_stack_from_zorder, every half second.
PollFocus ==
    /\ \E w \in Terminals :
          /\ \A v \in Terminals : PlaceIn(listed, w) <= PlaceIn(listed, v)
          /\ recent # << >> => Head(recent) # w
          /\ recent' = Pushed(w)
    /\ UNCHANGED <<listed, pts, writable, near, hint, place, target, effects,
                   outcome, changes>>

-----------------------------------------------------------------------------
TerminalInit ==
    /\ \E n \in 0 .. Cardinality(Window) : listed \in Injection(1 .. n, Window)
    /\ pts \in SUBSET Range(listed) /\ writable \in SUBSET pts
    /\ recent = << >>
    /\ near \in [Window -> {0, 3, 10}]
    /\ hint \in {"none", "ghost", "bridge", "lab"}
    /\ place = "resolve" /\ target = Ghost
    /\ effects = << >> /\ outcome = "none" /\ changes = 0

\* The windows without the one at place k; with w, from that place or new, on top.
Without(k) == [i \in 1 .. Len(listed) - 1 |-> IF i < k THEN listed[i] ELSE listed[i + 1]]
Raised(w, k) ==
    [i \in 1 .. IF k > Len(listed) THEN k ELSE Len(listed) |->
        IF i = 1 THEN w ELSE IF i <= k THEN listed[i - 1] ELSE listed[i]]

\* A window is opened, or raised, and its pseudo-terminal may be found.
Opens ==
    /\ \/ \E k \in DOMAIN listed : listed' = Raised(listed[k], k)
       \/ \E w \in Window \ Range(listed) : listed' = Raised(w, Len(listed) + 1)
    /\ pts' \in {pts, pts \union {listed'[1]}}
    /\ UNCHANGED writable

Closes ==
    \E k \in DOMAIN listed :
        /\ listed' = Without(k)
        /\ pts' = pts \ {listed[k]} /\ writable' = writable \ {listed[k]}

\* Its shell opens up or closes to writing.
TurnsWritable ==
    \E w \in pts :
        /\ writable' = IF w \in writable THEN writable \ {w} ELSE writable \union {w}
        /\ UNCHANGED <<listed, pts>>

DesktopChanges ==
    /\ changes < MaxChanges /\ place # "over"
    /\ changes' = changes + 1
    /\ Opens \/ Closes \/ TurnsWritable
    /\ UNCHANGED <<recent, near, hint, place, target, effects, outcome>>

\* _resolve_and_inject_profile, in a thread of its own.
ResolveProfile ==
    /\ place = "resolve"
    /\ \E found \in Resolved :
          /\ target' = found
          /\ place' = CASE found.profile = "bridge"    -> "preflight"
                        [] found.profile = "ambiguous" -> "ask"
                        [] OTHER                       -> "run"
    /\ UNCHANGED <<listed, pts, writable, recent, near, hint, effects, outcome, changes>>

\* _check_bridge_permission, in another: a terminal that is gone or closed to
\* writing becomes a silent subprocess.
Preflight ==
    /\ place = "preflight"
    /\ target' = IF target.window \in writable THEN target ELSE Ghost
    /\ place' = "run"
    /\ UNCHANGED <<listed, pts, writable, recent, near, hint, effects, outcome, changes>>

Over(how) == place' = "over" /\ outcome' = how

\* The user has a minute to choose; what is chosen is not checked again.
AskUser ==
    /\ place = "ask"
    /\ \/ /\ \E w \in target.candidates : target' = Bridge(w)
          /\ place' = "run" /\ UNCHANGED outcome
       \/ Over("failed") /\ UNCHANGED target
    /\ UNCHANGED <<listed, pts, writable, recent, near, hint, effects, changes>>

RunsIn(p, w) == effects' = Append(effects, [profile |-> p, window |-> w])

\* tools/shell_tool.py
ExecuteGhost ==
    /\ RunsIn("ghost", OwnWindow)
    /\ Over("done") \/ Over("failed")

\* Mutant: a write that fails half way is followed by the fallback.
ExecuteBridgeTwice ==
    \/ RunsIn("bridge", target.window) /\ Over("done")
    \/ /\ effects' = effects \o <<[profile |-> "bridge", window |-> target.window],
                                  [profile |-> "ghost", window |-> OwnWindow]>>
       /\ Over("done")

ExecuteBridge ==
    IF target.window \in writable
    THEN \/ RunsIn("bridge", target.window) /\ Over("done")
         \/ Over("failed") /\ UNCHANGED effects
    ELSE ExecuteGhost

ExecuteLab ==
    \/ RunsIn("lab", OwnWindow) /\ Over("done")
    \/ ExecuteGhost
    \/ Over("failed") /\ UNCHANGED effects

DispatchWithProfile ==
    /\ place = "run"
    /\ CASE target.profile = "bridge" -> ExecuteBridge
         [] target.profile = "lab"    -> ExecuteLab
         [] OTHER                     -> ExecuteGhost
    /\ UNCHANGED <<listed, pts, writable, recent, near, hint, target, changes>>

Placing == ResolveProfile \/ Preflight \/ AskUser \/ DispatchWithProfile

TerminalNext == DesktopChanges \/ PollFocus \/ Placing

TerminalSpec ==
    /\ TerminalInit /\ [][TerminalNext]_terminalVars
    /\ WF_terminalVars(Placing)

-----------------------------------------------------------------------------
(* Type correctness of the desktop and of a command being placed. *)
TerminalTypeOK ==
    /\ listed \in Seq(Window) /\ IsInjective(listed)
    /\ writable \subseteq pts /\ pts \subseteq Range(listed)
    /\ recent \in Seq(Window) /\ Len(recent) <= StackDepth
    /\ near \in [Window -> 0 .. 10] /\ hint \in {"none", "ghost", "bridge", "lab"}
    /\ place \in {"resolve", "preflight", "ask", "run", "over"}
    /\ target.profile \in {"ghost", "bridge", "lab", "ambiguous"}
    /\ target.window \in Window /\ target.candidates \subseteq Window
    /\ effects \in Seq([profile : {"ghost", "bridge", "lab"}, window : Window])
    /\ outcome \in {"none", "done", "failed"}
    /\ changes \in 0 .. MaxChanges

(* Whatever happens to windows between the choice, the check and the write, a  *)
(* command runs in one place at most (three of the profiles fall back on the   *)
(* silent subprocess), is never reported done without having run, and is never *)
(* typed into the terminal Operonix itself runs in, though that window may be  *)
(* the only one, the nearest one or the topmost.                               *)
CommandRunsOnce ==
    /\ Len(effects) <= 1
    /\ outcome = "done" => effects # << >>
    /\ \A k \in DOMAIN effects : effects[k].profile = "bridge" => effects[k].window # OwnWindow
=============================================================================
