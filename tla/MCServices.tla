----------------------------- MODULE MCServices -----------------------------
(***************************************************************************)
(* Components that share no state with each other, checked side by side:   *)
(* a behaviour picks one of them, runs it from any of its initial states   *)
(* and lets the others rest in one of theirs.                              *)
(***************************************************************************)
EXTENDS StepExecutor, LegacyStep, InteractiveCommand, TerminalChoice, PluginLifecycle,
        Ownership, Timeouts, VoiceMode, Lifecycle, GapDetection, Learning, CandidateRouting,
        Dashboard, PanelContext

VARIABLE focus    \* the component that runs in this behaviour

mindVars == <<lifeVars, gapVars, learnVars, routingVars, dashboardVars, panelVars>>
deskVars == <<ownershipVars, timeoutVars, voiceVars, mindVars>>
serviceVars == <<focus, stepVars, legacyVars, commandVars, terminalVars, pluginVars,
                 deskVars>>

\* Values of constants: two spellings of one intent and another one, two methods,
\* plans of one step to four.
TidyForm == [p \in {"A", "a", "b"} |-> IF p = "A" THEN "a" ELSE p]
Methods2 == <<"plugin", "ui">>
Lengths  == [p \in 1..4 |-> p]

-----------------------------------------------------------------------------
(* Where a component rests, and where it starts. *)

OneIntent == [plugin |-> TRUE, api |-> FALSE, risk |-> "NONE", app |-> FALSE,
              uiPrefix |-> FALSE, safeMode |-> TRUE]

StepRests == StepInit /\ ~graph /\ ~llm /\ intent = OneIntent

\* In graph mode nothing reads the intent.  In the other mode a plugin hides an API
\* tool, behind either of them only the verdict on the shell counts, two risks
\* behave alike, the safe mode matters to one of them, and the prefix to nothing
\* that follows.
StepStarts ==
    /\ StepInit
    /\ graph => intent = OneIntent
    /\ intent.plugin => ~intent.api
    /\ intent.plugin \/ intent.api => intent.risk \in {"NONE", "LOW", "FORBIDDEN"}
    /\ intent.risk # "SAFE"
    /\ intent.risk # "HIGH" => intent.safeMode
    /\ ~intent.uiPrefix

LegacyRests ==
    /\ LegacyInit
    /\ needs = "nothing" /\ ~plugin /\ ~registered /\ able = {}
    /\ tiers = Waterfall

\* A known pattern that is still observed behaves like an unknown one until the
\* first answer is recorded, which only the others get to.
CommandStarts == CommandInit /\ (trust.known => trust.state # "observe")
CommandRests == CommandInit /\ ~trust.known

\* Two terminals beside the own one, one of them at any distance; a change of the
\* desktop may close one to writing.
TerminalStarts ==
    LET a == CHOOSE w \in Window : w # OwnWindow
        b == CHOOSE w \in Window : w \notin {a, OwnWindow}
    IN /\ listed \in {<<OwnWindow, a, b>>, <<b, OwnWindow>>}
       /\ near \in {[w \in Window |-> IF w = a THEN n ELSE 3] : n \in {3, 10}}
       /\ TerminalInit /\ writable = pts
TerminalRests ==
    /\ near = [w \in Window |-> 0] /\ listed = << >> /\ hint = "ghost"
    /\ TerminalInit

PluginRests == PluginInit /\ disk.manifest = "pending"

TimeoutRests == TimeoutInit /\ cancels = {}
VoiceRests == VoiceInit /\ mode = "none"

LifeRests == LifeInit /\ graphMode

GapRests == GapInit /\ \A p, q \in Tidied : <<p, q>> \in alike

\* Where the command is risky or the intent visual, the words do not matter; of
\* the words of a file the shell alone makes something, and less than of others.
RoutingStarts ==
    /\ RoutingInit
    /\ command # "low" \/ visual => objective = {}
    /\ command # "low" => ~visual
    /\ "file" \in objective => Cardinality(objective) = 1
    /\ surroundings = [window |-> TRUE, type |-> "unknown"]
RoutingRests == RoutingStarts /\ visual

\* The title of the window the user starts in can be had.
PanelStarts == PanelInit /\ lastTitle # Unknown
PanelRests == PanelStarts /\ front \in Titled

DeskRests ==
    /\ OwnershipInit /\ TimeoutRests /\ VoiceRests
    /\ LifeRests /\ GapRests /\ LearnInit /\ RoutingRests /\ DashboardInit /\ PanelRests

-----------------------------------------------------------------------------
Init ==
    \/ /\ focus = "step" /\ StepStarts
       /\ LegacyRests /\ CommandRests /\ TerminalRests /\ PluginRests /\ DeskRests
    \/ /\ focus = "legacy" /\ LegacyInit
       /\ StepRests /\ CommandRests /\ TerminalRests /\ PluginRests /\ DeskRests
    \/ /\ focus = "command" /\ CommandStarts
       /\ StepRests /\ LegacyRests /\ TerminalRests /\ PluginRests /\ DeskRests
    \/ /\ focus = "terminal" /\ TerminalStarts
       /\ StepRests /\ LegacyRests /\ CommandRests /\ PluginRests /\ DeskRests
    \/ /\ focus = "plugin" /\ PluginInit
       /\ StepRests /\ LegacyRests /\ CommandRests /\ TerminalRests /\ DeskRests
    \/ /\ focus \in {"ownership", "timeouts", "voice"}
       /\ StepRests /\ LegacyRests /\ CommandRests /\ TerminalRests /\ PluginRests
       /\ OwnershipInit
       /\ IF focus = "timeouts" THEN TimeoutInit ELSE TimeoutRests
       /\ IF focus = "voice" THEN VoiceInit ELSE VoiceRests
       /\ LifeRests /\ GapRests /\ LearnInit /\ RoutingRests /\ DashboardInit /\ PanelRests
    \/ /\ focus \in {"life", "gaps", "learning", "routing", "dashboard", "panel"}
       /\ StepRests /\ LegacyRests /\ CommandRests /\ TerminalRests /\ PluginRests
       /\ OwnershipInit /\ TimeoutRests /\ VoiceRests /\ LearnInit /\ DashboardInit
       /\ IF focus = "panel" THEN PanelStarts ELSE PanelRests
       /\ IF focus = "life" THEN LifeInit ELSE LifeRests
       /\ IF focus = "gaps" THEN GapInit ELSE GapRests
       /\ IF focus = "routing" THEN RoutingStarts ELSE RoutingRests

\* A step of one component leaves the others at rest.
RunStep ==
    /\ focus = "step" /\ StepNext
    /\ UNCHANGED <<focus, legacyVars, commandVars, terminalVars, pluginVars, deskVars>>

RunLegacy ==
    /\ focus = "legacy" /\ LegacyNext
    /\ UNCHANGED <<focus, stepVars, commandVars, terminalVars, pluginVars, deskVars>>

RunCommand(A) ==
    /\ focus = "command" /\ A
    /\ UNCHANGED <<focus, stepVars, legacyVars, terminalVars, pluginVars, deskVars>>

RunTerminal(A) ==
    /\ focus = "terminal" /\ A
    /\ UNCHANGED <<focus, stepVars, legacyVars, commandVars, pluginVars, deskVars>>

RunPlugin(A) ==
    /\ focus = "plugin" /\ A
    /\ UNCHANGED <<focus, stepVars, legacyVars, commandVars, terminalVars, deskVars>>

Elsewhere == UNCHANGED <<focus, stepVars, legacyVars, commandVars, terminalVars, pluginVars>>

RunOwnership ==
    /\ focus = "ownership" /\ OwnershipNext
    /\ Elsewhere /\ UNCHANGED <<timeoutVars, voiceVars, mindVars>>

RunTimeouts ==
    /\ focus = "timeouts" /\ TimeoutNext
    /\ Elsewhere /\ UNCHANGED <<ownershipVars, voiceVars, mindVars>>

RunVoice ==
    /\ focus = "voice" /\ VoiceNext
    /\ Elsewhere /\ UNCHANGED <<ownershipVars, timeoutVars, mindVars>>

ElsewhereToo == Elsewhere /\ UNCHANGED <<ownershipVars, timeoutVars, voiceVars>>

RunLife ==
    /\ focus = "life" /\ LifeNext
    /\ ElsewhereToo /\ UNCHANGED <<gapVars, learnVars, routingVars, dashboardVars, panelVars>>

RunGaps ==
    /\ focus = "gaps" /\ GapNext
    /\ ElsewhereToo /\ UNCHANGED <<lifeVars, learnVars, routingVars, dashboardVars, panelVars>>

RunLearning ==
    /\ focus = "learning" /\ LearnNext
    /\ ElsewhereToo /\ UNCHANGED <<lifeVars, gapVars, routingVars, dashboardVars, panelVars>>

RunRouting ==
    /\ focus = "routing" /\ RoutingNext
    /\ ElsewhereToo /\ UNCHANGED <<lifeVars, gapVars, learnVars, dashboardVars, panelVars>>

RunDashboard ==
    /\ focus = "dashboard" /\ DashboardNext
    /\ ElsewhereToo /\ UNCHANGED <<lifeVars, gapVars, learnVars, routingVars, panelVars>>

\* A task is followed until it has its context or the panel was used with none
\* known, and then until the one taken for the panel is there.
RunPanel ==
    /\ focus = "panel" /\ PanelNext
    /\ \E q \in Query : query[q].at # "served"
    /\ blind => reading["mouse"] # "idle"
    /\ ElsewhereToo /\ UNCHANGED <<lifeVars, gapVars, learnVars, routingVars, dashboardVars>>

Next ==
    \/ RunStep \/ RunLegacy \/ RunCommand(CommandNext)
    \/ RunTerminal(TerminalNext) \/ RunPlugin(PluginNext)
    \/ RunOwnership \/ RunTimeouts \/ RunVoice
    \/ RunLife \/ RunGaps \/ RunLearning \/ RunRouting \/ RunDashboard
    \/ RunPanel

\* What the agent does by itself, users, processes and the desktop left out.  The
\* work of each component ends, so its own fairness comes down to this one.
Work ==
    \/ RunStep \/ RunLegacy \/ RunCommand(CommandWork)
    \/ RunTerminal(Placing) \/ RunPlugin(BusThread \/ ApiThread)

Spec == Init /\ [][Next]_serviceVars /\ WF_serviceVars(Work)

TypeOK ==
    /\ StepTypeOK /\ LegacyTypeOK /\ CommandTypeOK /\ TerminalTypeOK /\ PluginTypeOK
    /\ OwnershipTypeOK /\ TimeoutTypeOK /\ VoiceTypeOK
    /\ LifeTypeOK /\ GapTypeOK /\ LearnTypeOK /\ RoutingTypeOK /\ DashboardTypeOK
    /\ PanelTypeOK

Returned ==
    CASE focus = "step"     -> stage = "answered"
      [] focus = "legacy"   -> at = "returned"
      [] focus = "command"  -> \A t \in Job : job[t] = "done"
      [] focus = "terminal" -> place = "over"
      [] focus = "plugin"   -> evolver = Stopped
      [] OTHER              -> TRUE

(* Whatever tools, users and windows do, what was begun returns: a step with a  *)
(* decision of the router and one without, a command that asks while it runs    *)
(* (its widget may have been taken over by another task's question, its answer  *)
(* may reach nobody, but every wait has a limit), one that looks for a terminal, *)
(* and each evolution of a plugin, during which the bus handles nothing else.   *)
EverythingReturns == []<>Returned
=============================================================================
