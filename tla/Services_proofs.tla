-------------------------- MODULE Services_proofs --------------------------
(***************************************************************************)
(* The components side by side: each runs as its own specification says,   *)
(* so that what was proved of each of them holds of all of them together.  *)
(***************************************************************************)
EXTENDS MCServices, Steps_proofs, Plugins_proofs, Desktop_proofs, Resources_proofs

\* What was shown to be inductive of one component after the other.
WorkInv == StepInv /\ StepKeeps /\ LegacyTypeOK /\ CommandInv /\ TerminalInv /\ PluginInv

DeskInv == OwnershipInv /\ TimeoutInv /\ VoiceInv

MindInv ==
    /\ LifeInv /\ GapInv /\ LearnInv /\ RoutingInv /\ DashboardInv /\ PanelInv

ServicesInv == WorkInv /\ DeskInv /\ MindInv

\* Wherever a component rests or starts, it is in one of its own initial states.
LEMMA StartsAsItself ==
  ASSUME Init
  PROVE  /\ StepInit /\ LegacyInit /\ CommandInit /\ TerminalInit /\ PluginInit
         /\ OwnershipInit /\ TimeoutInit /\ VoiceInit
         /\ LifeInit /\ GapInit /\ LearnInit /\ RoutingInit /\ DashboardInit /\ PanelInit
<1>1. /\ StepRests \/ StepStarts => StepInit
      /\ LegacyRests => LegacyInit
      /\ CommandRests \/ CommandStarts => CommandInit
      /\ TerminalRests \/ TerminalStarts => TerminalInit
      /\ PluginRests => PluginInit
  BY DEF StepRests, StepStarts, LegacyRests, CommandRests, CommandStarts, TerminalRests,
         TerminalStarts, PluginRests
<1>2. /\ TimeoutRests => TimeoutInit
      /\ VoiceRests => VoiceInit
      /\ LifeRests => LifeInit
      /\ GapRests => GapInit
      /\ RoutingRests \/ RoutingStarts => RoutingInit
      /\ PanelRests \/ PanelStarts => PanelInit
  BY DEF TimeoutRests, VoiceRests, LifeRests, GapRests, RoutingRests, RoutingStarts,
         PanelRests, PanelStarts
<1>3. StepInit /\ LegacyInit /\ CommandInit /\ TerminalInit /\ PluginInit
  BY <1>1 DEF Init
<1>4. OwnershipInit /\ TimeoutInit /\ VoiceInit /\ LearnInit /\ DashboardInit
  BY <1>2 DEF Init, DeskRests
<1>5. LifeInit /\ GapInit /\ RoutingInit /\ PanelInit
  BY <1>2 DEF Init, DeskRests
<1> QED
  BY <1>3, <1>4, <1>5

\* A step of the whole is a step of one component, or of none.
LEMMA StepsAsItself ==
  ASSUME [Next]_serviceVars
  PROVE  /\ [StepNext]_stepVars /\ [LegacyNext]_legacyVars /\ [CommandNext]_commandVars
         /\ [TerminalNext]_terminalVars /\ [PluginNext]_pluginVars
         /\ [OwnershipNext]_ownershipVars /\ [TimeoutNext]_timeoutVars /\ [VoiceNext]_voiceVars
         /\ [LifeNext]_lifeVars /\ [GapNext]_gapVars /\ [LearnNext]_learnVars
         /\ [RoutingNext]_routingVars /\ [DashboardNext]_dashboardVars /\ [PanelNext]_panelVars
<1>1. CASE RunStep \/ RunLegacy \/ RunCommand(CommandNext) \/ RunTerminal(TerminalNext)
           \/ RunPlugin(PluginNext) \/ UNCHANGED serviceVars
  BY <1>1 DEF RunStep, RunLegacy, RunCommand, RunTerminal, RunPlugin, serviceVars, deskVars,
              mindVars
<1>2. CASE RunOwnership \/ RunTimeouts \/ RunVoice
  BY <1>2 DEF RunOwnership, RunTimeouts, RunVoice, Elsewhere, mindVars
<1>3. CASE RunLife \/ RunGaps \/ RunLearning
  BY <1>3 DEF RunLife, RunGaps, RunLearning, ElsewhereToo, Elsewhere
<1>4. CASE RunRouting \/ RunDashboard \/ RunPanel
  BY <1>4 DEF RunRouting, RunDashboard, RunPanel, ElsewhereToo, Elsewhere
<1> QED
  BY <1>1, <1>2, <1>3, <1>4 DEF Next

LEMMA ServicesInitially == Init => ServicesInv
<1> SUFFICES ASSUME Init PROVE ServicesInv
  OBVIOUS
<1>1. WorkInv
  BY StartsAsItself, StepInitInv, StepKeepsInitially, LegacyTypesInitially,
     CommandInitially, TerminalStarted, PluginInitially DEF WorkInv
<1>2. DeskInv
  BY StartsAsItself, OwnershipInitInv, TimeoutInitInv, VoiceInitially DEF DeskInv
<1>3. MindInv
  BY StartsAsItself, LifeInitInv, GapInitially, LearnInitially, RoutingInitially,
     DashboardInitInv, PanelInitInv DEF MindInv
<1> QED
  BY <1>1, <1>2, <1>3 DEF ServicesInv

LEMMA ServicesStep == ServicesInv /\ [Next]_serviceVars => ServicesInv'
<1> SUFFICES ASSUME ServicesInv, [Next]_serviceVars PROVE ServicesInv'
  OBVIOUS
<1> USE StepsAsItself
<1>1. StepInv' /\ StepKeeps' /\ LegacyTypeOK'
  BY StepInvInductive, StepKeepsInductive, LegacyTypesStep DEF ServicesInv, WorkInv
<1>2. CommandInv' /\ TerminalInv' /\ PluginInv'
  BY CommandStep, TerminalStep, PluginStep DEF ServicesInv, WorkInv
<1>3. OwnershipInv' /\ TimeoutInv' /\ VoiceInv'
  BY NextStep, TimeoutNextInv, VoiceStep DEF ServicesInv, DeskInv
<1>4. LifeInv' /\ GapInv' /\ LearnInv'
  BY LifeNextInv, GapStep, LearnStep DEF ServicesInv, MindInv
<1>5. RoutingInv' /\ DashboardInv' /\ PanelInv'
  BY RoutingStep, DashboardNextInv, PanelNextInv DEF ServicesInv, MindInv
<1> QED
  BY <1>1, <1>2, <1>3, <1>4, <1>5 DEF ServicesInv, WorkInv, DeskInv, MindInv

\* Whichever component runs, and whatever the others rest in, each keeps the types
\* of its own state, for any values of the constants of all of them.
THEOREM ServicesTypeCorrect == Spec => []TypeOK
<1>1. ServicesInv => TypeOK
  BY StepIsTyped, CommandIsTyped, PluginIsTyped, GapIsTyped, LearnIsTyped,
     RoutingIsTyped
     DEF ServicesInv, WorkInv, DeskInv, MindInv, TypeOK, TerminalInv, OwnershipInv, TimeoutInv, VoiceInv,
         LifeInv, DashboardInv, PanelInv
<1> QED
  BY <1>1, ServicesInitially, ServicesStep, PTL DEF Spec
=============================================================================
