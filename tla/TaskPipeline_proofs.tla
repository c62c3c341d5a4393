------------------------ MODULE TaskPipeline_proofs -------------------------
(***************************************************************************)
(* Proofs about TaskPipeline, for any set of tasks, kinds and bounds: its  *)
(* types, that the executor gives a task one slot, and that nothing runs   *)
(* without a clearance.                                                    *)
(***************************************************************************)
EXTENDS TaskPipeline, TLAPS

-----------------------------------------------------------------------------
(* The types, and one slot for a task.                                     *)

USE KindsAssumption, SlowListenersAssumption, MaxResponsesAssumption

\* An event built from a name, a task, a source and an argument is an event.
LEMMA EvType ==
  ASSUME NEW n \in Names, NEW t \in Tasks, NEW s \in Sources, NEW a \in Args
  PROVE  Ev(n, t, s, a) \in Event
BY DEF Ev, Event

\* The field values of an event, and that no event stands for "none".
LEMMA EventFields ==
  ASSUME NEW e \in Event
  PROVE  e.name \in Names /\ e.task \in Tasks /\ e.src \in Sources /\ e.arg \in Args
BY DEF Event

LEMMA CurrentIsEvent ==
  ASSUME BusOK, NEW n, Handling(n)
  PROVE  /\ current \in Event /\ current' = NoEvent
         /\ current.task \in Tasks /\ current.arg \in Args
BY EventFields DEF BusOK, Handling

\* Appending events keeps a queue a queue.
LEMMA OneMore ==
  ASSUME NEW q \in Seq(Event), NEW e \in Event
  PROVE  q \o <<e>> \in Seq(Event)
OBVIOUS

LEMMA QueueStep ==
  ASSUME NEW q \in Seq(Event), q # <<>>
  PROVE  Head(q) \in Event /\ Tail(q) \in Seq(Event)
OBVIOUS

\* A handler that publishes one event, raises one, or neither keeps the bus typed.
LEMMA PublishOK ==
  ASSUME BusOK, current' \in Event \cup {NoEvent}, NEW e \in Event,
         Publish(<<e>>) \/ Raise(<<e>>)
  PROVE  BusOK'
BY OneMore DEF BusOK, Publish, Raise

LEMMA SilentOK ==
  ASSUME BusOK, current' \in Event \cup {NoEvent}, Silent
  PROVE  BusOK'
BY DEF BusOK, Silent

\* A group of variables that a step leaves alone keeps its type.
LEMMA Untouched ==
  /\ BusOK  /\ UNCHANGED busVars  => BusOK'
  /\ OrchOK /\ UNCHANGED orchVars => OrchOK'
  /\ GateOK /\ UNCHANGED gateVars => GateOK'
  /\ ConfOK /\ UNCHANGED confVars => ConfOK'
  /\ ExecOK /\ UNCHANGED execVars => ExecOK'
  /\ UserOK /\ UNCHANGED userVars => UserOK'
BY DEF BusOK, busVars, OrchOK, orchVars, GateOK, gateVars, ConfOK, confVars,
       ExecOK, execVars, UserOK, userVars

-----------------------------------------------------------------------------
(* Types.                                                                  *)

\* Deliver moves an event from a queue to "current".
LEMMA DeliverOK == TypeOK /\ Deliver => TypeOK'
<1> SUFFICES ASSUME TypeOK, Deliver PROVE TypeOK'
    OBVIOUS
<1>1. BusOK'
  <2>1. CASE urgent # <<>> /\ current' = Head(urgent) /\ urgent' = Tail(urgent)
             /\ UNCHANGED normal
    BY <2>1, QueueStep DEF TypeOK, BusOK
  <2>2. CASE normal # <<>> /\ current' = Head(normal) /\ normal' = Tail(normal)
             /\ UNCHANGED urgent
    BY <2>2, QueueStep DEF TypeOK, BusOK
  <2> QED BY <2>1, <2>2 DEF Deliver
<1> QED BY <1>1, Untouched DEF TypeOK, Deliver

\* The handlers that only publish: interpreting and planning.
LEMMA InterpretOK ==
  ASSUME TypeOK,
         ProcessIntent \/ ValidateAndRoute \/ MapIntent \/ CreatePlan
  PROVE  TypeOK'
<1>1. BusOK'
  <2>1. CASE ProcessIntent
    <3>1. BusOK /\ current' \in Event \cup {NoEvent} /\ current.task \in Tasks
      BY <2>1, CurrentIsEvent DEF TypeOK, ProcessIntent
    <3>2. /\ Ev("intent_parsed", current.task, "llm_client", "plain") \in Event
          /\ Ev("task_failed", current.task, "system", "plain") \in Event
      BY <3>1, EvType DEF Names, Sources, Args
    <3> QED BY <2>1, <3>1, <3>2, PublishOK DEF ProcessIntent
  <2>2. CASE ValidateAndRoute
    <3>1. BusOK /\ current' \in Event \cup {NoEvent} /\ current.task \in Tasks
      BY <2>2, CurrentIsEvent DEF TypeOK, ValidateAndRoute
    <3>2. /\ Ev("task_failed", current.task, "system", "plain") \in Event
          /\ Ev("confirmation_required", current.task, "system", "plain") \in Event
          /\ Ev("intent_validated", current.task, "system", "plain") \in Event
      BY <3>1, EvType DEF Names, Sources, Args
    <3> QED BY <2>2, <3>1, <3>2, PublishOK DEF ValidateAndRoute
  <2>3. CASE MapIntent
    <3>1. BusOK /\ current' \in Event \cup {NoEvent} /\ current.task \in Tasks
      BY <2>3, CurrentIsEvent DEF TypeOK, MapIntent
    <3>2. Ev("capability_mapped", current.task, "capability_mapper", "plain") \in Event
      BY <3>1, EvType DEF Names, Sources, Args
    <3> QED BY <2>3, <3>1, <3>2, PublishOK, SilentOK DEF MapIntent
  <2>4. CASE CreatePlan
    <3>1. BusOK /\ current' \in Event \cup {NoEvent} /\ current.task \in Tasks
      BY <2>4, CurrentIsEvent DEF TypeOK, CreatePlan
    <3>2. /\ Ev("task_dispatched", current.task, "planner", "plain") \in Event
          /\ Ev("task_failed", current.task, "planner", "plain") \in Event
      BY <3>1, EvType DEF Names, Sources, Args
    <3> QED BY <2>4, <3>1, <3>2, PublishOK DEF CreatePlan
  <2> QED BY <2>1, <2>2, <2>3, <2>4
<1> QED BY <1>1, Untouched DEF TypeOK, ProcessIntent, ValidateAndRoute, MapIntent, CreatePlan

\* A request enters the bus and the task store.
LEMMA EntryOK ==
  ASSUME TypeOK, NEW t \in Tasks,
         UserInput(t) \/ HandleNewTask
  PROVE  TypeOK'
<1>1. CASE UserInput(t)
  <2>1. Ev("user_input_received", t, "user", "plain") \in Event
    BY EvType DEF Names, Sources, Args
  <2>2. BusOK'
    BY <1>1, <2>1, PublishOK DEF UserInput, TypeOK, BusOK
  <2>3. UserOK'
    BY <1>1 DEF UserInput, TypeOK, UserOK
  <2> QED BY <1>1, <2>2, <2>3, Untouched DEF UserInput, TypeOK
<1>2. CASE HandleNewTask
  <2>1. BusOK /\ current' \in Event \cup {NoEvent} /\ current.task \in Tasks
    BY <1>2, CurrentIsEvent DEF TypeOK, HandleNewTask
  <2>2. Ev("request_intent_parsing", current.task, "orchestrator", "plain") \in Event
    BY <2>1, EvType DEF Names, Sources, Args
  <2>3. BusOK'
    BY <1>2, <2>1, <2>2, PublishOK DEF HandleNewTask
  <2>4. OrchOK'
    BY <1>2, <2>1 DEF HandleNewTask, TypeOK, OrchOK, NewRecord, Records, Args
  <2> QED BY <1>2, <2>3, <2>4, Untouched DEF HandleNewTask, TypeOK
<1> QED BY <1>1, <1>2

\* The mapped task goes to the decision engine and, dispatched, to the gates.
LEMMA DispatchingOK ==
  ASSUME TypeOK, OnCapabilityMapped \/ ProcessQueue
  PROVE  TypeOK'
<1>1. CASE OnCapabilityMapped
  <2>1. BusOK /\ current' \in Event \cup {NoEvent} /\ current.task \in Tasks
    BY <1>1, CurrentIsEvent DEF TypeOK, OnCapabilityMapped
  <2>2. \A arg \in {"decided", "plain"} :
          Ev("task_dispatched", current.task, "orchestrator", arg) \in Event
    BY <2>1, EvType DEF Names, Sources, Args
  <2>3. BusOK'
    BY <1>1, <2>1, <2>2, PublishOK, SilentOK DEF OnCapabilityMapped
  <2>4. planQueue' \in SUBSET Tasks
    BY <1>1, <2>1 DEF OnCapabilityMapped, TypeOK
  <2> QED BY <1>1, <2>3, <2>4, Untouched DEF OnCapabilityMapped, TypeOK
<1>2. CASE ProcessQueue
  <2>1. PICK t \in planQueue :
          /\ planQueue' = planQueue \ {t}
          /\ Publish(<<Ev("request_planning", t, "decision_engine", "plain")>>)
    BY <1>2 DEF ProcessQueue
  <2>2. Ev("request_planning", t, "decision_engine", "plain") \in Event
    BY EvType DEF Names, Sources, Args, TypeOK
  <2>3. BusOK'
    BY <1>2, <2>1, <2>2, PublishOK DEF ProcessQueue, TypeOK, BusOK
  <2>4. planQueue' \in SUBSET Tasks
    BY <2>1 DEF TypeOK
  <2> QED BY <1>2, <2>3, <2>4, Untouched DEF ProcessQueue, TypeOK
<1> QED BY <1>1, <1>2

\* The gates: each appends at most one answer and at most one refusal.
LEMMA GatesOK ==
  ASSUME TypeOK, OnTaskDispatched
  PROVE  TypeOK'
<1>1. current \in Event /\ current' = NoEvent /\ current.task \in Tasks
      /\ current.arg \in Args
  BY CurrentIsEvent DEF TypeOK, OnTaskDispatched
<1>2. \A v : \A g \in {"safety_validator", "permission_guard"} :
        /\ Answer(v, current, g) \in Seq(Event)
        /\ \A n : Refusal(v, current, g, n) \in Seq(Event)
  <2> SUFFICES ASSUME NEW v, NEW g \in {"safety_validator", "permission_guard"}, NEW n
               PROVE  /\ Answer(v, current, g) \in Seq(Event)
                      /\ Refusal(v, current, g, n) \in Seq(Event)
    OBVIOUS
  <2>1. /\ Ev("task_safety_cleared", current.task, g, current.arg) \in Event
        /\ Ev("confirmation_required", current.task, g, "plain") \in Event
        /\ Ev("task_failed", current.task, g, "plain") \in Event
    BY <1>1, EvType DEF Names, Sources, Args
  <2> QED BY <2>1 DEF Answer, Refusal
<1>3. BusOK'
  <2> DEFINE v == ValidatorVerdict(current)
             g == GuardVerdict(current)
             n == violations[current.task] + (IF v = "refuse" THEN 1 ELSE 0)
  <2>1. /\ normal' = normal \o Answer(v, current, "safety_validator")
                             \o Answer(g, current, "permission_guard")
        /\ urgent' = urgent \o Refusal(v, current, "safety_validator", n)
                             \o Refusal(g, current, "permission_guard", 0)
    BY DEF OnTaskDispatched
  <2> HIDE DEF v, g, n
  <2> QED BY <1>1, <1>2, <2>1 DEF BusOK, TypeOK
<1>4. GateOK'
  BY <1>1 DEF OnTaskDispatched, TypeOK, GateOK
<1> QED BY <1>3, <1>4, Untouched DEF OnTaskDispatched, TypeOK

\* The confirmation desk.
LEMMA ConfirmationOK ==
  ASSUME TypeOK, NEW t \in Tasks,
         \/ OnConfirmationRequired \/ OnUserResponse \/ ConfirmationExpires(t)
         \/ \E arg \in {"allow", "deny", "none"} : UserResponds(t, arg)
  PROVE  TypeOK'
<1>1. CASE OnConfirmationRequired
  <2>1. BusOK /\ current' \in Event \cup {NoEvent} /\ current.task \in Tasks
    BY <1>1, CurrentIsEvent DEF TypeOK, OnConfirmationRequired
  <2>2. BusOK'
    BY <1>1, <2>1, SilentOK DEF OnConfirmationRequired
  <2>3. ConfOK'
    BY <1>1, <2>1 DEF OnConfirmationRequired, TypeOK, ConfOK
  <2>4. OrchOK'
    BY <1>1, <2>1 DEF OnConfirmationRequired, TypeOK, OrchOK, Records
  <2> QED BY <1>1, <2>2, <2>3, <2>4, Untouched DEF OnConfirmationRequired, TypeOK
<1>2. CASE OnUserResponse
  <2>1. BusOK /\ current' \in Event \cup {NoEvent} /\ current.task \in Tasks
    BY <1>2, CurrentIsEvent DEF TypeOK, OnUserResponse
  <2>2. /\ Ev("task_safety_cleared", current.task, "confirmation_manager", "plain") \in Event
        /\ Ev("task_failed", current.task, "confirmation_manager", "plain") \in Event
    BY <2>1, EvType DEF Names, Sources, Args
  <2>3. BusOK'
    BY <1>2, <2>1, <2>2, PublishOK, SilentOK DEF OnUserResponse
  <2>4. ConfOK'
    BY <1>2, <2>1 DEF OnUserResponse, TypeOK, ConfOK
  <2> QED BY <1>2, <2>3, <2>4, Untouched DEF OnUserResponse, TypeOK
<1>3. CASE ConfirmationExpires(t)
  <2>1. Ev("task_failed", t, "confirmation_manager", "plain") \in Event
    BY EvType DEF Names, Sources, Args
  <2>2. BusOK'
    BY <1>3, <2>1, PublishOK DEF ConfirmationExpires, TypeOK, BusOK
  <2>3. ConfOK'
    BY <1>3 DEF ConfirmationExpires, TypeOK, ConfOK
  <2> QED BY <1>3, <2>2, <2>3, Untouched DEF ConfirmationExpires, TypeOK
<1>4. ASSUME NEW arg \in {"allow", "deny", "none"}, UserResponds(t, arg)
      PROVE  TypeOK'
  <2>1. Ev("user_response_received", t, "user", arg) \in Event
    BY EvType DEF Names, Sources, Args
  <2>2. BusOK'
    BY <1>4, <2>1, PublishOK DEF UserResponds, TypeOK, BusOK
  <2>3. UserOK'
    BY <1>4 DEF UserResponds, TypeOK, UserOK
  <2> QED BY <1>4, <2>2, <2>3, Untouched DEF UserResponds, TypeOK
<1> QED BY <1>1, <1>2, <1>3, <1>4

\* What _dispatch_to_executor publishes is an event.
LEMMA DispatchArgOK ==
  ASSUME NEW t \in Tasks, NEW arg
  PROVE  /\ DispatchArg(t, arg) \in {"plain", "decided"}
         /\ Ev("task_dispatched_safe", t, "orchestrator", DispatchArg(t, arg)) \in Event
BY EvType DEF DispatchArg, Names, Sources, Args

\* The clearance handler and the 100 ms callback.
LEMMA ClearanceOK ==
  ASSUME TypeOK, NEW t \in Tasks,
         OnSafetyCleared \/ CheckLowRiskDispatch(t)
  PROVE  TypeOK'
<1>1. CASE OnSafetyCleared
  <2>1. BusOK /\ current' \in Event \cup {NoEvent} /\ current.task \in Tasks
    BY <1>1, CurrentIsEvent DEF TypeOK, OnSafetyCleared
  <2>2. BusOK'
    BY <1>1, <2>1, DispatchArgOK, PublishOK, SilentOK
    DEF OnSafetyCleared, DispatchToExecutor
  <2>3. dispatchedSafe' \in SUBSET Tasks /\ checkTimers' \in [Tasks -> Nat]
    BY <1>1, <2>1 DEF OnSafetyCleared, DispatchToExecutor, TypeOK, OrchOK
  <2>4. record' \in [Tasks -> Records]
    <3>1. current.arg \in Args
      BY <1>1, CurrentIsEvent DEF TypeOK, OnSafetyCleared
    <3> QED BY <1>1, <2>1, <3>1 DEF OnSafetyCleared, DispatchToExecutor, TypeOK, OrchOK, Records
  <2>5. OrchOK'
    BY <1>1, <2>3, <2>4 DEF OnSafetyCleared, TypeOK, OrchOK
  <2> QED BY <1>1, <2>2, <2>5, Untouched DEF OnSafetyCleared, TypeOK
<1>2. CASE CheckLowRiskDispatch(t)
  <2>1. BusOK'
    BY <1>2, DispatchArgOK, PublishOK, SilentOK
    DEF CheckLowRiskDispatch, DispatchToExecutor, TypeOK, BusOK
  <2>2. checkTimers' \in [Tasks -> Nat]
    BY <1>2 DEF CheckLowRiskDispatch, TypeOK, OrchOK
  <2>3. record' \in [Tasks -> Records] /\ dispatchedSafe' \in SUBSET Tasks
    <3>1. [record EXCEPT ![t].decision = TRUE] \in [Tasks -> Records]
      BY DEF TypeOK, OrchOK, Records
    <3> QED BY <1>2, <3>1 DEF CheckLowRiskDispatch, DispatchToExecutor, TypeOK, OrchOK
  <2>4. OrchOK'
    BY <1>2, <2>2, <2>3 DEF CheckLowRiskDispatch, TypeOK, OrchOK
  <2> QED BY <1>2, <2>1, <2>4, Untouched DEF CheckLowRiskDispatch, TypeOK
<1> QED BY <1>1, <1>2

\* The orchestrator's other handlers and timers, and the gates' pruning.
LEMMA BookkeepingOK ==
  ASSUME TypeOK, NEW t \in Tasks,
         \/ HandleFailure \/ FinalizeTask \/ DiscardDispatched(t)
         \/ ValidatorForgets(t) \/ GuardForgets(t)
  PROVE  TypeOK'
<1>1. CASE HandleFailure
  <2>1. BusOK /\ current' \in Event \cup {NoEvent} /\ current.task \in Tasks
    BY <1>1, CurrentIsEvent DEF TypeOK, HandleFailure
  <2>2. BusOK' /\ OrchOK'
    BY <1>1, <2>1, SilentOK DEF HandleFailure, TypeOK, OrchOK
  <2> QED BY <1>1, <2>2, Untouched DEF HandleFailure, TypeOK
<1>2. CASE FinalizeTask
  <2>1. BusOK /\ current' \in Event \cup {NoEvent} /\ current.task \in Tasks
    BY <1>2, CurrentIsEvent DEF TypeOK, FinalizeTask
  <2>2. BusOK'
    BY <1>2, <2>1, SilentOK DEF FinalizeTask
  <2>3. OrchOK'
    BY <1>2, <2>1 DEF FinalizeTask, TypeOK, OrchOK, NewRecord, Records, Args
  <2> QED BY <1>2, <2>2, <2>3, Untouched DEF FinalizeTask, TypeOK
<1>3. CASE DiscardDispatched(t)
  <2>1. OrchOK'
    BY <1>3 DEF DiscardDispatched, TypeOK, OrchOK
  <2> QED BY <1>3, <2>1, Untouched DEF DiscardDispatched, TypeOK
<1>4. CASE ValidatorForgets(t)
  <2>1. GateOK'
    BY <1>4 DEF ValidatorForgets, TypeOK, GateOK
  <2> QED BY <1>4, <2>1, Untouched DEF ValidatorForgets, TypeOK
<1>5. CASE GuardForgets(t)
  <2>1. GateOK'
    BY <1>5 DEF GuardForgets, TypeOK, GateOK
  <2> QED BY <1>5, <2>1, Untouched DEF GuardForgets, TypeOK
<1> QED BY <1>1, <1>2, <1>3, <1>4, <1>5

\* The executor.
LEMMA ExecutorOK ==
  ASSUME TypeOK, NEW t \in Tasks,
         ExecutePlan \/ RunReports(t) \/ RunRaises(t) \/ ForgetTask(t)
  PROVE  TypeOK'
<1>1. CASE ExecutePlan
  <2>1. BusOK /\ current' \in Event \cup {NoEvent} /\ current.task \in Tasks
    BY <1>1, CurrentIsEvent DEF TypeOK, ExecutePlan
  <2>2. BusOK'
    BY <1>1, <2>1, SilentOK DEF ExecutePlan
  <2>3. ExecOK'
    BY <1>1, <2>1 DEF ExecutePlan, TypeOK, ExecOK
  <2> QED BY <1>1, <2>2, <2>3, Untouched DEF ExecutePlan, TypeOK
<1>2. CASE RunReports(t)
  <2>1. /\ Ev("task_completed", t, "executor", "plain") \in Event
        /\ Ev("task_failed", t, "executor", "plain") \in Event
    BY EvType DEF Names, Sources, Args
  <2>2. BusOK'
    BY <1>2, <2>1, PublishOK DEF RunReports, TypeOK, BusOK
  <2>3. ExecOK'
    BY <1>2 DEF RunReports, TypeOK, ExecOK
  <2> QED BY <1>2, <2>2, <2>3, Untouched DEF RunReports, TypeOK
<1>3. CASE RunRaises(t)
  <2>1. ExecOK'
    BY <1>3 DEF RunRaises, TypeOK, ExecOK
  <2> QED BY <1>3, <2>1, Untouched DEF RunRaises, TypeOK
<1>4. CASE ForgetTask(t)
  <2>1. ExecOK'
    BY <1>4 DEF ForgetTask, TypeOK, ExecOK
  <2> QED BY <1>4, <2>1, Untouched DEF ForgetTask, TypeOK
<1> QED BY <1>1, <1>2, <1>3, <1>4

LEMMA InitOK == Init => TypeOK
BY DEF Init, TypeOK, BusOK, OrchOK, GateOK, ConfOK, ExecOK, UserOK, Zero, NewRecord,
       Records, Args

LEMMA NextOK == TypeOK /\ [Next]_vars => TypeOK'
<1> SUFFICES ASSUME TypeOK, [Next]_vars PROVE TypeOK'
    OBVIOUS
<1>1. CASE Deliver
  BY <1>1, DeliverOK
<1>2. CASE Listeners
  <2>1. CASE Tasks = {}
    <3>1. current = NoEvent
      BY <2>1 DEF TypeOK, BusOK, Event
    <3> QED BY <1>2, <3>1 DEF Listeners, Handling, HandleNewTask, ProcessIntent,
          ValidateAndRoute, MapIntent, OnCapabilityMapped, CreatePlan,
          OnTaskDispatched, OnConfirmationRequired, OnUserResponse,
          OnSafetyCleared, ExecutePlan, HandleFailure, FinalizeTask
  <2>2. CASE \E t \in Tasks : TRUE
    <3>1. PICK t \in Tasks : TRUE
      BY <2>2
    <3> QED BY <1>2, InterpretOK, EntryOK, DispatchingOK, GatesOK, ConfirmationOK,
               ClearanceOK, BookkeepingOK, ExecutorOK DEF Listeners
  <2> QED BY <2>1, <2>2
<1>3. CASE ProcessQueue
  BY <1>3, DispatchingOK
<1>4. ASSUME NEW t \in Tasks, Timers(t) PROVE TypeOK'
  BY <1>4, ConfirmationOK, ClearanceOK, BookkeepingOK, ExecutorOK DEF Timers
<1>5. ASSUME NEW t \in Tasks, Runs(t) PROVE TypeOK'
  BY <1>5, ExecutorOK DEF Runs
<1>6. ASSUME NEW t \in Tasks, Human(t) PROVE TypeOK'
  BY <1>6, EntryOK, ConfirmationOK DEF Human
<1>7. CASE UNCHANGED vars
  BY <1>7, Untouched DEF TypeOK, vars, busVars, orchVars, gateVars, confVars,
     execVars, userVars
<1> QED BY <1>1, <1>2, <1>3, <1>4, <1>5, <1>6, <1>7 DEF Next

\* Every part of the state keeps its type, whatever the tasks and the bounds:
\* core/event_bus.py, core/orchestrator.py, safety/ and executor/executor.py.
THEOREM TypeCorrect == Spec => []TypeOK
BY InitOK, NextOK, PTL DEF Spec

-----------------------------------------------------------------------------
(* One slot per task.                                                      *)

IInv == TypeOK /\ SeenMeansBusy

\* The dedup set and the two counts of a task change together.
LEMMA SlotStep ==
  ASSUME TypeOK, SeenMeansBusy, NEW u \in Tasks,
         ExecutePlan \/ RunReports(u) \/ RunRaises(u) \/ ForgetTask(u)
  PROVE  SeenMeansBusy'
<1>1. CASE ExecutePlan
  <2>1. current.task \in Tasks
    BY <1>1, CurrentIsEvent DEF TypeOK, ExecutePlan
  <2> QED BY <1>1, <2>1 DEF ExecutePlan, AlreadyRunning, SeenMeansBusy, TypeOK, ExecOK
<1>2. CASE RunReports(u)
  BY <1>2 DEF RunReports, SeenMeansBusy, TypeOK, ExecOK
<1>3. CASE RunRaises(u)
  BY <1>3 DEF RunRaises, SeenMeansBusy, TypeOK, ExecOK
<1>4. CASE ForgetTask(u)
  BY <1>4 DEF ForgetTask, SeenMeansBusy, TypeOK, ExecOK
<1> QED BY <1>1, <1>2, <1>3, <1>4

\* Every other action leaves the executor alone.
LEMMA OtherStep ==
  ASSUME [Next]_vars
  PROVE  \/ UNCHANGED execVars
         \/ ExecutePlan
         \/ \E u \in Tasks : RunReports(u) \/ RunRaises(u) \/ ForgetTask(u)
<1>1. CASE Listeners
  BY <1>1 DEF Listeners, HandleNewTask, ProcessIntent, ValidateAndRoute, MapIntent,
     OnCapabilityMapped, CreatePlan, OnTaskDispatched, OnConfirmationRequired,
     OnUserResponse, OnSafetyCleared, HandleFailure, FinalizeTask
<1>2. ASSUME NEW t \in Tasks, Timers(t) \/ Human(t) \/ Runs(t)
      PROVE  UNCHANGED execVars \/ RunReports(t) \/ RunRaises(t) \/ ForgetTask(t)
  BY <1>2 DEF Timers, Human, Runs, CheckLowRiskDispatch, DiscardDispatched,
     ValidatorForgets, GuardForgets, ConfirmationExpires, UserInput, UserResponds
<1>3. CASE Deliver \/ ProcessQueue \/ UNCHANGED vars
  BY <1>3 DEF Deliver, ProcessQueue, vars
<1> QED BY <1>1, <1>2, <1>3 DEF Next

LEMMA SlotInvariant == Spec => []IInv
<1>1. Init => IInv
  BY InitOK DEF Init, IInv, SeenMeansBusy, Zero
<1>2. IInv /\ [Next]_vars => IInv'
  <2> SUFFICES ASSUME IInv, [Next]_vars PROVE SeenMeansBusy'
      BY NextOK DEF IInv
  <2>1. CASE UNCHANGED execVars
    BY <2>1 DEF IInv, SeenMeansBusy, execVars
  <2>2. ASSUME NEW u \in Tasks, ExecutePlan \/ RunReports(u) \/ RunRaises(u) \/ ForgetTask(u)
        PROVE  SeenMeansBusy'
    BY <2>2, SlotStep DEF IInv
  <2>3. CASE ExecutePlan
    <3>1. current.task \in Tasks
      BY <2>3, CurrentIsEvent DEF IInv, TypeOK, ExecutePlan
    <3> QED BY <2>2, <2>3, <3>1
  <2> QED BY <2>1, <2>2, <2>3, OtherStep
<1> QED BY <1>1, <1>2, PTL DEF Spec

\* The dedup set of the executor (executor.py:284-326) remembers a task only while
\* it runs or the timer that forgets it is set.
THEOREM SeenWhileBusy == Spec => []SeenMeansBusy
<1>1. IInv => SeenMeansBusy
  BY DEF IInv
<1> QED BY <1>1, SlotInvariant, PTL

\* The executor never runs a task twice at the same time (executor.py:284-326),
\* whatever reaches it and however late.
THEOREM NoOverlap == Spec => []AtMostOneRun
<1>1. IInv => AtMostOneRun
  <2> SUFFICES ASSUME IInv, NEW t \in Tasks
               PROVE  decidedRuns[t] + waterfallRuns[t] <= 1
    BY DEF AtMostOneRun
  <2>1. decidedRuns[t] \in Nat /\ waterfallRuns[t] \in Nat /\ forgetTimers[t] \in Nat
    BY DEF IInv, TypeOK, ExecOK
  <2> QED BY <2>1 DEF IInv, SeenMeansBusy
<1> QED BY <1>1, SlotInvariant, PTL

-----------------------------------------------------------------------------
(* The executor implements RunSlots.                                       *)

\* Where the invariant holds, the slot of a task is told from its three counts.
LEMMA SlotOf ==
  ASSUME IInv, NEW t \in Tasks
  PROVE  /\ decidedRuns[t] \in Nat /\ waterfallRuns[t] \in Nat /\ forgetTimers[t] \in Nat
         /\ t \notin seenTaskIds => Slot(t) = "free"
         /\ decidedRuns[t] + waterfallRuns[t] = 1 => Slot(t) = "running"
         /\ forgetTimers[t] = 1 => Slot(t) = "cooling"
<1>1. decidedRuns[t] \in Nat /\ waterfallRuns[t] \in Nat /\ forgetTimers[t] \in Nat
  BY DEF IInv, TypeOK, ExecOK
<1>2. decidedRuns[t] + waterfallRuns[t] + forgetTimers[t]
        = IF t \in seenTaskIds THEN 1 ELSE 0
  BY DEF IInv, SeenMeansBusy
<1>3. t \notin seenTaskIds => decidedRuns[t] + waterfallRuns[t] = 0 /\ forgetTimers[t] = 0
  BY <1>1, <1>2
<1>4. decidedRuns[t] + waterfallRuns[t] = 1 => forgetTimers[t] = 0
  BY <1>1, <1>2
<1>5. forgetTimers[t] = 1 => decidedRuns[t] + waterfallRuns[t] = 0
  BY <1>1, <1>2
<1> QED BY <1>1, <1>3, <1>4, <1>5 DEF Slot

\* A step that moves one task from slot state to slot state and no other task.
LEMMA OneMove ==
  ASSUME NEW t \in Tasks, NEW from, NEW to,
         Slot(t) = from, Slot(t)' = to,
         \A u \in Tasks \ {t} : Slot(u)' = Slot(u)
  PROVE  Slots!Move(t, from, to)
BY DEF Slots!Move

\* A task the executor does not remember has no run and no timer.
LEMMA IdleCounts ==
  ASSUME IInv, NEW t \in Tasks, t \notin seenTaskIds
  PROVE  decidedRuns[t] = 0 /\ waterfallRuns[t] = 0 /\ forgetTimers[t] = 0
<1>1. decidedRuns[t] \in Nat /\ waterfallRuns[t] \in Nat /\ forgetTimers[t] \in Nat
  BY SlotOf
<1>2. decidedRuns[t] + waterfallRuns[t] + forgetTimers[t] = 0
  BY DEF IInv, SeenMeansBusy
<1> QED BY <1>1, <1>2

\* A task that runs has one run and no timer.
LEMMA RunCounts ==
  ASSUME IInv, NEW t \in Tasks, decidedRuns[t] > 0 \/ waterfallRuns[t] > 0
  PROVE  /\ decidedRuns[t] \in Nat /\ waterfallRuns[t] \in Nat
         /\ decidedRuns[t] + waterfallRuns[t] = 1
         /\ forgetTimers[t] = 0
<1>1. decidedRuns[t] \in Nat /\ waterfallRuns[t] \in Nat /\ forgetTimers[t] \in Nat
  BY SlotOf
<1>2. decidedRuns[t] + waterfallRuns[t] + forgetTimers[t] <= 1
  BY DEF IInv, SeenMeansBusy
<1> QED BY <1>1, <1>2

\* A task with an armed timer has one timer and no run.
LEMMA CoolCounts ==
  ASSUME IInv, NEW t \in Tasks, forgetTimers[t] > 0
  PROVE  decidedRuns[t] = 0 /\ waterfallRuns[t] = 0 /\ forgetTimers[t] = 1
<1>1. decidedRuns[t] \in Nat /\ waterfallRuns[t] \in Nat /\ forgetTimers[t] \in Nat
  BY SlotOf
<1>2. decidedRuns[t] + waterfallRuns[t] + forgetTimers[t] <= 1
  BY DEF IInv, SeenMeansBusy
<1> QED BY <1>1, <1>2

LEMMA StartMoves ==
  ASSUME IInv, NEW t \in Tasks, t = current.task, t \notin seenTaskIds, ExecutePlan
  PROVE  Slots!Start(t)
<1> USE DEF IInv, TypeOK, ExecOK
<1>1. decidedRuns[t] = 0 /\ waterfallRuns[t] = 0 /\ forgetTimers[t] = 0
  BY IdleCounts
<1>2. /\ forgetTimers' = forgetTimers
      /\ \/ /\ decidedRuns' = [decidedRuns EXCEPT ![t] = @ + 1]
            /\ waterfallRuns' = waterfallRuns
         \/ /\ waterfallRuns' = [waterfallRuns EXCEPT ![t] = @ + 1]
            /\ decidedRuns' = decidedRuns
  BY DEF ExecutePlan, AlreadyRunning
<1>3. Slot(t) = "free" /\ Slot(t)' = "running"
  BY <1>1, <1>2 DEF Slot
<1>4. \A u \in Tasks \ {t} : Slot(u)' = Slot(u)
  BY <1>2 DEF Slot
<1> QED BY <1>3, <1>4, OneMove DEF Slots!Start

LEMMA FinishMoves ==
  ASSUME IInv, NEW t \in Tasks, RunReports(t) \/ RunRaises(t)
  PROVE  Slots!Finish(t)
<1> USE DEF IInv, TypeOK, ExecOK
<1>1. /\ decidedRuns[t] \in Nat /\ waterfallRuns[t] \in Nat
      /\ decidedRuns[t] + waterfallRuns[t] = 1
      /\ forgetTimers[t] = 0
  BY RunCounts DEF RunReports, RunRaises
<1>2. /\ forgetTimers' = [forgetTimers EXCEPT ![t] = @ + 1]
      /\ \/ /\ decidedRuns' = [decidedRuns EXCEPT ![t] = @ - 1]
            /\ waterfallRuns' = waterfallRuns
         \/ /\ waterfallRuns' = [waterfallRuns EXCEPT ![t] = @ - 1]
            /\ decidedRuns' = decidedRuns
  BY DEF RunReports, RunRaises
<1>3. Slot(t) = "running" /\ Slot(t)' = "cooling"
  BY <1>1, <1>2 DEF Slot
<1>4. \A u \in Tasks \ {t} : Slot(u)' = Slot(u)
  BY <1>2 DEF Slot
<1> QED BY <1>3, <1>4, OneMove DEF Slots!Finish

LEMMA ReleaseMoves ==
  ASSUME IInv, NEW t \in Tasks, ForgetTask(t)
  PROVE  Slots!Release(t)
<1> USE DEF IInv, TypeOK, ExecOK
<1>1. decidedRuns[t] = 0 /\ waterfallRuns[t] = 0 /\ forgetTimers[t] = 1
  BY CoolCounts DEF ForgetTask
<1>2. /\ forgetTimers' = [forgetTimers EXCEPT ![t] = @ - 1]
      /\ decidedRuns' = decidedRuns
      /\ waterfallRuns' = waterfallRuns
  BY DEF ForgetTask
<1>3. Slot(t) = "cooling" /\ Slot(t)' = "free"
  BY <1>1, <1>2 DEF Slot
<1>4. \A u \in Tasks \ {t} : Slot(u)' = Slot(u)
  BY <1>2 DEF Slot
<1> QED BY <1>3, <1>4, OneMove DEF Slots!Release

\* The executor's dedup set and timers implement one slot per task
\* (executor.py:284-326 implements RunSlots), for any set of tasks.
THEOREM Implements == Spec => ImplementsRunSlots
<1>1. Init => Slots!Init
  BY DEF Init, Slots!Init, Slot, Zero
<1>2. IInv /\ [Next]_vars => [Slots!Next]_([t \in Tasks |-> Slot(t)])
  <2> SUFFICES ASSUME IInv, [Next]_vars
               PROVE  \/ Slots!Next
                      \/ UNCHANGED [t \in Tasks |-> Slot(t)]
    OBVIOUS
  <2>1. CASE UNCHANGED execVars
    BY <2>1 DEF execVars, Slot
  <2>2. CASE ExecutePlan
    <3>1. PICK t \in Tasks : t = current.task
      BY <2>2, CurrentIsEvent DEF IInv, TypeOK, ExecutePlan
    <3>2. CASE t \in seenTaskIds
      BY <2>2, <3>1, <3>2 DEF ExecutePlan, AlreadyRunning, Slot
    <3>3. CASE t \notin seenTaskIds
      BY <2>2, <3>1, <3>3, StartMoves DEF Slots!Next
    <3> QED BY <3>2, <3>3
  <2>3. ASSUME NEW t \in Tasks, RunReports(t) \/ RunRaises(t) \/ ForgetTask(t)
        PROVE  Slots!Next
    BY <2>3, FinishMoves, ReleaseMoves DEF Slots!Next
  <2> QED BY <2>1, <2>2, <2>3, OtherStep
<1> QED BY <1>1, <1>2, SlotInvariant, PTL DEF Spec, ImplementsRunSlots, Slots!Spec

-----------------------------------------------------------------------------
(* No clearance, no run.                                                   *)

\* What an allow of the human turns into on its way to the executor.
Paid(e, t) ==
  /\ e.task = t
  /\ \/ e.name = "task_dispatched_safe"
     \/ e.name = "task_safety_cleared" /\ FromHuman(e)

Weight(e, t) == IF Paid(e, t) THEN 1 ELSE 0

\* The queue holds at most k such events of task t: "left" counts those behind
\* each place.
AtMost(q, t, k) ==
  \E left \in [0 .. Len(q) -> Nat] :
     /\ left[Len(q)] = 0
     /\ \A i \in 1 .. Len(q) : left[i - 1] = left[i] + Weight(q[i], t)
     /\ left[0] <= k

Now(e, t) == IF e # NoEvent THEN Weight(e, t) ELSE 0

OnlyFailures == \A i \in DOMAIN urgent : urgent[i].name = "task_failed"

\* What was started, and what is on its way to the executor, was allowed.
Funded(t) ==
  /\ started[t] + Now(current, t) <= allowed[t]
  /\ AtMost(normal, t, allowed[t] - started[t] - Now(current, t))

\* No gate clears the operation of task t, whatever the payload.
Gated(t) ==
  LET p == Profile[kind[t]] IN "clear" \notin {p.guard, p.guardOnPlan, p.validator}

\* A clearance of task t comes from the human.
FromHumanOnly(e, t) ==
  e.task = t /\ e.name = "task_safety_cleared" => FromHuman(e)

\* No gate has cleared the task.
Unoffered(t) ==
  /\ record[t].safeEvent = "none"
  /\ current # NoEvent => FromHumanOnly(current, t)
  /\ \A i \in DOMAIN normal : FromHumanOnly(normal[i], t)

Backed(t) == Funded(t) /\ Unoffered(t)

ClearInv ==
  /\ TypeOK /\ OnlyFailures
  /\ \A t \in Tasks : Gated(t) => Backed(t)

-----------------------------------------------------------------------------
(* Counting.                                                               *)

LEMMA WeightType == \A e, t : Weight(e, t) \in {0, 1}
BY DEF Weight

LEMMA NoneQueued == ASSUME NEW t PROVE AtMost(<<>>, t, 0)
<1> DEFINE left == [i \in 0 .. 0 |-> 0]
<1>1. left \in [0 .. Len(<<>>) -> Nat] /\ left[Len(<<>>)] = 0 /\ left[0] <= 0
  OBVIOUS
<1>2. 1 .. Len(<<>>) = {}
  OBVIOUS
<1> QED BY <1>1, <1>2 DEF AtMost

LEMMA MoreAllowed ==
  ASSUME NEW q \in Seq(Event), NEW t, NEW k \in Int, NEW m \in Int, k <= m, AtMost(q, t, k)
  PROVE  AtMost(q, t, m)
<1>1. \A n \in Nat : n <= k => n <= m
  OBVIOUS
<1>2. 0 \in 0 .. Len(q)
  OBVIOUS
<1> QED BY <1>1, <1>2 DEF AtMost

LEMMA OneQueued ==
  ASSUME NEW q \in Seq(Event), NEW e \in Event, NEW t, NEW k \in Int, AtMost(q, t, k)
  PROVE  AtMost(q \o <<e>>, t, k + Weight(e, t))
<1> DEFINE r == q \o <<e>>
           n == Len(q)
<1>1. n \in Nat /\ Len(r) = n + 1 /\ r[n + 1] = e /\ \A i \in 1 .. n : r[i] = q[i]
  OBVIOUS
<1>2. PICK left \in [0 .. n -> Nat] :
         /\ left[n] = 0 /\ left[0] <= k
         /\ \A i \in 1 .. n : left[i - 1] = left[i] + Weight(q[i], t)
  BY DEF AtMost
<1> DEFINE more == [i \in 0 .. n + 1 |-> IF i = n + 1 THEN 0 ELSE left[i] + Weight(e, t)]
<1>3. Weight(e, t) \in Nat
  BY WeightType
<1> HIDE DEF r, n
<1>4. more \in [0 .. n + 1 -> Nat] /\ more[n + 1] = 0 /\ more[0] <= k + Weight(e, t)
  BY <1>1, <1>2, <1>3
<1>5. ASSUME NEW i \in 1 .. n + 1
      PROVE  more[i - 1] = more[i] + Weight(r[i], t)
  <2>1. CASE i = n + 1
    BY <2>1, <1>1, <1>2, <1>3
  <2>2. CASE i \in 1 .. n
    <3>1. left[i - 1] = left[i] + Weight(q[i], t) /\ r[i] = q[i]
      BY <2>2, <1>1, <1>2
    <3>2. left[i] \in Nat /\ left[i - 1] \in Nat /\ Weight(q[i], t) \in Nat
      <4>1. i \in 0 .. n /\ i - 1 \in 0 .. n
        BY <2>2, <1>1
      <4> QED BY <4>1, <1>2, WeightType
    <3>3. more[i - 1] = left[i - 1] + Weight(e, t) /\ more[i] = left[i] + Weight(e, t)
      BY <2>2, <1>1
    <3> QED BY <3>1, <3>2, <3>3, <1>3
  <2> QED BY <2>1, <2>2, <1>1
<1> HIDE DEF more
<1>6. AtMost(r, t, k + Weight(e, t))
  BY <1>1, <1>4, <1>5 DEF AtMost
<1> QED BY <1>6 DEF r

LEMMA OneTaken ==
  ASSUME NEW q \in Seq(Event), q # <<>>, NEW t, NEW k \in Int, AtMost(q, t, k)
  PROVE  AtMost(Tail(q), t, k - Weight(Head(q), t)) /\ Weight(Head(q), t) <= k
<1> DEFINE r == Tail(q)
           n == Len(r)
<1>1. /\ n \in Nat /\ n = Len(r) /\ Len(q) = n + 1 /\ Head(q) = q[1]
      /\ \A i \in 1 .. n : r[i] = q[i + 1]
  OBVIOUS
<1>2. PICK left \in [0 .. n + 1 -> Nat] :
         /\ left[n + 1] = 0 /\ left[0] <= k
         /\ \A i \in 1 .. n + 1 : left[i - 1] = left[i] + Weight(q[i], t)
  BY <1>1 DEF AtMost
<1> DEFINE rest == [i \in 0 .. n |-> left[i + 1]]
<1>3. Weight(Head(q), t) \in Nat
  BY WeightType
<1> HIDE DEF r, n
<1>4. left[0] = left[1] + Weight(q[1], t) /\ left[0] \in Nat /\ left[1] \in Nat
  BY <1>1, <1>2
<1>5. rest \in [0 .. n -> Nat] /\ rest[n] = 0 /\ rest[0] <= k - Weight(Head(q), t)
  BY <1>1, <1>2, <1>3, <1>4
<1>6. ASSUME NEW i \in 1 .. n
      PROVE  rest[i - 1] = rest[i] + Weight(r[i], t)
  <2>1. left[i] = left[i + 1] + Weight(q[i + 1], t)
    <3>1. i + 1 \in 1 .. n + 1 /\ (i + 1) - 1 = i
      BY <1>1
    <3> QED BY <3>1, <1>2
  <2>2. (i + 1) - 1 = i /\ rest[i - 1] = left[i] /\ rest[i] = left[i + 1] /\ r[i] = q[i + 1]
    BY <1>1
  <2> QED BY <2>1, <2>2
<1> HIDE DEF rest
<1>7. AtMost(r, t, k - Weight(Head(q), t))
  BY <1>1, <1>5, <1>6 DEF AtMost
<1> QED BY <1>1, <1>2, <1>3, <1>4, <1>7 DEF r

-----------------------------------------------------------------------------
(* Steps.                                                                  *)

LEMMA Amounts ==
  ASSUME TypeOK, NEW t \in Tasks
  PROVE  /\ started[t] \in Nat /\ allowed[t] \in Nat
         /\ Now(current, t) \in Nat /\ Now(current, t) <= 1
BY WeightType DEF Now, TypeOK, ExecOK, ConfOK

LEMMA AmountsNext ==
  ASSUME TypeOK', NEW t \in Tasks
  PROVE  /\ started'[t] \in Nat /\ allowed'[t] \in Nat
         /\ Now(current', t) \in Nat /\ Now(current', t) <= 1
BY WeightType DEF Now, TypeOK, ExecOK, ConfOK

LEMMA Queued == TypeOK => normal \in Seq(Event)
BY DEF TypeOK, BusOK

LEMMA QueuedNext == TypeOK' => normal' \in Seq(Event)
BY DEF TypeOK, BusOK

\* Work on the balance of one task: what a step spends, it had.
LEMMA Balance ==
  ASSUME TypeOK, TypeOK', NEW t \in Tasks, NEW w \in {0, 1},
         started[t] + Now(current, t) <= allowed[t],
         started'[t] + Now(current', t) + w - allowed'[t]
            <= started[t] + Now(current, t) - allowed[t]
  PROVE  /\ allowed[t] - started[t] - Now(current, t) + w
              <= allowed'[t] - started'[t] - Now(current', t)
         /\ started'[t] + Now(current', t) <= allowed'[t]
<1>1. /\ started[t] \in Nat /\ allowed[t] \in Nat /\ Now(current, t) \in Nat
      /\ started'[t] \in Nat /\ allowed'[t] \in Nat /\ Now(current', t) \in Nat
  BY Amounts, AmountsNext
<1> QED BY <1>1

\* A step that publishes event e, which what the task has left over pays for.
LEMMA PaysFor ==
  ASSUME TypeOK, TypeOK', NEW t \in Tasks, Funded(t),
         NEW e \in Event, normal' = normal \o <<e>>,
         started'[t] + Now(current', t) + Weight(e, t) - allowed'[t]
            <= started[t] + Now(current, t) - allowed[t]
  PROVE  Funded(t)'
<1> DEFINE k == allowed[t] - started[t] - Now(current, t)
           m == allowed'[t] - started'[t] - Now(current', t)
<1>1. k \in Int /\ normal \in Seq(Event) /\ AtMost(normal, t, k)
  BY Amounts, Queued DEF Funded
<1>2. m \in Int /\ normal' \in Seq(Event) /\ Weight(e, t) \in {0, 1}
  BY AmountsNext, QueuedNext, WeightType
<1>3. k + Weight(e, t) <= m /\ started'[t] + Now(current', t) <= allowed'[t]
  BY <1>2, Balance DEF Funded
<1>4. AtMost(normal', t, k + Weight(e, t))
  BY <1>1, OneQueued
<1>5. k + Weight(e, t) \in Int
  BY <1>1, <1>2
<1> HIDE DEF k, m
<1>6. AtMost(normal', t, m)
  BY <1>2, <1>3, <1>4, <1>5, MoreAllowed
<1> QED BY <1>3, <1>6 DEF Funded, m

\* A step that publishes nothing.
LEMMA StaysFunded ==
  ASSUME TypeOK, TypeOK', NEW t \in Tasks, Funded(t), normal' = normal,
         started'[t] + Now(current', t) - allowed'[t] <= started[t] + Now(current, t) - allowed[t]
  PROVE  Funded(t)'
<1> DEFINE k == allowed[t] - started[t] - Now(current, t)
           m == allowed'[t] - started'[t] - Now(current', t)
<1>1. k \in Int /\ normal \in Seq(Event) /\ AtMost(normal, t, k)
  BY Amounts, Queued DEF Funded
<1>2. m \in Int /\ k <= m /\ started'[t] + Now(current', t) <= allowed'[t]
  <2>1. started[t] + Now(current, t) <= allowed[t]
    BY DEF Funded
  <2>2. /\ started[t] \in Nat /\ allowed[t] \in Nat /\ Now(current, t) \in Nat
        /\ started'[t] \in Nat /\ allowed'[t] \in Nat /\ Now(current', t) \in Nat
    BY Amounts, AmountsNext
  <2> QED BY <2>1, <2>2
<1> HIDE DEF k, m
<1>3. AtMost(normal', t, m)
  BY <1>1, <1>2, MoreAllowed
<1> QED BY <1>2, <1>3 DEF Funded, m

\* An event that costs nothing is published, or nothing is.
LEMMA PlainStep ==
  ASSUME TypeOK, TypeOK', NEW t \in Tasks, Funded(t),
         current' \in {NoEvent, current},
         started'[t] = started[t], allowed'[t] = allowed[t],
         \/ normal' = normal
         \/ \E e \in Event : normal' = normal \o <<e>> /\ ~Paid(e, t)
  PROVE  Funded(t)'
<1>1. Now(current', t) <= Now(current, t)
  BY Amounts, AmountsNext, WeightType DEF Now
<1>2. started'[t] + Now(current', t) - allowed'[t] <= started[t] + Now(current, t) - allowed[t]
  BY <1>1, Amounts, AmountsNext
<1>3. CASE normal' = normal
  BY <1>2, <1>3, StaysFunded
<1>4. ASSUME NEW e \in Event, normal' = normal \o <<e>>, ~Paid(e, t)
      PROVE  Funded(t)'
  <2>1. Weight(e, t) = 0
    BY <1>4 DEF Weight
  <2>2. started'[t] + Now(current', t) + Weight(e, t) - allowed'[t] <= started[t] + Now(current, t) - allowed[t]
    BY <2>1, <1>2, Amounts, AmountsNext
  <2> QED BY <1>4, <2>2, PaysFor
<1> QED BY <1>3, <1>4

\* The bus takes its next event.
LEMMA DeliverFunded ==
  ASSUME TypeOK, TypeOK', OnlyFailures, NEW t \in Tasks, Funded(t), Deliver
  PROVE  Funded(t)'
<1>1. Now(current, t) = 0 /\ UNCHANGED <<started, allowed>> /\ urgent \in Seq(Event)
  BY DEF Deliver, Now, TypeOK, BusOK, execVars, confVars
<1>2. CASE urgent # <<>> /\ current' = Head(urgent) /\ UNCHANGED normal
  <2>1. current'.name = "task_failed"
    <3>1. Head(urgent) = urgent[1] /\ 1 \in DOMAIN urgent
      BY <1>1, <1>2
    <3> QED BY <1>2, <3>1 DEF OnlyFailures
  <2>2. Now(current', t) = 0
    BY <2>1 DEF Now, Weight, Paid
  <2> QED BY <1>1, <1>2, <2>2 DEF Funded
<1>3. CASE normal # <<>> /\ current' = Head(normal) /\ normal' = Tail(normal)
  <2> DEFINE k == allowed[t] - started[t] - Now(current, t)
  <2>1. k \in Int /\ normal \in Seq(Event) /\ AtMost(normal, t, k)
    BY Amounts, Queued DEF Funded
  <2>2. Head(normal) \in Event /\ Head(normal) # NoEvent
    BY <1>3, <2>1, NoEventAssumption
  <2>3. Now(current', t) = Weight(Head(normal), t)
    BY <1>3, <2>2 DEF Now
  <2>4. AtMost(normal', t, k - Now(current', t)) /\ Now(current', t) <= k
    BY <1>3, <2>1, <2>3, OneTaken
  <2>5. k - Now(current', t) = allowed'[t] - started'[t] - Now(current', t)
    BY <1>1, Amounts
  <2>6. started'[t] + Now(current', t) <= allowed'[t]
    BY <1>1, <2>4, Amounts, AmountsNext
  <2> QED BY <1>1, <2>4, <2>5, <2>6 DEF Funded
<1> QED BY <1>2, <1>3 DEF Deliver

\* What a gate publishes: nothing, or one event that is not the human's.
LEMMA GateEvent ==
  ASSUME TypeOK, OnTaskDispatched, NEW w, NEW gate \in {"safety_validator", "permission_guard"}
  PROVE  \/ Answer(w, current, gate) = <<>>
         \/ \E e \in Event :
              /\ Answer(w, current, gate) = <<e>> /\ e.task = current.task
              /\ \A t : ~Paid(e, t)
              /\ e.name = "task_safety_cleared" => w = "clear"
              /\ e.name \in {"task_safety_cleared", "confirmation_required"}
<1>1. current \in Event /\ current.task \in Tasks
  BY CurrentIsEvent DEF TypeOK, OnTaskDispatched
<1>2. CASE w = "clear"
  <2>1. /\ Ev("task_safety_cleared", current.task, gate, current.arg) \in Event
        /\ Answer(w, current, gate)
             = <<Ev("task_safety_cleared", current.task, gate, current.arg)>>
    BY <1>1, <1>2, CurrentIsEvent, EvType
       DEF Answer, Names, Sources, OnTaskDispatched, TypeOK
  <2> QED BY <1>2, <2>1 DEF Ev, Paid, FromHuman
<1>3. CASE w # "clear" /\ Answer(w, current, gate) # <<>>
  <2>1. /\ Ev("confirmation_required", current.task, gate, "plain") \in Event
        /\ Answer(w, current, gate)
             = <<Ev("confirmation_required", current.task, gate, "plain")>>
    BY <1>1, <1>3, EvType DEF Answer, Names, Sources, Args
  <2> QED BY <2>1 DEF Ev, Paid
<1> QED BY <1>2, <1>3

\* The gates spend nothing.
LEMMA GatesFunded ==
  ASSUME TypeOK, TypeOK', NEW t \in Tasks, Funded(t), OnTaskDispatched
  PROVE  Funded(t)'
<1> DEFINE a == Answer(ValidatorVerdict(current), current, "safety_validator")
           b == Answer(GuardVerdict(current), current, "permission_guard")
           k == allowed[t] - started[t] - Now(current, t)
           m == allowed'[t] - started'[t] - Now(current', t)
<1>1. normal' = normal \o a \o b /\ current' = NoEvent /\ UNCHANGED <<started, allowed>>
  BY DEF OnTaskDispatched, Handling, execVars, confVars
<1>2. ASSUME NEW q \in Seq(Event), AtMost(q, t, k), k \in Int,
             NEW x, x = <<>> \/ \E e \in Event : x = <<e>> /\ \A u : ~Paid(e, u)
      PROVE  q \o x \in Seq(Event) /\ AtMost(q \o x, t, k)
  <2> HIDE DEF a, b, k
  <2>1. CASE x = <<>>
    <3>1. q \o <<>> = q
      OBVIOUS
    <3> QED BY <1>2, <2>1, <3>1
  <2>2. ASSUME NEW e \in Event, x = <<e>>, ~Paid(e, t)
        PROVE  q \o x \in Seq(Event) /\ AtMost(q \o x, t, k)
    <3>1. AtMost(q \o <<e>>, t, k + Weight(e, t)) /\ q \o <<e>> \in Seq(Event)
      BY <1>2, OneQueued, OneMore
    <3>2. Weight(e, t) = 0 /\ k + 0 = k
      BY <1>2, <2>2 DEF Weight
    <3> QED BY <2>2, <3>1, <3>2
  <2> QED BY <1>2, <2>1, <2>2
<1>3. k \in Int /\ normal \in Seq(Event) /\ AtMost(normal, t, k)
  BY Amounts, Queued DEF Funded
<1>4. /\ a = <<>> \/ \E e \in Event : a = <<e>> /\ \A u : ~Paid(e, u)
      /\ b = <<>> \/ \E e \in Event : b = <<e>> /\ \A u : ~Paid(e, u)
  BY GateEvent
<1>5. m \in Int /\ k <= m /\ started'[t] + Now(current', t) <= allowed'[t]
  BY <1>1, Amounts, AmountsNext DEF Funded, Now
<1> HIDE DEF a, b, k, m
<1>6. normal \o a \in Seq(Event) /\ AtMost(normal \o a, t, k)
  BY <1>2, <1>3, <1>4
<1>7. normal' \in Seq(Event) /\ AtMost(normal', t, k)
  BY <1>1, <1>2, <1>3, <1>4, <1>6
<1>8. AtMost(normal', t, m)
  BY <1>3, <1>5, <1>7, MoreAllowed
<1> QED BY <1>5, <1>8 DEF Funded, m

\* The handlers that only publish, none of them a clearance or a dispatch.
LEMMA Interpreted ==
  ASSUME TypeOK,
         \/ ProcessIntent \/ ValidateAndRoute \/ MapIntent \/ CreatePlan
         \/ OnCapabilityMapped \/ ProcessQueue
  PROVE  /\ UNCHANGED <<started, allowed, record>> /\ current' \in {NoEvent, current}
         /\ \/ normal' = normal
            \/ \E e \in Event : /\ normal' = normal \o <<e>>
                                /\ e.name \notin {"task_safety_cleared", "task_dispatched_safe"}
<1> DEFINE Spending == {"task_safety_cleared", "task_dispatched_safe"}
<1>1. UNCHANGED <<started, allowed, record>> /\ current' \in {NoEvent, current}
  BY DEF ProcessIntent, ValidateAndRoute, MapIntent, CreatePlan,
     OnCapabilityMapped, ProcessQueue, Handling, execVars, confVars, orchVars
<1>2. \/ normal' = normal
      \/ \E e \in Event : normal' = normal \o <<e>> /\ e.name \notin Spending
  <2>1. ASSUME NEW n \in Names \ Spending, NEW u \in Tasks, NEW s \in Sources, NEW a \in Args,
               Publish(<<Ev(n, u, s, a)>>)
        PROVE  \E e \in Event : normal' = normal \o <<e>> /\ e.name \notin Spending
    BY <2>1, EvType DEF Publish, Ev
  <2>2. /\ {"intent_parsed", "confirmation_required", "intent_validated", "capability_mapped",
            "task_dispatched", "request_planning"} \subseteq Names \ Spending
        /\ {"llm_client", "system", "capability_mapper", "orchestrator", "decision_engine",
            "planner"} \subseteq Sources
        /\ {"plain", "decided"} \subseteq Args
    BY DEF Names, Sources, Args
  <2>3. CASE ProcessIntent
    <3>1. current.task \in Tasks
      BY <2>3, CurrentIsEvent DEF TypeOK, ProcessIntent
    <3> QED BY <2>1, <2>2, <2>3, <3>1 DEF ProcessIntent, Raise
  <2>4. CASE ValidateAndRoute
    <3>1. current.task \in Tasks
      BY <2>4, CurrentIsEvent DEF TypeOK, ValidateAndRoute
    <3> QED BY <2>1, <2>2, <2>4, <3>1 DEF ValidateAndRoute, Raise
  <2>5. CASE MapIntent
    <3>1. current.task \in Tasks
      BY <2>5, CurrentIsEvent DEF TypeOK, MapIntent
    <3> QED BY <2>1, <2>2, <2>5, <3>1 DEF MapIntent, Silent
  <2>6. CASE CreatePlan
    <3>1. current.task \in Tasks
      BY <2>6, CurrentIsEvent DEF TypeOK, CreatePlan
    <3> QED BY <2>1, <2>2, <2>6, <3>1 DEF CreatePlan, Raise
  <2>7. CASE OnCapabilityMapped
    <3>1. current.task \in Tasks
      BY <2>7, CurrentIsEvent DEF TypeOK, OnCapabilityMapped
    <3> QED BY <2>1, <2>2, <2>7, <3>1 DEF OnCapabilityMapped, Silent
  <2>8. CASE ProcessQueue
    <3>1. PICK u \in planQueue :
            Publish(<<Ev("request_planning", u, "decision_engine", "plain")>>)
      BY <2>8 DEF ProcessQueue
    <3> QED BY <2>1, <2>2, <3>1 DEF TypeOK
  <2> QED BY <2>3, <2>4, <2>5, <2>6, <2>7, <2>8
<1> QED BY <1>1, <1>2

LEMMA InterpretFunded ==
  ASSUME TypeOK, TypeOK', NEW t \in Tasks, Funded(t),
         \/ ProcessIntent \/ ValidateAndRoute \/ MapIntent \/ CreatePlan
         \/ OnCapabilityMapped \/ ProcessQueue
  PROVE  Funded(t)'
BY Interpreted, PlainStep DEF Paid

\* The confirmation desk: an allow pays for the clearance it publishes.
LEMMA DeskFunded ==
  ASSUME TypeOK, TypeOK', NEW t \in Tasks, Funded(t), NEW u \in Tasks,
         \/ OnConfirmationRequired \/ OnUserResponse \/ ConfirmationExpires(u)
         \/ \E arg \in {"allow", "deny", "none"} : UserResponds(u, arg)
  PROVE  Funded(t)'
<1>1. CASE OnConfirmationRequired \/ ConfirmationExpires(u)
  <2>1. normal' = normal /\ UNCHANGED <<started, allowed>> /\ current' \in {NoEvent, current}
    BY <1>1 DEF OnConfirmationRequired, ConfirmationExpires, Handling, Silent, Raise, execVars
  <2> QED BY <2>1, PlainStep
<1>2. CASE OnUserResponse
  <2>1. current.task \in Tasks /\ current' = NoEvent
    BY <1>2, CurrentIsEvent DEF TypeOK, OnUserResponse
  <2>2. UNCHANGED started
    BY <1>2 DEF OnUserResponse, execVars
  <2>3. CASE normal' = normal /\ UNCHANGED allowed
    BY <2>1, <2>2, <2>3, PlainStep
  <2>4. CASE /\ allowed' = [allowed EXCEPT ![current.task] = @ + 1]
             /\ Publish(<<Ev("task_safety_cleared", current.task, "confirmation_manager", "plain")>>)
    <3> DEFINE e == Ev("task_safety_cleared", current.task, "confirmation_manager", "plain")
    <3>1. e \in Event /\ normal' = normal \o <<e>>
      BY <2>1, <2>4, EvType DEF Names, Sources, Args, Publish
    <3>2. Weight(e, t) = IF current.task = t THEN 1 ELSE 0
      BY DEF Weight, Ev, Paid, FromHuman
    <3>3. allowed'[t] = allowed[t] + Weight(e, t)
      BY <2>1, <2>4, <3>2, Amounts DEF TypeOK, ConfOK
    <3>4. Now(current', t) = 0
      BY <2>1 DEF Now
    <3>5. started'[t] + Now(current', t) + Weight(e, t) - allowed'[t] <= started[t] + Now(current, t) - allowed[t]
      BY <2>2, <3>2, <3>3, <3>4, Amounts
    <3> HIDE DEF e
    <3> QED BY <3>1, <3>5, PaysFor
  <2> QED BY <1>2, <2>3, <2>4 DEF OnUserResponse, Silent, Raise
<1>3. ASSUME NEW arg \in {"allow", "deny", "none"}, UserResponds(u, arg) PROVE Funded(t)'
  <2> DEFINE e == Ev("user_response_received", u, "user", arg)
  <2>1. e \in Event /\ ~Paid(e, t) /\ normal' = normal \o <<e>>
    BY <1>3, EvType DEF Names, Sources, Args, Publish, Ev, Paid, UserResponds
  <2>2. UNCHANGED <<started, allowed>> /\ current' = current
    BY <1>3 DEF UserResponds, execVars, confVars
  <2> HIDE DEF e
  <2> QED BY <2>1, <2>2, PlainStep
<1> QED BY <1>1, <1>2, <1>3

\* A request comes in, a run ends, a task is forgotten.
LEMMA BookkeepingFunded ==
  ASSUME TypeOK, TypeOK', NEW t \in Tasks, Funded(t), NEW u \in Tasks,
         \/ UserInput(u) \/ HandleNewTask \/ HandleFailure \/ FinalizeTask
         \/ DiscardDispatched(u) \/ ValidatorForgets(u) \/ GuardForgets(u)
         \/ RunReports(u) \/ RunRaises(u) \/ ForgetTask(u)
  PROVE  Funded(t)'
<1>1. CASE HandleNewTask \/ HandleFailure \/ FinalizeTask
  <2>1. current.task \in Tasks /\ current' = NoEvent
    BY <1>1, CurrentIsEvent DEF TypeOK, HandleNewTask, HandleFailure, FinalizeTask
  <2>2. UNCHANGED <<started, allowed>>
    BY <1>1 DEF HandleNewTask, HandleFailure, FinalizeTask, execVars, confVars
  <2> DEFINE e == Ev("request_intent_parsing", current.task, "orchestrator", "plain")
  <2>3. e \in Event /\ ~Paid(e, t)
    BY <2>1, EvType DEF Names, Sources, Args, Ev, Paid
  <2>4. normal' = normal \/ normal' = normal \o <<e>>
    BY <1>1 DEF HandleNewTask, HandleFailure, FinalizeTask, Silent, Publish
  <2> HIDE DEF e
  <2> QED BY <2>1, <2>2, <2>3, <2>4, PlainStep
<1>2. CASE DiscardDispatched(u) \/ ValidatorForgets(u) \/ GuardForgets(u)
           \/ RunRaises(u) \/ ForgetTask(u)
  <2>1. UNCHANGED <<started, allowed, normal>> /\ current' = current
    BY <1>2 DEF DiscardDispatched, ValidatorForgets, GuardForgets, RunRaises, ForgetTask,
       busVars, execVars, confVars
  <2> QED BY <2>1, PlainStep
<1>3. CASE UserInput(u) \/ RunReports(u)
  <2>1. UNCHANGED <<started, allowed>> /\ current' = current
    BY <1>3 DEF UserInput, RunReports, execVars, confVars
  <2>2. ASSUME NEW e \in Event, ~Paid(e, t), normal' = normal \o <<e>>
        PROVE  Funded(t)'
    BY <2>1, <2>2, PlainStep
  <2>3. /\ Ev("user_input_received", u, "user", "plain") \in Event
        /\ ~Paid(Ev("user_input_received", u, "user", "plain"), t)
        /\ Ev("task_completed", u, "executor", "plain") \in Event
        /\ ~Paid(Ev("task_completed", u, "executor", "plain"), t)
    BY EvType DEF Names, Sources, Args, Ev, Paid
  <2>4. CASE normal' = normal
    BY <2>1, <2>4, PlainStep
  <2> QED BY <1>3, <2>2, <2>3, <2>4 DEF UserInput, RunReports, Publish, Raise
<1> QED BY <1>1, <1>2, <1>3

\* A dispatch of the task is what its clearance, now handled, becomes.
LEMMA DispatchFunded ==
  ASSUME TypeOK, TypeOK', NEW t \in Tasks, Funded(t),
         NEW w \in Tasks, NEW arg, DispatchToExecutor(w, arg),
         current' \in {NoEvent, current}, UNCHANGED <<started, allowed>>,
         w = t => Now(current, t) = 1 /\ current' = NoEvent
  PROVE  Funded(t)'
<1> DEFINE e == Ev("task_dispatched_safe", w, "orchestrator", DispatchArg(w, arg))
<1>1. e \in Event /\ normal' = normal \o <<e>>
  BY DispatchArgOK DEF DispatchToExecutor, Publish
<1>2. Weight(e, t) = IF w = t THEN 1 ELSE 0
  BY DEF Weight, Ev, Paid
<1>3. Now(current', t) <= Now(current, t) /\ (w = t => Now(current', t) = 0)
  BY Amounts DEF Now
<1> HIDE DEF e
<1>4. started'[t] + Now(current', t) + Weight(e, t) - allowed'[t] <= started[t] + Now(current, t) - allowed[t]
  <2>1. started[t] \in Nat /\ allowed[t] \in Nat /\ Now(current, t) \in Nat /\ Now(current', t) \in Nat
    BY Amounts, AmountsNext
  <2>2. CASE w = t
    BY <1>2, <1>3, <2>1, <2>2
  <2>3. CASE w # t
    BY <1>2, <1>3, <2>1, <2>3
  <2> QED BY <2>2, <2>3
<1> QED BY <1>1, <1>4, PaysFor

LEMMA SafetyClearedFunded ==
  ASSUME TypeOK, TypeOK', NEW t \in Tasks, Funded(t), OnSafetyCleared
  PROVE  Funded(t)'
<1>1. current \in Event /\ current.task \in Tasks /\ current' = NoEvent /\ current # NoEvent
  BY CurrentIsEvent DEF TypeOK, OnSafetyCleared, Handling
<1>2. UNCHANGED <<started, allowed>> /\ current.name = "task_safety_cleared"
  BY DEF OnSafetyCleared, execVars, confVars, Handling
<1>3. CASE Silent
  BY <1>1, <1>2, <1>3, PlainStep DEF Silent
<1>4. CASE FromHuman(current) /\ DispatchToExecutor(current.task, current.arg)
  <2>1. current.task = t => Now(current, t) = 1
    BY <1>1, <1>2, <1>4 DEF Now, Weight, Paid
  <2> QED BY <1>1, <1>2, <1>4, <2>1, DispatchFunded
<1> QED BY <1>3, <1>4 DEF OnSafetyCleared

\* The 100 ms callback dispatches nothing that is not of low risk.
LEMMA CallbackFunded ==
  ASSUME TypeOK, TypeOK', NEW t \in Tasks, Funded(t), NEW u \in Tasks,
         CheckLowRiskDispatch(u), u = t => ~LowRisk(t)
  PROVE  Funded(t)'
<1>1. UNCHANGED <<started, allowed, current>>
  BY DEF CheckLowRiskDispatch, execVars, confVars
<1>2. CASE Silent
  BY <1>1, <1>2, PlainStep DEF Silent
<1>3. CASE LowRisk(u) /\ DispatchToExecutor(u, record[u].safeEvent)
  BY <1>1, <1>3, DispatchFunded
<1> QED BY <1>2, <1>3 DEF CheckLowRiskDispatch

\* A dispatch pays for the execution it starts.
LEMMA ExecutorFunded ==
  ASSUME TypeOK, TypeOK', NEW t \in Tasks, Funded(t), ExecutePlan
  PROVE  Funded(t)'
<1>1. /\ current \in Event /\ current.task \in Tasks /\ current' = NoEvent /\ current # NoEvent
      /\ current.name = "task_dispatched_safe"
  BY CurrentIsEvent DEF TypeOK, ExecutePlan, Handling
<1>2. UNCHANGED <<allowed, normal>>
  BY DEF ExecutePlan, confVars, Silent
<1>3. Now(current', t) = 0 /\ Now(current, t) = IF current.task = t THEN 1 ELSE 0
  BY <1>1 DEF Now, Weight, Paid
<1>4. started'[t] \in {started[t], started[t] + Now(current, t)}
  BY <1>1, <1>3, Amounts DEF ExecutePlan, TypeOK, ExecOK
<1>5. started'[t] + Now(current', t) - allowed'[t] <= started[t] + Now(current, t) - allowed[t]
  BY <1>2, <1>3, <1>4, Amounts
<1> QED BY <1>2, <1>5, StaysFunded

\* A task that the 100 ms callback does not dispatch spends only what was allowed.
LEMMA FundedStep ==
  ASSUME TypeOK, TypeOK', OnlyFailures, [Next]_vars, NEW t \in Tasks, Funded(t),
         CheckLowRiskDispatch(t) => ~LowRisk(t)
  PROVE  Funded(t)'
<1>1. CASE Deliver
  BY <1>1, DeliverFunded
<1>2. CASE Listeners
  <2>1. CASE OnSafetyCleared
    BY <2>1, SafetyClearedFunded
  <2>2. CASE OnTaskDispatched
    BY <2>2, GatesFunded
  <2>3. CASE ExecutePlan
    BY <2>3, ExecutorFunded
  <2> QED BY <1>2, <2>1, <2>2, <2>3, InterpretFunded, DeskFunded, BookkeepingFunded DEF Listeners
<1>3. CASE ProcessQueue
  BY <1>3, InterpretFunded
<1>4. ASSUME NEW u \in Tasks, Timers(u) \/ Runs(u) \/ Human(u) PROVE Funded(t)'
  BY <1>4, DeskFunded, BookkeepingFunded, CallbackFunded DEF Timers, Runs, Human
<1>5. CASE UNCHANGED vars
  BY <1>5 DEF Funded, vars, busVars, confVars, execVars
<1> QED BY <1>1, <1>2, <1>3, <1>4, <1>5 DEF Next

\* Only failures overtake.
LEMMA OvertakingStep == ASSUME TypeOK, OnlyFailures, [Next]_vars PROVE OnlyFailures'
<1>1. ASSUME NEW e \in Event, e.name = "task_failed", urgent' = urgent \o <<e>>
      PROVE  OnlyFailures'
  <2>1. /\ urgent \in Seq(Event) /\ Len(urgent') = Len(urgent) + 1 /\ urgent'[Len(urgent) + 1] = e
        /\ \A i \in 1 .. Len(urgent) : urgent'[i] = urgent[i]
    BY <1>1 DEF TypeOK, BusOK
  <2> QED BY <1>1, <2>1 DEF OnlyFailures
<1>2. ASSUME NEW q \in Seq(Event), \A i \in DOMAIN q : q[i].name = "task_failed",
             NEW s, s = <<>> \/ \E e \in Event : s = <<e>> /\ e.name = "task_failed"
      PROVE  q \o s \in Seq(Event) /\ \A i \in DOMAIN (q \o s) : (q \o s)[i].name = "task_failed"
  <2>1. CASE s = <<>>
    <3>1. q \o <<>> = q
      OBVIOUS
    <3> QED BY <1>2, <2>1, <3>1
  <2>2. ASSUME NEW e \in Event, s = <<e>>, e.name = "task_failed"
        PROVE  q \o s \in Seq(Event)
               /\ \A i \in DOMAIN (q \o s) : (q \o s)[i].name = "task_failed"
    <3>1. /\ DOMAIN (q \o <<e>>) = 1 .. Len(q) + 1 /\ (q \o <<e>>)[Len(q) + 1] = e
          /\ DOMAIN q = 1 .. Len(q) /\ \A i \in 1 .. Len(q) : (q \o <<e>>)[i] = q[i]
          /\ Len(q) \in Nat /\ q \o <<e>> \in Seq(Event)
      OBVIOUS
    <3> QED BY <1>2, <2>2, <3>1
  <2> QED BY <1>2, <2>1, <2>2
<1>3. CASE UNCHANGED urgent
  BY <1>3 DEF OnlyFailures
<1>4. CASE Deliver
  <2>1. CASE urgent # <<>> /\ urgent' = Tail(urgent)
    <3>1. /\ urgent \in Seq(Event) /\ DOMAIN urgent' = 1 .. Len(urgent) - 1
          /\ DOMAIN urgent = 1 .. Len(urgent) /\ Len(urgent) \in Nat
          /\ \A i \in 1 .. Len(urgent) - 1 : urgent'[i] = urgent[i + 1]
      BY <2>1 DEF TypeOK, BusOK
    <3> SUFFICES ASSUME NEW i \in 1 .. Len(urgent) - 1 PROVE urgent'[i].name = "task_failed"
      BY <3>1 DEF OnlyFailures
    <3>2. i + 1 \in DOMAIN urgent
      BY <3>1
    <3> QED BY <3>1, <3>2 DEF OnlyFailures
  <2> QED BY <1>3, <1>4, <2>1 DEF Deliver
<1>5. CASE OnTaskDispatched
  <2> DEFINE v == ValidatorVerdict(current)
             g == GuardVerdict(current)
             n == violations[current.task] + (IF v = "refuse" THEN 1 ELSE 0)
             a == Refusal(v, current, "safety_validator", n)
             b == Refusal(g, current, "permission_guard", 0)
  <2>1. urgent' = urgent \o a \o b /\ current.task \in Tasks
    BY <1>5, CurrentIsEvent DEF OnTaskDispatched, TypeOK
  <2>2. \A w, k : \A gate \in {"safety_validator", "permission_guard"} :
           \/ Refusal(w, current, gate, k) = <<>>
           \/ \E e \in Event : Refusal(w, current, gate, k) = <<e>> /\ e.name = "task_failed"
    <3> SUFFICES ASSUME NEW w, NEW k, NEW gate \in {"safety_validator", "permission_guard"}
                 PROVE  \/ Refusal(w, current, gate, k) = <<>>
                        \/ \E e \in Event : /\ Refusal(w, current, gate, k) = <<e>>
                                            /\ e.name = "task_failed"
      OBVIOUS
    <3>1. /\ Ev("task_failed", current.task, gate, "plain") \in Event
          /\ Ev("task_failed", current.task, gate, "plain").name = "task_failed"
      BY <2>1, EvType DEF Names, Sources, Args, Ev
    <3> QED BY <3>1 DEF Refusal
  <2> HIDE DEF v, g, n
  <2>3. urgent \in Seq(Event)
    BY DEF TypeOK, BusOK
  <2>4. /\ urgent \o a \in Seq(Event)
        /\ \A i \in DOMAIN (urgent \o a) : (urgent \o a)[i].name = "task_failed"
    BY <1>2, <2>2, <2>3 DEF OnlyFailures
  <2>5. \A i \in DOMAIN (urgent \o a \o b) : (urgent \o a \o b)[i].name = "task_failed"
    BY <1>2, <2>2, <2>4
  <2> QED BY <2>1, <2>5 DEF OnlyFailures
<1>6. CASE Listeners /\ ~OnTaskDispatched
  <2>1. ASSUME NEW n, Handling(n) PROVE current.task \in Tasks
    BY <2>1, CurrentIsEvent DEF TypeOK
  <2>2. \A src \in {"system", "planner", "confirmation_manager"} : \A u \in Tasks :
          Ev("task_failed", u, src, "plain") \in Event /\ Ev("task_failed", u, src, "plain").name = "task_failed"
    BY EvType DEF Names, Sources, Args, Ev
  <2>3. \/ UNCHANGED urgent
        \/ /\ current.task \in Tasks
           /\ \E src \in {"system", "planner", "confirmation_manager"} :
                 Raise(<<Ev("task_failed", current.task, src, "plain")>>)
    BY <1>6, <2>1 DEF Listeners, HandleNewTask, ProcessIntent, ValidateAndRoute, MapIntent,
       OnCapabilityMapped, CreatePlan, OnConfirmationRequired, OnUserResponse, OnSafetyCleared,
       ExecutePlan, HandleFailure, FinalizeTask, Publish, Silent, DispatchToExecutor
  <2> QED BY <1>1, <1>3, <2>2, <2>3 DEF Raise
<1>7. ASSUME NEW u \in Tasks, Timers(u) \/ Runs(u) \/ Human(u) PROVE OnlyFailures'
  <2>1. \A src \in {"executor", "confirmation_manager"} :
          Ev("task_failed", u, src, "plain") \in Event /\ Ev("task_failed", u, src, "plain").name = "task_failed"
    BY EvType DEF Names, Sources, Args, Ev
  <2>2. \/ UNCHANGED urgent
        \/ \E src \in {"executor", "confirmation_manager"} :
              Raise(<<Ev("task_failed", u, src, "plain")>>)
    BY <1>7 DEF Timers, Runs, Human, CheckLowRiskDispatch, DiscardDispatched, ForgetTask,
       ValidatorForgets, GuardForgets, ConfirmationExpires, RunReports, RunRaises, UserInput,
       UserResponds, Publish, Silent, DispatchToExecutor, busVars
  <2> QED BY <1>1, <1>3, <2>1, <2>2 DEF Raise
<1>8. CASE ProcessQueue \/ UNCHANGED vars
  BY <1>3, <1>8 DEF ProcessQueue, Publish, vars, busVars
<1> QED BY <1>4, <1>5, <1>6, <1>7, <1>8 DEF Next

-----------------------------------------------------------------------------
(* No gate clears the task.                                                *)

\* A step that leaves the record alone and publishes no gate's clearance.
LEMMA StaysUnoffered ==
  ASSUME TypeOK, NEW t \in Tasks, Unoffered(t), record'[t].safeEvent = "none",
         current' \in {NoEvent, current},
         \/ normal' = normal
         \/ \E e \in Event : normal' = normal \o <<e>> /\ FromHumanOnly(e, t)
  PROVE  Unoffered(t)'
<1>1. CASE normal' = normal
  BY <1>1 DEF Unoffered
<1>2. ASSUME NEW e \in Event, normal' = normal \o <<e>>, FromHumanOnly(e, t)
      PROVE  Unoffered(t)'
  <2> HIDE DEF FromHumanOnly
  <2>1. /\ DOMAIN normal' = 1 .. Len(normal) + 1 /\ normal'[Len(normal) + 1] = e
        /\ DOMAIN normal = 1 .. Len(normal) /\ \A i \in 1 .. Len(normal) : normal'[i] = normal[i]
        /\ Len(normal) \in Nat
    BY <1>2 DEF TypeOK, BusOK
  <2>2. ASSUME NEW i \in DOMAIN normal' PROVE FromHumanOnly(normal'[i], t)
    <3>1. CASE i = Len(normal) + 1
      BY <1>2, <2>1, <3>1
    <3>2. CASE i \in DOMAIN normal
      BY <2>1, <3>2 DEF Unoffered
    <3>3. i = Len(normal) + 1 \/ i \in DOMAIN normal
      BY <2>1
    <3> QED BY <3>1, <3>2, <3>3
  <2>3. current' # NoEvent => FromHumanOnly(current', t)
    BY DEF Unoffered
  <2> QED BY <2>2, <2>3 DEF Unoffered
<1> QED BY <1>1, <1>2

LEMMA DeliverUnoffered ==
  ASSUME TypeOK, OnlyFailures, NEW t \in Tasks, Unoffered(t), Deliver
  PROVE  Unoffered(t)'
<1>1. record' = record /\ urgent \in Seq(Event) /\ normal \in Seq(Event)
  BY DEF Deliver, TypeOK, BusOK, orchVars
<1>2. CASE urgent # <<>> /\ current' = Head(urgent) /\ UNCHANGED normal
  <2>1. current'.name = "task_failed"
    <3>1. Head(urgent) = urgent[1] /\ 1 \in DOMAIN urgent
      BY <1>1, <1>2
    <3> QED BY <1>2, <3>1 DEF OnlyFailures
  <2> QED BY <1>1, <1>2, <2>1 DEF Unoffered, FromHumanOnly
<1>3. CASE normal # <<>> /\ current' = Head(normal) /\ normal' = Tail(normal)
  <2>1. /\ Head(normal) = normal[1] /\ 1 \in DOMAIN normal
        /\ \A i \in DOMAIN normal' : i + 1 \in DOMAIN normal /\ normal'[i] = normal[i + 1]
    BY <1>1, <1>3
  <2> QED BY <1>1, <1>3, <2>1 DEF Unoffered
<1> QED BY <1>2, <1>3 DEF Deliver

LEMMA GatesUnoffered ==
  ASSUME TypeOK, NEW t \in Tasks, Gated(t), Unoffered(t), OnTaskDispatched
  PROVE  Unoffered(t)'
<1> DEFINE a == Answer(ValidatorVerdict(current), current, "safety_validator")
           b == Answer(GuardVerdict(current), current, "permission_guard")
<1>1. normal' = normal \o a \o b /\ current' = NoEvent /\ record' = record /\ normal \in Seq(Event)
  BY DEF OnTaskDispatched, Handling, orchVars, TypeOK, BusOK
<1>2. current.task = t => ValidatorVerdict(current) # "clear" /\ GuardVerdict(current) # "clear"
  BY DEF Gated, ValidatorVerdict, GuardVerdict
<1>3. ASSUME NEW q \in Seq(Event), \A i \in DOMAIN q : FromHumanOnly(q[i], t),
             NEW x, x = <<>> \/ \E e \in Event : x = <<e>> /\ FromHumanOnly(e, t)
      PROVE  q \o x \in Seq(Event) /\ \A i \in DOMAIN (q \o x) : FromHumanOnly((q \o x)[i], t)
  <2> HIDE DEF FromHumanOnly, a, b
  <2>1. CASE x = <<>>
    <3>1. q \o <<>> = q
      OBVIOUS
    <3> QED BY <1>3, <2>1, <3>1
  <2>2. ASSUME NEW e \in Event, x = <<e>>, FromHumanOnly(e, t)
        PROVE  q \o x \in Seq(Event) /\ \A i \in DOMAIN (q \o x) : FromHumanOnly((q \o x)[i], t)
    <3>1. /\ DOMAIN (q \o <<e>>) = 1 .. Len(q) + 1 /\ (q \o <<e>>)[Len(q) + 1] = e
          /\ DOMAIN q = 1 .. Len(q) /\ \A i \in 1 .. Len(q) : (q \o <<e>>)[i] = q[i]
          /\ Len(q) \in Nat /\ q \o <<e>> \in Seq(Event)
      OBVIOUS
    <3> QED BY <1>3, <2>2, <3>1
  <2> QED BY <1>3, <2>1, <2>2
<1>4. /\ a = <<>> \/ \E e \in Event : a = <<e>> /\ FromHumanOnly(e, t)
      /\ b = <<>> \/ \E e \in Event : b = <<e>> /\ FromHumanOnly(e, t)
  BY <1>2, GateEvent DEF FromHumanOnly
<1> HIDE DEF a, b
<1>5. normal \o a \in Seq(Event) /\ \A i \in DOMAIN (normal \o a) : FromHumanOnly((normal \o a)[i], t)
  BY <1>1, <1>3, <1>4 DEF Unoffered
<1>6. \A i \in DOMAIN normal' : FromHumanOnly(normal'[i], t)
  BY <1>1, <1>3, <1>4, <1>5
<1> QED BY <1>1, <1>6 DEF Unoffered

LEMMA UnofferedStep ==
  ASSUME TypeOK, OnlyFailures, [Next]_vars, NEW t \in Tasks, Gated(t), Unoffered(t)
  PROVE  Unoffered(t)'
<1>1. CASE Deliver
  BY <1>1, DeliverUnoffered
<1>2. CASE OnTaskDispatched
  BY <1>2, GatesUnoffered
<1>3. ASSUME record'[t].safeEvent = "none", current' \in {NoEvent, current},
             NEW n \in Names, NEW u \in Tasks, NEW src \in Sources, NEW arg \in Args,
             n = "task_safety_cleared" => src = "confirmation_manager",
             Publish(<<Ev(n, u, src, arg)>>) \/ normal' = normal
      PROVE  Unoffered(t)'
  <2>1. /\ Ev(n, u, src, arg) \in Event /\ FromHumanOnly(Ev(n, u, src, arg), t)
    BY <1>3, EvType DEF Ev, FromHumanOnly, FromHuman
  <2> QED BY <1>3, <2>1, StaysUnoffered DEF Publish
<1>4. /\ {"user_input_received", "request_intent_parsing", "task_completed", "task_safety_cleared",
          "user_response_received", "task_dispatched_safe"} \subseteq Names
      /\ {"user", "orchestrator", "executor", "confirmation_manager"} \subseteq Sources
      /\ {"allow", "deny", "none", "plain", "decided"} \subseteq Args
      /\ "task_safety_cleared" \notin {"user_input_received", "request_intent_parsing",
            "task_completed", "user_response_received", "task_dispatched_safe"}
  BY DEF Names, Sources, Args
<1> HIDE DEF Names, Sources, Args
<1>5. CASE ProcessIntent \/ ValidateAndRoute \/ MapIntent \/ CreatePlan \/ OnCapabilityMapped
           \/ ProcessQueue
  <2>1. /\ record' = record /\ current' \in {NoEvent, current}
        /\ \/ normal' = normal
           \/ \E e \in Event : normal' = normal \o <<e>> /\ FromHumanOnly(e, t)
    BY <1>5, Interpreted DEF FromHumanOnly
  <2> QED BY <2>1, StaysUnoffered DEF Unoffered
<1>6. CASE HandleNewTask \/ HandleFailure \/ FinalizeTask \/ OnConfirmationRequired
  <2>1. current.task \in Tasks /\ current' = NoEvent
    BY <1>6, CurrentIsEvent
       DEF TypeOK, HandleNewTask, HandleFailure, FinalizeTask, OnConfirmationRequired
  <2>2. record'[t].safeEvent = "none"
    BY <1>6, <2>1 DEF HandleNewTask, HandleFailure, FinalizeTask, OnConfirmationRequired,
       Unoffered, TypeOK, OrchOK, Records, NewRecord
  <2>3. \/ Publish(<<Ev("request_intent_parsing", current.task, "orchestrator", "plain")>>)
        \/ normal' = normal
    BY <1>6 DEF HandleNewTask, HandleFailure, FinalizeTask, OnConfirmationRequired, Silent
  <2> QED BY <1>3, <1>4, <2>1, <2>2, <2>3
<1>7. CASE OnUserResponse
  <2>1. current.task \in Tasks /\ current' = NoEvent /\ record'[t].safeEvent = "none"
    BY <1>7, CurrentIsEvent DEF TypeOK, OnUserResponse, orchVars, Unoffered
  <2>2. \/ Publish(<<Ev("task_safety_cleared", current.task, "confirmation_manager", "plain")>>)
        \/ normal' = normal
    BY <1>7 DEF OnUserResponse, Silent, Raise
  <2> QED BY <1>3, <1>4, <2>1, <2>2
<1>8. CASE OnSafetyCleared
  <2>1. current \in Event /\ current.task \in Tasks /\ current' = NoEvent /\ current # NoEvent
        /\ current.name = "task_safety_cleared"
    BY <1>8, CurrentIsEvent DEF TypeOK, OnSafetyCleared, Handling
  <2>2. record'[t].safeEvent = "none"
    BY <1>8, <2>1 DEF OnSafetyCleared, Unoffered, FromHumanOnly, TypeOK, OrchOK, Records
  <2>3. DispatchArg(current.task, current.arg) \in Args
    BY <1>4, <2>1, DispatchArgOK
  <2>4. \/ Publish(<<Ev("task_dispatched_safe", current.task, "orchestrator",
                        DispatchArg(current.task, current.arg))>>)
        \/ normal' = normal
    BY <1>8 DEF OnSafetyCleared, DispatchToExecutor, Silent
  <2> QED BY <1>3, <1>4, <2>1, <2>2, <2>3, <2>4
<1>9. CASE ExecutePlan \/ UNCHANGED vars
  BY <1>9 DEF ExecutePlan, Handling, Silent, orchVars, Unoffered, vars, busVars
<1>10. ASSUME NEW u \in Tasks, CheckLowRiskDispatch(u) PROVE Unoffered(t)'
  <2>1. DispatchArg(u, record[u].safeEvent) \in Args
    BY <1>4, DispatchArgOK
  <2>2. record'[t].safeEvent = "none" /\ current' = current
    BY <1>10 DEF CheckLowRiskDispatch, Unoffered, LowRisk, TypeOK, OrchOK, Records
  <2>3. \/ Publish(<<Ev("task_dispatched_safe", u, "orchestrator",
                        DispatchArg(u, record[u].safeEvent))>>)
        \/ normal' = normal
    BY <1>10 DEF CheckLowRiskDispatch, DispatchToExecutor, Silent
  <2> QED BY <1>3, <1>4, <2>1, <2>2, <2>3
<1>11. ASSUME NEW u \in Tasks, Timers(u) \/ Runs(u) \/ Human(u), ~CheckLowRiskDispatch(u)
       PROVE  Unoffered(t)'
  <2>1. record'[t].safeEvent = "none" /\ current' = current
    BY <1>11 DEF Timers, Runs, Human, DiscardDispatched, ForgetTask, ValidatorForgets,
       GuardForgets, ConfirmationExpires, RunReports, RunRaises, UserInput, UserResponds,
       Unoffered, orchVars, busVars
  <2>2. \/ normal' = normal
        \/ Publish(<<Ev("user_input_received", u, "user", "plain")>>)
        \/ Publish(<<Ev("task_completed", u, "executor", "plain")>>)
        \/ \E arg \in {"allow", "deny", "none"} :
             Publish(<<Ev("user_response_received", u, "user", arg)>>)
    BY <1>11 DEF Timers, Runs, Human, DiscardDispatched, ForgetTask, ValidatorForgets,
       GuardForgets, ConfirmationExpires, RunReports, RunRaises, UserInput, UserResponds,
       busVars, Raise
  <2> QED BY <1>3, <1>4, <2>1, <2>2
<1> QED BY <1>1, <1>2, <1>5, <1>6, <1>7, <1>8, <1>9, <1>10, <1>11 DEF Next, Listeners

\* What a task is never changes.
LEMMA KindStays == [Next]_vars => kind' = kind
<1> SUFFICES ASSUME [Next]_vars PROVE kind' = kind
  OBVIOUS
<1>1. CASE Listeners
  BY <1>1 DEF Listeners, HandleNewTask, ProcessIntent, ValidateAndRoute, MapIntent,
     OnCapabilityMapped, CreatePlan, OnTaskDispatched, OnConfirmationRequired,
     OnUserResponse, OnSafetyCleared, ExecutePlan, HandleFailure, FinalizeTask, userVars
<1>2. ASSUME NEW u \in Tasks, Timers(u) \/ Runs(u) \/ Human(u) PROVE kind' = kind
  BY <1>2 DEF Timers, Runs, Human, CheckLowRiskDispatch, DiscardDispatched, ForgetTask,
     ValidatorForgets, GuardForgets, ConfirmationExpires, RunReports, RunRaises, UserInput,
     UserResponds, userVars
<1>3. CASE Deliver \/ ProcessQueue \/ UNCHANGED vars
  BY <1>3 DEF Deliver, ProcessQueue, vars, userVars
<1> QED BY <1>1, <1>2, <1>3 DEF Next

\* What was started, and what is on its way to the executor, was allowed, for every
\* task whose operation no gate clears.
THEOREM ClearanceInvariant == Spec => []ClearInv
<1>1. Init => ClearInv
  <2> SUFFICES ASSUME Init, NEW t \in Tasks PROVE Backed(t)
    BY InitOK DEF ClearInv, Init, OnlyFailures
  <2>1. normal = <<>> /\ started[t] = 0 /\ allowed[t] = 0 /\ Now(current, t) = 0
        /\ record[t].safeEvent = "none" /\ current = NoEvent
    BY DEF Init, Zero, NewRecord, Now
  <2>2. AtMost(<<>>, t, 0)
    BY NoneQueued
  <2> QED BY <2>1, <2>2 DEF Backed, Funded, Unoffered
<1>2. ClearInv /\ [Next]_vars => ClearInv'
  <2> SUFFICES ASSUME ClearInv, [Next]_vars PROVE ClearInv'
    OBVIOUS
  <2>1. TypeOK /\ TypeOK' /\ OnlyFailures /\ OnlyFailures'
    BY NextOK, OvertakingStep DEF ClearInv
  <2>2. ASSUME NEW t \in Tasks, Gated(t)' PROVE Backed(t)'
    <3>1. Gated(t) /\ Backed(t)
      BY <2>2, KindStays DEF Gated, ClearInv
    <3>2. ~LowRisk(t)
      BY <3>1 DEF Backed, Unoffered, LowRisk
    <3>3. Funded(t)'
      BY <2>1, <3>1, <3>2, FundedStep DEF Backed
    <3>4. Unoffered(t)'
      BY <2>1, <3>1, UnofferedStep DEF Backed
    <3> QED BY <3>3, <3>4 DEF Backed
  <2> QED BY <2>1, <2>2 DEF ClearInv
<1> QED BY <1>1, <1>2, PTL DEF Spec

\* An operation that no gate clears is started at most as often as the human
\* allowed it, whatever the gates forgot, the timers dropped and the bus delayed.
THEOREM NothingRunsUnallowed == Spec => []NoClearanceNoRun
<1>1. ClearInv => NoClearanceNoRun
  <2> SUFFICES ASSUME ClearInv, NEW t \in Tasks, Gated(t) PROVE started[t] <= allowed[t]
    BY DEF NoClearanceNoRun, Gated
  <2>1. started[t] + Now(current, t) <= allowed[t] /\ TypeOK
    BY DEF ClearInv, Backed, Funded
  <2> QED BY <2>1, Amounts
<1> QED BY <1>1, ClearanceInvariant, PTL

=============================================================================
