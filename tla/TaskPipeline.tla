---------------------------- MODULE TaskPipeline ----------------------------
(***************************************************************************)
(* The legacy task pipeline (USE_LANGGRAPH=false), from the user's words   *)
(* to the end of the execution: core/event_bus.py carries every message;   *)
(* llm_client, intent_parser and capability_mapper interpret the text;     *)
(* decision_engine and planner plan it; orchestrator keeps the task store; *)
(* safety/validator and safety/permission_guard are the two gates;         *)
(* safety/confirmation holds what a human must approve; executor runs it.  *)
(*                                                                         *)
(* The bus takes one event at a time and awaits every listener in turn     *)
(* (EventBus.run).  "current" is the event it is working on: Deliver pops  *)
(* it, and one action per event name is the whole of its listeners, in the *)
(* order lifecycle_manager.py subscribed them.  Timers (call_later, the    *)
(* pruning loops) are not bus events and fire between the two.             *)
(***************************************************************************)
EXTENDS Integers, Sequences

CONSTANTS
    Tasks,          \* task ids, one per user request
    Kinds,          \* the kinds of operation a request may turn out to be
    NoEvent,        \* "the bus is not working on an event"
    SlowListeners,  \* may a listener outside the pipeline keep the bus waiting?
    MaxResponses    \* answers the human sends for one task (bound of the model)

\* What one operation looks like to the gates: the verdict of the permission
\* guard on the orchestrator's payload, its verdict on the planner's (which has
\* no "parameters"), and the validator's, which reads the steps of either, makes
\* their paths normal ("a/../b" is "b" to it) and looks at the context too.

P(g, p, v) == [guard |-> g, guardOnPlan |-> p, validator |-> v]

Profile ==
  [ read         |-> P("clear",  "clear", "clear"),   \* list_dir, a safe command
    rawIpUrl     |-> P("clear",  "clear", "high"),    \* open_url on a raw address
    barred       |-> P("clear",  "clear", "refuse"),  \* a path under .git, a local URL
    command      |-> P("high",   "clear", "clear"),   \* a risky run_command
    sensitive    |-> P("high",   "clear", "high"),    \* write to a sensitive file
    envFile      |-> P("high",   "clear", "refuse"),  \* write to .env, or the context bars it
    badCommand   |-> P("refuse", "clear", "clear"),   \* a FORBIDDEN run_command
    roundabout   |-> P("refuse", "clear", "high"),    \* write to a/../.ssh/config
    traversal    |-> P("refuse", "clear", "refuse"),  \* write outside the tree
    delete       |-> P("high",   "high",  "high"),    \* delete_file, delete_dir
    deleteGit    |-> P("high",   "high",  "refuse"),  \* delete under .git, or .env
    deleteAround |-> P("refuse", "high",  "high"),    \* delete of a/../b
    deleteBeyond |-> P("refuse", "high",  "refuse") ] \* delete outside the tree

ASSUME KindsAssumption        == Kinds \subseteq DOMAIN Profile
ASSUME SlowListenersAssumption == SlowListeners \in BOOLEAN
ASSUME MaxResponsesAssumption == MaxResponses \in Nat

-----------------------------------------------------------------------------
(* Events.  "arg" is the only part of a payload that control depends on:   *)
(* whether a task payload carries a method_decision at its top level, and  *)
(* which answer a user_response_received carries ("none": no "choice").    *)

Names == { "user_input_received", "request_intent_parsing", "intent_parsed",
           "intent_validated", "capability_mapped", "request_planning",
           "task_dispatched", "task_safety_cleared", "confirmation_required",
           "user_response_received", "task_dispatched_safe", "task_completed",
           "task_failed" }
Sources == { "user", "llm_client", "system", "capability_mapper",
             "decision_engine", "planner", "orchestrator", "permission_guard",
             "safety_validator", "confirmation_manager", "executor" }
Args    == { "decided", "plain", "allow", "deny", "none" }
Event   == [name : Names, task : Tasks, src : Sources, arg : Args]

Ev(name, t, src, arg) == [name |-> name, task |-> t, src |-> src, arg |-> arg]

ASSUME NoEventAssumption == NoEvent \notin Event

\* The events whose listeners await the language model inside the bus loop.
ModelEvents == { "request_intent_parsing", "intent_parsed",
                 "intent_validated", "request_planning" }

VARIABLES
    kind,           \* what each request turns out to be
    urgent,         \* the bus queue: events of priority 10, first in first out
    normal,         \* the bus queue: events of priority 50
    current,        \* the event whose listeners are running
    planQueue,      \* decision_engine.task_queue
    active,         \* orchestrator.active_tasks
    record,         \* what active_tasks holds of a task
    dispatchedSafe, \* orchestrator._dispatched_safe
    checkTimers,    \* call_later(0.1, _check_low_risk_dispatch) not yet fired
    discardTimers,  \* call_later(5, _dispatched_safe.discard) not yet fired
    validatorSeen,  \* safety_validator._seen
    guardSeen,      \* permission_guard._seen
    violations,     \* safety_validator.violation_counts
    judged,         \* history: dispatches of a task that a gate did not drop
    pending,        \* confirmation_manager.pending_confirmations
    seenTaskIds,    \* executor._seen_task_ids
    decidedRuns,    \* _run_plan coroutines working from a method_decision
    waterfallRuns,  \* _run_plan coroutines on the capability waterfall
    forgetTimers,   \* call_later(5, _seen_task_ids.discard) not yet fired
    submitted,      \* requests the user has made
    responses,      \* answers sent for a task
    prompts,        \* history: ui_prompt_required events of a task
    allowed,        \* history: "allow" answers the confirmation manager took
    started         \* history: executions of a task

busVars   == <<urgent, normal, current>>
orchVars  == <<active, record, dispatchedSafe, checkTimers, discardTimers>>
gateVars  == <<validatorSeen, guardSeen, violations, judged>>
confVars  == <<pending, prompts, allowed>>
execVars  == <<seenTaskIds, decidedRuns, waterfallRuns, forgetTimers, started>>
userVars  == <<kind, submitted, responses>>
vars == <<busVars, orchVars, gateVars, confVars, execVars, userVars, planQueue>>

NewRecord == [highRisk |-> FALSE, safeEvent |-> "none", decision |-> FALSE]
Records   == [highRisk : BOOLEAN, safeEvent : Args, decision : BOOLEAN]

BusOK  == /\ urgent \in Seq(Event)
          /\ normal \in Seq(Event)
          /\ current \in Event \cup {NoEvent}
OrchOK == /\ active \in SUBSET Tasks
          /\ record \in [Tasks -> Records]
          /\ dispatchedSafe \in SUBSET Tasks
          /\ checkTimers \in [Tasks -> Nat]
          /\ discardTimers \in [Tasks -> Nat]
GateOK == /\ validatorSeen \in SUBSET Tasks
          /\ guardSeen \in SUBSET Tasks
          /\ violations \in [Tasks -> Nat]
          /\ judged \in [Tasks -> Nat]
ConfOK == /\ pending \in SUBSET Tasks
          /\ prompts \in [Tasks -> Nat]
          /\ allowed \in [Tasks -> Nat]
ExecOK == /\ seenTaskIds \in SUBSET Tasks
          /\ decidedRuns \in [Tasks -> Nat]
          /\ waterfallRuns \in [Tasks -> Nat]
          /\ forgetTimers \in [Tasks -> Nat]
          /\ started \in [Tasks -> Nat]
UserOK == /\ kind \in [Tasks -> Kinds]
          /\ submitted \in SUBSET Tasks
          /\ responses \in [Tasks -> Nat]

\* The type of every part of the state.
TypeOK == BusOK /\ OrchOK /\ GateOK /\ ConfOK /\ ExecOK /\ UserOK
          /\ planQueue \in SUBSET Tasks

Zero == [t \in Tasks |-> 0]

Init ==
  /\ kind \in [Tasks -> Kinds]
  /\ urgent = <<>> /\ normal = <<>> /\ current = NoEvent
  /\ planQueue = {}
  /\ active = {} /\ record = [t \in Tasks |-> NewRecord]
  /\ dispatchedSafe = {} /\ checkTimers = Zero /\ discardTimers = Zero
  /\ validatorSeen = {} /\ guardSeen = {} /\ violations = Zero /\ judged = Zero
  /\ pending = {} /\ prompts = Zero /\ allowed = Zero
  /\ seenTaskIds = {} /\ decidedRuns = Zero /\ waterfallRuns = Zero
  /\ forgetTimers = Zero /\ started = Zero
  /\ submitted = {} /\ responses = Zero

-----------------------------------------------------------------------------
(* The event bus.                                                          *)

\* emit / publish: an event whose name speaks of failure overtakes the rest.
Publish(events) == normal' = normal \o events /\ UNCHANGED urgent
Raise(events)   == urgent' = urgent \o events /\ UNCHANGED normal
Silent          == UNCHANGED <<urgent, normal>>

\* run: the next event is the oldest of the highest priority.  A task in
\* planQueue has already woken the decision engine's coroutine.
Deliver ==
  /\ current = NoEvent
  /\ planQueue = {}
  /\ \/ /\ urgent # <<>>
        /\ current' = Head(urgent)
        /\ urgent' = Tail(urgent)
        /\ UNCHANGED normal
     \/ /\ urgent = <<>> /\ normal # <<>>
        /\ current' = Head(normal)
        /\ normal' = Tail(normal)
        /\ UNCHANGED urgent
  /\ UNCHANGED <<orchVars, gateVars, confVars, execVars, userVars, planQueue>>

\* The listeners of the current event run to their end.
Handling(name) ==
  /\ current # NoEvent
  /\ current.name = name
  /\ current' = NoEvent

\* When loop timers get their turn: the bus is idle, or one of its listeners
\* is awaiting something slow.
BusIdle == current = NoEvent /\ urgent = <<>> /\ normal = <<>>

TimersRun ==
  /\ planQueue = {}
  /\ \/ BusIdle
     \/ current # NoEvent /\ (SlowListeners \/ current.name \in ModelEvents)

\* The 100 ms callbacks are due before any of the callbacks of 5 s and more.  So
\* are the loops that prune by age: a call to the model goes from provider to
\* provider with retries and limits up to 60 s each, and keeps the bus for minutes.
LongTimersRun == TimersRun /\ \A t \in Tasks : checkTimers[t] = 0

-----------------------------------------------------------------------------
(* From the user's words to a mapped capability.                           *)

\* The panel, the dashboard or the voice pipeline publishes user_input_received.
UserInput(t) ==
  /\ t \notin submitted
  /\ submitted' = submitted \cup {t}
  /\ Publish(<<Ev("user_input_received", t, "user", "plain")>>)
  /\ UNCHANGED <<current, kind, responses, orchVars, gateVars, confVars,
                 execVars, planQueue>>

\* Orchestrator.handle_new_task.
HandleNewTask ==
  /\ Handling("user_input_received")
  /\ active' = active \cup {current.task}
  /\ record' = [record EXCEPT ![current.task] = NewRecord]
  /\ Publish(<<Ev("request_intent_parsing", current.task, "orchestrator", "plain")>>)
  /\ UNCHANGED <<dispatchedSafe, checkTimers, discardTimers, gateVars, confVars,
                 execVars, userVars, planQueue>>

\* LLMClient.process_intent: a parsed intent, or the model (and the keyword
\* fallback) found none.
ProcessIntent ==
  /\ Handling("request_intent_parsing")
  /\ \/ Publish(<<Ev("intent_parsed", current.task, "llm_client", "plain")>>)
     \/ Raise(<<Ev("task_failed", current.task, "system", "plain")>>)
  /\ UNCHANGED <<orchVars, gateVars, confVars, execVars, userVars, planQueue>>

\* IntentParser.validate_and_route: an unknown intent fails the task, a risky
\* one goes straight to the human, the others go on to the mapper.
\* (route_to_mapper, the other listener, emits an event nobody listens to.)
ValidateAndRoute ==
  /\ Handling("intent_parsed")
  /\ \/ Raise(<<Ev("task_failed", current.task, "system", "plain")>>)
     \/ Publish(<<Ev("confirmation_required", current.task, "system", "plain")>>)
     \/ Publish(<<Ev("intent_validated", current.task, "system", "plain")>>)
  /\ UNCHANGED <<orchVars, gateVars, confVars, execVars, userVars, planQueue>>

\* CapabilityMapper.map_intent_to_capability; mapping_failed reaches no
\* listener of the pipeline.
MapIntent ==
  /\ Handling("intent_validated")
  /\ \/ Publish(<<Ev("capability_mapped", current.task, "capability_mapper", "plain")>>)
     \/ Silent
  /\ UNCHANGED <<orchVars, gateVars, confVars, execVars, userVars, planQueue>>

\* The listeners of capability_mapped: DecisionEngine.enqueue_task, then
\* Orchestrator.inject_task_metadata, which dispatches a task it still knows,
\* with the router's decision unless the router raised.
OnCapabilityMapped ==
  /\ Handling("capability_mapped")
  /\ planQueue' = planQueue \cup {current.task}
  /\ IF current.task \in active
     THEN \E arg \in {"decided", "plain"} :
            Publish(<<Ev("task_dispatched", current.task, "orchestrator", arg)>>)
     ELSE Silent
  /\ UNCHANGED <<orchVars, gateVars, confVars, execVars, userVars>>

\* DecisionEngine._process_queue, a coroutine of its own, ready as soon as the
\* queue is not empty: it publishes before the bus takes its next event.
ProcessQueue ==
  /\ \E t \in planQueue :
       /\ planQueue' = planQueue \ {t}
       /\ Publish(<<Ev("request_planning", t, "decision_engine", "plain")>>)
  /\ UNCHANGED <<current, orchVars, gateVars, confVars, execVars, userVars>>

\* Planner.create_plan dispatches the same task once more, without a decision.
CreatePlan ==
  /\ Handling("request_planning")
  /\ \/ Publish(<<Ev("task_dispatched", current.task, "planner", "plain")>>)
     \/ Raise(<<Ev("task_failed", current.task, "planner", "plain")>>)
  /\ UNCHANGED <<orchVars, gateVars, confVars, execVars, userVars, planQueue>>

-----------------------------------------------------------------------------
(* The two gates, both listeners of task_dispatched: the validator first.  *)

MaxViolations == 3

\* SafetyValidator.validate_task_safety: nothing for an id it remembers.
ValidatorVerdict(e) ==
  IF e.task \in validatorSeen THEN "ignore" ELSE Profile[kind[e.task]].validator

\* PermissionGuard.check and _evaluate_risk: the planner's payload has no
\* parameters to evaluate.
GuardVerdict(e) ==
  IF e.task \in guardSeen THEN "ignore"
  ELSE IF e.src = "planner" THEN Profile[kind[e.task]].guardOnPlan
  ELSE Profile[kind[e.task]].guard

\* What a gate publishes at normal priority for a verdict on event e.
Answer(verdict, e, gate) ==
  CASE verdict = "clear" -> <<Ev("task_safety_cleared", e.task, gate, e.arg)>>
    [] verdict = "high"  -> <<Ev("confirmation_required", e.task, gate, "plain")>>
    [] OTHER             -> <<>>

\* What it publishes at high priority for a refusal.  On its third violation the
\* validator publishes task_aborted instead, to which nothing listens.
Refusal(verdict, e, gate, offences) ==
  IF verdict = "refuse" /\ offences < MaxViolations
  THEN <<Ev("task_failed", e.task, gate, "plain")>>
  ELSE <<>>

OnTaskDispatched ==
  /\ Handling("task_dispatched")
  /\ LET e == current
         v == ValidatorVerdict(e)
         g == GuardVerdict(e)
         n == violations[e.task] + (IF v = "refuse" THEN 1 ELSE 0)
     IN /\ validatorSeen' = validatorSeen \cup {e.task}
        /\ guardSeen' = guardSeen \cup {e.task}
        /\ violations' = [violations EXCEPT ![e.task] = n]
        /\ judged' = IF v = "ignore" /\ g = "ignore" THEN judged
                     ELSE [judged EXCEPT ![e.task] = @ + 1]
        /\ normal' = normal \o Answer(v, e, "safety_validator")
                            \o Answer(g, e, "permission_guard")
        /\ urgent' = urgent \o Refusal(v, e, "safety_validator", n)
                            \o Refusal(g, e, "permission_guard", 0)
  /\ UNCHANGED <<orchVars, confVars, execVars, userVars, planQueue>>

\* _prune_seen_loop of each gate, once the id is 60 s old.
ValidatorForgets(t) ==
  /\ LongTimersRun
  /\ t \in validatorSeen
  /\ validatorSeen' = validatorSeen \ {t}
  /\ UNCHANGED <<guardSeen, violations, judged, busVars, orchVars, confVars, execVars,
                 userVars, planQueue>>

GuardForgets(t) ==
  /\ LongTimersRun
  /\ t \in guardSeen
  /\ guardSeen' = guardSeen \ {t}
  /\ UNCHANGED <<validatorSeen, violations, judged, busVars, orchVars, confVars, execVars,
                 userVars, planQueue>>

-----------------------------------------------------------------------------
(* Human confirmation.                                                     *)

\* Is the task held already?  And the mistake of not asking.
NotHeld(t) == FALSE
Held(t)    == t \in pending

\* The listeners of confirmation_required: hold_for_confirmation drops a
\* second request for a task it holds, then _mark_high_risk marks the record.
OnConfirmationRequired ==
  /\ Handling("confirmation_required")
  /\ LET t == current.task IN
     /\ pending' = pending \cup {t}
     /\ prompts' = IF Held(t) THEN prompts
                   ELSE [prompts EXCEPT ![t] = @ + 1]
     /\ record' = IF t \in active THEN [record EXCEPT ![t].highRisk = TRUE]
                  ELSE record
  /\ Silent
  /\ UNCHANGED <<allowed, active, dispatchedSafe, checkTimers, discardTimers,
                 gateVars, execVars, userVars, planQueue>>

\* The human answers a prompt, from the dashboard ("allow", "deny") or from
\* the panel, whose message has no "choice" field.
UserResponds(t, arg) ==
  /\ LongTimersRun
  /\ prompts[t] > 0
  /\ responses[t] < MaxResponses
  /\ responses' = [responses EXCEPT ![t] = @ + 1]
  /\ Publish(<<Ev("user_response_received", t, "user", arg)>>)
  /\ UNCHANGED <<current, kind, submitted, orchVars, gateVars, confVars, execVars,
                 planQueue>>

\* ConfirmationManager.handle_user_response: an answer without a choice raises
\* before anything is looked at; one for a task that is not held is dropped.
OnUserResponse ==
  /\ Handling("user_response_received")
  /\ LET t == current.task
         taken == t \in pending /\ current.arg # "none"
     IN \/ /\ ~taken
           /\ Silent
           /\ UNCHANGED <<pending, allowed>>
        \/ /\ taken /\ current.arg = "allow"
           /\ pending' = pending \ {t}
           /\ allowed' = [allowed EXCEPT ![t] = @ + 1]
           /\ Publish(<<Ev("task_safety_cleared", t, "confirmation_manager", "plain")>>)
        \/ /\ taken /\ current.arg = "deny"
           /\ pending' = pending \ {t}
           /\ UNCHANGED allowed
           /\ Raise(<<Ev("task_failed", t, "confirmation_manager", "plain")>>)
  /\ UNCHANGED <<prompts, orchVars, gateVars, execVars, userVars, planQueue>>

\* Mistakes the runs detect: expiry that allows, expiry that keeps the entry.
ConfirmationExpiresAllowing(t) ==
  /\ LongTimersRun
  /\ t \in pending
  /\ pending' = pending \ {t}
  /\ Publish(<<Ev("task_safety_cleared", t, "confirmation_manager", "plain")>>)
  /\ UNCHANGED <<current, prompts, allowed, orchVars, gateVars, execVars, userVars,
                 planQueue>>

ConfirmationExpiresKeeping(t) == LongTimersRun /\ t \in pending /\ UNCHANGED vars

\* ConfirmationManager._cleanup_expired_requests, after 300 s.
ConfirmationExpires(t) ==
  /\ LongTimersRun
  /\ t \in pending
  /\ pending' = pending \ {t}
  /\ Raise(<<Ev("task_failed", t, "confirmation_manager", "plain")>>)
  /\ UNCHANGED <<current, prompts, allowed, orchVars, gateVars, execVars, userVars,
                 planQueue>>

-----------------------------------------------------------------------------
(* Dispatch.                                                               *)

\* Orchestrator._dispatch_to_executor: a payload without a decision takes the
\* one an earlier dispatch left on the task.
DispatchArg(t, arg) ==
  IF arg = "decided" \/ record[t].decision THEN "decided" ELSE "plain"

DispatchToExecutor(t, arg) ==
  /\ dispatchedSafe' = dispatchedSafe \cup {t}
  /\ Publish(<<Ev("task_dispatched_safe", t, "orchestrator", DispatchArg(t, arg))>>)

\* The source of the clearance, and the mistake of not looking at it.
FromGate(e) == FALSE
FromHuman(e) == e.src = "confirmation_manager"

\* Orchestrator.handle_safety_cleared: what the human approved is dispatched at
\* once, what a gate cleared waits 100 ms for the other gate to object.
OnSafetyCleared ==
  /\ Handling("task_safety_cleared")
  /\ LET t == current.task
         byHuman == FromHuman(current)
     IN \/ /\ t \in dispatchedSafe
           /\ Silent
           /\ UNCHANGED <<record, dispatchedSafe, checkTimers>>
        \/ /\ t \notin dispatchedSafe /\ byHuman
           /\ DispatchToExecutor(t, current.arg)
           /\ UNCHANGED <<record, checkTimers>>
        \/ /\ t \notin dispatchedSafe /\ ~byHuman
           /\ record' = IF t \in active
                        THEN [record EXCEPT ![t].safeEvent = current.arg]
                        ELSE record
           /\ checkTimers' = [checkTimers EXCEPT ![t] = @ + 1]
           /\ Silent
           /\ UNCHANGED dispatchedSafe
  /\ UNCHANGED <<active, discardTimers, gateVars, confVars, execVars, userVars,
                 planQueue>>

\* Mistakes the runs detect: the mark, the earlier dispatch or a payload without
\* a decision is not thought of.
LowRiskUnmarked(t) == t \notin dispatchedSafe /\ t \in active /\ record[t].safeEvent # "none"
LowRiskRepeated(t) == t \in active /\ ~record[t].highRisk /\ record[t].safeEvent # "none"
LowRiskDecided(t)  == LowRiskUnmarked(t) /\ ~record[t].highRisk /\ record[t].safeEvent = "decided"

\* May the callback dispatch the task?  Orchestrator._check_low_risk_dispatch.
LowRisk(t) ==
  /\ t \notin dispatchedSafe
  /\ t \in active
  /\ ~record[t].highRisk
  /\ record[t].safeEvent # "none"

CheckLowRiskDispatch(t) ==
  /\ TimersRun
  /\ checkTimers[t] > 0
  /\ checkTimers' = [checkTimers EXCEPT ![t] = @ - 1]
  /\ \/ /\ LowRisk(t)
        /\ DispatchToExecutor(t, record[t].safeEvent)
        /\ record' = IF DispatchArg(t, record[t].safeEvent) = "decided"
                     THEN [record EXCEPT ![t].decision = TRUE]
                     ELSE record
     \/ /\ ~LowRisk(t)
        /\ Silent
        /\ UNCHANGED <<record, dispatchedSafe>>
  /\ UNCHANGED <<current, active, discardTimers, gateVars, confVars, execVars,
                 userVars, planQueue>>

\* Orchestrator.handle_failure: the task stays in active_tasks.
HandleFailure ==
  /\ Handling("task_failed")
  /\ discardTimers' = [discardTimers EXCEPT ![current.task] = @ + 1]
  /\ Silent
  /\ UNCHANGED <<active, record, dispatchedSafe, checkTimers, gateVars, confVars,
                 execVars, userVars, planQueue>>

\* Orchestrator.finalize_task.
FinalizeTask ==
  /\ Handling("task_completed")
  /\ active' = active \ {current.task}
  /\ record' = [record EXCEPT ![current.task] = NewRecord]
  /\ discardTimers' = [discardTimers EXCEPT ![current.task] = @ + 1]
  /\ Silent
  /\ UNCHANGED <<dispatchedSafe, checkTimers, gateVars, confVars, execVars, userVars,
                 planQueue>>

\* Mistake the runs detect: the discard runs whether or not it was armed.
DiscardUnarmed(t) ==
  /\ LongTimersRun
  /\ t \in dispatchedSafe
  /\ discardTimers' = [discardTimers EXCEPT ![t] = @ - 1]
  /\ dispatchedSafe' = dispatchedSafe \ {t}
  /\ UNCHANGED <<busVars, active, record, checkTimers, gateVars, confVars, execVars,
                 userVars, planQueue>>

\* The 5 s callback that handle_failure and finalize_task arm.
DiscardDispatched(t) ==
  /\ LongTimersRun
  /\ discardTimers[t] > 0
  /\ discardTimers' = [discardTimers EXCEPT ![t] = @ - 1]
  /\ dispatchedSafe' = dispatchedSafe \ {t}
  /\ UNCHANGED <<busVars, active, record, checkTimers, gateVars, confVars, execVars,
                 userVars, planQueue>>

-----------------------------------------------------------------------------
(* The executor.                                                           *)

\* The executor's dedup set; mistakes: no look at it, a look at _running_tasks.
NeverRemembers(t)  == FALSE
RunsNow(t)         == decidedRuns[t] + waterfallRuns[t] > 0
AlreadyRunning(t)  == t \in seenTaskIds

\* Executor.execute_plan: a coroutine per task, none for an id it remembers.
ExecutePlan ==
  /\ Handling("task_dispatched_safe")
  /\ LET t == current.task IN
     \/ /\ AlreadyRunning(t)
        /\ UNCHANGED <<seenTaskIds, decidedRuns, waterfallRuns, started>>
     \/ /\ ~AlreadyRunning(t)
        /\ seenTaskIds' = seenTaskIds \cup {t}
        /\ started' = [started EXCEPT ![t] = @ + 1]
        /\ \/ /\ current.arg = "decided"
              /\ decidedRuns' = [decidedRuns EXCEPT ![t] = @ + 1]
              /\ UNCHANGED waterfallRuns
           \/ /\ current.arg # "decided"
              /\ waterfallRuns' = [waterfallRuns EXCEPT ![t] = @ + 1]
              /\ UNCHANGED decidedRuns
  /\ Silent
  /\ UNCHANGED <<forgetTimers, orchVars, gateVars, confVars, userVars, planQueue>>

\* Executor._run_plan on the waterfall reports how it ended; _on_done arms the
\* 5 s timer that forgets the id.
RunReports(t) ==
  /\ waterfallRuns[t] > 0
  /\ waterfallRuns' = [waterfallRuns EXCEPT ![t] = @ - 1]
  /\ forgetTimers' = [forgetTimers EXCEPT ![t] = @ + 1]
  /\ \/ Publish(<<Ev("task_completed", t, "executor", "plain")>>)
     \/ Raise(<<Ev("task_failed", t, "executor", "plain")>>)
  /\ UNCHANGED <<current, seenTaskIds, decidedRuns, started, orchVars, gateVars,
                 confVars, userVars, planQueue>>

\* Executor._run_plan with a decision: _execute_with_decision returns four
\* values once the tool has run, three are unpacked, and the coroutine raises.
RunRaises(t) ==
  /\ decidedRuns[t] > 0
  /\ decidedRuns' = [decidedRuns EXCEPT ![t] = @ - 1]
  /\ forgetTimers' = [forgetTimers EXCEPT ![t] = @ + 1]
  /\ UNCHANGED <<busVars, seenTaskIds, waterfallRuns, started, orchVars, gateVars,
                 confVars, userVars, planQueue>>

\* Mistake the runs detect: the id is pruned by age, as the gates do.
ForgetByAge(t) ==
  /\ LongTimersRun
  /\ t \in seenTaskIds
  /\ seenTaskIds' = seenTaskIds \ {t}
  /\ UNCHANGED <<busVars, decidedRuns, waterfallRuns, forgetTimers, started, orchVars,
                 gateVars, confVars, userVars, planQueue>>

\* The 5 s callback that _on_done arms.
ForgetTask(t) ==
  /\ LongTimersRun
  /\ forgetTimers[t] > 0
  /\ forgetTimers' = [forgetTimers EXCEPT ![t] = @ - 1]
  /\ seenTaskIds' = seenTaskIds \ {t}
  /\ UNCHANGED <<busVars, decidedRuns, waterfallRuns, started, orchVars, gateVars,
                 confVars, userVars, planQueue>>

-----------------------------------------------------------------------------
\* What the bus does with the event it is working on.
Listeners ==
  \/ HandleNewTask \/ ProcessIntent \/ ValidateAndRoute \/ MapIntent
  \/ OnCapabilityMapped \/ CreatePlan \/ OnTaskDispatched
  \/ OnConfirmationRequired \/ OnUserResponse \/ OnSafetyCleared
  \/ ExecutePlan \/ HandleFailure \/ FinalizeTask

\* The other coroutines and timers of one task.
Timers(t) ==
  \/ CheckLowRiskDispatch(t) \/ DiscardDispatched(t) \/ ForgetTask(t)
  \/ ValidatorForgets(t) \/ GuardForgets(t) \/ ConfirmationExpires(t)

Runs(t) == RunReports(t) \/ RunRaises(t)

Human(t) == UserInput(t) \/ \E arg \in {"allow", "deny", "none"} : UserResponds(t, arg)

Next ==
  \/ Deliver \/ Listeners \/ ProcessQueue
  \/ \E t \in Tasks : Timers(t) \/ Runs(t) \/ Human(t)

Spec == Init /\ [][Next]_vars

\* The event loop runs what is ready: the bus and the decision engine take
\* their next item, and every timer that is due fires.  A model call is bounded
\* by its HTTP timeout and a tool by its own; the human need not do anything.
Fairness ==
  /\ WF_vars(Deliver) /\ WF_vars(Listeners) /\ WF_vars(ProcessQueue)
  /\ \A t \in Tasks : /\ WF_vars(CheckLowRiskDispatch(t))
                      /\ WF_vars(ConfirmationExpires(t))
                      /\ WF_vars(DiscardDispatched(t))
                      /\ WF_vars(ForgetTask(t))
                      /\ WF_vars(Runs(t))

FairSpec == Spec /\ Fairness

-----------------------------------------------------------------------------
(* Properties.                                                             *)

\* No bus delay, no forgotten id and no repeated dispatch makes the executor
\* run one task twice at the same time: a second _run_plan coroutine would
\* overwrite the first in _running_tasks.
AtMostOneRun == \A t \in Tasks : decidedRuns[t] + waterfallRuns[t] <= 1

\* The slot of a task as executor.py keeps it; "overlap" is none of RunSlots.
Slot(t) ==
  LET runs == decidedRuns[t] + waterfallRuns[t] IN
  CASE runs = 0 /\ forgetTimers[t] = 0 -> "free"
    [] runs = 1 /\ forgetTimers[t] = 0 -> "running"
    [] runs = 0 /\ forgetTimers[t] = 1 -> "cooling"
    [] OTHER                            -> "overlap"

Slots == INSTANCE RunSlots WITH slot <- [t \in Tasks |-> Slot(t)]

\* The executor's dedup set and its two timers implement one slot per task.
ImplementsRunSlots == Slots!Spec

\* The strengthening that makes both inductive: an id the executor remembers is
\* one that runs or one that a single armed timer will forget.
SeenMeansBusy ==
  \A t \in Tasks : decidedRuns[t] + waterfallRuns[t] + forgetTimers[t]
                     = IF t \in seenTaskIds THEN 1 ELSE 0

\* An operation that no gate clears, on either payload, runs at most as often
\* as the human allowed it: neither pruned ids, nor late duplicates, nor the
\* 5 s discards of _dispatched_safe open another way to the executor.
NoClearanceNoRun ==
  \A t \in Tasks :
    LET p == Profile[kind[t]] IN
    "clear" \notin {p.guard, p.guardOnPlan, p.validator} => started[t] <= allowed[t]

\* An operation that a gate finds high-risk runs at most as often as the human
\* allowed it, although the other gate may clear it: the 100 ms wait and the
\* mark on the record hold it back (orchestrator.py, risk_rules.py:44).
HighRiskNeedsAllow ==
  \A t \in Tasks :
    LET p == Profile[kind[t]] IN
    "high" \in {p.guard, p.validator} => started[t] <= allowed[t]

\* The orchestrator and the planner both dispatch a task and both gates may
\* object: unless a gate has judged the task twice, because it forgot it while the
\* planner waited for the model, the human sees one prompt for it.  (Only one is
\* ever shown, says confirmation.py:48 without that condition.)
OnePrompt == \A t \in Tasks : judged[t] <= 1 => prompts[t] <= 1

\* Two dispatches and two clearances, late timers and discards make one execution
\* of the task, unless a gate has judged it twice.
RunsOnce == \A t \in Tasks : judged[t] <= 1 => started[t] <= 1

\* A held task is let go: by an answer, or by the expiry loop.
HeldIsResolved == \A t \in Tasks : t \in pending ~> t \notin pending

\* A task the human allowed is executed.
AllowedRuns == \A t \in Tasks : allowed[t] > 0 ~> started[t] > 0

\* A task one gate cleared is executed, unless it was marked high-risk.
ClearedRuns ==
  \A t \in Tasks :
    (current # NoEvent /\ current.name = "task_safety_cleared" /\ current.task = t)
      ~> (started[t] > 0 \/ record[t].highRisk)

\* What risk_rules.py:45 says of FORBIDDEN: hard-blocked, never executed.
ForbiddenNeverRuns ==
  \A t \in Tasks :
    LET p == Profile[kind[t]] IN
    "refuse" \in {p.guard, p.validator} => started[t] = 0

\* What panel_controller.py:905 says of an answer given in the panel:
\* handle_user_response() resumes or aborts the paused task.
PanelAnswerCounts ==
  [][ (/\ current # NoEvent /\ current' = NoEvent
       /\ current.name = "user_response_received" /\ current.arg = "none"
       /\ current.task \in pending) => current.task \notin pending' ]_vars

\* What executor.py:46 says of a plan: its end is published, be it a success
\* or a failure.
RunIsReported ==
  [][ \A t \in Tasks :
        decidedRuns'[t] + waterfallRuns'[t] < decidedRuns[t] + waterfallRuns[t]
          => normal' # normal \/ urgent' # urgent ]_vars
=============================================================================
