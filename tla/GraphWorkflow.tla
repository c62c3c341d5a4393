--------------------------- MODULE GraphWorkflow ---------------------------
(***************************************************************************)
(* One run of the LangGraph workflow (USE_LANGGRAPH=true): the nodes and   *)
(* edges of graph/graph.py, the adapter that starts a run in a thread and  *)
(* answers for it, and the confirmation API that works, from the event     *)
(* loop, on the checkpoint the run leaves on disk.                         *)
(*                                                                         *)
(* A node is handed a copy of the state and returns the fields to update;  *)
(* LangGraph writes those and no others, follows the edge, and gives up    *)
(* after RecursionLimit nodes (GraphRecursionError).  One action is one    *)
(* node: what it computes, what it returns, and the edge taken after it.   *)
(* Runs share nothing but the checkpoint directory, where files of one     *)
(* task are never read for another, so one run is the whole model.         *)
(*                                                                         *)
(* Not reachable in this code and therefore not modelled: the cancel node  *)
(* (no code sets state.cancelled), the edge observe -> recover (it tests   *)
(* that state.context is a dict, and it is a ContextSnapshot), and a       *)
(* resumed run (resume_from_confirmation names UTC without importing it,   *)
(* so every answer to a paused run is refused and changes nothing).        *)
(***************************************************************************)
EXTENDS Integers, Sequences

CONSTANTS
    RecursionLimit,   \* nodes LangGraph runs before it gives up (25)
    FilterOn,         \* flags.USE_SAFETY_FILTERING
    MaxSteps,         \* steps a plan may have (bound of the model)
    MaxTries          \* executions of one run; what the limits below allow

ASSUME RecursionLimitAssumption == RecursionLimit \in Nat
ASSUME FilterOnAssumption       == FilterOn \in BOOLEAN
ASSUME MaxStepsAssumption       == MaxSteps \in Nat

MaxRetries == 3

\* From one execution to the next a run passes 3 nodes (a retry) or at least 5.
ASSUME MaxTriesAssumption ==
  MaxTries \in Nat /\ RecursionLimit <= 5 * MaxTries + 1

Nodes == { "intake", "observe", "analyze_intent", "retrieve_knowledge",
           "create_plan", "route", "safety_check", "confirmation",
           "execute_step", "verify_step", "recover", "reflect", "finalize" }

\* FailureCategory as far as a run tells categories apart; "none" is None.
Categories == { "none", "TRANSIENT", "ROUTING_MISMATCH", "ENVIRONMENTAL",
                "PLANNING_ERROR", "UNKNOWN" }
Strategies == { "RETRY", "OBSERVE", "ROUTE", "REPLAN", "ABORT" }

\* What a plan's steps are to the checks: the risk get_command_risk gives the
\* command ("high" stands for HIGH and FORBIDDEN), and whether the step itself
\* names a destructive operation.
Risks == { "low", "high" }

VARIABLES
    pc,            \* the node that runs next, or "END", "raised", "answered"
    used,          \* nodes LangGraph has run
    destructive,   \* does the user's text hold a destructive keyword?
    plan,          \* state.plan; "no" numbers the plans of the run, 0: none
    routing,       \* state.routing: the plan it was decided for, 0: None
    safety,        \* state.safety: the plan it was decided for, and its verdict
    paused,        \* state.paused
    checkpoint,    \* state.checkpoint_identifier, 0: None
    files,         \* the run's files in the checkpoint directory
    execution,     \* state.execution
    verification,  \* state.verification.status
    recovery,      \* state.recovery
    final,         \* state.final.success, "none": no FinalResult
    result,        \* the FinalResult the adapter returned
    attempts,      \* history: the executions, in order
    cancelled      \* history: did the API confirm a cancellation?

vars == <<pc, used, destructive, plan, routing, safety, paused, checkpoint,
          files, execution, verification, recovery, final, result, attempts,
          cancelled>>

Plan       == [no : Nat, steps : 0..MaxSteps, index : Nat, risk : Risks,
               destructive : BOOLEAN]
Safety     == [plan : Nat, confirm : BOOLEAN]
Execution  == [status : {"none", "completed", "failed"}, success : BOOLEAN,
               category : Categories]
Recovery   == [strategy : Strategies \cup {"none"}, retries : 0..MaxRetries]
Result     == [kind : {"none", "success", "paused", "error"}, checkpoint : Nat]
Attempt    == [plan : Nat, step : Nat, risk : Risks, confirm : BOOLEAN,
               ok : BOOLEAN]

NoPlan      == [no |-> 0, steps |-> 0, index |-> 0, risk |-> "low",
                destructive |-> FALSE]
NoSafety    == [plan |-> 0, confirm |-> FALSE]
NoExecution == [status |-> "none", success |-> FALSE, category |-> "none"]
NoRecovery  == [strategy |-> "none", retries |-> 0]
NoResult    == [kind |-> "none", checkpoint |-> 0]

-----------------------------------------------------------------------------
(* LangGraph: running a node, raising from one, giving up.                 *)

Running(n) == pc = n /\ used < RecursionLimit

Goto(n) == pc' = n /\ used' = used + 1

Raise == pc' = "raised" /\ used' = used + 1

Outside == UNCHANGED <<destructive, files, result, cancelled>>

\* run_task raises on, and the adapter turns the exception into a result.
GraphRecursionError ==
  /\ pc \in Nodes \cup {"END"}
  /\ used = RecursionLimit
  /\ pc' = "raised"
  /\ UNCHANGED <<used, destructive, plan, routing, safety, paused, checkpoint,
                 files, execution, verification, recovery, final, result,
                 attempts, cancelled>>

-----------------------------------------------------------------------------
(* From the request to a plan.                                             *)

\* Nodes whose result no later node's control depends on: intake writes the
\* trace, analyze_intent and retrieve_knowledge fall back when their services
\* fail, reflect swallows every error.
PassThrough(n, m) ==
  /\ Running(n)
  /\ Goto(m)
  /\ UNCHANGED <<plan, routing, safety, paused, checkpoint, execution,
                 verification, recovery, final, attempts>>
  /\ Outside

Intake == PassThrough("intake", "observe")

\* A context that cannot be gathered is handled by a function observe.py does
\* not import: the node raises.  A recovery observation gathers none.
Observe ==
  /\ Running("observe")
  /\ \/ Goto("analyze_intent")
     \/ recovery.strategy # "OBSERVE" /\ Raise
  /\ UNCHANGED <<plan, routing, safety, paused, checkpoint, execution,
                 verification, recovery, final, attempts>>
  /\ Outside

AnalyzeIntent == PassThrough("analyze_intent", "retrieve_knowledge")

RetrieveKnowledge == PassThrough("retrieve_knowledge", "create_plan")

\* A plan of the model or of a fallback; the list of an LLM plan may be empty.
GeneratedPlans == [no : {plan.no + 1}, steps : 0..MaxSteps, index : {0},
                   risk : Risks, destructive : BOOLEAN]

CreatePlan ==
  /\ Running("create_plan")
  /\ plan' \in GeneratedPlans
  /\ Goto("route")
  /\ UNCHANGED <<routing, safety, paused, checkpoint, execution, verification,
                 recovery, final, attempts>>
  /\ Outside

-----------------------------------------------------------------------------
(* From a plan to its first execution: the two safety gates of the graph.  *)

HasStep == plan.index < plan.steps

\* Mutant: the flag read the wrong way round.
PassesFilterInverted == FilterOn \/ plan.risk = "low"

\* The filter asks for the risk of the step's command, the same for every
\* candidate: it keeps all of them or none.
PassesFilter == ~FilterOn \/ plan.risk = "low"

\* Mutant: a routing that failed returns {} and keeps the decision of before.
RouteKeepsOld ==
  /\ Running("route")
  /\ \/ HasStep /\ PassesFilter /\ routing' = plan.no
     \/ routing' = routing
  /\ Goto("safety_check")
  /\ UNCHANGED <<plan, safety, paused, checkpoint, execution, verification,
                 recovery, final, attempts>>
  /\ Outside

\* Ranking may leave no candidate, discovery or evaluation may fail: all of
\* these return {"routing": None} and go on to the safety check.
Route ==
  /\ Running("route")
  /\ \/ HasStep /\ PassesFilter /\ routing' = plan.no
     \/ routing' = 0
  /\ Goto("safety_check")
  /\ UNCHANGED <<plan, safety, paused, checkpoint, execution, verification,
                 recovery, final, attempts>>
  /\ Outside

\* PlanStep has no "arguments", so risk assessment and path check see nothing;
\* _SERVICE_RISK holds members of another RiskLevel.  The keywords are left.
NeedsConfirmation == destructive \/ (HasStep /\ plan.destructive)

SafetyCheck ==
  /\ Running("safety_check")
  /\ safety' = [plan |-> plan.no, confirm |-> NeedsConfirmation]
  /\ Goto(IF NeedsConfirmation THEN "confirmation" ELSE "execute_step")
  /\ UNCHANGED <<plan, routing, paused, checkpoint, execution, verification,
                 recovery, final, attempts>>
  /\ Outside

CreateCheckpoint == checkpoint' = checkpoint + 1
                    /\ files' = files \cup {checkpoint + 1}

\* Mutant: the identifier of the checkpoint is not among the fields returned.
ConfirmationLosesIdentifier ==
  /\ Running("confirmation")
  /\ paused' = TRUE
  /\ files' = files \cup {checkpoint + 1}
  /\ Goto("execute_step")
  /\ UNCHANGED <<destructive, plan, routing, safety, checkpoint, execution,
                 verification, recovery, final, result, attempts, cancelled>>

\* The node marks the run paused and leaves a checkpoint; the edge after it
\* leads straight on.
Confirmation ==
  /\ Running("confirmation")
  /\ paused' = TRUE
  /\ CreateCheckpoint
  /\ Goto("execute_step")
  /\ UNCHANGED <<destructive, plan, routing, safety, execution, verification,
                 recovery, final, result, attempts, cancelled>>

-----------------------------------------------------------------------------
(* Execution, verification and recovery.                                   *)

Completed == [status |-> "completed", success |-> TRUE, category |-> "none"]
Failed(c) == [status |-> "failed", success |-> FALSE, category |-> c]

\* The executor's answer, or a placeholder's; a timeout of 60 s is UNKNOWN,
\* an error of the node itself has no category.
Executions == {Completed} \cup {Failed(c) : c \in Categories}

\* TaskStatus.COMPLETED.value is "completed".
GetExecutionSuccess(e) == e.status = "COMPLETED" /\ e.success

ValidState == plan.no # 0 /\ routing # 0

\* validate_state_for_node raises outside the node's try.
ExecuteStep ==
  /\ Running("execute_step")
  /\ \/ /\ ~ValidState
        /\ Raise
        /\ UNCHANGED <<plan, execution, attempts>>
     \/ /\ ValidState
        /\ \E e \in Executions :
             /\ execution' = e
             /\ attempts' = Append(attempts,
                  [plan |-> plan.no, step |-> plan.index + 1,
                   risk |-> plan.risk, confirm |-> safety.confirm,
                   ok |-> e.success])
             /\ plan' = [plan EXCEPT !.index =
                           IF GetExecutionSuccess(e) THEN @ + 1 ELSE @]
        /\ Goto("verify_step")
  /\ UNCHANGED <<routing, safety, paused, checkpoint, verification, recovery,
                 final>>
  /\ Outside

\* A success is never confirmed by looking: when the context can be gathered,
\* _verify_postconditions falls off the end of its try, and None is UNCERTAIN.
Verdicts == IF execution.status = "completed" /\ execution.success
              THEN {"UNCERTAIN", "VERIFIED"} ELSE {"FAILED"}

VerifyStep ==
  /\ Running("verify_step")
  /\ verification' \in Verdicts
  /\ Goto(IF verification' = "VERIFIED" THEN "reflect" ELSE "recover")
  /\ UNCHANGED <<plan, routing, safety, paused, checkpoint, execution,
                 recovery, final, attempts>>
  /\ Outside

\* Mutant: a failure without a category counts as transient.
ClassifyAsTransient == IF execution.category # "none" THEN execution.category
                                                      ELSE "TRANSIENT"

\* No text a verification of this code gives as its reason names a category.
Classify == IF execution.category # "none" THEN execution.category
                                           ELSE "UNKNOWN"

\* create_plan calls every step CONDITIONAL or IDEMPOTENT, and LOCAL or
\* READ_ONLY, which leaves one condition of _is_safe_to_retry.
IsSafeToRetry == HasStep

Strategy ==
  IF recovery.retries >= MaxRetries THEN "ABORT"
  ELSE CASE Classify = "TRANSIENT" /\ IsSafeToRetry  -> "RETRY"
         [] Classify = "TRANSIENT" /\ ~IsSafeToRetry -> "OBSERVE"
         [] Classify = "ROUTING_MISMATCH"            -> "ROUTE"
         [] Classify = "PLANNING_ERROR"              -> "REPLAN"
         [] OTHER                                    -> "ABORT"

TargetStage == [ RETRY   |-> "execute_step", OBSERVE |-> "observe",
                 ROUTE   |-> "route",        REPLAN  |-> "create_plan",
                 ABORT   |-> "finalize" ]

\* Mutants: every recovery counts as a retry; the count of before is forgotten.
CountEvery(strategy)     == recovery.retries + 1
CountForgotten(strategy) == IF strategy = "RETRY" THEN 1 ELSE recovery.retries

RetryCount(strategy) == IF strategy = "RETRY" THEN recovery.retries + 1
                                              ELSE recovery.retries

Recover ==
  /\ Running("recover")
  /\ recovery' = [strategy |-> Strategy, retries |-> RetryCount(Strategy)]
  /\ Goto(TargetStage[Strategy])
  /\ UNCHANGED <<plan, routing, safety, paused, checkpoint, execution,
                 verification, final, attempts>>
  /\ Outside

Reflect == PassThrough("reflect", "finalize")

\* success is "no critical error in state.errors"; the list a node appends to
\* is a copy that is not returned, and no error is classified as critical.
Finalize ==
  /\ Running("finalize")
  /\ final' = "success"
  /\ Goto("END")
  /\ UNCHANGED <<plan, routing, safety, paused, checkpoint, execution,
                 verification, recovery, attempts>>
  /\ Outside

-----------------------------------------------------------------------------
(* Around the graph: the adapter in the event loop and the REST routes.    *)

Answer(r) ==
  /\ result' = r
  /\ pc' = "answered"
  /\ UNCHANGED <<used, destructive, plan, routing, safety, paused, checkpoint,
                 files, execution, verification, recovery, final, attempts,
                 cancelled>>

\* Mutant: state.final is looked at before state.paused.
AdapterReturnsFinal ==
  /\ pc = "END"
  /\ Answer(IF final # "none" THEN [kind |-> final, checkpoint |-> 0]
             ELSE [kind |-> "paused", checkpoint |-> checkpoint])

AdapterReturns ==
  /\ pc = "END"
  /\ Answer(IF paused THEN [kind |-> "paused", checkpoint |-> checkpoint]
             ELSE [kind |-> IF final = "none" THEN "success" ELSE final,
                   checkpoint |-> 0])

\* Mutant: only LangGraph's own error is caught.
AdapterFailsOnLimit ==
  /\ pc = "raised"
  /\ used = RecursionLimit
  /\ Answer([kind |-> "error", checkpoint |-> 0])

AdapterFails ==
  /\ pc = "raised"
  /\ Answer([kind |-> "error", checkpoint |-> 0])

LatestCheckpoint == {f \in files : \A g \in files : g <= f}

\* DELETE /api/confirmations/{task_id}, while the run is on or after it.
CancelConfirmation ==
  /\ files # {}
  /\ files' = files \ LatestCheckpoint
  /\ cancelled' = TRUE
  /\ UNCHANGED <<pc, used, destructive, plan, routing, safety, paused,
                 checkpoint, execution, verification, recovery, final, result,
                 attempts>>

-----------------------------------------------------------------------------
Init ==
  /\ pc = "intake" /\ used = 0
  /\ destructive \in BOOLEAN
  /\ plan = NoPlan /\ routing = 0 /\ safety = NoSafety
  /\ paused = FALSE /\ checkpoint = 0 /\ files = {}
  /\ execution = NoExecution /\ verification = "none"
  /\ recovery = NoRecovery /\ final = "none" /\ result = NoResult
  /\ attempts = <<>> /\ cancelled = FALSE

RunNode ==
  \/ Intake      \/ Observe       \/ AnalyzeIntent \/ RetrieveKnowledge
  \/ CreatePlan  \/ Route         \/ SafetyCheck   \/ Confirmation
  \/ ExecuteStep \/ VerifyStep    \/ Recover       \/ Reflect
  \/ Finalize    \/ GraphRecursionError

Adapter == AdapterReturns \/ AdapterFails

Next == RunNode \/ Adapter \/ CancelConfirmation

\* A node is a function call that returns: the calls that could hang (model,
\* executor) run under run_async_safely's timeouts.  Nobody has to cancel.
Fairness == WF_vars(RunNode) /\ WF_vars(Adapter)

Spec == Init /\ [][Next]_vars /\ Fairness

-----------------------------------------------------------------------------
(* Properties.                                                             *)

TypeOK ==
  /\ pc \in Nodes \cup {"END", "raised", "answered"}
  /\ used \in 0..RecursionLimit
  /\ destructive \in BOOLEAN
  /\ plan \in Plan
  /\ routing \in Nat
  /\ safety \in Safety
  /\ paused \in BOOLEAN
  /\ checkpoint \in Nat
  /\ files \subseteq 1..checkpoint
  /\ execution \in Execution
  /\ verification \in {"none", "FAILED", "UNCERTAIN", "VERIFIED"}
  /\ recovery \in Recovery
  /\ final \in {"none", "success"}
  /\ result \in Result
  /\ attempts \in Seq(Attempt)
  /\ cancelled \in BOOLEAN

\* A step that succeeded is never executed again in its run, although the
\* verification of a success ends as UNCERTAIN and sends the run to recovery
\* (verify_step.py: the missing return; recover.py: UNKNOWN means abort).
SuccessIsLast == \A i \in 1..Len(attempts) - 1 : ~attempts[i].ok

\* With the filter on no command of HIGH or FORBIDDEN risk is executed, also
\* when an earlier plan of the run had a decision the filter let through.
FilteredPlansOnly ==
  FilterOn => \A i \in 1..Len(attempts) : attempts[i].risk = "low"

\* A step is executed on a routing decision and a safety decision made for the
\* plan it belongs to, never on one a recovery left behind (recover.py's
\* targets, graph.py's edges).
DecidedForThisPlan ==
  [][attempts' # attempts => /\ routing = plan.no
                             /\ safety.plan = plan.no]_vars

\* The caller is not told "success" of a run that executed something its
\* safety check wanted confirmed: that run is answered as paused
\* (runtime_adapter.py looks at state.paused first).
AnswerTellsPaused ==
  result.kind = "success" =>
    \A i \in 1..Len(attempts) : ~attempts[i].confirm

\* An answer "paused" carries the last checkpoint of the run, and the file is
\* there unless somebody cancelled the confirmation meanwhile.
PausedAnswerIsResumable ==
  result.kind = "paused" => /\ \A f \in files : f <= result.checkpoint
                            /\ result.checkpoint \in files \/ cancelled

\* Whatever fails, the adapter answers for the run in the end.
RunIsAnswered == <>(result.kind # "none")

\* A run is tried a bounded number of times, never after a success and never
\* after the answer, though routing and planning errors are not counted.
Tries == INSTANCE AttemptBudget
           WITH Budget    <- MaxTries,
                tries     <- Len(attempts),
                succeeded <- attempts # <<>> /\ attempts[Len(attempts)].ok,
                answered  <- pc = "answered"

WithinBudget == Tries!Spec

-----------------------------------------------------------------------------
(* What comments of the repository say and the code does not do.           *)

\* "Cancel a pending confirmation and abort the workflow" (resume_manager.py,
\* cancel_confirmation): once cancelled, the run executes nothing more.
CancelStopsTheRun == [][cancelled => attempts' = attempts]_vars

\* "Not safe to retry (non-idempotent or high side-effect): observe to check
\* if operation already happened" (recover.py): a step the safety check calls
\* destructive is not retried as it stands.
NoBlindRetry ==
  [][attempts' # attempts /\ attempts # <<>> /\ safety.confirm
       => recovery.strategy # "RETRY"]_vars

\* "Determine success based on errors" (finalize.py): a run answered as a
\* success has executed every step of its plan, and successfully.
SuccessMeansDone ==
  result.kind = "success" =>
    \A s \in 1..plan.steps : \E i \in 1..Len(attempts) :
      attempts[i].plan = plan.no /\ attempts[i].step = s /\ attempts[i].ok
=============================================================================
