------------------------ MODULE GraphWorkflow_proofs ------------------------
(***************************************************************************)
(* The safety properties of GraphWorkflow, for every recursion limit, size *)
(* of plan and setting of the filter, from one inductive invariant.        *)
(***************************************************************************)
EXTENDS GraphWorkflow, TLAPS

\* The nodes a run passes on its way to an execution.
Ahead == { "intake", "observe", "analyze_intent", "retrieve_knowledge",
           "create_plan", "route", "safety_check", "confirmation",
           "execute_step" }

\* Where a run stands with the nodes it has left behind: between two
\* executions lie five nodes, of which a retry saves two.
Spent == used - 5 * Len(attempts) + 2 * recovery.retries

\* The least a run has spent by the time it stands at a node.
Pace ==
  /\ pc = "intake"             => Spent >= 0
  /\ pc = "observe"            => Spent >= 1
  /\ pc = "analyze_intent"     => Spent >= 2
  /\ pc = "retrieve_knowledge" => Spent >= 3
  /\ pc = "create_plan"        => Spent >= 4
  /\ pc = "route"              => Spent >= 5
  /\ pc = "safety_check"       => Spent >= 6
  /\ pc = "confirmation"       => Spent >= 7
  /\ pc = "execute_step"       => Spent >= 7
  /\ pc = "verify_step"        => Spent >= 3
  /\ pc = "recover"            => Spent >= 4

\* state.execution is the last execution as long as it matters.
LastIsKnown ==
  pc \in {"verify_step", "recover"} =>
    /\ attempts # <<>>
    /\ execution \in Executions
    /\ attempts[Len(attempts)].ok = execution.success

\* A run on its way to an execution has not succeeded yet.
NotYetDone ==
  pc \in Ahead /\ attempts # <<>> => ~attempts[Len(attempts)].ok

\* From the routing on there is a decision for this plan, or none.
RoutedForThisPlan ==
  pc \in {"safety_check", "confirmation", "execute_step", "verify_step",
          "recover"} /\ routing # 0
    => routing = plan.no /\ PassesFilter

\* From the safety check on its verdict is on this plan, and heard.
CheckedThisPlan ==
  /\ pc \in {"confirmation", "execute_step", "verify_step", "recover"}
       => safety.plan = plan.no
  /\ pc \in {"execute_step", "verify_step", "recover"} /\ safety.confirm
       => paused

PausedForAttempts ==
  \A i \in 1..Len(attempts) : attempts[i].confirm => paused

\* The last checkpoint is on disk until it is cancelled.
CheckpointKept == paused => checkpoint \in files \/ cancelled

\* The result of a run says what state.paused said at its end.
ResultFits ==
  /\ result.kind # "none" => pc = "answered"
  /\ result.kind = "success" => ~paused
  /\ result.kind = "paused" => paused /\ result.checkpoint = checkpoint

IInv ==
  /\ TypeOK
  /\ SuccessIsLast /\ LastIsKnown /\ NotYetDone
  /\ FilteredPlansOnly /\ RoutedForThisPlan /\ CheckedThisPlan
  /\ PausedForAttempts /\ CheckpointKept /\ ResultFits
  /\ Pace

-----------------------------------------------------------------------------
(* The steps of the graph, one lemma each.                                 *)

LEMMA InitOK == Init => IInv
<1> SUFFICES ASSUME Init PROVE IInv
  OBVIOUS
<1>1. TypeOK
  <2>1. plan \in Plan /\ safety \in Safety /\ execution \in Execution
    BY MaxStepsAssumption
    DEF Init, NoPlan, NoSafety, NoExecution, Plan, Safety, Execution, Risks,
        Categories
  <2>2. recovery \in Recovery /\ result \in Result
    BY DEF Init, NoRecovery, NoResult, Recovery, Result, MaxRetries
  <2>3. attempts \in Seq(Attempt)
    BY DEF Init
  <2>4. used \in 0..RecursionLimit /\ files \subseteq 1..checkpoint
    BY RecursionLimitAssumption DEF Init
  <2>5. pc \in Nodes /\ verification = "none" /\ final = "none"
        /\ destructive \in BOOLEAN /\ paused \in BOOLEAN
        /\ cancelled \in BOOLEAN /\ routing \in Nat /\ checkpoint \in Nat
    BY DEF Init, Nodes
  <2> QED
    BY <2>1, <2>2, <2>3, <2>4, <2>5 DEF TypeOK
<1>2. Len(attempts) = 0 /\ attempts = <<>> /\ pc = "intake" /\ routing = 0
      /\ paused = FALSE /\ result.kind = "none" /\ used = 0
      /\ recovery.retries = 0
  BY DEF Init, NoResult, NoRecovery
<1>3. SuccessIsLast /\ FilteredPlansOnly /\ PausedForAttempts
  BY <1>2 DEF SuccessIsLast, FilteredPlansOnly, PausedForAttempts
<1>4. LastIsKnown /\ NotYetDone /\ RoutedForThisPlan /\ CheckedThisPlan
      /\ CheckpointKept /\ ResultFits
  BY <1>2 DEF LastIsKnown, NotYetDone, RoutedForThisPlan, CheckedThisPlan,
              CheckpointKept, ResultFits
<1>5. Pace
  BY <1>2 DEF Pace, Spent
<1> QED
  BY <1>1, <1>3, <1>4, <1>5 DEF IInv

\* Intake, AnalyzeIntent, RetrieveKnowledge: the next node on the same road.
LEMMA RoadOK ==
  ASSUME IInv, Intake \/ AnalyzeIntent \/ RetrieveKnowledge
  PROVE  IInv'
<1>1. /\ pc \in Ahead /\ pc' \in Ahead \cap Nodes
      /\ pc' \notin {"safety_check", "confirmation", "execute_step",
                     "verify_step", "recover", "answered"}
      /\ pc # "answered" /\ used < RecursionLimit /\ used' = used + 1
      /\ UNCHANGED <<destructive, plan, routing, safety, paused, checkpoint,
                     files, execution, verification, recovery, final, result,
                     attempts, cancelled>>
  BY DEF Intake, AnalyzeIntent, RetrieveKnowledge, PassThrough, Running, Goto,
         Outside, Ahead, Nodes
<1>2. TypeOK'
  BY <1>1, RecursionLimitAssumption DEF IInv, TypeOK
<1>3. Pace'
  BY <1>1, RecursionLimitAssumption
  DEF IInv, TypeOK, Pace, Spent, Intake, AnalyzeIntent, RetrieveKnowledge,
      PassThrough, Running, Goto, Recovery, MaxRetries
<1> QED
  BY <1>1, <1>2, <1>3
  DEF IInv, SuccessIsLast, LastIsKnown, NotYetDone, FilteredPlansOnly,
      RoutedForThisPlan, CheckedThisPlan, PausedForAttempts, CheckpointKept,
      ResultFits

\* Past the last execution: nothing is left that a later node could break.
LEMMA SettledOK ==
  ASSUME IInv, pc # "answered",
         pc' \in {"finalize", "END", "raised"},
         used' \in 0..RecursionLimit, final' \in {"none", "success"},
         UNCHANGED <<destructive, plan, routing, safety, paused, checkpoint,
                     files, execution, verification, recovery, result,
                     attempts, cancelled>>
  PROVE  IInv'
<1>1. TypeOK'
  BY DEF IInv, TypeOK, Nodes
<1>2. pc' \notin Ahead \cup {"verify_step", "recover"}
  BY DEF Ahead
<1>3. Pace'
  BY <1>2 DEF Pace, Ahead
<1> QED
  BY <1>1, <1>2, <1>3
  DEF IInv, SuccessIsLast, LastIsKnown, NotYetDone, FilteredPlansOnly,
      RoutedForThisPlan, CheckedThisPlan, PausedForAttempts, CheckpointKept,
      ResultFits, Ahead

LEMMA ObserveOK == ASSUME IInv, Observe PROVE IInv'
<1>1. /\ pc = "observe" /\ used < RecursionLimit /\ used' = used + 1
      /\ UNCHANGED <<destructive, plan, routing, safety, paused, checkpoint,
                     files, execution, verification, recovery, final, result,
                     attempts, cancelled>>
  BY DEF Observe, Running, Goto, Raise, Outside
<1>2. used' \in 0..RecursionLimit
  BY <1>1, RecursionLimitAssumption DEF IInv, TypeOK
<1>3. CASE pc' = "raised"
  BY <1>1, <1>2, <1>3, SettledOK DEF IInv, TypeOK
<1>4. CASE pc' = "analyze_intent"
  <2>1. TypeOK'
    BY <1>1, <1>2, <1>4 DEF IInv, TypeOK, Nodes
  <2>2. Pace'
    BY <1>1, <1>4 DEF IInv, TypeOK, Pace, Spent, Recovery, MaxRetries
  <2> QED
    BY <1>1, <1>4, <2>1, <2>2
    DEF IInv, SuccessIsLast, LastIsKnown, NotYetDone, FilteredPlansOnly,
        RoutedForThisPlan, CheckedThisPlan, PausedForAttempts, CheckpointKept,
        ResultFits, Ahead
<1> QED
  BY <1>3, <1>4 DEF Observe, Goto, Raise

LEMMA CreatePlanOK == ASSUME IInv, CreatePlan PROVE IInv'
<1>1. /\ pc = "create_plan" /\ pc' = "route"
      /\ used < RecursionLimit /\ used' = used + 1
      /\ UNCHANGED <<destructive, routing, safety, paused, checkpoint, files,
                     execution, verification, recovery, final, result,
                     attempts, cancelled>>
  BY DEF CreatePlan, Running, Goto, Outside
<1>2. plan' \in Plan
  BY DEF CreatePlan, GeneratedPlans, IInv, TypeOK, Plan
<1>3. TypeOK'
  BY <1>1, <1>2, RecursionLimitAssumption DEF IInv, TypeOK, Nodes
<1>4. Pace'
  BY <1>1 DEF IInv, TypeOK, Pace, Spent, Recovery, MaxRetries
<1> QED
  BY <1>1, <1>3, <1>4
  DEF IInv, SuccessIsLast, LastIsKnown, NotYetDone, FilteredPlansOnly,
      RoutedForThisPlan, CheckedThisPlan, PausedForAttempts, CheckpointKept,
      ResultFits, Ahead

LEMMA RouteOK == ASSUME IInv, Route PROVE IInv'
<1>1. /\ pc = "route" /\ pc' = "safety_check"
      /\ used < RecursionLimit /\ used' = used + 1
      /\ UNCHANGED <<destructive, plan, safety, paused, checkpoint, files,
                     execution, verification, recovery, final, result,
                     attempts, cancelled>>
  BY DEF Route, Running, Goto, Outside
<1>2. routing' = 0 \/ (routing' = plan.no /\ PassesFilter)
  BY DEF Route
<1>3. TypeOK'
  BY <1>1, <1>2, RecursionLimitAssumption DEF IInv, TypeOK, Nodes, Plan
<1>4. Pace'
  BY <1>1 DEF IInv, TypeOK, Pace, Spent, Recovery, MaxRetries
<1>5. RoutedForThisPlan'
  BY <1>1, <1>2 DEF RoutedForThisPlan, PassesFilter
<1> QED
  BY <1>1, <1>3, <1>4, <1>5
  DEF IInv, SuccessIsLast, LastIsKnown, NotYetDone, FilteredPlansOnly,
      CheckedThisPlan, PausedForAttempts, CheckpointKept, ResultFits, Ahead

LEMMA SafetyCheckOK == ASSUME IInv, SafetyCheck PROVE IInv'
<1>1. /\ pc = "safety_check"
      /\ used < RecursionLimit /\ used' = used + 1
      /\ UNCHANGED <<destructive, plan, routing, paused, checkpoint, files,
                     execution, verification, recovery, final, result,
                     attempts, cancelled>>
  BY DEF SafetyCheck, Running, Goto, Outside
<1>2. /\ safety' \in Safety /\ safety'.plan = plan.no
      /\ \/ pc' = "confirmation"
         \/ pc' = "execute_step" /\ ~safety'.confirm
  <2>1. NeedsConfirmation \in BOOLEAN
    BY DEF NeedsConfirmation
  <2>2. plan.no \in Nat
    BY DEF IInv, TypeOK, Plan
  <2> QED
    BY <2>1, <2>2 DEF SafetyCheck, Safety, Goto
<1>3. TypeOK'
  BY <1>1, <1>2, RecursionLimitAssumption DEF IInv, TypeOK, Nodes
<1>4. Pace'
  BY <1>1, <1>2 DEF IInv, TypeOK, Pace, Spent, Recovery, MaxRetries
<1>5. CheckedThisPlan'
  BY <1>1, <1>2 DEF CheckedThisPlan
<1>6. RoutedForThisPlan'
  BY <1>1, <1>2 DEF IInv, RoutedForThisPlan, PassesFilter
<1> QED
  BY <1>1, <1>2, <1>3, <1>4, <1>5, <1>6
  DEF IInv, SuccessIsLast, LastIsKnown, NotYetDone, FilteredPlansOnly,
      PausedForAttempts, CheckpointKept, ResultFits, Ahead

LEMMA ConfirmationOK == ASSUME IInv, Confirmation PROVE IInv'
<1>1. /\ pc = "confirmation" /\ pc' = "execute_step"
      /\ used < RecursionLimit /\ used' = used + 1
      /\ paused' = TRUE /\ checkpoint' = checkpoint + 1
      /\ files' = files \cup {checkpoint + 1}
      /\ UNCHANGED <<destructive, plan, routing, safety, execution,
                     verification, recovery, final, result, attempts,
                     cancelled>>
  BY DEF Confirmation, CreateCheckpoint, Running, Goto
<1>2. files' \subseteq 1..checkpoint'
  BY <1>1 DEF IInv, TypeOK
<1>3. TypeOK'
  BY <1>1, <1>2, RecursionLimitAssumption DEF IInv, TypeOK, Nodes
<1>4. Pace'
  BY <1>1 DEF IInv, TypeOK, Pace, Spent, Recovery, MaxRetries
<1>5. RoutedForThisPlan' /\ CheckedThisPlan'
  BY <1>1 DEF IInv, RoutedForThisPlan, CheckedThisPlan, PassesFilter
<1>6. CheckpointKept' /\ ResultFits'
  BY <1>1 DEF IInv, CheckpointKept, ResultFits
<1> QED
  BY <1>1, <1>3, <1>4, <1>5, <1>6
  DEF IInv, SuccessIsLast, LastIsKnown, NotYetDone, FilteredPlansOnly,
      PausedForAttempts, Ahead

\* What an execution adds to the history.
NewAttempt(e) == [plan |-> plan.no, step |-> plan.index + 1, risk |-> plan.risk,
                  confirm |-> safety.confirm, ok |-> e.success]

LEMMA ExecuteStepOK == ASSUME IInv, ExecuteStep PROVE IInv'
<1>1. /\ pc = "execute_step" /\ used < RecursionLimit /\ used' = used + 1
      /\ UNCHANGED <<destructive, routing, safety, paused, checkpoint, files,
                     verification, recovery, final, result, cancelled>>
  BY DEF ExecuteStep, Running, Goto, Raise, Outside
<1>2. used' \in 0..RecursionLimit
  BY <1>1, RecursionLimitAssumption DEF IInv, TypeOK
<1>3. CASE pc' = "raised" /\ UNCHANGED <<plan, execution, attempts>>
  BY <1>1, <1>2, <1>3, SettledOK DEF IInv, TypeOK
<1>4. CASE /\ pc' = "verify_step" /\ routing # 0
           /\ \E e \in Executions :
                /\ execution' = e
                /\ attempts' = Append(attempts, NewAttempt(e))
                /\ plan' = [plan EXCEPT !.index =
                              IF GetExecutionSuccess(e) THEN @ + 1 ELSE @]
  <2>1. PICK e \in Executions :
          /\ execution' = e
          /\ attempts' = Append(attempts, NewAttempt(e))
          /\ plan' = [plan EXCEPT !.index =
                        IF GetExecutionSuccess(e) THEN @ + 1 ELSE @]
    BY <1>4
  <2>2. e \in Execution
    <3>1. Completed \in Execution
      BY DEF Completed, Execution, Categories
    <3>2. \A c \in Categories : Failed(c) \in Execution
      BY DEF Failed, Execution
    <3> QED
      BY <3>1, <3>2, <2>1 DEF Executions
  <2>3. plan' \in Plan /\ plan'.no = plan.no /\ plan'.risk = plan.risk
    BY <2>1 DEF IInv, TypeOK, Plan, GetExecutionSuccess
  <2>4. NewAttempt(e) \in Attempt
    BY <2>2 DEF IInv, TypeOK, Plan, Safety, Execution, Attempt, NewAttempt
  <2>5. /\ attempts' \in Seq(Attempt) /\ Len(attempts') = Len(attempts) + 1
        /\ Len(attempts) \in Nat
        /\ attempts'[Len(attempts')] = NewAttempt(e)
        /\ \A i \in 1..Len(attempts) : attempts'[i] = attempts[i]
    BY <2>1, <2>4 DEF IInv, TypeOK
  <2>6. TypeOK'
    BY <1>1, <1>2, <1>4, <2>1, <2>2, <2>3, <2>5 DEF IInv, TypeOK, Nodes
  <2>7. SuccessIsLast'
    <3>1. \A i \in 1..Len(attempts) : ~attempts[i].ok
      BY <1>1, <2>5 DEF IInv, SuccessIsLast, NotYetDone, Ahead
    <3> QED
      BY <3>1, <2>5 DEF SuccessIsLast
  <2>8. LastIsKnown'
    BY <2>1, <2>5 DEF LastIsKnown, NewAttempt, Executions, Completed, Failed
  <2>9. NotYetDone'
    BY <1>4 DEF NotYetDone, Ahead
  <2>10. FilteredPlansOnly'
    <3>1. FilterOn => plan.risk = "low"
      BY <1>1, <1>4 DEF IInv, RoutedForThisPlan, PassesFilter
    <3>2. NewAttempt(e).risk = plan.risk
      BY DEF NewAttempt
    <3> QED
      BY <3>1, <3>2, <2>5 DEF IInv, FilteredPlansOnly
  <2>11. RoutedForThisPlan' /\ CheckedThisPlan'
    BY <1>1, <1>4, <2>3
    DEF IInv, RoutedForThisPlan, CheckedThisPlan, PassesFilter
  <2>12. PausedForAttempts'
    <3>1. NewAttempt(e).confirm => paused
      BY <1>1 DEF IInv, CheckedThisPlan, NewAttempt
    <3> QED
      BY <3>1, <1>1, <2>5 DEF IInv, PausedForAttempts
  <2>13. CheckpointKept' /\ ResultFits'
    BY <1>1 DEF IInv, CheckpointKept, ResultFits
  <2>14. Pace'
    BY <1>1, <1>4, <2>5 DEF IInv, TypeOK, Pace, Spent, Recovery, MaxRetries
  <2> QED
    BY <2>6, <2>7, <2>8, <2>9, <2>10, <2>11, <2>12, <2>13, <2>14 DEF IInv
<1> QED
  BY <1>3, <1>4 DEF ExecuteStep, ValidState, Goto, Raise, NewAttempt

LEMMA VerifyStepOK == ASSUME IInv, VerifyStep PROVE IInv'
<1>1. /\ pc = "verify_step" /\ pc' \in {"reflect", "recover"}
      /\ used < RecursionLimit /\ used' = used + 1
      /\ verification' \in {"FAILED", "UNCERTAIN", "VERIFIED"}
      /\ UNCHANGED <<destructive, plan, routing, safety, paused, checkpoint,
                     files, execution, recovery, final, result, attempts,
                     cancelled>>
  BY DEF VerifyStep, Verdicts, Running, Goto, Outside
<1>2. TypeOK'
  BY <1>1, RecursionLimitAssumption DEF IInv, TypeOK, Nodes
<1>3. Pace'
  BY <1>1 DEF IInv, TypeOK, Pace, Spent, Recovery, MaxRetries
<1>4. RoutedForThisPlan' /\ CheckedThisPlan'
  BY <1>1 DEF IInv, RoutedForThisPlan, CheckedThisPlan, PassesFilter
<1>5. LastIsKnown' /\ NotYetDone' /\ ResultFits'
  BY <1>1 DEF IInv, LastIsKnown, NotYetDone, ResultFits, Ahead
<1> QED
  BY <1>1, <1>2, <1>3, <1>4, <1>5
  DEF IInv, SuccessIsLast, FilteredPlansOnly, PausedForAttempts,
      CheckpointKept

\* A run that goes back to work has an execution behind it that failed with a
\* category, so not a success.
LEMMA OnlyFailuresReturn ==
  ASSUME IInv, pc = "recover", Strategy # "ABORT"
  PROVE  ~attempts[Len(attempts)].ok
<1>1. execution.category # "none"
  BY DEF Strategy, Classify
<1>2. execution \in Executions /\ attempts[Len(attempts)].ok = execution.success
  BY DEF IInv, LastIsKnown
<1>3. execution.success = FALSE
  BY <1>1, <1>2 DEF Executions, Completed, Failed
<1> QED
  BY <1>2, <1>3

LEMMA RecoverOK == ASSUME IInv, Recover PROVE IInv'
<1>1. /\ pc = "recover" /\ used < RecursionLimit /\ used' = used + 1
      /\ recovery' = [strategy |-> Strategy, retries |-> RetryCount(Strategy)]
      /\ pc' = TargetStage[Strategy]
      /\ UNCHANGED <<destructive, plan, routing, safety, paused, checkpoint,
                     files, execution, verification, final, result, attempts,
                     cancelled>>
  BY DEF Recover, Running, Goto, Outside
<1>2. Strategy \in Strategies
  BY DEF Strategy, Strategies
<1>3. Strategy = "RETRY" => recovery.retries < MaxRetries
  BY DEF Strategy, IInv, TypeOK, Recovery, MaxRetries
<1>4. /\ recovery' \in Recovery
      /\ \/ Strategy = "RETRY" /\ recovery'.retries = recovery.retries + 1
         \/ Strategy # "RETRY" /\ recovery'.retries = recovery.retries
  BY <1>1, <1>2, <1>3
  DEF RetryCount, IInv, TypeOK, Recovery, MaxRetries, Strategies
<1>5. /\ Strategy = "RETRY"   => pc' = "execute_step"
      /\ Strategy = "OBSERVE" => pc' = "observe"
      /\ Strategy = "ROUTE"   => pc' = "route"
      /\ Strategy = "REPLAN"  => pc' = "create_plan"
      /\ Strategy = "ABORT"   => pc' = "finalize"
  BY <1>1 DEF TargetStage
<1>6. pc' \in {"execute_step", "observe", "route", "create_plan", "finalize"}
  BY <1>2, <1>5 DEF Strategies
<1>7. TypeOK'
  BY <1>1, <1>4, <1>6, RecursionLimitAssumption DEF IInv, TypeOK, Nodes
<1>8. Pace'
  <2>1. Spent >= 4 /\ Spent \in Int
    BY <1>1 DEF IInv, TypeOK, Pace, Spent, Recovery, MaxRetries
  <2>2. Spent' = Spent + 1 \/ (Strategy = "RETRY" /\ Spent' = Spent + 3)
    BY <1>1, <1>4 DEF IInv, TypeOK, Spent, Recovery, MaxRetries
  <2>3. Strategy = "RETRY" => Spent' = Spent + 3
    BY <1>1, <1>4 DEF IInv, TypeOK, Spent, Recovery, MaxRetries
  <2> QED
    BY <1>2, <1>5, <2>1, <2>2, <2>3 DEF Pace, Strategies
<1>9. NotYetDone'
  <2>1. pc' \in Ahead => Strategy # "ABORT"
    BY <1>5 DEF Ahead
  <2> QED
    BY <1>1, <2>1, OnlyFailuresReturn DEF NotYetDone
<1>10. RoutedForThisPlan' /\ CheckedThisPlan'
  BY <1>1, <1>6 DEF IInv, RoutedForThisPlan, CheckedThisPlan, PassesFilter
<1>11. LastIsKnown' /\ ResultFits'
  BY <1>1, <1>6 DEF IInv, LastIsKnown, ResultFits
<1> QED
  BY <1>1, <1>7, <1>8, <1>9, <1>10, <1>11
  DEF IInv, SuccessIsLast, FilteredPlansOnly, PausedForAttempts,
      CheckpointKept

LEMMA RunEndOK ==
  ASSUME IInv, Reflect \/ Finalize \/ GraphRecursionError PROVE IInv'
<1>1. /\ pc # "answered" /\ pc' \in {"finalize", "END", "raised"}
      /\ final' \in {final, "success"}
      /\ \/ used < RecursionLimit /\ used' = used + 1
         \/ used' = used
      /\ UNCHANGED <<destructive, plan, routing, safety, paused, checkpoint,
                     files, execution, verification, recovery, result,
                     attempts, cancelled>>
  BY DEF Reflect, Finalize, GraphRecursionError, PassThrough, Running, Goto,
         Outside, Nodes
<1>2. used' \in 0..RecursionLimit /\ final' \in {"none", "success"}
  BY <1>1, RecursionLimitAssumption DEF IInv, TypeOK
<1> QED
  BY <1>1, <1>2, SettledOK

-----------------------------------------------------------------------------
(* The steps around the graph.                                             *)

LEMMA AdapterOK == ASSUME IInv, Adapter PROVE IInv'
<1>1. /\ pc \in {"END", "raised"} /\ pc' = "answered"
      /\ UNCHANGED <<used, destructive, plan, routing, safety, paused,
                     checkpoint, files, execution, verification, recovery,
                     final, attempts, cancelled>>
  BY DEF Adapter, AdapterReturns, AdapterFails, Answer
<1>2. \/ result' = [kind |-> "error", checkpoint |-> 0]
      \/ paused /\ result' = [kind |-> "paused", checkpoint |-> checkpoint]
      \/ ~paused /\ result' = [kind |-> "success", checkpoint |-> 0]
  BY DEF Adapter, AdapterReturns, AdapterFails, Answer, IInv, TypeOK
<1>3. result' \in Result
  BY <1>2 DEF Result, IInv, TypeOK
<1>4. ResultFits'
  BY <1>1, <1>2 DEF ResultFits
<1>5. TypeOK'
  BY <1>1, <1>3 DEF IInv, TypeOK
<1> QED
  BY <1>1, <1>4, <1>5
  DEF IInv, SuccessIsLast, LastIsKnown, NotYetDone, FilteredPlansOnly,
      RoutedForThisPlan, CheckedThisPlan, PausedForAttempts, CheckpointKept,
      Pace, Ahead

LEMMA CancelOK == ASSUME IInv, CancelConfirmation PROVE IInv'
<1>1. /\ files' \subseteq files /\ cancelled' = TRUE
      /\ UNCHANGED <<pc, used, destructive, plan, routing, safety, paused,
                     checkpoint, execution, verification, recovery, final,
                     result, attempts>>
  BY DEF CancelConfirmation
<1>2. TypeOK'
  BY <1>1 DEF IInv, TypeOK
<1>3. CheckpointKept'
  BY <1>1 DEF CheckpointKept
<1>4. Pace'
  BY <1>1 DEF IInv, Pace, Spent
<1> QED
  BY <1>1, <1>2, <1>3, <1>4
  DEF IInv, SuccessIsLast, LastIsKnown, NotYetDone, FilteredPlansOnly,
      RoutedForThisPlan, CheckedThisPlan, PausedForAttempts, ResultFits,
      PassesFilter

LEMMA StutterOK == ASSUME IInv, UNCHANGED vars PROVE IInv'
<1>1. TypeOK' /\ Pace'
  BY DEF vars, IInv, TypeOK, Pace, Spent
<1> QED
  BY <1>1
  DEF vars, IInv, SuccessIsLast, LastIsKnown, NotYetDone, FilteredPlansOnly,
      RoutedForThisPlan, CheckedThisPlan, PausedForAttempts, CheckpointKept,
      ResultFits, PassesFilter

LEMMA NextOK == ASSUME IInv, [Next]_vars PROVE IInv'
  BY RoadOK, ObserveOK, CreatePlanOK, RouteOK, SafetyCheckOK, ConfirmationOK,
     ExecuteStepOK, VerifyStepOK, RecoverOK, RunEndOK, AdapterOK, CancelOK,
     StutterOK
  DEF Next, RunNode

LEMMA Invariance == Spec => []IInv
  BY InitOK, NextOK, PTL DEF Spec

-----------------------------------------------------------------------------
(* The theorems.                                                           *)

\* Every variable of a run keeps its type; in particular no run counts more
\* than three retries, uses more nodes than the limit, or has a checkpoint
\* file it did not write.
THEOREM TypeCorrect == Spec => []TypeOK
  BY Invariance, PTL DEF IInv

\* Nothing is executed again after it succeeded, whatever the verification
\* makes of the success.
THEOREM NothingAfterSuccess == Spec => []SuccessIsLast
  BY Invariance, PTL DEF IInv

\* With the filter on, no plan of any run, first or replanned, executes a
\* command of high risk.
THEOREM FilterHolds == Spec => []FilteredPlansOnly
  BY Invariance, PTL DEF IInv

\* A run that executed what its safety check wanted confirmed is never
\* answered as a plain success.
THEOREM PausedIsTold == Spec => []AnswerTellsPaused
<1>1. IInv => AnswerTellsPaused
  BY DEF IInv, PausedForAttempts, ResultFits, AnswerTellsPaused
<1> QED
  BY <1>1, Invariance, PTL

\* An answer "paused" names the run's last checkpoint, on disk unless it was
\* cancelled.
THEOREM PausedIsResumable == Spec => []PausedAnswerIsResumable
<1>1. IInv => PausedAnswerIsResumable
  BY DEF IInv, TypeOK, CheckpointKept, ResultFits, PausedAnswerIsResumable
<1> QED
  BY <1>1, Invariance, PTL

\* Only ExecuteStep adds to the history, and only under the decisions of the
\* plan at hand.
LEMMA OnlyExecuteStep ==
  ASSUME [Next]_vars, attempts' # attempts
  PROVE  /\ ExecuteStep /\ routing # 0
         /\ \E e \in Executions : attempts' = Append(attempts, NewAttempt(e))
<1>1. ExecuteStep
  BY DEF Next, RunNode, Adapter, Intake, Observe, AnalyzeIntent,
         RetrieveKnowledge, CreatePlan, Route, SafetyCheck, Confirmation,
         VerifyStep, Recover, Reflect, Finalize, GraphRecursionError,
         PassThrough, AdapterReturns, AdapterFails, Answer,
         CancelConfirmation, vars
<1> QED
  BY <1>1 DEF ExecuteStep, ValidState, NewAttempt

\* Every execution is made on a routing and a safety decision for its own
\* plan, after any chain of retries, re-routings and new plans.
THEOREM DecidedFirst == Spec => DecidedForThisPlan
<1>1. ASSUME IInv, [Next]_vars, attempts' # attempts
      PROVE  routing = plan.no /\ safety.plan = plan.no
  <2>1. pc = "execute_step" /\ routing # 0
    BY <1>1, OnlyExecuteStep DEF ExecuteStep, Running
  <2> QED
    BY <1>1, <2>1 DEF IInv, RoutedForThisPlan, CheckedThisPlan
<1> QED
  BY <1>1, Invariance, PTL DEF Spec, DecidedForThisPlan

-----------------------------------------------------------------------------
(* The run implements AttemptBudget.                                       *)

Succeeded == attempts # <<>> /\ attempts[Len(attempts)].ok

LEMMA TryStep ==
  ASSUME IInv, IInv', [Next]_vars, attempts' # attempts
  PROVE  Tries!Try
<1>1. /\ pc = "execute_step" /\ used < RecursionLimit
      /\ pc' = "verify_step"
      /\ \E e \in Executions : attempts' = Append(attempts, NewAttempt(e))
  BY OnlyExecuteStep DEF ExecuteStep, Running, Goto, Raise
<1>2. Len(attempts') = Len(attempts) + 1 /\ Len(attempts) \in Nat
  BY <1>1 DEF IInv, TypeOK
<1>3. Len(attempts) < MaxTries
  <2>1. Spent >= 7 /\ recovery.retries \in 0..3
    BY <1>1 DEF IInv, TypeOK, Pace, Recovery, MaxRetries
  <2> QED
    BY <1>1, <1>2, <2>1, MaxTriesAssumption, RecursionLimitAssumption
    DEF Spent, IInv, TypeOK
<1>4. ~Succeeded
  BY <1>1 DEF IInv, NotYetDone, Ahead, Succeeded
<1>5. Succeeded' \in BOOLEAN
  BY DEF Succeeded, IInv, TypeOK, Attempt
<1> QED
  BY <1>1, <1>2, <1>3, <1>4, <1>5
  DEF Tries!Try, Tries!MayTry, Succeeded

LEMMA AnswerStep ==
  ASSUME IInv, [Next]_vars, attempts' = attempts
  PROVE  Tries!Answer \/ UNCHANGED Tries!vars
<1>1. pc = "answered" => pc' = "answered"
  BY DEF Next, RunNode, Adapter, Intake, Observe, AnalyzeIntent,
         RetrieveKnowledge, CreatePlan, Route, SafetyCheck, Confirmation,
         ExecuteStep, VerifyStep, Recover, Reflect, Finalize,
         GraphRecursionError, PassThrough, AdapterReturns, AdapterFails,
         Answer, CancelConfirmation, Running, Nodes, vars
<1> QED
  BY <1>1 DEF Tries!Answer, Tries!vars

\* A run executes at most MaxTries times, never after a success and never
\* after its answer, for every limit and bound that MaxTriesAssumption allows.
THEOREM Implements == Spec => WithinBudget
<1>1. Init => Tries!Init
  BY DEF Init, Tries!Init
<1>2. ASSUME IInv, IInv', [Next]_vars PROVE [Tries!Next]_(Tries!vars)
  BY <1>2, TryStep, AnswerStep DEF Tries!Next
<1> QED
  BY <1>1, <1>2, Invariance, PTL DEF Spec, WithinBudget, Tries!Spec
=============================================================================
