---------------------------- MODULE StepExecutor ----------------------------
(***************************************************************************)
(* One step carried out by Executor._execute_with_decision: the router's   *)
(* decision is tried method by method, a failure is classified, and its    *)
(* class decides between a retry, the next method and giving up.           *)
(***************************************************************************)
EXTENDS MethodRouter, Settings

VARIABLES
    graph,        \* flags.USE_GRAPH_ROUTING
    intent,       \* what the layers find in the intent (see MethodRouter)
    decision,     \* current: the method being tried and the chain behind it
    stage,        \* where the coroutine stands
    rounds,       \* total_attempts
    transient,    \* transient_attempt of the current method
    runs,         \* times each method was invoked
    requests,     \* HTTP requests sent by the API tool
    failed,       \* class of the last failure of each method, or "none"
    fed,          \* methods the learner was told were wrong
    unavailable,  \* methods reported unavailable
    ready,        \* has the guard passed since the UI tool last ran?
    llm,          \* error_classifier.llm_available
    answer        \* what the coroutine returns

stepVars == <<graph, intent, decision, stage, rounds, transient, runs, requests,
              failed, fed, unavailable, ready, llm, answer>>

\* tools/routing_decision.py, FailureClass.
FailureClass == {"ENV_TRANSIENT", "ENV_PERMANENT", "ROUTING_MISMATCH",
                 "EXECUTION_LOGIC"}

NoAnswer == [ok |-> FALSE, class |-> "none", why |-> "none"]

-----------------------------------------------------------------------------
(* executor/error_classifier.py *)

\* Categories the regular expressions find, and those only the model answers.
Patterns == {"permission_denied", "not_found", "timeout", "network_error",
             "resource_exhausted", "invalid_input", "auth_error",
             "interface_mismatch"}
LlmCategories == Patterns \union {"routing_mismatch", "execution_logic",
                                  "unknown_error"}

ClassOfCategory(c) ==
    IF c \in {"timeout", "network_error", "resource_exhausted", "unknown_error"}
    THEN "ENV_TRANSIENT"
    ELSE IF c \in {"permission_denied", "not_found", "auth_error"}
    THEN "ENV_PERMANENT"
    ELSE IF c \in {"routing_mismatch", "invalid_input"}
    THEN "ROUTING_MISMATCH"
    ELSE "EXECUTION_LOGIC"

\* Exceptions whose type alone decides.
ClassOfException(e) ==
    CASE e \in {"APITransientError", "TimeoutError", "ConnectionError"}
            -> "ENV_TRANSIENT"
      [] e \in {"APIPermanentError", "PermissionError", "FileNotFoundError"}
            -> "ENV_PERMANENT"
      [] e \in {"TypeError", "AttributeError", "NotImplementedError"}
            -> "EXECUTION_LOGIC"
      [] e \in {"ValueError", "KeyError"} -> "ROUTING_MISMATCH"

\* Mutant: the tool of the user interface lets its timeout escape.
TypedExceptionsOfUi(m) ==
    IF m = "api" THEN {"APITransientError", "APIPermanentError"}
    ELSE IF m = "ui" THEN {"TimeoutError"} ELSE {}

TypedExceptions(m) ==
    CASE m = "plugin" -> {"TimeoutError", "ConnectionError", "PermissionError",
                          "FileNotFoundError", "TypeError", "AttributeError",
                          "NotImplementedError", "ValueError", "KeyError"}
      [] m = "api"    -> {"APITransientError", "APIPermanentError"}
      [] OTHER        -> {}    \* these tools turn every exception into a result

\* A message is classified by the patterns, else by the model while it answers:
\* the first time the call itself fails the model is not asked again.
ClassifyMessage(cls) ==
    \/ \E c \in Patterns : cls = ClassOfCategory(c) /\ llm' = llm
    \/ llm /\ \E c \in LlmCategories : cls = ClassOfCategory(c) /\ llm' = llm
    \/ llm /\ cls = "ENV_TRANSIENT" /\ llm' = FALSE
    \/ ~llm /\ cls = "ENV_TRANSIENT" /\ llm' = llm

-----------------------------------------------------------------------------
StepInit ==
    /\ graph \in BOOLEAN
    /\ intent \in Intent
    /\ decision \in IF graph
                    THEN {SimpleDecision(intent)}
                         \union {TranslatedDecision(m) : m \in MethodType}
                    ELSE {Select(intent)}
    /\ stage = "round"
    /\ rounds = 0 /\ transient = 0 /\ requests = 0
    /\ runs = [m \in MethodType |-> 0]
    /\ failed = [m \in MethodType |-> "none"]
    /\ fed = {} /\ unavailable = {}
    /\ ready = FALSE /\ llm \in BOOLEAN
    /\ answer = NoAnswer

Answer(ok, cls, why) ==
    stage' = "answered" /\ answer' = [ok |-> ok, class |-> cls, why |-> why]

\* The head of the loop: the limit on rounds, then the guard for a UI method.
Round ==
    /\ stage = "round"
    /\ rounds' = rounds + 1
    /\ transient' = 0
    /\ \/ /\ rounds' > MaxTotal
          /\ Answer(FALSE, "ENV_PERMANENT", "limit")
       \/ /\ rounds' <= MaxTotal
          /\ stage' = IF decision.method = "ui" THEN "guard" ELSE "invoke"
          /\ UNCHANGED answer
    /\ UNCHANGED <<graph, intent, decision, runs, requests, failed, fed,
                   unavailable, ready, llm>>

\* Mutant: a failure of the environment is final.
HandleFailureFinally(cls, why) ==
    LET m == decision.method
    IN /\ failed' = [failed EXCEPT ![m] = cls]
       /\ UNCHANGED <<fed, unavailable>>
       /\ IF cls # "ROUTING_MISMATCH" \/ decision.chain = << >>
          THEN Answer(FALSE, cls, why) /\ UNCHANGED decision
          ELSE /\ decision' = [decision EXCEPT !.method = Head(decision.chain),
                                               !.chain = Tail(decision.chain)]
               /\ stage' = "round"
               /\ UNCHANGED answer

\* _handle_failure: report the failure by its class, then answer or advance.
HandleFailure(cls, why) ==
    LET m == decision.method
        terminal == \/ cls \in {"ENV_TRANSIENT", "EXECUTION_LOGIC"}
                    \/ graph
                    \/ decision.chain = << >>
    IN /\ failed' = [failed EXCEPT ![m] = cls]
       /\ fed' = IF cls = "ROUTING_MISMATCH" THEN fed \union {m} ELSE fed
       /\ unavailable' = IF cls = "ENV_PERMANENT"
                         THEN unavailable \union {m} ELSE unavailable
       /\ IF terminal
          THEN Answer(FALSE, cls, why) /\ UNCHANGED decision
          ELSE /\ decision' = [decision EXCEPT !.method = Head(decision.chain),
                                               !.chain = Tail(decision.chain)]
               /\ stage' = "round"
               /\ UNCHANGED answer

\* UIReadinessGuard.validate, run in a thread: the focused window is compared
\* with the application of the decision, then the accessibility tree with its
\* snapshot; no application, no check.
GuardOutcome == IF decision.app THEN {"ready", "drift", "mismatch"} ELSE {"ready"}

Guard ==
    /\ stage = "guard"
    /\ \E o \in GuardOutcome :
          \/ /\ o = "ready"
             /\ stage' = "invoke" /\ ready' = TRUE
             /\ UNCHANGED <<decision, failed, fed, unavailable, answer>>
          \/ /\ o = "drift"
             /\ stage' = "refocus"
             /\ UNCHANGED <<decision, failed, fed, unavailable, ready, answer>>
          \/ o = "mismatch" /\ HandleFailure("ENV_TRANSIENT", "ui") /\ UNCHANGED ready
    /\ UNCHANGED <<graph, intent, rounds, transient, runs, requests, llm>>

\* focus_manager.ensure_focus, then the guard once more.
Refocus ==
    /\ stage = "refocus"
    /\ \/ stage' = "invoke" /\ ready' = TRUE
          /\ UNCHANGED <<decision, failed, fed, unavailable, answer>>
       \/ HandleFailure("ENV_TRANSIENT", "ui") /\ UNCHANGED ready
    /\ UNCHANGED <<graph, intent, rounds, transient, runs, requests, llm>>

\* APITool.run sends up to MAX_RETRY_ATTEMPTS requests of its own; only errors
\* worth repeating use them all.
RequestsOf(m, e) ==
    IF m # "api" THEN {0}
    ELSE IF e = "APITransientError" THEN {MaxRetries}
    ELSE IF e = "APIPermanentError" THEN 0..MaxRetries
    ELSE 1..MaxRetries

Invoked(e) ==
    /\ runs' = [runs EXCEPT ![decision.method] = @ + 1]
    /\ \E n \in RequestsOf(decision.method, e) : requests' = requests + n
    /\ ready' = IF decision.method = "ui" THEN FALSE ELSE ready

Succeed ==
    /\ stage = "invoke"
    /\ Invoked("none")
    /\ Answer(TRUE, "ENV_TRANSIENT", "done")
    /\ UNCHANGED <<graph, intent, decision, rounds, transient, failed, fed,
                   unavailable, llm>>

\* The tool reports a failure of its own: classified, never retried here.
Report ==
    /\ stage = "invoke"
    /\ Invoked("reported")
    /\ \E cls \in FailureClass : ClassifyMessage(cls) /\ HandleFailure(cls, "tool")
    /\ UNCHANGED <<graph, intent, rounds, transient>>

\* Mutant: one retry too many.
AfterExceptionOnceMore(cls) ==
    IF cls = "ENV_TRANSIENT" /\ transient <= MaxRetries
    THEN /\ transient' = transient + 1
         /\ UNCHANGED <<stage, decision, failed, fed, unavailable, answer>>
    ELSE HandleFailure(cls, "tool") /\ UNCHANGED transient

\* What an exception leads to: a transient one is retried after a pause.
AfterException(cls) ==
    \/ /\ cls = "ENV_TRANSIENT" /\ transient < MaxRetries
       /\ transient' = transient + 1
       /\ UNCHANGED <<stage, decision, failed, fed, unavailable, answer>>
    \/ /\ cls = "ENV_TRANSIENT" /\ transient >= MaxRetries
       /\ transient' = transient + 1
       /\ HandleFailure(cls, "tool")
    \/ /\ cls # "ENV_TRANSIENT"
       /\ HandleFailure(cls, "tool")
       /\ UNCHANGED transient

Raise ==
    /\ stage = "invoke"
    /\ \/ \E e \in TypedExceptions(decision.method) :
             /\ Invoked(e)
             /\ AfterException(ClassOfException(e))
             /\ UNCHANGED llm
       \/ /\ decision.method = "plugin"
          /\ Invoked("other")
          /\ \E cls \in FailureClass : ClassifyMessage(cls) /\ AfterException(cls)
    /\ UNCHANGED <<graph, intent, rounds>>

StepNext == Round \/ Guard \/ Refocus \/ Succeed \/ Report \/ Raise

StepSpec == StepInit /\ [][StepNext]_stepVars /\ WF_stepVars(StepNext)
-----------------------------------------------------------------------------
(* Type correctness of the state a step keeps. *)
StepTypeOK ==
    /\ graph \in BOOLEAN /\ llm \in BOOLEAN /\ ready \in BOOLEAN
    /\ intent \in Intent
    /\ decision.method \in MethodType /\ decision.chain \in Seq(MethodType)
    /\ stage \in {"round", "guard", "refocus", "invoke", "answered"}
    /\ rounds \in 0..(MaxTotal + 1) /\ transient \in 0..(MaxRetries + 1)
    /\ runs \in [MethodType -> Nat] /\ requests \in Nat
    /\ failed \in [MethodType -> FailureClass \union {"none"}]
    /\ fed \subseteq MethodType /\ unavailable \subseteq MethodType
    /\ answer.class \in FailureClass \union {"none"}

(* The work done for one step is bounded although two loops retry inside each  *)
(* other (the executor's and the API tool's own): a method is invoked at most  *)
(* once and MaxRetries times again, the API is asked at most MaxRetries times  *)
(* each of these times, and the limit on rounds is never what ends the loop    *)
(* (line 612 of the executor, where it would, names an undefined variable).    *)
BoundedWork ==
    /\ \A m \in MethodType : runs[m] <= MaxRetries + 1
    /\ requests <= MaxRetries * (MaxRetries + 1)
    /\ answer.why # "limit"

(* In legacy mode a failure that a different method might mend is answered only *)
(* when no method is left: every one from the router's first choice on has been *)
(* invoked and has failed in a way that permits the next.                       *)
GivesUpOnlyWhenAllFailed ==
    ( /\ ~graph /\ stage = "answered" /\ ~answer.ok
      /\ answer.class \in {"ENV_PERMANENT", "ROUTING_MISMATCH"} )
    => LET first == Select(intent)
       IN \A m \in {first.method} \union {first.chain[k] : k \in DOMAIN first.chain} :
             runs[m] > 0 /\ failed[m] \in {"ENV_PERMANENT", "ROUTING_MISMATCH"}

(* A command the router turned down (forbidden, or of high risk in safe mode)  *)
(* still reaches the shell when a plugin or an API is tried first and fails,   *)
(* since the fallback chain is not screened again; it never does as the first  *)
(* choice, nor when the failure was one of execution or of the environment.    *)
RejectedShellOnlyByFallback ==
    (~graph /\ ~EvaluateShell(intent) /\ runs["shell"] > 0)
    => /\ EvaluatePlugin(intent) \/ EvaluateApi(intent)
       /\ failed["api"] \in {"ENV_PERMANENT", "ROUTING_MISMATCH"}

(* The user-interface tool acts only on a window the guard has found ready     *)
(* since its last action: no retry reaches it behind the guard's back.         *)
UiRunsOnFreshGuard == [][runs'["ui"] > runs["ui"] => ready]_stepVars
=============================================================================
