------------------------- MODULE InteractiveCommand -------------------------
(***************************************************************************)
(* Commands that ask while they run: ShellTool._execute_interactive asks   *)
(* for the sudo password, ProcessBridge reads both streams of the process  *)
(* and stops at a line that looks like a prompt, the trust layer decides   *)
(* who answers it, and the panel shows what is asked and sends what the    *)
(* user says.  They talk over the event bus only.                          *)
(***************************************************************************)
EXTENDS Naturals, Sequences

CONSTANTS
    Job,          \* tasks whose command runs interactively
    Threshold,    \* TRUST_THRESHOLD of learning/prompt_trust.py
    MaxPrompts,   \* bound: prompts the processes print in all
    NoJob         \* an empty slot of the panel

ASSUME TrustAssumption ==
    Threshold \in Nat \ {0} /\ MaxPrompts \in Nat /\ NoJob \notin Job

VARIABLES
    job,       \* where _execute_interactive of a task stands
    reader,    \* the two readers of its ProcessBridge
    prompts,   \* prompts printed so far
    events,    \* the bus: events published and not yet handled
    trust,     \* the record of the command's pattern, one for all jobs
    slot       \* what the panel remembers of the last question of each kind

commandVars == <<job, reader, prompts, events, trust, slot>>

Stream == {"stdout", "stderr"}
Question == {"sudo", "prompt", "trust"}

Message(name, t) == [name |-> name, task |-> t, accept |-> FALSE]
Handles(name) == events # << >> /\ Head(events).name = name
BusQuiet == events = << >>

CommandInit ==
    /\ job = [t \in Job |-> "starts"]
    /\ reader = [t \in Job |-> [s \in Stream |-> "idle"]]
    /\ prompts = 0
    /\ events = << >>
    /\ trust \in [known : BOOLEAN, state : {"observe", "suggest", "auto"}, approvals : {0}]
    /\ ~trust.known => trust.state = "observe"
    /\ slot = [q \in Question |-> NoJob]

-----------------------------------------------------------------------------
(* tools/shell_tool.py, tools/process_bridge.py *)

StartProcess(t) ==
    /\ job' = [job EXCEPT ![t] = "runs"]
    /\ reader' = [reader EXCEPT ![t] = [s \in Stream |-> "reads"]]

\* A sudo command asks for its password first, any other starts at once.
StartCommand(t) ==
    /\ job[t] = "starts"
    /\ \/ StartProcess(t) /\ UNCHANGED events
       \/ /\ job' = [job EXCEPT ![t] = "password"]
          /\ events' = Append(events, Message("sudo_password_required", t))
          /\ UNCHANGED reader
    /\ UNCHANGED <<prompts, trust, slot>>

\* Mutant: the handler of the password is not unsubscribed.
PasswordArrivesLate ==
    /\ Handles("sudo_password_provided")
    /\ events' = Tail(events)
    /\ StartProcess(Head(events).task)
    /\ UNCHANGED <<prompts, trust, slot>>

\* _on_pwd; an empty password cancels the command.
PasswordArrives ==
    /\ Handles("sudo_password_provided")
    /\ events' = Tail(events)
    /\ LET t == Head(events).task
       IN \/ job[t] = "password" /\ StartProcess(t)
          \/ job[t] = "password" /\ job' = [job EXCEPT ![t] = "done"] /\ UNCHANGED reader
          \/ job[t] # "password" /\ UNCHANGED <<job, reader>>
    /\ UNCHANGED <<prompts, trust, slot>>

\* Mutant: the answer is awaited without a limit.
AwaitPassword(t) == FALSE /\ UNCHANGED commandVars

PasswordTimesOut(t) ==
    /\ job[t] = "password" /\ BusQuiet
    /\ job' = [job EXCEPT ![t] = "done"]
    /\ UNCHANGED <<reader, prompts, events, trust, slot>>

\* A line matches a pattern: the reader stops and waits for an answer.
SoftLock(t, s) ==
    /\ job[t] = "runs" /\ reader[t][s] = "reads" /\ prompts < MaxPrompts
    /\ reader' = [reader EXCEPT ![t][s] = "locked"]
    /\ prompts' = prompts + 1
    /\ events' = Append(events, Message("interactive_prompt", t))
    /\ UNCHANGED <<job, trust, slot>>

\* The answer carries the task alone: every reader of the task that waits takes
\* it, and it is recorded as the user's (nobody sets the mark "_auto").
ResponseArrives ==
    /\ Handles("interactive_response")
    /\ LET t == Head(events).task
       IN /\ reader' = [reader EXCEPT ![t] =
                          [s \in Stream |-> IF @[s] = "locked" THEN "reads" ELSE @[s]]]
          /\ events' = IF job[t] = "runs"
                       THEN Append(Tail(events), Message("interactive_prompt_responded", t))
                       ELSE Tail(events)
    /\ UNCHANGED <<job, prompts, trust, slot>>

\* After two minutes the reader goes on without an answer.
PromptTimesOut(t, s) ==
    /\ job[t] = "runs" /\ reader[t][s] = "locked" /\ BusQuiet
    /\ reader' = [reader EXCEPT ![t][s] = "reads"]
    /\ UNCHANGED <<job, prompts, events, trust, slot>>

EndOfStream(t, s) ==
    /\ job[t] = "runs" /\ reader[t][s] = "reads"
    /\ reader' = [reader EXCEPT ![t][s] = "shut"]
    /\ UNCHANGED <<job, prompts, events, trust, slot>>

\* Both streams are exhausted, or the process is killed after its 300 seconds.
FinishCommand(t) ==
    /\ job[t] = "runs"
    /\ \/ \A s \in Stream : reader[t][s] = "shut"
       \/ BusQuiet
    /\ job' = [job EXCEPT ![t] = "done"]
    /\ reader' = [reader EXCEPT ![t] = [s \in Stream |-> "shut"]]
    /\ UNCHANGED <<prompts, events, trust, slot>>

-----------------------------------------------------------------------------
(* learning/prompt_trust.py *)

\* evaluate: what to do with a prompt, and the state the record is left in.
Evaluate ==
    IF trust.known /\ trust.state = "auto" THEN "auto"
    ELSE IF trust.known /\ (trust.state = "suggest" \/ trust.approvals >= Threshold)
    THEN "suggest" ELSE "prompt"

\* _handle_interactive_prompt of the task the prompt belongs to.
PromptArrives ==
    /\ Handles("interactive_prompt")
    /\ LET t == Head(events).task
           sent == IF job[t] # "runs" THEN << >>
                   ELSE CASE Evaluate = "auto"    -> <<Message("interactive_response", t)>>
                          [] Evaluate = "suggest" ->
                               <<Message("trust_auto_approve_suggestion", t),
                                 Message("interactive_prompt_widget", t)>>
                          [] Evaluate = "prompt"  -> <<Message("interactive_prompt_widget", t)>>
       IN /\ events' = Tail(events) \o sent
          /\ trust' = IF job[t] = "runs" /\ Evaluate = "suggest"
                      THEN [trust EXCEPT !.state = "suggest"] ELSE trust
    /\ UNCHANGED <<job, reader, prompts, slot>>

\* _on_manual_response: an approval counts.  A denial would reset the record, but
\* only automatic answers, which approve, are ever recorded.
ResponseIsRecorded ==
    /\ Handles("interactive_prompt_responded")
    /\ events' = Tail(events)
    /\ trust' = [trust EXCEPT !.known = TRUE,
                    !.approvals = IF @ < Threshold THEN @ + 1 ELSE @]
    /\ UNCHANGED <<job, reader, prompts, slot>>

\* _on_suggestion_answered: the user promotes the pattern, or resets it.
SuggestionIsAnswered ==
    /\ Handles("trust_suggestion_answered")
    /\ events' = Tail(events)
    /\ LET accept == Head(events).accept
       IN trust' = IF ~trust.known THEN trust
                   ELSE IF accept THEN [trust EXCEPT !.state = "auto"]
                   ELSE [trust EXCEPT !.state = "observe", !.approvals = 0]
    /\ UNCHANGED <<job, reader, prompts, slot>>

-----------------------------------------------------------------------------
(* panel/panel_controller.py *)

\* Each kind of question has one slot: the last question takes it.
QuestionShown(name, q) ==
    /\ Handles(name)
    /\ events' = Tail(events)
    /\ slot' = [slot EXCEPT ![q] = Head(events).task]
    /\ UNCHANGED <<job, reader, prompts, trust>>

PanelShows ==
    \/ QuestionShown("sudo_password_required", "sudo")
    \/ QuestionShown("interactive_prompt_widget", "prompt")
    \/ QuestionShown("trust_auto_approve_suggestion", "trust")

UserSubmitsPassword ==
    /\ slot["sudo"] # NoJob
    /\ events' = Append(events, Message("sudo_password_provided", slot["sudo"]))
    /\ slot' = [slot EXCEPT !["sudo"] = NoJob]
    /\ UNCHANGED <<job, reader, prompts, trust>>

UserAnswersPrompt ==
    /\ slot["prompt"] # NoJob
    /\ events' = Append(events, Message("user_response_received", slot["prompt"]))
    /\ slot' = [slot EXCEPT !["prompt"] = NoJob]
    /\ UNCHANGED <<job, reader, prompts, trust>>

\* ProcessBridge does not listen for it; ConfirmationManager does, and reads a field
\* it does not have.
AnswerIsDropped ==
    /\ Handles("user_response_received")
    /\ events' = Tail(events)
    /\ UNCHANGED <<job, reader, prompts, trust, slot>>

UserAnswersSuggestion ==
    /\ slot["trust"] # NoJob
    /\ \E yes \in BOOLEAN :
          events' = Append(events, [Message("trust_suggestion_answered", slot["trust"])
                                       EXCEPT !.accept = yes])
    /\ slot' = [slot EXCEPT !["trust"] = NoJob]
    /\ UNCHANGED <<job, reader, prompts, trust>>

-----------------------------------------------------------------------------
Tool(t) ==
    \/ StartCommand(t) \/ PasswordTimesOut(t) \/ FinishCommand(t)
    \/ \E s \in Stream : SoftLock(t, s) \/ PromptTimesOut(t, s) \/ EndOfStream(t, s)

BusDelivers ==
    \/ PasswordArrives \/ ResponseArrives \/ PromptArrives
    \/ ResponseIsRecorded \/ SuggestionIsAnswered \/ PanelShows \/ AnswerIsDropped

User == UserSubmitsPassword \/ UserAnswersPrompt \/ UserAnswersSuggestion

CommandWork == BusDelivers \/ \E t \in Job : Tool(t)

CommandNext == CommandWork \/ User

CommandSpec ==
    /\ CommandInit /\ [][CommandNext]_commandVars
    /\ WF_commandVars(BusDelivers) /\ \A t \in Job : WF_commandVars(Tool(t))
-----------------------------------------------------------------------------
(* Type correctness of commands, bus, trust record and panel. *)
CommandTypeOK ==
    /\ job \in [Job -> {"starts", "password", "runs", "done"}]
    /\ reader \in [Job -> [Stream -> {"idle", "reads", "locked", "shut"}]]
    /\ prompts \in 0..MaxPrompts
    /\ \A k \in DOMAIN events : events[k].task \in Job
    /\ trust.approvals \in 0..Threshold
    /\ slot \in [Question -> Job \union {NoJob}]

(* Nothing that arrives late restarts or changes a command that has returned: *)
(* a password typed after the two minutes, an automatic answer still on the   *)
(* bus, the answer meant for the other command of the same pattern.           *)
LateAnswerHarmless ==
    [][\A t \in Job : job[t] = "done" => job'[t] = "done" /\ reader'[t] = reader[t]]_commandVars
=============================================================================
