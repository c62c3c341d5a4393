# Operonix: a TLA+ verification project

Operonix takes a request in natural language, turns it into an operation on the
desktop and executes it, asking a human first where the operation is dangerous.
This directory holds TLA+ models of that machinery, the TLC runs that check
them on small instances, and TLAPS proofs of the most important results. Every
definition is translated from the source; `PROJECT.json` names the lines under
"map".

## 1. Inventory

| Component | State it keeps | Operations | Interacts by | What makes it hard / correct | Modelled in |
|---|---|---|---|---|---|
| `core/event_bus.py` | priority queue of events, listeners | `emit`, `publish`, `run` | every component subscribes and publishes | one event at a time, listeners awaited in subscription order, exceptions swallowed; failures overtake (priority 10 against 50) | `TaskPipeline`, `PluginLifecycle` |
| `core/orchestrator.py` | `active_tasks`, `_dispatched_safe`, timers | task intake, `inject_task_metadata`, `handle_safety_cleared`, low-risk check, failure, finalisation | bus, `call_later` | a 100 ms timer decides whether a human is asked | `TaskPipeline` |
| `brain/llm_client.py`, `intent_parser.py`, `capability_mapper.py` | aliases, vectors | interpret the text | bus | long awaits inside the bus loop | `TaskPipeline` |
| `brain/decision_engine.py`, `planner.py` | `task_queue`, `plan_storage` | queue, plan | bus, own coroutine | dispatches the same task a second time | `TaskPipeline` |
| `safety/validator.py`, `permission_guard.py`, `risk_rules.py` | `_seen`, `violation_counts` | verdict on a dispatch, pruning | bus | two gates, different rules, no common verdict | `TaskPipeline` |
| `safety/confirmation.py` | `pending_confirmations` | hold, answer, expire | bus, panel, dashboard | late, repeated and malformed answers | `TaskPipeline`, `Dashboard` |
| `executor/*` | `_seen_task_ids`, `_running_tasks`, retry counts | run a plan, waterfall, retries | bus, tools | a coroutine per task, ids forgotten by timers; retries nested in retries | `TaskPipeline`, `RunSlots`, `StepExecutor`, `LegacyStep` |
| `graph/*` (LangGraph mode) | `OperonixState` per task, checkpoints on disk | nodes, edges, resume, cancel | thread pool, API, bus | retry loops, pause and resume | `GraphWorkflow`, `AttemptBudget` |
| `graph/candidate_*.py`, `ranking_policy.py`, `learning_integration.py`; `tools/method_router.py` | scores, biases | choose a method | calls | a ranking with filters, penalties and feedback | `CandidateRouting`, `MethodRouter` |
| `graph/cancellation.py`, `timeout_manager.py`, `resource_manager.py` | timeouts, owners, locks | acquire, release, expire | threads | locks, callbacks under a lock | `Ownership`, `ExclusiveLocks`, `Timeouts` |
| `core/terminal_resolver.py`, `tools/shell_tool.py` | stack of focused terminals | choose a terminal, run in it | wmctrl, /proc, bus | windows close between the choice and the write | `TerminalChoice` |
| `tools/process_bridge.py`, `learning/prompt_trust.py` | readers, approvals per pattern, the panel's last question | run a command that asks | threads, bus, panel | answers race time limits; one slot for all commands | `InteractiveCommand` |
| `plugins/loader.py`, `registry.py`, `plugin_evolver.py`, `plugin_rollback.py` | two registries, manifest, snapshots | approve, reject, reload, remove, evolve | bus, API threads, disk | three places that must agree | `PluginLifecycle` |
| `plugins/capability_gap_detector.py`, `brain/reflector.py`, `memory/episodic.py` | counters, cooldowns, failure log | count, ask for a plugin | bus | several events per failure, several names per intent | `GapDetection` |
| `learning/learner.py`, `pruning.py`, `panel/suggestion_engine.py` | three stores and their files | learn, prune, rank | calls, files | writes that are cut off, memory and disk | `Learning` |
| `core/mode_manager.py`, `voice/*` | mode, wake state, stream | listen, switch | threads, two loops | switches overtake each other | `VoiceMode` |
| `core/lifecycle_manager.py`, `asyncio.run` | `is_running`, handlers | start, signal, shut down | everything | two coroutines in one shutdown | `Lifecycle` |
| `api/websocket.py`, `dashboard/frontend/app.js` | connections, tracked id, one dialog | ask, answer | websocket, bus | several browsers, one slot each | `Dashboard` |
| `context/window_detector.py`, `panel/hotkey_listener.py`, `panel/panel_controller.py` | last snapshots, `pre_panel_context` | follow the focus, choose the context of a query | two loops, a thread, bus | the panel itself takes the focus | `PanelContext` |
| `capabilities/*`, `automation/*`, `debugging/*`, `ai/*`, `migration/*` | wrappers, data classes | read, wrap | calls | little control of their own | - |

Hazards found while reading, each at its line, are in `PROJECT.json`.

## 2. Plan

Done, in this order: `TaskPipeline` with `RunSlots`, `GraphWorkflow` with
`AttemptBudget`, and their proofs; then the components around them, one module
each, composed side by side in `MCServices`: what happens inside an execution
(`MethodRouter`, `StepExecutor`, `LegacyStep`, `TerminalChoice`,
`InteractiveCommand`), the graph's helpers (`CandidateRouting`, `Ownership` with
`ExclusiveLocks`, `Timeouts`), plugins (`PluginLifecycle`, `GapDetection`), and
what surrounds a task (`Learning`, `VoiceMode`, `Lifecycle`, `Dashboard`,
`PanelContext`). Every one of them has proofs: what a passing run checks is a
theorem, liveness apart (section 6).

Left: `StepExecutor` in place of the one outcome a run of `TaskPipeline` has, and
with it the bounds on work as a refinement inside the pipeline.

## 3. The models

### TaskPipeline

| State | In the code |
|---|---|
| `urgent`, `normal`, `current` | the bus's priority queue (10 and 50) and the event whose listeners run |
| `planQueue` | `decision_engine.task_queue` |
| `active`, `record` | `orchestrator.active_tasks` and the marks `_high_risk_pending`, `_pending_safe_event`, `method_decision` of an entry |
| `dispatchedSafe`, `checkTimers`, `discardTimers` | `_dispatched_safe` and the 0.1 s and 5 s callbacks |
| `validatorSeen`, `guardSeen`, `violations` | `_seen` of each gate, `violation_counts` |
| `pending` | `pending_confirmations` |
| `seenTaskIds`, `decidedRuns`, `waterfallRuns`, `forgetTimers` | `_seen_task_ids`, `_run_plan` coroutines by their path, the 5 s callbacks of `_on_done` |
| `kind`, `submitted`, `responses` | the environment |
| `judged`, `prompts`, `allowed`, `started` | history, read by properties and by the human's guard only |

`Deliver` takes the next event off the queue; one action per event name is the
whole of its listeners in the order `lifecycle_manager.py` subscribes them (the
validator, started in step 7, before the guard that the orchestrator starts;
`hold_for_confirmation` before `_mark_high_risk`). asyncio runs each of these
listener sequences without giving another handler of the pipeline a turn, except
where a listener really waits: then timers may fire. `TimersRun` says when:
the bus is idle, or the current event's listeners await the model
(`ModelEvents`), or, with `SlowListeners`, anything at all: the websocket
forwarder subscribed to `*` awaits a slow client, the capability gap detector
awaits an embedding. A timer of 100 ms is due before any of 5 s and more
(`LongTimersRun`), the loops that prune the gates' dedup sets after 60 s and expire
a confirmation after 300 s among them: a call to the model goes from provider to
provider, with retries, and 60 s for one attempt at OpenRouter
(`llm_client.py:340`), so it may outlast any of these. Then the planner's dispatch
of a task finds gates that forgot the first one and judge it again; `judged` counts
the dispatches of a task that some gate did not drop.

`ProcessQueue` is the decision engine's coroutine. It is woken inside the
listeners of `capability_mapped` and publishes before any gate does, which the
guard `planQueue = {}` of `Deliver` keeps. `publish` defers to a task and `emit`
does not; events of *one* task keep their order either way, and events of two
tasks touch different state.

What an operation is to the gates is its `Profile`: the guard's verdict on the
orchestrator's payload, its verdict on the planner's (which carries no
`parameters`, so path and command rules have nothing to look at), and the
validator's, which makes a path normal before it looks and asks whether the context
admits the operation at all. The thirteen kinds are the combinations these produce,
e.g. a FORBIDDEN `run_command` (`badCommand`) is refused by the guard and cleared by
the validator, which does not look at commands; `open_url` on the local network and
a path under `.git` (`barred`) are refused by the validator and cleared by the guard;
a write to `.env` (`envFile`) is refused by one at high risk for the other. Steps of
the planner's own making are taken to hold the operation that was asked for. What
the interpretation stages decide (parsed or not, risky or not, mapped or not,
planned or not) is left open. `task_aborted` is published on a third violation,
which two dispatches per id never reach; nobody listens to it.

An execution ends by `RunReports` (waterfall: a report, success or failure) or
`RunRaises` (method decision: see the findings). Retries and tools inside an
execution are not modelled here.

### RunSlots

What the executor promises, whatever is sent to it: each task has a slot that is
free, running or cooling. `TaskPipeline!Slot` reads it off the run counts and
timers, and `ImplementsRunSlots` is the refinement.

### GraphWorkflow

One run of the graph. `RuntimeGraphAdapter` starts it in a thread of its own;
runs share nothing but the checkpoint directory, whose files carry their task,
so one run is the whole model. What runs beside it is the event loop: the
adapter that waits for the result, and the REST routes.

| State | In the code |
|---|---|
| `pc`, `used` | the node LangGraph runs next, and how many it has run; `raised`, `END` and `answered` after the last |
| `destructive` | whether `task.user_input` holds a destructive keyword |
| `plan` | `state.plan`: its number within the run, length, `current_step_index`, and what the checks see of its steps |
| `routing`, `safety` | `state.routing` and `state.safety`, each with the number of the plan it was decided for |
| `paused`, `checkpoint`, `files` | `state.paused`, `state.checkpoint_identifier`, the run's files in `.checkpoints/` |
| `execution`, `verification`, `recovery`, `final` | the fields of that name |
| `result` | the `FinalResult` of the adapter |
| `attempts`, `cancelled` | history: the executions in order, and whether the API confirmed a cancellation |

One action is one node with the edge after it (`Goto`). LangGraph gives a node
a copy of the state and keeps only the fields the node returns; so `state.errors`,
to which nodes append without returning it, is always empty in `Finalize`, and a
routing that failed is kept only because the node returns `{"routing": None}`.
LangGraph also raises after `RecursionLimit` nodes (`GraphRecursionError`), and
an exception of a node ends the run (`Raise`): `ExecuteStep` on a missing
routing, `Observe` when the context cannot be gathered (the handler it calls,
`handle_non_recoverable_error`, is not imported there).

What a step is to the checks: the risk of its command (all candidates of a
routing share it, so `PassesFilter` keeps all or none) and whether its text
names a destructive operation. `execute_step` may end with any category of
`_map_failure_class`, `recover` chooses among retry, route, replan and abort
from it, and counts retries only.

Left out because nothing reaches it: the cancel node, the edge from observe to
recover (it tests that `state.context` is a dict, and it is a
`ContextSnapshot`), and a resumed run (`resume_from_confirmation` names `UTC`
without importing it, so every answer is refused with an error).

### AttemptBudget

What a run promises the outside world: at most `Budget` tries, none after one
that succeeded, none after the answer. `WithinBudget` is the refinement, with
`MaxTries` for `Budget` under
`MaxTriesAssumption == RecursionLimit <= 5 * MaxTries + 1`.

### Inside an execution

`MethodRouter` holds `select()` as an operator on what the four layers find in an
intent. `StepExecutor` is `_execute_with_decision`: rounds of guard, call and
`_handle_failure`, which looks at the class of the failure (`FailureClass`) and
retries the method, takes the next of the chain (`decision`), or gives up; the API
tool sends its own retries (`RequestsOf`) inside a call. `LegacyStep` is
`_execute_step_safe` for a task without a decision: a plugin, else the registered
capability with retries, else the waterfall. `unchecked` counts the executions whose
result check raised (`registry.py:176` awaits it outside its `try`), after which the
waterfall is a second way. What a tool answers is left open;
the classes its error may have are those the classifier can give
(`ClassifyMessage`, with or without the model).

`TerminalChoice` follows a command from `TerminalResolver.resolve` through the
executor's check and the question to the user to the shell tool. `near` is the
score of a window's directory, `recent` the focus stack; `DesktopChanges` opens,
closes and refuses windows between any two steps. `InteractiveCommand` runs two
commands that ask: `job` and `reader` are the coroutine and its two stream
readers, `events` the bus, `trust` the one record of the command's pattern,
`slot` the one question of each kind that the panel remembers. A step of a
coroutine is one action when the bus is quiet; the user acts at any time.

### The graph's helpers

`CandidateRouting` computes the scores of the four candidates in tenths, exactly
as the weights of `ranking_policy.py` do, from the few words and context types
that the services look at. The evaluation of a browser candidate fails on an
undefined name (`candidate_evaluation.py:195`), which `FitIsDefined` says, and the
candidate is lost. `Feedback` shifts the scores by what was learned; the
orchestration of recovery is in `GraphWorkflow`.

`Ownership` has `ResourceManager` (records and the lock derived from them, one call
at a time: it has no mutex, although `migration/PHASE_8_COMPLETION.md:147` speaks of
thread-safe operations; only tests use it, in one thread) and `ResourceContentionDetector` (an index by resource and one by task,
threads, `release_all_resources` outside the mutex) side by side; each implements
`ExclusiveLocks`. `Timeouts` has `TimeoutManager`'s mutex and watchdogs: a
callback that asks for a cancellation needs the mutex its own thread holds
(`stuck`), and `stop_watchdog` gives up after 5 s, after which another thread may
be started (`JoinReturns`).

### Plugins

`PluginLifecycle` is one plugin: its files (`disk`), its entry in the registry,
whether the capability registry runs it (`served`). An operation is the sequence
of steps its code performs (`todo`), so that the API's threads come between the
steps of the bus; the bus itself stands still during an evolution. `overlap`
remembers that both threads worked at once: the code has no lock over the three
places, and the two invariants except that case. `Restart` loses everything but
the disk. A report of a gap makes the generator evolve a plugin that resembles the
intent (`MayBeSimilar`, any other one or the one modelled); without one it makes a
directory and fails (`GeneratePlugin`). The evolver's own handler of
`plugin_evolution_needed` (`OnEvolutionNeeded`) reports a gap beside the detector,
and so past the cooldown that its comment at `plugin_evolver.py:122` relies on:
`OneReportPerCooldown` is about the detector's reports alone. `GapDetection` takes failures from the executor to the report of a gap:
`Canonical` is the grouping of intents by embeddings (`alike` is any symmetric
relation, not a transitive one), `posted` the events on their way, `logged` the
failure log. A behaviour falls within one window of that log.

### Around a task

`Learning` is one intent's plans, chosen methods and penalties in memory and in
`file`; a lesson writes its store, a crash may cut a write off (`spoiled`), the
pruner works on the file alone. `VoiceMode` has the three callers of a mode change,
the steps of a teardown with the lock, the wake loop, the capture of a command and
the flush as readers of the microphone. `Lifecycle` walks the steps of `startup`
(`BootOrder`), `run_forever` (`main`) and the shutdown a signal begins (`stopper`),
under `asyncio.run`, whose way to end is modelled as an external.

`Dashboard` has browsers with one dialog each, the connections, the server's one
tracked id and the confirmation manager. A human may answer what is on the screen
at any time, also just after it was replaced. The dashboard of the repository sends
the id of the task with its answer; the format `websocket.py:203-204` documents has
none, and the server then takes the id it tracked last, so each answer may come
either way. `astray` remembers the tasks such an answer let go in place of one that
was asked for before them.

`PanelContext` has the two loops of the window detector, the hotkey's thread, the
panel and the tasks. A snapshot is its title and who took it; a capture is two
steps, the title (`ReadTitle`) and, after a classification and a directory have
been waited for, the snapshot (`Commit`). The panel's window has no title of its
own, so only its process tells it apart, and only two of the places that should
look at the process do. `xdotool` gives title and process by two calls
(`window_detector.py:242-250`), between which the focus may move and of which the
second may fail alone (`Reads`); nothing else of the agent happens between them,
since the loop waits for both. `misread` remembers that the panel's title was so
kept with another's process, or none.

### MCServices

These fourteen share no state, so a behaviour picks one (`focus`), runs it from
any of its initial states and leaves the others in one. The operators `...Starts`
leave out initial states that differ from others in nothing the code looks at;
each says why.

## 4. The runs

| Run | Instance | What it shows |
|---|---|---|
| `pipeline_slow` | 1 task of all 13 kinds, any listener may be slow, 2 answers | executions never overlap, the dedup set agrees with runs and timers, nothing that no gate clears runs more often than the human allowed, the executor implements `RunSlots`; a held task is let go, an allowed one runs, a cleared one runs unless marked |
| `pipeline_pair` | 2 tasks of 3 kinds, only model calls are slow, 1 answer each, symmetric | high-risk work runs only as often as *its own* approval, always; a task no gate judged twice has one prompt and one execution, although two dispatches and two gates are at work |
| `forbidden_runs` | 1 task | violation: an operation one gate forbids is executed |
| `slow_listener` | 1 task | violation: with a slow listener high-risk work runs unapproved |
| `panel_answer` | 1 task | violation: the panel's answers are never understood |
| `run_report` | 1 task | violation: a run with a method decision ends unreported |
| `graph_run` | a run of at most 25 nodes, plans of 0 to 2 steps, filter on | no try after a success, no risky command past the filter, decisions belong to their plan, a paused run says so and can be found, every run is answered, at most 5 tries |
| `cancel_graph` | the same | violation: a cancelled confirmation does not stop the step |
| `blind_retry` | the same | violation: a destructive step is retried without looking |
| `graph_success` | the same | violation: an aborted or half-done run is answered as a success |
| `services` | the fourteen components, bounds below | what each of them promises: see the list after the table |
| `mic_race` | `VoiceMode`, 2 switches | violation: the microphone is closed while it is read |

`services` checks, besides the types:

- of a step: `BoundedWork`, `GivesUpOnlyWhenAllFailed`,
  `RejectedShellOnlyByFallback`, `UiRunsOnFreshGuard` (decision of the router),
  `SecondWayOnlyUnchecked` (without one);
- of a command: `CommandRunsOnce` (one place at most, never Operonix's own
  terminal), `LateAnswerHarmless`;
- of plugins: `ServedIsRegistered`, `RejectedStaysOut`, `OneReportPerCooldown`;
- of the graph's helpers: `RoutingFits`, `BothAreLocks` (a refinement),
  `FiresOnce`, `StuckForGood`;
- around a task: `ShortestSurvives`, `LeavingVoiceStopsListening`, `CleanExit`,
  `ApprovedOrOvertaken`, `RefersToAnother`;
- of all that was begun: `EverythingReturns` (liveness).

Bounds. A task is submitted once (ids are fresh UUIDs), so queues and counters
are bounded by the pipeline itself: at most two dispatches, two clearances by
gates and a few by the human. `MaxResponses` bounds only how often the human
answers; two answers cover a repeated, a late and a contradicting one. One task
suffices for the executor's and the gates' properties, whose state is per task;
two tasks share the bus and are needed for the properties about time, since one
task's model call delays the other's events. The three kinds of `PairKinds`
are the ones whose gates disagree (`command`), agree on high (`delete`) and
agree on clear (`read`). Deadlock checking is off: the system rests when
nothing is left to do.

The three properties of `pipeline_pair` are false when listeners are slow
(`slow_listener` shows the first). The quick mode states what the design relies
on: no listener keeps the bus for 100 ms except a call to the model.

For a run of the graph nothing is bounded but what LangGraph bounds itself: 25
is its default recursion limit, which this code never sets, and five executions
do happen within it (the bound of `MaxTries` is tight: three retries after a
re-planning, say). Two steps are one more than any run executes
(`current_step_index` never moves, see finding 7), and no step at all is the
plan an LLM may return. With the filter off the run passes the same nodes;
`FilteredPlansOnly` is about it being on. The run rests once it is answered,
so deadlock checking is off.

Bounds of `services`. Two retries and ten rounds are the code's own (`Settings`).
Two commands and two prompts are enough for one to take the panel's only slot from
the other and for a late answer to meet the next question. Three terminals: the own
one and two that tie or do not; two changes of the desktop put one before the check
and one before the write. Three requests to a plugin let an event and an API call
meet within an evolution of two attempts and a third come after. Two tasks, two
resources and two records let a release of everything race an acquisition. Two
limits and two watchdogs that overlap. Two switches of mode beside the boot task.
Three incoming failures, limits of two and three spellings of two intents reach the
report by either count, through either event. Four lessons and two patterns kept
make the pruner drop one. One browser suffices for `ApprovedOrOvertaken`, whose dialogs
are per browser; two tasks, two questions and a cut connection let one dialog
replace another and a question be repeated. Three windows (a program's, a page that
names the agent, the panel), two moves of the focus, one press of the hotkey and
one title or process that cannot be had let the hotkey take the panel and the user walk away
before the query is typed. Where a component's theorem is proved, the bounds play
no part.

Fairness of `services`: weak fairness of `Work`, what the agent does by itself.
Every wait in the code has a limit (a password 120 s, a prompt, a user's choice of
a terminal, a model's answer), at whose end an action is enabled; users, processes
and windows need do nothing.

Fairness of the graph (`Fairness`): a node is a function that returns, because
every call that could hang runs under `run_async_safely` with a timeout of 30 or
60 s; the adapter awaits the thread. Nobody need cancel a confirmation.

Fairness of the pipeline (`FairSpec`). The event loop runs what is ready: weak fairness of the
bus, of its listeners, of the decision engine and of each timer per task. Model
calls and tools end by their own timeouts, so `Runs` is fair. The human and the
pruning loops need not act, and no disjunct of a choice is favoured.

## 5. Findings

1. Forbidden operations run (`forbidden_runs`): a refusal is an event, and the
   orchestrator looks only at the clearance of the other gate.
2. The 100 ms window (`slow_listener`): the bus's own waiting lets the timer win.
3. The panel's answer has the wrong field (`panel_answer`).
4. Four values, three names (`run_report`): the run with a method decision
   raises after the tool has acted.
5. Cancelling a confirmation does not abort the workflow (`cancel_graph`): the
   confirmation node pauses nothing, so the step runs while it is pending, and
   a cancellation deletes the checkpoint only.
6. Every step is safe to retry (`blind_retry`): the planner never uses the
   classes `_is_safe_to_retry` looks for, whatever the safety check found.
7. Success is the default (`graph_success`): the result looks at a list nobody
   fills. Plans of several steps end after the first: no edge leads from a
   verified step to the next one, and the index of the plan does not even move,
   because the status value is compared in the wrong case.
8. `stop()` takes the other lock (`mic_race`): `read_chunk` holds `_restart_lock`
   so that nobody closes the stream under it, but `stop()` does not take that lock.

Seen on the way, without a run of its own (what the models do instead is checked or
proved):

- One prompt per task (`confirmation.py:48-53`) is kept for a task the gates judge
  once. Where the planner's model call outlasts their 60 s, the second dispatch is
  judged again, and a task that was answered meanwhile is asked about, or run, once
  more: hence `judged` in `OnePrompt` and `RunsOnce`. `HighRiskNeedsAllow` holds even
  then.
- Learned performance never influences the routing, which
  `learning_integration.py:8-9`, `candidate_discovery.py:193` (with 440-449) and
  `migration/PHASE_14_COMPLETION.md` (11, 214-221, 370) say it does: the adjusted order of the
  candidates is made before they are scored, and no score reads what was learned. A
  step routed again in the context it failed in gets the method that failed. `RoutingIsFixed`
  proves this for any feedback; `RoutingFits` is what holds of the choice otherwise.
- An approval in the documented format, without an id, lets go the task that was
  asked for last, be it on the screen or not (`websocket.py:249`):
  `ApprovedOrOvertaken` says that it is never an older one.
- A title and a process that were read of two windows (`window_detector.py:242-250`)
  may make the panel the context of a query; `RefersToAnother` says that this is the
  only way to it while another program's window is known.

## 6. What is proved

Eight modules hold theorems, for every value of the constants the assumptions
allow (those the modules name, `KindsAssumption`, `RecursionLimitAssumption`,
`MaxTriesAssumption`, `RetryAssumption`..., which TLC evaluates on every run). The
argument is the same everywhere: an inductive invariant whose conjuncts say what
the next step may rely on, one lemma per action (or group of actions that disturb
it alike), and a last step of temporal logic.

### The pipeline: `TaskPipeline_proofs`

For any set of tasks, kinds, bounds and either mode:

- `TypeCorrect`: `Spec => []TypeOK`. One lemma per action or group of actions;
  timers and runs never go below zero because each decrement is guarded.
- `NoOverlap`: `Spec => []AtMostOneRun`. The property is not inductive: a step
  that starts a run knows only that the id is not in the dedup set. The invariant
  `SeenMeansBusy` says that runs and armed timers of a task count one exactly
  when its id is remembered; it is inductive together with the type, and only
  four actions touch it (`OtherStep`).
- `Implements`: `Spec => ImplementsRunSlots`. Under the same invariant each of
  the four actions is one move of the slot or none.
- `NothingRunsUnallowed`: `Spec => []NoClearanceNoRun`, with slow listeners too.
  What an allow turns into on its way to the executor is an event on the bus, so the
  invariant has to count events: `Backed` says that the runs of such a task, the
  event being handled if it is one to spend, and those still queued are no more than
  the human's allows, and that no clearance of the task on the bus is a gate's. There
  is no operator of counting the provers can reason about by induction; `AtMost`
  bounds the count by a witness, a function that says how many are left behind
  each place of the queue, and the lemmas `NoneQueued`, `OneQueued`, `OneTaken` say
  what appending and taking do to it. `OnlyFailures` (what overtakes on the bus is
  a failure) is why the other queue does not matter.

### The human's word: `Prompt_proofs`

`HighRiskIsAllowed` (`[]HighRiskNeedsAllow`), `AskedOnce` (`[]OnePrompt`) and
`RunsAtMostOnce` (`[]RunsOnce`), for any tasks, kinds, bounds and interleavings, all
from `PromptInv`, under `SlowListeners = FALSE`; the last two say so of a task that no gate judged twice. That hypothesis is no convenience:
with slow listeners the properties are false (`slow_listener` shows the first), and
it is what `pipeline_pair` sets. It means that only listeners that call the model
may let a timer of 100 ms fire between two events of a task.

Each property is about two events of a task that race: the orchestrator's dispatch
and the planner's, the two gates' words, the human's answer and a timer. So the
invariant is about the whole bus. `line` is the event being handled (place 0) and
those queued behind it, and an event has one of the roles `Early` (before the
dispatch), `First` (the orchestrator's dispatch), `Late` (what the planner makes of
the same task), `Says` (a gate's word, or the parser's), `Reply` (the human's), `Spends`
(what an allow turns into) and `Done`. For each role a conjunct says how far the
task is while such an event is on the line, and what else of it is:

- `EarlyOK`, `FirstOK`: nothing has happened to the task and it has no other event,
  but for a late one behind its dispatch; `LateOK`: there is one late event at most,
  and it is behind the dispatch or both gates have seen the task, so they drop it;
- `SaidOK`: a gate's word comes with the other gate's next to it, in that order.
  While neither has been taken the task is `Calm`; once the validator's has, it is
  `Halfway` (the timer is armed, or it is held and marked), and then the guard's
  word is the very next event. This is the place where the hypothesis is used: no
  timer fires between the two;
- `ReplyOK`, `DeskOK`, `TimersOK`: there is one prompt, allows do not exceed it, and
  an armed timer of a task that was asked about finds the record marked;
- `SpendOK`: what is to be spent is on the line once, and only before a run;
- `HighOK`: of a task whose risk is high nothing is on its way to the executor
  without an allow, and while the timer runs with no prompt the guard's word is
  still to come.

One task's step leaves the other tasks' parts alone (`SteadyTask`, `SteadyStep`): their
events stay in order, at places that move together (`DeliverTask`). TLC checked
`PromptInv` on an instance of each of the two sizes of section 4 before it was
proved.

### The graph: `GraphWorkflow_proofs`

For any recursion limit, plan length and filter setting, every property of
`graph_run` except liveness, all from one inductive invariant `IInv`:

- `LastIsKnown` and `NotYetDone`: while a run is being verified or recovered
  `state.execution` is its last attempt, and a run that heads for an execution
  has not succeeded. Only `OnlyFailuresReturn` (a success is classified UNKNOWN
  and UNKNOWN aborts) makes this inductive: `NothingAfterSuccess`.
- `RoutedForThisPlan`, `CheckedThisPlan`: between routing and recovery both
  decisions are about the plan at hand; a new plan passes both nodes again:
  `DecidedFirst` (an action property) and `FilterHolds`.
- `PausedForAttempts`, `CheckpointKept`, `ResultFits`: what was executed against
  a confirmation left the run paused with its file: `PausedIsTold`,
  `PausedIsResumable`.
- `Pace`: the counting argument. Between two executions lie five nodes or, for a
  retry, three, and there are at most three retries; so
  `used - 5 * tries + 2 * retries` is bounded below at every node, which with
  `used < RecursionLimit` bounds the tries: `Implements`.

Each node has a lemma (`ObserveOK`, `RouteOK`, ...) that its step keeps `IInv`;
nodes that only move on share `RoadOK` and `RunEndOK`.

### Carrying out a step: `Steps_proofs`

For any number of retries and any limit on rounds that the number of methods does
not exceed (`RetryAssumption`):

- `WorkIsBounded` (`[]BoundedWork`), `AllWaysAreTried`
  (`[]GivesUpOnlyWhenAllFailed`), `ScreeningIsOnlyPassedByFallback`
  (`[]RejectedShellOnlyByFallback`) and `GuardBeforeEveryUiAction`
  (`UiRunsOnFreshGuard`), all from `StepInv`. `OnTrack`: the chain is what follows the
  method at hand in the order of preference; `Ordered`: what lies before it has run
  and failed, what lies behind it has not run; `Counted`: a method's runs are the
  counter of its retries, and the rounds do not exceed its place in the order, which
  is why the limit on rounds cannot be met.
- `SecondWayIsBounded` (`[]SecondWayOnlyUnchecked`) for `LegacyStep`: the retry
  manager's count and the capability's own agree until one of them ends the loop, so
  that only a check that raised leads on to the waterfall, with what is left of the
  retries (`LegacyInv`).
- `RunsInOnePlace` (`[]CommandRunsOnce`) for `TerminalChoice`, for any windows, depth of
  the focus stack and changes of the desktop. `Placed`: a command that is still being
  placed has run nowhere, and neither the choice nor one of the choices offered is
  the own terminal. The resolver leaves it out of what it lists, and everything it
  returns is among that (`OwnIsLeftOut`); the focus stack may name it no more than
  any window, since it is only looked up.
- `LateAnswersAreHarmless` (`LateAnswerHarmless`, an action property) for
  `InteractiveCommand`, any number of commands and prompts. `NobodyWaitsInVain`: a
  reader waits for an answer only while its process runs, so an answer that finds
  a command over finds no reader to unlock.

### Plugins and learning: `Plugins_proofs`

- `RunsWhatIsRegistered` (`[]ServedIsRegistered`) and `RejectedIsOut`
  (`[]RejectedStaysOut`), from `PluginInv`. While only one thread has worked on the
  plugin (`OneAtATime`), `Underway` says for every list of steps a thread may still
  have before it what already holds: between operations everything agrees
  (`InStep`), after a withdrawal nothing is served, before the last step what is to
  be served is registered and trusted. `Evolving` keeps the bus's thread without
  steps and the copy for a rollback equal to the disk.
- `OneReportPerGroup` (`[]OneReportPerCooldown`), for any spellings and any relation of
  likeness. `ReportsCool`: a phrase that was reported is embedded and its group
  cools, and no two reported phrases share a group; a group's name never changes
  while it cools, since only a phrase not embedded yet is given one.
- `ShortestIsKept` (`[]ShortestSurvives`), for any plans and limits. `ShortestKept`: no
  plan in memory or on disk is shorter than the shortest learned, and unless a write
  was cut off one of that length is on disk and, while the agent runs, in memory.
  `PrunedKeepsShortest` is the lemma about the sort: the first few in a stable order
  by length contain a shortest.

### Around a task: `Desktop_proofs`

- `LetGoAsShown` (`[]ApprovedOrOvertaken`). `DialogMatches`: an open dialog either has
  the shutdown's callback or shows the task whose id will be sent;
  `ApprovalsAreTrue`: every approval on its way, in the mail or on the bus, is of a
  task that was approved on a screen or went astray. Both are needed, since a release
  looks at the bus only. `LastIsTracked`: what is tracked, if anything, is what was asked
  for last, so an answer without an id reaches a later question, never an earlier. Also for any number of browsers, which TLC does not check.
- `OfAnother` (`[]RefersToAnother`). `Sources`: the real context is of another program,
  while of the last snapshot only the title is known to be; `KeptIsReal`: what the
  panel uses without a check came from the real context; `CaptureIsForNone`: a
  capture serves only tasks nothing was chosen for.
- `LeavingVoiceIsSilent` (`LeavingVoiceStopsListening`, an action property), for any
  number of switches. `SwitchHoldsLock`: within its switch a caller holds the lock and
  the mode is still the one it leaves; `SilentAfterTeardown`: past the
  teardown of voice the wake loop is off; `BootIsSeen`: the boot task, which takes no
  lock, runs beside no switch that does not count as overtaken.
- `ShutDownOnce` (`[]CleanExit`). `OneStops` says what whoever is inside the shutdown has
  behind him, `StartedFirst` that nobody shuts down what was not started,
  `ReturnsStopped` that the API's thread outlives a shutdown only.

### Resources and choices: `Resources_proofs`

- `ExclusiveByBothBooks` (`BothAreLocks`). The manager's locks are derived state
  (`LockIsRecorded`), the detector's index has one owner per resource (`OneOwner`);
  every step is then a `Take`, a `Free` or a stutter of `ExclusiveLocks`.
- `NoSecondFiring` (`[]FiresOnce`) and `SelfDeadlockIsFinal` (`StuckForGood`), from
  `MutexIsHeld`: a thread that checks or is stuck holds the mutex, and a free mutex
  leaves nothing to fire behind.
- `MethodIsFound` (`[]RoutingFits`), for any sequence of feedback and contexts. `Settled`:
  a choice that was made is the router's decision in its context, which fits it.
  `DecisionFixed` shows that decision to depend on nothing that feedback changes:
  `RoutingIsFixed` (`[]RepeatsChoice`) proves a divergence, see section 5.

### All of them together: `Services_proofs`

`ServicesTypeCorrect` (`[]TypeOK` of `MCServices`): every start of the composition is
one of each component's own initial states (`StartsAsItself`) and every step is a step
of one component or a stutter of it (`StepsAsItself`), so all the invariants above hold
side by side (`ServicesInv`), whatever the operators `...Starts` leave out. Each
component has a type theorem of its own as well.

### Only model-checked

Liveness: `HeldIsResolved`, `AllowedRuns`, `ClearedRuns`, `RunIsAnswered` and
`EverythingReturns` rest on fairness, which the provers do not reason about. Every
other property of a passing run is stated by a theorem.

## 7. Not modelled

- What a generated plugin consists of: `_generate_code` refers to a name that is not
  defined (`plugins/generator.py:362`), so every generation ends in its except branch,
  which `GeneratePlugin` models, and no evolved version passes the quick test
  (`QuickTest`): so the full pipeline of `sandbox_runner.py` and `plugin_validator.py`
  get nothing to do. `template_engine.py` supplies text for prompts.
- Code nothing reaches: `panel/input_adapter.py` (started by nobody),
  `executor/fallback_manager.py` (created, never called), the graph's cancel node
  and resumed runs (both name `UTC` without importing it), the local agents'
  sessions of the websocket (the agent of `scripts/` registers with a message the
  server does not know).
- Data: contexts, traces, metrics, the text matching inside the risk rules, how a
  title is classified and a directory found, embeddings (a relation), what a model
  answers (any outcome the code distinguishes).
- Effects: what file, UI and model tools do to the desktop, patches of files,
  speech recognition and filters, rendering of the panel and the dashboard.
- In the pipeline: wildcards and consumption of events, and the steps inside an
  execution, which `StepExecutor` and `LegacyStep` model apart from it.
- `automation/`, `debugging/`, `ai/`: helpers outside the task pipeline.

The component list in `PROJECT.json` says the same per component.
