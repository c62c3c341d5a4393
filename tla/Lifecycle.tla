------------------------------ MODULE Lifecycle ------------------------------
(***************************************************************************)
(* How the agent starts and stops: LifecycleManager.startup, run_forever   *)
(* and shutdown under asyncio.run.  Two coroutines can be inside shutdown: *)
(* run_forever, which polls is_running once a second, and the task that a  *)
(* signal creates.  asyncio.run cancels the latter when the former is over *)
(* and then waits for the thread of the API server, which never ends.      *)
(***************************************************************************)
EXTENDS Naturals, Sequences

VARIABLES
    graphMode,    \* USE_LANGGRAPH
    main,         \* where run_forever stands
    next,         \* the next step of startup
    up,           \* the steps of startup that succeeded
    isRunning,    \* is_running
    handlers,     \* the signal handlers are registered
    server,       \* the thread of the API server runs
    stopper,      \* where the shutdown begun by a signal stands
    saves,        \* times the learned patterns were flushed (one too many kept)
    store,        \* the key-value store of the long-term memory
    orchestra,    \* the orchestrator was stopped: microphone and panel closed
    typed,        \* what became of the first request typed in the panel
    process       \* alive, exit0, exit1 (forced), killed, waits (asyncio.run), over

lifeVars == <<graphMode, main, next, up, isRunning, handlers, server, stopper, saves,
              store, orchestra, typed, process>>

-----------------------------------------------------------------------------
(* startup *)

BootOrder ==
    <<"config", "bus", "sentry", "llm", "brain", "intent", "context", "validator",
      "executor", "memory", "episodic", "orchestrator", "mode", "plugins",
      "evolution", "learning", "graph">>

\* Steps whose failure is logged and passed over.  The sentry never raises.
Guarded == {"episodic", "evolution", "learning", "graph"}

Stages == {"prune", "panel", "settle", "cancel"}    \* the awaits of shutdown

LifeInit ==
    /\ graphMode \in BOOLEAN
    /\ main = "boots" /\ next = 1 /\ up = {}
    /\ isRunning = FALSE /\ handlers = FALSE /\ server = FALSE
    /\ stopper = "none" /\ saves = 0 /\ store = "open" /\ orchestra = "up"
    /\ typed = "none" /\ process = "alive"

Fails(step) ==
    /\ step \notin Guarded \union {"sentry"}
    /\ main' = "leaves"
    /\ UNCHANGED <<next, up, isRunning>>

Succeeds(step) ==
    /\ up' = up \union {step}
    /\ isRunning' = (isRunning \/ step = "config")
    /\ next' = next + 1
    /\ UNCHANGED main

PassesOver(step) ==
    /\ step \in Guarded
    /\ next' = next + 1
    /\ UNCHANGED <<up, isRunning, main>>

Boot ==
    /\ main = "boots" /\ next <= Len(BootOrder)
    /\ LET step == BootOrder[next] IN Fails(step) \/ Succeeds(step) \/ PassesOver(step)
    /\ UNCHANGED <<graphMode, handlers, server, stopper, saves, store, orchestra, typed,
                   process>>

\* _register_signal_handlers, the last line of startup, and the server's thread.
Booted ==
    /\ main = "boots" /\ next > Len(BootOrder)
    /\ handlers' = TRUE /\ server' = TRUE /\ main' = "polls"
    /\ UNCHANGED <<graphMode, next, up, isRunning, stopper, saves, store, orchestra, typed,
                   process>>

\* In graph mode the orchestrator leaves user_input_received alone, and the
\* graph subscribes to it in the last step of startup.
Taken ==
    IF graphMode THEN "graph" \in up ELSE {"orchestrator", "intent"} \subseteq up

\* The panel is up with the boot mode, before the startup is over.
UserTypes ==
    /\ typed = "none" /\ process = "alive" /\ "mode" \in up /\ orchestra = "up"
    /\ typed' = IF Taken THEN "taken" ELSE "lost"
    /\ UNCHANGED <<graphMode, main, next, up, isRunning, handlers, server, stopper, saves,
                   store, orchestra, process>>

-----------------------------------------------------------------------------
(* shutdown *)

\* Mutant: the early return is missing.
ShutDownAgain ==
    /\ isRunning' = FALSE
    /\ saves' = IF saves < 2 THEN saves + 1 ELSE saves
    /\ store' = "closed"

\* Nothing is awaited from the first line to the end of the flushes.
ShutDown ==
    /\ isRunning
    /\ isRunning' = FALSE
    /\ saves' = IF saves < 2 THEN saves + 1 ELSE saves
    /\ store' = "closed"

\* The pruner, the panel's thread, half a second, the cancelled tasks.
Following(stage) ==
    CASE stage = "prune" -> "panel" [] stage = "panel" -> "settle" [] OTHER -> "cancel"

\* The microphone and the panel are closed on the way from one to the next.
OrchestratorStops(stage) == orchestra' = IF stage = "panel" THEN "stopped" ELSE orchestra

Exit == process' = "exit0"

\* run_forever notices within a second that the agent was stopped.
MainPolls ==
    /\ main = "polls" /\ ~isRunning
    /\ main' = "leaves"
    /\ UNCHANGED <<graphMode, next, up, isRunning, handlers, server, stopper, saves, store,
                   orchestra, typed, process>>

\* The finally clause: shutdown returns at once when someone else began it.
MainStops ==
    /\ main = "leaves"
    /\ \/ ShutDown /\ main' = "prune"
       \/ ~isRunning /\ main' = "returned" /\ UNCHANGED <<isRunning, saves, store>>
    /\ UNCHANGED <<graphMode, next, up, handlers, server, stopper, orchestra, typed,
                   process>>

MainGoesOn ==
    /\ main \in Stages
    /\ IF main = "cancel" THEN Exit /\ UNCHANGED <<main, orchestra>>
       ELSE main' = Following(main) /\ OrchestratorStops(main) /\ UNCHANGED process
    /\ UNCHANGED <<graphMode, next, up, isRunning, handlers, server, stopper, saves, store,
                   typed>>

StopperBegins ==
    /\ stopper = "asked"
    /\ \/ ShutDown /\ stopper' = "prune"
       \/ ~isRunning /\ stopper' = "none" /\ UNCHANGED <<isRunning, saves, store>>
    /\ UNCHANGED <<graphMode, main, next, up, handlers, server, orchestra, typed, process>>

\* All other tasks are cancelled before the last await, run_forever with them.
StopperGoesOn ==
    /\ stopper \in Stages
    /\ IF stopper = "cancel" THEN Exit /\ UNCHANGED <<main, stopper, orchestra>>
       ELSE /\ stopper' = Following(stopper) /\ OrchestratorStops(stopper)
            /\ main' = IF stopper = "settle" /\ main = "polls" THEN "leaves" ELSE main
            /\ UNCHANGED process
    /\ UNCHANGED <<graphMode, next, up, isRunning, handlers, server, saves, store, typed>>

\* asyncio.run cancels what is left.  Only the last await of shutdown catches that;
\* before it the shutdown is cut short.
RunEnds ==
    /\ main = "returned"
    /\ process' = IF stopper = "cancel" THEN "exit0"
                  ELSE IF server THEN "waits" ELSE "over"
    /\ stopper' = IF stopper = "cancel" THEN stopper ELSE "none"
    /\ UNCHANGED <<graphMode, main, next, up, isRunning, handlers, server, saves, store,
                   orchestra, typed>>

-----------------------------------------------------------------------------
\* With the handlers in place the first request stops the agent and a later one
\* ends the process; without them an interrupt cancels run_forever, once, or the
\* signal ends the process at once.
Signal ==
    /\ \/ /\ handlers /\ isRunning
          /\ stopper' = "asked" /\ UNCHANGED <<main, process>>
       \/ /\ handlers /\ ~isRunning
          /\ process' = "exit1" /\ UNCHANGED <<main, stopper>>
       \/ /\ ~handlers /\ main = "boots"
          /\ main' = "leaves" /\ UNCHANGED <<stopper, process>>
       \/ /\ ~handlers
          /\ process' = "killed" /\ UNCHANGED <<main, stopper>>
    /\ UNCHANGED <<graphMode, next, up, isRunning, handlers, server, saves, store, orchestra,
                   typed>>

Ended == process \in {"exit0", "exit1", "killed", "over"}

Live == process = "alive" /\ (Boot \/ Booted \/ MainPolls \/ MainStops \/ MainGoesOn
                              \/ StopperBegins \/ StopperGoesOn \/ RunEnds \/ UserTypes)

LifeNext == Live \/ (~Ended /\ Signal)

LifeSpec == LifeInit /\ [][LifeNext]_lifeVars
-----------------------------------------------------------------------------
(* Type correctness of the start and the stop. *)
LifeTypeOK ==
    /\ graphMode \in BOOLEAN /\ isRunning \in BOOLEAN /\ handlers \in BOOLEAN
    /\ server \in BOOLEAN
    /\ main \in {"boots", "polls", "leaves", "returned"} \union Stages
    /\ next \in 1..(Len(BootOrder) + 1)
    /\ up \subseteq {BootOrder[i] : i \in DOMAIN BootOrder}
    /\ stopper \in {"none", "asked"} \union Stages
    /\ saves \in 0..2 /\ store \in {"open", "closed"} /\ orchestra \in {"up", "stopped"}
    /\ typed \in {"none", "taken", "lost"}
    /\ process \in {"alive", "exit0", "exit1", "killed", "waits", "over"}

(* The agent is shut down by one coroutine at most, however often it is asked   *)
(* and whoever notices first; an exit with status 0 has been through all of it, *)
(* and one that was cut short has at least saved what was learned.              *)
CleanExit ==
    /\ saves <= 1
    /\ ~(main \in Stages /\ stopper \in Stages)
    /\ process = "exit0" => saves = 1 /\ store = "closed" /\ orchestra = "stopped"
    /\ process = "waits" => saves = 1 /\ store = "closed"
=============================================================================
