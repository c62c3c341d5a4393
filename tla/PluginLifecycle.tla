-------------------------- MODULE PluginLifecycle --------------------------
(***************************************************************************)
(* One installed plugin: its directory, its entry in the plugin registry   *)
(* and the function the capability registry runs for it.  The bus thread   *)
(* approves, rejects, reloads and evolves it, one event at a time; the     *)
(* thread of the API server reloads, enables, disables and removes it.     *)
(***************************************************************************)
EXTENDS Naturals, Sequences

CONSTANTS
    MaxEvolve,     \* MAX_EVOLVE_ATTEMPTS
    MaxRequests    \* bound: requests of users and of other components

ASSUME EvolveAssumption == MaxEvolve \in Nat \ {0} /\ MaxRequests \in Nat

VARIABLES
    disk,        \* plugins/installed/<name>: directory, plugin.py, manifest's status
    entry,       \* status of the plugin registry's entry, or "none"
    served,      \* does the capability registry run the plugin?
    todo,        \* what is left of the operation each thread performs
    held,        \* status of the plugin the thread has in hand, or "none"
    inbox,       \* events for the plugin the bus has not handled
    evolver,     \* where PluginEvolver.evolve stands, and its attempt
    backup,      \* status in the manifest create_snapshot copied, or "none"
    asks,    \* requests so far
    restarted,   \* has the agent been restarted?
    overlap      \* history: did two threads work on the plugin at once?

pluginVars == <<disk, entry, served, todo, held, inbox, evolver, backup,
                asks, restarted, overlap>>

Thread == {"bus", "api"}
Status == {"pending", "trusted", "untrusted", "retired"}
Removed == [dir |-> FALSE, code |-> FALSE, manifest |-> "none"]
Stopped == [stage |-> "off", attempt |-> 0]

-----------------------------------------------------------------------------
(* plugins/loader.py, plugins/registry.py: operations as sequences of the   *)
(* steps between which the other thread may run.                            *)

\* Mutant: whatever has a manifest is loaded.
LoadedAlways(d) == IF d.code THEN d.manifest ELSE "none"

\* The status load_plugin gives the entry it makes of a directory, if any.
Loaded(d) ==
    IF d.code /\ d.manifest \in {"pending", "trusted"} THEN d.manifest ELSE "none"

HotReload ==
    IF disk.dir THEN <<"forget", "withdraw", "read", "register", "serve">> ELSE << >>

PluginInit ==
    /\ \E s \in {"pending", "trusted"} : disk = [dir |-> TRUE, code |-> TRUE, manifest |-> s]
    /\ entry = Loaded(disk) /\ served = (entry = "trusted")
    /\ todo = [t \in Thread |-> << >>]
    /\ held = [t \in Thread |-> "none"]
    /\ inbox = << >> /\ evolver = Stopped /\ backup = "none"
    /\ asks = 0 /\ restarted = FALSE /\ overlap = FALSE

Busy(t) == todo[t] # << >>
Quiet == evolver = Stopped /\ \A t \in Thread : ~Busy(t)

\* The thread goes on to the n-th step from here.
Advance(t, n) == todo' = [todo EXCEPT ![t] = SubSeq(@, n + 1, Len(@))]

Forget(t) ==
    /\ Advance(t, IF entry = "none" THEN 2 ELSE 1)
    /\ entry' = "none"
    /\ UNCHANGED <<disk, served, held, backup>>

\* Mutant: the capability registry keeps the function.
WithdrawNothing(t) == Advance(t, 1) /\ UNCHANGED <<disk, entry, served, held, backup>>

Withdraw(t) ==
    /\ served' = FALSE /\ Advance(t, 1)
    /\ UNCHANGED <<disk, entry, held, backup>>

Read(t) ==
    /\ held' = [held EXCEPT ![t] = Loaded(disk)]
    /\ Advance(t, IF Loaded(disk) = "none" THEN 3 ELSE 1)
    /\ UNCHANGED <<disk, entry, served, backup>>

Register(t) ==
    /\ entry' = held[t] /\ Advance(t, 1)
    /\ UNCHANGED <<disk, served, held, backup>>

Serve(t) ==
    /\ served' = (served \/ held[t] = "trusted")
    /\ held' = [held EXCEPT ![t] = "none"]
    /\ Advance(t, 1)
    /\ UNCHANGED <<disk, entry, backup>>

\* update_status does nothing to a plugin without an entry, and leaves out what
\* follows; PluginManifest.save makes the directory it writes to.
UpdateStatus(t, s, whatFollows) ==
    /\ IF entry = "none"
       THEN Advance(t, 1 + whatFollows) /\ UNCHANGED <<disk, entry, held>>
       ELSE /\ entry' = s
            /\ disk' = [disk EXCEPT !.dir = TRUE, !.manifest = s]
            /\ held' = [held EXCEPT ![t] = IF s = "trusted" THEN s ELSE "none"]
            /\ Advance(t, 1)
    /\ UNCHANGED <<served, backup>>

\* Mutant: the manifest survives the directory.
DeleteCode(t) ==
    /\ disk' = [disk EXCEPT !.dir = FALSE, !.code = FALSE]
    /\ backup' = "none" /\ Advance(t, 1)
    /\ UNCHANGED <<entry, served, held>>

Delete(t) ==
    /\ disk' = Removed /\ backup' = "none" /\ Advance(t, 1)
    /\ UNCHANGED <<entry, served, held>>

Step(t) ==
    /\ Busy(t)
    /\ \/ Head(todo[t]) = "forget"   /\ Forget(t)
       \/ Head(todo[t]) = "withdraw" /\ Withdraw(t)
       \/ Head(todo[t]) = "read"     /\ Read(t)
       \/ Head(todo[t]) = "register" /\ Register(t)
       \/ Head(todo[t]) = "serve"    /\ Serve(t)
       \/ Head(todo[t]) = "trust"    /\ UpdateStatus(t, "trusted", 1)
       \/ Head(todo[t]) = "distrust" /\ UpdateStatus(t, "untrusted", 2)
       \/ Head(todo[t]) = "delete"   /\ Delete(t)
    /\ evolver' = IF Head(todo[t]) = "delete" /\ evolver.stage = "quick"
                  THEN [evolver EXCEPT !.stage = "lost"] ELSE evolver
    /\ UNCHANGED <<inbox, asks, restarted, overlap>>

Begin(t, steps) ==
    /\ todo' = [todo EXCEPT ![t] = steps]
    /\ overlap' = (overlap \/ (steps # << >> /\ \E u \in Thread \ {t} : Busy(u)))

-----------------------------------------------------------------------------
(* api/routes/plugins.py, api/websocket.py, brain/reflector.py *)

Asked == asks < MaxRequests /\ asks' = asks + 1

\* The dashboard's buttons, the health monitor, the reflector ("needed") and the
\* detector of gaps ("gap") publish without looking.
EventRequested ==
    /\ Asked
    /\ \E name \in {"approved", "rejected", "reload", "evolve", "needed", "gap"} :
          inbox' = Append(inbox, name)
    /\ UNCHANGED <<disk, entry, served, todo, held, evolver, backup, restarted, overlap>>

\* enable, disable: the status changes in memory alone.
ApiToggles ==
    /\ Asked /\ ~Busy("api") /\ entry # "none"
    /\ entry' \in {"trusted", "retired"}
    /\ UNCHANGED <<disk, served, todo, held, inbox, evolver, backup, restarted, overlap>>

ApiReloads ==
    /\ Asked /\ ~Busy("api")
    /\ Begin("api", HotReload)
    /\ UNCHANGED <<disk, entry, served, held, inbox, evolver, backup, restarted>>

ApiRemoves ==
    /\ Asked /\ ~Busy("api") /\ entry # "none"
    /\ Begin("api", <<"forget", "withdraw", "delete">>)
    /\ UNCHANGED <<disk, entry, served, held, inbox, evolver, backup, restarted>>

\* What the vector store may know of a plugin counts only while its files are there.
MayBeSimilar == disk.code /\ disk.manifest # "none"

\* generate_plugin_for_intent, with the events still to be handled: a similar plugin
\* is to be evolved, else a directory is made and _generate_code raises, since it
\* uses a name it does not have.
GeneratePlugin(others) ==
    \/ MayBeSimilar /\ inbox' = Append(others, "evolve") /\ UNCHANGED disk
    \/ inbox' = others /\ disk' = [disk EXCEPT !.dir = TRUE]

ApiGenerates ==
    /\ Asked /\ ~Busy("api")
    /\ GeneratePlugin(inbox)
    /\ UNCHANGED <<entry, served, todo, held, evolver, backup, restarted, overlap>>

-----------------------------------------------------------------------------
(* plugins/generator.py, plugins/loader.py: the bus handles an event when   *)
(* the handlers of the one before have returned.                            *)

Handling(name) ==
    /\ ~Busy("bus") /\ evolver = Stopped /\ inbox # << >> /\ Head(inbox) = name
    /\ UNCHANGED <<entry, served, held, asks, restarted>>

Handled(name) == Handling(name) /\ inbox' = Tail(inbox) /\ UNCHANGED disk

OnPluginApproved ==
    /\ Handled("approved")
    /\ Begin("bus", <<"trust", "serve">> \o HotReload)
    /\ UNCHANGED <<evolver, backup>>

OnPluginRejected ==
    /\ Handled("rejected")
    /\ Begin("bus", <<"distrust", "forget", "withdraw">>)
    /\ UNCHANGED <<evolver, backup>>

OnReloadRequested ==
    /\ Handled("reload")
    /\ Begin("bus", HotReload)
    /\ UNCHANGED <<evolver, backup>>

\* evolve gives up on a plugin without a file, else it makes a snapshot.
StartEvolution ==
    IF disk.code
    THEN evolver' = [stage |-> "generate", attempt |-> 1] /\ backup' = disk.manifest
    ELSE UNCHANGED <<evolver, backup>>

OnEvolutionRequested ==
    /\ Handled("evolve")
    /\ StartEvolution
    /\ UNCHANGED <<todo, overlap>>

\* A missing capability is passed to the generator, past the cooldown of the
\* detector; of anything else a plugin that is registered is evolved.
OnEvolutionNeeded ==
    /\ UNCHANGED <<todo, overlap>>
    /\ \/ /\ Handling("needed")
          /\ inbox' = Append(Tail(inbox), "gap")
          /\ UNCHANGED <<disk, evolver, backup>>
       \/ /\ Handled("needed")
          /\ IF entry # "none" THEN StartEvolution ELSE UNCHANGED <<evolver, backup>>

OnGapDetected ==
    /\ Handling("gap")
    /\ GeneratePlugin(Tail(inbox))
    /\ UNCHANGED <<todo, evolver, backup, overlap>>

Dispatch ==
    \/ OnPluginApproved \/ OnPluginRejected \/ OnReloadRequested
    \/ OnEvolutionRequested \/ OnEvolutionNeeded \/ OnGapDetected

-----------------------------------------------------------------------------
(* plugins/plugin_evolver.py, plugins/plugin_rollback.py, plugins/sandbox_runner.py *)

\* After the last attempt the snapshot is copied back, unless it went with the
\* directory, and the plugin is marked untrusted.
Rollback ==
    /\ evolver' = Stopped /\ backup' = "none"
    /\ IF backup = "none" THEN UNCHANGED <<disk, todo, overlap>>
       ELSE /\ disk' = [dir |-> TRUE, code |-> TRUE, manifest |-> backup]
            /\ Begin("bus", <<"distrust", "forget", "withdraw">>)

\* Mutant: attempts are not counted.
NextAttemptUncounted ==
    /\ evolver' = [evolver EXCEPT !.stage = "generate"]
    /\ UNCHANGED <<disk, backup, todo, overlap>>

NextAttempt ==
    \/ /\ evolver.attempt < MaxEvolve
       /\ evolver' = [stage |-> "generate", attempt |-> evolver.attempt + 1]
       /\ UNCHANGED <<disk, backup, todo, overlap>>
    \/ evolver.attempt >= MaxEvolve /\ Rollback

\* Without the directory the temporary file cannot be written, and one that went with
\* it ("lost") not be removed: the exception leaves evolve without a rollback.
EvolveRaises ==
    /\ ~disk.dir \/ evolver.stage = "lost"
    /\ evolver' = Stopped /\ backup' = "none"
    /\ UNCHANGED <<disk, todo, overlap>>

\* The model writes a new version, put beside the plugin's file, or none.
Generate ==
    /\ evolver.stage = "generate"
    /\ \/ NextAttempt
       \/ /\ disk.dir
          /\ evolver' = [evolver EXCEPT !.stage = "quick"]
          /\ UNCHANGED <<disk, backup, todo, overlap>>
       \/ EvolveRaises

\* The sandbox imports a file named plugin.py.evolved_tmp, for which importlib has
\* no loader: no version passes, and the pipeline that would follow is not reached.
QuickTest ==
    \/ evolver.stage = "quick" /\ NextAttempt
    \/ evolver.stage = "lost" /\ EvolveRaises

Evolve ==
    /\ Generate \/ QuickTest
    /\ UNCHANGED <<entry, served, held, inbox, asks, restarted>>

-----------------------------------------------------------------------------
\* The agent is stopped at any point and started again: load_all reads the disk.
Restart ==
    /\ ~restarted /\ restarted' = TRUE
    /\ entry' = Loaded(disk) /\ served' = (Loaded(disk) = "trusted")
    /\ todo' = [t \in Thread |-> << >>]
    /\ held' = [t \in Thread |-> "none"]
    /\ inbox' = << >> /\ backup' = "none" /\ evolver' = Stopped
    /\ UNCHANGED <<disk, asks, overlap>>

Request == EventRequested \/ ApiToggles \/ ApiReloads \/ ApiRemoves \/ ApiGenerates

BusThread == Dispatch \/ Evolve \/ Step("bus")
ApiThread == Step("api")

PluginNext == Request \/ Restart \/ BusThread \/ ApiThread

PluginSpec ==
    /\ PluginInit /\ [][PluginNext]_pluginVars
    /\ WF_pluginVars(BusThread) /\ WF_pluginVars(ApiThread)

-----------------------------------------------------------------------------
(* Type correctness of the plugin's three records and of the two threads. *)
PluginTypeOK ==
    /\ disk \in [dir : BOOLEAN, code : BOOLEAN, manifest : Status \union {"none"}]
    /\ ~disk.dir => disk = Removed
    /\ entry \in Status \union {"none"} /\ served \in BOOLEAN
    /\ held \in [Thread -> {"pending", "trusted", "none"}]
    /\ evolver.stage \in {"off", "generate", "quick", "lost"} /\ evolver.attempt \in 0..MaxEvolve
    /\ asks \in 0..MaxRequests

(* What the capability registry runs is known to the plugin registry, through *)
(* which alone it can be withdrawn, and what is registered has its file, unless *)
(* both threads worked on the plugin at once: the registry's lock covers its    *)
(* own table, not the two tables and the disk together.                         *)
ServedIsRegistered ==
    (Quiet /\ ~overlap) => /\ served => entry # "none"
                           /\ entry # "none" => disk.code

(* A plugin the user rejected, or an evolution gave up, stays out whatever is   *)
(* approved, enabled, reloaded, evolved or restarted later, again unless both   *)
(* threads work on it at once.                                                  *)
RejectedStaysOut ==
    (disk.manifest = "untrusted" /\ Quiet /\ ~overlap) => entry = "none" /\ ~served
=============================================================================
