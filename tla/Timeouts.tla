------------------------------ MODULE Timeouts ------------------------------
(***************************************************************************)
(* TimeoutManager: time limits of running tasks, kept under one mutex that *)
(* cannot be taken twice by a thread, and watched by a watchdog thread,    *)
(* which can be stopped and started again.                                 *)
(***************************************************************************)
EXTENDS Naturals

CONSTANTS
    Limit,       \* time limits: keys of active_timeouts
    Watchdog,    \* threads running _watchdog_loop, one after the other
    NoWatchdog   \* _watchdog_thread is None

ASSUME WatchdogAssumption == NoWatchdog \notin Watchdog

VARIABLES
    armed,      \* keys of active_timeouts
    cancels,    \* limits whose callback requests a cancellation of its task
    mutex,      \* the watchdog inside _lock, or NoWatchdog
    expired,    \* what its check_timeouts has still to look at
    thread,     \* what each watchdog thread does
    current,    \* _watchdog_thread
    stop,       \* _stop_event
    joining,    \* stop_watchdog waits for the thread
    fired       \* history: callbacks run for a limit since it was started

timeoutVars == <<armed, cancels, mutex, expired, thread, current, stop, joining, fired>>

TimeoutInit ==
    /\ armed = {} /\ expired = {}
    /\ cancels \in SUBSET Limit
    /\ mutex = NoWatchdog /\ current = NoWatchdog
    /\ thread = [w \in Watchdog |-> "absent"]
    /\ stop = FALSE /\ joining = FALSE
    /\ fired = [l \in Limit |-> 0]

MutexFree == mutex = NoWatchdog

-----------------------------------------------------------------------------
\* Mutant: a limit is added without the mutex.
StartTimeoutUnlocked(l) ==
    /\ armed' = armed \union {l}
    /\ fired' = [fired EXCEPT ![l] = 0]
    /\ UNCHANGED <<cancels, mutex, expired, thread, current, stop, joining>>

\* start_operation_timeout, start_step_timeout, start_task_timeout and
\* start_watchdog_timeout differ in the key and the seconds only.
StartTimeout(l) ==
    /\ MutexFree
    /\ armed' = armed \union {l}
    /\ fired' = [fired EXCEPT ![l] = 0]
    /\ UNCHANGED <<cancels, mutex, expired, thread, current, stop, joining>>

\* Mutant: limits are dropped without the mutex.
CancelUnlocked ==
    /\ \E S \in SUBSET armed : S # {} /\ armed' = armed \ S
    /\ UNCHANGED <<cancels, mutex, expired, thread, current, stop, joining, fired>>

\* cancel_timeout, and cancel_all_timeouts_for_task of request_cancellation.
CancelTimeouts ==
    /\ MutexFree
    /\ \E S \in SUBSET armed : S # {} /\ armed' = armed \ S
    /\ UNCHANGED <<cancels, mutex, expired, thread, current, stop, joining, fired>>

-----------------------------------------------------------------------------
(* The watchdogs. *)

PassLoopHead(w) ==
    /\ thread[w] = "waits"
    /\ thread' = [thread EXCEPT ![w] = IF stop THEN "absent" ELSE "enters"]
    /\ UNCHANGED <<armed, cancels, mutex, expired, current, stop, joining, fired>>

BeginCheck(w) ==
    /\ thread[w] = "enters" /\ MutexFree
    /\ thread' = [thread EXCEPT ![w] = "checks"]
    /\ mutex' = w
    /\ expired' \in SUBSET armed
    /\ UNCHANGED <<armed, cancels, current, stop, joining, fired>>

\* A callback that requests a cancellation asks for the mutex its own thread has.
Fire(w) ==
    /\ thread[w] = "checks"
    /\ \E l \in expired :
          IF l \in cancels
          THEN /\ thread' = [thread EXCEPT ![w] = "stuck"]
               /\ UNCHANGED <<armed, expired, fired>>
          ELSE /\ fired' = [fired EXCEPT ![l] = IF @ < 2 THEN @ + 1 ELSE @]
               /\ armed' = armed \ {l}
               /\ expired' = expired \ {l}
               /\ UNCHANGED thread
    /\ UNCHANGED <<cancels, mutex, current, stop, joining>>

EndCheck(w) ==
    /\ thread[w] = "checks" /\ expired = {}
    /\ thread' = [thread EXCEPT ![w] = "waits"]
    /\ mutex' = NoWatchdog
    /\ UNCHANGED <<armed, cancels, expired, current, stop, joining, fired>>

-----------------------------------------------------------------------------
\* A thread that still runs is left alone.  The event is cleared for all: a thread
\* that was stopped during a long callback goes on beside the new one.
StartWatchdog ==
    /\ ~joining
    /\ current # NoWatchdog => thread[current] = "absent"
    /\ stop' = FALSE
    /\ \E w \in Watchdog :
          /\ thread[w] = "absent"
          /\ thread' = [thread EXCEPT ![w] = "waits"]
          /\ current' = w
    /\ UNCHANGED <<armed, cancels, mutex, expired, joining, fired>>

StopWatchdog ==
    /\ ~joining /\ current # NoWatchdog
    /\ stop' = TRUE /\ joining' = TRUE
    /\ UNCHANGED <<armed, cancels, mutex, expired, thread, current, fired>>

\* The thread has ended, or for five seconds it runs callbacks or awaits the mutex.
JoinReturns ==
    /\ joining /\ thread[current] # "waits"
    /\ thread[current] = "enters" => ~MutexFree
    /\ joining' = FALSE /\ current' = NoWatchdog
    /\ UNCHANGED <<armed, cancels, mutex, expired, thread, stop, fired>>

Watch(w) == PassLoopHead(w) \/ BeginCheck(w) \/ Fire(w) \/ EndCheck(w)

TimeoutNext ==
    \/ \E l \in Limit : StartTimeout(l)
    \/ CancelTimeouts
    \/ \E w \in Watchdog : Watch(w)
    \/ StartWatchdog \/ StopWatchdog \/ JoinReturns

TimeoutSpec == TimeoutInit /\ [][TimeoutNext]_timeoutVars
-----------------------------------------------------------------------------
(* Type correctness of limits and watchdogs. *)
TimeoutTypeOK ==
    /\ armed \subseteq Limit /\ cancels \subseteq Limit /\ expired \subseteq Limit
    /\ mutex \in Watchdog \union {NoWatchdog}
    /\ current \in Watchdog \union {NoWatchdog}
    /\ thread \in [Watchdog -> {"absent", "waits", "enters", "checks", "stuck"}]
    /\ stop \in BOOLEAN /\ joining \in BOOLEAN
    /\ fired \in [Limit -> 0..2]

(* A limit's callback runs once at most, and what a check is about to fire has   *)
(* not been cancelled meanwhile, though a stop that gives up on a busy watchdog  *)
(* and a new start leave two of them checking.                                   *)
FiresOnce ==
    /\ \A l \in Limit : fired[l] <= 1
    /\ \A l \in armed : fired[l] = 0
    /\ expired \subseteq armed

(* A callback that requests a cancellation never returns, and with it every     *)
(* limit of every task is frozen: none is started, cancelled or fired again.    *)
StuckForGood ==
    [][\A w \in Watchdog : thread[w] = "stuck"
          => thread'[w] = "stuck" /\ mutex' = w /\ armed' = armed /\ fired' = fired]_timeoutVars
=============================================================================
