------------------------------ MODULE VoiceMode ------------------------------
(***************************************************************************)
(* Switching between voice, panel and no input.  The panel's button is     *)
(* handled on the bus loop, the dashboard's request on the loop of the API *)
(* server, the boot mode is applied by a task of its own; meanwhile the    *)
(* wake word, the capture of a command and the flush of a switch read the  *)
(* microphone from threads.                                                *)
(***************************************************************************)
EXTENDS Naturals

CONSTANT MaxSwitches    \* bound: requests to switch

ASSUME SwitchAssumption == MaxSwitches \in Nat

VARIABLES
    mode,        \* _current_mode
    switch,      \* where each caller of set_mode stands, with its two modes
    lock,        \* who holds ModeManager._lock
    active,      \* orchestrator._voice_active: the wake loop runs
    stopFlag,    \* pipeline._stop_requested
    stopped,     \* pipeline._stopped
    running,     \* audio_manager._is_running
    stream,      \* is there an open stream?
    restart,     \* who holds audio_manager._restart_lock
    micReader,   \* what each reader of the microphone does
    wakes,       \* a wake_word_detected event waits on the bus
    capture,     \* capture_command is in its loop; the bus waits for it
    switches,    \* requests so far
    torn,        \* history: a stream was closed while it was being read
    overtaken    \* history: a switch began while the boot mode was being applied

voiceVars == <<mode, switch, lock, active, stopFlag, stopped, running, stream,
               restart, micReader, wakes, capture, switches, torn, overtaken>>
requestVars == <<switches, overtaken>>
audioVars == <<running, stream, restart, micReader, torn>>

Mode == {"voice", "panel", "none"}
Caller == {"bus", "api", "boot"}
Reader == {"wake", "capture", "flush"}
Free == "free"
Idle == [at |-> "idle", from |-> "none", to |-> "none"]

VoiceInit ==
    /\ mode \in Mode
    /\ switch = [c \in Caller |->
                   IF c = "boot" THEN [at |-> "start", from |-> mode, to |-> mode] ELSE Idle]
    /\ lock = Free /\ restart = Free
    /\ active = TRUE /\ stopFlag = FALSE /\ stopped = TRUE
    /\ running = FALSE /\ stream = FALSE /\ torn = FALSE
    /\ micReader = [r \in Reader |-> "idle"]
    /\ wakes = FALSE /\ capture = FALSE /\ switches = 0 /\ overtaken = FALSE

At(c, where) == switch[c].at = where
GoTo(c, where) == switch' = [switch EXCEPT ![c].at = where]

-----------------------------------------------------------------------------
(* voice/audio_manager.py: start, stop and restart, and reading a chunk.     *)

\* A device that does not open is tried three times.
OpenStream ==
    IF running THEN UNCHANGED <<running, stream>>
    ELSE \/ running' = TRUE /\ stream' = TRUE
         \/ running' = FALSE /\ UNCHANGED stream

\* The stream is taken under one lock and closed outside it; whoever reads it
\* holds another.
CloseStream ==
    /\ running' = FALSE /\ stream' = FALSE
    /\ torn' = (torn \/ (stream /\ \E r \in Reader : micReader[r] = "reads"))

Does(r, what) == micReader' = [micReader EXCEPT ![r] = what]

\* Who reads: the wake loop while it is on, a capture, the flush of a switch.
MayRead(r) ==
    /\ micReader[r] = "idle"
    /\ \/ r = "wake" /\ active
       \/ r = "capture" /\ capture /\ ~stopFlag
       \/ r = "flush" /\ \E c \in Caller : At(c, "drain")

BeginRead(r) ==
    /\ MayRead(r) /\ restart = Free /\ running /\ stream
    /\ restart' = r /\ Does(r, "reads")
    /\ UNCHANGED <<mode, switch, lock, active, stopFlag, stopped, running, stream,
                   wakes, capture, requestVars, torn>>

\* A chunk may hold the wake word, or the silence that ends the command.
EndRead(r) ==
    /\ micReader[r] = "reads"
    /\ restart' = Free /\ Does(r, "idle")
    /\ wakes' \in IF r = "wake" THEN {wakes, TRUE} ELSE {wakes}
    /\ \/ UNCHANGED <<capture, stopped>>
       \/ r = "capture" /\ capture' = FALSE /\ stopped' = TRUE
    /\ UNCHANGED <<mode, switch, lock, active, stopFlag, running, stream, requestVars, torn>>

FailRead(r) ==
    /\ micReader[r] = "reads"
    /\ running' = FALSE /\ restart' = Free /\ Does(r, "fails")
    /\ UNCHANGED <<mode, switch, lock, active, stopFlag, stopped, stream, wakes,
                   capture, requestVars, torn>>

BeginRestart(r) ==
    /\ micReader[r] = "fails" /\ restart = Free
    /\ restart' = r /\ Does(r, "restarts")
    /\ CloseStream
    /\ UNCHANGED <<mode, switch, lock, active, stopFlag, stopped, wakes, capture, requestVars>>

EndRestart(r) ==
    /\ micReader[r] = "restarts"
    /\ OpenStream
    /\ restart' = Free /\ Does(r, "idle")
    /\ UNCHANGED <<mode, switch, lock, active, stopFlag, stopped, wakes, capture,
                   requestVars, torn>>

ReadMic(r) == BeginRead(r) \/ EndRead(r) \/ FailRead(r) \/ BeginRestart(r) \/ EndRestart(r)

-----------------------------------------------------------------------------
(* voice/pipeline.py, core/orchestrator.py: a wake word starts a capture,     *)
(* and the bus waits until it ends.                                           *)

BusFree == ~capture /\ At("bus", "idle")

HandleWakeWord ==
    /\ wakes /\ BusFree
    /\ wakes' = FALSE /\ capture' = TRUE /\ stopped' = FALSE
    /\ UNCHANGED <<mode, switch, lock, active, stopFlag, requestVars, audioVars>>

\* The flag is looked at before each chunk; while the microphone is closed no chunk
\* comes, none is counted, and the loop goes on.
CaptureStops ==
    /\ capture /\ stopFlag /\ micReader["capture"] = "idle"
    /\ capture' = FALSE /\ stopped' = TRUE
    /\ UNCHANGED <<mode, switch, lock, active, stopFlag, wakes, requestVars, audioVars>>

-----------------------------------------------------------------------------
(* core/mode_manager.py: set_mode *)

\* The mode is compared before the lock is asked for.
RequestMode(c) ==
    /\ At(c, "idle") /\ c # "boot" /\ switches < MaxSwitches
    /\ c = "bus" => BusFree
    /\ switches' = switches + 1
    /\ \E m \in Mode \ {mode} :
          switch' = [switch EXCEPT ![c] = [at |-> "wants", from |-> mode, to |-> m]]
    /\ UNCHANGED <<mode, lock, active, stopFlag, stopped, wakes, capture, overtaken, audioVars>>

\* Mutant: the lock is not asked for.
EnterUnlocked(c) ==
    /\ At(c, "wants")
    /\ switch' = [switch EXCEPT ![c].at = "teardown", ![c].from = mode]
    /\ overtaken' = (overtaken \/ ~At("boot", "idle"))
    /\ UNCHANGED <<mode, lock, active, stopFlag, stopped, wakes, capture, switches, audioVars>>

\* A caller that finds the lock taken waits for it, or is refused when the lock
\* is bound to the loop of the other.
EnterLock(c) ==
    /\ At(c, "wants")
    /\ \/ /\ lock = Free /\ lock' = c
          /\ switch' = [switch EXCEPT ![c].at = "teardown", ![c].from = mode]
          /\ overtaken' = (overtaken \/ ~At("boot", "idle"))
       \/ /\ lock # Free
          /\ switch' = [switch EXCEPT ![c] = Idle]
          /\ UNCHANGED <<lock, overtaken>>
    /\ UNCHANGED <<mode, active, stopFlag, stopped, wakes, capture, switches, audioVars>>

\* Tasks in flight have been waited for.  Leaving the panel touches no audio.
Teardown(c) ==
    /\ At(c, "teardown")
    /\ IF switch[c].from = "voice"
       THEN active' = FALSE /\ stopFlag' = TRUE /\ GoTo(c, "flush")
       ELSE UNCHANGED <<active, stopFlag>> /\ GoTo(c, "start")
    /\ UNCHANGED <<mode, lock, stopped, wakes, capture, requestVars, audioVars>>

\* flush_tail waits two seconds for the capture, then reads what is left; the
\* flag is cleared whether the capture has seen it or not.
FlushTail(c) ==
    \/ /\ At(c, "flush") /\ GoTo(c, "drain")
       /\ UNCHANGED <<mode, lock, active, stopFlag, stopped, wakes, capture, requestVars, audioVars>>
    \/ /\ At(c, "drain") /\ micReader["flush"] = "idle" /\ GoTo(c, "start")
       /\ stopFlag' = FALSE /\ stopped' = TRUE /\ active' = FALSE
       /\ UNCHANGED <<mode, lock, wakes, capture, requestVars, audioVars>>

\* The microphone is opened for voice and closed for the panel, in an executor.
Startup(c) ==
    /\ At(c, "start") /\ GoTo(c, "opened")
    /\ CASE switch[c].to = "voice" -> OpenStream /\ UNCHANGED torn
         [] switch[c].to = "panel" -> CloseStream
         [] switch[c].to = "none"  -> UNCHANGED <<running, stream, torn>>
    /\ UNCHANGED <<mode, lock, active, stopFlag, stopped, restart, micReader, wakes,
                   capture, requestVars>>

\* pipeline.reset and the gate of the wake loop; the boot has no lock to give back.
Finish(c) ==
    /\ At(c, "opened")
    /\ switch' = [switch EXCEPT ![c] = Idle]
    /\ IF switch[c].to = "voice"
       THEN stopFlag' = FALSE /\ stopped' = TRUE /\ active' = TRUE
       ELSE UNCHANGED <<stopFlag, stopped, active>>
    /\ IF c = "boot" THEN UNCHANGED <<mode, lock>>
       ELSE mode' = switch[c].to /\ lock' = IF lock = c THEN Free ELSE lock
    /\ UNCHANGED <<wakes, capture, requestVars, audioVars>>

SetMode(c) == EnterLock(c) \/ Teardown(c) \/ FlushTail(c) \/ Startup(c) \/ Finish(c)

VoiceNext ==
    \/ HandleWakeWord \/ CaptureStops
    \/ \E r \in Reader : ReadMic(r)
    \/ \E c \in Caller : RequestMode(c) \/ SetMode(c)

VoiceSpec == VoiceInit /\ [][VoiceNext]_voiceVars
-----------------------------------------------------------------------------
(* Type correctness of the mode, its switches and the microphone. *)
VoiceTypeOK ==
    /\ mode \in Mode
    /\ switch \in [Caller -> [at : {"idle", "wants", "teardown", "flush", "drain",
                                    "start", "opened"}, from : Mode, to : Mode]]
    /\ lock \in Caller \union {Free} /\ restart \in Reader \union {Free}
    /\ micReader \in [Reader -> {"idle", "reads", "fails", "restarts"}]
    /\ \A r \in Reader : micReader[r] \in {"reads", "restarts"} => restart = r
    /\ switches \in 0..MaxSwitches

(* Whoever leaves voice mode has turned the wake loop off, though both callers   *)
(* compare the modes before they have the lock, one may wait while the other's   *)
(* switch changes the mode, and a capture may outlive its flush.  The boot task   *)
(* takes no lock: a switch that begins before it has ended is excepted, since it  *)
(* may turn the loop on again.                                                    *)
LeavingVoiceStopsListening ==
    [][mode = "voice" /\ mode' # "voice" /\ ~overtaken => ~active']_voiceVars

(* audio_manager.py says that a read holds _restart_lock because without it     *)
(* "stop() on another thread could ... close the stream between our check and    *)
(* the actual stream.read() call"; stop() itself does not take that lock.        *)
NoCloseWhileReading == ~torn
=============================================================================
