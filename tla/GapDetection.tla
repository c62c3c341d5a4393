---------------------------- MODULE GapDetection ----------------------------
(***************************************************************************)
(* From failures to a reported gap: the executor's failure events, the     *)
(* log of memory/episodic.py, brain/reflector.py, and                      *)
(* plugins/capability_gap_detector.py, which counts failures per group of  *)
(* similar intents and asks the generator for a plugin, once per cooldown. *)
(* The bus handles one event at a time, its handlers in turn.  A behaviour *)
(* falls within one window of the failure log.                             *)
(***************************************************************************)
EXTENDS Naturals, Sequences, FiniteSets

CONSTANTS
    Phrase,             \* intents, in any spelling
    Spoken,             \* the spellings that the events use
    Tidy,               \* their spelling in lower case, blanks for underscores
    ConsecutiveLimit,   \* CONSECUTIVE_FAIL_THRESHOLD
    WindowLimit,        \* WINDOW_FAIL_THRESHOLD
    StreakLimit,        \* Reflector._EVOLUTION_FAILURE_THRESHOLD
    MaxSignals,         \* bound: failures, successes and plugins that come in
    MaxPosted           \* bound: events on their way when another comes in

ASSUME PhraseAssumption ==
    /\ Tidy \in [Phrase -> Phrase] /\ Spoken \subseteq Phrase /\ Spoken # {}
    /\ \A p \in Phrase : Tidy[Tidy[p]] = Tidy[p]
ASSUME LimitAssumption ==
    {ConsecutiveLimit, WindowLimit, StreakLimit} \subseteq Nat \ {0} /\ MaxSignals \in Nat

VARIABLES
    alike,         \* pairs of intents whose embeddings are close enough
    embedded,      \* intents the detector has an embedding of
    group,         \* the canonical intent of each
    consecutive,   \* failures counted per key
    cooling,       \* keys triggered within the cooldown
    handled,       \* intents a loaded plugin handles
    logged,        \* failures in the window, per spelling
    streak,        \* the reflector's failures in a row of the one method
    posted,        \* events on their way, oldest first
    signals,       \* incoming events so far
    told           \* history: reports per embedded intent in this cooldown

gapVars == <<alike, embedded, group, consecutive, cooling, handled, logged, streak,
             posted, signals, told>>

Tidied == {Tidy[p] : p \in Spoken}

Fault == {"missing", "denied", "unknown"}    \* of the reflector, as far as it matters

GapInit ==
    /\ alike \in {r \in SUBSET (Tidied \X Tidied) : \A p, q \in Tidied :
                      /\ <<p, q>> \in r <=> <<q, p>> \in r
                      /\ <<p, p>> \in r}
    /\ embedded = {} /\ group = [p \in Phrase |-> p]
    /\ consecutive = [p \in Phrase |-> 0]
    /\ cooling = {} /\ handled = {}
    /\ logged = [p \in Phrase |-> 0]
    /\ streak = 0 /\ posted = << >> /\ signals = 0
    /\ told = [p \in Phrase |-> 0]

-----------------------------------------------------------------------------
\* Mutant: the aliases of a known intent are not looked up.
CanonicalForgotten(p, key) ==
    \/ /\ Tidy[p] \in embedded
       /\ key = Tidy[p]
       /\ UNCHANGED <<embedded, group>>
    \/ /\ Tidy[p] \notin embedded
       /\ embedded' = embedded \union {Tidy[p]}
       /\ \/ \E q \in embedded : <<Tidy[p], q>> \in alike /\ key = group[q]
          \/ key = Tidy[p] /\ \A q \in embedded : <<Tidy[p], q>> \notin alike
       /\ group' = [group EXCEPT ![Tidy[p]] = key]
    \/ Tidy[p] \notin embedded /\ key = p /\ UNCHANGED <<embedded, group>>

\* The embedding service may fail; the spelling of the event is then the key.
Canonical(p, key) ==
    \/ /\ Tidy[p] \in embedded
       /\ key = group[Tidy[p]]
       /\ UNCHANGED <<embedded, group>>
    \/ /\ Tidy[p] \notin embedded
       /\ embedded' = embedded \union {Tidy[p]}
       /\ \/ \E q \in embedded : <<Tidy[p], q>> \in alike /\ key = group[q]
          \/ key = Tidy[p] /\ \A q \in embedded : <<Tidy[p], q>> \notin alike
       /\ group' = [group EXCEPT ![Tidy[p]] = key]
    \/ Tidy[p] \notin embedded /\ key = p /\ UNCHANGED <<embedded, group>>

\* What is posted when a gap is reported goes to the generator (PluginLifecycle).
\* Neither of the other two checks ever stops it: _blocked holds names of plugins,
\* which no intent equals, and the table already_attempted counts in stays empty,
\* since nobody publishes the events that would fill it.
TriggerGap(p, key, counted) ==
    IF key \in cooling THEN
        consecutive' = counted /\ UNCHANGED <<cooling, told>>
    ELSE
        /\ cooling' = cooling \union {key}
        /\ consecutive' = [counted EXCEPT ![key] = 0]
        /\ told' = IF Tidy[p] \in embedded' THEN [told EXCEPT ![Tidy[p]] = @ + 1] ELSE told

\* Counts are kept up to the limit, where they make no further difference.
UpTo(limit, n) == IF n < limit THEN n ELSE limit

ProcessFailure(p, log) ==
    \E key \in Phrase :
        /\ Canonical(p, key)
        /\ LET counted == [consecutive EXCEPT ![key] = UpTo(ConsecutiveLimit, @ + 1)]
           IN IF counted[key] = ConsecutiveLimit \/ log[key] = WindowLimit
              THEN TriggerGap(p, key, counted)
              ELSE consecutive' = counted /\ UNCHANGED <<cooling, told>>

-----------------------------------------------------------------------------
(* What comes in. *)

Comes == signals < MaxSignals /\ signals' = signals + 1 /\ Len(posted) <= MaxPosted

\* The failure log of the episodic memory, which subscribed before the detector.
Log(p) == logged' = [logged EXCEPT ![p] = UpTo(WindowLimit, @ + 1)]

\* The executor publishes two events for one failure; task_failed overtakes the
\* other.
TaskFails(p, category) ==
    /\ Comes
    /\ Log(p)
    /\ ProcessFailure(p, logged')
    /\ posted' = Append(posted, [type |-> "execution", intent |-> p, category |-> category])
    /\ UNCHANGED <<alike, handled, streak>>

\* A success is no news to the detector, whatever succeeded.
TaskSucceeds ==
    /\ Comes
    /\ posted' = Append(posted, [type |-> "execution", intent |-> CHOOSE p \in Spoken : TRUE,
                                 category |-> "success"])
    /\ UNCHANGED <<alike, embedded, group, consecutive, cooling, handled,
                   logged, streak, told>>

\* A missing capability at once, anything else after some failures in a row.
AsksToEvolve(result, failures) ==
    result.category # "success" /\ (result.category = "missing" \/ failures = StreakLimit)

\* The bus waits for the reflector, which may ask the model for a root cause.
Reflect ==
    /\ posted # << >> /\ Head(posted).type = "execution"
    /\ LET result == Head(posted)
       IN /\ streak' = IF result.category = "success" THEN 0 ELSE UpTo(StreakLimit, streak + 1)
          /\ posted' = IF AsksToEvolve(result, streak')
                       THEN Append(Tail(posted), [result EXCEPT !.type = "evolution"])
                       ELSE Tail(posted)
    /\ UNCHANGED <<alike, embedded, group, consecutive, cooling, handled,
                   logged, signals, told>>

\* _on_evolution_needed of the detector; what was blocked is none of its business
\* here.  The evolver's handler of the same event is in PluginLifecycle: it asks the
\* generator for a missing plugin itself, whatever the cooldown says.
EvolutionNeeded ==
    /\ posted # << >> /\ Head(posted).type = "evolution"
    /\ posted' = Tail(posted)
    /\ IF Head(posted).category = "denied"
       THEN UNCHANGED <<embedded, group, consecutive, cooling, told>>
       ELSE ProcessFailure(Head(posted).intent, logged)
    /\ UNCHANGED <<alike, handled, logged, streak, signals>>

\* An intent the mapper knows nothing about is reported at its first failure.
MappingFails(p) ==
    /\ Comes
    /\ IF Tidy[p] \in handled THEN UNCHANGED <<embedded, group, consecutive, cooling, told>>
       ELSE \E key \in Phrase : Canonical(p, key) /\ TriggerGap(p, key, consecutive)
    /\ UNCHANGED <<alike, handled, logged, streak, posted>>

\* capability_registered and plugin_deployed.  The counters of the aliases are
\* dropped in every group.
GapFilled(p) ==
    /\ Comes
    /\ handled' = handled \union {Tidy[p]}
    /\ \E key \in Phrase :
           /\ Canonical(p, key)
           /\ cooling' = cooling \union {key}
           /\ consecutive' = [q \in Phrase |-> IF q = key \/ group'[q] # q THEN 0
                                               ELSE consecutive[q]]
    /\ UNCHANGED <<alike, logged, streak, posted, told>>

\* A rejection is meant to stop further requests, but counts as one more failure.
Reject(p) ==
    /\ Comes
    /\ Log(Tidy[p])
    /\ UNCHANGED <<alike, embedded, group, consecutive, cooling, handled, streak, posted, told>>

CooldownEnds(key) ==
    /\ key \in cooling
    /\ cooling' = cooling \ {key}
    /\ told' = [p \in Phrase |-> IF group[p] = key THEN 0 ELSE told[p]]
    /\ UNCHANGED <<alike, embedded, group, consecutive, handled, logged,
                   streak, posted, signals>>

GapNext ==
    \/ \E p \in Spoken : \/ \E c \in Fault : TaskFails(p, c)
                         \/ MappingFails(p) \/ GapFilled(p)
                         \/ Reject(p)
    \/ \E key \in Phrase : CooldownEnds(key)
    \/ TaskSucceeds \/ Reflect \/ EvolutionNeeded

GapSpec == GapInit /\ [][GapNext]_gapVars
-----------------------------------------------------------------------------
(* Type correctness of gap detection. *)
GapTypeOK ==
    /\ alike \subseteq Tidied \X Tidied
    /\ embedded \subseteq Tidied /\ group \in [Phrase -> Phrase]
    /\ consecutive \in [Phrase -> 0..ConsecutiveLimit]
    /\ cooling \subseteq Phrase /\ handled \subseteq Tidied
    /\ logged \in [Phrase -> 0..WindowLimit] /\ streak \in 0..StreakLimit
    /\ posted \in Seq([type : {"execution", "evolution"}, intent : Phrase,
                       category : Fault \union {"success"}])
    /\ signals \in 0..MaxSignals /\ told \in [Phrase -> Nat]

(* For failures of one group of similar intents the detector asks for at most   *)
(* one plugin within a cooldown, in whatever words and through whichever event  *)
(* they reach it and in whatever order the words were met, as long as they have *)
(* an embedding.                                                                *)
OneReportPerCooldown ==
    \A p, q \in embedded :
        group[p] = group[q] => told[p] + told[q] <= (IF p = q THEN 2 ELSE 1)
=============================================================================
