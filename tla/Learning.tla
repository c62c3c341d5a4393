------------------------------ MODULE Learning ------------------------------
(***************************************************************************)
(* What the agent learns of one intent (learning/): plans that worked, the *)
(* methods users chose and reflections confirmed, the methods that were    *)
(* routed wrongly, each kept in a file written after every lesson; the     *)
(* pruner of the shutdown; and the order in which the panel's suggestions  *)
(* show the methods (panel/suggestion_engine.py).                          *)
(***************************************************************************)
EXTENDS Naturals, Integers, Sequences

CONSTANTS
    Method,        \* a sequence: the methods in the order of the waterfall
    App,           \* applications in the foreground
    Plan,          \* abstracted plans
    StepsOf,       \* how many steps each has
    Sane,          \* those without stutters, loops and too many steps
    MaxPatterns,   \* settings.MAX_PATTERNS_PER_INTENT
    MaxPenalty,    \* settings.LEARNER_MAX_MISMATCH_PENALTY
    MaxLessons     \* bound: lessons in all

ASSUME PlanAssumption  == StepsOf \in [Plan -> Nat \ {0}] /\ Sane \subseteq Plan
ASSUME LearnAssumption == MaxPatterns \in Nat \ {0} /\ {MaxPenalty, MaxLessons} \subseteq Nat

VARIABLES
    patterns,    \* plans learned, with how often each was used
    chosen,      \* per application and method
    penalty,     \* per method
    file,        \* the three stores on disk
    agent,       \* up, stopping, down
    lessons,     \* lessons so far
    shortest,    \* history: steps of the shortest plan learned, 0 for none
    spoiled      \* history: a crash in the middle of a write

learnVars == <<patterns, chosen, penalty, file, agent, lessons, shortest, spoiled>>

Anywhere == "*"
Methods == {Method[i] : i \in DOMAIN Method}
\* What is loaded from a file that is missing or cut off.
Nothing == [patterns |-> << >>, chosen |-> [a \in App \union {Anywhere} |-> [m \in Methods |-> 0]],
            penalty |-> [m \in Methods |-> 0]]

LearnInit ==
    /\ patterns = Nothing.patterns /\ chosen = Nothing.chosen /\ penalty = Nothing.penalty
    /\ file = Nothing
    /\ agent = "up" /\ lessons = 0 /\ shortest = 0 /\ spoiled = FALSE

-----------------------------------------------------------------------------
(* The order in which methods are suggested. *)

Counts(a) ==
    IF \E m \in Methods : chosen[a][m] > 0 THEN chosen[a] ELSE chosen[Anywhere]

Net(a, m) == Counts(a)[m] - penalty[m]

HasRank(a) == {m \in Methods : Counts(a)[m] > 0 \/ penalty[m] > 0}

Place(m) == CHOOSE i \in DOMAIN Method : Method[i] = m

\* Equal scores are in no particular order.
Before(a, m, n) ==
    IF m \in HasRank(a) /\ n \in HasRank(a) THEN Net(a, m) > Net(a, n)
    ELSE m \in HasRank(a) \/ (n \notin HasRank(a) /\ Place(m) < Place(n))

Offered(a) == {m \in Methods : ~\E n \in Methods : Before(a, n, m)}

-----------------------------------------------------------------------------
\* A write empties the file first: a crash in it leaves nothing that can be read.
Write(store, content) ==
    \/ /\ file' = [file EXCEPT ![store] = content]
       /\ UNCHANGED <<agent, spoiled>>
    \/ /\ file' = [file EXCEPT ![store] = Nothing[store]]
       /\ agent' = "down" /\ spoiled' = TRUE

Lesson == agent # "down" /\ lessons < MaxLessons /\ lessons' = lessons + 1

\* learn_from_success: a plan known already is counted, a new one goes last.
LearnFromSuccess(p) ==
    /\ Lesson
    /\ IF p \notin Sane THEN UNCHANGED <<patterns, file, agent, shortest, spoiled>>
       ELSE /\ patterns' =
                 IF \E i \in DOMAIN patterns : patterns[i].plan = p
                 THEN [i \in DOMAIN patterns |->
                          IF patterns[i].plan = p THEN [patterns[i] EXCEPT !.used = @ + 1]
                          ELSE patterns[i]]
                 ELSE Append(patterns, [plan |-> p, used |-> 1])
            /\ Write("patterns", patterns')
            /\ shortest' = IF shortest = 0 \/ StepsOf[p] < shortest THEN StepsOf[p] ELSE shortest
    /\ UNCHANGED <<chosen, penalty>>

\* The user took another method than one that was offered first.
LearnFromOverride(a, m) ==
    /\ Lesson
    /\ Offered(a) # {m}
    /\ chosen' = [chosen EXCEPT ![a][m] = @ + 1]
    /\ Write("chosen", chosen')
    /\ UNCHANGED <<patterns, penalty, shortest>>

\* A success the reflector saw counts for the application and for all of them.
LearnFromReflection(a, m) ==
    /\ Lesson
    /\ chosen' = [b \in DOMAIN chosen |-> IF b \in {a, Anywhere}
                                         THEN [chosen[b] EXCEPT ![m] = @ + 1] ELSE chosen[b]]
    /\ Write("chosen", chosen')
    /\ UNCHANGED <<patterns, penalty, shortest>>

LearnFromMismatch(m) ==
    /\ Lesson
    /\ IF penalty[m] >= MaxPenalty THEN UNCHANGED <<penalty, file, agent, spoiled>>
       ELSE penalty' = [penalty EXCEPT ![m] = @ + 1] /\ Write("penalty", penalty')
    /\ UNCHANGED <<patterns, chosen, shortest>>

-----------------------------------------------------------------------------
\* Mutant: the longest come first.
ByStepsReversed(p, q) == StepsOf[p.plan] > StepsOf[q.plan]

ByLength(p, q) == StepsOf[p.plan] < StepsOf[q.plan]

\* A stable sort by length.
Precedes(list, i, j) ==
    \/ ByLength(list[i], list[j])
    \/ ~ByLength(list[j], list[i]) /\ i < j

\* The first few in that order (one result).
Pruned(list) ==
    LET kept  == 1..(IF Len(list) < MaxPatterns THEN Len(list) ELSE MaxPatterns)
        order == {f \in [kept -> DOMAIN list] : \A k \in kept :
                     /\ \A l \in kept : k < l => Precedes(list, f[k], f[l])
                     /\ \A i \in DOMAIN list : \/ Precedes(list, f[k], i)
                                             \/ \E l \in kept : i = f[l]}
     IN {[k \in kept |-> list[f[k]]] : f \in order}

\* prune_store works on the file; the learner, still subscribed, knows nothing of it.
Prune ==
    /\ agent = "up"
    /\ \/ /\ \E rest \in Pruned(file.patterns) : file' = [file EXCEPT !.patterns = rest]
          /\ agent' = "stopping" /\ UNCHANGED spoiled
       \/ /\ file' = [file EXCEPT !.patterns = Nothing.patterns]
          /\ agent' = "down" /\ spoiled' = TRUE
    /\ UNCHANGED <<patterns, chosen, penalty, lessons, shortest>>

Stop ==
    /\ agent # "down" /\ agent' = "down"
    /\ UNCHANGED <<patterns, chosen, penalty, file, lessons, shortest, spoiled>>

Start ==
    /\ agent = "down" /\ agent' = "up"
    /\ patterns' = file.patterns /\ chosen' = file.chosen /\ penalty' = file.penalty
    /\ UNCHANGED <<file, lessons, shortest, spoiled>>

LearnNext ==
    \/ \E p \in Plan : LearnFromSuccess(p)
    \/ \E m \in Methods :
           \/ LearnFromMismatch(m)
           \/ \E a \in App : LearnFromOverride(a, m) \/ LearnFromReflection(a, m)
    \/ Prune \/ Stop \/ Start

LearnSpec == LearnInit /\ [][LearnNext]_learnVars
-----------------------------------------------------------------------------
PatternList == Seq([plan : Sane, used : Nat])
Table == [Methods -> Nat]

(* Type correctness of what is learned. *)
LearnTypeOK ==
    /\ patterns \in PatternList /\ penalty \in [Methods -> 0..MaxPenalty]
    /\ chosen \in [App \union {Anywhere} -> Table]
    /\ file.patterns \in PatternList
    /\ file.chosen \in [App \union {Anywhere} -> Table]
    /\ file.penalty \in Table
    /\ agent \in {"up", "stopping", "down"} /\ lessons \in 0..MaxLessons
    /\ shortest \in Nat /\ spoiled \in BOOLEAN

(* Unless a write was cut off, the shortest plan that ever worked is on disk,   *)
(* through prunings, restarts and lessons between the pruning and the end.      *)
ShortestSurvives ==
    ~spoiled /\ shortest > 0 =>
        \E i \in DOMAIN file.patterns : StepsOf[file.patterns[i].plan] = shortest
=============================================================================
