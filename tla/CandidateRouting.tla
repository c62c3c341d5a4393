-------------------------- MODULE CandidateRouting --------------------------
(***************************************************************************)
(* How the graph's route node finds a method for a step: discovery,        *)
(* evaluation and ranking of candidates (graph/candidate_discovery.py,     *)
(* candidate_evaluation.py, ranking_policy.py), with the feedback of       *)
(* earlier executions (learning_integration.py).  No API and no plugin     *)
(* manifest is ever registered with the discovery, so the candidates are   *)
(* the shell, the UI, the browser and the vision.                          *)
(***************************************************************************)
EXTENDS Naturals, Integers

VARIABLES
    objective,    \* the words of the step's objective that matter
    command,      \* the risk of its command
    visual,       \* the intent's name speaks of something visual
    surroundings, \* the context last observed
    bias,         \* per method, what feedback and rankings add to its score
    choice,       \* the method the route node found
    first         \* history: the choice made first in each context

routingVars == <<objective, command, visual, surroundings, bias, choice, first>>

Word   == {"command", "file", "click", "window", "browser"}
Discovery == [shell |-> 1, ui |-> 2, browser |-> 3, vision |-> 4]    \* their order
AnyOf  == {"shell", "ui", "browser", "vision"}
Bound  == 2                                                          \* a fifth, in tenths

\* A type is known of a window only; a title nobody could read counts as one.
Surroundings ==
    {s \in [window : BOOLEAN, type : {"unknown", "terminal", "browser"}] :
        s.type # "unknown" => s.window}

RoutingInit ==
    /\ objective \in SUBSET Word
    /\ command \in {"low", "high", "unassessed"} /\ visual \in BOOLEAN
    /\ surroundings \in Surroundings
    /\ bias = [m \in AnyOf |-> 0]
    /\ choice = "open" /\ first = [s \in Surroundings |-> "open"]

-----------------------------------------------------------------------------
Discovered(s) ==
    {m \in AnyOf : CASE m = "shell"   -> TRUE
                     [] m = "ui"      -> s.window
                     [] m = "browser" -> s.type = "browser"
                     [] OTHER         -> visual}

\* The scores are in tenths.

CapabilityFit(m) ==
    LET says(w) == w \in objective
    IN CASE m = "shell"   -> IF says("command") THEN 9 ELSE IF says("file") THEN 7 ELSE 5
         [] m = "ui"      -> IF says("click") THEN 9 ELSE IF says("window") THEN 8 ELSE 4
         [] m = "browser" -> 9
         [] OTHER         -> 2

\* An objective that does not say browser runs into an undefined name.
FitIsDefined(m) == m = "browser" => "browser" \in objective

ContextFit(m, s) ==
    CASE m = "shell" -> IF s.type = "terminal" THEN 8 ELSE 6
      [] m = "ui"    -> IF s.window THEN 9 ELSE 2
      [] m = "browser" -> IF s.type = "browser" THEN 9 ELSE 2
      [] OTHER       -> 5

\* No candidate of the vision says that there is a camera or a permission.
Availability(m) == CASE m = "shell" -> 10 [] m = "vision" -> 0 [] OTHER -> 8
Permissions(m)  == CASE m = "shell" -> 8 [] m = "vision" -> 3 [] OTHER -> 7
Reliability(m)  == CASE m = "shell" -> 9 [] m = "vision" -> 5 [] OTHER -> 6
Risk(m)         == CASE m = "shell" -> 7 [] m = "vision" -> 8 [] OTHER -> 5
Latency(m)      == CASE m = "shell" -> 9 [] m = "vision" -> 4 [] OTHER -> 5

\* update_historical_data is called by nobody.
HistoricalSuccess == 5

\* The classes of a step are in lower case, those it is compared with in capitals.
Reversibility == 4

\* In thousandths.  The score the discovery adjusted is overwritten.
WeightedScore(m, s) ==
    25 * CapabilityFit(m) + 20 * ContextFit(m, s) + 15 * Availability(m)
    + 15 * Reliability(m) + 10 * HistoricalSuccess + 5 * Risk(m) + 5 * Permissions(m)
    + 3 * Latency(m) + 2 * Reversibility

\* The third constraint, on destructive steps, compares with capitals too.
ConstraintsSatisfied(m) == Availability(m) >= 5 /\ Permissions(m) >= 5

\* route_node filters on the risk of the command, the same for every candidate.
Eligible(s) ==
    IF command # "low" THEN {} ELSE {m \in Discovered(s) : ConstraintsSatisfied(m)}

\* Of equal scores the one discovered first.
RanksBefore(m, n, s) ==
    \/ WeightedScore(m, s) > WeightedScore(n, s)
    \/ WeightedScore(m, s) = WeightedScore(n, s) /\ Discovery[m] < Discovery[n]

Best(s) ==
    CHOOSE m \in Eligible(s) : \A n \in Eligible(s) \ {m} : RanksBefore(m, n, s)

\* Mutant: a threshold that the shell alone does not always reach.
ChoosyDecision(s) ==
    IF \E m \in Discovered(s) : ~FitIsDefined(m) THEN "none"
    ELSE IF \A m \in Eligible(s) : WeightedScore(m, s) < 700 THEN "none"
    ELSE Best(s)

RoutingDecision(s) ==
    IF \E m \in Discovered(s) : ~FitIsDefined(m) THEN "none"
    ELSE IF \A m \in Eligible(s) : WeightedScore(m, s) < 500 THEN "none"
    ELSE Best(s)

-----------------------------------------------------------------------------
Route ==
    /\ choice = "open"
    /\ choice' = RoutingDecision(surroundings)
    /\ first' = IF first[surroundings] = "open"
                THEN [first EXCEPT ![surroundings] = choice'] ELSE first
    /\ UNCHANGED <<objective, command, visual, surroundings, bias>>

\* The step is executed, the result recorded, and a re-routing asked for.  The
\* adjustment is bounded; its extremes are what matters.
Feedback ==
    /\ choice \notin {"open", "none"}
    /\ choice' = "open"
    /\ \E b \in {-Bound, 0, Bound} : bias' = [bias EXCEPT ![choice] = b]
    /\ UNCHANGED <<objective, command, visual, surroundings, first>>

Observe ==
    /\ surroundings' \in Surroundings \ {surroundings}
    /\ choice' = "open"
    /\ UNCHANGED <<objective, command, visual, bias, first>>

RoutingNext == Route \/ Feedback \/ Observe
RoutingSpec == RoutingInit /\ [][RoutingNext]_routingVars
-----------------------------------------------------------------------------
(* Type correctness of candidate routing. *)
RoutingTypeOK ==
    /\ objective \subseteq Word /\ command \in {"low", "high", "unassessed"}
    /\ visual \in BOOLEAN /\ surroundings \in Surroundings
    /\ bias \in [AnyOf -> (-Bound)..Bound]
    /\ choice \in AnyOf \union {"open", "none"}
    /\ first \in [Surroundings -> AnyOf \union {"open", "none"}]

(* A low-risk step is never left without a method by the scores, the constraints *)
(* and the threshold together, however often it failed before: the one that is    *)
(* missing is lost to a browser in front that the objective does not speak of.    *)
(* What is found is something the context can carry and that may be used.         *)
RoutingFits ==
    /\ choice = "none" =>
           command # "low" \/ (surroundings.type = "browser" /\ "browser" \notin objective)
    /\ choice = "ui" => surroundings.window
    /\ choice = "browser" => surroundings.type = "browser" /\ "browser" \in objective
    /\ choice # "vision"

(* What the feedback of learning_integration.py comes to: a re-routing in the     *)
(* same context repeats the first choice, the one that failed included.  The      *)
(* comments there say that performance influences routing; this is not wanted,    *)
(* it is what the code does.                                                      *)
RepeatsChoice == choice # "open" => choice = first[surroundings]
=============================================================================
