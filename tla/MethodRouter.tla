---------------------------- MODULE MethodRouter ----------------------------
(***************************************************************************)
(* tools/method_router.py: which way of carrying out an intent is taken    *)
(* first, and which ways are left to fall back on.  select() is a pure     *)
(* function of what the registries, the risk rules and the focus tracker   *)
(* say of the intent, so an intent is the record of those answers.         *)
(***************************************************************************)
EXTENDS Naturals, Sequences

\* tools/routing_decision.py, MethodType.
MethodType == {"plugin", "api", "shell", "ui"}

\* What the four layers find when they look at an intent: the best trusted
\* plugin reaches the threshold, an API tool handles it, the risk of the
\* command ("NONE": no argv was produced), an application is focused or named,
\* and the intent's name starts like a user-interface action.
Intent == [plugin : BOOLEAN, api : BOOLEAN,
           risk : {"NONE", "SAFE", "LOW", "HIGH", "FORBIDDEN"},
           app : BOOLEAN, uiPrefix : BOOLEAN, safeMode : BOOLEAN]

EvaluatePlugin(i) == i.plugin

EvaluateApi(i) == i.api

EvaluateShell(i) ==
    /\ i.risk \notin {"NONE", "FORBIDDEN"}
    /\ ~(i.risk = "HIGH" /\ i.safeMode)

EvaluateUi(i) == i.app \/ i.uiPrefix

\* The whole order of preference; a decision is one of its suffixes.
Preference == <<"plugin", "api", "shell", "ui">>

Decision(m, viable, i) ==
    LET at == CHOOSE k \in 1..4 : Preference[k] = m
    IN [method |-> m, chain |-> SubSeq(Preference, at + 1, 4),
        viable |-> viable, app |-> i.app]

\* Mutant: the shell is preferred whenever a command was produced.
SelectUnscreened(i) ==
    IF EvaluatePlugin(i) THEN Decision("plugin", TRUE, i)
    ELSE IF EvaluateApi(i) THEN Decision("api", TRUE, i)
    ELSE IF i.risk # "NONE" THEN Decision("shell", TRUE, i)
    ELSE Decision("ui", EvaluateUi(i), i)

\* The first layer that accepts the intent; a user-interface decision of
\* confidence zero when none does.
Select(i) ==
    IF EvaluatePlugin(i) THEN Decision("plugin", TRUE, i)
    ELSE IF EvaluateApi(i) THEN Decision("api", TRUE, i)
    ELSE IF EvaluateShell(i) THEN Decision("shell", TRUE, i)
    ELSE Decision("ui", EvaluateUi(i), i)

\* With USE_GRAPH_ROUTING the router leaves the choice to the graph.
SimpleDecision(i) ==
    [method |-> "shell", chain |-> << >>, viable |-> TRUE, app |-> i.app]

\* What the graph's execute_step hands over: its own candidate, alone, and no
\* application to wait for.
TranslatedDecision(m) ==
    [method |-> m, chain |-> << >>, viable |-> TRUE, app |-> FALSE]
=============================================================================
