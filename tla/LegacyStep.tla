----------------------------- MODULE LegacyStep -----------------------------
(***************************************************************************)
(* One step carried out by Executor._execute_step_safe, for tasks without  *)
(* a decision of the router: a plugin, else the registered capability,     *)
(* else the waterfall of tools, with retries counted by RetryManager.      *)
(***************************************************************************)
EXTENDS Sequences, Settings

VARIABLES
    needs,        \* a window to focus, a terminal to choose, or nothing; or the
                  \* action is one of restricted_actions and barred
    plugin,       \* a plugin matches the action and accepts its arguments
    registered,   \* the capability registry knows the action
    able,         \* tiers with a tool that handles the action
    at,           \* where the coroutine stands
    tiers,        \* tiers of the waterfall still to come
    counted,      \* retry_manager.attempts[task_id][step_index]
    capRuns,      \* times the capability was executed (_cap_attempt + 1)
    unchecked,    \* executions whose result could not be checked: the check raised
    tried,        \* tools tried, in order (tried_tools)
    falls,        \* fallback_attempts
    result        \* what the coroutine returns

legacyVars == <<needs, plugin, registered, able, at, tiers, counted, capRuns,
                unchecked, tried, falls, result>>

\* _WATERFALL_ORDER, and the rotation that puts the preferred tier first.
Waterfall == <<"plugin", "api", "command", "ui">>
Tier == {"plugin", "api", "command", "ui"}
BuildWaterfall(k) == SubSeq(Waterfall, k, 4) \o SubSeq(Waterfall, 1, k - 1)

\* The names _classify_error_dynamically can answer.
Category == {"permission_denied", "not_found", "timeout", "network", "unknown_error"}
NonRetryable == {"permission_denied", "not_found"}

LegacyInit ==
    /\ needs \in {"nothing", "focus", "terminal", "barred"}
    /\ plugin \in BOOLEAN /\ registered \in BOOLEAN
    /\ able \in SUBSET Tier
    /\ at = "prepare"
    /\ \E k \in 1..4 : tiers = BuildWaterfall(k)
    /\ counted = 0 /\ capRuns = 0 /\ falls = 0 /\ unchecked = 0
    /\ tried = << >>
    /\ result = "none"

Return(r) == at' = "returned" /\ result' = r

\* The window is focused, or the terminal chosen by the resolver or the user,
\* who has a minute to answer.
Prepare ==
    /\ at = "prepare"
    /\ \/ needs # "barred" /\ at' = "plugin" /\ UNCHANGED result
       \/ needs = "barred" /\ Return("blocked")
       \/ needs = "focus" /\ Return("focus_failed")
       \/ needs = "terminal" /\ Return("target_selection")
    /\ UNCHANGED <<needs, plugin, registered, able, tiers, counted, capRuns,
                   unchecked, tried, falls>>

\* A plugin that fails, times out or raises is passed over.
DispatchPlugin ==
    /\ at = "plugin"
    /\ \/ plugin /\ Return("done")
       \/ at' = "capability" /\ UNCHANGED result
    /\ UNCHANGED <<needs, plugin, registered, able, tiers, counted, capRuns,
                   unchecked, tried, falls>>

\* retry_manager.peek_should_retry, and should_retry once the caller retries.
\* The mutant grants one retry too many.
PeekOnceMore(category) == category \notin NonRetryable /\ counted <= MaxRetries
PeekShouldRetry(category) == category \notin NonRetryable /\ counted < MaxRetries

CountRetry(category) ==
    counted' = IF PeekShouldRetry(category) THEN counted + 1 ELSE counted

\* The registry turns what the capability raises into a failure, and so does a
\* check that refuses what it returned; a check that raises, after the capability
\* has acted, breaks off into the waterfall.
ExecuteCapability ==
    /\ at = "capability"
    /\ \/ /\ ~registered \/ capRuns > MaxRetries
          /\ at' = "waterfall"
          /\ UNCHANGED <<counted, capRuns, unchecked, result>>
       \/ /\ registered /\ capRuns <= MaxRetries
          /\ capRuns' = capRuns + 1
          /\ \/ /\ \E r \in {"done", "refused"} : Return(r)
                /\ UNCHANGED <<counted, unchecked>>
             \/ /\ at' = "waterfall" /\ unchecked' = unchecked + 1
                /\ UNCHANGED <<counted, result>>
             \/ \E c \in Category :
                   /\ CountRetry(c)
                   /\ IF PeekShouldRetry(c) THEN UNCHANGED <<at, result>>
                      ELSE Return("exhausted")
                   /\ UNCHANGED unchecked
    /\ UNCHANGED <<needs, plugin, registered, able, tiers, tried, falls>>

\* The next tier: passed over without a tool for the action; otherwise its tool
\* runs, and after a failure a retry that is granted moves on like a fallback,
\* without being counted as one.  The API tool's run() takes no action, which
\* the check of the signature turns into a failure.
TryTier ==
    /\ at = "waterfall"
    /\ \/ /\ tiers = << >> \/ falls >= MaxRetries
          /\ Return("exhausted")
          /\ UNCHANGED <<tiers, counted, tried, falls>>
       \/ /\ tiers # << >> /\ falls < MaxRetries
          /\ tiers' = Tail(tiers)
          /\ \/ /\ Head(tiers) \notin able
                /\ UNCHANGED <<at, counted, tried, falls, result>>
             \/ /\ Head(tiers) \in able
                /\ tried' = Append(tried, Head(tiers))
                /\ \/ /\ Head(tiers) # "api"
                      /\ Return("done") /\ UNCHANGED <<counted, falls>>
                   \/ \E c \in Category :
                         /\ CountRetry(c)
                         /\ falls' = IF PeekShouldRetry(c) THEN falls ELSE falls + 1
                         /\ UNCHANGED <<at, result>>
    /\ UNCHANGED <<needs, plugin, registered, able, capRuns, unchecked>>

LegacyNext == Prepare \/ DispatchPlugin \/ ExecuteCapability \/ TryTier

LegacySpec == LegacyInit /\ [][LegacyNext]_legacyVars /\ WF_legacyVars(LegacyNext)
-----------------------------------------------------------------------------
(* Type correctness of a step without a decision. *)
LegacyTypeOK ==
    /\ needs \in {"nothing", "focus", "terminal", "barred"}
    /\ plugin \in BOOLEAN /\ registered \in BOOLEAN /\ able \subseteq Tier
    /\ at \in {"prepare", "plugin", "capability", "waterfall", "returned"}
    /\ tiers \in Seq(Tier) /\ tried \in Seq(Tier)
    /\ counted \in 0..MaxRetries /\ capRuns \in Nat /\ unchecked \in Nat /\ falls \in 0..MaxRetries

(* A capability that was executed may have had its effect before it failed.  A  *)
(* tool of the waterfall is then tried only if the check of the capability's    *)
(* result raised: the loop is left in four places and its counter is not the    *)
(* one the retry manager keeps.  The two ways also share the retry manager's    *)
(* budget, so that together they act no more often than retries that are        *)
(* granted, failures that are passed over and one first attempt allow.          *)
SecondWayOnlyUnchecked ==
    /\ capRuns > 0 /\ tried # << >> => unchecked = 1
    /\ capRuns + Len(tried) <= 2 * MaxRetries + 1
=============================================================================
