------------------------------ MODULE Settings ------------------------------
(***************************************************************************)
(* Values of core/config.py and limits written in the code that bound what *)
(* the components do.                                                      *)
(***************************************************************************)
EXTENDS Naturals

CONSTANTS
    MaxRetries,   \* settings.MAX_RETRY_ATTEMPTS
    MaxTotal      \* max_total_attempts of Executor._execute_with_decision

\* The limit on rounds is no lower than the number of methods.
ASSUME RetryAssumption == MaxRetries \in Nat \ {0} /\ MaxTotal \in Nat /\ MaxTotal >= 4
=============================================================================
