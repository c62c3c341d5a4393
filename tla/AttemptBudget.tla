--------------------------- MODULE AttemptBudget ---------------------------
(***************************************************************************)
(* What a run of the graph promises about the outside world, whatever road *)
(* it takes through its nodes: a step is tried a bounded number of times,  *)
(* nothing is tried again once a try has succeeded, and nothing is tried   *)
(* once the run has been answered.                                         *)
(***************************************************************************)
EXTENDS Naturals

CONSTANT Budget   \* tries a run may make at most, a natural number

VARIABLES
    tries,      \* tries made so far
    succeeded,  \* has a try succeeded?
    answered    \* has the caller been given a result?

vars == <<tries, succeeded, answered>>

Init == tries = 0 /\ succeeded = FALSE /\ answered = FALSE

MayTry == tries < Budget /\ ~succeeded /\ ~answered

Try == MayTry /\ tries' = tries + 1 /\ succeeded' \in BOOLEAN
       /\ UNCHANGED answered

Answer == ~answered /\ answered' = TRUE /\ UNCHANGED <<tries, succeeded>>

Next == Try \/ Answer

Spec == Init /\ [][Next]_vars
=============================================================================
