--------------------------- MODULE ExclusiveLocks ---------------------------
(***************************************************************************)
(* What a bookkeeper of physical resources promises to the runs that share *)
(* one desktop: a resource has one owner at a time, it is taken only when  *)
(* it is free, and it changes hands only by being freed in between.        *)
(***************************************************************************)
CONSTANTS Task, Resource, NoTask
VARIABLE owner

Init == owner = [r \in Resource |-> NoTask]

Take(t, r) == owner[r] = NoTask /\ owner' = [owner EXCEPT ![r] = t]

\* One call may free several resources.
Free(S) == owner' = [r \in Resource |-> IF r \in S THEN NoTask ELSE owner[r]]

Next ==
    \/ \E t \in Task, r \in Resource : Take(t, r)
    \/ \E S \in SUBSET Resource : Free(S)

Spec == Init /\ [][Next]_owner
=============================================================================
