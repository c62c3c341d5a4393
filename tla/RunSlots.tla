------------------------------ MODULE RunSlots ------------------------------
(***************************************************************************)
(* What the executor promises about overlapping work, whatever the rest of *)
(* the pipeline sends it: a task has one slot.  An execution takes a free  *)
(* slot, leaves it cooling, and the slot is free again only after that, so *)
(* executions of the same task never overlap nor follow within the         *)
(* cooling time (5 s in executor/executor.py).                             *)
(***************************************************************************)
CONSTANT Tasks
VARIABLE slot

States == {"free", "running", "cooling"}

Init == slot = [t \in Tasks |-> "free"]

Move(t, from, to) == slot[t] = from /\ slot' = [slot EXCEPT ![t] = to]

Start(t)   == Move(t, "free", "running")
Finish(t)  == Move(t, "running", "cooling")
Release(t) == Move(t, "cooling", "free")

Next == \E t \in Tasks : Start(t) \/ Finish(t) \/ Release(t)

Spec == Init /\ [][Next]_slot
=============================================================================
