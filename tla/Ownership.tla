------------------------------ MODULE Ownership ------------------------------
(***************************************************************************)
(* Two bookkeepers of the desktop's resources: ResourceManager keeps       *)
(* ownership records and derives a lock from them, one call at a time;     *)
(* ResourceContentionDetector, made for the threads of the graph's runs,   *)
(* keeps an index by resource and one by task under a mutex.               *)
(***************************************************************************)
EXTENDS FiniteSets

CONSTANTS
    Task,        \* runs of the graph
    Resource,    \* keyboard, mouse, active window, ...
    NoTask,      \* nobody
    RecordId     \* bound: ownership records at one time

ASSUME NoTaskAssumption == NoTask \notin Task

VARIABLES
    ledger,      \* active_ownerships of the manager
    locks,       \* resource_locks of the manager
    owners,      \* resource_owners of the detector
    holds,        \* task_resources of the detector
    releasing    \* what release_all_resources still has to release, by task

managerVars == <<ledger, locks>>
detectorVars == <<owners, holds, releasing>>
ownershipVars == <<ledger, locks, owners, holds, releasing>>

Record == [id : RecordId, task : Task, resource : Resource, expires : BOOLEAN]

OwnershipInit ==
    /\ ledger = {} /\ locks = [r \in Resource |-> NoTask]
    /\ owners = [r \in Resource |-> {}] /\ holds = [t \in Task |-> {}]
    /\ releasing = [t \in Task |-> {}]

-----------------------------------------------------------------------------
(* graph/resource_manager.py *)

\* The lock is looked at, never the ledger; an ownership that has expired keeps
\* its lock until somebody cleans up.  A task may take the same resource twice.
\* The mutant looks at nothing.
MayTakeAny(t, r) == TRUE
MayTake(t, r) == locks[r] \in {NoTask, t}

AcquireManaged(t, r) ==
    /\ MayTake(t, r)
    /\ \E o \in Record :
          /\ \A p \in ledger : p.id # o.id
          /\ o.task = t /\ o.resource = r
          /\ ledger' = ledger \union {o}
    /\ locks' = [locks EXCEPT ![r] = t]

\* release_resource of each record of a set: the lock goes with the last record
\* that the task of the lock has for the resource.
Release(S) ==
    /\ ledger' = ledger \ S
    /\ locks' = [r \in Resource |->
                   IF /\ \E o \in S : o.resource = r /\ o.task = locks[r]
                      /\ ~\E o \in ledger \ S : o.resource = r /\ o.task = locks[r]
                   THEN NoTask ELSE locks[r]]

ReleaseManaged == \E o \in ledger : Release({o})

ReleaseAllForTask(t) == Release({o \in ledger : o.task = t})

\* Of the records that can expire, those whose time has come.
CleanupExpired == \E S \in SUBSET {o \in ledger : o.expires} : Release(S)

ManagerNext ==
    /\ \/ \E t \in Task, r \in Resource : AcquireManaged(t, r)
       \/ ReleaseManaged
       \/ \E t \in Task : ReleaseAllForTask(t)
       \/ CleanupExpired
    /\ UNCHANGED detectorVars

-----------------------------------------------------------------------------
(* graph/cancellation.py: each operation holds the mutex, but for the list    *)
(* release_all_resources makes under it and works through without it.          *)

Contended(t, r) == t \notin owners[r] /\ owners[r] # {}

AcquireDetected(t, r) ==
    /\ ~Contended(t, r)
    /\ owners' = [owners EXCEPT ![r] = @ \union {t}]
    /\ holds' = [holds EXCEPT ![t] = @ \union {r}]
    /\ UNCHANGED releasing

Discard(t, r) ==
    /\ owners' = [owners EXCEPT ![r] = @ \ {t}]
    /\ holds' = [holds EXCEPT ![t] = @ \ {r}]

ReleaseDetected(t, r) == Discard(t, r) /\ UNCHANGED releasing

ReleaseAllBegins(t) ==
    /\ releasing[t] = {} /\ holds[t] # {}
    /\ releasing' = [releasing EXCEPT ![t] = holds[t]]
    /\ UNCHANGED <<owners, holds>>

ReleaseAllGoesOn(t) ==
    \E r \in releasing[t] :
       /\ releasing' = [releasing EXCEPT ![t] = @ \ {r}]
       /\ Discard(t, r)

DetectorNext ==
    /\ \/ \E t \in Task, r \in Resource : AcquireDetected(t, r) \/ ReleaseDetected(t, r)
       \/ \E t \in Task : ReleaseAllBegins(t) \/ ReleaseAllGoesOn(t)
    /\ UNCHANGED managerVars

OwnershipNext == ManagerNext \/ DetectorNext

OwnershipSpec == OwnershipInit /\ [][OwnershipNext]_ownershipVars
-----------------------------------------------------------------------------
(* Type correctness of both bookkeepers. *)
OwnershipTypeOK ==
    /\ ledger \subseteq Record
    /\ locks \in [Resource -> Task \union {NoTask}]
    /\ owners \in [Resource -> SUBSET Task]
    /\ holds \in [Task -> SUBSET Resource]
    /\ releasing \in [Task -> SUBSET Resource]

\* Who owns a resource, by either book.
OwnerAmong(S) == IF S = {} THEN NoTask ELSE CHOOSE t \in Task : t \in S
OwnerDetected == [r \in Resource |-> OwnerAmong(owners[r])]

Managed == INSTANCE ExclusiveLocks WITH owner <- locks
Detected == INSTANCE ExclusiveLocks WITH owner <- OwnerDetected

(* Both bookkeepers implement exclusive locks: no release, clean-up of expired  *)
(* records or release of everything hands a resource from one run to another.   *)
BothAreLocks == Managed!Spec /\ Detected!Spec
=============================================================================
