-------------------------- MODULE Resources_proofs --------------------------
(***************************************************************************)
(* Who holds a resource, whose time is up and which candidate is chosen:   *)
(* both bookkeepers implement exclusive locks, a limit fires once, and a   *)
(* choice that was made stays.                                             *)
(***************************************************************************)
EXTENDS Ownership, Timeouts, CandidateRouting, TLAPS

-----------------------------------------------------------------------------
(* The two books of owners.                                                *)

\* A lock of the manager is derived state: it names a task exactly while that task
\* has a record for the resource, and no other task has one.
LockIsRecorded ==
    /\ \A o \in ledger : locks[o.resource] = o.task
    /\ \A r \in Resource : locks[r] # NoTask => \E o \in ledger : o.resource = r

\* In the index of the detector a resource has one owner at most.
OneOwner == \A r \in Resource : \A t, u \in owners[r] : t = u

\* The inductive invariant.
OwnershipInv == OwnershipTypeOK /\ LockIsRecorded /\ OneOwner

USE NoTaskAssumption DEF NoTaskAssumption

LEMMA OwnershipInitInv == OwnershipInit => OwnershipInv
<1> SUFFICES ASSUME OwnershipInit PROVE OwnershipInv
  OBVIOUS
<1>1. OwnershipTypeOK
  BY DEF OwnershipInit, OwnershipTypeOK
<1>2. LockIsRecorded /\ OneOwner
  BY DEF OwnershipInit, LockIsRecorded, OneOwner
<1> QED
  BY <1>1, <1>2 DEF OwnershipInv

\* Every release of the manager is one of these, and is a Free.
LEMMA ReleaseStep ==
  ASSUME OwnershipInv, NEW S \in SUBSET ledger, Release(S), UNCHANGED detectorVars
  PROVE  OwnershipInv' /\ Managed!Next
<1> DEFINE freed == {r \in Resource : /\ \E o \in S : o.resource = r /\ o.task = locks[r]
                                      /\ ~\E o \in ledger \ S : o.resource = r /\ o.task = locks[r]}
<1>1. locks' = [r \in Resource |-> IF r \in freed THEN NoTask ELSE locks[r]]
  BY DEF Release
<1>2. Managed!Next
  <2>1. freed \in SUBSET Resource
    OBVIOUS
  <2>2. Managed!Free(freed)
    BY <1>1 DEF Managed!Free
  <2> QED
    BY <2>1, <2>2 DEF Managed!Next
<1>3. OwnershipTypeOK'
  BY <1>1 DEF Release, OwnershipInv, OwnershipTypeOK, detectorVars
<1>4. ASSUME NEW o \in ledger'
      PROVE  locks'[o.resource] = o.task
  <2>1. o \in ledger \ S /\ o.resource \in Resource /\ locks[o.resource] = o.task
    BY DEF Release, OwnershipInv, OwnershipTypeOK, LockIsRecorded, Record
  <2>2. o.resource \notin freed
    BY <2>1
  <2> QED
    BY <1>1, <2>1, <2>2
<1>5. ASSUME NEW r \in Resource, locks'[r] # NoTask
      PROVE  \E o \in ledger' : o.resource = r
  <2>1. r \notin freed /\ locks[r] # NoTask
    BY <1>1, <1>5
  <2>2. PICK o \in ledger : o.resource = r
    BY <2>1 DEF OwnershipInv, LockIsRecorded
  <2>3. o.task = locks[r]
    BY <2>2 DEF OwnershipInv, LockIsRecorded
  <2> QED
    BY <2>1, <2>2, <2>3 DEF Release
<1> QED
  BY <1>2, <1>3, <1>4, <1>5 DEF OwnershipInv, LockIsRecorded, OneOwner, detectorVars

LEMMA AcquireManagedStep ==
  ASSUME OwnershipInv, NEW t \in Task, NEW r \in Resource, AcquireManaged(t, r),
         UNCHANGED detectorVars
  PROVE  OwnershipInv' /\ [Managed!Next]_locks
<1>1. locks[r] \in {NoTask, t} /\ locks' = [locks EXCEPT ![r] = t]
  BY DEF AcquireManaged, MayTake
<1>2. PICK o \in Record : o.task = t /\ o.resource = r /\ ledger' = ledger \union {o}
  BY DEF AcquireManaged
<1>3. OwnershipTypeOK'
  BY <1>1, <1>2 DEF OwnershipInv, OwnershipTypeOK, detectorVars
<1>4. ASSUME NEW p \in ledger'
      PROVE  locks'[p.resource] = p.task
  <2>1. p \in Record
    BY <1>3 DEF OwnershipTypeOK
  <2>2. CASE p = o
    BY <1>1, <1>2, <2>2 DEF OwnershipInv, OwnershipTypeOK
  <2>3. CASE p \in ledger
    <3>1. locks[p.resource] = p.task /\ p.task \in Task /\ p.resource \in Resource
      BY <2>1, <2>3 DEF OwnershipInv, LockIsRecorded, Record
    <3> QED
      BY <1>1, <3>1 DEF OwnershipInv, OwnershipTypeOK
  <2> QED
    BY <1>2, <2>2, <2>3
<1>5. \A x \in Resource : locks'[x] # NoTask => \E p \in ledger' : p.resource = x
  BY <1>1, <1>2 DEF OwnershipInv, OwnershipTypeOK, LockIsRecorded
<1>6. [Managed!Next]_locks
  <2>1. CASE locks[r] = NoTask
    BY <1>1, <2>1 DEF Managed!Next, Managed!Take
  <2>2. CASE locks[r] = t
    BY <1>1, <2>2 DEF OwnershipInv, OwnershipTypeOK
  <2> QED
    BY <1>1, <2>1, <2>2
<1> QED
  BY <1>3, <1>4, <1>5, <1>6 DEF OwnershipInv, LockIsRecorded, OneOwner, detectorVars

LEMMA ManagerStep ==
  ASSUME OwnershipInv, ManagerNext
  PROVE  OwnershipInv' /\ [Managed!Next]_locks
<1>1. UNCHANGED detectorVars
  BY DEF ManagerNext
<1>2. CASE \E S \in SUBSET ledger : Release(S)
  BY <1>1, <1>2, ReleaseStep
<1>3. (\E t \in Task, r \in Resource : AcquireManaged(t, r)) \/ \E S \in SUBSET ledger : Release(S)
  BY DEF ManagerNext, ReleaseManaged, ReleaseAllForTask, CleanupExpired
<1> QED
  BY <1>1, <1>2, <1>3, AcquireManagedStep

\* The detector has one way to take and one to let go.
LEMMA OwnerOfOne ==
  ASSUME OwnershipInv
  PROVE  /\ \A r \in Resource : OwnerDetected[r] = NoTask <=> owners[r] = {}
         /\ \A r \in Resource : \A t \in owners[r] : OwnerDetected[r] = t
         /\ OwnerDetected \in [Resource -> Task \union {NoTask}]
<1>1. ASSUME NEW r \in Resource, NEW t \in owners[r]
      PROVE  OwnerDetected[r] = t /\ t \in Task /\ t # NoTask
  <2>1. t \in Task /\ \A u \in Task : u \in owners[r] <=> u = t
    BY DEF OwnershipInv, OwnershipTypeOK, OneOwner
  <2>2. (CHOOSE u \in Task : u \in owners[r]) = t
    BY <2>1
  <2> QED
    BY <2>1, <2>2 DEF OwnerDetected, OwnerAmong
<1>2. ASSUME NEW r \in Resource, owners[r] = {}
      PROVE  OwnerDetected[r] = NoTask
  BY <1>2 DEF OwnerDetected, OwnerAmong
<1>3. ASSUME NEW r \in Resource
      PROVE  OwnerDetected[r] \in Task \union {NoTask}
  BY <1>1, <1>2
<1>4. OwnerDetected \in [Resource -> Task \union {NoTask}]
  BY <1>3 DEF OwnerDetected
<1> QED
  BY <1>1, <1>2, <1>4

LEMMA AcquireDetectedStep ==
  ASSUME OwnershipInv, NEW t \in Task, NEW r \in Resource, AcquireDetected(t, r),
         UNCHANGED managerVars
  PROVE  OwnershipInv' /\ [Detected!Next]_OwnerDetected
<1>1. owners' = [owners EXCEPT ![r] = owners[r] \union {t}] /\ (t \in owners[r] \/ owners[r] = {})
  BY DEF AcquireDetected, Contended
<1>2. owners' = [owners EXCEPT ![r] = {t}]
  BY <1>1 DEF OwnershipInv, OwnershipTypeOK, OneOwner
<1>3. OwnershipTypeOK'
  BY <1>2 DEF AcquireDetected, OwnershipInv, OwnershipTypeOK, managerVars
<1>4. OwnershipInv'
  BY <1>2, <1>3 DEF OwnershipInv, OwnershipTypeOK, LockIsRecorded, OneOwner, managerVars
<1>5. CASE t \in owners[r]
  <2>1. owners' = owners
    BY <1>2, <1>5 DEF OwnershipInv, OwnershipTypeOK, OneOwner
  <2> QED
    BY <1>4, <2>1 DEF OwnerDetected
<1>6. CASE owners[r] = {}
  <2>1. OwnerDetected[r] = NoTask /\ OwnerDetected'[r] = t
    <3>1. owners'[r] = {t}
      BY <1>2 DEF OwnershipInv, OwnershipTypeOK
    <3>2. (CHOOSE u \in Task : u \in {t}) = t
      OBVIOUS
    <3>3. OwnerDetected'[r] = OwnerAmong({t}) /\ OwnerDetected[r] = OwnerAmong({})
      BY <1>6, <3>1 DEF OwnerDetected
    <3> QED
      BY <3>2, <3>3 DEF OwnerAmong
  <2>2. \A x \in Resource : x # r => OwnerDetected'[x] = OwnerDetected[x]
    BY <1>2 DEF OwnerDetected, OwnershipInv, OwnershipTypeOK
  <2>3. /\ OwnerDetected  = [x \in Resource |-> OwnerDetected[x]]
        /\ OwnerDetected' = [x \in Resource |-> OwnerDetected'[x]]
    BY DEF OwnerDetected
  <2>4. OwnerDetected' = [OwnerDetected EXCEPT ![r] = t]
    <3> HIDE DEF OwnerDetected
    <3> QED
      BY <2>1, <2>2, <2>3
  <2> QED
    BY <1>4, <2>1, <2>4 DEF Detected!Next, Detected!Take
<1> QED
  BY <1>1, <1>5, <1>6

LEMMA DiscardStep ==
  ASSUME OwnershipInv, NEW t \in Task, NEW r \in Resource, Discard(t, r),
         releasing' \in [Task -> SUBSET Resource], UNCHANGED managerVars
  PROVE  OwnershipInv' /\ [Detected!Next]_OwnerDetected
<1>1. owners' = [owners EXCEPT ![r] = owners[r] \ {t}]
  BY DEF Discard
<1>2. OwnershipTypeOK'
  BY <1>1 DEF Discard, OwnershipInv, OwnershipTypeOK, managerVars
<1>3. OwnershipInv'
  BY <1>1, <1>2 DEF OwnershipInv, OwnershipTypeOK, LockIsRecorded, OneOwner, managerVars
<1>4. CASE t \notin owners[r]
  <2>1. owners' = owners
    BY <1>1, <1>4 DEF OwnershipInv, OwnershipTypeOK
  <2> QED
    BY <1>3, <2>1 DEF OwnerDetected
<1>5. CASE t \in owners[r]
  <2>1. owners' = [owners EXCEPT ![r] = {}]
    BY <1>1, <1>5 DEF OwnershipInv, OwnershipTypeOK, OneOwner
  <2>2. ASSUME NEW x \in Resource
        PROVE  OwnerDetected'[x] = IF x \in {r} THEN NoTask ELSE OwnerDetected[x]
    <3>1. CASE x = r
      <4>1. owners'[x] = {}
        BY <2>1, <3>1 DEF OwnershipInv, OwnershipTypeOK
      <4> QED
        BY <3>1, <4>1 DEF OwnerDetected, OwnerAmong
    <3>2. CASE x # r
      <4>1. owners'[x] = owners[x]
        BY <2>1, <3>2 DEF OwnershipInv, OwnershipTypeOK
      <4>2. OwnerDetected'[x] = OwnerDetected[x]
        BY <4>1 DEF OwnerDetected
      <4> QED
        BY <3>2, <4>2
    <3> QED
      BY <3>1, <3>2
  <2>3. OwnerDetected' = [x \in Resource |-> OwnerDetected'[x]]
    BY DEF OwnerDetected
  <2>4. OwnerDetected' = [x \in Resource |-> IF x \in {r} THEN NoTask ELSE OwnerDetected[x]]
    BY <2>2, <2>3
  <2> QED
    BY <1>3, <2>4 DEF Detected!Next, Detected!Free
<1> QED
  BY <1>4, <1>5

LEMMA DetectorStep ==
  ASSUME OwnershipInv, DetectorNext
  PROVE  OwnershipInv' /\ [Detected!Next]_OwnerDetected
<1>1. UNCHANGED managerVars
  BY DEF DetectorNext
<1>2. ASSUME NEW t \in Task, NEW r \in Resource, AcquireDetected(t, r)
      PROVE  OwnershipInv' /\ [Detected!Next]_OwnerDetected
  BY <1>1, <1>2, AcquireDetectedStep
<1>3. ASSUME NEW t \in Task, NEW r \in Resource, ReleaseDetected(t, r)
      PROVE  OwnershipInv' /\ [Detected!Next]_OwnerDetected
  BY <1>1, <1>3, DiscardStep DEF ReleaseDetected, OwnershipInv, OwnershipTypeOK
<1>4. ASSUME NEW t \in Task, ReleaseAllBegins(t)
      PROVE  OwnershipInv' /\ [Detected!Next]_OwnerDetected
  BY <1>1, <1>4 DEF ReleaseAllBegins, OwnershipInv, OwnershipTypeOK, LockIsRecorded, OneOwner,
                    managerVars, OwnerDetected
<1>5. ASSUME NEW t \in Task, ReleaseAllGoesOn(t)
      PROVE  OwnershipInv' /\ [Detected!Next]_OwnerDetected
  <2>1. PICK r \in releasing[t] :
          releasing' = [releasing EXCEPT ![t] = releasing[t] \ {r}] /\ Discard(t, r)
    BY <1>5 DEF ReleaseAllGoesOn
  <2>2. r \in Resource /\ releasing' \in [Task -> SUBSET Resource]
    BY <2>1 DEF OwnershipInv, OwnershipTypeOK
  <2> QED
    BY <1>1, <2>1, <2>2, DiscardStep
<1> QED
  BY <1>2, <1>3, <1>4, <1>5 DEF DetectorNext

LEMMA NextStep ==
  ASSUME OwnershipInv, [OwnershipNext]_ownershipVars
  PROVE  OwnershipInv' /\ [Managed!Next]_locks /\ [Detected!Next]_OwnerDetected
<1>1. CASE UNCHANGED ownershipVars
  BY <1>1 DEF ownershipVars, OwnershipInv, OwnershipTypeOK, LockIsRecorded, OneOwner,
              OwnerDetected
<1>2. CASE ManagerNext
  <2>1. OwnerDetected' = OwnerDetected
    BY <1>2 DEF ManagerNext, detectorVars, OwnerDetected
  <2> QED
    BY <1>2, <2>1, ManagerStep
<1>3. CASE DetectorNext
  <2>1. locks' = locks
    BY <1>3 DEF DetectorNext, managerVars
  <2> QED
    BY <1>3, <2>1, DetectorStep
<1> QED
  BY <1>1, <1>2, <1>3 DEF OwnershipNext

LEMMA OwnershipInvariance == OwnershipSpec => []OwnershipInv
<1>1. OwnershipInv /\ [OwnershipNext]_ownershipVars => OwnershipInv'
  BY NextStep
<1> QED
  BY <1>1, OwnershipInitInv, PTL DEF OwnershipSpec

(* Every variable of the two bookkeepers keeps its type.                        *)
THEOREM OwnershipTypeCorrect == OwnershipSpec => []OwnershipTypeOK
<1>1. OwnershipInv => OwnershipTypeOK
  BY DEF OwnershipInv
<1> QED
  BY <1>1, OwnershipInvariance, PTL

(* The locks of ResourceManager and the index of ResourceContentionDetector     *)
(* implement exclusive locks: a resource is taken when it is free only, and is  *)
(* free between two owners (graph/resource_manager.py, graph/cancellation.py).  *)
THEOREM ExclusiveByBothBooks == OwnershipSpec => BothAreLocks
<1>1. OwnershipInit => Managed!Init /\ Detected!Init
  BY DEF OwnershipInit, Managed!Init, Detected!Init, OwnerDetected, OwnerAmong
<1>2. OwnershipInv /\ [OwnershipNext]_ownershipVars
        => [Managed!Next]_locks /\ [Detected!Next]_OwnerDetected
  BY NextStep
<1> QED
  BY <1>1, <1>2, OwnershipInvariance, PTL DEF OwnershipSpec, BothAreLocks, Managed!Spec, Detected!Spec

-----------------------------------------------------------------------------
(* The limits and the watchdog.                                            *)

\* The mutex is held by the watchdog that checks or is stuck in a callback, and a
\* check leaves nothing to fire behind.
MutexIsHeld ==
    /\ \A w \in Watchdog : thread[w] \in {"checks", "stuck"} <=> mutex = w
    /\ MutexFree => expired = {}

\* The inductive invariant.
TimeoutInv == TimeoutTypeOK /\ MutexIsHeld /\ FiresOnce

USE WatchdogAssumption DEF WatchdogAssumption, MutexFree

LEMMA TimeoutInitInv == TimeoutInit => TimeoutInv
<1> SUFFICES ASSUME TimeoutInit PROVE TimeoutInv
  OBVIOUS
<1>1. TimeoutTypeOK
  <2>1. thread \in [Watchdog -> {"absent", "waits", "enters", "checks", "stuck"}]
    BY DEF TimeoutInit
  <2>2. fired \in [Limit -> 0..2] /\ armed \subseteq Limit /\ expired \subseteq Limit
    BY DEF TimeoutInit
  <2>3. cancels \subseteq Limit
    BY DEF TimeoutInit
  <2> QED
    BY <2>1, <2>2, <2>3 DEF TimeoutInit, TimeoutTypeOK
<1>2. MutexIsHeld
  BY DEF TimeoutInit, MutexIsHeld
<1>3. FiresOnce
  BY DEF TimeoutInit, FiresOnce
<1> QED
  BY <1>1, <1>2, <1>3 DEF TimeoutInv

LEMMA LimitsInv ==
  ASSUME TimeoutInv, (\E l \in Limit : StartTimeout(l)) \/ CancelTimeouts
  PROVE  TimeoutInv'
<1>1. ASSUME NEW l \in Limit, StartTimeout(l) PROVE TimeoutInv'
  BY <1>1 DEF StartTimeout, TimeoutInv, TimeoutTypeOK, MutexIsHeld, FiresOnce
<1>2. CASE CancelTimeouts
  BY <1>2 DEF CancelTimeouts, TimeoutInv, TimeoutTypeOK, MutexIsHeld, FiresOnce
<1> QED
  BY <1>1, <1>2

LEMMA WatchInv ==
  ASSUME TimeoutInv, NEW w \in Watchdog, Watch(w)
  PROVE  TimeoutInv'
<1>1. CASE PassLoopHead(w)
  BY <1>1 DEF PassLoopHead, TimeoutInv, TimeoutTypeOK, MutexIsHeld, FiresOnce
<1>2. CASE BeginCheck(w)
  BY <1>2 DEF BeginCheck, TimeoutInv, TimeoutTypeOK, MutexIsHeld, FiresOnce
<1>3. CASE Fire(w)
  <2>1. PICK l \in expired :
          IF l \in cancels
          THEN /\ thread' = [thread EXCEPT ![w] = "stuck"]
               /\ UNCHANGED <<armed, expired, fired>>
          ELSE /\ fired' = [fired EXCEPT ![l] = IF @ < 2 THEN @ + 1 ELSE @]
               /\ armed' = armed \ {l}
               /\ expired' = expired \ {l}
               /\ UNCHANGED thread
    BY <1>3 DEF Fire
  <2>2. l \in Limit /\ l \in armed /\ fired[l] = 0 /\ mutex = w /\ mutex' = w
    BY <1>3 DEF Fire, TimeoutInv, TimeoutTypeOK, MutexIsHeld, FiresOnce
  <2>3. CASE l \in cancels
    BY <1>3, <2>1, <2>2, <2>3 DEF Fire, TimeoutInv, TimeoutTypeOK, MutexIsHeld, FiresOnce
  <2>4. CASE l \notin cancels
    <3>1. fired' = [fired EXCEPT ![l] = 1] /\ armed' = armed \ {l} /\ expired' = expired \ {l}
      BY <2>1, <2>2, <2>4
    <3>2. fired' \in [Limit -> 0..2]
      BY <3>1 DEF TimeoutInv, TimeoutTypeOK
    <3> QED
      BY <1>3, <2>1, <2>2, <2>4, <3>1, <3>2
      DEF Fire, TimeoutInv, TimeoutTypeOK, MutexIsHeld, FiresOnce
  <2> QED
    BY <2>3, <2>4
<1>4. CASE EndCheck(w)
  BY <1>4 DEF EndCheck, TimeoutInv, TimeoutTypeOK, MutexIsHeld, FiresOnce
<1> QED
  BY <1>1, <1>2, <1>3, <1>4 DEF Watch

LEMMA StartStopInv ==
  ASSUME TimeoutInv, StartWatchdog \/ StopWatchdog \/ JoinReturns
  PROVE  TimeoutInv'
<1>1. CASE StartWatchdog
  BY <1>1 DEF StartWatchdog, TimeoutInv, TimeoutTypeOK, MutexIsHeld, FiresOnce
<1>2. CASE StopWatchdog
  BY <1>2 DEF StopWatchdog, TimeoutInv, TimeoutTypeOK, MutexIsHeld, FiresOnce
<1>3. CASE JoinReturns
  BY <1>3 DEF JoinReturns, TimeoutInv, TimeoutTypeOK, MutexIsHeld, FiresOnce
<1> QED
  BY <1>1, <1>2, <1>3

LEMMA TimeoutNextInv == TimeoutInv /\ [TimeoutNext]_timeoutVars => TimeoutInv'
<1> SUFFICES ASSUME TimeoutInv, [TimeoutNext]_timeoutVars PROVE TimeoutInv'
  OBVIOUS
<1>1. CASE UNCHANGED timeoutVars
  BY <1>1 DEF timeoutVars, TimeoutInv, TimeoutTypeOK, MutexIsHeld, FiresOnce
<1>2. CASE TimeoutNext
  BY <1>2, LimitsInv, WatchInv, StartStopInv DEF TimeoutNext
<1> QED
  BY <1>1, <1>2

LEMMA TimeoutInvariance == TimeoutSpec => []TimeoutInv
  BY TimeoutInitInv, TimeoutNextInv, PTL DEF TimeoutSpec

(* Every variable of TimeoutManager keeps its type.                             *)
THEOREM TimeoutTypeCorrect == TimeoutSpec => []TimeoutTypeOK
<1>1. TimeoutInv => TimeoutTypeOK
  BY DEF TimeoutInv
<1> QED
  BY <1>1, TimeoutInvariance, PTL

(* No callback of a limit runs twice, or after the limit was cancelled, however *)
(* many watchdogs overlap (graph/timeout_manager.py, check_timeouts).           *)
THEOREM NoSecondFiring == TimeoutSpec => []FiresOnce
<1>1. TimeoutInv => FiresOnce
  BY DEF TimeoutInv
<1> QED
  BY <1>1, TimeoutInvariance, PTL

(* A watchdog that waits for the mutex it holds itself does so for ever, and    *)
(* freezes all limits (timeout_manager.py:193, request_cancellation).           *)
THEOREM SelfDeadlockIsFinal == TimeoutSpec => StuckForGood
<1>1. ASSUME TimeoutInv, [TimeoutNext]_timeoutVars
      PROVE  [\A w \in Watchdog : thread[w] = "stuck" =>
                 thread'[w] = "stuck" /\ mutex' = w /\ armed' = armed /\ fired' = fired]_timeoutVars
  <2> SUFFICES ASSUME TimeoutNext, NEW w \in Watchdog, thread[w] = "stuck"
               PROVE  thread'[w] = "stuck" /\ mutex' = w /\ armed' = armed /\ fired' = fired
    BY <1>1
  <2>1. mutex = w /\ ~MutexFree /\ \A v \in Watchdog : v # w => thread[v] \notin {"checks", "stuck"}
    BY <1>1 DEF TimeoutInv, MutexIsHeld
  <2>2. ASSUME NEW l \in Limit PROVE ~StartTimeout(l)
    BY <2>1 DEF StartTimeout
  <2>3. ~CancelTimeouts
    BY <2>1 DEF CancelTimeouts
  <2>4. ASSUME NEW v \in Watchdog, Watch(v)
        PROVE  thread'[w] = "stuck" /\ mutex' = w /\ armed' = armed /\ fired' = fired
    BY <1>1, <2>1, <2>4 DEF Watch, PassLoopHead, BeginCheck, Fire, EndCheck, TimeoutInv,
                            TimeoutTypeOK
  <2>5. CASE StartWatchdog \/ StopWatchdog \/ JoinReturns
    BY <1>1, <2>1, <2>5 DEF StartWatchdog, StopWatchdog, JoinReturns, TimeoutInv, TimeoutTypeOK
  <2> QED
    BY <2>2, <2>3, <2>4, <2>5 DEF TimeoutNext
<1> QED
  BY <1>1, TimeoutInvariance, PTL DEF TimeoutSpec, StuckForGood

-----------------------------------------------------------------------------
(* The choice among candidates.                                            *)

Choosable == AnyOf \union {"open", "none"}

\* The types the argument needs.
RoutingTyped ==
    /\ objective \subseteq Word /\ command \in {"low", "high", "unassessed"}
    /\ visual \in BOOLEAN /\ surroundings \in Surroundings
    /\ bias \in [AnyOf -> (-Bound)..Bound]
    /\ first \in [Surroundings -> Choosable]

\* Every choice is the decision for its context.
Settled ==
    /\ choice \in {"open", RoutingDecision(surroundings)}
    /\ choice # "open" => first[surroundings] = choice
    /\ \A s \in Surroundings : first[s] \in {"open", RoutingDecision(s)}

RoutingInv == RoutingTyped /\ Settled

LEMMA ScoresAreNumbers == \A m \in AnyOf, s \in Surroundings : WeightedScore(m, s) \in Nat
<1> SUFFICES ASSUME NEW m \in AnyOf, NEW s \in Surroundings PROVE WeightedScore(m, s) \in Nat
  OBVIOUS
<1>1. CapabilityFit(m) \in Nat
  BY DEF CapabilityFit
<1>2. ContextFit(m, s) \in Nat
  BY DEF ContextFit
<1>3. Availability(m) \in Nat /\ Reliability(m) \in Nat
  BY DEF Availability, Reliability
<1>4. Risk(m) \in Nat /\ Permissions(m) \in Nat /\ Latency(m) \in Nat
  BY DEF Risk, Permissions, Latency
<1> QED BY <1>1, <1>2, <1>3, <1>4 DEF WeightedScore, HistoricalSuccess, Reversibility

\* The vision never satisfies the constraints; the shell does, and scores enough.
LEMMA ShellQualifies ==
  ASSUME NEW s \in Surroundings
  PROVE  /\ Eligible(s) \subseteq {"shell", "ui", "browser"} /\ Eligible(s) \subseteq Discovered(s)
         /\ command = "low" => "shell" \in Eligible(s)
         /\ WeightedScore("shell", s) >= 500
<1>1. ~ConstraintsSatisfied("vision") /\ ConstraintsSatisfied("shell")
  BY DEF ConstraintsSatisfied, Availability, Permissions
<1>2. Eligible(s) \subseteq {"shell", "ui", "browser"} /\ Eligible(s) \subseteq Discovered(s)
  BY <1>1 DEF Eligible, Discovered, AnyOf
<1>3. command = "low" => "shell" \in Eligible(s)
  BY <1>1 DEF Eligible, Discovered, AnyOf
<1>4. CapabilityFit("shell") \in Nat /\ CapabilityFit("shell") >= 5
      /\ ContextFit("shell", s) \in Nat /\ ContextFit("shell", s) >= 6
  BY DEF CapabilityFit, ContextFit
<1>5. WeightedScore("shell", s) >= 500
  BY <1>4 DEF WeightedScore, Availability, Reliability, Risk, Permissions, Latency,
              HistoricalSuccess, Reversibility
<1> QED BY <1>2, <1>3, <1>5

\* Among the candidates one ranks before all others.
LEMMA BestExists ==
  ASSUME NEW s \in Surroundings, Eligible(s) # {}
  PROVE  Best(s) \in Eligible(s)
<1>1. Eligible(s) \subseteq {"shell", "ui", "browser"} /\ Eligible(s) \subseteq AnyOf
  BY ShellQualifies DEF AnyOf
<1>2. \A m \in Eligible(s) : WeightedScore(m, s) \in Nat
  BY <1>1, ScoresAreNumbers
<1>3. \A m, n \in Eligible(s) : m # n => RanksBefore(m, n, s) \/ RanksBefore(n, m, s)
  BY <1>1, <1>2 DEF RanksBefore, Discovery
<1>4. \A l, m, n \in Eligible(s) : RanksBefore(l, m, s) /\ RanksBefore(m, n, s) => RanksBefore(l, n, s)
  BY <1>1, <1>2 DEF RanksBefore, Discovery
<1>5. \E m \in Eligible(s) : \A n \in Eligible(s) \ {m} : RanksBefore(m, n, s)
  BY <1>1, <1>3, <1>4
<1> QED BY <1>5 DEF Best

\* What is decided depends on the step and the context, not on what was learned.
LEMMA DecisionFixed ==
  ASSUME NEW s, UNCHANGED <<objective, command, visual>>
  PROVE  RoutingDecision(s)' = RoutingDecision(s)
<1>1. \A m : WeightedScore(m, s)' = WeightedScore(m, s) /\ (FitIsDefined(m)' <=> FitIsDefined(m))
  BY DEF WeightedScore, CapabilityFit, ContextFit, Availability, Reliability, Risk, Permissions, Latency,
         HistoricalSuccess, Reversibility, FitIsDefined
<1>2. Discovered(s)' = Discovered(s)
  BY DEF Discovered
<1>3. Eligible(s)' = Eligible(s)
  BY <1>2 DEF Eligible, ConstraintsSatisfied, Availability, Permissions
<1>4. Best(s)' = Best(s)
  BY <1>1, <1>3 DEF Best, RanksBefore
<1> QED BY <1>1, <1>2, <1>3, <1>4 DEF RoutingDecision

\* The decision names a method that the context can carry, or none for a reason.
LEMMA DecisionFits ==
  ASSUME NEW s \in Surroundings
  PROVE  /\ RoutingDecision(s) \in AnyOf \union {"none"}
         /\ RoutingDecision(s) = "none" =>
               command # "low" \/ (s.type = "browser" /\ "browser" \notin objective)
         /\ RoutingDecision(s) = "ui" => s.window
         /\ RoutingDecision(s) = "browser" => s.type = "browser" /\ "browser" \in objective
         /\ RoutingDecision(s) # "vision"
<1>1. CASE \E m \in Discovered(s) : ~FitIsDefined(m)
  BY <1>1 DEF RoutingDecision, Discovered, FitIsDefined, AnyOf
<1>2. CASE /\ ~\E m \in Discovered(s) : ~FitIsDefined(m)
           /\ \A m \in Eligible(s) : WeightedScore(m, s) < 500
  <2>1. RoutingDecision(s) = "none"
    BY <1>2 DEF RoutingDecision
  <2>2. command # "low"
    <3>1. WeightedScore("shell", s) \in Nat
      BY ScoresAreNumbers DEF AnyOf
    <3> QED BY <1>2, <3>1, ShellQualifies
  <2> QED BY <2>1, <2>2
<1>3. CASE /\ ~\E m \in Discovered(s) : ~FitIsDefined(m)
           /\ ~\A m \in Eligible(s) : WeightedScore(m, s) < 500
  <2>1. RoutingDecision(s) = Best(s)
    BY <1>3 DEF RoutingDecision
  <2>2. Best(s) \in Eligible(s)
    BY <1>3, BestExists
  <2>3. Best(s) \in Discovered(s) /\ Best(s) \in {"shell", "ui", "browser"}
    BY <2>2, ShellQualifies
  <2> QED BY <1>3, <2>1, <2>3 DEF Discovered, FitIsDefined, AnyOf
<1> QED BY <1>1, <1>2, <1>3

LEMMA RoutingInitially == RoutingInit => RoutingInv
<1> SUFFICES ASSUME RoutingInit PROVE RoutingInv
  OBVIOUS
<1>1. 0 \in (-Bound)..Bound
  BY DEF Bound
<1>2. RoutingTyped
  BY <1>1 DEF RoutingInit, RoutingTyped, Choosable
<1>3. Settled
  BY DEF RoutingInit, Settled
<1> QED BY <1>2, <1>3 DEF RoutingInv

LEMMA RoutingStep ==
  ASSUME RoutingInv, [RoutingNext]_routingVars
  PROVE  RoutingInv'
<1> USE DEF RoutingInv
<1>0. UNCHANGED <<objective, command, visual>>
  BY DEF RoutingNext, Route, Feedback, Observe, routingVars
<1>1. \A s \in Surroundings : RoutingDecision(s)' = RoutingDecision(s)
  BY <1>0, DecisionFixed
<1>2. CASE Route
  <2>1. UNCHANGED <<surroundings, bias>> /\ choice' = RoutingDecision(surroundings)
        /\ first' = IF first[surroundings] = "open"
                    THEN [first EXCEPT ![surroundings] = choice'] ELSE first
    BY <1>2 DEF Route
  <2>2. choice' \in Choosable /\ surroundings \in Surroundings
    BY <2>1, DecisionFits DEF Choosable, RoutingTyped
  <2>3. RoutingTyped'
    BY <1>0, <2>1, <2>2 DEF RoutingTyped
  <2>4. /\ \A s \in Surroundings : first'[s] \in {"open", RoutingDecision(s)}
        /\ first'[surroundings] = choice'
    BY <2>1, <2>2 DEF RoutingTyped, Settled
  <2>5. Settled'
    BY <1>1, <2>1, <2>2, <2>4, DecisionFixed, <1>0 DEF Settled
  <2> QED BY <2>3, <2>5
<1>3. CASE Feedback
  <2>1. UNCHANGED <<surroundings, first>> /\ choice' = "open"
        /\ \E b \in {-Bound, 0, Bound} : bias' = [bias EXCEPT ![choice] = b]
    BY <1>3 DEF Feedback
  <2>2. {-Bound, 0, Bound} \subseteq (-Bound)..Bound
    BY DEF Bound
  <2>3. RoutingTyped'
    BY <1>0, <2>1, <2>2 DEF RoutingTyped
  <2>4. Settled'
    BY <1>1, <2>1 DEF Settled
  <2> QED BY <2>3, <2>4
<1>4. CASE Observe
  <2>1. UNCHANGED <<bias, first>> /\ choice' = "open" /\ surroundings' \in Surroundings
    BY <1>4 DEF Observe
  <2>2. RoutingTyped'
    BY <1>0, <2>1 DEF RoutingTyped
  <2>3. Settled'
    BY <1>1, <2>1 DEF Settled
  <2> QED BY <2>2, <2>3
<1>5. CASE UNCHANGED routingVars
  <2>1. RoutingTyped'
    BY <1>5 DEF routingVars, RoutingTyped
  <2>2. UNCHANGED <<choice, first, surroundings>> /\ surroundings \in Surroundings
    BY <1>5 DEF routingVars, RoutingTyped
  <2>3. Settled'
    BY <1>0, <1>1, <2>2, DecisionFixed DEF Settled
  <2> QED BY <2>1, <2>3
<1> QED BY <1>2, <1>3, <1>4, <1>5 DEF RoutingNext

(* The invariant of routing. *)
THEOREM RoutingInvariant == RoutingSpec => []RoutingInv
<1>1. RoutingInv /\ [RoutingNext]_routingVars => RoutingInv'
  BY RoutingStep
<1> QED BY RoutingInitially, <1>1, PTL DEF RoutingSpec

LEMMA RoutingIsTyped == RoutingInv => RoutingTypeOK
  BY DecisionFits DEF RoutingInv, RoutingTyped, Settled, RoutingTypeOK, Choosable

(* Type correctness of candidate routing. *)
THEOREM RoutingTypeCorrect == RoutingSpec => []RoutingTypeOK
  BY RoutingInvariant, RoutingIsTyped, PTL

(* Whatever was learned, a low-risk step finds a method in every context but that  *)
(* of a browser it does not speak of, and one that the context can carry.            *)
THEOREM MethodIsFound == RoutingSpec => []RoutingFits
<1>1. RoutingInv => RoutingFits
  BY DecisionFits DEF RoutingInv, RoutingTyped, Settled, RoutingFits
<1> QED BY RoutingInvariant, <1>1, PTL

(* Whatever feedback the executions of a step leave, and however often it is routed *)
(* again, the choice in a context is the first one made there: what is learned       *)
(* reaches no decision, although learning_integration.py says that it should.        *)
THEOREM RoutingIsFixed == RoutingSpec => []RepeatsChoice
<1>1. RoutingInv => RepeatsChoice
  BY DEF RoutingInv, Settled, RepeatsChoice
<1> QED BY RoutingInvariant, <1>1, PTL

=============================================================================
