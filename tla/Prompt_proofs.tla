--------------------------- MODULE Prompt_proofs ---------------------------
(***************************************************************************)
(* That a task which no gate judges twice is asked about once and runs     *)
(* once, and that none runs against the human, where no listener is slow:  *)
(* from what each of its events on the bus still stands for.               *)
(***************************************************************************)
EXTENDS TaskPipeline_proofs

-----------------------------------------------------------------------------
(* The events a task has on the bus, the one being handled at place 0.     *)

line == [i \in 0 .. Len(normal) |-> IF i = 0 THEN current ELSE normal[i]]

\* An event of the task that can still change something for it.
Mine(e, t) == e # NoEvent /\ e.task = t /\ e.name # "task_failed"

\* What comes before the orchestrator's dispatch, that dispatch, and what the
\* planner makes of the same task.
EarlyNames == {"user_input_received", "request_intent_parsing", "intent_parsed",
               "intent_validated", "capability_mapped"}
Early(e, t) == Mine(e, t) /\ e.name \in EarlyNames
First(e, t) == Mine(e, t) /\ e.name = "task_dispatched" /\ e.src = "orchestrator"
Late(e, t)  ==
  /\ Mine(e, t)
  /\ e.name = "request_planning" \/ (e.name = "task_dispatched" /\ e.src # "orchestrator")

\* What a gate, or the intent parser, says of the task.
Asks(e, t)   == Mine(e, t) /\ e.name = "confirmation_required"
Clears(e, t) == /\ Mine(e, t) /\ e.name = "task_safety_cleared"
                /\ e.src # "confirmation_manager"
Says(e, t)   == Asks(e, t) \/ Clears(e, t)

\* What the human answers, and what an allow turns into.
Reply(e, t)  == Mine(e, t) /\ e.name = "user_response_received"
Spends(e, t) ==
  /\ Mine(e, t)
  /\ \/ e.name = "task_dispatched_safe"
     \/ e.name = "task_safety_cleared" /\ e.src = "confirmation_manager"
Done(e, t)   == Mine(e, t) /\ e.name = "task_completed"

-----------------------------------------------------------------------------
(* How far a task can be.                                                  *)

Idle(t) == started[t] = 0 /\ \A i \in DOMAIN line : ~Spends(line[i], t)

Calm(t) ==
  /\ prompts[t] = 0 /\ allowed[t] = 0 /\ checkTimers[t] = 0
  /\ t \notin pending /\ t \notin dispatchedSafe
  /\ Idle(t)

Fresh(t) == Calm(t) /\ t \notin validatorSeen /\ t \notin guardSeen /\ judged[t] = 0

\* The validator has spoken and the guard's word is the next the bus takes.
Halfway(t) ==
  /\ allowed[t] = 0 /\ t \notin dispatchedSafe /\ Idle(t)
  /\ \/ /\ Profile[kind[t]].validator = "clear"
        /\ checkTimers[t] = 1 /\ prompts[t] = 0 /\ t \notin pending
     \/ /\ Profile[kind[t]].validator = "high"
        /\ checkTimers[t] = 0 /\ prompts[t] = 1 /\ t \in pending /\ record[t].highRisk

Alone(t, i) == \A j \in DOMAIN line \ {i} : ~Mine(line[j], t)

NewOK(t) == t \notin submitted => Fresh(t) /\ t \notin planQueue /\ Alone(t, -1)

EarlyOK(t) ==
  \A i \in DOMAIN line : Early(line[i], t) =>
    /\ Fresh(t) /\ t \notin planQueue /\ Alone(t, i)
    /\ line[i].name # "user_input_received" => t \in active

FirstOK(t) ==
  \A i \in DOMAIN line : First(line[i], t) =>
    /\ Fresh(t) /\ t \in active
    /\ \A j \in DOMAIN line \ {i} :
         Mine(line[j], t) => j > i /\ line[j].name = "request_planning"

PlannedOK(t) ==
  t \in planQueue => /\ current = NoEvent
                     /\ \E i \in DOMAIN line : First(line[i], t)
                     /\ \A i \in DOMAIN line : ~Late(line[i], t)

LateOK(t) ==
  \A i \in DOMAIN line : Late(line[i], t) =>
    /\ \A j \in DOMAIN line \ {i} : ~Late(line[j], t)
    /\ \/ \E j \in DOMAIN line : First(line[j], t)
       \/ judged[t] # 0

\* What may be said of the task, by whom, and what else is said of it then.
Unsaid(t, i, j, by) ==
  \A k \in DOMAIN line \ {i} : Says(line[k], t) => k = j /\ line[k].src = by

ParserSays(t, i) == Asks(line[i], t) /\ Calm(t) /\ t \notin planQueue /\ Alone(t, i)

ValidatorSays(t, i) ==
  /\ Calm(t) /\ Unsaid(t, i, i + 1, "permission_guard")
  /\ Asks(line[i], t)   => Profile[kind[t]].validator = "high"
  /\ Clears(line[i], t) => Profile[kind[t]].validator = "clear"
  /\ Profile[kind[t]].guard = "high" => i + 1 \in DOMAIN line /\ Says(line[i + 1], t)

GuardSays(t, i) ==
  /\ Unsaid(t, i, i - 1, "safety_validator")
  /\ Asks(line[i], t)   => Profile[kind[t]].guard = "high"
  /\ Clears(line[i], t) => Profile[kind[t]].guard = "clear"
  /\ \/ Calm(t) /\ (Profile[kind[t]].validator = "high" => i > 0 /\ Says(line[i - 1], t))
     \/ /\ Halfway(t)
        /\ i # 0 => i = 1 /\ (current = NoEvent \/ current.name = "task_failed")

SaidOK(t) ==
  \A i \in DOMAIN line : Says(line[i], t) =>
    /\ t \in active
    /\ \A j \in DOMAIN line : ~Reply(line[j], t)
    /\ \/ line[i].src = "system" /\ ParserSays(t, i)
       \/ line[i].src = "safety_validator" /\ ValidatorSays(t, i)
       \/ line[i].src = "permission_guard" /\ GuardSays(t, i)

ReplyOK(t) == \A i \in DOMAIN line : Reply(line[i], t) => prompts[t] = 1 /\ checkTimers[t] = 0

DeskOK(t) ==
  /\ prompts[t] <= 1 /\ allowed[t] <= prompts[t]
  /\ t \in pending => prompts[t] = 1 /\ allowed[t] = 0
  /\ prompts[t] > 0 /\ allowed[t] = 0 => Idle(t)
  /\ prompts[t] > 0 /\ checkTimers[t] > 0 => record[t].highRisk /\ allowed[t] = 0

TimersOK(t) == checkTimers[t] > 0 => t \in dispatchedSafe \/ Idle(t)

SpendOK(t) ==
  /\ started[t] <= 1
  /\ \A i \in DOMAIN line : Spends(line[i], t) =>
       started[t] = 0 /\ \A j \in DOMAIN line \ {i} : ~Spends(line[j], t)
  /\ decidedRuns[t] > 0 \/ waterfallRuns[t] > 0 => started[t] > 0
  /\ \A i \in DOMAIN line : Done(line[i], t) => started[t] > 0

High(t) == "high" \in {Profile[kind[t]].guard, Profile[kind[t]].validator}

HighOK(t) ==
  High(t) =>
    /\ allowed[t] = 0 => Idle(t)
    /\ checkTimers[t] > 0 /\ prompts[t] = 0 =>
         \E i \in DOMAIN line : Says(line[i], t) /\ line[i].src = "permission_guard"

\* The planner's dispatch comes after what a gate asks of a high-risk task, and so
\* after the mark on its record.
Dispatch(e, t) == Late(e, t) /\ e.name = "task_dispatched"

Marked(t) == t \in active => record[t].highRisk

MarkOK(t) ==
  High(t) /\ judged[t] = 1 =>
    \/ Marked(t)
    \/ \E i \in DOMAIN line : /\ Asks(line[i], t)
                              /\ \A j \in DOMAIN line : Dispatch(line[j], t) => j > i

\* All of it holds of a task until a gate that forgot it judges it once more.
TaskOK(t) ==
  /\ NewOK(t) /\ EarlyOK(t) /\ FirstOK(t) /\ PlannedOK(t) /\ LateOK(t) /\ SaidOK(t)
  /\ ReplyOK(t) /\ DeskOK(t) /\ TimersOK(t) /\ SpendOK(t) /\ HighOK(t) /\ MarkOK(t)

\* From then on nothing takes the mark off a high-risk task that is still active.
Past(t) ==
  /\ t \in submitted
  /\ ~Early(current, t) /\ \A i \in DOMAIN normal : ~Early(normal[i], t)

TaskInv(t) ==
  /\ judged[t] <= 1 => TaskOK(t)
  /\ High(t) => Funded(t)
  /\ High(t) /\ judged[t] > 1 => Past(t) /\ Marked(t)

PromptInv == TypeOK /\ OnlyFailures /\ \A t \in Tasks : TaskInv(t)

-----------------------------------------------------------------------------
(* How the line moves.                                                     *)

LEMMA LineFacts ==
  ASSUME TypeOK
  PROVE  /\ Len(normal) \in Nat /\ DOMAIN line = 0 .. Len(normal) /\ line[0] = current
         /\ \A i \in 1 .. Len(normal) : line[i] = normal[i] /\ line[i] \in Event
BY DEF line, TypeOK, BusOK

LEMMA LineFactsNext ==
  ASSUME TypeOK'
  PROVE  /\ Len(normal') \in Nat /\ DOMAIN line' = 0 .. Len(normal') /\ line'[0] = current'
         /\ \A i \in 1 .. Len(normal') : line'[i] = normal'[i] /\ line'[i] \in Event
BY DEF line, TypeOK, BusOK

LEMMA Standing ==
  ASSUME TypeOK, TypeOK', normal' = normal
  PROVE  /\ DOMAIN line' = DOMAIN line /\ 0 \in DOMAIN line
         /\ \A i \in DOMAIN line \ {0} : line'[i] = line[i]
         /\ line[0] = current /\ line'[0] = current'
BY LineFacts, LineFactsNext

LEMMA Joining ==
  ASSUME TypeOK, TypeOK', NEW e, normal' = normal \o <<e>>, e \in Event
  PROVE  /\ DOMAIN line' = DOMAIN line \union {Len(normal) + 1}
         /\ DOMAIN line = 0 .. Len(normal) /\ Len(normal) \in Nat
         /\ \A i \in DOMAIN line \ {0} : line'[i] = line[i]
         /\ line'[Len(normal) + 1] = e
         /\ line[0] = current /\ line'[0] = current'
<1>1. /\ Len(normal') = Len(normal) + 1 /\ normal'[Len(normal) + 1] = e
      /\ \A i \in 1 .. Len(normal) : normal'[i] = normal[i]
  BY DEF TypeOK, BusOK
<1> QED BY <1>1, LineFacts, LineFactsNext

\* What a task's part of the state is made of, the events apart.
Same(t) ==
  /\ started'[t] = started[t] /\ prompts'[t] = prompts[t] /\ allowed'[t] = allowed[t]
  /\ checkTimers'[t] = checkTimers[t]
  /\ prompts[t] > 0 \/ judged[t] > 0 =>
       record'[t].highRisk = record[t].highRisk /\ (t \in active' => t \in active)
  /\ t \in pending' <=> t \in pending
  /\ t \in dispatchedSafe' => t \in dispatchedSafe
  /\ checkTimers[t] > 0 /\ t \in dispatchedSafe => t \in dispatchedSafe'
  /\ t \in validatorSeen' => t \in validatorSeen
  /\ t \in guardSeen' => t \in guardSeen
  /\ judged'[t] = judged[t]
  /\ t \in active => t \in active'
  /\ t \in submitted => t \in submitted'
  /\ decidedRuns'[t] = decidedRuns[t] /\ waterfallRuns'[t] = waterfallRuns[t]
  /\ kind'[t] = kind[t]

\* Events of the task stay where they are.
Steady(t) ==
  /\ DOMAIN line \subseteq DOMAIN line'
  /\ \A i \in DOMAIN line' : Mine(line'[i], t) => i \in DOMAIN line /\ line'[i] = line[i]
  /\ \A i \in DOMAIN line : Mine(line[i], t) => line'[i] = line[i]

LEMMA GuardCases ==
  ASSUME NEW t, NEW i, GuardSays(t, i)
  PROVE  \/ Calm(t) /\ (Profile[kind[t]].validator = "high" => i > 0 /\ Says(line[i - 1], t))
         \/ Halfway(t) /\ (i # 0 => i = 1 /\ (current = NoEvent \/ current.name = "task_failed"))
BY DEF GuardSays

\* What was said of the task stands.
LEMMA SaidFrame ==
  ASSUME TypeOK, TypeOK', NEW t \in Tasks, SaidOK(t), Same(t),
         \A i \in DOMAIN line : ParserSays(t, i) => Steady(t),
         \A j \in DOMAIN line' : Says(line'[j], t) \/ Reply(line'[j], t) \/ Spends(line'[j], t) =>
           j \in DOMAIN line /\ line'[j] = line[j],
         \A j \in DOMAIN line : Says(line[j], t) => j \in DOMAIN line' /\ line'[j] = line[j],
         t \in planQueue' => t \in planQueue,
         current' = current \/ current' = NoEvent \/ current'.name = "task_failed"
  PROVE  SaidOK(t)'
<1> SUFFICES ASSUME NEW i \in DOMAIN line', Says(line'[i], t)
             PROVE  /\ t \in active'
                    /\ \A j \in DOMAIN line' : ~Reply(line'[j], t)
                    /\ \/ line'[i].src = "system" /\ ParserSays(t, i)'
                       \/ line'[i].src = "safety_validator" /\ ValidatorSays(t, i)'
                       \/ line'[i].src = "permission_guard" /\ GuardSays(t, i)'
  BY DEF SaidOK
<1>1. Idle(t) => Idle(t)'
  BY DEF Idle, Same
<1>2. Calm(t) => Calm(t)'
  BY <1>1 DEF Calm, Same
<1>3. Halfway(t) => Halfway(t)'
  BY <1>1 DEF Halfway, Same
<1>4. i \in DOMAIN line /\ line'[i] = line[i] /\ Says(line[i], t)
  OBVIOUS
<1>5. t \in active' /\ \A j \in DOMAIN line' : ~Reply(line'[j], t)
  BY <1>4 DEF SaidOK, Same
<1>6. \/ line[i].src = "system" /\ ParserSays(t, i)
      \/ line[i].src = "safety_validator" /\ ValidatorSays(t, i)
      \/ line[i].src = "permission_guard" /\ GuardSays(t, i)
  BY <1>4 DEF SaidOK
<1>7. ParserSays(t, i) => ParserSays(t, i)'
  BY <1>2, <1>4 DEF ParserSays, Alone, Steady
<1>8. \A j, by : Unsaid(t, i, j, by) => Unsaid(t, i, j, by)'
  BY <1>4 DEF Unsaid
<1>9. kind'[t] = kind[t]
  BY DEF Same
<1>10. ValidatorSays(t, i) => ValidatorSays(t, i)'
  <2> HIDE DEF Says, Asks, Clears
  <2> QED BY <1>2, <1>4, <1>8, <1>9 DEF ValidatorSays
<1>11. GuardSays(t, i) => GuardSays(t, i)'
  <2> SUFFICES ASSUME GuardSays(t, i) PROVE GuardSays(t, i)'
    OBVIOUS
  <2>1. Unsaid(t, i, i - 1, "safety_validator")'
    BY <1>8 DEF GuardSays
  <2>2. /\ Asks(line'[i], t)   => Profile[kind'[t]].guard = "high"
        /\ Clears(line'[i], t) => Profile[kind'[t]].guard = "clear"
    BY <1>4, <1>9 DEF GuardSays
  <2>3. CASE Calm(t) /\ (Profile[kind[t]].validator = "high" => i > 0 /\ Says(line[i - 1], t))
    <3>1. i > 0 /\ Says(line[i - 1], t) => i > 0 /\ Says(line'[i - 1], t)
      <4>1. i > 0 => i - 1 \in DOMAIN line
        BY <1>4, LineFacts
      <4> QED BY <4>1
    <3> QED BY <1>2, <1>9, <2>1, <2>2, <2>3, <3>1 DEF GuardSays
  <2>4. CASE Halfway(t) /\ (i # 0 => i = 1 /\ (current = NoEvent \/ current.name = "task_failed"))
    BY <1>3, <2>1, <2>2, <2>4 DEF GuardSays
  <2> QED BY <2>3, <2>4, GuardCases
<1> QED BY <1>4, <1>5, <1>6, <1>7, <1>10, <1>11

LEMMA SteadyTask ==
  ASSUME TypeOK, TypeOK', NEW t \in Tasks, TaskOK(t), Same(t), Steady(t),
         t \in planQueue' <=> t \in planQueue,
         t \in planQueue => current' = NoEvent,
         current' = current \/ current' = NoEvent \/ current'.name = "task_failed"
  PROVE  TaskOK(t)'
<1> USE DEF Same, Steady
<1> USE DEF Early, First, Late, Asks, Clears, Says, Reply, Spends, Done
<1>1. Idle(t) <=> Idle(t)'
  BY DEF Idle
<1>2. Calm(t) => Calm(t)'
  BY <1>1 DEF Calm
<1>3. Halfway(t) => Halfway(t)'
  BY <1>1 DEF Halfway
<1>4. NewOK(t)'
  BY <1>2 DEF NewOK, Fresh, Alone, TaskOK
<1>5. EarlyOK(t)'
  BY <1>2 DEF EarlyOK, Fresh, Alone, TaskOK
<1>6. FirstOK(t)'
  BY <1>2 DEF FirstOK, Fresh, TaskOK
<1>7. PlannedOK(t)'
  BY DEF PlannedOK, TaskOK
<1>8. LateOK(t)'
  BY DEF LateOK, TaskOK
<1>9. SaidOK(t)'
  <2>1. \A e : Says(e, t) \/ Reply(e, t) \/ Spends(e, t) => Mine(e, t)
    OBVIOUS
  <2> HIDE DEF Early, First, Late, Asks, Clears, Says, Reply, Spends, Done, Same, Steady
  <2>2. /\ \A j \in DOMAIN line' : Says(line'[j], t) \/ Reply(line'[j], t) \/ Spends(line'[j], t) =>
             j \in DOMAIN line /\ line'[j] = line[j]
        /\ \A j \in DOMAIN line : Says(line[j], t) => j \in DOMAIN line' /\ line'[j] = line[j]
    BY <2>1 DEF Steady
  <2> QED BY <2>2, SaidFrame DEF TaskOK
<1>10. ReplyOK(t)' /\ DeskOK(t)' /\ TimersOK(t)'
  BY <1>1 DEF ReplyOK, DeskOK, TimersOK, TaskOK
<1>11. SpendOK(t)'
  BY DEF SpendOK, TaskOK
<1>12. HighOK(t)'
  BY <1>1 DEF HighOK, High, TaskOK
<1>13. MarkOK(t)'
  <2>1. MarkOK(t)
    BY DEF TaskOK
  <2>2. Marked(t) /\ judged[t] = 1 => Marked(t)'
    BY DEF Marked
  <2>3. High(t)' => High(t)
    BY DEF High
  <2> HIDE DEF High, Marked
  <2> QED BY <2>1, <2>2, <2>3 DEF MarkOK, Dispatch
<1> QED BY <1>4, <1>5, <1>6, <1>7, <1>8, <1>9, <1>10, <1>11, <1>12, <1>13 DEF TaskOK

\* The bus takes the next event: every event of the task is one place nearer.
LEMMA DeliverTask ==
  ASSUME TypeOK, TypeOK', OnlyFailures, NEW t \in Tasks, TaskOK(t), Deliver
  PROVE  TaskOK(t)'
<1>1. Same(t) /\ planQueue = {} /\ planQueue' = {} /\ current = NoEvent
  BY DEF Deliver, Same, execVars, confVars, orchVars, gateVars, userVars
<1>2. CASE urgent # <<>> /\ current' = Head(urgent) /\ UNCHANGED normal
  <2>1. current'.name = "task_failed"
    <3>1. Head(urgent) = urgent[1] /\ 1 \in DOMAIN urgent
      BY <1>2 DEF TypeOK, BusOK
    <3> QED BY <1>2, <3>1 DEF OnlyFailures
  <2>2. Steady(t)
    BY <1>1, <1>2, <2>1, Standing DEF Steady, Mine
  <2> QED BY <1>1, <2>1, <2>2, SteadyTask
<1>3. CASE normal # <<>> /\ current' = Head(normal) /\ normal' = Tail(normal)
  <2>1. /\ DOMAIN line = 0 .. Len(normal) /\ Len(normal) \in Nat \ {0}
        /\ DOMAIN line' = 0 .. Len(normal) - 1
        /\ \A i \in DOMAIN line' : i + 1 \in DOMAIN line /\ line'[i] = line[i + 1]
        /\ line[0] = NoEvent
    <3>1. normal \in Seq(Event)
      BY DEF TypeOK, BusOK
    <3>2. /\ Len(normal) \in Nat \ {0} /\ Head(normal) = normal[1] /\ Len(Tail(normal)) = Len(normal) - 1
          /\ \A i \in 1 .. Len(normal) - 1 : Tail(normal)[i] = normal[i + 1]
      BY <1>3, <3>1
    <3> QED BY <1>1, <1>3, <3>2, LineFacts, LineFactsNext
  <2>2. \A e : /\ Early(e, t) \/ First(e, t) \/ Late(e, t) => Mine(e, t)
               /\ Says(e, t) \/ Reply(e, t) \/ Spends(e, t) \/ Done(e, t) => Mine(e, t)
    BY DEF Early, First, Late, Asks, Clears, Says, Reply, Spends, Done
  <2>3. /\ \A i \in DOMAIN line : Mine(line[i], t) => i - 1 \in DOMAIN line' /\ line'[i - 1] = line[i]
        /\ ~Mine(line[0], t)
    BY <2>1 DEF Mine
  <2> USE DEF Same
  <2>4. Idle(t) <=> Idle(t)'
    BY <1>1, <2>1, <2>2, <2>3 DEF Idle
  <2>5. Calm(t) => Calm(t)'
    BY <1>1, <2>4 DEF Calm
  <2>6. Halfway(t) => Halfway(t)'
    BY <1>1, <2>4 DEF Halfway
  <2>7. NewOK(t)'
    BY <1>1, <2>1, <2>5 DEF NewOK, Fresh, Alone, TaskOK
  <2>8. EarlyOK(t)'
    BY <1>1, <2>1, <2>5 DEF EarlyOK, Fresh, Alone, TaskOK
  <2>9. FirstOK(t)'
    BY <1>1, <2>1, <2>5 DEF FirstOK, Fresh, TaskOK
  <2>10. PlannedOK(t)'
    BY <1>1 DEF PlannedOK
  <2>11. LateOK(t)'
    BY <1>1, <2>1, <2>2, <2>3 DEF LateOK, TaskOK
  <2>12. SaidOK(t)'
    <3> SUFFICES ASSUME NEW i \in DOMAIN line', Says(line'[i], t)
                 PROVE  /\ t \in active'
                        /\ \A j \in DOMAIN line' : ~Reply(line'[j], t)
                        /\ \/ line'[i].src = "system" /\ ParserSays(t, i)'
                           \/ line'[i].src = "safety_validator" /\ ValidatorSays(t, i)'
                           \/ line'[i].src = "permission_guard" /\ GuardSays(t, i)'
      BY DEF SaidOK
    <3>1. i + 1 \in DOMAIN line /\ line'[i] = line[i + 1] /\ i \in Nat /\ Says(line[i + 1], t)
      BY <2>1
    <3>2. t \in active' /\ \A j \in DOMAIN line' : ~Reply(line'[j], t)
      BY <1>1, <2>1, <3>1 DEF SaidOK, TaskOK
    <3>3. \/ line[i + 1].src = "system" /\ ParserSays(t, i + 1)
          \/ line[i + 1].src = "safety_validator" /\ ValidatorSays(t, i + 1)
          \/ line[i + 1].src = "permission_guard" /\ GuardSays(t, i + 1)
      BY <3>1 DEF SaidOK, TaskOK
    <3>4. ParserSays(t, i + 1) => ParserSays(t, i)'
      BY <1>1, <2>1, <2>5, <3>1 DEF ParserSays, Alone
    <3>5. ASSUME NEW j \in Int, NEW by, Unsaid(t, i + 1, j + 1, by) PROVE Unsaid(t, i, j, by)'
      <4> SUFFICES ASSUME NEW k \in DOMAIN line' \ {i}, Says(line'[k], t)
                   PROVE  k = j /\ line'[k].src = by
        BY DEF Unsaid
      <4>1. k + 1 \in DOMAIN line \ {i + 1} /\ line[k + 1] = line'[k] /\ k \in Nat
        BY <2>1, <3>1
      <4>2. k + 1 = j + 1 /\ line'[k].src = by
        BY <3>5, <4>1 DEF Unsaid
      <4> QED BY <4>1, <4>2
    <3>6. ValidatorSays(t, i + 1) => ValidatorSays(t, i)'
      <4> SUFFICES ASSUME ValidatorSays(t, i + 1) PROVE ValidatorSays(t, i)'
        OBVIOUS
      <4>1. Unsaid(t, i, i + 1, "permission_guard")'
        BY <3>1, <3>5 DEF ValidatorSays
      <4>2. Profile[kind'[t]].guard = "high" => i + 1 \in DOMAIN line' /\ Says(line'[i + 1], t)
        <5>1. (i + 1) + 1 \in DOMAIN line => i + 1 \in DOMAIN line' /\ line'[i + 1] = line[(i + 1) + 1]
          BY <2>1, <3>1
        <5> QED BY <1>1, <5>1 DEF ValidatorSays
      <4> QED BY <1>1, <2>5, <3>1, <4>1, <4>2 DEF ValidatorSays
    <3>7. GuardSays(t, i + 1) => GuardSays(t, i)'
      <4> SUFFICES ASSUME GuardSays(t, i + 1) PROVE GuardSays(t, i)'
        OBVIOUS
      <4>1. Unsaid(t, i, i - 1, "safety_validator")'
        <5>1. (i + 1) - 1 = (i - 1) + 1 /\ i - 1 \in Int
          BY <3>1
        <5> QED BY <3>5, <5>1 DEF GuardSays
      <4>2. /\ Asks(line'[i], t)   => Profile[kind'[t]].guard = "high"
            /\ Clears(line'[i], t) => Profile[kind'[t]].guard = "clear"
        BY <1>1, <3>1 DEF GuardSays
      <4>3. CASE Calm(t) /\ (Profile[kind[t]].validator = "high" => i + 1 > 0 /\ Says(line[(i + 1) - 1], t))
        <5>1. Says(line[i], t) => i > 0 /\ i - 1 \in DOMAIN line' /\ line'[i - 1] = line[i]
          BY <2>1, <2>2, <2>3, <3>1
        <5>2. (i + 1) - 1 = i
          BY <3>1
        <5>3. Profile[kind'[t]].validator = "high" => i > 0 /\ Says(line'[i - 1], t)
          BY <1>1, <4>3, <5>1, <5>2
        <5> QED BY <2>5, <4>1, <4>2, <4>3, <5>3 DEF GuardSays
      <4>4. CASE Halfway(t) /\ (i + 1 # 0 => i + 1 = 1 /\ (current = NoEvent \/ current.name = "task_failed"))
        BY <2>6, <3>1, <4>1, <4>2, <4>4 DEF GuardSays
      <4>5. \/ Calm(t) /\ (Profile[kind[t]].validator = "high" => i + 1 > 0 /\ Says(line[(i + 1) - 1], t))
            \/ Halfway(t) /\ (i + 1 # 0 => i + 1 = 1 /\ (current = NoEvent \/ current.name = "task_failed"))
        BY GuardCases
      <4> QED BY <4>3, <4>4, <4>5
    <3> QED BY <3>1, <3>2, <3>3, <3>4, <3>6, <3>7
  <2>13. ReplyOK(t)' /\ DeskOK(t)' /\ TimersOK(t)'
    BY <1>1, <2>1, <2>4 DEF ReplyOK, DeskOK, TimersOK, TaskOK
  <2>14. SpendOK(t)'
    BY <1>1, <2>1 DEF SpendOK, TaskOK
  <2>15. HighOK(t)'
    BY <1>1, <2>1, <2>2, <2>3, <2>4 DEF HighOK, High, TaskOK
  <2>16. MarkOK(t)'
    <3>1. MarkOK(t)
      BY DEF TaskOK
    <3>2. Marked(t) /\ judged[t] = 1 => Marked(t)'
      BY <1>1 DEF Marked
    <3>3. High(t)' => High(t)
      BY <1>1 DEF High
    <3>4. ASSUME NEW i \in DOMAIN line, Asks(line[i], t), \A j \in DOMAIN line : Dispatch(line[j], t) => j > i
          PROVE  /\ i - 1 \in DOMAIN line' /\ Asks(line'[i - 1], t)
                 /\ \A j \in DOMAIN line' : Dispatch(line'[j], t) => j > i - 1
      <4>1. i - 1 \in DOMAIN line' /\ line'[i - 1] = line[i]
        BY <2>3, <3>4 DEF Asks
      <4>2. ASSUME NEW j \in DOMAIN line', Dispatch(line'[j], t) PROVE j > i - 1
        <5>1. j + 1 \in DOMAIN line /\ Dispatch(line[j + 1], t) /\ j \in Nat /\ i \in Nat
          BY <2>1, <4>2
        <5>2. j + 1 > i
          BY <3>4, <5>1
        <5> QED BY <5>1, <5>2
      <4> QED BY <3>4, <4>1, <4>2
    <3> HIDE DEF line, High, Marked, Dispatch, Asks
    <3> QED BY <1>1, <3>1, <3>2, <3>3, <3>4 DEF MarkOK
  <2> QED BY <2>7, <2>8, <2>9, <2>10, <2>11, <2>12, <2>13, <2>14, <2>15, <2>16 DEF TaskOK
<1> QED BY <1>2, <1>3 DEF Deliver

-----------------------------------------------------------------------------
(* Steps that are about another task, or change nothing the invariant reads. *)

\* A step takes the event at hand, or leaves it, and publishes at most one.
LEMMA LineStep ==
  ASSUME TypeOK, TypeOK', current' = NoEvent \/ current' = current,
         normal' = normal \/ \E e \in Event : normal' = normal \o <<e>>
  PROVE  /\ \A i \in DOMAIN line' : line'[i] # NoEvent =>
              \/ i \in DOMAIN line /\ line'[i] = line[i]
              \/ i = Len(normal) + 1 /\ i \notin DOMAIN line /\ i > 0
                 /\ normal' = normal \o <<line'[i]>>
         /\ \A i \in DOMAIN line : i \in DOMAIN line' /\ (line'[i] = line[i] \/ (i = 0 /\ line'[0] = NoEvent))
         /\ DOMAIN line = 0 .. Len(normal) /\ Len(normal) \in Nat
         /\ line[0] = current /\ line'[0] = current'
<1>1. CASE normal' = normal
  BY <1>1, Standing, LineFacts
<1>2. ASSUME NEW e \in Event, normal' = normal \o <<e>>
      PROVE  /\ \A i \in DOMAIN line' : line'[i] # NoEvent =>
                   \/ i \in DOMAIN line /\ line'[i] = line[i]
                   \/ i = Len(normal) + 1 /\ i \notin DOMAIN line /\ i > 0
                      /\ normal' = normal \o <<line'[i]>>
             /\ \A i \in DOMAIN line : i \in DOMAIN line' /\ (line'[i] = line[i] \/ (i = 0 /\ line'[0] = NoEvent))
  BY <1>2, Joining
<1> QED BY <1>1, <1>2, LineFacts, LineFactsNext

\* Nothing of the task is at hand or published.
LEMMA SteadyStep ==
  ASSUME TypeOK, TypeOK', NEW t \in Tasks,
         current' = current \/ (current' = NoEvent /\ ~Mine(current, t)),
         normal' = normal \/ \E e \in Event : normal' = normal \o <<e>> /\ ~Mine(e, t)
  PROVE  Steady(t)
<1>1. ASSUME NEW i \in DOMAIN line', Mine(line'[i], t) PROVE i \in DOMAIN line /\ line'[i] = line[i]
  <2>1. CASE normal' = normal
    BY <1>1, <2>1, Standing DEF Mine
  <2>2. ASSUME NEW e \in Event, normal' = normal \o <<e>>, ~Mine(e, t)
        PROVE  i \in DOMAIN line /\ line'[i] = line[i]
    <3>1. i # Len(normal) + 1
      BY <1>1, <2>2, Joining
    <3> QED BY <1>1, <2>2, <3>1, LineStep DEF Mine
  <2> QED BY <2>1, <2>2
<1>2. ASSUME NEW i \in DOMAIN line, Mine(line[i], t) PROVE line'[i] = line[i]
  BY <1>2, LineStep DEF Mine
<1>3. DOMAIN line \subseteq DOMAIN line'
  BY LineStep
<1> HIDE DEF line, Mine
<1> QED BY <1>1, <1>2, <1>3 DEF Steady

\* What a listener publishes is about the task it was called for.
LEMMA Publishes ==
  ASSUME TypeOK, Listeners, ~OnTaskDispatched
  PROVE  /\ current \in Event /\ current' = NoEvent /\ current.task \in Tasks /\ current # NoEvent
         /\ \/ normal' = normal
            \/ \E e \in Event : normal' = normal \o <<e>> /\ e.task = current.task
<1>1. /\ current \in Event /\ current' = NoEvent /\ current.task \in Tasks /\ current # NoEvent
      /\ current.arg \in Args
  BY CurrentIsEvent DEF Listeners, HandleNewTask, ProcessIntent, ValidateAndRoute, MapIntent,
     OnCapabilityMapped, CreatePlan, OnConfirmationRequired, OnUserResponse, OnSafetyCleared,
     ExecutePlan, HandleFailure, FinalizeTask, TypeOK, Handling
<1>2. ASSUME NEW n \in Names, NEW src \in Sources, NEW a \in Args,
             Publish(<<Ev(n, current.task, src, a)>>)
      PROVE  \E e \in Event : normal' = normal \o <<e>> /\ e.task = current.task
  <2>1. Ev(n, current.task, src, a) \in Event /\ Ev(n, current.task, src, a).task = current.task
    BY <1>1, EvType DEF Ev
  <2> QED BY <1>2, <2>1 DEF Publish
<1>3. /\ Names = {"user_input_received", "request_intent_parsing", "intent_parsed",
           "intent_validated", "capability_mapped", "request_planning",
           "task_dispatched", "task_safety_cleared", "confirmation_required",
           "user_response_received", "task_dispatched_safe", "task_completed", "task_failed"}
      /\ {"llm_client", "system", "capability_mapper", "orchestrator", "planner",
          "confirmation_manager"} \subseteq Sources
      /\ {"plain", "decided"} \subseteq Args
  BY DEF Names, Sources, Args
<1> HIDE DEF Names, Sources, Args
<1>4. CASE HandleNewTask
  BY <1>1, <1>2, <1>3, <1>4 DEF HandleNewTask
<1>5. CASE ProcessIntent
  BY <1>1, <1>2, <1>3, <1>5 DEF ProcessIntent, Raise
<1>6. CASE ValidateAndRoute
  BY <1>1, <1>2, <1>3, <1>6 DEF ValidateAndRoute, Raise
<1>7. CASE MapIntent
  BY <1>1, <1>2, <1>3, <1>7 DEF MapIntent, Silent
<1>8. CASE OnCapabilityMapped
  BY <1>1, <1>2, <1>3, <1>8 DEF OnCapabilityMapped, Silent
<1>9. CASE CreatePlan
  BY <1>1, <1>2, <1>3, <1>9 DEF CreatePlan, Raise
<1>10. CASE OnUserResponse
  BY <1>1, <1>2, <1>3, <1>10 DEF OnUserResponse, Raise, Silent
<1>11. CASE OnSafetyCleared
  <2>1. \A arg : DispatchArg(current.task, arg) \in Args
    BY <1>1, <1>3, DispatchArgOK
  <2> QED BY <1>1, <1>2, <1>3, <1>11, <2>1 DEF OnSafetyCleared, DispatchToExecutor, Silent
<1>12. CASE OnConfirmationRequired \/ ExecutePlan \/ HandleFailure \/ FinalizeTask
  BY <1>1, <1>12 DEF OnConfirmationRequired, ExecutePlan, HandleFailure, FinalizeTask, Silent
<1> QED BY <1>1, <1>4, <1>5, <1>6, <1>7, <1>8, <1>9, <1>10, <1>11, <1>12 DEF Listeners

\* A listener changes what the invariant reads of the task it was called for only.
LEMMA OthersSame ==
  ASSUME TypeOK, TypeOK', Listeners, NEW t \in Tasks, current.task # t
  PROVE  Same(t) /\ (t \in planQueue' <=> t \in planQueue)
<1> USE DEF TypeOK, OrchOK, ConfOK, ExecOK, UserOK, GateOK
<1>1. CASE HandleNewTask
  BY <1>1 DEF Same, HandleNewTask, gateVars, confVars, execVars, userVars
<1>2. CASE ProcessIntent \/ ValidateAndRoute \/ MapIntent \/ OnCapabilityMapped \/ CreatePlan
  BY <1>2 DEF Same, ProcessIntent, ValidateAndRoute, MapIntent, OnCapabilityMapped, CreatePlan,
     orchVars, gateVars, confVars, execVars, userVars
<1>3. CASE OnTaskDispatched
  BY <1>3 DEF Same, OnTaskDispatched, orchVars, confVars, execVars, userVars
<1>4. CASE OnConfirmationRequired \/ OnUserResponse
  BY <1>4 DEF Same, OnConfirmationRequired, OnUserResponse, orchVars, gateVars, execVars, userVars
<1>5. CASE OnSafetyCleared
  BY <1>5 DEF Same, OnSafetyCleared, DispatchToExecutor, confVars, gateVars, execVars, userVars
<1>6. CASE ExecutePlan
  BY <1>6 DEF Same, ExecutePlan, orchVars, confVars, gateVars, userVars
<1>7. CASE HandleFailure \/ FinalizeTask
  BY <1>7 DEF Same, HandleFailure, FinalizeTask, confVars, gateVars, execVars, userVars
<1> QED BY <1>1, <1>2, <1>3, <1>4, <1>5, <1>6, <1>7 DEF Listeners

\* What a gate publishes at the normal priority: one event, or none.
LEMMA OneAnswer ==
  ASSUME NEW e \in Event, NEW v, NEW gate \in {"safety_validator", "permission_guard"}
  PROVE  /\ Answer(v, e, gate) \in Seq(Event)
         /\ v = "clear" \/ v = "high" => Len(Answer(v, e, gate)) = 1
         /\ v # "clear" /\ v # "high" => Answer(v, e, gate) = <<>> /\ Len(Answer(v, e, gate)) = 0
         /\ v = "clear" \/ v = "high" =>
              /\ Answer(v, e, gate)[1].task = e.task /\ Answer(v, e, gate)[1].src = gate
              /\ Answer(v, e, gate)[1] \in Event
              /\ v = "clear" => Answer(v, e, gate)[1].name = "task_safety_cleared"
              /\ v = "high" => Answer(v, e, gate)[1].name = "confirmation_required"
<1> DEFINE c == Ev("task_safety_cleared", e.task, gate, e.arg)
           r == Ev("confirmation_required", e.task, gate, "plain")
<1>1. c \in Event /\ c.task = e.task /\ c.src = gate /\ c.name = "task_safety_cleared"
  BY EvType, EventFields DEF Ev, Names, Sources
<1>2. r \in Event /\ r.task = e.task /\ r.src = gate /\ r.name = "confirmation_required"
  BY EvType, EventFields DEF Ev, Names, Sources, Args
<1>3. /\ v = "clear" => Answer(v, e, gate) = <<c>>
      /\ v = "high" => Answer(v, e, gate) = <<r>>
      /\ v # "clear" /\ v # "high" => Answer(v, e, gate) = <<>>
  BY DEF Answer
<1> HIDE DEF c, r
<1>4. <<c>> \in Seq(Event) /\ <<r>> \in Seq(Event) /\ <<>> \in Seq(Event)
      /\ Len(<<c>>) = 1 /\ Len(<<r>>) = 1 /\ Len(<<>>) = 0 /\ <<c>>[1] = c /\ <<r>>[1] = r
  BY <1>1, <1>2
<1> QED BY <1>1, <1>2, <1>3, <1>4

\* Where the words of the two gates stand in the line.
LEMMA GatesLine ==
  ASSUME TypeOK, TypeOK', OnTaskDispatched, NEW a, NEW b,
         a = Answer(ValidatorVerdict(current), current, "safety_validator"),
         b = Answer(GuardVerdict(current), current, "permission_guard")
  PROVE  /\ current \in Event /\ current.task \in Tasks /\ current' = NoEvent /\ current # NoEvent
         /\ Len(a) \in {0, 1} /\ Len(b) \in {0, 1}
         /\ DOMAIN line = 0 .. Len(normal) /\ Len(normal) \in Nat
         /\ DOMAIN line' = 0 .. Len(normal) + Len(a) + Len(b)
         /\ \A i \in 1 .. Len(normal) : line'[i] = line[i]
         /\ Len(a) = 1 => line'[Len(normal) + 1] = a[1]
         /\ Len(b) = 1 => line'[Len(normal) + Len(a) + 1] = b[1]
         /\ line'[0] = NoEvent /\ line[0] = current
<1>1. current \in Event /\ current.task \in Tasks /\ current' = NoEvent /\ current # NoEvent
  BY CurrentIsEvent DEF OnTaskDispatched, TypeOK, Handling
<1>2. /\ a \in Seq(Event) /\ b \in Seq(Event) /\ Len(a) \in {0, 1} /\ Len(b) \in {0, 1}
  BY <1>1, OneAnswer
<1>3. normal \in Seq(Event) /\ normal' = (normal \o a) \o b
  BY DEF TypeOK, BusOK, OnTaskDispatched
<1>4. /\ normal \o a \in Seq(Event)
      /\ Len(normal \o a) = Len(normal) + Len(a) /\ Len(normal) \in Nat /\ Len(a) \in Nat
      /\ (\A i \in 1 .. Len(normal) : (normal \o a)[i] = normal[i])
      /\ Len(a) = 1 => (normal \o a)[Len(normal) + 1] = a[1]
  BY <1>2, <1>3
<1>5. /\ Len(normal') = Len(normal) + Len(a) + Len(b)
      /\ (\A i \in 1 .. Len(normal) + Len(a) : normal'[i] = (normal \o a)[i])
      /\ Len(b) = 1 => normal'[Len(normal) + Len(a) + 1] = b[1]
  <2> DEFINE q == normal \o a
  <2>1. q \in Seq(Event) /\ Len(q) = Len(normal) + Len(a)
    BY <1>4
  <2> HIDE DEF q
  <2>2. Len(q \o b) = Len(q) + Len(b) /\ (\A i \in 1 .. Len(q) : (q \o b)[i] = q[i])
        /\ (Len(b) = 1 => (q \o b)[Len(q) + 1] = b[1])
    BY <1>2, <2>1
  <2> QED BY <1>3, <2>1, <2>2 DEF q
<1>6. /\ (\A i \in 1 .. Len(normal) : normal'[i] = normal[i])
      /\ Len(a) = 1 => normal'[Len(normal) + 1] = a[1]
  BY <1>2, <1>4, <1>5
<1>7. Len(b) = 1 => Len(normal) + Len(a) + 1 \in 1 .. Len(normal')
  BY <1>4, <1>5
<1>8. Len(a) = 1 => Len(normal) + 1 \in 1 .. Len(normal')
  BY <1>2, <1>4, <1>5
<1>9. \A i \in 1 .. Len(normal) : i \in 1 .. Len(normal')
  BY <1>2, <1>4, <1>5
<1> HIDE DEF line
<1> QED BY <1>1, <1>2, <1>4, <1>5, <1>6, <1>7, <1>8, <1>9, LineFacts, LineFactsNext

\* A listener called for another task.
LEMMA OtherListener ==
  ASSUME TypeOK, TypeOK', Listeners, NEW t \in Tasks, TaskOK(t), current.task # t
  PROVE  TaskOK(t)'
<1>1. Same(t) /\ (t \in planQueue' <=> t \in planQueue)
  BY OthersSame
<1>2. CASE OnTaskDispatched
  <2> DEFINE a == Answer(ValidatorVerdict(current), current, "safety_validator")
             b == Answer(GuardVerdict(current), current, "permission_guard")
  <2>1. /\ current \in Event /\ current' = NoEvent /\ Len(a) \in {0, 1} /\ Len(b) \in {0, 1}
        /\ DOMAIN line = 0 .. Len(normal) /\ Len(normal) \in Nat
        /\ DOMAIN line' = 0 .. Len(normal) + Len(a) + Len(b)
        /\ \A i \in 1 .. Len(normal) : line'[i] = line[i]
        /\ Len(a) = 1 => line'[Len(normal) + 1] = a[1]
        /\ Len(b) = 1 => line'[Len(normal) + Len(a) + 1] = b[1]
        /\ line'[0] = NoEvent /\ line[0] = current
    BY <1>2, GatesLine
  <2>2. /\ Len(a) = 1 => a[1].task = current.task
        /\ Len(b) = 1 => b[1].task = current.task
    BY <2>1, OneAnswer
  <2> HIDE DEF a, b, line
  <2>3. ASSUME NEW i \in DOMAIN line', Mine(line'[i], t) PROVE i \in 1 .. Len(normal)
    <3>1. i # 0
      BY <2>1, <2>3 DEF Mine
    <3>2. ~(i = Len(normal) + 1 /\ Len(a) = 1) /\ ~(i = Len(normal) + Len(a) + 1 /\ Len(b) = 1)
      BY <2>1, <2>2, <2>3 DEF Mine
    <3> QED BY <2>1, <3>1, <3>2
  <2>4. ASSUME NEW i \in DOMAIN line, Mine(line[i], t) PROVE line'[i] = line[i]
    <3>1. i # 0
      BY <2>1, <2>4 DEF Mine
    <3> QED BY <2>1, <3>1
  <2>5. Steady(t)
    BY <2>1, <2>3, <2>4 DEF Steady
  <2> QED BY <1>1, <2>1, <2>5, SteadyTask
<1>3. CASE ~OnTaskDispatched
  <2>1. /\ current' = NoEvent /\ ~Mine(current, t)
        /\ \/ normal' = normal
           \/ \E e \in Event : normal' = normal \o <<e>> /\ e.task = current.task
    BY <1>3, Publishes DEF Mine
  <2>2. Steady(t)
    BY <2>1, SteadyStep DEF Mine
  <2> QED BY <1>1, <2>1, <2>2, SteadyTask
<1> QED BY <1>2, <1>3

\* A timer, a run or an answer of another task.
LEMMA OtherTimer ==
  ASSUME TypeOK, TypeOK', NEW u \in Tasks, Timers(u) \/ Runs(u) \/ Human(u),
         NEW t \in Tasks, TaskOK(t), u # t
  PROVE  TaskOK(t)'
<1>1. Same(t) /\ planQueue' = planQueue /\ current' = current
  <2> USE DEF TypeOK, OrchOK, ConfOK, ExecOK, UserOK, GateOK
  <2>1. CASE CheckLowRiskDispatch(u) \/ DiscardDispatched(u)
    BY <2>1 DEF Same, CheckLowRiskDispatch, DiscardDispatched, DispatchToExecutor, busVars,
       gateVars, confVars, execVars, userVars
  <2>2. CASE ForgetTask(u) \/ ValidatorForgets(u) \/ GuardForgets(u) \/ ConfirmationExpires(u)
    BY <2>2 DEF Same, ForgetTask, ValidatorForgets, GuardForgets, ConfirmationExpires, busVars,
       orchVars, gateVars, confVars, execVars, userVars
  <2>3. CASE RunReports(u) \/ RunRaises(u)
    BY <2>3 DEF Same, RunReports, RunRaises, busVars, orchVars, gateVars, confVars, userVars
  <2>4. CASE Human(u)
    BY <2>4 DEF Same, Human, UserInput, UserResponds, orchVars, gateVars, confVars, execVars
  <2> QED BY <2>1, <2>2, <2>3, <2>4 DEF Timers, Runs
<1>2. normal' = normal \/ \E e \in Event : normal' = normal \o <<e>> /\ e.task = u
  <2>1. ASSUME NEW n \in Names, NEW src \in Sources, NEW a \in Args, Publish(<<Ev(n, u, src, a)>>)
        PROVE  \E e \in Event : normal' = normal \o <<e>> /\ e.task = u
    <3>1. Ev(n, u, src, a) \in Event /\ Ev(n, u, src, a).task = u
      BY EvType DEF Ev
    <3> QED BY <2>1, <3>1 DEF Publish
  <2>2. /\ {"task_dispatched_safe", "task_completed", "user_input_received",
            "user_response_received"} \subseteq Names
        /\ {"orchestrator", "executor", "user"} \subseteq Sources
        /\ {"plain", "decided", "allow", "deny", "none"} \subseteq Args
    BY DEF Names, Sources, Args
  <2> HIDE DEF Names, Sources, Args
  <2>3. CASE CheckLowRiskDispatch(u)
    <3>1. DispatchArg(u, record[u].safeEvent) \in Args
      BY <2>2, DispatchArgOK
    <3> QED BY <2>1, <2>2, <2>3, <3>1 DEF CheckLowRiskDispatch, DispatchToExecutor, Silent
  <2>4. CASE DiscardDispatched(u) \/ ForgetTask(u) \/ ValidatorForgets(u) \/ GuardForgets(u)
             \/ ConfirmationExpires(u) \/ RunRaises(u)
    BY <2>4 DEF DiscardDispatched, ForgetTask, ValidatorForgets, GuardForgets, ConfirmationExpires,
       RunRaises, busVars, Raise
  <2>5. CASE RunReports(u)
    BY <2>1, <2>2, <2>5 DEF RunReports, Raise
  <2>6. CASE Human(u)
    BY <2>1, <2>2, <2>6 DEF Human, UserInput, UserResponds
  <2> QED BY <2>3, <2>4, <2>5, <2>6 DEF Timers, Runs
<1>3. Steady(t)
  BY <1>1, <1>2, SteadyStep DEF Mine
<1> QED BY <1>1, <1>3, SteadyTask DEF PlannedOK, TaskOK

\* Steps of the task itself that change nothing the invariant reads.
LEMMA UnreadStep ==
  ASSUME TypeOK, TypeOK', NEW t \in Tasks, TaskOK(t), HandleFailure \/ ForgetTask(t)
  PROVE  TaskOK(t)'
<1>1. Same(t) /\ planQueue' = planQueue /\ normal' = normal /\ (current' = NoEvent \/ current' = current)
      /\ (current' # current => ~Mine(current, t))
  BY DEF Same, HandleFailure, ForgetTask, Handling, Silent, busVars, gateVars, confVars,
     execVars, userVars, orchVars, Mine
<1>2. Steady(t)
  BY <1>1, SteadyStep
<1> QED BY <1>1, <1>2, SteadyTask DEF PlannedOK, TaskOK

-----------------------------------------------------------------------------
(* Before the gates have spoken.                                           *)

\* A task that waits for the gates: the orchestrator's dispatch is in the line.
LEMMA Waiting ==
  ASSUME NEW t \in Tasks, NEW i \in DOMAIN line', First(line'[i], t), FirstOK(t)', PlannedOK(t)', LateOK(t)',
         t \in submitted', decidedRuns'[t] = 0, waterfallRuns'[t] = 0
  PROVE  TaskOK(t)'
<1>1. /\ Fresh(t)' /\ t \in active'
      /\ \A j \in DOMAIN line' \ {i} : Mine(line'[j], t) => Late(line'[j], t)
  BY DEF FirstOK, Late
<1>2. \A j \in DOMAIN line' : /\ ~Early(line'[j], t) /\ ~Says(line'[j], t) /\ ~Reply(line'[j], t)
                              /\ ~Spends(line'[j], t) /\ ~Done(line'[j], t)
  BY <1>1 DEF First, Early, EarlyNames, Late, Says, Asks, Clears, Reply, Spends, Done, Mine
<1>3. Calm(t)' /\ Idle(t)'
  BY <1>1 DEF Fresh, Calm
<1>4. NewOK(t)' /\ EarlyOK(t)' /\ SaidOK(t)' /\ ReplyOK(t)'
  BY <1>2 DEF NewOK, EarlyOK, SaidOK, ReplyOK
<1>5. DeskOK(t)' /\ TimersOK(t)' /\ SpendOK(t)' /\ HighOK(t)'
  BY <1>2, <1>3 DEF DeskOK, TimersOK, SpendOK, HighOK, Calm, Idle
<1>6. MarkOK(t)'
  BY <1>1 DEF MarkOK, Fresh
<1> QED BY <1>4, <1>5, <1>6 DEF TaskOK

\* A task with at most one event in the line, one that comes before the gates.
LEMMA Solo ==
  ASSUME NEW t \in Tasks, NEW k, Fresh(t)', t \in submitted', t \notin planQueue',
         decidedRuns'[t] = 0, waterfallRuns'[t] = 0,
         \A j \in DOMAIN line' \ {k} : ~Mine(line'[j], t),
         k \in DOMAIN line' =>
           \/ ~Mine(line'[k], t)
           \/ Early(line'[k], t) /\ (line'[k].name # "user_input_received" => t \in active')
           \/ Asks(line'[k], t) /\ line'[k].src = "system" /\ t \in active'
  PROVE  TaskOK(t)'
<1>1. Calm(t)' /\ Idle(t)'
  BY DEF Fresh, Calm
<1>2. \A j \in DOMAIN line' : Mine(line'[j], t) =>
        j = k /\ (Early(line'[j], t) \/ (Asks(line'[j], t) /\ line'[j].src = "system"))
  OBVIOUS
<1>3. \A j \in DOMAIN line' : /\ ~First(line'[j], t) /\ ~Late(line'[j], t) /\ ~Reply(line'[j], t)
                              /\ ~Spends(line'[j], t) /\ ~Done(line'[j], t)
  BY <1>2 DEF First, Early, EarlyNames, Late, Asks, Reply, Spends, Done, Mine
<1>4. NewOK(t)' /\ FirstOK(t)' /\ PlannedOK(t)' /\ LateOK(t)' /\ ReplyOK(t)'
  BY <1>3 DEF NewOK, FirstOK, PlannedOK, LateOK, ReplyOK
<1>5. EarlyOK(t)'
  BY <1>2 DEF EarlyOK, Early, EarlyNames, Asks, Alone
<1>6. SaidOK(t)'
  BY <1>1, <1>2, <1>3 DEF SaidOK, Says, Asks, Clears, Early, EarlyNames, ParserSays, Alone
<1>7. DeskOK(t)' /\ TimersOK(t)' /\ SpendOK(t)' /\ HighOK(t)'
  BY <1>1, <1>3 DEF DeskOK, TimersOK, SpendOK, HighOK, Calm, Idle
<1>8. MarkOK(t)'
  BY DEF MarkOK, Fresh
<1> QED BY <1>4, <1>5, <1>6, <1>7, <1>8 DEF TaskOK

\* What the task has before the gates, in the line, is all there is of it.
LEMMA SoloStep ==
  ASSUME TypeOK, TypeOK', NEW t \in Tasks, TaskOK(t), Fresh(t),
         Alone(t, 0), current' = NoEvent \/ (current' = current /\ ~Mine(current, t)),
         Same(t), t \notin planQueue', t \in submitted', NEW n, NEW src, NEW a,
         \/ normal' = normal
         \/ /\ normal' = normal \o <<Ev(n, t, src, a)>> /\ Ev(n, t, src, a) \in Event
            /\ \/ n = "user_input_received"
               \/ n \in EarlyNames /\ t \in active'
               \/ n = "confirmation_required" /\ src = "system" /\ t \in active'
  PROVE  TaskOK(t)'
<1>1. decidedRuns'[t] = 0 /\ waterfallRuns'[t] = 0
  <2>1. started[t] = 0 /\ decidedRuns[t] \in Nat /\ waterfallRuns[t] \in Nat
    BY DEF Fresh, Calm, Idle, TypeOK, ExecOK
  <2> QED BY <2>1 DEF TaskOK, SpendOK, Same
<1>2. /\ \A i \in DOMAIN line : ~Mine(line'[i], t)
      /\ \A i \in DOMAIN line' \ DOMAIN line : i = Len(normal) + 1
      /\ normal' = normal => DOMAIN line' = DOMAIN line
      /\ normal' # normal => line'[Len(normal) + 1] = Ev(n, t, src, a)
  <2>1. CASE normal' = normal
    BY <2>1, Standing DEF Alone, Mine
  <2>2. CASE normal' # normal
    <3>1. /\ \A i \in DOMAIN line \ {0} : line'[i] = line[i]
          /\ line'[Len(normal) + 1] = Ev(n, t, src, a)
          /\ DOMAIN line' = DOMAIN line \union {Len(normal) + 1} /\ ~Mine(line'[0], t)
      BY <2>2, Joining DEF Mine
    <3>2. \A i \in DOMAIN line : ~Mine(line'[i], t)
      BY <3>1 DEF Alone, Mine
    <3> QED BY <2>2, <3>1, <3>2
  <2> QED BY <2>1, <2>2
<1>3. Fresh(t)'
  <2>1. Idle(t)'
    <3>1. \A i \in DOMAIN line' : ~Spends(line'[i], t)
      BY <1>2 DEF Spends, Mine, Ev, EarlyNames
    <3> QED BY <3>1 DEF Idle, Fresh, Calm, Same
  <2> QED BY <2>1 DEF Fresh, Calm, Same
<1>4. \A j \in DOMAIN line' \ {Len(normal) + 1} : ~Mine(line'[j], t)
  BY <1>2
<1>5. Len(normal) + 1 \in DOMAIN line' =>
        \/ ~Mine(line'[Len(normal) + 1], t)
        \/ /\ Early(line'[Len(normal) + 1], t)
           /\ line'[Len(normal) + 1].name # "user_input_received" => t \in active'
        \/ /\ Asks(line'[Len(normal) + 1], t) /\ line'[Len(normal) + 1].src = "system"
           /\ t \in active'
  <2>1. CASE normal' = normal
    BY <1>2, <2>1
  <2>2. CASE normal' # normal
    <3>1. line'[Len(normal) + 1] = Ev(n, t, src, a) /\ Ev(n, t, src, a) # NoEvent
      BY <1>2, <2>2, NoEventAssumption
    <3> QED BY <2>2, <3>1 DEF Early, Asks, Mine, Ev, EarlyNames
  <2> QED BY <2>1, <2>2
<1> QED BY <1>1, <1>3, <1>4, <1>5, Solo

LEMMA EntryStep ==
  ASSUME TypeOK, TypeOK', NEW t \in Tasks, TaskOK(t), UserInput(t)
  PROVE  TaskOK(t)'
<1>1. Fresh(t) /\ t \notin planQueue /\ Alone(t, 0) /\ ~Mine(current, t)
  BY LineFacts DEF UserInput, TaskOK, NewOK, Alone
<1>2. /\ Same(t) /\ t \notin planQueue' /\ t \in submitted' /\ current' = current
      /\ normal' = normal \o <<Ev("user_input_received", t, "user", "plain")>>
  BY <1>1 DEF UserInput, Same, Publish, orchVars, gateVars, confVars, execVars
<1>3. Ev("user_input_received", t, "user", "plain") \in Event
  BY EvType DEF Names, Sources, Args
<1> QED BY <1>1, <1>2, <1>3, SoloStep

\* The event at hand is the one thing there is of a task the gates do not know.
LEMMA EarlyAlone ==
  ASSUME TypeOK, NEW t \in Tasks, TaskOK(t), current \in Event, current # NoEvent, current.task = t,
         current.name \in EarlyNames
  PROVE  /\ Fresh(t) /\ t \notin planQueue /\ Alone(t, 0) /\ t \in submitted
         /\ current.name # "user_input_received" => t \in active
<1>1. Mine(current, t) /\ Early(line[0], t) /\ 0 \in DOMAIN line /\ line[0] = current
  BY LineFacts DEF Mine, Early, EarlyNames
<1>2. t \in submitted
  <2> SUFFICES ASSUME t \notin submitted PROVE FALSE
    OBVIOUS
  <2> 0 \in DOMAIN line \ {-1}
    BY <1>1
  <2> QED BY <1>1 DEF TaskOK, NewOK, Alone
<1> QED BY <1>1, <1>2 DEF TaskOK, EarlyOK

LEMMA InterpretStep ==
  ASSUME TypeOK, TypeOK', NEW t \in Tasks, TaskOK(t), current.task = t,
         HandleNewTask \/ ProcessIntent \/ ValidateAndRoute \/ MapIntent
  PROVE  TaskOK(t)'
<1>1. /\ current \in Event /\ current # NoEvent /\ current' = NoEvent /\ current.name \in EarlyNames
      /\ current.name \in {"request_intent_parsing", "intent_parsed", "intent_validated"}
           \/ HandleNewTask
  BY CurrentIsEvent DEF TypeOK, HandleNewTask, ProcessIntent, ValidateAndRoute, MapIntent,
     Handling, EarlyNames
<1>2. Fresh(t) /\ t \notin planQueue /\ Alone(t, 0) /\ t \in submitted
      /\ (current.name # "user_input_received" => t \in active)
  BY <1>1, EarlyAlone
<1>3. t \in active' /\ submitted' = submitted /\ planQueue' = planQueue
  BY <1>1, <1>2 DEF HandleNewTask, ProcessIntent, ValidateAndRoute, MapIntent, orchVars, userVars
<1>4. Same(t)
  BY <1>2 DEF Same, HandleNewTask, ProcessIntent, ValidateAndRoute, MapIntent,
     orchVars, gateVars, confVars, execVars, userVars, Fresh, Calm
<1>5. ASSUME NEW n \in Names, NEW src \in Sources, Publish(<<Ev(n, t, src, "plain")>>),
             n \in EarlyNames \/ (n = "confirmation_required" /\ src = "system")
      PROVE  TaskOK(t)'
  <2>1. Ev(n, t, src, "plain") \in Event
    BY EvType DEF Args
  <2>2. normal' = normal \o <<Ev(n, t, src, "plain")>>
    BY <1>5 DEF Publish
  <2> QED BY <1>1, <1>2, <1>3, <1>4, <1>5, <2>1, <2>2, SoloStep
<1>6. normal' = normal => TaskOK(t)'
  BY <1>1, <1>2, <1>3, <1>4, SoloStep
<1>7. /\ {"request_intent_parsing", "intent_parsed", "intent_validated",
          "capability_mapped"} \subseteq Names \cap EarlyNames
      /\ "confirmation_required" \in Names
      /\ {"orchestrator", "llm_client", "system", "capability_mapper"} \subseteq Sources
  BY DEF Names, Sources, EarlyNames
<1> HIDE DEF Names, Sources, EarlyNames
<1>8. CASE HandleNewTask
  BY <1>5, <1>7, <1>8 DEF HandleNewTask
<1>9. CASE ProcessIntent
  BY <1>5, <1>6, <1>7, <1>9 DEF ProcessIntent, Raise
<1>10. CASE ValidateAndRoute
  BY <1>5, <1>6, <1>7, <1>10 DEF ValidateAndRoute, Raise
<1>11. CASE MapIntent
  BY <1>5, <1>6, <1>7, <1>11 DEF MapIntent, Silent
<1> QED BY <1>8, <1>9, <1>10, <1>11

\* The mapped capability puts the task before the gates and before the planner.
LEMMA MappedStep ==
  ASSUME TypeOK, TypeOK', NEW t \in Tasks, TaskOK(t), current.task = t, OnCapabilityMapped
  PROVE  TaskOK(t)'
<1>1. /\ current \in Event /\ current # NoEvent /\ current' = NoEvent
      /\ current.name = "capability_mapped"
  BY CurrentIsEvent DEF TypeOK, OnCapabilityMapped, Handling
<1>2. Fresh(t) /\ Alone(t, 0) /\ t \in submitted /\ t \in active
  BY <1>1, EarlyAlone DEF EarlyNames
<1>3. PICK arg \in {"decided", "plain"} :
        normal' = normal \o <<Ev("task_dispatched", t, "orchestrator", arg)>>
  BY <1>2 DEF OnCapabilityMapped, Publish
<1> DEFINE e == Ev("task_dispatched", t, "orchestrator", arg)
           k == Len(normal) + 1
<1>4. e \in Event /\ e.name = "task_dispatched" /\ e.task = t /\ e.src = "orchestrator"
  BY EvType DEF Ev, Names, Sources, Args
<1> HIDE DEF e
<1>5. /\ DOMAIN line' = DOMAIN line \union {k} /\ line'[k] = e /\ line'[0] = NoEvent
      /\ \A i \in DOMAIN line \ {0} : line'[i] = line[i]
  BY <1>1, <1>3, <1>4, Joining DEF e
<1>6. \A i \in DOMAIN line' \ {k} : ~Mine(line'[i], t)
  BY <1>2, <1>5 DEF Alone, Mine
<1>7. First(line'[k], t) /\ ~Late(line'[k], t) /\ k \in DOMAIN line'
  BY <1>4, <1>5, NoEventAssumption DEF First, Late, Mine
<1>8. UNCHANGED <<started, prompts, allowed, checkTimers, pending, dispatchedSafe, gateVars,
                  active, submitted, decidedRuns, waterfallRuns>>
  BY DEF OnCapabilityMapped, orchVars, gateVars, confVars, execVars, userVars
<1> HIDE DEF k
<1>9. Fresh(t)'
  <2>1. \A i \in DOMAIN line' : ~Spends(line'[i], t)
    BY <1>6, <1>7 DEF Spends, First
  <2> QED BY <1>2, <1>8, <2>1 DEF Fresh, Calm, Idle, gateVars
<1>10. decidedRuns'[t] = 0 /\ waterfallRuns'[t] = 0
  <2>1. started[t] = 0 /\ decidedRuns[t] \in Nat /\ waterfallRuns[t] \in Nat
    BY <1>2 DEF Fresh, Calm, Idle, TypeOK, ExecOK
  <2> QED BY <1>8, <2>1 DEF TaskOK, SpendOK
<1>11. FirstOK(t)'
  BY <1>2, <1>6, <1>8, <1>9 DEF FirstOK, First
<1>12. PlannedOK(t)' /\ LateOK(t)'
  BY <1>1, <1>6, <1>7 DEF PlannedOK, LateOK, Late
<1> QED BY <1>2, <1>7, <1>8, <1>10, <1>11, <1>12, Waiting

\* The decision engine hands the task to the planner.
LEMMA PlannedStep ==
  ASSUME TypeOK, TypeOK', NEW t \in Tasks, TaskOK(t), ProcessQueue
  PROVE  TaskOK(t)'
<1>1. PICK u \in planQueue : /\ planQueue' = planQueue \ {u}
                             /\ normal' = normal \o <<Ev("request_planning", u, "decision_engine", "plain")>>
  BY DEF ProcessQueue, Publish
<1> DEFINE e == Ev("request_planning", u, "decision_engine", "plain")
           k == Len(normal) + 1
<1>2. e \in Event /\ e.name = "request_planning" /\ e.task = u
  BY <1>1, EvType DEF Ev, Names, Sources, Args, TypeOK
<1> HIDE DEF e
<1>3. Same(t) /\ current' = current
  BY DEF ProcessQueue, Same, orchVars, gateVars, confVars, execVars, userVars
<1>4. CASE u # t
  <2>1. Steady(t)
    BY <1>1, <1>2, <1>3, <1>4, SteadyStep DEF Mine, e
  <2> QED BY <1>1, <1>3, <1>4, <2>1, SteadyTask DEF PlannedOK, TaskOK
<1>5. CASE u = t
  <2>1. /\ DOMAIN line' = DOMAIN line \union {k} /\ line'[k] = e /\ k \notin DOMAIN line
        /\ DOMAIN line = 0 .. Len(normal) /\ Len(normal) \in Nat
        /\ \A i \in DOMAIN line : line'[i] = line[i]
    <3>1. normal' = normal \o <<e>>
      BY <1>1, <1>5 DEF e
    <3>2. /\ DOMAIN line' = DOMAIN line \union {Len(normal) + 1}
          /\ DOMAIN line = 0 .. Len(normal) /\ Len(normal) \in Nat
          /\ \A i \in DOMAIN line \ {0} : line'[i] = line[i]
          /\ line'[Len(normal) + 1] = e
          /\ line[0] = current /\ line'[0] = current'
      BY <1>2, <3>1, Joining
    <3> HIDE DEF line
    <3> QED BY <1>3, <3>2
  <2>2. current = NoEvent /\ \A i \in DOMAIN line : ~Late(line[i], t)
    BY <1>1, <1>5 DEF TaskOK, PlannedOK
  <2>3. PICK i \in DOMAIN line : First(line[i], t)
    BY <1>1, <1>5 DEF TaskOK, PlannedOK
  <2>4. Fresh(t) /\ t \in active /\ \A j \in DOMAIN line \ {i} : ~Mine(line[j], t)
    BY <2>2, <2>3 DEF TaskOK, FirstOK, Late
  <2>5. Late(e, t) /\ ~First(e, t) /\ ~Spends(e, t)
    BY <1>2, <1>5, NoEventAssumption DEF Late, Mine, First, Spends
  <2>6. t \in submitted
    BY <1>1, <1>5 DEF TaskOK, NewOK
  <2>7. First(line'[i], t) /\ i \in DOMAIN line' /\ k > i
    BY <2>1, <2>3
  <2> HIDE DEF k
  <2>8. \A j \in DOMAIN line' : First(line'[j], t) => j = i
    BY <2>1, <2>4, <2>5 DEF First
  <2>9. Fresh(t)'
    <3>1. \A j \in DOMAIN line' : ~Spends(line'[j], t)
      BY <2>1, <2>4, <2>5 DEF Fresh, Calm, Idle
    <3> QED BY <1>3, <2>4, <3>1 DEF Fresh, Calm, Idle, Same
  <2>10. FirstOK(t)'
    <3>1. \A j \in DOMAIN line' \ {i} :
            Mine(line'[j], t) => j > i /\ line'[j].name = "request_planning"
      BY <1>2, <2>1, <2>4, <2>7
    <3>2. t \in active'
      BY <1>3, <2>4 DEF Same
    <3> QED BY <2>8, <2>9, <3>1, <3>2 DEF FirstOK
  <2>11. PlannedOK(t)' /\ LateOK(t)'
    BY <1>1, <1>5, <2>1, <2>2, <2>7 DEF PlannedOK, LateOK
  <2>12. decidedRuns'[t] = 0 /\ waterfallRuns'[t] = 0
    <3>1. started[t] = 0 /\ decidedRuns[t] \in Nat /\ waterfallRuns[t] \in Nat
      BY <2>4 DEF Fresh, Calm, Idle, TypeOK, ExecOK
    <3> QED BY <1>3, <3>1 DEF TaskOK, SpendOK, Same
  <2>13. t \in submitted'
    BY <1>3, <2>6 DEF Same
  <2> QED BY <2>7, <2>10, <2>11, <2>12, <2>13, Waiting
<1> QED BY <1>4, <1>5

\* The planner's copy of the task at hand: the gates have judged the task.
LEMMA LateAtHand ==
  ASSUME TypeOK, NEW t \in Tasks, TaskOK(t), Late(current, t)
  PROVE  /\ judged[t] # 0 /\ t \in submitted /\ t \notin planQueue
         /\ \A i \in DOMAIN line : ~First(line[i], t) /\ ~Early(line[i], t)
         /\ \A i \in DOMAIN line \ {0} : ~Late(line[i], t)
<1>1. /\ 0 \in DOMAIN line /\ line[0] = current /\ Late(line[0], t) /\ Mine(line[0], t)
      /\ \A i \in DOMAIN line : ~(0 > i)
  BY LineFacts DEF Late
<1>2. ~First(line[0], t) /\ ~Early(line[0], t) /\ current # NoEvent
  BY <1>1 DEF Late, First, Early, EarlyNames, Mine
<1>3. \A i \in DOMAIN line : ~First(line[i], t)
  BY <1>1, <1>2 DEF TaskOK, FirstOK
<1>4. \A i \in DOMAIN line : ~Early(line[i], t)
  BY <1>1, <1>2 DEF TaskOK, EarlyOK, Alone
<1>5. t \in submitted
  <2>1. 0 \in DOMAIN line \ {-1}
    BY <1>1
  <2> QED BY <1>1, <2>1 DEF TaskOK, NewOK, Alone
<1>6. t \notin planQueue
  BY <1>2 DEF TaskOK, PlannedOK
<1>7. judged[t] # 0 /\ \A i \in DOMAIN line \ {0} : ~Late(line[i], t)
  BY <1>1, <1>3 DEF TaskOK, LateOK
<1> QED BY <1>3, <1>4, <1>5, <1>6, <1>7

LEMMA LateStep ==
  ASSUME TypeOK, TypeOK', NEW t \in Tasks, TaskOK(t), Late(current, t), current' = NoEvent,
         Same(t), t \notin planQueue',
         normal' = normal \/ \E e \in Event : normal' = normal \o <<e>> /\ (Mine(e, t) => Late(e, t))
  PROVE  TaskOK(t)'
<1>1. /\ t \in submitted /\ judged[t] # 0
      /\ \A i \in DOMAIN line : ~First(line[i], t) /\ ~Early(line[i], t)
      /\ \A i \in DOMAIN line \ {0} : ~Late(line[i], t)
      /\ 0 \in DOMAIN line /\ line[0] = current /\ Mine(line[0], t)
  BY LateAtHand, LineFacts DEF Late
<1>2. /\ \A i \in DOMAIN line' : Mine(line'[i], t) =>
           \/ i \in DOMAIN line \ {0} /\ line'[i] = line[i]
           \/ i = Len(normal) + 1 /\ Late(line'[i], t)
      /\ \A i \in DOMAIN line \ {0} : i \in DOMAIN line' /\ line'[i] = line[i]
      /\ line'[0] = NoEvent
  <2>1. CASE normal' = normal
    BY <2>1, Standing DEF Mine
  <2>2. ASSUME NEW e \in Event, normal' = normal \o <<e>>, Mine(e, t) => Late(e, t)
        PROVE  /\ \A i \in DOMAIN line' : Mine(line'[i], t) =>
                    \/ i \in DOMAIN line \ {0} /\ line'[i] = line[i]
                    \/ i = Len(normal) + 1 /\ Late(line'[i], t)
               /\ \A i \in DOMAIN line \ {0} : i \in DOMAIN line' /\ line'[i] = line[i]
               /\ line'[0] = NoEvent
    <3> HIDE DEF line
    <3> QED BY <2>2, Joining DEF Mine
  <2> QED BY <2>1, <2>2
<1>3. \A e : /\ Early(e, t) \/ First(e, t) \/ Says(e, t) \/ Reply(e, t) \/ Spends(e, t) \/ Done(e, t)
                 => Mine(e, t) /\ ~Late(e, t)
             /\ Late(e, t) => Mine(e, t)
  BY DEF Early, EarlyNames, First, Late, Says, Asks, Clears, Reply, Spends, Done, Mine
<1>4. /\ \A i \in DOMAIN line' : ~Early(line'[i], t) /\ ~First(line'[i], t)
      /\ \A i \in DOMAIN line' : Late(line'[i], t) => i = Len(normal) + 1
  BY <1>1, <1>2, <1>3
<1>5. /\ \A j \in DOMAIN line' :
           Says(line'[j], t) \/ Reply(line'[j], t) \/ Spends(line'[j], t) \/ Done(line'[j], t) =>
             j \in DOMAIN line /\ line'[j] = line[j]
      /\ \A j \in DOMAIN line : Says(line[j], t) => j \in DOMAIN line' /\ line'[j] = line[j]
  BY <1>1, <1>2, <1>3
<1>6. NewOK(t)' /\ EarlyOK(t)' /\ FirstOK(t)' /\ PlannedOK(t)' /\ LateOK(t)'
  BY <1>1, <1>4 DEF NewOK, EarlyOK, FirstOK, PlannedOK, LateOK, Same
<1>7. SaidOK(t)'
  <2>1. \A i \in DOMAIN line : ~ParserSays(t, i)
    BY <1>1, <1>3 DEF ParserSays, Alone, Says
  <2> QED BY <1>5, <2>1, SaidFrame DEF TaskOK
<1>8. Idle(t) => Idle(t)'
  BY <1>5 DEF Idle, Same
<1>9. ReplyOK(t)' /\ DeskOK(t)' /\ TimersOK(t)' /\ SpendOK(t)'
  BY <1>5, <1>8 DEF ReplyOK, DeskOK, TimersOK, SpendOK, TaskOK, Same
<1>10. HighOK(t)'
  BY <1>5, <1>8 DEF HighOK, High, TaskOK, Same
<1>11. MarkOK(t)'
  <2>1. High(t)' => High(t)
    BY DEF High, Same
  <2>2. judged[t] = 1 /\ Marked(t) => Marked(t)'
    BY DEF Marked, Same
  <2>3. ASSUME NEW i \in DOMAIN line, Asks(line[i], t), \A j \in DOMAIN line : Dispatch(line[j], t) => j > i
        PROVE  /\ i \in DOMAIN line' /\ Asks(line'[i], t)
               /\ \A j \in DOMAIN line' : Dispatch(line'[j], t) => j > i
    <3>1. i \in DOMAIN line' /\ Asks(line'[i], t)
      BY <1>5, <2>3 DEF Says
    <3>2. \A j \in DOMAIN line' : Dispatch(line'[j], t) => j = Len(normal) + 1
      BY <1>4 DEF Dispatch
    <3>3. i < Len(normal) + 1
      BY LineFacts
    <3> QED BY <3>1, <3>2, <3>3
  <2>4. MarkOK(t) /\ judged'[t] = judged[t]
    BY DEF TaskOK, Same
  <2> HIDE DEF line, High, Marked, Dispatch, Asks
  <2> QED BY <2>1, <2>2, <2>3, <2>4 DEF MarkOK
<1> QED BY <1>6, <1>7, <1>9, <1>10, <1>11 DEF TaskOK

LEMMA PlanStep ==
  ASSUME TypeOK, TypeOK', NEW t \in Tasks, TaskOK(t), current.task = t, CreatePlan
  PROVE  TaskOK(t)'
<1>1. current # NoEvent /\ current' = NoEvent /\ current.name = "request_planning"
  BY DEF CreatePlan, Handling
<1>2. Late(current, t)
  BY <1>1 DEF Late, Mine
<1>3. Same(t) /\ planQueue' = planQueue
  BY DEF CreatePlan, Same, orchVars, gateVars, confVars, execVars, userVars
<1>4. normal' = normal \/ \E e \in Event : normal' = normal \o <<e>> /\ (Mine(e, t) => Late(e, t))
  <2> DEFINE e == Ev("task_dispatched", t, "planner", "plain")
  <2>1. e \in Event /\ e.name = "task_dispatched" /\ e.src = "planner"
    BY EvType DEF Ev, Names, Sources, Args
  <2>2. normal' = normal \/ normal' = normal \o <<e>>
    BY DEF CreatePlan, Publish, Raise
  <2> HIDE DEF e
  <2> QED BY <2>1, <2>2 DEF Late
<1> QED BY <1>1, <1>2, <1>3, <1>4, LateAtHand, LateStep

\* A gate that ignores a dispatch remembers the task.
LEMMA Judges ==
  ASSUME TypeOK, current \in Event
  PROVE  /\ ValidatorVerdict(current) = "ignore" => current.task \in validatorSeen
         /\ GuardVerdict(current) = "ignore" => current.task \in guardSeen
<1>1. kind[current.task] \in DOMAIN Profile
  BY KindsAssumption DEF TypeOK, UserOK, Event
<1>2. \A k \in DOMAIN Profile : /\ Profile[k].validator # "ignore" /\ Profile[k].guard # "ignore"
                               /\ Profile[k].guardOnPlan # "ignore"
  BY DEF Profile, P
<1> QED BY <1>1, <1>2 DEF ValidatorVerdict, GuardVerdict

\* The gates speak of the orchestrator's dispatch, the validator first.
LEMMA GatesSpeak ==
  ASSUME TypeOK, TypeOK', NEW t \in Tasks, TaskOK(t), OnTaskDispatched, First(current, t)
  PROVE  TaskOK(t)'
<1> DEFINE V == Profile[kind[t]].validator
           G == Profile[kind[t]].guard
           a == Answer(V, current, "safety_validator")
           b == Answer(G, current, "permission_guard")
           n == Len(normal)
<1>1. current.task = t /\ current.src = "orchestrator" /\ current # NoEvent
  BY DEF First, Mine
<1>2. 0 \in DOMAIN line /\ line[0] = current /\ First(line[0], t) /\ Mine(line[0], t)
  BY LineFacts DEF First
<1>3. /\ Fresh(t) /\ t \in active
      /\ \A j \in DOMAIN line \ {0} : Mine(line[j], t) => Late(line[j], t) /\ ~Dispatch(line[j], t)
  BY <1>2 DEF TaskOK, FirstOK, Late, Dispatch
<1>4. ValidatorVerdict(current) = V /\ GuardVerdict(current) = G
  BY <1>1, <1>3 DEF ValidatorVerdict, GuardVerdict, Fresh
<1> HIDE DEF V, G
<1>5. /\ current \in Event /\ current' = NoEvent /\ Len(a) \in {0, 1} /\ Len(b) \in {0, 1}
      /\ DOMAIN line = 0 .. n /\ n \in Nat
      /\ DOMAIN line' = 0 .. n + Len(a) + Len(b)
      /\ \A i \in 1 .. n : line'[i] = line[i]
      /\ Len(a) = 1 => line'[n + 1] = a[1]
      /\ Len(b) = 1 => line'[n + Len(a) + 1] = b[1]
      /\ line'[0] = NoEvent
  BY <1>4, GatesLine
<1>6. /\ V = "clear" \/ V = "high" <=> Len(a) = 1
      /\ G = "clear" \/ G = "high" <=> Len(b) = 1
      /\ Len(a) = 1 => /\ a[1].task = t /\ a[1].src = "safety_validator" /\ a[1] \in Event
                       /\ V = "clear" => a[1].name = "task_safety_cleared"
                       /\ V = "high" => a[1].name = "confirmation_required"
      /\ Len(b) = 1 => /\ b[1].task = t /\ b[1].src = "permission_guard" /\ b[1] \in Event
                       /\ G = "clear" => b[1].name = "task_safety_cleared"
                       /\ G = "high" => b[1].name = "confirmation_required"
  BY <1>1, <1>5, OneAnswer
<1> DEFINE x == Len(a)
           y == Len(b)
           p == n + 1
           q == n + x + 1
<1>7. /\ x = 1 => /\ Says(a[1], t) /\ ~Late(a[1], t)
                  /\ Asks(a[1], t) <=> V = "high"
                  /\ Clears(a[1], t) <=> V = "clear"
      /\ y = 1 => /\ Says(b[1], t) /\ ~Late(b[1], t)
                  /\ Asks(b[1], t) <=> G = "high"
                  /\ Clears(b[1], t) <=> G = "clear"
  BY <1>6, NoEventAssumption DEF Says, Asks, Clears, Mine, Late
<1>8. /\ x = 1 => a[1].src = "safety_validator"
      /\ y = 1 => b[1].src = "permission_guard"
  BY <1>6
<1> HIDE DEF a, b, n
<1>9. /\ x = 1 => p \in DOMAIN line' /\ line'[p] = a[1]
      /\ y = 1 => q \in DOMAIN line' /\ line'[q] = b[1]
      /\ \A i \in DOMAIN line' : Mine(line'[i], t) =>
           \/ /\ i \in DOMAIN line \ {0} /\ line'[i] = line[i]
              /\ Late(line'[i], t) /\ ~Dispatch(line'[i], t)
           \/ x = 1 /\ i = p
           \/ y = 1 /\ i = q
  <2>1. /\ x = 1 => p \in DOMAIN line' /\ line'[p] = a[1]
        /\ y = 1 => q \in DOMAIN line' /\ line'[q] = b[1]
    BY <1>5
  <2>2. ASSUME NEW i \in DOMAIN line', Mine(line'[i], t), ~(x = 1 /\ i = p), ~(y = 1 /\ i = q)
        PROVE  /\ i \in DOMAIN line \ {0} /\ line'[i] = line[i]
               /\ Late(line'[i], t) /\ ~Dispatch(line'[i], t)
    <3>1. i # 0
      BY <1>5, <2>2 DEF Mine
    <3>2. i \in 1 .. n
      BY <1>5, <2>2, <3>1
    <3> QED BY <1>3, <1>5, <2>2, <3>2
  <2> QED BY <2>1, <2>2
<1>10. /\ \A e : Says(e, t) => ~Early(e, t) /\ ~First(e, t) /\ ~Late(e, t) /\ ~Reply(e, t)
                              /\ ~Spends(e, t) /\ ~Done(e, t) /\ Mine(e, t)
       /\ \A e : Late(e, t) => ~Early(e, t) /\ ~First(e, t) /\ ~Says(e, t) /\ ~Reply(e, t)
                               /\ ~Spends(e, t) /\ ~Done(e, t) /\ Mine(e, t)
       /\ \A e : Early(e, t) \/ First(e, t) \/ Reply(e, t) \/ Spends(e, t) \/ Done(e, t) => Mine(e, t)
  BY DEF Early, EarlyNames, First, Late, Says, Asks, Clears, Reply, Spends, Done, Mine
<1>11. /\ p \in Nat /\ q \in Nat /\ (x = 1 => q = p + 1) /\ (x = 0 => q = p) /\ x \in {0, 1}
       /\ p > 0 /\ q > 0 /\ y \in {0, 1}
  <2>1. n \in Nat /\ x \in {0, 1} /\ y \in {0, 1}
    BY <1>5
  <2> HIDE DEF x, y
  <2> QED BY <2>1
<1> HIDE DEF x, y, p, q
<1>12. /\ \A i \in DOMAIN line' : /\ ~Early(line'[i], t) /\ ~First(line'[i], t) /\ ~Reply(line'[i], t)
                                  /\ ~Spends(line'[i], t) /\ ~Done(line'[i], t)
       /\ \A i \in DOMAIN line' : Late(line'[i], t) => i \in DOMAIN line /\ line'[i] = line[i]
       /\ \A i \in DOMAIN line' : ~Dispatch(line'[i], t)
       /\ \A i \in DOMAIN line' : Says(line'[i], t) => (x = 1 /\ i = p) \/ (y = 1 /\ i = q)
  BY <1>7, <1>9, <1>10 DEF Dispatch
<1>13. /\ UNCHANGED <<started, prompts, allowed, checkTimers, pending, dispatchedSafe, active,
                      submitted, decidedRuns, waterfallRuns, planQueue, kind>>
       /\ judged'[t] = 1
  <2>1. UNCHANGED <<started, prompts, allowed, checkTimers, pending, dispatchedSafe, active,
                    submitted, decidedRuns, waterfallRuns, planQueue, kind>>
    BY DEF OnTaskDispatched, orchVars, confVars, execVars, userVars
  <2>2. V # "ignore"
    BY <1>1, <1>3, <1>4, <1>5, Judges DEF Fresh
  <2>3. judged' = [judged EXCEPT ![t] = @ + 1]
    BY <1>1, <1>4, <2>2 DEF OnTaskDispatched
  <2>4. judged[t] = 0 /\ judged \in [Tasks -> Nat]
    BY <1>3 DEF Fresh, TypeOK, GateOK
  <2> QED BY <2>1, <2>3, <2>4
<1>14. Calm(t)' /\ Idle(t)'
  BY <1>3, <1>12, <1>13 DEF Fresh, Calm, Idle
<1>15. t \in submitted' /\ t \notin planQueue'
  <2>1. t \in submitted
    <3>1. 0 \in DOMAIN line \ {-1}
      BY <1>2
    <3> QED BY <1>2, <3>1 DEF TaskOK, NewOK, Alone
  <2>2. t \notin planQueue
    BY <1>1 DEF TaskOK, PlannedOK
  <2> QED BY <1>13, <2>1, <2>2
<1>16. NewOK(t)' /\ EarlyOK(t)' /\ FirstOK(t)' /\ PlannedOK(t)' /\ ReplyOK(t)'
  BY <1>12, <1>15 DEF NewOK, EarlyOK, FirstOK, PlannedOK, ReplyOK
<1>17. LateOK(t)'
  BY <1>12, <1>13 DEF LateOK, TaskOK
<1>18. DeskOK(t)' /\ TimersOK(t)' /\ HighOK(t)'
  BY <1>14 DEF DeskOK, TimersOK, HighOK, Calm
<1>19. SpendOK(t)'
  BY <1>12, <1>13, <1>14 DEF SpendOK, TaskOK, Calm, Idle
<1>20. SaidOK(t)'
  <2> SUFFICES ASSUME NEW i \in DOMAIN line', Says(line'[i], t)
               PROVE  \/ line'[i].src = "safety_validator" /\ ValidatorSays(t, i)'
                      \/ line'[i].src = "permission_guard" /\ GuardSays(t, i)'
    BY <1>3, <1>12, <1>13 DEF SaidOK
  <2>1. Profile[kind'[t]].validator = V /\ Profile[kind'[t]].guard = G
    BY <1>13 DEF V, G
  <2>2. CASE x = 1 /\ i = p
    <3>1. line'[i] = a[1] /\ line'[i].src = "safety_validator"
      BY <1>8, <1>9, <2>2 DEF x
    <3>2. Unsaid(t, i, i + 1, "permission_guard")'
      BY <1>8, <1>9, <1>11, <1>12, <2>2 DEF Unsaid
    <3>3. G = "high" => i + 1 \in DOMAIN line' /\ Says(line'[i + 1], t)
      <4>1. G = "high" => y = 1
        BY <1>6 DEF y
      <4> QED BY <4>1, <1>7, <1>9, <1>11, <2>2
    <3> QED BY <1>7, <1>14, <2>1, <2>2, <3>1, <3>2, <3>3 DEF ValidatorSays
  <2>3. CASE y = 1 /\ i = q
    <3>1. line'[i] = b[1] /\ line'[i].src = "permission_guard"
      BY <1>8, <1>9, <2>3 DEF y
    <3>2. Unsaid(t, i, i - 1, "safety_validator")'
      <4>1. x = 1 => p = i - 1
        BY <1>11, <2>3
      <4> QED BY <4>1, <1>8, <1>9, <1>12, <2>3 DEF Unsaid
    <3>3. V = "high" => i > 0 /\ Says(line'[i - 1], t)
      <4>1. V = "high" => x = 1
        BY <1>6 DEF x
      <4>2. x = 1 => i - 1 = p
        BY <1>11, <2>3
      <4> QED BY <4>1, <4>2, <1>7, <1>9, <1>11, <2>3
    <3> QED BY <1>7, <1>14, <2>1, <2>3, <3>1, <3>2, <3>3 DEF GuardSays
  <2> QED BY <1>12, <2>2, <2>3
<1>21. MarkOK(t)'
  <2>1. High(t)' => V = "high" \/ G = "high"
    BY <1>13 DEF High, V, G
  <2>2. V = "high" => p \in DOMAIN line' /\ Asks(line'[p], t)
    BY <1>6, <1>7, <1>9 DEF x
  <2>3. G = "high" => q \in DOMAIN line' /\ Asks(line'[q], t)
    BY <1>6, <1>7, <1>9 DEF y
  <2> HIDE DEF High, Asks, Dispatch
  <2> QED BY <1>12, <2>1, <2>2, <2>3 DEF MarkOK
<1> QED BY <1>16, <1>17, <1>18, <1>19, <1>20, <1>21 DEF TaskOK

LEMMA GatesStep ==
  ASSUME TypeOK, TypeOK', NEW t \in Tasks, TaskOK(t), OnTaskDispatched, current.task = t,
         judged'[t] <= 1
  PROVE  TaskOK(t)'
<1>1. /\ current # NoEvent /\ current' = NoEvent /\ current \in Event
      /\ current.name = "task_dispatched" /\ Mine(current, t)
  BY CurrentIsEvent DEF OnTaskDispatched, Handling, Mine, TypeOK
<1>2. CASE current.src = "orchestrator"
  BY <1>1, <1>2, GatesSpeak DEF First
<1>3. CASE current.src # "orchestrator"
  <2>1. Late(current, t)
    BY <1>1, <1>3 DEF Late
  <2>2. judged[t] # 0 /\ judged \in [Tasks -> Nat] /\ t \notin planQueue
    BY <2>1, LateAtHand DEF TypeOK, GateOK
  <2>3. ValidatorVerdict(current) = "ignore" /\ GuardVerdict(current) = "ignore"
    <3>1. judged' # [judged EXCEPT ![t] = @ + 1]
      BY <2>2
    <3> QED BY <3>1 DEF OnTaskDispatched
  <2>4. normal' = (normal \o <<>>) \o <<>>
    BY <2>3 DEF OnTaskDispatched, Answer
  <2>5. normal' = normal
    BY <2>4 DEF TypeOK, BusOK
  <2>6. Same(t) /\ t \notin planQueue'
    <3>1. t \in validatorSeen /\ t \in guardSeen
      BY <1>1, <2>3, Judges
    <3> QED BY <2>2, <2>3, <3>1 DEF OnTaskDispatched, Same, orchVars, confVars, execVars, userVars
  <2> QED BY <1>1, <2>1, <2>5, <2>6, LateStep
<1> QED BY <1>2, <1>3

-----------------------------------------------------------------------------
(* Once the gates, or the parser, have spoken.                             *)

Begun(t) ==
  \/ prompts[t] > 0 \/ checkTimers[t] > 0 \/ started[t] > 0 \/ t \in dispatchedSafe
  \/ \E i \in DOMAIN line : \/ Says(line[i], t) \/ Reply(line[i], t)
                            \/ Spends(line[i], t) \/ Done(line[i], t)

\* Nothing of what comes before is left, but the planner's copy of the task.
LEMMA BegunFacts ==
  ASSUME TypeOK, NEW t \in Tasks, TaskOK(t), Begun(t)
  PROVE  /\ t \in submitted /\ t \notin planQueue
         /\ \A i \in DOMAIN line : ~Early(line[i], t) /\ ~First(line[i], t)
<1>1. \A e : Says(e, t) \/ Reply(e, t) \/ Spends(e, t) \/ Done(e, t) =>
        Mine(e, t) /\ ~Early(e, t) /\ ~First(e, t) /\ ~Late(e, t)
  BY DEF Early, EarlyNames, First, Late, Says, Asks, Clears, Reply, Spends, Done, Mine
<1>2. Calm(t) => \E i \in DOMAIN line : Says(line[i], t) \/ Reply(line[i], t) \/ Spends(line[i], t) \/ Done(line[i], t)
  BY DEF Begun, Calm, Idle, TypeOK, ConfOK, OrchOK, ExecOK
<1>3. DOMAIN line = 0 .. Len(normal) /\ Len(normal) \in Nat
  BY LineFacts
<1>4. t \in submitted
  <2> SUFFICES ASSUME t \notin submitted PROVE FALSE
    OBVIOUS
  <2>1. Calm(t) /\ \A i \in DOMAIN line : ~Mine(line[i], t)
    <3>1. -1 \notin DOMAIN line
      BY <1>3
    <3> QED BY <3>1 DEF TaskOK, NewOK, Fresh, Alone
  <2> QED BY <1>1, <1>2, <2>1
<1>5. ASSUME NEW i \in DOMAIN line, Early(line[i], t) PROVE FALSE
  <2>1. Calm(t) /\ \A j \in DOMAIN line \ {i} : ~Mine(line[j], t)
    BY <1>5 DEF TaskOK, EarlyOK, Fresh, Alone
  <2> QED BY <1>1, <1>2, <1>5, <2>1
<1>6. ASSUME NEW i \in DOMAIN line, First(line[i], t) PROVE FALSE
  <2>1. Calm(t) /\ \A j \in DOMAIN line \ {i} : Mine(line[j], t) => Late(line[j], t)
    BY <1>6 DEF TaskOK, FirstOK, Fresh, Late
  <2> QED BY <1>1, <1>2, <1>6, <2>1
<1>7. t \notin planQueue
  BY <1>6 DEF TaskOK, PlannedOK
<1> QED BY <1>4, <1>5, <1>6, <1>7

\* A step that adds nothing that comes before.
LEMMA Underway ==
  ASSUME TypeOK, TypeOK', NEW t \in Tasks, TaskOK(t), Begun(t),
         current' = NoEvent \/ current' = current,
         normal' = normal \/ \E e \in Event : normal' = normal \o <<e>> /\ ~Early(e, t) /\ ~First(e, t) /\ ~Late(e, t),
         planQueue' = planQueue, submitted' = submitted, judged' = judged
  PROVE  NewOK(t)' /\ EarlyOK(t)' /\ FirstOK(t)' /\ PlannedOK(t)' /\ LateOK(t)'
<1>1. /\ t \in submitted /\ t \notin planQueue
      /\ \A i \in DOMAIN line : ~Early(line[i], t) /\ ~First(line[i], t)
  BY BegunFacts
<1>2. \A i \in DOMAIN line' : Early(line'[i], t) \/ First(line'[i], t) \/ Late(line'[i], t) =>
        i \in DOMAIN line /\ line'[i] = line[i]
  <2>1. CASE normal' = normal
    BY <2>1, Standing DEF Early, First, Late, Mine
  <2>2. ASSUME NEW e \in Event, normal' = normal \o <<e>>, ~Early(e, t), ~First(e, t), ~Late(e, t)
        PROVE  \A i \in DOMAIN line' : Early(line'[i], t) \/ First(line'[i], t) \/ Late(line'[i], t) =>
                 i \in DOMAIN line /\ line'[i] = line[i]
    <3>1. /\ DOMAIN line' = DOMAIN line \union {Len(normal) + 1} /\ line'[Len(normal) + 1] = e
          /\ \A i \in DOMAIN line \ {0} : line'[i] = line[i]
          /\ line[0] = current /\ line'[0] = current'
      BY <2>2, Joining
    <3>2. ~Early(NoEvent, t) /\ ~First(NoEvent, t) /\ ~Late(NoEvent, t)
      BY DEF Early, First, Late, Mine
    <3> HIDE DEF line, Early, First, Late, Mine
    <3> QED BY <2>2, <3>1, <3>2
  <2> QED BY <2>1, <2>2
<1>3. \A i \in DOMAIN line' : ~Early(line'[i], t) /\ ~First(line'[i], t)
  BY <1>1, <1>2
<1>4. LateOK(t)'
  <2>1. \A i \in DOMAIN line : Late(line[i], t) =>
          /\ \A j \in DOMAIN line \ {i} : ~Late(line[j], t)
          /\ judged[t] # 0
    BY <1>1 DEF TaskOK, LateOK
  <2> QED BY <1>2, <2>1 DEF LateOK
<1> QED BY <1>1, <1>3, <1>4 DEF NewOK, EarlyOK, FirstOK, PlannedOK

\* A step that neither takes what a gate asks nor adds a dispatch.
LEMMA MarkFrame ==
  ASSUME TypeOK, TypeOK', NEW t \in Tasks, TaskOK(t),
         current' = current \/ (current' = NoEvent /\ ~Asks(current, t)),
         normal' = normal \/ \E e \in Event : normal' = normal \o <<e>> /\ ~Late(e, t),
         judged' = judged, kind' = kind, t \in active' => t \in active,
         record'[t].highRisk = record[t].highRisk
  PROVE  MarkOK(t)'
<1>1. MarkOK(t) /\ (High(t)' => High(t)) /\ (Marked(t) => Marked(t)')
  BY DEF TaskOK, High, Marked
<1>2. ASSUME NEW j \in DOMAIN line', Dispatch(line'[j], t) PROVE j \in DOMAIN line /\ line'[j] = line[j]
  <2>1. line'[j] # NoEvent /\ Late(line'[j], t)
    BY <1>2 DEF Dispatch, Late, Mine
  <2>2. CASE normal' = normal
    BY <2>1, <2>2, Standing
  <2>3. ASSUME NEW e \in Event, normal' = normal \o <<e>>, ~Late(e, t)
        PROVE  j \in DOMAIN line /\ line'[j] = line[j]
    <3>1. j # Len(normal) + 1
      BY <2>1, <2>3, Joining
    <3> QED BY <2>1, <2>3, <3>1, LineStep
  <2> QED BY <2>2, <2>3
<1>3. ASSUME NEW i \in DOMAIN line, Asks(line[i], t) PROVE i \in DOMAIN line' /\ line'[i] = line[i]
  <2>1. i \in DOMAIN line' /\ (line'[i] = line[i] \/ (i = 0 /\ line'[0] = NoEvent))
    BY LineStep
  <2>2. i = 0 => line[0] = current /\ line'[0] = current'
    BY LineStep
  <2> QED BY <1>3, <2>1, <2>2 DEF Asks, Mine
<1> HIDE DEF line, High, Marked, Asks, Dispatch
<1> QED BY <1>1, <1>2, <1>3 DEF MarkOK

\* What the task has in the line once the step took the event at hand and
\* published nothing about it.
LEMMA Taken ==
  ASSUME TypeOK, TypeOK', NEW t \in Tasks, current' = NoEvent, normal' = normal
  PROVE  /\ DOMAIN line' = DOMAIN line /\ 0 \in DOMAIN line /\ line[0] = current
         /\ \A i \in DOMAIN line' : Mine(line'[i], t) => i # 0 /\ line'[i] = line[i]
         /\ \A i \in DOMAIN line : i # 0 => line'[i] = line[i]
BY Standing DEF Mine

\* The validator's word is taken: the guard's, if there is one, is the next.
LEMMA GuardIsNext ==
  ASSUME TypeOK, TypeOK', NEW t \in Tasks, TaskOK(t), Says(line[0], t),
         line[0].src = "safety_validator", current' = NoEvent, normal' = normal,
         kind'[t] = kind[t], t \in active', Halfway(t)'
  PROVE  /\ SaidOK(t)'
         /\ Profile[kind[t]].guard = "high" =>
              \E i \in DOMAIN line' : Says(line'[i], t) /\ line'[i].src = "permission_guard"
<1>1. /\ DOMAIN line' = DOMAIN line /\ 0 \in DOMAIN line
      /\ \A i \in DOMAIN line' : Mine(line'[i], t) => i # 0 /\ line'[i] = line[i]
      /\ \A i \in DOMAIN line : i # 0 => line'[i] = line[i]
  BY Taken
<1>2. ValidatorSays(t, 0) /\ \A j \in DOMAIN line : ~Reply(line[j], t)
  BY <1>1 DEF TaskOK, SaidOK
<1>3. /\ \A k \in DOMAIN line \ {0} : Says(line[k], t) => k = 1 /\ line[k].src = "permission_guard"
      /\ Profile[kind[t]].guard = "high" => 1 \in DOMAIN line /\ Says(line[1], t)
  BY <1>2 DEF ValidatorSays, Unsaid
<1>4. \A e : Says(e, t) \/ Reply(e, t) => Mine(e, t)
  BY DEF Says, Asks, Clears, Reply
<1>5. \A i \in DOMAIN line' : Says(line'[i], t) =>
        i = 1 /\ line'[i] = line[1] /\ Says(line[1], t) /\ line[1].src = "permission_guard" /\ 1 \in DOMAIN line
  BY <1>1, <1>3, <1>4
<1>6. ASSUME 1 \in DOMAIN line, Says(line[1], t), line[1].src = "permission_guard"
      PROVE  GuardSays(t, 1)'
  <2>1. GuardSays(t, 1)
    BY <1>6 DEF TaskOK, SaidOK
  <2>2. /\ Asks(line'[1], t) => Profile[kind'[t]].guard = "high"
        /\ Clears(line'[1], t) => Profile[kind'[t]].guard = "clear"
    BY <1>1, <1>6, <2>1 DEF GuardSays
  <2>3. Unsaid(t, 1, 1 - 1, "safety_validator")'
    BY <1>5 DEF Unsaid
  <2>4. 1 # 0 => 1 = 1 /\ (current' = NoEvent \/ current'.name = "task_failed")
    OBVIOUS
  <2> QED BY <2>2, <2>3, <2>4 DEF GuardSays
<1>7. SaidOK(t)'
  BY <1>1, <1>2, <1>4, <1>5, <1>6 DEF SaidOK
<1>8. Profile[kind[t]].guard = "high" =>
        \E i \in DOMAIN line' : Says(line'[i], t) /\ line'[i].src = "permission_guard"
  BY <1>1, <1>3
<1> QED BY <1>7, <1>8

\* The guard's word, or the parser's, is taken: nothing more is said.
LEMMA LastWord ==
  ASSUME TypeOK, TypeOK', NEW t \in Tasks, TaskOK(t), Says(line[0], t),
         line[0].src # "safety_validator", current' = NoEvent, normal' = normal
  PROVE  \A i \in DOMAIN line' : ~Says(line'[i], t)
<1>1. /\ DOMAIN line' = DOMAIN line /\ 0 \in DOMAIN line
      /\ \A i \in DOMAIN line' : Mine(line'[i], t) => i # 0 /\ line'[i] = line[i]
  BY Taken
<1>2. \A e : Says(e, t) => Mine(e, t)
  BY DEF Says, Asks, Clears
<1>3. ParserSays(t, 0) \/ GuardSays(t, 0)
  BY <1>1 DEF TaskOK, SaidOK
<1>4. 0 - 1 \notin DOMAIN line
  BY LineFacts
<1>5. \A k \in DOMAIN line \ {0} : ~Says(line[k], t)
  BY <1>2, <1>3, <1>4 DEF ParserSays, Alone, GuardSays, Unsaid
<1> QED BY <1>1, <1>2, <1>5

\* The human is asked about the task.
LEMMA AskedStep ==
  ASSUME TypeOK, TypeOK', NEW t \in Tasks, TaskOK(t), current.task = t, OnConfirmationRequired
  PROVE  TaskOK(t)'
<1>1. /\ current # NoEvent /\ current' = NoEvent /\ normal' = normal
      /\ current.name = "confirmation_required"
  BY DEF OnConfirmationRequired, Handling, Silent
<1>2. /\ 0 \in DOMAIN line /\ line[0] = current /\ Asks(line[0], t) /\ Says(line[0], t)
      /\ ~Clears(line[0], t)
  BY <1>1, LineFacts DEF Says, Asks, Clears, Mine
<1>3. /\ t \in active /\ \A j \in DOMAIN line : ~Reply(line[j], t)
      /\ \/ line[0].src = "system" /\ ParserSays(t, 0)
         \/ line[0].src = "safety_validator" /\ ValidatorSays(t, 0)
         \/ line[0].src = "permission_guard" /\ GuardSays(t, 0)
  BY <1>2 DEF TaskOK, SaidOK
<1>4. Begun(t)
  BY <1>2 DEF Begun
<1>5. NewOK(t)' /\ EarlyOK(t)' /\ FirstOK(t)' /\ PlannedOK(t)' /\ LateOK(t)'
  BY <1>1, <1>4, Underway DEF OnConfirmationRequired, gateVars, userVars
<1>6. /\ prompts[t] \in Nat /\ t \in pending' /\ record'[t].highRisk /\ t \in active'
      /\ prompts'[t] = IF t \in pending THEN prompts[t] ELSE prompts[t] + 1
      /\ UNCHANGED <<started, allowed, checkTimers, decidedRuns, waterfallRuns, dispatchedSafe, kind>>
  BY <1>1, <1>3 DEF OnConfirmationRequired, Held, TypeOK, ConfOK, OrchOK, Records, execVars, userVars
<1>7. /\ DOMAIN line' = DOMAIN line
      /\ \A i \in DOMAIN line' : Mine(line'[i], t) => i # 0 /\ line'[i] = line[i]
  BY <1>1, Taken
<1>8. \A e : Says(e, t) \/ Reply(e, t) \/ Spends(e, t) \/ Done(e, t) => Mine(e, t)
  BY DEF Says, Asks, Clears, Reply, Spends, Done
<1>9. Idle(t) => Idle(t)'
  BY <1>6, <1>7, <1>8 DEF Idle
<1>10. /\ prompts'[t] = 1 /\ allowed'[t] = 0 /\ Idle(t)'
       /\ line[0].src = "safety_validator" => Calm(t) /\ Profile[kind[t]].validator = "high"
  <2>1. CASE Calm(t)
    BY <1>2, <1>3, <1>6, <1>9, <2>1 DEF Calm, ValidatorSays
  <2>2. CASE Halfway(t) /\ line[0].src = "permission_guard"
    BY <1>6, <1>9, <2>2 DEF Halfway
  <2> QED BY <1>3, <2>1, <2>2, GuardCases DEF ParserSays, ValidatorSays
<1>11. SaidOK(t)'
  <2>1. CASE line[0].src = "safety_validator"
    <3>1. Halfway(t)'
      BY <1>6, <1>10, <2>1 DEF Halfway, Calm
    <3> QED BY <1>1, <1>2, <1>6, <2>1, <3>1, GuardIsNext
  <2>2. CASE line[0].src # "safety_validator"
    BY <1>1, <1>2, <2>2, LastWord DEF SaidOK
  <2> QED BY <2>1, <2>2
<1>12. ReplyOK(t)'
  BY <1>3, <1>7, <1>8 DEF ReplyOK
<1>13. DeskOK(t)' /\ TimersOK(t)' /\ HighOK(t)'
  BY <1>6, <1>10 DEF DeskOK, TimersOK, HighOK
<1>14. SpendOK(t)'
  BY <1>6, <1>7, <1>8, <1>10 DEF SpendOK, TaskOK, Idle
<1>15. MarkOK(t)'
  BY <1>6 DEF MarkOK, Marked
<1> QED BY <1>5, <1>11, <1>12, <1>13, <1>14, <1>15 DEF TaskOK

\* A gate clears the task: the 100 ms wait for the other begins.
LEMMA ClearedStep ==
  ASSUME TypeOK, TypeOK', NEW t \in Tasks, TaskOK(t), current.task = t, OnSafetyCleared,
         current.src # "confirmation_manager"
  PROVE  TaskOK(t)'
<1>1. /\ current # NoEvent /\ current' = NoEvent /\ current.name = "task_safety_cleared"
  BY DEF OnSafetyCleared, Handling
<1>2. /\ 0 \in DOMAIN line /\ line[0] = current /\ Clears(line[0], t) /\ Says(line[0], t)
      /\ ~Asks(line[0], t)
  BY <1>1, LineFacts DEF Says, Asks, Clears, Mine
<1>3. /\ t \in active /\ \A j \in DOMAIN line : ~Reply(line[j], t)
      /\ \/ line[0].src = "safety_validator" /\ ValidatorSays(t, 0)
         \/ line[0].src = "permission_guard" /\ GuardSays(t, 0)
  BY <1>2 DEF TaskOK, SaidOK, ParserSays
<1>4. \/ Calm(t) /\ line[0].src = "safety_validator" /\ Profile[kind[t]].validator = "clear"
      \/ /\ line[0].src = "permission_guard" /\ Profile[kind[t]].guard = "clear"
         /\ (Calm(t) /\ Profile[kind[t]].validator # "high") \/ Halfway(t)
  <2>1. GuardSays(t, 0) => (Calm(t) /\ Profile[kind[t]].validator # "high") \/ Halfway(t)
    BY GuardCases
  <2> QED BY <1>2, <1>3, <2>1 DEF ValidatorSays, GuardSays
<1>5. t \notin dispatchedSafe /\ allowed[t] = 0 /\ Idle(t)
  BY <1>4 DEF Calm, Halfway
<1>6. /\ normal' = normal /\ UNCHANGED dispatchedSafe
      /\ checkTimers' = [checkTimers EXCEPT ![t] = @ + 1]
      /\ record'[t].highRisk = record[t].highRisk
  BY <1>5 DEF OnSafetyCleared, FromHuman, Silent, TypeOK, OrchOK, Records
<1>7. /\ checkTimers[t] \in Nat /\ checkTimers'[t] = checkTimers[t] + 1 /\ t \in active'
      /\ UNCHANGED <<started, allowed, prompts, pending, decidedRuns, waterfallRuns, kind>>
  BY <1>3, <1>6 DEF OnSafetyCleared, TypeOK, OrchOK, confVars, execVars, userVars
<1>8. Begun(t)
  BY <1>2 DEF Begun
<1>9. NewOK(t)' /\ EarlyOK(t)' /\ FirstOK(t)' /\ PlannedOK(t)' /\ LateOK(t)'
  BY <1>1, <1>6, <1>8, Underway DEF OnSafetyCleared, gateVars, userVars
<1>10. /\ DOMAIN line' = DOMAIN line
       /\ \A i \in DOMAIN line' : Mine(line'[i], t) => i # 0 /\ line'[i] = line[i]
  BY <1>1, <1>6, Taken
<1>11. \A e : Says(e, t) \/ Reply(e, t) \/ Spends(e, t) \/ Done(e, t) => Mine(e, t)
  BY DEF Says, Asks, Clears, Reply, Spends, Done
<1>12. Idle(t)' /\ allowed'[t] = 0
  BY <1>5, <1>7, <1>10, <1>11 DEF Idle
<1>13. ReplyOK(t)'
  BY <1>3, <1>10, <1>11 DEF ReplyOK
<1>14. SpendOK(t)'
  BY <1>7, <1>10, <1>11, <1>12 DEF SpendOK, TaskOK, Idle
<1>15. prompts'[t] = 0 \/ (prompts'[t] = 1 /\ record'[t].highRisk)
  BY <1>4, <1>6, <1>7 DEF Calm, Halfway
<1>16. t \in pending' => prompts'[t] = 1
  BY <1>7 DEF TaskOK, DeskOK
<1>17. DeskOK(t)' /\ TimersOK(t)'
  BY <1>12, <1>15, <1>16 DEF DeskOK, TimersOK
<1>20. MarkOK(t)'
  BY <1>1, <1>2, <1>6, MarkFrame DEF OnSafetyCleared, gateVars, userVars
<1>18. CASE line[0].src = "safety_validator"
  <2>1. Halfway(t)'
    BY <1>4, <1>5, <1>6, <1>7, <1>12, <1>18 DEF Halfway, Calm
  <2>2. /\ SaidOK(t)'
        /\ Profile[kind[t]].guard = "high" =>
             \E i \in DOMAIN line' : Says(line'[i], t) /\ line'[i].src = "permission_guard"
    BY <1>1, <1>2, <1>6, <1>7, <1>18, <2>1, GuardIsNext
  <2>3. HighOK(t)'
    BY <1>4, <1>7, <1>12, <1>18, <2>2 DEF HighOK, High
  <2> QED BY <1>9, <1>13, <1>14, <1>17, <1>20, <2>2, <2>3 DEF TaskOK
<1>19. CASE line[0].src # "safety_validator"
  <2>1. SaidOK(t)'
    BY <1>1, <1>2, <1>6, <1>19, LastWord DEF SaidOK
  <2>2. High(t)' => prompts'[t] = 1
    BY <1>4, <1>7, <1>19 DEF High, Halfway
  <2>3. HighOK(t)'
    BY <1>12, <2>2 DEF HighOK
  <2> QED BY <1>9, <1>13, <1>14, <1>17, <1>20, <2>1, <2>3 DEF TaskOK
<1> QED BY <1>18, <1>19

\* Nothing is said of a task that is spent, or on its way to be.
LEMMA NothingSaid ==
  ASSUME NEW t \in Tasks, TaskOK(t), ~Idle(t)
  PROVE  /\ \A i \in DOMAIN line : ~Says(line[i], t)
         /\ High(t) => ~(checkTimers[t] > 0 /\ prompts[t] = 0) /\ allowed[t] # 0
         /\ prompts[t] > 0 => allowed[t] # 0
         /\ checkTimers[t] > 0 => t \in dispatchedSafe
<1>1. ASSUME NEW i \in DOMAIN line, Says(line[i], t) PROVE FALSE
  BY <1>1, GuardCases DEF TaskOK, SaidOK, ParserSays, ValidatorSays, Calm, Halfway
<1> QED BY <1>1 DEF TaskOK, HighOK, DeskOK, TimersOK

\* What the human allowed goes to the executor, once.
LEMMA SpentStep ==
  ASSUME TypeOK, TypeOK', NEW t \in Tasks, TaskOK(t), Spends(current, t), current' = NoEvent,
         UNCHANGED <<prompts, allowed, checkTimers, pending, kind, planQueue, submitted,
                     judged, active, started, decidedRuns, waterfallRuns>>,
         \A u \in Tasks : record'[u].highRisk = record[u].highRisk,
         t \in dispatchedSafe => t \in dispatchedSafe',
         \/ normal' = normal
         \/ t \in dispatchedSafe' /\ \E e \in Event : normal' = normal \o <<e>> /\ Spends(e, t)
  PROVE  TaskOK(t)'
<1>1. 0 \in DOMAIN line /\ line[0] = current /\ Spends(line[0], t) /\ ~Idle(t)
  BY LineFacts DEF Idle
<1>2. /\ \A i \in DOMAIN line : ~Says(line[i], t)
      /\ High(t) => ~(checkTimers[t] > 0 /\ prompts[t] = 0) /\ allowed[t] # 0
      /\ prompts[t] > 0 => allowed[t] # 0
      /\ checkTimers[t] > 0 => t \in dispatchedSafe
  BY <1>1, NothingSaid
<1>3. \A e : Spends(e, t) => ~Early(e, t) /\ ~First(e, t) /\ ~Late(e, t) /\ ~Says(e, t) /\ ~Reply(e, t) /\ ~Done(e, t)
  BY DEF Spends, Early, EarlyNames, First, Late, Says, Asks, Clears, Reply, Done
<1>4. /\ \A i \in DOMAIN line' : Mine(line'[i], t) =>
           (i \in DOMAIN line \ {0} /\ line'[i] = line[i]) \/ (i = Len(normal) + 1 /\ Spends(line'[i], t))
  <2>1. CASE normal' = normal
    BY <2>1, Taken
  <2>2. ASSUME NEW e \in Event, normal' = normal \o <<e>>, Spends(e, t), NEW i \in DOMAIN line', Mine(line'[i], t)
        PROVE  (i \in DOMAIN line \ {0} /\ line'[i] = line[i]) \/ (i = Len(normal) + 1 /\ Spends(line'[i], t))
    <3> HIDE DEF line
    <3> QED BY <2>2, Joining DEF Mine
  <2> QED BY <2>1, <2>2
<1>5. NewOK(t)' /\ EarlyOK(t)' /\ FirstOK(t)' /\ PlannedOK(t)' /\ LateOK(t)'
  <2>1. Begun(t)
    BY <1>1 DEF Begun
  <2> QED BY <1>3, <2>1, Underway
<1>6. /\ \A i \in DOMAIN line \ {0} : ~Spends(line[i], t)
      /\ started[t] = 0
  BY <1>1 DEF TaskOK, SpendOK
<1>7. \A e : Says(e, t) \/ Reply(e, t) \/ Spends(e, t) \/ Done(e, t) => Mine(e, t)
  BY DEF Says, Asks, Clears, Reply, Spends, Done
<1>8. /\ \A i \in DOMAIN line' : ~Says(line'[i], t)
      /\ \A i \in DOMAIN line' : Reply(line'[i], t) \/ Done(line'[i], t) => i \in DOMAIN line /\ line'[i] = line[i]
      /\ \A i \in DOMAIN line' : Spends(line'[i], t) => i = Len(normal) + 1
  BY <1>2, <1>3, <1>4, <1>6, <1>7
<1>9. SaidOK(t)' /\ ReplyOK(t)'
  BY <1>8 DEF SaidOK, ReplyOK, TaskOK
<1>10. SpendOK(t)'
  BY <1>6, <1>8 DEF SpendOK, TaskOK
<1>11. DeskOK(t)' /\ TimersOK(t)' /\ HighOK(t)'
  BY <1>2 DEF DeskOK, TimersOK, HighOK, High, TaskOK
<1>12. MarkOK(t)'
  <2>1. ~Asks(current, t)
    BY <1>1, <1>3 DEF Says
  <2> QED BY <1>3, <2>1, MarkFrame
<1> QED BY <1>5, <1>9, <1>10, <1>11, <1>12 DEF TaskOK

LEMMA ClearanceStep ==
  ASSUME TypeOK, TypeOK', NEW t \in Tasks, TaskOK(t), current.task = t, OnSafetyCleared
  PROVE  TaskOK(t)'
<1>1. CASE current.src # "confirmation_manager"
  BY <1>1, ClearedStep
<1>2. CASE current.src = "confirmation_manager"
  <2>1. Spends(current, t) /\ current' = NoEvent
    BY <1>2 DEF OnSafetyCleared, Handling, Spends, Mine
  <2>2. UNCHANGED <<prompts, allowed, checkTimers, pending, kind, planQueue, submitted,
                    judged, active, started, decidedRuns, waterfallRuns, record>>
    BY <1>2 DEF OnSafetyCleared, FromHuman, confVars, userVars, gateVars, execVars
  <2>3. CASE t \in dispatchedSafe
    BY <2>1, <2>2, <2>3, SpentStep DEF OnSafetyCleared, Silent
  <2>4. CASE t \notin dispatchedSafe
    <3> DEFINE e == Ev("task_dispatched_safe", t, "orchestrator", DispatchArg(t, current.arg))
    <3>1. e \in Event /\ normal' = normal \o <<e>> /\ t \in dispatchedSafe'
      BY <1>2, <2>4, DispatchArgOK DEF OnSafetyCleared, FromHuman, DispatchToExecutor, Publish
    <3>2. Spends(e, t)
      BY <3>1, NoEventAssumption DEF Spends, Mine, Ev
    <3> HIDE DEF e
    <3> QED BY <2>1, <2>2, <3>1, <3>2, SpentStep
  <2> QED BY <2>3, <2>4
<1> QED BY <1>1, <1>2

\* The executor starts the task, or remembers it.
LEMMA ExecuteStep ==
  ASSUME TypeOK, TypeOK', NEW t \in Tasks, TaskOK(t), current.task = t, ExecutePlan
  PROVE  TaskOK(t)'
<1>1. /\ current # NoEvent /\ current' = NoEvent /\ Spends(current, t) /\ normal' = normal
      /\ 0 \in DOMAIN line /\ line[0] = current
  BY LineFacts DEF ExecutePlan, Handling, Spends, Mine, Silent
<1>2. UNCHANGED <<prompts, allowed, checkTimers, pending, kind, planQueue, submitted,
                  judged, record, dispatchedSafe, active>>
  BY DEF ExecutePlan, orchVars, confVars, userVars, gateVars
<1>3. CASE AlreadyRunning(t)
  BY <1>1, <1>2, <1>3, SpentStep DEF ExecutePlan
<1>4. CASE ~AlreadyRunning(t)
  <2>1. started'[t] = started[t] + 1 /\ started[t] = 0
    BY <1>1, <1>4 DEF ExecutePlan, TypeOK, ExecOK, TaskOK, SpendOK
  <2>2. ~Idle(t)
    BY <1>1 DEF Idle
  <2>3. /\ \A i \in DOMAIN line : ~Says(line[i], t)
        /\ High(t) => ~(checkTimers[t] > 0 /\ prompts[t] = 0) /\ allowed[t] # 0
        /\ prompts[t] > 0 => allowed[t] # 0
        /\ checkTimers[t] > 0 => t \in dispatchedSafe
    BY <2>2, NothingSaid
  <2>4. NewOK(t)' /\ EarlyOK(t)' /\ FirstOK(t)' /\ PlannedOK(t)' /\ LateOK(t)'
    <3>1. Begun(t)
      BY <1>1 DEF Begun
    <3> QED BY <1>1, <1>2, <3>1, Underway
  <2>5. \A i \in DOMAIN line' : Mine(line'[i], t) => i \in DOMAIN line \ {0} /\ line'[i] = line[i]
    BY <1>1, Taken
  <2>6. \A e : Says(e, t) \/ Reply(e, t) \/ Spends(e, t) \/ Done(e, t) => Mine(e, t)
    BY DEF Says, Asks, Clears, Reply, Spends, Done
  <2>7. SaidOK(t)' /\ ReplyOK(t)'
    BY <1>2, <2>3, <2>5, <2>6 DEF SaidOK, ReplyOK, TaskOK
  <2>8. SpendOK(t)'
    <3>1. \A i \in DOMAIN line' : ~Spends(line'[i], t)
      BY <1>1, <2>5, <2>6 DEF TaskOK, SpendOK
    <3> QED BY <2>1, <3>1 DEF SpendOK
  <2>9. DeskOK(t)' /\ TimersOK(t)' /\ HighOK(t)'
    BY <1>2, <2>3 DEF DeskOK, TimersOK, HighOK, High, TaskOK
  <2>10. MarkOK(t)'
    <3>1. ~Asks(current, t)
      BY <1>1 DEF Asks, Spends
    <3> QED BY <1>1, <1>2, <3>1, MarkFrame
  <2> QED BY <2>4, <2>7, <2>8, <2>9, <2>10 DEF TaskOK
<1> QED BY <1>3, <1>4

\* The confirmation manager takes an answer, or drops it.
LEMMA AnswerStep ==
  ASSUME TypeOK, TypeOK', NEW t \in Tasks, TaskOK(t), current.task = t, OnUserResponse
  PROVE  TaskOK(t)'
<1>1. /\ current # NoEvent /\ current' = NoEvent /\ Reply(current, t)
      /\ 0 \in DOMAIN line /\ line[0] = current
  BY LineFacts DEF OnUserResponse, Handling, Reply, Mine
<1>2. /\ prompts[t] = 1 /\ checkTimers[t] = 0 /\ \A i \in DOMAIN line : ~Says(line[i], t)
  BY <1>1 DEF TaskOK, ReplyOK, SaidOK
<1>3. UNCHANGED <<prompts, checkTimers, kind, planQueue, submitted, judged,
                  record, dispatchedSafe, active, started, decidedRuns, waterfallRuns>>
  BY DEF OnUserResponse, orchVars, userVars, gateVars, execVars
<1>4. \/ normal' = normal /\ allowed' = allowed /\ (t \in pending' => t \in pending)
      \/ /\ t \in pending /\ t \notin pending' /\ allowed'[t] = allowed[t] + 1
         /\ \E e \in Event : normal' = normal \o <<e>> /\ Spends(e, t)
  <2> DEFINE e == Ev("task_safety_cleared", t, "confirmation_manager", "plain")
  <2>1. e \in Event /\ e.name = "task_safety_cleared" /\ e.src = "confirmation_manager" /\ e.task = t
    BY EvType DEF Ev, Names, Sources, Args
  <2>2. Spends(e, t)
    BY <2>1, NoEventAssumption DEF Spends, Mine
  <2> HIDE DEF e
  <2>3. \/ normal' = normal /\ allowed' = allowed /\ (t \in pending' => t \in pending)
        \/ /\ t \in pending /\ t \notin pending' /\ allowed'[t] = allowed[t] + 1
           /\ normal' = normal \o <<e>>
    BY DEF OnUserResponse, Silent, Raise, Publish, TypeOK, ConfOK, e
  <2> QED BY <2>1, <2>2, <2>3
<1>5. \A e : Spends(e, t) => ~Early(e, t) /\ ~First(e, t) /\ ~Late(e, t) /\ ~Says(e, t) /\ ~Reply(e, t) /\ ~Done(e, t)
  BY DEF Spends, Early, EarlyNames, First, Late, Says, Asks, Clears, Reply, Done
<1>6. NewOK(t)' /\ EarlyOK(t)' /\ FirstOK(t)' /\ PlannedOK(t)' /\ LateOK(t)'
  <2>1. Begun(t)
    BY <1>2 DEF Begun
  <2>2. normal' = normal \/ \E e \in Event : normal' = normal \o <<e>> /\ ~Early(e, t) /\ ~First(e, t) /\ ~Late(e, t)
    BY <1>4, <1>5
  <2> QED BY <1>1, <1>3, <2>1, <2>2, Underway
<1>7. \A e : Says(e, t) \/ Reply(e, t) \/ Spends(e, t) \/ Done(e, t) => Mine(e, t)
  BY DEF Says, Asks, Clears, Reply, Spends, Done
<1>10. MarkOK(t)'
  <2>1. ~Asks(current, t)
    BY <1>1 DEF Asks, Reply
  <2> QED BY <1>1, <1>3, <1>4, <1>5, <2>1, MarkFrame
<1>8. CASE normal' = normal /\ allowed' = allowed /\ (t \in pending' => t \in pending)
  <2>1. \A i \in DOMAIN line' : Mine(line'[i], t) => i \in DOMAIN line \ {0} /\ line'[i] = line[i]
    BY <1>1, <1>8, Taken
  <2>2. Idle(t) => Idle(t)'
    BY <1>3, <1>7, <2>1 DEF Idle
  <2>3. SaidOK(t)' /\ ReplyOK(t)'
    BY <1>2, <1>3, <1>7, <2>1 DEF SaidOK, ReplyOK, TaskOK
  <2>4. SpendOK(t)'
    BY <1>3, <1>7, <2>1 DEF SpendOK, TaskOK
  <2>5. DeskOK(t)' /\ TimersOK(t)' /\ HighOK(t)'
    BY <1>2, <1>3, <1>8, <2>2 DEF DeskOK, TimersOK, HighOK, High, TaskOK
  <2> QED BY <1>6, <1>10, <2>3, <2>4, <2>5 DEF TaskOK
<1>9. ASSUME NEW e \in Event, normal' = normal \o <<e>>, Spends(e, t), t \in pending, t \notin pending',
             allowed'[t] = allowed[t] + 1
      PROVE  TaskOK(t)'
  <2>1. \A i \in DOMAIN line' : Mine(line'[i], t) =>
           (i \in DOMAIN line \ {0} /\ line'[i] = line[i]) \/ (i = Len(normal) + 1 /\ line'[i] = e)
    <3> HIDE DEF line
    <3> QED BY <1>1, <1>9, Joining DEF Mine
  <2>2. allowed[t] = 0 /\ Idle(t) /\ started[t] = 0 /\ \A i \in DOMAIN line : ~Spends(line[i], t)
    BY <1>2, <1>9 DEF TaskOK, DeskOK, Idle
  <2>3. /\ \A i \in DOMAIN line' : ~Says(line'[i], t)
        /\ \A i \in DOMAIN line' : Reply(line'[i], t) \/ Done(line'[i], t) => i \in DOMAIN line /\ line'[i] = line[i]
        /\ \A i \in DOMAIN line' : Spends(line'[i], t) => i = Len(normal) + 1
    BY <1>2, <1>5, <1>7, <1>9, <2>1, <2>2
  <2>4. SaidOK(t)' /\ ReplyOK(t)'
    BY <1>2, <1>3, <2>3 DEF SaidOK, ReplyOK
  <2>5. SpendOK(t)'
    BY <1>3, <2>2, <2>3 DEF SpendOK, TaskOK
  <2>6. allowed'[t] = 1
    BY <1>9, <2>2
  <2>7. DeskOK(t)' /\ TimersOK(t)' /\ HighOK(t)'
    BY <1>2, <1>3, <1>9, <2>6 DEF DeskOK, TimersOK, HighOK
  <2> QED BY <1>6, <1>10, <2>4, <2>5, <2>7 DEF TaskOK
<1> QED BY <1>4, <1>8, <1>9

LEMMA FinalStep ==
  ASSUME TypeOK, TypeOK', NEW t \in Tasks, TaskOK(t), current.task = t, FinalizeTask
  PROVE  TaskOK(t)'
<1>1. /\ current # NoEvent /\ current' = NoEvent /\ Done(current, t) /\ normal' = normal
      /\ 0 \in DOMAIN line /\ line[0] = current
  BY LineFacts DEF FinalizeTask, Handling, Done, Mine, Silent
<1>2. UNCHANGED <<prompts, checkTimers, kind, planQueue, submitted, judged,
                  dispatchedSafe, pending, allowed, started, decidedRuns, waterfallRuns>>
  BY DEF FinalizeTask, confVars, userVars, gateVars, execVars
<1>3. ~Idle(t)
  BY <1>1 DEF TaskOK, SpendOK, Idle
<1>4. /\ \A i \in DOMAIN line : ~Says(line[i], t)
      /\ High(t) => ~(checkTimers[t] > 0 /\ prompts[t] = 0) /\ allowed[t] # 0
      /\ prompts[t] > 0 => allowed[t] # 0
      /\ checkTimers[t] > 0 => t \in dispatchedSafe
  BY <1>3, NothingSaid
<1>5. NewOK(t)' /\ EarlyOK(t)' /\ FirstOK(t)' /\ PlannedOK(t)' /\ LateOK(t)'
  <2>1. Begun(t)
    BY <1>1 DEF Begun
  <2> QED BY <1>1, <1>2, <2>1, Underway
<1>6. \A i \in DOMAIN line' : Mine(line'[i], t) => i \in DOMAIN line \ {0} /\ line'[i] = line[i]
  BY <1>1, Taken
<1>7. \A e : Says(e, t) \/ Reply(e, t) \/ Spends(e, t) \/ Done(e, t) => Mine(e, t)
  BY DEF Says, Asks, Clears, Reply, Spends, Done
<1>8. SaidOK(t)' /\ ReplyOK(t)'
  BY <1>2, <1>4, <1>6, <1>7 DEF SaidOK, ReplyOK, TaskOK
<1>9. SpendOK(t)'
  BY <1>2, <1>6, <1>7 DEF SpendOK, TaskOK
<1>10. DeskOK(t)' /\ TimersOK(t)' /\ HighOK(t)'
  BY <1>2, <1>4 DEF DeskOK, TimersOK, HighOK, High, TaskOK
<1>11. MarkOK(t)'
  BY DEF FinalizeTask, MarkOK, Marked
<1> QED BY <1>5, <1>8, <1>9, <1>10, <1>11 DEF TaskOK

-----------------------------------------------------------------------------
(* Timers, runs and answers.                                               *)

\* While no listener but those of the model calls keeps the bus, a timer never
\* fires between the words of the two gates.
LEMMA NothingPending ==
  ASSUME SlowListeners = FALSE, TypeOK, NEW t \in Tasks, TaskOK(t), TimersRun,
         prompts[t] > 0 \/ checkTimers[t] > 0
  PROVE  \A i \in DOMAIN line : ~Says(line[i], t)
<1> SUFFICES ASSUME NEW i \in DOMAIN line, Says(line[i], t) PROVE FALSE
  OBVIOUS
<1>1. ~Calm(t)
  BY DEF Calm, TypeOK, ConfOK, OrchOK
<1>2. Halfway(t) /\ (i # 0 => i = 1 /\ (current = NoEvent \/ current.name = "task_failed"))
  BY <1>1, GuardCases DEF TaskOK, SaidOK, ParserSays, ValidatorSays
<1>3. CASE BusIdle
  <2>1. i = 0 /\ line[i] = NoEvent
    BY <1>3, LineFacts DEF BusIdle
  <2> QED BY <2>1 DEF Says, Asks, Clears, Mine
<1>4. CASE current # NoEvent /\ current.name \in ModelEvents
  <2>1. i = 0 /\ line[i] = current
    BY <1>2, <1>4, LineFacts DEF ModelEvents
  <2> QED BY <1>4, <2>1 DEF Says, Asks, Clears, ModelEvents
<1> QED BY <1>3, <1>4 DEF TimersRun

LEMMA RespondStep ==
  ASSUME SlowListeners = FALSE, TypeOK, TypeOK', NEW t \in Tasks, TaskOK(t),
         NEW arg \in {"allow", "deny", "none"}, UserResponds(t, arg)
  PROVE  TaskOK(t)'
<1> DEFINE e == Ev("user_response_received", t, "user", arg)
<1>1. e \in Event /\ e.name = "user_response_received" /\ e.task = t
  BY EvType DEF Ev, Names, Sources, Args
<1>2. Reply(e, t) /\ normal' = normal \o <<e>>
  BY <1>1, NoEventAssumption DEF Reply, Mine, UserResponds, Publish
<1> HIDE DEF e
<1>3. \A i \in DOMAIN line : ~Says(line[i], t)
  BY NothingPending DEF UserResponds, LongTimersRun
<1>4. prompts[t] = 1 /\ checkTimers[t] = 0
  BY DEF UserResponds, LongTimersRun, TaskOK, DeskOK, TypeOK, ConfOK
<1>5. UNCHANGED <<current, prompts, checkTimers, kind, planQueue, submitted, judged, record, active,
                  dispatchedSafe, pending, allowed, started, decidedRuns, waterfallRuns>>
  BY DEF UserResponds, orchVars, confVars, gateVars, execVars
<1>6. \A i \in DOMAIN line' : (i \in DOMAIN line /\ line'[i] = line[i]) \/ line'[i] = e
  <2> HIDE DEF line
  <2> QED BY <1>1, <1>2, <1>5, Joining
<1>7. ~Early(e, t) /\ ~First(e, t) /\ ~Late(e, t) /\ ~Says(e, t) /\ ~Spends(e, t) /\ ~Done(e, t)
  BY <1>1 DEF Early, EarlyNames, First, Late, Says, Asks, Clears, Spends, Done
<1>8. NewOK(t)' /\ EarlyOK(t)' /\ FirstOK(t)' /\ PlannedOK(t)' /\ LateOK(t)'
  <2>1. Begun(t)
    BY <1>4 DEF Begun
  <2> QED BY <1>1, <1>2, <1>5, <1>7, <2>1, Underway
<1>9. SaidOK(t)' /\ ReplyOK(t)'
  BY <1>3, <1>4, <1>5, <1>6, <1>7 DEF SaidOK, ReplyOK
<1>10. /\ \A i \in DOMAIN line' : Spends(line'[i], t) => i \in DOMAIN line /\ line'[i] = line[i]
       /\ \A i \in DOMAIN line' : Done(line'[i], t) => i \in DOMAIN line /\ line'[i] = line[i]
  BY <1>6, <1>7
<1>11. SpendOK(t)'
  BY <1>5, <1>10 DEF SpendOK, TaskOK
<1>12. Idle(t) => Idle(t)'
  BY <1>5, <1>10 DEF Idle
<1>13. DeskOK(t)' /\ TimersOK(t)' /\ HighOK(t)'
  BY <1>4, <1>5, <1>12 DEF DeskOK, TimersOK, HighOK, High, TaskOK
<1>14. MarkOK(t)'
  BY <1>1, <1>2, <1>5, <1>7, MarkFrame
<1> QED BY <1>8, <1>9, <1>11, <1>13, <1>14 DEF TaskOK

\* The 100 ms are over: neither gate objected, or the task stays where it is.
LEMMA LowRiskStep ==
  ASSUME SlowListeners = FALSE, TypeOK, TypeOK', NEW t \in Tasks, TaskOK(t), CheckLowRiskDispatch(t)
  PROVE  TaskOK(t)'
<1>1. checkTimers[t] > 0 /\ TimersRun /\ Begun(t)
  BY DEF CheckLowRiskDispatch, Begun
<1>2. \A i \in DOMAIN line : ~Says(line[i], t)
  BY <1>1, NothingPending
<1>3. ~(High(t) /\ prompts[t] = 0)
  BY <1>1, <1>2 DEF TaskOK, HighOK
<1>4. UNCHANGED <<current, prompts, kind, planQueue, submitted, judged, active,
                  pending, allowed, started, decidedRuns, waterfallRuns>>
  BY DEF CheckLowRiskDispatch, confVars, gateVars, execVars, userVars
<1>5. /\ checkTimers'[t] = checkTimers[t] - 1 /\ checkTimers[t] \in Nat
      /\ record'[t].highRisk = record[t].highRisk
  BY DEF CheckLowRiskDispatch, TypeOK, OrchOK, Records
<1>6. CASE ~LowRisk(t)
  <2>1. normal' = normal /\ dispatchedSafe' = dispatchedSafe /\ line' = line
    BY <1>4, <1>6 DEF CheckLowRiskDispatch, Silent, line
  <2>2. NewOK(t)' /\ EarlyOK(t)' /\ FirstOK(t)' /\ PlannedOK(t)' /\ LateOK(t)'
    BY <1>1, <1>4, <2>1, Underway
  <2>3. SaidOK(t)'
    BY <1>2, <2>1 DEF SaidOK
  <2>4. ReplyOK(t)' /\ SpendOK(t)'
    BY <1>1, <1>4, <2>1 DEF ReplyOK, SpendOK, TaskOK
  <2>5. Idle(t) => Idle(t)'
    BY <1>4, <2>1 DEF Idle
  <2>6. DeskOK(t)' /\ TimersOK(t)' /\ HighOK(t)'
    BY <1>1, <1>3, <1>4, <1>5, <2>1, <2>5 DEF DeskOK, TimersOK, HighOK, High, TaskOK
  <2>7. MarkOK(t)'
    BY <1>4, <1>5, <2>1, MarkFrame
  <2> QED BY <2>2, <2>3, <2>4, <2>6, <2>7 DEF TaskOK
<1>7. CASE LowRisk(t)
  <2> DEFINE e == Ev("task_dispatched_safe", t, "orchestrator", DispatchArg(t, record[t].safeEvent))
  <2>1. e \in Event /\ e.name = "task_dispatched_safe" /\ e.task = t
    BY DispatchArgOK DEF Ev
  <2>2. Spends(e, t) /\ normal' = normal \o <<e>> /\ t \in dispatchedSafe'
    BY <1>7, <2>1, NoEventAssumption
       DEF Spends, Mine, CheckLowRiskDispatch, DispatchToExecutor, Publish
  <2> HIDE DEF e
  <2>3. /\ Idle(t) /\ prompts[t] = 0 /\ ~High(t)
    <3>1. t \notin dispatchedSafe /\ ~record[t].highRisk
      BY <1>7 DEF LowRisk
    <3>2. Idle(t)
      BY <1>1, <3>1 DEF TaskOK, TimersOK
    <3>3. prompts[t] = 0
      BY <1>1, <3>1 DEF TaskOK, DeskOK, TypeOK, ConfOK
    <3> QED BY <1>3, <3>2, <3>3
  <2>4. \A i \in DOMAIN line' : (i \in DOMAIN line /\ line'[i] = line[i]) \/ (i = Len(normal) + 1 /\ line'[i] = e)
    <3> HIDE DEF line
    <3> QED BY <1>4, <2>1, <2>2, Joining
  <2>5. ~Early(e, t) /\ ~First(e, t) /\ ~Late(e, t) /\ ~Says(e, t) /\ ~Reply(e, t) /\ ~Done(e, t)
    BY <2>1 DEF Early, EarlyNames, First, Late, Says, Asks, Clears, Reply, Done
  <2>6. NewOK(t)' /\ EarlyOK(t)' /\ FirstOK(t)' /\ PlannedOK(t)' /\ LateOK(t)'
    BY <1>1, <1>4, <2>1, <2>2, <2>5, Underway
  <2>7. \A i \in DOMAIN line : ~Reply(line[i], t)
    BY <2>3 DEF TaskOK, ReplyOK
  <2>8. SaidOK(t)' /\ ReplyOK(t)'
    BY <1>2, <2>4, <2>5, <2>7 DEF SaidOK, ReplyOK
  <2>9. SpendOK(t)'
    <3>1. started[t] = 0 /\ \A i \in DOMAIN line : ~Spends(line[i], t)
      BY <2>3 DEF Idle
    <3>2. \A i \in DOMAIN line' : Spends(line'[i], t) => i = Len(normal) + 1
      BY <2>4, <3>1
    <3>3. \A i \in DOMAIN line' : Done(line'[i], t) => i \in DOMAIN line /\ line'[i] = line[i]
      BY <2>4, <2>5
    <3> QED BY <1>4, <3>1, <3>2, <3>3 DEF SpendOK, TaskOK
  <2>10. DeskOK(t)' /\ TimersOK(t)' /\ HighOK(t)'
    BY <1>4, <2>2, <2>3 DEF DeskOK, TimersOK, HighOK, High, TaskOK
  <2>11. MarkOK(t)'
    BY <1>4, <1>5, <2>1, <2>2, <2>5, MarkFrame
  <2> QED BY <2>6, <2>8, <2>9, <2>10, <2>11 DEF TaskOK
<1> QED BY <1>6, <1>7

\* The 5 s are over.
LEMMA DiscardStep ==
  ASSUME TypeOK, TypeOK', NEW t \in Tasks, TaskOK(t), DiscardDispatched(t)
  PROVE  TaskOK(t)'
<1>1. /\ Same(t) /\ planQueue' = planQueue /\ UNCHANGED <<normal, current>>
  BY DEF DiscardDispatched, LongTimersRun, Same, busVars, confVars, gateVars, execVars, userVars,
     TypeOK, OrchOK
<1>2. Steady(t)
  BY <1>1, SteadyStep
<1> QED BY <1>1, <1>2, SteadyTask DEF PlannedOK, TaskOK

\* A gate forgets the task, while the planner waits for the model or later.
LEMMA ForgetsStep ==
  ASSUME TypeOK, TypeOK', NEW t \in Tasks, TaskOK(t), ValidatorForgets(t) \/ GuardForgets(t)
  PROVE  TaskOK(t)'
<1>1. /\ Same(t) /\ planQueue' = planQueue /\ UNCHANGED <<normal, current>>
  BY DEF ValidatorForgets, GuardForgets, Same, busVars, orchVars, confVars, execVars, userVars
<1>2. Steady(t)
  BY <1>1, SteadyStep
<1> QED BY <1>1, <1>2, SteadyTask DEF PlannedOK, TaskOK

\* Nobody answered: the task is let go.
LEMMA ExpiresStep ==
  ASSUME SlowListeners = FALSE, TypeOK, TypeOK', NEW t \in Tasks, TaskOK(t), ConfirmationExpires(t)
  PROVE  TaskOK(t)'
<1>1. /\ t \in pending /\ LongTimersRun /\ line' = line /\ t \notin pending'
      /\ UNCHANGED <<normal, current, prompts, checkTimers, kind, planQueue, submitted, gateVars,
                     record, active, dispatchedSafe, allowed, started, decidedRuns, waterfallRuns>>
  BY DEF ConfirmationExpires, Raise, line, orchVars, gateVars, execVars, userVars
<1>2. prompts[t] = 1 /\ Begun(t)
  BY <1>1 DEF TaskOK, DeskOK, Begun
<1>3. \A i \in DOMAIN line : ~Says(line[i], t)
  <2>1. TimersRun
    BY <1>1 DEF LongTimersRun
  <2>2. prompts[t] > 0
    BY <1>2
  <2> QED BY <2>1, <2>2, NothingPending
<1>4. NewOK(t)' /\ EarlyOK(t)' /\ FirstOK(t)' /\ PlannedOK(t)' /\ LateOK(t)'
  BY <1>1, <1>2, Underway DEF gateVars
<1>5. SaidOK(t)' /\ ReplyOK(t)' /\ SpendOK(t)'
  BY <1>1, <1>3 DEF SaidOK, ReplyOK, SpendOK, TaskOK
<1>6. Idle(t) <=> Idle(t)'
  BY <1>1 DEF Idle
<1>7. DeskOK(t)' /\ TimersOK(t)' /\ HighOK(t)'
  BY <1>1, <1>2, <1>6 DEF DeskOK, TimersOK, HighOK, High, TaskOK
<1>8. MarkOK(t)'
  BY <1>1, MarkFrame DEF gateVars
<1> QED BY <1>4, <1>5, <1>7, <1>8 DEF TaskOK

\* A run ends, with a report or without.
LEMMA RunStep ==
  ASSUME TypeOK, TypeOK', NEW t \in Tasks, TaskOK(t), Runs(t)
  PROVE  TaskOK(t)'
<1>1. UNCHANGED <<current, prompts, checkTimers, kind, planQueue, submitted, judged,
                  record, dispatchedSafe, pending, allowed, started, active>>
  BY DEF Runs, RunReports, RunRaises, busVars, orchVars, confVars, gateVars, userVars
<1>2. /\ started[t] > 0
      /\ decidedRuns'[t] > 0 \/ waterfallRuns'[t] > 0 => started[t] > 0
  BY DEF Runs, RunReports, RunRaises, TaskOK, SpendOK
<1>3. ~Idle(t) /\ Begun(t)
  BY <1>2 DEF Idle, Begun
<1>4. /\ \A i \in DOMAIN line : ~Says(line[i], t)
      /\ High(t) => ~(checkTimers[t] > 0 /\ prompts[t] = 0) /\ allowed[t] # 0
      /\ prompts[t] > 0 => allowed[t] # 0
      /\ checkTimers[t] > 0 => t \in dispatchedSafe
  BY <1>3, NothingSaid
<1>5. normal' = normal \/ \E e \in Event : normal' = normal \o <<e>> /\ e.name = "task_completed"
  <2> DEFINE e == Ev("task_completed", t, "executor", "plain")
  <2>1. e \in Event /\ e.name = "task_completed"
    BY EvType DEF Ev, Names, Sources, Args
  <2>2. normal' = normal \/ normal' = normal \o <<e>>
    BY DEF Runs, RunReports, RunRaises, busVars, Publish, Raise
  <2> HIDE DEF e
  <2> QED BY <2>1, <2>2
<1>6. \A e : e.name = "task_completed" => /\ ~Early(e, t) /\ ~First(e, t) /\ ~Late(e, t)
                                          /\ ~Says(e, t) /\ ~Reply(e, t) /\ ~Spends(e, t)
  BY DEF Early, EarlyNames, First, Late, Says, Asks, Clears, Reply, Spends
<1>7. NewOK(t)' /\ EarlyOK(t)' /\ FirstOK(t)' /\ PlannedOK(t)' /\ LateOK(t)'
  BY <1>1, <1>3, <1>5, <1>6, Underway
<1>8. \A i \in DOMAIN line' : (i \in DOMAIN line /\ line'[i] = line[i]) \/ line'[i].name = "task_completed"
  <2>1. CASE normal' = normal
    BY <1>1, <2>1 DEF line
  <2>2. ASSUME NEW e \in Event, normal' = normal \o <<e>>, e.name = "task_completed"
        PROVE  \A i \in DOMAIN line' : (i \in DOMAIN line /\ line'[i] = line[i]) \/ line'[i].name = "task_completed"
    <3> HIDE DEF line
    <3> QED BY <1>1, <2>2, Joining
  <2> QED BY <1>5, <2>1, <2>2
<1>9. SaidOK(t)' /\ ReplyOK(t)'
  BY <1>1, <1>4, <1>6, <1>8 DEF SaidOK, ReplyOK, TaskOK
<1>10. SpendOK(t)'
  <2>1. \A i \in DOMAIN line' : Spends(line'[i], t) => i \in DOMAIN line /\ line'[i] = line[i]
    BY <1>6, <1>8
  <2>2. \A i \in DOMAIN line' : ~Spends(line'[i], t)
    BY <1>2, <2>1 DEF TaskOK, SpendOK
  <2>3. started'[t] = started[t]
    BY <1>1
  <2> QED BY <1>2, <2>2, <2>3 DEF SpendOK, TaskOK
<1>11. DeskOK(t)' /\ TimersOK(t)' /\ HighOK(t)'
  BY <1>1, <1>4 DEF DeskOK, TimersOK, HighOK, High, TaskOK
<1>12. MarkOK(t)'
  BY <1>1, <1>5, <1>6, MarkFrame
<1> QED BY <1>7, <1>9, <1>10, <1>11, <1>12 DEF TaskOK

-----------------------------------------------------------------------------
LEMMA ListenerStep ==
  ASSUME TypeOK, TypeOK', NEW t \in Tasks, TaskOK(t), Listeners, judged'[t] <= 1
  PROVE  TaskOK(t)'
<1>1. CASE current.task # t
  BY <1>1, OtherListener
<1>2. CASE current.task = t
  BY <1>2, InterpretStep, MappedStep, PlanStep, GatesStep, AskedStep, AnswerStep, ClearanceStep,
     ExecuteStep, UnreadStep, FinalStep DEF Listeners
<1> QED BY <1>1, <1>2

LEMMA TimerStep ==
  ASSUME SlowListeners = FALSE, TypeOK, TypeOK', NEW t \in Tasks, TaskOK(t),
         NEW u \in Tasks, Timers(u) \/ Runs(u) \/ Human(u)
  PROVE  TaskOK(t)'
<1>1. CASE u # t
  BY <1>1, OtherTimer
<1>2. CASE u = t
  <2>1. CASE Timers(t)
    BY <2>1, LowRiskStep, DiscardStep, UnreadStep, ForgetsStep, ExpiresStep DEF Timers
  <2>2. CASE Runs(t)
    BY <2>2, RunStep
  <2>3. CASE Human(t)
    BY <2>3, EntryStep, RespondStep DEF Human
  <2> QED BY <1>2, <2>1, <2>2, <2>3
<1> QED BY <1>1, <1>2

-----------------------------------------------------------------------------
(* When a gate judges the task once more.                                  *)

\* A gate judges a task once more, or leaves it at that.
LEMMA JudgedGrows ==
  ASSUME TypeOK, [Next]_vars, NEW t \in Tasks
  PROVE  /\ judged[t] \in Nat
         /\ \/ judged'[t] = judged[t]
            \/ judged'[t] = judged[t] + 1 /\ OnTaskDispatched /\ current.task = t
<1>1. judged \in [Tasks -> Nat]
  BY DEF TypeOK, GateOK
<1>2. CASE OnTaskDispatched
  BY <1>1, <1>2 DEF OnTaskDispatched
<1>3. CASE UNCHANGED vars
  BY <1>1, <1>3 DEF vars, gateVars
<1>4. CASE Deliver \/ ProcessQueue
  BY <1>1, <1>4 DEF Deliver, ProcessQueue, gateVars
<1>5. CASE Listeners /\ ~OnTaskDispatched
  BY <1>1, <1>5 DEF Listeners, HandleNewTask, ProcessIntent, ValidateAndRoute, MapIntent,
     OnCapabilityMapped, CreatePlan, OnConfirmationRequired, OnUserResponse, OnSafetyCleared,
     ExecutePlan, HandleFailure, FinalizeTask, gateVars
<1>6. ASSUME NEW u \in Tasks, Timers(u) \/ Runs(u) \/ Human(u) PROVE judged' = judged
  BY <1>6 DEF Timers, Runs, Human, CheckLowRiskDispatch, DiscardDispatched, ForgetTask,
     ValidatorForgets, GuardForgets, ConfirmationExpires, RunReports, RunRaises, UserInput,
     UserResponds, gateVars
<1> QED BY <1>1, <1>2, <1>3, <1>4, <1>5, <1>6 DEF Next

\* A step that publishes nothing that comes before the gates.
LEMMA StaysPast ==
  ASSUME TypeOK, NEW t \in Tasks, Past(t), current' \in {NoEvent, current},
         submitted \subseteq submitted',
         normal' = normal \/ \E e \in Event : normal' = normal \o <<e>> /\ ~Early(e, t)
  PROVE  Past(t)'
<1>1. CASE normal' = normal
  BY <1>1 DEF Past, Early, Mine
<1>2. ASSUME NEW e \in Event, normal' = normal \o <<e>>, ~Early(e, t)
      PROVE  Past(t)'
  <2>1. /\ DOMAIN normal' = 1 .. Len(normal) + 1 /\ normal'[Len(normal) + 1] = e
        /\ DOMAIN normal = 1 .. Len(normal) /\ \A i \in 1 .. Len(normal) : normal'[i] = normal[i]
        /\ Len(normal) \in Nat
    BY <1>2 DEF TypeOK, BusOK
  <2>2. ~Early(current', t)
    BY DEF Past, Early, Mine
  <2>3. \A i \in DOMAIN normal' : i = Len(normal) + 1 \/ i \in DOMAIN normal
    BY <2>1
  <2> HIDE DEF Early
  <2>4. ASSUME NEW i \in DOMAIN normal' PROVE ~Early(normal'[i], t)
    <3>1. CASE i = Len(normal) + 1
      BY <1>2, <2>1, <3>1
    <3>2. CASE i \in DOMAIN normal
      BY <2>1, <3>2 DEF Past
    <3> QED BY <2>3, <3>1, <3>2
  <2> QED BY <2>2, <2>4 DEF Past
<1> QED BY <1>1, <1>2

LEMMA DeliverPast ==
  ASSUME TypeOK, OnlyFailures, NEW t \in Tasks, Past(t), Deliver
  PROVE  Past(t)'
<1>1. submitted' = submitted /\ urgent \in Seq(Event) /\ normal \in Seq(Event)
  BY DEF Deliver, TypeOK, BusOK, userVars
<1>2. CASE urgent # <<>> /\ current' = Head(urgent) /\ UNCHANGED normal
  <2>1. current'.name = "task_failed"
    <3>1. Head(urgent) = urgent[1] /\ 1 \in DOMAIN urgent
      BY <1>1, <1>2
    <3> QED BY <1>2, <3>1 DEF OnlyFailures
  <2> QED BY <1>1, <1>2, <2>1 DEF Past, Early, EarlyNames
<1>3. CASE normal # <<>> /\ current' = Head(normal) /\ normal' = Tail(normal)
  <2>1. /\ Head(normal) = normal[1] /\ 1 \in DOMAIN normal
        /\ \A i \in DOMAIN normal' : i + 1 \in DOMAIN normal /\ normal'[i] = normal[i + 1]
    BY <1>1, <1>3
  <2> HIDE DEF Early
  <2> QED BY <1>1, <1>3, <2>1 DEF Past
<1> QED BY <1>2, <1>3 DEF Deliver

LEMMA GatesPast ==
  ASSUME TypeOK, NEW t \in Tasks, Past(t), OnTaskDispatched
  PROVE  Past(t)'
<1> DEFINE a == Answer(ValidatorVerdict(current), current, "safety_validator")
           b == Answer(GuardVerdict(current), current, "permission_guard")
<1>1. normal' = normal \o a \o b /\ current' = NoEvent /\ submitted' = submitted /\ normal \in Seq(Event)
  BY DEF OnTaskDispatched, Handling, userVars, TypeOK, BusOK
<1>2. ASSUME NEW q \in Seq(Event), \A i \in DOMAIN q : ~Early(q[i], t),
             NEW x, x = <<>> \/ \E e \in Event : x = <<e>> /\ ~Early(e, t)
      PROVE  q \o x \in Seq(Event) /\ \A i \in DOMAIN (q \o x) : ~Early((q \o x)[i], t)
  <2> HIDE DEF Early, a, b
  <2>1. CASE x = <<>>
    <3>1. q \o <<>> = q
      OBVIOUS
    <3> QED BY <1>2, <2>1, <3>1
  <2>2. ASSUME NEW e \in Event, x = <<e>>, ~Early(e, t)
        PROVE  q \o x \in Seq(Event) /\ \A i \in DOMAIN (q \o x) : ~Early((q \o x)[i], t)
    <3>1. /\ DOMAIN (q \o <<e>>) = 1 .. Len(q) + 1 /\ (q \o <<e>>)[Len(q) + 1] = e
          /\ DOMAIN q = 1 .. Len(q) /\ \A i \in 1 .. Len(q) : (q \o <<e>>)[i] = q[i]
          /\ Len(q) \in Nat /\ q \o <<e>> \in Seq(Event)
      OBVIOUS
    <3> QED BY <1>2, <2>2, <3>1
  <2> QED BY <1>2, <2>1, <2>2
<1>3. /\ a = <<>> \/ \E e \in Event : a = <<e>> /\ ~Early(e, t)
      /\ b = <<>> \/ \E e \in Event : b = <<e>> /\ ~Early(e, t)
  BY GateEvent DEF Early, EarlyNames
<1> HIDE DEF a, b, Early
<1>4. normal \o a \in Seq(Event) /\ \A i \in DOMAIN (normal \o a) : ~Early((normal \o a)[i], t)
  BY <1>1, <1>2, <1>3 DEF Past
<1>5. \A i \in DOMAIN normal' : ~Early(normal'[i], t)
  BY <1>1, <1>2, <1>3, <1>4
<1>6. ~Early(NoEvent, t)
  BY DEF Early, Mine
<1> QED BY <1>1, <1>5, <1>6 DEF Past

LEMMA ListenerPast ==
  ASSUME TypeOK, NEW t \in Tasks, Past(t), Listeners, ~OnTaskDispatched
  PROVE  Past(t)'
<1>1. submitted' = submitted /\ current' = NoEvent
  BY Publishes DEF Listeners, HandleNewTask, ProcessIntent, ValidateAndRoute, MapIntent,
     OnCapabilityMapped, CreatePlan, OnConfirmationRequired, OnUserResponse, OnSafetyCleared,
     ExecutePlan, HandleFailure, FinalizeTask, userVars
<1>2. ASSUME NEW n \in Names \ EarlyNames, NEW u \in Tasks, NEW s \in Sources, NEW a \in Args,
             Publish(<<Ev(n, u, s, a)>>)
      PROVE  \E e \in Event : normal' = normal \o <<e>> /\ ~Early(e, t)
  <2>1. Ev(n, u, s, a) \in Event /\ ~Early(Ev(n, u, s, a), t)
    BY <1>2, EvType DEF Ev, Early
  <2> QED BY <1>2, <2>1 DEF Publish
<1>3. CASE HandleNewTask \/ ProcessIntent \/ ValidateAndRoute \/ MapIntent \/ OnCapabilityMapped
  <2>1. current.name \in EarlyNames /\ current # NoEvent
    BY <1>3 DEF HandleNewTask, ProcessIntent, ValidateAndRoute, MapIntent, OnCapabilityMapped,
       Handling, EarlyNames
  <2>2. current.task # t
    BY <2>1 DEF Past, Early, EarlyNames, Mine
  <2>3. normal' = normal \/ \E e \in Event : normal' = normal \o <<e>> /\ ~Early(e, t)
    BY <2>2, Publishes DEF Early, Mine
  <2> QED BY <1>1, <2>3, StaysPast
<1>4. CASE CreatePlan \/ OnUserResponse \/ OnSafetyCleared
  <2>1. current.task \in Tasks /\ current.arg \in Args
    BY <1>4, CurrentIsEvent DEF TypeOK, CreatePlan, OnUserResponse, OnSafetyCleared
  <2>2. /\ {"task_dispatched", "task_safety_cleared", "task_dispatched_safe"} \subseteq Names \ EarlyNames
        /\ {"planner", "confirmation_manager", "orchestrator"} \subseteq Sources
        /\ {"plain", "decided"} \subseteq Args
    BY DEF Names, Sources, Args, EarlyNames
  <2>3. DispatchArg(current.task, current.arg) \in Args
    BY <2>1, <2>2, DispatchArgOK
  <2> HIDE DEF Names, EarlyNames, Sources, Args
  <2>4. normal' = normal \/ \E e \in Event : normal' = normal \o <<e>> /\ ~Early(e, t)
    <3>1. CASE CreatePlan
      BY <1>2, <2>1, <2>2, <3>1 DEF CreatePlan, Raise
    <3>2. CASE OnUserResponse
      BY <1>2, <2>1, <2>2, <3>2 DEF OnUserResponse, Raise, Silent
    <3>3. CASE OnSafetyCleared
      BY <1>2, <2>1, <2>2, <2>3, <3>3 DEF OnSafetyCleared, DispatchToExecutor, Silent
    <3> QED BY <1>4, <3>1, <3>2, <3>3
  <2> QED BY <1>1, <2>4, StaysPast
<1>5. CASE OnConfirmationRequired \/ ExecutePlan \/ HandleFailure \/ FinalizeTask
  <2>1. normal' = normal
    BY <1>5 DEF OnConfirmationRequired, ExecutePlan, HandleFailure, FinalizeTask, Silent
  <2> QED BY <1>1, <2>1, StaysPast
<1> QED BY <1>3, <1>4, <1>5 DEF Listeners

LEMMA PastStep ==
  ASSUME TypeOK, OnlyFailures, [Next]_vars, NEW t \in Tasks, Past(t)
  PROVE  Past(t)'
<1>1. ASSUME NEW n \in Names, NEW u \in Tasks, NEW s \in Sources, NEW a \in Args,
             n \notin EarlyNames \/ u # t, Publish(<<Ev(n, u, s, a)>>)
      PROVE  \E e \in Event : normal' = normal \o <<e>> /\ ~Early(e, t)
  <2>1. Ev(n, u, s, a) \in Event /\ ~Early(Ev(n, u, s, a), t)
    BY <1>1, EvType DEF Ev, Early, Mine
  <2> QED BY <1>1, <2>1 DEF Publish
<1>2. /\ {"request_planning", "task_dispatched_safe", "task_completed", "user_response_received",
          "user_input_received"} \subseteq Names
      /\ {"request_planning", "task_dispatched_safe", "task_completed",
          "user_response_received"} \cap EarlyNames = {}
      /\ {"decision_engine", "orchestrator", "executor", "user"} \subseteq Sources
      /\ {"plain", "decided", "allow", "deny", "none"} \subseteq Args
  BY DEF Names, Sources, Args, EarlyNames
<1> HIDE DEF Names, EarlyNames, Sources, Args
<1>3. CASE UNCHANGED vars
  BY <1>3 DEF Past, vars, busVars, userVars
<1>4. CASE ProcessQueue
  <2>1. current' = current /\ submitted' = submitted
    BY <1>4 DEF ProcessQueue, userVars
  <2>2. PICK u \in planQueue : Publish(<<Ev("request_planning", u, "decision_engine", "plain")>>)
    BY <1>4 DEF ProcessQueue
  <2>3. u \in Tasks
    BY DEF TypeOK
  <2>4. \E e \in Event : normal' = normal \o <<e>> /\ ~Early(e, t)
    BY <1>1, <1>2, <2>2, <2>3
  <2> QED BY <2>1, <2>4, StaysPast
<1>5. ASSUME NEW u \in Tasks, Timers(u) \/ Runs(u) \/ Human(u) PROVE Past(t)'
  <2>1. current' = current /\ submitted \subseteq submitted'
    BY <1>5 DEF Timers, Runs, Human, CheckLowRiskDispatch, DiscardDispatched, ForgetTask,
       ValidatorForgets, GuardForgets, ConfirmationExpires, RunReports, RunRaises, UserInput,
       UserResponds, busVars, userVars
  <2>2. CASE CheckLowRiskDispatch(u)
    <3>1. DispatchArg(u, record[u].safeEvent) \in Args
      BY <1>2, DispatchArgOK
    <3>2. normal' = normal \/ \E e \in Event : normal' = normal \o <<e>> /\ ~Early(e, t)
      BY <1>1, <1>2, <2>2, <3>1 DEF CheckLowRiskDispatch, DispatchToExecutor, Silent
    <3> QED BY <2>1, <3>2, StaysPast
  <2>3. CASE Human(u)
    <3>1. UserInput(u) => u # t
      BY DEF UserInput, Past
    <3>2. normal' = normal \/ \E e \in Event : normal' = normal \o <<e>> /\ ~Early(e, t)
      BY <1>1, <1>2, <2>3, <3>1 DEF Human, UserInput, UserResponds
    <3> QED BY <2>1, <3>2, StaysPast
  <2>4. CASE (Timers(u) \/ Runs(u)) /\ ~CheckLowRiskDispatch(u)
    <3>1. normal' = normal \/ Publish(<<Ev("task_completed", u, "executor", "plain")>>)
      BY <2>4 DEF Timers, Runs, DiscardDispatched, ForgetTask, ValidatorForgets, GuardForgets,
         ConfirmationExpires, RunReports, RunRaises, busVars, Raise
    <3>2. normal' = normal \/ \E e \in Event : normal' = normal \o <<e>> /\ ~Early(e, t)
      BY <1>1, <1>2, <3>1
    <3> QED BY <2>1, <3>2, StaysPast
  <2> QED BY <1>5, <2>2, <2>3, <2>4
<1> QED BY <1>3, <1>4, <1>5, DeliverPast, GatesPast, ListenerPast DEF Next

\* Only a new request, or its end, takes the mark off a record.
LEMMA MarkStays ==
  ASSUME TypeOK, [Next]_vars, NEW t \in Tasks, ~Early(current, t), Marked(t)
  PROVE  Marked(t)'
<1> USE DEF TypeOK, OrchOK, Records, Marked
<1>1. CASE HandleNewTask
  <2>1. current.task # t
    BY <1>1 DEF HandleNewTask, Handling, Early, EarlyNames, Mine
  <2> QED BY <1>1, <2>1 DEF HandleNewTask
<1>2. CASE FinalizeTask
  <2>1. current.task = t => t \notin active'
    BY <1>2 DEF FinalizeTask
  <2> QED BY <1>2, <2>1 DEF FinalizeTask
<1>3. CASE OnConfirmationRequired \/ OnSafetyCleared \/ HandleFailure
  BY <1>3 DEF OnConfirmationRequired, OnSafetyCleared, HandleFailure
<1>4. CASE UNCHANGED <<active, record>>
  BY <1>4
<1>5. CASE Deliver \/ ProcessQueue \/ ProcessIntent \/ ValidateAndRoute \/ MapIntent
           \/ OnCapabilityMapped \/ CreatePlan \/ OnTaskDispatched \/ OnUserResponse \/ ExecutePlan
           \/ UNCHANGED vars
  BY <1>4, <1>5 DEF Deliver, ProcessQueue, ProcessIntent, ValidateAndRoute, MapIntent,
     OnCapabilityMapped, CreatePlan, OnTaskDispatched, OnUserResponse, ExecutePlan, orchVars, vars
<1>6. ASSUME NEW u \in Tasks, CheckLowRiskDispatch(u) PROVE Marked(t)'
  BY <1>6 DEF CheckLowRiskDispatch
<1>7. ASSUME NEW u \in Tasks, Timers(u) \/ Runs(u) \/ Human(u), ~CheckLowRiskDispatch(u)
      PROVE  UNCHANGED <<active, record>>
  BY <1>7 DEF Timers, Runs, Human, DiscardDispatched, ForgetTask, ValidatorForgets,
     GuardForgets, ConfirmationExpires, RunReports, RunRaises, UserInput, UserResponds, orchVars
<1> QED BY <1>1, <1>2, <1>3, <1>4, <1>5, <1>6, <1>7 DEF Next, Listeners

\* The gate that judges the planner's dispatch of a high-risk task finds the mark set.
LEMMA JudgedOnce ==
  ASSUME TypeOK, NEW t \in Tasks, TaskOK(t), High(t), judged[t] = 1, OnTaskDispatched,
         current.task = t
  PROVE  Past(t) /\ Marked(t)
<1>1. /\ current # NoEvent /\ current.name = "task_dispatched" /\ Mine(current, t)
      /\ DOMAIN line = 0 .. Len(normal) /\ line[0] = current
  BY LineFacts DEF OnTaskDispatched, Handling, Mine
<1>2. ~First(current, t)
  <2>1. First(line[0], t) /\ 0 \in DOMAIN line => Fresh(t)
    BY DEF TaskOK, FirstOK
  <2> QED BY <1>1, <2>1, LineFacts DEF Fresh
<1>3. Late(current, t) /\ Dispatch(line[0], t) /\ 0 \in DOMAIN line
  BY <1>1, <1>2, LineFacts DEF First, Late, Dispatch
<1>4. t \in submitted /\ \A i \in DOMAIN line : ~Early(line[i], t)
  BY <1>3, LateAtHand
<1>5. Past(t)
  <2>1. \A i \in DOMAIN normal : i \in DOMAIN line /\ line[i] = normal[i]
    BY LineFacts DEF TypeOK, BusOK
  <2> QED BY <1>1, <1>3, <1>4, <2>1 DEF Past
<1>6. Marked(t)
  <2>1. \A i \in DOMAIN line : ~(0 > i)
    BY LineFacts
  <2> HIDE DEF line, Marked, High, Dispatch
  <2> QED BY <1>3, <2>1 DEF TaskOK, MarkOK
<1> QED BY <1>5, <1>6

\* The 100 ms callback never dispatches a high-risk task.
LEMMA HeldBack ==
  ASSUME SlowListeners = FALSE, TypeOK, NEW t \in Tasks, TaskInv(t), High(t), CheckLowRiskDispatch(t)
  PROVE  ~LowRisk(t)
<1>1. CASE judged[t] > 1
  BY <1>1 DEF TaskInv, Marked, LowRisk
<1>2. CASE judged[t] <= 1
  <2>1. TaskOK(t)
    BY <1>2 DEF TaskInv
  <2>2. checkTimers[t] > 0 /\ TimersRun
    BY DEF CheckLowRiskDispatch
  <2>3. \A i \in DOMAIN line : ~Says(line[i], t)
    BY <2>1, <2>2, NothingPending
  <2>4. prompts[t] # 0
    BY <2>1, <2>2, <2>3 DEF TaskOK, HighOK
  <2>5. record[t].highRisk
    BY <2>1, <2>2, <2>4 DEF TaskOK, DeskOK, TypeOK, ConfOK
  <2> QED BY <2>5 DEF LowRisk
<1>3. judged[t] \in Nat
  BY DEF TypeOK, GateOK
<1> QED BY <1>1, <1>2, <1>3

LEMMA TaskStep ==
  ASSUME SlowListeners = FALSE, TypeOK, TypeOK', OnlyFailures, [Next]_vars,
         NEW t \in Tasks, TaskInv(t)
  PROVE  TaskInv(t)'
<1>1. /\ judged[t] \in Nat
      /\ \/ judged'[t] = judged[t]
         \/ judged'[t] = judged[t] + 1 /\ OnTaskDispatched /\ current.task = t
  BY JudgedGrows
<1>2. High(t)' => High(t)
  BY KindStays DEF High
<1>3. judged'[t] <= 1 => TaskOK(t)'
  <2> SUFFICES ASSUME judged'[t] <= 1 PROVE TaskOK(t)'
    OBVIOUS
  <2>1. TaskOK(t)
    BY <1>1 DEF TaskInv
  <2>2. CASE UNCHANGED vars
    <3>1. /\ Same(t) /\ planQueue' = planQueue /\ UNCHANGED <<normal, current>>
      BY <2>2 DEF Same, vars, busVars, confVars, gateVars, execVars, userVars, orchVars
    <3>2. Steady(t)
      BY <3>1, SteadyStep
    <3> QED BY <2>1, <3>1, <3>2, SteadyTask DEF PlannedOK, TaskOK
  <2> QED BY <2>1, <2>2, DeliverTask, ListenerStep, PlannedStep, TimerStep DEF Next
<1>4. High(t) => Funded(t)'
  <2> SUFFICES ASSUME High(t) PROVE Funded(t)'
    OBVIOUS
  <2>1. Funded(t) /\ (CheckLowRiskDispatch(t) => ~LowRisk(t))
    BY HeldBack DEF TaskInv
  <2> QED BY <2>1, FundedStep
<1>5. High(t) /\ judged'[t] > 1 => Past(t) /\ Marked(t)
  <2>1. CASE judged[t] > 1
    BY <2>1 DEF TaskInv
  <2>2. CASE judged[t] <= 1 /\ judged'[t] > 1
    <3>1. judged[t] = 1 /\ OnTaskDispatched /\ current.task = t
      BY <1>1, <2>2
    <3> QED BY <2>2, <3>1, JudgedOnce DEF TaskInv
  <2> QED BY <1>1, <2>1, <2>2
<1>6. High(t) /\ judged'[t] > 1 => Past(t)' /\ Marked(t)'
  BY <1>5, PastStep, MarkStays DEF Past
<1> QED BY <1>2, <1>3, <1>4, <1>6 DEF TaskInv

\* How far each task is, on the bus, before the gates, the human and the executor,
\* while no listener outside the pipeline keeps the bus waiting for long.
THEOREM PromptInvariant == ASSUME SlowListeners = FALSE PROVE Spec => []PromptInv
<1>1. Init => PromptInv
  <2> SUFFICES ASSUME Init, NEW t \in Tasks PROVE TaskInv(t)
    BY InitOK DEF PromptInv, Init, OnlyFailures
  <2>1. \A i \in DOMAIN line : line[i] = NoEvent
    BY LineFacts, InitOK DEF Init
  <2>2. \A i \in DOMAIN line : /\ ~Early(line[i], t) /\ ~First(line[i], t) /\ ~Late(line[i], t)
                               /\ ~Says(line[i], t) /\ ~Reply(line[i], t) /\ ~Spends(line[i], t)
                               /\ ~Done(line[i], t) /\ ~Mine(line[i], t)
    BY <2>1 DEF Early, First, Late, Says, Asks, Clears, Reply, Spends, Done, Mine
  <2>3. /\ prompts[t] = 0 /\ allowed[t] = 0 /\ checkTimers[t] = 0 /\ started[t] = 0
        /\ decidedRuns[t] = 0 /\ waterfallRuns[t] = 0 /\ t \notin pending /\ t \notin planQueue
        /\ t \notin dispatchedSafe /\ t \notin validatorSeen /\ t \notin guardSeen
        /\ judged[t] = 0
    BY DEF Init, Zero
  <2>4. Idle(t) /\ Fresh(t)
    BY <2>2, <2>3 DEF Idle, Fresh, Calm
  <2>5. NewOK(t) /\ EarlyOK(t) /\ FirstOK(t) /\ PlannedOK(t) /\ LateOK(t) /\ SaidOK(t) /\ ReplyOK(t)
    BY <2>2, <2>3, <2>4 DEF NewOK, EarlyOK, FirstOK, PlannedOK, LateOK, SaidOK, ReplyOK, Alone
  <2>6. DeskOK(t) /\ TimersOK(t) /\ SpendOK(t) /\ HighOK(t) /\ MarkOK(t)
    BY <2>2, <2>3, <2>4 DEF DeskOK, TimersOK, SpendOK, HighOK, MarkOK
  <2>7. Funded(t)
    <3>1. normal = <<>> /\ current = NoEvent
      BY DEF Init
    <3>2. AtMost(normal, t, allowed[t] - started[t] - Now(current, t))
      BY <2>3, <3>1, NoneQueued DEF Now
    <3> QED BY <2>3, <3>1, <3>2 DEF Funded, Now
  <2> QED BY <2>3, <2>5, <2>6, <2>7 DEF TaskOK, TaskInv
<1>2. PromptInv /\ [Next]_vars => PromptInv'
  <2> SUFFICES ASSUME PromptInv, [Next]_vars PROVE PromptInv'
    OBVIOUS
  <2>1. TypeOK /\ TypeOK' /\ OnlyFailures /\ OnlyFailures'
    BY NextOK, OvertakingStep DEF PromptInv
  <2> QED BY <2>1, TaskStep DEF PromptInv
<1> QED BY <1>1, <1>2, PTL DEF Spec

\* What a gate finds high-risk is started at most as often as the human allowed it,
\* although the other gate may clear it, the 100 ms timer may dispatch it and a gate
\* that forgot it may judge it again (orchestrator.py: handle_safety_cleared,
\* _check_low_risk_dispatch).
THEOREM HighRiskIsAllowed == ASSUME SlowListeners = FALSE PROVE Spec => []HighRiskNeedsAllow
<1>1. PromptInv => HighRiskNeedsAllow
  <2> SUFFICES ASSUME PromptInv, NEW t \in Tasks, High(t) PROVE started[t] <= allowed[t]
    BY DEF HighRiskNeedsAllow, High
  <2>1. started[t] + Now(current, t) <= allowed[t] /\ TypeOK
    BY DEF PromptInv, TaskInv, Funded
  <2> QED BY <2>1, Amounts
<1> QED BY <1>1, PromptInvariant, PTL

\* The human is asked once about a task that no gate judged twice, whoever asks and
\* however often (confirmation.py: hold_for_confirmation).
THEOREM AskedOnce == ASSUME SlowListeners = FALSE PROVE Spec => []OnePrompt
<1>1. PromptInv => OnePrompt
  BY DEF PromptInv, TaskInv, TaskOK, DeskOK, OnePrompt
<1> QED BY <1>1, PromptInvariant, PTL

\* The two dispatches of a task that no gate judged twice, and the clearances of its
\* gates, make one execution.
THEOREM RunsAtMostOnce == ASSUME SlowListeners = FALSE PROVE Spec => []RunsOnce
<1>1. PromptInv => RunsOnce
  BY DEF PromptInv, TaskInv, TaskOK, SpendOK, RunsOnce
<1> QED BY <1>1, PromptInvariant, PTL
=============================================================================
