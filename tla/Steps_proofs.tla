---------------------------- MODULE Steps_proofs ----------------------------
(***************************************************************************)
(* The ways to carry out a step: with a decision of the router, whose work *)
(* is bounded and whose fallbacks are in order; without one; and as a      *)
(* command, in a terminal that is chosen for it and with the prompts it    *)
(* may make.                                                               *)
(***************************************************************************)
EXTENDS StepExecutor, LegacyStep, TerminalChoice, InteractiveCommand,
        SequenceTheorems, TLAPS

-----------------------------------------------------------------------------
(* The step with a decision, and the one without.                          *)

\* How far down the order of preference a method is.
Level(m) == CASE m = "plugin" -> 1 [] m = "api" -> 2 [] m = "shell" -> 3 [] m = "ui" -> 4

ChainOf(m) == SubSeq(Preference, Level(m) + 1, 4)

Mendable == {"ENV_PERMANENT", "ROUTING_MISMATCH"}

\* The chain holds what is less preferred than the method at hand, or in graph
\* mode nothing.
OnTrack ==
    /\ decision.method \in MethodType
    /\ decision.chain = IF graph THEN << >> ELSE ChainOf(decision.method)
    /\ ~graph => Level(Select(intent).method) <= Level(decision.method)

\* What was not reached has not run; without the graph, what was passed has run and
\* failed in a way that permits the next.
Ordered ==
    \A n \in MethodType :
        /\ Level(n) > Level(decision.method) => runs[n] = 0
        /\ ~graph /\ Level(n) < Level(Select(intent).method) => runs[n] = 0
        /\ /\ ~graph
           /\ Level(Select(intent).method) <= Level(n) /\ Level(n) < Level(decision.method)
           => runs[n] > 0 /\ failed[n] \in Mendable

\* A method is run again only after a failure that its counter counts.
Counted ==
    /\ \A n \in MethodType : runs[n] <= MaxRetries + 1
    /\ stage \in {"round", "guard", "refocus"} => runs[decision.method] = 0
    /\ stage = "invoke" => runs[decision.method] = transient /\ transient <= MaxRetries
    /\ stage \in {"guard", "refocus"} => transient = 0
    /\ requests <= MaxRetries * runs["api"]
    /\ rounds <= Level(decision.method)
    /\ stage = "round" => rounds < Level(decision.method)

\* An answer other than a success is the failure of the last method.
AnswerFits ==
    /\ answer.why # "limit"
    /\ stage = "answered" /\ ~answer.ok /\ answer.class \in Mendable =>
          /\ decision.chain = << >>
          /\ runs[decision.method] > 0 /\ failed[decision.method] = answer.class

GuardHeld == stage = "invoke" /\ decision.method = "ui" => ready

\* The types the argument needs.
Typed ==
    /\ decision \in [method : MethodType, chain : Seq(MethodType),
                    viable : BOOLEAN, app : BOOLEAN]
    /\ graph \in BOOLEAN /\ intent \in Intent /\ ready \in BOOLEAN
    /\ stage \in {"round", "guard", "refocus", "invoke", "answered"}
    /\ rounds \in Nat /\ transient \in Nat /\ requests \in Nat
    /\ runs \in [MethodType -> Nat]
    /\ failed \in [MethodType -> FailureClass \union {"none"}]

\* The inductive invariant.
StepInv == Typed /\ OnTrack /\ Ordered /\ Counted /\ AnswerFits /\ GuardHeld

USE RetryAssumption DEF RetryAssumption

LEMMA Levels ==
  /\ \A m \in MethodType : Level(m) \in 1..4
  /\ \A m, n \in MethodType : Level(m) = Level(n) => m = n
<1>1. Level("plugin") = 1 /\ Level("api") = 2 /\ Level("shell") = 3 /\ Level("ui") = 4
  BY DEF Level
<1> QED
  BY <1>1 DEF MethodType

LEMMA Chains ==
  ASSUME NEW m \in MethodType
  PROVE  /\ ChainOf(m) \in Seq(MethodType)
         /\ ChainOf(m) = << >> <=> m = "ui"
         /\ ChainOf(m) # << >> =>
               /\ Head(ChainOf(m)) \in MethodType /\ Level(Head(ChainOf(m))) = Level(m) + 1
               /\ Tail(ChainOf(m)) = ChainOf(Head(ChainOf(m)))
         /\ \A k \in DOMAIN ChainOf(m) :
               ChainOf(m)[k] \in MethodType /\ Level(ChainOf(m)[k]) > Level(m)
<1>1. /\ Preference \in Seq(MethodType) /\ Len(Preference) = 4
      /\ \A k \in 1..4 : Preference[k] \in MethodType /\ Level(Preference[k]) = k
  BY DEF Preference, MethodType, Level
<1>2. Level(m) \in 1..4 /\ (Level(m) = 4 <=> m = "ui")
  BY DEF Level, MethodType
<1>3. /\ ChainOf(m) \in Seq(MethodType)
      /\ Len(ChainOf(m)) = 4 - Level(m) /\ DOMAIN ChainOf(m) = 1..Len(ChainOf(m))
      /\ \A k \in 1..(4 - Level(m)) : ChainOf(m)[k] = Preference[Level(m) + k]
  <2>1. \A k \in (Level(m) + 1)..4 : Preference[k] \in MethodType
    BY <1>1, <1>2
  <2>2. /\ ChainOf(m) \in Seq(MethodType)
        /\ Len(ChainOf(m)) = IF Level(m) + 1 <= 4 THEN 4 - (Level(m) + 1) + 1 ELSE 0
        /\ \A k \in 1..(4 - (Level(m) + 1) + 1) : ChainOf(m)[k] = Preference[Level(m) + 1 + k - 1]
    BY <1>2, <2>1, SubSeqProperties DEF ChainOf
  <2>3. Len(ChainOf(m)) = 4 - Level(m)
    BY <1>2, <2>2
  <2>4. DOMAIN ChainOf(m) = 1..Len(ChainOf(m))
    BY <2>2
  <2>5. \A k \in 1..(4 - Level(m)) : ChainOf(m)[k] = Preference[Level(m) + k]
    BY <1>2, <2>2
  <2> QED
    BY <2>2, <2>3, <2>4, <2>5
<1>4. CASE Level(m) = 4
  <2>1. ChainOf(m) = << >>
    BY <1>4, SubSeqEmpty DEF ChainOf
  <2> QED
    BY <1>2, <1>3, <1>4, <2>1
<1>5. CASE Level(m) # 4
  <2>1. Head(ChainOf(m)) = Preference[Level(m) + 1]
        /\ Tail(ChainOf(m)) = SubSeq(Preference, Level(m) + 1 + 1, 4)
    <3>1. Level(m) + 1 \in 1..Len(Preference) /\ 4 \in (Level(m) + 1)..Len(Preference)
      BY <1>1, <1>2, <1>5
    <3> QED
      BY <1>1, <3>1, HeadTailOfSubSeq DEF ChainOf
  <2>2. Level(Preference[Level(m) + 1]) = Level(m) + 1
    BY <1>1, <1>2, <1>5
  <2>3. Tail(ChainOf(m)) = ChainOf(Head(ChainOf(m)))
    BY <2>1, <2>2 DEF ChainOf
  <2>4. ChainOf(m) # << >>
    BY <1>2, <1>3, <1>5
  <2>5. \A k \in DOMAIN ChainOf(m) :
            ChainOf(m)[k] \in MethodType /\ Level(ChainOf(m)[k]) > Level(m)
    BY <1>1, <1>2, <1>3
  <2> QED
    BY <1>1, <1>2, <1>3, <1>5, <2>1, <2>2, <2>3, <2>4, <2>5
<1> QED
  BY <1>4, <1>5

LEMMA Decisions ==
  ASSUME NEW i \in Intent
  PROVE  /\ Select(i) \in [method : MethodType, chain : Seq(MethodType),
                            viable : BOOLEAN, app : BOOLEAN]
         /\ Select(i).chain = ChainOf(Select(i).method)
<1>1. ASSUME NEW m \in MethodType, NEW v \in BOOLEAN
      PROVE  Decision(m, v, i) = [method |-> m, chain |-> ChainOf(m),
                                  viable |-> v, app |-> i.app]
  <2>1. \A k \in 1..4 : Preference[k] = m <=> k = Level(m)
    BY DEF MethodType, Preference, Level
  <2>2. (CHOOSE k \in 1..4 : Preference[k] = m) = Level(m)
    BY <2>1, Levels
  <2> QED
    BY <2>2 DEF Decision, ChainOf
<1>2. i.app \in BOOLEAN /\ EvaluateUi(i) \in BOOLEAN
  BY DEF Intent, EvaluateUi
<1>3. PICK m \in MethodType, v \in BOOLEAN :
          Select(i) = [method |-> m, chain |-> ChainOf(m), viable |-> v, app |-> i.app]
  BY <1>1, <1>2 DEF Select, MethodType
<1> QED
  BY <1>2, <1>3, Chains

LEMMA StepInitInv == StepInit => StepInv
<1> SUFFICES ASSUME StepInit PROVE StepInv
  OBVIOUS
<1>1. Typed /\ AnswerFits /\ GuardHeld
  <2>1. decision \in [method : MethodType, chain : Seq(MethodType),
                     viable : BOOLEAN, app : BOOLEAN]
    <3>1. intent.app \in BOOLEAN
      BY DEF StepInit, Intent
    <3>2. << >> \in Seq(MethodType)
      OBVIOUS
    <3>3. CASE ~graph
      BY <3>3, Decisions DEF StepInit
    <3>4. CASE graph
      <4>1. \/ decision = SimpleDecision(intent)
            \/ \E m \in MethodType : decision = TranslatedDecision(m)
        BY <3>4 DEF StepInit
      <4>2. SimpleDecision(intent) \in [method : MethodType, chain : Seq(MethodType),
                                        viable : BOOLEAN, app : BOOLEAN]
        BY <3>1, <3>2 DEF SimpleDecision, MethodType
      <4>3. ASSUME NEW m \in MethodType
            PROVE  TranslatedDecision(m) \in [method : MethodType, chain : Seq(MethodType),
                                              viable : BOOLEAN, app : BOOLEAN]
        BY <3>2 DEF TranslatedDecision
      <4> QED
        BY <4>1, <4>2, <4>3
    <3> QED
      BY <3>3, <3>4
  <2> QED
    BY <2>1 DEF StepInit, Typed, AnswerFits, GuardHeld, NoAnswer, Mendable, FailureClass
<1>2. OnTrack
  <2>1. CASE graph
    BY <2>1 DEF StepInit, OnTrack, SimpleDecision, TranslatedDecision, MethodType
  <2>2. CASE ~graph
    <3>1. decision = Select(intent) /\ intent \in Intent
      BY <2>2 DEF StepInit
    <3> QED
      BY <2>2, <3>1, Decisions, Levels DEF OnTrack
  <2> QED
    BY <2>1, <2>2
<1>3. Ordered
  <2>1. ~graph => decision = Select(intent)
    BY DEF StepInit
  <2>2. \A n \in MethodType : runs[n] = 0
    BY DEF StepInit
  <2>3. ~graph => \A n \in MethodType :
            ~(Level(Select(intent).method) <= Level(n) /\ Level(n) < Level(decision.method))
    <3> SUFFICES ASSUME ~graph, NEW n \in MethodType
                 PROVE  ~( /\ Level(Select(intent).method) <= Level(n)
                           /\ Level(n) < Level(decision.method) )
      OBVIOUS
    <3>1. Level(decision.method) \in 1..4 /\ Level(n) \in 1..4
      BY <1>2, Levels DEF OnTrack
    <3> QED
      BY <2>1, <3>1
  <2> QED
    BY <2>2, <2>3 DEF Ordered
<1>4. Counted
  <2>1. Level(decision.method) \in 1..4
    BY <1>2, Levels DEF OnTrack
  <2> QED
    BY <1>2, <2>1 DEF StepInit, Counted, OnTrack, MethodType
<1> QED
  BY <1>1, <1>2, <1>3, <1>4 DEF StepInv

\* What invoking the method at hand leaves behind: one more run, and as many
\* requests as one run may send.
LEMMA InvokedOK ==
  ASSUME StepInv, stage = "invoke", NEW e, Invoked(e)
  PROVE  /\ runs' \in [MethodType -> Nat]
         /\ runs'[decision.method] = transient + 1
         /\ \A n \in MethodType : n # decision.method => runs'[n] = runs[n]
         /\ requests' \in Nat /\ requests' <= MaxRetries * runs'["api"]
         /\ ready' \in BOOLEAN
<1> DEFINE m == decision.method
<1>1. /\ m \in MethodType /\ runs[m] = transient /\ transient \in Nat /\ requests \in Nat
      /\ runs \in [MethodType -> Nat] /\ requests <= MaxRetries * runs["api"]
      /\ ready \in BOOLEAN /\ "api" \in MethodType
  BY DEF StepInv, Typed, OnTrack, Counted, MethodType
<1>2. runs' = [runs EXCEPT ![m] = @ + 1]
  BY DEF Invoked
<1>3. PICK n \in RequestsOf(m, e) : requests' = requests + n
  BY DEF Invoked
<1>4. n \in 0..MaxRetries /\ (m # "api" => n = 0)
  BY <1>3 DEF RequestsOf
<1>5. requests' <= MaxRetries * runs'["api"]
  <2>1. CASE m = "api"
    <3>1. runs'["api"] = runs["api"] + 1 /\ runs["api"] \in Nat
      BY <1>1, <1>2, <2>1
    <3>2. MaxRetries * (runs["api"] + 1) = MaxRetries * runs["api"] + MaxRetries
      BY <3>1
    <3>3. MaxRetries * runs["api"] \in Nat
      BY <3>1
    <3> QED
      BY <1>1, <1>3, <1>4, <3>1, <3>2, <3>3
  <2>2. CASE m # "api"
    BY <1>1, <1>2, <1>3, <1>4, <2>2
  <2> QED
    BY <2>1, <2>2
<1>6. ready' \in BOOLEAN /\ requests' \in Nat
  <2>1. requests' \in Nat
    BY <1>1, <1>3, <1>4
  <2>2. ready' \in BOOLEAN
    <3>1. ready' = FALSE \/ ready' = ready
      BY DEF Invoked
    <3> QED
      BY <1>1, <3>1
  <2> QED
    BY <2>1, <2>2
<1>7. runs' \in [MethodType -> Nat]
  BY <1>1, <1>2
<1>8. runs'[m] = transient + 1
  BY <1>1, <1>2
<1>9. \A k \in MethodType : k # m => runs'[k] = runs[k]
  BY <1>1, <1>2
<1> QED
  BY <1>5, <1>6, <1>7, <1>8, <1>9

\* A failure is answered, or the next method begins.
LEMMA FailureOK ==
  ASSUME StepInv, NEW cls \in FailureClass, NEW why, why # "limit",
         HandleFailure(cls, why),
         stage \in {"guard", "refocus", "invoke"},
         cls \in Mendable => runs'[decision.method] > 0,
         UNCHANGED <<graph, intent, rounds>>,
         runs' \in [MethodType -> Nat], runs'[decision.method] <= MaxRetries + 1,
         \A n \in MethodType : n # decision.method => runs'[n] = runs[n],
         requests' \in Nat, requests' <= MaxRetries * runs'["api"],
         transient' \in Nat, ready' \in BOOLEAN
  PROVE  StepInv'
<1> DEFINE m == decision.method
<1>1. /\ m \in MethodType /\ Level(m) \in 1..4 /\ rounds \in Nat /\ rounds <= Level(m)
      /\ failed \in [MethodType -> FailureClass \union {"none"}]
      /\ failed' = [failed EXCEPT ![m] = cls] /\ graph \in BOOLEAN /\ intent \in Intent
      /\ ~graph => Select(intent).method \in MethodType
      /\ \A n \in MethodType : Level(n) \in 1..4
  BY Levels, Decisions DEF StepInv, Typed, OnTrack, Counted, HandleFailure
<1>2. Typed'
  <2>1. decision' \in [method : MethodType, chain : Seq(MethodType),
                      viable : BOOLEAN, app : BOOLEAN]
    <3>1. decision \in [method : MethodType, chain : Seq(MethodType),
                        viable : BOOLEAN, app : BOOLEAN]
      BY DEF StepInv, Typed
    <3>2. CASE UNCHANGED decision
      BY <3>1, <3>2
    <3>3. CASE /\ decision.chain # << >>
               /\ decision' = [decision EXCEPT !.method = Head(decision.chain),
                                               !.chain = Tail(decision.chain)]
      <4>1. decision.chain \in Seq(MethodType)
        BY <3>1
      <4>2. Head(decision.chain) \in MethodType /\ Tail(decision.chain) \in Seq(MethodType)
        BY <3>3, <4>1, HeadTailProperties
      <4> QED
        BY <3>1, <3>3, <4>2
    <3> QED
      BY <3>2, <3>3 DEF HandleFailure, Answer
  <2>2. stage' \in {"round", "guard", "refocus", "invoke", "answered"}
    BY DEF HandleFailure, Answer
  <2>3. failed' \in [MethodType -> FailureClass \union {"none"}]
    BY <1>1
  <2> QED
    BY <1>1, <2>1, <2>2, <2>3 DEF StepInv, Typed
<1>3. \A n \in MethodType : runs'[n] <= MaxRetries + 1
  BY <1>1 DEF StepInv, Counted
<1>4. CASE /\ stage' = "answered" /\ answer' = [ok |-> FALSE, class |-> cls, why |-> why]
           /\ UNCHANGED decision
           /\ cls \in Mendable => decision.chain = << >>
  <2>1. OnTrack' /\ GuardHeld'
    BY <1>4 DEF StepInv, OnTrack, GuardHeld
  <2>2. Ordered'
    <3> SUFFICES ASSUME NEW n \in MethodType
                 PROVE  /\ Level(n) > Level(m) => runs'[n] = 0
                        /\ ~graph /\ Level(n) < Level(Select(intent).method) => runs'[n] = 0
                        /\ /\ ~graph /\ Level(Select(intent).method) <= Level(n)
                           /\ Level(n) < Level(m)
                           => runs'[n] > 0 /\ failed'[n] \in Mendable
      BY <1>4 DEF Ordered
    <3>1. CASE n = m
      BY <1>1, <3>1 DEF StepInv, OnTrack
    <3>2. CASE n # m
      BY <1>1, <3>2 DEF StepInv, Ordered
    <3> QED
      BY <3>1, <3>2
  <2>3. Counted'
    BY <1>1, <1>3, <1>4 DEF StepInv, Counted
  <2>4. AnswerFits'
    BY <1>1, <1>4 DEF AnswerFits
  <2> QED
    BY <1>2, <2>1, <2>2, <2>3, <2>4 DEF StepInv
<1>5. CASE /\ decision' = [decision EXCEPT !.method = Head(decision.chain),
                                           !.chain = Tail(decision.chain)]
           /\ stage' = "round" /\ UNCHANGED answer
           /\ ~graph /\ decision.chain # << >> /\ cls \in Mendable
  <2> DEFINE next == Head(decision.chain)
  <2>1. decision.chain = ChainOf(m)
    BY <1>5 DEF StepInv, OnTrack
  <2>2. /\ next \in MethodType /\ Level(next) = Level(m) + 1
        /\ Tail(decision.chain) = ChainOf(next)
    BY <1>1, <1>5, <2>1, Chains
  <2>3. decision'.method = next /\ decision'.chain = ChainOf(next)
    BY <1>5, <2>2 DEF StepInv, Typed
  <2> DEFINE first == Select(intent).method
  <2> HIDE DEF next, first
  <2>4. /\ ~graph' /\ intent' = intent /\ first \in MethodType
        /\ Level(first) \in 1..4 /\ Level(first) <= Level(m)
    BY <1>1, <1>5 DEF StepInv, OnTrack, first
  <2>5. Level(first) <= Level(next)
    BY <1>1, <2>2, <2>4
  <2>6. OnTrack' /\ GuardHeld'
    <3>1. OnTrack'
      BY <2>2, <2>3, <2>4, <2>5 DEF OnTrack, first
    <3>2. GuardHeld'
      BY <1>5 DEF GuardHeld
    <3> QED
      BY <3>1, <3>2
  <2>7. Ordered'
    <3> SUFFICES ASSUME NEW n \in MethodType
                 PROVE  /\ Level(n) > Level(next) => runs'[n] = 0
                        /\ Level(n) < Level(first) => runs'[n] = 0
                        /\ Level(first) <= Level(n) /\ Level(n) < Level(next)
                           => runs'[n] > 0 /\ failed'[n] \in Mendable
      BY <2>3, <2>4 DEF Ordered, first
    <3>1. CASE n = m
      <4>1. runs'[n] > 0 /\ failed'[n] \in Mendable
        BY <1>1, <1>5, <3>1
      <4> QED
        BY <1>1, <2>2, <2>4, <3>1, <4>1
    <3>2. CASE n # m
      <4>1. Level(n) # Level(m) /\ runs'[n] = runs[n] /\ failed'[n] = failed[n]
        BY <1>1, <3>2, Levels
      <4>2. /\ Level(n) > Level(m) => runs[n] = 0
            /\ Level(n) < Level(first) => runs[n] = 0
            /\ Level(first) <= Level(n) /\ Level(n) < Level(m)
               => runs[n] > 0 /\ failed[n] \in Mendable
        BY <1>5 DEF StepInv, Ordered, first
      <4> QED
        BY <1>1, <2>2, <4>1, <4>2
    <3> QED
      BY <3>1, <3>2
  <2>8. Counted'
    <3>1. runs'[next] = 0
      BY <1>1, <2>2 DEF StepInv, Ordered
    <3> QED
      BY <1>1, <1>3, <1>5, <2>2, <2>3, <3>1 DEF Counted
  <2>9. AnswerFits'
    BY <1>5 DEF StepInv, AnswerFits
  <2> QED
    BY <1>2, <2>6, <2>7, <2>8, <2>9 DEF StepInv
<1>6. graph => decision.chain = << >>
  BY DEF StepInv, OnTrack
<1> QED
  BY <1>1, <1>4, <1>5, <1>6 DEF HandleFailure, Answer, Mendable, FailureClass

\* As long as the method at hand stays, only its own count may move.
LEMMA SameMethodOK ==
  ASSUME StepInv, UNCHANGED <<graph, intent, decision, failed>>,
         \A n \in MethodType : n # decision.method => runs'[n] = runs[n]
  PROVE  OnTrack' /\ Ordered'
<1> DEFINE m == decision.method
<1>1. OnTrack'
  BY DEF StepInv, OnTrack
<1>2. Ordered'
  <2> SUFFICES ASSUME NEW n \in MethodType
               PROVE  /\ Level(n) > Level(m) => runs'[n] = 0
                      /\ ~graph /\ Level(n) < Level(Select(intent).method) => runs'[n] = 0
                      /\ /\ ~graph /\ Level(Select(intent).method) <= Level(n)
                         /\ Level(n) < Level(m)
                         => runs'[n] > 0 /\ failed'[n] \in Mendable
    BY DEF Ordered
  <2>1. CASE n = m
    <3>1. Level(m) \in 1..4 /\ (~graph => Level(Select(intent).method) <= Level(m))
      BY Levels DEF StepInv, OnTrack
    <3>2. ~graph => Level(Select(intent).method) \in 1..4
      BY Levels, Decisions DEF StepInv, Typed
    <3> QED
      BY <2>1, <3>1, <3>2
  <2>2. CASE n # m
    BY <2>2 DEF StepInv, Ordered
  <2> QED
    BY <2>1, <2>2
<1> QED
  BY <1>1, <1>2

LEMMA RoundOK == StepInv /\ Round => StepInv'
<1> SUFFICES ASSUME StepInv, Round PROVE StepInv'
  OBVIOUS
<1> DEFINE m == decision.method
<1>1. /\ m \in MethodType /\ Level(m) \in 1..4 /\ rounds \in Nat /\ rounds < Level(m)
      /\ runs[m] = 0 /\ rounds' = rounds + 1 /\ transient' = 0
  BY Levels DEF StepInv, Typed, OnTrack, Counted, Round
<1>2. ~(rounds' > MaxTotal)
  BY <1>1
<1>3. /\ stage' = IF m = "ui" THEN "guard" ELSE "invoke"
      /\ UNCHANGED <<answer, graph, intent, decision, runs, requests, failed, ready>>
  BY <1>1, <1>2 DEF Round
<1>4. OnTrack' /\ Ordered'
  BY <1>3, SameMethodOK
<1>5. Typed'
  BY <1>1, <1>3 DEF StepInv, Typed
<1>6. Counted'
  BY <1>1, <1>3 DEF StepInv, Counted
<1>7. AnswerFits' /\ GuardHeld'
  BY <1>3 DEF StepInv, AnswerFits, GuardHeld
<1> QED
  BY <1>4, <1>5, <1>6, <1>7 DEF StepInv

\* A window that is not ready fails the user interface as the environment would.
LEMMA GuardFailureOK ==
  ASSUME StepInv, stage \in {"guard", "refocus"}, HandleFailure("ENV_TRANSIENT", "ui"),
         UNCHANGED <<ready, graph, intent, rounds, transient, runs, requests>>
  PROVE  StepInv'
<1>1. /\ runs \in [MethodType -> Nat] /\ requests \in Nat /\ transient \in Nat
      /\ ready \in BOOLEAN /\ decision.method \in MethodType
      /\ runs[decision.method] <= MaxRetries + 1 /\ requests <= MaxRetries * runs["api"]
  BY DEF StepInv, Typed, OnTrack, Counted
<1>2. "ENV_TRANSIENT" \in FailureClass /\ "ENV_TRANSIENT" \notin Mendable
  BY DEF FailureClass, Mendable
<1> QED
  BY <1>1, <1>2, FailureOK

\* A window that is ready lets the tool begin, one that is not is focused first.
LEMMA GuardPassedOK ==
  ASSUME StepInv, stage \in {"guard", "refocus"},
         \/ stage' = "invoke" /\ ready' = TRUE
         \/ stage' = "refocus" /\ ready' = ready,
         UNCHANGED <<decision, failed, answer, graph, intent, rounds, transient,
                     runs, requests>>
  PROVE  StepInv'
<1>1. OnTrack' /\ Ordered'
  BY SameMethodOK
<1>2. Typed'
  BY DEF StepInv, Typed
<1>3. Counted'
  BY DEF StepInv, Counted
<1>4. AnswerFits' /\ GuardHeld'
  BY DEF StepInv, AnswerFits, GuardHeld
<1> QED
  BY <1>1, <1>2, <1>3, <1>4 DEF StepInv

LEMMA GuardOK == StepInv /\ (Guard \/ Refocus) => StepInv'
<1> SUFFICES ASSUME StepInv, Guard \/ Refocus PROVE StepInv'
  OBVIOUS
<1>1. CASE Guard
  <2>1. /\ stage = "guard"
        /\ UNCHANGED <<graph, intent, rounds, transient, runs, requests>>
        /\ \/ /\ stage' = "invoke" /\ ready' = TRUE
              /\ UNCHANGED <<decision, failed, answer>>
           \/ /\ stage' = "refocus" /\ ready' = ready
              /\ UNCHANGED <<decision, failed, answer>>
           \/ HandleFailure("ENV_TRANSIENT", "ui") /\ ready' = ready
    BY <1>1 DEF Guard
  <2> QED
    BY <2>1, GuardFailureOK, GuardPassedOK
<1>2. CASE Refocus
  <2>1. /\ stage = "refocus"
        /\ UNCHANGED <<graph, intent, rounds, transient, runs, requests>>
        /\ \/ /\ stage' = "invoke" /\ ready' = TRUE
              /\ UNCHANGED <<decision, failed, answer>>
           \/ HandleFailure("ENV_TRANSIENT", "ui") /\ ready' = ready
    BY <1>2 DEF Refocus
  <2> QED
    BY <2>1, GuardFailureOK, GuardPassedOK
<1> QED
  BY <1>1, <1>2

\* What an exception leads to: the failure path, or the same method once more.
LEMMA ExceptionOK ==
  ASSUME StepInv, stage = "invoke", NEW cls \in FailureClass, NEW e, Invoked(e),
         AfterException(cls), UNCHANGED <<graph, intent, rounds>>,
         decision.method # "ui"
  PROVE  StepInv'
<1> DEFINE m == decision.method
<1>1. /\ m \in MethodType /\ transient \in Nat /\ transient <= MaxRetries
      /\ runs' \in [MethodType -> Nat] /\ runs'[m] = transient + 1
      /\ \A n \in MethodType : n # m => runs'[n] = runs[n]
      /\ requests' \in Nat /\ requests' <= MaxRetries * runs'["api"] /\ ready' \in BOOLEAN
  BY InvokedOK DEF StepInv, Typed, OnTrack, Counted
<1>2. runs'[m] > 0 /\ runs'[m] <= MaxRetries + 1
  BY <1>1
<1>3. CASE HandleFailure(cls, "tool") /\ transient' \in Nat
  BY <1>1, <1>2, <1>3, FailureOK
<1>4. CASE /\ transient < MaxRetries /\ transient' = transient + 1
           /\ UNCHANGED <<stage, decision, failed, fed, unavailable, answer>>
  <2>1. OnTrack' /\ Ordered'
    BY <1>1, <1>4, SameMethodOK
  <2>2. Typed'
    BY <1>1, <1>4 DEF StepInv, Typed
  <2>3. Counted'
    <3>1. \A n \in MethodType : runs'[n] <= MaxRetries + 1
      BY <1>1, <1>2 DEF StepInv, Counted
    <3>2. rounds' <= Level(decision'.method)
      BY <1>4 DEF StepInv, Counted
    <3>3. transient' <= MaxRetries
      BY <1>1, <1>4
    <3> QED
      BY <1>1, <1>4, <3>1, <3>2, <3>3 DEF Counted
  <2>4. AnswerFits' /\ GuardHeld'
    BY <1>4 DEF StepInv, AnswerFits, GuardHeld
  <2> QED
    BY <2>1, <2>2, <2>3, <2>4 DEF StepInv
<1>5. \/ HandleFailure(cls, "tool") /\ transient' \in Nat
      \/ /\ transient < MaxRetries /\ transient' = transient + 1
         /\ UNCHANGED <<stage, decision, failed, fed, unavailable, answer>>
  BY <1>1 DEF AfterException
<1> QED
  BY <1>3, <1>4, <1>5

LEMMA ExceptionClasses ==
  ASSUME NEW m \in MethodType, NEW e \in TypedExceptions(m)
  PROVE  m # "ui" /\ ClassOfException(e) \in FailureClass
<1>1. m = "plugin" \/ m = "api"
  BY DEF TypedExceptions
<1>2. e \in {"TimeoutError", "ConnectionError", "PermissionError", "FileNotFoundError",
             "TypeError", "AttributeError", "NotImplementedError", "ValueError",
             "KeyError", "APITransientError", "APIPermanentError"}
  BY <1>1 DEF TypedExceptions
<1> QED
  BY <1>1, <1>2 DEF ClassOfException, FailureClass

LEMMA RaiseOK == StepInv /\ Raise => StepInv'
<1> SUFFICES ASSUME StepInv, Raise PROVE StepInv'
  OBVIOUS
<1>1. stage = "invoke" /\ UNCHANGED <<graph, intent, rounds>>
      /\ decision.method \in MethodType
  BY DEF Raise, StepInv, OnTrack
<1>2. CASE \E e \in TypedExceptions(decision.method) :
              Invoked(e) /\ AfterException(ClassOfException(e))
  BY <1>1, <1>2, ExceptionOK, ExceptionClasses
<1>3. CASE /\ decision.method = "plugin"
           /\ Invoked("other") /\ \E cls \in FailureClass : AfterException(cls)
  BY <1>1, <1>3, ExceptionOK
<1> QED
  BY <1>2, <1>3 DEF Raise

LEMMA ReportOK == StepInv /\ Report => StepInv'
<1> SUFFICES ASSUME StepInv, Report PROVE StepInv'
  OBVIOUS
<1> DEFINE m == decision.method
<1>1. /\ stage = "invoke" /\ UNCHANGED <<graph, intent, rounds, transient>>
      /\ Invoked("reported")
  BY DEF Report
<1>2. PICK cls \in FailureClass : HandleFailure(cls, "tool")
  BY DEF Report
<1>3. /\ m \in MethodType /\ transient \in Nat /\ transient <= MaxRetries
      /\ runs' \in [MethodType -> Nat] /\ runs'[m] = transient + 1
      /\ \A n \in MethodType : n # m => runs'[n] = runs[n]
      /\ requests' \in Nat /\ requests' <= MaxRetries * runs'["api"] /\ ready' \in BOOLEAN
  BY <1>1, InvokedOK DEF StepInv, Typed, OnTrack, Counted
<1>4. runs'[m] > 0 /\ runs'[m] <= MaxRetries + 1
  BY <1>3
<1> QED
  BY <1>1, <1>2, <1>3, <1>4, FailureOK

LEMMA SucceedOK == StepInv /\ Succeed => StepInv'
<1> SUFFICES ASSUME StepInv, Succeed PROVE StepInv'
  OBVIOUS
<1> DEFINE m == decision.method
<1>1. /\ stage = "invoke" /\ Invoked("none") /\ stage' = "answered"
      /\ answer' = [ok |-> TRUE, class |-> "ENV_TRANSIENT", why |-> "done"]
      /\ UNCHANGED <<graph, intent, decision, rounds, transient, failed>>
  BY DEF Succeed, Answer
<1>2. /\ m \in MethodType /\ transient \in Nat /\ transient <= MaxRetries
      /\ runs' \in [MethodType -> Nat] /\ runs'[m] = transient + 1
      /\ \A n \in MethodType : n # m => runs'[n] = runs[n]
      /\ requests' \in Nat /\ requests' <= MaxRetries * runs'["api"] /\ ready' \in BOOLEAN
  BY <1>1, InvokedOK DEF StepInv, Typed, OnTrack, Counted
<1>3. OnTrack' /\ Ordered'
  BY <1>1, <1>2, SameMethodOK
<1>4. Typed'
  BY <1>1, <1>2 DEF StepInv, Typed
<1>5. Counted'
  <2>1. \A n \in MethodType : runs'[n] <= MaxRetries + 1
    BY <1>2 DEF StepInv, Counted
  <2> QED
    BY <1>1, <1>2, <2>1 DEF StepInv, Counted
<1>6. AnswerFits' /\ GuardHeld'
  BY <1>1 DEF AnswerFits, GuardHeld
<1> QED
  BY <1>3, <1>4, <1>5, <1>6 DEF StepInv

LEMMA StepInvInductive == StepInv /\ [StepNext]_stepVars => StepInv'
<1> SUFFICES ASSUME StepInv, [StepNext]_stepVars PROVE StepInv'
  OBVIOUS
<1>1. CASE UNCHANGED stepVars
  BY <1>1 DEF stepVars, StepInv, Typed, OnTrack, Ordered, Counted, AnswerFits, GuardHeld
<1> QED
  BY <1>1, RoundOK, GuardOK, SucceedOK, ReportOK, RaiseOK DEF StepNext

LEMMA StepInvariant == StepSpec => []StepInv
  BY StepInitInv, StepInvInductive, PTL DEF StepSpec

-----------------------------------------------------------------------------
(* What a step with a decision promises. *)

LEMMA Product ==
  ASSUME NEW x \in Nat, x <= MaxRetries + 1
  PROVE  MaxRetries * x <= MaxRetries * (MaxRetries + 1)
<1>1. PICK d \in Nat : MaxRetries + 1 = x + d
  <2>1. MaxRetries + 1 - x \in Nat /\ MaxRetries + 1 = x + (MaxRetries + 1 - x)
    OBVIOUS
  <2> QED
    BY <2>1
<1>2. MaxRetries * (x + d) = MaxRetries * x + MaxRetries * d
  OBVIOUS
<1>3. MaxRetries * d \in Nat /\ MaxRetries * x \in Nat
  OBVIOUS
<1> QED
  BY <1>1, <1>2, <1>3

\* However many retries the settings allow and whatever the tools do, a step of
\* Executor._execute_with_decision invokes a method at most once and MaxRetries
\* times again, and never reaches the limit on rounds.
THEOREM WorkIsBounded == StepSpec => []BoundedWork
<1>1. StepInv => BoundedWork
  <2> SUFFICES ASSUME StepInv PROVE BoundedWork
    OBVIOUS
  <2>1. \A m \in MethodType : runs[m] <= MaxRetries + 1
    BY DEF StepInv, Counted
  <2>2. requests <= MaxRetries * (MaxRetries + 1)
    <3>1. /\ runs["api"] \in Nat /\ runs["api"] <= MaxRetries + 1
          /\ requests \in Nat /\ requests <= MaxRetries * runs["api"]
      BY <2>1 DEF StepInv, Typed, Counted, MethodType
    <3>2. MaxRetries * runs["api"] <= MaxRetries * (MaxRetries + 1)
      BY <3>1, Product
    <3>3. MaxRetries * runs["api"] \in Nat /\ MaxRetries * (MaxRetries + 1) \in Nat
      BY <3>1
    <3> QED
      BY <3>1, <3>2, <3>3
  <2>3. answer.why # "limit"
    BY DEF StepInv, AnswerFits
  <2> QED
    BY <2>1, <2>2, <2>3 DEF BoundedWork
<1> QED
  BY <1>1, StepInvariant, PTL

\* In legacy mode _handle_failure answers a failure that another method might mend
\* only once every method from the router's first choice on has run and failed so.
THEOREM AllWaysAreTried == StepSpec => []GivesUpOnlyWhenAllFailed
<1>1. StepInv => GivesUpOnlyWhenAllFailed
  <2> DEFINE first == Select(intent)
  <2> SUFFICES ASSUME StepInv, ~graph, stage = "answered", ~answer.ok, answer.class \in Mendable,
                      NEW n \in {first.method} \union
                                {first.chain[k] : k \in DOMAIN first.chain}
               PROVE  runs[n] > 0 /\ failed[n] \in Mendable
    BY DEF GivesUpOnlyWhenAllFailed, Mendable
  <2>1. first.method \in MethodType /\ first.chain = ChainOf(first.method)
    BY Decisions DEF StepInv, Typed
  <2>2. n \in MethodType /\ Level(n) >= Level(first.method)
    <3>1. CASE n = first.method
      BY <2>1, <3>1, Levels
    <3>2. CASE n # first.method
      <4>1. PICK k \in DOMAIN ChainOf(first.method) : n = ChainOf(first.method)[k]
        BY <2>1, <3>2
      <4>2. n \in MethodType /\ Level(n) > Level(first.method)
        BY <2>1, <4>1, Chains
      <4> QED
        BY <2>1, <4>2, Levels
    <3> QED
      BY <3>1, <3>2
  <2>3. /\ decision.chain = << >> /\ decision.chain = ChainOf(decision.method)
        /\ runs[decision.method] > 0 /\ failed[decision.method] \in Mendable
        /\ decision.method \in MethodType
    BY DEF StepInv, AnswerFits, OnTrack
  <2>4. decision.method = "ui"
    BY <2>3, Chains
  <2>5. CASE n = "ui"
    BY <2>3, <2>4, <2>5
  <2>6. CASE n # "ui"
    <3>1. Level(n) < Level("ui")
      BY <2>2, <2>6 DEF Level, MethodType
    <3> QED
      BY <2>2, <2>4, <3>1 DEF StepInv, Ordered
  <2> QED
    BY <2>5, <2>6
<1> QED
  BY <1>1, StepInvariant, PTL

\* A command MethodRouter._evaluate_shell turned down runs only where a plugin or
\* an API came first and failed in a way that permits the next method.
THEOREM ScreeningIsOnlyPassedByFallback == StepSpec => []RejectedShellOnlyByFallback
<1>1. StepInv => RejectedShellOnlyByFallback
  <2> DEFINE first == Select(intent).method
  <2> SUFFICES ASSUME StepInv, ~graph, ~EvaluateShell(intent), runs["shell"] > 0
               PROVE  /\ EvaluatePlugin(intent) \/ EvaluateApi(intent)
                      /\ failed["api"] \in Mendable
    BY DEF RejectedShellOnlyByFallback, Mendable
  <2>1. /\ first \in MethodType /\ decision.method \in MethodType
        /\ "shell" \in MethodType /\ "api" \in MethodType
    BY Decisions DEF StepInv, Typed, OnTrack, MethodType
  <2>2. /\ Level("plugin") = 1 /\ Level("api") = 2 /\ Level("shell") = 3 /\ Level("ui") = 4
    BY DEF Level
  <2>3. Level(first) <= 3 /\ Level(decision.method) >= 3
    <3>1. ~(Level(first) > 3) /\ ~(Level(decision.method) < 3)
      BY <2>1, <2>2 DEF StepInv, Ordered
    <3> QED
      BY <2>1, <3>1, Levels
  <2>4. first # "shell" /\ first # "ui" /\ (EvaluatePlugin(intent) \/ EvaluateApi(intent))
    <3>1. first # "ui"
      BY <2>2, <2>3
    <3>2. ~EvaluatePlugin(intent) /\ ~EvaluateApi(intent) => first = "ui"
      BY DEF Select, Decision
    <3>3. EvaluatePlugin(intent) \/ EvaluateApi(intent) => first \in {"plugin", "api"}
      BY DEF Select, Decision
    <3> QED
      BY <3>1, <3>2, <3>3
  <2>5. Level(first) <= Level("api") /\ Level("api") < Level(decision.method)
    BY <2>1, <2>2, <2>3, <2>4, Levels DEF MethodType
  <2> QED
    BY <2>1, <2>4, <2>5 DEF StepInv, Ordered
<1> QED
  BY <1>1, StepInvariant, PTL

\* The UI tool never acts on a window UIReadinessGuard has not passed since its
\* last action.
THEOREM GuardBeforeEveryUiAction == StepSpec => UiRunsOnFreshGuard
<1>1. StepInv /\ [StepNext]_stepVars => [runs'["ui"] > runs["ui"] => ready]_stepVars
  <2> SUFFICES ASSUME StepInv, StepNext, runs'["ui"] > runs["ui"] PROVE ready
    OBVIOUS
  <2>1. "ui" \in MethodType /\ runs["ui"] \in Nat
    BY DEF StepInv, Typed, MethodType
  <2>2. runs' # runs
    BY <2>1
  <2>3. stage = "invoke" /\ \E e : Invoked(e)
    BY <2>2 DEF StepNext, Round, Guard, Refocus, Succeed, Report, Raise
  <2>4. decision.method = "ui"
    BY <2>1, <2>3, InvokedOK
  <2> QED
    BY <2>3, <2>4 DEF StepInv, GuardHeld
<1> QED
  BY <1>1, StepInvariant, PTL DEF StepSpec, UiRunsOnFreshGuard

-----------------------------------------------------------------------------
(* What a step without a decision promises. *)

\* The retry manager's counter and the capability's own agree until one of them
\* ends the loop, and no tool has been tried before it ends.  In the waterfall every
\* tool that was tried has used a retry or a fallback.
LegacyInv ==
    /\ counted \in 0..MaxRetries /\ capRuns \in Nat /\ falls \in 0..MaxRetries
    /\ unchecked \in Nat /\ tried \in Seq(Tier) /\ able \subseteq Tier
    /\ at \in {"prepare", "plugin"} => counted = 0 /\ capRuns = 0
    /\ at \in {"prepare", "plugin", "capability"} =>
          falls = 0 /\ tried = << >> /\ unchecked = 0
    /\ at = "capability" => counted = capRuns
    /\ at = "waterfall" => capRuns + Len(tried) <= 1 + (counted + falls)
    /\ ~registered => capRuns = 0
    /\ at = "waterfall" => (capRuns > 0 => unchecked = 1)
    /\ SecondWayOnlyUnchecked

\* A tool that is tried uses one retry or one fallback, and there are MaxRetries of
\* each.
LEMMA OneMore ==
  ASSUME NEW limit \in Nat, NEW a \in Nat, NEW b \in Nat, NEW c \in Nat, NEW d \in Nat,
         NEW i \in Nat, NEW j \in Nat,
         c <= limit, d <= limit, c + d = (a + b) + 1, i + j <= 1 + (a + b)
  PROVE  i + (j + 1) <= 2 * limit + 1 /\ i + (j + 1) <= 1 + (c + d)
  OBVIOUS

\* A capability that Executor._execute_step_safe has executed is followed by a tool
\* of the waterfall only if checking its result raised, and both ways together act
\* at most 2 * MAX_RETRY_ATTEMPTS + 1 times.
THEOREM SecondWayIsBounded == LegacySpec => []SecondWayOnlyUnchecked
<1>1. LegacyInit => LegacyInv
  BY RetryAssumption DEF LegacyInit, LegacyInv, SecondWayOnlyUnchecked
<1>2. LegacyInv /\ [LegacyNext]_legacyVars => LegacyInv'
  <2> SUFFICES ASSUME LegacyInv, [LegacyNext]_legacyVars PROVE LegacyInv'
    OBVIOUS
  <2> USE RetryAssumption
  <2>1. CASE Prepare
    BY <2>1 DEF LegacyInv, SecondWayOnlyUnchecked, Prepare, Return
  <2>2. CASE DispatchPlugin
    BY <2>2 DEF LegacyInv, SecondWayOnlyUnchecked, DispatchPlugin, Return
  <2>3. CASE ExecuteCapability
    <3>1. /\ at = "capability" /\ counted \in 0..MaxRetries /\ capRuns \in Nat
          /\ counted = capRuns /\ falls = 0 /\ unchecked = 0 /\ tried = << >> /\ tried' = tried
          /\ falls' = falls /\ registered' = registered
          /\ (~registered => capRuns = 0) /\ unchecked \in Nat
          /\ able \subseteq Tier /\ able' = able /\ 2 * MaxRetries \in Nat
          /\ MaxRetries <= 2 * MaxRetries /\ MaxRetries \in Nat
      BY <2>3 DEF LegacyInv, ExecuteCapability
    <3>2. \/ /\ ~registered /\ at' = "waterfall" /\ capRuns' = capRuns
             /\ counted' = counted /\ unchecked' = unchecked
          \/ /\ registered /\ capRuns' = capRuns + 1 /\ at' = "returned"
             /\ counted' \in 0..MaxRetries /\ unchecked' = unchecked
          \/ /\ registered /\ capRuns' = capRuns + 1 /\ at' = "waterfall"
             /\ counted' = counted /\ unchecked' = unchecked + 1
          \/ /\ registered /\ capRuns' = capRuns + 1 /\ at' = at
             /\ counted' = counted + 1 /\ counted < MaxRetries /\ unchecked' = unchecked
      BY <2>3, <3>1 DEF ExecuteCapability, CountRetry, PeekShouldRetry, Return
    <3> QED
      BY <3>1, <3>2 DEF LegacyInv, SecondWayOnlyUnchecked
  <2>4. CASE TryTier
    <3>1. /\ at = "waterfall" /\ counted \in 0..MaxRetries /\ capRuns \in Nat
          /\ falls \in 0..MaxRetries /\ unchecked \in Nat /\ tried \in Seq(Tier)
          /\ capRuns + Len(tried) <= 1 + (counted + falls)
          /\ (capRuns > 0 => unchecked = 1) /\ (~registered => capRuns = 0)
          /\ able \subseteq Tier /\ able' = able
          /\ capRuns' = capRuns /\ unchecked' = unchecked /\ registered' = registered
      BY <2>4 DEF LegacyInv, TryTier
    <3>2. \/ /\ tried' = tried /\ counted' = counted /\ falls' = falls
             /\ at' \in {"waterfall", "returned"}
          \/ /\ tried' \in Seq(Tier) /\ Len(tried') = Len(tried) + 1
             /\ \/ /\ falls < MaxRetries /\ counted' = counted /\ falls' = falls
                   /\ at' = "returned"
                \/ /\ at' = at /\ counted < MaxRetries
                   /\ counted' = counted + 1 /\ falls' = falls
                \/ /\ at' = at /\ falls < MaxRetries
                   /\ counted' = counted /\ falls' = falls + 1
      <4>1. CASE tried' = tried
        BY <2>4, <3>1, <4>1 DEF TryTier, Return
      <4>2. CASE /\ tiers # << >> /\ falls < MaxRetries /\ Head(tiers) \in able
                 /\ tried' = Append(tried, Head(tiers))
        <5>1. Head(tiers) \in Tier
          BY <4>2 DEF LegacyInv
        <5> QED
          BY <2>4, <3>1, <4>2, <5>1 DEF TryTier, CountRetry, PeekShouldRetry, Return
      <4> QED
        BY <2>4, <4>1, <4>2 DEF TryTier
    <3>3. /\ counted' \in 0..MaxRetries /\ falls' \in 0..MaxRetries /\ tried' \in Seq(Tier)
          /\ at' \in {"waterfall", "returned"}
      BY <3>1, <3>2
    <3>4. /\ capRuns + Len(tried') <= 2 * MaxRetries + 1
          /\ at' = "waterfall" => capRuns + Len(tried') <= 1 + (counted' + falls')
      <4>1. DEFINE m == Len(tried)
      <4>2. m \in Nat /\ capRuns + m <= 1 + (counted + falls)
        BY <3>1
      <4>3. CASE tried' = tried /\ counted' = counted /\ falls' = falls
        BY <3>1, <4>3
      <4>4. CASE Len(tried') = m + 1
        <5>1. \/ falls < MaxRetries /\ counted' = counted /\ falls' = falls /\ at' = "returned"
              \/ counted' + falls' = (counted + falls) + 1
          BY <3>1, <3>2, <4>4
        <5>2. /\ counted \in 0..MaxRetries /\ falls \in 0..MaxRetries /\ capRuns \in Nat
              /\ counted' \in 0..MaxRetries /\ falls' \in 0..MaxRetries
          BY <3>1, <3>3
        <5> HIDE DEF m
        <5>3. CASE falls < MaxRetries /\ counted' = counted /\ falls' = falls /\ at' = "returned"
          <6>1. capRuns + (m + 1) <= 2 * MaxRetries + 1
            BY <4>2, <5>2, <5>3
          <6> QED
            BY <4>4, <5>3, <6>1
        <5>4. CASE counted' + falls' = (counted + falls) + 1
          <6>1. /\ counted \in Nat /\ falls \in Nat /\ counted' \in Nat /\ falls' \in Nat
                /\ counted' <= MaxRetries /\ falls' <= MaxRetries
            BY <5>2
          <6>2. /\ capRuns + (m + 1) <= 2 * MaxRetries + 1
                /\ capRuns + (m + 1) <= 1 + (counted' + falls')
            BY <4>2, <5>2, <5>4, <6>1, OneMore
          <6> QED
            BY <4>4, <6>2
        <5> QED
          BY <5>1, <5>3, <5>4
      <4> QED
        BY <3>2, <4>3, <4>4
    <3> QED
      BY <3>1, <3>3, <3>4 DEF LegacyInv, SecondWayOnlyUnchecked
  <2>5. CASE UNCHANGED legacyVars
    BY <2>5 DEF LegacyInv, SecondWayOnlyUnchecked, legacyVars
  <2> QED
    BY <2>1, <2>2, <2>3, <2>4, <2>5 DEF LegacyNext
<1>3. LegacyInv => SecondWayOnlyUnchecked
  BY DEF LegacyInv
<1> QED
  BY <1>1, <1>2, <1>3, PTL DEF LegacySpec

-----------------------------------------------------------------------------
(* The types of a step with a decision, and of one without. *)

\* What the argument above does not need: what the learner and the registry were
\* told, the class that is answered, and the counter of retries after its last step.
StepKeeps ==
    /\ llm \in BOOLEAN /\ fed \subseteq MethodType /\ unavailable \subseteq MethodType
    /\ transient <= MaxRetries + 1
    /\ answer.class \in FailureClass \union {"none"}

LEMMA StepKeepsInductive == StepInv /\ StepKeeps /\ [StepNext]_stepVars => StepKeeps'
<1> SUFFICES ASSUME StepInv, StepKeeps, [StepNext]_stepVars PROVE StepKeeps'
  OBVIOUS
<1>1. /\ decision.method \in MethodType /\ transient \in Nat
      /\ stage = "invoke" => transient <= MaxRetries
  BY DEF StepInv, Typed, OnTrack, Counted
<1>2. ASSUME NEW cls \in FailureClass, NEW why, HandleFailure(cls, why)
      PROVE  /\ fed' \subseteq MethodType /\ unavailable' \subseteq MethodType
             /\ answer'.class \in FailureClass \union {"none"}
  BY <1>1, <1>2 DEF StepKeeps, HandleFailure, Answer
<1>3. ASSUME NEW cls \in FailureClass, AfterException(cls), stage = "invoke"
      PROVE  /\ fed' \subseteq MethodType /\ unavailable' \subseteq MethodType
             /\ transient' <= MaxRetries + 1
             /\ answer'.class \in FailureClass \union {"none"}
  <2>1. transient' <= MaxRetries + 1
    BY <1>1, <1>3 DEF StepKeeps, AfterException
  <2>2. CASE HandleFailure(cls, "tool")
    BY <1>2, <2>1, <2>2
  <2>3. CASE UNCHANGED <<fed, unavailable, answer>>
    BY <2>1, <2>3 DEF StepKeeps
  <2> QED
    BY <1>3, <2>2, <2>3 DEF AfterException
<1>4. ASSUME NEW cls, ClassifyMessage(cls) PROVE llm' \in BOOLEAN
  BY <1>4 DEF StepKeeps, ClassifyMessage
<1>5. CASE Round
  <2>1. "ENV_PERMANENT" \in FailureClass
    BY DEF FailureClass
  <2> QED
    BY <1>5, <2>1 DEF StepKeeps, Round, Answer
<1>6. CASE Guard \/ Refocus
  <2>1. "ENV_TRANSIENT" \in FailureClass /\ UNCHANGED <<llm, transient>>
    BY <1>6 DEF FailureClass, Guard, Refocus
  <2>2. CASE HandleFailure("ENV_TRANSIENT", "ui")
    BY <1>2, <2>1, <2>2 DEF StepKeeps
  <2>3. CASE UNCHANGED <<fed, unavailable, answer>>
    BY <2>1, <2>3 DEF StepKeeps
  <2> QED
    BY <1>6, <2>2, <2>3 DEF Guard, Refocus
<1>7. CASE Succeed
  BY <1>7 DEF StepKeeps, Succeed, Answer, FailureClass
<1>8. CASE Report
  <2>1. PICK cls \in FailureClass : ClassifyMessage(cls) /\ HandleFailure(cls, "tool")
    BY <1>8 DEF Report
  <2>2. transient' = transient
    BY <1>8 DEF Report
  <2> QED
    BY <1>2, <1>4, <2>1, <2>2 DEF StepKeeps
<1>9. CASE Raise
  <2>1. PICK cls \in FailureClass : AfterException(cls) /\ llm' \in BOOLEAN
    <3>1. CASE \E e \in TypedExceptions(decision.method) :
                  AfterException(ClassOfException(e)) /\ UNCHANGED llm
      BY <1>1, <3>1, ExceptionClasses DEF StepKeeps
    <3>2. CASE \E cls \in FailureClass : ClassifyMessage(cls) /\ AfterException(cls)
      BY <1>4, <3>2
    <3> QED
      BY <1>9, <3>1, <3>2 DEF Raise
  <2>2. stage = "invoke"
    BY <1>9 DEF Raise
  <2> QED
    BY <1>3, <2>1, <2>2 DEF StepKeeps
<1>10. CASE UNCHANGED stepVars
  BY <1>10 DEF StepKeeps, stepVars
<1> QED
  BY <1>5, <1>6, <1>7, <1>8, <1>9, <1>10 DEF StepNext

LEMMA StepKeepsInitially == StepInit => StepKeeps
  BY DEF StepInit, StepKeeps, NoAnswer

LEMMA StepIsTyped == StepInv /\ StepKeeps => StepTypeOK
<1> SUFFICES ASSUME StepInv, StepKeeps PROVE StepTypeOK
  OBVIOUS
<1>1. rounds \in 0..(MaxTotal + 1)
  <2>1. decision.method \in MethodType /\ rounds \in Nat /\ rounds <= Level(decision.method)
    BY DEF StepInv, Typed, OnTrack, Counted
  <2>2. Level(decision.method) <= 4 /\ Level(decision.method) \in Nat
    BY <2>1, Levels
  <2> QED
    BY <2>1, <2>2
<1> QED
  BY <1>1 DEF StepInv, Typed, StepKeeps, StepTypeOK

\* The state a step with a decision keeps has the types it should have, for any
\* limit on retries and rounds.
THEOREM StepTypeCorrect == StepSpec => []StepTypeOK
  BY StepKeepsInitially, StepIsTyped, StepInitInv, StepInvInductive, StepKeepsInductive, PTL
     DEF StepSpec

LEMMA LegacyTypesInitially == LegacyInit => LegacyTypeOK
<1> SUFFICES ASSUME NEW k \in 1..4 PROVE BuildWaterfall(k) \in Seq(Tier)
  BY DEF LegacyInit, LegacyTypeOK
<1>1. \A i \in 1..4 : Waterfall[i] \in Tier
  BY DEF Waterfall, Tier
<1>2. SubSeq(Waterfall, k, 4) \in Seq(Tier)
  BY <1>1, SubSeqProperties
<1>3. SubSeq(Waterfall, 1, k - 1) \in Seq(Tier)
  <2>1. k - 1 \in Int /\ \A i \in 1..(k - 1) : Waterfall[i] \in Tier
    BY <1>1
  <2> QED
    BY <2>1, SubSeqProperties
<1> QED
  BY <1>2, <1>3, ConcatProperties DEF BuildWaterfall

LEMMA LegacyTypesStep == LegacyTypeOK /\ [LegacyNext]_legacyVars => LegacyTypeOK'
<1> SUFFICES ASSUME LegacyTypeOK, [LegacyNext]_legacyVars PROVE LegacyTypeOK'
  OBVIOUS
<1>1. ASSUME NEW c \in Category, CountRetry(c) PROVE counted' \in 0..MaxRetries
  BY <1>1 DEF LegacyTypeOK, CountRetry, PeekShouldRetry
<1>2. CASE Prepare
  BY <1>2 DEF LegacyTypeOK, Prepare, Return
<1>3. CASE DispatchPlugin
  BY <1>3 DEF LegacyTypeOK, DispatchPlugin, Return
<1>4. CASE ExecuteCapability
  <2>1. counted' \in 0..MaxRetries
    BY <1>1, <1>4 DEF LegacyTypeOK, ExecuteCapability
  <2> QED
    BY <1>4, <2>1 DEF LegacyTypeOK, ExecuteCapability, Return
<1>5. CASE TryTier
  <2>1. counted' \in 0..MaxRetries
    BY <1>1, <1>5 DEF LegacyTypeOK, TryTier
  <2>2. tiers' \in Seq(Tier)
    BY <1>5, HeadTailProperties DEF LegacyTypeOK, TryTier
  <2>3. tried' \in Seq(Tier)
    <3>1. tried' = tried \/ (Head(tiers) \in able /\ tried' = Append(tried, Head(tiers)))
      BY <1>5 DEF TryTier
    <3> QED
      BY <3>1 DEF LegacyTypeOK
  <2>4. falls' \in 0..MaxRetries
    <3>1. falls' = falls \/ (falls < MaxRetries /\ falls' = falls + 1)
      BY <1>5 DEF TryTier
    <3> QED
      BY <3>1 DEF LegacyTypeOK
  <2> QED
    BY <1>5, <2>1, <2>2, <2>3, <2>4 DEF LegacyTypeOK, TryTier, Return
<1>6. CASE UNCHANGED legacyVars
  BY <1>6 DEF LegacyTypeOK, legacyVars
<1> QED
  BY <1>2, <1>3, <1>4, <1>5, <1>6 DEF LegacyNext

\* The state a step without a decision keeps has the types it should have.
THEOREM LegacyTypeCorrect == LegacySpec => []LegacyTypeOK
  BY LegacyTypesInitially, LegacyTypesStep, PTL DEF LegacySpec

-----------------------------------------------------------------------------
(* The terminal of a command.                                              *)

\* Where a command may have run: anywhere but by typing into the own terminal.
OutsideOwn == {e \in [profile : {"ghost", "bridge", "lab"}, window : Window] :
                e.profile = "bridge" => e.window # OwnWindow}

\* A command that is still being placed has not run; neither a choice nor one of
\* the choices offered is the own terminal.
Placed ==
    /\ place # "over" => effects = << >> /\ outcome = "none"
    /\ outcome = "done" => effects # << >>
    /\ Len(effects) <= 1 /\ effects \in Seq(OutsideOwn)
    /\ target.profile = "bridge" => target.window # OwnWindow
    /\ OwnWindow \notin target.candidates

TerminalInv == TerminalTypeOK /\ Placed

LEMMA TerminalStarted == TerminalInit => TerminalInv
<1> SUFFICES ASSUME TerminalInit PROVE TerminalInv
    OBVIOUS
<1>1. /\ listed \in Seq(Window) /\ IsInjective(listed)
    BY DEF TerminalInit, Injection, IsInjective
<1>2. near \in [Window -> 0 .. 10]
    BY DEF TerminalInit
<1>3. /\ Ghost.profile = "ghost" /\ Ghost.window = OwnWindow /\ Ghost.candidates = {}
    BY DEF Ghost
<1> QED BY <1>1, <1>2, <1>3, WindowAssumption
        DEF TerminalInit, TerminalInv, TerminalTypeOK, Placed

\* Raising and closing a window keep the list one of distinct windows.
LEMMA RaisingWorks ==
    ASSUME TerminalTypeOK, NEW k \in 1 .. Len(listed) + 1, NEW w \in Window,
           \A i \in DOMAIN listed : listed[i] = w <=> i = k
    PROVE  /\ Raised(w, k) \in Seq(Window) /\ IsInjective(Raised(w, k))
           /\ Range(Raised(w, k)) = Range(listed) \union {w}
           /\ Raised(w, k)[1] = w
<1> DEFINE n == IF k > Len(listed) THEN k ELSE Len(listed)
           up(i) == IF i = 1 THEN w ELSE IF i <= k THEN listed[i - 1] ELSE listed[i]
<1>1. /\ listed \in [1 .. Len(listed) -> Window] /\ Len(listed) \in Nat
      /\ DOMAIN listed = 1 .. Len(listed) /\ IsInjective(listed)
    BY DEF TerminalTypeOK
<1>2. n \in Nat /\ 1 \in 1 .. n /\ k \in 1 .. n
    BY <1>1
<1>3. \A i \in 1 .. n : up(i) \in Window
    BY <1>1, <1>2
<1>4. Raised(w, k) = [i \in 1 .. n |-> up(i)]
    BY DEF Raised
<1>5. Raised(w, k) \in Seq(Window) /\ Raised(w, k)[1] = w
    BY <1>2, <1>3, <1>4
<1>6. ASSUME NEW i \in 1 .. n, NEW j \in 1 .. n, up(i) = up(j) PROVE i = j
  <2> DEFINE down(h) == IF h <= k THEN h - 1 ELSE h
  <2>1. \A h \in 2 .. n : down(h) \in DOMAIN listed /\ down(h) # k /\ up(h) = listed[down(h)]
      BY <1>1, <1>2
  <2>2. \A h \in 2 .. n : up(h) # w
      BY <2>1
  <2>3. CASE i = 1 \/ j = 1
      BY <2>2, <2>3, <1>2, <1>6
  <2>4. CASE i # 1 /\ j # 1
    <3>1. down(i) = down(j)
        BY <2>1, <2>4, <1>1, <1>2, <1>6 DEF IsInjective
    <3> QED BY <3>1, <2>1, <2>4, <1>2
  <2> QED BY <2>3, <2>4
<1>7. IsInjective(Raised(w, k))
    BY <1>4, <1>6 DEF IsInjective
<1>8. Range(Raised(w, k)) = Range(listed) \union {w}
  <2>1. DOMAIN Raised(w, k) = 1 .. n /\ \A i \in 1 .. n : Raised(w, k)[i] = up(i)
      BY <1>4
  <2>2. ASSUME NEW i \in 1 .. n PROVE up(i) \in Range(listed) \union {w}
      BY <1>1, <1>2 DEF Range
  <2>3. ASSUME NEW h \in 1 .. Len(listed) PROVE \E i \in 1 .. n : up(i) = listed[h]
    <3>1. CASE h = k
        BY <3>1, <1>1, <1>2
    <3>2. CASE h < k
      <4>1. h + 1 \in 1 .. n /\ up(h + 1) = listed[h]
          BY <3>2, <1>1, <1>2
      <4> QED BY <4>1
    <3>3. CASE h > k
      <4>1. h \in 1 .. n /\ up(h) = listed[h]
          BY <3>3, <1>1, <1>2
      <4> QED BY <4>1
    <3> QED BY <3>1, <3>2, <3>3, <1>1
  <2>4. up(1) = w
      OBVIOUS
  <2> HIDE DEF up, n
  <2>5. Range(Raised(w, k)) \subseteq Range(listed) \union {w}
      BY <2>1, <2>2 DEF Range
  <2>6. \A h \in 1 .. Len(listed) : listed[h] \in Range(Raised(w, k))
      BY <2>1, <2>3 DEF Range
  <2>7. w \in Range(Raised(w, k))
      BY <2>1, <2>4, <1>2 DEF Range
  <2>8. Range(listed) \subseteq Range(Raised(w, k))
      BY <2>6, <1>1 DEF Range
  <2> QED BY <2>5, <2>7, <2>8
<1> QED BY <1>5, <1>7, <1>8

LEMMA ClosingWorks ==
    ASSUME TerminalTypeOK, NEW k \in DOMAIN listed
    PROVE  /\ Without(k) \in Seq(Window) /\ IsInjective(Without(k))
           /\ Range(listed) \ {listed[k]} \subseteq Range(Without(k))
<1>1. /\ listed \in [1 .. Len(listed) -> Window] /\ Len(listed) \in Nat
      /\ DOMAIN listed = 1 .. Len(listed) /\ IsInjective(listed) /\ k \in 1 .. Len(listed)
    BY DEF TerminalTypeOK
<1>2. Len(listed) - 1 \in Nat
    BY <1>1
<1>3. \A i \in 1 .. Len(listed) - 1 :
         (IF i < k THEN listed[i] ELSE listed[i + 1]) \in Window
    BY <1>1
<1>4. Without(k) \in Seq(Window)
    BY <1>2, <1>3 DEF Without
<1>5. IsInjective(Without(k))
  <2> SUFFICES ASSUME NEW i \in 1 .. Len(listed) - 1, NEW j \in 1 .. Len(listed) - 1,
                      Without(k)[i] = Without(k)[j]
               PROVE  i = j
      BY DEF IsInjective, Without
  <2> DEFINE position(h) == IF h < k THEN h ELSE h + 1
  <2>1. \A h \in 1 .. Len(listed) - 1 : position(h) \in DOMAIN listed /\ Without(k)[h] = listed[position(h)]
      BY <1>1 DEF Without
  <2>2. position(i) = position(j)
      BY <2>1, <1>1 DEF IsInjective
  <2> QED BY <2>2, <1>1
<1>6. ASSUME NEW h \in 1 .. Len(listed), listed[h] # listed[k]
      PROVE  listed[h] \in Range(Without(k))
  <2>1. CASE h < k
    <3>1. h \in DOMAIN Without(k) /\ Without(k)[h] = listed[h]
        BY <2>1, <1>1 DEF Without
    <3> QED BY <3>1 DEF Range
  <2>2. CASE h > k
    <3>1. h - 1 \in DOMAIN Without(k) /\ Without(k)[h - 1] = listed[h]
        BY <2>2, <1>1 DEF Without
    <3> QED BY <3>1 DEF Range
  <2> QED BY <2>1, <2>2, <1>1, <1>6
<1> QED BY <1>1, <1>4, <1>5, <1>6 DEF Range

LEMMA DesktopStep == TerminalInv /\ DesktopChanges => TerminalInv'
<1> SUFFICES ASSUME TerminalInv, DesktopChanges PROVE TerminalInv'
    OBVIOUS
<1> USE DEF TerminalInv
<1>1. Placed'
    BY DEF DesktopChanges, Placed
<1>2. /\ listed' \in Seq(Window) /\ IsInjective(listed')
      /\ writable' \subseteq pts' /\ pts' \subseteq Range(listed')
  <2>1. CASE Opens
    <3>1. PICK k \in 1 .. Len(listed) + 1, w \in Window :
             /\ listed' = Raised(w, k)
             /\ \A i \in DOMAIN listed : listed[i] = w <=> i = k
      <4>1. DOMAIN listed = 1 .. Len(listed) /\ \A i \in DOMAIN listed : listed[i] \in Window
          BY DEF TerminalTypeOK
      <4> DEFINE Raises(i, u) == /\ listed' = Raised(u, i)
                                /\ \A j \in DOMAIN listed : listed[j] = u <=> j = i
      <4>2. ASSUME NEW k \in DOMAIN listed, listed' = Raised(listed[k], k)
            PROVE  \E i \in 1 .. Len(listed) + 1, u \in Window : Raises(i, u)
        <5>1. k \in 1 .. Len(listed) + 1 /\ listed[k] \in Window
            BY <4>1 DEF TerminalTypeOK
        <5>2. \A j \in DOMAIN listed : listed[j] = listed[k] <=> j = k
            BY DEF TerminalTypeOK, IsInjective
        <5> QED BY <5>1, <5>2, <4>2
      <4>3. ASSUME NEW w \in Window \ Range(listed), listed' = Raised(w, Len(listed) + 1)
            PROVE  \E i \in 1 .. Len(listed) + 1, u \in Window : Raises(i, u)
          BY <4>1, <4>3 DEF TerminalTypeOK, Range
      <4> QED BY <2>1, <4>2, <4>3 DEF Opens
    <3>2. pts' \in {pts, pts \union {w}} /\ writable' = writable
        BY <2>1, <3>1, RaisingWorks DEF Opens
    <3> QED BY <3>1, <3>2, RaisingWorks DEF TerminalTypeOK
  <2>2. CASE Closes
    <3>1. PICK k \in DOMAIN listed :
             /\ listed' = Without(k)
             /\ pts' = pts \ {listed[k]} /\ writable' = writable \ {listed[k]}
        BY <2>2 DEF Closes
    <3> QED BY <3>1, ClosingWorks DEF TerminalTypeOK
  <2>3. CASE TurnsWritable
      BY <2>3 DEF TurnsWritable, TerminalTypeOK
  <2> QED BY <2>1, <2>2, <2>3 DEF DesktopChanges
<1>3. changes' \in 0 .. MaxChanges
    BY WindowAssumption DEF DesktopChanges, TerminalTypeOK
<1> QED BY <1>1, <1>2, <1>3 DEF DesktopChanges, TerminalTypeOK

LEMMA FocusStep == TerminalInv /\ PollFocus => TerminalInv'
<1> SUFFICES ASSUME TerminalInv, PollFocus PROVE TerminalInv'
    OBVIOUS
<1> USE DEF TerminalInv
<1>1. Placed'
    BY DEF PollFocus, Placed
<1>2. ASSUME NEW w \in Window
      PROVE  Pushed(w) \in Seq(Window) /\ Len(Pushed(w)) <= StackDepth
  <2> DEFINE n == IF Len(recent) < StackDepth THEN Len(recent) + 1 ELSE StackDepth
  <2>1. /\ n \in Nat /\ n <= StackDepth /\ recent \in [1 .. Len(recent) -> Window]
        /\ n <= Len(recent) + 1 /\ Len(recent) \in Nat
      BY WindowAssumption DEF TerminalTypeOK
  <2>2. \A k \in 1 .. n : (IF k = 1 THEN w ELSE recent[k - 1]) \in Window
      BY <2>1
  <2>3. Pushed(w) = [k \in 1 .. n |-> IF k = 1 THEN w ELSE recent[k - 1]]
      BY DEF Pushed
  <2> HIDE DEF n
  <2> QED BY <2>1, <2>2, <2>3
<1>3. recent' \in Seq(Window) /\ Len(recent') <= StackDepth
  <2>1. PICK w \in Terminals : recent' = Pushed(w)
      BY DEF PollFocus
  <2>2. w \in Window
      BY <2>1 DEF Terminals, Range, TerminalTypeOK
  <2> QED BY <2>1, <2>2, <1>2
<1> QED BY <1>1, <1>3 DEF PollFocus, TerminalTypeOK

\* The own terminal is never chosen and never offered.
LEMMA OwnIsLeftOut ==
    ASSUME TerminalTypeOK, NEW found \in Resolved
    PROVE  /\ found.profile \in {"ghost", "bridge", "lab", "ambiguous"}
           /\ found.window \in Window /\ found.candidates \subseteq Window
           /\ found.profile = "bridge" => found.window # OwnWindow
           /\ OwnWindow \notin found.candidates
<1>1. Terminals \subseteq Window /\ OwnWindow \notin Terminals
    BY DEF Terminals, Range, TerminalTypeOK
<1>2. \A w \in Terminals :
         /\ Bridge(w).profile = "bridge" /\ Bridge(w).window = w /\ Bridge(w).candidates = {}
    BY DEF Bridge
<1>3. \/ found = Ghost \/ found = Lab \/ found = Ambiguous(TopGroup \intersect pts)
      \/ \E w \in Terminals : found = Bridge(w)
    BY DEF Resolved, BestOf
<1>4. CASE found = Ghost \/ found = Lab
    BY <1>4, WindowAssumption DEF Ghost, Lab
<1>5. CASE found = Ambiguous(TopGroup \intersect pts)
  <2>1. TopGroup \subseteq Terminals
      BY DEF TopGroup
  <2>2. /\ found.profile = "ambiguous" /\ found.window = OwnWindow
        /\ found.candidates = TopGroup \intersect pts
      BY <1>5 DEF Ambiguous
  <2> QED BY <2>1, <2>2, <1>1, WindowAssumption
<1>6. CASE \E w \in Terminals : found = Bridge(w)
    BY <1>1, <1>2, <1>6
<1> QED BY <1>3, <1>4, <1>5, <1>6

LEMMA ResolveStep == TerminalInv /\ ResolveProfile => TerminalInv'
<1> SUFFICES ASSUME TerminalInv, ResolveProfile PROVE TerminalInv'
    OBVIOUS
<1>1. PICK found \in Resolved :
         /\ target' = found /\ place' \in {"preflight", "ask", "run"}
    BY DEF ResolveProfile
<1>2. UNCHANGED <<listed, pts, writable, recent, near, hint, effects, outcome, changes>>
      /\ place = "resolve"
    BY DEF ResolveProfile
<1> QED BY <1>1, <1>2, OwnIsLeftOut DEF TerminalInv, TerminalTypeOK, Placed

LEMMA PreflightStep == TerminalInv /\ Preflight => TerminalInv'
    BY WindowAssumption
    DEF TerminalInv, TerminalTypeOK, Placed, Preflight, Ghost

LEMMA AskStep == TerminalInv /\ AskUser => TerminalInv'
<1> SUFFICES ASSUME TerminalInv, AskUser PROVE TerminalInv'
    OBVIOUS
<1>1. CASE \E w \in target.candidates : target' = Bridge(w) /\ place' = "run" /\ UNCHANGED outcome
    BY <1>1 DEF TerminalInv, TerminalTypeOK, Placed, AskUser, Bridge
<1>2. CASE Over("failed") /\ UNCHANGED target
    BY <1>2 DEF TerminalInv, TerminalTypeOK, Placed, AskUser, Over
<1> QED BY <1>1, <1>2 DEF AskUser

LEMMA TerminalRunStep == TerminalInv /\ DispatchWithProfile => TerminalInv'
<1> SUFFICES ASSUME TerminalInv, DispatchWithProfile PROVE TerminalInv'
    OBVIOUS
<1>1. effects = << >> /\ outcome = "none"
    BY DEF DispatchWithProfile, TerminalInv, Placed
<1>2. place' = "over" /\ outcome' \in {"done", "failed"}
    BY DEF DispatchWithProfile, ExecuteBridge, ExecuteLab, ExecuteGhost, Over
<1>3. \/ effects' = << >> /\ outcome' = "failed"
      \/ \E e \in OutsideOwn : effects' = <<e>>
  <2>1. ASSUME NEW p \in {"ghost", "bridge", "lab"}, NEW w \in Window,
               p = "bridge" => w # OwnWindow, RunsIn(p, w)
        PROVE  \E e \in OutsideOwn : effects' = <<e>>
    <3> DEFINE e == [profile |-> p, window |-> w]
    <3>1. effects' = <<e>>
        BY <1>1, <2>1 DEF RunsIn
    <3>2. e \in OutsideOwn
        BY <2>1 DEF OutsideOwn
    <3> QED BY <3>1, <3>2
  <2>2. CASE ExecuteGhost
      BY <2>1, <2>2, WindowAssumption DEF ExecuteGhost
  <2>3. CASE ExecuteBridge /\ target.profile = "bridge"
      BY <2>1, <2>2, <2>3, <1>1 DEF ExecuteBridge, TerminalInv, Placed, TerminalTypeOK, Over
  <2>4. CASE ExecuteLab
      BY <2>1, <2>2, <2>4, <1>1, WindowAssumption DEF ExecuteLab, Over
  <2> QED BY <2>2, <2>3, <2>4 DEF DispatchWithProfile
<1>4. ASSUME NEW e \in OutsideOwn, effects' = <<e>>
      PROVE  /\ Len(effects') <= 1 /\ effects' \in Seq(OutsideOwn) /\ effects' # << >>
             /\ effects' \in Seq([profile : {"ghost", "bridge", "lab"}, window : Window])
  <2>1. <<e>> \in Seq(OutsideOwn) /\ Len(<<e>>) = 1 /\ <<e>> # << >>
      OBVIOUS
  <2>2. e \in [profile : {"ghost", "bridge", "lab"}, window : Window]
      BY DEF OutsideOwn
  <2>3. <<e>> \in Seq([profile : {"ghost", "bridge", "lab"}, window : Window])
      BY <2>2
  <2> QED BY <1>4, <2>1, <2>3
<1>5. ASSUME effects' = << >>
      PROVE  /\ Len(effects') <= 1 /\ effects' \in Seq(OutsideOwn)
             /\ effects' \in Seq([profile : {"ghost", "bridge", "lab"}, window : Window])
  <2>1. << >> \in Seq(OutsideOwn) /\ Len(<< >>) = 0
      OBVIOUS
  <2>2. << >> \in Seq([profile : {"ghost", "bridge", "lab"}, window : Window])
      OBVIOUS
  <2> QED BY <1>5, <2>1, <2>2
<1> QED BY <1>2, <1>3, <1>4, <1>5 DEF DispatchWithProfile, TerminalInv, TerminalTypeOK, Placed

LEMMA TerminalStep == TerminalInv /\ [TerminalNext]_terminalVars => TerminalInv'
<1> SUFFICES ASSUME TerminalInv, [TerminalNext]_terminalVars PROVE TerminalInv'
    OBVIOUS
<1>1. CASE UNCHANGED terminalVars
    BY <1>1 DEF terminalVars, TerminalInv, TerminalTypeOK, Placed
<1> QED BY <1>1, DesktopStep, FocusStep, ResolveStep, PreflightStep, AskStep, TerminalRunStep
        DEF TerminalNext, Placing

\* Until it is carried out a command has run nowhere, and the own terminal is
\* neither the choice nor one of the choices offered.
THEOREM TerminalInvariant == TerminalSpec => []TerminalInv
  BY TerminalStarted, TerminalStep, PTL DEF TerminalSpec

\* The variables of the choice of a terminal keep their types.
THEOREM TerminalTypeCorrect == TerminalSpec => []TerminalTypeOK
<1>1. TerminalInv => TerminalTypeOK
    BY DEF TerminalInv
<1> QED BY <1>1, TerminalInvariant, PTL

\* However windows come and go between the choice, the check and the write, a
\* command runs in one place at most, is not reported done without having run,
\* and is not typed into the terminal Operonix runs in.
THEOREM RunsInOnePlace == TerminalSpec => []CommandRunsOnce
<1>1. TerminalInv => CommandRunsOnce
  <2> SUFFICES ASSUME TerminalInv PROVE CommandRunsOnce
      OBVIOUS
  <2>1. \A k \in DOMAIN effects : effects[k] \in OutsideOwn
      BY DEF TerminalInv, Placed
  <2> QED BY <2>1 DEF TerminalInv, Placed, CommandRunsOnce, OutsideOwn
<1> QED BY <1>1, TerminalInvariant, PTL

-----------------------------------------------------------------------------
(* The prompts of a command.                                               *)

EventName ==
    {"sudo_password_required", "sudo_password_provided", "interactive_prompt",
     "interactive_prompt_widget", "interactive_response", "interactive_prompt_responded",
     "trust_auto_approve_suggestion", "trust_suggestion_answered", "user_response_received"}

Event == [name : EventName, task : Job, accept : BOOLEAN]
TrustRecord == [known : BOOLEAN, state : {"observe", "suggest", "auto"},
                approvals : 0..Threshold]

\* The types the argument needs.
CommandTyped ==
    /\ job \in [Job -> {"starts", "password", "runs", "done"}]
    /\ reader \in [Job -> [Stream -> {"idle", "reads", "locked", "shut"}]]
    /\ prompts \in 0..MaxPrompts
    /\ events \in Seq(Event)
    /\ trust \in TrustRecord
    /\ slot \in [Question -> Job \union {NoJob}]

\* Nobody waits for an answer before the process runs or after it ended.
NobodyWaitsInVain ==
    \A t \in Job : job[t] # "runs" => \A s \in Stream : reader[t][s] # "locked"

CommandInv == CommandTyped /\ NobodyWaitsInVain

LEMMA MessageIsEvent ==
  ASSUME NEW name \in EventName, NEW t \in Job
  PROVE  Message(name, t) \in Event
BY DEF Message, Event

\* What the bus holds stays typed.
LEMMA EventsAppend ==
  ASSUME events \in Seq(Event), NEW e \in Event
  PROVE  Append(events, e) \in Seq(Event)
BY AppendProperties

LEMMA EventsTail ==
  ASSUME events \in Seq(Event), events # << >>
  PROVE  Head(events) \in Event /\ Head(events).task \in Job /\ Tail(events) \in Seq(Event)
<1>1. Head(events) \in Event /\ Tail(events) \in Seq(Event)
  BY HeadTailProperties
<1> QED BY <1>1 DEF Event

LEMMA EventsReplace ==
  ASSUME events \in Seq(Event), events # << >>, NEW s \in Seq(Event)
  PROVE  Tail(events) \o s \in Seq(Event)
BY EventsTail, ConcatProperties

LEMMA CommandInitially == CommandInit => CommandInv
<1> SUFFICES ASSUME CommandInit PROVE CommandInv
  OBVIOUS
<1>1. events \in Seq(Event)
  BY EmptySeq DEF CommandInit
<1>2. trust \in TrustRecord
  BY TrustAssumption DEF CommandInit, TrustRecord
<1>3. job \in [Job -> {"starts", "password", "runs", "done"}] /\ reader \in [Job -> [Stream -> {"idle", "reads", "locked", "shut"}]]
  BY DEF CommandInit
<1>4. prompts \in 0..MaxPrompts /\ slot \in [Question -> Job \union {NoJob}]
  BY TrustAssumption DEF CommandInit
<1>5. NobodyWaitsInVain
  BY DEF CommandInit, NobodyWaitsInVain
<1> QED BY <1>1, <1>2, <1>3, <1>4, <1>5 DEF CommandInv, CommandTyped

\* The tool of one task: its process and its two readers.
LEMMA ToolStep ==
  ASSUME CommandInv, NEW t \in Job, Tool(t)
  PROVE  CommandInv'
<1> USE DEF CommandInv, CommandTyped
<1> DEFINE JobType == [Job -> {"starts", "password", "runs", "done"}]
           ReaderType == [Job -> [Stream -> {"idle", "reads", "locked", "shut"}]]
<1>1. CASE StartCommand(t)
  <2>1. job' \in JobType /\ reader' \in ReaderType
    BY <1>1 DEF StartCommand, StartProcess
  <2>2. events' \in Seq(Event)
    BY <1>1, EventsAppend, MessageIsEvent DEF StartCommand, EventName
  <2>3. NobodyWaitsInVain'
    BY <1>1 DEF StartCommand, StartProcess, NobodyWaitsInVain
  <2> QED BY <1>1, <2>1, <2>2, <2>3 DEF StartCommand
<1>2. CASE PasswordTimesOut(t)
  BY <1>2 DEF PasswordTimesOut, NobodyWaitsInVain
<1>3. CASE FinishCommand(t)
  <2>1. job' \in JobType /\ reader' \in ReaderType
    BY <1>3 DEF FinishCommand
  <2>2. NobodyWaitsInVain'
    BY <1>3 DEF FinishCommand, NobodyWaitsInVain
  <2> QED BY <1>3, <2>1, <2>2 DEF FinishCommand
<1>4. ASSUME NEW s \in Stream, SoftLock(t, s)
      PROVE  CommandInv'
  <2>1. job' \in JobType /\ reader' \in ReaderType
    BY <1>4 DEF SoftLock
  <2>2. events' \in Seq(Event)
    BY <1>4, EventsAppend, MessageIsEvent DEF SoftLock, EventName
  <2>3. prompts' \in 0..MaxPrompts
    BY <1>4, TrustAssumption DEF SoftLock
  <2>4. NobodyWaitsInVain'
    BY <1>4 DEF SoftLock, NobodyWaitsInVain
  <2> QED BY <1>4, <2>1, <2>2, <2>3, <2>4 DEF SoftLock
<1>5. ASSUME NEW s \in Stream, PromptTimesOut(t, s) \/ EndOfStream(t, s)
      PROVE  CommandInv'
  <2>1. job' \in JobType
    BY <1>5 DEF PromptTimesOut, EndOfStream
  <2>2. \E now \in {"reads", "shut"} : reader' = [reader EXCEPT ![t][s] = now]
    BY <1>5 DEF PromptTimesOut, EndOfStream
  <2>3. UNCHANGED <<job, prompts, events, trust, slot>>
    BY <1>5 DEF PromptTimesOut, EndOfStream
  <2>4. NobodyWaitsInVain'
    BY <2>2, <2>3 DEF NobodyWaitsInVain
  <2>5. reader' \in ReaderType
    BY <2>2
  <2>6. prompts' \in 0..MaxPrompts /\ events' \in Seq(Event) /\ trust' \in TrustRecord
        /\ slot' \in [Question -> Job \union {NoJob}]
    BY <2>3
  <2> QED BY <2>1, <2>4, <2>5, <2>6
<1> QED BY <1>1, <1>2, <1>3, <1>4, <1>5 DEF Tool

\* A message is handled by the tool, by the trust layer or by the panel.
LEMMA BusStep ==
  ASSUME CommandInv, BusDelivers
  PROVE  CommandInv'
<1> USE DEF CommandInv, CommandTyped
<1> DEFINE JobType == [Job -> {"starts", "password", "runs", "done"}]
           ReaderType == [Job -> [Stream -> {"idle", "reads", "locked", "shut"}]]
           t == Head(events).task
<1>0. t \in Job /\ Tail(events) \in Seq(Event) /\ Head(events) \in Event /\ events # << >>
  <2>1. events # << >>
    BY DEF BusDelivers, PasswordArrives, ResponseArrives, PromptArrives, ResponseIsRecorded,
           SuggestionIsAnswered, PanelShows, QuestionShown, AnswerIsDropped, Handles
  <2> QED BY <2>1, EventsTail
<1> HIDE DEF t
<1>1. CASE PasswordArrives
  <2>1. job' \in JobType /\ reader' \in ReaderType
    <3>1. job \in JobType /\ reader \in ReaderType /\ t \in Job
      BY <1>0
    <3> HIDE DEF CommandInv
    <3>2. CASE StartProcess(t)
      <4>1. [s \in Stream |-> "reads"] \in [Stream -> {"idle", "reads", "locked", "shut"}]
        OBVIOUS
      <4> QED BY <3>1, <3>2, <4>1 DEF StartProcess
    <3>3. CASE job' = [job EXCEPT ![t] = "done"] /\ UNCHANGED reader
      BY <3>1, <3>3
    <3> QED BY <1>1, <3>1, <3>2, <3>3 DEF PasswordArrives, t
  <2>2. NobodyWaitsInVain'
    <3>1. CASE job[t] = "password" /\ StartProcess(t)
      <4>1. \A u \in Job : job'[u] # "runs" => job[u] # "runs" /\ reader'[u] = reader[u]
        BY <1>0, <3>1 DEF StartProcess
      <4> QED BY <4>1 DEF NobodyWaitsInVain
    <3>2. CASE job[t] = "password" /\ job' = [job EXCEPT ![t] = "done"] /\ UNCHANGED reader
      BY <1>0, <3>2 DEF NobodyWaitsInVain
    <3>3. CASE UNCHANGED <<job, reader>>
      BY <3>3 DEF NobodyWaitsInVain
    <3> QED BY <1>1, <3>1, <3>2, <3>3 DEF PasswordArrives, t
  <2> QED BY <1>0, <1>1, <2>1, <2>2 DEF PasswordArrives
<1>2. CASE ResponseArrives
  <2>1. reader' = [reader EXCEPT ![t] = [s \in Stream |-> IF reader[t][s] = "locked" THEN "reads" ELSE reader[t][s]]]
    BY <1>2 DEF ResponseArrives, t
  <2>2. reader' \in ReaderType
    BY <1>0, <2>1
  <2>3. NobodyWaitsInVain'
    <3>1. job' = job
      BY <1>2 DEF ResponseArrives
    <3>2. \A u \in Job, s \in Stream : reader'[u][s] = "locked" => reader[u][s] = "locked"
      BY <1>0, <2>1
    <3> QED BY <3>1, <3>2 DEF NobodyWaitsInVain
  <2>4. events' \in Seq(Event)
    <3>1. Message("interactive_prompt_responded", t) \in Event
      BY <1>0, MessageIsEvent DEF EventName
    <3>2. Append(Tail(events), Message("interactive_prompt_responded", t)) \in Seq(Event)
      BY <1>0, <3>1, AppendProperties
    <3>3. events' = Append(Tail(events), Message("interactive_prompt_responded", t)) \/ events' = Tail(events)
      BY <1>2 DEF ResponseArrives, t
    <3> QED BY <1>0, <3>2, <3>3
  <2> QED BY <1>2, <2>2, <2>3, <2>4 DEF ResponseArrives
<1>3. CASE PromptArrives
  <2>1. PICK sent \in {<< >>, <<Message("interactive_response", t)>>,
                       <<Message("trust_auto_approve_suggestion", t),
                         Message("interactive_prompt_widget", t)>>,
                       <<Message("interactive_prompt_widget", t)>>} :
              events' = Tail(events) \o sent
    BY <1>3 DEF PromptArrives, Evaluate, t
  <2>2. \A name \in EventName : Message(name, t) \in Event
    BY <1>0, MessageIsEvent
  <2>3. sent \in Seq(Event)
    <3>1. \A name \in EventName : <<Message(name, t)>> \in Seq(Event)
      BY <2>2
    <3>2. \A n1, n2 \in EventName : <<Message(n1, t), Message(n2, t)>> \in Seq(Event)
      BY <2>2
    <3> QED BY <2>1, <3>1, <3>2, EmptySeq DEF EventName
  <2>4. events' \in Seq(Event)
    BY <1>0, <2>1, <2>3, EventsReplace
  <2>5. trust' \in TrustRecord
    BY <1>3 DEF PromptArrives, TrustRecord
  <2> QED BY <1>3, <2>4, <2>5 DEF PromptArrives, NobodyWaitsInVain
<1>4. CASE ResponseIsRecorded
  <2>1. trust' \in TrustRecord
    <3>1. trust.approvals + 1 \in 0..Threshold \/ trust.approvals >= Threshold
      BY TrustAssumption DEF TrustRecord
    <3>2. trust' = [trust EXCEPT !.known = TRUE, !.approvals = IF trust.approvals < Threshold
                                                               THEN trust.approvals + 1
                                                               ELSE trust.approvals]
      BY <1>4 DEF ResponseIsRecorded
    <3>3. trust' = [known |-> TRUE, state |-> trust.state,
                    approvals |-> IF trust.approvals < Threshold THEN trust.approvals + 1
                                                                 ELSE trust.approvals]
      BY <3>2 DEF TrustRecord
    <3> QED BY <3>1, <3>3, TrustAssumption DEF TrustRecord
  <2> QED BY <1>0, <1>4, <2>1 DEF ResponseIsRecorded, NobodyWaitsInVain
<1>5. CASE SuggestionIsAnswered
  <2>1. trust' \in TrustRecord
    <3>1. \/ trust' = trust
          \/ trust' = [trust EXCEPT !.state = "auto"]
          \/ trust' = [trust EXCEPT !.state = "observe", !.approvals = 0]
      BY <1>5 DEF SuggestionIsAnswered
    <3>2. [trust EXCEPT !.state = "auto"] \in TrustRecord
      BY DEF TrustRecord
    <3>3. 0 \in 0..Threshold
      BY TrustAssumption
    <3>4. \A n \in 0..Threshold : [trust EXCEPT !.state = "observe", !.approvals = n] \in TrustRecord
      BY DEF TrustRecord
    <3> QED BY <3>1, <3>2, <3>3, <3>4
  <2> QED BY <1>0, <1>5, <2>1 DEF SuggestionIsAnswered, NobodyWaitsInVain
<1>6. CASE PanelShows
  <2>1. slot' \in [Question -> Job \union {NoJob}]
    BY <1>0, <1>6 DEF PanelShows, QuestionShown, Question, t
  <2>2. events' = Tail(events) /\ UNCHANGED <<job, reader, prompts, trust>>
    BY <1>6 DEF PanelShows, QuestionShown
  <2> QED BY <1>0, <2>1, <2>2 DEF NobodyWaitsInVain
<1>7. CASE AnswerIsDropped
  BY <1>0, <1>7 DEF AnswerIsDropped, NobodyWaitsInVain
<1> QED BY <1>1, <1>2, <1>3, <1>4, <1>5, <1>6, <1>7 DEF BusDelivers

\* What the user says is put on the bus, for the task the panel remembers.
LEMMA UserStep ==
  ASSUME CommandInv, User
  PROVE  CommandInv'
<1> USE DEF CommandInv, CommandTyped
<1>1. slot' \in [Question -> Job \union {NoJob}] /\ UNCHANGED <<job, reader, prompts, trust>>
  BY DEF User, UserSubmitsPassword, UserAnswersPrompt, UserAnswersSuggestion, Question
<1>2. PICK e : events' = Append(events, e) /\ e \in Event
  <2>0. \A q \in Question : slot[q] # NoJob => slot[q] \in Job
    OBVIOUS
  <2>1. CASE UserSubmitsPassword
    BY <2>0, <2>1, MessageIsEvent DEF UserSubmitsPassword, Question, EventName
  <2>2. CASE UserAnswersPrompt
    BY <2>0, <2>2, MessageIsEvent DEF UserAnswersPrompt, Question, EventName
  <2>3. CASE UserAnswersSuggestion
    <3>1. PICK yes \in BOOLEAN :
            events' = Append(events, [Message("trust_suggestion_answered", slot["trust"]) EXCEPT !.accept = yes])
      BY <2>3 DEF UserAnswersSuggestion
    <3>2. Message("trust_suggestion_answered", slot["trust"]) \in Event
      BY <2>0, <2>3, MessageIsEvent DEF UserAnswersSuggestion, Question, EventName
    <3>3. [Message("trust_suggestion_answered", slot["trust"]) EXCEPT !.accept = yes] \in Event
      BY <3>2 DEF Event
    <3> QED BY <3>1, <3>3
  <2> QED BY <2>1, <2>2, <2>3 DEF User
<1>3. events' \in Seq(Event)
  BY <1>2, EventsAppend
<1> QED BY <1>1, <1>3 DEF NobodyWaitsInVain

LEMMA CommandStep ==
  ASSUME CommandInv, [CommandNext]_commandVars
  PROVE  CommandInv'
<1>1. CASE UNCHANGED commandVars
  BY <1>1 DEF CommandInv, CommandTyped, NobodyWaitsInVain, commandVars
<1>2. CASE CommandNext
  BY <1>2, ToolStep, BusStep, UserStep DEF CommandNext, CommandWork
<1> QED BY <1>1, <1>2

(* The invariant of commands that ask while they run. *)
THEOREM CommandInvariant == CommandSpec => []CommandInv
<1>1. CommandInv /\ [CommandNext]_commandVars => CommandInv'
  BY CommandStep
<1> QED BY CommandInitially, <1>1, PTL DEF CommandSpec

LEMMA CommandIsTyped == CommandInv => CommandTypeOK
<1> SUFFICES ASSUME CommandInv PROVE CommandTypeOK
  OBVIOUS
<1>1. \A k \in DOMAIN events : events[k] \in Event
  BY ElementOfSeq, LenProperties DEF CommandInv, CommandTyped
<1>2. \A k \in DOMAIN events : events[k].task \in Job
  BY <1>1 DEF Event
<1>3. trust.approvals \in 0..Threshold
  BY DEF CommandInv, CommandTyped, TrustRecord
<1> QED BY <1>2, <1>3 DEF CommandInv, CommandTyped, CommandTypeOK

(* Type correctness of the commands that ask while they run, the bus between  *)
(* them and the panel, the trust record and the panel's slots.                *)
THEOREM CommandTypeCorrect == CommandSpec => []CommandTypeOK
  BY CommandInvariant, CommandIsTyped, PTL

(* Whatever the user types too late, whatever the trust layer answers for another *)
(* command of the same pattern, and in whatever order the bus delivers: a command  *)
(* that has returned stays returned and its readers stay as they were left.        *)
THEOREM LateAnswersAreHarmless == CommandSpec => LateAnswerHarmless
<1> DEFINE Left == \A t \in Job : job[t] = "done" => job'[t] = "done" /\ reader'[t] = reader[t]
<1>1. ASSUME CommandInv, [CommandNext]_commandVars PROVE Left
  <2> SUFFICES ASSUME NEW t \in Job, job[t] = "done"
               PROVE  job'[t] = "done" /\ reader'[t] = reader[t]
    OBVIOUS
  <2> USE <1>1 DEF CommandInv, CommandTyped
  <2>1. CASE UNCHANGED commandVars
    BY <2>1 DEF commandVars
  <2>2. ASSUME NEW u \in Job, Tool(u) PROVE job'[t] = "done" /\ reader'[t] = reader[t]
    BY <2>2 DEF Tool, StartCommand, StartProcess, PasswordTimesOut, FinishCommand, SoftLock, PromptTimesOut, EndOfStream
  <2>3. CASE ResponseArrives
    <3> DEFINE u == Head(events).task
    <3>1. job' = job /\ reader' = [reader EXCEPT ![u] = [s \in Stream |-> IF reader[u][s] = "locked" THEN "reads" ELSE reader[u][s]]]
      BY <2>3 DEF ResponseArrives
    <3>2. reader[t] = [s \in Stream |-> IF reader[t][s] = "locked" THEN "reads" ELSE reader[t][s]]
      BY DEF NobodyWaitsInVain
    <3> HIDE DEF u
    <3>3. CASE u = t
      BY <3>1, <3>2, <3>3
    <3>4. CASE u # t
      BY <3>1, <3>4
    <3> QED BY <3>1, <3>3, <3>4
  <2>4. CASE PasswordArrives
    BY <2>4 DEF PasswordArrives, StartProcess
  <2>5. CASE BusDelivers /\ ~ResponseArrives /\ ~PasswordArrives
    BY <2>5 DEF BusDelivers, PromptArrives, ResponseIsRecorded, SuggestionIsAnswered, PanelShows, QuestionShown, AnswerIsDropped
  <2>6. CASE User
    BY <2>6 DEF User, UserSubmitsPassword, UserAnswersPrompt, UserAnswersSuggestion
  <2> QED BY <2>1, <2>2, <2>3, <2>4, <2>5, <2>6 DEF CommandNext, CommandWork
<1>2. CommandInv /\ [CommandNext]_commandVars => [Left]_commandVars
  BY <1>1
<1> QED BY CommandInvariant, <1>2, PTL DEF CommandSpec, LateAnswerHarmless

=============================================================================
