--------------------------- MODULE Plugins_proofs ---------------------------
(***************************************************************************)
(* What the agent can do and what it learns: that it serves the plugins it *)
(* has registered and none that was rejected, that a group of gaps is      *)
(* reported once, and that pruning keeps the shortest plan.                *)
(***************************************************************************)
EXTENDS PluginLifecycle, GapDetection, Learning, SequenceTheorems, TLAPS

-----------------------------------------------------------------------------
(* The plugins.                                                            *)

\* What is left of each operation at each of its steps.
Reload5 == <<"forget", "withdraw", "read", "register", "serve">>
Reload4 == <<"withdraw", "read", "register", "serve">>
Reload3 == <<"read", "register", "serve">>
Reload2 == <<"register", "serve">>
Serve1 == <<"serve">>
Serve6 == <<"serve", "forget", "withdraw", "read", "register", "serve">>
Trust2 == <<"trust", "serve">>
Trust7 == <<"trust", "serve", "forget", "withdraw", "read", "register", "serve">>
Distrust3 == <<"distrust", "forget", "withdraw">>
Distrust2 == <<"forget", "withdraw">>
Distrust1 == <<"withdraw">>
Remove3 == <<"forget", "withdraw", "delete">>
Remove2 == <<"withdraw", "delete">>
Remove1 == <<"delete">>

ApiProgram == {<< >>, Reload5, Reload4, Reload3, Reload2, Serve1, Remove3, Remove2, Remove1}
Program == ApiProgram \union {Serve6, Trust2, Trust7, Distrust3, Distrust2, Distrust1}

\* The steps of operations.
PluginWork == {"forget", "withdraw", "read", "register", "serve", "trust", "distrust", "delete"}

After(s, n) == SubSeq(s, n + 1, Len(s))

\* The first n steps of a sequence are left out by taking its tail n times.
LEMMA AfterIsTail ==
  ASSUME NEW s \in Seq(PluginWork)
  PROVE  /\ s # << >> => After(s, 1) = Tail(s)
         /\ s # << >> /\ Tail(s) # << >> => After(s, 2) = Tail(Tail(s))
         /\ s # << >> /\ Tail(s) # << >> /\ Tail(Tail(s)) # << >> => After(s, 3) = Tail(Tail(Tail(s)))
<1>1. s # << >> => After(s, 1) = Tail(s)
  BY TailIsSubSeq DEF After
<1>2. ASSUME s # << >>, Tail(s) # << >>
      PROVE  After(s, 2) = Tail(Tail(s)) /\ Len(s) >= 2 /\ Len(Tail(Tail(s))) = Len(s) - 2
             /\ Tail(Tail(s)) \in Seq(PluginWork)
             /\ \A i \in 1..Len(s) - 2 : Tail(Tail(s))[i] = s[i + 2]
  <2>1. Tail(s) \in Seq(PluginWork) /\ Len(Tail(s)) = Len(s) - 1
        /\ \A i \in 1..Len(s) - 1 : Tail(s)[i] = s[i + 1]
    BY <1>2, HeadTailProperties
  <2>2. Tail(Tail(s)) \in Seq(PluginWork) /\ Len(Tail(Tail(s))) = Len(s) - 2
        /\ \A i \in 1..Len(s) - 2 : Tail(Tail(s))[i] = Tail(s)[i + 1]
    BY <1>2, <2>1, HeadTailProperties
  <2>3. Len(s) \in Nat /\ Len(s) - 2 \in Nat /\ \A i \in 1..Len(s) : s[i] \in PluginWork
    BY <2>2, LenProperties, ElementOfSeq
  <2>4. \A i \in 1..Len(s) - 2 : Tail(Tail(s))[i] = s[i + 2]
    <3> TAKE i \in 1..Len(s) - 2
    <3>1. i \in 1..Len(s) - 1 /\ i + 1 \in 1..Len(s) - 1
      BY <2>3
    <3>2. Tail(s)[i + 1] = s[(i + 1) + 1] /\ Tail(Tail(s))[i] = Tail(s)[i + 1]
      BY <2>1, <2>2, <3>1
    <3> QED BY <2>3, <3>2
  <2>5. After(s, 2) \in Seq(PluginWork) /\ Len(After(s, 2)) = Len(s) - 2
        /\ \A i \in 1..Len(s) - 2 : After(s, 2)[i] = s[i + 2]
    <3>1. After(s, 2) = SubSeq(s, 3, Len(s)) /\ \A i \in 3..Len(s) : s[i] \in PluginWork
      BY <2>3 DEF After
    <3> DEFINE n == Len(s)
    <3>2. n \in Int /\ 3 \in Int /\ \A i \in 3..n : s[i] \in PluginWork
      BY <2>3
    <3>3. SubSeq(s, 3, n) \in Seq(PluginWork) /\ Len(SubSeq(s, 3, n)) = (IF 3 <= n THEN n - 3 + 1 ELSE 0)
          /\ \A i \in 1..n - 3 + 1 : SubSeq(s, 3, n)[i] = s[3 + i - 1]
      BY <3>2, SubSeqProperties
    <3>4. n \in Nat /\ n - 2 \in Nat
      BY <2>1, <2>3
    <3> HIDE DEF n
    <3>5. Len(SubSeq(s, 3, n)) = n - 2
      BY <3>3, <3>4
    <3>6. ASSUME NEW i \in 1..n - 2 PROVE SubSeq(s, 3, n)[i] = s[i + 2]
      <4>1. i \in 1..n - 3 + 1 /\ 3 + i - 1 = i + 2
        BY <3>4
      <4> QED BY <3>3, <4>1
    <3> QED BY <3>1, <3>3, <3>5, <3>6 DEF n
  <2>6. After(s, 2) = Tail(Tail(s))
    BY <2>2, <2>4, <2>5, SeqEqual
  <2> QED BY <2>2, <2>3, <2>4, <2>6
<1>3. ASSUME s # << >>, Tail(s) # << >>, Tail(Tail(s)) # << >>
      PROVE  After(s, 3) = Tail(Tail(Tail(s)))
  <2>1. Len(s) \in Nat /\ Tail(Tail(s)) \in Seq(PluginWork) /\ Len(Tail(Tail(s))) = Len(s) - 2
        /\ \A i \in 1..Len(s) - 2 : Tail(Tail(s))[i] = s[i + 2]
    BY <1>2, <1>3, LenProperties
  <2>2. Tail(Tail(Tail(s))) \in Seq(PluginWork) /\ Len(Tail(Tail(Tail(s)))) = Len(s) - 3
        /\ \A i \in 1..Len(s) - 3 : Tail(Tail(Tail(s)))[i] = Tail(Tail(s))[i + 1]
    BY <1>3, <2>1, HeadTailProperties
  <2>3. Len(s) - 3 \in Nat /\ \A i \in 1..Len(s) : s[i] \in PluginWork
    BY <2>1, <2>2, LenProperties, ElementOfSeq
  <2>4. \A i \in 1..Len(s) - 3 : Tail(Tail(Tail(s)))[i] = s[i + 3]
    <3> TAKE i \in 1..Len(s) - 3
    <3>1. i + 1 \in 1..Len(s) - 2
      BY <2>1, <2>3
    <3>2. Tail(Tail(s))[i + 1] = s[(i + 1) + 2] /\ Tail(Tail(Tail(s)))[i] = Tail(Tail(s))[i + 1]
      BY <2>1, <2>2, <3>1
    <3>3. (i + 1) + 2 = i + 3
      BY <2>3
    <3> QED BY <3>2, <3>3
  <2>5. After(s, 3) \in Seq(PluginWork) /\ Len(After(s, 3)) = Len(s) - 3
        /\ \A i \in 1..Len(s) - 3 : After(s, 3)[i] = s[i + 3]
    <3> DEFINE n == Len(s)
    <3>1. After(s, 3) = SubSeq(s, 4, n)
      BY <2>1 DEF After
    <3>2. n \in Int /\ 4 \in Int /\ \A i \in 4..n : s[i] \in PluginWork
      BY <2>1, <2>3
    <3>3. SubSeq(s, 4, n) \in Seq(PluginWork) /\ Len(SubSeq(s, 4, n)) = (IF 4 <= n THEN n - 4 + 1 ELSE 0)
          /\ \A i \in 1..n - 4 + 1 : SubSeq(s, 4, n)[i] = s[4 + i - 1]
      BY <3>2, SubSeqProperties
    <3>4. n \in Nat /\ n - 3 \in Nat
      BY <2>1, <2>3
    <3> HIDE DEF n
    <3>5. Len(SubSeq(s, 4, n)) = n - 3
      BY <3>3, <3>4
    <3>6. ASSUME NEW i \in 1..n - 3 PROVE SubSeq(s, 4, n)[i] = s[i + 3]
      <4>1. i \in 1..n - 4 + 1 /\ 4 + i - 1 = i + 3
        BY <3>4
      <4> QED BY <3>3, <4>1
    <3> QED BY <3>1, <3>3, <3>5, <3>6 DEF n
  <2> QED BY <2>2, <2>4, <2>5, SeqEqual
<1> QED BY <1>1, <1>2, <1>3

\* Each operation step by step: what is first and what is left.
LEMMA OperationSteps ==
  /\ Head(Reload5) = "forget" /\ After(Reload5, 1) = Reload4 /\ After(Reload5, 2) = Reload3
  /\ Head(Reload4) = "withdraw" /\ After(Reload4, 1) = Reload3
  /\ Head(Reload3) = "read" /\ After(Reload3, 1) = Reload2 /\ After(Reload3, 3) = << >>
  /\ Head(Reload2) = "register" /\ After(Reload2, 1) = Serve1
  /\ Head(Serve1) = "serve" /\ After(Serve1, 1) = << >>
  /\ Head(Serve6) = "serve" /\ After(Serve6, 1) = Reload5
  /\ Head(Trust2) = "trust" /\ After(Trust2, 1) = Serve1 /\ After(Trust2, 2) = << >>
  /\ Head(Trust7) = "trust" /\ After(Trust7, 1) = Serve6 /\ After(Trust7, 2) = Reload5
  /\ Head(Distrust3) = "distrust" /\ After(Distrust3, 1) = Distrust2
                                  /\ After(Distrust3, 3) = << >>
  /\ Head(Distrust2) = "forget" /\ After(Distrust2, 1) = Distrust1
                                /\ After(Distrust2, 2) = << >>
  /\ Head(Distrust1) = "withdraw" /\ After(Distrust1, 1) = << >>
  /\ Head(Remove3) = "forget" /\ After(Remove3, 1) = Remove2 /\ After(Remove3, 2) = Remove1
  /\ Head(Remove2) = "withdraw" /\ After(Remove2, 1) = Remove1
  /\ Head(Remove1) = "delete" /\ After(Remove1, 1) = << >>
<1>1. /\ {Reload5, Reload4, Reload3, Reload2, Serve1, Serve6, Trust2, Trust7} \subseteq Seq(PluginWork)
      /\ {Distrust3, Distrust2, Distrust1, Remove3, Remove2, Remove1} \subseteq Seq(PluginWork)
  <2>1. Reload5 \in Seq(PluginWork) /\ Reload4 \in Seq(PluginWork)
    BY DEF Reload5, Reload4, PluginWork
  <2>2. Reload3 \in Seq(PluginWork) /\ Reload2 \in Seq(PluginWork)
    BY DEF Reload3, Reload2, PluginWork
  <2>3. Serve1 \in Seq(PluginWork) /\ Serve6 \in Seq(PluginWork)
    BY DEF Serve1, Serve6, PluginWork
  <2>4. Trust2 \in Seq(PluginWork) /\ Trust7 \in Seq(PluginWork)
    BY DEF Trust2, Trust7, PluginWork
  <2>5. Distrust3 \in Seq(PluginWork) /\ Distrust2 \in Seq(PluginWork)
    BY DEF Distrust3, Distrust2, PluginWork
  <2>6. Distrust1 \in Seq(PluginWork) /\ Remove3 \in Seq(PluginWork)
    BY DEF Distrust1, Remove3, PluginWork
  <2>7. Remove2 \in Seq(PluginWork) /\ Remove1 \in Seq(PluginWork)
    BY DEF Remove2, Remove1, PluginWork
  <2> QED BY <2>1, <2>2, <2>3, <2>4, <2>5, <2>6, <2>7
<1>2. /\ Head(Reload5) = "forget" /\ After(Reload5, 1) = Reload4 /\ After(Reload5, 2) = Reload3
      /\ Head(Reload4) = "withdraw" /\ After(Reload4, 1) = Reload3
  <2>1. Reload5 # << >> /\ Head(Reload5) = "forget" /\ Tail(Reload5) = Reload4
    BY DEF Reload5, Reload4
  <2>2. Reload4 # << >> /\ Head(Reload4) = "withdraw" /\ Tail(Reload4) = Reload3
    BY DEF Reload4, Reload3
  <2> QED BY <1>1, <2>1, <2>2, AfterIsTail
<1>3. /\ Head(Reload3) = "read" /\ After(Reload3, 1) = Reload2 /\ After(Reload3, 3) = << >>
      /\ Head(Reload2) = "register" /\ After(Reload2, 1) = Serve1
      /\ Head(Serve1) = "serve" /\ After(Serve1, 1) = << >>
  <2>1. Reload3 # << >> /\ Head(Reload3) = "read" /\ Tail(Reload3) = Reload2
    BY DEF Reload3, Reload2
  <2>2. Reload2 # << >> /\ Head(Reload2) = "register" /\ Tail(Reload2) = Serve1
    BY DEF Reload2, Serve1
  <2>3. Serve1 # << >> /\ Head(Serve1) = "serve" /\ Tail(Serve1) = << >>
    BY DEF Serve1
  <2> QED BY <1>1, <2>1, <2>2, <2>3, AfterIsTail
<1>4. /\ Head(Serve6) = "serve" /\ After(Serve6, 1) = Reload5
      /\ Head(Trust2) = "trust" /\ After(Trust2, 1) = Serve1 /\ After(Trust2, 2) = << >>
      /\ Head(Trust7) = "trust" /\ After(Trust7, 1) = Serve6 /\ After(Trust7, 2) = Reload5
  <2>1. Serve6 # << >> /\ Head(Serve6) = "serve" /\ Tail(Serve6) = Reload5
    BY DEF Serve6, Reload5
  <2>2. Trust2 # << >> /\ Head(Trust2) = "trust" /\ Tail(Trust2) = Serve1
    BY DEF Trust2, Serve1
  <2>3. Serve1 # << >> /\ Tail(Serve1) = << >>
    BY DEF Serve1
  <2>4. Trust7 # << >> /\ Head(Trust7) = "trust" /\ Tail(Trust7) = Serve6
    BY DEF Trust7, Serve6
  <2> QED BY <1>1, <2>1, <2>2, <2>3, <2>4, AfterIsTail
<1>5. /\ Head(Distrust3) = "distrust" /\ After(Distrust3, 1) = Distrust2
                                      /\ After(Distrust3, 3) = << >>
      /\ Head(Distrust2) = "forget" /\ After(Distrust2, 1) = Distrust1
                                    /\ After(Distrust2, 2) = << >>
      /\ Head(Distrust1) = "withdraw" /\ After(Distrust1, 1) = << >>
  <2>1. Distrust3 # << >> /\ Head(Distrust3) = "distrust" /\ Tail(Distrust3) = Distrust2
    BY DEF Distrust3, Distrust2
  <2>2. Distrust2 # << >> /\ Head(Distrust2) = "forget" /\ Tail(Distrust2) = Distrust1
    BY DEF Distrust2, Distrust1
  <2>3. Distrust1 # << >> /\ Head(Distrust1) = "withdraw" /\ Tail(Distrust1) = << >>
    BY DEF Distrust1
  <2> QED BY <1>1, <2>1, <2>2, <2>3, AfterIsTail
<1>6. /\ Head(Remove3) = "forget" /\ After(Remove3, 1) = Remove2 /\ After(Remove3, 2) = Remove1
      /\ Head(Remove2) = "withdraw" /\ After(Remove2, 1) = Remove1
      /\ Head(Remove1) = "delete" /\ After(Remove1, 1) = << >>
  <2>1. Remove3 # << >> /\ Head(Remove3) = "forget" /\ Tail(Remove3) = Remove2
    BY DEF Remove3, Remove2
  <2>2. Remove2 # << >> /\ Head(Remove2) = "withdraw" /\ Tail(Remove2) = Remove1
    BY DEF Remove2, Remove1
  <2>3. Remove1 # << >> /\ Head(Remove1) = "delete" /\ Tail(Remove1) = << >>
    BY DEF Remove1
  <2> QED BY <1>1, <2>1, <2>2, <2>3, AfterIsTail
<1> QED BY <1>2, <1>3, <1>4, <1>5, <1>6

\* An approval reloads the plugin when it has a directory.
LEMMA Approval ==
  <<"trust", "serve">> \o HotReload \in {Trust2, Trust7} /\ HotReload \in {<< >>, Reload5}
<1>1. Trust2 \in Seq(PluginWork) /\ Reload5 \in Seq(PluginWork) /\ Trust7 \in Seq(PluginWork)
      /\ Len(Trust2) = 2 /\ Len(Reload5) = 5 /\ Len(Trust7) = 7
  BY DEF Trust2, Reload5, Trust7, PluginWork
<1>2. Trust2 \o << >> = Trust2
  BY <1>1, ConcatEmptySeq
<1>3. Trust2 \o Reload5 \in Seq(PluginWork) /\ Len(Trust2 \o Reload5) = 7
      /\ \A i \in 1..7 : (Trust2 \o Reload5)[i] = IF i <= 2 THEN Trust2[i] ELSE Reload5[i - 2]
  <2>1. Trust2 \o Reload5 \in Seq(PluginWork) /\ Len(Trust2 \o Reload5) = Len(Trust2) + Len(Reload5)
        /\ \A i \in 1..Len(Trust2) + Len(Reload5) :
              (Trust2 \o Reload5)[i] = IF i <= Len(Trust2) THEN Trust2[i] ELSE Reload5[i - Len(Trust2)]
    BY <1>1, ConcatProperties
  <2>2. Len(Trust2) + Len(Reload5) = 7 /\ Len(Trust2) = 2
    BY <1>1
  <2> QED BY <2>1, <2>2
<1>4. ASSUME NEW i \in 1..7 PROVE Trust7[i] = IF i <= 2 THEN Trust2[i] ELSE Reload5[i - 2]
  <2>1. i \in {1, 2} \/ i \in {3, 4, 5, 6, 7}
    OBVIOUS
  <2>2. CASE i \in {1, 2}
    BY <2>2 DEF Trust2, Trust7
  <2>3. CASE i \in {3, 4, 5, 6, 7}
    BY <2>3 DEF Reload5, Trust7
  <2> QED BY <2>1, <2>2, <2>3
<1>5. Trust2 \o Reload5 = Trust7
  <2> DEFINE both == Trust2 \o Reload5
  <2>1. both \in Seq(PluginWork) /\ Len(both) = Len(Trust7) /\ \A i \in 1..Len(both) : both[i] = Trust7[i]
    BY <1>1, <1>3, <1>4
  <2> HIDE DEF both
  <2>2. both = Trust7
    BY <1>1, <2>1, SeqEqual
  <2> QED BY <2>2 DEF both
<1> QED BY <1>2, <1>5 DEF HotReload, Trust2, Reload5

-----------------------------------------------------------------------------
DiskType == [dir : BOOLEAN, code : BOOLEAN, manifest : Status \union {"none"}]
EvolverType == [stage : {"off", "generate", "quick", "lost"}, attempt : 0..MaxEvolve]

\* The types the argument needs.
PluginTyped ==
    /\ disk \in DiskType /\ (~disk.dir => disk = Removed)
    /\ entry \in Status \union {"none"} /\ served \in BOOLEAN
    /\ todo \in [Thread -> Program] /\ todo["api"] \in ApiProgram
    /\ held \in [Thread -> {"pending", "trusted", "none"}]
    /\ evolver \in EvolverType /\ asks \in 0..MaxRequests
    /\ backup \in Status \union {"none"}

\* The bus waits for the evolver, whose snapshot is what is on disk.
Evolving ==
    /\ evolver # Stopped => todo["bus"] = << >>
    /\ backup # "none" => evolver # Stopped /\ disk.code /\ disk.manifest = backup

\* What holds between operations.
InStep ==
    /\ served => entry # "none"
    /\ entry # "none" => disk.code
    /\ disk.manifest = "untrusted" => entry = "none"

\* What holds while a thread has these steps before it and the other has none.
Underway(t) ==
    \/ todo[t] \in {<< >>, Reload5, Trust2, Trust7, Distrust3, Remove3} /\ InStep
    \/ todo[t] \in {Reload4, Distrust1, Remove2} /\ entry = "none"
    \/ todo[t] \in {Reload3, Remove1} /\ entry = "none" /\ ~served
    \/ /\ todo[t] = Reload2 /\ held[t] # "none"
       /\ entry = "none" /\ ~served /\ disk.code /\ disk.manifest # "untrusted"
    \/ todo[t] \in {Serve1, Serve6} /\ entry # "none" /\ disk.code /\ disk.manifest # "untrusted"
    \/ todo[t] = Distrust2 /\ entry # "none" /\ disk.code

Sole == \E t \in Thread : Underway(t) /\ \A u \in Thread \ {t} : todo[u] = << >>

OneAtATime == ~overlap => Sole

PluginInv == PluginTyped /\ Evolving /\ OneAtATime

LEMMA Unfinished ==
  /\ Reload5 # << >> /\ Reload4 # << >> /\ Reload3 # << >> /\ Reload2 # << >>
  /\ Serve1 # << >> /\ Serve6 # << >> /\ Trust2 # << >> /\ Trust7 # << >>
  /\ Distrust3 # << >> /\ Distrust2 # << >> /\ Distrust1 # << >>
  /\ Remove3 # << >> /\ Remove2 # << >> /\ Remove1 # << >>
<1>1. Reload5 # << >> /\ Reload4 # << >> /\ Reload3 # << >> /\ Reload2 # << >>
  BY DEF Reload5, Reload4, Reload3, Reload2
<1>2. Serve1 # << >> /\ Serve6 # << >> /\ Trust2 # << >> /\ Trust7 # << >>
  BY DEF Serve1, Serve6, Trust2, Trust7
<1>3. Distrust3 # << >> /\ Distrust2 # << >> /\ Distrust1 # << >>
  BY DEF Distrust3, Distrust2, Distrust1
<1>4. Remove3 # << >> /\ Remove2 # << >> /\ Remove1 # << >>
  BY DEF Remove3, Remove2, Remove1
<1> QED BY <1>1, <1>2, <1>3, <1>4

\* With nothing to do for either thread the records are in step.
LEMMA AtRest ==
  ASSUME OneAtATime, ~overlap, \A t \in Thread : todo[t] = << >>
  PROVE  InStep
BY Unfinished DEF OneAtATime, Sole, Underway

LEMMA LoadedType == ASSUME disk \in DiskType PROVE Loaded(disk) \in {"pending", "trusted", "none"}
BY DEF DiskType, Loaded

LEMMA PluginInitially == PluginInit => PluginInv
<1> SUFFICES ASSUME PluginInit PROVE PluginInv
  OBVIOUS
<1>1. PICK s \in {"pending", "trusted"} : disk = [dir |-> TRUE, code |-> TRUE, manifest |-> s]
  BY DEF PluginInit
<1>2. disk \in DiskType /\ disk.dir /\ disk.code /\ disk.manifest # "untrusted"
  BY <1>1 DEF DiskType, Status
<1>3. todo = [t \in Thread |-> << >>] /\ held = [t \in Thread |-> "none"]
      /\ evolver = Stopped /\ backup = "none" /\ asks = 0
  BY DEF PluginInit
<1>4. entry \in Status \union {"none"} /\ served \in BOOLEAN /\ (served => entry # "none")
  BY <1>2, LoadedType DEF PluginInit, Status
<1>5. Stopped \in EvolverType
  BY EvolveAssumption DEF Stopped, EvolverType
<1>6. PluginTyped
  BY <1>2, <1>3, <1>4, <1>5, EvolveAssumption DEF PluginTyped, Thread, Program, ApiProgram
<1>7. Evolving
  BY <1>3 DEF Evolving
<1>8. InStep
  BY <1>2, <1>4 DEF InStep
<1>9. OneAtATime
  BY <1>3, <1>8 DEF OneAtATime, Sole, Underway, Thread
<1> QED BY <1>6, <1>7, <1>9 DEF PluginInv

-----------------------------------------------------------------------------
\* What a step leaves to do is an operation begun, too.
LEMMA Leftover ==
  ASSUME NEW P, P \in {Program, ApiProgram}, NEW s \in P, s # << >>
  PROVE  /\ Head(s) \in {"forget", "withdraw", "read", "register", "serve", "trust", "distrust",
                          "delete"} => After(s, 1) \in P
         /\ Head(s) \in {"forget", "trust"} => After(s, 2) \in P
         /\ Head(s) \in {"read", "distrust"} => After(s, 3) \in P
BY OperationSteps DEF Program, ApiProgram

LEMMA ApiHasNoStatus ==
  ASSUME NEW s \in ApiProgram, s # << >>
  PROVE  Head(s) \notin {"trust", "distrust"}
BY OperationSteps DEF ApiProgram

\* A step of a thread: which one it is, and how far it goes.
LEMMA StepKinds ==
  ASSUME PluginTyped, NEW t \in Thread, Step(t)
  PROVE  \E n \in {1, 2, 3} :
           /\ todo' = [todo EXCEPT ![t] = After(todo[t], n)]
           /\ todo[t] # << >>
           /\ After(todo[t], n) \in Program /\ (t = "api" => After(todo[t], n) \in ApiProgram)
<1> USE DEF PluginTyped
<1>1. todo[t] # << >> /\ todo[t] \in Program /\ (t = "api" => todo[t] \in ApiProgram)
  BY DEF Step, Busy
<1>2. PICK n \in {1, 2, 3} :
        /\ todo' = [todo EXCEPT ![t] = After(todo[t], n)]
        /\ Head(todo[t]) \in {"forget", "withdraw", "read", "register", "serve", "trust", "distrust",
                              "delete"}
        /\ n = 2 => Head(todo[t]) \in {"forget", "trust"}
        /\ n = 3 => Head(todo[t]) \in {"read", "distrust"}
  <2>1. CASE Head(todo[t]) = "forget" /\ Forget(t)
    <3>1. todo' = [todo EXCEPT ![t] = After(todo[t], IF entry = "none" THEN 2 ELSE 1)]
      BY <2>1 DEF Forget, Advance, After
    <3>2. CASE entry = "none"
      BY <2>1, <3>1, <3>2
    <3>3. CASE entry # "none"
      BY <2>1, <3>1, <3>3
    <3> QED BY <3>2, <3>3
  <2>2. CASE Head(todo[t]) = "withdraw" /\ Withdraw(t)
    BY <2>2 DEF Withdraw, Advance, After
  <2>3. CASE Head(todo[t]) = "read" /\ Read(t)
    <3>1. todo' = [todo EXCEPT ![t] = After(todo[t], IF Loaded(disk) = "none" THEN 3 ELSE 1)]
      BY <2>3 DEF Read, Advance, After
    <3>2. CASE Loaded(disk) = "none"
      BY <2>3, <3>1, <3>2
    <3>3. CASE Loaded(disk) # "none"
      BY <2>3, <3>1, <3>3
    <3> QED BY <3>2, <3>3
  <2>4. CASE Head(todo[t]) = "register" /\ Register(t)
    BY <2>4 DEF Register, Advance, After
  <2>5. CASE Head(todo[t]) = "serve" /\ Serve(t)
    BY <2>5 DEF Serve, Advance, After
  <2>6. CASE Head(todo[t]) = "trust" /\ UpdateStatus(t, "trusted", 1)
    BY <2>6 DEF UpdateStatus, Advance, After
  <2>7. CASE Head(todo[t]) = "distrust" /\ UpdateStatus(t, "untrusted", 2)
    BY <2>7 DEF UpdateStatus, Advance, After
  <2>8. CASE Head(todo[t]) = "delete" /\ Delete(t)
    BY <2>8 DEF Delete, Advance, After
  <2> QED BY <2>1, <2>2, <2>3, <2>4, <2>5, <2>6, <2>7, <2>8 DEF Step
<1>3. After(todo[t], n) \in Program
  BY <1>1, <1>2, Leftover
<1>4. t = "api" => After(todo[t], n) \in ApiProgram
  BY <1>1, <1>2, Leftover
<1> QED BY <1>1, <1>2, <1>3, <1>4

LEMMA StepTyped ==
  ASSUME PluginTyped, Evolving, NEW t \in Thread, Step(t)
  PROVE  PluginTyped' /\ Evolving'
<1> USE DEF PluginTyped
<1>1. todo' \in [Thread -> Program] /\ todo'["api"] \in ApiProgram
  <2>1. PICK n : /\ todo' = [todo EXCEPT ![t] = After(todo[t], n)]
                 /\ After(todo[t], n) \in Program
                 /\ t = "api" => After(todo[t], n) \in ApiProgram
    BY StepKinds
  <2> QED BY <2>1 DEF Thread
<1>2. evolver' \in EvolverType /\ asks' \in 0..MaxRequests
  BY DEF Step, EvolverType
<1>3. entry' \in Status \union {"none"} /\ served' \in BOOLEAN
      /\ held' \in [Thread -> {"pending", "trusted", "none"}]
      /\ disk' \in DiskType /\ (~disk'.dir => disk' = Removed)
      /\ backup' \in {backup, "none"}
  <2>1. CASE Forget(t)
    BY <2>1 DEF Forget
  <2>2. CASE Withdraw(t)
    BY <2>2 DEF Withdraw
  <2>3. CASE Read(t)
    BY <2>3, LoadedType DEF Read
  <2>4. CASE Register(t)
    BY <2>4 DEF Register, Status
  <2>5. CASE Serve(t)
    BY <2>5 DEF Serve
  <2>6. ASSUME NEW s \in {"trusted", "untrusted"}, NEW k, UpdateStatus(t, s, k)
        PROVE  /\ entry' \in Status \union {"none"} /\ served' \in BOOLEAN
               /\ held' \in [Thread -> {"pending", "trusted", "none"}]
               /\ disk' \in DiskType /\ (~disk'.dir => disk' = Removed)
               /\ backup' \in {backup, "none"}
    <3>1. CASE entry = "none"
      BY <2>6, <3>1 DEF UpdateStatus
    <3>2. CASE entry # "none"
      <4>1. disk' = [disk EXCEPT !.dir = TRUE, !.manifest = s] /\ s \in Status
        BY <2>6, <3>2 DEF UpdateStatus, Status
      <4>2. disk' \in DiskType /\ disk'.dir
        BY <4>1 DEF DiskType
      <4> QED BY <2>6, <3>2, <4>2 DEF UpdateStatus, Status
    <3> QED BY <3>1, <3>2
  <2>7. CASE Delete(t)
    BY <2>7 DEF Delete, Removed, DiskType
  <2> QED BY <2>1, <2>2, <2>3, <2>4, <2>5, <2>6, <2>7 DEF Step
<1>4. PluginTyped'
  BY <1>1, <1>2, <1>3
<1>5. Evolving'
  <2>1. todo[t] # << >>
    BY DEF Step, Busy
  <2>2. evolver' = evolver \/ (evolver # Stopped /\ evolver' # Stopped)
    <3>1. CASE evolver' = evolver
      BY <3>1
    <3>2. CASE evolver.stage = "quick" /\ evolver' = [evolver EXCEPT !.stage = "lost"]
      <4>1. evolver'.stage = "lost"
        BY <3>2 DEF EvolverType
      <4> QED BY <3>2, <4>1 DEF Stopped
    <3> QED BY <3>1, <3>2 DEF Step
  <2>3. CASE t = "bus"
    <3>1. evolver = Stopped /\ backup = "none" /\ evolver' = Stopped /\ backup' = "none"
      BY <1>3, <2>1, <2>2, <2>3 DEF Evolving
    <3> QED BY <3>1 DEF Evolving
  <2>4. CASE t = "api"
    <3>1. todo'["bus"] = todo["bus"]
      BY <2>4, StepKinds DEF Thread
    <3>2. Head(todo[t]) \notin {"trust", "distrust"}
      BY <2>1, <2>4, ApiHasNoStatus
    <3>3. backup' = "none" \/ (backup' = backup /\ disk' = disk)
      BY <3>2 DEF Step, Forget, Withdraw, Read, Register, Serve, Delete
    <3> QED BY <2>2, <3>1, <3>3 DEF Evolving
  <2> QED BY <2>3, <2>4 DEF Thread
<1> QED BY <1>4, <1>5

\* A step of the one thread that works keeps to the order of its operation.
LEMMA StepInOrder ==
  ASSUME PluginTyped, NEW t \in Thread, Underway(t), Step(t)
  PROVE  Underway(t)'
<1> USE DEF PluginTyped
<1>0. \A n \in {1, 2, 3} : todo' = [todo EXCEPT ![t] = After(todo[t], n)] =>
                           todo'[t] = After(todo[t], n)
  OBVIOUS
<1>00. todo[t] # << >>
  BY DEF Step, Busy
<1>1. ASSUME todo[t] \in {Reload5, Remove3}, InStep PROVE Underway(t)'
  <2>1. Forget(t)
    BY <1>1, OperationSteps DEF Step
  <2>2. CASE entry = "none"
    <3>1. todo'[t] = After(todo[t], 2) /\ entry' = "none" /\ ~served'
      BY <1>0, <1>1, <2>1, <2>2 DEF Forget, Advance, After, InStep
    <3> QED BY <1>1, <3>1, OperationSteps DEF Underway
  <2>3. CASE entry # "none"
    <3>1. todo'[t] = After(todo[t], 1) /\ entry' = "none"
      BY <1>0, <2>1, <2>3 DEF Forget, Advance, After
    <3> QED BY <1>1, <3>1, OperationSteps DEF Underway
  <2> QED BY <2>2, <2>3
<1>2. ASSUME todo[t] \in {Trust2, Trust7}, InStep PROVE Underway(t)'
  <2>1. UpdateStatus(t, "trusted", 1)
    BY <1>2, OperationSteps DEF Step
  <2>2. CASE entry = "none"
    <3>1. todo'[t] = After(todo[t], 2) /\ UNCHANGED <<disk, entry, served>>
      BY <1>0, <2>1, <2>2 DEF UpdateStatus, Advance, After
    <3> QED BY <1>2, <3>1, OperationSteps DEF Underway, InStep
  <2>3. CASE entry # "none"
    <3>1. todo'[t] = After(todo[t], 1) /\ entry' = "trusted"
          /\ disk' = [disk EXCEPT !.dir = TRUE, !.manifest = "trusted"]
      BY <1>0, <2>1, <2>3 DEF UpdateStatus, Advance, After
    <3>2. disk'.code /\ disk'.manifest = "trusted"
      BY <1>2, <2>3, <3>1 DEF InStep, DiskType
    <3> QED BY <1>2, <3>1, <3>2, OperationSteps DEF Underway
  <2> QED BY <2>2, <2>3
<1>3. ASSUME todo[t] = Distrust3, InStep PROVE Underway(t)'
  <2>1. UpdateStatus(t, "untrusted", 2)
    BY <1>3, OperationSteps DEF Step
  <2>2. CASE entry = "none"
    <3>1. todo'[t] = After(todo[t], 3) /\ UNCHANGED <<disk, entry, served>>
      BY <1>0, <2>1, <2>2 DEF UpdateStatus, Advance, After
    <3> QED BY <1>3, <3>1, OperationSteps DEF Underway, InStep
  <2>3. CASE entry # "none"
    <3>1. todo'[t] = After(todo[t], 1) /\ entry' = "untrusted"
          /\ disk' = [disk EXCEPT !.dir = TRUE, !.manifest = "untrusted"]
      BY <1>0, <2>1, <2>3 DEF UpdateStatus, Advance, After
    <3>2. disk'.code
      BY <1>3, <2>3, <3>1 DEF InStep, DiskType
    <3> QED BY <1>3, <3>1, <3>2, OperationSteps DEF Underway
  <2> QED BY <2>2, <2>3
<1>4. ASSUME todo[t] \in {Reload4, Distrust1, Remove2}, entry = "none" PROVE Underway(t)'
  <2>1. Withdraw(t)
    BY <1>4, OperationSteps DEF Step
  <2>2. todo'[t] = After(todo[t], 1) /\ entry' = "none" /\ ~served' /\ disk' = disk
    BY <1>0, <1>4, <2>1 DEF Withdraw, Advance, After
  <2> QED BY <1>4, <2>2, OperationSteps DEF Underway, InStep
<1>5. ASSUME todo[t] = Reload3, entry = "none", ~served PROVE Underway(t)'
  <2>1. Read(t)
    BY <1>5, OperationSteps DEF Step
  <2>2. UNCHANGED <<entry, served, disk>> /\ held'[t] = Loaded(disk)
    BY <2>1 DEF Read
  <2>3. CASE Loaded(disk) = "none"
    <3>1. todo'[t] = After(todo[t], 3)
      BY <1>0, <2>1, <2>3 DEF Read, Advance, After
    <3>2. todo'[t] = << >>
      BY <1>5, <3>1, OperationSteps
    <3> QED BY <1>5, <2>2, <3>2 DEF Underway, InStep
  <2>4. CASE Loaded(disk) # "none"
    <3>1. todo'[t] = After(todo[t], 1)
      BY <1>0, <2>1, <2>4 DEF Read, Advance, After
    <3>2. disk.code /\ disk.manifest # "untrusted"
      BY <2>4 DEF Loaded
    <3>3. todo'[t] = Reload2
      BY <1>5, <3>1, OperationSteps
    <3> QED BY <1>5, <2>2, <2>4, <3>2, <3>3 DEF Underway
  <2> QED BY <2>3, <2>4
<1>6. ASSUME todo[t] = Remove1, entry = "none", ~served PROVE Underway(t)'
  <2>1. Delete(t)
    BY <1>6, OperationSteps DEF Step
  <2>2. todo'[t] = After(todo[t], 1) /\ entry' = "none" /\ ~served'
    BY <1>0, <1>6, <2>1 DEF Delete, Advance, After
  <2>3. todo'[t] = << >>
    BY <1>6, <2>2, OperationSteps
  <2> QED BY <2>2, <2>3 DEF Underway, InStep
<1>7. ASSUME todo[t] = Reload2, held[t] # "none", entry = "none", ~served, disk.code,
             disk.manifest # "untrusted"
      PROVE  Underway(t)'
  <2>1. Register(t)
    BY <1>7, OperationSteps DEF Step
  <2>2. todo'[t] = After(todo[t], 1) /\ entry' # "none" /\ disk' = disk
    BY <1>0, <1>7, <2>1 DEF Register, Advance, After
  <2>3. todo'[t] = Serve1
    BY <1>7, <2>2, OperationSteps
  <2> QED BY <1>7, <2>2, <2>3 DEF Underway
<1>8. ASSUME todo[t] \in {Serve1, Serve6}, entry # "none", disk.code, disk.manifest # "untrusted"
      PROVE  Underway(t)'
  <2>1. Serve(t)
    BY <1>8, OperationSteps DEF Step
  <2>2. todo'[t] = After(todo[t], 1) /\ entry' = entry /\ disk' = disk
    BY <1>0, <2>1 DEF Serve, Advance, After
  <2>3. todo'[t] \in {<< >>, Reload5}
    BY <1>8, <2>2, OperationSteps
  <2> QED BY <1>8, <2>2, <2>3 DEF Underway, InStep
<1>9. ASSUME todo[t] = Distrust2, entry # "none", disk.code PROVE Underway(t)'
  <2>1. Forget(t)
    BY <1>9, OperationSteps DEF Step
  <2>2. todo'[t] = After(todo[t], 1) /\ entry' = "none"
    BY <1>0, <1>9, <2>1 DEF Forget, Advance, After
  <2>3. todo'[t] = Distrust1
    BY <1>9, <2>2, OperationSteps
  <2> QED BY <2>2, <2>3 DEF Underway
<1> QED BY <1>00, <1>1, <1>2, <1>3, <1>4, <1>5, <1>6, <1>7, <1>8, <1>9 DEF Underway

\* OperationSteps that leave both threads, the two tables, the code and the manifest alone.
LEMMA RecordsUntouched ==
  ASSUME PluginInv, UNCHANGED <<todo, held, served, overlap>>,
         entry' = entry \/ (entry # "none" /\ entry' # "none"),
         disk'.code = disk.code, disk'.manifest = disk.manifest
  PROVE  OneAtATime'
BY DEF PluginInv, OneAtATime, Sole, Underway, InStep

\* A thread without work begins an operation.
LEMMA BeginStep ==
  ASSUME PluginInv, NEW t \in Thread, todo[t] = << >>,
         NEW steps \in {<< >>, Reload5, Trust2, Trust7, Distrust3, Remove3}, Begin(t, steps),
         t = "api" => steps \in ApiProgram,
         UNCHANGED <<disk, entry, served, held>>
  PROVE  /\ todo' \in [Thread -> Program] /\ todo'["api"] \in ApiProgram /\ todo'[t] = steps
         /\ OneAtATime'
<1> USE DEF PluginInv, PluginTyped
<1>1. todo' = [todo EXCEPT ![t] = steps] /\ steps \in Program
  BY DEF Begin, Program, ApiProgram
<1>2. todo' \in [Thread -> Program] /\ todo'["api"] \in ApiProgram /\ todo'[t] = steps
  BY <1>1 DEF Thread
<1>3. ASSUME ~overlap' PROVE Sole'
  <2>1. ~overlap /\ (steps = << >> \/ \A u \in Thread \ {t} : todo[u] = << >>)
    BY <1>3 DEF Begin, Busy
  <2>2. CASE steps = << >>
    <3>1. todo' = todo
      BY <1>1, <2>2
    <3> QED BY <2>1, <3>1 DEF OneAtATime, Sole, Underway, InStep
  <2>3. CASE \A u \in Thread \ {t} : todo[u] = << >>
    <3>1. InStep
      BY <2>1, <2>3, AtRest
    <3>2. Underway(t)'
      BY <1>2, <3>1 DEF Underway, InStep
    <3>3. \A u \in Thread \ {t} : todo'[u] = << >>
      BY <1>1, <2>3
    <3> QED BY <3>2, <3>3 DEF Sole
  <2> QED BY <2>1, <2>2, <2>3
<1>4. OneAtATime'
  BY <1>3 DEF OneAtATime
<1> QED BY <1>2, <1>4

LEMMA HotReloadStarts == HotReload \in {<< >>, Reload5} /\ HotReload \in ApiProgram
BY Approval DEF ApiProgram

\* The model is asked to make a plugin: at most a directory comes of it.
LEMMA GenerateStep ==
  ASSUME PluginTyped, NEW others, GeneratePlugin(others)
  PROVE  /\ disk' \in DiskType /\ (~disk'.dir => disk' = Removed)
         /\ disk'.code = disk.code /\ disk'.manifest = disk.manifest
<1>1. CASE disk' = disk
  BY <1>1 DEF PluginTyped
<1>2. CASE disk' = [disk EXCEPT !.dir = TRUE]
  BY <1>2 DEF PluginTyped, DiskType
<1> QED BY <1>1, <1>2 DEF GeneratePlugin

LEMMA RequestStep ==
  ASSUME PluginInv, Request
  PROVE  PluginInv'
<1> USE DEF PluginInv
<1>1. asks' \in 0..MaxRequests
  BY EvolveAssumption DEF Request, EventRequested, ApiToggles, ApiReloads, ApiRemoves, ApiGenerates, Asked,
                          PluginTyped
<1>2. CASE EventRequested
  <2>1. UNCHANGED <<disk, entry, served, todo, held, evolver, backup, overlap>>
    BY <1>2 DEF EventRequested
  <2> QED BY <1>1, <2>1, RecordsUntouched DEF PluginTyped, Evolving
<1>3. CASE ApiToggles
  <2>1. UNCHANGED <<disk, served, todo, held, evolver, backup, overlap>>
        /\ entry # "none" /\ entry' \in {"trusted", "retired"}
    BY <1>3 DEF ApiToggles
  <2>2. OneAtATime'
    BY <2>1, RecordsUntouched
  <2> QED BY <1>1, <2>1, <2>2 DEF PluginTyped, Evolving, Status
<1>4. CASE ApiReloads
  <2>1. UNCHANGED <<disk, entry, served, held, evolver, backup>> /\ Begin("api", HotReload)
        /\ todo["api"] = << >>
    BY <1>4 DEF ApiReloads, Busy
  <2>2. todo' \in [Thread -> Program] /\ todo'["api"] \in ApiProgram /\ OneAtATime'
    BY <2>1, BeginStep, HotReloadStarts DEF Thread
  <2>3. todo'["bus"] = todo["bus"]
    BY <2>1 DEF Begin, Thread, PluginTyped
  <2> QED BY <1>1, <2>1, <2>2, <2>3 DEF PluginTyped, Evolving
<1>5. CASE ApiRemoves
  <2>1. UNCHANGED <<disk, entry, served, held, evolver, backup>> /\ Begin("api", Remove3)
        /\ todo["api"] = << >>
    BY <1>5 DEF ApiRemoves, Busy, Remove3
  <2>2. todo' \in [Thread -> Program] /\ todo'["api"] \in ApiProgram /\ OneAtATime'
    BY <2>1, BeginStep DEF Thread, ApiProgram
  <2>3. todo'["bus"] = todo["bus"]
    BY <2>1 DEF Begin, Thread, PluginTyped
  <2> QED BY <1>1, <2>1, <2>2, <2>3 DEF PluginTyped, Evolving
<1>6. CASE ApiGenerates
  <2>1. UNCHANGED <<entry, served, todo, held, evolver, backup, overlap>> /\ GeneratePlugin(inbox)
    BY <1>6 DEF ApiGenerates
  <2>2. /\ disk' \in DiskType /\ (~disk'.dir => disk' = Removed)
        /\ disk'.code = disk.code /\ disk'.manifest = disk.manifest
    BY <2>1, GenerateStep
  <2>3. OneAtATime'
    BY <2>1, <2>2, RecordsUntouched
  <2> QED BY <1>1, <2>1, <2>2, <2>3 DEF PluginTyped, Evolving
<1> QED BY <1>2, <1>3, <1>4, <1>5, <1>6 DEF Request

LEMMA RestartStep ==
  ASSUME PluginInv, Restart
  PROVE  PluginInv'
<1>1. /\ todo' = [t \in Thread |-> << >>] /\ held' = [t \in Thread |-> "none"]
      /\ entry' = Loaded(disk) /\ served' = (Loaded(disk) = "trusted")
      /\ backup' = "none" /\ evolver' = Stopped /\ UNCHANGED <<disk, asks, overlap>>
  BY DEF Restart
<1>2. Loaded(disk) \in {"pending", "trusted", "none"}
  BY LoadedType DEF PluginInv, PluginTyped
<1>3. Stopped \in EvolverType
  BY EvolveAssumption DEF Stopped, EvolverType
<1>4. PluginTyped'
  BY <1>1, <1>2, <1>3 DEF PluginInv, PluginTyped, Thread, Program, ApiProgram, Status
<1>5. InStep'
  BY <1>1 DEF InStep, Loaded
<1>6. OneAtATime'
  BY <1>1, <1>5 DEF OneAtATime, Sole, Underway, Thread
<1> QED BY <1>1, <1>4, <1>6 DEF PluginInv, Evolving

LEMMA DispatchStep ==
  ASSUME PluginInv, Dispatch
  PROVE  PluginInv'
<1> USE DEF PluginInv
<1>1. todo["bus"] = << >> /\ evolver = Stopped /\ backup = "none"
      /\ UNCHANGED <<entry, served, held, asks>>
  BY DEF Dispatch, OnPluginApproved, OnPluginRejected, OnReloadRequested, OnEvolutionRequested,
         OnEvolutionNeeded, OnGapDetected, Handled, Handling, Busy, Evolving
<1>2. ASSUME NEW steps \in {<< >>, Reload5, Trust2, Trust7, Distrust3}, Begin("bus", steps),
             UNCHANGED <<disk, evolver, backup>>
      PROVE  PluginInv'
  <2>1. todo' \in [Thread -> Program] /\ todo'["api"] \in ApiProgram /\ OneAtATime'
    BY <1>1, <1>2, BeginStep DEF Thread
  <2> QED BY <1>1, <1>2, <2>1 DEF PluginTyped, Evolving
<1>3. ASSUME StartEvolution \/ UNCHANGED <<evolver, backup>>, UNCHANGED <<todo, overlap, disk>>
      PROVE  PluginInv'
  <2>1. OneAtATime'
    BY <1>1, <1>3, RecordsUntouched
  <2>2. CASE UNCHANGED <<evolver, backup>>
    BY <1>1, <1>3, <2>1, <2>2 DEF PluginTyped, Evolving
  <2>3. CASE disk.code /\ evolver' = [stage |-> "generate", attempt |-> 1] /\ backup' = disk.manifest
    <3>1. evolver' \in EvolverType /\ evolver' # Stopped
      BY <2>3, EvolveAssumption DEF EvolverType, Stopped
    <3>2. backup' \in Status \union {"none"}
      BY <2>3 DEF PluginTyped, DiskType
    <3> QED BY <1>1, <1>3, <2>1, <2>3, <3>1, <3>2 DEF PluginTyped, Evolving
  <2> QED BY <1>3, <2>2, <2>3 DEF StartEvolution
<1>4. CASE OnPluginApproved
  BY <1>2, <1>4, Approval DEF OnPluginApproved, Handled
<1>5. CASE OnPluginRejected
  BY <1>2, <1>5 DEF OnPluginRejected, Handled, Distrust3
<1>6. CASE OnReloadRequested
  BY <1>2, <1>6, Approval DEF OnReloadRequested, Handled
<1>7. CASE OnEvolutionRequested
  BY <1>3, <1>7 DEF OnEvolutionRequested, Handled
<1>8. CASE OnEvolutionNeeded
  BY <1>3, <1>8 DEF OnEvolutionNeeded, Handled
<1>9. CASE OnGapDetected
  <2>1. UNCHANGED <<todo, evolver, backup, overlap>> /\ GeneratePlugin(Tail(inbox))
    BY <1>9 DEF OnGapDetected
  <2>2. /\ disk' \in DiskType /\ (~disk'.dir => disk' = Removed)
        /\ disk'.code = disk.code /\ disk'.manifest = disk.manifest
    BY <2>1, GenerateStep
  <2>3. OneAtATime'
    BY <1>1, <2>1, <2>2, RecordsUntouched
  <2> QED BY <1>1, <2>1, <2>2, <2>3 DEF PluginTyped, Evolving
<1> QED BY <1>4, <1>5, <1>6, <1>7, <1>8, <1>9 DEF Dispatch

\* What the evolver does; its rollback finds on disk what it saved.
LEMMA EvolveStep ==
  ASSUME PluginInv, Evolve
  PROVE  PluginInv'
<1> USE DEF PluginInv
<1>1. evolver # Stopped /\ todo["bus"] = << >> /\ UNCHANGED <<entry, served, held, asks>>
  <2>1. evolver.stage # "off"
    BY DEF Evolve, Generate, QuickTest
  <2> QED BY <2>1 DEF Evolve, Evolving, Stopped
<1>2. ASSUME UNCHANGED <<disk, todo, overlap>>, evolver' \in EvolverType,
             \/ backup' = backup /\ evolver' # Stopped
             \/ backup' = "none" /\ evolver' = Stopped
      PROVE  PluginInv'
  <2>1. OneAtATime'
    BY <1>1, <1>2, RecordsUntouched
  <2> QED BY <1>1, <1>2, <2>1 DEF PluginTyped, Evolving
<1>3. Stopped \in EvolverType
  BY EvolveAssumption DEF Stopped, EvolverType
<1>4. ASSUME NextAttempt PROVE PluginInv'
  <2>1. CASE /\ evolver.attempt < MaxEvolve
             /\ evolver' = [stage |-> "generate", attempt |-> evolver.attempt + 1]
             /\ UNCHANGED <<disk, backup, todo, overlap>>
    <3>1. evolver' \in EvolverType /\ evolver' # Stopped
      BY <2>1, EvolveAssumption DEF EvolverType, Stopped, PluginTyped
    <3> QED BY <1>2, <2>1, <3>1
  <2>2. CASE Rollback
    <3>1. evolver' = Stopped /\ backup' = "none"
      BY <2>2 DEF Rollback
    <3>2. CASE backup = "none"
      BY <1>2, <1>3, <2>2, <3>1, <3>2 DEF Rollback
    <3>3. CASE backup # "none"
      <4>1. disk' = [dir |-> TRUE, code |-> TRUE, manifest |-> backup]
            /\ Begin("bus", Distrust3)
        BY <2>2, <3>3 DEF Rollback, Distrust3
      <4>2. disk.code /\ disk.manifest = backup /\ disk.dir
        BY <3>3 DEF Evolving, PluginTyped, Removed
      <4>3. disk' = disk
        BY <4>1, <4>2 DEF PluginTyped, DiskType
      <4>4. todo' \in [Thread -> Program] /\ todo'["api"] \in ApiProgram /\ OneAtATime'
        BY <1>1, <4>1, <4>3, BeginStep DEF Thread
      <4> QED BY <1>1, <1>3, <3>1, <4>3, <4>4 DEF PluginTyped, Evolving
    <3> QED BY <3>2, <3>3
  <2> QED BY <1>4, <2>1, <2>2 DEF NextAttempt
<1>5. CASE EvolveRaises
  BY <1>2, <1>3, <1>5 DEF EvolveRaises
<1>6. CASE evolver' = [evolver EXCEPT !.stage = "quick"] /\ UNCHANGED <<disk, backup, todo, overlap>>
  <2>1. evolver' \in EvolverType /\ evolver'.stage = "quick"
    BY <1>6 DEF PluginTyped, EvolverType
  <2> QED BY <1>2, <1>6, <2>1 DEF Stopped
<1> QED BY <1>4, <1>5, <1>6 DEF Evolve, Generate, QuickTest

LEMMA PluginStep ==
  ASSUME PluginInv, [PluginNext]_pluginVars
  PROVE  PluginInv'
<1>1. ASSUME NEW t \in Thread, Step(t) PROVE PluginInv'
  <2>1. PluginTyped' /\ Evolving'
    BY <1>1, StepTyped DEF PluginInv
  <2>2. ASSUME ~overlap' PROVE Sole'
    <3>1. ~overlap /\ todo[t] # << >>
      BY <1>1, <2>2 DEF Step, Busy
    <3>2. Underway(t) /\ \A u \in Thread \ {t} : todo[u] = << >>
      BY <3>1 DEF PluginInv, OneAtATime, Sole
    <3>3. Underway(t)'
      BY <1>1, <3>2, StepInOrder DEF PluginInv
    <3>4. \A u \in Thread \ {t} : todo'[u] = << >>
      BY <1>1, <3>2, StepKinds DEF PluginInv, PluginTyped
    <3> QED BY <3>3, <3>4 DEF Sole
  <2>3. OneAtATime'
    BY <2>2 DEF OneAtATime
  <2> QED BY <2>1, <2>3 DEF PluginInv
<1>2. CASE UNCHANGED pluginVars
  BY <1>2 DEF pluginVars, PluginInv, PluginTyped, Evolving, OneAtATime, Sole, Underway, InStep
<1> QED BY <1>1, <1>2, RequestStep, RestartStep, DispatchStep, EvolveStep
        DEF PluginNext, BusThread, ApiThread, Thread

(* The invariant of one installed plugin. *)
THEOREM PluginInvariant == PluginSpec => []PluginInv
<1>1. PluginInv /\ [PluginNext]_pluginVars => PluginInv'
  BY PluginStep
<1> QED BY PluginInitially, <1>1, PTL DEF PluginSpec

LEMMA PluginIsTyped == PluginInv => PluginTypeOK
  BY DEF PluginInv, PluginTyped, PluginTypeOK, DiskType, EvolverType

(* Type correctness of the plugin's directory, its two entries and the threads. *)
THEOREM PluginTypeCorrect == PluginSpec => []PluginTypeOK
  BY PluginInvariant, PluginIsTyped, PTL

(* Approvals, rejections, reloads, evolutions and restarts, each a sequence of steps *)
(* on three records, keep what the capability registry runs known to the plugin      *)
(* registry and what that knows on disk, while only one thread works on the plugin.  *)
THEOREM RunsWhatIsRegistered == PluginSpec => []ServedIsRegistered
<1>1. PluginInv => ServedIsRegistered
  BY AtRest DEF PluginInv, ServedIsRegistered, Quiet, Busy, InStep
<1> QED BY PluginInvariant, <1>1, PTL

(* A plugin marked untrusted on disk, by the user or by an evolution that gave up, is *)
(* neither registered nor run, however often it is approved, enabled or reloaded      *)
(* afterwards, while only one thread works on the plugin.                             *)
THEOREM RejectedIsOut == PluginSpec => []RejectedStaysOut
<1>1. PluginInv => RejectedStaysOut
  BY AtRest DEF PluginInv, RejectedStaysOut, Quiet, Busy, InStep
<1> QED BY PluginInvariant, <1>1, PTL

-----------------------------------------------------------------------------
(* The gaps.                                                               *)

Failure == [type : {"execution", "evolution"}, intent : Spoken,
            category : Fault \union {"success"}]

Count == [Phrase -> 0..ConsecutiveLimit]

\* The types the argument needs.
GapTyped ==
    /\ alike \subseteq Tidied \X Tidied
    /\ embedded \subseteq Tidied /\ group \in [Phrase -> Phrase]
    /\ consecutive \in Count
    /\ cooling \subseteq Phrase /\ handled \subseteq Tidied
    /\ logged \in [Phrase -> 0..WindowLimit] /\ streak \in 0..StreakLimit
    /\ posted \in Seq(Failure)
    /\ signals \in 0..MaxSignals /\ told \in [Phrase -> Nat]

\* A report starts the cooldown of its group, and nobody else of the group has one.
ReportsCool ==
    /\ \A x \in Phrase :
          told[x] > 0 => told[x] = 1 /\ x \in embedded /\ group[x] \in cooling
    /\ \A x, y \in Phrase :
          x # y /\ told[x] > 0 /\ told[y] > 0 => group[x] # group[y]

GapInv == GapTyped /\ ReportsCool

LEMMA TidiedIsPhrase ==
  Tidied \subseteq Phrase /\ \A p \in Spoken : p \in Phrase /\ Tidy[p] \in Tidied /\ Tidy[p] \in Phrase
BY PhraseAssumption DEF Tidied

LEMMA Capped ==
  ASSUME NEW limit \in Nat \ {0}, NEW n \in 0..limit
  PROVE  UpTo(limit, n + 1) \in 0..limit
BY DEF UpTo

LEMMA GapInitially == GapInit => GapInv
<1> SUFFICES ASSUME GapInit PROVE GapInv
  OBVIOUS
<1>1. alike \subseteq Tidied \X Tidied
  BY DEF GapInit
<1>2. posted \in Seq(Failure)
  BY EmptySeq DEF GapInit
<1>3. GapTyped
  BY <1>1, <1>2, LimitAssumption DEF GapInit, GapTyped, Count
<1>4. ReportsCool
  BY DEF GapInit, ReportsCool
<1> QED BY <1>3, <1>4 DEF GapInv

\* Looking up the canonical intent adds one intent at most, to the group of the key.
LEMMA CanonicalStep ==
  ASSUME GapInv, NEW p \in Spoken, NEW key \in Phrase, Canonical(p, key)
  PROVE  /\ embedded' \subseteq Tidied /\ group' \in [Phrase -> Phrase]
         /\ embedded \subseteq embedded'
         /\ \A x \in embedded : group'[x] = group[x]
         /\ Tidy[p] \in embedded' => group'[Tidy[p]] = key
<1> USE TidiedIsPhrase DEF GapInv, GapTyped
<1>1. CASE Tidy[p] \in embedded
  BY <1>1 DEF Canonical
<1>2. CASE Tidy[p] \notin embedded /\ UNCHANGED <<embedded, group>>
  BY <1>2
<1>3. CASE /\ Tidy[p] \notin embedded
           /\ embedded' = embedded \union {Tidy[p]}
           /\ group' = [group EXCEPT ![Tidy[p]] = key]
  BY <1>3
<1> QED BY <1>1, <1>2, <1>3 DEF Canonical

\* Whatever else a step does, the reports stay in order while only intents without
\* a report are put into groups and no cooldown ends.
LEMMA ReportsKept ==
  ASSUME GapInv, embedded \subseteq embedded', \A x \in embedded : group'[x] = group[x],
         cooling \subseteq cooling', told' = told
  PROVE  ReportsCool'
BY DEF GapInv, ReportsCool

\* One more report is made only where the group has none.
LEMMA TriggerStep ==
  ASSUME GapInv, NEW p \in Spoken, NEW key \in Phrase, Canonical(p, key),
         NEW counted \in Count, TriggerGap(p, key, counted)
  PROVE  /\ consecutive' \in Count /\ cooling' \subseteq Phrase /\ told' \in [Phrase -> Nat]
         /\ ReportsCool'
<1> USE DEF GapInv, GapTyped
<1>0. /\ embedded' \subseteq Tidied /\ group' \in [Phrase -> Phrase]
      /\ embedded \subseteq embedded'
      /\ \A x \in embedded : group'[x] = group[x]
      /\ Tidy[p] \in embedded' => group'[Tidy[p]] = key
  BY CanonicalStep
<1>1. CASE key \in cooling
  <2>1. UNCHANGED <<cooling, told>> /\ consecutive' = counted
    BY <1>1 DEF TriggerGap
  <2> QED BY <1>0, <2>1, ReportsKept
<1>2. CASE key \notin cooling
  <2>1. cooling' = cooling \union {key}
    BY <1>2 DEF TriggerGap
  <2>2. consecutive' \in Count
    <3>1. consecutive' = [counted EXCEPT ![key] = 0] /\ 0 \in 0..ConsecutiveLimit
      BY <1>2, LimitAssumption DEF TriggerGap
    <3> QED BY <3>1 DEF Count
  <2>3. CASE Tidy[p] \notin embedded'
    <3>1. told' = told
      BY <1>2, <2>3 DEF TriggerGap
    <3> QED BY <1>0, <2>1, <2>2, <3>1, ReportsKept
  <2>4. CASE Tidy[p] \in embedded'
    <3>1. told' = [told EXCEPT ![Tidy[p]] = told[Tidy[p]] + 1]
      BY <1>2, <2>4 DEF TriggerGap
    <3>2. Tidy[p] \in Phrase
      BY TidiedIsPhrase
    <3>3. \A x \in Phrase : told[x] > 0 => x \in embedded /\ group'[x] # key
      BY <1>0, <1>2 DEF ReportsCool
    <3>4. told[Tidy[p]] = 0
      BY <1>0, <2>4, <3>2, <3>3
    <3>5. told' \in [Phrase -> Nat] /\ told'[Tidy[p]] = 1
          /\ \A x \in Phrase \ {Tidy[p]} : told'[x] = told[x]
      BY <3>1, <3>2, <3>4
    <3>6. \A x \in Phrase : told'[x] > 0 => told'[x] = 1 /\ x \in embedded' /\ group'[x] \in cooling'
      BY <1>0, <2>1, <2>4, <3>3, <3>5 DEF ReportsCool
    <3>7. \A x, y \in Phrase : x # y /\ told'[x] > 0 /\ told'[y] > 0 => group'[x] # group'[y]
      <4> SUFFICES ASSUME NEW x \in Phrase, NEW y \in Phrase, x # y, told'[x] > 0, told'[y] > 0
                   PROVE  group'[x] # group'[y]
        OBVIOUS
      <4>1. CASE x # Tidy[p] /\ y # Tidy[p]
        <5>1. told[x] > 0 /\ told[y] > 0
          BY <3>5, <4>1
        <5>2. x \in embedded /\ y \in embedded /\ group[x] # group[y]
          BY <5>1 DEF ReportsCool
        <5> QED BY <1>0, <5>2
      <4>2. CASE x = Tidy[p]
        BY <1>0, <2>4, <3>3, <3>5, <4>2
      <4>3. CASE y = Tidy[p]
        BY <1>0, <2>4, <3>3, <3>5, <4>3
      <4> QED BY <4>1, <4>2, <4>3
    <3>8. cooling' \subseteq Phrase
      BY <2>1
    <3>9. ReportsCool'
      BY <3>6, <3>7 DEF ReportsCool
    <3> QED BY <2>2, <3>5, <3>8, <3>9
  <2> QED BY <2>3, <2>4
<1> QED BY <1>1, <1>2

\* A failure is counted for its group, and reported at the limit.
LEMMA FailureStep ==
  ASSUME GapInv, NEW p \in Spoken, NEW log, ProcessFailure(p, log)
  PROVE  /\ embedded' \subseteq Tidied /\ group' \in [Phrase -> Phrase]
         /\ consecutive' \in Count /\ cooling' \subseteq Phrase /\ told' \in [Phrase -> Nat]
         /\ ReportsCool'
<1> USE DEF GapInv, GapTyped
<1> DEFINE counted(k) == [consecutive EXCEPT ![k] = UpTo(ConsecutiveLimit, consecutive[k] + 1)]
<1>1. PICK key \in Phrase :
        /\ Canonical(p, key)
        /\ \/ TriggerGap(p, key, counted(key))
           \/ consecutive' = counted(key) /\ UNCHANGED <<cooling, told>>
  BY DEF ProcessFailure
<1>2. counted(key) \in Count
  <2>1. UpTo(ConsecutiveLimit, consecutive[key] + 1) \in 0..ConsecutiveLimit
    BY Capped, LimitAssumption DEF Count
  <2> QED BY <2>1 DEF Count
<1>3. /\ embedded' \subseteq Tidied /\ group' \in [Phrase -> Phrase]
      /\ embedded \subseteq embedded'
      /\ \A x \in embedded : group'[x] = group[x]
  BY <1>1, CanonicalStep
<1> HIDE DEF counted
<1>4. CASE TriggerGap(p, key, counted(key))
  BY <1>1, <1>2, <1>3, <1>4, TriggerStep
<1>5. CASE consecutive' = counted(key) /\ UNCHANGED <<cooling, told>>
  BY <1>2, <1>3, <1>5, ReportsKept
<1> QED BY <1>1, <1>4, <1>5

\* An incoming event is counted, and what was posted leaves room for one more.
LEMMA Posting ==
  ASSUME GapTyped, Comes, NEW e \in Failure
  PROVE  signals' \in 0..MaxSignals /\ Append(posted, e) \in Seq(Failure)
<1>1. signals' \in 0..MaxSignals
  BY LimitAssumption DEF GapTyped, Comes
<1> QED BY <1>1, AppendProperties DEF GapTyped

LEMMA Logging ==
  ASSUME GapTyped, NEW p \in Phrase, Log(p)
  PROVE  logged' \in [Phrase -> 0..WindowLimit]
<1>1. UpTo(WindowLimit, logged[p] + 1) \in 0..WindowLimit
  BY Capped, LimitAssumption DEF GapTyped
<1> QED BY <1>1 DEF GapTyped, Log

LEMMA Arrival ==
  ASSUME GapTyped, Comes
  PROVE  signals' \in 0..MaxSignals
BY LimitAssumption DEF GapTyped, Comes

LEMMA GapStep ==
  ASSUME GapInv, [GapNext]_gapVars
  PROVE  GapInv'
<1> USE DEF GapInv
<1>1. ASSUME NEW p \in Spoken, NEW c \in Fault, TaskFails(p, c) PROVE GapInv'
  <2>1. PICK e : e = [type |-> "execution", intent |-> p, category |-> c]
    OBVIOUS
  <2>2. e \in Failure
    BY <2>1 DEF Failure
  <2>3. signals' \in 0..MaxSignals /\ posted' \in Seq(Failure)
    BY <1>1, <2>1, <2>2, Posting DEF TaskFails
  <2>4. logged' \in [Phrase -> 0..WindowLimit]
    BY <1>1, Logging, TidiedIsPhrase DEF TaskFails
  <2>5. ProcessFailure(p, logged') /\ UNCHANGED <<alike, handled, streak>>
    BY <1>1 DEF TaskFails
  <2> QED BY <2>3, <2>4, <2>5, FailureStep DEF GapTyped
<1>2. ASSUME NEW p \in Spoken, MappingFails(p) PROVE GapInv'
  <2>1. signals' \in 0..MaxSignals /\ UNCHANGED <<alike, handled, logged, streak, posted>>
    BY <1>2, Arrival DEF MappingFails
  <2>2. CASE UNCHANGED <<embedded, group, consecutive, cooling, told>>
    BY <2>1, <2>2 DEF GapTyped, ReportsCool
  <2>3. ASSUME NEW key \in Phrase, Canonical(p, key), TriggerGap(p, key, consecutive)
        PROVE  GapInv'
    <3>1. embedded' \subseteq Tidied /\ group' \in [Phrase -> Phrase]
      BY <2>3, CanonicalStep
    <3>2. /\ consecutive' \in Count /\ cooling' \subseteq Phrase /\ told' \in [Phrase -> Nat]
          /\ ReportsCool'
      BY <2>3, TriggerStep DEF GapTyped
    <3> QED BY <2>1, <3>1, <3>2 DEF GapTyped
  <2> QED BY <1>2, <2>2, <2>3 DEF MappingFails
<1>3. ASSUME NEW p \in Spoken, GapFilled(p) PROVE GapInv'
  <2>1. signals' \in 0..MaxSignals /\ UNCHANGED <<alike, logged, streak, posted, told>>
        /\ handled' \subseteq Tidied
    BY <1>3, Arrival, TidiedIsPhrase DEF GapFilled, GapTyped
  <2>2. PICK key \in Phrase :
          /\ Canonical(p, key)
          /\ cooling' = cooling \union {key}
          /\ consecutive' = [q \in Phrase |-> IF q = key \/ group'[q] # q THEN 0
                                              ELSE consecutive[q]]
    BY <1>3 DEF GapFilled
  <2>3. /\ embedded' \subseteq Tidied /\ group' \in [Phrase -> Phrase]
        /\ embedded \subseteq embedded'
        /\ \A x \in embedded : group'[x] = group[x]
    BY <2>2, CanonicalStep
  <2>4. ReportsCool'
    BY <2>1, <2>2, <2>3, ReportsKept
  <2>5. consecutive' \in Count
    BY <2>2, LimitAssumption DEF GapTyped, Count
  <2> QED BY <2>1, <2>2, <2>3, <2>4, <2>5 DEF GapTyped
<1>4. ASSUME NEW p \in Spoken, Reject(p) PROVE GapInv'
  <2>1. signals' \in 0..MaxSignals
        /\ UNCHANGED <<alike, embedded, group, consecutive, cooling, handled, streak, posted, told>>
    BY <1>4, Arrival DEF Reject
  <2>2. logged' \in [Phrase -> 0..WindowLimit]
    BY <1>4, Logging, TidiedIsPhrase DEF Reject
  <2> QED BY <2>1, <2>2 DEF GapTyped, ReportsCool
<1>5. ASSUME NEW key \in Phrase, CooldownEnds(key) PROVE GapInv'
  <2>1. UNCHANGED <<alike, embedded, group, consecutive, handled, logged, streak, posted, signals>>
        /\ cooling' = cooling \ {key}
        /\ told' = [p \in Phrase |-> IF group[p] = key THEN 0 ELSE told[p]]
    BY <1>5 DEF CooldownEnds
  <2>2. told' \in [Phrase -> Nat]
    BY <2>1 DEF GapTyped
  <2>3. ReportsCool'
    BY <2>1 DEF ReportsCool
  <2> QED BY <2>1, <2>2, <2>3 DEF GapTyped
<1>6. ASSUME TaskSucceeds PROVE GapInv'
  <2>1. PICK e : e = [type |-> "execution", intent |-> CHOOSE p \in Spoken : TRUE, category |-> "success"]
    OBVIOUS
  <2>2. (CHOOSE p \in Spoken : TRUE) \in Spoken
    BY PhraseAssumption
  <2>3. e \in Failure
    BY <2>1, <2>2 DEF Failure
  <2>4. signals' \in 0..MaxSignals /\ posted' \in Seq(Failure)
    BY <1>6, <2>1, <2>3, Posting DEF TaskSucceeds
  <2> QED BY <1>6, <2>4 DEF TaskSucceeds, GapTyped, ReportsCool
<1>7. ASSUME Reflect PROVE GapInv'
  <2>1. Head(posted) \in Failure /\ Tail(posted) \in Seq(Failure)
    BY <1>7, HeadTailProperties DEF Reflect, GapTyped
  <2>2. [Head(posted) EXCEPT !.type = "evolution"] \in Failure
    BY <2>1 DEF Failure
  <2>3. Append(Tail(posted), [Head(posted) EXCEPT !.type = "evolution"]) \in Seq(Failure)
    BY <2>1, <2>2, AppendProperties
  <2>4. posted' \in Seq(Failure)
    BY <1>7, <2>1, <2>3 DEF Reflect
  <2>5. streak' \in 0..StreakLimit
    BY <1>7, Capped, LimitAssumption DEF Reflect, GapTyped
  <2> QED BY <1>7, <2>4, <2>5 DEF Reflect, GapTyped, ReportsCool
<1>8. ASSUME EvolutionNeeded PROVE GapInv'
  <2>1. Head(posted) \in Failure /\ Tail(posted) \in Seq(Failure)
    BY <1>8, HeadTailProperties DEF EvolutionNeeded, GapTyped
  <2>2. Head(posted).intent \in Spoken
    BY <2>1 DEF Failure
  <2>3. posted' \in Seq(Failure) /\ UNCHANGED <<alike, handled, logged, streak, signals>>
    BY <1>8, <2>1 DEF EvolutionNeeded
  <2>4. CASE UNCHANGED <<embedded, group, consecutive, cooling, told>>
    BY <2>3, <2>4 DEF GapTyped, ReportsCool
  <2>5. CASE ProcessFailure(Head(posted).intent, logged)
    BY <2>2, <2>3, <2>5, FailureStep DEF GapTyped
  <2> QED BY <1>8, <2>4, <2>5 DEF EvolutionNeeded
<1>9. CASE UNCHANGED gapVars
  BY <1>9 DEF gapVars, GapTyped, ReportsCool
<1> QED BY <1>1, <1>2, <1>3, <1>4, <1>5, <1>6, <1>7, <1>8, <1>9 DEF GapNext

(* The invariant of gap detection. *)
THEOREM GapInvariant == GapSpec => []GapInv
<1>1. GapInv /\ [GapNext]_gapVars => GapInv'
  BY GapStep
<1> QED BY GapInitially, <1>1, PTL DEF GapSpec

LEMMA GapIsTyped == GapInv => GapTypeOK
<1> SUFFICES ASSUME GapInv PROVE GapTypeOK
  OBVIOUS
<1>1. Failure \subseteq [type : {"execution", "evolution"}, intent : Phrase,
                         category : Fault \union {"success"}]
  BY PhraseAssumption DEF Failure
<1>2. posted \in Seq([type : {"execution", "evolution"}, intent : Phrase,
                      category : Fault \union {"success"}])
  BY <1>1, SeqMonotonic DEF GapInv, GapTyped
<1> QED BY <1>2 DEF GapInv, GapTyped, GapTypeOK, Count

(* Type correctness of gap detection. *)
THEOREM GapTypeCorrect == GapSpec => []GapTypeOK
  BY GapInvariant, GapIsTyped, PTL

(* Whatever the spellings and the likeness of intents, in whatever order failures,   *)
(* mappings, plugins and the ends of cooldowns come: within one cooldown the detector *)
(* asks for one plugin per group of intents that have an embedding.                   *)
THEOREM OneReportPerGroup == GapSpec => []OneReportPerCooldown
<1>1. GapInv => OneReportPerCooldown
  <2> SUFFICES ASSUME GapInv, NEW p \in embedded, NEW q \in embedded, group[p] = group[q]
               PROVE  told[p] + told[q] <= (IF p = q THEN 2 ELSE 1)
    BY DEF OneReportPerCooldown
  <2>1. p \in Phrase /\ q \in Phrase
    BY TidiedIsPhrase DEF GapInv, GapTyped
  <2>2. told[p] \in {0, 1} /\ told[q] \in {0, 1}
    BY <2>1 DEF GapInv, GapTyped, ReportsCool
  <2>3. p # q => told[p] = 0 \/ told[q] = 0
    BY <2>1, <2>2 DEF GapInv, ReportsCool
  <2> QED BY <2>2, <2>3
<1> QED BY GapInvariant, <1>1, PTL

-----------------------------------------------------------------------------
(* The plans that are kept.                                                *)

Pattern == [plan : Sane, used : Nat]
Choices == [App \union {Anywhere} -> Table]
Penalties == [Methods -> 0..MaxPenalty]
Stores == [patterns : Seq(Pattern), chosen : Choices, penalty : Penalties]

\* The types the argument needs.
LearnTyped ==
    /\ patterns \in Seq(Pattern) /\ chosen \in Choices /\ penalty \in Penalties
    /\ file \in Stores
    /\ agent \in {"up", "stopping", "down"} /\ lessons \in 0..MaxLessons
    /\ shortest \in Nat /\ spoiled \in BOOLEAN

StepsAt(list, i) == StepsOf[list[i].plan]

\* Nothing on a list is shorter than the shortest plan that was learned.
Bounded(list) == \A i \in DOMAIN list : shortest > 0 /\ shortest <= StepsAt(list, i)

Keeps(list) == \E i \in DOMAIN list : StepsAt(list, i) = shortest

\* The shortest plan is on disk, and in memory while the agent runs.
ShortestKept ==
    /\ Bounded(patterns) /\ Bounded(file.patterns)
    /\ ~spoiled /\ shortest > 0 =>
          Keeps(file.patterns) /\ (agent # "down" => Keeps(patterns))

LearnInv == LearnTyped /\ ShortestKept

\* A list that was read is a list of sane plans with their steps.
LEMMA PlansHaveSteps ==
  ASSUME NEW list \in Seq(Pattern), NEW i \in DOMAIN list
  PROVE  list[i] \in Pattern /\ list[i].plan \in Sane /\ StepsAt(list, i) \in Nat \ {0}
<1>1. list[i] \in Pattern
  BY LenProperties, ElementOfSeq
<1>2. list[i].plan \in Sane
  BY <1>1 DEF Pattern
<1> QED BY <1>1, <1>2, PlanAssumption DEF StepsAt

\* Pruning a list leaves some of its plans, and the shortest of them.
LEMMA PrunedKeepsShortest ==
  ASSUME NEW list \in Seq(Pattern), NEW rest \in Pruned(list)
  PROVE  /\ rest \in Seq(Pattern)
         /\ \A k \in DOMAIN rest : \E i \in DOMAIN list : rest[k] = list[i]
         /\ \A i \in DOMAIN list : \E k \in DOMAIN rest : StepsAt(rest, k) <= StepsAt(list, i)
<1> DEFINE n == IF Len(list) < MaxPatterns THEN Len(list) ELSE MaxPatterns
<1>1. Len(list) \in Nat /\ DOMAIN list = 1..Len(list) /\ n \in Nat
  BY LenProperties, LearnAssumption
<1>2. PICK f \in [1..n -> DOMAIN list] :
        /\ \A k \in 1..n : \A i \in DOMAIN list :
              Precedes(list, f[k], i) \/ \E l \in 1..n : i = f[l]
        /\ \A k, l \in 1..n : k < l => Precedes(list, f[k], f[l])
        /\ rest = [k \in 1..n |-> list[f[k]]]
  BY DEF Pruned
<1> HIDE DEF n
<1>3. \A k \in 1..n : rest[k] = list[f[k]] /\ rest[k] \in Pattern
  BY <1>2, PlansHaveSteps
<1>4. rest \in Seq(Pattern) /\ DOMAIN rest = 1..n
  <2>1. rest \in [1..n -> Pattern]
    BY <1>2, <1>3
  <2> QED BY <1>1, <2>1, SeqDef
<1>5. ASSUME NEW i \in DOMAIN list
      PROVE  \E k \in DOMAIN rest : StepsAt(rest, k) <= StepsAt(list, i)
  <2>1. 1 \in 1..n
    BY <1>1, LearnAssumption DEF n
  <2>2. StepsAt(rest, 1) = StepsAt(list, f[1]) /\ f[1] \in DOMAIN list
    BY <1>2, <1>3, <2>1 DEF StepsAt
  <2>3. f[1] = i \/ Precedes(list, f[1], i)
    BY <1>1, <1>2, <2>1
  <2>4. StepsAt(list, i) \in Nat /\ StepsAt(list, f[1]) \in Nat
    BY <2>2, PlansHaveSteps
  <2>5. StepsAt(list, f[1]) <= StepsAt(list, i)
    BY <2>3, <2>4 DEF Precedes, ByLength, StepsAt
  <2> QED BY <1>4, <2>1, <2>2, <2>5
<1>6. \A k \in DOMAIN rest : \E i \in DOMAIN list : rest[k] = list[i]
  BY <1>2, <1>3, <1>4
<1> QED BY <1>4, <1>5, <1>6

LEMMA PruneStep ==
  ASSUME LearnInv, NEW rest \in Pruned(file.patterns)
  PROVE  /\ rest \in Seq(Pattern) /\ Bounded(rest)
         /\ Keeps(file.patterns) => Keeps(rest)
<1> USE DEF LearnInv, LearnTyped
<1>1. file.patterns \in Seq(Pattern)
  BY DEF Stores
<1>2. /\ rest \in Seq(Pattern)
      /\ \A k \in DOMAIN rest : \E i \in DOMAIN file.patterns : rest[k] = file.patterns[i]
      /\ \A i \in DOMAIN file.patterns : \E k \in DOMAIN rest : StepsAt(rest, k) <= StepsAt(file.patterns, i)
  BY <1>1, PrunedKeepsShortest
<1>3. Bounded(rest)
  BY <1>2 DEF ShortestKept, Bounded, StepsAt
<1>4. ASSUME Keeps(file.patterns) PROVE Keeps(rest)
  <2>1. PICK i \in DOMAIN file.patterns : StepsAt(file.patterns, i) = shortest
    BY <1>4 DEF Keeps
  <2>2. PICK k \in DOMAIN rest : StepsAt(rest, k) <= shortest
    BY <1>2, <2>1
  <2>3. shortest <= StepsAt(rest, k) /\ StepsAt(rest, k) \in Nat
    BY <1>2, <1>3, PlansHaveSteps DEF Bounded
  <2> QED BY <2>2, <2>3 DEF Keeps
<1> QED BY <1>2, <1>3, <1>4

LEMMA LearnInitially == LearnInit => LearnInv
<1> SUFFICES ASSUME LearnInit PROVE LearnInv
  OBVIOUS
<1>1. Nothing.patterns = << >> /\ Nothing.chosen \in Choices /\ Nothing.penalty \in Penalties
  BY LearnAssumption DEF Nothing, Choices, Penalties, Table
<1>2. Nothing \in Stores
  BY <1>1, EmptySeq DEF Nothing, Stores
<1>3. patterns = << >> /\ file.patterns = << >> /\ shortest = 0
  BY <1>1 DEF LearnInit
<1>4. LearnTyped
  <2>1. patterns \in Seq(Pattern) /\ chosen \in Choices /\ penalty \in Penalties
    BY <1>1, <1>3, EmptySeq DEF LearnInit
  <2>2. file \in Stores
    BY <1>2 DEF LearnInit
  <2>3. agent = "up" /\ lessons = 0 /\ shortest = 0 /\ spoiled = FALSE
    BY DEF LearnInit
  <2>4. lessons \in 0..MaxLessons /\ shortest \in Nat
    BY <2>3, LearnAssumption
  <2> QED BY <2>1, <2>2, <2>3, <2>4 DEF LearnTyped
<1>5. ShortestKept
  BY <1>3 DEF ShortestKept, Bounded
<1> QED BY <1>4, <1>5 DEF LearnInv

\* What a write leaves of the three files.
LEMMA WriteStep ==
  ASSUME LearnTyped, NEW store \in {"patterns", "chosen", "penalty"}, NEW content,
         store = "patterns" => content \in Seq(Pattern),
         store = "chosen" => content \in Choices,
         store = "penalty" => content \in Penalties,
         Write(store, content)
  PROVE  /\ file' \in Stores /\ agent' \in {"up", "stopping", "down"} /\ spoiled' \in BOOLEAN
         /\ store # "patterns" => file'.patterns \in {file.patterns}
         /\ \/ spoiled'
            \/ UNCHANGED <<agent, spoiled>> /\ (store = "patterns" => file'.patterns = content)
         /\ store = "patterns" => file'.patterns \in {content, << >>}
<1> USE DEF LearnTyped
<1>1. Nothing.patterns = << >> /\ Nothing.chosen \in Choices /\ Nothing.penalty \in Penalties
  BY LearnAssumption DEF Nothing, Choices, Penalties, Table
<1>2. CASE file' = [file EXCEPT ![store] = content] /\ UNCHANGED <<agent, spoiled>>
  <2>1. CASE store = "patterns"
    <3>1. file' = [file EXCEPT !.patterns = content]
      BY <1>2, <2>1
    <3> QED BY <1>2, <2>1, <3>1 DEF Stores
  <2>2. CASE store = "chosen"
    <3>1. file' = [file EXCEPT !.chosen = content]
      BY <1>2, <2>2
    <3> QED BY <1>2, <2>2, <3>1 DEF Stores
  <2>3. CASE store = "penalty"
    <3>1. file' = [file EXCEPT !.penalty = content]
      BY <1>2, <2>3
    <3> QED BY <1>2, <2>3, <3>1 DEF Stores
  <2> QED BY <2>1, <2>2, <2>3
<1>3. CASE file' = [file EXCEPT ![store] = Nothing[store]] /\ agent' = "down" /\ spoiled' = TRUE
  <2>1. CASE store = "patterns"
    <3>1. file' = [file EXCEPT !.patterns = << >>]
      BY <1>1, <1>3, <2>1
    <3> QED BY <1>3, <2>1, <3>1, EmptySeq DEF Stores
  <2>2. CASE store = "chosen"
    <3>1. file' = [file EXCEPT !.chosen = Nothing.chosen]
      BY <1>3, <2>2
    <3> QED BY <1>1, <1>3, <2>2, <3>1 DEF Stores
  <2>3. CASE store = "penalty"
    <3>1. file' = [file EXCEPT !.penalty = Nothing.penalty]
      BY <1>3, <2>3
    <3> QED BY <1>1, <1>3, <2>3, <3>1 DEF Stores
  <2> QED BY <2>1, <2>2, <2>3
<1> QED BY <1>2, <1>3 DEF Write

\* A lesson about choices or penalties leaves the plans alone.
LEMMA OtherLesson ==
  ASSUME LearnInv, LearnTyped', UNCHANGED <<patterns, shortest>>, file'.patterns = file.patterns,
         agent # "down", spoiled' \/ UNCHANGED <<agent, spoiled>>
  PROVE  LearnInv'
<1>1. Bounded(patterns)' /\ Bounded(file.patterns)'
  BY DEF LearnInv, ShortestKept, Bounded, StepsAt
<1>2. ASSUME ~spoiled', shortest' > 0
      PROVE  Keeps(file.patterns)' /\ Keeps(patterns)'
  <2>1. ~spoiled /\ shortest > 0
    BY <1>2
  <2>2. Keeps(file.patterns) /\ Keeps(patterns)
    BY <2>1 DEF LearnInv, ShortestKept
  <2> QED BY <2>2 DEF Keeps, StepsAt
<1> QED BY <1>1, <1>2 DEF LearnInv, ShortestKept

\* A plan that worked is on the list in memory afterwards, once.
LEMMA SuccessStep ==
  ASSUME LearnInv, NEW p \in Plan, LearnFromSuccess(p)
  PROVE  LearnInv'
<1> USE DEF LearnInv
<1>1. lessons' \in 0..MaxLessons /\ agent # "down" /\ UNCHANGED <<chosen, penalty>>
  BY LearnAssumption DEF LearnFromSuccess, Lesson, LearnTyped
<1>2. CASE p \notin Sane
  <2>1. UNCHANGED <<patterns, file, agent, shortest, spoiled>>
    BY <1>2 DEF LearnFromSuccess
  <2>2. LearnTyped'
    BY <1>1, <2>1 DEF LearnTyped
  <2> QED BY <1>1, <2>1, <2>2, OtherLesson
<1>3. CASE p \in Sane
  <2> DEFINE known == \E i \in DOMAIN patterns : patterns[i].plan = p
             counted == [i \in DOMAIN patterns |->
                           IF patterns[i].plan = p THEN [patterns[i] EXCEPT !.used = @ + 1]
                           ELSE patterns[i]]
             longer == Append(patterns, [plan |-> p, used |-> 1])
  <2>1. patterns' = IF known THEN counted ELSE longer
    BY <1>3 DEF LearnFromSuccess
  <2>2. Write("patterns", patterns')
        /\ shortest' = IF shortest = 0 \/ StepsOf[p] < shortest THEN StepsOf[p] ELSE shortest
    BY <1>3 DEF LearnFromSuccess
  <2>3. StepsOf[p] \in Nat \ {0}
    BY PlanAssumption
  <2>4. patterns \in Seq(Pattern) /\ DOMAIN patterns = 1..Len(patterns) /\ Len(patterns) \in Nat
    BY LenProperties DEF LearnTyped
  <2>5. /\ patterns' \in Seq(Pattern)
        /\ \A i \in DOMAIN patterns' : \/ patterns'[i].plan = p
                                       \/ i \in DOMAIN patterns /\ patterns'[i].plan = patterns[i].plan
        /\ \E i \in DOMAIN patterns' : patterns'[i].plan = p
        /\ \A i \in DOMAIN patterns : i \in DOMAIN patterns' /\ patterns'[i].plan = patterns[i].plan
    <3>1. CASE known
      <4>1. patterns' = counted
        BY <2>1, <3>1
      <4>2. \A i \in DOMAIN patterns : patterns[i] \in Pattern
        BY <2>4, PlansHaveSteps
      <4>3. \A i \in DOMAIN patterns : counted[i] \in Pattern /\ counted[i].plan = patterns[i].plan
        BY <4>2 DEF Pattern
      <4>4. counted \in [1..Len(patterns) -> Pattern]
        BY <2>4, <4>3
      <4>5. counted \in Seq(Pattern)
        BY <2>4, <4>4, SeqDef
      <4>6. DOMAIN counted = DOMAIN patterns
        OBVIOUS
      <4> HIDE DEF counted
      <4> QED BY <3>1, <4>1, <4>3, <4>5, <4>6
    <3>2. CASE ~known
      <4> DEFINE e == [plan |-> p, used |-> 1]
      <4>1. patterns' = Append(patterns, e) /\ e \in Pattern /\ e.plan = p
        BY <1>3, <2>1, <3>2 DEF Pattern
      <4> HIDE DEF e
      <4>2. /\ patterns' \in Seq(Pattern) /\ Len(patterns') = Len(patterns) + 1
            /\ \A i \in 1..Len(patterns) : patterns'[i] = patterns[i]
            /\ patterns'[Len(patterns) + 1] = e
        BY <2>4, <4>1, AppendProperties
      <4>3. DOMAIN patterns' = 1..(Len(patterns) + 1)
        BY <4>2, LenProperties
      <4> QED BY <2>4, <4>1, <4>2, <4>3
    <3> QED BY <3>1, <3>2
  <2> HIDE DEF known, counted, longer
  <2>6. /\ file' \in Stores /\ agent' \in {"up", "stopping", "down"} /\ spoiled' \in BOOLEAN
        /\ file'.patterns \in {patterns', << >>}
        /\ spoiled' \/ (UNCHANGED <<agent, spoiled>> /\ file'.patterns = patterns')
    BY <2>2, <2>5, WriteStep
  <2>7. shortest' \in Nat \ {0} /\ shortest' <= StepsOf[p] /\ (shortest > 0 => shortest' <= shortest)
        /\ (shortest' = StepsOf[p] \/ shortest' = shortest)
    BY <2>2, <2>3 DEF LearnTyped
  <2>8. LearnTyped'
    BY <1>1, <2>5, <2>6, <2>7 DEF LearnTyped
  <2>9. Bounded(patterns)'
    <3> SUFFICES ASSUME NEW i \in DOMAIN patterns'
                 PROVE  shortest' > 0 /\ shortest' <= StepsOf[patterns'[i].plan]
      BY DEF Bounded, StepsAt
    <3>1. CASE patterns'[i].plan = p
      BY <2>7, <3>1
    <3>2. CASE i \in DOMAIN patterns /\ patterns'[i].plan = patterns[i].plan
      <4>1. shortest > 0 /\ shortest <= StepsAt(patterns, i) /\ StepsAt(patterns, i) \in Nat
        BY <2>4, <3>2, PlansHaveSteps DEF ShortestKept, Bounded
      <4> QED BY <2>7, <3>2, <4>1 DEF StepsAt, LearnTyped
    <3> QED BY <2>5, <3>1, <3>2
  <2>10. Bounded(file.patterns)'
    BY <2>6, <2>9 DEF Bounded, StepsAt
  <2>11. ASSUME ~spoiled' PROVE Keeps(patterns)' /\ Keeps(file.patterns)'
    <3>1. ~spoiled /\ file'.patterns = patterns'
      BY <2>6, <2>11
    <3>2. Keeps(patterns)'
      <4>1. CASE shortest' = StepsOf[p]
        BY <2>5, <4>1 DEF Keeps, StepsAt
      <4>2. CASE shortest' = shortest
        <5>1. Keeps(patterns)
          BY <1>1, <2>7, <3>1, <4>2 DEF ShortestKept, LearnTyped
        <5> QED BY <2>5, <4>2, <5>1 DEF Keeps, StepsAt
      <4> QED BY <2>7, <4>1, <4>2
    <3> QED BY <3>1, <3>2 DEF Keeps, StepsAt
  <2>12. ShortestKept'
    BY <2>9, <2>10, <2>11 DEF ShortestKept
  <2> QED BY <2>8, <2>12
<1> QED BY <1>2, <1>3

LEMMA OtherLessonsStep ==
  ASSUME LearnInv, NEW m \in Methods,
         LearnFromMismatch(m) \/ \E a \in App : LearnFromOverride(a, m) \/ LearnFromReflection(a, m)
  PROVE  LearnInv'
<1> USE DEF LearnInv
<1>1. lessons' \in 0..MaxLessons /\ agent # "down" /\ UNCHANGED <<patterns, shortest>>
  <2>1. Lesson /\ UNCHANGED <<patterns, shortest>>
    BY DEF LearnFromMismatch, LearnFromOverride, LearnFromReflection
  <2> QED BY <2>1, LearnAssumption DEF Lesson, LearnTyped
<1>2. CASE LearnFromMismatch(m)
  <2>1. CASE UNCHANGED <<penalty, file, agent, spoiled>>
    <3>1. LearnTyped'
      BY <1>1, <1>2, <2>1 DEF LearnFromMismatch, LearnTyped
    <3> QED BY <1>1, <2>1, <3>1, OtherLesson
  <2>2. CASE ~(penalty[m] >= MaxPenalty) /\ penalty' = [penalty EXCEPT ![m] = @ + 1] /\ Write("penalty", penalty')
    <3>1. penalty[m] \in 0..MaxPenalty
      BY DEF LearnTyped, Penalties
    <3>2. penalty[m] + 1 \in 0..MaxPenalty
      BY <2>2, <3>1, LearnAssumption
    <3>3. penalty' \in Penalties
      BY <2>2, <3>2 DEF LearnTyped, Penalties
    <3>4. /\ file' \in Stores /\ agent' \in {"up", "stopping", "down"} /\ spoiled' \in BOOLEAN
          /\ file'.patterns = file.patterns /\ (spoiled' \/ UNCHANGED <<agent, spoiled>>)
      BY <2>2, <3>3, WriteStep
    <3>5. LearnTyped'
      BY <1>1, <1>2, <3>3, <3>4 DEF LearnFromMismatch, LearnTyped
    <3> QED BY <1>1, <3>4, <3>5, OtherLesson
  <2> QED BY <1>2, <2>1, <2>2 DEF LearnFromMismatch
<1>3. ASSUME NEW a \in App, LearnFromOverride(a, m) \/ LearnFromReflection(a, m)
      PROVE  LearnInv'
  <2>1. \A b \in App \union {Anywhere} :
            chosen[b] \in Table /\ [chosen[b] EXCEPT ![m] = @ + 1] \in Table
    <3> TAKE b \in App \union {Anywhere}
    <3>1. chosen[b] \in Table /\ chosen[b][m] + 1 \in Nat
      BY DEF LearnTyped, Choices, Table
    <3> QED BY <3>1 DEF Table
  <2>2. DOMAIN chosen = App \union {Anywhere} /\ chosen \in Choices
    BY DEF LearnTyped, Choices
  <2>3. [chosen EXCEPT ![a][m] = @ + 1] \in Choices
    BY <2>1, <2>2 DEF Choices
  <2>4. chosen' \in Choices /\ Write("chosen", chosen') /\ UNCHANGED penalty
    <3>1. CASE LearnFromOverride(a, m)
      BY <2>3, <3>1 DEF LearnFromOverride
    <3>2. CASE LearnFromReflection(a, m)
      <4>1. chosen' = [b \in App \union {Anywhere} |-> IF b \in {a, Anywhere}
                          THEN [chosen[b] EXCEPT ![m] = @ + 1] ELSE chosen[b]]
        BY <2>2, <3>2 DEF LearnFromReflection
      <4>2. chosen' \in Choices
        BY <2>1, <4>1 DEF Choices
      <4> QED BY <3>2, <4>2 DEF LearnFromReflection
    <3> QED BY <1>3, <3>1, <3>2
  <2>5. /\ file' \in Stores /\ agent' \in {"up", "stopping", "down"} /\ spoiled' \in BOOLEAN
        /\ file'.patterns = file.patterns /\ (spoiled' \/ UNCHANGED <<agent, spoiled>>)
    BY <2>4, WriteStep
  <2>6. LearnTyped'
    BY <1>1, <2>4, <2>5 DEF LearnTyped
  <2> QED BY <1>1, <2>5, <2>6, OtherLesson
<1> QED BY <1>2, <1>3

LEMMA LearnStep ==
  ASSUME LearnInv, [LearnNext]_learnVars
  PROVE  LearnInv'
<1> USE DEF LearnInv
<1>1. CASE Prune
  <2>0. UNCHANGED <<patterns, chosen, penalty, lessons, shortest>> /\ agent = "up"
    BY <1>1 DEF Prune
  <2>1. ASSUME NEW rest \in Pruned(file.patterns), file' = [file EXCEPT !.patterns = rest],
               agent' = "stopping", UNCHANGED spoiled
        PROVE  LearnInv'
    <3>1. rest \in Seq(Pattern) /\ Bounded(rest) /\ (Keeps(file.patterns) => Keeps(rest))
      BY PruneStep
    <3>2. file' \in Stores /\ file'.patterns = rest
      BY <2>1, <3>1 DEF Stores, LearnTyped
    <3>3. LearnTyped'
      BY <2>0, <2>1, <3>2 DEF LearnTyped
    <3>4. Bounded(patterns)' /\ Bounded(file.patterns)'
      BY <2>0, <3>1, <3>2 DEF ShortestKept, Bounded, StepsAt
    <3>5. ASSUME ~spoiled, shortest > 0 PROVE Keeps(file.patterns)' /\ Keeps(patterns)'
      <4>1. Keeps(file.patterns) /\ Keeps(patterns)
        BY <2>0, <3>5 DEF ShortestKept
      <4> QED BY <2>0, <3>1, <3>2, <4>1 DEF Keeps, StepsAt
    <3>6. ShortestKept'
      BY <2>0, <2>1, <3>4, <3>5 DEF ShortestKept
    <3> QED BY <3>3, <3>6
  <2>2. CASE file' = [file EXCEPT !.patterns = Nothing.patterns] /\ agent' = "down" /\ spoiled' = TRUE
    <3>1. file' \in Stores /\ file'.patterns = << >>
      BY <2>2, EmptySeq DEF Stores, LearnTyped, Nothing
    <3>2. LearnTyped'
      BY <2>0, <2>2, <3>1 DEF LearnTyped
    <3>3. ShortestKept'
      BY <2>0, <2>2, <3>1 DEF ShortestKept, Bounded, StepsAt
    <3> QED BY <3>2, <3>3
  <2> QED BY <1>1, <2>1, <2>2 DEF Prune
<1>2. CASE Stop
  BY <1>2 DEF Stop, LearnTyped, ShortestKept, Bounded, Keeps, StepsAt
<1>3. CASE Start
  <2>1. agent' = "up" /\ UNCHANGED <<file, lessons, shortest, spoiled>>
        /\ patterns' = file.patterns /\ chosen' = file.chosen /\ penalty' = file.penalty
    BY <1>3 DEF Start
  <2>2. LearnTyped'
    BY <2>1 DEF LearnTyped, Stores
  <2>3. ShortestKept'
    BY <2>1 DEF ShortestKept, Bounded, Keeps, StepsAt
  <2> QED BY <2>2, <2>3
<1>4. CASE UNCHANGED learnVars
  BY <1>4 DEF learnVars, LearnTyped, ShortestKept, Bounded, Keeps, StepsAt
<1> QED BY <1>1, <1>2, <1>3, <1>4, SuccessStep, OtherLessonsStep DEF LearnNext

(* The invariant of what is learned. *)
THEOREM LearnInvariant == LearnSpec => []LearnInv
<1>1. LearnInv /\ [LearnNext]_learnVars => LearnInv'
  BY LearnStep
<1> QED BY LearnInitially, <1>1, PTL DEF LearnSpec

LEMMA LearnIsTyped == LearnInv => LearnTypeOK
<1>1. Penalties \subseteq Table
  BY LearnAssumption DEF Penalties, Table
<1> QED
  BY <1>1 DEF LearnInv, LearnTyped, LearnTypeOK, Stores, Choices, Penalties, PatternList, Pattern

(* Type correctness of what is learned, in memory and in the files. *)
THEOREM LearnTypeCorrect == LearnSpec => []LearnTypeOK
  BY LearnInvariant, LearnIsTyped, PTL

(* However lessons, prunings and restarts follow each other: unless a write was cut *)
(* off, the shortest plan that ever worked is on disk.                              *)
THEOREM ShortestIsKept == LearnSpec => []ShortestSurvives
<1>1. LearnInv => ShortestSurvives
  BY DEF LearnInv, ShortestKept, Keeps, StepsAt, ShortestSurvives
<1> QED BY LearnInvariant, <1>1, PTL

=============================================================================
