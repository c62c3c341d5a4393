--------------------------- MODULE Desktop_proofs ---------------------------
(***************************************************************************)
(* What stands between the user and the agent: the dashboard, the panel's  *)
(* context, voice and the shutdown, for any number of browsers, windows,   *)
(* presses and tasks.                                                      *)
(***************************************************************************)
EXTENDS Dashboard, PanelContext, VoiceMode, Lifecycle, FiniteSetTheorems, TLAPS

-----------------------------------------------------------------------------
(* The dashboard: nothing is let go which nobody approved.                 *)

\* A dialog that is open either has the callback of the shutdown, or is about the
\* task whose id will be sent.
DialogMatches ==
    \A b \in Browser : dialog[b] # "none" =>
        IF callback[b] THEN dialog[b] = "shutdown"
        ELSE dialog[b] \in Held /\ pendingId[b] = dialog[b]

\* An approval on its way, to the server or on the bus, is of a task approved.
ApprovalsAreTrue ==
    /\ \A k \in 1..Len(mail) :
          /\ mail[k].id \in {mail[k].shown, NoneHeld}
          /\ mail[k].allow => mail[k].shown \in approved
    /\ \A k \in 1..Len(answers) : answers[k].allow => answers[k].id \in approved \union astray

\* The task that is tracked is the one asked for last.
LastIsTracked ==
    /\ \A q \in Held : askedAt[q] <= askedFor
    /\ tracked # NoneHeld =>
          \A q \in Held \ {tracked} : askedAt[q] < askedAt[tracked]

\* The inductive invariant.
DashboardInv ==
    DashboardTypeOK /\ DialogMatches /\ ApprovalsAreTrue /\ LastIsTracked /\ ApprovedOrOvertaken

USE NullAssumption, BoundsAssumption DEF NullAssumption, BoundsAssumption

LEMMA DashboardInitInv == DashboardInit => DashboardInv
<1> SUFFICES ASSUME DashboardInit PROVE DashboardInv
  OBVIOUS
<1>1. mail = << >> /\ answers = << >> /\ wire = [b \in Browser |-> << >>]
  BY DEF DashboardInit
<1>2. mail \in Seq(SentAnswer) /\ answers \in Seq(Reply) /\ wire \in [Browser -> Seq(Held)]
  BY <1>1
<1>3. ApprovalsAreTrue
  BY <1>1 DEF ApprovalsAreTrue
<1>4. DashboardTypeOK
  <2>1. 0 \in 0..MaxAsked /\ 0 \in 0..MaxCuts
    OBVIOUS
  <2>2. /\ dialog \in [Browser -> Held \union {"none", "shutdown"}]
        /\ pendingId \in [Browser -> Held \union {NoneHeld}]
        /\ callback \in [Browser -> BOOLEAN]
        /\ link \in [Browser -> {"up", "deaf", "down"}]
    BY DEF DashboardInit
  <2> QED
    BY <1>2, <2>1, <2>2 DEF DashboardInit, DashboardTypeOK
<1> QED
  BY <1>3, <1>4 DEF DashboardInit, DashboardInv, DialogMatches, LastIsTracked, ApprovedOrOvertaken

\* The loop of the bus.
LEMMA AsksInv ==
  ASSUME DashboardInv, NEW q \in Held, Asks(q)
  PROVE  DashboardInv'
<1>1. PICK lost \in SUBSET {b \in Browser : link[b] = "up"} :
         /\ cuts + Cardinality(lost) <= MaxCuts /\ cuts' = cuts + Cardinality(lost)
         /\ link' = [b \in Browser |-> IF b \in lost THEN "deaf" ELSE link[b]]
         /\ wire' = [b \in Browser |-> IF link'[b] = "up" THEN Append(wire[b], q) ELSE wire[b]]
  BY DEF Asks, Broadcast
<1>2. Cardinality(lost) \in Nat
  <2>1. IsFiniteSet(lost)
    BY FS_Subset
  <2> QED
    BY <2>1, FS_CardinalityType
<1>3. DashboardTypeOK'
  <2>1. link' \in [Browser -> {"up", "deaf", "down"}]
    BY <1>1 DEF DashboardInv, DashboardTypeOK
  <2>2. wire' \in [Browser -> Seq(Held)]
    BY <1>1 DEF DashboardInv, DashboardTypeOK
  <2>3. askedFor' \in 0..MaxAsked /\ cuts' \in 0..MaxCuts
    BY <1>1, <1>2 DEF DashboardInv, DashboardTypeOK, Asks
  <2> QED
    BY <2>1, <2>2, <2>3 DEF DashboardInv, DashboardTypeOK, Asks, Track, browserVars
<1>4. LastIsTracked'
  BY DEF DashboardInv, DashboardTypeOK, LastIsTracked, Asks, Track
<1> QED
  BY <1>3, <1>4 DEF DashboardInv, DialogMatches, ApprovalsAreTrue, LastIsTracked, ApprovedOrOvertaken, Asks, browserVars

LEMMA AnswerArrivesInv ==
  ASSUME DashboardInv, AnswerArrives
  PROVE  DashboardInv'
<1>1. /\ answers # << >> /\ answers \in Seq(Reply)
      /\ answers' = Tail(answers)
  BY DEF AnswerArrives, DashboardInv, DashboardTypeOK
<1>2. /\ answers' \in Seq(Reply) /\ Head(answers) = answers[1] /\ 1 \in 1..Len(answers)
      /\ \A k \in 1..Len(answers') : k + 1 \in 1..Len(answers) /\ answers'[k] = answers[k + 1]
  BY <1>1
<1>3. Head(answers).allow => Head(answers).id \in approved \union astray
  BY <1>2 DEF DashboardInv, ApprovalsAreTrue
<1>4. released' \subseteq approved \union astray /\ released' \subseteq Held /\ waiting' \subseteq Held
  BY <1>3 DEF AnswerArrives, DashboardInv, DashboardTypeOK, ApprovedOrOvertaken
<1>5. ApprovalsAreTrue'
  BY <1>2 DEF AnswerArrives, DashboardInv, ApprovalsAreTrue, historyVars
<1>6. LastIsTracked'
  BY DEF AnswerArrives, DashboardInv, LastIsTracked, serverVars, historyVars
<1> QED
  BY <1>2, <1>4, <1>5, <1>6 DEF AnswerArrives, DashboardInv, DashboardTypeOK, DialogMatches,
                          ApprovedOrOvertaken, browserVars, serverVars, historyVars

LEMMA ExpiresInv ==
  ASSUME DashboardInv, NEW q \in Held, Expires(q)
  PROVE  DashboardInv'
  BY DEF Expires, DashboardInv, DashboardTypeOK, DialogMatches, ApprovalsAreTrue, LastIsTracked,
         ApprovedOrOvertaken, browserVars, serverVars, historyVars

\* The browsers.
LEMMA ReceiveInv ==
  ASSUME DashboardInv, NEW b \in Browser, Receive(b)
  PROVE  DashboardInv'
<1>1. /\ wire[b] \in Seq(Held) /\ wire[b] # << >>
      /\ wire' = [wire EXCEPT ![b] = Tail(wire[b])]
  BY DEF Receive, DashboardInv, DashboardTypeOK
<1>2. Head(wire[b]) \in Held /\ Tail(wire[b]) \in Seq(Held)
  BY <1>1
<1> QED
  BY <1>1, <1>2 DEF Receive, Show, DashboardInv, DashboardTypeOK, DialogMatches,
                    ApprovalsAreTrue, LastIsTracked, ApprovedOrOvertaken, serverVars, historyVars

LEMMA RequestShutdownInv ==
  ASSUME DashboardInv, NEW b \in Browser, RequestShutdown(b)
  PROVE  DashboardInv'
  BY DEF RequestShutdown, Show, DashboardInv, DashboardTypeOK, DialogMatches,
         ApprovalsAreTrue, LastIsTracked, ApprovedOrOvertaken, serverVars, historyVars

LEMMA RespondInv ==
  ASSUME DashboardInv, NEW b \in Browser, NEW allow \in BOOLEAN, Respond(b, allow)
  PROVE  DashboardInv'
<1>0. PICK id \in {pendingId[b], NoneHeld} :
         ~callback[b] => mail' = IF link[b] = "down" THEN mail
                         ELSE Append(mail, [id |-> id, shown |-> dialog[b], allow |-> allow])
  BY DEF Respond
<1> DEFINE sent == [id |-> id, shown |-> dialog[b], allow |-> allow]
<1>1. approved \subseteq approved' /\ approved' \subseteq Held \union {"shutdown"}
  BY DEF Respond, DashboardInv, DashboardTypeOK
<1>4. UNCHANGED <<astray, askedAt, askedFor, tracked>> /\ LastIsTracked'
  BY DEF Respond, DashboardInv, LastIsTracked, serverVars
<1>5. /\ dialog' = [dialog EXCEPT ![b] = "none"]
      /\ UNCHANGED <<link, wire, serverVars, answers, waiting, released, cuts>>
      /\ clearing' = clearing
  BY DEF Respond, serverVars
<1>2. CASE callback[b]
  <2>1. dialog[b] = "shutdown" /\ mail' = mail /\ answers' = answers
    BY <1>2 DEF Respond, DashboardInv, DialogMatches
  <2>2. ApprovalsAreTrue'
    BY <1>1, <1>4, <2>1 DEF DashboardInv, ApprovalsAreTrue
  <2>3. ApprovedOrOvertaken'
    BY <1>1, <1>2, <2>1 DEF Respond, DashboardInv, ApprovedOrOvertaken
  <2>4. /\ pendingId' = pendingId /\ callback' = [callback EXCEPT ![b] = FALSE]
        /\ shutDown' \in BOOLEAN
    BY <1>2 DEF Respond, DashboardInv, DashboardTypeOK
  <2>5. DashboardTypeOK'
    BY <1>1, <1>4, <1>5, <2>1, <2>4 DEF DashboardInv, DashboardTypeOK
  <2>6. DialogMatches'
    BY <1>5, <2>4 DEF DashboardInv, DashboardTypeOK, DialogMatches
  <2> QED
    BY <1>4, <2>2, <2>3, <2>5, <2>6 DEF DashboardInv
<1>3. CASE ~callback[b]
  <2>1. dialog[b] \in Held /\ pendingId[b] = dialog[b] /\ sent \in SentAnswer
    BY <1>3 DEF Respond, DashboardInv, DashboardTypeOK, DialogMatches, SentAnswer
  <2>2. /\ sent.id \in {sent.shown, NoneHeld} /\ sent.allow = allow
        /\ allow => sent.shown \in approved'
    BY <2>1 DEF Respond
  <2>3. mail' = mail \/ mail' = Append(mail, sent)
    BY <1>0, <1>3
  <2>4. mail \in Seq(SentAnswer)
    BY DEF DashboardInv, DashboardTypeOK
  <2>5. /\ mail' \in Seq(SentAnswer)
        /\ \A k \in 1..Len(mail') :
             (k \in 1..Len(mail) /\ mail'[k] = mail[k]) \/ mail'[k] = sent
    BY <2>1, <2>3, <2>4
  <2>6. ApprovalsAreTrue'
    BY <1>1, <2>2, <2>5 DEF Respond, DashboardInv, ApprovalsAreTrue
  <2>7. ApprovedOrOvertaken'
    BY <1>1, <1>3 DEF Respond, DashboardInv, ApprovedOrOvertaken
  <2>8. /\ pendingId' = [pendingId EXCEPT ![b] = NoneHeld]
        /\ UNCHANGED <<callback, shutDown>>
    BY <1>3 DEF Respond
  <2>9. DashboardTypeOK'
    BY <1>1, <1>4, <1>5, <2>5, <2>8 DEF DashboardInv, DashboardTypeOK
  <2>10. DialogMatches'
    BY <1>5, <2>8 DEF DashboardInv, DashboardTypeOK, DialogMatches
  <2> QED
    BY <1>4, <2>6, <2>7, <2>9, <2>10 DEF DashboardInv
<1> QED
  BY <1>2, <1>3

LEMMA LinkInv ==
  ASSUME DashboardInv, NEW b \in Browser, Disconnect(b) \/ Connect(b)
  PROVE  DashboardInv'
<1>1. << >> \in Seq(Held)
  OBVIOUS
<1>2. CASE Disconnect(b)
  <2>1. wire' \in [Browser -> Seq(Held)] /\ link' \in [Browser -> {"up", "deaf", "down"}]
    BY <1>1, <1>2 DEF Disconnect, DashboardInv, DashboardTypeOK
  <2>2. cuts' \in 0..MaxCuts
    BY <1>2 DEF Disconnect, DashboardInv, DashboardTypeOK
  <2> QED
    BY <1>2, <2>1, <2>2
    DEF Disconnect, DashboardInv, DashboardTypeOK, DialogMatches,
        ApprovalsAreTrue, LastIsTracked, ApprovedOrOvertaken, browserVars, serverVars, historyVars
<1>3. CASE Connect(b)
  BY <1>3 DEF Connect, DashboardInv, DashboardTypeOK, DialogMatches,
              ApprovalsAreTrue, LastIsTracked, ApprovedOrOvertaken, browserVars, serverVars, historyVars
<1> QED
  BY <1>2, <1>3

\* The loop of the server.
LEMMA HandleMessageInv ==
  ASSUME DashboardInv, HandleMessage
  PROVE  DashboardInv'
<1> DEFINE a  == Head(mail)
           id == IF a.id # NoneHeld THEN a.id ELSE tracked
           sent == [id |-> id, allow |-> a.allow]
<1>1. mail \in Seq(SentAnswer) /\ mail # << >> /\ mail' = Tail(mail) /\ answers \in Seq(Reply)
  BY DEF HandleMessage, DashboardInv, DashboardTypeOK
<1>2. /\ mail' \in Seq(SentAnswer) /\ a = mail[1] /\ 1 \in 1..Len(mail) /\ mail[1] \in SentAnswer
      /\ \A k \in 1..Len(mail') : k + 1 \in 1..Len(mail) /\ mail'[k] = mail[k + 1]
  BY <1>1
<1>3. sent \in Reply /\ sent.id = id /\ sent.allow = a.allow
  BY <1>2 DEF Reply, SentAnswer, DashboardInv, DashboardTypeOK
<1>8. /\ astray \subseteq astray' /\ astray' \subseteq Held
      /\ a.allow /\ a.id = NoneHeld /\ tracked # NoneHeld /\ askedAt[a.shown] < askedAt[tracked]
           => tracked \in astray'
  BY DEF HandleMessage, DashboardInv, DashboardTypeOK
<1>4. sent.allow /\ id # NoneHeld => sent.id \in approved \union astray'
  <2>1. a.allow => a.shown \in approved /\ a.shown \in Held /\ a.id \in {a.shown, NoneHeld}
    BY <1>2 DEF DashboardInv, ApprovalsAreTrue, SentAnswer
  <2>2. CASE a.id # NoneHeld
    BY <1>3, <2>1, <2>2
  <2>3. CASE a.id = NoneHeld /\ tracked = a.shown
    BY <1>3, <2>1, <2>3
  <2>4. CASE a.id = NoneHeld /\ tracked # a.shown
    BY <1>3, <1>8, <2>1, <2>4 DEF DashboardInv, LastIsTracked
  <2> QED
    BY <2>2, <2>3, <2>4
<1>5. answers' = answers \/ (answers' = Append(answers, sent) /\ id # NoneHeld)
  BY DEF HandleMessage
<1>6. /\ answers' \in Seq(Reply)
      /\ \A k \in 1..Len(answers') :
            \/ k \in 1..Len(answers) /\ answers'[k] = answers[k]
            \/ answers'[k] = sent /\ id # NoneHeld
  <2> HIDE DEF sent
  <2>1. CASE answers' = answers
    BY <1>1, <2>1
  <2>2. CASE answers' = Append(answers, sent) /\ id # NoneHeld
    BY <1>1, <1>3, <2>2
  <2> QED
    BY <1>5, <2>1, <2>2
<1>7. ApprovalsAreTrue'
  BY <1>2, <1>4, <1>6, <1>8 DEF HandleMessage, DashboardInv, ApprovalsAreTrue
<1>9. LastIsTracked'
  BY DEF HandleMessage, DashboardInv, LastIsTracked
<1> QED
  BY <1>2, <1>6, <1>7, <1>8, <1>9 DEF HandleMessage, DashboardInv, DashboardTypeOK, DialogMatches,
                          ApprovedOrOvertaken, browserVars, historyVars

LEMMA ClearTrackedInv ==
  ASSUME DashboardInv, ClearTracked
  PROVE  DashboardInv'
  BY DEF ClearTracked, DashboardInv, DashboardTypeOK, DialogMatches, ApprovalsAreTrue, LastIsTracked,
         ApprovedOrOvertaken, browserVars, historyVars

LEMMA DashboardNextInv == DashboardInv /\ [DashboardNext]_dashboardVars => DashboardInv'
<1> SUFFICES ASSUME DashboardInv, [DashboardNext]_dashboardVars PROVE DashboardInv'
  OBVIOUS
<1>1. CASE UNCHANGED dashboardVars
  BY <1>1 DEF dashboardVars, DashboardInv, DashboardTypeOK, DialogMatches, ApprovalsAreTrue, LastIsTracked,
              ApprovedOrOvertaken
<1>2. CASE DashboardNext
  BY <1>2, AsksInv, AnswerArrivesInv, ExpiresInv, ReceiveInv, RequestShutdownInv, RespondInv,
     LinkInv, HandleMessageInv, ClearTrackedInv DEF DashboardNext
<1> QED
  BY <1>1, <1>2

(* No task is let go, and the agent not shut down, unless somebody chose Allow    *)
(* while that very question was on the screen, whatever else was shown since, or  *)
(* an answer without an id was taken for a task asked for later                   *)
(* (app.js, api/websocket.py, safety/confirmation.py).                            *)
THEOREM LetGoAsShown == DashboardSpec => []ApprovedOrOvertaken
<1>1. DashboardInv => ApprovedOrOvertaken
  BY DEF DashboardInv
<1> QED
  BY <1>1, DashboardInitInv, DashboardNextInv, PTL DEF DashboardSpec

(* Every variable of the dashboards keeps its type.                             *)
THEOREM DashboardTypeCorrect == DashboardSpec => []DashboardTypeOK
<1>1. DashboardInv => DashboardTypeOK
  BY DEF DashboardInv
<1> QED
  BY <1>1, DashboardInitInv, DashboardNextInv, PTL DEF DashboardSpec

-----------------------------------------------------------------------------
(* The panel: no query refers to a window of the agent.                    *)

\* The real context is of another program or was misread; the last snapshot, and what
\* the loops are about to make of a title, may be of the panel with its own process.
Sources ==
    /\ real.title \notin Titled /\ (real.title = PanelWindow => misread)
    /\ external.title \notin Titled
    /\ external.title = PanelWindow /\ external.process # "agent" => misread
    /\ \A c \in Capturer : /\ reading[c] \notin Titled
                           /\ reading[c] = PanelWindow /\ whose[c] # "agent" => misread

\* What the panel keeps without asking whether it is stale or the user has moved on
\* came from the real context.
KeptIsReal ==
    ~blind /\ pre.by = "task" =>
        pre.title \notin Titled /\ (pre.title = PanelWindow => misread)

\* A capture is made for a task only where nothing was chosen for it.
CaptureIsForNone ==
    \A q \in Query : query[q].at = "capturing" => ~Known(query[q].chosen)

\* The inductive invariant.
PanelInv == PanelTypeOK /\ Sources /\ KeptIsReal /\ CaptureIsForNone /\ RefersToAnother

USE ScreenAssumption, FocusAssumption DEF ScreenAssumption, FocusAssumption

LEMMA PanelInitInv == PanelInit => PanelInv
<1> SUFFICES ASSUME PanelInit PROVE PanelInv
  OBVIOUS
<1>1. external \in Snapshot /\ external.title \notin Titled \union {PanelWindow}
  <2>1. external \in { Absent, [Absent EXCEPT !.title = front],
                       [Absent EXCEPT !.title = Unknown] }
        /\ (front \in Titled => external.title # front)
    BY DEF PanelInit, Absent
  <2> QED
    BY <2>1 DEF PanelInit, Absent, Snapshot
<1>2. PanelTypeOK
  <2>1. unread \in 0..MaxUnread
    BY <1>1 DEF PanelInit, Absent, Snapshot
  <2> QED
    BY <1>1, <2>1 DEF PanelInit, PanelTypeOK, Absent, Snapshot
<1> QED
  BY <1>1, <1>2 DEF PanelInit, PanelInv, Sources, KeptIsReal, CaptureIsForNone, RefersToAnother,
     Absent, Known

LEMMA FocusInv ==
  ASSUME PanelInv, NEW w \in Screen, Focus(w)
  PROVE  PanelInv'
BY DEF PanelInv, PanelTypeOK, Sources, KeptIsReal, CaptureIsForNone, RefersToAnother, Focus,
   MovesTo, Known

LEMMA FocusLineInv ==
  ASSUME PanelInv, FocusLine
  PROVE  PanelInv'
BY DEF PanelInv, PanelTypeOK, Sources, KeptIsReal, CaptureIsForNone, RefersToAnother, FocusLine,
   focusVars, Known, Capturer

LEMMA TitleType ==
  ASSUME PanelTypeOK, NEW t \in {front, Unknown}, Title(t)
  PROVE  unread' \in 0..MaxUnread /\ t \in Screen \union {Unknown}
BY DEF PanelTypeOK, Title

LEMMA ReadsType ==
  ASSUME PanelTypeOK, NEW t \in {front, Unknown}, NEW p \in {"agent", "other"}, Reads(t, p)
  PROVE  /\ unread' \in 0..MaxUnread /\ front' \in Screen /\ t \in Screen \union {Unknown}
<1>1. CASE UNCHANGED focusVars
  BY <1>1 DEF PanelTypeOK, Reads, Title, focusVars
<1>2. CASE UNCHANGED unread /\ \E w \in Screen : MovesTo(w)
  BY <1>2 DEF PanelTypeOK, MovesTo
<1> QED
  BY <1>1, <1>2 DEF Reads

\* What a capture keeps has the panel's title and another process only if misread.
LEMMA KeepsType ==
  ASSUME PanelInv, NEW c \in Capturer, NEW t \in Screen \union {Unknown}, t \notin Titled,
         NEW p \in {"agent", "other"}, KeepsRead(c, t, p)
  PROVE  /\ lastTitle' \in Screen \union {Unknown, NoScreen}
         /\ reading' \in [Capturer -> Screen \union {Unknown, "idle", "waits", "asked"}]
         /\ whose' \in [Capturer -> {"agent", "other"}]
         /\ misread' \in BOOLEAN /\ (misread => misread')
         /\ \A k \in Capturer : /\ reading'[k] \notin Titled
                                /\ reading'[k] = PanelWindow /\ whose'[k] # "agent" => misread'
<1>1. /\ lastTitle' = t /\ reading' = [reading EXCEPT ![c] = t]
      /\ whose' = [whose EXCEPT ![c] = p]
      /\ misread' \in BOOLEAN /\ (misread => misread')
      /\ t = PanelWindow /\ p = "other" => misread'
  BY DEF KeepsRead, PanelInv, PanelTypeOK
<1>2. \A k \in Capturer :
         \/ reading'[k] = t /\ whose'[k] = p
         \/ reading'[k] = reading[k] /\ whose'[k] = whose[k]
  BY <1>1 DEF PanelInv, PanelTypeOK
<1>3. /\ reading' \in [Capturer -> Screen \union {Unknown, "idle", "waits", "asked"}]
      /\ whose' \in [Capturer -> {"agent", "other"}]
  BY <1>1 DEF PanelInv, PanelTypeOK
<1> QED
  BY <1>1, <1>2, <1>3 DEF PanelInv, Sources

\* Serving the tasks that a capture was for changes nothing else of any task.
LEMMA ServesCapturing ==
  ASSUME PanelTypeOK, NEW v \in Screen \union {Unknown, NoScreen},
         query' = [q \in Query |->
                     IF query[q].at # "capturing" THEN query[q]
                     ELSE [query[q] EXCEPT !.at = "served", !.served = v]]
  PROVE  /\ query' \in [Query -> [at : {"none", "asked", "capturing", "served"},
                                  chosen : Snapshot,
                                  served : Screen \union {Unknown, NoScreen}]]
         /\ \A q \in Query : query'[q].chosen = query[q].chosen
         /\ \A q \in Query : query'[q] # query[q] =>
               query[q].at = "capturing" /\ query'[q].at = "served"
<1> DEFINE Task == [at : {"none", "asked", "capturing", "served"}, chosen : Snapshot,
                    served : Screen \union {Unknown, NoScreen}]
<1>1. query \in [Query -> Task]
  BY DEF PanelTypeOK
<1>2. ASSUME NEW q \in Query
      PROVE  /\ query'[q] \in Task /\ query'[q].chosen = query[q].chosen
             /\ query'[q] # query[q] =>
                   query[q].at = "capturing" /\ query'[q].at = "served"
  <2> DEFINE r == query[q]
  <2>1. r \in Task
    BY <1>1
  <2>2. query'[q] = IF r.at # "capturing" THEN r
                    ELSE [r EXCEPT !.at = "served", !.served = v]
    OBVIOUS
  <2> HIDE DEF r
  <2> QED
    BY <2>1, <2>2
<1>3. query' = [q \in Query |-> query'[q]]
  <2> DEFINE f == [q \in Query |->
                     IF query[q].at # "capturing" THEN query[q]
                     ELSE [query[q] EXCEPT !.at = "served", !.served = v]]
  <2>1. f = [q \in Query |-> f[q]]
    OBVIOUS
  <2> QED
    BY <2>1
<1> QED
  <2> HIDE DEF Task
  <2>1. query' \in [Query -> Task]
    BY <1>2, <1>3
  <2> QED
    BY <1>2, <2>1 DEF Task

LEMMA ReadTitleInv ==
  ASSUME PanelInv, NEW c \in Capturer, ReadTitle(c)
  PROVE  PanelInv'
<1>1. PICK t \in {front, Unknown}, p \in {"agent", "other"} :
         /\ Reads(t, p)
         /\ \/ /\ Skips(c, t)
               /\ reading' = [reading EXCEPT ![c] = "idle"]
               /\ UNCHANGED <<lastTitle, whose, misread, query>>
            \/ /\ c = "task" /\ t \in Titled
               /\ reading' = [reading EXCEPT ![c] = "idle"]
               /\ query' = [q \in Query |->
                              IF query[q].at # "capturing" THEN query[q]
                              ELSE [query[q] EXCEPT !.at = "served",
                                                    !.served = external.title]]
               /\ UNCHANGED <<lastTitle, whose, misread>>
            \/ /\ ~Skips(c, t) /\ t \notin Titled
               /\ KeepsRead(c, t, p)
               /\ UNCHANGED query
  BY DEF ReadTitle
<1>2. unread' \in 0..MaxUnread /\ front' \in Screen /\ t \in Screen \union {Unknown}
  BY <1>1, ReadsType DEF PanelInv
<1>3. UNCHANGED <<external, real, pre, blind>>
  BY DEF ReadTitle
<1>6. /\ lastTitle' \in Screen \union {Unknown, NoScreen}
      /\ reading' \in [Capturer -> Screen \union {Unknown, "idle", "waits", "asked"}]
      /\ whose' \in [Capturer -> {"agent", "other"}]
      /\ misread' \in BOOLEAN /\ (misread => misread')
      /\ \A k \in Capturer : /\ reading'[k] \notin Titled
                             /\ reading'[k] = PanelWindow /\ whose'[k] # "agent" => misread'
  <2>1. CASE t \notin Titled /\ KeepsRead(c, t, p)
    BY <1>2, <2>1, KeepsType
  <2>2. CASE reading' = [reading EXCEPT ![c] = "idle"] /\ UNCHANGED <<lastTitle, whose, misread>>
    BY <2>2 DEF PanelInv, PanelTypeOK, Sources
  <2> QED
    BY <1>1, <2>1, <2>2
<1>4. /\ PanelTypeOK'
      /\ \A q \in Query : query'[q].chosen = query[q].chosen
      /\ \A q \in Query : query'[q] # query[q] =>
            query[q].at = "capturing" /\ query'[q].at = "served"
  <2>1. CASE UNCHANGED query
    BY <1>2, <1>3, <1>6, <2>1 DEF PanelInv, PanelTypeOK
  <2>2. CASE c = "task" /\ query' = [q \in Query |->
                              IF query[q].at # "capturing" THEN query[q]
                              ELSE [query[q] EXCEPT !.at = "served",
                                                    !.served = external.title]]
    <3>1. external.title \in Screen \union {Unknown, NoScreen}
      BY DEF PanelInv, PanelTypeOK, Snapshot
    <3>3. /\ query' \in [Query -> [at : {"none", "asked", "capturing", "served"},
                                   chosen : Snapshot,
                                   served : Screen \union {Unknown, NoScreen}]]
          /\ \A q \in Query : query'[q].chosen = query[q].chosen
          /\ \A q \in Query : query'[q] # query[q] =>
                query[q].at = "capturing" /\ query'[q].at = "served"
      BY <2>2, <3>1, ServesCapturing DEF PanelInv
    <3> QED
      BY <1>2, <1>3, <1>6, <3>3 DEF PanelInv, PanelTypeOK
  <2> QED
    BY <1>1, <2>1, <2>2
<1>5. Sources'
  BY <1>3, <1>6 DEF PanelInv, Sources
<1> QED
  BY <1>3, <1>4, <1>5, <1>6 DEF PanelInv, KeptIsReal, CaptureIsForNone, RefersToAnother, Known

LEMMA CommitInv ==
  ASSUME PanelInv, NEW c \in Capturer, Commit(c)
  PROVE  PanelInv'
<1> DEFINE s == [title |-> reading[c], process |-> whose[c],
                 by |-> IF c = "task" THEN "task" ELSE "watch"]
<1>1. /\ s.title = PanelWindow /\ s.process # "agent" => misread
      /\ s \in Snapshot /\ s.title \notin Titled /\ s.title \in Screen \union {Unknown}
      /\ c # "task" => s.by = "watch"
  <2>1. /\ reading[c] \in Screen \union {Unknown} /\ whose[c] \in {"agent", "other"}
        /\ reading[c] \notin Titled
        /\ reading[c] = PanelWindow /\ whose[c] # "agent" => misread
    <3>1. reading[c] \notin {"idle", "waits", "asked"}
      BY DEF Commit
    <3>2. /\ reading[c] \in Screen \union {Unknown, "idle", "waits", "asked"}
          /\ whose[c] \in {"agent", "other"}
      BY DEF PanelInv, PanelTypeOK
    <3>3. /\ reading[c] \notin Titled
          /\ reading[c] = PanelWindow /\ whose[c] # "agent" => misread
      <4>1. \A d \in Capturer : /\ reading[d] \notin Titled
                                /\ reading[d] = PanelWindow /\ whose[d] # "agent" => misread
        BY DEF PanelInv, PanelTypeOK, Sources
      <4> HIDE DEF s
      <4> QED
        BY <4>1
    <3> QED
      BY <3>1, <3>2, <3>3
  <2>2. /\ s.title = reading[c] /\ s.process = whose[c]
        /\ s.by \in {"watch", "task"} /\ (c # "task" => s.by = "watch")
    OBVIOUS
  <2>3. s \in Snapshot
    BY <2>1 DEF Snapshot
  <2> HIDE DEF s
  <2> QED
    BY <2>1, <2>2, <2>3
<1>2. /\ external' = s
      /\ real' = IF c = "poll" THEN PolledReal(s) ELSE real
      /\ query' = [q \in Query |->
                     IF c # "task" \/ query[q].at # "capturing" THEN query[q]
                     ELSE [query[q] EXCEPT !.at = "served", !.served = s.title]]
      /\ pre' = IF c = "mouse" THEN s ELSE pre
      /\ reading' = [reading EXCEPT ![c] = "idle"]
      /\ whose' = [whose EXCEPT ![c] = "other"]
      /\ UNCHANGED <<unread, front, lastTitle, blind, misread>>
  BY DEF Commit, focusVars
<1>3. /\ real' \in Snapshot /\ real'.title \notin Titled
      /\ real'.title = PanelWindow => misread
  BY <1>1, <1>2 DEF PanelInv, PanelTypeOK, Sources, PolledReal
<1>4. /\ query' \in [Query -> [at : {"none", "asked", "capturing", "served"},
                               chosen : Snapshot,
                               served : Screen \union {Unknown, NoScreen}]]
      /\ \A q \in Query : query'[q].chosen = query[q].chosen
      /\ \A q \in Query : query'[q] # query[q] =>
            query[q].at = "capturing" /\ query'[q].at = "served"
  <2>1. CASE c = "task"
    <3>1. query' = [q \in Query |->
                      IF query[q].at # "capturing" THEN query[q]
                      ELSE [query[q] EXCEPT !.at = "served", !.served = s.title]]
      BY <1>2, <2>1
    <3>2. s.title \in Screen \union {Unknown, NoScreen}
      BY <1>1
    <3> HIDE DEF s
    <3> QED
      BY <3>1, <3>2, ServesCapturing DEF PanelInv
  <2>2. CASE c # "task"
    <3>1. query' = [q \in Query |-> query[q]]
      BY <1>2, <2>2
    <3> QED
      BY <3>1 DEF PanelInv, PanelTypeOK
  <2> QED
    BY <2>1, <2>2
<1>5. PanelTypeOK' /\ Sources' /\ KeptIsReal'
  BY <1>1, <1>2, <1>3, <1>4 DEF PanelInv, PanelTypeOK, Sources, KeptIsReal
<1>6. blind' = blind /\ misread' = misread
  BY <1>2
<1> QED
  BY <1>4, <1>5, <1>6 DEF PanelInv, CaptureIsForNone, RefersToAnother, Known

LEMMA HotkeyInv ==
  ASSUME PanelInv, HotkeyPressed
  PROVE  PanelInv'
<1>1. unread' \in 0..MaxUnread
  BY TitleType DEF HotkeyPressed, PanelInv
<1>2. UNCHANGED <<front, lastTitle, real, reading, whose, query, blind, misread>>
  BY DEF HotkeyPressed, focusVars
<1>3. /\ external' \in Snapshot /\ external'.title = external.title
      /\ external'.process = external.process
      /\ pre' \in Snapshot /\ (pre'.by = "hotkey" \/ pre' = pre)
  <2>1. CASE \E t \in Screen : HotkeyTakes(t)
    BY <2>1 DEF HotkeyTakes, PanelInv, PanelTypeOK, Snapshot
  <2>2. CASE HotkeyTakesLast
    BY <2>2 DEF HotkeyTakesLast, PanelInv, PanelTypeOK, Snapshot
  <2> QED
    BY <2>1, <2>2 DEF HotkeyPressed
<1> QED
  BY <1>1, <1>2, <1>3 DEF PanelInv, PanelTypeOK, Sources, KeptIsReal, CaptureIsForNone,
     RefersToAnother, Known

LEMMA ToggleInv ==
  ASSUME PanelInv, OnToggle
  PROVE  PanelInv'
<1>1. UNCHANGED <<external, real, query>> /\ blind' = (blind \/ ~Known(real))
  BY DEF OnToggle
<1>2. /\ PanelTypeOK' /\ Sources' /\ (misread => misread')
      /\ (pre' = pre \/ pre' = real \/ blind')
  <2>1. CASE \/ pre' = pre /\ UNCHANGED <<unread, focusVars, lastTitle, reading, whose, misread>>
             \/ pre' = real /\ UNCHANGED <<unread, focusVars, lastTitle, reading, whose, misread>>
    BY <1>1, <2>1 DEF PanelInv, PanelTypeOK, Sources, focusVars
  <2>2. CASE ~Known(real) /\ \E t \in {front, Unknown}, p \in {"agent", "other"} :
               /\ Reads(t, p)
               /\ \/ /\ t \in Titled
                     /\ pre' = IF Known(external) THEN external ELSE pre
                     /\ UNCHANGED <<lastTitle, reading, whose, misread>>
                  \/ t \notin Titled /\ KeepsRead("mouse", t, p) /\ UNCHANGED pre
    <3>1. PICK t \in {front, Unknown}, p \in {"agent", "other"} :
               /\ Reads(t, p)
               /\ \/ /\ t \in Titled
                     /\ pre' = IF Known(external) THEN external ELSE pre
                     /\ UNCHANGED <<lastTitle, reading, whose, misread>>
                  \/ t \notin Titled /\ KeepsRead("mouse", t, p) /\ UNCHANGED pre
      BY <2>2
    <3>2. unread' \in 0..MaxUnread /\ front' \in Screen /\ t \in Screen \union {Unknown}
      BY <3>1, ReadsType DEF PanelInv
    <3>3. /\ lastTitle' \in Screen \union {Unknown, NoScreen}
          /\ reading' \in [Capturer -> Screen \union {Unknown, "idle", "waits", "asked"}]
          /\ whose' \in [Capturer -> {"agent", "other"}]
          /\ misread' \in BOOLEAN /\ (misread => misread')
          /\ \A k \in Capturer : /\ reading'[k] \notin Titled
                                 /\ reading'[k] = PanelWindow /\ whose'[k] # "agent" => misread'
      <4>1. CASE t \notin Titled /\ KeepsRead("mouse", t, p)
        BY <3>2, <4>1, KeepsType DEF Capturer
      <4>2. CASE UNCHANGED <<lastTitle, reading, whose, misread>>
        BY <4>2 DEF PanelInv, PanelTypeOK, Sources
      <4> QED
        BY <3>1, <4>1, <4>2
    <3>4. pre' \in Snapshot /\ blind' /\ blind' \in BOOLEAN
      BY <1>1, <2>2, <3>1 DEF PanelInv, PanelTypeOK
    <3> QED
      BY <1>1, <3>2, <3>3, <3>4 DEF PanelInv, PanelTypeOK, Sources
  <2> QED
    BY <2>1, <2>2 DEF OnToggle
<1> QED
  BY <1>1, <1>2 DEF PanelInv, Sources, KeptIsReal, CaptureIsForNone, RefersToAnother, Known

\* A hotkey's context that is used has the title of the real one.
LEMMA ChosenIsOfAnother ==
  ASSUME PanelInv, ~blind, Known(real)
  PROVE  Chosen.title \notin Titled /\ (Chosen.title = PanelWindow => misread)
BY DEF PanelInv, Sources, KeptIsReal, Chosen

LEMMA SubmitInv ==
  ASSUME PanelInv, NEW q \in Query, Submit(q)
  PROVE  PanelInv'
<1>1. Chosen \in Snapshot
  BY DEF Chosen, PanelInv, PanelTypeOK
<1>2. /\ query' = [query EXCEPT ![q].at = "asked", ![q].chosen = Chosen]
      /\ blind' = (blind \/ ~Known(real)) /\ blind' \in BOOLEAN
      /\ UNCHANGED <<unread, front, lastTitle, external, real, pre, reading, whose, misread>>
  BY DEF Submit, focusVars, PanelInv, PanelTypeOK
<1>3. /\ query' \in [Query -> [at : {"none", "asked", "capturing", "served"},
                               chosen : Snapshot,
                               served : Screen \union {Unknown, NoScreen}]]
      /\ query'[q].at = "asked" /\ query'[q].chosen = Chosen
      /\ \A p \in Query \ {q} : query'[p] = query[p]
  BY <1>1, <1>2 DEF PanelInv, PanelTypeOK
<1>4. ~blind' => Chosen.title \notin Titled /\ (Chosen.title = PanelWindow => misread)
  BY <1>2, ChosenIsOfAnother
<1> QED
  BY <1>2, <1>3, <1>4 DEF PanelInv, PanelTypeOK, Sources, KeptIsReal, CaptureIsForNone,
     RefersToAnother, Known

LEMMA SpeakInv ==
  ASSUME PanelInv, NEW q \in Query, Speak(q)
  PROVE  PanelInv'
<1>1. /\ query' = [query EXCEPT ![q].at = "asked"]
      /\ UNCHANGED <<unread, front, lastTitle, external, real, pre, reading, whose, blind, misread>>
  BY DEF Speak, focusVars
<1>2. /\ query' \in [Query -> [at : {"none", "asked", "capturing", "served"},
                               chosen : Snapshot,
                               served : Screen \union {Unknown, NoScreen}]]
      /\ query'[q].at = "asked" /\ query'[q].chosen = query[q].chosen
      /\ \A p \in Query \ {q} : query'[p] = query[p]
  BY <1>1 DEF PanelInv, PanelTypeOK
<1> QED
  BY <1>1, <1>2 DEF PanelInv, PanelTypeOK, Sources, KeptIsReal, CaptureIsForNone,
     RefersToAnother, Known

LEMMA RequestedInv ==
  ASSUME PanelInv, NEW q \in Query, Requested(q)
  PROVE  PanelInv'
<1>1. UNCHANGED <<unread, front, lastTitle, external, real, pre, whose, blind, misread>>
  BY DEF Requested, focusVars
<1>2. /\ query' \in [Query -> [at : {"none", "asked", "capturing", "served"},
                               chosen : Snapshot,
                               served : Screen \union {Unknown, NoScreen}]]
      /\ query'[q].chosen = query[q].chosen
      /\ IF Known(query[q].chosen)
         THEN query'[q].at = "served" /\ query'[q].served = query[q].chosen.title
         ELSE query'[q].at = "capturing"
      /\ \A p \in Query \ {q} : query'[p] = query[p]
  <2>1. query[q].chosen.title \in Screen \union {Unknown, NoScreen}
    BY DEF PanelInv, PanelTypeOK, Snapshot
  <2>2. CASE Known(query[q].chosen)
    BY <2>1, <2>2 DEF PanelInv, PanelTypeOK, Requested, AnswerContext
  <2>3. CASE ~Known(query[q].chosen)
    BY <2>3 DEF PanelInv, PanelTypeOK, Requested, AnswerContext
  <2> QED
    BY <2>2, <2>3
<1>3. /\ reading' \in [Capturer -> Screen \union {Unknown, "idle", "waits", "asked"}]
      /\ \A c \in Capturer : /\ reading'[c] \notin Titled
                             /\ reading'[c] = PanelWindow => reading[c] = PanelWindow
  BY DEF PanelInv, PanelTypeOK, Sources, Requested, AnswerContext, Capturer
<1> QED
  BY <1>1, <1>2, <1>3 DEF PanelInv, PanelTypeOK, Sources, KeptIsReal, CaptureIsForNone,
     RefersToAnother, Known

LEMMA PanelNextInv == PanelInv /\ [PanelNext]_panelVars => PanelInv'
<1> SUFFICES ASSUME PanelInv, [PanelNext]_panelVars PROVE PanelInv'
  OBVIOUS
<1>1. CASE UNCHANGED panelVars
  BY <1>1 DEF panelVars, focusVars, PanelInv, PanelTypeOK, Sources, KeptIsReal, CaptureIsForNone,
     RefersToAnother, Known
<1>2. CASE PanelNext
  BY <1>2, FocusInv, FocusLineInv, ReadTitleInv, CommitInv, HotkeyInv, ToggleInv, SubmitInv,
     SpeakInv, RequestedInv DEF PanelNext
<1> QED
  BY <1>1, <1>2

\* While another program's window is known no query refers to one whose title names
\* the agent, and none to the panel unless its title was kept without its process;
\* and each task gets what was chosen for it: window_detector.py:703-728 says that
\* the context travels in the payload so that nothing can overwrite it between
\* publish and serve.
THEOREM OfAnother == PanelSpec => []RefersToAnother
<1>1. PanelInv => RefersToAnother
  BY DEF PanelInv
<1> QED
  BY <1>1, PanelInitInv, PanelNextInv, PTL DEF PanelSpec

-----------------------------------------------------------------------------
(* Voice: who leaves it is not listened to.                                *)

Region == {"teardown", "flush", "drain", "start", "opened"}
Silenced == Region \ {"teardown"}

\* A caller within its switch holds the lock, and the mode is still the one it leaves.
SwitchHoldsLock ==
    \A c \in {"bus", "api"} :
        switch[c].at \in Region => lock = c /\ switch[c].from = mode

\* Past its teardown a switch that leaves voice has the wake loop off, unless the boot
\* task has interfered.
SilentAfterTeardown ==
    \A c \in {"bus", "api"} :
        switch[c].at \in Silenced /\ switch[c].from = "voice" /\ ~overtaken => ~active

\* The boot task asks for no lock; no switch runs beside it unseen.
BootIsSeen ==
    /\ switch["boot"].at # "wants"
    /\ ~overtaken /\ switch["boot"].at # "idle" =>
          \A c \in {"bus", "api"} : switch[c].at \notin Region

VoiceInv == VoiceTypeOK /\ SwitchHoldsLock /\ SilentAfterTeardown /\ BootIsSeen

SwitchType == [at : {"idle", "wants", "teardown", "flush", "drain", "start", "opened"},
               from : Mode, to : Mode]

LEMMA VoiceInitially == VoiceInit => VoiceInv
<1> SUFFICES ASSUME VoiceInit PROVE VoiceInv
  OBVIOUS
<1>1. \A c \in Caller : switch[c] \in SwitchType
  BY DEF VoiceInit, SwitchType, Idle, Mode
<1>2. VoiceTypeOK
  BY <1>1, SwitchAssumption DEF VoiceInit, VoiceTypeOK, SwitchType
<1>3. \A c \in {"bus", "api"} : switch[c].at = "idle"
  BY DEF VoiceInit, Idle, Caller
<1>4. switch["boot"].at = "start"
  BY DEF VoiceInit, Caller
<1>5. SwitchHoldsLock /\ SilentAfterTeardown /\ BootIsSeen
  BY <1>3, <1>4 DEF SwitchHoldsLock, SilentAfterTeardown, BootIsSeen, Region, Silenced
<1> QED BY <1>2, <1>5 DEF VoiceInv

\* Steps that leave the switches and the gate of the wake loop alone.
LEMMA SwitchesUntouched ==
  ASSUME VoiceInv, VoiceTypeOK', UNCHANGED <<mode, switch, lock, active, overtaken>>
  PROVE  VoiceInv'
BY DEF VoiceInv, SwitchHoldsLock, SilentAfterTeardown, BootIsSeen

\* A read of the microphone and its restart hold the restart lock.
LEMMA MicStep ==
  ASSUME VoiceInv, NEW r \in Reader, ReadMic(r)
  PROVE  VoiceInv'
<1> USE DEF VoiceInv, VoiceTypeOK
<1>1. UNCHANGED <<mode, switch, lock, active, overtaken, switches>>
  BY DEF ReadMic, BeginRead, EndRead, FailRead, BeginRestart, EndRestart, requestVars
<1>2. PICK now \in {"idle", "reads", "fails", "restarts"} :
        micReader' = [micReader EXCEPT ![r] = now] /\ (now \in {"reads", "restarts"} => restart' = r)
  BY DEF ReadMic, BeginRead, EndRead, FailRead, BeginRestart, EndRestart, Does
<1>3. restart' \in {r, Free} /\ \A q \in Reader \ {r} : micReader[q] \in {"reads", "restarts"} => FALSE
  BY DEF ReadMic, BeginRead, EndRead, FailRead, BeginRestart, EndRestart, Reader, Free
<1>4. VoiceTypeOK'
  <2>1. micReader' \in [Reader -> {"idle", "reads", "fails", "restarts"}]
    BY <1>2
  <2>2. restart' \in Reader \union {Free}
    BY <1>3
  <2>3. \A q \in Reader : micReader'[q] \in {"reads", "restarts"} => restart' = q
    BY <1>2, <1>3
  <2> QED BY <1>1, <2>1, <2>2, <2>3
<1> QED BY <1>1, <1>4, SwitchesUntouched

\* One caller of set_mode moves.
LEMMA SetModeStep ==
  ASSUME VoiceInv, NEW c \in Caller, RequestMode(c) \/ SetMode(c)
  PROVE  VoiceInv'
<1> USE DEF VoiceInv
<1>0. UNCHANGED <<restart, micReader>>
  BY DEF RequestMode, SetMode, EnterLock, Teardown, FlushTail, Startup, Finish, audioVars
<1>1. ASSUME RequestMode(c) PROVE VoiceInv'
  <2>1. PICK m \in Mode \ {mode} : switch' = [switch EXCEPT ![c] = [at |-> "wants", from |-> mode, to |-> m]]
    BY <1>1 DEF RequestMode
  <2>2. VoiceTypeOK'
    BY <1>0, <1>1, <2>1, SwitchAssumption DEF RequestMode, VoiceTypeOK
  <2>3. UNCHANGED <<mode, lock, active, overtaken>> /\ c # "boot"
    BY <1>1 DEF RequestMode
  <2>4. switch'[c].at = "wants" /\ \A d \in Caller \ {c} : switch'[d] = switch[d]
    BY <2>1 DEF VoiceTypeOK
  <2> QED BY <2>2, <2>3, <2>4 DEF SwitchHoldsLock, SilentAfterTeardown, BootIsSeen, Region, Silenced, Caller
<1>2. ASSUME EnterLock(c) PROVE VoiceInv'
  <2>0. c # "boot" /\ UNCHANGED <<mode, active, switches>>
    BY <1>2 DEF EnterLock, At, BootIsSeen
  <2>1. CASE lock = Free
    <3>1. lock' = c /\ switch' = [switch EXCEPT ![c].at = "teardown", ![c].from = mode]
          /\ overtaken' = (overtaken \/ ~At("boot", "idle"))
      BY <1>2, <2>1 DEF EnterLock
    <3>2. switch'[c] = [at |-> "teardown", from |-> mode, to |-> switch[c].to]
          /\ \A d \in Caller \ {c} : switch'[d] = switch[d]
      <4>1. switch \in [Caller -> SwitchType] /\ DOMAIN switch = Caller
        BY DEF VoiceTypeOK, SwitchType
      <4>2. switch[c] \in SwitchType
        BY <4>1
      <4> HIDE DEF VoiceInv
      <4> QED BY <3>1, <4>1, <4>2 DEF SwitchType
    <3>3. \A d \in {"bus", "api"} : switch[d].at \notin Region
      BY <2>1 DEF SwitchHoldsLock, Free
    <3>4. switch' \in [Caller -> SwitchType]
      BY <3>1, <3>2 DEF VoiceTypeOK, SwitchType
    <3>5. VoiceTypeOK'
      BY <1>0, <2>0, <3>1, <3>4 DEF VoiceTypeOK, SwitchType
    <3>6. SwitchHoldsLock'
      <4> SUFFICES ASSUME NEW d \in {"bus", "api"}, switch'[d].at \in Region
                   PROVE  lock' = d /\ switch'[d].from = mode'
        BY DEF SwitchHoldsLock
      <4>1. d = c
        BY <3>2, <3>3 DEF Caller
      <4> QED BY <2>0, <3>1, <3>2, <4>1
    <3>8. \A d \in {"bus", "api"} : switch'[d].at \notin Silenced
      BY <3>2, <3>3 DEF Silenced, Region, Caller
    <3>9. SilentAfterTeardown'
      BY <3>8 DEF SilentAfterTeardown
    <3>7. BootIsSeen'
      BY <2>0, <3>1, <3>2 DEF BootIsSeen, At, Caller
    <3> QED BY <3>5, <3>6, <3>7, <3>9
  <2>2. CASE lock # Free
    <3>1. switch' = [switch EXCEPT ![c] = Idle] /\ UNCHANGED <<lock, overtaken>>
      BY <1>2, <2>2 DEF EnterLock
    <3>2. switch'[c].at = "idle" /\ \A d \in Caller \ {c} : switch'[d] = switch[d]
      BY <3>1 DEF VoiceTypeOK, Idle
    <3>3. VoiceTypeOK'
      BY <1>0, <2>0, <3>1 DEF VoiceTypeOK, Idle, Mode
    <3> QED BY <2>0, <3>1, <3>2, <3>3 DEF SwitchHoldsLock, SilentAfterTeardown, BootIsSeen, Region, Silenced, Caller
  <2> QED BY <2>1, <2>2
<1>3. ASSUME Teardown(c) PROVE VoiceInv'
  <2>1. PICK stage \in {"flush", "start"} :
          switch' = [switch EXCEPT ![c].at = stage]
          /\ (switch[c].from = "voice" => ~active')
          /\ (~active => ~active')
    BY <1>3 DEF Teardown, GoTo
  <2>2. UNCHANGED <<mode, lock, overtaken, switches>> /\ switch[c].at = "teardown"
    BY <1>3 DEF Teardown, At, requestVars
  <2>3. switch'[c] = [at |-> stage, from |-> switch[c].from, to |-> switch[c].to]
        /\ \A d \in Caller \ {c} : switch'[d] = switch[d]
    BY <2>1 DEF VoiceTypeOK
  <2>4. switch' \in [Caller -> SwitchType]
    BY <2>1, <2>3 DEF VoiceTypeOK, SwitchType
  <2>5. VoiceTypeOK'
    BY <1>0, <2>2, <2>4 DEF VoiceTypeOK, SwitchType
  <2>6. SwitchHoldsLock'
    BY <2>2, <2>3 DEF SwitchHoldsLock, Region, Caller
  <2>7. SilentAfterTeardown'
    BY <2>1, <2>2, <2>3 DEF SilentAfterTeardown, Silenced, Region, Caller
  <2>8. BootIsSeen'
    BY <2>2, <2>3 DEF BootIsSeen, Region, Caller
  <2> QED BY <2>5, <2>6, <2>7, <2>8
<1>4. ASSUME FlushTail(c) \/ Startup(c) PROVE VoiceInv'
  <2>1. PICK stage \in {"drain", "start", "opened"} : switch' = [switch EXCEPT ![c].at = stage]
    BY <1>4 DEF FlushTail, Startup, GoTo
  <2>2. switch[c].at \in Silenced /\ (~active => ~active') /\ UNCHANGED <<mode, lock, overtaken, switches>>
    <3>1. CASE FlushTail(c)
      BY <3>1 DEF FlushTail, At, requestVars, Silenced, Region
    <3>2. CASE Startup(c)
      BY <3>2 DEF Startup, At, requestVars, Silenced, Region
    <3> QED BY <1>4, <3>1, <3>2
  <2>3. switch'[c] = [at |-> stage, from |-> switch[c].from, to |-> switch[c].to]
        /\ \A d \in Caller \ {c} : switch'[d] = switch[d]
    BY <2>1 DEF VoiceTypeOK
  <2>4. switch' \in [Caller -> SwitchType]
    BY <2>1, <2>3 DEF VoiceTypeOK, SwitchType
  <2>5. VoiceTypeOK'
    BY <1>0, <2>2, <2>4 DEF VoiceTypeOK, SwitchType
  <2>6. SwitchHoldsLock'
    BY <2>2, <2>3 DEF SwitchHoldsLock, Region, Silenced, Caller
  <2>7. SilentAfterTeardown'
    BY <2>2, <2>3 DEF SilentAfterTeardown, Silenced, Region, Caller
  <2>8. BootIsSeen'
    BY <2>2, <2>3 DEF BootIsSeen, Region, Silenced, Caller
  <2> QED BY <2>5, <2>6, <2>7, <2>8
<1>5. ASSUME Finish(c) PROVE VoiceInv'
  <2>1. switch' = [switch EXCEPT ![c] = Idle] /\ switch[c].at = "opened"
        /\ UNCHANGED <<overtaken, switches>>
    BY <1>5 DEF Finish, At, requestVars
  <2>2. switch'[c].at = "idle" /\ \A d \in Caller \ {c} : switch'[d] = switch[d]
    BY <2>1 DEF VoiceTypeOK, Idle
  <2>3. mode' \in Mode /\ lock' \in Caller \union {Free}
    BY <1>5 DEF Finish, VoiceTypeOK
  <2>4. VoiceTypeOK'
    BY <1>0, <2>1, <2>3 DEF VoiceTypeOK, Idle, Mode
  <2>5. CASE c = "boot"
    <3>1. UNCHANGED <<mode, lock>>
      BY <1>5, <2>5 DEF Finish
    <3>2. ~overtaken => \A d \in {"bus", "api"} : switch[d].at \notin Region
      BY <2>1, <2>5 DEF BootIsSeen
    <3> QED BY <2>1, <2>2, <2>4, <2>5, <3>1, <3>2
            DEF SwitchHoldsLock, SilentAfterTeardown, BootIsSeen, Region, Silenced, Caller
  <2>6. CASE c # "boot"
    <3>1. \A d \in {"bus", "api"} \ {c} : switch[d].at \notin Region
      BY <2>1, <2>6 DEF SwitchHoldsLock, Region, Caller
    <3> QED BY <2>1, <2>2, <2>4, <2>6, <3>1
            DEF SwitchHoldsLock, SilentAfterTeardown, BootIsSeen, Region, Silenced, Caller
  <2> QED BY <2>5, <2>6
<1> QED BY <1>1, <1>2, <1>3, <1>4, <1>5 DEF SetMode

LEMMA VoiceStep ==
  ASSUME VoiceInv, [VoiceNext]_voiceVars
  PROVE  VoiceInv'
<1>1. ASSUME HandleWakeWord \/ CaptureStops \/ UNCHANGED voiceVars PROVE VoiceInv'
  <2>1. UNCHANGED <<mode, switch, lock, active, overtaken, switches, restart, micReader>>
    BY <1>1 DEF HandleWakeWord, CaptureStops, voiceVars, requestVars, audioVars
  <2>2. VoiceTypeOK'
    BY <2>1 DEF VoiceInv, VoiceTypeOK
  <2> QED BY <2>1, <2>2, SwitchesUntouched
<1> QED BY <1>1, MicStep, SetModeStep DEF VoiceNext

(* The invariant of the switches of mode. *)
THEOREM VoiceInvariant == VoiceSpec => []VoiceInv
<1>1. VoiceInv /\ [VoiceNext]_voiceVars => VoiceInv'
  BY VoiceStep
<1> QED BY VoiceInitially, <1>1, PTL DEF VoiceSpec

(* Type correctness of modes, switches and the microphone: a read or a restart of *)
(* the stream holds the restart lock.                                             *)
THEOREM VoiceTypeCorrect == VoiceSpec => []VoiceTypeOK
<1>1. VoiceInv => VoiceTypeOK
  BY DEF VoiceInv
<1> QED BY VoiceInvariant, <1>1, PTL

(* set_mode compares the modes before it has the lock, two callers may wait for it *)
(* and a capture may outlive its flush: whoever leaves voice mode has still turned *)
(* the wake loop off, unless the boot task was not through when a switch began.    *)
THEOREM LeavingVoiceIsSilent == VoiceSpec => LeavingVoiceStopsListening
<1> DEFINE Silent == mode = "voice" /\ mode' # "voice" /\ ~overtaken => ~active'
<1>1. ASSUME VoiceInv, [VoiceNext]_voiceVars, mode = "voice", mode' # "voice", ~overtaken
      PROVE  ~active'
  <2>1. PICK c \in Caller : Finish(c) /\ c # "boot"
    BY <1>1 DEF VoiceNext, HandleWakeWord, CaptureStops, ReadMic, BeginRead, EndRead, FailRead,
            BeginRestart, EndRestart, RequestMode, SetMode, EnterLock, Teardown, FlushTail, Startup,
            Finish, voiceVars
  <2>2. switch[c].at = "opened" /\ switch[c].to # "voice"
    BY <1>1, <2>1 DEF Finish, At
  <2>3. ~active
    BY <1>1, <2>1, <2>2 DEF VoiceInv, SwitchHoldsLock, SilentAfterTeardown, Silenced, Region, Caller
  <2> QED BY <2>1, <2>2, <2>3 DEF Finish
<1>2. VoiceInv /\ [VoiceNext]_voiceVars => [Silent]_voiceVars
  BY <1>1
<1> QED BY VoiceInvariant, <1>2, PTL DEF VoiceSpec, LeavingVoiceStopsListening

-----------------------------------------------------------------------------
(* The shutdown: once, and what has been done by then.                     *)

\* Whoever is inside the shutdown began it, alone, and what lies behind it is done.
Inside(who) ==
    /\ who \in Stages => ~isRunning /\ saves = 1 /\ store = "closed"
    /\ who \in {"settle", "cancel"} => orchestra = "stopped"

OneStops ==
    /\ saves <= 1 /\ (isRunning => saves = 0)
    /\ Inside(main) /\ Inside(stopper)
    /\ ~(main \in Stages /\ stopper \in Stages)

\* With the server's thread running, run_forever returns only if the agent had been
\* started and somebody shut it down.
ReturnsStopped ==
    /\ handlers = server
    /\ main = "polls" => server
    /\ server /\ ~isRunning => saves = 1 /\ store = "closed"
    /\ main = "returned" => ~isRunning

\* The configuration is the first step of startup, and cannot be passed over.
StartedFirst ==
    /\ next = 1 => saves = 0 /\ ~isRunning
    /\ next > 1 /\ saves = 0 => isRunning
    /\ saves = 1 => store = "closed"

\* The inductive invariant.
LifeInv == LifeTypeOK /\ OneStops /\ ReturnsStopped /\ StartedFirst /\ CleanExit

LEMMA OrderOfBoot ==
  /\ Len(BootOrder) = 17 /\ BootOrder[1] = "config"
  /\ \A i \in 2..17 : BootOrder[i] # "config"
  /\ DOMAIN BootOrder = 1..17
  BY DEF BootOrder

LEMMA LifeInitInv == LifeInit => LifeInv
<1> SUFFICES ASSUME LifeInit PROVE LifeInv
  OBVIOUS
<1>1. LifeTypeOK
  <2>1. next \in 1..(Len(BootOrder) + 1)
    BY OrderOfBoot DEF LifeInit
  <2>2. /\ graphMode \in BOOLEAN /\ isRunning \in BOOLEAN
        /\ handlers \in BOOLEAN /\ server \in BOOLEAN
    BY DEF LifeInit
  <2>3. main \in {"boots", "polls", "leaves", "returned"} \union Stages
    BY DEF LifeInit
  <2>4. up \subseteq {BootOrder[j] : j \in DOMAIN BootOrder}
    BY DEF LifeInit
  <2>5. stopper \in {"none", "asked"} \union Stages
    BY DEF LifeInit
  <2>6. saves \in 0..2 /\ store \in {"open", "closed"} /\ orchestra \in {"up", "stopped"}
    BY DEF LifeInit
  <2>7. /\ typed \in {"none", "taken", "lost"}
        /\ process \in {"alive", "exit0", "exit1", "killed", "waits", "over"}
    BY DEF LifeInit
  <2> QED
    BY <2>1, <2>2, <2>3, <2>4, <2>5, <2>6, <2>7 DEF LifeTypeOK
<1>2. isRunning => saves = 0
  BY DEF LifeInit
<1>3. Inside(main) /\ Inside(stopper)
  BY DEF LifeInit, Inside, Stages
<1>4. ~(main \in Stages /\ stopper \in Stages)
  BY DEF LifeInit, Stages
<1>5. saves <= 1
  BY DEF LifeInit
<1>6. ReturnsStopped
  BY DEF LifeInit, ReturnsStopped
<1>7. StartedFirst
  BY DEF LifeInit, StartedFirst
<1>8. CleanExit
  BY DEF LifeInit, CleanExit, Stages
<1> QED
  BY <1>1, <1>2, <1>3, <1>4, <1>5, <1>6, <1>7, <1>8 DEF LifeInv, OneStops

\* startup
LEMMA BootInv ==
  ASSUME LifeInv, Boot
  PROVE  LifeInv'
<1> DEFINE step == BootOrder[next]
<1>1. /\ next \in 1..17 /\ (step = "config" <=> next = 1)
      /\ step \in {BootOrder[i] : i \in DOMAIN BootOrder}
  BY OrderOfBoot DEF Boot, LifeInv, LifeTypeOK
<1>2. Fails(step) \/ Succeeds(step) \/ PassesOver(step)
  BY DEF Boot
<1> HIDE DEF step
<1>3. CASE Fails(step)
  BY <1>3 DEF Boot, Fails, LifeInv, LifeTypeOK, OneStops, Inside, ReturnsStopped, StartedFirst,
              CleanExit, Stages
<1>4. CASE Succeeds(step)
  <2>1. LifeTypeOK'
    <3>1. next' \in 1..(Len(BootOrder) + 1)
      BY <1>1, <1>4, OrderOfBoot DEF Succeeds
    <3>2. up' \subseteq {BootOrder[i] : i \in DOMAIN BootOrder}
      BY <1>1, <1>4 DEF Succeeds, LifeInv, LifeTypeOK
    <3>3. isRunning' \in BOOLEAN
      BY <1>4 DEF Succeeds, LifeInv, LifeTypeOK
    <3> QED
      BY <1>4, <3>1, <3>2, <3>3 DEF Boot, Succeeds, LifeInv, LifeTypeOK
  <2>2. next' > 1 /\ (next = 1 \/ next > 1) /\ UNCHANGED <<saves, store, orchestra, stopper, main>>
    BY <1>1, <1>4 DEF Boot, Succeeds
  <2>3. isRunning' = (isRunning \/ next = 1)
    BY <1>1, <1>4 DEF Succeeds
  <2>4. (saves = 0 => isRunning') /\ (isRunning => isRunning')
    BY <2>2, <2>3 DEF LifeInv, StartedFirst
  <2>5. main \notin Stages /\ (isRunning' => saves = 0)
    BY <2>3 DEF Boot, LifeInv, OneStops, StartedFirst, Stages
  <2>6. stopper \in Stages => ~isRunning'
    <3>1. stopper \in Stages => ~isRunning /\ saves = 1
      BY DEF LifeInv, OneStops, Inside
    <3>2. saves = 1 => next # 1
      BY DEF LifeInv, StartedFirst
    <3> QED
      BY <2>3, <3>1, <3>2
  <2>7. OneStops'
    BY <2>2, <2>5, <2>6 DEF LifeInv, OneStops, Inside, Stages
  <2>8. ReturnsStopped' /\ StartedFirst'
    BY <1>1, <1>4, <2>2, <2>4 DEF Boot, Succeeds, LifeInv, ReturnsStopped, StartedFirst
  <2>9. CleanExit'
    BY <1>4, <2>7 DEF Boot, Succeeds, LifeInv, CleanExit, OneStops
  <2> QED
    BY <2>1, <2>7, <2>8, <2>9 DEF LifeInv
<1>5. CASE PassesOver(step)
  <2>1. LifeTypeOK'
    BY <1>1, <1>5, OrderOfBoot DEF Boot, PassesOver, LifeInv, LifeTypeOK
  <2>2. next # 1
    BY <1>1, <1>5 DEF PassesOver, Guarded
  <2> QED
    BY <1>1, <1>5, <2>1, <2>2 DEF Boot, PassesOver, LifeInv, LifeTypeOK, OneStops, Inside,
                                  ReturnsStopped, StartedFirst, CleanExit, Stages
<1> QED
  BY <1>2, <1>3, <1>4, <1>5

LEMMA BootedInv ==
  ASSUME LifeInv, Booted
  PROVE  LifeInv'
  BY OrderOfBoot DEF Booted, LifeInv, LifeTypeOK, OneStops, Inside, ReturnsStopped, StartedFirst,
                     CleanExit, Stages

\* The panel and run_forever
LEMMA UserTypesInv ==
  ASSUME LifeInv, UserTypes
  PROVE  LifeInv'
  BY DEF UserTypes, LifeInv, LifeTypeOK, OneStops, Inside, ReturnsStopped, StartedFirst,
         CleanExit, Stages

LEMMA MainPollsInv ==
  ASSUME LifeInv, MainPolls
  PROVE  LifeInv'
  BY DEF MainPolls, LifeInv, LifeTypeOK, OneStops, Inside, ReturnsStopped, StartedFirst,
         CleanExit, Stages

LEMMA MainStopsInv ==
  ASSUME LifeInv, MainStops
  PROVE  LifeInv'
<1>1. CASE ShutDown /\ main' = "prune"
  <2>1. saves = 0 /\ isRunning /\ main \notin Stages /\ stopper \notin Stages
    BY <1>1 DEF ShutDown, LifeInv, LifeTypeOK, OneStops, Inside
  <2>2. saves' = 1 /\ store' = "closed" /\ isRunning' = FALSE
    BY <1>1, <2>1 DEF ShutDown
  <2>3. LifeTypeOK'
    <3>1. isRunning' \in BOOLEAN
      BY <2>2
    <3>2. saves' \in 0..2 /\ store' \in {"open", "closed"}
      BY <2>2
    <3> QED
      BY <1>1, <3>1, <3>2 DEF MainStops, LifeInv, LifeTypeOK, Stages
  <2>4. OneStops' /\ CleanExit'
    BY <1>1, <2>1, <2>2 DEF MainStops, LifeInv, OneStops, Inside, CleanExit, Stages
  <2>5. ReturnsStopped' /\ StartedFirst'
    BY <1>1, <2>1, <2>2 DEF MainStops, LifeInv, ReturnsStopped, StartedFirst, Stages
  <2> QED
    BY <2>3, <2>4, <2>5 DEF LifeInv
<1>2. CASE ~isRunning /\ main' = "returned" /\ UNCHANGED <<isRunning, saves, store>>
  BY <1>2 DEF MainStops, LifeInv, LifeTypeOK, OneStops, Inside, ReturnsStopped, StartedFirst,
              CleanExit, Stages
<1> QED
  BY <1>1, <1>2 DEF MainStops

LEMMA MainGoesOnInv ==
  ASSUME LifeInv, MainGoesOn
  PROVE  LifeInv'
  BY DEF MainGoesOn, Following, OrchestratorStops, Exit, LifeInv, LifeTypeOK, OneStops, Inside,
         ReturnsStopped, StartedFirst, CleanExit, Stages

\* The task a signal creates
LEMMA StopperBeginsInv ==
  ASSUME LifeInv, StopperBegins
  PROVE  LifeInv'
<1>1. CASE ShutDown /\ stopper' = "prune"
  <2>1. saves = 0 /\ isRunning /\ main \notin Stages /\ stopper \notin Stages
    BY <1>1 DEF ShutDown, LifeInv, LifeTypeOK, OneStops, Inside
  <2>2. saves' = 1 /\ store' = "closed" /\ isRunning' = FALSE
    BY <1>1, <2>1 DEF ShutDown
  <2>3. LifeTypeOK'
    <3>1. isRunning' \in BOOLEAN
      BY <2>2
    <3>2. saves' \in 0..2 /\ store' \in {"open", "closed"}
      BY <2>2
    <3> QED
      BY <1>1, <3>1, <3>2 DEF StopperBegins, LifeInv, LifeTypeOK, Stages
  <2>4. OneStops' /\ CleanExit'
    BY <1>1, <2>1, <2>2 DEF StopperBegins, LifeInv, OneStops, Inside, CleanExit, Stages
  <2>5. ReturnsStopped' /\ StartedFirst'
    BY <1>1, <2>1, <2>2 DEF StopperBegins, LifeInv, ReturnsStopped, StartedFirst, Stages
  <2> QED
    BY <2>3, <2>4, <2>5 DEF LifeInv
<1>2. CASE ~isRunning /\ stopper' = "none" /\ UNCHANGED <<isRunning, saves, store>>
  BY <1>2 DEF StopperBegins, LifeInv, LifeTypeOK, OneStops, Inside, ReturnsStopped, StartedFirst,
              CleanExit, Stages
<1> QED
  BY <1>1, <1>2 DEF StopperBegins

LEMMA StopperGoesOnInv ==
  ASSUME LifeInv, StopperGoesOn
  PROVE  LifeInv'
  BY DEF StopperGoesOn, Following, OrchestratorStops, Exit, LifeInv, LifeTypeOK, OneStops,
         Inside, ReturnsStopped, StartedFirst, CleanExit, Stages

LEMMA RunEndsInv ==
  ASSUME LifeInv, RunEnds
  PROVE  LifeInv'
  BY DEF RunEnds, LifeInv, LifeTypeOK, OneStops, Inside, ReturnsStopped, StartedFirst,
         CleanExit, Stages

LEMMA SignalInv ==
  ASSUME LifeInv, Signal
  PROVE  LifeInv'
  BY DEF Signal, LifeInv, LifeTypeOK, OneStops, Inside, ReturnsStopped, StartedFirst,
         CleanExit, Stages

LEMMA LifeNextInv == LifeInv /\ [LifeNext]_lifeVars => LifeInv'
<1> SUFFICES ASSUME LifeInv, [LifeNext]_lifeVars PROVE LifeInv'
  OBVIOUS
<1>1. CASE UNCHANGED lifeVars
  BY <1>1 DEF lifeVars, LifeInv, LifeTypeOK, OneStops, Inside, ReturnsStopped, StartedFirst,
              CleanExit
<1>2. CASE LifeNext
  BY <1>2, BootInv, BootedInv, UserTypesInv, MainPollsInv, MainStopsInv, MainGoesOnInv,
     StopperBeginsInv, StopperGoesOnInv, RunEndsInv, SignalInv DEF LifeNext, Live
<1> QED
  BY <1>1, <1>2

LEMMA LifeInvariance == LifeSpec => []LifeInv
  BY LifeInitInv, LifeNextInv, PTL DEF LifeSpec

(* Every variable of the lifecycle keeps its type.                              *)
THEOREM LifeTypeCorrect == LifeSpec => []LifeTypeOK
<1>1. LifeInv => LifeTypeOK
  BY DEF LifeInv
<1> QED
  BY <1>1, LifeInvariance, PTL

(* Two coroutines may ask for it and any number of signals arrive: the agent is *)
(* shut down once, and no exit of asyncio.run comes before the flushes          *)
(* (core/lifecycle_manager.py, shutdown).                                       *)
THEOREM ShutDownOnce == LifeSpec => []CleanExit
<1>1. LifeInv => CleanExit
  BY DEF LifeInv
<1> QED
  BY <1>1, LifeInvariance, PTL

=============================================================================
