-------------------------- MODULE EventStreamProofs --------------------------
(***************************************************************************)
(* Proofs about EventStream, for any number of writers, connections,       *)
(* lines and changes, any cap and any page limit.                          *)
(***************************************************************************)
EXTENDS EventStream, FiniteSetTheorems, TLAPS

-------------------------------------------------------------------------------
\* What readDeploymentLogs returns.

\* Lines after the cursor.
LEMMA PageIsNext ==
  ASSUME NEW cursor, NEW i \in NextPage(cursor)
  PROVE  i \in log /\ i > cursor
  BY DEF NextPage

\* A page leaves nothing out: with a line come all that are after the cursor and
\* before the line.
LEMMA PageIsDense ==
  ASSUME log \subseteq Ids, NEW cursor \in Nat,
         NEW i \in NextPage(cursor), NEW k \in log, k > cursor, k <= i
  PROVE  k \in NextPage(cursor)
<1> DEFINE after == { j \in log : j > cursor }
           upto(n) == { j \in after : j <= n }
<1>1. IsFiniteSet(Ids)
  BY StreamAssumption, FS_Interval DEF Ids
<1>2. i \in log /\ i \in Nat /\ k \in Nat /\ \A j \in log : j \in Nat
  <2>1. \A j \in Ids : j \in Nat
    BY DEF Ids
  <2>2. i \in log
    BY PageIsNext
  <2> QED
    BY <2>1, <2>2
<1>3. upto(k) \subseteq upto(i)
  <2> SUFFICES ASSUME NEW j \in upto(k) PROVE j \in upto(i)
    OBVIOUS
  <2>1. j \in after /\ j \in log /\ j <= k
    OBVIOUS
  <2>2. j <= i
    BY <1>2, <2>1
  <2> QED
    BY <2>1, <2>2
<1>4. IsFiniteSet(upto(i)) /\ IsFiniteSet(upto(k))
  <2>1. upto(i) \subseteq Ids /\ upto(k) \subseteq Ids
    OBVIOUS
  <2> QED
    BY <1>1, <2>1, FS_Subset
<1>5. Cardinality(upto(k)) <= Cardinality(upto(i))
  BY <1>3, <1>4, FS_Subset
<1>6. Cardinality(upto(k)) \in Nat /\ Cardinality(upto(i)) \in Nat
  BY <1>4, FS_CardinalityType
<1>7. Cardinality(upto(i)) <= PageLimit
  BY DEF NextPage
<1>8. Cardinality(upto(k)) <= PageLimit
  BY <1>5, <1>6, <1>7, StreamAssumption
<1> QED
  BY <1>8 DEF NextPage

\* Lines that come after all others leave a page as it is, but for its end.
LEMMA PageGrows ==
  ASSUME log \subseteq Ids, NEW new \in SUBSET Ids, log' = log \cup new,
         \A j \in new : \A k \in log : k < j,
         NEW cursor \in Nat, NEW i \in NextPage(cursor)
  PROVE  i \in NextPage(cursor)'
<1> DEFINE upto(set) == { j \in { k \in set : k > cursor } : j <= i }
<1>1. i \in log /\ i \in Nat /\ i > cursor
  <2>1. \A j \in Ids : j \in Nat
    BY DEF Ids
  <2>2. i \in log /\ i > cursor
    BY PageIsNext
  <2> QED
    BY <2>1, <2>2
<1>2. \A j \in new : ~(j <= i)
  BY <1>1 DEF Ids
<1>3. upto(log') = upto(log)
  BY <1>2
<1>4. Cardinality(upto(log)) <= PageLimit
  BY DEF NextPage
<1>5. Cardinality(upto(log')) <= PageLimit
  BY <1>3, <1>4
<1> QED
  BY <1>1, <1>5 DEF NextPage

-------------------------------------------------------------------------------
\* Types.

\* Nothing has happened at first.
LEMMA InitStreamType == Init => StreamTypeOK
<1> SUFFICES ASSUME Init PROVE StreamTypeOK
  OBVIOUS
<1>1. Free \in Stream /\ NewPage \in Page /\ NothingOwed \in Owed /\ IdleWriter \in WriterState
  BY DEF Free, Stream, NewPage, Page, NothingOwed, Owed, IdleWriter, WriterState
<1>2. 0 \in 0 .. MaxLines /\ 0 \in 0 .. MaxChanges
  BY StreamAssumption
<1>3. HandlersFit
  BY DEF HandlersFit, Init, Free, NewPage
<1> QED
  BY <1>1, <1>2, <1>3 DEF Init, StreamTypeOK

\* A handler that becomes another one that fits.
LEMMA HandlerUpdate ==
  ASSUME StreamTypeOK, NEW s \in Streams, NEW r \in Stream,
         streams' = [streams EXCEPT ![s] = r],
         page' = page \/ page'.conn = NoStream,
         page'.conn = s => r.phase # "free",
         r.phase = "free" => r = Free,
         r.phase = "quiet" => r.watched
  PROVE  streams' \in [Streams -> Stream] /\ HandlersFit'
<1>1. streams \in [Streams -> Stream] /\ HandlersFit /\ page.conn \in Streams \cup {NoStream}
  BY DEF StreamTypeOK, Page
<1>2. \A t \in Streams : streams'[t] = IF t = s THEN r ELSE streams[t]
  BY <1>1
<1>3. streams' \in [Streams -> Stream]
  BY <1>1
<1>4. page'.conn # NoStream => streams'[page'.conn].phase # "free"
  BY <1>1, <1>2 DEF HandlersFit
<1>5. ASSUME NEW t \in Streams
      PROVE  /\ streams'[t].phase = "free" => streams'[t] = Free
             /\ streams'[t].phase = "quiet" => streams'[t].watched
  BY <1>1, <1>2 DEF HandlersFit
<1>6. HandlersFit'
  BY <1>4, <1>5, Zenon DEF HandlersFit
<1> QED
  BY <1>3, <1>6, Zenon

\* A woken handler is a handler.
LEMMA WokenType ==
  ASSUME NEW r \in Stream
  PROVE  /\ Woken(r) \in Stream
         /\ Woken(r).phase # "quiet"
         /\ Woken(r).watched = r.watched
         /\ Woken(r).phase = "free" <=> r.phase = "free"
         /\ Woken(r).cursor = r.cursor
         /\ Woken(r).seen = r.seen
<1>1. CASE r.phase = "quiet"
  BY <1>1 DEF Woken, Stream
<1>2. CASE r.phase # "quiet"
  BY <1>2 DEF Woken, Stream
<1> QED
  BY <1>1, <1>2

\* The writers' steps keep the types.
LEMMA WriterType ==
  ASSUME StreamTypeOK, NEW w \in Writers, WriterStep(w) PROVE StreamTypeOK'
<1>1. CASE Draw(w)
  <2>1. PICK n \in 1 .. MaxLines - drawn :
          /\ drawn' = drawn + n
          /\ writers' = [writers EXCEPT ![w] =
                           [phase |-> "inserting", ids |-> drawn + 1 .. drawn + n]]
    BY <1>1 DEF Draw
  <2>2. drawn \in Nat /\ n \in Nat /\ MaxLines \in Nat /\ n <= MaxLines - drawn
    BY <2>1, StreamAssumption DEF StreamTypeOK
  <2>3. drawn' \in 0 .. MaxLines
    BY <2>1, <2>2
  <2>4. drawn + 1 .. drawn + n \subseteq Ids
    BY <2>2 DEF Ids
  <2>5. writers' \in [Writers -> WriterState]
    BY <2>1, <2>4 DEF StreamTypeOK, WriterState
  <2> QED
    BY <1>1, <2>3, <2>5 DEF Draw, StreamTypeOK, HandlersFit
<1>2. CASE Commit(w)
  <2>1. writers[w].ids \in SUBSET Ids
    BY DEF StreamTypeOK, WriterState
  <2> QED
    BY <1>2, <2>1 DEF Commit, StreamTypeOK, HandlersFit, WriterState
<1>3. CASE Rollback(w)
  BY <1>3 DEF Rollback, StreamTypeOK, HandlersFit, WriterState, IdleWriter
<1>4. CASE ChangeStatus(w)
  <2>1. changes + 1 \in 0 .. MaxChanges
    BY <1>4, StreamAssumption DEF ChangeStatus, StreamTypeOK
  <2> QED
    BY <1>4, <2>1 DEF ChangeStatus, StreamTypeOK, HandlersFit, WriterState
<1>5. CASE Ring(w)
  <2>1. bells' \in Nat
    BY <1>5 DEF Ring, StreamTypeOK
  <2> QED
    BY <1>5, <2>1 DEF Ring, StreamTypeOK, HandlersFit, WriterState, IdleWriter
<1> QED
  BY <1>1, <1>2, <1>3, <1>4, <1>5 DEF WriterStep

\* A doorbell keeps the types.
LEMMA HearType == ASSUME StreamTypeOK, Hear PROVE StreamTypeOK'
<1>1. streams' = [s \in Streams |-> IF s \in Watchers THEN Woken(streams[s]) ELSE streams[s]]
  BY DEF Hear
<1>2. \A s \in Streams : streams[s] \in Stream
  BY DEF StreamTypeOK
<1>3. streams' \in [Streams -> Stream]
  BY <1>1, <1>2, WokenType
<1>4. \A s \in Streams : NextPage(streams[s].cursor) \in SUBSET Ids
  BY PageIsNext DEF StreamTypeOK
<1>5. changes \in Nat
  BY StreamAssumption DEF StreamTypeOK
<1>6. owed' \in [Streams -> Owed]
  BY <1>4, <1>5 DEF Hear, StreamTypeOK, Owed
<1>7. HandlersFit'
  <2>1. page' = page /\ page.conn \in Streams \cup {NoStream}
    BY DEF Hear, StreamTypeOK, Page
  <2>2. ASSUME NEW s \in Streams
        PROVE  /\ streams'[s].phase = "free" <=> streams[s].phase = "free"
               /\ streams'[s].phase = "free" => streams'[s] = Free
               /\ streams'[s].phase = "quiet" => streams'[s].watched
    <3>1. /\ streams[s].phase = "free" => streams[s] = Free
          /\ streams[s].phase = "quiet" => streams[s].watched
      BY Zenon DEF StreamTypeOK, HandlersFit
    <3>2. CASE s \in Watchers
      <4>1. streams'[s] = Woken(streams[s])
        BY <1>1, <3>2, Zenon
      <4>2. streams[s].watched
        BY <3>2, Zenon DEF Watchers
      <4>3. streams[s].phase # "free"
        BY <3>1, <4>2 DEF Free
      <4>4. Woken(streams[s]).phase # "quiet" /\ Woken(streams[s]).phase # "free"
        BY <1>2, <4>3, WokenType
      <4> QED
        BY <4>1, <4>3, <4>4, Zenon
    <3>3. CASE s \notin Watchers
      <4>1. streams'[s] = streams[s]
        BY <1>1, <3>3, Zenon
      <4> QED
        BY <3>1, <4>1, Zenon
    <3> QED
      BY <3>2, <3>3
  <2>3. page'.conn # NoStream => streams'[page'.conn].phase # "free"
    BY <2>1, <2>2 DEF StreamTypeOK, HandlersFit
  <2> QED
    BY <2>2, <2>3, Zenon DEF HandlersFit
<1>8. bells' \in Nat
  BY DEF Hear, StreamTypeOK
<1> QED
  BY <1>3, <1>6, <1>7, <1>8 DEF Hear, StreamTypeOK, table

\* The steps of a handler and of its connection keep the types.
LEMMA StreamStepType ==
  ASSUME StreamTypeOK, NEW s \in Streams, StreamStep(s) PROVE StreamTypeOK'
<1>a. streams[s] \in Stream /\ HandlersFit /\ page \in Page /\ owed \in [Streams -> Owed]
  BY DEF StreamTypeOK
<1>b. wire \in [Streams -> SUBSET Ids] /\ changes \in Nat /\ NothingOwed \in Owed
  BY StreamAssumption DEF StreamTypeOK, NothingOwed, Owed
<1>c. Free \in Stream /\ s # NoStream
  BY StreamAssumption DEF Free, Stream
<1>1. CASE Connect(s)
  <2> DEFINE r == [Free EXCEPT !.phase = "logs", !.cursor = StartingCursor]
  <2>1. r \in Stream /\ r.phase = "logs"
    BY <1>a DEF Free, Stream, Page, StartingCursor
  <2>2. streams' = [streams EXCEPT ![s] = r]
    BY <1>1 DEF Connect
  <2>3. page' \in Page /\ page'.conn = s
    BY <1>1, <1>a DEF Connect, Page
  <2>4. streams' \in [Streams -> Stream]
    BY <2>1, <2>2 DEF StreamTypeOK
  <2>5. HandlersFit'
    BY <1>a, <1>c, <2>1, <2>2, <2>3 DEF HandlersFit, StreamTypeOK, Free
  <2> QED
    BY <1>1, <2>3, <2>4, <2>5 DEF Connect, StreamTypeOK, table
<1>2. CASE ReadLog(s)
  <2>1. NextPage(streams[s].cursor) \in SUBSET Ids
    BY PageIsNext DEF StreamTypeOK
  <2>2. PICK last \in Nat : streams' =
          [streams EXCEPT ![s] = [streams[s] EXCEPT !.phase = "status", !.cursor = last]]
    <3>1. CASE streams' = [streams EXCEPT ![s].phase = "status"]
      BY <3>1, <1>a DEF Stream, StreamTypeOK
    <3>2. CASE \E last \in NextPage(streams[s].cursor) :
                 streams' = [streams EXCEPT ![s].phase = "status", ![s].cursor = last]
      <4>1. PICK last \in NextPage(streams[s].cursor) :
              streams' = [streams EXCEPT ![s].phase = "status", ![s].cursor = last]
        BY <3>2
      <4>2. last \in Nat
        BY <2>1, <4>1 DEF Ids
      <4> QED
        BY <4>1, <4>2
    <3> QED
      BY <3>1, <3>2, <1>2 DEF ReadLog
  <2>3. [streams[s] EXCEPT !.phase = "status", !.cursor = last] \in Stream
    BY <1>a DEF Stream
  <2>4. [streams[s] EXCEPT !.phase = "status", !.cursor = last].phase = "status"
    BY <1>a DEF Stream
  <2>5. streams' \in [Streams -> Stream] /\ HandlersFit'
    BY <1>2, <2>2, <2>3, <2>4, HandlerUpdate DEF ReadLog
  <2>6. wire' \in [Streams -> SUBSET Ids]
    BY <1>2, <1>b, <2>1 DEF ReadLog
  <2> QED
    BY <1>2, <2>5, <2>6 DEF ReadLog, StreamTypeOK, table
<1>3. CASE ReadStatus(s)
  <2> DEFINE r == [streams[s] EXCEPT !.phase = "deciding", !.seen = changes]
  <2>1. r \in Stream /\ r.phase = "deciding"
    BY <1>a, <1>b DEF Stream
  <2>2. streams' = [streams EXCEPT ![s] = r]
    BY <1>3 DEF ReadStatus
  <2>3. streams' \in [Streams -> Stream] /\ HandlersFit'
    BY <1>3, <2>1, <2>2, HandlerUpdate DEF ReadStatus
  <2> QED
    BY <1>3, <2>3 DEF ReadStatus, StreamTypeOK, table
<1>4. CASE Decide(s)
  <2> DEFINE r == IF streams[s].again THEN [streams[s] EXCEPT !.phase = "logs", !.again = FALSE]
                                      ELSE [streams[s] EXCEPT !.phase = "quiet", !.watched = TRUE]
  <2>1. r \in Stream /\ r.phase # "free" /\ (r.phase = "quiet" => r.watched)
    BY <1>a DEF Stream
  <2>2. streams' = [streams EXCEPT ![s] = r]
    BY <1>4 DEF Decide
  <2>3. streams' \in [Streams -> Stream] /\ HandlersFit'
    <3> HIDE DEF r
    <3> QED
      BY <1>4, <2>1, <2>2, HandlerUpdate DEF Decide
  <2> QED
    BY <1>4, <2>3 DEF Decide, StreamTypeOK, table
<1>5. CASE FailRead(s)
  <2>1. owed' \in [Streams -> Owed]
    BY <1>5, <1>a, <1>b DEF FailRead
  <2>2. CASE streams[s].watched
    <3>1. [streams[s] EXCEPT !.phase = "quiet"] \in Stream
      BY <1>a DEF Stream
    <3>2. /\ [streams[s] EXCEPT !.phase = "quiet"].phase = "quiet"
          /\ [streams[s] EXCEPT !.phase = "quiet"].watched
      BY <1>a, <2>2 DEF Stream
    <3>3. streams' = [streams EXCEPT ![s] = [streams[s] EXCEPT !.phase = "quiet"]]
      BY <1>5, <2>2 DEF FailRead
    <3>4. page' = page /\ wire' = wire
      BY <1>5, <2>2 DEF FailRead
    <3>5. streams' \in [Streams -> Stream] /\ HandlersFit'
      BY <3>1, <3>2, <3>3, <3>4, HandlerUpdate
    <3> QED
      BY <1>5, <2>1, <3>4, <3>5 DEF FailRead, StreamTypeOK, table
  <2>3. CASE ~streams[s].watched
    <3>1. streams' = [streams EXCEPT ![s] = Free] /\ wire' = [wire EXCEPT ![s] = {}]
      BY <1>5, <2>3 DEF FailRead
    <3>2. page' = IF page.conn = s THEN [page EXCEPT !.conn = NoStream] ELSE page
      BY <1>5, <2>3 DEF FailRead
    <3>3. page' \in Page /\ page'.conn # s /\ (page' = page \/ page'.conn = NoStream)
      BY <3>2, <1>a, <1>c DEF Page
    <3>4. Free.phase # "quiet"
      BY DEF Free
    <3>5. streams' \in [Streams -> Stream] /\ HandlersFit'
      BY <1>c, <3>1, <3>3, <3>4, HandlerUpdate
    <3>6. wire' \in [Streams -> SUBSET Ids]
      BY <3>1, <1>b
    <3> QED
      BY <1>5, <2>1, <3>3, <3>5, <3>6 DEF FailRead, StreamTypeOK, table
  <2> QED
    BY <2>2, <2>3
<1>6. CASE HearClose(s)
  <2>1. owed' \in [Streams -> Owed]
    BY <1>6, <1>a, <1>b DEF HearClose
  <2>2. CASE streams[s].watched
    <3>1. streams' = [streams EXCEPT ![s] = Free] /\ page' = page /\ page.conn # s
      BY <1>6, <2>2 DEF HearClose
    <3>2. Free.phase # "quiet"
      BY DEF Free
    <3>3. streams' \in [Streams -> Stream] /\ HandlersFit'
      BY <1>c, <3>1, <3>2, HandlerUpdate
    <3> QED
      BY <1>6, <2>1, <3>3 DEF HearClose, StreamTypeOK, table
  <2>3. CASE ~streams[s].watched
    <3>1. [streams[s] EXCEPT !.hungUp = TRUE] \in Stream
      BY <1>a DEF Stream
    <3>2. /\ [streams[s] EXCEPT !.hungUp = TRUE].phase = streams[s].phase
          /\ streams[s].phase \notin {"free", "quiet"}
      BY <1>6, <1>a, <2>3 DEF Stream, HearClose, HandlersFit
    <3>3. /\ streams' = [streams EXCEPT ![s] = [streams[s] EXCEPT !.hungUp = TRUE]]
          /\ page' = page
      BY <1>6, <2>3 DEF HearClose
    <3>4. streams' \in [Streams -> Stream] /\ HandlersFit'
      BY <3>1, <3>2, <3>3, HandlerUpdate
    <3> QED
      BY <1>6, <2>1, <3>4 DEF HearClose, StreamTypeOK, table
  <2> QED
    BY <2>2, <2>3
<1>7. CASE Receive(s)
  <2>1. PICK i \in wire[s] : /\ wire' = [wire EXCEPT ![s] = @ \ {i}]
                           /\ page' = [page EXCEPT !.last = i, !.got = @ \cup {i}]
    BY <1>7 DEF Receive
  <2>2. i \in Ids /\ i \in Nat
    BY <2>1, <1>b DEF Ids
  <2>3. page' \in Page /\ page'.conn = page.conn /\ wire' \in [Streams -> SUBSET Ids]
    BY <1>a, <1>b, <2>1, <2>2 DEF Page
  <2> QED
    BY <1>7, <2>3 DEF Receive, StreamTypeOK, HandlersFit, table
<1>8. CASE Drop(s)
  <2>1. page' \in Page /\ page'.conn = NoStream
    BY <1>8, <1>a DEF Drop, Page
  <2>2. wire' \in [Streams -> SUBSET Ids]
    BY <1>8, <1>b DEF Drop
  <2> QED
    BY <1>8, <2>1, <2>2 DEF Drop, StreamTypeOK, HandlersFit, table
<1> QED
  BY <1>1, <1>2, <1>3, <1>4, <1>5, <1>6, <1>7, <1>8 DEF StreamStep, SendStep

\* Every step keeps the types.
LEMMA NextStreamType == StreamTypeOK /\ [Next]_vars => StreamTypeOK'
<1> SUFFICES ASSUME StreamTypeOK, [Next]_vars PROVE StreamTypeOK'
  OBVIOUS
<1>1. CASE LoseListener \/ Listen
  <2>1. bells' \in Nat
    BY <1>1 DEF LoseListener, Listen, StreamTypeOK
  <2>2. listening' \in BOOLEAN
    BY <1>1, Zenon DEF LoseListener, Listen
  <2> QED
    BY <1>1, <2>1, <2>2 DEF LoseListener, Listen, StreamTypeOK, HandlersFit, table
<1>2. CASE Refuse
  <2>1. page' \in Page /\ page'.conn = page.conn
    BY <1>2 DEF Refuse, StreamTypeOK, Page
  <2> QED
    BY <1>2, <2>1 DEF Refuse, StreamTypeOK, HandlersFit, table
<1>3. CASE Reload
  <2>1. page' \in Page /\ page'.conn = NoStream /\ wire' \in [Streams -> SUBSET Ids]
    BY <1>3 DEF Reload, Page, NewPage
  <2> QED
    BY <1>3, <2>1 DEF Reload, StreamTypeOK, HandlersFit, table
<1>4. CASE UNCHANGED vars
  BY <1>4 DEF vars, table, StreamTypeOK, HandlersFit
<1> QED
  BY <1>1, <1>2, <1>3, <1>4, WriterType, HearType, StreamStepType DEF Next

\* The variables keep their types.
THEOREM StreamTypeCorrect == Spec => []StreamTypeOK
  BY InitStreamType, NextStreamType, PTL DEF Spec
-------------------------------------------------------------------------------
\* A dropped connection resumes exactly where it stopped.

\* The numbers are numbers.
LEMMA StreamNumbers ==
  ASSUME StreamTypeOK
  PROVE  /\ drawn \in Nat /\ page.last \in Nat
         /\ log \subseteq Ids /\ Ids \subseteq Nat /\ \A i \in Ids : i > 0
         /\ \A s \in Streams : streams[s] \in Stream /\ streams[s].cursor \in Nat
         /\ \A w \in Writers : writers[w].ids \subseteq Ids
         /\ wire \in [Streams -> SUBSET Ids]
<1>1. drawn \in Nat /\ page.last \in Nat
  BY StreamAssumption DEF StreamTypeOK, Page
<1>2. log \subseteq Ids /\ Ids \subseteq Nat /\ \A i \in Ids : i > 0
  BY DEF StreamTypeOK, Ids
<1>3. \A s \in Streams : streams[s] \in Stream /\ streams[s].cursor \in Nat
  BY DEF StreamTypeOK, Stream
<1>4. \A w \in Writers : writers[w].ids \subseteq Ids
  BY DEF StreamTypeOK, WriterState
<1> QED
  BY <1>1, <1>2, <1>3, <1>4 DEF StreamTypeOK

\* Nothing is on its way at first.
LEMMA InitDelivery == Init => ResumesExactly /\ DeliveryIsExact
<1> SUFFICES ASSUME Init PROVE ResumesExactly /\ DeliveryIsExact
  OBVIOUS
<1>1. \A s \in Streams : streams[s].cursor = 0 /\ wire[s] = {}
  BY DEF Init, Free
<1>2. \A w \in Writers : writers[w].ids = {} /\ writers[w].phase = "idle"
  BY DEF Init, IdleWriter
<1>3. log = {} /\ drawn = 0 /\ page.last = 0 /\ page.got = {} /\ page.conn = NoStream
  BY DEF Init, NewPage
<1>4. \A s \in Streams : page.conn # s
  BY <1>3, StreamAssumption
<1> QED
  BY <1>1, <1>2, <1>3, <1>4
     DEF ResumesExactly, DeliveryIsExact, LinesAreDrawn, InsertsAreSerial, CursorsAreBehind,
         WireIsExact

\* A writer's step: ids are drawn after everybody's cursor, and until they are
\* committed nobody draws others.
LEMMA WriterDelivery ==
  ASSUME SerialWriters, StreamTypeOK, ResumesExactly, DeliveryIsExact,
         NEW w \in Writers, WriterStep(w)
  PROVE  ResumesExactly' /\ DeliveryIsExact'
<1> USE DEF DeliveryIsExact
<1>a. streams' = streams /\ wire' = wire /\ page' = page
  BY DEF WriterStep, Draw, Commit, Rollback, ChangeStatus, Ring
<1>b. writers \in [Writers -> WriterState]
  BY DEF StreamTypeOK
<1>1. CASE Draw(w)
  <2>1. PICK n \in 1 .. MaxLines - drawn :
          /\ drawn' = drawn + n
          /\ writers' = [writers EXCEPT ![w] =
                           [phase |-> "inserting", ids |-> drawn + 1 .. drawn + n]]
    BY <1>1 DEF Draw
  <2>2. log' = log /\ \A v \in Writers : writers[v].phase # "inserting" /\ writers[v].ids = {}
    BY <1>1 DEF Draw, InsertsAreSerial
  <2>3. \A v \in Writers : IF v = w THEN /\ writers'[v].phase = "inserting"
                                        /\ writers'[v].ids = drawn + 1 .. drawn + n
                                   ELSE /\ writers'[v].phase # "inserting"
                                        /\ writers'[v].ids = {}
    BY <1>b, <2>1, <2>2
  <2>4. n \in Nat /\ n > 0
    BY <2>1, StreamNumbers, StreamAssumption
  <2>5. LinesAreDrawn'
    BY <1>a, <2>1, <2>2, <2>3, <2>4, StreamNumbers DEF LinesAreDrawn
  <2>6. InsertsAreSerial'
    BY <2>3 DEF InsertsAreSerial
  <2>7. CursorsAreBehind'
    BY <1>a, <2>2, <2>3, <2>4, StreamNumbers DEF CursorsAreBehind, LinesAreDrawn
  <2> QED
    BY <1>a, <2>2, <2>5, <2>6, <2>7 DEF ResumesExactly, WireIsExact
<1>2. CASE Commit(w)
  <2>1. /\ log' = log \cup writers[w].ids /\ drawn' = drawn
        /\ writers' = [writers EXCEPT ![w] = [phase |-> "ringing", ids |-> {}]]
    BY <1>2 DEF Commit
  <2>2. \A v \in Writers : writers'[v].phase # "inserting" /\ writers'[v].ids = {}
    BY <1>2, <1>b, <2>1 DEF Commit, InsertsAreSerial
  <2>3. \A i \in writers[w].ids : ~(i <= page.last) /\ \A s \in Streams : ~(i <= streams[s].cursor)
    BY StreamNumbers DEF CursorsAreBehind
  <2>4. ResumesExactly'
    BY <1>a, <2>1, <2>3 DEF ResumesExactly
  <2>5. LinesAreDrawn'
    BY <1>a, <2>1, <2>2 DEF LinesAreDrawn
  <2>6. InsertsAreSerial' /\ CursorsAreBehind'
    BY <2>2 DEF InsertsAreSerial, CursorsAreBehind
  <2>7. WireIsExact'
    BY <1>a, <2>1, <2>3 DEF WireIsExact
  <2> QED
    BY <2>4, <2>5, <2>6, <2>7
<1>3. CASE Rollback(w) \/ ChangeStatus(w) \/ Ring(w)
  <2>1. log' = log /\ drawn' = drawn
    BY <1>3 DEF Rollback, ChangeStatus, Ring
  <2>2. \A v \in Writers : IF v = w
          THEN writers'[v].phase # "inserting" /\ writers'[v].ids = {}
          ELSE writers'[v] = writers[v]
    <3>1. CASE Rollback(w)
      <4>1. writers' = [writers EXCEPT ![w] = IdleWriter]
        BY <3>1 DEF Rollback
      <4>2. IdleWriter.phase # "inserting" /\ IdleWriter.ids = {}
        BY DEF IdleWriter
      <4> QED
        BY <4>1, <4>2, <1>b
    <3>2. CASE ChangeStatus(w)
      <4>1. writers' = [writers EXCEPT ![w] = [phase |-> "ringing", ids |-> {}]]
        BY <3>2 DEF ChangeStatus
      <4> QED
        BY <4>1, <1>b
    <3>3. CASE Ring(w)
      <4>1. writers' = [writers EXCEPT ![w] = IdleWriter]
        BY <3>3 DEF Ring
      <4>2. IdleWriter.phase # "inserting" /\ IdleWriter.ids = {}
        BY DEF IdleWriter
      <4> QED
        BY <4>1, <4>2, <1>b
    <3> QED
      BY <1>3, <3>1, <3>2, <3>3
  <2>3. LinesAreDrawn'
    BY <1>a, <2>1, <2>2 DEF LinesAreDrawn
  <2>4. InsertsAreSerial'
    BY <2>2 DEF InsertsAreSerial
  <2>5. CursorsAreBehind'
    BY <1>a, <2>1, <2>2 DEF CursorsAreBehind
  <2> QED
    BY <1>a, <2>1, <2>3, <2>4, <2>5 DEF ResumesExactly, WireIsExact
<1> QED
  BY <1>1, <1>2, <1>3 DEF WriterStep

\* A step that moves neither lines nor their writers keeps what it must of the
\* cursors and of the page.
LEMMA TableStays ==
  ASSUME DeliveryIsExact, UNCHANGED table,
         page'.last <= drawn,
         \A s \in Streams : streams'[s].cursor <= drawn,
         \A w \in Writers : \A i \in writers[w].ids :
           page'.last < i /\ \A s \in Streams : streams'[s].cursor < i,
         WireIsExact'
  PROVE  DeliveryIsExact'
<1>1. log' = log /\ drawn' = drawn /\ writers' = writers
  BY DEF table
<1> QED
  BY <1>1 DEF DeliveryIsExact, LinesAreDrawn, InsertsAreSerial, CursorsAreBehind

\* A handler's step that leaves the page and the wire alone, and its own cursor.
LEMMA CursorStays ==
  ASSUME StreamTypeOK, ResumesExactly, DeliveryIsExact,
         UNCHANGED table, wire' = wire, page' = page,
         \A s \in Streams : streams'[s].cursor \in {0, streams[s].cursor},
         \A s \in Streams : page.conn = s => streams'[s].cursor = streams[s].cursor
  PROVE  ResumesExactly' /\ DeliveryIsExact'
<1>1. log' = log /\ drawn' = drawn
  BY DEF table
<1>2. WireIsExact'
  BY <1>1 DEF DeliveryIsExact, WireIsExact
<1>3. \A s \in Streams : streams'[s].cursor <= drawn
  BY StreamNumbers DEF DeliveryIsExact, LinesAreDrawn
<1>4. ASSUME NEW w \in Writers, NEW i \in writers[w].ids
      PROVE  page'.last < i /\ \A s \in Streams : streams'[s].cursor < i
  BY StreamNumbers DEF DeliveryIsExact, CursorsAreBehind
<1>5. page'.last <= drawn
  BY DEF DeliveryIsExact, LinesAreDrawn
<1>6. DeliveryIsExact'
  BY <1>2, <1>3, <1>4, <1>5, TableStays
<1> QED
  BY <1>1, <1>6 DEF ResumesExactly

\* A read sends the lines that come next, and all of them up to its new cursor.
LEMMA ReadDelivery ==
  ASSUME StreamTypeOK, ResumesExactly, DeliveryIsExact, NEW s \in Streams, ReadLog(s)
  PROVE  ResumesExactly' /\ DeliveryIsExact'
<1> DEFINE cursor == streams[s].cursor
           lines == NextPage(cursor)
<1>1. log' = log /\ drawn' = drawn /\ page' = page
  BY DEF ReadLog, table
<1>2. /\ \A t \in Streams : t # s => streams'[t] = streams[t]
      /\ \/ lines = {} /\ streams'[s].cursor = cursor
         \/ streams'[s].cursor \in lines /\ \A i \in lines : i <= streams'[s].cursor
  BY StreamNumbers DEF ReadLog, StreamTypeOK, Stream
<1>3. wire' = [wire EXCEPT ![s] = IF page.conn = s THEN @ \cup lines ELSE @]
  BY DEF ReadLog
<1> DEFINE after == streams'[s].cursor
<1>4. cursor \in Nat /\ after \in Nat /\ cursor <= after
  BY <1>2, PageIsNext, StreamNumbers
<1>5. lines = { i \in log : cursor < i /\ i <= after }
  <2>1. ASSUME NEW i \in lines PROVE i \in log /\ cursor < i /\ i <= after
    BY <1>2, <2>1, PageIsNext, StreamNumbers
  <2>2. ASSUME NEW i \in log, cursor < i, i <= after PROVE i \in lines
    <3>1. after \in lines
      BY <1>2, <1>4, <2>2, StreamNumbers
    <3>2. i > cursor
      BY <2>2, <1>4, StreamNumbers
    <3> QED
      BY <1>4, <2>2, <3>1, <3>2, PageIsDense, StreamNumbers
  <2> HIDE DEF lines, cursor, after
  <2> QED
    BY <2>1, <2>2
<1>6. after = cursor \/ after \in log
  BY <1>2, PageIsNext
<1> HIDE DEF lines
<1>7. WireIsExact'
  <2> SUFFICES ASSUME NEW t \in Streams
               PROVE  IF page.conn = t
                        THEN /\ page.last <= streams'[t].cursor
                             /\ wire'[t] = { i \in log : page.last < i /\ i <= streams'[t].cursor }
                        ELSE wire'[t] = {}
    BY <1>1 DEF WireIsExact
  <2>1. CASE t # s \/ page.conn # t
    BY <2>1, <1>2, <1>3, StreamNumbers DEF DeliveryIsExact, WireIsExact
  <2>2. CASE t = s /\ page.conn = s
    <3>1. /\ page.last <= cursor
          /\ wire[s] = { i \in log : page.last < i /\ i <= cursor }
      BY <2>2 DEF DeliveryIsExact, WireIsExact
    <3>2. wire'[s] = wire[s] \cup lines
      BY <2>2, <1>3, StreamNumbers
    <3>3. page.last \in Nat /\ log \subseteq Nat
      BY StreamNumbers
    <3> HIDE DEF cursor, after
    <3>4. wire'[s] = { i \in log : page.last < i /\ i <= after }
      <4>1. ASSUME NEW i \in wire'[s] PROVE i \in log /\ page.last < i /\ i <= after
        <5>1. CASE i \in wire[s]
          <6>1. i \in log /\ page.last < i /\ i <= cursor
            BY <3>1, <5>1
          <6>2. i \in Nat
            BY <3>3, <6>1
          <6> QED
            BY <1>4, <6>1, <6>2
        <5>2. CASE i \in lines
          BY <1>4, <1>5, <3>1, <3>3, <5>2
        <5> QED
          BY <3>2, <4>1, <5>1, <5>2
      <4>2. ASSUME NEW i \in log, page.last < i, i <= after PROVE i \in wire'[s]
        <5>1. i <= cursor \/ cursor < i
          BY <1>4, <3>3
        <5> QED
          BY <1>5, <3>1, <3>2, <4>2, <5>1
      <4> QED
        BY <4>1, <4>2
    <3> QED
      BY <1>4, <2>2, <3>1, <3>3, <3>4 DEF after
  <2> QED
    BY <2>1, <2>2
<1>8. \A t \in Streams : streams'[t].cursor <= drawn
  <2>1. \A i \in log : i <= drawn
    BY StreamNumbers DEF DeliveryIsExact, LinesAreDrawn
  <2>2. \A t \in Streams : streams[t].cursor <= drawn
    BY DEF DeliveryIsExact, LinesAreDrawn
  <2> QED
    BY <1>2, <1>6, <2>1, <2>2
<1>9. ASSUME NEW w \in Writers, NEW i \in writers[w].ids
      PROVE  page'.last < i /\ \A t \in Streams : streams'[t].cursor < i
  BY <1>1, <1>2, <1>6 DEF DeliveryIsExact, CursorsAreBehind
<1>10. page'.last <= drawn
  BY <1>1 DEF DeliveryIsExact, LinesAreDrawn
<1>11. DeliveryIsExact'
  BY <1>7, <1>8, <1>9, <1>10, TableStays DEF ReadLog
<1> QED
  BY <1>1, <1>11 DEF ResumesExactly

\* The other steps of a handler and of its connection.
LEMMA StreamDelivery ==
  ASSUME StreamTypeOK, ResumesExactly, DeliveryIsExact, NEW s \in Streams, StreamStep(s)
  PROVE  ResumesExactly' /\ DeliveryIsExact'
<1>a. /\ streams \in [Streams -> Stream] /\ page \in Page
      /\ wire \in [Streams -> SUBSET Ids] /\ s # NoStream
  BY StreamAssumption DEF StreamTypeOK
<1>b. /\ page.last <= drawn
      /\ \A t \in Streams : streams[t].cursor <= drawn
      /\ \A w \in Writers : \A i \in writers[w].ids :
           page.last < i /\ \A t \in Streams : streams[t].cursor < i
      /\ \A i \in log : i <= drawn
      /\ \A w \in Writers : \A i \in writers[w].ids : \A j \in log : j < i
  BY StreamNumbers DEF DeliveryIsExact, LinesAreDrawn, CursorsAreBehind
<1>1. CASE Connect(s)
  <2>1. /\ log' = log /\ UNCHANGED table /\ wire' = wire /\ page.conn = NoStream
        /\ streams' = [streams EXCEPT ![s] = [Free EXCEPT !.phase = "logs", !.cursor = page.last]]
    BY <1>1 DEF Connect, table, StartingCursor
  <2>2. page'.conn = s /\ page'.last = page.last /\ page'.got = page.got
    BY <1>1, <1>a DEF Connect, Page
  <2>3. \A t \in Streams : streams'[t].cursor = IF t = s THEN page.last ELSE streams[t].cursor
    BY <1>a, <2>1 DEF Free
  <2>4. \A t \in Streams : wire[t] = {}
    BY <2>1, StreamAssumption DEF DeliveryIsExact, WireIsExact
  <2>5. { i \in log : page.last < i /\ i <= page.last } = {}
    BY StreamNumbers
  <2>6. WireIsExact'
    BY <2>1, <2>2, <2>3, <2>4, <2>5, StreamNumbers DEF WireIsExact
  <2>7. DeliveryIsExact'
    BY <1>b, <2>1, <2>2, <2>3, <2>6, TableStays
  <2> QED
    BY <2>1, <2>2, <2>7 DEF ResumesExactly
<1>2. CASE ReadLog(s)
  BY <1>2, ReadDelivery
<1>3. CASE ReadStatus(s)
  <2>1. \A t \in Streams : streams'[t].cursor = streams[t].cursor
    BY <1>3, <1>a DEF ReadStatus, Stream
  <2> QED
    BY <1>3, <2>1, CursorStays DEF ReadStatus
<1>4. CASE Decide(s)
  <2>1. \A t \in Streams : streams'[t].cursor = streams[t].cursor
    BY <1>4, <1>a DEF Decide, Stream
  <2> QED
    BY <1>4, <2>1, CursorStays DEF Decide
<1>5. CASE FailRead(s)
  <2>1. CASE streams[s].watched
    <3>1. \A t \in Streams : streams'[t].cursor = streams[t].cursor
      BY <1>5, <1>a, <2>1 DEF FailRead, Stream
    <3> QED
      BY <1>5, <2>1, <3>1, CursorStays DEF FailRead
  <2>2. CASE ~streams[s].watched
    <3>1. /\ UNCHANGED table /\ log' = log /\ streams' = [streams EXCEPT ![s] = Free]
          /\ wire' = [wire EXCEPT ![s] = {}]
          /\ page' = IF page.conn = s THEN [page EXCEPT !.conn = NoStream] ELSE page
      BY <1>5, <2>2 DEF FailRead, table
    <3>2. /\ page'.conn = IF page.conn = s THEN NoStream ELSE page.conn
          /\ page'.last = page.last /\ page'.got = page.got
      BY <3>1, <1>a DEF Page
    <3>3. \A t \in Streams : streams'[t].cursor = IF t = s THEN 0 ELSE streams[t].cursor
      BY <3>1, <1>a DEF Free
    <3>4. \A t \in Streams : wire'[t] = IF t = s THEN {} ELSE wire[t]
      BY <3>1, <1>a
    <3>5. WireIsExact'
      BY <1>a, <3>1, <3>2, <3>3, <3>4, StreamAssumption DEF DeliveryIsExact, WireIsExact
    <3>6. \A w \in Writers : \A i \in writers[w].ids : 0 < i
      BY StreamNumbers
    <3>7. DeliveryIsExact'
      BY <1>b, <3>1, <3>2, <3>3, <3>5, <3>6, TableStays, StreamNumbers
    <3> QED
      BY <3>1, <3>2, <3>7 DEF ResumesExactly
  <2> QED
    BY <2>1, <2>2
<1>6. CASE HearClose(s)
  <2>1. /\ page.conn # s
        /\ \/ streams' = [streams EXCEPT ![s] = Free]
           \/ streams' = [streams EXCEPT ![s].hungUp = TRUE]
    BY <1>6 DEF HearClose
  <2>2. UNCHANGED table /\ wire' = wire /\ page' = page
    BY <1>6 DEF HearClose
  <2>3. \A t \in Streams : streams'[t].cursor \in {0, streams[t].cursor}
    BY <1>a, <2>1 DEF Stream, Free
  <2>4. \A t \in Streams : page.conn = t => streams'[t].cursor = streams[t].cursor
    BY <1>a, <2>1 DEF Stream
  <2> QED
    BY <2>2, <2>3, <2>4, CursorStays
<1>7. CASE Receive(s)
  <2>1. PICK i \in wire[s] : /\ \A j \in wire[s] : i <= j
                           /\ wire' = [wire EXCEPT ![s] = @ \ {i}]
                           /\ page' = [page EXCEPT !.last = i, !.got = @ \cup {i}]
    BY <1>7 DEF Receive
  <2>2. page.conn = s /\ log' = log /\ streams' = streams /\ UNCHANGED table
    BY <1>7 DEF Receive, table
  <2>3. /\ page.last <= streams[s].cursor
        /\ wire[s] = { j \in log : page.last < j /\ j <= streams[s].cursor }
    BY <2>2 DEF DeliveryIsExact, WireIsExact
  <2>4. i \in log /\ i \in Nat /\ page.last < i /\ i <= streams[s].cursor
    BY <2>1, <2>3, StreamNumbers
  <2>5. page'.conn = s /\ page'.last = i /\ page'.got = page.got \cup {i}
    BY <1>a, <2>1, <2>2 DEF Page
  <2>6. \A j \in log : page.last < j /\ j <= i => j = i
    <3> SUFFICES ASSUME NEW j \in log, page.last < j, j <= i PROVE j = i
      OBVIOUS
    <3>1. j \in Nat /\ j <= streams[s].cursor
      BY <2>4, StreamNumbers
    <3>2. j \in wire[s]
      BY <2>3, <3>1
    <3> QED
      BY <2>1, <2>4, <3>1, <3>2
  <2>7. \A j \in log : j <= i <=> (j <= page.last \/ j = i)
    <3> SUFFICES ASSUME NEW j \in log PROVE j <= i <=> (j <= page.last \/ j = i)
      OBVIOUS
    <3>1. j \in Nat /\ (j <= page.last \/ page.last < j)
      BY StreamNumbers
    <3> QED
      BY <2>4, <2>6, <3>1, StreamNumbers
  <2>8. ResumesExactly'
    BY <2>2, <2>4, <2>5, <2>7 DEF ResumesExactly
  <2>9. wire'[s] = { j \in log : i < j /\ j <= streams[s].cursor }
    <3>1. wire'[s] = wire[s] \ {i}
      BY <1>a, <2>1
    <3>2. \A j \in log : (page.last < j /\ j # i) <=> i < j
      BY <2>4, <2>7, StreamNumbers
    <3> QED
      BY <2>3, <3>1, <3>2
  <2>10. \A t \in Streams : t # s => wire'[t] = {}
    BY <1>a, <2>1, <2>2 DEF DeliveryIsExact, WireIsExact
  <2>11. WireIsExact'
    BY <2>2, <2>4, <2>5, <2>9, <2>10 DEF WireIsExact
  <2>12. DeliveryIsExact'
    BY <1>b, <2>2, <2>4, <2>5, <2>11, TableStays
  <2> QED
    BY <2>8, <2>12
<1>8. CASE Drop(s)
  <2>1. /\ UNCHANGED table /\ log' = log /\ streams' = streams /\ page.conn = s
        /\ wire' = [wire EXCEPT ![s] = {}]
    BY <1>8 DEF Drop, table
  <2>2. page'.conn = NoStream /\ page'.last = page.last /\ page'.got = page.got
    BY <1>8, <1>a DEF Drop, Page
  <2>3. \A t \in Streams : wire'[t] = {} /\ page'.conn # t
    BY <1>a, <2>1, <2>2, StreamAssumption DEF DeliveryIsExact, WireIsExact
  <2>4. WireIsExact'
    BY <2>3 DEF WireIsExact
  <2>5. DeliveryIsExact'
    BY <1>b, <2>1, <2>2, <2>4, TableStays
  <2> QED
    BY <2>1, <2>2, <2>5 DEF ResumesExactly
<1> QED
  BY <1>1, <1>2, <1>3, <1>4, <1>5, <1>6, <1>7, <1>8 DEF StreamStep, SendStep

\* Every step.
LEMMA NextDelivery ==
  ASSUME SerialWriters
  PROVE  StreamTypeOK /\ ResumesExactly /\ DeliveryIsExact /\ [Next]_vars
           => ResumesExactly' /\ DeliveryIsExact'
<1> SUFFICES ASSUME StreamTypeOK, ResumesExactly, DeliveryIsExact, [Next]_vars
             PROVE  ResumesExactly' /\ DeliveryIsExact'
  OBVIOUS
<1>1. CASE Hear
  <2>1. \A s \in Streams : streams'[s].cursor = streams[s].cursor
    BY <1>1, WokenType DEF Hear, StreamTypeOK
  <2> QED
    BY <1>1, <2>1, CursorStays DEF Hear
<1>2. CASE LoseListener \/ Listen \/ UNCHANGED vars
  <2>1. UNCHANGED table /\ wire' = wire /\ page' = page /\ streams' = streams
    BY <1>2 DEF LoseListener, Listen, vars
  <2> QED
    BY <2>1, CursorStays
<1>3. CASE Refuse
  <2>1. UNCHANGED table /\ log' = log /\ drawn' = drawn /\ streams' = streams /\ wire' = wire
    BY <1>3 DEF Refuse, table
  <2>2. page'.conn = page.conn /\ page'.last = page.last /\ page'.got = page.got
    BY <1>3 DEF Refuse, StreamTypeOK, Page
  <2>3. WireIsExact'
    BY <2>1, <2>2 DEF DeliveryIsExact, WireIsExact
  <2>4. DeliveryIsExact'
    BY <2>1, <2>2, <2>3, TableStays DEF DeliveryIsExact, LinesAreDrawn, CursorsAreBehind
  <2> QED
    BY <2>1, <2>2, <2>4 DEF ResumesExactly
<1>4. CASE Reload
  <2>1. UNCHANGED table /\ log' = log /\ streams' = streams /\ wire' = [s \in Streams |-> {}]
    BY <1>4 DEF Reload, table
  <2>2. page'.conn = NoStream /\ page'.last = 0 /\ page'.got = {}
    BY <1>4 DEF Reload, NewPage
  <2>3. WireIsExact'
    BY <2>1, <2>2, StreamAssumption DEF WireIsExact
  <2>4. 0 <= drawn /\ \A w \in Writers : \A i \in writers[w].ids : 0 < i
    BY StreamNumbers
  <2>5. DeliveryIsExact'
    BY <2>1, <2>2, <2>3, <2>4, TableStays DEF DeliveryIsExact, LinesAreDrawn, CursorsAreBehind
  <2>6. { i \in log : i <= 0 } = {}
    BY StreamNumbers
  <2> QED
    BY <2>1, <2>2, <2>5, <2>6 DEF ResumesExactly
<1> QED
  BY <1>1, <1>2, <1>3, <1>4, WriterDelivery, StreamDelivery DEF Next

-------------------------------------------------------------------------------
\* Every doorbell is answered.

\* What a stream is owed and what it has sent, seen from one stream: WakesArePending
\* and WakesAreAnswered say Served of all of them.
Served(o, h, next) ==
  /\ h.phase = "free" => o = NothingOwed
  /\ \A i \in o.lines : i \in log /\ (i <= h.cursor \/ i \in next)
  /\ h.phase \in {"status", "deciding"} /\ ~h.again => \A i \in o.lines : i <= h.cursor
  /\ o.change <= changes
  /\ h.phase = "deciding" /\ ~h.again => o.change <= h.seen
  /\ h.phase = "quiet" => (\A i \in o.lines : i <= h.cursor) /\ o.change <= h.seen

AllServed == \A s \in Streams : Served(owed[s], streams[s], NextPage(streams[s].cursor))

\* The two properties are Served of every stream.
LEMMA ServedIsServed == AllServed <=> WakesArePending /\ WakesAreAnswered
<1>1. ASSUME AllServed PROVE WakesArePending /\ WakesAreAnswered
  BY <1>1 DEF AllServed, Served, WakesArePending, WakesAreAnswered
<1>2. ASSUME WakesArePending, WakesAreAnswered PROVE AllServed
  <2> SUFFICES ASSUME NEW s \in Streams
               PROVE  Served(owed[s], streams[s], NextPage(streams[s].cursor))
    BY DEF AllServed
  <2>1. owed[s].lines \subseteq
          { i \in log : i <= streams[s].cursor } \cup NextPage(streams[s].cursor)
    BY <1>2 DEF WakesArePending
  <2>2. \A i \in owed[s].lines : i \in log /\ (i <= streams[s].cursor \/ i \in NextPage(streams[s].cursor))
    BY <2>1, PageIsNext
  <2> QED
    BY <1>2, <2>2 DEF Served, WakesArePending, WakesAreAnswered
<1> QED
  BY <1>1, <1>2

\* Nothing is owed at first, nor when a stream is closed or its read fails.
LEMMA NothingIsServed ==
  ASSUME changes \in Nat, NEW h \in Stream, NEW next
  PROVE  Served(NothingOwed, h, next)
  BY DEF Served, NothingOwed, Stream

\* What a handler is owed it stays owed while its step leaves the log alone.
LEMMA OthersStayServed ==
  ASSUME AllServed, NEW s \in Streams, log' = log, changes' = changes,
         \A t \in Streams : t # s => streams'[t] = streams[t] /\ owed'[t] = owed[t],
         Served(owed'[s], streams'[s], NextPage(streams'[s].cursor))
  PROVE  AllServed'
<1>1. \A c : NextPage(c)' = NextPage(c)
  BY DEF NextPage
<1> SUFFICES ASSUME NEW t \in Streams
             PROVE  Served(owed'[t], streams'[t], NextPage(streams'[t].cursor))
  BY <1>1 DEF AllServed, Served
<1> QED
  BY DEF AllServed

\* A writer's step leaves every handler served: what it commits comes after all
\* that is owed.
LEMMA WriterServes ==
  ASSUME StreamTypeOK, DeliveryIsExact, AllServed, NEW w \in Writers, WriterStep(w)
  PROVE  AllServed'
<1>a. streams' = streams /\ owed' = owed
  BY DEF WriterStep, Draw, Commit, Rollback, ChangeStatus, Ring
<1>b. changes \in Nat /\ changes' \in Nat /\ changes <= changes'
  BY StreamAssumption
     DEF WriterStep, Draw, Commit, Rollback, ChangeStatus, Ring, StreamTypeOK
<1>c. PICK new \in SUBSET Ids :
        log' = log \cup new /\ \A j \in new : \A k \in log : k < j
  <2>1. CASE Commit(w)
    <3>1. writers[w].ids \in SUBSET Ids
      BY StreamNumbers
    <3>2. \A j \in writers[w].ids : \A k \in log : k < j
      BY DEF DeliveryIsExact, CursorsAreBehind
    <3> QED
      BY <2>1, <3>1, <3>2 DEF Commit
  <2>2. CASE log' = log
    <3>1. {} \in SUBSET Ids /\ log' = log \cup {} /\ \A j \in {} : \A k \in log : k < j
      BY <2>2
    <3> QED
      BY <3>1
  <2> QED
    BY <2>1, <2>2 DEF WriterStep, Draw, Rollback, ChangeStatus, Ring
<1> SUFFICES ASSUME NEW s \in Streams
             PROVE  Served(owed[s], streams[s], NextPage(streams[s].cursor))'
  BY DEF AllServed
<1>1. Served(owed[s], streams[s], NextPage(streams[s].cursor))
  BY DEF AllServed
<1>2. owed[s] \in Owed /\ streams[s].cursor \in Nat
  BY StreamNumbers DEF StreamTypeOK
<1>3. \A i \in NextPage(streams[s].cursor) : i \in NextPage(streams[s].cursor)'
  <2> SUFFICES ASSUME NEW i \in NextPage(streams[s].cursor)
               PROVE  i \in NextPage(streams[s].cursor)'
    OBVIOUS
  <2> DEFINE cursor == streams[s].cursor
  <2>1. i \in { j \in { k \in log' : k > cursor } :
                 Cardinality({ m \in { k \in log' : k > cursor } : m <= j }) <= PageLimit }
    BY <1>c, <1>2, PageGrows, StreamNumbers DEF NextPage
  <2> QED
    BY <1>a, <2>1 DEF NextPage
<1>4. owed'[s].change <= changes'
  BY <1>a, <1>b, <1>1, <1>2 DEF Served, Owed
<1>5. \A i \in owed'[s].lines :
        i \in log' /\ (i <= streams'[s].cursor \/ i \in NextPage(streams[s].cursor)')
  BY <1>a, <1>c, <1>1, <1>3 DEF Served
<1> QED
  BY <1>a, <1>1, <1>4, <1>5 DEF Served

\* A doorbell makes owed what a read would send, and a read is begun or asked for.
LEMMA HearServes == ASSUME StreamTypeOK, AllServed, Hear PROVE AllServed'
<1>1. log' = log /\ changes' = changes
  BY DEF Hear, table
<1>2. \A c : NextPage(c)' = NextPage(c)
  BY <1>1 DEF NextPage
<1> SUFFICES ASSUME NEW s \in Streams
             PROVE  Served(owed'[s], streams'[s], NextPage(streams'[s].cursor))
  BY <1>1, <1>2 DEF AllServed, Served
<1>3. Served(owed[s], streams[s], NextPage(streams[s].cursor))
  BY DEF AllServed
<1>4. streams[s] \in Stream /\ changes \in Nat
  BY StreamAssumption DEF StreamTypeOK
<1>5. CASE s \notin Watchers
  <2>1. streams'[s] = streams[s] /\ owed'[s] = owed[s]
    BY <1>5, Zenon DEF Hear
  <2> QED
    BY <1>3, <2>1
<1>6. CASE s \in Watchers
  <2> DEFINE next == NextPage(streams[s].cursor)
  <2>1. streams'[s] = Woken(streams[s])
    BY <1>6, Zenon DEF Hear
  <2>2. owed'[s] = [lines |-> next, change |-> changes]
    BY <1>6, Zenon DEF Hear
  <2>3. streams[s].phase # "free"
    <3>1. streams[s].watched
      BY <1>6, Zenon DEF Watchers
    <3>2. streams[s].phase = "free" => streams[s] = Free
      BY Zenon DEF StreamTypeOK, HandlersFit
    <3> QED
      BY <3>1, <3>2 DEF Free
  <2>4. \/ Woken(streams[s]).phase = "logs"
        \/ Woken(streams[s]).again
    BY <1>4 DEF Woken, Stream
  <2>5. /\ Woken(streams[s]).cursor = streams[s].cursor
        /\ Woken(streams[s]).phase # "quiet"
        /\ Woken(streams[s]).phase # "free"
    BY <1>4, <2>3, WokenType
  <2>6. \A i \in next : i \in log
    BY PageIsNext
  <2> HIDE DEF next
  <2>7. Served([lines |-> next, change |-> changes], Woken(streams[s]), next)
    BY <1>4, <2>4, <2>5, <2>6 DEF Served
  <2> QED
    BY <2>1, <2>2, <2>5, <2>7 DEF next
<1> QED
  BY <1>5, <1>6

\* The steps of a handler serve it.
LEMMA StreamServes ==
  ASSUME StreamTypeOK, StreamTypeOK', AllServed, NEW s \in Streams, StreamStep(s)
  PROVE  AllServed'
<1>a. /\ streams \in [Streams -> Stream] /\ owed \in [Streams -> Owed]
      /\ changes \in Nat /\ streams'[s] \in Stream
  BY StreamAssumption DEF StreamTypeOK
<1>b. Served(owed[s], streams[s], NextPage(streams[s].cursor))
  BY DEF AllServed
<1>c. log' = log /\ changes' = changes
  BY DEF StreamStep, SendStep, Connect, ReadLog, ReadStatus, Decide, FailRead, HearClose,
         Receive, Drop, table
<1>d. \A t \in Streams : t # s => streams'[t] = streams[t] /\ owed'[t] = owed[t]
  BY <1>a DEF StreamStep, SendStep, Connect, ReadLog, ReadStatus, Decide, FailRead,
         HearClose, Receive, Drop
<1> SUFFICES Served(owed'[s], streams'[s], NextPage(streams'[s].cursor))
  BY <1>c, <1>d, OthersStayServed
<1>1. CASE Connect(s)
  <2>1. owed'[s] = NothingOwed
    BY <1>1, <1>b DEF Connect, Served
  <2> QED
    BY <1>a, <2>1, NothingIsServed
<1>2. CASE ReadLog(s)
  <2> DEFINE lines == NextPage(streams[s].cursor)
  <2>1. /\ owed' = owed /\ streams'[s].phase = "status"
        /\ streams'[s].again = streams[s].again
        /\ \/ lines = {} /\ streams'[s].cursor = streams[s].cursor
           \/ streams'[s].cursor \in lines /\ \A i \in lines : i <= streams'[s].cursor
    BY <1>2, <1>a DEF ReadLog, Stream
  <2>2. /\ streams[s].cursor \in Nat /\ streams'[s].cursor \in Nat
        /\ streams[s].cursor <= streams'[s].cursor
    BY <1>a, <2>1, PageIsNext, StreamNumbers DEF Stream
  <2>3. \A i \in owed[s].lines : i \in log /\ i \in Nat /\ i <= streams'[s].cursor
    BY <1>b, <2>1, <2>2, StreamNumbers DEF Served
  <2> QED
    BY <1>b, <2>1, <2>3 DEF Served
<1>3. CASE ReadStatus(s)
  <2>1. /\ owed' = owed /\ streams[s].phase = "status" /\ streams'[s].phase = "deciding"
        /\ streams'[s].again = streams[s].again /\ streams'[s].cursor = streams[s].cursor
        /\ streams'[s].seen = changes
    BY <1>3, <1>a DEF ReadStatus, Stream
  <2> QED
    BY <1>b, <2>1 DEF Served
<1>4. CASE Decide(s)
  <2>1. /\ owed' = owed /\ streams[s].phase = "deciding"
        /\ streams'[s].cursor = streams[s].cursor /\ streams'[s].seen = streams[s].seen
        /\ \/ streams'[s].phase = "logs"
           \/ ~streams[s].again /\ streams'[s].phase = "quiet"
    BY <1>4, <1>a DEF Decide, Stream
  <2> QED
    BY <1>b, <2>1 DEF Served
<1>5. CASE FailRead(s)
  <2>1. owed'[s] = NothingOwed
    BY <1>5, <1>a DEF FailRead
  <2> QED
    BY <1>a, <2>1, NothingIsServed
<1>6. CASE HearClose(s)
  <2>1. CASE streams[s].watched
    <3>1. owed'[s] = NothingOwed
      BY <1>6, <1>a, <2>1 DEF HearClose
    <3> QED
      BY <1>a, <3>1, NothingIsServed
  <2>2. CASE ~streams[s].watched
    <3>1. /\ owed' = owed /\ streams'[s].phase = streams[s].phase
          /\ streams'[s].again = streams[s].again /\ streams'[s].cursor = streams[s].cursor
          /\ streams'[s].seen = streams[s].seen
      BY <1>6, <1>a, <2>2 DEF HearClose, Stream
    <3> QED
      BY <1>b, <3>1 DEF Served
  <2> QED
    BY <2>1, <2>2
<1>7. CASE Receive(s) \/ Drop(s)
  <2>1. owed' = owed /\ streams' = streams
    BY <1>7 DEF Receive, Drop
  <2> QED
    BY <1>b, <2>1
<1> QED
  BY <1>1, <1>2, <1>3, <1>4, <1>5, <1>6, <1>7 DEF StreamStep, SendStep

\* Nobody is owed anything at first.
LEMMA InitServes == Init => AllServed
<1> SUFFICES ASSUME Init, NEW s \in Streams
             PROVE  Served(owed[s], streams[s], NextPage(streams[s].cursor))
  BY DEF AllServed
<1>1. owed[s] = NothingOwed /\ streams[s] \in Stream /\ changes \in Nat
  BY DEF Init, Free, Stream
<1> QED
  BY <1>1, NothingIsServed

\* Every step leaves every handler served.
LEMMA NextServes ==
  ASSUME StreamTypeOK, StreamTypeOK', DeliveryIsExact, AllServed, [Next]_vars
  PROVE  AllServed'
<1>1. CASE LoseListener \/ Listen \/ Refuse \/ Reload \/ UNCHANGED vars
  <2>1. log' = log /\ changes' = changes /\ streams' = streams /\ owed' = owed
    BY <1>1 DEF LoseListener, Listen, Refuse, Reload, vars, table
  <2> QED
    BY <2>1 DEF AllServed, Served, NextPage
<1> QED
  BY <1>1, WriterServes, HearServes, StreamServes DEF Next

StreamInv == StreamTypeOK /\ ResumesExactly /\ DeliveryIsExact /\ AllServed

\* All of it together, where one insert at a time commits.
LEMMA StreamInvHolds == ASSUME SerialWriters PROVE Spec => []StreamInv
<1>1. Init => StreamInv
  BY InitStreamType, InitDelivery, InitServes DEF StreamInv
<1>2. StreamInv /\ [Next]_vars => StreamInv'
  BY NextStreamType, NextDelivery, NextServes DEF StreamInv
<1> QED
  BY <1>1, <1>2, PTL DEF Spec

-------------------------------------------------------------------------------
\* Where one insert at a time commits, a page has every line up to the last it
\* received, whatever breaks and reconnects (readDeploymentLogs, startingCursor).
THEOREM PagesResumeExactly == ASSUME SerialWriters PROVE Spec => []ResumesExactly
<1>1. StreamInv => ResumesExactly
  BY DEF StreamInv
<1> QED
  BY <1>1, StreamInvHolds, PTL

\* Then too each connection carries exactly the lines between the page's last and
\* the cursor of its handler (the body of send()).
THEOREM DeliveryHolds == ASSUME SerialWriters PROVE Spec => []DeliveryIsExact
<1>1. StreamInv => DeliveryIsExact
  BY DEF StreamInv
<1> QED
  BY <1>1, StreamInvHolds, PTL

\* A stream that falls quiet has sent what it was last woken for, whatever wakes
\* came while it read (sending and again in send()).
THEOREM AnswersWakes == ASSUME SerialWriters PROVE Spec => []WakesAreAnswered
<1>1. StreamInv => WakesAreAnswered
  BY ServedIsServed DEF StreamInv
<1> QED
  BY <1>1, StreamInvHolds, PTL

\* What a stream owes is next in line, and a read of it is under way or asked for.
THEOREM KeepsWakesPending == ASSUME SerialWriters PROVE Spec => []WakesArePending
<1>1. StreamInv => WakesArePending
  BY ServedIsServed DEF StreamInv
<1> QED
  BY <1>1, StreamInvHolds, PTL

-------------------------------------------------------------------------------
\* To a page the stream is a feed.

\* A writer extends the feed, or leaves it as it is.
LEMMA WriterFeeds ==
  ASSUME StreamInv, NEW w \in Writers, WriterStep(w)
  PROVE  [Feed!Next]_(Feed!feed)
<1>1. CASE Commit(w)
  <2>1. writers[w].ids \in SUBSET Ids
    BY StreamNumbers DEF StreamInv
  <2>2. \A i \in writers[w].ids : page.last < i /\ \A j \in log : j < i
    BY DEF StreamInv, DeliveryIsExact, CursorsAreBehind
  <2>3. Feed!Extend
    BY <1>1, <2>1, <2>2 DEF Commit, Feed!Extend
  <2> QED
    BY <2>3 DEF Feed!Next
<1>2. CASE ~Commit(w)
  BY <1>2 DEF WriterStep, Draw, Rollback, ChangeStatus, Ring, Feed!feed
<1> QED
  BY <1>1, <1>2

\* What arrives first on the wire is the first of the lines that the page lacks.
LEMMA ReceiveFeeds ==
  ASSUME StreamInv, NEW s \in Streams, Receive(s)
  PROVE  Feed!Deliver
<1>1. /\ page \in Page /\ streams[s].cursor \in Nat /\ \A i \in log : i \in Nat
      /\ page.conn = s
  BY StreamNumbers DEF StreamInv, StreamTypeOK, Receive
<1>2. PICK i \in wire[s] : /\ \A j \in wire[s] : i <= j
                           /\ page' = [page EXCEPT !.last = i, !.got = @ \cup {i}]
  BY DEF Receive
<1>3. wire[s] = { j \in log : page.last < j /\ j <= streams[s].cursor }
  BY <1>1 DEF StreamInv, DeliveryIsExact, WireIsExact
<1>4. i \in Feed!Rest
  BY <1>2, <1>3 DEF Feed!Rest
<1>5. \A j \in Feed!Rest : i <= j
  <2> SUFFICES ASSUME NEW j \in Feed!Rest PROVE i <= j
    OBVIOUS
  <2>1. j \in log /\ page.last < j /\ j \in Nat /\ i \in Nat /\ i <= streams[s].cursor
    BY <1>1, <1>2, <1>3 DEF Feed!Rest
  <2>2. CASE j <= streams[s].cursor
    BY <1>2, <1>3, <2>1, <2>2
  <2>3. CASE ~(j <= streams[s].cursor)
    BY <1>1, <2>1, <2>3
  <2> QED
    BY <2>2, <2>3
<1>6. page'.last = i /\ page'.got = page.got \cup {i} /\ log' = log
  BY <1>1, <1>2 DEF Page, Receive, table
<1> QED
  BY <1>4, <1>5, <1>6 DEF Feed!Deliver

\* Every step is one of a feed, or none.
LEMMA StepFeeds ==
  ASSUME StreamInv, [Next]_vars
  PROVE  [Feed!Next]_(Feed!feed)
<1>1. page \in Page
  BY DEF StreamInv, StreamTypeOK
<1>2. ASSUME NEW s \in Streams, StreamStep(s)
      PROVE  [Feed!Next]_(Feed!feed)
  <2>1. CASE Receive(s)
    BY <2>1, ReceiveFeeds DEF Feed!Next
  <2>2. CASE Connect(s) \/ Drop(s) \/ SendStep(s) \/ HearClose(s)
    <3>1. log' = log
      BY <2>2 DEF Connect, Drop, SendStep, ReadLog, ReadStatus, Decide, FailRead, HearClose, table
    <3>2. page' = page \/ \E c : page' = [page EXCEPT !.conn = c]
      BY <2>2 DEF Connect, Drop, SendStep, ReadLog, ReadStatus, Decide, FailRead, HearClose
    <3>3. page'.last = page.last /\ page'.got = page.got
      BY <1>1, <3>2 DEF Page
    <3> QED
      BY <3>1, <3>3 DEF Feed!feed
  <2> QED
    BY <1>2, <2>1, <2>2 DEF StreamStep
<1>3. CASE Reload
  <2>1. Feed!Reload
    BY <1>3 DEF Reload, NewPage, Feed!Reload, table
  <2> QED
    BY <2>1 DEF Feed!Next
<1>4. CASE Hear \/ LoseListener \/ Listen \/ Refuse \/ UNCHANGED vars
  <2>1. log' = log
    BY <1>4 DEF Hear, LoseListener, Listen, Refuse, vars, table
  <2>2. page' = page \/ page' = [page EXCEPT !.refused = TRUE]
    BY <1>4 DEF Hear, LoseListener, Listen, Refuse, vars
  <2>3. page'.last = page.last /\ page'.got = page.got
    BY <1>1, <2>2 DEF Page
  <2> QED
    BY <2>1, <2>3 DEF Feed!feed
<1> QED
  BY <1>2, <1>3, <1>4, WriterFeeds DEF Next

\* Where one insert at a time commits, the stream of GET /:id/events, its reconnects and
\* its doorbells included, is a feed to its page: lines come one by one and in order,
\* and none is added behind one that was delivered.
THEOREM StreamIsFeed == ASSUME SerialWriters PROVE Spec => ImplementsFeed
<1>1. Init => Feed!Init
  BY DEF Init, NewPage, Feed!Init
<1>2. StreamInv /\ [Next]_vars => [Feed!Next]_(Feed!feed)
  BY StepFeeds
<1> QED
  BY <1>1, <1>2, StreamInvHolds, PTL DEF Spec, ImplementsFeed, Feed!Spec
===============================================================================
