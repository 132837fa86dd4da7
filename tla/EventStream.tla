----------------------------- MODULE EventStream -----------------------------
(***************************************************************************)
(* The log and the status of one deployment on their way to one open page: *)
(* lines are inserted by whoever works on the deployment, a notification   *)
(* is "only a doorbell", and the api reads again at each.                  *)
(*                                                                         *)
(*   apps/api:    GET /:id/events (routes/deployments.ts), the registry    *)
(*                DeploymentEvents (events.ts), readDeploymentLogs         *)
(*   apps/worker: appendDeploymentLogs (logs.ts)                           *)
(*   the browser's EventSource, which reconnects with Last-Event-ID        *)
(*                                                                         *)
(* A line is its id. A status is how many changes came before it: that two *)
(* changes may lead to one status, of which the page is told once, makes   *)
(* no difference to what the page shows. All streams come from one address.*)
(***************************************************************************)
EXTENDS Naturals, FiniteSets

CONSTANTS
  Writers,        \* log writers, announcements, sweeps and requests
  Streams,        \* bounds the connections the api holds at once
  NoStream,
  MaxStreams,     \* MAX_STREAMS_PER_IP
  PageLimit,      \* the LIMIT of readDeploymentLogs
  MaxLines,       \* bounds the lines drawn
  MaxChanges,     \* bounds the changes of status
  SerialWriters   \* TRUE: one insert at a time draws and commits its ids

ASSUME StreamAssumption ==
  /\ NoStream \notin Streams
  /\ MaxStreams \in Nat
  /\ PageLimit \in Nat \ {0}
  /\ MaxLines \in Nat
  /\ MaxChanges \in Nat
  /\ SerialWriters \in BOOLEAN

VARIABLES
  log,        \* ids of the committed lines
  drawn,      \* last id the bigserial has given out
  changes,    \* status changes so far
  writers,    \* what each writer is doing
  bells,      \* notifications on their way to the api
  listening,  \* the LISTEN connection is up
  streams,    \* the handler of each connection
  wire,       \* lines written to each connection and not received yet
  page,       \* the browser's EventSource
  owed        \* what each stream was last woken for (history)

table == <<log, drawn, changes, writers>>
vars == <<table, bells, listening, streams, wire, page, owed>>

Ids == 1 .. MaxLines

WriterState == [ phase : {"idle", "inserting", "ringing"}, ids : SUBSET Ids ]
IdleWriter == [ phase |-> "idle", ids |-> {} ]

\* phase "logs", "status" and "deciding": send() is reading the log, reading the
\* status, looking at again. "quiet": no send() runs. watched: subscribed.
\* hungUp: the request's close event came before anybody listened to it.
Stream == [ phase : {"free", "logs", "status", "deciding", "quiet"},
            cursor : Nat, seen : Nat, again : BOOLEAN,
            watched : BOOLEAN, hungUp : BOOLEAN ]
Free == [ phase |-> "free", cursor |-> 0, seen |-> 0, again |-> FALSE,
          watched |-> FALSE, hungUp |-> FALSE ]

\* last is the last event id, got the lines received since the page was loaded.
Page == [ conn : Streams \cup {NoStream}, last : Nat, got : SUBSET Ids, refused : BOOLEAN ]
NewPage == [ conn |-> NoStream, last |-> 0, got |-> {}, refused |-> FALSE ]

Owed == [ lines : SUBSET Ids, change : Nat ]
NothingOwed == [ lines |-> {}, change |-> 0 ]

\* A page is connected to a handler, and only a subscribed handler rests.
HandlersFit ==
  /\ page.conn # NoStream => streams[page.conn].phase # "free"
  /\ \A s \in Streams : /\ streams[s].phase = "free" => streams[s] = Free
                        /\ streams[s].phase = "quiet" => streams[s].watched

StreamTypeOK ==
  /\ log \in SUBSET Ids
  /\ drawn \in 0 .. MaxLines
  /\ changes \in 0 .. MaxChanges
  /\ writers \in [Writers -> WriterState]
  /\ bells \in Nat
  /\ listening \in BOOLEAN
  /\ streams \in [Streams -> Stream]
  /\ wire \in [Streams -> SUBSET Ids]
  /\ page \in Page
  /\ owed \in [Streams -> Owed]
  /\ HandlersFit

Init ==
  /\ log = {} /\ drawn = 0 /\ changes = 0
  /\ writers = [w \in Writers |-> IdleWriter]
  /\ bells = 0 /\ listening = FALSE
  /\ streams = [s \in Streams |-> Free]
  /\ wire = [s \in Streams |-> {}]
  /\ page = NewPage
  /\ owed = [s \in Streams |-> NothingOwed]

-------------------------------------------------------------------------------
\* The writers. appendDeploymentLogs is two statements, and so is a transition:
\* the change commits, and then the doorbell is rung.

\* The INSERT draws the ids of its batch, which nobody sees until it commits.
Draw(w) ==
  /\ writers[w].phase = "idle"
  /\ SerialWriters => \A v \in Writers : writers[v].phase # "inserting"
  /\ \E n \in 1 .. MaxLines - drawn :
       /\ drawn' = drawn + n
       /\ writers' = [writers EXCEPT ![w] =
                        [phase |-> "inserting", ids |-> drawn + 1 .. drawn + n]]
  /\ UNCHANGED <<log, changes, bells, listening, streams, wire, page, owed>>

Commit(w) ==
  /\ writers[w].phase = "inserting"
  /\ log' = log \cup writers[w].ids
  /\ writers' = [writers EXCEPT ![w] = [phase |-> "ringing", ids |-> {}]]
  /\ UNCHANGED <<drawn, changes, bells, listening, streams, wire, page, owed>>

\* The INSERT fails: its ids are never used.
Rollback(w) ==
  /\ writers[w].phase = "inserting"
  /\ writers' = [writers EXCEPT ![w] = IdleWriter]
  /\ UNCHANGED <<log, drawn, changes, bells, listening, streams, wire, page, owed>>

\* transitionDeployment's UPDATE.
ChangeStatus(w) ==
  /\ writers[w].phase = "idle"
  /\ changes < MaxChanges
  /\ changes' = changes + 1
  /\ writers' = [writers EXCEPT ![w] = [phase |-> "ringing", ids |-> {}]]
  /\ UNCHANGED <<log, drawn, bells, listening, streams, wire, page, owed>>

\* notifyDeploymentChanged, which goes to whoever is listening, or is lost: the
\* statement fails, or the process dies before it.
Ring(w) ==
  /\ writers[w].phase = "ringing"
  /\ writers' = [writers EXCEPT ![w] = IdleWriter]
  /\ \/ listening /\ bells' = bells + 1
     \/ UNCHANGED bells
  /\ UNCHANGED <<log, drawn, changes, listening, streams, wire, page, owed>>

-------------------------------------------------------------------------------
\* The registry and the listener.

\* streamsFrom.
Watchers == { s \in Streams : streams[s].watched }

\* Variant: the newest lines instead of the next ones.
NextPage_Newest(cursor) ==
  LET after == { i \in log : i > cursor }
  IN  { i \in after : Cardinality({ j \in after : j >= i }) <= PageLimit }

\* readDeploymentLogs: id > cursor ORDER BY id LIMIT.
NextPage(cursor) ==
  LET after == { i \in log : i > cursor }
  IN  { i \in after : Cardinality({ j \in after : j <= i }) <= PageLimit }

\* Variant: a doorbell that rings during a read is ignored.
Woken_IfQuiet(stream) ==
  IF stream.phase = "quiet" THEN [stream EXCEPT !.phase = "logs", !.again = FALSE] ELSE stream

\* send(): it starts to read, or asks the read in flight to go round again.
Woken(stream) ==
  IF stream.phase = "quiet" THEN [stream EXCEPT !.phase = "logs", !.again = FALSE]
                            ELSE [stream EXCEPT !.again = TRUE]

\* A notification arrives and wakes everybody who watches the deployment.
Hear ==
  /\ bells > 0
  /\ bells' = bells - 1
  /\ streams' = [s \in Streams |-> IF s \in Watchers THEN Woken(streams[s]) ELSE streams[s]]
  /\ owed' = [s \in Streams |->
       IF s \in Watchers THEN [lines |-> NextPage(streams[s].cursor), change |-> changes]
                         ELSE owed[s]]
  /\ UNCHANGED <<table, listening, wire, page>>

\* The LISTEN connection is lost, with what was on its way; it comes back later.
LoseListener ==
  /\ listening
  /\ listening' = FALSE
  /\ bells' = 0
  /\ UNCHANGED <<table, streams, wire, page, owed>>

Listen ==
  /\ ~listening
  /\ listening' = TRUE
  /\ UNCHANGED <<table, bells, streams, wire, page, owed>>

-------------------------------------------------------------------------------
\* GET /:id/events.

\* Variant: the header is not looked at.
StartingCursor_FromQuery == 0

\* startingCursor: Last-Event-ID on a reconnect, or else afterId; both are the last
\* id the page has received, which is 0 when it has just been loaded.
StartingCursor == page.last

\* Admitted. The response's head is sent, and the first send() begins.
Connect(s) ==
  /\ page.conn = NoStream /\ ~page.refused
  /\ streams[s].phase = "free"
  /\ Cardinality(Watchers) < MaxStreams
  /\ streams' = [streams EXCEPT ![s] = [Free EXCEPT !.phase = "logs", !.cursor = StartingCursor]]
  /\ page' = [page EXCEPT !.conn = s]
  /\ UNCHANGED <<table, bells, listening, wire, owed>>

\* RATE_LIMITED: an EventSource gives up at an answer that is not a stream.
Refuse ==
  /\ page.conn = NoStream /\ ~page.refused
  /\ Cardinality(Watchers) >= MaxStreams
  /\ page' = [page EXCEPT !.refused = TRUE]
  /\ UNCHANGED <<table, bells, listening, streams, wire, owed>>

\* What the log read returns is written to the response, unless that is gone.
ReadLog(s) ==
  LET lines == NextPage(streams[s].cursor)
  IN  /\ streams[s].phase = "logs"
      /\ \/ lines = {} /\ streams' = [streams EXCEPT ![s].phase = "status"]
         \/ \E last \in lines :
              /\ \A i \in lines : i <= last
              /\ streams' = [streams EXCEPT ![s].phase = "status", ![s].cursor = last]
      /\ wire' = [wire EXCEPT ![s] = IF page.conn = s THEN @ \cup lines ELSE @]
      /\ UNCHANGED <<table, bells, listening, page, owed>>

ReadStatus(s) ==
  /\ streams[s].phase = "status"
  /\ streams' = [streams EXCEPT ![s].phase = "deciding", ![s].seen = changes]
  /\ UNCHANGED <<table, bells, listening, wire, page, owed>>

\* while (again); after the first send() the stream subscribes, and starts to
\* listen to a close event that may have come before.
Decide(s) ==
  /\ streams[s].phase = "deciding"
  /\ streams' = [streams EXCEPT ![s] =
       IF streams[s].again THEN [@ EXCEPT !.phase = "logs", !.again = FALSE]
                           ELSE [@ EXCEPT !.phase = "quiet", !.watched = TRUE]]
  /\ UNCHANGED <<table, bells, listening, wire, page, owed>>

\* Variant: sending is not reset when a read throws.
FailRead_StaysSending(s) ==
  /\ streams[s].phase \in {"logs", "status"}
  /\ streams[s].watched
  /\ streams' = [streams EXCEPT ![s].phase = "failed"]
  /\ owed' = [owed EXCEPT ![s] = NothingOwed]
  /\ UNCHANGED <<table, bells, listening, wire, page>>

\* A read throws. A wake swallows it, and what it was woken for; in the first
\* send() it ends the response.
FailRead(s) ==
  /\ streams[s].phase \in {"logs", "status"}
  /\ owed' = [owed EXCEPT ![s] = NothingOwed]
  /\ \/ /\ streams[s].watched
        /\ streams' = [streams EXCEPT ![s].phase = "quiet"]
        /\ UNCHANGED <<wire, page>>
     \/ /\ ~streams[s].watched
        /\ streams' = [streams EXCEPT ![s] = Free]
        /\ wire' = [wire EXCEPT ![s] = {}]
        /\ page' = IF page.conn = s THEN [page EXCEPT !.conn = NoStream] ELSE page
  /\ UNCHANGED <<table, bells, listening>>

SendStep(s) == ReadLog(s) \/ ReadStatus(s) \/ Decide(s) \/ FailRead(s)

\* Variant: the close handler forgets to unsubscribe.
HearClose_StaysSubscribed(s) ==
  /\ streams[s].phase # "free"
  /\ page.conn # s
  /\ ~streams[s].hungUp
  /\ streams' = [streams EXCEPT ![s].phase = "free"]
  /\ owed' = [owed EXCEPT ![s] = NothingOwed]
  /\ UNCHANGED <<table, bells, listening, wire, page>>

\* The request's close event. Before the first send() has ended, nobody listens.
HearClose(s) ==
  /\ streams[s].phase # "free"
  /\ page.conn # s
  /\ ~streams[s].hungUp
  /\ \/ /\ streams[s].watched
        /\ streams' = [streams EXCEPT ![s] = Free]
        /\ owed' = [owed EXCEPT ![s] = NothingOwed]
     \/ /\ ~streams[s].watched
        /\ streams' = [streams EXCEPT ![s].hungUp = TRUE]
        /\ UNCHANGED owed
  /\ UNCHANGED <<table, bells, listening, wire, page>>

-------------------------------------------------------------------------------
\* The browser.

\* An event arrives, in the order in which they were written.
Receive(s) ==
  /\ page.conn = s
  /\ \E i \in wire[s] :
       /\ \A j \in wire[s] : i <= j
       /\ wire' = [wire EXCEPT ![s] = @ \ {i}]
       /\ page' = [page EXCEPT !.last = i, !.got = @ \cup {i}]
  /\ UNCHANGED <<table, bells, listening, streams, owed>>

\* The connection breaks, with what was on its way.
Drop(s) ==
  /\ page.conn = s
  /\ page' = [page EXCEPT !.conn = NoStream]
  /\ wire' = [wire EXCEPT ![s] = {}]
  /\ UNCHANGED <<table, bells, listening, streams, owed>>

\* The page is loaded anew.
Reload ==
  /\ page # NewPage
  /\ page' = NewPage
  /\ wire' = [s \in Streams |-> {}]
  /\ UNCHANGED <<table, bells, listening, streams, owed>>

-------------------------------------------------------------------------------
WriterStep(w) == Draw(w) \/ Commit(w) \/ Rollback(w) \/ ChangeStatus(w) \/ Ring(w)

StreamStep(s) == Connect(s) \/ SendStep(s) \/ HearClose(s) \/ Receive(s) \/ Drop(s)

Next ==
  \/ \E w \in Writers : WriterStep(w)
  \/ \E s \in Streams : StreamStep(s)
  \/ Hear \/ LoseListener \/ Listen \/ Refuse \/ Reload

Spec == Init /\ [][Next]_vars

\* A send() that has begun goes on: its queries return or throw.
FairSpec == Spec /\ \A s \in Streams : WF_vars(SendStep(s))

-------------------------------------------------------------------------------
\* "A dropped connection resumes exactly where it stopped without losing or
\* repeating a line" (README.md): a page has received every line up to the last.
ResumesExactly == page.got = { i \in log : i <= page.last }

\* Why it does, if one insert at a time commits: ids come after all that was
\* drawn before, and before they are committed nobody's cursor has passed them;
LinesAreDrawn ==
  /\ log \subseteq 1 .. drawn
  /\ page.last <= drawn
  /\ \A s \in Streams : streams[s].cursor <= drawn
  /\ \A w \in Writers : writers[w].ids \subseteq 1 .. drawn

InsertsAreSerial ==
  /\ \A w \in Writers : writers[w].phase # "inserting" => writers[w].ids = {}
  /\ \A v, w \in Writers :
       writers[v].phase = "inserting" /\ writers[w].phase = "inserting" => v = w

CursorsAreBehind ==
  \A w \in Writers : \A i \in writers[w].ids :
    /\ \A j \in log : j < i
    /\ page.last < i
    /\ \A s \in Streams : streams[s].cursor < i

\* and a connection carries the lines between the page's last and its cursor.
WireIsExact ==
  \A s \in Streams :
    IF page.conn = s
      THEN /\ page.last <= streams[s].cursor
           /\ wire[s] = { i \in log : page.last < i /\ i <= streams[s].cursor }
      ELSE wire[s] = {}

DeliveryIsExact == LinesAreDrawn /\ InsertsAreSerial /\ CursorsAreBehind /\ WireIsExact

\* To the page a stream is a feed and nothing else: lines come in order, one at a time,
\* and none appears behind one that it has received, whatever is lost on the way.
Feed == INSTANCE LogFeed WITH last <- page.last, got <- page.got

ImplementsFeed == Feed!Spec

\* "The one in flight is asked to go round again": when a stream falls quiet, it
\* has sent what it was last woken for, however the doorbell and its reads
\* interleaved.
WakesAreAnswered ==
  \A s \in Streams : streams[s].phase = "quiet" =>
    /\ \A i \in owed[s].lines : i <= streams[s].cursor
    /\ owed[s].change <= streams[s].seen

\* Why: what is owed is next in line, and either it has been read or a read is
\* about to begin. Lines that are committed late do not come before it.
WakesArePending ==
  \A s \in Streams :
    /\ streams[s].phase = "free" => owed[s] = NothingOwed
    /\ owed[s].lines \subseteq
         { i \in log : i <= streams[s].cursor } \cup NextPage(streams[s].cursor)
    /\ streams[s].phase \in {"status", "deciding"} /\ ~streams[s].again =>
         \A i \in owed[s].lines : i <= streams[s].cursor
    /\ owed[s].change <= changes
    /\ streams[s].phase = "deciding" /\ ~streams[s].again => owed[s].change <= streams[s].seen

\* A stream that was woken sends what it was woken for, unless its read fails or
\* its browser goes.
WakesAreServed ==
  \A s \in Streams : \A i \in Ids :
    i \in owed[s].lines ~> (i <= streams[s].cursor \/ i \notin owed[s].lines)

\* "Forgets a stream once it closes, so a cap cannot leak" (events.test.ts): no
\* stream is counted after the close event of its request.
ClosedStreamsAreForgotten == \A s \in Watchers : ~streams[s].hungUp
===============================================================================
