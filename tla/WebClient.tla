------------------------------- MODULE WebClient -------------------------------
(***************************************************************************)
(* A browser that deploys something and follows it: what its page shows of *)
(* a stream, of reads that overtake each other, and of its own actions.    *)
(*                                                                         *)
(*   apps/web: DropZone and DropPage, DeploymentPage (pages),              *)
(*             useDeployment and api (lib)                                 *)
(*                                                                         *)
(* Deployments and the lines of their logs are numbered as they are made,  *)
(* and the page has the set of the lines that it shows. A stream brings    *)
(* the lines of its deployment in order from its cursor, and statuses      *)
(* meanwhile: how the api reads them is EventStream's. Effects run after   *)
(* the event that changed what they depend on, and together with what they *)
(* set themselves.                                                         *)
(***************************************************************************)
EXTENDS Integers, Sequences

CONSTANTS
  MaxDeployments,    \* bounds the deployments
  MaxLines,          \* bounds the lines of logs
  Drops,             \* bounds the drops at once
  Reads,             \* bounds the reads that are under way
  StreamAttempts,    \* STREAM_ATTEMPTS
  AnswersInOrder,    \* TRUE: no answer comes after it is out of date
  EffectsAreQuick    \* TRUE: effects run before anything else reaches the page

ASSUME WebAssumption ==
  /\ MaxDeployments \in Nat /\ MaxLines \in Nat
  /\ StreamAttempts \in Nat \ {0}
  /\ AnswersInOrder \in BOOLEAN /\ EffectsAreQuick \in BOOLEAN

VARIABLES
  rows,      \* the status of every deployment, at the api
  table,     \* the deployment of every line, at the api
  drops,     \* what DropZone does about each drop
  stage,     \* the stage that it shows
  page,      \* the page of a deployment, as useDeployment has it
  effect,    \* what the effects that are in place depend on
  stream,    \* the EventSource
  reads,     \* the calls of refresh that are under way
  action     \* the action that is pending

apiVars == <<rows, table>>
dropVars == <<drops, stage>>
pageVars == <<page, effect, stream, reads, action>>
vars == <<apiVars, dropVars, pageVars>>

Ids == 1 .. MaxDeployments
Home == 0      \* in place of a deployment: the page that things are dropped on
LineIds == 1 .. MaxLines
Statuses == {"QUEUED", "BUILDING", "READY", "FAILED", "CANCELLED"}
InProgress == {"QUEUED", "BUILDING"}

\* deployment is whose record is shown, last is lastLogId.
Page == [ id : Ids \cup {Home}, deployment : Ids \cup {Home}, status : Statuses \cup {"none"},
          lines : SUBSET LineIds, last : LineIds \cup {0}, transport : {"stream", "poll"} ]
NewPage(id) == [ id |-> id, deployment |-> Home, status |-> "none", lines |-> {},
                 last |-> 0, transport |-> "stream" ]

\* Variant: a deployment that is not known yet is nothing to wait for.
Settled_Unknown(p) == p.status \notin InProgress

\* What the effects depend on. Nothing is followed at home, or once it has settled.
Settled(p) == p.status \notin InProgress \cup {"none"}
Effect(p) == [id |-> p.id, transport |-> p.transport, settled |-> Settled(p)]

\* cursor is the last event id of the browser, told the status that this connection has
\* been told, telling one that is on its way.
Stream == [ state : {"none", "connecting", "open", "refused"}, id : Ids \cup {Home},
            cursor : LineIds \cup {0}, told : Statuses \cup {"none"},
            telling : Statuses \cup {"none"}, failures : 0 .. StreamAttempts - 1 ]
NoStream == [ state |-> "none", id |-> Home, cursor |-> 0, told |-> "none",
              telling |-> "none", failures |-> 0 ]
NewStream(id, cursor) == [NoStream EXCEPT !.state = "connecting", !.id = id, !.cursor = cursor]

\* A refresh: what it asks for, and the status that it got. held is whether an action
\* waits for it.
Read == [ id : Ids \cup {Home}, after : LineIds \cup {0}, got : Statuses \cup {"none"},
          held : BOOLEAN ]
NoRead == [id |-> Home, after |-> 0, got |-> "none", held |-> FALSE]

\* An action on a deployment, and the answer to it: the deployment and its status. One
\* that is unread is over: it failed, which is shown, and so did the refresh after it.
Kinds == {"cancel", "retry", "redeploy"}
Action == [ kind : Kinds \cup {"none"}, id : Ids \cup {Home},
            state : {"none", "asked", "done", "failed", "refreshing", "unread"},
            answer : Ids \cup {Home}, status : Statuses \cup {"none"} ]
NoAction == [kind |-> "none", id |-> Home, state |-> "none", answer |-> Home, status |-> "none"]
Unread == [NoAction EXCEPT !.state = "unread"]
NonePending == action \in {NoAction, Unread}

WebTypeOK ==
  /\ rows \in Seq(Statuses) /\ Len(rows) <= MaxDeployments
  /\ table \in Seq(1 .. Len(rows)) /\ Len(table) <= MaxLines
  /\ drops \in [Drops -> {"none", "reading", "packing", "uploading"}]
  /\ stage \in {"idle", "packing", "uploading"}
  /\ page \in Page /\ page.id <= Len(rows) /\ page.last <= Len(table)
  /\ effect \in [id : Ids \cup {Home}, transport : {"stream", "poll"}, settled : BOOLEAN]
  /\ stream \in Stream
  /\ reads \in [Reads -> Read]
  /\ action \in Action

Init ==
  /\ rows = <<>> /\ table = <<>>
  /\ drops = [d \in Drops |-> "none"] /\ stage = "idle"
  /\ page = NewPage(Home) /\ effect = Effect(page)
  /\ stream = NoStream
  /\ reads = [r \in Reads |-> NoRead]
  /\ action = NoAction

-------------------------------------------------------------------------------
\* The rest of the system: deployments are built, and write lines.

Build(d) ==
  /\ \/ rows[d] = "QUEUED" /\ rows' = [rows EXCEPT ![d] = "BUILDING"]
     \/ rows[d] = "BUILDING" /\ \E s \in {"READY", "FAILED"} : rows' = [rows EXCEPT ![d] = s]
  /\ UNCHANGED <<table, dropVars, pageVars>>

\* The last lines of a build come after its status.
WriteLine(d) ==
  /\ Len(table) < MaxLines /\ rows[d] \notin {"QUEUED", "CANCELLED"}
  /\ table' = Append(table, d)
  /\ UNCHANGED <<rows, dropVars, pageVars>>

\* The lines of d after a cursor, as they were when there were n.
LinesOf(d, after, n) == { l \in 1 .. n : table[l] = d /\ l > after }

-------------------------------------------------------------------------------
\* What is common to everything that changes the page.

Largest(numbers) == CHOOSE n \in numbers : \A m \in numbers : m <= n

\* appendLogs.
Appended(p, incoming) ==
  [p EXCEPT !.lines = @ \cup incoming, !.last = Largest({@} \cup incoming)]

\* setDeployment.
Showing(p, d, status) == [p EXCEPT !.deployment = d, !.status = status]

\* The effects are those of what is shown.
UpToDate == effect = Effect(page)
Rendered == EffectsAreQuick => UpToDate

\* What an action changes is not changed while a status that was read before is on its
\* way, and the page goes nowhere while it waits for answers.
NothingOverdue == AnswersInOrder => stream.telling = "none" /\ \A r \in Reads : reads[r].got = "none"
NothingRead == AnswersInOrder => \A r \in Reads : reads[r].id = Home
NothingPending == NothingRead /\ (AnswersInOrder => NonePending)

\* refresh is called.
Asked(r, id, held) ==
  [reads EXCEPT ![r] = [NoRead EXCEPT !.id = id, !.after = page.last, !.held = held]]

-------------------------------------------------------------------------------
\* DropZone: what is dropped is read, packed and uploaded.

\* What the zone shows, as long as there is one.
ZoneShows(next) == IF page.id = Home THEN next ELSE "idle"

\* A drop is refused while the zone is busy, which it is not while it reads.
Drop(d) ==
  /\ page.id = Home /\ stage = "idle" /\ drops[d] = "none"
  /\ drops' = [drops EXCEPT ![d] = "reading"]
  /\ UNCHANGED <<stage, apiVars, pageVars>>

\* accept: an archive is uploaded as it is, a folder is packed before; what is empty or
\* too large, or cannot be read, is not.
Accept(d) ==
  /\ drops[d] = "reading"
  /\ \/ \E next \in {"packing", "uploading"} :
          drops' = [drops EXCEPT ![d] = next] /\ stage' = ZoneShows(next)
     \/ drops' = [drops EXCEPT ![d] = "none"] /\ UNCHANGED stage
  /\ UNCHANGED <<apiVars, pageVars>>

Packed(d) ==
  /\ drops[d] = "packing"
  /\ drops' = [drops EXCEPT ![d] = "uploading"] /\ stage' = ZoneShows("uploading")
  /\ UNCHANGED <<apiVars, pageVars>>

\* The archive is too large after all, or packing or uploading fails; a zone that is
\* gone shows nothing.
FailDrop(d) ==
  /\ drops[d] \in {"packing", "uploading"}
  /\ drops' = [drops EXCEPT ![d] = "none"] /\ stage' = "idle"
  /\ UNCHANGED <<apiVars, pageVars>>

\* The api has made a deployment of it, and the page goes there: from the zone, or
\* from wherever an earlier drop has led.
Deployed(d) ==
  /\ drops[d] = "uploading" /\ Len(rows) < MaxDeployments /\ NothingPending /\ Rendered
  /\ rows' = Append(rows, "QUEUED")
  /\ drops' = [drops EXCEPT ![d] = "none"]
  /\ stage' = "idle"
  /\ page' = [page EXCEPT !.id = Len(rows')]
  /\ UNCHANGED <<table, effect, stream, reads, action>>

-------------------------------------------------------------------------------
\* The effects of useDeployment.

\* Variants: the cursor stays that of the deployment before; and so do its lines.
Reset_KeepsCursor ==
  IF effect.id # page.id THEN [NewPage(page.id) EXCEPT !.last = page.last] ELSE page
Reset_KeepsLines ==
  IF effect.id # page.id THEN [NewPage(page.id) EXCEPT !.lines = page.lines] ELSE page

\* A page that is new to a deployment forgets what it showed.
Reset == IF effect.id # page.id THEN NewPage(page.id) ELSE page

\* What follows the deployment is torn down, and put up again if there is anything to
\* wait for; a deployment that is new is read once in any case.
RunEffects ==
  /\ effect # Effect(page)
  /\ page' = Reset
  /\ effect' = Effect(Reset)
  /\ stream' = IF Reset.transport = "stream" /\ ~Settled(Reset)
                 THEN NewStream(Reset.id, Reset.last) ELSE NoStream
  /\ IF effect.id = page.id
       THEN UNCHANGED reads
       ELSE \E r \in Reads :
              /\ reads[r].id = Home
              /\ reads' = [reads EXCEPT ![r] = [NoRead EXCEPT !.id = page.id]]
  /\ UNCHANGED <<apiVars, dropVars, action>>

\* The interval of polling.
Poll(r) ==
  /\ effect.transport = "poll" /\ ~effect.settled /\ effect.id # Home
  /\ reads[r].id = Home /\ Rendered /\ (AnswersInOrder => effect.id = page.id)
  /\ reads' = Asked(r, effect.id, FALSE)
  /\ UNCHANGED <<apiVars, dropVars, page, effect, stream, action>>

-------------------------------------------------------------------------------
\* refresh.

Get(r) ==
  /\ reads[r].id # Home /\ reads[r].got = "none"
  /\ reads' = [reads EXCEPT ![r].got = rows[reads[r].id]]
  /\ UNCHANGED <<apiVars, dropVars, page, effect, stream, action>>

\* An action is over when the refresh that it waited for is.
Released(r, over) == IF reads[r].held THEN over ELSE action

\* Both requests are answered, the one for lines with those there were at some time:
\* whatever the page is about by now, it shows what it reads.
Refresh(r) ==
  /\ reads[r].id # Home /\ reads[r].got # "none" /\ Rendered
  /\ \E n \in 0 .. Len(table) :
       page' = Appended(Showing(page, reads[r].id, reads[r].got),
                        LinesOf(reads[r].id, reads[r].after, n))
  /\ reads' = [reads EXCEPT ![r] = NoRead]
  /\ action' = Released(r, NoAction)
  /\ UNCHANGED <<apiVars, dropVars, effect, stream>>

\* One of them fails.
FailRefresh(r) ==
  /\ reads[r].id # Home
  /\ reads' = [reads EXCEPT ![r] = NoRead]
  /\ action' = Released(r, Unread)
  /\ UNCHANGED <<apiVars, dropVars, page, effect, stream>>

-------------------------------------------------------------------------------
\* The EventSource, and the api at its other end.

\* The api answers: an open stream counts its failures from none.
Open ==
  /\ stream.state = "connecting" /\ stream.id # Home
  /\ stream' = [stream EXCEPT !.state = "open", !.failures = 0]
  /\ UNCHANGED <<apiVars, dropVars, page, effect, reads, action>>

\* The next line arrives, even from a stream that an effect is about to close.
ReceiveLine ==
  /\ stream.state = "open" /\ Rendered
  /\ LET new == LinesOf(stream.id, stream.cursor, Len(table))
     IN  \E l \in new :
           /\ \A k \in new : l <= k
           /\ page' = Appended(page, {l})
           /\ stream' = [stream EXCEPT !.cursor = l]
  /\ UNCHANGED <<apiVars, dropVars, effect, reads, action>>

\* send() reads the status, and tells it if it is another than the last that it told.
SendStatus ==
  /\ stream.state = "open" /\ stream.telling = "none" /\ rows[stream.id] # stream.told
  /\ stream' = [stream EXCEPT !.told = rows[stream.id], !.telling = rows[stream.id]]
  /\ UNCHANGED <<apiVars, dropVars, page, effect, reads, action>>

\* A status arrives, even from a stream that an effect is about to close.
ReceiveStatus ==
  /\ stream.telling # "none" /\ Rendered
  /\ page' = Showing(page, stream.id, stream.telling)
  /\ stream' = [stream EXCEPT !.telling = "none"]
  /\ UNCHANGED <<apiVars, dropVars, effect, reads, action>>

\* Variant: one failure more before the page has had enough.
Failed_OneMore ==
  IF stream.failures >= StreamAttempts THEN [page EXCEPT !.transport = "poll"] ELSE page

\* The page after a failure of the stream.
Failed == IF stream.failures + 1 >= StreamAttempts THEN [page EXCEPT !.transport = "poll"] ELSE page

\* The connection cannot be made, or breaks: the browser tries again, from the last
\* event that it received, unless the page has had enough.
Break ==
  /\ stream.state \in {"connecting", "open"} /\ stream.id # Home /\ Rendered
  /\ page' = Failed
  /\ stream' = IF page' # page THEN NoStream
               ELSE [NewStream(stream.id, stream.cursor) EXCEPT !.failures = stream.failures + 1]
  /\ UNCHANGED <<apiVars, dropVars, effect, reads, action>>

\* The api answers with an error: to a browser that is the end of the stream, and one
\* failure.
Refuse ==
  /\ stream.state = "connecting" /\ stream.id # Home /\ Rendered
  /\ page' = Failed
  /\ stream' = [NoStream EXCEPT !.state = "refused"]
  /\ UNCHANGED <<apiVars, dropVars, effect, reads, action>>

-------------------------------------------------------------------------------
\* The actions of DeploymentPage: one at a time.

Offered(status) ==
  (IF status = "QUEUED" THEN {"cancel"} ELSE {})
  \cup (IF status \in {"FAILED", "CANCELLED"} THEN {"retry"} ELSE {})
  \cup (IF status \in {"READY", "FAILED", "CANCELLED"} THEN {"redeploy"} ELSE {})

Click(kind) ==
  /\ UpToDate /\ page.id # Home /\ NonePending
  /\ kind \in Offered(page.status)
  /\ action' = [NoAction EXCEPT !.kind = kind, !.id = page.id, !.state = "asked"]
  /\ UNCHANGED <<apiVars, dropVars, page, effect, stream, reads>>

\* The api does it, if the deployment is what the page took it for.
Perform ==
  /\ action.state = "asked" /\ action.kind \in Offered(rows[action.id]) /\ NothingOverdue
  /\ \/ /\ action.kind \in {"cancel", "retry"}
        /\ rows' = [rows EXCEPT ![action.id] = IF action.kind = "cancel" THEN "CANCELLED" ELSE "QUEUED"]
        /\ action' = [action EXCEPT !.state = "done", !.answer = action.id, !.status = rows'[action.id]]
     \/ /\ action.kind = "redeploy" /\ Len(rows) < MaxDeployments
        /\ rows' = Append(rows, "QUEUED")
        /\ action' = [action EXCEPT !.state = "done", !.answer = Len(rows'), !.status = "QUEUED"]
  /\ UNCHANGED <<table, dropVars, page, effect, stream, reads>>

\* It is refused, or it or its answer is lost.
FailAction ==
  /\ action.state \in {"asked", "done"}
  /\ action' = [action EXCEPT !.state = "failed", !.answer = Home, !.status = "none"]
  /\ UNCHANGED <<apiVars, dropVars, page, effect, stream, reads>>

\* apply, or navigate.
ApplyAction ==
  /\ action.state = "done" /\ Rendered /\ (action.kind = "redeploy" => NothingRead)
  /\ page' = IF action.kind = "redeploy" THEN [page EXCEPT !.id = action.answer]
             ELSE Showing(page, action.answer, action.status)
  /\ action' = NoAction
  /\ UNCHANGED <<apiVars, dropVars, effect, stream, reads>>

\* The refusal is shown, and the page refreshed before anything else can be done.
RefreshAfter(r) ==
  /\ action.state = "failed" /\ reads[r].id = Home
  /\ reads' = Asked(r, action.id, TRUE)
  /\ action' = [action EXCEPT !.state = "refreshing"]
  /\ UNCHANGED <<apiVars, dropVars, page, effect, stream>>

-------------------------------------------------------------------------------
ApiStep == \E d \in 1 .. Len(rows) : Build(d) \/ WriteLine(d)
DropStep == \E d \in Drops : Drop(d) \/ Accept(d) \/ Packed(d) \/ FailDrop(d) \/ Deployed(d)
ReadStep ==
  \E r \in Reads : Poll(r) \/ Get(r) \/ Refresh(r) \/ FailRefresh(r)
StreamStep == Open \/ ReceiveLine \/ SendStatus \/ ReceiveStatus \/ Break \/ Refuse
ActionStep ==
  \/ \E kind \in Kinds : Click(kind)
  \/ Perform \/ FailAction \/ ApplyAction
  \/ \E r \in Reads : RefreshAfter(r)

Next == ApiStep \/ DropStep \/ RunEffects \/ ReadStep \/ StreamStep \/ ActionStep

Spec == Init /\ [][Next]_vars

\* The browser runs what is due, and the api answers. Connections and reads may fail
\* again and again, but not for ever: of a stream that opens again and again its events
\* arrive in the end, and so does a refresh.
Fairness ==
  /\ WF_vars(RunEffects)
  /\ WF_vars(Open) /\ SF_vars(SendStatus) /\ SF_vars(ReceiveStatus)
  /\ \A r \in Reads :
       WF_vars(Poll(r)) /\ SF_vars(Get(r)) /\ SF_vars(Refresh(r))
  /\ WF_vars(Perform \/ FailAction) /\ SF_vars(ApplyAction)
  /\ SF_vars(\E r \in Reads : RefreshAfter(r))

FairSpec == Spec /\ Fairness

-------------------------------------------------------------------------------
\* However reads, streams, reconnects and the fallback to polling overlap, a page has
\* every line of its deployment up to its cursor: nothing it has not shown is ever
\* behind where it reads on.
LinesHaveNoGap ==
  effect.id = page.id =>
    \A l \in 1 .. page.last : table[l] = page.id => l \in page.lines

\* A page shows nothing of another deployment than its own, however it came there.
PageShowsItsOwn ==
  effect.id = page.id /\ page.id # Home =>
    /\ page.deployment \in {page.id, Home}
    /\ \A l \in page.lines : table[l] = page.id

\* The page shows what became of its deployment, or an action failed, which it says.
Shown ==
  \/ page.id = Home \/ rows[page.id] \in InProgress
  \/ page.deployment = page.id /\ page.status = rows[page.id]
  \/ action = Unread

\* A page that is not left shows in the end what became of its deployment, by whichever
\* way it hears of it, unless the api has refused its stream.
SettledIsShown == []<>(Shown \/ stream.state = "refused")
===============================================================================
