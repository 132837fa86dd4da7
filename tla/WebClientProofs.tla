--------------------------- MODULE WebClientProofs ---------------------------
(***************************************************************************)
(* Proofs about WebClient, for any number of deployments, lines, drops and *)
(* reads at once, and attempts of a stream.                                *)
(***************************************************************************)
EXTENDS WebClient, WellFoundedInduction, TLAPS

-------------------------------------------------------------------------------
\* The type invariant, strengthened: nothing is about a deployment or a line that is not
\* there yet, and a page that polls has no stream that is alive.

PageOK(p, n, m) == p \in Page /\ p.id <= n /\ p.last <= m /\ p.lines \subseteq 1 .. m
StreamOK(s, n, m) ==
  s \in Stream /\ s.id <= n /\ s.cursor <= m /\ (s.state = "open" => s.id # Home)
ReadOK(r, n, m) == r \in Read /\ r.id <= n /\ r.after <= m
ActionOK(a, n) ==
  /\ a \in Action /\ a.id <= n /\ a.answer <= n
  /\ a.state \in {"asked", "done", "failed", "refreshing"} => a.id # Home
EffectOK(e, n) ==
  e \in [id : Ids \cup {Home}, transport : {"stream", "poll"}, settled : BOOLEAN] /\ e.id <= n

ApiOK ==
  /\ rows \in Seq(Statuses) /\ Len(rows) <= MaxDeployments
  /\ table \in Seq(1 .. Len(rows)) /\ Len(table) <= MaxLines

DropsOK ==
  /\ drops \in [Drops -> {"none", "reading", "packing", "uploading"}]
  /\ stage \in {"idle", "packing", "uploading"}

PollsAlone == page.transport = "poll" => stream.state \in {"none", "refused"}

WebInv ==
  /\ ApiOK /\ DropsOK
  /\ PageOK(page, Len(rows), Len(table)) /\ EffectOK(effect, Len(rows))
  /\ StreamOK(stream, Len(rows), Len(table)) /\ PollsAlone
  /\ reads \in [Reads -> Read] /\ \A r \in Reads : ReadOK(reads[r], Len(rows), Len(table))
  /\ ActionOK(action, Len(rows))

LEMMA WebInvIsTyped == WebInv => WebTypeOK
<1> SUFFICES ASSUME WebInv PROVE WebTypeOK
  OBVIOUS
<1>1. page \in Page /\ page.id <= Len(rows) /\ page.last <= Len(table)
  BY DEF WebInv, PageOK
<1>2. /\ effect \in [id : Ids \cup {Home}, transport : {"stream", "poll"}, settled : BOOLEAN]
      /\ stream \in Stream /\ action \in Action
  BY DEF WebInv, EffectOK, StreamOK, ActionOK
<1> QED
  BY <1>1, <1>2 DEF WebInv, WebTypeOK, ApiOK, DropsOK

LEMMA SmallestIs ==
  ASSUME NEW numbers \in SUBSET Nat, numbers # {}
  PROVE  \E n \in numbers : \A k \in numbers : n <= k
<1> DEFINE Less == OpToRel(<, Nat)
<1>1. \A j, k \in Nat : <<j, k>> \in Less <=> j < k
  BY DEF OpToRel
<1>2. IsWellFoundedOn(Less, Nat)
  BY NatLessThanWellFounded
<1> HIDE DEF Less
<1>3. numbers \subseteq Nat
  OBVIOUS
<1>4. PICK n \in numbers : \A k \in numbers : ~ (<<k, n>> \in Less)
  BY <1>2, <1>3, WFMin
<1>5. \A k \in numbers : n \in Nat /\ k \in Nat /\ ~ (k < n)
  BY <1>1, <1>3, <1>4
<1> QED
  BY <1>5

LEMMA LargestIs ==
  ASSUME NEW m \in Nat, NEW numbers \in SUBSET (0 .. m), numbers # {}
  PROVE  Largest(numbers) \in numbers /\ \A k \in numbers : k <= Largest(numbers)
<1> DEFINE below == { m - k : k \in numbers }
<1>0. \A k \in numbers : k \in 0 .. m
  OBVIOUS
<1>1. /\ \A b \in below : b \in Nat /\ \E k \in numbers : b = m - k
      /\ \A k \in numbers : m - k \in below
      /\ below # {}
  BY <1>0
<1> HIDE DEF below
<1>2. below \in SUBSET Nat
  BY <1>1
<1>3. \E b \in below : \A c \in below : b <= c
  BY <1>1, <1>2, SmallestIs
<1>4. PICK b \in below : \A c \in below : b <= c
  BY <1>3
<1>5. PICK n \in numbers : b = m - n
  BY <1>1
<1>6. \A k \in numbers : k <= n
  <2> SUFFICES ASSUME NEW k \in numbers PROVE k <= n
    OBVIOUS
  <2>1. b <= m - k
    BY <1>1, <1>4
  <2> QED
    BY <1>0, <1>5, <2>1
<1> QED
  BY <1>6 DEF Largest

LEMMA AppendedOK ==
  ASSUME NEW n \in Nat, NEW m \in Nat, m <= MaxLines, NEW p, PageOK(p, n, m),
         NEW incoming \in SUBSET (1 .. m)
  PROVE  LET q == Appended(p, incoming)
         IN  /\ PageOK(q, n, m)
             /\ q.id = p.id /\ q.deployment = p.deployment /\ q.transport = p.transport
             /\ q.lines = p.lines \cup incoming
             /\ q.last \in {p.last} \cup incoming
             /\ \A k \in {p.last} \cup incoming : k <= q.last
<1> USE WebAssumption
<1>1. p \in Page /\ p.last \in 0 .. m /\ p.lines \subseteq 1 .. m /\ p.id <= n
  BY DEF PageOK, Page, LineIds
<1> DEFINE all == {p.last} \cup incoming
<1>a. \A k \in incoming : k \in 1 .. m
  OBVIOUS
<1>2. all \in SUBSET (0 .. m) /\ all # {}
  <2>1. \A k \in incoming : k \in 0 .. m
    BY <1>a
  <2>2. \A k \in all : k \in 0 .. m
    BY <1>1, <2>1
  <2> QED
    BY <2>2
<1>3. Largest(all) \in all /\ \A k \in all : k <= Largest(all)
  BY <1>2, LargestIs
<1> DEFINE largest == Largest(all)
<1>4. largest \in LineIds \cup {0} /\ largest <= m
  <2>1. largest \in 0 .. m
    BY <1>2, <1>3
  <2> QED
    BY <2>1 DEF LineIds
<1>5. p.lines \cup incoming \in SUBSET LineIds
  <2>1. \A k \in p.lines \cup incoming : k \in 1 .. m
    BY <1>1, <1>a
  <2> QED
    BY <2>1 DEF LineIds
<1> DEFINE q == [p EXCEPT !.lines = p.lines \cup incoming, !.last = largest]
<1>6. Appended(p, incoming) = q
  BY DEF Appended
<1> HIDE DEF largest
<1>7. /\ q \in Page /\ q.id = p.id /\ q.deployment = p.deployment /\ q.transport = p.transport
      /\ q.lines = p.lines \cup incoming /\ q.last = largest
  BY <1>1, <1>4, <1>5 DEF Page
<1> HIDE DEF q
<1>8. PageOK(q, n, m)
  BY <1>1, <1>4, <1>7 DEF PageOK
<1> QED
  BY <1>3, <1>6, <1>7, <1>8 DEF largest

LEMMA ShowingOK ==
  ASSUME NEW n, NEW m, NEW p, PageOK(p, n, m), NEW d \in Ids \cup {Home},
         NEW status \in Statuses \cup {"none"}
  PROVE  LET q == Showing(p, d, status)
         IN  /\ PageOK(q, n, m)
             /\ q.id = p.id /\ q.deployment = d /\ q.transport = p.transport
             /\ q.lines = p.lines /\ q.last = p.last
BY DEF PageOK, Showing, Page

LEMMA NewPageOK ==
  ASSUME NEW id \in Ids \cup {Home}, NEW n \in Nat, NEW m \in Nat, id <= n
  PROVE  /\ PageOK(NewPage(id), n, m) /\ NewPage(id).id = id /\ NewPage(id).last = 0
         /\ NewPage(id).lines = {} /\ NewPage(id).deployment = Home
         /\ NewPage(id).transport = "stream"
BY DEF PageOK, NewPage, Page, Home

LEMMA EffectIs ==
  ASSUME NEW p \in Page, NEW n, p.id <= n
  PROVE  EffectOK(Effect(p), n) /\ Effect(p).id = p.id
BY DEF EffectOK, Effect, Page, Settled

LEMMA NoStreamOK ==
  ASSUME NEW n \in Nat, NEW m \in Nat
  PROVE  StreamOK(NoStream, n, m) /\ NoStream.state = "none" /\ NoStream.id = Home
BY WebAssumption DEF StreamOK, NoStream, Stream, Home

LEMMA NewStreamOK ==
  ASSUME NEW n \in Nat, NEW m \in Nat, NEW id \in Ids \cup {Home}, id <= n,
         NEW cursor \in LineIds \cup {0}, cursor <= m
  PROVE  LET s == NewStream(id, cursor)
         IN  /\ StreamOK(s, n, m) /\ s.state = "connecting" /\ s.id = id /\ s.cursor = cursor
             /\ s \in Stream /\ s.failures = 0
<1>1. NoStream \in Stream /\ NoStream.failures = 0
  BY WebAssumption DEF NoStream, Stream, Home
<1> QED
  BY <1>1 DEF StreamOK, NewStream, Stream

LEMMA NoReadOK ==
  ASSUME NEW n \in Nat, NEW m \in Nat
  PROVE  ReadOK(NoRead, n, m) /\ NoRead.id = Home
BY DEF ReadOK, NoRead, Read, Home

LEMMA NoActionOK ==
  ASSUME NEW n \in Nat
  PROVE  ActionOK(NoAction, n) /\ ActionOK(Unread, n) /\ Unread.state = "unread"
BY DEF ActionOK, NoAction, Unread, Action, Home

\* More deployments and lines change nothing of that.
LEMMA StillOK ==
  ASSUME NEW n \in Nat, NEW m \in Nat, NEW more \in Nat, NEW longer \in Nat, n <= more, m <= longer
  PROVE  /\ \A p : PageOK(p, n, m) => PageOK(p, more, longer)
         /\ \A s : StreamOK(s, n, m) => StreamOK(s, more, longer)
         /\ \A r : ReadOK(r, n, m) => ReadOK(r, more, longer)
         /\ \A a : ActionOK(a, n) => ActionOK(a, more)
         /\ \A e : EffectOK(e, n) => EffectOK(e, more)
<1> USE WebAssumption DEF Ids, Home, LineIds
<1>1. \A p : PageOK(p, n, m) => PageOK(p, more, longer)
  BY DEF PageOK, Page
<1>2. \A s : StreamOK(s, n, m) => StreamOK(s, more, longer)
  BY DEF StreamOK, Stream
<1>3. \A r : ReadOK(r, n, m) => ReadOK(r, more, longer)
  BY DEF ReadOK, Read
<1>4. \A a : ActionOK(a, n) => ActionOK(a, more)
  BY DEF ActionOK, Action
<1>5. \A e : EffectOK(e, n) => EffectOK(e, more)
  BY DEF EffectOK
<1> QED
  BY <1>1, <1>2, <1>3, <1>4, <1>5

LEMMA LinesOfIs ==
  ASSUME NEW d, NEW after, NEW n \in Nat
  PROVE  LinesOf(d, after, n) \in SUBSET (1 .. n)
BY DEF LinesOf

-------------------------------------------------------------------------------
\* Every step keeps the types.

LEMMA WebStarts == Init => WebInv
<1> SUFFICES ASSUME Init PROVE WebInv
  OBVIOUS
<1> USE WebAssumption
<1>1. /\ rows \in Seq(Statuses) /\ Len(rows) = 0
      /\ table \in Seq(1 .. Len(rows)) /\ Len(table) = 0
  BY DEF Init
<1>2. Home \in Ids \cup {Home} /\ Home <= 0
  BY DEF Home
<1>3. PageOK(page, Len(rows), Len(table)) /\ page.transport = "stream"
  BY <1>1, <1>2, NewPageOK DEF Init
<1>4. EffectOK(effect, Len(rows))
  BY <1>3, EffectIs DEF Init, PageOK
<1>5. StreamOK(stream, Len(rows), Len(table))
  BY <1>1, NoStreamOK DEF Init
<1>6. reads \in [Reads -> Read] /\ \A r \in Reads : ReadOK(reads[r], Len(rows), Len(table))
  <2>1. ReadOK(NoRead, Len(rows), Len(table)) /\ NoRead \in Read
    BY <1>1, NoReadOK DEF ReadOK
  <2> QED
    BY <2>1 DEF Init
<1>7. ActionOK(action, Len(rows))
  BY <1>1, NoActionOK DEF Init
<1>8. DropsOK
  BY DEF DropsOK, Init
<1>9. ApiOK
  BY <1>1 DEF ApiOK
<1> QED
  BY <1>3, <1>4, <1>5, <1>6, <1>7, <1>8, <1>9 DEF WebInv, PollsAlone

\* The api's part and the zone's, which nothing else can disturb.
LEMMA ApiGrows ==
  ASSUME WebInv, rows' \in Seq(Statuses), Len(rows') <= MaxDeployments, Len(rows) <= Len(rows'),
         table' \in Seq(1 .. Len(rows')), Len(table') <= MaxLines, Len(table) <= Len(table'),
         DropsOK', UNCHANGED pageVars
  PROVE  WebInv'
<1>1. Len(rows) \in Nat /\ Len(rows') \in Nat /\ Len(table) \in Nat /\ Len(table') \in Nat
  BY DEF WebInv, ApiOK
<1>2. page' = page /\ effect' = effect /\ stream' = stream /\ reads' = reads /\ action' = action
  BY DEF pageVars
<1>3. /\ PageOK(page', Len(rows'), Len(table')) /\ EffectOK(effect', Len(rows'))
      /\ StreamOK(stream', Len(rows'), Len(table')) /\ ActionOK(action', Len(rows'))
      /\ \A r \in Reads : ReadOK(reads'[r], Len(rows'), Len(table'))
  BY <1>1, <1>2, StillOK DEF WebInv
<1>4. ApiOK'
  BY DEF ApiOK
<1>5. PollsAlone'
  BY <1>2 DEF WebInv, PollsAlone
<1> QED
  BY <1>2, <1>3, <1>4, <1>5 DEF WebInv

\* More deployments do not change what lines are.
LEMMA RowsGrow ==
  ASSUME ApiOK, NEW status \in Statuses, Len(rows) < MaxDeployments
  PROVE  /\ Append(rows, status) \in Seq(Statuses) /\ Len(Append(rows, status)) = Len(rows) + 1
         /\ Len(rows) \in Nat /\ Len(table) \in Nat
         /\ Len(rows) + 1 <= MaxDeployments
         /\ table \in Seq(1 .. Len(rows) + 1)
         /\ Len(rows) + 1 \in Ids
<1> USE WebAssumption
<1>1. Len(rows) \in Nat /\ rows \in Seq(Statuses) /\ table \in Seq(1 .. Len(rows))
  BY DEF ApiOK
<1>2. 1 .. Len(rows) \subseteq 1 .. Len(rows) + 1
  BY <1>1
<1>3. table \in Seq(1 .. Len(rows) + 1)
  BY <1>1, <1>2
<1>4. Append(rows, status) \in Seq(Statuses) /\ Len(Append(rows, status)) = Len(rows) + 1
  BY <1>1
<1>5. Len(table) \in Nat
  BY <1>1
<1> QED
  BY <1>1, <1>3, <1>4, <1>5 DEF Ids

LEMMA ApiStepTyped ==
  ASSUME WebInv, ApiStep
  PROVE  WebInv'
<1>1. PICK d \in 1 .. Len(rows) : Build(d) \/ WriteLine(d)
  BY DEF ApiStep
<1>2. ApiOK /\ DropsOK /\ Len(rows) \in Nat /\ Len(table) \in Nat
  BY DEF WebInv, ApiOK
<1>3. DropsOK' /\ UNCHANGED pageVars
  BY <1>1, <1>2 DEF DropsOK, Build, WriteLine, dropVars
<1>4. CASE Build(d)
  <2>1. PICK status \in Statuses : rows' = [rows EXCEPT ![d] = status] /\ table' = table
    BY <1>4 DEF Build, Statuses
  <2>2. rows' \in Seq(Statuses) /\ Len(rows') = Len(rows)
    BY <1>2, <2>1 DEF ApiOK
  <2>3. /\ Len(rows') <= MaxDeployments /\ Len(rows) <= Len(rows')
        /\ table' \in Seq(1 .. Len(rows')) /\ Len(table') <= MaxLines /\ Len(table) <= Len(table')
    BY <1>2, <2>1, <2>2 DEF ApiOK
  <2> QED
    BY <1>3, <2>2, <2>3, ApiGrows
<1>5. CASE WriteLine(d)
  <2>1. table' = Append(table, d) /\ rows' = rows /\ Len(table) < MaxLines
    BY <1>5 DEF WriteLine
  <2>2. table' \in Seq(1 .. Len(rows')) /\ Len(table') = Len(table) + 1
    BY <1>2, <2>1 DEF ApiOK
  <2>3. Len(table') <= MaxLines /\ Len(table) <= Len(table')
    BY <1>2, <2>1, <2>2, WebAssumption
  <2>4. rows' \in Seq(Statuses) /\ Len(rows') <= MaxDeployments /\ Len(rows) <= Len(rows')
    BY <1>2, <2>1 DEF ApiOK
  <2> QED
    BY <1>3, <2>2, <2>3, <2>4, ApiGrows
<1> QED
  BY <1>1, <1>4, <1>5

LEMMA DropStepTyped ==
  ASSUME WebInv, NEW d \in Drops, Drop(d) \/ Accept(d) \/ Packed(d) \/ FailDrop(d)
  PROVE  WebInv'
<1>1. DropsOK /\ ApiOK /\ Len(rows) \in Nat /\ Len(table) \in Nat
  BY DEF WebInv, ApiOK
<1>2. DropsOK'
  <2>1. \A next \in {"packing", "uploading"} : ZoneShows(next) \in {"idle", "packing", "uploading"}
    BY DEF ZoneShows
  <2>2. PICK next \in {"none", "reading", "packing", "uploading"} : drops' = [drops EXCEPT ![d] = next]
    BY DEF Drop, Accept, Packed, FailDrop
  <2>3. stage' \in {"idle", "packing", "uploading"}
    BY <1>1, <2>1 DEF Drop, Accept, Packed, FailDrop, DropsOK
  <2> QED
    BY <1>1, <2>2, <2>3 DEF DropsOK
<1>3. rows' = rows /\ table' = table /\ UNCHANGED pageVars
  BY DEF Drop, Accept, Packed, FailDrop, apiVars
<1> QED
  BY <1>1, <1>2, <1>3, ApiGrows DEF ApiOK

LEMMA DeployedTyped ==
  ASSUME WebInv, NEW d \in Drops, Deployed(d)
  PROVE  WebInv'
<1> DEFINE n == Len(rows)
           m == Len(table)
<1>1. /\ rows' = Append(rows, "QUEUED") /\ n < MaxDeployments /\ table' = table
      /\ drops' = [drops EXCEPT ![d] = "none"] /\ stage' = "idle"
      /\ page' = [page EXCEPT !.id = Len(rows')]
      /\ UNCHANGED <<effect, stream, reads, action>>
  BY DEF Deployed
<1>2. /\ rows' \in Seq(Statuses) /\ Len(rows') = n + 1 /\ n \in Nat /\ m \in Nat
      /\ n + 1 <= MaxDeployments /\ table' \in Seq(1 .. Len(rows')) /\ n + 1 \in Ids
  <2>1. "QUEUED" \in Statuses
    BY DEF Statuses
  <2> QED
    BY <1>1, <2>1, RowsGrow DEF WebInv
<1>3. PageOK(page, n + 1, m) /\ EffectOK(effect, n + 1) /\ StreamOK(stream, n + 1, m)
      /\ ActionOK(action, n + 1) /\ \A r \in Reads : ReadOK(reads[r], n + 1, m)
  BY <1>2, StillOK DEF WebInv
<1> HIDE DEF n, m
<1>4. PageOK(page', n + 1, m) /\ page'.transport = page.transport
  <2>1. page' = [page EXCEPT !.id = n + 1] /\ n + 1 \in Ids /\ page \in Page
    BY <1>1, <1>2, <1>3 DEF PageOK
  <2>2. /\ page' \in Page /\ page'.id = n + 1 /\ page'.transport = page.transport
        /\ page'.last = page.last /\ page'.lines = page.lines
    BY <2>1 DEF Page
  <2> QED
    BY <1>2, <1>3, <2>2 DEF PageOK
<1>5. DropsOK'
  BY <1>1 DEF WebInv, DropsOK
<1>6. ApiOK' /\ Len(rows') = n + 1 /\ Len(table') = m
  <2>1. Len(table') = m /\ Len(table) <= MaxLines
    BY <1>1 DEF WebInv, ApiOK, m
  <2>2. Len(table') <= MaxLines
    BY <1>1 DEF WebInv, ApiOK
  <2> QED
    BY <1>2, <2>1, <2>2 DEF ApiOK
<1>7. PollsAlone'
  BY <1>1, <1>4 DEF WebInv, PollsAlone
<1> QED
  BY <1>1, <1>3, <1>4, <1>5, <1>6, <1>7 DEF WebInv

\* A step of the page: the api is as it was.
LEMMA PageStepTyped ==
  ASSUME WebInv, UNCHANGED <<apiVars, dropVars>>,
         PageOK(page', Len(rows), Len(table)), EffectOK(effect', Len(rows)),
         StreamOK(stream', Len(rows), Len(table)), PollsAlone',
         reads' \in [Reads -> Read], \A r \in Reads : ReadOK(reads'[r], Len(rows), Len(table)),
         ActionOK(action', Len(rows))
  PROVE  WebInv'
<1>1. rows' = rows /\ table' = table /\ drops' = drops /\ stage' = stage
  BY DEF apiVars, dropVars
<1>2. ApiOK' /\ DropsOK'
  BY <1>1 DEF WebInv, ApiOK, DropsOK
<1> QED
  BY <1>1, <1>2 DEF WebInv

LEMMA WebSizes ==
  ASSUME WebInv
  PROVE  /\ Len(rows) \in Nat /\ Len(table) \in Nat /\ Len(table) <= MaxLines
         /\ Len(rows) <= MaxDeployments
         /\ page \in Page /\ stream \in Stream /\ action \in Action
         /\ \A r \in Reads : reads[r] \in Read
         /\ page.id <= Len(rows) /\ page.last <= Len(table)
BY DEF WebInv, ApiOK, PageOK, StreamOK, ActionOK

\* One read is another.
LEMMA ReadSet ==
  ASSUME WebInv, NEW r \in Reads, NEW read, ReadOK(read, Len(rows), Len(table)),
         reads' = [reads EXCEPT ![r] = read]
  PROVE  reads' \in [Reads -> Read] /\ \A x \in Reads : ReadOK(reads'[x], Len(rows), Len(table))
BY DEF WebInv, ReadOK

LEMMA NewReadOK ==
  ASSUME NEW n, NEW m, NEW id \in Ids \cup {Home}, id <= n, NEW after \in LineIds \cup {0},
         after <= m, NEW held \in BOOLEAN
  PROVE  LET read == [NoRead EXCEPT !.id = id, !.after = after, !.held = held]
         IN  ReadOK(read, n, m) /\ read.id = id /\ read.after = after /\ read.got = "none"
<1>1. NoRead \in Read /\ NoRead.got = "none"
  BY DEF NoRead, Read, Home
<1> QED
  BY <1>1 DEF ReadOK, Read

LEMMA ResetOK ==
  ASSUME WebInv
  PROVE  PageOK(Reset, Len(rows), Len(table)) /\ Reset.id = page.id
<1>1. Len(rows) \in Nat /\ Len(table) \in Nat /\ page.id \in Ids \cup {Home} /\ page.id <= Len(rows)
  BY WebSizes DEF Page
<1>2. PageOK(NewPage(page.id), Len(rows), Len(table)) /\ NewPage(page.id).id = page.id
  BY <1>1, NewPageOK
<1> QED
  BY <1>2 DEF Reset, WebInv

LEMMA RunEffectsTyped ==
  ASSUME WebInv, RunEffects
  PROVE  WebInv'
<1> DEFINE n == Len(rows)
           m == Len(table)
<1>1. n \in Nat /\ m \in Nat
  BY WebSizes
<1>2. PageOK(page', n, m) /\ page' = Reset
  BY ResetOK DEF RunEffects
<1>3. EffectOK(effect', n)
  BY <1>2, EffectIs DEF RunEffects, PageOK
<1>4. StreamOK(stream', n, m) /\ (page'.transport = "poll" => stream'.state = "none")
  <2>1. CASE Reset.transport = "stream" /\ ~Settled(Reset)
    <3>1. stream' = NewStream(Reset.id, Reset.last)
      BY <2>1 DEF RunEffects
    <3>2. /\ Reset.id \in Ids \cup {Home} /\ Reset.id <= n
          /\ Reset.last \in LineIds \cup {0} /\ Reset.last <= m
      BY <1>2 DEF PageOK, Page
    <3> QED
      BY <1>1, <1>2, <2>1, <3>1, <3>2, NewStreamOK
  <2>2. CASE ~(Reset.transport = "stream" /\ ~Settled(Reset))
    <3>1. stream' = NoStream
      BY <2>2 DEF RunEffects
    <3> QED
      BY <1>1, <3>1, NoStreamOK
  <2> QED
    BY <2>1, <2>2
<1>5. reads' \in [Reads -> Read] /\ \A r \in Reads : ReadOK(reads'[r], n, m)
  <2>1. CASE effect.id = page.id
    BY <2>1 DEF RunEffects, WebInv
  <2>2. CASE effect.id # page.id
    <3>1. PICK r \in Reads : reads' = [reads EXCEPT ![r] = [NoRead EXCEPT !.id = page.id]]
      BY <2>2 DEF RunEffects
    <3>2. [NoRead EXCEPT !.id = page.id] \in Read
      BY WebSizes DEF NoRead, Read, Page, Home
    <3>3. ReadOK([NoRead EXCEPT !.id = page.id], n, m)
      BY <1>1, <3>2, WebSizes DEF ReadOK, NoRead, Read
    <3> QED
      BY <3>1, <3>3, ReadSet
  <2> QED
    BY <2>1, <2>2
<1>6. ActionOK(action', n) /\ UNCHANGED <<apiVars, dropVars>>
  BY DEF RunEffects, WebInv
<1> QED
  BY <1>2, <1>3, <1>4, <1>5, <1>6, PageStepTyped DEF PollsAlone

LEMMA AskedOK ==
  ASSUME WebInv, NEW r \in Reads, NEW id \in Ids \cup {Home}, id <= Len(rows), NEW held \in BOOLEAN,
         reads' = Asked(r, id, held)
  PROVE  reads' \in [Reads -> Read] /\ \A x \in Reads : ReadOK(reads'[x], Len(rows), Len(table))
<1> DEFINE read == [NoRead EXCEPT !.id = id, !.after = page.last, !.held = held]
<1>1. reads' = [reads EXCEPT ![r] = read]
  BY DEF Asked
<1>2. ReadOK(read, Len(rows), Len(table))
  BY NewReadOK, WebSizes DEF Page
<1> HIDE DEF read
<1> QED
  BY <1>1, <1>2, ReadSet

LEMMA ReadStepTyped ==
  ASSUME WebInv, ReadStep
  PROVE  WebInv'
<1> DEFINE n == Len(rows)
           m == Len(table)
<1>0. n \in Nat /\ m \in Nat /\ m <= MaxLines
  BY WebSizes
<1>1. PICK r \in Reads : Poll(r) \/ Get(r) \/ Refresh(r) \/ FailRefresh(r)
  BY DEF ReadStep
<1>2. CASE Poll(r)
  <2>1. reads' \in [Reads -> Read] /\ \A x \in Reads : ReadOK(reads'[x], n, m)
    BY <1>2, AskedOK DEF Poll, WebInv, EffectOK
  <2> QED
    BY <1>2, <2>1, PageStepTyped DEF Poll, WebInv, PollsAlone
<1>3. CASE Get(r)
  <2> DEFINE read == [reads[r] EXCEPT !.got = rows[reads[r].id]]
  <2>1. reads' = [reads EXCEPT ![r] = read]
    BY <1>3 DEF Get
  <2>2. ReadOK(reads[r], n, m) /\ reads[r].id # Home
    BY <1>3 DEF Get, WebInv
  <2>3. rows[reads[r].id] \in Statuses
    <3>1. reads[r].id \in 1 .. n
      BY <1>0, <2>2 DEF ReadOK, Read, Ids, Home
    <3> QED
      BY <3>1 DEF WebInv, ApiOK
  <2>4. ReadOK(read, n, m)
    BY <2>2, <2>3 DEF ReadOK, Read
  <2> HIDE DEF read
  <2>5. reads' \in [Reads -> Read] /\ \A x \in Reads : ReadOK(reads'[x], n, m)
    BY <2>1, <2>4, ReadSet
  <2> QED
    BY <1>3, <2>5, PageStepTyped DEF Get, WebInv, PollsAlone
<1>4. ASSUME Refresh(r) \/ FailRefresh(r)
      PROVE  /\ reads' \in [Reads -> Read] /\ \A x \in Reads : ReadOK(reads'[x], n, m)
             /\ ActionOK(action', n)
             /\ UNCHANGED <<apiVars, dropVars, effect, stream>>
  <2>1. reads' = [reads EXCEPT ![r] = NoRead] /\ UNCHANGED <<apiVars, dropVars, effect, stream>>
    BY <1>4 DEF Refresh, FailRefresh
  <2>2. ReadOK(NoRead, n, m)
    BY <1>0, NoReadOK
  <2>3. action' \in {action, NoAction, Unread}
    BY <1>4 DEF Refresh, FailRefresh, Released
  <2>4. ActionOK(action', n)
    BY <1>0, <2>3, NoActionOK DEF WebInv
  <2> QED
    BY <2>1, <2>2, <2>4, ReadSet
<1>5. CASE Refresh(r)
  <2>1. PICK k \in 0 .. m :
          page' = Appended(Showing(page, reads[r].id, reads[r].got),
                           LinesOf(reads[r].id, reads[r].after, k))
    BY <1>5 DEF Refresh
  <2>2. LinesOf(reads[r].id, reads[r].after, k) \in SUBSET (1 .. m)
    <3>1. \A l \in 1 .. k : l \in 1 .. m
      BY <1>0
    <3> QED
      BY <3>1 DEF LinesOf
  <2>3. reads[r].id \in Ids \cup {Home} /\ reads[r].got \in Statuses \cup {"none"}
    BY WebSizes DEF Read
  <2>4. /\ PageOK(Showing(page, reads[r].id, reads[r].got), n, m)
        /\ Showing(page, reads[r].id, reads[r].got).transport = page.transport
    BY <2>3, ShowingOK DEF WebInv
  <2>5. PageOK(page', n, m) /\ page'.transport = page.transport
    BY <1>0, <2>1, <2>2, <2>4, AppendedOK
  <2>6. stream' = stream /\ effect' = effect
    BY <1>5 DEF Refresh
  <2>7. EffectOK(effect', n) /\ StreamOK(stream', n, m) /\ PollsAlone'
    BY <2>5, <2>6 DEF WebInv, PollsAlone
  <2> QED
    BY <1>4, <1>5, <2>5, <2>7, PageStepTyped
<1>6. CASE FailRefresh(r)
  <2>1. page' = page /\ stream' = stream /\ effect' = effect
    BY <1>6 DEF FailRefresh
  <2>2. /\ PageOK(page', n, m) /\ EffectOK(effect', n) /\ StreamOK(stream', n, m) /\ PollsAlone'
    BY <2>1 DEF WebInv, PollsAlone
  <2> QED
    BY <1>4, <1>6, <2>2, PageStepTyped
<1> QED
  BY <1>1, <1>2, <1>3, <1>5, <1>6

\* What the stream does to the page and itself.
LEMMA StreamStepTyped ==
  ASSUME WebInv, StreamStep
  PROVE  WebInv'
<1> DEFINE n == Len(rows)
           m == Len(table)
<1>0. n \in Nat /\ m \in Nat /\ m <= MaxLines /\ stream \in Stream /\ StreamOK(stream, n, m)
  BY WebSizes DEF WebInv
<1>1. UNCHANGED <<apiVars, dropVars, effect, reads, action>>
  BY DEF StreamStep, Open, ReceiveLine, SendStatus, ReceiveStatus, Break, Refuse
<1>2. SUFFICES PageOK(page', n, m) /\ StreamOK(stream', n, m) /\ PollsAlone'
  <2>1. EffectOK(effect', n) /\ ActionOK(action', n)
    BY <1>1 DEF WebInv
  <2>2. reads' \in [Reads -> Read] /\ \A r \in Reads : ReadOK(reads'[r], n, m)
    BY <1>1 DEF WebInv
  <2> QED
    BY <1>1, <2>1, <2>2, PageStepTyped
<1> HIDE DEF n, m
<1>3. PageOK(page, n, m) /\ PollsAlone
  BY DEF WebInv, n, m
<1>4. CASE Open
  <2>1. stream' = [stream EXCEPT !.state = "open", !.failures = 0] /\ page' = page
        /\ stream.id # Home /\ stream.state = "connecting"
    BY <1>4 DEF Open
  <2>2. /\ stream' \in Stream /\ stream'.id = stream.id /\ stream'.cursor = stream.cursor
    <3>1. 0 \in 0 .. StreamAttempts - 1
      BY WebAssumption
    <3> QED
      BY <1>0, <2>1, <3>1 DEF Stream
  <2> QED
    BY <1>0, <1>3, <2>1, <2>2 DEF StreamOK, PollsAlone
<1>5. CASE ReceiveLine
  <2>1. PICK l \in LinesOf(stream.id, stream.cursor, Len(table)) :
          /\ page' = Appended(page, {l})
          /\ stream' = [stream EXCEPT !.cursor = l]
    BY <1>5 DEF ReceiveLine
  <2>2. l \in 1 .. m
    BY <1>0, <2>1 DEF LinesOf, m
  <2>3. PageOK(page', n, m) /\ page'.transport = page.transport
    <3>1. {l} \in SUBSET (1 .. m)
      BY <2>2
    <3> QED
      BY <1>0, <1>3, <2>1, <3>1, AppendedOK
  <2>4. /\ stream' \in Stream /\ stream'.id = stream.id /\ stream'.cursor = l
        /\ stream'.state = stream.state
    <3>1. l \in LineIds \cup {0}
      BY <1>0, <2>2, WebAssumption DEF LineIds
    <3> QED
      BY <1>0, <2>1, <3>1 DEF Stream
  <2> QED
    BY <1>0, <1>3, <2>2, <2>3, <2>4 DEF StreamOK, PollsAlone
<1>6. CASE SendStatus
  <2>1. /\ stream' = [stream EXCEPT !.told = rows[stream.id], !.telling = rows[stream.id]]
        /\ page' = page /\ stream.state = "open"
    BY <1>6 DEF SendStatus
  <2>2. rows[stream.id] \in Statuses
    <3>1. stream.id \in 1 .. Len(rows)
      BY <1>0, <2>1 DEF StreamOK, Stream, Ids, Home, n
    <3> QED
      BY <3>1 DEF WebInv, ApiOK
  <2>3. /\ stream' \in Stream /\ stream'.id = stream.id /\ stream'.cursor = stream.cursor
        /\ stream'.state = stream.state
    BY <1>0, <2>1, <2>2 DEF Stream
  <2> QED
    BY <1>0, <1>3, <2>1, <2>3 DEF StreamOK, PollsAlone
<1>7. CASE ReceiveStatus
  <2>1. /\ page' = Showing(page, stream.id, stream.telling)
        /\ stream' = [stream EXCEPT !.telling = "none"]
    BY <1>7 DEF ReceiveStatus
  <2>2. stream.id \in Ids \cup {Home} /\ stream.telling \in Statuses \cup {"none"}
    BY <1>0 DEF Stream
  <2>3. PageOK(page', n, m) /\ page'.transport = page.transport
    <3> DEFINE q == Showing(page, stream.id, stream.telling)
    <3>1. PageOK(q, n, m) /\ q.transport = page.transport
      BY <1>3, <2>2, ShowingOK
    <3> QED
      BY <2>1, <3>1
  <2>4. /\ stream' \in Stream /\ stream'.id = stream.id /\ stream'.cursor = stream.cursor
        /\ stream'.state = stream.state
    BY <1>0, <2>1 DEF Stream
  <2> QED
    BY <1>0, <1>3, <2>3, <2>4 DEF StreamOK, PollsAlone
<1>8. /\ PageOK(Failed, n, m) /\ Failed.id = page.id
      /\ Failed.transport = "poll" \/ Failed = page
  BY <1>3 DEF Failed, PageOK, Page
<1>9. CASE Break
  <2>1. /\ page' = Failed /\ stream.state \in {"connecting", "open"}
        /\ stream' = IF page' # page THEN NoStream
             ELSE [NewStream(stream.id, stream.cursor) EXCEPT !.failures = stream.failures + 1]
    BY <1>9 DEF Break
  <2>2. page.transport # "poll"
    BY <1>3, <2>1 DEF PollsAlone
  <2>3. CASE page' # page
    BY <1>0, <1>8, <2>1, <2>3, NoStreamOK DEF PollsAlone
  <2>4. CASE page' = page
    <3>1. ~(stream.failures + 1 >= StreamAttempts)
      <4> SUFFICES ASSUME stream.failures + 1 >= StreamAttempts PROVE FALSE
        OBVIOUS
      <4>1. page = [page EXCEPT !.transport = "poll"]
        BY <2>1, <2>4 DEF Failed
      <4>2. [page EXCEPT !.transport = "poll"].transport = "poll"
        BY <1>3 DEF PageOK, Page
      <4> QED
        BY <2>2, <4>1, <4>2
    <3>2. stream.failures + 1 \in 0 .. StreamAttempts - 1
      BY <1>0, <3>1, WebAssumption DEF Stream
    <3> DEFINE s == NewStream(stream.id, stream.cursor)
    <3>3. s \in Stream /\ s.state = "connecting" /\ s.id = stream.id /\ s.cursor = stream.cursor
      BY <1>0, NewStreamOK DEF StreamOK, Stream
    <3>4. stream' = [s EXCEPT !.failures = stream.failures + 1]
      BY <2>1, <2>4
    <3> HIDE DEF s
    <3>5. /\ stream' \in Stream /\ stream'.state = "connecting" /\ stream'.id = stream.id
          /\ stream'.cursor = stream.cursor
      BY <3>2, <3>3, <3>4 DEF Stream
    <3> QED
      BY <1>0, <1>3, <2>2, <2>4, <3>5 DEF StreamOK, PollsAlone
  <2> QED
    BY <2>3, <2>4
<1>10. CASE Refuse
  <2>1. page' = Failed /\ stream' = [NoStream EXCEPT !.state = "refused"]
    BY <1>10 DEF Refuse
  <2>2. NoStream \in Stream /\ NoStream.id = Home /\ NoStream.cursor = 0
    BY <1>0, NoStreamOK DEF StreamOK, NoStream
  <2>3. /\ stream' \in Stream /\ stream'.id = Home /\ stream'.cursor = 0
        /\ stream'.state = "refused"
    BY <2>1, <2>2 DEF Stream
  <2> QED
    BY <1>0, <1>8, <2>1, <2>3 DEF StreamOK, PollsAlone, Home
<1> QED
  BY <1>4, <1>5, <1>6, <1>7, <1>9, <1>10 DEF StreamStep

LEMMA PerformTyped ==
  ASSUME WebInv, Perform
  PROVE  WebInv'
<1> DEFINE n == Len(rows)
           m == Len(table)
<1>1. /\ action \in Action /\ action.id \in 1 .. n /\ n \in Nat /\ m \in Nat
      /\ ActionOK(action, n) /\ action.state = "asked" /\ n <= MaxDeployments
      /\ UNCHANGED <<table, drops, stage, page, effect, stream, reads>>
  BY WebSizes DEF Perform, WebInv, ActionOK, Action, Ids, Home, dropVars
<1>2. CASE action.kind \in {"cancel", "retry"}
  <2>1. PICK status \in Statuses : rows' = [rows EXCEPT ![action.id] = status]
    BY <1>2 DEF Perform, Statuses
  <2>2. action' = [action EXCEPT !.state = "done", !.answer = action.id, !.status = rows'[action.id]]
    BY <1>2 DEF Perform
  <2>3. rows' \in Seq(Statuses) /\ Len(rows') = n /\ rows'[action.id] = status
    BY <1>1, <2>1 DEF WebInv, ApiOK
  <2>4. /\ action' \in Action /\ action'.id = action.id /\ action'.answer = action.id
    <3>1. action.id \in Ids \cup {Home}
      BY <1>1 DEF Action
    <3> QED
      BY <1>1, <2>2, <2>3, <3>1 DEF Action
  <2>5. ActionOK(action', n)
    BY <1>1, <2>4 DEF ActionOK
  <2>6. ApiOK' /\ DropsOK'
    BY <1>1, <2>3 DEF WebInv, ApiOK, DropsOK
  <2>7. Len(rows') = n /\ Len(table') = m
    BY <1>1, <2>3
  <2>8. /\ PageOK(page', n, m) /\ EffectOK(effect', n) /\ StreamOK(stream', n, m) /\ PollsAlone'
        /\ reads' \in [Reads -> Read] /\ \A r \in Reads : ReadOK(reads'[r], n, m)
    BY <1>1 DEF WebInv, PollsAlone
  <2> HIDE DEF n, m
  <2> QED
    BY <2>5, <2>6, <2>7, <2>8 DEF WebInv
<1>3. CASE action.kind = "redeploy" /\ action.kind \notin {"cancel", "retry"}
  <2>1. /\ n < MaxDeployments /\ rows' = Append(rows, "QUEUED")
        /\ action' = [action EXCEPT !.state = "done", !.answer = Len(rows'), !.status = "QUEUED"]
    BY <1>3 DEF Perform
  <2>2. /\ rows' \in Seq(Statuses) /\ Len(rows') = n + 1 /\ n + 1 <= MaxDeployments
        /\ table' \in Seq(1 .. Len(rows')) /\ n + 1 \in Ids /\ "QUEUED" \in Statuses
    <3>1. "QUEUED" \in Statuses
      BY DEF Statuses
    <3> QED
      BY <1>1, <2>1, <3>1, RowsGrow DEF WebInv
  <2>3. /\ PageOK(page, n + 1, m) /\ EffectOK(effect, n + 1) /\ StreamOK(stream, n + 1, m)
        /\ ActionOK(action, n + 1) /\ \A r \in Reads : ReadOK(reads[r], n + 1, m)
    BY <1>1, StillOK DEF WebInv
  <2>4. /\ action' \in Action /\ action'.id = action.id /\ action'.answer = n + 1
    BY <1>1, <2>1, <2>2 DEF Action
  <2>5. ActionOK(action', n + 1)
    BY <1>1, <2>3, <2>4 DEF ActionOK
  <2>6. ApiOK' /\ DropsOK'
    BY <1>1, <2>2 DEF WebInv, ApiOK, DropsOK
  <2>7. Len(rows') = n + 1 /\ Len(table') = m
    BY <1>1, <2>2
  <2>8. PollsAlone' /\ reads' \in [Reads -> Read]
    BY <1>1 DEF WebInv, PollsAlone
  <2> HIDE DEF n, m
  <2> QED
    BY <1>1, <2>3, <2>5, <2>6, <2>7, <2>8 DEF WebInv
<1> QED
  BY <1>2, <1>3 DEF Perform

LEMMA ActionStepTyped ==
  ASSUME WebInv, ActionStep
  PROVE  WebInv'
<1> DEFINE n == Len(rows)
           m == Len(table)
<1>0. /\ n \in Nat /\ m \in Nat /\ action \in Action /\ ActionOK(action, n) /\ PageOK(page, n, m)
      /\ page.id \in Ids \cup {Home} /\ page.id <= n
  BY WebSizes DEF WebInv, PageOK, Page
<1>1. ASSUME UNCHANGED <<apiVars, dropVars, effect, stream>>, PageOK(page', n, m),
             page'.transport = page.transport, ActionOK(action', n),
             reads' \in [Reads -> Read], \A r \in Reads : ReadOK(reads'[r], n, m)
      PROVE  WebInv'
  <2>1. EffectOK(effect', n) /\ StreamOK(stream', n, m) /\ PollsAlone'
    BY <1>1 DEF WebInv, PollsAlone
  <2> QED
    BY <1>1, <2>1, PageStepTyped
<1>2. ASSUME reads' = reads
      PROVE  reads' \in [Reads -> Read] /\ \A r \in Reads : ReadOK(reads'[r], n, m)
  BY <1>2 DEF WebInv
<1> HIDE DEF n, m
<1>3. ASSUME NEW kind \in Kinds, Click(kind) PROVE WebInv'
  <2>1. /\ action' = [NoAction EXCEPT !.kind = kind, !.id = page.id, !.state = "asked"]
        /\ page.id # Home /\ UNCHANGED <<apiVars, dropVars, page, effect, stream, reads>>
    BY <1>3 DEF Click
  <2>2. NoAction \in Action /\ NoAction.answer = Home
    BY DEF NoAction, Action
  <2>3. action' \in Action /\ action'.id = page.id /\ action'.answer = Home
    BY <1>0, <2>1, <2>2 DEF Action
  <2>4. ActionOK(action', n)
    BY <1>0, <2>1, <2>3 DEF ActionOK, Home
  <2> QED
    BY <1>0, <1>1, <1>2, <2>1, <2>4
<1>4. CASE FailAction
  <2>1. /\ action' = [action EXCEPT !.state = "failed", !.answer = Home, !.status = "none"]
        /\ action.state \in {"asked", "done"}
        /\ UNCHANGED <<apiVars, dropVars, page, effect, stream, reads>>
    BY <1>4 DEF FailAction
  <2>2. action' \in Action /\ action'.id = action.id /\ action'.answer = Home
    BY <1>0, <2>1 DEF Action
  <2>3. ActionOK(action', n)
    BY <1>0, <2>1, <2>2 DEF ActionOK, Home
  <2> QED
    BY <1>0, <1>1, <1>2, <2>1, <2>3
<1>5. CASE ApplyAction
  <2>1. /\ page' = IF action.kind = "redeploy" THEN [page EXCEPT !.id = action.answer]
                   ELSE Showing(page, action.answer, action.status)
        /\ action' = NoAction /\ UNCHANGED <<apiVars, dropVars, effect, stream, reads>>
    BY <1>5 DEF ApplyAction
  <2>2. action.answer \in Ids \cup {Home} /\ action.status \in Statuses \cup {"none"} /\ action.answer <= n
    BY <1>0 DEF Action, ActionOK
  <2>3. PageOK(page', n, m) /\ page'.transport = page.transport
    <3>1. CASE action.kind = "redeploy"
      <4>1. page' = [page EXCEPT !.id = action.answer] /\ page \in Page
        BY <1>0, <2>1, <3>1 DEF PageOK
      <4>2. /\ page' \in Page /\ page'.id = action.answer /\ page'.transport = page.transport
            /\ page'.last = page.last /\ page'.lines = page.lines
        BY <2>2, <4>1 DEF Page
      <4> QED
        BY <1>0, <2>2, <4>2 DEF PageOK
    <3>2. CASE action.kind # "redeploy"
      <4> DEFINE q == Showing(page, action.answer, action.status)
      <4>1. PageOK(q, n, m) /\ q.transport = page.transport
        BY <1>0, <2>2, ShowingOK
      <4> QED
        BY <2>1, <3>2, <4>1
    <3> QED
      BY <3>1, <3>2
  <2>4. ActionOK(action', n)
    BY <1>0, <2>1, NoActionOK
  <2> QED
    BY <1>1, <1>2, <2>1, <2>3, <2>4
<1>6. ASSUME NEW r \in Reads, RefreshAfter(r) PROVE WebInv'
  <2>1. /\ reads' = Asked(r, action.id, TRUE) /\ action' = [action EXCEPT !.state = "refreshing"]
        /\ action.state = "failed" /\ UNCHANGED <<apiVars, dropVars, page, effect, stream>>
    BY <1>6 DEF RefreshAfter
  <2>2. action' \in Action /\ action'.id = action.id /\ action'.answer = action.answer
    BY <1>0, <2>1 DEF Action
  <2>3. ActionOK(action', n)
    BY <1>0, <2>1, <2>2 DEF ActionOK
  <2>4. reads' \in [Reads -> Read] /\ \A x \in Reads : ReadOK(reads'[x], n, m)
    <3>1. action.id \in Ids \cup {Home} /\ action.id <= Len(rows)
      BY <1>0 DEF ActionOK, Action, n
    <3> QED
      BY <2>1, <3>1, AskedOK DEF n, m
  <2> QED
    BY <1>0, <1>1, <2>1, <2>3, <2>4
<1> QED
  BY <1>3, <1>4, <1>5, <1>6, PerformTyped DEF ActionStep

LEMMA WebStaysTyped ==
  ASSUME WebInv, [Next]_vars
  PROVE  WebInv'
<1>1. CASE UNCHANGED vars
  BY <1>1 DEF vars, apiVars, dropVars, pageVars, WebInv, ApiOK, DropsOK, PollsAlone
<1>2. CASE Next
  BY <1>2, ApiStepTyped, DropStepTyped, DeployedTyped, RunEffectsTyped, ReadStepTyped,
     StreamStepTyped, ActionStepTyped
  DEF Next, DropStep
<1> QED
  BY <1>1, <1>2

\* A page, its stream, its reads and its action are never about a deployment or a line
\* that the api does not have, and a page that polls has no stream that is alive.
THEOREM WebTypeCorrect == Spec => []WebTypeOK
<1> QED
  BY WebStarts, WebStaysTyped, WebInvIsTyped, PTL DEF Spec

-------------------------------------------------------------------------------
\* As long as answers come in order: whatever is under way is about the deployment of
\* the page, and reads on from where the page is, unless an effect is yet to come; and
\* the page has what it has read.

IsTrue(p) ==
  /\ \A l \in 1 .. p.last : table[l] = p.id => l \in p.lines
  /\ p.id # Home => p.deployment \in {p.id, Home} /\ \A l \in p.lines : table[l] = p.id

ReadFollows(r) ==
  r.id # Home => r.id = page.id /\ effect.id = page.id /\ r.after <= page.last

ActionFollows ==
  /\ ~NonePending => action.id = page.id /\ effect.id = page.id
  /\ action.state = "done" /\ action.kind # "redeploy" => action.answer = action.id

StreamFollows ==
  /\ stream.id \in {Home, effect.id}
  /\ stream.id # Home /\ effect.id = page.id => stream.cursor <= page.last

Follows ==
  /\ \A r \in Reads : ReadFollows(reads[r])
  /\ ActionFollows /\ StreamFollows
  /\ effect.id = page.id => IsTrue(page)

LEMMA FollowsIs ==
  ASSUME Follows
  PROVE  LinesHaveNoGap /\ PageShowsItsOwn
BY DEF Follows, IsTrue, LinesHaveNoGap, PageShowsItsOwn

LEMMA NoneOfThese == /\ NoAction.state = "none" /\ Unread.state = "unread"
                     /\ NoRead.id = Home /\ NoStream.id = Home
BY DEF NoAction, Unread, NoRead, NoStream

\* Lines of its own, and none left out, keep a page true.
LEMMA AppendKeepsTrue ==
  ASSUME WebInv, IsTrue(page), NEW p, PageOK(p, Len(rows), Len(table)),
         p.id = page.id, p.lines = page.lines, p.last = page.last,
         p.deployment \in {page.deployment, page.id},
         NEW incoming \in SUBSET (1 .. Len(table)),
         \A l \in incoming : table[l] = page.id,
         \A l \in 1 .. Len(table), k \in incoming :
           page.last < l /\ l <= k /\ table[l] = page.id => l \in incoming
  PROVE  LET q == Appended(p, incoming)
         IN  IsTrue(q) /\ q.id = page.id /\ page.last <= q.last /\ \A k \in incoming : k <= q.last
<1> DEFINE q == Appended(p, incoming)
<1>1. /\ PageOK(q, Len(rows), Len(table)) /\ q.id = page.id /\ q.deployment = p.deployment
      /\ q.lines = page.lines \cup incoming /\ q.last \in {page.last} \cup incoming
      /\ \A k \in {page.last} \cup incoming : k <= q.last
      /\ Len(table) \in Nat
  BY AppendedOK, WebSizes
<1> HIDE DEF q
<1>2. page.last \in Nat /\ page.last <= Len(table)
  BY WebSizes, WebAssumption DEF Page, LineIds
<1>3. ASSUME NEW l \in 1 .. q.last, table[l] = page.id
      PROVE  l \in q.lines
  <2>1. CASE l \in 1 .. page.last
    BY <1>1, <1>3, <2>1 DEF IsTrue
  <2>2. CASE l \notin 1 .. page.last
    <3>1. q.last \in incoming /\ q.last \in 1 .. Len(table)
      BY <1>1, <1>2, <2>2
    <3>2. page.last < l /\ l <= q.last /\ l \in 1 .. Len(table)
      BY <1>1, <1>2, <2>2, <3>1
    <3> QED
      BY <1>1, <1>3, <3>1, <3>2
  <2> QED
    BY <2>1, <2>2
<1>4. page.id # Home => q.deployment \in {page.id, Home} /\ \A l \in q.lines : table[l] = page.id
  BY <1>1 DEF IsTrue
<1>5. IsTrue(q)
  BY <1>1, <1>3, <1>4 DEF IsTrue
<1> QED
  BY <1>1, <1>5 DEF q

LEMMA FollowsFromStart == Init => Follows
<1> SUFFICES ASSUME Init PROVE Follows
  OBVIOUS
<1>1. page.id = Home /\ page.last = 0 /\ page.lines = {} /\ stream.id = Home
  BY DEF Init, NewPage, NoStream
<1>2. \A r \in Reads : reads[r].id = Home
  BY NoneOfThese DEF Init
<1>3. NonePending /\ action.state = "none"
  BY NoneOfThese DEF Init, NonePending
<1> QED
  BY <1>1, <1>2, <1>3 DEF Follows, IsTrue, ReadFollows, ActionFollows, StreamFollows

\* Lines are written, and drops go their way.
LEMMA ApiStepFollows ==
  ASSUME WebInv, Follows, UNCHANGED pageVars,
         \A l \in 1 .. Len(table) : table'[l] = table[l]
  PROVE  Follows'
<1>1. page' = page /\ effect' = effect /\ stream' = stream /\ reads' = reads /\ action' = action
  BY DEF pageVars
<1>2. page.lines \subseteq 1 .. Len(table) /\ 1 .. page.last \subseteq 1 .. Len(table)
  <2>1. page.last \in Nat /\ page.last <= Len(table) /\ Len(table) \in Nat
    BY WebSizes, WebAssumption DEF Page, LineIds
  <2> QED
    BY <2>1 DEF WebInv, PageOK
<1>3. IsTrue(page) => IsTrue(page)'
  BY <1>1, <1>2 DEF IsTrue
<1>4. ActionFollows' /\ StreamFollows' /\ \A r \in Reads : ReadFollows(reads[r])'
  BY <1>1 DEF Follows, ActionFollows, StreamFollows, ReadFollows, NonePending
<1> QED
  BY <1>1, <1>3, <1>4 DEF Follows

LEMMA DropStepFollows ==
  ASSUME AnswersInOrder, WebInv, Follows, ApiStep \/ DropStep
  PROVE  Follows'
<1>1. CASE ApiStep
  <2>1. PICK d \in 1 .. Len(rows) : Build(d) \/ WriteLine(d)
    BY <1>1 DEF ApiStep
  <2>2. table' \in {table, Append(table, d)} /\ UNCHANGED pageVars
    BY <2>1 DEF Build, WriteLine
  <2>3. \A l \in 1 .. Len(table) : table'[l] = table[l]
    BY <2>2 DEF WebInv, ApiOK
  <2> QED
    BY <2>2, <2>3, ApiStepFollows
<1>2. ASSUME NEW d \in Drops, Drop(d) \/ Accept(d) \/ Packed(d) \/ FailDrop(d)
      PROVE  Follows'
  <2>1. table' = table /\ UNCHANGED pageVars
    BY <1>2 DEF Drop, Accept, Packed, FailDrop, apiVars
  <2> QED
    BY <2>1, ApiStepFollows
<1>3. ASSUME NEW d \in Drops, Deployed(d)
      PROVE  Follows'
  <2>1. /\ rows' = Append(rows, "QUEUED") /\ page' = [page EXCEPT !.id = Len(rows')]
        /\ UNCHANGED <<effect, stream, reads, action>>
        /\ NonePending /\ \A r \in Reads : reads[r].id = Home
    BY <1>3 DEF Deployed, NothingPending, NothingRead
  <2>2. page'.id = Len(rows) + 1
    BY <2>1 DEF WebInv, ApiOK, PageOK, Page
  <2>3. effect'.id # page'.id
    BY <2>1, <2>2, WebSizes DEF WebInv, EffectOK, Ids, Home
  <2>4. NonePending' /\ action' = action /\ stream' = stream /\ effect' = effect /\ reads' = reads
    BY <2>1 DEF NonePending
  <2>5. ActionFollows' /\ StreamFollows' /\ \A r \in Reads : ReadFollows(reads[r])'
    BY <2>1, <2>3, <2>4 DEF Follows, ActionFollows, StreamFollows, ReadFollows
  <2> QED
    BY <2>3, <2>5 DEF Follows
<1> QED
  BY <1>1, <1>2, <1>3 DEF DropStep

LEMMA RunEffectsFollows ==
  ASSUME AnswersInOrder, WebInv, Follows, RunEffects
  PROVE  Follows'
<1>1. /\ page' = Reset /\ effect' = Effect(Reset) /\ action' = action /\ table' = table
      /\ page'.id = page.id /\ effect'.id = page.id
  <2>1. page' = Reset /\ effect' = Effect(Reset) /\ action' = action /\ table' = table
    BY DEF RunEffects, apiVars
  <2>2. Reset.id = page.id
    BY ResetOK
  <2> QED
    BY <2>1, <2>2 DEF Effect
<1>2. Len(rows) \in Nat /\ Len(table) \in Nat /\ page.id \in Ids \cup {Home} /\ page.id <= Len(rows)
  BY WebSizes DEF Page
<1>3. NonePending' <=> NonePending
  BY <1>1 DEF NonePending
<1>4. ActionFollows'
  BY <1>1, <1>3 DEF Follows, ActionFollows
<1>5. StreamFollows'
  <2>1. CASE Reset.transport = "stream" /\ ~Settled(Reset)
    <3>1. stream' = NewStream(Reset.id, Reset.last)
      BY <2>1 DEF RunEffects
    <3>2. stream'.id = Reset.id /\ stream'.cursor = Reset.last
      BY <3>1 DEF NewStream, NoStream
    <3>3. Reset.last \in Nat
      BY ResetOK, WebAssumption DEF PageOK, Page, LineIds
    <3> QED
      BY <1>1, <3>2, <3>3 DEF StreamFollows
  <2>2. CASE ~(Reset.transport = "stream" /\ ~Settled(Reset))
    <3>1. stream' = NoStream
      BY <2>2 DEF RunEffects
    <3> QED
      BY <3>1, NoneOfThese DEF StreamFollows
  <2> QED
    BY <2>1, <2>2
<1>6. CASE effect.id = page.id
  <2>1. page' = page /\ reads' = reads
    BY <1>1, <1>6 DEF RunEffects, Reset
  <2>2. IsTrue(page)'
    BY <1>1, <1>6, <2>1 DEF Follows, IsTrue
  <2>3. \A r \in Reads : ReadFollows(reads[r])'
    BY <1>1, <1>6, <2>1 DEF Follows, ReadFollows
  <2> QED
    BY <1>4, <1>5, <2>2, <2>3 DEF Follows
<1>7. CASE effect.id # page.id
  <2>1. page' = NewPage(page.id)
    BY <1>1, <1>7 DEF Reset
  <2>2. page'.last = 0 /\ page'.lines = {} /\ page'.deployment = Home
    BY <1>2, <2>1, NewPageOK
  <2>3. IsTrue(page)'
    BY <2>2 DEF IsTrue
  <2>4. PICK r \in Reads : reads' = [reads EXCEPT ![r] = [NoRead EXCEPT !.id = page.id]]
    BY <1>7 DEF RunEffects
  <2>5. \A x \in Reads : reads[x].id = Home
    BY <1>7 DEF Follows, ReadFollows
  <2>6. [NoRead EXCEPT !.id = page.id].id = page.id /\ [NoRead EXCEPT !.id = page.id].after = 0
    BY DEF NoRead
  <2>7. ASSUME NEW x \in Reads PROVE ReadFollows(reads[x])'
    <3>1. reads'[x] = IF x = r THEN [NoRead EXCEPT !.id = page.id] ELSE reads[x]
      BY <2>4 DEF WebInv
    <3> QED
      BY <1>1, <2>2, <2>5, <2>6, <3>1 DEF ReadFollows
  <2> QED
    BY <1>4, <1>5, <2>3, <2>7 DEF Follows
<1> QED
  BY <1>6, <1>7

LEMMA ReadStepFollows ==
  ASSUME AnswersInOrder, WebInv, Follows, ReadStep
  PROVE  Follows'
<1>1. PICK r \in Reads : Poll(r) \/ Get(r) \/ Refresh(r) \/ FailRefresh(r)
  BY DEF ReadStep
<1>2. /\ Len(table) \in Nat /\ page.last \in Nat /\ page \in Page /\ reads \in [Reads -> Read]
      /\ reads[r].after \in Nat /\ PageOK(page, Len(rows), Len(table))
      /\ reads[r].id \in Ids \cup {Home} /\ reads[r].got \in Statuses \cup {"none"}
  BY WebSizes, WebAssumption DEF Page, LineIds, WebInv, Read
<1>3. CASE Poll(r)
  <2> DEFINE read == [NoRead EXCEPT !.id = effect.id, !.after = page.last, !.held = FALSE]
  <2>1. /\ reads' = [reads EXCEPT ![r] = read] /\ effect.id = page.id
        /\ UNCHANGED <<table, page, effect, stream, action>>
    BY <1>3 DEF Poll, Asked, apiVars
  <2>2. read.id = effect.id /\ read.after = page.last
    BY DEF NoRead
  <2> HIDE DEF read
  <2>3. ASSUME NEW x \in Reads PROVE ReadFollows(reads[x])'
    <3>1. reads'[x] = IF x = r THEN read ELSE reads[x]
      BY <1>2, <2>1
    <3> QED
      BY <1>2, <2>1, <2>2, <3>1 DEF Follows, ReadFollows
  <2> QED
    BY <2>1, <2>3 DEF Follows, ActionFollows, NonePending, StreamFollows, IsTrue
<1>4. CASE Get(r)
  <2> DEFINE read == [reads[r] EXCEPT !.got = rows[reads[r].id]]
  <2>1. reads' = [reads EXCEPT ![r] = read] /\ UNCHANGED <<table, page, effect, stream, action>>
    BY <1>4 DEF Get, apiVars
  <2>2. read.id = reads[r].id /\ read.after = reads[r].after
    BY <1>2 DEF Read
  <2> HIDE DEF read
  <2>3. ASSUME NEW x \in Reads PROVE ReadFollows(reads[x])'
    <3>1. reads'[x] = IF x = r THEN read ELSE reads[x]
      BY <1>2, <2>1
    <3> QED
      BY <2>1, <2>2, <3>1 DEF Follows, ReadFollows
  <2> QED
    BY <2>1, <2>3 DEF Follows, ActionFollows, NonePending, StreamFollows, IsTrue
<1>5. ASSUME Refresh(r) \/ FailRefresh(r), page'.id = page.id, page'.last \in Nat, page.last <= page'.last
      PROVE  /\ \A x \in Reads : ReadFollows(reads[x])'
             /\ ActionFollows' /\ StreamFollows'
  <2>1. /\ reads' = [reads EXCEPT ![r] = NoRead] /\ action' \in {action, NoAction, Unread}
        /\ effect' = effect /\ stream' = stream
    BY <1>5 DEF Refresh, FailRefresh, Released
  <2>2. ASSUME NEW x \in Reads PROVE ReadFollows(reads[x])'
    <3>1. reads'[x] = IF x = r THEN NoRead ELSE reads[x]
      BY <1>2, <2>1
    <3>2. reads[x].after \in Nat
      BY WebSizes, WebAssumption DEF Read, LineIds
    <3> QED
      BY <1>2, <1>5, <2>1, <3>1, <3>2, NoneOfThese DEF Follows, ReadFollows
  <2>3. ActionFollows'
    BY <1>5, <2>1, NoneOfThese DEF Follows, ActionFollows, NonePending
  <2>4. StreamFollows'
    <3>1. stream.cursor \in Nat
      BY WebSizes, WebAssumption DEF Stream, LineIds
    <3> QED
      BY <1>2, <1>5, <2>1, <3>1 DEF Follows, StreamFollows
  <2> QED
    BY <2>2, <2>3, <2>4
<1>6. CASE Refresh(r)
  <2>1. PICK k \in 0 .. Len(table) :
          page' = Appended(Showing(page, reads[r].id, reads[r].got),
                           LinesOf(reads[r].id, reads[r].after, k))
    BY <1>6 DEF Refresh
  <2>2. reads[r].id = page.id /\ effect.id = page.id /\ reads[r].after <= page.last
    BY <1>6 DEF Refresh, Follows, ReadFollows
  <2> DEFINE new == LinesOf(reads[r].id, reads[r].after, k)
             p == Showing(page, reads[r].id, reads[r].got)
  <2>3. /\ PageOK(p, Len(rows), Len(table)) /\ p.id = page.id /\ p.deployment = page.id
        /\ p.lines = page.lines /\ p.last = page.last
    <3>1. PageOK(p, Len(rows), Len(table))
      BY <1>2, ShowingOK
    <3>2. /\ p.id = page.id /\ p.deployment = reads[r].id
          /\ p.lines = page.lines /\ p.last = page.last
      BY <1>2 DEF Showing, Page
    <3> HIDE DEF p
    <3> QED
      BY <2>2, <3>1, <3>2
  <2>4. /\ new \in SUBSET (1 .. Len(table)) /\ \A l \in new : table[l] = page.id
        /\ \A l \in 1 .. Len(table), j \in new :
             page.last < l /\ l <= j /\ table[l] = page.id => l \in new
    <3>1. \A l : l \in new <=> l \in 1 .. k /\ table[l] = page.id /\ l > reads[r].after
      BY <2>2 DEF LinesOf
    <3>2. \A l \in new : l \in 1 .. Len(table)
      BY <1>2, <3>1
    <3> HIDE DEF new
    <3>3. new \in SUBSET (1 .. Len(table))
      BY <3>2
    <3>4. ASSUME NEW l \in 1 .. Len(table), NEW j \in new, page.last < l, l <= j, table[l] = page.id
          PROVE  l \in new
      BY <1>2, <2>2, <3>1, <3>4
    <3> QED
      BY <3>1, <3>3, <3>4
  <2>5. IsTrue(page)
    BY <2>2 DEF Follows
  <2> HIDE DEF new, p
  <2>6. PageOK(Appended(p, new), Len(rows), Len(table))
    BY <1>2, <2>3, <2>4, AppendedOK, WebSizes
  <2>7. /\ IsTrue(Appended(p, new)) /\ Appended(p, new).id = page.id
        /\ page.last <= Appended(p, new).last
    BY <2>3, <2>4, <2>5, AppendKeepsTrue
  <2>8. page' = Appended(p, new) /\ table' = table /\ effect' = effect
    BY <1>6, <2>1 DEF p, new, Refresh, apiVars
  <2>9. IsTrue(page)'
    BY <2>7, <2>8 DEF IsTrue
  <2>10. page'.last \in Nat
    BY <2>6, <2>8, WebAssumption DEF PageOK, Page, LineIds
  <2> QED
    BY <1>5, <1>6, <2>7, <2>8, <2>9, <2>10 DEF Follows
<1>7. CASE FailRefresh(r)
  <2>1. page' = page /\ table' = table /\ effect' = effect
    BY <1>7 DEF FailRefresh, apiVars
  <2>2. effect'.id = page'.id => IsTrue(page)'
    BY <2>1 DEF Follows, IsTrue
  <2> QED
    BY <1>2, <1>5, <1>7, <2>1, <2>2 DEF Follows
<1> QED
  BY <1>1, <1>3, <1>4, <1>6, <1>7

LEMMA StreamStepFollows ==
  ASSUME AnswersInOrder, WebInv, Follows, StreamStep
  PROVE  Follows'
<1>1. /\ UNCHANGED <<table, effect, reads, action>>
      /\ Len(table) \in Nat /\ page.last \in Nat /\ page \in Page /\ stream \in Stream
      /\ stream.cursor \in Nat /\ PageOK(page, Len(rows), Len(table))
      /\ stream.id \in Ids \cup {Home}
  <2>1. UNCHANGED <<table, effect, reads, action>>
    BY DEF StreamStep, Open, ReceiveLine, SendStatus, ReceiveStatus, Break, Refuse, apiVars
  <2> QED
    BY <2>1, WebSizes, WebAssumption DEF Page, LineIds, WebInv, Stream
\* What follows as long as the page stays where it is, and reads on.
<1>2. ASSUME page'.id = page.id, page'.last \in Nat, page.last <= page'.last
      PROVE  ActionFollows' /\ \A x \in Reads : ReadFollows(reads[x])'
  <2>1. ActionFollows'
    BY <1>1, <1>2 DEF Follows, ActionFollows, NonePending
  <2>2. ASSUME NEW x \in Reads PROVE ReadFollows(reads[x])'
    <3>1. reads[x].after \in Nat
      BY WebSizes, WebAssumption DEF Read, LineIds
    <3> QED
      BY <1>1, <1>2, <3>1 DEF Follows, ReadFollows
  <2> QED
    BY <2>1, <2>2
<1>3. CASE Open \/ SendStatus
  <2>1. page' = page /\ stream'.id = stream.id /\ stream'.cursor = stream.cursor
    BY <1>1, <1>3 DEF Open, SendStatus, Stream
  <2>2. StreamFollows' /\ (effect'.id = page'.id => IsTrue(page)')
    BY <1>1, <2>1 DEF Follows, StreamFollows, IsTrue
  <2> QED
    BY <1>1, <1>2, <2>1, <2>2 DEF Follows
<1>4. CASE ReceiveLine
  <2>1. PICK l \in LinesOf(stream.id, stream.cursor, Len(table)) :
          /\ \A k \in LinesOf(stream.id, stream.cursor, Len(table)) : l <= k
          /\ page' = Appended(page, {l})
          /\ stream' = [stream EXCEPT !.cursor = l]
    BY <1>4 DEF ReceiveLine
  <2>2. l \in 1 .. Len(table) /\ table[l] = stream.id /\ l > stream.cursor
    BY <2>1 DEF LinesOf
  <2>3. {l} \in SUBSET (1 .. Len(table))
    BY <2>2
  <2>4. PageOK(page', Len(rows), Len(table)) /\ page'.id = page.id /\ page.last <= page'.last /\ l <= page'.last
    BY <1>1, <2>1, <2>3, AppendedOK, WebSizes
  <2>5. page'.last \in Nat
    BY <2>4, WebAssumption DEF PageOK, Page, LineIds
  <2>6. stream'.id = stream.id /\ stream'.cursor = l
    BY <1>1, <2>1 DEF Stream
  <2>7. StreamFollows'
    BY <1>1, <2>4, <2>6 DEF Follows, StreamFollows
  <2>8. ASSUME effect.id = page.id PROVE IsTrue(page)'
    <3>1. stream.id = page.id
      <4>1. stream.id # Home
        BY <1>4 DEF ReceiveLine, WebInv, StreamOK
      <4> QED
        BY <2>8, <4>1 DEF Follows, StreamFollows
    <3>2. stream.cursor <= page.last
      <4>1. stream.id # Home
        BY <1>4 DEF ReceiveLine, WebInv, StreamOK
      <4> QED
        BY <2>8, <4>1 DEF Follows, StreamFollows
    <3>3. \A k \in 1 .. Len(table), j \in {l} :
            page.last < k /\ k <= j /\ table[k] = page.id => k \in {l}
      <4> SUFFICES ASSUME NEW k \in 1 .. Len(table), page.last < k, k <= l, table[k] = page.id
                   PROVE  k = l
        OBVIOUS
      <4>1. k \in LinesOf(stream.id, stream.cursor, Len(table))
        BY <1>1, <3>1, <3>2 DEF LinesOf
      <4> QED
        BY <1>1, <2>1, <2>2, <4>1
    <3>4. IsTrue(page)
      BY <2>8 DEF Follows
    <3>5. IsTrue(Appended(page, {l}))
      BY <1>1, <2>2, <2>3, <3>1, <3>3, <3>4, AppendKeepsTrue
    <3> QED
      BY <1>1, <2>1, <3>5 DEF IsTrue
  <2> QED
    BY <1>1, <1>2, <2>4, <2>5, <2>7, <2>8 DEF Follows
<1>5. CASE ReceiveStatus
  <2>1. page' = Showing(page, stream.id, stream.telling) /\ stream' = [stream EXCEPT !.telling = "none"]
    BY <1>5 DEF ReceiveStatus
  <2>2. /\ page'.id = page.id /\ page'.deployment = stream.id
        /\ page'.lines = page.lines /\ page'.last = page.last
    BY <1>1, <2>1 DEF Showing, Page
  <2>3. stream'.id = stream.id /\ stream'.cursor = stream.cursor
    BY <1>1, <2>1 DEF Stream
  <2>4. StreamFollows'
    BY <1>1, <2>2, <2>3 DEF Follows, StreamFollows
  <2>5. effect'.id = page'.id => IsTrue(page)'
    BY <1>1, <2>2 DEF Follows, StreamFollows, IsTrue
  <2> QED
    BY <1>1, <1>2, <2>2, <2>4, <2>5 DEF Follows
<1>6. CASE Break \/ Refuse
  <2>1. page' = Failed
    BY <1>6 DEF Break, Refuse
  <2>2. /\ page'.id = page.id /\ page'.deployment = page.deployment
        /\ page'.lines = page.lines /\ page'.last = page.last
    BY <1>1, <2>1 DEF Failed, Page
  <2>3. \/ stream'.id = Home
        \/ stream'.id = stream.id /\ stream'.cursor = stream.cursor
    <3>1. CASE Refuse
      <4>1. stream' = [NoStream EXCEPT !.state = "refused"]
        BY <3>1 DEF Refuse
      <4>2. NoStream \in Stream
        BY NoStreamOK, WebSizes DEF StreamOK
      <4>3. stream'.id = NoStream.id
        BY <4>1, <4>2 DEF Stream
      <4> QED
        BY <4>3, NoneOfThese
    <3>2. CASE Break
      <4> DEFINE s == NewStream(stream.id, stream.cursor)
      <4>1. s \in Stream /\ s.id = stream.id /\ s.cursor = stream.cursor
        BY NewStreamOK, WebSizes DEF WebInv, StreamOK, Stream
      <4>2. stream' = NoStream \/ stream' = [s EXCEPT !.failures = stream.failures + 1]
        BY <3>2 DEF Break
      <4> HIDE DEF s
      <4>3. [s EXCEPT !.failures = stream.failures + 1].id = s.id
            /\ [s EXCEPT !.failures = stream.failures + 1].cursor = s.cursor
        BY <4>1 DEF Stream
      <4> QED
        <5>1. stream' = NoStream => stream'.id = Home
          BY NoneOfThese
        <5> QED
          BY <4>1, <4>2, <4>3, <5>1
    <3> QED
      BY <1>6, <3>1, <3>2
  <2>4. StreamFollows'
    BY <1>1, <2>2, <2>3 DEF Follows, StreamFollows
  <2>5. effect'.id = page'.id => IsTrue(page)'
    BY <1>1, <2>2 DEF Follows, IsTrue
  <2> QED
    BY <1>1, <1>2, <2>2, <2>4, <2>5 DEF Follows
<1> QED
  BY <1>3, <1>4, <1>5, <1>6 DEF StreamStep

LEMMA ActionStepFollows ==
  ASSUME AnswersInOrder, WebInv, Follows, ActionStep
  PROVE  Follows'
<1>1. /\ UNCHANGED <<table, effect, stream>> /\ page \in Page /\ action \in Action
      /\ page.last \in Nat /\ reads \in [Reads -> Read]
  <2>1. UNCHANGED <<table, effect, stream>>
    BY DEF ActionStep, Click, Perform, FailAction, ApplyAction, RefreshAfter, apiVars
  <2> QED
    BY <2>1, WebSizes, WebAssumption DEF Page, LineIds, WebInv
\* What follows as long as the page stays as it is.
<1>2. ASSUME page' = page
      PROVE  StreamFollows' /\ (effect'.id = page'.id => IsTrue(page)')
  BY <1>1, <1>2 DEF Follows, StreamFollows, IsTrue
<1>3. ASSUME page' = page, reads' = reads
      PROVE  \A x \in Reads : ReadFollows(reads[x])'
  BY <1>1, <1>3 DEF Follows, ReadFollows
<1>4. ASSUME NEW kind \in Kinds, Click(kind) PROVE Follows'
  <2>1. /\ action' = [NoAction EXCEPT !.kind = kind, !.id = page.id, !.state = "asked"]
        /\ page' = page /\ reads' = reads /\ effect = Effect(page)
    BY <1>4 DEF Click, UpToDate
  <2>2. action'.id = page.id /\ action'.state = "asked" /\ effect.id = page.id
    BY <2>1 DEF NoAction, Effect
  <2>3. ActionFollows'
    BY <1>1, <2>1, <2>2 DEF ActionFollows
  <2> QED
    BY <1>2, <1>3, <2>1, <2>3 DEF Follows
<1>5. ASSUME action.state \notin {"none", "unread"}
      PROVE  action.id = page.id /\ effect.id = page.id
  BY <1>5, NoneOfThese DEF Follows, ActionFollows, NonePending
<1>6. CASE Perform
  <2>1. page' = page /\ reads' = reads /\ action.state = "asked"
    BY <1>6 DEF Perform
  <2>2. /\ action'.id = action.id
        /\ action'.kind = action.kind
        /\ action.kind # "redeploy" => action'.answer = action.id
    BY <1>1, <1>6 DEF Perform, Action
  <2>3. ActionFollows'
    BY <1>1, <1>5, <2>1, <2>2 DEF ActionFollows
  <2> QED
    BY <1>2, <1>3, <2>1, <2>3 DEF Follows
<1>7. CASE FailAction
  <2>1. /\ page' = page /\ reads' = reads /\ action.state \in {"asked", "done"}
        /\ action' = [action EXCEPT !.state = "failed", !.answer = Home, !.status = "none"]
    BY <1>7 DEF FailAction
  <2>2. action'.id = action.id /\ action'.state = "failed"
    BY <1>1, <2>1 DEF Action
  <2>3. ActionFollows'
    BY <1>1, <1>5, <2>1, <2>2 DEF ActionFollows
  <2> QED
    BY <1>2, <1>3, <2>1, <2>3 DEF Follows
<1>8. CASE ApplyAction
  <2>1. /\ action.state = "done" /\ action' = NoAction /\ reads' = reads
        /\ page' = IF action.kind = "redeploy" THEN [page EXCEPT !.id = action.answer]
                   ELSE Showing(page, action.answer, action.status)
        /\ action.kind = "redeploy" => \A r \in Reads : reads[r].id = Home
    BY <1>8 DEF ApplyAction, NothingRead
  <2>2. ActionFollows'
    BY <2>1, NoneOfThese DEF ActionFollows, NonePending
  <2>3. action.id = page.id /\ effect.id = page.id
    BY <1>5, <2>1
  <2>4. CASE action.kind = "redeploy"
    <3>1. page'.id = action.answer /\ (action.answer = page.id => page' = page)
      BY <1>1, <2>1, <2>4 DEF Page
    <3>2. \A x \in Reads : ReadFollows(reads[x])'
      BY <2>1, <2>4 DEF ReadFollows
    <3>3. CASE action.answer = page.id
      BY <1>2, <2>2, <3>1, <3>2, <3>3 DEF Follows
    <3>4. CASE action.answer # page.id
      <4>1. effect'.id # page'.id
        BY <1>1, <2>3, <3>1, <3>4
      <4>2. StreamFollows'
        BY <1>1, <4>1 DEF Follows, StreamFollows
      <4> QED
        BY <2>2, <3>2, <4>1, <4>2 DEF Follows
    <3> QED
      BY <3>3, <3>4
  <2>5. CASE action.kind # "redeploy"
    <3>1. /\ page'.id = page.id /\ page'.deployment = page.id
          /\ page'.lines = page.lines /\ page'.last = page.last
      BY <1>1, <2>1, <2>3, <2>5 DEF Follows, ActionFollows, Showing, Page
    <3>2. \A x \in Reads : ReadFollows(reads[x])'
      BY <1>1, <2>1, <3>1 DEF Follows, ReadFollows
    <3>3. StreamFollows' /\ (effect'.id = page'.id => IsTrue(page)')
      BY <1>1, <3>1 DEF Follows, StreamFollows, IsTrue
    <3> QED
      BY <2>2, <3>2, <3>3 DEF Follows
  <2> QED
    BY <2>4, <2>5
<1>9. ASSUME NEW r \in Reads, RefreshAfter(r) PROVE Follows'
  <2> DEFINE read == [NoRead EXCEPT !.id = action.id, !.after = page.last, !.held = TRUE]
  <2>1. /\ action.state = "failed" /\ action' = [action EXCEPT !.state = "refreshing"]
        /\ page' = page /\ reads' = [reads EXCEPT ![r] = read]
    BY <1>9 DEF RefreshAfter, Asked
  <2>2. read.id = action.id /\ read.after = page.last
    BY DEF NoRead
  <2> HIDE DEF read
  <2>3. action'.id = action.id /\ action'.state = "refreshing"
    BY <1>1, <2>1 DEF Action
  <2>4. ActionFollows'
    BY <1>1, <1>5, <2>1, <2>3 DEF ActionFollows
  <2>5. ASSUME NEW x \in Reads PROVE ReadFollows(reads[x])'
    <3>1. reads'[x] = IF x = r THEN read ELSE reads[x]
      BY <1>1, <2>1
    <3> QED
      BY <1>1, <1>5, <2>1, <2>2, <3>1 DEF Follows, ReadFollows
  <2> QED
    BY <1>2, <2>1, <2>4, <2>5 DEF Follows
<1> QED
  BY <1>4, <1>6, <1>7, <1>8, <1>9 DEF ActionStep

LEMMA WebStaysFollowing ==
  ASSUME AnswersInOrder, WebInv, Follows, [Next]_vars
  PROVE  Follows'
<1>1. CASE UNCHANGED vars
  <2>1. UNCHANGED pageVars /\ table' = table
    BY <1>1 DEF vars, apiVars
  <2> QED
    BY <2>1, ApiStepFollows
<1>2. CASE Next
  BY <1>2, DropStepFollows, RunEffectsFollows, ReadStepFollows, StreamStepFollows, ActionStepFollows
  DEF Next
<1> QED
  BY <1>1, <1>2

LEMMA PagesFollow ==
  ASSUME AnswersInOrder
  PROVE  Spec => [](WebInv /\ Follows)
<1>1. Init => WebInv /\ Follows
  BY WebStarts, FollowsFromStart
<1>2. (WebInv /\ Follows) /\ [Next]_vars => (WebInv /\ Follows)'
  BY WebStaysTyped, WebStaysFollowing
<1> QED
  BY <1>1, <1>2, PTL DEF Spec

\* appendLogs and the cursors of the stream and of polling: as long as answers come in
\* order, a page has every line of its deployment up to where it reads on.
THEOREM NoLineIsSkipped ==
  ASSUME AnswersInOrder
  PROVE  Spec => []LinesHaveNoGap
<1>1. WebInv /\ Follows => LinesHaveNoGap
  BY FollowsIs
<1> QED
  BY <1>1, PagesFollow, PTL

\* useDeployment, when the page goes from one deployment to another: as long as answers
\* come in order, it shows nothing of any but its own.
THEOREM NothingStrangeIsShown ==
  ASSUME AnswersInOrder
  PROVE  Spec => []PageShowsItsOwn
<1>1. WebInv /\ Follows => PageShowsItsOwn
  BY FollowsIs
<1> QED
  BY <1>1, PagesFollow, PTL
===============================================================================
