-------------------------- MODULE SiteServingProofs --------------------------
(***************************************************************************)
(* Proofs about SiteServing, for any number of sites and visitors, any     *)
(* lifetime of entries and any size of the cache.                          *)
(***************************************************************************)
EXTENDS SiteServing, SequenceTheorems, TLAPS

-------------------------------------------------------------------------------
\* The inductive invariant, one site, visitor and entry at a time.

\* The times of a site fit its status.
SiteIsSound(site, now) ==
  /\ site.status = "pending" => site.ready = Never /\ site.gone = Never
  /\ site.status = "READY" => site.ready # Never /\ site.ready <= now /\ site.gone = Never
  /\ site.status = "EXPIRED" =>
       /\ site.gone # Never /\ site.gone <= now
       /\ site.ready = Never \/ site.ready <= site.gone

\* A visitor whose objects are looked for: the site was live less than a minute
\* before he asked, or later; and index.html is the last resort.
Fetchable(request, site) ==
  /\ site.ready # Never
  /\ site.gone = Never \/ site.gone > request.began - Ttl
  /\ request.keys # <<>> /\ request.keys[Len(request.keys)] = "index.html"

RequestIsSound(request, all, now) ==
  /\ request.began <= now
  /\ request.phase # "idle" => request.site \in Deployments
  /\ request.phase = "reading" => Held(all[request.site], request.status, request.began)
  /\ request.phase = "fetching" => Fetchable(request, all[request.site])
  /\ request.phase = "answered" => Timely(request, all[request.site])

EntryIsSound(entry, all, now) ==
  entry.readAt <= now /\ Held(all[entry.site], entry.status, entry.readAt)

ServingInv ==
  /\ ServingTypeOK
  /\ \A d \in Deployments : SiteIsSound(sites[d], clock)
  /\ \A r \in Requests : RequestIsSound(requests[r], sites, clock)
  /\ \A i \in 1 .. Len(cache) : EntryIsSound(cache[i], sites, clock)

-------------------------------------------------------------------------------
\* What happens to a site.

\* The steps of SiteStep, and none.
Moved(site, after, now) ==
  \/ after = site
  \/ /\ site.status = "pending"
     /\ after = [site EXCEPT !.status = "READY", !.stored = Objects, !.ready = now]
  \/ /\ site.status = "READY"
     /\ \E left \in (SUBSET site.stored) \ {site.stored} : after = [site EXCEPT !.stored = left]
  \/ /\ site.status \in {"pending", "READY"}
     /\ after = [site EXCEPT !.status = "EXPIRED", !.gone = now]

\* Times are numbers, and Never is none.
LEMMA TimesAreNumbers == \A t \in Times : t \in Nat /\ t # Never
  BY ServingAssumption DEF Times

LEMMA MovesKeepSites ==
  ASSUME NEW now \in Times, NEW s \in Site, NEW u, SiteIsSound(s, now), Moved(s, u, now)
  PROVE  u \in Site /\ SiteIsSound(u, now)
<1>1. /\ s.status \in Statuses /\ s.stored \in SUBSET Objects
      /\ s.ready \in Times \cup {Never} /\ s.gone \in Times \cup {Never}
  BY DEF Site
<1>2. CASE u = s
  BY <1>2
<1>3. CASE /\ s.status = "pending"
           /\ u = [s EXCEPT !.status = "READY", !.stored = Objects, !.ready = now]
  <2>1. /\ u \in Site /\ u.status = "READY" /\ u.ready = now /\ u.gone = s.gone
    BY <1>1, <1>3 DEF Site, Statuses
  <2> QED
    BY <1>3, <2>1, TimesAreNumbers DEF SiteIsSound
<1>4. CASE /\ s.status = "READY"
           /\ \E left \in (SUBSET s.stored) \ {s.stored} : u = [s EXCEPT !.stored = left]
  <2>1. u \in Site /\ u.status = s.status /\ u.ready = s.ready /\ u.gone = s.gone
    BY <1>1, <1>4 DEF Site
  <2> QED
    BY <2>1 DEF SiteIsSound
<1>5. CASE /\ s.status \in {"pending", "READY"}
           /\ u = [s EXCEPT !.status = "EXPIRED", !.gone = now]
  <2>1. u \in Site /\ u.status = "EXPIRED" /\ u.ready = s.ready /\ u.gone = now
    BY <1>1, <1>5 DEF Site, Statuses
  <2> QED
    BY <1>5, <2>1, TimesAreNumbers DEF SiteIsSound
<1> QED
  BY <1>2, <1>3, <1>4, <1>5 DEF Moved

\* What once was true of a site stays so.
LEMMA HeldIsKept ==
  ASSUME NEW now \in Times, NEW s \in Site, NEW u, SiteIsSound(s, now), Moved(s, u, now),
         NEW t \in Times, t <= now, NEW status, Held(s, status, t)
  PROVE  Held(u, status, t)
<1>1. \/ u = s
      \/ u.ready = now /\ s.ready = Never /\ s.gone = Never /\ u.gone = s.gone
      \/ u.ready = s.ready /\ u.gone = s.gone
      \/ u.ready = s.ready /\ u.gone = now /\ s.gone = Never
  BY DEF Moved, Site, SiteIsSound
<1> QED
  BY <1>1, TimesAreNumbers DEF Held

\* What a visitor was told in time was told in time.
LEMMA TimelyIsKept ==
  ASSUME NEW now \in Times, NEW s \in Site, NEW u, SiteIsSound(s, now), Moved(s, u, now),
         NEW q \in Request, q.began <= now, Timely(q, s)
  PROVE  Timely(q, u)
<1>1. q.began \in Times /\ Ttl \in Nat /\ Ttl > 0 /\ now > q.began - Ttl
  BY ServingAssumption, TimesAreNumbers DEF Request
<1>2. CASE u = s
  BY <1>2
<1>3. CASE /\ s.status = "pending"
           /\ u = [s EXCEPT !.status = "READY", !.stored = Objects, !.ready = now]
  <2>1. s.ready = Never /\ u.ready = now /\ u.gone = s.gone
    BY <1>3 DEF Site, SiteIsSound
  <2> QED
    BY <1>1, <1>3, <2>1, TimesAreNumbers DEF Timely
<1>4. CASE /\ s.status = "READY"
           /\ \E left \in (SUBSET s.stored) \ {s.stored} : u = [s EXCEPT !.stored = left]
  <2>1. u.ready = s.ready /\ u.gone = s.gone /\ u.status = s.status
    BY <1>4 DEF Site
  <2>2. PICK left \in (SUBSET s.stored) \ {s.stored} : u = [s EXCEPT !.stored = left]
    BY <1>4
  <2>3. u.stored = left
    BY <2>2 DEF Site
  <2>4. s.stored \subseteq Objects
    BY DEF Site
  <2>5. left \subseteq s.stored /\ left # s.stored
    BY <2>2
  <2>6. u.stored # Objects
    BY <2>3, <2>4, <2>5
  <2> QED
    BY <2>1, <2>6 DEF Timely
<1>5. CASE /\ s.status \in {"pending", "READY"}
           /\ u = [s EXCEPT !.status = "EXPIRED", !.gone = now]
  <2>1. u.ready = s.ready /\ u.gone = now /\ u.stored = s.stored /\ u.status = "EXPIRED"
    BY <1>5 DEF Site
  <2> QED
    BY <1>1, <2>1 DEF Timely
<1> QED
  BY <1>2, <1>3, <1>4, <1>5 DEF Moved

\* What could be looked for can be looked for still.
LEMMA FetchableIsKept ==
  ASSUME NEW now \in Times, NEW s \in Site, NEW u, SiteIsSound(s, now), Moved(s, u, now),
         NEW q \in Request, q.began <= now, Fetchable(q, s)
  PROVE  Fetchable(q, u)
<1>1. q.began \in Times /\ Ttl \in Nat /\ Ttl > 0 /\ now > q.began - Ttl /\ now # Never
  BY ServingAssumption, TimesAreNumbers DEF Request
<1>2. /\ u.ready = s.ready \/ u.ready = now
      /\ u.gone = s.gone \/ u.gone = now
  BY DEF Moved, Site
<1> QED
  BY <1>1, <1>2 DEF Fetchable

\* So whatever happens to the sites, visitors and entries stay sound.
LEMMA MovesKeepAll ==
  ASSUME ServingInv, UNCHANGED <<clock, cache, requests>>, sites' \in [Deployments -> Site],
         \A d \in Deployments : Moved(sites[d], sites'[d], clock)
  PROVE  ServingInv'
<1>1. clock \in Times /\ sites \in [Deployments -> Site]
  BY DEF ServingInv, ServingTypeOK
<1>2. ASSUME NEW d \in Deployments PROVE SiteIsSound(sites'[d], clock')
  <2>1. sites[d] \in Site /\ SiteIsSound(sites[d], clock) /\ Moved(sites[d], sites'[d], clock)
    BY <1>1 DEF ServingInv
  <2>2. SiteIsSound(sites'[d], clock)
    BY <1>1, <2>1, MovesKeepSites
  <2> QED
    BY <2>2
<1>3. ASSUME NEW r \in Requests PROVE RequestIsSound(requests'[r], sites', clock')
  <2> DEFINE q == requests[r]
             s == sites[q.site]
             u == sites'[q.site]
  <2>1. q \in Request /\ RequestIsSound(q, sites, clock) /\ q.began \in Times
    BY DEF ServingInv, ServingTypeOK, Request
  <2>2. q.phase # "idle" => s \in Site /\ SiteIsSound(s, clock) /\ Moved(s, u, clock)
    BY <1>1, <2>1 DEF RequestIsSound, ServingInv
  <2>3. q.phase = "reading" => Held(u, q.status, q.began)
    BY <1>1, <2>1, <2>2, HeldIsKept DEF RequestIsSound
  <2>4. q.phase = "fetching" => Fetchable(q, u)
    BY <1>1, <2>1, <2>2, FetchableIsKept DEF RequestIsSound
  <2>5. q.phase = "answered" => Timely(q, u)
    BY <1>1, <2>1, <2>2, TimelyIsKept DEF RequestIsSound
  <2>6. RequestIsSound(q, sites', clock)
    BY <2>1, <2>3, <2>4, <2>5 DEF RequestIsSound
  <2> QED
    BY <2>6
<1>4. ASSUME NEW i \in 1 .. Len(cache) PROVE EntryIsSound(cache'[i], sites', clock')
  <2>1. cache[i] \in CacheEntry /\ EntryIsSound(cache[i], sites, clock)
    BY ElementOfSeq DEF ServingInv, ServingTypeOK
  <2>2. cache[i].site \in Deployments /\ cache[i].readAt \in Times
    BY <2>1 DEF CacheEntry
  <2>3. Held(sites'[cache[i].site], cache[i].status, cache[i].readAt)
    BY <1>1, <2>1, <2>2, HeldIsKept DEF EntryIsSound, ServingInv
  <2>4. EntryIsSound(cache[i], sites', clock)
    BY <2>1, <2>3 DEF EntryIsSound
  <2> QED
    BY <2>4
<1>5. ServingTypeOK'
  BY DEF ServingInv, ServingTypeOK
<1> QED
  BY <1>2, <1>3, <1>4, <1>5 DEF ServingInv

-------------------------------------------------------------------------------
\* What the cache does.

LEMMA TailIsSound ==
  ASSUME NEW S, NEW seq \in Seq(S), seq # <<>>
  PROVE  /\ Tail(seq) \in Seq(S) /\ Len(Tail(seq)) = Len(seq) - 1 /\ Len(seq) \in Nat
         /\ \A i \in 1 .. Len(Tail(seq)) : i + 1 \in 1 .. Len(seq) /\ Tail(seq)[i] = seq[i + 1]
<1>1. Tail(seq) \in Seq(S) /\ Len(Tail(seq)) = Len(seq) - 1
  BY HeadTailProperties
<1>2. Len(seq) \in Nat
  BY LenProperties
<1>3. Tail(seq) = SubSeq(seq, 2, Len(seq))
  BY TailIsSubSeq
<1>4. \A i \in 2 .. Len(seq) : seq[i] \in S
  BY <1>2, ElementOfSeq
<1>5. \A i \in 1 .. Len(seq) - 2 + 1 : SubSeq(seq, 2, Len(seq))[i] = seq[2 + i - 1]
  BY <1>2, <1>4, SubSeqProperties
<1> QED
  BY <1>1, <1>2, <1>3, <1>5

\* remember keeps the cache small and each site in it once, and what is in it
\* afterwards was in it or is the entry.
LEMMA RememberedIsSound ==
  ASSUME ServingTypeOK, NEW entry \in CacheEntry, NEW new, new = Remembered(entry)
  PROVE  /\ new \in Seq(CacheEntry) /\ Len(new) <= MaxEntries
         /\ \A i, j \in 1 .. Len(new) : new[i].site = new[j].site => i = j
         /\ \A i \in 1 .. Len(new) : new[i] = entry \/ \E j \in 1 .. Len(cache) : new[i] = cache[j]
<1> DEFINE kept == IF Len(cache) >= MaxEntries THEN Tail(cache) ELSE cache
           Present == \E i \in 1 .. Len(kept) : kept[i].site = entry.site
<1>1. /\ cache \in Seq(CacheEntry) /\ Len(cache) <= MaxEntries /\ Len(cache) \in Nat
      /\ \A i, j \in 1 .. Len(cache) : cache[i].site = cache[j].site => i = j
      /\ MaxEntries \in Nat /\ MaxEntries >= 1
  BY ServingAssumption, LenProperties DEF ServingTypeOK
<1>2. /\ kept \in Seq(CacheEntry) /\ Len(kept) \in Nat /\ Len(kept) < MaxEntries
      /\ \A i, j \in 1 .. Len(kept) : kept[i].site = kept[j].site => i = j
      /\ \A i \in 1 .. Len(kept) : \E j \in 1 .. Len(cache) : kept[i] = cache[j]
  <2>1. CASE Len(cache) >= MaxEntries
    <3>1. cache # <<>>
      BY <1>1, <2>1, EmptySeq
    <3>2. /\ Tail(cache) \in Seq(CacheEntry) /\ Len(Tail(cache)) = Len(cache) - 1
          /\ \A i \in 1 .. Len(Tail(cache)) : i + 1 \in 1 .. Len(cache) /\ Tail(cache)[i] = cache[i + 1]
      BY <1>1, <3>1, TailIsSound
    <3>3. kept = Tail(cache)
      BY <2>1
    <3>4. kept \in Seq(CacheEntry) /\ Len(kept) \in Nat /\ Len(kept) < MaxEntries
      BY <1>1, <2>1, <3>2, <3>3
    <3>5. \A i, j \in 1 .. Len(kept) : kept[i].site = kept[j].site => i = j
      <4> SUFFICES ASSUME NEW i \in 1 .. Len(Tail(cache)), NEW j \in 1 .. Len(Tail(cache)),
                          Tail(cache)[i].site = Tail(cache)[j].site
                   PROVE  i = j
        BY <3>3
      <4>1. i + 1 = j + 1
        BY <1>1, <3>2
      <4> QED
        BY <4>1
    <3>6. \A i \in 1 .. Len(kept) : \E j \in 1 .. Len(cache) : kept[i] = cache[j]
      BY <3>2, <3>3
    <3> QED
      BY <3>4, <3>5, <3>6
  <2>2. CASE ~(Len(cache) >= MaxEntries)
    <3>1. kept = cache
      BY <2>2
    <3> QED
      BY <1>1, <2>2, <3>1
  <2> QED
    BY <2>1, <2>2
<1>3. new = IF Present
              THEN [i \in 1 .. Len(kept) |-> IF kept[i].site = entry.site THEN entry ELSE kept[i]]
              ELSE Append(kept, entry)
  BY DEF Remembered
<1> HIDE DEF kept
<1>4. \A i \in 1 .. Len(kept) : kept[i] \in CacheEntry
  BY <1>2, ElementOfSeq
<1>5. CASE Present
  <2>1. new \in [1 .. Len(kept) -> CacheEntry]
    BY <1>3, <1>4, <1>5
  <2>2. new \in Seq(CacheEntry)
    BY <1>2, <2>1, SeqDef
  <2>3. Len(new) = Len(kept)
    BY <1>2, <2>1, <2>2
  <2>4. \A i \in 1 .. Len(kept) : new[i].site = kept[i].site /\ (new[i] = entry \/ new[i] = kept[i])
    BY <1>3, <1>5
  <2>5. \A i, j \in 1 .. Len(new) : new[i].site = new[j].site => i = j
    BY <1>2, <2>3, <2>4
  <2>6. \A i \in 1 .. Len(new) : new[i] = entry \/ \E j \in 1 .. Len(cache) : new[i] = cache[j]
    BY <1>2, <2>3, <2>4
  <2> QED
    BY <1>1, <1>2, <2>2, <2>3, <2>5, <2>6
<1>6. CASE ~Present
  <2>1. new = Append(kept, entry)
    BY <1>3, <1>6
  <2>2. new \in Seq(CacheEntry) /\ Len(new) = Len(kept) + 1
    BY <1>2, <2>1
  <2>3. new[Len(kept) + 1] = entry /\ \A i \in 1 .. Len(kept) : new[i] = kept[i]
    BY <1>2, <2>1
  <2>4. \A i \in 1 .. Len(new) : i \in 1 .. Len(kept) \/ i = Len(kept) + 1
    BY <1>2, <2>2
  <2>5. \A i \in 1 .. Len(new) : new[i] = entry \/ \E j \in 1 .. Len(cache) : new[i] = cache[j]
    BY <1>2, <2>3, <2>4
  <2>6. \A i, j \in 1 .. Len(new) : new[i].site = new[j].site => i = j
    <3> SUFFICES ASSUME NEW i \in 1 .. Len(new), NEW j \in 1 .. Len(new), new[i].site = new[j].site
                 PROVE  i = j
      OBVIOUS
    <3>1. \A x \in 1 .. Len(kept) : new[x].site # entry.site
      BY <1>6, <2>3
    <3>2. CASE i \in 1 .. Len(kept) /\ j \in 1 .. Len(kept)
      <4>1. kept[i].site = kept[j].site
        BY <2>3, <3>2
      <4> QED
        BY <1>2, <3>2, <4>1
    <3>3. CASE i = Len(kept) + 1 \/ j = Len(kept) + 1
      BY <2>3, <2>4, <3>1, <3>3
    <3> QED
      BY <2>4, <3>2, <3>3
  <2>7. Len(new) <= MaxEntries
    BY <1>1, <1>2, <2>2
  <2> QED
    BY <2>2, <2>5, <2>6, <2>7
<1> QED
  BY <1>5, <1>6

-------------------------------------------------------------------------------
\* What a visitor does.

LEMMA VisitorStep ==
  ASSUME ServingInv, NEW r \in Requests, NEW q \in Request, RequestIsSound(q, sites, clock),
         UNCHANGED <<clock, sites, cache>>, requests' = [requests EXCEPT ![r] = q]
  PROVE  ServingInv'
<1>1. requests' \in [Requests -> Request]
  BY DEF ServingInv, ServingTypeOK
<1>2. \A x \in Requests : RequestIsSound(requests'[x], sites, clock)
  BY DEF ServingInv, ServingTypeOK
<1> QED
  BY <1>1, <1>2 DEF ServingInv, ServingTypeOK

\* The objects tried end with index.html.
LEMMA TriedIsSound ==
  ASSUME NEW key \in {"index.html", "about"}, NEW brotli \in BOOLEAN
  PROVE  LET keys == Tried(key, brotli)
         IN  /\ keys \in Seq(Objects \cup {"about"}) /\ keys # <<>>
             /\ keys[Len(keys)] = "index.html"
<1> DEFINE S == Objects \cup {"about"}
           own == IF key = "about" THEN <<"about">> ELSE <<>>
           twin == IF brotli THEN <<"index.html.br">> ELSE <<>>
           last == <<"index.html">>
           front == own \o twin
<1>1. "about" \in S /\ "index.html" \in S /\ "index.html.br" \in S
  BY DEF Objects
<1>2. own \in Seq(S)
  <2>1. <<"about">> \in Seq(S) /\ <<>> \in Seq(S)
    BY <1>1
  <2> QED
    BY <2>1
<1>3. twin \in Seq(S)
  <2>1. <<"index.html.br">> \in Seq(S) /\ <<>> \in Seq(S)
    BY <1>1
  <2> QED
    BY <2>1
<1>4. front \in Seq(S)
  BY <1>2, <1>3, ConcatProperties
<1>5. last \in Seq(S) /\ Len(last) = 1 /\ last[1] = "index.html"
  BY <1>1
<1>6. Tried(key, brotli) = front \o last
  BY DEF Tried
<1>7. Len(front) \in Nat
  BY <1>4, LenProperties
<1> HIDE DEF S, own, twin, last, front
<1>8. /\ front \o last \in Seq(S)
      /\ Len(front \o last) = Len(front) + 1
      /\ (front \o last)[Len(front) + 1] = last[1]
  <2>1. front \o last \in Seq(S)
    BY <1>4, <1>5, ConcatProperties
  <2>2. Len(front \o last) = Len(front) + Len(last)
    BY <1>4, <1>5, ConcatProperties
  <2>3. \A i \in 1 .. Len(front) + Len(last) :
          (front \o last)[i] = IF i <= Len(front) THEN front[i] ELSE last[i - Len(front)]
    BY <1>4, <1>5, ConcatProperties
  <2>4. (front \o last)[Len(front) + 1] = last[Len(front) + 1 - Len(front)]
    BY <1>5, <1>7, <2>3
  <2> QED
    BY <1>5, <1>7, <2>1, <2>2, <2>4
<1>9. Tried(key, brotli) # <<>>
  BY <1>6, <1>7, <1>8, EmptySeq
<1> QED
  BY <1>5, <1>6, <1>8, <1>9 DEF S

LEMMA AnsweredIsRequest ==
  ASSUME NEW q \in Request, NEW answer \in {404, 410, 200}
  PROVE  /\ Answered(q, answer) \in Request /\ Answered(q, answer).phase = "answered"
         /\ Answered(q, answer).answer = answer
         /\ Answered(q, answer).site = q.site /\ Answered(q, answer).began = q.began
<1>1. <<>> \in Seq(Objects \cup {"about"}) /\ "pending" \in Statuses
  BY EmptySeq DEF Statuses
<1>2. answer \in {0, 200, 404, 410}
  OBVIOUS
<1>3. q.site \in Deployments \cup {NoDeployment} /\ q.began \in Times
  BY DEF Request
<1> QED
  BY <1>1, <1>2, <1>3 DEF Answered, Request

LEMMA FetchingIsRequest ==
  ASSUME NEW q \in Request, NEW keys \in Seq(Objects \cup {"about"})
  PROVE  /\ Fetching(q, keys) \in Request /\ Fetching(q, keys).phase = "fetching"
         /\ Fetching(q, keys).keys = keys
         /\ Fetching(q, keys).site = q.site /\ Fetching(q, keys).began = q.began
<1>1. "pending" \in Statuses
  BY DEF Statuses
<1>2. q.site \in Deployments \cup {NoDeployment} /\ q.began \in Times
  BY DEF Request
<1> QED
  BY <1>1, <1>2 DEF Fetching, Request

\* A status that was true less than a minute before the visitor asked, or later, is
\* acted upon in time.
LEMMA ResolutionsAreSound ==
  ASSUME ServingInv, NEW q \in Request, q.site \in Deployments, q.began <= clock,
         NEW t \in Times, t > q.began - Ttl, NEW status \in Statuses,
         Held(sites[q.site], status, t), NEW r \in Requests, Resolve(r, q, status)
  PROVE  \E next \in Request : /\ requests' = [requests EXCEPT ![r] = next]
                               /\ RequestIsSound(next, sites, clock)
<1> DEFINE s == sites[q.site]
<1>1. s \in Site /\ SiteIsSound(s, clock) /\ clock \in Times
  BY DEF ServingInv, ServingTypeOK
<1>2. /\ q.began \in Times /\ Ttl \in Nat /\ s.status \in Statuses
      /\ s.ready \in Times \cup {Never} /\ s.gone \in Times \cup {Never}
  BY <1>1, ServingAssumption DEF Request, Site
<1>3. ASSUME NEW answer \in {404, 410}
      PROVE  LET next == Answered(q, answer)
             IN  /\ next \in Request /\ next.phase = "answered" /\ next.answer = answer
                 /\ next.site = q.site /\ next.began = q.began
  BY <1>3, AnsweredIsRequest
<1>4. CASE status = "EXPIRED"
  <2>1. requests' = [requests EXCEPT ![r] = Answered(q, 410)]
    BY <1>4 DEF Resolve
  <2>2. s.gone # Never
    BY <1>4 DEF Held
  <2>3. s.status = "EXPIRED"
    BY <1>1, <1>2, <2>2 DEF SiteIsSound, Statuses
  <2>4. Answered(q, 410) \in Request /\ RequestIsSound(Answered(q, 410), sites, clock)
    BY <1>3, <2>3 DEF RequestIsSound, Timely
  <2> QED
    BY <2>1, <2>4
<1>5. CASE status = "READY"
  <2>1. PICK key \in {"index.html", "about"}, brotli \in BOOLEAN :
          requests' = [requests EXCEPT ![r] = Fetching(q, Tried(key, brotli))]
    BY <1>5 DEF Resolve
  <2> DEFINE next == Fetching(q, Tried(key, brotli))
  <2>2. /\ next \in Request /\ next.phase = "fetching" /\ next.keys = Tried(key, brotli)
        /\ next.site = q.site /\ next.began = q.began
    BY TriedIsSound, FetchingIsRequest
  <2>3. s.ready # Never /\ (s.gone = Never \/ s.gone >= t)
    BY <1>5 DEF Held
  <2>4. s.gone = Never \/ s.gone > q.began - Ttl
    BY <1>2, <2>3, TimesAreNumbers
  <2>5. Fetchable(next, s)
    BY <2>2, <2>3, <2>4, TriedIsSound DEF Fetchable
  <2>6. RequestIsSound(next, sites, clock)
    BY <2>2, <2>5 DEF RequestIsSound
  <2> QED
    BY <2>1, <2>2, <2>6
<1>6. CASE status = "pending"
  <2>1. requests' = [requests EXCEPT ![r] = Answered(q, 404)]
    BY <1>6 DEF Resolve
  <2>2. \/ s.ready # Never /\ s.ready >= t
        \/ s.ready = Never /\ (s.gone = Never \/ s.gone >= t)
    BY <1>6 DEF Held
  <2>3. s.ready = Never \/ s.ready > q.began - Ttl
    BY <1>2, <2>2, TimesAreNumbers
  <2>4. s.gone = Never \/ s.gone > q.began - Ttl
    <3>1. CASE s.gone = Never
      BY <3>1
    <3>2. CASE s.gone # Never
      <4>1. s.status = "EXPIRED"
        BY <1>1, <1>2, <3>2 DEF SiteIsSound, Statuses
      <4>2. s.ready = Never \/ s.ready <= s.gone
        BY <1>1, <4>1 DEF SiteIsSound
      <4> QED
        BY <1>2, <2>2, <3>2, <4>2, TimesAreNumbers
    <3> QED
      BY <3>1, <3>2
  <2>5. Answered(q, 404) \in Request /\ RequestIsSound(Answered(q, 404), sites, clock)
    BY <1>3, <2>3, <2>4 DEF RequestIsSound, Timely
  <2> QED
    BY <2>1, <2>5
<1> QED
  BY <1>4, <1>5, <1>6 DEF Statuses

LEMMA VisitIsSound ==
  ASSUME ServingInv, NEW r \in Requests, NEW d \in Deployments, Visit(r, d)
  PROVE  ServingInv'
<1> DEFINE q == [Idle EXCEPT !.phase = "asking", !.site = d, !.began = clock]
<1>1. clock \in Times /\ UNCHANGED <<clock, sites, cache>> /\ cache \in Seq(CacheEntry)
  BY DEF Visit, ServingInv, ServingTypeOK
<1>2. <<>> \in Seq(Objects \cup {"about"}) /\ "pending" \in Statuses
  BY EmptySeq DEF Statuses
<1>3. q.phase = "asking" /\ q.site = d /\ q.began = clock
  BY DEF Idle
<1>4. q \in Request
  BY <1>1, <1>2 DEF Idle, Request
<1>5. CASE requests' = [requests EXCEPT ![r] = q]
  <2>1. RequestIsSound(q, sites, clock)
    BY <1>1, <1>3, TimesAreNumbers DEF RequestIsSound
  <2> QED
    BY <1>1, <1>4, <1>5, <2>1, VisitorStep
<1>6. CASE \E entry \in Cached(d) : Resolve(r, q, entry.status)
  <2>1. PICK i \in 1 .. Len(cache) : /\ cache[i].site = d /\ clock - cache[i].readAt < Ttl
                                     /\ Resolve(r, q, cache[i].status)
    BY <1>6 DEF Cached
  <2>2. cache[i] \in CacheEntry /\ EntryIsSound(cache[i], sites, clock)
    BY <1>1, ElementOfSeq DEF ServingInv
  <2>3. cache[i].readAt \in Times /\ cache[i].status \in Statuses
    BY <2>2 DEF CacheEntry
  <2>4. Held(sites[q.site], cache[i].status, cache[i].readAt)
    BY <1>3, <2>1, <2>2 DEF EntryIsSound
  <2>5. cache[i].readAt > q.began - Ttl /\ q.began <= clock /\ q.site \in Deployments
    BY <1>1, <1>3, <2>1, <2>3, TimesAreNumbers, ServingAssumption
  <2>6. PICK next \in Request : /\ requests' = [requests EXCEPT ![r] = next]
                                /\ RequestIsSound(next, sites, clock)
    BY <1>4, <2>1, <2>3, <2>4, <2>5, ResolutionsAreSound
  <2> QED
    BY <1>1, <2>6, VisitorStep
<1> QED
  BY <1>5, <1>6 DEF Visit

LEMMA QueryIsSound ==
  ASSUME ServingInv, NEW r \in Requests, Query(r)
  PROVE  ServingInv'
<1> DEFINE q == requests[r]
           next == [q EXCEPT !.phase = "reading", !.status = sites[q.site].status]
<1>1. /\ q \in Request /\ RequestIsSound(q, sites, clock) /\ q.phase = "asking"
      /\ q.site \in Deployments /\ q.began \in Times /\ clock \in Times
  BY DEF Query, ServingInv, ServingTypeOK, RequestIsSound, Request
<1>2. sites[q.site] \in Site /\ SiteIsSound(sites[q.site], clock)
  BY <1>1 DEF ServingInv, ServingTypeOK
<1>3. UNCHANGED <<clock, sites, cache>> /\ requests' = [requests EXCEPT ![r] = next]
  BY DEF Query, ServingInv, ServingTypeOK
<1>4. /\ next.phase = "reading" /\ next.status = sites[q.site].status
      /\ next.site = q.site /\ next.began = q.began
  BY <1>1 DEF Request
<1>5. sites[q.site].status \in Statuses
  BY <1>2 DEF Site
<1>6. next \in Request
  BY <1>1, <1>5 DEF Request
<1>7. Held(sites[q.site], sites[q.site].status, q.began)
  BY <1>2, <1>5, TimesAreNumbers DEF SiteIsSound, Held, Statuses
<1>8. RequestIsSound(next, sites, clock)
  BY <1>1, <1>4, <1>7 DEF RequestIsSound
<1> QED
  BY <1>3, <1>6, <1>8, VisitorStep

LEMMA LearnIsSound ==
  ASSUME ServingInv, NEW r \in Requests, Learn(r)
  PROVE  ServingInv'
<1> DEFINE q == requests[r]
           entry == [site |-> q.site, status |-> q.status, readAt |-> q.began]
<1>1. /\ q \in Request /\ RequestIsSound(q, sites, clock) /\ q.phase = "reading"
      /\ q.site \in Deployments /\ q.began \in Times /\ q.status \in Statuses /\ q.began <= clock
  BY DEF Learn, ServingInv, ServingTypeOK, RequestIsSound, Request
<1>2. Held(sites[q.site], q.status, q.began)
  BY <1>1 DEF RequestIsSound
<1>3. entry \in CacheEntry /\ EntryIsSound(entry, sites, clock)
  BY <1>1, <1>2 DEF CacheEntry, EntryIsSound
<1>4. UNCHANGED <<clock, sites>> /\ Resolve(r, q, q.status) /\ cache' = Remembered(entry)
  BY DEF Learn, ReadAt
<1>5. ServingTypeOK /\ Ttl \in Nat /\ Ttl > 0 /\ q.began > q.began - Ttl
  BY <1>1, ServingAssumption, TimesAreNumbers DEF ServingInv
<1>6. PICK next \in Request : /\ requests' = [requests EXCEPT ![r] = next]
                              /\ RequestIsSound(next, sites, clock)
  BY <1>1, <1>2, <1>4, <1>5, ResolutionsAreSound
<1>7. /\ cache' \in Seq(CacheEntry) /\ Len(cache') <= MaxEntries
      /\ \A i, j \in 1 .. Len(cache') : cache'[i].site = cache'[j].site => i = j
      /\ \A i \in 1 .. Len(cache') : cache'[i] = entry \/ \E j \in 1 .. Len(cache) : cache'[i] = cache[j]
  BY <1>3, <1>4, <1>5, RememberedIsSound
<1>8. ServingTypeOK'
  BY <1>4, <1>5, <1>6, <1>7 DEF ServingTypeOK
<1>9. \A i \in 1 .. Len(cache') : EntryIsSound(cache'[i], sites, clock)
  BY <1>3, <1>7 DEF ServingInv
<1>10. \A x \in Requests : RequestIsSound(requests'[x], sites, clock)
  BY <1>5, <1>6 DEF ServingInv, ServingTypeOK
<1> QED
  BY <1>4, <1>8, <1>9, <1>10 DEF ServingInv

LEMMA FetchIsSound ==
  ASSUME ServingInv, NEW r \in Requests, Fetch(r)
  PROVE  ServingInv'
<1> DEFINE q == requests[r]
           s == sites[q.site]
           found == Head(q.keys) \in s.stored
           next == IF found THEN Answered(q, 200)
                   ELSE IF Len(q.keys) = 1 THEN Answered(q, 404) ELSE Fetching(q, Tail(q.keys))
<1>1. /\ q \in Request /\ RequestIsSound(q, sites, clock) /\ q.phase = "fetching"
      /\ q.site \in Deployments /\ q.keys \in Seq(Objects \cup {"about"}) /\ q.began <= clock
  BY DEF Fetch, ServingInv, ServingTypeOK, RequestIsSound, Request
<1>2. Fetchable(q, s)
  BY <1>1 DEF RequestIsSound
<1>3. UNCHANGED <<clock, sites, cache>> /\ requests' = [requests EXCEPT ![r] = next]
  BY DEF Fetch, ServingInv, ServingTypeOK
<1>4. q.keys # <<>> /\ q.keys[Len(q.keys)] = "index.html" /\ Len(q.keys) \in Nat
  BY <1>1, <1>2, LenProperties DEF Fetchable
<1>5. CASE found
  <2>1. next = Answered(q, 200)
    BY <1>5
  <2>2. next \in Request /\ RequestIsSound(next, sites, clock)
    BY <1>1, <1>2, <2>1, AnsweredIsRequest DEF RequestIsSound, Timely, Fetchable
  <2> QED
    BY <1>3, <2>2, VisitorStep
<1>6. CASE ~found /\ Len(q.keys) = 1
  <2>1. next = Answered(q, 404)
    BY <1>6
  <2>2. "index.html" \notin s.stored
    BY <1>1, <1>4, <1>6
  <2>3. s.stored # Objects
    BY <2>2 DEF Objects
  <2>4. next \in Request /\ RequestIsSound(next, sites, clock)
    BY <1>1, <1>2, <2>1, <2>3, AnsweredIsRequest DEF RequestIsSound, Timely, Fetchable
  <2> QED
    BY <1>3, <2>4, VisitorStep
<1>7. CASE ~found /\ Len(q.keys) # 1
  <2>1. next = Fetching(q, Tail(q.keys))
    BY <1>7
  <2>2. /\ Tail(q.keys) \in Seq(Objects \cup {"about"}) /\ Len(Tail(q.keys)) = Len(q.keys) - 1
        /\ \A i \in 1 .. Len(Tail(q.keys)) : Tail(q.keys)[i] = q.keys[i + 1]
    BY <1>1, <1>4, TailIsSound
  <2>3. Len(q.keys) > 1
    <3>1. Len(q.keys) \in Nat \ {0}
      BY <1>1, <1>4, EmptySeq
    <3>2. Len(q.keys) # 1
      BY <1>7, Zenon
    <3>3. \A n \in Nat \ {0} : n # 1 => n > 1
      OBVIOUS
    <3> QED
      BY <3>1, <3>2, <3>3, Zenon
  <2> DEFINE tail == Tail(q.keys)
  <2>a. /\ tail \in Seq(Objects \cup {"about"}) /\ Len(tail) = Len(q.keys) - 1
        /\ \A i \in 1 .. Len(tail) : tail[i] = q.keys[i + 1]
    BY <2>2
  <2> HIDE DEF tail
  <2>b. tail # <<>>
    BY <1>4, <2>3, <2>a, EmptySeq
  <2>c. tail[Len(tail)] = "index.html"
    <3>1. Len(tail) \in 1 .. Len(tail) /\ Len(tail) + 1 = Len(q.keys)
      BY <1>4, <2>3, <2>a
    <3> QED
      BY <1>4, <2>a, <3>1
  <2>4. Tail(q.keys) # <<>> /\ Tail(q.keys)[Len(Tail(q.keys))] = "index.html"
    BY <2>b, <2>c DEF tail
  <2>5. /\ next \in Request /\ next.phase = "fetching" /\ next.keys = Tail(q.keys)
        /\ next.site = q.site /\ next.began = q.began
    <3> HIDE DEF next
    <3>1. q \in Request /\ Tail(q.keys) \in Seq(Objects \cup {"about"})
      BY <1>1, <2>2
    <3>2. LET n == Fetching(q, Tail(q.keys))
          IN  n \in Request /\ n.phase = "fetching" /\ n.keys = Tail(q.keys)
              /\ n.site = q.site /\ n.began = q.began
      BY <3>1, FetchingIsRequest
    <3> QED
      BY <2>1, <3>2
  <2>6. RequestIsSound(next, sites, clock)
    <3> HIDE DEF next, q, s
    <3>1. s = sites[q.site] /\ next.keys # <<>> /\ next.keys[Len(next.keys)] = "index.html"
      BY <2>4, <2>5 DEF s
    <3>2. Fetchable(next, s)
      BY <1>2, <2>5, <3>1 DEF Fetchable
    <3> QED
      BY <1>1, <2>5, <3>1, <3>2 DEF RequestIsSound
  <2> QED
    BY <1>3, <2>5, <2>6, VisitorStep
<1> QED
  BY <1>5, <1>6, <1>7

LEMMA LeaveIsSound ==
  ASSUME ServingInv, NEW r \in Requests, Leave(r)
  PROVE  ServingInv'
<1>1. Idle \in Request
  <2>1. <<>> \in Seq(Objects \cup {"about"}) /\ "pending" \in Statuses /\ 0 \in Times
    BY EmptySeq, ServingAssumption DEF Statuses, Times
  <2> QED
    BY <2>1 DEF Idle, Request
<1>2. RequestIsSound(Idle, sites, clock)
  BY TimesAreNumbers DEF Idle, RequestIsSound, ServingInv, ServingTypeOK
<1> QED
  BY <1>1, <1>2, VisitorStep DEF Leave

-------------------------------------------------------------------------------
\* The invariant is kept.

LEMMA InitIsSound == Init => ServingInv
<1> SUFFICES ASSUME Init PROVE ServingInv
  OBVIOUS
<1>1. <<>> \in Seq(Objects \cup {"about"}) /\ "pending" \in Statuses /\ 0 \in Times
  BY EmptySeq, ServingAssumption DEF Statuses, Times
<1>2. Idle \in Request /\ NoSite \in Site
  BY <1>1 DEF Idle, Request, NoSite, Site
<1>3. cache \in Seq(CacheEntry) /\ Len(cache) = 0
  BY EmptySeq DEF Init
<1>4. ServingTypeOK
  BY <1>1, <1>2, <1>3, ServingAssumption DEF Init, ServingTypeOK
<1>5. SiteIsSound(NoSite, 0) /\ RequestIsSound(Idle, sites, 0)
  BY DEF SiteIsSound, NoSite, RequestIsSound, Idle
<1> QED
  BY <1>3, <1>4, <1>5 DEF Init, ServingInv

LEMMA SiteStepIsSound ==
  ASSUME ServingInv, NEW d \in Deployments, SiteStep(d)
  PROVE  ServingInv'
<1>1. clock \in Times /\ sites \in [Deployments -> Site] /\ SiteIsSound(sites[d], clock)
  BY DEF ServingInv, ServingTypeOK
<1>2. UNCHANGED <<clock, cache, requests>>
  BY DEF SiteStep, Publish, Delete, Expire
<1>3. PICK u : sites' = [sites EXCEPT ![d] = u] /\ Moved(sites[d], u, clock)
  <2>1. CASE Publish(d)
    BY <1>1, <2>1 DEF Publish, Moved
  <2>2. CASE Delete(d)
    <3>1. PICK left \in (SUBSET sites[d].stored) \ {sites[d].stored} :
            sites' = [sites EXCEPT ![d].stored = left]
      BY <2>2 DEF Delete
    <3> QED
      BY <1>1, <2>2, <3>1 DEF Delete, Moved
  <2>3. CASE Expire(d)
    BY <1>1, <2>3 DEF Expire, Moved
  <2> QED
    BY <2>1, <2>2, <2>3 DEF SiteStep
<1>4. u \in Site
  BY <1>1, <1>3, MovesKeepSites
<1>5. sites' \in [Deployments -> Site] /\ \A x \in Deployments : Moved(sites[x], sites'[x], clock)
  BY <1>1, <1>3, <1>4 DEF Moved
<1> QED
  BY <1>2, <1>5, MovesKeepAll

LEMMA TickIsSound ==
  ASSUME ServingInv, Tick
  PROVE  ServingInv'
<1>1. clock \in Nat /\ clock' = clock + 1 /\ clock' \in Times /\ UNCHANGED <<sites, cache, requests>>
  BY ServingAssumption DEF Tick, ServingInv, ServingTypeOK, Times
<1>2. ServingTypeOK'
  BY <1>1 DEF ServingInv, ServingTypeOK
<1>3. ASSUME NEW d \in Deployments PROVE SiteIsSound(sites[d], clock')
  <2>1. SiteIsSound(sites[d], clock) /\ sites[d] \in Site
    BY DEF ServingInv, ServingTypeOK
  <2> QED
    <3>1. /\ sites[d].ready = Never \/ sites[d].ready \in Nat
          /\ sites[d].gone = Never \/ sites[d].gone \in Nat
      BY <2>1, TimesAreNumbers DEF Site
    <3>2. \A t \in Nat : t <= clock => t <= clock'
      BY <1>1
    <3> QED
      BY <2>1, <3>1, <3>2 DEF SiteIsSound
<1>4. ASSUME NEW r \in Requests PROVE RequestIsSound(requests[r], sites, clock')
  <2>1. RequestIsSound(requests[r], sites, clock) /\ requests[r].began \in Nat
    BY TimesAreNumbers DEF ServingInv, ServingTypeOK, Request
  <2> QED
    BY <1>1, <2>1 DEF RequestIsSound
<1>5. ASSUME NEW i \in 1 .. Len(cache) PROVE EntryIsSound(cache[i], sites, clock')
  <2>1. EntryIsSound(cache[i], sites, clock) /\ cache[i] \in CacheEntry
    BY ElementOfSeq DEF ServingInv, ServingTypeOK
  <2>2. cache[i].readAt \in Nat
    BY <2>1, TimesAreNumbers DEF CacheEntry
  <2> QED
    BY <1>1, <2>1, <2>2 DEF EntryIsSound
<1> QED
  BY <1>1, <1>2, <1>3, <1>4, <1>5 DEF ServingInv

LEMMA NextIsSound == ServingInv /\ [Next]_vars => ServingInv'
<1> SUFFICES ASSUME ServingInv, [Next]_vars PROVE ServingInv'
  OBVIOUS
<1>1. ASSUME NEW r \in Requests, RequestStep(r) PROVE ServingInv'
  BY <1>1, VisitIsSound, QueryIsSound, LearnIsSound, FetchIsSound, LeaveIsSound DEF RequestStep
<1>2. CASE UNCHANGED vars
  BY <1>2 DEF vars, ServingInv, ServingTypeOK
<1> QED
  BY <1>1, <1>2, SiteStepIsSound, TickIsSound DEF Next

LEMMA InvHolds == Spec => []ServingInv
  BY InitIsSound, NextIsSound, PTL DEF Spec

-------------------------------------------------------------------------------
\* The results.

\* The variables keep their types; remember keeps the cache within its limit, with
\* each site in it once.
THEOREM ServingTypeCorrect == Spec => []ServingTypeOK
<1>1. ServingInv => ServingTypeOK
  BY DEF ServingInv
<1> QED
  BY <1>1, InvHolds, PTL

\* What statusOf has cached was true at some time since its lookup began.
THEOREM EntriesStayTrue == Spec => []EntriesAreTrue
<1>1. ServingInv => EntriesAreTrue
  BY DEF ServingInv, EntriesAreTrue, EntryIsSound, RequestIsSound
<1> QED
  BY <1>1, InvHolds, PTL

\* No visitor is answered with what was over a minute before he asked.
THEOREM AnswersStayTimely == Spec => []AnswersAreTimely
<1>1. ServingInv => AnswersAreTimely
  BY DEF ServingInv, AnswersAreTimely, RequestIsSound
<1> QED
  BY <1>1, InvHolds, PTL
===============================================================================
