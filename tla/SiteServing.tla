----------------------------- MODULE SiteServing -----------------------------
(***************************************************************************)
(* What visitors are told of a deployment whose status is cached and whose *)
(* objects come and go.                                                    *)
(*                                                                         *)
(*   apps/serve: DeploymentLookup (lookup.ts), GET of any path (app.ts),   *)
(*               storageKeyForPath and looksLikeClientRoute (routing.ts)   *)
(*                                                                         *)
(* Of the rest of the system a visitor sees that a site is published whole *)
(* and is READY then (LiveSitesAreWhole in Retention), and that an expiry  *)
(* deletes its objects first and marks its row afterwards.                 *)
(***************************************************************************)
EXTENDS Integers, Sequences

CONSTANTS
  Deployments,
  NoDeployment,   \* not a deployment
  Requests,       \* bounds the requests of visitors at once
  Never,          \* a time that has not come
  Ttl,            \* TTL_MS
  MaxEntries,     \* MAX_ENTRIES
  MaxTime         \* bounds the clock

ASSUME ServingAssumption ==
  /\ NoDeployment \notin Deployments
  /\ Never \notin Int
  /\ Ttl \in Nat \ {0}
  /\ MaxEntries \in Nat \ {0}
  /\ MaxTime \in Nat

VARIABLES
  clock,      \* the clock of the process
  sites,      \* rows and objects
  cache,      \* the cached statuses, in the order of the Map
  requests    \* what each visitor is waiting for

vars == <<clock, sites, cache, requests>>

Times == 0 .. MaxTime

\* "pending" stands for the statuses that are neither READY nor EXPIRED, and for
\* null: the answer to each is 404.
Statuses == {"pending", "READY", "EXPIRED"}

\* A page and the twin that a build may have written for it.
Objects == {"index.html", "index.html.br"}

\* ready and gone are when the row became READY and EXPIRED.
Site == [ status : Statuses, stored : SUBSET Objects,
          ready : Times \cup {Never}, gone : Times \cup {Never} ]
NoSite == [status |-> "pending", stored |-> {}, ready |-> Never, gone |-> Never]

CacheEntry == [site : Deployments, status : Statuses, readAt : Times]

\* began is when the lookup began; status, what the query found; keys, the objects
\* still to be tried; answer, the status of the response.
Request == [ phase : {"idle", "asking", "reading", "fetching", "answered"},
             site : Deployments \cup {NoDeployment}, began : Times,
             status : Statuses, keys : Seq(Objects \cup {"about"}),
             answer : {0, 200, 404, 410} ]
Idle == [ phase |-> "idle", site |-> NoDeployment, began |-> 0, status |-> "pending",
          keys |-> <<>>, answer |-> 0 ]

ServingTypeOK ==
  /\ clock \in Times
  /\ sites \in [Deployments -> Site]
  /\ cache \in Seq(CacheEntry) /\ Len(cache) <= MaxEntries
  /\ \A i, j \in 1 .. Len(cache) : cache[i].site = cache[j].site => i = j
  /\ requests \in [Requests -> Request]

Init ==
  /\ clock = 0
  /\ sites = [d \in Deployments |-> NoSite]
  /\ cache = <<>>
  /\ requests = [r \in Requests |-> Idle]

-------------------------------------------------------------------------------
\* The rest of the system.

\* Every object is stored, and then the row is READY.
Publish(d) ==
  /\ sites[d].status = "pending"
  /\ sites' = [sites EXCEPT ![d].status = "READY", ![d].stored = Objects, ![d].ready = clock]
  /\ UNCHANGED <<clock, cache, requests>>

\* A cleanup deletes objects, and marks the row when none is left.
Delete(d) ==
  /\ sites[d].status = "READY"
  /\ \E left \in (SUBSET sites[d].stored) \ {sites[d].stored} :
       sites' = [sites EXCEPT ![d].stored = left]
  /\ UNCHANGED <<clock, cache, requests>>

Expire(d) ==
  /\ sites[d].status \in {"pending", "READY"} /\ sites[d].stored = {}
  /\ sites' = [sites EXCEPT ![d].status = "EXPIRED", ![d].gone = clock]
  /\ UNCHANGED <<clock, cache, requests>>

Tick ==
  /\ clock < MaxTime
  /\ clock' = clock + 1
  /\ UNCHANGED <<sites, cache, requests>>

-------------------------------------------------------------------------------
\* DeploymentLookup.

\* Variant: nothing is ever evicted.
Remembered_NoEviction(entry) ==
  IF \E i \in 1 .. Len(cache) : cache[i].site = entry.site
    THEN [i \in 1 .. Len(cache) |-> IF cache[i].site = entry.site THEN entry ELSE cache[i]]
    ELSE Append(cache, entry)

\* remember: the oldest entry makes room, even for one that is there already; an
\* entry that is there keeps its place.
Remembered(entry) ==
  LET kept == IF Len(cache) >= MaxEntries THEN Tail(cache) ELSE cache
  IN  IF \E i \in 1 .. Len(kept) : kept[i].site = entry.site
        THEN [i \in 1 .. Len(kept) |-> IF kept[i].site = entry.site THEN entry ELSE kept[i]]
        ELSE Append(kept, entry)

\* What the cache knows of a deployment.
Cached(d) == { cache[i] : i \in { j \in 1 .. Len(cache) :
                 cache[j].site = d /\ clock - cache[j].readAt < Ttl } }

\* The objects tried for a path: for a route of the client's its own, which is not
\* there and of no kind that has a twin, and then index.html; before it the twin, if
\* the visitor takes one. A file that no build has stored is 404 at any time.
Tried(key, brotli) ==
  (IF key = "about" THEN <<"about">> ELSE <<>>)
  \o (IF brotli THEN <<"index.html.br">> ELSE <<>>) \o <<"index.html">>

\* A response is sent.
Answered(request, answer) ==
  [ phase |-> "answered", site |-> request.site, began |-> request.began,
    status |-> "pending", keys |-> <<>>, answer |-> answer ]

\* Objects are looked for, one after the other.
Fetching(request, keys) ==
  [ phase |-> "fetching", site |-> request.site, began |-> request.began,
    status |-> "pending", keys |-> keys, answer |-> 0 ]

\* What is done for r once the status is known: only a site that is READY depends on
\* what he asks for, a page or a route of the client's.
Resolve(r, request, status) ==
  \/ /\ status = "EXPIRED"
     /\ requests' = [requests EXCEPT ![r] = Answered(request, 410)]
  \/ /\ status \notin {"READY", "EXPIRED"}
     /\ requests' = [requests EXCEPT ![r] = Answered(request, 404)]
  \/ /\ status = "READY"
     /\ \E key \in {"index.html", "about"}, brotli \in BOOLEAN :
          requests' = [requests EXCEPT ![r] = Fetching(request, Tried(key, brotli))]

\* A visitor asks for something of a site.
Visit(r, d) ==
  /\ requests[r].phase = "idle"
  /\ LET request == [Idle EXCEPT !.phase = "asking", !.site = d, !.began = clock]
     IN  \/ /\ Cached(d) = {}
            /\ requests' = [requests EXCEPT ![r] = request]
         \/ \E entry \in Cached(d) : Resolve(r, request, entry.status)
  /\ UNCHANGED <<clock, sites, cache>>

\* Postgres answers the query; the answer is on its way.
Query(r) ==
  /\ requests[r].phase = "asking"
  /\ requests' = [requests EXCEPT ![r].phase = "reading",
                                  ![r].status = sites[requests[r].site].status]
  /\ UNCHANGED <<clock, sites, cache>>

\* Variant: the age of an entry counts from the answer.
ReadAt_OfAnswer(r) == clock

\* now, as statusOf was called with it.
ReadAt(r) == requests[r].began

\* The answer arrives and is remembered.
Learn(r) ==
  /\ requests[r].phase = "reading"
  /\ cache' = Remembered([ site |-> requests[r].site, status |-> requests[r].status,
                           readAt |-> ReadAt(r) ])
  /\ Resolve(r, requests[r], requests[r].status)
  /\ UNCHANGED <<clock, sites>>

\* fetchObject, one key after the other.
Fetch(r) ==
  /\ requests[r].phase = "fetching"
  /\ requests' = [requests EXCEPT ![r] =
       IF Head(@.keys) \in sites[@.site].stored
         THEN Answered(@, 200)
         ELSE IF Len(@.keys) = 1
           THEN Answered(@, 404)
           ELSE Fetching(@, Tail(@.keys))]
  /\ UNCHANGED <<clock, sites, cache>>

\* The visitor has his answer; or the database or the bucket does not answer, and he
\* is told 503, which says nothing of the site.
Leave(r) ==
  /\ requests[r].phase # "idle"
  /\ requests' = [requests EXCEPT ![r] = Idle]
  /\ UNCHANGED <<clock, sites, cache>>

-------------------------------------------------------------------------------
SiteStep(d) == Publish(d) \/ Delete(d) \/ Expire(d)

RequestStep(r) ==
  \/ \E d \in Deployments : Visit(r, d)
  \/ Query(r) \/ Learn(r) \/ Fetch(r) \/ Leave(r)

Next ==
  \/ \E d \in Deployments : SiteStep(d)
  \/ \E r \in Requests : RequestStep(r)
  \/ Tick

Spec == Init /\ [][Next]_vars

-------------------------------------------------------------------------------
\* The site had the status at some time since t.
Held(site, status, t) ==
  LET Since(u) == u # Never /\ u >= t
  IN  CASE status = "EXPIRED" -> site.gone # Never
        [] status = "READY"   -> site.ready # Never /\ (site.gone = Never \/ Since(site.gone))
        [] OTHER -> \/ Since(site.ready)
                    \/ site.ready = Never /\ (site.gone = Never \/ Since(site.gone))

\* What is cached or on its way to the cache was true at some time since the lookup
\* began: however slow a lookup is and whichever comes last, its age counts from
\* before its query.
EntriesAreTrue ==
  /\ \A i \in 1 .. Len(cache) : Held(sites[cache[i].site], cache[i].status, cache[i].readAt)
  /\ \A r \in Requests : requests[r].phase = "reading" =>
       Held(sites[requests[r].site], requests[r].status, requests[r].began)

\* What a visitor may be told of a site: that there is nothing only if it was not
\* live, or objects were missing, less than a minute before he asked or later; nor
\* once it has been gone for a minute. That it is gone only if it is.
Timely(request, site) ==
  LET Lately(u) == u = Never \/ u > request.began - Ttl
  IN  /\ request.answer = 404 =>
           (Lately(site.ready) \/ site.stored # Objects) /\ Lately(site.gone)
      /\ request.answer = 410 => site.status = "EXPIRED"
      /\ request.answer = 200 => site.ready # Never

\* "One read per site per minute": no answer is older than that.
AnswersAreTimely ==
  \A r \in Requests : requests[r].phase = "answered" =>
    Timely(requests[r], sites[requests[r].site])
===============================================================================
