----------------------------- MODULE RateLimiter -----------------------------
(***************************************************************************)
(* Fixed windows, "kept in Postgres so every api instance reads and writes *)
(* the same ones", and the requests of one address that they hold back.    *)
(*                                                                         *)
(*   apps/api:    RateLimiter and rateLimit (rate-limit.ts), POST / and    *)
(*                the middlewares of routes/deployments.ts                 *)
(*   apps/worker: forgetSpentRateLimits (cleanup.ts)                       *)
(*                                                                         *)
(* A statement carries the time its api instance read off its own clock.   *)
(***************************************************************************)
EXTENDS Integers, FiniteSets

CONSTANTS
  Requests,       \* bounds the requests at work at once
  AttemptLimit,   \* RATE_LIMIT_ATTEMPTS_PER_HOUR
  DeployLimit,    \* RATE_LIMIT_DEPLOYS_PER_HOUR
  Window,         \* HOUR_MS
  Skew,           \* what the clock of a request's instance is ahead of the database's
  Drift,          \* the most that is, either way
  MaxTime,        \* bounds the clock
  MaxCount        \* bounds the count of a window

ASSUME LimiterAssumption ==
  /\ IsFiniteSet(Requests)
  /\ AttemptLimit \in Nat \ {0}
  /\ DeployLimit \in Nat \ {0}
  /\ Window \in Nat \ {0}
  /\ Drift \in 0 .. Window
  /\ Skew \in [Requests -> -Drift .. Drift]
  /\ MaxTime \in Nat
  /\ MaxCount \in Nat

VARIABLES
  clock,      \* the database's clock
  rows,       \* the table rate_limits
  requests,   \* what each request is doing
  memory,     \* the table, had nothing been deleted from it (history)
  opened,     \* when the last window of each key was opened (history)
  granted,    \* requests let through by that window (history)
  spent       \* uploads that passed the peek and spent in it (history)

history == <<memory, opened, granted, spent>>
vars == <<clock, rows, requests, history>>

Keys == {"attempts", "deploys"}

Limit(k) == IF k = "attempts" THEN AttemptLimit ELSE DeployLimit

\* A row with count 0 is not there.
Row == [started : Int, count : Nat]
NoRow == [started |-> 0, count |-> 0]

\* uploading: an upload past limitAttempts; creating: past the peek, and whether the
\* peek was answered.
Request == [phase : {"idle", "uploading", "creating"}, checked : BOOLEAN]
Idle == [phase |-> "idle", checked |-> FALSE]

LimiterTypeOK ==
  /\ clock \in 0 .. MaxTime
  /\ rows \in [Keys -> Row]
  /\ requests \in [Requests -> Request]
  /\ memory \in [Keys -> Row]
  /\ opened \in [Keys -> Int]
  /\ granted \in [Keys -> Nat]
  /\ spent \in Nat
  /\ \A k \in Keys : rows[k].count > 0 =>
       rows[k].started \in opened[k] - Drift .. opened[k] + Drift

Init ==
  /\ clock = 0
  /\ rows = [k \in Keys |-> NoRow]
  /\ requests = [r \in Requests |-> Idle]
  /\ memory = rows
  /\ opened = [k \in Keys |-> -Window]
  /\ granted = [k \in Keys |-> 0]
  /\ spent = 0

-------------------------------------------------------------------------------
\* The limiter.

\* new Date() in the instance of a request.
Now(r) == clock + Skew[r]

\* No window, or one that is over.
Over(row, now) == row.count = 0 \/ now - row.started >= Window

\* Variant: the count starts again, and window_started_at stays.
Counted_KeepsStart(row, now) ==
  IF Over(row, now) THEN [started |-> IF row.count = 0 THEN now ELSE row.started, count |-> 1]
                    ELSE [row EXCEPT !.count = @ + 1]

\* The one statement of consume.
Counted(row, now) ==
  IF Over(row, now) THEN [started |-> now, count |-> 1]
                    ELSE [row EXCEPT !.count = @ + 1]

\* verdictFor.
Allows(k, count) == count <= Limit(k)

\* Variant: the count as it is, not as it would become.
Peeked_AsItIs(k, row, now) == Over(row, now) \/ Allows(k, row.count)

\* The verdict of peek: whether the next request would be allowed.
Peeked(k, row, now) == Over(row, now) \/ Allows(k, row.count + 1)

\* The verdict of consume, on what the count has become.
Consumed(k, now) == Allows(k, Counted(rows[k], now).count)

\* consume: the row is counted up. lets and spends say whether the window lets
\* another request through, and whether an upload spends in it.
Consume(k, now, lets, spends) ==
  LET fresh == Over(rows[k], now)
      Since(n) == IF fresh THEN 0 ELSE n
      One(b) == IF b THEN 1 ELSE 0
  IN  /\ fresh \/ rows[k].count < MaxCount
      /\ rows' = [rows EXCEPT ![k] = Counted(@, now)]
      /\ memory' = [memory EXCEPT ![k] = Counted(@, now)]
      /\ opened' = [opened EXCEPT ![k] = IF fresh THEN clock ELSE @]
      /\ granted' = [granted EXCEPT ![k] = Since(@) + One(lets)]
      /\ spent' = IF k = "deploys" THEN Since(spent) + One(spends) ELSE spent

-------------------------------------------------------------------------------
\* The requests. What a request does between two steps is its own affair: a file
\* that is refused, a put or an insert that fails, is Leave.

\* limitAttempts, the middleware before an upload.
LimitAttempts(r) ==
  LET allowed == Consumed("attempts", Now(r))
  IN  /\ requests[r].phase = "idle"
      /\ Consume("attempts", Now(r), allowed, FALSE)
      /\ requests' = [requests EXCEPT ![r].phase = IF allowed THEN "uploading" ELSE "idle"]
      /\ UNCHANGED clock

\* limitWrites, the middleware before a retry or a redeploy.
LimitWrites(r) ==
  /\ requests[r].phase = "idle"
  /\ Consume("deploys", Now(r), Consumed("deploys", Now(r)), FALSE)
  /\ UNCHANGED <<clock, requests>>

\* The file has been read, and the quota is looked at, not spent.
Peek(r) ==
  /\ requests[r].phase = "uploading"
  /\ requests' = [requests EXCEPT ![r] =
       IF Peeked("deploys", rows["deploys"], Now(r))
         THEN [phase |-> "creating", checked |-> TRUE]
         ELSE Idle]
  /\ UNCHANGED <<clock, rows, history>>

\* The archive is stored and the row inserted; then the quota is spent, whatever
\* the verdict.
Create(r) ==
  /\ requests[r].phase = "creating"
  /\ Consume("deploys", Now(r), FALSE, requests[r].checked)
  /\ requests' = [requests EXCEPT ![r] = Idle]
  /\ UNCHANGED clock

\* failOpen: a statement of the limiter throws, and the request is allowed. A
\* count whose answer is lost has been counted all the same.
FailOpen(r) ==
  LET after == [idle |-> "uploading", uploading |-> "creating", creating |-> "idle"]
  IN  /\ requests' = [requests EXCEPT ![r] = [phase |-> after[@.phase], checked |-> FALSE]]
      /\ \/ UNCHANGED <<rows, history>>
         \/ requests[r].phase = "idle" /\ Consume("attempts", Now(r), FALSE, FALSE)
      /\ UNCHANGED clock

\* The request fails, or the api stops.
Leave(r) ==
  /\ requests[r].phase # "idle"
  /\ requests' = [requests EXCEPT ![r] = Idle]
  /\ UNCHANGED <<clock, rows, history>>

-------------------------------------------------------------------------------
\* Variant: as old as the window.
Forgotten_TooSoon == { k \in Keys : rows[k].count > 0 /\ clock - rows[k].started >= Window }

\* forgetSpentRateLimits: "anything twice that old cannot affect a verdict".
Forgotten == { k \in Keys : rows[k].count > 0 /\ clock - rows[k].started > 2 * Window }

Forget ==
  /\ Forgotten # {}
  /\ rows' = [k \in Keys |-> IF k \in Forgotten THEN NoRow ELSE rows[k]]
  /\ UNCHANGED <<clock, requests, history>>

Tick ==
  /\ clock < MaxTime
  /\ clock' = clock + 1
  /\ UNCHANGED <<rows, requests, history>>

RequestStep(r) ==
  LimitAttempts(r) \/ LimitWrites(r) \/ Peek(r) \/ Create(r) \/ FailOpen(r) \/ Leave(r)

Next ==
  \/ \E r \in Requests : RequestStep(r)
  \/ Forget
  \/ Tick

Spec == Init /\ [][Next]_vars

-------------------------------------------------------------------------------
\* "Two instances arriving together cannot both read the same count and both
\* decide they are under the limit": a window lets no more than its limit through.
\* The quota of uploads is checked before and spent after, so uploads at work
\* together may overshoot it, but by no more than there are of them.
LimitsHold ==
  /\ \A k \in Keys : granted[k] <= Limit(k)
  /\ spent < DeployLimit + Cardinality(Requests)

\* Windows do not crowd: between the opening of one and of the next passes an
\* hour, less what the clocks are apart. So nobody gets more than two windows'
\* worth in that time, however rows are forgotten and clocks disagree.
WindowsAreApart ==
  [][\A k \in Keys :
       rows'[k].count = 1 /\ (rows'[k] # rows[k] \/ opened'[k] # opened[k]) =>
         clock - opened[k] >= Window - 2 * Drift]_vars

\* "Anything twice that old cannot affect a verdict": a row that was deleted would
\* be over at every time a statement can still carry.
ForgottenIsSpent ==
  \A k \in Keys : rows[k] # memory[k] =>
    rows[k].count = 0 /\ \A r \in Requests : Over(memory[k], Now(r))
===============================================================================
