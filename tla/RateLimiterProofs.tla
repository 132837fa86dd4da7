-------------------------- MODULE RateLimiterProofs --------------------------
(***************************************************************************)
(* Proofs about RateLimiter, for any number of requests, any limits and    *)
(* windows, and clocks that are apart by no more than a window.            *)
(***************************************************************************)
EXTENDS RateLimiter, FiniteSetTheorems, TLAPS

-------------------------------------------------------------------------------
\* The inductive invariant.

\* What a row says of its window: the table that forgets nothing has the same row;
\* and the count covers what the window has let through.
RowsAreCurrent ==
  \A k \in Keys : rows[k].count > 0 => memory[k] = rows[k] /\ granted[k] <= rows[k].count

\* Where there is no row, the last window is long over.
MissingRowsAreSpent ==
  \A k \in Keys : rows[k].count = 0 =>
    /\ clock - opened[k] >= Window - 2 * Drift
    /\ memory[k] = rows[k] \/ clock - memory[k].started > 2 * Window

\* Uploads are counted before they are spent.
SpentIsCounted == rows["deploys"].count > 0 => spent <= rows["deploys"].count

\* Uploads past the peek whose quota will be spent in the window as it is.
Pending == { r \in Requests : /\ requests[r].phase = "creating"
                              /\ requests[r].checked
                              /\ ~Over(rows["deploys"], Now(r)) }

QuotaIsKept == spent + Cardinality(Pending) < DeployLimit + Cardinality(Requests)

LimiterInv ==
  /\ LimiterTypeOK
  /\ \A k \in Keys : granted[k] <= Limit(k)
  /\ RowsAreCurrent
  /\ MissingRowsAreSpent
  /\ SpentIsCounted
  /\ QuotaIsKept

-------------------------------------------------------------------------------
\* Helpers.

\* Times are integers, and a request's is near the database's.
LEMMA TimesAreNear ==
  ASSUME NEW r \in Requests, clock \in Int
  PROVE  /\ Now(r) \in Int
         /\ Now(r) >= clock - Drift
         /\ Now(r) <= clock + Drift
  BY LimiterAssumption DEF Now

LEMMA LimitsArePositive ==
  \A k \in Keys : Limit(k) \in Nat /\ Limit(k) >= 1
  BY LimiterAssumption DEF Limit, Keys

\* Fewer pending uploads, and no more spent.
LEMMA QuotaByShrinking ==
  ASSUME QuotaIsKept, spent \in Nat, spent' = spent, Pending' \subseteq Pending
  PROVE  QuotaIsKept'
<1>1. IsFiniteSet(Pending)
  BY LimiterAssumption, FS_Subset DEF Pending
<1>2. Cardinality(Pending') <= Cardinality(Pending)
  BY <1>1, FS_Subset
<1>3. IsFiniteSet(Pending')
  BY <1>1, FS_Subset
<1>4. Cardinality(Pending) \in Nat /\ Cardinality(Pending') \in Nat /\ Cardinality(Requests) \in Nat
  BY <1>1, <1>3, LimiterAssumption, FS_CardinalityType
<1> QED
  BY <1>2, <1>4, LimiterAssumption DEF QuotaIsKept

\* There are no more pending uploads than requests, whatever the window.
LEMMA QuotaByCounting ==
  ASSUME spent' \in Nat, spent' < DeployLimit
  PROVE  QuotaIsKept'
<1>1. Pending' \subseteq Requests
  BY DEF Pending
<1>2. IsFiniteSet(Pending') /\ Cardinality(Pending') <= Cardinality(Requests)
  BY <1>1, LimiterAssumption, FS_Subset
<1>3. Cardinality(Pending') \in Nat /\ Cardinality(Requests) \in Nat
  BY <1>2, LimiterAssumption, FS_CardinalityType
<1> QED
  BY <1>2, <1>3, LimiterAssumption DEF QuotaIsKept

\* An upload that leaves makes room for one that is spent.
LEMMA QuotaByLeaving ==
  ASSUME NEW r \in Requests, spent' \in Nat, spent' <= DeployLimit, Pending' \subseteq Requests \ {r}
  PROVE  QuotaIsKept'
<1>1. IsFiniteSet(Requests \ {r}) /\ Cardinality(Requests \ {r}) = Cardinality(Requests) - 1
  BY LimiterAssumption, FS_RemoveElement
<1>2. IsFiniteSet(Pending') /\ Cardinality(Pending') <= Cardinality(Requests) - 1
  BY <1>1, FS_Subset
<1>3. Cardinality(Pending') \in Nat /\ Cardinality(Requests) \in Nat
  BY <1>2, LimiterAssumption, FS_CardinalityType
<1> QED
  BY <1>2, <1>3, LimiterAssumption DEF QuotaIsKept

\* What the one statement of consume does to the windows, whoever sends it.
LEMMA ConsumeKeepsWindows ==
  ASSUME LimiterInv, NEW r \in Requests, NEW k \in Keys,
         NEW lets \in BOOLEAN, NEW spends \in BOOLEAN,
         Consume(k, Now(r), lets, spends), lets => Consumed(k, Now(r)), clock' = clock,
         requests' \in [Requests -> Request]
  PROVE  /\ LimiterTypeOK'
         /\ \A j \in Keys : granted'[j] <= Limit(j)
         /\ RowsAreCurrent'
         /\ MissingRowsAreSpent'
         /\ SpentIsCounted'
<1> DEFINE now == Now(r)
           fresh == Over(rows[k], now)
<1>1. now \in Int /\ now >= clock - Drift /\ now <= clock + Drift /\ clock \in Int
  BY TimesAreNear, LimiterAssumption DEF LimiterInv, LimiterTypeOK
<1>2. rows[k] \in Row /\ memory[k] \in Row /\ opened[k] \in Int /\ granted[k] \in Nat /\ spent \in Nat
  BY DEF LimiterInv, LimiterTypeOK
<1>3. Counted(rows[k], now) \in Row /\ Counted(rows[k], now).count > 0
  BY <1>1, <1>2 DEF Counted, Row
<1>4. Counted(memory[k], now) = Counted(rows[k], now)
  <2>1. CASE rows[k].count > 0
    BY <2>1 DEF LimiterInv, RowsAreCurrent
  <2>2. CASE rows[k].count = 0
    <3>1. CASE memory[k] = rows[k]
      BY <3>1
    <3>2. CASE clock - memory[k].started > 2 * Window
      <4>1. Over(memory[k], now)
        BY <3>2, <1>1, <1>2, LimiterAssumption DEF Over, Row
      <4>2. Over(rows[k], now)
        BY <2>2 DEF Over
      <4> QED
        BY <4>1, <4>2 DEF Counted
    <3> QED
      BY <2>2, <3>1, <3>2 DEF LimiterInv, MissingRowsAreSpent
  <2> QED
    BY <1>2, <2>1, <2>2 DEF Row
<1>5. /\ rows' = [rows EXCEPT ![k] = Counted(rows[k], now)]
      /\ memory' = [memory EXCEPT ![k] = Counted(memory[k], now)]
      /\ opened' = [opened EXCEPT ![k] = IF fresh THEN clock ELSE opened[k]]
      /\ granted' = [granted EXCEPT ![k] = (IF fresh THEN 0 ELSE granted[k]) + (IF lets THEN 1 ELSE 0)]
      /\ spent' = IF k = "deploys" THEN (IF fresh THEN 0 ELSE spent) + (IF spends THEN 1 ELSE 0)
                                   ELSE spent
  BY DEF Consume
<1>6. /\ rows \in [Keys -> Row] /\ memory \in [Keys -> Row]
      /\ opened \in [Keys -> Int] /\ granted \in [Keys -> Nat]
  BY DEF LimiterInv, LimiterTypeOK
<1>7. /\ rows'[k] = Counted(rows[k], now) /\ memory'[k] = rows'[k]
      /\ opened'[k] = IF fresh THEN clock ELSE opened[k]
      /\ granted'[k] = (IF fresh THEN 0 ELSE granted[k]) + (IF lets THEN 1 ELSE 0)
  BY <1>4, <1>5, <1>6
<1>8. \A j \in Keys \ {k} : /\ rows'[j] = rows[j] /\ memory'[j] = memory[j]
                            /\ opened'[j] = opened[j] /\ granted'[j] = granted[j]
  BY <1>5, <1>6
<1>9. rows[k].count \in Nat /\ rows[k].started \in Int
  BY <1>2 DEF Row
<1>10. ~fresh => rows'[k].count = rows[k].count + 1 /\ rows'[k].started = rows[k].started
                 /\ rows[k].count > 0
  BY <1>2, <1>7, <1>9 DEF Counted, Over, Row
<1>11. fresh => rows'[k].count = 1 /\ rows'[k].started = now
  BY <1>7 DEF Counted
<1>12. LimiterTypeOK'
  <2>1. rows' \in [Keys -> Row] /\ memory' \in [Keys -> Row]
    BY <1>3, <1>4, <1>5, <1>6
  <2>2. opened' \in [Keys -> Int] /\ granted' \in [Keys -> Nat] /\ spent' \in Nat
    BY <1>1, <1>2, <1>5, <1>6
  <2>3. \A j \in Keys : rows'[j].count > 0 =>
          rows'[j].started \in opened'[j] - Drift .. opened'[j] + Drift
    <3>1. CASE fresh
      <4>1. rows'[k].started \in opened'[k] - Drift .. opened'[k] + Drift
        BY <3>1, <1>1, <1>7, <1>11, LimiterAssumption
      <4> QED
        BY <4>1, <1>8 DEF LimiterInv, LimiterTypeOK
    <3>2. CASE ~fresh
      <4>1. rows'[k].started \in opened'[k] - Drift .. opened'[k] + Drift
        BY <3>2, <1>7, <1>10 DEF LimiterInv, LimiterTypeOK
      <4> QED
        BY <4>1, <1>8 DEF LimiterInv, LimiterTypeOK
    <3> QED
      BY <3>1, <3>2
  <2> QED
    BY <2>1, <2>2, <2>3 DEF LimiterInv, LimiterTypeOK
<1>13. lets => rows'[k].count <= Limit(k)
  BY <1>7 DEF Consumed, Allows
<1>14. granted'[k] <= rows'[k].count /\ granted'[k] <= Limit(k)
  <2>1. CASE fresh
    BY <2>1, <1>7, <1>11, LimitsArePositive
  <2>2. CASE ~fresh
    <3>1. granted[k] <= rows[k].count /\ granted[k] <= Limit(k)
      BY <2>2, <1>10 DEF LimiterInv, RowsAreCurrent
    <3>2. granted'[k] <= rows'[k].count
      BY <3>1, <2>2, <1>2, <1>7, <1>9, <1>10
    <3>3. granted'[k] <= Limit(k)
      <4>1. CASE lets
        BY <4>1, <3>2, <1>13, <1>2, <1>7, <1>9, <1>10, <2>2, LimitsArePositive
      <4>2. CASE ~lets
        BY <4>2, <3>1, <2>2, <1>2, <1>7
      <4> QED
        BY <4>1, <4>2
    <3> QED
      BY <3>2, <3>3
  <2> QED
    BY <2>1, <2>2
<1>15. \A j \in Keys : granted'[j] <= Limit(j)
  BY <1>8, <1>14 DEF LimiterInv
<1>16. RowsAreCurrent'
  BY <1>7, <1>8, <1>14 DEF LimiterInv, RowsAreCurrent
<1>17. MissingRowsAreSpent'
  BY <1>3, <1>7, <1>8 DEF LimiterInv, MissingRowsAreSpent, Row
<1>18. SpentIsCounted'
  <2>1. CASE k = "deploys"
    <3>1. CASE fresh
      BY <2>1, <3>1, <1>5, <1>11 DEF SpentIsCounted
    <3>2. CASE ~fresh
      <4>1. spent <= rows[k].count
        BY <2>1, <3>2, <1>10 DEF LimiterInv, SpentIsCounted
      <4> QED
        BY <2>1, <3>2, <4>1, <1>2, <1>5, <1>9, <1>10 DEF SpentIsCounted
    <3> QED
      BY <3>1, <3>2
  <2>2. CASE k # "deploys"
    <3>1. "deploys" \in Keys \ {k}
      BY <2>2 DEF Keys
    <3> QED
      BY <2>2, <3>1, <1>5, <1>8 DEF LimiterInv, SpentIsCounted
  <2> QED
    BY <2>1, <2>2
<1> QED
  BY <1>12, <1>15, <1>16, <1>17, <1>18

\* A window that is not over stays the window it is when it is counted up.
LEMMA CountingKeepsWindow ==
  ASSUME NEW row \in Row, NEW now \in Int, ~Over(row, now), NEW t \in Int
  PROVE  Over(Counted(row, now), t) <=> Over(row, t)
  BY DEF Over, Counted, Row

\* A step that touches neither windows nor the clock, and makes no upload pending.
LEMMA QuietStep ==
  ASSUME LimiterInv, UNCHANGED <<clock, rows, history>>, requests' \in [Requests -> Request],
         Pending' \subseteq Pending
  PROVE  LimiterInv'
<1>1. QuotaIsKept'
  BY QuotaByShrinking DEF LimiterInv, LimiterTypeOK, history
<1> QED
  BY <1>1 DEF LimiterInv, LimiterTypeOK, RowsAreCurrent, MissingRowsAreSpent, SpentIsCounted, history

-------------------------------------------------------------------------------
\* The invariant is kept.

LEMMA InitIsSound == Init => LimiterInv
<1> SUFFICES ASSUME Init PROVE LimiterInv
  OBVIOUS
<1>1. rows = [k \in Keys |-> NoRow] /\ memory = rows
  BY DEF Init
<1>2. \A k \in Keys : rows[k].count = 0 /\ memory[k] = rows[k]
  BY <1>1 DEF NoRow
<1>3. LimiterTypeOK
  BY <1>2, LimiterAssumption DEF Init, LimiterTypeOK, Row, NoRow, Request, Idle
<1>4. MissingRowsAreSpent
  BY <1>2, LimiterAssumption DEF Init, MissingRowsAreSpent
<1>5. QuotaIsKept
  <2>1. Pending = {}
    BY DEF Init, Pending, Idle
  <2>2. Cardinality(Pending) = 0 /\ Cardinality(Requests) \in Nat
    BY <2>1, LimiterAssumption, FS_EmptySet, FS_CardinalityType
  <2> QED
    BY <2>2, LimiterAssumption DEF Init, QuotaIsKept
<1>6. \A k \in Keys : granted[k] <= Limit(k)
  BY LimitsArePositive DEF Init
<1> QED
  BY <1>2, <1>3, <1>4, <1>5, <1>6 DEF LimiterInv, RowsAreCurrent, SpentIsCounted, Keys

\* limitAttempts, and a count of attempts whose answer is lost, leave the quota alone.
LEMMA AttemptsKeepQuota ==
  ASSUME LimiterInv, NEW r \in Requests, NEW lets \in BOOLEAN,
         Consume("attempts", Now(r), lets, FALSE), requests[r].phase = "idle",
         NEW q \in Request, q.phase # "creating" \/ ~q.checked,
         requests' = [requests EXCEPT ![r] = q], clock' = clock
  PROVE  QuotaIsKept'
<1>1. rows'["deploys"] = rows["deploys"] /\ spent' = spent
  BY DEF Consume, LimiterInv, LimiterTypeOK, Keys
<1>2. Pending' \subseteq Pending
  BY <1>1 DEF Pending, Now, LimiterInv, LimiterTypeOK
<1> QED
  BY <1>1, <1>2, QuotaByShrinking DEF LimiterInv, LimiterTypeOK

LEMMA LimitAttemptsIsSound ==
  ASSUME LimiterInv, NEW r \in Requests, LimitAttempts(r)
  PROVE  LimiterInv'
<1> DEFINE allowed == Consumed("attempts", Now(r))
<1>1. /\ requests[r].phase = "idle" /\ clock' = clock
      /\ Consume("attempts", Now(r), allowed, FALSE)
      /\ requests' = [requests EXCEPT ![r].phase = IF allowed THEN "uploading" ELSE "idle"]
  BY DEF LimitAttempts
<1>2. PICK q \in Request : q.phase # "creating" /\ requests' = [requests EXCEPT ![r] = q]
  <2> DEFINE q == [requests[r] EXCEPT !.phase = IF allowed THEN "uploading" ELSE "idle"]
  <2>1. q \in Request /\ q.phase # "creating"
    BY DEF LimiterInv, LimiterTypeOK, Request
  <2>2. requests' = [requests EXCEPT ![r] = q]
    BY <1>1 DEF LimiterInv, LimiterTypeOK
  <2> QED
    BY <2>1, <2>2
<1>3. requests' \in [Requests -> Request]
  BY <1>2 DEF LimiterInv, LimiterTypeOK
<1>4. allowed \in BOOLEAN /\ "attempts" \in Keys
  BY DEF Consumed, Allows, Keys
<1>5. QuotaIsKept'
  BY <1>1, <1>2, <1>4, AttemptsKeepQuota
<1> QED
  BY <1>1, <1>3, <1>4, <1>5, ConsumeKeepsWindows DEF LimiterInv

LEMMA LimitWritesIsSound ==
  ASSUME LimiterInv, NEW r \in Requests, LimitWrites(r)
  PROVE  LimiterInv'
<1>1. /\ requests[r].phase = "idle" /\ clock' = clock /\ requests' = requests
      /\ requests \in [Requests -> Request]
  BY DEF LimitWrites, LimiterInv, LimiterTypeOK
<1>2. PICK lets \in {FALSE, Consumed("deploys", Now(r))} : Consume("deploys", Now(r), lets, FALSE)
  BY DEF LimitWrites
<1>3. lets \in BOOLEAN /\ (lets => Consumed("deploys", Now(r))) /\ "deploys" \in Keys
  <2>1. Consumed("deploys", Now(r)) \in BOOLEAN
    BY DEF Consumed, Allows
  <2>2. lets = FALSE \/ lets = Consumed("deploys", Now(r))
    BY <1>2, Zenon
  <2> QED
    BY <2>1, <2>2, Zenon DEF Keys
<1>4. /\ LimiterTypeOK' /\ RowsAreCurrent' /\ MissingRowsAreSpent' /\ SpentIsCounted'
      /\ \A j \in Keys : granted'[j] <= Limit(j)
  BY <1>1, <1>2, <1>3, ConsumeKeepsWindows
<1>5. QuotaIsKept'
  <2>1. CASE Over(rows["deploys"], Now(r))
    <3>1. spent' = 0
      BY <1>2, <2>1 DEF Consume
    <3> QED
      BY <3>1, QuotaByCounting, LimiterAssumption
  <2>2. CASE ~Over(rows["deploys"], Now(r))
    <3>1. rows'["deploys"] = Counted(rows["deploys"], Now(r)) /\ spent' = spent /\ spent \in Nat
      BY <1>2, <1>3, <2>2 DEF Consume, LimiterInv, LimiterTypeOK
    <3>2. \A s \in Requests : Over(rows'["deploys"], Now(s)) <=> Over(rows["deploys"], Now(s))
      BY <3>1, <2>2, <1>3, CountingKeepsWindow, TimesAreNear DEF LimiterInv, LimiterTypeOK
    <3>3. Pending' \subseteq Pending
      BY <1>1, <3>2 DEF Pending, Now
    <3> QED
      BY <3>1, <3>3, QuotaByShrinking DEF LimiterInv
  <2> QED
    BY <2>1, <2>2
<1> QED
  BY <1>4, <1>5 DEF LimiterInv

LEMMA PeekIsSound ==
  ASSUME LimiterInv, NEW r \in Requests, Peek(r)
  PROVE  LimiterInv'
<1> DEFINE row == rows["deploys"]
           now == Now(r)
<1>1. /\ UNCHANGED <<clock, rows, history>> /\ requests \in [Requests -> Request]
      /\ requests' = [requests EXCEPT ![r] = IF Peeked("deploys", row, now)
                        THEN [phase |-> "creating", checked |-> TRUE] ELSE Idle]
  BY DEF Peek, LimiterInv, LimiterTypeOK
<1>2. requests' \in [Requests -> Request]
  BY <1>1 DEF Request, Idle
<1>3. CASE Over(row, now) \/ ~Peeked("deploys", row, now)
  <2>1. Pending' \subseteq Pending
    BY <1>1, <1>3 DEF Pending, Now, Idle
  <2> QED
    BY <1>1, <1>2, <2>1, QuietStep
<1>4. CASE ~Over(row, now) /\ Peeked("deploys", row, now)
  <2>1. row \in Row /\ row.count > 0 /\ spent \in Nat /\ spent' = spent
    BY <1>1, <1>4 DEF LimiterInv, LimiterTypeOK, Keys, Row, Over, history
  <2>2. spent <= row.count
    BY <2>1 DEF LimiterInv, SpentIsCounted
  <2>3. row.count + 1 <= DeployLimit
    BY <1>4 DEF Peeked, Allows, Limit
  <2>4. QuotaIsKept'
    BY <2>1, <2>2, <2>3, QuotaByCounting, LimiterAssumption DEF Row
  <2> QED
    BY <1>1, <1>2, <2>4
       DEF LimiterInv, LimiterTypeOK, RowsAreCurrent, MissingRowsAreSpent, SpentIsCounted, history
<1> QED
  BY <1>3, <1>4

LEMMA CreateIsSound ==
  ASSUME LimiterInv, NEW r \in Requests, Create(r)
  PROVE  LimiterInv'
<1> DEFINE spends == requests[r].checked
<1>1. /\ requests[r].phase = "creating" /\ clock' = clock /\ requests \in [Requests -> Request]
      /\ Consume("deploys", Now(r), FALSE, spends)
      /\ requests' = [requests EXCEPT ![r] = Idle]
  BY DEF Create, LimiterInv, LimiterTypeOK
<1>2. requests' \in [Requests -> Request] /\ "deploys" \in Keys /\ spends \in BOOLEAN
  BY <1>1 DEF Request, Idle, Keys
<1>3. /\ LimiterTypeOK' /\ RowsAreCurrent' /\ MissingRowsAreSpent' /\ SpentIsCounted'
      /\ \A j \in Keys : granted'[j] <= Limit(j)
  BY <1>1, <1>2, ConsumeKeepsWindows
<1>4. Pending' \subseteq Requests \ {r}
  BY <1>1 DEF Pending, Idle
<1>5. QuotaIsKept'
  <2>1. CASE Over(rows["deploys"], Now(r))
    <3>1. spent' \in Nat /\ spent' <= DeployLimit
      BY <1>1, <2>1, LimiterAssumption DEF Consume
    <3> QED
      BY <1>4, <3>1, QuotaByLeaving
  <2>2. CASE ~Over(rows["deploys"], Now(r))
    <3>1. /\ rows'["deploys"] = Counted(rows["deploys"], Now(r))
          /\ spent' = spent + (IF spends THEN 1 ELSE 0) /\ spent \in Nat
      BY <1>1, <1>2, <2>2 DEF Consume, LimiterInv, LimiterTypeOK
    <3>2. \A s \in Requests : Over(rows'["deploys"], Now(s)) <=> Over(rows["deploys"], Now(s))
      BY <3>1, <2>2, <1>2, CountingKeepsWindow, TimesAreNear DEF LimiterInv, LimiterTypeOK
    <3>3. Pending' \subseteq Pending \ {r}
      BY <1>1, <1>4, <3>2 DEF Pending, Now
    <3>4. CASE ~spends
      <4>1. spent' = spent
        BY <3>1, <3>4
      <4> QED
        BY <3>1, <3>3, <4>1, QuotaByShrinking DEF LimiterInv
    <3>5. CASE spends
      <4>1. r \in Pending
        BY <1>1, <2>2, <3>5 DEF Pending
      <4>2. IsFiniteSet(Pending)
        BY LimiterAssumption, FS_Subset DEF Pending
      <4>3. IsFiniteSet(Pending \ {r}) /\ Cardinality(Pending \ {r}) = Cardinality(Pending) - 1
        BY <4>1, <4>2, FS_RemoveElement
      <4>4. IsFiniteSet(Pending') /\ Cardinality(Pending') <= Cardinality(Pending) - 1
        BY <3>3, <4>3, FS_Subset
      <4>5. /\ Cardinality(Pending) \in Nat /\ Cardinality(Pending') \in Nat
            /\ Cardinality(Requests) \in Nat
        BY <4>2, <4>4, LimiterAssumption, FS_CardinalityType
      <4>6. spent' = spent + 1
        BY <3>1, <3>5
      <4> QED
        BY <3>1, <4>4, <4>5, <4>6, LimiterAssumption DEF LimiterInv, QuotaIsKept
    <3> QED
      BY <3>4, <3>5
  <2> QED
    BY <2>1, <2>2
<1> QED
  BY <1>3, <1>5 DEF LimiterInv

LEMMA FailOpenIsSound ==
  ASSUME LimiterInv, NEW r \in Requests, FailOpen(r)
  PROVE  LimiterInv'
<1>1. PICK q \in Request : ~q.checked /\ requests' = [requests EXCEPT ![r] = q]
  <2>1. requests[r].phase \in {"idle", "uploading", "creating"}
    BY DEF LimiterInv, LimiterTypeOK, Request
  <2>2. requests' = [requests EXCEPT ![r] =
          [ phase |-> [idle |-> "uploading", uploading |-> "creating",
                       creating |-> "idle"][requests[r].phase], checked |-> FALSE ]]
    BY DEF FailOpen, LimiterInv, LimiterTypeOK
  <2>3. [ phase |-> [idle |-> "uploading", uploading |-> "creating",
                     creating |-> "idle"][requests[r].phase], checked |-> FALSE ] \in Request
    BY <2>1 DEF Request
  <2> QED
    BY <2>2, <2>3
<1>2. clock' = clock /\ requests \in [Requests -> Request] /\ requests' \in [Requests -> Request]
  BY <1>1 DEF FailOpen, LimiterInv, LimiterTypeOK
<1>3. CASE UNCHANGED <<rows, history>>
  <2>1. Pending' \subseteq Pending
    BY <1>1, <1>2, <1>3 DEF Pending, Now
  <2> QED
    BY <1>2, <1>3, <2>1, QuietStep
<1>4. CASE requests[r].phase = "idle" /\ Consume("attempts", Now(r), FALSE, FALSE)
  <2>1. "attempts" \in Keys
    BY DEF Keys
  <2>2. QuotaIsKept'
    BY <1>1, <1>2, <1>4, AttemptsKeepQuota
  <2> QED
    BY <1>2, <1>4, <2>1, <2>2, ConsumeKeepsWindows DEF LimiterInv
<1> QED
  BY <1>3, <1>4 DEF FailOpen

LEMMA LeaveIsSound ==
  ASSUME LimiterInv, NEW r \in Requests, Leave(r)
  PROVE  LimiterInv'
<1>1. /\ UNCHANGED <<clock, rows, history>> /\ requests \in [Requests -> Request]
      /\ requests' = [requests EXCEPT ![r] = Idle]
  BY DEF Leave, LimiterInv, LimiterTypeOK
<1>2. requests' \in [Requests -> Request]
  BY <1>1 DEF Request, Idle
<1>3. Pending' \subseteq Pending
  BY <1>1 DEF Pending, Now, Idle
<1> QED
  BY <1>1, <1>2, <1>3, QuietStep

LEMMA ForgetIsSound ==
  ASSUME LimiterInv, Forget
  PROVE  LimiterInv'
<1>1. /\ UNCHANGED <<clock, requests, history>> /\ clock \in Int
      /\ rows' = [k \in Keys |-> IF k \in Forgotten THEN NoRow ELSE rows[k]]
      /\ rows \in [Keys -> Row]
  BY LimiterAssumption DEF Forget, LimiterInv, LimiterTypeOK
<1>2. NoRow \in Row /\ NoRow.count = 0
  BY DEF NoRow, Row
<1>3. \A k \in Forgotten : rows'[k] = NoRow
  BY <1>1 DEF Forgotten
<1>4. \A k \in Keys \ Forgotten : rows'[k] = rows[k]
  BY <1>1
<1>5. LimiterTypeOK'
  BY <1>1, <1>2 DEF LimiterInv, LimiterTypeOK, history
<1>6. RowsAreCurrent' /\ SpentIsCounted'
  BY <1>1, <1>2, <1>3, <1>4 DEF LimiterInv, RowsAreCurrent, SpentIsCounted, history, Keys
<1>7. MissingRowsAreSpent'
  <2> SUFFICES ASSUME NEW k \in Keys, rows'[k].count = 0
               PROVE  /\ clock - opened[k] >= Window - 2 * Drift
                      /\ memory[k] = rows'[k] \/ clock - memory[k].started > 2 * Window
    BY <1>1 DEF MissingRowsAreSpent, history
  <2>1. CASE k \in Forgotten
    <3>1. rows[k].count > 0 /\ clock - rows[k].started > 2 * Window
      BY <2>1 DEF Forgotten
    <3>2. /\ memory[k] = rows[k] /\ rows[k].started \in Int /\ opened[k] \in Int
          /\ rows[k].started >= opened[k] - Drift
      BY <1>1, <3>1, LimiterAssumption DEF LimiterInv, LimiterTypeOK, RowsAreCurrent, Row
    <3>3. Window \in Int /\ Drift \in Int /\ 0 <= Drift /\ Drift <= Window
      BY LimiterAssumption
    <3>4. clock - opened[k] >= Window - 2 * Drift
      BY <1>1, <3>1, <3>2, <3>3
    <3> QED
      BY <3>1, <3>2, <3>4
  <2>2. CASE k \notin Forgotten
    BY <2>2, <1>4 DEF LimiterInv, MissingRowsAreSpent
  <2> QED
    BY <2>1, <2>2
<1>8. QuotaIsKept'
  <2>1. rows'["deploys"] = rows["deploys"] \/ rows'["deploys"].count = 0
    BY <1>2, <1>3, <1>4 DEF Keys
  <2>2. Pending' \subseteq Pending
    BY <1>1, <2>1 DEF Pending, Now, Over
  <2> QED
    BY <1>1, <2>2, QuotaByShrinking DEF LimiterInv, LimiterTypeOK, history
<1> QED
  BY <1>1, <1>5, <1>6, <1>7, <1>8 DEF LimiterInv, history

LEMMA TickIsSound ==
  ASSUME LimiterInv, Tick
  PROVE  LimiterInv'
<1>1. /\ clock \in Int /\ clock' = clock + 1 /\ clock' \in 0 .. MaxTime
      /\ UNCHANGED <<rows, requests, history>>
  BY LimiterAssumption DEF Tick, LimiterInv, LimiterTypeOK
<1>2. LimiterTypeOK' /\ RowsAreCurrent' /\ SpentIsCounted'
  BY <1>1 DEF LimiterInv, LimiterTypeOK, RowsAreCurrent, SpentIsCounted, history
<1>3. MissingRowsAreSpent'
  BY <1>1, LimiterAssumption DEF LimiterInv, LimiterTypeOK, MissingRowsAreSpent, history, Row
<1>4. Pending' \subseteq Pending
  <2>1. rows["deploys"] \in Row
    BY DEF LimiterInv, LimiterTypeOK, Keys
  <2>2. \A r \in Requests : Over(rows["deploys"], Now(r)) => Over(rows["deploys"], Now(r))'
    BY <1>1, <2>1, LimiterAssumption DEF Over, Now, Row
  <2> QED
    BY <1>1, <2>2 DEF Pending
<1> QED
  BY <1>1, <1>2, <1>3, <1>4, QuotaByShrinking DEF LimiterInv, LimiterTypeOK, history

LEMMA NextIsSound == LimiterInv /\ [Next]_vars => LimiterInv'
<1> SUFFICES ASSUME LimiterInv, [Next]_vars PROVE LimiterInv'
  OBVIOUS
<1>1. ASSUME NEW r \in Requests, RequestStep(r) PROVE LimiterInv'
  BY <1>1, LimitAttemptsIsSound, LimitWritesIsSound, PeekIsSound, CreateIsSound,
     FailOpenIsSound, LeaveIsSound DEF RequestStep
<1>2. CASE UNCHANGED vars
  <2>1. Pending' \subseteq Pending
    BY <1>2 DEF Pending, Now, vars
  <2>2. requests' \in [Requests -> Request] /\ UNCHANGED <<clock, rows, history>>
    BY <1>2 DEF vars, LimiterInv, LimiterTypeOK
  <2> QED
    BY <2>1, <2>2, QuietStep
<1> QED
  BY <1>1, <1>2, ForgetIsSound, TickIsSound DEF Next

LEMMA InvHolds == Spec => []LimiterInv
  BY InitIsSound, NextIsSound, PTL DEF Spec

-------------------------------------------------------------------------------
\* The results.

\* The variables of the limiter keep their types, and a window starts when it is
\* opened, give or take what clocks differ.
THEOREM LimiterTypeCorrect == Spec => []LimiterTypeOK
<1>1. LimiterInv => LimiterTypeOK
  BY DEF LimiterInv
<1> QED
  BY <1>1, InvHolds, PTL

\* consume and peek: a window lets no more than its limit through, and uploads
\* overshoot the quota by fewer than are at work.
THEOREM LimitsAreKept == Spec => []LimitsHold
<1>1. LimiterInv => LimitsHold
  <2> SUFFICES ASSUME LimiterInv PROVE LimitsHold
    OBVIOUS
  <2>1. IsFiniteSet(Pending)
    BY LimiterAssumption, FS_Subset DEF Pending
  <2>2. Cardinality(Pending) \in Nat /\ Cardinality(Requests) \in Nat
    BY <2>1, LimiterAssumption, FS_CardinalityType
  <2> QED
    BY <2>2, LimiterAssumption DEF LimiterInv, QuotaIsKept, LimitsHold, LimiterTypeOK
<1> QED
  BY <1>1, InvHolds, PTL

\* forgetSpentRateLimits: a row that was deleted would be over at every time a
\* statement can still carry.
THEOREM ForgettingIsHarmless == Spec => []ForgottenIsSpent
<1>1. LimiterInv => ForgottenIsSpent
  <2> SUFFICES ASSUME LimiterInv, NEW k \in Keys, rows[k] # memory[k]
               PROVE  rows[k].count = 0 /\ \A r \in Requests : Over(memory[k], Now(r))
    BY DEF ForgottenIsSpent
  <2>1. rows[k] \in Row /\ memory[k] \in Row /\ clock \in Int
    BY LimiterAssumption DEF LimiterInv, LimiterTypeOK
  <2>2. rows[k].count = 0
    BY <2>1 DEF LimiterInv, RowsAreCurrent, Row
  <2>3. clock - memory[k].started > 2 * Window
    BY <2>2 DEF LimiterInv, MissingRowsAreSpent
  <2>4. ASSUME NEW r \in Requests PROVE Over(memory[k], Now(r))
    BY <2>1, <2>3, TimesAreNear, LimiterAssumption DEF Over, Row
  <2> QED
    BY <2>2, <2>4
<1> QED
  BY <1>1, InvHolds, PTL

\* Windows of one key are opened an hour apart, less what clocks differ, however
\* rows are forgotten.
THEOREM WindowsStayApart == Spec => WindowsAreApart
<1> DEFINE Apart == \A k \in Keys :
             rows'[k].count = 1 /\ (rows'[k] # rows[k] \/ opened'[k] # opened[k]) =>
               clock - opened[k] >= Window - 2 * Drift
<1>1. ASSUME LimiterInv, NEW k \in Keys, NEW r \in Requests, NEW j \in Keys,
             NEW lets, NEW spends, Consume(j, Now(r), lets, spends),
             rows'[k].count = 1, rows'[k] # rows[k] \/ opened'[k] # opened[k]
      PROVE  clock - opened[k] >= Window - 2 * Drift
  <2>1. rows[k] \in Row /\ opened[k] \in Int /\ clock \in Int
    BY <1>1, LimiterAssumption DEF LimiterInv, LimiterTypeOK
  <2>2. Now(r) \in Int /\ Now(r) <= clock + Drift
    BY <2>1, TimesAreNear
  <2>3. k = j /\ rows'[k] = Counted(rows[k], Now(r))
    BY <1>1 DEF Consume, LimiterInv, LimiterTypeOK
  <2>4. Over(rows[k], Now(r))
    BY <1>1, <2>1, <2>3 DEF Counted, Over, Row
  <2>5. CASE rows[k].count = 0
    BY <1>1, <2>5 DEF LimiterInv, MissingRowsAreSpent
  <2>6. CASE rows[k].count # 0
    <3>1. /\ rows[k].started \in Int /\ rows[k].started >= opened[k] - Drift
      BY <1>1, <2>1, <2>6, LimiterAssumption DEF LimiterInv, LimiterTypeOK, Row
    <3> QED
      BY <2>1, <2>2, <2>4, <2>6, <3>1, LimiterAssumption DEF Over
  <2> QED
    BY <2>5, <2>6
<1>2. LimiterInv /\ [Next]_vars => [Apart]_vars
  <2> SUFFICES ASSUME LimiterInv, Next, NEW k \in Keys,
                      rows'[k].count = 1, rows'[k] # rows[k] \/ opened'[k] # opened[k]
               PROVE  clock - opened[k] >= Window - 2 * Drift
    OBVIOUS
  <2>1. ASSUME NEW r \in Requests, RequestStep(r)
        PROVE  clock - opened[k] >= Window - 2 * Drift
    <3>1. \/ UNCHANGED <<rows, opened>>
          \/ \E j \in Keys : \E lets, spends \in BOOLEAN : Consume(j, Now(r), lets, spends)
      <4>1. "attempts" \in Keys /\ "deploys" \in Keys /\ Consumed("attempts", Now(r)) \in BOOLEAN
        BY DEF Keys, Consumed, Allows
      <4>2. Consumed("deploys", Now(r)) \in BOOLEAN /\ requests[r].checked \in BOOLEAN
        BY DEF Consumed, Allows, LimiterInv, LimiterTypeOK, Request
      <4>3. CASE LimitAttempts(r)
        BY <4>1, <4>3 DEF LimitAttempts
      <4>4. CASE LimitWrites(r)
        BY <4>1, <4>2, <4>4 DEF LimitWrites
      <4>5. CASE Peek(r) \/ Leave(r)
        BY <4>5 DEF Peek, Leave, history
      <4>6. CASE Create(r)
        BY <4>1, <4>2, <4>6 DEF Create
      <4>7. CASE FailOpen(r)
        BY <4>1, <4>7 DEF FailOpen, history
      <4> QED
        BY <2>1, <4>3, <4>4, <4>5, <4>6, <4>7 DEF RequestStep
    <3> QED
      BY <1>1, <3>1
  <2>2. CASE Forget
    <3>1. rows'[k] = rows[k] \/ rows'[k].count = 0
      BY <2>2 DEF Forget, NoRow
    <3> QED
      BY <2>2, <3>1 DEF Forget, history
  <2>3. CASE Tick
    BY <2>3 DEF Tick, history
  <2> QED
    BY <2>1, <2>2, <2>3 DEF Next
<1>3. Spec => [][Apart]_vars
  BY <1>2, InvHolds, PTL DEF Spec
<1> QED
  BY <1>3 DEF WindowsAreApart
===============================================================================
