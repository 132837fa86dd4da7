--------------------------- MODULE BuildStepsProofs ---------------------------
(***************************************************************************)
(* Proofs about BuildSandbox and BuildSteps, for any number of attempts    *)
(* and lines, any budget and any flushing: the order of the log and what   *)
(* is in it, the lifecycle that the attempts follow; and, for any projects *)
(* and requests, the types and what visitors get of a site.                *)
(***************************************************************************)
EXTENDS BuildSteps, SequenceTheorems, FiniteSetTheorems, TLAPS

-------------------------------------------------------------------------------
\* The log, the batches that wait for their insert, and the buffer: each in order, and
\* before the next.

AllInOrder(q) == \A i, j \in 1 .. Len(q) : i < j => InOrder(q[i], q[j])
Before(q, r) == \A i \in 1 .. Len(q), j \in 1 .. Len(r) : InOrder(q[i], r[j])

Ordered(lines, batches, buffer) ==
  /\ AllInOrder(lines) /\ AllInOrder(buffer) /\ Before(lines, buffer)
  /\ \A k \in 1 .. Len(batches) :
       /\ AllInOrder(batches[k]) /\ Before(lines, batches[k]) /\ Before(batches[k], buffer)
       /\ \A m \in 1 .. Len(batches) : k < m => Before(batches[k], batches[m])

LEMMA FlushKeepsOrder ==
  ASSUME NEW lines \in Seq(Line), NEW batches \in Seq(Seq(Line)), NEW buffer \in Seq(Line),
         Ordered(lines, batches, buffer)
  PROVE  Ordered(lines, Append(batches, buffer), <<>>)
<1> DEFINE longer == Append(batches, buffer)
<1>1. /\ Len(longer) = Len(batches) + 1 /\ longer[Len(longer)] = buffer
      /\ \A k \in 1 .. Len(batches) : longer[k] = batches[k]
      /\ Len(batches) \in Nat
  OBVIOUS
<1>2. AllInOrder(<<>>) /\ \A q : Before(q, <<>>)
  BY DEF AllInOrder, Before
<1> HIDE DEF longer
<1>3. \A k \in 1 .. Len(longer) : AllInOrder(longer[k]) /\ Before(lines, longer[k])
  BY <1>1 DEF Ordered
<1>4. ASSUME NEW k \in 1 .. Len(longer), NEW m \in 1 .. Len(longer), k < m
      PROVE  Before(longer[k], longer[m])
  <2>1. k \in 1 .. Len(batches) /\ longer[k] = batches[k]
    BY <1>1, <1>4
  <2>2. CASE m = Len(longer)
    BY <1>1, <2>1, <2>2 DEF Ordered
  <2>3. CASE m # Len(longer)
    <3>1. m \in 1 .. Len(batches) /\ longer[m] = batches[m]
      BY <1>1, <2>3
    <3> QED
      BY <1>4, <2>1, <3>1 DEF Ordered
  <2> QED
    BY <2>2, <2>3
<1>5. AllInOrder(lines)
  BY DEF Ordered
<1> QED
  BY <1>2, <1>3, <1>4, <1>5 DEF Ordered, longer

\* A line that comes after everything may be buffered.
Last(q, line) == \A i \in 1 .. Len(q) : InOrder(q[i], line)

LEMMA LastExtends ==
  ASSUME NEW q \in Seq(Line), NEW line \in Line, Last(q, line)
  PROVE  /\ AllInOrder(q) => AllInOrder(Append(q, line))
         /\ \A r \in Seq(Line) : Before(r, q) /\ Last(r, line) => Before(r, Append(q, line))
<1>1. /\ Len(Append(q, line)) = Len(q) + 1 /\ Append(q, line)[Len(q) + 1] = line
      /\ \A i \in 1 .. Len(q) : Append(q, line)[i] = q[i]
      /\ Len(q) \in Nat
  OBVIOUS
<1>2. ASSUME AllInOrder(q) PROVE AllInOrder(Append(q, line))
  BY <1>1, <1>2 DEF AllInOrder, Last
<1>3. ASSUME NEW r \in Seq(Line), Before(r, q), Last(r, line) PROVE Before(r, Append(q, line))
  BY <1>1, <1>3 DEF Before, Last
<1> QED
  BY <1>2, <1>3

LEMMA AddKeepsOrder ==
  ASSUME NEW lines \in Seq(Line), NEW batches \in Seq(Seq(Line)), NEW buffer \in Seq(Line),
         NEW line \in Line, Ordered(lines, batches, buffer),
         Last(lines, line), Last(buffer, line),
         \A k \in 1 .. Len(batches) : Last(batches[k], line)
  PROVE  Ordered(lines, batches, Append(buffer, line))
<1>1. /\ AllInOrder(Append(buffer, line))
      /\ \A r \in Seq(Line) : Before(r, buffer) /\ Last(r, line) => Before(r, Append(buffer, line))
  BY LastExtends DEF Ordered
<1>2. \A k \in 1 .. Len(batches) : batches[k] \in Seq(Line)
  OBVIOUS
<1> QED
  BY <1>1, <1>2 DEF Ordered

LEMMA InsertKeepsOrder ==
  ASSUME NEW lines \in Seq(Line), NEW batches \in Seq(Seq(Line)), NEW buffer \in Seq(Line),
         batches # <<>>, Ordered(lines, batches, buffer)
  PROVE  /\ Ordered(lines, Tail(batches), buffer)
         /\ Ordered(lines \o Head(batches), Tail(batches), buffer)
<1> DEFINE first == Head(batches)
           rest == Tail(batches)
           all == lines \o first
<1>1. /\ first \in Seq(Line) /\ first = batches[1] /\ 1 \in 1 .. Len(batches)
      /\ Len(batches) \in Nat /\ Len(rest) = Len(batches) - 1
      /\ \A k \in 1 .. Len(rest) : k + 1 \in 1 .. Len(batches) /\ rest[k] = batches[k + 1]
  OBVIOUS
<1>2. /\ Len(all) = Len(lines) + Len(first) /\ Len(lines) \in Nat /\ Len(first) \in Nat
      /\ \A i \in 1 .. Len(all) : all[i] = IF i <= Len(lines) THEN lines[i] ELSE first[i - Len(lines)]
  BY <1>1
<1> HIDE DEF first, rest, all
<1>3. /\ \A k \in 1 .. Len(rest) :
           /\ AllInOrder(rest[k]) /\ Before(lines, rest[k]) /\ Before(rest[k], buffer)
           /\ Before(first, rest[k])
      /\ \A k, m \in 1 .. Len(rest) : k < m => Before(rest[k], rest[m])
  <2>1. ASSUME NEW k \in 1 .. Len(rest)
        PROVE  /\ AllInOrder(rest[k]) /\ Before(lines, rest[k]) /\ Before(rest[k], buffer)
               /\ Before(first, rest[k])
    <3>1. k + 1 \in 1 .. Len(batches) /\ rest[k] = batches[k + 1] /\ 1 < k + 1
      BY <1>1
    <3> QED
      BY <1>1, <3>1 DEF Ordered
  <2>2. ASSUME NEW k \in 1 .. Len(rest), NEW m \in 1 .. Len(rest), k < m
        PROVE  Before(rest[k], rest[m])
    <3>1. /\ k + 1 \in 1 .. Len(batches) /\ rest[k] = batches[k + 1]
          /\ m + 1 \in 1 .. Len(batches) /\ rest[m] = batches[m + 1]
          /\ k + 1 < m + 1
      BY <1>1, <2>2
    <3> QED
      BY <3>1 DEF Ordered
  <2> QED
    BY <2>1, <2>2
<1>4. /\ AllInOrder(first) /\ Before(lines, first) /\ Before(first, buffer)
      /\ AllInOrder(lines) /\ AllInOrder(buffer) /\ Before(lines, buffer)
  BY <1>1 DEF Ordered
<1>a. ASSUME NEW i \in 1 .. Len(all)
      PROVE  \/ i \in 1 .. Len(lines) /\ all[i] = lines[i]
             \/ /\ i - Len(lines) \in 1 .. Len(first) /\ all[i] = first[i - Len(lines)]
                /\ i > Len(lines)
  BY <1>2
<1>5. ASSUME NEW i \in 1 .. Len(all), NEW j \in 1 .. Len(all), i < j
      PROVE  InOrder(all[i], all[j])
  <2>1. CASE i \in 1 .. Len(lines) /\ all[i] = lines[i]
    <3>1. CASE j \in 1 .. Len(lines) /\ all[j] = lines[j]
      BY <1>4, <1>5, <2>1, <3>1 DEF AllInOrder
    <3>2. CASE j - Len(lines) \in 1 .. Len(first) /\ all[j] = first[j - Len(lines)]
      BY <1>4, <2>1, <3>2 DEF Before
    <3> QED
      BY <1>a, <3>1, <3>2
  <2>2. CASE /\ i - Len(lines) \in 1 .. Len(first) /\ all[i] = first[i - Len(lines)]
             /\ i > Len(lines)
    <3>1. /\ j - Len(lines) \in 1 .. Len(first) /\ all[j] = first[j - Len(lines)]
          /\ i - Len(lines) < j - Len(lines)
      BY <1>2, <1>5, <2>2, <1>a
    <3> QED
      BY <1>4, <2>2, <3>1 DEF AllInOrder
  <2> QED
    BY <1>a, <2>1, <2>2
<1>6. ASSUME NEW r, Before(lines, r), Before(first, r) PROVE Before(all, r)
  BY <1>a, <1>6 DEF Before
<1>7. Ordered(lines, rest, buffer)
  BY <1>3, <1>4 DEF Ordered
<1>8. Ordered(all, rest, buffer)
  <2>1. AllInOrder(all)
    BY <1>5 DEF AllInOrder
  <2> QED
    BY <1>3, <1>4, <2>1, <1>6 DEF Ordered
<1> QED
  BY <1>7, <1>8 DEF all, first, rest

\* What the platform says in between.
LEMMA AnnounceKeepsOrder ==
  ASSUME NEW lines \in Seq(Line), NEW batches \in Seq(Seq(Line)), NEW buffer \in Seq(Line),
         NEW line \in Line, Ordered(lines, batches, buffer), Last(lines, line),
         Before(<<line>>, buffer), \A k \in 1 .. Len(batches) : Before(<<line>>, batches[k])
  PROVE  Ordered(Append(lines, line), batches, buffer)
<1>1. AllInOrder(Append(lines, line))
  BY LastExtends DEF Ordered
<1>2. ASSUME NEW r, Before(lines, r), Before(<<line>>, r) PROVE Before(Append(lines, line), r)
  <2>1. /\ Len(Append(lines, line)) = Len(lines) + 1 /\ Append(lines, line)[Len(lines) + 1] = line
        /\ \A i \in 1 .. Len(lines) : Append(lines, line)[i] = lines[i]
        /\ Len(lines) \in Nat
    OBVIOUS
  <2>2. \A j \in 1 .. Len(r) : InOrder(line, r[j])
    BY <1>2 DEF Before
  <2> QED
    BY <1>2, <2>1, <2>2 DEF Before
<1> QED
  BY <1>1, <1>2 DEF Ordered

-------------------------------------------------------------------------------
\* What is known of every line that is stored, and of every line that is not yet.

Known(line, w, b) ==
  /\ line.attempt <= b.attempt
  /\ b.phase \in Working /\ line.attempt = b.attempt =>
       /\ line.kind # "verdict"
       /\ line.kind = "output" => line.n <= w.written
       /\ line.kind = "truncated" => w.truncated

Own(line, w, b) ==
  /\ Known(line, w, b)
  /\ line.attempt = b.attempt
  /\ line.kind \in {"output", "truncated"}

LogState(lines, w, b) ==
  /\ lines \in Seq(Line)
  /\ \A i \in 1 .. Len(lines) : Known(lines[i], w, b)
  /\ \A i \in 1 .. Len(w.buffered) : Own(w.buffered[i], w, b)
  /\ \A k \in 1 .. Len(w.writes) : \A i \in 1 .. Len(w.writes[k]) : Own(w.writes[k][i], w, b)
  /\ Ordered(lines, w.writes, w.buffered)

LEMMA WriterFields ==
  ASSUME NEW w \in Writer
  PROVE  /\ w.written \in 0 .. MaxOutput /\ w.buffered \in Seq(Line) /\ w.truncated \in BOOLEAN
         /\ w.timer \in BOOLEAN /\ w.writes \in Seq(Seq(Line))
BY DEF Writer

LEMMA FlushedIs ==
  ASSUME NEW w \in Writer
  PROVE  /\ Flushed(w) \in Writer
         /\ Flushed(w).written = w.written /\ Flushed(w).truncated = w.truncated
         /\ Flushed(w).buffered = <<>> /\ Flushed(w).timer = FALSE
         /\ Flushed(w).writes = IF w.buffered = <<>> THEN w.writes ELSE Append(w.writes, w.buffered)
<1>1. (IF w.buffered = <<>> THEN w.writes ELSE Append(w.writes, w.buffered)) \in Seq(Seq(Line))
  BY WriterFields
<1>2. <<>> \in Seq(Line)
  OBVIOUS
<1>3. Flushed(w) \in Writer
  BY <1>1, <1>2 DEF Flushed, Writer
<1>4. /\ Flushed(w).written = w.written /\ Flushed(w).truncated = w.truncated
      /\ Flushed(w).buffered = <<>> /\ Flushed(w).timer = FALSE
      /\ Flushed(w).writes = IF w.buffered = <<>> THEN w.writes ELSE Append(w.writes, w.buffered)
  BY DEF Flushed, Writer
<1> QED
  BY <1>3, <1>4

\* A flush changes nothing of what is known.
LEMMA FlushKeepsLog ==
  ASSUME NEW lines, NEW w \in Writer, NEW b, LogState(lines, w, b)
  PROVE  LogState(lines, Flushed(w), b)
<1> DEFINE f == Flushed(w)
<1>1. /\ f.written = w.written /\ f.buffered = <<>> /\ f.truncated = w.truncated
      /\ f.writes = IF w.buffered = <<>> THEN w.writes ELSE Append(w.writes, w.buffered)
  BY FlushedIs
<1> HIDE DEF f
<1>2. \A line : (Known(line, w, b) => Known(line, f, b)) /\ (Own(line, w, b) => Own(line, f, b))
  BY <1>1 DEF Known, Own
<1>3. Ordered(lines, f.writes, f.buffered)
  <2>1. CASE w.buffered = <<>>
    BY <1>1, <2>1 DEF LogState
  <2>2. CASE w.buffered # <<>>
    BY <1>1, <2>2, FlushKeepsOrder, WriterFields DEF LogState
  <2> QED
    BY <2>1, <2>2
<1>4. ASSUME NEW k \in 1 .. Len(f.writes), NEW i \in 1 .. Len(f.writes[k])
      PROVE  Own(f.writes[k][i], f, b)
  <2>1. CASE w.buffered = <<>>
    BY <1>1, <1>2, <1>4, <2>1 DEF LogState
  <2>2. CASE w.buffered # <<>>
    <3>1. /\ Len(f.writes) = Len(w.writes) + 1 /\ f.writes[Len(w.writes) + 1] = w.buffered
          /\ \A m \in 1 .. Len(w.writes) : f.writes[m] = w.writes[m]
          /\ Len(w.writes) \in Nat
      BY <1>1, <2>2, WriterFields
    <3>2. CASE k = Len(w.writes) + 1
      BY <1>2, <1>4, <3>1, <3>2 DEF LogState
    <3>3. CASE k # Len(w.writes) + 1
      <4>1. k \in 1 .. Len(w.writes) /\ f.writes[k] = w.writes[k]
        BY <3>1, <3>3
      <4> QED
        BY <1>2, <1>4, <4>1 DEF LogState
    <3> QED
      BY <3>2, <3>3
  <2> QED
    BY <2>1, <2>2
<1>5. \A i \in 1 .. Len(f.buffered) : Own(f.buffered[i], f, b)
  BY <1>1
<1> QED
  BY <1>2, <1>3, <1>4, <1>5 DEF LogState, f

\* A line is buffered after all others.
LEMMA BufferKeepsLog ==
  ASSUME NEW lines, NEW w \in Writer, NEW v \in Writer, NEW b \in Build, NEW line \in Line,
         LogState(lines, w, b), b.phase \in Working, ~w.truncated,
         v.buffered = Append(w.buffered, line), v.writes = w.writes,
         v.written = w.written + 1, line.attempt = b.attempt,
         \/ line.kind = "output" /\ line.n = w.written + 1
         \/ line.kind = "truncated" /\ v.truncated
  PROVE  LogState(lines, v, b)
<1>1. \A l \in Line : /\ Known(l, w, b) => Known(l, v, b) /\ InOrder(l, line)
                      /\ Own(l, w, b) => Own(l, v, b) /\ InOrder(l, line)
  BY WriterFields DEF Known, Own, InOrder, Line, Build
<1>2. Own(line, v, b)
  BY WriterFields DEF Own, Known, Line, Build
<1>3. /\ \A i \in 1 .. Len(lines) : lines[i] \in Line
      /\ \A i \in 1 .. Len(w.buffered) : w.buffered[i] \in Line
      /\ \A k \in 1 .. Len(w.writes) :
           w.writes[k] \in Seq(Line) /\ \A i \in 1 .. Len(w.writes[k]) : w.writes[k][i] \in Line
  BY WriterFields DEF LogState
<1>4. /\ Last(lines, line) /\ Last(w.buffered, line)
      /\ \A k \in 1 .. Len(w.writes) : Last(w.writes[k], line)
  BY <1>1, <1>3 DEF LogState, Last
<1>5. Ordered(lines, v.writes, v.buffered)
  BY <1>4, AddKeepsOrder, WriterFields DEF LogState
<1>6. ASSUME NEW i \in 1 .. Len(v.buffered)
      PROVE  Own(v.buffered[i], v, b)
  <2>1. /\ Len(v.buffered) = Len(w.buffered) + 1 /\ v.buffered[Len(w.buffered) + 1] = line
        /\ \A j \in 1 .. Len(w.buffered) : v.buffered[j] = w.buffered[j]
        /\ Len(w.buffered) \in Nat
    BY WriterFields
  <2>2. CASE i = Len(w.buffered) + 1
    BY <1>2, <2>1, <2>2
  <2>3. CASE i # Len(w.buffered) + 1
    <3>1. i \in 1 .. Len(w.buffered) /\ v.buffered[i] = w.buffered[i]
      BY <2>1, <2>3
    <3> QED
      BY <1>1, <1>3, <3>1 DEF LogState
  <2> QED
    BY <2>2, <2>3
<1>7. \A k \in 1 .. Len(v.writes) : \A i \in 1 .. Len(v.writes[k]) : Own(v.writes[k][i], v, b)
  BY <1>1, <1>3 DEF LogState
<1>8. \A i \in 1 .. Len(lines) : Known(lines[i], v, b)
  BY <1>1, <1>3 DEF LogState
<1> QED
  BY <1>5, <1>6, <1>7, <1>8 DEF LogState

\* Docker writes a line.
LEMMA WriteKeepsLog ==
  ASSUME NEW lines, NEW w \in Writer, build \in Build, build.phase \in Working,
         build.attempt >= 1, w.written < MaxOutput, LogState(lines, w, build),
         w.buffered # <<>> => w.timer, NEW line,
         line = [attempt |-> build.attempt, kind |-> "output", n |-> w.written + 1]
  PROVE  /\ Written(w, line) \in Writer
         /\ LogState(lines, Written(w, line), build)
         /\ Written(w, line).buffered # <<>> => Written(w, line).timer
<1> USE SandboxAssumption
<1>1. w.written + 1 \in 0 .. MaxOutput /\ build.attempt \in 1 .. MaxAttempts
  BY WriterFields DEF Build
<1>2. line \in Line /\ Platform("truncated") \in Line
  BY <1>1 DEF Line, Platform
<1> DEFINE note == Platform("truncated")
           counted == [w EXCEPT !.written = @ + 1]
<1>3. /\ counted \in Writer /\ counted.written = w.written + 1
      /\ counted.truncated = w.truncated /\ counted.timer = w.timer
      /\ counted.buffered = w.buffered /\ counted.writes = w.writes
  BY <1>1 DEF Writer
<1> HIDE DEF counted
<1>4. CASE w.truncated
  <2>1. Written(w, line) = counted
    BY <1>4 DEF Written, counted
  <2>2. \A l \in Line : /\ Known(l, w, build) => Known(l, counted, build)
                        /\ Own(l, w, build) => Own(l, counted, build)
    BY <1>3, WriterFields DEF Known, Own, Line
  <2>3. /\ \A i \in 1 .. Len(lines) : lines[i] \in Line
        /\ \A i \in 1 .. Len(w.buffered) : w.buffered[i] \in Line
        /\ \A k \in 1 .. Len(w.writes) : \A i \in 1 .. Len(w.writes[k]) : w.writes[k][i] \in Line
    BY WriterFields DEF LogState
  <2>4. LogState(lines, counted, build)
    BY <1>3, <2>2, <2>3 DEF LogState
  <2> QED
    BY <1>3, <2>1, <2>4
<1>5. CASE ~w.truncated /\ w.written >= Budget
  <2> DEFINE v == [counted EXCEPT !.truncated = TRUE, !.buffered = Append(@, note)]
  <2>1. Written(w, line) = Flushed(v)
    BY <1>5 DEF Written, counted
  <2>2. Append(w.buffered, note) \in Seq(Line)
    BY <1>2, WriterFields
  <2>3. v \in Writer
    BY <1>3, <2>2 DEF Writer
  <2>4. /\ v.written = w.written + 1 /\ v.truncated /\ v.writes = w.writes
        /\ v.buffered = Append(w.buffered, note)
    BY <1>3 DEF Writer
  <2> HIDE DEF v
  <2>5. note.attempt = build.attempt /\ note.kind = "truncated"
    BY DEF Platform
  <2>6. LogState(lines, v, build)
    BY <1>2, <1>5, <2>3, <2>4, <2>5, BufferKeepsLog
  <2>7. LogState(lines, Flushed(v), build)
    BY <2>3, <2>6, FlushKeepsLog
  <2>8. Flushed(v) \in Writer /\ Flushed(v).buffered = <<>>
    BY <2>3, FlushedIs
  <2> QED
    BY <2>1, <2>7, <2>8
<1>6. CASE ~w.truncated /\ ~(w.written >= Budget)
  <2>1. Append(w.buffered, line) \in Seq(Line)
    BY <1>2, WriterFields
  <2>2. line.attempt = build.attempt /\ line.kind = "output" /\ line.n = w.written + 1
    OBVIOUS
  <2>3. CASE Len(w.buffered) + 1 >= FlushAfter
    <3> DEFINE v == [counted EXCEPT !.buffered = Append(@, line)]
    <3>1. Written(w, line) = Flushed(v)
      BY <1>6, <2>3 DEF Written, counted
    <3>2. v \in Writer
      BY <1>3, <2>1 DEF Writer
    <3>3. /\ v.written = w.written + 1 /\ v.writes = w.writes
          /\ v.buffered = Append(w.buffered, line)
      BY <1>3 DEF Writer
    <3> HIDE DEF v
    <3>4. LogState(lines, v, build)
      BY <1>2, <1>6, <2>2, <3>2, <3>3, BufferKeepsLog
    <3>5. LogState(lines, Flushed(v), build)
      BY <3>2, <3>4, FlushKeepsLog
    <3>6. Flushed(v) \in Writer /\ Flushed(v).buffered = <<>>
      BY <3>2, FlushedIs
    <3> QED
      BY <3>1, <3>5, <3>6
  <2>4. CASE ~(Len(w.buffered) + 1 >= FlushAfter)
    <3> DEFINE v == [counted EXCEPT !.buffered = Append(@, line), !.timer = TRUE]
    <3>1. Written(w, line) = v
      BY <1>6, <2>4 DEF Written, counted
    <3>2. v \in Writer
      BY <1>3, <2>1 DEF Writer
    <3>3. /\ v.written = w.written + 1 /\ v.writes = w.writes /\ v.timer = TRUE
          /\ v.buffered = Append(w.buffered, line)
      BY <1>3 DEF Writer
    <3> HIDE DEF v
    <3>4. LogState(lines, v, build)
      BY <1>2, <1>6, <2>2, <3>2, <3>3, BufferKeepsLog
    <3> QED
      BY <3>1, <3>2, <3>3, <3>4
  <2> QED
    BY <2>3, <2>4
<1> QED
  BY <1>4, <1>5, <1>6, WriterFields

\* The first batch is inserted, or given up.
LEMMA InsertKeepsLog ==
  ASSUME NEW lines, NEW w \in Writer, NEW b, LogState(lines, w, b), w.writes # <<>>,
         NEW v \in Writer, v.written = w.written, v.truncated = w.truncated,
         v.buffered = w.buffered, v.writes = Tail(w.writes),
         NEW longer \in {lines, lines \o Head(w.writes)}
  PROVE  LogState(longer, v, b)
<1>1. \A line : (Known(line, w, b) <=> Known(line, v, b)) /\ (Own(line, w, b) <=> Own(line, v, b))
  BY DEF Known, Own
<1>2. Ordered(longer, v.writes, v.buffered)
  BY InsertKeepsOrder, WriterFields DEF LogState
<1>3. /\ Head(w.writes) = w.writes[1] /\ w.writes[1] \in Seq(Line) /\ 1 \in 1 .. Len(w.writes)
      /\ \A k \in 1 .. Len(v.writes) : k + 1 \in 1 .. Len(w.writes) /\ v.writes[k] = w.writes[k + 1]
  BY WriterFields
<1>4. \A k \in 1 .. Len(v.writes) : \A i \in 1 .. Len(v.writes[k]) : Own(v.writes[k][i], v, b)
  BY <1>1, <1>3 DEF LogState
<1>5. lines \in Seq(Line) /\ longer \in Seq(Line)
  <2>1. lines \in Seq(Line) /\ lines \o w.writes[1] \in Seq(Line)
    BY <1>3 DEF LogState
  <2> QED
    BY <1>3, <2>1
<1>6. ASSUME NEW i \in 1 .. Len(longer)
      PROVE  Known(longer[i], v, b)
  <2>1. CASE longer = lines
    BY <1>1, <1>6, <2>1 DEF LogState
  <2>2. CASE longer = lines \o Head(w.writes)
    <3>1. \/ i \in 1 .. Len(lines) /\ longer[i] = lines[i]
          \/ /\ i - Len(lines) \in 1 .. Len(w.writes[1])
             /\ longer[i] = w.writes[1][i - Len(lines)]
      BY <1>3, <1>5, <1>6, <2>2
    <3> QED
      BY <1>1, <1>3, <3>1 DEF LogState, Own
  <2> QED
    BY <2>1, <2>2
<1>7. \A i \in 1 .. Len(v.buffered) : Own(v.buffered[i], v, b)
  BY <1>1 DEF LogState
<1> QED
  BY <1>2, <1>4, <1>5, <1>6, <1>7 DEF LogState

\* An attempt goes on, or ends.
LEMMA PhaseKeepsLog ==
  ASSUME NEW lines, NEW w \in Writer, NEW b, NEW c, LogState(lines, w, b),
         c.attempt = b.attempt, c.phase \in Working => b.phase \in Working
  PROVE  LogState(lines, w, c)
BY DEF LogState, Known, Own

-------------------------------------------------------------------------------
\* The inductive invariant of BuildSandbox: with what is known of the lines, an attempt
\* that is under way is numbered, one that is queued is not the last, and nothing is
\* written any more while the log is being closed.

SandboxInv ==
  /\ SandboxTypeOK
  /\ build.phase \in Working => build.attempt >= 1
  /\ build.phase = "queued" => build.attempt < MaxAttempts
  /\ LogState(log, writer, build)
  /\ NoLineIsForgotten
  /\ build.phase = "closing" => writer.buffered = <<>>

LEMMA SandboxStarts == SandboxInit => SandboxInv
<1> SUFFICES ASSUME SandboxInit PROVE SandboxInv
  OBVIOUS
<1> USE SandboxAssumption
<1>1. NewWriter \in Writer
  BY DEF NewWriter, Writer
<1>2. NoChild \in Child
  BY DEF NoChild, Child
<1>3. build \in Build /\ build.phase = "queued" /\ build.attempt = 0
  BY DEF SandboxInit, Build, BuildPhases, Outcomes
<1>4. SandboxTypeOK
  BY <1>1, <1>2, <1>3 DEF SandboxTypeOK, SandboxInit
<1>5. writer.buffered = <<>> /\ writer.writes = <<>> /\ log = <<>>
  BY DEF SandboxInit, NewWriter
<1>6. LogState(log, writer, build)
  BY <1>5 DEF LogState, Ordered, AllInOrder, Before
<1>7. build.phase \notin Working /\ build.phase # "closing"
  BY <1>3 DEF Working
<1> QED
  BY <1>3, <1>4, <1>5, <1>6, <1>7 DEF SandboxInv, NoLineIsForgotten

LEMMA GoToIs ==
  ASSUME build \in Build, NEW phase \in BuildPhases, GoTo(phase)
  PROVE  build' \in Build /\ build'.attempt = build.attempt /\ build'.phase = phase
BY DEF GoTo, Build

LEMMA ThrowIs ==
  ASSUME build \in Build, NEW phase \in BuildPhases, NEW outcome \in Outcomes, Throw(phase, outcome)
  PROVE  build' \in Build /\ build'.attempt = build.attempt /\ build'.phase = phase
BY DEF Throw, Build

\* What docker does changes nothing of the log.
LEMMA ChildStep ==
  ASSUME SandboxInv, child' \in Child, container' \in {"none", "up"},
         UNCHANGED <<build, writer, log>>
  PROVE  SandboxInv'
<1>1. build' = build /\ writer' = writer /\ log' = log
  OBVIOUS
<1>2. LogState(log', writer', build')
  BY <1>1 DEF SandboxInv
<1> QED
  BY <1>1, <1>2 DEF SandboxInv, SandboxTypeOK, NoLineIsForgotten

\* Nothing is left in the writer unless the attempt stays where lines are written.
LEMMA PhaseStep ==
  ASSUME SandboxInv, UNCHANGED <<child, container, writer, log>>,
         build' \in Build, build'.attempt = build.attempt,
         build'.phase \in Working => build.phase \in Working,
         build'.phase = "queued" => build.attempt < MaxAttempts,
         build'.phase # "closing",
         \/ build'.phase \in {"image", "installing"}
         \/ writer.buffered = <<>> /\ writer.writes = <<>>
  PROVE  SandboxInv'
<1>1. LogState(log, writer, build')
  BY PhaseKeepsLog DEF SandboxInv, SandboxTypeOK
<1>2. SandboxTypeOK'
  BY DEF SandboxInv, SandboxTypeOK
<1>3. LogState(log, writer, build)'
  BY <1>1
<1>4. NoLineIsForgotten'
  BY DEF SandboxInv, NoLineIsForgotten
<1> QED
  BY <1>2, <1>3, <1>4 DEF SandboxInv

LEMMA WritingStep ==
  ASSUME SandboxInv, Output, build.phase \in {"image", "running"},
         UNCHANGED <<build, child, container, log>>
  PROVE  SandboxInv'
<1> DEFINE line == [attempt |-> build.attempt, kind |-> "output", n |-> writer.written + 1]
<1>1. writer' = Written(writer, line) /\ writer.written < MaxOutput
  BY DEF Output
<1>2. build.phase \in Working /\ writer \in Writer /\ build \in Build /\ build.attempt >= 1
  BY DEF SandboxInv, SandboxTypeOK, Working
<1>3. /\ Written(writer, line) \in Writer
      /\ LogState(log, Written(writer, line), build)
      /\ Written(writer, line).buffered # <<>> => Written(writer, line).timer
  BY <1>1, <1>2, WriteKeepsLog DEF SandboxInv, NoLineIsForgotten
<1> HIDE DEF line
<1>4. LogState(log, writer, build)'
  BY <1>1, <1>3
<1> QED
  BY <1>1, <1>3, <1>4 DEF SandboxInv, SandboxTypeOK, NoLineIsForgotten

LEMMA FlushStep ==
  ASSUME SandboxInv, FlushTimer
  PROVE  SandboxInv'
<1>1. writer' = Flushed(writer) /\ writer \in Writer /\ UNCHANGED <<build, child, container, log>>
  BY DEF FlushTimer, SandboxInv, SandboxTypeOK
<1>2. /\ writer' \in Writer /\ writer'.buffered = <<>>
      /\ writer.buffered = <<>> => writer'.writes = writer.writes
  BY <1>1, FlushedIs
<1>3. LogState(log, writer', build)
  BY <1>1, FlushKeepsLog DEF SandboxInv
<1>4. LogState(log, writer, build)'
  BY <1>1, <1>3
<1>5. NoLineIsForgotten'
  BY <1>1, <1>2 DEF SandboxInv, NoLineIsForgotten
<1> QED
  BY <1>1, <1>2, <1>4, <1>5 DEF SandboxInv, SandboxTypeOK

LEMMA InsertStep ==
  ASSUME SandboxInv, Insert
  PROVE  SandboxInv'
<1>1. /\ writer' = [writer EXCEPT !.writes = Tail(@)] /\ writer \in Writer /\ writer.writes # <<>>
      /\ log' \in {log, log \o Head(writer.writes)} /\ UNCHANGED <<build, child, container>>
  BY DEF Insert, SandboxInv, SandboxTypeOK
<1>2. Tail(writer.writes) \in Seq(Seq(Line))
  BY <1>1, WriterFields
<1>3. /\ writer' \in Writer /\ writer'.written = writer.written
      /\ writer'.truncated = writer.truncated /\ writer'.buffered = writer.buffered
      /\ writer'.timer = writer.timer /\ writer'.writes = Tail(writer.writes)
  BY <1>1, <1>2 DEF Writer
<1>4. LogState(log', writer', build)
  BY <1>1, <1>3, InsertKeepsLog DEF SandboxInv
<1>5. LogState(log, writer, build)'
  BY <1>1, <1>4
<1>6. log' \in Seq(Line)
  BY <1>4 DEF LogState
<1>7. NoLineIsForgotten'
  BY <1>1, <1>3 DEF SandboxInv, NoLineIsForgotten
<1> QED
  BY <1>1, <1>3, <1>5, <1>6, <1>7 DEF SandboxInv, SandboxTypeOK

LEMMA CloseLogStep ==
  ASSUME SandboxInv, NEW outcome \in Outcomes, CloseLog(outcome), build.phase \in Working,
         child' \in Child, UNCHANGED <<container, log>>
  PROVE  SandboxInv'
<1>1. build' \in Build /\ build'.attempt = build.attempt /\ build'.phase = "closing"
  BY ThrowIs DEF CloseLog, SandboxInv, SandboxTypeOK, BuildPhases, Working
<1>2. writer' = Flushed(writer) /\ writer \in Writer
  BY DEF CloseLog, SandboxInv, SandboxTypeOK
<1>3. writer' \in Writer /\ writer'.buffered = <<>>
  BY <1>2, FlushedIs
<1>4. LogState(log, writer', build)
  BY <1>2, FlushKeepsLog DEF SandboxInv
<1>5. LogState(log, writer', build')
  BY <1>1, <1>3, <1>4, PhaseKeepsLog
<1>6. LogState(log, writer, build)'
  BY <1>5
<1> QED
  BY <1>1, <1>3, <1>6 DEF SandboxInv, SandboxTypeOK, NoLineIsForgotten

\* What the platform says, when it is the platform's turn.
LEMMA PlatformLine ==
  ASSUME SandboxInv, build.phase \in Working, NEW kind \in {"installing", "verdict"},
         kind = "verdict" => writer.buffered = <<>> /\ writer.writes = <<>>,
         NEW c, c.attempt = build.attempt, c.phase \in Working => kind = "installing"
  PROVE  LogState(Append(log, Platform(kind)), writer, c)
<1> DEFINE line == Platform(kind)
           longer == Append(log, line)
<1>0. build \in Build /\ writer \in Writer /\ log \in Seq(Line) /\ LogState(log, writer, build)
  BY DEF SandboxInv, SandboxTypeOK
<1>1. line \in Line /\ line.attempt = build.attempt /\ line.kind = kind
  BY <1>0, SandboxAssumption DEF Platform, Line, SandboxInv, Build
<1> HIDE DEF line
<1>2. LogState(log, writer, c)
  <2>1. c.phase \in Working => build.phase \in Working
    OBVIOUS
  <2> QED
    BY <1>0, <2>1, PhaseKeepsLog
<1>3. \A i \in 1 .. Len(log) : log[i] \in Line /\ Known(log[i], writer, build)
  BY <1>0 DEF LogState
<1>4. Last(log, line)
  BY <1>1, <1>3 DEF Last, InOrder, Known, Line
<1>5. /\ Before(<<line>>, writer.buffered)
      /\ \A k \in 1 .. Len(writer.writes) : Before(<<line>>, writer.writes[k])
  <2>1. CASE kind = "verdict"
    BY <2>1 DEF Before
  <2>2. CASE kind = "installing"
    <3>1. \A l : Own(l, writer, build) => InOrder(line, l)
      BY <1>0, <1>1, <2>2 DEF InOrder, Own, Line, Build
    <3>2. \A i \in 1 .. 1 : <<line>>[i] = line
      OBVIOUS
    <3> QED
      BY <1>0, <3>1, <3>2 DEF Before, LogState
  <2> QED
    BY <2>1, <2>2
<1>6. Ordered(longer, writer.writes, writer.buffered)
  BY <1>0, <1>1, <1>4, <1>5, AnnounceKeepsOrder, WriterFields DEF LogState
<1>7. ASSUME NEW i \in 1 .. Len(longer)
      PROVE  Known(longer[i], writer, c)
  <2>1. \/ i \in 1 .. Len(log) /\ longer[i] = log[i]
        \/ longer[i] = line
    BY <1>0, <1>1
  <2>2. Known(line, writer, c)
    BY <1>0, <1>1 DEF Known, Build
  <2> QED
    BY <1>2, <2>1, <2>2 DEF LogState
<1>8. longer \in Seq(Line)
  BY <1>0, <1>1
<1> QED
  BY <1>2, <1>6, <1>7, <1>8 DEF LogState, line

LEMMA NewWriterIs ==
  /\ NewWriter \in Writer /\ NewWriter.buffered = <<>> /\ NewWriter.writes = <<>>
  /\ NewWriter.written = 0 /\ ~NewWriter.truncated
<1> USE SandboxAssumption
<1>1. <<>> \in Seq(Line) /\ <<>> \in Seq(Seq(Line)) /\ 0 \in 0 .. MaxOutput
  OBVIOUS
<1> QED
  BY <1>1 DEF NewWriter, Writer

\* Nothing is left to be written, and no line is of the attempt that is under way, or
\* none is under way.
LEMMA FreshLog ==
  ASSUME NEW lines \in Seq(Line), AllInOrder(lines), NEW b,
         \A i \in 1 .. Len(lines) : lines[i].attempt <= b.attempt,
         b.phase \in Working => \A i \in 1 .. Len(lines) : lines[i].attempt # b.attempt
  PROVE  LogState(lines, NewWriter, b)
BY NewWriterIs DEF LogState, Known, Ordered, AllInOrder, Before

LEMMA BeginStep ==
  ASSUME SandboxInv, Begin
  PROVE  SandboxInv'
<1> USE SandboxAssumption
<1>1. /\ build \in Build /\ build.attempt < MaxAttempts
      /\ build' = [phase |-> "unpacking", attempt |-> build.attempt + 1, outcome |-> "none"]
      /\ child' = NoChild /\ writer' = NewWriter /\ UNCHANGED <<container, log>>
      /\ log \in Seq(Line) /\ container \in {"none", "up"}
  BY DEF Begin, SandboxInv, SandboxTypeOK
<1>2. /\ build' \in Build /\ build'.attempt = build.attempt + 1 /\ build'.phase = "unpacking"
      /\ build.attempt \in Nat
  BY <1>1 DEF Build, BuildPhases, Working, Outcomes
<1>3. child' \in Child
  BY <1>1 DEF NoChild, Child
<1>4. \A i \in 1 .. Len(log) : log[i] \in Line /\ log[i].attempt <= build.attempt
  BY <1>1 DEF SandboxInv, LogState, Known
<1>5. \A i \in 1 .. Len(log) : log[i].attempt <= build'.attempt /\ log[i].attempt # build'.attempt
  BY <1>2, <1>4 DEF Line
<1>6. AllInOrder(log)
  BY DEF SandboxInv, LogState, Ordered
<1>7. LogState(log, NewWriter, build')
  BY <1>1, <1>5, <1>6, FreshLog
<1>8. LogState(log, writer, build)'
  BY <1>1, <1>7
<1>9. SandboxTypeOK'
  BY <1>1, <1>2, <1>3, NewWriterIs DEF SandboxTypeOK
<1>10. NoLineIsForgotten'
  BY <1>1, NewWriterIs DEF NoLineIsForgotten
<1> QED
  BY <1>2, <1>8, <1>9, <1>10 DEF SandboxInv

LEMMA InstallStep ==
  ASSUME SandboxInv, Install
  PROVE  SandboxInv'
<1>1. /\ build.phase = "installing" /\ log' = Append(log, Platform("installing"))
      /\ child' = [NoChild EXCEPT !.state = "starting"] /\ UNCHANGED <<container, writer>>
      /\ build \in Build
  BY DEF Install, SandboxInv, SandboxTypeOK
<1>2. build' \in Build /\ build'.attempt = build.attempt /\ build'.phase = "running"
  BY <1>1, GoToIs DEF Install, BuildPhases, Working
<1>3. child' \in Child
  BY <1>1 DEF NoChild, Child
<1>4. LogState(log', writer, build')
  BY <1>1, <1>2, PlatformLine DEF Working
<1>5. LogState(log, writer, build)'
  BY <1>1, <1>4
<1>6. log' \in Seq(Line)
  BY <1>4 DEF LogState
<1>7. SandboxTypeOK'
  BY <1>1, <1>2, <1>3, <1>6 DEF SandboxInv, SandboxTypeOK
<1>8. NoLineIsForgotten'
  BY <1>1, <1>2 DEF SandboxInv, NoLineIsForgotten
<1> QED
  BY <1>1, <1>2, <1>5, <1>7, <1>8 DEF SandboxInv, Working

LEMMA ReportStep ==
  ASSUME SandboxInv, Report
  PROVE  SandboxInv'
<1>1. /\ build.phase \in {"uploading", "recording"} /\ log' = Append(log, Platform("verdict"))
      /\ UNCHANGED <<child, container, writer>> /\ build \in Build
  BY DEF Report, SandboxInv, SandboxTypeOK
<1> DEFINE next == IF build.outcome = "error" /\ build.attempt < MaxAttempts THEN "queued" ELSE "done"
<1>2. next \in BuildPhases /\ GoTo(next)
  BY DEF Report, BuildPhases
<1>3. /\ build' \in Build /\ build'.attempt = build.attempt /\ build'.phase = next
      /\ next \in {"queued", "done"} /\ (next = "queued" => build.attempt < MaxAttempts)
  BY <1>1, <1>2, GoToIs
<1> HIDE DEF next
<1>4. writer.buffered = <<>> /\ writer.writes = <<>>
  BY <1>1 DEF SandboxInv, NoLineIsForgotten
<1>5. LogState(log', writer, build')
  BY <1>1, <1>3, <1>4, PlatformLine DEF Working
<1>6. LogState(log, writer, build)'
  BY <1>1, <1>5
<1>7. log' \in Seq(Line)
  BY <1>5 DEF LogState
<1>8. SandboxTypeOK'
  BY <1>1, <1>3, <1>7 DEF SandboxInv, SandboxTypeOK
<1>9. NoLineIsForgotten'
  BY <1>1, <1>4 DEF NoLineIsForgotten
<1> QED
  BY <1>1, <1>3, <1>6, <1>8, <1>9 DEF SandboxInv, Working

\* The insert that a dead worker leaves under way is heard of by nobody, and made or not.
LEMMA LoseStep ==
  ASSUME SandboxInv, Lose
  PROVE  SandboxInv'
<1>1. /\ build \in Build /\ writer \in Writer /\ log \in Seq(Line)
      /\ log' \in {log} \cup (IF writer.writes = <<>> THEN {} ELSE {log \o Head(writer.writes)})
      /\ child' = NoChild /\ writer' = NewWriter /\ container \in {"none", "up"}
      /\ container' \in {container} \cup (IF child.state = "starting" THEN {"up"} ELSE {})
      /\ LogState(log, writer, build)
  BY DEF Lose, SandboxInv, SandboxTypeOK
<1>2. build' \in Build /\ build'.attempt = build.attempt /\ build'.phase = "lost"
  BY <1>1, GoToIs DEF Lose, BuildPhases
<1>3. child' \in Child /\ container' \in {"none", "up"}
  BY <1>1 DEF NoChild, Child
<1>4. /\ log' \in Seq(Line) /\ AllInOrder(log')
      /\ \A i \in 1 .. Len(log') : log'[i].attempt <= build.attempt
  <2>1. CASE log' = log
    BY <1>1, <2>1 DEF LogState, Ordered, Known
  <2>2. CASE writer.writes # <<>> /\ log' = log \o Head(writer.writes)
    <3> DEFINE w == [writer EXCEPT !.writes = Tail(@)]
    <3>1. Tail(writer.writes) \in Seq(Seq(Line))
      BY <1>1, <2>2, WriterFields
    <3>2. /\ w \in Writer /\ w.written = writer.written /\ w.truncated = writer.truncated
          /\ w.buffered = writer.buffered /\ w.writes = Tail(writer.writes)
      BY <1>1, <3>1 DEF Writer
    <3> HIDE DEF w
    <3>3. LogState(log', w, build)
      BY <1>1, <2>2, <3>2, InsertKeepsLog
    <3> QED
      BY <3>3 DEF LogState, Ordered, Known
  <2> QED
    BY <1>1, <2>1, <2>2
<1>5. build'.phase \notin Working
  BY <1>2 DEF Working
<1>6. LogState(log', NewWriter, build')
  BY <1>2, <1>4, <1>5, FreshLog
<1>7. LogState(log, writer, build)'
  BY <1>1, <1>6
<1>8. SandboxTypeOK'
  BY <1>1, <1>2, <1>3, <1>4, NewWriterIs DEF SandboxTypeOK
<1>9. NoLineIsForgotten'
  BY <1>1, NewWriterIs DEF NoLineIsForgotten
<1> QED
  BY <1>2, <1>5, <1>7, <1>8, <1>9 DEF SandboxInv

\* What docker does, by itself or told to.
LEMMA DockerStep ==
  ASSUME SandboxInv,
         StartContainer \/ (\E code \in {0, 1} : EndCommand(code)) \/ TimeUp \/ Kill \/ EndLeftover
  PROVE  SandboxInv'
<1>1. child \in Child /\ container \in {"none", "up"}
  BY DEF SandboxInv, SandboxTypeOK
<1>2. UNCHANGED <<build, writer, log>>
  BY DEF StartContainer, EndCommand, TimeUp, Kill, EndLeftover
<1>3. container' \in {"none", "up"}
  BY <1>1 DEF StartContainer, EndCommand, TimeUp, Kill, EndLeftover
<1>4. child' \in Child
  <2>1. CASE StartContainer
    <3>1. [child EXCEPT !.state = "up"] \in Child
      BY <1>1 DEF Child
    <3>2. [child EXCEPT !.state = "closed", !.code = 125] \in Child
      BY <1>1 DEF Child
    <3> QED
      BY <2>1, <3>1, <3>2 DEF StartContainer
  <2>2. CASE \E code \in {0, 1} : EndCommand(code)
    <3>1. PICK code \in {0, 1} : child' = [child EXCEPT !.state = "closed", !.code = code]
      BY <2>2 DEF EndCommand
    <3> QED
      BY <1>1, <3>1 DEF Child
  <2>3. CASE TimeUp
    BY <1>1, <2>3 DEF TimeUp, Child
  <2>4. CASE Kill
    <3>1. [child EXCEPT !.state = "closed", !.code = 1, !.kill = FALSE] \in Child
      BY <1>1 DEF Child
    <3>2. [child EXCEPT !.kill = FALSE] \in Child
      BY <1>1 DEF Child
    <3> QED
      BY <2>4, <3>1, <3>2 DEF Kill
  <2>5. CASE EndLeftover
    BY <1>1, <2>5 DEF EndLeftover
  <2> QED
    BY <2>1, <2>2, <2>3, <2>4, <2>5
<1> QED
  BY <1>2, <1>3, <1>4, ChildStep

\* What moves an attempt on, and writes nothing.
LEMMA MovingStep ==
  ASSUME SandboxInv, HaveImage \/ Close \/ OuterStep \/ Recover
  PROVE  SandboxInv'
<1>1. build \in Build
  BY DEF SandboxInv, SandboxTypeOK
<1>2. CASE HaveImage
  <2>1. build' \in Build /\ build'.attempt = build.attempt /\ build'.phase = "installing"
    BY <1>1, <1>2, GoToIs DEF HaveImage, BuildPhases, Working
  <2> QED
    BY <1>2, <2>1, PhaseStep DEF HaveImage, Working
<1>3. CASE Close
  <2>1. PICK phase \in {"uploading", "recording"} : GoTo(phase)
    BY <1>3 DEF Close
  <2>2. build' \in Build /\ build'.attempt = build.attempt /\ build'.phase \in {"uploading", "recording"}
    BY <1>1, <2>1, GoToIs DEF BuildPhases, Working
  <2>3. writer.buffered = <<>> /\ writer.writes = <<>> /\ build.phase = "closing"
    BY <1>3 DEF Close, SandboxInv
  <2> QED
    BY <1>3, <2>2, <2>3, PhaseStep DEF Close, Working
<1>4. CASE OuterStep
  <2>1. CASE NeedBuild
    <3>1. build' \in Build /\ build'.attempt = build.attempt /\ build'.phase = "image"
      BY <1>1, <2>1, GoToIs DEF NeedBuild, BuildPhases, Working
    <3> QED
      BY <2>1, <3>1, PhaseStep DEF NeedBuild, Working
  <2>2. CASE TakeAsIs
    <3>1. build' \in Build /\ build'.attempt = build.attempt /\ build'.phase = "uploading"
      BY <1>1, <2>2, ThrowIs DEF TakeAsIs, BuildPhases, Working, Outcomes
    <3>2. writer.buffered = <<>> /\ writer.writes = <<>> /\ build.phase = "unpacking"
      BY <2>2 DEF TakeAsIs, SandboxInv, NoLineIsForgotten
    <3> QED
      BY <2>2, <3>1, <3>2, PhaseStep DEF TakeAsIs, Working
  <2>3. CASE \E outcome \in {"failure", "error"} : GiveUp(outcome)
    <3>1. PICK outcome \in {"failure", "error"} : GiveUp(outcome)
      BY <2>3
    <3>2. build' \in Build /\ build'.attempt = build.attempt /\ build'.phase = "recording"
      BY <1>1, <3>1, ThrowIs DEF GiveUp, BuildPhases, Working, Outcomes
    <3>3. writer.buffered = <<>> /\ writer.writes = <<>> /\ build.phase \in Working
      BY <3>1 DEF GiveUp, SandboxInv, NoLineIsForgotten, Working
    <3> QED
      BY <3>1, <3>2, <3>3, PhaseStep DEF GiveUp
  <2> QED
    BY <1>4, <2>1, <2>2, <2>3 DEF OuterStep
<1>5. CASE Recover
  <2> DEFINE next == IF build.attempt < MaxAttempts THEN "queued" ELSE "done"
  <2>1. Throw(next, "error") /\ next \in BuildPhases /\ "error" \in Outcomes
    BY <1>5 DEF Recover, BuildPhases, Outcomes
  <2>2. /\ build' \in Build /\ build'.attempt = build.attempt /\ build'.phase = next
        /\ next \in {"queued", "done"} /\ (next = "queued" => build.attempt < MaxAttempts)
    BY <1>1, <2>1, ThrowIs
  <2> HIDE DEF next
  <2>3. writer.buffered = <<>> /\ writer.writes = <<>>
    BY <1>5 DEF Recover, SandboxInv, NoLineIsForgotten
  <2>4. UNCHANGED <<child, container, writer, log>>
    BY <1>5 DEF Recover
  <2>5. build'.phase \notin Working /\ build'.phase # "closing"
    BY <2>2 DEF Working
  <2> QED
    BY <2>2, <2>3, <2>4, <2>5, PhaseStep
<1> QED
  BY <1>2, <1>3, <1>4, <1>5

LEMMA WriteStep ==
  ASSUME SandboxInv, PrepareImage \/ RunCommand
  PROVE  SandboxInv'
BY WritingStep DEF PrepareImage, RunCommand

\* What ends the writing.
LEMMA EndingStep ==
  ASSUME SandboxInv, LackImage \/ FailToInstall \/ LackDocker \/ EndRun
  PROVE  SandboxInv'
<1>1. child \in Child
  BY DEF SandboxInv, SandboxTypeOK
<1>2. child' \in Child
  <2>1. CASE LackDocker
    <3>1. child' = [child EXCEPT !.state = "closed", !.timedOut = FALSE, !.kill = FALSE]
      BY <2>1 DEF LackDocker
    <3> QED
      BY <1>1, <3>1 DEF Child
  <2>2. CASE LackImage \/ FailToInstall \/ EndRun
    BY <1>1, <2>2 DEF LackImage, FailToInstall, EndRun
  <2> QED
    BY <2>1, <2>2
<1>3. UNCHANGED <<container, log>> /\ build.phase \in Working
  BY DEF LackImage, FailToInstall, LackDocker, EndRun, Working
<1>4. PICK outcome \in Outcomes : CloseLog(outcome)
  BY DEF LackImage, FailToInstall, LackDocker, EndRun, Outcomes
<1> QED
  BY <1>2, <1>3, <1>4, CloseLogStep

LEMMA SandboxKeeps ==
  ASSUME SandboxInv, [SandboxNext]_sandboxVars
  PROVE  SandboxInv'
<1>1. CASE UNCHANGED sandboxVars
  BY <1>1, ChildStep DEF sandboxVars, SandboxInv, SandboxTypeOK
<1>2. CASE SandboxNext
  BY <1>2, FlushStep, InsertStep, WriteStep, MovingStep, EndingStep, InstallStep, DockerStep,
     BeginStep, ReportStep, LoseStep
  DEF SandboxNext, WriterStep, SandboxStep, AttemptStep
<1> QED
  BY <1>1, <1>2

-------------------------------------------------------------------------------
\* The attempts of BuildSteps are attempts of BuildSandbox.

LEMMA StepsAreAttempts ==
  ASSUME [Next]_vars
  PROVE  [SandboxNext]_sandboxVars
<1>1. CASE UNCHANGED vars
  BY <1>1 DEF vars
<1>2. CASE PlainStep
  BY <1>2 DEF PlainStep, SandboxNext, AttemptStep
<1>3. CASE OutcomeStep
  <2>1. CASE BeginAttempt \/ ReportVerdict \/ LoseAttempt \/ CloseBuild
    BY <2>1 DEF BeginAttempt, ReportVerdict, LoseAttempt, CloseBuild, SandboxNext, AttemptStep
  <2>2. CASE Unpack
    BY <2>2 DEF Unpack, SandboxNext, OuterStep
  <2>3. CASE RefuseArchive \/ FailAround \/ RefuseSite \/ FailUpload
    <3>1. PICK outcome \in {"failure", "error"} : GiveUp(outcome)
      BY <2>3 DEF RefuseArchive, FailAround, RefuseSite, FailUpload
    <3> QED
      BY <3>1 DEF SandboxNext, OuterStep
  <2>4. CASE Collect
    BY <2>4 DEF Collect
  <2> QED
    BY <1>3, <2>1, <2>2, <2>3, <2>4 DEF OutcomeStep
<1>4. CASE PutStep
  BY <1>4 DEF PutStep, Put, StrayPut
<1>5. CASE VisitStep
  BY <1>5 DEF VisitStep, VisitCache, VisitServe
<1> QED
  BY <1>1, <1>2, <1>3, <1>4, <1>5 DEF Next

\* Every behaviour of BuildSteps is one of BuildSandbox, whatever is built: contents
\* never get in the way of an attempt but to end it.
THEOREM AttemptsRefine == Spec => SandboxSpec
<1>1. Init => SandboxInit
  BY DEF Init
<1> QED
  BY <1>1, StepsAreAttempts, PTL DEF Spec, SandboxSpec

LEMMA SandboxHolds == SandboxSpec => []SandboxInv
<1> QED
  BY SandboxStarts, SandboxKeeps, PTL DEF SandboxSpec

\* Attempts, children, writers and logs have their types, for any number of attempts and
\* lines.
THEOREM SandboxTypeCorrect == Spec => []SandboxTypeOK
<1>1. SandboxInv => SandboxTypeOK
  BY DEF SandboxInv
<1> QED
  BY <1>1, AttemptsRefine, SandboxHolds, PTL

\* The log of a deployment reads in the order in which it was written, however flushes,
\* failing inserts, announcements and crashes of createLogWriter's worker overlap.
THEOREM LogStaysInOrder == Spec => []LogReadsInOrder
<1>1. SandboxInv => LogReadsInOrder
  BY DEF SandboxInv, LogState, Ordered, AllInOrder, LogReadsInOrder
<1> QED
  BY <1>1, AttemptsRefine, SandboxHolds, PTL

\* close() leaves nothing in the writer, and nothing is buffered without a timer.
THEOREM NothingIsForgotten == Spec => []NoLineIsForgotten
<1>1. SandboxInv => NoLineIsForgotten
  BY DEF SandboxInv
<1> QED
  BY <1>1, AttemptsRefine, SandboxHolds, PTL

-------------------------------------------------------------------------------
\* The row's status follows from the attempts.

\* A step that leaves its attempt in the hands of a worker, or of the sweep.
LEMMA StatusStays ==
  ASSUME build.phase \in Working, build'.phase \in Working \cup {"lost"},
         build'.attempt = build.attempt
  PROVE  UNCHANGED Lifecycle!lifecycle
<1>1. Status = "BUILDING" /\ Status' = "BUILDING"
  BY DEF Status, Working
<1> QED
  BY <1>1 DEF Lifecycle!lifecycle

\* Whoever ends an attempt settles it, or asks for another while there are any left.
LEMMA EndFollows ==
  ASSUME build.phase \in Working \cup {"lost"}, build'.attempt = build.attempt,
         build'.phase \in {"queued", "done"},
         build'.phase = "queued" => build.attempt < MaxAttempts
  PROVE  Lifecycle!Next
<1> DEFINE d == "deployment"
<1>1. Status = "BUILDING" /\ Status' \in {"QUEUED", "READY", "FAILED"}
  BY DEF Status, Working
<1>2. Status' = "QUEUED" => build.attempt < MaxAttempts
  BY DEF Status, Working
<1>3. CASE Status' = "QUEUED"
  <2>1. Lifecycle!TryAgain(d)
    BY <1>1, <1>2, <1>3 DEF Lifecycle!TryAgain, Lifecycle!Moves
  <2> QED
    BY <2>1 DEF Lifecycle!Next
<1>4. CASE Status' # "QUEUED"
  <2>1. Lifecycle!Settle(d)
    BY <1>1, <1>4 DEF Lifecycle!Settle, Lifecycle!Moves
  <2> QED
    BY <2>1 DEF Lifecycle!Next
<1> QED
  BY <1>3, <1>4

LEMMA BeginFollows ==
  ASSUME SandboxInv, Begin
  PROVE  Lifecycle!Next
<1>1. /\ build.phase = "queued" /\ build.attempt < MaxAttempts
      /\ build'.phase = "unpacking" /\ build'.attempt = build.attempt + 1
  BY DEF Begin, SandboxInv
<1>2. Status = "QUEUED" /\ Status' = "BUILDING"
  BY <1>1 DEF Status, Working
<1>3. Lifecycle!Try("deployment")
  BY <1>1, <1>2 DEF Lifecycle!Try, Lifecycle!Moves
<1> QED
  BY <1>3 DEF Lifecycle!Next

LEMMA StatusFollows ==
  ASSUME SandboxInv, [SandboxNext]_sandboxVars
  PROVE  [Lifecycle!Next]_(Lifecycle!lifecycle)
<1>0. build \in Build
  BY DEF SandboxInv, SandboxTypeOK
<1>1. CASE UNCHANGED build
  BY <1>1 DEF Status, Lifecycle!lifecycle
<1>2. CASE Begin
  BY <1>2, BeginFollows
<1>3. CASE Report
  <2> DEFINE next == IF build.outcome = "error" /\ build.attempt < MaxAttempts THEN "queued" ELSE "done"
  <2>1. /\ build.phase \in Working /\ GoTo(next) /\ next \in BuildPhases
        /\ next \in {"queued", "done"} /\ (next = "queued" => build.attempt < MaxAttempts)
    BY <1>3 DEF Report, Working, BuildPhases
  <2> HIDE DEF next
  <2>2. build'.phase = next /\ build'.attempt = build.attempt
    BY <1>0, <2>1, GoToIs
  <2> QED
    BY <2>1, <2>2, EndFollows
<1>4. CASE Recover
  <2> DEFINE next == IF build.attempt < MaxAttempts THEN "queued" ELSE "done"
  <2>1. /\ build.phase = "lost" /\ Throw(next, "error") /\ next \in BuildPhases /\ "error" \in Outcomes
        /\ next \in {"queued", "done"} /\ (next = "queued" => build.attempt < MaxAttempts)
    BY <1>4 DEF Recover, Outcomes, BuildPhases
  <2> HIDE DEF next
  <2>2. build'.phase = next /\ build'.attempt = build.attempt
    BY <1>0, <2>1, ThrowIs
  <2> QED
    BY <2>1, <2>2, EndFollows
<1>5. CASE /\ build.phase \in Working
           /\ \E phase \in Working \cup {"lost"}, outcome \in Outcomes : GoTo(phase) \/ Throw(phase, outcome)
  <2>1. build'.phase \in Working \cup {"lost"} /\ build'.attempt = build.attempt
    BY <1>0, <1>5, GoToIs, ThrowIs DEF BuildPhases
  <2> QED
    BY <1>5, <2>1, StatusStays
<1>6. CASE HaveImage \/ LackImage \/ Install \/ FailToInstall \/ LackDocker \/ EndRun \/ Close
           \/ OuterStep \/ Lose
  <2>1. build.phase \in Working
    BY <1>6 DEF HaveImage, LackImage, Install, FailToInstall, LackDocker, EndRun, Close,
                OuterStep, NeedBuild, TakeAsIs, GiveUp, Lose, Working
  <2>2. \E phase \in Working \cup {"lost"}, outcome \in Outcomes : GoTo(phase) \/ Throw(phase, outcome)
    BY <1>6 DEF HaveImage, LackImage, Install, FailToInstall, LackDocker, EndRun, Close,
                OuterStep, NeedBuild, TakeAsIs, GiveUp, Lose, CloseLog, Working, Outcomes
  <2> QED
    BY <1>5, <2>1, <2>2
<1>7. CASE WriterStep \/ PrepareImage \/ StartContainer \/ RunCommand \/ TimeUp \/ Kill
           \/ EndLeftover \/ (\E code \in {0, 1} : EndCommand(code)) \/ UNCHANGED sandboxVars
  <2>1. UNCHANGED build
    BY <1>7 DEF WriterStep, FlushTimer, Insert, PrepareImage, StartContainer, RunCommand, TimeUp, Kill,
                EndLeftover, EndCommand, sandboxVars
  <2> QED
    BY <1>1, <2>1
<1> QED
  BY <1>2, <1>3, <1>4, <1>6, <1>7 DEF SandboxNext, SandboxStep, AttemptStep

\* Whatever containers, logs and crashes do, the statuses that a deployment has while it
\* is built are the lifecycle's, and it is tried MaxAttempts times at most.
THEOREM AttemptsFollowLifecycle == Spec => FollowsLifecycle
<1>1. SandboxInv /\ [SandboxNext]_sandboxVars => [Lifecycle!Next]_(Lifecycle!lifecycle)
  BY StatusFollows
<1> QED
  BY <1>1, AttemptsRefine, SandboxHolds, PTL DEF SandboxSpec, FollowsLifecycle

-------------------------------------------------------------------------------
\* Paths, and files that are moved to other directories.

Moved(f, dirs) == [f EXCEPT !.path.dirs = dirs]

LEMMA FileIs ==
  ASSUME NEW f \in File
  PROVE  /\ f.path \in Path /\ f.path.dirs \in Seq(Strings) /\ f.path.stem \in Strings
         /\ f.path.ext \in Seq(Strings) /\ f.body \in Strings
         /\ f.large \in BOOLEAN /\ f.shrinks \in BOOLEAN
BY DEF File, Path

LEMMA MovedIs ==
  ASSUME NEW f \in File, NEW dirs \in Seq(Strings)
  PROVE  /\ Moved(f, dirs) \in File
         /\ Moved(f, dirs).path = [f.path EXCEPT !.dirs = dirs]
         /\ Moved(f, dirs).path.dirs = dirs
         /\ Moved(f, dirs).path.stem = f.path.stem /\ Moved(f, dirs).path.ext = f.path.ext
         /\ Moved(f, dirs).body = f.body /\ Moved(f, dirs).large = f.large
         /\ Moved(f, dirs).shrinks = f.shrinks
<1>1. [f.path EXCEPT !.dirs = dirs] \in Path
  BY DEF File, Path
<1> DEFINE p == [f.path EXCEPT !.dirs = dirs]
<1>2. p \in Path /\ p.dirs = dirs /\ p.stem = f.path.stem /\ p.ext = f.path.ext
  BY DEF File, Path
<1>3. Moved(f, dirs) = [f EXCEPT !.path = p]
  BY DEF Moved
<1> HIDE DEF p
<1>4. /\ Moved(f, dirs) \in File /\ Moved(f, dirs).path = p
      /\ Moved(f, dirs).body = f.body /\ Moved(f, dirs).large = f.large
      /\ Moved(f, dirs).shrinks = f.shrinks
  BY <1>2, <1>3 DEF File
<1> QED
  BY <1>2, <1>4 DEF p

\* Two files are one if everything in them is.
LEMMA SamePath ==
  ASSUME NEW f \in File, NEW g \in File,
         f.path.dirs = g.path.dirs, f.path.stem = g.path.stem, f.path.ext = g.path.ext
  PROVE  f.path = g.path
BY DEF File, Path

LEMMA SameFile ==
  ASSUME NEW f \in File, NEW g \in File, f.path = g.path,
         f.body = g.body, f.large = g.large, f.shrinks = g.shrinks
  PROVE  f = g
BY DEF File

LEMMA SequenceParts ==
  ASSUME NEW s \in Seq(Strings), s # <<>>
  PROVE  Tail(s) \in Seq(Strings) /\ Head(s) \in Strings /\ s = <<Head(s)>> \o Tail(s)
OBVIOUS

LEMMA InsideIs ==
  ASSUME NEW S \in SUBSET File, NEW dir
  PROVE  /\ Inside(S, dir) \in SUBSET File
         /\ \A f \in S : f.path.dirs # <<>> /\ Head(f.path.dirs) = dir =>
              Moved(f, Tail(f.path.dirs)) \in Inside(S, dir)
         /\ \A g \in Inside(S, dir) : \E f \in S :
              /\ f.path.dirs # <<>> /\ Head(f.path.dirs) = dir
              /\ g = Moved(f, Tail(f.path.dirs))
<1>1. Inside(S, dir) = { Moved(f, Tail(f.path.dirs)) : f \in { g \in S :
                           g.path.dirs # <<>> /\ Head(g.path.dirs) = dir } }
  BY DEF Inside, Moved
<1>2. ASSUME NEW f \in S, f.path.dirs # <<>>
      PROVE  Moved(f, Tail(f.path.dirs)) \in File
  <2>1. f \in File /\ f.path.dirs \in Seq(Strings)
    BY FileIs
  <2>2. Tail(f.path.dirs) \in Seq(Strings)
    BY <1>2, <2>1, SequenceParts
  <2> QED
    BY <2>1, <2>2, MovedIs
<1> QED
  BY <1>1, <1>2

\* Two files of one directory are two of the directory that it is in.
LEMMA InsideIsFolder ==
  ASSUME NEW S \in Folder, NEW dir
  PROVE  Inside(S, dir) \in Folder
<1>1. S \in SUBSET File /\ \A f, g \in S : f.path = g.path => f = g
  BY DEF Folder
<1>2. ASSUME NEW f \in Inside(S, dir), NEW g \in Inside(S, dir), f.path = g.path
      PROVE  f = g
  <2>1. PICK a \in S : /\ a.path.dirs # <<>> /\ Head(a.path.dirs) = dir
                       /\ f = Moved(a, Tail(a.path.dirs))
    BY <1>1, InsideIs
  <2>2. PICK b \in S : /\ b.path.dirs # <<>> /\ Head(b.path.dirs) = dir
                       /\ g = Moved(b, Tail(b.path.dirs))
    BY <1>1, InsideIs
  <2>3. a \in File /\ b \in File /\ a.path.dirs \in Seq(Strings) /\ b.path.dirs \in Seq(Strings)
    BY <1>1, FileIs
  <2>4. /\ Tail(a.path.dirs) \in Seq(Strings) /\ a.path.dirs = <<dir>> \o Tail(a.path.dirs)
        /\ Tail(b.path.dirs) \in Seq(Strings) /\ b.path.dirs = <<dir>> \o Tail(b.path.dirs)
    BY <2>1, <2>2, <2>3, SequenceParts
  <2>5. /\ f.path.dirs = Tail(a.path.dirs) /\ f.path.stem = a.path.stem /\ f.path.ext = a.path.ext
        /\ g.path.dirs = Tail(b.path.dirs) /\ g.path.stem = b.path.stem /\ g.path.ext = b.path.ext
    BY <2>1, <2>2, <2>3, <2>4, MovedIs
  <2>6. a.path.dirs = b.path.dirs /\ a.path.stem = b.path.stem /\ a.path.ext = b.path.ext
    BY <1>2, <2>4, <2>5
  <2>7. a = b
    BY <1>1, <2>3, <2>6, SamePath
  <2> QED
    BY <2>1, <2>2, <2>7
<1> QED
  BY <1>1, <1>2, InsideIs DEF Folder

LEMMA UnwrappedIs ==
  ASSUME NEW S \in SUBSET File
  PROVE  /\ Unwrapped(S) \in SUBSET File
         /\ Roots(S) = {} => Unwrapped(S) = S
         /\ \A dir : Roots(S) = {dir} => Unwrapped(S) = Inside(S, dir)
<1>1. \A dir : Inside(S, dir) \in SUBSET File
  BY InsideIs
<1>2. Roots(S) = {} => Unwrapped(S) = S
  BY DEF Unwrapped
<1>3. Roots(S) # {} => Unwrapped(S) = UNION { Inside(S, root) : root \in Roots(S) }
  BY DEF Unwrapped
<1>4. Unwrapped(S) \in SUBSET File
  BY <1>1, <1>2, <1>3
<1>5. \A dir : Roots(S) = {dir} => Unwrapped(S) = Inside(S, dir)
  BY <1>3
<1> QED
  BY <1>2, <1>4, <1>5

LEMMA ExtractedIs ==
  ASSUME NEW S \in SUBSET File
  PROVE  Extracted(S) \in SUBSET File
BY UnwrappedIs DEF Extracted

\* Of a folder in a wrapping one, unwrapping brings back what was in it.
LEMMA RootIs ==
  ASSUME NEW S \in SUBSET File, NEW dir, S # {},
         \A f \in S : f.path.dirs # <<>> /\ Head(f.path.dirs) = dir
  PROVE  Roots(S) = {dir}
<1>1. { TopLevel(f.path) : f \in S } = {dir}
  BY DEF TopLevel
<1>2. Cardinality({dir}) = 1
  BY FS_Singleton
<1> QED
  BY <1>1, <1>2 DEF Roots

-------------------------------------------------------------------------------
\* From the folder that is dropped to the files that are unpacked.

InWrapper(f) == Moved(f, <<project.wrapper>> \o f.path.dirs)

LEMMA WrapperParts ==
  ASSUME NEW S, NEW w \in S, NEW dirs \in Seq(S)
  PROVE  /\ <<w>> \in Seq(S) /\ <<w>> \o dirs \in Seq(S) /\ <<w>> \o dirs # <<>>
         /\ Head(<<w>> \o dirs) = w /\ Tail(<<w>> \o dirs) = dirs
         /\ Len(<<w>> \o dirs) = Len(dirs) + 1 /\ (<<w>> \o dirs)[1] = w
         /\ \A i \in 1 .. Len(dirs) : (<<w>> \o dirs)[i + 1] = dirs[i]
<1> DEFINE first == <<w>>
           longer == first \o dirs
<1>0. first \in Seq(S) /\ Len(first) = 1
  OBVIOUS
<1>1. first[1] = w
  OBVIOUS
<1> HIDE DEF first
<1>2. Len(dirs) \in Nat
  OBVIOUS
<1>3. /\ longer \in Seq(S) /\ Len(longer) = Len(first) + Len(dirs)
      /\ \A i \in 1 .. Len(first) + Len(dirs) :
           longer[i] = IF i <= Len(first) THEN first[i] ELSE dirs[i - Len(first)]
  BY <1>0, ConcatProperties
<1> HIDE DEF longer
<1>4. 1 \in 1 .. Len(first) + Len(dirs)
  BY <1>0, <1>3, <1>2
<1>5. longer[1] = w
  BY <1>0, <1>1, <1>3, <1>4
<1>6. ASSUME NEW i \in 1 .. Len(dirs) PROVE longer[i + 1] = dirs[i]
  <2>1. i + 1 \in 1 .. Len(first) + Len(dirs) /\ ~(i + 1 <= Len(first)) /\ i + 1 - Len(first) = i
    BY <1>0, <1>3, <1>2
  <2> QED
    BY <1>3, <2>1
<1>7. longer[1] = w /\ \A i \in 1 .. Len(dirs) : longer[i + 1] = dirs[i]
  BY <1>5, <1>6
<1>8. Len(longer) > 0
  BY <1>0, <1>2, <1>3
<1>9. longer # <<>> /\ Head(longer) = w
  BY <1>0, <1>2, <1>3, <1>8, <1>7
<1>10. Tail(longer) \in Seq(S) /\ Len(Tail(longer)) = Len(dirs)
  BY <1>0, <1>2, <1>3, <1>8
<1>11. \A i \in 1 .. Len(dirs) : Tail(longer)[i] = dirs[i]
  BY <1>0, <1>2, <1>3, <1>8, <1>7
<1>12. Tail(longer) = dirs
  BY <1>10, <1>11, SeqEqual
<1> QED
  BY <1>0, <1>3, <1>2, <1>12, <1>9, <1>7 DEF longer, first

LEMMA InWrapperIs ==
  ASSUME project \in Project, NEW f \in File
  PROVE  /\ InWrapper(f) \in File
         /\ InWrapper(f).path.dirs = <<project.wrapper>> \o f.path.dirs
         /\ InWrapper(f).path.dirs # <<>> /\ Head(InWrapper(f).path.dirs) = project.wrapper
         /\ InWrapper(f).path.stem = f.path.stem
         /\ Moved(InWrapper(f), Tail(InWrapper(f).path.dirs)) = f
         /\ project.wrapper \notin IgnoredDirectories => (Ignored(InWrapper(f).path) <=> Ignored(f.path))
<1> DEFINE w == project.wrapper
           d == f.path.dirs
           longer == <<w>> \o d
           g == InWrapper(f)
<1>1. w \in Strings /\ d \in Seq(Strings)
  BY FileIs DEF Project
<1>2. /\ longer \in Seq(Strings) /\ longer # <<>> /\ Head(longer) = w /\ Tail(longer) = d
      /\ Len(longer) = Len(d) + 1 /\ longer[1] = w
      /\ \A i \in 1 .. Len(d) : longer[i + 1] = d[i]
  BY <1>1, WrapperParts
<1>3. /\ g \in File /\ g.path.dirs = longer /\ g.path.stem = f.path.stem /\ g.path.ext = f.path.ext
      /\ g.body = f.body /\ g.large = f.large /\ g.shrinks = f.shrinks
  BY <1>2, MovedIs DEF InWrapper
<1> HIDE DEF longer, g
<1>4. Moved(g, Tail(g.path.dirs)) = f
  <2> DEFINE h == Moved(g, d)
  <2>1. /\ h \in File /\ h.path.dirs = d /\ h.path.stem = g.path.stem /\ h.path.ext = g.path.ext
        /\ h.body = g.body /\ h.large = g.large /\ h.shrinks = g.shrinks
    BY <1>1, <1>3, MovedIs
  <2> HIDE DEF h
  <2>2. h.path = f.path
    BY <1>3, <2>1, SamePath
  <2>3. h = f
    BY <1>3, <2>1, <2>2, SameFile
  <2> QED
    BY <1>2, <1>3, <2>3 DEF h
<1>5. ASSUME w \notin IgnoredDirectories
      PROVE  Ignored(g.path) <=> Ignored(f.path)
  <2>0. Len(d) \in Nat /\ Len(longer) \in Nat
    BY <1>1, <1>2
  <2>1. ASSUME NEW i \in 1 .. Len(longer), longer[i] \in IgnoredDirectories
        PROVE  \E j \in 1 .. Len(d) : d[j] \in IgnoredDirectories
    <3>1. i # 1
      BY <1>2, <1>5, <2>1
    <3>2. i - 1 \in 1 .. Len(d) /\ (i - 1) + 1 = i
      BY <1>2, <2>0, <3>1
    <3>3. longer[i] = d[i - 1]
      BY <1>2, <3>2
    <3> QED
      BY <2>1, <3>2, <3>3
  <2>2. ASSUME NEW j \in 1 .. Len(d), d[j] \in IgnoredDirectories
        PROVE  \E i \in 1 .. Len(longer) : longer[i] \in IgnoredDirectories
    <3>1. j + 1 \in 1 .. Len(longer)
      BY <1>2, <2>0
    <3> QED
      BY <1>2, <2>2, <3>1
  <2> QED
    BY <1>3, <2>1, <2>2 DEF Ignored
<1> QED
  BY <1>2, <1>3, <1>4, <1>5 DEF longer, g

LEMMA DroppedIs ==
  ASSUME project \in Project
  PROVE  /\ project.folder \in SUBSET File
         /\ project.wrapper = "" => Dropped = project.folder
         /\ project.wrapper # "" => Dropped = { InWrapper(f) : f \in project.folder }
         /\ Dropped \in SUBSET File
<1>1. project.folder \in SUBSET File
  BY DEF Project, Folder
<1>2. project.wrapper = "" => Dropped = project.folder
  BY DEF Dropped, Wrapped
<1>3. project.wrapper # "" => Dropped = { InWrapper(f) : f \in project.folder }
  BY DEF Dropped, Wrapped, InWrapper, Moved
<1>4. \A f \in project.folder : InWrapper(f) \in File
  BY <1>1, InWrapperIs
<1> QED
  BY <1>1, <1>2, <1>3, <1>4

LEMMA FolderEntryIs ==
  ASSUME project \in Project
  PROVE  /\ FolderEntry \in File /\ FolderEntry.path.dirs = <<project.wrapper>>
         /\ FolderEntry.path.stem = ""
         /\ Head(FolderEntry.path.dirs) = project.wrapper /\ FolderEntry.path.dirs # <<>>
         /\ Tail(FolderEntry.path.dirs) = <<>>
<1>1. project.wrapper \in Strings
  BY DEF Project
<1> DEFINE d == <<project.wrapper>>
           none == <<>>
<1>2. d \in Seq(Strings) /\ none \in Seq(Strings)
  BY <1>1
<1>3. Head(d) = project.wrapper /\ Tail(d) = none /\ d # none
  OBVIOUS
<1>4. FolderEntry = [ path |-> [dirs |-> d, stem |-> "", ext |-> none],
                      body |-> "", large |-> FALSE, shrinks |-> FALSE ]
  BY DEF FolderEntry
<1> HIDE DEF d, none
<1> DEFINE p == [dirs |-> d, stem |-> "", ext |-> none]
<1>5. p \in Path
  BY <1>2, StepsAssumption DEF Path
<1>6. p.dirs = d /\ p.stem = "" /\ FolderEntry = [path |-> p, body |-> "", large |-> FALSE, shrinks |-> FALSE]
  BY <1>4
<1> HIDE DEF p
<1>7. FolderEntry \in File /\ FolderEntry.path.dirs = d /\ FolderEntry.path.stem = ""
  BY <1>5, <1>6, StepsAssumption DEF File
<1> QED
  BY <1>7, <1>3 DEF d, none

LEMMA EntriesType ==
  ASSUME project \in Project
  PROVE  Entries \in SUBSET File /\ Extracted(Entries) \in SUBSET File
<1>1. Dropped \in SUBSET File
  BY DroppedIs
<1>2. ArchiveEntries(Dropped) \in SUBSET File
  <2>1. { f \in Dropped : ~Ignored(f.path) } \in SUBSET File
    BY <1>1
  <2> QED
    BY <2>1, UnwrappedIs DEF ArchiveEntries
<1>3. Entries \in SUBSET File
  BY <1>1, <1>2, FolderEntryIs DEF Entries
<1> QED
  BY <1>3, ExtractedIs

\* What is in the wrapping folder is what was wrapped.
LEMMA WrappedComesBack ==
  ASSUME project \in Project, NEW S \in SUBSET File, S # {}
  PROVE  Unwrapped({ InWrapper(f) : f \in S }) = S
<1> DEFINE W == { InWrapper(f) : f \in S }
<1>1. W \in SUBSET File /\ W # {}
  BY InWrapperIs
<1>2. \A g \in W : g.path.dirs # <<>> /\ Head(g.path.dirs) = project.wrapper
  BY InWrapperIs
<1>3. \A g \in W : \E f \in S : g = InWrapper(f)
  OBVIOUS
<1>4. \A f \in S : InWrapper(f) \in W
  OBVIOUS
<1> HIDE DEF W
<1>5. Unwrapped(W) = Inside(W, project.wrapper)
  BY <1>1, <1>2, RootIs, UnwrappedIs
<1>6. ASSUME NEW f \in S PROVE f \in Inside(W, project.wrapper)
  BY <1>1, <1>2, <1>4, InWrapperIs, InsideIs
<1>7. ASSUME NEW h \in Inside(W, project.wrapper) PROVE h \in S
  <2>1. PICK g \in W : h = Moved(g, Tail(g.path.dirs))
    BY <1>1, InsideIs
  <2>2. PICK f \in S : g = InWrapper(f)
    BY <1>3
  <2> QED
    BY <2>1, <2>2, InWrapperIs
<1> QED
  BY <1>5, <1>6, <1>7 DEF W

LEMMA NoFilesNoRoot == Roots({}) = {} /\ Unwrapped({}) = {}
<1>1. { TopLevel(f.path) : f \in {} } = {}
  OBVIOUS
<1>2. Cardinality({}) = 0
  BY FS_EmptySet
<1>3. Roots({}) = {}
  BY <1>1, <1>2 DEF Roots
<1> QED
  BY <1>3 DEF Unwrapped

\* Whatever wraps an ordinary project, and whoever packs it, what is unpacked is what
\* was to be sent.
LEMMA UnpackingIsExact ==
  ASSUME project \in Project, Ordinary(project)
  PROVE  Extracted(Entries) = Sent(project)
<1> DEFINE w == project.wrapper
           F == project.folder
           S == Sent(project)
<1>1. /\ F \in SUBSET File /\ S \in SUBSET File
      /\ \A f \in F : ~IsDirectory(f.path)
      /\ \A f \in S : ~IsDirectory(f.path)
      /\ w \notin IgnoredDirectories
      /\ project.zipped => S = F
  BY DroppedIs DEF Ordinary, Sent
<1>2. Roots(S) = {} => Unwrapped(S) = S
  BY <1>1, UnwrappedIs
<1>3. CASE ~project.zipped
  <2>1. Roots(S) = {}
    BY <1>3 DEF Ordinary
  <2>2. ArchiveEntries(Dropped) = S
    <3>1. CASE w = ""
      <4>1. { f \in Dropped : ~Ignored(f.path) } = S
        BY <1>3, <3>1, DroppedIs DEF Sent
      <4> QED
        BY <1>2, <2>1, <4>1 DEF ArchiveEntries
    <3>2. CASE w # ""
      <4>1. { f \in Dropped : ~Ignored(f.path) } = { InWrapper(f) : f \in S }
        <5>1. Dropped = { InWrapper(f) : f \in F }
          BY <3>2, DroppedIs
        <5>2. \A f \in F : Ignored(InWrapper(f).path) <=> Ignored(f.path)
          BY <1>1, InWrapperIs
        <5>3. \A f : f \in S <=> f \in F /\ ~Ignored(f.path)
          BY <1>3 DEF Sent
        <5> QED
          BY <5>1, <5>2, <5>3
      <4>2. CASE S = {}
        <5>1. { InWrapper(f) : f \in S } = {}
          BY <4>2
        <5> QED
          BY <4>1, <4>2, <5>1, NoFilesNoRoot DEF ArchiveEntries
      <4>3. CASE S # {}
        BY <1>1, <4>1, <4>3, WrappedComesBack DEF ArchiveEntries
      <4> QED
        BY <4>2, <4>3
    <3> QED
      BY <3>1, <3>2
  <2> QED
    BY <1>1, <1>2, <1>3, <2>1, <2>2 DEF Entries, Extracted
<1>4. CASE project.zipped /\ w = ""
  <2>1. Entries = S
    BY <1>1, <1>4, DroppedIs DEF Entries
  <2>2. Roots(S) = {}
    BY <1>4 DEF Ordinary
  <2> QED
    BY <1>1, <1>2, <2>1, <2>2 DEF Extracted
<1>5. CASE project.zipped /\ w # ""
  <2>1. Entries = { InWrapper(f) : f \in F } \cup {FolderEntry}
    BY <1>5, DroppedIs DEF Entries
  <2>2. Entries \in SUBSET File /\ Entries # {}
    BY <2>1, EntriesType
  <2>3. \A g \in Entries : g.path.dirs # <<>> /\ Head(g.path.dirs) = w
    <3>1. \A f \in F : InWrapper(f).path.dirs # <<>> /\ Head(InWrapper(f).path.dirs) = w
      BY <1>1, InWrapperIs
    <3>2. FolderEntry.path.dirs # <<>> /\ Head(FolderEntry.path.dirs) = w
      BY FolderEntryIs
    <3> QED
      BY <2>1, <3>1, <3>2
  <2>4. Unwrapped(Entries) = Inside(Entries, w)
    BY <2>2, <2>3, RootIs, UnwrappedIs
  <2>5. ASSUME NEW f \in F PROVE f \in Inside(Entries, w)
    <3>1. InWrapper(f) \in Entries
      BY <2>1
    <3> QED
      BY <1>1, <2>2, <2>3, <3>1, InWrapperIs, InsideIs
  <2>6. ASSUME NEW h \in Inside(Entries, w), ~IsDirectory(h.path) PROVE h \in F
    <3>1. PICK g \in Entries : h = Moved(g, Tail(g.path.dirs))
      BY <2>2, InsideIs
    <3>2. g # FolderEntry
      <4>1. <<>> \in Seq(Strings)
        OBVIOUS
      <4>2. Moved(FolderEntry, <<>>).path.stem = ""
        BY <4>1, FolderEntryIs, MovedIs
      <4> QED
        BY <2>6, <3>1, <4>2, FolderEntryIs DEF IsDirectory
    <3>3. PICK f \in F : g = InWrapper(f)
      BY <2>1, <3>1, <3>2
    <3> QED
      BY <1>1, <3>1, <3>3, InWrapperIs
  <2> QED
    BY <1>1, <1>5, <2>4, <2>5, <2>6 DEF Extracted
<1> QED
  BY <1>3, <1>4, <1>5

-------------------------------------------------------------------------------
\* Types.

PresetNames == {"static", "vite", "cra", "npm"}

LEMMA SelectedIsPreset ==
  ASSUME NEW requested \in {"any"} \cup PresetNames, NEW S, NEW manifest
  PROVE  /\ Selected(requested, S, manifest) \subseteq PresetNames
         /\ \A a, b \in Selected(requested, S, manifest) : a = b
<1> DEFINE D(i) == Detects(Presets[i], S, manifest)
<1>1. CASE requested # "any"
  BY <1>1 DEF Selected
<1>2. CASE requested = "any"
  <2>1. Len(Presets) = 4
    BY DEF Presets
  <2>2. \A i \in 1 .. 4 : Presets[i] \in PresetNames
    BY DEF Presets, PresetNames
  <2>3. Selected(requested, S, manifest) = { Presets[i] : i \in { j \in 1 .. 4 :
          D(j) /\ \A k \in 1 .. j - 1 : ~D(k) } }
    BY <1>2, <2>1 DEF Selected
  <2>4. ASSUME NEW i \in 1 .. 4, NEW j \in 1 .. 4, D(i), D(j),
               \A k \in 1 .. i - 1 : ~D(k), \A k \in 1 .. j - 1 : ~D(k)
        PROVE  i = j
    <3> HIDE DEF D
    <3>1. ~(i < j)
      <4>1. i < j => i \in 1 .. j - 1
        OBVIOUS
      <4> QED
        BY <2>4, <4>1
    <3>2. ~(j < i)
      <4>1. j < i => j \in 1 .. i - 1
        OBVIOUS
      <4> QED
        BY <2>4, <4>1
    <3> QED
      BY <3>1, <3>2
  <2> HIDE DEF D
  <2>5. Selected(requested, S, manifest) \subseteq PresetNames
    BY <2>2, <2>3
  <2>6. ASSUME NEW a \in Selected(requested, S, manifest), NEW b \in Selected(requested, S, manifest)
        PROVE  a = b
    <3>1. PICK i \in 1 .. 4 : a = Presets[i] /\ D(i) /\ \A k \in 1 .. i - 1 : ~D(k)
      BY <2>3
    <3>2. PICK j \in 1 .. 4 : b = Presets[j] /\ D(j) /\ \A k \in 1 .. j - 1 : ~D(k)
      BY <2>3
    <3>3. i = j
      BY <2>4, <3>1, <3>2
    <3> QED
      BY <3>1, <3>2, <3>3
  <2> QED
    BY <2>5, <2>6
<1> QED
  BY <1>1, <1>2

LEMMA SiteFilesType ==
  ASSUME NEW p, NEW S \in SUBSET File
  PROVE  SiteFiles(p, S) \in SUBSET File
<1>1. \A dir : Inside(S, dir) \in SUBSET File
  BY InsideIs
<1>2. CASE p = "static"
  BY <1>2 DEF SiteFiles
<1>3. CASE p # "static"
  <2> DEFINE I(i) == Inside(S, Candidates(p)[i])
             found == { i \in 1 .. Len(Candidates(p)) : DirectoryExists(S, Candidates(p)[i]) }
             first == { j \in found : \A k \in found : j <= k }
  <2>1. SiteFiles(p, S) = UNION { I(i) : i \in first }
    BY <1>3 DEF SiteFiles
  <2>2. \A i : I(i) \in SUBSET File
    BY <1>1
  <2> HIDE DEF I, first
  <2> QED
    BY <2>1, <2>2
<1> QED
  BY <1>2, <1>3

\* The bucket has one object under each key.
OneForEachKey(objects) == \A o, other \in objects : o.key = other.key => o = other

LEMMA StoredKeepsKeys ==
  ASSUME OneForEachKey(bucket), NEW object
  PROVE  OneForEachKey(Stored(object))
BY DEF OneForEachKey, Stored

StepsInv == SandboxInv /\ project \in Projects /\ StepsTypeOK

LEMMA StepsStart == Init => StepsInv
<1> SUFFICES ASSUME Init PROVE StepsInv
  OBVIOUS
<1>1. SandboxInv
  BY SandboxStarts DEF Init
<1>2. Cardinality(cache) <= CacheSize
  <2>1. cache = {} /\ Cardinality({}) = 0
    BY FS_EmptySet DEF Init
  <2>2. CacheSize \in Nat
    BY StepsAssumption
  <2> QED
    BY <2>1, <2>2
<1>3. /\ project \in Projects /\ preset = "none" /\ files = {} /\ site = {} /\ todo = {} /\ bucket = {}
  BY DEF Init
<1>4. StepsTypeOK
  BY <1>1, <1>2, <1>3 DEF StepsTypeOK, SandboxInv
<1> QED
  BY <1>1, <1>3, <1>4 DEF StepsInv

LEMMA StepsKeep ==
  ASSUME StepsInv, [Next]_vars
  PROVE  StepsInv'
<1>1. SandboxInv' /\ SandboxTypeOK'
  BY StepsAreAttempts, SandboxKeeps DEF StepsInv, SandboxInv
<1>2. project' = project /\ project \in Projects /\ project \in Project
  <2>1. project' = project
    BY DEF Next, vars, contentVars, PlainStep, OutcomeStep, PutStep, VisitStep, BeginAttempt, Unpack,
           RefuseArchive, FailAround, CloseBuild, Collect, RefuseSite, Put, FailUpload, StrayPut,
           ReportVerdict, LoseAttempt, VisitCache, VisitServe, buildVars
  <2> QED
    BY <2>1, StepsAssumption DEF StepsInv
<1>3. CASE UNCHANGED contentVars
  BY <1>1, <1>2, <1>3 DEF contentVars, StepsInv, StepsTypeOK
<1>4. CASE BeginAttempt
  BY <1>1, <1>2, <1>4 DEF BeginAttempt, StepsInv, StepsTypeOK, visitVars
<1>5. CASE Unpack
  <2>1. project.requested \in {"any"} \cup PresetNames
    BY <1>2 DEF Project, PresetNames
  <2>2. preset' \in PresetNames
    BY <1>5, <2>1, SelectedIsPreset DEF Unpack
  <2>3. files' \in SUBSET File
    BY <1>2, <1>5, EntriesType DEF Unpack
  <2> QED
    BY <1>1, <1>2, <1>5, <2>2, <2>3 DEF Unpack, StepsInv, StepsTypeOK, visitVars, PresetNames
<1>6. CASE CloseBuild
  <2>1. files' \in SUBSET File
    <3>1. CASE build.outcome = "built"
      <4>1. PICK made \in (IF RepeatableBuilds THEN {project.product} ELSE Products) : files' = Built(made)
        BY <1>6, <3>1 DEF CloseBuild
      <4>2. made \in SUBSET File
        BY <1>2, <4>1, StepsAssumption DEF Project, Folder
      <4> QED
        BY <4>1, <4>2 DEF Built, StepsInv, StepsTypeOK
    <3>2. CASE build.outcome # "built"
      BY <1>6, <3>2 DEF CloseBuild, StepsInv, StepsTypeOK
    <3> QED
      BY <3>1, <3>2
  <2> QED
    BY <1>1, <1>2, <1>6, <2>1 DEF CloseBuild, StepsInv, StepsTypeOK, visitVars
<1>7. CASE Collect
  <2>1. site' \in SUBSET File /\ todo' \subseteq UNION { ObjectsOf(f) : f \in site' }
    BY <1>7, SiteFilesType DEF Collect, StepsInv, StepsTypeOK
  <2> QED
    BY <1>1, <1>2, <1>7, <2>1 DEF Collect, StepsInv, StepsTypeOK, visitVars
<1>8. CASE PutStep
  <2>1. PICK object : Put(object) \/ StrayPut(object)
    BY <1>8 DEF PutStep
  <2>2. \A o, other \in bucket' : o.key = other.key => o = other
    BY <2>1, StoredKeepsKeys DEF Put, StrayPut, StepsInv, StepsTypeOK, OneForEachKey
  <2>3. todo' \subseteq todo
    BY <2>1 DEF Put, StrayPut
  <2> QED
    BY <1>1, <1>2, <2>1, <2>2, <2>3 DEF Put, StrayPut, StepsInv, StepsTypeOK, visitVars
<1>9. CASE FailUpload \/ LoseAttempt
  BY <1>1, <1>2, <1>9 DEF FailUpload, LoseAttempt, StepsInv, StepsTypeOK, visitVars
<1>10. CASE VisitStep
  <2>1. UNCHANGED <<buildVars, bucket>>
    BY <1>10 DEF VisitStep, VisitCache, VisitServe
  <2>2. cache' = cache \/ Cardinality(cache') <= CacheSize
    BY <1>10 DEF VisitStep, VisitCache, VisitServe
  <2> QED
    BY <1>1, <1>2, <2>1, <2>2 DEF buildVars, StepsInv, StepsTypeOK
<1>11. CASE PlainStep \/ RefuseArchive \/ FailAround \/ RefuseSite \/ ReportVerdict \/ UNCHANGED vars
  BY <1>3, <1>11 DEF PlainStep, RefuseArchive, FailAround, RefuseSite, ReportVerdict, vars
<1> QED
  BY <1>4, <1>5, <1>6, <1>7, <1>8, <1>9, <1>10, <1>11 DEF Next, OutcomeStep

\* The files of a site, the preset and the shared cache keep their types whatever is
\* dropped, built and lost; what waits to be put belongs to the site that was collected,
\* and no two objects of the bucket share a key, stray puts included.
THEOREM StepsTypeCorrect == Spec => []StepsTypeOK
<1>1. StepsInv => StepsTypeOK
  BY DEF StepsInv
<1> QED
  BY <1>1, StepsStart, StepsKeep, PTL DEF Spec

-------------------------------------------------------------------------------
\* Keys: what is found under a name, in the bucket of a site.

LEMMA AppendedIs ==
  ASSUME NEW S, NEW s \in Seq(S), NEW x \in S
  PROVE  /\ Append(s, x) \in Seq(S) /\ Append(s, x) # <<>>
         /\ Append(s, x)[Len(Append(s, x))] = x
OBVIOUS

LEMMA AppendedFrom ==
  ASSUME NEW S, NEW s \in Seq(S), NEW t \in Seq(S), NEW x \in S, Append(s, x) = Append(t, x)
  PROVE  s = t
<1>1. /\ Len(Append(s, x)) = Len(s) + 1 /\ Len(s) \in Nat
      /\ \A i \in 1 .. Len(s) : Append(s, x)[i] = s[i]
  OBVIOUS
<1>2. /\ Len(Append(t, x)) = Len(t) + 1 /\ Len(t) \in Nat
      /\ \A i \in 1 .. Len(t) : Append(t, x)[i] = t[i]
  OBVIOUS
<1>3. Len(s) = Len(t)
  BY <1>1, <1>2
<1>4. \A i \in 1 .. Len(s) : s[i] = t[i]
  BY <1>1, <1>2, <1>3
<1> QED
  BY <1>3, <1>4, SeqEqual

LEMMA CompressedKeyIs ==
  ASSUME NEW path \in Path
  PROVE  /\ CompressedKey(path) \in Path /\ NamesTwin(CompressedKey(path))
         /\ \A other \in Path : CompressedKey(path) = CompressedKey(other) => path = other
<1>1. path.ext \in Seq(Strings) /\ "br" \in Strings
  BY StepsAssumption DEF Path
<1>2. /\ CompressedKey(path).ext = Append(path.ext, "br")
      /\ CompressedKey(path).dirs = path.dirs /\ CompressedKey(path).stem = path.stem
  BY DEF CompressedKey, Path
<1>3. Append(path.ext, "br") \in Seq(Strings)
  BY <1>1
<1>4. CompressedKey(path) \in Path
  BY <1>1, <1>3 DEF CompressedKey, Path
<1>5. NamesTwin(CompressedKey(path))
  BY <1>1, <1>2, AppendedIs DEF NamesTwin
<1>6. ASSUME NEW other \in Path, CompressedKey(path) = CompressedKey(other)
      PROVE  path = other
  <2>1. /\ CompressedKey(other).ext = Append(other.ext, "br") /\ other.ext \in Seq(Strings)
        /\ CompressedKey(other).dirs = other.dirs /\ CompressedKey(other).stem = other.stem
    BY DEF CompressedKey, Path
  <2> DEFINE br == "br"
             mine == path.ext
             its == other.ext
  <2>2. /\ br \in Strings /\ mine \in Seq(Strings) /\ its \in Seq(Strings)
        /\ Append(mine, br) = Append(its, br)
    BY <1>1, <1>2, <1>6, <2>1
  <2> HIDE DEF br, mine, its
  <2>3. mine = its
    BY <2>2, AppendedFrom
  <2>4. path.ext = other.ext
    BY <2>3 DEF mine, its
  <2> QED
    BY <1>2, <1>6, <2>1, <2>4 DEF Path
<1> QED
  BY <1>4, <1>5, <1>6

\* A site in which no name is that of a twin.
PlainSite == { S \in Folder : \A f \in S : ~NamesTwin(f.path) }
AllObjects(S) == UNION { ObjectsOf(f) : f \in S }

LEMMA ObjectsAre ==
  ASSUME NEW f
  PROVE  /\ Original(f).key = f.path /\ Original(f).body = f.body /\ Original(f).br = FALSE
         /\ Twin(f).key = CompressedKey(f.path) /\ Twin(f).body = f.body /\ Twin(f).br = TRUE
         /\ \A o \in ObjectsOf(f) : o = Original(f) \/ o = Twin(f)
         /\ Original(f) \in ObjectsOf(f)
BY DEF Original, Twin, ObjectsOf

\* An object of a site is that of one of its files.
IsOriginal(o, f) == o = Original(f) /\ o.key = f.path /\ o.body = f.body
IsTwin(o, f) == o = Twin(f) /\ o.key = CompressedKey(f.path) /\ o.body = f.body

LEMMA FromFile ==
  ASSUME NEW S, NEW o \in AllObjects(S)
  PROVE  \E f \in S : IsOriginal(o, f) \/ IsTwin(o, f)
<1>1. PICK f \in S : o \in ObjectsOf(f)
  BY DEF AllObjects
<1>2. o = Original(f) \/ o = Twin(f)
  BY <1>1, ObjectsAre
<1>3. IsOriginal(o, f) \/ IsTwin(o, f)
  BY <1>2, ObjectsAre DEF IsOriginal, IsTwin
<1> QED
  BY <1>3

LEMMA PlainSiteIs ==
  ASSUME NEW S \in PlainSite
  PROVE  /\ S \in SUBSET File /\ \A f \in S : f.path \in Path /\ ~NamesTwin(f.path)
         /\ \A f, g \in S : f.path = g.path => f = g
BY FileIs DEF PlainSite, Folder

LEMMA KeysAreUnique ==
  ASSUME NEW S \in PlainSite
  PROVE  OneForEachKey(AllObjects(S))
<1> SUFFICES ASSUME NEW o \in AllObjects(S), NEW other \in AllObjects(S), o.key = other.key
             PROVE  o = other
  BY DEF OneForEachKey
<1>1. PICK f \in S : IsOriginal(o, f) \/ IsTwin(o, f)
  BY FromFile
<1>2. PICK g \in S : IsOriginal(other, g) \/ IsTwin(other, g)
  BY FromFile
<1>3. /\ f.path \in Path /\ g.path \in Path /\ ~NamesTwin(f.path) /\ ~NamesTwin(g.path)
      /\ f.path = g.path => f = g
  BY PlainSiteIs
<1>4. /\ NamesTwin(CompressedKey(f.path)) /\ NamesTwin(CompressedKey(g.path))
      /\ CompressedKey(f.path) = CompressedKey(g.path) => f.path = g.path
  BY <1>3, CompressedKeyIs
<1>5. f = g
  BY <1>1, <1>2, <1>3, <1>4 DEF IsOriginal, IsTwin
<1>6. IsOriginal(o, f) <=> IsOriginal(other, g)
  BY <1>1, <1>2, <1>3, <1>4 DEF IsOriginal, IsTwin
<1> QED
  BY <1>1, <1>2, <1>5, <1>6 DEF IsOriginal, IsTwin

\* What is found under the name of a file is that file, in one form or the other.
LEMMA VariantsAre ==
  ASSUME NEW S \in PlainSite, NEW key \in Path, ~NamesTwin(key), NEW brotli \in BOOLEAN
  PROVE  LET found == Variants(AllObjects(S), key, brotli)
             meant == { g \in S : g.path = key }
         IN  /\ \A o \in found : /\ o.key = key
                                 /\ o.br => brotli /\ VaryOnEncoding(key)
                                 /\ \E f \in meant : o.body = f.body
             /\ \A f \in meant : \E o \in found : o.body = f.body
<1> DEFINE found == Variants(AllObjects(S), key, brotli)
           meant == { g \in S : g.path = key }
           originals == { p \in AllObjects(S) : p.key = key }
           twins == IF brotli /\ VaryOnEncoding(key)
                      THEN { o \in AllObjects(S) : o.key = CompressedKey(key) } ELSE {}
           T == { [key |-> key, body |-> o.body, br |-> TRUE] : o \in twins }
           O == { [key |-> key, body |-> o.body, br |-> FALSE] : o \in originals }
<1>1. /\ twins # {} => found = T
      /\ twins = {} => found = O
  BY DEF Variants
<1>2. ASSUME NEW o \in originals
      PROVE  \E f \in meant : o.body = f.body
  <2>1. PICK f \in S : IsOriginal(o, f) \/ IsTwin(o, f)
    BY FromFile
  <2>2. NamesTwin(CompressedKey(f.path))
    BY PlainSiteIs, CompressedKeyIs
  <2>3. IsOriginal(o, f)
    BY <2>1, <2>2 DEF IsTwin
  <2>4. f \in meant /\ o.body = f.body
    BY <2>3 DEF IsOriginal
  <2> QED
    BY <2>4
<1>3. ASSUME NEW f \in meant
      PROVE  \E o \in originals : o.body = f.body
  <2>1. Original(f) \in originals /\ Original(f).body = f.body
    BY ObjectsAre DEF AllObjects
  <2> QED
    BY <2>1
<1>4. ASSUME NEW o \in twins
      PROVE  /\ brotli /\ VaryOnEncoding(key)
             /\ \E f \in meant : o.body = f.body
  <2>1. brotli /\ VaryOnEncoding(key) /\ o \in AllObjects(S) /\ o.key = CompressedKey(key)
    BY <1>4
  <2>2. PICK f \in S : IsOriginal(o, f) \/ IsTwin(o, f)
    BY <2>1, FromFile
  <2>3. f.path \in Path /\ ~NamesTwin(f.path) /\ NamesTwin(CompressedKey(key))
    BY PlainSiteIs, CompressedKeyIs
  <2>4. IsTwin(o, f)
    BY <2>1, <2>2, <2>3 DEF IsOriginal
  <2>5. CompressedKey(f.path) = CompressedKey(key)
    BY <2>1, <2>4 DEF IsTwin
  <2>6. f.path = key
    BY <2>3, <2>5, CompressedKeyIs
  <2>7. f \in meant /\ o.body = f.body
    BY <2>4, <2>6 DEF IsTwin
  <2> QED
    BY <2>1, <2>7
<1>5. \A f, g \in meant : f = g
  BY PlainSiteIs
<1> HIDE DEF found, meant, originals, twins
<1>6. CASE twins # {}
  <2>1. found = T
    BY <1>1, <1>6
  <2>2. ASSUME NEW o \in found
        PROVE  /\ o.key = key /\ brotli /\ VaryOnEncoding(key)
               /\ \E f \in meant : o.body = f.body
    <3>1. PICK t \in twins : o = [key |-> key, body |-> t.body, br |-> TRUE]
      BY <2>1
    <3>2. o.key = key /\ o.body = t.body
      BY <3>1
    <3> QED
      BY <1>4, <3>2
  <2>3. ASSUME NEW f \in meant
        PROVE  \E o \in found : o.body = f.body
    <3>1. PICK t \in twins : TRUE
      BY <1>6
    <3>2. t.body = f.body
      BY <1>4, <1>5
    <3>3. [key |-> key, body |-> t.body, br |-> TRUE] \in found
      BY <2>1
    <3> QED
      BY <3>2, <3>3
  <2> QED
    BY <2>2, <2>3 DEF found, meant
<1>7. CASE twins = {}
  <2>1. found = O
    BY <1>1, <1>7
  <2>2. ASSUME NEW o \in found
        PROVE  o.key = key /\ ~o.br /\ \E f \in meant : o.body = f.body
    <3>1. PICK t \in originals : o = [key |-> key, body |-> t.body, br |-> FALSE]
      BY <2>1
    <3>2. o.key = key /\ o.body = t.body /\ ~o.br
      BY <3>1
    <3> QED
      BY <1>2, <3>2
  <2>3. ASSUME NEW f \in meant
        PROVE  \E o \in found : o.body = f.body
    <3>1. PICK t \in originals : t.body = f.body
      BY <1>3
    <3>2. [key |-> key, body |-> t.body, br |-> FALSE] \in found
      BY <2>1
    <3> QED
      BY <3>1, <3>2
  <2> QED
    BY <2>2, <2>3 DEF found, meant
<1> QED
  BY <1>6, <1>7

-------------------------------------------------------------------------------
\* What serve answers from the objects of the site that is wanted.

LEMMA StorageKeyIs ==
  ASSUME NEW path \in Path, ~NamesTwin(path)
  PROVE  StorageKey(path) \in Path /\ ~NamesTwin(StorageKey(path))
<1>1. CASE ~IsDirectory(path)
  BY <1>1 DEF StorageKey
<1>2. CASE IsDirectory(path)
  <2> DEFINE html == "html"
             page == "index"
             ext == <<html>>
  <2>1. html \in Strings /\ page \in Strings /\ html # "br"
    BY StepsAssumption
  <2> HIDE DEF html, page
  <2>2. ext \in Seq(Strings) /\ Len(ext) = 1 /\ ext[1] = html
    BY <2>1
  <2> HIDE DEF ext
  <2>3. StorageKey(path) = [dirs |-> path.dirs, stem |-> page, ext |-> ext]
    BY <1>2 DEF StorageKey, ext, html, page
  <2>4. StorageKey(path) \in Path
    BY <2>1, <2>2, <2>3 DEF Path
  <2>5. StorageKey(path).ext = ext
    BY <2>3
  <2>6. ~NamesTwin(StorageKey(path))
    BY <2>1, <2>2, <2>5 DEF NamesTwin
  <2> QED
    BY <2>4, <2>6
<1> QED
  BY <1>1, <1>2

LEMMA IndexPageIs == IndexPage \in Path /\ ~NamesTwin(IndexPage)
<1> DEFINE html == "html"
           page == "index"
           ext == <<html>>
           dirs == <<>>
<1>1. html \in Strings /\ page \in Strings /\ html # "br"
  BY StepsAssumption
<1> HIDE DEF html, page
<1>2. ext \in Seq(Strings) /\ Len(ext) = 1 /\ ext[1] = html
  BY <1>1
<1>3. dirs \in Seq(Strings)
  OBVIOUS
<1> HIDE DEF ext, dirs
<1>4. IndexPage = [dirs |-> dirs, stem |-> page, ext |-> ext]
  BY DEF IndexPage, At, ext, html, page, dirs
<1>5. IndexPage \in Path
  BY <1>1, <1>2, <1>3, <1>4 DEF Path
<1>6. ~NamesTwin(IndexPage)
  BY <1>1, <1>2, <1>4 DEF NamesTwin
<1> QED
  BY <1>5, <1>6

\* What is found is the file that is meant, and an encoding is asked for.
RightAnswer(found, path, brotli) ==
  /\ \A o \in found : /\ o.br => brotli /\ VaryOnEncoding(o.key)
                      /\ \E f \in Wanted : f.path = Meant(path) /\ f.body = o.body
  /\ \A f \in Wanted : f.path = Meant(path) => \E o \in found : o.body = f.body

LEMMA ResolvedIsRight ==
  ASSUME Wanted \in PlainSite, NEW path \in Path, ~NamesTwin(path), NEW brotli \in BOOLEAN
  PROVE  RightAnswer(Resolved(AllObjects(Wanted), path, brotli), path, brotli)
<1> DEFINE found(key) == Variants(AllObjects(Wanted), key, brotli)
           meant(key) == { g \in Wanted : g.path = key }
           key == StorageKey(path)
<1>1. key \in Path /\ ~NamesTwin(key) /\ IndexPage \in Path /\ ~NamesTwin(IndexPage)
  BY StorageKeyIs, IndexPageIs
<1>2. ASSUME NEW k \in Path, ~NamesTwin(k)
      PROVE  /\ \A o \in found(k) : /\ o.key = k
                                    /\ o.br => brotli /\ VaryOnEncoding(o.key)
                                    /\ \E f \in Wanted : f.path = k /\ f.body = o.body
             /\ \A f \in Wanted : f.path = k => \E o \in found(k) : o.body = f.body
  <2>1. /\ \A o \in found(k) : /\ o.key = k
                               /\ o.br => brotli /\ VaryOnEncoding(k)
                               /\ \E f \in meant(k) : o.body = f.body
        /\ \A f \in meant(k) : \E o \in found(k) : o.body = f.body
    BY <1>2, VariantsAre
  <2> HIDE DEF found
  <2> QED
    BY <2>1
<1>3. found(key) # {} <=> Exists(Wanted, key)
  BY <1>1, <1>2 DEF Exists
<1>4. Resolved(AllObjects(Wanted), path, brotli)
        = IF found(key) # {} \/ ~LooksLikeClientRoute(path) THEN found(key) ELSE found(IndexPage)
  BY DEF Resolved
<1>5. Resolved(AllObjects(Wanted), path, brotli) = found(Meant(path)) /\ Meant(path) \in {key, IndexPage}
  <2> HIDE DEF found, key
  <2> QED
    BY <1>3, <1>4 DEF Meant, key
<1>6. Meant(path) \in Path /\ ~NamesTwin(Meant(path))
  BY <1>1, <1>5
<1> HIDE DEF found, key
<1>7. /\ \A o \in found(Meant(path)) :
           /\ o.key = Meant(path)
           /\ o.br => brotli /\ VaryOnEncoding(o.key)
           /\ \E f \in Wanted : f.path = Meant(path) /\ f.body = o.body
      /\ \A f \in Wanted : f.path = Meant(path) => \E o \in found(Meant(path)) : o.body = f.body
  BY <1>2, <1>6
<1> QED
  BY <1>5, <1>7 DEF RightAnswer

\* A right answer as VisitorsGetWhatWasBuilt says it.
LEMMA RightBodies ==
  ASSUME NEW found, NEW path, NEW brotli, RightAnswer(found, path, brotli)
  PROVE  { o.body : o \in found } = { f.body : f \in { g \in Wanted : g.path = Meant(path) } }
BY DEF RightAnswer

-------------------------------------------------------------------------------
\* The site that is made of an ordinary project, which is the same in every attempt.

Chosen == Selected(project.requested, Sent(project), project.manifest)

TheFiles(p) ==
  IF NeedsBuild(p)
    THEN project.product \cup { f \in Sent(project) : ~Exists(project.product, f.path) }
    ELSE Sent(project)

TheSite(p) == SiteFiles(p, TheFiles(p))

LEMMA InsideIsPlain ==
  ASSUME NEW S \in PlainSite, NEW dir
  PROVE  Inside(S, dir) \in PlainSite
<1>1. S \in Folder /\ S \in SUBSET File /\ \A f \in S : ~NamesTwin(f.path)
  BY DEF PlainSite, Folder
<1>2. ASSUME NEW g \in Inside(S, dir) PROVE ~NamesTwin(g.path)
  <2>1. PICK f \in S : f.path.dirs # <<>> /\ g = Moved(f, Tail(f.path.dirs))
    BY <1>1, InsideIs
  <2>2. f \in File /\ f.path.dirs \in Seq(Strings)
    BY <1>1, FileIs
  <2>3. Tail(f.path.dirs) \in Seq(Strings)
    BY <2>1, <2>2, SequenceParts
  <2>4. g.path.ext = f.path.ext
    BY <2>1, <2>2, <2>3, MovedIs
  <2> QED
    BY <1>1, <2>4 DEF NamesTwin
<1> QED
  BY <1>1, <1>2, InsideIsFolder DEF PlainSite

LEMMA TheFilesArePlain ==
  ASSUME project \in Project, Ordinary(project), NEW p
  PROVE  TheFiles(p) \in PlainSite /\ Sent(project) \in PlainSite
<1>1. /\ project.folder \in Folder /\ project.product \in Folder
      /\ \A f \in project.folder \cup project.product : ~NamesTwin(f.path)
  BY DEF Project, Ordinary
<1>2. /\ Sent(project) \subseteq project.folder
      /\ Sent(project) \in Folder
  BY <1>1 DEF Sent, Folder
<1> DEFINE kept == { f \in Sent(project) : ~Exists(project.product, f.path) }
           both == project.product \cup kept
<1>3. both \in SUBSET File /\ \A f \in both : ~NamesTwin(f.path)
  BY <1>1, <1>2 DEF Folder
<1>4. \A f, g \in both : f.path = g.path => f = g
  <2>1. \A f \in kept : \A g \in project.product : f.path # g.path
    BY DEF Exists
  <2>2. \A f, g \in project.product : f.path = g.path => f = g
    BY <1>1 DEF Folder
  <2>3. \A f, g \in kept : f.path = g.path => f = g
    BY <1>2 DEF Folder
  <2> HIDE DEF kept
  <2> QED
    BY <2>1, <2>2, <2>3
<1>5. both \in PlainSite
  BY <1>3, <1>4 DEF PlainSite, Folder
<1>6. Sent(project) \in PlainSite
  BY <1>1, <1>2 DEF PlainSite
<1> QED
  BY <1>5, <1>6 DEF TheFiles

LEMMA SiteIsPlain ==
  ASSUME NEW S \in PlainSite, NEW p \in PresetNames
  PROVE  SiteFiles(p, S) \in PlainSite
<1>1. CASE p = "static"
  BY <1>1 DEF SiteFiles
<1>2. CASE p # "static"
  <2> DEFINE n == Len(Candidates(p))
             I(i) == Inside(S, Candidates(p)[i])
             found == { i \in 1 .. n : DirectoryExists(S, Candidates(p)[i]) }
             first == { j \in found : \A k \in found : j <= k }
  <2>1. SiteFiles(p, S) = UNION { I(i) : i \in first }
    BY <1>2 DEF SiteFiles
  <2>2. n \in Nat
    BY <1>2 DEF Candidates, PresetNames
  <2>3. \A i : I(i) \in PlainSite
    BY InsideIsPlain
  <2>4. \A i, j \in first : i = j
    <3>1. \A i, j \in first : i \in Nat /\ j \in Nat /\ i <= j /\ j <= i
      <4> HIDE DEF n
      <4> QED
        BY <2>2
    <3> QED
      BY <3>1
  <2> HIDE DEF I, first
  <2>5. CASE first = {}
    <3>1. SiteFiles(p, S) = {}
      BY <2>1, <2>5
    <3>2. {} \in PlainSite
      BY DEF PlainSite, Folder
    <3> QED
      BY <3>1, <3>2
  <2>6. CASE first # {}
    <3>1. PICK i \in first : TRUE
      BY <2>6
    <3>2. SiteFiles(p, S) = I(i)
      BY <2>1, <2>4
    <3> QED
      BY <2>3, <3>2
  <2> QED
    BY <2>5, <2>6
<1> QED
  BY <1>1, <1>2

LEMMA ChosenIs ==
  ASSUME project \in Project
  PROVE  Chosen \subseteq PresetNames /\ \A a, b \in Chosen : a = b
<1>1. project.requested \in {"any"} \cup PresetNames
  BY DEF Project, PresetNames
<1> QED
  BY <1>1, SelectedIsPreset DEF Chosen

LEMMA TheSiteIsPlain ==
  ASSUME project \in Project, Ordinary(project), NEW p \in Chosen
  PROVE  TheSite(p) \in PlainSite
BY ChosenIs, TheFilesArePlain, SiteIsPlain DEF TheSite

-------------------------------------------------------------------------------
\* What becomes of an ordinary project: in every attempt the same site, whose objects
\* are all that is ever put, and answers that are right.

InBuild == {"image", "installing", "running", "closing"}

AttemptFits ==
  /\ build.phase \in {"unpacking"} \cup InBuild => site = {}
  /\ build.phase \in InBuild => preset \in Chosen /\ NeedsBuild(preset) /\ files = Sent(project)
  /\ build.phase = "uploading" => preset \in Chosen /\ files = TheFiles(preset)
  /\ build.phase = "recording" => build.outcome # "built"
  /\ site # {} => preset \in Chosen /\ site = TheSite(preset)

TheObjects == UNION { AllObjects(TheSite(p)) : p \in Chosen }

ObjectsFit ==
  /\ todo \cup strays \cup bucket \subseteq TheObjects
  /\ build.phase = "uploading" /\ site # {} => TheObjects \subseteq bucket \cup todo
  /\ Ready => site # {} /\ TheObjects \subseteq bucket

EntryFits(e) ==
  /\ { f.body : f \in { g \in Wanted : g.path = Meant(e.path) } } = {e.body}
  /\ e.br => e.vary /\ e.brotli

AnswersFit ==
  /\ cache # {} \/ answer # NoAnswer => Ready
  /\ \A e \in cache : EntryFits(e)
  /\ VisitorsGetWhatWasBuilt

ContentsInv == StepsInv /\ AttemptFits /\ ObjectsFit /\ AnswersFit

LEMMA TheObjectsAre ==
  ASSUME project \in Project, Ordinary(project)
  PROVE  /\ OneForEachKey(TheObjects)
         /\ \A p \in Chosen : TheObjects = AllObjects(TheSite(p))
<1>1. \A p \in Chosen : TheObjects = AllObjects(TheSite(p))
  BY ChosenIs DEF TheObjects
<1>2. \A p \in Chosen : OneForEachKey(AllObjects(TheSite(p)))
  BY TheSiteIsPlain, KeysAreUnique
<1>3. CASE Chosen = {}
  <2>1. TheObjects = {}
    BY <1>3 DEF TheObjects
  <2> QED
    BY <1>1, <2>1 DEF OneForEachKey
<1>4. CASE Chosen # {}
  BY <1>1, <1>2, <1>4
<1> QED
  BY <1>3, <1>4

\* Where no two objects go by one name, a put adds and takes nothing away.
LEMMA StoredAdds ==
  ASSUME OneForEachKey(TheObjects), bucket \subseteq TheObjects, NEW object \in TheObjects
  PROVE  Stored(object) = bucket \cup {object}
BY DEF Stored, OneForEachKey

LEMMA ContentsStart == Init => ContentsInv
<1> SUFFICES ASSUME Init PROVE ContentsInv
  OBVIOUS
<1>1. /\ build.phase = "queued" /\ build.outcome = "none"
      /\ site = {} /\ todo = {} /\ strays = {} /\ bucket = {} /\ cache = {} /\ answer = NoAnswer
  BY DEF Init, SandboxInit
<1>2. AttemptFits
  BY <1>1 DEF AttemptFits, InBuild
<1>3. ObjectsFit
  BY <1>1 DEF ObjectsFit, Ready
<1>4. AnswersFit
  BY <1>1 DEF AnswersFit, VisitorsGetWhatWasBuilt
<1> QED
  BY <1>2, <1>3, <1>4, StepsStart DEF ContentsInv

\* The steps inside the sandbox move an attempt within it, or take a lost one up.
LEMMA PlainMoves ==
  ASSUME build \in Build, PlainStep
  PROVE  \/ build' = build
         \/ build.phase \in InBuild /\ build'.phase \in InBuild
         \/ build'.phase \in {"queued", "done"} /\ build'.outcome = "error"
<1>1. CASE WriterStep \/ PrepareImage \/ StartContainer \/ RunCommand \/ TimeUp \/ Kill
           \/ EndLeftover \/ (\E code \in {0, 1} : EndCommand(code))
  BY <1>1 DEF WriterStep, FlushTimer, Insert, PrepareImage, StartContainer, RunCommand, TimeUp, Kill,
              EndLeftover, EndCommand
<1>2. CASE HaveImage \/ LackImage \/ Install \/ FailToInstall \/ LackDocker \/ EndRun
  <2>1. build.phase \in InBuild
    BY <1>2 DEF HaveImage, LackImage, Install, FailToInstall, LackDocker, EndRun, InBuild
  <2>2. \E phase \in InBuild, outcome \in Outcomes : GoTo(phase) \/ Throw(phase, outcome)
    BY <1>2 DEF HaveImage, LackImage, Install, FailToInstall, LackDocker, EndRun, CloseLog, InBuild, Outcomes
  <2>3. InBuild \subseteq BuildPhases
    BY DEF InBuild, BuildPhases, Working
  <2>4. build'.phase \in InBuild
    BY <2>2, <2>3, GoToIs, ThrowIs
  <2> QED
    BY <2>1, <2>4
<1>3. CASE Recover
  BY <1>3 DEF Recover, Throw, Build
<1> QED
  BY <1>1, <1>2, <1>3 DEF PlainStep, SandboxStep

\* Once it is READY, nothing but answers changes: what stray loops still put is there.
LEMMA ReadyStays ==
  ASSUME Ready, [Next]_vars
  PROVE  /\ Ready' /\ UNCHANGED <<build, project, preset, site>>
         /\ \/ UNCHANGED contentVars
            \/ PutStep
            \/ VisitStep
<1>1. build.phase = "done"
  BY DEF Ready
<1>2. CASE PlainStep
  <2>1. UNCHANGED build
    BY <1>1, <1>2 DEF PlainStep, WriterStep, FlushTimer, Insert, Recover, EndLeftover, SandboxStep, PrepareImage,
         HaveImage, LackImage, Install, FailToInstall, StartContainer, LackDocker, RunCommand, EndCommand,
         TimeUp, Kill, EndRun
  <2> QED
    BY <1>2, <2>1 DEF PlainStep, contentVars, Ready
<1>3. CASE OutcomeStep
  BY <1>1, <1>3 DEF OutcomeStep, BeginAttempt, Begin, Unpack, NeedBuild, TakeAsIs, RefuseArchive, FailAround,
       GiveUp, CloseBuild, Close, Collect, RefuseSite, FailUpload, ReportVerdict, Report, LoseAttempt, Lose, Working
<1>4. CASE PutStep
  BY <1>1, <1>4 DEF PutStep, Put, StrayPut, sandboxVars, Ready
<1>5. CASE VisitStep
  BY <1>5 DEF VisitStep, VisitCache, VisitServe, sandboxVars, buildVars, Ready
<1>6. CASE UNCHANGED vars
  BY <1>6 DEF vars, sandboxVars, contentVars, Ready
<1> QED
  BY <1>2, <1>3, <1>4, <1>5, <1>6 DEF Next

-------------------------------------------------------------------------------
\* Attempts and objects fit, too, after each kind of step.
Fits == AttemptFits /\ ObjectsFit

LEMMA SameProject ==
  ASSUME project' = project
  PROVE  /\ Sent(project)' = Sent(project) /\ Chosen' = Chosen /\ TheObjects' = TheObjects
         /\ \A p : TheFiles(p)' = TheFiles(p) /\ TheSite(p)' = TheSite(p)
BY DEF Sent, Chosen, TheObjects, TheFiles, TheSite

\* A step that leaves the attempt where it is, or ends it with nothing to show.
LEMMA EndFits ==
  ASSUME Fits, UNCHANGED <<project, preset, files, site, bucket>>,
         todo' \cup strays' \subseteq todo \cup strays,
         \/ build'.phase \in {"queued", "lost", "recording"} /\ build'.outcome # "built"
         \/ build'.phase \in {"queued", "lost"}
         \/ build'.phase = "done" /\ build'.outcome # "built"
  PROVE  Fits'
<1>1. AttemptFits'
  BY SameProject DEF Fits, AttemptFits, InBuild
<1>2. ObjectsFit'
  BY SameProject DEF Fits, ObjectsFit, Ready
<1> QED
  BY <1>1, <1>2 DEF Fits

LEMMA GiveUpFits ==
  ASSUME build \in Build, Fits, RefuseArchive \/ FailAround \/ RefuseSite \/ FailUpload
  PROVE  Fits'
<1>1. PICK outcome \in {"failure", "error"} : GiveUp(outcome)
  BY DEF RefuseArchive, FailAround, RefuseSite, FailUpload
<1>2. build'.phase = "recording" /\ build'.outcome = outcome
  BY <1>1 DEF GiveUp, Throw, Build
<1>3. UNCHANGED <<project, preset, files, site, bucket>> /\ todo' \cup strays' \subseteq todo \cup strays
  BY DEF RefuseArchive, FailAround, RefuseSite, FailUpload, contentVars
<1> QED
  BY <1>1, <1>2, <1>3, EndFits

LEMMA LoseFits ==
  ASSUME build \in Build, Fits, LoseAttempt
  PROVE  Fits'
<1>1. build'.phase = "lost"
  BY DEF LoseAttempt, Lose, GoTo, Build
<1>2. UNCHANGED <<project, preset, files, site, bucket>> /\ todo' \cup strays' \subseteq todo \cup strays
  BY DEF LoseAttempt
<1> QED
  BY <1>1, <1>2, EndFits

\* READY is the verdict of an upload that is complete.
LEMMA ReportFits ==
  ASSUME build \in Build, Fits, ReportVerdict
  PROVE  Fits'
<1>1. /\ build.phase \in {"uploading", "recording"} /\ build'.outcome = build.outcome
      /\ build'.phase \in {"queued", "done"}
      /\ UNCHANGED contentVars
  BY DEF ReportVerdict, Report, GoTo, Build
<1>2. UNCHANGED <<project, preset, files, site, bucket, todo, strays>>
  BY <1>1 DEF contentVars
<1>3. CASE build'.phase = "queued" \/ build.outcome # "built"
  BY <1>1, <1>2, <1>3, EndFits
<1>4. CASE build'.phase = "done" /\ build.outcome = "built"
  <2>1. build.phase = "uploading" /\ site # {} /\ todo = {}
    BY <1>1, <1>4 DEF Fits, AttemptFits, ReportVerdict
  <2>2. TheObjects \subseteq bucket
    BY <2>1 DEF Fits, ObjectsFit
  <2>3. AttemptFits'
    BY <1>2, <1>4, SameProject DEF Fits, AttemptFits, InBuild
  <2>4. ObjectsFit'
    BY <1>2, <1>4, <2>1, <2>2, SameProject DEF Fits, ObjectsFit
  <2> QED
    BY <2>3, <2>4 DEF Fits
<1> QED
  BY <1>1, <1>3, <1>4

LEMMA BeginFits ==
  ASSUME Fits, BeginAttempt
  PROVE  Fits'
<1>1. /\ build'.phase = "unpacking" /\ site' = {} /\ todo' = {}
      /\ UNCHANGED <<project, strays, bucket>>
  BY DEF BeginAttempt, Begin
<1>2. AttemptFits'
  BY <1>1 DEF AttemptFits, InBuild
<1>3. ObjectsFit'
  BY <1>1, SameProject DEF Fits, ObjectsFit, Ready
<1> QED
  BY <1>2, <1>3 DEF Fits

LEMMA UnpackFits ==
  ASSUME build \in Build, project \in Project, Ordinary(project), Fits, Unpack
  PROVE  Fits'
<1>1. PICK selected \in Selected(project.requested, Extracted(Entries), project.manifest) :
        /\ IF NeedsBuild(selected) THEN NeedBuild ELSE TakeAsIs
        /\ files' = Extracted(Entries) /\ preset' = selected
        /\ UNCHANGED <<project, site, todo, strays, bucket, visitVars>>
  BY DEF Unpack
<1>2. Extracted(Entries) = Sent(project) /\ selected \in Chosen
  BY <1>1, UnpackingIsExact DEF Chosen
<1>3. build.phase = "unpacking" /\ site = {}
  BY <1>1 DEF NeedBuild, TakeAsIs, Fits, AttemptFits
<1>4. CASE NeedsBuild(selected)
  <2>1. build'.phase = "image"
    BY <1>1, <1>4 DEF NeedBuild, GoTo, Build
  <2>2. AttemptFits'
    BY <1>1, <1>2, <1>3, <1>4, <2>1, SameProject DEF AttemptFits, InBuild
  <2>3. ObjectsFit'
    BY <1>1, <2>1, SameProject DEF Fits, ObjectsFit, Ready
  <2> QED
    BY <2>2, <2>3 DEF Fits
<1>5. CASE ~NeedsBuild(selected)
  <2>1. build'.phase = "uploading"
    BY <1>1, <1>5 DEF TakeAsIs, Throw, Build
  <2>2. Sent(project) = TheFiles(selected)
    BY <1>5 DEF TheFiles
  <2>3. AttemptFits'
    BY <1>1, <1>2, <1>3, <2>1, <2>2, SameProject DEF AttemptFits, InBuild
  <2>4. ObjectsFit'
    BY <1>1, <1>3, <2>1, SameProject DEF Fits, ObjectsFit, Ready
  <2> QED
    BY <2>3, <2>4 DEF Fits
<1> QED
  BY <1>4, <1>5

LEMMA CloseFits ==
  ASSUME RepeatableBuilds, build \in Build, Fits, CloseBuild
  PROVE  Fits'
<1>1. /\ build.phase = "closing" /\ build'.outcome = build.outcome
      /\ build'.phase = IF build.outcome = "built" THEN "uploading" ELSE "recording"
      /\ UNCHANGED <<project, preset, site, todo, strays, bucket>>
  BY DEF CloseBuild, Close, GoTo, Build
<1>2. site = {} /\ preset \in Chosen /\ NeedsBuild(preset) /\ files = Sent(project)
  BY <1>1 DEF Fits, AttemptFits, InBuild
<1>3. build.outcome = "built" => files' = TheFiles(preset)
  BY <1>2 DEF CloseBuild, Built, TheFiles
<1>4. AttemptFits'
  BY <1>1, <1>2, <1>3, SameProject DEF AttemptFits, InBuild
<1>5. ObjectsFit'
  BY <1>1, <1>2, SameProject DEF Fits, ObjectsFit, Ready
<1> QED
  BY <1>4, <1>5 DEF Fits

LEMMA CollectFits ==
  ASSUME project \in Project, Ordinary(project), Fits, Collect
  PROVE  Fits'
<1>1. /\ build.phase = "uploading" /\ site' = SiteFiles(preset, files)
      /\ todo' = AllObjects(site')
      /\ UNCHANGED <<build, project, files, preset, strays, bucket>>
  BY DEF Collect, sandboxVars, AllObjects
<1>2. preset \in Chosen /\ files = TheFiles(preset)
  BY <1>1 DEF Fits, AttemptFits
<1>3. site' = TheSite(preset) /\ todo' = TheObjects
  BY <1>1, <1>2, TheObjectsAre DEF TheSite
<1>4. AttemptFits'
  BY <1>1, <1>2, <1>3, SameProject DEF AttemptFits, InBuild
<1>5. ObjectsFit'
  BY <1>1, <1>3, SameProject DEF Fits, ObjectsFit, Ready
<1> QED
  BY <1>4, <1>5 DEF Fits

\* A put, of an upload or of one that has failed before.
LEMMA PutFits ==
  ASSUME project \in Project, Ordinary(project), Fits, PutStep
  PROVE  Fits'
<1>1. PICK object \in todo \cup strays : Put(object) \/ StrayPut(object)
  BY DEF PutStep
<1>2. /\ UNCHANGED <<build, project, files, preset, site>>
      /\ bucket' = Stored(object)
      /\ todo' \cup strays' \subseteq todo \cup strays
      /\ todo \subseteq todo' \cup {object}
  BY <1>1 DEF Put, StrayPut, sandboxVars
<1>3. object \in TheObjects /\ bucket' = bucket \cup {object}
  BY <1>1, <1>2, StoredAdds, TheObjectsAre DEF Fits, ObjectsFit
<1>4. AttemptFits'
  BY <1>2, SameProject DEF Fits, AttemptFits
<1>5. ObjectsFit'
  BY <1>2, <1>3, SameProject DEF Fits, ObjectsFit, Ready
<1> QED
  BY <1>4, <1>5 DEF Fits

LEMMA PlainFits ==
  ASSUME build \in Build, Fits, PlainStep
  PROVE  Fits'
<1>1. UNCHANGED <<project, preset, files, site, todo, strays, bucket>>
  BY DEF PlainStep, contentVars
<1>2. CASE build' = build
  BY <1>1, <1>2, SameProject DEF Fits, AttemptFits, ObjectsFit, Ready
<1>3. CASE build.phase \in InBuild /\ build'.phase \in InBuild
  <2>1. AttemptFits'
    BY <1>1, <1>3, SameProject DEF Fits, AttemptFits, InBuild
  <2>2. ObjectsFit'
    BY <1>1, <1>3, SameProject DEF Fits, ObjectsFit, Ready, InBuild
  <2> QED
    BY <2>1, <2>2 DEF Fits
<1>4. CASE build'.phase \in {"queued", "done"} /\ build'.outcome = "error"
  BY <1>1, <1>4, EndFits
<1> QED
  BY <1>2, <1>3, <1>4, PlainMoves

LEMMA StepFits ==
  ASSUME OrdinaryUse, StepsInv, Fits, [Next]_vars
  PROVE  Fits'
<1>1. build \in Build /\ project \in Project /\ Ordinary(project) /\ RepeatableBuilds
  BY StepsAssumption DEF OrdinaryUse, StepsInv, StepsTypeOK, SandboxTypeOK
<1>2. CASE VisitStep \/ UNCHANGED vars
  <2>1. UNCHANGED <<build, project, preset, files, site, todo, strays, bucket>>
    BY <1>2 DEF VisitStep, VisitCache, VisitServe, sandboxVars, buildVars, vars, contentVars
  <2> QED
    BY <2>1, SameProject DEF Fits, AttemptFits, ObjectsFit, Ready
<1> QED
  BY <1>1, <1>2, PlainFits, PutFits, CollectFits, CloseFits, UnpackFits, BeginFits, ReportFits, LoseFits,
     GiveUpFits DEF Next, OutcomeStep

-------------------------------------------------------------------------------
\* Answers.

\* The site that is wanted is the one that was uploaded, and it is in the bucket.
LEMMA ReadyIsWanted ==
  ASSUME project \in Project, Ordinary(project), Fits, Ready
  PROVE  Wanted \in PlainSite /\ bucket = AllObjects(Wanted)
<1>1. preset \in Chosen /\ site = TheSite(preset) /\ bucket = TheObjects
  BY DEF Fits, AttemptFits, ObjectsFit
<1>2. preset = "static" => site = Sent(project)
  BY <1>1 DEF TheSite, SiteFiles, TheFiles, NeedsBuild
<1>3. Wanted = site
  BY <1>2 DEF Wanted
<1> QED
  BY <1>1, <1>3, TheSiteIsPlain, TheObjectsAre

LEMMA VisitFits ==
  ASSUME OrdinaryUse, project \in Project, Ordinary(project), Fits, AnswersFit, VisitStep,
         Ready', UNCHANGED <<project, preset, site>>
  PROVE  AnswersFit'
<1>0. Wanted' = Wanted /\ \A path : Meant(path)' = Meant(path)
  BY DEF Wanted, Meant, Sent
<1>1. PICK path \in Requests, brotli \in BOOLEAN : VisitCache(path, brotli) \/ VisitServe(path, brotli)
  BY DEF VisitStep
<1>2. path \in Path /\ ~NamesTwin(path)
  BY StepsAssumption DEF OrdinaryUse
<1>3. \A e : EntryFits(e)' <=> EntryFits(e)
  BY <1>0 DEF EntryFits
<1>4. CASE VisitCache(path, brotli)
  <2>1. PICK e \in Usable(path, brotli) : answer' = Answer(path, brotli, {[body |-> e.body, br |-> e.br]})
    BY <1>4 DEF VisitCache
  <2>2. /\ e \in cache /\ e.path = path /\ (e.vary => e.brotli = brotli) /\ EntryFits(e)
    BY <2>1 DEF Usable, AnswersFit
  <2>3. /\ answer'.path = path /\ answer'.brotli = brotli
        /\ answer'.found = {[body |-> e.body, br |-> e.br]}
    BY <2>1 DEF Answer
  <2>4. { o.body : o \in answer'.found } = {e.body}
    BY <2>3
  <2>5. \A o \in answer'.found : o.br => brotli
    BY <2>2, <2>3 DEF EntryFits
  <2>6. VisitorsGetWhatWasBuilt'
    BY <1>0, <2>2, <2>3, <2>4, <2>5 DEF VisitorsGetWhatWasBuilt, EntryFits
  <2>7. cache' = cache
    BY <1>4 DEF VisitCache
  <2> QED
    BY <1>3, <2>6, <2>7 DEF AnswersFit
<1>5. CASE VisitServe(path, brotli)
  <2> DEFINE found == Resolved(bucket, path, brotli)
             sent == { [body |-> o.body, br |-> o.br] : o \in found }
             bodies == { f.body : f \in { g \in Wanted : g.path = Meant(path) } }
             entry(o) == [ path |-> path, key |-> o.key, vary |-> VaryHeader(o.key),
                           brotli |-> brotli, body |-> o.body, br |-> o.br ]
  <2>1. Ready /\ answer' = Answer(path, brotli, sent)
    BY <1>5 DEF VisitServe
  <2>2. RightAnswer(found, path, brotli) /\ Wanted \in PlainSite
    BY <1>2, <2>1, ReadyIsWanted, ResolvedIsRight
  <2>3. { o.body : o \in found } = bodies
    BY <2>2, RightBodies
  <2>4. \/ cache' = cache
        \/ \E o \in found : cache' = (cache \ Usable(path, brotli)) \cup {entry(o)}
    BY <1>5 DEF VisitServe, buildVars
  <2> HIDE DEF found
  <2>5. /\ answer'.path = path /\ answer'.brotli = brotli /\ answer'.found = sent
    BY <2>1 DEF Answer
  <2>6. { o.body : o \in sent } = { o.body : o \in found }
    <3>1. \A o \in found : [body |-> o.body, br |-> o.br] \in sent
      OBVIOUS
    <3>2. ASSUME NEW s \in sent PROVE \E o \in found : s.body = o.body
      <4>1. PICK o \in found : s = [body |-> o.body, br |-> o.br]
        OBVIOUS
      <4> QED
        BY <4>1
    <3>3. ASSUME NEW o \in found PROVE \E s \in sent : o.body = s.body
      <4> DEFINE s == [body |-> o.body, br |-> o.br]
      <4>1. s \in sent /\ o.body = s.body
        BY <3>1
      <4> QED
        BY <4>1
    <3> HIDE DEF sent
    <3> QED
      BY <3>2, <3>3
  <2>7. \A o \in sent : o.br => brotli
    BY <2>2 DEF RightAnswer
  <2> HIDE DEF sent
  <2>8. VisitorsGetWhatWasBuilt'
    BY <1>0, <2>3, <2>5, <2>6, <2>7 DEF VisitorsGetWhatWasBuilt
  <2>9. ASSUME NEW o \in found PROVE EntryFits(entry(o))
    <3>1. PICK f \in Wanted : f.path = Meant(path) /\ f.body = o.body
      BY <2>2 DEF RightAnswer
    <3>2. bodies = {o.body}
      BY <2>2, <3>1, PlainSiteIs
    <3>3. o.br => brotli /\ VaryHeader(o.key)
      BY <2>2 DEF RightAnswer, VaryHeader
    <3>4. /\ entry(o).path = path /\ entry(o).body = o.body /\ entry(o).br = o.br
          /\ entry(o).vary = VaryHeader(o.key) /\ entry(o).brotli = brotli
      OBVIOUS
    <3> HIDE DEF entry
    <3> QED
      BY <3>2, <3>3, <3>4 DEF EntryFits
  <2>10. \A e \in cache' : EntryFits(e)
    <3> HIDE DEF entry
    <3> QED
      BY <2>4, <2>9 DEF AnswersFit
  <2> QED
    BY <1>3, <2>8, <2>10 DEF AnswersFit
<1> QED
  BY <1>1, <1>4, <1>5

LEMMA ContentsKeep ==
  ASSUME OrdinaryUse, ContentsInv, [Next]_vars
  PROVE  ContentsInv'
<1>1. StepsInv /\ Fits /\ AnswersFit
  BY DEF ContentsInv, Fits
<1>2. StepsInv' /\ Fits'
  BY <1>1, StepsKeep, StepFits
<1>3. project \in Project /\ Ordinary(project)
  BY <1>1, StepsAssumption DEF OrdinaryUse, StepsInv
<1>4. AnswersFit'
  <2>1. CASE ~Ready
    <3>1. cache = {} /\ answer = NoAnswer
      BY <1>1, <2>1 DEF AnswersFit
    <3>2. ~VisitStep
      BY <2>1, <3>1 DEF VisitStep, VisitCache, VisitServe, Usable
    <3>3. cache' = cache /\ answer' = answer
      BY <3>2 DEF Next, vars, contentVars, PlainStep, OutcomeStep, PutStep, BeginAttempt, Unpack, RefuseArchive,
         FailAround, CloseBuild, Collect, RefuseSite, Put, FailUpload, StrayPut, ReportVerdict, LoseAttempt, visitVars
    <3> QED
      BY <3>1, <3>3 DEF AnswersFit, VisitorsGetWhatWasBuilt, NoAnswer
  <2>2. CASE Ready
    <3>1. Ready' /\ UNCHANGED <<project, preset, site>>
      BY <2>2, ReadyStays
    <3>2. CASE VisitStep
      BY <1>1, <1>3, <3>1, <3>2, VisitFits
    <3>3. CASE UNCHANGED contentVars \/ PutStep
      <4>1. cache' = cache /\ answer' = answer
        BY <3>3 DEF contentVars, PutStep, Put, StrayPut, visitVars
      <4>2. Wanted' = Wanted /\ \A path : Meant(path)' = Meant(path)
        BY <3>1 DEF Wanted, Meant, Sent
      <4> QED
        BY <1>1, <3>1, <4>1, <4>2 DEF AnswersFit, EntryFits, VisitorsGetWhatWasBuilt
    <3> QED
      BY <2>2, <3>2, <3>3, ReadyStays
  <2> QED
    BY <2>1, <2>2
<1> QED
  BY <1>2, <1>4 DEF ContentsInv, Fits

\* Of an ordinary project, built the same in every attempt, a visitor gets the very file
\* that he asks for and an encoding that he takes, for any project, folder, preset and
\* cache: what zip.ts packs comes out of extract.ts, whatever attempts and their stray
\* puts leave behind is part of the site, and no cached answer goes to a visitor that it
\* is not for.
THEOREM VisitorsGetTheSite == ASSUME OrdinaryUse PROVE Spec => []VisitorsGetWhatWasBuilt
<1>1. ContentsInv /\ [Next]_vars => ContentsInv'
  BY ContentsKeep
<1>2. ContentsInv => VisitorsGetWhatWasBuilt
  BY DEF ContentsInv, AnswersFit
<1> QED
  BY <1>1, <1>2, ContentsStart, PTL DEF Spec
===============================================================================
