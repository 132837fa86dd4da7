----------------------------- MODULE BuildSandbox -----------------------------
(***************************************************************************)
(* The attempts to build one deployment: the container that a build runs   *)
(* in, the time limit, and the log that the build writes meanwhile.        *)
(*                                                                         *)
(*   apps/worker: runDeployment, runBuild and recordFailure (pipeline.ts), *)
(*                createLogWriter and appendDeploymentLogs (logs.ts),      *)
(*                buildInSandbox, ensureBuilderImage, spawnDocker          *)
(*                (docker.ts)                                              *)
(*                                                                         *)
(* Attempts follow each other: that they do is BuildQueue's               *)
(* OneBuildPerDeployment. A worker may crash in any of them, and then its  *)
(* container goes on running.                                              *)
(***************************************************************************)
EXTENDS Naturals, Sequences

CONSTANTS
  MaxAttempts,   \* max_attempts
  MaxOutput,     \* bounds the lines that docker writes in one attempt
  Budget,        \* MAX_LOG_BYTES, in lines
  FlushAfter,    \* FLUSH_AFTER_LINES
  KillsHit       \* TRUE: no time limit strikes before the container is there

ASSUME SandboxAssumption ==
  /\ MaxAttempts \in Nat \ {0}
  /\ MaxOutput \in Nat
  /\ Budget \in Nat
  /\ FlushAfter \in Nat \ {0}
  /\ KillsHit \in BOOLEAN

VARIABLES
  build,       \* the attempt that is under way, and how far it is
  child,       \* the docker run that the worker waits for
  container,   \* the container of that name, if there is one
  writer,      \* the state of createLogWriter
  log          \* deployment_logs, in the order of the inserts

sandboxVars == <<build, child, container, writer, log>>

\* A build is queued, in the hands of a worker, left by a worker that is gone, or done.
Working == {"unpacking", "image", "installing", "running", "closing", "uploading", "recording"}
BuildPhases == {"queued", "lost", "done"} \cup Working

\* outcome: what runBuild, and then runDeployment, is about to return or to throw.
Outcomes == {"none", "built", "failure", "error"}
Build == [phase : BuildPhases, attempt : 0 .. MaxAttempts, outcome : Outcomes]

\* code is docker's, if the child is closed: 125 is a failure of docker itself.
Child == [ state : {"none", "starting", "up", "closed"}, code : {0, 1, 125},
           timedOut : BOOLEAN, kill : BOOLEAN ]
NoChild == [state |-> "none", code |-> 0, timedOut |-> FALSE, kill |-> FALSE]

\* A line of the log: of the build's output, by number, or of the platform.
Line == [attempt : 1 .. MaxAttempts, kind : {"output", "truncated", "installing", "verdict"},
         n : 0 .. MaxOutput]
Platform(kind) == [attempt |-> build.attempt, kind |-> kind, n |-> 0]

\* written counts the lines that docker wrote; writes are the batches that wait for
\* their insert, the first of them under way.
Writer == [ written : 0 .. MaxOutput, buffered : Seq(Line), truncated : BOOLEAN,
            timer : BOOLEAN, writes : Seq(Seq(Line)) ]
NewWriter == [ written |-> 0, buffered |-> <<>>, truncated |-> FALSE,
               timer |-> FALSE, writes |-> <<>> ]

SandboxTypeOK ==
  /\ build \in Build
  /\ child \in Child
  /\ container \in {"none", "up"}
  /\ writer \in Writer
  /\ log \in Seq(Line)

SandboxInit ==
  /\ build = [phase |-> "queued", attempt |-> 0, outcome |-> "none"]
  /\ child = NoChild
  /\ container = "none"
  /\ writer = NewWriter
  /\ log = <<>>

-------------------------------------------------------------------------------
\* createLogWriter.

Flushed(w) ==
  [w EXCEPT !.timer = FALSE, !.buffered = <<>>,
            !.writes = IF w.buffered = <<>> THEN @ ELSE Append(@, w.buffered)]

\* What a line does to the writer: the budget ends the log with a note, a full buffer
\* is flushed, and anything else waits for the timer.
Written(w, line) ==
  LET counted == [w EXCEPT !.written = @ + 1]
  IN  IF w.truncated
        THEN counted
        ELSE IF w.written >= Budget
          THEN Flushed([counted EXCEPT !.truncated = TRUE,
                                       !.buffered = Append(@, Platform("truncated"))])
          ELSE IF Len(w.buffered) + 1 >= FlushAfter
            THEN Flushed([counted EXCEPT !.buffered = Append(@, line)])
            ELSE [counted EXCEPT !.buffered = Append(@, line), !.timer = TRUE]

\* Docker writes a line.
Output ==
  /\ writer.written < MaxOutput
  /\ writer' = Written(writer, [attempt |-> build.attempt, kind |-> "output",
                                n |-> writer.written + 1])

\* The timer of FLUSH_AFTER_MS.
FlushTimer ==
  /\ writer.timer
  /\ writer' = Flushed(writer)
  /\ UNCHANGED <<build, child, container, log>>

\* The insert that is under way succeeds, or its batch is given up. That the doorbell
\* fails afterwards changes nothing here.
Insert ==
  /\ writer.writes # <<>>
  /\ log' \in {log, log \o Head(writer.writes)}
  /\ writer' = [writer EXCEPT !.writes = Tail(@)]
  /\ UNCHANGED <<build, child, container>>

-------------------------------------------------------------------------------
\* runDeployment, up to the sandbox.

GoTo(phase) == build' = [build EXCEPT !.phase = phase]
Throw(phase, outcome) == build' = [build EXCEPT !.phase = phase, !.outcome = outcome]

\* A worker claims the deployment.
Begin ==
  /\ build.phase = "queued"
  /\ build' = [phase |-> "unpacking", attempt |-> build.attempt + 1, outcome |-> "none"]
  /\ child' = NoChild
  /\ writer' = NewWriter
  /\ UNCHANGED <<container, log>>

\* The preset has a build command, or its files are the site already.
NeedBuild ==
  /\ build.phase = "unpacking"
  /\ GoTo("image")
  /\ UNCHANGED <<child, container, writer, log>>

TakeAsIs ==
  /\ build.phase = "unpacking"
  /\ Throw("uploading", "built")
  /\ UNCHANGED <<child, container, writer, log>>

\* Something outside the sandbox throws: a BuildFailure, or anything else.
GiveUp(outcome) ==
  /\ build.phase \in {"unpacking", "uploading"}
  /\ Throw("recording", outcome)
  /\ UNCHANGED <<child, container, writer, log>>

-------------------------------------------------------------------------------
\* runBuild: whatever happens in it, the writer is closed afterwards.

\* Variant: what is in the buffer stays there.
CloseLog_Unflushed(outcome) ==
  /\ Throw("closing", outcome)
  /\ UNCHANGED writer

\* logs.close() begins.
CloseLog(outcome) ==
  /\ Throw("closing", outcome)
  /\ writer' = Flushed(writer)

\* ensureBuilderImage: an image that has to be built says so to the log.
PrepareImage ==
  /\ build.phase = "image"
  /\ Output
  /\ UNCHANGED <<build, child, container, log>>

HaveImage ==
  /\ build.phase = "image"
  /\ GoTo("installing")
  /\ UNCHANGED <<child, container, writer, log>>

LackImage ==
  /\ build.phase = "image"
  /\ CloseLog("error")
  /\ UNCHANGED <<child, container, log>>

\* The announcement goes past the writer, whose timer may fire meanwhile; then docker
\* run is spawned, and its time runs.
Install ==
  /\ build.phase = "installing"
  /\ log' = Append(log, Platform("installing"))
  /\ GoTo("running")
  /\ child' = [NoChild EXCEPT !.state = "starting"]
  /\ UNCHANGED <<container, writer>>

FailToInstall ==
  /\ build.phase = "installing"
  /\ CloseLog("error")
  /\ UNCHANGED <<child, container, log>>

\* Docker starts the container, or ends without one: its name is taken by what an
\* earlier attempt has left, or docker itself fails.
StartContainer ==
  /\ child.state = "starting" /\ build.phase = "running"
  /\ \/ /\ container = "none"
        /\ container' = "up"
        /\ child' = [child EXCEPT !.state = "up"]
     \/ /\ child' = [child EXCEPT !.state = "closed", !.code = 125]
        /\ UNCHANGED container
  /\ UNCHANGED <<build, writer, log>>

\* There is no docker to be spawned.
LackDocker ==
  /\ child.state = "starting" /\ build.phase = "running"
  /\ child' = [child EXCEPT !.state = "closed", !.timedOut = FALSE, !.kill = FALSE]
  /\ CloseLog("error")
  /\ UNCHANGED <<container, log>>

RunCommand ==
  /\ child.state = "up" /\ build.phase = "running"
  /\ Output
  /\ UNCHANGED <<build, child, container, log>>

EndCommand(code) ==
  /\ child.state = "up" /\ build.phase = "running"
  /\ container' = "none"
  /\ child' = [child EXCEPT !.state = "closed", !.code = code]
  /\ UNCHANGED <<build, writer, log>>

\* Variant: the limit is noted, and nothing killed.
TimeUp_NoKill ==
  /\ child.state \in {"starting", "up"} /\ build.phase = "running" /\ ~child.timedOut
  /\ KillsHit => child.state = "up"
  /\ child' = [child EXCEPT !.timedOut = TRUE]
  /\ UNCHANGED <<build, container, writer, log>>

\* The time limit strikes, and docker is told to kill the container: nobody waits for
\* that, and it finds nothing if the container is not there yet.
TimeUp ==
  /\ child.state \in {"starting", "up"} /\ build.phase = "running" /\ ~child.timedOut
  /\ KillsHit => child.state = "up"
  /\ child' = [child EXCEPT !.timedOut = TRUE, !.kill = TRUE]
  /\ UNCHANGED <<build, container, writer, log>>

Kill ==
  /\ child.kill
  /\ container' = "none"
  /\ child' = IF child.state = "up"
                THEN [child EXCEPT !.state = "closed", !.code = 1, !.kill = FALSE]
                ELSE [child EXCEPT !.kill = FALSE]
  /\ UNCHANGED <<build, writer, log>>

\* The child has closed, and so does the writer.
EndRun ==
  /\ child.state = "closed" /\ build.phase = "running"
  /\ CloseLog(IF child.code = 0 /\ ~child.timedOut THEN "built" ELSE "failure")
  /\ UNCHANGED <<child, container, log>>

\* Variant: close does not wait for what it has flushed.
Close_Unawaited ==
  /\ build.phase = "closing"
  /\ GoTo(IF build.outcome = "built" THEN "uploading" ELSE "recording")
  /\ UNCHANGED <<child, container, writer, log>>

\* logs.close() returns: every batch is inserted or given up.
Close ==
  /\ build.phase = "closing" /\ writer.writes = <<>>
  /\ GoTo(IF build.outcome = "built" THEN "uploading" ELSE "recording")
  /\ UNCHANGED <<child, container, writer, log>>

-------------------------------------------------------------------------------
\* The end of an attempt.

\* Variant: one attempt more than the limit.
Report_OneMore ==
  /\ build.phase \in {"uploading", "recording"}
  /\ log' = Append(log, Platform("verdict"))
  /\ GoTo(IF build.outcome = "error" /\ build.attempt <= MaxAttempts THEN "queued" ELSE "done")
  /\ UNCHANGED <<child, container, writer>>

\* The verdict is announced and written: READY, FAILED, or another attempt. What is
\* announced on the way to READY is taken together.
Report ==
  /\ build.phase \in {"uploading", "recording"}
  /\ log' = Append(log, Platform("verdict"))
  /\ GoTo(IF build.outcome = "error" /\ build.attempt < MaxAttempts THEN "queued" ELSE "done")
  /\ UNCHANGED <<child, container, writer>>

\* The verdict cannot be announced or written, or the worker dies: it is left to the
\* sweep. Of the insert that was under way nobody hears; a container goes on, or is
\* started all the same.
Lose ==
  /\ build.phase \in Working
  /\ GoTo("lost")
  /\ log' \in {log} \cup (IF writer.writes = <<>> THEN {} ELSE {log \o Head(writer.writes)})
  /\ container' \in {container} \cup (IF child.state = "starting" THEN {"up"} ELSE {})
  /\ child' = NoChild
  /\ writer' = NewWriter

Recover ==
  /\ build.phase = "lost"
  /\ Throw(IF build.attempt < MaxAttempts THEN "queued" ELSE "done", "error")
  /\ UNCHANGED <<child, container, writer, log>>

\* What a dead worker left running ends by itself, if it ends.
EndLeftover ==
  /\ container = "up" /\ child.state # "up"
  /\ container' = "none"
  /\ UNCHANGED <<build, child, writer, log>>

-------------------------------------------------------------------------------
WriterStep == FlushTimer \/ Insert

SandboxStep ==
  \/ PrepareImage \/ HaveImage \/ LackImage \/ Install \/ FailToInstall
  \/ StartContainer \/ LackDocker \/ RunCommand \/ (\E code \in {0, 1} : EndCommand(code))
  \/ TimeUp \/ Kill \/ EndRun

OuterStep == NeedBuild \/ TakeAsIs \/ (\E outcome \in {"failure", "error"} : GiveUp(outcome))

AttemptStep == Begin \/ Report \/ Lose \/ Recover \/ EndLeftover

SandboxNext == WriterStep \/ SandboxStep \/ Close \/ OuterStep \/ AttemptStep

SandboxSpec == SandboxInit /\ [][SandboxNext]_sandboxVars

\* Docker answers, timers fire and promises that are settled are heard of: that a
\* command ends is assumed of none.
SandboxFairness ==
  /\ WF_sandboxVars(StartContainer) /\ WF_sandboxVars(TimeUp)
  /\ WF_sandboxVars(Kill) /\ WF_sandboxVars(EndRun)

-------------------------------------------------------------------------------
InOrder(first, second) ==
  /\ first.attempt <= second.attempt
  /\ first.attempt = second.attempt =>
       /\ first.kind = "output" /\ second.kind = "output" => first.n < second.n
       /\ first.kind = "truncated" => second.kind \notin {"output", "truncated"}
       /\ first.kind = "verdict" => second.kind \notin {"output", "truncated", "verdict"}

\* The status of the row meanwhile.
Status ==
  CASE build.phase = "queued" -> "QUEUED"
    [] build.phase \in Working \cup {"lost"} -> "BUILDING"
    [] build.phase = "done" -> IF build.outcome = "built" THEN "READY" ELSE "FAILED"

Lifecycle == INSTANCE DeploymentLifecycle
               WITH Deployments <- {"deployment"},
                    status <- [d \in {"deployment"} |-> Status],
                    tries <- [d \in {"deployment"} |-> build.attempt]

\* What an attempt does in its steps is the lifecycle that BuildQueue implements, and
\* nothing else: containers, logs and crashes that come late change no verdict.
FollowsLifecycle == [][Lifecycle!Next]_(Lifecycle!lifecycle)

\* However flushes, failing inserts, announcements and crashes overlap, the log of a
\* deployment reads in the order in which it was written, says nothing twice, ends
\* with its note if it was cut off, and has the verdict after the output.
LogReadsInOrder ==
  \A i, j \in 1 .. Len(log) : i < j => InOrder(log[i], log[j])

\* No line waits in the buffer without a timer, and none is left behind in the writer
\* when an attempt goes on: what is not in the log by then was given up.
NoLineIsForgotten ==
  /\ writer.buffered # <<>> => writer.timer
  /\ build.phase \notin {"image", "installing", "running", "closing"} =>
       writer.buffered = <<>> /\ writer.writes = <<>>

\* "cannot exceed its memory, CPU, process-count or wall-clock budget": the time limit
\* ends every build, if it finds a container to kill.
BuildsEnd == build.phase = "running" ~> build.phase # "running"
===============================================================================
