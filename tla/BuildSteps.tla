------------------------------ MODULE BuildSteps ------------------------------
(***************************************************************************)
(* The attempts of BuildSandbox with what they are about: from the folder  *)
(* that a visitor drops to the answers that others get of it.              *)
(*                                                                         *)
(*   apps/web:    zipFiles (zip.ts)                                        *)
(*   apps/worker: runDeployment (pipeline.ts), uploadSite (output.ts)      *)
(*   apps/serve:  GET of any path (app.ts), behind a cache that is shared  *)
(*                                                                         *)
(* Expiry, and statuses that are out of date, are Retention's and          *)
(* SiteServing's.                                                          *)
(***************************************************************************)
EXTENDS BuildSandbox, SiteContents

CONSTANTS
  Strings,            \* what names and contents are made of
  Projects,           \* what is dropped
  Products,           \* what a build may leave in its directory
  RepeatableBuilds,   \* TRUE: every attempt leaves the same
  Requests,           \* the paths that visitors ask for
  CacheSize           \* bounds the shared cache

Path == [dirs : Seq(Strings), stem : Strings, ext : Seq(Strings)]
File == [path : Path, body : Strings, large : BOOLEAN, shrinks : BOOLEAN]

\* The files of a directory: a name is there only once.
Folder == { F \in SUBSET File : \A f, g \in F : f.path = g.path => f = g }

\* What is dropped: a folder as it is or zipped, in a folder that wraps it or in none;
\* whether it can be unpacked, the lines that its build writes, what its package.json
\* declares, the preset that is asked for, and what the build leaves.
Project == [ folder : Folder, wrapper : Strings, zipped : BOOLEAN, sound : BOOLEAN,
             lines : Nat, manifest : SUBSET Strings,
             requested : {"any", "static", "vite", "cra", "npm"}, product : Folder ]

ASSUME StepsAssumption ==
  /\ {"", "index", "html", "br"} \subseteq Strings
  /\ Projects \subseteq Project /\ Products \subseteq Folder
  /\ Requests \subseteq Path
  /\ RepeatableBuilds \in BOOLEAN
  /\ CacheSize \in Nat

VARIABLES
  project,   \* what was dropped, and how
  files,     \* the directory that the site starts at
  preset,    \* the preset that was selected
  site,      \* what collectSiteFiles found
  todo,      \* the objects that uploadSite has still to put
  strays,    \* those that loops of a failed uploadSite still put
  bucket,    \* the objects under sites/
  cache,     \* the answers that a shared cache keeps
  answer     \* the last answer to a visitor

contentVars == <<project, files, preset, site, todo, strays, bucket, cache, answer>>
buildVars == <<project, files, preset, site, todo, strays>>
visitVars == <<cache, answer>>
vars == <<sandboxVars, contentVars>>

NoAnswer == [path |-> IndexPage, brotli |-> FALSE, found |-> {}]

Init ==
  /\ SandboxInit
  /\ project \in Projects
  /\ files = {} /\ preset = "none" /\ site = {}
  /\ todo = {} /\ strays = {} /\ bucket = {}
  /\ cache = {} /\ answer = NoAnswer

-------------------------------------------------------------------------------
\* runDeployment, before and after the sandbox.

\* A folder is dropped, or zipped, in its wrapping folder or without: a zip names that
\* folder, too.
Wrapped(file) ==
  IF project.wrapper = "" THEN file ELSE [file EXCEPT !.path.dirs = <<project.wrapper>> \o @]
Dropped == { Wrapped(f) : f \in project.folder }
FolderEntry == [ path |-> [dirs |-> <<project.wrapper>>, stem |-> "", ext |-> <<>>],
                 body |-> "", large |-> FALSE, shrinks |-> FALSE ]

\* What the api received: a zip as it is, or what the browser packs.
Entries ==
  IF ~project.zipped THEN ArchiveEntries(Dropped)
    ELSE Dropped \cup (IF project.wrapper = "" THEN {} ELSE {FolderEntry})

\* A new attempt has a workspace of its own.
BeginAttempt ==
  /\ Begin
  /\ files' = {} /\ preset' = "none" /\ site' = {} /\ todo' = {}
  /\ UNCHANGED <<project, strays, bucket, visitVars>>

\* The archive is extracted, and a preset selected.
Unpack ==
  \E selected \in Selected(project.requested, Extracted(Entries), project.manifest) :
    /\ project.sound
    /\ IF NeedsBuild(selected) THEN NeedBuild ELSE TakeAsIs
    /\ files' = Extracted(Entries) /\ preset' = selected
    /\ UNCHANGED <<project, site, todo, strays, bucket, visitVars>>

\* It cannot be: damaged, too large, with links or unsafe paths; or no preset detects
\* its own.
RefuseArchive ==
  /\ build.phase = "unpacking"
  /\ ~project.sound \/ Selected(project.requested, Extracted(Entries), project.manifest) = {}
  /\ GiveUp("failure")
  /\ UNCHANGED contentVars

\* Storage, the database or the disk fails: while unpacking, before an upload, or at
\* the writing of its verdict.
FailAround ==
  /\ build.phase = "unpacking" \/ todo = {}
  /\ GiveUp("error")
  /\ UNCHANGED contentVars

\* The files after a build.
Built(made) == made \cup { f \in files : ~Exists(made, f.path) }

\* What the build has left is there when its log is closed.
CloseBuild ==
  /\ Close
  /\ IF build.outcome = "built"
       THEN \E made \in (IF RepeatableBuilds THEN {project.product} ELSE Products) :
              files' = Built(made)
       ELSE UNCHANGED files
  /\ UNCHANGED <<project, preset, site, todo, strays, bucket, visitVars>>

Collect ==
  /\ build.phase = "uploading" /\ site = {}
  /\ Deployable(SiteFiles(preset, files))
  /\ site' = SiteFiles(preset, files)
  /\ todo' = UNION { ObjectsOf(f) : f \in site' }
  /\ UNCHANGED <<sandboxVars, project, files, preset, strays, bucket, visitVars>>

\* There is no output directory, or no page at its root.
RefuseSite ==
  /\ build.phase = "uploading" /\ site = {}
  /\ ~Deployable(SiteFiles(preset, files))
  /\ GiveUp("failure")
  /\ UNCHANGED contentVars

\* A put replaces what is there under its key.
Stored(object) == { o \in bucket : o.key # object.key } \cup {object}

\* A twin is put after its original, by the same loop.
InTurn(object, pending) ==
  object.br => \A o \in pending : ~o.br => CompressedKey(o.key) # object.key

Put(object) ==
  /\ build.phase = "uploading"
  /\ object \in todo /\ InTurn(object, todo)
  /\ bucket' = Stored(object)
  /\ todo' = todo \ {object}
  /\ UNCHANGED <<sandboxVars, project, files, preset, site, strays, visitVars>>

\* A put fails; the other loops know nothing of that.
FailUpload ==
  /\ build.phase = "uploading" /\ todo # {}
  /\ GiveUp("error")
  /\ \E left \in SUBSET todo : strays' = strays \cup left
  /\ todo' = {}
  /\ UNCHANGED <<project, files, preset, site, bucket, visitVars>>

StrayPut(object) ==
  /\ object \in strays /\ InTurn(object, strays)
  /\ bucket' = Stored(object)
  /\ strays' = strays \ {object}
  /\ UNCHANGED <<sandboxVars, project, files, preset, site, todo, visitVars>>

\* READY comes after the last object; any other verdict, at once.
ReportVerdict ==
  /\ build.phase = "uploading" => site # {} /\ todo = {}
  /\ Report
  /\ UNCHANGED contentVars

\* The loops of a dead worker die with it; those of a worker that only could not write
\* its verdict go on.
LoseAttempt ==
  /\ Lose
  /\ strays' \in {strays, {}}
  /\ todo' = {}
  /\ UNCHANGED <<project, files, preset, site, bucket, visitVars>>

-------------------------------------------------------------------------------
\* serve, and what is between it and its visitors.

Ready == build.phase = "done" /\ build.outcome = "built"

\* What the cache may answer with: without Vary it takes every visitor for the same.
Usable(path, brotli) ==
  { e \in cache : e.path = path /\ (e.vary => e.brotli = brotli) }

Answer(path, brotli, found) == [path |-> path, brotli |-> brotli, found |-> found]

\* The shared cache answers, of what need not be asked for again.
VisitCache(path, brotli) ==
  /\ \E e \in Usable(path, brotli) :
       ~Revalidate(e.key) /\ answer' = Answer(path, brotli, {[body |-> e.body, br |-> e.br]})
  /\ UNCHANGED <<sandboxVars, buildVars, bucket, cache>>

\* serve answers, and the cache may keep the answer. Asked whether what the cache
\* keeps is still the same, it says so for the very object it would send.
VisitServe(path, brotli) ==
  /\ Ready
  /\ LET found == Resolved(bucket, path, brotli)
     IN  /\ answer' = Answer(path, brotli, { [body |-> o.body, br |-> o.br] : o \in found })
         /\ \/ UNCHANGED cache
            \/ \E o \in found :
                 /\ cache' = (cache \ Usable(path, brotli)) \cup
                      {[ path |-> path, key |-> o.key, vary |-> VaryHeader(o.key),
                         brotli |-> brotli, body |-> o.body, br |-> o.br ]}
                 /\ Cardinality(cache') <= CacheSize
  /\ UNCHANGED <<sandboxVars, buildVars, bucket>>

-------------------------------------------------------------------------------
\* The steps of BuildSandbox that have nothing to do with contents; lines bounds what
\* the build of a project writes.
PlainStep ==
  /\ WriterStep \/ Recover \/ EndLeftover \/ SandboxStep
  /\ writer'.written <= project.lines
  /\ UNCHANGED contentVars

OutcomeStep ==
  \/ BeginAttempt \/ Unpack \/ RefuseArchive \/ FailAround \/ CloseBuild
  \/ Collect \/ RefuseSite \/ FailUpload \/ ReportVerdict \/ LoseAttempt

PutStep == (\E object \in todo : Put(object)) \/ (\E object \in strays : StrayPut(object))

VisitStep ==
  \E path \in Requests, brotli \in BOOLEAN : VisitCache(path, brotli) \/ VisitServe(path, brotli)

Next == PlainStep \/ OutcomeStep \/ PutStep \/ VisitStep

Spec == Init /\ [][Next]_vars
FairSpec == Spec /\ SandboxFairness

-------------------------------------------------------------------------------
StepsTypeOK ==
  /\ SandboxTypeOK
  /\ preset \in {"none", "static", "vite", "cra", "npm"}
  /\ files \in SUBSET File /\ site \in SUBSET File
  /\ todo \subseteq UNION { ObjectsOf(f) : f \in site }
  /\ Cardinality(cache) <= CacheSize
  /\ \A o, other \in bucket : o.key = other.key => o = other

\* What the browser packs of a folder, or a zip has.
Sent(p) == { f \in p.folder : p.zipped \/ ~Ignored(f.path) }

\* The site that a visitor is to see: for files that are the site already, what was
\* dropped; else what the last attempt built.
Wanted == IF preset = "static" THEN Sent(project) ELSE site

\* The file that a request is for.
Meant(path) ==
  IF Exists(Wanted, StorageKey(path)) \/ ~LooksLikeClientRoute(path) THEN StorageKey(path) ELSE IndexPage

\* A name that may be that of a twin.
NamesTwin(path) == path.ext # <<>> /\ path.ext[Len(path.ext)] = "br"

\* An ordinary project is what its owner takes it for: it has files alone, wrapper is
\* the only directory around them that is unwrapped, and nothing goes by the name of a
\* twin.
Ordinary(p) ==
  /\ p.wrapper \notin IgnoredDirectories
  /\ (p.zipped /\ p.wrapper # "") \/ Roots(Sent(p)) = {}
  /\ \A f \in p.folder : ~IsDirectory(f.path)
  /\ \A f \in p.folder \cup p.product : ~NamesTwin(f.path)

\* Every attempt at a project makes the same of it, and nobody asks for a twin by name.
OrdinaryUse ==
  /\ RepeatableBuilds
  /\ \A p \in Projects : Ordinary(p)
  /\ \A path \in Requests : ~NamesTwin(path)

\* Through packing, unpacking, failed uploads, twins and shared caches, a visitor gets
\* the very file that he asks for, in an encoding that he takes, and nothing but what
\* is part of the site.
VisitorsGetWhatWasBuilt ==
  answer # NoAnswer =>
    /\ { o.body : o \in answer.found } = { f.body : f \in { g \in Wanted : g.path = Meant(answer.path) } }
    /\ \A o \in answer.found : o.br => answer.brotli
===============================================================================
