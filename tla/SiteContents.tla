----------------------------- MODULE SiteContents -----------------------------
(***************************************************************************)
(* What becomes of a visitor's files on the way from the folder that was   *)
(* dropped to the answers of serve: functions, and no state.               *)
(*                                                                         *)
(*   apps/web:    archiveEntries and what is ignored (zip.ts)              *)
(*   apps/worker: extract.ts, presets.ts, output.ts                        *)
(*   apps/serve:  routing.ts, encoding.ts, caching.ts, and fetchVariant    *)
(*                and the headers of app.ts                                *)
(*                                                                         *)
(* A path is its directories, the stem of its last segment and that        *)
(* segment's extensions; a directory, as in a/, has an empty stem.         *)
(***************************************************************************)
EXTENDS Naturals, Sequences, FiniteSets

IsDirectory(path) == path.stem = ""

\* Files below a directory, as seen from inside it.
Inside(files, dir) ==
  { [f EXCEPT !.path.dirs = Tail(@)] : f \in { g \in files :
      g.path.dirs # <<>> /\ Head(g.path.dirs) = dir } }

At(stem, ext) == [dirs |-> <<>>, stem |-> stem, ext |-> ext]
IndexPage == At("index", <<"html">>)
PackageJson == At("package", <<"json">>)

-------------------------------------------------------------------------------
\* zip.ts: what the browser packs.

IgnoredDirectories == {"node_modules", ".git", ".DS_Store"}

Ignored(path) ==
  \/ \E i \in 1 .. Len(path.dirs) : path.dirs[i] \in IgnoredDirectories
  \/ path.stem \in IgnoredDirectories

\* The first segment of a path.
TopLevel(path) == IF path.dirs = <<>> THEN path.stem ELSE Head(path.dirs)

\* The directory that all of these are in, if there is one (commonRoot, and
\* findSingleRoot of extract.ts: entries are directories, too, there).
Roots(files) ==
  LET tops == { TopLevel(f.path) : f \in files }
  IN  IF Cardinality(tops) = 1 /\ \A f \in files : f.path.dirs # <<>> THEN tops ELSE {}

Unwrapped(files) ==
  IF Roots(files) = {} THEN files ELSE UNION { Inside(files, root) : root \in Roots(files) }

\* archiveEntries, of what was not ignored.
ArchiveEntries(dropped) == Unwrapped({ f \in dropped : ~Ignored(f.path) })

-------------------------------------------------------------------------------
\* extract.ts and presets.ts: what the worker makes of an archive.

\* The files below the directory that the site starts at.
Extracted(entries) == { f \in Unwrapped(entries) : ~IsDirectory(f.path) }

Exists(files, path) == \E f \in files : f.path = path
DirectoryExists(files, dir) == Inside(files, dir) # {}

\* What package.json declares, where it is there and can be read: the dependencies
\* that hasDependency is asked for, and "build", the script of hasBuildScript.
Declares(files, manifest, what) == Exists(files, PackageJson) /\ what \in manifest

Presets == <<"static", "vite", "cra", "npm">>
Detects(preset, files, manifest) ==
  CASE preset = "static" -> ~Exists(files, PackageJson) /\ Exists(files, IndexPage)
    [] preset = "vite"   -> Declares(files, manifest, "vite")
    [] preset = "cra"    -> Declares(files, manifest, "react-scripts")
    [] preset = "npm"    -> Declares(files, manifest, "build")

\* The preset that is asked for, or the first to detect its own; none is a failure.
Selected(requested, files, manifest) ==
  IF requested # "any"
    THEN {requested}
    ELSE { Presets[i] : i \in { j \in 1 .. Len(Presets) :
             /\ Detects(Presets[j], files, manifest)
             /\ \A k \in 1 .. j - 1 : ~Detects(Presets[k], files, manifest) } }

NeedsBuild(preset) == preset # "static"

\* Where a preset looks for the site, in this order.
Candidates(preset) ==
  CASE preset = "vite" -> <<"dist">>
    [] preset = "cra"  -> <<"build">>
    [] preset = "npm"  -> <<"dist", "build", "out", "public">>

\* resolveOutputDir and collectSiteFiles: nothing, where there is no such directory.
SiteFiles(preset, files) ==
  IF preset = "static"
    THEN files
    ELSE LET found == { i \in 1 .. Len(Candidates(preset)) :
                          DirectoryExists(files, Candidates(preset)[i]) }
         IN  UNION { Inside(files, Candidates(preset)[i]) : i \in { j \in found :
               \A k \in found : j <= k } }

\* assertDeployable: its limits on the number and the size of files are left out.
Deployable(files) == Exists(files, IndexPage)

-------------------------------------------------------------------------------
\* output.ts: the objects of a site.

Compressible == {"html", "css", "js", "mjs", "json", "svg", "txt", "xml", "map", "webmanifest", "ico"}

\* relativePath.split(".").pop(): a name without a dot is its own extension at the
\* top, and none elsewhere, where its directory comes with it.
WorkerExtension(path) ==
  IF path.ext # <<>> THEN path.ext[Len(path.ext)]
    ELSE IF path.dirs = <<>> THEN path.stem ELSE ""

ShouldCompress(file) == file.large /\ WorkerExtension(file.path) \in Compressible

CompressedKey(path) == [path EXCEPT !.ext = Append(@, "br")]

\* What is put for a file: itself, and a twin if compression wins.
Original(file) == [key |-> file.path, body |-> file.body, br |-> FALSE]
Twin(file) == [key |-> CompressedKey(file.path), body |-> file.body, br |-> TRUE]
ObjectsOf(file) ==
  {Original(file)} \cup (IF ShouldCompress(file) /\ file.shrinks THEN {Twin(file)} ELSE {})

-------------------------------------------------------------------------------
\* serve: from a request to an answer.

\* storageKeyForPath: a directory stands for the page in it.
StorageKey(path) ==
  IF IsDirectory(path) THEN [dirs |-> path.dirs, stem |-> "index", ext |-> <<"html">>] ELSE path

LooksLikeClientRoute(path) == path.ext = <<>>

\* varyOnEncoding: of the last segment alone.
ServeExtension(path) == IF path.ext # <<>> THEN path.ext[Len(path.ext)] ELSE path.stem
VaryOnEncoding(key) == ServeExtension(key) \in Compressible

\* fetchVariant, of the objects that are stored: the twin first, if it is wanted.
Variants(bucket, key, brotli) ==
  LET twins == IF brotli /\ VaryOnEncoding(key)
                 THEN { o \in bucket : o.key = CompressedKey(key) } ELSE {}
  IN  IF twins # {}
        THEN { [key |-> key, body |-> o.body, br |-> TRUE] : o \in twins }
        ELSE { [key |-> key, body |-> o.body, br |-> FALSE] : o \in { p \in bucket : p.key = key } }

\* GET of any path: the object, or the page that a client's route falls back to.
Resolved(bucket, path, brotli) ==
  LET requested == Variants(bucket, StorageKey(path), brotli)
  IN  IF requested # {} \/ ~LooksLikeClientRoute(path)
        THEN requested ELSE Variants(bucket, IndexPage, brotli)

\* cacheControlFor: pages are to be asked for again, the rest is kept a while.
Revalidate(key) == key.ext # <<>> /\ key.ext[Len(key.ext)] = "html"

\* Variant: what is kept a while gets no Vary.
VaryHeader_OfPages(key) == VaryOnEncoding(key) /\ Revalidate(key)

\* setVaryIfCompressible: of the key that was resolved, whichever object was sent.
VaryHeader(key) == VaryOnEncoding(key)
===============================================================================
