----------------------------- MODULE MCBuildSteps -----------------------------
(***************************************************************************)
(* Instances of BuildSteps for TLC.                                        *)
(***************************************************************************)
EXTENDS BuildSteps

TheStrings ==
  {"", "index", "html", "docs", "app", "js", "css", "br", "bundle", "package", "json", "manifest",
   "node_modules", "junk", "site", "dist", "out", "about", "missing", "vite", "react-scripts", "build"}

APath(dirs, stem, ext) == [dirs |-> dirs, stem |-> stem, ext |-> ext]
F(path, body, shrinks) == [path |-> path, body |-> body, large |-> TRUE, shrinks |-> shrinks]

Index(dirs) == F(APath(dirs, "index", <<"html">>), "index", dirs = <<>>)
Docs == F(APath(<<"docs">>, "index", <<"html">>), "docs", FALSE)
App == F(APath(<<>>, "app", <<"js">>), "app", TRUE)
Bundle(dirs) == F(APath(dirs, "app", <<"js">>), "bundle", TRUE)
Manifest == F(PackageJson, "manifest", FALSE)
Junk == F(APath(<<"node_modules">>, "junk", <<"js">>), "junk", FALSE)

AProject(folder, wrapper, zipped, manifest, product, lines) ==
  [ folder |-> folder, wrapper |-> wrapper, zipped |-> zipped, sound |-> TRUE, lines |-> lines,
    manifest |-> manifest, requested |-> "any", product |-> product ]

\* A folder of pages, dropped and zipped; an archive that cannot be unpacked and a
\* folder that is no site; builds into dist and out, of vite and of a script, the
\* latter asked for by name; and one that leaves nothing but its log.
Pages == {Index(<<>>), Docs, App, Junk}
TheProjects ==
  { AProject(Pages, "site", FALSE, {}, {}, 0),
    AProject({Index(<<>>), Docs}, "site", TRUE, {}, {}, 0),
    [AProject(Pages, "", TRUE, {}, {}, 0) EXCEPT !.sound = FALSE],
    AProject({Docs, App}, "", FALSE, {}, {}, 0),
    AProject({Manifest, Index(<<>>), App}, "site", FALSE, {"vite", "build"},
             {Index(<<"dist">>), Bundle(<<"dist">>)}, 1),
    [AProject({Manifest}, "", TRUE, {"build"}, {Index(<<"out">>)}, 2) EXCEPT !.requested = "npm"],
    AProject({Manifest}, "", TRUE, {"react-scripts"}, {}, MaxOutput) }
TheProducts == { p.product : p \in TheProjects }

\* The root, a page in a directory, a file, a route of the client's, and a file that
\* is not there.
TheRequests ==
  { APath(<<>>, "", <<>>), APath(<<"docs">>, "", <<>>), App.path,
    APath(<<>>, "about", <<>>), APath(<<>>, "missing", <<"css">>) }

ASSUME OrdinaryInstance == OrdinaryUse
===============================================================================
