----------------------------- MODULE MCSources -----------------------------
(* Where packages come from: instances of NpmLocks, PythonLocks, DenoLocks,   *)
(* Versions, Extraction, JsrPackage, Confinement and RepositoryAccess for     *)
(* TLC.                                                                       *)
EXTENDS Extraction, JsrPackage, Confinement, Lockfiles, MCResolution, MCAccess,
  MCPython, MCDeno

-----------------------------------------------------------------------------
(* Archives: every order of a few entries, and a few longer ones.            *)

Relatively(parts) == [absolute |-> FALSE, parts |-> parts]

Item(parts, type, size) ==
  [path |-> Relatively(parts), type |-> type, size |-> size, actual |-> size]

Items ==
  {Item(<<"p">>, "dir", 0), Item(<<".", "p", "q">>, "dir", 0), Item(<<"p", "q">>, "file", 2),
   Item(<<"s", "t">>, "file", 1), Item(<<"p">>, "file", 1), Item(<<"s">>, "file", 3),
   Item(<<"pax">>, "pax", 1)}

Unwelcome ==
  {Item(<<"..", "p">>, "file", 1), Item(<<"p">>, "link", 0), Item(<<"p", "q", "r">>, "file", 1),
   [Item(<<"p">>, "file", 1) EXCEPT !.path.absolute = TRUE],
   [Item(<<"p">>, "file", 1) EXCEPT !.actual = 2]}

Orders ==
  UNION {[1 .. n -> Items] : n \in 0 .. 3}
    \cup {<<Item(<<"s">>, "file", 1), u, Item(<<"p", "q">>, "file", 1)>> : u \in Unwelcome}
    \cup {<<Item(<<"p">>, "dir", 0), Item(<<"p", "a">>, "file", 1), Item(<<"p", "b">>, "file", 1),
            Item(<<"p", "c">>, "file", 1), x>> : x \in Items}

Token(form, of) == [form |-> form, of |-> of]

Integrities ==
  {<<>>, <<Token("hex", "x")>>, <<Token("hex", "y")>>, <<Token("hex", "x"), Token("hex", "x")>>,
   <<Token("sha512-", "x")>>, <<Token("sha512-", "y"), Token("sha256-", "x")>>,
   <<Token("sha256-", "x"), Token("sha512-", "x")>>, <<Token("sha256-", "x")>>,
   <<Token("sha256:", "y"), Token("sha512-", "x")>>, <<Token("sha1-", "x")>>,
   <<Token("hex", "y"), Token("sha512-", "x")>>, <<Token("hex", "x"), Token("sha256-", "y")>>}

Archive(magic, listed) ==
  [kind |-> "archive", magic |-> magic, pinnedCommit |-> FALSE, content |-> "x",
   expected |-> <<Token("sha256:", "x")>>, unpacked |-> 8, count16 |-> Len(listed), count64 |-> 0,
   entries |-> listed, root |-> <<>>]

Plain == <<Item(<<"p">>, "dir", 0), Item(<<"p", "q">>, "file", 2)>>

MCArchives ==
  {Archive("gzip", o) : o \in Orders}
    \cup {Archive("PK", o) : o \in {p \in Orders : \A i \in DOMAIN p : p[i].type # "pax"}}
    \cup {[Archive("PK", Plain) EXCEPT !.expected = e, !.pinnedCommit = p] :
            e \in Integrities, p \in BOOLEAN}
    \cup {Archive("text", Plain), [Archive("xz", Plain) EXCEPT !.unpacked = InputBudget + 1],
          [Archive("PK", Plain) EXCEPT !.count16 = 65535, !.count64 = 2],
          [Archive("PK", Plain) EXCEPT !.count16 = 65535, !.count64 = 65536],
          [Archive("PK", Plain) EXCEPT !.count16 = Malformed]}

-----------------------------------------------------------------------------
(* JSR packages.                                                             *)

Rooted(parts) == [rooted |-> TRUE, parts |-> parts, backslash |-> FALSE]

Supply(size, content) ==
  [status |-> "ok", sizeAtOpen |-> size, size |-> size, content |-> content]

Manifested(parts, size, content) ==
  [name |-> Rooted(parts), size |-> size, checksum |-> Token("sha256-hex", content),
   supply |-> Supply(size, content)]

Mod == Manifested(<<"mod">>, 1, "m")
Lib == Manifested(<<"lib", "a">>, 2, "a")
Same == Manifested(<<"lib", ".", "a">>, 1, "m")

Variants(e) ==
  {e, [e EXCEPT !.supply.content = "z"], [e EXCEPT !.supply.size = @ + 1],
   [e EXCEPT !.supply.sizeAtOpen = @ + 1], [e EXCEPT !.supply.status = "absent"],
   [e EXCEPT !.checksum.form = "other"], [e EXCEPT !.size = @ + 1], [e EXCEPT !.size = 9]}

MisNamed ==
  {[Mod EXCEPT !.name = n] :
     n \in {[Rooted(<<"mod">>) EXCEPT !.rooted = FALSE], [Rooted(<<"mod">>) EXCEPT !.backslash = TRUE],
            Rooted(<<>>), Rooted(<<".">>), Rooted(<<"lib", "..", "mod">>), Rooted(<<"1", "2", "3">>)}}

Manifests ==
  {<<>>, <<Manifested(<<"1">>, 0, "m"), Lib>>, <<Lib, Same>>, <<Mod, Manifested(<<"mod", "b">>, 1, "m")>>,
   <<Manifested(<<"1">>, 1, "m"), Lib, Mod, Manifested(<<"2">>, 1, "m")>>}
    \cup {<<Mod, l>> : l \in Variants(Lib)} \cup {<<l, Mod>> : l \in Variants(Lib)}
    \cup {<<Lib, m>> : m \in MisNamed}

MCPackages ==
  {[kind |-> "jsr", from |-> f, content |-> "x", expected |-> <<Token("sha256:", d)>>,
    wellFormed |-> w, versionUrl |-> u, manifest |-> files] :
     f \in {"registry", "cache"}, d \in {"x", "y"}, w \in BOOLEAN, u \in BOOLEAN, files \in Manifests}

-----------------------------------------------------------------------------
(* Trees: a package in /proj with a dependency below it, /var a link to      *)
(* /proj as the system has it, /lib a link to /var, and /out with what is    *)
(* not to be read.  With a link to /var in the place of /proj links go round. *)

MCKindOf ==
  [n \in {"top", "proj", "dep", "sub", "deep", "out"} |-> "dir"]
    @@ [n \in {"f1", "f2", "f3", "key"} |-> "file"]
    @@ [n \in {"toProj", "toOut", "toKey", "toVar"} |-> "link"] @@ ("pipe" :> "fifo")

MCTargetOf ==
  ("toProj" :> <<"proj">>) @@ ("toOut" :> <<"out">>) @@ ("toKey" :> <<"out", "key">>)
    @@ ("toVar" :> <<"var">>)

Nothing == [n \in {} |-> "none"]

Tree ==
  ("top"  :> [proj |-> "proj", out |-> "out", var |-> "toProj", lib |-> "toVar"])
    @@ ("proj" :> [dep |-> "dep", json |-> "f3"])
    @@ ("dep"  :> [a |-> "f1", sub |-> "sub"])
    @@ ("sub"  :> [b |-> "f2"])
    @@ ("deep" :> Nothing)
    @@ ("out"  :> [key |-> "key", sub |-> "sub"])

MCTrees ==
  {Tree,
   [Tree EXCEPT !["sub"] = @ @@ [d |-> "deep"]],
   [Tree EXCEPT !["sub"] = [d |-> "deep"], !["deep"] = [b |-> "f2"]],
   [Tree EXCEPT !["sub"] = @ @@ [c |-> "f1", d |-> "f1"]],
   [Tree EXCEPT !["dep"] = @ @@ [l |-> "toKey"]],
   [Tree EXCEPT !["dep"] = @ @@ [l |-> "pipe"]],
   [Tree EXCEPT !["proj"] = [dep |-> "toOut", json |-> "toKey"]]}

MCSizes == [f1 |-> 1, f2 |-> 2, f3 |-> 2, key |-> 1]

MCChanges ==
  {<<"dep", "a", "toKey">>, <<"dep", "a", "pipe">>, <<"dep", "a", "sub">>, <<"dep", "a", Absent>>,
   <<"dep", "sub", "toOut">>, <<"dep", "sub", "f3">>, <<"proj", "dep", "toOut">>,
   <<"proj", "json", "toKey">>, <<"proj", "json", "f1">>, <<"top", "proj", "toOut">>, <<"top", "proj", Absent>>,
   <<"top", "proj", "toVar">>}

Wanted(absolute, path, declared, trusted) ==
  [kind |-> "local", absolute |-> absolute, path |-> path, declared |-> declared, trusted |-> trusted]

MCRequests ==
  {Wanted(FALSE, <<"dep">>, <<"proj">>, FALSE), Wanted(FALSE, <<"dep">>, <<"var">>, FALSE),
   Wanted(TRUE, <<"out">>, <<"proj">>, FALSE), Wanted(TRUE, <<"out">>, <<"proj">>, TRUE),
   Wanted(TRUE, <<"lib", "dep">>, <<"proj", "dep">>, TRUE)}

Reading(roots, path) == [kind |-> "manifest", roots |-> roots, path |-> path]

MCReads ==
  {Reading(<<>>, <<"proj", "json">>), Reading(<<>>, <<"var", "json">>),
   Reading(<< <<"proj">> >>, <<"proj", "dep", "..", "json">>),
   Reading(<< <<"var">> >>, <<"var", ".", "dep", "a">>),
   Reading(<< <<"proj">>, <<"proj", "dep">> >>, <<"proj", "dep", "a">>),
   Reading(<< <<"proj">>, <<"proj", "dep">> >>, <<"proj", "json">>),
   Reading(<< <<"proj">> >>, <<"proj", "..", "out", "key">>),
   Reading(<< <<"proj">> >>, <<"proj">>)}

-----------------------------------------------------------------------------
(* One run binds the dependencies of a project, resolves a query, brings one *)
(* source to disk, reads one manifest or sends the requests for one package. *)

Idle == [kind |-> "none"]

NoTree == entries = Nothing /\ sizes = Nothing /\ held = {} /\ changed = 0 /\ walk = <<>>

NoJob ==
  /\ job = Idle /\ step = "idle" /\ at = 0
  /\ table = Nothing /\ stats = NoStats /\ disk = Nothing
  /\ NoTree

NoProject ==
  project = <<>> /\ contexts = {} /\ now = Nowhere /\ left = {} /\ children = {} /\ bound = {} /\ failed = {}

NoQuery ==
  query = <<>> /\ phase = "idle" /\ candidates = <<>> /\ checked = 0 /\ resolved = <<>>

NoAccess ==
  /\ setup = Idle /\ wanted = Idle /\ stage = "idle" /\ asked = None /\ effective = None /\ sent = None
  /\ allowed = {} /\ DownloadInit

NoEnvironment ==
  /\ environment = Idle /\ lockQueue = <<>> /\ unmatched = <<>> /\ enriched = <<>>
  /\ alternatives = <<>> /\ outcome = "idle"

NoDeno ==
  /\ deno = Idle /\ reading = <<>> /\ configs = <<>>
  /\ imports = {} /\ bindings = {} /\ denoStage = "idle"

Resting == NoProject /\ NoQuery /\ NoAccess /\ NoEnvironment /\ NoDeno

MCInit ==
  \/ ArchiveInit /\ NoTree /\ Resting
  \/ PackageInit /\ NoTree /\ Resting
  \/ ConfinementInit /\ Resting
  \/ LocksInit /\ NoJob /\ NoQuery /\ NoAccess /\ NoEnvironment /\ NoDeno
  \/ PythonInit /\ NoJob /\ NoProject /\ NoQuery /\ NoAccess /\ NoDeno
  \/ DenoInit /\ NoJob /\ NoProject /\ NoQuery /\ NoAccess /\ NoEnvironment
  \/ VersionsInit /\ NoJob /\ NoProject /\ NoAccess /\ NoEnvironment /\ NoDeno
  \/ AccessInit /\ NoJob /\ NoProject /\ NoQuery /\ NoEnvironment /\ NoDeno

Materialising ==
  \/ job.kind = "archive" /\ ArchiveNext /\ UNCHANGED <<treeVars, walk>>
  \/ job.kind = "jsr" /\ PackageNext /\ UNCHANGED <<treeVars, walk>>
  \/ ConfinementNext

MCNext ==
  \/ Materialising /\ UNCHANGED <<versionVars, lockVars, accessVars, pythonVars, denoVars>>
  \/ /\ step = "idle" /\ phase = "idle" /\ stage = "idle" /\ outcome = "idle" /\ denoStage = "idle"
     /\ LocksNext
     /\ UNCHANGED <<materialiseVars, treeVars, walk, versionVars, accessVars, pythonVars, denoVars>>
  \/ /\ outcome # "idle" /\ PythonNext
     /\ UNCHANGED <<materialiseVars, treeVars, walk, versionVars, lockVars, accessVars, denoVars>>
  \/ /\ denoStage # "idle" /\ DenoNext
     /\ UNCHANGED <<materialiseVars, treeVars, walk, versionVars, lockVars, accessVars, pythonVars>>
  \/ /\ phase # "idle" /\ VersionsNext
     /\ UNCHANGED <<materialiseVars, treeVars, walk, lockVars, accessVars, pythonVars, denoVars>>
  \/ /\ stage # "idle" /\ AccessNext
     /\ UNCHANGED <<materialiseVars, treeVars, walk, versionVars, lockVars, pythonVars, denoVars>>

MCVars ==
  <<materialiseVars, treeVars, walk, versionVars, lockVars, accessVars, pythonVars, denoVars>>

MCSpec == MCInit /\ [][MCNext]_MCVars
=============================================================================
