---------------------------- MODULE MCResolution ----------------------------
(* Registries and projects for Versions and NpmLocks.                         *)
EXTENDS Versions, NpmLocks

-----------------------------------------------------------------------------
(* Registries.                                                               *)

Subresource == << [form |-> "sha512-", of |-> "x"] >>

Tarball(expected) == [url |-> TRUE, expected |-> expected]

Distribution(sha256, sdist, yanked) ==
  [url |-> TRUE, sha256 |-> sha256, sdist |-> sdist, yanked |-> yanked]

ReleaseOf(raw, version, key, pre) ==
  [raw |-> raw, version |-> version, key |-> key, pre |-> pre, artifacts |-> <<>>,
   yanked |-> "no", answer |-> "ok"]

NpmRelease(raw, version, key, pre, good) ==
  [ReleaseOf(raw, version, key, pre) EXCEPT
     !.artifacts = IF good THEN <<Tarball(Subresource)>>
                   ELSE <<Tarball(<< [form |-> "sha1-", of |-> "x"] >>)>>]

PypiRelease(raw, version, key, pre, good) ==
  [ReleaseOf(raw, version, key, pre) EXCEPT
     !.artifacts = <<Distribution("s", TRUE, ~good), Distribution("w", FALSE, FALSE)>>]

JsrRelease(raw, version, key, pre, state) ==
  [ReleaseOf(raw, version, key, pre) EXCEPT
     !.yanked = IF state \in {"yes", "malformed"} THEN state ELSE "no",
     !.answer = IF state \in {"gone", "error"} THEN state ELSE "ok"]

\* Three releases, one of them before 2.0.0, a second name of one version, and
\* what is not a version.
Names4 == << <<"1.0.0", 1>>, <<"1.1.0", 2>>, <<"2.0.0-rc", 3>>, <<"2.0.0", 4>> >>

ReleasesOf(Made(_, _, _, _, _), states) ==
  {[i \in 1 .. 4 |-> Made(Names4[i][1], Names4[i][2], i, i = 3, state[i])] :
     state \in [1 .. 4 -> states]}

Responses(registry) ==
  CASE registry = "npm" ->
         {r \o <<NpmRelease("2.0.0+b", 4, 5, FALSE, TRUE), NpmRelease("junk", NotAVersion, 6, FALSE, TRUE)>> :
            r \in ReleasesOf(NpmRelease, BOOLEAN)}
           \cup ReleasesOf(NpmRelease, BOOLEAN)
    [] registry = "pypi" -> ReleasesOf(PypiRelease, BOOLEAN)
    [] registry = "jsr" -> ReleasesOf(JsrRelease, {"ok", "yes", "gone", "error"})
                             \cup {<<JsrRelease("1.0.0", 1, 1, FALSE, "malformed")>>}

Asks(registry, responses) ==
  [registry : {registry}, select : {"newest"}, count : {0}, from : {"none"}, to : {"none"},
   range : {TRUE}, accepts : {{1, 2}, {3, 4}, {3}, {}}, tag : {"none"}, pre : BOOLEAN,
   locked : {{}}, releases : responses]
  \cup
  [registry : {registry}, select : {"newest", "last"}, count : {1, 2, 3}, from : {"none"}, to : {"none"},
   range : {FALSE}, accepts : {{}}, tag : {"2.0.0", "junk"}, pre : {FALSE},
   locked : {{}}, releases : responses]
  \cup
  [registry : {registry}, select : {"last"}, count : {2, 3}, from : {"none"}, to : {"none"},
   range : {TRUE}, accepts : {{1, 2}, {1, 2, 3, 4}}, tag : {"none"}, pre : BOOLEAN,
   locked : {{}}, releases : responses]
  \cup
  [registry : {registry}, select : {"compare", "range"}, count : {0}, from : {"1.0.0", "1.1.0"},
   to : {"1.1.0", "2.0.0", "3.0.0"}, range : {FALSE}, accepts : {{}}, tag : {"none"}, pre : {FALSE},
   locked : {{}}, releases : responses]
  \cup
  [registry : {registry}, select : {"locked"}, count : {0}, from : {"1.0.0", "3.0.0"}, to : {"none"},
   range : {FALSE}, accepts : {{}}, tag : {"none"}, pre : {FALSE},
   locked : {{}, {"w"}, {"z"}}, releases : responses]

MCQueries == UNION {Asks(r, Responses(r)) : r \in {"npm", "pypi", "jsr"}}

-----------------------------------------------------------------------------
(* npm projects.                                                             *)

MCBaseName == [n \in {"a", "b", "al", "w", "g", "t", "none"} |-> n] @@ ("@s/b" :> "b") @@ ("other" :> "other")

Asked(form, accepts, target) == [form |-> form, accepts |-> accepts, target |-> target]

Caret(v) == Asked("range", {v}, "none")
Alias(v) == Asked("alias", {v}, "@s/b")
Local  == Asked("local", {}, "ws/w")
Github == Asked("github", {}, "commit")
Tag    == Asked("tag", {}, "none")

NoNames == [n \in {} |-> Tag]

Unresolved == [form |-> "none", of |-> "none"]
Registered(name) == [form |-> "registry", of |-> name]

Installed(version, artifact, declares) ==
  [name |-> "none", version |-> version, link |-> Nowhere, resolved |-> artifact,
   integrity |-> TRUE, declares |-> declares, from |-> {}, resolution |-> [of |-> "none", version |-> NoVersion]]

\* A tree with two versions of b, an alias, a workspace member and a commit.
RootAsks ==
  [a |-> Caret(1), b |-> Caret(1), al |-> Alias(2), w |-> Local, g |-> Github, t |-> Tag]

MemberAsks(a) == [b |-> Caret(1), a |-> Caret(a)]

TreeOf(hoisted, nested, alias, a) ==
  (<<>> :> Installed(NoVersion, Unresolved, RootAsks))
    @@ (<<"nm", "a">> :> Installed(1, Registered("a"), [b |-> Caret(2)]))
    @@ (<<"nm", "b">> :> Installed(hoisted, Registered("b"), NoNames))
    @@ (<<"nm", "a", "nm", "b">> :> Installed(nested, Registered("b"), [a |-> Caret(1)]))
    @@ (<<"nm", "al">> :> [Installed(2, Registered(alias), NoNames) EXCEPT !.name = alias])
    @@ (<<"nm", "w">> :> [Installed(NoVersion, Unresolved, NoNames) EXCEPT !.link = <<"ws", "w">>])
    @@ (<<"ws", "w">> :> Installed(1, Unresolved, MemberAsks(a)))
    @@ (<<"nm", "g">> :> Installed(1, [form |-> "github", of |-> "commit"], NoNames))
    @@ (<<"nm", "t">> :> Installed(2, Registered("t"), NoNames))

Optional == {<<"nm", "b">>, <<"nm", "a", "nm", "b">>, <<"nm", "al">>, <<"nm", "w">>, <<"ws", "w">>}

ManifestsOf(b, a) ==
  (<<>> :> [RootAsks EXCEPT !.b = b]) @@ (<<"nm", "a">> :> [b |-> Caret(2)])
    @@ (<<"nm", "b">> :> NoNames) @@ (<<"nm", "a", "nm", "b">> :> [a |-> Caret(1)])
    @@ (<<"ws", "w">> :> MemberAsks(a))

Project(lock, members, manifests) ==
  [lock |-> lock, members |-> members, manifests |-> manifests]

TreeLock(missing, hoisted, nested, alias, a) ==
  LET all == TreeOf(hoisted, nested, alias, a)
  IN  [kind |-> "package-lock", packages |-> Restrict(all, DOMAIN all \ missing)]

TreeProjects ==
  {Project(TreeLock(missing, 1, nested, alias, 1), members, ManifestsOf(Caret(v), 1)) :
     missing \in SUBSET Optional, nested \in {1, 2}, alias \in {"@s/b", "other"}, v \in {1, 2},
     members \in {{}, {<<"ws", "w">>}}}

\* Lockfiles that contradict what the project or its member declares.
ContradictedProjects ==
  {Project(TreeLock({}, hoisted, 2, "@s/b", a), members, ManifestsOf(Caret(1), a)) :
     hoisted \in {1, 2}, a \in {1, 2}, members \in {{}, {<<"ws", "w">>}}}

\* A member in a member: what they need lies between them and the project, in
\* the project, or in both.
BetweenAsks == [b |-> Caret(1)]

BetweenTree(hoisted) ==
  (<<>> :> Installed(NoVersion, Unresolved, NoNames))
    @@ (<<"nm", "b">> :> Installed(hoisted, Registered("b"), NoNames))
    @@ (<<"ws">> :> Installed(1, Unresolved, BetweenAsks))
    @@ (<<"ws", "nm", "b">> :> Installed(1, Registered("b"), NoNames))
    @@ (<<"ws", "w">> :> Installed(1, Unresolved, BetweenAsks))

BetweenProjects ==
  {Project([kind |-> "package-lock",
            packages |-> Restrict(BetweenTree(hoisted), DOMAIN BetweenTree(hoisted) \ missing)],
           {<<"ws">>, <<"ws", "w">>}, [p \in {<<"ws">>, <<"ws", "w">>} |-> BetweenAsks]) :
     hoisted \in {1, 2}, missing \in {{}, {<<"nm", "b">>}, {<<"ws", "nm", "b">>}}}

LegacyAsks == [a |-> Caret(1), b |-> Caret(1), g |-> Github]

LegacyTree(nested, requires) ==
  (<<"a">> :> Installed(1, Registered("a"), requires))
    @@ (<<"b">> :> Installed(1, Registered("b"), NoNames))
    @@ (<<"a", "b">> :> Installed(nested, Registered("b"), NoNames))
    @@ (<<"g">> :> [Installed(1, [form |-> "github", of |-> "commit"], NoNames) EXCEPT !.from = {Github}])

LegacyProjects ==
  {Project([kind |-> "legacy",
            legacy |-> Restrict(LegacyTree(nested, requires), DOMAIN LegacyTree(nested, requires) \ missing)],
           {}, (<<>> :> LegacyAsks) @@ (<<"a">> :> [b |-> Caret(2)]) @@ (<<"a", "b">> :> NoNames)) :
     missing \in SUBSET {<<"b">>, <<"a", "b">>}, nested \in {1, 2},
     requires \in {NoNames, [b |-> Caret(2)], [b |-> Caret(1)]}}

YarnAsks == [a |-> Caret(1), al |-> Alias(2), g |-> Github]

YarnEntry(version, of, artifact) ==
  [Installed(version, artifact, NoNames) EXCEPT !.resolution = [of |-> of, version |-> version]]

YarnProjects ==
  {Project([kind |-> "yarn", berry |-> berry,
            selectors |->
              (Selector("a", Caret(1), berry) :> YarnEntry(v, IF berry THEN of ELSE "none", Unresolved))
                @@ (Selector("al", Alias(2), FALSE) :> YarnEntry(2, IF berry THEN alias ELSE "none", Unresolved))
                @@ (Selector("g", Github, FALSE) :>
                      YarnEntry(1, "g", [form |-> "github", of |-> commit]))],
           {<<"ws", "w">>}, (<<>> :> YarnAsks) @@ (<<"ws", "w">> :> [a |-> Caret(1)])) :
     berry \in BOOLEAN, v \in {1, 2}, of \in {"a", "b"}, alias \in {"@s/b", "b"},
     commit \in {"commit", "older"}}

PnpmReference(target, version, artifact) ==
  [target |-> target, version |-> version, resolved |-> artifact]

Importer(has, specifier, reference) ==
  [hasSpecifier |-> has, specifier |-> specifier, reference |-> reference]

PnpmProjects ==
  {Project([kind |-> "pnpm",
            importers |->
              (<<>> :> [a  |-> Importer(has, Caret(s), PnpmReference("none", v, Unresolved)),
                        al |-> Importer(TRUE, Alias(2), PnpmReference(alias, 2, Unresolved)),
                        w  |-> Importer(TRUE, Local, PnpmReference("none", NoVersion, [form |-> "file", of |-> "ws/w"])),
                        g  |-> Importer(TRUE, Github, PnpmReference("none", 1, [form |-> "github", of |-> "commit"]))])
                @@ (<<"ws", "w">> :> [a |-> Importer(TRUE, Caret(1), PnpmReference("none", 1, Unresolved))]),
            packages |-> {[name |-> "a", version |-> 1], [name |-> "@s/b", version |-> 2]}],
           {<<"ws", "w">>},
           (<<>> :> [a |-> Caret(1), al |-> Alias(2), w |-> Local, g |-> Github])
             @@ (<<"ws", "w">> :> [a |-> Caret(1)])) :
     has \in BOOLEAN, s \in {1, 2}, v \in {1, 2}, alias \in {"@s/b", "a", "none"}}

\* A range for which the lockfile has a commit, a tag for which it has a directory.
SwappedAsks == [a |-> Caret(1), t |-> Tag]

SwappedYarn(version) ==
  [kind |-> "yarn", berry |-> FALSE,
   selectors |-> (Selector("a", Caret(1), FALSE) :> YarnEntry(version, "none", [form |-> "github", of |-> "other"]))
                   @@ (Selector("t", Tag, FALSE) :> YarnEntry(2, "none", [form |-> "file", of |-> "ws/w"]))]

SwappedPnpm(version) ==
  [kind |-> "pnpm", packages |-> {},
   importers |-> <<>> :> [a |-> Importer(TRUE, Caret(1), PnpmReference("none", version, [form |-> "github", of |-> "other"])),
                          t |-> Importer(FALSE, Tag, PnpmReference("none", NoVersion, [form |-> "file", of |-> "ws/w"]))]]

SwappedProjects ==
  {Project(lock, {}, <<>> :> SwappedAsks) : lock \in {SwappedYarn(v) : v \in {1, 2}} \cup {SwappedPnpm(v) : v \in {1, 2}}}

MCProjects ==
  TreeProjects \cup ContradictedProjects \cup BetweenProjects \cup LegacyProjects \cup YarnProjects
    \cup PnpmProjects \cup SwappedProjects

=============================================================================
