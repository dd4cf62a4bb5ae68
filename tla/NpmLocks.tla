------------------------------ MODULE NpmLocks ------------------------------
(***************************************************************************)
(* Declared npm dependencies are bound to the versions a lockfile holds:   *)
(* src/manifests/npm.  package-lock.json and npm-shrinkwrap.json describe  *)
(* the whole installed tree, and the dependencies of a dependency are      *)
(* bound from the place where it is installed; yarn.lock and               *)
(* pnpm-lock.yaml bind the project and its workspace members only.         *)
(*                                                                         *)
(* A place is a sequence of names, "nm" standing for node_modules.  A      *)
(* requirement has a form and the versions it accepts; two requirements    *)
(* are the same text exactly when they are the same record.                *)
(***************************************************************************)
EXTENDS Integers, SequencesExt, FiniteSetsExt, Functions, TLC

CONSTANTS
  Projects,  \* the projects considered
  BaseName   \* a package name without its scope

\* Places are sequences of names.  A node_modules does not lie in another one:
\* no package has that name.
InstalledTree(places) ==
  \A p \in places :
    /\ p \in Seq(STRING)
    /\ \A n \in 2 .. Len(p) : p[n] = "nm" => p[n - 1] # "nm"

\* Packages nested in packages are named by packages alone.
NestedTree(places) ==
  \A p \in places : p \in Seq(STRING) /\ \A n \in DOMAIN p : p[n] # "nm"

ASSUME NpmProjectsAssumption ==
  \A p \in Projects :
    /\ p.members \subseteq Seq(STRING)
    /\ p.lock.kind \in {"package-lock", "legacy", "yarn", "pnpm"}
    /\ p.lock.kind = "package-lock" =>
         /\ InstalledTree(DOMAIN p.lock.packages)
         /\ \A q \in DOMAIN p.lock.packages : p.lock.packages[q].link \in Seq(STRING)
    /\ p.lock.kind = "legacy" => NestedTree(DOMAIN p.lock.legacy)
    /\ p.lock.kind = "pnpm" => \A q \in p.lock.packages : q.name # "none"

VARIABLES
  project,   \* manifests and lockfile
  contexts,  \* places whose manifest is still to be read
  now,       \* the place whose dependencies are being bound
  left,      \* the dependencies still to be bound there
  children,  \* places found from there
  bound,     \* what has been decided: a record for each place and name
  failed     \* places whose manifest contradicts the lockfile

lockVars == <<project, contexts, now, left, children, bound, failed>>

Nowhere == <<"nowhere">>

NoVersion == -1

Lock == project.lock

Requirement(place, name) == project.manifests[place][name]

-----------------------------------------------------------------------------
(* Requirements.                                                           *)

IsRange(r) == r.form \in {"range", "alias"}

Identity(name, r) == IF r.form = "alias" THEN r.target ELSE name

IsLocal(r) == r.form = "local"

\* A commit pinned on GitHub is bound to the archive of that commit only.
GithubArchiveMatches(r, resolved) ==
  r.form = "github" => resolved.form = "github" /\ resolved.of = r.target

Unbound == [how |-> "unbound", place |-> Nowhere, version |-> NoVersion, of |-> "none"]

Bound(how, place, version, of) == [how |-> how, place |-> place, version |-> version, of |-> of]

-----------------------------------------------------------------------------
(* package-lock.json, versions 2 and 3: a table of installed places.       *)

\* From a place outwards: itself, whatever has one of the node_modules on the
\* way to it, and the project.  A directory between is passed over.
Outwards(place) ==
  {0, Len(place)} \cup {n \in 1 .. Len(place) - 1 : place[n + 1] = "nm"}

InNodeModules(place, n, name) == SubSeq(place, 1, n) \o <<"nm", name>>

\* A slip: what is installed at the top is taken wherever it is asked for.
ResolvePackagePathHoisted(place, name) ==
  IF <<"nm", name>> \in DOMAIN Lock.packages THEN <<"nm", name>> ELSE Nowhere

ResolvePackagePath(place, name) ==
  LET found == {n \in Outwards(place) : InNodeModules(place, n, name) \in DOMAIN Lock.packages}
  IN  IF found = {} THEN Nowhere ELSE InNodeModules(place, Max(found), name)

\* A link stands for the package at its target.
ResolveLinked(place) ==
  LET target == Lock.packages[place].link
  IN  IF target = Nowhere THEN [place |-> place, entry |-> Lock.packages[place], local |-> FALSE]
      ELSE [place |-> target, local |-> TRUE,
            entry |-> IF target \in DOMAIN Lock.packages THEN Lock.packages[target]
                      ELSE Lock.packages[place]]

\* An alias is keyed by its own name: the entry says in its name, or in the
\* artifact it was resolved to, which package it is.
AliasIdentityMatches(r, entry) ==
  r.form = "alias" =>
    /\ entry.name \in {"none", r.target}
    /\ IF entry.resolved.form = "none" THEN entry.name = r.target /\ entry.integrity
       ELSE BaseName[entry.resolved.of] = BaseName[r.target]

\* A tag is compatible with any version, since the manifest was compared.
LockedVersionCompatible(r, entry) ==
  \/ IsLocal(r) \/ r.form = "github"
  \/ entry.version # NoVersion /\ (entry.version \in r.accepts \/ r.form = "tag")

Artifact(entry) == IF entry.resolved.form = "none" THEN entry.name ELSE entry.resolved.of

\* The part the formats with an installed tree have in common.
BindEntry(r, place, entry) ==
  IF ~GithubArchiveMatches(r, entry.resolved) \/ (entry.resolved.form = "file" /\ ~IsLocal(r))
  THEN Unbound
  ELSE IF r.form = "github" THEN Bound("commit", place, NoVersion, entry.resolved.of)
  ELSE Bound("locked", place, entry.version, Artifact(entry))

BindInstalled(place, name, r) ==
  IF place \notin DOMAIN Lock.packages \/ name \notin DOMAIN Lock.packages[place].declares THEN Unbound
  ELSE IF Lock.packages[place].declares[name] # r THEN Unbound
  ELSE LET installed == ResolvePackagePath(place, name)
       IN  IF installed = Nowhere THEN Unbound
           ELSE LET linked == ResolveLinked(installed)
                IN  IF ~linked.local /\ ~AliasIdentityMatches(r, linked.entry) THEN Unbound
                    ELSE IF ~linked.local /\ ~LockedVersionCompatible(r, linked.entry)
                    THEN [Unbound EXCEPT !.how = "error"]
                    ELSE IF linked.local
                    THEN Bound("local", linked.place, linked.entry.version, Artifact(linked.entry))
                    ELSE BindEntry(r, linked.place, linked.entry)

-----------------------------------------------------------------------------
(* package-lock.json, version 1: packages nested in packages.              *)

Enclosed(ancestry, n, name) == SubSeq(ancestry, 1, n) \o <<name>>

LegacyPackage(ancestry, name) ==
  LET found == {n \in 0 .. Len(ancestry) : Enclosed(ancestry, n, name) \in DOMAIN Lock.legacy}
  IN  IF found = {} THEN Nowhere ELSE Enclosed(ancestry, Max(found), name)

\* What the entry was installed from decides when it is recorded, then what
\* the parent requires; only then the range.
LegacyRequirementMatches(ancestry, name, r, entry) ==
  LET requires == IF ancestry \in DOMAIN Lock.legacy THEN Lock.legacy[ancestry].declares ELSE <<>>
  IN  IF entry.from # {} THEN r \in entry.from
      ELSE IF name \in DOMAIN requires THEN requires[name] = r
      ELSE IF IsLocal(r) THEN entry.resolved.form = "file" /\ entry.resolved.of = r.target
      ELSE r.form = "range" /\ entry.version \in r.accepts

BindLegacy(ancestry, name, r) ==
  LET installed == LegacyPackage(ancestry, name)
  IN  IF installed = Nowhere THEN Unbound
      ELSE IF ~LegacyRequirementMatches(ancestry, name, r, Lock.legacy[installed]) THEN Unbound
      ELSE BindEntry(r, installed, Lock.legacy[installed])

-----------------------------------------------------------------------------
(* yarn.lock: entries by the text of what is asked for.                    *)

\* What Yarn Berry resolved an entry to: a package and its version.
ResolutionMatches(entry, name) ==
  entry.resolution.of = name /\ entry.resolution.version = entry.version

YarnCompatible(r, name, entry, registrySelector) ==
  IF r.form = "alias"
  THEN /\ entry.version \in r.accepts
       /\ IF entry.resolution.of = "none" THEN ~Lock.berry ELSE ResolutionMatches(entry, r.target)
  ELSE \/ ~Lock.berry
       \/ IF entry.resolution.of = "none" THEN ~registrySelector ELSE ResolutionMatches(entry, name)

Selector(name, r, npm) == [name |-> name, requirement |-> r, npm |-> npm]

Selects(name, r, npm) ==
  LET s == Selector(name, r, npm)
  IN  s \in DOMAIN Lock.selectors /\ YarnCompatible(r, name, Lock.selectors[s], npm)

\* A selector as it is, then as Yarn Berry writes it for the registry.
FindEntry(name, r) ==
  IF Selects(name, r, FALSE) THEN {Lock.selectors[Selector(name, r, FALSE)]}
  ELSE IF Selects(name, r, TRUE) THEN {Lock.selectors[Selector(name, r, TRUE)]}
  ELSE {}

\* What is not a range is taken as it is locked.
VersionCompatible(r, version) == IF IsRange(r) THEN version \in r.accepts ELSE TRUE

BindYarnEntry(name, r, entry) ==
  IF entry.resolved.form = "file" THEN Bound("local", Nowhere, entry.version, name)
  ELSE IF ~VersionCompatible(r, entry.version) \/ ~GithubArchiveMatches(r, entry.resolved) THEN Unbound
  ELSE IF entry.resolved.form = "github" THEN Bound("commit", Nowhere, NoVersion, entry.resolved.of)
  ELSE Bound("locked", Nowhere, entry.version, entry.resolution.of)

BindYarn(name, r) ==
  IF FindEntry(name, r) = {} THEN Unbound
  ELSE BindYarnEntry(name, r, CHOOSE entry \in FindEntry(name, r) : TRUE)

-----------------------------------------------------------------------------
(* pnpm-lock.yaml: references by workspace member.                         *)

\* A reference through "npm:" names its package; another one is to the
\* package of the declared name, which an alias is not.
RegistryReference(r, name, reference) ==
  IF reference.target = "none" THEN IF r.form = "alias" THEN "none" ELSE name
  ELSE IF reference.target = Identity(name, r) THEN reference.target ELSE "none"

BindReference(r, name, reference) ==
  LET package == [name |-> RegistryReference(r, name, reference), version |-> reference.version]
  IN  IF ~GithubArchiveMatches(r, reference.resolved) THEN Unbound
      ELSE IF reference.resolved.form = "github" THEN Bound("commit", Nowhere, NoVersion, reference.resolved.of)
      ELSE IF reference.resolved.form = "file" THEN Bound("local", Nowhere, NoVersion, name)
      ELSE IF package.name = "none" \/ ~VersionCompatible(r, reference.version) \/ package \notin Lock.packages
      THEN Unbound
      ELSE Bound("locked", Nowhere, reference.version, package.name)

BindPnpm(place, name, r) ==
  IF place \notin DOMAIN Lock.importers \/ name \notin DOMAIN Lock.importers[place] THEN Unbound
  ELSE LET locked == Lock.importers[place][name]
       IN  IF locked.hasSpecifier /\ locked.specifier # r THEN Unbound
           ELSE BindReference(r, name, locked.reference)

-----------------------------------------------------------------------------
(* Reading the manifests.                                                  *)

LocksInit ==
  /\ project \in Projects
  /\ contexts = {<<>>} \cup project.members
  /\ now = Nowhere /\ left = {} /\ children = {} /\ bound = {} /\ failed = {}

\* The project first, then its workspace members, then what they lead to.
EnterManifest ==
  /\ now = Nowhere
  /\ \E place \in contexts :
       /\ <<>> \in contexts => place = <<>>
       /\ contexts \cap project.members # {} => place \in {<<>>} \cup project.members
       /\ now' = place /\ contexts' = contexts \ {place}
       /\ left' = IF place \in DOMAIN project.manifests THEN DOMAIN project.manifests[place] ELSE {}
  /\ children' = {}
  /\ UNCHANGED <<project, bound, failed>>

Bind(place, name) ==
  CASE Lock.kind = "package-lock" -> BindInstalled(place, name, Requirement(place, name))
    [] Lock.kind = "legacy" ->
         IF place \in project.members THEN Unbound ELSE BindLegacy(place, name, Requirement(place, name))
    [] Lock.kind = "yarn" -> BindYarn(name, Requirement(place, name))
    [] Lock.kind = "pnpm" -> BindPnpm(place, name, Requirement(place, name))

Decided(name, decision) == [at |-> now, name |-> name, as |-> decision]

EnrichDependency ==
  \E name \in left :
    LET decision == Bind(now, name)
    IN  /\ decision.how # "error"
        /\ bound' = bound \cup {Decided(name, decision)}
        /\ left' = left \ {name}
        /\ children' = IF decision.place = Nowhere THEN children ELSE children \cup {decision.place}
        /\ UNCHANGED <<project, contexts, now, failed>>

\* One dependency that contradicts the lockfile ends the binding of its
\* manifest, and nothing found from there is followed.  The project's own
\* dependencies stay as they are by then; those of a member or of an
\* installed package are dropped.  In the project and its members that is
\* also the end of the reading.
ContradictLockfile ==
  \E name \in left :
    /\ Bind(now, name).how = "error"
    /\ bound' = IF now = <<>> THEN bound \cup {Decided(other, Unbound) : other \in left}
                ELSE {b \in bound : b.at # now}
    /\ contexts' = IF now \in {<<>>} \cup project.members THEN {} ELSE contexts
    /\ failed' = failed \cup {now}
    /\ now' = Nowhere /\ left' = {} /\ children' = {}
    /\ UNCHANGED project

Visited == {b.at : b \in bound} \cup failed \cup {now}

ManifestDone ==
  /\ now # Nowhere /\ left = {}
  /\ contexts' = contexts \cup (children \ Visited)
  /\ now' = Nowhere /\ children' = {}
  /\ UNCHANGED <<project, left, bound, failed>>

LocksNext == EnterManifest \/ EnrichDependency \/ ContradictLockfile \/ ManifestDone

-----------------------------------------------------------------------------
(* What a binding promises.                                                *)

\* What a runtime loads at a place: the package in the nearest enclosing
\* directory that has one of that name.
Loaded(place, name, table, below) ==
  LET at(n) == SubSeq(place, 1, n) \o (below \o <<name>>)
      found == {n \in 0 .. Len(place) : (n = 0 \/ place[n] # "nm") /\ at(n) \in table}
  IN  IF found = {} THEN Nowhere ELSE at(Max(found))

Expected(place, name) ==
  CASE Lock.kind = "package-lock" ->
         LET p == Loaded(place, name, DOMAIN Lock.packages, <<"nm">>)
         IN  IF p # Nowhere /\ Lock.packages[p].link # Nowhere THEN Lock.packages[p].link ELSE p
    [] Lock.kind = "legacy" -> Loaded(place, name, DOMAIN Lock.legacy, <<>>)
    [] OTHER -> Nowhere

\* A runtime finds it in a directory that the code does not look into, since
\* the place lies in a workspace member, or in another package, without a
\* node_modules between them.
PassedOver(place, name) ==
  LET p == Loaded(place, name, DOMAIN Lock.packages, <<"nm">>)
  IN  p # Nowhere /\ Len(p) - 2 \notin Outwards(place)

LeadsWhereLoaded(place, name, as) ==
  as.place = Expected(place, name) \/ (Lock.kind = "package-lock" /\ PassedOver(place, name))

\* What yarn.lock and pnpm-lock.yaml have for the text of a declaration.
EntriesOf(place, name, r) ==
  CASE Lock.kind = "yarn" ->
         {Lock.selectors[s] : s \in {Selector(name, r, npm) : npm \in BOOLEAN} \cap DOMAIN Lock.selectors}
    [] Lock.kind = "pnpm" ->
         IF place \notin DOMAIN Lock.importers \/ name \notin DOMAIN Lock.importers[place] THEN {}
         ELSE {l.reference : l \in {k \in {Lock.importers[place][name]} : k.hasSpecifier => k.specifier = r}}
    [] OTHER -> {}

RecordedAs(entry, as) ==
  CASE as.how = "local" -> entry.resolved.form = "file"
    [] as.how = "commit" -> entry.resolved.form = "github" /\ entry.resolved.of = as.of
    [] as.how = "locked" -> entry.version = as.version

\* What a declaration r of a place may be bound to.
FitsDeclared(place, name, r, as) ==
  /\ Lock.kind \in {"yarn", "pnpm"} =>
       \E entry \in EntriesOf(place, name, r) :
         /\ RecordedAs(entry, as)
         /\ Lock.kind = "yarn" /\ as.how = "commit" /\ IsRange(r) => entry.version \in r.accepts
  /\ Lock.kind \in {"package-lock", "legacy"} =>
       /\ as.how = "commit" => r.form = "github"
       /\ as.how = "local" =>
            /\ Lock.kind = "package-lock"
            /\ \E q \in DOMAIN Lock.packages \ {<<>>} :
                 q[Len(q)] = name /\ Lock.packages[q].link = as.place
  /\ r.form = "github" /\ as.how # "local" => as.how = "commit" /\ as.of = r.target
  /\ as.how = "locked" /\ IsRange(r) =>
       /\ Lock.kind # "legacy" => as.version \in r.accepts
       /\ Lock.kind = "pnpm" => as.of = Identity(name, r)
       /\ Lock.kind = "yarn" /\ Lock.berry => as.of \in {Identity(name, r), "none"}
       /\ Lock.kind = "package-lock" /\ r.form = "alias" => BaseName[as.of] = BaseName[r.target]

\* In every place a dependency is reached from, however deep, it is bound to
\* what a runtime would load there, with one exception: from a member that lies
\* in another one the directories on the way to the project are passed over
\* (manifests/npm/package_lock/mod.rs:463), and what is installed there is not
\* what is bound.  In every case it is bound to a version
\* its range accepts (a lockfile of version 1 may instead repeat the range),
\* and to an artifact of the package it names or, for an alias, stands for: by
\* name and scope where a lockfile records what was resolved, by the name of
\* the artifact in package-lock.json.  A declared commit is bound to no other
\* commit or release.  A commit or a directory may stand for what was not
\* declared as one: in package-lock.json a directory for a link of that name;
\* in yarn.lock and pnpm-lock.yaml what the entry for the very text of the
\* declaration has, where yarn.lock compares the version of a commit with the
\* range and pnpm-lock.yaml nothing (manifests/npm/pnpm/mod.rs:220-229).
BoundAsLoaded ==
  \A b \in bound : b.as # Unbound =>
    /\ LeadsWhereLoaded(b.at, b.name, b.as)
    /\ FitsDeclared(b.at, b.name, Requirement(b.at, b.name), b.as)

-----------------------------------------------------------------------------
(* When a lockfile agrees with the manifests.                              *)

\* package-lock.json repeats what each place declares, and where a runtime
\* loads it from, in a directory that is not passed over, there is a link, or a
\* package that fits.
InstalledAsDeclared(place, name, r) ==
  LET p == Loaded(place, name, DOMAIN Lock.packages, <<"nm">>)
  IN  /\ place \in DOMAIN Lock.packages /\ name \in DOMAIN Lock.packages[place].declares
      /\ Lock.packages[place].declares[name] = r
      /\ p # Nowhere /\ ~PassedOver(place, name)
      /\ Lock.packages[p].link = Nowhere =>
           /\ AliasIdentityMatches(r, Lock.packages[p]) /\ LockedVersionCompatible(r, Lock.packages[p])
           /\ GithubArchiveMatches(r, Lock.packages[p].resolved)
           /\ Lock.packages[p].resolved.form = "file" => IsLocal(r)

\* One of version 1 describes the project without its members.
NestedAsDeclared(place, name, r) ==
  LET p == Loaded(place, name, DOMAIN Lock.legacy, <<>>)
  IN  /\ place \notin project.members
      /\ p # Nowhere
      /\ LegacyRequirementMatches(place, name, r, Lock.legacy[p])
      /\ GithubArchiveMatches(r, Lock.legacy[p].resolved)
      /\ Lock.legacy[p].resolved.form = "file" => IsLocal(r)

\* yarn.lock has the text of the declaration, and what it has fits.
SelectedAsDeclared(name, r) ==
  /\ \E npm \in BOOLEAN : Selector(name, r, npm) \in DOMAIN Lock.selectors
  /\ \A npm \in BOOLEAN : Selector(name, r, npm) \in DOMAIN Lock.selectors =>
       LET entry == Lock.selectors[Selector(name, r, npm)]
       IN  /\ YarnCompatible(r, name, entry, npm)
           /\ \/ entry.resolved.form = "file"
              \/ VersionCompatible(r, entry.version) /\ GithubArchiveMatches(r, entry.resolved)

\* pnpm-lock.yaml has it for this member, and a package for its reference.
ReferredAsDeclared(place, name, r) ==
  /\ place \in DOMAIN Lock.importers /\ name \in DOMAIN Lock.importers[place]
  /\ LET locked    == Lock.importers[place][name]
         reference == locked.reference
     IN  /\ locked.hasSpecifier => locked.specifier = r
         /\ GithubArchiveMatches(r, reference.resolved)
         /\ \/ reference.resolved.form \in {"github", "file"}
            \/ /\ reference.target = Identity(name, r) \/ (reference.target = "none" /\ r.form # "alias")
               /\ VersionCompatible(r, reference.version)
               /\ [name |-> Identity(name, r), version |-> reference.version] \in Lock.packages

Corresponds(place, name, r) ==
  CASE Lock.kind = "package-lock" -> InstalledAsDeclared(place, name, r)
    [] Lock.kind = "legacy" -> NestedAsDeclared(place, name, r)
    [] Lock.kind = "yarn" -> SelectedAsDeclared(name, r)
    [] Lock.kind = "pnpm" -> ReferredAsDeclared(place, name, r)

LockfileAgrees ==
  \A place \in DOMAIN project.manifests : \A name \in DOMAIN project.manifests[place] :
    Corresponds(place, name, Requirement(place, name))

\* Only a lockfile that disagrees with the manifests, or has what they need in
\* a directory that is passed over, leaves something unbound or is taken for a
\* contradiction, in the project, its members and whatever they lead to
\* (manifests/npm, discovery/npm.rs).
AgreedIsBound ==
  failed # {} \/ (\E b \in bound : b.as = Unbound) => ~LockfileAgrees

LockBindsWhatIsLoaded == BoundAsLoaded /\ AgreedIsBound

NpmSpec == LocksInit /\ [][LocksNext]_lockVars

\* What the comments promise of the manifests of the project and its
\* workspace members: "Keep declarations visible so a member enrichment
\* failure cannot suppress them" (discovery/npm.rs:149).
DeclarationsStayVisible ==
  \A place \in failed :
    place \in {<<>>} \cup project.members =>
      \A name \in DOMAIN project.manifests[place] :
        \E b \in bound : b.at = place /\ b.name = name
=============================================================================
