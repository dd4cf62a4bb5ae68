---------------------------- MODULE PythonLocks ----------------------------
(***************************************************************************)
(* Declared Python dependencies are bound to the records of a lockfile:    *)
(* src/manifests/python/lockfiles, python/matching, discovery/python.rs.   *)
(* A directory has a lockfile of its own, or inherits those of the         *)
(* packages that lead to it; each of these binds the declarations anew,    *)
(* and what all of them say is kept side by side.  A source is a form and  *)
(* what it names, for git a commit; a version is a name, "none" one that   *)
(* is missing or cannot be read.                                           *)
(***************************************************************************)
EXTENDS Integers, SequencesExt, FiniteSetsExt, Functions

CONSTANTS
  Environments,  \* the directories considered
  MaxDeclared    \* limits.max_packages, as it bounds one manifest

NoSource == [form |-> "none", of |-> "none"]

DeclaredForms == {"registry", "url", "git", "github", "local", "malformed"}

\* A manifest has been read within the limit.  What is declared by a range has
\* no source, what is declared by a place has that one, and a commit is none
\* of the words for what is not one.
WellDeclared(d) ==
  /\ d.form \in DeclaredForms
  /\ d.form \in {"registry", "local", "malformed"} => d.source = NoSource
  /\ d.form = "url" => d.source.form = "url"
  /\ d.form \in {"git", "github"} => d.source.form = "git"
  /\ d.form = "github" => d.source.of \notin {"branch", "none"}

WellFormedLock(lock) ==
  /\ lock.path # "none" /\ lock.packages \in Seq(Range(lock.packages))
  /\ \A e \in Range(lock.packages) : e.files \in Seq(Range(e.files))

ASSUME EnvironmentsAssumption ==
  /\ MaxDeclared \in Nat
  /\ \A v \in Environments :
       /\ v.declared \in Seq(Range(v.declared)) /\ Len(v.declared) <= MaxDeclared
       /\ \A d \in Range(v.declared) : WellDeclared(d)
       /\ v.own \in Seq(Range(v.own)) /\ v.inherited \in Seq(Range(v.inherited))
       /\ \A lock \in Range(v.own) \cup Range(v.inherited) : WellFormedLock(lock)

VARIABLES
  environment,   \* declarations, own and inherited lockfiles
  lockQueue,     \* lockfiles still to be applied
  unmatched,     \* declarations still to be matched with the first of them
  enriched,      \* what it made of the others
  alternatives,  \* for each declaration what all of them have made of it
  outcome        \* where the enrichment stands, or how it ended

pythonVars == <<environment, lockQueue, unmatched, enriched, alternatives, outcome>>

DeclarationOf(dep) == environment.declared[dep.index]

CurrentLock == Head(lockQueue)

\* A commit on GitHub is its own version.
AsDeclared(i) ==
  LET d == environment.declared[i]
  IN  [index |-> i, version |-> IF d.form = "github" THEN d.source.of ELSE "none", source |-> d.source,
       integrity |-> {}, registryIntegrity |-> FALSE, lockfile |-> "none"]

AllDeclared == [i \in DOMAIN environment.declared |-> AsDeclared(i)]

-----------------------------------------------------------------------------
(* Matching a declaration with the records of a lockfile.                  *)

\* Pipfile.lock has two sections, which may hold one record twice.
Named(dep) ==
  {k \in DOMAIN CurrentLock.packages :
     /\ CurrentLock.packages[k].name = DeclarationOf(dep).name
     /\ CurrentLock.kind = "pipfile" => \A j \in 1 .. k - 1 : CurrentLock.packages[j] # CurrentLock.packages[k]}

\* What comes from a place of its own is not bound by a range.
LockVersionCompatible(dep, e) ==
  /\ e.version # "none"
  /\ dep.source # NoSource \/ DeclarationOf(dep).form = "local" \/ e.version \in DeclarationOf(dep).accepts

\* A branch is no commit, and matches none.
SourceCompatible(dep, e) ==
  \/ dep.source = NoSource
  \/ DeclarationOf(dep).form = "github" /\ (CurrentLock.kind = "pipfile" \/ e.source = NoSource)
  \/ e.source = dep.source /\ (e.source.form = "git" => e.source.of # "branch")

CompatibleRecords(dep) ==
  {k \in Named(dep) : /\ LockVersionCompatible(dep, CurrentLock.packages[k])
                      /\ SourceCompatible(dep, CurrentLock.packages[k])}

RecordFor(dep) == CurrentLock.packages[CHOOSE k \in CompatibleRecords(dep) : TRUE]

-----------------------------------------------------------------------------
(* What a record authorises.                                               *)

\* A Pipfile.lock may list digests of other forms, which do not count.
Authorized(files) ==
  LET upTo[n \in 0 .. Len(files)] ==
        IF n = 0 THEN <<>> ELSE IF files[n].valid THEN Append(upTo[n - 1], files[n]) ELSE upTo[n - 1]
  IN  upTo[Len(files)]

Artifacts(e) == IF CurrentLock.kind = "pipfile" THEN Authorized(e.files) ELSE e.files

DirectSource(dep) ==
  dep.source # NoSource \/ (CurrentLock.kind = "uv" /\ DeclarationOf(dep).form = "local")

\* A slip: what stands for other files of the record counts for the direct one.
DirectHashesAny(dep, e) == {Artifacts(e)[j].hash : j \in DOMAIN Artifacts(e)}

\* uv lists files of several URLs, of which a direct dependency is one.
DirectHashes(dep, e) ==
  {Artifacts(e)[j].hash :
     j \in {k \in DOMAIN Artifacts(e) : CurrentLock.kind = "uv" => Artifacts(e)[k].url = dep.source.of}}

\* Without a digest the registry has to give one; a direct dependency is not
\* bound at all.
Unverified(dep, e) ==
  IF DirectSource(dep) THEN [dep EXCEPT !.version = "none", !.integrity = {}]
  ELSE [dep EXCEPT !.version = e.version, !.registryIntegrity = TRUE]

WithHashes(dep, e, hashes) == [dep EXCEPT !.version = e.version, !.integrity = hashes]

LockedArtifact(dep, e, f) ==
  [WithHashes(dep, e, {f.hash}) EXCEPT
     !.source = IF CurrentLock.kind = "pipfile" \/ f.url = "none" THEN @ ELSE [form |-> "url", of |-> f.url]]

PinnedArtifacts(dep, e) == [j \in DOMAIN Artifacts(e) |-> LockedArtifact(dep, e, Artifacts(e)[j])]

Expansion(dep, e) ==
  IF DeclarationOf(dep).form = "github" THEN <<dep>>
  ELSE IF Artifacts(e) = <<>> \/ (DirectSource(dep) /\ DirectHashes(dep, e) = {}) THEN <<Unverified(dep, e)>>
  ELSE IF DirectSource(dep) THEN <<WithHashes(dep, e, DirectHashes(dep, e))>>
  ELSE PinnedArtifacts(dep, e)

ExpansionError(dep, e) ==
  IF DeclarationOf(dep).form = "github" THEN "none"
  ELSE IF CurrentLock.kind = "pipfile" /\ Artifacts(e) = <<>>
       THEN IF e.files # <<>> /\ ~DirectSource(dep) THEN "manifest" ELSE "none"
  ELSE IF ~DirectSource(dep) /\ Len(Artifacts(e)) > MaxDeclared - Len(enriched) THEN "limit"
  ELSE IF \E j \in DOMAIN Artifacts(e) : ~Artifacts(e)[j].valid THEN "manifest"
  ELSE "none"

Matched(dep) ==
  IF Named(dep) = {} THEN <<dep>>
  ELSE LET expansion == Expansion(dep, RecordFor(dep))
       IN  [j \in DOMAIN expansion |-> [expansion[j] EXCEPT !.lockfile = CurrentLock.path]]

\* Dependencies are collected once each.
Extend(collected, incoming) ==
  LET upTo[n \in 0 .. Len(incoming)] ==
        IF n = 0 THEN collected
        ELSE IF Contains(upTo[n - 1], incoming[n]) THEN upTo[n - 1] ELSE Append(upTo[n - 1], incoming[n])
  IN  upTo[Len(incoming)]

WithMatched(dep) ==
  IF CurrentLock.kind = "pipfile" THEN enriched \o Matched(dep) ELSE Extend(enriched, Matched(dep))

\* A constraint that cannot be read is an error whatever the lockfile holds.
\* What the lockfile does not name is only counted when something follows.
MatchError(dep) ==
  IF CurrentLock.kind = "pipfile" /\ Len(enriched) >= MaxDeclared THEN "limit"
  ELSE IF DeclarationOf(dep).form = "malformed" THEN "manifest"
  ELSE IF Named(dep) = {} THEN "none"
  ELSE IF Cardinality(CompatibleRecords(dep)) # 1 THEN "manifest"
  ELSE IF ExpansionError(dep, RecordFor(dep)) # "none" THEN ExpansionError(dep, RecordFor(dep))
  ELSE IF Len(WithMatched(dep)) > MaxDeclared THEN "limit"
  ELSE "none"

-----------------------------------------------------------------------------
(* Enrichment.                                                             *)

PythonInit ==
  /\ environment \in Environments
  /\ lockQueue = <<>> /\ unmatched = <<>> /\ enriched = <<>>
  /\ alternatives = [i \in DOMAIN environment.declared |-> <<>>]
  /\ outcome = "find"

\* The declarations stay visible, unbound.
EnrichmentFails(error) ==
  /\ outcome' = error /\ enriched' = AllDeclared
  /\ lockQueue' = <<>> /\ unmatched' = <<>>
  /\ UNCHANGED <<environment, alternatives>>

AmbiguousLockfiles ==
  outcome = "find" /\ Len(environment.own) > 1 /\ EnrichmentFails("manifest")

FindLockfile ==
  /\ outcome = "find" /\ Len(environment.own) <= 1
  /\ lockQueue' = IF environment.own = <<>> THEN environment.inherited ELSE environment.own
  /\ outcome' = "open"
  /\ UNCHANGED <<environment, unmatched, enriched, alternatives>>

\* A slip: a lockfile is applied to what the one before it made.
StartCarried == IF enriched = <<>> THEN AllDeclared ELSE enriched

Start == AllDeclared

OpenLockfile ==
  /\ outcome = "open" /\ lockQueue # <<>> /\ CurrentLock.supported
  /\ unmatched' = Start /\ enriched' = <<>>
  /\ outcome' = "match"
  /\ UNCHANGED <<environment, lockQueue, alternatives>>

RefuseLockfile ==
  outcome = "open" /\ lockQueue # <<>> /\ ~CurrentLock.supported /\ EnrichmentFails("manifest")

EnrichOne ==
  /\ outcome = "match" /\ unmatched # <<>> /\ MatchError(Head(unmatched)) = "none"
  /\ enriched' = WithMatched(Head(unmatched))
  /\ unmatched' = Tail(unmatched)
  /\ UNCHANGED <<environment, lockQueue, alternatives, outcome>>

RefuseOne ==
  /\ outcome = "match" /\ unmatched # <<>> /\ MatchError(Head(unmatched)) # "none"
  /\ EnrichmentFails(MatchError(Head(unmatched)))

\* What a lockfile leaves as it was declared, or without a version, is no
\* alternative.
Merged(alts, c) ==
  IF c = AsDeclared(c.index) \/ c.version = "none" \/ Contains(alts[c.index], c) THEN alts
  ELSE [alts EXCEPT ![c.index] = Append(@, c)]

Merge(alts) ==
  LET upTo[n \in 0 .. Len(enriched)] == IF n = 0 THEN alts ELSE Merged(upTo[n - 1], enriched[n])
  IN  upTo[Len(enriched)]

KeptAlternatives(alts) == [i \in DOMAIN alts |-> IF alts[i] = <<>> THEN <<AsDeclared(i)>> ELSE alts[i]]

MergedLen(alts) == Len(FlattenSeq(KeptAlternatives(alts)))

MergeLockfile ==
  /\ outcome = "match" /\ unmatched = <<>> /\ MergedLen(Merge(alternatives)) <= MaxDeclared
  /\ alternatives' = Merge(alternatives)
  /\ lockQueue' = Tail(lockQueue) /\ outcome' = "open"
  /\ UNCHANGED <<environment, unmatched, enriched>>

TooManyAlternatives ==
  /\ outcome = "match" /\ unmatched = <<>> /\ MergedLen(Merge(alternatives)) > MaxDeclared
  /\ EnrichmentFails("limit")

EnrichmentDone ==
  /\ outcome = "open" /\ lockQueue = <<>>
  /\ enriched' = FlattenSeq(KeptAlternatives(alternatives))
  /\ outcome' = "done"
  /\ UNCHANGED <<environment, lockQueue, unmatched, alternatives>>

PythonNext ==
  \/ AmbiguousLockfiles \/ FindLockfile \/ OpenLockfile \/ RefuseLockfile \/ EnrichOne \/ RefuseOne
  \/ MergeLockfile \/ TooManyAlternatives \/ EnrichmentDone

PythonSpec == PythonInit /\ [][PythonNext]_pythonVars

-----------------------------------------------------------------------------
(* What an enrichment promises.                                            *)

Applied == IF environment.own = <<>> THEN environment.inherited ELSE environment.own

\* The record of a lockfile an outcome is due to, and no part of it to
\* another lockfile or another record.
DueTo(dep, lock, e) ==
  LET d == DeclarationOf(dep)
      hashes == {e.files[j].hash : j \in {k \in DOMAIN e.files : e.files[k].valid}}
  IN  /\ dep.lockfile = lock.path /\ e.name = d.name /\ e.version # "none"
      /\ d.form = "github" /\ lock.kind # "pipfile" => e.source \in {NoSource, d.source}
      /\ d.form = "registry" => e.version \in d.accepts
      /\ d.form \in {"url", "git"} => e.source = d.source /\ dep.source = d.source
      /\ IF d.form = "github" THEN dep.version = d.source.of
         ELSE /\ dep.version = e.version
              /\ dep.integrity \subseteq hashes
              /\ dep.integrity = {} <=> dep.registryIntegrity

\* The digests for what is declared by its URL: uv.lock lists files of several
\* URLs, and those at that URL count; the others list the files of a record,
\* and all of them count, whatever URL stands beside them (artifact.rs:105-114).
DirectDigests(lock, e, url) ==
  IF lock.kind = "uv" THEN {e.files[j].hash : j \in {k \in DOMAIN e.files : e.files[k].url = url}}
  ELSE {e.files[j].hash : j \in DOMAIN e.files}

\* Whatever lockfiles apply, in whatever order: each dependency is a
\* declaration as it was written, or what exactly one record of one of the
\* lockfiles makes of it, in version, origin and digests.  What is declared by
\* its URL gets from uv.lock only digests of files at that URL; from the other
\* lockfiles it may get the digest of any file of its record, also of one that
\* is recorded for another URL.  No declaration is lost, none that a lockfile
\* can bind is left unbound, and the limit holds.  When the enrichment fails
\* all declarations remain (python/lockfiles/mod.rs:86, discovery/python.rs:66).
PythonBoundAsRecorded ==
  /\ outcome \in {"manifest", "limit"} => enriched = AllDeclared
  /\ outcome = "done" =>
       /\ Len(enriched) <= MaxDeclared
       /\ {enriched[j].index : j \in DOMAIN enriched} = DOMAIN environment.declared
       /\ \A dep \in Range(enriched) :
            dep = AsDeclared(dep.index) \/
              \E lock \in Range(Applied) : \E e \in Range(lock.packages) :
                /\ DueTo(dep, lock, e)
                /\ DeclarationOf(dep).form = "url" => dep.integrity \subseteq DirectDigests(lock, e, dep.source.of)
                /\ \A other \in Range(lock.packages) \ {e} : ~DueTo(dep, lock, other)
       /\ \A lock \in Range(Applied) : \A i \in DOMAIN environment.declared :
            LET d == environment.declared[i]
            IN  d.form = "registry" /\ (\E e \in Range(lock.packages) : e.name = d.name)
                  => \E dep \in Range(enriched) : dep.index = i /\ dep.lockfile = lock.path
=============================================================================
