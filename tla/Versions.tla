------------------------------ MODULE Versions ------------------------------
(***************************************************************************)
(* Which releases of a package a registry query resolves to: npm, PyPI and *)
(* JSR each order, filter and pin releases in their own way, for a single  *)
(* package and for the three selections of a version diff.                 *)
(* src/fetcher/sources/{npm,pypi,jsr} and src/fetcher/orchestration.rs.    *)
(* A release is a record of its name in the response (raw), its place in   *)
(* the order of versions, whether it is a prerelease, and what the         *)
(* registry says of it; JSR says more when the release itself is asked for.*)
(***************************************************************************)
EXTENDS Integrity, TLC

CONSTANTS
  Queries,      \* the queries considered
  MaxPackages   \* limits.max_packages

VARIABLES
  query,       \* what is asked, and the response of the registry
  phase,       \* where the resolution stands, or how it ended
  candidates,  \* releases still to be pinned, in order
  checked,     \* releases looked at so far
  resolved     \* releases pinned, in order

versionVars == <<query, phase, candidates, checked, resolved>>

NotAVersion == -1

Npm == query.registry = "npm"
PyPI == query.registry = "pypi"
Jsr == query.registry = "jsr"

Releases == Range(query.releases)

Parsed(r) == r.version # NotAVersion

\* A response lists each name once, in a place of its own, and npm knows one
\* tarball per release.
ASSUME QueriesAssumption ==
  /\ MaxPackages \in Nat
  /\ \A q \in Queries :
       /\ q.registry \in {"npm", "pypi", "jsr"}
       /\ q.select \in {"newest", "last", "compare", "range", "locked"}
       /\ q.count \in Nat
       /\ q.releases \in Seq(Range(q.releases))
       /\ \A r \in Range(q.releases) :
            /\ r.version \in Nat \cup {NotAVersion} /\ r.key \in Int
            /\ r.artifacts \in Seq(Range(r.artifacts))
            /\ q.registry = "npm" => Len(r.artifacts) <= 1
       /\ \A r, s \in Range(q.releases) :
            r.raw = s.raw \/ r.key = s.key => r = s

VersionsInit ==
  /\ query \in Queries
  /\ phase = "select" /\ candidates = <<>> /\ checked = 0 /\ resolved = <<>>

VersionsFail(error) == phase' = error /\ UNCHANGED <<query, candidates, checked, resolved>>

Take(sequence) ==
  /\ phase' = "pin" /\ candidates' = sequence
  /\ UNCHANGED <<query, checked, resolved>>

-----------------------------------------------------------------------------
(* Releases that can be pinned.                                            *)

\* An npm release has a tarball and a digest that will be checked.
NpmReleaseIsPullable(r) ==
  r.artifacts # <<>> /\ r.artifacts[1].url /\ SupportedIntegrity(r.artifacts[1].expected)

\* A PyPI artifact is usable unless it is yanked or has no digest.
IsUsable(artifact) == ~artifact.yanked /\ artifact.url /\ artifact.sha256 # "none"

SourceDistributions(r) ==
  {i \in DOMAIN r.artifacts : IsUsable(r.artifacts[i]) /\ r.artifacts[i].sdist}

\* A locked release names the digests that are acceptable, or leaves it to
\* the source distribution.
LockedArtifacts(r) ==
  IF query.locked = {} THEN SourceDistributions(r)
  ELSE {i \in DOMAIN r.artifacts : IsUsable(r.artifacts[i]) /\ r.artifacts[i].sha256 \in query.locked}

Pin(r) ==
  CASE Npm  -> IF NpmReleaseIsPullable(r) THEN "ok" ELSE "gone"
    [] PyPI -> IF SourceDistributions(r) # {} THEN "ok" ELSE "gone"
    [] Jsr  -> r.answer

JsrReleasesMalformed == Jsr /\ \E r \in Releases : r.yanked = "malformed"

\* Releases a history is made of; JSR leaves out the yanked ones.
Offered(r) == Parsed(r) /\ (Jsr => r.yanked = "no")

-----------------------------------------------------------------------------
(* Selecting a release by its requirement.                                 *)

\* Greatest version; of several names for one version the last.
Newest(S) ==
  CHOOSE r \in S : \A s \in S : s.version < r.version \/ (s.version = r.version /\ s.key <= r.key)

\* A slip: the newest release that satisfies, whether or not it can be had.
SatisfyingUnpullable == {r \in Releases : Offered(r) /\ r.version \in query.accepts}

Satisfying ==
  {r \in Releases :
     /\ Offered(r) /\ r.version \in query.accepts
     /\ Npm => NpmReleaseIsPullable(r)
     /\ PyPI => SourceDistributions(r) # {}}

\* Prereleases count when the requirement names one or there is nothing else.
Finals(S) == {r \in S : ~r.pre}

Preferred == IF PyPI /\ ~query.pre /\ Finals(Satisfying) # {} THEN Finals(Satisfying) ELSE Satisfying

\* What is not a range is a tag for npm and an error for the others.
Tagged == {r \in Releases : Npm /\ r.raw = query.tag}

Selected ==
  IF query.range THEN (IF Preferred = {} THEN {} ELSE {Newest(Preferred)}) ELSE Tagged

-----------------------------------------------------------------------------
(* Candidates.                                                             *)

\* Newest first; names of one version come in any order.
NewestFirst(S) ==
  {s \in SetToSeqs(S) : \A i, j \in DOMAIN s : i < j => s[i].version >= s[j].version}

\* npm and PyPI count the candidates before, JSR as it comes to them.
TooManyCandidates(n) == ~Jsr /\ n > MaxPackages

ResolveUnlocked ==
  /\ phase = "select" /\ query.select = "newest"
  /\ IF JsrReleasesMalformed \/ Selected = {} THEN VersionsFail("resolution")
     ELSE Take(<<CHOOSE r \in Selected : TRUE>>)

Older(selected) == {r \in Releases : Offered(r) /\ r.version < selected.version}

VersionsAtOrBelow ==
  /\ phase = "select" /\ query.select = "last"
  /\ IF query.count < 2 THEN VersionsFail("configuration")
     ELSE IF JsrReleasesMalformed \/ Selected = {} THEN VersionsFail("resolution")
     ELSE LET selected == CHOOSE r \in Selected : TRUE
          IN  IF ~Parsed(selected) THEN VersionsFail("resolution")
              ELSE IF TooManyCandidates(Cardinality(Older(selected)) + 1) THEN VersionsFail("limit")
              ELSE \E older \in NewestFirst(Older(selected)) : Take(<<selected>> \o older)

\* Endpoints are published versions, the first older than the second.
Endpoint(raw) == {r \in Releases : r.raw = raw /\ Offered(r)}

EndpointsValid ==
  /\ ~JsrReleasesMalformed
  /\ \E from \in Endpoint(query.from), to \in Endpoint(query.to) :
       /\ from.version < to.version
       /\ ~Jsr => Pin(from) = "ok" /\ Pin(to) = "ok"

Version(raw) == (CHOOSE r \in Releases : r.raw = raw).version

CompareVersions ==
  /\ phase = "select" /\ query.select = "compare"
  /\ IF ~EndpointsValid THEN VersionsFail("resolution")
     ELSE Take(<<CHOOSE r \in Endpoint(query.to) : TRUE, CHOOSE r \in Endpoint(query.from) : TRUE>>)

Interval == {r \in Releases : Offered(r) /\ r.version \in Version(query.from) .. Version(query.to)}

RangeVersions ==
  /\ phase = "select" /\ query.select = "range"
  /\ IF ~EndpointsValid THEN VersionsFail("resolution")
     ELSE IF TooManyCandidates(Cardinality(Interval)) THEN VersionsFail("limit")
     ELSE \E versions \in NewestFirst(Interval) : Take(versions)

\* A locked npm release is looked up by name; a locked PyPI release is one
\* artifact of the release asked for.
ResolveLocked ==
  /\ phase = "select" /\ query.select = "locked"
  /\ LET release == {r \in Releases : r.raw = query.from}
     IN  IF release = {} THEN VersionsFail("resolution")
         ELSE LET r == CHOOSE x \in release : TRUE
              IN  IF (Npm /\ Pin(r) # "ok") \/ (PyPI /\ LockedArtifacts(r) = {})
                  THEN VersionsFail("resolution")
                  ELSE /\ resolved' = <<r>> /\ phase' = "done"
                       /\ UNCHANGED <<query, candidates, checked>>

-----------------------------------------------------------------------------
(* Pinning one candidate after the other.                                  *)

History == query.select \in {"last", "compare", "range"}

\* A release that JSR no longer has is passed over unless it was named.
MayBeGone(r) ==
  \/ query.select = "last"
  \/ query.select = "range" /\ r.raw \notin {query.from, query.to}

Enough(n) == query.select = "last" /\ n = query.count

PinCandidate ==
  /\ phase = "pin" /\ candidates # <<>>
  /\ LET r == Head(candidates)
     IN  IF Jsr /\ History /\ checked + 1 > MaxPackages THEN VersionsFail("limit")
         ELSE IF Pin(r) = "ok"
         THEN IF History /\ Len(resolved) + 1 > MaxPackages THEN VersionsFail("limit")
              ELSE /\ resolved' = Append(resolved, r)
                   /\ candidates' = IF Enough(Len(resolved) + 1) THEN <<>> ELSE Tail(candidates)
                   /\ checked' = checked + 1
                   /\ UNCHANGED <<query, phase>>
         ELSE IF Pin(r) = "gone" /\ MayBeGone(r)
         THEN /\ candidates' = Tail(candidates) /\ checked' = checked + 1
              /\ UNCHANGED <<query, phase, resolved>>
         ELSE VersionsFail("resolution")

\* A diff needs a baseline.
Pinned ==
  /\ phase = "pin" /\ candidates = <<>>
  /\ IF History /\ Len(resolved) < 2 THEN VersionsFail("resolution")
     ELSE phase' = "done" /\ UNCHANGED <<query, candidates, checked, resolved>>

VersionsNext ==
  \/ ResolveUnlocked \/ VersionsAtOrBelow \/ CompareVersions \/ RangeVersions
  \/ ResolveLocked \/ PinCandidate \/ Pinned

VersionsSpec == VersionsInit /\ [][VersionsNext]_versionVars

-----------------------------------------------------------------------------
(* What a resolution promises.                                             *)

\* A release that can be had, whatever the registry.
Obtainable(r) ==
  CASE Npm  -> \E a \in Range(r.artifacts) : a.url /\ SupportedIntegrity(a.expected)
    [] PyPI -> \E a \in Range(r.artifacts) : a.sdist /\ a.url /\ ~a.yanked /\ a.sha256 # "none"
    [] Jsr  -> r.answer = "ok" /\ r.yanked = "no"

Available(r) == Parsed(r) /\ Obtainable(r)

Between(low, high) == {r \in Releases : Available(r) /\ low < r.version /\ r.version < high}

\* The versions a requirement may resolve to, a prerelease only by wish.
Admissible ==
  LET all == {r \in Releases : r.version \in query.accepts /\ (IF Jsr THEN Offered(r) ELSE Available(r))}
  IN  IF PyPI /\ ~query.pre /\ (\E r \in all : ~r.pre) THEN {r \in all : ~r.pre} ELSE all

Highest ==
  IF query.range THEN Max({r.version : r \in Admissible})
  ELSE (CHOOSE r \in Releases : r.raw = query.tag).version

\* The last name of the newest version.
Foremost(r) ==
  /\ r \in Admissible
  /\ \A s \in Admissible : s.version < r.version \/ (s.version = r.version /\ s.key <= r.key)

Versions == [i \in DOMAIN resolved |-> resolved[i].version]

\* A resolution ends with releases that can all be had, newest first, and
\* passes over none: the newest admissible release, or from it downwards as
\* many as were asked for unless there are no more, or everything between
\* two endpoints and both of these; a history has at least two and at most
\* MaxPackages releases, and fails for their number only when it has more
\* versions than that.  A requirement is refused only when the release it
\* stands for cannot be had.
ChosenIsBest ==
  /\ phase = "done" =>
       /\ query.select # "locked" => \A r \in Range(resolved) : Obtainable(r)
       /\ \A i \in DOMAIN resolved : i > 1 => Versions[i] <= Versions[i - 1]
       /\ query.select = "newest" => Versions = <<Highest>>
       /\ History => Len(resolved) \in 2 .. MaxPackages
       /\ query.select = "last" =>
            /\ Len(resolved) <= query.count /\ Versions[1] <= Highest
            /\ Between(Versions[1], Highest) = {}
            /\ \A i \in DOMAIN resolved : i > 1 => Between(Versions[i], Versions[i - 1]) = {}
            /\ Len(resolved) < query.count => Between(NotAVersion, Last(Versions)) = {}
       /\ query.select = "compare" => <<resolved[1].raw, resolved[2].raw>> = <<query.to, query.from>>
       /\ query.select = "range" =>
            /\ {query.from, query.to} \subseteq {r.raw : r \in Range(resolved)}
            /\ Range(resolved) = {r \in Releases :
                 Available(r) /\ Version(query.from) <= r.version /\ r.version <= Version(query.to)}
            /\ IsInjective(resolved)
       /\ query.select = "locked" /\ PyPI /\ query.locked # {} =>
            \E a \in Range(resolved[1].artifacts) : a.sha256 \in query.locked /\ ~a.yanked
  /\ phase = "resolution" /\ query.select = "newest" /\ query.range /\ ~JsrReleasesMalformed =>
       \A r \in Admissible : Foremost(r) => ~Obtainable(r)
  /\ phase = "limit" => Cardinality({r \in Releases : Offered(r)}) > MaxPackages
=============================================================================
