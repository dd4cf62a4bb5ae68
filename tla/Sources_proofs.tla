--------------------------- MODULE Sources_proofs ---------------------------
(* Proofs about where packages and modules come from.  What the requests of an  *)
(* acquisition may reach and carry, for every configuration of repositories,    *)
(* hosts and credentials, every set of URLs and every dependency: a token goes  *)
(* nowhere but home.  That an archive is unpacked only when it has been         *)
(* verified, and is then on disk as a whole or not at all.  That what is        *)
(* brought of a package file by file is what its manifest lists, for every      *)
(* manifest and whatever fails, but for one file that was begun.  And that a    *)
(* graph of modules stays within its limits, closed, bound to the lockfile and  *)
(* within the policy, and is rebuilt as it was published.                       *)
EXTENDS RepositoryAccess, Extraction, JsrPackage, ModuleGraph, Lockfiles, Sums_proofs, SequenceTheorems

-----------------------------------------------------------------------------
(* What requests may reach and carry.                                          *)

\* Home, where the request is sent in stage s.
HomeIn(s) ==
  CASE wanted.kind \in {"npm", "deno-npm"} -> setup.npm
    [] wanted.kind = "python" -> IF s = "metadata" THEN setup.pypi ELSE setup.pypiArtifact
    [] wanted.kind = "jsr" -> setup.jsr
    [] OTHER -> None

NearHome(s, url) == ~LockfileDefined /\ HomeIn(s) # None /\ UrlIsWithinBase(HomeIn(s), url)

\* What is downloaded has the repository it was generated from behind it.
Provenance ==
  \/ stage = "metadata" /\ asked.url = MetadataUrl /\ asked.base = RepositoryBaseFor(MetadataUrl)
  \/ stage = "artifact" /\ asked.url \in ArtifactUrls /\ asked.base = ArtifactBase(asked.url)
  \/ stage = "file" /\ asked.base = RepositoryBaseFor(VersionUrl)

\* And no hop of it goes beyond what that repository may reach.
Confined == allowed = {u \in Urls : CheckUrl(u, asked.base)}

Given ==
  /\ setup \in Setups /\ ValidTransport(setup)
  /\ wanted \in Acquisitions
  /\ request \in Request \cup {None}
  /\ stage \in {"metadata", "artifact", "file", "done", "failed"}
  /\ stage = "metadata" => NeedsMetadata
  /\ stage = "file" => wanted.kind = "jsr"

Traced ==
  /\ asked # None => Provenance /\ Confined
  /\ request # None =>
       /\ asked # None
       /\ Permitted(request.url)
       /\ request.redirects = 0 => request.url = asked.url

IInv == Given /\ Traced /\ RequestsAuthorised

-----------------------------------------------------------------------------
(* Repositories.                                                               *)

\* The configured repositories are places without escapes.
LEMMA Configured ==
  ASSUME Given
  PROVE  /\ setup.npm \in Bases /\ setup.pypi \in Bases /\ setup.pypiArtifact \in Bases /\ setup.jsr \in Bases
         /\ \A b \in Bases : b \in Places /\ b # None /\ ~b.escaped
         /\ IsFiniteSet(Bases)
         /\ setup.credentials \in Seq([scope: Places, token: STRING \ {NoToken, Unavailable}, available: BOOLEAN])
         /\ wanted.kind \in Kinds /\ wanted.segments \in Seq(STRING) /\ wanted.escaped \in BOOLEAN
         /\ wanted.source \in Places \cup {None}
<1>1. setup \in Setups /\ wanted \in Acquisitions /\ ValidTransport(setup)
  BY DEF Given
<1>2. Bases = {setup.npm, setup.pypi, setup.pypiArtifact, setup.jsr}
  BY DEF Bases
<1>3. Bases \subseteq Places /\ None \notin Places
  BY <1>1, <1>2, AccessAssumption
<1>4. \A b \in Bases : ~b.escaped
  BY <1>1, <1>2 DEF ValidTransport
<1>5. IsFiniteSet(Bases)
  <2>1. IsFiniteSet({})
    BY FS_EmptySet
  <2>2. IsFiniteSet({} \cup {setup.npm})
    BY <2>1, FS_AddElement
  <2>3. IsFiniteSet(({} \cup {setup.npm}) \cup {setup.pypi})
    BY <2>2, FS_AddElement
  <2>4. IsFiniteSet((({} \cup {setup.npm}) \cup {setup.pypi}) \cup {setup.pypiArtifact})
    BY <2>3, FS_AddElement
  <2>5. IsFiniteSet(((({} \cup {setup.npm}) \cup {setup.pypi}) \cup {setup.pypiArtifact}) \cup {setup.jsr})
    BY <2>4, FS_AddElement
  <2>6. Bases = ((({} \cup {setup.npm}) \cup {setup.pypi}) \cup {setup.pypiArtifact}) \cup {setup.jsr}
    BY <1>2
  <2> QED
    BY <2>5, <2>6
<1>6. setup.credentials \in Seq([scope: Places, token: STRING \ {NoToken, Unavailable}, available: BOOLEAN])
  BY <1>1, AccessAssumption
<1>7. /\ wanted.kind \in Kinds /\ wanted.segments \in Seq(STRING) /\ wanted.escaped \in BOOLEAN
      /\ wanted.source \in Places \cup {None}
  BY <1>1, AccessAssumption
<1> QED
  BY <1>2, <1>3, <1>4, <1>5, <1>6, <1>7

\* Any repository that a URL is given is one that contains it.
LEMMA RepositoryContains ==
  ASSUME Given, NEW url, RepositoryBaseFor(url) # None
  PROVE  RepositoryBaseFor(url) \in Bases /\ UrlIsWithinBase(RepositoryBaseFor(url), url)
<1> DEFINE around == {b \in Bases : UrlIsWithinBase(b, url)}
           f == [b \in around |-> Len(b.path)]
<1>1. RepositoryBaseFor(url) = Deepest(around)
  BY DEF RepositoryBaseFor
<1>2. around # {} /\ Deepest(around) = CHOOSE u \in around : \A v \in around : Len(v.path) <= Len(u.path)
  BY <1>1 DEF Deepest
<1>3. IsFiniteSet(around)
  <2>1. around \subseteq Bases
    OBVIOUS
  <2> HIDE DEF around
  <2> QED
    BY <2>1, Configured, FS_Subset
<1>4. \A b \in around : Len(b.path) \in Nat
  BY Configured DEF Places
<1>5. \E u \in around : \A v \in around : Len(v.path) <= Len(u.path)
  <2>1. \A b \in around : f[b] = Len(b.path) /\ f[b] \in Nat
    BY <1>4
  <2> HIDE DEF around, f
  <2>2. \E u \in around : \A v \in around : f[v] <= f[u]
    BY <1>2, <1>3, <1>4, <2>1, Largest
  <2> QED
    BY <2>1, <2>2
<1>6. Deepest(around) \in around
  <2> HIDE DEF around
  <2> QED
    BY <1>2, <1>5
<1> QED
  BY <1>1, <1>6

\* Where a repository contains a URL there is such a one, and it is at least as deep.
LEMMA RepositoryFound ==
  ASSUME Given, NEW url, NEW home \in Bases, UrlIsWithinBase(home, url)
  PROVE  RepositoryBaseFor(url) # None /\ Len(home.path) <= Len(RepositoryBaseFor(url).path)
<1> DEFINE around == {b \in Bases : UrlIsWithinBase(b, url)}
           f == [b \in around |-> Len(b.path)]
<1>1. RepositoryBaseFor(url) = Deepest(around) /\ home \in around
  BY DEF RepositoryBaseFor
<1>2. around # {} /\ Deepest(around) = CHOOSE u \in around : \A v \in around : Len(v.path) <= Len(u.path)
  BY <1>1 DEF Deepest
<1>3. IsFiniteSet(around)
  <2>1. around \subseteq Bases
    OBVIOUS
  <2> HIDE DEF around
  <2> QED
    BY <2>1, Configured, FS_Subset
<1>4. \A b \in around : Len(b.path) \in Nat /\ b # None
  BY Configured DEF Places
<1>5. \E u \in around : \A v \in around : Len(v.path) <= Len(u.path)
  <2>1. \A b \in around : f[b] = Len(b.path) /\ f[b] \in Nat
    BY <1>4
  <2> HIDE DEF around, f
  <2>2. \E u \in around : \A v \in around : f[v] <= f[u]
    BY <1>2, <1>3, <1>4, <2>1, Largest
  <2> QED
    BY <2>1, <2>2
<1>6. Deepest(around) \in around /\ \A v \in around : Len(v.path) <= Len(Deepest(around).path)
  <2> HIDE DEF around
  <2> QED
    BY <1>2, <1>5
<1> QED
  BY <1>1, <1>4, <1>6

\* A download on behalf of the deepest repository around a URL stays within each
\* repository around it.
LEMMA StaysWithin ==
  ASSUME Given, NEW url \in Places, NEW home \in Bases, UrlIsWithinBase(home, url),
         NEW hop \in Places, UrlIsWithinBase(RepositoryBaseFor(url), hop)
  PROVE  UrlIsWithinBase(home, hop)
<1> DEFINE base == RepositoryBaseFor(url)
<1>1. base # None /\ Len(home.path) <= Len(base.path)
  BY RepositoryFound
<1>2. base \in Bases /\ UrlIsWithinBase(base, url)
  BY <1>1, RepositoryContains
<1> HIDE DEF base
<1>3. /\ home \in Places /\ base \in Places
  BY <1>2, Configured
<1>4. /\ home.path \in Seq(STRING) /\ base.path \in Seq(STRING)
      /\ url.path \in Seq(STRING) /\ hop.path \in Seq(STRING)
  BY <1>3 DEF Places
<1>5. UrlIsWithinBase(base, hop)
  BY DEF base
<1>6. IsPrefix(home.path, hop.path)
  BY <1>1, <1>2, <1>4, <1>5, Nested DEF UrlIsWithinBase
<1> QED
  BY <1>2, <1>5, <1>6 DEF UrlIsWithinBase

\* The URL of a package is within the repository it is made from, unless its name is
\* escaped.
LEMMA PackageWithin ==
  ASSUME Given, NEW base \in Bases
  PROVE  /\ PackageUrl(base) \in Places
         /\ ~PackageUrl(base).escaped => UrlIsWithinBase(base, PackageUrl(base))
<1>1. base \in Places /\ ~base.escaped /\ wanted.segments \in Seq(STRING) /\ wanted.escaped \in BOOLEAN
  BY Configured
<1>2. /\ base.scheme \in STRING /\ base.host \in Seq(STRING) /\ base.path \in Seq(STRING)
      /\ base.escaped \in BOOLEAN /\ base.user \in BOOLEAN
  BY <1>1 DEF Places
<1>3. PackageUrl(base) = [scheme |-> base.scheme, host |-> base.host, path |-> base.path \o wanted.segments,
                          escaped |-> (base.escaped \/ wanted.escaped), user |-> base.user]
  <2> DEFINE path == base.path \o wanted.segments
             escaped == base.escaped \/ wanted.escaped
  <2>1. PackageUrl(base) = [base EXCEPT !.path = path, !.escaped = escaped]
    BY DEF PackageUrl
  <2> HIDE DEF path, escaped
  <2>2. PackageUrl(base) = [scheme |-> base.scheme, host |-> base.host, path |-> path,
                            escaped |-> escaped, user |-> base.user]
    BY <1>1, <2>1 DEF Places
  <2> QED
    BY <2>2 DEF path, escaped
<1>4. base.path \o wanted.segments \in Seq(STRING) /\ IsPrefix(base.path, base.path \o wanted.segments)
  BY <1>1, <1>2, Begins
<1>5. (base.escaped \/ wanted.escaped) \in BOOLEAN
  OBVIOUS
<1>6. PackageUrl(base) \in Places
  BY <1>2, <1>3, <1>4, <1>5 DEF Places
<1> QED
  BY <1>1, <1>3, <1>4, <1>6 DEF UrlIsWithinBase

\* So is the metadata of a JSR version.
LEMMA VersionWithin ==
  ASSUME Given
  PROVE  /\ VersionUrl \in Places
         /\ ~VersionUrl.escaped => UrlIsWithinBase(setup.jsr, VersionUrl)
<1> DEFINE url == PackageUrl(setup.jsr)
<1>1. setup.jsr \in Bases /\ setup.jsr \in Places /\ ~setup.jsr.escaped
  BY Configured
<1>2. url \in Places /\ (~url.escaped => UrlIsWithinBase(setup.jsr, url))
  BY <1>1, PackageWithin
<1>3. VersionUrl = [url EXCEPT !.path = Append(@, VersionMetadata)]
  BY DEF VersionUrl
<1> HIDE DEF url
<1>4. /\ url.scheme \in STRING /\ url.host \in Seq(STRING) /\ url.path \in Seq(STRING)
      /\ url.escaped \in BOOLEAN /\ url.user \in BOOLEAN
  BY <1>2 DEF Places
<1>5. VersionUrl = [scheme |-> url.scheme, host |-> url.host, path |-> Append(url.path, VersionMetadata),
                    escaped |-> url.escaped, user |-> url.user]
  BY <1>2, <1>3 DEF Places
<1>6. VersionMetadata \in STRING /\ <<VersionMetadata>> \in Seq(STRING)
  BY AccessAssumption
<1>7. Append(url.path, VersionMetadata) = url.path \o <<VersionMetadata>>
  BY <1>4, <1>6
<1>8. Append(url.path, VersionMetadata) \in Seq(STRING) /\ IsPrefix(url.path, Append(url.path, VersionMetadata))
  BY <1>4, <1>6, <1>7, Begins
<1>9. VersionUrl \in Places
  BY <1>4, <1>5, <1>8 DEF Places
<1>10. ASSUME ~VersionUrl.escaped PROVE UrlIsWithinBase(setup.jsr, VersionUrl)
  <2>1. UrlIsWithinBase(setup.jsr, url)
    BY <1>2, <1>5, <1>10
  <2>2. setup.jsr.path \in Seq(STRING)
    BY <1>1 DEF Places
  <2>3. IsPrefix(setup.jsr.path, url.path) /\ IsPrefix(url.path, url.path) /\ Len(setup.jsr.path) <= Len(url.path)
    BY <1>4, <2>1, <2>2, PrefixIs DEF UrlIsWithinBase
  <2>4. IsPrefix(setup.jsr.path, Append(url.path, VersionMetadata))
    BY <1>4, <1>8, <2>2, <2>3, Nested
  <2> QED
    BY <1>5, <1>10, <2>1, <2>4 DEF UrlIsWithinBase
<1> QED
  BY <1>9, <1>10

-----------------------------------------------------------------------------
(* Homes.                                                                      *)

\* Wherever a download may be on behalf of a repository, it is at home.
LEMMA HomeIsNear ==
  ASSUME Given, Provenance, asked.base # None, NEW hop \in Places, UrlIsWithinBase(asked.base, hop)
  PROVE  NearHome(stage, hop)
<1>1. /\ wanted.kind \in Kinds
      /\ setup.npm \in Bases /\ setup.pypi \in Bases /\ setup.pypiArtifact \in Bases /\ setup.jsr \in Bases
      /\ \A b \in Bases : b \in Places /\ b # None
  BY Configured
<1>2. CASE stage = "metadata" /\ asked.url = MetadataUrl /\ asked.base = RepositoryBaseFor(MetadataUrl)
  <2> DEFINE home == IF wanted.kind = "python" THEN setup.pypi ELSE setup.npm
  <2>1. NeedsMetadata
    BY <1>2 DEF Given
  <2>2. ~LockfileDefined /\ wanted.kind \in {"npm", "deno-npm", "python"}
    BY <2>1 DEF NeedsMetadata, LockfileDefined
  <2>3. HomeIn(stage) = home /\ home \in Bases /\ MetadataUrl = PackageUrl(home)
    BY <1>1, <1>2, <2>2 DEF HomeIn, MetadataUrl
  <2> HIDE DEF home
  <2>4. MetadataUrl \in Places /\ (~MetadataUrl.escaped => UrlIsWithinBase(home, MetadataUrl))
    BY <2>3, PackageWithin
  <2>5. UrlIsWithinBase(RepositoryBaseFor(MetadataUrl), MetadataUrl)
    BY <1>2, RepositoryContains
  <2>6. UrlIsWithinBase(home, MetadataUrl)
    BY <2>4, <2>5 DEF UrlIsWithinBase
  <2>7. UrlIsWithinBase(home, hop)
    BY <1>2, <2>3, <2>4, <2>6, StaysWithin
  <2> QED
    BY <1>1, <2>2, <2>3, <2>7 DEF NearHome
<1>3. ASSUME wanted.kind = "jsr", asked.base = RepositoryBaseFor(VersionUrl) PROVE NearHome(stage, hop)
  <2>1. VersionUrl \in Places /\ (~VersionUrl.escaped => UrlIsWithinBase(setup.jsr, VersionUrl))
    BY VersionWithin
  <2>2. UrlIsWithinBase(RepositoryBaseFor(VersionUrl), VersionUrl)
    BY <1>3, RepositoryContains
  <2>3. UrlIsWithinBase(setup.jsr, VersionUrl)
    BY <2>1, <2>2 DEF UrlIsWithinBase
  <2>4. UrlIsWithinBase(setup.jsr, hop)
    BY <1>1, <1>3, <2>1, <2>3, StaysWithin
  <2>5. ~LockfileDefined /\ HomeIn(stage) = setup.jsr
    BY <1>3 DEF LockfileDefined, HomeIn
  <2> QED
    BY <1>1, <2>4, <2>5 DEF NearHome
<1>4. CASE stage = "file" /\ asked.base = RepositoryBaseFor(VersionUrl)
  BY <1>3, <1>4 DEF Given
<1>5. CASE stage = "artifact" /\ asked.url \in ArtifactUrls /\ asked.base = ArtifactBase(asked.url)
  <2>1. CASE FromRegistry
    <3>1. ~LockfileDefined /\ HomeIn(stage) = setup.npm /\ asked.base = setup.npm
      BY <1>5, <2>1 DEF FromRegistry, HomeIn, ArtifactBase
    <3> QED
      BY <1>1, <3>1 DEF NearHome
  <2>2. CASE ~FromRegistry /\ wanted.kind = "jsr"
    <3>1. asked.url = VersionUrl /\ asked.base = RepositoryBaseFor(asked.url)
      BY <1>5, <2>2 DEF ArtifactUrls, ArtifactBase
    <3> QED
      BY <1>3, <2>2, <3>1
  <2>3. CASE ~FromRegistry /\ wanted.kind # "jsr"
    <3>1. /\ wanted.kind = "python" /\ ~LockfileDefined /\ UrlIsWithinBase(setup.pypiArtifact, asked.url)
          /\ asked.base = RepositoryBaseFor(asked.url)
      BY <1>5, <2>3 DEF ArtifactBase
    <3>2. asked.url \in Places
      <4>1. CASE NeedsMetadata
        BY <1>5, <2>3, <4>1, AccessAssumption DEF ArtifactUrls
      <4>2. CASE ~NeedsMetadata
        <5>1. asked.url = wanted.source /\ wanted.source # None
          BY <1>5, <2>3, <3>1, <4>2 DEF ArtifactUrls, NeedsMetadata
        <5> QED
          BY <5>1, Configured
      <4> QED
        BY <4>1, <4>2
    <3>3. UrlIsWithinBase(setup.pypiArtifact, hop)
      BY <1>1, <3>1, <3>2, StaysWithin
    <3>4. HomeIn(stage) = setup.pypiArtifact
      BY <1>5, <3>1 DEF HomeIn
    <3> QED
      BY <1>1, <3>1, <3>3, <3>4 DEF NearHome
  <2> QED
    BY <2>1, <2>2, <2>3
<1> QED
  BY <1>2, <1>4, <1>5 DEF Provenance

\* And what is asked for first is asked on behalf of a repository, where it is at home.
LEMMA HomeIsBehind ==
  ASSUME Given, Provenance, stage # "file", NearHome(stage, asked.url)
  PROVE  asked.base # None /\ UrlIsWithinBase(asked.base, asked.url)
<1>1. /\ wanted.kind \in Kinds
      /\ setup.npm \in Bases /\ setup.pypi \in Bases /\ setup.pypiArtifact \in Bases /\ setup.jsr \in Bases
      /\ \A b \in Bases : b \in Places /\ b # None
  BY Configured
<1>2. ~LockfileDefined /\ HomeIn(stage) # None /\ UrlIsWithinBase(HomeIn(stage), asked.url)
  BY DEF NearHome
<1>3. HomeIn(stage) \in Bases
  BY <1>1, <1>2 DEF HomeIn
<1>4. RepositoryBaseFor(asked.url) # None /\ UrlIsWithinBase(RepositoryBaseFor(asked.url), asked.url)
  <2>1. RepositoryBaseFor(asked.url) # None
    BY <1>2, <1>3, RepositoryFound
  <2> QED
    BY <2>1, RepositoryContains
<1>5. CASE stage = "metadata" /\ asked.url = MetadataUrl /\ asked.base = RepositoryBaseFor(MetadataUrl)
  BY <1>4, <1>5
<1>6. CASE stage = "artifact" /\ asked.base = ArtifactBase(asked.url)
  <2>1. CASE FromRegistry
    <3>1. HomeIn(stage) = setup.npm /\ asked.base = setup.npm
      BY <1>6, <2>1 DEF FromRegistry, HomeIn, ArtifactBase
    <3> QED
      BY <1>1, <1>2, <3>1
  <2>2. CASE ~FromRegistry
    <3>1. wanted.kind \in {"jsr", "python"}
      BY <1>1, <1>2, <2>2 DEF FromRegistry, Kinds, LockfileDefined
    <3>2. wanted.kind = "python" => UrlIsWithinBase(setup.pypiArtifact, asked.url)
      BY <1>2, <1>6 DEF HomeIn
    <3>3. asked.base = RepositoryBaseFor(asked.url)
      BY <1>2, <1>6, <2>2, <3>1, <3>2 DEF ArtifactBase
    <3> QED
      BY <1>4, <3>3
  <2> QED
    BY <2>1, <2>2
<1> QED
  BY <1>5, <1>6 DEF Provenance

-----------------------------------------------------------------------------
(* Credentials.                                                                *)

\* The token of a request is that of a narrowest scope around it, and there is one
\* where there is a scope.
LEMMA TokenIs ==
  ASSUME Given, NEW url
  PROVE  LET scopes == {c \in ToSet(setup.credentials) : Matches(c, url)}
         IN  /\ AuthorizationFor(url) \notin {NoToken, Unavailable} =>
                  \E c \in scopes : /\ c.token = AuthorizationFor(url)
                                    /\ \A d \in scopes : Len(d.scope.path) <= Len(c.scope.path)
             /\ scopes # {} => AuthorizationFor(url) # NoToken
<1> DEFINE credentials == setup.credentials
           Credential == [scope: Places, token: STRING \ {NoToken, Unavailable}, available: BOOLEAN]
           scopes == {c \in ToSet(credentials) : Matches(c, url)}
           matching == {i \in DOMAIN credentials : Matches(credentials[i], url)}
           depth(i) == Len(credentials[i].scope.path)
           deepest == {i \in matching : \A j \in matching : depth(j) <= depth(i)}
           f == [i \in matching |-> depth(i)]
           g == [i \in deepest |-> i]
<1>1. credentials \in Seq(Credential)
  BY Configured
<1>2. /\ AuthorizationFor(url) =
           IF matching = {} THEN NoToken
           ELSE IF credentials[Max(deepest)].available THEN credentials[Max(deepest)].token
           ELSE Unavailable
      /\ Max(deepest) = CHOOSE x \in deepest : \A y \in deepest : x >= y
  BY DEF AuthorizationFor, Max
<1>3. \A i \in matching : i \in Nat /\ credentials[i] \in Credential /\ credentials[i] \in scopes
  <2> TAKE i \in matching
  <2>1. i \in DOMAIN credentials /\ Matches(credentials[i], url)
    OBVIOUS
  <2>2. i \in Nat /\ credentials[i] \in Credential
    <3> HIDE DEF credentials, Credential, matching
    <3> QED
      BY <1>1, <2>1
  <2>3. credentials[i] \in ToSet(credentials)
    BY <2>1 DEF ToSet
  <2> QED
    BY <2>1, <2>2, <2>3
<1>4. \A i \in matching : depth(i) \in Nat
  <2> TAKE i \in matching
  <2>1. credentials[i].scope \in Places
    BY <1>3
  <2>2. credentials[i].scope.path \in Seq(STRING)
    BY <2>1 DEF Places
  <2> QED
    BY <2>2
<1>5. IsFiniteSet(matching) /\ IsFiniteSet(deepest)
  <2>1. DOMAIN credentials = 1 .. Len(credentials) /\ Len(credentials) \in Nat
    BY <1>1
  <2>2. IsFiniteSet(DOMAIN credentials)
    <3>1. \A n \in Nat : IsFiniteSet(1 .. n)
      BY FS_Interval
    <3> QED
      BY <2>1, <3>1
  <2>3. matching \subseteq DOMAIN credentials /\ deepest \subseteq DOMAIN credentials
    OBVIOUS
  <2> HIDE DEF matching, deepest
  <2> QED
    BY <2>2, <2>3, FS_Subset
<1>6. scopes # {} => matching # {}
  BY DEF ToSet
<1>7. matching # {} => deepest # {}
  <2>1. \A i \in matching : f[i] = depth(i) /\ f[i] \in Nat
    BY <1>4
  <2>2. ASSUME matching # {} PROVE \E i \in matching : \A j \in matching : f[j] <= f[i]
    <3> HIDE DEF matching, f
    <3> QED
      BY <1>5, <2>1, <2>2, Largest
  <2> QED
    BY <2>1, <2>2
<1>8. matching # {} => Max(deepest) \in deepest
  <2>1. \A i \in deepest : g[i] = i /\ g[i] \in Nat
    BY <1>3
  <2>2. ASSUME deepest # {} PROVE \E i \in deepest : \A j \in deepest : i >= j
    <3> HIDE DEF deepest, g
    <3>1. \E i \in deepest : \A j \in deepest : g[j] <= g[i]
      BY <1>5, <2>1, <2>2, Largest
    <3> QED
      BY <2>1, <3>1
  <2> HIDE DEF deepest
  <2> QED
    BY <1>2, <1>7, <2>2
<1>9. ASSUME matching # {}
      PROVE  LET c == credentials[Max(deepest)]
             IN  /\ c \in scopes /\ c \in Credential
                 /\ \A d \in scopes : Len(d.scope.path) <= Len(c.scope.path)
  <2>1. Max(deepest) \in matching /\ \A j \in matching : depth(j) <= depth(Max(deepest))
    BY <1>8, <1>9
  <2>2. \A d \in scopes : \E j \in matching : d = credentials[j]
    BY DEF ToSet
  <2> QED
    BY <1>3, <2>1, <2>2
<1> HIDE DEF matching, deepest, scopes, credentials
<1>10. ASSUME AuthorizationFor(url) \notin {NoToken, Unavailable}
       PROVE  \E c \in scopes : /\ c.token = AuthorizationFor(url)
                                /\ \A d \in scopes : Len(d.scope.path) <= Len(c.scope.path)
  <2>1. matching # {} /\ AuthorizationFor(url) = credentials[Max(deepest)].token
    BY <1>2, <1>10
  <2> QED
    BY <1>9, <2>1
<1>11. ASSUME scopes # {} PROVE AuthorizationFor(url) # NoToken
  <2>1. matching # {}
    BY <1>6, <1>11
  <2>2. credentials[Max(deepest)].token # NoToken
    BY <1>9, <2>1
  <2>3. Unavailable # NoToken
    BY DEF Unavailable, NoToken
  <2> QED
    BY <1>2, <2>1, <2>2, <2>3
<1> QED
  BY <1>10, <1>11 DEF scopes, credentials

-----------------------------------------------------------------------------
(* Steps.                                                                      *)

\* What the operators say depends on the configuration and the dependency only.
LEMMA SameConfiguration ==
  ASSUME setup' = setup, wanted' = wanted
  PROVE  /\ Bases' = Bases /\ NeedsMetadata' = NeedsMetadata /\ LockfileDefined' = LockfileDefined
         /\ MetadataUrl' = MetadataUrl /\ VersionUrl' = VersionUrl /\ ArtifactUrls' = ArtifactUrls
         /\ \A url : /\ RepositoryBaseFor(url)' = RepositoryBaseFor(url)
                     /\ ArtifactBase(url)' = ArtifactBase(url)
         /\ \A url, base : CheckUrl(url, base)' = CheckUrl(url, base)
         /\ ValidTransport(setup)' = ValidTransport(setup)
<1>1. Bases' = Bases
  BY DEF Bases
<1>2. NeedsMetadata' = NeedsMetadata /\ LockfileDefined' = LockfileDefined /\ FromRegistry' = FromRegistry
  BY DEF NeedsMetadata, LockfileDefined, FromRegistry
<1>3. MetadataUrl' = MetadataUrl /\ VersionUrl' = VersionUrl
  BY DEF MetadataUrl, VersionUrl, PackageUrl
<1>4. ArtifactUrls' = ArtifactUrls
  BY <1>2, <1>3 DEF ArtifactUrls
<1>5. \A url : RepositoryBaseFor(url)' = RepositoryBaseFor(url)
  BY <1>1 DEF RepositoryBaseFor
<1>6. \A url : ArtifactBase(url)' = ArtifactBase(url)
  BY <1>2, <1>5 DEF ArtifactBase
<1>7. \A url, base : CheckUrl(url, base)' = CheckUrl(url, base)
  BY DEF CheckUrl, HostIsAllowed
<1>8. ValidTransport(setup)' = ValidTransport(setup)
  BY DEF ValidTransport
<1> QED
  BY <1>1, <1>2, <1>3, <1>4, <1>5, <1>6, <1>7, <1>8

\* The configuration of an acquisition stays, and its request is one.
LEMMA GivenKept ==
  ASSUME Given, setup' = setup, wanted' = wanted, request' \in Request \cup {None},
         stage' \in {"metadata", "artifact", "file", "done", "failed"},
         stage' = "metadata" => stage = "metadata", stage' = "file" => wanted.kind = "jsr"
  PROVE  Given'
BY SameConfiguration DEF Given

\* What was traced is still, where the download stays the same.
LEMMA StillTraced ==
  ASSUME asked # None => Provenance /\ Confined,
         setup' = setup, wanted' = wanted, stage' = stage, asked' = asked, allowed' = allowed
  PROVE  (asked # None => Provenance /\ Confined)'
<1> SUFFICES ASSUME asked # None PROVE Provenance' /\ Confined'
  OBVIOUS
<1>1. Provenance'
  BY SameConfiguration DEF Provenance
<1>2. Confined'
  BY SameConfiguration DEF Confined
<1> QED
  BY <1>1, <1>2

\* A request that was in order is so whatever happens next.
LEMMA StillAuthorised ==
  ASSUME RequestsAuthorised, setup' = setup, wanted' = wanted, sent' = sent
  PROVE  RequestsAuthorised'
<1>1. Home' = Home /\ LockfileDefined' = LockfileDefined /\ Scopes' = Scopes
  BY DEF Home, LockfileDefined, Scopes
<1>2. AtHome' = AtHome
  BY <1>1 DEF AtHome
<1>3. \A host : HostIsAllowed(host)' = HostIsAllowed(host)
  BY DEF HostIsAllowed
<1> QED
  BY <1>1, <1>2, <1>3 DEF RequestsAuthorised

\* Every request that is sent is in order.
LEMMA Sending ==
  ASSUME Given, Traced, SendIt, setup' = setup, wanted' = wanted
  PROVE  RequestsAuthorised'
<1> DEFINE url == request.url
           token == Authorization
           direct == request.redirects = 0
           scopes == {c \in ToSet(setup.credentials) : Matches(c, url)}
<1>1. /\ asked # None /\ Provenance /\ url \in Urls /\ url \in Places /\ CheckUrl(url, asked.base)
      /\ direct => url = asked.url
  <2>1. request # None /\ request \in Request
    BY DEF SendIt, Given
  <2>2. asked # None /\ Provenance /\ Confined /\ Permitted(url) /\ (direct => url = asked.url)
    BY <2>1 DEF Traced
  <2>3. url \in Urls /\ url \in Places
    BY <2>1, AccessAssumption DEF Request
  <2> QED
    BY <2>2, <2>3 DEF Confined, Permitted
<1>2. sent' = [url |-> url, token |-> token, stage |-> stage, direct |-> direct] /\ token # Unavailable
  BY DEF SendIt
<1>3. token # NoToken => /\ asked.base # None /\ UrlIsWithinBase(asked.base, url)
                         /\ token = AuthorizationFor(url)
  BY DEF Authorization, RequestAuthority
<1>4. asked.base # None /\ UrlIsWithinBase(asked.base, url) => token = AuthorizationFor(url)
  BY DEF Authorization, RequestAuthority
<1>5. asked.base # None /\ UrlIsWithinBase(asked.base, url) => NearHome(stage, url)
  BY <1>1, HomeIsNear
<1>6. direct /\ stage # "file" /\ NearHome(stage, url) => asked.base # None /\ UrlIsWithinBase(asked.base, url)
  BY <1>1, HomeIsBehind
<1>7. /\ AuthorizationFor(url) \notin {NoToken, Unavailable} =>
           \E c \in scopes : /\ c.token = AuthorizationFor(url)
                             /\ \A d \in scopes : Len(d.scope.path) <= Len(c.scope.path)
      /\ scopes # {} => AuthorizationFor(url) # NoToken
  BY TokenIs
<1>8. scopes # {} => url.scheme = "https"
  BY DEF Matches
<1>9. HostIsAllowed(url.host) /\ (url.scheme = "http" => setup.allowInsecureHttp /\ NearHome(stage, url))
  BY <1>1, <1>5 DEF CheckUrl
<1> HIDE DEF url, token, direct, scopes
<1>10. sent'.url = url /\ sent'.token = token /\ sent'.stage = stage /\ sent'.direct = direct
  BY <1>2
<1>11. AtHome' <=> NearHome(stage, url)
  <2>1. Home' = HomeIn(stage) /\ LockfileDefined' = LockfileDefined
    BY <1>10, SameConfiguration DEF Home, HomeIn
  <2> QED
    BY <1>10, <2>1 DEF AtHome, NearHome
<1>12. Scopes' = scopes
  BY <1>10 DEF Scopes, scopes, url
<1>13. HostIsAllowed(sent.url.host)'
  BY <1>9, <1>10 DEF HostIsAllowed
<1>14. (sent.url.scheme = "http")' => setup'.allowInsecureHttp /\ AtHome'
  BY <1>9, <1>10, <1>11
<1>15. ASSUME token # NoToken
       PROVE  /\ url.scheme = "https" /\ AtHome'
              /\ \E c \in scopes : c.token = token /\ \A d \in scopes : Len(d.scope.path) <= Len(c.scope.path)
  BY <1>2, <1>3, <1>5, <1>7, <1>8, <1>11, <1>15
<1>16. ASSUME direct, stage # "file", AtHome', scopes # {} PROVE token # NoToken
  BY <1>4, <1>6, <1>7, <1>11, <1>16
<1> QED
  BY <1>10, <1>12, <1>13, <1>14, <1>15, <1>16 DEF RequestsAuthorised

\* The invariant holds at the start, where nothing is asked for.
LEMMA InductiveInit == AccessInit => IInv
<1> SUFFICES ASSUME AccessInit PROVE IInv
  OBVIOUS
<1>1. request = None /\ asked = None /\ sent = None
  BY DEF AccessInit, DownloadInit
<1>2. Given
  BY <1>1 DEF Given, AccessInit
<1> QED
  BY <1>1, <1>2 DEF IInv, Traced, RequestsAuthorised

\* A download that begins is traced to the repository it is begun with.
LEMMA BeginStep ==
  ASSUME IInv, BeginMetadata \/ BeginArtifact \/ BeginFile
  PROVE  IInv'
<1> DEFINE Behind(url, base) ==
             \/ stage = "metadata" /\ url = MetadataUrl /\ base = RepositoryBaseFor(MetadataUrl)
             \/ stage = "artifact" /\ url \in ArtifactUrls /\ base = ArtifactBase(url)
             \/ stage = "file" /\ base = RepositoryBaseFor(VersionUrl)
<1>1. PICK url, base : Begin(url, base) /\ Behind(url, base)
  BY DEF BeginMetadata, BeginArtifact, BeginFile
<1>2. /\ request' = None /\ asked'.url = url /\ asked'.base = base
      /\ allowed' = {u \in Urls : CheckUrl(u, base)}
      /\ setup' = setup /\ wanted' = wanted /\ stage' = stage /\ sent' = sent
  BY <1>1 DEF Begin
<1>3. Given'
  <2>1. stage \in {"metadata", "artifact", "file", "done", "failed"} /\ (stage = "file" => wanted.kind = "jsr")
    BY DEF IInv, Given
  <2> QED
    BY <1>2, <2>1, GivenKept DEF IInv
<1>4. Provenance'
  BY <1>1, <1>2, SameConfiguration DEF Provenance
<1>5. Confined'
  BY <1>2, SameConfiguration DEF Confined
<1>6. RequestsAuthorised'
  BY <1>2, StillAuthorised DEF IInv
<1> QED
  BY <1>2, <1>3, <1>4, <1>5, <1>6 DEF IInv, Traced

\* The request starts at the URL the download is of.
LEMMA AskStep ==
  ASSUME IInv, AskForIt
  PROVE  IInv'
<1>1. /\ asked # None /\ Permitted(asked.url)
      /\ request' = [from |-> asked.url, url |-> asked.url, redirects |-> 0] /\ allowed' = allowed
      /\ setup' = setup /\ wanted' = wanted /\ stage' = stage /\ asked' = asked /\ sent' = sent
  BY DEF AskForIt, Ask
<1>2. Confined /\ Provenance
  BY <1>1 DEF IInv, Traced
<1>3. asked.url \in Urls
  BY <1>1, <1>2 DEF Confined, Permitted
<1>4. request' \in Request
  BY <1>1, <1>3, DownloadAssumption DEF Request
<1>5. Given'
  <2>1. stage \in {"metadata", "artifact", "file", "done", "failed"} /\ (stage = "file" => wanted.kind = "jsr")
    BY DEF IInv, Given
  <2> QED
    BY <1>1, <1>4, <2>1, GivenKept DEF IInv
<1>6. (asked # None => Provenance /\ Confined)'
  BY <1>1, <1>2, StillTraced
<1>7. (request # None => asked # None /\ Permitted(request.url) /\ (request.redirects = 0 => request.url = asked.url))'
  BY <1>1 DEF Permitted
<1>8. RequestsAuthorised'
  BY <1>1, StillAuthorised DEF IInv
<1> QED
  BY <1>5, <1>6, <1>7, <1>8 DEF IInv, Traced

\* A redirect is another request of the same download.
LEMMA RedirectedStep ==
  ASSUME IInv, Redirected
  PROVE  IInv'
<1>1. PICK target \in Urls : Redirect(target)
  BY DEF Redirected
<1>2. /\ request # None /\ Permitted(target) /\ request.redirects < MaxRedirects
      /\ request' = [request EXCEPT !.url = target, !.redirects = @ + 1] /\ allowed' = allowed
      /\ setup' = setup /\ wanted' = wanted /\ stage' = stage /\ asked' = asked
  BY <1>1 DEF Redirected, Redirect, Send
<1>3. request \in Request
  BY <1>2 DEF IInv, Given
<1>4. request' = [from |-> request.from, url |-> target, redirects |-> request.redirects + 1]
  BY <1>2, <1>3 DEF Request
<1>5. request' \in Request /\ request'.redirects # 0 /\ request'.url = target
  BY <1>2, <1>3, <1>4, DownloadAssumption DEF Request
<1>6. Given'
  <2>1. stage \in {"metadata", "artifact", "file", "done", "failed"} /\ (stage = "file" => wanted.kind = "jsr")
    BY DEF IInv, Given
  <2> QED
    BY <1>2, <1>5, <2>1, GivenKept DEF IInv
<1>7. asked # None /\ Provenance /\ Confined
  BY <1>2 DEF IInv, Traced
<1>8. (asked # None => Provenance /\ Confined)'
  BY <1>2, <1>7, StillTraced
<1>9. (request # None => asked # None /\ Permitted(request.url) /\ (request.redirects = 0 => request.url = asked.url))'
  BY <1>2, <1>5, <1>7 DEF Permitted
<1>10. RequestsAuthorised'
  BY <1>2, Sending DEF IInv, Redirected
<1> QED
  BY <1>6, <1>8, <1>9, <1>10 DEF IInv, Traced

\* An answer ends the download.
LEMMA AnsweredStep ==
  ASSUME IInv, Answered
  PROVE  IInv'
<1>1. /\ SendIt /\ request' = None /\ asked' = None /\ setup' = setup /\ wanted' = wanted
      /\ stage' = IF stage = "metadata" THEN "artifact"
                  ELSE IF stage = "artifact" /\ wanted.kind = "jsr" THEN "file"
                  ELSE "done"
  BY DEF Answered, Receive
<1>2. Given'
  BY <1>1, GivenKept DEF IInv
<1>3. RequestsAuthorised'
  BY <1>1, Sending DEF IInv
<1> QED
  BY <1>1, <1>2, <1>3 DEF IInv, Traced

\* Every step keeps the invariant.
LEMMA InductiveStep == IInv /\ [AccessNext]_accessVars => IInv'
<1> SUFFICES ASSUME IInv, [AccessNext]_accessVars PROVE IInv'
  OBVIOUS
<1>1. CASE BeginMetadata \/ BeginArtifact \/ BeginFile
  BY <1>1, BeginStep
<1>2. CASE AskForIt
  BY <1>2, AskStep
<1>3. CASE Redirected
  BY <1>3, RedirectedStep
<1>4. CASE Answered
  BY <1>4, AnsweredStep
<1>5. CASE GiveUp
  <2>1. stage' = "failed" /\ request' = None /\ asked' = None /\ setup' = setup /\ wanted' = wanted /\ sent' = sent
    BY <1>5 DEF GiveUp
  <2>2. Given'
    BY <2>1, GivenKept DEF IInv
  <2>3. RequestsAuthorised'
    BY <2>1, StillAuthorised DEF IInv
  <2> QED
    BY <2>1, <2>2, <2>3 DEF IInv, Traced
<1>6. CASE UNCHANGED accessVars
  <2>1. /\ request' = request /\ stage' = stage /\ asked' = asked /\ allowed' = allowed
        /\ setup' = setup /\ wanted' = wanted /\ sent' = sent
    BY <1>6 DEF accessVars, downloadVars
  <2>2. Given'
    <3>1. stage \in {"metadata", "artifact", "file", "done", "failed"} /\ (stage = "file" => wanted.kind = "jsr")
          /\ request \in Request \cup {None}
      BY DEF IInv, Given
    <3> QED
      BY <2>1, <3>1, GivenKept DEF IInv
  <2>3. RequestsAuthorised'
    BY <2>1, StillAuthorised DEF IInv
  <2>4. (asked # None => Provenance /\ Confined)'
    BY <2>1, StillTraced DEF IInv, Traced
  <2>5. (request # None => asked # None /\ Permitted(request.url) /\ (request.redirects = 0 => request.url = asked.url))'
    BY <2>1 DEF IInv, Traced, Permitted
  <2> QED
    BY <2>2, <2>3, <2>4, <2>5 DEF IInv, Traced
<1> QED
  BY <1>1, <1>2, <1>3, <1>4, <1>5, <1>6 DEF AccessNext

-----------------------------------------------------------------------------
(* Theorems.                                                                   *)

\* What is downloaded is traced to a repository at every moment of an acquisition.
THEOREM Invariance == AccessSpec => []IInv
<1> QED
  BY InductiveInit, InductiveStep, PTL DEF AccessSpec

\* Whatever registries answer and wherever they redirect to, a token goes only to the
\* repository of the ecosystem that is asked and into the narrowest scope around it,
\* and plain HTTP only to a configured repository (network/download.rs).
THEOREM RequestsStayAuthorised == AccessSpec => []RequestsAuthorised
<1>1. IInv => RequestsAuthorised
  BY DEF IInv
<1> QED
  BY <1>1, Invariance, PTL

-----------------------------------------------------------------------------
(* Archives verified before they are unpacked.                                 *)

\* A digest that decides is one of those given, and none given is of a more
\* decisive form.
LEMMA DecisiveRank ==
  ASSUME job.expected \in Seq(Range(job.expected)), NEW t \in DecisiveTokens(job.expected)
  PROVE  t \in Range(job.expected) /\ Rank(t) > 0 /\ \A u \in Range(job.expected) : Rank(u) <= Rank(t)
<1> DEFINE given == job.expected
<1>1. CASE Tokens(given, "sha256:") # {}
  <2>1. t \in Range(given) /\ t.form = "sha256:"
    BY <1>1 DEF DecisiveTokens, Tokens
  <2> QED
    BY <2>1 DEF Rank
<1>2. CASE Tokens(given, "sha256:") = {} /\ BareHex(given)
  <2>1. Len(given) = 1 /\ given[1].form = "hex" /\ t \in Range(given)
    BY <1>2 DEF DecisiveTokens, BareHex
  <2>2. \A u \in Range(given) : u = given[1]
    BY <2>1 DEF Range
  <2> QED
    BY <2>1, <2>2 DEF Rank
<1>3. CASE Tokens(given, "sha256:") = {} /\ ~BareHex(given)
  <2>1. \A u \in Range(given) : u.form # "sha256:"
    BY <1>3 DEF Tokens
  <2>2. \A u \in Range(given) : ~(u.form = "hex" /\ Len(given) = 1)
    BY <1>3 DEF BareHex, Range
  <2>3. t \in StrongestTokens(given)
    BY <1>3 DEF DecisiveTokens
  <2>4. CASE Tokens(given, "sha512-") # {}
    <3>1. t \in Range(given) /\ t.form = "sha512-"
      BY <2>3, <2>4 DEF StrongestTokens, Tokens
    <3> QED
      BY <2>1, <2>2, <3>1 DEF Rank
  <2>5. CASE Tokens(given, "sha512-") = {}
    <3>1. t \in Range(given) /\ t.form = "sha256-"
      BY <2>3, <2>5 DEF StrongestTokens, Tokens
    <3>2. \A u \in Range(given) : u.form # "sha512-"
      BY <2>5 DEF Tokens
    <3> QED
      BY <2>1, <2>2, <3>1, <3>2 DEF Rank
  <2> QED
    BY <2>4, <2>5
<1> QED
  BY <1>1, <1>2, <1>3

\* A module graph decides from the SHA-256 digest as an acquisition does from
\* the bytes, or not at all.
LEMMA SameVerdict ==
  ASSUME NEW content, NEW given
  PROVE  VerifyFromSha256(content, given) \in {"unknown", VerifyIntegrity(content, given)}
BY DEF VerifyFromSha256, VerifyIntegrity, DecisiveTokens, StrongestTokens

\* Beyond the verification, an archive has been verified unless it is pinned.
ArchiveVerified ==
  /\ {"content", "expected", "pinnedCommit"} \subseteq DOMAIN job
  /\ job.expected \in Seq(Range(job.expected))
  /\ step \in {"open", "preflight", "write", "done"} /\ ~job.pinnedCommit =>
       VerifyIntegrity(job.content, job.expected) = "none"

\* No step goes past the verification but the verification.
LEMMA VerifiedStep == ArchiveVerified /\ [ArchiveNext]_materialiseVars => ArchiveVerified'
<1> SUFFICES ASSUME ArchiveVerified, [ArchiveNext]_materialiseVars PROVE ArchiveVerified'
  OBVIOUS
<1> USE DEF ArchiveVerified
<1>1. CASE UNCHANGED materialiseVars
  BY <1>1 DEF materialiseVars
<1>2. CASE VerifyArtifact
  <2>1. job' = job /\ step' \in {"open", "policy", "fetch"}
    BY <1>2 DEF VerifyArtifact, Goes, Fails, VerifyIntegrity
  <2>2. step' = "open" => job.pinnedCommit \/ VerifyIntegrity(job.content, job.expected) = "none"
    BY <1>2 DEF VerifyArtifact, Goes, Fails, VerifyIntegrity
  <2> QED
    BY <2>1, <2>2
<1>3. ASSUME job' = job, step \in {"open", "preflight", "write"} PROVE ArchiveVerified'
  BY <1>3
<1>4. CASE OpenArchive \/ PreflightEntry \/ PreflightDone \/ WriteEntry
  <2>1. CASE OpenArchive
    <3>1. Container \in {"zip", "tar", "unsupported"}
      BY DEF Container
    <3>2. job' = job /\ step = "open"
      BY <2>1, <3>1 DEF OpenArchive, Goes, Fails
    <3> QED
      BY <1>3, <3>2
  <2>2. CASE PreflightEntry
    BY <1>3, <2>2 DEF PreflightEntry, Fails
  <2>3. CASE PreflightDone \/ WriteEntry
    BY <1>3, <2>3 DEF PreflightDone, Goes, WriteEntry
  <2> QED
    BY <1>4, <2>1, <2>2, <2>3
<1>5. CASE Unwrap
  <2>1. /\ step = "write" /\ step' = "done"
        /\ job' = job \/ \E p : job' = [job EXCEPT !.root = p]
    BY <1>5 DEF Unwrap
  <2>2. job'.expected = job.expected /\ job'.content = job.content /\ job'.pinnedCommit = job.pinnedCommit /\ DOMAIN job' = DOMAIN job
    BY <2>1
  <2> QED
    BY <2>1, <2>2
<1>6. CASE Expires
  BY <1>6 DEF Expires, Fails
<1> QED
  BY <1>1, <1>2, <1>3, <1>4, <1>5, <1>6 DEF ArchiveNext

\* No archive gets beyond the verification without a digest that authorises it,
\* the most decisive of those given, unless the lockfile pins a commit.
THEOREM ArchivesAuthorised == ArchiveSpec => []AuthorisedOnly
<1>1. ArchiveInit => ArchiveVerified
  BY ArchivesAssumption DEF ArchiveInit, ArchiveVerified
<1>2. ArchiveVerified => AuthorisedOnly
  <2> SUFFICES ASSUME ArchiveVerified PROVE AuthorisedOnly
    OBVIOUS
  <2>1. job.expected \in Seq(Range(job.expected))
    BY DEF ArchiveVerified
  <2>2. ASSUME VerifyIntegrity(job.content, job.expected) = "none"
        PROVE  \E t \in DecisiveTokens(job.expected) : t.of = job.content
    BY <2>2 DEF VerifyIntegrity
  <2> QED
    BY <2>1, <2>2, DecisiveRank, SameVerdict DEF ArchiveVerified, AuthorisedOnly
<1> QED
  BY <1>1, <1>2, VerifiedStep, PTL DEF ArchiveSpec

-----------------------------------------------------------------------------
(* Declared paths.                                                             *)

Kept(parts, f) ==
  f = [n \in 0 .. Len(parts) |->
         IF n = 0 THEN <<>> ELSE IF parts[n] = "." THEN f[n - 1] ELSE Append(f[n - 1], parts[n])]

\* The loop of normalize_relative is a recursive function.
LEMMA NormalizeUnfolds ==
  ASSUME NEW path
  PROVE  NormalizeRelative(path) = (CHOOSE f : Kept(path.parts, f))[Len(path.parts)]
BY Zenon DEF NormalizeRelative, Kept

\* The loop can be run up to every name.
LEMMA KeptExists ==
  ASSUME NEW S, NEW parts \in Seq(S)
  PROVE  \E f : Kept(parts, f)
<1> DEFINE Run(N, f) == f = [n \in 0 .. N |->
             IF n = 0 THEN <<>> ELSE IF parts[n] = "." THEN f[n - 1] ELSE Append(f[n - 1], parts[n])]
           B == {N \in Nat : ~\E f : Run(N, f)}
<1>1. ASSUME B # {} PROVE FALSE
  <2>b. B \in SUBSET Nat /\ \A N \in Nat : N \in B <=> ~\E f : Run(N, f)
    OBVIOUS
  <2> HIDE DEF B
  <2>1. PICK N \in B : \A m \in B : ~(m < N)
    BY <1>1, <2>b, SmallestNumber
  <2>2. N \in Nat /\ ~\E f : Run(N, f)
    BY <2>b
  <2>3. CASE N = 0
    <3> DEFINE f == [n \in 0 .. 0 |-> <<>>]
    <3>1. Run(0, f)
      OBVIOUS
    <3> QED
      BY <2>2, <2>3, <3>1
  <2>4. CASE N # 0
    <3>1. N - 1 \in Nat /\ N - 1 \notin B
      BY <2>1, <2>2, <2>4
    <3>2. PICK g : Run(N - 1, g)
      BY <2>b, <3>1
    <3> DEFINE f == [n \in 0 .. N |->
                 IF n = N THEN (IF parts[N] = "." THEN g[N - 1] ELSE Append(g[N - 1], parts[N])) ELSE g[n]]
    <3>3. \A n \in 0 .. N - 1 : f[n] = g[n]
      BY <2>2
    <3>4. \A n \in 0 .. N : f[n] = IF n = 0 THEN <<>> ELSE IF parts[n] = "." THEN f[n - 1] ELSE Append(f[n - 1], parts[n])
      <4> TAKE n \in 0 .. N
      <4>1. CASE n = N
        <5>1. f[N] = IF parts[N] = "." THEN g[N - 1] ELSE Append(g[N - 1], parts[N])
          BY <2>2
        <5>2. f[N - 1] = g[N - 1]
          BY <2>2, <2>4, <3>3
        <5> HIDE DEF f
        <5> QED
          BY <2>4, <4>1, <5>1, <5>2
      <4>2. CASE n # N
        <5>1. n \in 0 .. N - 1 /\ (n # 0 => n - 1 \in 0 .. N - 1)
          BY <2>2, <4>2
        <5>2. f[n] = g[n] /\ (n # 0 => f[n - 1] = g[n - 1])
          BY <3>3, <5>1
        <5>3. g[n] = IF n = 0 THEN <<>> ELSE IF parts[n] = "." THEN g[n - 1] ELSE Append(g[n - 1], parts[n])
          BY <3>2, <5>1
        <5> HIDE DEF f
        <5> QED
          BY <5>2, <5>3
      <4> QED
        BY <4>1, <4>2
    <3>5. f = [n \in 0 .. N |-> f[n]]
      OBVIOUS
    <3> HIDE DEF f
    <3>6. Run(N, f)
      BY <3>4, <3>5
    <3> QED
      BY <2>2, <3>6
  <2> QED
    BY <2>3, <2>4
<1>2. Len(parts) \in Nat /\ Len(parts) \notin B
  BY <1>1
<1>3. \E f : Run(Len(parts), f)
  BY <1>2
<1> QED
  BY <1>3 DEF Kept

\* What is left of a path is a sequence of its names, and one that does not
\* begin with "." leaves something.
LEMMA NormalizedParts ==
  ASSUME NEW path, NEW S, path.parts \in Seq(S)
  PROVE  /\ NormalizeRelative(path) \in Seq(S)
         /\ path.parts # <<>> /\ path.parts[1] # "." => NormalizeRelative(path) # <<>>
<1> DEFINE parts == path.parts
           f == CHOOSE g : Kept(parts, g)
           B == {n \in 0 .. Len(parts) :
                   ~(f[n] \in Seq(S) /\ (n > 0 /\ parts[1] # "." => f[n] # <<>>))}
<1>1. Kept(parts, f)
  BY KeptExists
<1>2. NormalizeRelative(path) = f[Len(parts)]
  BY NormalizeUnfolds
<1>3. parts \in Seq(S) /\ Len(parts) \in Nat /\ \A n \in 1 .. Len(parts) : parts[n] \in S
  OBVIOUS
<1> HIDE DEF f, parts
<1>4. \A n \in 0 .. Len(parts) : f[n] = IF n = 0 THEN <<>> ELSE IF parts[n] = "." THEN f[n - 1] ELSE Append(f[n - 1], parts[n])
  BY <1>1 DEF Kept
<1>5. ASSUME B # {} PROVE FALSE
  <2>b. B \in SUBSET Nat /\ \A n \in 0 .. Len(parts) : n \in B <=> ~(f[n] \in Seq(S) /\ (n > 0 /\ parts[1] # "." => f[n] # <<>>))
    BY <1>3
  <2>c. \A n \in B : n \in 0 .. Len(parts)
    OBVIOUS
  <2> HIDE DEF B
  <2>1. PICK n \in B : \A m \in B : ~(m < n)
    BY <1>5, <2>b, SmallestNumber
  <2>2. n \in 0 .. Len(parts) /\ ~(f[n] \in Seq(S) /\ (n > 0 /\ parts[1] # "." => f[n] # <<>>))
    BY <2>b, <2>c
  <2>0. f[0] = <<>> /\ f[0] \in Seq(S)
    <3>1. 0 \in 0 .. Len(parts)
      BY <1>3
    <3>2. f[0] = <<>>
      BY <1>4, <3>1
    <3>3. <<>> \in Seq(S)
      OBVIOUS
    <3> QED
      BY <3>2, <3>3, Zenon
  <2>3. n # 0
    <3> SUFFICES ASSUME n = 0 PROVE FALSE
      OBVIOUS
    <3>1. ~(n > 0)
      OBVIOUS
    <3>2. f[n] \notin Seq(S)
      BY <2>2, <3>1
    <3> QED
      BY <2>0, <3>2
  <2>4. n - 1 \in 0 .. Len(parts) /\ n - 1 \notin B /\ n \in 1 .. Len(parts)
    BY <1>3, <2>1, <2>2, <2>3
  <2>5. f[n - 1] \in Seq(S) /\ (n - 1 > 0 /\ parts[1] # "." => f[n - 1] # <<>>)
    BY <2>b, <2>4
  <2>6. Append(f[n - 1], parts[n]) \in Seq(S) /\ Append(f[n - 1], parts[n]) # <<>>
    <3>1. f[n - 1] \in Seq(S) /\ parts[n] \in S
      BY <1>3, <2>4, <2>5
    <3>2. \A s \in Seq(S), x \in S : Append(s, x) \in Seq(S) /\ Append(s, x) # <<>>
      OBVIOUS
    <3> QED
      BY <3>1, <3>2, Zenon
  <2>7. f[n] = IF parts[n] = "." THEN f[n - 1] ELSE Append(f[n - 1], parts[n])
    BY <1>4, <2>2, <2>3
  <2>8. CASE parts[n] = "."
    <3>1. f[n] = f[n - 1]
      BY <2>7, <2>8
    <3>2. parts[1] # "." => n - 1 > 0
      BY <2>4, <2>8
    <3> QED
      BY <2>2, <2>5, <3>1, <3>2
  <2>9. CASE parts[n] # "."
    BY <2>2, <2>6, <2>7, <2>9
  <2> QED
    BY <2>8, <2>9
<1>6. Len(parts) \in 0 .. Len(parts) /\ (parts # <<>> => Len(parts) > 0)
  BY <1>3
<1> QED
  BY <1>2, <1>5, <1>6 DEF parts

-----------------------------------------------------------------------------
(* The table of declared paths.                                                *)

Ascent(a, path, f) ==
  f = [n \in 0 .. Len(path) |->
         IF n <= 1 THEN a ELSE AccountDirectory(f[n - 1], SubSeq(path, 1, n - 1), FALSE)]

\* The loop of account over the directories above an entry is a recursive function.
LEMMA AboveUnfolds ==
  ASSUME NEW a, NEW path
  PROVE  AccountAbove(a, path) = (CHOOSE f : Ascent(a, path, f))[Len(path)]
BY Zenon DEF AccountAbove, Ascent

\* It can be run up to every name of a path.
LEMMA AscentExists ==
  ASSUME NEW a, NEW S, NEW path \in Seq(S)
  PROVE  \E f : Ascent(a, path, f)
<1> DEFINE Added(g, n) == AccountDirectory(g[n - 1], SubSeq(path, 1, n - 1), FALSE)
           Run(N, f) == f = [n \in 0 .. N |-> IF n <= 1 THEN a ELSE Added(f, n)]
           B == {N \in Nat : ~\E f : Run(N, f)}
<1>b. B \in SUBSET Nat /\ \A N \in Nat : N \in B <=> ~\E f : Run(N, f)
  OBVIOUS
<1> HIDE DEF B
<1>1. ASSUME B # {} PROVE FALSE
  <2>1. PICK N \in B : \A m \in B : ~(m < N)
    BY <1>1, <1>b, SmallestNumber
  <2>2. N \in Nat /\ ~\E f : Run(N, f)
    BY <1>b
  <2>3. CASE N = 0
    <3> DEFINE f == [n \in 0 .. 0 |-> a]
    <3>1. Run(0, f)
      OBVIOUS
    <3> QED
      BY <2>2, <2>3, <3>1
  <2>4. CASE N # 0
    <3>1. N - 1 \in Nat /\ N - 1 \notin B
      BY <2>1, <2>2, <2>4
    <3>2. PICK g : Run(N - 1, g)
      BY <1>b, <3>1
    <3> DEFINE last == IF N <= 1 THEN a ELSE Added(g, N)
               f == [n \in 0 .. N |-> IF n = N THEN last ELSE g[n]]
    <3> HIDE DEF last
    <3>3. f[N] = last /\ \A n \in 0 .. N - 1 : f[n] = g[n]
      BY <2>2
    <3>5. f = [n \in 0 .. N |-> f[n]]
      OBVIOUS
    <3> HIDE DEF f
    <3>4. \A n \in 0 .. N : f[n] = IF n <= 1 THEN a ELSE Added(f, n)
      <4> TAKE n \in 0 .. N
      <4>1. CASE n = N
        <5>1. f[N - 1] = g[N - 1]
          BY <2>2, <2>4, <3>3
        <5>2. Added(f, N) = Added(g, N)
          BY <5>1
        <5> QED
          BY <2>4, <3>3, <4>1, <5>2 DEF last
      <4>2. CASE n # N
        <5>1. n \in 0 .. N - 1 /\ (~(n <= 1) => n - 1 \in 0 .. N - 1)
          BY <2>2, <4>2
        <5>2. f[n] = g[n] /\ (~(n <= 1) => f[n - 1] = g[n - 1])
          BY <3>3, <5>1
        <5>3. g[n] = IF n <= 1 THEN a ELSE Added(g, n)
          BY <3>2, <5>1
        <5>4. ~(n <= 1) => Added(f, n) = Added(g, n)
          BY <5>2
        <5> HIDE DEF Added
        <5> QED
          BY <5>2, <5>3, <5>4
      <4> QED
        BY <4>1, <4>2
    <3>6. Run(N, f)
      BY <3>4, <3>5
    <3> QED
      BY <2>2, <3>6
  <2> QED
    BY <2>3, <2>4
<1>2. Len(path) \in Nat /\ Len(path) \notin B
  BY <1>1
<1>3. \E f : Run(Len(path), f)
  BY <1>2, <1>b
<1> QED
  BY <1>3 DEF Ascent

Declaration == [kind: {"dir", "file"}, explicit: BOOLEAN]

\* What accounting may end with.
Accounting == {"none", "limit", "extraction"}

\* The counters agree with the table; x objects counted are not in it.
Tallied(a, x) ==
  /\ a = [table |-> a.table, stats |-> a.stats, error |-> a.error]
  /\ a.stats \in [files: Nat, bytes: Nat] /\ x \in Nat
  /\ IsFiniteSet(DOMAIN a.table) /\ a.stats.files = Cardinality(DOMAIN a.table) + x
  /\ \A p \in DOMAIN a.table : a.table[p] \in Declaration

\* The limits have room for more paths.
Room(a, x, paths) ==
  Cardinality(DOMAIN a.table \cup paths) + x <= MaxExtractedFiles /\ a.stats.bytes <= MaxExtractedSize

\* Account b is account a with one path more.
Enters(a, b, x, p, d) ==
  /\ Tallied(b, x) /\ b.stats.bytes = a.stats.bytes
  /\ DOMAIN b.table = DOMAIN a.table \cup {p} /\ b.table[p] = d
  /\ \A q \in DOMAIN a.table \ {p} : b.table[q] = a.table[q]
  /\ a.stats.files <= MaxExtractedFiles => b.stats.files <= MaxExtractedFiles

\* Account b is account a with more directories, which nobody named.
Adds(a, b, x, paths) ==
  /\ Tallied(b, x) /\ b.stats.bytes = a.stats.bytes
  /\ DOMAIN b.table = DOMAIN a.table \cup paths
  /\ \A p \in DOMAIN a.table : b.table[p] = a.table[p]
  /\ \A p \in paths : b.table[p].kind = "dir" /\ (p \notin DOMAIN a.table => ~b.table[p].explicit)
  /\ a.stats.files <= MaxExtractedFiles => b.stats.files <= MaxExtractedFiles

\* A path that is new to the table is counted once, if there is room.
LEMMA NewCounted ==
  ASSUME NEW a, NEW x, Tallied(a, x), NEW p, p \notin DOMAIN a.table,
         NEW kind \in {"dir", "file"}, NEW explicit \in BOOLEAN, NEW b, b = Counted(a, p, kind, explicit)
  PROVE  /\ b.error \in {"none", "limit"} /\ (b.error = "none" <=> Room(a, x, {p}))
         /\ b.error = "none" => Enters(a, b, x, p, [kind |-> kind, explicit |-> explicit])
<1> DEFINE D == DOMAIN a.table
           d == [kind |-> kind, explicit |-> explicit]
           T == [q \in D \cup {p} |-> IF q = p THEN d ELSE a.table[q]]
           s == CountObject(a.stats)
           err == CheckLimits(s)
<1>1. b = [table |-> T, stats |-> s, error |-> err]
  BY DEF Counted
<1>2. s \in [files: Nat, bytes: Nat] /\ s.files = a.stats.files + 1 /\ s.bytes = a.stats.bytes
  BY DEF CountObject, Tallied
<1>3. IsFiniteSet(D) /\ a.stats.files = Cardinality(D) + x /\ x \in Nat /\ Cardinality(D) \in Nat /\ p \notin D
  BY FS_CardinalityType DEF Tallied
<1>4. err \in {"none", "limit"} /\ (err = "none" <=> s.files <= MaxExtractedFiles /\ s.bytes <= MaxExtractedSize)
  BY <1>2, MaterialiseConstants DEF CheckLimits
<1>5. d \in Declaration
  BY DEF Declaration
<1>6. DOMAIN T = D \cup {p} /\ T[p] = d /\ \A q \in D : T[q] = a.table[q]
  BY <1>3
<1>7. \A q \in D : a.table[q] \in Declaration
  BY DEF Tallied
<1>8. Room(a, x, {p}) <=> Cardinality(D \cup {p}) + x <= MaxExtractedFiles /\ a.stats.bytes <= MaxExtractedSize
  BY DEF Room
<1>d. d = [kind |-> kind, explicit |-> explicit]
  OBVIOUS
<1>9. D = DOMAIN a.table
  OBVIOUS
<1> HIDE DEF T, s, err, d, D
<1>10. IsFiniteSet(D \cup {p}) /\ Cardinality(D \cup {p}) = Cardinality(D) + 1
  BY <1>3, FS_AddElement
<1>11. b.table = T /\ b.stats = s /\ b.error = err /\ b = [table |-> b.table, stats |-> b.stats, error |-> b.error]
  BY <1>1
<1>12. b.error = "none" <=> Room(a, x, {p})
  BY <1>2, <1>3, <1>4, <1>8, <1>10, <1>11
<1>13. Tallied(b, x)
  BY <1>2, <1>3, <1>5, <1>6, <1>7, <1>10, <1>11 DEF Tallied
<1>14. b.error = "none" => Enters(a, b, x, p, d)
  BY <1>2, <1>4, <1>6, <1>9, <1>11, <1>13 DEF Enters
<1> QED
  BY <1>4, <1>11, <1>12, <1>14, <1>d

\* A directory is counted when it is new, and named at most once.
LEMMA DirectoryAccounted ==
  ASSUME NEW a, NEW x, Tallied(a, x), a.error = "none", NEW p, NEW explicit \in BOOLEAN,
         NEW b, b = AccountDirectory(a, p, explicit)
  PROVE  /\ b.error \in Accounting
         /\ b.error = "none" =>
              /\ Enters(a, b, x, p, [kind |-> "dir",
                                     explicit |-> explicit \/ (p \in DOMAIN a.table /\ a.table[p].explicit)])
              /\ p \in DOMAIN a.table => a.table[p].kind = "dir" /\ ~(explicit /\ a.table[p].explicit)
         /\ /\ p \in DOMAIN a.table => a.table[p].kind = "dir" /\ ~(explicit /\ a.table[p].explicit)
            /\ Room(a, x, {p})
            => b.error = "none"
<1>1. CASE p \notin DOMAIN a.table
  <2>1. b = Counted(a, p, "dir", explicit)
    BY <1>1 DEF AccountDirectory
  <2>2. /\ b.error \in {"none", "limit"} /\ (b.error = "none" <=> Room(a, x, {p}))
        /\ b.error = "none" => Enters(a, b, x, p, [kind |-> "dir", explicit |-> explicit])
    BY <1>1, <2>1, NewCounted
  <2> DEFINE d == [kind |-> "dir", explicit |-> explicit \/ (p \in DOMAIN a.table /\ a.table[p].explicit)]
  <2>3. d = [kind |-> "dir", explicit |-> explicit]
    BY <1>1
  <2> HIDE DEF d
  <2>4. b.error = "none" => Enters(a, b, x, p, d)
    BY <2>2, <2>3
  <2>5. b.error \in Accounting /\ (Room(a, x, {p}) => b.error = "none")
    BY <2>2 DEF Accounting
  <2> QED
    BY <1>1, <2>4, <2>5 DEF d
<1>2. CASE p \in DOMAIN a.table /\ (a.table[p].kind # "dir" \/ (explicit /\ a.table[p].explicit))
  <2>1. b = [a EXCEPT !.error = "extraction"]
    BY <1>2 DEF AccountDirectory
  <2>2. b.error = "extraction"
    BY <2>1 DEF Tallied
  <2> QED
    BY <1>2, <2>2 DEF Accounting
<1>3. CASE p \in DOMAIN a.table /\ a.table[p].kind = "dir" /\ ~(explicit /\ a.table[p].explicit)
  <2> DEFINE d == [kind |-> "dir", explicit |-> explicit \/ a.table[p].explicit]
             T == [a.table EXCEPT ![p].explicit = @ \/ explicit]
  <2>1. b = [a EXCEPT !.table[p].explicit = @ \/ explicit]
    BY <1>3 DEF AccountDirectory
  <2>2. a.table[p] \in Declaration
    BY <1>3 DEF Tallied
  <2>3. T[p] = d
    <3>1. T[p] = [a.table[p] EXCEPT !.explicit = @ \/ explicit]
      BY <1>3
    <3> HIDE DEF T
    <3> QED
      BY <1>3, <2>2, <3>1 DEF Declaration
  <2>4. DOMAIN T = DOMAIN a.table /\ \A q \in DOMAIN a.table \ {p} : T[q] = a.table[q]
    OBVIOUS
  <2>5. b = [a EXCEPT !.table = T]
    BY <2>1 DEF Tallied
  <2>6. d \in Declaration
    BY <2>2 DEF Declaration
  <2> HIDE DEF T, d
  <2>7. b.table = T /\ b.stats = a.stats /\ b.error = "none" /\ b = [table |-> b.table, stats |-> b.stats, error |-> b.error]
    BY <2>5 DEF Tallied
  <2>8. Tallied(b, x)
    BY <2>3, <2>4, <2>6, <2>7 DEF Tallied
  <2>9. Enters(a, b, x, p, d)
    BY <1>3, <2>3, <2>4, <2>7, <2>8 DEF Enters
  <2>10. d = [kind |-> "dir", explicit |-> explicit \/ (p \in DOMAIN a.table /\ a.table[p].explicit)]
    BY <1>3 DEF d
  <2> QED
    BY <1>3, <2>7, <2>9, <2>10 DEF Accounting
<1> QED
  BY <1>1, <1>2, <1>3

\* The directories above a path are shorter than the path, and finitely many.
LEMMA ParentsShorter ==
  ASSUME NEW S, NEW path \in Seq(S)
  PROVE  /\ IsFiniteSet(Parents(path)) /\ path \notin Parents(path)
         /\ \A p \in Parents(path) : p \in Seq(S) /\ p # <<>>
<1> DEFINE L == Len(path)
           g == [n \in 1 .. L - 1 |-> SubSeq(path, 1, n)]
<1>1. L \in Nat /\ \A n \in 1 .. L - 1 : SubSeq(path, 1, n) \in Seq(S) /\ Len(SubSeq(path, 1, n)) = n
  OBVIOUS
<1>2. \A p \in Parents(path) : \E n \in 1 .. L - 1 : p = SubSeq(path, 1, n)
  BY DEF Parents
<1>3. g \in Surjection(1 .. L - 1, Parents(path))
  <2>1. g \in [1 .. L - 1 -> Parents(path)]
    BY DEF Parents
  <2>2. \A p \in Parents(path) : \E n \in 1 .. L - 1 : g[n] = p
    BY <1>2
  <2> HIDE DEF g
  <2> QED
    BY <2>1, <2>2 DEF Surjection
<1>4. IsFiniteSet(1 .. L - 1)
  BY <1>1, FS_Interval
<1>5. IsFiniteSet(Parents(path))
  BY <1>3, <1>4, FS_Surjection
<1>6. ASSUME NEW p \in Parents(path) PROVE p \in Seq(S) /\ p # <<>> /\ p # path
  <2>1. PICK n \in 1 .. L - 1 : p = SubSeq(path, 1, n)
    BY <1>2
  <2>2. p \in Seq(S) /\ Len(p) = n /\ n > 0 /\ n < L
    BY <1>1, <2>1
  <2> QED
    BY <2>2
<1> QED
  BY <1>5, <1>6

\* More paths need more room.
LEMMA RoomForFewer ==
  ASSUME NEW a, NEW x, Tallied(a, x), NEW P, IsFiniteSet(P), NEW Q \in SUBSET P, Room(a, x, P)
  PROVE  Room(a, x, Q)
<1> DEFINE D == DOMAIN a.table
<1>1. IsFiniteSet(D) /\ x \in Nat
  BY DEF Tallied
<1>2. IsFiniteSet(D \cup P) /\ D \cup Q \subseteq D \cup P
  BY <1>1, FS_Union
<1>3. Cardinality(D \cup Q) <= Cardinality(D \cup P) /\ Cardinality(D \cup Q) \in Nat /\ Cardinality(D \cup P) \in Nat
  BY <1>2, FS_Subset, FS_CardinalityType
<1> QED
  BY <1>1, <1>3, MaterialiseConstants DEF Room

\* The directories above a path are declared unless there is a file among them
\* or no room.
LEMMA AboveAccounted ==
  ASSUME NEW a, NEW x, Tallied(a, x), a.error = "none", NEW S, NEW path \in Seq(S),
         NEW b, b = AccountAbove(a, path)
  PROVE  /\ b.error \in Accounting
         /\ b.error = "none" => Adds(a, b, x, Parents(path))
         /\ /\ \A p \in Parents(path) \cap DOMAIN a.table : a.table[p].kind = "dir"
            /\ Room(a, x, Parents(path))
            => b.error = "none"
<1> DEFINE f == CHOOSE g : Ascent(a, path, g)
           L == Len(path)
           way(n) == {SubSeq(path, 1, m) : m \in 1 .. n - 1}
           Possible(n) == (\A p \in way(n) \cap DOMAIN a.table : a.table[p].kind = "dir") /\ Room(a, x, way(n))
           Good(n) == /\ f[n].error \in Accounting
                      /\ f[n].error = "none" => Adds(a, f[n], x, way(n))
                      /\ Possible(n) => f[n].error = "none"
           B == {n \in 0 .. L : ~Good(n)}
<1>1. Ascent(a, path, f)
  BY AscentExists
<1>2. b = f[L]
  BY AboveUnfolds
<1>3. L \in Nat
  OBVIOUS
<1> HIDE DEF f
<1>4. \A n \in 0 .. L : f[n] = IF n <= 1 THEN a ELSE AccountDirectory(f[n - 1], SubSeq(path, 1, n - 1), FALSE)
  BY <1>1 DEF Ascent
<1>5. \A n \in 0 .. L : n <= 1 => Good(n)
  <2> TAKE n \in 0 .. L
  <2> HAVE n <= 1
  <2>1. f[n] = a
    BY <1>4
  <2>2. way(n) = {}
    BY <1>3
  <2> HIDE DEF way
  <2>3. Adds(a, a, x, {})
    BY DEF Adds
  <2> QED
    BY <2>1, <2>2, <2>3 DEF Accounting
<1>b. B \in SUBSET Nat /\ \A n \in 0 .. L : n \in B <=> ~Good(n)
  BY <1>3
<1>c. \A n \in B : n \in 0 .. L
  OBVIOUS
<1>w. way(L) = Parents(path)
  BY DEF Parents
<1>s. \A n \in 0 .. L : IsFiniteSet(way(n))
  <2>1. IsFiniteSet(way(L))
    BY <1>w, ParentsShorter
  <2>2. \A n \in 0 .. L : way(n) \subseteq way(L)
    BY <1>3
  <2> HIDE DEF way
  <2> QED
    BY <2>1, <2>2, FS_Subset
<1> HIDE DEF B, L
<1>6. ASSUME B # {} PROVE FALSE
  <2>1. PICK n \in B : \A m \in B : ~(m < n)
    BY <1>6, <1>b, SmallestNumber
  <2>2. n \in 0 .. L /\ ~Good(n)
    BY <1>b, <1>c
  <2>3. ~(n <= 1)
    BY <1>5, <2>2
  <2>4. n - 1 \in 0 .. L /\ n - 1 \notin B
    BY <1>3, <2>1, <2>2, <2>3
  <2>5. Good(n - 1)
    BY <1>b, <2>4
  <2> DEFINE p == SubSeq(path, 1, n - 1)
             c == f[n - 1]
             e == f[n]
             before == way(n - 1)
             after == way(n)
  <2>6. e = AccountDirectory(c, p, FALSE)
    BY <1>4, <2>2, <2>3
  <2>7. after = before \cup {p}
    <3>1. \A m \in 1 .. n - 1 : m \in 1 .. (n - 1) - 1 \/ m = n - 1
      BY <1>3, <2>2
    <3>2. \A m \in 1 .. (n - 1) - 1 : m \in 1 .. n - 1
      BY <1>3, <2>2
    <3>3. n - 1 \in 1 .. n - 1
      BY <1>3, <2>2, <2>3
    <3> QED
      BY <3>1, <3>2, <3>3
  <2>8. /\ c.error \in Accounting
        /\ c.error = "none" => Adds(a, c, x, before)
        /\ (\A q \in before \cap DOMAIN a.table : a.table[q].kind = "dir") /\ Room(a, x, before) => c.error = "none"
    BY <2>5
  <2>9. IsFiniteSet(after)
    BY <1>s, <2>2
  <2> HIDE DEF p, c, e, before, after, way
  <2>10. CASE c.error # "none"
    <3>1. e = c
      BY <2>6, <2>10 DEF AccountDirectory
    <3>2. ~((\A q \in after \cap DOMAIN a.table : a.table[q].kind = "dir") /\ Room(a, x, after))
      <4>1. before \in SUBSET after
        BY <2>7
      <4> QED
        BY <2>7, <2>8, <2>9, <2>10, <4>1, RoomForFewer
    <3> QED
      BY <2>2, <2>8, <2>10, <3>1, <3>2 DEF c, e, before, after
  <2>11. CASE c.error = "none"
    <3> DEFINE d == [kind |-> "dir", explicit |-> FALSE \/ (p \in DOMAIN c.table /\ c.table[p].explicit)]
    <3>1. Adds(a, c, x, before) /\ Tallied(c, x)
      BY <2>8, <2>11 DEF Adds
    <3>2. /\ e.error \in Accounting
          /\ e.error = "none" => Enters(c, e, x, p, d) /\ (p \in DOMAIN c.table => c.table[p].kind = "dir")
          /\ (p \in DOMAIN c.table => c.table[p].kind = "dir") /\ Room(c, x, {p}) => e.error = "none"
      BY <2>6, <2>11, <3>1, DirectoryAccounted
    <3>3. d.kind = "dir" /\ (p \notin DOMAIN c.table => ~d.explicit)
      OBVIOUS
    <3>d. p \in DOMAIN c.table /\ c.table[p].kind = "dir" => d = c.table[p]
      <4> SUFFICES ASSUME p \in DOMAIN c.table, c.table[p].kind = "dir" PROVE d = c.table[p]
        OBVIOUS
      <4>1. c.table[p] \in Declaration
        BY <3>1 DEF Tallied
      <4> QED
        BY <4>1 DEF Declaration
    <3> HIDE DEF d
    <3>4. ASSUME e.error = "none" PROVE Adds(a, e, x, after)
      <4>1. Enters(c, e, x, p, d) /\ (p \in DOMAIN c.table => c.table[p].kind = "dir")
        BY <3>2, <3>4
      <4>2. \A q \in DOMAIN c.table : e.table[q] = c.table[q]
        BY <3>d, <4>1 DEF Enters
      <4>3. DOMAIN e.table = DOMAIN a.table \cup after
        BY <2>7, <3>1, <4>1 DEF Adds, Enters
      <4>4. \A q \in DOMAIN a.table : e.table[q] = a.table[q]
        BY <3>1, <4>2 DEF Adds
      <4>5. \A q \in after : e.table[q].kind = "dir" /\ (q \notin DOMAIN a.table => ~e.table[q].explicit)
        <5> TAKE q \in after
        <5>1. CASE q \in before
          BY <3>1, <4>2, <5>1 DEF Adds
        <5>2. CASE q \notin before
          <6>1. q = p /\ e.table[q] = d
            BY <2>7, <4>1, <5>2 DEF Enters
          <6>2. q \in DOMAIN c.table => q \in DOMAIN a.table
            BY <3>1, <5>2 DEF Adds
          <6> QED
            BY <3>3, <6>1, <6>2
        <5> QED
          BY <5>1, <5>2
      <4>6. Tallied(e, x) /\ e.stats.bytes = a.stats.bytes
            /\ (a.stats.files <= MaxExtractedFiles => e.stats.files <= MaxExtractedFiles)
        BY <3>1, <4>1 DEF Adds, Enters
      <4> QED
        BY <4>3, <4>4, <4>5, <4>6 DEF Adds
    <3>5. ASSUME \A q \in after \cap DOMAIN a.table : a.table[q].kind = "dir", Room(a, x, after)
          PROVE  e.error = "none"
      <4>1. p \in DOMAIN c.table => c.table[p].kind = "dir"
        BY <2>7, <3>1, <3>5 DEF Adds
      <4>2. Room(c, x, {p})
        <5>1. DOMAIN c.table \cup {p} = DOMAIN a.table \cup after
          BY <2>7, <3>1 DEF Adds
        <5> QED
          BY <3>1, <3>5, <5>1 DEF Room, Adds
      <4> QED
        BY <3>2, <4>1, <4>2
    <3> QED
      BY <2>2, <3>2, <3>4, <3>5 DEF e, after
  <2> QED
    BY <2>10, <2>11
<1>7. Good(L)
  <2>1. L \in 0 .. L /\ L \notin B
    BY <1>3, <1>6
  <2> QED
    BY <1>b, <2>1
<1> HIDE DEF way
<1> QED
  BY <1>2, <1>7, <1>w

\* Account b is account a with an entry and the directories above it.
Declares(a, b, x, path, kind) ==
  /\ Tallied(b, x) /\ b.stats.bytes = a.stats.bytes
  /\ DOMAIN b.table = DOMAIN a.table \cup Parents(path) \cup {path}
  /\ b.table[path] = [kind |-> kind, explicit |-> TRUE]
  /\ \A p \in DOMAIN a.table \ {path} : b.table[p] = a.table[p]
  /\ \A p \in Parents(path) : b.table[p].kind = "dir" /\ (p \notin DOMAIN a.table => ~b.table[p].explicit)
  /\ path \in DOMAIN a.table => kind = "dir" /\ a.table[path].kind = "dir" /\ ~a.table[path].explicit
  /\ a.stats.files <= MaxExtractedFiles => b.stats.files <= MaxExtractedFiles

\* Nothing declared is in the way of an entry.
Admits(a, path, kind) ==
  /\ \A p \in Parents(path) \cap DOMAIN a.table : a.table[p].kind = "dir"
  /\ path \in DOMAIN a.table => kind = "dir" /\ a.table[path].kind = "dir" /\ ~a.table[path].explicit

\* An entry is declared exactly when nothing is in its way and there is room.
LEMMA EntryAccounted ==
  ASSUME NEW a, NEW x, Tallied(a, x), a.error = "none", NEW S, NEW path \in Seq(S),
         NEW kind \in {"dir", "file"}, NEW b, b = Account(a, path, kind)
  PROVE  /\ b.error \in Accounting
         /\ b.error = "none" => Declares(a, b, x, path, kind)
         /\ Admits(a, path, kind) /\ Room(a, x, Parents(path) \cup {path}) => b.error = "none"
<1> DEFINE c == AccountAbove(a, path)
           P == Parents(path)
           d == [kind |-> kind, explicit |-> TRUE]
<1>1. IsFiniteSet(P) /\ path \notin P
  BY ParentsShorter
<1>2. /\ c.error \in Accounting
      /\ c.error = "none" => Adds(a, c, x, P)
      /\ (\A p \in P \cap DOMAIN a.table : a.table[p].kind = "dir") /\ Room(a, x, P) => c.error = "none"
  BY AboveAccounted
<1>3. b = IF kind = "file" THEN AccountFile(c, path) ELSE AccountDirectory(c, path, TRUE)
  BY DEF Account
<1>r. Room(a, x, P \cup {path}) => Room(a, x, P)
  <2>1. IsFiniteSet(P \cup {path}) /\ P \in SUBSET (P \cup {path})
    BY <1>1, FS_AddElement
  <2> QED
    BY <2>1, RoomForFewer
<1>p. P = Parents(path)
  OBVIOUS
<1> HIDE DEF c, P
<1>4. CASE c.error # "none"
  <2>1. b = c
    BY <1>3, <1>4 DEF AccountFile, AccountDirectory
  <2> QED
    BY <1>2, <1>4, <1>r, <1>p, <2>1 DEF Admits
<1>5. CASE c.error = "none"
  <2>1. Adds(a, c, x, P) /\ Tallied(c, x)
    BY <1>2, <1>5 DEF Adds
  <2>2. path \in DOMAIN c.table <=> path \in DOMAIN a.table
    BY <1>1, <2>1 DEF Adds
  <2>3. path \in DOMAIN a.table => c.table[path] = a.table[path]
    BY <2>1 DEF Adds
  <2>4. Room(a, x, P \cup {path}) => Room(c, x, {path})
    <3>1. DOMAIN c.table \cup {path} = DOMAIN a.table \cup (P \cup {path})
      BY <2>1 DEF Adds
    <3> QED
      BY <2>1, <3>1 DEF Room, Adds
  <2>5. /\ b.error \in Accounting
        /\ b.error = "none" => /\ Enters(c, b, x, path, d)
                               /\ path \in DOMAIN c.table => kind = "dir" /\ c.table[path].kind = "dir" /\ ~c.table[path].explicit
        /\ (path \in DOMAIN c.table => kind = "dir" /\ c.table[path].kind = "dir" /\ ~c.table[path].explicit)
             /\ Room(c, x, {path}) => b.error = "none"
    <3>1. CASE kind = "dir"
      <4> DEFINE e == [kind |-> "dir", explicit |-> TRUE \/ (path \in DOMAIN c.table /\ c.table[path].explicit)]
      <4>1. b = AccountDirectory(c, path, TRUE)
        BY <1>3, <3>1
      <4>2. e = d
        BY <3>1
      <4> HIDE DEF e, d
      <4>3. /\ b.error \in Accounting
            /\ b.error = "none" => Enters(c, b, x, path, e) /\ (path \in DOMAIN c.table => c.table[path].kind = "dir" /\ ~(TRUE /\ c.table[path].explicit))
            /\ (path \in DOMAIN c.table => c.table[path].kind = "dir" /\ ~(TRUE /\ c.table[path].explicit))
                 /\ Room(c, x, {path}) => b.error = "none"
        BY <1>5, <2>1, <4>1, DirectoryAccounted DEF e
      <4> QED
        BY <3>1, <4>2, <4>3
    <3>2. CASE kind = "file" /\ path \in DOMAIN c.table
      <4>1. b = [c EXCEPT !.error = "extraction"]
        BY <1>3, <1>5, <3>2 DEF AccountFile
      <4>2. b.error = "extraction"
        BY <2>1, <4>1 DEF Tallied
      <4> QED
        BY <3>2, <4>2 DEF Accounting
    <3>3. CASE kind = "file" /\ path \notin DOMAIN c.table
      <4>1. b = Counted(c, path, kind, TRUE)
        BY <1>3, <1>5, <3>3 DEF AccountFile
      <4>2. /\ b.error \in {"none", "limit"} /\ (b.error = "none" <=> Room(c, x, {path}))
            /\ b.error = "none" => Enters(c, b, x, path, d)
        BY <2>1, <3>3, <4>1, NewCounted
      <4> QED
        BY <3>3, <4>2 DEF Accounting
    <3> QED
      BY <3>1, <3>2, <3>3
  <2>6. ASSUME b.error = "none" PROVE Declares(a, b, x, path, kind)
    <3>1. /\ Enters(c, b, x, path, d)
          /\ path \in DOMAIN c.table => kind = "dir" /\ c.table[path].kind = "dir" /\ ~c.table[path].explicit
      BY <2>5, <2>6
    <3> HIDE DEF d
    <3>2. DOMAIN b.table = DOMAIN a.table \cup P \cup {path} /\ b.table[path] = d
      BY <2>1, <3>1 DEF Adds, Enters
    <3>3. \A p \in DOMAIN a.table \ {path} : b.table[p] = a.table[p]
      BY <2>1, <3>1 DEF Adds, Enters
    <3>4. \A p \in P : b.table[p].kind = "dir" /\ (p \notin DOMAIN a.table => ~b.table[p].explicit)
      <4>1. \A p \in P : p \in DOMAIN c.table \ {path}
        BY <1>1, <2>1 DEF Adds
      <4>2. \A p \in P : b.table[p] = c.table[p]
        BY <3>1, <4>1 DEF Enters
      <4> QED
        BY <2>1, <4>2 DEF Adds
    <3>5. path \in DOMAIN a.table => kind = "dir" /\ a.table[path].kind = "dir" /\ ~a.table[path].explicit
      BY <2>2, <2>3, <3>1
    <3>6. /\ Tallied(b, x) /\ b.stats.bytes = a.stats.bytes
          /\ a.stats.files <= MaxExtractedFiles => b.stats.files <= MaxExtractedFiles
      BY <2>1, <3>1 DEF Adds, Enters
    <3> QED
      BY <1>p, <3>2, <3>3, <3>4, <3>5, <3>6 DEF Declares, d
  <2>7. ASSUME Admits(a, path, kind), Room(a, x, P \cup {path}) PROVE b.error = "none"
    <3>1. path \in DOMAIN c.table => kind = "dir" /\ c.table[path].kind = "dir" /\ ~c.table[path].explicit
      BY <2>2, <2>3, <2>7 DEF Admits
    <3> QED
      BY <2>4, <2>5, <2>7, <3>1
  <2> QED
    BY <1>p, <2>5, <2>6, <2>7
<1> QED
  BY <1>4, <1>5

\* The bytes of an entry are added if they fit.
LEMMA BytesAccounted ==
  ASSUME NEW a, NEW x, Tallied(a, x), a.error = "none", NEW size \in Nat, NEW b, b = AccountBytes(a, size)
  PROVE  /\ Tallied(b, x) /\ b.table = a.table /\ b.error \in Accounting
         /\ b.stats.files = a.stats.files /\ b.stats.bytes = a.stats.bytes + size
         /\ b.error = "none" <=> b.stats.files <= MaxExtractedFiles /\ b.stats.bytes <= MaxExtractedSize
<1> DEFINE s == CountBytes(a.stats, size)
           err == CheckLimits(s)
<1>1. b = [a EXCEPT !.stats = s, !.error = err]
  BY DEF AccountBytes
<1>2. s \in [files: Nat, bytes: Nat] /\ s.files = a.stats.files /\ s.bytes = a.stats.bytes + size
  BY DEF CountBytes, Tallied
<1>3. err \in Accounting /\ (err = "none" <=> s.files <= MaxExtractedFiles /\ s.bytes <= MaxExtractedSize)
  BY <1>2, MaterialiseConstants DEF CheckLimits, Accounting
<1> HIDE DEF s, err
<1>4. b.table = a.table /\ b.stats = s /\ b.error = err /\ b = [table |-> b.table, stats |-> b.stats, error |-> b.error]
  BY <1>1 DEF Tallied
<1>5. Tallied(b, x)
  BY <1>2, <1>4 DEF Tallied
<1> QED
  BY <1>2, <1>3, <1>4, <1>5

\* A file accounted without an error is new to the table, the directories above
\* it are directories, and the limits hold.
LEMMA FileAccounted ==
  ASSUME NEW a, Tallied(a, 0), a.error = "none", NEW S, NEW path \in Seq(S), NEW size \in Nat,
         NEW b, b = AccountBytes(Account(a, path, "file"), size)
  PROVE  /\ b.error \in Accounting
         /\ b.error = "none" =>
              /\ Tallied(b, 0) /\ path \notin DOMAIN a.table
              /\ DOMAIN b.table = DOMAIN a.table \cup Parents(path) \cup {path}
              /\ b.table[path].kind = "file"
              /\ \A p \in Parents(path) : b.table[p].kind = "dir" /\ p # path
              /\ \A p \in DOMAIN a.table : b.table[p].kind = a.table[p].kind
              /\ b.stats.bytes = a.stats.bytes + size
              /\ b.stats.files <= MaxExtractedFiles /\ b.stats.bytes <= MaxExtractedSize
<1> DEFINE e == Account(a, path, "file")
<1>1. e.error \in Accounting /\ (e.error = "none" => Declares(a, e, 0, path, "file"))
  BY EntryAccounted
<1>2. path \notin Parents(path)
  BY ParentsShorter
<1> HIDE DEF e
<1>3. b = AccountBytes(e, size)
  BY DEF e
<1>4. CASE e.error # "none"
  BY <1>1, <1>3, <1>4 DEF AccountBytes
<1>5. CASE e.error = "none"
  <2>1. Declares(a, e, 0, path, "file") /\ Tallied(e, 0)
    BY <1>1, <1>5 DEF Declares
  <2>2. /\ Tallied(b, 0) /\ b.table = e.table /\ b.error \in Accounting
        /\ b.stats.files = e.stats.files /\ b.stats.bytes = e.stats.bytes + size
        /\ b.error = "none" <=> b.stats.files <= MaxExtractedFiles /\ b.stats.bytes <= MaxExtractedSize
    BY <1>3, <1>5, <2>1, BytesAccounted
  <2>3. path \notin DOMAIN a.table
    BY <2>1 DEF Declares
  <2>4. e.table[path].kind = "file"
    BY <2>1 DEF Declares
  <2>5. /\ DOMAIN e.table = DOMAIN a.table \cup Parents(path) \cup {path}
        /\ \A p \in Parents(path) : e.table[p].kind = "dir"
        /\ \A p \in DOMAIN a.table : e.table[p] = a.table[p]
        /\ e.stats.bytes = a.stats.bytes
    BY <2>1, <2>3 DEF Declares
  <2> QED
    BY <1>2, <2>2, <2>3, <2>4, <2>5
<1> QED
  BY <1>4, <1>5

-----------------------------------------------------------------------------
(* A package fetched file by file.                                             *)

Manifest(m) ==
  /\ Len(m) \in Nat
  /\ \A i \in 1 .. Len(m) :
       /\ m[i] \in Range(m) /\ m[i].size \in Nat
       /\ m[i].name.parts \in Seq(Range(m[i].name.parts))
       /\ m[i].checksum = [form |-> m[i].checksum.form, of |-> m[i].checksum.of]

Name(m, i) == ManifestPath(m[i].name)

FirstNames(m, n) == {Name(m, i) : i \in 1 .. n}

Above(m, n) == UNION {Parents(Name(m, i)) : i \in 1 .. n}

SizeOf(m) == [i \in 1 .. Len(m) |-> m[i].size]

\* The first n files of a manifest have been accounted, in table t and counters s.
Preflighted(m, t, s, n) ==
  /\ Tallied([table |-> t, stats |-> s, error |-> "none"], 0)
  /\ DOMAIN t = FirstNames(m, n) \cup Above(m, n)
  /\ \A i \in 1 .. n : t[Name(m, i)].kind = "file" /\ Name(m, i) # <<>>
  /\ \A i, j \in 1 .. n : Name(m, i) = Name(m, j) => i = j
  /\ \A p \in Above(m, n) : t[p].kind = "dir"
  /\ s.bytes = SumFunctionOnSet(SizeOf(m), 1 .. n)
  /\ s.files <= MaxExtractedFiles /\ s.bytes <= MaxExtractedSize

\* The first n files of a manifest, and the directories they need, are on disk d.
Brought(m, d, n) ==
  /\ DOMAIN d = FirstNames(m, n) \cup Above(m, n)
  /\ \A i \in 1 .. n : /\ d[Name(m, i)].kind = "file" /\ d[Name(m, i)].size = m[i].size
                       /\ m[i].checksum = [form |-> "sha256-hex", of |-> d[Name(m, i)].content]
  /\ \A p \in Above(m, n) : d[p] = Directory
  /\ Weight(d) = SumFunctionOnSet(SizeOf(m), 1 .. n)

\* The manifests considered list files.
LEMMA Manifests == \A p \in Packages : Manifest(p.manifest)
<1> TAKE p \in Packages
<1>1. p.manifest \in Seq(Range(p.manifest))
  BY PackagesAssumption
<1>2. Len(p.manifest) \in Nat /\ \A i \in 1 .. Len(p.manifest) : p.manifest[i] \in Range(p.manifest)
  BY <1>1
<1> QED
  BY <1>2, PackagesAssumption DEF Manifest

\* One file more has the names up to it, and one more.
LEMMA OneMore ==
  ASSUME NEW m, NEW n \in Nat
  PROVE  /\ FirstNames(m, n + 1) = FirstNames(m, n) \cup {Name(m, n + 1)}
         /\ Above(m, n + 1) = Above(m, n) \cup Parents(Name(m, n + 1))
<1>1. 1 .. n + 1 = (1 .. n) \cup {n + 1}
  OBVIOUS
<1> QED
  BY <1>1 DEF FirstNames, Above

\* The sizes of the first of some files add up one by one, and are numbers.
LEMMA SizesSum ==
  ASSUME NEW m, Len(m) \in Nat, \A i \in 1 .. Len(m) : m[i].size \in Nat, NEW n \in 0 .. Len(m)
  PROVE  /\ SumFunctionOnSet(SizeOf(m), 1 .. 0) = 0
         /\ SumFunctionOnSet(SizeOf(m), 1 .. n) \in Nat
         /\ SumFunctionOnSet(SizeOf(m), 1 .. n) <= SumFunctionOnSet(SizeOf(m), 1 .. Len(m))
         /\ n < Len(m) => SumFunctionOnSet(SizeOf(m), 1 .. n + 1) = SumFunctionOnSet(SizeOf(m), 1 .. n) + m[n + 1].size
<1> DEFINE f == SizeOf(m)
           L == Len(m)
<1>1. L \in Nat /\ n \in Nat /\ n <= L
  OBVIOUS
<1>2. \A i \in 1 .. L : f[i] = m[i].size /\ f[i] \in Nat
  BY DEF SizeOf
<1> HIDE DEF f, L
<1>3. \A k \in Nat : IsFiniteSet(1 .. k)
  BY FS_Interval
<1>4. SumFunctionOnSet(f, 1 .. 0) = 0
  <2>1. 1 .. 0 = {} /\ IsFiniteSet(1 .. 0)
    BY <1>3
  <2> QED
    BY <2>1, SumStep
<1>5. \A i \in 1 .. n : f[i] \in Nat
  BY <1>1, <1>2
<1>6. SumFunctionOnSet(f, 1 .. n) \in Nat
  BY <1>1, <1>3, <1>5, SumNat
<1>7. SumFunctionOnSet(f, 1 .. n) <= SumFunctionOnSet(f, 1 .. L)
  <2>1. 1 .. n \in SUBSET (1 .. L)
    BY <1>1
  <2>2. IsFiniteSet(1 .. L)
    BY <1>1, <1>3
  <2>3. SumFunctionOnSet(f, 1 .. L) = SumFunctionOnSet(f, 1 .. n) + SumFunctionOnSet(f, (1 .. L) \ (1 .. n))
    BY <1>2, <2>1, <2>2, SumSplit
  <2>4. IsFiniteSet((1 .. L) \ (1 .. n)) /\ \A i \in (1 .. L) \ (1 .. n) : f[i] \in Nat
    BY <1>2, <2>2, FS_Difference
  <2>5. SumFunctionOnSet(f, (1 .. L) \ (1 .. n)) \in Nat
    BY <2>4, SumNat
  <2> QED
    BY <1>6, <2>3, <2>5
<1>8. ASSUME n < L PROVE SumFunctionOnSet(f, 1 .. n + 1) = SumFunctionOnSet(f, 1 .. n) + m[n + 1].size
  <2>1. 1 .. n + 1 = (1 .. n) \cup {n + 1} /\ n + 1 \notin 1 .. n /\ IsFiniteSet(1 .. n)
    BY <1>1, <1>3
  <2>2. n + 1 \in 1 .. L /\ \A i \in (1 .. n) \cup {n + 1} : f[i] \in Nat
    BY <1>1, <1>2, <1>8
  <2> DEFINE before == 1 .. n
             x == n + 1
  <2>3. IsFiniteSet(before) /\ x \notin before /\ \A i \in before \cup {x} : f[i] \in Nat
    BY <2>1, <2>2
  <2> HIDE DEF before, x
  <2>4. SumFunctionOnSet(f, before \cup {x}) = SumFunctionOnSet(f, before) + f[x]
    BY <2>3, SumWith
  <2>5. SumFunctionOnSet(f, 1 .. n + 1) = SumFunctionOnSet(f, 1 .. n) + f[n + 1]
    BY <2>1, <2>4, Zenon DEF before, x
  <2> QED
    BY <1>2, <2>2, <2>5
<1> QED
  BY <1>4, <1>6, <1>7, <1>8 DEF f, L

\* So do those of the files of a manifest.
LEMMA SizesAdd ==
  ASSUME NEW m, Manifest(m), NEW n \in 0 .. Len(m)
  PROVE  /\ SumFunctionOnSet(SizeOf(m), 1 .. 0) = 0
         /\ SumFunctionOnSet(SizeOf(m), 1 .. n) \in Nat
         /\ SumFunctionOnSet(SizeOf(m), 1 .. n) <= SumFunctionOnSet(SizeOf(m), 1 .. Len(m))
         /\ n < Len(m) => SumFunctionOnSet(SizeOf(m), 1 .. n + 1) = SumFunctionOnSet(SizeOf(m), 1 .. n) + m[n + 1].size
BY SizesSum DEF Manifest

\* Accounting for one file more, if it ends well, keeps what was said of those before.
LEMMA PreflightOneMore ==
  ASSUME NEW m, Manifest(m), NEW n \in 0 .. Len(m), n < Len(m), NEW t, NEW s, Preflighted(m, t, s, n),
         Name(m, n + 1) # <<>>, NEW S, Name(m, n + 1) \in Seq(S),
         NEW b,
         b = AccountBytes(Account([table |-> t, stats |-> s, error |-> "none"], Name(m, n + 1), "file"), m[n + 1].size),
         b.error = "none"
  PROVE  Preflighted(m, b.table, b.stats, n + 1)
<1> DEFINE a == [table |-> t, stats |-> s, error |-> "none"]
           path == Name(m, n + 1)
           size == m[n + 1].size
<1>1. n \in Nat /\ n + 1 \in 1 .. Len(m) /\ size \in Nat
  <2>1. Len(m) \in Nat /\ \A i \in 1 .. Len(m) : m[i].size \in Nat
    BY DEF Manifest
  <2>2. n + 1 \in 1 .. Len(m)
    BY <2>1
  <2> QED
    BY <2>1, <2>2
<1>2. Tallied(a, 0)
  BY DEF Preflighted
<1>a. a.table = t /\ a.stats = s /\ a.error = "none"
  OBVIOUS
<1> HIDE DEF a, size
<1>3. /\ Tallied(b, 0) /\ path \notin DOMAIN t
      /\ DOMAIN b.table = DOMAIN t \cup Parents(path) \cup {path}
      /\ b.table[path].kind = "file"
      /\ \A p \in Parents(path) : b.table[p].kind = "dir" /\ p # path
      /\ \A p \in DOMAIN t : b.table[p].kind = t[p].kind
      /\ b.stats.bytes = s.bytes + size
      /\ b.stats.files <= MaxExtractedFiles /\ b.stats.bytes <= MaxExtractedSize
  <2>1. b = AccountBytes(Account(a, path, "file"), size)
    BY DEF a, size
  <2> HIDE DEF path
  <2>2. path # <<>> /\ path \in Seq(S)
    BY DEF path
  <2> QED
    BY <1>1, <1>2, <1>a, <2>1, <2>2, FileAccounted
<1>4. FirstNames(m, n + 1) = FirstNames(m, n) \cup {path} /\ Above(m, n + 1) = Above(m, n) \cup Parents(path)
  BY <1>1, OneMore
<1>5. \A i \in 1 .. n + 1 : i \in 1 .. n \/ i = n + 1
  BY <1>1
<1>6. \A i \in 1 .. n : Name(m, i) \in DOMAIN t
  BY DEF Preflighted, FirstNames
<1>7. DOMAIN b.table = FirstNames(m, n + 1) \cup Above(m, n + 1)
  BY <1>3, <1>4 DEF Preflighted
<1>8. \A i \in 1 .. n + 1 : b.table[Name(m, i)].kind = "file" /\ Name(m, i) # <<>>
  BY <1>3, <1>5, <1>6 DEF Preflighted
<1>9. \A i, j \in 1 .. n + 1 : Name(m, i) = Name(m, j) => i = j
  BY <1>3, <1>5, <1>6 DEF Preflighted
<1>10. \A p \in Above(m, n + 1) : b.table[p].kind = "dir"
  BY <1>3, <1>4 DEF Preflighted
<1>11. b.stats.bytes = SumFunctionOnSet(SizeOf(m), 1 .. n + 1)
  BY <1>3, SizesAdd DEF Preflighted, size
<1>12. Tallied([table |-> b.table, stats |-> b.stats, error |-> "none"], 0)
  BY <1>3 DEF Tallied
<1> HIDE DEF path
<1> QED
  BY <1>3, <1>7, <1>8, <1>9, <1>10, <1>11, <1>12 DEF Preflighted

\* A directory adds no bytes.
LEMMA NewDirectory == Directory.size = 0
BY DEF Directory

\* Some of the directories Q, and maybe a file with k bytes c, are added to disk d.
Beginning(d, Q, F, k, c) ==
  [p \in DOMAIN d \cup Q \cup F |->
     IF p \in DOMAIN d THEN d[p]
     ELSE IF p \in Q THEN Directory ELSE [kind |-> "file", size |-> k, content |-> c]]

\* In a package whose files were all accounted, nothing is in the way of the next.
LEMMA NextFits ==
  ASSUME NEW m, Manifest(m), NEW t, NEW s, Preflighted(m, t, s, Len(m)),
         NEW n \in 0 .. Len(m), n < Len(m), NEW d, Brought(m, d, n)
  PROVE  LET path == Name(m, n + 1)
             P == Parents(path)
         IN  /\ Len(m) \in Nat /\ n \in Nat /\ n + 1 \in 1 .. Len(m) /\ m[n + 1].size \in Nat
             /\ path # <<>> /\ path \notin DOMAIN d /\ path \notin P /\ path \in DOMAIN t
             /\ P \subseteq DOMAIN t /\ DOMAIN d \subseteq DOMAIN t /\ P \subseteq Above(m, Len(m))
             /\ \A p \in P \cap DOMAIN d : d[p] = Directory
             /\ IsFiniteSet(DOMAIN d) /\ IsFiniteSet(P)
             /\ \A p \in DOMAIN d : d[p].size \in Nat
<1> DEFINE L == Len(m)
           path == Name(m, n + 1)
           P == Parents(path)
<1>1. L \in Nat /\ n \in Nat /\ n + 1 \in 1 .. L /\ m[n + 1].size \in Nat
  <2>1. Len(m) \in Nat /\ \A i \in 1 .. Len(m) : m[i].size \in Nat
    BY DEF Manifest
  <2>2. n + 1 \in 1 .. Len(m)
    BY <2>1
  <2> QED
    BY <2>1, <2>2
<1>2. \A i \in 1 .. n : i \in 1 .. L /\ i # n + 1
  BY <1>1
<1>3. DOMAIN t = FirstNames(m, L) \cup Above(m, L) /\ IsFiniteSet(DOMAIN t)
  BY DEF Preflighted, Tallied
<1>4. /\ P \subseteq Above(m, L) /\ Above(m, n) \subseteq Above(m, L) /\ FirstNames(m, n) \subseteq FirstNames(m, L)
      /\ path \in FirstNames(m, L)
  BY <1>1, <1>2 DEF Above, FirstNames
<1>6. t[path].kind = "file" /\ path # <<>> /\ \A p \in Above(m, L) : t[p].kind = "dir"
  BY <1>1 DEF Preflighted
<1>7. path \notin Above(m, L) /\ path \notin FirstNames(m, n)
  BY <1>1, <1>2, <1>6 DEF Preflighted, FirstNames
<1>8. \A i \in 1 .. n : Name(m, i) \notin Above(m, L) /\ m[i].size \in Nat
  BY <1>1, <1>2, <1>6 DEF Preflighted, Manifest
<1>9. /\ DOMAIN d = FirstNames(m, n) \cup Above(m, n) /\ \A p \in Above(m, n) : d[p] = Directory
      /\ \A i \in 1 .. n : d[Name(m, i)].size = m[i].size
  BY DEF Brought
<1> HIDE DEF path, P, L
<1>10. \A p \in DOMAIN d : d[p].size \in Nat
  BY <1>8, <1>9 DEF FirstNames, Directory
<1>11. \A p \in P \cap DOMAIN d : d[p] = Directory
  BY <1>4, <1>8, <1>9 DEF FirstNames
<1>12. DOMAIN d \subseteq DOMAIN t /\ P \subseteq DOMAIN t /\ path \in DOMAIN t
  BY <1>3, <1>4, <1>9
<1>13. IsFiniteSet(DOMAIN d) /\ IsFiniteSet(P)
  BY <1>3, <1>12, FS_Subset
<1>14. path \notin DOMAIN d /\ path \notin P
  BY <1>4, <1>7, <1>9
<1> QED
  BY <1>1, <1>4, <1>6, <1>10, <1>11, <1>12, <1>13, <1>14 DEF path, P, L

\* With the next file whole, one more has been brought.
LEMMA BroughtOneMore ==
  ASSUME NEW m, Manifest(m), NEW t, NEW s, Preflighted(m, t, s, Len(m)),
         NEW n \in 0 .. Len(m), n < Len(m), NEW d, Brought(m, d, n),
         NEW content, m[n + 1].checksum = [form |-> "sha256-hex", of |-> content]
  PROVE  Brought(m, Beginning(d, Parents(Name(m, n + 1)), {Name(m, n + 1)}, m[n + 1].size, content), n + 1)
<1> DEFINE L == Len(m)
           path == Name(m, n + 1)
           P == Parents(path)
           size == m[n + 1].size
           e == Beginning(d, P, {path}, size, content)
<1>1. /\ L \in Nat /\ n \in Nat /\ n + 1 \in 1 .. L /\ size \in Nat
      /\ path \notin DOMAIN d /\ path \notin P /\ \A p \in P \cap DOMAIN d : d[p] = Directory
      /\ IsFiniteSet(DOMAIN d) /\ IsFiniteSet(P) /\ \A p \in DOMAIN d : d[p].size \in Nat
  BY NextFits
<1>5. FirstNames(m, n + 1) = FirstNames(m, n) \cup {path} /\ Above(m, n + 1) = Above(m, n) \cup P
  BY <1>1, OneMore
<1>9. /\ DOMAIN d = FirstNames(m, n) \cup Above(m, n) /\ \A p \in Above(m, n) : d[p] = Directory
      /\ \A i \in 1 .. n : Name(m, i) \in DOMAIN d
  BY DEF Brought, FirstNames
<1> HIDE DEF path, P, L, size
<1>12. /\ DOMAIN e = DOMAIN d \cup P \cup {path}
       /\ e[path] = [kind |-> "file", size |-> size, content |-> content]
       /\ \A p \in DOMAIN d : e[p] = d[p]
       /\ \A p \in P : p \notin DOMAIN d => e[p] = Directory
  BY <1>1 DEF Beginning
<1> HIDE DEF e
<1>16. DOMAIN e = FirstNames(m, n + 1) \cup Above(m, n + 1)
  BY <1>5, <1>9, <1>12
<1>17. \A p \in Above(m, n + 1) : e[p] = Directory
  BY <1>1, <1>5, <1>9, <1>12
<1>18. \A i \in 1 .. n + 1 : /\ e[Name(m, i)].kind = "file" /\ e[Name(m, i)].size = m[i].size
                              /\ m[i].checksum = [form |-> "sha256-hex", of |-> e[Name(m, i)].content]
  <2> TAKE i \in 1 .. n + 1
  <2>1. CASE i \in 1 .. n
    BY <1>9, <1>12, <2>1 DEF Brought
  <2>2. CASE i = n + 1
    BY <1>12, <2>2 DEF path, size
  <2> QED
    BY <1>1, <2>1, <2>2
<1>19. Weight(e) = Weight(d) + size
  <2>1. IsFiniteSet(DOMAIN e)
    <3>1. IsFiniteSet(DOMAIN d \cup P)
      BY <1>1, FS_Union
    <3>2. IsFiniteSet((DOMAIN d \cup P) \cup {path})
      BY <3>1, FS_AddElement
    <3> QED
      BY <1>12, <3>2
  <2>2. Enlarged(d, e, {path}) /\ e[path].size = size
    BY <1>1, <1>12, <2>1, NewDirectory DEF Enlarged
  <2> QED
    BY <1>1, <1>12, <2>2, WeightAdds
<1>20. Weight(e) = SumFunctionOnSet(SizeOf(m), 1 .. n + 1)
  BY <1>1, <1>19, SizesAdd DEF Brought, size
<1>21. Brought(m, e, n + 1)
  BY <1>16, <1>17, <1>18, <1>20 DEF Brought
<1> QED
  BY <1>21 DEF e, path, P, size

\* The metadata of a package, once read, is authorised by the integrity expected.
Authorised(j) == VerifyIntegrity(j.content, j.expected) = "none"

\* All files were accounted.
Announced(j) == Authorised(j) /\ Preflighted(j.manifest, table, stats, Len(j.manifest))

\* All files were accounted, and the first n have been brought.
Supplying(j, n) == Announced(j) /\ Brought(j.manifest, disk, n)

\* So they were, and of the next one there is what Q, F, k and c say.
InHand(m, n, Q, F, k, c) == \E d : Brought(m, d, n) /\ disk = Beginning(d, Q, F, k, c)

\* It is there with its directories and k bytes.
Writing(m, n, k) == InHand(m, n, Parents(Name(m, n + 1)), {Name(m, n + 1)}, k, WrittenPart(k))

\* It may be there in part; if all of it is, then with the content listed.
Interrupted(j, n) ==
  /\ Announced(j) /\ n < Len(j.manifest)
  /\ \E Q \in SUBSET Parents(Name(j.manifest, n + 1)), F \in SUBSET {Name(j.manifest, n + 1)},
        k \in 0 .. j.manifest[n + 1].size :
     \E c :
       /\ InHand(j.manifest, n, Q, F, k, c)
       /\ k = j.manifest[n + 1].size => j.manifest[n + 1].checksum = [form |-> "sha256-hex", of |-> c]

\* What holds of a package at any time.
Packaged ==
  /\ job \in Packages /\ at \in 0 .. Len(job.manifest)
  /\ step \in {"metadata", "preflight", "files", "chunks", "done"} \cup Errors
  /\ step = "metadata" => at = 0
  /\ step \in {"metadata", "preflight"} => disk = Empty /\ Preflighted(job.manifest, table, stats, at)
  /\ step = "preflight" => Authorised(job)
  /\ step = "done" => at = Len(job.manifest)
  /\ step \in {"files", "done"} => Supplying(job, at)
  /\ step = "chunks" =>
       /\ Announced(job) /\ at < Len(job.manifest) /\ VerifyFile(File) = "none"
       /\ \E k \in 0 .. File.size : Writing(job.manifest, at, k)
  /\ step \in Errors => disk = Empty \/ Supplying(job, at) \/ Interrupted(job, at)

\* Nothing has been accounted at the start.
LEMMA NothingAccounted ==
  ASSUME NEW m, Manifest(m)
  PROVE  Preflighted(m, [p \in {} |-> 0], NoStats, 0)
<1> DEFINE t == [p \in {} |-> 0]
<1>1. FirstNames(m, 0) = {} /\ Above(m, 0) = {} /\ 1 .. 0 = {}
  BY DEF FirstNames, Above
<1>2. DOMAIN t = {} /\ IsFiniteSet(DOMAIN t) /\ Cardinality(DOMAIN t) = 0
  BY FS_EmptySet
<1>3. NoStats.files = 0 /\ NoStats.bytes = 0 /\ NoStats \in [files : Nat, bytes : Nat]
  BY DEF NoStats
<1> HIDE DEF t
<1>4. Tallied([table |-> t, stats |-> NoStats, error |-> "none"], 0)
  BY <1>2, <1>3 DEF Tallied
<1>5. SumFunctionOnSet(SizeOf(m), 1 .. 0) = 0
  <2>1. 0 \in 0 .. Len(m)
    BY DEF Manifest
  <2> QED
    BY <2>1, SizesAdd
<1>6. Preflighted(m, t, NoStats, 0)
  BY <1>1, <1>2, <1>3, <1>4, <1>5, MaterialiseConstants DEF Preflighted
<1> QED
  BY <1>6 DEF t

\* Nor has anything been brought.
LEMMA NothingBrought ==
  ASSUME NEW m, Manifest(m)
  PROVE  Brought(m, Empty, 0)
<1>1. FirstNames(m, 0) = {} /\ Above(m, 0) = {} /\ 1 .. 0 = {} /\ DOMAIN Empty = {}
  BY DEF FirstNames, Above, Empty
<1>2. Weight(Empty) = 0
  BY <1>1, FS_EmptySet, SumStep DEF Weight
<1>3. SumFunctionOnSet(SizeOf(m), 1 .. 0) = 0
  <2>1. 0 \in 0 .. Len(m)
    BY DEF Manifest
  <2> QED
    BY <2>1, SizesAdd
<1> QED
  BY <1>1, <1>2, <1>3 DEF Brought

\* A name that passes the check is a path, and leads somewhere.
LEMMA NamesLead ==
  ASSUME NEW m, Manifest(m), NEW i \in 1 .. Len(m)
  PROVE  /\ Name(m, i) \in Seq(Range(m[i].name.parts))
         /\ SafeManifestPath(m[i].name) => Name(m, i) # <<>>
<1>1. m[i].name.parts \in Seq(Range(m[i].name.parts))
  BY DEF Manifest
<1>2. /\ NormalizeRelative(m[i].name) \in Seq(Range(m[i].name.parts))
      /\ m[i].name.parts # <<>> /\ m[i].name.parts[1] # "." => NormalizeRelative(m[i].name) # <<>>
  BY <1>1, NormalizedParts
<1> QED
  BY <1>2 DEF Name, ManifestPath, SafeManifestPath

\* A file created on a disk where nothing is in its way is the beginning of it.
LEMMA FileBegins ==
  ASSUME NEW path, path \notin DOMAIN disk, path \notin Parents(path), NEW k, NEW c
  PROVE  WithFile(path, k, c) = Beginning(disk, Parents(path), {path}, k, c)
BY DEF WithFile, Made, Beginning

\* A file that was verified has the size and content listed.
LEMMA VerifiedFile ==
  ASSUME job \in Packages, at \in 0 .. Len(job.manifest), at < Len(job.manifest), VerifyFile(File) = "none"
  PROVE  /\ File = job.manifest[at + 1] /\ Name(job.manifest, at + 1) = ManifestPath(File.name)
         /\ File.size \in Nat /\ File.supply.size = File.size
         /\ File.checksum = [form |-> "sha256-hex", of |-> File.supply.content]
         /\ WrittenPart(File.size) = File.supply.content
<1>1. Manifest(job.manifest) /\ at + 1 \in 1 .. Len(job.manifest)
  BY Manifests DEF Manifest
<1>2. File = job.manifest[at + 1] /\ File.size \in Nat /\ File.checksum = [form |-> File.checksum.form, of |-> File.checksum.of]
  BY <1>1 DEF File, Manifest
<1>3. File.supply.size = File.size /\ VerifyJsrChecksum(File.supply.content, File.checksum) = "none"
  BY DEF VerifyFile
<1>4. File.checksum.form = "sha256-hex" /\ File.checksum.of = File.supply.content
  BY <1>3 DEF VerifyJsrChecksum
<1>5. File.checksum = [form |-> "sha256-hex", of |-> File.supply.content]
  BY <1>2, <1>4
<1> QED
  BY <1>2, <1>3, <1>5 DEF Name, WrittenPart

\* Whatever step is taken, it stays so.
LEMMA PackagedStep == Packaged /\ [PackageNext]_materialiseVars => Packaged'
<1> SUFFICES ASSUME Packaged, [PackageNext]_materialiseVars PROVE Packaged'
  OBVIOUS
<1> DEFINE m == job.manifest
           L == Len(m)
<1>1. job \in Packages /\ Manifest(m) /\ L \in Nat /\ at \in 0 .. L
  BY Manifests DEF Packaged, Manifest
<1>e. /\ "metadata" \notin Errors /\ "preflight" \notin Errors /\ "files" \notin Errors /\ "done" \notin Errors
      /\ "chunks" \notin Errors /\ "io" \in Errors /\ "fetch" \in Errors /\ "policy" \in Errors /\ "deadline" \in Errors
      /\ "limit" \in Errors /\ "extraction" \in Errors
  BY DEF Errors
<1> HIDE DEF m, L
<1>2. CASE UNCHANGED materialiseVars
  <2>1. UNCHANGED <<job, step, at, table, stats, disk>>
    BY <1>2 DEF materialiseVars
  <2>2. UNCHANGED <<Supplying(job, at), Interrupted(job, at), Announced(job), File, VerifyFile(File)>>
    BY <2>1 DEF Supplying, Announced, Interrupted, InHand, File, VerifyFile
  <2>3. ASSUME NEW k PROVE Writing(job.manifest, at, k)' <=> Writing(job.manifest, at, k)
    BY <2>1, <2>2 DEF Writing, InHand, WrittenPart
  <2> QED
    BY <2>1, <2>2, <2>3 DEF Packaged
<1>3. ASSUME NEW error \in {"deadline", "limit", "fetch", "policy", "extraction", "io"}, Fails(error),
             step \in {"metadata", "preflight", "files", "chunks"}
      PROVE  Packaged'
  <2>1. UNCHANGED <<job, at, table, stats, disk>> /\ step' \in Errors /\ step' \notin {"metadata", "preflight", "files", "chunks", "done"}
    BY <1>3, <1>e DEF Fails
  <2>2. disk = Empty \/ Supplying(job, at) \/ Interrupted(job, at)
    <3>1. CASE step = "chunks"
      <4>1. Announced(job) /\ at < Len(job.manifest) /\ VerifyFile(File) = "none"
        BY <3>1 DEF Packaged
      <4>2. PICK k \in 0 .. File.size : Writing(job.manifest, at, k)
        BY <3>1 DEF Packaged
      <4> QED
        BY <1>1, <4>1, <4>2, VerifiedFile DEF Interrupted, Writing, m, L
    <3> QED
      BY <1>3, <3>1 DEF Packaged
  <2> QED
    BY <2>1, <2>2 DEF Packaged, Supplying, Announced, Interrupted, InHand
<1>4. CASE ReadMetadata
  <2>1. step = "metadata" /\ VerifyIntegrity(job.content, job.expected) \in {"none", "policy", "fetch"}
    BY <1>4 DEF ReadMetadata, VerifyIntegrity
  <2>2. CASE \E error \in {"policy", "fetch"} : Fails(error)
    BY <1>3, <2>1, <2>2
  <2>3. CASE /\ Authorised(job) /\ step' = "preflight" /\ UNCHANGED <<job, at, table, stats, disk>>
    BY <1>e, <2>1, <2>3 DEF Packaged, Authorised
  <2> QED
    BY <1>4, <2>1, <2>2, <2>3 DEF ReadMetadata, Authorised
<1>5. CASE PreflightFile
  <2> DEFINE b == AccountBytes(Account(Accounts, Name(m, at + 1), "file"), m[at + 1].size)
  <2>1. step = "preflight" /\ at < L /\ at + 1 \in 1 .. L /\ at \in Nat
    BY <1>1, <1>5 DEF PreflightFile, MoreFiles, m, L
  <2>2. Name(m, at + 1) \in Seq(Range(m[at + 1].name.parts)) /\ (SafeManifestPath(m[at + 1].name) => Name(m, at + 1) # <<>>)
    BY <1>1, <2>1, NamesLead DEF L
  <2>3. Preflighted(m, table, stats, at) /\ disk = Empty /\ Authorised(job)
    BY <2>1 DEF Packaged, m
  <2>4. b.error \in Accounting
    <3>1. Tallied(Accounts, 0) /\ Accounts.error = "none"
      BY <2>3 DEF Preflighted, Accounts
    <3>2. m[at + 1].size \in Nat
      BY <1>1, <2>1 DEF Manifest, L
    <3> HIDE DEF b
    <3> QED
      BY <2>2, <3>1, <3>2, FileAccounted DEF b
  <2>5. \/ Fails("policy")
        \/ b.error # "none" /\ Fails(b.error)
        \/ /\ b.error = "none" /\ SafeManifestPath(m[at + 1].name)
           /\ table' = b.table /\ stats' = b.stats /\ at' = at + 1 /\ UNCHANGED <<job, step, disk>>
    BY <1>5 DEF PreflightFile, File, Name, m
  <2> HIDE DEF b
  <2>6. CASE Fails("policy") \/ (b.error # "none" /\ Fails(b.error))
    BY <1>3, <2>1, <2>4, <2>6 DEF Accounting
  <2>7. CASE /\ b.error = "none" /\ SafeManifestPath(m[at + 1].name)
             /\ table' = b.table /\ stats' = b.stats /\ at' = at + 1 /\ UNCHANGED <<job, step, disk>>
    <3>1. Preflighted(m, b.table, b.stats, at + 1)
      <4>1. b = AccountBytes(Account([table |-> table, stats |-> stats, error |-> "none"], Name(m, at + 1), "file"), m[at + 1].size)
        BY DEF b, Accounts
      <4> QED
        BY <1>1, <2>1, <2>2, <2>3, <2>7, <4>1, PreflightOneMore DEF L
    <3>2. at + 1 \in 0 .. Len(job.manifest)
      BY <2>1 DEF m, L
    <3>3. Preflighted(job.manifest, table', stats', at')
      BY <2>7, <3>1 DEF m
    <3> QED
      BY <1>e, <2>1, <2>3, <2>7, <3>2, <3>3 DEF Packaged
  <2> QED
    BY <2>5, <2>6, <2>7
<1>6. CASE PreflightFiles
  <2>1. step = "preflight" /\ at = L
    BY <1>1, <1>6 DEF PreflightFiles, MoreFiles, m, L
  <2>2. Preflighted(m, table, stats, L) /\ disk = Empty /\ Authorised(job)
    BY <2>1 DEF Packaged, m
  <2>3. Brought(m, disk, 0)
    BY <1>1, <2>2, NothingBrought
  <2>4. CASE Fails("fetch")
    BY <1>3, <2>1, <2>4
  <2>5. CASE step' = "files" /\ at' = 0 /\ UNCHANGED <<job, table, stats, disk>>
    <3>1. Supplying(job, 0)
      BY <2>2, <2>3 DEF Supplying, Announced, m, L
    <3>2. Supplying(job, at)'
      BY <2>5, <3>1 DEF Supplying, Announced
    <3>3. 0 \in 0 .. Len(job.manifest)
      BY <1>1 DEF L, m
    <3> QED
      BY <1>e, <2>5, <3>2, <3>3, <1>1 DEF Packaged
  <2> QED
    BY <1>6, <2>4, <2>5 DEF PreflightFiles
<1>7. ASSUME step = "files", at < L, Supplied = "none", VerifyFile(File) = "none"
      PROVE  /\ Announced(job) /\ Brought(m, disk, at)
             /\ ManifestPath(File.name) = Name(m, at + 1) /\ CanCreateFile(Name(m, at + 1))
             /\ Name(m, at + 1) \notin DOMAIN disk /\ Name(m, at + 1) \notin Parents(Name(m, at + 1))
  <2>1. Announced(job) /\ Brought(m, disk, at) /\ ManifestPath(File.name) = Name(m, at + 1)
    BY <1>1, <1>7, VerifiedFile DEF Packaged, Supplying, m, L
  <2> DEFINE path == Name(m, at + 1)
  <2>2. /\ path # <<>> /\ path \notin DOMAIN disk /\ path \notin Parents(path)
        /\ \A p \in Parents(path) \cap DOMAIN disk : disk[p] = Directory
    BY <1>1, <1>7, <2>1, NextFits DEF Announced, m, L
  <2>3. CanCreateFile(path)
    BY <2>2 DEF CanCreateFile, DirectoriesFit, Directory
  <2> QED
    BY <2>1, <2>2, <2>3
<1>10. CASE BringFile
  <2>1. step = "files" /\ at < L
    BY <1>1, <1>10 DEF BringFile, MoreFiles, m, L
  <2>2. Supplied \in {"none", "fetch", "policy"} /\ VerifyFile(File) \in {"none", "fetch"}
    BY DEF Supplied, Download, ReadCached, VerifyFile, VerifyJsrChecksum
  <2>3. CASE Supplied # "none" \/ VerifyFile(File) # "none"
    BY <1>3, <1>10, <2>1, <2>2, <2>3 DEF BringFile, CreateVerified
  <2>4. CASE Supplied = "none" /\ VerifyFile(File) = "none"
    <3> DEFINE path == Name(m, at + 1)
    <3>1. /\ Announced(job) /\ Brought(m, disk, at) /\ ManifestPath(File.name) = path /\ CanCreateFile(path)
          /\ path \notin DOMAIN disk /\ path \notin Parents(path)
      BY <1>7, <2>1, <2>4
    <3>2. disk' = WithFile(path, 0, WrittenPart(0)) /\ step' = "chunks" /\ UNCHANGED <<job, at, table, stats>>
      BY <1>10, <2>4, <3>1 DEF BringFile, CreateVerified
    <3>3. disk' = Beginning(disk, Parents(path), {path}, 0, WrittenPart(0))
      BY <3>1, <3>2, FileBegins
    <3>4. Writing(m, at, 0)'
      BY <3>1, <3>2, <3>3 DEF Writing, InHand, WrittenPart, File, m
    <3>5. File' = File /\ 0 \in 0 .. File.size /\ VerifyFile(File)' = "none"
      BY <1>1, <2>1, <2>4, <3>2, VerifiedFile DEF File, VerifyFile, m, L
    <3> QED
      BY <1>1, <1>e, <2>1, <3>1, <3>2, <3>4, <3>5 DEF Packaged, Announced, m, L
  <2> QED
    BY <2>3, <2>4
<1>11. CASE CreateFails
  <2>1. step = "files" /\ at < L /\ Supplied = "none" /\ VerifyFile(File) = "none"
    BY <1>1, <1>11 DEF CreateFails, MoreFiles, m, L
  <2> DEFINE path == Name(m, at + 1)
  <2>2. Announced(job) /\ Brought(m, disk, at) /\ ManifestPath(File.name) = path
    BY <1>7, <2>1
  <2>3. PICK n \in 0 .. Len(path) - 1 : disk' = Made({SubSeq(path, 1, i) : i \in 1 .. n})
    BY <1>11, <2>2 DEF CreateFails
  <2> DEFINE Q == {SubSeq(path, 1, i) : i \in 1 .. n}
  <2>4. Q \in SUBSET Parents(path)
    <3>1. path \in Seq(Range(m[at + 1].name.parts))
      BY <1>1, <2>1, NamesLead DEF L
    <3>2. Len(path) \in Nat
      BY <3>1
    <3> HIDE DEF path
    <3> QED
      BY <3>2 DEF Parents
  <2>5. disk' = Beginning(disk, Q, {}, 0, File.supply.content)
    BY <2>3 DEF Made, Beginning
  <2>6. step' = "io" /\ UNCHANGED <<job, at, table, stats>>
    BY <1>11 DEF CreateFails
  <2>7. 0 \in 0 .. m[at + 1].size /\ m[at + 1].checksum = [form |-> "sha256-hex", of |-> File.supply.content]
    BY <1>1, <2>1, VerifiedFile DEF m, L
  <2> HIDE DEF Q
  <2>8. \E d : Brought(m, d, at) /\ disk' = Beginning(d, Q, {}, 0, File.supply.content)
    BY <2>2, <2>5
  <2>9. Interrupted(job, at)'
    BY <2>1, <2>2, <2>4, <2>6, <2>7, <2>8 DEF Interrupted, InHand, Announced, m, L
  <2> QED
    BY <1>1, <1>e, <2>6, <2>9 DEF Packaged, m, L
<1>12. ASSUME step = "chunks"
       PROVE  /\ Announced(job) /\ at < L /\ VerifyFile(File) = "none" /\ ManifestPath(File.name) = Name(m, at + 1)
              /\ File = m[at + 1] /\ File.size \in Nat /\ File.supply.size = File.size
              /\ File.checksum = [form |-> "sha256-hex", of |-> File.supply.content]
              /\ WrittenPart(File.size) = File.supply.content
              /\ \E d : /\ Brought(m, d, at) /\ SizeOnDisk \in 0 .. File.size
                        /\ disk = Beginning(d, Parents(Name(m, at + 1)), {Name(m, at + 1)}, SizeOnDisk, WrittenPart(SizeOnDisk))
                        /\ Name(m, at + 1) \notin DOMAIN d /\ Name(m, at + 1) \notin Parents(Name(m, at + 1))
  <2> DEFINE path == Name(m, at + 1)
             P == Parents(path)
  <2>1. Announced(job) /\ at < L /\ VerifyFile(File) = "none"
    BY <1>12 DEF Packaged, m, L
  <2>2. /\ ManifestPath(File.name) = path /\ File = m[at + 1] /\ File.size \in Nat /\ File.supply.size = File.size
        /\ File.checksum = [form |-> "sha256-hex", of |-> File.supply.content] /\ WrittenPart(File.size) = File.supply.content
    BY <1>1, <2>1, VerifiedFile DEF m, L
  <2>a. PICK k \in 0 .. File.size : Writing(m, at, k)
    BY <1>12 DEF Packaged, m
  <2>3. PICK d : Brought(m, d, at) /\ disk = Beginning(d, P, {path}, k, WrittenPart(k))
    BY <2>a DEF Writing, InHand
  <2>4. path \notin DOMAIN d /\ path \notin P
    BY <1>1, <2>1, <2>3, NextFits DEF Announced, m, L
  <2>5. SizeOnDisk = k
    BY <2>2, <2>3, <2>4 DEF SizeOnDisk, Beginning
  <2> QED
    BY <2>1, <2>2, <2>3, <2>4, <2>5
<1>13. CASE WriteChunk
  <2> DEFINE path == Name(m, at + 1)
             P == Parents(path)
  <2>1. step = "chunks" /\ UNCHANGED <<job, step, at, table, stats>>
    BY <1>13 DEF WriteChunk
  <2>2. PICK d : /\ Brought(m, d, at) /\ SizeOnDisk \in 0 .. File.size
                 /\ disk = Beginning(d, P, {path}, SizeOnDisk, WrittenPart(SizeOnDisk))
                 /\ path \notin DOMAIN d /\ path \notin P
    BY <1>12, <2>1
  <2>3. PICK n \in SizeOnDisk + 1 .. File.size :
          disk' = [disk EXCEPT ![path] = [kind |-> "file", size |-> n, content |-> WrittenPart(n)]]
    BY <1>12, <1>13, <2>1 DEF WriteChunk
  <2>4. disk' = Beginning(d, P, {path}, n, WrittenPart(n))
    BY <2>2, <2>3 DEF Beginning
  <2>5. n \in 0 .. File.size
    BY <1>12, <2>1, <2>2, <2>3
  <2>6. File' = File /\ VerifyFile(File)' = "none"
    BY <1>12, <2>1 DEF File, VerifyFile
  <2>7. Writing(m, at, n)'
    BY <2>1, <2>2, <2>4 DEF Writing, InHand, WrittenPart, File, m
  <2> QED
    BY <1>1, <1>e, <1>12, <2>1, <2>5, <2>6, <2>7 DEF Packaged, Announced, m, L
<1>14. CASE WriteFails
  BY <1>3, <1>14 DEF WriteFails
<1>15. CASE FileWritten
  <2> DEFINE path == Name(m, at + 1)
  <2>1. step = "chunks" /\ SizeOnDisk = File.size /\ step' = "files" /\ at' = at + 1 /\ UNCHANGED <<job, table, stats, disk>>
    BY <1>12, <1>15 DEF FileWritten
  <2>2. PICK d : Brought(m, d, at) /\ disk = Beginning(d, Parents(path), {path}, File.size, File.supply.content)
    BY <1>12, <2>1
  <2>3. Announced(job) /\ at < L /\ m[at + 1].size = File.size
        /\ m[at + 1].checksum = [form |-> "sha256-hex", of |-> File.supply.content]
    BY <1>12, <2>1
  <2>4. Brought(m, disk, at + 1)
    BY <1>1, <2>2, <2>3, BroughtOneMore DEF Announced, m, L
  <2>5. Supplying(job, at)'
    BY <2>1, <2>3, <2>4 DEF Supplying, Announced, m
  <2>6. at + 1 \in 0 .. Len(job.manifest)
    BY <1>1, <2>3 DEF m, L
  <2> QED
    BY <1>1, <1>e, <2>1, <2>5, <2>6 DEF Packaged
<1>8. CASE FilesBrought
  <2>1. step = "files" /\ at = L
    BY <1>1, <1>8 DEF FilesBrought, MoreFiles, m, L
  <2>2. step' = "done" /\ UNCHANGED <<job, at, table, stats, disk>>
    BY <1>8 DEF FilesBrought
  <2>3. Supplying(job, at)'
    BY <2>1, <2>2 DEF Packaged, Supplying, Announced
  <2> QED
    BY <1>1, <1>e, <2>1, <2>2, <2>3 DEF Packaged, m, L
<1>9. CASE Expires
  <2>1. step \in {"metadata", "preflight", "files", "chunks"} /\ Fails("deadline")
    BY <1>9 DEF Expires, Packaged
  <2> QED
    BY <1>3, <2>1
<1> QED
  BY <1>2, <1>4, <1>5, <1>6, <1>8, <1>9, <1>10, <1>11, <1>13, <1>14, <1>15 DEF PackageNext

\* Beyond disk d there are the directories Q and the files F, of that size and content.
Onwards(d, Q, F, k, c) ==
  /\ k \in Nat
  /\ DOMAIN disk = DOMAIN d \cup Q \cup F /\ \A p \in DOMAIN d : disk[p] = d[p]
  /\ \A p \in Q : p \notin DOMAIN d => disk[p] = Directory
  /\ \A p \in F : disk[p] = [kind |-> "file", size |-> k, content |-> c]
  /\ step \in {"files", "done"} => disk = d
  /\ \/ Q = {} /\ F = {}
     \/ /\ at < Len(job.manifest) /\ step \in {"chunks"} \cup Errors
        /\ Q \subseteq Parents(Name(job.manifest, at + 1)) /\ F \subseteq {Name(job.manifest, at + 1)}
        /\ k <= job.manifest[at + 1].size
        /\ k = job.manifest[at + 1].size => job.manifest[at + 1].checksum = [form |-> "sha256-hex", of |-> c]

\* What has been brought of a package is what its manifest lists, and what is
\* begun of the next file is within what it lists.
LEMMA SuppliedMatches ==
  ASSUME Packaged, Announced(job), NEW d, Brought(job.manifest, d, at), NEW Q, NEW F, NEW k, NEW c, Onwards(d, Q, F, k, c)
  PROVE  PackageMatchesManifest
<1> USE DEF Onwards
<1> DEFINE m == job.manifest
           L == Len(m)
           path == Name(m, at + 1)
<1>1. job \in Packages /\ Manifest(m) /\ L \in Nat /\ at \in 0 .. L
  BY Manifests DEF Packaged, Manifest
<1>2. Authorised(job) /\ Preflighted(m, table, stats, L) /\ Brought(m, d, at)
  BY DEF Announced
<1>a. at < L => /\ path # <<>> /\ path \notin DOMAIN d /\ path \notin Parents(path) /\ path \in DOMAIN table
                /\ Parents(path) \subseteq DOMAIN table /\ Parents(path) \subseteq Above(m, L)
                /\ \A p \in Parents(path) \cap DOMAIN d : d[p] = Directory
                /\ m[at + 1].size \in Nat /\ IsFiniteSet(Parents(path))
  BY <1>1, <1>2, NextFits
<1>3. Range(m) = {m[i] : i \in 1 .. L}
  <2>1. m \in Seq(Range(m))
    BY <1>1, PackagesAssumption
  <2>2. DOMAIN m = 1 .. L
    BY <2>1
  <2> QED
    BY <2>2 DEF Range
<1>4. ManifestPaths = FirstNames(m, L) /\ Directories = Above(m, L)
  <2>1. ManifestPaths = FirstNames(m, L)
    BY <1>3 DEF ManifestPaths, FirstNames, Name
  <2>2. Above(m, L) = UNION {Parents(p) : p \in FirstNames(m, L)}
    BY DEF Above, FirstNames
  <2> QED
    BY <2>1, <2>2 DEF Directories
<1> HIDE DEF m, L, path
<1>5. FirstNames(m, at) \subseteq FirstNames(m, L) /\ Above(m, at) \subseteq Above(m, L)
  <2>1. \A i \in 1 .. at : i \in 1 .. L
    BY <1>1
  <2> QED
    BY <2>1 DEF FirstNames, Above
<1>6. \E t \in Range(job.expected) : t.of = job.content
  <2>1. DecisiveTokens(job.expected) \subseteq Range(job.expected)
    BY DEF DecisiveTokens, StrongestTokens, Tokens
  <2>2. \E t \in DecisiveTokens(job.expected) : t.of = job.content
    BY <1>2 DEF Authorised, VerifyIntegrity
  <2> QED
    BY <2>1, <2>2
<1>7. ASSUME NEW p \in DOMAIN d
      PROVE  IF d[p].kind = "dir" THEN p \in Directories ELSE Listed(p, d[p])
  <2>1. CASE p \in Above(m, at)
    <3>1. d[p].kind = "dir"
      BY <1>2, <2>1 DEF Brought, Directory
    <3> QED
      BY <1>4, <1>5, <2>1, <3>1
  <2>2. CASE p \in FirstNames(m, at)
    <3>1. PICK i \in 1 .. at : p = Name(m, i)
      BY <2>2 DEF FirstNames
    <3>2. /\ d[p].kind = "file" /\ d[p].size = m[i].size
          /\ m[i].checksum = [form |-> "sha256-hex", of |-> d[p].content]
      BY <1>2, <3>1 DEF Brought
    <3>3. m[i] \in Range(job.manifest) /\ ManifestPath(m[i].name) = p
      BY <1>1, <1>3, <3>1 DEF Name, m
    <3>4. Listed(p, d[p])
      BY <3>2, <3>3 DEF Listed
    <3> QED
      BY <3>2, <3>4
  <2> QED
    BY <1>2, <2>1, <2>2 DEF Brought
<1>b. ASSUME NEW p \in DOMAIN disk
      PROVE  IF disk[p].kind = "dir" THEN p \in Directories ELSE Listed(p, disk[p]) \/ Begun(p, disk[p])
  <2>1. CASE p \in DOMAIN d
    BY <1>7, <2>1
  <2>2. CASE p \in Q /\ p \notin DOMAIN d
    BY <1>4, <1>a, <2>2 DEF Directory, m, L, path
  <2>3. CASE p \in F
    <3>1. /\ at < L /\ step \in {"chunks"} \cup Errors /\ p = path /\ k <= m[at + 1].size
          /\ disk[p] = [kind |-> "file", size |-> k, content |-> c]
          /\ k = m[at + 1].size => m[at + 1].checksum = [form |-> "sha256-hex", of |-> c]
      BY <2>3 DEF m, L, path
    <3>2. at + 1 \in 1 .. L /\ m[at + 1] \in Range(job.manifest) /\ p = ManifestPath(m[at + 1].name)
      BY <1>1, <1>3, <3>1 DEF m, Name, path
    <3>3. k = m[at + 1].size => Listed(p, disk[p])
      BY <3>1, <3>2 DEF Listed
    <3>4. k < m[at + 1].size => Begun(p, disk[p])
      BY <3>1, <3>2 DEF Begun, MoreFiles, File, m, L
    <3> QED
      BY <1>a, <3>1, <3>3, <3>4
  <2> QED
    BY <2>1, <2>2, <2>3
<1>8. /\ IsFiniteSet(DOMAIN table) /\ stats.files = Cardinality(DOMAIN table)
      /\ stats = [files |-> stats.files, bytes |-> stats.bytes]
      /\ stats.files <= MaxExtractedFiles /\ stats.bytes <= MaxExtractedSize
      /\ DOMAIN table = FirstNames(m, L) \cup Above(m, L)
      /\ stats.files \in Nat /\ stats.bytes \in Nat
  <2>1. IsFiniteSet(DOMAIN table) /\ stats.files = Cardinality(DOMAIN table) + 0
    BY <1>2 DEF Preflighted, Tallied
  <2>2. stats.files = Cardinality(DOMAIN table)
    BY <2>1, FS_CardinalityType
  <2> QED
    BY <1>2, <2>1, <2>2 DEF Preflighted, Tallied
<1>9. DOMAIN d = FirstNames(m, at) \cup Above(m, at)
  BY <1>2 DEF Brought
<1>10. IsFiniteSet(DOMAIN disk) /\ Cardinality(DOMAIN disk) \in Nat /\ Cardinality(DOMAIN disk) <= stats.files
  <2>1. DOMAIN disk \subseteq DOMAIN table
    BY <1>5, <1>8, <1>9, <1>a DEF m, L, path
  <2> QED
    BY <1>8, <2>1, FS_Subset, FS_CardinalityType
<1>11. BytesOnDisk = Weight(disk)
  <2> DEFINE f == [p \in DOMAIN disk |-> disk[p].size]
  <2>1. BytesOnDisk = SumFunctionOnSet(f, DOMAIN f) /\ DOMAIN f = DOMAIN disk
    BY Zenon DEF BytesOnDisk, SumFunction
  <2> QED
    BY <2>1 DEF Weight
<1>12. stats.bytes = SumFunctionOnSet(SizeOf(m), 1 .. L) /\ Weight(d) = SumFunctionOnSet(SizeOf(m), 1 .. at)
  BY <1>2 DEF Preflighted, Brought
<1>13. Weight(disk) \in Nat /\ Weight(disk) <= stats.bytes
  <2>1. Weight(d) \in Nat /\ Weight(d) <= stats.bytes
    BY <1>1, <1>12, SizesAdd DEF L
  <2>2. IsFiniteSet(DOMAIN d) /\ IsFiniteSet(Q)
    BY <1>10, FS_Subset
  <2>3. ASSUME NEW p \in DOMAIN d PROVE d[p].size \in Nat
    <3>1. CASE p \in Above(m, at)
      BY <1>2, <3>1 DEF Brought, Directory
    <3>2. CASE p \in FirstNames(m, at)
      <4>1. PICK i \in 1 .. at : p = Name(m, i)
        BY <3>2 DEF FirstNames
      <4>2. i \in 1 .. L
        BY <1>1, <4>1
      <4>3. m[i].size \in Nat
        BY <1>1, <4>2 DEF Manifest, L
      <4> QED
        BY <1>2, <4>1, <4>3 DEF Brought
    <3> QED
      BY <1>9, <3>1, <3>2
  <2>4. CASE F = {}
    <3>2. Enlarged(d, disk, {})
      BY <1>10, <2>3, <2>4, NewDirectory DEF Enlarged
    <3>1. Weight(disk) = Weight(d)
      BY <3>2, WeightStays
    <3> QED
      BY <2>1, <3>1
  <2>5. CASE F # {}
    <3>1. at < L /\ F = {path} /\ Q \subseteq Parents(path) /\ k <= m[at + 1].size
      BY <2>5 DEF m, L, path
    <3>2. path \notin DOMAIN d /\ path \notin Q /\ disk[path].size = k
      BY <1>a, <3>1
    <3>5. Enlarged(d, disk, {path})
      BY <1>10, <2>3, <3>1, NewDirectory DEF Enlarged
    <3>3. Weight(disk) = Weight(d) + k
      BY <3>1, <3>2, <3>5, WeightAdds
    <3>4. Weight(d) + m[at + 1].size <= stats.bytes
      <4>1. at + 1 \in 0 .. L /\ SumFunctionOnSet(SizeOf(m), 1 .. at + 1) = Weight(d) + m[at + 1].size
        BY <1>1, <1>12, <3>1, SizesAdd DEF L
      <4> QED
        BY <1>1, <1>12, <4>1, SizesAdd DEF L
    <3> QED
      BY <1>8, <1>a, <2>1, <3>1, <3>3, <3>4
  <2> QED
    BY <2>4, <2>5
<1>14. Cardinality(DOMAIN disk) <= MaxExtractedFiles /\ BytesOnDisk <= MaxExtractedSize
  BY <1>8, <1>10, <1>11, <1>13, MaterialiseConstants
<1>15. ASSUME step = "done"
       PROVE  /\ ManifestPaths \cap Directories = {}
              /\ DOMAIN disk = ManifestPaths \cup Directories
              /\ stats = [files |-> Cardinality(DOMAIN disk), bytes |-> BytesOnDisk]
  <2>1. at = L /\ disk = d
    BY <1>15 DEF Packaged, m, L
  <2>2. DOMAIN disk = FirstNames(m, L) \cup Above(m, L) /\ DOMAIN disk = DOMAIN table
    BY <1>8, <1>9, <2>1
  <2>3. \A p \in FirstNames(m, L) : p \notin Above(m, L)
    BY <1>2 DEF Preflighted, FirstNames
  <2>4. stats.bytes = BytesOnDisk
    BY <1>11, <1>12, <2>1
  <2> QED
    BY <1>4, <1>8, <2>2, <2>3, <2>4
<1>16. step = "files" /\ MoreFiles => CanCreateFile(ManifestPath(File.name))
  <2> SUFFICES ASSUME step = "files", MoreFiles PROVE CanCreateFile(ManifestPath(File.name))
    OBVIOUS
  <2>1. disk = d /\ at < L /\ ManifestPath(File.name) = path
    BY DEF MoreFiles, File, Name, path, m, L
  <2> QED
    BY <1>a, <2>1 DEF CanCreateFile, DirectoriesFit, Directory
<1> QED
  BY <1>6, <1>14, <1>15, <1>16, <1>b DEF PackageMatchesManifest

\* Whatever file of a package fails and at whatever point, what is on disk is
\* listed in its verified manifest and within the limits, but for one file that
\* was begun and is shorter; a package that is brought to an end is complete,
\* and nothing is ever in the way of the next file.
THEOREM PackagesMatch == PackageSpec => []PackageMatchesManifest
<1>1. PackageInit => Packaged
  <2> SUFFICES ASSUME PackageInit PROVE Packaged
    OBVIOUS
  <2>1. job \in Packages /\ Manifest(job.manifest) /\ step = "metadata" /\ at = 0 /\ disk = Empty
    BY Manifests DEF PackageInit
  <2>2. table = [p \in {} |-> 0] /\ stats = NoStats
    BY DEF PackageInit
  <2>3. Preflighted(job.manifest, table, stats, at)
    BY <2>1, <2>2, NothingAccounted, Zenon
  <2>4. at \in 0 .. Len(job.manifest)
    BY <2>1 DEF Manifest
  <2> QED
    BY <2>1, <2>3, <2>4 DEF Packaged, Errors
<1>2. Packaged => PackageMatchesManifest
  <2> SUFFICES ASSUME Packaged PROVE PackageMatchesManifest
    OBVIOUS
  <2>1. CASE Supplying(job, at)
    <3>1. Announced(job) /\ Brought(job.manifest, disk, at)
      BY <2>1 DEF Supplying
    <3>2. Onwards(disk, {}, {}, 0, 0)
      BY DEF Onwards
    <3> QED
      BY <3>1, <3>2, SuppliedMatches
  <2>3. ASSUME NEW d, NEW k \in 0 .. job.manifest[at + 1].size, NEW c, Announced(job), at < Len(job.manifest),
               NEW Q \in SUBSET Parents(Name(job.manifest, at + 1)), NEW F \in SUBSET {Name(job.manifest, at + 1)},
               Brought(job.manifest, d, at), disk = Beginning(d, Q, F, k, c), step \in {"chunks"} \cup Errors,
               k = job.manifest[at + 1].size => job.manifest[at + 1].checksum = [form |-> "sha256-hex", of |-> c]
        PROVE  PackageMatchesManifest
    <3>1. Manifest(job.manifest) /\ at \in 0 .. Len(job.manifest)
      BY Manifests DEF Packaged
    <3>2. /\ job.manifest[at + 1].size \in Nat
          /\ Name(job.manifest, at + 1) \notin DOMAIN d \cup Parents(Name(job.manifest, at + 1))
      BY <2>3, <3>1, NextFits DEF Announced
    <3>3. /\ DOMAIN disk = DOMAIN d \cup Q \cup F /\ \A p \in DOMAIN d : disk[p] = d[p]
          /\ \A p \in Q : p \notin DOMAIN d => disk[p] = Directory
          /\ \A p \in F : disk[p] = [kind |-> "file", size |-> k, content |-> c]
      BY <2>3, <3>2 DEF Beginning
    <3>4. step \notin {"files", "done"} /\ k \in Nat /\ k <= job.manifest[at + 1].size
      BY <2>3, <3>2 DEF Errors
    <3>5. Onwards(d, Q, F, k, c)
      BY <2>3, <3>3, <3>4 DEF Onwards
    <3> QED
      BY <2>3, <3>5, SuppliedMatches
  <2>4. CASE Interrupted(job, at) /\ step \in Errors
    BY <2>3, <2>4 DEF Interrupted, InHand
  <2>5. CASE step = "chunks"
    <3>1. Announced(job) /\ at < Len(job.manifest) /\ VerifyFile(File) = "none"
      BY <2>5 DEF Packaged
    <3>2. PICK k \in 0 .. File.size : Writing(job.manifest, at, k)
      BY <2>5 DEF Packaged
    <3>3. /\ File = job.manifest[at + 1]
          /\ k = File.size => File.checksum = [form |-> "sha256-hex", of |-> WrittenPart(k)]
      BY <3>1, VerifiedFile DEF Packaged
    <3> QED
      BY <2>3, <2>5, <3>1, <3>2, <3>3 DEF Writing, InHand
  <2>2. CASE ~Supplying(job, at) /\ ~(Interrupted(job, at) /\ step \in Errors) /\ step # "chunks"
    <3>1. disk = Empty /\ step # "done" /\ step # "files"
      BY <2>2 DEF Packaged
    <3>2. DOMAIN disk = {} /\ Cardinality(DOMAIN disk) = 0
      BY <3>1, FS_EmptySet DEF Empty
    <3>3. BytesOnDisk = 0
      <4> DEFINE f == [p \in DOMAIN disk |-> disk[p].size]
      <4>1. BytesOnDisk = SumFunctionOnSet(f, DOMAIN f) /\ DOMAIN f = DOMAIN disk
        BY Zenon DEF BytesOnDisk, SumFunction
      <4> QED
        BY <3>2, <4>1, FS_EmptySet, SumStep
    <3> QED
      BY <3>1, <3>2, <3>3, MaterialiseConstants DEF PackageMatchesManifest
  <2> QED
    BY <2>1, <2>2, <2>4, <2>5
<1> QED
  BY <1>1, <1>2, PackagedStep, PTL DEF PackageSpec


-----------------------------------------------------------------------------
(* Archives unpacked entry by entry.  l is the list of the entries, D the set   *)
(* of the indices of those that declare a path.                                 *)

EntryPath(l, i) == NormalizeRelative(l[i].path)

Entries(l, D) ==
  /\ Len(l) \in Nat /\ D \subseteq 1 .. Len(l)
  /\ \A i \in 1 .. Len(l) : l[i].size \in Nat /\ EntryPath(l, i) \in Seq(Range(l[i].path.parts))

\* The paths there are with the first n entries, and the number of the entries
\* among them that declare none.
FirstPaths(l, D, n) == UNION {Parents(EntryPath(l, i)) \cup {EntryPath(l, i)} : i \in D \cap (1 .. n)}

Others(D, n) == Cardinality((1 .. n) \ D)

\* The first n entries can stand beside each other.
Compatible(l, D, n) ==
  /\ \A i \in 1 .. n : l[i].actual = l[i].size
  /\ \A i \in D \cap (1 .. n) : SafeRelative(l[i].path) /\ l[i].type \in {"file", "dir"}
  /\ \A i, j \in D \cap (1 .. n) : i # j =>
       /\ EntryPath(l, i) # EntryPath(l, j)
       /\ l[i].type = "file" => EntryPath(l, i) \notin Parents(EntryPath(l, j))

\* All entries can, within the limits.
Extractable(l, D) ==
  /\ Compatible(l, D, Len(l))
  /\ Cardinality(FirstPaths(l, D, Len(l))) + Others(D, Len(l)) <= MaxExtractedFiles
  /\ SumFunctionOnSet(SizeOf(l), 1 .. Len(l)) <= MaxExtractedSize

\* The first n entries have been accounted, in table t and counters s.
Catalogued(l, D, t, s, n) ==
  /\ Compatible(l, D, n)
  /\ Tallied([table |-> t, stats |-> s, error |-> "none"], Others(D, n))
  /\ DOMAIN t = FirstPaths(l, D, n)
  /\ \A p \in DOMAIN t : (t[p].explicit <=> \E i \in D \cap (1 .. n) : EntryPath(l, i) = p)
  /\ \A i \in D \cap (1 .. n) : t[EntryPath(l, i)].kind = l[i].type
  /\ \A i \in D \cap (1 .. n) : \A p \in Parents(EntryPath(l, i)) : t[p].kind = "dir"
  /\ s.bytes = SumFunctionOnSet(SizeOf(l), 1 .. n)
  /\ s.files <= MaxExtractedFiles /\ s.bytes <= MaxExtractedSize

\* The first n entries, and the directories above them, are on disk d.
Unpacked(l, D, d, n) ==
  /\ DOMAIN d = FirstPaths(l, D, n) \ {<<>>}
  /\ \A p \in DOMAIN d : d[p].size \in Nat
  /\ \A i \in D \cap (1 .. n) : EntryPath(l, i) # <<>> =>
       /\ d[EntryPath(l, i)].kind = l[i].type
       /\ l[i].type = "file" => d[EntryPath(l, i)].content = l[i].path
  /\ Weight(d) <= SumFunctionOnSet(SizeOf(l), 1 .. n)

\* One entry more brings its path and those above it, or is one more that
\* declares none.
LEMMA OneEntryMore ==
  ASSUME NEW l, NEW D, NEW n \in Nat
  PROVE  /\ \A i \in D \cap (1 .. n + 1) : i \in D \cap (1 .. n) \/ (i = n + 1 /\ n + 1 \in D)
         /\ \A i \in D \cap (1 .. n) : i \in D \cap (1 .. n + 1) /\ i # n + 1
         /\ Others(D, n) \in Nat
         /\ n + 1 \in D =>
              /\ FirstPaths(l, D, n + 1) = FirstPaths(l, D, n) \cup Parents(EntryPath(l, n + 1)) \cup {EntryPath(l, n + 1)}
              /\ Others(D, n + 1) = Others(D, n)
         /\ n + 1 \notin D =>
              FirstPaths(l, D, n + 1) = FirstPaths(l, D, n) /\ Others(D, n + 1) = Others(D, n) + 1
<1>1. 1 .. n + 1 = (1 .. n) \cup {n + 1} /\ n + 1 \notin 1 .. n
  OBVIOUS
<1>2. n + 1 \in D => D \cap (1 .. n + 1) = (D \cap (1 .. n)) \cup {n + 1}
  BY <1>1
<1>3. n + 1 \notin D => D \cap (1 .. n + 1) = D \cap (1 .. n)
  BY <1>1
<1>4. IsFiniteSet((1 .. n) \ D)
  <2>1. IsFiniteSet(1 .. n)
    BY FS_Interval
  <2> QED
    BY <2>1, FS_Difference
<1>5. n + 1 \in D => (1 .. n + 1) \ D = (1 .. n) \ D
  BY <1>1
<1>6. n + 1 \notin D => (1 .. n + 1) \ D = ((1 .. n) \ D) \cup {n + 1} /\ n + 1 \notin (1 .. n) \ D
  BY <1>1
<1>7. Others(D, n) \in Nat
  BY <1>4, FS_CardinalityType DEF Others
<1>8. n + 1 \notin D => Others(D, n + 1) = Others(D, n) + 1
  BY <1>4, <1>6, FS_AddElement DEF Others
<1>9. n + 1 \in D => Others(D, n + 1) = Others(D, n)
  BY <1>5 DEF Others
<1>10. n + 1 \in D => FirstPaths(l, D, n + 1) = FirstPaths(l, D, n) \cup Parents(EntryPath(l, n + 1)) \cup {EntryPath(l, n + 1)}
  BY <1>2 DEF FirstPaths
<1>11. n + 1 \notin D => FirstPaths(l, D, n + 1) = FirstPaths(l, D, n)
  BY <1>3 DEF FirstPaths
<1>12. \A i \in D \cap (1 .. n + 1) : i \in D \cap (1 .. n) \/ (i = n + 1 /\ n + 1 \in D)
  BY <1>1
<1>13. \A i \in D \cap (1 .. n) : i \in D \cap (1 .. n + 1) /\ i # n + 1
  BY <1>1
<1> QED
  BY <1>7, <1>8, <1>9, <1>10, <1>11, <1>12, <1>13

\* The first paths are finitely many, and among all.
LEMMA FirstOfAll ==
  ASSUME NEW l, NEW D, Entries(l, D), NEW n \in 0 .. Len(l)
  PROVE  /\ FirstPaths(l, D, n) \subseteq FirstPaths(l, D, Len(l))
         /\ IsFiniteSet(FirstPaths(l, D, n)) /\ Cardinality(FirstPaths(l, D, n)) \in Nat
         /\ Cardinality(FirstPaths(l, D, n)) <= Cardinality(FirstPaths(l, D, Len(l)))
         /\ Others(D, n) \in Nat /\ Others(D, n) <= Others(D, Len(l))
<1> DEFINE L == Len(l)
           g(k) == [i \in D \cap (1 .. k) |-> Parents(EntryPath(l, i)) \cup {EntryPath(l, i)}]
           T(k) == {Parents(EntryPath(l, i)) \cup {EntryPath(l, i)} : i \in D \cap (1 .. k)}
<1>1. L \in Nat /\ n \in Nat /\ n <= L
  BY DEF Entries
<1>2. \A i \in D \cap (1 .. L) : IsFiniteSet(Parents(EntryPath(l, i)) \cup {EntryPath(l, i)})
  <2> TAKE i \in D \cap (1 .. L)
  <2>1. EntryPath(l, i) \in Seq(Range(l[i].path.parts))
    BY DEF Entries
  <2> QED
    BY <2>1, ParentsShorter, FS_AddElement
<1>i. IsFiniteSet(1 .. L)
  BY <1>1, FS_Interval
<1>3. IsFiniteSet(D \cap (1 .. L))
  <2>1. D \cap (1 .. L) \subseteq 1 .. L
    OBVIOUS
  <2> QED
    BY <1>i, <2>1, FS_Subset
<1>4. IsFiniteSet(T(L))
  <2>1. g(L) \in Surjection(D \cap (1 .. L), T(L))
    BY DEF Surjection
  <2> HIDE DEF g, T
  <2> QED
    BY <1>3, <2>1, FS_Surjection
<1>5. \A s \in T(L) : IsFiniteSet(s)
  BY <1>2
<1>6. FirstPaths(l, D, L) = UNION T(L)
  BY DEF FirstPaths
<1>7. IsFiniteSet(FirstPaths(l, D, L))
  <2> HIDE DEF T
  <2> QED
    BY <1>4, <1>5, <1>6, FS_UNION
<1>8. \A i \in 1 .. n : i \in 1 .. L
  BY <1>1
<1>9. FirstPaths(l, D, n) \subseteq FirstPaths(l, D, L)
  BY <1>8 DEF FirstPaths
<1>10. (1 .. n) \ D \subseteq (1 .. L) \ D /\ IsFiniteSet((1 .. L) \ D)
  BY <1>i, <1>8, FS_Difference
<1> HIDE DEF L
<1>11. Others(D, n) \in Nat /\ Others(D, n) <= Others(D, L)
  BY <1>10, FS_Subset, FS_CardinalityType DEF Others
<1>12. /\ IsFiniteSet(FirstPaths(l, D, n)) /\ Cardinality(FirstPaths(l, D, n)) \in Nat
       /\ Cardinality(FirstPaths(l, D, n)) <= Cardinality(FirstPaths(l, D, L))
  BY <1>7, <1>9, FS_Subset, FS_CardinalityType
<1> QED
  BY <1>9, <1>11, <1>12 DEF L

\* An entry that declares a path can be accounted after those before it if all
\* entries fit, and what was said of those before then holds with it.
LEMMA PathCatalogued ==
  ASSUME NEW l, NEW D, Entries(l, D), NEW n \in 0 .. Len(l), n < Len(l), NEW t, NEW s, Catalogued(l, D, t, s, n),
         n + 1 \in D, SafeRelative(l[n + 1].path), l[n + 1].type \in {"file", "dir"},
         NEW b,
         b = AccountBytes(Account([table |-> t, stats |-> s, error |-> "none"], EntryPath(l, n + 1), l[n + 1].type),
                          l[n + 1].size)
  PROVE  /\ b.error \in Accounting
         /\ b.error = "none" /\ l[n + 1].actual = l[n + 1].size => Catalogued(l, D, b.table, b.stats, n + 1)
         /\ Extractable(l, D) => b.error = "none"
<1> DEFINE a == [table |-> t, stats |-> s, error |-> "none"]
           path == EntryPath(l, n + 1)
           kind == l[n + 1].type
           size == l[n + 1].size
           x == Others(D, n)
           e == Account(a, path, kind)
           M == D \cap (1 .. n)
           S == Range(l[n + 1].path.parts)
<1>1. n \in Nat /\ n + 1 \in 1 .. Len(l) /\ n + 1 \in 0 .. Len(l) /\ size \in Nat /\ path \in Seq(S)
  <2>1. Len(l) \in Nat /\ \A i \in 1 .. Len(l) : l[i].size \in Nat /\ EntryPath(l, i) \in Seq(Range(l[i].path.parts))
    BY DEF Entries
  <2>2. n \in Nat /\ n + 1 \in 1 .. Len(l) /\ n + 1 \in 0 .. Len(l)
    BY <2>1
  <2> QED
    BY <2>1, <2>2
<1>2. Tallied(a, x) /\ a.table = t /\ a.stats = s /\ a.error = "none"
  BY DEF Catalogued
<1>3. /\ \A i \in D \cap (1 .. n + 1) : i \in M \/ i = n + 1
      /\ \A i \in M : i # n + 1 /\ i \in D \cap (1 .. n + 1)
      /\ FirstPaths(l, D, n + 1) = FirstPaths(l, D, n) \cup Parents(path) \cup {path}
      /\ Others(D, n + 1) = x
  BY <1>1, OneEntryMore
<1>4. b = AccountBytes(e, size)
  OBVIOUS
<1>k. kind \in {"file", "dir"}
  OBVIOUS
<1> HIDE DEF a, size, kind, S
<1>5. /\ e.error \in Accounting
      /\ e.error = "none" => Declares(a, e, x, path, kind)
      /\ Admits(a, path, kind) /\ Room(a, x, Parents(path) \cup {path}) => e.error = "none"
  <2>1. path \in Seq(S) /\ kind \in {"dir", "file"}
    BY <1>1, <1>k
  <2> HIDE DEF e, path, x
  <2> QED
    BY <1>2, <2>1, EntryAccounted DEF e
<1>6. path \notin Parents(path)
  BY <1>1, ParentsShorter
<1> HIDE DEF e
<1>7. e.error # "none" => b = e
  BY <1>4 DEF AccountBytes
<1>8. e.error = "none" =>
        /\ Tallied(b, x) /\ b.table = e.table /\ b.error \in Accounting
        /\ b.stats.files = e.stats.files /\ b.stats.bytes = e.stats.bytes + size
        /\ (b.error = "none" <=> b.stats.files <= MaxExtractedFiles /\ b.stats.bytes <= MaxExtractedSize)
  <2> SUFFICES ASSUME e.error = "none"
               PROVE  /\ Tallied(b, x) /\ b.table = e.table /\ b.error \in Accounting
                      /\ b.stats.files = e.stats.files /\ b.stats.bytes = e.stats.bytes + size
                      /\ (b.error = "none" <=> b.stats.files <= MaxExtractedFiles /\ b.stats.bytes <= MaxExtractedSize)
    OBVIOUS
  <2>1. Tallied(e, x)
    BY <1>5 DEF Declares
  <2> HIDE DEF x
  <2> QED
    BY <1>1, <1>4, <2>1, BytesAccounted
<1>9. b.error \in Accounting
  BY <1>5, <1>7, <1>8
<1>d. /\ DOMAIN t = FirstPaths(l, D, n) /\ s.files <= MaxExtractedFiles /\ s.bytes <= MaxExtractedSize
      /\ \A p \in DOMAIN t : (t[p].explicit <=> \E i \in M : EntryPath(l, i) = p)
      /\ \A i \in M : t[EntryPath(l, i)].kind = l[i].type
      /\ \A i \in M : \A p \in Parents(EntryPath(l, i)) : t[p].kind = "dir"
      /\ s.bytes = SumFunctionOnSet(SizeOf(l), 1 .. n)
  BY DEF Catalogued
<1>c. /\ \A i \in 1 .. n : l[i].actual = l[i].size
      /\ \A i \in M : SafeRelative(l[i].path) /\ l[i].type \in {"file", "dir"}
      /\ \A i, j \in M : i # j =>
           /\ EntryPath(l, i) # EntryPath(l, j)
           /\ l[i].type = "file" => EntryPath(l, i) \notin Parents(EntryPath(l, j))
  BY DEF Catalogued, Compatible
<1>p. \A i \in M : EntryPath(l, i) \in DOMAIN t /\ Parents(EntryPath(l, i)) \subseteq DOMAIN t
  BY <1>d DEF FirstPaths
<1>q. \A p \in DOMAIN t : \E i \in M : p = EntryPath(l, i) \/ p \in Parents(EntryPath(l, i))
  BY <1>d DEF FirstPaths
<1>s. /\ SumFunctionOnSet(SizeOf(l), 1 .. n + 1) = SumFunctionOnSet(SizeOf(l), 1 .. n) + size
      /\ SumFunctionOnSet(SizeOf(l), 1 .. n + 1) \in Nat /\ SumFunctionOnSet(SizeOf(l), 1 .. n) \in Nat
      /\ SumFunctionOnSet(SizeOf(l), 1 .. n + 1) <= SumFunctionOnSet(SizeOf(l), 1 .. Len(l))
      /\ SumFunctionOnSet(SizeOf(l), 1 .. Len(l)) \in Nat
  <2>1. Len(l) \in Nat /\ (\A i \in 1 .. Len(l) : l[i].size \in Nat) /\ Len(l) \in 0 .. Len(l)
    BY DEF Entries
  <2> QED
    BY <1>1, <2>1, SizesSum DEF size
<1>o. SafeRelative(l[n + 1].path) /\ path = EntryPath(l, n + 1) /\ kind = l[n + 1].type /\ M = D \cap (1 .. n)
  BY DEF kind
<1> HIDE DEF path, M, x
<1>10. ASSUME b.error = "none", l[n + 1].actual = l[n + 1].size PROVE Catalogued(l, D, b.table, b.stats, n + 1)
  <2>1. Declares(a, e, x, path, kind) /\ Tallied(b, x) /\ b.table = e.table /\ b.stats.bytes = e.stats.bytes + size
    BY <1>5, <1>7, <1>8, <1>10
  <2>2. /\ e.stats.bytes = s.bytes
        /\ DOMAIN e.table = DOMAIN t \cup Parents(path) \cup {path}
        /\ e.table[path] = [kind |-> kind, explicit |-> TRUE]
        /\ \A p \in DOMAIN t \ {path} : e.table[p] = t[p]
        /\ \A p \in Parents(path) : e.table[p].kind = "dir" /\ (p \notin DOMAIN t => ~e.table[p].explicit)
        /\ path \in DOMAIN t => kind = "dir" /\ t[path].kind = "dir" /\ ~t[path].explicit
    BY <1>2, <2>1 DEF Declares
  <2>3. \A i \in M : EntryPath(l, i) # path
    BY <1>d, <1>p, <2>2
  <2>4. \A i \in M : l[i].type = "file" => EntryPath(l, i) \notin Parents(path)
    <3> SUFFICES ASSUME NEW i \in M, l[i].type = "file", EntryPath(l, i) \in Parents(path) PROVE FALSE
      OBVIOUS
    <3>1. e.table[EntryPath(l, i)] = t[EntryPath(l, i)] /\ t[EntryPath(l, i)].kind = "file"
      BY <1>d, <1>p, <2>2, <2>3
    <3> QED
      BY <2>2, <3>1
  <2>5. \A i \in M : kind = "file" => path \notin Parents(EntryPath(l, i))
    BY <1>p, <2>2
  <2>6. Compatible(l, D, n + 1)
    <3>1. \A i \in 1 .. n + 1 : l[i].actual = l[i].size
      <4>1. \A i \in 1 .. n + 1 : i \in 1 .. n \/ i = n + 1
        BY <1>1
      <4> QED
        BY <1>c, <1>10, <4>1
    <3>2. \A i \in D \cap (1 .. n + 1) : SafeRelative(l[i].path) /\ l[i].type \in {"file", "dir"}
      BY <1>3, <1>c, <1>k, <1>o
    <3>3. ASSUME NEW i \in D \cap (1 .. n + 1), NEW j \in D \cap (1 .. n + 1), i # j
          PROVE  /\ EntryPath(l, i) # EntryPath(l, j)
                 /\ l[i].type = "file" => EntryPath(l, i) \notin Parents(EntryPath(l, j))
      <4>1. CASE i \in M /\ j \in M
        BY <1>c, <3>3, <4>1
      <4>2. CASE i \in M /\ j = n + 1
        BY <1>o, <2>3, <2>4, <4>2
      <4>3. CASE i = n + 1 /\ j \in M
        BY <1>o, <2>3, <2>5, <4>3
      <4> QED
        BY <1>3, <3>3, <4>1, <4>2, <4>3
    <3> QED
      BY <3>1, <3>2, <3>3 DEF Compatible
  <2>7. Tallied([table |-> b.table, stats |-> b.stats, error |-> "none"], Others(D, n + 1))
    BY <1>3, <2>1 DEF Tallied
  <2>8. DOMAIN b.table = FirstPaths(l, D, n + 1)
    BY <1>3, <1>d, <2>1, <2>2
  <2>9. \A p \in DOMAIN b.table : (b.table[p].explicit <=> \E i \in D \cap (1 .. n + 1) : EntryPath(l, i) = p)
    <3> TAKE p \in DOMAIN b.table
    <3>1. CASE p = path
      <4>1. n + 1 \in D \cap (1 .. n + 1)
        BY <1>1
      <4> QED
        BY <1>o, <2>1, <2>2, <3>1, <4>1
    <3>2. CASE p # path /\ p \in DOMAIN t
      <4>1. b.table[p] = t[p]
        BY <2>1, <2>2, <3>2
      <4>2. t[p].explicit <=> \E i \in M : EntryPath(l, i) = p
        BY <1>d, <3>2
      <4>3. (\E i \in D \cap (1 .. n + 1) : EntryPath(l, i) = p) <=> (\E i \in M : EntryPath(l, i) = p)
        BY <1>3, <1>o, <3>2
      <4> QED
        BY <4>1, <4>2, <4>3
    <3>3. CASE p # path /\ p \notin DOMAIN t
      <4>1. p \in Parents(path) /\ ~b.table[p].explicit
        BY <2>1, <2>2, <3>3
      <4>2. ~\E i \in D \cap (1 .. n + 1) : EntryPath(l, i) = p
        BY <1>3, <1>o, <1>p, <3>3
      <4> QED
        BY <4>1, <4>2
    <3> QED
      BY <3>1, <3>2, <3>3
  <2>10. \A i \in D \cap (1 .. n + 1) : b.table[EntryPath(l, i)].kind = l[i].type
    <3> TAKE i \in D \cap (1 .. n + 1)
    <3>1. CASE i \in M
      BY <1>d, <1>p, <2>1, <2>2, <2>3, <3>1
    <3>2. CASE i = n + 1
      BY <1>o, <2>1, <2>2, <3>2
    <3> QED
      BY <1>3, <3>1, <3>2
  <2>11. \A i \in D \cap (1 .. n + 1) : \A p \in Parents(EntryPath(l, i)) : b.table[p].kind = "dir"
    <3> TAKE i \in D \cap (1 .. n + 1)
    <3> TAKE p \in Parents(EntryPath(l, i))
    <3>1. CASE i \in M /\ p # path
      BY <1>d, <1>p, <2>1, <2>2, <3>1
    <3>2. CASE i \in M /\ p = path
      <4>1. p \in DOMAIN t
        BY <1>p, <3>2
      <4> QED
        BY <2>1, <2>2, <3>2, <4>1
    <3>3. CASE i = n + 1
      BY <1>o, <2>1, <2>2, <3>3
    <3> QED
      BY <1>3, <3>1, <3>2, <3>3
  <2>12. b.stats.bytes = SumFunctionOnSet(SizeOf(l), 1 .. n + 1)
    BY <1>d, <1>s, <2>1, <2>2
  <2>13. b.stats.files <= MaxExtractedFiles /\ b.stats.bytes <= MaxExtractedSize
    BY <1>7, <1>8, <1>10
  <2> QED
    BY <2>6, <2>7, <2>8, <2>9, <2>10, <2>11, <2>12, <2>13 DEF Catalogued
<1>11. ASSUME Extractable(l, D) PROVE b.error = "none"
  <2>1. /\ \A i \in M : /\ EntryPath(l, i) # path
                        /\ l[i].type = "file" => EntryPath(l, i) \notin Parents(path)
                        /\ kind = "file" => path \notin Parents(EntryPath(l, i))
    <3>1. \A i \in M : i \in D \cap (1 .. Len(l)) /\ i # n + 1 /\ n + 1 \in D \cap (1 .. Len(l))
      BY <1>1, <1>3, <1>o DEF Entries
    <3>2. \A i, j \in D \cap (1 .. Len(l)) : i # j =>
            /\ EntryPath(l, i) # EntryPath(l, j)
            /\ l[i].type = "file" => EntryPath(l, i) \notin Parents(EntryPath(l, j))
      BY <1>11 DEF Extractable, Compatible
    <3> QED
      BY <1>o, <3>1, <3>2
  <2>2. Admits(a, path, kind)
    <3>1. \A p \in Parents(path) \cap DOMAIN t : t[p].kind = "dir"
      <4> TAKE p \in Parents(path) \cap DOMAIN t
      <4>1. PICK i \in M : p = EntryPath(l, i) \/ p \in Parents(EntryPath(l, i))
        BY <1>q
      <4> QED
        BY <1>c, <1>d, <2>1, <4>1
    <3>2. path \in DOMAIN t => kind = "dir" /\ t[path].kind = "dir" /\ ~t[path].explicit
      <4> HAVE path \in DOMAIN t
      <4>1. PICK i \in M : path = EntryPath(l, i) \/ path \in Parents(EntryPath(l, i))
        BY <1>q
      <4>2. ~t[path].explicit
        BY <1>d, <2>1
      <4> QED
        BY <1>d, <1>k, <2>1, <4>1, <4>2
    <3> QED
      BY <1>2, <3>1, <3>2 DEF Admits
  <2>3. /\ FirstPaths(l, D, n + 1) = DOMAIN t \cup (Parents(path) \cup {path})
        /\ Cardinality(FirstPaths(l, D, n + 1)) \in Nat /\ Cardinality(FirstPaths(l, D, Len(l))) \in Nat
        /\ Cardinality(FirstPaths(l, D, n + 1)) <= Cardinality(FirstPaths(l, D, Len(l)))
        /\ x \in Nat /\ Others(D, Len(l)) \in Nat /\ x <= Others(D, Len(l))
    <3>1. FirstPaths(l, D, n + 1) = DOMAIN t \cup (Parents(path) \cup {path})
      BY <1>3, <1>d
    <3>2. Len(l) \in 0 .. Len(l)
      BY DEF Entries
    <3> QED
      BY <1>1, <1>3, <3>1, <3>2, FirstOfAll
  <2>4. Cardinality(FirstPaths(l, D, Len(l))) + Others(D, Len(l)) <= MaxExtractedFiles
        /\ SumFunctionOnSet(SizeOf(l), 1 .. Len(l)) <= MaxExtractedSize
    BY <1>11 DEF Extractable
  <2>5. Room(a, x, Parents(path) \cup {path})
    <3>1. DOMAIN a.table \cup (Parents(path) \cup {path}) = FirstPaths(l, D, n + 1)
      BY <1>2, <2>3
    <3>2. Cardinality(FirstPaths(l, D, n + 1)) + x <= MaxExtractedFiles
      BY <2>3, <2>4, MaterialiseConstants
    <3>3. a.stats.bytes <= MaxExtractedSize
      BY <1>2, <1>d
    <3> QED
      BY <3>1, <3>2, <3>3 DEF Room
  <2>6. e.error = "none" /\ Declares(a, e, x, path, kind)
    BY <1>5, <2>2, <2>5
  <2>7. e.stats.files <= MaxExtractedFiles /\ e.stats.bytes = s.bytes
    BY <1>2, <1>d, <2>6 DEF Declares
  <2>8. b.stats.bytes <= MaxExtractedSize
    BY <1>8, <1>d, <1>s, <2>4, <2>6, <2>7, MaterialiseConstants
  <2> QED
    BY <1>8, <2>6, <2>7, <2>8
<1> QED
  BY <1>9, <1>10, <1>11

\* A header that extends the next entry counts like a file and its bytes count.
LEMMA HeaderCatalogued ==
  ASSUME NEW l, NEW D, Entries(l, D), NEW n \in 0 .. Len(l), n < Len(l), NEW t, NEW s, Catalogued(l, D, t, s, n),
         n + 1 \notin D,
         NEW c, c = [table |-> t, stats |-> CountObject(s), error |-> CheckLimits(CountObject(s))],
         NEW b, b = AccountBytes(c, l[n + 1].size)
  PROVE  /\ b.error \in Accounting
         /\ b.error = "none" /\ l[n + 1].actual = l[n + 1].size => Catalogued(l, D, b.table, b.stats, n + 1)
         /\ Extractable(l, D) => b.error = "none"
<1> DEFINE size == l[n + 1].size
           x == Others(D, n)
           o == CountObject(s)
           M == D \cap (1 .. n)
<1>1. n \in Nat /\ n + 1 \in 1 .. Len(l) /\ n + 1 \in 0 .. Len(l) /\ size \in Nat
  <2>1. Len(l) \in Nat /\ \A i \in 1 .. Len(l) : l[i].size \in Nat
    BY DEF Entries
  <2>2. n \in Nat /\ n + 1 \in 1 .. Len(l) /\ n + 1 \in 0 .. Len(l)
    BY <2>1
  <2> QED
    BY <2>1, <2>2
<1>3. /\ \A i \in D \cap (1 .. n + 1) : i \in M
      /\ \A i \in M : i \in D \cap (1 .. n + 1)
      /\ FirstPaths(l, D, n + 1) = FirstPaths(l, D, n)
      /\ Others(D, n + 1) = x + 1 /\ x \in Nat
  BY <1>1, OneEntryMore
<1>2. s \in [files: Nat, bytes: Nat] /\ IsFiniteSet(DOMAIN t) /\ s.files = Cardinality(DOMAIN t) + x
      /\ \A p \in DOMAIN t : t[p] \in Declaration
  BY DEF Catalogued, Tallied
<1>4. o \in [files: Nat, bytes: Nat] /\ o.files = s.files + 1 /\ o.bytes = s.bytes
  BY <1>2 DEF CountObject
<1>5. CheckLimits(o) \in Accounting /\ (CheckLimits(o) = "none" <=> o.files <= MaxExtractedFiles /\ o.bytes <= MaxExtractedSize)
  BY <1>4, MaterialiseConstants DEF CheckLimits, Accounting
<1>c. c.table = t /\ c.stats = o /\ c.error = CheckLimits(o) /\ c = [table |-> c.table, stats |-> c.stats, error |-> c.error]
  OBVIOUS
<1> HIDE DEF o, size
<1>6. Tallied(c, x + 1)
  <2>1. o.files = Cardinality(DOMAIN t) + (x + 1) /\ x + 1 \in Nat
    BY <1>2, <1>3, <1>4, FS_CardinalityType
  <2> QED
    BY <1>2, <1>4, <1>c, <2>1 DEF Tallied
<1>7. c.error # "none" => b = c
  BY DEF AccountBytes
<1>8. c.error = "none" =>
        /\ Tallied(b, x + 1) /\ b.table = t /\ b.error \in Accounting
        /\ b.stats.files = o.files /\ b.stats.bytes = o.bytes + size
        /\ (b.error = "none" <=> b.stats.files <= MaxExtractedFiles /\ b.stats.bytes <= MaxExtractedSize)
  <2> SUFFICES ASSUME c.error = "none"
               PROVE  /\ Tallied(b, x + 1) /\ b.table = t /\ b.error \in Accounting
                      /\ b.stats.files = o.files /\ b.stats.bytes = o.bytes + size
                      /\ (b.error = "none" <=> b.stats.files <= MaxExtractedFiles /\ b.stats.bytes <= MaxExtractedSize)
    OBVIOUS
  <2>1. b = AccountBytes(c, size)
    BY DEF size
  <2> HIDE DEF x
  <2> QED
    BY <1>1, <1>6, <1>c, <2>1, BytesAccounted
<1>9. b.error \in Accounting
  BY <1>5, <1>7, <1>8, <1>c
<1>d. /\ DOMAIN t = FirstPaths(l, D, n)
      /\ \A p \in DOMAIN t : (t[p].explicit <=> \E i \in M : EntryPath(l, i) = p)
      /\ \A i \in M : t[EntryPath(l, i)].kind = l[i].type
      /\ \A i \in M : \A p \in Parents(EntryPath(l, i)) : t[p].kind = "dir"
      /\ s.bytes = SumFunctionOnSet(SizeOf(l), 1 .. n)
  BY DEF Catalogued
<1>e. /\ \A i \in 1 .. n : l[i].actual = l[i].size
      /\ \A i \in M : SafeRelative(l[i].path) /\ l[i].type \in {"file", "dir"}
      /\ \A i, j \in M : i # j =>
           /\ EntryPath(l, i) # EntryPath(l, j)
           /\ l[i].type = "file" => EntryPath(l, i) \notin Parents(EntryPath(l, j))
  BY DEF Catalogued, Compatible
<1>s. /\ SumFunctionOnSet(SizeOf(l), 1 .. n + 1) = SumFunctionOnSet(SizeOf(l), 1 .. n) + size
      /\ SumFunctionOnSet(SizeOf(l), 1 .. n + 1) \in Nat /\ SumFunctionOnSet(SizeOf(l), 1 .. n) \in Nat
      /\ SumFunctionOnSet(SizeOf(l), 1 .. n + 1) <= SumFunctionOnSet(SizeOf(l), 1 .. Len(l))
      /\ SumFunctionOnSet(SizeOf(l), 1 .. Len(l)) \in Nat
  <2>1. Len(l) \in Nat /\ (\A i \in 1 .. Len(l) : l[i].size \in Nat) /\ Len(l) \in 0 .. Len(l)
    BY DEF Entries
  <2> QED
    BY <1>1, <2>1, SizesSum DEF size
<1> HIDE DEF M, x
<1>10. ASSUME b.error = "none", l[n + 1].actual = l[n + 1].size PROVE Catalogued(l, D, b.table, b.stats, n + 1)
  <2>1. Tallied(b, x + 1) /\ b.table = t /\ b.stats.bytes = s.bytes + size
        /\ b.stats.files <= MaxExtractedFiles /\ b.stats.bytes <= MaxExtractedSize
    BY <1>4, <1>7, <1>8, <1>10
  <2>2. Compatible(l, D, n + 1)
    <3>1. \A i \in 1 .. n + 1 : i \in 1 .. n \/ i = n + 1
      BY <1>1
    <3>2. \A i \in 1 .. n + 1 : l[i].actual = l[i].size
      BY <1>e, <1>10, <3>1
    <3> QED
      BY <1>3, <1>e, <3>2 DEF Compatible
  <2>3. Tallied([table |-> b.table, stats |-> b.stats, error |-> "none"], Others(D, n + 1))
    BY <1>3, <2>1 DEF Tallied
  <2>4. \A p \in DOMAIN t : (t[p].explicit <=> \E i \in D \cap (1 .. n + 1) : EntryPath(l, i) = p)
    BY <1>3, <1>d
  <2>5. b.stats.bytes = SumFunctionOnSet(SizeOf(l), 1 .. n + 1)
    BY <1>d, <1>s, <2>1
  <2> QED
    BY <1>3, <1>d, <2>1, <2>2, <2>3, <2>4, <2>5 DEF Catalogued
<1>11. ASSUME Extractable(l, D) PROVE b.error = "none"
  <2>3. /\ FirstPaths(l, D, n + 1) = DOMAIN t
        /\ Cardinality(DOMAIN t) \in Nat /\ Cardinality(FirstPaths(l, D, Len(l))) \in Nat
        /\ Cardinality(DOMAIN t) <= Cardinality(FirstPaths(l, D, Len(l)))
        /\ Others(D, Len(l)) \in Nat /\ x + 1 <= Others(D, Len(l))
    <3>1. FirstPaths(l, D, n + 1) = DOMAIN t
      BY <1>3, <1>d
    <3>2. Len(l) \in 0 .. Len(l)
      BY DEF Entries
    <3> QED
      BY <1>1, <1>3, <3>1, <3>2, FirstOfAll
  <2>4. Cardinality(FirstPaths(l, D, Len(l))) + Others(D, Len(l)) <= MaxExtractedFiles
        /\ SumFunctionOnSet(SizeOf(l), 1 .. Len(l)) <= MaxExtractedSize
    BY <1>11 DEF Extractable
  <2>5. o.files <= MaxExtractedFiles
    BY <1>2, <1>3, <1>4, <2>3, <2>4, MaterialiseConstants
  <2>6. o.bytes + size <= MaxExtractedSize /\ o.bytes <= MaxExtractedSize
    BY <1>1, <1>4, <1>d, <1>s, <2>4, MaterialiseConstants
  <2> QED
    BY <1>5, <1>8, <1>c, <2>5, <2>6
<1> QED
  BY <1>9, <1>10, <1>11

\* Whatever the next entry is, what is on disk once it has been handled without
\* an error are the first entries and it.
LEMMA UnpackedOneMore ==
  ASSUME NEW l, NEW D, Entries(l, D), NEW n \in 0 .. Len(l), n < Len(l), Unpacked(l, D, disk, n),
         NEW path, path = EntryPath(l, n + 1), NEW way, way = (Parents(path) \cup {path}) \ {<<>>},
         NEW e,
         \/ n + 1 \notin D /\ e = disk
         \/ n + 1 \in D /\ l[n + 1].type = "dir" /\ DirectoriesFit(way) /\ e = Made(way)
         \/ n + 1 \in D /\ l[n + 1].type = "file" /\ CanCreateFile(path) /\ e = WithFile(path, l[n + 1].size, l[n + 1].path)
  PROVE  Unpacked(l, D, e, n + 1)
<1> DEFINE size == l[n + 1].size
           M == D \cap (1 .. n)
           P == Parents(path)
<1>1. n \in Nat /\ n + 1 \in 1 .. Len(l) /\ n + 1 \in 0 .. Len(l) /\ size \in Nat /\ path \in Seq(Range(l[n + 1].path.parts))
  <2>1. Len(l) \in Nat /\ \A i \in 1 .. Len(l) : l[i].size \in Nat /\ EntryPath(l, i) \in Seq(Range(l[i].path.parts))
    BY DEF Entries
  <2>2. n \in Nat /\ n + 1 \in 1 .. Len(l) /\ n + 1 \in 0 .. Len(l)
    BY <2>1
  <2> QED
    BY <2>1, <2>2
<1>2. IsFiniteSet(P) /\ path \notin P /\ <<>> \notin P
  BY <1>1, ParentsShorter
<1>3. /\ \A i \in D \cap (1 .. n + 1) : i \in M \/ (i = n + 1 /\ n + 1 \in D)
      /\ n + 1 \in D => FirstPaths(l, D, n + 1) = FirstPaths(l, D, n) \cup P \cup {path}
      /\ n + 1 \notin D => FirstPaths(l, D, n + 1) = FirstPaths(l, D, n)
  BY <1>1, OneEntryMore
<1>4. IsFiniteSet(DOMAIN disk)
  <2>1. IsFiniteSet(FirstPaths(l, D, n)) /\ DOMAIN disk \subseteq FirstPaths(l, D, n)
    BY FirstOfAll DEF Unpacked
  <2> QED
    BY <2>1, FS_Subset
<1>5. /\ DOMAIN disk = FirstPaths(l, D, n) \ {<<>>}
      /\ \A p \in DOMAIN disk : disk[p].size \in Nat
      /\ \A i \in M : EntryPath(l, i) # <<>> =>
           /\ disk[EntryPath(l, i)].kind = l[i].type
           /\ l[i].type = "file" => disk[EntryPath(l, i)].content = l[i].path
      /\ Weight(disk) <= SumFunctionOnSet(SizeOf(l), 1 .. n)
  BY DEF Unpacked
<1>6. \A i \in M : EntryPath(l, i) # <<>> => EntryPath(l, i) \in DOMAIN disk
  BY <1>5 DEF FirstPaths
<1>7. /\ SumFunctionOnSet(SizeOf(l), 1 .. n + 1) = SumFunctionOnSet(SizeOf(l), 1 .. n) + size
      /\ SumFunctionOnSet(SizeOf(l), 1 .. n) \in Nat
  <2>1. Len(l) \in Nat /\ \A i \in 1 .. Len(l) : l[i].size \in Nat
    BY DEF Entries
  <2> QED
    BY <1>1, <2>1, SizesSum
<1>8. Weight(disk) \in Nat
  <2> DEFINE f == [p \in DOMAIN disk |-> disk[p].size]
  <2>1. \A p \in DOMAIN disk : f[p] \in Nat
    BY <1>5
  <2>2. Weight(disk) = SumFunctionOnSet(f, DOMAIN disk)
    BY DEF Weight
  <2> HIDE DEF f
  <2> QED
    BY <1>4, <2>1, <2>2, SumNat
<1> HIDE DEF M, size
<1>9. SUFFICES /\ DOMAIN e = FirstPaths(l, D, n + 1) \ {<<>>}
               /\ \A p \in DOMAIN disk : e[p] = disk[p]
               /\ \A p \in DOMAIN e : e[p].size \in Nat
               /\ n + 1 \in D /\ path # <<>> =>
                    /\ e[path].kind = l[n + 1].type
                    /\ l[n + 1].type = "file" => e[path].content = l[n + 1].path
               /\ Weight(e) <= SumFunctionOnSet(SizeOf(l), 1 .. n + 1)
  <2> SUFFICES ASSUME /\ DOMAIN e = FirstPaths(l, D, n + 1) \ {<<>>}
                      /\ \A p \in DOMAIN disk : e[p] = disk[p]
                      /\ \A p \in DOMAIN e : e[p].size \in Nat
                      /\ n + 1 \in D /\ path # <<>> =>
                           /\ e[path].kind = l[n + 1].type
                           /\ l[n + 1].type = "file" => e[path].content = l[n + 1].path
                      /\ Weight(e) <= SumFunctionOnSet(SizeOf(l), 1 .. n + 1)
               PROVE  Unpacked(l, D, e, n + 1)
    OBVIOUS
  <2>1. ASSUME NEW i \in D \cap (1 .. n + 1), EntryPath(l, i) # <<>>
        PROVE  /\ e[EntryPath(l, i)].kind = l[i].type
               /\ l[i].type = "file" => e[EntryPath(l, i)].content = l[i].path
    <3>1. CASE i \in M
      <4>1. EntryPath(l, i) \in DOMAIN disk
        BY <1>6, <2>1, <3>1
      <4>2. e[EntryPath(l, i)] = disk[EntryPath(l, i)]
        BY <4>1
      <4> QED
        BY <1>5, <2>1, <3>1, <4>2
    <3>2. CASE i = n + 1 /\ n + 1 \in D
      BY <2>1, <3>2
    <3> QED
      BY <1>3, <3>1, <3>2
  <2> QED
    BY <2>1 DEF Unpacked
<1>10. CASE n + 1 \notin D /\ e = disk
  BY <1>1, <1>3, <1>5, <1>7, <1>8, <1>10
<1>11. CASE n + 1 \in D /\ l[n + 1].type = "dir" /\ DirectoriesFit(way) /\ e = Made(way)
  <2>1. DOMAIN e = DOMAIN disk \cup way
    BY <1>11 DEF Made
  <2>2. /\ \A p \in DOMAIN disk : e[p] = disk[p]
        /\ \A p \in way : p \notin DOMAIN disk => e[p] = Directory
    BY <1>11 DEF Made
  <2>3. DOMAIN e = FirstPaths(l, D, n + 1) \ {<<>>}
    BY <1>3, <1>5, <1>11, <2>1
  <2>4. \A p \in DOMAIN e : e[p].size \in Nat
    <3>1. Directory.size \in Nat
      BY DEF Directory
    <3> QED
      BY <1>5, <2>1, <2>2, <3>1
  <2>5. path # <<>> => e[path].kind = "dir"
    <3> HAVE path # <<>>
    <3>1. path \in way
      OBVIOUS
    <3>2. CASE path \in DOMAIN disk
      BY <1>11, <2>2, <3>1, <3>2 DEF DirectoriesFit
    <3>3. CASE path \notin DOMAIN disk
      BY <2>2, <3>1, <3>3 DEF Directory
    <3> QED
      BY <3>2, <3>3
  <2>6. Weight(e) = Weight(disk)
    <3>1. IsFiniteSet(P \cup {path}) /\ way \subseteq P \cup {path}
      BY <1>2, FS_AddElement
    <3>2. IsFiniteSet(way)
      BY <3>1, FS_Subset
    <3>3. IsFiniteSet(DOMAIN e)
      <4>1. IsFiniteSet(DOMAIN disk \cup way)
        BY <1>4, <3>2, FS_Union
      <4> QED
        BY <2>1, <4>1
    <3>4. Enlarged(disk, e, {})
      BY <1>4, <1>5, <2>1, <2>2, <3>3, NewDirectory DEF Enlarged
    <3> QED
      BY <3>4, WeightStays
  <2>7. Weight(e) <= SumFunctionOnSet(SizeOf(l), 1 .. n + 1)
    BY <1>1, <1>5, <1>7, <1>8, <2>6
  <2> QED
    BY <1>11, <2>2, <2>3, <2>4, <2>5, <2>7
<1>12. CASE n + 1 \in D /\ l[n + 1].type = "file" /\ CanCreateFile(path) /\ e = WithFile(path, size, l[n + 1].path)
  <2>1. path # <<>> /\ path \notin DOMAIN disk
    BY <1>12 DEF CanCreateFile
  <2>2. /\ DOMAIN e = DOMAIN disk \cup P \cup {path}
        /\ e[path] = [kind |-> "file", size |-> size, content |-> l[n + 1].path]
        /\ \A p \in DOMAIN disk : p # path => e[p] = disk[p]
        /\ \A p \in P : p # path /\ p \notin DOMAIN disk => e[p] = Directory
    BY <1>12 DEF WithFile, Made
  <2>3. /\ \A p \in DOMAIN disk : e[p] = disk[p]
        /\ \A p \in P : p \notin DOMAIN disk => e[p] = Directory
    BY <1>2, <2>1, <2>2
  <2>4. DOMAIN e = FirstPaths(l, D, n + 1) \ {<<>>}
    BY <1>2, <1>3, <1>5, <1>12, <2>1, <2>2
  <2>5. \A p \in DOMAIN e : e[p].size \in Nat
    <3>1. Directory.size \in Nat
      BY DEF Directory
    <3> QED
      BY <1>1, <1>5, <2>2, <2>3, <3>1
  <2>6. Weight(e) = Weight(disk) + size
    <3>1. e[path].size = size
      BY <2>2
    <3> HIDE DEF P
    <3>2. IsFiniteSet(DOMAIN e)
      <4>1. IsFiniteSet(DOMAIN disk \cup P)
        BY <1>2, <1>4, FS_Union
      <4>2. IsFiniteSet((DOMAIN disk \cup P) \cup {path})
        BY <4>1, FS_AddElement
      <4> QED
        BY <2>2, <4>2
    <3>3. Enlarged(disk, e, {path})
      BY <1>4, <1>5, <2>2, <2>3, <3>2, NewDirectory DEF Enlarged
    <3> QED
      BY <1>1, <2>1, <2>2, <3>1, <3>3, WeightAdds
  <2>7. Weight(e) <= SumFunctionOnSet(SizeOf(l), 1 .. n + 1)
    BY <1>1, <1>5, <1>7, <1>8, <2>6
  <2> QED
    BY <1>12, <2>1, <2>2, <2>3, <2>4, <2>5, <2>7
<1> QED
  BY <1>10, <1>11, <1>12 DEF size

\* Before any entry nothing has been accounted or written.
LEMMA NothingUnpacked ==
  ASSUME NEW l, NEW D, Entries(l, D)
  PROVE  Catalogued(l, D, [p \in {} |-> 0], NoStats, 0) /\ Unpacked(l, D, Empty, 0)
<1> DEFINE t == [p \in {} |-> 0]
<1>1. FirstPaths(l, D, 0) = {} /\ D \cap (1 .. 0) = {} /\ 1 .. 0 = {} /\ (1 .. 0) \ D = {}
  BY DEF FirstPaths
<1>2. DOMAIN t = {} /\ IsFiniteSet(DOMAIN t) /\ Cardinality(DOMAIN t) = 0 /\ Others(D, 0) = 0
  BY <1>1, FS_EmptySet DEF Others
<1>3. NoStats.files = 0 /\ NoStats.bytes = 0 /\ NoStats \in [files : Nat, bytes : Nat]
  BY DEF NoStats
<1> HIDE DEF t
<1>4. Tallied([table |-> t, stats |-> NoStats, error |-> "none"], Others(D, 0))
  BY <1>2, <1>3 DEF Tallied
<1>5. SumFunctionOnSet(SizeOf(l), 1 .. 0) = 0
  <2>1. 0 \in 0 .. Len(l) /\ Len(l) \in Nat /\ \A i \in 1 .. Len(l) : l[i].size \in Nat
    BY DEF Entries
  <2> QED
    BY <2>1, SizesSum
<1>6. Compatible(l, D, 0)
  BY <1>1 DEF Compatible
<1>7. Catalogued(l, D, t, NoStats, 0)
  BY <1>1, <1>2, <1>3, <1>4, <1>5, <1>6, MaterialiseConstants DEF Catalogued
<1>8. DOMAIN Empty = {} /\ Weight(Empty) = 0
  BY FS_EmptySet, SumStep DEF Weight, Empty
<1>9. Unpacked(l, D, Empty, 0)
  BY <1>1, <1>5, <1>8 DEF Unpacked
<1> QED
  BY <1>7, <1>9 DEF t

\* The first name of a path on disk is a path on disk.
LEMMA TopsOnDisk ==
  ASSUME NEW l, NEW D, Entries(l, D), NEW d, NEW n \in 0 .. Len(l), Unpacked(l, D, d, n), NEW p \in DOMAIN d
  PROVE  SubSeq(p, 1, 0) = <<>> /\ SubSeq(p, 1, 1) \in DOMAIN d /\ Len(SubSeq(p, 1, 1)) = 1
<1>1. p \in FirstPaths(l, D, n) /\ p # <<>> /\ DOMAIN d = FirstPaths(l, D, n) \ {<<>>}
  BY DEF Unpacked
<1>2. PICK i \in D \cap (1 .. n) : p \in Parents(EntryPath(l, i)) \cup {EntryPath(l, i)}
  BY <1>1 DEF FirstPaths
<1> DEFINE q == EntryPath(l, i)
           S == Range(l[i].path.parts)
<1>3. q \in Seq(S)
  <2>1. Len(l) \in Nat /\ i \in 1 .. Len(l)
    BY DEF Entries
  <2> QED
    BY <2>1 DEF Entries
<1>4. \A r \in Parents(q) \cup {q} : r \in FirstPaths(l, D, n)
  BY DEF FirstPaths
<1>5. p \in Parents(q) \cup {q}
  BY <1>2
<1> HIDE DEF q, S
<1>6. p \in Seq(S) /\ SubSeq(p, 1, 1) \in Parents(q) \cup {q}
  <2>1. Len(q) \in Nat
    BY <1>3
  <2>2. CASE p = q
    <3>1. Len(q) >= 1
      BY <1>1, <1>3, <2>2
    <3>2. CASE Len(q) = 1
      <4>1. SubSeq(q, 1, 1) = q
        BY <1>3, <3>2
      <4> QED
        BY <1>3, <2>2, <4>1
    <3>3. CASE Len(q) # 1
      <4>1. \A k \in Nat : k >= 1 /\ k # 1 => 1 \in 1 .. k - 1
        OBVIOUS
      <4>2. 1 \in 1 .. Len(q) - 1
        BY <2>1, <3>1, <3>3, <4>1
      <4> QED
        BY <1>3, <2>2, <4>2 DEF Parents
    <3> QED
      BY <3>2, <3>3
  <2>3. CASE p \in Parents(q)
    <3>1. PICK k \in 1 .. Len(q) - 1 : p = SubSeq(q, 1, k)
      BY <2>3 DEF Parents
    <3>2. SubSeq(p, 1, 1) = SubSeq(q, 1, 1) /\ p \in Seq(S) /\ 1 \in 1 .. Len(q) - 1
      BY <1>3, <2>1, <3>1
    <3> QED
      BY <3>2 DEF Parents
  <2> QED
    BY <1>5, <2>2, <2>3
<1>7. Len(p) >= 1
  BY <1>1, <1>6
<1>8. SubSeq(p, 1, 0) = <<>> /\ Len(SubSeq(p, 1, 1)) = 1
  BY <1>6, <1>7
<1>9. SubSeq(p, 1, 1) # <<>>
  <2>1. \A s : Len(s) = 1 => s # <<>>
    OBVIOUS
  <2> QED
    BY <1>8, <2>1, Zenon
<1> QED
  BY <1>1, <1>4, <1>6, <1>8, <1>9

\* The job is a list of entries.
Listing ==
  /\ {"root", "entries", "magic"} \subseteq DOMAIN job
  /\ DOMAIN job.entries = 1 .. Len(job.entries)
  /\ Entries(job.entries, Declared)

\* Why an archive is refused before its entries are looked at.
Unopened ==
  \/ Container = "unsupported"
  \/ Container = "tar" /\ job.unpacked > InputBudget
  \/ Container = "zip" /\ (EntryCount = Malformed \/ EntryCount > MaxExtractedFiles)

\* All its entries have been accounted, and the first n are on disk.
Unpacks(n) ==
  /\ Catalogued(job.entries, Declared, table, stats, Len(job.entries))
  /\ Unpacked(job.entries, Declared, disk, n)

\* What holds of an archive at any time.
Unpacking ==
  /\ Listing /\ at \in 0 .. Len(job.entries)
  /\ step \in {"verify", "open", "preflight", "write", "done"} \cup Errors
  /\ step # "done" => job.root = <<>>
  /\ step \in {"verify", "open"} => table = [p \in {} |-> 0] /\ stats = NoStats /\ disk = Empty
  /\ step = "preflight" => Catalogued(job.entries, Declared, table, stats, at) /\ disk = Empty
  /\ step \in {"write", "done"} => Unpacks(at)
  /\ step = "done" => at = Len(job.entries) /\ \A p \in DOMAIN disk : SubSeq(p, 1, Len(job.root)) = job.root
  /\ step \in Errors => disk = Empty \/ \E n \in 0 .. Len(job.entries) : Unpacks(n)
  /\ step \in {"extraction", "limit"} => ~Extractable(job.entries, Declared) \/ Unopened

\* The archives considered list entries.
LEMMA ArchivesListed ==
  ASSUME job \in Archives
  PROVE  Listing /\ job.root = <<>>
<1> DEFINE l == job.entries
<1>1. /\ {"root", "entries", "magic"} \subseteq DOMAIN job /\ job.root = <<>>
      /\ l \in Seq(Range(l)) /\ \A e \in Range(l) : e.path.parts \in Seq(Range(e.path.parts)) /\ e.size \in Nat
  BY ArchivesAssumption
<1> HIDE DEF l
<1>2. Len(l) \in Nat /\ DOMAIN l = 1 .. Len(l) /\ \A i \in 1 .. Len(l) : l[i] \in Range(l)
  BY <1>1
<1>3. \A i \in 1 .. Len(l) : l[i].size \in Nat /\ l[i].path.parts \in Seq(Range(l[i].path.parts))
  BY <1>1, <1>2
<1>4. \A i \in 1 .. Len(l) : EntryPath(l, i) \in Seq(Range(l[i].path.parts))
  BY <1>3, NormalizedParts DEF EntryPath
<1>5. Declared \subseteq 1 .. Len(l)
  BY <1>2 DEF Declared, l
<1> QED
  BY <1>1, <1>2, <1>3, <1>4, <1>5 DEF Listing, Entries, l

\* What is declared depends on what the archive is and holds only.
LEMMA SameEntries ==
  ASSUME job'.entries = job.entries, job'.magic = job.magic
  PROVE  Declared' = Declared
<1>1. Container' = Container
  BY DEF Container
<1> QED
  BY <1>1 DEF Declared, Extension

\* The definition of the promise says what fits.
LEMMA WellFormedFits ==
  ASSUME Listing
  PROVE  /\ WellFormed <=> Extractable(job.entries, Declared)
         /\ Objects = FirstPaths(job.entries, Declared, Len(job.entries))
         /\ DeclaredObjects = Cardinality(Objects) + Others(Declared, Len(job.entries))
         /\ DeclaredBytes = SumFunctionOnSet(SizeOf(job.entries), 1 .. Len(job.entries))
<1> DEFINE l == job.entries
           D == Declared
           L == Len(job.entries)
<1>1. DOMAIN l = 1 .. L /\ D \subseteq 1 .. L /\ D \cap (1 .. L) = D
  BY DEF Listing, Entries
<1>2. \A i : PathOf(i) = EntryPath(l, i)
  BY DEF PathOf, EntryPath
<1>3. Objects = FirstPaths(l, D, L)
  BY <1>1, <1>2 DEF Objects, FirstPaths
<1>4. DeclaredObjects = Cardinality(Objects) + Others(D, L)
  BY <1>1 DEF DeclaredObjects, Others
<1>5. DeclaredBytes = SumFunctionOnSet(SizeOf(l), 1 .. L)
  <2>1. [i \in DOMAIN job.entries |-> job.entries[i].size] = SizeOf(l)
    BY <1>1 DEF SizeOf
  <2>2. DOMAIN SizeOf(l) = 1 .. L
    BY DEF SizeOf
  <2>3. DeclaredBytes = SumFunction(SizeOf(l))
    BY <2>1 DEF DeclaredBytes
  <2> QED
    BY <2>2, <2>3, Zenon DEF SumFunction
<1>6. WellFormed <=> /\ Compatible(l, D, L)
                     /\ DeclaredObjects <= MaxExtractedFiles /\ DeclaredBytes <= MaxExtractedSize
  BY <1>1, <1>2 DEF WellFormed, Compatible
<1> HIDE DEF l, D, L
<1>7. WellFormed <=> Extractable(l, D)
  BY <1>3, <1>4, <1>5, <1>6 DEF Extractable, L, l
<1> QED
  BY <1>3, <1>4, <1>5, <1>7 DEF l, D, L

\* A catalogue of all entries is one of an archive that fits.
LEMMA CataloguedFits ==
  ASSUME NEW l, NEW D, NEW t, NEW s, Catalogued(l, D, t, s, Len(l))
  PROVE  Extractable(l, D)
<1>1. s.files = Cardinality(FirstPaths(l, D, Len(l))) + Others(D, Len(l))
  BY DEF Catalogued, Tallied
<1> QED
  BY <1>1 DEF Catalogued, Extractable

\* Whatever step is taken, it stays so.
LEMMA UnpackingStep == Unpacking /\ [ArchiveNext]_materialiseVars => Unpacking'
<1> SUFFICES ASSUME Unpacking, [ArchiveNext]_materialiseVars PROVE Unpacking'
  OBVIOUS
<1> DEFINE l == job.entries
           D == Declared
           L == Len(job.entries)
<1>1. Listing /\ Entries(l, D) /\ L \in Nat /\ at \in 0 .. L /\ at \in Nat /\ D \subseteq 1 .. L /\ DOMAIN l = 1 .. L
  BY DEF Unpacking, Listing, Entries
<1>e. /\ "verify" \notin Errors /\ "open" \notin Errors /\ "preflight" \notin Errors /\ "write" \notin Errors
      /\ "done" \notin Errors /\ {"fetch", "policy", "deadline", "limit", "extraction", "io"} \subseteq Errors
  BY DEF Errors
<1>s. UNCHANGED job =>
        /\ l' = l /\ D' = D /\ L' = L /\ (Unopened' <=> Unopened) /\ Listing'
  <2> SUFFICES ASSUME UNCHANGED job
               PROVE  /\ l' = l /\ D' = D /\ L' = L /\ (Unopened' <=> Unopened) /\ Listing'
    OBVIOUS
  <2>1. Declared' = Declared
    BY SameEntries
  <2>2. Container' = Container /\ EntryCount' = EntryCount
    BY DEF Container, EntryCount
  <2>3. Unopened' <=> Unopened
    BY <2>2 DEF Unopened
  <2>4. Listing'
    BY <1>1, <2>1 DEF Listing
  <2> QED
    BY <2>1, <2>3, <2>4
<1>w. WellFormed <=> Extractable(l, D)
  BY <1>1, WellFormedFits
<1>l. l = job.entries /\ D = Declared /\ L = Len(job.entries) /\ L = Len(l)
  OBVIOUS
<1>p. l' = job'.entries /\ D' = Declared' /\ L' = Len(job'.entries)
  OBVIOUS
<1> HIDE DEF l, D, L
<1>2. CASE UNCHANGED materialiseVars
  <2>1. UNCHANGED <<job, step, at, table, stats, disk>>
    BY <1>2 DEF materialiseVars
  <2>2. \A n : Unpacks(n) => Unpacks(n)'
    BY <1>l, <1>p, <1>s, <2>1 DEF Unpacks
  <2> QED
    BY <1>l, <1>p, <1>s, <2>1, <2>2 DEF Unpacking
<1>3. ASSUME NEW error \in Errors, Fails(error), step \in {"verify", "open", "preflight", "write"},
             error \in {"extraction", "limit"} => ~Extractable(l, D) \/ Unopened
      PROVE  Unpacking'
  <2>1. UNCHANGED <<job, at, table, stats, disk>> /\ step' = error /\ step' \notin {"verify", "open", "preflight", "write", "done"}
    BY <1>3, <1>e DEF Fails
  <2>2. \A n : Unpacks(n) => Unpacks(n)'
    BY <1>l, <1>p, <1>s, <2>1 DEF Unpacks
  <2>3. disk = Empty \/ \E n \in 0 .. L : Unpacks(n)
    BY <1>1, <1>3, <1>l DEF Unpacking
  <2>4. disk' = Empty \/ \E n \in 0 .. Len(job.entries)' : Unpacks(n)'
    BY <1>l, <1>p, <1>s, <2>1, <2>2, <2>3
  <2>5. job'.root = <<>>
    BY <1>3, <1>e, <2>1 DEF Unpacking
  <2> QED
    BY <1>1, <1>3, <1>l, <1>p, <1>s, <2>1, <2>4, <2>5 DEF Unpacking
<1>4. CASE VerifyArtifact
  <2>1. step = "verify" /\ VerifyIntegrity(job.content, job.expected) \in {"none", "policy", "fetch"}
    BY <1>4 DEF VerifyArtifact, VerifyIntegrity
  <2>2. \/ Goes("open")
        \/ \E error \in {"policy", "fetch"} : Fails(error)
    BY <1>4, <2>1 DEF VerifyArtifact
  <2>3. CASE Goes("open")
    <3>1. step' = "open" /\ at' = 0 /\ UNCHANGED <<job, table, stats, disk>>
      BY <2>3 DEF Goes
    <3>2. table = [p \in {} |-> 0] /\ stats = NoStats /\ disk = Empty /\ job.root = <<>>
      BY <2>1 DEF Unpacking
    <3> QED
      BY <1>1, <1>e, <1>l, <1>p, <1>s, <3>1, <3>2 DEF Unpacking
  <2>4. CASE \E error \in {"policy", "fetch"} : Fails(error)
    <3>1. PICK error \in {"policy", "fetch"} : Fails(error)
      BY <2>4
    <3> QED
      BY <1>3, <1>e, <2>1, <3>1
  <2> QED
    BY <2>2, <2>3, <2>4
<1>5. CASE OpenArchive
  <2>1. step = "open"
    BY <1>5 DEF OpenArchive
  <2>2. Container \in {"unsupported", "tar", "zip"}
    BY DEF Container
  <2>3. \/ Goes("preflight")
        \/ Unopened /\ (Fails("extraction") \/ Fails("limit"))
    <3>1. CASE Container = "unsupported"
      BY <1>5, <3>1 DEF OpenArchive, Unopened
    <3>2. CASE Container = "tar"
      BY <1>5, <3>2 DEF OpenArchive, Unopened
    <3>3. CASE Container = "zip"
      BY <1>5, <3>3 DEF OpenArchive, Unopened
    <3> QED
      BY <2>2, <3>1, <3>2, <3>3
  <2>4. CASE Goes("preflight")
    <3>1. step' = "preflight" /\ at' = 0 /\ UNCHANGED <<job, table, stats, disk>>
      BY <2>4 DEF Goes
    <3>2. table = [p \in {} |-> 0] /\ stats = NoStats /\ disk = Empty /\ job.root = <<>>
      BY <2>1 DEF Unpacking
    <3>3. Catalogued(l, D, table, stats, 0)
      BY <1>1, <3>2, NothingUnpacked, Zenon
    <3>4. Catalogued(l', D', table', stats', at')
      BY <1>s, <3>1, <3>3
    <3> QED
      BY <1>1, <1>e, <1>l, <1>p, <1>s, <3>1, <3>2, <3>4 DEF Unpacking
  <2>5. CASE Unopened /\ (Fails("extraction") \/ Fails("limit"))
    BY <1>3, <1>e, <2>1, <2>5
  <2> QED
    BY <2>3, <2>4, <2>5
<1>6. CASE PreflightEntry
  <2> DEFINE e == l[at + 1]
             b == PreflightAccount(e)
  <2>1. step = "preflight" /\ at < L /\ at + 1 \in 1 .. L /\ Entry = e
    BY <1>1, <1>6, <1>l DEF PreflightEntry, More, Entry
  <2>2. Catalogued(l, D, table, stats, at) /\ disk = Empty /\ job.root = <<>>
    BY <1>l, <1>e, <2>1 DEF Unpacking
  <2>3. at + 1 \in D <=> ~Extension(e)
    BY <1>1, <1>l, <2>1 DEF Declared
  <2>4. /\ b.error \in Accounting
        /\ b.error = "none" /\ e.actual = e.size => Catalogued(l, D, b.table, b.stats, at + 1)
        /\ Extractable(l, D) => b.error = "none"
    <3>1. CASE Extension(e)
      <4> DEFINE c == [table |-> table, stats |-> CountObject(stats), error |-> CheckLimits(CountObject(stats))]
      <4>1. c = [Accounts EXCEPT !.stats = CountObject(stats), !.error = CheckLimits(CountObject(stats))]
        <5>1. ASSUME NEW o, NEW r
              PROVE  [Accounts EXCEPT !.stats = o, !.error = r] = [table |-> table, stats |-> o, error |-> r]
          <6> DEFINE A == [table |-> table, stats |-> o, error |-> "none"]
          <6>1. [Accounts EXCEPT !.stats = o] = A
            BY DEF Accounts
          <6>2. [A EXCEPT !.error = r] = [table |-> table, stats |-> o, error |-> r]
            OBVIOUS
          <6> HIDE DEF A
          <6> QED
            BY <6>1, <6>2
        <5> QED
          BY <5>1
      <4>2. b = AccountBytes(c, l[at + 1].size)
        BY <3>1, <4>1 DEF PreflightAccount
      <4> HIDE DEF b, c
      <4>3. c = [table |-> table, stats |-> CountObject(stats), error |-> CheckLimits(CountObject(stats))]
        BY DEF c
      <4> QED
        BY <1>1, <1>l, <2>1, <2>2, <2>3, <3>1, <4>2, <4>3, HeaderCatalogued
    <3>2. CASE ~Extension(e) /\ ~EntryAllowed(e)
      <4>1. b.error = "extraction"
        BY <3>2 DEF PreflightAccount, Accounts
      <4>2. ~Extractable(l, D)
        <5>1. at + 1 \in D \cap (1 .. Len(l)) /\ ~(SafeRelative(l[at + 1].path) /\ l[at + 1].type \in {"file", "dir"})
          BY <1>l, <2>1, <2>3, <3>2 DEF EntryAllowed
        <5> QED
          BY <5>1 DEF Extractable, Compatible
      <4> QED
        BY <4>1, <4>2 DEF Accounting
    <3>3. CASE ~Extension(e) /\ EntryAllowed(e)
      <4>1. b = AccountBytes(Account([table |-> table, stats |-> stats, error |-> "none"], EntryPath(l, at + 1), l[at + 1].type),
                             l[at + 1].size)
        BY <3>3 DEF PreflightAccount, Accounts, EntryPath
      <4>2. SafeRelative(l[at + 1].path) /\ l[at + 1].type \in {"file", "dir"}
        BY <3>3 DEF EntryAllowed
      <4> HIDE DEF b
      <4> QED
        BY <1>1, <1>l, <2>1, <2>2, <2>3, <3>3, <4>1, <4>2, PathCatalogued
    <3> QED
      BY <3>1, <3>2, <3>3
  <2>5. \/ b.error # "none" /\ Fails(b.error)
        \/ e.actual # e.size /\ Fails("extraction")
        \/ /\ b.error = "none" /\ e.actual = e.size
           /\ table' = b.table /\ stats' = b.stats /\ at' = at + 1 /\ UNCHANGED <<job, step, disk>>
    BY <1>6, <2>1 DEF PreflightEntry, EntrySizeVerified
  <2> HIDE DEF b
  <2>6. CASE b.error # "none" /\ Fails(b.error)
    <3>1. b.error \in Errors /\ ~Extractable(l, D)
      BY <1>e, <2>4, <2>6 DEF Accounting
    <3> QED
      BY <1>3, <2>1, <2>6, <3>1
  <2>7. CASE e.actual # e.size /\ Fails("extraction")
    <3>1. ~Extractable(l, D)
      BY <1>l, <2>1, <2>7 DEF Extractable, Compatible
    <3> QED
      BY <1>3, <1>e, <2>1, <2>7, <3>1
  <2>8. CASE /\ b.error = "none" /\ e.actual = e.size
             /\ table' = b.table /\ stats' = b.stats /\ at' = at + 1 /\ UNCHANGED <<job, step, disk>>
    <3>1. Catalogued(l', D', table', stats', at')
      BY <1>s, <2>4, <2>8
    <3>2. at + 1 \in 0 .. L
      BY <2>1
    <3> QED
      BY <1>e, <1>l, <1>p, <1>s, <2>1, <2>2, <2>8, <3>1, <3>2 DEF Unpacking
  <2> QED
    BY <2>5, <2>6, <2>7, <2>8
<1>7. CASE PreflightDone
  <2>1. step = "preflight" /\ at = L /\ step' = "write" /\ at' = 0 /\ UNCHANGED <<job, table, stats, disk>>
    BY <1>1, <1>7, <1>l DEF PreflightDone, More, Goes
  <2>2. Catalogued(l, D, table, stats, L) /\ disk = Empty /\ job.root = <<>>
    BY <1>e, <1>l, <2>1 DEF Unpacking
  <2>3. Unpacked(l, D, disk, 0)
    BY <1>1, <2>2, NothingUnpacked
  <2>4. Unpacks(at)'
    BY <1>l, <1>p, <1>s, <2>1, <2>2, <2>3 DEF Unpacks
  <2> QED
    BY <1>1, <1>e, <1>l, <1>p, <1>s, <2>1, <2>2, <2>4 DEF Unpacking
<1>8. CASE WriteEntry
  <2> DEFINE e == l[at + 1]
             path == EntryPath(l, at + 1)
             way == (Parents(path) \cup {path}) \ {<<>>}
  <2>1. step = "write" /\ at < L /\ at + 1 \in 1 .. L /\ Entry = e /\ at' = at + 1 /\ UNCHANGED <<job, table, stats>>
    BY <1>1, <1>8, <1>l DEF WriteEntry, More, Entry
  <2>2. Catalogued(l, D, table, stats, L) /\ Unpacked(l, D, disk, at) /\ job.root = <<>>
    BY <1>e, <1>l, <2>1 DEF Unpacking, Unpacks
  <2>3. at + 1 \in D <=> ~Extension(e)
    BY <1>1, <1>l, <2>1 DEF Declared
  <2>4. at + 1 \in D => e.type \in {"dir", "file"}
    BY <1>l, <2>1, <2>2 DEF Catalogued, Compatible
  <2>p. path = NormalizeRelative(Entry.path)
    BY <2>1 DEF EntryPath
  <2>5. \/ step' = "io" /\ disk' = disk
        \/ /\ step' = step
           /\ \/ at + 1 \notin D /\ disk' = disk
              \/ at + 1 \in D /\ e.type = "dir" /\ DirectoriesFit(way) /\ disk' = Made(way)
              \/ at + 1 \in D /\ e.type = "file" /\ CanCreateFile(path) /\ disk' = WithFile(path, e.size, e.path)
    <3> HIDE DEF path, way, e
    <3>1. CASE Extension(e)
      BY <1>8, <2>1, <2>3, <3>1 DEF WriteEntry
    <3>2. CASE ~Extension(e) /\ e.type = "dir"
      <4>1. IF DirectoriesFit(way) THEN disk' = Made(way) /\ UNCHANGED step ELSE step' = "io" /\ UNCHANGED disk
        BY <1>8, <2>1, <2>p, <3>2 DEF WriteEntry, way
      <4> QED
        BY <2>3, <3>2, <4>1
    <3>3. CASE ~Extension(e) /\ e.type = "file"
      <4>1. IF CanCreateFile(path) THEN disk' = WithFile(path, e.size, e.path) /\ UNCHANGED step ELSE step' = "io" /\ UNCHANGED disk
        BY <1>8, <2>1, <2>p, <3>3 DEF WriteEntry
      <4> QED
        BY <2>3, <3>3, <4>1
    <3> QED
      BY <2>3, <2>4, <3>1, <3>2, <3>3
  <2>6. at + 1 \in 0 .. L
    BY <2>1
  <2>7. CASE step' = "io" /\ disk' = disk
    <3>1. \E n \in 0 .. Len(job.entries)' : Unpacks(n)'
      <4>1. PICK n \in 0 .. L : Unpacked(l, D, disk, n)
        BY <1>1, <2>2
      <4>2. Unpacks(n)'
        BY <1>l, <1>p, <1>s, <2>1, <2>2, <2>7, <4>1 DEF Unpacks
      <4> QED
        BY <1>l, <1>p, <1>s, <2>1, <4>2
    <3> QED
      BY <1>1, <1>e, <1>l, <1>p, <1>s, <2>1, <2>2, <2>6, <2>7, <3>1 DEF Unpacking
  <2>8. CASE /\ step' = step
             /\ \/ at + 1 \notin D /\ disk' = disk
                \/ at + 1 \in D /\ e.type = "dir" /\ DirectoriesFit(way) /\ disk' = Made(way)
                \/ at + 1 \in D /\ e.type = "file" /\ CanCreateFile(path) /\ disk' = WithFile(path, e.size, e.path)
    <3>1. Unpacked(l, D, disk', at + 1)
      <4> HIDE DEF path, way
      <4>1. path = EntryPath(l, at + 1) /\ way = (Parents(path) \cup {path}) \ {<<>>}
        BY DEF path, way
      <4>2. \/ at + 1 \notin D /\ disk' = disk
            \/ at + 1 \in D /\ l[at + 1].type = "dir" /\ DirectoriesFit(way) /\ disk' = Made(way)
            \/ at + 1 \in D /\ l[at + 1].type = "file" /\ CanCreateFile(path) /\ disk' = WithFile(path, l[at + 1].size, l[at + 1].path)
        BY <2>8
      <4> QED
        BY <1>1, <1>l, <2>1, <2>2, <4>1, <4>2, UnpackedOneMore
    <3>2. Unpacks(at)'
      BY <1>l, <1>p, <1>s, <2>1, <2>2, <3>1 DEF Unpacks
    <3> QED
      BY <1>1, <1>e, <1>l, <1>p, <1>s, <2>1, <2>2, <2>6, <2>8, <3>2 DEF Unpacking
  <2> QED
    BY <2>5, <2>7, <2>8
<1>9. CASE Unwrap
  <2> DEFINE top == {p \in DOMAIN disk : Len(p) = 1}
  <2>1. step = "write" /\ at = L /\ step' = "done" /\ UNCHANGED <<at, table, stats, disk>>
    BY <1>1, <1>9, <1>l DEF Unwrap, More
  <2>2. Catalogued(l, D, table, stats, L) /\ Unpacked(l, D, disk, L) /\ job.root = <<>>
    BY <1>e, <1>l, <2>1 DEF Unpacking, Unpacks
  <2>3. \/ \E p \in top : top = {p} /\ job' = [job EXCEPT !.root = p]
        \/ UNCHANGED job
    BY <1>9 DEF Unwrap
  <2>4. /\ job'.entries = job.entries /\ job'.magic = job.magic /\ {"root", "entries", "magic"} \subseteq DOMAIN job'
        /\ \A p \in DOMAIN disk : SubSeq(p, 1, Len(job'.root)) = job'.root
    <3>1. \A p \in DOMAIN disk : SubSeq(p, 1, 0) = <<>> /\ SubSeq(p, 1, 1) \in top
      <4>1. L \in 0 .. Len(l)
        BY <1>1, <1>l
      <4> QED
        BY <1>1, <2>2, <4>1, TopsOnDisk
    <3>2. CASE UNCHANGED job
      <4>1. job'.root = <<>> /\ Len(job'.root) = 0
        BY <2>2, <3>2
      <4> QED
        BY <1>1, <3>1, <3>2, <4>1 DEF Listing
    <3>3. CASE \E p \in top : top = {p} /\ job' = [job EXCEPT !.root = p]
      <4>1. PICK p \in top : top = {p} /\ job' = [job EXCEPT !.root = p]
        BY <3>3
      <4>2. /\ job'.root = p /\ job'.entries = job.entries /\ job'.magic = job.magic
            /\ {"root", "entries", "magic"} \subseteq DOMAIN job'
        BY <1>1, <4>1 DEF Listing
      <4>3. Len(p) = 1
        BY <4>1
      <4>4. \A q \in DOMAIN disk : SubSeq(q, 1, 1) = p
        BY <3>1, <4>1
      <4>5. \A q \in DOMAIN disk : SubSeq(q, 1, Len(job'.root)) = job'.root
        BY <4>2, <4>3, <4>4
      <4> QED
        BY <4>2, <4>5
    <3> QED
      BY <2>3, <3>2, <3>3
  <2>5. D' = D /\ l' = l /\ L' = L
    BY <1>l, <1>p, <2>4, SameEntries
  <2>6. Listing'
    BY <1>1, <1>l, <1>p, <2>4, <2>5 DEF Listing
  <2>7. Unpacks(at)'
    BY <1>l, <1>p, <2>1, <2>2, <2>5 DEF Unpacks
  <2> QED
    BY <1>1, <1>e, <1>l, <1>p, <2>1, <2>4, <2>5, <2>6, <2>7 DEF Unpacking
<1>10. CASE Expires
  <2>1. step \in {"verify", "open", "preflight", "write"} /\ Fails("deadline")
    BY <1>10 DEF Expires, Unpacking
  <2> QED
    BY <1>3, <1>e, <2>1
<1> QED
  BY <1>2, <1>4, <1>5, <1>6, <1>7, <1>8, <1>9, <1>10 DEF ArchiveNext

\* What is on disk of an archive then is what was promised.
LEMMA UnpackingPromised ==
  ASSUME Unpacking
  PROVE  ExtractedWholeOrRefused
<1> DEFINE l == job.entries
           D == Declared
           L == Len(job.entries)
<1>1. Listing /\ Entries(l, D) /\ L \in Nat /\ at \in 0 .. L /\ D \subseteq 1 .. L /\ D \cap (1 .. L) = D
  BY DEF Unpacking, Listing, Entries
<1>e. /\ "verify" \notin Errors /\ "open" \notin Errors /\ "preflight" \notin Errors /\ "write" \notin Errors
      /\ "done" \notin Errors
  BY DEF Errors
<1>2. /\ WellFormed <=> Extractable(l, D)
      /\ Objects = FirstPaths(l, D, L)
      /\ DeclaredObjects = Cardinality(Objects) + Others(D, L)
      /\ DeclaredBytes = SumFunctionOnSet(SizeOf(l), 1 .. L)
  BY <1>1, WellFormedFits
<1>3. \A i : PathOf(i) = EntryPath(l, i)
  BY DEF PathOf, EntryPath
<1>l. \A n : Unpacks(n) <=> Catalogued(l, D, table, stats, L) /\ Unpacked(l, D, disk, n)
  BY DEF Unpacks
<1>4. step \in {"write", "done"} => Unpacks(at)
  BY DEF Unpacking
<1>5. disk = Empty \/ \E n \in 0 .. L : Unpacks(n)
  BY <1>1, <1>e DEF Unpacking
<1>6. step = "done" => at = L
  BY DEF Unpacking
<1>o. L = Len(l)
  OBVIOUS
<1> HIDE DEF l, D, L
<1>7. (\E n : Unpacks(n)) => WellFormed
  BY <1>2, <1>l, <1>o, CataloguedFits
<1>8. /\ disk # Empty \/ step = "done" => WellFormed
      /\ step = "write" /\ at = 0 => WellFormed
  BY <1>4, <1>5, <1>7
<1>9. WellFormed /\ step \in {"extraction", "limit"} =>
        \/ Container = "unsupported"
        \/ Container = "tar" /\ job.unpacked > InputBudget
        \/ Container = "zip" /\ (EntryCount = Malformed \/ EntryCount > MaxExtractedFiles)
  BY <1>2 DEF Unpacking, Unopened, l, D
<1>b. BytesOnDisk = Weight(disk)
  <2> DEFINE f == [p \in DOMAIN disk |-> disk[p].size]
  <2>1. BytesOnDisk = SumFunctionOnSet(f, DOMAIN f) /\ DOMAIN f = DOMAIN disk
    BY Zenon DEF BytesOnDisk, SumFunction
  <2>2. Weight(disk) = SumFunctionOnSet(f, DOMAIN disk)
    BY DEF Weight
  <2> QED
    BY <2>1, <2>2
<1>10. Cardinality(DOMAIN disk) <= MaxExtractedFiles /\ BytesOnDisk <= MaxExtractedSize
  <2>1. CASE disk = Empty
    <3>1. DOMAIN disk = {} /\ Cardinality(DOMAIN disk) = 0
      BY <2>1, FS_EmptySet DEF Empty
    <3>2. Weight(disk) = 0
      BY <3>1, FS_EmptySet, SumStep DEF Weight
    <3> QED
      BY <1>b, <3>1, <3>2, MaterialiseConstants
  <2>2. CASE \E n \in 0 .. L : Unpacks(n)
    <3>1. PICK n \in 0 .. L : Catalogued(l, D, table, stats, L) /\ Unpacked(l, D, disk, n)
      BY <1>l, <2>2
    <3>2. /\ DOMAIN disk = FirstPaths(l, D, n) \ {<<>>}
          /\ \A p \in DOMAIN disk : disk[p].size \in Nat
          /\ Weight(disk) <= SumFunctionOnSet(SizeOf(l), 1 .. n)
      BY <3>1 DEF Unpacked
    <3>3. /\ IsFiniteSet(FirstPaths(l, D, L)) /\ FirstPaths(l, D, n) \subseteq FirstPaths(l, D, L)
          /\ Cardinality(FirstPaths(l, D, L)) \in Nat /\ Others(D, L) \in Nat
      <4>1. L \in 0 .. L
        BY <1>1
      <4> QED
        BY <1>1, <1>o, <4>1, FirstOfAll
    <3>4. DOMAIN disk \subseteq FirstPaths(l, D, L)
      BY <3>2, <3>3
    <3>5. IsFiniteSet(DOMAIN disk) /\ Cardinality(DOMAIN disk) \in Nat /\ Cardinality(DOMAIN disk) <= Cardinality(FirstPaths(l, D, L))
      BY <3>3, <3>4, FS_Subset, FS_CardinalityType
    <3>6. /\ Cardinality(FirstPaths(l, D, L)) + Others(D, L) <= MaxExtractedFiles
          /\ SumFunctionOnSet(SizeOf(l), 1 .. L) <= MaxExtractedSize
      BY <1>o, <3>1, CataloguedFits DEF Extractable
    <3>7. /\ SumFunctionOnSet(SizeOf(l), 1 .. n) \in Nat /\ SumFunctionOnSet(SizeOf(l), 1 .. L) \in Nat
          /\ SumFunctionOnSet(SizeOf(l), 1 .. n) <= SumFunctionOnSet(SizeOf(l), 1 .. L)
      <4>1. Len(l) \in Nat /\ (\A i \in 1 .. Len(l) : l[i].size \in Nat) /\ Len(l) \in 0 .. Len(l) /\ n \in 0 .. Len(l)
        BY <1>1, <1>o DEF Entries
      <4> QED
        BY <1>o, <4>1, SizesSum
    <3>8. Weight(disk) \in Nat
      <4> DEFINE f == [p \in DOMAIN disk |-> disk[p].size]
      <4>1. \A p \in DOMAIN disk : f[p] \in Nat
        BY <3>2
      <4>2. Weight(disk) = SumFunctionOnSet(f, DOMAIN disk)
        BY DEF Weight
      <4> HIDE DEF f
      <4> QED
        BY <3>5, <4>1, <4>2, SumNat
    <3> QED
      BY <1>b, <3>2, <3>3, <3>5, <3>6, <3>7, <3>8, MaterialiseConstants
  <2> QED
    BY <1>5, <2>1, <2>2
<1>11. ASSUME step = "done"
       PROVE  /\ DOMAIN disk = Objects \ {<<>>}
              /\ \A i \in Declared : PathOf(i) # <<>> =>
                   /\ disk[PathOf(i)].kind = job.entries[i].type
                   /\ job.entries[i].type = "file" => disk[PathOf(i)].content = job.entries[i].path
              /\ stats = [files |-> DeclaredObjects, bytes |-> DeclaredBytes]
              /\ \A p \in DOMAIN disk : SubSeq(p, 1, Len(job.root)) = job.root
  <2>1. Catalogued(l, D, table, stats, L) /\ Unpacked(l, D, disk, L)
    BY <1>4, <1>6, <1>11, <1>l
  <2>2. DOMAIN disk = Objects \ {<<>>}
    BY <1>2, <2>1 DEF Unpacked
  <2>3. \A i \in D : EntryPath(l, i) # <<>> =>
          /\ disk[EntryPath(l, i)].kind = l[i].type
          /\ l[i].type = "file" => disk[EntryPath(l, i)].content = l[i].path
    BY <1>1, <2>1 DEF Unpacked
  <2>4. /\ stats \in [files: Nat, bytes: Nat] /\ stats.files = Cardinality(DOMAIN table) + Others(D, L)
        /\ DOMAIN table = FirstPaths(l, D, L) /\ stats.bytes = SumFunctionOnSet(SizeOf(l), 1 .. L)
    BY <2>1 DEF Catalogued, Tallied
  <2>5. stats.files = DeclaredObjects /\ stats.bytes = DeclaredBytes
    BY <1>2, <2>4
  <2>6. stats = [files |-> DeclaredObjects, bytes |-> DeclaredBytes]
    BY <2>4, <2>5
  <2>7. \A p \in DOMAIN disk : SubSeq(p, 1, Len(job.root)) = job.root
    BY <1>11 DEF Unpacking
  <2>8. \A i \in Declared : PathOf(i) # <<>> =>
          /\ disk[PathOf(i)].kind = job.entries[i].type
          /\ job.entries[i].type = "file" => disk[PathOf(i)].content = job.entries[i].path
    BY <1>3, <2>3 DEF l, D
  <2> QED
    BY <2>2, <2>6, <2>7, <2>8
<1> QED
  BY <1>8, <1>9, <1>10, <1>11 DEF ExtractedWholeOrRefused

\* In whatever order the entries of an archive come, it is on disk as a whole
\* when it is well formed and within the limits, and nothing is written of one
\* that is not (fetcher/archive/extract.rs, support.rs).
THEOREM ExtractionIsWhole == ArchiveSpec => []ExtractedWholeOrRefused
<1>1. ArchiveInit => Unpacking
  <2> SUFFICES ASSUME ArchiveInit PROVE Unpacking
    OBVIOUS
  <2>1. /\ job \in Archives /\ step = "verify" /\ at = 0
        /\ table = [p \in {} |-> 0] /\ stats = NoStats /\ disk = Empty
    BY DEF ArchiveInit
  <2>2. Listing /\ job.root = <<>>
    BY <2>1, ArchivesListed
  <2>3. at \in 0 .. Len(job.entries)
    BY <2>1, <2>2 DEF Listing, Entries
  <2>4. "verify" \notin Errors
    BY DEF Errors
  <2> QED
    BY <2>1, <2>2, <2>3, <2>4, Zenon DEF Unpacking
<1> QED
  BY <1>1, UnpackingStep, UnpackingPromised, PTL DEF ArchiveSpec

-----------------------------------------------------------------------------
(* The graph of Deno URL modules: one that is published or rebuilt is closed,   *)
(* bound to its lockfile and within its limits and its policy, and what was     *)
(* published can be rebuilt as it was.                                          *)

\* URLs queued and not looked at yet, one of them perhaps under way.
Waiting(u) == u \in ToSet(queue) \/ (request # None /\ request.from = u)

Done == {u \in queued : ~Waiting(u)}

\* Where a URL leads in files G, and the text found there.
Leads(G, u) == IF G.redirects[u] = None THEN u ELSE G.redirects[u]
Text(G, u) == G.modules[Leads(G, u)]

ModulesOf(G) == {e \in Urls : G.modules[e] # None}
RedirectsOf(G) == {u \in Urls : G.redirects[u] # None}

ImportsOf(content) == ToSet(Imports[content])

\* The files tell what u is, bound as declared, and what it imports is in D.
Settled(G, u, D) ==
    /\ Text(G, u) # None
    /\ Verified(u, Leads(G, u), Text(G, u))
    /\ Supported(Text(G, u))
    /\ ImportsOf(Text(G, u)) \subseteq D

\* Every set with the root that has the imports of its members, as far as these
\* are done, has all of D: nothing is in D but by an import.
OnlyReached(G, done, D) ==
    \A S \in SUBSET Urls :
        Root \in S /\ (\A v \in S \cap done : ImportsOf(Text(G, v)) \subseteq S) => D \subseteq S

\* G has the files for the URLs D, and no others.
FilesOf(G, done) ==
    /\ \A u \in RedirectsOf(G) : u \in done /\ G.redirects[u] # u
    /\ \A e \in ModulesOf(G) : \E u \in done : Leads(G, u) = e

Bounded(G, D) ==
    /\ IsFiniteSet(D) /\ IsFiniteSet(ModulesOf(G)) /\ IsFiniteSet(RedirectsOf(G))
    /\ Cardinality(ModulesOf(G)) <= MaxModules
    /\ Cardinality(ModulesOf(G)) + Cardinality(RedirectsOf(G)) <= MaxFiles
    /\ Cardinality(D) <= MaxModules \/ D = {Root}

\* The queue has every URL once, and only the download under way is not in it.
Queued ==
    /\ IsInjective(queue)
    /\ \A u \in ToSet(queue) : u \in queued /\ (request # None => u # request.from)
    /\ Root \in queued
    /\ request # None =>
          phase = "online" /\ request.from \in queued /\ Permitted(request.url)

\* What is done has its files, and what it imports has been queued.
Progress ==
    phase # "failed" =>
        /\ \A u \in Done : Settled(kept, u, queued)
        /\ OnlyReached(kept, Done, queued)
        /\ FilesOf(kept, Done)

GraphAccounts ==
    /\ Bounded(kept, queued)
    /\ files = Cardinality(ModulesOf(kept)) + Cardinality(RedirectsOf(kept))
    /\ Cardinality(ModulesOf(kept)) <= Cardinality(Done)

\* G is a whole graph, whose URLs are D.
Whole(G, D) ==
    /\ Root \in D
    /\ \A u \in D : Settled(G, u, D)
    /\ FilesOf(G, D)
    /\ OnlyReached(G, D, D)
    /\ Bounded(G, D)

\* The files of a rebuild so far are among those that were published.
WithinPublished(D) ==
    /\ queued \subseteq D
    /\ \A u \in Urls : kept.modules[u] \in {None, cached.modules[u]}
    /\ \A u \in Urls : kept.redirects[u] \in {None, cached.redirects[u]}
    /\ \A u \in Done : Leads(kept, u) = Leads(cached, u)

Reusable ==
    /\ ~damaged /\ phase = "published" => \E D \in SUBSET Urls : Whole(cached, D)
    /\ ~damaged /\ phase \in {"rebuild", "restored"} =>
          \E D \in SUBSET Urls : Whole(cached, D) /\ WithinPublished(D)
    /\ phase \in {"published", "restored"} => queue = <<>>

GraphInv == TypeOK /\ Queued /\ Progress /\ GraphAccounts /\ PolicyHolds /\ Reusable

-----------------------------------------------------------------------------
(* Imports.                                                                    *)

\* The new imports of a text are those that are not queued, each once.
LEMMA NewImportsFound ==
    ASSUME NEW content \in Contents, Supported(content)
    PROVE  /\ NewImports(content) \in Seq(Urls)
           /\ IsInjective(NewImports(content))
           /\ ToSet(NewImports(content)) = ImportsOf(content) \ queued
<1> DEFINE s == Imports[content]
           r == CHOOSE r : Unseen(s, queued, r)
<1>1. s \in Seq(Urls) /\ IsInjective(s)
    BY GraphAssumption DEF Supported
<1>2. Unseen(s, queued, r)
  <2>1. \E t : Unseen(s, queued, t)
    BY <1>1, UnseenExists
  <2> QED
    BY <2>1
<1>3. NewImports(content) = r[Len(s)]
    BY DEF NewImports, Unseen
<1> HIDE DEF r, s
<1>4. /\ r[Len(s)] \in Seq(Urls) /\ IsInjective(r[Len(s)])
      /\ ToSet(r[Len(s)]) = ToSet(s) \ queued
    BY <1>1, <1>2, UnseenEntries
<1> QED
    BY <1>3, <1>4 DEF ImportsOf, s

-----------------------------------------------------------------------------
(* One URL looked at: what it adds to the files, to the URLs that are done and  *)
(* to those that are queued.                                                    *)

\* H is G with u known to lead to e, where text is.
Extends(G, H, u, e, text) ==
    /\ H.modules = [G.modules EXCEPT ![e] = text]
    /\ G.modules[e] \in {None, text}
    /\ H.redirects = IF u = e THEN G.redirects ELSE [G.redirects EXCEPT ![u] = e]

\* It leads where it says, the others lead where they did,
LEMMA LeadsOn ==
    ASSUME NEW G \in Files, NEW H \in Files, NEW done, NEW u \in Urls, NEW e \in Urls, NEW text \in Contents,
           Extends(G, H, u, e, text), FilesOf(G, done), done \subseteq Urls, u \notin done,
           \A v \in done : Text(G, v) # None
    PROVE  /\ Leads(H, u) = e /\ Text(H, u) = text
           /\ \A v \in done : Leads(H, v) = Leads(G, v) /\ Text(H, v) = Text(G, v)
<1>1. /\ G.modules \in [Urls -> Module] /\ G.redirects \in [Urls -> Urls \cup {None}]
      /\ H.modules \in [Urls -> Module] /\ H.redirects \in [Urls -> Urls \cup {None}]
    BY DEF Files
<1>2. None \notin Urls /\ None \notin Contents
    BY DownloadAssumption, GraphAssumption
<1>3. /\ H.modules[e] = text
      /\ \A v \in Urls \ {e} : H.modules[v] = G.modules[v]
      /\ \A v \in Urls : G.modules[v] # None => H.modules[v] = G.modules[v]
    BY <1>1 DEF Extends
<1>4. u \notin RedirectsOf(G) /\ G.redirects[u] = None
    BY DEF FilesOf, RedirectsOf
<1>5. /\ u # e => H.redirects[u] = e
      /\ u = e => H.redirects[u] = None
      /\ \A v \in Urls \ {u} : H.redirects[v] = G.redirects[v]
    BY <1>1, <1>4 DEF Extends
<1>6. Leads(H, u) = e
    BY <1>2, <1>5 DEF Leads
<1>7. Text(H, u) = text
    BY <1>3, <1>6 DEF Text
<1>8. \A v \in done : Leads(H, v) = Leads(G, v) /\ Leads(G, v) \in Urls
    BY <1>1, <1>5 DEF Leads
<1>9. \A v \in done : Text(H, v) = Text(G, v)
    BY <1>3, <1>8 DEF Text
<1> QED
    BY <1>6, <1>7, <1>8, <1>9

Written(G, H, u, e) ==
    /\ ModulesOf(H) = ModulesOf(G) \cup {e}
    /\ RedirectsOf(H) = RedirectsOf(G) \cup (IF u = e THEN {} ELSE {u})
    /\ u \notin RedirectsOf(G)

\* and nothing else is written.
LEMMA Extended ==
    ASSUME NEW G \in Files, NEW H \in Files, NEW done, NEW u \in Urls, NEW e \in Urls, NEW text \in Contents,
           Extends(G, H, u, e, text), FilesOf(G, done), done \subseteq Urls, u \notin done,
           \A v \in done : Text(G, v) # None
    PROVE  Written(G, H, u, e) /\ FilesOf(H, done \cup {u})
<1>1. /\ G.modules \in [Urls -> Module] /\ G.redirects \in [Urls -> Urls \cup {None}]
      /\ H.modules \in [Urls -> Module] /\ H.redirects \in [Urls -> Urls \cup {None}]
    BY DEF Files
<1>2. None \notin Urls /\ None \notin Contents
    BY DownloadAssumption, GraphAssumption
<1>3. /\ H.modules[e] = text
      /\ \A v \in Urls \ {e} : H.modules[v] = G.modules[v]
      /\ \A v \in Urls : G.modules[v] # None => H.modules[v] = G.modules[v]
    BY <1>1 DEF Extends
<1>4. u \notin RedirectsOf(G) /\ G.redirects[u] = None
    BY DEF FilesOf, RedirectsOf
<1>5. /\ u # e => H.redirects[u] = e
      /\ u = e => H.redirects[u] = None
      /\ \A v \in Urls \ {u} : H.redirects[v] = G.redirects[v]
    BY <1>1, <1>4 DEF Extends
<1>6. Leads(H, u) = e /\ \A v \in done : Leads(H, v) = Leads(G, v)
    BY LeadsOn
<1>10. ModulesOf(H) = ModulesOf(G) \cup {e}
    BY <1>2, <1>3 DEF ModulesOf
<1>11. RedirectsOf(H) = RedirectsOf(G) \cup (IF u = e THEN {} ELSE {u})
    BY <1>2, <1>4, <1>5 DEF RedirectsOf
<1>12. \A v \in RedirectsOf(H) : v \in done \cup {u} /\ H.redirects[v] # v
  <2> TAKE v \in RedirectsOf(H)
  <2>1. CASE v = u
    BY <1>4, <1>5, <1>11, <2>1
  <2>2. CASE v # u
    BY <1>5, <1>11, <2>2 DEF FilesOf, RedirectsOf
  <2> QED
    BY <2>1, <2>2
<1>13. \A x \in ModulesOf(H) : \E v \in done \cup {u} : Leads(H, v) = x
    BY <1>6, <1>10 DEF FilesOf
<1>14. FilesOf(H, done \cup {u})
    BY <1>12, <1>13 DEF FilesOf
<1> QED
    BY <1>4, <1>10, <1>11, <1>14 DEF Written

\* The URL is settled as the others are, with its imports queued, and nothing is
\* queued but by an import.
LEMMA ReachedAll ==
    ASSUME NEW G \in Files, NEW H \in Files, NEW done, NEW D, NEW u \in Urls, NEW e \in Urls,
           NEW text \in Contents,
           Extends(G, H, u, e, text), FilesOf(G, done), done \subseteq Urls, u \notin done,
           D \subseteq Urls, u \in D, \A v \in done : Settled(G, v, D), OnlyReached(G, done, D),
           Verified(u, e, text), Supported(text)
    PROVE  /\ \A v \in done \cup {u} : Settled(H, v, D \cup ImportsOf(text))
           /\ OnlyReached(H, done \cup {u}, D \cup ImportsOf(text))
<1>1. \A v \in done : Text(G, v) # None
    BY DEF Settled
<1>2. /\ Leads(H, u) = e /\ Text(H, u) = text
      /\ \A v \in done : Leads(H, v) = Leads(G, v) /\ Text(H, v) = Text(G, v)
    BY <1>1, LeadsOn
<1>3. \A v \in done : Settled(H, v, D \cup ImportsOf(text))
    BY <1>2 DEF Settled
<1>4. Settled(H, u, D \cup ImportsOf(text))
  <2>1. text # None
    BY GraphAssumption
  <2> QED
    BY <1>2, <2>1 DEF Settled
<1>5. OnlyReached(H, done \cup {u}, D \cup ImportsOf(text))
  <2> SUFFICES ASSUME NEW S \in SUBSET Urls, Root \in S,
                      \A v \in S \cap (done \cup {u}) : ImportsOf(Text(H, v)) \subseteq S
               PROVE  D \cup ImportsOf(text) \subseteq S
    BY DEF OnlyReached
  <2>1. \A v \in S \cap done : ImportsOf(Text(G, v)) \subseteq S
    BY <1>2
  <2>2. D \subseteq S
    BY <2>1 DEF OnlyReached
  <2>3. ImportsOf(Text(H, u)) \subseteq S
    BY <2>2
  <2> QED
    BY <1>2, <2>2, <2>3
<1> QED
    BY <1>3, <1>4, <1>5

\* What it adds to the counts.
LEMMA Counts ==
    ASSUME NEW G \in Files, NEW H \in Files, NEW done, NEW u \in Urls, NEW e \in Urls, NEW text \in Contents,
           Extends(G, H, u, e, text), FilesOf(G, done), done \subseteq Urls, u \notin done,
           \A v \in done : Text(G, v) # None,
           IsFiniteSet(ModulesOf(G)), IsFiniteSet(RedirectsOf(G))
    PROVE  /\ IsFiniteSet(ModulesOf(H)) /\ IsFiniteSet(RedirectsOf(H))
           /\ Cardinality(ModulesOf(H)) =
                 Cardinality(ModulesOf(G)) + (IF G.modules[e] = None THEN 1 ELSE 0)
           /\ Cardinality(RedirectsOf(H)) = Cardinality(RedirectsOf(G)) + RedirectFiles(u, e)
<1>1. /\ ModulesOf(H) = ModulesOf(G) \cup {e}
      /\ RedirectsOf(H) = RedirectsOf(G) \cup (IF u = e THEN {} ELSE {u})
      /\ u \notin RedirectsOf(G)
  <2>1. Written(G, H, u, e)
    BY Extended
  <2> QED
    BY <2>1 DEF Written
<1>2. e \in ModulesOf(G) <=> G.modules[e] # None
    BY DEF ModulesOf
<1>3. /\ IsFiniteSet(ModulesOf(H))
      /\ Cardinality(ModulesOf(H)) = Cardinality(ModulesOf(G)) + (IF G.modules[e] = None THEN 1 ELSE 0)
  <2>1. Cardinality(ModulesOf(G)) \in Nat
    BY FS_CardinalityType
  <2>2. CASE e \in ModulesOf(G)
    <3>1. ModulesOf(H) = ModulesOf(G)
      BY <1>1, <2>2
    <3> QED
      BY <1>2, <2>1, <2>2, <3>1
  <2>3. CASE e \notin ModulesOf(G)
    <3>1. /\ IsFiniteSet(ModulesOf(G) \cup {e})
          /\ Cardinality(ModulesOf(G) \cup {e}) = Cardinality(ModulesOf(G)) + 1
      BY <2>3, FS_AddElement
    <3> QED
      BY <1>1, <1>2, <2>3, <3>1
  <2> QED
    BY <2>2, <2>3
<1>4. /\ IsFiniteSet(RedirectsOf(H))
      /\ Cardinality(RedirectsOf(H)) = Cardinality(RedirectsOf(G)) + RedirectFiles(u, e)
  <2>1. Cardinality(RedirectsOf(G)) \in Nat
    BY FS_CardinalityType
  <2>2. CASE u = e
    <3>1. RedirectsOf(H) = RedirectsOf(G)
      BY <1>1, <2>2
    <3> QED
      BY <2>1, <2>2, <3>1 DEF RedirectFiles
  <2>3. CASE u # e
    <3>1. RedirectsOf(H) = RedirectsOf(G) \cup {u}
      BY <1>1, <2>3
    <3>2. /\ IsFiniteSet(RedirectsOf(G) \cup {u})
          /\ Cardinality(RedirectsOf(G) \cup {u}) = Cardinality(RedirectsOf(G)) + 1
      BY <1>1, FS_AddElement
    <3> QED
      BY <2>3, <3>1, <3>2 DEF RedirectFiles
  <2> QED
    BY <2>2, <2>3
<1> QED
    BY <1>3, <1>4

\* u is what is looked at next, and rest is what waits after it.
NextIs(u, rest) ==
    /\ u \in queued
    /\ rest \in Seq(Urls) /\ IsInjective(rest)
    /\ u \notin ToSet(rest)
    /\ \A w \in Urls : Waiting(w) <=> w = u \/ w \in ToSet(rest)
    /\ ToSet(rest) \subseteq queued

\* The URL u leads to e, where text is: it was written before or is written now.
Looked(u, e, text, rest) ==
    \/ kept.modules[e] = text /\ KeepRedirect(u, e, rest)
    \/ KeepModule(u, e, text, rest)

\* What a step that looks at u does, in the terms of the invariant.
LEMMA LookedAt ==
    ASSUME TypeOK, NEW u \in Urls, NEW e \in Urls, NEW text \in Contents, NEW rest, NextIs(u, rest),
           phase # "failed", Progress, GraphAccounts,
           Looked(u, e, text, rest), request' = None
    PROVE  /\ kept' \in Files /\ files' \in 0..MaxFiles /\ queued' \subseteq Urls
           /\ queue' \in Seq(Urls) /\ IsInjective(queue') /\ ToSet(queue') \subseteq queued'
           /\ Extends(kept, kept', u, e, text)
           /\ Verified(u, e, text) /\ Supported(text)
           /\ queued' = queued \cup ImportsOf(text)
           /\ queued' = queued \/ (IsFiniteSet(queued') /\ Cardinality(queued') <= MaxModules)
           /\ files' = files + RedirectFiles(u, e) + (IF kept.modules[e] = None THEN 1 ELSE 0)
           /\ kept.modules[e] = None => Cardinality(ModulesOf(kept)) < MaxModules
           /\ u \notin Done /\ Done' = Done \cup {u}
<1>1. /\ kept \in Files /\ kept.modules \in [Urls -> Module] /\ kept.redirects \in [Urls -> Urls \cup {None}]
      /\ files \in 0..MaxFiles /\ queued \subseteq Urls /\ rest \in Seq(Urls)
    BY DEF TypeOK, Files, NextIs
<1>2. RedirectFiles(u, e) \in {0, 1} /\ MaxFiles \in Nat /\ MaxModules \in Nat /\ None \notin Contents
    BY GraphAssumption DEF RedirectFiles
<1>3. Redirecting(u, e) \in [Urls -> Urls \cup {None}]
    BY <1>1 DEF Redirecting
<1>4. u \in queued /\ Waiting(u) /\ u \notin Done
    BY DEF NextIs, Done
<1>5. KeptModules = ModulesOf(kept)
    BY DEF KeptModules, ModulesOf
<1>6. CASE kept.modules[e] = text /\ KeepRedirect(u, e, rest)
  <2>1. /\ kept' = [kept EXCEPT !.redirects = Redirecting(u, e)]
        /\ files' = files + RedirectFiles(u, e) /\ files' <= MaxFiles
        /\ queue' = rest /\ queued' = queued
        /\ kept.modules[e] # None /\ Verified(u, e, text)
    BY <1>6 DEF KeepRedirect, Known
  <2>2. kept' \in Files /\ Extends(kept, kept', u, e, text)
    <3>1. kept'.modules = kept.modules /\ kept'.redirects = Redirecting(u, e)
      BY <1>1, <2>1 DEF Files
    <3>2. kept' \in Files
      BY <1>1, <1>3, <2>1, <3>1 DEF Files
    <3>3. kept.modules = [kept.modules EXCEPT ![e] = text]
      BY <1>1, <1>6
    <3> QED
      BY <1>6, <3>1, <3>2, <3>3 DEF Extends, Redirecting
  <2>3. PICK w \in Done : Leads(kept, w) = e
    BY <1>1, <2>1 DEF Progress, FilesOf, ModulesOf
  <2>4. Settled(kept, w, queued) /\ Text(kept, w) = text
    BY <1>6, <2>3 DEF Progress, Text
  <2>5. Supported(text) /\ ImportsOf(text) \subseteq queued
    BY <2>4 DEF Settled
  <2>6. Done' = Done \cup {u}
    BY <1>1, <1>4, <2>1 DEF Done, Waiting, NextIs
  <2>7. /\ files' \in 0..MaxFiles
        /\ files' = files + RedirectFiles(u, e) + (IF kept.modules[e] = None THEN 1 ELSE 0)
    BY <1>1, <1>2, <2>1
  <2>8. /\ queue' \in Seq(Urls) /\ IsInjective(queue') /\ ToSet(queue') \subseteq queued'
        /\ queued' = queued \cup ImportsOf(text)
    BY <2>1, <2>5 DEF NextIs
  <2> QED
    BY <1>1, <1>4, <2>1, <2>2, <2>5, <2>6, <2>7, <2>8
<1>7. CASE KeepModule(u, e, text, rest)
  <2> DEFINE new == NewImports(text)
  <2>1. /\ kept' = [modules |-> [kept.modules EXCEPT ![e] = text], redirects |-> Redirecting(u, e)]
        /\ files' = files + RedirectFiles(u, e) + 1 /\ files' <= MaxFiles
        /\ queue' = rest \o new /\ queued' = queued \cup ToSet(new)
        /\ kept.modules[e] = None /\ Verified(u, e, text) /\ Supported(text)
        /\ Cardinality(ModulesOf(kept)) < MaxModules
        /\ new # <<>> => Cardinality(queued) + Len(new) <= MaxModules
    BY <1>5, <1>7 DEF KeepModule, Keepable
  <2>2. new \in Seq(Urls) /\ IsInjective(new) /\ ToSet(new) = ImportsOf(text) \ queued
    BY <2>1, NewImportsFound
  <2> HIDE DEF new
  <2>3. kept' \in Files /\ Extends(kept, kept', u, e, text)
    <3>1. kept'.modules = [kept.modules EXCEPT ![e] = text] /\ kept'.redirects = Redirecting(u, e)
      BY <2>1
    <3>2. kept' \in Files
      <4>1. [kept.modules EXCEPT ![e] = text] \in [Urls -> Module]
        BY <1>1 DEF Module
      <4> QED
        BY <1>3, <2>1, <4>1 DEF Files
    <3> QED
      BY <2>1, <3>1, <3>2 DEF Extends, Redirecting
  <2>4. ToSet(rest) \cap ToSet(new) = {}
    BY <2>2 DEF NextIs
  <2>5. /\ queue' \in Seq(Urls) /\ IsInjective(queue') /\ ToSet(queue') = ToSet(rest) \cup ToSet(new)
    <3>1. IsInjective(rest)
      BY DEF NextIs
    <3> QED
      BY <1>1, <2>1, <2>2, <2>4, <3>1, JoinedOnce
  <2>6. /\ queued' = queued \cup ImportsOf(text)
        /\ queued' \subseteq Urls /\ ToSet(queue') \subseteq queued'
    <3>1. ToSet(new) \subseteq Urls
      BY <2>2 DEF ToSet
    <3> QED
      BY <1>1, <2>1, <2>2, <2>5, <3>1 DEF NextIs
  <2>7. queued' = queued \/ (IsFiniteSet(queued') /\ Cardinality(queued') <= MaxModules)
    <3>1. CASE new = <<>>
      <4>1. ToSet(new) = {}
        BY <3>1 DEF ToSet
      <4> QED
        BY <2>1, <4>1
    <3>2. CASE new # <<>>
      <4>1. IsFiniteSet(queued) /\ IsFiniteSet(ToSet(new)) /\ Cardinality(ToSet(new)) = Len(new)
        BY <2>2, CountedOnce DEF GraphAccounts, Bounded
      <4>2. queued \cap ToSet(new) = {}
        BY <2>2
      <4>3. IsFiniteSet(queued') /\ Cardinality(queued') = Cardinality(queued) + Len(new)
        <5>1. Cardinality(queued \cap ToSet(new)) = 0
          BY <4>2, FS_EmptySet
        <5>2. Cardinality(queued) \in Nat /\ Cardinality(ToSet(new)) \in Nat
          BY <4>1, FS_CardinalityType
        <5>3. /\ IsFiniteSet(queued \cup ToSet(new))
              /\ Cardinality(queued \cup ToSet(new)) =
                    Cardinality(queued) + Cardinality(ToSet(new)) - Cardinality(queued \cap ToSet(new))
          BY <4>1, FS_Union
        <5> QED
          BY <2>1, <4>1, <5>1, <5>2, <5>3
      <4> QED
        BY <2>1, <3>2, <4>3
    <3> QED
      BY <3>1, <3>2
  <2>8. Done' = Done \cup {u}
    <3>1. \A w \in queued : w \notin ToSet(new)
      BY <2>2
    <3>2. \A w \in queued' : Waiting(w)' <=> w \in ToSet(rest) \/ w \in ToSet(new)
      BY <2>5 DEF Waiting
    <3>3. \A w \in queued' : w \in queued \/ w \in ToSet(new)
      BY <2>1
    <3>4. \A w \in queued' : ~Waiting(w)' <=> (w \in queued /\ ~Waiting(w)) \/ w = u
      BY <1>1, <1>4, <3>1, <3>2, <3>3 DEF NextIs
    <3>5. queued \subseteq queued'
      BY <2>1
    <3> QED
      BY <1>4, <3>4, <3>5 DEF Done
  <2>9. /\ files' \in 0..MaxFiles
        /\ files' = files + RedirectFiles(u, e) + (IF kept.modules[e] = None THEN 1 ELSE 0)
    BY <1>1, <1>2, <2>1
  <2> QED
    BY <1>4, <2>1, <2>3, <2>5, <2>6, <2>7, <2>8, <2>9
<1> QED
    BY <1>6, <1>7 DEF Looked

\* Such a step keeps what is said of progress and of the counts.
LEMMA Processed ==
    ASSUME TypeOK, NEW u \in Urls, NEW e \in Urls, NEW text \in Contents, NEW rest, NextIs(u, rest),
           phase # "failed", Progress, GraphAccounts,
           Looked(u, e, text, rest), request' = None, UNCHANGED <<lockfile, expected>>
    PROVE  Progress' /\ GraphAccounts'
<1>1. /\ kept' \in Files /\ files' \in 0..MaxFiles /\ queued' \subseteq Urls
      /\ Extends(kept, kept', u, e, text)
      /\ Verified(u, e, text) /\ Supported(text)
      /\ queued' = queued \cup ImportsOf(text)
      /\ queued' = queued \/ (IsFiniteSet(queued') /\ Cardinality(queued') <= MaxModules)
      /\ files' = files + RedirectFiles(u, e) + (IF kept.modules[e] = None THEN 1 ELSE 0)
      /\ kept.modules[e] = None => Cardinality(ModulesOf(kept)) < MaxModules
      /\ u \notin Done /\ Done' = Done \cup {u}
    BY LookedAt
<1>2. /\ kept \in Files /\ queued \subseteq Urls /\ Done \subseteq Urls /\ Done \subseteq queued
      /\ files \in 0..MaxFiles /\ u \in queued
    BY DEF TypeOK, Done, NextIs
<1>3. /\ \A v \in Done : Settled(kept, v, queued)
      /\ OnlyReached(kept, Done, queued)
      /\ FilesOf(kept, Done)
    BY DEF Progress
<1>4. \A v \in Done : Text(kept, v) # None
    BY <1>3 DEF Settled
<1>5. Progress'
  <2>1. /\ \A v \in Done \cup {u} : Settled(kept', v, queued')
        /\ OnlyReached(kept', Done \cup {u}, queued')
    BY <1>1, <1>2, <1>3, ReachedAll
  <2>2. FilesOf(kept', Done \cup {u})
    BY <1>1, <1>2, <1>3, <1>4, Extended
  <2>3. /\ \A v \in Done' : Settled(kept, v, queued)'
        /\ OnlyReached(kept', Done', queued')
        /\ FilesOf(kept', Done')
    BY <1>1, <2>1, <2>2 DEF Settled, Verified
  <2> QED
    BY <2>3 DEF Progress, OnlyReached, FilesOf
<1>6. GraphAccounts'
  <2>1. /\ IsFiniteSet(queued) /\ IsFiniteSet(ModulesOf(kept)) /\ IsFiniteSet(RedirectsOf(kept))
        /\ Cardinality(ModulesOf(kept)) <= MaxModules
        /\ Cardinality(queued) <= MaxModules \/ queued = {Root}
        /\ files = Cardinality(ModulesOf(kept)) + Cardinality(RedirectsOf(kept))
        /\ Cardinality(ModulesOf(kept)) <= Cardinality(Done)
    BY DEF GraphAccounts, Bounded
  <2>2. /\ IsFiniteSet(ModulesOf(kept')) /\ IsFiniteSet(RedirectsOf(kept'))
        /\ Cardinality(ModulesOf(kept')) =
              Cardinality(ModulesOf(kept)) + (IF kept.modules[e] = None THEN 1 ELSE 0)
        /\ Cardinality(RedirectsOf(kept')) = Cardinality(RedirectsOf(kept)) + RedirectFiles(u, e)
    BY <1>1, <1>2, <1>3, <1>4, <2>1, Counts
  <2>3. IsFiniteSet(Done) /\ Cardinality(Done) \in Nat
    BY <1>2, <2>1, FS_Subset, FS_CardinalityType
  <2>4. IsFiniteSet(Done') /\ Cardinality(Done') = Cardinality(Done) + 1
    <3>1. IsFiniteSet(Done \cup {u}) /\ Cardinality(Done \cup {u}) = Cardinality(Done) + 1
      BY <1>1, <2>3, FS_AddElement
    <3> QED
      BY <1>1, <3>1
  <2>5. /\ Cardinality(ModulesOf(kept)) \in Nat /\ Cardinality(RedirectsOf(kept)) \in Nat
        /\ RedirectFiles(u, e) \in {0, 1} /\ MaxModules \in Nat /\ MaxFiles \in Nat
    BY <2>1, FS_CardinalityType, GraphAssumption DEF RedirectFiles
  <2>6. /\ files' = Cardinality(ModulesOf(kept')) + Cardinality(RedirectsOf(kept'))
        /\ Cardinality(ModulesOf(kept')) <= Cardinality(Done')
        /\ Cardinality(ModulesOf(kept')) <= MaxModules
    <3> HIDE DEF GraphAccounts, Progress
    <3>1. CASE kept.modules[e] = None
      BY <1>1, <2>1, <2>2, <2>3, <2>4, <2>5, <3>1
    <3>2. CASE kept.modules[e] # None
      BY <1>1, <2>1, <2>2, <2>3, <2>4, <2>5, <3>2
    <3> QED
      BY <3>1, <3>2
  <2>7. Cardinality(ModulesOf(kept')) + Cardinality(RedirectsOf(kept')) <= MaxFiles
    BY <1>1, <2>5, <2>6
  <2>8. IsFiniteSet(queued') /\ (Cardinality(queued') <= MaxModules \/ queued' = {Root})
    BY <1>1, <2>1
  <2>9. /\ Bounded(kept', queued')
        /\ files' = Cardinality(ModulesOf(kept')) + Cardinality(RedirectsOf(kept'))
        /\ Cardinality(ModulesOf(kept')) <= Cardinality(Done')
    BY <2>2, <2>6, <2>7, <2>8 DEF Bounded
  <2> QED
    BY <2>9 DEF GraphAccounts, Bounded, ModulesOf, RedirectsOf
<1> QED
    BY <1>5, <1>6

-----------------------------------------------------------------------------
(* The steps.                                                                  *)

\* A step that leaves the files, the queue and what is done leaves what is said of
\* them, unless the acquisition has failed.
LEMMA Unmoved ==
    ASSUME Progress, GraphAccounts, UNCHANGED <<lockfile, expected, kept, files, queued>>,
           phase # "failed" \/ phase' = "failed", Done' = Done
    PROVE  Progress' /\ GraphAccounts'
<1>1. GraphAccounts'
    BY DEF GraphAccounts, Bounded, ModulesOf, RedirectsOf
<1>2. Progress'
  <2>1. CASE phase' = "failed"
    BY <2>1 DEF Progress
  <2>2. CASE phase # "failed"
    <3>1. \A u \in Done' : Settled(kept, u, queued)'
      BY <2>2 DEF Progress, Settled, Verified, Text, Leads
    <3>2. OnlyReached(kept', Done', queued') /\ FilesOf(kept', Done')
      BY <2>2 DEF Progress
    <3> QED
      BY <3>1, <3>2 DEF Progress, OnlyReached, FilesOf, Text, Leads, ModulesOf, RedirectsOf
  <2> QED
    BY <2>1, <2>2
<1> QED
    BY <1>1, <1>2

\* What is published stays whole while its lockfile and the integrity stay.
LEMMA WholeStays ==
    ASSUME NEW G, NEW D, Whole(G, D), UNCHANGED <<lockfile, expected>>
    PROVE  Whole(G, D)'
    BY DEF Whole, Settled, Verified

\* The initial states.
LEMMA IInvInit == Init => GraphInv
<1> SUFFICES ASSUME Init PROVE GraphInv
    OBVIOUS
<1>1. /\ allowed \in Policies /\ phase = "online" /\ lockfile \in Lockfiles /\ expected \in Module
      /\ queue = <<Root>> /\ queued = {Root} /\ kept = NoFiles /\ files = 0 /\ cached = NoFiles
      /\ damaged = FALSE /\ request = None /\ requests = 0 /\ downloaded = 0
    BY DEF Init, DownloadInit
<1>2. /\ Root \in Urls /\ Policies \subseteq SUBSET Urls /\ MaxFiles \in Nat /\ MaxModules \in Nat
      /\ MaxRequests \in Nat /\ MaxDownloaded \in Nat
    BY GraphAssumption, DownloadAssumption
<1>3. NoFiles \in Files /\ ModulesOf(NoFiles) = {} /\ RedirectsOf(NoFiles) = {}
    BY DEF NoFiles, Files, Module, ModulesOf, RedirectsOf
<1>4. queue \in Seq(Urls) /\ ToSet(queue) = {Root} /\ IsInjective(queue)
    BY <1>1, <1>2 DEF ToSet, IsInjective
<1>5. TypeOK
  <2>1. DownloadTypeOK
    BY <1>1, <1>2 DEF DownloadTypeOK
  <2>2. phase \in {"online", "rebuild"} \cup GraphEnded /\ damaged \in BOOLEAN
    BY <1>1
  <2>3. files \in 0..MaxFiles /\ kept \in Files /\ cached \in Files /\ queued \subseteq Urls
    BY <1>1, <1>2, <1>3
  <2> QED
    BY <1>1, <1>4, <2>1, <2>2, <2>3 DEF TypeOK
<1>6. Done = {}
    BY <1>1, <1>4 DEF Done, Waiting
<1>7. Queued
    BY <1>1, <1>4 DEF Queued
<1>8. Progress
    BY <1>1, <1>3, <1>6 DEF Progress, OnlyReached, FilesOf
<1>9. GraphAccounts
  <2>1. IsFiniteSet({}) /\ Cardinality({}) = 0 /\ IsFiniteSet({Root})
    BY FS_EmptySet, FS_Singleton
  <2> QED
    BY <1>1, <1>2, <1>3, <1>6, <2>1 DEF GraphAccounts, Bounded
<1>10. PolicyHolds
    BY <1>1, <1>3 DEF PolicyHolds, KeptModules, ModulesOf
<1>11. Reusable
    BY <1>1 DEF Reusable
<1> QED
    BY <1>5, <1>7, <1>8, <1>9, <1>10, <1>11 DEF GraphInv

\* The next URL is asked for.
LEMMA RequestNextKeeps == GraphInv /\ RequestNext => GraphInv'
<1> SUFFICES ASSUME GraphInv, RequestNext PROVE GraphInv'
    OBVIOUS
<1>1. /\ phase = "online" /\ queue # <<>> /\ request = None /\ Permitted(Head(queue))
      /\ request' = [from |-> Head(queue), url |-> Head(queue), redirects |-> 0]
      /\ queue' = Tail(queue)
      /\ UNCHANGED <<allowed, requests, downloaded, phase, lockfile, expected, queued, kept, files, cached,
                     damaged>>
    BY DEF RequestNext, Ask
<1>2. TypeOK /\ Queued /\ Progress /\ GraphAccounts /\ PolicyHolds /\ Reusable
    BY DEF GraphInv
<1>3. queue \in Seq(Urls)
    BY <1>2 DEF TypeOK
<1>4. /\ Tail(queue) \in Seq(Urls) /\ Head(queue) \in Urls
      /\ ToSet(queue) = ToSet(Tail(queue)) \cup {Head(queue)}
      /\ IsInjective(Tail(queue)) /\ Head(queue) \notin ToSet(Tail(queue))
    BY <1>1, <1>2, <1>3, Tailed DEF Queued
<1>5. request' \in Request /\ request' # None /\ request'.from = Head(queue) /\ request'.url = Head(queue)
  <2>1. None \notin Request /\ MaxRedirects \in Nat
    BY DownloadAssumption
  <2>2. request' \in Request /\ request'.from = Head(queue) /\ request'.url = Head(queue)
    BY <1>1, <1>4, <2>1 DEF Request
  <2> QED
    BY <2>1, <2>2
<1>6. TypeOK'
  <2>1. DownloadTypeOK'
    BY <1>1, <1>2, <1>5 DEF TypeOK, DownloadTypeOK
  <2> QED
    BY <1>1, <1>2, <1>4, <2>1 DEF TypeOK
<1>7. Done' = Done
  <2>1. \A w : Waiting(w)' <=> Waiting(w)
    BY <1>1, <1>4, <1>5 DEF Waiting
  <2> QED
    BY <1>1, <2>1 DEF Done
<1>8. Queued'
    BY <1>1, <1>2, <1>4, <1>5 DEF Queued, Permitted
<1>9. Progress' /\ GraphAccounts'
    BY <1>1, <1>2, <1>7, Unmoved
<1>10. PolicyHolds'
    BY <1>1, <1>2 DEF PolicyHolds, Permitted, KeptModules
<1>11. Reusable'
    BY <1>1 DEF Reusable
<1> QED
    BY <1>6, <1>8, <1>9, <1>10, <1>11 DEF GraphInv

\* The download under way is redirected.
LEMMA FollowRedirectKeeps == GraphInv /\ FollowRedirect => GraphInv'
<1> SUFFICES ASSUME GraphInv, FollowRedirect PROVE GraphInv'
    OBVIOUS
<1>1. PICK target \in Urls : Redirect(target)
    BY DEF FollowRedirect
<1>2. /\ phase = "online" /\ UNCHANGED graphVars /\ request # None
      /\ requests < MaxRequests /\ requests' = requests + 1
      /\ request.redirects < MaxRedirects /\ Permitted(target)
      /\ request' = [request EXCEPT !.url = target, !.redirects = @ + 1]
      /\ UNCHANGED <<allowed, downloaded>>
    BY <1>1 DEF FollowRedirect, Redirect, Send
<1>3. UNCHANGED <<phase, lockfile, expected, queue, queued, kept, files, cached, damaged>>
    BY <1>2 DEF graphVars
<1>4. TypeOK /\ Queued /\ Progress /\ GraphAccounts /\ PolicyHolds /\ Reusable
    BY DEF GraphInv
<1>5. request \in Request /\ requests \in 0..MaxRequests /\ downloaded \in 0..MaxDownloaded
    BY <1>2, <1>4 DEF TypeOK, DownloadTypeOK
<1>6. request' \in Request /\ request'.from = request.from /\ request'.url = target
      <2>1. /\ request.from \in Urls /\ request.url \in Urls /\ request.redirects \in 0..MaxRedirects
        /\ request.redirects + 1 \in 0..MaxRedirects
    BY <1>2, <1>5, DownloadAssumption DEF Request
  <2>2. request' = [from |-> request.from, url |-> target, redirects |-> request.redirects + 1]
    BY <1>2, <1>5 DEF Request
  <2> QED
    BY <2>1, <2>2 DEF Request
<1>7. request' # None
    BY <1>6, DownloadAssumption
<1>8. TypeOK'
  <2>1. requests' \in 0..MaxRequests
    BY <1>2, <1>5, DownloadAssumption
  <2>2. DownloadTypeOK'
    BY <1>2, <1>4, <1>6, <2>1 DEF TypeOK, DownloadTypeOK
  <2> QED
    BY <1>3, <1>4, <2>2 DEF TypeOK
<1>9. Done' = Done
    BY <1>2, <1>3, <1>6, <1>7 DEF Done, Waiting
<1>10. Queued'
    BY <1>2, <1>3, <1>4, <1>6, <1>7 DEF Queued, Permitted
<1>11. Progress' /\ GraphAccounts'
    BY <1>2, <1>3, <1>4, <1>9, Unmoved
<1>12. PolicyHolds'
    BY <1>2, <1>3, <1>4 DEF PolicyHolds, Permitted, KeptModules
<1>13. Reusable'
    BY <1>2, <1>3 DEF Reusable
<1> QED
    BY <1>8, <1>10, <1>11, <1>12, <1>13 DEF GraphInv

\* What is looked at next is the URL of the download under way,
LEMMA UnderWay ==
    ASSUME TypeOK, Queued, request # None, NEW u, NEW rest, u = request.from, rest = queue
    PROVE  u \in Urls /\ NextIs(u, rest)
<1>1. request \in Request /\ queue \in Seq(Urls)
    BY DEF TypeOK, DownloadTypeOK
<1>2. u \in Urls
    BY <1>1 DEF Request
<1>3. u \in queued /\ u \notin ToSet(rest) /\ ToSet(rest) \subseteq queued /\ IsInjective(rest)
    BY DEF Queued
<1>4. \A w \in Urls : Waiting(w) <=> w = u \/ w \in ToSet(rest)
    BY DEF Waiting
<1> QED
    BY <1>1, <1>2, <1>3, <1>4 DEF NextIs

\* or, in a rebuild, the head of the queue.
LEMMA AtHead ==
    ASSUME TypeOK, Queued, request = None, queue # <<>>, NEW u, NEW rest, u = Head(queue), rest = Tail(queue)
    PROVE  u \in Urls /\ NextIs(u, rest)
<1>1. queue \in Seq(Urls)
    BY DEF TypeOK
<1>2. /\ rest \in Seq(Urls) /\ u \in Urls
      /\ ToSet(queue) = ToSet(rest) \cup {u}
      /\ IsInjective(rest) /\ u \notin ToSet(rest)
    BY <1>1, Tailed DEF Queued
<1>3. u \in queued /\ ToSet(rest) \subseteq queued
    BY <1>2 DEF Queued
<1>4. \A w \in Urls : Waiting(w) <=> w = u \/ w \in ToSet(rest)
    BY <1>2 DEF Waiting
<1> QED
    BY <1>2, <1>3, <1>4 DEF NextIs

\* A module has arrived.
LEMMA ReceiveModuleKeeps == GraphInv /\ ReceiveModule => GraphInv'
<1> SUFFICES ASSUME GraphInv, ReceiveModule PROVE GraphInv'
    OBVIOUS
<1>1. TypeOK /\ Queued /\ Progress /\ GraphAccounts /\ PolicyHolds /\ Reusable
    BY DEF GraphInv
<1>2. PICK content \in Contents :
          /\ Receive(Bytes[content])
          /\ \/ KeepRedirect(request.from, request.url, queue)
             \/ KeepModule(request.from, request.url, content, queue)
    BY DEF ReceiveModule
<1>3. phase = "online" /\ UNCHANGED <<phase, lockfile, expected, cached, damaged>>
    BY DEF ReceiveModule
<1>4. /\ request # None /\ requests < MaxRequests /\ requests' = requests + 1
      /\ downloaded + Bytes[content] <= MaxDownloaded /\ request' = None
      /\ downloaded' = downloaded + Bytes[content] /\ allowed' = allowed
    BY <1>2 DEF Receive, Send
<1>5. /\ request \in Request /\ requests \in 0..MaxRequests /\ downloaded \in 0..MaxDownloaded
      /\ kept \in Files
    BY <1>1, <1>4 DEF TypeOK, DownloadTypeOK
<1>6. PICK u, e, rest : u = request.from /\ e = request.url /\ rest = queue
    OBVIOUS
<1>7. u \in Urls /\ NextIs(u, rest)
    BY <1>1, <1>4, <1>6, UnderWay
<1>8. e \in Urls /\ Permitted(e)
    BY <1>1, <1>4, <1>5, <1>6 DEF Request, Queued
<1>9. KeepRedirect(u, e, rest) \/ KeepModule(u, e, content, rest)
    BY <1>2, <1>6
<1>10. PICK text \in Contents : Looked(u, e, text, rest)
  <2>1. CASE KeepRedirect(u, e, rest)
    <3>1. kept.modules[e] \in Contents
      BY <1>5, <1>8, <2>1 DEF KeepRedirect, Known, Files, Module
    <3> QED
      BY <2>1, <3>1 DEF Looked
  <2>2. CASE KeepModule(u, e, content, rest)
    BY <1>2, <2>2 DEF Looked
  <2> QED
    BY <1>9, <2>1, <2>2
<1>11. phase # "failed"
    BY <1>3
<1>12. Progress' /\ GraphAccounts'
    BY <1>1, <1>3, <1>4, <1>7, <1>8, <1>10, <1>11, Processed
<1>13. /\ kept' \in Files /\ files' \in 0..MaxFiles /\ queued' \subseteq Urls
       /\ queue' \in Seq(Urls) /\ IsInjective(queue') /\ ToSet(queue') \subseteq queued'
       /\ Extends(kept, kept', u, e, text)
       /\ queued' = queued \cup ImportsOf(text)
    BY <1>1, <1>4, <1>7, <1>8, <1>10, <1>11, LookedAt
<1>14. TypeOK'
  <2>1. Bytes[content] \in Nat
    BY <1>2, GraphAssumption
  <2>2. requests' \in 0..MaxRequests /\ downloaded' \in 0..MaxDownloaded
    BY <1>4, <1>5, <2>1, DownloadAssumption
  <2>3. DownloadTypeOK'
    BY <1>1, <1>4, <2>2 DEF TypeOK, DownloadTypeOK
  <2> QED
    BY <1>1, <1>3, <1>13, <2>3 DEF TypeOK
<1>15. Queued'
    BY <1>1, <1>4, <1>13 DEF Queued
<1>16. PolicyHolds'
  <2>1. \A x \in KeptModules' : x = e \/ x \in KeptModules
    BY <1>5, <1>8, <1>13 DEF KeptModules, Extends, Files
  <2>2. \A x \in KeptModules' : Permitted(x)
    BY <1>1, <1>3, <1>8, <2>1 DEF PolicyHolds
  <2> QED
    BY <1>4, <2>2 DEF PolicyHolds, Permitted
<1>17. Reusable'
    BY <1>3 DEF Reusable
<1> QED
    BY <1>12, <1>14, <1>15, <1>16, <1>17 DEF GraphInv

\* The graph is published: all that was queued is done.
LEMMA PublishKeeps == GraphInv /\ Publish => GraphInv'
<1> SUFFICES ASSUME GraphInv, Publish PROVE GraphInv'
    OBVIOUS
<1>1. TypeOK /\ Queued /\ Progress /\ GraphAccounts /\ PolicyHolds /\ Reusable
    BY DEF GraphInv
<1>2. /\ phase = "online" /\ request = None /\ queue = <<>> /\ phase' = "published" /\ cached' = kept
      /\ UNCHANGED <<lockfile, expected, queue, queued, kept, files, damaged>>
      /\ UNCHANGED <<allowed, request, requests, downloaded>>
    BY DEF Publish, downloadVars
<1>3. Done = queued
    BY <1>2 DEF Done, Waiting, ToSet
<1>4. Done' = Done
    BY <1>2 DEF Done, Waiting
<1>5. TypeOK'
    BY <1>1, <1>2 DEF TypeOK, DownloadTypeOK, GraphEnded
<1>6. Queued'
    BY <1>1, <1>2 DEF Queued, Permitted
<1>7. Progress' /\ GraphAccounts'
  <2>1. phase # "failed"
    BY <1>2
  <2> QED
    BY <1>1, <1>2, <1>4, <2>1, Unmoved
<1>8. PolicyHolds'
    BY <1>1, <1>2 DEF PolicyHolds, Permitted, KeptModules
<1>9. Reusable'
  <2>1. Whole(kept, queued)
    BY <1>1, <1>2, <1>3 DEF Whole, Queued, Progress, GraphAccounts
  <2>2. PICK G, D : G = kept /\ D = queued
    OBVIOUS
  <2>3. Whole(G, D)'
    BY <1>2, <2>1, <2>2, WholeStays
  <2>4. D \in SUBSET Urls /\ cached' = G
    BY <1>1, <1>2, <2>2 DEF TypeOK
  <2> QED
    BY <1>2, <2>3, <2>4 DEF Reusable
<1> QED
    BY <1>5, <1>6, <1>7, <1>8, <1>9 DEF GraphInv

\* The entry is damaged: nothing is said of it any longer.
LEMMA DamageKeeps == GraphInv /\ Damage => GraphInv'
<1> SUFFICES ASSUME GraphInv, Damage PROVE GraphInv'
    OBVIOUS
<1>1. TypeOK /\ Queued /\ Progress /\ GraphAccounts /\ PolicyHolds /\ Reusable
    BY DEF GraphInv
<1>2. /\ phase = "published" /\ damaged' = TRUE
      /\ UNCHANGED <<phase, lockfile, expected, queue, queued, kept, files>>
      /\ UNCHANGED <<allowed, request, requests, downloaded>>
    BY DEF Damage, downloadVars
<1>3. cached \in Files
    BY <1>1 DEF TypeOK
<1>4. cached' \in Files
  <2>1. PICK u \in Urls :
          \/ \E content \in Module \ {cached.modules[u]} : cached' = [cached EXCEPT !.modules[u] = content]
          \/ \E target \in (Urls \cup {None}) \ {cached.redirects[u]} :
                cached' = [cached EXCEPT !.redirects[u] = target]
    BY DEF Damage
  <2>2. ASSUME NEW content \in Module, cached' = [cached EXCEPT !.modules[u] = content]
        PROVE  cached' \in Files
    BY <1>3, <2>2 DEF Files
  <2>3. ASSUME NEW target \in Urls \cup {None}, cached' = [cached EXCEPT !.redirects[u] = target]
        PROVE  cached' \in Files
    BY <1>3, <2>3 DEF Files
  <2> QED
    BY <2>1, <2>2, <2>3
<1>5. TypeOK'
    BY <1>1, <1>2, <1>4 DEF TypeOK, DownloadTypeOK
<1>6. Queued'
    BY <1>1, <1>2 DEF Queued, Permitted
<1>7. Progress' /\ GraphAccounts'
  <2>1. phase # "failed" /\ Done' = Done
    BY <1>2 DEF Done, Waiting
  <2> QED
    BY <1>1, <1>2, <2>1, Unmoved
<1>8. PolicyHolds'
    BY <1>1, <1>2 DEF PolicyHolds, Permitted, KeptModules
<1>9. Reusable'
    BY <1>1, <1>2 DEF Reusable
<1> QED
    BY <1>5, <1>6, <1>7, <1>8, <1>9 DEF GraphInv

\* A later process opens the entry and starts from the root again.
LEMMA ReopenKeeps == GraphInv /\ Reopen => GraphInv'
<1> SUFFICES ASSUME GraphInv, Reopen PROVE GraphInv'
    OBVIOUS
<1>1. TypeOK /\ Queued /\ Progress /\ GraphAccounts /\ PolicyHolds /\ Reusable
    BY DEF GraphInv
<1>2. /\ phase = "published" /\ phase' = "rebuild" /\ allowed' \in Policies
      /\ queue' = <<Root>> /\ queued' = {Root} /\ kept' = NoFiles /\ files' = 0
      /\ UNCHANGED <<lockfile, expected, cached, damaged, request, requests, downloaded>>
    BY DEF Reopen
<1>3. request = None
    BY <1>1, <1>2 DEF Queued
<1>4. Root \in Urls /\ Policies \subseteq SUBSET Urls /\ MaxFiles \in Nat /\ MaxModules \in Nat
    BY GraphAssumption
<1>5. NoFiles \in Files /\ ModulesOf(NoFiles) = {} /\ RedirectsOf(NoFiles) = {}
    BY DEF NoFiles, Files, Module, ModulesOf, RedirectsOf
<1>6. queue' \in Seq(Urls) /\ ToSet(queue') = {Root} /\ IsInjective(queue')
    BY <1>2, <1>4 DEF ToSet, IsInjective
<1>7. TypeOK'
  <2>1. DownloadTypeOK'
    BY <1>1, <1>2, <1>4 DEF TypeOK, DownloadTypeOK
  <2>2. files' \in 0..MaxFiles /\ kept' \in Files /\ queued' \subseteq Urls
    BY <1>2, <1>4, <1>5
  <2> QED
    BY <1>1, <1>2, <1>6, <2>1, <2>2 DEF TypeOK
<1>8. Done' = {}
    BY <1>2, <1>6 DEF Done, Waiting
<1>9. Queued'
    BY <1>2, <1>3, <1>6 DEF Queued
<1>10. Progress'
    BY <1>2, <1>5, <1>8 DEF Progress, OnlyReached, FilesOf
<1>11. GraphAccounts'
  <2>1. IsFiniteSet({}) /\ Cardinality({}) = 0 /\ IsFiniteSet({Root})
    BY FS_EmptySet, FS_Singleton
  <2>2. Bounded(NoFiles, {Root})
    BY <1>4, <1>5, <2>1 DEF Bounded
  <2>3. /\ files' = Cardinality(ModulesOf(kept')) + Cardinality(RedirectsOf(kept'))
        /\ Cardinality(ModulesOf(kept')) <= Cardinality(Done')
    BY <1>2, <1>5, <1>8, <2>1
  <2> QED
    BY <1>2, <2>2, <2>3 DEF GraphAccounts, Bounded, ModulesOf, RedirectsOf
<1>12. PolicyHolds'
    BY <1>2, <1>5 DEF PolicyHolds, KeptModules, ModulesOf
<1>13. Reusable'
  <2>1. ASSUME ~damaged PROVE \E D \in SUBSET Urls : Whole(cached, D)' /\ WithinPublished(D)'
    <3>1. PICK D \in SUBSET Urls : Whole(cached, D)
      BY <1>1, <1>2, <2>1 DEF Reusable
    <3>2. Whole(cached, D)'
      <4>1. UNCHANGED <<cached, lockfile, expected>>
        BY <1>2
      <4>2. \A u \in D : Settled(cached, u, D)'
        BY <3>1, <4>1 DEF Whole, Settled, Verified
      <4> QED
        BY <3>1, <4>1, <4>2 DEF Whole
    <3>3. queued' \subseteq D
      BY <1>2, <3>1 DEF Whole
    <3>4. \A u \in Urls : kept'.modules[u] = None /\ kept'.redirects[u] = None
      BY <1>2 DEF NoFiles
    <3>5. WithinPublished(D)'
      BY <1>8, <3>3, <3>4 DEF WithinPublished
    <3> QED
      BY <3>2, <3>5
  <2> QED
    BY <1>2, <2>1 DEF Reusable
<1> QED
    BY <1>7, <1>9, <1>10, <1>11, <1>12, <1>13 DEF GraphInv

\* A cached URL is looked at again.
LEMMA RebuildNextKeeps == GraphInv /\ RebuildNext => GraphInv'
<1> SUFFICES ASSUME GraphInv, RebuildNext PROVE GraphInv'
    OBVIOUS
<1>1. TypeOK /\ Queued /\ Progress /\ GraphAccounts /\ PolicyHolds /\ Reusable
    BY DEF GraphInv
<1>2. /\ phase = "rebuild" /\ queue # <<>>
      /\ UNCHANGED <<phase, lockfile, expected, cached, damaged>>
      /\ UNCHANGED <<allowed, request, requests, downloaded>>
    BY DEF RebuildNext, downloadVars
<1>3. request = None /\ request' = None
    BY <1>1, <1>2 DEF Queued
<1>4. kept \in Files /\ cached \in Files
    BY <1>1 DEF TypeOK
<1>5. PICK u, e, rest : u = Head(queue) /\ e = CachedTarget(u) /\ rest = Tail(queue)
    OBVIOUS
<1>6. u \in Urls /\ NextIs(u, rest)
    BY <1>1, <1>2, <1>3, <1>5, AtHead
<1>7. e \in Urls /\ e = Leads(cached, u)
    BY <1>4, <1>5, <1>6 DEF CachedTarget, Leads, Files
<1>8. Trusted(u) /\ (KeepRedirect(u, e, rest) \/ KeepModule(u, e, cached.modules[e], rest))
    BY <1>5 DEF RebuildNext
<1>9. PICK text \in Contents : /\ Looked(u, e, text, rest)
                               /\ kept.modules[e] = None => text = cached.modules[e]
  <2>1. CASE KeepRedirect(u, e, rest)
    <3>1. kept.modules[e] \in Contents /\ kept.modules[e] # None
      BY <1>4, <1>7, <2>1 DEF KeepRedirect, Known, Files, Module
    <3> QED
      BY <2>1, <3>1 DEF Looked
  <2>2. CASE KeepModule(u, e, cached.modules[e], rest)
    <3>1. kept.modules[e] = None
      BY <2>2 DEF KeepModule, Keepable
    <3>2. cached.modules[e] \in Contents
      BY <1>4, <1>5, <1>7, <1>8, <3>1 DEF Trusted, Files, Module
    <3> QED
      BY <2>2, <3>2 DEF Looked
  <2> QED
    BY <1>8, <2>1, <2>2
<1>10. phase # "failed"
    BY <1>2
<1>11. Progress' /\ GraphAccounts'
    BY <1>1, <1>2, <1>3, <1>6, <1>7, <1>9, <1>10, Processed
<1>12. /\ kept' \in Files /\ files' \in 0..MaxFiles /\ queued' \subseteq Urls
       /\ queue' \in Seq(Urls) /\ IsInjective(queue') /\ ToSet(queue') \subseteq queued'
       /\ Extends(kept, kept', u, e, text)
       /\ queued' = queued \cup ImportsOf(text)
       /\ u \notin Done /\ Done' = Done \cup {u}
    BY <1>1, <1>3, <1>6, <1>7, <1>9, <1>10, LookedAt
<1>13. TypeOK'
  <2>1. DownloadTypeOK'
    BY <1>1, <1>2 DEF TypeOK, DownloadTypeOK
  <2> QED
    BY <1>1, <1>2, <1>12, <2>1 DEF TypeOK
<1>14. Queued'
    BY <1>1, <1>3, <1>12 DEF Queued
<1>15. PolicyHolds'
  <2>1. \A x \in KeptModules' : x = e \/ x \in KeptModules
    BY <1>4, <1>7, <1>12 DEF KeptModules, Extends, Files
  <2>2. Permitted(e) \/ Origin[e] = Origin[Root]
    BY <1>5, <1>8 DEF Trusted, WithinPolicy, CachedTarget
  <2>3. \A x \in KeptModules' : Permitted(x) \/ Origin[x] = Origin[Root]
    BY <1>1, <2>1, <2>2 DEF PolicyHolds
  <2> QED
    BY <1>2, <2>3 DEF PolicyHolds, Permitted
<1>16. Reusable'
  <2>1. ASSUME ~damaged PROVE \E D \in SUBSET Urls : Whole(cached, D)' /\ WithinPublished(D)'
    <3>1. PICK D \in SUBSET Urls : Whole(cached, D) /\ WithinPublished(D)
      BY <1>1, <1>2, <2>1 DEF Reusable
    <3>2. Whole(cached, D)'
      <4>1. UNCHANGED <<cached, lockfile, expected>>
        BY <1>2
      <4>2. \A v \in D : Settled(cached, v, D)'
        BY <3>1, <4>1 DEF Whole, Settled, Verified
      <4> QED
        BY <3>1, <4>1, <4>2 DEF Whole
    <3>3. Settled(cached, u, D)
      BY <1>6, <3>1 DEF Whole, WithinPublished, NextIs
    <3>4. text = cached.modules[e]
      BY <1>7, <1>9, <1>12, <3>1 DEF WithinPublished, Extends
    <3>5. queued' \subseteq D
      BY <1>7, <1>12, <3>1, <3>3, <3>4 DEF Settled, Text, WithinPublished
    <3>6. \A v \in Urls : kept'.modules[v] \in {None, cached.modules[v]}
      BY <1>4, <1>7, <1>12, <3>1, <3>4 DEF Extends, WithinPublished, Files
    <3>7. \A v \in Urls : kept'.redirects[v] \in {None, cached.redirects[v]}
      <4>1. u # e => cached.redirects[u] = e
        BY <1>7 DEF Leads
      <4> QED
        BY <1>4, <1>6, <1>12, <3>1, <4>1 DEF Extends, WithinPublished, Files
    <3>8. \A v \in Done' : Leads(kept', v) = Leads(cached, v)
      <4>1. FilesOf(kept, Done) /\ \A v \in Done : Settled(kept, v, queued)
        BY <1>1, <1>10 DEF Progress
      <4>2. \A v \in Done : Text(kept, v) # None
        BY <4>1 DEF Settled
      <4>3. Done \subseteq Urls
        BY <1>1 DEF Done, TypeOK
      <4>4. Leads(kept', u) = e /\ \A v \in Done : Leads(kept', v) = Leads(kept, v)
        BY <1>4, <1>6, <1>7, <1>12, <4>1, <4>2, <4>3, LeadsOn
      <4> QED
        BY <1>7, <1>12, <3>1, <4>4 DEF WithinPublished
    <3>9. WithinPublished(D)'
      BY <1>2, <3>5, <3>6, <3>7, <3>8 DEF WithinPublished, Leads
    <3> QED
      BY <3>2, <3>9
  <2> QED
    BY <1>2, <2>1 DEF Reusable
<1> QED
    BY <1>11, <1>13, <1>14, <1>15, <1>16 DEF GraphInv

\* A rebuild is given up or is complete.
LEMMA RejectOrRestoreKeeps == GraphInv /\ (Reject \/ Restore) => GraphInv'
<1> SUFFICES ASSUME GraphInv, Reject \/ Restore PROVE GraphInv'
    OBVIOUS
<1>1. TypeOK /\ Queued /\ Progress /\ GraphAccounts /\ PolicyHolds /\ Reusable
    BY DEF GraphInv
<1>2. /\ phase = "rebuild" /\ phase' \in {"rejected", "restored"}
      /\ phase' = "restored" => queue = <<>>
      /\ UNCHANGED <<lockfile, expected, queue, queued, kept, files, cached, damaged>>
      /\ UNCHANGED <<allowed, request, requests, downloaded>>
    BY DEF Reject, Restore, downloadVars
<1>3. Done' = Done
    BY <1>2 DEF Done, Waiting
<1>4. TypeOK'
    BY <1>1, <1>2 DEF TypeOK, DownloadTypeOK, GraphEnded
<1>5. Queued'
    BY <1>1, <1>2 DEF Queued
<1>6. Progress' /\ GraphAccounts'
  <2>1. phase # "failed"
    BY <1>2
  <2> QED
    BY <1>1, <1>2, <1>3, <2>1, Unmoved
<1>7. PolicyHolds'
    BY <1>1, <1>2 DEF PolicyHolds, Permitted, KeptModules
<1>8. Reusable'
  <2>1. ASSUME ~damaged PROVE \E D \in SUBSET Urls : Whole(cached, D)' /\ WithinPublished(D)'
    <3>1. PICK D \in SUBSET Urls : Whole(cached, D) /\ WithinPublished(D)
      BY <1>1, <1>2, <2>1 DEF Reusable
    <3>2. Whole(cached, D)'
      <4>1. UNCHANGED <<cached, lockfile, expected>>
        BY <1>2
      <4>2. \A u \in D : Settled(cached, u, D)'
        BY <3>1, <4>1 DEF Whole, Settled, Verified
      <4> QED
        BY <3>1, <4>1, <4>2 DEF Whole
    <3>3. WithinPublished(D)'
      BY <1>2, <1>3, <3>1 DEF WithinPublished
    <3> QED
      BY <3>2, <3>3
  <2> QED
    BY <1>2, <2>1 DEF Reusable
<1> QED
    BY <1>4, <1>5, <1>6, <1>7, <1>8 DEF GraphInv

\* The acquisition or the rebuild fails: the counts stay true.
LEMMA FailKeeps == GraphInv /\ Fail => GraphInv'
<1> SUFFICES ASSUME GraphInv, Fail PROVE GraphInv'
    OBVIOUS
<1>1. TypeOK /\ Queued /\ Progress /\ GraphAccounts /\ PolicyHolds /\ Reusable
    BY DEF GraphInv
<1>2. /\ phase' = "failed" /\ request' = None
      /\ UNCHANGED <<lockfile, expected, queue, queued, kept, files, cached, damaged>>
      /\ UNCHANGED <<allowed, requests, downloaded>>
    BY DEF Fail
<1>3. TypeOK'
    BY <1>1, <1>2 DEF TypeOK, DownloadTypeOK, GraphEnded
<1>4. Queued'
    BY <1>1, <1>2 DEF Queued
<1>5. Progress'
    BY <1>2 DEF Progress
<1>6. GraphAccounts'
  <2>1. /\ IsFiniteSet(queued) /\ Cardinality(ModulesOf(kept)) <= Cardinality(Done)
        /\ IsFiniteSet(ModulesOf(kept))
    BY <1>1 DEF GraphAccounts, Bounded
  <2>2. Done \subseteq Done' /\ Done' \subseteq queued
    BY <1>2 DEF Done, Waiting
  <2>3. Cardinality(Done) <= Cardinality(Done') /\ Cardinality(Done) \in Nat /\ Cardinality(Done') \in Nat
    <3>1. IsFiniteSet(Done')
      BY <2>1, <2>2, FS_Subset
    <3>2. IsFiniteSet(Done) /\ Cardinality(Done) <= Cardinality(Done')
      BY <2>2, <3>1, FS_Subset
    <3> QED
      BY <3>1, <3>2, FS_CardinalityType
  <2>4. Cardinality(ModulesOf(kept)) \in Nat
    BY <2>1, FS_CardinalityType
  <2>5. Cardinality(ModulesOf(kept)) <= Cardinality(Done')
    BY <2>1, <2>3, <2>4
  <2> QED
    BY <1>1, <1>2, <2>5 DEF GraphAccounts, Bounded, ModulesOf, RedirectsOf
<1>7. PolicyHolds'
    BY <1>1, <1>2 DEF PolicyHolds, Permitted, KeptModules
<1>8. Reusable'
    BY <1>2 DEF Reusable
<1> QED
    BY <1>3, <1>4, <1>5, <1>6, <1>7, <1>8 DEF GraphInv

\* Every step keeps the invariant.
LEMMA IInvStep == GraphInv /\ [Next]_vars => GraphInv'
<1> SUFFICES ASSUME GraphInv, [Next]_vars PROVE GraphInv'
    OBVIOUS
<1>1. CASE UNCHANGED vars
  <2>1. /\ UNCHANGED <<phase, lockfile, expected, queue, queued, kept, files, cached, damaged>>
        /\ UNCHANGED <<allowed, request, requests, downloaded>>
    BY <1>1 DEF vars, graphVars, downloadVars
  <2>2. TypeOK /\ Queued /\ Progress /\ GraphAccounts /\ PolicyHolds /\ Reusable
    BY DEF GraphInv
  <2>3. TypeOK' /\ Queued' /\ PolicyHolds'
    BY <2>1, <2>2 DEF TypeOK, DownloadTypeOK, Queued, PolicyHolds, Permitted, KeptModules
  <2>4. Done' = Done
    BY <2>1 DEF Done, Waiting
  <2>5. Progress' /\ GraphAccounts'
    BY <2>1, <2>2, <2>4, Unmoved
  <2>6. Reusable'
    <3>1. ASSUME NEW D, Whole(cached, D) PROVE Whole(cached, D)'
      BY <2>1, <3>1 DEF Whole, Settled, Verified
    <3>2. ASSUME NEW D, WithinPublished(D) PROVE WithinPublished(D)'
      BY <2>1, <2>4, <3>2 DEF WithinPublished
    <3> QED
      BY <2>1, <2>2, <3>1, <3>2 DEF Reusable
  <2> QED
    BY <2>3, <2>5, <2>6 DEF GraphInv
<1>2. CASE Next
    BY <1>2, RequestNextKeeps, FollowRedirectKeeps, ReceiveModuleKeeps, PublishKeeps, DamageKeeps,
       ReopenKeeps, RebuildNextKeeps, RejectOrRestoreKeeps, FailKeeps DEF Next
<1> QED
    BY <1>1, <1>2

\* The invariant holds of every state of every run.
THEOREM GraphInvariance == Spec => []GraphInv
<1>1. Init => GraphInv
    BY IInvInit
<1>2. GraphInv /\ [Next]_vars => GraphInv'
    BY IInvStep
<1> QED
    BY <1>1, <1>2, PTL DEF Spec

-----------------------------------------------------------------------------
(* What follows from it.                                                       *)

\* When a graph is complete, all that was queued is done.
LEMMA AllDone ==
    ASSUME GraphInv, Complete
    PROVE  /\ Done = queued /\ Root \in queued /\ queued \subseteq Urls
           /\ \A u \in queued : Settled(kept, u, queued)
           /\ FilesOf(kept, queued)
           /\ \A u \in queued : Target(u) = Leads(kept, u) /\ Target(u) \in KeptModules
<1>1. TypeOK /\ Queued /\ Progress /\ Reusable
    BY DEF GraphInv
<1>2. phase \in {"published", "restored"}
    BY DEF Complete
<1>3. queue = <<>> /\ request = None
    BY <1>1, <1>2 DEF Reusable, Queued
<1>4. Done = queued
    BY <1>3 DEF Done, Waiting, ToSet
<1>5. Root \in queued /\ queued \subseteq Urls /\ kept \in Files
    BY <1>1 DEF Queued, TypeOK
<1>6. (\A u \in queued : Settled(kept, u, queued)) /\ FilesOf(kept, queued)
    BY <1>1, <1>2, <1>4 DEF Progress
<1>7. \A u \in queued : Target(u) = Leads(kept, u) /\ Target(u) \in Urls
    BY <1>5 DEF Target, Leads, Files
<1>8. \A u \in queued : Target(u) \in KeptModules
    BY <1>6, <1>7 DEF Settled, Text, KeptModules
<1> QED
    BY <1>4, <1>5, <1>6, <1>7, <1>8

\* The counters of an acquisition stay within their limits, and every file written is
\* counted once (kept_modules and record_file of the graph).
THEOREM GraphWithinLimits == Spec => []WithinLimits
<1>1. GraphInv => WithinLimits
  <2> SUFFICES ASSUME GraphInv PROVE WithinLimits
    OBVIOUS
  <2>1. KeptModules = ModulesOf(kept) /\ {u \in Urls : kept.redirects[u] # None} = RedirectsOf(kept)
    BY DEF KeptModules, ModulesOf, RedirectsOf
  <2>2. /\ IsFiniteSet(queued) /\ IsFiniteSet(ModulesOf(kept))
        /\ files = Cardinality(ModulesOf(kept)) + Cardinality(RedirectsOf(kept))
        /\ Cardinality(ModulesOf(kept)) <= MaxModules
        /\ Cardinality(ModulesOf(kept)) <= Cardinality(Done)
    BY DEF GraphInv, GraphAccounts, Bounded
  <2>3. IsFiniteSet(Done) /\ Cardinality(Done) <= Cardinality(queued)
    <3>1. Done \subseteq queued
      BY DEF Done
    <3> QED
      BY <2>2, <3>1, FS_Subset
  <2>4. Cardinality(ModulesOf(kept)) \in Nat /\ Cardinality(Done) \in Nat /\ Cardinality(queued) \in Nat
    BY <2>2, <2>3, FS_CardinalityType
  <2>5. Cardinality(ModulesOf(kept)) <= Cardinality(queued)
    BY <2>2, <2>3, <2>4
  <2>6. FilesAccounted
    BY <2>1, <2>2, <2>5 DEF FilesAccounted
  <2> QED
    BY <2>6 DEF WithinLimits, GraphInv
<1> QED
    BY <1>1, GraphInvariance, PTL

\* A graph that is handed on is closed: the root and every import of every module
\* lead to a module written, whatever was answered, redirected or found in the cache.
THEOREM GraphIsClosed == Spec => []GraphClosed
<1>1. GraphInv => GraphClosed
  <2> SUFFICES ASSUME GraphInv, Complete
               PROVE  /\ Target(Root) \in KeptModules
                      /\ \A e \in KeptModules :
                            \A v \in ToSet(Imports[kept.modules[e]]) : Target(v) \in KeptModules
    BY DEF GraphClosed
  <2>1. /\ Root \in queued
        /\ \A u \in queued : Settled(kept, u, queued)
        /\ FilesOf(kept, queued)
        /\ \A u \in queued : Target(u) = Leads(kept, u) /\ Target(u) \in KeptModules
    BY AllDone
  <2>2. ASSUME NEW e \in KeptModules, NEW v \in ToSet(Imports[kept.modules[e]])
        PROVE  Target(v) \in KeptModules
    <3>1. e \in ModulesOf(kept)
      BY DEF KeptModules, ModulesOf
    <3>2. PICK u \in queued : Leads(kept, u) = e
      BY <2>1, <3>1 DEF FilesOf
    <3>3. v \in queued
      BY <2>1, <3>2 DEF Settled, Text, ImportsOf
    <3> QED
      BY <2>1, <3>3
  <2> QED
    BY <2>1, <2>2
<1> QED
    BY <1>1, GraphInvariance, PTL

\* Each text of a graph handed on is the one that the integrity of the dependency and all
\* bindings of the lockfile for it agree on.
THEOREM GraphIsBound == Spec => []BoundToLockfile
<1>1. GraphInv => BoundToLockfile
  <2> SUFFICES ASSUME GraphInv, Complete, NEW u \in queued
               PROVE  LET text == kept.modules[Target(u)]
                          agreed   == IF lockfile = None THEN {}
                                      ELSE {lockfile.integrity[u], lockfile.integrity[Target(u)]} \ {None}
                      IN  IF u = Root THEN expected = text /\ agreed \subseteq {text}
                          ELSE agreed = {text}
    BY DEF BoundToLockfile
  <2> DEFINE text == kept.modules[Target(u)]
  <2>1. Settled(kept, u, queued) /\ Target(u) = Leads(kept, u)
    BY AllDone
  <2>2. Verified(u, Target(u), text)
    BY <2>1 DEF Settled, Text
  <2> HIDE DEF text
  <2>3. /\ u = Root => expected = text
        /\ lockfile = None => u = Root
        /\ lockfile # None =>
              {lockfile.integrity[v] : v \in {u, Target(u)}} \ {None} = {text}
    BY <2>2 DEF Verified
  <2>4. lockfile # None =>
           {lockfile.integrity[u], lockfile.integrity[Target(u)]} \ {None} = {text}
    BY <2>3
  <2> QED
    BY <2>3, <2>4 DEF text
<1> QED
    BY <1>1, GraphInvariance, PTL

\* Nothing of a graph comes from a URL that the policy in force forbids.
THEOREM GraphWithinPolicy == Spec => []PolicyHolds
<1>1. GraphInv => PolicyHolds
    BY DEF GraphInv
<1> QED
    BY <1>1, GraphInvariance, PTL

\* A rebuild that completes has all of the entry: nothing is in an entry but what the
\* root's imports reach.
LEMMA Restored ==
    ASSUME GraphInv, phase = "restored", ~damaged
    PROVE  kept = cached
<1>1. PICK D \in SUBSET Urls : Whole(cached, D) /\ WithinPublished(D)
    BY DEF GraphInv, Reusable
<1>2. /\ Done = queued /\ Root \in queued /\ queued \subseteq Urls
      /\ \A u \in queued : Settled(kept, u, queued)
    BY AllDone DEF Complete
<1>3. kept \in Files /\ cached \in Files
    BY DEF GraphInv, TypeOK
<1>4. \A u \in queued : Leads(kept, u) = Leads(cached, u) /\ Leads(kept, u) \in Urls
    BY <1>1, <1>2, <1>3 DEF WithinPublished, Leads, Files
<1>5. \A u \in queued : Text(kept, u) # None /\ Text(kept, u) = Text(cached, u)
    BY <1>1, <1>2, <1>4 DEF WithinPublished, Settled, Text
<1>6. D = queued
  <2>1. \A v \in queued \cap D : ImportsOf(Text(cached, v)) \subseteq queued
    BY <1>2, <1>5 DEF Settled
  <2>2. D \subseteq queued
    BY <1>1, <1>2, <2>1 DEF Whole, OnlyReached
  <2> QED
    BY <1>1, <2>2 DEF WithinPublished
<1>7. FilesOf(cached, queued)
    BY <1>1, <1>6 DEF Whole
<1>8. \A e \in Urls : kept.modules[e] = cached.modules[e]
  <2> SUFFICES ASSUME NEW e \in Urls, kept.modules[e] # cached.modules[e] PROVE FALSE
    OBVIOUS
  <2>1. kept.modules[e] = None /\ e \in ModulesOf(cached)
    BY <1>1 DEF WithinPublished, ModulesOf
  <2>2. PICK u \in queued : Leads(cached, u) = e
    BY <1>7, <2>1 DEF FilesOf
  <2> QED
    BY <1>4, <1>5, <2>1, <2>2 DEF Text
<1>9. \A u \in Urls : kept.redirects[u] = cached.redirects[u]
  <2> SUFFICES ASSUME NEW u \in Urls, kept.redirects[u] # cached.redirects[u] PROVE FALSE
    OBVIOUS
  <2>1. kept.redirects[u] = None /\ u \in RedirectsOf(cached)
    BY <1>1 DEF WithinPublished, RedirectsOf
  <2>2. u \in queued /\ cached.redirects[u] # u
    BY <1>7, <2>1 DEF FilesOf
  <2> QED
    BY <1>4, <2>1, <2>2 DEF Leads, RedirectsOf
<1>10. kept.modules = cached.modules /\ kept.redirects = cached.redirects
    BY <1>3, <1>8, <1>9 DEF Files
<1> QED
    BY <1>3, <1>10 DEF Files

\* What an undamaged entry has for the next URL fits: the files so far and the new ones
\* are among those that were published within the same limits.
LEMMA Fits ==
    ASSUME GraphInv, phase = "rebuild", NEW D \in SUBSET Urls, Whole(cached, D), WithinPublished(D),
           NEW u \in Urls, u \in queued, u \notin Done, NEW e \in Urls, e = Leads(cached, u)
    PROVE  Known(u, e) \/ Keepable(u, e, cached.modules[e])
<1>1. /\ kept \in Files /\ cached \in Files /\ queued \subseteq Urls /\ files \in 0..MaxFiles
    BY DEF GraphInv, TypeOK
<1>2. MaxModules \in Nat /\ MaxFiles \in Nat /\ None \notin Contents /\ None \notin Urls
    BY GraphAssumption, DownloadAssumption
<1>3. u \in D /\ Settled(cached, u, D) /\ FilesOf(cached, D) /\ Bounded(cached, D)
    BY DEF Whole, WithinPublished
<1>4. /\ FilesOf(kept, Done) /\ Bounded(kept, queued)
      /\ files = Cardinality(ModulesOf(kept)) + Cardinality(RedirectsOf(kept))
    BY DEF GraphInv, Progress, GraphAccounts
<1>5. /\ cached.modules[e] # None /\ cached.modules[e] \in Contents
      /\ Verified(u, e, cached.modules[e]) /\ Supported(cached.modules[e])
      /\ ImportsOf(cached.modules[e]) \subseteq D
    BY <1>1, <1>3 DEF Settled, Text, Files, Module
<1>6. ModulesOf(kept) \subseteq ModulesOf(cached) /\ e \in ModulesOf(cached)
    BY <1>5 DEF WithinPublished, ModulesOf
<1>7. u \notin RedirectsOf(kept) /\ RedirectsOf(kept) \subseteq RedirectsOf(cached)
      /\ (u # e => u \in RedirectsOf(cached))
  <2>1. u \notin RedirectsOf(kept)
    BY <1>4 DEF FilesOf
  <2>2. RedirectsOf(kept) \subseteq RedirectsOf(cached)
    BY DEF WithinPublished, RedirectsOf
  <2>3. u # e => u \in RedirectsOf(cached)
    BY DEF Leads, RedirectsOf
  <2> QED
    BY <2>1, <2>2, <2>3
<1>8. /\ IsFiniteSet(ModulesOf(kept)) /\ IsFiniteSet(RedirectsOf(kept)) /\ IsFiniteSet(queued)
      /\ IsFiniteSet(ModulesOf(cached)) /\ IsFiniteSet(RedirectsOf(cached)) /\ IsFiniteSet(D)
      /\ Cardinality(ModulesOf(cached)) <= MaxModules
      /\ Cardinality(ModulesOf(cached)) + Cardinality(RedirectsOf(cached)) <= MaxFiles
      /\ Cardinality(D) <= MaxModules \/ D = {Root}
    BY <1>3, <1>4 DEF Bounded
<1>9. /\ Cardinality(ModulesOf(kept)) \in Nat /\ Cardinality(RedirectsOf(kept)) \in Nat
      /\ Cardinality(ModulesOf(cached)) \in Nat /\ Cardinality(RedirectsOf(cached)) \in Nat
    BY <1>8, FS_CardinalityType
<1>10. /\ Cardinality(ModulesOf(kept)) <= Cardinality(ModulesOf(cached))
       /\ kept.modules[e] = None => Cardinality(ModulesOf(kept)) + 1 <= Cardinality(ModulesOf(cached))
  <2>1. Cardinality(ModulesOf(kept)) <= Cardinality(ModulesOf(cached))
    BY <1>6, <1>8, FS_Subset
  <2>2. ASSUME kept.modules[e] = None
        PROVE  Cardinality(ModulesOf(kept)) + 1 <= Cardinality(ModulesOf(cached))
    <3>1. e \notin ModulesOf(kept) /\ (ModulesOf(kept) \cup {e}) \subseteq ModulesOf(cached)
      BY <1>6, <2>2 DEF ModulesOf
    <3>2. Cardinality(ModulesOf(kept) \cup {e}) = Cardinality(ModulesOf(kept)) + 1
      BY <1>8, <3>1, FS_AddElement
    <3>3. Cardinality(ModulesOf(kept) \cup {e}) <= Cardinality(ModulesOf(cached))
      BY <1>8, <3>1, FS_Subset
    <3> QED
      BY <3>2, <3>3
  <2> QED
    BY <2>1, <2>2
<1>11. Cardinality(RedirectsOf(kept)) + RedirectFiles(u, e) <= Cardinality(RedirectsOf(cached))
  <2>1. CASE u = e
    <3>1. Cardinality(RedirectsOf(kept)) <= Cardinality(RedirectsOf(cached))
      BY <1>7, <1>8, FS_Subset
    <3> QED
      BY <1>9, <2>1, <3>1 DEF RedirectFiles
  <2>2. CASE u # e
    <3>1. (RedirectsOf(kept) \cup {u}) \subseteq RedirectsOf(cached)
      BY <1>7, <2>2
    <3>2. Cardinality(RedirectsOf(kept) \cup {u}) = Cardinality(RedirectsOf(kept)) + 1
      BY <1>7, <1>8, FS_AddElement
    <3>3. Cardinality(RedirectsOf(kept) \cup {u}) <= Cardinality(RedirectsOf(cached))
      BY <1>8, <3>1, FS_Subset
    <3> QED
      BY <2>2, <3>2, <3>3 DEF RedirectFiles
  <2> QED
    BY <2>1, <2>2
<1>12. RedirectFiles(u, e) \in {0, 1}
    BY DEF RedirectFiles
<1>13. CASE kept.modules[e] # None
  <2>1. kept.modules[e] = cached.modules[e]
    BY <1>13 DEF WithinPublished
  <2>2. files + RedirectFiles(u, e) <= MaxFiles
    BY <1>2, <1>4, <1>8, <1>9, <1>10, <1>11, <1>12
  <2> QED
    BY <1>5, <1>13, <2>1, <2>2 DEF Known
<1>14. CASE kept.modules[e] = None
  <2>1. files + RedirectFiles(u, e) + 1 <= MaxFiles
    BY <1>2, <1>4, <1>8, <1>9, <1>10, <1>11, <1>12, <1>14
  <2>2. Cardinality(ModulesOf(kept)) < MaxModules
    BY <1>2, <1>8, <1>9, <1>10, <1>14
  <2>3. KeptModules = ModulesOf(kept)
    BY DEF KeptModules, ModulesOf
  <2> DEFINE new == NewImports(cached.modules[e])
  <2>4. /\ new \in Seq(Urls) /\ IsInjective(new)
        /\ ToSet(new) = ImportsOf(cached.modules[e]) \ queued
    BY <1>5, NewImportsFound
  <2> HIDE DEF new
  <2>5. ASSUME new # <<>> PROVE Cardinality(queued) + Len(new) <= MaxModules
    <3>1. IsFiniteSet(ToSet(new)) /\ Cardinality(ToSet(new)) = Len(new)
      BY <2>4, CountedOnce
    <3>2. queued \cap ToSet(new) = {} /\ (queued \cup ToSet(new)) \subseteq D
      BY <1>5, <2>4 DEF WithinPublished
    <3>3. Cardinality(queued \cap ToSet(new)) = 0
      BY <3>2, FS_EmptySet
    <3>4. /\ IsFiniteSet(queued \cup ToSet(new))
          /\ Cardinality(queued \cup ToSet(new)) =
                Cardinality(queued) + Cardinality(ToSet(new)) - Cardinality(queued \cap ToSet(new))
      BY <1>8, <3>1, FS_Union
    <3>5. Cardinality(queued \cup ToSet(new)) <= Cardinality(D)
      BY <1>8, <3>2, FS_Subset
    <3>6. Cardinality(queued) \in Nat /\ Len(new) \in Nat /\ Cardinality(D) \in Nat
      BY <1>8, <2>4, FS_CardinalityType
    <3>7. Cardinality(queued) + Len(new) <= Cardinality(D)
      BY <3>1, <3>3, <3>4, <3>5, <3>6
    <3>8. D # {Root}
      <4>1. 1 \in DOMAIN new /\ new[1] \in ToSet(new)
        BY <2>4, <2>5 DEF ToSet
      <4>2. new[1] # Root
        BY <3>2, <4>1 DEF GraphInv, Queued
      <4> QED
        BY <3>2, <4>1, <4>2
    <3> QED
      BY <1>2, <1>8, <3>6, <3>7, <3>8
  <2> QED
    BY <1>5, <1>14, <2>1, <2>2, <2>3, <2>5 DEF Keepable, new
<1> QED
    BY <1>13, <1>14

\* What was published can be had again, as it was: a rebuild of an undamaged entry that
\* completes has all of it, and only an undeclared redirect or a narrower policy
\* stops one.
THEOREM GraphRebuilds == Spec => []RebuiltAsPublished
<1>1. GraphInv => RestoredAsPublished
    BY Restored DEF RestoredAsPublished
<1>2. GraphInv => ReusableIfDeclared
  <2> SUFFICES ASSUME GraphInv, phase = "rebuild", ~damaged, queue # <<>>,
                      RedirectDeclared(Head(queue)), WithinPolicy(Head(queue))
               PROVE  Rebuildable(Head(queue))
    BY DEF ReusableIfDeclared
  <2> DEFINE u == Head(queue)
             e == CachedTarget(u)
  <2>1. PICK D \in SUBSET Urls : Whole(cached, D) /\ WithinPublished(D)
    BY DEF GraphInv, Reusable
  <2>2. cached \in Files /\ kept \in Files /\ queue \in Seq(Urls)
    BY DEF GraphInv, TypeOK
  <2>3. u \in Urls /\ u \in ToSet(queue)
    BY <2>2, Tailed
  <2>4. u \in queued /\ u \notin Done
    BY <2>3 DEF GraphInv, Queued, Done, Waiting
  <2>5. e \in Urls /\ e = Leads(cached, u)
    BY <2>2, <2>3 DEF CachedTarget, Leads, Files
  <2>6. Settled(cached, u, D)
    BY <2>1, <2>4 DEF Whole, WithinPublished
  <2> HIDE DEF u, e
  <2>7. Known(u, e) \/ Keepable(u, e, cached.modules[e])
    BY <2>1, <2>3, <2>4, <2>5, Fits
  <2>8. kept.modules[e] # None => kept.modules[e] = cached.modules[e]
    BY <2>1, <2>5 DEF WithinPublished
  <2>9. /\ cached.modules[e] # None /\ Verified(u, e, cached.modules[e])
        /\ Supported(cached.modules[e])
    BY <2>5, <2>6 DEF Settled, Text
  <2>10. CachedTarget(u) = e
    BY DEF e
  <2>11. RedirectDeclared(u) /\ WithinPolicy(u)
    BY DEF u
  <2>12. Trusted(u)
    BY <2>8, <2>9, <2>10, <2>11 DEF Trusted
  <2>13. Rebuildable(u)
    BY <2>7, <2>10, <2>12 DEF Rebuildable
  <2> QED
    BY <2>13 DEF u
<1>3. GraphInv => RebuiltAsPublished
    BY <1>1, <1>2 DEF RebuiltAsPublished
<1> QED
    BY <1>3, GraphInvariance, PTL

-----------------------------------------------------------------------------
(* What the configuration of a Deno project is bound to.                       *)

\* A way through import maps: each file points to the next and has no mappings
\* but in the last, and the way returns to none of them.
Followed(r) ==
  /\ r \in Seq(DOMAIN deno.files) /\ r # <<>>
  /\ \A i, j \in 1 .. Len(r) : r[i] = r[j] => i = j
  /\ \A j \in 1 .. Len(r) - 1 : deno.files[r[j]].importMap = r[j + 1] /\ deno.files[r[j]].imports = {}

\* What a set of files points to, with them.
Pointed(c) == c \cup {deno.files[f].importMap : f \in c \cap DOMAIN deno.files}

\* The files a configuration leads to are found one after the other.
LEMMA LeadsRuns ==
  ASSUME NEW N \in Nat, N = Cardinality(DOMAIN deno.files), NEW config \in DOMAIN deno.files
  PROVE  \E h : /\ h[0] = {config} /\ \A i \in 1 .. N : h[i] = Pointed(h[i - 1])
                /\ LeadsTo(config) = h[N] \cap DOMAIN deno.files
<1> DEFINE D == DOMAIN deno.files
           C == SUBSET (D \cup {deno.files[g].importMap : g \in D})
           f == [x \in (1 .. N) \X C |-> Pointed(x[2])]
           Runs(h) == h = [n \in 0 .. N |-> IF n = 0 THEN {config} ELSE Pointed(h[n - 1])]
           h == CHOOSE g : Runs(g)
<1>1. \A i \in 1 .. N : \A c \in C : f[<<i, c>>] = Pointed(c) /\ Pointed(c) \in C
  BY DEF Pointed
<1>2. {config} \in C
  OBVIOUS
<1>3. Steady(f, C, N)
  <2> HIDE DEF f, C
  <2> QED
    BY <1>1 DEF Steady
<1>4. LeadsTo(config) = h[N] \cap D
  BY Zenon DEF LeadsTo, Pointed
<1> HIDE DEF f, C
<1>5. PICK g : Looped(f, C, N, {config}, g)
  BY <1>2, <1>3, IterationExists
<1>6. \A i \in 0 .. N : g[i] = IF i = 0 THEN {config} ELSE Pointed(g[i - 1])
  <2> TAKE i \in 0 .. N
  <2>1. CASE i = 0
    BY <1>5, <2>1 DEF Looped
  <2>2. CASE i # 0
    <3>1. i \in 1 .. N /\ i - 1 \in 0 .. N
      BY <2>2
    <3>2. g[i] = f[<<i, g[i - 1]>>] /\ g[i - 1] \in C
      BY <1>5, <2>2, <3>1 DEF Looped
    <3> QED
      BY <1>1, <2>2, <3>1, <3>2
  <2> QED
    BY <2>1, <2>2
<1>7. Runs(g)
  <2>1. g = [i \in 0 .. N |-> g[i]]
    BY <1>5 DEF Looped
  <2> QED
    BY <1>6, <2>1
<1>8. Runs(h)
  BY <1>7
<1>9. h[0] = {config} /\ \A i \in 1 .. N : h[i] = Pointed(h[i - 1])
  <2> HIDE DEF h
  <2>1. \A i \in 0 .. N : h[i] = IF i = 0 THEN {config} ELSE Pointed(h[i - 1])
    BY <1>8
  <2>2. h[0] = {config}
    BY <2>1
  <2>3. \A i \in 1 .. N : i \in 0 .. N /\ i # 0
    OBVIOUS
  <2> QED
    BY <2>1, <2>2, <2>3
<1> QED
  BY <1>4, <1>9

\* A way through import maps that ends is all its first file leads to.
LEMMA LeadsAlong ==
  ASSUME NEW r, Followed(r), IsFiniteSet(DOMAIN deno.files), "none" \notin DOMAIN deno.files,
         deno.files[r[Len(r)]].importMap = "none"
  PROVE  LeadsTo(r[1]) = {r[j] : j \in 1 .. Len(r)} /\ Cardinality(LeadsTo(r[1])) = Len(r)
<1> DEFINE D == DOMAIN deno.files
           N == Cardinality(D)
           R == {r[j] : j \in 1 .. Len(r)}
           U == R \cup {"none"}
<1>1. r \in Seq(D) /\ Len(r) \in Nat /\ Len(r) >= 1 /\ R \subseteq D /\ \A j \in 1 .. Len(r) : r[j] \in D
  BY DEF Followed
<1>2. N \in Nat
  BY FS_CardinalityType
<1>3. Len(r) <= N /\ Cardinality(R) = Len(r)
  <2> DEFINE f == [j \in 1 .. Len(r) |-> r[j]]
  <2>1. f \in Injection(1 .. Len(r), D) /\ f \in Injection(1 .. Len(r), R) /\ f \in Surjection(1 .. Len(r), R)
    BY <1>1 DEF Followed, Injection, Surjection, IsInjective
  <2>2. Cardinality(1 .. Len(r)) = Len(r)
    BY <1>1, FS_Interval
  <2>3. IsFiniteSet(R)
    BY <1>1, FS_Subset
  <2> HIDE DEF f, R
  <2> QED
    BY <2>1, <2>2, <2>3, FS_Injection
<1> HIDE DEF N
<1>4. PICK h : /\ h[0] = {r[1]} /\ \A i \in 1 .. N : h[i] = Pointed(h[i - 1])
               /\ LeadsTo(r[1]) = h[N] \cap D
  <2>1. r[1] \in DOMAIN deno.files
    BY <1>1
  <2>2. N = Cardinality(DOMAIN deno.files)
    BY DEF N
  <2> QED
    BY <1>2, <2>1, <2>2, LeadsRuns
<1>5. \A c \in SUBSET U : Pointed(c) \in SUBSET U
  <2> SUFFICES ASSUME NEW c \in SUBSET U, NEW f \in c \cap D PROVE deno.files[f].importMap \in U
    BY DEF Pointed
  <2>1. PICK j \in 1 .. Len(r) : f = r[j]
    OBVIOUS
  <2>2. CASE j = Len(r)
    BY <2>1, <2>2
  <2>3. CASE j # Len(r)
    <3>1. j \in 1 .. Len(r) - 1 /\ j + 1 \in 1 .. Len(r)
      BY <1>1, <2>3
    <3> QED
      BY <2>1, <3>1 DEF Followed
  <2> QED
    BY <2>2, <2>3
<1>6. \A i \in 0 .. N : h[i] \in SUBSET U
  <2>1. h[0] \in SUBSET U
    BY <1>1, <1>4
  <2>2. \A i \in 1 .. N : h[i - 1] \in SUBSET U => h[i] \in SUBSET U
    BY <1>4, <1>5
  <2> HIDE DEF U
  <2> QED
    BY <1>2, <2>1, <2>2, IterationStays
<1> DEFINE B == {i \in 0 .. N : ~\A j \in 1 .. Len(r) : j <= i + 1 => r[j] \in h[i]}
<1>b. B \in SUBSET Nat /\ \A i \in 0 .. N : i \in B <=> ~\A j \in 1 .. Len(r) : j <= i + 1 => r[j] \in h[i]
  OBVIOUS
<1>c. \A i \in B : i \in 0 .. N
  OBVIOUS
<1>7. ASSUME B # {} PROVE FALSE
  <2> HIDE DEF B
  <2>1. PICK i \in B : \A k \in B : ~(k < i)
    BY <1>7, <1>b, SmallestNumber
  <2>2. i \in 0 .. N
    BY <1>c
  <2>3. PICK j \in 1 .. Len(r) : j <= i + 1 /\ r[j] \notin h[i]
    BY <1>b, <2>2
  <2>4. i # 0
    <3>1. i = 0 => j = 1
      BY <2>3
    <3> QED
      BY <1>4, <2>3, <3>1
  <2>5. i \in 1 .. N /\ i - 1 \in 0 .. N /\ i - 1 \notin B
    BY <1>2, <2>1, <2>2, <2>4
  <2>6. \A k \in 1 .. Len(r) : k <= i => r[k] \in h[i - 1]
    BY <1>b, <2>5
  <2>7. h[i] = Pointed(h[i - 1])
    BY <1>4, <2>5
  <2>8. CASE j <= i
    BY <2>3, <2>6, <2>7, <2>8 DEF Pointed
  <2>9. CASE ~(j <= i)
    <3>1. j - 1 \in 1 .. Len(r) - 1 /\ j - 1 \in 1 .. Len(r) /\ j - 1 <= i /\ (j - 1) + 1 = j
      BY <1>1, <2>2, <2>3, <2>4, <2>9
    <3>2. r[j - 1] \in h[i - 1] /\ r[j - 1] \in D
      BY <1>1, <2>6, <3>1
    <3>3. deno.files[r[j - 1]].importMap = r[j]
      BY <3>1 DEF Followed
    <3> QED
      BY <2>3, <2>7, <3>2, <3>3 DEF Pointed
  <2> QED
    BY <2>8, <2>9
<1>8. \A j \in 1 .. Len(r) : r[j] \in h[N]
  <2> HIDE DEF B
  <2>1. N \in 0 .. N /\ N \notin B
    BY <1>2, <1>7
  <2>2. \A j \in 1 .. Len(r) : j <= N + 1
    <3>1. Len(r) <= N /\ Len(r) \in Nat
      BY <1>1, <1>3
    <3> QED
      BY <1>2, <3>1
  <2> QED
    BY <1>b, <2>1, <2>2
<1>9. h[N] \in SUBSET U
  BY <1>2, <1>6
<1>10. LeadsTo(r[1]) = R
  BY <1>1, <1>4, <1>8, <1>9
<1> QED
  BY <1>3, <1>10

\* The root of a project, before its members.
Configuration(n) == IF n = 0 THEN deno.root ELSE deno.members[n]

Taken == Len(deno.members) - Len(configs)

\* Those whose files have been read to the end.
Completed == IF reading = <<>> THEN 0 .. Taken ELSE 0 .. Taken - 1

Found(c) == UNION {deno.files[f].imports : f \in LeadsTo(c)}

ReadInOrder ==
  /\ configs \in Seq(DOMAIN deno.files) /\ Taken \in 0 .. Len(deno.members)
  /\ \A j \in 1 .. Len(configs) : configs[j] = deno.members[Taken + j]
  /\ reading # <<>> => /\ Followed(reading) /\ Len(reading) <= MaxImportMaps + 1
                       /\ reading[1] = Configuration(Taken)
  /\ imports = UNION {Found(Configuration(n)) : n \in Completed}
  /\ IsFiniteSet(imports)
  /\ \A n \in Completed : Cardinality(LeadsTo(Configuration(n))) <= MaxImportMaps + 1

LookedUpAs(i) == IF i.scheme = "https" THEN EnrichRemote(i) ELSE EnrichRegistry(i)

\* Every import is bound once.
BoundOnce ==
  /\ \A b \in bindings : b \in {Unlocked(b.import), LookedUpAs(b.import)}
  /\ \A b, c \in bindings : b.import = c.import => b = c

DenoInv ==
  /\ deno \in DenoProjects
  /\ denoStage \in {"read", "lookup", "done", "unlockable", "manifest", "limit"}
  /\ denoStage \in {"read", "lookup", "done", "unlockable"} => ReadInOrder /\ BoundOnce
  /\ denoStage \in {"lookup", "done", "unlockable"} => reading = <<>> /\ configs = <<>>
  /\ denoStage \in {"read", "lookup"} => LookedUp \subseteq imports
  /\ denoStage = "read" => bindings = {}
  /\ denoStage \in {"done", "unlockable"} => LookedUp = imports
  /\ denoStage = "unlockable" => bindings = {Unlocked(i) : i \in imports}

\* What a project holds.
LEMMA DenoFiles ==
  ASSUME deno \in DenoProjects
  PROVE  /\ IsFiniteSet(DOMAIN deno.files) /\ "none" \notin DOMAIN deno.files
         /\ deno.root \in DOMAIN deno.files /\ deno.members \in Seq(DOMAIN deno.files)
         /\ \A f \in DOMAIN deno.files :
              /\ IsFiniteSet(deno.files[f].imports)
              /\ (deno.files[f].importMap # "none" /\ deno.files[f].imports # {}) => deno.files[f].inline
BY DenoProjectsAssumption

\* At first the configuration of the root is to be read, and those of the members.
LEMMA DenoStarts == DenoInit => DenoInv
<1> SUFFICES ASSUME DenoInit PROVE DenoInv
  OBVIOUS
<1>1. deno \in DenoProjects
  BY DEF DenoInit
<1>2. deno.root \in DOMAIN deno.files /\ deno.members \in Seq(DOMAIN deno.files)
  BY <1>1, DenoFiles
<1>3. Taken = 0 /\ Completed = {}
  <2>1. Len(deno.members) \in Nat /\ configs = deno.members /\ reading # <<>>
    BY <1>2 DEF DenoInit
  <2>2. Taken = 0
    BY <2>1 DEF Taken
  <2> QED
    BY <2>1, <2>2 DEF Completed
<1>4. Followed(reading) /\ Len(reading) = 1 /\ reading[1] = deno.root /\ reading # <<>>
  <2>1. reading = <<deno.root>>
    BY DEF DenoInit
  <2>a. \A S : \A x \in S : <<x>> \in Seq(S) /\ Len(<<x>>) = 1 /\ <<x>>[1] = x /\ <<x>> # <<>>
    OBVIOUS
  <2>2. reading \in Seq(DOMAIN deno.files) /\ Len(reading) = 1 /\ reading[1] = deno.root /\ reading # <<>>
    BY <1>2, <2>1, <2>a, Zenon
  <2>3. \A i, j \in 1 .. Len(reading) : i = j
    BY <2>2
  <2>4. 1 .. Len(reading) - 1 = {}
    BY <2>2
  <2> QED
    BY <2>2, <2>3, <2>4 DEF Followed
<1>5. ReadInOrder
  <2>1. configs = deno.members /\ imports = {} /\ Len(deno.members) \in Nat /\ MaxImportMaps \in Nat
    BY <1>2, DenoLimits DEF DenoInit
  <2>2. IsFiniteSet(imports)
    BY <2>1, FS_EmptySet
  <2> QED
    BY <1>2, <1>3, <1>4, <2>1, <2>2 DEF ReadInOrder, Configuration
<1> QED
  BY <1>1, <1>5 DEF DenoInit, DenoInv, BoundOnce, LookedUp

\* The file being read is one of the project's.
LEMMA FileRead ==
  ASSUME deno \in DenoProjects, ReadInOrder, reading # <<>>
  PROVE  /\ Last(reading) = reading[Len(reading)] /\ Len(reading) \in Nat /\ Len(reading) >= 1
         /\ reading \in Seq(DOMAIN deno.files) /\ Last(reading) \in DOMAIN deno.files
BY DEF ReadInOrder, Followed, Last

\* The import map a configuration refers to is read in its place.
LEMMA FollowStep ==
  ASSUME DenoInv, FollowImportMap
  PROVE  DenoInv'
<1> DEFINE r == reading
           n == Len(reading)
           t == ConfigFile.importMap
<1>1. deno \in DenoProjects /\ ReadInOrder /\ r # <<>> /\ denoStage = "read"
  BY DEF DenoInv, FollowImportMap
<1>2. /\ Last(r) = r[n] /\ n \in Nat /\ n >= 1 /\ r \in Seq(DOMAIN deno.files) /\ r[n] \in DOMAIN deno.files
  BY <1>1, FileRead
<1>3. /\ deno.files[r[n]].importMap = t /\ t # "none" /\ t \in DOMAIN deno.files /\ n <= MaxImportMaps
      /\ ~deno.files[r[n]].inline /\ \A j \in 1 .. n : r[j] # t
  BY <1>2, DenoLimits DEF FollowImportMap, ChainError, ConfigFile, Contains
<1>4. deno.files[r[n]].imports = {}
  BY <1>1, <1>2, <1>3, DenoFiles
<1>5. UNCHANGED <<deno, configs, imports, bindings, denoStage>> /\ reading' = Append(r, t)
  BY DEF FollowImportMap
<1> HIDE DEF t
<1>6. /\ reading' \in Seq(DOMAIN deno.files) /\ reading' # <<>> /\ Len(reading') = n + 1
      /\ reading'[n + 1] = t /\ \A j \in 1 .. n : reading'[j] = r[j]
  BY <1>2, <1>3, <1>5
<1>7. Followed(reading)
  BY <1>1 DEF ReadInOrder
<1>8. Followed(reading)'
  <2>1. \A i, j \in 1 .. n + 1 : reading'[i] = reading'[j] => i = j
    <3>1. \A i, j \in 1 .. n : r[i] = r[j] => i = j
      BY <1>7 DEF Followed
    <3>2. \A j \in 1 .. n + 1 : j \in 1 .. n \/ j = n + 1
      BY <1>2
    <3> QED
      BY <1>3, <1>6, <3>1, <3>2
  <2>2. \A j \in 1 .. n : deno.files[reading'[j]].importMap = reading'[j + 1] /\ deno.files[reading'[j]].imports = {}
    <3> TAKE j \in 1 .. n
    <3>1. CASE j = n
      BY <1>2, <1>3, <1>4, <1>6, <3>1
    <3>2. CASE j # n
      <4>1. j \in 1 .. n - 1 /\ j + 1 \in 1 .. n
        BY <1>2, <3>2
      <4> QED
        BY <1>6, <1>7, <4>1 DEF Followed
    <3> QED
      BY <3>1, <3>2
  <2>3. (n + 1) - 1 = n
    BY <1>2
  <2> QED
    BY <1>5, <1>6, <2>1, <2>2, <2>3 DEF Followed
<1>9. ReadInOrder'
  <2>1. Taken' = Taken /\ Completed' = Completed
    BY <1>1, <1>5, <1>6 DEF Taken, Completed
  <2>2. \A m : Configuration(m)' = Configuration(m) /\ LeadsTo(Configuration(m))' = LeadsTo(Configuration(m))
               /\ Found(Configuration(m))' = Found(Configuration(m))
    BY <1>5 DEF Configuration, LeadsTo, Found
  <2>3. reading'[1] = r[1] /\ Len(reading') <= MaxImportMaps + 1
    BY <1>2, <1>3, <1>6, DenoLimits
  <2>4. /\ configs \in Seq(DOMAIN deno.files) /\ Taken \in 0 .. Len(deno.members)
        /\ \A j \in 1 .. Len(configs) : configs[j] = deno.members[Taken + j]
        /\ r[1] = Configuration(Taken) /\ IsFiniteSet(imports)
    BY <1>1 DEF ReadInOrder
  <2>5. /\ imports = UNION {Found(Configuration(m)) : m \in Completed}
        /\ \A m \in Completed : Cardinality(LeadsTo(Configuration(m))) <= MaxImportMaps + 1
    BY <1>1 DEF ReadInOrder
  <2>6. UNION {Found(Configuration(m))' : m \in Completed'} = UNION {Found(Configuration(m)) : m \in Completed}
    BY <2>1, <2>2
  <2>7. \A m \in Completed' : (Cardinality(LeadsTo(Configuration(m))) <= MaxImportMaps + 1)'
    BY <2>1, <2>2, <2>5
  <2>8. Configuration(Taken)' = Configuration(Taken)
    BY <1>5, <2>1 DEF Configuration
  <2>9. (imports = UNION {Found(Configuration(m)) : m \in Completed})'
    BY <1>5, <2>5, <2>6
  <2>10. /\ configs' \in Seq(DOMAIN deno'.files) /\ Taken' \in 0 .. Len(deno'.members)
         /\ \A j \in 1 .. Len(configs') : configs'[j] = deno'.members[Taken' + j]
         /\ IsFiniteSet(imports')
    BY <1>5, <2>1, <2>4
  <2>11. reading' # <<>> => Followed(reading)' /\ Len(reading') <= MaxImportMaps + 1 /\ reading'[1] = Configuration(Taken)'
    BY <1>8, <2>3, <2>4, <2>8
  <2> QED
    BY <2>7, <2>9, <2>10, <2>11 DEF ReadInOrder
<1> QED
  BY <1>1, <1>5, <1>9 DEF DenoInv, BoundOnce, LookedUp, LookedUpAs

\* The imports of a file join those of the files before it.
LEMMA CollectStep ==
  ASSUME DenoInv, CollectImports
  PROVE  DenoInv'
<1> DEFINE r == reading
           n == Len(reading)
           m == Taken
<1>1. /\ deno \in DenoProjects /\ ReadInOrder /\ BoundOnce /\ r # <<>> /\ denoStage = "read"
      /\ LookedUp \subseteq imports /\ bindings = {}
  BY DEF DenoInv, CollectImports
<1>2. /\ Last(r) = r[n] /\ n \in Nat /\ n >= 1 /\ r \in Seq(DOMAIN deno.files) /\ r[n] \in DOMAIN deno.files
  BY <1>1, FileRead
<1>3. deno.files[r[n]].importMap = "none" /\ Followed(r) /\ n <= MaxImportMaps + 1 /\ r[1] = Configuration(m)
  BY <1>1, <1>2 DEF CollectImports, ConfigFile, ReadInOrder
<1>4. LeadsTo(Configuration(m)) = {r[j] : j \in 1 .. n} /\ Cardinality(LeadsTo(Configuration(m))) = n
  BY <1>1, <1>3, DenoFiles, LeadsAlong
<1>5. Found(Configuration(m)) = deno.files[r[n]].imports
  <2>1. \A j \in 1 .. n : j # n => deno.files[r[j]].imports = {}
    <3> TAKE j \in 1 .. n
    <3>1. j # n => j \in 1 .. n - 1
      BY <1>2
    <3> QED
      BY <1>3, <3>1 DEF Followed
  <2>2. n \in 1 .. n
    BY <1>2
  <2>3. Found(Configuration(m)) = UNION {deno.files[f].imports : f \in {r[j] : j \in 1 .. n}}
    BY <1>4 DEF Found
  <2>4. \A x : x \in Found(Configuration(m)) <=> \E j \in 1 .. n : x \in deno.files[r[j]].imports
    BY <2>3
  <2>5. \A x : x \in Found(Configuration(m)) <=> x \in deno.files[r[n]].imports
    BY <2>1, <2>2, <2>4
  <2>6. Found(Configuration(m)) \subseteq deno.files[r[n]].imports /\ deno.files[r[n]].imports \subseteq Found(Configuration(m))
    BY <2>5
  <2> QED
    BY <2>6
<1>6. /\ UNCHANGED <<deno, configs, bindings, denoStage>> /\ reading' = <<>>
      /\ imports' = imports \cup deno.files[r[n]].imports
  BY <1>2 DEF CollectImports, ConfigFile
<1>7. m \in 0 .. Len(deno.members) /\ Taken' = m /\ Len(deno.members) \in Nat
  BY <1>1, <1>6, DenoFiles DEF ReadInOrder, Taken
<1> HIDE DEF m
<1>8. Completed = 0 .. m - 1 /\ Completed' = 0 .. m /\ Completed' = Completed \cup {m}
  <2>1. Completed = 0 .. m - 1 /\ Completed' = 0 .. m
    BY <1>1, <1>6, <1>7 DEF Completed, m
  <2> QED
    BY <1>7, <2>1
<1>9. \A k : Configuration(k)' = Configuration(k) /\ LeadsTo(Configuration(k))' = LeadsTo(Configuration(k))
             /\ Found(Configuration(k))' = Found(Configuration(k))
  BY <1>6 DEF Configuration, LeadsTo, Found
<1>10. /\ configs \in Seq(DOMAIN deno.files) /\ \A j \in 1 .. Len(configs) : configs[j] = deno.members[m + j]
       /\ imports = UNION {Found(Configuration(k)) : k \in Completed} /\ IsFiniteSet(imports)
       /\ \A k \in Completed : Cardinality(LeadsTo(Configuration(k))) <= MaxImportMaps + 1
  BY <1>1 DEF ReadInOrder, m
<1>11. /\ configs' \in Seq(DOMAIN deno'.files) /\ Taken' \in 0 .. Len(deno'.members)
       /\ \A j \in 1 .. Len(configs') : configs'[j] = deno'.members[Taken' + j]
  BY <1>6, <1>7, <1>10
<1>12. IsFiniteSet(imports')
  <2>1. IsFiniteSet(deno.files[r[n]].imports)
    BY <1>1, <1>2, DenoFiles
  <2> QED
    BY <1>6, <1>10, <2>1, FS_Union
<1>13. (imports = UNION {Found(Configuration(k)) : k \in Completed})'
  <2>1. UNION {Found(Configuration(k)) : k \in Completed \cup {m}} = imports \cup Found(Configuration(m))
    BY <1>10
  <2>2. UNION {Found(Configuration(k))' : k \in Completed'} = UNION {Found(Configuration(k)) : k \in Completed \cup {m}}
    BY <1>8, <1>9
  <2> QED
    BY <1>5, <1>6, <2>1, <2>2
<1>14. \A k \in Completed' : (Cardinality(LeadsTo(Configuration(k))) <= MaxImportMaps + 1)'
  BY <1>3, <1>4, <1>8, <1>9, <1>10
<1>15. ReadInOrder'
  BY <1>6, <1>11, <1>12, <1>13, <1>14 DEF ReadInOrder
<1>16. LookedUp' \subseteq imports'
  BY <1>1, <1>6 DEF LookedUp
<1> QED
  BY <1>1, <1>6, <1>15, <1>16 DEF DenoInv, BoundOnce, LookedUpAs

\* After the files of one configuration come those of the next.
LEMMA NextMemberStep ==
  ASSUME DenoInv, NextMember
  PROVE  DenoInv'
<1> DEFINE m == Taken
<1>1. /\ deno \in DenoProjects /\ ReadInOrder /\ BoundOnce /\ reading = <<>> /\ configs # <<>> /\ denoStage = "read"
      /\ LookedUp \subseteq imports /\ bindings = {}
  BY DEF DenoInv, NextMember
<1>2. /\ configs \in Seq(DOMAIN deno.files) /\ m \in 0 .. Len(deno.members)
      /\ \A j \in 1 .. Len(configs) : configs[j] = deno.members[m + j]
      /\ imports = UNION {Found(Configuration(k)) : k \in Completed} /\ IsFiniteSet(imports)
      /\ \A k \in Completed : Cardinality(LeadsTo(Configuration(k))) <= MaxImportMaps + 1
  BY <1>1 DEF ReadInOrder
<1>3. UNCHANGED <<deno, imports, bindings, denoStage>> /\ reading' = <<Head(configs)>> /\ configs' = Tail(configs)
  BY DEF NextMember
<1>4. deno.members \in Seq(DOMAIN deno.files) /\ Len(deno.members) \in Nat /\ DenoLimits
  BY <1>1, DenoFiles, DenoLimits
<1>5. /\ configs' \in Seq(DOMAIN deno.files) /\ Len(configs') = Len(configs) - 1 /\ Len(configs) >= 1 /\ Len(configs) \in Nat
      /\ \A j \in 1 .. Len(configs') : configs'[j] = configs[j + 1] /\ j + 1 \in 1 .. Len(configs)
      /\ Head(configs) = configs[1] /\ configs[1] \in DOMAIN deno.files
  BY <1>1, <1>2, <1>3
<1>6. Taken' = m + 1 /\ Taken' \in 0 .. Len(deno.members) /\ m \in Nat
  <2>1. m = Len(deno.members) - Len(configs) /\ Taken' = Len(deno.members) - Len(configs')
    BY <1>3 DEF Taken
  <2> HIDE DEF m
  <2> QED
    BY <1>2, <1>4, <1>5, <2>1
<1> HIDE DEF m
<1>7. Head(configs) = Configuration(m + 1)
  BY <1>2, <1>5, <1>6 DEF Configuration
<1>8. Completed = 0 .. m /\ Completed' = 0 .. m
  <2>1. reading' # <<>>
    BY <1>3
  <2>2. Completed = 0 .. m
    BY <1>1 DEF Completed, m
  <2>3. Completed' = 0 .. (m + 1) - 1
    BY <1>6, <2>1 DEF Completed
  <2> QED
    BY <1>6, <2>2, <2>3
<1>9. \A k : Configuration(k)' = Configuration(k) /\ LeadsTo(Configuration(k))' = LeadsTo(Configuration(k))
             /\ Found(Configuration(k))' = Found(Configuration(k))
  BY <1>3 DEF Configuration, LeadsTo, Found
<1>10. /\ configs' \in Seq(DOMAIN deno'.files) /\ Taken' \in 0 .. Len(deno'.members)
       /\ \A j \in 1 .. Len(configs') : configs'[j] = deno'.members[Taken' + j]
  <2>1. ASSUME NEW j \in 1 .. Len(configs')
        PROVE  configs'[j] = deno.members[m + (j + 1)] /\ m + (j + 1) = (m + 1) + j
    <3>1. configs'[j] = configs[j + 1] /\ j + 1 \in 1 .. Len(configs)
      BY <1>5
    <3>2. configs[j + 1] = deno.members[m + (j + 1)]
      BY <1>2, <3>1, Zenon
    <3>3. j \in Nat
      BY <1>5
    <3> QED
      BY <1>6, <3>1, <3>2, <3>3
  <2> QED
    BY <1>3, <1>5, <1>6, <2>1
<1>11. (imports = UNION {Found(Configuration(k)) : k \in Completed})'
  <2>1. UNION {Found(Configuration(k))' : k \in Completed'} = UNION {Found(Configuration(k)) : k \in Completed}
    BY <1>8, <1>9
  <2> QED
    BY <1>2, <1>3, <2>1
<1>12. \A k \in Completed' : (Cardinality(LeadsTo(Configuration(k))) <= MaxImportMaps + 1)'
  BY <1>2, <1>8, <1>9
<1>13. Followed(reading)' /\ Len(reading') <= MaxImportMaps + 1 /\ reading'[1] = Configuration(Taken)'
  <2>a. \A S : \A x \in S : <<x>> \in Seq(S) /\ Len(<<x>>) = 1 /\ <<x>>[1] = x /\ <<x>> # <<>>
    OBVIOUS
  <2>1. Head(configs) \in DOMAIN deno.files
    BY <1>5
  <2>2. /\ reading' \in Seq(DOMAIN deno.files) /\ Len(reading') = 1 /\ reading'[1] = Head(configs)
        /\ reading' # <<>>
    BY <1>3, <2>a, <2>1, Zenon
  <2>3. \A i, j \in 1 .. Len(reading') : i = j
    BY <2>2
  <2>4. 1 .. Len(reading') - 1 = {}
    BY <2>2
  <2>5. Followed(reading)'
    BY <1>3, <2>2, <2>3, <2>4 DEF Followed
  <2>6. Configuration(Taken)' = Configuration(m + 1)
    BY <1>3, <1>6 DEF Configuration
  <2> QED
    BY <1>4, <1>7, <2>2, <2>5, <2>6 DEF DenoLimits
<1>14. ReadInOrder'
  BY <1>2, <1>3, <1>10, <1>11, <1>12, <1>13 DEF ReadInOrder
<1>15. LookedUp' \subseteq imports'
  BY <1>1, <1>3 DEF LookedUp
<1> QED
  BY <1>1, <1>3, <1>14, <1>15 DEF DenoInv, BoundOnce, LookedUpAs

\* What has been read stays read.
LEMMA ReadingKept ==
  ASSUME ReadInOrder, UNCHANGED <<deno, reading, configs, imports>>
  PROVE  ReadInOrder'
<1>1. Taken' = Taken /\ Completed' = Completed
  BY DEF Taken, Completed
<1>2. \A k : Configuration(k)' = Configuration(k) /\ LeadsTo(Configuration(k))' = LeadsTo(Configuration(k))
             /\ Found(Configuration(k))' = Found(Configuration(k))
  BY DEF Configuration, LeadsTo, Found
<1>3. /\ configs' \in Seq(DOMAIN deno'.files) /\ Taken' \in 0 .. Len(deno'.members)
      /\ \A j \in 1 .. Len(configs') : configs'[j] = deno'.members[Taken' + j]
      /\ IsFiniteSet(imports')
  BY <1>1 DEF ReadInOrder
<1>4. (imports = UNION {Found(Configuration(k)) : k \in Completed})'
  <2>1. UNION {Found(Configuration(k))' : k \in Completed'} = UNION {Found(Configuration(k)) : k \in Completed}
    BY <1>1, <1>2
  <2>2. imports = UNION {Found(Configuration(k)) : k \in Completed}
    BY DEF ReadInOrder
  <2> QED
    BY <2>1, <2>2
<1>5. \A k \in Completed' : (Cardinality(LeadsTo(Configuration(k))) <= MaxImportMaps + 1)'
  BY <1>1, <1>2 DEF ReadInOrder
<1>6. reading' # <<>> => Followed(reading)' /\ Len(reading') <= MaxImportMaps + 1 /\ reading'[1] = Configuration(Taken)'
  <2>1. Followed(reading) => Followed(reading)'
    BY DEF Followed
  <2>2. Configuration(Taken)' = Configuration(Taken)
    BY <1>1 DEF Configuration
  <2> QED
    BY <2>1, <2>2 DEF ReadInOrder
<1> QED
  BY <1>3, <1>4, <1>5, <1>6 DEF ReadInOrder

\* A binding is of the import it was made for.
LEMMA BoundAlone ==
  ASSUME NEW i
  PROVE  Unlocked(i).import = i /\ LookedUpAs(i).import = i
BY DEF LookedUpAs, EnrichRemote, EnrichRegistry, Unlocked, Binding

\* Nothing is bound without a usable lockfile.
LEMMA UnlockedStep ==
  ASSUME DenoInv, WithoutLockfile \/ RefuseDenoLock
  PROVE  DenoInv'
<1>1. /\ deno \in DenoProjects /\ ReadInOrder /\ reading = <<>> /\ configs = <<>>
      /\ UNCHANGED <<deno, reading, configs, imports>> /\ bindings' = {Unlocked(i) : i \in imports}
      /\ denoStage' \in {"done", "unlockable"}
  BY DEF DenoInv, WithoutLockfile, RefuseDenoLock
<1>2. ReadInOrder'
  BY <1>1, ReadingKept
<1>3. \A i : Unlocked(i)' = Unlocked(i) /\ Unlocked(i).import = i
  BY BoundAlone DEF Unlocked, Binding
<1>4. \A b \in bindings' : b.import \in imports /\ b = Unlocked(b.import)
  BY <1>1, <1>3
<1>5. LookedUp' = imports' /\ bindings' = {Unlocked(i)' : i \in imports'}
  <2>1. \A i \in imports : Unlocked(i) \in bindings'
    BY <1>1
  <2> QED
    BY <1>1, <1>3, <1>4, <2>1 DEF LookedUp
<1>6. BoundOnce'
  BY <1>3, <1>4 DEF BoundOnce
<1> QED
  BY <1>1, <1>2, <1>5, <1>6 DEF DenoInv

\* Each import is bound once, as the lockfile has it.
LEMMA EnrichStep ==
  ASSUME DenoInv, EnrichImport
  PROVE  DenoInv'
<1>1. /\ deno \in DenoProjects /\ ReadInOrder /\ BoundOnce /\ reading = <<>> /\ configs = <<>>
      /\ denoStage = "lookup" /\ LookedUp \subseteq imports
      /\ UNCHANGED <<deno, reading, configs, imports, denoStage>>
  BY DEF DenoInv, EnrichImport
<1>2. PICK i \in imports \ LookedUp : bindings' = bindings \cup {LookedUpAs(i)}
  BY DEF EnrichImport, LookedUpAs
<1>3. ReadInOrder'
  BY <1>1, ReadingKept
<1>4. \A b \in bindings : b.import \in LookedUp
  BY DEF LookedUp
<1>5. LookedUpAs(i).import = i
  BY BoundAlone
<1>6. LookedUp' \subseteq imports'
  BY <1>1, <1>2, <1>4, <1>5 DEF LookedUp
<1>7. \A k : Unlocked(k)' = Unlocked(k) /\ LookedUpAs(k)' = LookedUpAs(k)
  BY <1>1 DEF Unlocked, LookedUpAs, EnrichRemote, EnrichRegistry, Binding, IntegrityFor, RedirectChain, Redirects,
              Locked, Mapping, Exact, Normalized, Key, SpecifierCompatible, LockedVersion, PackageDigest, Specifiers
<1>8. \A b \in bindings' : b \in {Unlocked(b.import), LookedUpAs(b.import)}
  BY <1>1, <1>2, <1>5 DEF BoundOnce
<1>9. \A b, c \in bindings' : b.import = c.import => b = c
  BY <1>1, <1>2, <1>4, <1>5 DEF BoundOnce
<1>10. BoundOnce'
  BY <1>7, <1>8, <1>9 DEF BoundOnce
<1> QED
  BY <1>1, <1>3, <1>6, <1>10 DEF DenoInv

\* Every step keeps the invariant.
LEMMA DenoStep ==
  ASSUME DenoInv, [DenoNext]_denoVars
  PROVE  DenoInv'
<1>1. CASE FollowImportMap
  BY <1>1, FollowStep
<1>2. CASE RefuseImportMap \/ RefuseImports
  BY <1>2 DEF DenoInv, RefuseImportMap, RefuseImports, RefuseConfiguration
<1>3. CASE CollectImports
  BY <1>3, CollectStep
<1>4. CASE NextMember
  BY <1>4, NextMemberStep
<1>5. CASE WithoutLockfile \/ RefuseDenoLock
  BY <1>5, UnlockedStep
<1>6. CASE OpenDenoLock \/ DenoDone \/ UNCHANGED denoVars
  <2>1. UNCHANGED <<deno, reading, configs, imports, bindings>>
    BY <1>6 DEF OpenDenoLock, DenoDone, denoVars
  <2>2. ReadInOrder => ReadInOrder'
    BY <2>1, ReadingKept
  <2>3. LookedUp' = LookedUp
    BY <2>1 DEF LookedUp
  <2>4. \A k : Unlocked(k)' = Unlocked(k) /\ LookedUpAs(k)' = LookedUpAs(k)
    BY <2>1 DEF Unlocked, LookedUpAs, EnrichRemote, EnrichRegistry, Binding, IntegrityFor, RedirectChain, Redirects,
                Locked, Mapping, Exact, Normalized, Key, SpecifierCompatible, LockedVersion, PackageDigest, Specifiers
  <2>5. BoundOnce => BoundOnce'
    BY <2>1, <2>4 DEF BoundOnce
  <2>6. CASE OpenDenoLock
    BY <2>1, <2>2, <2>3, <2>5, <2>6 DEF DenoInv, OpenDenoLock
  <2>7. CASE DenoDone
    BY <2>1, <2>2, <2>3, <2>5, <2>7 DEF DenoInv, DenoDone
  <2>8. CASE UNCHANGED denoVars
    BY <2>1, <2>2, <2>3, <2>4, <2>5, <2>8 DEF DenoInv, denoVars
  <2> QED
    BY <1>6, <2>6, <2>7, <2>8
<1>7. CASE EnrichImport
  BY <1>7, EnrichStep
<1> QED
  BY <1>1, <1>2, <1>3, <1>4, <1>5, <1>6, <1>7 DEF DenoNext

\* A limit on redirects leaves an import without a digest or finds one within it.
LEMMA IntegrityFound ==
  ASSUME NEW url, IntegrityFor(url) # "none"
  PROVE  \E n \in 0 .. MaxRedirectHops :
           /\ RedirectChain(url)[n] \in DOMAIN Locked.remote
           /\ IntegrityFor(url) = Locked.remote[RedirectChain(url)[n]]
<1> DEFINE hits == {n \in 0 .. MaxRedirectHops : RedirectChain(url)[n] \in DOMAIN Locked.remote}
<1>1. hits # {} /\ IntegrityFor(url) = Locked.remote[RedirectChain(url)[Min(hits)]]
  BY DEF IntegrityFor
<1>2. hits \in SUBSET Nat
  BY DenoLimits
<1>3. PICK n \in hits : \A m \in hits : ~(m < n)
  BY <1>1, <1>2, SmallestNumber
<1>4. \A m \in hits : n <= m
  BY <1>2, <1>3
<1>5. Min(hits) \in hits
  <2> HIDE DEF hits
  <2> QED
    BY <1>3, <1>4 DEF Min
<1> QED
  BY <1>1, <1>5

\* What a package is bound to, its lockfile says.
LEMMA RegistryBound ==
  ASSUME NEW i, deno \in DenoProjects, EnrichRegistry(i).version # "none"
  PROVE  \E k \in Mapping(i) :
           /\ SpecifierCompatible(i, k) /\ EnrichRegistry(i).version = LockedVersion(i, k)
           /\ EnrichRegistry(i).integrity # "none" =>
                EnrichRegistry(i).integrity = Locked.packages[<<i.scheme, i.of, EnrichRegistry(i).version>>]
           /\ i.scheme = "npm" => (EnrichRegistry(i).integrity = "none" <=> EnrichRegistry(i).registryIntegrity)
<1>1. ~\A k \in Mapping(i) : ~SpecifierCompatible(i, k)
  BY DEF EnrichRegistry, Unlocked, Binding
<1> DEFINE k == CHOOSE k \in Mapping(i) : SpecifierCompatible(i, k)
           v == LockedVersion(i, k)
           d == PackageDigest(i.scheme, i.of, v)
<1>2. k \in Mapping(i) /\ SpecifierCompatible(i, k)
  BY <1>1
<1>3. EnrichRegistry(i) = IF i.scheme = "jsr" /\ d = "malformed" THEN Binding(i, v, "none", FALSE)
                          ELSE Binding(i, v, d, i.scheme = "npm" /\ d = "none")
  BY <1>1 DEF EnrichRegistry
<1>4. d # "none" => d = Locked.packages[<<i.scheme, i.of, v>>]
  BY DEF PackageDigest
<1> HIDE DEF k, v, d
<1>5. EnrichRegistry(i).version = v
  BY <1>3 DEF Binding
<1>6. v = LockedVersion(i, k)
  BY DEF v
<1>7. EnrichRegistry(i).integrity # "none" => EnrichRegistry(i).integrity = Locked.packages[<<i.scheme, i.of, v>>]
  BY <1>3, <1>4 DEF Binding
<1>8. i.scheme = "npm" => (EnrichRegistry(i).integrity = "none" <=> EnrichRegistry(i).registryIntegrity)
  <2> SUFFICES ASSUME i.scheme = "npm" PROVE EnrichRegistry(i).integrity = "none" <=> EnrichRegistry(i).registryIntegrity
    OBVIOUS
  <2>1. EnrichRegistry(i) = Binding(i, v, d, i.scheme = "npm" /\ d = "none")
    BY <1>3
  <2>2. EnrichRegistry(i).integrity = d
    BY <2>1 DEF Binding
  <2>3. EnrichRegistry(i).registryIntegrity <=> d = "none"
    <3>1. \A e : Binding(i, v, d, e).registryIntegrity = e
      BY DEF Binding
    <3>2. CASE d = "none"
      <4>1. EnrichRegistry(i) = Binding(i, v, d, TRUE)
        BY <1>3, <2>1, <3>2 DEF Binding
      <4> QED
        BY <3>1, <3>2, <4>1
    <3>3. CASE d # "none"
      <4>1. EnrichRegistry(i) = Binding(i, v, d, FALSE)
        BY <2>1, <3>3 DEF Binding
      <4> QED
        BY <3>1, <3>3, <4>1
    <3> QED
      BY <3>2, <3>3
  <2> QED
    BY <2>2, <2>3
<1> QED
  BY <1>2, <1>5, <1>6, <1>7, <1>8

\* The record an import is bound by agrees with every other of it, or is its own.
LEMMA RecordAgrees ==
  ASSUME NEW i, deno \in DenoProjects, NEW k \in Mapping(i), SpecifierCompatible(i, k)
  PROVE  /\ k \in Recorded(i) /\ Specifiers[k].of \in {"none", i.of} /\ LockedVersion(i, k) = Specifiers[k].version
         /\ k.sub = "none" \/ \A other \in Recorded(i) : other = k
<1>1. Specifiers[k].of \in {"none", i.of} /\ LockedVersion(i, k) = Specifiers[k].version
  BY DEF SpecifierCompatible, LockedVersion
<1>2. \A s \in DOMAIN Specifiers :
        s = [scheme |-> s.scheme, of |-> s.of, form |-> s.form, accepts |-> s.accepts, sub |-> s.sub]
  <2>1. CASE Locked.version \in 2 .. 5
    BY <2>1, DenoProjectsAssumption DEF Specifiers, Locked
  <2>2. CASE Locked.version \notin 2 .. 5
    BY <2>2 DEF Specifiers, NoEntries
  <2> QED
    BY <2>1, <2>2
<1>3. \A s \in DOMAIN Specifiers : [s EXCEPT !.sub = "none"] =
        [scheme |-> s.scheme, of |-> s.of, form |-> s.form, accepts |-> s.accepts, sub |-> "none"]
  <2> TAKE s \in DOMAIN Specifiers
  <2>1. s = [scheme |-> s.scheme, of |-> s.of, form |-> s.form, accepts |-> s.accepts, sub |-> s.sub]
    BY <1>2
  <2>2. \A a, b, c, d, e : [[scheme |-> a, of |-> b, form |-> c, accepts |-> d, sub |-> e] EXCEPT !.sub = "none"] =
                             [scheme |-> a, of |-> b, form |-> c, accepts |-> d, sub |-> "none"]
    OBVIOUS
  <2> QED
    BY <2>1, <2>2
<1>4. CASE Exact(i) # {}
  <2>1. k \in {Key(i, i.scheme), Key(i, "none")} /\ k \in DOMAIN Specifiers
    BY <1>4 DEF Mapping, Exact
  <2>2. k.sub = "none" /\ k \in Recorded(i)
    BY <2>1 DEF Key, Recorded
  <2> QED
    BY <1>1, <2>2
<1>5. CASE Exact(i) = {}
  <2>1. Cardinality(Normalized(i)) = 1 /\ k \in Normalized(i) /\ Mapping(i) = Normalized(i)
    BY <1>5 DEF Mapping
  <2>2. \A s \in DOMAIN Specifiers :
          s \in Normalized(i) <=> /\ s.scheme = i.scheme /\ s.of = i.of
                                  /\ s.form = i.form /\ s.accepts = i.accepts
    BY <1>3 DEF Normalized, Key
  <2>3. k \in Recorded(i)
    BY <2>1, <2>2 DEF Recorded, Normalized
  <2>4. \A other \in Recorded(i) : other \in Normalized(i)
    <3> TAKE other \in Recorded(i)
    <3>1. other \in DOMAIN Specifiers /\ other.of = i.of /\ other.form = i.form /\ other.accepts = i.accepts
      BY DEF Recorded
    <3>2. CASE other.scheme = i.scheme
      BY <2>2, <3>1, <3>2
    <3>3. CASE other.scheme = "none" /\ other.sub = "none"
      <4>1. other = Key(i, "none")
        BY <1>2, <3>1, <3>3 DEF Key
      <4>2. Exact(i) # {}
        BY <3>1, <4>1 DEF Exact
      <4> QED
        BY <1>5, <4>2
    <3> QED
      BY <3>2, <3>3 DEF Recorded
  <2>5. IsFiniteSet(Normalized(i))
    <3>1. IsFiniteSet(DOMAIN Specifiers)
      <4>1. DOMAIN NoEntries = {}
        BY DEF NoEntries
      <4> QED
        BY <4>1, FS_EmptySet, DenoProjectsAssumption DEF Specifiers, Locked
    <3>2. Normalized(i) \subseteq DOMAIN Specifiers
      BY DEF Normalized
    <3> QED
      BY <3>1, <3>2, FS_Subset
  <2>6. PICK x : Normalized(i) = {x}
    BY <2>1, <2>5, FS_Singleton
  <2> QED
    BY <1>1, <2>1, <2>3, <2>4, <2>6
<1> QED
  BY <1>4, <1>5

\* A Deno discovery that ends well has read every file its configurations lead
\* to and bound each import as its lockfile records it.
THEOREM DenoBinds == DenoSpec => []DenoBoundAsRecorded
<1>1. DenoInit => DenoInv
  BY DenoStarts
<1>2. DenoInv /\ [DenoNext]_denoVars => DenoInv'
  BY DenoStep
<1>3. DenoInv => DenoBoundAsRecorded
  <2> SUFFICES ASSUME DenoInv, denoStage \in {"done", "unlockable"} PROVE DenoBoundAsRecorded
    BY DEF DenoBoundAsRecorded
  <2>1. /\ deno \in DenoProjects /\ ReadInOrder /\ BoundOnce /\ reading = <<>> /\ configs = <<>>
        /\ LookedUp = imports
        /\ denoStage = "unlockable" => bindings = {Unlocked(i) : i \in imports}
    BY DEF DenoInv
  <2>2. Cardinality(bindings) = Cardinality(imports)
    <3> DEFINE f == [b \in bindings |-> b.import]
    <3>1. f \in Injection(bindings, imports) /\ f \in Surjection(bindings, imports)
      BY <2>1 DEF LookedUp, BoundOnce, Injection, Surjection, IsInjective
    <3> HIDE DEF f
    <3> QED
      BY <2>1, <3>1, FS_Injection DEF ReadInOrder
  <2>3. Configurations = {Configuration(n) : n \in Completed}
    <3>1. deno.members \in Seq(DOMAIN deno.files)
      BY <2>1, DenoFiles
    <3>2. Completed = 0 .. Len(deno.members) /\ Len(deno.members) \in Nat
      BY <2>1, <3>1 DEF Completed, Taken
    <3>3. \A n \in 1 .. Len(deno.members) : n # 0 /\ n \in 0 .. Len(deno.members) /\ n \in DOMAIN deno.members
      BY <3>1, <3>2
    <3>4. \A n \in 0 .. Len(deno.members) : n = 0 \/ n \in DOMAIN deno.members
      BY <3>1, <3>2
    <3>5. \A n \in DOMAIN deno.members : n \in 1 .. Len(deno.members)
      BY <3>1
    <3>6. 0 \in 0 .. Len(deno.members)
      BY <3>2
    <3> QED
      BY <3>2, <3>3, <3>4, <3>5, <3>6 DEF Configurations, Configuration, Range
  <2>4. imports = UNION {UNION {deno.files[f].imports : f \in LeadsTo(c)} : c \in Configurations}
    <3>1. imports = UNION {Found(Configuration(n)) : n \in Completed}
      BY <2>1 DEF ReadInOrder
    <3>2. UNION {Found(Configuration(n)) : n \in Completed} = UNION {Found(c) : c \in Configurations}
      BY <2>3
    <3> QED
      BY <3>1, <3>2 DEF Found
  <2>5. \A c \in Configurations : Cardinality(LeadsTo(c)) <= MaxImportMaps + 1
    BY <2>1, <2>3 DEF ReadInOrder
  <2>6. ASSUME NEW b \in bindings, b.version # "none", b.import.scheme = "https"
        PROVE  \E n \in 0 .. MaxRedirectHops :
                 /\ RedirectChain(b.import.of)[n] \in DOMAIN Locked.remote
                 /\ b.integrity = Locked.remote[RedirectChain(b.import.of)[n]]
    <3>1. b = EnrichRemote(b.import) /\ IntegrityFor(b.import.of) # "none"
      BY <2>1, <2>6 DEF BoundOnce, LookedUpAs, EnrichRemote, Unlocked, Binding
    <3>2. b.integrity = IntegrityFor(b.import.of)
      BY <3>1 DEF EnrichRemote, Binding
    <3> QED
      BY <3>1, <3>2, IntegrityFound
  <2>7. ASSUME NEW b \in bindings, b.version # "none", b.import.scheme # "https"
        PROVE  LET i == b.import
               IN  /\ i.form = "range" => b.version \in i.accepts
                   /\ \E k \in Recorded(i) :
                        /\ Specifiers[k].version = b.version /\ Specifiers[k].of \in {"none", i.of}
                        /\ k.sub = "none" \/ \A other \in Recorded(i) : Specifiers[other].version = b.version
                   /\ b.integrity # "none" => b.integrity = Locked.packages[<<i.scheme, i.of, b.version>>]
                   /\ i.scheme = "npm" => (b.integrity = "none" <=> b.registryIntegrity)
    <3> DEFINE i == b.import
    <3>1. b = EnrichRegistry(i)
      BY <2>1, <2>7 DEF BoundOnce, LookedUpAs, Unlocked, Binding
    <3>2. PICK k \in Mapping(i) :
            /\ SpecifierCompatible(i, k) /\ b.version = LockedVersion(i, k)
            /\ b.integrity # "none" => b.integrity = Locked.packages[<<i.scheme, i.of, b.version>>]
            /\ i.scheme = "npm" => (b.integrity = "none" <=> b.registryIntegrity)
      <4> HIDE DEF i
      <4>1. EnrichRegistry(i).version # "none"
        BY <2>7, <3>1
      <4> QED
        BY <2>1, <3>1, <4>1, RegistryBound
    <3>3. /\ k \in Recorded(i) /\ Specifiers[k].of \in {"none", i.of} /\ LockedVersion(i, k) = Specifiers[k].version
          /\ k.sub = "none" \/ \A other \in Recorded(i) : other = k
      BY <2>1, <3>2, RecordAgrees
    <3>4. i.form = "range" => b.version \in i.accepts
      BY <3>2 DEF SpecifierCompatible
    <3> QED
      BY <3>2, <3>3, <3>4
  <2> QED
    BY <2>1, <2>2, <2>4, <2>5, <2>6, <2>7 DEF DenoBoundAsRecorded
<1> QED
  BY <1>1, <1>2, <1>3, PTL DEF DenoSpec

-----------------------------------------------------------------------------
(* What declared Python dependencies are bound to.                             *)

\* A sequence, of whatever it holds.
IsList(s) == s \in Seq(Range(s))

\* What a sequence holds.
LEMMA ListedIn ==
  ASSUME NEW S, NEW s \in Seq(S)
  PROVE  /\ IsList(s) /\ Len(s) \in Nat /\ DOMAIN s = 1 .. Len(s) /\ Range(s) \subseteq S
         /\ \A x : x \in Range(s) <=> \E j \in 1 .. Len(s) : s[j] = x
<1>1. Len(s) \in Nat /\ DOMAIN s = 1 .. Len(s) /\ \A j \in 1 .. Len(s) : s[j] \in S
  OBVIOUS
<1>2. \A x : x \in Range(s) <=> \E j \in 1 .. Len(s) : s[j] = x
  BY <1>1 DEF Range
<1>3. Range(s) \subseteq S
  BY <1>1, <1>2
<1>4. s \in Seq(Range(s))
  <2>1. \A T : T = Range(s) => s \in Seq(T)
    BY <1>1, <1>2, IsASeq
  <2> QED
    BY <2>1
<1> QED
  BY <1>1, <1>2, <1>3, <1>4 DEF IsList

\* A sequence of one.
LEMMA ListedOnce ==
  ASSUME NEW x
  PROVE  IsList(<<x>>) /\ Range(<<x>>) = {x} /\ Len(<<x>>) = 1
<1>1. <<x>> \in Seq({x}) /\ Len(<<x>>) = 1 /\ <<x>>[1] = x
  OBVIOUS
<1>2. \A y : y \in Range(<<x>>) <=> \E j \in 1 .. 1 : <<x>>[j] = y
  BY <1>1, ListedIn
<1>3. \A y : y \in Range(<<x>>) <=> y = x
  BY <1>1, <1>2
<1> QED
  BY <1>1, <1>3, ListedIn

\* One more at the end.
LEMMA ListedLonger ==
  ASSUME NEW s, IsList(s), NEW x
  PROVE  IsList(Append(s, x)) /\ Range(Append(s, x)) = Range(s) \cup {x}
<1> DEFINE S == Range(s) \cup {x}
           t == Append(s, x)
<1>1. s \in Seq(Range(s)) /\ Len(s) \in Nat
  BY DEF IsList
<1>2. s \in Seq(S) /\ x \in S
  BY <1>1
<1> HIDE DEF S
<1>3. t \in Seq(S) /\ Len(t) = Len(s) + 1 /\ t[Len(s) + 1] = x /\ \A j \in 1 .. Len(s) : t[j] = s[j]
  BY <1>2
<1>4. \A y : y \in Range(t) <=> \E j \in 1 .. Len(s) + 1 : t[j] = y
  <2>1. \A y : y \in Range(t) <=> \E j \in 1 .. Len(t) : t[j] = y
    BY <1>3, ListedIn
  <2> HIDE DEF t
  <2> QED
    BY <1>3, <2>1
<1>5. \A y : y \in Range(s) <=> \E j \in 1 .. Len(s) : s[j] = y
  BY <1>1, ListedIn
<1>6. \A j \in 1 .. Len(s) + 1 : j = Len(s) + 1 \/ j \in 1 .. Len(s)
  BY <1>1
<1>7. Len(s) + 1 \in 1 .. Len(s) + 1 /\ \A j \in 1 .. Len(s) : j \in 1 .. Len(s) + 1
  BY <1>1
<1> HIDE DEF t
<1>8. \A y : y \in Range(t) <=> y \in Range(s) \cup {x}
  BY <1>3, <1>4, <1>5, <1>6, <1>7
<1>9. Range(t) = Range(s) \cup {x}
  BY <1>8
<1> QED
  BY <1>3, <1>9, ListedIn DEF t

\* One sequence after another.
LEMMA ListedTogether ==
  ASSUME NEW s, NEW t, IsList(s), IsList(t)
  PROVE  /\ IsList(s \o t) /\ Range(s \o t) = Range(s) \cup Range(t)
         /\ Len(s \o t) = Len(s) + Len(t)
<1> DEFINE S == Range(s) \cup Range(t)
           u == s \o t
<1>1. s \in Seq(Range(s)) /\ Len(s) \in Nat /\ t \in Seq(Range(t)) /\ Len(t) \in Nat
  BY DEF IsList
<1>2. s \in Seq(S) /\ t \in Seq(S)
  BY <1>1
<1> HIDE DEF S
<1>3. /\ u \in Seq(S) /\ Len(u) = Len(s) + Len(t) /\ \A j \in 1 .. Len(s) : u[j] = s[j]
      /\ \A j \in 1 .. Len(t) : u[Len(s) + j] = t[j]
  BY <1>2
<1>4. \A y : y \in Range(u) <=> \E j \in 1 .. Len(s) + Len(t) : u[j] = y
  <2>1. \A y : y \in Range(u) <=> \E j \in 1 .. Len(u) : u[j] = y
    BY <1>3, ListedIn
  <2> HIDE DEF u
  <2> QED
    BY <1>3, <2>1
<1>5. /\ \A y : y \in Range(s) <=> \E j \in 1 .. Len(s) : s[j] = y
      /\ \A y : y \in Range(t) <=> \E j \in 1 .. Len(t) : t[j] = y
  BY <1>1, ListedIn
<1>6. \A j \in 1 .. Len(s) + Len(t) : j \in 1 .. Len(s) \/ (j - Len(s) \in 1 .. Len(t) /\ j = Len(s) + (j - Len(s)))
  BY <1>1
<1>7. /\ \A j \in 1 .. Len(s) : j \in 1 .. Len(s) + Len(t)
      /\ \A j \in 1 .. Len(t) : Len(s) + j \in 1 .. Len(s) + Len(t)
  BY <1>1
<1> HIDE DEF u
<1>8. \A y : y \in Range(u) <=> y \in Range(s) \cup Range(t)
  <2> TAKE y
  <2>1. ASSUME y \in Range(u) PROVE y \in Range(s) \cup Range(t)
    <3>1. PICK j \in 1 .. Len(s) + Len(t) : u[j] = y
      BY <1>4, <2>1
    <3>2. CASE j \in 1 .. Len(s)
      BY <1>3, <1>5, <3>1, <3>2
    <3>3. CASE j \notin 1 .. Len(s)
      <4>1. j - Len(s) \in 1 .. Len(t) /\ j = Len(s) + (j - Len(s))
        BY <1>6, <3>3
      <4>2. u[j] = t[j - Len(s)]
        BY <1>3, <4>1
      <4> QED
        BY <1>5, <3>1, <4>1, <4>2
    <3> QED
      BY <3>2, <3>3
  <2>2. ASSUME y \in Range(s) \cup Range(t) PROVE y \in Range(u)
    BY <1>3, <1>4, <1>5, <1>7, <2>2
  <2> QED
    BY <2>1, <2>2
<1>9. Range(u) = Range(s) \cup Range(t)
  BY <1>8
<1> QED
  BY <1>3, <1>9, ListedIn DEF u

\* The digests that count.
LEMMA AuthorizedListed ==
  ASSUME NEW artifacts, IsList(artifacts)
  PROVE  Authorized(artifacts) \in Seq({f \in Range(artifacts) : f.valid})
<1> DEFINE N == Len(artifacts)
           C == Seq({f \in Range(artifacts) : f.valid})
           f == [x \in (1 .. N) \X C |-> IF artifacts[x[1]].valid THEN Append(x[2], artifacts[x[1]]) ELSE x[2]]
           Runs(h) == h = [n \in 0 .. N |-> IF n = 0 THEN <<>>
                                            ELSE IF artifacts[n].valid THEN Append(h[n - 1], artifacts[n]) ELSE h[n - 1]]
           h == CHOOSE g : Runs(g)
<1>1. N \in Nat /\ (\A i \in 1 .. N : artifacts[i] \in Range(artifacts)) /\ <<>> \in C
  BY DEF IsList
<1>2. \A i \in 1 .. N : \A c \in C :
        /\ f[<<i, c>>] = IF artifacts[i].valid THEN Append(c, artifacts[i]) ELSE c
        /\ f[<<i, c>>] \in C
  <2> SUFFICES ASSUME NEW i \in 1 .. N, NEW c \in C
               PROVE  /\ f[<<i, c>>] = IF artifacts[i].valid THEN Append(c, artifacts[i]) ELSE c
                      /\ f[<<i, c>>] \in C
    OBVIOUS
  <2>1. f[<<i, c>>] = IF artifacts[i].valid THEN Append(c, artifacts[i]) ELSE c
    <3> HIDE DEF C, N
    <3> QED
      OBVIOUS
  <2> HIDE DEF f
  <2> QED
    BY <1>1, <2>1
<1>3. Authorized(artifacts) = h[N]
  BY Zenon DEF Authorized
<1> HIDE DEF f, C, N
<1>4. Steady(f, C, N)
  BY <1>2 DEF Steady
<1>5. PICK g : Looped(f, C, N, <<>>, g)
  BY <1>1, <1>4, IterationExists
<1>6. \A i \in 0 .. N : g[i] = IF i = 0 THEN <<>> ELSE IF artifacts[i].valid THEN Append(g[i - 1], artifacts[i]) ELSE g[i - 1]
  <2> TAKE i \in 0 .. N
  <2>1. CASE i = 0
    BY <1>5, <2>1 DEF Looped
  <2>2. CASE i # 0
    <3>1. i \in 1 .. N /\ i - 1 \in 0 .. N
      BY <1>1, <2>2
    <3>2. g[i] = f[<<i, g[i - 1]>>] /\ g[i - 1] \in C
      BY <1>5, <2>2, <3>1 DEF Looped
    <3> QED
      BY <1>2, <2>2, <3>1, <3>2
  <2> QED
    BY <2>1, <2>2
<1>7. Runs(g)
  <2>1. g = [i \in 0 .. N |-> g[i]]
    BY <1>5 DEF Looped
  <2> QED
    BY <1>6, <2>1
<1>8. Runs(h)
  BY <1>7
<1>9. \A i \in 0 .. N : h[i] \in C
  <2> HIDE DEF h
  <2>1. \A i \in 0 .. N : h[i] = IF i = 0 THEN <<>> ELSE IF artifacts[i].valid THEN Append(h[i - 1], artifacts[i]) ELSE h[i - 1]
    BY <1>8
  <2>2. h[0] \in C
    <3>1. 0 \in 0 .. N
      BY <1>1
    <3> QED
      BY <1>1, <2>1, <3>1
  <2>3. \A i \in 1 .. N : h[i - 1] \in C => h[i] \in C
    <3> TAKE i \in 1 .. N
    <3>1. i \in 0 .. N /\ i # 0
      BY <1>1
    <3>2. h[i] = IF artifacts[i].valid THEN Append(h[i - 1], artifacts[i]) ELSE h[i - 1]
      BY <2>1, <3>1
    <3> QED
      BY <1>2, <3>2
  <2> QED
    BY <1>1, <2>2, <2>3, IterationStays
<1> QED
  BY <1>1, <1>3, <1>9 DEF C

\* What is collected once each is all there and nothing else.
LEMMA ExtendedBy ==
  ASSUME NEW a, NEW b, IsList(a), IsList(b)
  PROVE  IsList(Extend(a, b)) /\ Range(Extend(a, b)) = Range(a) \cup Range(b)
<1> DEFINE N == Len(b)
           C == Seq(Range(a) \cup Range(b))
           f == [x \in (1 .. N) \X C |-> IF Contains(x[2], b[x[1]]) THEN x[2] ELSE Append(x[2], b[x[1]])]
           Runs(h) == h = [n \in 0 .. N |-> IF n = 0 THEN a
                                            ELSE IF Contains(h[n - 1], b[n]) THEN h[n - 1] ELSE Append(h[n - 1], b[n])]
           h == CHOOSE g : Runs(g)
<1>1. N \in Nat /\ (\A i \in 1 .. N : b[i] \in Range(b)) /\ \A x \in Range(b) : \E i \in 1 .. N : b[i] = x
  BY ListedIn DEF IsList
<1>a. a \in C
  BY DEF IsList
<1>2. \A i \in 1 .. N : \A c \in C :
        /\ f[<<i, c>>] = IF Contains(c, b[i]) THEN c ELSE Append(c, b[i])
        /\ f[<<i, c>>] \in C
  <2> SUFFICES ASSUME NEW i \in 1 .. N, NEW c \in C
               PROVE  /\ f[<<i, c>>] = IF Contains(c, b[i]) THEN c ELSE Append(c, b[i])
                      /\ f[<<i, c>>] \in C
    OBVIOUS
  <2>1. f[<<i, c>>] = IF Contains(c, b[i]) THEN c ELSE Append(c, b[i])
    <3> HIDE DEF C, N
    <3> QED
      OBVIOUS
  <2>2. Append(c, b[i]) \in C
    BY <1>1
  <2> HIDE DEF f, C
  <2> QED
    BY <2>1, <2>2
<1>3. Extend(a, b) = h[N]
  BY Zenon DEF Extend
<1>b. \A c \in C : IsList(c) /\ Range(c) \subseteq Range(a) \cup Range(b)
  BY ListedIn
<1> HIDE DEF f, C, N
<1>4. Steady(f, C, N)
  BY <1>2 DEF Steady
<1>5. PICK g : Looped(f, C, N, a, g)
  BY <1>1, <1>4, <1>a, IterationExists
<1>6. \A i \in 0 .. N : g[i] = IF i = 0 THEN a ELSE IF Contains(g[i - 1], b[i]) THEN g[i - 1] ELSE Append(g[i - 1], b[i])
  <2> TAKE i \in 0 .. N
  <2>1. CASE i = 0
    BY <1>5, <2>1 DEF Looped
  <2>2. CASE i # 0
    <3>1. i \in 1 .. N /\ i - 1 \in 0 .. N
      BY <1>1, <2>2
    <3>2. g[i] = f[<<i, g[i - 1]>>] /\ g[i - 1] \in C
      BY <1>5, <2>2, <3>1 DEF Looped
    <3> QED
      BY <1>2, <2>2, <3>1, <3>2
  <2> QED
    BY <2>1, <2>2
<1>7. Runs(g)
  <2>1. g = [i \in 0 .. N |-> g[i]]
    BY <1>5 DEF Looped
  <2> QED
    BY <1>6, <2>1
<1>8. Runs(h)
  BY <1>7
<1>9. h[0] = a /\ \A i \in 1 .. N : h[i] = IF Contains(h[i - 1], b[i]) THEN h[i - 1] ELSE Append(h[i - 1], b[i])
  <2> HIDE DEF h
  <2>1. \A i \in 0 .. N : h[i] = IF i = 0 THEN a ELSE IF Contains(h[i - 1], b[i]) THEN h[i - 1] ELSE Append(h[i - 1], b[i])
    BY <1>8
  <2>2. 0 \in 0 .. N /\ \A i \in 1 .. N : i \in 0 .. N /\ i # 0
    BY <1>1
  <2> QED
    BY <2>1, <2>2
<1> HIDE DEF h
<1>10. \A i \in 0 .. N : h[i] \in C
  <2>1. \A i \in 1 .. N : h[i - 1] \in C => h[i] \in C
    BY <1>2, <1>9
  <2> QED
    BY <1>1, <1>9, <1>a, <2>1, IterationStays
\* The part up to each place is there from then on.
<1> DEFINE all == [i \in 0 .. N |-> Range(h[i])]
           A == {i \in 0 .. N : Range(a) \subseteq Range(h[i]) /\ \A j \in 1 .. N : j <= i => b[j] \in Range(h[i])}
           id == [i \in 0 .. N |-> i]
<1>11. \A i \in 1 .. N : Range(h[i]) = Range(h[i - 1]) \cup {b[i]}
  <2> TAKE i \in 1 .. N
  <2>1. i - 1 \in 0 .. N
    BY <1>1
  <2>2. IsList(h[i - 1])
    BY <1>b, <1>10, <2>1
  <2>3. CASE Contains(h[i - 1], b[i])
    <3>1. b[i] \in Range(h[i - 1])
      BY <2>3 DEF Contains, Range
    <3> QED
      BY <1>9, <2>3, <3>1
  <2>4. CASE ~Contains(h[i - 1], b[i])
    BY <1>9, <2>2, <2>4, ListedLonger
  <2> QED
    BY <2>3, <2>4
<1>12. \A i \in 0 .. N : id[i] \in A
  <2>1. id[0] \in A
    BY <1>1, <1>9
  <2>2. ASSUME NEW i \in 1 .. N, id[i - 1] \in A PROVE id[i] \in A
    <3>1. i - 1 \in 0 .. N /\ i \in 0 .. N
      BY <1>1
    <3>2. Range(a) \subseteq Range(h[i - 1]) /\ \A j \in 1 .. N : j <= i - 1 => b[j] \in Range(h[i - 1])
      BY <2>2, <3>1
    <3>3. \A j \in 1 .. N : j <= i => j <= i - 1 \/ j = i
      BY <3>1
    <3>4. Range(a) \subseteq Range(h[i]) /\ \A j \in 1 .. N : j <= i => b[j] \in Range(h[i])
      BY <1>11, <3>2, <3>3
    <3> QED
      BY <3>1, <3>4
  <2> HIDE DEF A, id
  <2> QED
    BY <1>1, <2>1, <2>2, IterationStays
<1>13. Range(a) \subseteq Range(h[N]) /\ \A j \in 1 .. N : b[j] \in Range(h[N])
  <2>1. N \in 0 .. N /\ \A j \in 1 .. N : j <= N
    BY <1>1
  <2> QED
    BY <1>12, <2>1
<1>14. h[N] \in C
  BY <1>1, <1>10
<1> QED
  BY <1>1, <1>3, <1>13, <1>14, <1>b

\* Sequences joined one after the other.
LEMMA FlattenRuns ==
  ASSUME NEW ss, IsList(ss), ss # <<>>, \A i \in 1 .. Len(ss) : IsList(ss[i])
  PROVE  \E h : /\ h[1] = ss[1] /\ (\A i \in 2 .. Len(ss) : h[i] = h[i - 1] \o ss[i])
                /\ FlattenSeq(ss) = h[Len(ss)]
<1> DEFINE n == Len(ss)
           C == Seq(UNION {Range(ss[i]) : i \in 1 .. n})
           f == [x \in (1 .. n) \X C |-> x[2] \o ss[x[1]]]
           Runs(h) == h = [i \in 1 .. n |-> IF i = 1 THEN ss[i] ELSE h[i - 1] \o ss[i]]
           h == CHOOSE g : Runs(g)
<1>1. n \in Nat /\ n >= 1 /\ ss \in Seq(Range(ss))
  BY DEF IsList
<1>2. FlattenSeq(ss) = h[n]
  <2>1. FlattenSeq(ss) = IF Len(ss) = 0 THEN ss ELSE h[n]
    BY Zenon DEF FlattenSeq
  <2> HIDE DEF h
  <2> QED
    BY <1>1, <2>1
<1>3. \A i \in 1 .. n : ss[i] \in C /\ ss[i] = <<>> \o ss[i]
  <2> TAKE i \in 1 .. n
  <2>1. ss[i] \in Seq(Range(ss[i])) /\ Range(ss[i]) \subseteq UNION {Range(ss[j]) : j \in 1 .. n}
    BY DEF IsList
  <2>2. \A S, T : S \subseteq T => \A q \in Seq(S) : q \in Seq(T) /\ <<>> \o q = q
    OBVIOUS
  <2> QED
    BY <2>1, <2>2
<1>4. <<>> \in C /\ \A c, d \in C : c \o d \in C
  OBVIOUS
<1>5. \A i \in 1 .. n : \A c \in C : f[<<i, c>>] = c \o ss[i]
  <2> HIDE DEF C, n
  <2> QED
    OBVIOUS
<1> HIDE DEF f, n, C
<1>6. Steady(f, C, n)
  BY <1>3, <1>4, <1>5 DEF Steady
<1>7. PICK g : Looped(f, C, n, <<>>, g)
  BY <1>1, <1>4, <1>6, IterationExists
<1> DEFINE k == [i \in 1 .. n |-> g[i]]
<1>8. g \in [0 .. n -> C] /\ \A j \in 0 .. n : g[j] = IF j = 0 THEN <<>> ELSE f[<<j, g[j - 1]>>]
  BY <1>7 DEF Looped
<1>9. \A i \in 1 .. n : i \in 0 .. n /\ i - 1 \in 0 .. n /\ i # 0 /\ 0 \in 0 .. n /\ (i # 1 => i - 1 \in 1 .. n)
  BY <1>1
<1>10. g[0] = <<>> /\ \A i \in 1 .. n : g[i] = g[i - 1] \o ss[i]
  BY <1>1, <1>5, <1>8, <1>9
<1>11. \A i \in 1 .. n : k[i] = IF i = 1 THEN ss[i] ELSE k[i - 1] \o ss[i]
  <2> TAKE i \in 1 .. n
  <2>1. CASE i = 1
    <3>1. g[i] = <<>> \o ss[i]
      <4>1. g[i] = g[i - 1] \o ss[i]
        BY <1>10
      <4>2. i - 1 = 0
        BY <2>1
      <4> QED
        BY <1>10, <4>1, <4>2, Zenon
    <3> QED
      BY <1>3, <2>1, <3>1
  <2>2. CASE i # 1
    BY <1>9, <1>10, <2>2
  <2> QED
    BY <2>1, <2>2
<1>12. Runs(k)
  BY <1>11
<1>13. Runs(h)
  BY <1>12, Zenon
<1> HIDE DEF h, k
<1>14. \A i \in 1 .. n : h[i] = IF i = 1 THEN ss[i] ELSE h[i - 1] \o ss[i]
  BY <1>13
<1>15. h[1] = ss[1]
  <2>1. 1 \in 1 .. n
    BY <1>1
  <2> QED
    BY <1>14, <2>1
<1>16. \A i \in 2 .. n : h[i] = h[i - 1] \o ss[i]
  <2>1. \A i \in 2 .. n : i \in 1 .. n /\ i # 1
    BY <1>1
  <2> QED
    BY <1>14, <2>1
<1> QED
  BY <1>2, <1>15, <1>16 DEF n

\* They hold together what each of them holds, and as many as there are of them
\* when each holds one.
LEMMA FlattenedTogether ==
  ASSUME NEW ss, IsList(ss), \A i \in 1 .. Len(ss) : IsList(ss[i])
  PROVE  /\ IsList(FlattenSeq(ss))
         /\ \A x : x \in Range(FlattenSeq(ss)) <=> \E i \in 1 .. Len(ss) : x \in Range(ss[i])
         /\ (\A i \in 1 .. Len(ss) : Len(ss[i]) = 1) => Len(FlattenSeq(ss)) = Len(ss)
<1> DEFINE n == Len(ss)
<1>1. n \in Nat /\ ss \in Seq(Range(ss))
  BY DEF IsList
<1>2. CASE ss = <<>>
  <2>1. FlattenSeq(ss) = ss
    BY <1>2 DEF FlattenSeq
  <2>2. IsList(ss) /\ Len(ss) = 0 /\ DOMAIN ss = {}
    BY <1>1, <1>2
  <2>3. Range(ss) = {}
    BY <2>2 DEF Range
  <2> QED
    BY <2>1, <2>2, <2>3
<1>3. CASE ss # <<>>
  <2>1. PICK h : h[1] = ss[1] /\ (\A i \in 2 .. n : h[i] = h[i - 1] \o ss[i]) /\ FlattenSeq(ss) = h[n]
    BY <1>3, FlattenRuns
  <2>2. n >= 1
    BY <1>1, <1>3
  <2> HIDE DEF n
  <2> DEFINE Good(i) == /\ IsList(h[i])
                        /\ \A x : x \in Range(h[i]) <=> \E j \in 1 .. i : x \in Range(ss[j])
                        /\ (\A j \in 1 .. n : Len(ss[j]) = 1) => Len(h[i]) = i
             A == {i \in 0 .. n : i = 0 \/ Good(i)}
             id == [i \in 0 .. n |-> i]
  <2>3. Good(1)
    <3>1. 1 \in 1 .. n /\ \A j \in 1 .. 1 : j = 1
      BY <1>1, <2>2
    <3>2. IsList(ss[1])
      BY <3>1 DEF n
    <3> QED
      BY <2>1, <3>1, <3>2
  <2>4. ASSUME NEW i \in 2 .. n, Good(i - 1) PROVE Good(i)
    <3>1. i \in 1 .. n /\ i \in Nat /\ i - 1 \in Nat
      BY <1>1
    <3>2. h[i] = h[i - 1] \o ss[i] /\ IsList(h[i - 1]) /\ IsList(ss[i])
      BY <2>1, <2>4, <3>1 DEF n
    <3>3. /\ IsList(h[i]) /\ Range(h[i]) = Range(h[i - 1]) \cup Range(ss[i])
          /\ Len(h[i]) = Len(h[i - 1]) + Len(ss[i])
      <4>1. /\ IsList(h[i - 1] \o ss[i]) /\ Range(h[i - 1] \o ss[i]) = Range(h[i - 1]) \cup Range(ss[i])
            /\ Len(h[i - 1] \o ss[i]) = Len(h[i - 1]) + Len(ss[i])
        BY <3>2, ListedTogether
      <4> QED
        BY <3>2, <4>1
    <3>4. \A j \in 1 .. i : j \in 1 .. i - 1 \/ j = i
      BY <3>1
    <3>5. i \in 1 .. i /\ \A j \in 1 .. i - 1 : j \in 1 .. i
      BY <3>1
    <3>6. \A x : x \in Range(h[i]) <=> \E j \in 1 .. i : x \in Range(ss[j])
      BY <2>4, <3>3, <3>4, <3>5
    <3>7. (\A j \in 1 .. n : Len(ss[j]) = 1) => Len(h[i]) = i
      <4>1. (\A j \in 1 .. n : Len(ss[j]) = 1) => Len(h[i - 1]) = i - 1 /\ Len(ss[i]) = 1
        BY <2>4, <3>1, Zenon
      <4>2. Len(h[i]) = Len(h[i - 1]) + Len(ss[i])
        BY <3>3
      <4>3. (i - 1) + 1 = i
        BY <3>1
      <4> QED
        BY <4>1, <4>2, <4>3, Zenon
    <3> QED
      BY <3>3, <3>6, <3>7
  <2> HIDE DEF Good
  <2>5. \A i \in 0 .. n : id[i] \in A
    <3>1. id[0] \in A
      BY <1>1
    <3>2. ASSUME NEW i \in 1 .. n, id[i - 1] \in A PROVE id[i] \in A
      <4>1. i \in 0 .. n /\ i - 1 \in 0 .. n /\ (i = 1 \/ (i \in 2 .. n /\ i - 1 # 0))
        BY <1>1
      <4> QED
        BY <2>3, <2>4, <3>2, <4>1
    <3> HIDE DEF A, id
    <3> QED
      BY <1>1, <3>1, <3>2, IterationStays
  <2>6. Good(n)
    <3>1. n \in 0 .. n /\ n # 0
      BY <1>1, <2>2
    <3> QED
      BY <2>5, <3>1
  <2> QED
    BY <2>1, <2>6 DEF Good, n
<1> QED
  BY <1>2, <1>3

\* What of the dependencies of a lockfile becomes an alternative of a declaration.
Chosen(i) == {c \in Range(enriched) : c.index = i /\ c # AsDeclared(c.index) /\ c.version # "none"}

\* What a lockfile has made of each declaration joins its alternatives.
LEMMA MergedInto ==
  ASSUME NEW D, NEW alts, alts = [i \in D |-> alts[i]], \A i \in D : IsList(alts[i]),
         IsList(enriched), \A c \in Range(enriched) : c.index \in D
  PROVE  /\ Merge(alts) = [i \in D |-> Merge(alts)[i]]
         /\ \A i \in D : IsList(Merge(alts)[i]) /\ Range(Merge(alts)[i]) = Range(alts[i]) \cup Chosen(i)
<1> DEFINE N == Len(enriched)
           V == UNION {Range(alts[i]) : i \in D}
           U == V \cup Range(enriched)
           C == [D -> Seq(U)]
           f == [x \in (1 .. N) \X C |-> Merged(x[2], enriched[x[1]])]
           Runs(h) == h = [n \in 0 .. N |-> IF n = 0 THEN alts ELSE Merged(h[n - 1], enriched[n])]
           h == CHOOSE g : Runs(g)
<1>1. /\ N \in Nat /\ (\A i \in 1 .. N : enriched[i] \in Range(enriched))
      /\ \A x \in Range(enriched) : \E i \in 1 .. N : enriched[i] = x
  BY ListedIn DEF IsList
<1>a. alts \in C
  <2>1. \A i \in D : alts[i] \in Seq(U)
    BY DEF IsList
  <2> HIDE DEF U
  <2> QED
    BY <2>1
<1>u. \A c \in Range(enriched) : c \in U
  <2> HIDE DEF V
  <2> QED
    OBVIOUS
<1> HIDE DEF U
<1>2. \A i \in 1 .. N : \A c \in C : Merged(c, enriched[i]) \in C
  <2> SUFFICES ASSUME NEW i \in 1 .. N, NEW c \in C PROVE Merged(c, enriched[i]) \in C
    OBVIOUS
  <2>1. enriched[i] \in U /\ enriched[i].index \in D
    BY <1>1, <1>u
  <2>2. [c EXCEPT ![enriched[i].index] = Append(@, enriched[i])] \in C
    BY <2>1
  <2> QED
    BY <2>2 DEF Merged
<1>3. \A i \in 1 .. N : \A c \in C : f[<<i, c>>] = Merged(c, enriched[i])
  <2> HIDE DEF C, N
  <2> QED
    OBVIOUS
<1>4. Merge(alts) = h[N]
  BY Zenon DEF Merge
<1>b. \A c \in C : c = [i \in D |-> c[i]] /\ \A i \in D : c[i] \in Seq(U)
  OBVIOUS
<1> HIDE DEF f, C, N
<1>5. Steady(f, C, N)
  BY <1>2, <1>3 DEF Steady
<1>6. PICK g : Looped(f, C, N, alts, g)
  BY <1>1, <1>5, <1>a, IterationExists
<1>7. \A i \in 0 .. N : g[i] = IF i = 0 THEN alts ELSE Merged(g[i - 1], enriched[i])
  <2> TAKE i \in 0 .. N
  <2>1. CASE i = 0
    BY <1>6, <2>1 DEF Looped
  <2>2. CASE i # 0
    <3>1. i \in 1 .. N /\ i - 1 \in 0 .. N
      BY <1>1, <2>2
    <3>2. g[i] = f[<<i, g[i - 1]>>] /\ g[i - 1] \in C
      BY <1>6, <2>2, <3>1 DEF Looped
    <3> QED
      BY <1>3, <2>2, <3>1, <3>2
  <2> QED
    BY <2>1, <2>2
<1>8. Runs(g)
  <2>1. g = [i \in 0 .. N |-> g[i]]
    BY <1>6 DEF Looped
  <2> QED
    BY <1>7, <2>1
<1>9. Runs(h)
  BY <1>8
<1>10. h[0] = alts /\ \A i \in 1 .. N : h[i] = Merged(h[i - 1], enriched[i])
  <2> HIDE DEF h
  <2>1. \A i \in 0 .. N : h[i] = IF i = 0 THEN alts ELSE Merged(h[i - 1], enriched[i])
    BY <1>9
  <2>2. 0 \in 0 .. N /\ \A i \in 1 .. N : i \in 0 .. N /\ i # 0
    BY <1>1
  <2> QED
    BY <2>1, <2>2
<1> HIDE DEF h
<1>11. \A i \in 0 .. N : h[i] \in C
  <2>1. \A i \in 1 .. N : h[i - 1] \in C => h[i] \in C
    BY <1>2, <1>10
  <2> QED
    BY <1>1, <1>10, <1>a, <2>1, IterationStays
<1> DEFINE Joins(c) == c # AsDeclared(c.index) /\ c.version # "none"
           Holds(i, k) == \A x : x \in Range(h[i][k]) <=>
                            \/ x \in Range(alts[k])
                            \/ \E j \in 1 .. N : j <= i /\ enriched[j] = x /\ x.index = k /\ Joins(x)
           A == {i \in 0 .. N : \A k \in D : Holds(i, k)}
           id == [i \in 0 .. N |-> i]
<1>12. \A i \in 1 .. N : \A k \in D :
         Range(h[i][k]) = Range(h[i - 1][k]) \cup (IF enriched[i].index = k /\ Joins(enriched[i]) THEN {enriched[i]} ELSE {})
  <2> SUFFICES ASSUME NEW i \in 1 .. N, NEW k \in D
               PROVE  Range(h[i][k]) = Range(h[i - 1][k]) \cup
                                         (IF enriched[i].index = k /\ Joins(enriched[i]) THEN {enriched[i]} ELSE {})
    OBVIOUS
  <2> DEFINE c == enriched[i]
             m == h[i - 1]
  <2>1. i - 1 \in 0 .. N /\ c.index \in D
    BY <1>1
  <2>2. m \in C /\ m[k] \in Seq(U) /\ m[c.index] \in Seq(U) /\ h[i] = Merged(m, c)
    BY <1>b, <1>10, <1>11, <2>1
  <2>3. IsList(m[k])
    BY <2>2, ListedIn
  <2> HIDE DEF c, m
  <2>4. CASE c.index # k
    <3>1. h[i][k] = m[k]
      BY <2>1, <2>2, <2>4 DEF Merged, C
    <3> QED
      BY <2>4, <3>1 DEF c, m
  <2>5. CASE c.index = k /\ ~Joins(c)
    <3>1. h[i] = m
      BY <2>2, <2>5 DEF Merged
    <3> QED
      BY <2>5, <3>1 DEF c, m
  <2>6. CASE c.index = k /\ Joins(c) /\ Contains(m[k], c)
    <3>1. h[i] = m
      BY <2>2, <2>6 DEF Merged
    <3>2. c \in Range(m[k])
      BY <2>6 DEF Contains, Range
    <3> QED
      BY <2>6, <3>1, <3>2 DEF c, m
  <2>7. CASE c.index = k /\ Joins(c) /\ ~Contains(m[k], c)
    <3>1. h[i][k] = Append(m[k], c)
      BY <2>1, <2>2, <2>7 DEF Merged, C
    <3> QED
      BY <2>3, <2>7, <3>1, ListedLonger DEF c, m
  <2> QED
    BY <2>4, <2>5, <2>6, <2>7
<1> HIDE DEF Joins
<1>13. \A i \in 0 .. N : id[i] \in A
  <2>1. id[0] \in A
    <3>1. 0 \in 0 .. N /\ \A j \in 1 .. N : ~(j <= 0)
      BY <1>1
    <3> QED
      BY <1>10, <3>1
  <2>2. ASSUME NEW i \in 1 .. N, id[i - 1] \in A PROVE id[i] \in A
    <3>1. i - 1 \in 0 .. N /\ i \in 0 .. N /\ i <= i
      BY <1>1
    <3>2. \A k \in D : Holds(i - 1, k)
      BY <2>2, <3>1
    <3>3. \A j \in 1 .. N : j <= i <=> j <= i - 1 \/ j = i
      BY <3>1
    <3>4. ASSUME NEW k \in D PROVE Holds(i, k)
      <4>1. \A x : x \in Range(h[i][k]) <=> x \in Range(h[i - 1][k]) \/ (x = enriched[i] /\ x.index = k /\ Joins(x))
        BY <1>12
      <4>2. \A x : x \in Range(h[i - 1][k]) <=>
                     \/ x \in Range(alts[k])
                     \/ \E j \in 1 .. N : j <= i - 1 /\ enriched[j] = x /\ x.index = k /\ Joins(x)
        BY <3>2
      <4> QED
        BY <3>3, <4>1, <4>2
    <3> QED
      BY <3>1, <3>4
  <2> HIDE DEF A, id
  <2> QED
    BY <1>1, <2>1, <2>2, IterationStays
<1>14. \A k \in D : Range(h[N][k]) = Range(alts[k]) \cup Chosen(k)
  <2> TAKE k \in D
  <2>1. N \in 0 .. N /\ \A j \in 1 .. N : j <= N
    BY <1>1
  <2>2. Holds(N, k)
    BY <1>13, <2>1
  <2>3. \A x : x \in Range(h[N][k]) <=> x \in Range(alts[k]) \/ x \in Chosen(k)
    BY <1>1, <2>1, <2>2 DEF Chosen, Joins
  <2> QED
    BY <2>3
<1>15. h[N] = [i \in D |-> h[N][i]] /\ \A i \in D : IsList(h[N][i])
  <2>1. h[N] \in C
    BY <1>1, <1>11
  <2> QED
    BY <1>b, <2>1, ListedIn
<1> QED
  BY <1>4, <1>14, <1>15

\* The first of a sequence and the others.
LEMMA ListSplit ==
  ASSUME NEW s, IsList(s), s # <<>>
  PROVE  IsList(Tail(s)) /\ Range(s) = {Head(s)} \cup Range(Tail(s))
<1>1. s \in Seq(Range(s)) /\ Len(s) \in Nat /\ Len(s) >= 1
  BY DEF IsList
<1>2. /\ Tail(s) \in Seq(Range(s)) /\ Len(Tail(s)) = Len(s) - 1 /\ Head(s) = s[1]
      /\ \A j \in 1 .. Len(s) - 1 : Tail(s)[j] = s[j + 1]
  BY <1>1
<1>3. \A x : x \in Range(s) <=> \E j \in 1 .. Len(s) : s[j] = x
  BY <1>1, ListedIn
<1>4. IsList(Tail(s)) /\ \A x : x \in Range(Tail(s)) <=> \E j \in 1 .. Len(s) - 1 : Tail(s)[j] = x
  <2>1. IsList(Tail(s)) /\ \A x : x \in Range(Tail(s)) <=> \E j \in 1 .. Len(Tail(s)) : Tail(s)[j] = x
    BY <1>2, ListedIn
  <2> QED
    BY <1>2, <2>1, Zenon
<1>5. \A j \in 1 .. Len(s) : j = 1 \/ (j - 1 \in 1 .. Len(s) - 1 /\ (j - 1) + 1 = j)
  BY <1>1
<1>6. 1 \in 1 .. Len(s) /\ \A j \in 1 .. Len(s) - 1 : j + 1 \in 1 .. Len(s)
  BY <1>1
<1>7. \A x : x \in Range(s) <=> x = Head(s) \/ x \in Range(Tail(s))
  <2> TAKE x
  <2>1. ASSUME x \in Range(s) PROVE x = Head(s) \/ x \in Range(Tail(s))
    <3>1. PICK j \in 1 .. Len(s) : s[j] = x
      BY <1>3, <2>1
    <3>2. CASE j = 1
      BY <1>2, <3>1, <3>2
    <3>3. CASE j # 1
      <4>1. j - 1 \in 1 .. Len(s) - 1 /\ (j - 1) + 1 = j
        BY <1>5, <3>3
      <4>2. Tail(s)[j - 1] = s[(j - 1) + 1]
        BY <1>2, <4>1
      <4> QED
        BY <1>4, <3>1, <4>1, <4>2
    <3> QED
      BY <3>2, <3>3
  <2>2. ASSUME x = Head(s) \/ x \in Range(Tail(s)) PROVE x \in Range(s)
    BY <1>2, <1>3, <1>4, <1>6, <2>2
  <2> QED
    BY <2>1, <2>2
<1> QED
  BY <1>4, <1>7

\* A dependency due to a record of a lockfile, and to no other record of it.
DueToOne(dep, lock) ==
  \E e \in Range(lock.packages) :
    /\ DueTo(dep, lock, e)
    /\ DeclarationOf(dep).form = "url" => dep.integrity \subseteq DirectDigests(lock, e, dep.source.of)
    /\ \A other \in Range(lock.packages) \ {e} : ~DueTo(dep, lock, other)

\* A declaration a lockfile can bind.
Bindable(i, lock) ==
  /\ environment.declared[i].form = "registry"
  /\ \E e \in Range(lock.packages) : e.name = environment.declared[i].name

\* A record of that name is among the named ones, if only where it stands first.
LEMMA NamedOnce ==
  ASSUME NEW dep, IsList(CurrentLock.packages),
         NEW e \in Range(CurrentLock.packages), e.name = DeclarationOf(dep).name
  PROVE  \E k \in Named(dep) : CurrentLock.packages[k] = e
<1> DEFINE s == CurrentLock.packages
           P(n) == n \in 1 .. Len(s) /\ s[n] = e
<1>1. s \in Seq(Range(s)) /\ Len(s) \in Nat /\ DOMAIN s = 1 .. Len(s)
  BY DEF IsList
<1>2. \A x : x \in Range(s) <=> \E j \in 1 .. Len(s) : s[j] = x
  BY <1>1, ListedIn
<1>3. PICK j \in 1 .. Len(s) : s[j] = e
  BY <1>2
<1> DEFINE K == {n \in Nat : P(n)}
<1>4. PICK k \in K : \A l \in K : k <= l
  <2>1. K \subseteq Nat /\ j \in K
    BY <1>1, <1>3
  <2> HIDE DEF K
  <2> QED
    BY <2>1, SmallestNumber
<1>5. k \in 1 .. Len(s) /\ s[k] = e
  BY <1>4
<1>6. \A l \in 1 .. k - 1 : s[l] # s[k]
  <2> SUFFICES ASSUME NEW l \in 1 .. k - 1, s[l] = s[k] PROVE FALSE
    OBVIOUS
  <2>1. l \in 1 .. Len(s) /\ l \in Nat /\ ~(k <= l)
    BY <1>1, <1>5
  <2>2. l \in K
    BY <1>5, <2>1
  <2> QED
    BY <1>4, <2>1, <2>2
<1> QED
  BY <1>1, <1>5, <1>6 DEF Named

\* The files whose digests count are files of the record, and all of them valid.
LEMMA ArtifactsOf ==
  ASSUME NEW e, IsList(e.files), CurrentLock.kind # "pipfile" => \A j \in DOMAIN e.files : e.files[j].valid
  PROVE  /\ Artifacts(e) \in Seq({f \in Range(e.files) : f.valid})
         /\ \A j \in DOMAIN Artifacts(e) : \E k \in DOMAIN e.files : e.files[k].valid /\ e.files[k] = Artifacts(e)[j]
<1>1. Artifacts(e) \in Seq({f \in Range(e.files) : f.valid})
  <2>1. CASE CurrentLock.kind = "pipfile"
    BY <2>1, AuthorizedListed DEF Artifacts
  <2>2. CASE CurrentLock.kind # "pipfile"
    <3>1. \A f \in Range(e.files) : f.valid
      BY <2>2 DEF Range
    <3>2. {f \in Range(e.files) : f.valid} = Range(e.files)
      BY <3>1
    <3> QED
      BY <2>2, <3>2 DEF Artifacts, IsList
  <2> QED
    BY <2>1, <2>2
<1> HIDE DEF Artifacts
<1>2. \A j \in DOMAIN Artifacts(e) : Artifacts(e)[j] \in {f \in Range(e.files) : f.valid}
  BY <1>1
<1> QED
  BY <1>1, <1>2 DEF Range

\* What an outcome could be due to would have matched, so that it is due to the one
\* record that did.
LEMMA DueToMatches ==
  ASSUME NEW i \in DOMAIN environment.declared, WellDeclared(environment.declared[i]),
         IsList(CurrentLock.packages), environment.declared[i].form # "malformed",
         NEW k \in CompatibleRecords(AsDeclared(i)), CompatibleRecords(AsDeclared(i)) = {k},
         NEW c, c.index = i
  PROVE  \A e \in Range(CurrentLock.packages) : DueTo(c, CurrentLock, e) => e = CurrentLock.packages[k]
<1> DEFINE dep == AsDeclared(i)
           d == environment.declared[i]
           r == CurrentLock.packages[k]
<1>1. dep.index = i /\ dep.source = d.source /\ DeclarationOf(dep) = d /\ DeclarationOf(c) = d
  BY DEF AsDeclared, DeclarationOf
<1>2. LockVersionCompatible(dep, r) /\ SourceCompatible(dep, r)
  BY DEF CompatibleRecords
<1>3. NoSource.form = "none"
  BY DEF NoSource
<1> SUFFICES ASSUME NEW e \in Range(CurrentLock.packages), DueTo(c, CurrentLock, e) PROVE e = r
  OBVIOUS
<1>4. /\ e.name = d.name /\ e.version # "none"
      /\ d.form = "github" /\ CurrentLock.kind # "pipfile" => e.source \in {NoSource, d.source}
      /\ d.form = "registry" => e.version \in d.accepts
      /\ d.form \in {"url", "git"} => e.source = d.source
  BY <1>1 DEF DueTo
<1>5. /\ d.form \in {"registry", "url", "git", "github", "local"}
      /\ d.form \in {"registry", "local"} => d.source = NoSource
      /\ d.form = "url" => d.source.form = "url"
      /\ d.form \in {"git", "github"} => d.source.form = "git"
      /\ d.form = "github" => d.source.of # "branch"
  BY DEF WellDeclared, DeclaredForms
<1>6. d.form \in {"url", "git", "github"} => d.source # NoSource
  BY <1>3, <1>5
<1>7. LockVersionCompatible(dep, e)
  BY <1>1, <1>4, <1>5, <1>6 DEF LockVersionCompatible
<1>8. SourceCompatible(dep, e)
  <2>1. CASE d.form \in {"registry", "local"}
    BY <1>1, <1>5, <2>1 DEF SourceCompatible
  <2>2. CASE d.form = "github"
    BY <1>1, <1>4, <1>5, <2>2 DEF SourceCompatible
  <2>3. CASE d.form = "url"
    <3>1. e.source = dep.source /\ e.source.form # "git"
      BY <1>1, <1>4, <1>5, <2>3
    <3> QED
      BY <3>1 DEF SourceCompatible
  <2>4. CASE d.form = "git"
    <3>1. e.source = dep.source
      BY <1>1, <1>4, <2>4
    <3>2. dep.source # NoSource /\ d.form # "github"
      BY <1>1, <1>6, <2>4
    <3>3. dep.source.form = "git" => dep.source.of # "branch"
      BY <1>1, <1>2, <3>2 DEF SourceCompatible
    <3> QED
      BY <3>1, <3>3 DEF SourceCompatible
  <2> QED
    BY <1>5, <2>1, <2>2, <2>3, <2>4
<1>9. PICK l \in Named(dep) : CurrentLock.packages[l] = e
  BY <1>1, <1>4, NamedOnce
<1>10. l \in CompatibleRecords(dep)
  BY <1>7, <1>8, <1>9 DEF CompatibleRecords
<1> QED
  BY <1>9, <1>10

\* What a matched record makes of a declaration, before it carries the lockfile.
ExpandedAs(i, r, c) ==
  LET d == environment.declared[i]
  IN  /\ c.index = i
      /\ c = [index |-> c.index, version |-> c.version, source |-> c.source, integrity |-> c.integrity,
              registryIntegrity |-> c.registryIntegrity, lockfile |-> c.lockfile]
      /\ d.form = "github" => c.version = d.source.of
      /\ d.form \in {"url", "git"} => c.source = d.source
      /\ d.form = "registry" => c.version = r.version
      /\ c.version # "none" /\ d.form # "github" =>
           /\ c.version = r.version
           /\ \A x \in c.integrity : \E k \in DOMAIN r.files :
                /\ r.files[k].valid /\ r.files[k].hash = x
                /\ CurrentLock.kind = "uv" /\ d.form = "url" => r.files[k].url = c.source.of
           /\ c.integrity = {} <=> c.registryIntegrity

\* A dependency with the version and the digests of a record.
LEMMA WithHashesIs ==
  ASSUME NEW dep, NEW e, NEW n,
         dep = [index |-> dep.index, version |-> dep.version, source |-> dep.source, integrity |-> dep.integrity,
                registryIntegrity |-> dep.registryIntegrity, lockfile |-> dep.lockfile]
  PROVE  WithHashes(dep, e, n) =
           [index |-> dep.index, version |-> e.version, source |-> dep.source, integrity |-> n,
            registryIntegrity |-> dep.registryIntegrity, lockfile |-> dep.lockfile]
<1>1. PICK v, i, s, m, g, l, u :
        /\ v = e.version /\ i = dep.index /\ s = dep.source /\ m = dep.integrity
        /\ g = dep.registryIntegrity /\ l = dep.lockfile /\ u = dep.version
  OBVIOUS
<1>2. dep = [index |-> i, version |-> u, source |-> s, integrity |-> m, registryIntegrity |-> g, lockfile |-> l]
  BY <1>1, Zenon
<1> DEFINE a == [dep EXCEPT !.version = v]
<1>3. a = [index |-> i, version |-> v, source |-> s, integrity |-> m, registryIntegrity |-> g, lockfile |-> l]
  <2>1. \A d : d = [index |-> i, version |-> u, source |-> s, integrity |-> m, registryIntegrity |-> g, lockfile |-> l]
          => [d EXCEPT !.version = v] =
               [index |-> i, version |-> v, source |-> s, integrity |-> m, registryIntegrity |-> g, lockfile |-> l]
    OBVIOUS
  <2> QED
    BY <1>2, <2>1, Zenon
<1>4. WithHashes(dep, e, n) = [a EXCEPT !.integrity = n]
  BY <1>1, Zenon DEF WithHashes
<1> HIDE DEF a
<1>5. [a EXCEPT !.integrity = n] =
        [index |-> i, version |-> v, source |-> s, integrity |-> n, registryIntegrity |-> g, lockfile |-> l]
  BY <1>3
<1> QED
  BY <1>1, <1>4, <1>5, Zenon

\* A record the declaration is compatible with makes at least one of it, and all
\* of them as that record has it.
LEMMA ExpandedTo ==
  ASSUME NEW i \in DOMAIN environment.declared, WellDeclared(environment.declared[i]),
         environment.declared[i].form # "malformed",
         NEW r, IsList(r.files), r.version # "none", ExpansionError(AsDeclared(i), r) = "none"
  PROVE  /\ IsList(Expansion(AsDeclared(i), r)) /\ Expansion(AsDeclared(i), r) # <<>>
         /\ \A c \in Range(Expansion(AsDeclared(i), r)) : ExpandedAs(i, r, c)
<1> DEFINE dep == AsDeclared(i)
           d == environment.declared[i]
           artifacts == Artifacts(r)
<1>1. /\ dep.index = i /\ dep.source = d.source /\ DeclarationOf(dep) = d
      /\ dep = [index |-> i, version |-> dep.version, source |-> d.source,
                integrity |-> {}, registryIntegrity |-> FALSE, lockfile |-> "none"]
      /\ d.form = "github" => dep.version = d.source.of
  BY DEF AsDeclared, DeclarationOf
<1>2. /\ d.form \in {"registry", "url", "git", "github", "local"}
      /\ d.form \in {"registry", "local"} => d.source = NoSource
      /\ d.form \in {"url", "git", "github"} => d.source # NoSource
  BY DEF WellDeclared, DeclaredForms, NoSource
<1>v. /\ dep = [index |-> dep.index, version |-> dep.version, source |-> dep.source, integrity |-> dep.integrity,
               registryIntegrity |-> dep.registryIntegrity, lockfile |-> dep.lockfile]
      /\ dep.integrity = {} /\ dep.registryIntegrity = FALSE /\ dep.lockfile = "none"
  BY DEF AsDeclared
<1> HIDE DEF dep, d
<1>3. CASE d.form = "github"
  <2>1. Expansion(dep, r) = <<dep>>
    BY <1>1, <1>3 DEF Expansion
  <2>2. ExpandedAs(i, r, dep)
    BY <1>1, <1>3 DEF ExpandedAs, d
  <2> QED
    BY <2>1, <2>2, ListedOnce DEF dep
<1>4. DirectSource(dep) <=> (d.form \in {"url", "git", "github"} \/ (CurrentLock.kind = "uv" /\ d.form = "local"))
  BY <1>1, <1>2 DEF DirectSource
<1>u. ASSUME d.form # "github" PROVE ExpandedAs(i, r, Unverified(dep, r))
  <2>1. CASE DirectSource(dep)
    <3>1. Unverified(dep, r) = [index |-> i, version |-> "none", source |-> d.source, integrity |-> {},
                                registryIntegrity |-> FALSE, lockfile |-> "none"]
      BY <1>1, <1>v, <2>1 DEF Unverified
    <3>2. d.form # "registry"
      BY <1>4, <2>1
    <3> QED
      BY <1>u, <3>1, <3>2 DEF ExpandedAs, d
  <2>2. CASE ~DirectSource(dep)
    <3>1. Unverified(dep, r) = [index |-> i, version |-> r.version, source |-> d.source, integrity |-> {},
                                registryIntegrity |-> TRUE, lockfile |-> "none"]
      BY <1>1, <1>v, <2>2 DEF Unverified
    <3> QED
      BY <1>u, <3>1 DEF ExpandedAs, d
  <2> QED
    BY <2>1, <2>2
<1>5. CASE d.form # "github" /\ artifacts = <<>>
  <2>1. Expansion(dep, r) = <<Unverified(dep, r)>>
    BY <1>1, <1>5 DEF Expansion
  <2> QED
    BY <1>5, <1>u, <2>1, ListedOnce DEF dep
<1>6. ASSUME d.form # "github", artifacts # <<>>
      PROVE  /\ artifacts \in Seq({f \in Range(r.files) : f.valid})
             /\ \A j \in DOMAIN artifacts : \E k \in DOMAIN r.files : r.files[k].valid /\ r.files[k] = artifacts[j]
  <2>1. ASSUME CurrentLock.kind # "pipfile" PROVE \A j \in DOMAIN r.files : r.files[j].valid
    <3>1. artifacts = r.files
      BY <2>1 DEF Artifacts
    <3>2. ~\E j \in DOMAIN artifacts : ~artifacts[j].valid
      BY <1>1, <1>6, <2>1 DEF ExpansionError, dep
    <3> HIDE DEF artifacts
    <3> QED
      BY <3>1, <3>2
  <2> QED
    BY <2>1, ArtifactsOf
<1> HIDE DEF artifacts
<1>7. CASE d.form # "github" /\ artifacts # <<>> /\ DirectSource(dep)
  <2>1. CASE DirectHashes(dep, r) = {}
    <3>1. Expansion(dep, r) = <<Unverified(dep, r)>>
      BY <1>1, <1>7, <2>1 DEF Expansion, artifacts
    <3> QED
      BY <1>7, <1>u, <3>1, ListedOnce DEF dep
  <2>2. CASE DirectHashes(dep, r) # {}
    <3> DEFINE c == WithHashes(dep, r, DirectHashes(dep, r))
    <3>1. Expansion(dep, r) = <<c>>
      BY <1>1, <1>7, <2>2 DEF Expansion, artifacts
    <3>2. c = [index |-> i, version |-> r.version, source |-> d.source, integrity |-> DirectHashes(dep, r),
               registryIntegrity |-> FALSE, lockfile |-> "none"]
      BY <1>1, <1>v, WithHashesIs
    <3>3. \A x \in DirectHashes(dep, r) : \E k \in DOMAIN r.files :
            /\ r.files[k].valid /\ r.files[k].hash = x
            /\ CurrentLock.kind = "uv" => r.files[k].url = d.source.of
      <4> SUFFICES ASSUME NEW x \in DirectHashes(dep, r)
                   PROVE  \E k \in DOMAIN r.files :
                            /\ r.files[k].valid /\ r.files[k].hash = x
                            /\ CurrentLock.kind = "uv" => r.files[k].url = d.source.of
        OBVIOUS
      <4>1. PICK j \in DOMAIN artifacts : artifacts[j].hash = x /\ (CurrentLock.kind = "uv" => artifacts[j].url = d.source.of)
        BY <1>1 DEF DirectHashes, artifacts
      <4>2. PICK k \in DOMAIN r.files : r.files[k].valid /\ r.files[k] = artifacts[j]
        BY <1>6, <1>7
      <4> QED
        BY <4>1, <4>2
    <3>4. d.form # "registry"
      BY <1>4, <1>7
    <3> HIDE DEF c
    <3>5. ExpandedAs(i, r, c)
      BY <1>7, <2>2, <3>2, <3>3, <3>4 DEF ExpandedAs, d
    <3> QED
      BY <3>1, <3>5, ListedOnce DEF dep
  <2> QED
    BY <2>1, <2>2
<1>8. CASE d.form # "github" /\ artifacts # <<>> /\ ~DirectSource(dep)
  <2> DEFINE x == Expansion(dep, r)
  <2>1. x = [j \in DOMAIN artifacts |-> LockedArtifact(dep, r, artifacts[j])]
    <3>1. x = PinnedArtifacts(dep, r)
      BY <1>1, <1>8 DEF Expansion, artifacts
    <3> QED
      BY <3>1 DEF PinnedArtifacts, artifacts
  <2>2. DOMAIN artifacts = 1 .. Len(artifacts) /\ Len(artifacts) \in Nat /\ Len(artifacts) >= 1
    BY <1>6, <1>8
  <2> HIDE DEF x
  <2>3. x \in Seq({LockedArtifact(dep, r, artifacts[j]) : j \in DOMAIN artifacts}) /\ Len(x) = Len(artifacts)
    <3>1. \A S : (\A j \in 1 .. Len(artifacts) : x[j] \in S) => x \in Seq(S) /\ Len(x) = Len(artifacts)
      BY <2>1, <2>2, IsASeq
    <3> QED
      BY <2>1, <2>2, <3>1
  <2>4. IsList(x) /\ x # <<>>
    BY <2>2, <2>3, ListedIn
  <2>5. \A j \in DOMAIN artifacts : ExpandedAs(i, r, LockedArtifact(dep, r, artifacts[j]))
    <3> SUFFICES ASSUME NEW j \in DOMAIN artifacts PROVE ExpandedAs(i, r, LockedArtifact(dep, r, artifacts[j]))
      OBVIOUS
    <3> DEFINE c == LockedArtifact(dep, r, artifacts[j])
    <3>1. c = [index |-> i, version |-> r.version, source |-> c.source, integrity |-> {artifacts[j].hash},
               registryIntegrity |-> FALSE, lockfile |-> "none"]
      <4>0. PICK v2, s2, n2 : v2 = r.version /\ s2 = d.source /\ n2 = {artifacts[j].hash}
        OBVIOUS
      <4> DEFINE b == WithHashes(dep, r, n2)
                 s == IF CurrentLock.kind = "pipfile" \/ artifacts[j].url = "none" THEN b.source
                      ELSE [form |-> "url", of |-> artifacts[j].url]
      <4>1. b = [index |-> i, version |-> r.version, source |-> d.source, integrity |-> n2,
                 registryIntegrity |-> FALSE, lockfile |-> "none"]
        BY <1>1, <1>v, WithHashesIs
      <4>2. c = [b EXCEPT !.source = s]
        BY <4>0 DEF LockedArtifact
      <4> HIDE DEF b, s, c
      <4>4. b = [index |-> i, version |-> v2, source |-> s2, integrity |-> n2,
                 registryIntegrity |-> FALSE, lockfile |-> "none"]
        BY <4>0, <4>1
      <4>5. c = [index |-> i, version |-> v2, source |-> s, integrity |-> n2,
                 registryIntegrity |-> FALSE, lockfile |-> "none"]
        BY <4>2, <4>4
      <4>6. c.source = s
        BY <4>5
      <4> QED
        BY <4>0, <4>5, <4>6
    <3>2. PICK k \in DOMAIN r.files : r.files[k].valid /\ r.files[k] = artifacts[j]
      BY <1>6, <1>8
    <3>3. d.form \in {"registry", "local"}
      BY <1>2, <1>4, <1>8
    <3> HIDE DEF c
    <3>4. ExpandedAs(i, r, c)
      BY <3>1, <3>2, <3>3 DEF ExpandedAs, d
    <3> QED
      BY <3>4 DEF c
  <2>6. \A c \in Range(x) : ExpandedAs(i, r, c)
    BY <2>1, <2>5 DEF Range
  <2> QED
    BY <2>4, <2>6 DEF x, dep
<1> QED
  BY <1>3, <1>5, <1>7, <1>8

\* What a lockfile makes of a declaration it accepts: as it was declared, without
\* a version, or due to one record; a declaration it can bind it binds.
LEMMA MatchedIs ==
  ASSUME NEW i \in DOMAIN environment.declared, WellDeclared(environment.declared[i]),
         WellFormedLock(CurrentLock), MatchError(AsDeclared(i)) = "none"
  PROVE  /\ IsList(Matched(AsDeclared(i)))
         /\ \A c \in Range(Matched(AsDeclared(i))) :
              c.index = i /\ (c = AsDeclared(i) \/ c.version = "none" \/ DueToOne(c, CurrentLock))
         /\ Bindable(i, CurrentLock) =>
              \E c \in Range(Matched(AsDeclared(i))) : c.lockfile = CurrentLock.path /\ c.version # "none"
<1> DEFINE dep == AsDeclared(i)
           d == environment.declared[i]
<1>1. dep.index = i /\ dep.source = d.source /\ DeclarationOf(dep) = d
  BY DEF AsDeclared, DeclarationOf
<1>l. /\ CurrentLock.path # "none" /\ IsList(CurrentLock.packages)
      /\ \A e \in Range(CurrentLock.packages) : IsList(e.files)
  BY DEF WellFormedLock, IsList
<1> HIDE DEF dep
<1>2. CASE Named(dep) = {}
  <2>1. Matched(dep) = <<dep>>
    BY <1>2 DEF Matched
  <2>2. ~Bindable(i, CurrentLock)
    BY <1>1, <1>2, <1>l, NamedOnce DEF Bindable
  <2> QED
    BY <1>1, <2>1, <2>2, ListedOnce DEF dep
<1>3. CASE Named(dep) # {}
  <2>1. /\ d.form # "malformed" /\ Cardinality(CompatibleRecords(dep)) = 1
        /\ ExpansionError(dep, RecordFor(dep)) = "none"
    BY <1>1, <1>3 DEF MatchError, dep
  <2>2. PICK k : CompatibleRecords(dep) = {k}
    <3>1. Named(dep) \subseteq 1 .. Len(CurrentLock.packages) /\ Len(CurrentLock.packages) \in Nat
      BY <1>l DEF Named, IsList
    <3>2. IsFiniteSet(1 .. Len(CurrentLock.packages))
      BY <3>1, FS_Interval
    <3>3. IsFiniteSet(CompatibleRecords(dep))
      BY <3>1, <3>2, FS_Subset DEF CompatibleRecords
    <3> QED
      BY <2>1, <3>3, FS_Singleton
  <2> DEFINE r == CurrentLock.packages[k]
             x == Expansion(dep, r)
  <2>3. RecordFor(dep) = r
    <3>1. (CHOOSE l \in CompatibleRecords(dep) : TRUE) = k
      BY <2>2
    <3> QED
      BY <3>1 DEF RecordFor
  <2>4. /\ k \in Named(dep) /\ r \in Range(CurrentLock.packages) /\ r.name = d.name /\ r.version # "none"
        /\ LockVersionCompatible(dep, r) /\ SourceCompatible(dep, r)
    <3>1. k \in Named(dep) /\ LockVersionCompatible(dep, r) /\ SourceCompatible(dep, r)
      BY <2>2 DEF CompatibleRecords
    <3>2. k \in DOMAIN CurrentLock.packages /\ r.name = d.name
      BY <1>1, <3>1 DEF Named
    <3> QED
      BY <3>1, <3>2 DEF Range, LockVersionCompatible
  <2>5. IsList(x) /\ x # <<>> /\ \A c \in Range(x) : ExpandedAs(i, r, c)
    BY <1>l, <2>1, <2>3, <2>4, ExpandedTo DEF dep
  <2>6. \A c : c.index = i => \A e \in Range(CurrentLock.packages) : DueTo(c, CurrentLock, e) => e = r
    BY <1>l, <2>1, <2>2, DueToMatches DEF dep
  <2> HIDE DEF r, x
  <2> DEFINE At(c) == [c EXCEPT !.lockfile = CurrentLock.path]
  <2>7. Matched(dep) = [j \in DOMAIN x |-> At(x[j])]
    BY <1>3, <2>3 DEF Matched, x
  <2>8. ASSUME NEW c, ExpandedAs(i, r, c)
        PROVE  /\ At(c).index = i /\ At(c).lockfile = CurrentLock.path /\ At(c).version = c.version
               /\ c.version # "none" => DueToOne(At(c), CurrentLock)
    <3> DEFINE b == At(c)
    <3>1. c = [index |-> c.index, version |-> c.version, source |-> c.source, integrity |-> c.integrity,
               registryIntegrity |-> c.registryIntegrity, lockfile |-> c.lockfile]
      BY <2>8 DEF ExpandedAs
    <3>2. /\ b.index = i /\ b.lockfile = CurrentLock.path /\ b.version = c.version /\ b.source = c.source
          /\ b.integrity = c.integrity /\ b.registryIntegrity = c.registryIntegrity
      <4>1. c.index = i
        BY <2>8 DEF ExpandedAs
      <4> QED
        BY <3>1, <4>1
    <3> HIDE DEF b
    <3>3. DeclarationOf(b) = d
      BY <3>2 DEF DeclarationOf
    <3>4. ASSUME c.version # "none" PROVE DueToOne(b, CurrentLock)
      <4>1. /\ d.form = "github" => c.version = d.source.of
            /\ d.form \in {"url", "git"} => c.source = d.source
            /\ d.form # "github" =>
                 /\ c.version = r.version
                 /\ \A h \in c.integrity : \E j \in DOMAIN r.files :
                      /\ r.files[j].valid /\ r.files[j].hash = h
                      /\ CurrentLock.kind = "uv" /\ d.form = "url" => r.files[j].url = c.source.of
                 /\ c.integrity = {} <=> c.registryIntegrity
        BY <2>8, <3>4 DEF ExpandedAs
      <4>2. /\ d.form \in {"url", "git", "github"} => d.source # NoSource
            /\ d.form \in {"registry", "local"} => d.source = NoSource
        BY DEF WellDeclared, NoSource
      <4>3. d.form = "github" /\ CurrentLock.kind # "pipfile" => r.source \in {NoSource, d.source}
        BY <1>1, <2>4, <4>2 DEF SourceCompatible
      <4>4. d.form = "registry" => r.version \in d.accepts
        BY <1>1, <2>4, <4>2 DEF LockVersionCompatible
      <4>5. d.form \in {"url", "git"} => r.source = d.source
        BY <1>1, <2>4, <4>2 DEF SourceCompatible
      <4>6. d.form # "github" => b.integrity \subseteq {r.files[j].hash : j \in {l \in DOMAIN r.files : r.files[l].valid}}
        BY <3>2, <4>1
      <4>7. DueTo(b, CurrentLock, r)
        BY <2>4, <3>2, <3>3, <4>1, <4>3, <4>4, <4>5, <4>6 DEF DueTo
      <4>8. DeclarationOf(b).form = "url" => b.integrity \subseteq DirectDigests(CurrentLock, r, b.source.of)
        BY <3>2, <3>3, <4>1 DEF DirectDigests
      <4> QED
        BY <2>4, <2>6, <3>2, <4>7, <4>8 DEF DueToOne
    <3> QED
      BY <3>2, <3>4 DEF b
  <2> DEFINE m == Matched(dep)
  <2>9. Len(x) \in Nat /\ Len(x) >= 1 /\ DOMAIN x = 1 .. Len(x) /\ \A j \in 1 .. Len(x) : x[j] \in Range(x)
    BY <2>5 DEF IsList, Range
  <2> HIDE DEF At
  <2>10. \A c : c \in Range(m) <=> \E j \in DOMAIN x : c = At(x[j])
    BY <2>7 DEF Range
  <2>11. IsList(m)
    <3>1. \A S : (\A j \in 1 .. Len(x) : m[j] \in S) => m \in Seq(S)
      BY <2>7, <2>9, IsASeq
    <3>2. \A j \in 1 .. Len(x) : m[j] \in Range(m)
      BY <2>7, <2>9, <2>10
    <3> QED
      BY <3>1, <3>2 DEF IsList
  <2> HIDE DEF m
  <2>12. \A c \in Range(m) : c.index = i /\ (c.version = "none" \/ DueToOne(c, CurrentLock))
    BY <2>5, <2>8, <2>9, <2>10
  <2>13. ASSUME Bindable(i, CurrentLock)
         PROVE  \E c \in Range(m) : c.lockfile = CurrentLock.path /\ c.version # "none"
    <3>1. 1 \in DOMAIN x /\ x[1] \in Range(x)
      BY <2>9
    <3>2. ExpandedAs(i, r, x[1])
      BY <2>5, <3>1
    <3>3. x[1].version # "none"
      BY <2>4, <2>13, <3>2 DEF ExpandedAs, Bindable
    <3> QED
      BY <2>8, <2>10, <3>1, <3>2, <3>3
  <2> QED
    BY <2>11, <2>12, <2>13 DEF m, dep
<1> QED
  BY <1>2, <1>3 DEF dep

-----------------------------------------------------------------------------
\* The alternatives of a declaration are each due to a record of one of the lockfiles.
Alternative(i, c) == c.index = i /\ \E lock \in Range(Applied) : DueToOne(c, lock)

AlternativesHold ==
  /\ alternatives = [i \in DOMAIN environment.declared |-> alternatives[i]]
  /\ \A i \in DOMAIN environment.declared :
       IsList(alternatives[i]) /\ \A c \in Range(alternatives[i]) : Alternative(i, c)

\* A lockfile has bound what it can bind.
Served(lock) ==
  \A i \in DOMAIN environment.declared :
    Bindable(i, lock) => \E c \in Range(alternatives[i]) : c.lockfile = lock.path

\* Every lockfile has been applied or will be.
QueueHolds ==
  outcome \in {"open", "match"} =>
    /\ IsList(lockQueue) /\ Range(lockQueue) \subseteq Range(Applied)
    /\ \A lock \in Range(Applied) : lock \in Range(lockQueue) \/ Served(lock)

\* Every declaration has been matched with the lockfile or will be.
MatchedSoFar(c) ==
  /\ c.index \in DOMAIN environment.declared
  /\ c = AsDeclared(c.index) \/ c.version = "none" \/ DueToOne(c, CurrentLock)

BoundNow(i) ==
  Bindable(i, CurrentLock) =>
    \E c \in Range(enriched) : c.index = i /\ c.lockfile = CurrentLock.path /\ c.version # "none"

MatchHolds ==
  outcome = "match" =>
    /\ lockQueue # <<>> /\ IsList(unmatched) /\ IsList(enriched)
    /\ \A x \in Range(unmatched) : x.index \in DOMAIN environment.declared /\ x = AsDeclared(x.index)
    /\ \A c \in Range(enriched) : MatchedSoFar(c)
    /\ \A i \in DOMAIN environment.declared : AsDeclared(i) \in Range(unmatched) \/ BoundNow(i)

FindHolds ==
  outcome = "find" => \A i \in DOMAIN environment.declared : alternatives[i] = <<>>

LimitHolds == outcome \in {"find", "open", "match"} => MergedLen(alternatives) <= MaxDeclared

PythonInv ==
  /\ environment \in Environments
  /\ AlternativesHold /\ QueueHolds /\ MatchHolds /\ FindHolds /\ LimitHolds
  /\ PythonBoundAsRecorded

\* What an environment holds.
LEMMA EnvironmentParts ==
  ASSUME environment \in Environments
  PROVE  /\ IsList(environment.declared) /\ Len(environment.declared) <= MaxDeclared /\ MaxDeclared \in Nat
         /\ Len(environment.declared) \in Nat /\ DOMAIN environment.declared = 1 .. Len(environment.declared)
         /\ \A i \in DOMAIN environment.declared : WellDeclared(environment.declared[i])
         /\ IsList(Applied) /\ IsList(environment.own) /\ IsList(environment.inherited)
         /\ \A lock \in Range(Applied) : WellFormedLock(lock)
<1> DEFINE v == environment
<1>1. /\ MaxDeclared \in Nat /\ v.declared \in Seq(Range(v.declared)) /\ Len(v.declared) <= MaxDeclared
      /\ \A d \in Range(v.declared) : WellDeclared(d)
      /\ v.own \in Seq(Range(v.own)) /\ v.inherited \in Seq(Range(v.inherited))
      /\ \A lock \in Range(v.own) \cup Range(v.inherited) : WellFormedLock(lock)
  BY EnvironmentsAssumption
<1>2. Len(v.declared) \in Nat /\ DOMAIN v.declared = 1 .. Len(v.declared)
  BY <1>1
<1>3. \A i \in DOMAIN v.declared : WellDeclared(v.declared[i])
  BY <1>1 DEF Range
<1>4. IsList(Applied) /\ \A lock \in Range(Applied) : WellFormedLock(lock)
  BY <1>1 DEF Applied, IsList
<1> QED
  BY <1>1, <1>2, <1>3, <1>4 DEF IsList

\* What is kept holds every declaration, as it was declared where no alternative
\* stands for it.
LEMMA KeptTogether ==
  ASSUME environment \in Environments, AlternativesHold
  PROVE  LET all == FlattenSeq(KeptAlternatives(alternatives))
         IN  /\ IsList(all)
             /\ \A c \in Range(all) : /\ c.index \in DOMAIN environment.declared
                                      /\ c = AsDeclared(c.index) \/ Alternative(c.index, c)
             /\ \A i \in DOMAIN environment.declared :
                  /\ \E c \in Range(all) : c.index = i
                  /\ Range(alternatives[i]) \subseteq Range(all)
             /\ (\A i \in DOMAIN environment.declared : alternatives[i] = <<>>)
                  => Len(all) = Len(environment.declared)
<1> DEFINE keeps == KeptAlternatives(alternatives)
           D == DOMAIN environment.declared
           n == Len(environment.declared)
           all == FlattenSeq(keeps)
<1>1. n \in Nat /\ D = 1 .. n
  BY EnvironmentParts
<1>2. alternatives = [i \in D |-> alternatives[i]]
      /\ \A i \in D : IsList(alternatives[i]) /\ \A c \in Range(alternatives[i]) : Alternative(i, c)
  BY DEF AlternativesHold
<1>3. keeps = [i \in D |-> IF alternatives[i] = <<>> THEN <<AsDeclared(i)>> ELSE alternatives[i]]
  <2>1. DOMAIN alternatives = D
    BY <1>2
  <2> QED
    BY <2>1 DEF KeptAlternatives
<1> HIDE DEF keeps, D, n
<1>4. \A i \in D : /\ IsList(keeps[i])
                   /\ \A c \in Range(keeps[i]) : c = AsDeclared(i) \/ Alternative(i, c)
                   /\ \E c \in Range(keeps[i]) : c.index = i
                   /\ Range(alternatives[i]) \subseteq Range(keeps[i])
                   /\ alternatives[i] = <<>> => Len(keeps[i]) = 1
  <2> SUFFICES ASSUME NEW i \in D
               PROVE  /\ IsList(keeps[i])
                      /\ \A c \in Range(keeps[i]) : c = AsDeclared(i) \/ Alternative(i, c)
                      /\ \E c \in Range(keeps[i]) : c.index = i
                      /\ Range(alternatives[i]) \subseteq Range(keeps[i])
                      /\ alternatives[i] = <<>> => Len(keeps[i]) = 1
    OBVIOUS
  <2>1. CASE alternatives[i] = <<>>
    <3>1. keeps[i] = <<AsDeclared(i)>>
      BY <1>3, <2>1
    <3>2. Range(alternatives[i]) = {}
      BY <2>1 DEF Range
    <3>3. AsDeclared(i).index = i
      BY DEF AsDeclared
    <3> QED
      BY <3>1, <3>2, <3>3, ListedOnce
  <2>2. CASE alternatives[i] # <<>>
    <3>1. keeps[i] = alternatives[i]
      BY <1>3, <2>2
    <3>2. IsList(alternatives[i]) /\ \A c \in Range(alternatives[i]) : Alternative(i, c)
      BY <1>2
    <3>3. Head(alternatives[i]) \in Range(alternatives[i])
      BY <2>2, <3>2, ListSplit
    <3> QED
      BY <2>2, <3>1, <3>2, <3>3 DEF Alternative
  <2> QED
    BY <2>1, <2>2
<1>5. Len(keeps) = n /\ IsList(keeps)
  <2>1. ASSUME NEW S, \A i \in 1 .. n : keeps[i] \in S
        PROVE  keeps \in Seq(S) /\ Len(keeps) = n
    <3>1. keeps = [i \in 1 .. n |-> keeps[i]]
      BY <1>1, <1>3
    <3> QED
      BY <1>1, <2>1, <3>1, IsASeq
  <2>2. \A i \in 1 .. n : keeps[i] \in Range(keeps)
    BY <1>1, <1>3 DEF Range
  <2> QED
    BY <2>1, <2>2 DEF IsList
<1>6. /\ IsList(all) /\ \A x : x \in Range(all) <=> \E i \in 1 .. n : x \in Range(keeps[i])
      /\ (\A i \in 1 .. n : Len(keeps[i]) = 1) => Len(all) = n
  <2>1. \A i \in 1 .. Len(keeps) : IsList(keeps[i])
    BY <1>1, <1>4, <1>5
  <2>2. /\ IsList(all) /\ \A x : x \in Range(all) <=> \E i \in 1 .. Len(keeps) : x \in Range(keeps[i])
        /\ (\A i \in 1 .. Len(keeps) : Len(keeps[i]) = 1) => Len(all) = Len(keeps)
    BY <1>5, <2>1, FlattenedTogether
  <2> QED
    BY <1>5, <2>2
<1> HIDE DEF all
<1>7. \A c \in Range(all) : c.index \in D /\ (c = AsDeclared(c.index) \/ Alternative(c.index, c))
  <2> SUFFICES ASSUME NEW c \in Range(all) PROVE c.index \in D /\ (c = AsDeclared(c.index) \/ Alternative(c.index, c))
    OBVIOUS
  <2>1. PICK i \in D : c \in Range(keeps[i])
    BY <1>1, <1>6
  <2>2. c = AsDeclared(i) \/ Alternative(i, c)
    BY <1>4, <2>1
  <2>3. c.index = i
    BY <2>2 DEF AsDeclared, Alternative
  <2> QED
    BY <2>2, <2>3
<1>8. \A i \in D : (\E c \in Range(all) : c.index = i) /\ Range(alternatives[i]) \subseteq Range(all)
  BY <1>1, <1>4, <1>6
<1>9. (\A i \in D : alternatives[i] = <<>>) => Len(all) = n
  BY <1>1, <1>4, <1>6
<1> QED
  BY <1>6, <1>7, <1>8, <1>9 DEF all, keeps, D, n

\* What only depends on the environment stays.
LEMMA SameEnvironment ==
  ASSUME environment' = environment
  PROVE  /\ Applied' = Applied
         /\ \A i : AsDeclared(i)' = AsDeclared(i)
         /\ \A c, lock : DueToOne(c, lock)' <=> DueToOne(c, lock)
         /\ \A i, c : Alternative(i, c)' <=> Alternative(i, c)
         /\ \A i, lock : Bindable(i, lock)' <=> Bindable(i, lock)
<1>1. Applied' = Applied
  BY DEF Applied
<1>2. \A i : AsDeclared(i)' = AsDeclared(i)
  BY DEF AsDeclared
<1>3. \A c, lock : DueToOne(c, lock)' <=> DueToOne(c, lock)
  <2>1. \A c : DeclarationOf(c)' = DeclarationOf(c)
    BY DEF DeclarationOf
  <2>2. \A c, lock, e : DueTo(c, lock, e)' <=> DueTo(c, lock, e)
    BY <2>1 DEF DueTo
  <2> QED
    BY <2>1, <2>2, Zenon DEF DueToOne
<1>4. \A i, c : Alternative(i, c)' <=> Alternative(i, c)
  BY <1>1, <1>3, Zenon DEF Alternative
<1>5. \A i, lock : Bindable(i, lock)' <=> Bindable(i, lock)
  BY Zenon DEF Bindable
<1> QED
  BY <1>1, <1>2, <1>3, <1>4, <1>5

\* Where the alternatives stay, what is said of them does.
LEMMA SameAlternatives ==
  ASSUME environment' = environment, alternatives' = alternatives
  PROVE  /\ AlternativesHold => AlternativesHold'
         /\ MergedLen(alternatives)' = MergedLen(alternatives)
         /\ \A lock : Served(lock) => Served(lock)'
<1>1. AlternativesHold => AlternativesHold'
  BY SameEnvironment, Zenon DEF AlternativesHold
<1>2. KeptAlternatives(alternatives)' = KeptAlternatives(alternatives)
  BY SameEnvironment DEF KeptAlternatives
<1>3. MergedLen(alternatives)' = MergedLen(alternatives)
  BY <1>2 DEF MergedLen
<1>4. \A lock : Served(lock) => Served(lock)'
  BY SameEnvironment DEF Served
<1> QED
  BY <1>1, <1>3, <1>4

\* Before a lockfile is looked for, nothing is bound.
LEMMA PythonStarts == PythonInit => PythonInv
<1> SUFFICES ASSUME PythonInit PROVE PythonInv
  OBVIOUS
<1>1. /\ environment \in Environments /\ outcome = "find"
      /\ alternatives = [i \in DOMAIN environment.declared |-> <<>>]
  BY DEF PythonInit
<1>2. \A i \in DOMAIN environment.declared : alternatives[i] = <<>>
  BY <1>1
<1>3. IsList(<<>>) /\ Range(<<>>) = {}
  BY DEF IsList, Range
<1>4. AlternativesHold
  BY <1>1, <1>2, <1>3 DEF AlternativesHold
<1>5. MergedLen(alternatives) <= MaxDeclared
  <2>1. Len(FlattenSeq(KeptAlternatives(alternatives))) = Len(environment.declared)
    BY <1>1, <1>2, <1>4, KeptTogether
  <2> QED
    BY <1>1, <2>1, EnvironmentParts DEF MergedLen
<1>6. PythonBoundAsRecorded
  BY <1>1 DEF PythonBoundAsRecorded
<1> QED
  BY <1>1, <1>2, <1>4, <1>5, <1>6 DEF PythonInv, QueueHolds, MatchHolds, FindHolds, LimitHolds

\* A failure keeps the declarations.
LEMMA FailureStep ==
  ASSUME PythonInv, NEW error \in {"manifest", "limit"}, EnrichmentFails(error)
  PROVE  PythonInv'
<1>1. /\ outcome' = error /\ enriched' = AllDeclared
      /\ environment' = environment /\ alternatives' = alternatives
  BY DEF EnrichmentFails
<1>2. environment' \in Environments /\ AlternativesHold'
  BY <1>1, SameAlternatives DEF PythonInv
<1>3. AllDeclared' = AllDeclared
  BY <1>1, SameEnvironment DEF AllDeclared
<1>4. PythonBoundAsRecorded'
  BY <1>1, <1>3 DEF PythonBoundAsRecorded
<1> QED
  BY <1>1, <1>2, <1>4 DEF PythonInv, QueueHolds, MatchHolds, FindHolds, LimitHolds

\* The lockfiles that apply are all still to be applied.
LEMMA FindStep ==
  ASSUME PythonInv, FindLockfile
  PROVE  PythonInv'
<1>1. /\ outcome = "find" /\ outcome' = "open" /\ lockQueue' = Applied
      /\ environment' = environment /\ alternatives' = alternatives
  BY DEF FindLockfile, Applied
<1>2. environment \in Environments /\ MergedLen(alternatives) <= MaxDeclared /\ AlternativesHold
  BY <1>1 DEF PythonInv, LimitHolds
<1>3. QueueHolds'
  <2>1. IsList(Applied)
    BY <1>2, EnvironmentParts
  <2>2. Applied' = Applied
    BY <1>1, SameEnvironment
  <2> QED
    BY <1>1, <2>1, <2>2 DEF QueueHolds, IsList
<1>4. AlternativesHold' /\ MergedLen(alternatives)' <= MaxDeclared
  BY <1>1, <1>2, SameAlternatives
<1>5. PythonBoundAsRecorded'
  BY <1>1 DEF PythonBoundAsRecorded
<1> QED
  BY <1>1, <1>2, <1>3, <1>4, <1>5 DEF PythonInv, MatchHolds, FindHolds, LimitHolds

\* With every lockfile the declarations are matched anew.
LEMMA OpenStep ==
  ASSUME PythonInv, OpenLockfile
  PROVE  PythonInv'
<1>1. /\ outcome = "open" /\ outcome' = "match" /\ lockQueue # <<>> /\ lockQueue' = lockQueue
      /\ unmatched' = AllDeclared /\ enriched' = <<>>
      /\ environment' = environment /\ alternatives' = alternatives
  BY DEF OpenLockfile, Start
<1>2. /\ environment \in Environments /\ MergedLen(alternatives) <= MaxDeclared /\ AlternativesHold
      /\ QueueHolds
  BY <1>1 DEF PythonInv, LimitHolds
<1>3. QueueHolds'
  BY <1>1, <1>2, SameEnvironment, SameAlternatives DEF QueueHolds
<1>4. AlternativesHold' /\ MergedLen(alternatives)' <= MaxDeclared
  BY <1>1, <1>2, SameAlternatives
<1>5. MatchHolds'
  <2> DEFINE D == DOMAIN environment.declared
             n == Len(environment.declared)
  <2>1. n \in Nat /\ D = 1 .. n
    BY <1>2, EnvironmentParts
  <2>2. \A i \in D : AsDeclared(i).index = i
    BY DEF AsDeclared
  <2>3. AllDeclared = [i \in D |-> AsDeclared(i)]
    BY DEF AllDeclared
  <2> HIDE DEF D, n
  <2>4. IsList(AllDeclared)
    <3>1. \A S : (\A j \in 1 .. n : AllDeclared[j] \in S) => AllDeclared \in Seq(S)
      BY <2>1, <2>3, IsASeq
    <3>2. \A j \in 1 .. n : AllDeclared[j] \in Range(AllDeclared)
      BY <2>1, <2>3 DEF Range
    <3> QED
      BY <3>1, <3>2 DEF IsList
  <2>5. \A x : x \in Range(AllDeclared) <=> \E i \in D : x = AsDeclared(i)
    BY <2>3 DEF Range
  <2>6. \A i : AsDeclared(i)' = AsDeclared(i)
    BY <1>1, SameEnvironment
  <2>7. IsList(<<>>) /\ Range(<<>>) = {}
    BY DEF IsList, Range
  <2>8. D = DOMAIN environment'.declared
    BY <1>1 DEF D
  <2>9. IsList(unmatched)' /\ IsList(enriched)' /\ Range(enriched)' = {}
    BY <1>1, <2>4, <2>7 DEF IsList
  <2>10. \A x \in Range(unmatched') : x.index \in D /\ x = AsDeclared(x.index)
    BY <1>1, <2>2, <2>5
  <2>11. \A i \in D : AsDeclared(i) \in Range(unmatched')
    BY <1>1, <2>5
  <2> QED
    BY <1>1, <2>6, <2>8, <2>9, <2>10, <2>11 DEF MatchHolds
<1>6. PythonBoundAsRecorded'
  BY <1>1 DEF PythonBoundAsRecorded
<1> QED
  BY <1>1, <1>2, <1>3, <1>4, <1>5, <1>6 DEF PythonInv, FindHolds, LimitHolds

\* One declaration more is bound as the lockfile can.
LEMMA EnrichOneStep ==
  ASSUME PythonInv, EnrichOne
  PROVE  PythonInv'
<1> DEFINE dep == Head(unmatched)
           D == DOMAIN environment.declared
<1>1. /\ outcome = "match" /\ outcome' = "match" /\ unmatched # <<>> /\ MatchError(dep) = "none"
      /\ enriched' = WithMatched(dep) /\ unmatched' = Tail(unmatched) /\ lockQueue' = lockQueue
      /\ environment' = environment /\ alternatives' = alternatives
  BY DEF EnrichOne
<1>2. /\ environment \in Environments /\ MergedLen(alternatives) <= MaxDeclared /\ AlternativesHold
      /\ QueueHolds /\ MatchHolds
  BY <1>1 DEF PythonInv, LimitHolds
<1>3. QueueHolds'
  BY <1>1, <1>2, SameEnvironment, SameAlternatives DEF QueueHolds
<1>4. AlternativesHold' /\ MergedLen(alternatives)' <= MaxDeclared
  BY <1>1, <1>2, SameAlternatives
<1>5. /\ lockQueue # <<>> /\ IsList(unmatched) /\ IsList(enriched)
      /\ \A x \in Range(unmatched) : x.index \in D /\ x = AsDeclared(x.index)
      /\ \A c \in Range(enriched) : MatchedSoFar(c)
      /\ \A i \in D : AsDeclared(i) \in Range(unmatched) \/ BoundNow(i)
  BY <1>1, <1>2 DEF MatchHolds
<1>6. IsList(Tail(unmatched)) /\ Range(unmatched) = {dep} \cup Range(Tail(unmatched))
  BY <1>1, <1>5, ListSplit
<1> HIDE DEF dep
<1>7. PICK i \in D : dep = AsDeclared(i)
  BY <1>5, <1>6
<1>8. WellFormedLock(CurrentLock) /\ WellDeclared(environment.declared[i])
  <2>1. IsList(lockQueue) /\ Range(lockQueue) \subseteq Range(Applied)
    BY <1>1, <1>2 DEF QueueHolds
  <2>2. CurrentLock \in Range(lockQueue)
    BY <1>5, <2>1, ListSplit DEF CurrentLock
  <2> QED
    BY <1>2, <2>1, <2>2, EnvironmentParts
<1>9. /\ IsList(Matched(dep))
      /\ \A c \in Range(Matched(dep)) :
           c.index = i /\ (c = AsDeclared(i) \/ c.version = "none" \/ DueToOne(c, CurrentLock))
      /\ Bindable(i, CurrentLock) =>
           \E c \in Range(Matched(dep)) : c.lockfile = CurrentLock.path /\ c.version # "none"
  BY <1>1, <1>7, <1>8, MatchedIs
<1>10. IsList(enriched') /\ Range(enriched') = Range(enriched) \cup Range(Matched(dep))
  <2>1. CASE CurrentLock.kind = "pipfile"
    BY <1>1, <1>5, <1>9, <2>1, ListedTogether DEF WithMatched
  <2>2. CASE CurrentLock.kind # "pipfile"
    BY <1>1, <1>5, <1>9, <2>2, ExtendedBy DEF WithMatched
  <2> QED
    BY <2>1, <2>2
<1>11. \A c \in Range(enriched') : MatchedSoFar(c)
  BY <1>5, <1>9, <1>10 DEF MatchedSoFar
<1>12. \A k \in D : AsDeclared(k) \in Range(Tail(unmatched)) \/
                      (Bindable(k, CurrentLock) =>
                         \E c \in Range(enriched') : c.index = k /\ c.lockfile = CurrentLock.path /\ c.version # "none")
  <2> SUFFICES ASSUME NEW k \in D, AsDeclared(k) \notin Range(Tail(unmatched)), Bindable(k, CurrentLock)
               PROVE  \E c \in Range(enriched') : c.index = k /\ c.lockfile = CurrentLock.path /\ c.version # "none"
    OBVIOUS
  <2>1. CASE AsDeclared(k) \in Range(unmatched)
    <3>1. AsDeclared(k) = AsDeclared(i)
      BY <1>6, <1>7, <2>1
    <3>2. k = i
      BY <3>1 DEF AsDeclared
    <3> QED
      BY <1>9, <1>10, <3>2
  <2>2. CASE BoundNow(k)
    BY <1>10, <2>2 DEF BoundNow
  <2> QED
    BY <1>5, <2>1, <2>2
<1>13. CurrentLock' = CurrentLock /\ \A c : MatchedSoFar(c)' <=> MatchedSoFar(c)
  BY <1>1, SameEnvironment DEF CurrentLock, MatchedSoFar
<1>14. MatchHolds'
  <2>1. \A x \in Range(unmatched') : x.index \in DOMAIN environment'.declared /\ x = AsDeclared(x.index)'
    BY <1>1, <1>5, <1>6, SameEnvironment
  <2>2. \A k \in DOMAIN environment'.declared : AsDeclared(k)' \in Range(unmatched') \/ BoundNow(k)'
    BY <1>1, <1>12, <1>13, SameEnvironment DEF BoundNow
  <2> QED
    BY <1>1, <1>5, <1>6, <1>10, <1>11, <1>13, <2>1, <2>2 DEF MatchHolds, IsList
<1>15. PythonBoundAsRecorded'
  BY <1>1 DEF PythonBoundAsRecorded
<1> QED
  BY <1>1, <1>2, <1>3, <1>4, <1>14, <1>15 DEF PythonInv, FindHolds, LimitHolds

\* What the lockfile made of the declarations joins their alternatives, and it
\* has bound all that it can.
LEMMA MergeStep ==
  ASSUME PythonInv, MergeLockfile
  PROVE  PythonInv'
<1> DEFINE D == DOMAIN environment.declared
           merged == Merge(alternatives)
<1>1. /\ outcome = "match" /\ outcome' = "open" /\ unmatched = <<>> /\ MergedLen(merged) <= MaxDeclared
      /\ alternatives' = merged /\ lockQueue' = Tail(lockQueue) /\ environment' = environment
  BY DEF MergeLockfile
<1>2. environment \in Environments /\ AlternativesHold /\ QueueHolds /\ MatchHolds
  BY DEF PythonInv
<1>3. /\ IsList(lockQueue) /\ Range(lockQueue) \subseteq Range(Applied)
      /\ \A lock \in Range(Applied) : lock \in Range(lockQueue) \/ Served(lock)
  BY <1>1, <1>2 DEF QueueHolds
<1>4. /\ lockQueue # <<>> /\ IsList(enriched)
      /\ \A c \in Range(enriched) : MatchedSoFar(c)
      /\ \A i \in D : BoundNow(i)
  <2>1. Range(unmatched) = {}
    BY <1>1 DEF Range
  <2> QED
    BY <1>1, <1>2, <2>1 DEF MatchHolds
<1>5. IsList(Tail(lockQueue)) /\ Range(lockQueue) = {CurrentLock} \cup Range(Tail(lockQueue))
  BY <1>3, <1>4, ListSplit DEF CurrentLock
<1>6. CurrentLock \in Range(Applied) /\ CurrentLock.path # "none"
  <2>1. CurrentLock \in Range(Applied)
    BY <1>3, <1>5
  <2> QED
    BY <1>2, <2>1, EnvironmentParts DEF WellFormedLock
<1>7. alternatives = [i \in D |-> alternatives[i]]
      /\ \A i \in D : IsList(alternatives[i]) /\ \A c \in Range(alternatives[i]) : Alternative(i, c)
  BY <1>2 DEF AlternativesHold
<1>8. \A c \in Range(enriched) : c.index \in D
  BY <1>4 DEF MatchedSoFar
<1> HIDE DEF D
<1>9. /\ merged = [i \in D |-> merged[i]]
      /\ \A i \in D : IsList(merged[i]) /\ Range(merged[i]) = Range(alternatives[i]) \cup Chosen(i)
  BY <1>4, <1>7, <1>8, MergedInto
<1> HIDE DEF merged
<1>10. \A i \in D : \A c \in Chosen(i) : Alternative(i, c)
  BY <1>4, <1>6 DEF Chosen, MatchedSoFar, Alternative
<1>11. AlternativesHold'
  <2>1. \A i \in D : \A c \in Range(merged[i]) : Alternative(i, c)'
    BY <1>1, <1>7, <1>9, <1>10, SameEnvironment
  <2>2. \A i \in D : IsList(alternatives[i])'
    BY <1>1, <1>9 DEF IsList
  <2> QED
    BY <1>1, <1>9, <2>1, <2>2 DEF AlternativesHold, D
<1>12. ASSUME NEW lock \in Range(Applied), lock = CurrentLock \/ Served(lock)
       PROVE  Served(lock)'
  <2>1. \A i \in D : Bindable(i, lock) => \E c \in Range(merged[i]) : c.lockfile = lock.path
    <3> SUFFICES ASSUME NEW i \in D, Bindable(i, lock) PROVE \E c \in Range(merged[i]) : c.lockfile = lock.path
      OBVIOUS
    <3>1. CASE Served(lock)
      <4>1. \E c \in Range(alternatives[i]) : c.lockfile = lock.path
        BY <3>1 DEF Served, D
      <4>2. Range(alternatives[i]) \subseteq Range(merged[i])
        BY <1>9
      <4> QED
        BY <4>1, <4>2
    <3>2. CASE lock = CurrentLock
      <4>1. PICK c \in Range(enriched) : c.index = i /\ c.lockfile = CurrentLock.path /\ c.version # "none"
        BY <1>4, <3>2 DEF BoundNow
      <4>2. c # AsDeclared(c.index)
        BY <1>6, <4>1 DEF AsDeclared
      <4>3. c \in Chosen(i)
        BY <4>1, <4>2 DEF Chosen
      <4> QED
        BY <1>9, <3>2, <4>1, <4>3
    <3> QED
      BY <1>12, <3>1, <3>2
  <2> QED
    BY <1>1, <2>1, SameEnvironment DEF Served, D
<1>13. QueueHolds'
  <2>1. Applied' = Applied
    BY <1>1, SameEnvironment
  <2>2. \A lock \in Range(Applied) : lock \in Range(Tail(lockQueue)) \/ Served(lock)'
    BY <1>3, <1>5, <1>12
  <2>3. Range(Tail(lockQueue)) \subseteq Range(Applied)
    BY <1>3, <1>5
  <2> QED
    BY <1>1, <1>5, <2>1, <2>2, <2>3 DEF QueueHolds, IsList
<1>14. MergedLen(alternatives)' <= MaxDeclared
  <2>1. KeptAlternatives(alternatives)' = KeptAlternatives(merged)
    BY <1>1, SameEnvironment DEF KeptAlternatives
  <2> QED
    BY <1>1, <2>1 DEF MergedLen
<1>15. PythonBoundAsRecorded'
  BY <1>1 DEF PythonBoundAsRecorded
<1> QED
  BY <1>1, <1>2, <1>11, <1>13, <1>14, <1>15 DEF PythonInv, MatchHolds, FindHolds, LimitHolds

\* When all have been applied, what is kept is bound as they record.
LEMMA DoneStep ==
  ASSUME PythonInv, EnrichmentDone
  PROVE  PythonInv'
<1> DEFINE D == DOMAIN environment.declared
           all == FlattenSeq(KeptAlternatives(alternatives))
<1>1. /\ outcome = "open" /\ outcome' = "done" /\ lockQueue = <<>> /\ enriched' = all
      /\ environment' = environment /\ alternatives' = alternatives
  BY DEF EnrichmentDone
<1>2. environment \in Environments /\ AlternativesHold /\ QueueHolds /\ Len(all) <= MaxDeclared
  BY <1>1 DEF PythonInv, LimitHolds, MergedLen
<1>3. \A lock \in Range(Applied) : Served(lock)
  <2>1. Range(lockQueue) = {}
    BY <1>1 DEF Range
  <2> QED
    BY <1>1, <1>2, <2>1 DEF QueueHolds
<1>4. /\ IsList(all)
      /\ \A c \in Range(all) : c.index \in D /\ (c = AsDeclared(c.index) \/ Alternative(c.index, c))
      /\ \A i \in D : (\E c \in Range(all) : c.index = i) /\ Range(alternatives[i]) \subseteq Range(all)
  BY <1>2, KeptTogether
<1>5. \A i \in D : \A c \in Range(alternatives[i]) : c.index = i
  BY <1>2 DEF AlternativesHold, Alternative
<1> HIDE DEF all
<1>6. {all[j].index : j \in DOMAIN all} = D
  BY <1>4 DEF Range
<1>7. \A c \in Range(all) : c = AsDeclared(c.index) \/ \E lock \in Range(Applied) : DueToOne(c, lock)
  BY <1>4 DEF Alternative
<1>8. \A lock \in Range(Applied) : \A i \in D :
        Bindable(i, lock) => \E c \in Range(all) : c.index = i /\ c.lockfile = lock.path
  BY <1>3, <1>4, <1>5 DEF Served
<1>9. /\ {enriched[j].index : j \in DOMAIN enriched}' = D
      /\ \A c \in Range(enriched') : c = AsDeclared(c.index)' \/ \E lock \in Range(Applied') : DueToOne(c, lock)'
      /\ \A lock \in Range(Applied') : \A i \in D :
           Bindable(i, lock)' => \E c \in Range(enriched') : c.index = i /\ c.lockfile = lock.path
  <2>1. {enriched[j].index : j \in DOMAIN enriched}' = D
    BY <1>1, <1>6
  <2> QED
    BY <1>1, <1>7, <1>8, <2>1, SameEnvironment
<1>10. PythonBoundAsRecorded'
  <2>1. outcome' \notin {"manifest", "limit"} /\ Len(enriched') <= MaxDeclared /\ D = DOMAIN environment'.declared
    BY <1>1, <1>2
  <2> HIDE DEF D
  <2> QED
    BY <1>9, <2>1, Zenon DEF PythonBoundAsRecorded, DueToOne, Bindable
<1>11. AlternativesHold'
  BY <1>1, <1>2, SameAlternatives
<1> QED
  BY <1>1, <1>2, <1>10, <1>11 DEF PythonInv, QueueHolds, MatchHolds, FindHolds, LimitHolds

\* A declaration, or lockfile, that is refused is refused with an error.
LEMMA MatchErrors == \A dep : MatchError(dep) \in {"none", "manifest", "limit"}
BY DEF MatchError, ExpansionError

\* Every step keeps the invariant.
LEMMA PythonStep == PythonInv /\ [PythonNext]_pythonVars => PythonInv'
<1> SUFFICES ASSUME PythonInv, [PythonNext]_pythonVars PROVE PythonInv'
  OBVIOUS
<1>1. CASE AmbiguousLockfiles
  BY <1>1, FailureStep DEF AmbiguousLockfiles
<1>2. CASE FindLockfile
  BY <1>2, FindStep
<1>3. CASE OpenLockfile
  BY <1>3, OpenStep
<1>4. CASE RefuseLockfile
  BY <1>4, FailureStep DEF RefuseLockfile
<1>5. CASE EnrichOne
  BY <1>5, EnrichOneStep
<1>6. CASE RefuseOne
  <2>1. MatchError(Head(unmatched)) \in {"manifest", "limit"}
    BY <1>6, MatchErrors DEF RefuseOne
  <2> QED
    BY <1>6, <2>1, FailureStep DEF RefuseOne
<1>7. CASE MergeLockfile
  BY <1>7, MergeStep
<1>8. CASE TooManyAlternatives
  BY <1>8, FailureStep DEF TooManyAlternatives
<1>9. CASE EnrichmentDone
  BY <1>9, DoneStep
<1>10. CASE UNCHANGED pythonVars
  <2>1. /\ environment' = environment /\ lockQueue' = lockQueue /\ unmatched' = unmatched
        /\ enriched' = enriched /\ alternatives' = alternatives /\ outcome' = outcome
    BY <1>10 DEF pythonVars
  <2>2. AlternativesHold' /\ MergedLen(alternatives)' = MergedLen(alternatives)
    BY <2>1, SameAlternatives DEF PythonInv
  <2>3. QueueHolds'
    BY <2>1, SameEnvironment, SameAlternatives DEF PythonInv, QueueHolds
  <2>4. MatchHolds'
    <3>1. CurrentLock' = CurrentLock
      BY <2>1 DEF CurrentLock
    <3>2. /\ \A c : MatchedSoFar(c)' <=> MatchedSoFar(c)
          /\ \A i : BoundNow(i)' <=> BoundNow(i)
      BY <2>1, <3>1, SameEnvironment DEF MatchedSoFar, BoundNow
    <3> QED
      BY <2>1, <3>2, SameEnvironment DEF PythonInv, MatchHolds
  <2>5. PythonBoundAsRecorded'
    <3>1. AllDeclared' = AllDeclared
      BY <2>1, SameEnvironment DEF AllDeclared
    <3>2. /\ \A c : DeclarationOf(c)' = DeclarationOf(c)
          /\ \A c, lock, e : DueTo(c, lock, e)' <=> DueTo(c, lock, e)
      <4>1. \A c : DeclarationOf(c)' = DeclarationOf(c)
        BY <2>1 DEF DeclarationOf
      <4> QED
        BY <4>1 DEF DueTo
    <3> QED
      BY <2>1, <3>1, <3>2, SameEnvironment, Zenon DEF PythonInv, PythonBoundAsRecorded
  <2> QED
    BY <2>1, <2>2, <2>3, <2>4, <2>5 DEF PythonInv, FindHolds, LimitHolds
<1> QED
  BY <1>1, <1>2, <1>3, <1>4, <1>5, <1>6, <1>7, <1>8, <1>9, <1>10 DEF PythonNext

\* Whatever lockfiles apply, each dependency is a declaration as it was written
\* or what exactly one record of one of them makes of it, and none is lost that a
\* lockfile can bind (python/lockfiles/mod.rs:86, discovery/python.rs:66).
THEOREM PythonBinds == PythonSpec => []PythonBoundAsRecorded
<1>1. PythonInv => PythonBoundAsRecorded
  BY DEF PythonInv
<1> QED
  BY <1>1, PythonStarts, PythonStep, PTL DEF PythonSpec

-----------------------------------------------------------------------------
(* What declared npm dependencies are bound to.                                *)

\* A place below another one begins as that does and goes on with the names
\* given.
LEMMA PlaceBelow ==
  ASSUME NEW S, NEW place \in Seq(S), NEW n \in 0 .. Len(place), NEW rest \in Seq(S),
         NEW q, q = SubSeq(place, 1, n) \o rest
  PROVE  /\ Len(q) = n + Len(rest)
         /\ SubSeq(q, 1, n) = SubSeq(place, 1, n)
         /\ \A i \in 1 .. n : q[i] = place[i]
         /\ \A i \in 1 .. Len(rest) : q[n + i] = rest[i]
<1> DEFINE p == SubSeq(place, 1, n)
<1>1. p \in Seq(S) /\ Len(p) = n /\ \A i \in 1 .. n : p[i] = place[i]
  <2>1. n \in Nat /\ n <= Len(place) /\ Len(place) \in Nat
    BY LenProperties
  <2> QED
    BY <2>1, SubSeqProperties
<1> HIDE DEF p
<1>2. q \in Seq(S) /\ Len(q) = n + Len(rest)
  BY <1>1, ConcatProperties DEF p
<1>3. \A i \in 1 .. n : q[i] = place[i]
  BY <1>1, ConcatProperties, LenProperties DEF p
<1>4. \A i \in 1 .. Len(rest) : q[n + i] = rest[i]
  <2> TAKE i \in 1 .. Len(rest)
  <2>1. n + i > n /\ n + i \in 1 .. n + Len(rest) /\ n + i - n = i
    BY LenProperties
  <2> QED
    BY <1>1, <2>1, ConcatProperties DEF p
<1>5. SubSeq(q, 1, n) = p
  <2>1. n <= Len(q) /\ n \in Nat /\ Len(q) \in Nat
    BY <1>2, LenProperties
  <2>2. SubSeq(q, 1, n) \in Seq(S) /\ Len(SubSeq(q, 1, n)) = n /\ \A i \in 1 .. n : SubSeq(q, 1, n)[i] = q[i]
    BY <1>2, <2>1, SubSeqProperties
  <2> QED
    BY <1>1, <1>3, <2>2, SeqEqual
<1> QED
  BY <1>2, <1>3, <1>4, <1>5 DEF p

\* Places stay places when more names are admitted.
LEMMA PlacesWiden ==
  ASSUME NEW S, NEW T, S \subseteq T, NEW p \in Seq(S)
  PROVE  p \in Seq(T)
<1>1. p \in [1 .. Len(p) -> S] /\ Len(p) \in Nat
  BY LenProperties
<1> QED
  BY <1>1, SeqDef

\* Cutting a place at the last node_modules, again and again, passes the
\* directories a runtime looks into, but for those that lie between.
LEMMA LooksWhereLoaded ==
  ASSUME NEW place \in DOMAIN Lock.packages, NEW name, InstalledTree(DOMAIN Lock.packages)
  PROVE  LET p == ResolvePackagePath(place, name)
         IN  /\ p # Nowhere => p \in DOMAIN Lock.packages /\ p # <<>> /\ p[Len(p)] = name
             /\ ~PassedOver(place, name) => p = Loaded(place, name, DOMAIN Lock.packages, <<"nm">>)
<1> DEFINE rest == <<"nm", name>>
           spot(n) == SubSeq(place, 1, n) \o rest
           places == DOMAIN Lock.packages
           tried == {n \in Outwards(place) : spot(n) \in places}
           there == {n \in 0 .. Len(place) : (n = 0 \/ place[n] # "nm") /\ spot(n) \in places}
           S == STRING \cup {name, "nm"}
<1>1. place \in Seq(STRING) /\ place \in Seq(S) /\ Len(place) \in Nat
  <2>1. place \in Seq(STRING)
    BY DEF InstalledTree
  <2> QED
    BY <2>1, PlacesWiden, LenProperties
<1>2. rest \in Seq(S) /\ Len(rest) = 2 /\ rest[1] = "nm" /\ rest[2] = name
  <2>1. "nm" \in S /\ name \in S
    OBVIOUS
  <2> HIDE DEF S
  <2> QED
    BY <2>1
<1>3. <<"nm">> \o <<name>> = rest
  <2>1. <<"nm">> \in Seq(S) /\ <<name>> \in Seq(S) /\ Len(<<"nm">>) = 1 /\ Len(<<name>>) = 1
    <3>1. "nm" \in S /\ name \in S
      OBVIOUS
    <3> HIDE DEF S
    <3> QED
      BY <3>1
  <2> HIDE DEF S
  <2>2. (<<"nm">> \o <<name>>) \in Seq(S) /\ Len(<<"nm">> \o <<name>>) = 2
    BY <2>1, ConcatProperties
  <2>3. (<<"nm">> \o <<name>>)[1] = "nm" /\ (<<"nm">> \o <<name>>)[2] = name
    BY <2>1, ConcatProperties
  <2>4. \A i \in 1 .. 2 : (<<"nm">> \o <<name>>)[i] = rest[i]
    BY <2>3
  <2> QED
    BY <1>2, <2>2, <2>4, SeqEqual
<1>4. ASSUME NEW n \in 0 .. Len(place)
      PROVE  Len(spot(n)) = n + 2 /\ (n # 0 => spot(n)[n] = place[n]) /\ spot(n)[n + 1] = "nm" /\ spot(n)[n + 2] = name
  <2> HIDE DEF S
  <2>1. rest \in Seq(S) /\ n \in Nat
    BY <1>1, <1>2
  <2> HIDE DEF rest
  <2>2. /\ Len(spot(n)) = n + Len(rest)
        /\ \A i \in 1 .. n : spot(n)[i] = place[i]
        /\ \A i \in 1 .. Len(rest) : spot(n)[n + i] = rest[i]
    BY <1>1, <2>1, PlaceBelow
  <2>3. n \in 0 .. n /\ (n # 0 => n \in 1 .. n) /\ 1 \in 1 .. Len(rest) /\ 2 \in 1 .. Len(rest)
    BY <1>2, <2>1
  <2> QED
    BY <1>2, <2>2, <2>3
<1>5. tried \subseteq there
  <2> SUFFICES ASSUME NEW n \in tried, n # 0 PROVE n \in there
    BY <1>1 DEF Outwards
  <2>1. n \in 0 .. Len(place) /\ n \in Nat /\ spot(n) \in places
    BY <1>1 DEF Outwards
  <2> HIDE DEF spot, places
  <2>2. n + 1 \in 2 .. Len(spot(n)) /\ (n + 1) - 1 = n
    BY <1>4, <2>1
  <2>3. spot(n)[n + 1] = "nm" => spot(n)[n] # "nm"
    BY <2>1, <2>2 DEF InstalledTree, places
  <2> QED
    BY <1>4, <2>1, <2>3
<1>6. ResolvePackagePath(place, name) = IF tried = {} THEN Nowhere ELSE spot(Max(tried))
  BY Zenon DEF ResolvePackagePath, InNodeModules
<1>7. Loaded(place, name, places, <<"nm">>) = IF there = {} THEN Nowhere ELSE spot(Max(there))
  BY <1>3, Zenon DEF Loaded
<1>8. IsFiniteSet(there) /\ IsFiniteSet(tried) /\ there \subseteq 0 .. Len(place)
  <2>1. IsFiniteSet(0 .. Len(place)) /\ there \subseteq 0 .. Len(place)
    BY <1>1, FS_Interval
  <2> HIDE DEF tried, there
  <2> QED
    BY <1>5, <2>1, FS_Subset
<1>9. /\ \A n \in tried : spot(n) \in places
      /\ there # {} /\ ~PassedOver(place, name) => Max(there) \in tried
  <2>1. ASSUME there # {}, ~PassedOver(place, name) PROVE Max(there) \in tried
    <3> DEFINE n == Max(there)
    <3>1. n \in there
      <4> HIDE DEF there
      <4> QED
        BY <1>1, <1>8, <2>1, LargestNumber
    <3>2. n \in 0 .. Len(place) /\ spot(n) \in places
      BY <3>1
    <3>3. Len(spot(n)) = n + 2 /\ Len(Nowhere) = 1
      BY <1>4, <3>2 DEF Nowhere
    <3> HIDE DEF n, there, spot, places
    <3>4. Loaded(place, name, places, <<"nm">>) = spot(n)
      BY <1>7, <2>1 DEF n
    <3>6. spot(n) # Nowhere /\ Len(spot(n)) - 2 = n
      <4>1. n \in Nat
        BY <1>1, <3>2
      <4>2. n + 2 # 1 /\ (n + 2) - 2 = n
        BY <4>1
      <4> QED
        BY <3>3, <4>2, Zenon
    <3>7. PassedOver(place, name) <=> spot(n) # Nowhere /\ Len(spot(n)) - 2 \notin Outwards(place)
      BY <3>4 DEF PassedOver, places
    <3> HIDE DEF rest
    <3>5. n \in Outwards(place)
      BY <2>1, <3>6, <3>7
    <3> QED
      BY <3>2, <3>5 DEF n
  <2> QED
    BY <2>1
<1>10. \A n \in tried : n \in 0 .. Len(place)
  BY <1>5
<1> HIDE DEF tried, there, spot
<1>11. tried # {} => Max(tried) \in tried /\ \A n \in tried : n <= Max(tried)
  BY <1>1, <1>5, <1>8, LargestNumber
<1>12. there # {} => \A n \in there : n <= Max(there)
  BY <1>1, <1>8, LargestNumber
<1>13. ASSUME ~PassedOver(place, name)
       PROVE  ResolvePackagePath(place, name) = Loaded(place, name, places, <<"nm">>)
  <2>1. CASE there = {}
    BY <1>5, <1>6, <1>7, <2>1
  <2>2. CASE there # {}
    <3>2. Max(there) \in tried
      BY <1>9, <1>13, <2>2
    <3>3. Max(there) <= Max(tried) /\ Max(tried) \in there
      BY <1>5, <1>11, <3>2
    <3>4. Max(tried) <= Max(there) /\ Max(there) \in Nat /\ Max(tried) \in Nat
      BY <1>1, <1>8, <1>10, <1>11, <1>12, <2>2, <3>2, <3>3
    <3>1. Max(tried) = Max(there)
      BY <3>3, <3>4
    <3> QED
      BY <1>6, <1>7, <1>9, <1>13, <2>2, <3>1
  <2> QED
    BY <2>1, <2>2
<1>14. ASSUME tried # {}
       PROVE  LET q == spot(Max(tried)) IN q \in places /\ q # <<>> /\ q[Len(q)] = name
  <2>1. Len(spot(Max(tried))) = Max(tried) + 2 /\ spot(Max(tried))[Max(tried) + 2] = name /\ Max(tried) + 2 > 0
    BY <1>4, <1>10, <1>11, <1>14
  <2> QED
    BY <1>9, <1>11, <1>14, <2>1
<1> QED
  BY <1>6, <1>13, <1>14

\* So does the look from a package of a lockfile of version 1.
LEMMA LegacyWhereLoaded ==
  ASSUME NEW place \in Seq(STRING), NEW name, NestedTree(DOMAIN Lock.legacy)
  PROVE  LegacyPackage(place, name) = Loaded(place, name, DOMAIN Lock.legacy, <<>>)
<1> DEFINE spot(n) == SubSeq(place, 1, n) \o <<name>>
           places == DOMAIN Lock.legacy
           tried == {n \in 0 .. Len(place) : spot(n) \in places}
           there == {n \in 0 .. Len(place) : (n = 0 \/ place[n] # "nm") /\ spot(n) \in places}
           S == STRING \cup {name}
<1>1. place \in Seq(S) /\ Len(place) \in Nat
  BY PlacesWiden, LenProperties
<1>2. <<>> \o <<name>> = <<name>> /\ <<name>> \in Seq(S) /\ Len(<<name>>) = 1
  <2>1. name \in S
    OBVIOUS
  <2> HIDE DEF S
  <2> QED
    BY <2>1
<1>3. ASSUME NEW n \in 1 .. Len(place), spot(n) \in places
      PROVE  place[n] # "nm"
  <2>1. n \in 0 .. Len(place) /\ n \in Nat
    BY <1>1
  <2>2. spot(n)[n] = place[n] /\ Len(spot(n)) = n + 1
    <3> HIDE DEF S
    <3>1. Len(spot(n)) = n + 1 /\ \A i \in 1 .. n : spot(n)[i] = place[i]
      BY <1>1, <1>2, <2>1, PlaceBelow
    <3> QED
      BY <2>1, <3>1
  <2>3. spot(n) \in Seq(STRING) /\ \A i \in DOMAIN spot(n) : spot(n)[i] # "nm"
    BY <1>3 DEF NestedTree
  <2> HIDE DEF spot
  <2>4. n \in DOMAIN spot(n)
    BY <2>1, <2>2, <2>3, LenProperties
  <2> QED
    BY <2>2, <2>3, <2>4
<1>4. tried = there
  <2> HIDE DEF spot, places
  <2>1. \A n \in 0 .. Len(place) : n = 0 \/ n \in 1 .. Len(place)
    BY <1>1
  <2> QED
    BY <1>3, <2>1
<1>5. LegacyPackage(place, name) = IF tried = {} THEN Nowhere ELSE spot(Max(tried))
  BY Zenon DEF LegacyPackage, Enclosed
<1>6. Loaded(place, name, places, <<>>) = IF there = {} THEN Nowhere ELSE spot(Max(there))
  BY <1>2, Zenon DEF Loaded
<1> HIDE DEF tried, there, spot
<1> QED
  BY <1>4, <1>5, <1>6

\* What is loaded is in the table.
LEMMA LoadedThere ==
  ASSUME NEW place \in Seq(STRING), NEW name, NEW places, NEW below
  PROVE  Loaded(place, name, places, below) \in places \cup {Nowhere}
<1> DEFINE spot(n) == SubSeq(place, 1, n) \o (below \o <<name>>)
           there == {n \in 0 .. Len(place) : (n = 0 \/ place[n] # "nm") /\ spot(n) \in places}
<1>1. IsFiniteSet(there) /\ there \subseteq 0 .. Len(place)
  <2>1. IsFiniteSet(0 .. Len(place))
    BY FS_Interval, LenProperties
  <2>2. there \subseteq 0 .. Len(place)
    OBVIOUS
  <2> HIDE DEF there
  <2> QED
    BY <2>1, <2>2, FS_Subset
<1>2. there # {} => Max(there) \in there
  <2>1. there \subseteq Nat
    BY <1>1, LenProperties
  <2> HIDE DEF there
  <2> QED
    BY <1>1, <2>1, LargestNumber
<1>3. \A n \in there : spot(n) \in places
  OBVIOUS
<1>4. Loaded(place, name, places, below) = IF there = {} THEN Nowhere ELSE spot(Max(there))
  BY Zenon DEF Loaded
<1> HIDE DEF there, spot
<1> QED
  BY <1>2, <1>3, <1>4

\* How a package-lock.json decides about a declaration, by what it repeats of
\* the manifest and what it has where the package is looked for.
LEMMA InstalledDecision ==
  ASSUME NEW place, NEW name, NEW r, NEW p, p = ResolvePackagePath(place, name),
         NEW d, d = BindInstalled(place, name, r)
  PROVE  IF \/ place \notin DOMAIN Lock.packages \/ name \notin DOMAIN Lock.packages[place].declares
            \/ Lock.packages[place].declares[name] # r \/ p = Nowhere
         THEN d = Unbound
         ELSE IF Lock.packages[p].link # Nowhere
         THEN \E version, of : d = Bound("local", Lock.packages[p].link, version, of)
         ELSE IF ~AliasIdentityMatches(r, Lock.packages[p]) THEN d = Unbound
         ELSE IF ~LockedVersionCompatible(r, Lock.packages[p]) THEN d.how = "error"
         ELSE d = BindEntry(r, p, Lock.packages[p])
<1> DEFINE knows == /\ place \in DOMAIN Lock.packages /\ name \in DOMAIN Lock.packages[place].declares
                    /\ Lock.packages[place].declares[name] = r
           linked == ResolveLinked(p)
<1>1. ~knows => d = Unbound
  BY Zenon DEF BindInstalled
<1>3. knows /\ p = Nowhere => d = Unbound
  BY Zenon DEF BindInstalled
<1>4. knows /\ p # Nowhere =>
        d = IF ~linked.local /\ ~AliasIdentityMatches(r, linked.entry) THEN Unbound
            ELSE IF ~linked.local /\ ~LockedVersionCompatible(r, linked.entry)
            THEN [Unbound EXCEPT !.how = "error"]
            ELSE IF linked.local
            THEN Bound("local", linked.place, linked.entry.version, Artifact(linked.entry))
            ELSE BindEntry(r, linked.place, linked.entry)
  BY Zenon DEF BindInstalled
<1>5. [Unbound EXCEPT !.how = "error"].how = "error"
  BY DEF Unbound
<1>6. CASE knows /\ p # Nowhere /\ Lock.packages[p].link # Nowhere
  <2>1. linked.local /\ linked.place = Lock.packages[p].link
    BY <1>6 DEF ResolveLinked
  <2> HIDE DEF linked
  <2>2. d = Bound("local", linked.place, linked.entry.version, Artifact(linked.entry))
    BY <1>4, <1>6, <2>1
  <2> QED
    BY <1>6, <2>1, <2>2
<1>7. CASE knows /\ p # Nowhere /\ Lock.packages[p].link = Nowhere
  <2>1. ~linked.local /\ linked.place = p /\ linked.entry = Lock.packages[p]
    BY <1>7 DEF ResolveLinked
  <2> HIDE DEF linked
  <2> QED
    BY <1>4, <1>5, <1>7, <2>1
<1> HIDE DEF linked
<1> QED
  BY <1>1, <1>3, <1>6, <1>7

\* An entry that fits a declaration is bound by version, or by the commit declared.
LEMMA EntryDecision ==
  ASSUME NEW r, NEW place, NEW entry, NEW d, d = BindEntry(r, place, entry)
  PROVE  /\ d = Unbound \/ d.place = place
         /\ d # Unbound => /\ d.how \in {"commit", "locked"} /\ (d.how = "commit" => r.form = "github")
                           /\ r.form = "github" => d.how = "commit" /\ d.of = r.target
                           /\ d.how = "locked" => d.version = entry.version /\ d.of = Artifact(entry)
         /\ GithubArchiveMatches(r, entry.resolved) /\ (entry.resolved.form = "file" => IsLocal(r)) =>
              d # Unbound /\ d.how # "error"
BY DEF BindEntry, GithubArchiveMatches, Unbound, Bound

\* What is decided by package-lock.json fits and is what is loaded, or passed over.
LEMMA InstalledFits ==
  ASSUME NEW place, NEW name, NEW r, Lock.kind = "package-lock", InstalledTree(DOMAIN Lock.packages),
         \A q \in DOMAIN Lock.packages : Lock.packages[q].link \in Seq(STRING),
         NEW d, d = BindInstalled(place, name, r)
  PROVE  /\ d # Unbound /\ d.how # "error" =>
              LeadsWhereLoaded(place, name, d) /\ FitsDeclared(place, name, r, d) /\ d.place \in Seq(STRING)
         /\ InstalledAsDeclared(place, name, r) => d # Unbound /\ d.how # "error"
<1> DEFINE p == ResolvePackagePath(place, name)
           e == Lock.packages[p]
           loaded == Loaded(place, name, DOMAIN Lock.packages, <<"nm">>)
<1>1. IF \/ place \notin DOMAIN Lock.packages \/ name \notin DOMAIN Lock.packages[place].declares
         \/ Lock.packages[place].declares[name] # r \/ p = Nowhere
      THEN d = Unbound
      ELSE IF e.link # Nowhere THEN \E version, of : d = Bound("local", e.link, version, of)
      ELSE IF ~AliasIdentityMatches(r, e) THEN d = Unbound
      ELSE IF ~LockedVersionCompatible(r, e) THEN d.how = "error"
      ELSE d = BindEntry(r, p, e)
  BY InstalledDecision
<1>a. place \in DOMAIN Lock.packages =>
        /\ p # Nowhere => p \in DOMAIN Lock.packages /\ p # <<>> /\ p[Len(p)] = name
        /\ ~PassedOver(place, name) => p = loaded
  BY LooksWhereLoaded
<1>b. Expected(place, name) = IF loaded # Nowhere /\ Lock.packages[loaded].link # Nowhere
                              THEN Lock.packages[loaded].link ELSE loaded
  BY DEF Expected
<1>3. InstalledAsDeclared(place, name, r) =>
        /\ place \in DOMAIN Lock.packages /\ name \in DOMAIN Lock.packages[place].declares
        /\ Lock.packages[place].declares[name] = r /\ loaded # Nowhere /\ ~PassedOver(place, name)
        /\ Lock.packages[loaded].link = Nowhere =>
             /\ AliasIdentityMatches(r, Lock.packages[loaded]) /\ LockedVersionCompatible(r, Lock.packages[loaded])
             /\ GithubArchiveMatches(r, Lock.packages[loaded].resolved)
             /\ Lock.packages[loaded].resolved.form = "file" => IsLocal(r)
  BY Zenon DEF InstalledAsDeclared
<1> HIDE DEF p, loaded
<1>c. p \in DOMAIN Lock.packages => p \in Seq(STRING) /\ e.link \in Seq(STRING)
  BY DEF InstalledTree
<1>2. place \in DOMAIN Lock.packages /\ p # Nowhere /\ d.place = (IF e.link # Nowhere THEN e.link ELSE p)
        => LeadsWhereLoaded(place, name, d)
  BY <1>a, <1>b DEF LeadsWhereLoaded
<1> HIDE DEF e
<1>4. ASSUME NEW version, NEW of, d = Bound("local", e.link, version, of)
      PROVE  d.how = "local" /\ d.place = e.link /\ d # Unbound
  BY <1>4 DEF Bound, Unbound
<1>5. ASSUME d = BindEntry(r, p, e), AliasIdentityMatches(r, e), LockedVersionCompatible(r, e),
             d # Unbound
      PROVE  d.place = p /\ FitsDeclared(place, name, r, d)
  <2>1. /\ d.place = p /\ d.how \in {"commit", "locked"} /\ (d.how = "commit" => r.form = "github")
        /\ r.form = "github" => d.how = "commit" /\ d.of = r.target
        /\ d.how = "locked" => d.version = e.version /\ d.of = Artifact(e)
    BY <1>5, EntryDecision
  <2>2. IsRange(r) => e.version \in r.accepts
    BY <1>5 DEF IsRange, LockedVersionCompatible, IsLocal
  <2>3. r.form = "alias" => BaseName[Artifact(e)] = BaseName[r.target]
    BY <1>5 DEF AliasIdentityMatches, Artifact
  <2> QED
    BY <2>1, <2>2, <2>3 DEF FitsDeclared
<1>6. ASSUME NEW version, NEW of, d = Bound("local", e.link, version, of), place \in DOMAIN Lock.packages, p # Nowhere
      PROVE  FitsDeclared(place, name, r, d)
  BY <1>4, <1>6, <1>a DEF FitsDeclared, e
<1>7. d = BindEntry(r, p, e) /\ GithubArchiveMatches(r, e.resolved) /\ (e.resolved.form = "file" => IsLocal(r)) =>
        d # Unbound /\ d.how # "error"
  BY EntryDecision
<1>8. ASSUME InstalledAsDeclared(place, name, r) PROVE d # Unbound /\ d.how # "error"
  <2>1. p = loaded /\ e = Lock.packages[loaded]
    BY <1>3, <1>8, <1>a DEF e
  <2> QED
    BY <1>1, <1>3, <1>4, <1>7, <1>8, <2>1
<1>9. ASSUME d # Unbound, d.how # "error"
      PROVE  LeadsWhereLoaded(place, name, d) /\ FitsDeclared(place, name, r, d) /\ d.place \in Seq(STRING)
  <2>1. place \in DOMAIN Lock.packages /\ p # Nowhere
    BY <1>1, <1>9
  <2>2. CASE e.link # Nowhere
    BY <1>1, <1>2, <1>4, <1>6, <1>9, <1>a, <1>c, <2>1, <2>2
  <2>3. CASE e.link = Nowhere
    <3>1. d = BindEntry(r, p, e) /\ AliasIdentityMatches(r, e) /\ LockedVersionCompatible(r, e)
      BY <1>1, <1>9, <2>3
    <3> QED
      BY <1>2, <1>5, <1>9, <1>a, <1>c, <2>1, <2>3, <3>1
  <2> QED
    BY <2>2, <2>3
<1> QED
  BY <1>8, <1>9

\* What a lockfile of version 1 decides.
LEMMA LegacyFits ==
  ASSUME NEW place \in Seq(STRING), NEW name, NEW r, Lock.kind = "legacy", NestedTree(DOMAIN Lock.legacy),
         NEW d, d = BindLegacy(place, name, r)
  PROVE  /\ d # Unbound /\ d.how # "error" =>
              LeadsWhereLoaded(place, name, d) /\ d.place \in Seq(STRING) /\ FitsDeclared(place, name, r, d)
         /\ NestedAsDeclared(place, name, r) => d # Unbound
         /\ d.how # "error"
<1> DEFINE p == Loaded(place, name, DOMAIN Lock.legacy, <<>>)
           e == Lock.legacy[p]
<1>1. d = IF p = Nowhere \/ ~LegacyRequirementMatches(place, name, r, e) THEN Unbound ELSE BindEntry(r, p, e)
  <2>1. LegacyPackage(place, name) = p
    BY LegacyWhereLoaded
  <2> QED
    BY <2>1, Zenon DEF BindLegacy
<1>2. Expected(place, name) = p
  BY DEF Expected
<1>3. p = Nowhere \/ p \in Seq(STRING)
  <2>1. p \in DOMAIN Lock.legacy \cup {Nowhere}
    BY LoadedThere
  <2> QED
    BY <2>1 DEF NestedTree
<1>4. NestedAsDeclared(place, name, r) =>
        /\ p # Nowhere /\ LegacyRequirementMatches(place, name, r, e)
        /\ GithubArchiveMatches(r, e.resolved) /\ (e.resolved.form = "file" => IsLocal(r))
  BY Zenon DEF NestedAsDeclared
<1> HIDE DEF p, e
<1>5. ASSUME d = BindEntry(r, p, e)
      PROVE  /\ d = Unbound \/ d.place = p
             /\ d # Unbound => /\ d.how \in {"commit", "locked"} /\ (d.how = "commit" => r.form = "github")
                               /\ r.form = "github" => d.how = "commit" /\ d.of = r.target
             /\ GithubArchiveMatches(r, e.resolved) /\ (e.resolved.form = "file" => IsLocal(r)) => d # Unbound
  BY <1>5, EntryDecision
<1>6. Unbound.how = "unbound"
  BY DEF Unbound
<1>7. /\ d.how \in {"commit", "locked"} /\ (d.how = "commit" => r.form = "github")
      /\ r.form = "github" => d.how = "commit" /\ d.of = r.target
      => FitsDeclared(place, name, r, d)
  BY DEF FitsDeclared
<1>8. d.place = p => LeadsWhereLoaded(place, name, d)
  BY <1>2 DEF LeadsWhereLoaded
<1> QED
  BY <1>1, <1>3, <1>4, <1>5, <1>6, <1>7, <1>8

\* An entry of yarn.lock that is compatible binds what is declared or nothing.
LEMMA YarnEntryFits ==
  ASSUME NEW place, NEW name, NEW r, NEW npm \in BOOLEAN, NEW entry \in EntriesOf(place, name, r),
         Lock.kind = "yarn", YarnCompatible(r, name, entry, npm),
         NEW d, d = BindYarnEntry(name, r, entry)
  PROVE  /\ d # Unbound => d.place = Nowhere /\ FitsDeclared(place, name, r, d)
         /\ entry.resolved.form = "file" \/ (VersionCompatible(r, entry.version) /\ GithubArchiveMatches(r, entry.resolved)) =>
              d # Unbound
         /\ d.how # "error"
<1>1. CASE entry.resolved.form = "file"
  BY <1>1 DEF BindYarnEntry, Bound, Unbound, FitsDeclared, RecordedAs
<1>2. CASE entry.resolved.form # "file" /\ ~(VersionCompatible(r, entry.version) /\ GithubArchiveMatches(r, entry.resolved))
  <2>1. d = Unbound /\ Unbound.how # "error"
    BY <1>2 DEF BindYarnEntry, Unbound
  <2> QED
    BY <1>2, <2>1
<1>3. CASE entry.resolved.form # "file" /\ VersionCompatible(r, entry.version) /\ GithubArchiveMatches(r, entry.resolved)
  <2>1. CASE entry.resolved.form = "github"
    BY <1>3, <2>1 DEF BindYarnEntry, Bound, Unbound, FitsDeclared, GithubArchiveMatches, RecordedAs, VersionCompatible
  <2>2. CASE entry.resolved.form # "github"
    <3>1. d = Bound("locked", Nowhere, entry.version, entry.resolution.of)
      BY <1>3, <2>2 DEF BindYarnEntry
    <3>2. d.how = "locked" /\ d.place = Nowhere /\ d.version = entry.version /\ d.of = entry.resolution.of /\ d # Unbound
      BY <3>1 DEF Bound, Unbound
    <3>3. r.form # "github" /\ (IsRange(r) => entry.version \in r.accepts)
      BY <1>3, <2>2 DEF GithubArchiveMatches, VersionCompatible
    <3>4. Lock.berry => entry.resolution.of \in {Identity(name, r), "none"}
      BY DEF YarnCompatible, ResolutionMatches, Identity
    <3> QED
      BY <3>2, <3>3, <3>4 DEF FitsDeclared, RecordedAs
  <2> QED
    BY <2>1, <2>2
<1> QED
  BY <1>1, <1>2, <1>3

\* What yarn.lock decides, by the first of the two selectors that has such an entry.
LEMMA YarnFits ==
  ASSUME NEW place, NEW name, NEW r, Lock.kind = "yarn", NEW d, d = BindYarn(name, r)
  PROVE  /\ d # Unbound => LeadsWhereLoaded(place, name, d) /\ FitsDeclared(place, name, r, d)
         /\ SelectedAsDeclared(name, r) => d # Unbound
         /\ d.how # "error"
<1> DEFINE e(npm) == Lock.selectors[Selector(name, r, npm)]
           known(npm) == Selector(name, r, npm) \in DOMAIN Lock.selectors
<1>1. d.place = Nowhere => LeadsWhereLoaded(place, name, d)
  BY DEF Expected, LeadsWhereLoaded
<1>2. \A npm : Selects(name, r, npm) <=> known(npm) /\ YarnCompatible(r, name, e(npm), npm)
  BY Zenon DEF Selects
<1>3. \A npm : (CHOOSE entry \in {e(npm)} : TRUE) = e(npm)
  OBVIOUS
<1>4. d = IF Selects(name, r, FALSE) THEN BindYarnEntry(name, r, e(FALSE))
          ELSE IF Selects(name, r, TRUE) THEN BindYarnEntry(name, r, e(TRUE)) ELSE Unbound
  <2>1. CASE Selects(name, r, FALSE)
    <3>1. FindEntry(name, r) = {e(FALSE)}
      BY <2>1 DEF FindEntry
    <3>2. d = BindYarnEntry(name, r, CHOOSE entry \in {e(FALSE)} : TRUE)
      <4>1. {e(FALSE)} # {}
        OBVIOUS
      <4> HIDE DEF e
      <4> QED
        BY <3>1, <4>1, Zenon DEF BindYarn
    <3> QED
      BY <1>3, <2>1, <3>2
  <2>2. CASE ~Selects(name, r, FALSE) /\ Selects(name, r, TRUE)
    <3>1. FindEntry(name, r) = {e(TRUE)}
      BY <2>2 DEF FindEntry
    <3>2. d = BindYarnEntry(name, r, CHOOSE entry \in {e(TRUE)} : TRUE)
      <4>1. {e(TRUE)} # {}
        OBVIOUS
      <4> HIDE DEF e
      <4> QED
        BY <3>1, <4>1, Zenon DEF BindYarn
    <3> QED
      BY <1>3, <2>2, <3>2
  <2>3. CASE ~Selects(name, r, FALSE) /\ ~Selects(name, r, TRUE)
    <3>1. FindEntry(name, r) = {}
      BY <2>3 DEF FindEntry
    <3> QED
      BY <2>3, <3>1 DEF BindYarn
  <2> QED
    BY <2>1, <2>2, <2>3
<1>5. ASSUME NEW npm \in BOOLEAN, Selects(name, r, npm), d = BindYarnEntry(name, r, e(npm))
      PROVE  /\ d # Unbound => d.place = Nowhere /\ FitsDeclared(place, name, r, d)
             /\ SelectedAsDeclared(name, r) => d # Unbound
             /\ d.how # "error"
  <2>1. known(npm) /\ YarnCompatible(r, name, e(npm), npm)
    BY <1>2, <1>5
  <2>2. SelectedAsDeclared(name, r) =>
          e(npm).resolved.form = "file" \/ (VersionCompatible(r, e(npm).version) /\ GithubArchiveMatches(r, e(npm).resolved))
    BY <2>1 DEF SelectedAsDeclared
  <2>3. e(npm) \in EntriesOf(place, name, r)
    BY <2>1 DEF EntriesOf
  <2> HIDE DEF e, known
  <2> QED
    BY <1>5, <2>1, <2>2, <2>3, YarnEntryFits
<1>6. SelectedAsDeclared(name, r) => Selects(name, r, FALSE) \/ Selects(name, r, TRUE)
  BY <1>2 DEF SelectedAsDeclared
<1>7. Unbound.how # "error"
  BY DEF Unbound
<1> HIDE DEF e, known
<1> QED
  BY <1>1, <1>4, <1>5, <1>6, <1>7

\* A reference of pnpm-lock.yaml binds what is declared or nothing.
LEMMA ReferenceFits ==
  ASSUME NEW place, NEW name, NEW r, Lock.kind = "pnpm", NEW reference \in EntriesOf(place, name, r), NEW d, d = BindReference(r, name, reference),
         \A q \in Lock.packages : q.name # "none"
  PROVE  /\ d # Unbound => d.place = Nowhere /\ FitsDeclared(place, name, r, d)
         /\ /\ GithubArchiveMatches(r, reference.resolved)
            /\ \/ reference.resolved.form \in {"github", "file"}
               \/ /\ reference.target = Identity(name, r) \/ (reference.target = "none" /\ r.form # "alias")
                  /\ VersionCompatible(r, reference.version)
                  /\ [name |-> Identity(name, r), version |-> reference.version] \in Lock.packages
            => d # Unbound
         /\ d.how # "error"
<1> DEFINE package == [name |-> RegistryReference(r, name, reference), version |-> reference.version]
           refused == package.name = "none" \/ ~VersionCompatible(r, reference.version) \/ package \notin Lock.packages
<1>1. d = IF ~GithubArchiveMatches(r, reference.resolved) THEN Unbound
          ELSE IF reference.resolved.form = "github" THEN Bound("commit", Nowhere, NoVersion, reference.resolved.of)
          ELSE IF reference.resolved.form = "file" THEN Bound("local", Nowhere, NoVersion, name)
          ELSE IF refused THEN Unbound ELSE Bound("locked", Nowhere, reference.version, package.name)
  BY Zenon DEF BindReference
<1>2. RegistryReference(r, name, reference) \in {"none", Identity(name, r)}
  BY DEF RegistryReference, Identity
<1>3. ASSUME \/ reference.target = Identity(name, r)
             \/ reference.target = "none" /\ r.form # "alias",
             VersionCompatible(r, reference.version),
             [name |-> Identity(name, r), version |-> reference.version] \in Lock.packages
      PROVE  ~refused
  <2>1. Identity(name, r) # "none"
    BY <1>3
  <2>2. RegistryReference(r, name, reference) = Identity(name, r)
    BY <1>3, <2>1 DEF RegistryReference, Identity
  <2> QED
    BY <1>3, <2>1, <2>2
<1>4. ~refused => VersionCompatible(r, reference.version) /\ package.name = Identity(name, r)
  BY <1>2
<1> HIDE DEF refused
<1>5. CASE ~GithubArchiveMatches(r, reference.resolved)
  BY <1>1, <1>5 DEF Unbound
<1>6. CASE GithubArchiveMatches(r, reference.resolved) /\ reference.resolved.form = "github"
  <2>1. d = Bound("commit", Nowhere, NoVersion, reference.resolved.of)
    BY <1>1, <1>6
  <2>2. d.how = "commit" /\ d.place = Nowhere /\ d.of = reference.resolved.of /\ d # Unbound
    BY <2>1 DEF Bound, Unbound
  <2>3. r.form = "github" => d.of = r.target
    BY <1>6, <2>2 DEF GithubArchiveMatches
  <2>4. RecordedAs(reference, d)
    BY <1>6, <2>2 DEF RecordedAs
  <2> QED
    BY <1>6, <2>2, <2>3, <2>4 DEF FitsDeclared
<1>7. CASE GithubArchiveMatches(r, reference.resolved) /\ reference.resolved.form = "file"
  BY <1>1, <1>7 DEF Bound, Unbound, FitsDeclared, RecordedAs
<1>8. CASE GithubArchiveMatches(r, reference.resolved) /\ reference.resolved.form \notin {"github", "file"} /\ refused
  <2>1. d = Unbound /\ Unbound.how # "error"
    BY <1>1, <1>8 DEF Unbound
  <2> QED
    BY <1>3, <1>8, <2>1
<1>9. CASE GithubArchiveMatches(r, reference.resolved) /\ reference.resolved.form \notin {"github", "file"} /\ ~refused
  <2> HIDE DEF package
  <2>1. d = Bound("locked", Nowhere, reference.version, package.name)
    BY <1>1, <1>9
  <2>2. d.how = "locked" /\ d.place = Nowhere /\ d.version = reference.version /\ d.of = package.name /\ d # Unbound
    BY <2>1 DEF Bound, Unbound
  <2>3. r.form # "github" /\ (IsRange(r) => reference.version \in r.accepts) /\ d.of = Identity(name, r)
    BY <1>4, <1>9, <2>2 DEF GithubArchiveMatches, VersionCompatible
  <2> QED
    BY <2>2, <2>3 DEF FitsDeclared, RecordedAs
<1> QED
  BY <1>5, <1>6, <1>7, <1>8, <1>9

\* What pnpm-lock.yaml decides for a member.
LEMMA PnpmFits ==
  ASSUME NEW place, NEW name, NEW r, Lock.kind = "pnpm", NEW d, d = BindPnpm(place, name, r),
         \A q \in Lock.packages : q.name # "none"
  PROVE  /\ d # Unbound => LeadsWhereLoaded(place, name, d) /\ FitsDeclared(place, name, r, d)
         /\ ReferredAsDeclared(place, name, r) => d # Unbound
         /\ d.how # "error"
<1> DEFINE locked == Lock.importers[place][name]
           known == /\ place \in DOMAIN Lock.importers /\ name \in DOMAIN Lock.importers[place]
                    /\ ~(locked.hasSpecifier /\ locked.specifier # r)
<1>1. d.place = Nowhere => LeadsWhereLoaded(place, name, d)
  BY DEF Expected, LeadsWhereLoaded
<1>2. d = IF known THEN BindReference(r, name, locked.reference) ELSE Unbound
  BY Zenon DEF BindPnpm
<1>3. ReferredAsDeclared(place, name, r) =>
        /\ known
        /\ GithubArchiveMatches(r, locked.reference.resolved)
        /\ \/ locked.reference.resolved.form \in {"github", "file"}
           \/ /\ locked.reference.target = Identity(name, r) \/ (locked.reference.target = "none" /\ r.form # "alias")
              /\ VersionCompatible(r, locked.reference.version)
              /\ [name |-> Identity(name, r), version |-> locked.reference.version] \in Lock.packages
  BY Zenon DEF ReferredAsDeclared
<1>4. Unbound.how # "error"
  BY DEF Unbound
<1>7. known => locked.reference \in EntriesOf(place, name, r)
  BY DEF EntriesOf
<1> HIDE DEF known, locked
<1>5. CASE known
  <2>1. d = BindReference(r, name, locked.reference)
    BY <1>2, <1>5
  <2> QED
    BY <1>1, <1>3, <1>5, <1>7, <2>1, ReferenceFits
<1>6. CASE ~known
  BY <1>2, <1>3, <1>4, <1>6
<1> QED
  BY <1>5, <1>6

\* What is decided in a place, whichever lockfile decides: it fits what is declared
\* and leads to what is loaded, and only a lockfile that does not correspond
\* leaves it unbound or is contradicted.
LEMMA Decision ==
  ASSUME NEW place \in Seq(STRING), NEW name, project \in Projects, NEW d, d = Bind(place, name)
  PROVE  /\ d # Unbound /\ d.how # "error" =>
              LeadsWhereLoaded(place, name, d) /\ FitsDeclared(place, name, Requirement(place, name), d)
         /\ d.how # "error" => d.place \in Seq(STRING) \cup {Nowhere}
         /\ Corresponds(place, name, Requirement(place, name)) => d # Unbound /\ d.how # "error"
<1> DEFINE r == Requirement(place, name)
<1>1. /\ Lock.kind \in {"package-lock", "legacy", "yarn", "pnpm"}
      /\ Lock.kind = "package-lock" =>
           /\ InstalledTree(DOMAIN Lock.packages)
           /\ \A q \in DOMAIN Lock.packages : Lock.packages[q].link \in Seq(STRING)
      /\ Lock.kind = "legacy" => NestedTree(DOMAIN Lock.legacy)
      /\ Lock.kind = "pnpm" => \A q \in Lock.packages : q.name # "none"
  BY NpmProjectsAssumption DEF Lock
<1>2. Unbound.place = Nowhere /\ Unbound.how # "error"
  BY DEF Unbound
<1> HIDE DEF r
<1>3. CASE Lock.kind = "package-lock"
  <2>1. d = BindInstalled(place, name, r) /\ (Corresponds(place, name, r) <=> InstalledAsDeclared(place, name, r))
    BY <1>3 DEF Bind, Corresponds, r
  <2>2. /\ d # Unbound /\ d.how # "error" =>
             LeadsWhereLoaded(place, name, d) /\ FitsDeclared(place, name, r, d) /\ d.place \in Seq(STRING)
        /\ InstalledAsDeclared(place, name, r) => d # Unbound /\ d.how # "error"
    BY <1>1, <1>3, <2>1, InstalledFits
  <2> QED
    BY <1>2, <2>1, <2>2 DEF r
<1>4. CASE Lock.kind = "legacy" /\ place \in project.members
  <2>1. d = Unbound
    BY <1>4 DEF Bind
  <2>2. ~Corresponds(place, name, r)
    BY <1>4 DEF Corresponds, NestedAsDeclared
  <2> QED
    BY <1>2, <2>1, <2>2 DEF r
<1>5. CASE Lock.kind = "legacy" /\ place \notin project.members
  <2>1. d = BindLegacy(place, name, r) /\ (Corresponds(place, name, r) <=> NestedAsDeclared(place, name, r))
    BY <1>5 DEF Bind, Corresponds, r
  <2> QED
    BY <1>1, <1>2, <1>5, <2>1, LegacyFits DEF r
<1>6. CASE Lock.kind = "yarn"
  <2>1. d = BindYarn(name, r) /\ (Corresponds(place, name, r) <=> SelectedAsDeclared(name, r))
    BY <1>6 DEF Bind, Corresponds, r
  <2>2. LeadsWhereLoaded(place, name, d) => d.place = Nowhere
    BY <1>6 DEF Expected, LeadsWhereLoaded
  <2> QED
    BY <1>1, <1>2, <1>6, <2>1, <2>2, YarnFits DEF r
<1>7. CASE Lock.kind = "pnpm"
  <2>1. d = BindPnpm(place, name, r) /\ (Corresponds(place, name, r) <=> ReferredAsDeclared(place, name, r))
    BY <1>7 DEF Bind, Corresponds, r
  <2>2. LeadsWhereLoaded(place, name, d) => d.place = Nowhere
    BY <1>7 DEF Expected, LeadsWhereLoaded
  <2> QED
    BY <1>1, <1>2, <1>7, <2>1, <2>2, PnpmFits DEF r
<1> QED
  BY <1>1, <1>3, <1>4, <1>5, <1>6, <1>7

\* The invariant: where the reading stands, and what is promised of what is bound.
PlacesRead ==
  /\ project \in Projects
  /\ contexts \subseteq Seq(STRING) /\ children \subseteq Seq(STRING)
  /\ left # {} => /\ now \in Seq(STRING) /\ now \in DOMAIN project.manifests
                  /\ left \subseteq DOMAIN project.manifests[now]

NpmInv == PlacesRead /\ BoundAsLoaded /\ AgreedIsBound

\* Nothing of this depends on more than the project.
LEMMA SameProject ==
  ASSUME project' = project
  PROVE  /\ \A place, name : Requirement(place, name)' = Requirement(place, name)
         /\ \A place, name, as : LeadsWhereLoaded(place, name, as)' <=> LeadsWhereLoaded(place, name, as)
         /\ \A place, name, r, as : FitsDeclared(place, name, r, as)' <=> FitsDeclared(place, name, r, as)
         /\ LockfileAgrees' <=> LockfileAgrees
<1>1. Lock' = Lock
  BY DEF Lock
<1>2. \A place, name : Requirement(place, name)' = Requirement(place, name)
  BY DEF Requirement
<1>a. \A place, name : PassedOver(place, name)' <=> PassedOver(place, name)
  BY <1>1, Zenon DEF PassedOver
<1>b. \A place, name : Expected(place, name)' = Expected(place, name)
  BY <1>1, Zenon DEF Expected
<1>3. \A place, name, as : LeadsWhereLoaded(place, name, as)' <=> LeadsWhereLoaded(place, name, as)
  BY <1>1, <1>a, <1>b, Zenon DEF LeadsWhereLoaded
<1>c. \A place, name, r : EntriesOf(place, name, r)' = EntriesOf(place, name, r)
  BY <1>1, Zenon DEF EntriesOf
<1>4. \A place, name, r, as : FitsDeclared(place, name, r, as)' <=> FitsDeclared(place, name, r, as)
  <2>1. \A entry, as : RecordedAs(entry, as)' <=> RecordedAs(entry, as)
    BY DEF RecordedAs
  <2> TAKE place, name, r, as
  <2> DEFINE recorded ==
               Lock.kind \in {"yarn", "pnpm"} =>
                 \E entry \in EntriesOf(place, name, r) :
                   /\ RecordedAs(entry, as)
                   /\ Lock.kind = "yarn" /\ as.how = "commit" /\ IsRange(r) => entry.version \in r.accepts
             installed ==
               Lock.kind \in {"package-lock", "legacy"} =>
                 /\ as.how = "commit" => r.form = "github"
                 /\ as.how = "local" =>
                      /\ Lock.kind = "package-lock"
                      /\ \E q \in DOMAIN Lock.packages \ {<<>>} :
                           q[Len(q)] = name /\ Lock.packages[q].link = as.place
             fits ==
               /\ r.form = "github" /\ as.how # "local" => as.how = "commit" /\ as.of = r.target
               /\ as.how = "locked" /\ IsRange(r) =>
                    /\ Lock.kind # "legacy" => as.version \in r.accepts
                    /\ Lock.kind = "pnpm" => as.of = Identity(name, r)
                    /\ Lock.kind = "yarn" /\ Lock.berry => as.of \in {Identity(name, r), "none"}
                    /\ Lock.kind = "package-lock" /\ r.form = "alias" => BaseName[as.of] = BaseName[r.target]
  <2>2. FitsDeclared(place, name, r, as) <=> recorded /\ installed /\ fits
    BY Zenon DEF FitsDeclared
  <2>3. FitsDeclared(place, name, r, as)' <=> recorded' /\ installed' /\ fits'
    BY Zenon DEF FitsDeclared
  <2>4. recorded' <=> recorded
    BY <1>1, <1>c, <2>1, Zenon
  <2>5. installed' <=> installed
    BY <1>1
  <2>6. fits' <=> fits
    BY <1>1
  <2> HIDE DEF recorded, installed, fits
  <2> QED
    BY <2>2, <2>3, <2>4, <2>5, <2>6
<1>5. \A r, name, entry, npm : YarnCompatible(r, name, entry, npm)' <=> YarnCompatible(r, name, entry, npm)
  BY <1>1, Zenon DEF YarnCompatible
<1>6. \A place, name, r, entry :
        LegacyRequirementMatches(place, name, r, entry)' <=> LegacyRequirementMatches(place, name, r, entry)
  BY <1>1 DEF LegacyRequirementMatches
<1>7. \A place, name, r : InstalledAsDeclared(place, name, r)' <=> InstalledAsDeclared(place, name, r)
  BY <1>1, <1>a DEF InstalledAsDeclared
<1>8. \A place, name, r : NestedAsDeclared(place, name, r)' <=> NestedAsDeclared(place, name, r)
  BY <1>1, <1>6, Zenon DEF NestedAsDeclared
<1>9. \A name, r : SelectedAsDeclared(name, r)' <=> SelectedAsDeclared(name, r)
  BY <1>1, <1>5, Zenon DEF SelectedAsDeclared
<1>10. \A place, name, r : ReferredAsDeclared(place, name, r)' <=> ReferredAsDeclared(place, name, r)
  BY <1>1 DEF ReferredAsDeclared
<1>11. \A place, name, r : Corresponds(place, name, r)' <=> Corresponds(place, name, r)
  BY <1>1, <1>7, <1>8, <1>9, <1>10, Zenon DEF Corresponds
<1>12. LockfileAgrees' <=> LockfileAgrees
  BY <1>2, <1>11, Zenon DEF LockfileAgrees
<1> QED
  BY <1>2, <1>3, <1>4, <1>12

\* What was bound stays right while no more is.
LEMMA BoundStays ==
  ASSUME NpmInv, project' = project, failed' = failed, bound' \subseteq bound
  PROVE  BoundAsLoaded' /\ AgreedIsBound'
<1>1. BoundAsLoaded'
  BY SameProject, Zenon DEF NpmInv, BoundAsLoaded
<1>2. AgreedIsBound'
  BY SameProject, Zenon DEF NpmInv, AgreedIsBound
<1> QED
  BY <1>1, <1>2

\* The invariant holds before anything is read, and each action keeps it.
LEMMA NpmStarts == LocksInit => NpmInv
<1> SUFFICES ASSUME LocksInit PROVE NpmInv
  OBVIOUS
<1>1. <<>> \in Seq(STRING)
  OBVIOUS
<1>2. project.members \subseteq Seq(STRING)
  BY NpmProjectsAssumption DEF LocksInit
<1>3. PlacesRead
  BY <1>1, <1>2 DEF LocksInit, PlacesRead
<1>4. BoundAsLoaded /\ AgreedIsBound
  BY DEF LocksInit, BoundAsLoaded, AgreedIsBound
<1> QED
  BY <1>3, <1>4 DEF NpmInv

\* A manifest is read: nothing is decided yet.
LEMMA NpmEnterStep == NpmInv /\ EnterManifest => NpmInv'
<1> SUFFICES ASSUME NpmInv, EnterManifest PROVE NpmInv'
  OBVIOUS
<1>1. PICK place \in contexts :
        /\ now' = place /\ contexts' = contexts \ {place}
        /\ left' = IF place \in DOMAIN project.manifests THEN DOMAIN project.manifests[place] ELSE {}
  BY DEF EnterManifest
<1>2. project' = project /\ bound' = bound /\ failed' = failed /\ children' = {}
  BY DEF EnterManifest
<1>3. PlacesRead'
  BY <1>1, <1>2 DEF NpmInv, PlacesRead
<1> QED
  BY <1>2, <1>3, BoundStays DEF NpmInv

\* One more is decided.
LEMMA NpmEnrichStep == NpmInv /\ EnrichDependency => NpmInv'
<1> SUFFICES ASSUME NpmInv, EnrichDependency PROVE NpmInv'
  OBVIOUS
<1>1. PICK name \in left :
        LET decision == Bind(now, name)
        IN  /\ decision.how # "error"
            /\ bound' = bound \cup {Decided(name, decision)}
            /\ left' = left \ {name}
            /\ children' = IF decision.place = Nowhere THEN children ELSE children \cup {decision.place}
            /\ UNCHANGED <<project, contexts, now, failed>>
  BY DEF EnrichDependency
<1> DEFINE d == Bind(now, name)
           b == [at |-> now, name |-> name, as |-> d]
<1>2. /\ d.how # "error" /\ bound' = bound \cup {b} /\ left' = left \ {name}
      /\ children' = IF d.place = Nowhere THEN children ELSE children \cup {d.place}
      /\ project' = project /\ contexts' = contexts /\ now' = now /\ failed' = failed
  BY <1>1 DEF Decided
<1>3. b.at = now /\ b.name = name /\ b.as = d
  OBVIOUS
<1>4. PlacesRead /\ BoundAsLoaded /\ AgreedIsBound
  BY DEF NpmInv
<1>5. /\ d # Unbound /\ d.how # "error" =>
              LeadsWhereLoaded(now, name, d) /\ FitsDeclared(now, name, Requirement(now, name), d)
      /\ d.how # "error" => d.place \in Seq(STRING) \cup {Nowhere}
      /\ Corresponds(now, name, Requirement(now, name)) => d # Unbound /\ d.how # "error"
  BY <1>4, Decision DEF PlacesRead
<1> HIDE DEF d, b
<1>6. PlacesRead'
  BY <1>2, <1>4, <1>5 DEF PlacesRead
<1>7. BoundAsLoaded'
  <2>1. ASSUME NEW c \in bound', c.as # Unbound
        PROVE  LeadsWhereLoaded(c.at, c.name, c.as) /\ FitsDeclared(c.at, c.name, Requirement(c.at, c.name), c.as)
    <3>1. CASE c \in bound
      BY <1>4, <2>1, <3>1 DEF BoundAsLoaded
    <3>2. CASE c = b
      BY <1>2, <1>3, <1>5, <2>1, <3>2
    <3> QED
      BY <1>2, <2>1, <3>1, <3>2
  <2>2. /\ \A place, other, as : LeadsWhereLoaded(place, other, as)' <=> LeadsWhereLoaded(place, other, as)
        /\ \A place, other, as : FitsDeclared(place, other, Requirement(place, other), as)'
                                 <=> FitsDeclared(place, other, Requirement(place, other), as)
    BY <1>2, SameProject
  <2> QED
    BY <2>1, <2>2, Zenon DEF BoundAsLoaded
<1>8. AgreedIsBound'
  <2>1. ASSUME d = Unbound PROVE ~LockfileAgrees
    <3>1. now \in DOMAIN project.manifests /\ name \in DOMAIN project.manifests[now]
      BY <1>4 DEF PlacesRead
    <3> QED
      BY <1>5, <2>1, <3>1 DEF LockfileAgrees
  <2>2. ASSUME NEW c \in bound', c.as = Unbound PROVE ~LockfileAgrees
    BY <1>2, <1>3, <1>4, <2>1, <2>2 DEF AgreedIsBound
  <2>3. failed' # {} => ~LockfileAgrees
    BY <1>2, <1>4 DEF AgreedIsBound
  <2> QED
    BY <1>2, <2>2, <2>3, SameProject, Zenon DEF AgreedIsBound
<1> QED
  BY <1>6, <1>7, <1>8 DEF NpmInv

\* A contradiction: nothing new is bound, and the lockfile does not agree.
LEMMA ContradictStep == NpmInv /\ ContradictLockfile => NpmInv'
<1> SUFFICES ASSUME NpmInv, ContradictLockfile PROVE NpmInv'
  OBVIOUS
<1>1. PICK name \in left :
        /\ Bind(now, name).how = "error"
        /\ bound' = IF now = <<>> THEN bound \cup {Decided(other, Unbound) : other \in left}
                    ELSE {b \in bound : b.at # now}
        /\ contexts' = IF now \in {<<>>} \cup project.members THEN {} ELSE contexts
        /\ now' = Nowhere /\ left' = {} /\ children' = {} /\ project' = project
  BY DEF ContradictLockfile
<1>2. PlacesRead /\ BoundAsLoaded /\ AgreedIsBound
  BY DEF NpmInv
<1>3. PlacesRead'
  BY <1>1, <1>2 DEF PlacesRead
<1>4. ~LockfileAgrees
  <2>1. ~Corresponds(now, name, Requirement(now, name))
    BY <1>1, <1>2, Decision DEF PlacesRead
  <2>2. now \in DOMAIN project.manifests /\ name \in DOMAIN project.manifests[now]
    BY <1>2 DEF PlacesRead
  <2> QED
    BY <2>1, <2>2 DEF LockfileAgrees
<1>5. \A c \in bound' : c.as # Unbound => c \in bound
  BY <1>1 DEF Decided
<1>6. BoundAsLoaded'
  <2>1. \A c \in bound' : c.as # Unbound =>
          LeadsWhereLoaded(c.at, c.name, c.as) /\ FitsDeclared(c.at, c.name, Requirement(c.at, c.name), c.as)
    BY <1>2, <1>5 DEF BoundAsLoaded
  <2>2. /\ \A place, other, as : LeadsWhereLoaded(place, other, as)' <=> LeadsWhereLoaded(place, other, as)
        /\ \A place, other, as : FitsDeclared(place, other, Requirement(place, other), as)'
                                 <=> FitsDeclared(place, other, Requirement(place, other), as)
    BY <1>1, SameProject
  <2> QED
    BY <2>1, <2>2, Zenon DEF BoundAsLoaded
<1>7. AgreedIsBound'
  BY <1>1, <1>4, SameProject, Zenon DEF AgreedIsBound
<1> QED
  BY <1>3, <1>6, <1>7 DEF NpmInv

\* What a manifest leads to is read later.
LEMMA ManifestDoneStep == NpmInv /\ ManifestDone => NpmInv'
<1> SUFFICES ASSUME NpmInv, ManifestDone PROVE NpmInv'
  OBVIOUS
<1>1. /\ contexts' = contexts \cup (children \ Visited) /\ now' = Nowhere /\ children' = {}
      /\ left = {} /\ project' = project /\ left' = left /\ bound' = bound /\ failed' = failed
  BY DEF ManifestDone
<1>2. PlacesRead'
  BY <1>1 DEF NpmInv, PlacesRead
<1> QED
  BY <1>1, <1>2, BoundStays DEF NpmInv

\* Every step keeps the invariant.
LEMMA NpmStep == NpmInv /\ [LocksNext]_lockVars => NpmInv'
<1>1. NpmInv /\ UNCHANGED lockVars => NpmInv'
  <2> SUFFICES ASSUME NpmInv, UNCHANGED lockVars PROVE NpmInv'
    OBVIOUS
  <2>1. /\ project' = project /\ contexts' = contexts /\ now' = now /\ left' = left /\ children' = children
        /\ bound' = bound /\ failed' = failed
    BY DEF lockVars
  <2>2. PlacesRead'
    BY <2>1 DEF NpmInv, PlacesRead
  <2> QED
    BY <2>1, <2>2, BoundStays DEF NpmInv
<1> QED
  BY <1>1, NpmEnterStep, NpmEnrichStep, ContradictStep, ManifestDoneStep DEF LocksNext

\* In every place a dependency is reached from, in every tree of places, what is bound
\* is what a runtime loads there, unless that lies in a directory the code passes over,
\* and is what the lockfile has for the declaration; nothing is left unbound or
\* contradicted by a lockfile that agrees with the manifests and has nothing passed over
\* (manifests/npm, discovery/npm.rs).
THEOREM NpmBinds == NpmSpec => []LockBindsWhatIsLoaded
<1>1. NpmInv => LockBindsWhatIsLoaded
  BY DEF NpmInv, LockBindsWhatIsLoaded
<1> QED
  BY <1>1, NpmStarts, NpmStep, PTL DEF NpmSpec

\* All families of lockfiles side by side: what a declaration is bound to is what
\* its lockfile records for it, with the exceptions each family has: the directories
\* that manifests/npm passes over, the commits of pnpm-lock.yaml that no version is
\* compared with, and the digests of Poetry and PDM, which count whatever URL they are
\* recorded for (manifests/npm, manifests/python/lockfiles, manifests/deno/lockfile.rs).
THEOREM LocksBind == LockfilesSpec => []LocksBindWhatTheyRecord
<1>1. LockBindsWhatIsLoaded /\ PythonBoundAsRecorded /\ DenoBoundAsRecorded => LocksBindWhatTheyRecord
  BY DEF LocksBindWhatTheyRecord
<1> QED
  BY <1>1, NpmBinds, PythonBinds, DenoBinds, PTL DEF LockfilesSpec
=============================================================================
