-------------------------- MODULE RepositoryAccess --------------------------
(***************************************************************************)
(* What the requests of an acquisition may reach and carry: src/fetcher/   *)
(* repository, src/fetcher/credentials, src/fetcher/policy.rs and          *)
(* src/fetcher/network.  Each download has a provenance, the configured    *)
(* repository it was generated from, if any, which stays the authority for *)
(* every hop it is redirected to.  A URL is a scheme, a host (with its     *)
(* port) as a sequence of labels, a path as a sequence of segments, and    *)
(* whether the path holds an escaped dot, slash, backslash or percent sign *)
(* or the URL holds a user name.                                           *)
(***************************************************************************)
EXTENDS Download, SequencesExt, FiniteSetsExt

CONSTANTS
  Setups,        \* the policies considered
  Acquisitions,  \* the dependencies considered
  ListedUrls,        \* the URLs registries may name for an artifact
  Loopback       \* hosts that resolve to loopback addresses only

VARIABLES
  setup,      \* the policy with its repositories and credentials
  wanted,     \* the dependency acquired
  stage,      \* what is downloaded next or now, or how it ended
  asked,      \* the download under way: its URL and the repository behind it
  effective,  \* where the last answer came from
  sent        \* the request sent last: its URL and token

accessVars == <<downloadVars, setup, wanted, stage, asked, effective, sent>>

NoToken == "none"
Unavailable == "unavailable"

VersionMetadata == "1_meta.json"

Places == [scheme: STRING, host: Seq(STRING), path: Seq(STRING), escaped: BOOLEAN, user: BOOLEAN]

Kinds == {"npm", "python", "deno-npm", "jsr", "url"}

ASSUME AccessAssumption ==
  /\ Urls \cup ListedUrls \subseteq Places
  /\ None \notin Places
  /\ VersionMetadata \in STRING
  /\ \A s \in Setups :
       /\ {s.npm, s.pypi, s.pypiArtifact, s.jsr} \subseteq Places
       /\ s.credentials \in
            Seq([scope: Places, token: STRING \ {NoToken, Unavailable}, available: BOOLEAN])
  /\ \A w \in Acquisitions :
       /\ w.kind \in Kinds /\ w.segments \in Seq(STRING) /\ w.escaped \in BOOLEAN
       /\ w.source \in Places \cup {None}

-----------------------------------------------------------------------------
(* Repositories and the policy.                                            *)

Bases == {setup.npm, setup.pypi, setup.pypiArtifact, setup.jsr}

UrlIsWithinBase(base, url) ==
  /\ ~base.escaped /\ ~url.escaped
  /\ base.scheme = url.scheme /\ base.host = url.host
  /\ IsPrefix(base.path, url.path)

Deepest(urls) ==
  IF urls = {} THEN None ELSE CHOOSE u \in urls : \A v \in urls : Len(v.path) <= Len(u.path)

RepositoryBaseFor(url) == Deepest({b \in Bases : UrlIsWithinBase(b, url)})

\* "*" stands for any host, and before other labels for one or more of them.
HostIsAllowed(host) ==
  \E pattern \in setup.hosts :
    \/ pattern = host
    \/ /\ Head(pattern) = "*" /\ IsSuffix(Tail(pattern), host)
       /\ Len(pattern) = 1 \/ Len(host) >= Len(pattern)

ValidTransport(s) ==
  \A base \in {s.npm, s.pypi, s.pypiArtifact, s.jsr} :
    /\ ~base.escaped /\ ~base.user
    /\ base.scheme = "http" => s.allowInsecureHttp /\ base.host \in Loopback

\* A slip: plain HTTP to any loopback host, once it is enabled.
CheckUrlLoopback(url, base) ==
  /\ url.scheme = "http" => setup.allowInsecureHttp /\ url.host \in Loopback
  /\ url.scheme \in {"http", "https"} /\ ~url.user /\ HostIsAllowed(url.host)

CheckUrl(url, base) ==
  /\ url.scheme = "http" =>
       /\ setup.allowInsecureHttp /\ url.host \in Loopback
       /\ base # None /\ UrlIsWithinBase(base, url)
  /\ url.scheme \in {"http", "https"} /\ ~url.user /\ HostIsAllowed(url.host)

-----------------------------------------------------------------------------
(* Credentials.                                                            *)

\* The path of a scope ends with a slash.
Matches(credential, url) ==
  /\ ~credential.scope.escaped /\ ~url.escaped
  /\ credential.scope.scheme = "https" /\ url.scheme = "https"
  /\ credential.scope.host = url.host
  /\ credential.scope.path = <<>> \/ IsStrictPrefix(credential.scope.path, url.path)

\* Of two credentials for the same scope the later one counts.
AuthorizationFor(url) ==
  LET matching == {i \in DOMAIN setup.credentials : Matches(setup.credentials[i], url)}
      depth(i) == Len(setup.credentials[i].scope.path)
      deepest  == {i \in matching : \A j \in matching : depth(j) <= depth(i)}
  IN  IF matching = {} THEN NoToken
      ELSE IF setup.credentials[Max(deepest)].available THEN setup.credentials[Max(deepest)].token
      ELSE Unavailable

\* A slip: the repository is looked up again for each hop.
RequestAuthorityOfHop == RepositoryBaseFor(request.url)

\* The repository a download was generated from, whatever it is redirected to.
RequestAuthority == asked.base

Authorization ==
  IF RequestAuthority # None /\ UrlIsWithinBase(RequestAuthority, request.url)
  THEN AuthorizationFor(request.url)
  ELSE NoToken

-----------------------------------------------------------------------------
(* What an acquisition asks for.  A dependency is a record of its kind,    *)
(* its name as a path segment, whether a lockfile defines it, and the URL  *)
(* of its artifact where it is known.                                      *)

LockfileDefined ==
  \/ wanted.kind \in {"npm", "python"} /\ wanted.locked /\ wanted.source # None
  \/ wanted.kind = "url"

FromRegistry == wanted.kind \in {"npm", "deno-npm"} /\ ~LockfileDefined

\* A scoped npm name holds a slash, which is escaped; a JSR name is two segments.
PackageUrl(base) ==
  [base EXCEPT !.path = @ \o wanted.segments, !.escaped = @ \/ wanted.escaped]

MetadataUrl == PackageUrl(IF wanted.kind = "python" THEN setup.pypi ELSE setup.npm)

\* An npm package of Deno is always resolved through the registry.
NeedsMetadata ==
  \/ wanted.kind = "deno-npm"
  \/ wanted.kind \in {"npm", "python"} /\ wanted.source = None

VersionUrl == LET url == PackageUrl(setup.jsr) IN [url EXCEPT !.path = Append(@, VersionMetadata)]

ArtifactUrls ==
  IF wanted.kind = "jsr" THEN {VersionUrl}
  ELSE IF NeedsMetadata THEN ListedUrls
  ELSE {wanted.source}

\* An artifact of PyPI outside of the configured base is a request like any other.
ArtifactBase(url) ==
  IF FromRegistry THEN setup.npm
  ELSE IF wanted.kind = "jsr" THEN RepositoryBaseFor(url)
  ELSE IF wanted.kind = "python" /\ ~LockfileDefined /\ UrlIsWithinBase(setup.pypiArtifact, url)
  THEN RepositoryBaseFor(url)
  ELSE None

\* The files of a JSR package lie where its metadata came from in the end.
FileUrls ==
  IF Last(effective.path) = VersionMetadata
  THEN {[effective EXCEPT !.path = Front(@) \o <<"1", "mod.ts">>]}
  ELSE {}

-----------------------------------------------------------------------------

AccessInit ==
  /\ setup \in {s \in Setups : ValidTransport(s)}
  /\ wanted \in Acquisitions
  /\ stage = IF NeedsMetadata THEN "metadata" ELSE "artifact"
  /\ asked = None /\ effective = None /\ sent = None
  /\ allowed = {} /\ DownloadInit

\* The provenance decides what may be reached, by every hop.
Begin(url, base) ==
  /\ request = None /\ asked = None
  /\ asked' = [url |-> url, base |-> base]
  /\ allowed' = {u \in Urls : CheckUrl(u, base)}
  /\ UNCHANGED <<request, requests, downloaded, setup, wanted, stage, effective, sent>>

BeginMetadata == stage = "metadata" /\ Begin(MetadataUrl, RepositoryBaseFor(MetadataUrl))

BeginArtifact == stage = "artifact" /\ \E url \in ArtifactUrls : Begin(url, ArtifactBase(url))

BeginFile == stage = "file" /\ \E url \in FileUrls : Begin(url, RepositoryBaseFor(VersionUrl))

AskForIt ==
  /\ asked # None /\ ~setup.offline
  /\ Ask(asked.url)
  /\ UNCHANGED <<setup, wanted, stage, asked, effective, sent>>

SendIt ==
  /\ request # None /\ Authorization # Unavailable
  /\ sent' = [url |-> request.url, token |-> Authorization, stage |-> stage,
              direct |-> request.redirects = 0]

Redirected ==
  /\ SendIt
  /\ \E target \in Urls : Redirect(target)
  /\ UNCHANGED <<setup, wanted, stage, asked, effective>>

Answered ==
  /\ SendIt /\ Receive(1)
  /\ effective' = request.url /\ asked' = None
  /\ stage' = IF stage = "metadata" THEN "artifact"
              ELSE IF stage = "artifact" /\ wanted.kind = "jsr" THEN "file"
              ELSE "done"
  /\ UNCHANGED <<setup, wanted>>

\* What is refused, answered with an error or not at all ends the acquisition.
GiveUp ==
  /\ stage \notin {"done", "failed"}
  /\ stage' = "failed" /\ request' = None /\ asked' = None
  /\ UNCHANGED <<allowed, requests, downloaded, setup, wanted, effective, sent>>

AccessNext ==
  \/ BeginMetadata \/ BeginArtifact \/ BeginFile
  \/ AskForIt \/ Redirected \/ Answered \/ GiveUp

AccessSpec == AccessInit /\ [][AccessNext]_accessVars

-----------------------------------------------------------------------------
(* Properties.                                                             *)

\* The repository whose token a request may carry.
Home ==
  CASE wanted.kind \in {"npm", "deno-npm"} -> setup.npm
    [] wanted.kind = "python" -> IF sent.stage = "metadata" THEN setup.pypi ELSE setup.pypiArtifact
    [] wanted.kind = "jsr" -> setup.jsr
    [] OTHER -> None

AtHome == ~LockfileDefined /\ Home # None /\ UrlIsWithinBase(Home, sent.url)

Scopes == {c \in ToSet(setup.credentials) : Matches(c, sent.url)}

\* Whatever registries answer and wherever they redirect to, a token goes only
\* over HTTPS to the repository of the ecosystem that is asked, and into the
\* narrowest scope there is for it, never with a URL of a lockfile; plain HTTP only reaches a
\* configured repository; and every hop is on the list of hosts.  The first
\* request to a repository does carry the token of its scope, unless the name
\* of the package has to be escaped (docs/CONFIGURATION.md, "Credentials",
\* network/download.rs).
RequestsAuthorised ==
  sent # None =>
    /\ HostIsAllowed(sent.url.host)
    /\ sent.url.scheme = "http" => setup.allowInsecureHttp /\ AtHome
    /\ sent.token # NoToken =>
         /\ sent.url.scheme = "https" /\ AtHome
         /\ \E c \in Scopes :
              c.token = sent.token /\ \A d \in Scopes : Len(d.scope.path) <= Len(c.scope.path)
    /\ sent.direct /\ sent.stage # "file" /\ AtHome /\ Scopes # {} => sent.token # NoToken
=============================================================================
