----------------------------- MODULE ModuleGraph -----------------------------
(***************************************************************************)
(* The graph of Deno URL modules (fetcher/sources/graph): downloaded from    *)
(* its root, every module verified against the lockfile and written once,    *)
(* every redirect written beside it; published; and rebuilt from the cache   *)
(* by a later process, perhaps under another policy and after the cached     *)
(* files were damaged.  A module's text is one of Contents and its digest is *)
(* that text.                                                                 *)
(***************************************************************************)
EXTENDS Download, FiniteSets, SequencesExt

CONSTANTS
    Root,           \* root_url
    Contents,       \* texts of modules
    Imports,        \* the URLs a text imports, each once, or None if one is not supported
    Bytes,          \* its length
    Origin,         \* scheme, host and port of a URL
    MaxModules,     \* max_packages
    MaxFiles,       \* max_extracted_files
    Lockfiles,      \* lockfile snapshots to choose from
    Policies        \* sets of allowed URLs to choose from

Module == Contents \cup {None}
Files == [modules: [Urls -> Module], redirects: [Urls -> Urls \cup {None}]]
Lockfile == [integrity: [Urls -> Module], redirects: [Urls -> Urls \cup {None}]]
NoFiles == [modules |-> [u \in Urls |-> None], redirects |-> [u \in Urls |-> None]]

ASSUME GraphAssumption ==
    /\ Root \in Urls
    /\ None \notin Contents
    /\ \A c \in Contents :
          Imports[c] # None => Imports[c] \in Seq(Urls) /\ IsInjective(Imports[c])
    /\ Bytes \in [Contents -> Nat]
    /\ DOMAIN Origin = Urls
    /\ MaxModules \in Nat
    /\ MaxFiles \in Nat
    /\ Lockfiles \subseteq Lockfile \cup {None}
    /\ Policies \subseteq SUBSET Urls

VARIABLES
    phase,
    lockfile,   \* the snapshot the acquisition is bound to, or None
    expected,   \* the dependency's own integrity, or None
    queue,
    queued,
    kept,       \* the files written: modules by effective URL, redirects
    files,      \* stats.files
    cached,     \* the files of the published entry
    damaged     \* they are no longer what was published

graphVars == <<phase, lockfile, expected, queue, queued, kept, files, cached, damaged>>
vars == <<graphVars, downloadVars>>

GraphEnded == {"published", "restored", "rejected", "failed"}

TypeOK ==
    /\ DownloadTypeOK
    /\ phase \in {"online", "rebuild"} \cup GraphEnded
    /\ lockfile \in Lockfiles
    /\ expected \in Module
    /\ queue \in Seq(Urls)
    /\ queued \subseteq Urls
    /\ kept \in Files
    /\ files \in 0..MaxFiles
    /\ cached \in Files
    /\ damaged \in BOOLEAN

Init ==
    /\ DownloadInit
    /\ allowed \in Policies
    /\ phase = "online"
    /\ lockfile \in Lockfiles
    /\ expected \in Module
    /\ queue = <<Root>>
    /\ queued = {Root}
    /\ kept = NoFiles
    /\ files = 0
    /\ cached = NoFiles
    /\ damaged = FALSE

\* Mutation of Verified: an entry for the URL asked for is enough.
VerifiedRequested(u, e, content) ==
    /\ u = Root => expected = content
    /\ IF lockfile = None THEN u = Root
       ELSE IF lockfile.integrity[u] # None THEN lockfile.integrity[u] = content
       ELSE lockfile.integrity[e] = content

\* What was asked for as u and came from e: the root has an integrity of its
\* own, and all declared bindings of u and of e have to agree.
Verified(u, e, content) ==
    /\ u = Root => expected = content
    /\ IF lockfile = None THEN u = Root
       ELSE LET bindings == {lockfile.integrity[v] : v \in {u, e}} \ {None}
            IN  bindings = {content}

\* Mutation of Redirecting: the redirect of a module already written is not kept.
RedirectingNew(u, e) ==
    IF u = e \/ kept.modules[e] # None THEN kept.redirects
    ELSE [kept.redirects EXCEPT ![u] = e]

Redirecting(u, e) ==
    IF u = e THEN kept.redirects ELSE [kept.redirects EXCEPT ![u] = e]

\* Mutation of RedirectFiles: only modules are counted.
RedirectFilesNone(u, e) == 0

RedirectFiles(u, e) == IF u = e THEN 0 ELSE 1

KeptModules == {e \in Urls : kept.modules[e] # None}

\* Every import of the text is one that can be resolved.
Supported(content) == Imports[content] # None

\* Those of its imports that are not queued yet, in their order.
NewImports(content) ==
    LET imports == Imports[content]
        unseen[n \in 0..Len(imports)] ==
            IF n = 0 THEN <<>>
            ELSE IF imports[n] \in queued THEN unseen[n - 1]
            ELSE Append(unseen[n - 1], imports[n])
    IN  unseen[Len(imports)]

\* The module was written before: only the binding is verified, with its digest or,
\* when that does not tell, its bytes.
Known(u, e) ==
    /\ kept.modules[e] # None
    /\ Verified(u, e, kept.modules[e])
    /\ files + RedirectFiles(u, e) <= MaxFiles

\* A module seen for the first time can be written and its imports queued.
Keepable(u, e, content) ==
    /\ kept.modules[e] = None
    /\ Verified(u, e, content)
    /\ Cardinality(KeptModules) < MaxModules
    /\ files + RedirectFiles(u, e) + 1 <= MaxFiles
    /\ Supported(content)
    /\ NewImports(content) # <<>> =>
          Cardinality(queued) + Len(NewImports(content)) <= MaxModules

KeepRedirect(u, e, rest) ==
    /\ Known(u, e)
    /\ kept' = [kept EXCEPT !.redirects = Redirecting(u, e)]
    /\ files' = files + RedirectFiles(u, e)
    /\ queue' = rest
    /\ UNCHANGED queued

KeepModule(u, e, content, rest) ==
    /\ Keepable(u, e, content)
    /\ kept' = [modules |-> [kept.modules EXCEPT ![e] = content],
                redirects |-> Redirecting(u, e)]
    /\ files' = files + RedirectFiles(u, e) + 1
    /\ queue' = rest \o NewImports(content)
    /\ queued' = queued \cup ToSet(NewImports(content))

------------------------------------------------------------------------------
(* fetch_deno_graph_with_budget                                             *)

RequestNext ==
    /\ phase = "online"
    /\ queue # <<>>
    /\ Ask(Head(queue))
    /\ queue' = Tail(queue)
    /\ UNCHANGED <<phase, lockfile, expected, queued, kept, files, cached, damaged>>

FollowRedirect ==
    /\ phase = "online"
    /\ \E target \in Urls : Redirect(target)
    /\ UNCHANGED graphVars

ReceiveModule ==
    /\ phase = "online"
    /\ \E content \in Contents :
          /\ Receive(Bytes[content])
          /\ \/ KeepRedirect(request.from, request.url, queue)
             \/ KeepModule(request.from, request.url, content, queue)
    /\ UNCHANGED <<phase, lockfile, expected, cached, damaged>>

Publish ==
    /\ phase = "online"
    /\ request = None
    /\ queue = <<>>
    /\ phase' = "published"
    /\ cached' = kept
    /\ UNCHANGED <<lockfile, expected, queue, queued, kept, files, damaged, downloadVars>>

------------------------------------------------------------------------------
(* The cache entry afterwards                                               *)

\* Something alters or removes one cached file, or adds one.
Damage ==
    /\ phase = "published"
    /\ ~damaged
    /\ damaged' = TRUE
    /\ \E u \in Urls :
          \/ \E content \in Module \ {cached.modules[u]} :
                cached' = [cached EXCEPT !.modules[u] = content]
          \/ \E target \in (Urls \cup {None}) \ {cached.redirects[u]} :
                cached' = [cached EXCEPT !.redirects[u] = target]
    /\ UNCHANGED <<phase, lockfile, expected, queue, queued, kept, files, downloadVars>>

\* Mutation of Reopen: the count of files goes on.
ReopenCounting ==
    /\ phase = "published"
    /\ phase' = "rebuild"
    /\ allowed' \in Policies
    /\ queue' = <<Root>>
    /\ queued' = {Root}
    /\ kept' = NoFiles
    /\ UNCHANGED <<lockfile, expected, files, cached, damaged, request, requests, downloaded>>

\* The lockfile and the integrity are part of the identity of the entry, the
\* policy is not.
Reopen ==
    /\ phase = "published"
    /\ phase' = "rebuild"
    /\ allowed' \in Policies
    /\ queue' = <<Root>>
    /\ queued' = {Root}
    /\ kept' = NoFiles
    /\ files' = 0
    /\ UNCHANGED <<lockfile, expected, cached, damaged, request, requests, downloaded>>

------------------------------------------------------------------------------
(* rebuild_cached_deno_graph_before                                         *)

\* Where the redirects of the lockfile lead from u in at most MaxRedirects hops.
FinalTarget(u) ==
    LET after[hops \in 0..MaxRedirects] ==
            IF hops = 0 THEN u
            ELSE IF lockfile.redirects[after[hops - 1]] = None THEN after[hops - 1]
            ELSE lockfile.redirects[after[hops - 1]]
    IN  after[MaxRedirects]

\* The chain has an end there: a longer one, or a cycle, is an error.
ChainEnds(u) == IF lockfile = None THEN TRUE ELSE lockfile.redirects[FinalTarget(u)] = None

DeclaredTarget(u) ==
    IF lockfile = None \/ lockfile.redirects[u] = None THEN None ELSE FinalTarget(u)

\* Mutation of RedirectDeclared: the lockfile only has to confirm a redirect that
\* was cached.
RedirectDeclaredIfCached(u) ==
    cached.redirects[u] # None => cached.redirects[u] = DeclaredTarget(u)

RedirectDeclared(u) == ChainEnds(u) /\ cached.redirects[u] = DeclaredTarget(u)

CachedTarget(u) == IF cached.redirects[u] = None THEN u ELSE cached.redirects[u]

\* Mutation of WithinPolicy: where a redirect leads is not looked at.
WithinPolicyAsked(u) == Origin[u] # Origin[Root] => Permitted(u)

\* The root's own origin was authorised when the root was selected.
WithinPolicy(u) ==
    /\ Origin[u] # Origin[Root] => Permitted(u)
    /\ cached.redirects[u] # None =>
          \/ Origin[u] = Origin[Root] /\ Origin[CachedTarget(u)] = Origin[u]
          \/ Permitted(CachedTarget(u))

\* The entry tells what u is, and may.
Trusted(u) ==
    LET e == CachedTarget(u)
        text == IF kept.modules[e] # None THEN kept.modules[e] ELSE cached.modules[e]
    IN  /\ WithinPolicy(u)
        /\ RedirectDeclared(u)
        /\ text # None
        /\ Verified(u, e, text)
        /\ Supported(text)

\* And it fits: where it does not, the lookup fails, see Fail.
Rebuildable(u) ==
    LET e == CachedTarget(u)
    IN  Trusted(u) /\ (Known(u, e) \/ Keepable(u, e, cached.modules[e]))

RebuildNext ==
    /\ phase = "rebuild"
    /\ queue # <<>>
    /\ LET u == Head(queue)
           e == CachedTarget(u)
       IN  /\ Trusted(u)
           /\ \/ KeepRedirect(u, e, Tail(queue))
              \/ KeepModule(u, e, cached.modules[e], Tail(queue))
    /\ UNCHANGED <<phase, lockfile, expected, cached, damaged, downloadVars>>

\* The entry is invalid.
Reject ==
    /\ phase = "rebuild"
    /\ queue # <<>>
    /\ ~Trusted(Head(queue))
    /\ phase' = "rejected"
    /\ UNCHANGED <<lockfile, expected, queue, queued, kept, files, cached, damaged, downloadVars>>

\* Mutation of Restore: the root is enough.
RestoreRoot ==
    /\ phase = "rebuild"
    /\ KeptModules # {}
    /\ phase' = "restored"
    /\ UNCHANGED <<lockfile, expected, queue, queued, kept, files, cached, damaged, downloadVars>>

Restore ==
    /\ phase = "rebuild"
    /\ queue = <<>>
    /\ phase' = "restored"
    /\ UNCHANGED <<lockfile, expected, queue, queued, kept, files, cached, damaged, downloadVars>>

------------------------------------------------------------------------------

\* The deadline passes, the network or the disk fails, a limit is exceeded, or what was
\* asked for or received is refused.
Fail ==
    /\ phase \in {"online", "rebuild"}
    /\ phase' = "failed"
    /\ request' = None
    /\ UNCHANGED <<lockfile, expected, queue, queued, kept, files, cached, damaged,
                   allowed, requests, downloaded>>

Next ==
    \/ RequestNext \/ FollowRedirect \/ ReceiveModule \/ Publish
    \/ Damage \/ Reopen
    \/ RebuildNext \/ Reject \/ Restore
    \/ Fail

Spec == Init /\ [][Next]_vars

\* Each request is answered or fails, at its deadline at the latest.
FairSpec == Spec /\ WF_vars(Next)

------------------------------------------------------------------------------
(* Properties                                                               *)

Complete == phase \in {"published", "restored"}
Target(u) == IF kept.redirects[u] = None THEN u ELSE kept.redirects[u]

\* A graph handed on is closed: the root and every import of every module lead,
\* through the redirects written, to a module written.
GraphClosed ==
    Complete =>
        /\ Target(Root) \in KeptModules
        /\ \A e \in KeptModules :
              \A v \in ToSet(Imports[kept.modules[e]]) : Target(v) \in KeptModules

\* Every binding declared for a URL of the graph, and for where it leads, agrees with
\* the text kept, although each URL may have been answered with another text, and
\* no text is without one.
BoundToLockfile ==
    Complete =>
        \A u \in queued :
            LET text == kept.modules[Target(u)]
                bindings == IF lockfile = None THEN {}
                            ELSE {lockfile.integrity[u], lockfile.integrity[Target(u)]} \ {None}
            IN  IF u = Root THEN expected = text /\ bindings \subseteq {text}
                ELSE bindings = {text}

\* Every file is written once and counted once, and the graph is within its limit
\* (there are two checks of one limit, and the first URL passes neither).
FilesAccounted ==
    /\ files = Cardinality(KeptModules) + Cardinality({u \in Urls : kept.redirects[u] # None})
    /\ Cardinality(KeptModules) <= MaxModules
    /\ Cardinality(KeptModules) <= Cardinality(queued)

\* Nothing of a graph comes from a URL the policy in force forbids; a rebuilt graph
\* may use the root's own origin.
PolicyHolds ==
    \A e \in KeptModules :
        \/ Permitted(e)
        \/ phase \notin {"online", "published"} /\ Origin[e] = Origin[Root]

\* An entry nobody damaged is rebuilt as it was published.
RestoredAsPublished ==
    phase = "restored" /\ ~damaged => kept = cached

\* What was published is usable again, unless the lockfile does not declare its
\* redirects as they were met or the policy became narrower: limits, bindings
\* and missing files stop no rebuild of an undamaged entry.
ReusableIfDeclared ==
    phase = "rebuild" /\ ~damaged /\ queue # <<>> =>
        LET u == Head(queue)
        IN  Rebuildable(u) \/ ~RedirectDeclared(u) \/ ~WithinPolicy(u)

\* The counters of the acquisition stay within their limits, and the files are
\* those counted.
WithinLimits == TypeOK /\ FilesAccounted

\* What was published can be had again, as it was.
RebuiltAsPublished == RestoredAsPublished /\ ReusableIfDeclared

\* Redirects, cycles of imports and cycles in the lockfile all come to an end.
GraphEnds == phase \in {"online", "rebuild"} ~> phase \in GraphEnded
==============================================================================
