------------------------------ MODULE Traversal ------------------------------
(***************************************************************************)
(* The bookkeeping of one breadth-first walk over a dependency graph: the  *)
(* queue of packages to look at, what has been visited and under which     *)
(* lockfile contexts, and which acquisitions have been reserved            *)
(* (engine/traversal/state.rs).  The single-root and the batch analysis    *)
(* drive it through the operators below, one operator per loop iteration   *)
(* of the code; each maps a walk to the walk after that iteration.         *)
(*                                                                         *)
(* A walk also carries its report and the list of discoveries, as          *)
(* BatchTraversal does.                                                    *)
(***************************************************************************)
EXTENDS Naturals, Sequences, FiniteSets

CONSTANTS
    Sources,       \* package source directories
    Ids,           \* authenticated package ids (package@version#integrity)
    Keys,          \* fetch keys: what is acquired at most once per walk
    Contexts,      \* inherited npm and Python lockfile contexts
    None,          \* no id, no metadata
    Declarations,  \* what the manifests of all sources may declare, in order
    Yields,        \* metadata returned when a key is acquired
    Denotes,       \* the root whose id and URL a key's declaration names
    Gate,          \* what stands between a declaration of a key and its fetch
    Broken,        \* sources whose manifests cannot be read
    Limits         \* the engine limits considered

Metadata == [source: Sources, id: Ids \cup {None}]

\* A declaration stands in a manifest of `source` and is found
\*   - "always", when the package selects its own lockfile,
\*   - "bare", without one when no context was inherited, or
\*   - under one inherited context.
\* `variant` tells apart spellings (requirement, URL) that share a fetch key;
\* `contexts` are the child contexts handed to the dependency.
Declaration ==
    [source: Sources, under: Contexts \cup {"always", "bare"}, key: Keys,
     variant: Nat, contexts: SUBSET Contexts]

\* "ignored" packages are dropped silently; "unresolved" ones by the lockfile
\* policy and "refused" ones by prepare_fetch, each with an issue.
Gates == {"fetch", "ignored", "unresolved", "refused"}

ASSUME TraversalAssumption ==
    /\ IsFiniteSet(Sources) /\ IsFiniteSet(Keys)
    /\ None \notin Ids /\ None \notin Sources /\ None \notin Metadata
    /\ {"always", "bare"} \cap Contexts = {}
    /\ Declarations \in Seq(Declaration)
    /\ Yields \in [Keys -> Metadata]
    \* A cache directory is named by a hash of the package id, and every local
    \* snapshot has a directory of its own.
    /\ \A k, l \in Keys : Yields[k].source = Yields[l].source => Yields[k].id = Yields[l].id
    /\ Denotes \in [Keys -> Sources \cup {None}]
    /\ Gate \in [Keys -> Gates]
    /\ Broken \subseteq Sources
    /\ Limits \subseteq [packages: Nat, depth: Nat]  \* max_packages, max_package_depth

Pending ==
    [source: Sources, id: Ids \cup {None}, depth: Nat,
     contexts: SUBSET Contexts, report: BOOLEAN]

Request ==
    [key: Keys, variant: Nat, contexts: SUBSET Contexts, depth: Nat]

Issue == [kind: {"packages", "batch packages", "fetch", "preparation",
                 "resolution", "discovery"},
          about: Keys \cup Sources \cup {None}]

Walk ==
    [root: Metadata \cup {None},         \* root_fetch
     queue: Seq(Pending),
     merged: Seq(Pending),               \* next_frontier: entries of one depth
     frontier: Seq(Pending),             \* next_frontier: entries admitted
     ids: SUBSET Ids,                    \* visited_authenticated_packages
     sources: SUBSET Sources,            \* visited_sources
     contexts: [Sources -> SUBSET Contexts], \* visited_contexts
     count: Nat,                         \* visited_count
     reserved: SUBSET Keys,              \* acquisition_keys
     acquired: SUBSET Keys,              \* successful_acquisitions
     packages: Seq(Pending),             \* report.packages
     issues: SUBSET Issue,               \* report.issues
     discovered: Seq(Pending)]           \* every discovery, for the properties

\* Traversal::new: the walk starts with its root at depth 0.
NewWalk(source, root) ==
    [root |-> root,
     queue |-> <<[source |-> source,
                  id |-> IF root = None THEN None ELSE root.id,
                  depth |-> 0, contexts |-> {}, report |-> TRUE]>>,
     merged |-> <<>>, frontier |-> <<>>,
     ids |-> {}, sources |-> {}, contexts |-> [s \in Sources |-> {}],
     count |-> 0, reserved |-> {}, acquired |-> {},
     packages |-> <<>>, issues |-> {}, discovered |-> <<>>]

------------------------------------------------------------------------------
(* next_frontier, first loop: the queue's entries of one depth are merged   *)
(* by authenticated id or source.                                          *)

SamePackage(p, q) == p.source = q.source \/ (p.id # None /\ p.id = q.id)

\* Mutation of MoreToMerge: a frontier of one package.
MoreToMergeOne(w) == w.queue # <<>> /\ w.merged = <<>>

\* The frontier's depth is that of the entry it started with.
MoreToMerge(w) ==
    /\ w.queue # <<>>
    /\ w.merged # <<>> => Head(w.queue).depth = w.merged[1].depth

MergedAlike(w) ==
    {i \in DOMAIN w.merged : SamePackage(w.merged[i], Head(w.queue))}

\* Mutation of MergeNext: the contexts of later entries are lost.
MergeNextKeepingFirst(w) ==
    [w EXCEPT !.queue = Tail(@),
              !.merged = IF MergedAlike(w) = {} THEN Append(@, Head(w.queue)) ELSE @]

\* A second entry for a package only adds its contexts to the first one.
MergeNext(w) ==
    LET p == Head(w.queue)
        first == CHOOSE i \in MergedAlike(w) : \A j \in MergedAlike(w) : i <= j
    IN  IF MergedAlike(w) = {}
        THEN [w EXCEPT !.queue = Tail(@), !.merged = Append(@, p)]
        ELSE [w EXCEPT !.queue = Tail(@),
                       !.merged[first].contexts = @ \cup p.contexts]

------------------------------------------------------------------------------
(* next_frontier, second loop: visited packages come back only with         *)
(* contexts not seen at their source, the others are counted.               *)

\* Mutation of Visited: authenticated ids are not looked up.
VisitedSource(w, p) == p.source \in w.sources

Visited(w, p) == p.source \in w.sources \/ (p.id # None /\ p.id \in w.ids)

NewContexts(w, p) == p.contexts \ w.contexts[p.source]

DropRevisit(w) == [w EXCEPT !.merged = Tail(@)]

AdmitRevisit(w) ==
    LET p == Head(w.merged)
    IN  [w EXCEPT !.merged = Tail(@),
                  !.contexts[p.source] = @ \cup p.contexts,
                  !.frontier = Append(@, [p EXCEPT
                                 !.contexts = NewContexts(w, p),
                                 !.report = FALSE])]

\* Mutation of RecordVisit: the authenticated id is forgotten.
RecordVisitSource(w, p) ==
    [w EXCEPT !.sources = @ \cup {p.source},
              !.contexts[p.source] = @ \cup p.contexts,
              !.count = @ + 1]

\* A new package is recorded as visited before the limit is looked at.
RecordVisit(w, p) ==
    [w EXCEPT !.ids = IF p.id = None THEN @ ELSE @ \cup {p.id},
              !.sources = @ \cup {p.source},
              !.contexts[p.source] = @ \cup p.contexts,
              !.count = @ + 1]

AdmitFirstVisit(w) ==
    LET p == Head(w.merged)
    IN  [RecordVisit(w, p) EXCEPT !.merged = Tail(@),
                                  !.frontier = Append(@, [p EXCEPT !.report = TRUE])]

\* Over the limit the loop breaks: what is left of the frontier is dropped.
BreakAtLimit(w) ==
    LET p == Head(w.merged)
    IN  [RecordVisit(w, p) EXCEPT
            !.merged = <<>>,
            !.issues = @ \cup {[kind |-> "packages", about |-> None]}]

------------------------------------------------------------------------------
(* Manifest discovery of one frontier entry and its fetch requests.         *)

Found(p, d) ==
    /\ d.source = p.source
    /\ \/ d.under = "always"
       \/ d.under = "bare" /\ p.contexts = {}
       \/ d.under \in p.contexts

\* What a discovery of p returns in a project made of the declarations `made`.
DeclaredBy(made, p) ==
    {i \in made : p.source \notin Broken /\ Found(p, Declarations[i])}

\* A manifest that declares more than max_packages dependencies is an error of
\* its parser, not of the walk: the projects considered have none.
WithinManifestBound(made, maxPackages) ==
    \A s \in Sources :
        Cardinality({i \in made : Declarations[i].source = s}) <= maxPackages

DiscoveryIssues(p) ==
    {[kind |-> "discovery", about |-> s] : s \in {p.source} \cap Broken}

\* Analysing the frontier's head: its issues, and its place in the report on a
\* first visit.  The entry stays until its dependencies have been looked at.
AnalyzeNext(w) ==
    LET p == Head(w.frontier)
    IN  [w EXCEPT
            !.packages = IF p.report THEN Append(@, p) ELSE @,
            !.discovered = Append(@, p),
            !.issues = @ \cup DiscoveryIssues(p)]

\* Above the depth limit every dependency found is considered for a request.
DependenciesOf(w, made, maxDepth) ==
    IF Head(w.frontier).depth < maxDepth THEN DeclaredBy(made, Head(w.frontier)) ELSE {}

\* The dependencies are sorted: the first one comes next.
FirstOf(dependencies) == {i \in dependencies : \A j \in dependencies : i <= j}

\* "unresolved" ones have an issue instead of a request, "ignored" ones neither.
Requested(i) == Gate[Declarations[i].key] \in {"fetch", "refused"}

RequestFor(w, i) ==
    [key |-> Declarations[i].key, variant |-> Declarations[i].variant,
     contexts |-> Declarations[i].contexts, depth |-> Head(w.frontier).depth + 1]

NoteUnrequested(w, i) ==
    [w EXCEPT !.issues = IF Gate[Declarations[i].key] = "unresolved"
                         THEN @ \cup {[kind |-> "resolution",
                                       about |-> Declarations[i].key]}
                         ELSE @]

LeaveFrontierHead(w) == [w EXCEPT !.frontier = Tail(@)]

------------------------------------------------------------------------------
(* Acquisitions.                                                            *)

PendingFrom(request, metadata) ==
    [source |-> metadata.source, id |-> metadata.id, depth |-> request.depth,
     contexts |-> request.contexts, report |-> TRUE]

NamesRoot(w, key) == w.root # None /\ Denotes[key] = w.root.source

\* Mutation of Revisitable: a dependency on the root is a new package.
RevisitableAcquired(w, key) == key \in w.acquired

\* pending_for_revisited_acquisition returns something.
Revisitable(w, key) == key \in w.acquired \/ NamesRoot(w, key)

RevisitedMetadata(w, key) == IF key \in w.acquired THEN Yields[key] ELSE w.root

EnqueueRevisit(w, request) ==
    [w EXCEPT !.queue = Append(@, PendingFrom(request, RevisitedMetadata(w, request.key)))]

\* Mutation of Reservable: the root is not counted.
ReservableBesideRoot(w, maxPackages) == Cardinality(w.reserved) < maxPackages

\* reserve_acquisition; the root takes one of the packages allowed.
Reservable(w, maxPackages) == Cardinality(w.reserved) + 1 < maxPackages

ReserveKey(w, key) == [w EXCEPT !.reserved = @ \cup {key}]

ReportIssue(w, kind, about) ==
    [w EXCEPT !.issues = @ \cup {[kind |-> kind, about |-> about]}]

\* A fetch succeeded: the key is remembered and its package queued.
EnqueueAcquired(w, request) ==
    [w EXCEPT !.acquired = @ \cup {request.key},
              !.queue = Append(@, PendingFrom(request, Yields[request.key]))]

\* stream.buffered(n) runs the next fetch when fewer than n are running or
\* finished but not yet taken; results are taken in order, as soon as the first
\* one is there.
Window(fetches, threads) ==
    {i \in DOMAIN fetches : i <= threads /\ fetches[i].status = "waiting"}

NextToLaunch(fetches, threads) ==
    {i \in Window(fetches, threads) : \A j \in Window(fetches, threads) : i <= j}

------------------------------------------------------------------------------
(* What a finished walk owes its caller.                                    *)

LimitReported(w) == \E issue \in w.issues : issue.kind \in {"packages", "batch packages"}

Excused(w, key) ==
    \/ Gate[key] = "ignored"
    \/ \E kind \in {"fetch", "preparation", "resolution"} :
          [kind |-> kind, about |-> key] \in w.issues

\* The package a key stands for in this walk.
Target(w, key) == IF NamesRoot(w, key) THEN w.root ELSE Yields[key]

\* Every dependency found above the depth limit is in the report, no deeper
\* than one level below its finder, and was discovered under each context it
\* was handed; or there is an issue about it.
ClosedUnderDependencies(w, made, maxDepth) ==
    \A n \in DOMAIN w.discovered :
        LET p == w.discovered[n]
        IN  p.depth < maxDepth =>
              \A i \in DeclaredBy(made, p) :
                 LET d == Declarations[i]
                     t == Target(w, d.key)
                 IN  \/ Excused(w, d.key)
                     \/ /\ \E m \in DOMAIN w.packages :
                             /\ SamePackage(w.packages[m], t)
                             /\ w.packages[m].depth <= p.depth + 1
                        /\ \A c \in d.contexts :
                             \E m \in DOMAIN w.discovered :
                                /\ SamePackage(w.discovered[m], t)
                                /\ c \in w.discovered[m].contexts
                                /\ w.discovered[m].depth <= p.depth + 1

\* The keys a walk has had to acquire so far; the root is not one of them.
Demanded(w, made, maxDepth) ==
    {k \in Keys :
        /\ Gate[k] = "fetch"
        /\ ~NamesRoot(w, k)
        /\ \E n \in DOMAIN w.discovered :
             /\ w.discovered[n].depth < maxDepth
             /\ \E i \in DeclaredBy(made, w.discovered[n]) : Declarations[i].key = k}

\* No package is reported twice, by directory or by authenticated id.
OncePerPackage(w) ==
    \A m, n \in DOMAIN w.packages :
        m # n => ~SamePackage(w.packages[m], w.packages[n])
==============================================================================
