--------------------------- MODULE SingleAnalysis ---------------------------
(***************************************************************************)
(* The analysis of one project (engine/traversal/single.rs): level by      *)
(* level, a frontier is taken from the walk's queue, scanned and searched  *)
(* for manifests, its fetch requests are grouped by key, new keys are      *)
(* reserved against the package limit, and the reserved ones are fetched   *)
(* concurrently.  The loop ends at the first empty frontier.               *)
(***************************************************************************)
EXTENDS Traversal

CONSTANTS
    Root,          \* the project's canonical root directory
    RootMetadata,  \* None for `scan`, the metadata of a fetched root
    Projects,      \* sets of declarations (their positions) to analyse
    Threads        \* max_analysis_threads

\* The package the walk starts with; a local project has no id.
Start == IF RootMetadata = None THEN [source |-> Root, id |-> None] ELSE RootMetadata

\* An acquisition yields a directory of the cache or of the workspace, so it
\* meets the root only where the root was fetched itself, under its own id.
ASSUME SingleAssumption ==
    /\ Root \in Sources
    /\ RootMetadata \in {[source |-> Root, id |-> i] : i \in Ids \cup {None}} \cup {None}
    /\ Projects \subseteq SUBSET (DOMAIN Declarations)
    /\ Threads \in Nat \ {0}
    /\ \A k \in Keys : Yields[k].source = Root => Yields[k].id = Start.id

VARIABLES
    made,      \* which declarations this project makes; never changes
    limits,    \* the engine limits of this analysis; never change
    phase,     \* where the analysis is in its loop
    walk,      \* traversal and report
    found,     \* dependencies of the frontier's head still to be looked at
    requests,  \* requests of the frontier, not yet prepared
    groups,    \* prepared requests, one per key
    fetches,   \* reserved groups whose result has not been taken
    attempts   \* keys in the order their fetch began

vars == <<made, limits, phase, walk, found, requests, groups, fetches, attempts>>

Phases == {"merge", "admit", "analyze", "request", "prepare", "reserve", "fetch", "done"}

Fetch == [key: Keys, variant: Nat, contexts: SUBSET Contexts, depth: Nat,
          status: {"waiting", "running", "fetched", "failed"}]

TypeOK ==
    /\ made \in Projects
    /\ limits \in Limits
    /\ phase \in Phases
    /\ walk \in Walk
    /\ found \subseteq DOMAIN Declarations
    /\ requests \in Seq(Request)
    /\ groups \in Seq(Request)
    /\ fetches \in Seq(Fetch)
    /\ attempts \in Seq(Keys)

Init ==
    /\ limits \in Limits
    /\ made \in {m \in Projects : WithinManifestBound(m, limits.packages)}
    /\ phase = "merge"
    /\ walk = NewWalk(Root, RootMetadata)
    /\ found = {}
    /\ requests = <<>>
    /\ groups = <<>>
    /\ fetches = <<>>
    /\ attempts = <<>>

------------------------------------------------------------------------------
(* next_frontier                                                            *)

Merge ==
    /\ phase = "merge"
    /\ MoreToMerge(walk)
    /\ walk' = MergeNext(walk)
    /\ UNCHANGED <<made, limits, phase, found, requests, groups, fetches, attempts>>

\* An empty queue gives an empty frontier at once.
EndMerge ==
    /\ phase = "merge"
    /\ ~MoreToMerge(walk)
    /\ phase' = "admit"
    /\ UNCHANGED <<made, limits, walk, found, requests, groups, fetches, attempts>>

Admitting == phase = "admit" /\ walk.merged # <<>>

Drop ==
    /\ Admitting
    /\ Visited(walk, Head(walk.merged))
    /\ NewContexts(walk, Head(walk.merged)) = {}
    /\ walk' = DropRevisit(walk)
    /\ UNCHANGED <<made, limits, phase, found, requests, groups, fetches, attempts>>

Revisit ==
    /\ Admitting
    /\ Visited(walk, Head(walk.merged))
    /\ NewContexts(walk, Head(walk.merged)) # {}
    /\ walk' = AdmitRevisit(walk)
    /\ UNCHANGED <<made, limits, phase, found, requests, groups, fetches, attempts>>

FirstVisit ==
    /\ Admitting
    /\ ~Visited(walk, Head(walk.merged))
    /\ walk.count < limits.packages
    /\ walk' = AdmitFirstVisit(walk)
    /\ UNCHANGED <<made, limits, phase, found, requests, groups, fetches, attempts>>

OverLimit ==
    /\ Admitting
    /\ ~Visited(walk, Head(walk.merged))
    /\ walk.count >= limits.packages
    /\ walk' = BreakAtLimit(walk)
    /\ UNCHANGED <<made, limits, phase, found, requests, groups, fetches, attempts>>

EndAdmit ==
    /\ phase = "admit"
    /\ walk.merged = <<>>
    /\ phase' = IF walk.frontier = <<>> THEN "done" ELSE "analyze"
    /\ UNCHANGED <<made, limits, walk, found, requests, groups, fetches, attempts>>

------------------------------------------------------------------------------
(* analyze_frontier: the scans and discoveries run concurrently, but their  *)
(* results are taken in the frontier's order once all of them are there.    *)

Analyze ==
    /\ phase = "analyze"
    /\ walk.frontier # <<>>
    /\ walk' = AnalyzeNext(walk)
    /\ found' = DependenciesOf(walk, made, limits.depth)
    /\ phase' = "request"
    /\ UNCHANGED <<made, limits, requests, groups, fetches, attempts>>

AddRequest ==
    \E i \in FirstOf(found) :
        /\ phase = "request"
        /\ Requested(i)
        /\ requests' = Append(requests, RequestFor(walk, i))
        /\ found' = found \ {i}
        /\ UNCHANGED <<made, limits, phase, walk, groups, fetches, attempts>>

LeaveOut ==
    \E i \in FirstOf(found) :
        /\ phase = "request"
        /\ ~Requested(i)
        /\ walk' = NoteUnrequested(walk, i)
        /\ found' = found \ {i}
        /\ UNCHANGED <<made, limits, phase, requests, groups, fetches, attempts>>

EndRequests ==
    /\ phase = "request"
    /\ found = {}
    /\ walk' = LeaveFrontierHead(walk)
    /\ phase' = "analyze"
    /\ UNCHANGED <<made, limits, found, requests, groups, fetches, attempts>>

EndAnalyze ==
    /\ phase = "analyze"
    /\ walk.frontier = <<>>
    /\ phase' = "prepare"
    /\ UNCHANGED <<made, limits, walk, found, requests, groups, fetches, attempts>>

------------------------------------------------------------------------------
(* fetch_dependencies                                                       *)

Preparing == phase = "prepare" /\ requests # <<>>

Refuse ==
    /\ Preparing
    /\ Gate[Head(requests).key] = "refused"
    /\ walk' = ReportIssue(walk, "preparation", Head(requests).key)
    /\ requests' = Tail(requests)
    /\ UNCHANGED <<made, limits, phase, found, groups, fetches, attempts>>

\* Requests with one fetch key become one group with all their contexts.
Group ==
    LET r == Head(requests)
        alike == {i \in DOMAIN groups : groups[i].key = r.key}
    IN  /\ Preparing
        /\ Gate[r.key] # "refused"
        /\ requests' = Tail(requests)
        /\ groups' = IF alike = {}
                     THEN Append(groups, r)
                     ELSE [i \in DOMAIN groups |->
                             IF i \in alike
                             THEN [groups[i] EXCEPT !.contexts = @ \cup r.contexts]
                             ELSE groups[i]]
        /\ UNCHANGED <<made, limits, phase, walk, found, fetches, attempts>>

EndPrepare ==
    /\ phase = "prepare"
    /\ requests = <<>>
    /\ phase' = "reserve"
    /\ UNCHANGED <<made, limits, walk, found, requests, groups, fetches, attempts>>

Reserving == phase = "reserve" /\ groups # <<>>

ReuseAcquisition ==
    /\ Reserving
    /\ Revisitable(walk, Head(groups).key)
    /\ walk' = EnqueueRevisit(walk, Head(groups))
    /\ groups' = Tail(groups)
    /\ UNCHANGED <<made, limits, phase, found, requests, fetches, attempts>>

\* The key was reserved on an earlier level and its fetch failed.
SkipFailed ==
    /\ Reserving
    /\ ~Revisitable(walk, Head(groups).key)
    /\ Head(groups).key \in walk.reserved
    /\ groups' = Tail(groups)
    /\ UNCHANGED <<made, limits, phase, walk, found, requests, fetches, attempts>>

Reserve ==
    LET g == Head(groups)
    IN  /\ Reserving
        /\ ~Revisitable(walk, g.key)
        /\ g.key \notin walk.reserved
        /\ Reservable(walk, limits.packages)
        /\ walk' = ReserveKey(walk, g.key)
        /\ fetches' = Append(fetches,
                        [key |-> g.key, variant |-> g.variant,
                         contexts |-> g.contexts, depth |-> g.depth,
                         status |-> "waiting"])
        /\ groups' = Tail(groups)
        /\ UNCHANGED <<made, limits, phase, found, requests, attempts>>

\* The loop breaks: the groups behind this one are dropped, revisits included.
RefuseOverLimit ==
    /\ Reserving
    /\ ~Revisitable(walk, Head(groups).key)
    /\ Head(groups).key \notin walk.reserved
    /\ ~Reservable(walk, limits.packages)
    /\ walk' = ReportIssue(walk, "packages", None)
    /\ groups' = <<>>
    /\ UNCHANGED <<made, limits, phase, found, requests, fetches, attempts>>

EndReserve ==
    /\ phase = "reserve"
    /\ groups = <<>>
    /\ phase' = "fetch"
    /\ UNCHANGED <<made, limits, walk, found, requests, groups, fetches, attempts>>

Launch ==
    \E i \in NextToLaunch(fetches, Threads) :
        /\ phase = "fetch"
        /\ fetches' = [fetches EXCEPT ![i].status = "running"]
        /\ attempts' = Append(attempts, fetches[i].key)
        /\ UNCHANGED <<made, limits, phase, walk, found, requests, groups>>

Complete(i) ==
    /\ phase = "fetch"
    /\ fetches[i].status = "running"
    /\ \E outcome \in {"fetched", "failed"} :
          fetches' = [fetches EXCEPT ![i].status = outcome]
    /\ UNCHANGED <<made, limits, phase, walk, found, requests, groups, attempts>>

TakeFetched ==
    /\ phase = "fetch"
    /\ fetches # <<>>
    /\ Head(fetches).status = "fetched"
    /\ walk' = EnqueueAcquired(walk, Head(fetches))
    /\ fetches' = Tail(fetches)
    /\ UNCHANGED <<made, limits, phase, found, requests, groups, attempts>>

\* Mutation of TakeFailed: a failed fetch is tried again.
TakeFailedRetry ==
    /\ phase = "fetch"
    /\ fetches # <<>>
    /\ Head(fetches).status = "failed"
    /\ fetches' = [fetches EXCEPT ![1].status = "running"]
    /\ UNCHANGED <<made, limits, phase, walk, found, requests, groups, attempts>>

TakeFailed ==
    /\ phase = "fetch"
    /\ fetches # <<>>
    /\ Head(fetches).status = "failed"
    /\ walk' = ReportIssue(walk, "fetch", Head(fetches).key)
    /\ fetches' = Tail(fetches)
    /\ UNCHANGED <<made, limits, phase, found, requests, groups, attempts>>

EndFetch ==
    /\ phase = "fetch"
    /\ fetches = <<>>
    /\ phase' = "merge"
    /\ UNCHANGED <<made, limits, walk, found, requests, groups, fetches, attempts>>

NextFrontier == Merge \/ EndMerge \/ Drop \/ Revisit \/ FirstVisit \/ OverLimit \/ EndAdmit

AnalyzeFrontier == Analyze \/ AddRequest \/ LeaveOut \/ EndRequests \/ EndAnalyze

FetchDependencies ==
    \/ Refuse \/ Group \/ EndPrepare
    \/ ReuseAcquisition \/ SkipFailed \/ Reserve \/ RefuseOverLimit \/ EndReserve
    \/ Launch \/ \E i \in DOMAIN fetches : Complete(i)
    \/ TakeFetched \/ TakeFailed \/ EndFetch

Next == NextFrontier \/ AnalyzeFrontier \/ FetchDependencies

\* One task drives the loop, and every fetch ends within its deadline.
Fairness == WF_vars(Next)

Spec == Init /\ [][Next]_vars /\ Fairness

------------------------------------------------------------------------------
(* Properties                                                               *)

\* A package reached along several edges, at several depths or again under
\* other lockfile contexts is scanned and reported once (next_frontier).
ReportedOnce == OncePerPackage(walk)

\* No key is fetched twice, and the root and the fetches begun together stay
\* within max_packages, failed fetches included (reserve_acquisition); neither
\* does the report grow beyond it (next_frontier).
WithinPackageLimit ==
    /\ \A m, n \in DOMAIN attempts : m # n => attempts[m] # attempts[n]
    /\ attempts # <<>> => Len(attempts) + 1 <= limits.packages
    /\ Len(walk.packages) <= limits.packages

\* A finished analysis that names no package limit has followed every
\* dependency it discovered above the depth limit, at the least depth and under
\* every context, or has an issue about it: nothing is lost in merging
\* frontiers, grouping requests and reusing acquisitions.
NothingLostSilently ==
    phase = "done" => \/ LimitReported(walk)
                      \/ ClosedUnderDependencies(walk, made, limits.depth)

\* The package limit is only reported when more packages were asked for than it
\* allows: cycles, repeated keys and dependencies on the root use none of it
\* (engine/tests/limits/revisited.rs).
LimitOnlyWhenExceeded ==
    LimitReported(walk) =>
        Cardinality(Demanded(walk, made, limits.depth)) + 1 > limits.packages

\* The loop ends at an empty frontier, and then nothing is left in the queue:
\* next_frontier takes the entries of one depth only, so an entry of another
\* depth behind an empty frontier would never be analysed.
NothingLeftQueued == phase = "done" => walk.queue = <<>>

\* What the walk holds at any time: typed, each package once and within
\* max_packages, and nothing left behind at the end.
WalkSound == TypeOK /\ ReportedOnce /\ WithinPackageLimit /\ NothingLeftQueued

\* A report names the package limit if it was needed and only then; without it
\* every dependency has been followed or has an issue.
WholeOrLimited == NothingLostSilently /\ LimitOnlyWhenExceeded

\* Cycles end: every analysis finishes.
Terminates == <>(phase = "done")
==============================================================================
