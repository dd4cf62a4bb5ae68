---------------------------- MODULE BatchAnalysis ----------------------------
(***************************************************************************)
(* The analysis of several fetched roots at once, as `remote diff` uses it *)
(* (engine/traversal/batch.rs).  Every root keeps a walk and a report of   *)
(* its own; the walks advance together, one frontier per round, so that    *)
(* a dependency several roots ask for is fetched once and its result       *)
(* shared.  Each round gathers the requests of all roots, sorts them into  *)
(* revisits, results already there and new fetches, and drops all new      *)
(* fetches of the round when they do not fit into the shared limit.        *)
(***************************************************************************)
EXTENDS Traversal

CONSTANTS
    Roots,     \* metadata of the fetched roots, in order
    Projects,  \* sets of declarations (their positions) to analyse
    Threads    \* max_analysis_threads

ASSUME BatchAssumption ==
    /\ Roots \in Seq(Metadata) \ {<<>>}
    /\ Projects \subseteq SUBSET (DOMAIN Declarations)
    /\ Threads \in Nat \ {0}
    \* The directory of a fetched root has one id, whatever is acquired later.
    /\ \A i \in DOMAIN Roots, k \in Keys :
          Yields[k].source = Roots[i].source => Yields[k].id = Roots[i].id

Batch == DOMAIN Roots

VARIABLES
    made,      \* which declarations the packages make; never changes
    limits,    \* the engine limits of this analysis; never change
    phase,     \* where the analysis is in its loop
    at,        \* the root whose frontier or requests are being looked at
    active,    \* has_frontier: some root had a frontier in this round
    walks,     \* traversal and report of each root
    found,     \* dependencies of a frontier's head still to be looked at
    requests,  \* requests of each root in this round
    asked,     \* root_keys: keys each root has asked for in this round
    revisits,  \* requests for packages the root has acquired before
    reuses,    \* requests for keys the batch has a result for
    groups,    \* new fetches with the roots that own them
    fetched,   \* results of the batch, per key
    attempts   \* keys in the order their fetch began

vars == <<made, limits, phase, at, active, walks, found, requests, asked, revisits,
          reuses, groups, fetched, attempts>>

Phases == {"start", "merge", "admit", "analyze", "request", "group", "revisit",
           "reuse", "fetch", "done", "refused"}

Owned == [root: Batch, request: Request]
Status == {"waiting", "running", "fetched", "failed"}
FetchGroup == [key: Keys, owners: Seq(Owned), status: Status]

TypeOK ==
    /\ made \in Projects
    /\ limits \in Limits
    /\ phase \in Phases
    /\ at \in Batch
    /\ active \in BOOLEAN
    /\ walks \in [Batch -> Walk]
    /\ found \subseteq DOMAIN Declarations
    /\ requests \in [Batch -> Seq(Request)]
    /\ asked \in [Batch -> SUBSET Keys]
    /\ revisits \in Seq(Owned)
    /\ reuses \in Seq(Owned)
    /\ groups \in Seq(FetchGroup)
    /\ DOMAIN fetched \subseteq Keys
    /\ \A k \in DOMAIN fetched : fetched[k] \in {"fetched", "failed"}
    /\ attempts \in Seq(Keys)

Init ==
    /\ limits \in Limits
    /\ made \in {m \in Projects : WithinManifestBound(m, limits.packages)}
    /\ phase = "start"
    /\ at = 1
    /\ active = FALSE
    /\ walks = [i \in Batch |-> NewWalk(Roots[i].source, Roots[i])]
    /\ found = {}
    /\ requests = [i \in Batch |-> <<>>]
    /\ asked = [i \in Batch |-> {}]
    /\ revisits = <<>>
    /\ reuses = <<>>
    /\ groups = <<>>
    /\ fetched = <<>>
    /\ attempts = <<>>

rigid == <<made, limits>>
round == <<asked, revisits, reuses, groups>>
results == <<fetched, attempts>>

\* More roots than packages allowed: an error instead of reports.
RefuseBatch ==
    /\ phase = "start"
    /\ Len(Roots) > limits.packages
    /\ phase' = "refused"
    /\ UNCHANGED <<rigid, found, at, active, walks, requests, round, results>>

StartBatch ==
    /\ phase = "start"
    /\ Len(Roots) <= limits.packages
    /\ phase' = "merge"
    /\ UNCHANGED <<rigid, found, at, active, walks, requests, round, results>>

------------------------------------------------------------------------------
(* discover_frontier, for one root after the other                          *)

walk == walks[at]

Merge ==
    /\ phase = "merge"
    /\ MoreToMerge(walk)
    /\ walks' = [walks EXCEPT ![at] = MergeNext(walk)]
    /\ UNCHANGED <<rigid, found, phase, at, active, requests, round, results>>

EndMerge ==
    /\ phase = "merge"
    /\ ~MoreToMerge(walk)
    /\ phase' = "admit"
    /\ UNCHANGED <<rigid, found, at, active, walks, requests, round, results>>

Admitting == phase = "admit" /\ walk.merged # <<>>

Drop ==
    /\ Admitting
    /\ Visited(walk, Head(walk.merged))
    /\ NewContexts(walk, Head(walk.merged)) = {}
    /\ walks' = [walks EXCEPT ![at] = DropRevisit(walk)]
    /\ UNCHANGED <<rigid, found, phase, at, active, requests, round, results>>

Revisit ==
    /\ Admitting
    /\ Visited(walk, Head(walk.merged))
    /\ NewContexts(walk, Head(walk.merged)) # {}
    /\ walks' = [walks EXCEPT ![at] = AdmitRevisit(walk)]
    /\ UNCHANGED <<rigid, found, phase, at, active, requests, round, results>>

\* The walk's own limit cannot be exceeded here: a batch never starts with a
\* limit of zero, and reserve_acquisition bounds the packages that come after.
\* The guard stays, as in the code.
FirstVisit ==
    /\ Admitting
    /\ ~Visited(walk, Head(walk.merged))
    /\ walks' = [walks EXCEPT ![at] = IF walk.count < limits.packages
                                      THEN AdmitFirstVisit(walk)
                                      ELSE BreakAtLimit(walk)]
    /\ UNCHANGED <<rigid, found, phase, at, active, requests, round, results>>

EndAdmit ==
    /\ phase = "admit"
    /\ walk.merged = <<>>
    /\ phase' = "analyze"
    /\ active' = (active \/ walk.frontier # <<>>)
    /\ UNCHANGED <<rigid, found, at, walks, requests, round, results>>

Analyze ==
    /\ phase = "analyze"
    /\ walk.frontier # <<>>
    /\ walks' = [walks EXCEPT ![at] = AnalyzeNext(walk)]
    /\ found' = DependenciesOf(walk, made, limits.depth)
    /\ phase' = "request"
    /\ UNCHANGED <<rigid, at, active, requests, round, results>>

\* merge_fetch_requests: equal requests become one, with all their contexts.
Merged(rs, r) ==
    LET alike == {i \in DOMAIN rs : rs[i].key = r.key /\ rs[i].variant = r.variant}
    IN  IF alike = {}
        THEN Append(rs, r)
        ELSE [i \in DOMAIN rs |->
                IF i \in alike THEN [rs[i] EXCEPT !.contexts = @ \cup r.contexts] ELSE rs[i]]

AddRequest ==
    \E i \in FirstOf(found) :
        /\ phase = "request"
        /\ Requested(i)
        /\ requests' = [requests EXCEPT ![at] = Merged(@, RequestFor(walk, i))]
        /\ found' = found \ {i}
        /\ UNCHANGED <<rigid, phase, at, active, walks, round, results>>

LeaveOut ==
    \E i \in FirstOf(found) :
        /\ phase = "request"
        /\ ~Requested(i)
        /\ walks' = [walks EXCEPT ![at] = NoteUnrequested(walk, i)]
        /\ found' = found \ {i}
        /\ UNCHANGED <<rigid, phase, at, active, requests, round, results>>

EndRequests ==
    /\ phase = "request"
    /\ found = {}
    /\ walks' = [walks EXCEPT ![at] = LeaveFrontierHead(walk)]
    /\ phase' = "analyze"
    /\ UNCHANGED <<rigid, found, at, active, requests, round, results>>

NextRoot ==
    /\ phase = "analyze"
    /\ walk.frontier = <<>>
    /\ IF at < Len(Roots)
       THEN at' = at + 1 /\ phase' = "merge"
       ELSE at' = 1 /\ phase' = IF active THEN "group" ELSE "done"
    /\ UNCHANGED <<rigid, found, active, walks, requests, round, results>>

------------------------------------------------------------------------------
(* group_batch_fetches, one request at a time, root after root              *)

Grouping == phase = "group" /\ requests[at] # <<>>

request == Head(requests[at])

Owner(i, r) == [root |-> i, request |-> r]

IsOwner(o, i, key) == o.root = i /\ o.request.key = key

\* Mutation of Join: an owner's later requests are lost.
JoinFirstOnly(owned, i, r) ==
    IF \E n \in DOMAIN owned : IsOwner(owned[n], i, r.key)
    THEN owned
    ELSE Append(owned, Owner(i, r))

\* The request joins an earlier one of the same root for the same key, or
\* stands for itself.
Join(owned, i, r) ==
    LET same == {n \in DOMAIN owned : IsOwner(owned[n], i, r.key)}
    IN  IF same = {}
        THEN Append(owned, Owner(i, r))
        ELSE [n \in DOMAIN owned |->
                IF n \in same
                THEN [owned[n] EXCEPT !.request.contexts = @ \cup r.contexts]
                ELSE owned[n]]

TakeRequest == requests' = [requests EXCEPT ![at] = Tail(@)]

Asked == asked' = [asked EXCEPT ![at] = @ \cup {request.key}]

Refuse ==
    /\ Grouping
    /\ Gate[request.key] = "refused"
    /\ TakeRequest
    /\ walks' = [walks EXCEPT ![at] = ReportIssue(@, "preparation", request.key)]
    /\ UNCHANGED <<rigid, found, phase, at, active, round, results>>

NotedRevisit == \E n \in DOMAIN revisits : IsOwner(revisits[n], at, request.key)

\* The key was acquired on an earlier round, or names the root; later requests
\* of this round for it add their contexts.
NoteRevisit ==
    /\ Grouping
    /\ Gate[request.key] # "refused"
    /\ \/ NotedRevisit
       \/ request.key \notin asked[at] /\ Revisitable(walk, request.key)
    /\ TakeRequest
    /\ Asked
    /\ revisits' = Join(revisits, at, request)
    /\ UNCHANGED <<rigid, found, phase, at, active, walks, reuses, groups, results>>

NewlyAsked ==
    /\ Grouping
    /\ Gate[request.key] # "refused"
    /\ ~NotedRevisit
    /\ request.key \notin asked[at]
    /\ ~Revisitable(walk, request.key)

\* Reserved on an earlier round, then failed or dropped at the shared limit.
SkipReserved ==
    /\ NewlyAsked
    /\ request.key \in walk.reserved
    /\ TakeRequest
    /\ Asked
    /\ UNCHANGED <<rigid, found, phase, at, active, walks, revisits, reuses,
                   groups, results>>

\* The walk's own limit; the other requests of the root are still looked at.
RefuseOverLimit ==
    /\ NewlyAsked
    /\ request.key \notin walk.reserved
    /\ ~Reservable(walk, limits.packages)
    /\ TakeRequest
    /\ walks' = [walks EXCEPT ![at] = ReportIssue(@, "packages", None)]
    /\ UNCHANGED <<rigid, found, phase, at, active, round, results>>

\* The key is reserved now, or this round has asked for it before.
Admitted ==
    /\ Grouping
    /\ Gate[request.key] # "refused"
    /\ ~NotedRevisit
    /\ request.key \notin asked[at] =>
         /\ ~Revisitable(walk, request.key)
         /\ request.key \notin walk.reserved
         /\ Reservable(walk, limits.packages)

Reuse ==
    /\ Admitted
    /\ request.key \in DOMAIN fetched
    /\ TakeRequest
    /\ Asked
    /\ walks' = [walks EXCEPT ![at] = ReserveKey(@, request.key)]
    /\ reuses' = Join(reuses, at, request)
    /\ UNCHANGED <<rigid, found, phase, at, active, revisits, groups, results>>

Group ==
    LET same == {n \in DOMAIN groups : groups[n].key = request.key}
    IN  /\ Admitted
        /\ request.key \notin DOMAIN fetched
        /\ TakeRequest
        /\ Asked
        /\ walks' = [walks EXCEPT ![at] = ReserveKey(@, request.key)]
        /\ groups' = IF same = {}
                     THEN Append(groups, [key |-> request.key,
                                          owners |-> <<Owner(at, request)>>,
                                          status |-> "waiting"])
                     ELSE [n \in DOMAIN groups |->
                             IF n \in same
                             THEN [groups[n] EXCEPT !.owners = Join(@, at, request)]
                             ELSE groups[n]]
        /\ UNCHANGED <<rigid, found, phase, at, active, revisits, reuses, results>>

NextRequests ==
    /\ phase = "group"
    /\ requests[at] = <<>>
    /\ IF at < Len(Roots)
       THEN at' = at + 1 /\ UNCHANGED phase
       ELSE at' = 1 /\ phase' = "revisit"
    /\ UNCHANGED <<rigid, found, active, walks, requests, round, results>>

ApplyRevisit ==
    /\ phase = "revisit"
    /\ revisits # <<>>
    /\ walks' = [walks EXCEPT ![Head(revisits).root] =
                                  EnqueueRevisit(@, Head(revisits).request)]
    /\ revisits' = Tail(revisits)
    /\ UNCHANGED <<rigid, found, phase, at, active, requests, asked, reuses,
                   groups, results>>

EndRevisits ==
    /\ phase = "revisit"
    /\ revisits = <<>>
    /\ phase' = "reuse"
    /\ UNCHANGED <<rigid, found, at, active, walks, requests, round, results>>

\* apply_batch_fetch_result
Apply(w, r, outcome) ==
    IF outcome = "fetched" THEN EnqueueAcquired(w, r) ELSE ReportIssue(w, "fetch", r.key)

ApplyReuse ==
    LET o == Head(reuses)
    IN  /\ phase = "reuse"
        /\ reuses # <<>>
        /\ walks' = [walks EXCEPT ![o.root] =
                        Apply(@, o.request, fetched[o.request.key])]
        /\ reuses' = Tail(reuses)
        /\ UNCHANGED <<rigid, found, phase, at, active, requests, asked,
                       revisits, groups, results>>

------------------------------------------------------------------------------
(* fetch_batch_dependencies                                                 *)

\* Mutation of UniqueWork: failed fetches are not counted.
SuccessfulWork ==
    Len(Roots) + Cardinality({k \in DOMAIN fetched : fetched[k] = "fetched"})

UniqueWork == Len(Roots) + Cardinality(DOMAIN fetched)

\* Mutation of WithinBatchLimit: one package too few.
BelowBatchLimit == UniqueWork + Len(groups) < limits.packages

WithinBatchLimit == UniqueWork + Len(groups) <= limits.packages

StartFetches ==
    /\ phase = "reuse"
    /\ reuses = <<>>
    /\ groups = <<>> \/ WithinBatchLimit
    /\ phase' = "fetch"
    /\ UNCHANGED <<rigid, found, at, active, walks, requests, round, results>>

\* None of the round's fetches is made; every owner's report says so.
RefuseRound ==
    /\ phase = "reuse"
    /\ reuses = <<>>
    /\ groups # <<>>
    /\ ~WithinBatchLimit
    /\ walks' = [i \in Batch |->
                    IF \E n \in DOMAIN groups : \E m \in DOMAIN groups[n].owners :
                          groups[n].owners[m].root = i
                    THEN ReportIssue(walks[i], "batch packages", None)
                    ELSE walks[i]]
    /\ groups' = <<>>
    /\ phase' = "fetch"
    /\ UNCHANGED <<rigid, found, at, active, requests, asked, revisits, reuses,
                   results>>

Launch ==
    \E n \in NextToLaunch(groups, Threads) :
        /\ phase = "fetch"
        /\ groups' = [groups EXCEPT ![n].status = "running"]
        /\ attempts' = Append(attempts, groups[n].key)
        /\ UNCHANGED <<rigid, found, phase, at, active, walks, requests, asked, revisits,
                       reuses, fetched>>

Complete(n) ==
    /\ phase = "fetch"
    /\ groups[n].status = "running"
    /\ \E outcome \in {"fetched", "failed"} :
          groups' = [groups EXCEPT ![n].status = outcome]
    /\ UNCHANGED <<rigid, found, phase, at, active, walks, requests, asked, revisits,
                   reuses, results>>

\* The results are collected in order and applied to every owner.  Nothing
\* reads a walk while fetches run, so each is applied as it is collected.
TakeResult ==
    LET g == Head(groups)
        RequestOf(i) == g.owners[CHOOSE m \in DOMAIN g.owners : g.owners[m].root = i].request
    IN  /\ phase = "fetch"
        /\ groups # <<>>
        /\ g.status \in {"fetched", "failed"}
        /\ walks' = [i \in Batch |->
                        IF \E m \in DOMAIN g.owners : g.owners[m].root = i
                        THEN Apply(walks[i], RequestOf(i), g.status)
                        ELSE walks[i]]
        /\ fetched' = [k \in DOMAIN fetched \cup {g.key} |->
                          IF k = g.key THEN g.status ELSE fetched[k]]
        /\ groups' = Tail(groups)
        /\ UNCHANGED <<rigid, found, phase, at, active, requests, asked, revisits, reuses,
                       attempts>>

\* Mutation of NextRound: has_frontier is not reset.
NextRoundStillActive ==
    /\ phase = "fetch"
    /\ groups = <<>>
    /\ phase' = "merge"
    /\ at' = 1
    /\ asked' = [i \in Batch |-> {}]
    /\ UNCHANGED <<rigid, found, active, walks, requests, revisits, reuses,
                   groups, results>>

NextRound ==
    /\ phase = "fetch"
    /\ groups = <<>>
    /\ phase' = "merge"
    /\ at' = 1
    /\ active' = FALSE
    /\ asked' = [i \in Batch |-> {}]
    /\ UNCHANGED <<rigid, found, walks, requests, revisits, reuses, groups,
                   results>>

DiscoverFrontiers ==
    \/ Merge \/ EndMerge \/ Drop \/ Revisit \/ FirstVisit \/ EndAdmit
    \/ Analyze \/ AddRequest \/ LeaveOut \/ EndRequests \/ NextRoot

GroupRequests ==
    \/ Refuse \/ NoteRevisit \/ SkipReserved \/ RefuseOverLimit \/ Reuse \/ Group
    \/ NextRequests \/ ApplyRevisit \/ EndRevisits \/ ApplyReuse

FetchGroups ==
    \/ StartFetches \/ RefuseRound \/ Launch
    \/ \E n \in DOMAIN groups : Complete(n)
    \/ TakeResult \/ NextRound

Next == RefuseBatch \/ StartBatch \/ DiscoverFrontiers \/ GroupRequests \/ FetchGroups

\* One task drives the loop, and every fetch ends within its deadline.
Fairness == WF_vars(Next)

Spec == Init /\ [][Next]_vars /\ Fairness

------------------------------------------------------------------------------
(* Properties                                                               *)

\* In each report a package stands once.
ReportedOnce == \A i \in Batch : OncePerPackage(walks[i])

\* A dependency shared by several roots is fetched once, and the roots and all
\* fetches begun stay together within max_packages, failed fetches included
\* (docs of Engine::analyze_fetched_roots).
SharedWorkBounded ==
    /\ \A m, n \in DOMAIN attempts : m # n => attempts[m] # attempts[n]
    /\ phase # "start" /\ phase # "refused" =>
          Len(Roots) + Len(attempts) <= limits.packages

\* Sharing fetches takes nothing from any report: each root's report follows
\* its own dependency closure, unless it names the limit that cut it short.
IndependentClosures ==
    phase = "done" =>
        \A i \in Batch : \/ LimitReported(walks[i])
                         \/ ClosedUnderDependencies(walks[i], made, limits.depth)

\* A report names a package limit only when its own walk, or the batch as a
\* whole, needed more packages than allowed.
LimitOnlyWhenExceeded ==
    \A i \in Batch : LimitReported(walks[i]) =>
        Len(Roots) + Cardinality(UNION {Demanded(walks[j], made, limits.depth) : j \in Batch})
            > limits.packages

\* When the rounds end no walk has packages left to look at.
NothingLeftQueued ==
    phase = "done" => \A i \in Batch : walks[i].queue = <<>>

\* What the walks of a batch hold at any time: typed, each package once in each
\* report, and nothing left behind at the end.
WalksSound == TypeOK /\ ReportedOnce /\ NothingLeftQueued

\* Each root's report names the limit of the batch if that was needed and only
\* then; without it the report has the root's whole closure.
WholeOrLimited == IndependentClosures /\ LimitOnlyWhenExceeded

\* Every batch comes to an end.
Terminates == <>(phase \in {"done", "refused"})
==============================================================================
