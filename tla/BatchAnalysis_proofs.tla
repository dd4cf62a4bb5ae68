------------------------ MODULE BatchAnalysis_proofs ------------------------
(* Proofs about the analysis of several fetched roots, for every list of       *)
(* roots, every graph of declarations and all limits: each report has each     *)
(* package once, a shared dependency is fetched once, roots and fetches stay   *)
(* within max_packages, and no walk ends with packages left to look at.        *)
EXTENDS BatchAnalysis, Traversal_proofs

Discovering == {"merge", "admit", "analyze", "request"}

\* Where entries can be in each phase of a round.
Stages ==
    /\ phase = "start" => at = 1
    /\ \A i \in Batch : walks[i].merged # <<>> => i = at /\ phase \in {"merge", "admit"}
    /\ \A i \in Batch : walks[i].frontier # <<>> => i = at /\ phase \in {"admit", "analyze", "request"}
    /\ phase = "request" => walk.frontier # <<>>
    /\ \A i \in Batch : requests[i] # <<>> =>
          phase \in Discovering \cup {"done"} \/ (phase = "group" /\ i >= at)
    /\ revisits # <<>> => phase \in {"group", "revisit"}
    /\ reuses # <<>> => phase \in {"group", "revisit", "reuse"}
    /\ groups # <<>> => phase \in {"group", "revisit", "reuse", "fetch"}

\* Roots whose queue has not been merged in this round.
Unmerged(i) ==
    \/ phase = "start"
    \/ phase \in Discovering /\ (i > at \/ (i = at /\ phase = "merge"))

OwnersAtDepth(owned, d) == \A n \in DOMAIN owned : owned[n].request.depth = d

\* All walks of a round are at one depth d, and what they ask for at the next.
LevelAt(d) ==
    /\ \A i \in Batch : AtDepth(walks[i].merged, d) /\ AtDepth(walks[i].frontier, d)
    /\ \A i \in Batch : AtDepth(requests[i], d + 1)
    /\ OwnersAtDepth(revisits, d + 1)
    /\ OwnersAtDepth(reuses, d + 1)
    /\ \A n \in DOMAIN groups : OwnersAtDepth(groups[n].owners, d + 1)
    /\ \A i \in Batch : Unmerged(i) => AtDepth(walks[i].queue, d)
    /\ phase \in {"revisit", "reuse", "fetch"} =>
          \A i \in Batch : AtDepth(walks[i].queue, d + 1)

Levels ==
    /\ \A i \in Batch :
          phase \in Discovering \cup {"group", "done"} /\ ~Unmerged(i) => walks[i].queue = <<>>
    /\ \E d \in Nat : LevelAt(d)

\* Each package once in each report; the head of a frontier has its place there
\* once its dependencies are looked at.
Looked(i) == phase = "request" /\ i = at

Reported == \A i \in Batch : Once(walks[i], Looked(i))

\* A revisit is about a package its walk has acquired, or about its root.
Acquired == \A n \in DOMAIN revisits : Revisitable(walks[revisits[n].root], revisits[n].request.key)

\* What has been fetched and what is being fetched has keys of its own, and
\* fits into max_packages beside the roots once the fetches begin.
Shared ==
    /\ \A m, n \in DOMAIN attempts : m # n => attempts[m] # attempts[n]
    /\ \A m \in DOMAIN attempts :
          \/ attempts[m] \in DOMAIN fetched
          \/ \E n \in DOMAIN groups : groups[n].status # "waiting" /\ groups[n].key = attempts[m]
    /\ \A m, n \in DOMAIN groups : m # n => groups[m].key # groups[n].key
    /\ \A n \in DOMAIN groups : groups[n].key \notin DOMAIN fetched
    /\ phase # "fetch" => \A n \in DOMAIN groups : groups[n].status = "waiting"
    /\ phase \in {"start", "refused"} => DOMAIN fetched = {}
    /\ phase \notin {"start", "refused"} => UniqueWork <= limits.packages
    /\ phase = "fetch" => UniqueWork + Len(groups) <= limits.packages

IInv == TypeOK /\ Stages /\ Levels /\ Reported /\ Acquired /\ Shared

-----------------------------------------------------------------------------
(* The helpers that merge requests.                                            *)

\* Merging a request into a root's requests.
LEMMA MergedRequests ==
    ASSUME NEW rs \in Seq(Request), NEW r \in Request
    PROVE  /\ Merged(rs, r) \in Seq(Request)
           /\ \A d : AtDepth(rs, d) /\ r.depth = d => AtDepth(Merged(rs, r), d)
<1> DEFINE alike == {i \in DOMAIN rs : rs[i].key = r.key /\ rs[i].variant = r.variant}
           widened == [i \in DOMAIN rs |->
                         IF i \in alike THEN [rs[i] EXCEPT !.contexts = @ \cup r.contexts] ELSE rs[i]]
<1>1. \A i \in DOMAIN rs : rs[i] \in Request
    OBVIOUS
<1>2. \A i \in DOMAIN rs : widened[i] \in Request /\ widened[i].depth = rs[i].depth
    BY <1>1 DEF Request
<1>3. DOMAIN widened = DOMAIN rs /\ widened = [i \in DOMAIN rs |-> widened[i]]
    OBVIOUS
<1>4. Merged(rs, r) = IF alike = {} THEN Append(rs, r) ELSE widened
    BY DEF Merged
<1>5. Append(rs, r) \in Seq(Request) /\ \A d : AtDepth(rs, d) /\ r.depth = d => AtDepth(Append(rs, r), d)
    BY Appended, DepthKept
<1> HIDE DEF widened, alike
<1>6. widened \in Seq(Request)
    BY <1>2, <1>3, Rewritten
<1>7. \A d : AtDepth(rs, d) => AtDepth(widened, d)
    BY <1>2, <1>3 DEF AtDepth
<1> QED
    BY <1>4, <1>5, <1>6, <1>7

\* Joining a request to those of the same root for the same key.
LEMMA Joined ==
    ASSUME NEW owned \in Seq(Owned), NEW i \in Batch, NEW r \in Request
    PROVE  /\ Join(owned, i, r) \in Seq(Owned)
           /\ \A d : OwnersAtDepth(owned, d) /\ r.depth = d => OwnersAtDepth(Join(owned, i, r), d)
           /\ \A n \in DOMAIN Join(owned, i, r) :
                 \/ IsOwner(Join(owned, i, r)[n], i, r.key)
                 \/ \E m \in DOMAIN owned :
                       IsOwner(Join(owned, i, r)[n], owned[m].root, owned[m].request.key)
<1> DEFINE same == {n \in DOMAIN owned : IsOwner(owned[n], i, r.key)}
           widened == [n \in DOMAIN owned |->
                         IF n \in same THEN [owned[n] EXCEPT !.request.contexts = @ \cup r.contexts]
                         ELSE owned[n]]
           new == Owner(i, r)
<1>1. \A n \in DOMAIN owned : owned[n] \in Owned
    OBVIOUS
<1>2. \A n \in DOMAIN owned : /\ widened[n] \in Owned
                              /\ widened[n].request.depth = owned[n].request.depth
                              /\ widened[n].request.key = owned[n].request.key
                              /\ widened[n].root = owned[n].root
  <2> TAKE n \in DOMAIN owned
  <2> DEFINE o == owned[n]
             q == [o.request EXCEPT !.contexts = @ \cup r.contexts]
  <2>1. o \in Owned /\ o.request \in Request
    BY <1>1 DEF Owned
  <2>2. q \in Request /\ q.depth = o.request.depth /\ q.key = o.request.key
    BY <2>1 DEF Request
  <2>3. [o EXCEPT !.request.contexts = @ \cup r.contexts] = [o EXCEPT !.request = q]
    BY <2>1 DEF Owned
  <2>4. widened[n] = [o EXCEPT !.request = q] \/ widened[n] = o
    BY <2>3
  <2> HIDE DEF widened, q
  <2>5. [o EXCEPT !.request = q] \in Owned /\ [o EXCEPT !.request = q].request = q
        /\ [o EXCEPT !.request = q].root = o.root
    BY <2>1, <2>2 DEF Owned
  <2> QED
    BY <2>1, <2>2, <2>4, <2>5
<1>3. DOMAIN widened = DOMAIN owned /\ widened = [n \in DOMAIN owned |-> widened[n]]
    OBVIOUS
<1>4. Join(owned, i, r) = IF same = {} THEN Append(owned, new) ELSE widened
    BY DEF Join
<1>5. new \in Owned /\ new.root = i /\ new.request = r
    BY DEF Owner, Owned
<1> HIDE DEF widened, same, new
<1>6. CASE same = {}
  <2>1. /\ Append(owned, new) \in Seq(Owned)
        /\ \A n \in DOMAIN Append(owned, new) :
              \/ n \in DOMAIN owned /\ Append(owned, new)[n] = owned[n]
              \/ Append(owned, new)[n] = new
    BY <1>5, Appended
  <2> QED
    BY <1>4, <1>5, <1>6, <2>1 DEF OwnersAtDepth, IsOwner
<1>7. CASE same # {}
  <2>1. widened \in Seq(Owned)
    BY <1>2, <1>3, Rewritten
  <2> QED
    BY <1>2, <1>3, <1>4, <1>7, <2>1 DEF OwnersAtDepth, IsOwner
<1> QED
    BY <1>6, <1>7

-----------------------------------------------------------------------------
(* Type correctness, with the stages.                                          *)

\* A batch begins with its packages queued and nothing under way.
LEMMA TypeInit == Init => TypeOK /\ Stages
<1> SUFFICES ASSUME Init PROVE TypeOK /\ Stages
    OBVIOUS
<1>1. \A i \in Batch : Roots[i] \in Metadata /\ Roots[i].source \in Sources
  <2>1. \A i \in Batch : Roots[i] \in Metadata
    BY BatchAssumption DEF Batch
  <2> QED
    BY <2>1 DEF Metadata
<1>2. \A i \in Batch : NewWalk(Roots[i].source, Roots[i]) \in Walk
    BY <1>1, NewWalkType
<1>3. walks \in [Batch -> Walk] /\ \A i \in Batch : walks[i].merged = <<>> /\ walks[i].frontier = <<>>
    BY <1>2 DEF Init, NewWalk
<1>4. /\ <<>> \in Seq(Request) /\ <<>> \in Seq(Owned) /\ <<>> \in Seq(FetchGroup) /\ <<>> \in Seq(Keys)
      /\ DOMAIN <<>> = {}
    OBVIOUS
<1>5. 1 \in Batch
    BY BatchAssumption DEF Batch
<1>6. TypeOK
    BY <1>3, <1>4, <1>5 DEF Init, TypeOK, Phases
<1>7. Stages
    BY <1>3 DEF Init, Stages, Discovering
<1> QED
    BY <1>6, <1>7

\* Steps on the walk of one root.
LEMMA TypeDiscover ==
    ASSUME TypeOK, Stages, DiscoverFrontiers PROVE (TypeOK /\ Stages)'
<1>t. /\ walks \in [Batch -> Walk] /\ at \in Batch /\ walk \in Walk
      /\ requests \in [Batch -> Seq(Request)] /\ found \subseteq DOMAIN Declarations
      /\ made \in Projects /\ limits \in Limits /\ phase \in Phases
    BY DEF TypeOK, walk
<1>n. Len(Roots) \in Nat \ {0} /\ Batch = 1..Len(Roots)
    BY BatchAssumption DEF Batch
<1>1. CASE Merge \/ Drop \/ Revisit \/ FirstVisit
  <2> PICK v \in Walk : walks' = [walks EXCEPT ![at] = v] /\ (phase = "merge" => v.frontier = walk.frontier)
    <3>1. CASE Merge
      <4>1. MergeNext(walk) \in Walk
        BY <1>t, <3>1, MergeNextType DEF Merge
      <4>2. MergeNext(walk).frontier = walk.frontier
        BY <1>t DEF MergeNext, Walk
      <4> QED
        BY <3>1, <4>1, <4>2 DEF Merge
    <3>2. CASE Drop \/ Revisit \/ FirstVisit
      <4>1. /\ walk.merged # <<>> /\ phase = "admit"
            /\ walks' \in {[walks EXCEPT ![at] = DropRevisit(walk)], [walks EXCEPT ![at] = AdmitRevisit(walk)],
                           [walks EXCEPT ![at] = AdmitFirstVisit(walk)], [walks EXCEPT ![at] = BreakAtLimit(walk)]}
        BY <3>2 DEF Drop, Revisit, FirstVisit, Admitting
      <4> QED
        BY <1>t, <4>1, AdmitTypes
    <3> QED
      BY <1>1, <3>1, <3>2
  <2>1. walks' \in [Batch -> Walk] /\ walks'[at] = v /\ \A i \in Batch : i # at => walks'[i] = walks[i]
    BY <1>t
  <2>2. phase \in {"merge", "admit"}
    BY <1>1 DEF Merge, Drop, Revisit, FirstVisit, Admitting
  <2>3. TypeOK'
    BY <1>1, <2>1 DEF Merge, Drop, Revisit, FirstVisit, Admitting, TypeOK, rigid, round, results
  <2>4. Stages'
    BY <1>1, <1>t, <2>1, <2>2 DEF Merge, Drop, Revisit, FirstVisit, Admitting, Stages, Discovering, rigid, round, results, walk
  <2> QED
    BY <2>3, <2>4
<1>2. CASE EndMerge \/ EndAdmit
  <2>1. TypeOK'
    BY <1>2 DEF EndMerge, EndAdmit, TypeOK, Phases, rigid, round, results
  <2>2. Stages'
    BY <1>2, <1>t DEF EndMerge, EndAdmit, Stages, Discovering, rigid, round, results, walk
  <2> QED
    BY <2>1, <2>2
<1>3. CASE Analyze
  <2>1. AnalyzeNext(walk) \in Walk /\ SameLevel(walk, AnalyzeNext(walk))
    BY <1>t, <1>3, AnalyzeTypes, LevelUntouched DEF Analyze
  <2>2. found' \subseteq DOMAIN Declarations
    BY <1>t, <1>3, BatchAssumption DEF Analyze, DependenciesOf, DeclaredBy
  <2>3. /\ walks' \in [Batch -> Walk] /\ walks'[at] = AnalyzeNext(walk)
        /\ \A i \in Batch : i # at => walks'[i] = walks[i]
    BY <1>3, <1>t, <2>1 DEF Analyze
  <2>4. TypeOK'
    BY <1>3, <2>2, <2>3 DEF Analyze, TypeOK, Phases, rigid, round, results
  <2>5. Stages'
    BY <1>3, <1>t, <2>1, <2>3 DEF Analyze, Stages, Discovering, rigid, round, results, SameLevel, walk
  <2> QED
    BY <2>4, <2>5
<1>4. CASE AddRequest
  <2>1. PICK i \in FirstOf(found) :
           requests' = [requests EXCEPT ![at] = Merged(@, RequestFor(walk, i))] /\ found' = found \ {i}
    BY <1>4 DEF AddRequest
  <2>2. walk.frontier # <<>> /\ i \in DOMAIN Declarations
    BY <1>t, <1>4 DEF AddRequest, FirstOf, Stages
  <2>3. RequestFor(walk, i) \in Request
    BY <1>t, <2>2, RequestType
  <2>4. Merged(requests[at], RequestFor(walk, i)) \in Seq(Request)
    BY <1>t, <2>3, MergedRequests
  <2>5. requests' \in [Batch -> Seq(Request)]
    BY <1>t, <2>1, <2>4
  <2>6. TypeOK'
    BY <1>4, <2>1, <2>5 DEF AddRequest, TypeOK, rigid, round, results
  <2>7. Stages'
    BY <1>4 DEF AddRequest, Stages, Discovering, rigid, round, results, walk
  <2> QED
    BY <2>6, <2>7
<1>5. CASE LeaveOut
  <2>1. PICK i \in FirstOf(found) : walks' = [walks EXCEPT ![at] = NoteUnrequested(walk, i)] /\ found' = found \ {i}
    BY <1>5 DEF LeaveOut
  <2>2. walk.frontier # <<>> /\ i \in DOMAIN Declarations
    BY <1>t, <1>5 DEF LeaveOut, FirstOf, Stages
  <2>3. NoteUnrequested(walk, i) \in Walk /\ SameLevel(walk, NoteUnrequested(walk, i))
    BY <1>t, <2>2, RequestType, LevelUntouched
  <2>4. /\ walks' \in [Batch -> Walk] /\ walks'[at] = NoteUnrequested(walk, i)
        /\ \A j \in Batch : j # at => walks'[j] = walks[j]
    BY <1>t, <2>1, <2>3
  <2>5. TypeOK'
    BY <1>5, <2>1, <2>4 DEF LeaveOut, TypeOK, rigid, round, results
  <2>6. Stages'
    BY <1>5, <1>t, <2>3, <2>4 DEF LeaveOut, Stages, Discovering, rigid, round, results, SameLevel, walk
  <2> QED
    BY <2>5, <2>6
<1>6. CASE EndRequests
  <2>1. LeaveFrontierHead(walk) \in Walk /\ LeaveFrontierHead(walk).merged = walk.merged
    BY <1>t, <1>6, AnalyzeTypes DEF EndRequests, Stages, LeaveFrontierHead, Walk
  <2>2. /\ walks' \in [Batch -> Walk] /\ walks'[at] = LeaveFrontierHead(walk)
        /\ \A j \in Batch : j # at => walks'[j] = walks[j]
    BY <1>6, <1>t, <2>1 DEF EndRequests
  <2>3. TypeOK'
    BY <1>6, <2>2 DEF EndRequests, TypeOK, Phases, rigid, round, results
  <2>4. Stages'
    BY <1>6, <1>t, <2>1, <2>2 DEF EndRequests, Stages, Discovering, rigid, round, results, walk
  <2> QED
    BY <2>3, <2>4
<1>7. CASE NextRoot
  <2>1. TypeOK'
    BY <1>7, <1>t, <1>n DEF NextRoot, TypeOK, Phases, rigid, round, results
  <2>2. Stages'
    BY <1>7, <1>t, <1>n DEF NextRoot, Stages, Discovering, rigid, round, results, walk
  <2> QED
    BY <2>1, <2>2
<1> QED
    BY <1>1, <1>2, <1>3, <1>4, <1>5, <1>6, <1>7 DEF DiscoverFrontiers

\* Grouping the requests of one root after the other.
LEMMA TypeGroup ==
    ASSUME TypeOK, Stages, Acquired, GroupRequests PROVE (TypeOK /\ Stages)'
<1>t. /\ walks \in [Batch -> Walk] /\ at \in Batch /\ walk \in Walk
      /\ requests \in [Batch -> Seq(Request)] /\ asked \in [Batch -> SUBSET Keys]
      /\ revisits \in Seq(Owned) /\ reuses \in Seq(Owned) /\ groups \in Seq(FetchGroup)
    BY DEF TypeOK, walk
<1>n. Len(Roots) \in Nat \ {0} /\ Batch = 1..Len(Roots)
    BY BatchAssumption DEF Batch
<1>g. ASSUME Grouping
      PROVE  /\ phase = "group" /\ requests[at] # <<>>
             /\ request \in Request /\ request.key \in Keys
             /\ [requests EXCEPT ![at] = Tail(@)] \in [Batch -> Seq(Request)]
             /\ [asked EXCEPT ![at] = @ \cup {request.key}] \in [Batch -> SUBSET Keys]
  <2>1. phase = "group" /\ requests[at] # <<>> /\ requests[at] \in Seq(Request)
    BY <1>t, <1>g DEF Grouping
  <2>2. request \in Request /\ Tail(requests[at]) \in Seq(Request)
    BY <2>1, Tailed DEF request
  <2>3. request.key \in Keys
    BY <2>2 DEF Request
  <2> QED
    BY <1>t, <2>1, <2>2, <2>3
<1>a. ASSUME NEW v \in Walk, walks' = [walks EXCEPT ![at] = v], SameLevel(walk, v)
      PROVE  /\ walks' \in [Batch -> Walk]
             /\ \A i \in Batch : walks'[i].merged = walks[i].merged /\ walks'[i].frontier = walks[i].frontier
    BY <1>t, <1>a DEF SameLevel, walk
<1>1. CASE Refuse
  <2>1. Grouping /\ walks' = [walks EXCEPT ![at] = ReportIssue(walk, "preparation", request.key)]
    BY <1>1 DEF Refuse, walk
  <2>2. request.depth \in Nat /\ request.contexts \subseteq Contexts /\ request.key \in Keys
    BY <1>g, <2>1 DEF Request
  <2>3. ReportIssue(walk, "preparation", request.key) \in Walk
    BY <1>t, <2>2, AcquireTypes
  <2>4. /\ walks' \in [Batch -> Walk]
        /\ \A i \in Batch : walks'[i].merged = walks[i].merged /\ walks'[i].frontier = walks[i].frontier
    BY <1>t, <1>a, <2>1, <2>3, LevelUntouched
  <2>5. TypeOK'
    BY <1>1, <1>g, <2>1, <2>4 DEF Refuse, TakeRequest, TypeOK, rigid, round, results
  <2>6. Stages'
    BY <1>1, <1>g, <1>t, <2>1, <2>4 DEF Refuse, TakeRequest, Stages, Discovering, rigid, round, results
  <2> QED
    BY <2>5, <2>6
<1>2. CASE NoteRevisit
  <2>1. Grouping
    BY <1>2 DEF NoteRevisit
  <2>2. revisits' \in Seq(Owned)
    BY <1>2, <1>t, <1>g, <2>1, Joined DEF NoteRevisit
  <2>3. TypeOK'
    BY <1>2, <1>g, <2>1, <2>2 DEF NoteRevisit, TakeRequest, Asked, TypeOK, rigid, results
  <2>4. Stages'
    BY <1>2, <1>g, <1>t, <2>1 DEF NoteRevisit, TakeRequest, Stages, Discovering, rigid, results
  <2> QED
    BY <2>3, <2>4
<1>3. CASE SkipReserved
  <2>1. Grouping
    BY <1>3 DEF SkipReserved, NewlyAsked
  <2>2. TypeOK'
    BY <1>3, <1>g, <2>1 DEF SkipReserved, TakeRequest, Asked, TypeOK, rigid, results
  <2>3. Stages'
    BY <1>3, <1>g, <1>t, <2>1 DEF SkipReserved, TakeRequest, Stages, Discovering, rigid, results
  <2> QED
    BY <2>2, <2>3
<1>4. CASE RefuseOverLimit
  <2>1. Grouping /\ walks' = [walks EXCEPT ![at] = ReportIssue(walk, "packages", None)]
    BY <1>4 DEF RefuseOverLimit, NewlyAsked, walk
  <2>2. request.depth \in Nat /\ request.contexts \subseteq Contexts /\ request.key \in Keys
    BY <1>g, <2>1 DEF Request
  <2>3. ReportIssue(walk, "packages", None) \in Walk
    BY <1>t, <2>2, AcquireTypes
  <2>4. /\ walks' \in [Batch -> Walk]
        /\ \A i \in Batch : walks'[i].merged = walks[i].merged /\ walks'[i].frontier = walks[i].frontier
    BY <1>t, <1>a, <2>1, <2>3, LevelUntouched
  <2>5. TypeOK'
    BY <1>4, <1>g, <2>1, <2>4 DEF RefuseOverLimit, TakeRequest, TypeOK, rigid, round, results
  <2>6. Stages'
    BY <1>4, <1>g, <1>t, <2>1, <2>4 DEF RefuseOverLimit, TakeRequest, Stages, Discovering, rigid, round, results
  <2> QED
    BY <2>5, <2>6
<1>5. CASE Reuse \/ Group
  <2>1. Grouping /\ walks' = [walks EXCEPT ![at] = ReserveKey(walk, request.key)]
    BY <1>5 DEF Reuse, Group, Admitted, walk
  <2>2. request.depth \in Nat /\ request.contexts \subseteq Contexts /\ request.key \in Keys /\ request \in Request
    BY <1>g, <2>1 DEF Request
  <2>3. ReserveKey(walk, request.key) \in Walk
    BY <1>t, <2>2, AcquireTypes
  <2>4. /\ walks' \in [Batch -> Walk]
        /\ \A i \in Batch : walks'[i].merged = walks[i].merged /\ walks'[i].frontier = walks[i].frontier
    BY <1>t, <1>a, <2>1, <2>3, LevelUntouched
  <2>5. CASE Reuse
    <3>1. reuses' \in Seq(Owned)
      BY <2>5, <1>t, <2>2, Joined DEF Reuse
    <3>2. TypeOK'
      BY <2>5, <1>g, <2>1, <2>4, <3>1 DEF Reuse, TakeRequest, Asked, TypeOK, rigid, results
    <3>3. Stages'
      BY <2>5, <1>g, <1>t, <2>1, <2>4 DEF Reuse, TakeRequest, Stages, Discovering, rigid, results
    <3> QED
      BY <3>2, <3>3
  <2>6. CASE Group
    <3>1. groups' \in Seq(FetchGroup)
      <4> DEFINE same == {n \in DOMAIN groups : groups[n].key = request.key}
                 new == [key |-> request.key, owners |-> <<Owner(at, request)>>, status |-> "waiting"]
                 widened == [n \in DOMAIN groups |->
                               IF n \in same
                               THEN [groups[n] EXCEPT !.owners = Join(@, at, request)]
                               ELSE groups[n]]
      <4>1. groups' = IF same = {} THEN Append(groups, new) ELSE widened
        BY <2>6 DEF Group
      <4>2. Owner(at, request) \in Owned
        BY <1>t, <2>2 DEF Owner, Owned
      <4>3. new \in FetchGroup
        BY <2>2, <4>2 DEF FetchGroup, Status
      <4>4. \A n \in DOMAIN groups : groups[n] \in FetchGroup /\ groups[n].owners \in Seq(Owned)
        <5>1. \A n \in DOMAIN groups : groups[n] \in FetchGroup
          BY <1>t
        <5> QED
          BY <5>1 DEF FetchGroup
      <4>5. \A n \in DOMAIN groups : Join(groups[n].owners, at, request) \in Seq(Owned)
        BY <1>t, <2>2, <4>4, Joined
      <4>6. \A n \in DOMAIN groups : widened[n] \in FetchGroup
        BY <4>4, <4>5 DEF FetchGroup
      <4>7. DOMAIN widened = DOMAIN groups /\ widened = [n \in DOMAIN groups |-> widened[n]]
        OBVIOUS
      <4> HIDE DEF widened, new, same
      <4>8. widened \in Seq(FetchGroup)
        BY <1>t, <4>6, <4>7, Rewritten
      <4> QED
        BY <1>t, <4>1, <4>3, <4>8, Appended
    <3>2. TypeOK'
      BY <2>6, <1>g, <2>1, <2>4, <3>1 DEF Group, TakeRequest, Asked, TypeOK, rigid, results
    <3>3. Stages'
      BY <2>6, <1>g, <1>t, <2>1, <2>4 DEF Group, TakeRequest, Stages, Discovering, rigid, results
    <3> QED
      BY <3>2, <3>3
  <2> QED
    BY <1>5, <2>5, <2>6
<1>6. CASE NextRequests
  <2>1. TypeOK'
    BY <1>6, <1>t, <1>n DEF NextRequests, TypeOK, Phases, rigid, round, results
  <2>2. \A i \in Batch : requests[i] # <<>> => i > at
    BY <1>6, <1>t, <1>n DEF NextRequests, Stages, Discovering
  <2>3. Stages'
    BY <1>6, <1>t, <1>n, <2>2 DEF NextRequests, Stages, Discovering, rigid, round, results
  <2> QED
    BY <2>1, <2>3
<1>7. CASE ApplyRevisit
  <2> DEFINE o == Head(revisits)
             v == EnqueueRevisit(walks[o.root], o.request)
  <2>1. revisits # <<>> /\ o \in Owned /\ 1 \in DOMAIN revisits /\ o = revisits[1] /\ Tail(revisits) \in Seq(Owned)
    BY <1>t, <1>7, Tailed DEF ApplyRevisit
  <2>2. /\ o.root \in Batch /\ o.request.key \in Keys /\ o.request.depth \in Nat
        /\ o.request.contexts \subseteq Contexts /\ walks[o.root] \in Walk
    BY <1>t, <2>1 DEF Owned, Request
  <2>3. Revisitable(walks[o.root], o.request.key)
    BY <2>1 DEF Acquired
  <2>4. v \in Walk
    BY <2>2, <2>3, AcquireTypes
  <2>5. v.merged = walks[o.root].merged /\ v.frontier = walks[o.root].frontier
    BY <2>2 DEF EnqueueRevisit, Walk
  <2>6. walks' = [walks EXCEPT ![o.root] = v]
    BY <1>7 DEF ApplyRevisit
  <2> HIDE DEF v, o
  <2>7. /\ walks' \in [Batch -> Walk]
        /\ \A i \in Batch : walks'[i].merged = walks[i].merged /\ walks'[i].frontier = walks[i].frontier
    BY <1>t, <2>2, <2>4, <2>5, <2>6
  <2>8. TypeOK'
    BY <1>7, <2>1, <2>7 DEF ApplyRevisit, TypeOK, rigid, results
  <2>9. Stages'
    BY <1>7, <2>7 DEF ApplyRevisit, Stages, Discovering, rigid, results
  <2> QED
    BY <2>8, <2>9
<1>8. CASE EndRevisits
  <2>1. TypeOK'
    BY <1>8 DEF EndRevisits, TypeOK, Phases, rigid, round, results
  <2>2. Stages'
    BY <1>8 DEF EndRevisits, Stages, Discovering, rigid, round, results, walk
  <2> QED
    BY <2>1, <2>2
<1>9. CASE ApplyReuse
  <2> DEFINE o == Head(reuses)
             v == Apply(walks[o.root], o.request, fetched[o.request.key])
  <2>1. reuses # <<>> /\ o \in Owned /\ Tail(reuses) \in Seq(Owned)
    BY <1>t, <1>9, Tailed DEF ApplyReuse
  <2>2. /\ o.root \in Batch /\ o.request.key \in Keys /\ o.request.depth \in Nat
        /\ o.request.contexts \subseteq Contexts /\ walks[o.root] \in Walk
    BY <1>t, <2>1 DEF Owned, Request
  <2>3. v \in Walk
    BY <2>2, AcquireTypes DEF Apply
  <2>4. v.merged = walks[o.root].merged /\ v.frontier = walks[o.root].frontier
    BY <2>2 DEF Apply, EnqueueAcquired, ReportIssue, Walk
  <2>5. walks' = [walks EXCEPT ![o.root] = v]
    BY <1>9 DEF ApplyReuse
  <2> HIDE DEF v, o
  <2>6. /\ walks' \in [Batch -> Walk]
        /\ \A i \in Batch : walks'[i].merged = walks[i].merged /\ walks'[i].frontier = walks[i].frontier
    BY <1>t, <2>2, <2>3, <2>4, <2>5
  <2>7. TypeOK'
    BY <1>9, <2>1, <2>6 DEF ApplyReuse, TypeOK, rigid, results
  <2>8. Stages'
    BY <1>9, <2>6 DEF ApplyReuse, Stages, Discovering, rigid, results
  <2> QED
    BY <2>7, <2>8
<1> QED
    BY <1>1, <1>2, <1>3, <1>4, <1>5, <1>6, <1>7, <1>8, <1>9 DEF GroupRequests

\* What a result is applied with: the request of the owner that stands for root i.
RequestOf(g, i) == g.owners[CHOOSE m \in DOMAIN g.owners : g.owners[m].root = i].request

\* Applying a group's result to one walk keeps it a walk and its level.
LEMMA ResultApplied ==
    ASSUME NEW w \in Walk, NEW g \in FetchGroup, NEW i \in Batch, NEW status,
           \E m \in DOMAIN g.owners : g.owners[m].root = i
    PROVE  /\ \E m \in DOMAIN g.owners : RequestOf(g, i) = g.owners[m].request
           /\ RequestOf(g, i) \in Request
           /\ Apply(w, RequestOf(g, i), status) \in Walk
           /\ Apply(w, RequestOf(g, i), status).merged = w.merged
           /\ Apply(w, RequestOf(g, i), status).frontier = w.frontier
<1> DEFINE m == CHOOSE m \in DOMAIN g.owners : g.owners[m].root = i
           r == g.owners[m].request
<1>1. m \in DOMAIN g.owners /\ g.owners \in Seq(Owned)
    BY DEF FetchGroup
<1>2. g.owners[m] \in Owned
    BY <1>1
<1>3. r \in Request /\ RequestOf(g, i) = r
    BY <1>2 DEF Owned, RequestOf
<1>4. r.key \in Keys /\ r.depth \in Nat /\ r.contexts \subseteq Contexts
    BY <1>3 DEF Request
<1>5. Apply(w, r, status) \in Walk
    BY <1>4, AcquireTypes DEF Apply
<1>6. Apply(w, r, status).merged = w.merged /\ Apply(w, r, status).frontier = w.frontier
    BY DEF Apply, EnqueueAcquired, ReportIssue, Walk
<1> QED
    BY <1>1, <1>3, <1>5, <1>6

\* Collecting the result of the first group.
LEMMA TakeResultType ==
    ASSUME TypeOK, TakeResult
    PROVE  /\ walks' \in [Batch -> Walk]
           /\ \A i \in Batch : walks'[i].merged = walks[i].merged /\ walks'[i].frontier = walks[i].frontier
           /\ \A i \in Batch : \/ walks'[i] = walks[i]
                               \/ /\ walks'[i] = Apply(walks[i], RequestOf(Head(groups), i), Head(groups).status)
                                  /\ \E m \in DOMAIN Head(groups).owners : Head(groups).owners[m].root = i
           /\ groups # <<>> /\ groups' = Tail(groups) /\ groups' \in Seq(FetchGroup)
           /\ Head(groups) \in FetchGroup
           /\ DOMAIN fetched' = DOMAIN fetched \cup {Head(groups).key}
           /\ DOMAIN fetched' \subseteq Keys
           /\ \A k \in DOMAIN fetched' : fetched'[k] \in {"fetched", "failed"}
<1> DEFINE g == Head(groups)
<1>1. /\ groups # <<>> /\ groups \in Seq(FetchGroup) /\ walks \in [Batch -> Walk]
      /\ DOMAIN fetched \subseteq Keys
    BY DEF TypeOK, TakeResult
<1>2. g \in FetchGroup /\ Tail(groups) \in Seq(FetchGroup)
    BY <1>1, Tailed
<1>3. g.key \in Keys
    BY <1>2 DEF FetchGroup
<1>4. walks' = [i \in Batch |-> IF \E m \in DOMAIN g.owners : g.owners[m].root = i
                                THEN Apply(walks[i], RequestOf(g, i), g.status)
                                ELSE walks[i]]
    BY DEF TakeResult, RequestOf
<1>5. \A i \in Batch : (\E m \in DOMAIN g.owners : g.owners[m].root = i)
         => /\ Apply(walks[i], RequestOf(g, i), g.status) \in Walk
            /\ Apply(walks[i], RequestOf(g, i), g.status).merged = walks[i].merged
            /\ Apply(walks[i], RequestOf(g, i), g.status).frontier = walks[i].frontier
    BY <1>1, <1>2, ResultApplied
<1>6. /\ groups' = Tail(groups)
      /\ fetched' = [k \in DOMAIN fetched \cup {g.key} |-> IF k = g.key THEN g.status ELSE fetched[k]]
      /\ g.status \in {"fetched", "failed"}
    BY DEF TakeResult
<1> HIDE DEF g
<1>7. /\ walks' \in [Batch -> Walk]
      /\ \A i \in Batch : walks'[i].merged = walks[i].merged /\ walks'[i].frontier = walks[i].frontier
    BY <1>1, <1>4, <1>5
<1>8. \A k \in DOMAIN fetched' : fetched'[k] \in {"fetched", "failed"}
    BY <1>6 DEF TypeOK
<1> QED
    BY <1>1, <1>2, <1>3, <1>4, <1>6, <1>7, <1>8 DEF g

\* Fetching the groups of a round.
LEMMA TypeFetch ==
    ASSUME TypeOK, Stages, FetchGroups PROVE (TypeOK /\ Stages)'
<1>t. /\ walks \in [Batch -> Walk] /\ groups \in Seq(FetchGroup) /\ attempts \in Seq(Keys)
    BY DEF TypeOK
<1>n. 1 \in Batch
    BY BatchAssumption DEF Batch
<1>1. CASE StartFetches
  <2>1. TypeOK'
    BY <1>1 DEF StartFetches, TypeOK, Phases, rigid, round, results
  <2>2. Stages'
    BY <1>1 DEF StartFetches, Stages, Discovering, rigid, round, results, walk
  <2> QED
    BY <2>1, <2>2
<1>2. CASE RefuseRound
  <2>1. \A i \in Batch : ReportIssue(walks[i], "batch packages", None) \in Walk
    <3>1. [kind |-> "batch packages", about |-> None] \in Issue
      BY IssueType
    <3>2. \A w \in Walk : ReportIssue(w, "batch packages", None) \in Walk
      BY <3>1 DEF ReportIssue, Walk
    <3> QED
      BY <1>t, <3>2
  <2>2. \A i \in Batch : SameLevel(walks[i], ReportIssue(walks[i], "batch packages", None))
    BY <1>t, LevelUntouched
  <2>3. \A i \in Batch : walks'[i] = ReportIssue(walks[i], "batch packages", None) \/ walks'[i] = walks[i]
    BY <1>2 DEF RefuseRound
  <2>4. /\ walks' \in [Batch -> Walk]
        /\ \A i \in Batch : walks'[i].merged = walks[i].merged /\ walks'[i].frontier = walks[i].frontier
    <3>1. walks' = [i \in Batch |-> walks'[i]]
      BY <1>2 DEF RefuseRound
    <3>2. \A i \in Batch : walks'[i] \in Walk
      BY <1>t, <2>1, <2>3
    <3> QED
      BY <2>2, <2>3, <3>1, <3>2 DEF SameLevel
  <2>5. <<>> \in Seq(FetchGroup)
    OBVIOUS
  <2>6. TypeOK'
    BY <1>2, <2>4, <2>5 DEF RefuseRound, TypeOK, Phases, rigid, results
  <2>7. Stages'
    BY <1>2, <2>4 DEF RefuseRound, Stages, Discovering, rigid, results
  <2> QED
    BY <2>6, <2>7
<1>3. CASE Launch
  <2>1. PICK n \in NextToLaunch(groups, Threads) :
           /\ groups' = [groups EXCEPT ![n].status = "running"]
           /\ attempts' = Append(attempts, groups[n].key)
    BY <1>3 DEF Launch
  <2>2. n \in DOMAIN groups /\ groups[n] \in FetchGroup
    BY <1>t, <2>1 DEF NextToLaunch, Window
  <2>3. [groups[n] EXCEPT !.status = "running"] \in FetchGroup /\ groups[n].key \in Keys
    BY <2>2 DEF FetchGroup, Status
  <2>4. groups' \in Seq(FetchGroup) /\ attempts' \in Seq(Keys)
    BY <1>t, <2>1, <2>2, <2>3, Appended, ExceptSeq
  <2>5. TypeOK'
    BY <1>3, <2>4 DEF Launch, TypeOK, rigid
  <2>6. Stages'
    BY <1>3 DEF Launch, Stages, Discovering, rigid, walk
  <2> QED
    BY <2>5, <2>6
<1>4. ASSUME NEW n \in DOMAIN groups, Complete(n) PROVE (TypeOK /\ Stages)'
  <2>1. PICK outcome \in {"fetched", "failed"} : groups' = [groups EXCEPT ![n].status = outcome]
    BY <1>4 DEF Complete
  <2>2. groups[n] \in FetchGroup
    BY <1>t, <1>4
  <2>3. [groups[n] EXCEPT !.status = outcome] \in FetchGroup
    BY <2>2 DEF FetchGroup, Status
  <2>4. groups' \in Seq(FetchGroup)
    BY <1>t, <1>4, <2>1, <2>3, ExceptSeq
  <2>5. TypeOK'
    BY <1>4, <2>4 DEF Complete, TypeOK, rigid, results
  <2>6. Stages'
    BY <1>4 DEF Complete, Stages, Discovering, rigid, results, walk
  <2> QED
    BY <2>5, <2>6
<1>5. CASE TakeResult
  <2>1. TypeOK'
    BY <1>5, TakeResultType DEF TakeResult, TypeOK, rigid
  <2>2. Stages'
    <3>1. phase = "fetch" /\ UNCHANGED <<phase, at, requests, revisits, reuses>>
      BY <1>5 DEF TakeResult
    <3> QED
      BY <1>5, <3>1, TakeResultType DEF Stages, Discovering
  <2> QED
    BY <2>1, <2>2
<1>6. CASE NextRound
  <2>1. TypeOK'
    BY <1>6, <1>n DEF NextRound, TypeOK, Phases, rigid, results
  <2>2. Stages'
    BY <1>6 DEF NextRound, Stages, Discovering, rigid, results, walk
  <2> QED
    BY <2>1, <2>2
<1> QED
    BY <1>1, <1>2, <1>3, <1>4, <1>5, <1>6 DEF FetchGroups

\* Every step of the rounds keeps the types, and what each stage leaves behind.
LEMMA TypeStep == TypeOK /\ Stages /\ Acquired /\ [Next]_vars => (TypeOK /\ Stages)'
<1> SUFFICES ASSUME TypeOK, Stages, Acquired, [Next]_vars PROVE (TypeOK /\ Stages)'
    OBVIOUS
<1>1. CASE UNCHANGED vars
    BY <1>1 DEF vars, TypeOK, Stages, walk
<1>2. CASE RefuseBatch \/ StartBatch
  <2>1. TypeOK'
    BY <1>2 DEF RefuseBatch, StartBatch, TypeOK, Phases, rigid, round, results
  <2>2. Stages'
    <3>1. /\ UNCHANGED <<walks, at, requests, revisits, reuses, groups>>
          /\ phase = "start" /\ phase' \in {"merge", "refused"}
      BY <1>2 DEF RefuseBatch, StartBatch, round
    <3> QED
      BY <3>1 DEF Stages, Discovering
  <2> QED
    BY <2>1, <2>2
<1> QED
    BY <1>1, <1>2, TypeDiscover, TypeGroup, TypeFetch DEF Next

-----------------------------------------------------------------------------
(* Levels: all walks of a round are at one depth, so that a queue is empty     *)
(* once its entries have been merged.                                          *)

\* The walks begin at depth 0.
LEMMA LevelsInit == Init => Levels
<1> SUFFICES ASSUME Init PROVE Levels
    OBVIOUS
<1>1. \A i \in Batch : /\ walks[i].merged = <<>> /\ walks[i].frontier = <<>>
                       /\ DOMAIN walks[i].queue = {1} /\ walks[i].queue[1].depth = 0
    BY DEF Init, NewWalk
<1>2. LevelAt(0)
  <2>1. /\ phase = "start" /\ \A i \in Batch : requests[i] = <<>>
        /\ revisits = <<>> /\ reuses = <<>> /\ groups = <<>> /\ DOMAIN <<>> = {}
    BY DEF Init
  <2>2. \A i \in Batch : /\ AtDepth(walks[i].merged, 0) /\ AtDepth(walks[i].frontier, 0)
                         /\ AtDepth(walks[i].queue, 0) /\ AtDepth(requests[i], 0 + 1)
    BY <1>1, <2>1 DEF AtDepth
  <2> QED
    BY <2>1, <2>2 DEF LevelAt, OwnersAtDepth
<1>3. \A i \in Batch : Unmerged(i)
    BY DEF Init, Unmerged
<1> QED
    BY <1>2, <1>3 DEF Levels

\* Steps on the walk of one root.
LEMMA LevelsDiscover ==
    ASSUME TypeOK, Stages, Levels, NEW d \in Nat, LevelAt(d), DiscoverFrontiers
    PROVE  Levels' /\ LevelAt(d)'
<1>t. /\ walks \in [Batch -> Walk] /\ at \in Batch /\ walk \in Walk /\ walk = walks[at]
      /\ requests \in [Batch -> Seq(Request)] /\ found \subseteq DOMAIN Declarations
    BY DEF TypeOK, walk
<1>n. Len(Roots) \in Nat \ {0} /\ Batch = 1..Len(Roots)
    BY BatchAssumption DEF Batch
<1>d. LevelAt(d)
    OBVIOUS
<1>w. AtDepth(walk.merged, d) /\ AtDepth(walk.frontier, d) /\ (Unmerged(at) => AtDepth(walk.queue, d))
    BY <1>t, <1>d DEF LevelAt
<1>s. ASSUME UNCHANGED <<revisits, reuses, groups>>, phase \in Discovering, phase' \in Discovering
      PROVE  /\ OwnersAtDepth(revisits', d + 1) /\ OwnersAtDepth(reuses', d + 1)
             /\ \A n \in DOMAIN groups' : OwnersAtDepth(groups'[n].owners, d + 1)
             /\ phase' \notin {"revisit", "reuse", "fetch", "start"}
    BY <1>d, <1>s DEF LevelAt, Discovering
<1>1. CASE Merge
  <2> DEFINE v == MergeNext(walk)
  <2>1. AtDepth(v.queue, d) /\ AtDepth(v.merged, d) /\ v.frontier = walk.frontier
    BY <1>t, <1>w, <1>1, MergeDepth DEF Merge, Unmerged, Discovering
  <2>2. /\ walks'[at] = v /\ \A i \in Batch : i # at => walks'[i] = walks[i]
        /\ UNCHANGED <<phase, at, requests, revisits, reuses, groups>> /\ phase = "merge"
    BY <1>t, <1>1 DEF Merge, round
  <2> HIDE DEF v
  <2>3. \A i \in Batch : Unmerged(i)' <=> Unmerged(i)
    BY <2>2 DEF Unmerged
  <2>4. LevelAt(d)'
    BY <1>d, <1>s, <1>w, <2>1, <2>2, <2>3 DEF LevelAt, Discovering
  <2>5. Unmerged(at)
    BY <2>2 DEF Unmerged, Discovering
  <2> QED
    BY <2>2, <2>3, <2>4, <2>5 DEF Levels
<1>2. CASE EndMerge
  <2>1. walk.queue \in Seq(Pending) /\ walk.merged \in Seq(Pending) /\ Unmerged(at)
    BY <1>t, <1>2 DEF Walk, EndMerge, Unmerged, Discovering
  <2>2. walk.queue = <<>>
    <3>1. SUFFICES ASSUME walk.queue # <<>> PROVE FALSE
      OBVIOUS
    <3>2. Head(walk.queue).depth = d
      BY <1>w, <2>1, <3>1, DepthKept
    <3>3. walk.merged # <<>> => walk.merged[1].depth = d
      BY <1>w, <2>1, Tailed DEF AtDepth
    <3> QED
      BY <1>2, <3>1, <3>2, <3>3 DEF EndMerge, MoreToMerge
  <2>3. /\ UNCHANGED <<walks, at, requests, revisits, reuses, groups>> /\ phase = "merge" /\ phase' = "admit"
    BY <1>2 DEF EndMerge, round
  <2>4. \A i \in Batch : Unmerged(i)' <=> Unmerged(i) /\ i # at
    BY <1>t, <1>n, <2>3 DEF Unmerged, Discovering
  <2>5. LevelAt(d)'
    BY <1>d, <1>s, <2>3, <2>4 DEF LevelAt, Discovering
  <2> QED
    BY <1>t, <2>2, <2>3, <2>4, <2>5 DEF Levels, Discovering
<1>3. CASE Drop \/ Revisit \/ FirstVisit
  <2>1. PICK v \in {DropRevisit(walk), AdmitRevisit(walk), AdmitFirstVisit(walk), BreakAtLimit(walk)} :
           walks' = [walks EXCEPT ![at] = v]
    BY <1>3 DEF Drop, Revisit, FirstVisit
  <2>2. walk.merged # <<>> /\ phase = "admit"
    BY <1>3 DEF Drop, Revisit, FirstVisit, Admitting
  <2>3. v.queue = walk.queue /\ AtDepth(v.merged, d) /\ AtDepth(v.frontier, d)
    BY <1>t, <1>w, <2>2, AdmitDepth
  <2>4. UNCHANGED <<phase, at, requests, revisits, reuses, groups>>
    BY <1>3 DEF Drop, Revisit, FirstVisit, round
  <2>5. walks'[at] = v /\ \A i \in Batch : i # at => walks'[i] = walks[i]
    BY <1>t, <2>1
  <2>6. \A i \in Batch : Unmerged(i)' <=> Unmerged(i)
    BY <2>4 DEF Unmerged
  <2>7. LevelAt(d)'
    BY <1>d, <1>t, <1>s, <1>w, <2>2, <2>3, <2>4, <2>5, <2>6 DEF LevelAt, Discovering
  <2> QED
    BY <1>t, <2>3, <2>4, <2>5, <2>6, <2>7 DEF Levels
<1>4. CASE EndAdmit
  <2>1. UNCHANGED <<walks, at, requests, revisits, reuses, groups>> /\ phase = "admit" /\ phase' = "analyze"
    BY <1>4 DEF EndAdmit, round
  <2>2. \A i \in Batch : Unmerged(i)' <=> Unmerged(i)
    BY <2>1 DEF Unmerged, Discovering
  <2>3. LevelAt(d)'
    BY <1>d, <1>s, <2>1, <2>2 DEF LevelAt, Discovering
  <2> QED
    BY <2>1, <2>2, <2>3 DEF Levels, Discovering
<1>5. CASE Analyze \/ LeaveOut
  <2>1. PICK v : walks' = [walks EXCEPT ![at] = v] /\ SameLevel(walk, v)
    BY <1>t, <1>5, LevelUntouched DEF Analyze, LeaveOut
  <2>2. /\ UNCHANGED <<at, requests, revisits, reuses, groups>>
        /\ phase \in {"analyze", "request"} /\ phase' \in {"analyze", "request"}
    BY <1>5 DEF Analyze, LeaveOut, round
  <2>3. walks'[at] = v /\ \A i \in Batch : i # at => walks'[i] = walks[i]
    BY <1>t, <2>1
  <2>4. \A i \in Batch : Unmerged(i)' <=> Unmerged(i)
    BY <2>2 DEF Unmerged, Discovering
  <2>5. LevelAt(d)'
    BY <1>d, <1>t, <1>s, <2>1, <2>2, <2>3, <2>4 DEF LevelAt, Discovering, SameLevel
  <2> QED
    BY <1>t, <2>1, <2>2, <2>3, <2>4, <2>5 DEF Levels, Discovering, SameLevel
<1>6. CASE AddRequest
  <2>1. PICK i \in FirstOf(found) : requests' = [requests EXCEPT ![at] = Merged(@, RequestFor(walk, i))]
    BY <1>6 DEF AddRequest
  <2>2. walk.frontier # <<>> /\ i \in DOMAIN Declarations /\ walk.frontier \in Seq(Pending)
    BY <1>t, <1>6 DEF AddRequest, FirstOf, Stages, Walk
  <2>3. Head(walk.frontier).depth = d
    BY <1>w, <2>2, DepthKept
  <2>4. RequestFor(walk, i) \in Request /\ RequestFor(walk, i).depth = d + 1
    BY <1>t, <2>2, <2>3, RequestType DEF RequestFor
  <2>5. AtDepth(Merged(requests[at], RequestFor(walk, i)), d + 1)
    BY <1>t, <1>d, <2>4, MergedRequests DEF LevelAt
  <2>6. \A j \in Batch : AtDepth(requests'[j], d + 1)
    BY <1>t, <1>d, <2>1, <2>5 DEF LevelAt
  <2>7. UNCHANGED <<phase, at, walks, revisits, reuses, groups>> /\ phase = "request"
    BY <1>6 DEF AddRequest, round
  <2>8. LevelAt(d)'
    BY <1>d, <1>s, <2>6, <2>7 DEF LevelAt, Discovering, Unmerged
  <2> QED
    BY <2>7, <2>8 DEF Levels, Unmerged
<1>7. CASE EndRequests
  <2> DEFINE v == LeaveFrontierHead(walk)
  <2>1. AtDepth(v.frontier, d) /\ v.queue = walk.queue /\ v.merged = walk.merged
    BY <1>t, <1>w, <1>7, LeaveDepth DEF EndRequests, Stages
  <2>2. /\ walks'[at] = v /\ \A i \in Batch : i # at => walks'[i] = walks[i]
        /\ UNCHANGED <<at, requests, revisits, reuses, groups>> /\ phase = "request" /\ phase' = "analyze"
    BY <1>t, <1>7 DEF EndRequests, round
  <2> HIDE DEF v
  <2>3. \A i \in Batch : Unmerged(i)' <=> Unmerged(i)
    BY <2>2 DEF Unmerged, Discovering
  <2>4. LevelAt(d)'
    BY <1>d, <1>t, <1>s, <1>w, <2>1, <2>2, <2>3 DEF LevelAt, Discovering
  <2> QED
    BY <1>t, <2>1, <2>2, <2>3, <2>4 DEF Levels, Discovering
<1>8. CASE NextRoot
  <2>1. UNCHANGED <<walks, requests, revisits, reuses, groups>> /\ phase = "analyze"
    BY <1>8 DEF NextRoot, round
  <2>2. CASE at < Len(Roots)
    <3>1. at' = at + 1 /\ phase' = "merge"
      BY <1>8, <2>2 DEF NextRoot
    <3>2. \A i \in Batch : Unmerged(i)' <=> Unmerged(i)
      BY <1>t, <1>n, <2>1, <3>1 DEF Unmerged, Discovering
    <3>3. LevelAt(d)'
      BY <1>d, <1>s, <2>1, <3>1, <3>2 DEF LevelAt, Discovering
    <3> QED
      BY <2>1, <3>1, <3>2, <3>3 DEF Levels, Discovering
  <2>3. CASE ~(at < Len(Roots))
    <3>1. at' = 1 /\ phase' \in {"group", "done"}
      BY <1>8, <2>3 DEF NextRoot
    <3>2. \A i \in Batch : ~Unmerged(i) /\ ~Unmerged(i)'
      BY <1>t, <1>n, <2>1, <2>3, <3>1 DEF Unmerged, Discovering
    <3>3. LevelAt(d)'
      BY <1>d, <2>1, <3>1, <3>2 DEF LevelAt
    <3>4. \A i \in Batch : walks[i].queue = <<>>
      BY <2>1, <3>2 DEF Levels, Discovering
    <3> QED
      BY <2>1, <3>3, <3>4 DEF Levels
  <2> QED
    BY <2>2, <2>3
<1> QED
    BY <1>1, <1>2, <1>3, <1>4, <1>5, <1>6, <1>7, <1>8 DEF DiscoverFrontiers

\* Grouping, revisiting and reusing.
LEMMA LevelsGroup ==
    ASSUME TypeOK, Stages, Acquired, Levels, NEW d \in Nat, LevelAt(d), GroupRequests
    PROVE  Levels' /\ LevelAt(d)'
<1>t. /\ walks \in [Batch -> Walk] /\ at \in Batch /\ walk \in Walk /\ walk = walks[at]
      /\ requests \in [Batch -> Seq(Request)]
      /\ revisits \in Seq(Owned) /\ reuses \in Seq(Owned) /\ groups \in Seq(FetchGroup)
    BY DEF TypeOK, walk
<1>d. LevelAt(d)
    OBVIOUS
<1>u. phase \notin Discovering \cup {"start"} => \A i \in Batch : ~Unmerged(i)
    BY DEF Unmerged
<1>g. ASSUME Grouping
      PROVE  /\ phase = "group" /\ request \in Request /\ request.depth = d + 1
             /\ \A i \in Batch : AtDepth([requests EXCEPT ![at] = Tail(@)][i], d + 1)
             /\ \A i \in Batch : ~Unmerged(i) /\ walks[i].queue = <<>>
  <2>1. phase = "group" /\ requests[at] # <<>> /\ requests[at] \in Seq(Request) /\ AtDepth(requests[at], d + 1)
    BY <1>t, <1>g, <1>d DEF Grouping, LevelAt
  <2>2. request \in Request /\ AtDepth(Tail(requests[at]), d + 1) /\ request.depth = d + 1
    BY <2>1, Tailed, DepthKept DEF request
  <2>3. \A i \in Batch : AtDepth([requests EXCEPT ![at] = Tail(@)][i], d + 1)
    BY <1>t, <1>d, <2>2 DEF LevelAt
  <2>4. \A i \in Batch : ~Unmerged(i) /\ walks[i].queue = <<>>
    BY <1>u, <2>1 DEF Discovering, Levels
  <2> QED
    BY <2>1, <2>2, <2>3, <2>4
<1>1. CASE Refuse \/ NoteRevisit \/ SkipReserved \/ RefuseOverLimit \/ Reuse \/ Group
  <2>1. Grouping /\ UNCHANGED <<phase, at>> /\ requests' = [requests EXCEPT ![at] = Tail(@)]
    BY <1>1 DEF Refuse, NoteRevisit, SkipReserved, RefuseOverLimit, Reuse, Group, NewlyAsked, Admitted, TakeRequest
  <2>2. \A i \in Batch : SameLevel(walks[i], walks'[i])
    <3>1. \/ walks' = walks
          \/ \E v : SameLevel(walk, v) /\ walks' = [walks EXCEPT ![at] = v]
      BY <1>1, <1>t, LevelUntouched DEF Refuse, NoteRevisit, SkipReserved, RefuseOverLimit, Reuse, Group, walk
    <3> QED
      BY <1>t, <3>1 DEF SameLevel
  <2>3. OwnersAtDepth(revisits', d + 1)
    <3>1. CASE NoteRevisit
      BY <1>t, <1>d, <1>g, <2>1, <3>1, Joined DEF NoteRevisit, LevelAt
    <3>2. CASE ~NoteRevisit
      BY <1>1, <1>d, <3>2 DEF Refuse, SkipReserved, RefuseOverLimit, Reuse, Group, LevelAt, round
    <3> QED
      BY <3>1, <3>2
  <2>4. OwnersAtDepth(reuses', d + 1)
    <3>1. CASE Reuse
      BY <1>t, <1>d, <1>g, <2>1, <3>1, Joined DEF Reuse, LevelAt
    <3>2. CASE ~Reuse
      BY <1>1, <1>d, <3>2 DEF Refuse, SkipReserved, RefuseOverLimit, NoteRevisit, Group, LevelAt, round
    <3> QED
      BY <3>1, <3>2
  <2>5. \A n \in DOMAIN groups' : OwnersAtDepth(groups'[n].owners, d + 1)
    <3>1. CASE Group
      <4> DEFINE same == {n \in DOMAIN groups : groups[n].key = request.key}
                 new == [key |-> request.key, owners |-> <<Owner(at, request)>>, status |-> "waiting"]
                 widened == [n \in DOMAIN groups |->
                               IF n \in same
                               THEN [groups[n] EXCEPT !.owners = Join(@, at, request)]
                               ELSE groups[n]]
      <4>1. groups' = IF same = {} THEN Append(groups, new) ELSE widened
        BY <3>1 DEF Group
      <4>2. request \in Request /\ request.depth = d + 1
        BY <1>g, <2>1
      <4>3. Owner(at, request) \in Owned /\ request.key \in Keys
        BY <1>t, <4>2 DEF Owner, Owned, Request
      <4>4. new \in FetchGroup /\ OwnersAtDepth(new.owners, d + 1)
        BY <4>2, <4>3 DEF FetchGroup, Status, OwnersAtDepth, Owner
      <4>5. \A n \in DOMAIN groups : groups[n] \in FetchGroup /\ OwnersAtDepth(groups[n].owners, d + 1)
        BY <1>t, <1>d DEF LevelAt
      <4>6. \A n \in DOMAIN groups : groups[n].owners \in Seq(Owned)
        BY <4>5 DEF FetchGroup
      <4>7. \A n \in DOMAIN groups : OwnersAtDepth(Join(groups[n].owners, at, request), d + 1)
        BY <1>t, <4>2, <4>5, <4>6, Joined
      <4>8. \A n \in DOMAIN groups : OwnersAtDepth(widened[n].owners, d + 1)
        BY <4>5, <4>7 DEF FetchGroup
      <4>9. DOMAIN widened = DOMAIN groups
        OBVIOUS
      <4> HIDE DEF widened, new, same
      <4>10. CASE same = {}
        <5>1. \A n \in DOMAIN groups' : (n \in DOMAIN groups /\ groups'[n] = groups[n]) \/ groups'[n] = new
          BY <1>t, <4>1, <4>4, <4>10, Appended
        <5> QED
          BY <4>4, <4>5, <5>1
      <4>11. CASE same # {}
        BY <4>1, <4>8, <4>9, <4>11
      <4> QED
        BY <4>10, <4>11
    <3>2. CASE ~Group
      BY <1>1, <1>d, <3>2 DEF Refuse, SkipReserved, RefuseOverLimit, NoteRevisit, Reuse, LevelAt, round
    <3> QED
      BY <3>1, <3>2
  <2>6. phase' = "group" /\ \A i \in Batch : ~Unmerged(i)'
    BY <1>g, <2>1 DEF Unmerged, Discovering
  <2>7. LevelAt(d)'
    BY <1>d, <1>g, <2>1, <2>2, <2>3, <2>4, <2>5, <2>6 DEF LevelAt, SameLevel
  <2> QED
    BY <1>g, <2>1, <2>2, <2>7 DEF Levels, SameLevel
<1>2. CASE NextRequests
  <2>1. UNCHANGED <<walks, requests, revisits, reuses, groups>> /\ phase = "group" /\ phase' \in {"group", "revisit"}
    BY <1>2 DEF NextRequests, round
  <2>2. \A i \in Batch : ~Unmerged(i) /\ ~Unmerged(i)' /\ walks[i].queue = <<>>
    BY <1>u, <2>1 DEF Unmerged, Discovering, Levels
  <2>3. LevelAt(d)'
    BY <1>d, <2>1, <2>2 DEF LevelAt, AtDepth
  <2> QED
    BY <2>1, <2>2, <2>3 DEF Levels
<1>3. CASE ApplyRevisit
  <2> DEFINE o == Head(revisits)
             v == EnqueueRevisit(walks[o.root], o.request)
  <2>1. revisits # <<>> /\ o \in Owned /\ 1 \in DOMAIN revisits /\ o = revisits[1] /\ phase = "revisit"
    BY <1>t, <1>3, Tailed DEF ApplyRevisit
  <2>2. /\ o.root \in Batch /\ o.request.key \in Keys /\ o.request.depth \in Nat
        /\ o.request.contexts \subseteq Contexts /\ walks[o.root] \in Walk /\ o.request.depth = d + 1
        /\ AtDepth(walks[o.root].queue, d + 1)
    BY <1>t, <1>d, <2>1 DEF Owned, Request, LevelAt, OwnersAtDepth
  <2>3. Revisitable(walks[o.root], o.request.key)
    BY <2>1 DEF Acquired
  <2>4. AtDepth(v.queue, d + 1) /\ v.merged = walks[o.root].merged /\ v.frontier = walks[o.root].frontier
    BY <2>2, <2>3, EnqueueDepth
  <2>5. walks' = [walks EXCEPT ![o.root] = v] /\ revisits' = Tail(revisits)
        /\ UNCHANGED <<phase, requests, reuses, groups>>
    BY <1>3 DEF ApplyRevisit
  <2> HIDE DEF v, o
  <2>6. OwnersAtDepth(revisits', d + 1)
    BY <1>t, <1>d, <2>1, <2>5, Tailed DEF LevelAt, OwnersAtDepth
  <2>7. \A i \in Batch : ~Unmerged(i)'
    BY <2>1, <2>5 DEF Unmerged, Discovering
  <2>8. LevelAt(d)'
    BY <1>t, <1>d, <2>1, <2>2, <2>4, <2>5, <2>6, <2>7 DEF LevelAt
  <2> QED
    BY <2>1, <2>5, <2>8 DEF Levels, Discovering
<1>4. CASE EndRevisits
  <2>1. UNCHANGED <<walks, requests, revisits, reuses, groups>> /\ phase = "revisit" /\ phase' = "reuse"
    BY <1>4 DEF EndRevisits, round
  <2>2. \A i \in Batch : ~Unmerged(i)'
    BY <2>1 DEF Unmerged, Discovering
  <2>3. LevelAt(d)'
    BY <1>d, <2>1, <2>2 DEF LevelAt
  <2> QED
    BY <2>1, <2>3 DEF Levels, Discovering
<1>5. CASE ApplyReuse
  <2> DEFINE o == Head(reuses)
             v == Apply(walks[o.root], o.request, fetched[o.request.key])
  <2>1. reuses # <<>> /\ o \in Owned /\ 1 \in DOMAIN reuses /\ o = reuses[1] /\ phase = "reuse"
    BY <1>t, <1>5, Tailed DEF ApplyReuse
  <2>2. /\ o.root \in Batch /\ o.request.key \in Keys /\ o.request.depth \in Nat
        /\ o.request.contexts \subseteq Contexts /\ walks[o.root] \in Walk /\ o.request.depth = d + 1
        /\ AtDepth(walks[o.root].queue, d + 1)
    BY <1>t, <1>d, <2>1 DEF Owned, Request, LevelAt, OwnersAtDepth
  <2>3. AtDepth(v.queue, d + 1) /\ v.merged = walks[o.root].merged /\ v.frontier = walks[o.root].frontier
    BY <2>2, EnqueueDepth, LevelUntouched DEF Apply, SameLevel
  <2>4. walks' = [walks EXCEPT ![o.root] = v] /\ reuses' = Tail(reuses)
        /\ UNCHANGED <<phase, requests, revisits, groups>>
    BY <1>5 DEF ApplyReuse
  <2> HIDE DEF v, o
  <2>5. OwnersAtDepth(reuses', d + 1)
    BY <1>t, <1>d, <2>1, <2>4, Tailed DEF LevelAt, OwnersAtDepth
  <2>6. \A i \in Batch : ~Unmerged(i)'
    BY <2>1, <2>4 DEF Unmerged, Discovering
  <2>7. LevelAt(d)'
    BY <1>t, <1>d, <2>1, <2>2, <2>3, <2>4, <2>5, <2>6 DEF LevelAt
  <2> QED
    BY <2>1, <2>4, <2>7 DEF Levels, Discovering
<1> QED
    BY <1>1, <1>2, <1>3, <1>4, <1>5 DEF GroupRequests

\* Fetching and applying results, and the turn to the next round.
LEMMA LevelsFetch ==
    ASSUME TypeOK, Stages, Levels, NEW d \in Nat, LevelAt(d), FetchGroups
    PROVE  Levels' /\ (LevelAt(d)' \/ LevelAt(d + 1)')
<1>t. /\ walks \in [Batch -> Walk] /\ groups \in Seq(FetchGroup)
    BY DEF TypeOK
<1>n. Len(Roots) \in Nat \ {0} /\ Batch = 1..Len(Roots)
    BY BatchAssumption DEF Batch
<1>d. LevelAt(d)
    OBVIOUS
<1>0. ASSUME phase' \in {"reuse", "fetch"}, LevelAt(d)' PROVE Levels' /\ LevelAt(d)'
    BY <1>0 DEF Levels, Discovering
<1>u. phase' \in {"reuse", "fetch"} => \A i \in Batch : ~Unmerged(i)'
    BY DEF Unmerged, Discovering
<1>1. CASE StartFetches
  <2>1. UNCHANGED <<walks, requests, revisits, reuses, groups>> /\ phase = "reuse" /\ phase' = "fetch"
    BY <1>1 DEF StartFetches, round
  <2> QED
    BY <1>0, <1>d, <1>u, <2>1 DEF LevelAt
<1>2. CASE RefuseRound
  <2>1. UNCHANGED <<requests, revisits, reuses>> /\ groups' = <<>> /\ phase = "reuse" /\ phase' = "fetch"
    BY <1>2 DEF RefuseRound
  <2>2. \A i \in Batch : SameLevel(walks[i], walks'[i])
    <3>1. \A i \in Batch : walks'[i] = ReportIssue(walks[i], "batch packages", None) \/ walks'[i] = walks[i]
      BY <1>2 DEF RefuseRound
    <3>2. \A i \in Batch : walks[i] \in Walk
      BY <1>t
    <3>3. \A i \in Batch : SameLevel(walks[i], ReportIssue(walks[i], "batch packages", None))
      BY <3>2, LevelUntouched
    <3>4. \A i \in Batch : SameLevel(walks[i], walks[i])
      BY DEF SameLevel
    <3> QED
      BY <3>1, <3>3, <3>4
  <2> QED
    BY <1>0, <1>d, <1>u, <2>1, <2>2 DEF LevelAt, SameLevel
<1>3. CASE Launch \/ \E n \in DOMAIN groups : Complete(n)
  <2>1. PICK n \in DOMAIN groups, status \in {"running", "fetched", "failed"} :
           groups' = [groups EXCEPT ![n].status = status]
    BY <1>3 DEF Launch, Complete, NextToLaunch, Window
  <2>2. \A m \in DOMAIN groups : groups[m] \in FetchGroup
    BY <1>t
  <2>3. DOMAIN groups' = DOMAIN groups /\ \A m \in DOMAIN groups : groups'[m].owners = groups[m].owners
    BY <2>1, <2>2 DEF FetchGroup
  <2>4. phase = "fetch" /\ UNCHANGED <<phase, walks, requests, revisits, reuses>>
    BY <1>3 DEF Launch, Complete, round
  <2> QED
    BY <1>0, <1>d, <1>u, <2>3, <2>4 DEF LevelAt
<1>4. CASE TakeResult
  <2> DEFINE g == Head(groups)
  <2>1. phase = "fetch" /\ UNCHANGED <<phase, requests, revisits, reuses>>
    BY <1>4 DEF TakeResult
  <2>2. /\ g \in FetchGroup /\ groups # <<>> /\ groups' = Tail(groups)
        /\ \A i \in Batch : walks'[i].merged = walks[i].merged /\ walks'[i].frontier = walks[i].frontier
    BY <1>4, TakeResultType
  <2>3. OwnersAtDepth(g.owners, d + 1)
    BY <1>t, <1>d, <2>2, Tailed DEF LevelAt
  <2>4. \A n \in DOMAIN groups' : OwnersAtDepth(groups'[n].owners, d + 1)
    BY <1>t, <1>d, <2>2, Tailed DEF LevelAt
  <2>5. ASSUME NEW i \in Batch PROVE AtDepth(walks'[i].queue, d + 1)
    <3>1. AtDepth(walks[i].queue, d + 1) /\ walks[i] \in Walk
      BY <1>t, <1>d, <2>1 DEF LevelAt
    <3>2. CASE walks'[i] = walks[i]
      BY <3>1, <3>2
    <3>3. CASE /\ walks'[i] = Apply(walks[i], RequestOf(g, i), g.status)
               /\ \E m \in DOMAIN g.owners : g.owners[m].root = i
      <4> DEFINE r == RequestOf(g, i)
      <4>1. r \in Request /\ r.depth = d + 1
        BY <2>2, <2>3, <3>1, <3>3, ResultApplied DEF OwnersAtDepth
      <4>2. r.key \in Keys /\ r.contexts \subseteq Contexts /\ r.depth \in Nat
        BY <4>1 DEF Request
      <4> HIDE DEF r
      <4>3. AtDepth(EnqueueAcquired(walks[i], r).queue, d + 1)
        BY <3>1, <4>1, <4>2, EnqueueDepth
      <4>4. AtDepth(ReportIssue(walks[i], "fetch", r.key).queue, d + 1)
        BY <3>1, LevelUntouched DEF SameLevel
      <4> QED
        BY <3>3, <4>3, <4>4 DEF Apply, r
    <3> QED
      BY <1>4, <3>2, <3>3, TakeResultType
  <2> QED
    BY <1>0, <1>d, <1>u, <2>1, <2>2, <2>4, <2>5 DEF LevelAt
<1>5. CASE NextRound
  <2>1. /\ UNCHANGED <<walks, requests, revisits, reuses, groups>> /\ groups = <<>>
        /\ phase = "fetch" /\ phase' = "merge" /\ at' = 1
    BY <1>5 DEF NextRound
  <2>2. /\ \A i \in Batch : walks[i].merged = <<>> /\ walks[i].frontier = <<>> /\ requests[i] = <<>>
        /\ revisits = <<>> /\ reuses = <<>>
    BY <2>1 DEF Stages, Discovering
  <2>3. \A i \in Batch : Unmerged(i)'
    BY <1>n, <2>1 DEF Unmerged, Discovering
  <2>4. LevelAt(d + 1)'
    BY <1>d, <2>1, <2>2 DEF LevelAt, AtDepth, OwnersAtDepth
  <2> QED
    BY <2>3, <2>4 DEF Levels
<1> QED
    BY <1>1, <1>2, <1>3, <1>4, <1>5 DEF FetchGroups

\* Every step keeps the level, or is the turn to the next one.
LEMMA LevelsAdvance ==
    ASSUME TypeOK, Stages, Acquired, Levels, NEW d \in Nat, LevelAt(d), [Next]_vars
    PROVE  Levels' /\ (LevelAt(d)' \/ LevelAt(d + 1)')
<1>1. CASE UNCHANGED vars
  <2>1. UNCHANGED <<phase, at, walks, requests, revisits, reuses, groups>>
    BY <1>1 DEF vars
  <2> QED
    BY <2>1 DEF Levels, LevelAt, Unmerged, OwnersAtDepth
<1>2. CASE RefuseBatch \/ StartBatch
  <2>1. UNCHANGED <<walks, requests, revisits, reuses, groups>> /\ phase = "start" /\ phase' \in {"merge", "refused"}
    BY <1>2 DEF RefuseBatch, StartBatch, round
  <2>2. \A i \in Batch : Unmerged(i)
    BY <2>1 DEF Unmerged
  <2>3. LevelAt(d)'
    BY <2>1, <2>2 DEF LevelAt
  <2>4. at' = at /\ at = 1
    BY <1>2, <2>1 DEF RefuseBatch, StartBatch, Stages
  <2>5. \A i \in Batch : phase' = "merge" => Unmerged(i)'
    BY <2>4, BatchAssumption DEF Unmerged, Discovering, Batch
  <2> QED
    BY <2>1, <2>3, <2>5 DEF Levels, Discovering
<1> QED
    BY <1>1, <1>2, LevelsDiscover, LevelsGroup, LevelsFetch DEF Next

\* The walks stay at one depth.
LEMMA LevelsStep == TypeOK /\ Stages /\ Acquired /\ Levels /\ [Next]_vars => Levels'
<1> SUFFICES ASSUME TypeOK, Stages, Acquired, Levels, [Next]_vars PROVE Levels'
    OBVIOUS
<1>1. PICK d \in Nat : LevelAt(d)
    BY DEF Levels
<1> QED
    BY <1>1, LevelsAdvance

-----------------------------------------------------------------------------
(* Each package once in each report.                                           *)

\* New walks report nothing.
LEMMA ReportedInit == Init => Reported
<1> SUFFICES ASSUME Init, NEW i \in Batch PROVE Once(walks[i], Looked(i))
    BY DEF Reported
<1>1. walks[i] = NewWalk(Roots[i].source, Roots[i]) /\ phase = "start"
    BY DEF Init
<1>2. Once(walks[i], FALSE)
    BY <1>1, OnceNew
<1>3. Looked(i) = FALSE
    BY <1>1 DEF Looked
<1> QED
    BY <1>2, <1>3

\* Every step keeps each package once: only the steps on the walk of one root
\* change what is reported.
LEMMA ReportedStep == TypeOK /\ Stages /\ Acquired /\ Reported /\ [Next]_vars => Reported'
<1> SUFFICES ASSUME TypeOK, Stages, Acquired, Reported, [Next]_vars PROVE Reported'
    OBVIOUS
<1>t. walks \in [Batch -> Walk] /\ at \in Batch /\ walk \in Walk /\ walk = walks[at]
    BY DEF TypeOK, walk
<1>s. \A i \in Batch : SameReport(walks[i], walks[i]) /\ walks[i] \in Walk
    BY <1>t DEF SameReport
<1>0. ASSUME \A i \in Batch : SameReport(walks[i], walks'[i]), \A i \in Batch : Looked(i)' <=> Looked(i)
      PROVE  Reported'
  <2> SUFFICES ASSUME NEW i \in Batch PROVE Once(walks'[i], Looked(i)')
    BY DEF Reported
  <2>1. Once(walks'[i], Looked(i))
    BY <1>0, OnceKept DEF Reported
  <2>2. CASE Looked(i)
    <3>1. Looked(i)' = TRUE /\ Looked(i) = TRUE
      BY <1>0, <2>2
    <3> QED
      BY <2>1, <3>1
  <2>3. CASE ~Looked(i)
    <3>1. Looked(i)' = FALSE /\ Looked(i) = FALSE
      BY <1>0, <2>3
    <3> QED
      BY <2>1, <3>1
  <2> QED
    BY <2>2, <2>3
<1>1. CASE \/ UNCHANGED vars \/ RefuseBatch \/ StartBatch \/ EndMerge \/ EndAdmit \/ AddRequest
           \/ NextRoot \/ NoteRevisit \/ SkipReserved \/ NextRequests \/ EndRevisits \/ StartFetches
           \/ Launch \/ (\E n \in DOMAIN groups : Complete(n)) \/ NextRound
  <2>1. walks' = walks
    BY <1>1 DEF vars, RefuseBatch, StartBatch, EndMerge, EndAdmit, AddRequest, NextRoot, NoteRevisit,
                SkipReserved, NextRequests, EndRevisits, StartFetches, Launch, Complete, NextRound
  <2>2. \A i \in Batch : Looked(i)' <=> Looked(i)
    <3>1. (phase' = phase /\ at' = at) \/ (phase # "request" /\ phase' # "request")
      BY <1>1 DEF vars, RefuseBatch, StartBatch, EndMerge, EndAdmit, AddRequest, NextRoot, NoteRevisit,
                  SkipReserved, NextRequests, EndRevisits, StartFetches, Launch, Complete, NextRound
    <3> QED
      BY <3>1 DEF Looked
  <2> QED
    BY <1>0, <1>s, <2>1, <2>2
<1>2. CASE \/ Merge \/ Drop \/ LeaveOut \/ Refuse \/ RefuseOverLimit \/ Reuse \/ Group
  <2>1. PICK v : walks' = [walks EXCEPT ![at] = v] /\ SameReport(walk, v)
    BY <1>t, <1>2, ReportUntouched DEF Merge, Drop, LeaveOut, Refuse, RefuseOverLimit, Reuse, Group, walk
  <2>2. \A i \in Batch : SameReport(walks[i], walks'[i])
    BY <1>s, <1>t, <2>1
  <2>3. UNCHANGED <<phase, at>>
    BY <1>2 DEF Merge, Drop, LeaveOut, Refuse, RefuseOverLimit, Reuse, Group
  <2> QED
    BY <1>0, <2>2, <2>3 DEF Looked
<1>3. CASE ApplyRevisit
  <2> DEFINE o == Head(revisits)
             v == EnqueueRevisit(walks[o.root], o.request)
  <2>1. walks' = [walks EXCEPT ![o.root] = v] /\ UNCHANGED <<phase, at>>
    BY <1>3 DEF ApplyRevisit
  <2>2. o.root \in Batch => SameReport(walks[o.root], v)
    BY <1>s, ReportUntouched
  <2> HIDE DEF v, o
  <2>3. \A i \in Batch : SameReport(walks[i], walks'[i])
    BY <1>s, <1>t, <2>1, <2>2
  <2> QED
    BY <1>0, <2>1, <2>3 DEF Looked
<1>4. CASE ApplyReuse
  <2> DEFINE o == Head(reuses)
             v == Apply(walks[o.root], o.request, fetched[o.request.key])
  <2>1. walks' = [walks EXCEPT ![o.root] = v] /\ UNCHANGED <<phase, at>>
    BY <1>4 DEF ApplyReuse
  <2>2. o.root \in Batch => SameReport(walks[o.root], v)
    BY <1>s, ReportUntouched DEF Apply
  <2> HIDE DEF v, o
  <2>3. \A i \in Batch : SameReport(walks[i], walks'[i])
    BY <1>s, <1>t, <2>1, <2>2
  <2> QED
    BY <1>0, <2>1, <2>3 DEF Looked
<1>5. CASE RefuseRound
  <2>1. \A i \in Batch : walks'[i] = ReportIssue(walks[i], "batch packages", None) \/ walks'[i] = walks[i]
    BY <1>5 DEF RefuseRound
  <2>2. \A i \in Batch : SameReport(walks[i], ReportIssue(walks[i], "batch packages", None))
    BY <1>s, ReportUntouched
  <2>3. \A i \in Batch : SameReport(walks[i], walks'[i])
    BY <1>s, <2>1, <2>2
  <2>4. phase # "request" /\ phase' # "request"
    BY <1>5 DEF RefuseRound
  <2> QED
    BY <1>0, <2>3, <2>4 DEF Looked
<1>6. CASE TakeResult
  <2> DEFINE g == Head(groups)
  <2>1. ASSUME NEW i \in Batch PROVE SameReport(walks[i], walks'[i])
    <3>1. \A r, status : SameReport(walks[i], Apply(walks[i], r, status))
      BY <1>s, ReportUntouched DEF Apply
    <3>2. walks'[i] = walks[i] \/ walks'[i] = Apply(walks[i], RequestOf(g, i), g.status)
      BY <1>6, TakeResultType
    <3> QED
      BY <1>s, <3>1, <3>2
  <2>2. UNCHANGED <<phase, at>>
    BY <1>6 DEF TakeResult
  <2> QED
    BY <1>0, <2>1, <2>2 DEF Looked
<1>7. CASE Revisit \/ FirstVisit
  <2>1. /\ walk.merged # <<>> /\ phase = "admit" /\ UNCHANGED <<phase, at>>
        /\ \/ walks' = [walks EXCEPT ![at] = AdmitRevisit(walk)]
           \/ ~Visited(walk, Head(walk.merged)) /\ walks' = [walks EXCEPT ![at] = AdmitFirstVisit(walk)]
           \/ walks' = [walks EXCEPT ![at] = BreakAtLimit(walk)]
    BY <1>7 DEF Revisit, FirstVisit, Admitting
  <2>2. \A i \in Batch : Looked(i) = FALSE /\ Looked(i)' = FALSE
    BY <2>1 DEF Looked
  <2>3. \A i \in Batch : Once(walks[i], FALSE)
    <3> TAKE i \in Batch
    <3>1. Once(walks[i], Looked(i)) /\ Looked(i) = FALSE
      BY <2>2 DEF Reported
    <3> QED
      BY <3>1
  <2>4. Once(walks'[at], FALSE)
    BY <1>t, <2>1, <2>3, OnceAdmit
  <2>5. \A i \in Batch : i # at => walks'[i] = walks[i]
    BY <1>t, <2>1
  <2>6. \A i \in Batch : Once(walks'[i], FALSE)
    BY <2>3, <2>4, <2>5
  <2>7. \A i \in Batch : Once(walks'[i], Looked(i)')
    BY <2>2, <2>6
  <2> QED
    BY <2>7 DEF Reported
<1>8. CASE Analyze
  <2>1. /\ walk.frontier # <<>> /\ phase = "analyze" /\ phase' = "request" /\ at' = at
        /\ walks' = [walks EXCEPT ![at] = AnalyzeNext(walk)]
    BY <1>8 DEF Analyze
  <2>2. \A i \in Batch : Once(walks[i], FALSE)
    <3> TAKE i \in Batch
    <3>1. Once(walks[i], Looked(i)) /\ Looked(i) = FALSE
      BY <2>1 DEF Reported, Looked
    <3> QED
      BY <3>1
  <2>3. Once(walks'[at], TRUE) /\ \A i \in Batch : i # at => walks'[i] = walks[i]
    BY <1>t, <2>1, <2>2, OnceAnalyze
  <2>4. \A i \in Batch : i # at => Looked(i)' = FALSE
    BY <2>1 DEF Looked
  <2>5. ASSUME NEW i \in Batch PROVE Once(walks'[i], Looked(i)')
    <3>1. CASE i = at
      <4>1. Once(walks'[i], TRUE)
        BY <2>3, <3>1
      <4>2. Looked(i)' = TRUE
        BY <2>1, <3>1 DEF Looked
      <4> QED
        BY <4>1, <4>2
    <3>2. CASE i # at
      <4>1. Once(walks'[i], FALSE)
        BY <2>2, <2>3, <3>2
      <4>2. Looked(i)' = FALSE
        BY <2>4, <3>2
      <4> QED
        BY <4>1, <4>2
    <3> QED
      BY <3>1, <3>2
  <2> QED
    BY <2>5 DEF Reported
<1>9. CASE EndRequests
  <2>1. /\ walk.frontier # <<>> /\ phase = "request" /\ phase' = "analyze" /\ at' = at
        /\ walks' = [walks EXCEPT ![at] = LeaveFrontierHead(walk)]
    BY <1>9 DEF EndRequests, Stages
  <2>2. Looked(at) = TRUE /\ \A i \in Batch : (i # at => Looked(i) = FALSE) /\ Looked(i)' = FALSE
    BY <2>1 DEF Looked
  <2>3. Once(walk, TRUE) /\ \A i \in Batch : i # at => Once(walks[i], FALSE)
    <3>1. \A i \in Batch : Once(walks[i], Looked(i))
      BY DEF Reported
    <3> QED
      BY <1>t, <2>2, <3>1
  <2>4. Once(walks'[at], FALSE) /\ \A i \in Batch : i # at => walks'[i] = walks[i]
    BY <1>t, <2>1, <2>3, OnceAnalyze
  <2>5. ASSUME NEW i \in Batch PROVE Once(walks'[i], Looked(i)')
    BY <2>2, <2>3, <2>4
  <2> QED
    BY <2>5 DEF Reported
<1> QED
    BY <1>1, <1>2, <1>3, <1>4, <1>5, <1>6, <1>7, <1>8, <1>9 DEF Next, DiscoverFrontiers, GroupRequests, FetchGroups

-----------------------------------------------------------------------------
(* Revisits.                                                                   *)

\* Nothing is noted at first.
LEMMA AcquiredInit == Init => Acquired
    BY DEF Init, Acquired

\* What is noted as a revisit was acquired before, or names the root, and what a
\* walk has acquired it keeps.
LEMMA AcquiredStep == TypeOK /\ Acquired /\ [Next]_vars => Acquired'
<1> SUFFICES ASSUME TypeOK, Acquired, [Next]_vars PROVE Acquired'
    OBVIOUS
<1>t. /\ walks \in [Batch -> Walk] /\ at \in Batch /\ walk \in Walk /\ walk = walks[at]
      /\ revisits \in Seq(Owned) /\ requests \in [Batch -> Seq(Request)]
    BY DEF TypeOK, walk
<1>s. \A i \in Batch : SameRevisits(walks[i], walks[i]) /\ walks[i] \in Walk
    BY <1>t DEF SameRevisits
<1>o. \A n \in DOMAIN revisits : revisits[n].root \in Batch
  <2>1. \A n \in DOMAIN revisits : revisits[n] \in Owned
    BY <1>t
  <2> QED
    BY <2>1 DEF Owned
<1>k. ASSUME \A i \in Batch : SameRevisits(walks[i], walks'[i])
      PROVE  \A n \in DOMAIN revisits : Revisitable(walks'[revisits[n].root], revisits[n].request.key)
    BY <1>k, <1>o, StillRevisitable DEF Acquired
<1>0. ASSUME \A i \in Batch : SameRevisits(walks[i], walks'[i]), revisits' = revisits PROVE Acquired'
    BY <1>0, <1>k DEF Acquired
<1>1. CASE \/ UNCHANGED vars \/ RefuseBatch \/ StartBatch \/ EndMerge \/ EndAdmit \/ AddRequest
           \/ NextRoot \/ SkipReserved \/ NextRequests \/ EndRevisits \/ StartFetches
           \/ Launch \/ (\E n \in DOMAIN groups : Complete(n)) \/ NextRound
  <2>1. walks' = walks /\ revisits' = revisits
    BY <1>1 DEF vars, round, RefuseBatch, StartBatch, EndMerge, EndAdmit, AddRequest, NextRoot,
                SkipReserved, NextRequests, EndRevisits, StartFetches, Launch, Complete, NextRound
  <2> QED
    BY <1>0, <1>s, <2>1
<1>2. CASE \/ Merge \/ Drop \/ Revisit \/ FirstVisit \/ Analyze \/ LeaveOut \/ EndRequests
           \/ Refuse \/ RefuseOverLimit \/ Reuse \/ Group
  <2>1. PICK v : walks' = [walks EXCEPT ![at] = v] /\ SameRevisits(walk, v)
    <3>1. CASE Merge \/ Drop \/ Revisit \/ FirstVisit \/ Analyze \/ LeaveOut \/ EndRequests
      BY <1>t, <3>1, RevisitsKept DEF Merge, Drop, Revisit, FirstVisit, Analyze, LeaveOut, EndRequests
    <3>2. CASE Refuse \/ RefuseOverLimit \/ Reuse \/ Group
      BY <1>t, <3>2, RevisitsKept DEF Refuse, RefuseOverLimit, Reuse, Group, walk
    <3> QED
      BY <1>2, <3>1, <3>2
  <2>2. \A i \in Batch : SameRevisits(walks[i], walks'[i])
    BY <1>s, <1>t, <2>1
  <2>3. revisits' = revisits
    BY <1>2 DEF round, Merge, Drop, Revisit, FirstVisit, Analyze, LeaveOut, EndRequests, Refuse,
                RefuseOverLimit, Reuse, Group
  <2> QED
    BY <1>0, <2>2, <2>3
<1>3. CASE NoteRevisit
  <2>1. requests[at] # <<>> /\ requests[at] \in Seq(Request)
    BY <1>t, <1>3 DEF NoteRevisit, Grouping
  <2>2. request \in Request
    BY <2>1, Tailed DEF request
  <2>3. walks' = walks /\ revisits' = Join(revisits, at, request)
    BY <1>3 DEF NoteRevisit
  <2>4. Revisitable(walk, request.key)
    <3>1. CASE NotedRevisit
      BY <1>t, <3>1 DEF NotedRevisit, IsOwner, Acquired
    <3> QED
      BY <1>3, <3>1 DEF NoteRevisit
  <2> DEFINE joined == Join(revisits, at, request)
  <2>5. \A n \in DOMAIN joined :
           \/ IsOwner(joined[n], at, request.key)
           \/ \E m \in DOMAIN revisits : IsOwner(joined[n], revisits[m].root, revisits[m].request.key)
    BY <1>t, <2>2, Joined
  <2> HIDE DEF joined
  <2>6. \A n \in DOMAIN joined : Revisitable(walks[joined[n].root], joined[n].request.key)
    BY <1>t, <2>4, <2>5 DEF IsOwner, Acquired
  <2> QED
    BY <2>3, <2>6 DEF Acquired, joined
<1>4. CASE ApplyRevisit
  <2> DEFINE o == Head(revisits)
             v == EnqueueRevisit(walks[o.root], o.request)
  <2>1. walks' = [walks EXCEPT ![o.root] = v] /\ revisits' = Tail(revisits) /\ revisits # <<>>
    BY <1>4 DEF ApplyRevisit
  <2>2. o.root \in Batch => SameRevisits(walks[o.root], v)
    BY <1>s, RevisitsKept
  <2> HIDE DEF v, o
  <2>3. \A i \in Batch : SameRevisits(walks[i], walks'[i])
    BY <1>s, <1>t, <2>1, <2>2
  <2>4. \A n \in DOMAIN Tail(revisits) : n + 1 \in DOMAIN revisits /\ Tail(revisits)[n] = revisits[n + 1]
    BY <1>t, <2>1, Tailed
  <2> QED
    BY <1>k, <2>1, <2>3, <2>4 DEF Acquired
<1>5. CASE ApplyReuse
  <2> DEFINE o == Head(reuses)
             v == Apply(walks[o.root], o.request, fetched[o.request.key])
  <2>1. walks' = [walks EXCEPT ![o.root] = v] /\ revisits' = revisits
    BY <1>5 DEF ApplyReuse
  <2>2. o.root \in Batch => SameRevisits(walks[o.root], v)
    BY <1>s, RevisitsKept DEF Apply
  <2> HIDE DEF v, o
  <2>3. \A i \in Batch : SameRevisits(walks[i], walks'[i])
    BY <1>s, <1>t, <2>1, <2>2
  <2> QED
    BY <1>0, <2>1, <2>3
<1>6. CASE RefuseRound
  <2>1. \A i \in Batch : walks'[i] = ReportIssue(walks[i], "batch packages", None) \/ walks'[i] = walks[i]
    BY <1>6 DEF RefuseRound
  <2>2. \A i \in Batch : SameRevisits(walks[i], ReportIssue(walks[i], "batch packages", None))
    BY <1>s, RevisitsKept
  <2>3. \A i \in Batch : SameRevisits(walks[i], walks'[i])
    BY <1>s, <2>1, <2>2
  <2> QED
    BY <1>0, <1>6, <2>3 DEF RefuseRound
<1>7. CASE TakeResult
  <2> DEFINE g == Head(groups)
  <2>1. ASSUME NEW i \in Batch PROVE SameRevisits(walks[i], walks'[i])
    <3>1. \A r, status : SameRevisits(walks[i], Apply(walks[i], r, status))
      BY <1>s, RevisitsKept DEF Apply
    <3>2. walks'[i] = walks[i] \/ walks'[i] = Apply(walks[i], RequestOf(g, i), g.status)
      BY <1>7, TakeResultType
    <3> QED
      BY <1>s, <3>1, <3>2
  <2>2. revisits' = revisits
    BY <1>7 DEF TakeResult
  <2> QED
    BY <1>0, <2>1, <2>2
<1> QED
    BY <1>1, <1>2, <1>3, <1>4, <1>5, <1>6, <1>7 DEF Next, DiscoverFrontiers, GroupRequests, FetchGroups

-----------------------------------------------------------------------------
(* Shared fetches.                                                             *)

\* Nothing has been fetched at first.
LEMMA SharedInit == Init => Shared
<1> SUFFICES ASSUME Init PROVE Shared
    OBVIOUS
<1>1. /\ groups = <<>> /\ fetched = <<>> /\ attempts = <<>> /\ phase = "start"
      /\ DOMAIN groups = {} /\ DOMAIN fetched = {} /\ DOMAIN attempts = {}
    BY DEF Init
<1> QED
    BY <1>1 DEF Shared

\* What has been fetched is counted with the roots.
LEMMA WorkCounted ==
    ASSUME TypeOK
    PROVE  /\ IsFiniteSet(DOMAIN fetched)
           /\ Len(Roots) \in Nat \ {0}
           /\ UniqueWork \in Nat
           /\ limits.packages \in Nat
           /\ Len(groups) \in Nat
<1>1. DOMAIN fetched \subseteq Keys /\ IsFiniteSet(Keys)
    BY TraversalAssumption DEF TypeOK
<1>2. IsFiniteSet(DOMAIN fetched) /\ Cardinality(DOMAIN fetched) \in Nat
    BY <1>1, FS_Subset, FS_CardinalityType
<1>3. Len(Roots) \in Nat \ {0}
    BY BatchAssumption
<1>4. limits.packages \in Nat
    BY TraversalAssumption DEF TypeOK
<1> QED
    BY <1>2, <1>3, <1>4 DEF UniqueWork, TypeOK

\* Grouping adds a group only for a key of its own that nothing has fetched.
LEMMA SharedGroup ==
    ASSUME TypeOK, Shared, Group PROVE Shared'
<1>1. /\ groups \in Seq(FetchGroup) /\ requests \in [Batch -> Seq(Request)] /\ at \in Batch
      /\ requests[at] # <<>> /\ phase = "group"
    BY DEF TypeOK, Group, Admitted, Grouping
<1>2. requests[at] \in Seq(Request)
    BY <1>1
<1>3. request \in Request
    BY <1>1, <1>2, Tailed DEF request
<1>4. request.key \in Keys
    BY <1>3 DEF Request
<1> DEFINE same == {n \in DOMAIN groups : groups[n].key = request.key}
           new == [key |-> request.key, owners |-> <<Owner(at, request)>>, status |-> "waiting"]
           widened == [n \in DOMAIN groups |->
                         IF n \in same
                         THEN [groups[n] EXCEPT !.owners = Join(@, at, request)]
                         ELSE groups[n]]
<1>5. /\ groups' = IF same = {} THEN Append(groups, new) ELSE widened
      /\ request.key \notin DOMAIN fetched
      /\ UNCHANGED <<phase, limits, fetched, attempts>>
    BY DEF Group, rigid, results
<1>6. at \in Batch /\ Owner(at, request) \in Owned
    BY <1>1, <1>3 DEF Owner, Owned
<1>7. new \in FetchGroup /\ new.key = request.key /\ new.status = "waiting"
    BY <1>4, <1>6 DEF FetchGroup, Status
<1>8. \A n \in DOMAIN groups : groups[n] \in FetchGroup
    BY <1>1
<1>9. /\ DOMAIN widened = DOMAIN groups
      /\ \A n \in DOMAIN groups : widened[n].key = groups[n].key /\ widened[n].status = groups[n].status
    BY <1>8 DEF FetchGroup
<1>10. same = {} => \A n \in DOMAIN groups : groups[n].key # request.key
    OBVIOUS
<1> HIDE DEF same, new, widened
<1>11. /\ \A m, n \in DOMAIN groups' : m # n => groups'[m].key # groups'[n].key
       /\ \A n \in DOMAIN groups' : groups'[n].key \notin DOMAIN fetched /\ groups'[n].status = "waiting"
  <2>1. /\ \A m, n \in DOMAIN groups : m # n => groups[m].key # groups[n].key
        /\ \A n \in DOMAIN groups : groups[n].key \notin DOMAIN fetched /\ groups[n].status = "waiting"
    BY <1>1 DEF Shared
  <2>2. CASE same = {}
    <3>1. /\ DOMAIN groups' = DOMAIN groups \cup {Len(groups) + 1}
          /\ \A n \in DOMAIN groups : groups'[n] = groups[n]
          /\ groups'[Len(groups) + 1] = new
      BY <1>1, <1>5, <1>7, <2>2, Appended
    <3> QED
      BY <1>5, <1>7, <1>10, <2>1, <2>2, <3>1
  <2>3. CASE same # {}
    BY <1>5, <1>9, <2>1, <2>3
  <2> QED
    BY <2>2, <2>3
<1>12. \A m \in DOMAIN attempts : attempts[m] \in DOMAIN fetched
    BY <1>1 DEF Shared
<1>13. UniqueWork' <= limits'.packages
  <2>1. UniqueWork' = UniqueWork
    BY <1>5 DEF UniqueWork
  <2> QED
    BY <1>1, <1>5, <2>1 DEF Shared
<1>14. phase' = "group" /\ fetched' = fetched /\ attempts' = attempts
    BY <1>1, <1>5
<1>15. \A m, n \in DOMAIN attempts : m # n => attempts[m] # attempts[n]
    BY DEF Shared
<1> QED
    BY <1>11, <1>12, <1>13, <1>14, <1>15 DEF Shared

\* A fetch begins once for each key; its result keeps the key from being
\* fetched again, and what is done and under way together stays counted.
LEMMA SharedFetch ==
    ASSUME TypeOK, Stages, Shared, FetchGroups PROVE Shared'
<1>t. /\ groups \in Seq(FetchGroup) /\ attempts \in Seq(Keys)
      /\ \A n \in DOMAIN groups : groups[n] \in FetchGroup
    BY DEF TypeOK
<1>w. UniqueWork \in Nat /\ limits.packages \in Nat /\ Len(groups) \in Nat /\ IsFiniteSet(DOMAIN fetched)
    BY WorkCounted
<1>1. CASE StartFetches
  <2>1. /\ phase = "reuse" /\ phase' = "fetch" /\ UNCHANGED <<limits, groups, fetched, attempts>>
        /\ groups = <<>> \/ WithinBatchLimit
    BY <1>1 DEF StartFetches, rigid, round, results
  <2>2. UniqueWork' = UniqueWork /\ UniqueWork <= limits.packages
    BY <2>1 DEF UniqueWork, Shared
  <2>3. UniqueWork + Len(groups) <= limits.packages
    <3>1. CASE groups = <<>>
      BY <1>w, <2>2, <3>1
    <3>2. CASE WithinBatchLimit
      BY <3>2 DEF WithinBatchLimit
    <3> QED
      BY <2>1, <3>1, <3>2
  <2> QED
    BY <2>1, <2>2, <2>3 DEF Shared
<1>2. CASE RefuseRound
  <2>1. /\ phase = "reuse" /\ phase' = "fetch" /\ UNCHANGED <<limits, fetched, attempts>> /\ groups' = <<>>
    BY <1>2 DEF RefuseRound, rigid, results
  <2>2. UniqueWork' = UniqueWork /\ UniqueWork <= limits.packages
    BY <2>1 DEF UniqueWork, Shared
  <2>3. \A m \in DOMAIN attempts : attempts[m] \in DOMAIN fetched
    BY <2>1 DEF Shared
  <2>4. DOMAIN groups' = {} /\ Len(groups') = 0
    BY <2>1
  <2> QED
    BY <1>w, <2>1, <2>2, <2>3, <2>4 DEF Shared
<1>3. CASE Launch
  <2>1. PICK n \in NextToLaunch(groups, Threads) :
           /\ groups' = [groups EXCEPT ![n].status = "running"]
           /\ attempts' = Append(attempts, groups[n].key)
    BY <1>3 DEF Launch
  <2>2. n \in DOMAIN groups /\ groups[n].status = "waiting" /\ groups[n].key \in Keys
    BY <1>t, <2>1 DEF NextToLaunch, Window, FetchGroup
  <2>3. /\ phase = "fetch" /\ UNCHANGED <<phase, limits, fetched>>
    BY <1>3 DEF Launch, rigid
  <2>4. /\ DOMAIN groups' = DOMAIN groups /\ groups'[n].status = "running"
        /\ \A m \in DOMAIN groups : groups'[m].key = groups[m].key /\ (m # n => groups'[m] = groups[m])
    BY <1>t, <2>1, <2>2 DEF FetchGroup
  <2>5. /\ DOMAIN attempts' = DOMAIN attempts \cup {Len(attempts) + 1} /\ Len(attempts) + 1 \notin DOMAIN attempts
        /\ \A m \in DOMAIN attempts : attempts'[m] = attempts[m]
        /\ attempts'[Len(attempts) + 1] = groups[n].key
    BY <1>t, <2>1, <2>2, Appended
  <2>6. \A m \in DOMAIN attempts : attempts[m] # groups[n].key
    BY <2>2 DEF Shared
  <2>7. UniqueWork' = UniqueWork /\ Len(groups') = Len(groups)
    BY <1>t, <2>1, <2>3 DEF UniqueWork
  <2>8. \A m, k \in DOMAIN attempts' : m # k => attempts'[m] # attempts'[k]
    BY <2>5, <2>6 DEF Shared
  <2>9. \A m \in DOMAIN attempts' :
           \/ attempts'[m] \in DOMAIN fetched
           \/ \E k \in DOMAIN groups' : groups'[k].status # "waiting" /\ groups'[k].key = attempts'[m]
    BY <2>2, <2>4, <2>5 DEF Shared
  <2>10. /\ \A m, k \in DOMAIN groups' : m # k => groups'[m].key # groups'[k].key
         /\ \A k \in DOMAIN groups' : groups'[k].key \notin DOMAIN fetched
    BY <2>4 DEF Shared
  <2>11. UniqueWork' <= limits'.packages /\ UniqueWork' + Len(groups') <= limits'.packages
    BY <2>3, <2>7 DEF Shared
  <2>12. (phase = "fetch")' /\ fetched' = fetched
    BY <2>3
  <2> QED
    BY <2>8, <2>9, <2>10, <2>11, <2>12 DEF Shared
<1>4. ASSUME NEW n \in DOMAIN groups, Complete(n) PROVE Shared'
  <2>1. PICK outcome \in {"fetched", "failed"} : groups' = [groups EXCEPT ![n].status = outcome]
    BY <1>4 DEF Complete
  <2>2. phase = "fetch" /\ UNCHANGED <<phase, limits, fetched, attempts>>
    BY <1>4 DEF Complete, rigid, results
  <2>3. /\ DOMAIN groups' = DOMAIN groups /\ groups'[n].status # "waiting"
        /\ \A m \in DOMAIN groups : groups'[m].key = groups[m].key /\ (m # n => groups'[m] = groups[m])
    BY <1>t, <1>4, <2>1 DEF FetchGroup
  <2>4. UniqueWork' = UniqueWork /\ Len(groups') = Len(groups)
    BY <1>t, <2>1, <2>2 DEF UniqueWork
  <2>5. \A m \in DOMAIN attempts :
           \/ attempts[m] \in DOMAIN fetched
           \/ \E k \in DOMAIN groups' : groups'[k].status # "waiting" /\ groups'[k].key = attempts[m]
    BY <2>3 DEF Shared
  <2>6. /\ \A m, k \in DOMAIN groups' : m # k => groups'[m].key # groups'[k].key
        /\ \A k \in DOMAIN groups' : groups'[k].key \notin DOMAIN fetched
    BY <2>3 DEF Shared
  <2> QED
    BY <2>2, <2>4, <2>5, <2>6 DEF Shared
<1>5. CASE TakeResult
  <2> DEFINE key == Head(groups).key
  <2>1. /\ groups # <<>> /\ groups' = Tail(groups)
        /\ DOMAIN fetched' = DOMAIN fetched \cup {key}
    BY <1>5, TakeResultType
  <2>2. phase = "fetch" /\ UNCHANGED <<phase, limits, attempts>>
    BY <1>5 DEF TakeResult, rigid
  <2>3. /\ 1 \in DOMAIN groups /\ key = groups[1].key
        /\ \A m \in DOMAIN groups' : m + 1 \in DOMAIN groups /\ m + 1 > 1 /\ groups'[m] = groups[m + 1]
    BY <1>t, <2>1, Tailed
  <2>4. \A m \in DOMAIN groups : m = 1 \/ (m - 1 \in DOMAIN groups' /\ groups'[m - 1] = groups[m])
    BY <1>t, <2>1
  <2>5. key \notin DOMAIN fetched
    BY <2>3 DEF Shared
  <2> HIDE DEF key
  <2>6. Cardinality(DOMAIN fetched') = Cardinality(DOMAIN fetched) + 1
    BY <1>w, <2>1, <2>5, FS_AddElement
  <2>7. UniqueWork' = UniqueWork + 1 /\ Len(groups') = Len(groups) - 1
    <3>1. Len(Roots) \in Nat /\ Cardinality(DOMAIN fetched) \in Nat
      BY <1>w, FS_CardinalityType, BatchAssumption
    <3> QED
      BY <1>t, <2>1, <2>6, <3>1 DEF UniqueWork
  <2>8. \A m \in DOMAIN attempts :
           \/ attempts[m] \in DOMAIN fetched'
           \/ \E k \in DOMAIN groups' : groups'[k].status # "waiting" /\ groups'[k].key = attempts[m]
    BY <2>1, <2>3, <2>4 DEF Shared
  <2>9. \A m, k \in DOMAIN groups' : m # k => groups'[m].key # groups'[k].key
    <3>1. \A m, k \in DOMAIN groups' : m # k => m + 1 # k + 1
      BY <1>t, <2>1
    <3> QED
      BY <2>3, <3>1 DEF Shared
  <2>10. \A k \in DOMAIN groups' : groups'[k].key \notin DOMAIN fetched'
    <3>1. \A k \in DOMAIN groups' : groups[k + 1].key # groups[1].key /\ groups[k + 1].key \notin DOMAIN fetched
      BY <2>3 DEF Shared
    <3> QED
      BY <2>1, <2>3, <3>1
  <2>11. UniqueWork' <= limits'.packages /\ UniqueWork' + Len(groups') <= limits'.packages
    <3>1. UniqueWork + Len(groups) <= limits.packages
      BY <2>2 DEF Shared
    <3>2. Len(groups) >= 1
      BY <1>t, <2>1
    <3> QED
      BY <1>w, <2>2, <2>7, <3>1, <3>2
  <2> QED
    BY <2>2, <2>8, <2>9, <2>10, <2>11 DEF Shared
<1>6. CASE NextRound
  <2>1. phase = "fetch" /\ phase' = "merge" /\ UNCHANGED <<limits, groups, fetched, attempts>> /\ groups = <<>>
    BY <1>6 DEF NextRound, rigid, results
  <2>2. UniqueWork' = UniqueWork /\ UniqueWork <= limits.packages /\ DOMAIN groups = {}
    BY <2>1 DEF UniqueWork, Shared
  <2> QED
    BY <2>1, <2>2 DEF Shared
<1> QED
    BY <1>1, <1>2, <1>3, <1>4, <1>5, <1>6 DEF FetchGroups

\* Every step keeps the fetches shared and bounded.
LEMMA SharedStep == TypeOK /\ Stages /\ Shared /\ [Next]_vars => Shared'
<1> SUFFICES ASSUME TypeOK, Stages, Shared, [Next]_vars PROVE Shared'
    OBVIOUS
<1>0. ASSUME UNCHANGED <<limits, groups, fetched, attempts>>,
             phase' = phase \/ (phase \notin {"start", "refused", "fetch"} /\ phase' \notin {"start", "refused", "fetch"})
      PROVE  Shared'
    BY <1>0 DEF Shared, UniqueWork
<1>1. CASE UNCHANGED vars
    BY <1>0, <1>1 DEF vars
<1>2. CASE RefuseBatch \/ StartBatch
  <2>1. /\ UNCHANGED <<limits, groups, fetched, attempts>> /\ phase = "start"
        /\ phase' = "refused" \/ (phase' = "merge" /\ Len(Roots) <= limits.packages)
    BY <1>2 DEF RefuseBatch, StartBatch, rigid, round, results
  <2>2. DOMAIN fetched = {} /\ Cardinality(DOMAIN fetched) = 0
    BY <2>1, FS_EmptySet DEF Shared
  <2>3. UniqueWork' = Len(Roots)
    BY <2>1, <2>2, WorkCounted DEF UniqueWork
  <2> QED
    BY <2>1, <2>2, <2>3 DEF Shared
<1>3. CASE DiscoverFrontiers
  <2>1. CASE Merge \/ EndMerge \/ Drop \/ Revisit \/ FirstVisit \/ EndAdmit
    BY <1>0, <2>1 DEF Merge, EndMerge, Drop, Revisit, FirstVisit, EndAdmit, Admitting, rigid, round, results
  <2>2. CASE Analyze \/ AddRequest \/ LeaveOut \/ EndRequests \/ NextRoot
    BY <1>0, <2>2 DEF Analyze, AddRequest, LeaveOut, EndRequests, NextRoot, rigid, round, results
  <2> QED
    BY <1>3, <2>1, <2>2 DEF DiscoverFrontiers
<1>4. CASE GroupRequests
  <2>1. CASE Refuse \/ NoteRevisit \/ SkipReserved \/ RefuseOverLimit \/ Reuse
    BY <1>0, <2>1 DEF Refuse, NoteRevisit, SkipReserved, RefuseOverLimit, Reuse, rigid, round, results
  <2>2. CASE NextRequests \/ ApplyRevisit \/ EndRevisits \/ ApplyReuse
    BY <1>0, <2>2 DEF NextRequests, ApplyRevisit, EndRevisits, ApplyReuse, rigid, round, results
  <2> QED
    BY <1>4, <2>1, <2>2, SharedGroup DEF GroupRequests
<1> QED
    BY <1>1, <1>2, <1>3, <1>4, SharedFetch DEF Next

-----------------------------------------------------------------------------
(* The invariant implies what callers rely on.                                 *)

\* With the invariant the walks are sound: at the end every queue has been merged.
LEMMA InvImpliesSound == IInv => WalksSound
<1> SUFFICES ASSUME IInv PROVE WalksSound
    OBVIOUS
<1>1. ReportedOnce
    BY DEF IInv, Reported, Once, ReportedOnce
<1>2. NothingLeftQueued
    BY DEF IInv, Levels, Unmerged, Discovering, NothingLeftQueued
<1> QED
    BY <1>1, <1>2 DEF IInv, WalksSound

\* With the invariant no more fetches begin than max_packages allows: their keys
\* are different, and each has been fetched or is one of the round's groups.
LEMMA InvImpliesBounded == IInv => SharedWorkBounded
<1> SUFFICES ASSUME IInv PROVE SharedWorkBounded
    OBVIOUS
<1>t. /\ groups \in Seq(FetchGroup) /\ attempts \in Seq(Keys) /\ Len(attempts) \in Nat
      /\ \A n \in DOMAIN groups : groups[n].key \in Keys
  <2>1. groups \in Seq(FetchGroup) /\ attempts \in Seq(Keys) /\ Len(attempts) \in Nat
    BY DEF IInv, TypeOK
  <2>2. \A n \in DOMAIN groups : groups[n] \in FetchGroup
    BY <2>1
  <2> QED
    BY <2>1, <2>2 DEF FetchGroup
<1>w. UniqueWork \in Nat /\ limits.packages \in Nat /\ Len(groups) \in Nat /\ IsFiniteSet(DOMAIN fetched)
      /\ Len(Roots) \in Nat /\ Cardinality(DOMAIN fetched) \in Nat
    BY WorkCounted, FS_CardinalityType DEF IInv
<1>1. \A m, n \in DOMAIN attempts : m # n => attempts[m] # attempts[n]
    BY DEF IInv, Shared
<1>2. ASSUME phase # "start", phase # "refused" PROVE Len(Roots) + Len(attempts) <= limits.packages
  <2> DEFINE f == [m \in 1..Len(attempts) |-> attempts[m]]
  <2>1. \A i, j \in 1..Len(attempts) : i # j => f[i] # f[j]
    BY <1>1, <1>t
  <2>2. CASE phase # "fetch"
    <3>1. \A m \in DOMAIN attempts : attempts[m] \in DOMAIN fetched
      BY <2>2 DEF IInv, Shared
    <3>2. f \in [1..Len(attempts) -> DOMAIN fetched]
      BY <1>t, <3>1
    <3> HIDE DEF f
    <3>3. Len(attempts) <= Cardinality(DOMAIN fetched)
      BY <1>t, <1>w, <2>1, <3>2, Pigeons
    <3>4. UniqueWork <= limits.packages
      BY <1>2 DEF IInv, Shared
    <3> QED
      BY <1>t, <1>w, <3>3, <3>4 DEF UniqueWork
  <2>3. CASE phase = "fetch"
    <3> DEFINE keys == {groups[n].key : n \in 1..Len(groups)}
               key == [n \in 1..Len(groups) |-> groups[n].key]
    <3>1. \A m \in DOMAIN attempts : attempts[m] \in DOMAIN fetched \cup keys
      BY <1>t DEF IInv, Shared
    <3>2. f \in [1..Len(attempts) -> DOMAIN fetched \cup keys]
      BY <1>t, <3>1
    <3>3. key \in Surjection(1..Len(groups), keys)
      BY DEF Surjection
    <3> HIDE DEF f, key, keys
    <3>4. IsFiniteSet(1..Len(groups)) /\ Cardinality(1..Len(groups)) = Len(groups)
      <4>1. \A n \in Nat : IsFiniteSet(1..n) /\ Cardinality(1..n) = n
        BY FS_Interval
      <4> QED
        BY <1>w, <4>1
    <3>5. IsFiniteSet(keys) /\ Cardinality(keys) <= Len(groups) /\ Cardinality(keys) \in Nat
      BY <3>3, <3>4, FS_Surjection, FS_CardinalityType
    <3>6. /\ IsFiniteSet(DOMAIN fetched \cup keys)
          /\ Cardinality(DOMAIN fetched \cup keys) <= Cardinality(DOMAIN fetched) + Cardinality(keys)
          /\ Cardinality(DOMAIN fetched \cup keys) \in Nat
      <4>1. /\ IsFiniteSet(DOMAIN fetched \cup keys) /\ IsFiniteSet(DOMAIN fetched \cap keys)
            /\ Cardinality(DOMAIN fetched \cup keys)
                  = Cardinality(DOMAIN fetched) + Cardinality(keys) - Cardinality(DOMAIN fetched \cap keys)
        BY <1>w, <3>5, FS_Union, FS_Intersection
      <4>2. Cardinality(DOMAIN fetched \cap keys) \in Nat /\ Cardinality(DOMAIN fetched \cup keys) \in Nat
        BY <4>1, FS_CardinalityType
      <4> QED
        BY <1>w, <3>5, <4>1, <4>2
    <3>7. Len(attempts) <= Cardinality(DOMAIN fetched \cup keys)
      BY <1>t, <2>1, <3>2, <3>6, Pigeons
    <3>8. UniqueWork + Len(groups) <= limits.packages
      BY <2>3 DEF IInv, Shared
    <3> QED
      BY <1>t, <1>w, <3>5, <3>6, <3>7, <3>8 DEF UniqueWork
  <2> QED
    BY <2>2, <2>3
<1> QED
    BY <1>1, <1>2 DEF SharedWorkBounded

-----------------------------------------------------------------------------
(* Theorems.                                                                   *)

\* The invariant holds in every reachable state.
THEOREM Invariance == Spec => []IInv
<1>1. Init => IInv
    BY TypeInit, LevelsInit, ReportedInit, AcquiredInit, SharedInit DEF IInv
<1>2. IInv /\ [Next]_vars => IInv'
    BY TypeStep, LevelsStep, ReportedStep, AcquiredStep, SharedStep DEF IInv
<1> QED
    BY <1>1, <1>2, PTL DEF Spec

\* Engine::analyze_fetched_roots: in each report of a batch every package stands
\* once, and no walk ends with packages left to look at.
THEOREM BatchSoundness == Spec => []WalksSound
<1> QED
    BY Invariance, InvImpliesSound, PTL

\* Engine::analyze_fetched_roots: a dependency shared by several roots is fetched
\* once, and the roots with all fetches begun, failed ones included, stay within
\* max_packages.
THEOREM BatchBounded == Spec => []SharedWorkBounded
<1> QED
    BY Invariance, InvImpliesBounded, PTL
-----------------------------------------------------------------------------
(* Faithfulness of the reports.  The parts below are inductive together with   *)
(* the invariant above.                                                        *)

Wanted(i, k) == AskedFor(walks[i], made, limits.depth, k)

Headed ==
    /\ phase # "request" => found = {}
    /\ phase = "request" =>
          /\ Len(walk.discovered) \in DOMAIN walk.discovered
          /\ walk.discovered[Len(walk.discovered)] = Head(walk.frontier)
          /\ found \subseteq DependenciesOf(walk, made, limits.depth)

\* Root i asks for the key in this round and has reserved it.
Committed(i, k) == k \in walks[i].reserved /\ k \in asked[i]

\* Requests are about wanted keys.
KeyedRequests ==
    \A i \in Batch : \A n \in DOMAIN requests[i] :
        Wanted(i, requests[i][n].key) /\ Gate[requests[i][n].key] \in {"fetch", "refused"}

\* What waits for a result was reserved by the root it is for, ...
KeyedReuses == \A n \in DOMAIN reuses : Committed(reuses[n].root, reuses[n].request.key)

\* ... and a group stands for one key, and for each of its roots once.
KeyedGroups ==
    \A n \in DOMAIN groups :
        /\ groups[n].owners # <<>>
        /\ \A m \in DOMAIN groups[n].owners :
              groups[n].owners[m].request.key = groups[n].key /\ Committed(groups[n].owners[m].root, groups[n].key)
        /\ \A l, m \in DOMAIN groups[n].owners :
              l # m => groups[n].owners[l].root # groups[n].owners[m].root

\* Until the results are applied, a key asked for is reserved or to be revisited.
KeyedAsked ==
    phase \notin {"revisit", "reuse", "fetch"} =>
        \A i \in Batch : \A k \in asked[i] :
           k \in walks[i].reserved \/ \E n \in DOMAIN revisits : IsOwner(revisits[n], i, k)

Keyed == KeyedRequests /\ KeyedReuses /\ KeyedGroups /\ KeyedAsked

\* A result for root i and the key is still to be applied.
Underway(i, k) ==
    \/ \E n \in DOMAIN reuses : IsOwner(reuses[n], i, k)
    \/ \E n \in DOMAIN groups :
          groups[n].key = k /\ \E m \in DOMAIN groups[n].owners : groups[n].owners[m].root = i

\* A root reserves only what it wants; each key it has reserved has been acquired,
\* is under way, or is in its report, by itself or under the limit.
ReservedBy(i) ==
    /\ walks[i].reserved \subseteq Demanded(walks[i], made, limits.depth)
    /\ walks[i].acquired \subseteq walks[i].reserved
    /\ \A k \in walks[i].reserved :
          \/ k \in walks[i].acquired
          \/ [kind |-> "fetch", about |-> k] \in walks[i].issues
          \/ LimitReported(walks[i])
          \/ Underway(i, k)

Reservations ==
    /\ \A i \in Batch : ReservedBy(i)
    /\ \A k \in DOMAIN fetched : \E i \in Batch : k \in walks[i].reserved

\* Every walk answers for what it was asked, at one depth, and counts its visits.
Grounding ==
    /\ \A i \in Batch : Tracked(walks[i], Looked(i), Roots[i]) /\ Counted(walks[i])
    /\ \E d \in Nat : LevelAt(d) /\ \A i \in Batch : NoDeeper(walks[i], Looked(i), d)

\* A root's package has one id, whatever is acquired.
LEMMA RootsConsistent == \A i \in Batch : Consistent(Roots[i])
<1> SUFFICES ASSUME NEW i \in Batch PROVE Consistent(Roots[i])
    OBVIOUS
<1>1. Roots[i] \in Metadata
    BY BatchAssumption DEF Batch
<1>2. \A k \in Keys : Yields[k].source = Roots[i].source => Yields[k].id = Roots[i].id
    BY BatchAssumption DEF Batch
<1> QED
    BY <1>1, <1>2 DEF Consistent

\* An iteration on the walk at hand leaves the others as they are.
LEMMA OneIterates ==
    ASSUME TypeOK, NEW j \in Batch, NEW v, walks' = [walks EXCEPT ![j] = v], NEW d,
           Iterates(walks[j], Looked(j), v, Looked(j)', d),
           \A i \in Batch : i # j => Looked(i)' = Looked(i),
           NEW i \in Batch
    PROVE  Iterates(walks[i], Looked(i), walks'[i], Looked(i)', d)
<1>1. walks \in [Batch -> Walk]
    BY DEF TypeOK
<1>2. CASE i = j
    BY <1>1, <1>2
<1>3. CASE i # j
  <2>1. walks'[i] = walks[i] /\ Looked(i)' = Looked(i)
    BY <1>1, <1>3
  <2>2. Kept(walks[i], walks'[i])
    BY <2>1 DEF Kept, SameEntries, SameVisits
  <2> QED
    BY <2>1, <2>2 DEF Iterates
<1> QED
    BY <1>2, <1>3

\* Iterations that move nothing but issues and reservations.
LEMMA KeptBy ==
    ASSUME NEW w \in Walk
    PROVE  /\ Kept(w, w)
           /\ \A i : Kept(w, NoteUnrequested(w, i))
           /\ \A k : Kept(w, ReserveKey(w, k))
           /\ \A kind, about : Kept(w, ReportIssue(w, kind, about))
<1>1. Kept(w, w)
    BY DEF Kept, SameEntries, SameVisits
<1>2. \A i : Kept(w, NoteUnrequested(w, i))
    BY EntriesUntouched, VisitsUntouched, ReportUntouched DEF Kept, SameReport
<1>3. \A k : Kept(w, ReserveKey(w, k))
    BY EntriesUntouched, VisitsUntouched, ReportUntouched DEF Kept, SameReport
<1>4. \A kind, about : Kept(w, ReportIssue(w, kind, about))
    BY EntriesUntouched, VisitsUntouched, ReportUntouched DEF Kept, SameReport
<1> QED
    BY <1>1, <1>2, <1>3, <1>4

\* A result that a root has reserved the key of is applied by one iteration.
LEMMA AppliedIterates ==
    ASSUME TypeOK, Reservations, NEW i \in Batch, NEW r \in Request, r.key \in walks[i].reserved,
           NEW outcome, NEW d, NEW l
    PROVE  Iterates(walks[i], l, Apply(walks[i], r, outcome), l, d)
<1>1. walks[i] \in Walk
    BY DEF TypeOK
<1>2. ~NamesRoot(walks[i], r.key)
    BY DEF Reservations, ReservedBy, Demanded
<1>3. CASE outcome = "fetched"
    BY <1>2, <1>3 DEF Apply, Iterates
<1>4. CASE outcome # "fetched"
  <2>1. Kept(walks[i], ReportIssue(walks[i], "fetch", r.key))
    BY <1>1, KeptBy
  <2> QED
    BY <1>4, <2>1 DEF Apply, Iterates
<1> QED
    BY <1>3, <1>4

\* Every step is an iteration, or none, of each root's walk.
LEMMA StepIterates ==
    ASSUME TypeOK, Stages, Acquired, Keyed, Reservations, NEW d, LevelAt(d), [Next]_vars, NEW i \in Batch
    PROVE  Iterates(walks[i], Looked(i), walks'[i], Looked(i)', d)
<1>t. /\ walks \in [Batch -> Walk] /\ at \in Batch /\ walk \in Walk /\ walk = walks[at]
      /\ \A j \in Batch : walks[j] \in Walk
    BY DEF TypeOK, walk
<1>b. \A j \in Batch : Looked(j) \in BOOLEAN /\ Looked(j)' \in BOOLEAN
    BY DEF Looked
<1>a. PICK a \in Batch : a = at
    BY <1>t
<1>0. ASSUME Kept(walks[i], walks'[i]), Looked(i)' <=> Looked(i)
      PROVE  Iterates(walks[i], Looked(i), walks'[i], Looked(i)', d)
  <2>1. Looked(i)' = Looked(i)
    BY <1>0, <1>b
  <2> QED
    BY <1>0, <2>1 DEF Iterates
<1>1. CASE \/ UNCHANGED vars \/ RefuseBatch \/ StartBatch \/ EndMerge \/ EndAdmit \/ AddRequest
           \/ NextRoot \/ NoteRevisit \/ SkipReserved \/ NextRequests \/ EndRevisits \/ StartFetches
           \/ Launch \/ (\E n \in DOMAIN groups : Complete(n)) \/ NextRound
  <2>1. walks' = walks
    BY <1>1 DEF vars, RefuseBatch, StartBatch, EndMerge, EndAdmit, AddRequest, NextRoot, NoteRevisit,
                SkipReserved, NextRequests, EndRevisits, StartFetches, Launch, Complete, NextRound
  <2>2. (phase' = phase /\ at' = at) \/ (phase # "request" /\ phase' # "request")
    BY <1>1 DEF vars, RefuseBatch, StartBatch, EndMerge, EndAdmit, AddRequest, NextRoot, NoteRevisit,
                SkipReserved, NextRequests, EndRevisits, StartFetches, Launch, Complete, NextRound
  <2>3. Looked(i)' <=> Looked(i)
    BY <2>2 DEF Looked
  <2> QED
    BY <1>0, <1>t, <2>1, <2>3, KeptBy
<1>2. CASE LeaveOut \/ Refuse \/ RefuseOverLimit \/ Reuse \/ Group
  <2>1. PICK v : walks' = [walks EXCEPT ![at] = v] /\ Kept(walk, v)
    BY <1>t, <1>2, KeptBy DEF LeaveOut, Refuse, RefuseOverLimit, Reuse, Group, walk
  <2>2. Kept(walks[i], walks'[i])
    BY <1>t, <2>1, KeptBy
  <2>3. UNCHANGED <<phase, at>>
    BY <1>2 DEF LeaveOut, Refuse, RefuseOverLimit, Reuse, Group
  <2> QED
    BY <1>0, <2>2, <2>3 DEF Looked
<1>3. CASE RefuseRound
  <2>1. walks'[i] = ReportIssue(walks[i], "batch packages", None) \/ walks'[i] = walks[i]
    BY <1>3 DEF RefuseRound
  <2>2. phase # "request" /\ phase' # "request"
    BY <1>3 DEF RefuseRound
  <2> QED
    BY <1>0, <1>t, <2>1, <2>2, KeptBy DEF Looked
<1>4. CASE Merge
  <2>1. /\ phase = "merge" /\ UNCHANGED <<phase, at>> /\ MoreToMerge(walk)
        /\ walks' = [walks EXCEPT ![at] = MergeNext(walk)]
    BY <1>4 DEF Merge
  <2>2. AtDepth(walk.queue, d) /\ AtDepth(walk.merged, d)
    BY <1>t, <2>1 DEF LevelAt, Unmerged, Discovering
  <2>3. \A j \in Batch : Looked(j)' = Looked(j)
    BY <1>b, <2>1 DEF Looked
  <2>4. Iterates(walk, Looked(at), MergeNext(walk), Looked(at)', d)
    BY <1>t, <2>1, <2>2, <2>3 DEF Iterates
  <2> QED
    BY <1>t, <2>1, <2>3, <2>4, OneIterates
<1>5. CASE Drop \/ Revisit \/ FirstVisit
  <2> DEFINE p == Head(walk.merged)
  <2>1. /\ phase = "admit" /\ UNCHANGED <<phase, at>> /\ walk.merged # <<>>
        /\ \E v : /\ walks' = [walks EXCEPT ![at] = v]
                  /\ \/ v = DropRevisit(walk) /\ Visited(walk, p) /\ NewContexts(walk, p) = {}
                     \/ v = AdmitRevisit(walk) /\ Visited(walk, p)
                     \/ v \in {AdmitFirstVisit(walk), BreakAtLimit(walk)} /\ ~Visited(walk, p)
    BY <1>5 DEF Drop, Revisit, FirstVisit, Admitting
  <2>2. PICK v : /\ walks' = [walks EXCEPT ![at] = v]
                 /\ \/ v = DropRevisit(walk) /\ Visited(walk, p) /\ NewContexts(walk, p) = {}
                    \/ v = AdmitRevisit(walk) /\ Visited(walk, p)
                    \/ v \in {AdmitFirstVisit(walk), BreakAtLimit(walk)} /\ ~Visited(walk, p)
    BY <2>1
  <2>3. AtDepth(walk.merged, d)
    BY <1>t DEF LevelAt
  <2>4. \A j \in Batch : Looked(j) = FALSE /\ Looked(j)' = FALSE
    BY <2>1 DEF Looked
  <2>5. Iterates(walk, FALSE, v, FALSE, d)
    BY <2>1, <2>2, <2>3 DEF Iterates
  <2>6. Iterates(walks[a], Looked(a), v, Looked(a)', d)
    BY <1>t, <1>a, <2>4, <2>5
  <2>7. \A j \in Batch : Looked(j)' = Looked(j)
    BY <2>4
  <2> HIDE DEF p
  <2> QED
    BY <1>a, <2>2, <2>6, <2>7, OneIterates
<1>6. CASE Analyze
  <2>1. /\ phase = "analyze" /\ phase' = "request" /\ at' = at /\ walk.frontier # <<>>
        /\ walks' = [walks EXCEPT ![at] = AnalyzeNext(walk)]
    BY <1>6 DEF Analyze
  <2>2. /\ Looked(at) = FALSE /\ Looked(at)' = TRUE
        /\ \A j \in Batch : j # at => Looked(j)' = Looked(j)
    BY <1>b, <2>1 DEF Looked
  <2>3. Iterates(walks[at], Looked(at), AnalyzeNext(walk), Looked(at)', d)
    BY <1>t, <2>1, <2>2 DEF Iterates
  <2> QED
    BY <1>t, <2>1, <2>2, <2>3, OneIterates
<1>7. CASE EndRequests
  <2>1. /\ phase = "request" /\ phase' = "analyze" /\ at' = at /\ walk.frontier # <<>>
        /\ walks' = [walks EXCEPT ![at] = LeaveFrontierHead(walk)]
    BY <1>7 DEF EndRequests, Stages
  <2>2. /\ Looked(at) = TRUE /\ Looked(at)' = FALSE
        /\ \A j \in Batch : j # at => Looked(j)' = Looked(j)
    BY <1>b, <2>1 DEF Looked
  <2>3. Iterates(walks[at], Looked(at), LeaveFrontierHead(walk), Looked(at)', d)
    BY <1>t, <2>1, <2>2 DEF Iterates
  <2> QED
    BY <1>t, <2>1, <2>2, <2>3, OneIterates
<1>8. CASE ApplyRevisit
  <2> DEFINE o == Head(revisits)
             v == EnqueueRevisit(walks[o.root], o.request)
  <2>1. /\ revisits # <<>> /\ revisits \in Seq(Owned) /\ walks' = [walks EXCEPT ![o.root] = v]
        /\ UNCHANGED <<phase, at>>
    BY <1>8 DEF ApplyRevisit, TypeOK
  <2>2. o \in Owned /\ 1 \in DOMAIN revisits /\ o = revisits[1]
    BY <2>1, Tailed
  <2>3. o.root \in Batch /\ o.request \in Request
    BY <2>2 DEF Owned
  <2>j. PICK j \in Batch : j = o.root
    BY <2>3
  <2>4. Revisitable(walks[o.root], o.request.key)
    BY <2>2 DEF Acquired
  <2>5. o.request.key \in walks[o.root].acquired => ~NamesRoot(walks[o.root], o.request.key)
    BY <2>3 DEF Reservations, ReservedBy, Demanded
  <2>6. \A k \in Batch : Looked(k)' = Looked(k)
    BY <1>b, <2>1 DEF Looked
  <2>7. Iterates(walks[j], Looked(j), v, Looked(j)', d)
    BY <2>3, <2>4, <2>5, <2>6, <2>j DEF Iterates
  <2> HIDE DEF o, v
  <2> QED
    BY <2>1, <2>j, <2>6, <2>7, OneIterates
<1>9. CASE ApplyReuse
  <2> DEFINE o == Head(reuses)
             v == Apply(walks[o.root], o.request, fetched[o.request.key])
  <2>1. /\ reuses # <<>> /\ reuses \in Seq(Owned) /\ walks' = [walks EXCEPT ![o.root] = v]
        /\ UNCHANGED <<phase, at>>
    BY <1>9 DEF ApplyReuse, TypeOK
  <2>2. o \in Owned /\ 1 \in DOMAIN reuses /\ o = reuses[1]
    BY <2>1, Tailed
  <2>3. o.root \in Batch /\ o.request \in Request
    BY <2>2 DEF Owned
  <2>j. PICK j \in Batch : j = o.root
    BY <2>3
  <2>4. o.request.key \in walks[o.root].reserved
    BY <2>2 DEF Keyed, KeyedReuses, Committed
  <2>5. \A k \in Batch : Looked(k)' = Looked(k)
    BY <1>b, <2>1 DEF Looked
  <2>6. Iterates(walks[j], Looked(j), v, Looked(j), d)
    BY <2>3, <2>4, <2>j, AppliedIterates
  <2>7. Iterates(walks[j], Looked(j), v, Looked(j)', d)
    BY <2>5, <2>6
  <2> HIDE DEF o, v
  <2> QED
    BY <2>1, <2>j, <2>5, <2>7, OneIterates
<1>10. CASE TakeResult
  <2> DEFINE g == Head(groups)
  <2>1. /\ g \in FetchGroup /\ groups # <<>> /\ groups \in Seq(FetchGroup)
        /\ \/ walks'[i] = walks[i]
           \/ /\ walks'[i] = Apply(walks[i], RequestOf(g, i), g.status)
              /\ \E m \in DOMAIN g.owners : g.owners[m].root = i
    BY <1>10, TakeResultType DEF TypeOK
  <2>2. 1 \in DOMAIN groups /\ g = groups[1]
    BY <2>1
  <2>3. Looked(i)' = Looked(i)
    BY <1>10 DEF TakeResult, Looked
  <2>4. CASE walks'[i] = walks[i]
    BY <1>0, <1>t, <2>3, <2>4, KeptBy
  <2>5. CASE /\ walks'[i] = Apply(walks[i], RequestOf(g, i), g.status)
             /\ \E m \in DOMAIN g.owners : g.owners[m].root = i
    <3>1. RequestOf(g, i) \in Request /\ \E m \in DOMAIN g.owners : RequestOf(g, i) = g.owners[m].request
      BY <1>t, <2>1, <2>5, ResultApplied
    <3>2. RequestOf(g, i).key = g.key /\ g.key \in walks[i].reserved
      BY <2>2, <2>5, <3>1 DEF Keyed, KeyedGroups, Committed
    <3> HIDE DEF g
    <3> QED
      BY <2>3, <2>5, <3>1, <3>2, AppliedIterates
  <2> QED
    BY <2>1, <2>4, <2>5
<1> QED
    BY <1>1, <1>2, <1>3, <1>4, <1>5, <1>6, <1>7, <1>8, <1>9, <1>10
    DEF Next, DiscoverFrontiers, GroupRequests, FetchGroups

\* New walks answer for their roots.
LEMMA GroundingInit == Init => Grounding
<1> SUFFICES ASSUME Init PROVE Grounding
    OBVIOUS
<1>1. ASSUME NEW i \in Batch
      PROVE  /\ Tracked(walks[i], Looked(i), Roots[i]) /\ Counted(walks[i])
             /\ \A d : NoDeeper(walks[i], Looked(i), d)
  <2>1. Roots[i] \in Metadata
    BY BatchAssumption DEF Batch
  <2>2. Roots[i].source \in Sources /\ Roots[i] # None
    BY <2>1, TraversalAssumption DEF Metadata
  <2>3. walks[i] = NewWalk(Roots[i].source, Roots[i]) /\ Looked(i) = FALSE
    BY DEF Init, Looked
  <2>4. Tracked(NewWalk(Roots[i].source, Roots[i]), FALSE, Roots[i])
    BY <2>1, <2>2, RootsConsistent, TrackedNew
  <2>5. Counted(NewWalk(Roots[i].source, Roots[i]))
    BY CountedNew
  <2>6. \A d : NoDeeper(NewWalk(Roots[i].source, Roots[i]), FALSE, d)
    BY NewIsShallow
  <2> QED
    BY <2>3, <2>4, <2>5, <2>6
<1>2. Levels
    BY LevelsInit
<1> QED
    BY <1>1, <1>2 DEF Grounding, Levels

\* No step loses an answer of a root's walk, until the walk stops at the limit.
StillHeld(i) ==
    ~LimitReported(walks'[i]) =>
        \A t, C : \A e \in Nat :
            Belongs(Roots[i], t) /\ Held(walks[i], Looked(i), t, C, e)
                => Held(walks'[i], Looked(i)', t, C, e)

\* Every step keeps what each walk answers for.
LEMMA GroundingStep ==
    ASSUME TypeOK, Stages, Acquired, Levels, Keyed, Reservations, Grounding, [Next]_vars
    PROVE  Grounding' /\ \A i \in Batch : StillHeld(i)
<1>d. PICK d \in Nat : LevelAt(d) /\ \A i \in Batch : NoDeeper(walks[i], Looked(i), d)
    BY DEF Grounding
<1>1. ASSUME NEW i \in Batch
      PROVE  /\ Tracked(walks'[i], Looked(i)', Roots[i]) /\ Counted(walks'[i])
             /\ NoDeeper(walks'[i], Looked(i)', d) /\ NoDeeper(walks'[i], Looked(i)', d + 1)
             /\ StillHeld(i)
  <2>1. walks[i] \in Walk /\ walks'[i] \in Walk
    BY TypeStep DEF TypeOK
  <2>2. Iterates(walks[i], Looked(i), walks'[i], Looked(i)', d)
    BY <1>d, StepIterates
  <2>3. Tracked(walks[i], Looked(i), Roots[i]) /\ Counted(walks[i])
    BY DEF Grounding
  <2> DEFINE l == Looked(i)
             m == Looked(i)'
             v == walks'[i]
  <2>4. Iterates(walks[i], l, v, m, d) /\ Tracked(walks[i], l, Roots[i]) /\ NoDeeper(walks[i], l, d)
    BY <1>d, <2>2, <2>3
  <2> SUFFICES /\ Tracked(v, m, Roots[i]) /\ Counted(v)
               /\ NoDeeper(v, m, d) /\ NoDeeper(v, m, d + 1)
               /\ ~LimitReported(v) => \A t, C : \A e \in Nat :
                     Belongs(Roots[i], t) /\ Held(walks[i], l, t, C, e) => Held(v, m, t, C, e)
    BY DEF StillHeld
  <2>5. v \in Walk
    BY <2>1
  <2> HIDE DEF l, m, v
  <2>6. /\ Tracked(v, m, Roots[i]) /\ NoDeeper(v, m, d)
        /\ ~LimitReported(v) => \A t, C : \A e \in Nat :
              Belongs(Roots[i], t) /\ Held(walks[i], l, t, C, e) => Held(v, m, t, C, e)
    BY <2>1, <2>4, RootsConsistent, IterationHolds
  <2>7. Counted(v)
    BY <2>1, <2>3, <2>4, IterationContinues
  <2>8. NoDeeper(v, m, d + 1)
    BY <2>5, <2>6, DepthsKept
  <2> QED
    BY <2>6, <2>7, <2>8
<1>2. LevelAt(d)' \/ LevelAt(d + 1)'
    BY <1>d, LevelsAdvance
<1> QED
    BY <1>1, <1>2 DEF Grounding

\* Every step continues each root's walk.
LEMMA StepContinues ==
    ASSUME TypeOK, Stages, Acquired, Levels, Keyed, Reservations, [Next]_vars, NEW i \in Batch
    PROVE  /\ Continues(walks[i], walks'[i])
           /\ walks'[i] # AnalyzeNext(walks[i]) => walks'[i].discovered = walks[i].discovered
           /\ UNCHANGED <<made, limits>>
<1>1. PICK d \in Nat : LevelAt(d)
    BY DEF Levels
<1>2. walks[i] \in Walk
    BY DEF TypeOK
<1>3. Iterates(walks[i], Looked(i), walks'[i], Looked(i)', d)
    BY <1>1, StepIterates
<1>4. UNCHANGED <<made, limits>>
  <2>1. CASE UNCHANGED vars \/ RefuseBatch \/ StartBatch \/ DiscoverFrontiers
    BY <2>1 DEF vars, rigid, RefuseBatch, StartBatch, DiscoverFrontiers, Merge, EndMerge, Drop, Revisit,
                FirstVisit, EndAdmit, Analyze, AddRequest, LeaveOut, EndRequests, NextRoot
  <2>2. CASE GroupRequests
    BY <2>2 DEF rigid, GroupRequests, Refuse, NoteRevisit, SkipReserved, RefuseOverLimit, Reuse, Group,
                NextRequests, ApplyRevisit, EndRevisits, ApplyReuse
  <2>3. CASE FetchGroups
    BY <2>3 DEF rigid, FetchGroups, StartFetches, RefuseRound, Launch, Complete, TakeResult, NextRound
  <2> QED
    BY <2>1, <2>2, <2>3 DEF Next
<1> QED
    BY <1>2, <1>3, <1>4, IterationContinues

\* What was wanted stays wanted.
LEMMA WantedStays ==
    ASSUME TypeOK, Stages, Acquired, Levels, Keyed, Reservations, [Next]_vars, NEW i \in Batch
    PROVE  /\ \A k : Wanted(i, k) => Wanted(i, k)'
           /\ Demanded(walks[i], made, limits.depth) \subseteq Demanded(walks'[i], made', limits'.depth)
<1>1. Continues(walks[i], walks'[i]) /\ UNCHANGED <<made, limits>>
    BY StepContinues
<1> QED
    BY <1>1, DemandKept DEF Wanted

\* The last discovery is the frontier's head while its dependencies are looked at.
LEMMA HeadedStep == TypeOK /\ Stages /\ Headed /\ [Next]_vars => Headed'
<1> SUFFICES ASSUME TypeOK, Stages, Headed, [Next]_vars PROVE Headed'
    OBVIOUS
<1>t. walks \in [Batch -> Walk] /\ at \in Batch /\ walk \in Walk /\ walk = walks[at]
    BY DEF TypeOK, walk
<1>1. CASE UNCHANGED vars
    BY <1>1 DEF vars, Headed, DependenciesOf, walk
<1>2. CASE found' = found /\ phase # "request" /\ phase' # "request"
    BY <1>2 DEF Headed
<1>3. CASE Analyze
  <2>1. /\ walk.frontier # <<>> /\ walk' = AnalyzeNext(walk) /\ phase' = "request"
        /\ found' = DependenciesOf(walk, made, limits.depth) /\ UNCHANGED <<made, limits>>
    BY <1>t, <1>3 DEF Analyze, rigid, walk
  <2> DEFINE v == AnalyzeNext(walk)
  <2>3. v.frontier = walk.frontier
    BY <1>t, <2>1, AnalyzeFlow
  <2>4. /\ Len(v.discovered) = Len(walk.discovered) + 1
        /\ Len(walk.discovered) + 1 \in DOMAIN v.discovered
        /\ v.discovered[Len(walk.discovered) + 1] = Head(walk.frontier)
    BY <1>t, <2>1, AnalyzeDiscovers
  <2>5. walk' = v
    BY <2>1
  <2> HIDE DEF v
  <2>2. /\ Len(walk'.discovered) \in DOMAIN walk'.discovered
        /\ walk'.discovered[Len(walk'.discovered)] = Head(walk'.frontier)
        /\ walk'.frontier = walk.frontier
    BY <2>3, <2>4, <2>5
  <2> QED
    BY <2>1, <2>2 DEF Headed, DependenciesOf
<1>4. CASE AddRequest
  <2>1. phase = "request" /\ UNCHANGED <<made, limits, phase, walk>> /\ found' \subseteq found
    BY <1>4 DEF AddRequest, rigid, walk
  <2> QED
    BY <2>1 DEF Headed, DependenciesOf
<1>5. CASE LeaveOut
  <2>1. PICK i : walks' = [walks EXCEPT ![at] = NoteUnrequested(walk, i)]
    BY <1>5 DEF LeaveOut
  <2>2. phase = "request" /\ UNCHANGED <<made, limits, phase, at>> /\ found' \subseteq found
    BY <1>5 DEF LeaveOut, rigid
  <2>3. walk' = NoteUnrequested(walk, i)
    BY <1>t, <2>1, <2>2 DEF walk
  <2>4. walk'.discovered = walk.discovered /\ walk'.frontier = walk.frontier
    BY <1>t, <2>3, EntriesUntouched DEF SameEntries
  <2> QED
    BY <2>2, <2>4 DEF Headed, DependenciesOf
<1>6. CASE EndRequests
    BY <1>6 DEF EndRequests, Headed
<1>7. CASE RefuseBatch \/ StartBatch \/ Merge \/ EndMerge \/ Drop \/ Revisit \/ FirstVisit \/ EndAdmit \/ NextRoot
    BY <1>2, <1>7 DEF RefuseBatch, StartBatch, Merge, EndMerge, Drop, Revisit, FirstVisit, Admitting, EndAdmit, NextRoot
<1>8. CASE GroupRequests
    BY <1>2, <1>8 DEF GroupRequests, Refuse, NoteRevisit, SkipReserved, RefuseOverLimit, NewlyAsked, Reuse, Group,
                      Admitted, Grouping, NextRequests, ApplyRevisit, EndRevisits, ApplyReuse
<1>9. CASE FetchGroups
    BY <1>2, <1>9 DEF FetchGroups, StartFetches, RefuseRound, Launch, Complete, TakeResult, NextRound
<1> QED
    BY <1>1, <1>3, <1>4, <1>5, <1>6, <1>7, <1>8, <1>9 DEF Next, DiscoverFrontiers

\* Merging requests loses none: each is covered by one of the same key.
LEMMA MergedCovers ==
    ASSUME NEW rs \in Seq(Request), NEW r \in Request, AtDepth(rs, r.depth)
    PROVE  /\ \A n \in DOMAIN Merged(rs, r) :
                 Merged(rs, r)[n].key = r.key \/ \E m \in DOMAIN rs : Merged(rs, r)[n].key = rs[m].key
           /\ \A q \in EntriesOf(rs) \cup {r} : \E s \in EntriesOf(Merged(rs, r)) : Covers(s, q)
<1> DEFINE alike == {i \in DOMAIN rs : rs[i].key = r.key /\ rs[i].variant = r.variant}
           widened == [i \in DOMAIN rs |->
                         IF i \in alike THEN [rs[i] EXCEPT !.contexts = @ \cup r.contexts] ELSE rs[i]]
<1>1. \A i \in DOMAIN rs : rs[i] \in Request /\ rs[i].depth = r.depth
    BY DEF AtDepth
<1>2. \A i \in DOMAIN rs : widened[i].key = rs[i].key /\ Covers(widened[i], rs[i])
    BY <1>1 DEF Request, Covers
<1>3. \A i \in alike : i \in DOMAIN rs /\ Covers(widened[i], r)
    BY <1>1 DEF Request, Covers
<1>4. Merged(rs, r) = IF alike = {} THEN Append(rs, r) ELSE widened
    BY DEF Merged
<1>5. DOMAIN widened = DOMAIN rs
    OBVIOUS
<1> HIDE DEF widened, alike
<1>6. \A q : Covers(q, q)
    BY DEF Covers
<1>7. CASE alike = {}
  <2> DEFINE s == Append(rs, r)
             n == Len(rs) + 1
  <2>1. /\ DOMAIN s = DOMAIN rs \cup {n} /\ s[n] = r
        /\ \A i \in DOMAIN rs : s[i] = rs[i]
    BY Appended
  <2>2. Merged(rs, r) = s
    BY <1>4, <1>7
  <2> HIDE DEF s, n
  <2> QED
    BY <1>6, <2>1, <2>2 DEF EntriesOf
<1>8. CASE alike # {}
    BY <1>2, <1>3, <1>4, <1>5, <1>8 DEF EntriesOf
<1> QED
    BY <1>7, <1>8

\* Joining loses none either, and gives no root a second place.
LEMMA JoinedCovers ==
    ASSUME NEW owned \in Seq(Owned), NEW i \in Batch, NEW r \in Request, OwnersAtDepth(owned, r.depth)
    PROVE  /\ \A m \in DOMAIN owned : \E n \in DOMAIN Join(owned, i, r) :
                 /\ Join(owned, i, r)[n].root = owned[m].root
                 /\ Covers(Join(owned, i, r)[n].request, owned[m].request)
           /\ \E n \in DOMAIN Join(owned, i, r) :
                 /\ Join(owned, i, r)[n].root = i
                 /\ Covers(Join(owned, i, r)[n].request, r)
           /\ (\A n \in DOMAIN owned : owned[n].request.key = r.key)
              /\ (\A l, m \in DOMAIN owned : l # m => owned[l].root # owned[m].root)
              => \A l, m \in DOMAIN Join(owned, i, r) :
                    l # m => Join(owned, i, r)[l].root # Join(owned, i, r)[m].root
<1> DEFINE same == {n \in DOMAIN owned : IsOwner(owned[n], i, r.key)}
           widened == [n \in DOMAIN owned |->
                         IF n \in same THEN [owned[n] EXCEPT !.request.contexts = @ \cup r.contexts]
                         ELSE owned[n]]
           new == Owner(i, r)
<1>1. \A n \in DOMAIN owned : owned[n] \in Owned /\ owned[n].request.depth = r.depth
    BY DEF OwnersAtDepth
<1>2. \A n \in DOMAIN owned : /\ widened[n].root = owned[n].root
                              /\ Covers(widened[n].request, owned[n].request)
                              /\ n \in same => Covers(widened[n].request, r)
  <2> TAKE n \in DOMAIN owned
  <2> DEFINE o == owned[n]
             q == [o.request EXCEPT !.contexts = @ \cup r.contexts]
  <2>1. o \in Owned /\ o.request \in Request /\ o.request.depth = r.depth
    BY <1>1 DEF Owned
  <2>2. Covers(q, o.request) /\ (o.request.key = r.key => Covers(q, r))
    BY <2>1 DEF Request, Covers
  <2>3. [o EXCEPT !.request.contexts = @ \cup r.contexts] = [o EXCEPT !.request = q]
    BY <2>1 DEF Owned
  <2>4. widened[n] = IF n \in same THEN [o EXCEPT !.request = q] ELSE o
    BY <2>3
  <2>5. n \in same => o.request.key = r.key
    BY DEF IsOwner
  <2>6. Covers(o.request, o.request)
    BY DEF Covers
  <2> HIDE DEF widened, q, same
  <2>7. [o EXCEPT !.request = q].request = q /\ [o EXCEPT !.request = q].root = o.root
    BY <2>1 DEF Owned
  <2> QED
    BY <2>1, <2>2, <2>4, <2>5, <2>6, <2>7
<1>3. DOMAIN widened = DOMAIN owned
    OBVIOUS
<1>4. Join(owned, i, r) = IF same = {} THEN Append(owned, new) ELSE widened
    BY DEF Join
<1>5. new \in Owned /\ new.root = i /\ new.request = r
    BY DEF Owner, Owned
<1>6. \A n \in DOMAIN owned : n \in same <=> owned[n].root = i /\ owned[n].request.key = r.key
    BY DEF IsOwner
<1> HIDE DEF widened, same, new
<1>7. CASE same = {}
  <2> DEFINE s == Append(owned, new)
             n == Len(owned) + 1
  <2>1. /\ DOMAIN s = DOMAIN owned \cup {n} /\ s[n] = new
        /\ \A m \in DOMAIN owned : s[m] = owned[m]
    BY <1>5, Appended
  <2>2. Join(owned, i, r) = s
    BY <1>4, <1>7
  <2>3. \A q : Covers(q, q)
    BY DEF Covers
  <2> HIDE DEF s, n
  <2>4. ASSUME \A m \in DOMAIN owned : owned[m].request.key = r.key
        PROVE  \A m \in DOMAIN owned : owned[m].root # i
    BY <1>6, <1>7, <2>4
  <2> QED
    BY <1>5, <2>1, <2>2, <2>3, <2>4
<1>8. CASE same # {}
  <2>1. Join(owned, i, r) = widened
    BY <1>4, <1>8
  <2>2. PICK n \in same : n \in DOMAIN owned /\ owned[n].root = i
    BY <1>6, <1>8 DEF same
  <2> QED
    BY <1>2, <1>3, <2>1, <2>2
<1> QED
    BY <1>7, <1>8

\* What grouping a request makes of the groups.
LEMMA GroupedRequest ==
    ASSUME TypeOK, Group
    PROVE  /\ request \in Request /\ at \in Batch
           /\ \A n \in DOMAIN groups :
                 /\ n \in DOMAIN groups' /\ groups'[n].key = groups[n].key
                 /\ \/ groups'[n].owners = groups[n].owners
                    \/ groups[n].key = request.key /\ groups'[n].owners = Join(groups[n].owners, at, request)
           /\ \A n \in DOMAIN groups' :
                 n \in DOMAIN groups \/ (groups'[n].key = request.key /\ groups'[n].owners = <<Owner(at, request)>>)
           /\ \E n \in DOMAIN groups' :
                 /\ groups'[n].key = request.key
                 /\ \/ groups'[n].owners = <<Owner(at, request)>>
                    \/ n \in DOMAIN groups /\ groups'[n].owners = Join(groups[n].owners, at, request)
<1> DEFINE same == {n \in DOMAIN groups : groups[n].key = request.key}
           new == [key |-> request.key, owners |-> <<Owner(at, request)>>, status |-> "waiting"]
           widened == [n \in DOMAIN groups |->
                         IF n \in same THEN [groups[n] EXCEPT !.owners = Join(@, at, request)]
                         ELSE groups[n]]
<1>1. at \in Batch /\ groups \in Seq(FetchGroup) /\ requests[at] \in Seq(Request) /\ requests[at] # <<>>
    BY DEF TypeOK, Group, Admitted, Grouping
<1>2. request \in Request
    BY <1>1, Tailed DEF request
<1>3. \A n \in DOMAIN groups : groups[n] \in FetchGroup
    BY <1>1
<1>4. groups' = IF same = {} THEN Append(groups, new) ELSE widened
    BY DEF Group
<1>5. DOMAIN widened = DOMAIN groups
    OBVIOUS
<1>6. \A n \in DOMAIN groups :
         /\ widened[n].key = groups[n].key
         /\ n \in same => groups[n].key = request.key /\ widened[n].owners = Join(groups[n].owners, at, request)
         /\ n \notin same => widened[n].owners = groups[n].owners
    BY <1>3 DEF FetchGroup
<1>7. new.key = request.key /\ new.owners = <<Owner(at, request)>>
    OBVIOUS
<1>8. \A n \in same : n \in DOMAIN groups
    OBVIOUS
<1>9. new \in FetchGroup
  <2>1. Owner(at, request) \in Owned
    BY <1>1, <1>2 DEF Owner, Owned
  <2>2. <<Owner(at, request)>> \in Seq(Owned)
    BY <2>1
  <2>3. request.key \in Keys
    BY <1>2 DEF Request
  <2> QED
    BY <2>2, <2>3 DEF FetchGroup, Status
<1> HIDE DEF widened, new, same
<1>10. CASE same = {}
  <2> DEFINE s == Append(groups, new)
             n == Len(groups) + 1
  <2>1. /\ DOMAIN s = DOMAIN groups \cup {n} /\ s[n] = new
        /\ \A m \in DOMAIN groups : s[m] = groups[m]
    BY <1>1, <1>9, Appended
  <2>2. groups' = s
    BY <1>4, <1>10
  <2> HIDE DEF s, n
  <2> QED
    BY <1>1, <1>2, <1>7, <2>1, <2>2
<1>11. CASE same # {}
  <2>1. groups' = widened
    BY <1>4, <1>11
  <2> QED
    BY <1>1, <1>2, <1>5, <1>6, <1>8, <1>11, <2>1
<1> QED
    BY <1>10, <1>11

\* Keys are reserved by grouping alone, and acquired by results alone.
LEMMA ReservedStep ==
    ASSUME TypeOK, [Next]_vars, NEW i \in Batch
    PROVE  /\ walks[i].reserved \subseteq walks'[i].reserved
           /\ ~Reuse /\ ~Group => walks'[i].reserved = walks[i].reserved
           /\ ~ApplyReuse /\ ~TakeResult => walks'[i].acquired = walks[i].acquired
<1>t. /\ walks \in [Batch -> Walk] /\ at \in Batch /\ walk \in Walk /\ walk = walks[at]
      /\ \A j \in Batch : walks[j] \in Walk
    BY DEF TypeOK, walk
<1>1. CASE \/ UNCHANGED vars \/ RefuseBatch \/ StartBatch \/ EndMerge \/ EndAdmit \/ AddRequest
           \/ NextRoot \/ NoteRevisit \/ SkipReserved \/ NextRequests \/ EndRevisits \/ StartFetches
           \/ Launch \/ (\E n \in DOMAIN groups : Complete(n)) \/ NextRound
  <2>1. walks' = walks
    BY <1>1 DEF vars, RefuseBatch, StartBatch, EndMerge, EndAdmit, AddRequest, NextRoot, NoteRevisit,
                SkipReserved, NextRequests, EndRevisits, StartFetches, Launch, Complete, NextRound
  <2> QED
    BY <2>1
<1>2. CASE \/ Merge \/ Drop \/ Revisit \/ FirstVisit \/ Analyze \/ LeaveOut \/ EndRequests
           \/ Refuse \/ RefuseOverLimit
  <2>1. PICK v : walks' = [walks EXCEPT ![at] = v] /\ v.reserved = walk.reserved /\ v.acquired = walk.acquired
    <3>1. CASE Merge \/ Analyze \/ LeaveOut \/ EndRequests
      BY <1>t, <3>1, ReservedUntouched, VisitsUntouched DEF Merge, Analyze, LeaveOut, EndRequests, SameVisits
    <3>2. CASE Drop \/ Revisit \/ FirstVisit
      BY <1>t, <3>2, ReservedUntouched, VisitsUntouched, AdmitRecords
      DEF Drop, Revisit, FirstVisit, Admitting, SameVisits
    <3>3. CASE Refuse \/ RefuseOverLimit
      BY <1>t, <3>3, ReservedUntouched, VisitsUntouched DEF Refuse, RefuseOverLimit, SameVisits, walk
    <3> QED
      BY <1>2, <3>1, <3>2, <3>3
  <2> QED
    BY <1>t, <2>1
<1>3. CASE Reuse \/ Group
  <2>1. walks' = [walks EXCEPT ![at] = ReserveKey(walk, request.key)]
    BY <1>t, <1>3 DEF Reuse, Group, walk
  <2>2. /\ ReserveKey(walk, request.key).reserved = walk.reserved \cup {request.key}
        /\ ReserveKey(walk, request.key).acquired = walk.acquired
    BY <1>t, ReservedUntouched, VisitsUntouched DEF SameVisits
  <2> QED
    BY <1>t, <1>3, <2>1, <2>2
<1>4. CASE ApplyRevisit
  <2>1. \A r : /\ EnqueueRevisit(walks[i], r).reserved = walks[i].reserved
               /\ EnqueueRevisit(walks[i], r).acquired = walks[i].acquired
    BY <1>t, ReservedUntouched, VisitsUntouched DEF SameVisits
  <2>2. \E r : walks'[i] \in {walks[i], EnqueueRevisit(walks[i], r)}
    BY <1>t, <1>4 DEF ApplyRevisit
  <2> QED
    BY <2>1, <2>2
<1>5. CASE ApplyReuse \/ TakeResult
  <2>1. \A r, outcome : Apply(walks[i], r, outcome).reserved = walks[i].reserved
    BY <1>t, ReservedUntouched DEF Apply
  <2>2. CASE ApplyReuse
    <3>1. \E r, outcome : walks'[i] \in {walks[i], Apply(walks[i], r, outcome)}
      BY <1>t, <2>2 DEF ApplyReuse
    <3> QED
      BY <2>1, <2>2, <3>1
  <2>3. CASE TakeResult
    <3>1. \E r, outcome : walks'[i] \in {walks[i], Apply(walks[i], r, outcome)}
      BY <2>3, TakeResultType
    <3> QED
      BY <2>1, <2>3, <3>1
  <2> QED
    BY <1>5, <2>2, <2>3
<1>6. CASE RefuseRound
  <2>1. /\ ReportIssue(walks[i], "batch packages", None).reserved = walks[i].reserved
        /\ ReportIssue(walks[i], "batch packages", None).acquired = walks[i].acquired
    BY <1>t DEF ReportIssue, Walk
  <2>2. walks'[i] \in {walks[i], ReportIssue(walks[i], "batch packages", None)}
    BY <1>6 DEF RefuseRound
  <2> QED
    BY <2>1, <2>2
<1> QED
    BY <1>1, <1>2, <1>3, <1>4, <1>5, <1>6 DEF Next, DiscoverFrontiers, GroupRequests, FetchGroups

\* Nothing is asked for at first.
LEMMA AskedInit == Init => Headed /\ Keyed /\ Reservations
<1> SUFFICES ASSUME Init PROVE Headed /\ Keyed /\ Reservations
    OBVIOUS
<1>1. \A i \in Batch : walks[i].reserved = {} /\ walks[i].acquired = {}
    BY NewIsShallow DEF Init
<1>2. DOMAIN <<>> = {}
    OBVIOUS
<1>3. /\ \A i \in Batch : requests[i] = <<>> /\ asked[i] = {}
      /\ reuses = <<>> /\ groups = <<>> /\ fetched = <<>> /\ phase = "start" /\ found = {}
    BY DEF Init
<1>4. Headed
    BY <1>3 DEF Headed
<1>5. Keyed
    BY <1>2, <1>3 DEF Keyed, KeyedRequests, KeyedReuses, KeyedGroups, KeyedAsked
<1>6. Reservations
    BY <1>1, <1>2, <1>3 DEF Reservations, ReservedBy
<1> QED
    BY <1>4, <1>5, <1>6

\* Within a round, what is committed stays so.
LEMMA CommittedStays ==
    ASSUME TypeOK, [Next]_vars, ~NextRound, NEW i \in Batch
    PROVE  /\ asked[i] \subseteq asked'[i]
           /\ \A k : Committed(i, k) => Committed(i, k)'
<1>1. asked[i] \subseteq asked'[i]
  <2>0. asked \in [Batch -> SUBSET Keys]
    BY DEF TypeOK
  <2>1. CASE UNCHANGED vars \/ RefuseBatch \/ StartBatch \/ DiscoverFrontiers
    BY <2>1 DEF vars, round, RefuseBatch, StartBatch, DiscoverFrontiers, Merge, EndMerge, Drop, Revisit,
                FirstVisit, EndAdmit, Analyze, AddRequest, LeaveOut, EndRequests, NextRoot
  <2>2. CASE NoteRevisit \/ SkipReserved \/ Reuse \/ Group
    BY <2>0, <2>2 DEF NoteRevisit, SkipReserved, Reuse, Group, Asked
  <2>3. CASE GroupRequests /\ ~(NoteRevisit \/ SkipReserved \/ Reuse \/ Group)
    BY <2>3 DEF GroupRequests, round, Refuse, RefuseOverLimit, NextRequests, ApplyRevisit, EndRevisits,
                ApplyReuse
  <2>4. CASE FetchGroups
    BY <2>4 DEF FetchGroups, round, StartFetches, RefuseRound, Launch, Complete, TakeResult
  <2> QED
    BY <2>1, <2>2, <2>3, <2>4 DEF Next
<1>2. walks[i].reserved \subseteq walks'[i].reserved
    BY ReservedStep
<1> QED
    BY <1>1, <1>2 DEF Committed

\* Requests stay about wanted keys.
LEMMA KeyedRequestsStep ==
    ASSUME TypeOK, Stages, Acquired, Levels, Headed, Keyed, Reservations, [Next]_vars
    PROVE  KeyedRequests'
<1>t. /\ at \in Batch /\ walk \in Walk /\ walk = walks[at] /\ requests \in [Batch -> Seq(Request)]
      /\ found \subseteq DOMAIN Declarations
    BY DEF TypeOK, walk
<1>w. \A i \in Batch : \A k : Wanted(i, k) => Wanted(i, k)'
    BY WantedStays
<1>k. KeyedRequests
    BY DEF Keyed
<1>1. CASE AddRequest
  <2>1. PICK i \in FirstOf(found) :
           Requested(i) /\ requests' = [requests EXCEPT ![at] = Merged(@, RequestFor(walk, i))]
    BY <1>1 DEF AddRequest
  <2>2. phase = "request" /\ walk.frontier # <<>>
    BY <1>1 DEF AddRequest, Stages
  <2> DEFINE r == RequestFor(walk, i)
  <2>3. i \in found /\ i \in DOMAIN Declarations
    BY <1>t, <2>1 DEF FirstOf
  <2>4. r \in Request /\ r.key = Declarations[i].key /\ Gate[r.key] \in {"fetch", "refused"}
    BY <1>t, <2>1, <2>2, <2>3, RequestType DEF RequestFor, Requested
  <2>5. Wanted(at, r.key)
    <3>1. i \in DependenciesOf(walk, made, limits.depth)
      BY <2>2, <2>3 DEF Headed
    <3>2. Owing(walk, made, limits.depth, Len(walk.discovered), i) /\ i \in made
      BY <2>2, <3>1 DEF Headed, DependenciesOf, Owing, DeclaredBy
    <3> QED
      BY <1>t, <2>2, <2>4, <3>2 DEF Wanted, AskedFor, Headed
  <2>6. AtDepth(requests[at], r.depth)
    <3>1. PICK e \in Nat : AtDepth(walk.frontier, e) /\ AtDepth(requests[at], e + 1)
      BY <1>t DEF Levels, LevelAt
    <3>2. r.depth = e + 1
      BY <1>t, <2>2, <3>1, Tailed DEF AtDepth, RequestFor, Walk
    <3> QED
      BY <3>1, <3>2
  <2> DEFINE new == Merged(requests[at], r)
  <2>7. \A n \in DOMAIN new : new[n].key = r.key \/ \E m \in DOMAIN requests[at] : new[n].key = requests[at][m].key
    BY <1>t, <2>4, <2>6, MergedCovers
  <2>8. requests' = [requests EXCEPT ![at] = new]
    BY <2>1
  <2> HIDE DEF new, r
  <2>9. \A n \in DOMAIN new : Wanted(at, new[n].key) /\ Gate[new[n].key] \in {"fetch", "refused"}
    BY <1>k, <1>t, <2>4, <2>5, <2>7 DEF KeyedRequests
  <2>10. ASSUME NEW j \in Batch, NEW n \in DOMAIN requests'[j]
         PROVE  Wanted(j, requests'[j][n].key) /\ Gate[requests'[j][n].key] \in {"fetch", "refused"}
    <3>1. CASE j = at
      BY <1>t, <2>8, <2>9, <3>1
    <3>2. CASE j # at
      BY <1>k, <1>t, <2>8, <3>2 DEF KeyedRequests
    <3> QED
      BY <3>1, <3>2
  <2> QED
    BY <1>w, <2>10 DEF KeyedRequests
<1>2. CASE Refuse \/ NoteRevisit \/ SkipReserved \/ RefuseOverLimit \/ Reuse \/ Group
  <2>1. requests[at] # <<>> /\ requests' = [requests EXCEPT ![at] = Tail(@)]
    BY <1>2 DEF Refuse, NoteRevisit, SkipReserved, RefuseOverLimit, NewlyAsked, Reuse, Group, Admitted,
                Grouping, TakeRequest
  <2>2. \A n \in DOMAIN Tail(requests[at]) :
           n + 1 \in DOMAIN requests[at] /\ Tail(requests[at])[n] = requests[at][n + 1]
    BY <1>t, <2>1, Tailed
  <2>3. ASSUME NEW j \in Batch, NEW n \in DOMAIN requests'[j]
        PROVE  Wanted(j, requests'[j][n].key) /\ Gate[requests'[j][n].key] \in {"fetch", "refused"}
    BY <1>k, <1>t, <2>1, <2>2 DEF KeyedRequests
  <2> QED
    BY <1>w, <2>3 DEF KeyedRequests
<1>3. CASE requests' = requests
    BY <1>k, <1>w, <1>3 DEF KeyedRequests
<1>4. \/ requests' = requests \/ AddRequest
      \/ Refuse \/ NoteRevisit \/ SkipReserved \/ RefuseOverLimit \/ Reuse \/ Group
  <2>1. CASE UNCHANGED vars \/ RefuseBatch \/ StartBatch \/ DiscoverFrontiers
    BY <2>1 DEF vars, RefuseBatch, StartBatch, DiscoverFrontiers, Merge, EndMerge, Drop, Revisit,
                FirstVisit, EndAdmit, Analyze, LeaveOut, EndRequests, NextRoot
  <2>2. CASE GroupRequests
    BY <2>2 DEF GroupRequests, NextRequests, ApplyRevisit, EndRevisits, ApplyReuse
  <2>3. CASE FetchGroups
    BY <2>3 DEF FetchGroups, StartFetches, RefuseRound, Launch, Complete, TakeResult, NextRound
  <2> QED
    BY <2>1, <2>2, <2>3 DEF Next
<1> QED
    BY <1>1, <1>2, <1>3, <1>4

\* The steps that touch the reuses.
LEMMA ReusesStep == [Next]_vars => reuses' = reuses \/ Reuse \/ ApplyReuse
<1> SUFFICES ASSUME [Next]_vars PROVE reuses' = reuses \/ Reuse \/ ApplyReuse
    OBVIOUS
<1>1. CASE UNCHANGED vars \/ RefuseBatch \/ StartBatch \/ DiscoverFrontiers
    BY <1>1 DEF vars, round, RefuseBatch, StartBatch, DiscoverFrontiers, Merge, EndMerge, Drop, Revisit,
              FirstVisit, EndAdmit, Analyze, AddRequest, LeaveOut, EndRequests, NextRoot
<1>2. CASE GroupRequests
    BY <1>2 DEF GroupRequests, round, Refuse, NoteRevisit, SkipReserved, RefuseOverLimit, Group,
              NextRequests, ApplyRevisit, EndRevisits
<1>3. CASE FetchGroups
    BY <1>3 DEF FetchGroups, round, StartFetches, RefuseRound, Launch, Complete, TakeResult, NextRound
<1> QED
    BY <1>1, <1>2, <1>3 DEF Next

\* What is reused was reserved by the root it is for.
LEMMA KeyedReusesStep ==
    ASSUME TypeOK, Stages, Keyed, [Next]_vars
    PROVE  KeyedReuses'
<1>t. /\ at \in Batch /\ walks \in [Batch -> Walk] /\ reuses \in Seq(Owned) /\ requests \in [Batch -> Seq(Request)]
      /\ asked \in [Batch -> SUBSET Keys]
    BY DEF TypeOK
<1>k. KeyedReuses
    BY DEF Keyed
<1>o. \A n \in DOMAIN reuses : reuses[n] \in Owned
    BY <1>t
<1>p. \A n \in DOMAIN reuses : reuses[n].root \in Batch
    BY <1>o DEF Owned
<1>c. ~NextRound => \A n \in DOMAIN reuses : Committed(reuses[n].root, reuses[n].request.key)'
                                         \/ ~UNCHANGED reuses
  <2>1. \A i \in Batch : ~NextRound => \A k : Committed(i, k) => Committed(i, k)'
    BY CommittedStays
  <2> QED
    BY <1>k, <1>p, <2>1 DEF KeyedReuses, Committed
<1>1. CASE Reuse
  <2> DEFINE new == Join(reuses, at, request)
  <2>1. /\ reuses' = new /\ asked' = [asked EXCEPT ![at] = @ \cup {request.key}]
        /\ walks' = [walks EXCEPT ![at] = ReserveKey(walk, request.key)] /\ requests[at] # <<>>
    BY <1>t, <1>1 DEF Reuse, Asked, walk, Admitted, Grouping
  <2>2. request \in Request
    BY <1>t, <2>1, Tailed DEF request
  <2>3. \A n \in DOMAIN new :
           \/ IsOwner(new[n], at, request.key)
           \/ \E m \in DOMAIN reuses : IsOwner(new[n], reuses[m].root, reuses[m].request.key)
    BY <1>t, <2>2, Joined
  <2>4. walk \in Walk /\ walk = walks[at]
    BY <1>t DEF walk
  <2>5. ReserveKey(walk, request.key).reserved = walk.reserved \cup {request.key}
    BY <2>4, ReservedUntouched
  <2> HIDE DEF new
  <2>6. request.key \in walks'[at].reserved /\ request.key \in asked'[at]
    BY <1>t, <2>1, <2>5
  <2>7. \A i \in Batch : walks[i].reserved \subseteq walks'[i].reserved /\ asked[i] \subseteq asked'[i]
    BY <1>t, <2>1, <2>4, <2>5
  <2>8. \A n \in DOMAIN new : /\ new[n].request.key \in walks'[new[n].root].reserved
                              /\ new[n].request.key \in asked'[new[n].root]
    BY <1>k, <1>p, <2>3, <2>6, <2>7 DEF KeyedReuses, Committed, IsOwner
  <2> QED
    BY <2>1, <2>8 DEF KeyedReuses, Committed
<1>2. CASE ApplyReuse
  <2>1. reuses # <<>> /\ reuses' = Tail(reuses) /\ asked' = asked
    BY <1>2 DEF ApplyReuse
  <2>2. \A n \in DOMAIN Tail(reuses) : n + 1 \in DOMAIN reuses /\ Tail(reuses)[n] = reuses[n + 1]
    BY <1>t, <2>1, Tailed
  <2>3. \A i \in Batch : walks[i].reserved \subseteq walks'[i].reserved
    BY ReservedStep
  <2> QED
    BY <1>k, <1>p, <2>1, <2>2, <2>3 DEF KeyedReuses, Committed
<1>3. CASE NextRound
  <2>1. reuses = <<>> /\ reuses' = reuses
    BY <1>3 DEF NextRound, Stages
  <2> QED
    BY <2>1 DEF KeyedReuses
<1>4. CASE reuses' = reuses /\ ~NextRound
    BY <1>c, <1>4 DEF KeyedReuses, Committed
<1>5. reuses' = reuses \/ Reuse \/ ApplyReuse
    BY ReusesStep
<1> QED
    BY <1>1, <1>2, <1>3, <1>4, <1>5

\* Requests of one round are at one depth: the one to be grouped is at that of
\* those it may join.
LEMMA RequestDepth ==
    ASSUME TypeOK, Levels, requests[at] # <<>>
    PROVE  /\ request \in Request
           /\ OwnersAtDepth(revisits, request.depth)
           /\ OwnersAtDepth(reuses, request.depth)
           /\ \A n \in DOMAIN groups : OwnersAtDepth(groups[n].owners, request.depth)
<1>1. at \in Batch /\ requests[at] \in Seq(Request)
    BY DEF TypeOK
<1>2. request \in Request /\ 1 \in DOMAIN requests[at] /\ request = requests[at][1]
    BY <1>1, Tailed DEF request
<1>3. PICK d \in Nat : LevelAt(d)
    BY DEF Levels
<1>4. request.depth = d + 1
    BY <1>1, <1>2, <1>3 DEF LevelAt, AtDepth
<1> QED
    BY <1>2, <1>3, <1>4 DEF LevelAt

\* The steps that touch the groups.
LEMMA GroupsStep ==
    ASSUME [Next]_vars
    PROVE  \/ groups' = groups
           \/ Group \/ RefuseRound \/ TakeResult
           \/ Launch \/ \E n \in DOMAIN groups : Complete(n)
<1>1. CASE UNCHANGED vars \/ RefuseBatch \/ StartBatch \/ DiscoverFrontiers
    BY <1>1 DEF vars, round, RefuseBatch, StartBatch, DiscoverFrontiers, Merge, EndMerge, Drop, Revisit,
                FirstVisit, EndAdmit, Analyze, AddRequest, LeaveOut, EndRequests, NextRoot
<1>2. CASE GroupRequests
    BY <1>2 DEF GroupRequests, round, Refuse, NoteRevisit, SkipReserved, RefuseOverLimit, Reuse,
                NextRequests, ApplyRevisit, EndRevisits, ApplyReuse
<1>3. CASE FetchGroups
    BY <1>3 DEF FetchGroups, round, StartFetches, NextRound
<1> QED
    BY <1>1, <1>2, <1>3 DEF Next

\* Launching and completing a fetch leave keys and owners alone.
LEMMA StatusStep ==
    ASSUME TypeOK, Launch \/ \E n \in DOMAIN groups : Complete(n)
    PROVE  /\ DOMAIN groups' = DOMAIN groups
           /\ \A n \in DOMAIN groups : groups'[n].key = groups[n].key /\ groups'[n].owners = groups[n].owners
<1>1. PICK n \in DOMAIN groups, status \in Status : groups' = [groups EXCEPT ![n].status = status]
    BY DEF Launch, Complete, NextToLaunch, Window, Status
<1>2. \A m \in DOMAIN groups : groups[m] \in FetchGroup
    BY DEF TypeOK
<1> QED
    BY <1>1, <1>2 DEF FetchGroup

\* Taking a result removes the first group.
LEMMA GroupTaken ==
    ASSUME TypeOK, TakeResult
    PROVE  /\ 1 \in DOMAIN groups /\ Head(groups) = groups[1]
           /\ \A n \in DOMAIN groups' : n + 1 \in DOMAIN groups /\ groups'[n] = groups[n + 1]
           /\ \A n \in DOMAIN groups : n # 1 => n - 1 \in DOMAIN groups' /\ groups'[n - 1] = groups[n]
<1>1. groups \in Seq(FetchGroup) /\ groups # <<>> /\ groups' = Tail(groups)
    BY DEF TypeOK, TakeResult
<1> QED
    BY <1>1

\* A group stays one of its key, with each root once.
LEMMA KeyedGroupsStep ==
    ASSUME TypeOK, Stages, Levels, Keyed, [Next]_vars
    PROVE  KeyedGroups'
<1> DEFINE Right(g) ==
             /\ g.owners # <<>>
             /\ \A m \in DOMAIN g.owners :
                   /\ g.owners[m].request.key = g.key
                   /\ g.key \in walks'[g.owners[m].root].reserved /\ g.key \in asked'[g.owners[m].root]
             /\ \A l, m \in DOMAIN g.owners : l # m => g.owners[l].root # g.owners[m].root
<1>t. /\ at \in Batch /\ walks \in [Batch -> Walk] /\ groups \in Seq(FetchGroup)
      /\ requests \in [Batch -> Seq(Request)] /\ asked \in [Batch -> SUBSET Keys]
    BY DEF TypeOK
<1>k. KeyedGroups
    BY DEF Keyed
<1>g. \A n \in DOMAIN groups : groups[n] \in FetchGroup
    BY <1>t
<1>o. ASSUME NEW n \in DOMAIN groups
      PROVE  /\ groups[n].owners \in Seq(Owned)
             /\ \A m \in DOMAIN groups[n].owners : groups[n].owners[m].root \in Batch
  <2>1. groups[n].owners \in Seq(Owned)
    BY <1>g DEF FetchGroup
  <2>2. \A m \in DOMAIN groups[n].owners : groups[n].owners[m] \in Owned
    BY <2>1
  <2> QED
    BY <2>1, <2>2 DEF Owned
<1>c. ASSUME ~NextRound, NEW n \in DOMAIN groups, NEW g, g.key = groups[n].key, g.owners = groups[n].owners
      PROVE  Right(g)
  <2>1. \A i \in Batch : asked[i] \subseteq asked'[i] /\ walks[i].reserved \subseteq walks'[i].reserved
    BY <1>c, CommittedStays, ReservedStep
  <2> QED
    BY <1>c, <1>k, <1>o, <2>1 DEF KeyedGroups, Committed
<1>0. ASSUME \A n \in DOMAIN groups' : Right(groups'[n]) PROVE KeyedGroups'
    BY <1>0 DEF KeyedGroups, Committed
<1>1. CASE groups' = groups /\ ~NextRound
    BY <1>0, <1>1, <1>c
<1>2. CASE NextRound
  <2>1. groups = <<>> /\ groups' = groups
    BY <1>2 DEF NextRound
  <2> QED
    BY <2>1 DEF KeyedGroups
<1>3. CASE Group
  <2>1. /\ asked' = [asked EXCEPT ![at] = @ \cup {request.key}]
        /\ walks' = [walks EXCEPT ![at] = ReserveKey(walk, request.key)] /\ requests[at] # <<>> /\ ~NextRound
    BY <1>t, <1>3 DEF Group, Asked, walk, Admitted, Grouping, NextRound
  <2>2. walk \in Walk /\ walk = walks[at]
    BY <1>t DEF walk
  <2>3. ReserveKey(walk, request.key).reserved = walk.reserved \cup {request.key}
    BY <2>2, ReservedUntouched
  <2>4. request.key \in walks'[at].reserved /\ request.key \in asked'[at]
    BY <1>t, <2>1, <2>3
  <2>5. /\ request \in Request /\ \A n \in DOMAIN groups : OwnersAtDepth(groups[n].owners, request.depth)
    BY <2>1, RequestDepth
  <2>6. ASSUME NEW n \in DOMAIN groups', n \notin DOMAIN groups PROVE Right(groups'[n])
    <3>1. groups'[n].key = request.key /\ groups'[n].owners = <<Owner(at, request)>>
      BY <1>3, <2>6, GroupedRequest
    <3>2. Owner(at, request).root = at /\ Owner(at, request).request = request
      BY DEF Owner
    <3>3. DOMAIN <<Owner(at, request)>> = {1} /\ <<Owner(at, request)>>[1] = Owner(at, request)
      OBVIOUS
    <3>4. <<Owner(at, request)>> # <<>>
      OBVIOUS
    <3> QED
      BY <2>4, <3>1, <3>2, <3>3, <3>4
  <2>7. ASSUME NEW n \in DOMAIN groups, groups[n].key = request.key,
               groups'[n].key = groups[n].key, groups'[n].owners = Join(groups[n].owners, at, request)
        PROVE  Right(groups'[n])
    <3> DEFINE old == groups[n].owners
               new == Join(old, at, request)
    <3>1. /\ old \in Seq(Owned) /\ OwnersAtDepth(old, request.depth)
          /\ \A m \in DOMAIN old : old[m].root \in Batch /\ old[m].request.key = request.key
          /\ \A l, m \in DOMAIN old : l # m => old[l].root # old[m].root
      BY <1>k, <1>o, <2>5, <2>7 DEF KeyedGroups
    <3>2. \A m \in DOMAIN old : request.key \in walks'[old[m].root].reserved /\ request.key \in asked'[old[m].root]
      <4>1. Right(groups[n])
        BY <1>c, <2>1
      <4> QED
        BY <2>7, <4>1
    <3> HIDE DEF old, Right
    <3>3. \A m \in DOMAIN new :
             \/ IsOwner(new[m], at, request.key)
             \/ \E l \in DOMAIN old : IsOwner(new[m], old[l].root, old[l].request.key)
      BY <1>t, <2>5, <3>1, Joined
    <3>4. \A l, m \in DOMAIN new : l # m => new[l].root # new[m].root
      <4>1. at \in Batch /\ request \in Request
        BY <1>t, <2>5
      <4>2. \A m \in DOMAIN old : old[m].request.key = request.key
        BY <3>1
      <4> QED
        BY <3>1, <4>1, <4>2, JoinedCovers
    <3>5. \E m \in DOMAIN new : new[m].root = at
      BY <1>t, <2>5, <3>1, JoinedCovers
    <3>6. groups'[n].owners = new
      BY <2>7 DEF old
    <3> HIDE DEF new
    <3>7. new # <<>>
      BY <3>5
    <3>8. \A m \in DOMAIN new : /\ new[m].request.key = request.key
                                /\ request.key \in walks'[new[m].root].reserved
                                /\ request.key \in asked'[new[m].root]
      BY <2>4, <3>1, <3>2, <3>3 DEF IsOwner
    <3> QED
      BY <2>7, <3>4, <3>6, <3>7, <3>8 DEF Right
  <2>8. ASSUME NEW n \in DOMAIN groups PROVE Right(groups'[n])
    <3>1. /\ groups'[n].key = groups[n].key
          /\ \/ groups'[n].owners = groups[n].owners
             \/ groups[n].key = request.key /\ groups'[n].owners = Join(groups[n].owners, at, request)
      BY <1>3, GroupedRequest
    <3> HIDE DEF Right
    <3> QED
      BY <1>c, <2>1, <2>7, <3>1
  <2> HIDE DEF Right
  <2> QED
    BY <1>0, <2>6, <2>8
<1>4. CASE RefuseRound
  <2>1. groups' = <<>>
    BY <1>4 DEF RefuseRound
  <2> QED
    BY <2>1 DEF KeyedGroups
<1>5. CASE Launch \/ \E n \in DOMAIN groups : Complete(n)
  <2>1. ~NextRound
    BY <1>5 DEF Launch, Complete, NextRound
  <2>2. /\ DOMAIN groups' = DOMAIN groups
        /\ \A n \in DOMAIN groups : groups'[n].key = groups[n].key /\ groups'[n].owners = groups[n].owners
    BY <1>5, StatusStep
  <2> HIDE DEF Right
  <2> QED
    BY <1>0, <1>c, <2>1, <2>2
<1>6. CASE TakeResult
  <2>1. ~NextRound
    BY <1>6 DEF TakeResult, NextRound
  <2>2. \A n \in DOMAIN groups' : n + 1 \in DOMAIN groups /\ groups'[n] = groups[n + 1]
    BY <1>6, GroupTaken
  <2> HIDE DEF Right
  <2> QED
    BY <1>0, <1>c, <2>1, <2>2
<1> QED
    BY <1>1, <1>2, <1>3, <1>4, <1>5, <1>6, GroupsStep

\* A key asked for in this round is reserved or noted as a revisit.
LEMMA KeyedAskedStep ==
    ASSUME TypeOK, Levels, Keyed, [Next]_vars
    PROVE  KeyedAsked'
<1> SUFFICES ASSUME phase' \notin {"revisit", "reuse", "fetch"}, NEW i \in Batch, NEW k \in asked'[i]
             PROVE  k \in walks'[i].reserved \/ \E n \in DOMAIN revisits' : IsOwner(revisits'[n], i, k)
    BY DEF KeyedAsked, IsOwner
<1>t. /\ at \in Batch /\ walks \in [Batch -> Walk] /\ revisits \in Seq(Owned)
      /\ requests \in [Batch -> Seq(Request)] /\ asked \in [Batch -> SUBSET Keys]
    BY DEF TypeOK
<1>k. phase \notin {"revisit", "reuse", "fetch"} /\ k \in asked[i] =>
         k \in walks[i].reserved \/ \E n \in DOMAIN revisits : IsOwner(revisits[n], i, k)
    BY DEF Keyed, KeyedAsked
<1>r. walks[i].reserved \subseteq walks'[i].reserved
    BY ReservedStep
<1>1. CASE NextRound
    BY <1>1 DEF NextRound
<1>2. CASE NoteRevisit
  <2>1. /\ phase = "group" /\ requests[at] # <<>> /\ asked' = [asked EXCEPT ![at] = @ \cup {request.key}]
        /\ revisits' = Join(revisits, at, request)
    BY <1>2 DEF NoteRevisit, Grouping, Asked
  <2>2. request \in Request /\ OwnersAtDepth(revisits, request.depth)
    BY <2>1, RequestDepth
  <2>3. /\ \A m \in DOMAIN revisits : \E n \in DOMAIN revisits' :
              revisits'[n].root = revisits[m].root /\ revisits'[n].request.key = revisits[m].request.key
        /\ \E n \in DOMAIN revisits' : revisits'[n].root = at /\ revisits'[n].request.key = request.key
    <3> DEFINE new == Join(revisits, at, request)
    <3>1. /\ \A m \in DOMAIN revisits : \E n \in DOMAIN new :
                new[n].root = revisits[m].root /\ Covers(new[n].request, revisits[m].request)
          /\ \E n \in DOMAIN new : new[n].root = at /\ Covers(new[n].request, request)
      BY <1>t, <2>2, JoinedCovers
    <3> HIDE DEF new
    <3>2. revisits' = new
      BY <2>1 DEF new
    <3> QED
      BY <3>1, <3>2 DEF Covers
  <2>4. CASE k \in asked[i]
    <3>1. k \in walks[i].reserved \/ \E m \in DOMAIN revisits : revisits[m].root = i /\ revisits[m].request.key = k
      BY <1>k, <2>1, <2>4 DEF IsOwner
    <3> QED
      BY <1>r, <2>3, <3>1 DEF IsOwner
  <2>5. CASE k \notin asked[i]
    <3>1. i = at /\ k = request.key
      BY <1>t, <2>1, <2>5
    <3> QED
      BY <2>3, <3>1 DEF IsOwner
  <2> QED
    BY <2>4, <2>5
<1>3. CASE SkipReserved
  <2>1. /\ phase = "group" /\ asked' = [asked EXCEPT ![at] = @ \cup {request.key}]
        /\ revisits' = revisits /\ request.key \in walks[at].reserved
    BY <1>3 DEF SkipReserved, NewlyAsked, Grouping, Asked, walk
  <2>2. CASE k \in asked[i]
    BY <1>k, <1>r, <2>1, <2>2
  <2>3. CASE k \notin asked[i]
    <3>1. i = at /\ k = request.key
      BY <1>t, <2>1, <2>3
    <3> QED
      BY <1>r, <2>1, <3>1
  <2> QED
    BY <2>2, <2>3
<1>4. CASE Reuse \/ Group
  <2>1. /\ phase = "group" /\ asked' = [asked EXCEPT ![at] = @ \cup {request.key}]
        /\ revisits' = revisits /\ walks' = [walks EXCEPT ![at] = ReserveKey(walks[at], request.key)]
    BY <1>t, <1>4 DEF Reuse, Group, Admitted, Grouping, Asked, walk
  <2>2. ReserveKey(walks[at], request.key).reserved = walks[at].reserved \cup {request.key}
    BY <1>t, ReservedUntouched
  <2>3. request.key \in walks'[at].reserved
    BY <1>t, <2>1, <2>2
  <2> QED
    BY <1>k, <1>r, <1>t, <2>1, <2>3
<1>5. \/ NextRound \/ NoteRevisit \/ SkipReserved \/ Reuse \/ Group
      \/ phase \notin {"revisit", "reuse", "fetch"} /\ asked' = asked /\ revisits' = revisits
  <2>1. CASE UNCHANGED vars \/ RefuseBatch \/ StartBatch \/ DiscoverFrontiers
    BY <2>1 DEF vars, round, RefuseBatch, StartBatch, DiscoverFrontiers, Merge, EndMerge, Drop, Revisit,
                FirstVisit, Admitting, EndAdmit, Analyze, AddRequest, LeaveOut, EndRequests, NextRoot
  <2>2. CASE GroupRequests
    BY <2>2 DEF GroupRequests, round, Refuse, RefuseOverLimit, NewlyAsked, Grouping,
                NextRequests, ApplyRevisit, EndRevisits, ApplyReuse
  <2>3. CASE FetchGroups
    BY <2>3 DEF FetchGroups, round, StartFetches, RefuseRound, Launch, Complete, TakeResult
  <2> QED
    BY <2>1, <2>2, <2>3 DEF Next
<1> QED
    BY <1>1, <1>2, <1>3, <1>4, <1>5, <1>k, <1>r

\* Requests, reuses and groups keep their keys in order.
LEMMA KeyedStep ==
    TypeOK /\ Stages /\ Acquired /\ Levels /\ Headed /\ Keyed /\ Reservations /\ [Next]_vars => Keyed'
<1> SUFFICES ASSUME TypeOK, Stages, Acquired, Levels, Headed, Keyed, Reservations, [Next]_vars PROVE Keyed'
    OBVIOUS
<1>1. KeyedRequests' /\ KeyedReuses' /\ KeyedGroups' /\ KeyedAsked'
    BY KeyedRequestsStep, KeyedReusesStep, KeyedGroupsStep, KeyedAskedStep
<1> QED
    BY <1>1 DEF Keyed

\* What a result does to the walk it is applied to.
LEMMA AppliedResult ==
    ASSUME NEW w \in Walk, NEW r \in Request, NEW outcome
    PROVE  /\ Apply(w, r, outcome).acquired \subseteq w.acquired \cup {r.key}
           /\ outcome = "fetched" => r.key \in Apply(w, r, outcome).acquired
           /\ outcome # "fetched" => [kind |-> "fetch", about |-> r.key] \in Apply(w, r, outcome).issues
<1>1. CASE outcome = "fetched"
    BY <1>1 DEF Apply, EnqueueAcquired, Walk
<1>2. CASE outcome # "fetched"
    BY <1>2 DEF Apply, ReportIssue, Walk
<1> QED
    BY <1>1, <1>2

\* A result that is applied to a root's walk is about a key the root has reserved.
LEMMA ResultReserved ==
    ASSUME TypeOK, Keyed, TakeResult, NEW i \in Batch, \E m \in DOMAIN Head(groups).owners : Head(groups).owners[m].root = i
    PROVE  LET g == Head(groups)
               r == RequestOf(g, i)
           IN  /\ r \in Request /\ r.key = g.key /\ g.key \in walks[i].reserved
               /\ walks'[i] = Apply(walks[i], r, g.status)
               /\ \A m \in DOMAIN g.owners : g.owners[m].root = i => r = g.owners[m].request
<1> DEFINE g == Head(groups)
           r == RequestOf(g, i)
<1>t. walks[i] \in Walk
    BY DEF TypeOK
<1>1. g \in FetchGroup /\ g = groups[1] /\ 1 \in DOMAIN groups
    BY TakeResultType, GroupTaken
<1>2. PICK n \in DOMAIN g.owners : g.owners[n].root = i
    OBVIOUS
<1>3. r \in Request
    BY <1>1, <1>t, ResultApplied
<1>4. \A l, m \in DOMAIN g.owners : l # m => g.owners[l].root # g.owners[m].root
    BY <1>1 DEF Keyed, KeyedGroups
<1>5. \A m \in DOMAIN g.owners : g.owners[m].root = i => m = n
    BY <1>2, <1>4
<1>6. (CHOOSE m \in DOMAIN g.owners : g.owners[m].root = i) = n
    BY <1>2, <1>5
<1>7. r = g.owners[n].request
    BY <1>6 DEF RequestOf
<1>8. r.key = g.key /\ g.key \in walks[i].reserved
    BY <1>1, <1>2, <1>7 DEF Keyed, KeyedGroups, Committed
<1>9. walks'[i] = Apply(walks[i], r, g.status)
    BY <1>2 DEF TakeResult, RequestOf
<1> QED
    BY <1>3, <1>5, <1>7, <1>8, <1>9

\* The owners of a group.
LEMMA GroupOwners ==
    ASSUME TypeOK, NEW n \in DOMAIN groups
    PROVE  groups[n] \in FetchGroup /\ groups[n].owners \in Seq(Owned) /\ groups[n].key \in Keys
<1>1. groups \in Seq(FetchGroup)
    BY DEF TypeOK
<1>2. groups[n] \in FetchGroup
    BY <1>1
<1> QED
    BY <1>2 DEF FetchGroup

\* A result under way stays so until it is applied, or the round is refused.
LEMMA UnderwayStep ==
    ASSUME TypeOK, Stages, Levels, Keyed, [Next]_vars, NEW i \in Batch, NEW k \in Keys, Underway(i, k)
    PROVE  \/ Underway(i, k)'
           \/ k \in walks'[i].acquired
           \/ [kind |-> "fetch", about |-> k] \in walks'[i].issues
           \/ LimitReported(walks'[i])
<1>t. /\ at \in Batch /\ walks \in [Batch -> Walk] /\ reuses \in Seq(Owned) /\ groups \in Seq(FetchGroup)
      /\ requests \in [Batch -> Seq(Request)] /\ walks[i] \in Walk
    BY DEF TypeOK
<1> DEFINE OfReuses(s) == \E n \in DOMAIN s : IsOwner(s[n], i, k)
           OfGroups(s) == \E n \in DOMAIN s : s[n].key = k /\ \E m \in DOMAIN s[n].owners : s[n].owners[m].root = i
<1>u. Underway(i, k)' <=> OfReuses(reuses') \/ OfGroups(groups')
    BY DEF Underway, IsOwner
<1>1. ASSUME OfReuses(reuses)
      PROVE  \/ OfReuses(reuses')
             \/ k \in walks'[i].acquired \/ [kind |-> "fetch", about |-> k] \in walks'[i].issues
  <2>1. CASE Reuse
    <3> DEFINE new == Join(reuses, at, request)
    <3>1. reuses' = new /\ requests[at] # <<>>
      BY <2>1 DEF Reuse, Admitted, Grouping
    <3>2. request \in Request /\ OwnersAtDepth(reuses, request.depth)
      BY <3>1, RequestDepth
    <3>t. at \in Batch /\ reuses \in Seq(Owned)
      BY <1>t
    <3>3. \A m \in DOMAIN reuses : \E n \in DOMAIN new :
              new[n].root = reuses[m].root /\ Covers(new[n].request, reuses[m].request)
      BY <3>t, <3>2, JoinedCovers
    <3> HIDE DEF new
    <3> QED
      BY <1>1, <3>1, <3>3 DEF IsOwner, Covers
  <2>2. CASE ApplyReuse
    <3> DEFINE o == Head(reuses)
               outcome == fetched[o.request.key]
    <3>1. /\ reuses # <<>> /\ reuses' = Tail(reuses)
          /\ walks' = [walks EXCEPT ![o.root] = Apply(@, o.request, outcome)]
      BY <2>2 DEF ApplyReuse
    <3>2. /\ 1 \in DOMAIN reuses /\ o = reuses[1] /\ o \in Owned
          /\ \A n \in DOMAIN reuses : n # 1 => n - 1 \in DOMAIN Tail(reuses) /\ Tail(reuses)[n - 1] = reuses[n]
      BY <1>t, <3>1
    <3>3. PICK n \in DOMAIN reuses : IsOwner(reuses[n], i, k)
      BY <1>1
    <3>4. CASE n # 1
      BY <3>1, <3>2, <3>3, <3>4
    <3>5. CASE n = 1
      <4>1. o.root = i /\ o.request.key = k /\ o.request \in Request
        BY <3>2, <3>3, <3>5 DEF IsOwner, Owned
      <4>2. walks'[i] = Apply(walks[i], o.request, outcome)
        BY <1>t, <3>1, <4>1
      <4> HIDE DEF o, outcome
      <4> QED
        BY <1>t, <4>1, <4>2, AppliedResult
    <3> QED
      BY <3>4, <3>5
  <2>3. CASE reuses' = reuses
    BY <1>1, <2>3
  <2> HIDE DEF OfReuses
  <2> QED
    BY <2>1, <2>2, <2>3, ReusesStep
<1>2. ASSUME OfGroups(groups), ~OfReuses(reuses)
      PROVE  \/ OfGroups(groups')
             \/ k \in walks'[i].acquired \/ [kind |-> "fetch", about |-> k] \in walks'[i].issues
             \/ LimitReported(walks'[i])
  <2>1. PICK n \in DOMAIN groups :
           groups[n].key = k /\ \E m \in DOMAIN groups[n].owners : groups[n].owners[m].root = i
    BY <1>2
  <2>2. CASE Group
    <3>1. requests[at] # <<>>
      BY <2>2 DEF Group, Admitted, Grouping
    <3>2. request \in Request /\ OwnersAtDepth(groups[n].owners, request.depth)
      BY <3>1, RequestDepth
    <3>3. groups[n].owners \in Seq(Owned)
      BY GroupOwners
    <3> DEFINE old == groups[n].owners
               new == Join(old, at, request)
    <3>4. \E l \in DOMAIN new : new[l].root = i
      <4>1. \A m \in DOMAIN old : \E l \in DOMAIN new :
               new[l].root = old[m].root /\ Covers(new[l].request, old[m].request)
        BY <1>t, <3>2, <3>3, JoinedCovers
      <4> HIDE DEF new
      <4> QED
        BY <2>1, <4>1
    <3>5. /\ n \in DOMAIN groups' /\ groups'[n].key = groups[n].key
          /\ groups'[n].owners \in {groups[n].owners, Join(groups[n].owners, at, request)}
      BY <2>2, GroupedRequest
    <3> QED
      BY <2>1, <3>4, <3>5
  <2>3. CASE RefuseRound
    <3>1. walks'[i] = ReportIssue(walks[i], "batch packages", None)
      BY <2>1, <2>3 DEF RefuseRound
    <3>2. [kind |-> "batch packages", about |-> None] \in walks'[i].issues
      BY <1>t, <3>1 DEF ReportIssue, Walk
    <3>3. LimitReported(walks'[i])
      BY <3>2 DEF LimitReported
    <3> QED
      BY <3>3
  <2>4. CASE TakeResult
    <3>1. CASE n # 1
      <4>1. n - 1 \in DOMAIN groups' /\ groups'[n - 1] = groups[n]
        BY <2>4, <3>1, GroupTaken
      <4> QED
        BY <2>1, <4>1
    <3>2. CASE n = 1
      <4> DEFINE g == Head(groups)
                 r == RequestOf(g, i)
      <4>1. g = groups[1] /\ \E l \in DOMAIN g.owners : g.owners[l].root = i
        BY <2>1, <2>4, <3>2, GroupTaken
      <4>2. r \in Request /\ r.key = g.key /\ walks'[i] = Apply(walks[i], r, g.status)
        BY <2>4, <4>1, ResultReserved
      <4>3. r.key = k
        BY <2>1, <3>2, <4>1, <4>2
      <4> HIDE DEF r, g
      <4> QED
        BY <1>t, <4>2, <4>3, AppliedResult
    <3> QED
      BY <3>1, <3>2
  <2>5. CASE Launch \/ \E l \in DOMAIN groups : Complete(l)
    BY <2>1, <2>5, StatusStep
  <2>6. CASE groups' = groups
    BY <1>2, <2>6
  <2> HIDE DEF OfGroups
  <2> QED
    BY <2>2, <2>3, <2>4, <2>5, <2>6, GroupsStep
<1>3. OfReuses(reuses) \/ OfGroups(groups)
    BY DEF Underway
<1> HIDE DEF OfReuses, OfGroups
<1> QED
    BY <1>1, <1>2, <1>3, <1>u

\* A request that is let through is under way from then on.
LEMMA AdmittedUnderway ==
    ASSUME TypeOK, Levels, Reuse \/ Group, NEW i, i = at, NEW k, k = request.key
    PROVE  Underway(i, k)'
<1>t. /\ at \in Batch /\ reuses \in Seq(Owned) /\ groups \in Seq(FetchGroup) /\ requests[at] # <<>>
    BY DEF TypeOK, Reuse, Group, Admitted, Grouping
<1>d. /\ request \in Request /\ OwnersAtDepth(reuses, request.depth)
      /\ \A n \in DOMAIN groups : OwnersAtDepth(groups[n].owners, request.depth)
    BY <1>t, RequestDepth
<1>1. CASE Reuse
  <2> DEFINE new == Join(reuses, at, request)
  <2>1. \E n \in DOMAIN new : new[n].root = at /\ Covers(new[n].request, request)
    BY <1>t, <1>d, JoinedCovers
  <2>2. reuses' = new
    BY <1>1 DEF Reuse
  <2> HIDE DEF new
  <2> QED
    BY <2>1, <2>2 DEF Underway, IsOwner, Covers
<1>2. CASE Group
  <2>1. PICK n \in DOMAIN groups' :
          /\ groups'[n].key = request.key
          /\ \/ groups'[n].owners = <<Owner(at, request)>>
             \/ n \in DOMAIN groups /\ groups'[n].owners = Join(groups[n].owners, at, request)
    BY <1>2, GroupedRequest
  <2>2. \E m \in DOMAIN groups'[n].owners : groups'[n].owners[m].root = at
    <3>1. CASE groups'[n].owners = <<Owner(at, request)>>
      <4>1. DOMAIN <<Owner(at, request)>> = {1} /\ <<Owner(at, request)>>[1].root = at
        BY DEF Owner
      <4> QED
        BY <3>1, <4>1
    <3>2. CASE n \in DOMAIN groups /\ groups'[n].owners = Join(groups[n].owners, at, request)
      <4> DEFINE old == groups[n].owners
                 new == Join(old, at, request)
      <4>1. old \in Seq(Owned) /\ OwnersAtDepth(old, request.depth)
        BY <1>d, <3>2, GroupOwners
      <4>2. \E l \in DOMAIN new : new[l].root = at
        BY <1>t, <1>d, <4>1, JoinedCovers
      <4>3. groups'[n].owners = new
        BY <3>2
      <4> HIDE DEF new
      <4> QED
        BY <4>2, <4>3
    <3> QED
      BY <2>1, <3>1, <3>2
  <2> QED
    BY <2>1, <2>2 DEF Underway
<1> QED
    BY <1>1, <1>2

\* Only what a root wants and may fetch is reserved for it.
LEMMA AdmittedWanted ==
    ASSUME TypeOK, Keyed, Reservations, Reuse \/ Group
    PROVE  request.key \in Demanded(walk, made, limits.depth)
<1>1. /\ at \in Batch /\ requests[at] \in Seq(Request) /\ requests[at] # <<>> /\ phase = "group"
      /\ Gate[request.key] # "refused" /\ ~NotedRevisit
      /\ request.key \notin asked[at] => ~Revisitable(walk, request.key)
    BY DEF TypeOK, Reuse, Group, Admitted, Grouping
<1>2. request \in Request /\ 1 \in DOMAIN requests[at] /\ request = requests[at][1]
    BY <1>1, Tailed DEF request
<1>3. Wanted(at, request.key) /\ Gate[request.key] = "fetch"
    BY <1>1, <1>2 DEF Keyed, KeyedRequests
<1>4. CASE request.key \notin asked[at]
  <2>1. ~NamesRoot(walk, request.key)
    BY <1>1, <1>4 DEF Revisitable
  <2>2. request.key \in Keys
    BY <1>2 DEF Request
  <2> QED
    BY <1>3, <2>1, <2>2, DemandedWhenAsked DEF Wanted, walk
<1>5. CASE request.key \in asked[at]
  <2>1. request.key \in walks[at].reserved
    BY <1>1, <1>5 DEF Keyed, KeyedAsked, NotedRevisit
  <2> QED
    BY <1>1, <2>1 DEF Reservations, ReservedBy, walk
<1> QED
    BY <1>4, <1>5

\* Acquisitions come from results of reserved keys.
LEMMA AcquiredReserved ==
    ASSUME TypeOK, Keyed, Reservations, [Next]_vars, NEW i \in Batch
    PROVE  walks'[i].acquired \subseteq walks'[i].reserved
<1>t. /\ walks \in [Batch -> Walk] /\ walks[i] \in Walk /\ reuses \in Seq(Owned)
    BY DEF TypeOK
<1>r. walks[i].reserved \subseteq walks'[i].reserved
    BY ReservedStep
<1>o. walks[i].acquired \subseteq walks[i].reserved
    BY DEF Reservations, ReservedBy
<1>1. CASE ~ApplyReuse /\ ~TakeResult
    BY <1>1, <1>r, <1>o, ReservedStep
<1>2. CASE ApplyReuse
  <2> DEFINE o == Head(reuses)
             outcome == fetched[o.request.key]
  <2>1. reuses # <<>> /\ walks' = [walks EXCEPT ![o.root] = Apply(@, o.request, outcome)]
    BY <1>2 DEF ApplyReuse
  <2>2. 1 \in DOMAIN reuses /\ o = reuses[1] /\ o \in Owned
    BY <1>t, <2>1, Tailed
  <2>3. o.request \in Request /\ o.request.key \in walks[o.root].reserved
    BY <2>2 DEF Owned, Keyed, KeyedReuses, Committed
  <2>4. CASE i = o.root
    <3>1. walks'[i] = Apply(walks[i], o.request, outcome)
      BY <1>t, <2>1, <2>4
    <3> HIDE DEF o, outcome
    <3>2. walks'[i].acquired \subseteq walks[i].acquired \cup {o.request.key}
      BY <1>t, <2>3, <3>1, AppliedResult
    <3> QED
      BY <1>o, <1>r, <2>3, <2>4, <3>2
  <2>5. CASE i # o.root
    <3>1. walks'[i] = walks[i]
      BY <1>t, <2>1, <2>5
    <3> QED
      BY <1>o, <3>1
  <2> QED
    BY <2>4, <2>5
<1>3. CASE TakeResult
  <2> DEFINE g == Head(groups)
             r == RequestOf(g, i)
  <2>1. CASE walks'[i] = walks[i]
    BY <1>o, <2>1
  <2>2. CASE \E m \in DOMAIN g.owners : g.owners[m].root = i
    <3>1. r \in Request /\ r.key \in walks[i].reserved /\ walks'[i] = Apply(walks[i], r, g.status)
      BY <1>3, <2>2, ResultReserved
    <3> HIDE DEF g, r
    <3>2. walks'[i].acquired \subseteq walks[i].acquired \cup {r.key}
      BY <1>t, <3>1, AppliedResult
    <3> QED
      BY <1>o, <1>r, <3>1, <3>2
  <2> QED
    BY <1>3, <2>1, <2>2, TakeResultType
<1> QED
    BY <1>1, <1>2, <1>3

\* Every result was reserved by some root.
LEMMA FetchedReserved ==
    ASSUME TypeOK, Keyed, Reservations, [Next]_vars, NEW k \in DOMAIN fetched'
    PROVE  \E i \in Batch : k \in walks'[i].reserved
<1>1. \A i \in Batch : walks[i].reserved \subseteq walks'[i].reserved
    BY ReservedStep
<1>2. CASE TakeResult
  <2>1. DOMAIN fetched' = DOMAIN fetched \cup {Head(groups).key} /\ Head(groups) \in FetchGroup
    BY <1>2, TakeResultType
  <2>2. 1 \in DOMAIN groups /\ Head(groups) = groups[1]
    BY <1>2, GroupTaken
  <2>3. groups[1].owners # <<>> /\ groups[1].owners \in Seq(Owned)
    BY <2>2, GroupOwners DEF Keyed, KeyedGroups
  <2>4. 1 \in DOMAIN groups[1].owners /\ groups[1].owners[1] \in Owned
    BY <2>3
  <2>5. groups[1].key \in walks[groups[1].owners[1].root].reserved /\ groups[1].owners[1].root \in Batch
    BY <2>2, <2>4 DEF Keyed, KeyedGroups, Committed, Owned
  <2> QED
    BY <1>1, <2>1, <2>2, <2>5 DEF Reservations
<1>3. CASE ~TakeResult
  <2>1. UNCHANGED vars \/ RefuseBatch \/ StartBatch \/ DiscoverFrontiers \/ GroupRequests
        \/ FetchGroups
    BY DEF Next
  <2>2. fetched' = fetched
    <3>1. CASE UNCHANGED vars \/ RefuseBatch \/ StartBatch \/ DiscoverFrontiers
      BY <3>1 DEF vars, results, RefuseBatch, StartBatch, DiscoverFrontiers, Merge, EndMerge, Drop, Revisit,
                  FirstVisit, EndAdmit, Analyze, AddRequest, LeaveOut, EndRequests, NextRoot
    <3>2. CASE GroupRequests
      BY <3>2 DEF GroupRequests, results, Refuse, NoteRevisit, SkipReserved, RefuseOverLimit, Reuse, Group,
                  NextRequests, ApplyRevisit, EndRevisits, ApplyReuse
    <3>3. CASE FetchGroups
      BY <1>3, <3>3 DEF FetchGroups, results, StartFetches, RefuseRound, Launch, Complete, NextRound
    <3> QED
      BY <2>1, <3>1, <3>2, <3>3
  <2> QED
    BY <1>1, <2>2 DEF Reservations
<1> QED
    BY <1>2, <1>3

\* Only wanted keys are reserved; each is acquired, under way or reported.
LEMMA ReservationsStep ==
    TypeOK /\ Stages /\ Acquired /\ Levels /\ Keyed /\ Reservations /\ [Next]_vars => Reservations'
<1> SUFFICES ASSUME TypeOK, Stages, Acquired, Levels, Keyed, Reservations, [Next]_vars PROVE Reservations'
    OBVIOUS
<1>t. /\ walks \in [Batch -> Walk] /\ at \in Batch
    BY DEF TypeOK
<1>1. ASSUME NEW i \in Batch PROVE ReservedBy(i)'
  <2>0. walks[i] \in Walk
    BY <1>t
  <2>1. /\ Demanded(walks[i], made, limits.depth) \subseteq Demanded(walks'[i], made', limits'.depth)
        /\ walks[i].issues \subseteq walks'[i].issues
    BY WantedStays, StepContinues DEF Continues
  <2>2. walks'[i].acquired \subseteq walks'[i].reserved
    BY AcquiredReserved
  <2>3. walks[i].acquired \subseteq walks'[i].acquired
    <3>1. CASE ApplyReuse \/ TakeResult
      <4>1. \A r, outcome : walks[i].acquired \subseteq Apply(walks[i], r, outcome).acquired
        BY <2>0 DEF Apply, EnqueueAcquired, ReportIssue, Walk
      <4>2. CASE ApplyReuse
        <5>1. \E r, outcome : walks'[i] \in {walks[i], Apply(walks[i], r, outcome)}
          BY <1>t, <4>2 DEF ApplyReuse
        <5> QED
          BY <4>1, <5>1
      <4>3. CASE TakeResult
        <5>1. \E r, outcome : walks'[i] \in {walks[i], Apply(walks[i], r, outcome)}
          BY <4>3, TakeResultType
        <5> QED
          BY <4>1, <5>1
      <4> QED
        BY <3>1, <4>2, <4>3
    <3>2. CASE ~ApplyReuse /\ ~TakeResult
      BY <3>2, ReservedStep
    <3> QED
      BY <3>1, <3>2
  <2>4. ASSUME NEW k \in walks'[i].reserved, k \notin walks[i].reserved
        PROVE  i = at /\ k = request.key /\ (Reuse \/ Group)
    <3>1. Reuse \/ Group
      BY <2>4, ReservedStep
    <3>2. walks' = [walks EXCEPT ![at] = ReserveKey(walks[at], request.key)]
      BY <1>t, <3>1 DEF Reuse, Group
    <3>3. ReserveKey(walks[at], request.key).reserved = walks[at].reserved \cup {request.key}
      BY <1>t, ReservedUntouched
    <3> QED
      BY <1>t, <2>4, <3>1, <3>2, <3>3
  <2>5. ASSUME NEW k \in walks'[i].reserved
        PROVE  /\ k \in Demanded(walks'[i], made', limits'.depth)
               /\ \/ k \in walks'[i].acquired
                  \/ [kind |-> "fetch", about |-> k] \in walks'[i].issues
                  \/ LimitReported(walks'[i])
                  \/ Underway(i, k)'
    <3>1. CASE k \notin walks[i].reserved
      <4>1. i = at /\ k = request.key /\ (Reuse \/ Group)
        BY <2>4, <3>1
      <4>2. k \in Demanded(walks[i], made, limits.depth)
        BY <4>1, AdmittedWanted DEF walk
      <4>3. Underway(i, k)'
        BY <4>1, AdmittedUnderway
      <4> QED
        BY <2>1, <4>2, <4>3
    <3>2. CASE k \in walks[i].reserved
      <4>1. k \in Demanded(walks[i], made, limits.depth) /\ k \in Keys
        BY <3>2 DEF Reservations, ReservedBy, Demanded
      <4>2. LimitReported(walks[i]) => LimitReported(walks'[i])
        BY <2>1, LimitStays
      <4>3. Underway(i, k) => \/ Underway(i, k)'
                              \/ k \in walks'[i].acquired
                              \/ [kind |-> "fetch", about |-> k] \in walks'[i].issues
                              \/ LimitReported(walks'[i])
        BY <4>1, UnderwayStep
      <4> QED
        BY <2>1, <2>3, <3>2, <4>1, <4>2, <4>3 DEF Reservations, ReservedBy
    <3> QED
      BY <3>1, <3>2
  <2> QED
    BY <2>2, <2>5 DEF ReservedBy
<1>2. \A k \in DOMAIN fetched' : \E i \in Batch : k \in walks'[i].reserved
    BY FetchedReserved
<1> QED
    BY <1>1, <1>2 DEF Reservations

-----------------------------------------------------------------------------
(* Every dependency found is followed, or the report names the limit.          *)

Of(owned, i) == {owned[n].request : n \in {m \in DOMAIN owned : owned[m].root = i}}

\* What has been asked for root i and has no answer yet.
Asking(i) ==
    EntriesOf(requests[i]) \cup Of(revisits, i) \cup Of(reuses, i)
    \cup UNION {Of(groups[n].owners, i) : n \in DOMAIN groups}

Left(i) == IF Looked(i) THEN found ELSE {}

Followed(i) ==
    \/ LimitReported(walks[i])
    \/ Following(walks[i], Looked(i), Asking(i), made, limits.depth, Left(i))

\* What is owned consists of requests.
LEMMA OfTyped ==
    ASSUME NEW owned \in Seq(Owned), NEW i
    PROVE  Of(owned, i) \subseteq Request
<1>1. \A n \in DOMAIN owned : owned[n] \in Owned
    OBVIOUS
<1> QED
    BY <1>1 DEF Of, Owned

\* Joining leaves every request of every root covered.
LEMMA OfJoined ==
    ASSUME NEW owned \in Seq(Owned), NEW j \in Batch, NEW r \in Request, OwnersAtDepth(owned, r.depth),
           NEW i
    PROVE  /\ \A q \in Of(owned, i) : \E s \in Of(Join(owned, j, r), i) : Covers(s, q)
           /\ i = j => \E s \in Of(Join(owned, j, r), i) : Covers(s, r)
<1> DEFINE new == Join(owned, j, r)
<1>1. /\ \A m \in DOMAIN owned : \E n \in DOMAIN new :
            new[n].root = owned[m].root /\ Covers(new[n].request, owned[m].request)
      /\ \E n \in DOMAIN new : new[n].root = j /\ Covers(new[n].request, r)
    BY JoinedCovers
<1> HIDE DEF new
<1>2. \A q \in Of(owned, i) : \E s \in Of(new, i) : Covers(s, q)
  <2> TAKE q \in Of(owned, i)
  <2>1. PICK m \in DOMAIN owned : owned[m].root = i /\ q = owned[m].request
    BY DEF Of
  <2>2. PICK n \in DOMAIN new : new[n].root = i /\ Covers(new[n].request, q)
    BY <1>1, <2>1
  <2>3. new[n].request \in Of(new, i)
    BY <2>2 DEF Of
  <2> QED
    BY <2>2, <2>3
<1>3. ASSUME i = j PROVE \E s \in Of(new, i) : Covers(s, r)
  <2>1. PICK n \in DOMAIN new : new[n].root = i /\ Covers(new[n].request, r)
    BY <1>1, <1>3
  <2>2. new[n].request \in Of(new, i)
    BY <2>1 DEF Of
  <2> QED
    BY <2>1, <2>2
<1> QED
    BY <1>2, <1>3 DEF new

\* Taking the first leaves the others.
LEMMA OfTailed ==
    ASSUME NEW owned \in Seq(Owned), owned # <<>>, NEW i, NEW q \in Of(owned, i)
    PROVE  q \in Of(Tail(owned), i) \/ (q = Head(owned).request /\ Head(owned).root = i)
<1>1. PICK n \in DOMAIN owned : owned[n].root = i /\ q = owned[n].request
    BY DEF Of
<1>2. CASE n = 1
    BY <1>1, <1>2
<1>3. CASE n # 1
  <2>1. n - 1 \in DOMAIN Tail(owned) /\ Tail(owned)[n - 1] = owned[n]
    BY <1>3
  <2> QED
    BY <1>1, <2>1 DEF Of
<1> QED
    BY <1>2, <1>3

\* Everything asked is a request.
LEMMA AskingTyped ==
    ASSUME TypeOK, NEW i \in Batch
    PROVE  Asking(i) \subseteq Request /\ Wishes(Asking(i))
<1>1. /\ requests[i] \in Seq(Request) /\ revisits \in Seq(Owned) /\ reuses \in Seq(Owned)
      /\ \A n \in DOMAIN groups : groups[n].owners \in Seq(Owned)
    BY GroupOwners DEF TypeOK
<1>2. \A n \in DOMAIN requests[i] : requests[i][n] \in Request
    BY <1>1
<1>3. EntriesOf(requests[i]) \subseteq Request
    BY <1>2 DEF EntriesOf
<1>4. /\ Of(revisits, i) \subseteq Request /\ Of(reuses, i) \subseteq Request
      /\ \A n \in DOMAIN groups : Of(groups[n].owners, i) \subseteq Request
    BY <1>1, OfTyped
<1>5. Asking(i) \subseteq Request
    BY <1>3, <1>4 DEF Asking
<1> QED
    BY <1>5 DEF Wishes, Request

AskingWell == \A i \in Batch : Wishes(Asking(i))

\* The same for all roots.
LEMMA AskingWishes == TypeOK => AskingWell
    BY AskingTyped DEF AskingWell

\* Nothing was found at first.
LEMMA FollowedInit == Init => \A i \in Batch : Followed(i)
<1> SUFFICES ASSUME Init, NEW i \in Batch PROVE Followed(i)
    OBVIOUS
<1>1. walks[i].discovered = <<>>
    BY NewIsShallow DEF Init
<1>2. DOMAIN walks[i].discovered = {}
    BY <1>1
<1> QED
    BY <1>2 DEF Followed, Following

\* Only looking at a root's frontier adds to what the root has discovered.
LEMMA DiscoveredStays ==
    ASSUME TypeOK, Stages, Acquired, Levels, Keyed, Reservations, [Next]_vars, NEW i \in Batch,
           Looked(i)' => Looked(i)
    PROVE  walks'[i].discovered = walks[i].discovered
<1>1. PICK d \in Nat : LevelAt(d)
    BY DEF Levels
<1> DEFINE w == walks[i]
           v == walks'[i]
           l == Looked(i)
           m == Looked(i)'
<1>2. w \in Walk
    BY DEF TypeOK
<1>3. Iterates(w, l, v, m, d) /\ ~(l = FALSE /\ m = TRUE)
    BY <1>1, StepIterates
<1> SUFFICES v.discovered = w.discovered
    OBVIOUS
<1> HIDE DEF w, v, l, m
<1>4. CASE Kept(w, v)
    BY <1>4 DEF Kept, SameEntries
<1>5. CASE v \in {MergeNext(w), DropRevisit(w), AdmitRevisit(w), AdmitFirstVisit(w), BreakAtLimit(w), LeaveFrontierHead(w)}
    BY <1>2, <1>5, EveryIterationContinues
<1>6. CASE \E r : v = EnqueueAcquired(w, r) \/ v = EnqueueRevisit(w, r)
    BY <1>2, <1>6, EveryIterationContinues
<1> QED
    BY <1>3, <1>4, <1>5, <1>6 DEF Iterates

\* A step that discovers nothing for a root keeps following when it answers, in
\* one way or another, every request there was.
LEMMA FollowedKept ==
    ASSUME TypeOK, TypeOK', Stages, Acquired, Levels, Keyed, Reservations, Grounding, [Next]_vars,
           NEW i \in Batch, Followed(i), Looked(i)' => Looked(i),
           ~LimitReported(walks'[i]) =>
              \A r \in Asking(i) : Served(walks'[i], Looked(i)', Asking(i)', r.key, r.contexts, r.depth)
    PROVE  \/ LimitReported(walks'[i])
           \/ Following(walks'[i], Looked(i)', Asking(i)', made', limits'.depth, Left(i))
<1> SUFFICES ASSUME ~LimitReported(walks'[i])
             PROVE  Following(walks'[i], Looked(i)', Asking(i)', made', limits'.depth, Left(i))
    OBVIOUS
<1>1. walks[i] \in Walk /\ walks'[i] \in Walk /\ made \subseteq DOMAIN Declarations
    BY BatchAssumption DEF TypeOK
<1>2. Wishes(Asking(i)) /\ Wishes(Asking(i)')
  <2>1. ASSUME TypeOK' PROVE AskingWell'
    BY <2>1, AskingWishes, PTL
  <2>2. AskingWell'
    BY <2>1
  <2> QED
    BY AskingTyped, <2>2 DEF AskingWell, Wishes
<1>3. Continues(walks[i], walks'[i]) /\ UNCHANGED <<made, limits>>
    BY StepContinues
<1>4. walks'[i].discovered = walks[i].discovered
    BY DiscoveredStays
<1>5. ~LimitReported(walks[i])
    BY <1>3, LimitStays DEF Continues
<1>6. Tracked(walks[i], Looked(i), Roots[i])
    BY DEF Grounding
<1>7. \A t, C : \A e \in Nat : Belongs(Roots[i], t) /\ Held(walks[i], Looked(i), t, C, e)
                                    => Held(walks'[i], Looked(i)', t, C, e)
    BY GroundingStep DEF StillHeld
<1> DEFINE w == walks[i]
           v == walks'[i]
           l == Looked(i)
           m == Looked(i)'
           asking == Asking(i)
           after == Asking(i)'
           left == Left(i)
           o == Roots[i]
           D == limits.depth
<1> SUFFICES Following(v, m, after, made, D, left)
    BY <1>3
<1>8. /\ Wishes(asking) /\ Wishes(after) /\ w \in Walk /\ v \in Walk
      /\ Tracked(w, l, o) /\ Following(w, l, asking, made, D, left)
      /\ v.discovered = w.discovered /\ Continues(w, v)
      /\ \A t, C : \A e \in Nat : Belongs(o, t) /\ Held(w, l, t, C, e) => Held(v, m, t, C, e)
      /\ \A r \in asking : Served(v, m, after, r.key, r.contexts, r.depth)
      /\ Consistent(o)
    BY <1>1, <1>2, <1>3, <1>4, <1>5, <1>6, <1>7, RootsConsistent DEF Followed
<1> HIDE DEF w, v, l, m, asking, after, left, o, D
<1> QED
    BY <1>1, <1>8, FollowingKept

\* What is queued for a root's request answers it.
LEMMA QueueingHolds ==
    ASSUME TypeOK, Reservations, Grounding, NEW i \in Batch, ~Looked(i), NEW r \in Request, NEW v,
           \/ v = EnqueueRevisit(walks[i], r) /\ Revisitable(walks[i], r.key)
           \/ v = EnqueueAcquired(walks[i], r) /\ r.key \in walks[i].reserved
    PROVE  Held(v, FALSE, Target(v, r.key), r.contexts, r.depth)
<1>1. walks[i] \in Walk
    BY DEF TypeOK
<1>2. /\ \A k \in walks[i].reserved : ~NamesRoot(walks[i], k)
      /\ walks[i].acquired \subseteq walks[i].reserved
    BY DEF Reservations, ReservedBy, Demanded
<1>3. Tracked(walks[i], FALSE, Roots[i])
  <2>1. Looked(i) = FALSE
    BY DEF Looked
  <2> QED
    BY <2>1 DEF Grounding
<1>4. r.key \in Keys /\ r.depth \in Nat /\ r.contexts \subseteq Contexts
    BY DEF Request
<1> DEFINE w == walks[i]
           o == Roots[i]
<1>5. \/ v = EnqueueAcquired(w, r) /\ ~NamesRoot(w, r.key)
      \/ v = EnqueueRevisit(w, r) /\ Revisitable(w, r.key) /\ (r.key \in w.acquired => ~NamesRoot(w, r.key))
    BY <1>2
<1>6. w \in Walk /\ Tracked(w, FALSE, o) /\ Consistent(o)
    BY <1>1, <1>3, RootsConsistent
<1> HIDE DEF w, o
<1>7. Held(v, FALSE, Target(w, r.key), r.contexts, r.depth)
    BY <1>4, <1>5, <1>6, EnqueueHolds
<1>8. Continues(w, v)
    BY <1>5, <1>6, EveryIterationContinues
<1>9. Target(v, r.key) = Target(w, r.key)
    BY <1>8 DEF Continues, Target, NamesRoot
<1> QED
    BY <1>7, <1>9

\* What a step takes from the requests of the root at hand is the first one.
LEMMA RequestTaken ==
    ASSUME TypeOK, requests[at] # <<>>, TakeRequest, NEW i \in Batch, NEW q \in EntriesOf(requests[i])
    PROVE  q \in EntriesOf(requests'[i]) \/ (i = at /\ q = request)
<1>1. at \in Batch /\ requests \in [Batch -> Seq(Request)] /\ requests[at] \in Seq(Request)
    BY DEF TypeOK
<1>2. requests' = [requests EXCEPT ![at] = Tail(@)]
    BY DEF TakeRequest
<1>3. EntriesOf(requests[at]) = EntriesOf(Tail(requests[at])) \cup {request}
    BY <1>1, EntriesTailed DEF request
<1>4. CASE i = at
    BY <1>1, <1>2, <1>3, <1>4
<1>5. CASE i # at
    BY <1>1, <1>2, <1>5
<1> QED
    BY <1>4, <1>5

\* Grouping a request, in whichever way, leaves what was asked covered.
LEMMA GroupingCovers ==
    ASSUME TypeOK, Levels, NoteRevisit \/ Reuse \/ Group, NEW i \in Batch, NEW q \in Asking(i)
    PROVE  \E s \in Asking(i)' : Covers(s, q)
<1>t. /\ at \in Batch /\ revisits \in Seq(Owned) /\ reuses \in Seq(Owned) /\ requests[at] # <<>> /\ TakeRequest
      /\ \A n \in DOMAIN groups : groups[n].owners \in Seq(Owned)
    BY GroupOwners DEF TypeOK, NoteRevisit, Reuse, Group, Admitted, Grouping
<1>d. /\ request \in Request
      /\ OwnersAtDepth(revisits, request.depth) /\ OwnersAtDepth(reuses, request.depth)
      /\ \A n \in DOMAIN groups : OwnersAtDepth(groups[n].owners, request.depth)
    BY <1>t, RequestDepth
<1> DEFINE after == Asking(i)'
<1>a. after = EntriesOf(requests'[i]) \cup Of(revisits', i) \cup Of(reuses', i)
              \cup UNION {Of(groups'[n].owners, i) : n \in DOMAIN groups'}
    BY DEF Asking, Of
<1> SUFFICES \E s \in after : Covers(s, q)
    OBVIOUS
<1>s. \A s : Covers(s, s)
    BY DEF Covers
<1>1. EntriesOf(requests'[i]) \subseteq after /\ Of(revisits', i) \subseteq after /\ Of(reuses', i) \subseteq after
    BY <1>a
<1>2. \A n \in DOMAIN groups' : Of(groups'[n].owners, i) \subseteq after
    BY <1>a
<1> HIDE DEF after
<1>3. CASE NoteRevisit
  <2>1. /\ \A r \in Of(revisits, i) : \E s \in Of(revisits', i) : Covers(s, r)
        /\ i = at => \E s \in Of(revisits', i) : Covers(s, request)
    <3>1. revisits' = Join(revisits, at, request)
      BY <1>3 DEF NoteRevisit
    <3> QED
      BY <1>d, <1>t, <3>1, OfJoined
  <2>2. reuses' = reuses /\ groups' = groups
    BY <1>3 DEF NoteRevisit
  <2>3. CASE q \in EntriesOf(requests[i])
    BY <1>1, <1>s, <1>t, <2>1, <2>3, RequestTaken
  <2>4. CASE q \in Of(revisits, i)
    BY <1>1, <2>1, <2>4
  <2>5. CASE q \in Of(reuses, i) \cup UNION {Of(groups[n].owners, i) : n \in DOMAIN groups}
    BY <1>1, <1>2, <1>s, <2>2, <2>5
  <2> QED
    BY <2>3, <2>4, <2>5 DEF Asking
<1>4. CASE Reuse
  <2>1. /\ \A r \in Of(reuses, i) : \E s \in Of(reuses', i) : Covers(s, r)
        /\ i = at => \E s \in Of(reuses', i) : Covers(s, request)
    <3>1. reuses' = Join(reuses, at, request)
      BY <1>4 DEF Reuse
    <3> QED
      BY <1>d, <1>t, <3>1, OfJoined
  <2>2. revisits' = revisits /\ groups' = groups
    BY <1>4 DEF Reuse
  <2>3. CASE q \in EntriesOf(requests[i])
    BY <1>1, <1>s, <1>t, <2>1, <2>3, RequestTaken
  <2>4. CASE q \in Of(reuses, i)
    BY <1>1, <2>1, <2>4
  <2>5. CASE q \in Of(revisits, i) \cup UNION {Of(groups[n].owners, i) : n \in DOMAIN groups}
    BY <1>1, <1>2, <1>s, <2>2, <2>5
  <2> QED
    BY <2>3, <2>4, <2>5 DEF Asking
<1>5. CASE Group
  <2>1. revisits' = revisits /\ reuses' = reuses
    BY <1>5 DEF Group
  <2>j. ASSUME NEW n \in DOMAIN groups
        PROVE  /\ \A r \in Of(groups[n].owners, i) : \E s \in Of(Join(groups[n].owners, at, request), i) : Covers(s, r)
               /\ i = at => \E s \in Of(Join(groups[n].owners, at, request), i) : Covers(s, request)
    <3> DEFINE old == groups[n].owners
    <3>1. old \in Seq(Owned) /\ OwnersAtDepth(old, request.depth)
      BY <1>d, <1>t
    <3> HIDE DEF old
    <3>2. /\ \A r \in Of(old, i) : \E s \in Of(Join(old, at, request), i) : Covers(s, r)
          /\ i = at => \E s \in Of(Join(old, at, request), i) : Covers(s, request)
      BY <1>d, <1>t, <3>1, OfJoined
    <3> QED
      BY <3>2 DEF old
  <2>2. ASSUME NEW n \in DOMAIN groups, NEW r \in Of(groups[n].owners, i)
        PROVE  \E s \in after : Covers(s, r)
    <3>1. n \in DOMAIN groups' /\ groups'[n].owners \in {groups[n].owners, Join(groups[n].owners, at, request)}
      BY <1>5, GroupedRequest
    <3>2. \E s \in Of(groups'[n].owners, i) : Covers(s, r)
      BY <1>s, <2>2, <2>j, <3>1
    <3> QED
      BY <1>2, <3>1, <3>2
  <2>3. ASSUME i = at PROVE \E s \in after : Covers(s, request)
    <3>1. PICK n \in DOMAIN groups' :
            \/ groups'[n].owners = <<Owner(at, request)>>
            \/ n \in DOMAIN groups /\ groups'[n].owners = Join(groups[n].owners, at, request)
      BY <1>5, GroupedRequest
    <3>2. CASE groups'[n].owners = <<Owner(at, request)>>
      <4>1. request \in Of(<<Owner(at, request)>>, i)
        <5>1. 1 \in DOMAIN <<Owner(at, request)>> /\ <<Owner(at, request)>>[1] = Owner(at, request)
          OBVIOUS
        <5>2. Owner(at, request).root = i /\ Owner(at, request).request = request
          BY <2>3 DEF Owner
        <5> QED
          BY <5>1, <5>2 DEF Of
      <4> QED
        BY <1>2, <1>s, <3>2, <4>1
    <3>3. CASE n \in DOMAIN groups /\ groups'[n].owners = Join(groups[n].owners, at, request)
      BY <1>2, <2>3, <2>j, <3>3
    <3> QED
      BY <3>1, <3>2, <3>3
  <2>4. CASE q \in EntriesOf(requests[i])
    BY <1>1, <1>s, <1>t, <2>3, <2>4, RequestTaken
  <2>5. CASE q \in Of(revisits, i) \cup Of(reuses, i)
    BY <1>1, <1>s, <2>1, <2>5
  <2>6. CASE q \in UNION {Of(groups[n].owners, i) : n \in DOMAIN groups}
    BY <2>2, <2>6
  <2> QED
    BY <2>4, <2>5, <2>6 DEF Asking
<1> QED
    BY <1>3, <1>4, <1>5

\* What comes next changes only for the root whose frontier is being looked at.
LEMMA LeftStays ==
    ASSUME TypeOK, Headed, [Next]_vars, NEW i \in Batch, i # at \/ ~(Analyze \/ AddRequest \/ LeaveOut)
    PROVE  Left(i)' = Left(i) /\ (Looked(i)' => Looked(i))
<1>1. CASE UNCHANGED vars
    BY <1>1 DEF vars, Left, Looked
<1>2. CASE Analyze \/ AddRequest \/ LeaveOut
  <2>1. i # at /\ at' = at
    BY <1>2 DEF Analyze, AddRequest, LeaveOut
  <2> QED
    BY <2>1 DEF Left, Looked
<1>3. CASE phase' # "request" /\ (phase = "request" => found = {})
    BY <1>3 DEF Left, Looked
<1>4. CASE RefuseBatch \/ StartBatch \/ DiscoverFrontiers
    BY <1>2, <1>3, <1>4 DEF RefuseBatch, StartBatch, DiscoverFrontiers, Merge, EndMerge, Drop, Revisit,
                FirstVisit, Admitting, EndAdmit, EndRequests, NextRoot
<1>5. CASE GroupRequests
    BY <1>3, <1>5 DEF GroupRequests, Refuse, NoteRevisit, SkipReserved, RefuseOverLimit, NewlyAsked, Reuse,
                Group, Admitted, Grouping, NextRequests, ApplyRevisit, EndRevisits, ApplyReuse
<1>6. CASE FetchGroups
    BY <1>3, <1>6 DEF FetchGroups, StartFetches, RefuseRound, Launch, Complete, TakeResult, NextRound
<1> QED
    BY <1>1, <1>4, <1>5, <1>6 DEF Next

\* A root keeps following when each of its requests is still there, or covered by
\* another one, or has its answer.
LEMMA FollowedWhenMet ==
    ASSUME TypeOK, Stages, Acquired, Levels, Headed, Keyed, Reservations, Grounding, [Next]_vars,
           NEW i \in Batch, Followed(i), i # at \/ ~(Analyze \/ AddRequest \/ LeaveOut),
           ~LimitReported(walks'[i]) =>
              \A r \in Asking(i) :
                 \/ \E s \in Asking(i)' : Covers(s, r)
                 \/ Excused(walks'[i], r.key)
                 \/ Held(walks'[i], Looked(i)', Target(walks'[i], r.key), r.contexts, r.depth)
    PROVE  Followed(i)'
<1>1. TypeOK'
    BY TypeStep
<1>2. Left(i)' = Left(i) /\ (Looked(i)' => Looked(i))
    BY LeftStays
<1>3. ASSUME ~LimitReported(walks'[i])
      PROVE  \A r \in Asking(i) : Served(walks'[i], Looked(i)', Asking(i)', r.key, r.contexts, r.depth)
  <2> TAKE r \in Asking(i)
  <2>1. r.depth \in Nat
    BY AskingTyped DEF Wishes
  <2> DEFINE after == Asking(i)'
             v == walks'[i]
             m == Looked(i)'
  <2>2. (\E s \in after : Covers(s, r)) \/ Excused(v, r.key) \/ Held(v, m, Target(v, r.key), r.contexts, r.depth)
    BY <1>3
  <2> HIDE DEF after, v, m
  <2>3. \A s \in after : Covers(s, r) => s.key = r.key /\ r.contexts \subseteq s.contexts /\ s.depth <= r.depth
    BY <2>1 DEF Covers
  <2>4. Served(v, m, after, r.key, r.contexts, r.depth)
    BY <2>2, <2>3 DEF Served
  <2> QED
    BY <2>4 DEF after, v, m
<1>4. \/ LimitReported(walks'[i])
      \/ Following(walks'[i], Looked(i)', Asking(i)', made', limits'.depth, Left(i))
    BY <1>1, <1>2, <1>3, FollowedKept
<1> QED
    BY <1>2, <1>4 DEF Followed

\* The dependencies found by looking at a root's frontier come next for it.
LEMMA FollowedAnalyze ==
    ASSUME TypeOK, Stages, Acquired, Levels, Headed, Keyed, Reservations, Grounding, [Next]_vars,
           NEW i \in Batch, Followed(i), i = at, Analyze
    PROVE  Followed(i)'
<1>1. /\ phase = "analyze" /\ phase' = "request" /\ walks[i].frontier # <<>> /\ at' = at
      /\ walks' = [walks EXCEPT ![at] = AnalyzeNext(walk)] /\ found' = DependenciesOf(walks[i], made, limits.depth)
      /\ found = {} /\ UNCHANGED <<requests, revisits, reuses, groups, made, limits>>
    BY DEF Analyze, Headed, rigid, round, walk
<1>2. walks[i] \in Walk /\ walks'[i] \in Walk /\ walks'[i] = AnalyzeNext(walks[i]) /\ made \subseteq DOMAIN Declarations
    BY <1>1, TypeStep, BatchAssumption DEF TypeOK, walk
<1>3. Looked(i) = FALSE /\ Looked(i)' = TRUE /\ Left(i) = {} /\ Left(i)' = DependenciesOf(walks[i], made, limits.depth)
    BY <1>1 DEF Looked, Left
<1>4. Asking(i)' = Asking(i)
    BY <1>1 DEF Asking
<1>5. CASE LimitReported(walks[i])
  <2>1. LimitReported(walks'[i])
    BY <1>5, StepContinues, LimitStays DEF Continues
  <2> QED
    BY <2>1 DEF Followed
<1>6. CASE ~LimitReported(walks[i])
  <2>1. Following(walks[i], FALSE, Asking(i), made, limits.depth, {}) /\ Tracked(walks[i], FALSE, Roots[i])
    BY <1>3, <1>6 DEF Followed, Grounding
  <2>2. Wishes(Asking(i)) /\ Consistent(Roots[i])
    BY AskingTyped, RootsConsistent
  <2> DEFINE w == walks[i]
             v == walks'[i]
             asking == Asking(i)
             D == limits.depth
             o == Roots[i]
  <2>3. /\ w \in Walk /\ w.frontier # <<>> /\ v \in Walk /\ v = AnalyzeNext(w) /\ Wishes(asking)
        /\ Consistent(o) /\ Tracked(w, FALSE, o) /\ Following(w, FALSE, asking, made, D, {})
    BY <1>1, <1>2, <2>1, <2>2
  <2> HIDE DEF w, v, asking, D, o
  <2>4. Following(v, TRUE, asking, made, D, DependenciesOf(w, made, D))
    BY <1>2, <2>3, FollowingAnalyzed
  <2> QED
    BY <1>1, <1>3, <1>4, <2>4 DEF Followed, w, v, asking, D
<1> QED
    BY <1>5, <1>6

\* A dependency that has been looked at is asked for, or has its issue.
LEMMA FollowedRequests ==
    ASSUME TypeOK, Stages, Acquired, Levels, Headed, Keyed, Reservations, Grounding, [Next]_vars,
           NEW i \in Batch, Followed(i), i = at, AddRequest \/ LeaveOut
    PROVE  Followed(i)'
<1>t. /\ walks \in [Batch -> Walk] /\ requests \in [Batch -> Seq(Request)] /\ walks[i] \in Walk
      /\ found \subseteq DOMAIN Declarations /\ requests[i] \in Seq(Request)
    BY DEF TypeOK
<1>v. TypeOK'
    BY TypeStep
<1> DEFINE w == walks[i]
           v == walks'[i]
           after == Asking(i)'
           N == Len(w.discovered)
<1>1. /\ phase = "request" /\ phase' = "request" /\ at' = at /\ UNCHANGED <<revisits, reuses, groups, made, limits>>
      /\ \E n \in FirstOf(found) :
            /\ found' = found \ {n}
            /\ \/ Requested(n) /\ requests' = [requests EXCEPT ![at] = Merged(@, RequestFor(w, n))] /\ walks' = walks
               \/ ~Requested(n) /\ requests' = requests /\ walks' = [walks EXCEPT ![at] = NoteUnrequested(w, n)]
    BY DEF AddRequest, LeaveOut, round, rigid, walk
<1>2. PICK n \in FirstOf(found) :
            /\ found' = found \ {n}
            /\ \/ Requested(n) /\ requests' = [requests EXCEPT ![at] = Merged(@, RequestFor(w, n))] /\ walks' = walks
               \/ ~Requested(n) /\ requests' = requests /\ walks' = [walks EXCEPT ![at] = NoteUnrequested(w, n)]
    BY <1>1
<1> DEFINE q == RequestFor(w, n)
<1>3. n \in DOMAIN Declarations /\ n \in found /\ w.frontier # <<>>
    BY <1>t, <1>1 DEF FirstOf, Stages, walk
<1>4. N \in DOMAIN w.discovered /\ w.discovered[N] = Head(w.frontier)
    BY <1>1 DEF Headed, walk
<1>5. q \in Request
    BY <1>t, <1>3, RequestType
<1>6. AtDepth(requests[i], q.depth)
  <2>1. PICK e \in Nat : AtDepth(w.frontier, e) /\ AtDepth(requests[i], e + 1)
    BY DEF Levels, LevelAt
  <2>2. q.depth = e + 1
    BY <1>t, <1>3, <2>1, Tailed DEF AtDepth, RequestFor, Walk
  <2> QED
    BY <2>1, <2>2
<1>7. /\ \A r \in EntriesOf(requests[i]) : \E s \in EntriesOf(requests'[i]) : Covers(s, r)
      /\ Requested(n) => \E s \in EntriesOf(requests'[i]) : Covers(s, q)
  <2>1. CASE Requested(n) /\ requests' = [requests EXCEPT ![at] = Merged(@, q)]
    <3>1. requests'[i] = Merged(requests[i], q)
      BY <1>t, <2>1
    <3>2. requests[i] \in Seq(Request)
      BY <1>t
    <3> HIDE DEF q
    <3>3. /\ \A r \in EntriesOf(requests[i]) : \E s \in EntriesOf(Merged(requests[i], q)) : Covers(s, r)
          /\ \E s \in EntriesOf(Merged(requests[i], q)) : Covers(s, q)
      BY ONLY <3>2, <1>5, <1>6, MergedCovers
    <3> QED
      BY <3>1, <3>3
  <2>2. CASE ~Requested(n) /\ requests' = requests
    <3>1. \A r : Covers(r, r)
      BY DEF Covers
    <3> QED
      BY <2>2, <3>1
  <2> QED
    BY <1>2, <2>1, <2>2
<1>8. EntriesOf(requests'[i]) \subseteq after
    BY DEF Asking
<1>9. Looked(i)' = TRUE /\ Looked(i) = TRUE /\ Left(i) = found /\ Left(i)' = found \ {n}
    BY <1>1, <1>2 DEF Looked, Left
<1>10. v.discovered = w.discovered
    BY <1>9, DiscoveredStays
<1>c. \A s, r : Covers(s, r) /\ r.depth \in Nat => s.key = r.key /\ r.contexts \subseteq s.contexts /\ s.depth <= r.depth
    BY DEF Covers
<1>11. \A r \in Asking(i) : Served(v, TRUE, after, r.key, r.contexts, r.depth)
  <2> TAKE r \in Asking(i)
  <2>1. r.depth \in Nat
    BY AskingTyped DEF Wishes
  <2>2. \E s \in after : Covers(s, r)
    <3>1. CASE r \in EntriesOf(requests[i])
      BY <1>7, <1>8, <3>1
    <3>2. CASE r \notin EntriesOf(requests[i])
      <4>1. r \in after
        BY <1>1, <3>2 DEF Asking
      <4> QED
        BY <4>1 DEF Covers
    <3> QED
      BY <3>1, <3>2
  <2> HIDE DEF after, v
  <2> QED
    BY <1>c, <2>1, <2>2 DEF Served
<1>12. Wished(v, TRUE, after, N, n)
  <2>1. CASE Requested(n)
    <3>1. /\ q.key = Declarations[n].key /\ q.contexts = Declarations[n].contexts
          /\ q.depth = Head(w.frontier).depth + 1
      BY DEF RequestFor
    <3>2. \E s \in after : Covers(s, q)
      BY <1>7, <1>8, <2>1
    <3>3. q.depth \in Nat
      BY <1>5 DEF Request
    <3> HIDE DEF q, after, v, w, N
    <3> QED
      BY <1>4, <1>10, <1>c, <3>1, <3>2, <3>3 DEF Wished, Served
  <2>2. CASE ~Requested(n)
    <3>0. Declarations[n] \in Declaration
      BY <1>3, TraversalAssumption
    <3>1. Declarations[n].key \in Keys
      BY <3>0 DEF Declaration
    <3>2. Gate[Declarations[n].key] \in {"ignored", "unresolved"}
      BY <2>2, <3>1, TraversalAssumption DEF Requested, Gates
    <3>3. v = NoteUnrequested(w, n)
      BY <1>t, <1>2, <2>2
    <3> HIDE DEF v, after, N
    <3>4. Excused(v, Declarations[n].key)
      BY <1>t, <3>2, <3>3 DEF Excused, NoteUnrequested, Walk
    <3> QED
      BY <3>4 DEF Wished, Served
  <2> QED
    BY <2>1, <2>2
<1>13. LimitReported(v) \/ Following(v, TRUE, after, made', limits'.depth, found)
  <2>1. (Looked(i)' => Looked(i)) /\ \A r \in Asking(i) : Served(walks'[i], Looked(i)', Asking(i)', r.key, r.contexts, r.depth)
    BY <1>9, <1>11
  <2>2. \/ LimitReported(walks'[i])
        \/ Following(walks'[i], Looked(i)', Asking(i)', made', limits'.depth, Left(i))
    BY <1>v, <2>1, FollowedKept
  <2> QED
    BY <1>9, <2>2
<1>14. Len(v.discovered) = N
    BY <1>10
<1> HIDE DEF v, after, N, w
<1>15. LimitReported(v) \/ Following(v, TRUE, after, made', limits'.depth, found \ {n})
    BY <1>12, <1>13, <1>14, FollowingFewer
<1> QED
    BY <1>9, <1>15 DEF Followed, v, after

\* Most steps leave what a root asks for as it is.
LEMMA AskingStays ==
    ASSUME TypeOK, [Next]_vars, NEW i \in Batch, i # at \/ ~AddRequest,
           ~(Refuse \/ NoteRevisit \/ SkipReserved \/ RefuseOverLimit \/ Reuse \/ Group),
           ~(ApplyRevisit \/ ApplyReuse \/ RefuseRound \/ TakeResult)
    PROVE  Asking(i)' = Asking(i)
<1>1. ASSUME requests'[i] = requests[i], revisits' = revisits, reuses' = reuses,
             DOMAIN groups' = DOMAIN groups, \A n \in DOMAIN groups : groups'[n].owners = groups[n].owners
      PROVE  Asking(i)' = Asking(i)
  <2>1. UNION {Of(groups'[n].owners, i) : n \in DOMAIN groups'} = UNION {Of(groups[n].owners, i) : n \in DOMAIN groups}
    BY <1>1
  <2> QED
    BY <1>1, <2>1 DEF Asking, Of
<1>2. CASE UNCHANGED vars \/ RefuseBatch \/ StartBatch
    BY <1>1, <1>2 DEF vars, round, RefuseBatch, StartBatch
<1>3. CASE AddRequest
  <2>1. i # at /\ requests \in [Batch -> Seq(Request)] /\ at \in Batch
    BY <1>3 DEF TypeOK
  <2>2. requests'[i] = requests[i]
    BY <1>3, <2>1 DEF AddRequest
  <2> QED
    BY <1>1, <1>3, <2>2 DEF AddRequest, round
<1>4. CASE DiscoverFrontiers /\ ~AddRequest
    BY <1>1, <1>4 DEF DiscoverFrontiers, round, Merge, EndMerge, Drop, Revisit, FirstVisit, EndAdmit, Analyze,
                      LeaveOut, EndRequests, NextRoot
<1>5. CASE NextRequests \/ EndRevisits
    BY <1>1, <1>5 DEF round, NextRequests, EndRevisits
<1>6. CASE Launch \/ \E n \in DOMAIN groups : Complete(n)
  <2>1. DOMAIN groups' = DOMAIN groups /\ \A n \in DOMAIN groups : groups'[n].owners = groups[n].owners
    BY <1>6, StatusStep
  <2>2. requests' = requests /\ revisits' = revisits /\ reuses' = reuses
    BY <1>6 DEF Launch, Complete
  <2> QED
    BY <1>1, <2>1, <2>2
<1>7. CASE StartFetches \/ NextRound
    BY <1>1, <1>7 DEF round, StartFetches, NextRound
<1> QED
    BY <1>2, <1>3, <1>4, <1>5, <1>6, <1>7 DEF Next, GroupRequests, FetchGroups

\* A report that was given a limit names it.
LEMMA LimitNoted ==
    ASSUME NEW w \in Walk, NEW kind \in {"packages", "batch packages"}
    PROVE  LimitReported(ReportIssue(w, kind, None))
<1> DEFINE issue == [kind |-> kind, about |-> None]
<1>1. issue \in ReportIssue(w, kind, None).issues
    BY DEF ReportIssue, Walk
<1>2. issue.kind \in {"packages", "batch packages"}
    OBVIOUS
<1> QED
    BY <1>1, <1>2 DEF LimitReported

\* A request that is dropped has its issue, or the limit is named.
LEMMA DroppedMet ==
    ASSUME TypeOK, Keyed, Reservations, Refuse \/ SkipReserved \/ RefuseOverLimit,
           NEW i \in Batch, NEW r \in Asking(i)
    PROVE  r \in Asking(i)' \/ Excused(walks'[i], r.key) \/ LimitReported(walks'[i])
<1>t. /\ walks \in [Batch -> Walk] /\ walks[i] \in Walk /\ at \in Batch /\ requests[at] # <<>> /\ TakeRequest
      /\ requests[at] \in Seq(Request)
      /\ UNCHANGED <<revisits, reuses, groups>>
    BY DEF TypeOK, Refuse, SkipReserved, RefuseOverLimit, NewlyAsked, Grouping, round
<1>1. r \in Asking(i)' \/ (i = at /\ r = request)
  <2>1. CASE r \in EntriesOf(requests[i])
    BY <1>t, <2>1, RequestTaken DEF Asking
  <2>2. CASE r \notin EntriesOf(requests[i])
    BY <1>t, <2>2 DEF Asking, Of
  <2> QED
    BY <2>1, <2>2
<1>2. ASSUME i = at, r = request PROVE Excused(walks'[i], r.key) \/ LimitReported(walks'[i])
  <2>1. CASE Refuse
    <3>1. walks'[i] = ReportIssue(walks[i], "preparation", r.key)
      BY <1>t, <1>2, <2>1 DEF Refuse
    <3> QED
      BY <1>t, <3>1 DEF ReportIssue, Excused, Walk
  <2>2. CASE RefuseOverLimit
    <3>1. walks'[i] = ReportIssue(walks[i], "packages", None)
      BY <1>t, <1>2, <2>2 DEF RefuseOverLimit
    <3> QED
      BY <1>t, <3>1, LimitNoted
  <2>3. CASE SkipReserved
    <3>1. /\ walks'[i] = walks[i] /\ r.key \in walks[i].reserved /\ r.key \notin walks[i].acquired
          /\ r.key \notin asked[i]
      BY <1>2, <2>3 DEF SkipReserved, NewlyAsked, Revisitable, walk
    <3>2. ~Underway(i, r.key)
      BY <3>1 DEF Keyed, KeyedReuses, KeyedGroups, Committed, Underway, IsOwner
    <3>3. [kind |-> "fetch", about |-> r.key] \in walks[i].issues \/ LimitReported(walks[i])
      BY <3>1, <3>2 DEF Reservations, ReservedBy
    <3>4. CASE LimitReported(walks[i])
      BY <3>1, <3>4
    <3>5. CASE [kind |-> "fetch", about |-> r.key] \in walks[i].issues
      BY <3>1, <3>5 DEF Excused
    <3> QED
      BY <3>3, <3>4, <3>5
  <2> QED
    BY <2>1, <2>2, <2>3
<1> QED
    BY <1>1, <1>2

\* What waits to be applied for a root is asked, or was the one just applied.
LEMMA AppliedFirst ==
    ASSUME TypeOK, ApplyRevisit \/ ApplyReuse, NEW i \in Batch, NEW r \in Asking(i)
    PROVE  \/ r \in Asking(i)'
           \/ ApplyRevisit /\ revisits # <<>> /\ r = Head(revisits).request /\ i = Head(revisits).root
           \/ ApplyReuse /\ reuses # <<>> /\ r = Head(reuses).request /\ i = Head(reuses).root
<1>t. revisits \in Seq(Owned) /\ reuses \in Seq(Owned)
    BY DEF TypeOK
<1>a. /\ EntriesOf(requests[i]) \subseteq Asking(i)' \/ requests' # requests
      /\ Of(revisits', i) \subseteq Asking(i)' /\ Of(reuses', i) \subseteq Asking(i)'
      /\ UNION {Of(groups[n].owners, i) : n \in DOMAIN groups} \subseteq Asking(i)' \/ groups' # groups
    BY DEF Asking, Of
<1>1. CASE ApplyRevisit
  <2>1. /\ UNCHANGED <<requests, reuses, groups>> /\ revisits' = Tail(revisits) /\ revisits # <<>>
    BY <1>1 DEF ApplyRevisit
  <2>2. CASE r \in Of(revisits, i)
    BY <1>a, <1>1, <1>t, <2>1, <2>2, OfTailed
  <2>3. CASE r \notin Of(revisits, i)
    BY <1>a, <2>1, <2>3 DEF Asking
  <2> QED
    BY <2>2, <2>3
<1>2. CASE ApplyReuse
  <2>1. /\ UNCHANGED <<requests, revisits, groups>> /\ reuses' = Tail(reuses) /\ reuses # <<>>
    BY <1>2 DEF ApplyReuse
  <2>2. CASE r \in Of(reuses, i)
    BY <1>a, <1>2, <1>t, <2>1, <2>2, OfTailed
  <2>3. CASE r \notin Of(reuses, i)
    BY <1>a, <2>1, <2>3 DEF Asking
  <2> QED
    BY <2>2, <2>3
<1> QED
    BY <1>1, <1>2

\* A result that is applied answers the request, one way or the other.
LEMMA ApplyingMeets ==
    ASSUME TypeOK, Reservations, Grounding, NEW i \in Batch, ~Looked(i), NEW r \in Request,
           r.key \in walks[i].reserved, NEW outcome, NEW v, v = Apply(walks[i], r, outcome)
    PROVE  Excused(v, r.key) \/ Held(v, FALSE, Target(v, r.key), r.contexts, r.depth)
<1>1. walks[i] \in Walk
    BY DEF TypeOK
<1>2. CASE outcome = "fetched"
    BY <1>2, QueueingHolds DEF Apply
<1>3. CASE outcome # "fetched"
    BY <1>1, <1>3, AppliedResult DEF Excused
<1> QED
    BY <1>2, <1>3

\* Applying a revisit or a result there was answers the request.
LEMMA AppliedMet ==
    ASSUME TypeOK, Acquired, Keyed, Reservations, Grounding, ApplyRevisit \/ ApplyReuse,
           NEW i \in Batch, NEW r \in Asking(i)
    PROVE  \/ r \in Asking(i)'
           \/ Excused(walks'[i], r.key)
           \/ Held(walks'[i], Looked(i)', Target(walks'[i], r.key), r.contexts, r.depth)
<1>t. /\ walks \in [Batch -> Walk] /\ revisits \in Seq(Owned) /\ reuses \in Seq(Owned) /\ r \in Request
      /\ phase' # "request" /\ phase # "request"
    BY AskingTyped DEF TypeOK, ApplyRevisit, ApplyReuse
<1>l. ~Looked(i) /\ Looked(i)' = FALSE
    BY <1>t DEF Looked
<1>1. CASE ApplyRevisit /\ revisits # <<>> /\ r = Head(revisits).request /\ i = Head(revisits).root
  <2>1. walks'[i] = EnqueueRevisit(walks[i], r)
    BY <1>t, <1>1 DEF ApplyRevisit
  <2>2. 1 \in DOMAIN revisits /\ Head(revisits) = revisits[1]
    BY <1>t, <1>1
  <2>3. Revisitable(walks[i], r.key)
    BY <1>1, <2>2 DEF Acquired
  <2> QED
    BY <1>t, <1>l, <2>1, <2>3, QueueingHolds
<1>2. CASE ApplyReuse /\ reuses # <<>> /\ r = Head(reuses).request /\ i = Head(reuses).root
  <2>1. walks'[i] = Apply(walks[i], r, fetched[r.key])
    BY <1>t, <1>2 DEF ApplyReuse
  <2>2. 1 \in DOMAIN reuses /\ Head(reuses) = reuses[1]
    BY <1>t, <1>2
  <2>3. r.key \in walks[i].reserved
    BY <1>2, <2>2 DEF Keyed, KeyedReuses, Committed
  <2> QED
    BY <1>t, <1>l, <2>1, <2>3, ApplyingMeets
<1> QED
    BY <1>1, <1>2, AppliedFirst

\* Dropping the round names the limit for its owners and takes nothing from the others.
LEMMA RoundMet ==
    ASSUME TypeOK, RefuseRound, NEW i \in Batch, NEW r \in Asking(i)
    PROVE  r \in Asking(i)' \/ LimitReported(walks'[i])
<1>t. walks[i] \in Walk /\ UNCHANGED <<requests, revisits, reuses>>
    BY DEF TypeOK, RefuseRound
<1>1. CASE r \in EntriesOf(requests[i]) \cup Of(revisits, i) \cup Of(reuses, i)
    BY <1>t, <1>1 DEF Asking, Of
<1>2. CASE \E n \in DOMAIN groups : r \in Of(groups[n].owners, i)
  <2>1. \E n \in DOMAIN groups : \E m \in DOMAIN groups[n].owners : groups[n].owners[m].root = i
    BY <1>2 DEF Of
  <2>2. walks'[i] = ReportIssue(walks[i], "batch packages", None)
    BY <2>1 DEF RefuseRound
  <2> QED
    BY <1>t, <2>2, LimitNoted
<1> QED
    BY <1>1, <1>2 DEF Asking

\* A result that is taken answers what its owners asked.
LEMMA TakenMet ==
    ASSUME TypeOK, Keyed, Reservations, Grounding, TakeResult, NEW i \in Batch, NEW r \in Asking(i)
    PROVE  \/ r \in Asking(i)'
           \/ Excused(walks'[i], r.key)
           \/ Held(walks'[i], Looked(i)', Target(walks'[i], r.key), r.contexts, r.depth)
<1>t. r \in Request /\ phase' # "request" /\ phase # "request" /\ UNCHANGED <<requests, revisits, reuses>>
    BY AskingTyped DEF TypeOK, TakeResult
<1>l. ~Looked(i) /\ Looked(i)' = FALSE
    BY <1>t DEF Looked
<1>1. CASE r \in EntriesOf(requests[i]) \cup Of(revisits, i) \cup Of(reuses, i)
    BY <1>t, <1>1 DEF Asking, Of
<1>2. CASE \E n \in DOMAIN groups : n # 1 /\ r \in Of(groups[n].owners, i)
  <2>1. PICK n \in DOMAIN groups : n # 1 /\ r \in Of(groups[n].owners, i)
    BY <1>2
  <2>2. n - 1 \in DOMAIN groups' /\ groups'[n - 1] = groups[n]
    BY <2>1, GroupTaken
  <2>3. \E m \in DOMAIN groups' : r \in Of(groups'[m].owners, i)
    BY <2>1, <2>2
  <2> QED
    BY <2>3 DEF Asking, Of
<1>3. CASE r \in Of(groups[1].owners, i)
  <2>1. Head(groups) = groups[1]
    BY GroupTaken
  <2> DEFINE g == Head(groups)
             q == RequestOf(g, i)
  <2>2. PICK m \in DOMAIN g.owners : g.owners[m].root = i /\ r = g.owners[m].request
    BY <1>3, <2>1 DEF Of
  <2>3. r = q /\ r.key \in walks[i].reserved /\ walks'[i] = Apply(walks[i], r, g.status)
    BY <2>2, ResultReserved
  <2> QED
    BY <1>t, <1>l, <2>3, ApplyingMeets
<1> QED
    BY <1>1, <1>2, <1>3 DEF Asking

\* Every step keeps every root's walk following what it has found.
LEMMA FollowedStep ==
    ASSUME TypeOK, Stages, Acquired, Levels, Headed, Keyed, Reservations, Grounding, [Next]_vars,
           NEW i \in Batch, Followed(i)
    PROVE  Followed(i)'
<1>s. \A s : Covers(s, s)
    BY DEF Covers
<1>1. CASE i = at /\ (Analyze \/ AddRequest \/ LeaveOut)
    BY <1>1, FollowedAnalyze, FollowedRequests
<1>2. CASE i # at \/ ~(Analyze \/ AddRequest \/ LeaveOut)
  <2> DEFINE Met(r) == \/ \E s \in Asking(i)' : Covers(s, r)
                       \/ Excused(walks'[i], r.key)
                       \/ Held(walks'[i], Looked(i)', Target(walks'[i], r.key), r.contexts, r.depth)
  <2> SUFFICES ASSUME ~LimitReported(walks'[i]), NEW r \in Asking(i)
               PROVE  Met(r)
    BY <1>2, FollowedWhenMet
  <2>0. r \in Asking(i)' => Met(r)
    BY <1>s
  <2>a. /\ Excused(walks'[i], r.key) => Met(r)
        /\ Held(walks'[i], Looked(i)', Target(walks'[i], r.key), r.contexts, r.depth) => Met(r)
        /\ (\E s \in Asking(i)' : Covers(s, r)) => Met(r)
    OBVIOUS
  <2> HIDE DEF Met
  <2>1. CASE Refuse \/ SkipReserved \/ RefuseOverLimit
    BY <2>0, <2>a, <2>1, DroppedMet
  <2>2. CASE NoteRevisit \/ Reuse \/ Group
    BY <2>a, <2>2, GroupingCovers
  <2>3. CASE ApplyRevisit \/ ApplyReuse
    BY <2>0, <2>a, <2>3, AppliedMet
  <2>4. CASE RefuseRound
    BY <2>0, <2>4, RoundMet
  <2>5. CASE TakeResult
    BY <2>0, <2>a, <2>5, TakenMet
  <2>6. CASE AddRequest /\ i = at
    BY <1>2, <2>6
  <2>7. CASE /\ i # at \/ ~AddRequest
             /\ ~(Refuse \/ NoteRevisit \/ SkipReserved \/ RefuseOverLimit \/ Reuse \/ Group)
             /\ ~(ApplyRevisit \/ ApplyReuse \/ RefuseRound \/ TakeResult)
    <3>1. Asking(i)' = Asking(i)
      BY <2>7, AskingStays
    <3> QED
      BY <2>0, <3>1
  <2> QED
    BY <2>1, <2>2, <2>3, <2>4, <2>5, <2>6, <2>7
<1> QED
    BY <1>1, <1>2

-----------------------------------------------------------------------------
(* The limits are named only when they are exceeded.                           *)

\* What the roots of the batch have had to acquire so far.
AllDemanded == UNION {Demanded(walks[j], made, limits.depth) : j \in Batch}

\* It is finite, and so are its parts.
LEMMA FiniteAllDemanded ==
    /\ IsFiniteSet(AllDemanded) /\ Cardinality(AllDemanded) \in Nat
    /\ \A T \in SUBSET AllDemanded :
          IsFiniteSet(T) /\ Cardinality(T) \in Nat /\ Cardinality(T) <= Cardinality(AllDemanded)
<1>1. AllDemanded \subseteq Keys
    BY FiniteDemanded DEF AllDemanded
<1>2. IsFiniteSet(AllDemanded)
    BY <1>1, TraversalAssumption, FS_Subset
<1> QED
    BY <1>2, FS_Subset, FS_CardinalityType

\* It only grows.
LEMMA AllDemandedGrows ==
    ASSUME TypeOK, Stages, Acquired, Levels, Keyed, Reservations, [Next]_vars
    PROVE  /\ AllDemanded \subseteq AllDemanded'
           /\ Cardinality(AllDemanded) \in Nat /\ Cardinality(AllDemanded') \in Nat
           /\ Cardinality(AllDemanded) <= Cardinality(AllDemanded')
<1>1. AllDemanded \subseteq AllDemanded'
  <2>1. \A j \in Batch : Demanded(walks[j], made, limits.depth) \subseteq Demanded(walks'[j], made', limits'.depth)
    BY WantedStays
  <2> QED
    BY <2>1 DEF AllDemanded
<1>2. AllDemanded' \subseteq Keys
    BY FiniteDemanded DEF AllDemanded
<1>3. IsFiniteSet(AllDemanded')
    BY <1>2, TraversalAssumption, FS_Subset
<1> QED
    BY <1>1, <1>3, FiniteAllDemanded, FS_Subset, FS_CardinalityType

\* A limit comes into a report in three places only.
LEMMA LimitSources ==
    ASSUME TypeOK, [Next]_vars, NEW i \in Batch, ~LimitReported(walks[i]), LimitReported(walks'[i])
    PROVE  \/ FirstVisit /\ walk.count >= limits.packages
           \/ RefuseOverLimit
           \/ RefuseRound
<1>t. /\ walks \in [Batch -> Walk] /\ at \in Batch /\ walk = walks[at] /\ walks[i] \in Walk
      /\ limits.packages \in Nat /\ walk \in Walk
    BY TraversalAssumption DEF TypeOK, walk
<1>n. /\ walks' # walks
      /\ walks'[i] # walks[i]
    OBVIOUS
<1>1. CASE UNCHANGED vars \/ RefuseBatch \/ StartBatch \/ EndMerge \/ EndAdmit \/ AddRequest \/ NextRoot
    BY <1>n, <1>1 DEF vars, RefuseBatch, StartBatch, EndMerge, EndAdmit, AddRequest, NextRoot
<1>2. CASE Merge \/ Drop \/ Revisit
  <2>1. walks'[i] \in {walks[i], MergeNext(walks[i]), DropRevisit(walks[i]), AdmitRevisit(walks[i])}
    BY <1>t, <1>2 DEF Merge, Drop, Revisit
  <2> QED
    BY <1>t, <2>1, LimitNamed
<1>3. CASE FirstVisit
  <2>1. walk.count \in Nat
    BY <1>t DEF Walk
  <2>2. ASSUME walk.count < limits.packages PROVE FALSE
    <3>1. walks'[i] \in {walks[i], AdmitFirstVisit(walks[i])}
      BY <1>t, <1>3, <2>2 DEF FirstVisit
    <3> QED
      BY <1>t, <3>1, LimitNamed
  <2> QED
    BY <1>t, <1>3, <2>1, <2>2
<1>4. CASE Analyze \/ EndRequests
  <2>1. walks'[i] \in {walks[i], AnalyzeNext(walks[i]), LeaveFrontierHead(walks[i])}
    BY <1>t, <1>4 DEF Analyze, EndRequests
  <2> QED
    BY <1>t, <2>1, LimitNamed
<1>5. CASE LeaveOut
  <2>1. PICK n : walks' = [walks EXCEPT ![at] = NoteUnrequested(walk, n)]
    BY <1>5 DEF LeaveOut
  <2>2. walks'[i] \in {walks[i], NoteUnrequested(walks[i], n)}
    BY <1>t, <2>1
  <2> QED
    BY <1>t, <2>2, LimitNamed
<1>6. CASE Refuse \/ Reuse \/ Group
  <2>1. walks'[i] \in {walks[i], ReportIssue(walks[i], "preparation", request.key), ReserveKey(walks[i], request.key)}
    BY <1>t, <1>6 DEF Refuse, Reuse, Group
  <2> QED
    BY <1>t, <2>1, LimitNamed
<1>7. CASE NoteRevisit \/ SkipReserved \/ NextRequests \/ EndRevisits
    BY <1>n, <1>7 DEF NoteRevisit, SkipReserved, NextRequests, EndRevisits
<1>8. CASE ApplyRevisit
  <2>1. \E r : walks'[i] \in {walks[i], EnqueueRevisit(walks[i], r)}
    BY <1>t, <1>8 DEF ApplyRevisit
  <2> QED
    BY <1>t, <2>1, LimitNamed
<1>9. CASE ApplyReuse \/ TakeResult
  <2>1. \A r, outcome : ~LimitReported(Apply(walks[i], r, outcome))
    BY <1>t, LimitNamed DEF Apply
  <2>2. \E r, outcome : walks'[i] \in {walks[i], Apply(walks[i], r, outcome)}
    <3>1. CASE ApplyReuse
      BY <1>t, <3>1 DEF ApplyReuse
    <3>2. CASE TakeResult
      BY <3>2, TakeResultType
    <3> QED
      BY <1>9, <3>1, <3>2
  <2> QED
    BY <2>1, <2>2
<1>10. CASE StartFetches \/ Launch \/ (\E n \in DOMAIN groups : Complete(n)) \/ NextRound
    BY <1>n, <1>10 DEF StartFetches, Launch, Complete, NextRound
<1> QED
    BY <1>1, <1>2, <1>3, <1>4, <1>5, <1>6, <1>7, <1>8, <1>9, <1>10
    DEF Next, DiscoverFrontiers, GroupRequests, FetchGroups

\* A walk that is full has acquired, for the batch, as many packages as allowed.
LEMMA FullWalkExceeds ==
    ASSUME TypeOK, Stages, Reservations, Grounding, FirstVisit, walk.count >= limits.packages
    PROVE  Len(Roots) + Cardinality(AllDemanded) > limits.packages
<1> DEFINE p == Head(walk.merged)
<1>t. /\ at \in Batch /\ walk = walks[at] /\ walk \in Walk /\ limits.packages \in Nat
      /\ Len(Roots) \in Nat \ {0}
    BY TraversalAssumption, BatchAssumption DEF TypeOK, walk
<1>1. walk.merged # <<>> /\ ~Visited(walk, p) /\ phase = "admit"
    BY DEF FirstVisit, Admitting
<1>2. p \in Waiting(walk)
    BY <1>t, <1>1, AdmitPops
<1>3. p.source \notin walk.sources
    BY <1>1 DEF Visited
<1>4. Grounded(walk, Looked(at), Roots[at]) /\ Counted(walk) /\ Consistent(Roots[at])
    BY <1>t, RootsConsistent DEF Grounding, Tracked
<1> HIDE DEF p
<1>5. walk.count <= Cardinality(walk.acquired) /\ walk.count \in Nat
    BY <1>t, <1>2, <1>3, <1>4, CountWithinAcquired DEF Walk
<1>6. walk.acquired \subseteq AllDemanded
    BY <1>t DEF Reservations, ReservedBy, AllDemanded
<1> QED
    BY <1>t, <1>5, <1>6, FiniteAllDemanded

\* The same when the root at hand asks for one key more than it may reserve.
LEMMA RefusalExceeds ==
    ASSUME TypeOK, Keyed, Reservations, RefuseOverLimit
    PROVE  Len(Roots) + Cardinality(AllDemanded) > limits.packages
<1>t. /\ at \in Batch /\ walk = walks[at] /\ walk \in Walk /\ limits.packages \in Nat
      /\ Len(Roots) \in Nat \ {0} /\ requests[at] \in Seq(Request)
    BY TraversalAssumption, BatchAssumption DEF TypeOK, walk
<1>1. /\ requests[at] # <<>> /\ ~Revisitable(walk, request.key) /\ request.key \notin walk.reserved
      /\ ~Reservable(walk, limits.packages) /\ Gate[request.key] # "refused"
    BY DEF RefuseOverLimit, NewlyAsked, Grouping
<1>2. request \in Request /\ 1 \in DOMAIN requests[at] /\ request = requests[at][1]
    BY <1>t, <1>1, Tailed DEF request
<1>3. request.key \in Keys
    BY <1>2 DEF Request
<1>4. request.key \in Demanded(walk, made, limits.depth)
    BY <1>t, <1>1, <1>2, <1>3, DemandedWhenAsked DEF Keyed, KeyedRequests, Wanted, Revisitable
<1>5. walk.reserved \cup {request.key} \subseteq AllDemanded
    BY <1>t, <1>4 DEF Reservations, ReservedBy, AllDemanded
<1>6. /\ Cardinality(walk.reserved \cup {request.key}) = Cardinality(walk.reserved) + 1
      /\ Cardinality(walk.reserved) \in Nat
    BY <1>t, <1>1, FiniteReserved, FS_AddElement
<1>7. Cardinality(walk.reserved) + 1 <= Cardinality(AllDemanded)
    BY <1>5, <1>6, FiniteAllDemanded
<1> QED
    BY <1>t, <1>1, <1>6, <1>7, FiniteAllDemanded DEF Reservable

\* The same when the new fetches of a round do not fit beside those made.
LEMMA RoundExceeds ==
    ASSUME TypeOK, Keyed, Reservations, Shared, RefuseRound
    PROVE  Len(Roots) + Cardinality(AllDemanded) > limits.packages
<1> DEFINE All == AllDemanded
           Done == DOMAIN fetched
           New == All \ Done
           N == Len(groups)
           f == [n \in 1..N |-> groups[n].key]
<1>t. /\ groups \in Seq(FetchGroup) /\ limits.packages \in Nat /\ Len(Roots) \in Nat \ {0}
      /\ N \in Nat /\ DOMAIN groups = 1..N
    BY TraversalAssumption, BatchAssumption DEF TypeOK
<1>r. \A i \in Batch : walks[i].reserved \subseteq All
    BY DEF Reservations, ReservedBy, AllDemanded
<1>1. Done \subseteq All
    BY <1>r DEF Reservations
<1>2. ASSUME NEW n \in DOMAIN groups PROVE groups[n].key \in New
  <2>1. groups[n].owners \in Seq(Owned) /\ groups[n].owners # <<>>
    BY GroupOwners DEF Keyed, KeyedGroups
  <2>2. 1 \in DOMAIN groups[n].owners /\ groups[n].owners[1] \in Owned
    BY <2>1
  <2>3. groups[n].owners[1].root \in Batch
    BY <2>2 DEF Owned
  <2>4. groups[n].key \in walks[groups[n].owners[1].root].reserved
    BY <2>2 DEF Keyed, KeyedGroups, Committed
  <2>5. groups[n].key \in All
    BY <1>r, <2>3, <2>4
  <2>6. groups[n].key \notin Done
    BY DEF Shared
  <2> QED
    BY <2>5, <2>6
<1>3. IsFiniteSet(All) /\ Cardinality(All) \in Nat /\ Cardinality(Done) \in Nat /\ IsFiniteSet(Done)
    BY <1>1, FiniteAllDemanded
<1>4. IsFiniteSet(New) /\ Cardinality(New) = Cardinality(All) - Cardinality(Done)
  <2>1. All \cap Done = Done
    BY <1>1
  <2> HIDE DEF All, Done
  <2> QED
    BY <1>3, <2>1, FS_Difference
<1>5. N <= Cardinality(New)
  <2>1. f \in [1..N -> New] /\ \A i, j \in 1..N : i # j => f[i] # f[j]
    BY <1>2, <1>t DEF Shared
  <2> HIDE DEF f, New, N
  <2> QED
    BY <1>4, <1>t, <2>1, Pigeons
<1>6. Len(Roots) + Cardinality(Done) + N > limits.packages
  <2>1. ~(Len(Roots) + Cardinality(Done) + N <= limits.packages)
    BY DEF RefuseRound, WithinBatchLimit, UniqueWork
  <2> HIDE DEF Done, N
  <2> QED
    BY <1>t, <1>3, <2>1
<1> HIDE DEF All, Done, New, N, f
<1>7. Len(Roots) + Cardinality(All) > limits.packages
    BY <1>t, <1>3, <1>4, <1>5, <1>6
<1> QED
    BY <1>7 DEF All

\* A limit is named only when it is exceeded, and stays so.
LEMMA JustifiedStep ==
    ASSUME TypeOK, Stages, Acquired, Levels, Shared, Keyed, Reservations, Grounding, LimitOnlyWhenExceeded,
           [Next]_vars
    PROVE  LimitOnlyWhenExceeded'
<1> SUFFICES ASSUME NEW i \in Batch, LimitReported(walks'[i])
             PROVE  Len(Roots) + Cardinality(AllDemanded') > limits'.packages
    BY DEF LimitOnlyWhenExceeded, AllDemanded
<1>1. limits' = limits /\ limits.packages \in Nat /\ Len(Roots) \in Nat
    BY StepContinues, TraversalAssumption, BatchAssumption DEF TypeOK
<1>2. Len(Roots) + Cardinality(AllDemanded) > limits.packages
  <2>1. CASE LimitReported(walks[i])
    BY <2>1 DEF LimitOnlyWhenExceeded, AllDemanded
  <2>2. CASE ~LimitReported(walks[i])
    BY <2>2, LimitSources, FullWalkExceeds, RefusalExceeds, RoundExceeds
  <2> QED
    BY <2>1, <2>2
<1> QED
    BY <1>1, <1>2, AllDemandedGrows

\* Nothing is named at first.
LEMMA JustifiedInit == Init => LimitOnlyWhenExceeded
<1> SUFFICES ASSUME Init, NEW i \in Batch PROVE ~LimitReported(walks[i])
    BY DEF LimitOnlyWhenExceeded
<1>1. walks[i].issues = {}
    BY NewIsShallow DEF Init
<1> QED
    BY <1>1 DEF LimitReported

-----------------------------------------------------------------------------
(* The end of a batch.                                                         *)

\* A round in which something is asked for has a frontier, and after a round
\* without one nothing is left to ask.
Alert ==
    /\ phase \in {"analyze", "request"} /\ walk.frontier # <<>> => active
    /\ phase \in Discovering \cup {"done"} => \A i \in Batch : requests[i] # <<>> => active
    /\ phase = "done" => ~active

\* No step leaves a round's requests without a frontier.
LEMMA AlertStep == TypeOK /\ Stages /\ Alert /\ [Next]_vars => Alert'
<1> SUFFICES ASSUME TypeOK, Stages, Alert, [Next]_vars PROVE Alert'
    OBVIOUS
<1>t. /\ walks \in [Batch -> Walk] /\ at \in Batch /\ walk = walks[at]
      /\ requests \in [Batch -> Seq(Request)] /\ active \in BOOLEAN
    BY DEF TypeOK, walk
<1>1. CASE UNCHANGED vars
    BY <1>1 DEF vars, Alert, walk
<1>2. CASE RefuseBatch \/ StartBatch
    BY <1>2 DEF RefuseBatch, StartBatch, Alert, Stages, Discovering
<1>3. CASE Merge \/ EndMerge \/ Drop \/ Revisit \/ FirstVisit
    BY <1>3 DEF Merge, EndMerge, Drop, Revisit, FirstVisit, Admitting, Alert, Discovering
<1>4. CASE EndAdmit
    BY <1>4 DEF EndAdmit, Alert, Discovering, walk
<1>5. CASE Analyze
    BY <1>5 DEF Analyze, Alert, Discovering
<1>6. CASE AddRequest
  <2>1. active
    BY <1>6 DEF AddRequest, Alert, Stages
  <2> QED
    BY <1>6, <2>1 DEF AddRequest, Alert
<1>7. CASE LeaveOut
  <2>1. active
    BY <1>7 DEF LeaveOut, Alert, Stages
  <2> QED
    BY <1>7, <2>1 DEF LeaveOut, Alert
<1>8. CASE EndRequests
  <2>1. active
    BY <1>8 DEF EndRequests, Alert, Stages
  <2> QED
    BY <1>8, <2>1 DEF EndRequests, Alert
<1>9. CASE NextRoot
    BY <1>9 DEF NextRoot, Alert, Discovering
<1>10. CASE GroupRequests
  <2>1. phase' \in {"group", "revisit", "reuse"}
    BY <1>10 DEF GroupRequests, Refuse, NoteRevisit, SkipReserved, RefuseOverLimit, NewlyAsked, Reuse, Group,
                 Admitted, Grouping, NextRequests, ApplyRevisit, EndRevisits, ApplyReuse
  <2> QED
    BY <2>1 DEF Alert, Discovering
<1>11. CASE FetchGroups
  <2>1. phase' = "fetch" \/ (NextRound /\ phase = "fetch" /\ phase' = "merge" /\ requests' = requests)
    BY <1>11 DEF FetchGroups, StartFetches, RefuseRound, Launch, Complete, TakeResult, NextRound
  <2> QED
    BY <2>1 DEF Alert, Discovering, Stages
<1> QED
    BY <1>1, <1>2, <1>3, <1>4, <1>5, <1>6, <1>7, <1>8, <1>9, <1>10, <1>11 DEF Next, DiscoverFrontiers

\* What else holds of the walks: each part is inductive with those before it.
Faithful ==
    /\ Headed /\ Keyed /\ Reservations /\ Grounding
    /\ \A i \in Batch : Followed(i)
    /\ LimitOnlyWhenExceeded
    /\ Alert

\* A batch that ends followed everything each root's walk found.
LEMMA InvImpliesWhole == IInv /\ Faithful => WholeOrLimited
<1> SUFFICES ASSUME IInv, Faithful PROVE WholeOrLimited
    OBVIOUS
<1>1. ASSUME phase = "done", NEW i \in Batch, ~LimitReported(walks[i])
      PROVE  ClosedUnderDependencies(walks[i], made, limits.depth)
  <2>1. /\ walks[i] \in Walk /\ walks[i].queue = <<>> /\ walks[i].merged = <<>> /\ walks[i].frontier = <<>>
        /\ requests[i] = <<>> /\ revisits = <<>> /\ reuses = <<>> /\ groups = <<>>
    BY <1>1 DEF IInv, TypeOK, Stages, Levels, Faithful, Alert, Unmerged, Discovering
  <2>2. Looked(i) = FALSE /\ Left(i) = {}
    BY <1>1 DEF Looked, Left
  <2>3. Asking(i) = {}
    <3>1. EntriesOf(<<>>) = {} /\ Of(<<>>, i) = {} /\ DOMAIN <<>> = {}
      BY DEF EntriesOf, Of
    <3>2. UNION {Of(groups[n].owners, i) : n \in DOMAIN groups} = {}
      BY <2>1, <3>1
    <3> QED
      BY <2>1, <3>1, <3>2 DEF Asking
  <2>4. Following(walks[i], FALSE, {}, made, limits.depth, {})
    BY <1>1, <2>2, <2>3 DEF Faithful, Followed
  <2> QED
    BY <2>1, <2>4, FollowedIsClosed
<1>2. IndependentClosures
    BY <1>1 DEF IndependentClosures
<1> QED
    BY <1>2 DEF WholeOrLimited, Faithful

\* engine/traversal/batch.rs: sharing fetches among the roots takes nothing from
\* any report.  When a batch is done, each root's report has followed every
\* dependency it found above the depth limit, under every context and no deeper
\* than one level below its finder, or has an issue about it, or names a package
\* limit; and a limit is named only when the roots and what they ask for together
\* are more packages than it allows.
THEOREM BatchWholeness == Spec => []WholeOrLimited
<1>1. Init => IInv /\ Faithful
  <2>1. Init => IInv
    BY TypeInit, LevelsInit, ReportedInit, AcquiredInit, SharedInit DEF IInv
  <2>2. Init => Alert
    BY DEF Init, Alert, Discovering
  <2> QED
    BY <2>1, <2>2, AskedInit, GroundingInit, FollowedInit, JustifiedInit DEF Faithful
<1>2. IInv /\ Faithful /\ [Next]_vars => (IInv /\ Faithful)'
  <2> SUFFICES ASSUME IInv, Faithful, [Next]_vars PROVE (IInv /\ Faithful)'
    OBVIOUS
  <2>1. IInv'
    BY TypeStep, LevelsStep, ReportedStep, AcquiredStep, SharedStep DEF IInv
  <2>2. Headed' /\ Keyed' /\ Reservations' /\ Grounding'
    BY HeadedStep, KeyedStep, ReservationsStep, GroundingStep DEF IInv, Faithful
  <2>3. \A i \in Batch : Followed(i)'
    BY FollowedStep DEF IInv, Faithful
  <2>4. LimitOnlyWhenExceeded' /\ Alert'
    BY JustifiedStep, AlertStep DEF IInv, Faithful
  <2> QED
    BY <2>1, <2>2, <2>3, <2>4 DEF Faithful
<1>3. IInv /\ Faithful => WholeOrLimited
    BY InvImpliesWhole
<1> QED
    BY <1>1, <1>2, <1>3, PTL DEF Spec
==============================================================================
