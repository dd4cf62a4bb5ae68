----------------------- MODULE SingleAnalysis_proofs -----------------------
(* Proofs about the analysis of one project, for every graph of declarations,  *)
(* every set of limits and every number of threads: the report has each        *)
(* package once, no key is fetched twice, max_packages is kept, and the loop   *)
(* only ends with an empty queue.                                              *)
EXTENDS SingleAnalysis, Traversal_proofs

\* Where entries can be in each phase of the loop.
Stages ==
    /\ phase \notin {"merge", "admit"} => walk.merged = <<>>
    /\ phase \notin {"admit", "analyze", "request"} => walk.frontier = <<>>
    /\ phase = "request" => walk.frontier # <<>>
    /\ phase \notin {"analyze", "request", "prepare"} => requests = <<>>
    /\ phase \notin {"prepare", "reserve"} => groups = <<>>
    /\ phase \notin {"reserve", "fetch"} => fetches = <<>>

\* One level at a time: what is merged or in the frontier has one depth d, what
\* was requested from it the next, and the queue holds a single level; nothing
\* reported or searched is deeper than d.
LevelAt(d) ==
    /\ AtDepth(walk.merged, d) /\ AtDepth(walk.frontier, d)
    /\ AtDepth(requests, d + 1) /\ AtDepth(groups, d + 1) /\ AtDepth(fetches, d + 1)
    /\ phase = "merge" => AtDepth(walk.queue, d)
    /\ phase \in {"reserve", "fetch"} => AtDepth(walk.queue, d + 1)

Levels ==
    /\ phase \in {"admit", "analyze", "request", "prepare", "done"} => walk.queue = <<>>
    /\ \E d \in Nat : LevelAt(d) /\ NoDeeper(walk, phase = "request", d)

\* Each package once, and no more directories reported than allowed.
Reported ==
    /\ Once(walk, phase = "request")
    /\ Counted(walk)
    /\ Cardinality(ReportedSources(walk)) <= limits.packages

\* Every fetch has a reserved key of its own, a waiting one has not begun, and
\* the reserved keys and the root fit into max_packages.
Accounted ==
    /\ \A m, n \in DOMAIN attempts : m # n => attempts[m] # attempts[n]
    /\ \A m \in DOMAIN attempts : attempts[m] \in walk.reserved
    /\ \A i \in DOMAIN fetches : fetches[i].key \in walk.reserved
    /\ \A i, j \in DOMAIN fetches : i # j => fetches[i].key # fetches[j].key
    /\ \A i \in DOMAIN fetches, m \in DOMAIN attempts :
          fetches[i].status = "waiting" => attempts[m] # fetches[i].key
    /\ walk.reserved # {} => Cardinality(walk.reserved) + 1 <= limits.packages

IInv == TypeOK /\ Stages /\ Levels /\ Reported /\ Accounted

-----------------------------------------------------------------------------
(* Type correctness, with the stages.                                          *)

\* An analysis begins with its root queued and nothing under way.
LEMMA TypeInit == Init => TypeOK /\ Stages
<1> SUFFICES ASSUME Init PROVE TypeOK /\ Stages
    OBVIOUS
<1>1. walk \in Walk
    BY SingleAssumption, NewWalkType DEF Init, Metadata
<1>2. <<>> \in Seq(Request) /\ <<>> \in Seq(Fetch) /\ <<>> \in Seq(Keys)
    OBVIOUS
<1>3. walk.merged = <<>> /\ walk.frontier = <<>>
    BY DEF Init, NewWalk
<1> QED
    BY <1>1, <1>2, <1>3 DEF Init, TypeOK, Stages, Phases

\* Grouping keeps the groups a sequence of requests.
LEMMA GroupType ==
    ASSUME TypeOK, Group
    PROVE  groups' \in Seq(Request) /\ requests' \in Seq(Request)
<1> DEFINE r == Head(requests)
           alike == {i \in DOMAIN groups : groups[i].key = r.key}
           widened == [i \in DOMAIN groups |->
                         IF i \in alike
                         THEN [groups[i] EXCEPT !.contexts = @ \cup r.contexts]
                         ELSE groups[i]]
<1>1. requests \in Seq(Request) /\ groups \in Seq(Request) /\ requests # <<>>
    BY DEF TypeOK, Group, Preparing
<1>2. r \in Request /\ Tail(requests) \in Seq(Request)
    BY <1>1, Tailed
<1>3. Append(groups, r) \in Seq(Request)
    BY <1>1, <1>2, Appended
<1>4. widened \in Seq(Request)
  <2>1. \A i \in DOMAIN groups : groups[i] \in Request
    BY <1>1
  <2>2. \A i \in DOMAIN groups : widened[i] \in Request
    BY <1>2, <2>1 DEF Request
  <2>3. DOMAIN widened = DOMAIN groups /\ widened = [i \in DOMAIN groups |-> widened[i]]
    OBVIOUS
  <2> HIDE DEF widened
  <2> QED
    BY <1>1, <2>2, <2>3, Rewritten
<1> QED
    BY <1>2, <1>3, <1>4 DEF Group

\* Every step of the analysis keeps the types, and what each stage leaves behind.
LEMMA TypeStep == TypeOK /\ Stages /\ [Next]_vars => (TypeOK /\ Stages)'
<1> SUFFICES ASSUME TypeOK, Stages, [Next]_vars PROVE (TypeOK /\ Stages)'
    OBVIOUS
<1>t. /\ walk \in Walk /\ requests \in Seq(Request) /\ groups \in Seq(Request)
      /\ fetches \in Seq(Fetch) /\ attempts \in Seq(Keys) /\ found \subseteq DOMAIN Declarations
      /\ made \in Projects /\ limits \in Limits /\ phase \in Phases
    BY DEF TypeOK
<1>e. <<>> \in Seq(Request) /\ <<>> \in Seq(Fetch)
    OBVIOUS
<1>1. CASE UNCHANGED vars
    BY <1>1 DEF vars, TypeOK, Stages
<1>2. CASE Merge
  <2>1. walk' \in Walk
    BY <1>t, <1>2, MergeNextType DEF Merge
  <2>2. walk'.frontier = walk.frontier
    BY <1>t, <1>2 DEF Merge, MergeNext, Walk
  <2> QED
    BY <1>2, <2>1, <2>2 DEF Merge, TypeOK, Stages
<1>3. CASE EndMerge
    BY <1>3 DEF EndMerge, TypeOK, Stages, Phases
<1>4. CASE Drop \/ Revisit \/ FirstVisit \/ OverLimit
  <2>1. walk' \in Walk
    BY <1>t, <1>4, AdmitTypes DEF Drop, Revisit, FirstVisit, OverLimit, Admitting
  <2> QED
    BY <1>4, <2>1 DEF Drop, Revisit, FirstVisit, OverLimit, Admitting, TypeOK, Stages
<1>5. CASE EndAdmit
    BY <1>5 DEF EndAdmit, TypeOK, Stages, Phases
<1>6. CASE Analyze
  <2>1. walk' \in Walk /\ walk'.frontier = walk.frontier /\ walk'.merged = walk.merged
    BY <1>t, <1>6, AnalyzeTypes, LevelUntouched DEF Analyze, SameLevel
  <2>2. found' \subseteq DOMAIN Declarations
    BY <1>t, <1>6, SingleAssumption DEF Analyze, DependenciesOf, DeclaredBy
  <2> QED
    BY <1>6, <2>1, <2>2 DEF Analyze, TypeOK, Stages, Phases
<1>7. CASE AddRequest
  <2>1. PICK i \in FirstOf(found) : requests' = Append(requests, RequestFor(walk, i)) /\ found' = found \ {i}
    BY <1>7 DEF AddRequest
  <2>2. walk.frontier # <<>> /\ i \in DOMAIN Declarations
    BY <1>t, <1>7 DEF AddRequest, FirstOf, Stages
  <2>3. requests' \in Seq(Request)
    BY <1>t, <2>1, <2>2, RequestType, Appended
  <2> QED
    BY <1>7, <2>1, <2>3 DEF AddRequest, TypeOK, Stages
<1>8. CASE LeaveOut
  <2>1. PICK i \in FirstOf(found) : walk' = NoteUnrequested(walk, i) /\ found' = found \ {i}
    BY <1>8 DEF LeaveOut
  <2>2. walk.frontier # <<>> /\ i \in DOMAIN Declarations
    BY <1>t, <1>8 DEF LeaveOut, FirstOf, Stages
  <2>3. walk' \in Walk /\ walk'.frontier = walk.frontier /\ walk'.merged = walk.merged
    BY <1>t, <2>1, <2>2, RequestType, LevelUntouched DEF SameLevel
  <2> QED
    BY <1>8, <2>1, <2>3 DEF LeaveOut, TypeOK, Stages
<1>9. CASE EndRequests
  <2>1. walk' \in Walk
    BY <1>t, <1>9, AnalyzeTypes DEF EndRequests, Stages
  <2>2. walk'.merged = walk.merged
    BY <1>t, <1>9 DEF EndRequests, LeaveFrontierHead, Walk
  <2> QED
    BY <1>9, <2>1, <2>2 DEF EndRequests, TypeOK, Stages, Phases
<1>10. CASE EndAnalyze
    BY <1>10 DEF EndAnalyze, TypeOK, Stages, Phases
<1>11. CASE Refuse
  <2>1. Head(requests) \in Request /\ requests' \in Seq(Request)
    BY <1>t, <1>11, Tailed DEF Refuse, Preparing
  <2>2. walk' = ReportIssue(walk, "preparation", Head(requests).key)
    BY <1>11 DEF Refuse
  <2>3. walk' \in Walk
    BY <1>t, <2>1, <2>2, AcquireTypes DEF Request
  <2>4. walk'.frontier = walk.frontier /\ walk'.merged = walk.merged
    BY <1>t, <2>2, LevelUntouched DEF SameLevel
  <2> QED
    BY <1>11, <2>1, <2>3, <2>4 DEF Refuse, Preparing, TypeOK, Stages
<1>12. CASE Group
    BY <1>12, GroupType DEF Group, Preparing, TypeOK, Stages
<1>13. CASE EndPrepare
    BY <1>13 DEF EndPrepare, TypeOK, Stages, Phases
<1>14. CASE ReuseAcquisition
  <2>1. Head(groups) \in Request /\ groups' \in Seq(Request)
    BY <1>t, <1>14, Tailed DEF ReuseAcquisition, Reserving
  <2>2. walk' \in Walk
    BY <1>t, <1>14, <2>1, AcquireTypes DEF ReuseAcquisition, Request
  <2>3. walk'.frontier = walk.frontier /\ walk'.merged = walk.merged
    BY <1>t, <1>14 DEF ReuseAcquisition, EnqueueRevisit, Walk
  <2> QED
    BY <1>14, <2>1, <2>2, <2>3 DEF ReuseAcquisition, Reserving, TypeOK, Stages
<1>15. CASE SkipFailed
  <2>1. groups' \in Seq(Request)
    BY <1>t, <1>15, Tailed DEF SkipFailed, Reserving
  <2> QED
    BY <1>15, <2>1 DEF SkipFailed, Reserving, TypeOK, Stages
<1>16. CASE Reserve
  <2> DEFINE g == Head(groups)
             f == [key |-> g.key, variant |-> g.variant, contexts |-> g.contexts,
                   depth |-> g.depth, status |-> "waiting"]
  <2>1. g \in Request /\ groups' \in Seq(Request)
    BY <1>t, <1>16, Tailed DEF Reserve, Reserving
  <2>2. walk' \in Walk
    BY <1>t, <1>16, <2>1, AcquireTypes DEF Reserve, Request
  <2>3. walk'.frontier = walk.frontier /\ walk'.merged = walk.merged
    BY <1>t, <1>16, LevelUntouched DEF Reserve, SameLevel
  <2>4. f \in Fetch
    BY <2>1 DEF Request, Fetch
  <2>5. fetches' \in Seq(Fetch)
    BY <1>t, <1>16, <2>4, Appended DEF Reserve
  <2> QED
    BY <1>16, <2>1, <2>2, <2>3, <2>5 DEF Reserve, Reserving, TypeOK, Stages
<1>17. CASE RefuseOverLimit
  <2>1. Head(groups) \in Request
    BY <1>t, <1>17, Tailed DEF RefuseOverLimit, Reserving
  <2>2. walk' = ReportIssue(walk, "packages", None)
    BY <1>17 DEF RefuseOverLimit
  <2>3. walk' \in Walk
    BY <1>t, <2>1, <2>2, AcquireTypes DEF Request
  <2>4. walk'.frontier = walk.frontier /\ walk'.merged = walk.merged
    BY <1>t, <2>2, LevelUntouched DEF SameLevel
  <2> QED
    BY <1>17, <1>e, <2>3, <2>4 DEF RefuseOverLimit, Reserving, TypeOK, Stages
<1>18. CASE EndReserve
    BY <1>18 DEF EndReserve, TypeOK, Stages, Phases
<1>19. CASE Launch
  <2>1. PICK i \in NextToLaunch(fetches, Threads) :
           /\ fetches' = [fetches EXCEPT ![i].status = "running"]
           /\ attempts' = Append(attempts, fetches[i].key)
    BY <1>19 DEF Launch
  <2>2. i \in DOMAIN fetches /\ fetches[i] \in Fetch
    BY <1>t, <2>1 DEF NextToLaunch, Window
  <2>3. [fetches[i] EXCEPT !.status = "running"] \in Fetch /\ fetches[i].key \in Keys
    BY <2>2 DEF Fetch
  <2>4. fetches' \in Seq(Fetch) /\ attempts' \in Seq(Keys)
    BY <1>t, <2>1, <2>2, <2>3, Appended, ExceptSeq
  <2> QED
    BY <1>19, <2>4 DEF Launch, TypeOK, Stages
<1>20. ASSUME NEW i \in DOMAIN fetches, Complete(i) PROVE (TypeOK /\ Stages)'
  <2>1. PICK outcome \in {"fetched", "failed"} : fetches' = [fetches EXCEPT ![i].status = outcome]
    BY <1>20 DEF Complete
  <2>2. fetches[i] \in Fetch
    BY <1>t, <1>20
  <2>3. [fetches[i] EXCEPT !.status = outcome] \in Fetch
    BY <2>2 DEF Fetch
  <2>4. fetches' \in Seq(Fetch)
    BY <1>t, <1>20, <2>1, <2>3, ExceptSeq
  <2> QED
    BY <1>20, <2>4 DEF Complete, TypeOK, Stages
<1>21. CASE TakeFetched
  <2>1. Head(fetches) \in Fetch /\ fetches' \in Seq(Fetch)
    BY <1>t, <1>21, Tailed DEF TakeFetched
  <2>2. walk' \in Walk
    BY <1>t, <1>21, <2>1, AcquireTypes DEF TakeFetched, Fetch
  <2>3. walk'.frontier = walk.frontier /\ walk'.merged = walk.merged
    BY <1>t, <1>21 DEF TakeFetched, EnqueueAcquired, Walk
  <2> QED
    BY <1>21, <2>1, <2>2, <2>3 DEF TakeFetched, TypeOK, Stages
<1>22. CASE TakeFailed
  <2>1. Head(fetches) \in Fetch /\ fetches' \in Seq(Fetch)
    BY <1>t, <1>22, Tailed DEF TakeFailed
  <2>2. walk' = ReportIssue(walk, "fetch", Head(fetches).key)
    BY <1>22 DEF TakeFailed
  <2>3. walk' \in Walk
    BY <1>t, <2>1, <2>2, AcquireTypes DEF Fetch
  <2>4. walk'.frontier = walk.frontier /\ walk'.merged = walk.merged
    BY <1>t, <2>2, LevelUntouched DEF SameLevel
  <2> QED
    BY <1>22, <2>1, <2>3, <2>4 DEF TakeFailed, TypeOK, Stages
<1>23. CASE EndFetch
    BY <1>23 DEF EndFetch, TypeOK, Stages, Phases
<1> QED
    BY <1>1, <1>2, <1>3, <1>4, <1>5, <1>6, <1>7, <1>8, <1>9, <1>10, <1>11, <1>12, <1>13, <1>14,
       <1>15, <1>16, <1>17, <1>18, <1>19, <1>20, <1>21, <1>22, <1>23
    DEF Next, NextFrontier, AnalyzeFrontier, FetchDependencies

-----------------------------------------------------------------------------
(* Levels: the queue holds one depth at a time, so that the first entry of     *)
(* another depth never stops a frontier from being filled.                     *)

\* The walk begins at depth 0.
LEMMA LevelsInit == Init => Levels
<1> SUFFICES ASSUME Init PROVE Levels
    OBVIOUS
<1>1. LevelAt(0)
    BY DEF Init, NewWalk, LevelAt, AtDepth
<1>2. NoDeeper(walk, FALSE, 0)
    BY NewIsShallow DEF Init
<1> QED
    BY <1>1, <1>2 DEF Init, Levels

\* No step brings anything deeper than the level into the report or the frontier.
LEMMA ShallowStep ==
    ASSUME TypeOK, Stages, [Next]_vars, NEW d \in Nat, LevelAt(d), NoDeeper(walk, phase = "request", d)
    PROVE  NoDeeper(walk', phase' = "request", d)
<1>t. walk \in Walk /\ groups \in Seq(Request) /\ fetches \in Seq(Fetch)
    BY DEF TypeOK
<1>0. ASSUME SameEntries(walk, walk'), phase' = "request" <=> phase = "request"
      PROVE  NoDeeper(walk', phase' = "request", d)
    BY <1>0, SameFlow DEF NoDeeper
<1>s. SameEntries(walk, walk)
    BY DEF SameEntries
<1>1. CASE \/ UNCHANGED vars \/ EndMerge \/ EndAdmit \/ AddRequest \/ EndAnalyze
           \/ Group \/ EndPrepare \/ SkipFailed \/ EndReserve
           \/ Launch \/ (\E i \in DOMAIN fetches : Complete(i)) \/ EndFetch
    BY <1>0, <1>1, <1>s
    DEF vars, EndMerge, EndAdmit, AddRequest, EndAnalyze, Group, Preparing, EndPrepare, SkipFailed,
        Reserving, EndReserve, Launch, Complete, EndFetch
<1>2. CASE LeaveOut \/ Refuse \/ Reserve \/ RefuseOverLimit \/ TakeFailed
    BY <1>t, <1>0, <1>2, EntriesUntouched DEF LeaveOut, Refuse, Reserve, RefuseOverLimit, TakeFailed
<1>3. CASE Merge
    BY <1>t, <1>3, DepthsKept DEF Merge, LevelAt
<1>4. CASE Drop \/ Revisit \/ FirstVisit \/ OverLimit
  <2>1. /\ walk.merged # <<>> /\ phase = "admit" /\ phase' = "admit"
        /\ walk' \in {DropRevisit(walk), AdmitRevisit(walk), AdmitFirstVisit(walk), BreakAtLimit(walk)}
    BY <1>4 DEF Drop, Revisit, FirstVisit, OverLimit, Admitting
  <2> QED
    BY <1>t, <2>1, DepthsKept DEF LevelAt
<1>5. CASE Analyze \/ EndRequests
  <2>1. /\ walk.frontier # <<>>
        /\ \/ walk' = AnalyzeNext(walk) /\ phase' = "request" /\ phase = "analyze"
           \/ walk' = LeaveFrontierHead(walk) /\ phase' = "analyze" /\ phase = "request"
    BY <1>5 DEF Analyze, EndRequests, Stages
  <2> QED
    BY <1>t, <2>1, AnalyzeHolds
<1>6. CASE ReuseAcquisition \/ TakeFetched
  <2>0. walk'.frontier = walk.frontier /\ walk'.packages = walk.packages /\ walk'.discovered = walk.discovered
    BY <1>t, <1>6 DEF ReuseAcquisition, TakeFetched, EnqueueRevisit, EnqueueAcquired, Walk
  <2>1. \A l : Reporting(walk', l) = Reporting(walk, l) /\ Searching(walk', l) = Searching(walk, l)
    BY <2>0 DEF Reporting, Searching, ToReport, Coming
  <2> QED
    BY <1>6, <2>1 DEF ReuseAcquisition, TakeFetched, NoDeeper
<1> QED
    BY <1>1, <1>2, <1>3, <1>4, <1>5, <1>6
    DEF Next, NextFrontier, AnalyzeFrontier, FetchDependencies

\* Every step keeps one level at a time.
LEMMA LevelsStep == TypeOK /\ Stages /\ Levels /\ [Next]_vars => Levels'
<1> SUFFICES ASSUME TypeOK, Stages, Levels, [Next]_vars PROVE Levels'
    OBVIOUS
<1>t. /\ walk \in Walk /\ requests \in Seq(Request) /\ groups \in Seq(Request)
      /\ fetches \in Seq(Fetch) /\ found \subseteq DOMAIN Declarations
    BY DEF TypeOK
<1>d. PICK d \in Nat : LevelAt(d) /\ NoDeeper(walk, phase = "request", d)
    BY DEF Levels
<1>0. ASSUME NEW e \in {d, d + 1}, LevelAt(e)',
             (phase \in {"admit", "analyze", "request", "prepare", "done"} => walk.queue = <<>>)'
      PROVE  Levels'
  <2>1. walk' \in Walk
    BY TypeStep DEF TypeOK
  <2>2. NoDeeper(walk', phase' = "request", d)
    BY <1>d, ShallowStep
  <2>3. NoDeeper(walk', phase' = "request", d + 1)
    <3> DEFINE looked == phase' = "request"
    <3>1. \A l : NoDeeper(walk', l, d) => NoDeeper(walk', l, d + 1)
      BY <2>1, DepthsKept
    <3>2. NoDeeper(walk', looked, d)
      BY <2>2
    <3> HIDE DEF looked
    <3>3. NoDeeper(walk', looked, d + 1)
      BY <3>1, <3>2
    <3> QED
      BY <3>3 DEF looked
  <2> QED
    BY <1>0, <2>2, <2>3 DEF Levels
<1>1. CASE UNCHANGED vars
  <2>1. LevelAt(d)'
    BY <1>d, <1>1 DEF vars, LevelAt, AtDepth
  <2> QED
    BY <1>0, <1>1, <2>1 DEF vars, Levels
<1>2. CASE Merge
  <2>1. /\ AtDepth(walk'.queue, d) /\ AtDepth(walk'.merged, d) /\ walk'.frontier = walk.frontier
    BY <1>t, <1>d, <1>2, MergeDepth DEF Merge, LevelAt
  <2>2. LevelAt(d)'
    BY <1>d, <1>2, <2>1 DEF Merge, LevelAt, AtDepth
  <2> QED
    BY <1>0, <1>2, <2>2 DEF Merge
<1>3. CASE EndMerge
  <2>1. walk.queue \in Seq(Pending) /\ walk.merged \in Seq(Pending)
    BY <1>t DEF Walk
  <2>2. walk.queue = <<>>
    <3>1. SUFFICES ASSUME walk.queue # <<>> PROVE FALSE
      OBVIOUS
    <3>2. Head(walk.queue).depth = d
      BY <1>d, <1>3, <2>1, <3>1, DepthKept DEF EndMerge, LevelAt
    <3>3. walk.merged # <<>> => walk.merged[1].depth = d
      BY <1>d, <2>1, Tailed DEF LevelAt, AtDepth
    <3> QED
      BY <1>3, <3>1, <3>2, <3>3 DEF EndMerge, MoreToMerge
  <2>3. LevelAt(d)'
    BY <1>d, <1>3 DEF EndMerge, LevelAt, AtDepth
  <2> QED
    BY <1>0, <1>3, <2>2, <2>3 DEF EndMerge
<1>4. CASE Drop \/ Revisit \/ FirstVisit \/ OverLimit
  <2>1. /\ walk.merged # <<>> /\ phase = "admit"
        /\ walk' \in {DropRevisit(walk), AdmitRevisit(walk), AdmitFirstVisit(walk), BreakAtLimit(walk)}
    BY <1>4 DEF Drop, Revisit, FirstVisit, OverLimit, Admitting
  <2>2. walk'.queue = walk.queue /\ AtDepth(walk'.merged, d) /\ AtDepth(walk'.frontier, d)
    BY <1>t, <1>d, <2>1, AdmitDepth DEF LevelAt
  <2>3. UNCHANGED <<phase, requests, groups, fetches>>
    BY <1>4 DEF Drop, Revisit, FirstVisit, OverLimit
  <2>4. LevelAt(d)'
    BY <1>d, <2>1, <2>2, <2>3 DEF LevelAt, AtDepth
  <2> QED
    BY <1>0, <2>1, <2>2, <2>3, <2>4 DEF Levels
<1>5. CASE EndAdmit
  <2>1. LevelAt(d)'
    BY <1>d, <1>5 DEF EndAdmit, LevelAt, AtDepth
  <2> QED
    BY <1>0, <1>5, <2>1 DEF EndAdmit, Levels
<1>6. CASE Analyze
  <2>1. SameLevel(walk, walk')
    BY <1>t, <1>6, LevelUntouched DEF Analyze
  <2>2. LevelAt(d)'
    BY <1>d, <1>6, <2>1 DEF Analyze, LevelAt, AtDepth, SameLevel
  <2> QED
    BY <1>0, <1>6, <2>1, <2>2 DEF Analyze, Levels, SameLevel
<1>7. CASE AddRequest
  <2>1. PICK i \in FirstOf(found) : requests' = Append(requests, RequestFor(walk, i))
    BY <1>7 DEF AddRequest
  <2>2. walk.frontier # <<>> /\ i \in DOMAIN Declarations /\ walk.frontier \in Seq(Pending)
    BY <1>t, <1>7 DEF AddRequest, FirstOf, Stages, Walk
  <2>3. Head(walk.frontier).depth = d
    BY <1>d, <2>2, DepthKept DEF LevelAt
  <2>4. RequestFor(walk, i) \in Request /\ RequestFor(walk, i).depth = d + 1
    BY <1>t, <2>2, <2>3, RequestType DEF RequestFor
  <2>5. AtDepth(requests', d + 1)
    BY <1>t, <1>d, <2>1, <2>4, DepthKept DEF LevelAt
  <2>6. LevelAt(d)'
    BY <1>d, <1>7, <2>5 DEF AddRequest, LevelAt, AtDepth
  <2> QED
    BY <1>0, <1>7, <2>6 DEF AddRequest, Levels
<1>8. CASE LeaveOut
  <2>1. SameLevel(walk, walk')
    BY <1>t, <1>8, LevelUntouched DEF LeaveOut
  <2>2. LevelAt(d)'
    BY <1>d, <1>8, <2>1 DEF LeaveOut, LevelAt, AtDepth, SameLevel
  <2> QED
    BY <1>0, <1>8, <2>1, <2>2 DEF LeaveOut, Levels, SameLevel
<1>9. CASE EndRequests
  <2>1. AtDepth(walk'.frontier, d) /\ walk'.queue = walk.queue /\ walk'.merged = walk.merged
    BY <1>t, <1>d, <1>9, LeaveDepth DEF EndRequests, Stages, LevelAt
  <2>2. LevelAt(d)'
    BY <1>d, <1>9, <2>1 DEF EndRequests, LevelAt, AtDepth
  <2> QED
    BY <1>0, <1>9, <2>1, <2>2 DEF EndRequests, Levels
<1>10. CASE EndAnalyze
  <2>1. LevelAt(d)'
    BY <1>d, <1>10 DEF EndAnalyze, LevelAt, AtDepth
  <2> QED
    BY <1>0, <1>10, <2>1 DEF EndAnalyze, Levels
<1>11. CASE Refuse
  <2>1. SameLevel(walk, walk')
    BY <1>t, <1>11, LevelUntouched DEF Refuse
  <2>2. AtDepth(requests', d + 1)
    BY <1>t, <1>d, <1>11, DepthKept DEF Refuse, Preparing, LevelAt
  <2>3. LevelAt(d)'
    BY <1>d, <1>11, <2>1, <2>2 DEF Refuse, LevelAt, AtDepth, SameLevel
  <2> QED
    BY <1>0, <1>11, <2>1, <2>3 DEF Refuse, Levels, SameLevel
<1>12. CASE Group
  <2>1. requests # <<>> /\ Head(requests) \in Request /\ Head(requests).depth = d + 1 /\ AtDepth(Tail(requests), d + 1)
    BY <1>t, <1>d, <1>12, DepthKept, Tailed DEF Group, Preparing, LevelAt
  <2>2. AtDepth(Append(groups, Head(requests)), d + 1)
    BY <1>t, <1>d, <2>1, DepthKept DEF LevelAt
  <2>3. \A i \in DOMAIN groups : groups[i] \in Request /\ groups[i].depth = d + 1
    BY <1>t, <1>d DEF LevelAt, AtDepth
  <2>4. AtDepth(groups', d + 1)
    BY <1>12, <2>2, <2>3 DEF Group, AtDepth, Request
  <2>5. LevelAt(d)'
    BY <1>d, <1>12, <2>1, <2>4 DEF Group, LevelAt, AtDepth
  <2> QED
    BY <1>0, <1>12, <2>5 DEF Group, Levels
<1>13. CASE EndPrepare
  <2>1. LevelAt(d)'
    BY <1>d, <1>13 DEF EndPrepare, LevelAt, AtDepth, Levels
  <2> QED
    BY <1>0, <1>13, <2>1 DEF EndPrepare
<1>14. CASE ReuseAcquisition
  <2>1. /\ Head(groups) \in Request /\ Head(groups).depth = d + 1 /\ AtDepth(Tail(groups), d + 1)
        /\ AtDepth(walk.queue, d + 1)
    BY <1>t, <1>d, <1>14, DepthKept, Tailed DEF ReuseAcquisition, Reserving, LevelAt
  <2>2. /\ Head(groups).key \in Keys /\ Head(groups).depth \in Nat /\ Head(groups).contexts \subseteq Contexts
    BY <2>1 DEF Request
  <2>3. AtDepth(walk'.queue, d + 1) /\ walk'.merged = walk.merged /\ walk'.frontier = walk.frontier
    <3>1. walk' = EnqueueRevisit(walk, Head(groups)) /\ Revisitable(walk, Head(groups).key)
      BY <1>14 DEF ReuseAcquisition
    <3>2. AtDepth(walk.queue, Head(groups).depth)
      BY <2>1
    <3> QED
      BY <1>t, <2>1, <2>2, <3>1, <3>2, EnqueueDepth
  <2>4. LevelAt(d)'
    BY <1>d, <1>14, <2>1, <2>3 DEF ReuseAcquisition, Reserving, LevelAt, AtDepth
  <2> QED
    BY <1>0, <1>14, <2>4 DEF ReuseAcquisition, Reserving
<1>15. CASE SkipFailed
  <2>1. AtDepth(groups', d + 1)
    BY <1>t, <1>d, <1>15, DepthKept DEF SkipFailed, Reserving, LevelAt
  <2>2. LevelAt(d)'
    BY <1>d, <1>15, <2>1 DEF SkipFailed, LevelAt, AtDepth
  <2> QED
    BY <1>0, <1>15, <2>2 DEF SkipFailed, Levels
<1>16. CASE Reserve
  <2> DEFINE g == Head(groups)
             f == [key |-> g.key, variant |-> g.variant, contexts |-> g.contexts,
                   depth |-> g.depth, status |-> "waiting"]
  <2>1. g \in Request /\ g.depth = d + 1 /\ AtDepth(Tail(groups), d + 1)
    BY <1>t, <1>d, <1>16, DepthKept, Tailed DEF Reserve, Reserving, LevelAt
  <2>2. f \in Fetch /\ f.depth = d + 1
    BY <2>1 DEF Request, Fetch
  <2>3. AtDepth(fetches', d + 1)
    BY <1>t, <1>d, <1>16, <2>2, DepthKept DEF Reserve, LevelAt
  <2>4. SameLevel(walk, walk')
    BY <1>t, <1>16, LevelUntouched DEF Reserve
  <2>5. LevelAt(d)'
    BY <1>d, <1>16, <2>1, <2>3, <2>4 DEF Reserve, LevelAt, AtDepth, SameLevel
  <2> QED
    BY <1>0, <1>16, <2>5 DEF Reserve, Reserving
<1>17. CASE RefuseOverLimit
  <2>1. SameLevel(walk, walk')
    BY <1>t, <1>17, LevelUntouched DEF RefuseOverLimit
  <2>2. LevelAt(d)'
    BY <1>d, <1>17, <2>1 DEF RefuseOverLimit, LevelAt, AtDepth, SameLevel
  <2> QED
    BY <1>0, <1>17, <2>2 DEF RefuseOverLimit, Reserving
<1>18. CASE EndReserve
  <2>1. LevelAt(d)'
    BY <1>d, <1>18 DEF EndReserve, LevelAt, AtDepth
  <2> QED
    BY <1>0, <1>18, <2>1 DEF EndReserve
<1>19. CASE Launch \/ \E i \in DOMAIN fetches : Complete(i)
  <2>1. PICK i \in DOMAIN fetches, status \in {"running", "fetched", "failed"} :
           fetches' = [fetches EXCEPT ![i].status = status]
    BY <1>19 DEF Launch, Complete, NextToLaunch, Window
  <2>2. \A j \in DOMAIN fetches : fetches[j] \in Fetch /\ fetches[j].depth = d + 1
    BY <1>t, <1>d DEF LevelAt, AtDepth
  <2>3. AtDepth(fetches', d + 1)
    BY <2>1, <2>2 DEF AtDepth, Fetch
  <2>4. phase = "fetch" /\ UNCHANGED <<phase, walk, requests, groups>>
    BY <1>19 DEF Launch, Complete
  <2>5. LevelAt(d)'
    BY <1>d, <2>3, <2>4 DEF LevelAt, AtDepth
  <2> QED
    BY <1>0, <2>4, <2>5
<1>20. CASE TakeFetched
  <2>1. /\ Head(fetches) \in Fetch /\ Head(fetches).depth = d + 1 /\ AtDepth(Tail(fetches), d + 1)
        /\ AtDepth(walk.queue, d + 1)
    BY <1>t, <1>d, <1>20, DepthKept, Tailed DEF TakeFetched, LevelAt
  <2>2. /\ Head(fetches).key \in Keys /\ Head(fetches).depth \in Nat /\ Head(fetches).contexts \subseteq Contexts
    BY <2>1 DEF Fetch
  <2>3. AtDepth(walk'.queue, d + 1) /\ walk'.merged = walk.merged /\ walk'.frontier = walk.frontier
    <3>1. walk' = EnqueueAcquired(walk, Head(fetches)) /\ AtDepth(walk.queue, Head(fetches).depth)
      BY <1>20, <2>1 DEF TakeFetched
    <3>2. AtDepth(walk'.queue, Head(fetches).depth) /\ walk'.merged = walk.merged /\ walk'.frontier = walk.frontier
      BY <1>t, <2>2, <3>1, EnqueueDepth
    <3> QED
      BY <2>1, <3>2
  <2>4. LevelAt(d)'
    BY <1>d, <1>20, <2>1, <2>3 DEF TakeFetched, LevelAt, AtDepth
  <2> QED
    BY <1>0, <1>20, <2>4 DEF TakeFetched
<1>21. CASE TakeFailed
  <2>1. SameLevel(walk, walk')
    BY <1>t, <1>21, LevelUntouched DEF TakeFailed
  <2>2. AtDepth(fetches', d + 1)
    BY <1>t, <1>d, <1>21, DepthKept DEF TakeFailed, LevelAt
  <2>3. LevelAt(d)'
    BY <1>d, <1>21, <2>1, <2>2 DEF TakeFailed, LevelAt, AtDepth, SameLevel
  <2> QED
    BY <1>0, <1>21, <2>3 DEF TakeFailed
<1>22. CASE EndFetch
  <2>1. /\ walk.merged = <<>> /\ walk.frontier = <<>> /\ requests = <<>> /\ groups = <<>> /\ fetches = <<>>
    BY <1>22 DEF EndFetch, Stages
  <2>2. LevelAt(d + 1)'
    BY <1>d, <1>22, <2>1 DEF EndFetch, LevelAt, AtDepth
  <2> QED
    BY <1>0, <1>22, <2>2 DEF EndFetch
<1> QED
    BY <1>1, <1>2, <1>3, <1>4, <1>5, <1>6, <1>7, <1>8, <1>9, <1>10, <1>11, <1>12, <1>13, <1>14,
       <1>15, <1>16, <1>17, <1>18, <1>19, <1>20, <1>21, <1>22
    DEF Next, NextFrontier, AnalyzeFrontier, FetchDependencies

-----------------------------------------------------------------------------
(* Each package once, within max_packages.                                     *)

\* Nothing has been reported at the start.
LEMMA ReportedInit == Init => Reported
<1> SUFFICES ASSUME Init PROVE Reported
    OBVIOUS
<1>1. limits.packages \in Nat
    BY TraversalAssumption DEF Init
<1>2. Once(walk, phase = "request")
    BY OnceNew DEF Init
<1>3. Counted(walk) /\ Cardinality(ReportedSources(walk)) = 0
    BY CountedNew, FS_EmptySet DEF Init
<1> QED
    BY <1>1, <1>2, <1>3 DEF Reported

\* No step reports a package twice, or more directories than allowed.
LEMMA ReportedStep == TypeOK /\ Stages /\ Reported /\ [Next]_vars => Reported'
<1> SUFFICES ASSUME TypeOK, Stages, Reported, [Next]_vars PROVE Reported'
    OBVIOUS
<1>t. walk \in Walk /\ limits.packages \in Nat
    BY TraversalAssumption DEF TypeOK
<1>0. ASSUME SameReport(walk, walk'), limits' = limits, phase' = "request" <=> phase = "request"
      PROVE  Reported'
  <2>1. Once(walk', phase' = "request")
    BY <1>0, OnceKept DEF Reported
  <2>2. Counted(walk') /\ ReportedSources(walk') = ReportedSources(walk)
    BY <1>0, CountedKept DEF Reported
  <2> QED
    BY <1>0, <2>1, <2>2 DEF Reported
<1>s. SameReport(walk, walk)
    BY DEF SameReport
<1>1. CASE \/ UNCHANGED vars \/ EndMerge \/ EndAdmit \/ AddRequest \/ EndAnalyze
           \/ Group \/ EndPrepare \/ SkipFailed \/ EndReserve
           \/ Launch \/ (\E i \in DOMAIN fetches : Complete(i)) \/ EndFetch
    BY <1>0, <1>1, <1>s
    DEF vars, EndMerge, EndAdmit, AddRequest, EndAnalyze, Group, Preparing, EndPrepare, SkipFailed,
        Reserving, EndReserve, Launch, Complete, EndFetch
<1>2. CASE Merge \/ Drop \/ LeaveOut
    BY <1>t, <1>0, <1>2, ReportUntouched DEF Merge, Drop, LeaveOut
<1>3. CASE \/ Refuse \/ ReuseAcquisition \/ Reserve \/ RefuseOverLimit \/ TakeFetched \/ TakeFailed
    BY <1>t, <1>0, <1>3, ReportUntouched
    DEF Refuse, ReuseAcquisition, Reserve, RefuseOverLimit, TakeFetched, TakeFailed
<1>4. CASE Revisit
  <2>1. /\ walk' = AdmitRevisit(walk) /\ walk.merged # <<>> /\ Once(walk, FALSE) /\ phase # "request"
        /\ phase' = phase /\ limits' = limits /\ Counted(walk)
    BY <1>4 DEF Revisit, Admitting, Reported
  <2>2. Once(walk', FALSE) /\ Counted(walk') /\ ReportedSources(walk') = ReportedSources(walk)
    BY <1>t, <2>1, OnceAdmit, CountedAdmit
  <2> QED
    BY <2>1, <2>2 DEF Reported
<1>5. CASE FirstVisit
  <2>1. /\ walk' = AdmitFirstVisit(walk) /\ walk.merged # <<>> /\ Once(walk, FALSE) /\ phase # "request"
        /\ ~Visited(walk, Head(walk.merged)) /\ walk.count < limits.packages
        /\ phase' = phase /\ limits' = limits /\ Counted(walk)
    BY <1>5 DEF FirstVisit, Admitting, Reported
  <2>2. /\ Once(walk', FALSE) /\ Counted(walk')
        /\ ReportedSources(walk') = ReportedSources(walk) \cup {Head(walk.merged).source}
    BY <1>t, <2>1, OnceAdmit, CountedAdmit
  <2>3. ReportedSources(walk) \subseteq walk.sources
    BY <2>1 DEF ReportedSources, Once, Known
  <2>4. Cardinality(ReportedSources(walk)) <= walk.count
    BY <1>t, <2>1, <2>3, FiniteSources, FS_Subset DEF Counted
  <2> DEFINE before == ReportedSources(walk)
             source == Head(walk.merged).source
  <2>5. IsFiniteSet(before) /\ Cardinality(before) \in Nat /\ walk.count \in Nat
    BY <1>t, FiniteSources DEF Walk
  <2>6. Cardinality(before \cup {source}) \in {Cardinality(before), Cardinality(before) + 1}
    <3> HIDE DEF before, source
    <3> QED
      BY <2>5, FS_AddElement
  <2>7. Cardinality(ReportedSources(walk')) <= limits.packages
    BY <1>t, <2>1, <2>2, <2>4, <2>5, <2>6
  <2> QED
    BY <2>1, <2>2, <2>7 DEF Reported
<1>6. CASE OverLimit
  <2>1. /\ walk' = BreakAtLimit(walk) /\ walk.merged # <<>> /\ Once(walk, FALSE) /\ phase # "request"
        /\ ~Visited(walk, Head(walk.merged))
        /\ phase' = phase /\ limits' = limits /\ Counted(walk)
    BY <1>6 DEF OverLimit, Admitting, Reported
  <2>2. Once(walk', FALSE) /\ Counted(walk') /\ ReportedSources(walk') = ReportedSources(walk)
    BY <1>t, <2>1, OnceAdmit, CountedAdmit
  <2> QED
    BY <2>1, <2>2 DEF Reported
<1>7. CASE Analyze \/ EndRequests
  <2>1. /\ walk.frontier # <<>> /\ limits' = limits /\ Counted(walk)
        /\ \/ walk' = AnalyzeNext(walk) /\ phase' = "request" /\ phase = "analyze"
           \/ walk' = LeaveFrontierHead(walk) /\ phase' = "analyze" /\ phase = "request"
    BY <1>7 DEF Analyze, EndRequests, Reported, Stages
  <2>2. Once(walk', phase' = "request") /\ Counted(walk') /\ ReportedSources(walk') \subseteq ReportedSources(walk)
    BY <1>t, <2>1, OnceAnalyze, CountedAnalyze DEF Reported
  <2>3. IsFiniteSet(ReportedSources(walk'))
        /\ Cardinality(ReportedSources(walk')) <= Cardinality(ReportedSources(walk))
        /\ Cardinality(ReportedSources(walk')) \in Nat /\ Cardinality(ReportedSources(walk)) \in Nat
    BY <1>t, <2>2, FiniteSources, FS_Subset, FS_CardinalityType
  <2> QED
    BY <1>t, <2>1, <2>2, <2>3 DEF Reported
<1> QED
    BY <1>1, <1>2, <1>3, <1>4, <1>5, <1>6, <1>7
    DEF Next, NextFrontier, AnalyzeFrontier, FetchDependencies

-----------------------------------------------------------------------------
(* Reservations: the keys fetched are reserved ones, each reserved once.       *)

\* No key is reserved at the start.
LEMMA AccountedInit == Init => Accounted
    BY DEF Init, Accounted, NewWalk

\* A key is reserved within max_packages, fetched once, and stays reserved.
LEMMA AccountedStep == TypeOK /\ Stages /\ Accounted /\ [Next]_vars => Accounted'
<1> SUFFICES ASSUME TypeOK, Stages, Accounted, [Next]_vars PROVE Accounted'
    OBVIOUS
<1>t. /\ walk \in Walk /\ limits.packages \in Nat
      /\ fetches \in Seq(Fetch) /\ attempts \in Seq(Keys) /\ groups \in Seq(Request)
    BY TraversalAssumption DEF TypeOK
<1>0. ASSUME walk'.reserved = walk.reserved, UNCHANGED <<limits, fetches, attempts>>
      PROVE  Accounted'
    BY <1>0 DEF Accounted
<1>1. CASE \/ UNCHANGED vars \/ EndMerge \/ EndAdmit \/ AddRequest \/ EndAnalyze
           \/ Group \/ EndPrepare \/ SkipFailed \/ EndReserve \/ EndFetch
    BY <1>0, <1>1
    DEF vars, EndMerge, EndAdmit, AddRequest, EndAnalyze, Group, EndPrepare, SkipFailed,
        EndReserve, EndFetch
<1>2. CASE Merge \/ Drop \/ Revisit \/ FirstVisit \/ OverLimit
    BY <1>t, <1>0, <1>2, ReservedUntouched DEF Merge, Drop, Revisit, FirstVisit, OverLimit
<1>3. CASE \/ Analyze \/ LeaveOut \/ EndRequests \/ Refuse \/ ReuseAcquisition \/ RefuseOverLimit
    BY <1>t, <1>0, <1>3, ReservedUntouched
    DEF Analyze, LeaveOut, EndRequests, Refuse, ReuseAcquisition, RefuseOverLimit
<1>4. CASE Reserve
  <2> DEFINE g == Head(groups)
             f == [key |-> g.key, variant |-> g.variant, contexts |-> g.contexts,
                   depth |-> g.depth, status |-> "waiting"]
             n == Len(fetches) + 1
  <2>1. g \in Request
    BY <1>t, <1>4, Tailed DEF Reserve, Reserving
  <2>2. f \in Fetch /\ f.key = g.key
    BY <2>1 DEF Request, Fetch
  <2>3. /\ fetches' = Append(fetches, f) /\ UNCHANGED <<attempts, limits>>
        /\ g.key \notin walk.reserved /\ Reservable(walk, limits.packages)
        /\ walk' = ReserveKey(walk, g.key)
    BY <1>4 DEF Reserve
  <2>4. walk'.reserved = walk.reserved \cup {g.key}
    BY <1>t, <2>3, ReservedUntouched
  <2>5. Cardinality(walk'.reserved) + 1 <= limits.packages
    <3>1. Cardinality(walk'.reserved) = Cardinality(walk.reserved) + 1
      BY <1>t, <2>3, <2>4, FiniteReserved, FS_AddElement
    <3> QED
      BY <1>t, <2>3, <3>1, FiniteReserved DEF Reservable
  <2>6. /\ DOMAIN fetches' = DOMAIN fetches \cup {n} /\ n \notin DOMAIN fetches
        /\ fetches'[n] = f /\ \A i \in DOMAIN fetches : fetches'[i] = fetches[i]
    BY <1>t, <2>2, <2>3, Appended
  <2> HIDE DEF n, f, g
  <2>7. \A i \in DOMAIN fetches : fetches[i].key # f.key
    BY <2>2, <2>3 DEF Accounted
  <2>8. \A m \in DOMAIN attempts : attempts[m] # f.key
    BY <2>2, <2>3 DEF Accounted
  <2> QED
    BY <2>2, <2>3, <2>4, <2>5, <2>6, <2>7, <2>8 DEF Accounted
<1>5. CASE Launch
  <2>1. PICK i \in NextToLaunch(fetches, Threads) :
           /\ fetches' = [fetches EXCEPT ![i].status = "running"]
           /\ attempts' = Append(attempts, fetches[i].key)
    BY <1>5 DEF Launch
  <2>2. i \in DOMAIN fetches /\ fetches[i].status = "waiting"
    BY <2>1 DEF NextToLaunch, Window
  <2>3. \A j \in DOMAIN fetches : fetches[j] \in Fetch
    BY <1>t
  <2>4. /\ DOMAIN fetches' = DOMAIN fetches
        /\ \A j \in DOMAIN fetches : fetches'[j].key = fetches[j].key
        /\ \A j \in DOMAIN fetches : fetches'[j].status = "waiting" => j # i /\ fetches[j].status = "waiting"
    BY <2>1, <2>2, <2>3 DEF Fetch
  <2> DEFINE n == Len(attempts) + 1
  <2>5. /\ DOMAIN attempts' = DOMAIN attempts \cup {n} /\ n \notin DOMAIN attempts
        /\ attempts'[n] = fetches[i].key /\ \A m \in DOMAIN attempts : attempts'[m] = attempts[m]
    <3>1. fetches[i].key \in Keys
      BY <2>2, <2>3 DEF Fetch
    <3> QED
      BY <1>t, <2>1, <3>1, Appended
  <2> HIDE DEF n
  <2>6. UNCHANGED <<walk, limits>>
    BY <1>5 DEF Launch
  <2>7. \A j \in DOMAIN fetches : j # i => fetches[j].key # fetches[i].key
    BY <2>2 DEF Accounted
  <2>8. \A m \in DOMAIN attempts : attempts[m] # fetches[i].key
    BY <2>2 DEF Accounted
  <2> QED
    BY <2>2, <2>4, <2>5, <2>6, <2>7, <2>8 DEF Accounted
<1>6. CASE \E i \in DOMAIN fetches : Complete(i)
  <2>1. PICK i \in DOMAIN fetches, outcome \in {"fetched", "failed"} :
           fetches' = [fetches EXCEPT ![i].status = outcome]
    BY <1>6 DEF Complete
  <2>2. \A j \in DOMAIN fetches : fetches[j] \in Fetch
    BY <1>t
  <2>3. /\ DOMAIN fetches' = DOMAIN fetches
        /\ \A j \in DOMAIN fetches : fetches'[j].key = fetches[j].key
        /\ \A j \in DOMAIN fetches : fetches'[j].status = "waiting" => fetches[j].status = "waiting"
    BY <2>1, <2>2 DEF Fetch
  <2>4. UNCHANGED <<walk, limits, attempts>>
    BY <1>6 DEF Complete
  <2> QED
    BY <2>3, <2>4 DEF Accounted
<1>7. CASE TakeFetched \/ TakeFailed
  <2>1. fetches # <<>> /\ fetches' = Tail(fetches) /\ UNCHANGED <<limits, attempts>>
    BY <1>7 DEF TakeFetched, TakeFailed
  <2>2. walk'.reserved = walk.reserved
    BY <1>t, <1>7, ReservedUntouched DEF TakeFetched, TakeFailed
  <2>3. \A i \in DOMAIN fetches' : i + 1 \in DOMAIN fetches /\ fetches'[i] = fetches[i + 1]
    BY <1>t, <2>1, Tailed
  <2>4. \A i, j \in DOMAIN fetches' : i # j => i + 1 # j + 1
    BY <1>t, <2>1, Tailed
  <2> QED
    BY <2>1, <2>2, <2>3, <2>4 DEF Accounted
<1> QED
    BY <1>1, <1>2, <1>3, <1>4, <1>5, <1>6, <1>7
    DEF Next, NextFrontier, AnalyzeFrontier, FetchDependencies

-----------------------------------------------------------------------------
(* What is asked for: the dependencies that come next are those of the         *)
(* frontier's head, and every request, group, fetch and reservation is about   *)
(* a key that a discovery asked for.                                           *)

Headed ==
    /\ phase # "request" => found = {}
    /\ phase = "request" =>
          /\ Len(walk.discovered) \in DOMAIN walk.discovered
          /\ walk.discovered[Len(walk.discovered)] = Head(walk.frontier)
          /\ found \subseteq DependenciesOf(walk, made, limits.depth)

Wanted(key) == AskedFor(walk, made, limits.depth, key)

Keyed ==
    /\ \A i \in DOMAIN requests : Wanted(requests[i].key) /\ Gate[requests[i].key] \in {"fetch", "refused"}
    /\ \A i \in DOMAIN groups : Wanted(groups[i].key) /\ Gate[groups[i].key] = "fetch"
    /\ \A i, j \in DOMAIN groups : i # j => groups[i].key # groups[j].key
    /\ \A i \in DOMAIN groups, j \in DOMAIN fetches : groups[i].key # fetches[j].key

\* A reserved key has been acquired, or its fetch is under way, or has failed.
Reservations ==
    /\ walk.reserved \subseteq Demanded(walk, made, limits.depth)
    /\ walk.acquired \subseteq walk.reserved
    /\ \A k \in walk.reserved :
          \/ k \in walk.acquired
          \/ \E i \in DOMAIN fetches : fetches[i].key = k
          \/ [kind |-> "fetch", about |-> k] \in walk.issues

\* Nothing is asked for at first.
LEMMA AskedInit == Init => Headed /\ Keyed /\ Reservations
<1> SUFFICES ASSUME Init PROVE Headed /\ Keyed /\ Reservations
    OBVIOUS
<1>1. walk.reserved = {} /\ walk.acquired = {}
    BY NewIsShallow DEF Init
<1>2. DOMAIN <<>> = {}
    OBVIOUS
<1> QED
    BY <1>1, <1>2 DEF Init, Headed, Keyed, Reservations

\* The last discovery is the frontier's head while its dependencies are looked at.
LEMMA HeadedStep == TypeOK /\ Stages /\ Headed /\ [Next]_vars => Headed'
<1> SUFFICES ASSUME TypeOK, Stages, Headed, [Next]_vars PROVE Headed'
    OBVIOUS
<1>t. walk \in Walk
    BY DEF TypeOK
<1>1. CASE UNCHANGED vars
    BY <1>1 DEF vars, Headed, DependenciesOf
<1>2. CASE NextFrontier
    BY <1>2 DEF NextFrontier, Merge, EndMerge, Drop, Revisit, FirstVisit, OverLimit, Admitting, EndAdmit, Headed
<1>3. CASE FetchDependencies
    BY <1>3 DEF FetchDependencies, Refuse, Preparing, Group, EndPrepare, ReuseAcquisition, SkipFailed,
                Reserve, RefuseOverLimit, Reserving, EndReserve, Launch, Complete, TakeFetched, TakeFailed,
                EndFetch, Headed
<1>4. CASE Analyze
  <2>1. /\ walk.frontier # <<>> /\ walk' = AnalyzeNext(walk) /\ phase' = "request"
        /\ found' = DependenciesOf(walk, made, limits.depth) /\ UNCHANGED <<made, limits>>
    BY <1>4 DEF Analyze
  <2>2. /\ Len(walk'.discovered) = Len(walk.discovered) + 1
        /\ Len(walk.discovered) + 1 \in DOMAIN walk'.discovered
        /\ walk'.discovered[Len(walk.discovered) + 1] = Head(walk.frontier)
        /\ walk'.frontier = walk.frontier
    BY <1>t, <2>1, AnalyzeDiscovers, AnalyzeFlow
  <2> QED
    BY <2>1, <2>2 DEF Headed, DependenciesOf
<1>5. CASE AddRequest
  <2>1. phase = "request" /\ UNCHANGED <<made, limits, phase, walk>> /\ found' \subseteq found
    BY <1>5 DEF AddRequest
  <2> QED
    BY <2>1 DEF Headed, DependenciesOf
<1>6. CASE LeaveOut
  <2>1. PICK i : walk' = NoteUnrequested(walk, i)
    BY <1>6 DEF LeaveOut
  <2>2. phase = "request" /\ UNCHANGED <<made, limits, phase>> /\ found' \subseteq found
    BY <1>6 DEF LeaveOut
  <2>3. walk'.discovered = walk.discovered /\ walk'.frontier = walk.frontier
    BY <1>t, <2>1, EntriesUntouched DEF SameEntries
  <2> QED
    BY <2>2, <2>3 DEF Headed, DependenciesOf
<1>7. CASE EndRequests \/ EndAnalyze
    BY <1>7 DEF EndRequests, EndAnalyze, Headed
<1> QED
    BY <1>1, <1>2, <1>3, <1>4, <1>5, <1>6, <1>7 DEF Next, AnalyzeFrontier

\* Every step continues the walk.
LEMMA StepContinues ==
    ASSUME TypeOK, Stages, [Next]_vars
    PROVE  /\ Continues(walk, walk')
           /\ ~Analyze => walk'.discovered = walk.discovered
           /\ UNCHANGED <<made, limits>>
<1>t. walk \in Walk
    BY DEF TypeOK
<1>s. Continues(walk, walk)
    BY DEF Continues
<1>1. CASE \/ UNCHANGED vars \/ EndMerge \/ EndAdmit \/ AddRequest \/ EndAnalyze
           \/ Group \/ EndPrepare \/ SkipFailed \/ EndReserve
           \/ Launch \/ (\E i \in DOMAIN fetches : Complete(i)) \/ EndFetch
    BY <1>1, <1>s
    DEF vars, EndMerge, EndAdmit, AddRequest, EndAnalyze, Group, Preparing, EndPrepare, SkipFailed,
        Reserving, EndReserve, Launch, Complete, EndFetch
<1>2. CASE Merge \/ Drop \/ Revisit \/ FirstVisit \/ OverLimit
    BY <1>t, <1>2, EveryIterationContinues DEF Merge, Drop, Revisit, FirstVisit, OverLimit
<1>3. CASE Analyze
    BY <1>t, <1>3, AnalyzeDiscovers DEF Analyze
<1>4. CASE LeaveOut \/ EndRequests
    BY <1>t, <1>4, EveryIterationContinues DEF LeaveOut, EndRequests
<1>5. CASE Refuse \/ ReuseAcquisition \/ Reserve \/ RefuseOverLimit \/ TakeFetched \/ TakeFailed
    BY <1>t, <1>5, EveryIterationContinues
    DEF Refuse, ReuseAcquisition, Reserve, RefuseOverLimit, TakeFetched, TakeFailed
<1> QED
    BY <1>1, <1>2, <1>3, <1>4, <1>5 DEF Next, NextFrontier, AnalyzeFrontier, FetchDependencies

\* What was wanted stays wanted.
LEMMA WantedStays ==
    ASSUME TypeOK, Stages, [Next]_vars
    PROVE  /\ \A k : Wanted(k) => Wanted(k)'
           /\ Demanded(walk, made, limits.depth) \subseteq Demanded(walk', made', limits'.depth)
<1>1. Continues(walk, walk') /\ UNCHANGED <<made, limits>>
    BY StepContinues
<1> QED
    BY <1>1, DemandKept DEF Wanted

\* Requests, groups and fetches are about wanted keys, one group for each key.
LEMMA KeyedStep == TypeOK /\ Stages /\ Headed /\ Keyed /\ [Next]_vars => Keyed'
<1> SUFFICES ASSUME TypeOK, Stages, Headed, Keyed, [Next]_vars PROVE Keyed'
    OBVIOUS
<1>t. /\ walk \in Walk /\ requests \in Seq(Request) /\ groups \in Seq(Request)
      /\ fetches \in Seq(Fetch) /\ found \subseteq DOMAIN Declarations
    BY DEF TypeOK
<1>w. \A k : Wanted(k) => Wanted(k)'
    BY WantedStays
<1> HIDE DEF Wanted
<1>0. ASSUME UNCHANGED <<requests, groups, fetches>> PROVE Keyed'
    BY <1>0, <1>w DEF Keyed
<1>1. CASE \/ UNCHANGED vars \/ NextFrontier \/ Analyze \/ LeaveOut \/ EndRequests \/ EndAnalyze
           \/ EndPrepare \/ EndReserve \/ EndFetch
    BY <1>0, <1>1
    DEF vars, NextFrontier, Merge, EndMerge, Drop, Revisit, FirstVisit, OverLimit, EndAdmit, Analyze,
        LeaveOut, EndRequests, EndAnalyze, EndPrepare, EndReserve, EndFetch
<1>2. CASE AddRequest
  <2>1. PICK i \in FirstOf(found) : Requested(i) /\ requests' = Append(requests, RequestFor(walk, i))
    BY <1>2 DEF AddRequest
  <2>2. phase = "request" /\ UNCHANGED <<groups, fetches>>
    BY <1>2 DEF AddRequest
  <2> DEFINE r == RequestFor(walk, i)
             n == Len(requests) + 1
  <2>3. i \in found /\ i \in DOMAIN Declarations /\ walk.frontier # <<>>
    BY <1>t, <2>1, <2>2 DEF FirstOf, Stages
  <2>4. r \in Request /\ r.key = Declarations[i].key /\ Gate[r.key] \in {"fetch", "refused"}
    BY <1>t, <2>1, <2>3, RequestType DEF RequestFor, Requested
  <2>5. Wanted(r.key)
    <3>1. i \in DependenciesOf(walk, made, limits.depth)
      BY <2>2, <2>3 DEF Headed
    <3>2. Owing(walk, made, limits.depth, Len(walk.discovered), i) /\ i \in made
      BY <2>2, <3>1 DEF Headed, DependenciesOf, Owing, DeclaredBy
    <3> QED
      BY <2>2, <2>4, <3>2 DEF Wanted, AskedFor, Headed
  <2> HIDE DEF r
  <2>6. /\ DOMAIN requests' = DOMAIN requests \cup {n} /\ requests'[n] = r
        /\ \A j \in DOMAIN requests : requests'[j] = requests[j]
    BY <1>t, <2>1, <2>4, Appended DEF r
  <2> HIDE DEF n
  <2> QED
    BY <1>w, <2>2, <2>4, <2>5, <2>6 DEF Keyed
<1>3. CASE Refuse
  <2>1. requests # <<>> /\ requests' = Tail(requests) /\ UNCHANGED <<groups, fetches>>
    BY <1>3 DEF Refuse, Preparing
  <2>2. \A i \in DOMAIN requests' : i + 1 \in DOMAIN requests /\ requests'[i] = requests[i + 1]
    BY <1>t, <2>1, Tailed
  <2> QED
    BY <1>w, <2>1, <2>2 DEF Keyed
<1>4. CASE Group
  <2> DEFINE r == Head(requests)
             n == Len(groups) + 1
  <2>1. /\ requests # <<>> /\ requests' = Tail(requests) /\ UNCHANGED fetches /\ Gate[r.key] # "refused"
        /\ fetches = <<>>
    BY <1>4 DEF Group, Preparing, Stages
  <2>2. /\ \A i \in DOMAIN requests' : i + 1 \in DOMAIN requests /\ requests'[i] = requests[i + 1]
        /\ r \in Request /\ 1 \in DOMAIN requests /\ r = requests[1]
    BY <1>t, <2>1, Tailed
  <2>3. Wanted(r.key) /\ Gate[r.key] = "fetch"
    BY <2>1, <2>2 DEF Keyed
  <2>4. CASE \A i \in DOMAIN groups : groups[i].key # r.key
    <3>1. groups' = Append(groups, r)
      BY <1>4, <2>4 DEF Group
    <3> HIDE DEF r
    <3>2. /\ DOMAIN groups' = DOMAIN groups \cup {n} /\ groups'[n] = r /\ n \notin DOMAIN groups
          /\ \A j \in DOMAIN groups : groups'[j] = groups[j]
      BY <1>t, <2>2, <3>1, Appended
    <3> HIDE DEF n
    <3> QED
      BY <1>w, <2>1, <2>2, <2>3, <2>4, <3>2 DEF Keyed
  <2>5. CASE ~\A i \in DOMAIN groups : groups[i].key # r.key
    <3>1. groups' = [i \in DOMAIN groups |->
                       IF i \in {j \in DOMAIN groups : groups[j].key = r.key}
                       THEN [groups[i] EXCEPT !.contexts = @ \cup r.contexts]
                       ELSE groups[i]]
      BY <1>4, <2>5 DEF Group
    <3>2. \A i \in DOMAIN groups : groups[i] \in Request
      BY <1>t
    <3>3. DOMAIN groups' = DOMAIN groups /\ \A i \in DOMAIN groups : groups'[i].key = groups[i].key
      BY <3>1, <3>2 DEF Request
    <3> QED
      BY <1>w, <2>1, <2>2, <3>3 DEF Keyed
  <2> QED
    BY <2>4, <2>5
<1>5. CASE ReuseAcquisition \/ SkipFailed
  <2>1. groups # <<>> /\ groups' = Tail(groups) /\ UNCHANGED <<requests, fetches>>
    BY <1>5 DEF ReuseAcquisition, SkipFailed, Reserving
  <2>2. \A i \in DOMAIN groups' : i + 1 \in DOMAIN groups /\ groups'[i] = groups[i + 1] /\ i \in Int
    BY <1>t, <2>1, Tailed
  <2>3. \A i, j \in DOMAIN groups' : i # j => i + 1 # j + 1
    BY <2>2
  <2> QED
    BY <1>w, <2>1, <2>2, <2>3 DEF Keyed
<1>6. CASE Reserve
  <2> DEFINE g == Head(groups)
             f == [key |-> g.key, variant |-> g.variant, contexts |-> g.contexts,
                   depth |-> g.depth, status |-> "waiting"]
             n == Len(fetches) + 1
  <2>1. groups # <<>> /\ groups' = Tail(groups) /\ UNCHANGED requests /\ fetches' = Append(fetches, f)
    BY <1>6 DEF Reserve, Reserving
  <2>2. /\ \A i \in DOMAIN groups' : i + 1 \in DOMAIN groups /\ i + 1 > 1 /\ groups'[i] = groups[i + 1]
        /\ g \in Request /\ 1 \in DOMAIN groups /\ g = groups[1]
    BY <1>t, <2>1, Tailed
  <2>3. \A i, j \in DOMAIN groups' : i # j => i + 1 # j + 1
    BY <1>t, <2>1, Tailed
  <2>4. f \in Fetch /\ f.key = g.key
    BY <2>2 DEF Request, Fetch
  <2> HIDE DEF f, g
  <2>5. /\ DOMAIN fetches' = DOMAIN fetches \cup {n} /\ fetches'[n] = f
        /\ \A j \in DOMAIN fetches : fetches'[j] = fetches[j]
    BY <1>t, <2>1, <2>4, Appended
  <2>6. \A i \in DOMAIN groups' : groups'[i].key # f.key
    BY <2>2, <2>4 DEF Keyed
  <2> HIDE DEF n
  <2> QED
    BY <1>w, <2>1, <2>2, <2>3, <2>5, <2>6 DEF Keyed
<1>7. CASE RefuseOverLimit
  <2>1. UNCHANGED <<requests, fetches>> /\ groups' = <<>>
    BY <1>7 DEF RefuseOverLimit
  <2>2. DOMAIN groups' = {}
    BY <2>1
  <2> QED
    BY <1>w, <2>1, <2>2 DEF Keyed
<1>8. CASE Launch \/ \E i \in DOMAIN fetches : Complete(i)
  <2>1. PICK i \in DOMAIN fetches, status \in {"running", "fetched", "failed"} :
           fetches' = [fetches EXCEPT ![i].status = status]
    BY <1>8 DEF Launch, Complete, NextToLaunch, Window
  <2>2. \A j \in DOMAIN fetches : fetches[j] \in Fetch
    BY <1>t
  <2>3. DOMAIN fetches' = DOMAIN fetches /\ \A j \in DOMAIN fetches : fetches'[j].key = fetches[j].key
    BY <2>1, <2>2 DEF Fetch
  <2>4. UNCHANGED <<requests, groups>>
    BY <1>8 DEF Launch, Complete
  <2> QED
    BY <1>w, <2>3, <2>4 DEF Keyed
<1>9. CASE TakeFetched \/ TakeFailed
  <2>1. UNCHANGED <<requests, groups>> /\ groups = <<>>
    BY <1>9 DEF TakeFetched, TakeFailed, Stages
  <2>2. DOMAIN groups' = {} /\ DOMAIN groups = {}
    BY <2>1
  <2> QED
    BY <1>w, <2>1, <2>2 DEF Keyed
<1> QED
    BY <1>1, <1>2, <1>3, <1>4, <1>5, <1>6, <1>7, <1>8, <1>9 DEF Next, AnalyzeFrontier, FetchDependencies

\* The steps that neither reserve nor acquire.
LEMMA ReservationsKept ==
    ASSUME TypeOK, Stages, Reservations, [Next]_vars, ~Reserve, ~TakeFetched,
           \A k \in walk.reserved : \A i \in DOMAIN fetches : fetches[i].key = k =>
              \/ \E j \in DOMAIN fetches' : fetches'[j].key = k
              \/ [kind |-> "fetch", about |-> k] \in walk'.issues
    PROVE  Reservations'
<1>t. walk \in Walk
    BY DEF TypeOK
<1>1. walk'.reserved = walk.reserved /\ walk'.acquired = walk.acquired
  <2>1. CASE \/ UNCHANGED vars \/ EndMerge \/ EndAdmit \/ AddRequest \/ EndAnalyze
             \/ Group \/ EndPrepare \/ SkipFailed \/ EndReserve
             \/ Launch \/ (\E i \in DOMAIN fetches : Complete(i)) \/ EndFetch
    BY <2>1
    DEF vars, EndMerge, EndAdmit, AddRequest, EndAnalyze, Group, EndPrepare, SkipFailed,
        EndReserve, Launch, Complete, EndFetch
  <2>2. CASE Drop \/ Revisit \/ FirstVisit \/ OverLimit
    BY <1>t, <2>2, AdmitRecords, VisitsUntouched, ReservedUntouched
    DEF Drop, Revisit, FirstVisit, OverLimit, Admitting, SameVisits
  <2>3. CASE Merge \/ Analyze \/ LeaveOut \/ EndRequests
    BY <1>t, <2>3, VisitsUntouched, ReservedUntouched DEF Merge, Analyze, LeaveOut, EndRequests, SameVisits
  <2>4. CASE Refuse \/ ReuseAcquisition \/ RefuseOverLimit \/ TakeFailed
    BY <1>t, <2>4, VisitsUntouched, ReservedUntouched
    DEF Refuse, ReuseAcquisition, RefuseOverLimit, TakeFailed, SameVisits
  <2> QED
    BY <2>1, <2>2, <2>3, <2>4 DEF Next, NextFrontier, AnalyzeFrontier, FetchDependencies
<1>2. walk.issues \subseteq walk'.issues
    BY StepContinues DEF Continues
<1>3. Demanded(walk, made, limits.depth) \subseteq Demanded(walk', made', limits'.depth)
    BY WantedStays
<1>4. \A k \in walk.reserved :
         \/ k \in walk.acquired
         \/ \E j \in DOMAIN fetches' : fetches'[j].key = k
         \/ [kind |-> "fetch", about |-> k] \in walk'.issues
    BY <1>2 DEF Reservations
<1> QED
    BY <1>1, <1>3, <1>4 DEF Reservations

\* Only wanted keys are reserved; each is acquired, being fetched or reported.
LEMMA ReservationsStep ==
    TypeOK /\ Stages /\ Accounted /\ Keyed /\ Reservations /\ [Next]_vars => Reservations'
<1> SUFFICES ASSUME TypeOK, Stages, Accounted, Keyed, Reservations, [Next]_vars PROVE Reservations'
    OBVIOUS
<1>t. /\ walk \in Walk /\ groups \in Seq(Request) /\ fetches \in Seq(Fetch)
    BY DEF TypeOK
<1>d. /\ Demanded(walk, made, limits.depth) \subseteq Demanded(walk', made', limits'.depth)
      /\ walk.issues \subseteq walk'.issues
    BY WantedStays, StepContinues DEF Continues
<1>1. CASE fetches' = fetches /\ ~TakeFetched /\ ~Reserve
    BY <1>1, ReservationsKept
<1>2. CASE Launch \/ \E i \in DOMAIN fetches : Complete(i)
  <2>1. PICK i \in DOMAIN fetches, status \in {"running", "fetched", "failed"} :
           fetches' = [fetches EXCEPT ![i].status = status]
    BY <1>2 DEF Launch, Complete, NextToLaunch, Window
  <2>2. \A j \in DOMAIN fetches : fetches[j] \in Fetch
    BY <1>t
  <2>3. DOMAIN fetches' = DOMAIN fetches /\ \A j \in DOMAIN fetches : fetches'[j].key = fetches[j].key
    BY <2>1, <2>2 DEF Fetch
  <2>4. walk' = walk /\ UNCHANGED <<made, limits>>
    BY <1>2 DEF Launch, Complete
  <2> QED
    BY <2>3, <2>4 DEF Reservations
<1>3. CASE Reserve
  <2> DEFINE g == Head(groups)
             f == [key |-> g.key, variant |-> g.variant, contexts |-> g.contexts,
                   depth |-> g.depth, status |-> "waiting"]
             n == Len(fetches) + 1
  <2>1. /\ groups # <<>> /\ fetches' = Append(fetches, f) /\ walk' = ReserveKey(walk, g.key)
        /\ ~Revisitable(walk, g.key)
    BY <1>3 DEF Reserve, Reserving
  <2>2. g \in Request /\ 1 \in DOMAIN groups /\ g = groups[1]
    BY <1>t, <2>1, Tailed
  <2>3. f \in Fetch /\ f.key = g.key /\ g.key \in Keys
    BY <2>2 DEF Request, Fetch
  <2>4. g.key \in Demanded(walk, made, limits.depth)
    BY <2>1, <2>2, <2>3, DemandedWhenAsked DEF Keyed, Wanted, Revisitable
  <2> HIDE DEF f, g
  <2>5. /\ DOMAIN fetches' = DOMAIN fetches \cup {n} /\ fetches'[n] = f
        /\ \A j \in DOMAIN fetches : fetches'[j] = fetches[j]
    BY <1>t, <2>1, <2>3, Appended
  <2>6. walk'.reserved = walk.reserved \cup {g.key} /\ walk'.acquired = walk.acquired
    BY <1>t, <2>1, VisitsUntouched, ReservedUntouched DEF SameVisits
  <2> HIDE DEF n
  <2>7. walk'.reserved \subseteq Demanded(walk', made', limits'.depth)
    BY <1>d, <2>4, <2>6 DEF Reservations
  <2>8. \A k \in walk'.reserved :
          \/ k \in walk'.acquired
          \/ \E i \in DOMAIN fetches' : fetches'[i].key = k
          \/ [kind |-> "fetch", about |-> k] \in walk'.issues
    BY <1>d, <2>3, <2>5, <2>6 DEF Reservations
  <2> QED
    BY <2>6, <2>7, <2>8 DEF Reservations
<1>4. CASE TakeFetched
  <2>1. fetches # <<>> /\ fetches' = Tail(fetches) /\ walk' = EnqueueAcquired(walk, Head(fetches))
    BY <1>4 DEF TakeFetched
  <2>2. /\ 1 \in DOMAIN fetches /\ Head(fetches) = fetches[1]
        /\ \A i \in DOMAIN fetches : i # 1 => i - 1 \in DOMAIN fetches' /\ fetches'[i - 1] = fetches[i]
    BY <1>t, <2>1
  <2>3. walk'.acquired = walk.acquired \cup {fetches[1].key} /\ walk'.reserved = walk.reserved
    BY <1>t, <2>1, <2>2 DEF EnqueueAcquired, Walk
  <2>4. fetches[1].key \in walk.reserved
    BY <2>2 DEF Accounted
  <2>5. \A k \in walk'.reserved :
          \/ k \in walk'.acquired
          \/ \E i \in DOMAIN fetches' : fetches'[i].key = k
          \/ [kind |-> "fetch", about |-> k] \in walk'.issues
    <3>1. walk'.issues = walk.issues
      BY <1>t, <2>1, <2>2 DEF EnqueueAcquired, Walk
    <3>2. ASSUME NEW k \in walk.reserved
          PROVE  \/ k \in walk'.acquired
                 \/ \E i \in DOMAIN fetches' : fetches'[i].key = k
                 \/ [kind |-> "fetch", about |-> k] \in walk'.issues
      <4>1. CASE k \in walk.acquired \/ [kind |-> "fetch", about |-> k] \in walk.issues
        BY <2>3, <3>1, <4>1
      <4>2. ASSUME NEW i \in DOMAIN fetches, fetches[i].key = k
            PROVE  k \in walk'.acquired \/ \E j \in DOMAIN fetches' : fetches'[j].key = k
        BY <2>2, <2>3, <4>2
      <4> QED
        BY <1>d, <4>1, <4>2 DEF Reservations
    <3> QED
      BY <2>3, <3>2
  <2> QED
    BY <1>d, <2>3, <2>4, <2>5 DEF Reservations
<1>5. CASE TakeFailed
  <2>1. /\ fetches # <<>> /\ fetches' = Tail(fetches)
        /\ walk' = ReportIssue(walk, "fetch", Head(fetches).key)
    BY <1>5 DEF TakeFailed
  <2>2. /\ 1 \in DOMAIN fetches /\ Head(fetches) = fetches[1]
        /\ \A i \in DOMAIN fetches : i # 1 => i - 1 \in DOMAIN fetches' /\ fetches'[i - 1] = fetches[i]
    BY <1>t, <2>1
  <2>3. /\ [kind |-> "fetch", about |-> fetches[1].key] \in walk'.issues
        /\ walk'.reserved = walk.reserved /\ walk'.acquired = walk.acquired
    BY <1>t, <2>1, <2>2 DEF ReportIssue, Walk
  <2> QED
    BY <1>d, <2>2, <2>3 DEF Reservations
<1>6. \/ fetches' = fetches /\ ~TakeFetched /\ ~Reserve
      \/ Launch \/ (\E i \in DOMAIN fetches : Complete(i)) \/ Reserve \/ TakeFetched \/ TakeFailed
    BY DEF Next, NextFrontier, AnalyzeFrontier, FetchDependencies, vars, Merge, EndMerge, Drop, Revisit,
           FirstVisit, OverLimit, EndAdmit, Analyze, AddRequest, LeaveOut, EndRequests, EndAnalyze,
           Refuse, Group, EndPrepare, ReuseAcquisition, SkipFailed, RefuseOverLimit, EndReserve, EndFetch
<1> QED
    BY <1>1, <1>2, <1>3, <1>4, <1>5, <1>6

-----------------------------------------------------------------------------
(* What the walk holds answers for what it was asked.                          *)

Grounding == Tracked(walk, phase = "request", Start)

\* The package the walk starts with has one id, whatever is acquired.
LEMMA StartConsistent == Consistent(Start)
<1>1. Start \in Metadata
    BY SingleAssumption DEF Start, Metadata
<1>2. Start.source = Root
    BY SingleAssumption DEF Start
<1> QED
    BY <1>1, <1>2, SingleAssumption DEF Consistent

\* A new walk answers for its root.
LEMMA GroundingInit == Init => Grounding
<1> SUFFICES ASSUME Init PROVE Grounding
    OBVIOUS
<1>1. Root \in Sources /\ RootMetadata \in Metadata \cup {None}
    BY SingleAssumption DEF Metadata
<1>2. /\ Start.source = Root
      /\ RootMetadata = None => Start.id = None
      /\ RootMetadata # None => RootMetadata = Start
    BY SingleAssumption DEF Start
<1>3. Tracked(walk, FALSE, Start)
    BY <1>1, <1>2, StartConsistent, TrackedNew DEF Init
<1> QED
    BY <1>3 DEF Grounding, Init

\* The steps that move entries of the walk.
Moves ==
    Merge \/ Drop \/ Revisit \/ FirstVisit \/ OverLimit \/ Analyze \/ EndRequests \/ ReuseAcquisition \/ TakeFetched

\* All others leave the frontier, the queue and what is visited alone, and lose no issue.
LEMMA StillSteps ==
    ASSUME TypeOK, [Next]_vars, ~Moves
    PROVE  /\ SameEntries(walk, walk') /\ SameVisits(walk, walk')
           /\ walk.issues \subseteq walk'.issues
           /\ phase' = "request" <=> phase = "request"
<1>t. walk \in Walk
    BY DEF TypeOK
<1>s. SameEntries(walk, walk) /\ SameVisits(walk, walk)
    BY DEF SameEntries, SameVisits
<1>1. CASE \/ UNCHANGED vars \/ EndMerge \/ EndAdmit \/ AddRequest \/ EndAnalyze
           \/ Group \/ EndPrepare \/ SkipFailed \/ EndReserve
           \/ Launch \/ (\E i \in DOMAIN fetches : Complete(i)) \/ EndFetch
    BY <1>1, <1>s
    DEF vars, EndMerge, EndAdmit, AddRequest, EndAnalyze, Group, Preparing, EndPrepare, SkipFailed,
        Reserving, EndReserve, Launch, Complete, EndFetch
<1>2. CASE LeaveOut \/ Refuse \/ Reserve \/ RefuseOverLimit \/ TakeFailed
    BY <1>t, <1>2, EntriesUntouched, VisitsUntouched
    DEF LeaveOut, Refuse, Preparing, Reserve, RefuseOverLimit, Reserving, TakeFailed
<1> QED
    BY <1>1, <1>2 DEF Next, NextFrontier, AnalyzeFrontier, FetchDependencies, Moves

\* Every step keeps what the walk answers for, until it stops at the limit.
StillHeld ==
    ~LimitReported(walk') =>
        \A t, C : \A e \in Nat :
            Belongs(Start, t) /\ Held(walk, phase = "request", t, C, e)
                => Held(walk', phase' = "request", t, C, e)

\* What is queued for a request is what it asked for.
LEMMA QueueingHolds ==
    ASSUME TypeOK, Stages, Accounted, Reservations, Grounding, ReuseAcquisition \/ TakeFetched,
           NEW r, r = IF ReuseAcquisition THEN Head(groups) ELSE Head(fetches)
    PROVE  /\ Grounding' /\ StillHeld
           /\ Held(walk', FALSE, Target(walk', r.key), r.contexts, r.depth)
<1>t. walk \in Walk /\ groups \in Seq(Request) /\ fetches \in Seq(Fetch)
    BY DEF TypeOK
<1>1. phase # "request" /\ phase' # "request"
    BY DEF ReuseAcquisition, Reserving, TakeFetched
<1>2. r.key \in Keys /\ r.depth \in Nat /\ r.contexts \subseteq Contexts
  <2>1. CASE ReuseAcquisition
    <3>1. r \in Request
      BY <1>t, <2>1, Tailed DEF ReuseAcquisition, Reserving
    <3> QED
      BY <3>1 DEF Request
  <2>2. CASE ~ReuseAcquisition
    <3>1. r \in Fetch
      BY <1>t, <2>2, Tailed DEF TakeFetched
    <3> QED
      BY <3>1 DEF Fetch
  <2> QED
    BY <2>1, <2>2
<1>3. \A k \in walk.reserved : ~NamesRoot(walk, k)
    BY DEF Reservations, Demanded
<1>4. \/ walk' = EnqueueAcquired(walk, r) /\ ~NamesRoot(walk, r.key)
      \/ /\ walk' = EnqueueRevisit(walk, r) /\ Revisitable(walk, r.key)
         /\ r.key \in walk.acquired => ~NamesRoot(walk, r.key)
  <2>1. CASE ReuseAcquisition
    BY <1>3, <2>1 DEF ReuseAcquisition, Reservations
  <2>2. CASE ~ReuseAcquisition
    <3>1. walk' = EnqueueAcquired(walk, r) /\ fetches # <<>> /\ r = Head(fetches)
      BY <2>2 DEF TakeFetched
    <3>2. 1 \in DOMAIN fetches /\ r = fetches[1]
      BY <1>t, <3>1
    <3>3. r.key \in walk.reserved
      BY <3>2 DEF Accounted
    <3> QED
      BY <1>3, <3>1, <3>3
  <2> QED
    BY <2>1, <2>2
<1>5. Tracked(walk, FALSE, Start)
    BY <1>1 DEF Grounding
<1>6. /\ Tracked(walk', FALSE, Start)
      /\ \A t, C, e : Held(walk, FALSE, t, C, e) => Held(walk', FALSE, t, C, e)
      /\ Held(walk', FALSE, Target(walk, r.key), r.contexts, r.depth)
    BY <1>t, <1>2, <1>4, <1>5, StartConsistent, EnqueueHolds
<1>7. Target(walk', r.key) = Target(walk, r.key)
  <2>1. walk'.root = walk.root
    BY <1>t, <1>4, EveryIterationContinues DEF Continues
  <2> QED
    BY <2>1 DEF Target, NamesRoot
<1> QED
    BY <1>1, <1>6, <1>7 DEF Grounding, StillHeld

\* Every entry stands for the root or for something acquired, what was visited is
\* or will be in the report, and no step loses an answer.
LEMMA GroundingStep ==
    TypeOK /\ Stages /\ Levels /\ Accounted /\ Reservations /\ Grounding /\ [Next]_vars => Grounding' /\ StillHeld
<1> SUFFICES ASSUME TypeOK, Stages, Levels, Accounted, Reservations, Grounding, [Next]_vars
             PROVE  Grounding' /\ StillHeld
    OBVIOUS
<1>t. walk \in Walk
    BY DEF TypeOK
<1>d. PICK d \in Nat : LevelAt(d) /\ NoDeeper(walk, phase = "request", d)
    BY DEF Levels
<1>c. Consistent(Start)
    BY StartConsistent
<1>1. CASE ~Moves
  <2> DEFINE l == phase = "request"
             m == phase' = "request"
  <2>1. SameEntries(walk, walk') /\ SameVisits(walk, walk') /\ walk.issues \subseteq walk'.issues /\ m = l
    BY <1>1, StillSteps
  <2>2. Tracked(walk, l, Start)
    BY DEF Grounding
  <2> SUFFICES Tracked(walk', m, Start)
               /\ \A t, C : \A e \in Nat : Belongs(Start, t) /\ Held(walk, l, t, C, e) => Held(walk', m, t, C, e)
    BY DEF Grounding, StillHeld
  <2> HIDE DEF l, m
  <2>3. /\ Tracked(walk', l, Start)
        /\ \A t, C, e : Held(walk, l, t, C, e) => Held(walk', l, t, C, e)
    BY <2>1, <2>2, SameHolds
  <2> QED
    BY <2>1, <2>3
<1>2. CASE Merge
  <2>1. /\ phase = "merge" /\ phase' = "merge" /\ MoreToMerge(walk) /\ walk' = MergeNext(walk)
        /\ AtDepth(walk.queue, d) /\ AtDepth(walk.merged, d)
    BY <1>d, <1>2 DEF Merge, LevelAt
  <2>2. Tracked(walk, FALSE, Start)
    BY <2>1 DEF Grounding
  <2>3. /\ Tracked(walk', FALSE, Start)
        /\ \A t, C, e : Belongs(Start, t) /\ Held(walk, FALSE, t, C, e) => Held(walk', FALSE, t, C, e)
    BY <1>t, <1>c, <2>1, <2>2, MergeHolds
  <2> QED
    BY <2>1, <2>3 DEF Grounding, StillHeld
<1>3. CASE Drop \/ Revisit \/ FirstVisit \/ OverLimit
  <2> DEFINE p == Head(walk.merged)
  <2>1. /\ phase = "admit" /\ phase' = "admit" /\ walk.merged # <<>>
        /\ \/ walk' = DropRevisit(walk) /\ Visited(walk, p) /\ NewContexts(walk, p) = {}
           \/ walk' = AdmitRevisit(walk) /\ Visited(walk, p)
           \/ walk' = AdmitFirstVisit(walk)
           \/ walk' = BreakAtLimit(walk)
    BY <1>3 DEF Drop, Revisit, FirstVisit, OverLimit, Admitting
  <2>2. Tracked(walk, FALSE, Start) /\ AtDepth(walk.merged, d) /\ NoDeeper(walk, FALSE, d)
    BY <1>d, <2>1 DEF Grounding, LevelAt
  <2>3. Tracked(walk', FALSE, Start)
    BY <1>t, <1>c, <2>1, <2>2, AdmitTracked
  <2>4. ASSUME ~LimitReported(walk')
        PROVE  \A t, C : \A e \in Nat :
                  Belongs(Start, t) /\ Held(walk, FALSE, t, C, e) => Held(walk', FALSE, t, C, e)
    <3>1. walk' # BreakAtLimit(walk)
      BY <1>t, <2>1, <2>4, AdmitRecords
    <3>2. ~LimitReported(walk)
      BY <2>4, LimitStays, StepContinues DEF Continues
    <3> HIDE DEF p
    <3> QED
      BY <1>t, <1>c, <2>1, <2>2, <3>1, <3>2, AdmitHolds DEF p
  <2> QED
    BY <2>1, <2>3, <2>4 DEF Grounding, StillHeld
<1>4. CASE Analyze
  <2>1. phase = "analyze" /\ phase' = "request" /\ walk.frontier # <<>> /\ walk' = AnalyzeNext(walk)
    BY <1>4 DEF Analyze
  <2>2. Tracked(walk, FALSE, Start)
    BY <2>1 DEF Grounding
  <2>3. /\ Tracked(walk', TRUE, Start)
        /\ \A t, C, e : Held(walk, FALSE, t, C, e) => Held(walk', TRUE, t, C, e)
    BY <1>t, <2>1, <2>2, AnalyzeHolds
  <2> QED
    BY <2>1, <2>3 DEF Grounding, StillHeld
<1>5. CASE EndRequests
  <2>1. phase = "request" /\ phase' = "analyze" /\ walk.frontier # <<>> /\ walk' = LeaveFrontierHead(walk)
    BY <1>5 DEF EndRequests, Stages
  <2>2. Tracked(walk, TRUE, Start)
    BY <2>1 DEF Grounding
  <2>3. /\ Tracked(walk', FALSE, Start)
        /\ \A t, C, e : Held(walk, TRUE, t, C, e) => Held(walk', FALSE, t, C, e)
    BY <1>t, <2>1, <2>2, AnalyzeHolds
  <2> QED
    BY <2>1, <2>3 DEF Grounding, StillHeld
<1>6. CASE ReuseAcquisition \/ TakeFetched
    BY <1>6, QueueingHolds
<1> QED
    BY <1>1, <1>2, <1>3, <1>4, <1>5, <1>6 DEF Moves

-----------------------------------------------------------------------------
(* Every dependency found is followed, or the report names the limit.          *)

Asking == EntriesOf(requests) \cup EntriesOf(groups) \cup EntriesOf(fetches)

Followed ==
    \/ LimitReported(walk)
    \/ Following(walk, phase = "request", Asking, made, limits.depth, found)

\* Requests, groups and fetches are about keys, at depths.
LEMMA AskingTyped ==
    ASSUME TypeOK PROVE Wishes(Asking)
<1>1. /\ \A i \in DOMAIN requests : requests[i] \in Request
      /\ \A i \in DOMAIN groups : groups[i] \in Request
      /\ \A i \in DOMAIN fetches : fetches[i] \in Fetch
    BY DEF TypeOK
<1> QED
    BY <1>1 DEF Wishes, Asking, EntriesOf, Request, Fetch

\* Nothing was found at first.
LEMMA FollowedInit == Init => Followed
<1> SUFFICES ASSUME Init PROVE Followed
    OBVIOUS
<1>1. walk.discovered = <<>>
    BY NewIsShallow DEF Init
<1>2. DOMAIN walk.discovered = {}
    BY <1>1
<1> QED
    BY <1>2 DEF Followed, Following

\* A step that discovers nothing keeps following when it answers, in one way or
\* another, every request there was.
LEMMA FollowedKept ==
    ASSUME TypeOK, TypeOK', Stages, Levels, Accounted, Reservations, Grounding, Followed, [Next]_vars, ~Analyze,
           ~LimitReported(walk') =>
              \A r \in Asking : Served(walk', phase' = "request", Asking', r.key, r.contexts, r.depth)
    PROVE  \/ LimitReported(walk')
           \/ Following(walk', phase' = "request", Asking', made', limits'.depth, found)
<1> SUFFICES ASSUME ~LimitReported(walk')
             PROVE  Following(walk', phase' = "request", Asking', made', limits'.depth, found)
    OBVIOUS
<1> DEFINE l == phase = "request"
           m == phase' = "request"
<1>1. walk \in Walk /\ walk' \in Walk /\ made \subseteq DOMAIN Declarations
    BY SingleAssumption DEF TypeOK
<1>2. Wishes(Asking) /\ Wishes(Asking')
  <2>1. ASSUME TypeOK' PROVE Wishes(Asking)'
    BY <2>1, AskingTyped, PTL
  <2> QED
    BY AskingTyped, <2>1
<1>3. Continues(walk, walk') /\ walk'.discovered = walk.discovered /\ UNCHANGED <<made, limits>>
    BY StepContinues
<1>4. ~LimitReported(walk)
    BY <1>3, LimitStays DEF Continues
<1>5. /\ Tracked(walk, l, Start)
      /\ \A t, C : \A e \in Nat : Belongs(Start, t) /\ Held(walk, l, t, C, e) => Held(walk', m, t, C, e)
    BY GroundingStep DEF Grounding, StillHeld
<1>6. Following(walk, l, Asking, made, limits.depth, found)
    BY <1>4 DEF Followed
<1>7. \A r \in Asking : Served(walk', m, Asking', r.key, r.contexts, r.depth)
    OBVIOUS
<1> SUFFICES Following(walk', m, Asking', made, limits.depth, found)
    BY <1>3
<1> DEFINE after == Asking'
           D == limits.depth
<1> SUFFICES Following(walk', m, after, made, D, found)
    OBVIOUS
<1>8. Wishes(after) /\ \A r \in Asking : Served(walk', m, after, r.key, r.contexts, r.depth)
    BY <1>2, <1>7
<1>9. Following(walk, l, Asking, made, D, found)
    BY <1>6
<1> HIDE DEF l, m, after, D
<1> QED
    BY <1>1, <1>2, <1>3, <1>5, <1>8, <1>9, StartConsistent, FollowingKept

\* A dependency found is held, asked for, excused or comes next: no step loses one.
LEMMA FollowedStep ==
    /\ TypeOK /\ Stages /\ Levels /\ Accounted /\ Headed /\ Keyed /\ Reservations /\ Grounding
    /\ Followed /\ [Next]_vars
    => Followed'
<1> SUFFICES ASSUME TypeOK, Stages, Levels, Accounted, Headed, Keyed, Reservations, Grounding, Followed,
                    [Next]_vars
             PROVE  Followed'
    OBVIOUS
<1>t. /\ walk \in Walk /\ requests \in Seq(Request) /\ groups \in Seq(Request)
      /\ fetches \in Seq(Fetch) /\ found \subseteq DOMAIN Declarations
    BY DEF TypeOK
<1>v. TypeOK'
    BY TypeStep
<1>w. Wishes(Asking')
  <2>1. ASSUME TypeOK' PROVE Wishes(Asking)'
    BY <2>1, AskingTyped, PTL
  <2> QED
    BY <1>v, <2>1
<1>c. Continues(walk, walk') /\ UNCHANGED <<made, limits>>
    BY StepContinues
<1> DEFINE m == phase' = "request"
           after == Asking'
           Met(r) == Served(walk', m, after, r.key, r.contexts, r.depth)
<1>m. Wishes(after)
    BY <1>w
<1>0. ASSUME ~Analyze, found' = found, ~LimitReported(walk') => \A r \in Asking : Met(r)
      PROVE  Followed'
  <2>1. LimitReported(walk') \/ Following(walk', m, after, made', limits'.depth, found)
    BY <1>0, <1>v, FollowedKept
  <2> QED
    BY <1>0, <2>1 DEF Followed
<1>s. ASSUME NEW r \in after PROVE Met(r)
  <2> HIDE DEF after, m
  <2> QED
    BY <1>m, <1>s, ServedByRequest
<1>x. ASSUME NEW r, Excused(walk', r.key) PROVE Met(r)
    BY <1>x DEF Served
<1>y. ASSUME NEW r, NEW q \in after, q.key = r.key, r.contexts \subseteq q.contexts, q.depth = r.depth,
             r.depth \in Nat
      PROVE  Met(r)
  <2>1. q.depth <= r.depth
    BY <1>y
  <2> HIDE DEF after, m
  <2> QED
    BY <1>y, <2>1 DEF Served
<1>d. \A r \in Asking : r.depth \in Nat
    BY AskingTyped DEF Wishes
<1> HIDE DEF Met
<1>1. CASE UNCHANGED <<requests, groups, fetches, found>> /\ ~Analyze
  <2>1. after = Asking
    BY <1>1 DEF Asking
  <2> QED
    BY <1>0, <1>1, <1>s, <2>1
<1>2. CASE Analyze
  <2>1. /\ phase = "analyze" /\ phase' = "request" /\ walk.frontier # <<>> /\ walk' = AnalyzeNext(walk)
        /\ found' = DependenciesOf(walk, made, limits.depth) /\ found = {}
        /\ UNCHANGED <<requests, groups, fetches>>
    BY <1>2 DEF Analyze, Headed
  <2>2. CASE LimitReported(walk)
    BY <2>2, <1>c, LimitStays DEF Followed, Continues
  <2>3. CASE ~LimitReported(walk)
    <3>1. Following(walk, FALSE, Asking, made, limits.depth, {}) /\ Tracked(walk, FALSE, Start)
      BY <2>1, <2>3 DEF Followed, Grounding
    <3>2. walk' \in Walk /\ made \subseteq DOMAIN Declarations
      BY <1>v, SingleAssumption DEF TypeOK
    <3>3. Following(walk', TRUE, Asking, made, limits.depth, DependenciesOf(walk, made, limits.depth))
      BY <1>t, <2>1, <3>1, <3>2, AskingTyped, StartConsistent, FollowingAnalyzed
    <3>4. after = Asking
      BY <2>1 DEF Asking
    <3> QED
      BY <1>c, <2>1, <3>3, <3>4 DEF Followed
  <2> QED
    BY <2>2, <2>3
<1>3. CASE AddRequest \/ LeaveOut
  <2>1. /\ phase = "request" /\ phase' = "request" /\ UNCHANGED <<groups, fetches>> /\ ~Analyze
        /\ \E i \in FirstOf(found) :
              /\ found' = found \ {i}
              /\ \/ Requested(i) /\ requests' = Append(requests, RequestFor(walk, i)) /\ walk' = walk
                 \/ ~Requested(i) /\ requests' = requests /\ walk' = NoteUnrequested(walk, i)
    BY <1>3 DEF AddRequest, LeaveOut, Analyze
  <2>2. PICK i \in FirstOf(found) :
              /\ found' = found \ {i}
              /\ \/ Requested(i) /\ requests' = Append(requests, RequestFor(walk, i)) /\ walk' = walk
                 \/ ~Requested(i) /\ requests' = requests /\ walk' = NoteUnrequested(walk, i)
    BY <2>1
  <2> DEFINE q == RequestFor(walk, i)
             N == Len(walk.discovered)
  <2>3. i \in DOMAIN Declarations /\ i \in found /\ walk.frontier # <<>>
    BY <1>t, <2>1 DEF FirstOf, Stages
  <2>4. N \in DOMAIN walk.discovered /\ walk.discovered[N] = Head(walk.frontier)
    BY <2>1 DEF Headed
  <2>5. q \in Request
    BY <1>t, <2>3, RequestType
  <2>6. EntriesOf(requests) \subseteq EntriesOf(requests')
    <3> HIDE DEF q
    <3>1. EntriesOf(Append(requests, q)) = EntriesOf(requests) \cup {q}
      BY <1>t, <2>5, EntriesAppended
    <3> QED
      BY <2>2, <3>1 DEF q
  <2>7. Asking \subseteq after
    BY <2>1, <2>6 DEF Asking
  <2>8. LimitReported(walk') \/ Following(walk', m, after, made', limits'.depth, found)
    BY <1>v, <1>s, <2>1, <2>7, FollowedKept DEF Met
  <2>9. walk'.discovered = walk.discovered
    BY <2>1, StepContinues
  <2>10. Wished(walk', m, after, N, i)
    <3>1. CASE Requested(i) /\ requests' = Append(requests, q)
      <4>1. /\ q.key = Declarations[i].key /\ q.contexts = Declarations[i].contexts
            /\ q.depth = Head(walk.frontier).depth + 1
        BY DEF RequestFor
      <4> HIDE DEF q
      <4>2. q \in EntriesOf(requests')
        BY <1>t, <2>5, <3>1, EntriesAppended
      <4>3. q \in after
        BY <4>2 DEF Asking
      <4>4. Met(q)
        BY <4>3, <1>s
      <4> QED
        BY <2>4, <2>9, <4>1, <4>4 DEF Wished, Met
    <3>2. CASE ~Requested(i) /\ walk' = NoteUnrequested(walk, i)
      <4>0. Declarations[i] \in Declaration
        BY <2>3, TraversalAssumption
      <4>1. Declarations[i].key \in Keys
        BY <4>0 DEF Declaration
      <4>2. Gate[Declarations[i].key] \in {"ignored", "unresolved"}
        BY <3>2, <4>1, TraversalAssumption DEF Requested, Gates
      <4>3. Excused(walk', Declarations[i].key)
        BY <1>t, <3>2, <4>2 DEF Excused, NoteUnrequested, Walk
      <4> QED
        BY <4>3 DEF Wished, Served
    <3> QED
      BY <2>2, <3>1, <3>2
  <2> HIDE DEF m, after, N
  <2>11. LimitReported(walk') \/ Following(walk', m, after, made', limits'.depth, found \ {i})
    BY <2>8, <2>9, <2>10, FollowingFewer DEF N
  <2> QED
    BY <2>2, <2>11 DEF Followed, m, after
<1>4. CASE Refuse
  <2> DEFINE q == Head(requests)
  <2>1. /\ requests # <<>> /\ requests' = Tail(requests) /\ UNCHANGED <<groups, fetches, found>> /\ ~Analyze
        /\ walk' = ReportIssue(walk, "preparation", q.key)
    BY <1>4 DEF Refuse, Preparing, Analyze
  <2>2. EntriesOf(requests) = EntriesOf(requests') \cup {q}
    BY <1>t, <2>1, EntriesTailed
  <2>3. [kind |-> "preparation", about |-> q.key] \in walk'.issues
    BY <1>t, <2>1 DEF ReportIssue, Walk
  <2>4. Excused(walk', q.key)
    BY <2>3 DEF Excused
  <2> HIDE DEF q
  <2>5. \A r \in Asking : r = q \/ r \in after
    BY <2>1, <2>2 DEF Asking
  <2> QED
    BY <1>0, <1>s, <1>x, <2>1, <2>4, <2>5
<1>5. CASE Group
  <2> DEFINE q == Head(requests)
  <2>1. /\ requests # <<>> /\ requests' = Tail(requests) /\ UNCHANGED <<walk, fetches, found>> /\ ~Analyze
    BY <1>5 DEF Group, Preparing, Analyze
  <2>2. EntriesOf(requests) = EntriesOf(requests') \cup {q} /\ q \in Request
    BY <1>t, <2>1, EntriesTailed, Tailed
  <2>3. /\ \A r \in EntriesOf(groups) : \E s \in EntriesOf(groups') :
              s.key = r.key /\ r.contexts \subseteq s.contexts /\ s.depth = r.depth
        /\ \E s \in EntriesOf(groups') : s.key = q.key /\ q.contexts \subseteq s.contexts /\ s.depth = q.depth
    <3>1. CASE \A i \in DOMAIN groups : groups[i].key # q.key
      <4>1. groups' = Append(groups, q)
        BY <1>5, <3>1 DEF Group
      <4> HIDE DEF q
      <4>2. EntriesOf(groups') = EntriesOf(groups) \cup {q}
        BY <1>t, <2>2, <4>1, EntriesAppended
      <4> QED
        BY <4>2
    <3>2. CASE ~\A i \in DOMAIN groups : groups[i].key # q.key
      <4>1. groups' = [i \in DOMAIN groups |->
                         IF i \in {j \in DOMAIN groups : groups[j].key = q.key}
                         THEN [groups[i] EXCEPT !.contexts = @ \cup q.contexts]
                         ELSE groups[i]]
        BY <1>5, <3>2 DEF Group
      <4>2. \A i \in DOMAIN groups : groups[i] \in Request
        BY <1>t
      <4> HIDE DEF q
      <4>3. /\ DOMAIN groups' = DOMAIN groups
            /\ \A i \in DOMAIN groups :
                 /\ groups'[i].key = groups[i].key /\ groups'[i].depth = groups[i].depth
                 /\ groups[i].contexts \subseteq groups'[i].contexts
                 /\ groups[i].key = q.key => q.contexts \subseteq groups'[i].contexts
        BY <4>1, <4>2 DEF Request
      <4>4. PICK j \in DOMAIN groups : groups[j].key = q.key
        BY <3>2
      <4>5. groups[j].depth = q.depth
        <5>1. PICK d \in Nat : LevelAt(d)
          BY DEF Levels
        <5>2. 1 \in DOMAIN requests /\ q = requests[1]
          BY <1>t, <2>1, Tailed DEF q
        <5> QED
          BY <4>4, <5>1, <5>2 DEF LevelAt, AtDepth
      <4> QED
        BY <4>3, <4>4, <4>5 DEF EntriesOf
    <3> QED
      BY <3>1, <3>2
  <2> HIDE DEF q
  <2>4. ASSUME NEW r \in Asking PROVE Met(r)
    <3>1. EntriesOf(groups') \subseteq after /\ EntriesOf(requests') \subseteq after /\ EntriesOf(fetches) \subseteq after
      BY <2>1 DEF Asking
    <3>2. CASE r \in EntriesOf(requests') \cup EntriesOf(fetches)
      BY <1>s, <3>1, <3>2
    <3>3. CASE r \in EntriesOf(groups) \cup {q}
      <4>1. PICK s \in EntriesOf(groups') : s.key = r.key /\ r.contexts \subseteq s.contexts /\ s.depth = r.depth
        BY <2>3, <3>3
      <4>2. s \in after /\ r.depth \in Nat
        BY <1>d, <2>4, <3>1
      <4> HIDE DEF after
      <4> QED
        BY <1>y, <4>1, <4>2
    <3> QED
      BY <2>2, <3>2, <3>3 DEF Asking
  <2> QED
    BY <1>0, <2>1, <2>4
<1>6. CASE ReuseAcquisition
  <2> DEFINE q == Head(groups)
  <2>1. /\ groups # <<>> /\ groups' = Tail(groups) /\ UNCHANGED <<requests, fetches, found>> /\ ~Analyze
        /\ phase' # "request"
    BY <1>6 DEF ReuseAcquisition, Reserving, Analyze
  <2>2. EntriesOf(groups) = EntriesOf(groups') \cup {q}
    BY <1>t, <2>1, EntriesTailed
  <2>3. Held(walk', FALSE, Target(walk', q.key), q.contexts, q.depth)
    BY <1>6, QueueingHolds
  <2>4. Met(q)
    BY <2>1, <2>3 DEF Served, Met
  <2> HIDE DEF q
  <2>5. \A r \in Asking : r = q \/ r \in after
    BY <2>1, <2>2 DEF Asking
  <2> QED
    BY <1>0, <1>s, <2>1, <2>4, <2>5
<1>7. CASE SkipFailed
  <2> DEFINE q == Head(groups)
  <2>1. /\ groups # <<>> /\ groups' = Tail(groups) /\ UNCHANGED <<walk, requests, fetches, found>> /\ ~Analyze
        /\ ~Revisitable(walk, q.key) /\ q.key \in walk.reserved
    BY <1>7 DEF SkipFailed, Reserving, Analyze
  <2>2. EntriesOf(groups) = EntriesOf(groups') \cup {q} /\ 1 \in DOMAIN groups /\ q = groups[1]
    BY <1>t, <2>1, EntriesTailed, Tailed
  <2>3. [kind |-> "fetch", about |-> q.key] \in walk'.issues
    BY <2>1, <2>2 DEF Keyed, Reservations, Revisitable
  <2>4. Excused(walk', q.key)
    BY <2>3 DEF Excused
  <2> HIDE DEF q
  <2>5. \A r \in Asking : r = q \/ r \in after
    BY <2>1, <2>2 DEF Asking
  <2> QED
    BY <1>0, <1>s, <1>x, <2>1, <2>4, <2>5
<1>8. CASE Reserve
  <2> DEFINE q == Head(groups)
             f == [key |-> q.key, variant |-> q.variant, contexts |-> q.contexts,
                   depth |-> q.depth, status |-> "waiting"]
  <2>1. /\ groups # <<>> /\ groups' = Tail(groups) /\ fetches' = Append(fetches, f)
        /\ UNCHANGED <<requests, found>> /\ ~Analyze
    BY <1>8 DEF Reserve, Reserving, Analyze
  <2>2. EntriesOf(groups) = EntriesOf(groups') \cup {q} /\ q \in Request
    BY <1>t, <2>1, EntriesTailed, Tailed
  <2>3. f \in Fetch /\ f.key = q.key /\ f.contexts = q.contexts /\ f.depth = q.depth /\ q.depth \in Nat
    BY <2>2 DEF Request, Fetch
  <2> HIDE DEF f, q
  <2>4. EntriesOf(fetches') = EntriesOf(fetches) \cup {f}
    BY <1>t, <2>1, <2>3, EntriesAppended
  <2>5. f \in after /\ \A r \in Asking : r = q \/ r \in after
    BY <2>1, <2>2, <2>4 DEF Asking
  <2>6. Met(q)
    <3> HIDE DEF after
    <3> QED
      BY <1>y, <2>3, <2>5
  <2> QED
    BY <1>0, <1>s, <2>1, <2>5, <2>6
<1>9. CASE RefuseOverLimit
  <2>1. LimitReported(walk')
    <3>1. [kind |-> "packages", about |-> None] \in walk'.issues
      BY <1>t, <1>9 DEF RefuseOverLimit, ReportIssue, Walk
    <3> QED
      BY <3>1 DEF LimitReported
  <2> QED
    BY <2>1 DEF Followed
<1>10. CASE Launch \/ \E i \in DOMAIN fetches : Complete(i)
  <2>1. PICK i \in DOMAIN fetches, status \in {"running", "fetched", "failed"} :
           fetches' = [fetches EXCEPT ![i].status = status]
    BY <1>10 DEF Launch, Complete, NextToLaunch, Window
  <2>2. UNCHANGED <<walk, requests, groups, found>> /\ ~Analyze
    BY <1>10 DEF Launch, Complete, Analyze
  <2>3. \A j \in DOMAIN fetches : fetches[j] \in Fetch
    BY <1>t
  <2>4. /\ DOMAIN fetches' = DOMAIN fetches
        /\ \A j \in DOMAIN fetches : /\ fetches'[j].key = fetches[j].key
                                     /\ fetches'[j].contexts = fetches[j].contexts
                                     /\ fetches'[j].depth = fetches[j].depth
    BY <2>1, <2>3 DEF Fetch
  <2>5. ASSUME NEW r \in EntriesOf(fetches) PROVE Met(r)
    <3>1. PICK j \in DOMAIN fetches : r = fetches[j]
      BY <2>5 DEF EntriesOf
    <3>2. fetches'[j] \in EntriesOf(fetches')
      BY <2>4 DEF EntriesOf
    <3>3. fetches'[j] \in after /\ r.depth \in Nat
      BY <1>d, <2>5, <3>2 DEF Asking
    <3> HIDE DEF after
    <3> QED
      BY <1>y, <2>4, <3>1, <3>3
  <2>6. EntriesOf(requests) \subseteq after /\ EntriesOf(groups) \subseteq after
    BY <2>2 DEF Asking
  <2>7. \A r \in Asking : Met(r)
    BY <1>s, <2>5, <2>6 DEF Asking
  <2> QED
    BY <1>0, <2>2, <2>7
<1>11. CASE TakeFetched \/ TakeFailed
  <2> DEFINE q == Head(fetches)
  <2>1. /\ fetches # <<>> /\ fetches' = Tail(fetches) /\ UNCHANGED <<requests, groups, found>> /\ ~Analyze
        /\ phase' # "request"
    BY <1>11 DEF TakeFetched, TakeFailed, Analyze
  <2>2. EntriesOf(fetches) = EntriesOf(fetches') \cup {q}
    BY <1>t, <2>1, EntriesTailed
  <2>3. Met(q)
    <3>1. CASE TakeFetched
      <4>1. ~ReuseAcquisition
        BY <3>1 DEF TakeFetched, ReuseAcquisition, Reserving
      <4>2. Held(walk', FALSE, Target(walk', q.key), q.contexts, q.depth)
        BY <3>1, <4>1, QueueingHolds
      <4> QED
        BY <2>1, <4>2 DEF Served, Met
    <3>2. CASE TakeFailed
      <4>1. [kind |-> "fetch", about |-> q.key] \in walk'.issues
        BY <1>t, <3>2 DEF TakeFailed, ReportIssue, Walk
      <4>2. Excused(walk', q.key)
        BY <4>1 DEF Excused
      <4> HIDE DEF q
      <4> QED
        BY <1>x, <4>2
    <3> QED
      BY <1>11, <3>1, <3>2
  <2> HIDE DEF q
  <2>4. \A r \in Asking : r = q \/ r \in after
    BY <2>1, <2>2 DEF Asking
  <2> QED
    BY <1>0, <1>s, <2>1, <2>3, <2>4
<1>12. \/ UNCHANGED <<requests, groups, fetches, found>> /\ ~Analyze
       \/ Analyze \/ AddRequest \/ LeaveOut \/ Refuse \/ Group \/ ReuseAcquisition \/ SkipFailed \/ Reserve
       \/ RefuseOverLimit \/ Launch \/ (\E i \in DOMAIN fetches : Complete(i)) \/ TakeFetched \/ TakeFailed
    BY DEF Next, NextFrontier, AnalyzeFrontier, FetchDependencies, vars, Merge, EndMerge, Drop, Revisit,
           FirstVisit, OverLimit, EndAdmit, EndRequests, EndAnalyze, EndPrepare, EndReserve, EndFetch
<1> QED
    BY <1>1, <1>2, <1>3, <1>4, <1>5, <1>6, <1>7, <1>8, <1>9, <1>10, <1>11, <1>12

-----------------------------------------------------------------------------
(* The limit is named only when more was asked for than it allows.             *)

\* A step that names the limit found it exceeded, and what was demanded stays so.
LEMMA JustifiedStep ==
    /\ TypeOK /\ Stages /\ Reported /\ Accounted /\ Keyed /\ Reservations /\ Grounding
    /\ LimitOnlyWhenExceeded /\ [Next]_vars
    => LimitOnlyWhenExceeded'
<1> SUFFICES ASSUME TypeOK, Stages, Reported, Accounted, Keyed, Reservations, Grounding,
                    LimitOnlyWhenExceeded, [Next]_vars
             PROVE  LimitOnlyWhenExceeded'
    OBVIOUS
<1> DEFINE before == Demanded(walk, made, limits.depth)
           now == Demanded(walk', made', limits'.depth)
<1>t. /\ walk \in Walk /\ groups \in Seq(Request) /\ limits.packages \in Nat
    BY TraversalAssumption DEF TypeOK
<1>c. Continues(walk, walk') /\ UNCHANGED <<made, limits>>
    BY StepContinues
<1>d. /\ before \subseteq now
      /\ Cardinality(before) \in Nat /\ Cardinality(now) \in Nat /\ Cardinality(before) <= Cardinality(now)
  <2>1. before \subseteq now
    BY WantedStays
  <2> QED
    BY <2>1, FiniteDemanded
<1>r. walk.reserved \subseteq before /\ walk.acquired \subseteq before
    BY DEF Reservations
<1>f. \A T \in SUBSET before : Cardinality(T) \in Nat /\ Cardinality(T) <= Cardinality(before)
    BY FiniteDemanded
<1>0. ASSUME LimitReported(walk') => LimitReported(walk) \/ Cardinality(now) + 1 > limits.packages
      PROVE  LimitOnlyWhenExceeded'
  <2>1. LimitReported(walk) => Cardinality(before) + 1 > limits.packages
    BY DEF LimitOnlyWhenExceeded
  <2>2. LimitReported(walk') => Cardinality(now) + 1 > limits'.packages
    <3> HIDE DEF before, now
    <3> QED
      BY <1>0, <1>c, <1>d, <1>t, <2>1
  <2> QED
    BY <2>2 DEF LimitOnlyWhenExceeded
<1>1. CASE OverLimit
  <2> DEFINE p == Head(walk.merged)
  <2>1. walk.merged # <<>> /\ ~Visited(walk, p) /\ walk.count >= limits.packages /\ phase = "admit"
    BY <1>1 DEF OverLimit, Admitting
  <2>2. p \in Waiting(walk)
    BY <1>t, <2>1, AdmitPops
  <2>3. p.source \notin walk.sources
    BY <2>1 DEF Visited
  <2>4. Grounded(walk, FALSE, Start) /\ Counted(walk)
    BY <2>1 DEF Grounding, Tracked, Reported
  <2> HIDE DEF p
  <2>5. walk.count <= Cardinality(walk.acquired) /\ walk.count \in Nat
    BY <1>t, <2>2, <2>3, <2>4, StartConsistent, CountWithinAcquired DEF Walk
  <2>6. Cardinality(walk.acquired) \in Nat /\ Cardinality(walk.acquired) <= Cardinality(before)
    BY <1>r, <1>f
  <2> HIDE DEF before, now
  <2> QED
    BY <1>0, <1>d, <1>t, <2>1, <2>5, <2>6
<1>2. CASE RefuseOverLimit
  <2> DEFINE q == Head(groups)
  <2>1. /\ groups # <<>> /\ ~Revisitable(walk, q.key) /\ q.key \notin walk.reserved
        /\ ~Reservable(walk, limits.packages)
    BY <1>2 DEF RefuseOverLimit, Reserving
  <2>2. q \in Request /\ 1 \in DOMAIN groups /\ q = groups[1]
    BY <1>t, <2>1, Tailed
  <2>3. q.key \in before
    BY <2>1, <2>2, DemandedWhenAsked DEF Keyed, Wanted, Revisitable, Request
  <2>4. Cardinality(walk.reserved \cup {q.key}) = Cardinality(walk.reserved) + 1
    BY <1>t, <2>1, FiniteReserved, FS_AddElement
  <2>5. Cardinality(walk.reserved) + 1 <= Cardinality(before) /\ Cardinality(walk.reserved) \in Nat
    BY <1>t, <1>r, <1>f, <2>3, <2>4, FiniteReserved
  <2>6. Cardinality(walk.reserved) + 1 >= limits.packages
    BY <1>t, <2>1, <2>5 DEF Reservable
  <2> HIDE DEF before, now
  <2> QED
    BY <1>0, <1>d, <1>t, <2>5, <2>6
<1>3. CASE ~OverLimit /\ ~RefuseOverLimit
  <2>1. ASSUME ~LimitReported(walk) PROVE ~LimitReported(walk')
    <3>1. CASE \/ UNCHANGED vars \/ EndMerge \/ EndAdmit \/ AddRequest \/ EndAnalyze
               \/ Group \/ EndPrepare \/ SkipFailed \/ EndReserve
               \/ Launch \/ (\E i \in DOMAIN fetches : Complete(i)) \/ EndFetch
      <4>1. walk' = walk
        BY <3>1
        DEF vars, EndMerge, EndAdmit, AddRequest, EndAnalyze, Group, EndPrepare, SkipFailed,
            EndReserve, Launch, Complete, EndFetch
      <4> QED
        BY <2>1, <4>1
    <3>2. CASE Merge \/ Drop \/ Revisit \/ FirstVisit
      BY <1>t, <2>1, <3>2, LimitNamed DEF Merge, Drop, Revisit, FirstVisit
    <3>3. CASE Analyze \/ LeaveOut \/ EndRequests
      BY <1>t, <2>1, <3>3, LimitNamed DEF Analyze, LeaveOut, EndRequests
    <3>4. CASE Refuse \/ ReuseAcquisition \/ Reserve \/ TakeFetched \/ TakeFailed
      BY <1>t, <2>1, <3>4, LimitNamed DEF Refuse, ReuseAcquisition, Reserve, TakeFetched, TakeFailed
    <3> QED
      BY <1>3, <3>1, <3>2, <3>3, <3>4 DEF Next, NextFrontier, AnalyzeFrontier, FetchDependencies
  <2> QED
    BY <1>0, <2>1
<1> QED
    BY <1>1, <1>2, <1>3

-----------------------------------------------------------------------------
(* The theorem.                                                                *)

\* The invariant gives what a run checks of a walk at any time.
LEMMA InvImpliesSound == IInv => WalkSound
<1> SUFFICES ASSUME IInv PROVE WalkSound
    OBVIOUS
<1>t. walk \in Walk /\ limits.packages \in Nat /\ attempts \in Seq(Keys)
    BY TraversalAssumption DEF IInv, TypeOK
<1>1. ReportedOnce
    BY DEF IInv, Reported, Once, ReportedOnce
<1>2. Len(walk.packages) <= limits.packages
  <2>1. Len(walk.packages) <= Cardinality(ReportedSources(walk))
    BY <1>t, <1>1, ReportLength DEF ReportedOnce
  <2>2. Cardinality(ReportedSources(walk)) <= limits.packages
    BY DEF IInv, Reported
  <2>3. Len(walk.packages) \in Nat
    BY <1>t DEF Walk
  <2> QED
    BY <1>t, <2>1, <2>2, <2>3, FiniteSources
<1>3. attempts # <<>> => Len(attempts) + 1 <= limits.packages
  <2> SUFFICES ASSUME attempts # <<>> PROVE Len(attempts) + 1 <= limits.packages
    OBVIOUS
  <2>1. Len(attempts) \in Nat /\ DOMAIN attempts = 1..Len(attempts) /\ attempts \in [1..Len(attempts) -> walk.reserved]
    BY <1>t DEF IInv, Accounted
  <2>2. Len(attempts) <= Cardinality(walk.reserved)
    BY <1>t, <2>1, FiniteReserved, Pigeons DEF IInv, Accounted
  <2>3. walk.reserved # {}
    BY <1>t, <2>1 DEF IInv, Accounted
  <2> QED
    BY <1>t, <2>1, <2>2, <2>3, FiniteReserved DEF IInv, Accounted
<1>4. WithinPackageLimit
    BY <1>2, <1>3 DEF WithinPackageLimit, IInv, Accounted
<1>5. NothingLeftQueued
    BY DEF NothingLeftQueued, IInv, Levels
<1> QED
    BY <1>1, <1>4, <1>5 DEF WalkSound, IInv

\* Every state of the analysis of a project is typed, reports each package
\* once, keeps max_packages with its reports and its fetches (engine/traversal/
\* single.rs and state.rs), and is not finished while a package is queued.
THEOREM WalkSoundness == Spec => []WalkSound
<1>1. Init => IInv
    BY TypeInit, LevelsInit, ReportedInit, AccountedInit DEF IInv
<1>2. IInv /\ [Next]_vars => IInv'
    BY TypeStep, LevelsStep, ReportedStep, AccountedStep DEF IInv
<1>3. IInv => WalkSound
    BY InvImpliesSound
<1> QED
    BY <1>1, <1>2, <1>3, PTL DEF Spec

-----------------------------------------------------------------------------
(* The second theorem.                                                         *)

\* What else holds of a walk: each part is inductive with those before it.
Faithful == Headed /\ Keyed /\ Reservations /\ Grounding /\ Followed /\ LimitOnlyWhenExceeded

\* A walk that ends followed everything it found.
LEMMA InvImpliesWhole == IInv /\ Faithful => WholeOrLimited
<1> SUFFICES ASSUME IInv, Faithful PROVE WholeOrLimited
    OBVIOUS
<1>1. ASSUME phase = "done", ~LimitReported(walk) PROVE ClosedUnderDependencies(walk, made, limits.depth)
  <2>1. /\ walk \in Walk /\ walk.queue = <<>> /\ walk.merged = <<>> /\ walk.frontier = <<>>
        /\ requests = <<>> /\ groups = <<>> /\ fetches = <<>> /\ found = {}
    BY <1>1 DEF IInv, TypeOK, Stages, Levels, Faithful, Headed
  <2>2. Asking = {}
    <3>1. EntriesOf(<<>>) = {}
      BY DEF EntriesOf
    <3> QED
      BY <2>1, <3>1 DEF Asking
  <2>3. Following(walk, FALSE, {}, made, limits.depth, {})
    BY <1>1, <2>1, <2>2 DEF Faithful, Followed
  <2> QED
    BY <2>1, <2>3, FollowedIsClosed
<1>2. NothingLostSilently
    BY <1>1 DEF NothingLostSilently
<1> QED
    BY <1>2 DEF WholeOrLimited, Faithful

\* engine/traversal/single.rs and state.rs: an analysis that is done and whose
\* report does not name the package limit has followed every dependency it found
\* above the depth limit, under every context and no deeper than one level below
\* its finder, or has an issue about it; and the limit is named only when more
\* packages were asked for than it allows.
THEOREM Wholeness == Spec => []WholeOrLimited
<1>1. Init => IInv /\ Faithful
  <2>1. Init => IInv
    BY TypeInit, LevelsInit, ReportedInit, AccountedInit DEF IInv
  <2>2. Init => LimitOnlyWhenExceeded
    <3> SUFFICES ASSUME Init PROVE ~LimitReported(walk)
      BY DEF LimitOnlyWhenExceeded
    <3>1. walk.issues = {}
      BY NewIsShallow DEF Init
    <3> QED
      BY <3>1 DEF LimitReported
  <2> QED
    BY <2>1, <2>2, AskedInit, GroundingInit, FollowedInit DEF Faithful
<1>2. IInv /\ Faithful /\ [Next]_vars => (IInv /\ Faithful)'
  <2> SUFFICES ASSUME IInv, Faithful, [Next]_vars PROVE (IInv /\ Faithful)'
    OBVIOUS
  <2>1. IInv'
    BY TypeStep, LevelsStep, ReportedStep, AccountedStep DEF IInv
  <2>2. Headed' /\ Keyed' /\ Reservations'
    BY HeadedStep, KeyedStep, ReservationsStep DEF IInv, Faithful
  <2>3. Grounding' /\ Followed' /\ LimitOnlyWhenExceeded'
    BY GroundingStep, FollowedStep, JustifiedStep DEF IInv, Faithful
  <2> QED
    BY <2>1, <2>2, <2>3 DEF Faithful
<1>3. IInv /\ Faithful => WholeOrLimited
    BY InvImpliesWhole
<1> QED
    BY <1>1, <1>2, <1>3, PTL DEF Spec
==============================================================================
