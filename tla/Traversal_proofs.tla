-------------------------- MODULE Traversal_proofs --------------------------
(* Facts about the loop iterations of Traversal that the proofs about the      *)
(* analysis of one project and of a batch share: every iteration maps a walk   *)
(* to a walk, keeps each package once in the report, and keeps the entries of  *)
(* one level at one depth.                                                     *)
EXTENDS Traversal, SequenceTheorems, FiniteSetTheorems, WellFoundedInduction, TLAPS

-----------------------------------------------------------------------------
(* Sequences.                                                                  *)

\* Appending to a sequence adds one entry at its end.
LEMMA Appended ==
    ASSUME NEW S, NEW s \in Seq(S), NEW e \in S
    PROVE  /\ Append(s, e) \in Seq(S)
           /\ Len(Append(s, e)) = Len(s) + 1
           /\ DOMAIN Append(s, e) = DOMAIN s \cup {Len(s) + 1}
           /\ Len(s) \in Nat
           /\ Len(s) + 1 \notin DOMAIN s
           /\ \A i \in DOMAIN s : Append(s, e)[i] = s[i]
           /\ Append(s, e)[Len(s) + 1] = e
    OBVIOUS

\* The tail of a sequence has its entries but the first, one position earlier.
LEMMA Tailed ==
    ASSUME NEW S, NEW s \in Seq(S), s # <<>>
    PROVE  /\ Tail(s) \in Seq(S)
           /\ Head(s) \in S
           /\ 1 \in DOMAIN s
           /\ Head(s) = s[1]
           /\ \A i \in DOMAIN Tail(s) : i + 1 \in DOMAIN s /\ i + 1 > 1 /\ Tail(s)[i] = s[i + 1]
    OBVIOUS

\* Changing the entries of a sequence in place leaves a sequence.
LEMMA Rewritten ==
    ASSUME NEW S, NEW s \in Seq(S), NEW t, DOMAIN t = DOMAIN s, t = [i \in DOMAIN s |-> t[i]],
           \A i \in DOMAIN s : t[i] \in S
    PROVE  t \in Seq(S)
<1>1. DOMAIN s = 1..Len(s) /\ Len(s) \in Nat
    OBVIOUS
<1>2. t \in [1..Len(s) -> S]
    BY <1>1
<1> QED
    BY <1>1, <1>2, SeqDef

-----------------------------------------------------------------------------
(* Every iteration maps a walk to a walk.                                      *)

\* A new walk is a walk.
LEMMA NewWalkType ==
    ASSUME NEW s \in Sources, NEW r \in Metadata \cup {None}
    PROVE  NewWalk(s, r) \in Walk
    BY DEF NewWalk, Walk, Pending, Metadata

\* next_frontier, first loop.
LEMMA MergeNextType ==
    ASSUME NEW w \in Walk, MoreToMerge(w)
    PROVE  MergeNext(w) \in Walk
<1> DEFINE p == Head(w.queue)
           first == CHOOSE i \in MergedAlike(w) : \A j \in MergedAlike(w) : i <= j
           changed == [i \in DOMAIN w.merged |->
                         IF i = first
                         THEN [w.merged[i] EXCEPT !.contexts = @ \cup p.contexts]
                         ELSE w.merged[i]]
<1>1. /\ w.queue \in Seq(Pending) /\ w.merged \in Seq(Pending)
      /\ p \in Pending /\ Tail(w.queue) \in Seq(Pending)
    BY Tailed DEF Walk, MoreToMerge
<1>2. Append(w.merged, p) \in Seq(Pending)
    BY <1>1, Appended
<1>3. \A i \in DOMAIN w.merged : w.merged[i] \in Pending
    BY <1>1
<1>4. changed \in Seq(Pending)
  <2>1. \A i \in DOMAIN w.merged : changed[i] \in Pending
    BY <1>1, <1>3 DEF Pending
  <2> HIDE DEF p, first
  <2>2. DOMAIN changed = DOMAIN w.merged /\ changed = [i \in DOMAIN w.merged |-> changed[i]]
    OBVIOUS
  <2> HIDE DEF changed
  <2> QED
    BY <2>1, <2>2, <1>1, Rewritten
<1>5. [w.merged EXCEPT ![first].contexts = @ \cup p.contexts] = changed
  <2> HIDE DEF p, first
  <2>1. w.merged = [i \in DOMAIN w.merged |-> w.merged[i]]
    BY <1>1
  <2> QED
    BY <2>1
<1>6. MergeNext(w) = [w EXCEPT !.queue = Tail(@), !.merged = IF MergedAlike(w) = {} THEN Append(@, p) ELSE changed]
    BY <1>5 DEF MergeNext, Walk
<1> HIDE DEF changed, p
<1> QED
    BY <1>1, <1>2, <1>4, <1>6 DEF Walk

\* What an issue of the report looks like.
LEMMA IssueType ==
    /\ \A key \in Keys : /\ [kind |-> "fetch", about |-> key] \in Issue
                         /\ [kind |-> "preparation", about |-> key] \in Issue
                         /\ [kind |-> "resolution", about |-> key] \in Issue
    /\ \A source \in Sources : [kind |-> "discovery", about |-> source] \in Issue
    /\ [kind |-> "packages", about |-> None] \in Issue
    /\ [kind |-> "batch packages", about |-> None] \in Issue
    BY DEF Issue

\* next_frontier, second loop.
LEMMA AdmitTypes ==
    ASSUME NEW w \in Walk, w.merged # <<>>
    PROVE  /\ DropRevisit(w) \in Walk
           /\ AdmitRevisit(w) \in Walk
           /\ AdmitFirstVisit(w) \in Walk
           /\ BreakAtLimit(w) \in Walk
<1> DEFINE p == Head(w.merged)
<1>1. w.merged \in Seq(Pending) /\ w.frontier \in Seq(Pending)
    BY DEF Walk
<1>2. p \in Pending /\ Tail(w.merged) \in Seq(Pending)
    BY <1>1, Tailed
<1>3. DropRevisit(w) \in Walk
    BY <1>2 DEF DropRevisit, Walk
<1>4. [w.contexts EXCEPT ![p.source] = @ \cup p.contexts] \in [Sources -> SUBSET Contexts]
    BY <1>2 DEF Walk, Pending
<1>5. AdmitRevisit(w) \in Walk
  <2>1. [p EXCEPT !.contexts = NewContexts(w, p), !.report = FALSE] \in Pending
    BY <1>2 DEF NewContexts, Pending
  <2>2. Append(w.frontier, [p EXCEPT !.contexts = NewContexts(w, p), !.report = FALSE]) \in Seq(Pending)
    BY <2>1, <1>1, Appended
  <2> QED
    BY <2>2, <1>2, <1>4 DEF AdmitRevisit, Walk
<1>6. RecordVisit(w, p) \in Walk /\ RecordVisit(w, p).frontier = w.frontier /\ RecordVisit(w, p).merged = w.merged
  <2>1. p.source \in Sources /\ p.id \in Ids \cup {None}
    BY <1>2 DEF Pending
  <2>2. (IF p.id = None THEN w.ids ELSE w.ids \cup {p.id}) \subseteq Ids
    BY <2>1 DEF Walk
  <2>3. w.sources \cup {p.source} \subseteq Sources /\ w.count + 1 \in Nat
    BY <2>1 DEF Walk
  <2> QED
    BY <1>4, <2>2, <2>3 DEF RecordVisit, Walk
<1>7. AdmitFirstVisit(w) \in Walk
  <2>1. Append(w.frontier, [p EXCEPT !.report = TRUE]) \in Seq(Pending)
    BY <1>1, <1>2, Appended DEF Pending
  <2> QED
    BY <2>1, <1>2, <1>6 DEF AdmitFirstVisit, Walk
<1>8. BreakAtLimit(w) \in Walk
  <2> DEFINE v == RecordVisit(w, p)
             issue == [kind |-> "packages", about |-> None]
  <2>1. v \in Walk /\ v.issues \cup {issue} \in SUBSET Issue
    BY <1>6, IssueType DEF Walk
  <2>2. <<>> \in Seq(Pending)
    OBVIOUS
  <2>3. BreakAtLimit(w) = [v EXCEPT !.merged = <<>>, !.issues = @ \cup {issue}]
    BY DEF BreakAtLimit
  <2> HIDE DEF v, issue
  <2> QED
    BY <2>1, <2>2, <2>3 DEF Walk
<1> QED
    BY <1>3, <1>5, <1>7, <1>8

\* Analysing a frontier entry and looking at its dependencies.
LEMMA AnalyzeTypes ==
    ASSUME NEW w \in Walk, w.frontier # <<>>
    PROVE  /\ AnalyzeNext(w) \in Walk
           /\ LeaveFrontierHead(w) \in Walk
<1>1. /\ w.frontier \in Seq(Pending) /\ w.packages \in Seq(Pending) /\ w.discovered \in Seq(Pending)
      /\ w.issues \subseteq Issue
    BY DEF Walk
<1>2. Head(w.frontier) \in Pending /\ Tail(w.frontier) \in Seq(Pending)
    BY <1>1, Tailed
<1>3. DiscoveryIssues(Head(w.frontier)) \subseteq Issue
    BY <1>2, IssueType DEF DiscoveryIssues, Pending
<1>4. /\ Append(w.packages, Head(w.frontier)) \in Seq(Pending)
      /\ Append(w.discovered, Head(w.frontier)) \in Seq(Pending)
    BY <1>1, <1>2, Appended
<1>5. AnalyzeNext(w) \in Walk
    BY <1>1, <1>3, <1>4 DEF AnalyzeNext, Walk
<1>6. LeaveFrontierHead(w) \in Walk
    BY <1>2 DEF LeaveFrontierHead, Walk
<1> QED
    BY <1>5, <1>6

\* A request made for a dependency of the frontier's head.
LEMMA RequestType ==
    ASSUME NEW w \in Walk, w.frontier # <<>>, NEW i \in DOMAIN Declarations
    PROVE  /\ RequestFor(w, i) \in Request
           /\ NoteUnrequested(w, i) \in Walk
<1>1. Head(w.frontier) \in Pending
    BY Tailed DEF Walk
<1>2. Declarations[i] \in Declaration
    BY TraversalAssumption
<1>3. RequestFor(w, i) \in Request
    BY <1>1, <1>2 DEF RequestFor, Request, Pending, Declaration
<1>4. NoteUnrequested(w, i) \in Walk
    BY <1>2, IssueType DEF NoteUnrequested, Walk, Declaration
<1> QED
    BY <1>3, <1>4

\* Reserving keys, reporting issues and queueing what was acquired; the last
\* two take requests and fetches alike.
LEMMA AcquireTypes ==
    ASSUME NEW w \in Walk, NEW r, r.key \in Keys, r.depth \in Nat, r.contexts \subseteq Contexts
    PROVE  /\ ReserveKey(w, r.key) \in Walk
           /\ EnqueueAcquired(w, r) \in Walk
           /\ Revisitable(w, r.key) => EnqueueRevisit(w, r) \in Walk
           /\ ReportIssue(w, "fetch", r.key) \in Walk
           /\ ReportIssue(w, "preparation", r.key) \in Walk
           /\ ReportIssue(w, "packages", None) \in Walk
           /\ ReportIssue(w, "batch packages", None) \in Walk
<1>1. w.queue \in Seq(Pending)
    BY DEF Walk
<1>2. \A m \in Metadata : PendingFrom(r, m) \in Pending
    BY DEF PendingFrom, Pending, Metadata
<1>3. Yields[r.key] \in Metadata
    BY TraversalAssumption
<1>4. Append(w.queue, PendingFrom(r, Yields[r.key])) \in Seq(Pending)
    BY <1>1, <1>2, <1>3, Appended
<1>5. EnqueueAcquired(w, r) \in Walk
    BY <1>4 DEF EnqueueAcquired, Walk
<1>6. ASSUME Revisitable(w, r.key) PROVE EnqueueRevisit(w, r) \in Walk
  <2>1. RevisitedMetadata(w, r.key) \in Metadata
    BY <1>3, <1>6 DEF RevisitedMetadata, Revisitable, NamesRoot, Walk
  <2>2. Append(w.queue, PendingFrom(r, RevisitedMetadata(w, r.key))) \in Seq(Pending)
    BY <1>1, <1>2, <2>1, Appended
  <2> QED
    BY <2>2 DEF EnqueueRevisit, Walk
<1>7. ReserveKey(w, r.key) \in Walk
    BY DEF ReserveKey, Walk
<1>8. /\ ReportIssue(w, "fetch", r.key) \in Walk
      /\ ReportIssue(w, "preparation", r.key) \in Walk
      /\ ReportIssue(w, "packages", None) \in Walk
      /\ ReportIssue(w, "batch packages", None) \in Walk
    BY IssueType DEF ReportIssue, Walk
<1> QED
    BY <1>5, <1>6, <1>7, <1>8

-----------------------------------------------------------------------------
(* Each package once.  A package stands in the report, or in the frontier with *)
(* `report` set until it is looked at, only after its directory and its id     *)
(* have been recorded as visited; what has been recorded is never admitted     *)
(* with `report` set again.                                                    *)

Known(w, p) == p.source \in w.sources /\ (p.id # None => p.id \in w.ids)

\* Frontier entries that will still be reported; the head no longer once looked at.
ToReport(w, looked) == {i \in DOMAIN w.frontier : w.frontier[i].report /\ (looked => i # 1)}

Once(w, looked) ==
    /\ OncePerPackage(w)
    /\ \A m \in DOMAIN w.packages : Known(w, w.packages[m])
    /\ \A i \in ToReport(w, looked) : Known(w, w.frontier[i])
    /\ \A i, j \in ToReport(w, looked) : i # j => ~SamePackage(w.frontier[i], w.frontier[j])
    /\ \A i \in ToReport(w, looked), m \in DOMAIN w.packages :
          ~SamePackage(w.packages[m], w.frontier[i])

\* A new walk has neither packages nor a frontier.
LEMMA OnceNew ==
    ASSUME NEW s, NEW r PROVE Once(NewWalk(s, r), FALSE)
    BY DEF Once, NewWalk, OncePerPackage, ToReport

\* What is not visited differs from everything known.
LEMMA UnknownIsNew ==
    ASSUME NEW w, NEW p, NEW q, ~Visited(w, p), Known(w, q)
    PROVE  ~SamePackage(q, p) /\ ~SamePackage(p, q)
    BY DEF Visited, Known, SamePackage

\* v differs from w neither in its report nor in its frontier nor in what is visited.
SameReport(w, v) ==
    /\ v.frontier = w.frontier /\ v.packages = w.packages
    /\ v.ids = w.ids /\ v.sources = w.sources /\ v.count = w.count

\* Such a walk has reported no package twice if the other has not.
LEMMA OnceKept ==
    ASSUME NEW w, NEW v, NEW looked, SameReport(w, v), Once(w, looked)
    PROVE  Once(v, looked)
    BY DEF SameReport, Once, OncePerPackage, ToReport, Known

\* The iterations that only move what is queued, reserved or said in issues.
LEMMA ReportUntouched ==
    ASSUME NEW w \in Walk
    PROVE  /\ SameReport(w, MergeNext(w))
           /\ SameReport(w, DropRevisit(w))
           /\ \A i : SameReport(w, NoteUnrequested(w, i))
           /\ \A r : SameReport(w, EnqueueRevisit(w, r)) /\ SameReport(w, EnqueueAcquired(w, r))
           /\ \A k : SameReport(w, ReserveKey(w, k))
           /\ \A kind, about : SameReport(w, ReportIssue(w, kind, about))
<1>1. SameReport(w, MergeNext(w))
    BY DEF SameReport, Walk, MergeNext
<1>2. SameReport(w, DropRevisit(w))
    BY DEF SameReport, Walk, DropRevisit
<1>3. \A i : SameReport(w, NoteUnrequested(w, i))
    BY DEF SameReport, Walk, NoteUnrequested
<1>4. \A r : SameReport(w, EnqueueRevisit(w, r)) /\ SameReport(w, EnqueueAcquired(w, r))
    BY DEF SameReport, Walk, EnqueueRevisit, EnqueueAcquired
<1>5. \A k : SameReport(w, ReserveKey(w, k))
    BY DEF SameReport, Walk, ReserveKey
<1>6. \A kind, about : SameReport(w, ReportIssue(w, kind, about))
    BY DEF SameReport, Walk, ReportIssue
<1> QED
    BY <1>1, <1>2, <1>3, <1>4, <1>5, <1>6

\* Admitting the head of the merged entries: a visited package comes without
\* `report`, an unvisited one differs from all that was admitted before it.
LEMMA OnceAdmit ==
    ASSUME NEW w \in Walk, w.merged # <<>>, Once(w, FALSE)
    PROVE  /\ Once(AdmitRevisit(w), FALSE)
           /\ ~Visited(w, Head(w.merged)) => Once(AdmitFirstVisit(w), FALSE)
           /\ Once(BreakAtLimit(w), FALSE)
<1> DEFINE p == Head(w.merged)
<1>1. w.merged \in Seq(Pending) /\ w.frontier \in Seq(Pending) /\ p \in Pending
    BY Tailed DEF Walk
<1>2. Once(AdmitRevisit(w), FALSE)
  <2> DEFINE q == [p EXCEPT !.contexts = NewContexts(w, p), !.report = FALSE]
             v == AdmitRevisit(w)
  <2>1. q \in Pending /\ ~q.report
    BY <1>1 DEF NewContexts, Pending
  <2>2. /\ v.packages = w.packages /\ v.ids = w.ids /\ v.sources = w.sources
        /\ v.frontier = Append(w.frontier, q)
    BY DEF AdmitRevisit, Walk
  <2> HIDE DEF q, v, p
  <2>3. ToReport(v, FALSE) = ToReport(w, FALSE)
    BY <2>1, <2>2, <1>1, Appended DEF ToReport
  <2>4. \A i \in ToReport(w, FALSE) : v.frontier[i] = w.frontier[i]
    BY <2>1, <2>2, <1>1, Appended DEF ToReport
  <2> QED
    BY <2>2, <2>3, <2>4 DEF Once, Known, OncePerPackage, v
<1>3. /\ \A q : Known(w, q) => Known(RecordVisit(w, p), q)
      /\ Known(RecordVisit(w, p), p)
      /\ RecordVisit(w, p).frontier = w.frontier
      /\ RecordVisit(w, p).packages = w.packages
    BY DEF Known, RecordVisit, Walk
<1>4. ASSUME ~Visited(w, p) PROVE Once(AdmitFirstVisit(w), FALSE)
  <2> DEFINE q == [p EXCEPT !.report = TRUE]
             v == AdmitFirstVisit(w)
             n == Len(w.frontier) + 1
  <2>1. q \in Pending /\ q.report /\ q.source = p.source /\ q.id = p.id
    BY <1>1 DEF Pending
  <2>2. /\ v.packages = w.packages /\ v.ids = RecordVisit(w, p).ids
        /\ v.sources = RecordVisit(w, p).sources
        /\ v.frontier = Append(w.frontier, q)
    BY <1>3 DEF AdmitFirstVisit, RecordVisit, Walk
  <2> HIDE DEF q, v, p
  <2>3. /\ ToReport(v, FALSE) = ToReport(w, FALSE) \cup {n}
        /\ n \notin ToReport(w, FALSE)
        /\ v.frontier[n] = q
        /\ \A i \in ToReport(w, FALSE) : v.frontier[i] = w.frontier[i]
    BY <2>1, <2>2, <1>1, Appended DEF ToReport
  <2>4. /\ \A m \in DOMAIN w.packages : ~SamePackage(w.packages[m], q)
        /\ \A i \in ToReport(w, FALSE) : ~SamePackage(w.frontier[i], q) /\ ~SamePackage(q, w.frontier[i])
    <3>1. ~Visited(w, q)
      BY <1>4, <2>1 DEF Visited
    <3> QED
      BY <3>1, UnknownIsNew DEF Once
  <2>5. Known(v, q) /\ \A x : Known(w, x) => Known(v, x)
    BY <1>3, <2>1, <2>2 DEF Known
  <2> HIDE DEF n
  <2> QED
    BY <2>2, <2>3, <2>4, <2>5 DEF Once, OncePerPackage, v
<1>5. Once(BreakAtLimit(w), FALSE)
  <2> DEFINE v == BreakAtLimit(w)
  <2>1. /\ v.packages = w.packages /\ v.ids = RecordVisit(w, p).ids
        /\ v.sources = RecordVisit(w, p).sources /\ v.frontier = w.frontier
    BY <1>3 DEF BreakAtLimit, RecordVisit, Walk
  <2> HIDE DEF v, p
  <2>2. \A x : Known(w, x) => Known(v, x)
    BY <1>3, <2>1 DEF Known
  <2> QED
    BY <2>1, <2>2 DEF Once, OncePerPackage, ToReport, v
<1> QED
    BY <1>2, <1>4, <1>5

\* The frontier's head is reported when it is looked at, and then leaves.
LEMMA OnceAnalyze ==
    ASSUME NEW w \in Walk, w.frontier # <<>>
    PROVE  /\ Once(w, FALSE) => Once(AnalyzeNext(w), TRUE)
           /\ Once(w, TRUE) => Once(LeaveFrontierHead(w), FALSE)
<1>1. w.frontier \in Seq(Pending) /\ w.packages \in Seq(Pending)
    BY DEF Walk
<1>2. ASSUME Once(w, FALSE) PROVE Once(AnalyzeNext(w), TRUE)
  <2> DEFINE p == w.frontier[1]
             v == AnalyzeNext(w)
             n == Len(w.packages) + 1
  <2>1. p \in Pending /\ Head(w.frontier) = p /\ 1 \in DOMAIN w.frontier
    BY <1>1, Tailed
  <2>2. /\ v.frontier = w.frontier /\ v.ids = w.ids /\ v.sources = w.sources
        /\ v.packages = IF p.report THEN Append(w.packages, p) ELSE w.packages
    BY <2>1 DEF AnalyzeNext, Walk
  <2>3. \A i \in ToReport(w, TRUE) : i \in ToReport(w, FALSE) /\ i # 1
    BY DEF ToReport
  <2>4. p.report => 1 \in ToReport(w, FALSE)
    BY <2>1 DEF ToReport
  <2>5. ToReport(v, TRUE) = ToReport(w, TRUE)
    BY <2>2 DEF ToReport
  <2>6. CASE ~p.report
    BY <1>2, <2>2, <2>3, <2>5, <2>6 DEF Once, OncePerPackage, Known
  <2>7. CASE p.report
    <3> HIDE DEF v
    <3>1. /\ DOMAIN v.packages = DOMAIN w.packages \cup {n} /\ n \notin DOMAIN w.packages
          /\ v.packages[n] = p
          /\ \A m \in DOMAIN w.packages : v.packages[m] = w.packages[m]
      BY <1>1, <2>1, <2>2, <2>7, Appended
    <3>2. \A m \in DOMAIN w.packages : ~SamePackage(w.packages[m], p) /\ ~SamePackage(p, w.packages[m])
      BY <1>2, <2>4, <2>7 DEF Once, SamePackage
    <3>3. \A i \in ToReport(w, TRUE) : ~SamePackage(p, w.frontier[i])
      BY <1>2, <2>3, <2>4, <2>7 DEF Once
    <3>4. Known(w, p) /\ \A x : Known(v, x) <=> Known(w, x)
      BY <1>2, <2>2, <2>4, <2>7 DEF Once, Known
    <3> HIDE DEF n, p
    <3> QED
      BY <1>2, <2>2, <2>3, <2>5, <3>1, <3>2, <3>3, <3>4 DEF Once, OncePerPackage, v
  <2> QED
    BY <2>6, <2>7
<1>3. ASSUME Once(w, TRUE) PROVE Once(LeaveFrontierHead(w), FALSE)
  <2> DEFINE v == LeaveFrontierHead(w)
  <2>1. /\ v.packages = w.packages /\ v.ids = w.ids /\ v.sources = w.sources
        /\ v.frontier = Tail(w.frontier)
    BY DEF LeaveFrontierHead, Walk
  <2> HIDE DEF v
  <2>2. \A i \in ToReport(v, FALSE) : i + 1 \in ToReport(w, TRUE) /\ v.frontier[i] = w.frontier[i + 1]
    BY <1>1, <2>1, Tailed DEF ToReport
  <2>3. \A i, j \in ToReport(v, FALSE) : i # j => i + 1 # j + 1
    BY <1>1, <2>1, Tailed DEF ToReport
  <2>4. \A i, j \in ToReport(v, FALSE) : i # j => ~SamePackage(v.frontier[i], v.frontier[j])
    BY <1>3, <2>2, <2>3 DEF Once
  <2> QED
    BY <1>3, <2>1, <2>2, <2>4 DEF Once, OncePerPackage, Known, v
<1> QED
    BY <1>2, <1>3

-----------------------------------------------------------------------------
(* Counting.  visited_count is the number of visited directories, and the      *)
(* directories reported, or still to be reported, are among them.              *)

\* As many different things as there are positions fit into a finite set only
\* when the set is at least that large.
LEMMA Pigeons ==
    ASSUME NEW n \in Nat, NEW T, IsFiniteSet(T), NEW f \in [1..n -> T],
           \A i, j \in 1..n : i # j => f[i] # f[j]
    PROVE  n <= Cardinality(T)
<1>1. f \in Injection(1..n, T)
    BY DEF Injection, IsInjective
<1>2. IsFiniteSet(1..n) /\ Cardinality(1..n) = n
    BY FS_Interval
<1> QED
    BY <1>1, <1>2, FS_Injection

Counted(w) == w.count = Cardinality(w.sources)

ReportedSources(w) ==
    {s \in Sources : \/ \E m \in DOMAIN w.packages : w.packages[m].source = s
                     \/ \E i \in ToReport(w, FALSE) : w.frontier[i].source = s}

\* The directories of a walk are finitely many.
LEMMA FiniteSources ==
    ASSUME NEW w \in Walk
    PROVE  IsFiniteSet(w.sources) /\ IsFiniteSet(ReportedSources(w)) /\ Cardinality(w.sources) \in Nat
           /\ Cardinality(ReportedSources(w)) \in Nat
<1>1. IsFiniteSet(Sources) /\ w.sources \subseteq Sources /\ ReportedSources(w) \subseteq Sources
    BY TraversalAssumption DEF Walk, ReportedSources
<1> QED
    BY <1>1, FS_Subset, FS_CardinalityType

\* A new walk has visited nothing.
LEMMA CountedNew ==
    ASSUME NEW s, NEW r
    PROVE  Counted(NewWalk(s, r)) /\ ReportedSources(NewWalk(s, r)) = {}
    BY FS_EmptySet DEF Counted, NewWalk, ReportedSources, ToReport

\* Such a walk has counted the same directories.
LEMMA CountedKept ==
    ASSUME NEW w, NEW v, SameReport(w, v)
    PROVE  /\ Counted(w) => Counted(v)
           /\ ReportedSources(v) = ReportedSources(w)
    BY DEF SameReport, Counted, ReportedSources, ToReport

\* A first visit counts one more directory; a revisit counts nothing.
LEMMA CountedAdmit ==
    ASSUME NEW w \in Walk, w.merged # <<>>, Counted(w)
    PROVE  /\ Counted(AdmitRevisit(w))
           /\ ReportedSources(AdmitRevisit(w)) = ReportedSources(w)
           /\ ~Visited(w, Head(w.merged)) =>
                 /\ Counted(AdmitFirstVisit(w))
                 /\ ReportedSources(AdmitFirstVisit(w))
                       = ReportedSources(w) \cup {Head(w.merged).source}
                 /\ Counted(BreakAtLimit(w))
           /\ ReportedSources(BreakAtLimit(w)) = ReportedSources(w)
<1> DEFINE p == Head(w.merged)
<1>1. w.merged \in Seq(Pending) /\ w.frontier \in Seq(Pending) /\ p \in Pending /\ p.source \in Sources
  <2>1. w.merged \in Seq(Pending) /\ w.frontier \in Seq(Pending) /\ p \in Pending
    BY Tailed DEF Walk
  <2> QED
    BY <2>1 DEF Pending
<1>2. Counted(AdmitRevisit(w)) /\ ReportedSources(AdmitRevisit(w)) = ReportedSources(w)
  <2> DEFINE q == [p EXCEPT !.contexts = NewContexts(w, p), !.report = FALSE]
             v == AdmitRevisit(w)
  <2>1. q \in Pending /\ ~q.report
    BY <1>1 DEF NewContexts, Pending
  <2>2. /\ v.packages = w.packages /\ v.sources = w.sources /\ v.count = w.count
        /\ v.frontier = Append(w.frontier, q)
    BY DEF AdmitRevisit, Walk
  <2> HIDE DEF q, v, p
  <2>3. /\ ToReport(v, FALSE) = ToReport(w, FALSE)
        /\ \A i \in ToReport(w, FALSE) : v.frontier[i] = w.frontier[i]
    BY <2>1, <2>2, <1>1, Appended DEF ToReport
  <2> QED
    BY <2>2, <2>3 DEF Counted, ReportedSources, v
<1>3. ~Visited(w, p) => Cardinality(w.sources \cup {p.source}) = w.count + 1
    BY FiniteSources, FS_AddElement DEF Counted, Visited
<1>4. RecordVisit(w, p).count = w.count + 1 /\ RecordVisit(w, p).sources = w.sources \cup {p.source}
      /\ RecordVisit(w, p).frontier = w.frontier /\ RecordVisit(w, p).packages = w.packages
    BY DEF RecordVisit, Walk
<1>5. ASSUME ~Visited(w, p)
      PROVE  /\ Counted(AdmitFirstVisit(w))
             /\ ReportedSources(AdmitFirstVisit(w)) = ReportedSources(w) \cup {p.source}
  <2> DEFINE q == [p EXCEPT !.report = TRUE]
             v == AdmitFirstVisit(w)
             n == Len(w.frontier) + 1
  <2>1. q \in Pending /\ q.report /\ q.source = p.source
    BY <1>1 DEF Pending
  <2>2. /\ v.packages = w.packages /\ v.sources = RecordVisit(w, p).sources
        /\ v.count = RecordVisit(w, p).count
        /\ v.frontier = Append(w.frontier, q)
    BY <1>4 DEF AdmitFirstVisit, RecordVisit, Walk
  <2> HIDE DEF q, v, p
  <2>3. /\ ToReport(v, FALSE) = ToReport(w, FALSE) \cup {n}
        /\ v.frontier[n] = q
        /\ \A i \in ToReport(w, FALSE) : v.frontier[i] = w.frontier[i]
    BY <2>1, <2>2, <1>1, Appended DEF ToReport
  <2> HIDE DEF n
  <2>4. Counted(v)
    BY <1>3, <1>4, <1>5, <2>2 DEF Counted
  <2>5. ReportedSources(v) = ReportedSources(w) \cup {p.source}
    BY <1>1, <2>1, <2>2, <2>3 DEF ReportedSources
  <2> QED
    BY <2>4, <2>5 DEF v
<1>6. /\ ~Visited(w, p) => Counted(BreakAtLimit(w))
      /\ ReportedSources(BreakAtLimit(w)) = ReportedSources(w)
  <2> DEFINE v == BreakAtLimit(w)
  <2>1. /\ v.packages = w.packages /\ v.sources = RecordVisit(w, p).sources
        /\ v.count = RecordVisit(w, p).count /\ v.frontier = w.frontier
    BY <1>4 DEF BreakAtLimit, RecordVisit, Walk
  <2> HIDE DEF v, p
  <2> QED
    BY <1>3, <1>4, <2>1 DEF Counted, ReportedSources, ToReport, v
<1> QED
    BY <1>2, <1>5, <1>6

\* Looking at the head moves its directory into the report.
LEMMA CountedAnalyze ==
    ASSUME NEW w \in Walk, w.frontier # <<>>
    PROVE  /\ Counted(w) => Counted(AnalyzeNext(w)) /\ Counted(LeaveFrontierHead(w))
           /\ ReportedSources(AnalyzeNext(w)) \subseteq ReportedSources(w)
           /\ ReportedSources(LeaveFrontierHead(w)) \subseteq ReportedSources(w)
<1>1. w.frontier \in Seq(Pending) /\ w.packages \in Seq(Pending)
    BY DEF Walk
<1> DEFINE p == w.frontier[1]
           v == AnalyzeNext(w)
           u == LeaveFrontierHead(w)
<1>2. p \in Pending /\ Head(w.frontier) = p /\ 1 \in DOMAIN w.frontier
    BY <1>1, Tailed
<1>3. /\ v.frontier = w.frontier /\ v.count = w.count /\ v.sources = w.sources
      /\ v.packages = IF p.report THEN Append(w.packages, p) ELSE w.packages
    BY <1>2 DEF AnalyzeNext, Walk
<1>4. /\ u.packages = w.packages /\ u.count = w.count /\ u.sources = w.sources
      /\ u.frontier = Tail(w.frontier)
    BY DEF LeaveFrontierHead, Walk
<1> HIDE DEF v, u
<1>5. Counted(w) => Counted(v) /\ Counted(u)
    BY <1>3, <1>4 DEF Counted
<1>6. ReportedSources(v) \subseteq ReportedSources(w)
  <2>1. CASE ~p.report
    BY <1>3, <2>1 DEF ReportedSources, ToReport
  <2>2. CASE p.report
    <3>1. 1 \in ToReport(w, FALSE) /\ ToReport(v, FALSE) = ToReport(w, FALSE)
      BY <1>2, <1>3, <2>2 DEF ToReport
    <3>2. \A m \in DOMAIN v.packages :
             \/ m \in DOMAIN w.packages /\ v.packages[m] = w.packages[m]
             \/ v.packages[m] = w.frontier[1]
      BY <1>1, <1>2, <1>3, <2>2, Appended
    <3> HIDE DEF p
    <3> QED
      BY <1>3, <3>1, <3>2 DEF ReportedSources
  <2> QED
    BY <2>1, <2>2
<1>7. ReportedSources(u) \subseteq ReportedSources(w)
  <2>1. \A i \in ToReport(u, FALSE) : i + 1 \in ToReport(w, FALSE) /\ u.frontier[i] = w.frontier[i + 1]
    BY <1>1, <1>4, Tailed DEF ToReport
  <2> QED
    BY <1>4, <2>1 DEF ReportedSources
<1> QED
    BY <1>5, <1>6, <1>7 DEF v, u

\* A report is no longer than the directories it is about.
LEMMA ReportLength ==
    ASSUME NEW w \in Walk, OncePerPackage(w)
    PROVE  Len(w.packages) <= Cardinality(ReportedSources(w))
<1> DEFINE f == [m \in 1..Len(w.packages) |-> w.packages[m].source]
<1>1. w.packages \in Seq(Pending) /\ Len(w.packages) \in Nat
    BY DEF Walk
<1>2. \A m \in 1..Len(w.packages) : w.packages[m].source \in ReportedSources(w)
  <2>1. \A m \in 1..Len(w.packages) : m \in DOMAIN w.packages /\ w.packages[m] \in Pending
    BY <1>1
  <2> QED
    BY <2>1 DEF ReportedSources, Pending
<1>3. \A m, n \in 1..Len(w.packages) : m # n => w.packages[m].source # w.packages[n].source
    BY <1>1 DEF OncePerPackage, SamePackage
<1>4. f \in [1..Len(w.packages) -> ReportedSources(w)]
    BY <1>2
<1>5. \A m, n \in 1..Len(w.packages) : m # n => f[m] # f[n]
    BY <1>3
<1> HIDE DEF f
<1> QED
    BY <1>1, <1>4, <1>5, Pigeons, FiniteSources

-----------------------------------------------------------------------------
(* Levels.                                                                     *)

AtDepth(s, d) == \A i \in DOMAIN s : s[i].depth = d

\* Adding an entry of the same depth and leaving the first one out keep a level.
LEMMA DepthKept ==
    ASSUME NEW S, NEW s \in Seq(S), NEW d, AtDepth(s, d)
    PROVE  /\ \A e \in S : e.depth = d => AtDepth(Append(s, e), d)
           /\ s # <<>> => AtDepth(Tail(s), d) /\ Head(s).depth = d
    BY Appended, Tailed DEF AtDepth

\* Merging takes an entry of the queue; the merged entries keep their depth.
LEMMA MergeDepth ==
    ASSUME NEW w \in Walk, MoreToMerge(w), NEW d, AtDepth(w.queue, d), AtDepth(w.merged, d)
    PROVE  /\ AtDepth(MergeNext(w).queue, d) /\ AtDepth(MergeNext(w).merged, d)
           /\ MergeNext(w).frontier = w.frontier
<1> DEFINE p == Head(w.queue)
           first == CHOOSE i \in MergedAlike(w) : \A j \in MergedAlike(w) : i <= j
<1>1. w.queue \in Seq(Pending) /\ w.merged \in Seq(Pending) /\ w.queue # <<>>
    BY DEF Walk, MoreToMerge
<1>2. p \in Pending /\ p.depth = d /\ AtDepth(Tail(w.queue), d)
    BY <1>1, Tailed, DepthKept
<1>3. MergeNext(w).queue = Tail(w.queue) /\ MergeNext(w).frontier = w.frontier
    BY DEF MergeNext, Walk
<1>4. MergeNext(w).merged = IF MergedAlike(w) = {} THEN Append(w.merged, p)
                            ELSE [w.merged EXCEPT ![first].contexts = @ \cup p.contexts]
    BY DEF MergeNext, Walk
<1>5. AtDepth(Append(w.merged, p), d)
    BY <1>1, <1>2, DepthKept
<1>6. AtDepth([w.merged EXCEPT ![first].contexts = @ \cup p.contexts], d)
  <2> HIDE DEF first, p
  <2>1. \A i \in DOMAIN w.merged : w.merged[i] \in Pending /\ w.merged[i].depth = d
    BY <1>1 DEF AtDepth
  <2> QED
    BY <2>1 DEF AtDepth, Pending
<1> QED
    BY <1>2, <1>3, <1>4, <1>5, <1>6

\* Admitting moves entries of one depth from the merged ones to the frontier.
LEMMA AdmitDepth ==
    ASSUME NEW w \in Walk, w.merged # <<>>, NEW d, AtDepth(w.merged, d), AtDepth(w.frontier, d),
           NEW v \in {DropRevisit(w), AdmitRevisit(w), AdmitFirstVisit(w), BreakAtLimit(w)}
    PROVE  /\ v.queue = w.queue
           /\ AtDepth(v.merged, d) /\ AtDepth(v.frontier, d)
<1> DEFINE p == Head(w.merged)
<1>1. w.merged \in Seq(Pending) /\ w.frontier \in Seq(Pending)
    BY DEF Walk
<1>2. p \in Pending /\ p.depth = d /\ AtDepth(Tail(w.merged), d)
    BY <1>1, Tailed, DepthKept
<1>3. CASE v = DropRevisit(w)
    BY <1>2, <1>3 DEF DropRevisit, Walk
<1>4. CASE v = AdmitRevisit(w)
  <2> DEFINE q == [p EXCEPT !.contexts = NewContexts(w, p), !.report = FALSE]
  <2>1. q \in Pending /\ q.depth = d
    BY <1>2 DEF NewContexts, Pending
  <2>2. v.queue = w.queue /\ v.merged = Tail(w.merged) /\ v.frontier = Append(w.frontier, q)
    BY <1>4 DEF AdmitRevisit, Walk
  <2> HIDE DEF q, p
  <2> QED
    BY <1>1, <1>2, <2>1, <2>2, DepthKept
<1>5. CASE v = AdmitFirstVisit(w)
  <2> DEFINE q == [p EXCEPT !.report = TRUE]
  <2>1. q \in Pending /\ q.depth = d
    BY <1>2 DEF Pending
  <2>2. v.queue = w.queue /\ v.merged = Tail(w.merged) /\ v.frontier = Append(w.frontier, q)
    BY <1>5 DEF AdmitFirstVisit, RecordVisit, Walk
  <2> HIDE DEF q, p
  <2> QED
    BY <1>1, <1>2, <2>1, <2>2, DepthKept
<1>6. CASE v = BreakAtLimit(w)
  <2>1. v.queue = w.queue /\ v.merged = <<>> /\ v.frontier = w.frontier
    BY <1>6 DEF BreakAtLimit, RecordVisit, Walk
  <2> QED
    BY <2>1 DEF AtDepth
<1> QED
    BY <1>3, <1>4, <1>5, <1>6

\* v differs from w neither in its queue nor in its merged entries nor in its frontier.
SameLevel(w, v) == v.queue = w.queue /\ v.merged = w.merged /\ v.frontier = w.frontier

\* The iterations that leave all three alone.
LEMMA LevelUntouched ==
    ASSUME NEW w \in Walk
    PROVE  /\ SameLevel(w, AnalyzeNext(w))
           /\ \A i : SameLevel(w, NoteUnrequested(w, i))
           /\ \A k : SameLevel(w, ReserveKey(w, k))
           /\ \A kind, about : SameLevel(w, ReportIssue(w, kind, about))
<1>1. SameLevel(w, AnalyzeNext(w))
    BY DEF SameLevel, Walk, AnalyzeNext
<1>2. \A i : SameLevel(w, NoteUnrequested(w, i))
    BY DEF SameLevel, Walk, NoteUnrequested
<1>3. \A k : SameLevel(w, ReserveKey(w, k))
    BY DEF SameLevel, Walk, ReserveKey
<1>4. \A kind, about : SameLevel(w, ReportIssue(w, kind, about))
    BY DEF SameLevel, Walk, ReportIssue
<1> QED
    BY <1>1, <1>2, <1>3, <1>4

\* The frontier's head leaves, the queue stays.
LEMMA LeaveDepth ==
    ASSUME NEW w \in Walk, w.frontier # <<>>, NEW d, AtDepth(w.frontier, d)
    PROVE  /\ AtDepth(LeaveFrontierHead(w).frontier, d)
           /\ LeaveFrontierHead(w).frontier = Tail(w.frontier)
           /\ LeaveFrontierHead(w).queue = w.queue
           /\ LeaveFrontierHead(w).merged = w.merged
    BY DepthKept DEF LeaveFrontierHead, Walk

\* What is acquired is queued at the depth of its request.
LEMMA EnqueueDepth ==
    ASSUME NEW w \in Walk, NEW r, r.key \in Keys, r.depth \in Nat, r.contexts \subseteq Contexts,
           NEW v, v = EnqueueAcquired(w, r) \/ (v = EnqueueRevisit(w, r) /\ Revisitable(w, r.key)),
           AtDepth(w.queue, r.depth)
    PROVE  /\ AtDepth(v.queue, r.depth)
           /\ v.merged = w.merged /\ v.frontier = w.frontier
<1>1. w.queue \in Seq(Pending)
    BY DEF Walk
<1>2. \A m \in Metadata : PendingFrom(r, m) \in Pending /\ PendingFrom(r, m).depth = r.depth
    BY DEF PendingFrom, Pending, Metadata
<1>3. Yields[r.key] \in Metadata
    BY TraversalAssumption
<1>4. CASE v = EnqueueAcquired(w, r)
  <2>1. /\ v.queue = Append(w.queue, PendingFrom(r, Yields[r.key]))
        /\ v.merged = w.merged /\ v.frontier = w.frontier
    BY <1>4 DEF EnqueueAcquired, Walk
  <2> QED
    BY <1>1, <1>2, <1>3, <2>1, DepthKept
<1>5. CASE v = EnqueueRevisit(w, r) /\ Revisitable(w, r.key)
  <2>1. RevisitedMetadata(w, r.key) \in Metadata
    BY <1>3, <1>5 DEF RevisitedMetadata, Revisitable, NamesRoot, Walk
  <2>2. /\ v.queue = Append(w.queue, PendingFrom(r, RevisitedMetadata(w, r.key)))
        /\ v.merged = w.merged /\ v.frontier = w.frontier
    BY <1>5 DEF EnqueueRevisit, Walk
  <2> QED
    BY <1>1, <1>2, <2>1, <2>2, DepthKept
<1> QED
    BY <1>4, <1>5

-----------------------------------------------------------------------------
(* Reservations.                                                               *)

\* Only ReserveKey changes what a walk has reserved.
LEMMA ReservedUntouched ==
    ASSUME NEW w \in Walk
    PROVE  /\ MergeNext(w).reserved = w.reserved
           /\ DropRevisit(w).reserved = w.reserved
           /\ AdmitRevisit(w).reserved = w.reserved
           /\ AdmitFirstVisit(w).reserved = w.reserved
           /\ BreakAtLimit(w).reserved = w.reserved
           /\ AnalyzeNext(w).reserved = w.reserved
           /\ LeaveFrontierHead(w).reserved = w.reserved
           /\ \A i : NoteUnrequested(w, i).reserved = w.reserved
           /\ \A r : EnqueueRevisit(w, r).reserved = w.reserved
           /\ \A r : EnqueueAcquired(w, r).reserved = w.reserved
           /\ \A kind, about : ReportIssue(w, kind, about).reserved = w.reserved
           /\ \A k : ReserveKey(w, k).reserved = w.reserved \cup {k}
<1>1. MergeNext(w).reserved = w.reserved
    BY DEF Walk, MergeNext
<1>2. DropRevisit(w).reserved = w.reserved /\ AdmitRevisit(w).reserved = w.reserved
    BY DEF Walk, DropRevisit, AdmitRevisit
<1>3. AdmitFirstVisit(w).reserved = w.reserved /\ BreakAtLimit(w).reserved = w.reserved
    BY DEF Walk, AdmitFirstVisit, BreakAtLimit, RecordVisit
<1>4. AnalyzeNext(w).reserved = w.reserved /\ LeaveFrontierHead(w).reserved = w.reserved
    BY DEF Walk, AnalyzeNext, LeaveFrontierHead
<1>5. /\ \A i : NoteUnrequested(w, i).reserved = w.reserved
      /\ \A r : EnqueueRevisit(w, r).reserved = w.reserved
      /\ \A r : EnqueueAcquired(w, r).reserved = w.reserved
    BY DEF Walk, NoteUnrequested, EnqueueRevisit, EnqueueAcquired
<1>6. /\ \A kind, about : ReportIssue(w, kind, about).reserved = w.reserved
      /\ \A k : ReserveKey(w, k).reserved = w.reserved \cup {k}
    BY DEF Walk, ReportIssue, ReserveKey
<1> QED
    BY <1>1, <1>2, <1>3, <1>4, <1>5, <1>6

\* Keys are finitely many.
LEMMA FiniteReserved ==
    ASSUME NEW w \in Walk
    PROVE  IsFiniteSet(w.reserved) /\ Cardinality(w.reserved) \in Nat
<1>1. w.reserved \in SUBSET Keys
    BY DEF Walk
<1> QED
    BY <1>1, TraversalAssumption, FS_Subset, FS_CardinalityType

\* What a walk has acquired, and its root, stay: what can be revisited stays so.
SameRevisits(w, v) == v.root = w.root /\ w.acquired \subseteq v.acquired

\* No iteration of a walk gives up what was acquired.
LEMMA RevisitsKept ==
    ASSUME NEW w \in Walk
    PROVE  /\ SameRevisits(w, MergeNext(w))
           /\ SameRevisits(w, DropRevisit(w))
           /\ SameRevisits(w, AdmitRevisit(w))
           /\ SameRevisits(w, AdmitFirstVisit(w))
           /\ SameRevisits(w, BreakAtLimit(w))
           /\ SameRevisits(w, AnalyzeNext(w))
           /\ SameRevisits(w, LeaveFrontierHead(w))
           /\ \A i : SameRevisits(w, NoteUnrequested(w, i))
           /\ \A r : SameRevisits(w, EnqueueRevisit(w, r))
           /\ \A r : SameRevisits(w, EnqueueAcquired(w, r))
           /\ \A kind, about : SameRevisits(w, ReportIssue(w, kind, about))
           /\ \A k : SameRevisits(w, ReserveKey(w, k))
<1> USE DEF SameRevisits
<1>1. SameRevisits(w, MergeNext(w))
    BY DEF Walk, MergeNext
<1>2. SameRevisits(w, DropRevisit(w)) /\ SameRevisits(w, AdmitRevisit(w))
    BY DEF Walk, DropRevisit, AdmitRevisit
<1>3. SameRevisits(w, AdmitFirstVisit(w)) /\ SameRevisits(w, BreakAtLimit(w))
    BY DEF Walk, AdmitFirstVisit, BreakAtLimit, RecordVisit
<1>4. SameRevisits(w, AnalyzeNext(w)) /\ SameRevisits(w, LeaveFrontierHead(w))
    BY DEF Walk, AnalyzeNext, LeaveFrontierHead
<1>5. /\ \A i : SameRevisits(w, NoteUnrequested(w, i))
      /\ \A r : SameRevisits(w, EnqueueRevisit(w, r))
      /\ \A r : SameRevisits(w, EnqueueAcquired(w, r))
    BY DEF Walk, NoteUnrequested, EnqueueRevisit, EnqueueAcquired
<1>6. /\ \A kind, about : SameRevisits(w, ReportIssue(w, kind, about))
      /\ \A k : SameRevisits(w, ReserveKey(w, k))
    BY DEF Walk, ReportIssue, ReserveKey
<1> HIDE DEF SameRevisits
<1> QED
    BY <1>1, <1>2, <1>3, <1>4, <1>5, <1>6

\* And what could be revisited still can.
LEMMA StillRevisitable ==
    ASSUME NEW w, NEW v, SameRevisits(w, v), NEW key, Revisitable(w, key)
    PROVE  Revisitable(v, key)
    BY DEF SameRevisits, Revisitable, NamesRoot

-----------------------------------------------------------------------------
(* Nothing is lost.  A walk answers for what it was asked with entries that    *)
(* are reported or will be, that have been searched or will be, and that wait  *)
(* in the queue or among the merged ones.                                      *)

EntriesOf(s) == {s[i] : i \in DOMAIN s}

\* Frontier entries that will still be searched; the head no longer once looked at.
Coming(w, looked) == {i \in DOMAIN w.frontier : looked => i # 1}

Reporting(w, looked) == EntriesOf(w.packages) \cup {w.frontier[i] : i \in ToReport(w, looked)}
Searching(w, looked) == EntriesOf(w.discovered) \cup {w.frontier[i] : i \in Coming(w, looked)}
Waiting(w) == EntriesOf(w.queue) \cup EntriesOf(w.merged)

\* A set of numbers that is not empty has a smallest one.
LEMMA SmallestExists ==
    ASSUME NEW T, T \subseteq Nat, T # {}
    PROVE  \E i \in T : \A j \in T : i <= j
<1> DEFINE less == {ss \in Nat \X Nat : ss[1] < ss[2]}
<1>1. IsWellFoundedOn(less, Nat)
    BY NatLessThanWellFounded DEF OpToRel
<1>2. \A x, y \in Nat : y < x => <<y, x>> \in less
    OBVIOUS
<1> HIDE DEF less
<1>3. PICK i \in T : \A j \in T : ~(<<j, i>> \in less)
    BY <1>1, WFMin
<1>4. ASSUME NEW j \in T PROVE i <= j
  <2>1. i \in Nat /\ j \in Nat /\ ~(j < i)
    BY <1>2, <1>3
  <2> QED
    BY <2>1
<1> QED
    BY <1>4

\* Appending adds one entry.
LEMMA EntriesAppended ==
    ASSUME NEW S, NEW s \in Seq(S), NEW e \in S
    PROVE  EntriesOf(Append(s, e)) = EntriesOf(s) \cup {e}
<1> DEFINE t == Append(s, e)
<1>1. /\ DOMAIN t = DOMAIN s \cup {Len(s) + 1}
      /\ \A i \in DOMAIN s : t[i] = s[i]
      /\ t[Len(s) + 1] = e
    BY Appended
<1> HIDE DEF t
<1> QED
    BY <1>1 DEF EntriesOf, t

\* The entries of a sequence are its first one and those of its tail.
LEMMA EntriesTailed ==
    ASSUME NEW S, NEW s \in Seq(S), s # <<>>
    PROVE  EntriesOf(s) = EntriesOf(Tail(s)) \cup {Head(s)}
<1> DEFINE t == Tail(s)
<1>1. DOMAIN s = 1..Len(s) /\ DOMAIN t = 1..(Len(s) - 1) /\ Len(s) \in Nat \ {0}
      /\ Head(s) = s[1] /\ \A i \in 1..(Len(s) - 1) : t[i] = s[i + 1]
    OBVIOUS
<1> HIDE DEF t
<1>2. \A i \in 1..Len(s) : i = 1 \/ (i - 1 \in 1..(Len(s) - 1) /\ s[i] = t[i - 1])
  <2> SUFFICES ASSUME NEW i \in 1..Len(s), i # 1 PROVE i - 1 \in 1..(Len(s) - 1) /\ s[i] = t[i - 1]
    OBVIOUS
  <2>1. i - 1 \in 1..(Len(s) - 1) /\ (i - 1) + 1 = i
    BY <1>1
  <2> QED
    BY <1>1, <2>1
<1>3. EntriesOf(s) \subseteq EntriesOf(t) \cup {Head(s)}
    BY <1>1, <1>2 DEF EntriesOf
<1>4. EntriesOf(t) \subseteq EntriesOf(s) /\ Head(s) \in EntriesOf(s)
    BY <1>1 DEF EntriesOf
<1> QED
    BY <1>3, <1>4 DEF t

\* Every entry of a walk is typed.
LEMMA EntriesTyped ==
    ASSUME NEW w \in Walk, NEW l
    PROVE  Reporting(w, l) \subseteq Pending /\ Searching(w, l) \subseteq Pending /\ Waiting(w) \subseteq Pending
<1>1. /\ w.queue \in Seq(Pending) /\ w.merged \in Seq(Pending) /\ w.frontier \in Seq(Pending)
      /\ w.packages \in Seq(Pending) /\ w.discovered \in Seq(Pending)
    BY DEF Walk
<1>2. \A s \in Seq(Pending) : \A i \in DOMAIN s : s[i] \in Pending
    OBVIOUS
<1> QED
    BY <1>1, <1>2 DEF Reporting, Searching, Waiting, EntriesOf, ToReport, Coming

\* v holds the entries of w, all of them where they were.
SameEntries(w, v) ==
    /\ v.queue = w.queue /\ v.merged = w.merged /\ v.frontier = w.frontier
    /\ v.packages = w.packages /\ v.discovered = w.discovered

\* An iteration that moves no entry changes none of the three.
LEMMA SameFlow ==
    ASSUME NEW w, NEW v, SameEntries(w, v), NEW l
    PROVE  Reporting(v, l) = Reporting(w, l) /\ Searching(v, l) = Searching(w, l) /\ Waiting(v) = Waiting(w)
    BY DEF SameEntries, Reporting, Searching, Waiting, ToReport, Coming

\* Merging moves no entry out of the walk: the queue's first entry becomes a
\* merged one, or a merged one of the same package takes its contexts.
LEMMA MergeFlow ==
    ASSUME NEW w \in Walk, MoreToMerge(w), NEW d, AtDepth(w.queue, d), AtDepth(w.merged, d), NEW l,
           NEW v, v = MergeNext(w)
    PROVE  /\ Reporting(v, l) = Reporting(w, l) /\ Searching(v, l) = Searching(w, l)
           /\ \A p \in Waiting(w) : \E q \in Waiting(v) :
                 SamePackage(q, p) /\ p.contexts \subseteq q.contexts /\ q.depth = p.depth
           /\ \A q \in Waiting(v) : \E p \in Waiting(w) : q.source = p.source /\ q.id = p.id
<1> DEFINE p == Head(w.queue)
           first == CHOOSE i \in MergedAlike(w) : \A j \in MergedAlike(w) : i <= j
<1>1. w.queue \in Seq(Pending) /\ w.merged \in Seq(Pending) /\ w.queue # <<>>
    BY DEF Walk, MoreToMerge
<1>2. p \in Pending /\ p.depth = d /\ EntriesOf(w.queue) = EntriesOf(Tail(w.queue)) \cup {p}
    BY <1>1, Tailed, DepthKept, EntriesTailed
<1>3. /\ v.queue = Tail(w.queue) /\ v.frontier = w.frontier
      /\ v.packages = w.packages /\ v.discovered = w.discovered
    BY DEF MergeNext, Walk
<1>4. v.merged = IF MergedAlike(w) = {} THEN Append(w.merged, p)
                 ELSE [w.merged EXCEPT ![first].contexts = @ \cup p.contexts]
    BY DEF MergeNext, Walk
<1>5. Reporting(v, l) = Reporting(w, l) /\ Searching(v, l) = Searching(w, l)
    BY <1>3 DEF Reporting, Searching, ToReport, Coming
<1>6. CASE MergedAlike(w) = {}
  <2>1. EntriesOf(v.merged) = EntriesOf(w.merged) \cup {p}
    BY <1>1, <1>2, <1>4, <1>6, EntriesAppended
  <2>2. Waiting(v) = Waiting(w)
    BY <1>2, <1>3, <2>1 DEF Waiting
  <2> QED
    BY <1>5, <2>2 DEF SamePackage
<1>7. CASE MergedAlike(w) # {}
  <2> DEFINE f == w.merged[first]
             g == [f EXCEPT !.contexts = @ \cup p.contexts]
  <2>1. first \in DOMAIN w.merged /\ SamePackage(f, p)
    <3>1. MergedAlike(w) \subseteq Nat
      BY <1>1 DEF MergedAlike
    <3>2. \E i \in MergedAlike(w) : \A j \in MergedAlike(w) : i <= j
      BY <1>7, <3>1, SmallestExists
    <3>3. first \in MergedAlike(w)
      BY <3>2
    <3> HIDE DEF first
    <3> QED
      BY <3>3 DEF MergedAlike
  <2> HIDE DEF first
  <2>2. f \in Pending /\ f.depth = d
    BY <1>1, <2>1 DEF AtDepth
  <2>3. /\ DOMAIN v.merged = DOMAIN w.merged /\ v.merged[first] = g
        /\ \A i \in DOMAIN w.merged : i # first => v.merged[i] = w.merged[i]
    BY <1>1, <1>4, <1>7, <2>1
  <2>4. g.source = f.source /\ g.id = f.id /\ g.depth = d /\ f.contexts \subseteq g.contexts /\ p.contexts \subseteq g.contexts
    BY <2>2 DEF Pending
  <2> HIDE DEF f, g, p
  <2>5. ASSUME NEW x \in Waiting(w)
        PROVE  \E q \in Waiting(v) : SamePackage(q, x) /\ x.contexts \subseteq q.contexts /\ q.depth = x.depth
    <3>1. g \in Waiting(v)
      BY <2>1, <2>3 DEF Waiting, EntriesOf
    <3>2. CASE x = p
      BY <1>2, <2>1, <2>4, <3>1, <3>2 DEF SamePackage
    <3>3. CASE x \in EntriesOf(Tail(w.queue))
      BY <1>3, <3>3 DEF Waiting, SamePackage
    <3>4. CASE x \in EntriesOf(w.merged)
      <4>1. PICK i \in DOMAIN w.merged : x = w.merged[i]
        BY <3>4 DEF EntriesOf
      <4>2. CASE i = first
        BY <2>2, <2>4, <3>1, <4>1, <4>2 DEF SamePackage, f
      <4>3. CASE i # first
        <5>1. x \in Waiting(v)
          BY <2>3, <4>1, <4>3 DEF Waiting, EntriesOf
        <5> QED
          BY <5>1 DEF SamePackage
      <4> QED
        BY <4>2, <4>3
    <3> QED
      BY <1>2, <3>2, <3>3, <3>4 DEF Waiting
  <2>6. ASSUME NEW q \in Waiting(v)
        PROVE  \E x \in Waiting(w) : q.source = x.source /\ q.id = x.id
    <3>1. CASE q \in EntriesOf(v.queue)
      BY <1>2, <1>3, <3>1 DEF Waiting
    <3>2. CASE q \in EntriesOf(v.merged)
      <4>1. PICK i \in DOMAIN w.merged : q = v.merged[i]
        BY <2>3, <3>2 DEF EntriesOf
      <4>2. w.merged[i] \in Waiting(w) /\ q.source = w.merged[i].source /\ q.id = w.merged[i].id
        BY <2>3, <2>4, <4>1 DEF Waiting, EntriesOf, f
      <4> QED
        BY <4>2
    <3> QED
      BY <3>1, <3>2 DEF Waiting
  <2> QED
    BY <1>5, <2>5, <2>6
<1> QED
    BY <1>6, <1>7

\* Admitting takes the first merged entry; at the limit all of them go.
LEMMA AdmitPops ==
    ASSUME NEW w \in Walk, w.merged # <<>>, NEW p, p = Head(w.merged)
    PROVE  /\ p \in Pending /\ p \in Waiting(w)
           /\ Waiting(w) = Waiting(DropRevisit(w)) \cup {p}
           /\ Waiting(w) = Waiting(AdmitRevisit(w)) \cup {p}
           /\ Waiting(w) = Waiting(AdmitFirstVisit(w)) \cup {p}
           /\ Waiting(BreakAtLimit(w)) \subseteq Waiting(w)
<1>1. w.merged \in Seq(Pending)
    BY DEF Walk
<1>2. p \in Pending /\ EntriesOf(w.merged) = EntriesOf(Tail(w.merged)) \cup {p}
    BY <1>1, Tailed, EntriesTailed
<1>3. p \in Waiting(w)
    BY <1>2 DEF Waiting
<1>4. \A v : v.queue = w.queue /\ v.merged = Tail(w.merged) => Waiting(w) = Waiting(v) \cup {p}
    BY <1>2 DEF Waiting
<1>5. DropRevisit(w).queue = w.queue /\ DropRevisit(w).merged = Tail(w.merged)
    BY DEF DropRevisit, Walk
<1>6. AdmitRevisit(w).queue = w.queue /\ AdmitRevisit(w).merged = Tail(w.merged)
    BY DEF AdmitRevisit, Walk
<1>7. AdmitFirstVisit(w).queue = w.queue /\ AdmitFirstVisit(w).merged = Tail(w.merged)
    BY DEF AdmitFirstVisit, RecordVisit, Walk
<1>8. Waiting(BreakAtLimit(w)) \subseteq Waiting(w)
  <2>1. BreakAtLimit(w).queue = w.queue /\ BreakAtLimit(w).merged = <<>>
    BY DEF BreakAtLimit, RecordVisit, Walk
  <2> QED
    BY <2>1 DEF Waiting, EntriesOf
<1> QED
    BY <1>2, <1>3, <1>4, <1>5, <1>6, <1>7, <1>8

\* Dropping an entry, and stopping at the limit, leave the frontier alone.
LEMMA DropFlow ==
    ASSUME NEW w \in Walk, NEW v \in {DropRevisit(w), BreakAtLimit(w)}
    PROVE  Reporting(v, FALSE) = Reporting(w, FALSE) /\ Searching(v, FALSE) = Searching(w, FALSE)
<1>1. v.packages = w.packages /\ v.discovered = w.discovered /\ v.frontier = w.frontier
    BY DEF DropRevisit, BreakAtLimit, RecordVisit, Walk
<1> QED
    BY <1>1 DEF Reporting, Searching, ToReport, Coming

\* An entry appended to the frontier will be searched, and reported if it says so.
LEMMA FrontierGrows ==
    ASSUME NEW w \in Walk, NEW v, NEW q \in Pending, v.frontier = Append(w.frontier, q),
           v.packages = w.packages, v.discovered = w.discovered
    PROVE  /\ Searching(v, FALSE) = Searching(w, FALSE) \cup {q}
           /\ q.report => Reporting(v, FALSE) = Reporting(w, FALSE) \cup {q}
           /\ ~q.report => Reporting(v, FALSE) = Reporting(w, FALSE)
<1>0. w.frontier \in Seq(Pending)
    BY DEF Walk
<1> DEFINE n == Len(w.frontier) + 1
<1>1. /\ DOMAIN v.frontier = DOMAIN w.frontier \cup {n} /\ n \notin DOMAIN w.frontier
      /\ v.frontier[n] = q /\ \A i \in DOMAIN w.frontier : v.frontier[i] = w.frontier[i]
    BY <1>0, Appended
<1> HIDE DEF n
<1>2. Searching(v, FALSE) = Searching(w, FALSE) \cup {q}
    BY <1>1 DEF Searching, Coming
<1>3. ASSUME q.report PROVE Reporting(v, FALSE) = Reporting(w, FALSE) \cup {q}
  <2>1. ToReport(v, FALSE) = ToReport(w, FALSE) \cup {n}
    BY <1>1, <1>3 DEF ToReport
  <2>2. \A i \in ToReport(w, FALSE) : v.frontier[i] = w.frontier[i]
    BY <1>1 DEF ToReport
  <2>3. {v.frontier[i] : i \in ToReport(v, FALSE)} = {w.frontier[i] : i \in ToReport(w, FALSE)} \cup {q}
    <3>1. ASSUME NEW x \in {v.frontier[i] : i \in ToReport(v, FALSE)}
          PROVE  x \in {w.frontier[i] : i \in ToReport(w, FALSE)} \cup {q}
      <4>1. PICK i \in ToReport(v, FALSE) : x = v.frontier[i]
        OBVIOUS
      <4> QED
        BY <1>1, <2>1, <2>2, <4>1
    <3>2. ASSUME NEW x \in {w.frontier[i] : i \in ToReport(w, FALSE)}
          PROVE  x \in {v.frontier[i] : i \in ToReport(v, FALSE)}
      <4>1. PICK i \in ToReport(w, FALSE) : x = w.frontier[i]
        OBVIOUS
      <4> QED
        BY <2>1, <2>2, <4>1
    <3>3. q \in {v.frontier[i] : i \in ToReport(v, FALSE)}
      BY <1>1, <2>1
    <3> QED
      BY <3>1, <3>2, <3>3
  <2> QED
    BY <2>3 DEF Reporting
<1>4. ASSUME ~q.report PROVE Reporting(v, FALSE) = Reporting(w, FALSE)
  <2>1. ToReport(v, FALSE) = ToReport(w, FALSE)
    BY <1>1, <1>4 DEF ToReport
  <2>2. \A i \in ToReport(w, FALSE) : v.frontier[i] = w.frontier[i]
    BY <1>1 DEF ToReport
  <2> QED
    BY <2>1, <2>2 DEF Reporting
<1> QED
  BY <1>2, <1>3, <1>4

\* In v the entry q, which is p with the contexts C, comes to what is searched.
ToSearch(w, v, p, C, q) ==
    /\ q.source = p.source /\ q.id = p.id /\ q.depth = p.depth /\ q.contexts = C
    /\ Searching(v, FALSE) = Searching(w, FALSE) \cup {q}

AlsoReported(w, v, q) == Reporting(v, FALSE) = Reporting(w, FALSE) \cup {q}

\* A visited entry is searched again without its old contexts ...
LEMMA RevisitFlow ==
    ASSUME NEW w \in Walk, w.merged # <<>>, NEW p, p = Head(w.merged), NEW v, v = AdmitRevisit(w)
    PROVE  /\ Reporting(v, FALSE) = Reporting(w, FALSE)
           /\ \E q \in Pending : ToSearch(w, v, p, NewContexts(w, p), q)
<1> DEFINE q == [p EXCEPT !.contexts = NewContexts(w, p), !.report = FALSE]
<1>1. p \in Pending
    BY AdmitPops
<1>2. /\ q \in Pending /\ ~q.report
      /\ q.source = p.source /\ q.id = p.id /\ q.depth = p.depth /\ q.contexts = NewContexts(w, p)
    BY <1>1 DEF NewContexts, Pending
<1>3. v.frontier = Append(w.frontier, q) /\ v.packages = w.packages /\ v.discovered = w.discovered
    BY DEF AdmitRevisit, Walk
<1> HIDE DEF q
<1> QED
    BY <1>2, <1>3, FrontierGrows DEF ToSearch

\* ... and a new one is reported and searched.
LEMMA FirstVisitFlow ==
    ASSUME NEW w \in Walk, w.merged # <<>>, NEW p, p = Head(w.merged), NEW v, v = AdmitFirstVisit(w)
    PROVE  \E q \in Pending : ToSearch(w, v, p, p.contexts, q) /\ AlsoReported(w, v, q)
<1> DEFINE q == [p EXCEPT !.report = TRUE]
<1>1. p \in Pending
    BY AdmitPops
<1>2. /\ q \in Pending /\ q.report
      /\ q.source = p.source /\ q.id = p.id /\ q.depth = p.depth /\ q.contexts = p.contexts
    BY <1>1 DEF Pending
<1>3. v.frontier = Append(w.frontier, q) /\ v.packages = w.packages /\ v.discovered = w.discovered
    BY DEF AdmitFirstVisit, RecordVisit, Walk
<1> HIDE DEF q
<1> QED
    BY <1>2, <1>3, FrontierGrows DEF ToSearch, AlsoReported

\* Looking at the frontier's head moves it into the report and the discoveries.
LEMMA AnalyzeFlow ==
    ASSUME NEW w \in Walk, w.frontier # <<>>
    PROVE  /\ LET v == AnalyzeNext(w)
              IN  /\ Reporting(v, TRUE) = Reporting(w, FALSE) /\ Searching(v, TRUE) = Searching(w, FALSE)
                  /\ Waiting(v) = Waiting(w)
                  /\ v.discovered = Append(w.discovered, Head(w.frontier)) /\ v.frontier = w.frontier
           /\ LET u == LeaveFrontierHead(w)
              IN  /\ Reporting(u, FALSE) = Reporting(w, TRUE) /\ Searching(u, FALSE) = Searching(w, TRUE)
                  /\ Waiting(u) = Waiting(w)
<1>1. w.frontier \in Seq(Pending) /\ w.packages \in Seq(Pending) /\ w.discovered \in Seq(Pending)
    BY DEF Walk
<1> DEFINE p == w.frontier[1]
           v == AnalyzeNext(w)
           u == LeaveFrontierHead(w)
<1>2. p \in Pending /\ Head(w.frontier) = p /\ 1 \in DOMAIN w.frontier
    BY <1>1, Tailed
<1>3. /\ v.frontier = w.frontier /\ v.queue = w.queue /\ v.merged = w.merged
      /\ v.packages = IF p.report THEN Append(w.packages, p) ELSE w.packages
      /\ v.discovered = Append(w.discovered, p)
    BY <1>2 DEF AnalyzeNext, Walk
<1>4. /\ u.packages = w.packages /\ u.discovered = w.discovered /\ u.queue = w.queue /\ u.merged = w.merged
      /\ u.frontier = Tail(w.frontier)
    BY DEF LeaveFrontierHead, Walk
<1>5. /\ EntriesOf(v.discovered) = EntriesOf(w.discovered) \cup {p}
      /\ p.report => EntriesOf(v.packages) = EntriesOf(w.packages) \cup {p}
      /\ ~p.report => v.packages = w.packages
    BY <1>1, <1>2, <1>3, EntriesAppended
<1>6. DOMAIN u.frontier = 1..(Len(w.frontier) - 1) /\ DOMAIN w.frontier = 1..Len(w.frontier) /\ Len(w.frontier) \in Nat
      /\ \A i \in DOMAIN u.frontier : u.frontier[i] = w.frontier[i + 1]
    BY <1>1, <1>4
<1> HIDE DEF p, v, u
<1>7. Waiting(v) = Waiting(w) /\ Waiting(u) = Waiting(w)
    BY <1>3, <1>4 DEF Waiting
<1>8. Searching(v, TRUE) = Searching(w, FALSE)
  <2>1. Coming(v, TRUE) = Coming(w, FALSE) \ {1} /\ 1 \in Coming(w, FALSE)
    BY <1>2, <1>3 DEF Coming
  <2> QED
    BY <1>3, <1>5, <2>1 DEF Searching, p
<1>9. Reporting(v, TRUE) = Reporting(w, FALSE)
  <2>1. ToReport(v, TRUE) = ToReport(w, FALSE) \ {1} /\ (1 \in ToReport(w, FALSE) <=> p.report)
    BY <1>2, <1>3 DEF ToReport, p
  <2>2. CASE p.report
    BY <1>3, <1>5, <2>1, <2>2 DEF Reporting, p
  <2>3. CASE ~p.report
    BY <1>3, <1>5, <2>1, <2>3 DEF Reporting, p
  <2> QED
    BY <2>2, <2>3
<1>10. \A i \in DOMAIN w.frontier : i # 1 => i - 1 \in DOMAIN u.frontier /\ u.frontier[i - 1] = w.frontier[i]
  <2> SUFFICES ASSUME NEW i \in DOMAIN w.frontier, i # 1
               PROVE  i - 1 \in DOMAIN u.frontier /\ u.frontier[i - 1] = w.frontier[i]
    OBVIOUS
  <2>1. i - 1 \in DOMAIN u.frontier /\ (i - 1) + 1 = i
    BY <1>6
  <2> QED
    BY <1>6, <2>1
<1>11. \A i \in DOMAIN u.frontier : i + 1 \in DOMAIN w.frontier /\ i + 1 # 1 /\ u.frontier[i] = w.frontier[i + 1]
    BY <1>6
<1>12. {u.frontier[i] : i \in Coming(u, FALSE)} = {w.frontier[i] : i \in Coming(w, TRUE)}
  <2>1. \A i \in Coming(u, FALSE) : i + 1 \in Coming(w, TRUE) /\ u.frontier[i] = w.frontier[i + 1]
    BY <1>11 DEF Coming
  <2>2. \A i \in Coming(w, TRUE) : i - 1 \in Coming(u, FALSE) /\ w.frontier[i] = u.frontier[i - 1]
    BY <1>10 DEF Coming
  <2>3. ASSUME NEW x \in {u.frontier[i] : i \in Coming(u, FALSE)} PROVE x \in {w.frontier[i] : i \in Coming(w, TRUE)}
    <3>1. PICK i \in Coming(u, FALSE) : x = u.frontier[i]
      OBVIOUS
    <3> QED
      BY <2>1, <3>1
  <2>4. ASSUME NEW x \in {w.frontier[i] : i \in Coming(w, TRUE)} PROVE x \in {u.frontier[i] : i \in Coming(u, FALSE)}
    <3>1. PICK i \in Coming(w, TRUE) : x = w.frontier[i]
      OBVIOUS
    <3> QED
      BY <2>2, <3>1
  <2> QED
    BY <2>3, <2>4
<1>13. {u.frontier[i] : i \in ToReport(u, FALSE)} = {w.frontier[i] : i \in ToReport(w, TRUE)}
  <2>1. \A i \in ToReport(u, FALSE) : i + 1 \in ToReport(w, TRUE) /\ u.frontier[i] = w.frontier[i + 1]
    BY <1>11 DEF ToReport
  <2>2. \A i \in ToReport(w, TRUE) : i - 1 \in ToReport(u, FALSE) /\ w.frontier[i] = u.frontier[i - 1]
    BY <1>10 DEF ToReport
  <2>3. ASSUME NEW x \in {u.frontier[i] : i \in ToReport(u, FALSE)} PROVE x \in {w.frontier[i] : i \in ToReport(w, TRUE)}
    <3>1. PICK i \in ToReport(u, FALSE) : x = u.frontier[i]
      OBVIOUS
    <3> QED
      BY <2>1, <3>1
  <2>4. ASSUME NEW x \in {w.frontier[i] : i \in ToReport(w, TRUE)} PROVE x \in {u.frontier[i] : i \in ToReport(u, FALSE)}
    <3>1. PICK i \in ToReport(w, TRUE) : x = w.frontier[i]
      OBVIOUS
    <3> QED
      BY <2>2, <3>1
  <2> QED
    BY <2>3, <2>4
<1>14. Searching(u, FALSE) = Searching(w, TRUE) /\ Reporting(u, FALSE) = Reporting(w, TRUE)
    BY <1>4, <1>12, <1>13 DEF Searching, Reporting
<1> QED
    BY <1>2, <1>3, <1>7, <1>8, <1>9, <1>14 DEF u, v

\* What is queued waits.
LEMMA EnqueueFlow ==
    ASSUME NEW w \in Walk, NEW r, r.key \in Keys, r.depth \in Nat, r.contexts \subseteq Contexts,
           NEW v, NEW m \in Metadata,
           \/ v = EnqueueAcquired(w, r) /\ m = Yields[r.key]
           \/ v = EnqueueRevisit(w, r) /\ m = RevisitedMetadata(w, r.key)
    PROVE  /\ \A l : Reporting(v, l) = Reporting(w, l) /\ Searching(v, l) = Searching(w, l)
           /\ Waiting(v) = Waiting(w) \cup {PendingFrom(r, m)}
           /\ v.discovered = w.discovered
<1> DEFINE q == PendingFrom(r, m)
<1>1. w.queue \in Seq(Pending)
    BY DEF Walk
<1>2. q \in Pending
    BY DEF PendingFrom, Pending, Metadata
<1>3. /\ v.queue = Append(w.queue, q) /\ v.merged = w.merged /\ v.frontier = w.frontier
      /\ v.packages = w.packages /\ v.discovered = w.discovered
    BY DEF EnqueueAcquired, EnqueueRevisit, Walk
<1> HIDE DEF q
<1>4. EntriesOf(v.queue) = EntriesOf(w.queue) \cup {q}
    BY <1>1, <1>2, <1>3, EntriesAppended
<1>5. Waiting(v) = Waiting(w) \cup {q}
    BY <1>3, <1>4 DEF Waiting
<1>6. \A l : Reporting(v, l) = Reporting(w, l) /\ Searching(v, l) = Searching(w, l)
    BY <1>3 DEF Reporting, Searching, ToReport, Coming
<1> QED
    BY <1>3, <1>5, <1>6 DEF q

\* The iterations that move no entry.
LEMMA EntriesUntouched ==
    ASSUME NEW w \in Walk
    PROVE  /\ \A i : SameEntries(w, NoteUnrequested(w, i))
           /\ \A k : SameEntries(w, ReserveKey(w, k))
           /\ \A kind, about : SameEntries(w, ReportIssue(w, kind, about))
<1>1. \A i : SameEntries(w, NoteUnrequested(w, i))
    BY DEF SameEntries, Walk, NoteUnrequested
<1>2. \A k : SameEntries(w, ReserveKey(w, k))
    BY DEF SameEntries, Walk, ReserveKey
<1>3. \A kind, about : SameEntries(w, ReportIssue(w, kind, about))
    BY DEF SameEntries, Walk, ReportIssue
<1> QED
    BY <1>1, <1>2, <1>3

-----------------------------------------------------------------------------
(* Every entry stands for the package the walk started with, `o`, or for one   *)
(* that was acquired.  One directory has one id, so that being the same        *)
(* package, by directory or by id, is transitive among them.                   *)

Consistent(o) ==
    o \in Metadata /\ \A k \in Keys : Yields[k].source = o.source => Yields[k].id = o.id

Stands(w, o, p) ==
    \/ p.source = o.source /\ p.id = o.id
    \/ \E k \in w.acquired : p.source = Yields[k].source /\ p.id = Yields[k].id

Belongs(o, p) ==
    \/ p.source = o.source /\ p.id = o.id
    \/ \E k \in Keys : p.source = Yields[k].source /\ p.id = Yields[k].id

\* Two entries that share their directory share their id.
LEMMA OneIdPerSource ==
    ASSUME NEW o, Consistent(o), NEW p, NEW q, Belongs(o, p), Belongs(o, q), p.source = q.source
    PROVE  p.id = q.id
    BY TraversalAssumption DEF Consistent, Belongs

\* Being the same package is transitive.
LEMMA SameThrough ==
    ASSUME NEW o, Consistent(o), NEW p, NEW q, NEW t, Belongs(o, p), Belongs(o, q), Belongs(o, t),
           SamePackage(p, q), SamePackage(q, t)
    PROVE  SamePackage(p, t)
    BY OneIdPerSource DEF SamePackage

\* What stands for something belongs to the walk; so does what a key stands for.
LEMMA StandsBelongs ==
    ASSUME NEW w \in Walk, NEW o, Consistent(o), w.root \in {None, o}
    PROVE  /\ \A p : Stands(w, o, p) => Belongs(o, p)
           /\ \A k \in Keys : Belongs(o, Target(w, k))
<1>1. w.acquired \subseteq Keys
    BY DEF Walk
<1>2. \A p : Stands(w, o, p) => Belongs(o, p)
    BY <1>1 DEF Stands, Belongs
<1>3. \A k \in Keys : Belongs(o, Target(w, k))
    BY DEF Belongs, Target, NamesRoot
<1> QED
    BY <1>2, <1>3

Grounded(w, looked, o) ==
    /\ w.root \in {None, o}
    /\ \A p \in Reporting(w, looked) \cup Searching(w, looked) \cup Waiting(w) : Stands(w, o, p)
    /\ \A s \in w.sources : s = o.source \/ \E k \in w.acquired : Yields[k].source = s

\* What has been visited is or will be reported; a context recorded for a
\* directory has been or will be searched there.
VisitsListed(w, looked) ==
    /\ \A s \in w.sources : \E p \in Reporting(w, looked) : p.source = s
    /\ \A a \in w.ids : \E p \in Reporting(w, looked) : p.id = a

ContextsSearched(w, looked) ==
    \A s \in Sources : \A c \in w.contexts[s] :
        \E p \in Searching(w, looked) : p.source = s /\ c \in p.contexts

\* At the limit the rest of a frontier is dropped, and nothing is promised but
\* where the entries come from.
Tracked(w, looked, o) ==
    /\ Grounded(w, looked, o)
    /\ LimitReported(w) \/ (VisitsListed(w, looked) /\ ContextsSearched(w, looked))

\* A package t asked for at depth e under the contexts C has its answer, or
\* will have it from what is in the frontier ...
Settled(w, looked, t, C, e) ==
    /\ \E p \in Reporting(w, looked) : SamePackage(p, t) /\ p.depth <= e
    /\ \A c \in C : \E p \in Searching(w, looked) : SamePackage(p, t) /\ c \in p.contexts /\ p.depth <= e

\* ... or from what waits.
Queued(w, t, C, e) ==
    \E p \in Waiting(w) : SamePackage(p, t) /\ C \subseteq p.contexts /\ p.depth <= e

Held(w, looked, t, C, e) == Settled(w, looked, t, C, e) \/ Queued(w, t, C, e)

NoDeeper(w, looked, d) == \A p \in Reporting(w, looked) \cup Searching(w, looked) : p.depth <= d

\* Entries of v that stand for what entries of w stood for are grounded.
LEMMA GroundedKept ==
    ASSUME NEW w, NEW v, NEW l, NEW m, NEW o, Grounded(w, l, o),
           v.root = w.root, w.acquired \subseteq v.acquired,
           \A p \in Reporting(v, m) \cup Searching(v, m) \cup Waiting(v) :
              \/ Stands(v, o, p)
              \/ \E q \in Reporting(w, l) \cup Searching(w, l) \cup Waiting(w) :
                    p.source = q.source /\ p.id = q.id,
           \A s \in v.sources : s \in w.sources \/ \E q \in Waiting(w) : q.source = s
    PROVE  Grounded(v, m, o)
<1>1. \A p, q : Stands(w, o, q) /\ p.source = q.source /\ p.id = q.id => Stands(v, o, p)
    BY DEF Stands
<1>2. \A p \in Reporting(v, m) \cup Searching(v, m) \cup Waiting(v) : Stands(v, o, p)
    BY <1>1 DEF Grounded
<1>3. \A q \in Waiting(w) : q.source = o.source \/ \E k \in w.acquired : Yields[k].source = q.source
    BY DEF Grounded, Stands
<1>4. \A s \in v.sources : s = o.source \/ \E k \in v.acquired : Yields[k].source = s
    BY <1>3 DEF Grounded
<1> QED
    BY <1>2, <1>4 DEF Grounded

\* v keeps the answers of w.
LEMMA HeldMonotone ==
    ASSUME NEW w, NEW v, NEW l, NEW m,
           Reporting(w, l) \subseteq Reporting(v, m), Searching(w, l) \subseteq Searching(v, m),
           NEW t, NEW C, NEW e
    PROVE  /\ Settled(w, l, t, C, e) => Settled(v, m, t, C, e)
           /\ Waiting(w) \subseteq Waiting(v) /\ Held(w, l, t, C, e) => Held(v, m, t, C, e)
    BY DEF Settled, Queued, Held

\* v has recorded the same visits as w.
SameVisits(w, v) ==
    /\ v.root = w.root /\ v.acquired = w.acquired
    /\ v.sources = w.sources /\ v.ids = w.ids /\ v.contexts = w.contexts

\* Iterations that leave visits and issues about the limit alone.
LEMMA VisitsUntouched ==
    ASSUME NEW w \in Walk
    PROVE  /\ SameVisits(w, MergeNext(w)) /\ MergeNext(w).issues = w.issues
           /\ SameVisits(w, DropRevisit(w)) /\ DropRevisit(w).issues = w.issues
           /\ SameVisits(w, AnalyzeNext(w)) /\ w.issues \subseteq AnalyzeNext(w).issues
           /\ SameVisits(w, LeaveFrontierHead(w)) /\ LeaveFrontierHead(w).issues = w.issues
           /\ \A i : SameVisits(w, NoteUnrequested(w, i)) /\ w.issues \subseteq NoteUnrequested(w, i).issues
           /\ \A k : SameVisits(w, ReserveKey(w, k)) /\ ReserveKey(w, k).issues = w.issues
           /\ \A kind, about : SameVisits(w, ReportIssue(w, kind, about))
                               /\ w.issues \subseteq ReportIssue(w, kind, about).issues
           /\ \A r : SameVisits(w, EnqueueRevisit(w, r)) /\ EnqueueRevisit(w, r).issues = w.issues
<1>1. SameVisits(w, MergeNext(w)) /\ MergeNext(w).issues = w.issues
    BY DEF SameVisits, Walk, MergeNext
<1>2. SameVisits(w, DropRevisit(w)) /\ DropRevisit(w).issues = w.issues
    BY DEF SameVisits, Walk, DropRevisit
<1>3. SameVisits(w, AnalyzeNext(w)) /\ w.issues \subseteq AnalyzeNext(w).issues
    BY DEF SameVisits, Walk, AnalyzeNext
<1>4. SameVisits(w, LeaveFrontierHead(w)) /\ LeaveFrontierHead(w).issues = w.issues
    BY DEF SameVisits, Walk, LeaveFrontierHead
<1>5. \A i : SameVisits(w, NoteUnrequested(w, i)) /\ w.issues \subseteq NoteUnrequested(w, i).issues
    BY DEF SameVisits, Walk, NoteUnrequested
<1>6. \A k : SameVisits(w, ReserveKey(w, k)) /\ ReserveKey(w, k).issues = w.issues
    BY DEF SameVisits, Walk, ReserveKey
<1>7. \A kind, about : SameVisits(w, ReportIssue(w, kind, about))
                       /\ w.issues \subseteq ReportIssue(w, kind, about).issues
    BY DEF SameVisits, Walk, ReportIssue
<1>8. \A r : SameVisits(w, EnqueueRevisit(w, r)) /\ EnqueueRevisit(w, r).issues = w.issues
    BY DEF SameVisits, Walk, EnqueueRevisit
<1> QED
    BY <1>1, <1>2, <1>3, <1>4, <1>5, <1>6, <1>7, <1>8

\* Issues are never taken back.
LEMMA LimitStays ==
    ASSUME NEW w, NEW v, w.issues \subseteq v.issues, LimitReported(w)
    PROVE  LimitReported(v)
    BY DEF LimitReported

\* The same visits and entries that stand for the same packages stay tracked.
LEMMA TrackedKept ==
    ASSUME NEW w, NEW v, NEW l, NEW m, NEW o, Tracked(w, l, o),
           SameVisits(w, v), w.issues \subseteq v.issues,
           Reporting(v, m) = Reporting(w, l), Searching(v, m) = Searching(w, l),
           \A p \in Waiting(v) : \/ Stands(v, o, p)
                                 \/ \E q \in Waiting(w) : p.source = q.source /\ p.id = q.id
    PROVE  Tracked(v, m, o)
<1>1. Grounded(v, m, o)
  <2>1. \A p \in Reporting(v, m) \cup Searching(v, m) \cup Waiting(v) :
              \/ Stands(v, o, p)
              \/ \E q \in Reporting(w, l) \cup Searching(w, l) \cup Waiting(w) :
                    p.source = q.source /\ p.id = q.id
    OBVIOUS
  <2>2. /\ v.root = w.root /\ w.acquired \subseteq v.acquired
        /\ \A s \in v.sources : s \in w.sources \/ \E q \in Waiting(w) : q.source = s
    BY DEF SameVisits
  <2> QED
    BY <2>1, <2>2, GroundedKept DEF Tracked
<1>2. VisitsListed(w, l) => VisitsListed(v, m)
    BY DEF VisitsListed, SameVisits
<1>3. ContextsSearched(w, l) => ContextsSearched(v, m)
    BY DEF ContextsSearched, SameVisits
<1> QED
    BY <1>1, <1>2, <1>3, LimitStays DEF Tracked

\* A new walk answers for nothing yet; its root waits.
LEMMA TrackedNew ==
    ASSUME NEW s \in Sources, NEW r \in Metadata \cup {None}, NEW o, Consistent(o), o.source = s,
           r = None => o.id = None, r # None => r = o
    PROVE  Tracked(NewWalk(s, r), FALSE, o)
<1> DEFINE w == NewWalk(s, r)
           p == [source |-> s, id |-> IF r = None THEN None ELSE r.id,
                 depth |-> 0, contexts |-> {}, report |-> TRUE]
<1>1. /\ w.queue = <<p>> /\ w.merged = <<>> /\ w.frontier = <<>> /\ w.packages = <<>> /\ w.discovered = <<>>
      /\ w.root = r /\ w.sources = {} /\ w.ids = {} /\ \A x \in Sources : w.contexts[x] = {}
    BY DEF NewWalk
<1>2. p.source = o.source /\ p.id = o.id
    OBVIOUS
<1> HIDE DEF w, p
<1>3. Waiting(w) = {p} /\ Reporting(w, FALSE) = {} /\ Searching(w, FALSE) = {}
    BY <1>1 DEF Waiting, Reporting, Searching, EntriesOf, ToReport, Coming
<1>4. Grounded(w, FALSE, o)
    BY <1>1, <1>2, <1>3 DEF Grounded, Stands
<1>5. VisitsListed(w, FALSE) /\ ContextsSearched(w, FALSE)
    BY <1>1 DEF VisitsListed, ContextsSearched
<1> QED
    BY <1>4, <1>5 DEF Tracked, w

\* Everything a walk holds belongs to it.
LEMMA TrackedBelongs ==
    ASSUME NEW w \in Walk, NEW l, NEW o, Consistent(o), Tracked(w, l, o)
    PROVE  /\ \A p \in Reporting(w, l) \cup Searching(w, l) \cup Waiting(w) : Belongs(o, p)
           /\ \A k \in Keys : Belongs(o, Target(w, k))
           /\ w.root \in {None, o}
    BY StandsBelongs DEF Tracked, Grounded

\* Merging loses nothing.
LEMMA MergeHolds ==
    ASSUME NEW w \in Walk, MoreToMerge(w), NEW d, AtDepth(w.queue, d), AtDepth(w.merged, d), NEW l,
           NEW o, Consistent(o), Tracked(w, l, o), NEW v, v = MergeNext(w)
    PROVE  /\ Tracked(v, l, o)
           /\ \A t, C, e : Belongs(o, t) /\ Held(w, l, t, C, e) => Held(v, l, t, C, e)
<1>1. /\ Reporting(v, l) = Reporting(w, l) /\ Searching(v, l) = Searching(w, l)
      /\ \A p \in Waiting(w) : \E q \in Waiting(v) :
            SamePackage(q, p) /\ p.contexts \subseteq q.contexts /\ q.depth = p.depth
      /\ \A q \in Waiting(v) : \E p \in Waiting(w) : q.source = p.source /\ q.id = p.id
    BY MergeFlow
<1>2. Tracked(v, l, o)
    BY <1>1, VisitsUntouched, TrackedKept
<1>3. ASSUME NEW t, NEW C, NEW e, Belongs(o, t), Queued(w, t, C, e) PROVE Queued(v, t, C, e)
  <2>1. PICK p \in Waiting(w) : SamePackage(p, t) /\ C \subseteq p.contexts /\ p.depth <= e
    BY <1>3 DEF Queued
  <2>2. PICK q \in Waiting(v) : SamePackage(q, p) /\ p.contexts \subseteq q.contexts /\ q.depth = p.depth
    BY <1>1
  <2>3. v \in Walk
    BY MergeNextType
  <2>4. Belongs(o, p) /\ Belongs(o, q)
    BY <1>2, <2>3, TrackedBelongs
  <2>5. SamePackage(q, t)
    BY <1>3, <2>1, <2>2, <2>4, SameThrough
  <2> QED
    BY <2>1, <2>2, <2>5 DEF Queued
<1>4. \A t, C, e : Settled(w, l, t, C, e) => Settled(v, l, t, C, e)
    BY <1>1 DEF Settled
<1> QED
    BY <1>2, <1>3, <1>4 DEF Held

\* An entry that has been visited is answered by what was reported then, and its
\* known contexts by what was searched then.
LEMMA VisitAnswers ==
    ASSUME NEW w \in Walk, NEW o, Consistent(o), Tracked(w, FALSE, o), ~LimitReported(w),
           NEW d \in Nat, NoDeeper(w, FALSE, d), NEW p \in Waiting(w), p.depth = d,
           NEW t, Belongs(o, t), SamePackage(p, t), NEW e \in Nat, d <= e
    PROVE  /\ Visited(w, p) => \E r \in Reporting(w, FALSE) : SamePackage(r, t) /\ r.depth <= e
           /\ \A c \in w.contexts[p.source] :
                 \E r \in Searching(w, FALSE) : SamePackage(r, t) /\ c \in r.contexts /\ r.depth <= e
<1>1. VisitsListed(w, FALSE) /\ ContextsSearched(w, FALSE)
    BY DEF Tracked
<1>2. Belongs(o, p) /\ p \in Pending /\ \A r \in Reporting(w, FALSE) \cup Searching(w, FALSE) : Belongs(o, r)
    BY TrackedBelongs, EntriesTyped
<1>3. \A r \in Reporting(w, FALSE) \cup Searching(w, FALSE) : r \in Pending /\ r.depth <= d
    BY EntriesTyped DEF NoDeeper
<1>4. \A r \in Reporting(w, FALSE) \cup Searching(w, FALSE) : r.depth <= e
  <2> SUFFICES ASSUME NEW r \in Reporting(w, FALSE) \cup Searching(w, FALSE) PROVE r.depth <= e
    OBVIOUS
  <2>1. r.depth \in Nat /\ r.depth <= d
    BY <1>3 DEF Pending
  <2> QED
    BY <2>1
<1>5. ASSUME Visited(w, p) PROVE \E r \in Reporting(w, FALSE) : SamePackage(r, t) /\ r.depth <= e
  <2>1. PICK r \in Reporting(w, FALSE) : SamePackage(r, p)
    BY <1>1, <1>5 DEF Visited, VisitsListed, SamePackage
  <2>2. SamePackage(r, t)
    BY <1>2, <2>1, SameThrough
  <2> QED
    BY <1>4, <2>2
<1>6. ASSUME NEW c \in w.contexts[p.source]
      PROVE  \E r \in Searching(w, FALSE) : SamePackage(r, t) /\ c \in r.contexts /\ r.depth <= e
  <2>1. p.source \in Sources
    BY <1>2 DEF Pending
  <2>2. PICK r \in Searching(w, FALSE) : r.source = p.source /\ c \in r.contexts
    BY <1>1, <1>6, <2>1 DEF ContextsSearched
  <2>3. SamePackage(r, p)
    BY <2>2 DEF SamePackage
  <2>4. SamePackage(r, t)
    BY <1>2, <2>3, SameThrough
  <2> QED
    BY <1>4, <2>2, <2>4
<1> QED
    BY <1>5, <1>6

\* What the waiting entry p answers, it answers in v's frontier.
LEMMA AdmitHolds ==
    ASSUME NEW w \in Walk, w.merged # <<>>, NEW d \in Nat, AtDepth(w.merged, d), NoDeeper(w, FALSE, d),
           NEW o, Consistent(o), Tracked(w, FALSE, o), NEW p, p = Head(w.merged), NEW v,
           \/ v = DropRevisit(w) /\ Visited(w, p) /\ NewContexts(w, p) = {}
           \/ v = AdmitRevisit(w) /\ Visited(w, p)
           \/ v = AdmitFirstVisit(w)
    PROVE  ~LimitReported(w) => \A t, C : \A e \in Nat :
                Belongs(o, t) /\ Held(w, FALSE, t, C, e) => Held(v, FALSE, t, C, e)
<1>0. SUFFICES ASSUME ~LimitReported(w), NEW t, NEW C, NEW e \in Nat, Belongs(o, t), Held(w, FALSE, t, C, e)
               PROVE  Held(v, FALSE, t, C, e)
    OBVIOUS
<1>1. /\ p \in Pending /\ p \in Waiting(w) /\ Waiting(w) = Waiting(v) \cup {p}
      /\ Reporting(w, FALSE) \subseteq Reporting(v, FALSE) /\ Searching(w, FALSE) \subseteq Searching(v, FALSE)
  <2>1. p \in Pending /\ p \in Waiting(w) /\ Waiting(w) = Waiting(v) \cup {p}
    BY AdmitPops
  <2>2. CASE v = DropRevisit(w)
    BY <2>1, <2>2, DropFlow
  <2>3. CASE v = AdmitRevisit(w)
    BY <2>1, <2>3, RevisitFlow DEF ToSearch
  <2>4. CASE v = AdmitFirstVisit(w)
    <3>1. \E q \in Pending : ToSearch(w, v, p, p.contexts, q) /\ AlsoReported(w, v, q)
      BY <2>4, FirstVisitFlow
    <3> QED
      BY <2>1, <3>1 DEF ToSearch, AlsoReported
  <2> QED
    BY <2>2, <2>3, <2>4
<1>2. p.depth = d /\ p.depth \in Nat
  <2>1. w.merged \in Seq(Pending)
    BY DEF Walk
  <2> QED
    BY <2>1, DepthKept
<1>3. CASE Settled(w, FALSE, t, C, e)
    BY <1>1, <1>3, HeldMonotone DEF Held
<1>4. CASE Queued(w, t, C, e)
  <2>1. PICK q \in Waiting(w) : SamePackage(q, t) /\ C \subseteq q.contexts /\ q.depth <= e
    BY <1>4 DEF Queued
  <2>2. CASE q \in Waiting(v)
    BY <2>1, <2>2 DEF Held, Queued
  <2>3. CASE q = p
    <3>1. SamePackage(p, t) /\ C \subseteq p.contexts /\ d <= e
      BY <1>2, <2>1, <2>3
    <3>2. /\ Visited(w, p) => \E r \in Reporting(w, FALSE) : SamePackage(r, t) /\ r.depth <= e
          /\ \A c \in w.contexts[p.source] :
                \E r \in Searching(w, FALSE) : SamePackage(r, t) /\ c \in r.contexts /\ r.depth <= e
      BY <1>0, <1>1, <1>2, <3>1, VisitAnswers
    <3>3. CASE v = DropRevisit(w) /\ Visited(w, p) /\ NewContexts(w, p) = {}
      <4>1. C \subseteq w.contexts[p.source]
        BY <3>1, <3>3 DEF NewContexts
      <4>2. Settled(w, FALSE, t, C, e)
        BY <3>2, <3>3, <4>1 DEF Settled
      <4> QED
        BY <1>1, <4>2, HeldMonotone DEF Held
    <3>4. CASE v = AdmitRevisit(w) /\ Visited(w, p)
      <4>0. PICK r \in Pending : ToSearch(w, v, p, NewContexts(w, p), r)
        BY <3>4, RevisitFlow
      <4>1. /\ r.source = p.source /\ r.id = p.id /\ r.depth = p.depth /\ r.contexts = NewContexts(w, p)
            /\ Searching(v, FALSE) = Searching(w, FALSE) \cup {r}
        BY <4>0 DEF ToSearch
      <4>2. SamePackage(r, t) /\ r.depth <= e
        BY <1>2, <3>1, <4>1 DEF SamePackage
      <4>3. \A c \in C : \E x \in Searching(v, FALSE) : SamePackage(x, t) /\ c \in x.contexts /\ x.depth <= e
        <5> SUFFICES ASSUME NEW c \in C
                     PROVE  \E x \in Searching(v, FALSE) : SamePackage(x, t) /\ c \in x.contexts /\ x.depth <= e
          OBVIOUS
        <5>1. CASE c \in w.contexts[p.source]
          BY <1>1, <3>2, <5>1
        <5>2. CASE c \notin w.contexts[p.source]
          <6>1. c \in r.contexts /\ r \in Searching(v, FALSE)
            BY <3>1, <4>1, <5>2 DEF NewContexts
          <6> QED
            BY <4>2, <6>1
        <5> QED
          BY <5>1, <5>2
      <4>4. Settled(v, FALSE, t, C, e)
        BY <1>1, <3>2, <3>4, <4>3 DEF Settled
      <4> QED
        BY <4>4 DEF Held
    <3>5. CASE v = AdmitFirstVisit(w)
      <4>0. PICK r \in Pending : ToSearch(w, v, p, p.contexts, r) /\ AlsoReported(w, v, r)
        BY <3>5, FirstVisitFlow
      <4>1. /\ r.source = p.source /\ r.id = p.id /\ r.depth = p.depth /\ r.contexts = p.contexts
            /\ Reporting(v, FALSE) = Reporting(w, FALSE) \cup {r}
            /\ Searching(v, FALSE) = Searching(w, FALSE) \cup {r}
        BY <4>0 DEF ToSearch, AlsoReported
      <4>2. SamePackage(r, t) /\ r.depth <= e /\ C \subseteq r.contexts
        BY <1>2, <3>1, <4>1 DEF SamePackage
      <4>3. r \in Reporting(v, FALSE) /\ r \in Searching(v, FALSE)
        BY <4>1
      <4>4. Settled(v, FALSE, t, C, e)
        BY <4>2, <4>3 DEF Settled
      <4> QED
        BY <4>4 DEF Held
    <3> QED
      BY <3>3, <3>4, <3>5
  <2> QED
    BY <1>1, <2>2, <2>3
<1> QED
    BY <1>0, <1>3, <1>4 DEF Held

\* What admitting an entry records.
LEMMA AdmitRecords ==
    ASSUME NEW w \in Walk, w.merged # <<>>, NEW p, p = Head(w.merged)
    PROVE  /\ LET v == AdmitRevisit(w)
              IN  /\ v.root = w.root /\ v.acquired = w.acquired /\ v.issues = w.issues
                  /\ v.sources = w.sources /\ v.ids = w.ids
                  /\ \A s \in Sources : v.contexts[s] \subseteq w.contexts[s] \cup (IF s = p.source THEN p.contexts ELSE {})
           /\ \A v \in {AdmitFirstVisit(w), BreakAtLimit(w)} :
                  /\ v.root = w.root /\ v.acquired = w.acquired /\ w.issues \subseteq v.issues
                  /\ v.sources = w.sources \cup {p.source}
                  /\ v.ids \subseteq w.ids \cup {p.id} /\ None \notin v.ids
                  /\ \A s \in Sources : v.contexts[s] \subseteq w.contexts[s] \cup (IF s = p.source THEN p.contexts ELSE {})
           /\ LimitReported(BreakAtLimit(w))
           /\ AdmitFirstVisit(w).issues = w.issues
<1>1. p \in Pending /\ p.source \in Sources /\ p.id \in Ids \cup {None}
  <2>1. p \in Pending
    BY AdmitPops
  <2> QED
    BY <2>1 DEF Pending
<1>2. /\ AdmitRevisit(w).root = w.root /\ AdmitRevisit(w).acquired = w.acquired
      /\ AdmitRevisit(w).issues = w.issues
      /\ AdmitRevisit(w).sources = w.sources /\ AdmitRevisit(w).ids = w.ids
      /\ AdmitRevisit(w).contexts = [w.contexts EXCEPT ![p.source] = @ \cup p.contexts]
    BY DEF AdmitRevisit, Walk
<1>3. \A s \in Sources : [w.contexts EXCEPT ![p.source] = @ \cup p.contexts][s]
                            \subseteq w.contexts[s] \cup (IF s = p.source THEN p.contexts ELSE {})
    BY <1>1 DEF Walk
<1>4. ASSUME NEW v \in {AdmitFirstVisit(w), BreakAtLimit(w)}
      PROVE  /\ v.root = w.root /\ v.acquired = w.acquired /\ w.issues \subseteq v.issues
             /\ v.sources = w.sources \cup {p.source}
             /\ v.ids = (IF p.id = None THEN w.ids ELSE w.ids \cup {p.id})
             /\ v.contexts = [w.contexts EXCEPT ![p.source] = @ \cup p.contexts]
  <2> DEFINE u == RecordVisit(w, p)
  <2>1. /\ u.root = w.root /\ u.acquired = w.acquired /\ w.issues = u.issues
        /\ u.sources = w.sources \cup {p.source}
        /\ u.ids = (IF p.id = None THEN w.ids ELSE w.ids \cup {p.id})
        /\ u.contexts = [w.contexts EXCEPT ![p.source] = @ \cup p.contexts]
    BY DEF RecordVisit, Walk
  <2>2. /\ v.root = u.root /\ v.acquired = u.acquired /\ u.issues \subseteq v.issues
        /\ v.sources = u.sources /\ v.ids = u.ids /\ v.contexts = u.contexts
    <3>1. CASE v = AdmitFirstVisit(w)
      BY <3>1 DEF AdmitFirstVisit, RecordVisit, Walk
    <3>2. CASE v = BreakAtLimit(w)
      BY <3>2 DEF BreakAtLimit, RecordVisit, Walk
    <3> QED
      BY <1>4, <3>1, <3>2
  <2> HIDE DEF u
  <2> QED
    BY <2>1, <2>2
<1>5. None \notin w.ids
    BY TraversalAssumption DEF Walk
<1>6. LimitReported(BreakAtLimit(w)) /\ AdmitFirstVisit(w).issues = w.issues
  <2>1. [kind |-> "packages", about |-> None] \in BreakAtLimit(w).issues
    BY DEF BreakAtLimit, RecordVisit, Walk
  <2>2. AdmitFirstVisit(w).issues = w.issues
    BY DEF AdmitFirstVisit, RecordVisit, Walk
  <2> QED
    BY <2>1, <2>2 DEF LimitReported
<1> HIDE DEF LimitReported
<1>7. ASSUME NEW v \in {AdmitFirstVisit(w), BreakAtLimit(w)}
      PROVE  v.ids \subseteq w.ids \cup {p.id} /\ None \notin v.ids
    BY <1>4, <1>5
<1> QED
    BY <1>2, <1>3, <1>4, <1>6, <1>7

\* Admitting keeps the walk tracked, and goes no deeper than the entry.
LEMMA AdmitTracked ==
    ASSUME NEW w \in Walk, w.merged # <<>>, NEW d \in Nat, AtDepth(w.merged, d), NoDeeper(w, FALSE, d),
           NEW o, Consistent(o), Tracked(w, FALSE, o), NEW v,
           v \in {DropRevisit(w), AdmitRevisit(w), AdmitFirstVisit(w), BreakAtLimit(w)}
    PROVE  Tracked(v, FALSE, o) /\ NoDeeper(v, FALSE, d)
<1> DEFINE p == Head(w.merged)
<1>1. /\ p \in Pending /\ p \in Waiting(w) /\ Waiting(v) \subseteq Waiting(w)
      /\ v # BreakAtLimit(w) => Waiting(w) = Waiting(v) \cup {p}
    BY AdmitPops
<1>2. p.depth = d /\ p.depth <= d
  <2>1. w.merged \in Seq(Pending)
    BY DEF Walk
  <2>2. p.depth = d
    BY <2>1, DepthKept
  <2> QED
    BY <2>2
<1> HIDE DEF p
<1>3. CASE v = DropRevisit(w)
  <2>1. Reporting(v, FALSE) = Reporting(w, FALSE) /\ Searching(v, FALSE) = Searching(w, FALSE)
    BY <1>3, DropFlow
  <2>2. SameVisits(w, v) /\ w.issues \subseteq v.issues
    BY <1>3, VisitsUntouched
  <2>3. Tracked(v, FALSE, o)
    BY <1>1, <2>1, <2>2, TrackedKept
  <2> QED
    BY <2>1, <2>3 DEF NoDeeper
<1>4. CASE v = AdmitRevisit(w)
  <2>1. Reporting(v, FALSE) = Reporting(w, FALSE) /\ \E q \in Pending : ToSearch(w, v, p, NewContexts(w, p), q)
    BY <1>4, RevisitFlow DEF p
  <2>2. PICK q \in Pending : ToSearch(w, v, p, NewContexts(w, p), q)
    BY <2>1
  <2>3. /\ q.source = p.source /\ q.id = p.id /\ q.depth = p.depth /\ q.contexts = NewContexts(w, p)
        /\ Searching(v, FALSE) = Searching(w, FALSE) \cup {q}
    BY <2>2 DEF ToSearch
  <2>4. /\ v.root = w.root /\ v.acquired = w.acquired /\ v.issues = w.issues
        /\ v.sources = w.sources /\ v.ids = w.ids
        /\ \A s \in Sources : v.contexts[s] \subseteq w.contexts[s] \cup (IF s = p.source THEN p.contexts ELSE {})
    BY <1>4, AdmitRecords DEF p
  <2>5. Grounded(v, FALSE, o)
    <3>1. \A x \in Reporting(v, FALSE) \cup Searching(v, FALSE) \cup Waiting(v) :
             \E y \in Reporting(w, FALSE) \cup Searching(w, FALSE) \cup Waiting(w) : x.source = y.source /\ x.id = y.id
      BY <1>1, <2>1, <2>3
    <3>2. Grounded(w, FALSE, o)
      BY DEF Tracked
    <3> QED
      BY <2>4, <3>1, <3>2, GroundedKept
  <2>6. VisitsListed(w, FALSE) => VisitsListed(v, FALSE)
    BY <2>1, <2>4 DEF VisitsListed
  <2>7. ASSUME ContextsSearched(w, FALSE) PROVE ContextsSearched(v, FALSE)
    <3> SUFFICES ASSUME NEW s \in Sources, NEW c \in v.contexts[s]
                 PROVE  \E x \in Searching(v, FALSE) : x.source = s /\ c \in x.contexts
      BY DEF ContextsSearched
    <3>1. CASE c \in w.contexts[s]
      BY <2>3, <2>7, <3>1 DEF ContextsSearched
    <3>2. CASE c \notin w.contexts[s]
      <4>1. s = p.source /\ c \in p.contexts
        BY <2>4, <3>2
      <4>2. c \in q.contexts /\ q.source = s /\ q \in Searching(v, FALSE)
        BY <2>3, <3>2, <4>1 DEF NewContexts
      <4> QED
        BY <4>2
    <3> QED
      BY <3>1, <3>2
  <2>8. Tracked(v, FALSE, o)
    BY <2>4, <2>5, <2>6, <2>7 DEF Tracked, LimitReported
  <2>9. NoDeeper(v, FALSE, d)
    BY <1>2, <2>1, <2>3 DEF NoDeeper
  <2> QED
    BY <2>8, <2>9
<1>5. ASSUME v \in {AdmitFirstVisit(w), BreakAtLimit(w)},
             \A x \in Reporting(v, FALSE) \cup Searching(v, FALSE) :
                \/ x \in Reporting(w, FALSE) \cup Searching(w, FALSE)
                \/ x.source = p.source /\ x.id = p.id /\ x.depth = p.depth
      PROVE  Grounded(v, FALSE, o) /\ NoDeeper(v, FALSE, d)
  <2>1. /\ v.root = w.root /\ v.acquired = w.acquired
        /\ v.sources = w.sources \cup {p.source}
    BY <1>5, AdmitRecords DEF p
  <2>2. \A x \in Reporting(v, FALSE) \cup Searching(v, FALSE) \cup Waiting(v) :
           \E y \in Reporting(w, FALSE) \cup Searching(w, FALSE) \cup Waiting(w) : x.source = y.source /\ x.id = y.id
    BY <1>1, <1>5
  <2>3. Grounded(w, FALSE, o)
    BY DEF Tracked
  <2>4. Grounded(v, FALSE, o)
    BY <1>1, <2>1, <2>2, <2>3, GroundedKept
  <2>5. NoDeeper(v, FALSE, d)
    BY <1>2, <1>5 DEF NoDeeper
  <2> QED
    BY <2>4, <2>5
<1>6. CASE v = BreakAtLimit(w)
  <2>1. Reporting(v, FALSE) = Reporting(w, FALSE) /\ Searching(v, FALSE) = Searching(w, FALSE)
    BY <1>6, DropFlow
  <2>2. Grounded(v, FALSE, o) /\ NoDeeper(v, FALSE, d)
    BY <1>5, <1>6, <2>1
  <2>3. LimitReported(v)
    BY <1>6, AdmitRecords
  <2> QED
    BY <2>2, <2>3 DEF Tracked
<1>7. CASE v = AdmitFirstVisit(w)
  <2>1. \E q \in Pending : ToSearch(w, v, p, p.contexts, q) /\ AlsoReported(w, v, q)
    BY <1>7, FirstVisitFlow DEF p
  <2>2. PICK q \in Pending : ToSearch(w, v, p, p.contexts, q) /\ AlsoReported(w, v, q)
    BY <2>1
  <2>3. /\ q.source = p.source /\ q.id = p.id /\ q.depth = p.depth /\ q.contexts = p.contexts
        /\ Searching(v, FALSE) = Searching(w, FALSE) \cup {q}
        /\ Reporting(v, FALSE) = Reporting(w, FALSE) \cup {q}
    BY <2>2 DEF ToSearch, AlsoReported
  <2>4. /\ v.sources = w.sources \cup {p.source} /\ v.issues = w.issues
        /\ v.ids \subseteq w.ids \cup {p.id}
        /\ \A s \in Sources : v.contexts[s] \subseteq w.contexts[s] \cup (IF s = p.source THEN p.contexts ELSE {})
    BY <1>7, AdmitRecords DEF p
  <2>5. Grounded(v, FALSE, o) /\ NoDeeper(v, FALSE, d)
    BY <1>5, <1>7, <2>3
  <2>6. VisitsListed(w, FALSE) => VisitsListed(v, FALSE)
    BY <2>3, <2>4 DEF VisitsListed
  <2>7. ASSUME ContextsSearched(w, FALSE) PROVE ContextsSearched(v, FALSE)
    <3> SUFFICES ASSUME NEW s \in Sources, NEW c \in v.contexts[s]
                 PROVE  \E x \in Searching(v, FALSE) : x.source = s /\ c \in x.contexts
      BY DEF ContextsSearched
    <3>1. CASE c \in w.contexts[s]
      BY <2>3, <2>7, <3>1 DEF ContextsSearched
    <3>2. CASE c \notin w.contexts[s]
      <4>1. s = p.source /\ c \in p.contexts
        BY <2>4, <3>2
      <4> QED
        BY <2>3, <4>1
    <3> QED
      BY <3>1, <3>2
  <2>8. Tracked(v, FALSE, o)
    BY <2>4, <2>5, <2>6, <2>7 DEF Tracked, LimitReported
  <2> QED
    BY <2>5, <2>8
<1> QED
    BY <1>3, <1>4, <1>6, <1>7

\* Looking at the frontier's head, and leaving it, keep every answer.
LEMMA AnalyzeHolds ==
    ASSUME NEW w \in Walk, w.frontier # <<>>, NEW o, NEW d
    PROVE  /\ Tracked(w, FALSE, o) => Tracked(AnalyzeNext(w), TRUE, o)
           /\ Tracked(w, TRUE, o) => Tracked(LeaveFrontierHead(w), FALSE, o)
           /\ NoDeeper(w, FALSE, d) => NoDeeper(AnalyzeNext(w), TRUE, d)
           /\ NoDeeper(w, TRUE, d) => NoDeeper(LeaveFrontierHead(w), FALSE, d)
           /\ \A t, C, e : Held(w, FALSE, t, C, e) => Held(AnalyzeNext(w), TRUE, t, C, e)
           /\ \A t, C, e : Held(w, TRUE, t, C, e) => Held(LeaveFrontierHead(w), FALSE, t, C, e)
<1> DEFINE v == AnalyzeNext(w)
           u == LeaveFrontierHead(w)
<1>1. /\ Reporting(v, TRUE) = Reporting(w, FALSE) /\ Searching(v, TRUE) = Searching(w, FALSE)
      /\ Waiting(v) = Waiting(w)
      /\ Reporting(u, FALSE) = Reporting(w, TRUE) /\ Searching(u, FALSE) = Searching(w, TRUE)
      /\ Waiting(u) = Waiting(w)
    BY AnalyzeFlow
<1>2. /\ SameVisits(w, v) /\ w.issues \subseteq v.issues
      /\ SameVisits(w, u) /\ w.issues \subseteq u.issues
    BY VisitsUntouched
<1> HIDE DEF u, v
<1>3. Tracked(w, FALSE, o) => Tracked(v, TRUE, o)
    BY <1>1, <1>2, TrackedKept
<1>4. Tracked(w, TRUE, o) => Tracked(u, FALSE, o)
    BY <1>1, <1>2, TrackedKept
<1>5. /\ NoDeeper(w, FALSE, d) => NoDeeper(v, TRUE, d)
      /\ NoDeeper(w, TRUE, d) => NoDeeper(u, FALSE, d)
    BY <1>1 DEF NoDeeper
<1>6. \A t, C, e : Held(w, FALSE, t, C, e) => Held(v, TRUE, t, C, e)
    BY <1>1 DEF Held, Settled, Queued
<1>7. \A t, C, e : Held(w, TRUE, t, C, e) => Held(u, FALSE, t, C, e)
    BY <1>1 DEF Held, Settled, Queued
<1> QED
    BY <1>3, <1>4, <1>5, <1>6, <1>7 DEF u, v

\* What is queued for a request answers it.
LEMMA EnqueueHolds ==
    ASSUME NEW w \in Walk, NEW r, r.key \in Keys, r.depth \in Nat, r.contexts \subseteq Contexts,
           NEW v, \/ v = EnqueueAcquired(w, r) /\ ~NamesRoot(w, r.key)
                  \/ v = EnqueueRevisit(w, r) /\ Revisitable(w, r.key) /\ (r.key \in w.acquired => ~NamesRoot(w, r.key)),
           NEW l, NEW o, Consistent(o), Tracked(w, l, o), NEW d
    PROVE  /\ Tracked(v, l, o)
           /\ NoDeeper(w, l, d) => NoDeeper(v, l, d)
           /\ \A t, C, e : Held(w, l, t, C, e) => Held(v, l, t, C, e)
           /\ Held(v, l, Target(w, r.key), r.contexts, r.depth)
<1> DEFINE m == Target(w, r.key)
           q == PendingFrom(r, m)
<1>1. m \in Metadata /\ w.root \in {None, o}
  <2>1. w.root \in {None, o} /\ o \in Metadata /\ Yields[r.key] \in Metadata
    BY TraversalAssumption DEF Tracked, Grounded, Consistent
  <2> QED
    BY <2>1 DEF Target, NamesRoot
<1>2. \/ v = EnqueueAcquired(w, r) /\ m = Yields[r.key]
      \/ v = EnqueueRevisit(w, r) /\ m = RevisitedMetadata(w, r.key)
    BY DEF Target, RevisitedMetadata, Revisitable
<1>3. q.source = m.source /\ q.id = m.id /\ q.contexts = r.contexts /\ q.depth = r.depth
    BY DEF PendingFrom
<1> HIDE DEF m
<1>4. /\ \A x : Reporting(v, x) = Reporting(w, x) /\ Searching(v, x) = Searching(w, x)
      /\ Waiting(v) = Waiting(w) \cup {q}
    BY <1>1, <1>2, EnqueueFlow
<1> HIDE DEF q
<1>5. /\ v.root = w.root /\ w.acquired \subseteq v.acquired /\ v.sources = w.sources
      /\ v.ids = w.ids /\ v.contexts = w.contexts /\ v.issues = w.issues
      /\ v = EnqueueAcquired(w, r) => r.key \in v.acquired
    BY DEF EnqueueAcquired, EnqueueRevisit, Walk
<1>6. Stands(v, o, q)
  <2>1. CASE v = EnqueueAcquired(w, r) /\ m = Yields[r.key]
    BY <1>3, <1>5, <2>1 DEF Stands
  <2>2. CASE v = EnqueueRevisit(w, r) /\ m = RevisitedMetadata(w, r.key) /\ r.key \in w.acquired
    BY <1>3, <1>5, <2>2 DEF Stands, RevisitedMetadata
  <2>3. CASE v = EnqueueRevisit(w, r) /\ r.key \notin w.acquired /\ NamesRoot(w, r.key)
    <3>1. m = o
      BY <1>1, <2>3 DEF m, Target, NamesRoot
    <3> QED
      BY <1>3, <3>1 DEF Stands
  <2>4. \/ v = EnqueueAcquired(w, r) /\ m = Yields[r.key]
        \/ v = EnqueueRevisit(w, r) /\ m = RevisitedMetadata(w, r.key) /\ (r.key \in w.acquired \/ NamesRoot(w, r.key))
    BY DEF m, Target, RevisitedMetadata, Revisitable
  <2> QED
    BY <2>1, <2>2, <2>3, <2>4
<1>7. Grounded(v, l, o)
  <2>1. Grounded(w, l, o)
    BY DEF Tracked
  <2> QED
    BY <1>4, <1>5, <1>6, <2>1, GroundedKept
<1>8. Tracked(v, l, o)
  <2>1. LimitReported(w) <=> LimitReported(v)
    BY <1>5 DEF LimitReported
  <2>2. VisitsListed(w, l) => VisitsListed(v, l)
    BY <1>4, <1>5 DEF VisitsListed
  <2>3. ContextsSearched(w, l) => ContextsSearched(v, l)
    BY <1>4, <1>5 DEF ContextsSearched
  <2> QED
    BY <1>7, <2>1, <2>2, <2>3 DEF Tracked
<1>9. \A t, C, e : Held(w, l, t, C, e) => Held(v, l, t, C, e)
    BY <1>4 DEF Held, Settled, Queued
<1>10. Held(v, l, m, r.contexts, r.depth)
  <2>1. SamePackage(q, m) /\ r.contexts \subseteq q.contexts /\ q.depth <= r.depth
    BY <1>3 DEF SamePackage
  <2> QED
    BY <1>4, <2>1 DEF Held, Queued
<1>11. NoDeeper(w, l, d) => NoDeeper(v, l, d)
    BY <1>4 DEF NoDeeper
<1> QED
    BY <1>8, <1>9, <1>10, <1>11 DEF m

\* Iterations that move no entry keep every answer.
LEMMA SameHolds ==
    ASSUME NEW w, NEW v, SameEntries(w, v), SameVisits(w, v), w.issues \subseteq v.issues,
           NEW l, NEW o, NEW d
    PROVE  /\ Tracked(w, l, o) => Tracked(v, l, o)
           /\ NoDeeper(w, l, d) => NoDeeper(v, l, d)
           /\ \A t, C, e : Held(w, l, t, C, e) => Held(v, l, t, C, e)
<1>1. Reporting(v, l) = Reporting(w, l) /\ Searching(v, l) = Searching(w, l) /\ Waiting(v) = Waiting(w)
    BY SameFlow
<1>2. Tracked(w, l, o) => Tracked(v, l, o)
    BY <1>1, TrackedKept
<1> QED
    BY <1>1, <1>2 DEF NoDeeper, Held, Settled, Queued

-----------------------------------------------------------------------------
(* What a walk is asked for: the dependencies found above the depth limit.     *)

\* v is w some iterations later: discoveries and issues are never taken back.
Continues(w, v) ==
    /\ v.root = w.root
    /\ w.issues \subseteq v.issues
    /\ DOMAIN w.discovered \subseteq DOMAIN v.discovered
    /\ \A n \in DOMAIN w.discovered : v.discovered[n] = w.discovered[n]

\* Every iteration continues its walk, and only AnalyzeNext discovers.
LEMMA EveryIterationContinues ==
    ASSUME NEW w \in Walk
    PROVE  /\ Continues(w, MergeNext(w)) /\ MergeNext(w).discovered = w.discovered
           /\ Continues(w, DropRevisit(w)) /\ DropRevisit(w).discovered = w.discovered
           /\ Continues(w, AdmitRevisit(w)) /\ AdmitRevisit(w).discovered = w.discovered
           /\ Continues(w, AdmitFirstVisit(w)) /\ AdmitFirstVisit(w).discovered = w.discovered
           /\ Continues(w, BreakAtLimit(w)) /\ BreakAtLimit(w).discovered = w.discovered
           /\ Continues(w, LeaveFrontierHead(w)) /\ LeaveFrontierHead(w).discovered = w.discovered
           /\ \A i : Continues(w, NoteUnrequested(w, i)) /\ NoteUnrequested(w, i).discovered = w.discovered
           /\ \A r : Continues(w, EnqueueRevisit(w, r)) /\ EnqueueRevisit(w, r).discovered = w.discovered
           /\ \A r : Continues(w, EnqueueAcquired(w, r)) /\ EnqueueAcquired(w, r).discovered = w.discovered
           /\ \A k : Continues(w, ReserveKey(w, k)) /\ ReserveKey(w, k).discovered = w.discovered
           /\ \A kind, about : /\ Continues(w, ReportIssue(w, kind, about))
                               /\ ReportIssue(w, kind, about).discovered = w.discovered
<1>1. Continues(w, MergeNext(w)) /\ MergeNext(w).discovered = w.discovered
    BY DEF Continues, MergeNext, Walk
<1>2. /\ Continues(w, DropRevisit(w)) /\ DropRevisit(w).discovered = w.discovered
      /\ Continues(w, AdmitRevisit(w)) /\ AdmitRevisit(w).discovered = w.discovered
      /\ Continues(w, LeaveFrontierHead(w)) /\ LeaveFrontierHead(w).discovered = w.discovered
    BY DEF Continues, DropRevisit, AdmitRevisit, LeaveFrontierHead, Walk
<1>3. Continues(w, AdmitFirstVisit(w)) /\ AdmitFirstVisit(w).discovered = w.discovered
    BY DEF Continues, AdmitFirstVisit, RecordVisit, Walk
<1>4. Continues(w, BreakAtLimit(w)) /\ BreakAtLimit(w).discovered = w.discovered
    BY DEF Continues, BreakAtLimit, RecordVisit, Walk
<1>5. \A i : Continues(w, NoteUnrequested(w, i)) /\ NoteUnrequested(w, i).discovered = w.discovered
    BY DEF Continues, NoteUnrequested, Walk
<1>6. /\ \A r : Continues(w, EnqueueRevisit(w, r)) /\ EnqueueRevisit(w, r).discovered = w.discovered
      /\ \A r : Continues(w, EnqueueAcquired(w, r)) /\ EnqueueAcquired(w, r).discovered = w.discovered
    BY DEF Continues, EnqueueRevisit, EnqueueAcquired, Walk
<1>7. \A k : Continues(w, ReserveKey(w, k)) /\ ReserveKey(w, k).discovered = w.discovered
    BY DEF Continues, ReserveKey, Walk
<1>8. \A kind, about : /\ Continues(w, ReportIssue(w, kind, about))
                       /\ ReportIssue(w, kind, about).discovered = w.discovered
    BY DEF Continues, ReportIssue, Walk
<1> QED
    BY <1>1, <1>2, <1>3, <1>4, <1>5, <1>6, <1>7, <1>8

\* So does AnalyzeNext, which adds the frontier's head to the discoveries.
LEMMA AnalyzeDiscovers ==
    ASSUME NEW w \in Walk, w.frontier # <<>>, NEW v, v = AnalyzeNext(w)
    PROVE  /\ Continues(w, v)
           /\ Len(w.discovered) \in Nat
           /\ DOMAIN v.discovered = DOMAIN w.discovered \cup {Len(w.discovered) + 1}
           /\ Len(w.discovered) + 1 \notin DOMAIN w.discovered
           /\ Len(v.discovered) = Len(w.discovered) + 1
           /\ v.discovered[Len(w.discovered) + 1] = Head(w.frontier)
<1> DEFINE p == Head(w.frontier)
<1>1. w.discovered \in Seq(Pending) /\ p \in Pending
    BY Tailed DEF Walk
<1>2. v.discovered = Append(w.discovered, p) /\ v.root = w.root /\ w.issues \subseteq v.issues
    BY DEF AnalyzeNext, Walk
<1> HIDE DEF p
<1>3. /\ DOMAIN v.discovered = DOMAIN w.discovered \cup {Len(w.discovered) + 1}
      /\ Len(w.discovered) + 1 \notin DOMAIN w.discovered
      /\ Len(w.discovered) \in Nat
      /\ Len(v.discovered) = Len(w.discovered) + 1
      /\ \A n \in DOMAIN w.discovered : v.discovered[n] = w.discovered[n]
      /\ v.discovered[Len(w.discovered) + 1] = p
    BY <1>1, <1>2, Appended
<1> QED
    BY <1>2, <1>3 DEF Continues, p

\* The dependency i was found by the n-th discovery, above the depth limit.
Owing(w, made, maxDepth, n, i) ==
    /\ n \in DOMAIN w.discovered
    /\ w.discovered[n].depth < maxDepth
    /\ i \in DeclaredBy(made, w.discovered[n])

AskedFor(w, made, maxDepth, k) ==
    \E n \in DOMAIN w.discovered, i \in made :
        Owing(w, made, maxDepth, n, i) /\ Declarations[i].key = k

\* What is demanded is what was asked for and may be fetched, but the root.
LEMMA DemandedWhenAsked ==
    ASSUME NEW w, NEW made, NEW D, NEW k \in Keys
    PROVE  k \in Demanded(w, made, D) <=> Gate[k] = "fetch" /\ ~NamesRoot(w, k) /\ AskedFor(w, made, D, k)
<1>1. AskedFor(w, made, D, k) <=>
        \E n \in DOMAIN w.discovered :
             /\ w.discovered[n].depth < D
             /\ \E i \in DeclaredBy(made, w.discovered[n]) : Declarations[i].key = k
    BY DEF AskedFor, Owing, DeclaredBy
<1> QED
    BY <1>1 DEF Demanded

\* What was asked for stays asked for, and what was demanded stays demanded.
LEMMA DemandKept ==
    ASSUME NEW w, NEW v, Continues(w, v), NEW made, NEW D
    PROVE  /\ \A n, i : Owing(w, made, D, n, i) => Owing(v, made, D, n, i)
           /\ \A k : AskedFor(w, made, D, k) => AskedFor(v, made, D, k)
           /\ Demanded(w, made, D) \subseteq Demanded(v, made, D)
<1>1. \A n, i : Owing(w, made, D, n, i) => Owing(v, made, D, n, i)
    BY DEF Owing, Continues
<1>2. \A k : AskedFor(w, made, D, k) => AskedFor(v, made, D, k)
    BY <1>1 DEF AskedFor, Continues
<1>3. \A k : NamesRoot(v, k) <=> NamesRoot(w, k)
    BY DEF NamesRoot, Continues
<1>4. Demanded(w, made, D) \subseteq Keys
    BY DEF Demanded
<1> QED
    BY <1>1, <1>2, <1>3, <1>4, DemandedWhenAsked

\* What is demanded is finite, and so are its parts.
LEMMA FiniteDemanded ==
    ASSUME NEW w, NEW made, NEW D
    PROVE  /\ Demanded(w, made, D) \subseteq Keys
           /\ IsFiniteSet(Demanded(w, made, D)) /\ Cardinality(Demanded(w, made, D)) \in Nat
           /\ \A T \in SUBSET Demanded(w, made, D) :
                 /\ IsFiniteSet(T) /\ Cardinality(T) \in Nat
                 /\ Cardinality(T) <= Cardinality(Demanded(w, made, D))
<1>1. IsFiniteSet(Keys) /\ Demanded(w, made, D) \subseteq Keys
    BY TraversalAssumption DEF Demanded
<1>2. IsFiniteSet(Demanded(w, made, D))
    BY <1>1, FS_Subset
<1> QED
    BY <1>1, <1>2, FS_Subset, FS_CardinalityType

\* A directory not visited yet comes from an acquisition of its own: the visits
\* before it are no more than what was acquired, the root's visit included.
LEMMA CountWithinAcquired ==
    ASSUME NEW w \in Walk, NEW l, NEW o, Consistent(o), Grounded(w, l, o), Counted(w),
           NEW p \in Waiting(w), p.source \notin w.sources
    PROVE  w.count <= Cardinality(w.acquired)
<1> DEFINE f == [k \in w.acquired |-> Yields[k].source]
           T == {Yields[k].source : k \in w.acquired}
           S == w.sources \cup {p.source}
<1>1. IsFiniteSet(w.acquired)
    BY TraversalAssumption, FS_Subset DEF Walk
<1>2. f \in Surjection(w.acquired, T)
    BY DEF Surjection
<1>3. IsFiniteSet(T) /\ Cardinality(T) <= Cardinality(w.acquired)
    BY <1>1, <1>2, FS_Surjection
<1>4. S \subseteq T \cup {o.source}
  <2>1. \A s \in w.sources : s = o.source \/ s \in T
    BY DEF Grounded
  <2>2. p.source = o.source \/ p.source \in T
    BY DEF Grounded, Stands
  <2> QED
    BY <2>1, <2>2
<1>5. IsFiniteSet(w.sources) /\ Cardinality(w.sources) \in Nat
    BY FiniteSources
<1>6. Cardinality(w.acquired) \in Nat
    BY <1>1, FS_CardinalityType
<1>7. p.source \notin w.sources
    OBVIOUS
<1> HIDE DEF T, S
<1>8. Cardinality(S) = Cardinality(w.sources) + 1
    BY <1>5, <1>7, FS_AddElement DEF S
<1>9. IsFiniteSet(T \cup {o.source}) /\ Cardinality(T \cup {o.source}) <= Cardinality(T) + 1
  <2>1. Cardinality(T) \in Nat
    BY <1>3, FS_CardinalityType
  <2> QED
    BY <1>3, <2>1, FS_AddElement
<1>10. Cardinality(S) <= Cardinality(T \cup {o.source})
    BY <1>4, <1>9, FS_Subset
<1>11. Cardinality(S) <= Cardinality(T) + 1 /\ Cardinality(T) \in Nat /\ Cardinality(S) \in Nat
  <2>1. Cardinality(T) \in Nat /\ Cardinality(T \cup {o.source}) \in Nat
    BY <1>3, <1>9, FS_CardinalityType
  <2> QED
    BY <1>5, <1>8, <1>9, <1>10, <2>1
<1> QED
    BY <1>3, <1>5, <1>6, <1>8, <1>11 DEF Counted

\* The package limit is named only where an iteration stops at it.
LEMMA LimitNamed ==
    ASSUME NEW w \in Walk, ~LimitReported(w)
    PROVE  /\ ~LimitReported(MergeNext(w))
           /\ ~LimitReported(DropRevisit(w))
           /\ ~LimitReported(AdmitRevisit(w))
           /\ ~LimitReported(AdmitFirstVisit(w))
           /\ ~LimitReported(AnalyzeNext(w))
           /\ ~LimitReported(LeaveFrontierHead(w))
           /\ \A i : ~LimitReported(NoteUnrequested(w, i))
           /\ \A r : ~LimitReported(EnqueueRevisit(w, r)) /\ ~LimitReported(EnqueueAcquired(w, r))
           /\ \A k : ~LimitReported(ReserveKey(w, k))
           /\ \A k : ~LimitReported(ReportIssue(w, "fetch", k)) /\ ~LimitReported(ReportIssue(w, "preparation", k))
<1>1. ASSUME NEW v, v.issues = w.issues PROVE ~LimitReported(v)
    BY <1>1 DEF LimitReported
<1>2. /\ MergeNext(w).issues = w.issues /\ DropRevisit(w).issues = w.issues
      /\ AdmitRevisit(w).issues = w.issues /\ LeaveFrontierHead(w).issues = w.issues
      /\ \A r : EnqueueRevisit(w, r).issues = w.issues /\ EnqueueAcquired(w, r).issues = w.issues
      /\ \A k : ReserveKey(w, k).issues = w.issues
    BY DEF MergeNext, DropRevisit, AdmitRevisit, LeaveFrontierHead, EnqueueRevisit, EnqueueAcquired,
           ReserveKey, Walk
<1>3. AdmitFirstVisit(w).issues = w.issues
    BY DEF AdmitFirstVisit, RecordVisit, Walk
<1>4. ~LimitReported(AnalyzeNext(w))
  <2>1. AnalyzeNext(w).issues = w.issues \cup DiscoveryIssues(Head(w.frontier))
    BY DEF AnalyzeNext, Walk
  <2>2. \A issue \in DiscoveryIssues(Head(w.frontier)) : issue.kind = "discovery"
    BY DEF DiscoveryIssues
  <2> QED
    BY <2>1, <2>2 DEF LimitReported
<1>5. ASSUME NEW v, NEW issue, issue.kind \in {"fetch", "preparation", "resolution"},
             v.issues \subseteq w.issues \cup {issue}
      PROVE  ~LimitReported(v)
    BY <1>5 DEF LimitReported
<1>6. \A i : ~LimitReported(NoteUnrequested(w, i))
  <2> SUFFICES ASSUME NEW i PROVE ~LimitReported(NoteUnrequested(w, i))
    OBVIOUS
  <2> DEFINE issue == [kind |-> "resolution", about |-> Declarations[i].key]
  <2>1. NoteUnrequested(w, i).issues \subseteq w.issues \cup {issue}
    BY DEF NoteUnrequested, Walk
  <2>2. issue.kind = "resolution"
    OBVIOUS
  <2> HIDE DEF issue
  <2> QED
    BY <2>1, <2>2, <1>5
<1>7. \A k : ~LimitReported(ReportIssue(w, "fetch", k)) /\ ~LimitReported(ReportIssue(w, "preparation", k))
  <2> SUFFICES ASSUME NEW k, NEW kind \in {"fetch", "preparation"} PROVE ~LimitReported(ReportIssue(w, kind, k))
    OBVIOUS
  <2> DEFINE issue == [kind |-> kind, about |-> k]
  <2>1. ReportIssue(w, kind, k).issues \subseteq w.issues \cup {issue}
    BY DEF ReportIssue, Walk
  <2>2. issue.kind = kind
    OBVIOUS
  <2> HIDE DEF issue
  <2> QED
    BY <2>1, <2>2, <1>5
<1> HIDE DEF LimitReported
<1> QED
    BY <1>1, <1>2, <1>3, <1>4, <1>6, <1>7

-----------------------------------------------------------------------------
(* Following what was found: every dependency that was found above the depth   *)
(* limit has an issue, or is held by the walk, or by a request under way, and  *)
(* only those of the last discovery may still have to be looked at.            *)

\* The walk answers a wish for `key` at depth e under the contexts C.
Served(w, looked, asked, key, C, e) ==
    \/ Excused(w, key)
    \/ Held(w, looked, Target(w, key), C, e)
    \/ \E r \in asked : r.key = key /\ C \subseteq r.contexts /\ r.depth <= e

Wished(w, looked, asked, n, i) ==
    Served(w, looked, asked, Declarations[i].key, Declarations[i].contexts, w.discovered[n].depth + 1)

\* `left` are the dependencies of the last discovery that come next.
Following(w, looked, asked, made, maxDepth, left) ==
    \A n \in DOMAIN w.discovered, i \in made :
        Owing(w, made, maxDepth, n, i) =>
            Wished(w, looked, asked, n, i) \/ (n = Len(w.discovered) /\ i \in left)

\* Requests are about keys, at depths.
Wishes(asked) == \A r \in asked : r.key \in Keys /\ r.depth \in Nat

\* An answer for more contexts or a smaller depth is an answer.
LEMMA ServedWeaker ==
    ASSUME NEW w \in Walk, NEW l, NEW asked, Wishes(asked), NEW key,
           NEW C, NEW D, D \subseteq C, NEW e \in Nat, NEW f \in Nat, e <= f,
           Served(w, l, asked, key, C, e)
    PROVE  Served(w, l, asked, key, D, f)
<1> DEFINE t == Target(w, key)
<1>1. /\ \A p \in Reporting(w, l) \cup Searching(w, l) \cup Waiting(w) : p.depth \in Nat
      /\ \A p \in Reporting(w, l) \cup Searching(w, l) \cup Waiting(w) : p.depth <= e => p.depth <= f
  <2>1. \A p \in Reporting(w, l) \cup Searching(w, l) \cup Waiting(w) : p.depth \in Nat
    BY EntriesTyped DEF Pending
  <2> QED
    BY <2>1
<1> HIDE DEF t
<1>2. Settled(w, l, t, C, e) => Settled(w, l, t, D, f)
    BY <1>1 DEF Settled
<1>3. Queued(w, t, C, e) => Queued(w, t, D, f)
    BY <1>1 DEF Queued
<1>4. ASSUME NEW r \in asked, r.key = key, C \subseteq r.contexts, r.depth <= e
      PROVE  D \subseteq r.contexts /\ r.depth <= f
  <2>1. r.depth \in Nat
    BY DEF Wishes
  <2> QED
    BY <1>4, <2>1
<1> QED
    BY <1>2, <1>3, <1>4 DEF Served, Held, t

\* A request is answered by itself.
LEMMA ServedByRequest ==
    ASSUME NEW w, NEW l, NEW asked, Wishes(asked), NEW r \in asked
    PROVE  Served(w, l, asked, r.key, r.contexts, r.depth)
    BY DEF Served, Wishes

\* An iteration that discovers nothing keeps following when it keeps what the
\* walk holds and answers the requests it no longer has.
LEMMA FollowingKept ==
    ASSUME NEW w \in Walk, NEW v \in Walk, NEW l, NEW m, NEW asked, NEW after,
           Wishes(asked), Wishes(after),
           NEW made, made \subseteq DOMAIN Declarations, NEW D, NEW left, NEW o, Consistent(o),
           Tracked(w, l, o), Following(w, l, asked, made, D, left),
           v.discovered = w.discovered, Continues(w, v),
           \A t, C : \A e \in Nat : Belongs(o, t) /\ Held(w, l, t, C, e) => Held(v, m, t, C, e),
           \A r \in asked : Served(v, m, after, r.key, r.contexts, r.depth)
    PROVE  Following(v, m, after, made, D, left)
<1> SUFFICES ASSUME NEW n \in DOMAIN v.discovered, NEW i \in made, Owing(v, made, D, n, i),
                    ~(n = Len(v.discovered) /\ i \in left)
             PROVE  Wished(v, m, after, n, i)
    BY DEF Following
<1> DEFINE key == Declarations[i].key
           C == Declarations[i].contexts
           e == w.discovered[n].depth + 1
<1>1. key \in Keys /\ e \in Nat
  <2>1. Declarations[i] \in Declaration
    BY TraversalAssumption
  <2>2. w.discovered[n] \in Pending
    BY DEF Walk
  <2> QED
    BY <2>1, <2>2 DEF Declaration, Pending
<1>2. Wished(w, l, asked, n, i)
  <2>1. Owing(w, made, D, n, i)
    BY DEF Owing
  <2> QED
    BY <2>1 DEF Following
<1>3. Served(w, l, asked, key, C, e)
    BY <1>2 DEF Wished
<1>4. Target(v, key) = Target(w, key) /\ (Excused(w, key) => Excused(v, key))
    BY DEF Target, NamesRoot, Continues, Excused
<1>5. Belongs(o, Target(w, key))
    BY <1>1, TrackedBelongs
<1> SUFFICES Served(v, m, after, key, C, e)
    BY DEF Wished
<1> HIDE DEF key, C, e
<1>6. CASE Excused(w, key) \/ Held(w, l, Target(w, key), C, e)
    BY <1>1, <1>4, <1>5, <1>6 DEF Served
<1>7. CASE \E r \in asked : r.key = key /\ C \subseteq r.contexts /\ r.depth <= e
  <2>1. PICK r \in asked : r.key = key /\ C \subseteq r.contexts /\ r.depth <= e
    BY <1>7
  <2>2. Served(v, m, after, key, r.contexts, r.depth) /\ r.depth \in Nat
    BY <2>1 DEF Wishes
  <2> QED
    BY <1>1, <2>1, <2>2, ServedWeaker
<1> QED
    BY <1>3, <1>6, <1>7 DEF Served

\* Looking at the frontier's head adds its dependencies to those that come next.
LEMMA FollowingAnalyzed ==
    ASSUME NEW w \in Walk, w.frontier # <<>>, NEW v \in Walk, v = AnalyzeNext(w),
           NEW asked, Wishes(asked),
           NEW made, made \subseteq DOMAIN Declarations, NEW D, NEW o, Consistent(o),
           Tracked(w, FALSE, o), Following(w, FALSE, asked, made, D, {})
    PROVE  Following(v, TRUE, asked, made, D, DependenciesOf(w, made, D))
<1> SUFFICES ASSUME NEW n \in DOMAIN v.discovered, NEW i \in made, Owing(v, made, D, n, i)
             PROVE  \/ Wished(v, TRUE, asked, n, i)
                    \/ n = Len(v.discovered) /\ i \in DependenciesOf(w, made, D)
    BY DEF Following
<1>1. /\ Continues(w, v)
      /\ DOMAIN v.discovered = DOMAIN w.discovered \cup {Len(w.discovered) + 1}
      /\ Len(v.discovered) = Len(w.discovered) + 1
      /\ v.discovered[Len(w.discovered) + 1] = Head(w.frontier)
    BY AnalyzeDiscovers
<1>2. CASE n = Len(w.discovered) + 1
    BY <1>1, <1>2 DEF Owing, DependenciesOf
<1>3. CASE n \in DOMAIN w.discovered
  <2> DEFINE key == Declarations[i].key
             C == Declarations[i].contexts
             e == w.discovered[n].depth + 1
  <2>1. Owing(w, made, D, n, i) /\ v.discovered[n] = w.discovered[n]
    BY <1>1, <1>3 DEF Owing, Continues
  <2>2. Served(w, FALSE, asked, key, C, e)
    BY <1>3, <2>1 DEF Following, Wished
  <2>3. Target(v, key) = Target(w, key) /\ (Excused(w, key) => Excused(v, key))
    BY <1>1 DEF Target, NamesRoot, Continues, Excused
  <2>4. \A t : Held(w, FALSE, t, C, e) => Held(v, TRUE, t, C, e)
    BY AnalyzeHolds
  <2> SUFFICES Served(v, TRUE, asked, key, C, e)
    BY <2>1 DEF Wished
  <2> HIDE DEF key, C, e
  <2> QED
    BY <2>2, <2>3, <2>4 DEF Served
<1> QED
    BY <1>1, <1>2, <1>3

\* A dependency that has its answer needs no longer come next.
LEMMA FollowingFewer ==
    ASSUME NEW w, NEW l, NEW asked, NEW made, NEW D, NEW left, NEW i,
           Following(w, l, asked, made, D, left),
           Len(w.discovered) \in DOMAIN w.discovered => Wished(w, l, asked, Len(w.discovered), i)
    PROVE  Following(w, l, asked, made, D, left \ {i})
<1> SUFFICES ASSUME NEW n \in DOMAIN w.discovered, NEW j \in made, Owing(w, made, D, n, j)
             PROVE  Wished(w, l, asked, n, j) \/ (n = Len(w.discovered) /\ j \in left \ {i})
    BY DEF Following
<1>1. Wished(w, l, asked, n, j) \/ (n = Len(w.discovered) /\ j \in left)
    BY DEF Following
<1> QED
    BY <1>1

\* A finished walk that still follows is closed under its dependencies.
LEMMA FollowedIsClosed ==
    ASSUME NEW w \in Walk, w.queue = <<>>, w.merged = <<>>, w.frontier = <<>>,
           NEW made, NEW D, Following(w, FALSE, {}, made, D, {})
    PROVE  ClosedUnderDependencies(w, made, D)
<1>1. Waiting(w) = {} /\ Reporting(w, FALSE) = EntriesOf(w.packages) /\ Searching(w, FALSE) = EntriesOf(w.discovered)
  <2>1. DOMAIN w.frontier = {} /\ DOMAIN w.queue = {} /\ DOMAIN w.merged = {}
    OBVIOUS
  <2> QED
    BY <2>1 DEF Waiting, Reporting, Searching, EntriesOf, ToReport, Coming
<1> SUFFICES ASSUME NEW n \in DOMAIN w.discovered, w.discovered[n].depth < D,
                    NEW i \in DeclaredBy(made, w.discovered[n])
             PROVE  LET d == Declarations[i]
                        t == Target(w, d.key)
                    IN  \/ Excused(w, d.key)
                        \/ /\ \E m \in DOMAIN w.packages :
                                /\ SamePackage(w.packages[m], t)
                                /\ w.packages[m].depth <= w.discovered[n].depth + 1
                           /\ \A c \in d.contexts :
                                \E m \in DOMAIN w.discovered :
                                   /\ SamePackage(w.discovered[m], t)
                                   /\ c \in w.discovered[m].contexts
                                   /\ w.discovered[m].depth <= w.discovered[n].depth + 1
    BY DEF ClosedUnderDependencies
<1> DEFINE key == Declarations[i].key
           C == Declarations[i].contexts
           t == Target(w, key)
           e == w.discovered[n].depth + 1
<1>2. i \in made /\ Owing(w, made, D, n, i)
    BY DEF Owing, DeclaredBy
<1>3. Served(w, FALSE, {}, key, C, e)
    BY <1>2 DEF Following, Wished
<1> SUFFICES \/ Excused(w, key)
             \/ /\ \E m \in DOMAIN w.packages : SamePackage(w.packages[m], t) /\ w.packages[m].depth <= e
                /\ \A c \in C : \E m \in DOMAIN w.discovered :
                      SamePackage(w.discovered[m], t) /\ c \in w.discovered[m].contexts /\ w.discovered[m].depth <= e
    OBVIOUS
<1>4. Excused(w, key) \/ Settled(w, FALSE, t, C, e)
    BY <1>1, <1>3 DEF Served, Held, Queued
<1> HIDE DEF key, C, t, e
<1>5. ASSUME Settled(w, FALSE, t, C, e)
      PROVE  /\ \E m \in DOMAIN w.packages : SamePackage(w.packages[m], t) /\ w.packages[m].depth <= e
             /\ \A c \in C : \E m \in DOMAIN w.discovered :
                   SamePackage(w.discovered[m], t) /\ c \in w.discovered[m].contexts /\ w.discovered[m].depth <= e
    BY <1>1, <1>5 DEF Settled, EntriesOf
<1> QED
    BY <1>4, <1>5

\* What admitting, merging and queueing do to the depth of what is reported and
\* searched: nothing comes there from deeper than the level that is admitted.
LEMMA DepthsKept ==
    ASSUME NEW w \in Walk, NEW d \in Nat
    PROVE  /\ \A v \in {DropRevisit(w), AdmitRevisit(w), AdmitFirstVisit(w), BreakAtLimit(w)} :
                 w.merged # <<>> /\ AtDepth(w.merged, d) /\ NoDeeper(w, FALSE, d) => NoDeeper(v, FALSE, d)
           /\ \A l : MoreToMerge(w) /\ AtDepth(w.queue, d) /\ AtDepth(w.merged, d) /\ NoDeeper(w, l, d)
                        => NoDeeper(MergeNext(w), l, d)
           /\ \A l : NoDeeper(w, l, d) => NoDeeper(w, l, d + 1)
<1>1. ASSUME NEW v \in {DropRevisit(w), AdmitRevisit(w), AdmitFirstVisit(w), BreakAtLimit(w)},
             w.merged # <<>>, AtDepth(w.merged, d), NoDeeper(w, FALSE, d)
      PROVE  NoDeeper(v, FALSE, d)
  <2> DEFINE p == Head(w.merged)
  <2>1. p.depth <= d
    <3>1. w.merged \in Seq(Pending)
      BY DEF Walk
    <3>2. p.depth = d
      BY <1>1, <3>1, DepthKept
    <3> QED
      BY <3>2
  <2>2. CASE v = DropRevisit(w) \/ v = BreakAtLimit(w)
    BY <1>1, <2>2, DropFlow DEF NoDeeper
  <2>3. CASE v = AdmitRevisit(w)
    <3>1. PICK q \in Pending : ToSearch(w, v, p, NewContexts(w, p), q)
      BY <1>1, <2>3, RevisitFlow
    <3>2. Reporting(v, FALSE) = Reporting(w, FALSE)
      BY <1>1, <2>3, RevisitFlow
    <3> HIDE DEF p
    <3> QED
      BY <1>1, <2>1, <3>1, <3>2 DEF ToSearch, NoDeeper
  <2>4. CASE v = AdmitFirstVisit(w)
    <3>1. PICK q \in Pending : ToSearch(w, v, p, p.contexts, q) /\ AlsoReported(w, v, q)
      BY <1>1, <2>4, FirstVisitFlow
    <3> HIDE DEF p
    <3> QED
      BY <1>1, <2>1, <3>1 DEF ToSearch, AlsoReported, NoDeeper
  <2> QED
    BY <1>1, <2>2, <2>3, <2>4
<1>2. ASSUME NEW l, MoreToMerge(w), AtDepth(w.queue, d), AtDepth(w.merged, d), NoDeeper(w, l, d)
      PROVE  NoDeeper(MergeNext(w), l, d)
    BY <1>2, MergeFlow DEF NoDeeper
<1>3. ASSUME NEW l, NoDeeper(w, l, d) PROVE NoDeeper(w, l, d + 1)
  <2>1. \A p \in Reporting(w, l) \cup Searching(w, l) : p.depth \in Nat
    BY EntriesTyped DEF Pending
  <2> QED
    BY <1>3, <2>1 DEF NoDeeper
<1> QED
    BY <1>1, <1>2, <1>3

\* A new walk has nothing in its report or its frontier.
LEMMA NewIsShallow ==
    ASSUME NEW s, NEW r, NEW d
    PROVE  /\ NoDeeper(NewWalk(s, r), FALSE, d)
           /\ NewWalk(s, r).discovered = <<>> /\ NewWalk(s, r).issues = {}
           /\ NewWalk(s, r).reserved = {} /\ NewWalk(s, r).acquired = {}
<1>1. /\ NewWalk(s, r).packages = <<>> /\ NewWalk(s, r).frontier = <<>> /\ NewWalk(s, r).discovered = <<>>
      /\ NewWalk(s, r).issues = {} /\ NewWalk(s, r).reserved = {} /\ NewWalk(s, r).acquired = {}
    BY DEF NewWalk
<1>2. Reporting(NewWalk(s, r), FALSE) = {} /\ Searching(NewWalk(s, r), FALSE) = {}
  <2>1. DOMAIN <<>> = {}
    OBVIOUS
  <2> QED
    BY <1>1, <2>1 DEF Reporting, Searching, EntriesOf, ToReport, Coming
<1> QED
    BY <1>1, <1>2 DEF NoDeeper
-----------------------------------------------------------------------------
(* One iteration of whatever kind.                                             *)

\* v holds w's entries, visits and count, and at least its issues.
Kept(w, v) == SameEntries(w, v) /\ SameVisits(w, v) /\ v.count = w.count /\ w.issues \subseteq v.issues

\* v is w after an iteration at depth d; `l` and `m` say whether the frontier's
\* head has been looked at before and after.
Iterates(w, l, v, m, d) ==
    \/ Kept(w, v) /\ m = l
    \/ /\ MoreToMerge(w) /\ AtDepth(w.queue, d) /\ AtDepth(w.merged, d) /\ v = MergeNext(w) /\ m = l
    \/ /\ w.merged # <<>> /\ AtDepth(w.merged, d) /\ l = FALSE /\ m = FALSE
       /\ \/ v = DropRevisit(w) /\ Visited(w, Head(w.merged)) /\ NewContexts(w, Head(w.merged)) = {}
          \/ v = AdmitRevisit(w) /\ Visited(w, Head(w.merged))
          \/ v \in {AdmitFirstVisit(w), BreakAtLimit(w)} /\ ~Visited(w, Head(w.merged))
    \/ w.frontier # <<>> /\ l = FALSE /\ m = TRUE /\ v = AnalyzeNext(w)
    \/ w.frontier # <<>> /\ l = TRUE /\ m = FALSE /\ v = LeaveFrontierHead(w)
    \/ \E r \in Request :
          /\ m = l
          /\ \/ v = EnqueueAcquired(w, r) /\ ~NamesRoot(w, r.key)
             \/ v = EnqueueRevisit(w, r) /\ Revisitable(w, r.key) /\ (r.key \in w.acquired => ~NamesRoot(w, r.key))

\* Every iteration continues the walk and keeps its count of directories.
LEMMA IterationContinues ==
    ASSUME NEW w \in Walk, NEW v, NEW l, NEW m, NEW d, Iterates(w, l, v, m, d)
    PROVE  /\ Continues(w, v)
           /\ v # AnalyzeNext(w) => v.discovered = w.discovered
           /\ Counted(w) => Counted(v)
<1>1. CASE Kept(w, v)
  <2>1. Continues(w, v) /\ v.discovered = w.discovered
    BY <1>1 DEF Kept, SameEntries, SameVisits, Continues
  <2>2. SameReport(w, v)
    BY <1>1 DEF Kept, SameEntries, SameVisits, SameReport
  <2> QED
    BY <2>1, <2>2, CountedKept
<1>2. CASE v = MergeNext(w) \/ v = DropRevisit(w)
  <2>1. SameReport(w, v)
    BY <1>2, ReportUntouched
  <2> QED
    BY <1>2, <2>1, EveryIterationContinues, CountedKept
<1>3. CASE /\ w.merged # <<>>
           /\ \/ v = AdmitRevisit(w)
              \/ v \in {AdmitFirstVisit(w), BreakAtLimit(w)} /\ ~Visited(w, Head(w.merged))
  <2>1. Counted(w) => Counted(v)
    BY <1>3, CountedAdmit
  <2> QED
    BY <1>3, <2>1, EveryIterationContinues
<1>4. CASE w.frontier # <<>> /\ v = AnalyzeNext(w)
  BY <1>4, AnalyzeDiscovers, CountedAnalyze
<1>5. CASE w.frontier # <<>> /\ v = LeaveFrontierHead(w)
  BY <1>5, EveryIterationContinues, CountedAnalyze
<1>6. CASE \E r : v = EnqueueAcquired(w, r) \/ v = EnqueueRevisit(w, r)
  <2>1. SameReport(w, v)
    BY <1>6, ReportUntouched
  <2> QED
    BY <1>6, <2>1, EveryIterationContinues, CountedKept
<1> QED
  BY <1>1, <1>2, <1>3, <1>4, <1>5, <1>6 DEF Iterates

\* Every iteration keeps the walk tracked and no deeper than the level it is at,
\* and no answer is lost until the walk stops at the limit.
LEMMA IterationHolds ==
    ASSUME NEW w \in Walk, NEW v, NEW l, NEW m, NEW d \in Nat, Iterates(w, l, v, m, d),
           NEW o, Consistent(o), Tracked(w, l, o), NoDeeper(w, l, d)
    PROVE  /\ Tracked(v, m, o)
           /\ NoDeeper(v, m, d)
           /\ ~LimitReported(v) =>
                 \A t, C : \A e \in Nat : Belongs(o, t) /\ Held(w, l, t, C, e) => Held(v, m, t, C, e)
<1>1. CASE Kept(w, v) /\ m = l
  <2>1. /\ Tracked(v, l, o) /\ NoDeeper(v, l, d)
        /\ \A t, C, e : Held(w, l, t, C, e) => Held(v, l, t, C, e)
    BY <1>1, SameHolds DEF Kept
  <2> QED
    BY <1>1, <2>1
<1>2. CASE MoreToMerge(w) /\ AtDepth(w.queue, d) /\ AtDepth(w.merged, d) /\ v = MergeNext(w) /\ m = l
  <2>1. /\ Tracked(v, l, o)
        /\ \A t, C, e : Belongs(o, t) /\ Held(w, l, t, C, e) => Held(v, l, t, C, e)
    BY <1>2, MergeHolds
  <2>2. NoDeeper(v, l, d)
    BY <1>2, DepthsKept
  <2> QED
    BY <1>2, <2>1, <2>2
<1>3. CASE /\ w.merged # <<>> /\ AtDepth(w.merged, d) /\ l = FALSE /\ m = FALSE
           /\ \/ v = DropRevisit(w) /\ Visited(w, Head(w.merged)) /\ NewContexts(w, Head(w.merged)) = {}
              \/ v = AdmitRevisit(w) /\ Visited(w, Head(w.merged))
              \/ v \in {AdmitFirstVisit(w), BreakAtLimit(w)}
  <2>0. Tracked(w, FALSE, o) /\ NoDeeper(w, FALSE, d)
    BY <1>3
  <2>1. Tracked(v, FALSE, o) /\ NoDeeper(v, FALSE, d)
    BY <1>3, <2>0, AdmitTracked
  <2>2. ASSUME ~LimitReported(v)
        PROVE  \A t, C : \A e \in Nat : Belongs(o, t) /\ Held(w, FALSE, t, C, e) => Held(v, FALSE, t, C, e)
    <3>1. v # BreakAtLimit(w)
      BY <1>3, <2>2, AdmitRecords
    <3>2. Continues(w, v)
      BY <1>3, EveryIterationContinues
    <3>3. ~LimitReported(w)
      BY <2>2, <3>2, LimitStays DEF Continues
    <3> DEFINE p == Head(w.merged)
    <3>4. \/ v = DropRevisit(w) /\ Visited(w, p) /\ NewContexts(w, p) = {}
          \/ v = AdmitRevisit(w) /\ Visited(w, p)
          \/ v = AdmitFirstVisit(w)
      BY <1>3, <3>1
    <3> HIDE DEF p
    <3> QED
      BY <1>3, <2>0, <3>3, <3>4, AdmitHolds DEF p
  <2> QED
    BY <1>3, <2>1, <2>2
<1>4. CASE w.frontier # <<>> /\ l = FALSE /\ m = TRUE /\ v = AnalyzeNext(w)
  <2>1. Tracked(w, FALSE, o) /\ NoDeeper(w, FALSE, d)
    BY <1>4
  <2>2. /\ Tracked(v, TRUE, o) /\ NoDeeper(v, TRUE, d)
        /\ \A t, C, e : Held(w, FALSE, t, C, e) => Held(v, TRUE, t, C, e)
    BY <1>4, <2>1, AnalyzeHolds
  <2> QED
    BY <1>4, <2>2
<1>5. CASE w.frontier # <<>> /\ l = TRUE /\ m = FALSE /\ v = LeaveFrontierHead(w)
  <2>1. Tracked(w, TRUE, o) /\ NoDeeper(w, TRUE, d)
    BY <1>5
  <2>2. /\ Tracked(v, FALSE, o) /\ NoDeeper(v, FALSE, d)
        /\ \A t, C, e : Held(w, TRUE, t, C, e) => Held(v, FALSE, t, C, e)
    BY <1>5, <2>1, AnalyzeHolds
  <2> QED
    BY <1>5, <2>2
<1>6. ASSUME NEW r \in Request, m = l,
             \/ v = EnqueueAcquired(w, r) /\ ~NamesRoot(w, r.key)
             \/ v = EnqueueRevisit(w, r) /\ Revisitable(w, r.key) /\ (r.key \in w.acquired => ~NamesRoot(w, r.key))
      PROVE  /\ Tracked(v, m, o) /\ NoDeeper(v, m, d)
             /\ \A t, C, e : Held(w, l, t, C, e) => Held(v, m, t, C, e)
  <2>1. r.key \in Keys /\ r.depth \in Nat /\ r.contexts \subseteq Contexts
    BY DEF Request
  <2>2. /\ Tracked(v, l, o) /\ NoDeeper(v, l, d)
        /\ \A t, C, e : Held(w, l, t, C, e) => Held(v, l, t, C, e)
    BY <1>6, <2>1, EnqueueHolds
  <2> QED
    BY <1>6, <2>2
<1> QED
  BY <1>1, <1>2, <1>3, <1>4, <1>5, <1>6 DEF Iterates

\* s asks for at least what q asks for.
Covers(s, q) == s.key = q.key /\ q.contexts \subseteq s.contexts /\ s.depth = q.depth
==============================================================================
