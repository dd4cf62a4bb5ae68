---------------------------- MODULE VersionDiff ----------------------------
(***************************************************************************)
(* The comparison of several releases of one package: src/app/diff.  The   *)
(* reports come newest first.  Adjacent ones are compared older to newer;  *)
(* the summary adds these comparisons up again, and the exit status        *)
(* compares the two ends only.                                             *)
(***************************************************************************)
EXTENDS Integers, SequencesExt, FiniteSetsExt, Functions

CONSTANTS
  Releases,   \* the sequences of reports considered, newest first
  Threshold,  \* the risk from which a finding counts
  Verbose     \* whether the human output shows the others as well

VARIABLES
  versions,     \* the reports compared
  comparisons,  \* the comparisons made so far, newest first
  summary,      \* per detection: its first count and its changes since
  diffExit      \* the exit status, or -1

diffVars == <<versions, comparisons, summary, diffExit>>

-----------------------------------------------------------------------------
(* Findings and what identifies them across releases.                      *)

\* A package identity is a name, the parts of a version its "@" separate, and
\* an integrity.  The resolved version is cut off where the report knows it,
\* and the last part otherwise.
NormalizedPackage(r, p) ==
  IF p.name = "root" THEN <<"root">>
  ELSE IF <<p, p.version>> \in r.resolved THEN <<p.name>>
  ELSE <<p.name>> \o Front(p.version)

\* The place in the file is left out, so relocated code is the same finding.
Identity(r, f) ==
  [package |-> NormalizedPackage(r, f.package), rule |-> f.rule, file |-> f.file, code |-> f.code]

\* The findings of a report lie in packages it fetched: it knows the version,
\* unless there is nothing but a version after the name.  All releases are
\* scanned with the same rules, and a rule has one risk.
ASSUME ReleasesAssumption ==
  \A vs \in Releases :
    /\ vs \in Seq(Range(vs))
    /\ \A v \in Range(vs) :
         /\ v.issues \in Seq(Range(v.issues))
         /\ IsFiniteSet(v.findings) /\ IsFiniteSet(v.capabilities)
         /\ \A f \in v.findings :
              /\ f.package.version \in Seq(STRING)
              /\ \/ f.package.name = "root" \/ Len(f.package.version) = 1
                 \/ <<f.package, f.package.version>> \in v.resolved
    /\ \A v, w \in Range(vs) : \A f \in v.findings, g \in w.findings :
         f.rule = g.rule => f.risk = g.risk

Detection(f) == <<"detection", f.rule, f.risk>>

Counts(f, verbose) == ~f.suppressed /\ (verbose \/ f.risk >= Threshold)

Visible(r, verbose) == {f \in r.findings : Counts(f, verbose)}

Identities(r, verbose) == {Identity(r, f) : f \in Visible(r, verbose)}

IdentityCount(r, verbose, i) ==
  Cardinality({f \in Visible(r, verbose) : Identity(r, f) = i})

DetectionCounts(r) ==
  [d \in {Detection(f) : f \in Visible(r, Verbose)} |->
     Cardinality({f \in Visible(r, Verbose) : Detection(f) = d})]

CapabilityCounts(r) ==
  LET shown == {e \in r.capabilities : ~e.suppressed}
  IN  [c \in {<<"capability", e.name>> : e \in shown} |->
         Cardinality({e \in shown : <<"capability", e.name>> = c})]

-----------------------------------------------------------------------------
(* Comparing an older report with a newer one.                             *)

Counted(counts, k) == IF k \in DOMAIN counts THEN counts[k] ELSE 0

Changes(before, after) ==
  {[key |-> k, before |-> Counted(before, k), after |-> Counted(after, k)] :
     k \in {j \in DOMAIN before \cup DOMAIN after : Counted(before, j) # Counted(after, j)}}

Grown(older, newer) ==
  {f \in Visible(newer, Verbose) :
     IdentityCount(newer, Verbose, Identity(newer, f))
       > IdentityCount(older, Verbose, Identity(newer, f))}

CompareVersions(older, newer) ==
  [from |-> older.version, to |-> newer.version,
   complete |-> older.issues = <<>> /\ newer.issues = <<>>,
   detections |-> Changes(DetectionCounts(older), DetectionCounts(newer)),
   capabilities |-> Changes(CapabilityCounts(older), CapabilityCounts(newer)),
   added |-> Grown(older, newer), removed |-> Grown(newer, older)]

\* Comparisons are taken in the order of time: the first that changes the count
\* of a detection gives its count at the beginning, each the change it brought.
AggregateChanges(cs) ==
  LET All(i)      == cs[i].detections \cup cs[i].capabilities
      Changing(k) == {i \in DOMAIN cs : \E c \in All(i) : c.key = k}
      Of(i, k)    == CHOOSE c \in All(i) : c.key = k
  IN  [k \in UNION {{c.key : c \in All(i)} : i \in DOMAIN cs} |->
         [initial |-> Of(Max(Changing(k)), k).before,
          total   |-> SumFunction([i \in Changing(k) |-> Of(i, k).after - Of(i, k).before])]]

IssueStatus(r) ==
  IF \E i \in DOMAIN r.issues : r.issues[i] \in {"policy_error", "limit_exceeded"} THEN 4
  ELSE IF r.issues # <<>> THEN 3 ELSE 0

\* A slip: groups are counted and not identities.
DiffExitStatusGrouped(vs) ==
  LET worst   == Max({IssueStatus(v) : v \in Range(vs)})
      Number(r, d) == Cardinality({f \in Visible(r, FALSE) : Detection(f) = d})
  IN  IF worst > 0 THEN worst
      ELSE IF \E d \in {Detection(f) : f \in Visible(Head(vs), FALSE)} :
                Number(Head(vs), d) > Number(Last(vs), d)
      THEN 1 ELSE 0

\* The worst issue of any release; then whether an identity that counts is
\* more frequent in the newest release than in the oldest.
DiffExitStatus(vs) ==
  LET worst  == Max({IssueStatus(v) : v \in Range(vs)})
      newest == Head(vs)
      oldest == Last(vs)
  IN  IF worst > 0 THEN worst
      ELSE IF \E i \in Identities(newest, FALSE) :
                IdentityCount(newest, FALSE, i) > IdentityCount(oldest, FALSE, i)
      THEN 1 ELSE 0

-----------------------------------------------------------------------------

DiffInit ==
  /\ versions \in Releases
  /\ comparisons = <<>> /\ summary = <<>> /\ diffExit = -1

\* Windows of two, from the newest on; the second of a window is the older.
CompareNext ==
  /\ diffExit = -1 /\ Len(comparisons) < Len(versions) - 1
  /\ LET i == Len(comparisons) + 1
     IN  comparisons' = Append(comparisons, CompareVersions(versions[i + 1], versions[i]))
  /\ UNCHANGED <<versions, summary, diffExit>>

Conclude ==
  /\ diffExit = -1 /\ versions # <<>> /\ Len(comparisons) = Len(versions) - 1
  /\ summary' = AggregateChanges(comparisons)
  /\ diffExit' = DiffExitStatus(versions)
  /\ UNCHANGED <<versions, comparisons>>

DiffNext == CompareNext \/ Conclude

DiffSpec == DiffInit /\ [][DiffNext]_diffVars

-----------------------------------------------------------------------------
(* What a diff promises.                                                   *)

Complete(v) == v.issues = <<>>

Count(v, k) == Counted(DetectionCounts(v), k) + Counted(CapabilityCounts(v), k)

Compared ==
  UNION {DOMAIN DetectionCounts(v) \cup DOMAIN CapabilityCounts(v) : v \in Range(versions)}

SameCode(f, g) ==
  f.package.name = g.package.name /\ f.rule = g.rule /\ f.file = g.file /\ f.code = g.code

\* The summary tells how the first release became the last, whatever happened
\* in between.  A diff that ends with 0 has complete reports throughout and a
\* newest release without findings the oldest does not have; one that ends
\* with 1 lists a finding some release added, and does not end so because a
\* version number or a line number changed.
DiffTellsTheTruth ==
  diffExit # -1 =>
    LET newest == Head(versions)
        oldest == Last(versions)
    IN  /\ \A k \in Compared :
             IF k \in DOMAIN summary
             THEN /\ summary[k].initial = Count(oldest, k)
                  /\ summary[k].initial + summary[k].total = Count(newest, k)
             ELSE \A v \in Range(versions) : Count(v, k) = Count(newest, k)
        /\ diffExit <= 1 <=> \A v \in Range(versions) : Complete(v)
        /\ diffExit = 0 => \A f \in Visible(newest, FALSE) :
                             \E g \in Visible(oldest, FALSE) : SameCode(f, g)
        /\ diffExit = 1 =>
             /\ \E i \in DOMAIN comparisons : comparisons[i].added # {}
             /\ \E f \in Visible(newest, FALSE) :
                  Cardinality({g \in Visible(newest, FALSE) : SameCode(f, g)})
                    > Cardinality({g \in Visible(oldest, FALSE) : SameCode(f, g)})
=============================================================================
