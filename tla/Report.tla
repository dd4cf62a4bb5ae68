------------------------------ MODULE Report ------------------------------
(***************************************************************************)
(* From the configuration of an analysis to its exit status: which rules   *)
(* are in force, what the scans of the root and of a dependency add to the *)
(* report, how the report is finalised and suppressed, and what the        *)
(* process returns.  src/engine/reporting.rs, src/app and src/rules.       *)
(***************************************************************************)
EXTENDS Scan

CONSTANTS
  Configurations,  \* the configurations considered
  DefaultRules,    \* the rules the program brings with it
  Dependencies,    \* outcomes of the scan of a dependency: sets of findings
  Scripts,         \* install scripts the manifests of the root declare
  GroupOf          \* the group of each rule

VARIABLES
  config,   \* the configuration of this run
  dependency, scripts,
  phase,    \* "configure", "scan", "finalize", "suppress", "exit", "ended"
  report,   \* findings, capability evidence, issues, packages and statistics
  exit      \* the exit status of the process

reportVars == <<config, dependency, scripts, phase, report, exit>>

-----------------------------------------------------------------------------
(* Rules and selectors.                                                    *)

\* A selector names a group, or none, and a glob over rule identities.
Selects(selector, rule) ==
  /\ selector.group = "any" \/ selector.group = GroupOf[rule]
  /\ rule \in selector.rules

Selected(selectors, rule) == \E s \in selectors : Selects(s, rule)

Offered ==
  (IF config.noDefaults THEN <<>> ELSE DefaultRules) \o FlattenSeq(config.packs)

ValidRules(rs) ==
  /\ \A i \in DOMAIN rs : rs[i].version > 0 /\ rs[i].wellFormed
  /\ \A i, j \in DOMAIN rs : i # j => rs[i].id # rs[j].id

ValidPack(pack) == pack # <<>> /\ ValidRules(pack)

InForce == {r.id : r \in Range(Offered)} \ {r \in DOMAIN GroupOf : Selected(config.ignored, r)}

\* Without the default rules the findings no rule makes are ignored as well.
GeneratedRules == {"compressed", "native", "entropic", "binary", "legacy text",
                   "npm hook", "python hook"}

IgnoredSelectors ==
  config.ignored \cup
    IF config.noDefaults THEN {[group |-> "any", rules |-> GeneratedRules]} ELSE {}

-----------------------------------------------------------------------------
(* What enters the report.                                                 *)

EmptyReport == [findings |-> {}, capabilities |-> {}, issues |-> <<>>,
                packages |-> {}, files |-> 0, bytes |-> 0]

ScanIssue == [code |-> IF scan = "scan" THEN "scan_error" ELSE "limit_exceeded",
              fatal |-> TRUE]

\* The outcome of the root's own scan; a scan that failed leaves an issue.
RecordScan(r) ==
  IF scan = "done"
  THEN [r EXCEPT !.findings = @ \cup UNION Range(budget.kept),
                 !.issues = @ \o outcome.issues,
                 !.files = @ + outcome.files, !.bytes = @ + outcome.bytes]
  ELSE [r EXCEPT !.issues = Append(@, ScanIssue)]

\* The outcome of a scan another report may share.
RecordSharedScan(r) ==
  [r EXCEPT !.findings = @ \cup dependency.findings, !.issues = @ \o dependency.issues]

\* An install script is a finding of its own, once however often it is named.
ScriptFinding(s) ==
  [id |-> s.id, rule |-> IF s.language = "Python" THEN "python hook" ELSE "npm hook",
   kind |-> "finding", package |-> Root, risk |-> IF s.language = "Python" THEN 1 ELSE 2]

RecordInstallScripts(r) ==
  LET new == {s \in scripts : \A f \in r.findings : f.id # s.id}
  IN  [r EXCEPT !.findings = @ \cup {ScriptFinding(s) : s \in new}]

RecordPackage(r) == [r EXCEPT !.packages = @ \cup {Root}]

-----------------------------------------------------------------------------
(* The end of the report.                                                  *)

\* Capability evidence leaves the findings before these are counted.
RecordCapabilities(r) ==
  [r EXCEPT !.findings = {f \in @ : f.kind = "finding"},
            !.capabilities = {f \in r.findings : f.kind = "capability"}]

Hook(f) == GroupOf[f.rule] = "install"

\* The order in which findings of a package take the places there are.
Before(f, g) ==
  \/ f.risk > g.risk
  \/ f.risk = g.risk /\ Hook(f) /\ ~Hook(g)
  \/ f.risk = g.risk /\ (Hook(f) <=> Hook(g)) /\ f.id < g.id

Retained(fs) ==
  {f \in fs : Cardinality({g \in fs : g.package = f.package /\ Before(g, f)}) < MaxFindings}

\* A slip: what is cut off at the end is not reported as an issue.
EnforceFindingLimitsQuietly(r) == [r EXCEPT !.findings = Retained(@)]

EnforceFindingLimits(r) ==
  LET truncated == {f.package : f \in r.findings \ Retained(r.findings)}
  IN  [r EXCEPT !.findings = Retained(@),
                !.issues = @ \o SetToSeq({[code |-> "limit_exceeded", fatal |-> FALSE,
                                           package |-> p] : p \in truncated})]

DropIgnored(r) ==
  [r EXCEPT !.findings = {f \in @ : ~Selected(IgnoredSelectors, f.rule)}]

AnyPackage == <<>>

\* A suppression names a package with or without its integrity.
PackageMatches(configured, reported) ==
  \/ configured = reported
  \/ /\ Root \notin {configured, reported}
     /\ Len(configured) = 1 /\ configured[1] = reported[1]

SuppressedBy(s, f) ==
  Selects(s.selector, f.rule) /\ (s.package = AnyPackage \/ PackageMatches(s.package, f.package))

\* The first suppression that matches marks a finding or a piece of evidence.
ApplySuppressions(fs) ==
  LET by(f) == {i \in DOMAIN config.suppressions : SuppressedBy(config.suppressions[i], f)}
  IN  {[finding |-> f,
        suppression |-> IF by(f) = {} THEN <<>>
                        ELSE <<config.suppressions[Min(by(f))].reason>>] : f \in fs}

MeetsThreshold(x) == x.suppression = <<>> /\ x.finding.risk >= config.threshold

IssueExitStatus(r) ==
  IF \E i \in DOMAIN r.issues : r.issues[i].code \in {"policy_error", "limit_exceeded"}
  THEN 4 ELSE IF r.issues # <<>> THEN 3 ELSE 0

\* A slip: evidence of a finding above the threshold hides issues.
ExitStatusFindingsFirst(r) ==
  IF \E x \in r.findings : MeetsThreshold(x) THEN 1 ELSE IssueExitStatus(r)

ExitStatus(r) ==
  IF IssueExitStatus(r) # 0 THEN IssueExitStatus(r)
  ELSE IF \E x \in r.findings : MeetsThreshold(x) THEN 1 ELSE 0

\* The identity of a finding is a hash of its package among others, so those
\* of other packages and those of manifests are others; a scan of a dependency
\* keeps what its own budget has room for; install hooks are install findings.
ASSUME ReportAssumption ==
  /\ \A d \in Dependencies :
       /\ IsFiniteSet(d.findings) /\ d.issues \in Seq(Range(d.issues))
       /\ \A f \in d.findings : f.id \in Int /\ f.risk \in Int /\ f.kind \in Kinds /\ f.package # Root
       /\ \A f, g \in d.findings : f.id = g.id => f = g
       /\ \A k \in Kinds : Cardinality({f \in d.findings : f.kind = k}) <= MaxFindings
  /\ \A hooks \in Scripts :
       /\ IsFiniteSet(hooks) /\ \A s \in hooks : s.id \in Int
       /\ \A s, t \in hooks : s.id = t.id => s = t
       /\ \A t \in Trees, s \in hooks : \A f \in Findable(t) : f.id # s.id
  /\ \A c \in Configurations : c.threshold \in Int
  /\ GroupOf["npm hook"] = "install" /\ GroupOf["python hook"] = "install"

-----------------------------------------------------------------------------
(* One run of the program.                                                 *)

Running == -1  \* no exit status yet

ReportInit ==
  /\ ScanInit /\ rules = {}
  /\ config \in Configurations /\ dependency \in Dependencies /\ scripts \in Scripts
  /\ phase = "configure" /\ report = EmptyReport /\ exit = Running

Exit(status) ==
  /\ phase' = "ended" /\ exit' = status
  /\ UNCHANGED <<config, dependency, scripts, report>>

Misconfigured ==
  \/ \E s \in config.ignored : s.group = "unknown"
  \/ \E i \in DOMAIN config.packs : ~ValidPack(config.packs[i])
  \/ ~ValidRules(Offered)
  \/ InForce = {}

RefuseConfiguration ==
  /\ phase = "configure" /\ Misconfigured
  /\ Exit(2)
  /\ UNCHANGED scanVars

Configure ==
  /\ phase = "configure" /\ ~Misconfigured
  /\ phase' = "scan" /\ rules' = InForce
  /\ UNCHANGED <<config, dependency, scripts, report, exit>>
  /\ UNCHANGED <<tree, at, stack, pending, budget, outcome, held, opened, scan>>

Scanning == phase = "scan" /\ ScanNext /\ UNCHANGED reportVars

Record ==
  /\ phase = "scan" /\ scan # "walking"
  /\ report' = RecordSharedScan(RecordPackage(RecordInstallScripts(RecordScan(report))))
  /\ phase' = "finalize"
  /\ UNCHANGED <<config, dependency, scripts, exit, scanVars>>

Finalize ==
  /\ phase = "finalize"
  /\ report' = EnforceFindingLimits(RecordCapabilities(DropIgnored(report)))
  /\ phase' = "suppress"
  /\ UNCHANGED <<config, dependency, scripts, exit, scanVars>>

Suppress ==
  /\ phase = "suppress"
  /\ report' = [report EXCEPT !.findings = ApplySuppressions(@),
                              !.capabilities = ApplySuppressions(@)]
  /\ phase' = "exit"
  /\ UNCHANGED <<config, dependency, scripts, exit, scanVars>>

\* The report is written to a file or to the terminal before the status is
\* returned; when that fails the status says so instead.
Emit ==
  /\ phase = "exit"
  /\ \E written \in BOOLEAN : Exit(IF written THEN ExitStatus(report) ELSE 3)
  /\ UNCHANGED scanVars

ReportNext ==
  \/ RefuseConfiguration \/ Configure \/ Scanning
  \/ Record \/ Finalize \/ Suppress \/ Emit

ReportSpec == ReportInit /\ [][ReportNext]_<<scanVars, reportVars>>

-----------------------------------------------------------------------------
(* What a report promises.                                                 *)

\* Everything the run came across and was not told to ignore.
Found ==
  (IF scan = "done" THEN AllFound ELSE {})
    \cup {ScriptFinding(s) : s \in scripts} \cup dependency.findings

Evident == {f \in Found : ~Selected(IgnoredSelectors, f.rule)}

Shown == {x.finding : x \in report.findings \cup report.capabilities}

Of(fs, package, kind) == {f \in fs : f.package = package /\ f.kind = kind}

PolicyIssue == \E i \in DOMAIN dependency.issues : dependency.issues[i].code = "policy_error"

LimitIssue == \E i \in DOMAIN report.issues : report.issues[i].code = "limit_exceeded"

Reported == phase = "exit" \/ (phase = "ended" /\ exit # 2)

\* Hooks go first among findings of the same risk, except those that a rule
\* sees in a source: a scan that has to drop some does not tell them apart.
Outranks(g, f) == Before(g, f) \/ (g.risk = f.risk /\ Hook(f) /\ f \in AllFound)

\* The report shows nothing but what was found and not ignored, evidence of a
\* capability never takes the place of a finding, and of every package the
\* gravest findings are there, from its sources and its manifests alike.  If
\* one is missing the report says that a limit was exceeded.
ReportKeepsTheWorst ==
  Reported =>
    /\ Shown \subseteq Evident
    /\ Shown # Evident => LimitIssue
    /\ \A p \in {f.package : f \in Found}, k \in Kinds :
         /\ Cardinality(Of(Shown, p, k)) <= MaxFindings
         /\ Of(Found, p, k) = Of(Evident, p, k) =>
              /\ \A f \in Of(Evident \ Shown, p, k), g \in Of(Shown, p, k) : Outranks(g, f)
              /\ Cardinality(Of(Evident, p, k)) <= MaxFindings =>
                   Of(Shown, p, k) = Of(Evident, p, k)

Tolerated(f) ==
  \/ f.kind = "capability" \/ f.risk < config.threshold
  \/ \E i \in DOMAIN config.suppressions : SuppressedBy(config.suppressions[i], f)

\* A process that returns 0 has looked at everything and come across nothing
\* the threshold counts; one that returns 1 has, and nothing went wrong; what
\* went wrong is 4 if a limit or a policy was met and 3 otherwise.
ExitTellsTheTruth ==
  /\ exit = 0 => scan = "done" /\ Shown = Evident /\ \A f \in Evident : Tolerated(f)
  /\ exit = 1 => scan = "done" /\ Shown = Evident /\ \E f \in Evident : ~Tolerated(f)
  /\ exit = 4 => LimitIssue \/ PolicyIssue
  /\ exit = 2 <=> (phase = "ended" /\ rules = {})

\* docs/FAQ.md:61: "--ignore-rule <GROUP:GLOB> omits matching rules from
\* scanning and reports".  What is ignored would then not keep anything else
\* out of the report.
IgnoredLeaveNoTrace ==
  Reported /\ scan = "done" /\ ~config.noDefaults =>
    \A p \in {f.package : f \in Found} :
      Cardinality(Of(Evident, p, "finding")) <= MaxFindings =>
        Of(Shown, p, "finding") = Of(Evident, p, "finding")
=============================================================================
