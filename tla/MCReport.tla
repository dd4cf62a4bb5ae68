------------------------------ MODULE MCReport ------------------------------
(* Instances of Report for TLC.                                              *)
EXTENDS Report, VersionDiff, TLC

Match(id, rule, risk, kind) ==
  [id |-> id, rule |-> rule, risk |-> risk, kind |-> kind, matcher |-> <<>>, literal |-> <<>>]

Literal(length, spaces, shape) ==
  [quoted |-> TRUE, length |-> length, spaces |-> spaces, shape |-> shape, entropy |-> 4]

Secret(id, literal) ==
  [Match(id, "secret", 3, "finding") EXCEPT
     !.matcher = << [minimumLength |-> 16, maximumWhitespace |-> 5, minimumEntropy |-> 4] >>,
     !.literal = literal]

Eval    == Match(10, "eval", 2, "finding")
Exec    == Match(11, "exec", 2, "finding")
Fetches == Match(12, "fetch", 0, "capability")
Listens == Match(13, "fetch", 1, "capability")
Setup   == Match(26, "setup", 2, "finding")
Key     == Secret(14, Literal(16, 0, "plain"))
Prose   == Secret(15, Literal(40, 6, "plain"))
Url     == Secret(19, Literal(40, 0, "url"))

Text == {"utf8"}
File(id, dirs, name, ext, size, traits, matches) ==
  [id |-> id, dirs |-> dirs, name |-> name, ext |-> ext, shebang |-> <<>>,
   type |-> "file", size |-> size, traits |-> traits, matches |-> matches,
   malformed |-> FALSE, replaced |-> FALSE, exhausts |-> FALSE]

App    == File(1, <<"a", "b">>, "app.py", "py", 2, Text, <<Eval, Eval, Setup, Fetches>>)
Lib    == File(2, <<"a", "c">>, "lib.py", "py", 1, Text, <<Exec, Listens, Prose>>)
Tokens == File(3, <<>>, "keys.py", "py", 2, Text, <<Url, Key>>)
Blob   == File(4, <<"a", "b">>, "blob", "none", 9, {"compressed"}, <<>>)
Archive == File(24, <<"a">>, "archive", "none", 9, {"compressed"}, <<>>)
Noise  == File(5, <<"c">>, "noise", "none", 9, {"utf8", "entropic"}, <<>>)
Script == [File(6, <<"a">>, "run", "none", 1, Text, <<Exec>>)
             EXCEPT !.shebang = <<"env", "-S", "python3">>, !.malformed = TRUE]
Link   == [File(7, <<>>, "link.py", "py", 1, Text, <<Eval>>) EXCEPT !.type = "link"]
Vendor == File(8, <<"node_modules", "d">>, "v.js", "js", 1, Text, <<>>)
Large  == File(9, <<"a">>, "large.py", "py", 4, Text, <<>>)
Gone   == [File(16, <<"a", "c">>, "gone.py", "py", 1, Text, <<>>) EXCEPT !.replaced = TRUE]
Deep   == [File(17, <<"a">>, "deep.py", "py", 1, Text, <<>>) EXCEPT !.exhausts = TRUE]
Sample == File(18, <<"tests", "data">>, "s.bin", "none", 9, {}, <<>>)

MCTrees ==
  {<<App, Blob, Lib, Tokens>>, <<App, Lib, Script, Vendor>>, <<Blob, Noise, App>>,
   <<Link, Tokens, Sample, Script>>, <<App, Gone>>, <<App, Large>>, <<Lib, Deep>>,
   <<Lib, Tokens, App, Script, Blob>>, <<Noise, Lib>>, <<Blob, Archive, App>>, <<Vendor, Sample>>}

Rule(id) == [id |-> id, version |-> 1, wellFormed |-> TRUE]
MCDefaultRules == <<Rule("eval"), Rule("fetch")>>

MCGroupOf ==
  [r \in {"eval", "exec"} |-> "execution"] @@ [r \in {"fetch"} |-> "network"]
    @@ [r \in {"secret"} |-> "secret"] @@ [r \in {"npm hook", "python hook", "setup"} |-> "install"]
    @@ [r \in {"compressed", "native", "entropic", "binary", "legacy text"} |-> "file"]

Pick(group, names) == [group |-> group, rules |-> names]
AllRules == DOMAIN MCGroupOf

Suppression(selector, package, reason) ==
  [selector |-> selector, package |-> package, reason |-> reason]

Ignored ==
  {{}, {Pick("file", AllRules)}, {Pick("any", {"eval", "fetch"})}, {Pick("unknown", {})}}

Suppressions ==
  {<<>>,
   <<Suppression(Pick("execution", AllRules), <<"dep">>, "known"),
     Suppression(Pick("any", {"eval", "secret"}), AnyPackage, "fine")>>}

Packs == {<<>>, << <<Rule("exec"), Rule("secret"), Rule("setup")>> >>, << <<Rule("eval")>> >>, << <<>> >>}

MCConfigurations ==
  {[noDefaults |-> d, packs |-> p, ignored |-> i, suppressions |-> s, threshold |-> 2] :
     d \in BOOLEAN, p \in Packs, i \in Ignored, s \in Suppressions}

Dep == <<"dep", "sha">>
DepFinding(id, rule, risk, kind) ==
  [id |-> id, rule |-> rule, risk |-> risk, kind |-> kind, package |-> Dep]

MCDependencies ==
  {[findings |-> {}, issues |-> <<>>],
   [findings |-> {DepFinding(30, "exec", 2, "finding"), DepFinding(31, "fetch", 1, "capability")},
    issues |-> <<>>],
   [findings |-> {}, issues |-> << [code |-> "fetch_error", fatal |-> FALSE] >>],
   [findings |-> {}, issues |-> << [code |-> "policy_error", fatal |-> FALSE] >>]}

Hook1 == [id |-> 20, language |-> "npm"]
Hook2 == [id |-> 21, language |-> "Python"]
MCScripts == {{}, {Hook1}, {Hook1, Hook2}}

MCIgnoredPaths == {<<"c", "d">>}

-----------------------------------------------------------------------------
(* Releases of a package and of what it depends on.                          *)

Occurrence(name, version, code, line, risk) ==
  [package |-> [name |-> name, version |-> version], rule |-> code, file |-> "f", code |-> code,
   line |-> line, risk |-> risk, suppressed |-> FALSE]

Evidence(name, id) == [name |-> name, id |-> id, suppressed |-> id = 3]

Release(version, findings, capabilities, issues) ==
  [version |-> version, findings |-> findings, capabilities |-> capabilities, issues |-> issues,
   resolved |-> {<<f.package, f.package.version>> :
                   f \in {g \in findings : Len(g.package.version) = 2}}]

\* The package itself under its version, a dependency whose version holds an
\* "@" of its own, the same code in two places, and one that comes and goes.
FindingsOf(v) ==
  {{}, {Occurrence("p", <<v>>, "eval", 1, 2)}, {Occurrence("p", <<v>>, "eval", 7, 2)},
   {Occurrence("p", <<v>>, "eval", 1, 2), Occurrence("p", <<v>>, "eval", 7, 2)},
   {Occurrence("p", <<v>>, "exec", 1, 2), Occurrence("d", <<v, "x">>, "eval", 1, 2)},
   {Occurrence("d", <<v, "x">>, "eval", 2, 2), Occurrence("p", <<v>>, "log", 1, 1)},
   {[Occurrence("p", <<v>>, "eval", 1, 2) EXCEPT !.suppressed = TRUE]}}

ReleasesOf(v) ==
  {Release(v, f, c, <<>>) : f \in FindingsOf(v), c \in {{}, {Evidence("net", 1), Evidence("net", 3)}}}
    \cup {Release(v, {}, {Evidence("net", 2), Evidence("net", 1)}, <<i>>) :
            i \in {"scan_error", "limit_exceeded"}}

MCReleases == {<<c, b, a>> : a \in ReleasesOf("1"), b \in ReleasesOf("2"), c \in ReleasesOf("3")}

-----------------------------------------------------------------------------
(* One run checks an analysis or a diff.                                     *)

Analysing ==
  ReportInit /\ versions = <<>> /\ comparisons = <<>> /\ summary = <<>> /\ diffExit = -1

Diffing ==
  /\ DiffInit
  /\ tree = <<>> /\ at = 0 /\ stack = <<>> /\ pending = <<>> /\ budget = NoFindings
  /\ outcome = [files |-> 0, bytes |-> 0, issues |-> <<>>]
  /\ held = 0 /\ opened = {} /\ scan = "idle" /\ rules = {}
  /\ config = {} /\ dependency = [findings |-> {}, issues |-> <<>>] /\ scripts = {}
  /\ phase = "idle" /\ report = EmptyReport /\ exit = Running

MCInit == Analysing \/ Diffing

MCNext ==
  \/ ReportNext /\ UNCHANGED diffVars
  \/ DiffNext /\ UNCHANGED <<scanVars, reportVars>>

MCSpec == MCInit /\ [][MCNext]_<<scanVars, reportVars, diffVars>>
=============================================================================
