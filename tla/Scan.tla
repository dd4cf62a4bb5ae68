------------------------------- MODULE Scan -------------------------------
(***************************************************************************)
(* One scan of a materialised package: src/scanner.  A directory walk      *)
(* reads the regular files one after the other, classifies each as a       *)
(* whole, and hands the source files in batches to parallel workers, whose *)
(* findings are merged into two bounded collections, one for findings and  *)
(* one for capability evidence.  A file is a record of the traits the code *)
(* looks at; a finding is its identity, its risk and its kind.             *)
(***************************************************************************)
EXTENDS Integers, SequencesExt

CONSTANTS
  Trees,              \* the walks considered: sequences of directory entries
  IgnoredPaths,       \* the paths the configured globs match
  ExcludeNodeModules, \* whether node_modules is left out
  FailOnParseError,   \* whether a syntax error is reported as an issue
  MaxFindings,        \* limits.max_findings
  MaxSourceFiles,     \* limits.max_source_files
  MaxSourceFileSize,  \* limits.max_source_file_size
  MaxFileDepth,       \* limits.max_file_depth
  Threads             \* workers of the pool, which is the size of a batch

ASSUME ScanConstants ==
  /\ MaxFindings \in Nat /\ MaxSourceFiles \in Nat /\ MaxSourceFileSize \in Nat
  /\ MaxFileDepth \in Nat /\ Threads \in Nat \ {0}
  /\ ExcludeNodeModules \in BOOLEAN /\ FailOnParseError \in BOOLEAN

VARIABLES
  rules,     \* the identities of the rules in force
  tree,      \* the entries the walk yields, in its order
  at,        \* how many of them have been taken
  stack,     \* the directories kept open: the path each was opened under
  pending,   \* source files read and not yet analysed
  budget,    \* the findings kept of each kind, and the kinds that overflowed
  outcome,   \* the counters and issues of the scan
  held,      \* the most bytes of source that were queued at once
  opened,    \* <<the path a file was reached by, the path the walk gave>>
  scan       \* "walking", "done", or the error that ended it

scanVars == <<rules, tree, at, stack, pending, budget, outcome, held, opened, scan>>

-----------------------------------------------------------------------------
(* Findings kept within a bound.                                           *)

Kinds == {"finding", "capability"}

\* A package identity: a name, and the integrity it is bound to if there is one.
Root == <<"root">>

\* Higher risk first, then the smaller identity, then findings before
\* capability evidence.
Above(f, g) ==
  \/ f.risk > g.risk
  \/ f.risk = g.risk /\ f.id < g.id
  \/ f.risk = g.risk /\ f.id = g.id /\ f.kind = "finding" /\ g.kind = "capability"

NoFindings == [kept |-> [k \in Kinds |-> {}], exceeded |-> {}]

\* A slip: when a collection is full the new finding is the one dropped.
InsertWhileRoom(b, f) ==
  IF \E g \in UNION Range(b.kept) : g.id = f.id THEN b
  ELSE IF Cardinality(b.kept[f.kind]) < MaxFindings
       THEN [b EXCEPT !.kept[f.kind] = @ \cup {f}]
       ELSE [b EXCEPT !.exceeded = @ \cup {f.kind}]

Insert(b, f) ==
  LET known  == {g \in UNION Range(b.kept) : g.id = f.id}
      others == [k \in Kinds |-> b.kept[k] \ known]
      full   == others[f.kind] \cup {f}
      lowest == CHOOSE g \in full : \A h \in full \ {g} : Above(h, g)
  IN  IF \E g \in known : ~Above(f, g) THEN b
      ELSE IF Cardinality(full) <= MaxFindings
      THEN [b EXCEPT !.kept = [others EXCEPT ![f.kind] = full]]
      ELSE [kept     |-> [others EXCEPT ![f.kind] = full \ {lowest}],
            exceeded |-> b.exceeded \cup {f.kind}]

InsertAll(b, fs) ==
  LET inserted[n \in 0 .. Len(fs)] ==
        IF n = 0 THEN b ELSE Insert(inserted[n - 1], fs[n])
  IN  inserted[Len(fs)]

-----------------------------------------------------------------------------
(* What is walked and how a file is read.                                  *)

Path(e) == Append(e.dirs, e.name)

NeverWalked == {".git", ".chainsec-cache", ".chainsec-cache.lock", "target",
                ".venv", "venv", "__pycache__"}

Included(path) ==
  /\ path \notin IgnoredPaths
  /\ Last(path) \notin NeverWalked
  /\ ~(ExcludeNodeModules /\ Last(path) = "node_modules")

\* A directory that is left out is not descended into.
Walked(e) ==
  /\ Len(Path(e)) <= MaxFileDepth
  /\ \A i \in 1 .. Len(Path(e)) : Included(SubSeq(Path(e), 1, i))

ExtensionLanguage(e) ==
  CASE e.ext \in {"py", "pyi"} -> "Python"
    [] e.ext \in {"js", "mjs", "cjs", "jsx"} -> "JavaScript"
    [] e.ext \in {"ts", "mts", "cts", "tsx"} -> "TypeScript"
    [] OTHER -> "none"

InterpreterLanguage(word) ==
  CASE word \in {"python", "python2", "python3", "pypy", "pypy3"} -> "Python"
    [] word \in {"node", "nodejs", "deno", "bun"} -> "JavaScript"
    [] word \in {"ts-node", "ts-node-esm", "tsx"} -> "TypeScript"
    [] OTHER -> "none"

\* The words of a "#!" line, stripped of directories; env is looked through
\* to the first word that is neither an option nor an assignment.
ShebangLanguage(words) ==
  LET named == SelectSeq(Tail(words), LAMBDA w : w \notin {"-S", "A=1"})
  IN  IF words = <<>> THEN "none"
      ELSE IF Head(words) # "env" THEN InterpreterLanguage(Head(words))
      ELSE IF named = <<>> THEN "none" ELSE InterpreterLanguage(Head(named))

LanguageFor(e) ==
  IF ExtensionLanguage(e) # "none" THEN ExtensionLanguage(e)
  ELSE ShebangLanguage(e.shebang)

IsSource(e) == LanguageFor(e) # "none"

\* A slip: directories are compared by depth and not by name.
OpenStackByDepth(dirs) ==
  IF Len(stack) <= Len(dirs)
  THEN stack \o SubSeq(dirs, Len(stack) + 1, Len(dirs))
  ELSE SubSeq(stack, 1, Len(dirs))

\* The directories still open after the file's own have been reached: those
\* it shares with the last file, then newly opened ones.
OpenStack(dirs) ==
  LET common == CHOOSE n \in 0 .. Len(dirs) :
                  /\ n <= Len(stack)
                  /\ SubSeq(stack, 1, n) = SubSeq(dirs, 1, n)
                  /\ n < Len(dirs) /\ n < Len(stack) => stack[n + 1] # dirs[n + 1]
  IN  SubSeq(stack, 1, common) \o SubSeq(dirs, common + 1, Len(dirs))

-----------------------------------------------------------------------------
(* Files as a whole.                                                       *)

IsTestFixture(path) ==
  \/ \E i \in DOMAIN path : path[i] \in {"fixtures", "fixture", "testdata", "__fixtures__"}
  \/ \E i, j \in DOMAIN path :
       i < j /\ path[i] \in {"test", "tests"} /\ path[j] \in {"data", "resources"}

\* The first trait that applies decides.
FileKind(e) ==
  IF "compressed" \in e.traits THEN "compressed"
  ELSE IF "asset" \in e.traits THEN "none"
  ELSE IF "native" \in e.traits THEN "native"
  ELSE IF "entropic" \in e.traits THEN "entropic"
  ELSE IF "utf8" \in e.traits THEN IF "nul" \in e.traits THEN "binary" ELSE "none"
  ELSE IF "printable" \in e.traits THEN "legacy text" ELSE "binary"

Critical == 3
Medium == 1

FileFindings(e) ==
  LET kind   == FileKind(e)
      exempt == IsTestFixture(Path(e)) /\ kind \in {"compressed", "binary"}
  IN  IF kind = "none" \/ exempt THEN <<>>
      ELSE << [id |-> e.id, rule |-> kind, kind |-> "finding", package |-> Root,
               risk |-> IF kind \in {"compressed", "native", "binary"}
                        THEN Critical ELSE Medium] >>

-----------------------------------------------------------------------------
(* Source files, analysed in batches.                                      *)

\* Literals of these shapes are never secrets, however random they look.
Structured == {"url", "sql", "regex", "format string", "digest", "tagged binary", "sentence"}
Tables == {"character sequence", "encoding alphabet", "character table"}

\* Whether a matched literal is what a rule that asks for entropy looks for:
\* its length, its share of white space in percent and its entropy decide.
HighEntropy(literal, matcher) ==
  /\ literal.quoted
  /\ literal.length >= matcher.minimumLength
  /\ literal.spaces * 100 <= matcher.maximumWhitespace * literal.length
  /\ literal.shape \notin Structured \cup Tables
  /\ literal.entropy >= matcher.minimumEntropy

\* Each match as often as the query yields it; one below the entropy its rule
\* asks for is passed over.
Passes(x) == x.matcher = <<>> \/ HighEntropy(x.literal, Head(x.matcher))

Finding(x) == [id |-> x.id, rule |-> x.rule, kind |-> x.kind, risk |-> x.risk,
               package |-> Root]

IsFinding(x) == x.rule \in rules /\ Passes(x)

\* A worker keeps what it finds in one file within the same bound.
ScanFile(e) ==
  LET found[n \in 0 .. Len(e.matches)] ==
        IF n = 0 THEN NoFindings
        ELSE IF IsFinding(e.matches[n]) THEN Insert(found[n - 1], Finding(e.matches[n]))
        ELSE found[n - 1]
  IN  found[Len(e.matches)]

ParseIssues(e) ==
  IF FailOnParseError /\ e.malformed THEN << [code |-> "parse_error", fatal |-> TRUE] >>
  ELSE <<>>

BytesOf(files) == SumFunction([i \in DOMAIN files |-> files[i].size])

\* The findings of a batch are merged file by file, in the walk's order.
MergeFile(b, e) ==
  LET own == ScanFile(e)
  IN  [InsertAll(b, SetToSeq(UNION Range(own.kept))) EXCEPT !.exceeded = @ \cup own.exceeded]

MergedFindings(b, files) ==
  LET merged[n \in 0 .. Len(files)] ==
        IF n = 0 THEN b ELSE MergeFile(merged[n - 1], files[n])
  IN  merged[Len(files)]

\* The workers exceed the matcher's own bound on some file: nothing of the
\* batch is recorded.
BatchFails(files) == \E i \in DOMAIN files : files[i].exhausts

BatchOutcome(o, files) ==
  [files  |-> o.files + Len(files),
   bytes  |-> o.bytes + BytesOf(files),
   issues |-> o.issues \o FlattenSeq([i \in DOMAIN files |-> ParseIssues(files[i])])]

\* Everything that may be found in a tree.
Findable(t) ==
  UNION {Range(FileFindings(e)) \cup {Finding(x) : x \in Range(e.matches)} : e \in Range(t)}

\* The walk comes to every path once.  The identity of a finding is a hash of
\* its rule, its file, its place and the text matched, the rule decides on
\* risk and kind.
ASSUME TreesAssumption ==
  \A t \in Trees :
    /\ t \in Seq(Range(t))
    /\ \A i, j \in DOMAIN t : Path(t[i]) = Path(t[j]) => i = j
    /\ \A e \in Range(t) : /\ e.size \in Nat /\ e.dirs \in Seq(STRING)
                           /\ e.matches \in Seq(Range(e.matches))
    /\ \A f \in Findable(t) : f.id \in Int /\ f.risk \in Int /\ f.kind \in Kinds
    /\ \A f, g \in Findable(t) : f.id = g.id => f = g

-----------------------------------------------------------------------------
(* The walk.                                                               *)

ScanInit ==
  /\ tree \in Trees
  /\ at = 0
  /\ stack = <<>>
  /\ pending = <<>>
  /\ budget = NoFindings
  /\ outcome = [files |-> 0, bytes |-> 0, issues |-> <<>>]
  /\ held = 0
  /\ opened = {}
  /\ scan = "walking"

Entry == tree[at + 1]

Walking == scan = "walking" /\ at < Len(tree)

ScanFails(error) ==
  /\ scan' = error
  /\ UNCHANGED <<rules, tree, at, stack, pending, budget, outcome, held, opened>>

\* Left out, or not a regular file: links are not followed.
PassOver ==
  /\ Walking
  /\ ~Walked(Entry) \/ Entry.type # "file"
  /\ at' = at + 1
  /\ UNCHANGED <<rules, tree, stack, pending, budget, outcome, held, opened, scan>>

ToRead == Walking /\ Walked(Entry) /\ Entry.type = "file"

AtFileLimit == outcome.files + Len(pending) >= MaxSourceFiles

\* A file known by its name is counted before it is opened, one known by
\* its first line after it has been read.
RefusedUnread == ExtensionLanguage(Entry) # "none" /\ AtFileLimit

TooManyFiles ==
  /\ ToRead /\ IsSource(Entry) /\ AtFileLimit
  /\ RefusedUnread \/ (~Entry.replaced /\ Entry.size <= MaxSourceFileSize)
  /\ ScanFails("limit exceeded: source files")

FileTooLarge ==
  /\ ToRead /\ IsSource(Entry) /\ Entry.size > MaxSourceFileSize
  /\ ~RefusedUnread /\ ~Entry.replaced
  /\ ScanFails("limit exceeded: source file bytes")

\* The file or one of its directories was replaced by a link, or vanished.
FileReplaced ==
  /\ ToRead /\ Entry.replaced /\ ~RefusedUnread
  /\ ScanFails("scan")

Readable ==
  /\ ToRead /\ ~Entry.replaced
  /\ IsSource(Entry) => ~AtFileLimit /\ Entry.size <= MaxSourceFileSize

ReadEntry ==
  /\ at' = at + 1
  /\ stack' = OpenStack(Entry.dirs)
  /\ opened' = opened \cup {<<Append(OpenStack(Entry.dirs), Entry.name), Path(Entry)>>}

\* Any other file is judged as a whole from its beginning.
VisitOther ==
  /\ Readable /\ ~IsSource(Entry)
  /\ ReadEntry
  /\ budget' = InsertAll(budget, FileFindings(Entry))
  /\ UNCHANGED <<rules, tree, pending, outcome, held, scan>>

\* A source file is judged as a whole as well, then added to the batch; a
\* batch it does not fit in is analysed first, a full one right after.
FlushBefore(e) ==
  pending # <<>> /\ (Len(pending) >= Threads \/ BytesOf(pending) + e.size > MaxSourceFileSize)

FlushAfter(files) == Len(files) >= Threads \/ BytesOf(files) >= MaxSourceFileSize

VisitSource ==
  /\ Readable /\ IsSource(Entry)
  /\ LET first  == IF FlushBefore(Entry) THEN pending ELSE <<>>
         queued == IF FlushBefore(Entry) THEN <<Entry>> ELSE Append(pending, Entry)
         second == IF FlushAfter(queued) THEN queued ELSE <<>>
         judged == InsertAll(budget, FileFindings(Entry))
     IN  IF BatchFails(first) \/ BatchFails(second)
         THEN ScanFails("limit exceeded: query matches")
         ELSE /\ ReadEntry
              /\ pending' = IF second = <<>> THEN queued ELSE <<>>
              /\ held' = Max({held, BytesOf(queued)})
              /\ budget' = MergedFindings(MergedFindings(judged, first), second)
              /\ outcome' = BatchOutcome(BatchOutcome(outcome, first), second)
              /\ UNCHANGED <<rules, tree, scan>>

IssueOf(b, kind) ==
  IF kind \in b.exceeded THEN << [code |-> "limit_exceeded", fatal |-> FALSE] >> ELSE <<>>

LimitIssues(b) == IssueOf(b, "finding") \o IssueOf(b, "capability")

\* The walk is over: the rest is analysed and an overflow becomes an issue.
FinishScan ==
  /\ scan = "walking" /\ at = Len(tree)
  /\ IF BatchFails(pending) THEN ScanFails("limit exceeded: query matches")
     ELSE LET merged == MergedFindings(budget, pending)
              last   == BatchOutcome(outcome, pending)
          IN  /\ budget' = merged
              /\ outcome' = [last EXCEPT !.issues = @ \o LimitIssues(merged)]
              /\ pending' = <<>>
              /\ scan' = "done"
              /\ UNCHANGED <<rules, tree, at, stack, held, opened>>

\* The clock is looked at between any two of these steps.
ScanTimesOut ==
  /\ scan = "walking"
  /\ ScanFails("limit exceeded: scan duration")

ScanNext ==
  \/ PassOver \/ TooManyFiles \/ FileTooLarge \/ FileReplaced
  \/ VisitOther \/ VisitSource \/ FinishScan \/ ScanTimesOut

-----------------------------------------------------------------------------
(* What a scan promises.                                                   *)

\* The files the walk has come past and the scan has to look at.
Seen == {i \in 1 .. at : Walked(tree[i]) /\ tree[i].type = "file"}

SeenSources == {i \in Seen : IsSource(tree[i])}

Analysed == {i \in SeenSources : tree[i] \notin Range(pending)}

Matches(e) == {Finding(x) : x \in {m \in Range(e.matches) : IsFinding(m)}}

AllFound ==
  (UNION {Range(FileFindings(tree[i])) : i \in Seen})
    \cup (UNION {Matches(tree[i]) : i \in Analysed})

\* Whatever the order and the batches in which findings turn up, and however
\* often the same one does, the most severe of each kind are the ones kept,
\* as many as the limit has room for, and a kind is marked as exceeded
\* exactly when one of its findings is missing.
KeepsMostSevere ==
  \A k \in Kinds :
    LET all  == {f \in AllFound : f.kind = k}
        kept == budget.kept[k]
    IN  /\ kept \subseteq all
        /\ \A f \in all \ kept, g \in kept : Above(g, f)
        /\ Cardinality(kept) <= MaxFindings
        /\ all # kept => Cardinality(kept) = MaxFindings
        /\ k \in budget.exceeded <=> all # kept

\* A scan that ends well has analysed every source file of the tree once and
\* says which findings it dropped; on the way the number of files, the size
\* of a batch and the bytes one holds stay within their limits, and every
\* file was opened through the directories the walk found it in.
SourcesAccounted ==
  /\ outcome.files = Cardinality(Analysed)
  /\ outcome.bytes = SumFunctionOnSet([i \in DOMAIN tree |-> tree[i].size], Analysed)
  /\ outcome.files + Len(pending) <= MaxSourceFiles
  /\ held <= MaxSourceFileSize /\ Len(pending) < Threads
  /\ \A o \in opened : o[1] = o[2]
  /\ scan = "done" =>
       /\ Analysed = {i \in DOMAIN tree : /\ Walked(tree[i]) /\ IsSource(tree[i])
                                          /\ tree[i].type = "file"}
       /\ Cardinality(budget.exceeded) =
            Cardinality({i \in DOMAIN outcome.issues :
                           outcome.issues[i].code = "limit_exceeded"})
=============================================================================
