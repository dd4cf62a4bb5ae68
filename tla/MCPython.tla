------------------------------ MODULE MCPython ------------------------------
(* Declarations and lockfiles for PythonLocks: one package with a range, a    *)
(* URL, a commit, a directory or a constraint that cannot be read, and a      *)
(* second one beside it; lockfiles that know none of them, one or both.       *)
EXTENDS PythonLocks

Declares(name, form, accepts, source) == [name |-> name, form |-> form, accepts |-> accepts, source |-> source]

From(form, of) == [form |-> form, of |-> of]

AskA      == Declares("a", "registry", {"1", "2"}, NoSource)
AskA1     == Declares("a", "registry", {"1"}, NoSource)
AskB      == Declares("b", "registry", {"1"}, NoSource)
AskUrl    == Declares("a", "url", {}, From("url", "u"))
AskCommit == Declares("a", "git", {}, From("git", "c"))
AskBranch == Declares("a", "git", {}, From("git", "branch"))
AskGithub == Declares("a", "github", {}, From("git", "c"))
AskLocal  == Declares("a", "local", {}, NoSource)
AskWrong  == Declares("a", "malformed", {}, NoSource)

Hashed(hash, url) == [hash |-> hash, url |-> url, valid |-> TRUE]

Record(name, version, source, files) ==
  [name |-> name, version |-> version, source |-> source, files |-> files]

FilesOf(hash) == << Hashed(hash, "u"), Hashed(hash \o "w", "w") >>

Records ==
  {<<>>, <<Record("a", "1", NoSource, <<>>)>>, <<Record("a", "1", NoSource, FilesOf("h"))>>,
   <<Record("a", "2", NoSource, << Hashed("g", "g") >>), Record("b", "1", NoSource, << Hashed("b", "b") >>)>>,
   <<Record("a", "none", NoSource, << Hashed("g", "g") >>)>>,
   <<Record("a", "1", NoSource, << [Hashed("h", "u") EXCEPT !.valid = FALSE] >>)>>,
   <<Record("a", "1", From("url", "u"), FilesOf("h"))>>,
   <<Record("a", "1", From("url", "u"), << Hashed("w", "w") >>)>>,
   <<Record("a", "1", From("git", "c"), << >>), Record("a", "1", From("git", "branch"), << Hashed("h", "u") >>)>>,
   <<Record("a", "1", NoSource, FilesOf("h")), Record("a", "2", NoSource, FilesOf("g"))>>,
   <<Record("b", "1", NoSource, << Hashed("b", "b") >>), Record("b", "1", NoSource, << Hashed("b", "b") >>)>>}

LockOf(kind, path, packages) == [kind |-> kind, path |-> path, packages |-> packages, supported |-> TRUE]

LockKinds == {"poetry", "uv", "pdm", "pipfile"}

Locks(path) == {LockOf(kind, path, packages) : kind \in LockKinds, packages \in Records}

Declarations ==
  {<<AskA>>, <<AskA1, AskB>>, <<AskUrl>>, <<AskCommit>>, <<AskBranch>>, <<AskGithub, AskA>>, <<AskLocal>>,
   <<AskWrong>>, <<AskA, AskA1, AskB>>}

Environment(declared, own, inherited) == [declared |-> declared, own |-> own, inherited |-> inherited]

OneLock == {<<l>> : l \in Locks("one")} \cup {<<[LockOf("uv", "one", <<>>) EXCEPT !.supported = FALSE]>>}

\* Locks of different kinds one after the other, as siblings in a directory
\* or as inherited from two dependents.
TwoLocks == {<<l, m>> : l \in {k \in Locks("one") : k.kind # "pdm"},
                        m \in {k \in Locks("two") : k.kind \in {"uv", "pipfile"}}}

MCEnvironments ==
  {Environment(declared, <<>>, locks) : declared \in Declarations, locks \in {<<>>} \cup OneLock \cup TwoLocks}
    \cup {Environment(<<AskA>>, locks, <<LockOf("poetry", "three", <<>>)>>) : locks \in OneLock \cup TwoLocks}
=============================================================================
