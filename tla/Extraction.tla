----------------------------- MODULE Extraction -----------------------------
(***************************************************************************)
(* An archive becomes a source directory: src/fetcher/archive, and the     *)
(* pipelines of src/fetcher/sources that lead to it.  The bytes are        *)
(* verified, every entry is looked at before anything is written, then the *)
(* entries are written one after the other, and a single directory at the  *)
(* top is taken for the package.  Entries are records of their declared    *)
(* path, type, declared size and the bytes that really follow.             *)
(***************************************************************************)
EXTENDS Materialise, Integrity

CONSTANT Archives  \* the archives considered

\* An archive is a record; its integrity value is a sequence of tokens, and
\* its entries declare some path and some size.
ASSUME ArchivesAssumption ==
  \A a \in Archives :
    /\ {"kind", "content", "expected", "pinnedCommit", "root", "entries", "magic"} \subseteq DOMAIN a
    /\ a.expected \in Seq(Range(a.expected)) /\ a.entries \in Seq(Range(a.entries))
    /\ \A e \in Range(a.entries) : e.path.parts \in Seq(Range(e.path.parts)) /\ e.size \in Nat
    /\ a.kind = "archive" /\ a.root = <<>>

\* Readers of compressed archives hand out no more than the limits can need.
TarBlock == 512
TarMetadataAllowance == 1024 * 1024

InputBudget ==
  MaxExtractedSize + MaxExtractedFiles * TarBlock * 2 + TarBlock * 2 + TarMetadataAllowance

ArchiveInit ==
  /\ job \in Archives
  /\ step = "verify" /\ at = 0
  /\ table = [p \in {} |-> 0] /\ stats = NoStats /\ disk = Empty

Container ==
  CASE job.magic = "PK" -> "zip"
    [] job.magic \in {"gzip", "bzip2", "xz", "ustar"} -> "tar"
    [] OTHER -> "unsupported"

Malformed == -1

\* The number of entries a ZIP announces: 16 bits, or a record of its own
\* when these are exhausted.
EntryCount == IF job.count16 = 65535 THEN job.count64 ELSE job.count16

Goes(next) ==
  /\ step' = next /\ at' = 0
  /\ UNCHANGED <<job, table, stats, disk>>

\* An archive of a pinned commit is named by its digest and not verified.
VerifyArtifact ==
  /\ step = "verify"
  /\ IF job.pinnedCommit \/ VerifyIntegrity(job.content, job.expected) = "none"
     THEN Goes("open") ELSE Fails(VerifyIntegrity(job.content, job.expected))

\* A TAR stream is read to its end first; a ZIP says how many entries it has.
OpenArchive ==
  /\ step = "open"
  /\ CASE Container = "unsupported" -> Fails("extraction")
       [] Container = "tar" ->
            IF job.unpacked > InputBudget THEN Fails("limit") ELSE Goes("preflight")
       [] Container = "zip" ->
            IF EntryCount = Malformed THEN Fails("extraction")
            ELSE IF EntryCount > MaxExtractedFiles THEN Fails("limit") ELSE Goes("preflight")

Entry == job.entries[at + 1]

More == at < Len(job.entries)

Extension(e) == Container = "tar" /\ e.type = "pax"

\* Links, devices and names that leave the directory are refused.
EntryAllowed(e) == SafeRelative(e.path) /\ e.type \in {"file", "dir"}

\* An entry is read to its end: it has neither fewer bytes nor more.
EntrySizeVerified(e) == e.actual = e.size

\* A header that only extends the next entry is counted like a file.
PreflightAccount(e) ==
  IF Extension(e) THEN
    LET s == CountObject(stats)
    IN  AccountBytes([Accounts EXCEPT !.stats = s, !.error = CheckLimits(s)], e.size)
  ELSE IF ~EntryAllowed(e)
  THEN [Accounts EXCEPT !.error = "extraction"]
  ELSE AccountBytes(Account(Accounts, NormalizeRelative(e.path), e.type), e.size)

PreflightEntry ==
  /\ step = "preflight" /\ More
  /\ LET a == PreflightAccount(Entry)
     IN  IF a.error # "none" THEN Fails(a.error)
         ELSE IF ~EntrySizeVerified(Entry) THEN Fails("extraction")
         ELSE /\ table' = a.table /\ stats' = a.stats /\ at' = at + 1
              /\ UNCHANGED <<job, step, disk>>

PreflightDone == step = "preflight" /\ ~More /\ Goes("write")

WriteEntry ==
  /\ step = "write" /\ More
  /\ LET path == NormalizeRelative(Entry.path)
         way  == (Parents(path) \cup {path}) \ {<<>>}
     IN  IF Extension(Entry) THEN disk' = disk /\ UNCHANGED step
         ELSE IF Entry.type = "dir"
         THEN IF DirectoriesFit(way) THEN disk' = Made(way) /\ UNCHANGED step
              ELSE step' = "io" /\ UNCHANGED disk
         ELSE IF CanCreateFile(path)
         THEN disk' = WithFile(path, Entry.size, Entry.path) /\ UNCHANGED step
         ELSE step' = "io" /\ UNCHANGED disk
  /\ at' = at + 1
  /\ UNCHANGED <<job, table, stats>>

\* The package is the only directory at the top, or everything.
Unwrap ==
  /\ step = "write" /\ ~More
  /\ LET top == {p \in DOMAIN disk : Len(p) = 1}
     IN  /\ \/ \E p \in top : /\ top = {p} /\ disk[p].kind = "dir"
                              /\ job' = [job EXCEPT !.root = p]
            \/ ~(\E p \in top : top = {p} /\ disk[p].kind = "dir") /\ UNCHANGED job
         /\ step' = "done"
  /\ UNCHANGED <<at, table, stats, disk>>

ArchiveNext ==
  \/ VerifyArtifact \/ OpenArchive \/ PreflightEntry \/ PreflightDone
  \/ WriteEntry \/ Unwrap \/ Expires

ArchiveSpec == ArchiveInit /\ [][ArchiveNext]_materialiseVars

-----------------------------------------------------------------------------
(* What an extraction promises.                                            *)

Declared == {i \in DOMAIN job.entries : ~Extension(job.entries[i])}

PathOf(i) == NormalizeRelative(job.entries[i].path)

Objects == UNION {Parents(PathOf(i)) \cup {PathOf(i)} : i \in Declared}

DeclaredBytes == SumFunction([i \in DOMAIN job.entries |-> job.entries[i].size])

DeclaredObjects == Cardinality(Objects) + Cardinality(DOMAIN job.entries \ Declared)

\* A definition that does not depend on the order of the entries.
WellFormed ==
  /\ \A i \in DOMAIN job.entries : job.entries[i].actual = job.entries[i].size
  /\ \A i \in Declared : SafeRelative(job.entries[i].path) /\ job.entries[i].type \in {"file", "dir"}
  /\ \A i, j \in Declared : i # j =>
       /\ PathOf(i) # PathOf(j)
       /\ job.entries[i].type = "file" => PathOf(i) \notin Parents(PathOf(j))
  /\ DeclaredObjects <= MaxExtractedFiles /\ DeclaredBytes <= MaxExtractedSize

Extracting == job.kind = "archive"

\* In whatever order entries come, with directories named before or after
\* what lies in them, an archive is extracted as a whole when it is well
\* formed and within the limits, and nothing is written of one that is not.
ExtractedWholeOrRefused ==
  Extracting =>
    /\ disk # Empty \/ step = "done" => WellFormed
    /\ step = "write" /\ at = 0 => WellFormed
    /\ WellFormed /\ step \in {"extraction", "limit"} =>
         \/ Container = "unsupported"
         \/ Container = "tar" /\ job.unpacked > InputBudget
         \/ Container = "zip" /\ (EntryCount = Malformed \/ EntryCount > MaxExtractedFiles)
    /\ Cardinality(DOMAIN disk) <= MaxExtractedFiles /\ BytesOnDisk <= MaxExtractedSize
    /\ step = "done" =>
         /\ DOMAIN disk = Objects \ {<<>>}
         /\ \A i \in Declared : PathOf(i) # <<>> =>
              /\ disk[PathOf(i)].kind = job.entries[i].type
              /\ job.entries[i].type = "file" => disk[PathOf(i)].content = job.entries[i].path
         /\ stats = [files |-> DeclaredObjects, bytes |-> DeclaredBytes]
         /\ \A p \in DOMAIN disk : SubSeq(p, 1, Len(job.root)) = job.root

\* How decisive a digest is by its form; one without a form counts alone only.
Rank(t) == CASE t.form = "sha256:" -> 4 [] t.form = "hex" /\ Len(job.expected) = 1 -> 3
             [] t.form = "sha512-" -> 2 [] t.form = "sha256-" -> 1 [] OTHER -> 0

\* An artifact that is unpacked without being pinned to a commit matches a
\* digest of the most decisive form its integrity has, and the verdict the
\* cache forms from the SHA-256 digest alone is the same one.
AuthorisedOnly ==
  Extracting =>
    /\ step \in {"open", "preflight", "write", "done"} /\ ~job.pinnedCommit =>
         \E t \in Range(job.expected) :
           /\ t.of = job.content /\ Rank(t) > 0
           /\ \A u \in Range(job.expected) : Rank(u) <= Rank(t)
    /\ VerifyFromSha256(job.content, job.expected) \in
         {"unknown", VerifyIntegrity(job.content, job.expected)}
=============================================================================
