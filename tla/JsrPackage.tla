----------------------------- MODULE JsrPackage -----------------------------
(***************************************************************************)
(* A JSR package is fetched file by file, from a manifest that lists each  *)
(* file with its size and checksum, and rebuilt from the cache the same    *)
(* way: src/fetcher/sources/jsr/package.rs.  A file is verified before it  *)
(* is created, and written chunk by chunk; what was written before         *)
(* something fails stays behind in the workspace.  A manifest entry is a   *)
(* record of its name, size and checksum and of the supply: what the       *)
(* registry answers or the cache holds.                                    *)
(***************************************************************************)
EXTENDS Materialise, Integrity

CONSTANT Packages  \* the packages considered

\* A manifest lists files; what supplies a file has some length.
ASSUME PackagesAssumption ==
  \A p \in Packages :
    /\ p.manifest \in Seq(Range(p.manifest))
    /\ \A e \in Range(p.manifest) :
         /\ e.name.parts \in Seq(Range(e.name.parts))
         /\ e.size \in Nat /\ e.supply.size \in Nat
         /\ e.checksum = [form |-> e.checksum.form, of |-> e.checksum.of]

PackageInit ==
  /\ job \in Packages
  /\ step = "metadata" /\ at = 0
  /\ table = [p \in {} |-> 0] /\ stats = NoStats /\ disk = Empty

\* The metadata of the version carries the integrity of the whole package.
ReadMetadata ==
  /\ step = "metadata"
  /\ LET verdict == VerifyIntegrity(job.content, job.expected)
     IN  IF verdict # "none" THEN Fails(verdict)
         ELSE IF ~job.wellFormed THEN Fails("fetch")
         ELSE step' = "preflight" /\ UNCHANGED <<job, at, table, stats, disk>>

File == job.manifest[at + 1]

MoreFiles == at < Len(job.manifest)

\* Names begin with "/"; a first "." is refused, a later one means nothing.
ManifestPath(name) == NormalizeRelative(name)

SafeManifestPath(name) ==
  /\ name.rooted /\ name.parts # <<>> /\ ~name.backslash
  /\ SafeRelative([absolute |-> FALSE, parts |-> name.parts]) /\ name.parts[1] # "."

PreflightFile ==
  /\ step = "preflight" /\ MoreFiles
  /\ LET a == AccountBytes(Account(Accounts, ManifestPath(File.name), "file"), File.size)
     IN  IF ~SafeManifestPath(File.name) THEN Fails("policy")
         ELSE IF a.error # "none" THEN Fails(a.error)
         ELSE /\ table' = a.table /\ stats' = a.stats /\ at' = at + 1
              /\ UNCHANGED <<job, step, disk>>

PreflightFiles ==
  /\ step = "preflight" /\ ~MoreFiles
  /\ IF ~job.versionUrl THEN Fails("fetch")
     ELSE step' = "files" /\ at' = 0 /\ UNCHANGED <<job, table, stats, disk>>

\* A download yields some bytes or none.
Download == IF File.supply.status = "ok" THEN "none" ELSE "fetch"

\* A file of the cache is opened without following links, has its size then,
\* and has it still when it has been read; one that grew is cut off.
ReadCached ==
  IF File.supply.status # "ok" \/ File.supply.sizeAtOpen # File.size \/ File.supply.size # File.size
  THEN "policy" ELSE "none"

Supplied == IF job.from = "registry" THEN Download ELSE ReadCached

VerifyFile(e) ==
  IF e.supply.size # e.size THEN "fetch" ELSE VerifyJsrChecksum(e.supply.content, e.checksum)

\* What is in the file in hand when so many bytes of it are written.
WrittenPart(bytes) == IF bytes = File.supply.size THEN File.supply.content ELSE "partial"

\* A slip: a file is written before it is verified.
CreateFirst(path) ==
  IF CanCreateFile(path)
  THEN /\ disk' = WithFile(path, File.supply.size, File.supply.content)
       /\ step' = IF VerifyFile(File) = "none" THEN "chunks" ELSE "fetch"
       /\ UNCHANGED <<job, at, table, stats>>
  ELSE Fails("io")

\* The file is created empty, with the directories above it.
CreateVerified(path) ==
  IF VerifyFile(File) # "none" THEN Fails(VerifyFile(File))
  ELSE IF CanCreateFile(path)
  THEN /\ disk' = WithFile(path, 0, WrittenPart(0))
       /\ step' = "chunks"
       /\ UNCHANGED <<job, at, table, stats>>
  ELSE Fails("io")

BringFile ==
  /\ step = "files" /\ MoreFiles
  /\ IF Supplied # "none" THEN Fails(Supplied) ELSE CreateVerified(ManifestPath(File.name))

\* A verified file cannot be created: some of the directories above it may exist
\* by then.
CreateFails ==
  /\ step = "files" /\ MoreFiles
  /\ Supplied = "none" /\ VerifyFile(File) = "none"
  /\ \E n \in 0 .. Len(ManifestPath(File.name)) - 1 :
       disk' = Made({SubSeq(ManifestPath(File.name), 1, i) : i \in 1 .. n})
  /\ step' = "io"
  /\ UNCHANGED <<job, at, table, stats>>

SizeOnDisk == disk[ManifestPath(File.name)].size

\* A chunk is written, or the part of it that fits before the disk fails.
WriteChunk ==
  /\ step = "chunks"
  /\ \E n \in SizeOnDisk + 1 .. File.supply.size :
       disk' = [disk EXCEPT ![ManifestPath(File.name)] =
                  [kind |-> "file", size |-> n, content |-> WrittenPart(n)]]
  /\ UNCHANGED <<job, step, at, table, stats>>

WriteFails == step = "chunks" /\ SizeOnDisk < File.supply.size /\ Fails("io")

FileWritten ==
  /\ step = "chunks" /\ SizeOnDisk = File.supply.size
  /\ step' = "files" /\ at' = at + 1
  /\ UNCHANGED <<job, table, stats, disk>>

FilesBrought ==
  /\ step = "files" /\ ~MoreFiles
  /\ step' = "done"
  /\ UNCHANGED <<job, at, table, stats, disk>>

PackageNext ==
  \/ ReadMetadata \/ PreflightFile \/ PreflightFiles
  \/ BringFile \/ CreateFails \/ WriteChunk \/ WriteFails \/ FileWritten
  \/ FilesBrought \/ Expires

PackageSpec == PackageInit /\ [][PackageNext]_materialiseVars

-----------------------------------------------------------------------------
(* What a package promises.                                                *)

ManifestPaths == {ManifestPath(e.name) : e \in Range(job.manifest)}

Directories == UNION {Parents(p) : p \in ManifestPaths}

Listed(p, object) ==
  \E e \in Range(job.manifest) :
    /\ ManifestPath(e.name) = p /\ e.size = object.size
    /\ e.checksum = [form |-> "sha256-hex", of |-> object.content]

\* The file in hand is begun and not yet whole.
Begun(p, object) ==
  /\ step \in {"chunks"} \cup Errors
  /\ MoreFiles /\ p = ManifestPath(File.name)
  /\ object.kind = "file" /\ object.size < File.size

\* Whether it comes from the registry or from the cache, whatever file fails
\* and at whatever point: every file on disk is one the verified manifest
\* lists, with its size and content, but for the one in hand, of which a part
\* may be there and stays when the deadline passes or the disk fails; no listed
\* file is in the way of another one; and a package that is brought to an end
\* has all of them whole, as many objects and bytes as were accounted
\* beforehand, and never more than the limits.
PackageMatchesManifest ==
  job.kind = "jsr" =>
    /\ disk # Empty \/ step = "done" =>
         \E t \in Range(job.expected) : t.of = job.content
    /\ \A p \in DOMAIN disk :
         IF disk[p].kind = "dir" THEN p \in Directories
         ELSE Listed(p, disk[p]) \/ Begun(p, disk[p])
    /\ Cardinality(DOMAIN disk) <= MaxExtractedFiles /\ BytesOnDisk <= MaxExtractedSize
    /\ step = "done" =>
         /\ ManifestPaths \cap Directories = {}
         /\ DOMAIN disk = ManifestPaths \cup Directories
         /\ stats = [files |-> Cardinality(DOMAIN disk), bytes |-> BytesOnDisk]
    /\ step = "files" /\ MoreFiles => CanCreateFile(ManifestPath(File.name))
=============================================================================
