---------------------------- MODULE Materialise ----------------------------
(***************************************************************************)
(* What every way of bringing a package to disk shares: the private source *)
(* directory that is filled, the counters with their limits, the table of  *)
(* paths an archive or a manifest declares, and the deadline.              *)
(* src/fetcher/archive/support.rs and src/fetcher/filesystem.              *)
(***************************************************************************)
EXTENDS Integers, SequencesExt, FiniteSetsExt, Functions, TLC

CONSTANTS
  MaxExtractedFiles,  \* limits.max_extracted_files
  MaxExtractedSize,   \* limits.max_extracted_size
  MaxDepth            \* limits.max_file_depth

ASSUME MaterialiseConstants ==
  MaxExtractedFiles \in Nat /\ MaxExtractedSize \in Nat /\ MaxDepth \in Nat

VARIABLES
  job,    \* what is being brought to disk
  step,   \* where its task stands, or the error that ended it
  at,     \* entries handled in the present pass
  table,  \* the paths declared so far
  stats,  \* files and bytes accounted so far
  disk    \* the objects in the source directory, by path

materialiseVars == <<job, step, at, table, stats, disk>>

Errors == {"deadline", "limit", "fetch", "policy", "extraction", "io", "manifest"}

Fails(error) ==
  /\ step' = error
  /\ UNCHANGED <<job, at, table, stats, disk>>

-----------------------------------------------------------------------------
(* Declared paths.                                                         *)

Parents(path) == {SubSeq(path, 1, n) : n \in 1 .. Len(path) - 1}

\* A declared path is a sequence of names; "." stands for nothing.
NormalizeRelative(path) ==
  LET kept[n \in 0 .. Len(path.parts)] ==
        IF n = 0 THEN <<>>
        ELSE IF path.parts[n] = "." THEN kept[n - 1] ELSE Append(kept[n - 1], path.parts[n])
  IN  kept[Len(path.parts)]

SafeRelative(path) ==
  /\ ~path.absolute
  /\ ".." \notin Range(path.parts)
  /\ Len(NormalizeRelative(path)) <= MaxDepth

-----------------------------------------------------------------------------
(* Counters.                                                               *)

NoStats == [files |-> 0, bytes |-> 0]

CheckLimits(s) ==
  IF s.files > MaxExtractedFiles \/ s.bytes > MaxExtractedSize THEN "limit" ELSE "none"

CountObject(s) == [s EXCEPT !.files = @ + 1]

CountBytes(s, n) == [s EXCEPT !.bytes = @ + n]

-----------------------------------------------------------------------------
(* The table of declared paths.  An account is the table, the counters and *)
(* the error that ended the accounting, or "none".                         *)

Counted(a, path, kind, explicit) ==
  [table |-> [p \in DOMAIN a.table \cup {path} |->
                IF p = path THEN [kind |-> kind, explicit |-> explicit] ELSE a.table[p]],
   stats |-> CountObject(a.stats),
   error |-> CheckLimits(CountObject(a.stats))]

\* A slip: an explicit directory is a duplicate of one that exists only
\* because something was declared below it.
AccountDirectoryOnce(a, path, explicit) ==
  IF a.error # "none" THEN a
  ELSE IF path \notin DOMAIN a.table THEN Counted(a, path, "dir", explicit)
  ELSE IF a.table[path].kind # "dir" \/ explicit THEN [a EXCEPT !.error = "extraction"]
  ELSE a

AccountDirectory(a, path, explicit) ==
  IF a.error # "none" THEN a
  ELSE IF path \notin DOMAIN a.table THEN Counted(a, path, "dir", explicit)
  ELSE IF a.table[path].kind # "dir" \/ (explicit /\ a.table[path].explicit)
  THEN [a EXCEPT !.error = "extraction"]
  ELSE [a EXCEPT !.table[path].explicit = @ \/ explicit]

AccountFile(a, path) ==
  IF a.error # "none" THEN a
  ELSE IF path \in DOMAIN a.table THEN [a EXCEPT !.error = "extraction"]
  ELSE Counted(a, path, "file", TRUE)

\* From the top down.
AccountAbove(a, path) ==
  LET above[n \in 0 .. Len(path)] ==
        IF n <= 1 THEN a ELSE AccountDirectory(above[n - 1], SubSeq(path, 1, n - 1), FALSE)
  IN  above[Len(path)]

\* The directories above an entry come into being with it.
Account(a, path, kind) ==
  IF kind = "file" THEN AccountFile(AccountAbove(a, path), path)
  ELSE AccountDirectory(AccountAbove(a, path), path, TRUE)

AccountBytes(a, n) ==
  IF a.error # "none" THEN a
  ELSE [a EXCEPT !.stats = CountBytes(@, n), !.error = CheckLimits(CountBytes(a.stats, n))]

Accounts == [table |-> table, stats |-> stats, error |-> "none"]

-----------------------------------------------------------------------------
(* The source directory.                                                   *)

Directory == [kind |-> "dir", size |-> 0, content |-> "none"]

Empty == [p \in {} |-> Directory]

\* Directories on the way are made as needed; a file in their place is not.
DirectoriesFit(paths) == \A p \in paths \cap DOMAIN disk : disk[p].kind = "dir"

Made(paths) == [p \in DOMAIN disk \cup paths |-> IF p \in DOMAIN disk THEN disk[p] ELSE Directory]

CanCreateFile(path) == path # <<>> /\ path \notin DOMAIN disk /\ DirectoriesFit(Parents(path))

WithFile(path, size, content) ==
  [p \in DOMAIN disk \cup Parents(path) \cup {path} |->
     IF p = path THEN [kind |-> "file", size |-> size, content |-> content]
     ELSE Made(Parents(path))[p]]

BytesOnDisk == SumFunction([p \in DOMAIN disk |-> disk[p].size])

\* The deadline of the acquisition is looked at between any two steps.
Expires == step \notin Errors \cup {"done", "idle"} /\ Fails("deadline")
=============================================================================
