----------------------------- MODULE CacheStore -----------------------------
(* The on-disk package cache shared by cooperating chainsec processes          *)
(* (src/src/fetcher/cache).  A fetcher keeps a shared lock on the lifecycle     *)
(* file for its whole life; an acquisition looks an entry up under the shared   *)
(* lock of its identity, quarantines what it rejects under the exclusive one,   *)
(* downloads, copies into a staging directory, and renames that directory into  *)
(* place under the exclusive lock.  `cache purge` takes the lifecycle lock      *)
(* exclusively and removes entry lock files and every child of the root.        *)
(*                                                                              *)
(* One action is one system call, or one call with the deadline check that      *)
(* precedes it; the expiry of a deadline, a crash and an I/O fault are actions  *)
(* of their own.  flock belongs to the open file description, so who holds a    *)
(* lock is read off the control state: the process that is past its lock call   *)
(* and not yet at its unlock holds the inode its descriptor names, and a crash  *)
(* releases it.                                                                 *)
EXTENDS Naturals, FiniteSets

CONSTANTS
  Fetchers,       \* fetcher processes (or concurrent acquisitions of one process)
  Purgers,        \* `cache purge` processes
  Keys,           \* acquisition identities
  Slots,          \* unused names that create_unique_child_dir may draw
  Inodes,         \* inodes of lock files
  Versions,       \* CARGO_PKG_VERSION values of the processes
  VersionOf,      \* the version a fetcher runs
  SmallLimit,     \* fetchers whose max_archive_size is below the artifact's size
  InitialEntries, \* what may lie at an entry path before anything runs
  Ops,            \* bound: how many starts and acquisitions a process begins
  IoFaults,       \* whether system calls may fail
  Lifecycle,      \* the name of the lifecycle lock file
  None

Procs == Fetchers \cup Purgers
LockNames == Keys \cup {Lifecycle}

\* What a name under the cache root or an identity path refers to.  A member of
\* Versions is a directory with payload and completion marker of that version.
Broken == {"damaged", "file"}
Objects == {"none", "empty", "partial"} \cup Broken \cup Versions

SharedSection == {"read-s"}
PublishSection ==
  {"read-p", "pub", "aside-p", "move-p", "in-p", "undo-p", "sealed"}
ExclusiveSection == {"read-x", "aside-x", "move-x"} \cup PublishSection
HasEntryFile == SharedSection \cup ExclusiveSection \cup {"wait-s", "wait-x", "wait-p"}
Acquiring ==
  HasEntryFile \cup {"open-s", "open-x", "open-p", "fetch", "stage", "copy", "mark", "clean"}
PurgeSection == {"locks", "root"}
\* From here to there the staging, the quarantine directory is the acquisition's.
OwnsStaging ==
  {"copy", "mark", "open-p", "wait-p", "clean"} \cup (PublishSection \ {"sealed"})
OwnsQuarantine == {"move-x", "move-p", "in-p", "undo-p"}
FetcherStates == {"down", "life", "idle"} \cup Acquiring
PurgerStates == {"down", "life"} \cup PurgeSection

ASSUME CacheAssumption ==
  /\ Fetchers \cap Purgers = {}
  /\ VersionOf \in [Fetchers -> Versions]
  /\ SmallLimit \subseteq Fetchers
  /\ Versions \cap ({"none", "empty", "partial"} \cup Broken) = {}
  /\ InitialEntries \subseteq {"none"} \cup Broken \cup Versions
  /\ Ops \in [Procs -> Nat]
  /\ IoFaults \in BOOLEAN
  /\ Lifecycle \notin Keys
  /\ None \notin Inodes \cup Slots \cup Keys \cup Versions \cup {"unusable"}
  /\ "unusable" \notin Versions

VARIABLES
  pc,        \* control state of every process
  left,      \* operations a process may still begin (bound)
  key,       \* identity the fetcher acquires
  expired,   \* the acquisition's deadline has passed
  outcome,   \* how the fetcher's last acquisition ended
  life,      \* inode behind the process's open lifecycle descriptor
  fd,        \* inode behind the fetcher's open entry-lock descriptor
  lockFile,  \* <cache>.locks: inode each lock name is linked to
  entry,     \* object at <cache>/<ecosystem>/<identity>
  root,      \* objects under staging and quarantine names of the cache root
  stg,       \* the acquisition's staging name
  qtn        \* the acquisition's quarantine name

procVars == <<pc, left, key, expired, outcome, stg, qtn>>
lockVars == <<life, fd, lockFile>>
diskVars == <<entry, root>>
vars == <<procVars, lockVars, diskVars>>

Init ==
  /\ pc = [p \in Procs |-> "down"]
  /\ left = Ops
  /\ key = [f \in Fetchers |-> None]
  /\ expired = [f \in Fetchers |-> FALSE]
  /\ outcome = [f \in Fetchers |-> "none"]
  /\ life = [p \in Procs |-> None]
  /\ fd = [f \in Fetchers |-> None]
  /\ lockFile = [n \in LockNames |-> None]
  /\ entry \in [Keys -> InitialEntries]
  /\ root = [s \in Slots |-> "none"]
  /\ stg = [f \in Fetchers |-> None]
  /\ qtn = [f \in Fetchers |-> None]

-----------------------------------------------------------------------------
(* Lock files and flock.                                                       *)

Live(f) == pc[f] \notin {"down", "life"}

\* Mutation: a reader takes no lock that a publisher would see.
HoldsSharedNever(f, i) == FALSE
HoldsShared(f, i) == pc[f] \in SharedSection /\ fd[f] = i
HoldsExclusive(f, i) == pc[f] \in ExclusiveSection /\ fd[f] = i
\* Mutation: the lifecycle lock outlives the fetcher that acquired something.
HoldsLifeSharedLeaked(f, i) == (Live(f) /\ life[f] = i) \/ outcome[f] # "none"
HoldsLifeShared(f, i) == Live(f) /\ life[f] = i
HoldsLifeExclusive(p, i) == pc[p] \in PurgeSection /\ life[p] = i

Linked == {lockFile[n] : n \in LockNames}
Opened == {life[p] : p \in Procs} \cup {fd[f] : f \in Fetchers}

\* open(O_CREAT): the linked inode, or a fresh one that becomes linked.  Free
\* inodes are interchangeable, so the model takes a fixed one.
FreeInode(i) == i = CHOOSE j \in Inodes : j \notin Linked \cup Opened
OpenOrCreate(n, i) ==
  /\ i \in Inodes
  /\ IF lockFile[n] # None THEN i = lockFile[n]
                           ELSE i \notin Linked \cup Opened /\ FreeInode(i)
  /\ lockFile' = [lockFile EXCEPT ![n] = i]

\* mkdir of a random name until the name is unused; unused names are alike too.
UniqueName(s) ==
  /\ s \in Slots
  /\ root[s] = "none"
  /\ s = CHOOSE t \in Slots : root[t] = "none"

-----------------------------------------------------------------------------
(* Validation: restore_cached_entry rebuilds the entry in a workspace.  The    *)
(* marker must carry the fetcher's own version, and an artifact above the      *)
(* fetcher's max_archive_size counts as an invalid entry.                      *)

Accepts(f, object) == object = VersionOf[f] /\ f \notin SmallLimit
\* Mutation: the marker's version is not compared.
RestoredAnyVersion(f) ==
  CASE entry[key[f]] = "none"         -> "miss"
    [] entry[key[f]] \in Versions     -> "hit"
    [] OTHER                          -> "invalid"
Restored(f) ==
  CASE entry[key[f]] = "none"         -> "miss"
    [] Accepts(f, entry[key[f]])      -> "hit"
    [] OTHER                          -> "invalid"

\* renameat: a directory may replace nothing or an empty directory; a regular
\* file or a symlink may not replace a directory.
CanRename(object, target) ==
  IF object = "file" THEN target = "none" ELSE target \in {"none", "empty"}

-----------------------------------------------------------------------------
(* Process life: prepare_cache opens the lifecycle file and blocks in          *)
(* lock_shared without a deadline; dropping the fetcher closes it.              *)

OpenLifecycle(p) ==
  /\ pc[p] = "down"
  /\ left[p] > 0
  /\ \E i \in Inodes :
       /\ OpenOrCreate(Lifecycle, i)
       /\ life' = [life EXCEPT ![p] = i]
  /\ pc' = [pc EXCEPT ![p] = "life"]
  /\ left' = [left EXCEPT ![p] = @ - 1]
  /\ UNCHANGED <<key, expired, outcome, stg, qtn, fd, diskVars>>

\* Mutation: a start gives way to a purge that waits, maybe for a peer that hangs.
LockLifeSharedLast(f) ==
  /\ pc[f] = "life"
  /\ \A p \in Purgers : pc[p] = "down"
  /\ pc' = [pc EXCEPT ![f] = "idle"]
  /\ UNCHANGED <<left, key, expired, outcome, stg, qtn, lockVars, diskVars>>

LockLifeShared(f) ==
  /\ pc[f] = "life"
  /\ \A p \in Purgers : ~HoldsLifeExclusive(p, life[f])
  /\ pc' = [pc EXCEPT ![f] = "idle"]
  /\ UNCHANGED <<left, key, expired, outcome, stg, qtn, lockVars, diskVars>>

DropFetcher(f) ==
  /\ pc[f] = "idle"
  /\ pc' = [pc EXCEPT ![f] = "down"]
  /\ life' = [life EXCEPT ![f] = None]
  /\ UNCHANGED <<left, key, expired, outcome, stg, qtn, fd, lockFile, diskVars>>

\* A crash closes every descriptor and leaves the disk as it is.
Crash(f) ==
  /\ pc[f] # "down"
  /\ pc' = [pc EXCEPT ![f] = "down"]
  /\ life' = [life EXCEPT ![f] = None]
  /\ fd' = [fd EXCEPT ![f] = None]
  /\ UNCHANGED <<left, key, expired, outcome, stg, qtn, lockFile, diskVars>>

-----------------------------------------------------------------------------
(* An acquisition.                                                             *)

\* Control moves on inside the acquisition.
Goto(f, to) ==
  /\ pc' = [pc EXCEPT ![f] = to]
  /\ UNCHANGED <<left, key, expired, outcome>>

\* The acquisition ends: locks and descriptors of its own are dropped.
Finish(f, how) ==
  /\ pc' = [pc EXCEPT ![f] = "idle"]
  /\ outcome' = [outcome EXCEPT ![f] = how]
  /\ fd' = [fd EXCEPT ![f] = None]
  /\ UNCHANGED <<left, key, expired, stg, qtn, life, lockFile>>

Acquire(f, k) ==
  /\ pc[f] = "idle"
  /\ left[f] > 0
  /\ pc' = [pc EXCEPT ![f] = "open-s"]
  /\ left' = [left EXCEPT ![f] = @ - 1]
  /\ key' = [key EXCEPT ![f] = k]
  /\ expired' = [expired EXCEPT ![f] = FALSE]
  /\ outcome' = [outcome EXCEPT ![f] = "none"]
  /\ stg' = [stg EXCEPT ![f] = None]
  /\ qtn' = [qtn EXCEPT ![f] = None]
  /\ UNCHANGED <<lockVars, diskVars>>

Expire(f) ==
  /\ pc[f] \in Acquiring
  /\ ~expired[f]
  /\ expired' = [expired EXCEPT ![f] = TRUE]
  /\ UNCHANGED <<pc, left, key, outcome, stg, qtn, lockVars, diskVars>>

OpenEntryLock(f, from, to) ==
  /\ pc[f] = from
  /\ \E i \in Inodes :
       /\ OpenOrCreate(key[f], i)
       /\ fd' = [fd EXCEPT ![f] = i]
  /\ Goto(f, to)
  /\ UNCHANGED <<stg, qtn, life, diskVars>>

TryLockShared(f) ==
  /\ pc[f] = "wait-s"
  /\ ~expired[f]
  /\ \A g \in Fetchers : ~HoldsExclusive(g, fd[f])
  /\ Goto(f, "read-s")
  /\ UNCHANGED <<stg, qtn, lockVars, diskVars>>

TryLockExclusive(f, from, to) ==
  /\ pc[f] = from
  /\ ~expired[f]
  /\ \A g \in Fetchers : ~HoldsShared(g, fd[f]) /\ ~HoldsExclusive(g, fd[f])
  /\ Goto(f, to)
  /\ UNCHANGED <<stg, qtn, lockVars, diskVars>>

-----------------------------------------------------------------------------
(* cached_before: look up under the shared lock; validate again under the      *)
(* exclusive one before quarantining.                                          *)

LookupHit(f) ==
  /\ pc[f] \in {"read-s", "read-x"}
  /\ ~expired[f]
  /\ Restored(f) = "hit"
  /\ Finish(f, "hit")
  /\ UNCHANGED diskVars

LookupMiss(f) ==
  /\ pc[f] \in {"read-s", "read-x"}
  /\ ~expired[f]
  /\ Restored(f) = "miss"
  /\ Goto(f, "fetch")
  /\ fd' = [fd EXCEPT ![f] = None]
  /\ UNCHANGED <<stg, qtn, life, lockFile, diskVars>>

LookupInvalidShared(f) ==
  /\ pc[f] = "read-s"
  /\ ~expired[f]
  /\ Restored(f) = "invalid"
  /\ Goto(f, "open-x")
  /\ fd' = [fd EXCEPT ![f] = None]
  /\ UNCHANGED <<stg, qtn, life, lockFile, diskVars>>

\* Mutation: trusts the verdict reached under the shared lock.
RejectedUnchecked(f) == TRUE
\* The verdict on which an entry is moved aside.
Rejected(f) == Restored(f) = "invalid"

LookupInvalidExclusive(f) ==
  /\ pc[f] = "read-x"
  /\ ~expired[f]
  /\ Rejected(f)
  /\ Goto(f, "aside-x")
  /\ UNCHANGED <<stg, qtn, lockVars, diskVars>>

\* create_cache_staging_directory("invalid-cache-entry"); the lookup checks its
\* deadline before it, the publication after it.
MakeQuarantine(f, from, to) ==
  /\ pc[f] = from
  /\ from = "aside-x" => ~expired[f]
  /\ \E s \in Slots :
       /\ UniqueName(s)
       /\ root' = [root EXCEPT ![s] = "empty"]
       /\ qtn' = [qtn EXCEPT ![f] = s]
  /\ Goto(f, to)
  /\ UNCHANGED <<stg, lockVars, entry>>

\* Rename the entry onto the quarantine directory.
MoveAside(f) ==
  /\ CanRename(entry[key[f]], root[qtn[f]])
  /\ root' = [root EXCEPT ![qtn[f]] = entry[key[f]]]
  /\ entry' = [entry EXCEPT ![key[f]] = "none"]

QuarantineLookup(f) ==
  /\ pc[f] = "move-x"
  /\ MoveAside(f)
  /\ Goto(f, "fetch")
  /\ fd' = [fd EXCEPT ![f] = None]
  /\ UNCHANGED <<stg, qtn, life, lockFile>>

\* The rename of a regular file onto the quarantine directory fails.
QuarantineRefused(f) ==
  /\ pc[f] = "move-x"
  /\ ~CanRename(entry[key[f]], root[qtn[f]])
  /\ Finish(f, "error")
  /\ UNCHANGED diskVars

-----------------------------------------------------------------------------
(* The download, and publish_with_effective_source_url.                        *)

\* An artifact above max_archive_size is refused while it is downloaded.
Download(f) ==
  /\ pc[f] = "fetch"
  /\ ~expired[f]
  /\ f \notin SmallLimit
  /\ Goto(f, "stage")
  /\ UNCHANGED <<stg, qtn, lockVars, diskVars>>

DownloadFails(f) ==
  /\ pc[f] = "fetch"
  /\ Finish(f, "error")
  /\ UNCHANGED diskVars

MakeStaging(f) ==
  /\ pc[f] = "stage"
  /\ ~expired[f]
  /\ \E s \in Slots :
       /\ UniqueName(s)
       /\ root' = [root EXCEPT ![s] = "empty"]
       /\ stg' = [stg EXCEPT ![f] = s]
  /\ Goto(f, "copy")
  /\ UNCHANGED <<qtn, lockVars, entry>>

CopyPayload(f) ==
  /\ pc[f] = "copy"
  /\ ~expired[f]
  /\ root' = [root EXCEPT ![stg[f]] = "partial"]
  /\ Goto(f, "mark")
  /\ UNCHANGED <<stg, qtn, lockVars, entry>>

\* Mutation: the marker is forgotten, the staging directory stays partial.
MarkedNever(f) == "partial"
\* What the staging directory is once its completion marker is written.
Marked(f) == VersionOf[f]

WriteMarker(f) ==
  /\ pc[f] = "mark"
  /\ ~expired[f]
  /\ root' = [root EXCEPT ![stg[f]] = Marked(f)]
  /\ Goto(f, "open-p")
  /\ UNCHANGED <<stg, qtn, lockVars, entry>>

\* A valid winner is kept; the staging directory is left where it is.
KeepWinner(f) ==
  /\ pc[f] = "read-p"
  /\ ~expired[f]
  /\ Restored(f) = "hit"
  /\ Finish(f, "kept")
  /\ UNCHANGED diskVars

PublishReadMiss(f) ==
  /\ pc[f] = "read-p"
  /\ ~expired[f]
  /\ Restored(f) = "miss"
  /\ Goto(f, "pub")
  /\ UNCHANGED <<stg, qtn, lockVars, diskVars>>

PublishReadInvalid(f) ==
  /\ pc[f] = "read-p"
  /\ ~expired[f]
  /\ Rejected(f)
  /\ Goto(f, "aside-p")
  /\ UNCHANGED <<stg, qtn, lockVars, diskVars>>

\* A regular file at the identity path never gets past the lookup, so that this
\* rename fails only by a fault.
QuarantinePublish(f) ==
  /\ pc[f] = "move-p"
  /\ ~expired[f]
  /\ MoveAside(f)
  /\ Goto(f, "in-p")
  /\ UNCHANGED <<stg, qtn, lockVars>>

\* Rename the staging directory to the identity path.
RenameIn(f) ==
  /\ pc[f] \in {"pub", "in-p"}
  /\ ~expired[f]
  /\ CanRename(root[stg[f]], entry[key[f]])
  /\ entry' = [entry EXCEPT ![key[f]] = root[stg[f]]]
  /\ root' = [root EXCEPT ![stg[f]] = "none"]
  /\ Goto(f, "sealed")
  /\ UNCHANGED <<stg, qtn, lockVars>>

Published(f) ==
  /\ pc[f] = "sealed"
  /\ ~expired[f]
  /\ Finish(f, "published")
  /\ UNCHANGED diskVars

\* The rename-in failed or the deadline passed first: put the old entry back.
\* A failure of this rename is ignored.  The error then ends the publication.
RollBack(f) ==
  /\ pc[f] = "undo-p"
  /\ \/ /\ CanRename(root[qtn[f]], entry[key[f]])
        /\ entry' = [entry EXCEPT ![key[f]] = root[qtn[f]]]
        /\ root' = [root EXCEPT ![qtn[f]] = "none"]
     \/ /\ IoFaults
        /\ UNCHANGED diskVars
  /\ Goto(f, "clean")
  /\ fd' = [fd EXCEPT ![f] = None]
  /\ UNCHANGED <<stg, qtn, life, lockFile>>

\* Error cleanup, skipped once the deadline has passed.
CleanStaging(f) ==
  /\ pc[f] = "clean"
  /\ root' = IF expired[f] THEN root ELSE [root EXCEPT ![stg[f]] = "none"]
  /\ Finish(f, "error")
  /\ UNCHANGED entry

-----------------------------------------------------------------------------
(* Deadlines and faults.                                                       *)

\* Mutation: lock polling loops without a deadline.
StopPointsNotPolling == {"read-s", "read-x", "aside-x", "fetch", "stage", "copy", "mark",
                         "read-p", "pub", "move-p", "sealed"}
\* Where a deadline check precedes the next system call.
StopPoints == {"wait-s", "read-s", "wait-x", "read-x", "aside-x", "fetch", "stage",
               "copy", "mark", "wait-p", "read-p", "pub", "move-p", "sealed"}

\* A deadline check fails: the error leaves the acquisition, and the staging
\* directory stays because the cleanup checks the same deadline.
StopAtDeadline(f) ==
  /\ expired[f]
  /\ pc[f] \in StopPoints
  /\ Finish(f, "error")
  /\ UNCHANGED diskVars

StopBeforeRenameIn(f) ==
  /\ expired[f]
  /\ pc[f] = "in-p"
  /\ Goto(f, "undo-p")
  /\ UNCHANGED <<stg, qtn, lockVars, diskVars>>

\* A system call of the lookup fails, or the fatal branch of the restoration.
LookupFault(f) ==
  /\ IoFaults
  /\ pc[f] \in {"open-s", "wait-s", "read-s", "open-x", "wait-x", "read-x",
                "aside-x", "move-x", "stage"}
  /\ Finish(f, "error")
  /\ UNCHANGED diskVars

\* A system call of the publication fails; its closure returns and drops the lock.
PublishFault(f) ==
  /\ IoFaults
  /\ pc[f] \in {"copy", "mark", "open-p", "wait-p", "read-p", "pub", "aside-p", "move-p"}
  /\ Goto(f, "clean")
  /\ fd' = [fd EXCEPT ![f] = None]
  /\ UNCHANGED <<stg, qtn, life, lockFile, diskVars>>

RenameInFault(f) ==
  /\ IoFaults
  /\ pc[f] = "in-p"
  /\ Goto(f, "undo-p")
  /\ UNCHANGED <<stg, qtn, lockVars, diskVars>>

-----------------------------------------------------------------------------
(* purge_cache.                                                                *)

\* Mutation: the purge does not wait for live fetchers.
PurgeAllowedAlways(p) == \A q \in Purgers : ~HoldsLifeExclusive(q, life[p])
\* flock(LOCK_EX) on the lifecycle file.
PurgeAllowed(p) ==
  /\ \A f \in Fetchers : ~HoldsLifeShared(f, life[p])
  /\ \A q \in Purgers : ~HoldsLifeExclusive(q, life[p])

LockLifeExclusive(p) ==
  /\ pc[p] = "life"
  /\ PurgeAllowed(p)
  /\ pc' = [pc EXCEPT ![p] = "locks"]
  /\ UNCHANGED <<left, key, expired, outcome, stg, qtn, lockVars, diskVars>>

\* Mutation: the lifecycle lock file is removed with the others.
StaleLockNamesAll == LockNames
\* is_entry_lock_name: <64 hex digits>.lock, and never lifecycle.lock.
StaleLockNames == Keys

UnlinkEntryLock(p, n) ==
  /\ pc[p] = "locks"
  /\ n \in StaleLockNames
  /\ lockFile[n] # None
  /\ lockFile' = [lockFile EXCEPT ![n] = None]
  /\ UNCHANGED <<procVars, life, fd, diskVars>>

LockFilesGone(p) ==
  /\ pc[p] = "locks"
  /\ \A n \in StaleLockNames : lockFile[n] = None
  /\ pc' = [pc EXCEPT ![p] = "root"]
  /\ UNCHANGED <<left, key, expired, outcome, stg, qtn, lockVars, diskVars>>

RemoveSlot(p, s) ==
  /\ pc[p] = "root"
  /\ root[s] # "none"
  /\ root' = [root EXCEPT ![s] = "none"]
  /\ UNCHANGED <<procVars, lockVars, entry>>

\* Removal is recursive and not atomic: an entry loses files before its name.
RemoveEntry(p, k) ==
  /\ pc[p] = "root"
  /\ entry[k] # "none"
  /\ \E rest \in {"damaged", "none"} :
       /\ rest # entry[k]
       /\ entry' = [entry EXCEPT ![k] = rest]
  /\ UNCHANGED <<procVars, lockVars, root>>

PurgeDone(p) ==
  /\ pc[p] = "root"
  /\ \A k \in Keys : entry[k] = "none"
  /\ \A s \in Slots : root[s] = "none"
  /\ pc' = [pc EXCEPT ![p] = "down"]
  /\ life' = [life EXCEPT ![p] = None]
  /\ UNCHANGED <<left, key, expired, outcome, stg, qtn, fd, lockFile, diskVars>>

\* A failed removal or a crash ends the purge where it stands.
PurgeStops(p) ==
  /\ IoFaults
  /\ pc[p] # "down"
  /\ pc' = [pc EXCEPT ![p] = "down"]
  /\ life' = [life EXCEPT ![p] = None]
  /\ UNCHANGED <<left, key, expired, outcome, stg, qtn, fd, lockFile, diskVars>>

-----------------------------------------------------------------------------

\* Steps the scheduler owes a fetcher; what it may choose not to do is below.
FetcherStep(f) ==
  \/ LockLifeShared(f)
  \/ DropFetcher(f)
  \/ OpenEntryLock(f, "open-s", "wait-s")
  \/ OpenEntryLock(f, "open-x", "wait-x")
  \/ OpenEntryLock(f, "open-p", "wait-p")
  \/ TryLockShared(f)
  \/ TryLockExclusive(f, "wait-x", "read-x")
  \/ TryLockExclusive(f, "wait-p", "read-p")
  \/ LookupHit(f)
  \/ LookupMiss(f)
  \/ LookupInvalidShared(f)
  \/ LookupInvalidExclusive(f)
  \/ MakeQuarantine(f, "aside-x", "move-x")
  \/ QuarantineLookup(f)
  \/ QuarantineRefused(f)
  \/ Download(f)
  \/ MakeStaging(f)
  \/ CopyPayload(f)
  \/ WriteMarker(f)
  \/ KeepWinner(f)
  \/ PublishReadMiss(f)
  \/ PublishReadInvalid(f)
  \/ MakeQuarantine(f, "aside-p", "move-p")
  \/ QuarantinePublish(f)
  \/ RenameIn(f)
  \/ Published(f)
  \/ RollBack(f)
  \/ CleanStaging(f)
  \/ StopAtDeadline(f)
  \/ StopBeforeRenameIn(f)

Environment(f) ==
  \/ OpenLifecycle(f)
  \/ \E k \in Keys : Acquire(f, k)
  \/ Expire(f)
  \/ Crash(f)
  \/ DownloadFails(f)
  \/ LookupFault(f)
  \/ PublishFault(f)
  \/ RenameInFault(f)

PurgeStep(p) ==
  \/ LockLifeExclusive(p)
  \/ \E n \in LockNames : UnlinkEntryLock(p, n)
  \/ LockFilesGone(p)
  \/ \E s \in Slots : RemoveSlot(p, s)
  \/ \E k \in Keys : RemoveEntry(p, k)
  \/ PurgeDone(p)

Next ==
  \/ \E f \in Fetchers : FetcherStep(f) \/ Environment(f)
  \/ \E p \in Purgers : OpenLifecycle(p) \/ PurgeStep(p) \/ PurgeStops(p)

Spec == Init /\ [][Next]_vars

\* Time passes, and every process but the hung ones is scheduled.  The lifecycle
\* lock needs more: it is free and taken again while a process waits for it, and
\* the kernel, which wakes every waiter of a flock that is released, grants it at
\* last to one that finds it free time and again.
Fairness(Hung) ==
  /\ \A f \in Fetchers \ Hung :
       /\ WF_vars(FetcherStep(f))
       /\ WF_vars(Expire(f))
       /\ SF_vars(LockLifeShared(f))
  /\ \A p \in Purgers : WF_vars(PurgeStep(p)) /\ SF_vars(LockLifeExclusive(p))

-----------------------------------------------------------------------------
(* Properties.                                                                 *)

TypeOK ==
  /\ pc \in [Procs -> FetcherStates \cup PurgerStates]
  /\ \A f \in Fetchers : pc[f] \in FetcherStates
  /\ \A p \in Purgers : pc[p] \in PurgerStates
  /\ left \in [Procs -> Nat]
  /\ key \in [Fetchers -> Keys \cup {None}]
  /\ \A f \in Fetchers : pc[f] \in Acquiring => key[f] \in Keys
  /\ expired \in [Fetchers -> BOOLEAN]
  /\ outcome \in [Fetchers -> {"none", "hit", "kept", "published", "error"}]
  /\ life \in [Procs -> Inodes \cup {None}]
  /\ fd \in [Fetchers -> Inodes \cup {None}]
  /\ lockFile \in [LockNames -> Inodes \cup {None}]
  /\ entry \in [Keys -> Objects]
  /\ root \in [Slots -> Objects]
  /\ stg \in [Fetchers -> Slots \cup {None}]
  /\ qtn \in [Fetchers -> Slots \cup {None}]
  /\ \A f \in Fetchers : pc[f] \in OwnsStaging => stg[f] \in Slots
  /\ \A f \in Fetchers : pc[f] \in OwnsQuarantine => qtn[f] \in Slots

\* The exclusive section of an identity excludes every other section of it, by
\* identity and not by inode: lock files are unlinked by purges and recreated.
EntryExclusion ==
  \A f, g \in Fetchers :
    /\ f # g
    /\ pc[f] \in ExclusiveSection
    /\ pc[g] \in ExclusiveSection \cup SharedSection
    => key[f] # key[g]

\* What lies at an identity path is never a directory under construction, across
\* crashes, rollbacks, error cleanup and interrupted purges.
NeverHalfPublished ==
  \A k \in Keys : entry[k] \notin {"partial", "empty"}

\* Under a publisher's hands its staging directory stays what the publisher made
\* it: no purge, cleanup or quarantine of another process reaches it.
StagingIntact ==
  \A f \in Fetchers :
    /\ pc[f] = "copy" => root[stg[f]] = "empty"
    /\ pc[f] = "mark" => root[stg[f]] = "partial"
    /\ pc[f] \in {"open-p", "wait-p"} \cup (PublishSection \ {"sealed"})
         => root[stg[f]] = VersionOf[f]

\* A complete entry leaves its path only under the exclusive lock of a live
\* fetcher that does not accept it, or when no fetcher is live at all: the window
\* between the shared and the exclusive lock loses no entry another process put
\* there in the meantime.
Displacement ==
  \A k \in Keys :
     entry[k] \in Versions /\ entry'[k] # entry[k] =>
       \/ \A f \in Fetchers : ~Live(f)
       \/ \E f \in Fetchers :
            /\ pc[f] \in ExclusiveSection
            /\ key[f] = k
            /\ ~Accepts(f, entry[k])
DisplacedOnlyIfRejected == [][Displacement]_vars

\* The restoration reads an entry with many system calls.  While it does, nobody
\* changes what the identity path refers to.
ReadStep ==
  \A f \in Fetchers :
     /\ pc[f] \in {"read-s", "read-x", "read-p"}
     /\ pc'[f] = pc[f]
     => entry'[key[f]] = entry[key[f]]
ReadStable == [][ReadStep]_vars

\* An acquisition that ends well leaves behind an entry its own version accepts,
\* whoever published it.
SuccessStep ==
  \A f \in Fetchers :
     /\ pc[f] \in Acquiring
     /\ pc'[f] = "idle"
     /\ outcome'[f] \in {"hit", "kept", "published"}
     => Accepts(f, entry'[key[f]])
SuccessLeavesUsableEntry == [][SuccessStep]_vars

\* The cache implements its promise.
Shown(object) ==
  IF object = "none" THEN None
  ELSE IF object \in Versions THEN object ELSE "unusable"
ShownAside(f) ==
  IF pc[f] \in {"in-p", "undo-p"} THEN Shown(root[qtn[f]]) ELSE None
Promise == INSTANCE CachePromise WITH
  Accepted <- Accepts,
  store <- [k \in Keys |-> Shown(entry[k])],
  live <- {f \in Fetchers : Live(f)},
  aside <- [f \in Fetchers |-> ShownAside(f)]
ImplementsPromise == Promise!PSpec

=============================================================================
