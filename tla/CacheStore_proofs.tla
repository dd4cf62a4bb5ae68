-------------------------- MODULE CacheStore_proofs --------------------------
(* Proofs about the cache protocol of CacheStore, for every set of processes,  *)
(* identities, names and inodes.  The inductive invariant adds to the           *)
(* properties of CacheStore what makes the locks work: every open lifecycle     *)
(* descriptor names the linked lifecycle file, a purge runs only when nobody    *)
(* else holds the cache, hence every entry-lock descriptor in use names the     *)
(* linked lock file of its identity; and what a process has just verified under *)
(* its exclusive lock stays true until it acts on it.                           *)
EXTENDS CacheStore, TLAPS

-----------------------------------------------------------------------------
(* Type correctness.                                                           *)

\* The cache begins well-typed, with nobody running.
LEMMA TypeInit == Init => TypeOK
<1> SUFFICES ASSUME Init PROVE TypeOK
    OBVIOUS
<1> QED
    BY CacheAssumption DEF Init, TypeOK, Procs, LockNames, Objects, Broken,
       FetcherStates, PurgerStates, Acquiring, HasEntryFile, SharedSection, ExclusiveSection,
       PublishSection, PurgeSection, OwnsStaging, OwnsQuarantine

\* No call of a process, and no crash, breaks the types.
LEMMA TypeStep == TypeOK /\ [Next]_vars => TypeOK'
<1> SUFFICES ASSUME TypeOK, [Next]_vars PROVE TypeOK'
    OBVIOUS
<1> USE CacheAssumption DEF TypeOK, Procs, LockNames, OwnsStaging, OwnsQuarantine,
        FetcherStates, PurgerStates, Acquiring, HasEntryFile, SharedSection, ExclusiveSection,
        PublishSection, PurgeSection, procVars, lockVars, diskVars
<1>1. CASE UNCHANGED vars
    BY <1>1 DEF vars
<1>2. ASSUME NEW f \in Fetchers, FetcherStep(f) PROVE TypeOK'
  <2>1. CASE LockLifeShared(f)
    BY <2>1 DEF LockLifeShared
  <2>2. CASE DropFetcher(f)
    BY <2>2 DEF DropFetcher
  <2>3. CASE OpenEntryLock(f, "open-s", "wait-s")
    BY <2>3 DEF OpenEntryLock, OpenOrCreate, Goto
  <2>4. CASE OpenEntryLock(f, "open-x", "wait-x")
    BY <2>4 DEF OpenEntryLock, OpenOrCreate, Goto
  <2>5. CASE OpenEntryLock(f, "open-p", "wait-p")
    BY <2>5 DEF OpenEntryLock, OpenOrCreate, Goto
  <2>6. CASE TryLockShared(f)
    BY <2>6 DEF TryLockShared, Goto
  <2>7. CASE TryLockExclusive(f, "wait-x", "read-x")
    BY <2>7 DEF TryLockExclusive, Goto
  <2>8. CASE TryLockExclusive(f, "wait-p", "read-p")
    BY <2>8 DEF TryLockExclusive, Goto
  <2>9. CASE LookupHit(f)
    BY <2>9 DEF LookupHit, Finish
  <2>10. CASE LookupMiss(f)
    BY <2>10 DEF LookupMiss, Goto
  <2>11. CASE LookupInvalidShared(f)
    BY <2>11 DEF LookupInvalidShared, Goto
  <2>12. CASE LookupInvalidExclusive(f)
    BY <2>12 DEF LookupInvalidExclusive, Goto
  <2>13. CASE MakeQuarantine(f, "aside-x", "move-x")
    BY <2>13 DEF MakeQuarantine, UniqueName, Goto, Objects
  <2>14. CASE QuarantineLookup(f)
    BY <2>14 DEF QuarantineLookup, MoveAside, Goto, Objects
  <2>15. CASE QuarantineRefused(f)
    BY <2>15 DEF QuarantineRefused, Finish
  <2>16. CASE Download(f)
    BY <2>16 DEF Download, Goto
  <2>17. CASE MakeStaging(f)
    BY <2>17 DEF MakeStaging, UniqueName, Goto, Objects
  <2>18. CASE CopyPayload(f)
    BY <2>18 DEF CopyPayload, Goto, Objects
  <2>19. CASE WriteMarker(f)
    BY <2>19 DEF WriteMarker, Marked, Goto, Objects
  <2>20. CASE KeepWinner(f)
    BY <2>20 DEF KeepWinner, Finish
  <2>21. CASE PublishReadMiss(f)
    BY <2>21 DEF PublishReadMiss, Goto
  <2>22. CASE PublishReadInvalid(f)
    BY <2>22 DEF PublishReadInvalid, Goto
  <2>23. CASE MakeQuarantine(f, "aside-p", "move-p")
    BY <2>23 DEF MakeQuarantine, UniqueName, Goto, Objects
  <2>24. CASE QuarantinePublish(f)
    BY <2>24 DEF QuarantinePublish, MoveAside, Goto, Objects
  <2>26. CASE RenameIn(f)
    BY <2>26 DEF RenameIn, Goto, Objects
  <2>27. CASE Published(f)
    BY <2>27 DEF Published, Finish
  <2>28. CASE RollBack(f)
    BY <2>28 DEF RollBack, Goto, Objects
  <2>29. CASE CleanStaging(f)
    BY <2>29 DEF CleanStaging, Finish, Objects
  <2>30. CASE StopAtDeadline(f)
    BY <2>30 DEF StopAtDeadline, StopPoints, Finish
  <2>31. CASE StopBeforeRenameIn(f)
    BY <2>31 DEF StopBeforeRenameIn, Goto
  <2> QED
    BY <1>2, <2>1, <2>2, <2>3, <2>4, <2>5, <2>6, <2>7, <2>8, <2>9, <2>10, <2>11, <2>12, <2>13, <2>14, <2>15, <2>16, <2>17, <2>18, <2>19, <2>20, <2>21, <2>22, <2>23, <2>24, <2>26, <2>27, <2>28, <2>29, <2>30, <2>31 DEF FetcherStep
<1>3. ASSUME NEW f \in Fetchers, Environment(f) PROVE TypeOK'
  <2>1. CASE OpenLifecycle(f)
    BY <2>1 DEF OpenLifecycle, OpenOrCreate
  <2>2. CASE \E k \in Keys : Acquire(f, k)
    BY <2>2 DEF Acquire
  <2>3. CASE Expire(f)
    BY <2>3 DEF Expire
  <2>4. CASE Crash(f)
    BY <2>4 DEF Crash
  <2>5. CASE DownloadFails(f)
    BY <2>5 DEF DownloadFails, Finish
  <2>6. CASE LookupFault(f)
    BY <2>6 DEF LookupFault, Finish
  <2>7. CASE PublishFault(f)
    BY <2>7 DEF PublishFault, Goto
  <2>8. CASE RenameInFault(f)
    BY <2>8 DEF RenameInFault, Goto
  <2> QED
    BY <1>3, <2>1, <2>2, <2>3, <2>4, <2>5, <2>6, <2>7, <2>8 DEF Environment
<1>4. ASSUME NEW p \in Purgers, OpenLifecycle(p) \/ PurgeStep(p) \/ PurgeStops(p) PROVE TypeOK'
  <2>1. CASE OpenLifecycle(p)
    BY <2>1 DEF OpenLifecycle, OpenOrCreate
  <2>2. CASE LockLifeExclusive(p)
    BY <2>2 DEF LockLifeExclusive, PurgeAllowed
  <2>3. CASE \E n \in LockNames : UnlinkEntryLock(p, n)
    BY <2>3 DEF UnlinkEntryLock, StaleLockNames
  <2>4. CASE LockFilesGone(p)
    BY <2>4 DEF LockFilesGone
  <2>5. CASE \E s \in Slots : RemoveSlot(p, s)
    BY <2>5 DEF RemoveSlot, Objects
  <2>6. CASE \E k \in Keys : RemoveEntry(p, k)
    BY <2>6 DEF RemoveEntry, Objects, Broken
  <2>7. CASE PurgeDone(p)
    BY <2>7 DEF PurgeDone
  <2>8. CASE PurgeStops(p)
    BY <2>8 DEF PurgeStops
  <2> QED
    BY <1>4, <2>1, <2>2, <2>3, <2>4, <2>5, <2>6, <2>7, <2>8 DEF PurgeStep
<1> QED
    BY <1>1, <1>2, <1>3, <1>4 DEF Next

\* Every reachable state is well typed: each name and descriptor an operation uses
\* was obtained by that acquisition.
THEOREM TypeCorrect == Spec => []TypeOK
<1> QED
    BY TypeInit, TypeStep, PTL DEF Spec

-----------------------------------------------------------------------------
(* Locks.                                                                      *)

\* An open lifecycle descriptor names the file that is linked now.
LifeBound ==
  \A p \in Procs : pc[p] # "down" =>
    life[p] = lockFile[Lifecycle] /\ lockFile[Lifecycle] # None

\* A purge past its lock call is alone with the cache.
PurgeAlone ==
  \A p \in Purgers : pc[p] \in PurgeSection =>
    /\ \A f \in Fetchers : ~Live(f)
    /\ \A q \in Purgers : pc[q] \in PurgeSection => q = p

\* An entry-lock descriptor names the file that is linked under its identity.
EntryBound ==
  \A f \in Fetchers : pc[f] \in HasEntryFile =>
    fd[f] = lockFile[key[f]] /\ lockFile[key[f]] # None

Locking == LifeBound /\ PurgeAlone /\ EntryBound /\ EntryExclusion

\* In the beginning nobody holds a lock.
LEMMA LockingInit == Init => Locking
<1> SUFFICES ASSUME Init PROVE Locking
    OBVIOUS
<1> QED
    BY CacheAssumption DEF Init, Locking, LifeBound, PurgeAlone, EntryBound, EntryExclusion,
       Procs, HasEntryFile, SharedSection, ExclusiveSection, PublishSection, PurgeSection

\* Locks taken and dropped, and crashes, keep purges alone and entries to one
\* publisher at a time.
LEMMA LockingStep == TypeOK /\ Locking /\ [Next]_vars => Locking'
<1> SUFFICES ASSUME TypeOK, Locking, [Next]_vars PROVE Locking'
    OBVIOUS
<1> USE CacheAssumption DEF TypeOK, Locking, LifeBound, PurgeAlone, EntryBound, EntryExclusion,
        Live, Procs, LockNames,
        FetcherStates, PurgerStates, Acquiring, HasEntryFile, SharedSection, ExclusiveSection,
        PublishSection, PurgeSection, procVars, lockVars, diskVars
<1>1. CASE UNCHANGED vars
    BY <1>1 DEF vars
<1>2. ASSUME NEW f \in Fetchers, FetcherStep(f) PROVE Locking'
  <2>1. CASE LockLifeShared(f)
    BY <2>1 DEF LockLifeShared, HoldsLifeExclusive
  <2>2. CASE DropFetcher(f)
    BY <2>2 DEF DropFetcher
  <2>3. CASE OpenEntryLock(f, "open-s", "wait-s")
    BY <2>3 DEF OpenEntryLock, OpenOrCreate, Goto
  <2>4. CASE OpenEntryLock(f, "open-x", "wait-x")
    BY <2>4 DEF OpenEntryLock, OpenOrCreate, Goto
  <2>5. CASE OpenEntryLock(f, "open-p", "wait-p")
    BY <2>5 DEF OpenEntryLock, OpenOrCreate, Goto
  <2>6. CASE TryLockShared(f)
    BY <2>6 DEF TryLockShared, Goto, HoldsExclusive
  <2>7. CASE TryLockExclusive(f, "wait-x", "read-x")
    BY <2>7 DEF TryLockExclusive, Goto, HoldsShared, HoldsExclusive
  <2>8. CASE TryLockExclusive(f, "wait-p", "read-p")
    BY <2>8 DEF TryLockExclusive, Goto, HoldsShared, HoldsExclusive
  <2>9. CASE LookupHit(f)
    BY <2>9 DEF LookupHit, Finish
  <2>10. CASE LookupMiss(f)
    BY <2>10 DEF LookupMiss, Goto
  <2>11. CASE LookupInvalidShared(f)
    BY <2>11 DEF LookupInvalidShared, Goto
  <2>12. CASE LookupInvalidExclusive(f)
    BY <2>12 DEF LookupInvalidExclusive, Goto
  <2>13. CASE MakeQuarantine(f, "aside-x", "move-x")
    BY <2>13 DEF MakeQuarantine, UniqueName, Goto
  <2>14. CASE QuarantineLookup(f)
    BY <2>14 DEF QuarantineLookup, MoveAside, Goto
  <2>15. CASE QuarantineRefused(f)
    BY <2>15 DEF QuarantineRefused, Finish
  <2>16. CASE Download(f)
    BY <2>16 DEF Download, Goto
  <2>17. CASE MakeStaging(f)
    BY <2>17 DEF MakeStaging, UniqueName, Goto
  <2>18. CASE CopyPayload(f)
    BY <2>18 DEF CopyPayload, Goto
  <2>19. CASE WriteMarker(f)
    BY <2>19 DEF WriteMarker, Marked, Goto
  <2>20. CASE KeepWinner(f)
    BY <2>20 DEF KeepWinner, Finish
  <2>21. CASE PublishReadMiss(f)
    BY <2>21 DEF PublishReadMiss, Goto
  <2>22. CASE PublishReadInvalid(f)
    BY <2>22 DEF PublishReadInvalid, Goto
  <2>23. CASE MakeQuarantine(f, "aside-p", "move-p")
    BY <2>23 DEF MakeQuarantine, UniqueName, Goto
  <2>24. CASE QuarantinePublish(f)
    BY <2>24 DEF QuarantinePublish, MoveAside, Goto
  <2>26. CASE RenameIn(f)
    BY <2>26 DEF RenameIn, Goto
  <2>27. CASE Published(f)
    BY <2>27 DEF Published, Finish
  <2>28. CASE RollBack(f)
    BY <2>28 DEF RollBack, Goto
  <2>29. CASE CleanStaging(f)
    BY <2>29 DEF CleanStaging, Finish
  <2>30. CASE StopAtDeadline(f)
    BY <2>30 DEF StopAtDeadline, StopPoints, Finish
  <2>31. CASE StopBeforeRenameIn(f)
    BY <2>31 DEF StopBeforeRenameIn, Goto
  <2> QED
    BY <1>2, <2>1, <2>2, <2>3, <2>4, <2>5, <2>6, <2>7, <2>8, <2>9, <2>10, <2>11, <2>12, <2>13, <2>14, <2>15, <2>16, <2>17, <2>18, <2>19, <2>20, <2>21, <2>22, <2>23, <2>24, <2>26, <2>27, <2>28, <2>29, <2>30, <2>31 DEF FetcherStep
<1>3. ASSUME NEW f \in Fetchers, Environment(f) PROVE Locking'
  <2>1. CASE OpenLifecycle(f)
    BY <2>1 DEF OpenLifecycle, OpenOrCreate
  <2>2. CASE \E k \in Keys : Acquire(f, k)
    BY <2>2 DEF Acquire
  <2>3. CASE Expire(f)
    BY <2>3 DEF Expire
  <2>4. CASE Crash(f)
    BY <2>4 DEF Crash
  <2>5. CASE DownloadFails(f)
    BY <2>5 DEF DownloadFails, Finish
  <2>6. CASE LookupFault(f)
    BY <2>6 DEF LookupFault, Finish
  <2>7. CASE PublishFault(f)
    BY <2>7 DEF PublishFault, Goto
  <2>8. CASE RenameInFault(f)
    BY <2>8 DEF RenameInFault, Goto
  <2> QED
    BY <1>3, <2>1, <2>2, <2>3, <2>4, <2>5, <2>6, <2>7, <2>8 DEF Environment
<1>4. ASSUME NEW p \in Purgers, OpenLifecycle(p) \/ PurgeStep(p) \/ PurgeStops(p) PROVE Locking'
  <2>1. CASE OpenLifecycle(p)
    BY <2>1 DEF OpenLifecycle, OpenOrCreate
  <2>2. CASE LockLifeExclusive(p)
    BY <2>2 DEF LockLifeExclusive, PurgeAllowed, HoldsLifeShared, HoldsLifeExclusive
  <2>3. CASE \E n \in LockNames : UnlinkEntryLock(p, n)
    BY <2>3 DEF UnlinkEntryLock, StaleLockNames
  <2>4. CASE LockFilesGone(p)
    BY <2>4 DEF LockFilesGone
  <2>5. CASE \E s \in Slots : RemoveSlot(p, s)
    BY <2>5 DEF RemoveSlot
  <2>6. CASE \E k \in Keys : RemoveEntry(p, k)
    BY <2>6 DEF RemoveEntry
  <2>7. CASE PurgeDone(p)
    BY <2>7 DEF PurgeDone
  <2>8. CASE PurgeStops(p)
    BY <2>8 DEF PurgeStops
  <2> QED
    BY <1>4, <2>1, <2>2, <2>3, <2>4, <2>5, <2>6, <2>7, <2>8 DEF PurgeStep
<1> QED
    BY <1>1, <1>2, <1>3, <1>4 DEF Next

\* The lock protocol of an identity is sound although purges unlink its lock file.
THEOREM EntryLocksExclude == Spec => []EntryExclusion
<1>1. Init => TypeOK /\ Locking
    BY TypeInit, LockingInit
<1>2. TypeOK /\ Locking /\ [Next]_vars => (TypeOK /\ Locking)'
    BY TypeStep, LockingStep
<1>3. Locking => EntryExclusion
    BY DEF Locking
<1> QED
    BY <1>1, <1>2, <1>3, PTL DEF Spec

-----------------------------------------------------------------------------
(* What lies on the disk.                                                      *)

\* Names in use belong to one acquisition, and hold what it put there.
Ownership ==
  /\ \A f \in Fetchers :
       /\ pc[f] \in OwnsStaging => root[stg[f]] # "none"
       /\ pc[f] \in {"move-x", "move-p"} => root[qtn[f]] = "empty"
       /\ pc[f] \in {"in-p", "undo-p"} => root[qtn[f]] \in Broken \cup Versions
  /\ \A f, g \in Fetchers :
       /\ pc[f] \in OwnsStaging /\ pc[g] \in OwnsStaging /\ f # g => stg[f] # stg[g]
       /\ pc[f] \in OwnsQuarantine /\ pc[g] \in OwnsQuarantine /\ f # g => qtn[f] # qtn[g]
       /\ pc[f] \in OwnsStaging /\ pc[g] \in OwnsQuarantine => stg[f] # qtn[g]

\* What a fetcher verified under its exclusive lock is still so.
Verdicts ==
  \A f \in Fetchers :
    /\ pc[f] \in {"aside-x", "move-x", "aside-p", "move-p"} =>
         entry[key[f]] # "none" /\ ~Accepts(f, entry[key[f]])
    /\ pc[f] \in {"pub", "in-p", "undo-p"} => entry[key[f]] = "none"
    /\ pc[f] = "sealed" => Accepts(f, entry[key[f]])
    /\ pc[f] \in {"stage"} \cup OwnsStaging \cup PublishSection => f \notin SmallLimit

Disk == Ownership /\ StagingIntact /\ Verdicts /\ NeverHalfPublished

\* In the beginning nothing has been published or staged.
LEMMA DiskInit == Init => Disk
<1> SUFFICES ASSUME Init PROVE Disk
    OBVIOUS
<1> QED
    BY CacheAssumption DEF Init, Disk, Ownership, StagingIntact, Verdicts, NeverHalfPublished,
       Procs, OwnsStaging, OwnsQuarantine, PublishSection, Broken

\* No rename, removal or crash leaves half an entry at an identity path, or
\* touches what a publisher is staging.
LEMMA DiskStep == TypeOK /\ Locking /\ Disk /\ [Next]_vars => Disk'
<1> SUFFICES ASSUME TypeOK, Locking, Disk, [Next]_vars PROVE Disk'
    OBVIOUS
<1> USE CacheAssumption DEF TypeOK, Locking, PurgeAlone, EntryExclusion,
        Disk, Ownership, StagingIntact, Verdicts, NeverHalfPublished,
        Live, Accepts, Procs, OwnsStaging, OwnsQuarantine, Broken,
        Acquiring, HasEntryFile, SharedSection, ExclusiveSection,
        PublishSection, PurgeSection, procVars, lockVars, diskVars
<1>1. CASE UNCHANGED vars
    BY <1>1 DEF vars
<1>2. ASSUME NEW f \in Fetchers, FetcherStep(f) PROVE Disk'
  <2>1. CASE LockLifeShared(f)
    BY <2>1 DEF LockLifeShared
  <2>2. CASE DropFetcher(f)
    BY <2>2 DEF DropFetcher
  <2>3. CASE OpenEntryLock(f, "open-s", "wait-s")
    BY <2>3 DEF OpenEntryLock, OpenOrCreate, Goto
  <2>4. CASE OpenEntryLock(f, "open-x", "wait-x")
    BY <2>4 DEF OpenEntryLock, OpenOrCreate, Goto
  <2>5. CASE OpenEntryLock(f, "open-p", "wait-p")
    BY <2>5 DEF OpenEntryLock, OpenOrCreate, Goto
  <2>6. CASE TryLockShared(f)
    BY <2>6 DEF TryLockShared, Goto
  <2>7. CASE TryLockExclusive(f, "wait-x", "read-x")
    BY <2>7 DEF TryLockExclusive, Goto
  <2>8. CASE TryLockExclusive(f, "wait-p", "read-p")
    BY <2>8 DEF TryLockExclusive, Goto
  <2>9. CASE LookupHit(f)
    BY <2>9 DEF LookupHit, Finish
  <2>10. CASE LookupMiss(f)
    BY <2>10 DEF LookupMiss, Goto
  <2>11. CASE LookupInvalidShared(f)
    BY <2>11 DEF LookupInvalidShared, Goto
  <2>12. CASE LookupInvalidExclusive(f)
    BY <2>12 DEF LookupInvalidExclusive, Goto, Restored, Rejected
  <2>13. CASE MakeQuarantine(f, "aside-x", "move-x")
    BY <2>13, SMTT(60) DEF MakeQuarantine, UniqueName, Goto
  <2>14. CASE QuarantineLookup(f)
    BY <2>14, SMTT(60) DEF QuarantineLookup, MoveAside, Goto, CanRename, Objects
  <2>15. CASE QuarantineRefused(f)
    BY <2>15 DEF QuarantineRefused, Finish
  <2>16. CASE Download(f)
    BY <2>16 DEF Download, Goto
  <2>17. CASE MakeStaging(f)
    BY <2>17, SMTT(60) DEF MakeStaging, UniqueName, Goto
  <2>18. CASE CopyPayload(f)
    BY <2>18, SMTT(60) DEF CopyPayload, Goto
  <2>19. CASE WriteMarker(f)
    BY <2>19, SMTT(60) DEF WriteMarker, Marked, Goto
  <2>20. CASE KeepWinner(f)
    BY <2>20 DEF KeepWinner, Finish
  <2>21. CASE PublishReadMiss(f)
    BY <2>21 DEF PublishReadMiss, Goto, Restored
  <2>22. CASE PublishReadInvalid(f)
    BY <2>22 DEF PublishReadInvalid, Goto, Restored, Rejected
  <2>23. CASE MakeQuarantine(f, "aside-p", "move-p")
    BY <2>23, SMTT(60) DEF MakeQuarantine, UniqueName, Goto
  <2>24. CASE QuarantinePublish(f)
    BY <2>24, SMTT(60) DEF QuarantinePublish, MoveAside, Goto, CanRename, Objects
  <2>26. CASE RenameIn(f)
    BY <2>26, SMTT(60) DEF RenameIn, Goto
  <2>27. CASE Published(f)
    BY <2>27 DEF Published, Finish
  <2>28. CASE RollBack(f)
    BY <2>28, SMTT(60) DEF RollBack, Goto, CanRename, Objects
  <2>29. CASE CleanStaging(f)
    BY <2>29, SMTT(60) DEF CleanStaging, Finish
  <2>30. CASE StopAtDeadline(f)
    BY <2>30 DEF StopAtDeadline, StopPoints, Finish
  <2>31. CASE StopBeforeRenameIn(f)
    BY <2>31 DEF StopBeforeRenameIn, Goto
  <2> QED
    BY <1>2, <2>1, <2>2, <2>3, <2>4, <2>5, <2>6, <2>7, <2>8, <2>9, <2>10, <2>11, <2>12, <2>13, <2>14, <2>15, <2>16, <2>17, <2>18, <2>19, <2>20, <2>21, <2>22, <2>23, <2>24, <2>26, <2>27, <2>28, <2>29, <2>30, <2>31 DEF FetcherStep
<1>3. ASSUME NEW f \in Fetchers, Environment(f) PROVE Disk'
  <2>1. CASE OpenLifecycle(f)
    BY <2>1 DEF OpenLifecycle, OpenOrCreate
  <2>2. CASE \E k \in Keys : Acquire(f, k)
    BY <2>2 DEF Acquire
  <2>3. CASE Expire(f)
    BY <2>3 DEF Expire
  <2>4. CASE Crash(f)
    BY <2>4 DEF Crash
  <2>5. CASE DownloadFails(f)
    BY <2>5 DEF DownloadFails, Finish
  <2>6. CASE LookupFault(f)
    BY <2>6 DEF LookupFault, Finish
  <2>7. CASE PublishFault(f)
    BY <2>7 DEF PublishFault, Goto
  <2>8. CASE RenameInFault(f)
    BY <2>8 DEF RenameInFault, Goto
  <2> QED
    BY <1>3, <2>1, <2>2, <2>3, <2>4, <2>5, <2>6, <2>7, <2>8 DEF Environment
<1>4. ASSUME NEW p \in Purgers, OpenLifecycle(p) \/ PurgeStep(p) \/ PurgeStops(p) PROVE Disk'
  <2>1. CASE OpenLifecycle(p)
    BY <2>1 DEF OpenLifecycle, OpenOrCreate
  <2>2. CASE LockLifeExclusive(p)
    BY <2>2 DEF LockLifeExclusive, PurgeAllowed
  <2>3. CASE \E n \in LockNames : UnlinkEntryLock(p, n)
    BY <2>3 DEF UnlinkEntryLock, StaleLockNames
  <2>4. CASE LockFilesGone(p)
    BY <2>4 DEF LockFilesGone
  <2>5. CASE \E s \in Slots : RemoveSlot(p, s)
    BY <2>5 DEF RemoveSlot
  <2>6. CASE \E k \in Keys : RemoveEntry(p, k)
    BY <2>6 DEF RemoveEntry
  <2>7. CASE PurgeDone(p)
    BY <2>7 DEF PurgeDone
  <2>8. CASE PurgeStops(p)
    BY <2>8 DEF PurgeStops
  <2> QED
    BY <1>4, <2>1, <2>2, <2>3, <2>4, <2>5, <2>6, <2>7, <2>8 DEF PurgeStep
<1> QED
    BY <1>1, <1>2, <1>3, <1>4 DEF Next

-----------------------------------------------------------------------------
(* The inductive invariant and the safety theorems.                            *)

IInv == TypeOK /\ Locking /\ Disk

\* The inductive invariant: the locks exclude whom they should, and the directory
\* is as the holders of the locks left it.
THEOREM Inductive == Spec => []IInv
<1>1. Init => IInv
    BY TypeInit, LockingInit, DiskInit DEF IInv
<1>2. IInv /\ [Next]_vars => IInv'
    BY TypeStep, LockingStep, DiskStep DEF IInv
<1> QED
    BY <1>1, <1>2, PTL DEF Spec

\* No directory under construction is ever visible at an identity path.
THEOREM PublishedWhole == Spec => []NeverHalfPublished
<1>1. IInv => NeverHalfPublished
    BY DEF IInv, Disk
<1> QED
    BY <1>1, Inductive, PTL

\* Nothing another process does reaches a publisher's staging directory.
THEOREM StagingUntouched == Spec => []StagingIntact
<1>1. IInv => StagingIntact
    BY DEF IInv, Disk
<1> QED
    BY <1>1, Inductive, PTL

-----------------------------------------------------------------------------
(* Action properties.                                                          *)

\* A step that displaces an entry, reads one or reports success does so as the
\* action properties say.
LEMMA SafeSteps == IInv /\ [Next]_vars => [Displacement /\ ReadStep /\ SuccessStep]_vars
<1> SUFFICES ASSUME IInv, Next PROVE Displacement /\ ReadStep /\ SuccessStep
    OBVIOUS
<1> USE CacheAssumption DEF IInv, TypeOK, Locking, PurgeAlone, EntryExclusion,
        Disk, Verdicts, NeverHalfPublished, Displacement, ReadStep, SuccessStep,
        Live, Procs, Broken,
        Acquiring, HasEntryFile, SharedSection, ExclusiveSection,
        PublishSection, PurgeSection, procVars, lockVars, diskVars
<1>2. ASSUME NEW f \in Fetchers, FetcherStep(f) PROVE Displacement /\ ReadStep /\ SuccessStep
  <2>1. CASE LockLifeShared(f)
    BY <2>1 DEF LockLifeShared
  <2>2. CASE DropFetcher(f)
    BY <2>2 DEF DropFetcher
  <2>3. CASE OpenEntryLock(f, "open-s", "wait-s")
    BY <2>3 DEF OpenEntryLock, OpenOrCreate, Goto
  <2>4. CASE OpenEntryLock(f, "open-x", "wait-x")
    BY <2>4 DEF OpenEntryLock, OpenOrCreate, Goto
  <2>5. CASE OpenEntryLock(f, "open-p", "wait-p")
    BY <2>5 DEF OpenEntryLock, OpenOrCreate, Goto
  <2>6. CASE TryLockShared(f)
    BY <2>6 DEF TryLockShared, Goto
  <2>7. CASE TryLockExclusive(f, "wait-x", "read-x")
    BY <2>7 DEF TryLockExclusive, Goto
  <2>8. CASE TryLockExclusive(f, "wait-p", "read-p")
    BY <2>8 DEF TryLockExclusive, Goto
  <2>9. CASE LookupHit(f)
    BY <2>9 DEF LookupHit, Finish, Restored
  <2>10. CASE LookupMiss(f)
    BY <2>10 DEF LookupMiss, Goto
  <2>11. CASE LookupInvalidShared(f)
    BY <2>11 DEF LookupInvalidShared, Goto
  <2>12. CASE LookupInvalidExclusive(f)
    BY <2>12 DEF LookupInvalidExclusive, Goto
  <2>13. CASE MakeQuarantine(f, "aside-x", "move-x")
    BY <2>13 DEF MakeQuarantine, UniqueName, Goto
  <2>14. CASE QuarantineLookup(f)
    BY <2>14 DEF QuarantineLookup, MoveAside, Goto
  <2>15. CASE QuarantineRefused(f)
    BY <2>15 DEF QuarantineRefused, Finish
  <2>16. CASE Download(f)
    BY <2>16 DEF Download, Goto
  <2>17. CASE MakeStaging(f)
    BY <2>17 DEF MakeStaging, UniqueName, Goto
  <2>18. CASE CopyPayload(f)
    BY <2>18 DEF CopyPayload, Goto
  <2>19. CASE WriteMarker(f)
    BY <2>19 DEF WriteMarker, Marked, Goto
  <2>20. CASE KeepWinner(f)
    BY <2>20 DEF KeepWinner, Finish, Restored
  <2>21. CASE PublishReadMiss(f)
    BY <2>21 DEF PublishReadMiss, Goto
  <2>22. CASE PublishReadInvalid(f)
    BY <2>22 DEF PublishReadInvalid, Goto
  <2>23. CASE MakeQuarantine(f, "aside-p", "move-p")
    BY <2>23 DEF MakeQuarantine, UniqueName, Goto
  <2>24. CASE QuarantinePublish(f)
    BY <2>24 DEF QuarantinePublish, MoveAside, Goto
  <2>26. CASE RenameIn(f)
    BY <2>26 DEF RenameIn, Goto
  <2>27. CASE Published(f)
    BY <2>27 DEF Published, Finish
  <2>28. CASE RollBack(f)
    BY <2>28 DEF RollBack, Goto
  <2>29. CASE CleanStaging(f)
    BY <2>29 DEF CleanStaging, Finish
  <2>30. CASE StopAtDeadline(f)
    BY <2>30 DEF StopAtDeadline, StopPoints, Finish
  <2>31. CASE StopBeforeRenameIn(f)
    BY <2>31 DEF StopBeforeRenameIn, Goto
  <2> QED
    BY <1>2, <2>1, <2>2, <2>3, <2>4, <2>5, <2>6, <2>7, <2>8, <2>9, <2>10, <2>11, <2>12, <2>13, <2>14, <2>15, <2>16, <2>17, <2>18, <2>19, <2>20, <2>21, <2>22, <2>23, <2>24, <2>26, <2>27, <2>28, <2>29, <2>30, <2>31 DEF FetcherStep
<1>3. ASSUME NEW f \in Fetchers, Environment(f) PROVE Displacement /\ ReadStep /\ SuccessStep
  <2>1. CASE OpenLifecycle(f)
    BY <2>1 DEF OpenLifecycle, OpenOrCreate, Accepts
  <2>2. CASE \E k \in Keys : Acquire(f, k)
    BY <2>2 DEF Acquire
  <2>3. CASE Expire(f)
    BY <2>3 DEF Expire
  <2>4. CASE Crash(f)
    BY <2>4 DEF Crash
  <2>5. CASE DownloadFails(f)
    BY <2>5 DEF DownloadFails, Finish
  <2>6. CASE LookupFault(f)
    BY <2>6 DEF LookupFault, Finish
  <2>7. CASE PublishFault(f)
    BY <2>7 DEF PublishFault, Goto
  <2>8. CASE RenameInFault(f)
    BY <2>8 DEF RenameInFault, Goto
  <2> QED
    BY <1>3, <2>1, <2>2, <2>3, <2>4, <2>5, <2>6, <2>7, <2>8 DEF Environment
<1>4. ASSUME NEW p \in Purgers, OpenLifecycle(p) \/ PurgeStep(p) \/ PurgeStops(p) PROVE Displacement /\ ReadStep /\ SuccessStep
  <2>1. CASE OpenLifecycle(p)
    BY <2>1 DEF OpenLifecycle, OpenOrCreate, Accepts
  <2>2. CASE LockLifeExclusive(p)
    BY <2>2 DEF LockLifeExclusive, PurgeAllowed
  <2>3. CASE \E n \in LockNames : UnlinkEntryLock(p, n)
    BY <2>3 DEF UnlinkEntryLock, StaleLockNames
  <2>4. CASE LockFilesGone(p)
    BY <2>4 DEF LockFilesGone
  <2>5. CASE \E s \in Slots : RemoveSlot(p, s)
    BY <2>5 DEF RemoveSlot
  <2>6. CASE \E k \in Keys : RemoveEntry(p, k)
    BY <2>6 DEF RemoveEntry
  <2>7. CASE PurgeDone(p)
    BY <2>7 DEF PurgeDone
  <2>8. CASE PurgeStops(p)
    BY <2>8 DEF PurgeStops
  <2> QED
    BY <1>4, <2>1, <2>2, <2>3, <2>4, <2>5, <2>6, <2>7, <2>8 DEF PurgeStep
<1> QED
    BY <1>2, <1>3, <1>4 DEF Next

\* A complete entry is only ever displaced by a fetcher that rejects it, or by a
\* purge that is alone with the cache.
THEOREM EntriesRetained == Spec => DisplacedOnlyIfRejected
<1>1. IInv /\ [Next]_vars => [Displacement]_vars
    BY SafeSteps
<1> QED
    BY <1>1, Inductive, PTL DEF Spec, DisplacedOnlyIfRejected

\* A restoration in progress reads one object from beginning to end.
THEOREM ReadersUndisturbed == Spec => ReadStable
<1>1. IInv /\ [Next]_vars => [ReadStep]_vars
    BY SafeSteps
<1> QED
    BY <1>1, Inductive, PTL DEF Spec, ReadStable

\* An acquisition that reports success leaves an entry its own version accepts.
THEOREM SuccessUsable == Spec => SuccessLeavesUsableEntry
<1>1. IInv /\ [Next]_vars => [SuccessStep]_vars
    BY SafeSteps
<1> QED
    BY <1>1, Inductive, PTL DEF Spec, SuccessLeavesUsableEntry


-----------------------------------------------------------------------------
(* The protocol implements CachePromise.                                       *)

\* The initial states are initial states of the abstract cache.
LEMMA PromiseInit == Init => Promise!PInit
<1> SUFFICES ASSUME Init PROVE Promise!PInit
    OBVIOUS
<1> QED
    BY CacheAssumption DEF Init, Promise!PInit, Promise!Contents, Live, Procs, Shown,
       ShownAside, Broken

\* The abstract variables.
Store == [k \in Keys |-> Shown(entry[k])]
LiveSet == {f \in Fetchers : Live(f)}
Aside == [f \in Fetchers |-> ShownAside(f)]

\* The quarantine of a lookup sets the entry aside for good.
LEMMA SetAsideByLookup == ASSUME IInv, NEW f \in Fetchers, QuarantineLookup(f) PROVE Promise!PNext
<1> USE CacheAssumption
<1>1. /\ pc[f] = "move-x" /\ key[f] \in Keys /\ qtn[f] \in Slots
      /\ entry[key[f]] # "none" /\ ~Accepts(f, entry[key[f]])
  BY DEF IInv, TypeOK, Disk, Ownership, StagingIntact, Verdicts, Broken, QuarantineLookup, MoveAside, Goto, Acquiring, HasEntryFile, SharedSection, ExclusiveSection, PublishSection, OwnsStaging, OwnsQuarantine
<1>2. entry \in [Keys -> Objects] /\ root \in [Slots -> Objects] /\ pc \in [Procs -> FetcherStates \cup PurgerStates]
  BY DEF IInv, TypeOK
<1>3. entry' = [entry EXCEPT ![key[f]] = "none"]
  BY <1>1 DEF QuarantineLookup, MoveAside, Goto, CanRename
<1>4. Store' = [Store EXCEPT ![key[f]] = None]
  BY <1>1, <1>2, <1>3 DEF Store, Shown, Broken
<1>5. LiveSet' = LiveSet
  BY <1>1, <1>2 DEF QuarantineLookup, MoveAside, Goto, LiveSet, Live, Procs
<1>6. \A g \in Fetchers : g # f => ShownAside(g)' = ShownAside(g)
  BY <1>1, <1>2 DEF QuarantineLookup, MoveAside, Goto, ShownAside, Procs, IInv, TypeOK, Disk, Ownership, OwnsStaging, OwnsQuarantine, PublishSection
<1>7. ShownAside(f)' = ShownAside(f)
  BY <1>1, <1>2 DEF QuarantineLookup, MoveAside, Goto, ShownAside, Shown, Broken, Procs
<1>8. Aside' = Aside
  BY <1>6, <1>7 DEF Aside
<1>9. Promise!SetAside(f, key[f])
  BY <1>1, <1>2, <1>4, <1>5, <1>8 DEF Promise!SetAside, Store, LiveSet, Live, Aside, Shown, ShownAside, Broken, Accepts
<1> QED
  BY <1>1, <1>9 DEF Promise!PNext

\* The quarantine of a publication may still be rolled back.
LEMMA SetAsideByPublish == ASSUME IInv, NEW f \in Fetchers, QuarantinePublish(f) PROVE Promise!PNext
<1> USE CacheAssumption
<1>1. /\ pc[f] = "move-p" /\ key[f] \in Keys /\ qtn[f] \in Slots
      /\ entry[key[f]] # "none" /\ ~Accepts(f, entry[key[f]])
  BY DEF IInv, TypeOK, Disk, Ownership, StagingIntact, Verdicts, Broken, QuarantinePublish, MoveAside, Goto, Acquiring, HasEntryFile, SharedSection, ExclusiveSection, PublishSection, OwnsStaging, OwnsQuarantine
<1>2. entry \in [Keys -> Objects] /\ root \in [Slots -> Objects] /\ pc \in [Procs -> FetcherStates \cup PurgerStates]
  BY DEF IInv, TypeOK
<1>3. entry' = [entry EXCEPT ![key[f]] = "none"]
  BY <1>1 DEF QuarantinePublish, MoveAside, Goto, CanRename
<1>4. Store' = [Store EXCEPT ![key[f]] = None]
  BY <1>1, <1>2, <1>3 DEF Store, Shown, Broken
<1>5. LiveSet' = LiveSet
  BY <1>1, <1>2 DEF QuarantinePublish, MoveAside, Goto, LiveSet, Live, Procs
<1>6. \A g \in Fetchers : g # f => ShownAside(g)' = ShownAside(g)
  BY <1>1, <1>2 DEF QuarantinePublish, MoveAside, Goto, ShownAside, Procs, IInv, TypeOK, Disk, Ownership, OwnsStaging, OwnsQuarantine, PublishSection
<1>7. ShownAside(f)' = Store[key[f]]
  BY <1>1, <1>2 DEF QuarantinePublish, MoveAside, Goto, ShownAside, Shown, Broken, Procs, Store
<1>8. Aside' = [Aside EXCEPT ![f] = Store[key[f]]]
  BY <1>6, <1>7 DEF Aside
<1>9. Promise!SetAside(f, key[f])
  BY <1>1, <1>2, <1>4, <1>5, <1>8 DEF Promise!SetAside, Store, LiveSet, Live, Aside, Shown, ShownAside, Broken, Accepts
<1> QED
  BY <1>1, <1>9 DEF Promise!PNext

\* The rename of the staging directory fills the identity in one step.
LEMMA RenameInFills == ASSUME IInv, NEW f \in Fetchers, RenameIn(f) PROVE Promise!PNext
<1> USE CacheAssumption
<1>1. /\ pc[f] \in {"pub", "in-p"} /\ key[f] \in Keys /\ stg[f] \in Slots
      /\ entry[key[f]] = "none" /\ root[stg[f]] = VersionOf[f]
      /\ VersionOf[f] \in Versions /\ f \notin SmallLimit
  BY DEF IInv, TypeOK, Disk, Ownership, StagingIntact, Verdicts, Broken, RenameIn, Goto, Acquiring, HasEntryFile, SharedSection, ExclusiveSection, PublishSection, OwnsStaging, OwnsQuarantine
<1>2. entry \in [Keys -> Objects] /\ root \in [Slots -> Objects] /\ pc \in [Procs -> FetcherStates \cup PurgerStates]
  BY DEF IInv, TypeOK
<1>3. entry' = [entry EXCEPT ![key[f]] = VersionOf[f]]
  BY <1>1 DEF RenameIn, Goto, CanRename
<1>4. Store' = [Store EXCEPT ![key[f]] = VersionOf[f]]
  BY <1>1, <1>2, <1>3 DEF Store, Shown, Broken
<1>5. LiveSet' = LiveSet
  BY <1>1, <1>2 DEF RenameIn, Goto, LiveSet, Live, Procs
<1>6. \A g \in Fetchers : g # f => ShownAside(g)' = ShownAside(g)
  BY <1>1, <1>2 DEF RenameIn, Goto, ShownAside, Procs, IInv, TypeOK, Disk, Ownership, OwnsStaging, OwnsQuarantine, PublishSection
<1>7. ShownAside(f)' = None
  BY <1>1, <1>2 DEF RenameIn, Goto, ShownAside, Shown, Broken, Procs
<1>8. Aside' = [Aside EXCEPT ![f] = None]
  BY <1>6, <1>7 DEF Aside
<1>9. Promise!Fill(f, key[f])
  BY <1>1, <1>2, <1>4, <1>5, <1>8 DEF Promise!Fill, Store, LiveSet, Live, Aside, Shown, ShownAside, Broken, Accepts
<1> QED
  BY <1>1, <1>9 DEF Promise!PNext

\* A rollback puts the entry back, or gives it up when the rename fails.
LEMMA RollBackPutsBack == ASSUME IInv, NEW f \in Fetchers, RollBack(f) PROVE Promise!PNext
<1> USE CacheAssumption
<1>1. /\ pc[f] = "undo-p" /\ key[f] \in Keys /\ qtn[f] \in Slots
      /\ entry[key[f]] = "none" /\ root[qtn[f]] \in Broken \cup Versions
  BY DEF IInv, TypeOK, Disk, Ownership, StagingIntact, Verdicts, Broken, RollBack, Goto, diskVars, Acquiring, HasEntryFile, SharedSection, ExclusiveSection, PublishSection, OwnsStaging, OwnsQuarantine
<1>2. entry \in [Keys -> Objects] /\ root \in [Slots -> Objects] /\ pc \in [Procs -> FetcherStates \cup PurgerStates]
  BY DEF IInv, TypeOK
<1>3. entry' = entry \/ entry' = [entry EXCEPT ![key[f]] = root[qtn[f]]]
  BY <1>1 DEF RollBack, Goto, diskVars, CanRename
<1>4. Store' = Store \/ Store' = [Store EXCEPT ![key[f]] = Aside[f]]
  BY <1>1, <1>2, <1>3 DEF Store, Aside, ShownAside
<1>5. LiveSet' = LiveSet
  BY <1>1, <1>2 DEF RollBack, Goto, diskVars, LiveSet, Live, Procs
<1>6. \A g \in Fetchers : g # f => ShownAside(g)' = ShownAside(g)
  BY <1>1, <1>2 DEF RollBack, Goto, diskVars, ShownAside, Procs, IInv, TypeOK, Disk, Ownership, OwnsStaging, OwnsQuarantine, PublishSection
<1>7. ShownAside(f)' = None
  BY <1>1, <1>2 DEF RollBack, Goto, diskVars, ShownAside, Shown, Broken, Procs
<1>8. Aside' = [Aside EXCEPT ![f] = None]
  BY <1>6, <1>7 DEF Aside
<1>9. Promise!PutBack(f, key[f])
  BY <1>1, <1>2, <1>4, <1>5, <1>8 DEF Promise!PutBack, Store, LiveSet, Live, Aside, Shown, ShownAside, Broken, Accepts
<1> QED
  BY <1>1, <1>9 DEF Promise!PNext

\* A fetcher that drops the cache, or crashes, takes what it had set aside with it.
LEMMA LeavingLeaves == ASSUME IInv, NEW f \in Fetchers, DropFetcher(f) \/ Crash(f) PROVE Promise!PNext
<1> USE CacheAssumption
<1>1. pc \in [Procs -> FetcherStates \cup PurgerStates] /\ f \in Procs
  BY DEF IInv, TypeOK, Procs
<1>2. pc' = [pc EXCEPT ![f] = "down"] /\ entry' = entry /\ root' = root /\ qtn' = qtn
  BY DEF DropFetcher, Crash, diskVars
<1>3. LiveSet' = LiveSet \ {f}
  BY <1>1, <1>2 DEF LiveSet, Live, Procs
<1>4. Store' = Store
  BY <1>2 DEF Store
<1>5. ShownAside(f)' = None /\ \A g \in Fetchers : g # f => ShownAside(g)' = ShownAside(g)
  BY <1>1, <1>2 DEF ShownAside, Procs
<1>6. Aside' = [Aside EXCEPT ![f] = None]
  BY <1>5 DEF Aside
<1>7. Promise!Leave(f)
  BY <1>3, <1>4, <1>6 DEF Promise!Leave, Store, LiveSet, Aside
<1> QED
  BY <1>7 DEF Promise!PNext

\* The purge removes entries when no fetcher is live.
LEMMA RemovalWipes == ASSUME IInv, NEW p \in Purgers, NEW k \in Keys, RemoveEntry(p, k) PROVE Promise!PNext
<1> USE CacheAssumption
<1>1. entry \in [Keys -> Objects] /\ \A f \in Fetchers : ~Live(f)
  BY DEF IInv, TypeOK, Locking, PurgeAlone, RemoveEntry, PurgeSection
<1>2. PICK rest \in {"damaged", "none"} : entry' = [entry EXCEPT ![k] = rest]
  BY DEF RemoveEntry
<1>3. Store' = [Store EXCEPT ![k] = Shown(rest)]
  BY <1>1, <1>2 DEF Store
<1>4. Shown(rest) \in {None, "unusable"}
  BY <1>2 DEF Shown, Broken
<1>5. LiveSet = {} /\ LiveSet' = LiveSet
  BY <1>1 DEF RemoveEntry, procVars, LiveSet, Live
<1>6. Aside' = Aside
  BY DEF RemoveEntry, procVars, Aside, ShownAside, Shown
<1>7. Promise!Wipe(k)
  BY <1>3, <1>4, <1>5, <1>6 DEF Promise!Wipe, Store, LiveSet, Aside
<1> QED
  BY <1>7 DEF Promise!PNext

\* Join and drop are the abstract Join and Leave, the renames of entries are
\* SetAside, Fill and PutBack, a purge wipes; every other step is a stutter.
PromiseStep == [Promise!PNext]_(Promise!promiseVars)

\* Every step is a step of the abstract cache or a stutter.
LEMMA PromiseSteps == IInv /\ [Next]_vars => PromiseStep
<1> SUFFICES ASSUME IInv, [Next]_vars PROVE PromiseStep
    OBVIOUS
<1> USE CacheAssumption DEF IInv, TypeOK, Locking, PurgeAlone,
        Disk, Ownership, StagingIntact, Verdicts, NeverHalfPublished, PromiseStep,
        Live, Procs, Broken, OwnsStaging, OwnsQuarantine, Shown, ShownAside, Promise!promiseVars,
        Acquiring, HasEntryFile, SharedSection, ExclusiveSection,
        PublishSection, PurgeSection, procVars, lockVars, diskVars
<1>1. CASE UNCHANGED vars
    BY <1>1 DEF vars
<1>2. ASSUME NEW f \in Fetchers, FetcherStep(f) PROVE PromiseStep
  <2>1. CASE LockLifeShared(f)
    BY <2>1 DEF LockLifeShared, Promise!PNext, Promise!Join
  <2>2. CASE DropFetcher(f)
    BY <2>2, LeavingLeaves
  <2>3. CASE OpenEntryLock(f, "open-s", "wait-s")
    BY <2>3 DEF OpenEntryLock, OpenOrCreate, Goto
  <2>4. CASE OpenEntryLock(f, "open-x", "wait-x")
    BY <2>4 DEF OpenEntryLock, OpenOrCreate, Goto
  <2>5. CASE OpenEntryLock(f, "open-p", "wait-p")
    BY <2>5 DEF OpenEntryLock, OpenOrCreate, Goto
  <2>6. CASE TryLockShared(f)
    BY <2>6 DEF TryLockShared, Goto
  <2>7. CASE TryLockExclusive(f, "wait-x", "read-x")
    BY <2>7 DEF TryLockExclusive, Goto
  <2>8. CASE TryLockExclusive(f, "wait-p", "read-p")
    BY <2>8 DEF TryLockExclusive, Goto
  <2>9. CASE LookupHit(f)
    BY <2>9 DEF LookupHit, Finish
  <2>10. CASE LookupMiss(f)
    BY <2>10 DEF LookupMiss, Goto
  <2>11. CASE LookupInvalidShared(f)
    BY <2>11 DEF LookupInvalidShared, Goto
  <2>12. CASE LookupInvalidExclusive(f)
    BY <2>12 DEF LookupInvalidExclusive, Goto
  <2>13. CASE MakeQuarantine(f, "aside-x", "move-x")
    BY <2>13 DEF MakeQuarantine, UniqueName, Goto
  <2>14. CASE QuarantineLookup(f)
    BY <2>14, SetAsideByLookup
  <2>15. CASE QuarantineRefused(f)
    BY <2>15 DEF QuarantineRefused, Finish
  <2>16. CASE Download(f)
    BY <2>16 DEF Download, Goto
  <2>17. CASE MakeStaging(f)
    BY <2>17 DEF MakeStaging, UniqueName, Goto
  <2>18. CASE CopyPayload(f)
    BY <2>18 DEF CopyPayload, Goto
  <2>19. CASE WriteMarker(f)
    BY <2>19 DEF WriteMarker, Marked, Goto
  <2>20. CASE KeepWinner(f)
    BY <2>20 DEF KeepWinner, Finish
  <2>21. CASE PublishReadMiss(f)
    BY <2>21 DEF PublishReadMiss, Goto
  <2>22. CASE PublishReadInvalid(f)
    BY <2>22 DEF PublishReadInvalid, Goto
  <2>23. CASE MakeQuarantine(f, "aside-p", "move-p")
    BY <2>23 DEF MakeQuarantine, UniqueName, Goto
  <2>24. CASE QuarantinePublish(f)
    BY <2>24, SetAsideByPublish
  <2>26. CASE RenameIn(f)
    BY <2>26, RenameInFills
  <2>27. CASE Published(f)
    BY <2>27 DEF Published, Finish
  <2>28. CASE RollBack(f)
    BY <2>28, RollBackPutsBack
  <2>29. CASE CleanStaging(f)
    BY <2>29 DEF CleanStaging, Finish
  <2>30. CASE StopAtDeadline(f)
    BY <2>30 DEF StopAtDeadline, StopPoints, Finish
  <2>31. CASE StopBeforeRenameIn(f)
    BY <2>31 DEF StopBeforeRenameIn, Goto
  <2> QED
    BY <1>2, <2>1, <2>2, <2>3, <2>4, <2>5, <2>6, <2>7, <2>8, <2>9, <2>10, <2>11, <2>12, <2>13, <2>14, <2>15, <2>16, <2>17, <2>18, <2>19, <2>20, <2>21, <2>22, <2>23, <2>24, <2>26, <2>27, <2>28, <2>29, <2>30, <2>31 DEF FetcherStep
<1>3. ASSUME NEW f \in Fetchers, Environment(f) PROVE PromiseStep
  <2>1. CASE OpenLifecycle(f)
    BY <2>1 DEF OpenLifecycle, OpenOrCreate
  <2>2. CASE \E k \in Keys : Acquire(f, k)
    BY <2>2 DEF Acquire
  <2>3. CASE Expire(f)
    BY <2>3 DEF Expire
  <2>4. CASE Crash(f)
    BY <2>4, LeavingLeaves
  <2>5. CASE DownloadFails(f)
    BY <2>5 DEF DownloadFails, Finish
  <2>6. CASE LookupFault(f)
    BY <2>6 DEF LookupFault, Finish
  <2>7. CASE PublishFault(f)
    BY <2>7 DEF PublishFault, Goto
  <2>8. CASE RenameInFault(f)
    BY <2>8 DEF RenameInFault, Goto
  <2> QED
    BY <1>3, <2>1, <2>2, <2>3, <2>4, <2>5, <2>6, <2>7, <2>8 DEF Environment
<1>4. ASSUME NEW p \in Purgers, OpenLifecycle(p) \/ PurgeStep(p) \/ PurgeStops(p) PROVE PromiseStep
  <2>1. CASE OpenLifecycle(p)
    BY <2>1 DEF OpenLifecycle, OpenOrCreate
  <2>2. CASE LockLifeExclusive(p)
    BY <2>2 DEF LockLifeExclusive, PurgeAllowed
  <2>3. CASE \E n \in LockNames : UnlinkEntryLock(p, n)
    BY <2>3 DEF UnlinkEntryLock, StaleLockNames
  <2>4. CASE LockFilesGone(p)
    BY <2>4 DEF LockFilesGone
  <2>5. CASE \E s \in Slots : RemoveSlot(p, s)
    BY <2>5 DEF RemoveSlot
  <2>6. CASE \E k \in Keys : RemoveEntry(p, k)
    BY <2>6, RemovalWipes
  <2>7. CASE PurgeDone(p)
    BY <2>7 DEF PurgeDone
  <2>8. CASE PurgeStops(p)
    BY <2>8 DEF PurgeStops
  <2> QED
    BY <1>4, <2>1, <2>2, <2>3, <2>4, <2>5, <2>6, <2>7, <2>8 DEF PurgeStep
<1> QED
    BY <1>1, <1>2, <1>3, <1>4 DEF Next

\* The lock protocol keeps the promise of CachePromise for any number of processes
\* of any versions, with crashes, faults and deadlines anywhere.
THEOREM KeepsPromise == Spec => ImplementsPromise
<1> QED
    BY PromiseInit, PromiseSteps, Inductive, PTL
       DEF Spec, ImplementsPromise, PromiseStep, Promise!PSpec

=============================================================================
