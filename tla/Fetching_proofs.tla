-------------------------- MODULE Fetching_proofs --------------------------
(* Proofs about what the fetcher decides and what it copies: which task        *)
(* acquires an identity, for every set of tasks, identities, documents and     *)
(* dependencies and every duration; which releases a query stands for, for     *)
(* every response of the registries; and what a local dependency or a manifest *)
(* is read from, for every tree: from nowhere but the directory it was         *)
(* declared in, whatever others do to the tree meanwhile, and as a whole where *)
(* they do nothing.                                                            *)
(* Among the tasks the locks are what the inductive invariant adds: which task *)
(* holds the lock of an identity or of a document follows from where the tasks *)
(* are.  For the releases it is what is to be pinned, in order, and how much   *)
(* of it has been.  For a copy it is how each directory was opened, and which  *)
(* directories are complete, waiting or in hand.                               *)
EXTENDS SharedFetches, Versions, Confinement, Sums_proofs, SequenceTheorems

TaskStep(t) == Start(t) \/ Advance(t) \/ Answer(t)

-----------------------------------------------------------------------------
(* Type correctness.                                                           *)

\* A task starts by resolving its dependency.
Idle == \A t \in Tasks : pc[t] = "idle" => stage[t] = "resolve"

\* The tasks begin idle.
LEMMA TypeInit == Init => TypeOK /\ Idle
    BY FetchAssumption DEF Init, TypeOK, Idle, States, Checked, Finished, WantsDocument

\* No step of a task, and no tick of the clock, breaks the types.
LEMMA TypeStep == TypeOK /\ Idle /\ [Next]_vars => (TypeOK /\ Idle)'
<1> SUFFICES ASSUME TypeOK, Idle, [Next]_vars PROVE (TypeOK /\ Idle)'
    OBVIOUS
<1> USE FetchAssumption DEF TypeOK, Idle, Document, Identity, Dependency, States, Checked, Finished, WantsDocument, request, metadata, outcome, Goto
<1>1. CASE UNCHANGED vars
    BY <1>1 DEF vars
<1>2. CASE Tick
    BY <1>2 DEF Tick
<1>3. ASSUME NEW t \in Tasks, TaskStep(t) PROVE (TypeOK /\ Idle)'
  <2>1. CASE Start(t)
    BY <2>1 DEF Start
  <2>2. CASE FindDocument(t)
    BY <2>2 DEF FindDocument, WithDocument
  <2>3. CASE AwaitDocument(t)
    BY <2>3 DEF AwaitDocument
  <2>4. CASE TakeDocument(t)
    BY <2>4 DEF TakeDocument, WithDocument
  <2>5. CASE RequestDocument(t)
    BY <2>5 DEF RequestDocument
  <2>6. CASE Reject(t)
    BY <2>6 DEF Reject, Fail, Freed
  <2>7. CASE EnterFetch(t)
    BY <2>7 DEF EnterFetch
  <2>8. CASE LookupRoot(t)
    BY <2>8 DEF LookupRoot
  <2>9. CASE TakeCompleted(t)
    BY <2>9 DEF TakeCompleted
  <2>10. CASE StartLookup(t)
    BY <2>10 DEF StartLookup
  <2>11. CASE CreateWorkspace(t)
    BY <2>11 DEF CreateWorkspace
  <2>12. CASE NoArtifact(t)
    BY <2>12 DEF NoArtifact, Fail, Freed
  <2>13. CASE Complete(t)
    BY <2>13 DEF Complete, Freed
  <2>14. CASE Expire(t)
    BY <2>14 DEF Expire, Fail, Freed
  <2>15. CASE ReceiveDocument(t)
    BY <2>15 DEF ReceiveDocument, Evictable, WithDocument
  <2>16. CASE RequestFails(t)
    BY <2>16 DEF RequestFails, Fail, Freed
  <2>17. CASE LookupHit(t)
    BY <2>17 DEF LookupHit
  <2>18. CASE LookupMiss(t)
    BY <2>18 DEF LookupMiss
  <2>19. CASE LookupFails(t)
    BY <2>19 DEF LookupFails, Fail, Freed
  <2>20. CASE Download(t)
    BY <2>20 DEF Download
  <2>21. CASE DownloadFails(t)
    BY <2>21 DEF DownloadFails, Fail, Freed
  <2> QED
    BY <1>3, <2>1, <2>2, <2>3, <2>4, <2>5, <2>6, <2>7, <2>8, <2>9, <2>10, <2>11, <2>12, <2>13, <2>14, <2>15, <2>16, <2>17, <2>18, <2>19, <2>20, <2>21 DEF TaskStep, Advance, Answer
<1> QED
    BY <1>1, <1>2, <1>3 DEF Next, TaskStep

\* The state of the tasks, locks and tables keeps its types, and a task that
\* wants a metadata document knows which one.
THEOREM TypeCorrect == Spec => []TypeOK
<1>1. Spec => [](TypeOK /\ Idle)
    BY TypeInit, TypeStep, PTL DEF Spec
<1> QED
    BY <1>1, PTL

-----------------------------------------------------------------------------
(* The locks.                                                                  *)

\* An attempt goes on under the lock of its identity; whoever holds the lock of a
\* document is requesting it.
LocksHeld ==
    /\ \A t \in Tasks : Attempting(t) => fetchLock[Identity(t)] = t
    /\ \A t \in Tasks : pc[t] = "request" => docLock[Document(t)] = t
    /\ \A d \in Documents : docLock[d] # None =>
          pc[docLock[d]] = "request" /\ Document(docLock[d]) = d

\* A lock is taken before an attempt or a request begins and dropped with it,
\* and no step of another task takes it away.
LEMMA LocksStep == TypeOK /\ Idle /\ LocksHeld /\ [Next]_vars => LocksHeld'
<1> SUFFICES ASSUME TypeOK, Idle, LocksHeld, [Next]_vars PROVE LocksHeld'
    OBVIOUS
<1> USE FetchAssumption DEF TypeOK, Idle, LocksHeld, Attempting, Document, Identity, Dependency, Checked, Finished, WantsDocument, request, metadata, outcome, Goto
<1>1. CASE UNCHANGED vars
    BY <1>1 DEF vars
<1>2. CASE Tick
    BY <1>2 DEF Tick
<1>3. ASSUME NEW t \in Tasks, TaskStep(t) PROVE LocksHeld'
  <2>1. CASE Start(t)
    BY <2>1 DEF Start
  <2>2. CASE FindDocument(t)
    BY <2>2 DEF FindDocument, WithDocument
  <2>3. CASE AwaitDocument(t)
    BY <2>3 DEF AwaitDocument
  <2>4. CASE TakeDocument(t)
    BY <2>4 DEF TakeDocument, WithDocument
  <2>5. CASE RequestDocument(t)
    BY <2>5 DEF RequestDocument
  <2>6. CASE Reject(t)
    BY <2>6 DEF Reject, Fail, Freed
  <2>7. CASE EnterFetch(t)
    BY <2>7 DEF EnterFetch
  <2>8. CASE LookupRoot(t)
    BY <2>8 DEF LookupRoot
  <2>9. CASE TakeCompleted(t)
    BY <2>9 DEF TakeCompleted
  <2>10. CASE StartLookup(t)
    BY <2>10 DEF StartLookup
  <2>11. CASE CreateWorkspace(t)
    BY <2>11 DEF CreateWorkspace
  <2>12. CASE NoArtifact(t)
    BY <2>12 DEF NoArtifact, Fail, Freed
  <2>13. CASE Complete(t)
    BY <2>13 DEF Complete, Freed
  <2>14. CASE Expire(t)
    BY <2>14 DEF Expire, Fail, Freed
  <2>15. CASE ReceiveDocument(t)
    BY <2>15 DEF ReceiveDocument, Evictable, WithDocument
  <2>16. CASE RequestFails(t)
    BY <2>16 DEF RequestFails, Fail, Freed
  <2>17. CASE LookupHit(t)
    BY <2>17 DEF LookupHit
  <2>18. CASE LookupMiss(t)
    BY <2>18 DEF LookupMiss
  <2>19. CASE LookupFails(t)
    BY <2>19 DEF LookupFails, Fail, Freed
  <2>20. CASE Download(t)
    BY <2>20 DEF Download
  <2>21. CASE DownloadFails(t)
    BY <2>21 DEF DownloadFails, Fail, Freed
  <2> QED
    BY <1>3, <2>1, <2>2, <2>3, <2>4, <2>5, <2>6, <2>7, <2>8, <2>9, <2>10, <2>11, <2>12, <2>13, <2>14, <2>15, <2>16, <2>17, <2>18, <2>19, <2>20, <2>21 DEF TaskStep, Advance, Answer
<1> QED
    BY <1>1, <1>2, <1>3 DEF Next, TaskStep

-----------------------------------------------------------------------------
(* No work is repeated.                                                        *)

\* Nobody attempts an identity that has a completed result.
Unattempted == \A t \in Tasks : Attempting(t) => completed[Identity(t)] = None

\* An attempt begins only where there is no result, and ends with the one it makes.
LEMMA UnattemptedStep == TypeOK /\ Idle /\ LocksHeld /\ Unattempted /\ [Next]_vars => Unattempted'
<1> SUFFICES ASSUME TypeOK, Idle, LocksHeld, Unattempted, [Next]_vars PROVE Unattempted'
    OBVIOUS
<1> USE FetchAssumption DEF TypeOK, Idle, LocksHeld, Unattempted, Attempting, Document, Identity, Dependency, Checked, Finished, WantsDocument, request, metadata, outcome, Goto
<1>1. CASE UNCHANGED vars
    BY <1>1 DEF vars
<1>2. CASE Tick
    BY <1>2 DEF Tick
<1>3. ASSUME NEW t \in Tasks, TaskStep(t) PROVE Unattempted'
  <2>1. CASE Start(t)
    BY <2>1 DEF Start
  <2>2. CASE FindDocument(t)
    BY <2>2 DEF FindDocument, WithDocument
  <2>3. CASE AwaitDocument(t)
    BY <2>3 DEF AwaitDocument
  <2>4. CASE TakeDocument(t)
    BY <2>4 DEF TakeDocument, WithDocument
  <2>5. CASE RequestDocument(t)
    BY <2>5 DEF RequestDocument
  <2>6. CASE Reject(t)
    BY <2>6 DEF Reject, Fail, Freed
  <2>7. CASE EnterFetch(t)
    BY <2>7 DEF EnterFetch
  <2>8. CASE LookupRoot(t)
    BY <2>8 DEF LookupRoot
  <2>9. CASE TakeCompleted(t)
    BY <2>9 DEF TakeCompleted
  <2>10. CASE StartLookup(t)
    BY <2>10 DEF StartLookup
  <2>11. CASE CreateWorkspace(t)
    BY <2>11 DEF CreateWorkspace
  <2>12. CASE NoArtifact(t)
    BY <2>12 DEF NoArtifact, Fail, Freed
  <2>13. CASE Complete(t)
    BY <2>13 DEF Complete, Freed
  <2>14. CASE Expire(t)
    BY <2>14 DEF Expire, Fail, Freed
  <2>15. CASE ReceiveDocument(t)
    BY <2>15 DEF ReceiveDocument, Evictable, WithDocument
  <2>16. CASE RequestFails(t)
    BY <2>16 DEF RequestFails, Fail, Freed
  <2>17. CASE LookupHit(t)
    BY <2>17 DEF LookupHit
  <2>18. CASE LookupMiss(t)
    BY <2>18 DEF LookupMiss
  <2>19. CASE LookupFails(t)
    BY <2>19 DEF LookupFails, Fail, Freed
  <2>20. CASE Download(t)
    BY <2>20 DEF Download
  <2>21. CASE DownloadFails(t)
    BY <2>21 DEF DownloadFails, Fail, Freed
  <2> QED
    BY <1>3, <2>1, <2>2, <2>3, <2>4, <2>5, <2>6, <2>7, <2>8, <2>9, <2>10, <2>11, <2>12, <2>13, <2>14, <2>15, <2>16, <2>17, <2>18, <2>19, <2>20, <2>21 DEF TaskStep, Advance, Answer
<1> QED
    BY <1>1, <1>2, <1>3 DEF Next, TaskStep

-----------------------------------------------------------------------------
(* Results.                                                                    *)

Kept(u) == pc[u] = "done" /\ workspace[u] = "retained"

\* What is handed out belongs to an acquisition that is over, so nothing will
\* remove it.
ResultsKept ==
    /\ \A t \in Tasks : pc[t] = "finish" => workspace[t] = "retained"
    /\ \A i \in Identities : completed[i] # None =>
          Kept(completed[i]) /\ Identity(completed[i]) = i
    /\ \A t \in Tasks : pc[t] = "done" =>
          result[t] # None /\ Kept(result[t]) /\ Identity(result[t]) = Identity(t)

\* What has been handed out, or is about to be, no step takes back.
LEMMA ResultsStep == TypeOK /\ ResultsKept /\ [Next]_vars => ResultsKept'
<1> SUFFICES ASSUME TypeOK, ResultsKept, [Next]_vars PROVE ResultsKept'
    OBVIOUS
<1> USE FetchAssumption DEF TypeOK, ResultsKept, Kept, Identity, Dependency, Checked, Finished, WantsDocument, request, metadata, outcome, Goto
<1>1. CASE UNCHANGED vars
    BY <1>1 DEF vars
<1>2. CASE Tick
    BY <1>2 DEF Tick
<1>3. ASSUME NEW t \in Tasks, TaskStep(t) PROVE ResultsKept'
  <2>1. CASE Start(t)
    BY <2>1 DEF Start
  <2>2. CASE FindDocument(t)
    BY <2>2 DEF FindDocument, WithDocument
  <2>3. CASE AwaitDocument(t)
    BY <2>3 DEF AwaitDocument
  <2>4. CASE TakeDocument(t)
    BY <2>4 DEF TakeDocument, WithDocument
  <2>5. CASE RequestDocument(t)
    BY <2>5 DEF RequestDocument
  <2>6. CASE Reject(t)
    BY <2>6 DEF Reject, Fail, Freed
  <2>7. CASE EnterFetch(t)
    BY <2>7 DEF EnterFetch
  <2>8. CASE LookupRoot(t)
    BY <2>8 DEF LookupRoot
  <2>9. CASE TakeCompleted(t)
    BY <2>9 DEF TakeCompleted
  <2>10. CASE StartLookup(t)
    BY <2>10 DEF StartLookup
  <2>11. CASE CreateWorkspace(t)
    BY <2>11 DEF CreateWorkspace
  <2>12. CASE NoArtifact(t)
    BY <2>12 DEF NoArtifact, Fail, Freed
  <2>13. CASE Complete(t)
    BY <2>13 DEF Complete, Freed
  <2>14. CASE Expire(t)
    BY <2>14 DEF Expire, Fail, Freed
  <2>15. CASE ReceiveDocument(t)
    BY <2>15 DEF ReceiveDocument, Evictable, WithDocument
  <2>16. CASE RequestFails(t)
    BY <2>16 DEF RequestFails, Fail, Freed
  <2>17. CASE LookupHit(t)
    BY <2>17 DEF LookupHit
  <2>18. CASE LookupMiss(t)
    BY <2>18 DEF LookupMiss
  <2>19. CASE LookupFails(t)
    BY <2>19 DEF LookupFails, Fail, Freed
  <2>20. CASE Download(t)
    BY <2>20 DEF Download
  <2>21. CASE DownloadFails(t)
    BY <2>21 DEF DownloadFails, Fail, Freed
  <2> QED
    BY <1>3, <2>1, <2>2, <2>3, <2>4, <2>5, <2>6, <2>7, <2>8, <2>9, <2>10, <2>11, <2>12, <2>13, <2>14, <2>15, <2>16, <2>17, <2>18, <2>19, <2>20, <2>21 DEF TaskStep, Advance, Answer
<1> QED
    BY <1>1, <1>2, <1>3 DEF Next, TaskStep

-----------------------------------------------------------------------------
(* Metadata documents.                                                         *)

\* A document is not cached while its lock is held.
Uncached == \A t \in Tasks : pc[t] = "request" => Document(t) \notin docs

\* A document is requested only when it is not there, and others who want it wait.
LEMMA UncachedStep == TypeOK /\ Idle /\ LocksHeld /\ Uncached /\ [Next]_vars => Uncached'
<1> SUFFICES ASSUME TypeOK, Idle, LocksHeld, Uncached, [Next]_vars PROVE Uncached'
    OBVIOUS
<1> USE FetchAssumption DEF TypeOK, Idle, LocksHeld, Uncached, Document, Dependency, Checked, Finished, WantsDocument, request, metadata, outcome, Goto
<1>1. CASE UNCHANGED vars
    BY <1>1 DEF vars
<1>2. CASE Tick
    BY <1>2 DEF Tick
<1>3. ASSUME NEW t \in Tasks, TaskStep(t) PROVE Uncached'
  <2>1. CASE Start(t)
    BY <2>1 DEF Start
  <2>2. CASE FindDocument(t)
    BY <2>2 DEF FindDocument, WithDocument
  <2>3. CASE AwaitDocument(t)
    BY <2>3 DEF AwaitDocument
  <2>4. CASE TakeDocument(t)
    BY <2>4 DEF TakeDocument, WithDocument
  <2>5. CASE RequestDocument(t)
    BY <2>5 DEF RequestDocument
  <2>6. CASE Reject(t)
    BY <2>6 DEF Reject, Fail, Freed
  <2>7. CASE EnterFetch(t)
    BY <2>7 DEF EnterFetch
  <2>8. CASE LookupRoot(t)
    BY <2>8 DEF LookupRoot
  <2>9. CASE TakeCompleted(t)
    BY <2>9 DEF TakeCompleted
  <2>10. CASE StartLookup(t)
    BY <2>10 DEF StartLookup
  <2>11. CASE CreateWorkspace(t)
    BY <2>11 DEF CreateWorkspace
  <2>12. CASE NoArtifact(t)
    BY <2>12 DEF NoArtifact, Fail, Freed
  <2>13. CASE Complete(t)
    BY <2>13 DEF Complete, Freed
  <2>14. CASE Expire(t)
    BY <2>14 DEF Expire, Fail, Freed
  <2>15. CASE ReceiveDocument(t)
    BY <2>15 DEF ReceiveDocument, Evictable, WithDocument
  <2>16. CASE RequestFails(t)
    BY <2>16 DEF RequestFails, Fail, Freed
  <2>17. CASE LookupHit(t)
    BY <2>17 DEF LookupHit
  <2>18. CASE LookupMiss(t)
    BY <2>18 DEF LookupMiss
  <2>19. CASE LookupFails(t)
    BY <2>19 DEF LookupFails, Fail, Freed
  <2>20. CASE Download(t)
    BY <2>20 DEF Download
  <2>21. CASE DownloadFails(t)
    BY <2>21 DEF DownloadFails, Fail, Freed
  <2> QED
    BY <1>3, <2>1, <2>2, <2>3, <2>4, <2>5, <2>6, <2>7, <2>8, <2>9, <2>10, <2>11, <2>12, <2>13, <2>14, <2>15, <2>16, <2>17, <2>18, <2>19, <2>20, <2>21 DEF TaskStep, Advance, Answer
<1> QED
    BY <1>1, <1>2, <1>3 DEF Next, TaskStep

\* The documents kept are finitely many, and the count is what they add up to.
Tallied == IsFiniteSet(docs) /\ MetadataAccounted

\* However eviction chooses, what it leaves and the new document are counted.
LEMMA ReceiptTallied ==
    ASSUME TypeOK, Uncached, Tallied, NEW t \in Tasks, ReceiveDocument(t)
    PROVE  Tallied'
<1> DEFINE d == Document(t)
<1>1. d \in Documents /\ d \notin docs
    BY DEF TypeOK, ReceiveDocument, WantsDocument, Uncached
<1> HIDE DEF d
<1>2. PICK evicted \in SUBSET docs :
        /\ (bytes - Size(evicted)) + DocumentBytes[d] <= MetadataLimit \/ evicted = docs
        /\ docs' = (docs \ evicted) \cup {d}
        /\ bytes' = (bytes - Size(evicted)) + DocumentBytes[d]
    BY DEF ReceiveDocument, Evictable, Fits, d
<1> DEFINE kept == docs \ evicted
<1>3. /\ \A x \in docs \cup {d} : DocumentBytes[x] \in Nat
      /\ MetadataLimit \in Nat /\ IsFiniteSet(docs) /\ bytes = Size(docs)
    BY <1>1, FetchAssumption DEF TypeOK, Tallied, MetadataAccounted
<1>4. IsFiniteSet(kept) /\ IsFiniteSet(evicted) /\ d \notin kept
    BY <1>1, <1>3, FS_Subset
<1>5. Size(docs) = Size(evicted) + Size(kept)
    BY <1>3, SumSplit DEF Size
<1>6. Size(evicted) \in Nat /\ Size(kept) \in Nat
    BY <1>3, <1>4, SumNat DEF Size
<1>7. Size(kept \cup {d}) = Size(kept) + DocumentBytes[d]
    BY <1>3, <1>4, SumWith DEF Size
<1>8. IsFiniteSet(kept \cup {d})
    BY <1>4, FS_AddElement
<1>9. evicted = docs => Cardinality(kept \cup {d}) = 1
  <2> SUFFICES ASSUME evicted = docs PROVE Cardinality(kept \cup {d}) = 1
    OBVIOUS
  <2>1. kept \cup {d} = {d}
    OBVIOUS
  <2> QED
    BY <2>1, FS_Singleton
<1> HIDE DEF kept
<1>10. docs' = kept \cup {d}
    BY <1>2 DEF kept
<1>11. bytes' = Size(kept \cup {d})
    BY <1>2, <1>3, <1>5, <1>6, <1>7
<1>12. bytes' <= MetadataLimit \/ Cardinality(kept \cup {d}) = 1
    BY <1>2, <1>9
<1> QED
    BY <1>8, <1>10, <1>11, <1>12 DEF Tallied, MetadataAccounted, Size

\* No other step touches the documents.
LEMMA TalliedStep == TypeOK /\ Uncached /\ Tallied /\ [Next]_vars => Tallied'
<1> SUFFICES ASSUME TypeOK, Uncached, Tallied, [Next]_vars PROVE Tallied'
    OBVIOUS
<1>1. ASSUME UNCHANGED metadata PROVE Tallied'
    BY <1>1 DEF metadata, Tallied, MetadataAccounted, Size
<1>2. CASE UNCHANGED vars
    BY <1>1, <1>2 DEF vars, metadata
<1>3. CASE Tick
    BY <1>1, <1>3 DEF Tick
<1>4. ASSUME NEW t \in Tasks, Start(t) \/ Advance(t) PROVE Tallied'
    BY <1>1, <1>4 DEF Start, Advance, FindDocument, AwaitDocument, TakeDocument, RequestDocument, Reject, EnterFetch, LookupRoot, TakeCompleted, StartLookup, CreateWorkspace, NoArtifact, Complete, Expire
<1>5. ASSUME NEW t \in Tasks, Answer(t) PROVE Tallied'
    BY <1>1, <1>5, ReceiptTallied DEF Answer, RequestFails, LookupHit, LookupMiss, LookupFails, Download, DownloadFails
<1> QED
    BY <1>2, <1>3, <1>4, <1>5 DEF Next

-----------------------------------------------------------------------------
(* Deadlines.                                                                  *)

Running(t) == pc[t] \notin {"idle"} \cup Finished

\* A task that has started keeps its dependency and its deadline; one that is
\* running was so before, or has just set its deadline.
LEMMA Proceeds ==
    ASSUME TypeOK, NEW t \in Tasks, TaskStep(t)
    PROVE  /\ now' = now
           /\ \A u \in Tasks : pc[u] # "idle" =>
                 pc'[u] # "idle" /\ dependency'[u] = dependency[u] /\ deadline'[u] = deadline[u]
           /\ \A u \in Tasks : Running(u)' => Running(u) \/ deadline'[u] >= now
<1> USE FetchAssumption DEF TypeOK, Running, Checked, Finished, WantsDocument, request, metadata, outcome, Goto
<1>1. CASE Start(t)
    BY <1>1 DEF Start
<1>2. CASE FindDocument(t)
    BY <1>2 DEF FindDocument, WithDocument
<1>3. CASE AwaitDocument(t)
    BY <1>3 DEF AwaitDocument
<1>4. CASE TakeDocument(t)
    BY <1>4 DEF TakeDocument, WithDocument
<1>5. CASE RequestDocument(t)
    BY <1>5 DEF RequestDocument
<1>6. CASE Reject(t)
    BY <1>6 DEF Reject, Fail, Freed
<1>7. CASE EnterFetch(t)
    BY <1>7 DEF EnterFetch
<1>8. CASE LookupRoot(t)
    BY <1>8 DEF LookupRoot
<1>9. CASE TakeCompleted(t)
    BY <1>9 DEF TakeCompleted
<1>10. CASE StartLookup(t)
    BY <1>10 DEF StartLookup
<1>11. CASE CreateWorkspace(t)
    BY <1>11 DEF CreateWorkspace
<1>12. CASE NoArtifact(t)
    BY <1>12 DEF NoArtifact, Fail, Freed
<1>13. CASE Complete(t)
    BY <1>13 DEF Complete, Freed
<1>14. CASE Expire(t)
    BY <1>14 DEF Expire, Fail, Freed
<1>15. CASE ReceiveDocument(t)
    BY <1>15 DEF ReceiveDocument, Evictable, WithDocument
<1>16. CASE RequestFails(t)
    BY <1>16 DEF RequestFails, Fail, Freed
<1>17. CASE LookupHit(t)
    BY <1>17 DEF LookupHit
<1>18. CASE LookupMiss(t)
    BY <1>18 DEF LookupMiss
<1>19. CASE LookupFails(t)
    BY <1>19 DEF LookupFails, Fail, Freed
<1>20. CASE Download(t)
    BY <1>20 DEF Download
<1>21. CASE DownloadFails(t)
    BY <1>21 DEF DownloadFails, Fail, Freed
<1> QED
    BY <1>1, <1>2, <1>3, <1>4, <1>5, <1>6, <1>7, <1>8, <1>9, <1>10, <1>11, <1>12, <1>13, <1>14, <1>15, <1>16, <1>17, <1>18, <1>19, <1>20, <1>21 DEF TaskStep, Advance, Answer

\* A deadline passes only while somebody else who is in time holds what is waited for.
LEMMA OverrunsStep ==
    TypeOK /\ TypeOK' /\ LocksHeld /\ OverrunsOnlyBehindPeers /\ [Next]_vars
        => OverrunsOnlyBehindPeers'
<1> SUFFICES ASSUME TypeOK, TypeOK', LocksHeld, OverrunsOnlyBehindPeers,
                    [Next]_vars, NEW t \in Tasks, Running(t)', now' > deadline'[t]
             PROVE  \E u \in Tasks : /\ pc'[u] # "idle"
                                     /\ deadline'[u] >= now'
                                     /\ Needs(u)' \cap Needs(t)' # {}
    BY DEF OverrunsOnlyBehindPeers, Running
<1> USE DEF TypeOK
<1>1. CASE UNCHANGED vars
    BY <1>1 DEF vars, OverrunsOnlyBehindPeers, Needs, Running
<1>2. CASE Tick
  <2>1. /\ UNCHANGED <<pc, dependency, deadline, docLock, stage>>
        /\ now' = now + 1
        /\ Running(t)
    BY <1>2 DEF Tick, request, Running
  <2>2. ~InTime(t)
    BY <2>1 DEF InTime
  <2>3. pc[t] = "await-doc" /\ docLock[Document(t)] # None
    BY <1>2, <2>1, <2>2 DEF Tick, WaitsForPeer, Running
  <2> DEFINE d == Document(t)
  <2>4. d \in Documents
    BY <2>3 DEF WantsDocument
  <2>5. PICK u \in Tasks : u = docLock[d]
    BY <2>3, <2>4
  <2>6. pc[u] = "request" /\ Document(u) = d
    BY <2>3, <2>4, <2>5 DEF LocksHeld
  <2>7. deadline[u] >= now + 1
    BY <1>2, <2>6 DEF Tick, WaitsForPeer, Finished, InTime
  <2>8. d \in Needs(u) /\ d \in Needs(t)
    BY <2>4, <2>6, FetchAssumption DEF Needs, Document
  <2>9. Needs(u)' = Needs(u) /\ Needs(t)' = Needs(t)
    BY <2>1 DEF Needs
  <2> HIDE DEF d
  <2> QED
    BY <2>1, <2>6, <2>7, <2>8, <2>9
<1>3. ASSUME NEW s \in Tasks, TaskStep(s)
      PROVE  \E u \in Tasks : /\ pc'[u] # "idle"
                              /\ deadline'[u] >= now'
                              /\ Needs(u)' \cap Needs(t)' # {}
  <2>1. /\ now' = now
        /\ \A u \in Tasks : pc[u] # "idle" =>
              pc'[u] # "idle" /\ dependency'[u] = dependency[u] /\ deadline'[u] = deadline[u]
        /\ Running(t) \/ deadline'[t] >= now
    BY <1>3, Proceeds
  <2>2. Running(t) /\ pc[t] # "idle" /\ now > deadline[t]
    BY <2>1 DEF Running
  <2>3. PICK u \in Tasks : pc[u] # "idle" /\ deadline[u] >= now /\ Needs(u) \cap Needs(t) # {}
    BY <2>2 DEF OverrunsOnlyBehindPeers, Running
  <2>4. Needs(u)' = Needs(u) /\ Needs(t)' = Needs(t)
    BY <2>1, <2>2, <2>3 DEF Needs
  <2> QED
    BY <2>1, <2>3, <2>4
<1> QED
    BY <1>1, <1>2, <1>3 DEF Next, TaskStep

-----------------------------------------------------------------------------
(* The theorems.                                                               *)

\* The locks decide who may attempt or request; the other conjuncts follow the
\* tables and the clock under them.
IInv ==
    /\ TypeOK
    /\ Idle
    /\ LocksHeld
    /\ Unattempted
    /\ ResultsKept
    /\ Uncached
    /\ Tallied
    /\ OverrunsOnlyBehindPeers

\* The inductive invariant holds before any task begins.
LEMMA InductiveInit == Init => IInv
<1> SUFFICES ASSUME Init PROVE IInv
    OBVIOUS
<1>1. LocksHeld /\ Unattempted /\ ResultsKept
    BY FetchAssumption DEF Init, LocksHeld, Unattempted, Attempting, ResultsKept
<1>2. Uncached /\ OverrunsOnlyBehindPeers
    BY DEF Init, Uncached, OverrunsOnlyBehindPeers
<1>3. Tallied
  <2>1. docs = {} /\ bytes = 0
    BY DEF Init
  <2>2. Size({}) = 0
    BY FS_EmptySet, SumStep DEF Size
  <2> QED
    BY <2>1, <2>2, FS_EmptySet, FetchAssumption DEF Tallied, MetadataAccounted
<1> QED
    BY <1>1, <1>2, <1>3, TypeInit DEF IInv

\* The invariant behind the others: where the tasks are determines who holds
\* each lock, and what is done under a lock stays true while it is held.
THEOREM Inductive == Spec => []IInv
<1>1. IInv /\ [Next]_vars => IInv'
    BY TypeStep, LocksStep, UnattemptedStep, ResultsStep, UncachedStep, TalliedStep, OverrunsStep DEF IInv
<1> QED
    BY <1>1, InductiveInit, PTL DEF Spec

\* Dependencies with one identity are attempted one at a time, and not again once
\* one attempt has succeeded (acquisition.rs).
THEOREM WorkNotRepeated == Spec => []NoRepeatedWork
<1>1. IInv => NoRepeatedWork
    BY FetchAssumption DEF IInv, TypeOK, LocksHeld, Unattempted, NoRepeatedWork
<1> QED
    BY <1>1, Inductive, PTL

\* Whatever fails or times out meanwhile, a result handed out points into a
\* workspace that is kept (fetch_remote_dependency_with_budget).
THEOREM ResultsStayUsable == Spec => []ResultsUsable
<1>1. IInv => ResultsUsable
    BY DEF IInv, ResultsKept, Kept, ResultsUsable
<1> QED
    BY <1>1, Inductive, PTL

\* A metadata document is requested by one task at a time and never while it is
\* cached (npm_metadata_with_budget).
THEOREM DocumentsRequestedOnce == Spec => []RequestedOnce
<1>1. IInv => RequestedOnce
    BY FetchAssumption DEF IInv, TypeOK, LocksHeld, Uncached, RequestedOnce
<1> QED
    BY <1>1, Inductive, PTL

\* Whichever documents cache_npm_metadata evicts, its byte count is that of the
\* documents it keeps, and exceeds the limit only for a document that is alone.
THEOREM MetadataStaysAccounted == Spec => []MetadataAccounted
<1>1. IInv => MetadataAccounted
    BY DEF IInv, Tallied
<1> QED
    BY <1>1, Inductive, PTL

\* An acquisition outlives its deadline only while another one for the same
\* document is within its own (the unbounded wait in npm_metadata_with_budget).
THEOREM OverrunsBounded == Spec => []OverrunsOnlyBehindPeers
<1>1. IInv => OverrunsOnlyBehindPeers
    BY DEF IInv
<1> QED
    BY <1>1, Inductive, PTL

-----------------------------------------------------------------------------
(* Which releases a query resolves to.                                         *)

\* A finite set of releases has one that comes last: by version, then by name.
LEMMA NewestExists ==
  ASSUME NEW S, IsFiniteSet(S), S # {}, \A r \in S : r.version \in Int /\ r.key \in Int
  PROVE  \E r \in S : \A s \in S : s.version < r.version \/ (s.version = r.version /\ s.key <= r.key)
<1> DEFINE Lower(s, r) == s.version < r.version \/ (s.version = r.version /\ s.key <= r.key)
           B == {T \in SUBSET S : T # {} /\ ~ \E r \in T : \A s \in T : Lower(s, r)}
<1> SUFFICES ASSUME B # {} PROVE FALSE
  <2>1. S \notin B
    OBVIOUS
  <2> QED
    BY <2>1
<1>b. B \in SUBSET (SUBSET S)
      /\ \A T \in SUBSET S : T \in B <=> T # {} /\ ~ \E r \in T : \A s \in T : Lower(s, r)
  OBVIOUS
<1> HIDE DEF B
<1>1. PICK T \in B : \A U \in SUBSET T : U # T => U \notin B
  BY <1>b, SmallestPart
<1>2. T \in SUBSET S /\ T # {} /\ ~ \E r \in T : \A s \in T : Lower(s, r)
  BY <1>b, <1>1
<1>3. PICK x \in T : TRUE
  BY <1>2
<1> DEFINE U == T \ {x}
<1>4. U \in SUBSET S /\ U \in SUBSET T /\ U # T
  BY <1>2, <1>3
<1>5. \A r \in T : r.version \in Int /\ r.key \in Int
  BY <1>2
<1>6. CASE U = {}
  <2>1. \A s \in T : s = x
    BY <1>6
  <2>2. \A s \in T : Lower(s, x)
    BY <1>3, <1>5, <2>1
  <2> QED
    BY <1>2, <1>3, <2>2
<1>7. CASE U # {}
  <2>1. U \notin B
    BY <1>1, <1>4
  <2>2. PICK r \in U : \A s \in U : Lower(s, r)
    BY <1>4, <1>7, <1>b, <2>1
  <2>3. r \in T /\ \A s \in T : s \in U \/ s = x
    BY <1>4
  <2>4. r.version \in Int /\ r.key \in Int /\ x.version \in Int /\ x.key \in Int
    BY <1>3, <1>5, <2>3
  <2>5. CASE Lower(x, r)
    BY <1>2, <2>2, <2>3, <2>5
  <2>6. CASE ~Lower(x, r)
    <3>1. Lower(r, x) /\ Lower(x, x)
      BY <2>4, <2>6
    <3>2. ASSUME NEW s \in U PROVE Lower(s, x)
      <4>1. Lower(s, r) /\ s.version \in Int /\ s.key \in Int
        BY <1>4, <1>5, <2>2, <3>2
      <4> QED
        BY <2>4, <3>1, <4>1
    <3> QED
      BY <1>2, <1>3, <2>3, <3>1, <3>2
  <2> QED
    BY <2>5, <2>6
<1> QED
  BY <1>6, <1>7

\* What a query is like.
LEMMA QueryFacts ==
  ASSUME query \in Queries
  PROVE  /\ MaxPackages \in Nat /\ query.count \in Nat
         /\ query.registry \in {"npm", "pypi", "jsr"}
         /\ query.select \in {"newest", "last", "compare", "range", "locked"}
         /\ IsFiniteSet(Releases)
         /\ \A r \in Releases :
              /\ r.version \in Nat \cup {NotAVersion} /\ r.version \in Int /\ r.key \in Int
              /\ r.artifacts \in Seq(Range(r.artifacts))
              /\ query.registry = "npm" => Len(r.artifacts) <= 1
         /\ \A r, s \in Releases : r.raw = s.raw \/ r.key = s.key => r = s
<1> DEFINE n == Len(query.releases)
<1>1. query.releases \in Seq(Range(query.releases))
  BY QueriesAssumption
<1>2. n \in Nat /\ DOMAIN query.releases = 1 .. n
  BY <1>1, LenProperties
<1>3. IsFiniteSet(1 .. n)
  BY <1>2, FS_Interval
<1>4. query.releases \in Surjection(1 .. n, Range(query.releases))
  BY <1>1, <1>2 DEF Surjection, Range
<1>5. IsFiniteSet(Releases)
  BY <1>3, <1>4, FS_Surjection DEF Releases
<1> QED
  BY <1>5, QueriesAssumption DEF Releases, NotAVersion

\* A version can be had when and only when it is offered and can be pinned.
LEMMA PinTells ==
  ASSUME query \in Queries, NEW r \in Releases
  PROVE  Available(r) <=> Offered(r) /\ Pin(r) = "ok"
<1>1. r.artifacts \in Seq(Range(r.artifacts)) /\ (query.registry = "npm" => Len(r.artifacts) <= 1)
  BY QueryFacts
<1>2. DOMAIN r.artifacts = 1 .. Len(r.artifacts) /\ Len(r.artifacts) \in Nat
  BY <1>1, LenProperties
<1>3. CASE Npm
  <2>1. ~Jsr /\ ~PyPI /\ Len(r.artifacts) <= 1
    BY <1>1, <1>3 DEF Npm, Jsr, PyPI
  <2>2. CASE r.artifacts = <<>>
    <3>1. Range(r.artifacts) = {}
      BY <2>2 DEF Range
    <3>2. ~Obtainable(r)
      BY <1>3, <2>1, <3>1 DEF Obtainable
    <3>3. Pin(r) = "gone"
      BY <1>3, <2>1, <2>2 DEF Pin, NpmReleaseIsPullable
    <3> QED
      BY <3>2, <3>3 DEF Available
  <2>3. CASE r.artifacts # <<>>
    <3>0. Len(r.artifacts) # 0
      BY <1>1, <2>3, EmptySeq
    <3>1. Len(r.artifacts) = 1
      <4> DEFINE m == Len(r.artifacts)
      <4>1. m \in Nat /\ m <= 1 /\ m # 0
        BY <1>2, <2>1, <3>0
      <4> HIDE DEF m
      <4>2. m = 1
        BY <4>1
      <4> QED
        BY <4>2 DEF m
    <3>2. Range(r.artifacts) = {r.artifacts[1]}
      BY <1>2, <3>1 DEF Range
    <3>3. Obtainable(r) <=> NpmReleaseIsPullable(r)
      BY <1>3, <2>1, <2>3, <3>2 DEF Obtainable, NpmReleaseIsPullable
    <3>4. Pin(r) = "ok" <=> NpmReleaseIsPullable(r)
      BY <1>3, <2>1 DEF Pin
    <3>5. Offered(r) <=> Parsed(r)
      BY <2>1 DEF Offered
    <3> QED
      BY <3>3, <3>4, <3>5 DEF Available
  <2> QED
    BY <2>2, <2>3
<1>4. CASE PyPI
  <2>1. ~Jsr /\ ~Npm
    BY <1>4 DEF Npm, Jsr, PyPI
  <2>2. Obtainable(r) <=> SourceDistributions(r) # {}
    <3>1. Obtainable(r) <=> \E a \in Range(r.artifacts) : a.sdist /\ a.url /\ ~a.yanked /\ a.sha256 # "none"
      BY <1>4, <2>1 DEF Obtainable
    <3>2. Obtainable(r) <=> \E i \in DOMAIN r.artifacts : IsUsable(r.artifacts[i]) /\ r.artifacts[i].sdist
      BY <3>1 DEF Range, IsUsable
    <3> QED
      BY <3>2 DEF SourceDistributions
  <2>3. Pin(r) = "ok" <=> SourceDistributions(r) # {}
    BY <1>4, <2>1 DEF Pin
  <2>4. Offered(r) <=> Parsed(r)
    BY <2>1 DEF Offered
  <2> QED
    BY <2>2, <2>3, <2>4 DEF Available
<1>5. CASE Jsr
  <2>1. ~PyPI /\ ~Npm
    BY <1>5 DEF Npm, Jsr, PyPI
  <2>2. Pin(r) = r.answer /\ (Obtainable(r) <=> r.answer = "ok" /\ r.yanked = "no")
    BY <1>5, <2>1 DEF Pin, Obtainable
  <2>3. Offered(r) <=> Parsed(r) /\ r.yanked = "no"
    BY <1>5 DEF Offered
  <2> QED
    BY <2>2, <2>3 DEF Available
<1> QED
  BY <1>3, <1>4, <1>5, QueryFacts DEF Npm, PyPI, Jsr

\* A release found by its name alone, too.
LEMMA PinnedIsObtainable ==
  ASSUME query \in Queries, NEW r \in Releases, Pin(r) = "ok", Jsr => Offered(r)
  PROVE  Obtainable(r)
<1>1. CASE Npm
  <2>0. ~PyPI /\ ~Jsr
    BY <1>1 DEF Npm, PyPI, Jsr
  <2>1. NpmReleaseIsPullable(r)
    BY <1>1, <2>0 DEF Pin
  <2>2. r.artifacts # <<>> /\ DOMAIN r.artifacts = 1 .. Len(r.artifacts) /\ Len(r.artifacts) \in Nat
        /\ Len(r.artifacts) # 0
    BY <2>1, QueryFacts, LenProperties, EmptySeq DEF NpmReleaseIsPullable
  <2>3. r.artifacts[1] \in Range(r.artifacts)
    BY <2>2 DEF Range
  <2> QED
    BY <1>1, <2>0, <2>1, <2>3 DEF Obtainable, NpmReleaseIsPullable
<1>2. CASE PyPI
  <2>1. ~Npm /\ ~Jsr
    BY <1>2 DEF Npm, PyPI, Jsr
  <2>2. SourceDistributions(r) # {}
    BY <1>2, <2>1 DEF Pin
  <2>3. PICK i \in DOMAIN r.artifacts : IsUsable(r.artifacts[i]) /\ r.artifacts[i].sdist
    BY <2>2 DEF SourceDistributions
  <2>4. r.artifacts[i] \in Range(r.artifacts)
    BY DEF Range
  <2> QED
    BY <1>2, <2>1, <2>3, <2>4 DEF Obtainable, IsUsable
<1>3. CASE Jsr
  <2>1. Available(r)
    BY <1>3, PinTells
  <2> QED
    BY <2>1 DEF Available
<1> QED
  BY <1>1, <1>2, <1>3, QueryFacts DEF Npm, PyPI, Jsr

\* The releases a requirement may stand for are the admissible ones, and the
\* one it stands for is the last name of the newest version.
LEMMA RequirementMeansTheNewest ==
  ASSUME query \in Queries, query.range, ~JsrReleasesMalformed
  PROVE  /\ Preferred = Admissible /\ Admissible \subseteq Releases
         /\ \A r \in Admissible : Offered(r) /\ (~Jsr => Pin(r) = "ok")
         /\ Admissible = {} => Selected = {}
         /\ Admissible # {} =>
              \E r \in Admissible :
                Selected = {r} /\ r.version = Highest /\ \A s \in Admissible : Foremost(s) => s = r
<1> DEFINE all == {r \in Releases : r.version \in query.accepts /\ (IF Jsr THEN Offered(r) ELSE Available(r))}
<1>1. ASSUME NEW r \in Releases
      PROVE  r \in Satisfying <=> r \in all
  <2>1. CASE Npm
    <3>1. ~Jsr /\ ~PyPI
      BY <2>1 DEF Npm, Jsr, PyPI
    <3>2. Pin(r) = "ok" <=> NpmReleaseIsPullable(r)
      BY <2>1, <3>1 DEF Pin
    <3> QED
      BY <2>1, <3>1, <3>2, PinTells DEF Satisfying
  <2>2. CASE PyPI
    <3>1. ~Jsr /\ ~Npm
      BY <2>2 DEF Npm, Jsr, PyPI
    <3>2. Pin(r) = "ok" <=> SourceDistributions(r) # {}
      BY <2>2, <3>1 DEF Pin
    <3> QED
      BY <2>2, <3>1, <3>2, PinTells DEF Satisfying
  <2>3. CASE Jsr
    <3>1. ~PyPI /\ ~Npm
      BY <2>3 DEF Npm, Jsr, PyPI
    <3> QED
      BY <2>3, <3>1 DEF Satisfying
  <2> QED
    BY <2>1, <2>2, <2>3, QueryFacts DEF Npm, PyPI, Jsr
<1>2. Satisfying = all
  BY <1>1 DEF Satisfying
<1>3. ASSUME NEW r \in all PROVE Offered(r) /\ (~Jsr => Pin(r) = "ok")
  BY <1>3, PinTells
<1> HIDE DEF all
<1>4. Preferred = Admissible /\ Admissible \subseteq all
  <2>1. Admissible = IF PyPI /\ ~query.pre /\ (\E r \in all : ~r.pre) THEN {r \in all : ~r.pre} ELSE all
    BY DEF Admissible, all
  <2>2. Preferred = IF PyPI /\ ~query.pre /\ {r \in all : ~r.pre} # {} THEN {r \in all : ~r.pre} ELSE all
    BY <1>2 DEF Preferred, Finals
  <2>3. (\E r \in all : ~r.pre) <=> {r \in all : ~r.pre} # {}
    OBVIOUS
  <2> QED
    BY <2>1, <2>2, <2>3
<1>5. all \subseteq Releases
  BY DEF all
<1>6. Admissible \subseteq Releases
  BY <1>4, <1>5
<1>7. Selected = IF Admissible = {} THEN {} ELSE {Newest(Admissible)}
  BY <1>4 DEF Selected
<1>8. ASSUME Admissible # {}
      PROVE  \E r \in Admissible :
               Selected = {r} /\ r.version = Highest /\ \A s \in Admissible : Foremost(s) => s = r
  <2>1. IsFiniteSet(Admissible) /\ \A r \in Admissible : r.version \in Int /\ r.key \in Int
    BY <1>6, QueryFacts, FS_Subset
  <2> DEFINE r == Newest(Admissible)
  <2>2. r \in Admissible
        /\ \A s \in Admissible : s.version < r.version \/ (s.version = r.version /\ s.key <= r.key)
    BY <1>8, <2>1, NewestExists DEF Newest
  <2> HIDE DEF r
  <2>3. r.version = Highest
    <3> DEFINE V == {s.version : s \in Admissible}
    <3>1. \A v \in V : v \in Int /\ r.version >= v
      BY <2>1, <2>2
    <3>2. r.version \in V
      BY <2>2
    <3>3. Max(V) \in V /\ \A v \in V : Max(V) >= v
      <4> HIDE DEF V
      <4> QED
        BY <3>1, <3>2 DEF Max
    <3>4. Max(V) = r.version
      <4> HIDE DEF V
      <4> QED
        BY <3>1, <3>2, <3>3
    <3> QED
      BY <3>4 DEF Highest
  <2>4. ASSUME NEW s \in Admissible, Foremost(s) PROVE s = r
    <3>1. r.version < s.version \/ (r.version = s.version /\ r.key <= s.key)
      BY <2>2, <2>4 DEF Foremost
    <3>2. s.key = r.key
      BY <2>1, <2>2, <3>1
    <3> QED
      BY <1>6, <2>2, <3>2, QueryFacts
  <2> QED
    BY <1>7, <1>8, <2>2, <2>3, <2>4 DEF r
<1> QED
  BY <1>3, <1>4, <1>6, <1>7, <1>8

\* What a resolution sets out to pin: releases of the response, each once and
\* none before a newer one, and every one that may matter.
Plan(all) ==
  /\ all \in Seq(Releases) /\ Len(all) > 0
  /\ \A i, j \in 1 .. Len(all) : all[i] = all[j] => i = j
  /\ \A i, j \in 1 .. Len(all) : i < j => all[i].version >= all[j].version
  /\ \A i \in 1 .. Len(all) : (History \/ Jsr) => Offered(all[i])
  /\ query.select \in {"newest", "last", "compare", "range"}
  /\ query.select = "newest" =>
       /\ Len(all) = 1 /\ all[1].version = Highest
       /\ query.range => /\ all[1] \in Admissible /\ (~Jsr => Pin(all[1]) = "ok")
                         /\ \A s \in Admissible : Foremost(s) => s = all[1]
  /\ query.select = "last" =>
       /\ query.count >= 2 /\ all[1].version = Highest
       /\ \A r \in Releases : Offered(r) /\ r.version < Highest => \E i \in 1 .. Len(all) : all[i] = r
  /\ query.select = "compare" => Len(all) = 2 /\ all[1].raw = query.to /\ all[2].raw = query.from
  /\ query.select = "range" =>
       /\ \A r \in Releases : r \in Interval <=> \E i \in 1 .. Len(all) : all[i] = r
       /\ \E r \in Interval : r.raw = query.from
       /\ \E r \in Interval : r.raw = query.to

\* The release a query stands for, whether by a range or by a tag.
LEMMA SelectedRelease ==
  ASSUME query \in Queries, ~JsrReleasesMalformed, Selected # {},
         NEW x, x = CHOOSE r \in Selected : TRUE
  PROVE  /\ x \in Releases /\ x.version = Highest
         /\ Jsr => Offered(x)
         /\ Parsed(x) => Offered(x)
         /\ query.range => /\ x \in Admissible /\ (~Jsr => Pin(x) = "ok")
                           /\ \A s \in Admissible : Foremost(s) => s = x
<1>0. x \in Selected
  OBVIOUS
<1>1. CASE query.range
  <2>1. Admissible # {}
    BY <1>1, RequirementMeansTheNewest
  <2>2. PICK r \in Admissible :
          Selected = {r} /\ r.version = Highest /\ \A s \in Admissible : Foremost(s) => s = r
    BY <1>1, <2>1, RequirementMeansTheNewest
  <2>3. x = r
    BY <1>0, <2>2
  <2>4. Admissible \subseteq Releases /\ Offered(x) /\ (~Jsr => Pin(x) = "ok")
    BY <1>1, <2>2, <2>3, RequirementMeansTheNewest
  <2> QED
    BY <2>2, <2>3, <2>4
<1>2. CASE ~query.range
  <2>1. x \in Tagged
    BY <1>0, <1>2 DEF Selected
  <2>2. x \in Releases /\ Npm /\ x.raw = query.tag
    BY <2>1 DEF Tagged
  <2>3. ~Jsr
    BY <2>2 DEF Npm, Jsr
  <2>4. \A r \in Releases : r.raw = query.tag => r = x
    BY <2>2, QueryFacts
  <2>5. (CHOOSE r \in Releases : r.raw = query.tag) = x
    BY <2>2, <2>4
  <2>6. Highest = x.version
    BY <1>2, <2>5 DEF Highest
  <2> QED
    BY <1>2, <2>2, <2>3, <2>6 DEF Offered
<1> QED
  BY <1>1, <1>2

\* One release is planned: the one the query stands for.
LEMMA NewestIsAPlan ==
  ASSUME query \in Queries, query.select = "newest", ~JsrReleasesMalformed, Selected # {}
  PROVE  Plan(<<CHOOSE r \in Selected : TRUE>>)
<1> DEFINE x == CHOOSE r \in Selected : TRUE
           all == <<x>>
<1>1. /\ x \in Releases /\ x.version = Highest /\ (Jsr => Offered(x))
      /\ query.range => /\ x \in Admissible /\ (~Jsr => Pin(x) = "ok")
                        /\ \A s \in Admissible : Foremost(s) => s = x
  BY SelectedRelease
<1>2. ~History
  BY DEF History
<1> HIDE DEF x
<1>3. all \in Seq(Releases) /\ Len(all) = 1 /\ all[1] = x
  BY <1>1
<1> HIDE DEF all
<1>4. \A i \in 1 .. Len(all) : i = 1
  BY <1>3
<1>5. all[1] \in Releases /\ all[1].version = Highest
      /\ \A i \in 1 .. Len(all) : (History \/ Jsr) => Offered(all[i])
  BY <1>1, <1>2, <1>3, <1>4
<1>6. query.range => /\ all[1] \in Admissible /\ (~Jsr => Pin(all[1]) = "ok")
                     /\ \A s \in Admissible : Foremost(s) => s = all[1]
  BY <1>1, <1>3
<1>7. Plan(all)
  BY <1>3, <1>4, <1>5, <1>6 DEF Plan
<1> QED
  BY <1>7 DEF all, x

\* All releases older than one, that one first and every one before the older.
StartsWith(all, x) ==
  /\ all \in Seq(Releases) /\ Len(all) = Cardinality(Older(x)) + 1 /\ all[1] = x
  /\ Len(all) \in Nat
  /\ \A i, j \in 1 .. Len(all) : all[i] = all[j] => i = j
  /\ \A i, j \in 1 .. Len(all) : i < j => all[i].version >= all[j].version
  /\ \A i \in 1 .. Len(all) : Offered(all[i])
  /\ \A r \in Older(x) : \E i \in 1 .. Len(all) : all[i] = r

\* After the newest release come those of a lower version, newest first.
LEMMA SelectedThenOlder ==
  ASSUME query \in Queries, NEW x \in Releases, Offered(x), NEW older \in NewestFirst(Older(x))
  PROVE  StartsWith(<<x>> \o older, x)
<1> DEFINE all == <<x>> \o older
<1> DEFINE S == Older(x)
           n == Len(older)
<1>1. IsFiniteSet(S) /\ S \subseteq Releases /\ \A r \in S : Offered(r) /\ r.version < x.version
  BY QueryFacts, FS_Subset DEF Older
<1>2. older \in SetToSeqs(S) /\ \A i, j \in DOMAIN older : i < j => older[i].version >= older[j].version
  BY DEF NewestFirst
<1>3. /\ older \in Seq(S) /\ n = Cardinality(S) /\ n \in Nat /\ DOMAIN older = 1 .. n
      /\ \A i, j \in 1 .. n : older[i] = older[j] => i = j
      /\ \A r \in S : \E i \in 1 .. n : older[i] = r
  <2> HIDE DEF S
  <2> QED
    BY <1>1, <1>2, Enumerated
<1>4. \A i \in 1 .. n : older[i] \in S
  BY <1>3, ElementOfSeq
<1>5. \A r \in Releases : r.version \in Int
  BY QueryFacts
<1>6. all \in Seq(Releases) /\ Len(all) = n + 1 /\ all[1] = x
      /\ \A i \in 1 .. n + 1 : i # 1 => all[i] = older[i - 1]
  <2>1. older \in Seq(Releases) /\ <<x>> \in Seq(Releases) /\ Len(<<x>>) = 1 /\ <<x>>[1] = x
    BY <1>1, <1>3, SeqMonotonic
  <2> QED
    BY <1>3, <2>1, ConcatProperties
<1> HIDE DEF S, n, all
<1>7. \A i \in 1 .. n + 1 : i # 1 => i - 1 \in 1 .. n /\ all[i] \in S
  <2> TAKE i \in 1 .. n + 1
  <2> HAVE i # 1
  <2>1. i - 1 \in 1 .. n
    BY <1>3
  <2> QED
    BY <1>4, <1>6, <2>1
<1>8. ASSUME NEW i \in 1 .. n + 1, NEW j \in 1 .. n + 1, all[i] = all[j] PROVE i = j
  <2>1. CASE i = 1 /\ j # 1
    <3>1. x \in S
      BY <1>6, <1>7, <1>8, <2>1
    <3>2. x.version < x.version /\ x.version \in Int
      BY <1>1, <1>5, <3>1
    <3> QED
      BY <3>2
  <2>2. CASE i # 1 /\ j = 1
    <3>1. x \in S
      BY <1>6, <1>7, <1>8, <2>2
    <3>2. x.version < x.version /\ x.version \in Int
      BY <1>1, <1>5, <3>1
    <3> QED
      BY <3>2
  <2>3. CASE i # 1 /\ j # 1
    <3>1. i - 1 \in 1 .. n /\ j - 1 \in 1 .. n /\ older[i - 1] = older[j - 1]
      BY <1>6, <1>7, <1>8, <2>3
    <3>2. i - 1 = j - 1
      BY <1>3, <3>1
    <3> QED
      BY <1>3, <3>2
  <2> QED
    BY <2>1, <2>2, <2>3
<1>9. ASSUME NEW i \in 1 .. n + 1, NEW j \in 1 .. n + 1, i < j PROVE all[i].version >= all[j].version
  <2>0. j # 1
    BY <1>3, <1>9
  <2>1. j # 1 /\ j - 1 \in 1 .. n /\ all[j] \in S /\ all[j] = older[j - 1]
    BY <1>6, <1>7, <2>0
  <2>2. CASE i = 1
    <3>1. all[j].version < x.version /\ all[j].version \in Int /\ x.version \in Int
      BY <1>1, <1>5, <2>1
    <3> QED
      BY <1>6, <2>2, <3>1
  <2>3. CASE i # 1
    <3>1. i - 1 \in 1 .. n /\ all[i] = older[i - 1]
      BY <1>6, <1>7, <2>3
    <3>2. i - 1 < j - 1
      BY <1>3, <1>9
    <3>3. i - 1 \in DOMAIN older /\ j - 1 \in DOMAIN older
      BY <1>3, <2>1, <3>1
    <3>4. older[i - 1].version >= older[j - 1].version
      BY <1>2, <3>2, <3>3
    <3> QED
      BY <2>1, <3>1, <3>4
  <2> QED
    BY <2>2, <2>3
<1>10. \A i \in 1 .. n + 1 : Offered(all[i])
  BY <1>1, <1>6, <1>7
<1>11. \A r \in S : \E i \in 1 .. n + 1 : all[i] = r
  <2> TAKE r \in S
  <2>1. PICK i \in 1 .. n : older[i] = r
    BY <1>3
  <2>2. i + 1 \in 1 .. n + 1 /\ i + 1 # 1 /\ (i + 1) - 1 = i
    BY <1>3
  <2> QED
    BY <1>6, <2>1, <2>2
<1>12. n + 1 \in Nat
  BY <1>3
<1>13. StartsWith(all, x)
  BY <1>3, <1>6, <1>8, <1>9, <1>10, <1>11, <1>12 DEF S, StartsWith
<1> QED
  BY <1>13 DEF all

\* For the last n releases the newest and all older ones are planned.
LEMMA LastIsAPlan ==
  ASSUME query \in Queries, query.select = "last", query.count >= 2, ~JsrReleasesMalformed,
         Selected # {}, NEW x, x = CHOOSE r \in Selected : TRUE, Parsed(x),
         NEW older \in NewestFirst(Older(x))
  PROVE  Plan(<<x>> \o older)
<1> DEFINE all == <<x>> \o older
<1>1. x \in Releases /\ x.version = Highest /\ Offered(x)
  BY SelectedRelease
<1>2. StartsWith(all, x)
  BY <1>1, SelectedThenOlder
<1> HIDE DEF all
<1>3. Len(all) > 0
  <2>1. IsFiniteSet(Older(x))
    BY QueryFacts, FS_Subset DEF Older
  <2>2. Cardinality(Older(x)) \in Nat
    BY <2>1, FS_CardinalityType
  <2> QED
    BY <1>2, <2>2 DEF StartsWith
<1>4. \A r \in Releases : Offered(r) /\ r.version < Highest => r \in Older(x)
  BY <1>1 DEF Older
<1>5. Plan(all)
  BY <1>1, <1>2, <1>3, <1>4 DEF Plan, StartsWith
<1> QED
  BY <1>5 DEF all

\* The endpoints of a comparison or of a range.
LEMMA EndpointFacts ==
  ASSUME query \in Queries, EndpointsValid
  PROVE  \E from, to \in Releases :
           /\ Endpoint(query.from) = {from} /\ Endpoint(query.to) = {to}
           /\ from.raw = query.from /\ to.raw = query.to
           /\ Offered(from) /\ Offered(to) /\ from.version < to.version
           /\ Version(query.from) = from.version /\ Version(query.to) = to.version
<1>1. PICK from \in Endpoint(query.from), to \in Endpoint(query.to) : from.version < to.version
  BY DEF EndpointsValid
<1>2. /\ from \in Releases /\ from.raw = query.from /\ Offered(from)
      /\ to \in Releases /\ to.raw = query.to /\ Offered(to)
  BY DEF Endpoint
<1>3. \A r \in Releases : (r.raw = query.from <=> r = from) /\ (r.raw = query.to <=> r = to)
  BY <1>2, QueryFacts
<1>4. Endpoint(query.from) = {from} /\ Endpoint(query.to) = {to}
  BY <1>2, <1>3 DEF Endpoint
<1>5. (CHOOSE r \in Releases : r.raw = query.from) = from /\ (CHOOSE r \in Releases : r.raw = query.to) = to
  BY <1>2, <1>3
<1> QED
  BY <1>1, <1>2, <1>4, <1>5 DEF Version

\* For a comparison the two endpoints are planned, the later one first.
LEMMA CompareIsAPlan ==
  ASSUME query \in Queries, query.select = "compare", EndpointsValid
  PROVE  Plan(<<CHOOSE r \in Endpoint(query.to) : TRUE, CHOOSE r \in Endpoint(query.from) : TRUE>>)
<1>1. PICK from \in Releases, to \in Releases :
        /\ Endpoint(query.from) = {from} /\ Endpoint(query.to) = {to}
        /\ from.raw = query.from /\ to.raw = query.to
        /\ Offered(from) /\ Offered(to) /\ from.version < to.version
  BY EndpointFacts
<1>2. (CHOOSE r \in Endpoint(query.to) : TRUE) = to /\ (CHOOSE r \in Endpoint(query.from) : TRUE) = from
  BY <1>1
<1> DEFINE all == <<to, from>>
<1>3. all \in Seq(Releases) /\ Len(all) = 2 /\ all[1] = to /\ all[2] = from
  BY <1>1
<1> HIDE DEF all
<1>4. \A i \in 1 .. Len(all) : i = 1 \/ i = 2
  BY <1>3
<1>5. to.version \in Int /\ from.version \in Int
  BY <1>1, QueryFacts
<1>6. /\ \A i, j \in 1 .. Len(all) : all[i] = all[j] => i = j
      /\ \A i, j \in 1 .. Len(all) : i < j => all[i].version >= all[j].version
      /\ \A i \in 1 .. Len(all) : Offered(all[i])
  BY <1>1, <1>3, <1>4, <1>5
<1>7. Plan(all)
  BY <1>1, <1>3, <1>6 DEF Plan
<1> QED
  BY <1>2, <1>7 DEF all

\* For a range all available releases between its endpoints are planned.
LEMMA RangeIsAPlan ==
  ASSUME query \in Queries, query.select = "range", EndpointsValid, NEW all \in NewestFirst(Interval)
  PROVE  Plan(all)
<1>1. PICK from \in Releases, to \in Releases :
        /\ from.raw = query.from /\ to.raw = query.to
        /\ Offered(from) /\ Offered(to) /\ from.version < to.version
        /\ Version(query.from) = from.version /\ Version(query.to) = to.version
  BY EndpointFacts
<1>2. \A r \in Releases : r.version \in Int
  BY QueryFacts
<1>3. from \in Interval /\ to \in Interval
  BY <1>1, <1>2 DEF Interval
<1>4. IsFiniteSet(Interval) /\ Interval \subseteq Releases /\ \A r \in Interval : Offered(r)
  BY QueryFacts, FS_Subset DEF Interval
<1>5. all \in SetToSeqs(Interval) /\ \A i, j \in DOMAIN all : i < j => all[i].version >= all[j].version
  BY DEF NewestFirst
<1>6. /\ all \in Seq(Interval) /\ Len(all) = Cardinality(Interval) /\ Cardinality(Interval) \in Nat
      /\ DOMAIN all = 1 .. Len(all)
      /\ \A i, j \in 1 .. Len(all) : all[i] = all[j] => i = j
      /\ \A x \in Interval : \E i \in 1 .. Len(all) : all[i] = x
  BY <1>4, <1>5, Enumerated
<1>7. all \in Seq(Releases) /\ Len(all) \in Nat
  BY <1>4, <1>6, SeqMonotonic
<1>8. \A i \in 1 .. Len(all) : all[i] \in Interval
  BY <1>6, ElementOfSeq
<1>9. Len(all) > 0
  BY <1>3, <1>6, <1>7
<1> QED
  BY <1>1, <1>3, <1>4, <1>5, <1>6, <1>7, <1>8, <1>9 DEF Plan

\* Releases told apart are no more than the releases there are.
LEMMA NoMoreThanOffered ==
  ASSUME query \in Queries, NEW all \in Seq(Releases), NEW n \in Nat, n <= Len(all),
         \A i, j \in 1 .. Len(all) : all[i] = all[j] => i = j,
         \A i \in 1 .. Len(all) : Offered(all[i])
  PROVE  n <= Cardinality({r \in Releases : Offered(r)})
<1> DEFINE S == {r \in Releases : Offered(r)}
           f == [i \in 1 .. n |-> all[i]]
<1>1. IsFiniteSet(S)
  BY QueryFacts, FS_Subset
<1>2. Len(all) \in Nat /\ \A i \in 1 .. n : i \in 1 .. Len(all) /\ all[i] \in S
  BY ElementOfSeq, LenProperties
<1> HIDE DEF S
<1>3. f \in [1 .. n -> S] /\ \A i, j \in 1 .. n : f[i] = f[j] => i = j
  BY <1>2
<1>4. f \in Injection(1 .. n, S)
  BY <1>3 DEF Injection, IsInjective
<1>5. Cardinality(1 .. n) = n
  BY FS_Interval
<1> HIDE DEF f
<1>6. Cardinality(1 .. n) <= Cardinality(S)
  BY <1>1, <1>4, FS_Injection
<1> QED
  BY <1>5, <1>6 DEF S

\* What has been pinned so far of what is to be pinned.
Progress(all) ==
  /\ Plan(all)
  /\ checked \in 0 .. Len(all)
  /\ candidates \in Seq(Releases)
  /\ \/ /\ Len(candidates) = Len(all) - checked
        /\ \A i \in 1 .. Len(candidates) : candidates[i] = all[checked + i]
     \/ candidates = <<>> /\ query.select = "last" /\ Len(resolved) = query.count
  /\ resolved \in Seq(Releases) /\ Len(resolved) <= checked
  /\ \A i \in 1 .. Len(resolved) : \E k \in 1 .. checked : all[k] = resolved[i] /\ Pin(all[k]) = "ok"
  /\ \A k \in 1 .. checked :
       \/ Pin(all[k]) = "ok" /\ \E i \in 1 .. Len(resolved) : resolved[i] = all[k]
       \/ Pin(all[k]) = "gone" /\ MayBeGone(all[k])
  /\ \A i, j \in 1 .. Len(resolved) : i < j =>
       \E k, l \in 1 .. checked : k < l /\ all[k] = resolved[i] /\ all[l] = resolved[j]
  /\ History => Len(resolved) <= MaxPackages
  /\ query.select = "last" =>
       Len(resolved) <= query.count /\ (candidates # <<>> => Len(resolved) < query.count)

LockedRelease ==
  \E r \in Releases : resolved = <<r>> /\ (PyPI => LockedArtifacts(r) # {})

RefusedForWantOfIt ==
  phase = "resolution" /\ query.select = "newest" /\ query.range /\ ~JsrReleasesMalformed =>
    \A r \in Admissible : Foremost(r) => ~Obtainable(r)

RefusedForTheirNumber ==
  phase = "limit" => Cardinality({r \in Releases : Offered(r)}) > MaxPackages

VersionsInv ==
  /\ query \in Queries
  /\ phase = "select" => candidates = <<>> /\ checked = 0 /\ resolved = <<>>
  /\ phase = "pin" => \E all : Progress(all)
  /\ phase = "done" =>
       IF query.select = "locked" THEN LockedRelease
       ELSE /\ candidates = <<>> /\ (History => Len(resolved) >= 2)
            /\ \E all : Progress(all)
  /\ RefusedForWantOfIt /\ RefusedForTheirNumber

\* Nothing but the query decides what is to be pinned.
LEMMA SameQuery ==
  ASSUME query' = query
  PROVE  /\ Npm' = Npm /\ PyPI' = PyPI /\ Jsr' = Jsr /\ History' = History
         /\ Releases' = Releases
         /\ \A r : Offered(r)' = Offered(r) /\ Pin(r)' = Pin(r) /\ MayBeGone(r)' = MayBeGone(r)
         /\ Admissible' = Admissible /\ Highest' = Highest
         /\ \A all : Plan(all)' = Plan(all)
         /\ \A r : /\ Foremost(r)' = Foremost(r) /\ Obtainable(r)' = Obtainable(r)
                  /\ LockedArtifacts(r)' = LockedArtifacts(r)
         /\ JsrReleasesMalformed' = JsrReleasesMalformed
         /\ {r \in Releases : Offered(r)}' = {r \in Releases : Offered(r)}
<1>1. Npm' = Npm /\ PyPI' = PyPI /\ Jsr' = Jsr /\ History' = History
  BY DEF Npm, PyPI, Jsr, History
<1>2. Releases' = Releases
  BY DEF Releases
<1>3. \A r : Offered(r)' = Offered(r)
  BY <1>1 DEF Offered
<1>4. \A r : Pin(r)' = Pin(r)
  BY <1>1 DEF Pin
<1>5. \A r : MayBeGone(r)' = MayBeGone(r)
  BY DEF MayBeGone
<1>6. \A r : Obtainable(r)' = Obtainable(r) /\ Available(r)' = Available(r)
  BY <1>1 DEF Available, Obtainable
<1>7. Admissible' = Admissible
  BY <1>1, <1>2, <1>3, <1>6 DEF Admissible
<1>8. Highest' = Highest
  BY <1>2, <1>7 DEF Highest
<1>9. \A raw : Version(raw)' = Version(raw)
  BY <1>2 DEF Version
<1>10. Interval' = Interval
  BY <1>2, <1>3, <1>9 DEF Interval
<1>11. \A r : Foremost(r)' = Foremost(r)
  BY <1>7 DEF Foremost
<1>12. ASSUME NEW all PROVE Plan(all)' = Plan(all)
  BY <1>1, <1>2, <1>3, <1>4, <1>7, <1>8, <1>10, <1>11 DEF Plan
<1>13. \A r : LockedArtifacts(r)' = LockedArtifacts(r)
  BY DEF LockedArtifacts
<1>14. JsrReleasesMalformed' = JsrReleasesMalformed
  BY <1>1, <1>2 DEF JsrReleasesMalformed
<1>15. {r \in Releases : Offered(r)}' = {r \in Releases : Offered(r)}
  BY <1>2, <1>3
<1> QED
  BY <1>1, <1>2, <1>3, <1>4, <1>5, <1>6, <1>7, <1>8, <1>11, <1>12, <1>13, <1>14, <1>15

\* A resolution starts with everything still to be pinned.
LEMMA PlanTaken ==
  ASSUME query \in Queries, candidates = <<>>, checked = 0, resolved = <<>>, NEW all, Plan(all), Take(all)
  PROVE  Progress(all)'
<1>1. query' = query /\ checked' = 0 /\ resolved' = <<>> /\ candidates' = all
  BY DEF Take
<1>2. Plan(all)' /\ History' = History
  BY <1>1, SameQuery
<1>3. all \in Seq(Releases) /\ Len(all) \in Nat /\ (query.select = "last" => query.count >= 2)
  BY LenProperties DEF Plan
<1>4. MaxPackages \in Nat /\ query.count \in Nat
  BY QueryFacts
<1>5. <<>> \in Seq(Releases) /\ Len(<<>>) = 0 /\ 1 .. 0 = {}
  BY EmptySeq
<1>6. candidates' \in Seq(Releases)' /\ Releases' = Releases
  BY <1>1, <1>3, SameQuery
<1>7. resolved' \in Seq(Releases)' /\ Len(resolved') = 0
  BY <1>1, <1>5, <1>6
<1>8. Len(candidates)' = Len(all) - checked'
      /\ \A i \in 1 .. Len(candidates') : candidates'[i] = all[checked' + i]
  BY <1>1, <1>3
<1>9. checked' \in 0 .. Len(all) /\ Len(resolved') <= checked' /\ 1 .. Len(resolved') = {} /\ 1 .. checked' = {}
  BY <1>1, <1>3, <1>5, <1>7
<1> QED
  BY <1>1, <1>2, <1>3, <1>4, <1>6, <1>7, <1>8, <1>9 DEF Progress

\* The next candidate is the next release of the plan.
LEMMA NextCandidate ==
  ASSUME query \in Queries, NEW all, Progress(all), candidates # <<>>
  PROVE  /\ all \in Seq(Releases) /\ Len(all) \in Nat /\ checked \in Nat /\ Len(resolved) \in Nat
         /\ Len(candidates) \in Nat
         /\ checked + 1 \in 1 .. Len(all) /\ Head(candidates) = all[checked + 1]
         /\ all[checked + 1] \in Releases
         /\ Tail(candidates) \in Seq(Releases) /\ Len(Tail(candidates)) = Len(all) - (checked + 1)
         /\ \A i \in 1 .. Len(Tail(candidates)) : Tail(candidates)[i] = all[checked + 1 + i]
<1>1. all \in Seq(Releases) /\ Len(all) \in Nat /\ checked \in 0 .. Len(all)
      /\ candidates \in Seq(Releases) /\ Len(candidates) \in Nat /\ Len(resolved) \in Nat
  BY LenProperties DEF Progress, Plan
<1>2. Len(candidates) = Len(all) - checked /\ \A i \in 1 .. Len(candidates) : candidates[i] = all[checked + i]
  BY DEF Progress
<1>3. Len(candidates) # 0
  BY <1>1, EmptySeq
<1>4. checked + 1 \in 1 .. Len(all) /\ 1 \in 1 .. Len(candidates)
  BY <1>1, <1>2, <1>3
<1>5. Head(candidates) = all[checked + 1] /\ all[checked + 1] \in Releases
  BY <1>1, <1>2, <1>4, HeadTailProperties, ElementOfSeq
<1>6. Tail(candidates) \in Seq(Releases) /\ Len(Tail(candidates)) = Len(candidates) - 1
      /\ \A i \in 1 .. Len(Tail(candidates)) : Tail(candidates)[i] = candidates[i + 1]
  BY <1>1, HeadTailProperties
<1>7. ASSUME NEW i \in 1 .. Len(Tail(candidates)) PROVE Tail(candidates)[i] = all[checked + 1 + i]
  <2>1. i + 1 \in 1 .. Len(candidates) /\ checked + (i + 1) = checked + 1 + i
    BY <1>1, <1>6
  <2> QED
    BY <1>2, <1>6, <2>1
<1> QED
  BY <1>1, <1>2, <1>4, <1>5, <1>6, <1>7

\* A release that has vanished is passed over.
LEMMA ReleasePassedOver ==
  ASSUME query \in Queries, NEW all, Progress(all), candidates # <<>>,
         Pin(Head(candidates)) = "gone", MayBeGone(Head(candidates)),
         candidates' = Tail(candidates), checked' = checked + 1, UNCHANGED <<query, resolved>>
  PROVE  Progress(all)'
<1>0. /\ all \in Seq(Releases) /\ Len(all) \in Nat /\ checked \in Nat /\ Len(resolved) \in Nat
      /\ Len(candidates) \in Nat
      /\ checked + 1 \in 1 .. Len(all) /\ Head(candidates) = all[checked + 1]
      /\ candidates' \in Seq(Releases) /\ Len(candidates') = Len(all) - (checked + 1)
      /\ \A i \in 1 .. Len(candidates') : candidates'[i] = all[checked + 1 + i]
  BY NextCandidate
<1>1. query' = query /\ resolved' = resolved /\ checked' = checked + 1
  OBVIOUS
<1>2. Plan(all)' = Plan(all) /\ History' = History /\ Releases' = Releases
      /\ \A r : Pin(r)' = Pin(r) /\ MayBeGone(r)' = MayBeGone(r)
  BY SameQuery
<1>3. \A k \in 1 .. checked + 1 : k \in 1 .. checked \/ k = checked + 1
  BY <1>0
<1>4. \A k \in 1 .. checked : k \in 1 .. checked + 1
  BY <1>0
<1>5. \A k \in 1 .. checked + 1 :
        \/ Pin(all[k]) = "ok" /\ \E i \in 1 .. Len(resolved) : resolved[i] = all[k]
        \/ Pin(all[k]) = "gone" /\ MayBeGone(all[k])
  BY <1>0, <1>3 DEF Progress
<1>6. \A i \in 1 .. Len(resolved) : \E k \in 1 .. checked + 1 : all[k] = resolved[i] /\ Pin(all[k]) = "ok"
  BY <1>4 DEF Progress
<1> DEFINE InOrder(r, n) ==
             \A i, j \in 1 .. Len(r) : i < j => \E k, l \in 1 .. n : k < l /\ all[k] = r[i] /\ all[l] = r[j]
<1>7. InOrder(resolved, checked + 1)
  BY <1>4 DEF Progress
<1> HIDE DEF InOrder
<1>8. checked + 1 \in 0 .. Len(all) /\ Len(resolved) <= checked + 1
  BY <1>0 DEF Progress
<1>9. query.select = "last" =>
        Len(resolved) <= query.count /\ (candidates' # <<>> => Len(resolved) < query.count)
  BY DEF Progress
<1>10. \A k \in 1 .. checked' :
         \/ Pin(all[k])' = "ok" /\ \E i \in 1 .. Len(resolved') : resolved'[i] = all[k]
         \/ Pin(all[k])' = "gone" /\ MayBeGone(all[k])'
  BY ONLY <1>1, <1>2, <1>5
<1>13. \A i \in 1 .. Len(resolved') : \E k \in 1 .. checked' : all[k] = resolved'[i] /\ Pin(all[k])' = "ok"
  BY ONLY <1>1, <1>2, <1>6
<1>14. InOrder(resolved', checked')
  BY ONLY <1>1, <1>7
<1>11. Plan(all) /\ resolved \in Seq(Releases) /\ (History => Len(resolved) <= MaxPackages)
  BY DEF Progress
<1>12. /\ checked' \in 0 .. Len(all) /\ resolved' \in Seq(Releases)' /\ Len(resolved') <= checked'
       /\ candidates' \in Seq(Releases)' /\ Plan(all)'
       /\ Len(candidates') = Len(all) - checked'
       /\ \A i \in 1 .. Len(candidates') : candidates'[i] = all[checked' + i]
       /\ History' => Len(resolved') <= MaxPackages
  BY ONLY <1>0, <1>1, <1>2, <1>8, <1>11
<1> QED
  BY ONLY <1>1, <1>9, <1>10, <1>12, <1>13, <1>14 DEF Progress, InOrder

\* A release that can be had is resolved, and the last of them when there are
\* enough.
LEMMA ReleasePinned ==
  ASSUME query \in Queries, NEW all, Progress(all), candidates # <<>>,
         Pin(Head(candidates)) = "ok", ~(History /\ Len(resolved) + 1 > MaxPackages),
         resolved' = Append(resolved, Head(candidates)),
         candidates' = IF Enough(Len(resolved) + 1) THEN <<>> ELSE Tail(candidates),
         checked' = checked + 1, UNCHANGED query
  PROVE  Progress(all)'
<1> DEFINE n == Len(resolved)
           x == all[checked + 1]
           new == resolved'
<1>0. /\ all \in Seq(Releases) /\ Len(all) \in Nat /\ checked \in Nat /\ n \in Nat
      /\ checked + 1 \in 1 .. Len(all) /\ Head(candidates) = x /\ x \in Releases
      /\ Tail(candidates) \in Seq(Releases) /\ Len(Tail(candidates)) = Len(all) - (checked + 1)
      /\ \A i \in 1 .. Len(Tail(candidates)) : Tail(candidates)[i] = all[checked + 1 + i]
  BY NextCandidate
<1>1. Pin(x) = "ok" /\ checked' = checked + 1
  BY <1>0
<1>2. Plan(all)' = Plan(all) /\ History' = History /\ Releases' = Releases
      /\ \A r : Pin(r)' = Pin(r) /\ MayBeGone(r)' = MayBeGone(r)
  BY SameQuery
<1>3. new \in Seq(Releases) /\ Len(new) = n + 1 /\ new[n + 1] = x /\ \A i \in 1 .. n : new[i] = resolved[i]
  <2>1. resolved \in Seq(Releases) /\ new = Append(resolved, x)
    BY <1>0 DEF Progress
  <2> QED
    BY <1>0, <2>1, AppendProperties
<1> HIDE DEF x, n, new
<1>4. (\A k \in 1 .. checked + 1 : k \in 1 .. checked \/ k = checked + 1)
      /\ (\A k \in 1 .. checked : k \in 1 .. checked + 1 /\ k < checked + 1)
      /\ checked + 1 \in 1 .. checked + 1
  BY <1>0
<1>5. (\A i \in 1 .. n + 1 : i \in 1 .. n \/ i = n + 1)
      /\ (\A i \in 1 .. n : i \in 1 .. n + 1 /\ ~(n + 1 < i))
      /\ n + 1 \in 1 .. n + 1 /\ ~(n + 1 < n + 1)
  BY <1>0
<1>6. \A k \in 1 .. checked + 1 :
        \/ Pin(all[k]) = "ok" /\ \E i \in 1 .. n + 1 : new[i] = all[k]
        \/ Pin(all[k]) = "gone" /\ MayBeGone(all[k])
  <2> TAKE k \in 1 .. checked + 1
  <2>1. CASE k = checked + 1
    BY <1>1, <1>3, <1>5, <2>1 DEF x
  <2>2. CASE k \in 1 .. checked
    BY <1>3, <1>5, <2>2 DEF Progress, n
  <2> QED
    BY <1>4, <2>1, <2>2
<1>7. \A i \in 1 .. n + 1 : \E k \in 1 .. checked + 1 : all[k] = new[i] /\ Pin(all[k]) = "ok"
  <2> TAKE i \in 1 .. n + 1
  <2>1. CASE i = n + 1
    BY <1>1, <1>3, <1>4, <2>1 DEF x
  <2>2. CASE i \in 1 .. n
    <3>1. PICK k \in 1 .. checked : all[k] = resolved[i] /\ Pin(all[k]) = "ok"
      BY <2>2 DEF Progress, n
    <3> QED
      BY <1>3, <1>4, <2>2, <3>1
  <2> QED
    BY <1>5, <2>1, <2>2
<1> DEFINE InOrder(r, m, t) ==
             \A i, j \in 1 .. m : i < j => \E k, l \in 1 .. t : k < l /\ all[k] = r[i] /\ all[l] = r[j]
<1>8. InOrder(new, n + 1, checked + 1)
  <2> TAKE i, j \in 1 .. n + 1
  <2> HAVE i < j
  <2>1. i \in 1 .. n
    BY <1>5
  <2>2. CASE j = n + 1
    <3>1. PICK k \in 1 .. checked : all[k] = resolved[i]
      BY <2>1 DEF Progress, n
    <3> QED
      BY <1>3, <1>4, <2>1, <2>2, <3>1 DEF x
  <2>3. CASE j \in 1 .. n
    <3>1. PICK k \in 1 .. checked, l \in 1 .. checked : k < l /\ all[k] = resolved[i] /\ all[l] = resolved[j]
      BY <2>1, <2>3 DEF Progress, n
    <3> QED
      BY <1>3, <1>4, <2>1, <2>3, <3>1
  <2> QED
    BY <1>5, <2>2, <2>3
<1>9. checked + 1 \in 0 .. Len(all) /\ Len(new) <= checked + 1
  BY <1>0, <1>3 DEF Progress, n
<1>10. History => Len(new) <= MaxPackages
  BY <1>0, <1>3, QueryFacts DEF n
<1>11. query.select = "last" => n < query.count
  BY <1>0 DEF Progress, n
<1>12. query.select = "last" => Len(new) <= query.count /\ (candidates' # <<>> => Len(new) < query.count)
  <2>1. query.count \in Nat
    BY QueryFacts
  <2>2. query.select = "last" /\ n + 1 = query.count => candidates' = <<>>
    BY DEF Enough, n
  <2>3. n \in Nat /\ Len(new) = n + 1
    BY <1>0, <1>3
  <2> QED
    BY ONLY <1>11, <2>1, <2>2, <2>3
<1>13. /\ candidates' \in Seq(Releases)
       /\ \/ /\ Len(candidates') = Len(all) - (checked + 1)
             /\ \A i \in 1 .. Len(candidates') : candidates'[i] = all[checked + 1 + i]
          \/ candidates' = <<>> /\ query.select = "last" /\ Len(new) = query.count
  <2>1. CASE Enough(n + 1)
    BY <1>3, <2>1, EmptySeq DEF Enough, n
  <2>2. CASE ~Enough(n + 1)
    BY <1>0, <2>2 DEF n
  <2> QED
    BY <2>1, <2>2
<1>14. resolved' = new /\ Len(new) = n + 1 /\ checked' = checked + 1
  BY <1>1, <1>3 DEF new
<1>15. \A k \in 1 .. checked' :
         \/ Pin(all[k])' = "ok" /\ \E i \in 1 .. Len(resolved') : resolved'[i] = all[k]
         \/ Pin(all[k])' = "gone" /\ MayBeGone(all[k])'
  BY ONLY <1>2, <1>6, <1>14
<1>16. \A i \in 1 .. Len(resolved') : \E k \in 1 .. checked' : all[k] = resolved'[i] /\ Pin(all[k])' = "ok"
  BY ONLY <1>2, <1>7, <1>14
<1> HIDE DEF InOrder
<1>17. InOrder(resolved', Len(resolved'), checked')
  BY ONLY <1>8, <1>14
<1>18. Plan(all)
  BY DEF Progress
<1>19. /\ checked' \in 0 .. Len(all) /\ resolved' \in Seq(Releases)' /\ Len(resolved') <= checked'
       /\ candidates' \in Seq(Releases)' /\ Plan(all)'
       /\ History' => Len(resolved') <= MaxPackages
  BY ONLY <1>2, <1>3, <1>9, <1>10, <1>13, <1>14, <1>18
<1>20. /\ \/ /\ Len(candidates') = Len(all) - checked'
             /\ \A i \in 1 .. Len(candidates') : candidates'[i] = all[checked' + i]
          \/ candidates' = <<>> /\ query.select = "last" /\ Len(resolved') = query.count
       /\ query.select = "last" =>
            Len(resolved') <= query.count /\ (candidates' # <<>> => Len(resolved') < query.count)
  BY ONLY <1>12, <1>13, <1>14
<1> QED
  BY ONLY query' = query, <1>15, <1>16, <1>17, <1>19, <1>20 DEF Progress, InOrder

\* Before the selection nothing is planned.
LEMMA VersionsStart == VersionsInit => VersionsInv
BY DEF VersionsInit, VersionsInv, RefusedForWantOfIt, RefusedForTheirNumber

\* A refusal gives its reason.
LEMMA Refusal ==
  ASSUME VersionsInv, NEW error \in {"configuration", "resolution", "limit"}, VersionsFail(error),
         error = "resolution" /\ query.select = "newest" /\ query.range /\ ~JsrReleasesMalformed =>
           \A r \in Admissible : Foremost(r) => ~Obtainable(r),
         error = "limit" => Cardinality({r \in Releases : Offered(r)}) > MaxPackages
  PROVE  VersionsInv'
<1>1. phase' = error /\ query' = query
  BY DEF VersionsFail
<1>2. phase' # "select" /\ phase' # "pin" /\ phase' # "done"
  BY <1>1
<1>3. RefusedForWantOfIt'
  <2>1. Admissible' = Admissible /\ JsrReleasesMalformed' = JsrReleasesMalformed
        /\ \A r : Foremost(r)' = Foremost(r) /\ Obtainable(r)' = Obtainable(r)
    BY <1>1, SameQuery
  <2> QED
    BY <1>1, <2>1 DEF RefusedForWantOfIt
<1>4. RefusedForTheirNumber'
  <2>1. {r \in Releases : Offered(r)}' = {r \in Releases : Offered(r)}
    BY <1>1, SameQuery
  <2>2. Cardinality({r \in Releases : Offered(r)})' = Cardinality({r \in Releases : Offered(r)})
    BY <2>1
  <2>3. phase' = "limit" => Cardinality({r \in Releases : Offered(r)}) > MaxPackages
    BY <1>1
  <2> QED
    BY <2>2, <2>3 DEF RefusedForTheirNumber
<1> QED
  BY <1>1, <1>2, <1>3, <1>4 DEF VersionsInv

\* What a query can be had for is a plan.
LEMMA Begun ==
  ASSUME VersionsInv, phase = "select", NEW all, Plan(all), Take(all)
  PROVE  VersionsInv'
<1>1. Progress(all)'
  BY PlanTaken DEF VersionsInv
<1>2. phase' = "pin" /\ query' = query
  BY DEF Take
<1> QED
  BY <1>1, <1>2 DEF VersionsInv, RefusedForWantOfIt, RefusedForTheirNumber

\* A query for one release makes its plan, or fails for a reason.
LEMMA NewestAsked ==
  ASSUME VersionsInv, ResolveUnlocked
  PROVE  VersionsInv'
<1>0. query \in Queries /\ phase = "select" /\ query.select = "newest"
  BY DEF VersionsInv, ResolveUnlocked
<1>1. CASE JsrReleasesMalformed \/ Selected = {}
  <2>1. VersionsFail("resolution")
    BY <1>1 DEF ResolveUnlocked
  <2>2. query.range /\ ~JsrReleasesMalformed => Admissible = {}
    BY <1>0, <1>1, RequirementMeansTheNewest
  <2> QED
    BY <2>1, <2>2, Refusal
<1>2. CASE ~(JsrReleasesMalformed \/ Selected = {})
  <2> DEFINE all == <<CHOOSE r \in Selected : TRUE>>
  <2>1. Take(all)
    BY <1>2 DEF ResolveUnlocked
  <2>2. Plan(all)
    BY <1>0, <1>2, NewestIsAPlan
  <2> HIDE DEF all
  <2> QED
    BY <1>0, <2>1, <2>2, Begun
<1> QED
  BY <1>1, <1>2

\* A query for the last n releases does so too.
LEMMA LastAsked ==
  ASSUME VersionsInv, VersionsAtOrBelow
  PROVE  VersionsInv'
<1>0. query \in Queries /\ phase = "select" /\ query.select = "last" /\ query.count \in Nat
  BY QueryFacts DEF VersionsInv, VersionsAtOrBelow
<1> DEFINE x == CHOOSE r \in Selected : TRUE
<1>1. CASE query.count < 2
  <2>1. VersionsFail("configuration")
    BY <1>1 DEF VersionsAtOrBelow
  <2> QED
    BY <1>0, <2>1, Refusal
<1>2. CASE ~(query.count < 2) /\ (JsrReleasesMalformed \/ Selected = {} \/ ~Parsed(x))
  <2>1. VersionsFail("resolution")
    BY <1>2 DEF VersionsAtOrBelow
  <2> QED
    BY <1>0, <2>1, Refusal
<1>3. CASE query.count >= 2 /\ ~JsrReleasesMalformed /\ Selected # {} /\ Parsed(x)
  <2>0. ~(query.count < 2)
    BY <1>0, <1>3
  <2>1. x \in Releases /\ Offered(x)
    BY <1>0, <1>3, SelectedRelease
  <2>2. \/ TooManyCandidates(Cardinality(Older(x)) + 1) /\ VersionsFail("limit")
        \/ \E older \in NewestFirst(Older(x)) : Take(<<x>> \o older)
    BY <1>3, <2>0 DEF VersionsAtOrBelow
  <2> HIDE DEF x
  <2>3. CASE TooManyCandidates(Cardinality(Older(x)) + 1) /\ VersionsFail("limit")
    <3> DEFINE S == {r \in Releases : Offered(r)}
    <3>1. IsFiniteSet(S) /\ IsFiniteSet(Older(x)) /\ Older(x) \cup {x} \subseteq S
      BY <1>0, <2>1, QueryFacts, FS_Subset DEF Older
    <3>2. x \notin Older(x)
      BY <1>0, <2>1, QueryFacts DEF Older
    <3> HIDE DEF S
    <3>3. Cardinality(Older(x) \cup {x}) = Cardinality(Older(x)) + 1
      BY <3>1, <3>2, FS_AddElement
    <3>4. Cardinality(Older(x) \cup {x}) <= Cardinality(S) /\ Cardinality(S) \in Nat
          /\ Cardinality(Older(x)) \in Nat
      BY <3>1, FS_Subset, FS_CardinalityType
    <3>5. Cardinality(Older(x)) + 1 > MaxPackages /\ MaxPackages \in Nat
      BY <1>0, <2>3, QueryFacts DEF TooManyCandidates
    <3>6. Cardinality(S) > MaxPackages
      BY <3>3, <3>4, <3>5
    <3> QED
      BY <1>0, <2>3, <3>6, Refusal DEF S
  <2>4. ASSUME NEW older \in NewestFirst(Older(x)), Take(<<x>> \o older)
        PROVE  VersionsInv'
    <3> DEFINE all == <<x>> \o older
    <3>1. Plan(all)
      BY <1>0, <1>3, LastIsAPlan DEF x
    <3> HIDE DEF all
    <3>2. Take(all)
      BY <2>4 DEF all
    <3> QED
      BY <1>0, <3>1, <3>2, Begun
  <2> QED
    BY <2>2, <2>3, <2>4
<1> QED
  BY <1>0, <1>1, <1>2, <1>3

\* A comparison does so too.
LEMMA ComparisonAsked ==
  ASSUME VersionsInv, CompareVersions
  PROVE  VersionsInv'
<1>0. query \in Queries /\ phase = "select" /\ query.select = "compare"
  BY DEF VersionsInv, CompareVersions
<1>1. CASE ~EndpointsValid
  <2>1. VersionsFail("resolution")
    BY <1>1 DEF CompareVersions
  <2> QED
    BY <1>0, <2>1, Refusal
<1>2. CASE EndpointsValid
  <2> DEFINE all == <<CHOOSE r \in Endpoint(query.to) : TRUE, CHOOSE r \in Endpoint(query.from) : TRUE>>
  <2>1. Take(all)
    BY <1>2 DEF CompareVersions
  <2>2. Plan(all)
    BY <1>0, <1>2, CompareIsAPlan
  <2> HIDE DEF all
  <2> QED
    BY <1>0, <2>1, <2>2, Begun
<1> QED
  BY <1>1, <1>2

\* A query for a range does so too.
LEMMA RangeAsked ==
  ASSUME VersionsInv, RangeVersions
  PROVE  VersionsInv'
<1>0. query \in Queries /\ phase = "select" /\ query.select = "range"
  BY DEF VersionsInv, RangeVersions
<1>1. CASE ~EndpointsValid
  <2>1. VersionsFail("resolution")
    BY <1>1 DEF RangeVersions
  <2> QED
    BY <1>0, <2>1, Refusal
<1>2. CASE EndpointsValid /\ TooManyCandidates(Cardinality(Interval))
  <2>1. VersionsFail("limit")
    BY <1>2 DEF RangeVersions
  <2> DEFINE S == {r \in Releases : Offered(r)}
  <2>2. IsFiniteSet(S) /\ Interval \subseteq S
    BY <1>0, QueryFacts, FS_Subset DEF Interval
  <2> HIDE DEF S
  <2>3. Cardinality(Interval) <= Cardinality(S) /\ Cardinality(S) \in Nat /\ Cardinality(Interval) \in Nat
    BY <2>2, FS_Subset, FS_CardinalityType
  <2>4. Cardinality(Interval) > MaxPackages /\ MaxPackages \in Nat
    BY <1>0, <1>2, QueryFacts DEF TooManyCandidates
  <2>5. Cardinality(S) > MaxPackages
    BY <2>3, <2>4
  <2> QED
    BY <1>0, <2>1, <2>5, Refusal DEF S
<1>3. CASE EndpointsValid /\ ~TooManyCandidates(Cardinality(Interval))
  <2>1. PICK all \in NewestFirst(Interval) : Take(all)
    BY <1>3 DEF RangeVersions
  <2>2. Plan(all)
    BY <1>0, <1>3, RangeIsAPlan
  <2> QED
    BY <1>0, <2>1, <2>2, Begun
<1> QED
  BY <1>1, <1>2, <1>3

\* A locked release needs no plan.
LEMMA LockAsked ==
  ASSUME VersionsInv, ResolveLocked
  PROVE  VersionsInv'
<1>0. query \in Queries /\ phase = "select" /\ query.select = "locked"
  BY DEF VersionsInv, ResolveLocked
<1> DEFINE release == {r \in Releases : r.raw = query.from}
           x == CHOOSE r \in release : TRUE
<1>1. \/ VersionsFail("resolution")
      \/ /\ release # {} /\ (PyPI => LockedArtifacts(x) # {})
         /\ resolved' = <<x>> /\ phase' = "done" /\ query' = query
  BY DEF ResolveLocked
<1>2. CASE VersionsFail("resolution")
  BY <1>0, <1>2, Refusal
<1>3. CASE /\ release # {} /\ (PyPI => LockedArtifacts(x) # {})
           /\ resolved' = <<x>> /\ phase' = "done" /\ query' = query
  <2>1. x \in Releases
    BY <1>3
  <2> HIDE DEF x
  <2>2. Releases' = Releases /\ PyPI' = PyPI /\ \A r : LockedArtifacts(r)' = LockedArtifacts(r)
    BY <1>3, SameQuery
  <2>3. LockedRelease'
    BY <1>3, <2>1, <2>2 DEF LockedRelease
  <2> QED
    BY <1>0, <1>3, <2>3 DEF VersionsInv, RefusedForWantOfIt, RefusedForTheirNumber
<1> QED
  BY <1>1, <1>2, <1>3

\* Each candidate in turn is resolved, passed over, or the end of the resolution.
LEMMA CandidateTaken ==
  ASSUME VersionsInv, PinCandidate
  PROVE  VersionsInv'
<1>0. query \in Queries /\ phase = "pin" /\ candidates # <<>>
  BY DEF VersionsInv, PinCandidate
<1>1. PICK all : Progress(all)
  BY <1>0 DEF VersionsInv
<1> DEFINE x == Head(candidates)
<1>2. /\ all \in Seq(Releases) /\ Len(all) \in Nat /\ checked \in Nat /\ Len(resolved) \in Nat
      /\ checked + 1 \in 1 .. Len(all) /\ x = all[checked + 1]
  BY <1>0, <1>1, NextCandidate
<1> HIDE DEF x
<1>3. \/ VersionsFail("limit") /\ Jsr /\ History /\ checked + 1 > MaxPackages
      \/ VersionsFail("limit") /\ History /\ Len(resolved) + 1 > MaxPackages
      \/ /\ Pin(x) = "ok" /\ ~(History /\ Len(resolved) + 1 > MaxPackages)
         /\ resolved' = Append(resolved, x)
         /\ candidates' = (IF Enough(Len(resolved) + 1) THEN <<>> ELSE Tail(candidates))
         /\ checked' = checked + 1 /\ query' = query /\ phase' = phase
      \/ /\ Pin(x) = "gone" /\ MayBeGone(x)
         /\ candidates' = Tail(candidates) /\ checked' = checked + 1
         /\ query' = query /\ phase' = phase /\ resolved' = resolved
      \/ VersionsFail("resolution") /\ Pin(x) # "ok"
  BY DEF PinCandidate, x
<1>4. CASE VersionsFail("limit") /\ History /\ (checked + 1 > MaxPackages \/ Len(resolved) + 1 > MaxPackages)
  <2>1. MaxPackages \in Nat /\ Len(resolved) <= checked
    BY <1>0, <1>1, QueryFacts DEF Progress
  <2>2. checked + 1 > MaxPackages /\ checked + 1 \in Nat /\ checked + 1 <= Len(all)
    BY <1>2, <1>4, <2>1
  <2>3. /\ \A i, j \in 1 .. Len(all) : all[i] = all[j] => i = j
        /\ \A i \in 1 .. Len(all) : Offered(all[i])
    BY <1>1, <1>4 DEF Progress, Plan
  <2>4. checked + 1 <= Cardinality({r \in Releases : Offered(r)})
    BY <1>0, <1>2, <2>2, <2>3, NoMoreThanOffered
  <2>5. Cardinality({r \in Releases : Offered(r)}) \in Nat
    BY <1>0, QueryFacts, FS_Subset, FS_CardinalityType
  <2>6. Cardinality({r \in Releases : Offered(r)}) > MaxPackages
    BY <2>1, <2>2, <2>4, <2>5
  <2> QED
    BY <1>4, <2>6, Refusal
<1>5. CASE /\ Pin(x) = "ok" /\ ~(History /\ Len(resolved) + 1 > MaxPackages)
           /\ resolved' = Append(resolved, x)
           /\ candidates' = (IF Enough(Len(resolved) + 1) THEN <<>> ELSE Tail(candidates))
           /\ checked' = checked + 1 /\ query' = query /\ phase' = phase
  <2>1. Progress(all)'
    BY <1>0, <1>1, <1>5, ReleasePinned DEF x
  <2> QED
    BY <1>0, <1>5, <2>1 DEF VersionsInv, RefusedForWantOfIt, RefusedForTheirNumber
<1>6. CASE /\ Pin(x) = "gone" /\ MayBeGone(x)
           /\ candidates' = Tail(candidates) /\ checked' = checked + 1
           /\ query' = query /\ phase' = phase /\ resolved' = resolved
  <2>1. Progress(all)'
    BY <1>0, <1>1, <1>6, ReleasePassedOver DEF x
  <2> QED
    BY <1>0, <1>6, <2>1 DEF VersionsInv, RefusedForWantOfIt, RefusedForTheirNumber
<1>7. CASE VersionsFail("resolution") /\ Pin(x) # "ok"
  <2>1. ASSUME query.select = "newest", query.range, ~JsrReleasesMalformed, NEW r \in Admissible, Foremost(r)
        PROVE  ~Obtainable(r)
    <3>1. /\ Len(all) = 1 /\ all[1] \in Admissible /\ (~Jsr => Pin(all[1]) = "ok") /\ r = all[1]
      BY <1>1, <2>1 DEF Progress, Plan
    <3>2. x = r
      BY <1>2, <3>1
    <3>3. Jsr /\ Pin(r) # "ok"
      BY <1>7, <3>1, <3>2
    <3>4. r \in Releases /\ Offered(r)
      BY <1>0, <2>1, RequirementMeansTheNewest
    <3>5. ~Available(r) /\ Parsed(r)
      BY <1>0, <3>3, <3>4, PinTells DEF Offered
    <3> QED
      BY <3>5 DEF Available
  <2> QED
    BY <1>7, <2>1, Refusal
<1> QED
  BY <1>3, <1>4, <1>5, <1>6, <1>7

\* Where nothing of the query and of the progress changes.
LEMMA ProgressStays ==
  ASSUME UNCHANGED <<query, candidates, checked, resolved>>, NEW all
  PROVE  Progress(all)' = Progress(all)
<1>1. /\ Plan(all)' = Plan(all) /\ History' = History /\ Releases' = Releases
      /\ \A r : Pin(r)' = Pin(r) /\ MayBeGone(r)' = MayBeGone(r)
  BY SameQuery
<1>2. query' = query /\ candidates' = candidates /\ checked' = checked /\ resolved' = resolved
  OBVIOUS
<1> QED
  BY <1>1, <1>2 DEF Progress

\* A resolution is done when no candidate is left.
LEMMA AllPinned ==
  ASSUME VersionsInv, Pinned
  PROVE  VersionsInv'
<1>0. query \in Queries /\ phase = "pin" /\ candidates = <<>>
  BY DEF VersionsInv, Pinned
<1>1. PICK all : Progress(all)
  BY <1>0 DEF VersionsInv
<1>2. CASE History /\ Len(resolved) < 2
  <2>1. VersionsFail("resolution") /\ query.select # "newest"
    BY <1>2 DEF Pinned, History
  <2> QED
    BY <2>1, Refusal
<1>3. CASE ~(History /\ Len(resolved) < 2)
  <2>1. phase' = "done" /\ UNCHANGED <<query, candidates, checked, resolved>>
    BY <1>3 DEF Pinned
  <2>2. Progress(all)' = Progress(all) /\ History' = History
    BY <2>1, ProgressStays, SameQuery
  <2>3. query.select # "locked" /\ Len(resolved) \in Nat
    BY <1>1, LenProperties DEF Progress, Plan
  <2>4. History => Len(resolved) >= 2
    BY <1>3, <2>3
  <2> QED
    BY <1>0, <1>1, <2>1, <2>2, <2>3, <2>4 DEF VersionsInv, RefusedForWantOfIt, RefusedForTheirNumber
<1> QED
  BY <1>2, <1>3

\* Nothing changes when nothing is done.
LEMMA VersionsStill ==
  ASSUME VersionsInv, UNCHANGED versionVars
  PROVE  VersionsInv'
<1>1. query' = query /\ phase' = phase /\ candidates' = candidates /\ checked' = checked /\ resolved' = resolved
  BY DEF versionVars
<1>2. \A all : Progress(all)' = Progress(all)
  BY <1>1, ProgressStays
<1>3. /\ History' = History /\ Releases' = Releases /\ PyPI' = PyPI
      /\ \A r : LockedArtifacts(r)' = LockedArtifacts(r)
      /\ Admissible' = Admissible /\ JsrReleasesMalformed' = JsrReleasesMalformed
      /\ \A r : Foremost(r)' = Foremost(r) /\ Obtainable(r)' = Obtainable(r)
      /\ {r \in Releases : Offered(r)}' = {r \in Releases : Offered(r)}
  BY <1>1, SameQuery
<1>4. LockedRelease' = LockedRelease
  BY <1>1, <1>3 DEF LockedRelease
<1>5. RefusedForWantOfIt'
  BY <1>1, <1>3 DEF VersionsInv, RefusedForWantOfIt
<1>6. RefusedForTheirNumber'
  <2>1. Cardinality({r \in Releases : Offered(r)})' = Cardinality({r \in Releases : Offered(r)})
    BY <1>3
  <2> QED
    BY <1>1, <2>1 DEF VersionsInv, RefusedForTheirNumber
<1> QED
  BY <1>1, <1>2, <1>3, <1>4, <1>5, <1>6 DEF VersionsInv

\* What has been pinned is in order, and can be had.
LEMMA PinnedInOrder ==
  ASSUME query \in Queries, NEW all, Progress(all), NEW n, n = Len(resolved)
  PROVE  /\ n \in Nat /\ DOMAIN resolved = 1 .. n /\ Range(resolved) = {resolved[i] : i \in 1 .. n}
         /\ \A i \in 1 .. n :
              /\ resolved[i] \in Releases /\ resolved[i].version \in Int /\ Obtainable(resolved[i])
              /\ \E k \in 1 .. checked : all[k] = resolved[i] /\ Pin(all[k]) = "ok"
         /\ \A i, j \in 1 .. n : i < j =>
              resolved[i].version >= resolved[j].version /\ resolved[i] # resolved[j]
         /\ all \in Seq(Releases) /\ Len(all) \in Nat /\ checked \in 0 .. Len(all) /\ n <= checked
<1>1. resolved \in Seq(Releases) /\ all \in Seq(Releases) /\ checked \in 0 .. Len(all) /\ n <= checked
  BY DEF Progress, Plan
<1>2. n \in Nat /\ DOMAIN resolved = 1 .. n /\ Len(all) \in Nat
  BY <1>1, LenProperties
<1>3. Range(resolved) = {resolved[i] : i \in 1 .. n}
  BY <1>2 DEF Range
<1>4. ASSUME NEW i \in 1 .. n
      PROVE  /\ resolved[i] \in Releases /\ resolved[i].version \in Int /\ Obtainable(resolved[i])
             /\ \E k \in 1 .. checked : all[k] = resolved[i] /\ Pin(all[k]) = "ok"
  <2>1. resolved[i] \in Releases
    BY <1>1, <1>2, ElementOfSeq
  <2>2. PICK k \in 1 .. checked : all[k] = resolved[i] /\ Pin(all[k]) = "ok"
    BY DEF Progress
  <2>3. k \in 1 .. Len(all)
    BY <1>1, <1>2
  <2>4. Jsr => Offered(all[k])
    BY <2>3 DEF Progress, Plan
  <2>5. Obtainable(resolved[i])
    BY <2>1, <2>2, <2>4, PinnedIsObtainable
  <2> QED
    BY <2>1, <2>2, <2>5, QueryFacts
<1>5. ASSUME NEW i \in 1 .. n, NEW j \in 1 .. n, i < j
      PROVE  resolved[i].version >= resolved[j].version /\ resolved[i] # resolved[j]
  <2>1. PICK k \in 1 .. checked, l \in 1 .. checked : k < l /\ all[k] = resolved[i] /\ all[l] = resolved[j]
    BY <1>5 DEF Progress
  <2>2. k \in 1 .. Len(all) /\ l \in 1 .. Len(all) /\ k # l
    BY <1>1, <1>2, <2>1
  <2>a. /\ \A a, b \in 1 .. Len(all) : all[a] = all[b] => a = b
        /\ \A a, b \in 1 .. Len(all) : a < b => all[a].version >= all[b].version
    BY DEF Progress, Plan
  <2>3. all[k].version >= all[l].version /\ all[k] # all[l]
    BY <2>1, <2>2, <2>a
  <2> QED
    BY <2>1, <2>3
<1> QED
  BY <1>1, <1>2, <1>3, <1>4, <1>5

\* No release that can be had is passed over, up to the last one pinned or,
\* when nothing is left to pin, at all.
LEMMA NonePassedOver ==
  ASSUME query \in Queries, NEW all, Progress(all), NEW k \in 1 .. Len(all), Available(all[k]),
         \/ checked = Len(all)
         \/ \E i \in 1 .. Len(resolved) : all[k].version > resolved[i].version
  PROVE  \E i \in 1 .. Len(resolved) : resolved[i] = all[k]
<1>1. /\ all \in Seq(Releases) /\ Len(all) \in Nat /\ checked \in 0 .. Len(all)
      /\ all[k] \in Releases /\ all[k].version \in Int
  BY PinnedInOrder, ElementOfSeq, QueryFacts
<1>2. k \in 1 .. checked
  <2>1. CASE checked = Len(all)
    BY <2>1
  <2>2. ASSUME NEW i \in 1 .. Len(resolved), all[k].version > resolved[i].version
        PROVE  k \in 1 .. checked
    <3>1. PICK l \in 1 .. checked : all[l] = resolved[i]
      BY DEF Progress
    <3>2. l \in 1 .. Len(all)
      BY <1>1
    <3>3. all[l].version \in Int
      BY <1>1, <3>2, ElementOfSeq, QueryFacts
    <3>4. k < l => all[k].version >= all[l].version
      BY <3>2 DEF Progress, Plan
    <3>5. l < k => all[l].version >= all[k].version
      BY <3>2 DEF Progress, Plan
    <3>6. ~(l < k) /\ l # k
      BY <1>1, <2>2, <3>1, <3>3, <3>5
    <3> QED
      BY <1>1, <3>2, <3>6
  <2> QED
    BY <2>1, <2>2
<1>3. Pin(all[k]) = "ok"
  BY <1>1, PinTells
<1> QED
  BY <1>2, <1>3 DEF Progress

\* The ways a resolution ends well.
LEMMA NewestWell ==
  ASSUME query \in Queries, query.select = "newest", candidates = <<>>, NEW all, Progress(all)
  PROVE  Versions = <<Highest>>
<1> DEFINE n == Len(resolved)
<1>1. /\ n \in Nat /\ DOMAIN resolved = 1 .. n /\ checked \in 0 .. Len(all) /\ n <= checked
      /\ \A i \in 1 .. n : \E k \in 1 .. checked : all[k] = resolved[i]
  BY PinnedInOrder
<1>2. Len(all) = 1 /\ all[1].version = Highest
  BY DEF Progress, Plan
<1>3. checked = 1
  <2>1. Len(candidates) = 0
    BY EmptySeq
  <2>2. Len(candidates) = Len(all) - checked
    BY DEF Progress
  <2> QED
    BY <1>1, <1>2, <2>1, <2>2
<1>4. \E i \in 1 .. n : resolved[i] = all[1]
  <2>1. 1 \in 1 .. checked /\ ~MayBeGone(all[1])
    BY <1>3 DEF MayBeGone
  <2> QED
    BY <2>1 DEF Progress
<1>5. n = 1 /\ resolved[1] = all[1]
  BY <1>1, <1>3, <1>4
<1>6. Versions = [i \in 1 .. 1 |-> resolved[i].version]
  BY <1>1, <1>5 DEF Versions
<1> HIDE DEF n
<1> QED
  BY <1>2, <1>5, <1>6

\* When its plan is carried out, a comparison has both of its endpoints.
LEMMA ComparedWell ==
  ASSUME query \in Queries, query.select = "compare", candidates = <<>>, NEW all, Progress(all)
  PROVE  <<resolved[1].raw, resolved[2].raw>> = <<query.to, query.from>>
<1> DEFINE n == Len(resolved)
<1>1. /\ n \in Nat /\ checked \in 0 .. Len(all) /\ n <= checked
  BY PinnedInOrder
<1>2. Len(all) = 2 /\ all[1].raw = query.to /\ all[2].raw = query.from
      /\ all[1] # all[2]
  BY DEF Progress, Plan
<1>3. checked = 2
  <2>1. Len(candidates) = 0
    BY EmptySeq
  <2>2. Len(candidates) = Len(all) - checked
    BY DEF Progress
  <2> QED
    BY <1>1, <1>2, <2>1, <2>2
<1>4. (\E i \in 1 .. n : resolved[i] = all[1]) /\ (\E i \in 1 .. n : resolved[i] = all[2])
  <2>1. 1 \in 1 .. checked /\ 2 \in 1 .. checked /\ \A k \in 1 .. checked : ~MayBeGone(all[k])
    BY <1>3 DEF MayBeGone
  <2>2. \E i \in 1 .. Len(resolved) : resolved[i] = all[1]
    BY <2>1 DEF Progress
  <2>3. \E i \in 1 .. Len(resolved) : resolved[i] = all[2]
    BY <2>1 DEF Progress
  <2> QED
    BY <2>2, <2>3
<1>5. n = 2
  <2>1. PICK i \in 1 .. n, j \in 1 .. n : resolved[i] = all[1] /\ resolved[j] = all[2]
    BY <1>4
  <2>2. i # j
    BY <1>2, <2>1
  <2> HIDE DEF n
  <2> QED
    BY <1>1, <1>2, <1>3, <2>2
<1>6. PICK k \in 1 .. checked, l \in 1 .. checked : k < l /\ all[k] = resolved[1] /\ all[l] = resolved[2]
  <2>1. 1 \in 1 .. Len(resolved) /\ 2 \in 1 .. Len(resolved) /\ 1 < 2
    BY <1>5
  <2> QED
    BY <2>1 DEF Progress
<1>7. k = 1 /\ l = 2
  BY <1>3, <1>6
<1> QED
  BY <1>2, <1>6, <1>7

\* A range then has all that lies between its endpoints and is available, each once.
LEMMA RangedWell ==
  ASSUME query \in Queries, query.select = "range", candidates = <<>>, NEW all, Progress(all)
  PROVE  /\ {query.from, query.to} \subseteq {r.raw : r \in Range(resolved)}
         /\ Range(resolved) = {r \in Releases :
              Available(r) /\ Version(query.from) <= r.version /\ r.version <= Version(query.to)}
         /\ IsInjective(resolved)
<1> DEFINE n == Len(resolved)
<1>1. /\ n \in Nat /\ DOMAIN resolved = 1 .. n /\ Range(resolved) = {resolved[i] : i \in 1 .. n}
      /\ checked \in 0 .. Len(all) /\ Len(all) \in Nat /\ all \in Seq(Releases)
      /\ \A i \in 1 .. n : /\ resolved[i] \in Releases
                           /\ \E k \in 1 .. checked : all[k] = resolved[i] /\ Pin(all[k]) = "ok"
      /\ \A i, j \in 1 .. n : i < j => resolved[i] # resolved[j]
  BY PinnedInOrder
<1>2. checked = Len(all)
  <2>1. Len(candidates) = 0
    BY EmptySeq
  <2>2. Len(candidates) = Len(all) - checked
    BY DEF Progress
  <2> QED
    BY <1>1, <2>1, <2>2
<1>3. /\ \A r \in Releases : r \in Interval <=> \E k \in 1 .. Len(all) : all[k] = r
      /\ \E r \in Interval : r.raw = query.from
      /\ \E r \in Interval : r.raw = query.to
  BY DEF Progress, Plan
<1>4. \A r \in Interval : r \in Releases /\ Offered(r)
  BY DEF Interval
<1>5. PICK from \in Interval : from.raw = query.from
  BY <1>3
<1>6. PICK to \in Interval : to.raw = query.to
  BY <1>3
<1>7. Version(query.from) = from.version /\ Version(query.to) = to.version
  <2>1. \A r \in Releases : (r.raw = query.from => r = from) /\ (r.raw = query.to => r = to)
    BY <1>4, <1>5, <1>6, QueryFacts
  <2>2. (CHOOSE r \in Releases : r.raw = query.from) = from /\ (CHOOSE r \in Releases : r.raw = query.to) = to
    BY <1>4, <1>5, <1>6, <2>1
  <2> QED
    BY <2>2 DEF Version
<1>8. ASSUME NEW r \in Releases
      PROVE  r \in Interval <=>
               Offered(r) /\ Version(query.from) <= r.version /\ r.version <= Version(query.to)
  <2>1. r.version \in Int /\ Version(query.from) \in Int /\ Version(query.to) \in Int
    BY <1>4, <1>5, <1>6, <1>7, QueryFacts
  <2> QED
    BY <2>1 DEF Interval
<1>9. ASSUME NEW r \in Releases
      PROVE  r \in Range(resolved) <=> r \in Interval /\ Pin(r) = "ok"
  <2>1. ASSUME r \in Range(resolved) PROVE r \in Interval /\ Pin(r) = "ok"
    BY <1>1, <1>2, <1>3, <2>1
  <2>2. ASSUME r \in Interval, Pin(r) = "ok" PROVE r \in Range(resolved)
    <3>1. PICK k \in 1 .. checked : all[k] = r
      BY <1>2, <1>3, <2>2
    <3>2. \E i \in 1 .. Len(resolved) : resolved[i] = all[k]
      BY <2>2, <3>1 DEF Progress
    <3> QED
      BY <1>1, <3>1, <3>2
  <2> QED
    BY <2>1, <2>2
<1>10. Range(resolved) = {r \in Releases :
         Available(r) /\ Version(query.from) <= r.version /\ r.version <= Version(query.to)}
  <2>1. \A r \in Range(resolved) : r \in Releases
    BY <1>1
  <2>2. \A r \in Releases : r \in Range(resolved) <=>
          Available(r) /\ Version(query.from) <= r.version /\ r.version <= Version(query.to)
    BY <1>8, <1>9, PinTells
  <2> QED
    BY <2>1, <2>2
<1>11. from \in Range(resolved) /\ to \in Range(resolved)
  <2>1. ASSUME NEW r \in Interval, r.raw \in {query.from, query.to} PROVE r \in Range(resolved)
    <3>1. PICK k \in 1 .. checked : all[k] = r
      BY <1>2, <1>3, <1>4
    <3>2. ~MayBeGone(all[k])
      BY <2>1, <3>1 DEF MayBeGone
    <3>3. \E i \in 1 .. Len(resolved) : resolved[i] = all[k]
      BY <3>1, <3>2 DEF Progress
    <3> QED
      BY <1>1, <3>1, <3>3
  <2> QED
    BY <1>5, <1>6, <2>1
<1>12. {query.from, query.to} \subseteq {r.raw : r \in Range(resolved)}
  BY <1>5, <1>6, <1>11
<1>13. IsInjective(resolved)
  <2>1. ASSUME NEW i \in 1 .. n, NEW j \in 1 .. n, resolved[i] = resolved[j] PROVE i = j
    <3>1. ~(i < j) /\ ~(j < i)
      BY <1>1, <2>1
    <3> QED
      BY <1>1, <3>1
  <2> QED
    BY <1>1, <2>1 DEF IsInjective
<1> QED
  BY <1>10, <1>12, <1>13

\* The last n releases are n with none between them, or all there are.
LEMMA LastWell ==
  ASSUME query \in Queries, query.select = "last", candidates = <<>>, NEW all, Progress(all),
         Len(resolved) >= 2
  PROVE  /\ Len(resolved) <= query.count /\ Versions[1] <= Highest
         /\ Between(Versions[1], Highest) = {}
         /\ \A i \in DOMAIN resolved : i > 1 => Between(Versions[i], Versions[i - 1]) = {}
         /\ Len(resolved) < query.count => Between(NotAVersion, Last(Versions)) = {}
<1> DEFINE n == Len(resolved)
<1>1. /\ n \in Nat /\ DOMAIN resolved = 1 .. n
      /\ checked \in 0 .. Len(all) /\ Len(all) \in Nat /\ all \in Seq(Releases)
      /\ \A i \in 1 .. n : /\ resolved[i] \in Releases /\ resolved[i].version \in Int
                           /\ \E k \in 1 .. checked : all[k] = resolved[i]
      /\ \A i, j \in 1 .. n : i < j => resolved[i].version >= resolved[j].version
  BY PinnedInOrder
<1>2. /\ Len(all) > 0 /\ all[1].version = Highest
      /\ \A r \in Releases : Offered(r) /\ r.version < Highest => \E i \in 1 .. Len(all) : all[i] = r
      /\ \A i, j \in 1 .. Len(all) : i < j => all[i].version >= all[j].version
  BY DEF Progress, Plan
<1>3. n <= query.count
  BY DEF Progress
<1>4. Highest \in Int
  <2>1. 1 \in 1 .. Len(all)
    BY <1>1, <1>2
  <2> QED
    BY <1>1, <1>2, <2>1, ElementOfSeq, QueryFacts
<1>5. DOMAIN Versions = 1 .. n /\ Len(Versions) = n /\ \A i \in 1 .. n : Versions[i] = resolved[i].version
  <2>1. Versions = [i \in 1 .. n |-> resolved[i].version]
    BY <1>1 DEF Versions
  <2>2. Versions \in Seq(Int)
    BY <1>1, <2>1, IsASeq
  <2> QED
    BY <1>1, <2>1, <2>2, LenProperties
<1> HIDE DEF n
<1>6. ASSUME NEW i \in 1 .. n PROVE Versions[i] <= Highest
  <2>1. PICK k \in 1 .. checked : all[k] = resolved[i]
    BY <1>1
  <2>2. k \in 1 .. Len(all) /\ 1 \in 1 .. Len(all)
    BY <1>1, <1>2
  <2>3. 1 < k => all[1].version >= all[k].version
    BY <1>2, <2>2
  <2>4. k = 1 \/ 1 < k
    BY <2>2
  <2> QED
    BY <1>1, <1>2, <1>4, <1>5, <2>1, <2>3, <2>4
<1>7. \A i, j \in 1 .. n : i < j => Versions[i] >= Versions[j]
  BY <1>1, <1>5
<1>8. \A i \in 1 .. n : Versions[i] \in Int
  BY <1>1, <1>5
<1>9. ASSUME NEW i \in 1 .. n, NEW r \in Releases, Available(r), Versions[i] < r.version, r.version < Highest
      PROVE  \E m \in 1 .. n : Versions[m] = r.version
  <2>1. Offered(r)
    BY <1>9, PinTells
  <2>2. PICK k \in 1 .. Len(all) : all[k] = r
    BY <1>2, <1>9, <2>1
  <2>3. r.version > resolved[i].version
    BY <1>1, <1>5, <1>9, QueryFacts
  <2>4. \E m \in 1 .. Len(resolved) : resolved[m] = all[k]
    BY <1>9, <2>2, <2>3, NonePassedOver DEF n
  <2> QED
    BY <1>5, <2>2, <2>4 DEF n
<1>10. n >= 2
  BY DEF n
<1>11. 1 \in 1 .. n
  BY <1>1, <1>10
<1>12. Between(Versions[1], Highest) = {}
  <2> SUFFICES ASSUME NEW r \in Between(Versions[1], Highest) PROVE FALSE
    OBVIOUS
  <2>1. r \in Releases /\ Available(r) /\ Versions[1] < r.version /\ r.version < Highest
    BY DEF Between
  <2>2. PICK m \in 1 .. n : Versions[m] = r.version
    BY <1>9, <1>11, <2>1
  <2>3. m = 1 \/ 1 < m
    BY <1>1
  <2> QED
    BY <1>7, <1>8, <1>11, <2>1, <2>2, <2>3
<1>13. ASSUME NEW i \in 1 .. n, i > 1 PROVE Between(Versions[i], Versions[i - 1]) = {}
  <2> SUFFICES ASSUME NEW r \in Between(Versions[i], Versions[i - 1]) PROVE FALSE
    OBVIOUS
  <2>0. i - 1 \in 1 .. n
    BY <1>1, <1>13
  <2>1. r \in Releases /\ Available(r) /\ Versions[i] < r.version /\ r.version < Versions[i - 1]
        /\ r.version \in Int
    BY QueryFacts DEF Between
  <2>2. r.version < Highest
    BY <1>4, <1>6, <1>8, <2>0, <2>1
  <2>3. PICK m \in 1 .. n : Versions[m] = r.version
    BY <1>9, <2>1, <2>2
  <2>4. m < i - 1 \/ m = i - 1 \/ m = i \/ i < m
    BY <1>1, <1>13
  <2> QED
    BY <1>7, <1>8, <2>0, <2>1, <2>3, <2>4
<1>14. ASSUME n < query.count PROVE Between(NotAVersion, Last(Versions)) = {}
  <2> SUFFICES ASSUME NEW r \in Between(NotAVersion, Last(Versions)) PROVE FALSE
    OBVIOUS
  <2>0. Last(Versions) = Versions[n] /\ n \in 1 .. n
    BY <1>1, <1>5, <1>10 DEF Last
  <2>1. r \in Releases /\ Available(r) /\ r.version < Versions[n] /\ r.version \in Int
    BY <2>0, QueryFacts DEF Between
  <2>2. r.version < Highest
    BY <1>4, <1>6, <1>8, <2>0, <2>1
  <2>3. checked = Len(all)
    <3>1. Len(candidates) = 0
      BY EmptySeq
    <3>2. n # query.count
      BY <1>1, <1>14, QueryFacts
    <3>3. Len(candidates) = Len(all) - checked
      BY <3>2 DEF Progress, n
    <3> QED
      BY <1>1, <3>1, <3>3
  <2>4. Offered(r)
    BY <2>1, PinTells
  <2>5. PICK k \in 1 .. Len(all) : all[k] = r
    BY <1>2, <2>1, <2>2, <2>4
  <2>6. PICK m \in 1 .. Len(resolved) : resolved[m] = all[k]
    <3>1. Available(all[k])
      BY <2>1, <2>5
    <3> QED
      BY <2>3, <3>1, NonePassedOver
  <2>7. m \in 1 .. n /\ Versions[m] = r.version /\ (m = n \/ m < n)
    <3>1. m \in 1 .. n
      BY <2>6 DEF n
    <3>2. Versions[m] = r.version
      BY <1>5, <2>5, <2>6, <3>1
    <3> QED
      BY <1>1, <3>1, <3>2
  <2> QED
    BY <1>7, <1>8, <2>0, <2>1, <2>7
<1> QED
  BY <1>1, <1>3, <1>6, <1>11, <1>12, <1>13, <1>14 DEF n

\* A locked release is one whose artifacts the lockfile lists.
LEMMA LockedWell ==
  ASSUME query \in Queries, LockedRelease
  PROVE  /\ \A i \in DOMAIN resolved : ~(i > 1)
         /\ PyPI /\ query.locked # {} =>
              \E a \in Range(resolved[1].artifacts) : a.sha256 \in query.locked /\ ~a.yanked
<1>1. PICK r \in Releases : resolved = <<r>> /\ (PyPI => LockedArtifacts(r) # {})
  BY DEF LockedRelease
<1>2. ASSUME PyPI, query.locked # {}
      PROVE  \E a \in Range(r.artifacts) : a.sha256 \in query.locked /\ ~a.yanked
  <2>1. PICK i \in DOMAIN r.artifacts :
          IsUsable(r.artifacts[i]) /\ r.artifacts[i].sha256 \in query.locked
    BY <1>1, <1>2 DEF LockedArtifacts
  <2>2. r.artifacts[i] \in Range(r.artifacts) /\ ~r.artifacts[i].yanked
    BY <2>1 DEF Range, IsUsable
  <2> QED
    BY <2>1, <2>2
<1> QED
  BY <1>1, <1>2

\* The invariant says that what has been chosen is the best there is.
LEMMA ChosenWell ==
  ASSUME VersionsInv
  PROVE  ChosenIsBest
<1>0. query \in Queries /\ RefusedForWantOfIt /\ RefusedForTheirNumber
  BY DEF VersionsInv
<1>1. CASE phase = "done" /\ query.select = "locked"
  <2>1. LockedRelease
    BY <1>1 DEF VersionsInv
  <2>2. ~History
    BY <1>1 DEF History
  <2> QED
    BY <1>0, <1>1, <2>1, <2>2, LockedWell DEF ChosenIsBest, RefusedForWantOfIt, RefusedForTheirNumber
<1>2. CASE phase = "done" /\ query.select # "locked"
  <2>1. candidates = <<>> /\ (History => Len(resolved) >= 2) /\ \E all : Progress(all)
    BY <1>2 DEF VersionsInv
  <2>2. PICK all : Progress(all)
    BY <2>1
  <2>3. /\ Len(resolved) \in Nat /\ DOMAIN resolved = 1 .. Len(resolved)
        /\ Range(resolved) = {resolved[i] : i \in 1 .. Len(resolved)}
        /\ \A i \in 1 .. Len(resolved) : Obtainable(resolved[i]) /\ resolved[i].version \in Int
        /\ \A i, j \in 1 .. Len(resolved) : i < j => resolved[i].version >= resolved[j].version
    BY <1>0, <2>2, PinnedInOrder
  <2>4. \A r \in Range(resolved) : Obtainable(r)
    BY <2>3
  <2>5. ASSUME NEW i \in DOMAIN resolved, i > 1 PROVE Versions[i] <= Versions[i - 1]
    <3>1. i \in 1 .. Len(resolved) /\ i - 1 \in 1 .. Len(resolved) /\ i - 1 < i
      BY <2>3, <2>5
    <3>2. Versions[i] = resolved[i].version /\ Versions[i - 1] = resolved[i - 1].version
      BY <2>3, <3>1 DEF Versions
    <3>3. resolved[i - 1].version >= resolved[i].version
      BY <2>3, <3>1
    <3>4. resolved[i].version \in Int /\ resolved[i - 1].version \in Int
      BY <2>3, <3>1
    <3> QED
      BY <3>2, <3>3, <3>4
  <2>6. query.select = "newest" => Versions = <<Highest>>
    BY <1>0, <2>1, <2>2, NewestWell
  <2>7. History => Len(resolved) \in 2 .. MaxPackages
    <3>1. History => Len(resolved) >= 2 /\ Len(resolved) <= MaxPackages
      BY <2>1, <2>2 DEF Progress
    <3> QED
      BY <1>0, <2>3, <3>1, QueryFacts
  <2>8. query.select = "last" =>
          /\ Len(resolved) <= query.count /\ Versions[1] <= Highest
          /\ Between(Versions[1], Highest) = {}
          /\ \A i \in DOMAIN resolved : i > 1 => Between(Versions[i], Versions[i - 1]) = {}
          /\ Len(resolved) < query.count => Between(NotAVersion, Last(Versions)) = {}
    BY <1>0, <2>1, <2>2, LastWell DEF History
  <2>9. query.select = "compare" => <<resolved[1].raw, resolved[2].raw>> = <<query.to, query.from>>
    BY <1>0, <2>1, <2>2, ComparedWell
  <2>10. query.select = "range" =>
           /\ {query.from, query.to} \subseteq {r.raw : r \in Range(resolved)}
           /\ Range(resolved) = {r \in Releases :
                Available(r) /\ Version(query.from) <= r.version /\ r.version <= Version(query.to)}
           /\ IsInjective(resolved)
    BY <1>0, <2>1, <2>2, RangedWell
  <2> QED
    BY <1>2, <2>4, <2>5, <2>6, <2>7, <2>8, <2>9, <2>10 DEF ChosenIsBest
<1>3. CASE phase # "done"
  BY <1>0, <1>3 DEF ChosenIsBest, RefusedForWantOfIt, RefusedForTheirNumber
<1> QED
  BY <1>1, <1>2, <1>3

\* A resolution ends with releases that can all be had, newest first, and
\* passes over none: the newest admissible release, the last ones up to the
\* number asked for, or an interval with both its endpoints, for every
\* response of npm, PyPI and JSR and every limit.
\* src/fetcher/sources/{npm,pypi,jsr} and src/fetcher/orchestration.rs.
THEOREM ChosenIsBestHolds == VersionsSpec => []ChosenIsBest
<1>1. VersionsInit => VersionsInv
  BY VersionsStart
<1>2. VersionsInv /\ [VersionsNext]_versionVars => VersionsInv'
  BY NewestAsked, LastAsked, ComparisonAsked, RangeAsked, LockAsked, CandidateTaken, AllPinned, VersionsStill
  DEF VersionsNext
<1>3. VersionsInv => ChosenIsBest
  BY ChosenWell
<1> QED
  BY <1>1, <1>2, <1>3, PTL DEF VersionsSpec

-----------------------------------------------------------------------------
(* The tree, and the paths through it.                                         *)

\* Directories list nodes by their names, whatever others do, and what they have
\* listed is remembered.
Standing ==
  /\ DOMAIN entries = Dirs
  /\ \A d \in Dirs : /\ IsFiniteSet(DOMAIN entries[d]) /\ DOMAIN entries[d] \subseteq STRING \ {Absent}
                     /\ \A n \in DOMAIN entries[d] : entries[d][n] \in Nodes
  /\ Held(entries) \subseteq held
  /\ sizes \in [{n \in Nodes : KindOf[n] = "file"} -> Nat]
  /\ changed \in Nat

\* What is found under a name in a directory is a node, or absent.
LEMMA LookedUp ==
  ASSUME Standing, NEW dir \in Dirs, NEW name
  PROVE  /\ Lookup(dir, name) \in Nodes \cup {Absent}
         /\ Lookup(dir, name) # Absent => name \in STRING /\ <<dir, name, Lookup(dir, name)>> \in held
<1>1. CASE name \in DOMAIN entries[dir]
  <2>1. Lookup(dir, name) = entries[dir][name]
    BY <1>1 DEF Lookup
  <2>2. <<dir, name, entries[dir][name]>> \in Held(entries)
    BY <1>1 DEF Held, Standing
  <2> QED
    BY <1>1, <2>1, <2>2 DEF Standing
<1>2. CASE name \notin DOMAIN entries[dir]
  BY <1>2 DEF Lookup
<1> QED
  BY <1>1, <1>2

\* What is opened under a name was an entry of that name, and no link.
LEMMA OpenedAt ==
  ASSUME Standing, NEW dir \in Dirs, NEW name, NEW kinds, OpenAt(dir, name, kinds) # Absent
  PROVE  LET node == OpenAt(dir, name, kinds)
         IN  node \in Nodes /\ KindOf[node] \in kinds /\ name \in STRING /\ <<dir, name, node>> \in held
BY LookedUp DEF OpenAt

\* The steps of others keep all this, and forget nothing.
LEMMA StandingStep ==
  ASSUME Standing, OthersChange
  PROVE  Standing' /\ held \subseteq held'
<1>1. CASE Grow
  <2>1. /\ entries' = entries /\ held' = held /\ changed' = changed + 1
    BY <1>1 DEF Grow
  <2>2. sizes' \in [{n \in Nodes : KindOf[n] = "file"} -> Nat]
    BY <1>1 DEF Grow, Standing
  <2> QED
    BY <2>1, <2>2 DEF Standing
<1>2. CASE Replace
  <2>1. PICK c \in Changes :
            entries' = [entries EXCEPT ![c[1]] =
                          IF c[3] = Absent THEN [n \in DOMAIN @ \ {c[2]} |-> @[n]]
                          ELSE [n \in DOMAIN @ \cup {c[2]} |-> IF n = c[2] THEN c[3] ELSE @[n]]]
    BY <1>2 DEF Replace
  <2>2. held' = held \cup Held(entries') /\ changed' = changed + 1 /\ sizes' = sizes
    BY <1>2 DEF Replace
  <2>3. c[1] \in Dirs /\ c[2] \in STRING \ {Absent} /\ c[3] \in Nodes \cup {Absent}
    BY TreeAssumption
  <2>4. DOMAIN entries' = Dirs
    BY <2>1 DEF Standing
  <2>5. ASSUME NEW d \in Dirs
        PROVE  /\ IsFiniteSet(DOMAIN entries'[d]) /\ DOMAIN entries'[d] \subseteq STRING \ {Absent}
               /\ \A n \in DOMAIN entries'[d] : entries'[d][n] \in Nodes
    <3>t. /\ IsFiniteSet(DOMAIN entries[d]) /\ DOMAIN entries[d] \subseteq STRING \ {Absent}
          /\ \A n \in DOMAIN entries[d] : entries[d][n] \in Nodes
      BY DEF Standing
    <3>1. CASE d # c[1]
      <4>1. entries'[d] = entries[d]
        BY <2>1, <3>1 DEF Standing
      <4> QED
        BY <3>t, <4>1
    <3>2. CASE d = c[1] /\ c[3] = Absent
      <4>1. entries'[d] = [n \in DOMAIN entries[d] \ {c[2]} |-> entries[d][n]]
        BY <2>1, <3>2 DEF Standing
      <4>2. IsFiniteSet(DOMAIN entries[d] \ {c[2]})
        BY <3>t, FS_Difference
      <4> QED
        BY <3>t, <4>1, <4>2
    <3>3. CASE d = c[1] /\ c[3] # Absent
      <4>1. entries'[d] = [n \in DOMAIN entries[d] \cup {c[2]} |-> IF n = c[2] THEN c[3] ELSE entries[d][n]]
        BY <2>1, <3>3 DEF Standing
      <4>2. IsFiniteSet(DOMAIN entries[d] \cup {c[2]})
        BY <3>t, FS_AddElement
      <4> QED
        BY <2>3, <3>t, <3>3, <4>1, <4>2
    <3> QED
      BY <3>1, <3>2, <3>3
  <2> QED
    BY <2>2, <2>4, <2>5 DEF Standing
<1> QED
  BY <1>1, <1>2 DEF OthersChange

Reached == Nodes \cup {Absent}

\* Where a path leads, name by name.
Track(node, path, h) ==
  /\ h[0] = node /\ \A i \in 1 .. Len(path) : h[i] = Inside(h[i - 1], path[i])
  /\ \A i \in 0 .. Len(path) : h[i] \in Reached

\* Every path can be followed name by name.
LEMMA PathTracked ==
  ASSUME Standing, NEW node \in Reached, NEW path \in Seq(STRING)
  PROVE  \E h : Track(node, path, h) /\ NodeBelow(node, path) = h[Len(path)]
<1> DEFINE n == Len(path)
           Runs(g) == g = [i \in 0 .. n |-> IF i = 0 THEN node ELSE Inside(g[i - 1], path[i])]
           f == [x \in (1 .. n) \X Reached |-> Inside(x[2], path[x[1]])]
           h == CHOOSE g : Runs(g)
<1>1. n \in Nat
  OBVIOUS
<1>2. \A d \in Reached : \A name : Inside(d, name) \in Reached
  BY LookedUp DEF Inside, Reached
<1>3. \A i \in 1 .. n : \A d \in Reached : f[<<i, d>>] = Inside(d, path[i])
  OBVIOUS
<1>4. Steady(f, Reached, n)
  BY <1>2, <1>3 DEF Steady
<1>5. NodeBelow(node, path) = h[n]
  BY Zenon DEF NodeBelow
<1> HIDE DEF f, n
<1>6. PICK g : Looped(f, Reached, n, node, g)
  BY <1>1, <1>4, IterationExists
<1>7. \A i \in 0 .. n : g[i] = IF i = 0 THEN node ELSE Inside(g[i - 1], path[i])
  <2> TAKE i \in 0 .. n
  <2>1. CASE i = 0
    BY <1>6, <2>1 DEF Looped
  <2>2. CASE i # 0
    <3>1. i \in 1 .. n /\ g[i - 1] \in Reached
      BY <1>1, <1>6, <2>2 DEF Looped
    <3> QED
      BY <1>3, <1>6, <2>2, <3>1 DEF Looped
  <2> QED
    BY <2>1, <2>2
<1>8. Runs(g)
  BY <1>6, <1>7 DEF Looped
<1>9. Runs(h)
  BY <1>8, Zenon
<1> HIDE DEF h
<1>10. h[0] = node /\ \A i \in 1 .. n : h[i] = Inside(h[i - 1], path[i])
  BY <1>1, <1>9
<1>11. h[0] \in Reached /\ \A i \in 1 .. n : h[i - 1] \in Reached => h[i] \in Reached
  BY <1>2, <1>10
<1>12. \A i \in 0 .. n : h[i] \in Reached
  BY <1>1, <1>11, IterationStays
<1> QED
  BY <1>5, <1>10, <1>12 DEF Track, n

\* Paths that begin with the same names lead to the same places.
LEMMA SameTrack ==
  ASSUME NEW node, NEW path \in Seq(STRING), NEW h, Track(node, path, h),
         NEW way \in Seq(STRING), NEW g, Track(node, way, g),
         NEW n \in Nat, n <= Len(path), n <= Len(way), \A i \in 1 .. n : path[i] = way[i]
  PROVE  h[n] = g[n]
<1> DEFINE pair == [i \in 0 .. n |-> <<h[i], g[i]>>]
           Same == {<<x, x>> : x \in Reached}
<1>1. Len(path) \in Nat /\ Len(way) \in Nat
  OBVIOUS
<1>2. pair[0] \in Same
  BY <1>1 DEF Track
<1>3. \A i \in 1 .. n : pair[i - 1] \in Same => pair[i] \in Same
  <2> TAKE i \in 1 .. n
  <2>1. /\ i \in 1 .. Len(path) /\ i \in 1 .. Len(way) /\ i - 1 \in 0 .. n /\ i \in 0 .. n
        /\ i \in 0 .. Len(path)
    BY <1>1
  <2>2. h[i] = Inside(h[i - 1], path[i]) /\ g[i] = Inside(g[i - 1], path[i]) /\ h[i] \in Reached
    BY <2>1 DEF Track
  <2> QED
    BY <2>1, <2>2
<1> HIDE DEF pair, Same
<1>4. \A i \in 0 .. n : pair[i] \in Same
  BY <1>2, <1>3, IterationStays
<1>5. pair[n] \in Same
  BY <1>4
<1> QED
  BY <1>5 DEF pair, Same

\* A path leads to a node, or to nothing.
LEMMA NodesBelow ==
  ASSUME Standing, NEW node \in Reached, NEW path \in Seq(STRING)
  PROVE  NodeBelow(node, path) \in Reached
BY PathTracked DEF Track

\* A single name is a path.
LEMMA SingletonWord ==
  ASSUME NEW name \in STRING
  PROVE  <<name>> \in Seq(STRING)
<1>1. <<>> \in Seq(STRING) /\ <<name>> = Append(<<>>, name)
  OBVIOUS
<1> QED
  BY <1>1, AppendProperties

\* A path that leads to something leads through directories only.
LEMMA ThroughDirectories ==
  ASSUME Standing, NEW node \in Reached, NEW path \in Seq(STRING), NodeBelow(node, path) # Absent,
         NEW k \in 0 .. Len(path) - 1
  PROVE  NodeBelow(node, SubSeq(path, 1, k)) \in Dirs
<1> DEFINE n == Len(path)
           way == SubSeq(path, 1, k)
<1>1. PICK h : Track(node, path, h) /\ NodeBelow(node, path) = h[n]
  BY PathTracked
<1>2. n \in Nat /\ k \in Nat /\ k <= n
  OBVIOUS
<1>3. way \in Seq(STRING) /\ Len(way) = k /\ \A i \in 1 .. k : way[i] = path[i]
  OBVIOUS
<1> HIDE DEF way
<1>4. PICK g : Track(node, way, g) /\ NodeBelow(node, way) = g[k]
  BY <1>3, PathTracked
<1>5. h[k] = g[k]
  <2>1. k <= Len(path) /\ k <= Len(way) /\ \A i \in 1 .. k : path[i] = way[i]
    BY <1>2, <1>3
  <2>2. Track(node, path, h) /\ Track(node, way, g)
    BY <1>1, <1>4
  <2> HIDE DEF n
  <2> QED
    BY <1>2, <1>3, <2>1, <2>2, SameTrack
<1>6. \A i \in 1 .. n : h[i] # Absent => h[i - 1] \in Dirs
  BY <1>1 DEF Track, Inside
<1> DEFINE back == [i \in 0 .. n |-> h[n - i]]
<1>7. back[0] \in Nodes
  BY <1>1, <1>2 DEF Track, Reached
<1>8. \A i \in 1 .. n : back[i - 1] \in Nodes => back[i] \in Nodes
  <2> TAKE i \in 1 .. n
  <2>1. n - (i - 1) \in 1 .. n /\ n - i = (n - (i - 1)) - 1 /\ i \in 0 .. n /\ i - 1 \in 0 .. n
    BY <1>2
  <2>2. Absent \notin Nodes
    BY TreeAssumption
  <2> QED
    BY <1>6, <2>1, <2>2 DEF Dirs
<1> HIDE DEF back
<1>9. \A i \in 0 .. n : back[i] \in Nodes
  BY <1>2, <1>7, <1>8, IterationStays
<1>10. h[k + 1] \in Nodes
  <2>1. n - (k + 1) \in 0 .. n /\ n - (n - (k + 1)) = k + 1
    BY <1>2
  <2> QED
    BY <1>9, <2>1 DEF back
<1>11. k + 1 \in 1 .. n /\ (k + 1) - 1 = k /\ h[k + 1] # Absent
  BY <1>2, <1>10, TreeAssumption
<1> QED
  BY <1>4, <1>5, <1>6, <1>11 DEF way

\* No name leads nowhere else.
LEMMA NodeNowhere ==
  ASSUME Standing, NEW node \in Reached
  PROVE  NodeBelow(node, <<>>) = node
<1>1. <<>> \in Seq(STRING) /\ Len(<<>>) = 0
  OBVIOUS
<1>2. PICK e : Track(node, <<>>, e) /\ NodeBelow(node, <<>>) = e[Len(<<>>)]
  BY <1>1, PathTracked
<1> QED
  BY <1>1, <1>2 DEF Track

\* One name more leads one entry further.
LEMMA BelowNext ==
  ASSUME Standing, NEW node \in Reached, NEW path \in Seq(STRING), NEW name \in STRING
  PROVE  NodeBelow(node, Append(path, name)) = Inside(NodeBelow(node, path), name)
<1> DEFINE more == Append(path, name)
           n == Len(path)
<1>e. Len(path) \in Nat
  OBVIOUS
<1>a. Append(path, name) \in Seq(STRING)
  BY AppendProperties, Zenon
<1>b. Len(Append(path, name)) = Len(path) + 1
  BY AppendProperties
<1>c. \A i \in 1 .. Len(path) : Append(path, name)[i] = path[i]
  BY AppendProperties
<1>d. Append(path, name)[Len(path) + 1] = name
  BY AppendProperties
<1>1. /\ more \in Seq(STRING) /\ Len(more) = n + 1 /\ n \in Nat /\ more[n + 1] = name
      /\ \A i \in 1 .. n : more[i] = path[i]
  BY <1>a, <1>b, <1>c, <1>d, <1>e
<1> HIDE DEF more
<1>2. PICK h : Track(node, path, h) /\ NodeBelow(node, path) = h[n]
  BY PathTracked
<1>3. PICK g : Track(node, more, g) /\ NodeBelow(node, more) = g[n + 1]
  BY <1>1, PathTracked
<1>4. h[n] = g[n]
  BY <1>1, <1>2, <1>3, SameTrack
<1>5. g[n + 1] = Inside(g[n], name)
  <2>1. n + 1 \in 1 .. Len(more) /\ (n + 1) - 1 = n
    BY <1>1
  <2> QED
    BY <1>1, <1>3, <2>1 DEF Track
<1> QED
  BY <1>2, <1>3, <1>4, <1>5 DEF more

\* A path with the link on it replaced is a path.
LEMMA FollowedIsPath ==
  ASSUME Standing, NEW path \in Seq(STRING)
  PROVE  Followed(path) \in Seq(STRING)
<1>1. CASE LinksOn(path) = {}
  BY <1>1 DEF Followed
<1>2. CASE LinksOn(path) # {}
  <2> DEFINE i == CHOOSE j \in LinksOn(path) : TRUE
             node == NodeAt(SubSeq(path, 1, i))
  <2>1. i \in LinksOn(path)
    BY <1>2
  <2> HIDE DEF i
  <2>2. i \in DOMAIN path /\ node # Absent /\ KindOf[node] = "link"
    BY <2>1 DEF LinksOn
  <2>3. SubSeq(path, 1, i) \in Seq(STRING) /\ SubSeq(path, i + 1, Len(path)) \in Seq(STRING)
    BY <2>2
  <2>4. node \in Nodes
    BY <2>2, <2>3, NodesBelow, TreeAssumption DEF NodeAt, Reached, Dirs
  <2>5. TargetOf[node] \in Seq(STRING)
    BY <2>2, <2>4, TreeAssumption
  <2> QED
    BY <1>2, <2>3, <2>5, Begins DEF Followed, i
<1> QED
  BY <1>1, <1>2

\* What realpath returns is a path to something that is no link, with none on the
\* way; and of such a path it returns itself.
LEMMA Canonical ==
  ASSUME Standing, NEW path \in Seq(STRING)
  PROVE  /\ Canonicalize(path) \in Seq(STRING)
         /\ Canonicalize(path) # <<Absent>> =>
              NodeAt(Canonicalize(path)) # Absent /\ LinksOn(Canonicalize(path)) = {}
         /\ NodeAt(path) # Absent /\ LinksOn(path) = {} => Canonicalize(path) = path
<1> DEFINE P == Seq(STRING)
           n == MaxLinks
           Runs(g) == g = [i \in 0 .. n |-> IF i = 0 THEN path ELSE Followed(g[i - 1])]
           f == [x \in (1 .. n) \X P |-> Followed(x[2])]
           h == CHOOSE g : Runs(g)
<1>1. n \in Nat
  BY DEF MaxLinks
<1>2. \A i \in 1 .. n : \A way \in P : f[<<i, way>>] = Followed(way)
  OBVIOUS
<1>3. \A way \in P : Followed(way) \in P
  BY FollowedIsPath
<1>5. Canonicalize(path) = IF NodeAt(h[n]) = Absent \/ LinksOn(h[n]) # {} THEN <<Absent>> ELSE h[n]
  BY Zenon DEF Canonicalize
<1> HIDE DEF f, n, P
<1>4. Steady(f, P, n)
  BY <1>2, <1>3 DEF Steady
<1>0. path \in P
  BY DEF P
<1>6. PICK g : Looped(f, P, n, path, g)
  BY <1>0, <1>1, <1>4, IterationExists
<1>7. \A i \in 0 .. n : g[i] = IF i = 0 THEN path ELSE Followed(g[i - 1])
  <2> TAKE i \in 0 .. n
  <2>1. CASE i = 0
    BY <1>6, <2>1 DEF Looped
  <2>2. CASE i # 0
    <3>1. i \in 1 .. n /\ g[i - 1] \in P
      BY <1>1, <1>6, <2>2 DEF Looped
    <3> QED
      BY <1>2, <1>6, <2>2, <3>1 DEF Looped
  <2> QED
    BY <2>1, <2>2
<1>8. Runs(g)
  BY <1>6, <1>7 DEF Looped
<1>9. Runs(h)
  BY <1>8, Zenon
<1> HIDE DEF h
<1>10. h[0] = path /\ \A i \in 1 .. n : h[i] = Followed(h[i - 1])
  BY <1>1, <1>9
<1>11. h[n] \in P
  <2>1. h[0] \in P /\ \A i \in 1 .. n : h[i - 1] \in P => h[i] \in P
    BY <1>0, <1>3, <1>10
  <2>2. \A i \in 0 .. n : h[i] \in P
    BY <1>1, <2>1, IterationStays
  <2> QED
    BY <1>1, <2>2
<1>12. <<Absent>> \in P
  BY SingletonWord, TreeAssumption DEF P
<1>13. LinksOn(path) = {} => h[n] = path
  <2> SUFFICES ASSUME LinksOn(path) = {} PROVE h[n] = path
    OBVIOUS
  <2> DEFINE Only == {path}
  <2>1. h[0] \in Only /\ \A i \in 1 .. n : h[i - 1] \in Only => h[i] \in Only
    BY <1>10 DEF Followed
  <2> HIDE DEF Only
  <2>2. \A i \in 0 .. n : h[i] \in Only
    BY <1>1, <2>1, IterationStays
  <2> QED
    BY <1>1, <2>2 DEF Only
<1> QED
  BY <1>5, <1>11, <1>12, <1>13 DEF P

\* Also when only the first name is resolved.
LEMMA RootResolved ==
  ASSUME Standing, NEW path \in Seq(STRING)
  PROVE  ResolveRootSymlink(path) \in Seq(STRING)
<1>1. CASE path = <<>>
  BY <1>1 DEF ResolveRootSymlink
<1>2. CASE path # <<>>
  <2>1. Head(path) \in STRING /\ Tail(path) \in Seq(STRING)
    BY <1>2
  <2>2. Canonicalize(<<Head(path)>>) \in Seq(STRING)
    BY <2>1, SingletonWord, Canonical
  <2>3. Canonicalize(<<Head(path)>>) \o Tail(path) \in Seq(STRING)
    BY <2>1, <2>2, Begins
  <2> QED
    BY <1>2, <2>2, <2>3 DEF ResolveRootSymlink
<1> QED
  BY <1>1, <1>2

-----------------------------------------------------------------------------
(* Ways, and what has been opened along them.                                  *)

\* The directories opened so far along a way: each was an entry of the one before
\* it, under the name that came next.
Opening(way, nodes, h) ==
  /\ way \in Seq(STRING) /\ nodes \in Seq(Dirs) /\ nodes # <<>>
  /\ Len(nodes) <= Len(way) + 1
  /\ \A i \in 1 .. Len(nodes) - 1 : <<nodes[i], way[i], nodes[i + 1]>> \in h

\* The same to the end of the way, whatever lies there.
Linked(way, nodes, h) ==
  /\ way \in Seq(STRING) /\ nodes \in Seq(Nodes)
  /\ Len(nodes) = Len(way) + 1
  /\ \A i \in 1 .. Len(way) : <<nodes[i], way[i], nodes[i + 1]>> \in h
  /\ \A i \in 1 .. Len(nodes) : KindOf[nodes[i]] # "link"

\* Such nodes are a chain of entries.
LEMMA LinkedIsChain ==
  ASSUME NEW way, NEW nodes, Linked(way, nodes, held)
  PROVE  Chain(way, nodes)
BY DEF Linked, Chain

\* Nothing that has been an entry is forgotten.
LEMMA StillOpened ==
  ASSUME NEW way, NEW nodes, NEW h, NEW k, h \subseteq k
  PROVE  /\ Opening(way, nodes, h) => Opening(way, nodes, k)
         /\ Linked(way, nodes, h) => Linked(way, nodes, k)
BY DEF Opening, Linked

\* Directories opened to the end of a way are linked.
LEMMA OpenedIsLinked ==
  ASSUME NEW way, NEW nodes, NEW h, Opening(way, nodes, h), Len(nodes) = Len(way) + 1
  PROVE  Linked(way, nodes, h)
BY DEF Opening, Linked, Dirs

\* A way goes on from the last of its directories, under the next name.
LEMMA OpenedNext ==
  ASSUME NEW way, NEW nodes, NEW h, Opening(way, nodes, h), Len(nodes) <= Len(way),
         NEW node \in Nodes, <<Last(nodes), way[Len(nodes)], node>> \in h
  PROVE  /\ node \in Dirs => Opening(way, Append(nodes, node), h)
         /\ Len(nodes) = Len(way) /\ KindOf[node] # "link" => Linked(way, Append(nodes, node), h)
         /\ Len(Append(nodes, node)) = Len(nodes) + 1
         /\ Head(Append(nodes, node)) = Head(nodes) /\ Last(Append(nodes, node)) = node
<1> DEFINE more == Append(nodes, node)
<1>1. /\ nodes \in Seq(Dirs) /\ nodes # <<>> /\ Len(nodes) \in Nat /\ Len(nodes) >= 1 /\ way \in Seq(STRING)
      /\ nodes \in Seq(Nodes)
  BY DEF Opening, Dirs
<1>2. /\ more \in Seq(Nodes) /\ Len(more) = Len(nodes) + 1 /\ more[Len(more)] = node
      /\ \A i \in 1 .. Len(nodes) : more[i] = nodes[i]
      /\ node \in Dirs => more \in Seq(Dirs)
  BY <1>1
<1> HIDE DEF more
<1>3. ASSUME NEW i \in 1 .. Len(more) - 1
      PROVE  <<more[i], way[i], more[i + 1]>> \in h
  <2>1. CASE i = Len(nodes)
    <3>1. more[i] = Last(nodes) /\ more[i + 1] = node
      BY <1>1, <1>2, <2>1 DEF Last
    <3> QED
      BY <2>1, <3>1
  <2>2. CASE i # Len(nodes)
    <3>1. i \in 1 .. Len(nodes) - 1 /\ i + 1 \in 1 .. Len(nodes)
      BY <1>1, <1>2, <2>2
    <3>2. more[i] = nodes[i] /\ more[i + 1] = nodes[i + 1]
      BY <1>1, <1>2, <3>1
    <3> QED
      BY <3>1, <3>2 DEF Opening
  <2> QED
    BY <2>1, <2>2
<1>4. node \in Dirs => Opening(way, more, h)
  BY <1>1, <1>2, <1>3 DEF Opening
<1>5. ASSUME Len(nodes) = Len(way), KindOf[node] # "link"
      PROVE  Linked(way, more, h)
  <2>1. \A i \in 1 .. Len(more) : KindOf[more[i]] # "link"
    <3> TAKE i \in 1 .. Len(more)
    <3>1. CASE i = Len(more)
      BY <1>2, <1>5, <3>1
    <3>2. CASE i # Len(more)
      BY <1>1, <1>2, <3>2 DEF Dirs
    <3> QED
      BY <3>1, <3>2
  <2> QED
    BY <1>1, <1>2, <1>3, <1>5, <2>1 DEF Linked
<1>6. more[1] = nodes[1] /\ Head(more) = more[1] /\ Head(nodes) = nodes[1] /\ Last(more) = node
  BY <1>1, <1>2 DEF Last
<1> QED
  BY <1>2, <1>4, <1>5, <1>6 DEF more

\* Where a way has come to its end another name may follow.
LEMMA Deeper ==
  ASSUME NEW way, NEW nodes, NEW h, Opening(way, nodes, h), Len(nodes) = Len(way) + 1, NEW name \in STRING
  PROVE  /\ Opening(Append(way, name), nodes, h)
         /\ Len(nodes) = Len(Append(way, name)) /\ Append(way, name)[Len(nodes)] = name
<1> DEFINE more == Append(way, name)
<1>1. /\ way \in Seq(STRING) /\ nodes \in Seq(Dirs) /\ Len(nodes) \in Nat /\ Len(way) \in Nat
      /\ nodes # <<>>
  BY DEF Opening
<1>2. /\ more \in Seq(STRING) /\ Len(more) = Len(way) + 1 /\ more[Len(more)] = name
      /\ \A i \in 1 .. Len(way) : more[i] = way[i]
  <2>1. more \in Seq(STRING) /\ Len(more) = Len(way) + 1
    BY <1>1, AppendProperties
  <2>2. more[Len(way) + 1] = name
    BY <1>1, AppendProperties
  <2>3. \A i \in 1 .. Len(way) : more[i] = way[i]
    BY <1>1, AppendProperties
  <2> QED
    BY <2>1, <2>2, <2>3
<1> HIDE DEF more
<1>3. \A i \in 1 .. Len(nodes) - 1 : <<nodes[i], more[i], nodes[i + 1]>> \in h
  BY <1>1, <1>2 DEF Opening
<1>4. Len(nodes) = Len(more) /\ more[Len(nodes)] = name
  BY <1>1, <1>2
<1>5. Len(nodes) <= Len(more) + 1
  BY <1>1, <1>4
<1>6. Opening(more, nodes, h)
  BY <1>1, <1>2, <1>3, <1>5 DEF Opening
<1> QED
  BY <1>4, <1>6 DEF more

-----------------------------------------------------------------------------
(* The copy of a local dependency.                                             *)

Object == [kind : {"dir", "file"}, size : Nat, content : Seq(Nodes) \cup {"none"}]

\* What has been copied has the directories above it, each object by its path.
OnDisk(d) ==
  /\ IsFiniteSet(DOMAIN d) /\ d = [p \in DOMAIN d |-> d[p]]
  /\ \A p \in DOMAIN d : p \in Seq(STRING) /\ p # <<>> /\ d[p] \in Object /\ Parents(p) \subseteq DOMAIN d

CopySteps == {"list", "entry", "file", "read", "done"}

Walker ==
  [source : Seq(STRING), root : Seq(STRING), way : Seq(STRING), opened : Seq(Dirs),
   queue : Seq([node : Seq(Dirs), path : Seq(STRING)]), names : Seq(STRING), file : Reached]

\* The source was opened along its way from the top, and confined.
Located ==
  /\ walk \in Walker
  /\ step \in {"source", "root", "resolve", "open"} \cup CopySteps \cup Errors
  /\ Opening(walk.way, walk.opened, held)
  /\ step \in {"source", "root", "resolve"} => walk.opened = <<Top>>
  /\ step \in {"resolve", "open"} \cup CopySteps => job.trusted \/ IsPrefix(walk.root, walk.source)
  /\ step \in CopySteps => Len(walk.opened) = Len(walk.way) + 1

\* Where a directory of the source stands, and its copy.
Standpoint(q) ==
  /\ Opening(q.path, q.node, held) /\ Len(q.node) = Len(q.path) + 1
  /\ Head(q.node) = Last(walk.opened) /\ q.path \in DOMAIN disk \cup {<<>>}

\* The directories to be copied were opened along their paths from the source.
Underway ==
  /\ step \in CopySteps => \A i \in 1 .. Len(walk.queue) : Standpoint(walk.queue[i])
  /\ step \in {"entry", "file", "read"} => walk.queue # <<>>
  /\ step \in {"file", "read"} => walk.names # <<>>
  /\ step = "read" =>
       /\ ChildPath \in DOMAIN disk
       /\ walk.file \in Nodes /\ KindOf[walk.file] = "file"

\* Every file was opened along its path from the source, and all that was copied
\* has been counted.
Copied ==
  /\ OnDisk(disk)
  /\ step \notin CopySteps => disk = Empty
  /\ \A p \in DOMAIN disk : disk[p].kind = "file" =>
       Linked(p, disk[p].content, held) /\ Head(disk[p].content) = Last(walk.opened)
  /\ stats \in [files : Nat, bytes : Nat]
  /\ Cardinality(DOMAIN disk) + (IF step = "file" THEN 1 ELSE 0) <= stats.files
  /\ stats.files <= MaxExtractedFiles
  /\ Weight(disk) <= stats.bytes /\ stats.bytes <= MaxExtractedSize

Copying == job \in Requests /\ Located /\ Underway /\ Copied

\* One object more, or one that has grown, weighs no more than what was added.
LEMMA OneObjectMore ==
  ASSUME NEW d, IsFiniteSet(DOMAIN d), \A p \in DOMAIN d : d[p].size \in Nat,
         NEW c, NEW e, DOMAIN e = DOMAIN d \cup {c}, \A p \in DOMAIN d \ {c} : e[p].size = d[p].size,
         NEW n \in Nat, e[c].size \in Nat, e[c].size <= (IF c \in DOMAIN d THEN d[c].size ELSE 0) + n
  PROVE  /\ IsFiniteSet(DOMAIN e) /\ Cardinality(DOMAIN e) <= Cardinality(DOMAIN d) + 1
         /\ Weight(e) \in Nat /\ Weight(e) <= Weight(d) + n
<1> DEFINE D == DOMAIN d
           R == D \ {c}
           f == [p \in DOMAIN d |-> d[p].size]
           g == [p \in DOMAIN e |-> e[p].size]
<1>1. /\ IsFiniteSet(D) /\ Cardinality(D) \in Nat
      /\ IsFiniteSet(D \cup {c}) /\ Cardinality(D \cup {c}) <= Cardinality(D) + 1
      /\ c \notin D => Cardinality(D \cup {c}) = Cardinality(D) + 1
  <2>1. IsFiniteSet(D) /\ Cardinality(D) \in Nat
    BY FS_CardinalityType
  <2> HIDE DEF D
  <2>2. IsFiniteSet(D \cup {c}) /\ Cardinality(D \cup {c}) = IF c \in D THEN Cardinality(D) ELSE Cardinality(D) + 1
    BY <2>1, FS_AddElement
  <2> QED
    BY <2>1, <2>2
<1>2. IsFiniteSet(R)
  BY FS_Difference
<1>3. Weight(e) = SumFunctionOnSet(g, D \cup {c}) /\ Weight(d) = SumFunctionOnSet(f, D)
  BY DEF Weight
<1>4. /\ \A p \in R : g[p] = f[p] /\ f[p] \in Nat
      /\ \A p \in D : f[p] \in Nat
      /\ g[c] = e[c].size /\ g[c] \in Nat /\ (c \in D => f[c] = d[c].size)
  OBVIOUS
<1>5. \A p \in D \cup {c} : g[p] \in Nat
  BY <1>4
<1> HIDE DEF f, g
<1> DEFINE E == D \cup {c}
<1>6. IsFiniteSet(E) /\ c \in E /\ E \ {c} = R /\ \A p \in E : g[p] \in Nat
  BY <1>1, <1>5
<1>7. SumFunctionOnSet(g, D \cup {c}) = g[c] + SumFunctionOnSet(g, R)
  <2> HIDE DEF E, R
  <2>1. SumFunctionOnSet(g, E) = g[c] + SumFunctionOnSet(g, E \ {c})
    BY <1>6, SumWithout
  <2> QED
    BY <1>6, <2>1 DEF E
<1>8. SumFunctionOnSet(g, R) = SumFunctionOnSet(f, R) /\ SumFunctionOnSet(f, R) \in Nat
  <2>1. \A p \in R : g[p] = f[p]
    BY <1>4
  <2>2. \A p \in R : f[p] \in Nat
    BY <1>4
  <2> HIDE DEF R
  <2> QED
    BY <1>2, <2>1, <2>2, SumSame, SumNat
<1>9. CASE c \in D
  <2>1. SumFunctionOnSet(f, D) = f[c] + SumFunctionOnSet(f, R)
    BY <1>1, <1>4, <1>9, SumWithout
  <2> QED
    BY <1>1, <1>3, <1>4, <1>7, <1>8, <1>9, <2>1
<1>10. CASE c \notin D
  <2>1. R = D
    BY <1>10
  <2> QED
    BY <1>1, <1>3, <1>4, <1>7, <1>8, <1>10, <2>1
<1> QED
  BY <1>9, <1>10

\* An empty object more weighs nothing.
LEMMA EmptyObjectMore ==
  ASSUME NEW d, IsFiniteSet(DOMAIN d), \A p \in DOMAIN d : d[p].size \in Nat, NEW c, c \notin DOMAIN d,
         NEW e, DOMAIN e = DOMAIN d \cup {c}, \A p \in DOMAIN d : e[p].size = d[p].size, e[c].size = 0
  PROVE  Cardinality(DOMAIN e) = Cardinality(DOMAIN d) + 1 /\ Weight(e) = Weight(d)
<1> DEFINE D == DOMAIN d
           E == D \cup {c}
           f == [p \in DOMAIN d |-> d[p].size]
           g == [p \in DOMAIN e |-> e[p].size]
<1>1. Weight(e) = SumFunctionOnSet(g, E) /\ Weight(d) = SumFunctionOnSet(f, D)
  BY DEF Weight
<1>2. /\ \A p \in D : g[p] = f[p] /\ f[p] \in Nat
      /\ \A p \in E : g[p] \in Nat
      /\ g[c] = 0
  OBVIOUS
<1>6. c \notin D /\ IsFiniteSet(D) /\ E \ {c} = D
  OBVIOUS
<1>3. Cardinality(DOMAIN e) = Cardinality(DOMAIN d) + 1
  BY FS_AddElement
<1> HIDE DEF f, g, D
<1>4. SumFunctionOnSet(f, D) \in Nat /\ SumFunctionOnSet(g, D) = SumFunctionOnSet(f, D)
  BY <1>2, <1>6, SumNat, SumSame
<1>5. SumFunctionOnSet(g, E) = g[c] + SumFunctionOnSet(g, E \ {c})
  <2>1. IsFiniteSet(E) /\ c \in E
    BY <1>6, FS_AddElement
  <2> HIDE DEF E
  <2> QED
    BY <1>2, <2>1, SumWithout
<1>7. Weight(e) = 0 + SumFunctionOnSet(f, D)
  BY <1>1, <1>2, <1>4, <1>5, <1>6
<1> QED
  BY <1>1, <1>3, <1>4, <1>7

\* An object that grows adds what it grows by.
LEMMA GrownObject ==
  ASSUME NEW d, IsFiniteSet(DOMAIN d), \A p \in DOMAIN d : d[p].size \in Nat, NEW c \in DOMAIN d, NEW n \in Nat,
         NEW e, DOMAIN e = DOMAIN d, \A p \in DOMAIN d \ {c} : e[p].size = d[p].size, e[c].size = d[c].size + n
  PROVE  Weight(e) = Weight(d) + n
<1> DEFINE D == DOMAIN d
           R == D \ {c}
           f == [p \in DOMAIN d |-> d[p].size]
           g == [p \in DOMAIN e |-> e[p].size]
<1>1. Weight(e) = SumFunctionOnSet(g, D) /\ Weight(d) = SumFunctionOnSet(f, D)
  BY DEF Weight
<1>2. /\ \A p \in R : g[p] = f[p]
      /\ \A p \in D : f[p] \in Nat
      /\ g[c] = f[c] + n
  OBVIOUS
<1>3. \A p \in D : g[p] \in Nat
  <2> TAKE p \in D
  <2>1. CASE p = c
    BY <1>2, <2>1
  <2>2. CASE p # c
    BY <1>2, <2>2
  <2> QED
    BY <2>1, <2>2
<1>4. IsFiniteSet(D) /\ c \in D
  OBVIOUS
<1> HIDE DEF f, g, D
<1>5. IsFiniteSet(R) /\ \A p \in R : f[p] \in Nat
  BY <1>2, <1>4, FS_Difference
<1>6. SumFunctionOnSet(f, D) = f[c] + SumFunctionOnSet(f, R) /\ SumFunctionOnSet(g, D) = g[c] + SumFunctionOnSet(g, R)
  BY <1>2, <1>3, <1>4, SumWithout
<1> HIDE DEF R
<1>7. SumFunctionOnSet(f, R) \in Nat /\ SumFunctionOnSet(g, R) = SumFunctionOnSet(f, R)
  BY <1>2, <1>5, SumNat, SumSame
<1>8. f[c] \in Nat
  BY <1>2, <1>4
<1> QED
  BY <1>1, <1>2, <1>6, <1>7, <1>8

\* Nothing weighs nothing.
LEMMA NothingCopied == OnDisk(Empty) /\ Cardinality(DOMAIN Empty) = 0 /\ Weight(Empty) = 0
<1>1. DOMAIN Empty = {}
  BY DEF Empty
<1>2. IsFiniteSet({}) /\ Cardinality({}) = 0
  BY FS_EmptySet
<1>3. Weight(Empty) = 0
  BY <1>1, <1>2, SumZero DEF Weight
<1> QED
  BY <1>1, <1>2, <1>3 DEF OnDisk, Empty

-----------------------------------------------------------------------------
(* The steps of a copy.                                                        *)

\* What a walk, the copy and what is underway depend on.
LEMMA LocatedKept ==
  ASSUME Located, job' = job, walk' = walk, held \subseteq held', step' \in Errors \/ step' = step
  PROVE  Located'
<1>1. Opening(walk.way, walk.opened, held')
  BY StillOpened DEF Located
<1>2. Located' <=>
        /\ walk \in Walker
        /\ step' \in {"source", "root", "resolve", "open"} \cup CopySteps \cup Errors
        /\ Opening(walk.way, walk.opened, held')
        /\ step' \in {"source", "root", "resolve"} => walk.opened = <<Top>>
        /\ step' \in {"resolve", "open"} \cup CopySteps => job.trusted \/ IsPrefix(walk.root, walk.source)
        /\ step' \in CopySteps => Len(walk.opened) = Len(walk.way) + 1
  BY DEF Located, Walker
<1> QED
  BY <1>1, <1>2 DEF Located, Errors, CopySteps

\* A copy that ends early leaves nothing, and promises nothing.
LEMMA Abandoned ==
  ASSUME Copying, step' \in Errors, disk' = Empty, UNCHANGED <<job, stats, walk>>, held \subseteq held'
  PROVE  Copying'
<1>1. Located'
  BY LocatedKept DEF Copying
<1>2. step' \notin CopySteps /\ step' \notin {"entry", "file", "read"}
  BY DEF Errors, CopySteps
<1>3. Underway'
  BY <1>2 DEF Underway
<1>4. DOMAIN Empty = {}
  BY DEF Empty
<1>5. Copied'
  <2>1. OnDisk(disk')
    BY NothingCopied
  <2>2. Cardinality(DOMAIN disk') = 0 /\ Weight(disk') = 0
    BY NothingCopied
  <2>3. stats \in [files : Nat, bytes : Nat] /\ stats.files <= MaxExtractedFiles /\ stats.bytes <= MaxExtractedSize
    BY DEF Copying, Copied
  <2> QED
    BY <1>2, <1>4, <2>1, <2>2, <2>3 DEF Copied
<1> QED
  BY <1>1, <1>3, <1>5 DEF Copying

\* Others change the tree, not what was opened or copied.
LEMMA CopyingAside ==
  ASSUME Copying, held \subseteq held', UNCHANGED <<materialiseVars, walk>>
  PROVE  Copying'
<1>1. UNCHANGED <<job, step, stats, disk, walk>>
  BY DEF materialiseVars
<1>2. Located'
  BY <1>1, LocatedKept DEF Copying
<1>3. Underway'
  <2>1. \A i \in 1 .. Len(walk.queue) : Standpoint(walk.queue[i]) => Standpoint(walk.queue[i])'
    BY <1>1, StillOpened DEF Standpoint
  <2> QED
    BY <1>1, <2>1 DEF Copying, Underway, ChildPath, Source
<1>4. Copied'
  <2>1. \A p \in DOMAIN disk : Linked(p, disk[p].content, held) => Linked(p, disk[p].content, held')
    BY StillOpened
  <2> QED
    BY <1>1, <2>1 DEF Copying, Copied
<1> QED
  BY <1>1, <1>2, <1>3, <1>4 DEF Copying

\* Until it is opened nothing has been copied.
LEMMA Preparing ==
  ASSUME Copying, step \notin CopySteps, step' \notin CopySteps, Located', UNCHANGED <<job, stats, disk>>
  PROVE  Copying'
<1>1. Underway'
  BY DEF Underway, CopySteps
<1>2. disk = Empty /\ DOMAIN Empty = {}
  BY DEF Copying, Copied, Empty
<1>3. step # "file" /\ step' # "file"
  BY DEF CopySteps
<1>4. Copied'
  BY <1>2, <1>3 DEF Copying, Copied
<1> QED
  BY <1>1, <1>4 DEF Copying

\* Finding the real paths of the source and of its root leaves the source
\* confined.
LEMMA SourceStep ==
  ASSUME Standing, Copying, held' = held, CanonicalSource \/ CanonicalRoot \/ ResolveWay
  PROVE  Copying'
<1>1. /\ job.path \in Seq(STRING) /\ job.declared \in Seq(STRING)
      /\ walk \in Walker /\ step \notin CopySteps /\ disk = Empty
      /\ step \in {"source", "root", "resolve"}
  BY RequestsAssumption DEF Copying, Copied, Located, CanonicalSource, CanonicalRoot, ResolveWay, CopySteps
<1>2. walk.opened = <<Top>> /\ Top \in Dirs
  BY <1>1, TreeAssumption DEF Copying, Located
<1>3. \A way \in Seq(STRING) : Opening(way, <<Top>>, held)
  <2> TAKE way \in Seq(STRING)
  <2>1. <<Top>> \in Seq(Dirs) /\ Len(<<Top>>) = 1 /\ <<Top>> # <<>> /\ Len(way) >= 0
    BY <1>2
  <2> QED
    BY <2>1 DEF Opening
<1>4. \A error \in Errors : Refuse(error) => Copying'
  BY <1>1, Abandoned DEF Refuse, Fails
<1>5. \A w : Proceed("open", w) \/ Proceed("root", w) \/ Proceed("resolve", w) =>
        /\ step' \in {"open", "root", "resolve"} /\ step' \notin CopySteps
        /\ walk' = w /\ UNCHANGED <<job, stats, disk>>
        /\ Proceed("open", w) => step' = "open"
        /\ Proceed("root", w) => step' = "root"
        /\ Proceed("resolve", w) => step' = "resolve"
  BY DEF Proceed, CopySteps
<1>6. CASE CanonicalSource
  <2> DEFINE source == Canonicalize(Candidate)
  <2>1. source \in Seq(STRING)
    <3>1. Candidate \in Seq(STRING)
      BY <1>1, Begins DEF Candidate
    <3> QED
      BY <3>1, Canonical
  <2> HIDE DEF source
  <2>2. CASE Refuse("io")
    BY <1>4, <2>2 DEF Errors
  <2>3. CASE Proceed("root", [walk EXCEPT !.source = source])
    <3>1. /\ walk' = [walk EXCEPT !.source = source] /\ step' = "root"
          /\ step' \notin CopySteps /\ UNCHANGED <<job, stats, disk>>
      BY <1>5, <2>3
    <3>2. walk' \in Walker /\ walk'.opened = walk.opened /\ walk'.way = walk.way
      BY <1>1, <2>1, <3>1 DEF Walker
    <3>3. Located'
      BY <1>2, <3>1, <3>2 DEF Copying, Located
    <3> QED
      BY <1>1, <3>1, <3>3, Preparing
  <2> QED
    BY <1>6, <2>2, <2>3 DEF CanonicalSource, source
<1>7. CASE CanonicalRoot
  <2> DEFINE root == Canonicalize(job.declared)
  <2>1. root \in Seq(STRING)
    BY <1>1, Canonical
  <2> HIDE DEF root
  <2>2. CASE Refuse("io") \/ Refuse("policy")
    BY <1>4, <2>2 DEF Errors
  <2>3. CASE Proceed("resolve", [walk EXCEPT !.root = root]) /\ (job.trusted \/ IsPrefix(root, walk.source))
    <3>1. /\ walk' = [walk EXCEPT !.root = root] /\ step' = "resolve"
          /\ step' \notin CopySteps /\ UNCHANGED <<job, stats, disk>>
      BY <1>5, <2>3
    <3>2. /\ walk' \in Walker /\ walk'.opened = walk.opened /\ walk'.way = walk.way
          /\ walk'.root = root /\ walk'.source = walk.source
      BY <1>1, <2>1, <3>1 DEF Walker
    <3>3. Located'
      BY <1>2, <2>3, <3>1, <3>2 DEF Copying, Located
    <3> QED
      BY <1>1, <3>1, <3>3, Preparing
  <2> QED
    BY <1>7, <2>2, <2>3 DEF CanonicalRoot, root
<1>8. CASE ResolveWay
  <2> DEFINE start == ResolveRootSymlink(IF Within THEN walk.root ELSE walk.source)
             way == start \o (IF Within THEN Relative ELSE <<>>)
  <2>1. walk.root \in Seq(STRING) /\ walk.source \in Seq(STRING)
    BY <1>1 DEF Walker
  <2>2. start \in Seq(STRING)
    BY <2>1, RootResolved
  <2>3. Within => Relative \in Seq(STRING)
    <3>1. Len(walk.root) \in Nat /\ Len(walk.source) \in Nat
      BY <2>1
    <3> QED
      BY <2>1, <3>1 DEF Relative
  <2>4. way \in Seq(STRING)
    <3>0. <<>> \in Seq(STRING)
      OBVIOUS
    <3>1. (IF Within THEN Relative ELSE <<>>) \in Seq(STRING)
      BY <2>3, <3>0, Zenon
    <3> QED
      BY <2>2, <3>1, Begins
  <2>5. CASE Refuse("io") \/ Refuse("policy")
    BY <1>4, <2>5 DEF Errors
  <2>6. CASE step = "resolve" /\ Proceed("open", [walk EXCEPT !.way = way])
    <3> HIDE DEF way
    <3>1. /\ walk' = [walk EXCEPT !.way = way] /\ step' = "open"
          /\ step' \notin CopySteps /\ UNCHANGED <<job, stats, disk>>
      BY <1>5, <2>6
    <3>2. /\ walk' \in Walker /\ walk'.opened = <<Top>> /\ walk'.way = way
          /\ walk'.root = walk.root /\ walk'.source = walk.source
      BY <1>1, <1>2, <2>4, <3>1 DEF Walker
    <3>3. Opening(way, <<Top>>, held)
      BY <1>3, <2>4
    <3>4. Located'
      BY <2>6, <3>1, <3>2, <3>3 DEF Copying, Located
    <3> QED
      BY <1>1, <3>1, <3>4, Preparing
  <2> QED
    BY <1>8, <2>5, <2>6 DEF ResolveWay
<1> QED
  BY <1>6, <1>7, <1>8

\* The source is opened directory by directory, and the copy begins with nothing
\* copied.
LEMMA OpenSourceStep ==
  ASSUME Standing, Copying, held' = held, OpenSource
  PROVE  Copying'
<1> DEFINE dir == Last(walk.opened)
<1>1. /\ walk \in Walker /\ step = "open" /\ step \notin CopySteps /\ disk = Empty
      /\ Opening(walk.way, walk.opened, held)
      /\ job.trusted \/ IsPrefix(walk.root, walk.source)
  BY DEF Copying, Copied, Located, OpenSource, CopySteps
<1>2. dir \in Dirs /\ Len(walk.opened) \in Nat /\ Len(walk.way) \in Nat /\ Len(walk.opened) <= Len(walk.way) + 1
  BY <1>1 DEF Opening, Last
<1>3. CASE Arrived /\ Proceed("list", [walk EXCEPT !.queue = << [node |-> <<dir>>, path |-> <<>>] >>])
  <2> DEFINE alone == << [node |-> <<dir>>, path |-> <<>>] >>
  <2>1. /\ step' = "list" /\ walk' = [walk EXCEPT !.queue = alone] /\ UNCHANGED <<job, stats, disk>>
    BY <1>3 DEF Proceed
  <2>2. [node |-> <<dir>>, path |-> <<>>] \in [node : Seq(Dirs), path : Seq(STRING)]
    BY <1>2
  <2>3. alone \in Seq([node : Seq(Dirs), path : Seq(STRING)]) /\ Len(alone) = 1
        /\ alone[1] = [node |-> <<dir>>, path |-> <<>>]
    BY <2>2
  <2> HIDE DEF alone
  <2>4. /\ walk' \in Walker /\ walk'.queue = alone /\ walk'.opened = walk.opened
        /\ walk'.way = walk.way /\ walk'.root = walk.root /\ walk'.source = walk.source
    BY <1>1, <2>1, <2>3 DEF Walker
  <2>5. Located'
    BY <1>1, <1>3, <2>1, <2>4 DEF Copying, Located, Arrived, CopySteps
  <2>6. Standpoint(walk.queue[1])'
    <3>1. <<dir>> \in Seq(Dirs) /\ Len(<<dir>>) = 1 /\ <<dir>> # <<>> /\ Head(<<dir>>) = dir /\ <<>> \in Seq(STRING)
      BY <1>2
    <3>2. Opening(<<>>, <<dir>>, held)
      BY <3>1 DEF Opening
    <3>3. walk'.queue[1].node = <<dir>> /\ walk'.queue[1].path = <<>> /\ Last(walk'.opened) = dir
      BY <2>3, <2>4
    <3> QED
      BY <3>1, <3>2, <3>3 DEF Standpoint
  <2>7. Underway'
    <3>0. Len(walk'.queue) = 1
      BY <2>3, <2>4, Zenon
    <3>1. \A i \in 1 .. Len(walk'.queue) : i = 1
      BY <3>0
    <3>2. \A i \in 1 .. Len(walk'.queue) : Standpoint(walk.queue[i])'
      BY <2>6, <3>1
    <3> QED
      BY <2>1, <3>2 DEF Underway
  <2>8. Copied'
    BY <1>1, <2>1 DEF Copying, Copied, Empty
  <2> QED
    BY <2>1, <2>5, <2>7, <2>8 DEF Copying
<1>4. CASE ~Arrived /\ NextDirectory # Absent /\ Proceed("open", [walk EXCEPT !.opened = Append(@, NextDirectory)])
  <2> DEFINE next == NextDirectory
  <2>1. next \in Nodes /\ next \in Dirs /\ <<dir, walk.way[Len(walk.opened)], next>> \in held
    BY <1>2, <1>4, OpenedAt DEF NextDirectory, OpenDirectory, NextName, Dirs
  <2> HIDE DEF next
  <2>2. /\ step' = "open" /\ walk' = [walk EXCEPT !.opened = Append(walk.opened, next)]
        /\ UNCHANGED <<job, stats, disk>>
    BY <1>4 DEF Proceed, next
  <2>3. Len(walk.opened) <= Len(walk.way)
    BY <1>2, <1>4 DEF Arrived
  <2>4. Opening(walk.way, Append(walk.opened, next), held)
    BY <1>1, <2>1, <2>3, OpenedNext
  <2>5. /\ walk' \in Walker /\ walk'.opened = Append(walk.opened, next)
        /\ walk'.way = walk.way /\ walk'.root = walk.root /\ walk'.source = walk.source
    BY <1>1, <2>2, <2>4 DEF Walker, Opening
  <2>6. step' \notin CopySteps
    BY <2>2 DEF CopySteps
  <2>7. Located'
    BY <1>1, <2>2, <2>4, <2>5, <2>6 DEF Copying, Located
  <2> QED
    BY <1>1, <2>2, <2>6, <2>7, Preparing
<1>5. CASE Refuse("io") \/ Refuse("policy")
  BY <1>1, <1>5, Abandoned DEF Refuse, Fails, Errors
<1> QED
  BY <1>3, <1>4, <1>5 DEF OpenSource

\* The directories above a path that goes one name further.
LEMMA ParentsAppended ==
  ASSUME NEW path \in Seq(STRING), NEW name \in STRING
  PROVE  \A p \in Parents(Append(path, name)) : path # <<>> /\ p \in Parents(path) \cup {path}
<1> DEFINE more == Append(path, name)
<1>1. /\ more \in Seq(STRING) /\ Len(more) = Len(path) + 1 /\ Len(path) \in Nat
      /\ \A i \in 1 .. Len(path) : more[i] = path[i]
  <2>1. more \in Seq(STRING) /\ Len(more) = Len(path) + 1
    BY AppendProperties
  <2>2. \A i \in 1 .. Len(path) : more[i] = path[i]
    BY AppendProperties
  <2>3. Len(path) \in Nat
    OBVIOUS
  <2> HIDE DEF more
  <2> QED
    BY <2>1, <2>2, <2>3
<1> HIDE DEF more
<1>2. ASSUME NEW n \in 1 .. Len(more) - 1
      PROVE  path # <<>> /\ SubSeq(more, 1, n) \in Parents(path) \cup {path}
  <2>1. n \in 1 .. Len(path) /\ path # <<>>
    BY <1>1
  <2>2. SubSeq(more, 1, n) = SubSeq(path, 1, n)
    BY <1>1, <2>1
  <2>3. CASE n = Len(path)
    <3>1. SubSeq(path, 1, n) = path
      BY <1>1, <2>3
    <3> QED
      BY <2>1, <2>2, <3>1
  <2>4. CASE n # Len(path)
    <3>1. n \in 1 .. Len(path) - 1
      BY <1>1, <2>1, <2>4
    <3> QED
      BY <2>1, <2>2, <3>1 DEF Parents
  <2> QED
    BY <2>3, <2>4
<1> QED
  BY <1>2 DEF Parents, more

\* Where the copy stands within a directory.
LEMMA ChildStands ==
  ASSUME Copying, step \in {"entry", "file", "read"}, walk.names # <<>>
  PROVE  /\ ChildPath \in Seq(STRING) /\ ChildPath # <<>> /\ Parents(ChildPath) \subseteq DOMAIN disk
         /\ Opening(ChildPath, Source.node, held)
         /\ Len(Source.node) = Len(ChildPath) /\ ChildPath[Len(Source.node)] = Head(walk.names)
         /\ SourceNode \in Dirs /\ Head(Source.node) = Last(walk.opened)
         /\ Head(walk.names) \in STRING /\ Tail(walk.names) \in Seq(STRING)
<1>1. /\ walk \in Walker /\ walk.queue # <<>> /\ OnDisk(disk)
      /\ \A i \in 1 .. Len(walk.queue) : Standpoint(walk.queue[i])
  BY DEF Copying, Located, Underway, Copied, CopySteps
<1>2. /\ walk.queue \in Seq([node : Seq(Dirs), path : Seq(STRING)]) /\ walk.names \in Seq(STRING)
  BY <1>1 DEF Walker
<1>3. Source = walk.queue[1] /\ 1 \in 1 .. Len(walk.queue)
  BY <1>1, <1>2 DEF Source
<1>4. Standpoint(Source)
  BY <1>1, <1>3
<1>5. Head(walk.names) \in STRING /\ Tail(walk.names) \in Seq(STRING)
  BY <1>2, HeadTailProperties
<1> DEFINE name == Head(walk.names)
<1> HIDE DEF name
<1>6. name \in STRING /\ ChildPath = Append(Source.path, name)
  BY <1>5 DEF ChildPath, name
<1>7. /\ Opening(Source.path, Source.node, held) /\ Len(Source.node) = Len(Source.path) + 1
      /\ Head(Source.node) = Last(walk.opened) /\ Source.path \in DOMAIN disk \cup {<<>>}
  BY <1>4 DEF Standpoint
<1>8. /\ Opening(ChildPath, Source.node, held)
      /\ Len(Source.node) = Len(ChildPath) /\ ChildPath[Len(Source.node)] = name
  BY <1>6, <1>7, Deeper
<1>9. ChildPath \in Seq(STRING) /\ ChildPath # <<>>
  BY <1>6, <1>7, AppendProperties DEF Opening
<1>10. Parents(ChildPath) \subseteq DOMAIN disk
  <2>1. \A p \in Parents(ChildPath) : Source.path # <<>> /\ p \in Parents(Source.path) \cup {Source.path}
    BY <1>6, <1>7, ParentsAppended DEF Opening
  <2> QED
    BY <1>1, <1>7, <2>1 DEF OnDisk
<1>11. SourceNode \in Dirs
  BY <1>7 DEF Opening, SourceNode, Last
<1> QED
  BY <1>5, <1>7, <1>8, <1>9, <1>10, <1>11 DEF name

\* While it goes on, the way to the source stays as it was.
LEMMA LocatedOn ==
  ASSUME Copying, step \in CopySteps, step' \in CopySteps, job' = job, held' = held, walk' \in Walker,
         walk'.opened = walk.opened, walk'.way = walk.way, walk'.root = walk.root, walk'.source = walk.source
  PROVE  Located'
BY DEF Copying, Located, CopySteps

\* And where directories stand does not change when more is copied.
LEMMA StandpointKept ==
  ASSUME NEW q, Standpoint(q), held' = held, walk'.opened = walk.opened, DOMAIN disk \subseteq DOMAIN disk'
  PROVE  /\ Opening(q.path, q.node, held') /\ Len(q.node) = Len(q.path) + 1
         /\ Head(q.node) = Last(walk'.opened) /\ q.path \in DOMAIN disk' \cup {<<>>}
BY DEF Standpoint

\* The names of a directory, in any order, or the first of them.
LEMMA NamesListed ==
  ASSUME Standing, NEW dir \in Dirs, NEW maximum \in Nat, NEW names \in Listings(dir, maximum)
  PROVE  names \in Seq(STRING)
<1> DEFINE here == DOMAIN entries[dir]
<1>1. IsFiniteSet(here) /\ here \subseteq STRING /\ Cardinality(here) \in Nat
  BY FS_CardinalityType DEF Standing
<1> HIDE DEF here
<1>2. PICK s \in SetToSeqs(here) :
          names = SubSeq(s, 1, IF Len(s) > maximum THEN maximum ELSE Len(s))
  BY DEF Listings, here
<1>3. s \in [1 .. Cardinality(here) -> STRING]
  BY <1>1, <1>2 DEF SetToSeqs
<1>4. s \in Seq(STRING) /\ Len(s) \in Nat
  BY <1>1, <1>3
<1> QED
  BY <1>2, <1>4

\* One object more on disk, or one that has grown, and counted.
LEMMA CopiedMore ==
  ASSUME Copying, step \in CopySteps, step' \in CopySteps, step' # "file", held' = held,
         walk'.opened = walk.opened,
         NEW c \in Seq(STRING), c # <<>>, Parents(c) \subseteq DOMAIN disk,
         DOMAIN disk' = DOMAIN disk \cup {c}, disk' = [p \in DOMAIN disk' |-> disk'[p]],
         \A p \in DOMAIN disk \ {c} : disk'[p] = disk[p],
         disk'[c] \in Object,
         disk'[c].kind = "file" => Linked(c, disk'[c].content, held) /\ Head(disk'[c].content) = Last(walk.opened),
         NEW n \in Nat, disk'[c].size <= (IF c \in DOMAIN disk THEN disk[c].size ELSE 0) + n,
         stats' \in [files : Nat, bytes : Nat],
         (c \in DOMAIN disk /\ stats'.files = stats.files) \/ Cardinality(DOMAIN disk) + 1 <= stats'.files,
         stats'.files <= MaxExtractedFiles, stats'.bytes = stats.bytes + n, stats'.bytes <= MaxExtractedSize
  PROVE  Copied'
<1>1. /\ OnDisk(disk) /\ stats \in [files : Nat, bytes : Nat]
      /\ Cardinality(DOMAIN disk) + (IF step = "file" THEN 1 ELSE 0) <= stats.files /\ Weight(disk) <= stats.bytes
      /\ \A p \in DOMAIN disk : disk[p].kind = "file" =>
           Linked(p, disk[p].content, held) /\ Head(disk[p].content) = Last(walk.opened)
  BY DEF Copying, Copied
<1>2. /\ IsFiniteSet(DOMAIN disk) /\ Cardinality(DOMAIN disk) \in Nat
      /\ \A p \in DOMAIN disk : disk[p].size \in Nat
  BY <1>1, FS_CardinalityType DEF OnDisk, Object
<1>3. /\ disk'[c].size \in Nat
      /\ \A p \in DOMAIN disk \ {c} : disk'[p].size = disk[p].size
  BY DEF Object
<1>4. /\ IsFiniteSet(DOMAIN disk') /\ Cardinality(DOMAIN disk') <= Cardinality(DOMAIN disk) + 1
      /\ Weight(disk') \in Nat /\ Weight(disk') <= Weight(disk) + n
  BY <1>2, <1>3, OneObjectMore
<1>5. Cardinality(DOMAIN disk') \in Nat /\ (c \in DOMAIN disk => DOMAIN disk' = DOMAIN disk)
  BY <1>4, FS_CardinalityType
<1>6. Cardinality(DOMAIN disk') <= stats'.files
  BY <1>1, <1>2, <1>4, <1>5
<1>7. OnDisk(disk')
  <2>1. \A p \in DOMAIN disk' : p \in Seq(STRING) /\ p # <<>> /\ disk'[p] \in Object /\ Parents(p) \subseteq DOMAIN disk'
    BY <1>1 DEF OnDisk
  <2> QED
    BY <1>4, <2>1 DEF OnDisk
<1>8. \A p \in DOMAIN disk' : disk'[p].kind = "file" =>
        Linked(p, disk'[p].content, held) /\ Head(disk'[p].content) = Last(walk.opened)
  <2> TAKE p \in DOMAIN disk'
  <2>1. CASE p = c
    BY <2>1
  <2>2. CASE p # c
    BY <1>1, <2>2
  <2> QED
    BY <2>1, <2>2
<1>9. Weight(disk') <= stats'.bytes
  <2>1. Weight(disk) \in Nat
    BY <1>2, SumNat DEF Weight
  <2> QED
    BY <1>1, <1>4, <2>1
<1>10. Cardinality(DOMAIN disk') + (IF step' = "file" THEN 1 ELSE 0) <= stats'.files
  BY <1>5, <1>6
<1> QED
  BY <1>7, <1>8, <1>9, <1>10 DEF Copied

\* Where nothing is copied, what was copied stays.
LEMMA CopiedKept ==
  ASSUME Copying, step \in CopySteps, step' \in CopySteps, held' = held, walk'.opened = walk.opened,
         disk' = disk, step' # "file", stats' = stats
  PROVE  Copied'
<1>1. \A k \in Nat : k + 1 <= stats.files => k + 0 <= stats.files
  BY DEF Copying, Copied
<1>2. Cardinality(DOMAIN disk) \in Nat
  BY FS_CardinalityType DEF Copying, Copied, OnDisk
<1>3. Cardinality(DOMAIN disk) + 0 <= stats.files
  BY <1>1, <1>2 DEF Copying, Copied
<1>4. \A p \in DOMAIN disk' : disk'[p].kind = "file" =>
        Linked(p, disk'[p].content, held') /\ Head(disk'[p].content) = Last(walk'.opened)
  BY DEF Copying, Copied
<1>5. Cardinality(DOMAIN disk') + (IF step' = "file" THEN 1 ELSE 0) <= stats'.files
  BY <1>3
<1>6. OnDisk(disk') /\ Weight(disk') <= stats'.bytes
  BY DEF Copying, Copied
<1>7. /\ stats' \in [files : Nat, bytes : Nat] /\ stats'.files <= MaxExtractedFiles
      /\ stats'.bytes <= MaxExtractedSize
  BY DEF Copying, Copied
<1> QED
  BY <1>4, <1>5, <1>6, <1>7 DEF Copied

\* The directories of the queue stand where they stood.
LEMMA QueueKept ==
  ASSUME Copying, step \in CopySteps, held' = held, walk'.opened = walk.opened,
         DOMAIN disk \subseteq DOMAIN disk', walk'.queue = walk.queue
  PROVE  \A i \in 1 .. Len(walk'.queue) : Standpoint(walk.queue[i])'
<1> TAKE i \in 1 .. Len(walk'.queue)
<1>1. Standpoint(walk.queue[i])
  BY DEF Copying, Underway
<1> QED
  BY <1>1, StandpointKept DEF Standpoint

\* A directory is listed, or done with.
LEMMA ListStep ==
  ASSUME Standing, Copying, held' = held, ListDirectory \/ DirectoryCopied
  PROVE  Copying'
<1>1. /\ walk \in Walker /\ step \in CopySteps
      /\ \A i \in 1 .. Len(walk.queue) : Standpoint(walk.queue[i])
      /\ walk.queue \in Seq([node : Seq(Dirs), path : Seq(STRING)])
  BY DEF Copying, Located, Underway, CopySteps, ListDirectory, DirectoryCopied, Walker
<1>2. CASE ListDirectory /\ walk.queue = <<>>
  <2>1. step' = "done" /\ walk' = walk /\ UNCHANGED <<job, stats, disk>>
    BY <1>2 DEF ListDirectory, Proceed
  <2>2. step' \in CopySteps /\ step' # "file"
    BY <2>1 DEF CopySteps
  <2>3. Located' /\ Copied'
    BY <1>1, <2>1, <2>2, LocatedOn, CopiedKept
  <2>4. Underway'
    BY <1>2, <2>1 DEF Underway
  <2> QED
    BY <2>1, <2>3, <2>4 DEF Copying
<1>3. CASE ListDirectory /\ walk.queue # <<>>
  <2>1. PICK names \in Listings(SourceNode, MaxExtractedFiles - stats.files + 1) :
            Proceed("entry", [walk EXCEPT !.names = names])
    BY <1>3 DEF ListDirectory
  <2>2. SourceNode \in Dirs
    <3>1. Source = walk.queue[1] /\ 1 \in 1 .. Len(walk.queue)
      BY <1>1, <1>3 DEF Source
    <3>2. Standpoint(Source)
      BY <1>1, <3>1
    <3>3. Source.node \in Seq(Dirs) /\ Source.node # <<>>
      BY <3>2 DEF Standpoint, Opening
    <3> QED
      BY <3>3 DEF SourceNode, Last
  <2>3. MaxExtractedFiles - stats.files + 1 \in Nat
    BY MaterialiseConstants DEF Copying, Copied
  <2>4. names \in Seq(STRING)
    BY <2>2, <2>3, NamesListed
  <2>5. /\ step' = "entry" /\ walk' = [walk EXCEPT !.names = names] /\ UNCHANGED <<job, stats, disk>>
    BY <2>1 DEF Proceed
  <2>6. /\ walk' \in Walker /\ walk'.queue = walk.queue /\ walk'.opened = walk.opened
        /\ walk'.way = walk.way /\ walk'.root = walk.root /\ walk'.source = walk.source
    BY <1>1, <2>4, <2>5 DEF Walker
  <2>7. step' \in CopySteps /\ step' # "file"
    BY <2>5 DEF CopySteps
  <2>8. Located' /\ Copied'
    BY <1>1, <2>5, <2>6, <2>7, LocatedOn, CopiedKept
  <2>9. \A i \in 1 .. Len(walk'.queue) : Standpoint(walk.queue[i])'
    BY <1>1, <2>5, <2>6, QueueKept
  <2>10. Underway'
    BY <1>3, <2>5, <2>6, <2>9 DEF Underway
  <2> QED
    BY <2>5, <2>8, <2>10 DEF Copying
<1>4. CASE DirectoryCopied
  <2>1. step' = "list" /\ walk' = [walk EXCEPT !.queue = Tail(walk.queue)] /\ UNCHANGED <<job, stats, disk>>
    BY <1>4 DEF DirectoryCopied, Proceed
  <2>2. walk.queue # <<>>
    BY <1>4 DEF DirectoryCopied, Copying, Underway
  <2>3. /\ Tail(walk.queue) \in Seq([node : Seq(Dirs), path : Seq(STRING)])
        /\ Len(Tail(walk.queue)) = Len(walk.queue) - 1
        /\ \A i \in 1 .. Len(Tail(walk.queue)) : Tail(walk.queue)[i] = walk.queue[i + 1]
    BY <1>1, <2>2, HeadTailProperties
  <2>4. /\ walk' \in Walker /\ walk'.queue = Tail(walk.queue) /\ walk'.opened = walk.opened
        /\ walk'.way = walk.way /\ walk'.root = walk.root /\ walk'.source = walk.source
    BY <1>1, <2>1, <2>3 DEF Walker
  <2>5. step' \in CopySteps /\ step' # "file" /\ step' \notin {"entry", "file", "read"}
    BY <2>1 DEF CopySteps
  <2>6. Located' /\ Copied'
    BY <1>1, <2>1, <2>4, <2>5, LocatedOn, CopiedKept
  <2>7. \A i \in 1 .. Len(walk'.queue) : Standpoint(walk.queue[i])'
    <3> TAKE i \in 1 .. Len(walk'.queue)
    <3>1. walk'.queue[i] = walk.queue[i + 1] /\ i + 1 \in 1 .. Len(walk.queue)
      BY <1>1, <2>3, <2>4
    <3>2. Standpoint(walk.queue[i + 1])
      BY <1>1, <3>1
    <3> QED
      BY <2>1, <2>4, <3>1, <3>2, StandpointKept DEF Standpoint
  <2>8. Underway'
    BY <2>5, <2>7 DEF Underway
  <2> QED
    BY <2>1, <2>6, <2>8 DEF Copying
<1> QED
  BY <1>2, <1>3, <1>4

\* An entry that is a directory is created and queued, one that is a file is
\* opened next.
LEMMA CopyEntryStep ==
  ASSUME Standing, Copying, held' = held, CopyEntry
  PROVE  Copying'
<1> DEFINE counted == CountObject(stats)
           child == OpenDirectory(SourceNode, Head(walk.names))
           c == ChildPath
<1>1. /\ walk \in Walker /\ step = "entry" /\ step \in CopySteps /\ walk.names # <<>>
      /\ OnDisk(disk) /\ stats \in [files : Nat, bytes : Nat]
      /\ Cardinality(DOMAIN disk) <= stats.files /\ Cardinality(DOMAIN disk) \in Nat
      /\ stats.bytes <= MaxExtractedSize
  <2>1. step = "entry" /\ walk.names # <<>>
    BY DEF CopyEntry, NextEntry
  <2>2. walk \in Walker /\ step \in CopySteps
    BY <2>1 DEF Copying, Located, CopySteps
  <2>3. OnDisk(disk) /\ stats \in [files : Nat, bytes : Nat] /\ stats.bytes <= MaxExtractedSize
    BY DEF Copying, Copied
  <2>4. Cardinality(DOMAIN disk) \in Nat
    BY <2>3, FS_CardinalityType DEF OnDisk
  <2>5. Cardinality(DOMAIN disk) + 0 <= stats.files
    BY <2>1 DEF Copying, Copied
  <2> QED
    BY <2>1, <2>2, <2>3, <2>4, <2>5
<1>2. /\ c \in Seq(STRING) /\ c # <<>> /\ Parents(c) \subseteq DOMAIN disk
      /\ Opening(c, Source.node, held)
      /\ Len(Source.node) = Len(c) /\ c[Len(Source.node)] = Head(walk.names)
      /\ SourceNode \in Dirs /\ Head(Source.node) = Last(walk.opened)
      /\ Head(walk.names) \in STRING /\ Tail(walk.names) \in Seq(STRING)
  BY <1>1, ChildStands
<1>3. /\ counted \in [files : Nat, bytes : Nat] /\ counted.files = stats.files + 1 /\ counted.bytes = stats.bytes
      /\ CheckLimits(counted) = "none" => counted.files <= MaxExtractedFiles
  BY <1>1, MaterialiseConstants DEF CountObject, CheckLimits
<1> HIDE DEF counted, c
<1>4. CASE \E error \in Errors : Abandon(error)
  BY <1>4, Abandoned DEF Abandon
<1>5. CASE /\ CheckLimits(counted) = "none" /\ child # Absent
           /\ disk' = Made({c}) /\ stats' = counted
           /\ walk' = [walk EXCEPT
                !.names = Tail(walk.names),
                !.queue = Append(walk.queue, [node |-> Append(Source.node, child), path |-> c])]
           /\ UNCHANGED <<job, step, at, table>>
  <2>1. child \in Nodes /\ child \in Dirs /\ <<SourceNode, Head(walk.names), child>> \in held
    BY <1>2, <1>5, OpenedAt DEF OpenDirectory, Dirs
  <2> DEFINE nodes == Append(Source.node, child)
             new == [node |-> nodes, path |-> c]
  <2>2. <<Last(Source.node), c[Len(Source.node)], child>> \in held
    BY <1>2, <2>1 DEF SourceNode
  <2>3. Len(Source.node) <= Len(c) /\ Len(c) \in Nat
    BY <1>2
  <2>4. Opening(c, nodes, held) /\ Len(nodes) = Len(c) + 1 /\ Head(nodes) = Last(walk.opened)
    BY <1>2, <2>1, <2>2, <2>3, OpenedNext
  <2> HIDE DEF nodes
  <2>5. new \in [node : Seq(Dirs), path : Seq(STRING)]
    BY <1>2, <2>4 DEF Opening
  <2> HIDE DEF new
  <2>6. walk.queue \in Seq([node : Seq(Dirs), path : Seq(STRING)])
    BY <1>1 DEF Walker
  <2>7. /\ Append(walk.queue, new) \in Seq([node : Seq(Dirs), path : Seq(STRING)])
        /\ Len(Append(walk.queue, new)) = Len(walk.queue) + 1
        /\ \A i \in 1 .. Len(walk.queue) : Append(walk.queue, new)[i] = walk.queue[i]
        /\ Append(walk.queue, new)[Len(walk.queue) + 1] = new
    BY <2>5, <2>6, AppendProperties
  <2>8. walk' = [walk EXCEPT !.names = Tail(walk.names), !.queue = Append(walk.queue, new)]
    BY <1>5 DEF new, nodes
  <2>9. /\ walk' \in Walker /\ walk'.queue = Append(walk.queue, new) /\ walk'.opened = walk.opened
        /\ walk'.way = walk.way /\ walk'.root = walk.root /\ walk'.source = walk.source
    BY <1>1, <1>2, <2>7, <2>8 DEF Walker
  <2>10. step' \in CopySteps /\ step' # "file" /\ step' = "entry"
    BY <1>1, <1>5
  <2>11. Located'
    BY <1>1, <1>5, <2>9, <2>10, LocatedOn
  <2>12. /\ DOMAIN disk' = DOMAIN disk \cup {c} /\ disk' = [p \in DOMAIN disk' |-> disk'[p]]
         /\ \A p \in DOMAIN disk : disk'[p] = disk[p]
         /\ c \notin DOMAIN disk => disk'[c] = Directory
    BY <1>5 DEF Made
  <2>13. Copied'
    <3>1. Directory \in Object /\ Directory.kind = "dir" /\ Directory.size = 0
      BY DEF Directory, Object
    <3>2. disk'[c] \in Object /\ disk'[c].size <= (IF c \in DOMAIN disk THEN disk[c].size ELSE 0) + 0
      <4>1. CASE c \in DOMAIN disk
        <5>1. disk[c] \in Object /\ disk[c].size \in Nat
          BY <1>1, <4>1 DEF OnDisk, Object
        <5> QED
          BY <2>12, <4>1, <5>1
      <4>2. CASE c \notin DOMAIN disk
        BY <2>12, <3>1, <4>2
      <4> QED
        BY <4>1, <4>2
    <3>3. disk'[c].kind = "file" => Linked(c, disk'[c].content, held) /\ Head(disk'[c].content) = Last(walk.opened)
      <4>1. CASE c \in DOMAIN disk
        BY <2>12, <4>1 DEF Copying, Copied
      <4>2. CASE c \notin DOMAIN disk
        BY <2>12, <3>1, <4>2
      <4> QED
        BY <4>1, <4>2
    <3>4. \A p \in DOMAIN disk \ {c} : disk'[p] = disk[p]
      BY <2>12
    <3>5. /\ stats' \in [files : Nat, bytes : Nat] /\ Cardinality(DOMAIN disk) + 1 <= stats'.files
          /\ stats'.files <= MaxExtractedFiles /\ stats'.bytes = stats.bytes + 0 /\ stats'.bytes <= MaxExtractedSize
      BY <1>1, <1>3, <1>5
    <3> QED
      BY <1>1, <1>2, <2>9, <2>10, <2>12, <3>2, <3>3, <3>4, <3>5, CopiedMore
  <2>14. \A i \in 1 .. Len(walk'.queue) : Standpoint(walk.queue[i])'
    <3> TAKE i \in 1 .. Len(walk'.queue)
    <3>1. CASE i \in 1 .. Len(walk.queue)
      <4>1. Standpoint(walk.queue[i]) /\ walk'.queue[i] = walk.queue[i]
        BY <1>1, <2>7, <2>9, <3>1 DEF Copying, Underway
      <4> QED
        BY <2>9, <2>12, <4>1, StandpointKept DEF Standpoint
    <3>2. CASE i \notin 1 .. Len(walk.queue)
      <4>1. i = Len(walk.queue) + 1
        BY <2>6, <2>7, <2>9, <3>2
      <4>2. walk'.queue[i].node = nodes /\ walk'.queue[i].path = c
        BY <2>7, <2>9, <4>1 DEF new
      <4>3. c \in DOMAIN disk' \cup {<<>>} /\ Last(walk'.opened) = Last(walk.opened)
        BY <2>9, <2>12
      <4> QED
        BY <2>4, <4>2, <4>3 DEF Standpoint
    <3> QED
      BY <3>1, <3>2
  <2>15. Underway'
    <3>0. Append(walk.queue, new) # <<>>
      BY <2>5, <2>6, AppendProperties
    <3>1. walk'.queue # <<>>
      BY <2>9, <3>0, Zenon
    <3> QED
      BY <2>10, <2>14, <3>1 DEF Underway
  <2> QED
    BY <1>5, <2>11, <2>13, <2>15 DEF Copying
<1>6. CASE /\ CheckLimits(counted) = "none"
           /\ step' = "file" /\ stats' = counted
           /\ UNCHANGED <<job, at, table, disk, walk>>
  <2>1. step' \in CopySteps
    BY <1>6 DEF CopySteps
  <2>2. Located'
    BY <1>1, <1>6, <2>1, LocatedOn
  <2>3. Underway'
    <3>1. \A i \in 1 .. Len(walk'.queue) : Standpoint(walk.queue[i])'
      BY <1>1, <1>6, QueueKept
    <3>2. walk'.queue # <<>> /\ walk'.names # <<>>
      BY <1>1, <1>6 DEF Copying, Underway
    <3> QED
      BY <1>6, <3>1, <3>2 DEF Underway
  <2>4. Copied'
    <3>1. Cardinality(DOMAIN disk) + 1 <= counted.files
      BY <1>1, <1>3
    <3>2. OnDisk(disk) /\ Weight(disk) <= stats.bytes
      BY DEF Copying, Copied
    <3>3. \A p \in DOMAIN disk' : disk'[p].kind = "file" =>
            Linked(p, disk'[p].content, held') /\ Head(disk'[p].content) = Last(walk'.opened)
      BY <1>6 DEF Copying, Copied
    <3>4. /\ stats' \in [files : Nat, bytes : Nat] /\ stats'.files <= MaxExtractedFiles
          /\ stats'.bytes = stats.bytes /\ stats'.bytes <= MaxExtractedSize
      BY <1>1, <1>3, <1>6
    <3> QED
      BY <1>6, <2>1, <3>1, <3>2, <3>3, <3>4 DEF Copied
  <2> QED
    BY <1>6, <2>2, <2>3, <2>4 DEF Copying
<1> QED
  <2>1. \/ Abandon("policy")
        \/ CheckLimits(counted) # "none" /\ Abandon(CheckLimits(counted))
        \/ /\ CheckLimits(counted) = "none" /\ child # Absent
           /\ disk' = Made({c}) /\ stats' = counted
           /\ walk' = [walk EXCEPT
                !.names = Tail(walk.names),
                !.queue = Append(walk.queue, [node |-> Append(Source.node, child), path |-> c])]
           /\ UNCHANGED <<job, step, at, table>>
        \/ /\ CheckLimits(counted) = "none"
           /\ step' = "file" /\ stats' = counted
           /\ UNCHANGED <<job, at, table, disk, walk>>
    BY DEF CopyEntry, counted, c
  <2>2. "policy" \in Errors /\ (CheckLimits(counted) # "none" => CheckLimits(counted) \in Errors)
    BY DEF Errors, CheckLimits
  <2> QED
    BY <1>4, <1>5, <1>6, <2>1, <2>2

\* A file is opened in the directory it was listed in, and created empty.
LEMMA OpenFileStep ==
  ASSUME Standing, Copying, held' = held, OpenCopiedFile
  PROVE  Copying'
<1> DEFINE name == Head(walk.names)
           file == OpenFile(SourceNode, name)
           c == ChildPath
           nodes == Append(Source.node, file)
<1>1. /\ step = "file" /\ step \in CopySteps /\ walk.names # <<>> /\ walk \in Walker
      /\ OnDisk(disk) /\ stats \in [files : Nat, bytes : Nat]
      /\ stats.files <= MaxExtractedFiles /\ stats.bytes <= MaxExtractedSize
      /\ Cardinality(DOMAIN disk) + 1 <= stats.files
  <2>1. step = "file" /\ step \in CopySteps
    BY DEF OpenCopiedFile, CopySteps
  <2> QED
    BY <2>1 DEF Copying, Located, Underway, Copied
<1>2. /\ c \in Seq(STRING) /\ c # <<>> /\ Parents(c) \subseteq DOMAIN disk
      /\ Opening(c, Source.node, held)
      /\ Len(Source.node) = Len(c) /\ c[Len(Source.node)] = name
      /\ SourceNode \in Dirs /\ Head(Source.node) = Last(walk.opened)
  BY <1>1, ChildStands
<1>3. CASE \E error \in Errors : Abandon(error)
  BY <1>3, Abandoned DEF Abandon
<1>4. CASE /\ file # Absent /\ KindOf[file] = "file"
           /\ disk' = WithFile(c, 0, nodes)
           /\ walk' = [walk EXCEPT !.file = file]
           /\ step' = "read" /\ UNCHANGED <<job, at, table, stats>>
  <2>1. file \in Nodes /\ <<SourceNode, name, file>> \in held
    BY <1>2, <1>4, OpenedAt DEF OpenFile
  <2> HIDE DEF file, name, c
  <2>2. <<Last(Source.node), c[Len(Source.node)], file>> \in held /\ Len(Source.node) <= Len(c)
    BY <1>2, <2>1 DEF SourceNode
  <2>3. Linked(c, nodes, held) /\ Head(nodes) = Last(walk.opened)
    BY <1>2, <1>4, <2>1, <2>2, OpenedNext
  <2> HIDE DEF nodes
  <2>4. /\ walk' \in Walker /\ walk'.queue = walk.queue /\ walk'.opened = walk.opened
        /\ walk'.way = walk.way /\ walk'.root = walk.root /\ walk'.source = walk.source
        /\ walk'.names = walk.names /\ walk'.file = file
    BY <1>1, <1>4, <2>1 DEF Walker, Reached
  <2>5. step' \in CopySteps /\ step' # "file"
    BY <1>4 DEF CopySteps
  <2>6. Located'
    BY <1>1, <1>4, <2>4, <2>5, LocatedOn
  <2>7. DOMAIN disk' = DOMAIN disk \cup {c}
    BY <1>2, <1>4 DEF WithFile
  <2>8. /\ disk' = [p \in DOMAIN disk' |-> disk'[p]]
        /\ \A p \in DOMAIN disk \ {c} : disk'[p] = disk[p]
        /\ disk'[c] = [kind |-> "file", size |-> 0, content |-> nodes]
    BY <1>2, <1>4 DEF WithFile, Made
  <2>9. disk'[c] \in Object /\ disk'[c].size = 0 /\ disk'[c].content = nodes
    <3>1. nodes \in Seq(Nodes)
      BY <2>3 DEF Linked
    <3> QED
      BY <2>8, <3>1 DEF Object
  <2>10. disk'[c].size <= (IF c \in DOMAIN disk THEN disk[c].size ELSE 0) + 0
    <3>1. c \in DOMAIN disk => disk[c].size \in Nat
      BY <1>1 DEF OnDisk, Object
    <3> QED
      BY <2>9, <3>1
  <2>11. /\ stats' \in [files : Nat, bytes : Nat] /\ Cardinality(DOMAIN disk) + 1 <= stats'.files
         /\ stats'.files <= MaxExtractedFiles /\ stats'.bytes = stats.bytes + 0 /\ stats'.bytes <= MaxExtractedSize
    BY <1>1, <1>4
  <2>12. Copied'
    BY <1>1, <1>2, <1>4, <2>3, <2>4, <2>5, <2>7, <2>8, <2>9, <2>10, <2>11, CopiedMore
  <2>13. Underway'
    <3>1. \A i \in 1 .. Len(walk'.queue) : Standpoint(walk.queue[i])'
      BY <1>1, <1>4, <2>4, <2>7, QueueKept
    <3>2. walk'.queue # <<>> /\ walk'.names # <<>>
      BY <1>1, <2>4 DEF Copying, Underway
    <3>3. ChildPath' = c
      BY <2>4 DEF ChildPath, Source, c
    <3> QED
      BY <1>4, <2>1, <2>4, <2>7, <3>1, <3>2, <3>3 DEF Underway
  <2> QED
    BY <1>4, <2>6, <2>12, <2>13 DEF Copying
<1> QED
  BY <1>3, <1>4 DEF OpenCopiedFile, Errors

\* A file is read, as it is by then, and its bytes are counted before they are
\* written.
LEMMA CopyFileStep ==
  ASSUME Standing, Copying, held' = held, CopyFile
  PROVE  Copying'
<1> DEFINE c == ChildPath
<1>1. /\ step = "read" /\ step \in CopySteps /\ walk.names # <<>> /\ walk \in Walker
      /\ OnDisk(disk) /\ stats \in [files : Nat, bytes : Nat]
      /\ stats.files <= MaxExtractedFiles /\ stats.bytes <= MaxExtractedSize
      /\ c \in DOMAIN disk /\ walk.file \in Nodes /\ KindOf[walk.file] = "file"
      /\ walk.queue # <<>>
  <2>1. step = "read" /\ step \in CopySteps
    BY DEF CopyFile, CopySteps
  <2> QED
    BY <2>1 DEF Copying, Located, Underway, Copied
<1>2. /\ c \in Seq(STRING) /\ c # <<>> /\ Parents(c) \subseteq DOMAIN disk
      /\ Tail(walk.names) \in Seq(STRING)
  BY <1>1, ChildStands
<1>3. disk[c] \in Object /\ disk[c].size \in Nat /\ disk = [p \in DOMAIN disk |-> disk[p]]
  BY <1>1 DEF OnDisk, Object
<1>4. sizes[walk.file] \in Nat
  BY <1>1 DEF Standing
<1>5. CASE \E error \in Errors : Abandon(error)
  BY <1>5, Abandoned DEF Abandon
<1>6. CASE Proceed("entry", [walk EXCEPT !.names = Tail(@)])
  <2>1. step' = "entry" /\ walk' = [walk EXCEPT !.names = Tail(walk.names)] /\ UNCHANGED <<job, stats, disk>>
    BY <1>6 DEF Proceed
  <2>2. /\ walk' \in Walker /\ walk'.queue = walk.queue /\ walk'.opened = walk.opened
        /\ walk'.way = walk.way /\ walk'.root = walk.root /\ walk'.source = walk.source
    BY <1>1, <1>2, <2>1 DEF Walker
  <2>3. step' \in CopySteps /\ step' # "file"
    BY <2>1 DEF CopySteps
  <2>4. Located' /\ Copied'
    BY <1>1, <2>1, <2>2, <2>3, LocatedOn, CopiedKept
  <2>5. \A i \in 1 .. Len(walk'.queue) : Standpoint(walk.queue[i])'
    BY <1>1, <2>1, <2>2, QueueKept
  <2>6. Underway'
    BY <1>1, <2>1, <2>2, <2>5 DEF Underway
  <2> QED
    BY <2>1, <2>4, <2>6 DEF Copying
<1>7. CASE \E n \in 1 .. Unread :
             /\ n <= RemainingBytes
             /\ disk' = [disk EXCEPT ![c].size = @ + n]
             /\ stats' = CountBytes(stats, n)
             /\ UNCHANGED <<job, step, at, table, walk>>
  <2>1. PICK n \in 1 .. Unread :
             /\ n <= RemainingBytes
             /\ disk' = [disk EXCEPT ![c].size = @ + n]
             /\ stats' = CountBytes(stats, n)
             /\ UNCHANGED <<job, step, at, table, walk>>
    BY <1>7
  <2>2. n \in Nat
    BY <1>3, <1>4 DEF Unread
  <2> HIDE DEF c
  <2>3. step' \in CopySteps /\ step' # "file"
    BY <1>1, <2>1
  <2>4. /\ DOMAIN disk' = DOMAIN disk \cup {c} /\ disk' = [p \in DOMAIN disk' |-> disk'[p]]
        /\ \A p \in DOMAIN disk \ {c} : disk'[p] = disk[p]
        /\ disk'[c] = [disk[c] EXCEPT !.size = disk[c].size + n]
    BY <1>1, <1>3, <2>1
  <2>5. /\ disk'[c] \in Object /\ disk'[c].size = disk[c].size + n
        /\ disk'[c].kind = disk[c].kind /\ disk'[c].content = disk[c].content
    BY <1>3, <2>2, <2>4 DEF Object
  <2>6. disk'[c].kind = "file" => Linked(c, disk'[c].content, held) /\ Head(disk'[c].content) = Last(walk.opened)
    BY <1>1, <2>5 DEF Copying, Copied
  <2>7. disk'[c].size <= (IF c \in DOMAIN disk THEN disk[c].size ELSE 0) + n
    BY <1>1, <1>3, <2>2, <2>5
  <2>8. /\ stats' \in [files : Nat, bytes : Nat] /\ stats'.files = stats.files
        /\ stats'.files <= MaxExtractedFiles /\ stats'.bytes = stats.bytes + n /\ stats'.bytes <= MaxExtractedSize
    BY <1>1, <2>1, <2>2, MaterialiseConstants DEF CountBytes, RemainingBytes
  <2>9. Copied'
    BY <1>1, <1>2, <2>1, <2>2, <2>3, <2>4, <2>5, <2>6, <2>7, <2>8, CopiedMore
  <2>10. Located'
    BY <1>1, <2>1, <2>3, LocatedOn
  <2>11. Underway'
    <3>1. \A i \in 1 .. Len(walk'.queue) : Standpoint(walk.queue[i])'
      BY <1>1, <2>1, <2>4, QueueKept
    <3>2. ChildPath' = c
      BY <2>1 DEF ChildPath, Source, c
    <3> QED
      BY <1>1, <2>1, <2>4, <3>1, <3>2 DEF Underway
  <2> QED
    BY <2>1, <2>9, <2>10, <2>11 DEF Copying
<1> QED
  BY <1>5, <1>6, <1>7 DEF CopyFile, Errors

\* Every step of the copy keeps all this, and every step of others.
LEMMA CopyingStep == Standing /\ Copying /\ LocalNext /\ UNCHANGED treeVars => Copying'
<1> SUFFICES ASSUME Standing, Copying, LocalNext, UNCHANGED treeVars PROVE Copying'
  OBVIOUS
<1>1. held' = held
  BY DEF treeVars
<1>2. CASE CanonicalSource \/ CanonicalRoot \/ ResolveWay
  BY <1>1, <1>2, SourceStep
<1>3. CASE OpenSource
  BY <1>1, <1>3, OpenSourceStep
<1>4. CASE ListDirectory \/ DirectoryCopied
  BY <1>1, <1>4, ListStep
<1>5. CASE CopyEntry
  BY <1>1, <1>5, CopyEntryStep
<1>6. CASE OpenCopiedFile
  BY <1>1, <1>6, OpenFileStep
<1>7. CASE CopyFile
  BY <1>1, <1>7, CopyFileStep
<1>8. CASE SnapshotExpires
  BY <1>1, <1>8, Abandoned DEF SnapshotExpires, Abandon, Errors
<1> QED
  BY <1>2, <1>3, <1>4, <1>5, <1>6, <1>7, <1>8 DEF LocalNext

\* A copy starts at the top, with nothing.
LEMMA CopyingInit == Standing /\ LocalInit => Copying
<1> SUFFICES ASSUME Standing, LocalInit PROVE Copying
  OBVIOUS
<1>1. /\ job \in Requests /\ step = "source" /\ stats = NoStats /\ disk = Empty
      /\ walk = [source |-> <<>>, root |-> <<>>, way |-> <<>>, opened |-> <<Top>>,
                 queue |-> <<>>, names |-> <<>>, file |-> Absent]
  BY DEF LocalInit
<1>2. step \notin CopySteps /\ step \notin {"entry", "file", "read"}
  BY <1>1 DEF CopySteps
<1>3. <<Top>> \in Seq(Dirs) /\ Len(<<Top>>) = 1 /\ <<Top>> # <<>>
  BY TreeAssumption
<1>4. walk \in Walker
  BY <1>1, <1>3 DEF Walker, Reached
<1>5. Opening(<<>>, <<Top>>, held)
  BY <1>3 DEF Opening
<1>6. Located
  BY <1>1, <1>2, <1>4, <1>5 DEF Located
<1>7. Underway
  BY <1>2 DEF Underway
<1>8. Copied
  <2>1. DOMAIN Empty = {}
    BY DEF Empty
  <2>2. stats \in [files : Nat, bytes : Nat] /\ stats.files = 0 /\ stats.bytes = 0
    BY <1>1 DEF NoStats
  <2> QED
    BY <1>1, <2>1, <2>2, NothingCopied, MaterialiseConstants DEF Copied
<1> QED
  BY <1>1, <1>6, <1>7, <1>8 DEF Copying

\* And this is what a snapshot promises.
LEMMA CopyingConfined == Copying => SnapshotConfined
<1> SUFFICES ASSUME Copying PROVE SnapshotConfined
  OBVIOUS
<1>1. ASSUME step \in {"list", "entry", "file", "read", "done"}
      PROVE  Chain(walk.way, walk.opened) /\ (job.trusted \/ IsPrefix(walk.root, walk.source))
  <2>1. Opening(walk.way, walk.opened, held) /\ Len(walk.opened) = Len(walk.way) + 1
    BY <1>1 DEF Copying, Located, CopySteps
  <2>2. Chain(walk.way, walk.opened)
    BY <2>1, OpenedIsLinked, LinkedIsChain
  <2> QED
    BY <1>1, <2>2 DEF Copying, Located, CopySteps
<1>2. \A p \in DOMAIN disk : disk[p].kind = "file" =>
        Chain(p, disk[p].content) /\ Head(disk[p].content) = Last(walk.opened)
  BY LinkedIsChain DEF Copying, Copied
<1>3. Cardinality(DOMAIN disk) <= MaxExtractedFiles
  <2>1. Cardinality(DOMAIN disk) \in Nat
    BY FS_CardinalityType DEF Copying, Copied, OnDisk
  <2> QED
    BY <2>1, MaterialiseConstants DEF Copying, Copied
<1>4. BytesOnDisk <= MaxExtractedSize
  <2>1. BytesOnDisk = Weight(disk)
    BY DEF BytesOnDisk, Weight, SumFunction
  <2>2. Weight(disk) \in Nat
    <3>1. IsFiniteSet(DOMAIN disk) /\ \A p \in DOMAIN disk : disk[p].size \in Nat
      BY DEF Copying, Copied, OnDisk, Object
    <3> QED
      BY <3>1, SumNat DEF Weight
  <2> QED
    BY <2>1, <2>2, MaterialiseConstants DEF Copying, Copied
<1>5. step \in Errors => disk = Empty
  BY DEF Copying, Copied, Errors, CopySteps
<1> QED
  BY <1>1, <1>2, <1>3, <1>4, <1>5 DEF SnapshotConfined

-----------------------------------------------------------------------------
(* The reading of a manifest.                                                  *)

\* A path is put in order without looking at the tree.
LEMMA LexicalPath ==
  ASSUME NEW path \in Seq(STRING)
  PROVE  AbsoluteLexical(path) \in Seq(STRING)
<1> DEFINE n == Len(path)
           P == Seq(STRING)
           Runs(g) == g = [i \in 0 .. n |-> IF i = 0 THEN <<>> ELSE Stepping(g[i - 1], path[i])]
           f == [x \in (1 .. n) \X P |-> Stepping(x[2], path[x[1]])]
           h == CHOOSE g : Runs(g)
<1>1. n \in Nat /\ <<>> \in P
  OBVIOUS
<1>2. \A way \in P : \A name \in STRING : Stepping(way, name) \in P
  <2> TAKE way \in P, name \in STRING
  <2>1. Append(way, name) \in Seq(STRING)
    BY AppendProperties
  <2>2. way # <<>> => Front(way) \in Seq(STRING)
    BY DEF Front
  <2> QED
    BY <2>1, <2>2 DEF Stepping
<1>3. \A i \in 1 .. n : \A way \in P : f[<<i, way>>] = Stepping(way, path[i])
  OBVIOUS
<1>b. \A i \in 1 .. n : path[i] \in STRING
  OBVIOUS
<1>4. Steady(f, P, n)
  <2> HIDE DEF f, n, P
  <2> QED
    BY <1>2, <1>3, <1>b DEF Steady
<1>5. AbsoluteLexical(path) = h[n]
  BY Zenon DEF AbsoluteLexical
<1> HIDE DEF f, n, P
<1>6. PICK g : Looped(f, P, n, <<>>, g)
  BY <1>1, <1>4, IterationExists
<1>7. \A i \in 0 .. n : g[i] = IF i = 0 THEN <<>> ELSE Stepping(g[i - 1], path[i])
  <2> TAKE i \in 0 .. n
  <2>1. CASE i = 0
    BY <1>6, <2>1 DEF Looped
  <2>2. CASE i # 0
    <3>1. i \in 1 .. n /\ g[i - 1] \in P
      BY <1>1, <1>6, <2>2 DEF Looped
    <3> QED
      BY <1>3, <1>6, <2>2, <3>1 DEF Looped
  <2> QED
    BY <2>1, <2>2
<1>8. Runs(g)
  BY <1>6, <1>7 DEF Looped
<1>9. Runs(h)
  BY <1>8, Zenon
<1> HIDE DEF h
<1>10. h[0] = <<>> /\ \A i \in 1 .. n : h[i] = Stepping(h[i - 1], path[i])
  BY <1>1, <1>9
<1>11. h[0] \in P /\ \A i \in 1 .. n : h[i - 1] \in P => h[i] \in P
  BY <1>1, <1>2, <1>b, <1>10
<1>12. \A i \in 0 .. n : h[i] \in P
  BY <1>1, <1>11, IterationStays
<1> QED
  BY <1>1, <1>5, <1>12 DEF P

\* What lies under the path of a manifest is a node, or nothing.
LEMMA UnrootedNode ==
  ASSUME Standing, NEW path \in Seq(STRING)
  PROVE  NodeOf(path) \in Reached
<1> DEFINE dir == NodeAt(Canonicalize(Front(path)))
<1>1. Front(path) \in Seq(STRING)
  <2>1. Len(path) \in Nat
    OBVIOUS
  <2>2. CASE Len(path) = 0
    <3>1. path = <<>>
      BY <2>2
    <3>2. SubSeq(path, 1, Len(path) - 1) \in Seq(STRING)
      BY <2>2, <3>1
    <3> QED
      BY <3>2 DEF Front
  <2>3. CASE Len(path) # 0
    BY <2>1, <2>3 DEF Front
  <2> QED
    BY <2>2, <2>3
<1>2. Canonicalize(Front(path)) \in Seq(STRING) /\ Top \in Reached
  BY <1>1, Canonical, TreeAssumption DEF Reached, Dirs
<1>3. dir \in Reached
  BY <1>2, NodesBelow DEF NodeAt
<1> HIDE DEF dir
<1>4. dir \in Dirs => Lookup(dir, Last(path)) \in Reached
  BY LookedUp DEF Reached
<1> QED
  BY <1>3, <1>4 DEF NodeOf, dir, Dirs, Reached

RootEntry == [path : Seq(STRING), nodes : Seq(Dirs), way : Seq(STRING)]

Reader ==
  [roots : Seq(RootEntry), way : Seq(STRING), opened : Seq(Nodes), root : Seq(STRING), file : Reached, read : Nat]

\* Each root was opened along its way from the top.
Activated(r) == Opening(r.way, r.nodes, held) /\ Len(r.nodes) = Len(r.way) + 1

\* The walk stands beneath the deepest root that its path lies in.
Rooted ==
  /\ walk.root \o walk.way = Path
  /\ \E r \in Range(walk.roots) :
       /\ r.path = walk.root /\ Last(r.nodes) = Head(walk.opened)
       /\ \A other \in Range(walk.roots) : IsPrefix(other.path, Path) => Len(other.path) <= Len(r.path)

Going == {"roots", "root", "beneath", "unlinked", "opened", "read", "done"}

\* What is read beneath roots was opened along its way from the deepest of them,
\* and is a file whose size is within the limit when it has been read whole.
Reading ==
  /\ job \in Reads /\ walk \in Reader
  /\ step \in Going \cup Errors /\ at \in Nat /\ (step = "root" => at < Len(job.roots))
  /\ \A r \in Range(walk.roots) : Activated(r)
  /\ step = "root" => Opening(walk.way, walk.opened, held)
  /\ step = "beneath" =>
       /\ Opening(walk.way, walk.opened, held) /\ Len(walk.opened) <= Len(walk.way)
       /\ walk.roots # <<>> /\ Rooted
  /\ step = "unlinked" => walk.roots = <<>>
  /\ step \in {"opened", "read", "done"} =>
       /\ walk.file \in Nodes
       /\ walk.roots # <<>> => Rooted /\ Linked(walk.way, walk.opened, held) /\ walk.file = Last(walk.opened)
  /\ step \in {"read", "done"} => KindOf[walk.file] = "file"
  /\ step = "done" => walk.read <= MaxManifestFileSize
  /\ step = "done" /\ changed = 0 => walk.read = sizes[walk.file]

\* And this is what a read promises.
LEMMA ReadingConfined == Reading => ReadConfined
<1> SUFFICES ASSUME Reading PROVE ReadConfined
  OBVIOUS
<1>1. \A i \in DOMAIN walk.roots : Chain(walk.roots[i].way, walk.roots[i].nodes)
  <2> TAKE i \in DOMAIN walk.roots
  <2>1. walk.roots[i] \in Range(walk.roots)
    BY DEF Range
  <2>2. Activated(walk.roots[i])
    BY <2>1 DEF Reading
  <2> QED
    BY <2>2, OpenedIsLinked, LinkedIsChain DEF Activated
<1>2. ASSUME step \in {"read", "done"}
      PROVE  /\ KindOf[walk.file] = "file"
             /\ walk.roots # <<>> =>
                  Rooted /\ Chain(walk.way, walk.opened) /\ walk.file = Last(walk.opened)
  BY <1>2, LinkedIsChain DEF Reading
<1> QED
  BY <1>1, <1>2 DEF ReadConfined, Reading, Rooted

\* A read that fails promises nothing more.
LEMMA ReadFailed ==
  ASSUME Reading, step' \in Errors, UNCHANGED <<job, walk>>, at' = at, held \subseteq held'
  PROVE  Reading'
<1>1. step' \notin Going
  BY DEF Errors, Going
<1>2. step' \notin {"root", "beneath", "unlinked", "opened", "read", "done"}
  BY <1>1 DEF Going
<1>3. \A r \in Range(walk.roots) : Activated(r)'
  BY StillOpened DEF Reading, Activated
<1>4. walk' \in Reader /\ job' \in Reads /\ step' \in Going \cup Errors /\ at' \in Nat
  BY DEF Reading, Reader
<1>5. \A r \in Range(walk'.roots) : Activated(r)'
  BY <1>3
<1> QED
  BY <1>2, <1>4, <1>5 DEF Reading

\* What others do does not change where the walk stands.
LEMMA ReadingAside ==
  ASSUME Standing, Reading, OthersChange, step # "done", UNCHANGED <<materialiseVars, walk>>
  PROVE  Reading'
<1>1. held \subseteq held' /\ UNCHANGED <<job, step, at, walk>>
  BY StandingStep DEF materialiseVars
<1>2. \A r \in Range(walk.roots) : Activated(r)'
  BY <1>1, StillOpened DEF Reading, Activated
<1>3. /\ Opening(walk.way, walk.opened, held) => Opening(walk.way, walk.opened, held')
      /\ Linked(walk.way, walk.opened, held) => Linked(walk.way, walk.opened, held')
  BY <1>1, StillOpened
<1>4. Rooted' <=> Rooted
  BY <1>1 DEF Rooted, Path
<1> QED
  BY <1>1, <1>2, <1>3, <1>4 DEF Reading, Reader

\* Of the roots a path lies in, one is the authority, and none is deeper.
LEMMA DeepestRoot ==
  ASSUME Reading, Authorities # {}
  PROVE  /\ Authority \in Authorities
         /\ \A j \in Authorities : Len(walk.roots[j].path) <= Len(walk.roots[Authority].path)
<1> DEFINE f == [i \in Authorities |-> Len(walk.roots[i].path)]
           Best(i) == \A j \in Authorities :
                        \/ Len(walk.roots[j].path) < Len(walk.roots[i].path)
                        \/ Len(walk.roots[j].path) = Len(walk.roots[i].path) /\ j <= i
<1>1. walk.roots \in Seq(RootEntry) /\ Len(walk.roots) \in Nat /\ Authorities \subseteq 1 .. Len(walk.roots)
  BY DEF Reading, Reader, Authorities
<1>2. IsFiniteSet(Authorities)
  <2>1. IsFiniteSet(1 .. Len(walk.roots))
    BY <1>1, FS_Interval
  <2> QED
    BY <1>1, <2>1, FS_Subset
<1>3. \A i \in Authorities : f[i] = Len(walk.roots[i].path) /\ f[i] \in Nat
  BY <1>1 DEF RootEntry
<1> HIDE DEF f
<1>4. PICK x \in Authorities : \A y \in Authorities : f[y] <= f[x]
  BY <1>2, <1>3, Largest
<1> DEFINE T == {i \in Authorities : f[i] = f[x]}
           g == [i \in T |-> i]
<1>5. IsFiniteSet(T) /\ T # {}
  <2>1. T \subseteq Authorities /\ x \in T
    BY <1>4
  <2> HIDE DEF T
  <2> QED
    BY <1>2, <2>1, FS_Subset
<1>6. \A i \in T : g[i] = i /\ g[i] \in Nat /\ i \in Authorities /\ f[i] = f[x]
  BY <1>1
<1>7. \A i \in Authorities : f[i] = f[x] => i \in T
  OBVIOUS
<1> HIDE DEF T, g
<1>8. PICK i \in T : \A j \in T : g[j] <= g[i]
  BY <1>5, <1>6, Largest
<1>9. ASSUME NEW j \in Authorities
      PROVE  f[j] < f[i] \/ (f[j] = f[i] /\ j <= i)
  <2>1. f[j] <= f[x] /\ f[i] = f[x] /\ f[j] \in Nat /\ f[x] \in Nat
    BY <1>3, <1>4, <1>6, <1>8
  <2>2. CASE f[j] = f[x]
    BY <1>6, <1>7, <1>8, <2>1, <2>2
  <2>3. CASE f[j] # f[x]
    BY <2>1, <2>3
  <2> QED
    BY <2>2, <2>3
<1>10. i \in Authorities /\ Best(i)
  BY <1>3, <1>6, <1>9
<1>11. Authority = CHOOSE k \in Authorities : Best(k)
  BY DEF Authority
<1> HIDE DEF Best
<1>12. Authority \in Authorities /\ Best(Authority)
  BY <1>10, <1>11
<1>13. \A j \in Authorities : Len(walk.roots[j].path) <= Len(walk.roots[Authority].path)
  <2> TAKE j \in Authorities
  <2>1. Len(walk.roots[j].path) \in Nat /\ Len(walk.roots[Authority].path) \in Nat
    BY <1>3, <1>12
  <2> QED
    BY <1>12, <2>1 DEF Best
<1> QED
  BY <1>12, <1>13

\* What is left of a path beneath one it starts with.
LEMMA RestOfPath ==
  ASSUME NEW a \in Seq(STRING), NEW b \in Seq(STRING), IsPrefix(a, b), a # b
  PROVE  LET rest == SubSeq(b, Len(a) + 1, Len(b))
         IN  rest \in Seq(STRING) /\ Len(rest) >= 1 /\ a \o rest = b
<1> DEFINE rest == SubSeq(b, Len(a) + 1, Len(b))
<1>1. Len(a) \in Nat /\ Len(b) \in Nat /\ Len(a) <= Len(b) /\ \A i \in 1 .. Len(a) : a[i] = b[i]
  BY PrefixIs
<1>2. Len(a) # Len(b)
  BY <1>1
<1>3. rest \in Seq(STRING) /\ Len(rest) = Len(b) - Len(a) /\ \A i \in 1 .. Len(rest) : rest[i] = b[Len(a) + i]
  BY <1>1, <1>2
<1> HIDE DEF rest
<1>4. /\ a \o rest \in Seq(STRING) /\ Len(a \o rest) = Len(b)
      /\ \A i \in 1 .. Len(b) : (a \o rest)[i] = IF i <= Len(a) THEN a[i] ELSE rest[i - Len(a)]
  <2>1. Len(a) + Len(rest) = Len(b)
    BY <1>1, <1>3
  <2>2. a \o rest \in Seq(STRING) /\ Len(a \o rest) = Len(a) + Len(rest)
    BY <1>3, ConcatProperties
  <2>3. \A i \in 1 .. Len(a) + Len(rest) : (a \o rest)[i] = IF i <= Len(a) THEN a[i] ELSE rest[i - Len(a)]
    BY <1>3, ConcatProperties
  <2> QED
    BY <2>1, <2>2, <2>3
<1>5. \A i \in 1 .. Len(b) : (a \o rest)[i] = b[i]
  <2> TAKE i \in 1 .. Len(b)
  <2>1. CASE i <= Len(a)
    BY <1>1, <1>4, <2>1
  <2>2. CASE ~(i <= Len(a))
    <3>1. i - Len(a) \in 1 .. Len(rest) /\ Len(a) + (i - Len(a)) = i
      BY <1>1, <1>3, <2>2
    <3> QED
      BY <1>3, <1>4, <2>2, <3>1
  <2> QED
    BY <2>1, <2>2
<1>6. a \o rest = b
  BY <1>4, <1>5, SeqEqual
<1> QED
  BY <1>1, <1>2, <1>3, <1>6 DEF rest

-----------------------------------------------------------------------------
(* The steps of a read.                                                        *)

\* While roots stay, they stay activated.
LEMMA RootsKept ==
  ASSUME Reading, held' = held, walk'.roots = walk.roots
  PROVE  \A r \in Range(walk'.roots) : Activated(r)'
BY DEF Reading, Activated

\* Roots are resolved and opened before anything is read.
LEMMA RootsStep ==
  ASSUME Standing, Reading, UNCHANGED treeVars, ResolveRoot \/ OpenRoot \/ ActivateRoot
  PROVE  Reading'
<1>1. /\ held' = held /\ walk \in Reader /\ job \in Reads /\ at \in Nat /\ step \notin Errors
      /\ job.path \in Seq(STRING) /\ job.roots \in Seq(Seq(STRING)) /\ at < Len(job.roots)
  BY ReadsAssumption DEF treeVars, Reading, ResolveRoot, OpenRoot, ActivateRoot, Errors
<1> DEFINE path == AbsoluteLexical(job.roots[at + 1])
<1>2. path \in Seq(STRING)
  <2>1. job.roots[at + 1] \in Seq(STRING)
    BY <1>1
  <2> QED
    BY <2>1, LexicalPath
<1> HIDE DEF path
<1>3. ASSUME ReadFails("io") PROVE Reading'
  BY <1>1, <1>3, ReadFailed DEF ReadFails, Fails, Errors
<1>4. CASE ResolveRoot
  <2> DEFINE way == ResolveRootSymlink(path)
  <2>1. way \in Seq(STRING)
    BY <1>2, RootResolved
  <2> HIDE DEF way
  <2>2. CASE Continue("root", [walk EXCEPT !.way = way, !.opened = <<Top>>])
    <3>1. /\ step' = "root" /\ walk' = [walk EXCEPT !.way = way, !.opened = <<Top>>]
          /\ job' = job /\ at' = at
      BY <2>2 DEF Continue
    <3>2. <<Top>> \in Seq(Dirs) /\ <<Top>> \in Seq(Nodes) /\ Len(<<Top>>) = 1 /\ <<Top>> # <<>>
      BY TreeAssumption DEF Dirs
    <3>3. walk' \in Reader /\ walk'.roots = walk.roots /\ walk'.way = way /\ walk'.opened = <<Top>>
      BY <1>1, <2>1, <3>1, <3>2 DEF Reader
    <3>4. Opening(way, <<Top>>, held)
      BY <2>1, <3>2 DEF Opening
    <3>5. \A r \in Range(walk'.roots) : Activated(r)'
      BY <1>1, <3>3, RootsKept
    <3> QED
      BY <1>1, <3>1, <3>3, <3>4, <3>5 DEF Reading, Going
  <2> QED
    BY <1>3, <1>4, <2>2 DEF ResolveRoot, path, way
<1>5. CASE OpenRoot
  <2> DEFINE next == NextDirectory
  <2>1. CASE next # Absent /\ Continue("root", [walk EXCEPT !.opened = Append(@, next)])
    <3>1. Opening(walk.way, walk.opened, held) /\ ~Arrived
      BY <1>5 DEF Reading, OpenRoot
    <3>2. Last(walk.opened) \in Dirs /\ Len(walk.opened) <= Len(walk.way)
      BY <3>1 DEF Opening, Last, Arrived
    <3>3. next \in Nodes /\ next \in Dirs /\ <<Last(walk.opened), walk.way[Len(walk.opened)], next>> \in held
      BY <2>1, <3>2, OpenedAt DEF NextDirectory, OpenDirectory, NextName, Dirs
    <3> HIDE DEF next
    <3>4. Opening(walk.way, Append(walk.opened, next), held)
      BY <3>1, <3>2, <3>3, OpenedNext
    <3>5. /\ step' = "root" /\ walk' = [walk EXCEPT !.opened = Append(walk.opened, next)]
          /\ job' = job /\ at' = at
      BY <2>1 DEF Continue
    <3>6. /\ walk' \in Reader /\ walk'.roots = walk.roots /\ walk'.way = walk.way
          /\ walk'.opened = Append(walk.opened, next)
      <4>1. Append(walk.opened, next) \in Seq(Nodes)
        BY <3>4, SeqMonotonic DEF Opening, Dirs
      <4> QED
        BY <1>1, <3>5, <4>1 DEF Reader
    <3>7. \A r \in Range(walk'.roots) : Activated(r)'
      BY <1>1, <3>6, RootsKept
    <3> QED
      BY <1>1, <3>4, <3>5, <3>6, <3>7 DEF Reading, Going
  <2> QED
    BY <1>3, <1>5, <2>1 DEF OpenRoot
<1>6. CASE ActivateRoot
  <2> DEFINE new == [path |-> path, nodes |-> walk.opened, way |-> walk.way]
             roots == Append(walk.roots, new)
  <2>1. /\ step = "root" /\ Opening(walk.way, walk.opened, held) /\ Len(walk.opened) = Len(walk.way) + 1
        /\ walk' = [walk EXCEPT !.roots = roots]
        /\ step' = "roots" /\ at' = at + 1 /\ job' = job
    BY <1>6 DEF Reading, ActivateRoot, Arrived, path
  <2>2. new \in RootEntry
    BY <1>2, <2>1 DEF RootEntry, Opening
  <2>3. /\ new.nodes = walk.opened /\ new.way = walk.way
    OBVIOUS
  <2>4. walk.roots \in Seq(RootEntry)
    BY <1>1 DEF Reader
  <2> HIDE DEF new
  <2>5. /\ roots \in Seq(RootEntry) /\ Len(roots) = Len(walk.roots) + 1
        /\ \A i \in 1 .. Len(walk.roots) : roots[i] = walk.roots[i]
        /\ roots[Len(walk.roots) + 1] = new
    BY <2>2, <2>4, AppendProperties
  <2> HIDE DEF roots
  <2>6. walk' \in Reader /\ walk'.roots = roots
    BY <1>1, <2>1, <2>5 DEF Reader
  <2>7. \A r \in Range(roots) : r \in Range(walk.roots) \/ r = new
    <3> TAKE r \in Range(roots)
    <3>1. PICK i \in 1 .. Len(roots) : r = roots[i]
      BY <2>5 DEF Range
    <3>2. CASE i \in 1 .. Len(walk.roots)
      BY <2>4, <2>5, <3>1, <3>2 DEF Range
    <3>3. CASE i \notin 1 .. Len(walk.roots)
      <4>1. i = Len(walk.roots) + 1
        BY <2>4, <2>5, <3>1, <3>3
      <4> QED
        BY <2>5, <3>1, <4>1
    <3> QED
      BY <3>2, <3>3
  <2>8. \A r \in Range(roots) : Activated(r)
    BY <2>1, <2>3, <2>7 DEF Reading, Activated
  <2>9. \A r \in Range(walk'.roots) : Activated(r)'
    BY <1>1, <2>6, <2>8 DEF Activated
  <2> QED
    BY <1>1, <2>1, <2>6, <2>9 DEF Reading, Going
<1> QED
  BY <1>4, <1>5, <1>6

\* A path is read beneath the deepest root that contains it.
LEMMA RootedPathStep ==
  ASSUME Standing, Reading, UNCHANGED treeVars, RootedPath
  PROVE  Reading'
<1>1. /\ held' = held /\ walk \in Reader /\ job \in Reads /\ at \in Nat
      /\ job.path \in Seq(STRING) /\ walk.roots # <<>>
  BY ReadsAssumption DEF treeVars, Reading, RootedPath
<1>2. Path \in Seq(STRING)
  BY <1>1, LexicalPath DEF Path
<1>3. ASSUME ReadFails("manifest") PROVE Reading'
  BY <1>1, <1>3, ReadFailed DEF ReadFails, Fails, Errors
<1> DEFINE root == walk.roots[Authority]
           way == SubSeq(Path, Len(root.path) + 1, Len(Path))
           top == <<Last(root.nodes)>>
<1>4. CASE /\ Authorities # {} /\ root.path # Path
           /\ Continue("beneath", [walk EXCEPT !.root = root.path, !.way = way, !.opened = top])
  <2>1. /\ Authority \in Authorities
        /\ \A j \in Authorities : Len(walk.roots[j].path) <= Len(root.path)
    BY <1>4, DeepestRoot
  <2>2. Authority \in DOMAIN walk.roots /\ IsPrefix(root.path, Path)
    BY <2>1 DEF Authorities
  <2>3. walk.roots \in Seq(RootEntry)
    BY <1>1 DEF Reader
  <2>4. root \in RootEntry /\ root \in Range(walk.roots)
    BY <2>2, <2>3 DEF Range
  <2>5. root.path \in Seq(STRING) /\ Activated(root)
    BY <2>4 DEF Reading, RootEntry
  <2>6. way \in Seq(STRING) /\ Len(way) >= 1 /\ root.path \o way = Path
    BY <1>2, <1>4, <2>2, <2>5, RestOfPath
  <2>7. Last(root.nodes) \in Dirs
    BY <2>5 DEF Activated, Opening, Last
  <2>8. top \in Seq(Dirs) /\ top \in Seq(Nodes) /\ Len(top) = 1 /\ top # <<>> /\ Head(top) = Last(root.nodes)
    BY <2>7 DEF Dirs
  <2>9. Opening(way, top, held) /\ Len(top) <= Len(way)
    <3>1. Len(way) \in Nat
      BY <2>6
    <3> HIDE DEF way, top
    <3> QED
      BY <2>6, <2>8, <3>1 DEF Opening
  <2>10. \A other \in Range(walk.roots) : IsPrefix(other.path, Path) => Len(other.path) <= Len(root.path)
    <3> TAKE other \in Range(walk.roots)
    <3>1. PICK j \in DOMAIN walk.roots : other = walk.roots[j]
      BY DEF Range
    <3> QED
      BY <2>1, <3>1 DEF Authorities
  <2> HIDE DEF root, way, top
  <2>11. /\ walk' = [walk EXCEPT !.root = root.path, !.way = way, !.opened = top]
         /\ step' = "beneath" /\ job' = job /\ at' = at
    BY <1>4 DEF Continue
  <2>12. /\ walk' \in Reader /\ walk'.roots = walk.roots /\ walk'.root = root.path
         /\ walk'.way = way /\ walk'.opened = top
    BY <1>1, <2>5, <2>6, <2>8, <2>11 DEF Reader
  <2>13. Rooted'
    <3>1. Path' = Path
      BY <2>11 DEF Path
    <3>2. walk'.root \o walk'.way = Path /\ Last(root.nodes) = Head(walk'.opened)
      BY <2>6, <2>8, <2>12
    <3> QED
      BY <2>4, <2>10, <2>12, <3>1, <3>2 DEF Rooted
  <2>14. \A r \in Range(walk'.roots) : Activated(r)'
    BY <1>1, <2>12, RootsKept
  <2> QED
    BY <1>1, <2>9, <2>11, <2>12, <2>13, <2>14 DEF Reading, Going
<1> QED
  BY <1>3, <1>4 DEF RootedPath

\* The root that was found stays the authority, as long as the walk begins at it.
LEMMA RootedKept ==
  ASSUME Rooted, job' = job, walk'.roots = walk.roots, walk'.root = walk.root, walk'.way = walk.way,
         Head(walk'.opened) = Head(walk.opened)
  PROVE  Rooted'
<1>1. Path' = Path
  BY DEF Path
<1> QED
  BY <1>1 DEF Rooted

\* Beneath a root, each directory and then the manifest are opened by name.
LEMMA BeneathStep ==
  ASSUME Standing, Reading, UNCHANGED treeVars, OpenBeneath \/ OpenManifest
  PROVE  Reading'
<1> DEFINE dir == Last(walk.opened)
<1>1. /\ held' = held /\ walk \in Reader /\ job \in Reads /\ at \in Nat /\ step = "beneath"
      /\ Opening(walk.way, walk.opened, held) /\ Len(walk.opened) <= Len(walk.way)
      /\ walk.roots # <<>> /\ Rooted
  BY DEF treeVars, Reading, OpenBeneath, OpenManifest
<1>2. /\ dir \in Dirs /\ walk.opened \in Seq(Dirs) /\ walk.opened \in Seq(Nodes)
      /\ Len(walk.opened) \in Nat /\ Len(walk.way) \in Nat
  BY <1>1 DEF Opening, Last, Dirs, Reader
<1>3. ASSUME ReadFails("io") PROVE Reading'
  BY <1>1, <1>3, ReadFailed DEF ReadFails, Fails, Errors
<1>4. CASE OpenBeneath
  <2> DEFINE next == NextDirectory
  <2>1. CASE next # Absent /\ Continue("beneath", [walk EXCEPT !.opened = Append(@, next)])
    <3>1. next \in Nodes /\ next \in Dirs /\ <<dir, walk.way[Len(walk.opened)], next>> \in held
      BY <1>2, <2>1, OpenedAt DEF NextDirectory, OpenDirectory, NextName, Dirs
    <3> HIDE DEF next
    <3>2. /\ Opening(walk.way, Append(walk.opened, next), held)
          /\ Len(Append(walk.opened, next)) = Len(walk.opened) + 1
          /\ Head(Append(walk.opened, next)) = Head(walk.opened)
      BY <1>1, <3>1, OpenedNext
    <3>3. Append(walk.opened, next) \in Seq(Nodes)
      BY <1>2, <3>1, AppendProperties
    <3>4. /\ step' = "beneath" /\ walk' = [walk EXCEPT !.opened = Append(walk.opened, next)]
          /\ job' = job /\ at' = at
      BY <2>1 DEF Continue
    <3>5. /\ walk' \in Reader /\ walk'.roots = walk.roots /\ walk'.way = walk.way /\ walk'.root = walk.root
          /\ walk'.opened = Append(walk.opened, next)
      BY <1>1, <3>3, <3>4 DEF Reader
    <3>6. Len(walk'.opened) <= Len(walk'.way)
      <4>1. Len(walk.opened) < Len(walk.way)
        BY <1>4 DEF OpenBeneath
      <4> QED
        BY <1>2, <3>2, <3>5, <4>1
    <3>7. Rooted'
      BY <1>1, <3>2, <3>4, <3>5, RootedKept
    <3>8. \A r \in Range(walk'.roots) : Activated(r)'
      BY <1>1, <3>5, RootsKept
    <3> QED
      BY <1>1, <3>2, <3>4, <3>5, <3>6, <3>7, <3>8 DEF Reading, Going
  <2> QED
    BY <1>3, <1>4, <2>1 DEF OpenBeneath
<1>5. CASE OpenManifest
  <2> DEFINE file == OpenFile(dir, NextName)
  <2>1. CASE file # Absent /\ Continue("opened", [walk EXCEPT !.opened = Append(@, file), !.file = file])
    <3>1. /\ file \in Nodes /\ KindOf[file] # "link"
          /\ <<dir, walk.way[Len(walk.opened)], file>> \in held /\ Len(walk.opened) = Len(walk.way)
      BY <1>2, <1>5, <2>1, OpenedAt DEF OpenFile, NextName, OpenManifest
    <3> HIDE DEF file
    <3>2. /\ Linked(walk.way, Append(walk.opened, file), held)
          /\ Head(Append(walk.opened, file)) = Head(walk.opened)
          /\ Last(Append(walk.opened, file)) = file
      BY <1>1, <3>1, OpenedNext
    <3>3. Append(walk.opened, file) \in Seq(Nodes)
      BY <1>2, <3>1, AppendProperties
    <3>4. /\ step' = "opened" /\ walk' = [walk EXCEPT !.opened = Append(walk.opened, file), !.file = file]
          /\ job' = job /\ at' = at
      BY <2>1 DEF Continue
    <3>5. /\ walk' \in Reader /\ walk'.roots = walk.roots /\ walk'.way = walk.way /\ walk'.root = walk.root
          /\ walk'.opened = Append(walk.opened, file) /\ walk'.file = file
      BY <1>1, <3>1, <3>3, <3>4 DEF Reader, Reached
    <3>6. Rooted'
      BY <1>1, <3>2, <3>4, <3>5, RootedKept
    <3>7. \A r \in Range(walk'.roots) : Activated(r)'
      BY <1>1, <3>5, RootsKept
    <3> QED
      BY <1>1, <3>1, <3>2, <3>4, <3>5, <3>6, <3>7 DEF Reading, Going
  <2> QED
    BY <1>3, <1>5, <2>1 DEF OpenManifest
<1> QED
  BY <1>4, <1>5

\* A manifest outside of all roots is refused as a link, or opened where it is.
LEMMA UnrootedStep ==
  ASSUME Standing, Reading, UNCHANGED treeVars, RejectSymlink \/ OpenUnrooted
  PROVE  Reading'
<1>1. /\ held' = held /\ walk \in Reader /\ job \in Reads /\ at \in Nat
      /\ job.path \in Seq(STRING) /\ walk.roots = <<>>
  BY ReadsAssumption DEF treeVars, Reading, RejectSymlink, OpenUnrooted
<1>2. NodeOf(job.path) \in Nodes \cup {Absent}
  BY <1>1, UnrootedNode DEF Reached
<1>3. ASSUME ReadFails("io") \/ ReadFails("manifest") PROVE Reading'
  BY <1>1, <1>3, ReadFailed DEF ReadFails, Fails, Errors
<1>4. CASE Continue("unlinked", walk)
  <2>1. step' = "unlinked" /\ walk' = walk /\ job' = job /\ at' = at
    BY <1>4 DEF Continue
  <2>2. \A r \in Range(walk'.roots) : Activated(r)'
    BY <1>1, <2>1, RootsKept
  <2> QED
    BY <1>1, <2>1, <2>2 DEF Reading, Reader, Going
<1>5. CASE NodeOf(job.path) # Absent /\ Continue("opened", [walk EXCEPT !.file = NodeOf(job.path)])
  <2> DEFINE file == NodeOf(job.path)
  <2>1. file \in Nodes
    BY <1>2, <1>5
  <2> HIDE DEF file
  <2>2. step' = "opened" /\ walk' = [walk EXCEPT !.file = file] /\ job' = job /\ at' = at
    BY <1>5 DEF Continue, file
  <2>3. walk' \in Reader /\ walk'.roots = walk.roots /\ walk'.file = file
    BY <1>1, <2>1, <2>2 DEF Reader, Reached
  <2>4. \A r \in Range(walk'.roots) : Activated(r)'
    BY <1>1, <2>3, RootsKept
  <2> QED
    BY <1>1, <2>1, <2>2, <2>3, <2>4 DEF Reading, Going
<1> QED
  BY <1>3, <1>4, <1>5 DEF RejectSymlink, OpenUnrooted

\* A manifest is inspected and read up to its limit.
LEMMA TextStep ==
  ASSUME Standing, Reading, UNCHANGED treeVars, InspectManifest \/ ReadManifest \/ EndOfManifest
  PROVE  Reading'
<1>1. /\ held' = held /\ changed' = changed /\ sizes' = sizes
      /\ walk \in Reader /\ job \in Reads /\ at \in Nat /\ step \in {"opened", "read"}
      /\ walk.file \in Nodes /\ (step = "read" => KindOf[walk.file] = "file")
      /\ walk.roots # <<>> => Rooted /\ Linked(walk.way, walk.opened, held) /\ walk.file = Last(walk.opened)
  BY DEF treeVars, Reading, InspectManifest, ReadManifest, EndOfManifest
<1>2. ASSUME ReadFails("manifest") PROVE Reading'
  BY <1>1, <1>2, ReadFailed DEF ReadFails, Fails, Errors
<1>3. ASSUME step' \in {"read", "done"}, job' = job, at' = at, KindOf[walk.file] = "file",
             NEW n \in Nat, walk' = [walk EXCEPT !.read = n],
             step' = "done" => n <= MaxManifestFileSize /\ n = sizes[walk.file]
      PROVE  Reading'
  <2>1. /\ walk' \in Reader /\ walk'.roots = walk.roots /\ walk'.way = walk.way /\ walk'.root = walk.root
        /\ walk'.opened = walk.opened /\ walk'.file = walk.file /\ walk'.read = n
    BY <1>1, <1>3 DEF Reader
  <2>2. Rooted => Rooted'
    BY <1>3, <2>1, RootedKept
  <2>3. \A r \in Range(walk'.roots) : Activated(r)'
    BY <1>1, <2>1, RootsKept
  <2> QED
    BY <1>1, <1>3, <2>1, <2>2, <2>3 DEF Reading, Going
<1>4. walk.read \in Nat /\ walk = [walk EXCEPT !.read = walk.read]
  BY <1>1 DEF Reader
<1>5. CASE InspectManifest
  BY <1>2, <1>3, <1>4, <1>5 DEF InspectManifest, Continue
<1>6. CASE ReadManifest
  <2>1. PICK n \in walk.read + 1 .. sizes[walk.file] : Continue("read", [walk EXCEPT !.read = n])
    BY <1>6 DEF ReadManifest
  <2>2. sizes[walk.file] \in Nat
    BY <1>1, <1>6 DEF Standing, ReadManifest
  <2>3. n \in Nat
    BY <1>4, <2>2
  <2> QED
    BY <1>1, <1>3, <1>6, <2>1, <2>3 DEF ReadManifest, Continue
<1>7. CASE EndOfManifest
  <2>1. CASE ~(walk.read > MaxManifestFileSize) /\ Continue("done", walk)
    <3>1. walk.read = sizes[walk.file] /\ walk.read <= MaxManifestFileSize
      BY <1>4, <1>7, <2>1, ReadsAssumption DEF EndOfManifest
    <3>2. step' = "done" /\ walk' = walk /\ job' = job /\ at' = at /\ step = "read"
      BY <1>7, <2>1 DEF EndOfManifest, Continue
    <3> QED
      BY <1>1, <1>3, <1>4, <3>1, <3>2
  <2> QED
    BY <1>2, <1>7, <2>1 DEF EndOfManifest
<1> QED
  BY <1>5, <1>6, <1>7

\* Every step of a read keeps all this.
LEMMA ReadingStep == Standing /\ Reading /\ ReadNext /\ UNCHANGED treeVars => Reading'
<1> SUFFICES ASSUME Standing, Reading, ReadNext, UNCHANGED treeVars PROVE Reading'
  OBVIOUS
<1>1. CASE ResolveRoot \/ OpenRoot \/ ActivateRoot
  BY <1>1, RootsStep
<1>2. CASE RootedPath
  BY <1>2, RootedPathStep
<1>3. CASE OpenBeneath \/ OpenManifest
  BY <1>3, BeneathStep
<1>4. CASE RejectSymlink \/ OpenUnrooted
  BY <1>4, UnrootedStep
<1>5. CASE InspectManifest \/ ReadManifest \/ EndOfManifest
  BY <1>5, TextStep
<1> QED
  BY <1>1, <1>2, <1>3, <1>4, <1>5 DEF ReadNext

\* A read starts without roots.
LEMMA ReadingInit == Standing /\ ReadInit => Reading
<1> SUFFICES ASSUME Standing, ReadInit PROVE Reading
  OBVIOUS
<1>1. /\ job \in Reads /\ step = "roots" /\ at = 0
      /\ walk = [roots |-> <<>>, way |-> <<>>, opened |-> <<Top>>, root |-> <<>>, file |-> Absent, read |-> 0]
  BY DEF ReadInit
<1>2. <<Top>> \in Seq(Nodes)
  BY TreeAssumption DEF Dirs
<1>3. walk \in Reader
  BY <1>1, <1>2 DEF Reader, Reached
<1>4. Range(walk.roots) = {}
  BY <1>1 DEF Range
<1> QED
  BY <1>1, <1>3, <1>4 DEF Reading, Going

-----------------------------------------------------------------------------
(* Both of them.                                                               *)

\* A tree begins as one of those considered.
LEMMA StandingInit == TreeInit => Standing
<1> SUFFICES ASSUME TreeInit PROVE Standing
  OBVIOUS
<1>1. entries \in Trees /\ sizes = Sizes /\ held = Held(entries) /\ changed = 0
  BY DEF TreeInit
<1> QED
  BY <1>1, TreeAssumption DEF Standing

Confining == Standing /\ (Copying \/ Reading)

\* No step of the program and none of others undoes what keeps the program inside.
LEMMA ConfiningStep == Confining /\ [ConfinementNext]_confinementVars => Confining'
<1> SUFFICES ASSUME Confining, [ConfinementNext]_confinementVars PROVE Confining'
  OBVIOUS
<1>1. /\ Copying => job.kind = "local"
      /\ Reading => job.kind = "manifest"
  BY RequestsAssumption, ReadsAssumption DEF Copying, Reading
<1>2. UNCHANGED treeVars => Standing' /\ held' = held
  BY DEF treeVars, Standing, Confining
<1>3. CASE job.kind = "local" /\ LocalNext /\ UNCHANGED treeVars
  BY <1>1, <1>2, <1>3, CopyingStep DEF Confining
<1>4. CASE job.kind = "manifest" /\ ReadNext /\ UNCHANGED treeVars
  BY <1>1, <1>2, <1>4, ReadingStep DEF Confining
<1>5. CASE ~Ended /\ OthersChange /\ UNCHANGED <<materialiseVars, walk>>
  <2>1. Standing' /\ held \subseteq held'
    BY <1>5, StandingStep DEF Confining
  <2>2. step # "done"
    BY <1>5 DEF Ended
  <2> QED
    BY <1>5, <2>1, <2>2, CopyingAside, ReadingAside DEF Confining
<1>6. CASE UNCHANGED confinementVars
  <2>1. UNCHANGED <<materialiseVars, walk>> /\ UNCHANGED treeVars
    BY <1>6 DEF confinementVars
  <2>2. Copying => Copying'
    BY <1>2, <2>1, CopyingAside
  <2>3. Reading => Reading'
    <3>1. UNCHANGED <<job, step, at, walk, held, changed, sizes>>
      BY <2>1 DEF materialiseVars, treeVars
    <3> QED
      BY <3>1 DEF Reading, Reader, Rooted, Path, Activated
  <2> QED
    BY <1>2, <2>1, <2>2, <2>3 DEF Confining
<1> QED
  BY <1>3, <1>4, <1>5, <1>6 DEF ConfinementNext

\* Whatever others rename, replace or extend while a dependency is copied or a
\* manifest is read: no file comes from anywhere but the directory it was declared
\* in, or through a link, and no copy and no text is larger than the limits
\* (fetcher/sources/local/mod.rs, manifests/shared/rooted_fs.rs); for every tree,
\* every change to it, every dependency and every manifest.
THEOREM ConfinementHolds == ConfinementSpec => []NothingFromOutside
<1>1. ConfinementInit => Confining
  BY StandingInit, CopyingInit, ReadingInit DEF ConfinementInit, Confining
<1>2. Confining => NothingFromOutside
  <2> SUFFICES ASSUME Confining PROVE NothingFromOutside
    OBVIOUS
  <2>1. CASE Copying
    <3>1. job.kind # "manifest"
      BY <2>1, RequestsAssumption DEF Copying
    <3> QED
      BY <2>1, <3>1, CopyingConfined DEF NothingFromOutside, ReadConfined
  <2>2. CASE Reading
    <3>1. job.kind # "local"
      BY <2>2, ReadsAssumption DEF Reading
    <3> QED
      BY <2>2, <3>1, ReadingConfined DEF NothingFromOutside, SnapshotConfined
  <2> QED
    BY <2>1, <2>2 DEF Confining
<1> QED
  BY <1>1, <1>2, ConfiningStep, PTL DEF ConfinementSpec

-----------------------------------------------------------------------------
(* What a copy is where nothing changes.                                       *)

\* There are finitely many sequences of one length over a finite set.
LEMMA TuplesFinite ==
  ASSUME NEW S, IsFiniteSet(S), NEW n \in Nat
  PROVE  IsFiniteSet([1 .. n -> S])
<1> DEFINE Endless == {k \in Nat : ~IsFiniteSet([1 .. k -> S])}
<1> SUFFICES ASSUME Endless # {} PROVE FALSE
  OBVIOUS
<1>1. PICK k \in Endless : \A m \in Endless : ~(m < k)
  BY SmallestNumber
<1>2. k \in Nat /\ ~IsFiniteSet([1 .. k -> S]) /\ \A m \in Nat : m < k => IsFiniteSet([1 .. m -> S])
  BY <1>1
<1> HIDE DEF Endless
<1>3. CASE k = 0
  <2>1. [1 .. k -> S] \subseteq {[i \in {} |-> 0]}
    BY <1>3
  <2>2. IsFiniteSet({[i \in {} |-> 0]})
    BY FS_Singleton
  <2> QED
    BY <1>2, <2>1, <2>2, FS_Subset
<1>4. CASE k # 0
  <2> DEFINE T == [1 .. k - 1 -> S]
             X == T \X S
             extended == [x \in X |-> [i \in 1 .. k |-> IF i = k THEN x[2] ELSE x[1][i]]]
             F == [1 .. k -> S]
  <2>1. IsFiniteSet(X)
    <3>0. k - 1 \in Nat /\ k - 1 < k
      BY <1>2, <1>4
    <3>1. IsFiniteSet(T)
      BY <1>2, <3>0
    <3> HIDE DEF T
    <3> QED
      BY <3>1, FS_Product
  <2>2. \A x \in X : extended[x] \in F
    BY <1>2, <1>4
  <2>3. \A g \in F : \E x \in X : extended[x] = g
    <3> TAKE g \in F
    <3> DEFINE x == <<[i \in 1 .. k - 1 |-> g[i]], g[k]>>
    <3>1. x \in X
      BY <1>2, <1>4
    <3>2. extended[x] = [i \in 1 .. k |-> IF i = k THEN x[2] ELSE x[1][i]]
      BY <3>1
    <3>3. \A i \in 1 .. k : (IF i = k THEN x[2] ELSE x[1][i]) = g[i]
      BY <1>2, <1>4
    <3>4. extended[x] = [i \in 1 .. k |-> g[i]]
      BY <3>2, <3>3, Zenon
    <3>5. extended[x] = g
      BY <3>4
    <3> QED
      BY <3>1, <3>5
  <2> HIDE DEF T, X, F
  <2>4. extended \in Surjection(X, F)
    BY <2>2, <2>3 DEF Surjection
  <2>5. IsFiniteSet(F)
    BY <2>1, <2>4, FS_Surjection
  <2> QED
    BY <1>2, <2>5 DEF F
<1> QED
  BY <1>3, <1>4

\* A file system has finitely many names, and a directory finitely much below it
\* to the depth the copy goes.
LEMMA BelowFinite ==
  ASSUME Standing, NEW node
  PROVE  /\ IsFiniteSet(Names) /\ Names \subseteq STRING
         /\ \A d \in Dirs : DOMAIN entries[d] \subseteq Names
         /\ IsFiniteSet(Below(node))
<1>1. IsFiniteSet(Dirs)
  BY TreeAssumption, FS_Subset DEF Dirs
<1> DEFINE lists == [d \in Dirs |-> DOMAIN entries[d]]
           L == {DOMAIN entries[d] : d \in Dirs}
<1>2. IsFiniteSet(L)
  <2>1. lists \in Surjection(Dirs, L)
    BY DEF Surjection
  <2> HIDE DEF lists, L
  <2> QED
    BY <1>1, <2>1, FS_Surjection
<1>3. \A T \in L : IsFiniteSet(T) /\ T \subseteq STRING
  BY DEF Standing
<1>4. Names = UNION L
  BY DEF Names, Standing
<1> HIDE DEF L
<1>5. IsFiniteSet(Names) /\ Names \subseteq STRING
  BY <1>2, <1>3, <1>4, FS_UNION
<1> DEFINE N == MaxDepth + 1
           words == [n \in 1 .. N |-> [1 .. n -> Names]]
           W == {[1 .. n -> Names] : n \in 1 .. N}
<1>6. IsFiniteSet(UNION W)
  <2>0. N \in Nat
    BY MaterialiseConstants
  <2>1. IsFiniteSet(1 .. N)
    BY <2>0, FS_Interval
  <2>2. words \in Surjection(1 .. N, W)
    BY DEF Surjection
  <2>3. \A T \in W : IsFiniteSet(T)
    BY <1>5, <2>0, TuplesFinite
  <2> HIDE DEF words, W, N
  <2>4. IsFiniteSet(W)
    BY <2>1, <2>2, FS_Surjection
  <2> QED
    BY <2>3, <2>4, FS_UNION
<1>7. Below(node) \subseteq UNION W
  BY DEF Below
<1>8. IsFiniteSet(Below(node))
  BY <1>6, <1>7, FS_Subset
<1>9. \A d \in Dirs : DOMAIN entries[d] \subseteq Names
  BY DEF Names, Standing
<1> QED
  BY <1>5, <1>8, <1>9

\* What lies below a directory.
LEMMA BelowIs ==
  ASSUME Standing, NEW node \in Reached, NEW path \in Below(node)
  PROVE  /\ path \in Seq(STRING) /\ path # <<>> /\ Len(path) \in 1 .. MaxDepth + 1
         /\ NodeBelow(node, path) \in Nodes
         /\ path \in [1 .. Len(path) -> Names]
<1>1. PICK n \in 1 .. MaxDepth + 1 : path \in [1 .. n -> Names]
  BY DEF Below
<1>2. n \in Nat \ {0}
  BY MaterialiseConstants
<1>3. path \in [1 .. n -> STRING]
  BY <1>1, BelowFinite
<1>4. path \in Seq(STRING) /\ Len(path) = n
  BY <1>2, <1>3
<1>5. NodeBelow(node, path) \in Nodes
  BY <1>4, NodesBelow DEF Below, Reached
<1> QED
  BY <1>1, <1>2, <1>4, <1>5

\* An entry of a directory that lies below lies below, one name deeper.
LEMMA EntryBelow ==
  ASSUME Standing, NEW node \in Reached, NEW path \in Below(node) \cup {<<>>}, Len(path) <= MaxDepth,
         NodeBelow(node, path) \in Dirs, NEW name \in DOMAIN entries[NodeBelow(node, path)]
  PROVE  /\ Append(path, name) \in Below(node) /\ name \in STRING \ {Absent}
         /\ NodeBelow(node, Append(path, name)) = entries[NodeBelow(node, path)][name]
         /\ Len(Append(path, name)) = Len(path) + 1
<1> DEFINE dir == NodeBelow(node, path)
           more == Append(path, name)
           n == Len(path)
<1>1. /\ path \in Seq(STRING) /\ n \in 0 .. MaxDepth /\ n \in Nat /\ \A i \in 1 .. n : path[i] \in Names
  <2>1. CASE path = <<>>
    BY <2>1, MaterialiseConstants
  <2>2. CASE path # <<>>
    <3>1. path \in Below(node)
      BY <2>2
    <3>2. path \in Seq(STRING) /\ Len(path) \in 1 .. MaxDepth + 1 /\ path \in [1 .. Len(path) -> Names]
      BY <3>1, BelowIs
    <3> QED
      BY <3>2, MaterialiseConstants
  <2> QED
    BY <2>1, <2>2
<1>2. name \in Names /\ name \in STRING \ {Absent} /\ entries[dir][name] \in Nodes
  BY BelowFinite DEF Standing
<1>3. /\ more \in Seq(STRING) /\ Len(more) = n + 1 /\ more[n + 1] = name /\ \A i \in 1 .. n : more[i] = path[i]
      /\ DOMAIN more = 1 .. n + 1
  BY <1>1, <1>2, AppendProperties, LenProperties
<1>4. NodeBelow(node, more) = Inside(dir, name)
  BY <1>1, <1>2, BelowNext
<1>5. Inside(dir, name) = entries[dir][name]
  BY DEF Inside, Lookup
<1> HIDE DEF more
<1>6. more \in [1 .. n + 1 -> Names]
  <2>0. \A i \in 1 .. n + 1 : i = n + 1 \/ i \in 1 .. n
    BY <1>1
  <2> HIDE DEF n
  <2>1. \A i \in 1 .. n + 1 : more[i] \in Names
    BY <1>1, <1>2, <1>3, <2>0
  <2>2. more \in [1 .. Len(more) -> STRING]
    BY <1>3, LenProperties
  <2> QED
    BY <1>3, <2>1, <2>2
<1>7. n + 1 \in 1 .. MaxDepth + 1
  BY <1>1, MaterialiseConstants
<1>8. more \in Below(node)
  <2>1. Absent \notin Nodes
    BY TreeAssumption
  <2> QED
    BY <1>2, <1>4, <1>5, <1>6, <1>7, <2>1 DEF Below
<1> QED
  BY <1>2, <1>3, <1>4, <1>5, <1>8 DEF more

\* And what lies below is an entry of a directory one name higher.
LEMMA EntryAbove ==
  ASSUME Standing, NEW node \in Reached, NEW path \in Below(node)
  PROVE  LET above == SubSeq(path, 1, Len(path) - 1)
             name  == path[Len(path)]
         IN  /\ path = Append(above, name) /\ Len(above) = Len(path) - 1
             /\ above = <<>> \/ above \in Below(node)
             /\ NodeBelow(node, above) \in Dirs /\ name \in DOMAIN entries[NodeBelow(node, above)]
<1> DEFINE n == Len(path)
           above == SubSeq(path, 1, n - 1)
           name == path[n]
<1>1. /\ path \in Seq(STRING) /\ n \in 1 .. MaxDepth + 1 /\ NodeBelow(node, path) \in Nodes
      /\ path \in [1 .. n -> Names] /\ n \in Nat \ {0}
  BY BelowIs, MaterialiseConstants
<1>2. /\ above \in Seq(STRING) /\ Len(above) = n - 1 /\ \A i \in 1 .. n - 1 : above[i] = path[i]
      /\ name \in STRING
  BY <1>1
<1>3. path = Append(above, name)
  BY <1>1, <1>2
<1> HIDE DEF above, name
<1>4. NodeBelow(node, path) = Inside(NodeBelow(node, above), name)
  BY <1>2, <1>3, BelowNext
<1>5. NodeBelow(node, above) \in Dirs /\ name \in DOMAIN entries[NodeBelow(node, above)]
  BY <1>1, <1>4, TreeAssumption DEF Inside, Lookup
<1>6. above = <<>> \/ above \in Below(node)
  <2> SUFFICES ASSUME n # 1 PROVE above \in Below(node)
    BY <1>1, <1>2
  <2>1. n - 1 \in 1 .. MaxDepth + 1
    BY <1>1, MaterialiseConstants
  <2>2. above \in [1 .. n - 1 -> Names]
    <3>1. above \in [1 .. n - 1 -> STRING]
      BY <1>2, LenProperties
    <3> QED
      BY <1>1, <1>2, <3>1
  <2>3. NodeBelow(node, above) # Absent
    BY <1>5, TreeAssumption DEF Dirs
  <2> QED
    BY <2>1, <2>2, <2>3 DEF Below
<1> QED
  BY <1>2, <1>3, <1>5, <1>6 DEF above, name

\* What realpath returned is opened by the same names.
LEMMA RealHead ==
  ASSUME Standing, NEW path \in Seq(STRING), path # <<>>, NodeAt(path) # Absent, LinksOn(path) = {}
  PROVE  Canonicalize(<<Head(path)>>) = <<Head(path)>> /\ Head(path) \in STRING \ {Absent}
<1> DEFINE one == <<Head(path)>>
<1>1. /\ Head(path) \in STRING /\ one \in Seq(STRING) /\ one = SubSeq(path, 1, 1) /\ one = Append(<<>>, Head(path))
      /\ 1 \in DOMAIN path /\ DOMAIN one = {1} /\ SubSeq(one, 1, 1) = one /\ Len(path) \in Nat \ {0}
  <2>1. /\ Head(path) \in STRING /\ one \in Seq(STRING)
        /\ 1 \in DOMAIN path /\ DOMAIN one = {1} /\ Len(path) \in Nat \ {0}
    OBVIOUS
  <2>2. one = Append(<<>>, Head(path))
    OBVIOUS
  <2>3. one = SubSeq(path, 1, 1)
    <3>1. SubSeq(path, 1, 1) \in Seq(STRING) /\ Len(SubSeq(path, 1, 1)) = 1 /\ SubSeq(path, 1, 1)[1] = path[1]
      OBVIOUS
    <3>2. Len(one) = 1 /\ one[1] = path[1]
      OBVIOUS
    <3>3. \A i \in 1 .. Len(one) : one[i] = SubSeq(path, 1, 1)[i]
      BY <3>1, <3>2
    <3> HIDE DEF one
    <3> QED
      BY <2>1, <3>1, <3>2, <3>3, SeqEqual
  <2>4. SubSeq(one, 1, 1) = one
    <3>1. Len(one) = 1
      OBVIOUS
    <3> HIDE DEF one
    <3> QED
      BY <2>1, <3>1, SubSeqFull
  <2> QED
    BY <2>1, <2>2, <2>3, <2>4
<1>e. ASSUME Len(path) = 1 PROVE path = one
  <2>1. Len(one) = 1 /\ one[1] = path[1]
    OBVIOUS
  <2>2. \A i \in 1 .. Len(path) : path[i] = one[i]
    BY <1>e, <2>1
  <2> HIDE DEF one
  <2> QED
    BY <1>1, <1>e, <2>1, <2>2, SeqEqual
<1>2. Top \in Reached /\ Top \in Dirs /\ <<>> \in Seq(STRING)
  BY TreeAssumption DEF Reached, Dirs
<1> HIDE DEF one
<1>3. NodeAt(one) # Absent
  <2>1. CASE Len(path) = 1
    BY <1>e, <2>1
  <2>2. CASE Len(path) # 1
    <3>1. 1 \in 0 .. Len(path) - 1
      BY <1>1, <2>2
    <3>2. NodeBelow(Top, SubSeq(path, 1, 1)) \in Dirs
      BY <1>2, <3>1, ThroughDirectories DEF NodeAt
    <3> QED
      BY <1>1, <3>2, TreeAssumption DEF NodeAt, Dirs
  <2> QED
    BY <2>1, <2>2
<1>4. LinksOn(one) = {}
  <2>1. 1 \notin LinksOn(path)
    OBVIOUS
  <2>2. ~(NodeAt(one) # Absent /\ KindOf[NodeAt(one)] = "link")
    BY <1>1, <2>1 DEF LinksOn
  <2> QED
    BY <1>1, <2>2 DEF LinksOn
<1>5. Canonicalize(one) = one
  BY <1>1, <1>3, <1>4, Canonical
<1>6. NodeAt(one) = Inside(Top, Head(path))
  <2>1. NodeBelow(Top, Append(<<>>, Head(path))) = Inside(NodeBelow(Top, <<>>), Head(path))
    BY <1>1, <1>2, BelowNext
  <2>2. NodeBelow(Top, <<>>) = Top
    BY <1>2, NodeNowhere
  <2> QED
    BY <1>1, <2>1, <2>2 DEF NodeAt
<1>7. Head(path) # Absent
  BY <1>2, <1>3, <1>6 DEF Inside, Lookup, Standing
<1> QED
  BY <1>1, <1>5, <1>7 DEF one

\* A real path is resolved to itself, with the root it lies under and without.
LEMMA RealResolved ==
  ASSUME Standing, NEW path \in Seq(STRING), NodeAt(path) # Absent, LinksOn(path) = {},
         NEW root \in Seq(STRING), IsPrefix(root, path)
  PROVE  /\ ResolveRootSymlink(root) = root /\ root # <<Absent>>
         /\ root \o SubSeq(path, Len(root) + 1, Len(path)) = path
<1>1. /\ Len(root) \in Nat /\ Len(path) \in Nat /\ Len(root) <= Len(path)
      /\ \A i \in 1 .. Len(root) : root[i] = path[i]
  <2>1. Len(root) \in Nat /\ Len(path) \in Nat /\ Len(root) <= Len(path)
    BY DEF IsPrefix
  <2>2. SubSeq(root, 1, Len(root)) = SubSeq(path, 1, Len(root))
    BY DEF IsPrefix
  <2>3. ASSUME NEW i \in 1 .. Len(root) PROVE root[i] = path[i]
    <3>1. SubSeq(root, 1, Len(root))[i] = root[i] /\ SubSeq(path, 1, Len(root))[i] = path[i]
      BY <2>1, <2>3
    <3> QED
      BY <2>2, <3>1
  <2> QED
    BY <2>1, <2>3
<1>2. root \o SubSeq(path, Len(root) + 1, Len(path)) = path
  <2> DEFINE rest == SubSeq(path, Len(root) + 1, Len(path))
  <2>1. /\ rest \in Seq(STRING) /\ Len(rest) = Len(path) - Len(root)
        /\ \A i \in 1 .. Len(rest) : rest[i] = path[Len(root) + i]
    BY <1>1
  <2> HIDE DEF rest
  <2>2. /\ root \o rest \in Seq(STRING) /\ Len(root \o rest) = Len(root) + Len(rest)
        /\ \A i \in 1 .. Len(root) + Len(rest) :
             (root \o rest)[i] = IF i <= Len(root) THEN root[i] ELSE rest[i - Len(root)]
    BY <2>1, ConcatProperties
  <2>3. Len(root \o rest) = Len(path)
    BY <1>1, <2>1, <2>2
  <2>4. \A i \in 1 .. Len(root \o rest) : (root \o rest)[i] = path[i]
    BY <1>1, <2>1, <2>2
  <2>5. root \o rest = path
    BY <2>2, <2>3, <2>4, SeqEqual
  <2> QED
    BY <2>5 DEF rest
<1>3. CASE root = <<>>
  <2>1. <<>> # <<Absent>>
    OBVIOUS
  <2> QED
    BY <1>2, <1>3, <2>1 DEF ResolveRootSymlink
<1>4. CASE root # <<>>
  <2>1. path # <<>> /\ Head(root) = Head(path) /\ <<Head(root)>> \o Tail(root) = root
    BY <1>1, <1>4
  <2>2. Canonicalize(<<Head(root)>>) = <<Head(root)>> /\ Head(root) # Absent
    BY <2>1, RealHead
  <2>3. <<Head(root)>> # <<Absent>> /\ root # <<Absent>>
    BY <2>2
  <2>4. ResolveRootSymlink(root) = <<Head(root)>> \o Tail(root)
    BY <1>4, <2>2, <2>3 DEF ResolveRootSymlink
  <2> QED
    BY <1>2, <2>1, <2>3, <2>4
<1> QED
  BY <1>3, <1>4

\* The dependency as its path says.
Sought == Canonicalize(Candidate)

\* Directories opened along a way are those that it leads through.
OnTheWay(way, nodes) == \A i \in 1 .. Len(nodes) : nodes[i] = NodeAt(SubSeq(way, 1, i - 1))

\* The source is opened by its real path, and nothing has been counted before.
Sourced(s, w, st) ==
  /\ s \in {"root", "resolve", "open"} \cup CopySteps => w.source = Sought /\ Sought # <<Absent>>
  /\ s \in {"open"} \cup CopySteps => w.way = w.source /\ OnTheWay(w.way, w.opened)
  /\ s \notin CopySteps \cup Errors => st = NoStats

\* A copy is refused for a reason.
Refused(s) ==
  s \in {"limit", "policy"} =>
    \/ ~Copyable(NodeAt(Sought))
    \/ ~job.trusted /\ ~IsPrefix(Canonicalize(job.declared), Sought)

Busy == {"entry", "file", "read"}

\* What is being copied.
Current(w) == Append(Head(w.queue).path, Head(w.names))

\* What is on disk is what lies there, the last of it as far as it has been read.
Mirrored(o, d, s, w) ==
  /\ \A p \in DOMAIN d :
       /\ p \in Below(o) /\ Len(p) <= MaxDepth
       /\ d[p].kind = KindOf[NodeBelow(o, p)]
       /\ d[p].size = BytesOf(NodeBelow(o, p)) \/ (s = "read" /\ p = Current(w))
  /\ s = "file" => KindOf[NodeBelow(o, Current(w))] # "dir" /\ Len(Current(w)) <= MaxDepth
  /\ s = "read" => w.file = NodeBelow(o, Current(w)) /\ d[Current(w)].size <= sizes[w.file]

\* The queue holds directories that lie there, each once.
InLine(o, w) ==
  /\ \A i \in 1 .. Len(w.queue) : Last(w.queue[i].node) = NodeBelow(o, w.queue[i].path)
  /\ \A i, j \in 1 .. Len(w.queue) : w.queue[i].path = w.queue[j].path => i = j

\* The names that are left are entries of the directory at its head, not copied yet.
NamesLeft(o, d, s, w) ==
  s \in Busy =>
    /\ \A i, j \in 1 .. Len(w.names) : w.names[i] = w.names[j] => i = j
    /\ \A i \in 1 .. Len(w.names) :
         /\ w.names[i] \in DOMAIN entries[NodeBelow(o, Head(w.queue).path)]
         /\ (Append(Head(w.queue).path, w.names[i]) \in DOMAIN d) <=> (s = "read" /\ i = 1)

\* A directory on disk is complete or in the queue, and one in the queue is as empty
\* as it was made, unless it is being copied: then what is missing is what is named,
\* or the limit cannot be met.
Visited(o, d, s, w, st) ==
  /\ \A p \in DOMAIN d \cup {<<>>} :
       NodeBelow(o, p) \in Dirs =>
         \/ \A n \in DOMAIN entries[NodeBelow(o, p)] : Append(p, n) \in DOMAIN d
         \/ \E i \in 1 .. Len(w.queue) : w.queue[i].path = p
  /\ \A i \in 1 .. Len(w.queue) :
       (i = 1 /\ s \in Busy) \/ \A n \in STRING : Append(w.queue[i].path, n) \notin DOMAIN d
  /\ s \in Busy =>
       \/ Len(w.names) + st.files > MaxExtractedFiles + (IF s = "entry" THEN 0 ELSE 1)
       \/ \A n \in DOMAIN entries[NodeBelow(o, Head(w.queue).path)] :
            Append(Head(w.queue).path, n) \in DOMAIN d \/ \E i \in 1 .. Len(w.names) : w.names[i] = n

\* What has been counted is what is on disk.
Measured(d, s, st) ==
  st.files = Cardinality(DOMAIN d) + (IF s = "file" THEN 1 ELSE 0) /\ st.bytes = Weight(d)

Gathered(o, d, s, w, st) ==
  /\ o \in Dirs /\ Mirrored(o, d, s, w) /\ InLine(o, w)
  /\ NamesLeft(o, d, s, w) /\ Visited(o, d, s, w, st) /\ Measured(d, s, st)
  /\ s = "done" => w.queue = <<>>

\* Where links lead, however many there are.
Led(path) ==
  LET way[n \in 0 .. MaxLinks] == IF n = 0 THEN path ELSE Followed(way[n - 1]) IN way[MaxLinks]

\* The same entries make the same real paths.
LEMMA SameReal ==
  ASSUME entries' = entries
  PROVE  \A path : Canonicalize(path)' = Canonicalize(path)
<1>1. \A path : NodeAt(path)' = NodeAt(path)
  BY SMT DEF NodeAt, NodeBelow, Inside, Lookup
<1>2. \A path : LinksOn(path)' = LinksOn(path)
  BY SMT DEF LinksOn, NodeAt, NodeBelow, Inside, Lookup
<1>3. \A path : Led(path)' = Led(path)
  BY SMT DEF Led, Followed, LinksOn, NodeAt, NodeBelow, Inside, Lookup
<1>4. \A path : Canonicalize(path) =
        IF NodeAt(Led(path)) = Absent \/ LinksOn(Led(path)) # {} THEN <<Absent>> ELSE Led(path)
  BY SMT DEF Canonicalize, Led
<1>5. \A path : Canonicalize(path)' =
        IF NodeAt(Led(path))' = Absent \/ LinksOn(Led(path))' # {} THEN <<Absent>> ELSE Led(path)'
  BY SMT DEF Canonicalize, Led
<1>6. \A path : NodeAt(Led(path))' = NodeAt(Led(path)) /\ LinksOn(Led(path))' = LinksOn(Led(path))
  BY <1>1, <1>2, <1>3
<1> QED
  BY <1>3, <1>4, <1>5, <1>6

\* The same tree has the same paths.
LEMMA SameTree ==
  ASSUME UNCHANGED treeVars, job' = job
  PROVE  /\ entries' = entries /\ sizes' = sizes /\ held' = held /\ changed' = changed
         /\ \A node, path : NodeBelow(node, path)' = NodeBelow(node, path)
         /\ \A path : NodeAt(path)' = NodeAt(path)
         /\ \A node : Below(node)' = Below(node) /\ Copyable(node)' = Copyable(node)
         /\ Sought' = Sought /\ Canonicalize(job.declared)' = Canonicalize(job.declared)
<1>1. entries' = entries /\ sizes' = sizes /\ held' = held /\ changed' = changed
  BY DEF treeVars
<1>2. \A node, path : NodeBelow(node, path)' = NodeBelow(node, path)
  BY <1>1, SMT DEF NodeBelow, Inside, Lookup
<1>3. \A path : NodeAt(path)' = NodeAt(path)
  BY <1>2 DEF NodeAt
<1>4. \A node : Below(node)' = Below(node)
  BY <1>1, SMTT(30) DEF Below, Names, NodeBelow, Inside, Lookup
<1>5. \A node : Copyable(node)' = Copyable(node)
  BY <1>1, SMTT(30) DEF Copyable, BytesBelow, BytesOf, Below, Names, NodeBelow, Inside, Lookup
<1>6. Sought' = Sought
  BY <1>1, SameReal DEF Sought, Candidate
<1>7. Canonicalize(job.declared)' = Canonicalize(job.declared)
  BY <1>1, SameReal
<1> QED
  BY <1>1, <1>2, <1>3, <1>4, <1>5, <1>6, <1>7


-----------------------------------------------------------------------------
(* Its source is found.                                                        *)

\* What was sought is somewhere, with no link on the way.
LEMMA SoughtIsReal ==
  ASSUME Standing, Copying
  PROVE  /\ Sought \in Seq(STRING) /\ NodeAt(Sought) \in Reached
         /\ Sought # <<Absent>> => NodeAt(Sought) \in Nodes /\ LinksOn(Sought) = {}
<1>1. job.path \in Seq(STRING) /\ job.declared \in Seq(STRING)
  BY RequestsAssumption DEF Copying
<1>2. Candidate \in Seq(STRING)
  BY <1>1, Begins DEF Candidate
<1>3. /\ Sought \in Seq(STRING)
      /\ Sought # <<Absent>> => NodeAt(Sought) # Absent /\ LinksOn(Sought) = {}
  BY <1>2, Canonical DEF Sought
<1>4. NodeAt(Sought) \in Reached
  BY <1>3, TreeAssumption, NodesBelow DEF NodeAt, Reached, Dirs
<1> QED
  BY <1>3, <1>4 DEF Reached

\* The source that is found is the real path of what was asked for, and refused
\* only when it lies outside of its root.
LEMMA SoughtStep ==
  ASSUME Standing, Copying, Sourced(step, walk, stats), CanonicalSource \/ CanonicalRoot \/ ResolveWay
  PROVE  Sourced(step', walk', stats') /\ Refused(step') /\ step' \notin CopySteps
<1>1. /\ walk \in Walker /\ step \in {"source", "root", "resolve"} /\ stats = NoStats
  BY DEF Copying, Located, CanonicalSource, CanonicalRoot, ResolveWay, CopySteps, Errors, Sourced
<1>2. walk.opened = <<Top>> /\ Top \in Reached
  BY <1>1, TreeAssumption DEF Copying, Located, Dirs, Reached
<1>3. ASSUME NEW error \in {"io", "policy"}, Refuse(error), error = "policy" => Refused("policy")
      PROVE  Sourced(step', walk', stats') /\ Refused(step') /\ step' \notin CopySteps
  <2>1. step' = error /\ step' \in Errors /\ step' \notin {"root", "resolve", "open"} \cup CopySteps
    BY <1>3 DEF Refuse, Fails, Errors, CopySteps
  <2> QED
    BY <1>3, <2>1 DEF Sourced, Refused
<1>4. \A s \in {"root", "resolve", "open"} : s \notin CopySteps /\ Refused(s)
  BY DEF CopySteps, Refused
<1>5. CASE CanonicalSource
  <2>1. CASE Refuse("io")
    BY <1>3, <2>1
  <2>2. CASE Sought # <<Absent>> /\ Proceed("root", [walk EXCEPT !.source = Sought])
    <3>1. step' = "root" /\ walk'.source = Sought /\ stats' = stats
      BY <1>1, <2>2 DEF Proceed, Walker
    <3> QED
      BY <1>1, <1>4, <2>2, <3>1 DEF Sourced, CopySteps
  <2> QED
    BY <1>5, <2>1, <2>2 DEF CanonicalSource, Sought
<1>6. CASE CanonicalRoot
  <2>0. walk.source = Sought /\ Sought # <<Absent>>
    BY <1>6 DEF CanonicalRoot, Sourced
  <2> DEFINE root == Canonicalize(job.declared)
  <2>1. CASE Refuse("io")
    BY <1>3, <2>1
  <2>2. CASE ~job.trusted /\ ~IsPrefix(root, walk.source) /\ Refuse("policy")
    BY <1>3, <2>0, <2>2 DEF Refused
  <2>3. CASE Proceed("resolve", [walk EXCEPT !.root = root])
    <3>1. step' = "resolve" /\ walk'.source = walk.source /\ stats' = stats
      BY <1>1, <2>3 DEF Proceed, Walker
    <3> QED
      BY <1>1, <1>4, <2>0, <3>1 DEF Sourced, CopySteps
  <2> QED
    BY <1>6, <2>1, <2>2, <2>3 DEF CanonicalRoot
<1>7. CASE ResolveWay
  <2>0. /\ walk.source = Sought /\ Sought # <<Absent>> /\ step = "resolve"
        /\ walk.root \in Seq(STRING) /\ walk.source \in Seq(STRING)
    BY <1>1, <1>7 DEF ResolveWay, Sourced, Walker
  <2> DEFINE start == ResolveRootSymlink(IF Within THEN walk.root ELSE walk.source)
             way == start \o (IF Within THEN Relative ELSE <<>>)
  <2>1. start # <<Absent>> /\ way = walk.source
    <3>1. CASE Within
      <4>1. ResolveRootSymlink(walk.root) = walk.root /\ walk.root # <<Absent>> /\ walk.root \o Relative = walk.source
        BY <2>0, <3>1, SoughtIsReal, RealResolved, TreeAssumption DEF Within, Relative
      <4> QED
        BY <3>1, <4>1
    <3>2. CASE ~Within
      <4>1. IsPrefix(walk.source, walk.source)
        BY <2>0 DEF IsPrefix
      <4>2. ResolveRootSymlink(walk.source) = walk.source /\ walk.source # <<Absent>>
        BY <2>0, <4>1, SoughtIsReal, RealResolved, TreeAssumption
      <4>3. walk.source \o <<>> = walk.source
        BY <2>0, ConcatEmptySeq
      <4> QED
        BY <3>2, <4>2, <4>3
    <3> QED
      BY <3>1, <3>2
  <2> HIDE DEF start
  <2>2. Proceed("open", [walk EXCEPT !.way = way])
    BY <1>7, <2>1 DEF ResolveWay, start
  <2> HIDE DEF way
  <2>3. step' = "open" /\ walk'.source = walk.source /\ walk'.way = walk.source /\ walk'.opened = <<Top>> /\ stats' = stats
    BY <1>1, <1>2, <2>1, <2>2 DEF Proceed, Walker
  <2>4. OnTheWay(walk.source, <<Top>>)
    <3>1. SubSeq(walk.source, 1, 0) = <<>>
      BY <2>0, SubSeqEmpty
    <3>2. NodeBelow(Top, <<>>) = Top
      BY <1>2, NodeNowhere
    <3>3. Len(<<Top>>) = 1 /\ <<Top>>[1] = Top
      OBVIOUS
    <3>4. \A i \in 1 .. Len(<<Top>>) : i = 1 /\ i - 1 = 0
      BY <3>3
    <3> QED
      BY <3>1, <3>2, <3>3, <3>4 DEF OnTheWay, NodeAt
  <2> QED
    BY <1>1, <1>4, <2>0, <2>3, <2>4 DEF Sourced
<1> QED
  BY <1>5, <1>6, <1>7

\* In a tree that nobody changes the source is opened as it was found.
LEMMA SourceOpened ==
  ASSUME Standing, Copying, Sourced(step, walk, stats), OpenSource
  PROVE  /\ Sourced(step', walk', stats') /\ Refused(step')
         /\ step' \in CopySteps => Gathered(NodeAt(Sought), disk', step', walk', stats')
<1> DEFINE way == walk.way
           nodes == walk.opened
           n == Len(nodes)
           o == NodeAt(Sought)
<1>1. /\ walk \in Walker /\ step = "open" /\ disk = Empty /\ stats = NoStats
      /\ way = Sought /\ walk.source = Sought /\ Sought # <<Absent>> /\ OnTheWay(way, nodes)
      /\ way \in Seq(STRING) /\ nodes \in Seq(Dirs) /\ nodes # <<>> /\ n <= Len(way) + 1
  BY DEF OpenSource, Copying, Copied, Located, Opening, Sourced, CopySteps, Errors
<1>2. /\ n \in Nat \ {0} /\ Len(way) \in Nat /\ Last(nodes) = nodes[n] /\ Last(nodes) \in Dirs
      /\ o \in Nodes /\ LinksOn(Sought) = {}
  BY <1>1, SoughtIsReal DEF Last
<1>3. Top \in Reached
  BY TreeAssumption DEF Reached, Dirs
<1> HIDE DEF n, o
<1>4. nodes[n] = NodeAt(SubSeq(way, 1, n - 1))
  BY <1>1, <1>2 DEF OnTheWay, n
<1>5. CASE Arrived
  <2>1. n = Len(way) + 1
    BY <1>5 DEF Arrived, n
  <2>2. Last(nodes) = o
    <3>1. SubSeq(way, 1, Len(way)) = way /\ n - 1 = Len(way)
      BY <1>1, <1>2, <2>1, SubSeqFull
    <3> QED
      BY <1>1, <1>2, <1>4, <3>1 DEF o
  <2> DEFINE q == [node |-> <<o>>, path |-> <<>>]
  <2>3. /\ step' = "list" /\ walk'.queue = <<q>> /\ walk'.way = way /\ walk'.opened = nodes
        /\ walk'.source = Sought /\ disk' = Empty /\ stats' = NoStats
    BY <1>1, <1>5, <2>2 DEF OpenSource, Proceed, Walker
  <2>4. Len(<<q>>) = 1 /\ <<q>>[1] = q /\ q.path = <<>> /\ Last(q.node) = o
    BY DEF Last
  <2>5. NodeBelow(o, <<>>) = o
    BY <1>2, NodeNowhere DEF Reached
  <2>6. DOMAIN Empty = {} /\ Cardinality(DOMAIN Empty) = 0 /\ Weight(Empty) = 0
    BY NothingCopied DEF Empty
  <2>7. "list" \notin Busy /\ "list" \in CopySteps /\ Refused("list") /\ NoStats.files = 0 /\ NoStats.bytes = 0
    BY DEF Busy, CopySteps, Refused, NoStats
  <2> HIDE DEF q
  <2>8. \A i \in 1 .. Len(walk'.queue) : i = 1 /\ walk'.queue[i].path = <<>> /\ Last(walk'.queue[i].node) = o
    BY <2>3, <2>4
  <2>9. Mirrored(o, disk', step', walk') /\ InLine(o, walk') /\ NamesLeft(o, disk', step', walk')
    BY <2>3, <2>5, <2>6, <2>7, <2>8 DEF Mirrored, InLine, NamesLeft
  <2>10. Visited(o, disk', step', walk', stats')
    <3>1. 1 \in 1 .. Len(walk'.queue) /\ walk'.queue[1].path = <<>>
      BY <2>3, <2>4
    <3> QED
      BY <2>3, <2>6, <2>7, <2>8, <3>1 DEF Visited
  <2>11. Measured(disk', step', stats')
    BY <2>3, <2>6, <2>7 DEF Measured
  <2>12. o \in Dirs
    BY <1>2, <2>2
  <2>13. Gathered(o, disk', step', walk', stats')
    BY <2>3, <2>9, <2>10, <2>11, <2>12 DEF Gathered
  <2>14. Sourced(step', walk', stats')
    BY <1>1, <2>3, <2>7 DEF Sourced
  <2> QED
    BY <2>3, <2>7, <2>13, <2>14 DEF o
<1>6. CASE ~Arrived
  <2>1. n <= Len(way) /\ n \in 1 .. Len(way) /\ way[n] \in STRING
    BY <1>1, <1>2, <1>6 DEF Arrived, n
  <2>2. NodeAt(SubSeq(way, 1, n)) = Lookup(Last(nodes), way[n])
    <3>1. SubSeq(way, 1, n) = Append(SubSeq(way, 1, n - 1), way[n]) /\ SubSeq(way, 1, n - 1) \in Seq(STRING)
      BY <1>1, <1>2, <2>1
    <3>2. NodeAt(SubSeq(way, 1, n)) = Inside(NodeAt(SubSeq(way, 1, n - 1)), way[n])
      BY <1>3, <2>1, <3>1, BelowNext DEF NodeAt
    <3> QED
      BY <1>2, <1>4, <3>2 DEF Inside
  <2>3. NextDirectory = OpenAt(Last(nodes), way[n], {"dir"})
    BY DEF NextDirectory, OpenDirectory, NextName, n
  <2>4. CASE NextDirectory # Absent
    <3>1. NextDirectory = NodeAt(SubSeq(way, 1, n)) /\ NextDirectory \in Nodes
      BY <1>2, <2>2, <2>3, <2>4, OpenedAt DEF OpenAt
    <3>2. NextDirectory \in Dirs
      <4>1. KindOf[NextDirectory] \in {"dir"}
        BY <1>2, <2>3, <2>4, OpenedAt
      <4> QED
        BY <3>1, <4>1 DEF Dirs
    <3> DEFINE more == Append(nodes, NextDirectory)
    <3>3. /\ step' = "open" /\ walk'.way = way /\ walk'.opened = more /\ walk'.source = Sought /\ stats' = NoStats
      BY <1>1, <1>6, <2>4 DEF OpenSource, Proceed, Walker
    <3>4. /\ Len(more) = n + 1 /\ more[n + 1] = NextDirectory /\ \A i \in 1 .. n : more[i] = nodes[i]
      BY <1>1, <3>2, AppendProperties DEF n
    <3> HIDE DEF more
    <3>5. OnTheWay(way, more)
      <4> SUFFICES ASSUME NEW i \in 1 .. Len(more) PROVE more[i] = NodeAt(SubSeq(way, 1, i - 1))
        BY DEF OnTheWay
      <4>1. CASE i = n + 1
        BY <1>2, <3>1, <3>4, <4>1
      <4>2. CASE i # n + 1
        <5>1. i \in 1 .. n
          BY <1>2, <3>4, <4>2
        <5> QED
          BY <1>1, <3>4, <5>1 DEF OnTheWay, n
      <4> QED
        BY <4>1, <4>2
    <3>6. step' \notin CopySteps /\ Refused(step')
      BY <3>3 DEF CopySteps, Refused
    <3> QED
      BY <1>1, <3>3, <3>5, <3>6 DEF Sourced
  <2>5. CASE NextDirectory = Absent
    <3>1. step' \in {"io", "policy"}
      BY <1>6, <2>5 DEF OpenSource, Refuse, Fails
    <3>2. ~Copyable(NodeAt(Sought))
      <4> SUFFICES ASSUME Copyable(NodeAt(Sought)) PROVE FALSE
        OBVIOUS
      <4>1. o \in Dirs
        BY <1>2 DEF Copyable, Dirs, o
      <4>2. NodeAt(SubSeq(way, 1, n)) \in Dirs
        <5>1. CASE n = Len(way)
          BY <1>1, <4>1, <5>1, SubSeqFull DEF o
        <5>2. CASE n # Len(way)
          <6>1. n \in 0 .. Len(way) - 1 /\ NodeBelow(Top, way) # Absent
            BY <1>1, <1>2, <2>1, <5>2, TreeAssumption DEF o, NodeAt
          <6> QED
            BY <1>1, <1>3, <6>1, ThroughDirectories DEF NodeAt
        <5> QED
          BY <5>1, <5>2
      <4> QED
        BY <2>2, <2>3, <2>5, <4>2, TreeAssumption DEF OpenAt, Dirs
    <3>3. step' \notin CopySteps /\ step' \in Errors /\ step' # "limit" /\ step' \notin {"root", "resolve", "open"}
      BY <3>1 DEF CopySteps, Errors
    <3> QED
      BY <3>2, <3>3 DEF Sourced, Refused
  <2> QED
    BY <2>4, <2>5
<1> QED
  BY <1>5, <1>6

-----------------------------------------------------------------------------
(* What lies there is copied.                                                  *)

\* Where the copy stands, as the tree has it.
LEMMA CurrentLies ==
  ASSUME Standing, Copying, step \in CopySteps, walk.queue # <<>>, NEW o, Gathered(o, disk, step, walk, stats)
  PROVE  /\ o \in Dirs /\ o \in Reached /\ walk \in Walker
         /\ walk.queue \in Seq([node : Seq(Dirs), path : Seq(STRING)]) /\ walk.names \in Seq(STRING)
         /\ Source = walk.queue[1] /\ 1 \in 1 .. Len(walk.queue)
         /\ SourceNode = NodeBelow(o, Source.path) /\ SourceNode \in Dirs
         /\ Source.path \in DOMAIN disk \cup {<<>>} /\ Source.path \in Below(o) \cup {<<>>}
         /\ Source.path \in Seq(STRING) /\ Len(Source.path) <= MaxDepth /\ Current(walk) = ChildPath
         /\ step \in Busy /\ walk.names # <<>> =>
              /\ Head(walk.names) = walk.names[1] /\ 1 \in 1 .. Len(walk.names)
              /\ Head(walk.names) \in DOMAIN entries[SourceNode]
              /\ ChildPath \in Below(o) /\ ChildPath \in Seq(STRING)
              /\ Len(ChildPath) = Len(Source.path) + 1
              /\ NodeBelow(o, ChildPath) = Lookup(SourceNode, Head(walk.names))
              /\ NodeBelow(o, ChildPath) \in Nodes
              /\ (ChildPath \in DOMAIN disk) <=> (step = "read")
<1>1. /\ walk \in Walker /\ o \in Dirs /\ o \in Reached
      /\ walk.queue \in Seq([node : Seq(Dirs), path : Seq(STRING)]) /\ walk.names \in Seq(STRING)
  BY DEF Copying, Located, Gathered, Walker, Dirs, Reached
<1>2. Source = walk.queue[1] /\ 1 \in 1 .. Len(walk.queue)
  BY <1>1 DEF Source
<1>3. Standpoint(Source)
  BY <1>2 DEF Copying, Underway
<1>4. SourceNode = NodeBelow(o, Source.path) /\ SourceNode \in Dirs /\ Source.path \in Seq(STRING)
  <2>1. SourceNode = NodeBelow(o, Source.path)
    BY <1>2 DEF Gathered, InLine, SourceNode
  <2>2. Source.node \in Seq(Dirs) /\ Source.node # <<>> /\ Source.path \in Seq(STRING)
    BY <1>3 DEF Standpoint, Opening
  <2> QED
    BY <2>1, <2>2 DEF SourceNode, Last
<1>5. /\ Source.path \in DOMAIN disk \cup {<<>>} /\ Source.path \in Below(o) \cup {<<>>}
      /\ Len(Source.path) <= MaxDepth
  BY <1>3, MaterialiseConstants DEF Standpoint, Gathered, Mirrored
<1>6. Current(walk) = ChildPath
  BY DEF Current, ChildPath, Source
<1>7. ASSUME step \in Busy, walk.names # <<>>
      PROVE  /\ Head(walk.names) = walk.names[1] /\ 1 \in 1 .. Len(walk.names)
             /\ Head(walk.names) \in DOMAIN entries[SourceNode]
             /\ (ChildPath \in DOMAIN disk) <=> (step = "read")
  <2>1. Head(walk.names) = walk.names[1] /\ 1 \in 1 .. Len(walk.names)
    BY <1>1, <1>7
  <2> QED
    BY <1>4, <1>7, <2>1 DEF Gathered, NamesLeft, Source, ChildPath
<1>8. ASSUME step \in Busy, walk.names # <<>>
      PROVE  /\ ChildPath \in Below(o) /\ ChildPath \in Seq(STRING) /\ Len(ChildPath) = Len(Source.path) + 1
             /\ NodeBelow(o, ChildPath) = Lookup(SourceNode, Head(walk.names))
             /\ NodeBelow(o, ChildPath) \in Nodes
  <2>1. /\ ChildPath \in Below(o) /\ NodeBelow(o, ChildPath) = entries[SourceNode][Head(walk.names)]
        /\ Len(ChildPath) = Len(Source.path) + 1
    BY <1>1, <1>4, <1>5, <1>7, <1>8, EntryBelow DEF ChildPath
  <2> QED
    BY <1>1, <1>7, <1>8, <2>1, BelowIs DEF Lookup
<1> QED
  BY <1>1, <1>2, <1>4, <1>5, <1>6, <1>7, <1>8

\* What has been copied, one object more or less, weighs no more than all there is.
LEMMA Weighed ==
  ASSUME Standing, NEW o \in Dirs, NEW d, \A p \in DOMAIN d : d[p].size \in Nat,
         DOMAIN d \subseteq Below(o), NEW c \in Below(o),
         \A p \in DOMAIN d \ {c} : d[p].size = BytesOf(NodeBelow(o, p))
  PROVE  /\ Cardinality(DOMAIN d \cup {c}) <= Cardinality(Below(o))
         /\ Weight(d) - (IF c \in DOMAIN d THEN d[c].size ELSE 0) + BytesOf(NodeBelow(o, c)) <= BytesBelow(o)
         /\ Weight(d) \in Nat /\ BytesBelow(o) \in Nat /\ BytesOf(NodeBelow(o, c)) \in Nat
<1> DEFINE B == Below(o)
           f == [p \in B |-> BytesOf(NodeBelow(o, p))]
           D == DOMAIN d
           g == [p \in D |-> d[p].size]
           R == D \ {c}
           E == D \cup {c}
<1>1. IsFiniteSet(B)
  BY BelowFinite
<1>2. \A p \in B : f[p] \in Nat /\ f[p] = BytesOf(NodeBelow(o, p))
  <2> SUFFICES ASSUME NEW p \in B PROVE BytesOf(NodeBelow(o, p)) \in Nat
    OBVIOUS
  <2>1. NodeBelow(o, p) \in Nodes
    BY BelowIs DEF Reached, Dirs
  <2> QED
    BY <2>1 DEF BytesOf, Standing
<1>3. BytesBelow(o) = SumFunctionOnSet(f, B)
  BY DEF BytesBelow, SumFunction
<1>4. Weight(d) = SumFunctionOnSet(g, D)
  BY DEF Weight
<1>5. D \subseteq B /\ c \in B /\ E \subseteq B /\ E \ {c} = R /\ c \in E /\ (c \in D => D \ {c} = R) /\ (c \notin D => D = R)
  OBVIOUS
<1>6. \A p \in D : g[p] \in Nat /\ g[p] = d[p].size
  OBVIOUS
<1>7. \A p \in R : f[p] = g[p]
  OBVIOUS
<1> HIDE DEF B, f, g
<1>8. IsFiniteSet(D) /\ IsFiniteSet(E) /\ IsFiniteSet(R) /\ Cardinality(E) <= Cardinality(B)
  BY <1>1, <1>5, FS_Subset DEF E
<1>9. SumFunctionOnSet(f, B) = SumFunctionOnSet(f, E) + SumFunctionOnSet(f, B \ E) /\ SumFunctionOnSet(f, B \ E) \in Nat
  <2> HIDE DEF E
  <2>1. IsFiniteSet(B \ E)
    BY <1>1, FS_Difference
  <2>2. \A p \in B \ E : f[p] \in Nat
    BY <1>2
  <2> QED
    BY <1>1, <1>2, <1>5, <2>1, <2>2, SumSplit, SumNat
<1>10. SumFunctionOnSet(f, E) = f[c] + SumFunctionOnSet(f, R)
  <2>1. \A p \in E : f[p] \in Nat
    BY <1>2, <1>5
  <2> HIDE DEF E, R
  <2>2. SumFunctionOnSet(f, E) = f[c] + SumFunctionOnSet(f, E \ {c})
    BY <1>5, <1>8, <2>1, SumWithout
  <2> QED
    BY <1>5, <2>2
<1>11. SumFunctionOnSet(f, R) = SumFunctionOnSet(g, R) /\ SumFunctionOnSet(g, R) \in Nat
  <2>1. \A p \in R : g[p] \in Nat
    BY <1>6
  <2> HIDE DEF R
  <2> QED
    BY <1>7, <1>8, <2>1, SumSame, SumNat
<1>12. SumFunctionOnSet(g, D) = (IF c \in D THEN g[c] ELSE 0) + SumFunctionOnSet(g, R)
  <2>1. CASE c \in D
    <3> HIDE DEF D, R
    <3>1. SumFunctionOnSet(g, D) = g[c] + SumFunctionOnSet(g, D \ {c})
      BY <1>6, <1>8, <2>1, SumWithout
    <3> QED
      BY <1>5, <2>1, <3>1
  <2>2. CASE c \notin D
    BY <1>5, <1>11, <2>2
  <2> QED
    BY <2>1, <2>2
<1>13. f[c] \in Nat /\ f[c] = BytesOf(NodeBelow(o, c)) /\ (c \in D => g[c] \in Nat /\ g[c] = d[c].size)
  BY <1>2, <1>5, <1>6
<1>14. BytesBelow(o) \in Nat /\ Weight(d) \in Nat
  BY <1>1, <1>2, <1>3, <1>4, <1>6, <1>8, SumNat
<1> HIDE DEF D, R, E
<1>15. Weight(d) - (IF c \in D THEN g[c] ELSE 0) + f[c] <= BytesBelow(o)
  BY <1>3, <1>4, <1>9, <1>10, <1>11, <1>12, <1>13, <1>14
<1> QED
  BY <1>8, <1>13, <1>14, <1>15 DEF D, E, B

\* Paths with another name at their end are others.
LEMMA SamePaths ==
  ASSUME NEW p \in Seq(STRING), NEW n \in STRING, NEW q \in Seq(STRING), NEW m \in STRING,
         Append(p, n) = Append(q, m)
  PROVE  p = q /\ n = m
<1>1. /\ Len(Append(p, n)) = Len(p) + 1 /\ Len(p) \in Nat /\ Append(p, n)[Len(p) + 1] = n
      /\ \A i \in 1 .. Len(p) : Append(p, n)[i] = p[i]
  <2>1. Len(Append(p, n)) = Len(p) + 1 /\ Len(p) \in Nat
    BY AppendProperties
  <2>2. Append(p, n)[Len(p) + 1] = n
    BY AppendProperties
  <2>3. \A i \in 1 .. Len(p) : Append(p, n)[i] = p[i]
    BY AppendProperties
  <2> QED
    BY <2>1, <2>2, <2>3
<1>2. /\ Len(Append(q, m)) = Len(q) + 1 /\ Len(q) \in Nat /\ Append(q, m)[Len(q) + 1] = m
      /\ \A i \in 1 .. Len(q) : Append(q, m)[i] = q[i]
  <2>1. Len(Append(q, m)) = Len(q) + 1 /\ Len(q) \in Nat
    BY AppendProperties
  <2>2. Append(q, m)[Len(q) + 1] = m
    BY AppendProperties
  <2>3. \A i \in 1 .. Len(q) : Append(q, m)[i] = q[i]
    BY AppendProperties
  <2> QED
    BY <2>1, <2>2, <2>3
<1>3. Len(p) = Len(q)
  BY <1>1, <1>2
<1>4. \A i \in 1 .. Len(p) : p[i] = q[i]
  BY <1>1, <1>2, <1>3
<1> QED
  BY <1>1, <1>2, <1>3, <1>4, SeqEqual

\* What the steps of the copy leave alone.
LEMMA SourcedKept ==
  ASSUME Sourced(step, walk, stats), step \in CopySteps, step' \in CopySteps \cup Errors,
         step' \in CopySteps => /\ walk'.opened = walk.opened /\ walk'.way = walk.way
                                /\ walk'.source = walk.source
  PROVE  Sourced(step', walk', stats')
BY DEF Sourced, CopySteps, Errors

\* The names of a directory, and whether they are all.
LEMMA NamesAreListed ==
  ASSUME Standing, NEW dir \in Dirs, NEW maximum \in Nat, NEW names \in Listings(dir, maximum)
  PROVE  /\ \A i, j \in 1 .. Len(names) : names[i] = names[j] => i = j
         /\ \A i \in 1 .. Len(names) : names[i] \in DOMAIN entries[dir]
         /\ \/ Len(names) = maximum
            \/ \A n \in DOMAIN entries[dir] : \E i \in 1 .. Len(names) : names[i] = n
<1> DEFINE here == DOMAIN entries[dir]
<1>1. IsFiniteSet(here)
  BY DEF Standing
<1>2. PICK s \in SetToSeqs(here) :
          names = SubSeq(s, 1, IF Len(s) > maximum THEN maximum ELSE Len(s))
  BY DEF Listings
<1> HIDE DEF here
<1>3. /\ s \in Seq(here) /\ Len(s) \in Nat
      /\ \A i, j \in 1 .. Len(s) : s[i] = s[j] => i = j
      /\ \A x \in here : \E i \in 1 .. Len(s) : s[i] = x
  BY <1>1, <1>2, Enumerated
<1>4. CASE Len(s) > maximum
  <2>1. names = SubSeq(s, 1, maximum)
    BY <1>2, <1>4
  <2>2. Len(names) = maximum /\ \A i \in 1 .. maximum : names[i] = s[i] /\ s[i] \in here /\ i \in 1 .. Len(s)
    BY <1>3, <1>4, <2>1
  <2> QED
    BY <1>3, <2>2 DEF here
<1>5. CASE ~(Len(s) > maximum)
  <2>1. names = SubSeq(s, 1, Len(s))
    BY <1>2, <1>5
  <2>2. names = s
    BY <1>3, <2>1, SubSeqFull
  <2> QED
    BY <1>3, <2>2 DEF here
<1> QED
  BY <1>4, <1>5

\* Listing the directory in hand names all of its entries, or more than there is
\* room for.
LEMMA GatheredListed ==
  ASSUME Standing, Copying, NEW o, Gathered(o, disk, step, walk, stats), ListDirectory
  PROVE  Gathered(o, disk', step', walk', stats')
<1>1. /\ step = "list" /\ step \in CopySteps /\ step \notin Busy /\ walk \in Walker
      /\ o \in Dirs /\ stats.files \in Nat /\ stats.files <= MaxExtractedFiles
  BY DEF ListDirectory, CopySteps, Busy, Copying, Located, Copied, Gathered
<1>2. CASE walk.queue = <<>>
  <2>1. step' = "done" /\ step' \notin Busy /\ step' \notin {"file", "read"} /\ UNCHANGED <<walk, disk, stats>>
    BY <1>2 DEF ListDirectory, Proceed, Busy
  <2> QED
    BY <1>1, <1>2, <2>1 DEF Gathered, Mirrored, InLine, NamesLeft, Visited, Measured
<1>3. CASE walk.queue # <<>>
  <2>1. /\ SourceNode = NodeBelow(o, Source.path) /\ SourceNode \in Dirs
        /\ Source = walk.queue[1] /\ 1 \in 1 .. Len(walk.queue) /\ Source = Head(walk.queue)
    BY <1>1, <1>3, CurrentLies DEF Source
  <2> DEFINE maximum == MaxExtractedFiles - stats.files + 1
  <2>2. maximum \in Nat /\ maximum + stats.files > MaxExtractedFiles
    BY <1>1, MaterialiseConstants
  <2> HIDE DEF maximum
  <2>3. PICK names \in Listings(SourceNode, maximum) : Proceed("entry", [walk EXCEPT !.names = names])
    BY <1>3 DEF ListDirectory, maximum
  <2>4. /\ \A i, j \in 1 .. Len(names) : names[i] = names[j] => i = j
        /\ \A i \in 1 .. Len(names) : names[i] \in DOMAIN entries[SourceNode]
        /\ \/ Len(names) = maximum
           \/ \A n \in DOMAIN entries[SourceNode] : \E i \in 1 .. Len(names) : names[i] = n
    BY <2>1, <2>2, NamesAreListed
  <2>5. /\ step' = "entry" /\ walk'.names = names /\ walk'.queue = walk.queue
        /\ disk' = disk /\ stats' = stats
    BY <1>1, <2>3 DEF Proceed, Walker
  <2>6. Mirrored(o, disk', step', walk') /\ InLine(o, walk')
    BY <1>1, <2>5 DEF Gathered, Mirrored, InLine
  <2>7. NamesLeft(o, disk', step', walk')
    <3>1. \A n \in STRING : Append(Source.path, n) \notin DOMAIN disk
      BY <1>1, <2>1 DEF Gathered, Visited
    <3>2. \A i \in 1 .. Len(names) : names[i] \in STRING
      BY <2>1, <2>4 DEF Standing
    <3> QED
      BY <2>1, <2>4, <2>5, <3>1, <3>2 DEF NamesLeft
  <2>8. Visited(o, disk', step', walk', stats')
    <3>1. \/ Len(walk'.names) + stats'.files > MaxExtractedFiles
          \/ \A n \in DOMAIN entries[NodeBelow(o, Head(walk'.queue).path)] :
               \E i \in 1 .. Len(walk'.names) : walk'.names[i] = n
      BY <2>1, <2>2, <2>4, <2>5
    <3>2. step' \in Busy /\ (IF step' = "entry" THEN 0 ELSE 1) = 0
      BY <2>5 DEF Busy
    <3>3. \/ Len(walk'.names) + stats'.files > MaxExtractedFiles + (IF step' = "entry" THEN 0 ELSE 1)
          \/ \A n \in DOMAIN entries[NodeBelow(o, Head(walk'.queue).path)] :
               \E i \in 1 .. Len(walk'.names) : walk'.names[i] = n
      BY <3>1, <3>2, MaterialiseConstants
    <3>4. \A i \in 1 .. Len(walk.queue) : \A n \in STRING : Append(walk.queue[i].path, n) \notin DOMAIN disk
      BY <1>1 DEF Gathered, Visited
    <3> QED
      BY <2>5, <3>3, <3>4 DEF Gathered, Visited
  <2>9. Measured(disk', step', stats')
    BY <1>1, <2>5 DEF Gathered, Measured
  <2> QED
    BY <1>1, <2>5, <2>6, <2>7, <2>8, <2>9 DEF Gathered
<1> QED
  BY <1>2, <1>3

\* A directory of which no name is left is complete.
LEMMA GatheredDirectory ==
  ASSUME Standing, Copying, NEW o, Gathered(o, disk, step, walk, stats), DirectoryCopied
  PROVE  Gathered(o, disk', step', walk', stats')
<1>1. /\ step = "entry" /\ step \in CopySteps /\ step \in Busy /\ walk \in Walker
      /\ o \in Dirs /\ stats.files \in Nat /\ stats.files <= MaxExtractedFiles
      /\ walk.names = <<>> /\ walk.queue # <<>>
  BY DEF DirectoryCopied, NextEntry, CopySteps, Busy, Copying, Located, Underway, Copied, Gathered
<1>2. walk.queue \in Seq([node : Seq(Dirs), path : Seq(STRING)])
  BY <1>1 DEF Walker
<1>3. /\ step' = "list" /\ step' \notin Busy /\ walk'.queue = Tail(walk.queue) /\ disk' = disk /\ stats' = stats
  BY <1>1 DEF DirectoryCopied, Proceed, Walker, Busy
<1>4. /\ Len(walk'.queue) = Len(walk.queue) - 1 /\ Len(walk.queue) \in Nat \ {0}
      /\ \A i \in 1 .. Len(walk'.queue) : walk'.queue[i] = walk.queue[i + 1] /\ i + 1 \in 1 .. Len(walk.queue)
      /\ Head(walk.queue) = walk.queue[1]
  BY <1>1, <1>2, <1>3, HeadTailProperties
<1>5. Mirrored(o, disk', step', walk') /\ NamesLeft(o, disk', step', walk') /\ Measured(disk', step', stats')
  BY <1>1, <1>3 DEF Gathered, Mirrored, NamesLeft, Measured, Busy
<1>6. InLine(o, walk')
  <2>1. InLine(o, walk)
    BY DEF Gathered
  <2>2. ASSUME NEW i \in 1 .. Len(walk'.queue), NEW j \in 1 .. Len(walk'.queue),
               walk'.queue[i].path = walk'.queue[j].path
        PROVE  i = j
    <3>0. walk'.queue[i] = walk.queue[i + 1] /\ walk'.queue[j] = walk.queue[j + 1]
      BY <1>4
    <3>1. /\ walk.queue[i + 1].path = walk.queue[j + 1].path
          /\ i + 1 \in 1 .. Len(walk.queue) /\ j + 1 \in 1 .. Len(walk.queue)
      BY <1>4, <2>2, <3>0
    <3>2. i + 1 = j + 1
      BY <2>1, <3>1 DEF InLine
    <3> QED
      BY <3>2
  <2>3. ASSUME NEW i \in 1 .. Len(walk'.queue)
        PROVE  Last(walk'.queue[i].node) = NodeBelow(o, walk'.queue[i].path)
    <3>1. walk'.queue[i] = walk.queue[i + 1] /\ i + 1 \in 1 .. Len(walk.queue)
      BY <1>4
    <3> QED
      BY <2>1, <3>1 DEF InLine
  <2> QED
    BY ONLY <2>2, <2>3 DEF InLine
<1>7. \A n \in DOMAIN entries[NodeBelow(o, Head(walk.queue).path)] : Append(Head(walk.queue).path, n) \in DOMAIN disk
  <2>1. Len(walk.names) = 0 /\ ~(Len(walk.names) + stats.files > MaxExtractedFiles + 0)
    BY <1>1, MaterialiseConstants
  <2> QED
    BY <1>1, <2>1 DEF Gathered, Visited
<1>8. Visited(o, disk', step', walk', stats')
  <2>1. ASSUME NEW p \in DOMAIN disk \cup {<<>>}, NodeBelow(o, p) \in Dirs
        PROVE  \/ \A n \in DOMAIN entries[NodeBelow(o, p)] : Append(p, n) \in DOMAIN disk
               \/ \E i \in 1 .. Len(walk'.queue) : walk'.queue[i].path = p
    <3> SUFFICES ASSUME ~\A n \in DOMAIN entries[NodeBelow(o, p)] : Append(p, n) \in DOMAIN disk
                 PROVE  \E i \in 1 .. Len(walk'.queue) : walk'.queue[i].path = p
      OBVIOUS
    <3>1. PICK i \in 1 .. Len(walk.queue) : walk.queue[i].path = p
      BY <2>1 DEF Gathered, Visited
    <3>2. i # 1
      BY <1>4, <1>7, <3>1
    <3>3. i - 1 \in 1 .. Len(walk'.queue) /\ (i - 1) + 1 = i
      BY <1>4, <3>1, <3>2
    <3> QED
      BY <1>4, <3>1, <3>3
  <2>2. ASSUME NEW i \in 1 .. Len(walk'.queue), NEW n \in STRING
        PROVE  Append(walk'.queue[i].path, n) \notin DOMAIN disk
    <3>1. i + 1 # 1
      BY <1>4
    <3> QED
      BY <1>4, <3>1 DEF Gathered, Visited
  <2> QED
    BY <1>3, <2>1, <2>2 DEF Visited
<1> QED
  BY <1>1, <1>3, <1>5, <1>6, <1>8 DEF Gathered

\* An entry that is a directory waits in the queue from now on; what is refused lies
\* too deep, or exceeds a limit.
LEMMA GatheredEntry ==
  ASSUME Standing, Copying, Gathered(NodeAt(Sought), disk, step, walk, stats), CopyEntry
  PROVE  /\ step' \in CopySteps => Gathered(NodeAt(Sought), disk', step', walk', stats')
         /\ Refused(step')
<1> DEFINE o == NodeAt(Sought)
           c == ChildPath
           path == Source.path
           name == Head(walk.names)
           counted == CountObject(stats)
           child == OpenDirectory(SourceNode, name)
<1> HIDE DEF o
<1>1. /\ step = "entry" /\ step \in CopySteps /\ step \in Busy /\ walk.names # <<>> /\ walk.queue # <<>>
      /\ Gathered(o, disk, step, walk, stats)
  BY DEF CopyEntry, NextEntry, CopySteps, Busy, Copying, Underway, o
<1>2. /\ o \in Dirs /\ o \in Reached /\ walk \in Walker
      /\ walk.queue \in Seq([node : Seq(Dirs), path : Seq(STRING)]) /\ walk.names \in Seq(STRING)
      /\ Source = walk.queue[1] /\ 1 \in 1 .. Len(walk.queue) /\ Head(walk.queue) = Source
      /\ SourceNode = NodeBelow(o, path) /\ SourceNode \in Dirs
      /\ path \in Seq(STRING) /\ Current(walk) = c
      /\ name = walk.names[1] /\ 1 \in 1 .. Len(walk.names)
      /\ name \in DOMAIN entries[SourceNode] /\ name \in STRING
      /\ c \in Below(o) /\ c \in Seq(STRING) /\ Len(c) = Len(path) + 1 /\ c # <<>>
      /\ NodeBelow(o, c) = Lookup(SourceNode, name) /\ NodeBelow(o, c) \in Nodes
      /\ c \notin DOMAIN disk
  BY <1>1, CurrentLies, ChildStands DEF Busy, Source
<1>3. /\ OnDisk(disk) /\ stats \in [files : Nat, bytes : Nat] /\ stats.bytes <= MaxExtractedSize
      /\ stats.files = Cardinality(DOMAIN disk) /\ stats.bytes = Weight(disk)
      /\ \A p \in DOMAIN disk : disk[p].size \in Nat /\ p \in Seq(STRING)
      /\ IsFiniteSet(DOMAIN disk) /\ Cardinality(DOMAIN disk) \in Nat
  <2>1. OnDisk(disk) /\ stats \in [files : Nat, bytes : Nat] /\ stats.bytes <= MaxExtractedSize
    BY DEF Copying, Copied
  <2>2. IsFiniteSet(DOMAIN disk) /\ Cardinality(DOMAIN disk) \in Nat
    BY <2>1, FS_CardinalityType DEF OnDisk
  <2>3. stats.files = Cardinality(DOMAIN disk) + 0 /\ stats.bytes = Weight(disk)
    BY <1>1 DEF Gathered, Measured
  <2>4. \A p \in DOMAIN disk : disk[p].size \in Nat /\ p \in Seq(STRING)
    BY <2>1 DEF OnDisk, Object
  <2> QED
    BY <2>1, <2>2, <2>3, <2>4
<1>4. counted \in [files : Nat, bytes : Nat] /\ counted.files = stats.files + 1 /\ counted.bytes = stats.bytes
  BY <1>3 DEF CountObject
<1> HIDE DEF counted, child, name
<1>5. CASE Len(c) > MaxDepth /\ Abandon("policy")
  <2>1. ~Copyable(o)
    BY <1>2, <1>5, MaterialiseConstants DEF Copyable
  <2>2. step' = "policy" /\ step' \notin CopySteps
    BY <1>5 DEF Abandon, CopySteps
  <2> QED
    BY <2>1, <2>2 DEF Refused, o
<1>6. CASE CheckLimits(counted) # "none" /\ Abandon(CheckLimits(counted))
  <2>1. counted.files > MaxExtractedFiles
    BY <1>3, <1>4, <1>6, MaterialiseConstants DEF CheckLimits
  <2>2. Cardinality(DOMAIN disk \cup {c}) = Cardinality(DOMAIN disk) + 1
    BY <1>2, <1>3, FS_AddElement
  <2>3. DOMAIN disk \subseteq Below(o)
    BY <1>1 DEF Gathered, Mirrored
  <2>4. Cardinality(DOMAIN disk \cup {c}) <= Cardinality(Below(o)) /\ Cardinality(Below(o)) \in Nat
    <3>1. IsFiniteSet(Below(o)) /\ DOMAIN disk \cup {c} \subseteq Below(o)
      BY <1>2, <2>3, BelowFinite
    <3> QED
      BY <3>1, FS_Subset, FS_CardinalityType
  <2>5. ~Copyable(o)
    BY <1>3, <1>4, <2>1, <2>2, <2>4, MaterialiseConstants DEF Copyable
  <2>6. step' \notin CopySteps
    BY <1>6 DEF Abandon, CheckLimits, CopySteps
  <2> QED
    BY <2>5, <2>6 DEF Refused, o
<1>7. CASE /\ ~(Len(c) > MaxDepth) /\ child # Absent
           /\ disk' = Made({c}) /\ stats' = counted
           /\ walk' = [walk EXCEPT
                !.names = Tail(walk.names),
                !.queue = Append(walk.queue, [node |-> Append(Source.node, child), path |-> c])]
           /\ UNCHANGED <<job, step, at, table>>
  <2> DEFINE new == [node |-> Append(Source.node, child), path |-> c]
  <2>1. child = NodeBelow(o, c) /\ child \in Dirs /\ KindOf[NodeBelow(o, c)] = "dir"
    <3>1. child = Lookup(SourceNode, name) /\ KindOf[child] \in {"dir"}
      BY <1>7 DEF child, OpenDirectory, OpenAt
    <3> QED
      BY <1>2, <3>1 DEF Dirs
  <2>2. new.path = c /\ Last(new.node) = NodeBelow(o, c) /\ new \in [node : Seq(Dirs), path : Seq(STRING)]
    <3>1. Source.node \in Seq(Dirs)
      <4>1. Source \in [node : Seq(Dirs), path : Seq(STRING)]
        <5>1. walk.queue[1] \in [node : Seq(Dirs), path : Seq(STRING)]
          BY <1>2, ElementOfSeq, Zenon
        <5> QED
          BY <1>2, <5>1, Zenon
      <4> QED
        BY <4>1
    <3>2. /\ Append(Source.node, child) \in Seq(Dirs) /\ Len(Append(Source.node, child)) = Len(Source.node) + 1
          /\ Append(Source.node, child)[Len(Source.node) + 1] = child
      BY <2>1, <3>1, AppendProperties
    <3> QED
      BY <1>2, <2>1, <3>2 DEF Last
  <2> HIDE DEF new
  <2>3. /\ Len(Append(walk.queue, new)) = Len(walk.queue) + 1 /\ Len(walk.queue) \in Nat
        /\ \A i \in 1 .. Len(walk.queue) : Append(walk.queue, new)[i] = walk.queue[i]
        /\ Append(walk.queue, new)[Len(walk.queue) + 1] = new
        /\ Head(Append(walk.queue, new)) = Source
    <3>0. /\ walk.queue \in Seq([node : Seq(Dirs), path : Seq(STRING)])
          /\ new \in [node : Seq(Dirs), path : Seq(STRING)]
      BY <1>2, <2>2
    <3>1. /\ Append(walk.queue, new) # <<>> /\ Len(Append(walk.queue, new)) = Len(walk.queue) + 1
          /\ \A i \in 1 .. Len(walk.queue) : Append(walk.queue, new)[i] = walk.queue[i]
          /\ Append(walk.queue, new)[Len(walk.queue) + 1] = new
      <4>1. Append(walk.queue, new) # <<>>
        BY <3>0, AppendProperties
      <4>2. Len(Append(walk.queue, new)) = Len(walk.queue) + 1
        BY <3>0, AppendProperties
      <4>3. \A i \in 1 .. Len(walk.queue) : Append(walk.queue, new)[i] = walk.queue[i]
        BY <3>0, AppendProperties
      <4>4. Append(walk.queue, new)[Len(walk.queue) + 1] = new
        BY <3>0, AppendProperties
      <4> QED
        BY <4>1, <4>2, <4>3, <4>4
    <3>2. Head(Append(walk.queue, new)) = Append(walk.queue, new)[1]
      BY <1>2, <2>2
    <3> QED
      BY <1>2, <3>1, <3>2
  <2>4. /\ Len(Tail(walk.names)) = Len(walk.names) - 1 /\ Len(walk.names) \in Nat \ {0}
        /\ \A i \in 1 .. Len(Tail(walk.names)) :
             Tail(walk.names)[i] = walk.names[i + 1] /\ i + 1 \in 1 .. Len(walk.names) /\ i + 1 # 1
    BY <1>1, <1>2, HeadTailProperties
  <2> DEFINE more == Append(walk.queue, new)
             names == Tail(walk.names)
  <2>5. /\ walk'.queue = more /\ walk'.names = names /\ step' = "entry" /\ stats' = counted
        /\ DOMAIN disk' = DOMAIN disk \cup {c} /\ disk'[c] = Directory
        /\ \A p \in DOMAIN disk : disk'[p] = disk[p]
    BY <1>1, <1>2, <1>7 DEF Walker, Made, new
  <2> HIDE DEF more, names
  <2>6. Mirrored(o, disk', step', walk')
    <3>1. ASSUME NEW p \in DOMAIN disk'
          PROVE  /\ p \in Below(o) /\ Len(p) <= MaxDepth
                 /\ disk'[p].kind = KindOf[NodeBelow(o, p)]
                 /\ disk'[p].size = BytesOf(NodeBelow(o, p))
      <4>1. CASE p = c
        <5>3. Len(c) \in Nat /\ MaxDepth \in Nat
          BY <1>2, MaterialiseConstants
        <5>1. Len(c) <= MaxDepth
          BY <1>7, <5>3
        <5>2. disk'[c].kind = "dir" /\ disk'[c].size = 0 /\ BytesOf(NodeBelow(o, c)) = 0
          BY <2>1, <2>5 DEF Directory, BytesOf
        <5> QED
          BY <1>2, <2>1, <4>1, <5>1, <5>2
      <4>2. CASE p # c
        <5>1. p \in DOMAIN disk /\ disk'[p] = disk[p]
          BY <2>5, <4>2
        <5> QED
          BY <1>1, <5>1 DEF Gathered, Mirrored
      <4> QED
        BY <4>1, <4>2
    <3> QED
      BY <2>5, <3>1 DEF Mirrored
  <2>7. \A i \in 1 .. Len(walk.queue) : walk.queue[i].path \in DOMAIN disk \cup {<<>>} /\ walk.queue[i].path # c
                                        /\ walk.queue[i].path \in Seq(STRING)
    <3>1. c # <<>>
      BY <1>2
    <3>2. \A i \in 1 .. Len(walk.queue) : Standpoint(walk.queue[i])
      BY <1>1 DEF Copying, Underway
    <3> QED
      BY <1>2, <3>1, <3>2 DEF Standpoint, Opening
  <2>8. InLine(o, walk')
    <3>1. InLine(o, walk)
      BY <1>1 DEF Gathered
    <3>2. \A i \in 1 .. Len(more) : i \in 1 .. Len(walk.queue) \/ i = Len(walk.queue) + 1
      BY <2>3 DEF more
    <3>3. ASSUME NEW i \in 1 .. Len(more) PROVE Last(more[i].node) = NodeBelow(o, more[i].path)
      BY <2>2, <2>3, <3>1, <3>2 DEF InLine, more
    <3>4. ASSUME NEW i \in 1 .. Len(more), NEW j \in 1 .. Len(more), more[i].path = more[j].path PROVE i = j
      <4>1. CASE i \in 1 .. Len(walk.queue) /\ j \in 1 .. Len(walk.queue)
        <5>1. walk.queue[i].path = walk.queue[j].path
          BY <2>3, <3>4, <4>1 DEF more
        <5> QED
          BY <3>1, <4>1, <5>1 DEF InLine
      <4>2. CASE i = Len(walk.queue) + 1 \/ j = Len(walk.queue) + 1
        BY <2>2, <2>3, <2>7, <3>2, <3>4, <4>2 DEF more
      <4> QED
        BY <3>2, <4>1, <4>2
    <3> QED
      BY <2>5, <3>3, <3>4 DEF InLine
  <2>9. NamesLeft(o, disk', step', walk')
    <3>1. NamesLeft(o, disk, step, walk) /\ Head(walk'.queue) = Source
      BY <1>1, <2>3, <2>5 DEF Gathered, more
    <3>2. ASSUME NEW i \in 1 .. Len(names), NEW j \in 1 .. Len(names), names[i] = names[j] PROVE i = j
      <4>1. walk.names[i + 1] = walk.names[j + 1] /\ i + 1 \in 1 .. Len(walk.names) /\ j + 1 \in 1 .. Len(walk.names)
        BY <2>4, <3>2 DEF names
      <4>2. i + 1 = j + 1
        BY <1>1, <3>1, <4>1 DEF NamesLeft
      <4> QED
        BY <4>2
    <3>3. ASSUME NEW i \in 1 .. Len(names)
          PROVE  names[i] \in DOMAIN entries[NodeBelow(o, path)] /\ Append(path, names[i]) \notin DOMAIN disk'
      <4>1. names[i] = walk.names[i + 1] /\ i + 1 \in 1 .. Len(walk.names) /\ i + 1 # 1
        BY <2>4 DEF names
      <4>2. names[i] \in DOMAIN entries[NodeBelow(o, path)] /\ Append(path, names[i]) \notin DOMAIN disk
        BY <1>1, <1>2, <3>1, <4>1 DEF NamesLeft
      <4>3. names[i] # name
        BY <1>1, <1>2, <3>1, <4>1 DEF NamesLeft
      <4>4. names[i] \in STRING
        BY <1>2, <4>1
      <4>5. Append(path, names[i]) # c
        BY <1>2, <4>3, <4>4, SamePaths DEF ChildPath, name
      <4> QED
        BY <2>5, <4>2, <4>5
    <3> QED
      BY <2>5, <3>1, <3>2, <3>3 DEF NamesLeft
  <2>10. Visited(o, disk', step', walk', stats')
    <3>1. Visited(o, disk, step, walk, stats) /\ Head(walk'.queue) = Source
      BY <1>1, <2>3, <2>5 DEF Gathered, more
    <3>2. \A i \in 1 .. Len(walk.queue) : i \in 1 .. Len(more) /\ more[i] = walk.queue[i]
      BY <2>3 DEF more
    <3>3. Len(walk.queue) + 1 \in 1 .. Len(more) /\ more[Len(walk.queue) + 1].path = c
      BY <2>2, <2>3 DEF more
    <3>4. ASSUME NEW p \in DOMAIN disk' \cup {<<>>}, NodeBelow(o, p) \in Dirs
          PROVE  \/ \A n \in DOMAIN entries[NodeBelow(o, p)] : Append(p, n) \in DOMAIN disk'
                 \/ \E i \in 1 .. Len(more) : more[i].path = p
      <4>1. CASE p = c
        BY <3>3, <4>1
      <4>2. CASE p # c
        <5>1. p \in DOMAIN disk \cup {<<>>}
          BY <2>5, <4>2
        <5>2. \/ \A n \in DOMAIN entries[NodeBelow(o, p)] : Append(p, n) \in DOMAIN disk
              \/ \E i \in 1 .. Len(walk.queue) : walk.queue[i].path = p
          BY <3>1, <3>4, <5>1 DEF Visited
        <5> QED
          BY <2>5, <3>2, <5>2
      <4> QED
        BY <4>1, <4>2
    <3>5. ASSUME NEW i \in 1 .. Len(more), i # 1, NEW n \in STRING
          PROVE  Append(more[i].path, n) \notin DOMAIN disk'
      <4>1. CASE i \in 1 .. Len(walk.queue)
        <5>1. Append(walk.queue[i].path, n) \notin DOMAIN disk
          BY <3>1, <3>5, <4>1 DEF Visited
        <5>2. walk.queue[i].path # path
          BY <1>1, <1>2, <3>5, <4>1 DEF Gathered, InLine
        <5>3. Append(walk.queue[i].path, n) # c
          <6>1. walk.queue[i].path \in Seq(STRING) /\ path \in Seq(STRING) /\ name \in STRING
            BY <1>2, <2>7, <4>1
          <6>2. c = Append(path, name)
            BY DEF ChildPath, name
          <6> DEFINE other == walk.queue[i].path
          <6> HIDE DEF c, path, other
          <6>3. other \in Seq(STRING) /\ other # path
            BY <5>2, <6>1 DEF other
          <6>4. Append(other, n) # Append(path, name)
            BY <6>1, <6>3, SamePaths
          <6> QED
            BY <6>2, <6>4 DEF other
        <5> QED
          BY <2>5, <3>2, <4>1, <5>1, <5>3
      <4>2. CASE i \notin 1 .. Len(walk.queue)
        <5>1. more[i].path = c
          BY <2>3, <3>3, <4>2 DEF more
        <5>2. /\ Append(c, n) \in Seq(STRING) /\ Len(Append(c, n)) = Len(c) + 1 /\ Len(c) \in Nat \ {0}
              /\ SubSeq(Append(c, n), 1, Len(c)) = c
          <6>1. Append(c, n) \in Seq(STRING) /\ Len(Append(c, n)) = Len(c) + 1
                /\ \A k \in 1 .. Len(c) : Append(c, n)[k] = c[k]
            <7>1. c \in Seq(STRING)
              BY <1>2
            <7> HIDE DEF c
            <7>2. Append(c, n) \in Seq(STRING) /\ Len(Append(c, n)) = Len(c) + 1
              BY <7>1, AppendProperties
            <7>3. \A k \in 1 .. Len(c) : Append(c, n)[k] = c[k]
              BY <7>1, AppendProperties
            <7> QED
              BY <7>2, <7>3
          <6>2. Len(c) \in Nat \ {0}
            BY <1>2
          <6> HIDE DEF c
          <6> DEFINE long == Append(c, n)
                     part == SubSeq(long, 1, Len(c))
          <6>4. c \in Seq(STRING) /\ long \in Seq(STRING) /\ Len(long) = Len(c) + 1
                /\ \A k \in 1 .. Len(c) : long[k] = c[k]
            BY <1>2, <6>1
          <6> HIDE DEF long
          <6>5. part \in Seq(STRING) /\ Len(part) = Len(c) /\ \A k \in 1 .. Len(c) : part[k] = long[k]
            BY <6>2, <6>4
          <6> HIDE DEF part
          <6>6. part = c
            BY <6>4, <6>5, SeqEqual
          <6>3. SubSeq(Append(c, n), 1, Len(c)) = c
            BY <6>6 DEF part, long
          <6> QED
            BY <6>1, <6>2, <6>3
        <5>3. c \in Parents(Append(c, n)) /\ Append(c, n) # c
          <6> HIDE DEF c
          <6>1. Len(c) \in 1 .. Len(Append(c, n)) - 1
            BY <5>2
          <6>2. Len(Append(c, n)) # Len(c)
            <7>1. \A a, b : a = b + 1 /\ b \in Nat => a # b
              OBVIOUS
            <7> QED
              BY <5>2, <7>1, Zenon
          <6> QED
            BY <5>2, <6>1, <6>2 DEF Parents
        <5>4. Append(c, n) \notin DOMAIN disk
          BY <1>2, <1>3, <5>3 DEF OnDisk
        <5> QED
          BY <2>5, <5>1, <5>3, <5>4
      <4> QED
        BY <4>1, <4>2
    <3>6. \/ Len(names) + counted.files > MaxExtractedFiles
          \/ \A n \in DOMAIN entries[NodeBelow(o, path)] :
               Append(path, n) \in DOMAIN disk' \/ \E i \in 1 .. Len(names) : names[i] = n
      <4>1. CASE Len(walk.names) + stats.files > MaxExtractedFiles + 0
        BY <1>3, <1>4, <2>4, <4>1, MaterialiseConstants DEF names
      <4>2. CASE \A n \in DOMAIN entries[NodeBelow(o, path)] :
                   Append(path, n) \in DOMAIN disk \/ \E i \in 1 .. Len(walk.names) : walk.names[i] = n
        <5> SUFFICES ASSUME NEW n \in DOMAIN entries[NodeBelow(o, path)], Append(path, n) \notin DOMAIN disk'
                     PROVE  \E i \in 1 .. Len(names) : names[i] = n
          OBVIOUS
        <5>1. PICK i \in 1 .. Len(walk.names) : walk.names[i] = n
          BY <2>5, <4>2
        <5>2. i # 1
          BY <1>2, <2>5, <5>1 DEF ChildPath, name
        <5>3. i - 1 \in 1 .. Len(names) /\ (i - 1) + 1 = i
          BY <2>4, <5>1, <5>2 DEF names
        <5> QED
          BY <2>4, <5>1, <5>3 DEF names
      <4> QED
        BY <1>1, <1>2, <3>1, <4>1, <4>2 DEF Visited
    <3>7. step' \in Busy /\ (IF step' = "entry" THEN 0 ELSE 1) = 0 /\ MaxExtractedFiles + 0 = MaxExtractedFiles
      BY <2>5, MaterialiseConstants DEF Busy
    <3> QED
      BY <2>5, <3>1, <3>4, <3>5, <3>6, <3>7 DEF Visited
  <2>11. Measured(disk', step', stats')
    <3>1. disk'[c].size = 0
      BY <2>5 DEF Directory
    <3>2. /\ Cardinality(DOMAIN disk') = Cardinality(DOMAIN disk) + 1
          /\ Weight(disk') = Weight(disk)
      <4>1. \A p \in DOMAIN disk : disk'[p].size = disk[p].size
        BY <2>5
      <4>2. DOMAIN disk' = DOMAIN disk \cup {c}
        BY <2>5
      <4> HIDE DEF c
      <4> QED
        BY <1>2, <1>3, <3>1, <4>1, <4>2, EmptyObjectMore
    <3>3. Cardinality(DOMAIN disk') + 0 = Cardinality(DOMAIN disk')
      BY <1>3, <3>2
    <3> QED
      BY <1>3, <1>4, <2>5, <3>2, <3>3 DEF Measured
  <2>12. Gathered(o, disk', step', walk', stats') /\ Refused(step')
    BY <1>2, <2>5, <2>6, <2>8, <2>9, <2>10, <2>11 DEF Gathered, Refused
  <2> QED
    BY <2>12 DEF o
<1>8. CASE /\ ~(Len(c) > MaxDepth) /\ child = Absent
           /\ step' = "file" /\ stats' = counted
           /\ UNCHANGED <<job, at, table, disk, walk>>
  <2>1. KindOf[NodeBelow(o, c)] # "dir" /\ Len(c) <= MaxDepth
    <3>1. Absent \notin Nodes
      BY TreeAssumption
    <3> QED
      BY <1>2, <1>8, <3>1, MaterialiseConstants DEF child, OpenDirectory, OpenAt
  <2>2. step' = "file" /\ step' \in Busy /\ disk' = disk /\ walk' = walk /\ (IF step' = "entry" THEN 0 ELSE 1) = 1
    BY <1>8 DEF Busy
  <2>3. Mirrored(o, disk', step', walk')
    BY <1>1, <1>2, <2>1, <2>2 DEF Gathered, Mirrored
  <2>4. NamesLeft(o, disk', step', walk') /\ InLine(o, walk')
    BY <1>1, <2>2 DEF Gathered, NamesLeft, InLine
  <2>5. Visited(o, disk', step', walk', stats')
    <3>1. Len(walk.names) + stats.files > MaxExtractedFiles + 0 => Len(walk.names) + counted.files > MaxExtractedFiles + 1
      BY <1>2, <1>3, <1>4, MaterialiseConstants
    <3> QED
      BY <1>1, <1>8, <2>2, <3>1 DEF Gathered, Visited
  <2>6. Measured(disk', step', stats')
    BY <1>3, <1>4, <1>8, <2>2 DEF Measured
  <2>7. Gathered(o, disk', step', walk', stats') /\ Refused(step')
    BY <1>2, <2>2, <2>3, <2>4, <2>5, <2>6 DEF Gathered, Refused
  <2> QED
    BY <2>7 DEF o
<1> QED
  <2>1. Lookup(SourceNode, name) # Absent
    BY <1>2, TreeAssumption
  <2> QED
    BY <1>5, <1>6, <1>7, <1>8, <2>1 DEF CopyEntry, counted, child, name

\* A file is opened, and is there but for its bytes; what is refused is no file, or
\* too large.
LEMMA GatheredOpen ==
  ASSUME Standing, Copying, Gathered(NodeAt(Sought), disk, step, walk, stats), OpenCopiedFile
  PROVE  /\ step' \in CopySteps => Gathered(NodeAt(Sought), disk', step', walk', stats')
         /\ Refused(step')
<1> DEFINE o == NodeAt(Sought)
           c == ChildPath
           path == Source.path
           name == Head(walk.names)
           file == OpenFile(SourceNode, name)
<1> HIDE DEF o
<1>1. /\ step = "file" /\ step \in CopySteps /\ step \in Busy /\ walk.names # <<>> /\ walk.queue # <<>>
      /\ Gathered(o, disk, step, walk, stats)
  BY DEF OpenCopiedFile, CopySteps, Busy, Copying, Underway, o
<1>2. /\ o \in Dirs /\ o \in Reached /\ walk \in Walker /\ walk.names \in Seq(STRING)
      /\ Source = walk.queue[1] /\ 1 \in 1 .. Len(walk.queue) /\ Head(walk.queue) = Source
      /\ SourceNode = NodeBelow(o, path) /\ SourceNode \in Dirs
      /\ path \in Seq(STRING) /\ Current(walk) = c
      /\ name = walk.names[1] /\ 1 \in 1 .. Len(walk.names) /\ name \in STRING
      /\ c \in Below(o) /\ c \in Seq(STRING) /\ Parents(c) \subseteq DOMAIN disk
      /\ NodeBelow(o, c) = Lookup(SourceNode, name) /\ NodeBelow(o, c) \in Nodes
      /\ c \notin DOMAIN disk
  BY <1>1, CurrentLies, ChildStands DEF Busy, Source
<1>3. /\ OnDisk(disk) /\ stats \in [files : Nat, bytes : Nat]
      /\ stats.files = Cardinality(DOMAIN disk) + 1 /\ stats.bytes = Weight(disk)
      /\ \A p \in DOMAIN disk : disk[p].size \in Nat
      /\ IsFiniteSet(DOMAIN disk) /\ Cardinality(DOMAIN disk) \in Nat
  <2>1. OnDisk(disk) /\ stats \in [files : Nat, bytes : Nat]
    BY DEF Copying, Copied
  <2>2. IsFiniteSet(DOMAIN disk) /\ Cardinality(DOMAIN disk) \in Nat
    BY <2>1, FS_CardinalityType DEF OnDisk
  <2>3. stats.files = Cardinality(DOMAIN disk) + 1 /\ stats.bytes = Weight(disk)
    BY <1>1 DEF Gathered, Measured
  <2>4. \A p \in DOMAIN disk : disk[p].size \in Nat
    BY <2>1 DEF OnDisk, Object
  <2> QED
    BY <2>1, <2>2, <2>3, <2>4
<1>4. /\ KindOf[NodeBelow(o, c)] # "dir" /\ Len(c) <= MaxDepth /\ Absent \notin Nodes
      /\ DOMAIN disk \subseteq Below(o)
      /\ \A p \in DOMAIN disk : disk[p].size = BytesOf(NodeBelow(o, p)) /\ Len(p) <= MaxDepth
                                /\ disk[p].kind = KindOf[NodeBelow(o, p)]
  BY <1>1, <1>2, TreeAssumption DEF Gathered, Mirrored
<1> HIDE DEF file, name
<1>5. CASE (file = Absent \/ KindOf[file] # "file") /\ Abandon("policy")
  <2>1. KindOf[NodeBelow(o, c)] \notin {"dir", "file"}
    BY <1>2, <1>4, <1>5 DEF file, OpenFile, OpenAt
  <2>2. ~Copyable(o)
    BY <1>2, <2>1 DEF Copyable
  <2>3. step' = "policy" /\ step' \notin CopySteps
    BY <1>5 DEF Abandon, CopySteps
  <2> QED
    BY <2>2, <2>3 DEF Refused, o
<1>6. CASE file # Absent /\ KindOf[file] = "file" /\ sizes[file] > RemainingBytes /\ Abandon("limit")
  <2>1. file = NodeBelow(o, c) /\ BytesOf(NodeBelow(o, c)) = sizes[file]
    BY <1>2, <1>6 DEF file, OpenFile, OpenAt, BytesOf
  <2>2. sizes[file] \in Nat
    BY <1>2, <1>6, <2>1 DEF Standing
  <2>3. Weight(disk) - 0 + BytesOf(NodeBelow(o, c)) <= BytesBelow(o) /\ Weight(disk) \in Nat /\ BytesBelow(o) \in Nat
    <3>1. \A p \in DOMAIN disk \ {c} : disk[p].size = BytesOf(NodeBelow(o, p))
      BY <1>4
    <3> HIDE DEF c
    <3> QED
      BY <1>2, <1>3, <1>4, <3>1, Weighed
  <2>4. ~(BytesBelow(o) <= MaxExtractedSize)
    BY <1>3, <1>6, <2>1, <2>2, <2>3, MaterialiseConstants DEF RemainingBytes
  <2>5. step' = "limit" /\ step' \notin CopySteps
    BY <1>6 DEF Abandon, CopySteps
  <2> QED
    BY <2>4, <2>5 DEF Refused, Copyable, o
<1>7. CASE /\ file # Absent /\ KindOf[file] = "file"
           /\ disk' = WithFile(c, 0, Append(Source.node, file))
           /\ walk' = [walk EXCEPT !.file = file]
           /\ step' = "read" /\ UNCHANGED <<job, at, table, stats>>
  <2>1. file = NodeBelow(o, c) /\ file \in Nodes
    BY <1>2, <1>7 DEF file, OpenFile, OpenAt
  <2>2. /\ walk'.queue = walk.queue /\ walk'.names = walk.names /\ walk'.file = file
        /\ DOMAIN disk' = DOMAIN disk \cup {c}
        /\ disk'[c].kind = "file" /\ disk'[c].size = 0
        /\ \A p \in DOMAIN disk : disk'[p] = disk[p]
        /\ step' = "read" /\ stats' = stats
    BY <1>2, <1>7 DEF Walker, WithFile, Made
  <2>3. step' \in Busy /\ Current(walk') = c /\ Head(walk'.queue) = Source
    BY <1>2, <2>2 DEF Current, Busy
  <2> HIDE DEF c
  <2>4. Mirrored(o, disk', step', walk')
    <3>1. sizes[file] \in Nat
      BY <1>7, <2>1 DEF Standing
    <3>2. disk'[c].kind = KindOf[NodeBelow(o, c)]
      BY <1>7, <2>1, <2>2
    <3>3. \A p \in DOMAIN disk' :
            /\ p \in Below(o) /\ Len(p) <= MaxDepth
            /\ disk'[p].kind = KindOf[NodeBelow(o, p)]
            /\ disk'[p].size = BytesOf(NodeBelow(o, p)) \/ p = c
      BY <1>2, <1>4, <2>2, <3>2
    <3>4. walk'.file = NodeBelow(o, c) /\ disk'[c].size <= sizes[walk'.file]
      BY <2>1, <2>2, <3>1
    <3> QED
      BY <2>2, <2>3, <3>3, <3>4 DEF Mirrored
  <2>5. InLine(o, walk')
    BY <1>1, <2>2 DEF Gathered, InLine
  <2>6. NamesLeft(o, disk', step', walk')
    <3>1. NamesLeft(o, disk, step, walk)
      BY <1>1 DEF Gathered
    <3>2. ASSUME NEW i \in 1 .. Len(walk.names)
          PROVE  (Append(path, walk.names[i]) \in DOMAIN disk') <=> (i = 1)
      <4>1. CASE i = 1
        <5>1. Append(path, walk.names[i]) = c
          BY <1>2, <4>1 DEF c, ChildPath, name
        <5> QED
          BY <2>2, <4>1, <5>1
      <4>2. CASE i # 1
        <5>1. Append(path, walk.names[i]) \notin DOMAIN disk /\ walk.names[i] # name
          BY <1>1, <1>2, <3>1, <4>2 DEF NamesLeft
        <5>2. walk.names[i] \in STRING
          BY <1>2
        <5>3. Append(path, walk.names[i]) # c
          BY <1>2, <5>1, <5>2, SamePaths DEF c, ChildPath, name
        <5> QED
          BY <2>2, <4>2, <5>1, <5>3
      <4> QED
        BY <4>1, <4>2
    <3> QED
      BY <1>1, <1>2, <2>2, <2>3, <3>1, <3>2 DEF NamesLeft
  <2>7. Visited(o, disk', step', walk', stats')
    <3>1. Visited(o, disk, step, walk, stats)
      BY <1>1 DEF Gathered
    <3>2. NodeBelow(o, c) \notin Dirs
      BY <1>4 DEF Dirs
    <3>3. ASSUME NEW p \in DOMAIN disk' \cup {<<>>}, NodeBelow(o, p) \in Dirs
          PROVE  \/ \A n \in DOMAIN entries[NodeBelow(o, p)] : Append(p, n) \in DOMAIN disk'
                 \/ \E i \in 1 .. Len(walk.queue) : walk.queue[i].path = p
      <4>1. p \in DOMAIN disk \cup {<<>>}
        BY <2>2, <3>2, <3>3
      <4> QED
        BY <2>2, <3>1, <3>3, <4>1 DEF Visited
    <3>4. ASSUME NEW i \in 1 .. Len(walk.queue), i # 1, NEW n \in STRING
          PROVE  Append(walk.queue[i].path, n) \notin DOMAIN disk'
      <4>1. Append(walk.queue[i].path, n) \notin DOMAIN disk
        BY <3>1, <3>4 DEF Visited
      <4>2. walk.queue[i].path # path
        BY <1>1, <1>2, <3>4 DEF Gathered, InLine
      <4>5. Standpoint(walk.queue[i])
        BY <1>1, <3>4 DEF Copying, Underway
      <4>3. walk.queue[i].path \in Seq(STRING)
        BY <4>5 DEF Standpoint, Opening
      <4> DEFINE other == walk.queue[i].path
      <4> HIDE DEF other
      <4>6. c = Append(path, Head(walk.names)) /\ Head(walk.names) \in STRING
        BY <1>2 DEF c, ChildPath, name
      <4>4. Append(other, n) # c
        BY <1>2, <4>2, <4>3, <4>6, SamePaths DEF other
      <4> QED
        BY <2>2, <4>1, <4>4 DEF other
    <3>5. \/ Len(walk.names) + stats.files > MaxExtractedFiles + 1
          \/ \A n \in DOMAIN entries[NodeBelow(o, path)] :
               Append(path, n) \in DOMAIN disk' \/ \E i \in 1 .. Len(walk.names) : walk.names[i] = n
      BY <1>1, <1>2, <2>2, <3>1 DEF Visited
    <3>6. (IF step' = "entry" THEN 0 ELSE 1) = 1
      BY <2>2
    <3> QED
      BY <2>2, <2>3, <3>3, <3>4, <3>5, <3>6 DEF Visited
  <2>8. Measured(disk', step', stats')
    <3>1. \A p \in DOMAIN disk : disk'[p].size = disk[p].size
      BY <2>2
    <3>6. Cardinality(DOMAIN disk') = Cardinality(DOMAIN disk) + 1 /\ Weight(disk') = Weight(disk)
      BY <1>2, <1>3, <2>2, <3>1, EmptyObjectMore
    <3>7. stats'.files = Cardinality(DOMAIN disk') + 0 /\ step' # "file"
      BY <1>3, <2>2, <3>6
    <3> QED
      BY <1>3, <2>2, <3>6, <3>7 DEF Measured
  <2>9. Gathered(o, disk', step', walk', stats') /\ Refused(step')
    BY <1>2, <2>2, <2>4, <2>5, <2>6, <2>7, <2>8 DEF Gathered, Refused
  <2> QED
    BY <2>9 DEF o
<1> QED
  BY <1>5, <1>6, <1>7 DEF OpenCopiedFile, file, name

\* A file is read to its end, and is then complete.
LEMMA GatheredFile ==
  ASSUME Standing, Copying, Gathered(NodeAt(Sought), disk, step, walk, stats), CopyFile
  PROVE  /\ step' \in CopySteps => Gathered(NodeAt(Sought), disk', step', walk', stats')
         /\ Refused(step')
<1> DEFINE o == NodeAt(Sought)
           c == ChildPath
           path == Source.path
<1> HIDE DEF o
<1>1. /\ step = "read" /\ step \in CopySteps /\ step \in Busy /\ walk.names # <<>> /\ walk.queue # <<>>
      /\ Gathered(o, disk, step, walk, stats)
  BY DEF CopyFile, CopySteps, Busy, Copying, Underway, o
<1>2. /\ o \in Dirs /\ walk \in Walker /\ walk.names \in Seq(STRING)
      /\ Source = walk.queue[1] /\ Head(walk.queue) = Source /\ SourceNode = NodeBelow(o, path)
      /\ Current(walk) = c /\ Head(walk.names) = walk.names[1] /\ 1 \in 1 .. Len(walk.names)
      /\ c \in Below(o) /\ c \in DOMAIN disk
  BY <1>1, CurrentLies DEF Busy, Source
<1>3. /\ disk = [p \in DOMAIN disk |-> disk[p]] /\ disk[c] \in Object
      /\ \A p \in DOMAIN disk : disk[p].size \in Nat
      /\ IsFiniteSet(DOMAIN disk) /\ Cardinality(DOMAIN disk) \in Nat
      /\ stats.files = Cardinality(DOMAIN disk) /\ stats.bytes = Weight(disk) /\ stats \in [files : Nat, bytes : Nat]
  <2>1. OnDisk(disk) /\ stats \in [files : Nat, bytes : Nat]
    BY DEF Copying, Copied
  <2>2. IsFiniteSet(DOMAIN disk) /\ Cardinality(DOMAIN disk) \in Nat
    BY <2>1, FS_CardinalityType DEF OnDisk
  <2>3. stats.files = Cardinality(DOMAIN disk) + 0 /\ stats.bytes = Weight(disk)
    BY <1>1 DEF Gathered, Measured
  <2>4. \A p \in DOMAIN disk : disk[p] \in Object /\ disk[p].size \in Nat
    BY <2>1 DEF OnDisk, Object
  <2> QED
    BY <1>2, <2>1, <2>2, <2>3, <2>4 DEF OnDisk
<1>4. /\ walk.file = NodeBelow(o, c) /\ BytesOf(NodeBelow(o, c)) = sizes[walk.file]
      /\ disk[c].size <= sizes[walk.file] /\ sizes[walk.file] \in Nat
      /\ \A p \in DOMAIN disk : /\ p \in Below(o) /\ Len(p) <= MaxDepth
                                /\ disk[p].kind = KindOf[NodeBelow(o, p)]
                                /\ disk[p].size = BytesOf(NodeBelow(o, p)) \/ p = c
  <2>1. walk.file \in Nodes /\ KindOf[walk.file] = "file"
    BY <1>1 DEF Copying, Underway
  <2> QED
    BY <1>1, <1>2, <2>1 DEF Gathered, Mirrored, BytesOf, Standing
<1>5. InLine(o, walk) /\ NamesLeft(o, disk, step, walk) /\ Visited(o, disk, step, walk, stats)
  BY <1>1 DEF Gathered
<1>6. CASE Unread = 0 /\ Proceed("entry", [walk EXCEPT !.names = Tail(@)])
  <2>1. /\ step' = "entry" /\ walk'.queue = walk.queue /\ walk'.names = Tail(walk.names)
        /\ disk' = disk /\ stats' = stats /\ step' \in Busy
    BY <1>2, <1>6 DEF Proceed, Walker, Busy
  <2>2. disk[c].size = BytesOf(NodeBelow(o, c))
    BY <1>2, <1>3, <1>4, <1>6 DEF Unread
  <2> HIDE DEF c
  <2>3. /\ Len(Tail(walk.names)) = Len(walk.names) - 1 /\ Len(walk.names) \in Nat \ {0}
        /\ \A i \in 1 .. Len(Tail(walk.names)) :
             Tail(walk.names)[i] = walk.names[i + 1] /\ i + 1 \in 1 .. Len(walk.names) /\ i + 1 # 1
    BY <1>1, <1>2, HeadTailProperties
  <2> DEFINE names == Tail(walk.names)
  <2> HIDE DEF names
  <2>4. Mirrored(o, disk', step', walk') /\ InLine(o, walk') /\ Measured(disk', step', stats')
    <3>1. stats'.files = Cardinality(DOMAIN disk') + 0 /\ step' # "file" /\ step' # "read"
      BY <1>3, <2>1
    <3> QED
      BY <1>3, <1>4, <1>5, <2>1, <2>2, <3>1 DEF Mirrored, InLine, Measured
  <2>5. NamesLeft(o, disk', step', walk')
    <3>1. ASSUME NEW i \in 1 .. Len(names), NEW j \in 1 .. Len(names), names[i] = names[j] PROVE i = j
      <4>1. walk.names[i + 1] = walk.names[j + 1] /\ i + 1 \in 1 .. Len(walk.names) /\ j + 1 \in 1 .. Len(walk.names)
        BY <2>3, <3>1 DEF names
      <4>2. i + 1 = j + 1
        BY <1>1, <1>5, <4>1 DEF NamesLeft
      <4> QED
        BY <4>2
    <3>2. ASSUME NEW i \in 1 .. Len(names)
          PROVE  names[i] \in DOMAIN entries[NodeBelow(o, path)] /\ Append(path, names[i]) \notin DOMAIN disk
      <4>1. names[i] = walk.names[i + 1] /\ i + 1 \in 1 .. Len(walk.names) /\ i + 1 # 1
        BY <2>3 DEF names
      <4> QED
        BY <1>1, <1>2, <1>5, <4>1 DEF NamesLeft
    <3> QED
      BY <1>2, <2>1, <3>1, <3>2 DEF NamesLeft, names
  <2>6. Visited(o, disk', step', walk', stats')
    <3>1. \/ Len(names) + stats.files > MaxExtractedFiles
          \/ \A n \in DOMAIN entries[NodeBelow(o, path)] :
               Append(path, n) \in DOMAIN disk \/ \E i \in 1 .. Len(names) : names[i] = n
      <4>1. CASE Len(walk.names) + stats.files > MaxExtractedFiles + 1
        BY <1>3, <2>3, <4>1, MaterialiseConstants DEF names
      <4>2. CASE \A n \in DOMAIN entries[NodeBelow(o, path)] :
                   Append(path, n) \in DOMAIN disk \/ \E i \in 1 .. Len(walk.names) : walk.names[i] = n
        <5> SUFFICES ASSUME NEW n \in DOMAIN entries[NodeBelow(o, path)], Append(path, n) \notin DOMAIN disk
                     PROVE  \E i \in 1 .. Len(names) : names[i] = n
          OBVIOUS
        <5>1. PICK i \in 1 .. Len(walk.names) : walk.names[i] = n
          BY <4>2
        <5>2. i # 1
          BY <1>2, <5>1 DEF c, ChildPath
        <5>3. i - 1 \in 1 .. Len(names) /\ (i - 1) + 1 = i
          BY <2>3, <5>1, <5>2 DEF names
        <5> QED
          BY <2>3, <5>1, <5>3 DEF names
      <4> QED
        BY <1>1, <1>2, <1>5, <4>1, <4>2 DEF Visited
    <3>2. (IF step' = "entry" THEN 0 ELSE 1) = 0 /\ MaxExtractedFiles + 0 = MaxExtractedFiles
      BY <2>1, MaterialiseConstants
    <3> QED
      BY <1>1, <1>2, <1>5, <2>1, <3>1, <3>2 DEF Visited, names
  <2>7. Gathered(o, disk', step', walk', stats') /\ Refused(step')
    BY <1>2, <2>1, <2>4, <2>5, <2>6 DEF Gathered, Refused
  <2> QED
    BY <2>7 DEF o
<1>7. CASE Unread # 0 /\ RemainingBytes = 0 /\ Abandon("limit")
  <2>1. disk[c].size < BytesOf(NodeBelow(o, c)) /\ disk[c].size \in Nat /\ BytesOf(NodeBelow(o, c)) \in Nat
    BY <1>2, <1>3, <1>4, <1>7 DEF Unread
  <2>2. Weight(disk) - disk[c].size + BytesOf(NodeBelow(o, c)) <= BytesBelow(o) /\ BytesBelow(o) \in Nat
    <3>1. \A p \in DOMAIN disk \ {c} : disk[p].size = BytesOf(NodeBelow(o, p))
      BY <1>4
    <3>2. DOMAIN disk \subseteq Below(o)
      BY <1>4
    <3> HIDE DEF c
    <3> QED
      BY <1>2, <1>3, <3>1, <3>2, Weighed
  <2>3. ~(BytesBelow(o) <= MaxExtractedSize)
    BY <1>3, <1>7, <2>1, <2>2, MaterialiseConstants DEF RemainingBytes
  <2>4. step' = "limit" /\ step' \notin CopySteps
    BY <1>7 DEF Abandon, CopySteps
  <2> QED
    BY <2>3, <2>4 DEF Refused, Copyable, o
<1>8. CASE \E n \in 1 .. Unread :
             /\ disk' = [disk EXCEPT ![c].size = @ + n]
             /\ stats' = CountBytes(stats, n)
             /\ UNCHANGED <<job, step, at, table, walk>>
  <2>1. PICK n \in 1 .. Unread :
             /\ disk' = [disk EXCEPT ![c].size = @ + n]
             /\ stats' = CountBytes(stats, n)
             /\ UNCHANGED <<job, step, at, table, walk>>
    BY <1>8
  <2>2. n \in Nat /\ disk[c].size + n <= sizes[walk.file] /\ disk[c].size \in Nat
    BY <1>2, <1>3, <1>4 DEF Unread
  <2> HIDE DEF c
  <2>3. /\ DOMAIN disk' = DOMAIN disk /\ disk'[c].kind = disk[c].kind /\ disk'[c].size = disk[c].size + n
        /\ \A p \in DOMAIN disk \ {c} : disk'[p] = disk[p]
        /\ stats'.files = stats.files /\ stats'.bytes = stats.bytes + n /\ step' = step /\ walk' = walk
    BY <1>2, <1>3, <2>1 DEF CountBytes, Object
  <2>4. Mirrored(o, disk', step', walk')
    BY <1>1, <1>2, <1>4, <2>2, <2>3 DEF Mirrored
  <2>5. InLine(o, walk') /\ NamesLeft(o, disk', step', walk') /\ Visited(o, disk', step', walk', stats')
    BY <1>5, <2>3 DEF InLine, NamesLeft, Visited
  <2>6. Measured(disk', step', stats')
    <3>1. /\ DOMAIN disk' = DOMAIN disk /\ c \in DOMAIN disk /\ n \in Nat
          /\ \A p \in DOMAIN disk \ {c} : disk'[p].size = disk[p].size
          /\ disk'[c].size = disk[c].size + n
      BY <1>2, <2>2, <2>3
    <3>3. Weight(disk') = Weight(disk) + n
      BY <1>3, <3>1, GrownObject
    <3>4. Weight(disk') = stats'.bytes
      BY <1>3, <2>3, <3>3
    <3>5. stats'.files = Cardinality(DOMAIN disk') + 0 /\ step' # "file"
      BY <1>1, <1>3, <2>3
    <3> QED
      BY <3>4, <3>5 DEF Measured
  <2>7. Gathered(o, disk', step', walk', stats') /\ Refused(step')
    BY <1>1, <1>2, <2>3, <2>4, <2>5, <2>6 DEF Gathered, Refused
  <2> QED
    BY <2>7 DEF o
<1> QED
  BY <1>6, <1>7, <1>8 DEF CopyFile

\* What has been copied when there is nothing more to do is all there is: of what
\* is missing, the highest would be an entry of a directory that is not.
LEMMA CopiedAll ==
  ASSUME Standing, Copying, step = "done", NEW o, Gathered(o, disk, step, walk, stats)
  PROVE  /\ Copyable(o) /\ DOMAIN disk = Below(o) /\ BytesOnDisk = BytesBelow(o)
         /\ \A p \in Below(o) : disk[p].kind = KindOf[NodeBelow(o, p)]
<1>1. /\ o \in Dirs /\ o \in Reached /\ o # Absent /\ KindOf[o] = "dir"
      /\ OnDisk(disk) /\ stats \in [files : Nat, bytes : Nat]
      /\ stats.files <= MaxExtractedFiles /\ stats.bytes <= MaxExtractedSize
      /\ Cardinality(DOMAIN disk) + 0 = stats.files /\ Weight(disk) = stats.bytes
  BY TreeAssumption DEF Gathered, Dirs, Reached, Copying, Copied, Measured
<1>2. \A p \in DOMAIN disk :
        /\ p \in Below(o) /\ Len(p) <= MaxDepth
        /\ disk[p].kind = KindOf[NodeBelow(o, p)] /\ disk[p].size = BytesOf(NodeBelow(o, p))
        /\ disk[p].kind \in {"dir", "file"}
  BY <1>1 DEF Gathered, Mirrored, OnDisk, Object
<1>3. \A p \in DOMAIN disk \cup {<<>>} :
        NodeBelow(o, p) \in Dirs => \A n \in DOMAIN entries[NodeBelow(o, p)] : Append(p, n) \in DOMAIN disk
  <2>1. \A i \in 1 .. Len(walk.queue) : FALSE
    BY DEF Gathered
  <2> QED
    BY <2>1 DEF Gathered, Visited
<1>4. Below(o) \subseteq DOMAIN disk
  <2> DEFINE missing == Below(o) \ DOMAIN disk
             lengths == {Len(p) : p \in missing}
  <2> SUFFICES ASSUME missing # {} PROVE FALSE
    OBVIOUS
  <2>1. \A p \in missing : p \in Below(o) /\ p \notin DOMAIN disk /\ Len(p) \in Nat
    BY <1>1, BelowIs, MaterialiseConstants
  <2> HIDE DEF missing
  <2>2. lengths \in SUBSET Nat /\ lengths # {}
    BY <2>1
  <2>3. PICK k \in lengths : \A m \in lengths : ~(m < k)
    BY <2>2, SmallestNumber
  <2>4. PICK p \in missing : Len(p) = k
    BY <2>3
  <2> HIDE DEF lengths
  <2> DEFINE above == SubSeq(p, 1, Len(p) - 1)
             name == p[Len(p)]
  <2>5. /\ p = Append(above, name) /\ Len(above) = Len(p) - 1
        /\ above = <<>> \/ above \in Below(o)
        /\ NodeBelow(o, above) \in Dirs /\ name \in DOMAIN entries[NodeBelow(o, above)]
    BY <1>1, <2>1, EntryAbove
  <2> HIDE DEF above, name
  <2>6. above \in DOMAIN disk \cup {<<>>}
    <3> SUFFICES ASSUME above \in missing PROVE FALSE
      BY <2>5 DEF missing
    <3>1. Len(above) \in lengths
      BY DEF lengths
    <3> QED
      BY <2>1, <2>3, <2>4, <2>5, <3>1
  <2> QED
    BY <1>3, <2>1, <2>5, <2>6
<1>5. DOMAIN disk = Below(o)
  BY <1>2, <1>4
<1>6. BytesOnDisk = BytesBelow(o) /\ Weight(disk) = BytesOnDisk
  <2>1. [p \in DOMAIN disk |-> disk[p].size] = [p \in Below(o) |-> BytesOf(NodeBelow(o, p))]
    BY <1>2, <1>5
  <2> QED
    BY <2>1 DEF BytesOnDisk, BytesBelow, SumFunction, Weight
<1>7. Cardinality(Below(o)) <= MaxExtractedFiles /\ BytesBelow(o) <= MaxExtractedSize
  <2>1. Cardinality(DOMAIN disk) \in Nat
    BY <1>1, FS_CardinalityType DEF OnDisk
  <2> QED
    BY <1>1, <1>5, <1>6, <2>1
<1> QED
  BY <1>1, <1>2, <1>5, <1>6, <1>7 DEF Copyable

\* A copy of a tree that nobody changes.
Faithful ==
  /\ Sourced(step, walk, stats) /\ Refused(step)
  /\ step \in CopySteps => Gathered(NodeAt(Sought), disk, step, walk, stats)

\* A copy begins with nothing found.
LEMMA FaithfulInit == LocalInit => Faithful
  BY DEF LocalInit, Faithful, Sourced, Refused, CopySteps

\* Each step of a copy tells the truth about a tree that stays as it is.
LEMMA FaithfulStep ==
  ASSUME Standing, Copying, Faithful, LocalNext, UNCHANGED treeVars
  PROVE  Faithful'
<1> DEFINE o == NodeAt(Sought)
<1>0. Sourced(step, walk, stats) /\ (step \in CopySteps => Gathered(o, disk, step, walk, stats))
  BY DEF Faithful
<1>1. /\ Sourced(step', walk', stats') /\ Refused(step')
      /\ step' \in CopySteps => Gathered(o, disk', step', walk', stats')
  <2>1. CASE CanonicalSource \/ CanonicalRoot \/ ResolveWay
    BY <1>0, <2>1, SoughtStep
  <2>2. CASE OpenSource
    BY <1>0, <2>2, SourceOpened
  <2>3. CASE ListDirectory
    <3>1. step = "list" /\ step' \in {"done", "entry"} /\ Refused(step')
      BY <2>3 DEF ListDirectory, Proceed, Refused
    <3>2. walk'.opened = walk.opened /\ walk'.way = walk.way /\ walk'.source = walk.source
      BY <2>3 DEF ListDirectory, Proceed, Copying, Located, Walker
    <3> QED
      BY <1>0, <2>3, <3>1, <3>2, GatheredListed, SourcedKept DEF CopySteps
  <2>4. CASE DirectoryCopied
    <3>1. step = "entry" /\ step' = "list" /\ Refused(step')
      BY <2>4 DEF DirectoryCopied, Proceed, Refused
    <3>2. walk'.opened = walk.opened /\ walk'.way = walk.way /\ walk'.source = walk.source
      BY <2>4 DEF DirectoryCopied, Proceed, Copying, Located, Walker
    <3> QED
      BY <1>0, <2>4, <3>1, <3>2, GatheredDirectory, SourcedKept DEF CopySteps
  <2>5. CASE CopyEntry \/ OpenCopiedFile \/ CopyFile
    <3>1. step \in CopySteps
      BY <2>5 DEF CopyEntry, OpenCopiedFile, CopyFile, CopySteps
    <3>2. /\ step' \in CopySteps => Gathered(o, disk', step', walk', stats')
          /\ Refused(step')
      BY <1>0, <2>5, <3>1, GatheredEntry, GatheredOpen, GatheredFile
    <3>3. /\ step' \in CopySteps \cup Errors
          /\ walk'.opened = walk.opened /\ walk'.way = walk.way /\ walk'.source = walk.source
      <4>1. walk \in Walker
        BY DEF Copying, Located
      <4>2. CASE CopyEntry
        BY <4>1, <4>2 DEF CopyEntry, Abandon, CheckLimits, CopySteps, Errors, Walker
      <4>3. CASE OpenCopiedFile
        BY <4>1, <4>3 DEF OpenCopiedFile, Abandon, CopySteps, Errors, Walker
      <4>4. CASE CopyFile
        BY <4>1, <4>4 DEF CopyFile, Proceed, Abandon, CopySteps, Errors, Walker
      <4> QED
        BY <2>5, <4>2, <4>3, <4>4
    <3> QED
      BY <1>0, <3>1, <3>2, <3>3, SourcedKept
  <2>6. CASE SnapshotExpires
    <3>1. step' = "deadline" /\ step' \in Errors /\ step' \notin CopySteps /\ Refused(step')
      BY <2>6 DEF SnapshotExpires, Abandon, Errors, CopySteps, Refused
    <3> QED
      BY <3>1 DEF Sourced, CopySteps
  <2> QED
    BY <2>1, <2>2, <2>3, <2>4, <2>5, <2>6 DEF LocalNext
<1>2. job' = job
  BY DEF LocalNext, CanonicalSource, CanonicalRoot, ResolveWay, OpenSource, ListDirectory, DirectoryCopied,
         CopyEntry, OpenCopiedFile, CopyFile, SnapshotExpires, Abandon, Proceed, Refuse, Fails
<1>3. /\ entries' = entries /\ sizes' = sizes /\ Sought' = Sought
      /\ Canonicalize(job.declared)' = Canonicalize(job.declared)
      /\ \A node : Copyable(node)' = Copyable(node)
  BY <1>2, SameTree
<1>4. Sourced(step, walk, stats)' <=> Sourced(step', walk', stats')
  BY <1>3, SMT DEF Sourced, OnTheWay, NodeAt, NodeBelow, Inside, Lookup
<1>5. Refused(step)' <=> Refused(step')
  BY <1>2, <1>3, SMT DEF Refused, NodeAt, NodeBelow, Inside, Lookup
<1>6. Gathered(NodeAt(Sought), disk, step, walk, stats)' <=> Gathered(NodeAt(Sought), disk', step', walk', stats')
  BY <1>3, SMT DEF Gathered, Mirrored, InLine, NamesLeft, Visited, Measured, Below, Names, BytesOf,
                   NodeAt, NodeBelow, Inside, Lookup
<1> QED
  BY <1>1, <1>4, <1>5, <1>6 DEF Faithful

\* Nothing changes when nothing is done.
LEMMA FaithfulKept ==
  ASSUME Faithful, UNCHANGED confinementVars
  PROVE  Faithful'
<1>1. UNCHANGED treeVars /\ job' = job /\ step' = step /\ walk' = walk /\ stats' = stats /\ disk' = disk
  BY DEF confinementVars, materialiseVars
<1>2. /\ entries' = entries /\ sizes' = sizes /\ Sought' = Sought
      /\ Canonicalize(job.declared)' = Canonicalize(job.declared)
      /\ \A node : Copyable(node)' = Copyable(node)
  BY <1>1, SameTree
<1>3. Sourced(step, walk, stats)' <=> Sourced(step, walk, stats)
  BY <1>1, <1>2, SMT DEF Sourced, OnTheWay, NodeAt, NodeBelow, Inside, Lookup
<1>4. Refused(step)' <=> Refused(step)
  BY <1>1, <1>2, SMT DEF Refused, NodeAt, NodeBelow, Inside, Lookup
<1>5. Gathered(NodeAt(Sought), disk, step, walk, stats)' <=> Gathered(NodeAt(Sought), disk, step, walk, stats)
  BY <1>1, <1>2, SMT DEF Gathered, Mirrored, InLine, NamesLeft, Visited, Measured, Below, Names, BytesOf,
                         NodeAt, NodeBelow, Inside, Lookup
<1> QED
  BY <1>1, <1>3, <1>4, <1>5 DEF Faithful

\* As long as nobody changes the tree.
Undisturbed == changed \in Nat /\ (job.kind = "local" /\ changed = 0 => Copying /\ Faithful)

\* A tree that nobody has changed has been copied as it is; once changed, it
\* counts as changed.
LEMMA UndisturbedStep == Confining /\ Undisturbed /\ [ConfinementNext]_confinementVars => Undisturbed'
<1> SUFFICES ASSUME Confining, Undisturbed, [ConfinementNext]_confinementVars PROVE Undisturbed'
  OBVIOUS
<1>1. Confining' /\ (Reading' => job'.kind = "manifest") /\ changed \in Nat
  BY ConfiningStep, ReadsAssumption DEF Reading, Undisturbed
<1>2. job'.kind = "local" => Copying'
  BY <1>1 DEF Confining
<1>3. CASE job.kind = "local" /\ LocalNext /\ UNCHANGED treeVars
  <2>1. changed' = changed
    BY <1>3 DEF treeVars
  <2>2. changed = 0 => Faithful'
    BY <1>3, FaithfulStep DEF Undisturbed, Confining
  <2> QED
    BY <1>1, <1>2, <2>1, <2>2 DEF Undisturbed
<1>4. CASE job.kind = "manifest" /\ ReadNext /\ UNCHANGED treeVars
  <2>1. Reading
    BY <1>4, RequestsAssumption DEF Confining, Copying
  <2>2. Reading'
    <3>1. Standing /\ held' = held
      BY <1>4 DEF Confining, treeVars
    <3> QED
      BY <1>4, <2>1, <3>1, ReadingStep
  <2>3. job'.kind # "local" /\ changed' = changed
    BY <1>1, <1>4, <2>2 DEF treeVars
  <2> QED
    BY <1>1, <2>3 DEF Undisturbed
<1>5. CASE OthersChange
  <2>1. changed' = changed + 1 /\ changed' \in Nat /\ changed' # 0
    BY <1>1, <1>5 DEF OthersChange, Replace, Grow
  <2> QED
    BY <2>1 DEF Undisturbed
<1>6. CASE UNCHANGED confinementVars
  <2>1. job' = job /\ changed' = changed
    BY <1>6 DEF confinementVars, materialiseVars, treeVars
  <2> QED
    BY <1>1, <1>2, <1>6, <2>1, FaithfulKept DEF Undisturbed
<1> QED
  BY <1>3, <1>4, <1>5, <1>6 DEF ConfinementNext

\* A copy of a tree that nobody changes meanwhile is the whole dependency, every
\* directory and every file of it at its size, and a dependency that is confined and
\* within the limits is not refused (fetcher/sources/local/mod.rs); for every tree,
\* every dependency, every order in which names are listed and every way in which
\* the files are read piece by piece.
THEOREM CopiesWhole == ConfinementSpec => []CopiedWhole
<1>1. ConfinementInit => Confining
  BY StandingInit, CopyingInit, ReadingInit DEF ConfinementInit, Confining
<1>2. ConfinementInit => Undisturbed
  <2> SUFFICES ASSUME ConfinementInit PROVE Undisturbed
    OBVIOUS
  <2>1. changed = 0 /\ Standing
    BY StandingInit DEF ConfinementInit, TreeInit
  <2>2. LocalInit => Copying /\ Faithful
    BY <2>1, CopyingInit, FaithfulInit
  <2>3. ReadInit => job.kind # "local"
    BY ReadsAssumption DEF ReadInit
  <2> QED
    BY <2>1, <2>2, <2>3 DEF ConfinementInit, Undisturbed
<1>3. Confining /\ Undisturbed => CopiedWhole
  <2> SUFFICES ASSUME Standing, Copying, Faithful PROVE CopiedWhole
    BY DEF Confining, Undisturbed, CopiedWhole
  <2>1. step = "done" => /\ Copyable(NodeAt(Sought)) /\ DOMAIN disk = Below(NodeAt(Sought))
                         /\ \A p \in Below(NodeAt(Sought)) : disk[p].kind = KindOf[NodeBelow(NodeAt(Sought), p)]
                         /\ BytesOnDisk = BytesBelow(NodeAt(Sought))
    BY CopiedAll DEF Faithful, CopySteps
  <2> QED
    BY <2>1 DEF CopiedWhole, Faithful, Refused, Sought
<1> QED
  BY <1>1, <1>2, <1>3, ConfiningStep, UndisturbedStep, PTL DEF ConfinementSpec
==============================================================================
