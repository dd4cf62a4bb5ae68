---------------------------- MODULE SharedFetches ----------------------------
(***************************************************************************)
(* Acquisitions of one process side by side (fetcher/acquisition.rs,       *)
(* fetcher/orchestration.rs, fetcher/sources/npm).  Dependencies with one   *)
(* identity take turns under a fetch lock and share the first completed     *)
(* result; remote roots go past both.  All share the npm metadata           *)
(* documents, each requested under a lock of its own and kept in a cache    *)
(* bounded by its bytes.  Every acquisition has a deadline of its own, in   *)
(* discrete time.  What a lookup of the disk cache finds, and whether a     *)
(* download succeeds, is left open here: see CacheStore.                    *)
(***************************************************************************)
EXTENDS Naturals, FiniteSets, Functions

CONSTANTS
    Tasks,          \* tasks of the process, one acquisition each
    Identities,     \* acquisition identities
    Documents,      \* npm metadata URLs
    DocumentBytes,  \* the size of each document
    MetadataLimit,  \* MAX_CACHED_NPM_METADATA_BYTES
    Dependencies,   \* what a task may be asked to acquire
    Duration,       \* max_acquisition_duration
    LastStart,      \* bound: no acquisition starts later
    None

\* `resolve` is the document an unlocked npm dependency is resolved with,
\* `locate` the one that gives a locked Deno `npm:` dependency its artifact URL;
\* `root` marks fetch_remote_root.
Dependency ==
    [identity: Identities, resolve: Documents \cup {None},
     locate: Documents \cup {None}, root: BOOLEAN]

ASSUME FetchAssumption ==
    /\ None \notin Tasks \cup Documents
    /\ DocumentBytes \in [Documents -> Nat]
    /\ MetadataLimit \in Nat
    /\ Dependencies \subseteq Dependency
    /\ Duration \in Nat \ {0}
    /\ LastStart \in Nat

VARIABLES
    now,        \* the clock
    pc,         \* where each task is
    dependency, \* what it acquires
    stage,      \* what its metadata document is for
    deadline,   \* when its budget ends
    docLock,    \* npm_metadata_locks: who holds the lock of a document
    docs,       \* npm_metadata.documents
    bytes,      \* npm_metadata.bytes
    fetchLock,  \* fetch_locks: who holds the lock of an identity
    completed,  \* completed_fetches: the task whose result an identity has
    workspace,  \* the private workspace a task created
    result      \* the task whose workspace a finished acquisition points into

vars == <<now, pc, dependency, stage, deadline, docLock, docs, bytes,
          fetchLock, completed, workspace, result>>

Finished == {"done", "failed"}
WantsDocument == {"document", "await-doc", "request"}
\* States in which the acquisition looks at its deadline before it goes on.
Checked == {"request", "resolved", "await-fetch", "lookup", "acquire", "download", "finish"}
States == {"idle", "document", "await-doc"} \cup Checked \cup Finished

Identity(t) == dependency[t].identity
\* The metadata document the task wants next.
Document(t) == IF stage[t] = "resolve" THEN dependency[t].resolve ELSE dependency[t].locate
InTime(t) == now < deadline[t]

TypeOK ==
    /\ now \in Nat
    /\ pc \in [Tasks -> States]
    /\ dependency \in [Tasks -> Dependencies \cup {None}]
    /\ \A t \in Tasks : pc[t] # "idle" => dependency[t] \in Dependencies
    /\ \A t \in Tasks : pc[t] \in WantsDocument => Document(t) \in Documents
    /\ stage \in [Tasks -> {"resolve", "locate"}]
    /\ deadline \in [Tasks -> Nat]
    /\ docLock \in [Documents -> Tasks \cup {None}]
    /\ docs \subseteq Documents
    /\ fetchLock \in [Identities -> Tasks \cup {None}]
    /\ completed \in [Identities -> Tasks \cup {None}]
    /\ workspace \in [Tasks -> {"none", "temporary", "retained", "removed"}]
    /\ result \in [Tasks -> Tasks \cup {None}]

Init ==
    /\ now = 0
    /\ pc = [t \in Tasks |-> "idle"]
    /\ dependency = [t \in Tasks |-> None]
    /\ stage = [t \in Tasks |-> "resolve"]
    /\ deadline = [t \in Tasks |-> 0]
    /\ docLock = [d \in Documents |-> None]
    /\ docs = {}
    /\ bytes = 0
    /\ fetchLock = [i \in Identities |-> None]
    /\ completed = [i \in Identities |-> None]
    /\ workspace = [t \in Tasks |-> "none"]
    /\ result = [t \in Tasks |-> None]

Goto(t, state) == pc' = [pc EXCEPT ![t] = state]

Freed(lock, t) == [k \in DOMAIN lock |-> IF lock[k] = t THEN None ELSE lock[k]]

\* Mutation of Fail: the lock of the document is not released.
FailHoldingDocument(t) ==
    /\ Goto(t, "failed")
    /\ fetchLock' = Freed(fetchLock, t)
    /\ UNCHANGED docLock

\* An error: the guards of both locks are dropped on the way out.
Fail(t) ==
    /\ Goto(t, "failed")
    /\ docLock' = Freed(docLock, t)
    /\ fetchLock' = Freed(fetchLock, t)

request == <<dependency, stage, deadline>>
metadata == <<docs, bytes>>
outcome == <<workspace, result>>

\* network_budget: the deadline is set before anything else is done.
Start(t) ==
    /\ pc[t] = "idle"
    /\ now <= LastStart
    /\ \E d \in Dependencies :
          /\ dependency' = [dependency EXCEPT ![t] = d]
          /\ Goto(t, IF d.resolve = None THEN "resolved" ELSE "document")
    /\ deadline' = [deadline EXCEPT ![t] = now + Duration]
    /\ UNCHANGED <<now, stage, docLock, metadata, fetchLock, completed, outcome>>

------------------------------------------------------------------------------
(* npm_metadata_with_budget                                                 *)

\* Resolution goes on to the fetch, the artifact request to the download.
WithDocument(t) == Goto(t, IF stage[t] = "resolve" THEN "resolved" ELSE "acquire")

FindDocument(t) ==
    /\ pc[t] = "document"
    /\ Document(t) \in docs
    /\ WithDocument(t)
    /\ UNCHANGED <<now, request, docLock, metadata, fetchLock, completed, outcome>>

AwaitDocument(t) ==
    /\ pc[t] = "document"
    /\ Document(t) \notin docs
    /\ Goto(t, "await-doc")
    /\ UNCHANGED <<now, request, docLock, metadata, fetchLock, completed, outcome>>

\* The task that held the lock has put the document into the cache.
TakeDocument(t) ==
    /\ pc[t] = "await-doc"
    /\ docLock[Document(t)] = None
    /\ Document(t) \in docs
    /\ WithDocument(t)
    /\ UNCHANGED <<now, request, docLock, metadata, fetchLock, completed, outcome>>

\* Mutation of RequestDocument: the cache is not looked at again under the lock.
RequestDocumentUnseen(t) ==
    /\ pc[t] = "await-doc"
    /\ docLock[Document(t)] = None
    /\ Goto(t, "request")
    /\ docLock' = [docLock EXCEPT ![Document(t)] = t]
    /\ UNCHANGED <<now, request, metadata, fetchLock, completed, outcome>>

RequestDocument(t) ==
    /\ pc[t] = "await-doc"
    /\ docLock[Document(t)] = None
    /\ Document(t) \notin docs
    /\ Goto(t, "request")
    /\ docLock' = [docLock EXCEPT ![Document(t)] = t]
    /\ UNCHANGED <<now, request, metadata, fetchLock, completed, outcome>>

Size(documents) == SumFunctionOnSet(DocumentBytes, documents)

\* Mutation of Fits: the new document is not counted.
FitsWithout(evicted, d) == bytes - Size(evicted) <= MetadataLimit

\* cache_npm_metadata evicts one document after the other, in no order, until
\* the new one fits or none is left: the last one evicted was still needed.
Fits(evicted, d) == (bytes - Size(evicted)) + DocumentBytes[d] <= MetadataLimit

Evictable(d) ==
    {evicted \in SUBSET docs :
        /\ Fits(evicted, d) \/ evicted = docs
        /\ evicted # {} => \E last \in evicted : ~Fits(evicted \ {last}, d)}

ReceiveDocument(t) ==
    LET d == Document(t)
    IN  /\ pc[t] = "request"
        /\ InTime(t)
        /\ \E evicted \in Evictable(d) :
              /\ docs' = (docs \ evicted) \cup {d}
              /\ bytes' = (bytes - Size(evicted)) + DocumentBytes[d]
        /\ docLock' = [docLock EXCEPT ![d] = None]
        /\ WithDocument(t)
        /\ UNCHANGED <<now, request, fetchLock, completed, outcome>>

RequestFails(t) ==
    /\ pc[t] = "request"
    /\ Fail(t)
    /\ UNCHANGED <<now, request, metadata, completed, outcome>>

------------------------------------------------------------------------------
(* fetch_prepared_dependency_with_budget and fetch_remote_root              *)

\* No release satisfies the requirement, or nothing pins the dependency.
Reject(t) ==
    /\ pc[t] = "resolved"
    /\ Fail(t)
    /\ UNCHANGED <<now, request, metadata, completed, outcome>>

EnterFetch(t) ==
    /\ pc[t] = "resolved"
    /\ InTime(t)
    /\ ~dependency[t].root
    /\ Goto(t, "await-fetch")
    /\ UNCHANGED <<now, request, docLock, metadata, fetchLock, completed, outcome>>

LookupRoot(t) ==
    /\ pc[t] = "resolved"
    /\ InTime(t)
    /\ dependency[t].root
    /\ Goto(t, "lookup")
    /\ UNCHANGED <<now, request, docLock, metadata, fetchLock, completed, outcome>>

TakeCompleted(t) ==
    /\ pc[t] = "await-fetch"
    /\ InTime(t)
    /\ fetchLock[Identity(t)] = None
    /\ completed[Identity(t)] # None
    /\ result' = [result EXCEPT ![t] = completed[Identity(t)]]
    /\ Goto(t, "done")
    /\ UNCHANGED <<now, request, docLock, metadata, fetchLock, completed, workspace>>

\* Mutation of StartLookup: the completed fetches are not looked at again.
StartLookupUnseen(t) ==
    /\ pc[t] = "await-fetch"
    /\ InTime(t)
    /\ fetchLock[Identity(t)] = None
    /\ fetchLock' = [fetchLock EXCEPT ![Identity(t)] = t]
    /\ Goto(t, "lookup")
    /\ UNCHANGED <<now, request, docLock, metadata, completed, outcome>>

StartLookup(t) ==
    /\ pc[t] = "await-fetch"
    /\ InTime(t)
    /\ fetchLock[Identity(t)] = None
    /\ completed[Identity(t)] = None
    /\ fetchLock' = [fetchLock EXCEPT ![Identity(t)] = t]
    /\ Goto(t, "lookup")
    /\ UNCHANGED <<now, request, docLock, metadata, completed, outcome>>

\* cached_before: the entry was reconstructed in a workspace that is kept.
LookupHit(t) ==
    /\ pc[t] = "lookup"
    /\ InTime(t)
    /\ workspace' = [workspace EXCEPT ![t] = "retained"]
    /\ Goto(t, "finish")
    /\ UNCHANGED <<now, request, docLock, metadata, fetchLock, completed, result>>

\* The artifact request comes before the download.
LookupMiss(t) ==
    /\ pc[t] = "lookup"
    /\ InTime(t)
    /\ stage' = [stage EXCEPT ![t] = "locate"]
    /\ Goto(t, IF dependency[t].locate = None THEN "acquire" ELSE "document")
    /\ UNCHANGED <<now, dependency, deadline, docLock, metadata, fetchLock,
                   completed, outcome>>

LookupFails(t) ==
    /\ pc[t] = "lookup"
    /\ Fail(t)
    /\ UNCHANGED <<now, request, metadata, completed, outcome>>

CreateWorkspace(t) ==
    /\ pc[t] = "acquire"
    /\ InTime(t)
    /\ workspace' = [workspace EXCEPT ![t] = "temporary"]
    /\ Goto(t, "download")
    /\ UNCHANGED <<now, request, docLock, metadata, fetchLock, completed, result>>

\* The document names no artifact, or a directory cannot be made.
NoArtifact(t) ==
    /\ pc[t] = "acquire"
    /\ Fail(t)
    /\ UNCHANGED <<now, request, metadata, completed, outcome>>

\* Mutation of Download: the workspace is not kept.
DownloadUnretained(t) ==
    /\ pc[t] = "download"
    /\ InTime(t)
    /\ Goto(t, "finish")
    /\ UNCHANGED <<now, request, docLock, metadata, fetchLock, completed, outcome>>

\* publish_with_effective_source_url keeps the workspace once all is done.
Download(t) ==
    /\ pc[t] = "download"
    /\ InTime(t)
    /\ workspace' = [workspace EXCEPT ![t] = "retained"]
    /\ Goto(t, "finish")
    /\ UNCHANGED <<now, request, docLock, metadata, fetchLock, completed, result>>

\* A failed acquisition removes its workspace while it has time to.
DownloadFails(t) ==
    /\ pc[t] = "download"
    /\ InTime(t)
    /\ workspace' = [workspace EXCEPT ![t] = "removed"]
    /\ Fail(t)
    /\ UNCHANGED <<now, request, metadata, completed, result>>

Complete(t) ==
    /\ pc[t] = "finish"
    /\ InTime(t)
    /\ completed' = IF dependency[t].root THEN completed
                    ELSE [completed EXCEPT ![Identity(t)] = t]
    /\ fetchLock' = Freed(fetchLock, t)
    /\ result' = [result EXCEPT ![t] = t]
    /\ Goto(t, "done")
    /\ UNCHANGED <<now, request, docLock, metadata, workspace>>

------------------------------------------------------------------------------
(* Time                                                                     *)

\* The deadline is found to have passed; what was begun stays in the workspace
\* root, for the cleanup may not be interrupted.
Expire(t) ==
    /\ pc[t] \in Checked
    /\ ~InTime(t)
    /\ Fail(t)
    /\ UNCHANGED <<now, request, metadata, completed, outcome>>

\* Mutation of WaitsForPeer: the fetch lock is awaited without the deadline too.
WaitsForAnyLock(t) ==
    \/ pc[t] = "await-doc" /\ docLock[Document(t)] # None
    \/ pc[t] = "await-fetch" /\ fetchLock[Identity(t)] # None

\* The lock of a document is awaited without the deadline.
WaitsForPeer(t) == pc[t] = "await-doc" /\ docLock[Document(t)] # None

\* Deadlines are minutes, the steps between two checks are not: the clock does
\* not move on past the deadline of an acquisition that can take a step.
Tick ==
    /\ now < LastStart + Duration
    /\ \A t \in Tasks :
          pc[t] \notin {"idle"} \cup Finished /\ ~InTime(t) => WaitsForPeer(t)
    /\ now' = now + 1
    /\ UNCHANGED <<pc, request, docLock, metadata, fetchLock, completed, outcome>>

\* Steps that wait for nothing but the task's turn, or for a lock.
Advance(t) ==
    \/ FindDocument(t) \/ AwaitDocument(t) \/ TakeDocument(t) \/ RequestDocument(t)
    \/ Reject(t) \/ EnterFetch(t) \/ LookupRoot(t) \/ TakeCompleted(t) \/ StartLookup(t)
    \/ CreateWorkspace(t) \/ NoArtifact(t) \/ Complete(t) \/ Expire(t)

\* Steps that wait for the network, or for the disk cache and its locks.
Answer(t) ==
    \/ ReceiveDocument(t) \/ RequestFails(t)
    \/ LookupHit(t) \/ LookupMiss(t) \/ LookupFails(t)
    \/ Download(t) \/ DownloadFails(t)

Next == Tick \/ \E t \in Tasks : Start(t) \/ Advance(t) \/ Answer(t)

Spec == Init /\ [][Next]_vars

\* Time passes and the runtime polls the tasks that can go on; nobody has to
\* answer.
Fairness == WF_vars(Tick) /\ \A t \in Tasks : WF_vars(Advance(t))

FairSpec == Spec /\ Fairness

------------------------------------------------------------------------------
(* Properties                                                               *)

\* Between taking the fetch lock and leaving it.
Attempting(t) ==
    /\ pc[t] # "idle" /\ ~dependency[t].root
    /\ \/ pc[t] \in {"lookup", "acquire", "download", "finish"}
       \/ pc[t] \in WantsDocument /\ stage[t] = "locate"

\* Dependencies with one identity are attempted one at a time, and not again
\* once one attempt has succeeded (fetch_locks, completed_fetches); a wait that
\* times out and an attempt that fails in between do not let two in.
NoRepeatedWork ==
    \A t \in Tasks : Attempting(t) =>
        /\ completed[Identity(t)] = None
        /\ \A u \in Tasks \ {t} : Attempting(u) => Identity(u) # Identity(t)

\* A result handed out, now or later, is for the identity asked for and points
\* into a workspace that is kept, although failed acquisitions remove theirs.
ResultsUsable ==
    /\ \A i \in Identities : completed[i] # None =>
          workspace[completed[i]] = "retained" /\ Identity(completed[i]) = i
    /\ \A t \in Tasks : pc[t] = "done" =>
          /\ result[t] # None
          /\ workspace[result[t]] = "retained"
          /\ Identity(result[t]) = Identity(t)

\* A document is requested by one task at a time and never while it is cached.
RequestedOnce ==
    \A t \in Tasks : pc[t] = "request" =>
        /\ Document(t) \notin docs
        /\ \A u \in Tasks \ {t} : pc[u] = "request" => Document(u) # Document(t)

\* The byte count is that of the documents kept, and within the limit unless one
\* document alone exceeds it.
MetadataAccounted ==
    /\ bytes = Size(docs)
    /\ bytes <= MetadataLimit \/ Cardinality(docs) = 1

Needs(t) == {dependency[t].resolve, dependency[t].locate} \ {None}

\* An acquisition outlives its deadline only as long as another one for the same
\* document is within its own.
OverrunsOnlyBehindPeers ==
    \A t \in Tasks :
        pc[t] \notin {"idle"} \cup Finished /\ now > deadline[t] =>
            \E u \in Tasks :
                /\ pc[u] # "idle"
                /\ deadline[u] >= now
                /\ Needs(u) \cap Needs(t) # {}

\* Every acquisition ends though no request, download or lookup need ever be
\* answered, and although it may take a document's lock while it holds
\* the fetch lock of its identity.
AcquisitionsEnd == \A t \in Tasks : pc[t] # "idle" ~> pc[t] \in Finished

\* What the documentation says and the code does not do: "Each package
\* acquisition end to end" takes no longer than the limit.
EndsByDeadline ==
    \A t \in Tasks : pc[t] \notin {"idle"} \cup Finished => now <= deadline[t]
==============================================================================
