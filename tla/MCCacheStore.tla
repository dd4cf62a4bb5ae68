---------------------------- MODULE MCCacheStore ----------------------------
(* Instances of CacheStore for TLC.                                            *)
EXTENDS CacheStore, TLC

CONSTANTS f1, f2, p1, k1

\* Two fetchers of the same version.
SameVersion == [f \in Fetchers |-> "v1"]
\* Two fetchers of different versions.
TwoVersions == [f \in Fetchers |-> IF f = f1 THEN "v1" ELSE "v2"]

\* One acquisition each and one purge, or a restart or second acquisition for f1.
OneEach == [p \in Procs |-> IF p \in Fetchers THEN 2 ELSE 1]
F1Again == [p \in Procs |-> IF p = f1 THEN 3 ELSE IF p = f2 THEN 2 ELSE 1]

\* Liveness: a process that has used up its bound starts again, any number of
\* times: a fetcher that takes the lifecycle lock and lets go of it, a purge.  Only
\* acquisitions stay bounded.
StartAgain(p) ==
  /\ pc[p] = "down"
  /\ left[p] = 0
  /\ left' = [left EXCEPT ![p] = 1]
  /\ UNCHANGED <<pc, key, expired, outcome, stg, qtn, lockVars, diskVars>>

LiveNext == Next \/ \E p \in Procs : StartAgain(p)

\* f2 may stop being scheduled anywhere, f1 may not.
LiveSpec == Init /\ [][LiveNext]_vars /\ Fairness({f2} \cap Fetchers)

\* An acquisition ends although a peer hangs while it holds the entry lock: every
\* wait on a peer is bounded by the acquisition's own deadline.
AcquisitionEnds ==
  \A f \in Fetchers \ {f2} : pc[f] \in Acquiring ~> pc[f] \notin Acquiring

\* A fetcher that waits for the shared lifecycle lock gets it, however many purges
\* follow each other and whatever its peer does.
StartEnds ==
  \A f \in Fetchers \ {f2} : pc[f] = "life" ~> pc[f] # "life"

\* A purge that started ends, if time and again no fetcher is live.
PurgeEnds ==
  ([]<>(\A f \in Fetchers : ~Live(f)))
    => \A p \in Purgers : pc[p] # "down" ~> pc[p] = "down"

\* Who waits for whom, where nobody looks at a deadline
\* (fetcher/cache/storage/lifecycle.rs, locks.rs).  An acquisition waits for its
\* own deadline at most, a fetcher's start for purges only, and both end.  A purge
\* waits for fetchers: it ends if there are moments, time and again, at which none
\* is live.  Nothing is promised to a purge beside a fetcher that hangs, or beside
\* fetchers that overlap forever, each started before the last one is dropped.
NobodyWaitsForever == AcquisitionEnds /\ StartEnds /\ PurgeEnds
=============================================================================
