--------------------------- MODULE MCSharedFetches ---------------------------
(* Instances of SharedFetches for TLC.                                       *)
EXTENDS SharedFetches, TLC

CONSTANTS t1, t2, t3

Dep(identity, resolve, locate, root) ==
    [identity |-> identity, resolve |-> resolve, locate |-> locate, root |-> root]

\* An unlocked npm dependency, the same package as a locked Deno dependency, as
\* a remote root, and another package.
MCDependencies ==
    {Dep("a", "x", None, FALSE), Dep("a", None, "x", FALSE),
     Dep("a", "x", "x", TRUE), Dep("b", "y", None, FALSE), Dep("b", None, None, FALSE)}

\* Two documents that do not fit together, and one that does not fit alone.
MCDocumentBytes == [d \in {"x", "y"} |-> IF d = "x" THEN 2 ELSE 4]

\* No task is delayed by the scheduler: time passes only while all of them wait
\* for an answer or a lock.
Answering == {"request", "lookup", "download"}
Blocked(t) ==
    \/ pc[t] \in Answering \cup {"idle"} \cup Finished
    \/ WaitsForPeer(t)
    \/ pc[t] = "await-fetch" /\ fetchLock[Identity(t)] # None

PromptSpec == Init /\ [][Next /\ (now' # now => \A t \in Tasks : Blocked(t))]_vars

TaskSymmetry == Permutations(Tasks)
==============================================================================
