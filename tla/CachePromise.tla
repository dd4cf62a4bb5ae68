---------------------------- MODULE CachePromise ----------------------------
(* What the package cache promises to the processes that share it, without     *)
(* locks, staging directories or system calls: an identity holds nothing,      *)
(* something unusable, or a complete entry of some version.  A complete entry   *)
(* appears in one step, it leaves in one step, only a live fetcher that does    *)
(* not accept it may move it aside, and only when nobody is live may it be      *)
(* wiped.                                                                       *)
CONSTANTS Fetchers, Keys, Versions, Accepted(_, _), None

VARIABLES
  store,  \* [Keys -> {None, "unusable"} \cup Versions]
  live,   \* fetchers that hold the cache open
  aside   \* [Fetchers -> an entry moved aside and not yet replaced, or None]

promiseVars == <<store, live, aside>>

Contents == {None, "unusable"} \cup Versions

PInit ==
  /\ store \in [Keys -> Contents]
  /\ live = {}
  /\ aside = [f \in Fetchers |-> None]

Join(f) ==
  /\ live' = live \cup {f}
  /\ UNCHANGED <<store, aside>>

\* An entry that was set aside when its process leaves is lost, never half there.
Leave(f) ==
  /\ live' = live \ {f}
  /\ aside' = [aside EXCEPT ![f] = None]
  /\ UNCHANGED store

SetAside(f, k) ==
  /\ f \in live
  /\ store[k] # None
  /\ ~Accepted(f, store[k])
  /\ store' = [store EXCEPT ![k] = None]
  /\ aside' \in {aside, [aside EXCEPT ![f] = store[k]]}
  /\ UNCHANGED live

Fill(f, k) ==
  /\ f \in live
  /\ store[k] = None
  /\ \E v \in Versions :
       /\ Accepted(f, v)
       /\ store' = [store EXCEPT ![k] = v]
  /\ aside' = [aside EXCEPT ![f] = None]
  /\ UNCHANGED live

\* A replacement that fails puts the old entry back, or gives it up.
PutBack(f, k) ==
  /\ f \in live
  /\ aside[f] # None
  /\ store[k] = None
  /\ store' \in {store, [store EXCEPT ![k] = aside[f]]}
  /\ aside' = [aside EXCEPT ![f] = None]
  /\ UNCHANGED live

Wipe(k) ==
  /\ live = {}
  /\ store' \in {[store EXCEPT ![k] = None], [store EXCEPT ![k] = "unusable"]}
  /\ UNCHANGED <<live, aside>>

PNext ==
  \/ \E f \in Fetchers : Join(f) \/ Leave(f)
  \/ \E f \in Fetchers, k \in Keys : SetAside(f, k) \/ Fill(f, k) \/ PutBack(f, k)
  \/ \E k \in Keys : Wipe(k)

PSpec == PInit /\ [][PNext]_promiseVars
=============================================================================
