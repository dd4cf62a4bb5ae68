---------------------------- MODULE Confinement ----------------------------
(***************************************************************************)
(* The two ways of following paths in a tree that others change: copying a *)
(* local dependency (LocalSnapshot) and reading a manifest (ManifestRead). *)
(* A job is one of them.                                                   *)
(***************************************************************************)
EXTENDS LocalSnapshot, ManifestRead

confinementVars == <<materialiseVars, treeVars, walk>>

ConfinementInit == TreeInit /\ (LocalInit \/ ReadInit)

Ended == step \in Errors \cup {"done"}

ConfinementNext ==
  \/ job.kind = "local" /\ LocalNext /\ UNCHANGED treeVars
  \/ job.kind = "manifest" /\ ReadNext /\ UNCHANGED treeVars
  \/ job.kind \in {"local", "manifest"} /\ ~Ended /\ OthersChange /\ UNCHANGED <<materialiseVars, walk>>

ConfinementSpec == ConfinementInit /\ [][ConfinementNext]_confinementVars

\* Whatever is renamed, replaced or extended while a dependency is copied or a
\* manifest is read, nothing comes from outside of the directory it was
\* declared in, and nothing through a link put in place of one of its names
\* (fetcher/sources/local/mod.rs, manifests/shared/rooted_fs.rs).
NothingFromOutside == SnapshotConfined /\ ReadConfined
=============================================================================
