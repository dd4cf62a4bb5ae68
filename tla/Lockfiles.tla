----------------------------- MODULE Lockfiles -----------------------------
(***************************************************************************)
(* The families of lockfiles side by side.  A directory may have           *)
(* manifests of each of them; they share no state.                         *)
(***************************************************************************)
EXTENDS NpmLocks, PythonLocks, DenoLocks

LockfilesSpec == NpmSpec /\ PythonSpec /\ DenoSpec

\* All three families of lockfiles: what a declaration is bound to is what its
\* lockfile records for it, in the place it is loaded from and with the
\* digests that belong to it, whichever other places, records, redirects and
\* lockfiles there are.  What each family excepts is named with it: the
\* directories passed over in package-lock.json and the commits of
\* pnpm-lock.yaml (BoundAsLoaded), the digests Poetry and PDM record for another
\* URL (DirectDigests) (manifests/npm, manifests/python/lockfiles,
\* manifests/deno/lockfile.rs).
LocksBindWhatTheyRecord ==
  LockBindsWhatIsLoaded /\ PythonBoundAsRecorded /\ DenoBoundAsRecorded
=============================================================================
