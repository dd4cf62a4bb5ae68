-------------------------- MODULE MCSingleAnalysis --------------------------
\* Instances of SingleAnalysis for TLC.
EXTENDS SingleAnalysis, MCTraversal

\* Every subset of ten of the declarations, and two projects whose
\* dependencies are ignored, unresolved, refused or unreadable.
MCProjects == SUBSET ((1..11) \ {7}) \cup {{1, 16, 17, 18, 19}, {1, 15, 16, 19}}

MCLimits == {Limit(0, 4), Limit(1, 4), Limit(4, 4), Limit(5, 1), Limit(5, 4)}

\* The root was fetched, without a digest of its own (a GitHub commit, say).
FetchedRoot == At("r1", None)
==============================================================================
