--------------------------- MODULE MCBatchAnalysis ---------------------------
\* Instances of BatchAnalysis for TLC.
EXTENDS BatchAnalysis, MCTraversal

\* Two roots that share declarations; the first one is part of a cycle.
MCRoots == <<At("r1", None), At("r2", None)>>

\* Graphs over two roots with the edges of the single-root runs.
MCProjects == SUBSET {1, 2, 3, 5, 7, 8, 9, 12, 13, 14}
                \cup {{1, 12, 16, 17, 18, 19}, {1, 15, 19, 12}}

MCLimits == {Limit(1, 4), Limit(3, 4), Limit(4, 2), Limit(4, 4), Limit(6, 4)}
==============================================================================
