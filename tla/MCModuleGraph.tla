---------------------------- MODULE MCModuleGraph ----------------------------
(* Instances of ModuleGraph for TLC: four URLs, one of another origin, and texts *)
(* that import in a chain, in a cycle, too much, or what is not supported.       *)
EXTENDS ModuleGraph

MCUrls == {"r", "x", "y", "z"}

MCContents == {"main", "loop", "leaf", "wide", "bare"}
MCImports ==
    [c \in MCContents |->
        CASE c = "main" -> <<"x", "y">>
          [] c = "loop" -> <<"r", "y">>
          [] c = "wide" -> <<"x", "y", "z">>
          [] c = "bare" -> None
          [] OTHER -> <<>>]
MCBytes == [c \in MCContents |-> IF c = "wide" THEN 2 ELSE 1]
MCOrigin == [u \in MCUrls |-> IF u = "z" THEN "other" ELSE "own"]

\* u :> v, or nothing where the table says None.
Table(r, x, y, z) ==
    [u \in MCUrls |-> CASE u = "r" -> r [] u = "x" -> x [] u = "y" -> y [] u = "z" -> z]

\* The lockfile binds each URL or not, and declares no redirect, one, a chain or a
\* cycle.
MCLockfiles ==
    {[integrity |-> Table(r, x, y, z), redirects |-> redirects] :
        r \in {"main", "wide", None}, x \in {"leaf", "loop", None},
        y \in {"leaf", None}, z \in {"leaf", None},
        redirects \in {Table(None, None, None, None), Table(None, "z", None, None),
                       Table("x", None, None, None), Table(None, "y", "z", None),
                       Table(None, "y", "x", None)}}
    \cup {None}

MCPolicies == {MCUrls, MCUrls \ {"z"}}
==============================================================================
