----------------------------- MODULE MCTraversal -----------------------------
(***************************************************************************)
(* A small dependency graph for the traversal runs: the declarations its   *)
(* packages may make.  A project is any subset of them, so the runs cover  *)
(* every graph with these edges: shared dependencies, cycles through the   *)
(* root and through other packages, contexts found again deeper, one       *)
(* package at two directories, and two spellings of one fetch key.         *)
(***************************************************************************)
EXTENDS Traversal

Decl(source, under, key, variant, contexts) ==
    [source |-> source, under |-> under, key |-> key, variant |-> variant,
     contexts |-> contexts]

MCSources == {"r1", "r2", "a", "b", "b2", "c", "x"}
MCKeys == {"kA", "kB", "kB2", "kC", "kR1", "kX", "kIgnored", "kUnresolved", "kRefused"}

At(source, id) == [source |-> source, id |-> id]

\* b and b2 hold the same authenticated package; c and x are unverified.
MCYields ==
    [k \in MCKeys |->
        CASE k = "kA" -> At("a", "idA")
          [] k = "kB" -> At("b", "idB")
          [] k = "kB2" -> At("b2", "idB")
          [] k = "kR1" -> At("r1", None)
          [] k = "kX" -> At("x", None)
          [] OTHER -> At("c", None)]

MCDenotes == [k \in MCKeys |-> IF k = "kR1" THEN "r1" ELSE None]

MCGate ==
    [k \in MCKeys |->
        CASE k = "kIgnored" -> "ignored"
          [] k = "kUnresolved" -> "unresolved"
          [] k = "kRefused" -> "refused"
          [] OTHER -> "fetch"]

MCDeclarations == <<
    Decl("r1", "always", "kA", 1, {"l1"}),
    Decl("r1", "always", "kB", 1, {}),
    Decl("r1", "always", "kB", 2, {"l1"}),
    Decl("r1", "always", "kB2", 1, {"l2"}),
    Decl("a", "always", "kC", 1, {"l2"}),
    Decl("a", "l1", "kR1", 1, {}),
    Decl("b", "bare", "kA", 1, {}),
    Decl("b", "l1", "kB2", 1, {"l2"}),
    Decl("c", "always", "kA", 1, {"l2"}),
    Decl("a", "l2", "kB", 1, {"l1"}),
    Decl("b2", "l2", "kR1", 1, {"l2"}),
    Decl("r2", "always", "kA", 1, {"l2"}),
    Decl("r2", "always", "kB", 1, {}),
    Decl("r2", "always", "kB2", 1, {"l2"}),
    Decl("x", "always", "kA", 1, {}),
    Decl("a", "always", "kIgnored", 1, {}),
    Decl("a", "always", "kUnresolved", 1, {}),
    Decl("a", "always", "kRefused", 1, {}),
    Decl("a", "always", "kX", 1, {}) >>

Limit(packages, depth) == [packages |-> packages, depth |-> depth]
==============================================================================
