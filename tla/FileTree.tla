------------------------------ MODULE FileTree ------------------------------
(***************************************************************************)
(* A directory tree that other processes change while the program walks    *)
(* it, and the walk itself: one name at a time, each relative to the       *)
(* directory opened before it and never through a link.                    *)
(* src/fetcher/filesystem/unix.rs and src/manifests/shared/rooted_fs.rs.   *)
(* A node is a file, a directory or a link; an open directory stays the    *)
(* same node whatever becomes of its name.                                 *)
(***************************************************************************)
EXTENDS Integers, SequencesExt, FiniteSetsExt, Functions, TLC

CONSTANTS
  KindOf,      \* "dir", "file", "link" or "fifo", for each node
  TargetOf,    \* the path a link names
  Trees,       \* the trees considered: names and their nodes, per directory
  Sizes,       \* bytes of each file at the beginning
  Changes,     \* what others may do: <<directory, name, node, or absent>>
  MaxChanges   \* bound on the number of changes

Nodes == DOMAIN KindOf

Dirs == {n \in Nodes : KindOf[n] = "dir"}

Top == "top"

Absent == "absent"

\* A file system has finitely many objects, directories list them by their
\* names, and what links name is given from the top.
ASSUME TreeAssumption ==
  /\ IsFiniteSet(Nodes) /\ Top \in Dirs /\ Absent \in STRING \ Nodes
  /\ TargetOf \in [{n \in Nodes : KindOf[n] = "link"} -> Seq(STRING)]
  /\ Sizes \in [{n \in Nodes : KindOf[n] = "file"} -> Nat]
  /\ \A t \in Trees : DOMAIN t = Dirs
  /\ \A t \in Trees, d \in Dirs :
       /\ IsFiniteSet(DOMAIN t[d]) /\ DOMAIN t[d] \subseteq STRING \ {Absent}
       /\ \A n \in DOMAIN t[d] : t[d][n] \in Nodes
  /\ \A c \in Changes : c[1] \in Dirs /\ c[2] \in STRING \ {Absent} /\ c[3] \in Nodes \cup {Absent}

VARIABLES
  entries,  \* the present tree
  sizes,    \* the present sizes
  held,     \* every <<directory, name, node>> that has been an entry so far
  changed,  \* the number of changes so far
  walk      \* what the walk has opened, and the names before it

treeVars == <<entries, sizes, held, changed>>

Held(tree) == UNION {{<<d, n, tree[d][n]>> : n \in DOMAIN tree[d]} : d \in DOMAIN tree}

TreeInit ==
  /\ entries \in Trees /\ sizes = Sizes
  /\ held = Held(entries) /\ changed = 0

\* Another process renames something over a name, or removes it.
Replace ==
  /\ changed < MaxChanges
  /\ \E c \in Changes :
       /\ entries' = [entries EXCEPT ![c[1]] =
                        IF c[3] = Absent THEN [n \in DOMAIN @ \ {c[2]} |-> @[n]]
                        ELSE [n \in DOMAIN @ \cup {c[2]} |-> IF n = c[2] THEN c[3] ELSE @[n]]]
       /\ entries' # entries
  /\ held' = held \cup Held(entries')
  /\ changed' = changed + 1
  /\ UNCHANGED sizes

Grow ==
  /\ changed < MaxChanges
  /\ \E f \in DOMAIN sizes : sizes' = [sizes EXCEPT ![f] = @ + 1]
  /\ changed' = changed + 1
  /\ UNCHANGED <<entries, held>>

OthersChange == Replace \/ Grow

-----------------------------------------------------------------------------
(* System calls.                                                           *)

Lookup(dir, name) == IF name \in DOMAIN entries[dir] THEN entries[dir][name] ELSE Absent

\* The node at the end of a path that leads through no link.
Inside(dir, name) == IF dir \in Dirs THEN Lookup(dir, name) ELSE Absent

NodeBelow(node, path) ==
  LET below[n \in 0 .. Len(path)] == IF n = 0 THEN node ELSE Inside(below[n - 1], path[n])
  IN  below[Len(path)]

NodeAt(path) == NodeBelow(Top, path)

\* The link a path comes to, if any: nothing lies beyond one.
LinksOn(path) ==
  {i \in DOMAIN path : LET node == NodeAt(SubSeq(path, 1, i))
                       IN  node # Absent /\ KindOf[node] = "link"}

\* The path with that link replaced by what it names.
Followed(path) ==
  IF LinksOn(path) = {} THEN path
  ELSE LET i == CHOOSE j \in LinksOn(path) : TRUE
       IN  TargetOf[NodeAt(SubSeq(path, 1, i))] \o SubSeq(path, i + 1, Len(path))

\* realpath: links are followed as long as there are any, which the kernel
\* gives up after MaxLinks of them, and the path they lead to must exist.
MaxLinks == 40

Canonicalize(path) ==
  LET way[n \in 0 .. MaxLinks] == IF n = 0 THEN path ELSE Followed(way[n - 1])
      real == way[MaxLinks]
  IN  IF NodeAt(real) = Absent \/ LinksOn(real) # {} THEN <<Absent>> ELSE real

\* A slip: the last name is followed when it is a link.
OpenAtFollowing(dir, name, kinds) ==
  LET entry == Lookup(dir, name)
      node  == IF entry # Absent /\ KindOf[entry] = "link" THEN NodeAt(TargetOf[entry]) ELSE entry
  IN  IF node # Absent /\ KindOf[node] \in kinds THEN node ELSE Absent

\* openat with O_NOFOLLOW, for a directory or for anything but a link.
OpenAt(dir, name, kinds) ==
  LET node == Lookup(dir, name)
  IN  IF node # Absent /\ KindOf[node] \in kinds THEN node ELSE Absent

OpenDirectory(dir, name) == OpenAt(dir, name, {"dir"})

OpenFile(dir, name) == OpenAt(dir, name, {"dir", "file", "fifo"})

\* Only the first name of an absolute path may be a link: the directories at
\* the top belong to the system.
ResolveRootSymlink(path) ==
  IF path = <<>> THEN path
  ELSE LET first == Canonicalize(<<Head(path)>>)
       IN  IF first = <<Absent>> THEN first ELSE first \o Tail(path)

\* The next directory on the way of the walk.
Arrived == Len(walk.opened) = Len(walk.way) + 1

NextName == walk.way[Len(walk.opened)]

NextDirectory == OpenDirectory(Last(walk.opened), NextName)

\* The nodes of a walk are entries of one another, as they were when each
\* was opened, and none is a link.
Chain(way, nodes) ==
  /\ Len(nodes) = Len(way) + 1
  /\ \A i \in DOMAIN way : <<nodes[i], way[i], nodes[i + 1]>> \in held
  /\ \A i \in DOMAIN nodes : KindOf[nodes[i]] # "link"
=============================================================================
