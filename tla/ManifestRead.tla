---------------------------- MODULE ManifestRead ----------------------------
(***************************************************************************)
(* Manifests and lockfiles are read beneath directories that were opened   *)
(* when discovery began: src/manifests/shared/rooted_fs.rs.  The deepest   *)
(* active root a path lies in is the authority for it; without any root    *)
(* the path itself is opened, provided that its last name is not a link.   *)
(***************************************************************************)
EXTENDS FileTree, Materialise

CONSTANTS
  Reads,                \* the reads considered
  MaxManifestFileSize   \* the limit of the innermost scope

ASSUME ReadsAssumption ==
  /\ MaxManifestFileSize \in Nat
  /\ \A r \in Reads :
       r.kind = "manifest" /\ r.path \in Seq(STRING) /\ r.roots \in Seq(Seq(STRING))

ReadInit ==
  /\ job \in Reads
  /\ step = "roots" /\ at = 0
  /\ table = [p \in {} |-> 0] /\ stats = NoStats /\ disk = Empty
  /\ walk = [roots |-> <<>>, way |-> <<>>, opened |-> <<Top>>, root |-> <<>>, file |-> Absent, read |-> 0]

ReadFails(error) == Fails(error) /\ UNCHANGED walk

Continue(next, w) ==
  /\ step' = next /\ walk' = w
  /\ UNCHANGED <<job, at, table, stats, disk>>

\* ".." takes the name before it away, whatever that name is.
Stepping(way, name) ==
  IF name = "." THEN way
  ELSE IF name = ".." THEN (IF way = <<>> THEN way ELSE Front(way))
  ELSE Append(way, name)

AbsoluteLexical(path) ==
  LET way[n \in 0 .. Len(path)] == IF n = 0 THEN <<>> ELSE Stepping(way[n - 1], path[n])
  IN  way[Len(path)]

Path == AbsoluteLexical(job.path)

ResolveRoot ==
  /\ step = "roots" /\ at < Len(job.roots)
  /\ LET way == ResolveRootSymlink(AbsoluteLexical(job.roots[at + 1]))
     IN  IF way = <<Absent>> THEN ReadFails("io")
         ELSE Continue("root", [walk EXCEPT !.way = way, !.opened = <<Top>>])

OpenRoot ==
  /\ step = "root" /\ ~Arrived
  /\ IF NextDirectory = Absent THEN ReadFails("io")
     ELSE Continue("root", [walk EXCEPT !.opened = Append(@, NextDirectory)])

ActivateRoot ==
  /\ step = "root" /\ Arrived
  /\ walk' = [walk EXCEPT !.roots = Append(@, [path |-> AbsoluteLexical(job.roots[at + 1]),
                                               nodes |-> walk.opened, way |-> walk.way])]
  /\ step' = "roots" /\ at' = at + 1
  /\ UNCHANGED <<job, table, stats, disk>>

Authorities == {i \in DOMAIN walk.roots : IsPrefix(walk.roots[i].path, Path)}

\* The deepest, and of several that are equal the last.
Authority ==
  CHOOSE i \in Authorities : \A j \in Authorities :
    \/ Len(walk.roots[j].path) < Len(walk.roots[i].path)
    \/ Len(walk.roots[j].path) = Len(walk.roots[i].path) /\ j <= i

RootedPath ==
  /\ step = "roots" /\ at = Len(job.roots) /\ walk.roots # <<>>
  /\ IF Authorities = {} THEN ReadFails("manifest")
     ELSE LET root == walk.roots[Authority]
          IN  IF root.path = Path THEN ReadFails("manifest")
              ELSE Continue("beneath",
                     [walk EXCEPT !.root = root.path,
                                  !.way = SubSeq(Path, Len(root.path) + 1, Len(Path)),
                                  !.opened = <<Last(root.nodes)>>])

OpenBeneath ==
  /\ step = "beneath" /\ Len(walk.opened) < Len(walk.way)
  /\ IF NextDirectory = Absent THEN ReadFails("io")
     ELSE Continue("beneath", [walk EXCEPT !.opened = Append(@, NextDirectory)])

OpenManifest ==
  /\ step = "beneath" /\ Len(walk.opened) = Len(walk.way)
  /\ LET file == OpenFile(Last(walk.opened), NextName)
     IN  IF file = Absent THEN ReadFails("io")
         ELSE Continue("opened", [walk EXCEPT !.opened = Append(@, file), !.file = file])

\* Without a root the directories of the path may be links.
NodeOf(path) ==
  LET dir == NodeAt(Canonicalize(Front(path)))
  IN  IF Canonicalize(Front(path)) = <<Absent>> \/ dir = Absent \/ KindOf[dir] # "dir" THEN Absent
      ELSE Lookup(dir, Last(path))

RejectSymlink ==
  /\ step = "roots" /\ at = Len(job.roots) /\ walk.roots = <<>>
  /\ IF NodeOf(job.path) = Absent THEN ReadFails("io")
     ELSE IF KindOf[NodeOf(job.path)] = "link" THEN ReadFails("manifest")
     ELSE Continue("unlinked", walk)

OpenUnrooted ==
  /\ step = "unlinked"
  /\ IF NodeOf(job.path) = Absent \/ KindOf[NodeOf(job.path)] = "link" THEN ReadFails("io")
     ELSE Continue("opened", [walk EXCEPT !.file = NodeOf(job.path)])

\* The size is looked at once and the file may grow: no more is read than
\* tells that it is too large.
InspectManifest ==
  /\ step = "opened"
  /\ IF KindOf[walk.file] # "file" \/ sizes[walk.file] > MaxManifestFileSize THEN ReadFails("manifest")
     ELSE Continue("read", walk)

ReadManifest ==
  /\ step = "read" /\ walk.read < sizes[walk.file] /\ walk.read <= MaxManifestFileSize
  /\ \E n \in walk.read + 1 .. sizes[walk.file] :
       /\ n <= MaxManifestFileSize + 1
       /\ Continue("read", [walk EXCEPT !.read = n])

EndOfManifest ==
  /\ step = "read" /\ (walk.read = sizes[walk.file] \/ walk.read > MaxManifestFileSize)
  /\ IF walk.read > MaxManifestFileSize THEN ReadFails("manifest") ELSE Continue("done", walk)

ReadNext ==
  \/ ResolveRoot \/ OpenRoot \/ ActivateRoot \/ RootedPath \/ OpenBeneath \/ OpenManifest
  \/ RejectSymlink \/ OpenUnrooted \/ InspectManifest \/ ReadManifest \/ EndOfManifest

-----------------------------------------------------------------------------
(* What a read promises.                                                   *)

\* Whatever is renamed, replaced or extended meanwhile: what is read beneath
\* active roots is a regular file reached from the directory that was opened
\* as its deepest root, through directories and by its own names; the root
\* was reached from the top the same way; and a text is never longer than
\* the limit.  Where nothing changes, a text is the whole file.
ReadConfined ==
  job.kind = "manifest" =>
    /\ \A i \in DOMAIN walk.roots : Chain(walk.roots[i].way, walk.roots[i].nodes)
    /\ step \in {"read", "done"} =>
         /\ KindOf[walk.file] = "file"
         /\ walk.roots # <<>> =>
              /\ walk.root \o walk.way = Path /\ Chain(walk.way, walk.opened)
              /\ walk.file = Last(walk.opened)
              /\ \E r \in Range(walk.roots) :
                   /\ r.path = walk.root /\ Last(r.nodes) = Head(walk.opened)
                   /\ \A other \in Range(walk.roots) :
                        IsPrefix(other.path, Path) => Len(other.path) <= Len(r.path)
    /\ step = "done" => walk.read <= MaxManifestFileSize
    /\ step = "done" /\ changed = 0 => walk.read = sizes[walk.file]
=============================================================================
