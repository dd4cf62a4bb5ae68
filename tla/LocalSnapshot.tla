--------------------------- MODULE LocalSnapshot ---------------------------
(***************************************************************************)
(* A local dependency is copied into a private workspace before anything   *)
(* reads it: src/fetcher/sources/local/mod.rs.  Its path is made canonical *)
(* and confined to the declaring package, then the directories are opened  *)
(* one name at a time and copied in breadth, while others may rename,      *)
(* replace, remove or extend what lies there.                              *)
(***************************************************************************)
EXTENDS FileTree, Materialise

CONSTANT Requests  \* the local dependencies considered

ASSUME RequestsAssumption ==
  \A r \in Requests :
    r.kind = "local" /\ r.path \in Seq(STRING) /\ r.declared \in Seq(STRING)

LocalInit ==
  /\ job \in Requests
  /\ step = "source" /\ at = 0
  /\ table = [p \in {} |-> 0] /\ stats = NoStats /\ disk = Empty
  /\ walk = [source |-> <<>>, root |-> <<>>, way |-> <<>>, opened |-> <<Top>>,
             queue |-> <<>>, names |-> <<>>, file |-> Absent]

Refuse(error) == Fails(error) /\ UNCHANGED walk

Proceed(next, w) ==
  /\ step' = next /\ walk' = w
  /\ UNCHANGED <<job, at, table, stats, disk>>

Candidate == IF job.absolute THEN job.path ELSE job.declared \o job.path

CanonicalSource ==
  /\ step = "source"
  /\ LET source == Canonicalize(Candidate)
     IN  IF source = <<Absent>> THEN Refuse("io")
         ELSE Proceed("root", [walk EXCEPT !.source = source])

CanonicalRoot ==
  /\ step = "root"
  /\ LET root == Canonicalize(job.declared)
     IN  IF root = <<Absent>> THEN Refuse("io")
         ELSE IF ~job.trusted /\ ~IsPrefix(root, walk.source) THEN Refuse("policy")
         ELSE Proceed("resolve", [walk EXCEPT !.root = root])

Within == IsPrefix(walk.root, walk.source)

Relative == SubSeq(walk.source, Len(walk.root) + 1, Len(walk.source))

\* The declaring directory is opened from the top and the dependency from
\* there; one that is trusted elsewhere is opened from the top.
ResolveWay ==
  /\ step = "resolve"
  /\ LET start == ResolveRootSymlink(IF Within THEN walk.root ELSE walk.source)
     IN  IF start = <<Absent>> THEN Refuse(IF Within THEN "io" ELSE "policy")
         ELSE Proceed("open", [walk EXCEPT !.way = start \o (IF Within THEN Relative ELSE <<>>)])

OpenSource ==
  /\ step = "open"
  /\ IF Arrived
     THEN Proceed("list", [walk EXCEPT !.queue = << [node |-> <<Last(walk.opened)>>, path |-> <<>>] >>])
     ELSE IF NextDirectory # Absent
     THEN Proceed("open", [walk EXCEPT !.opened = Append(@, NextDirectory)])
     ELSE Refuse(IF Within /\ Len(walk.opened) + Len(Relative) <= Len(walk.way) THEN "io" ELSE "policy")

-----------------------------------------------------------------------------
(* The copy.                                                               *)

\* A copy that fails takes its workspace with it.
Abandon(error) ==
  /\ step' = error /\ disk' = Empty
  /\ UNCHANGED <<job, at, table, stats, walk>>

Source == Head(walk.queue)

SourceNode == Last(Source.node)

\* A slip: no more names than there is room for, so nothing tells that there
\* are too many.
ListingsThatFit(dir, maximum) ==
  {SubSeq(s, 1, IF Len(s) >= maximum THEN maximum - 1 ELSE Len(s)) : s \in SetToSeqs(DOMAIN entries[dir])}

\* Names come in any order, and no more than tell that there are too many.
Listings(dir, maximum) ==
  {SubSeq(s, 1, IF Len(s) > maximum THEN maximum ELSE Len(s)) : s \in SetToSeqs(DOMAIN entries[dir])}

ListDirectory ==
  /\ step = "list"
  /\ IF walk.queue = <<>> THEN Proceed("done", walk)
     ELSE \E names \in Listings(SourceNode, MaxExtractedFiles - stats.files + 1) :
            Proceed("entry", [walk EXCEPT !.names = names])

ChildPath == Append(Source.path, Head(walk.names))

NextEntry == walk.names # <<>>

DirectoryCopied ==
  /\ step = "entry" /\ ~NextEntry
  /\ Proceed("list", [walk EXCEPT !.queue = Tail(@)])

CopyEntry ==
  /\ step = "entry" /\ NextEntry
  /\ LET counted == CountObject(stats)
         child   == OpenDirectory(SourceNode, Head(walk.names))
     IN  IF Len(ChildPath) > MaxDepth THEN Abandon("policy")
         ELSE IF CheckLimits(counted) # "none" THEN Abandon(CheckLimits(counted))
         ELSE IF child # Absent
         THEN /\ disk' = Made({ChildPath}) /\ stats' = counted
              /\ walk' = [walk EXCEPT
                   !.names = Tail(@),
                   !.queue = Append(@, [node |-> Append(Source.node, child), path |-> ChildPath])]
              /\ UNCHANGED <<job, step, at, table>>
         ELSE IF Lookup(SourceNode, Head(walk.names)) = Absent THEN Abandon("policy")
         ELSE /\ step' = "file" /\ stats' = counted
              /\ UNCHANGED <<job, at, table, disk, walk>>

RemainingBytes == MaxExtractedSize - stats.bytes

OpenCopiedFile ==
  /\ step = "file"
  /\ LET file == OpenFile(SourceNode, Head(walk.names))
     IN  IF file = Absent \/ KindOf[file] # "file" THEN Abandon("policy")
         ELSE IF sizes[file] > RemainingBytes THEN Abandon("limit")
         ELSE /\ disk' = WithFile(ChildPath, 0, Append(Source.node, file))
              /\ walk' = [walk EXCEPT !.file = file]
              /\ step' = "read"
              /\ UNCHANGED <<job, at, table, stats>>

Unread == sizes[walk.file] - disk[ChildPath].size

\* The file may have grown since its size was looked at.
CopyFile ==
  /\ step = "read"
  /\ IF Unread = 0 THEN Proceed("entry", [walk EXCEPT !.names = Tail(@)])
     ELSE IF RemainingBytes = 0 THEN Abandon("limit")
     ELSE \E n \in 1 .. Unread :
            /\ n <= RemainingBytes
            /\ disk' = [disk EXCEPT ![ChildPath].size = @ + n]
            /\ stats' = CountBytes(stats, n)
            /\ UNCHANGED <<job, step, at, table, walk>>

SnapshotExpires == step \notin Errors \cup {"done", "idle"} /\ Abandon("deadline")

LocalNext ==
  \/ CanonicalSource \/ CanonicalRoot \/ ResolveWay \/ OpenSource
  \/ ListDirectory \/ DirectoryCopied \/ CopyEntry \/ OpenCopiedFile \/ CopyFile
  \/ SnapshotExpires

-----------------------------------------------------------------------------
(* What a snapshot promises.                                               *)

Names == UNION {DOMAIN entries[d] : d \in DOMAIN entries}

\* The objects below a directory, as the tree stands.
Below(node) ==
  {p \in UNION {[1 .. n -> Names] : n \in 1 .. MaxDepth + 1} : NodeBelow(node, p) # Absent}

BytesOf(node) == IF KindOf[node] = "file" THEN sizes[node] ELSE 0

BytesBelow(node) == SumFunction([p \in Below(node) |-> BytesOf(NodeBelow(node, p))])

Copyable(node) ==
  /\ node # Absent /\ KindOf[node] = "dir"
  /\ \A p \in Below(node) : KindOf[NodeBelow(node, p)] \in {"dir", "file"} /\ Len(p) <= MaxDepth
  /\ Cardinality(Below(node)) <= MaxExtractedFiles /\ BytesBelow(node) <= MaxExtractedSize

\* Whatever is renamed, replaced or extended while the copy runs: every file
\* of the snapshot was an entry of the directory it is copied under, all the
\* way up to the declaring root and to the top, with no link between.  A
\* copy that fails leaves nothing, and no copy is larger than the limits.
SnapshotConfined ==
  job.kind = "local" =>
    /\ step \in {"list", "entry", "file", "read", "done"} =>
         /\ Chain(walk.way, walk.opened)
         /\ job.trusted \/ IsPrefix(walk.root, walk.source)
    /\ \A p \in DOMAIN disk : disk[p].kind = "file" =>
         Chain(p, disk[p].content) /\ Head(disk[p].content) = Last(walk.opened)
    /\ Cardinality(DOMAIN disk) <= MaxExtractedFiles /\ BytesOnDisk <= MaxExtractedSize
    /\ step \in Errors => disk = Empty

\* Where nothing changes, the copy is the whole dependency, and what can be
\* copied and is confined is not refused.
CopiedWhole ==
  job.kind = "local" /\ changed = 0 =>
    LET source == Canonicalize(Candidate)
        node   == NodeAt(source)
    IN  /\ step = "done" =>
             /\ Copyable(node) /\ DOMAIN disk = Below(node)
             /\ \A p \in Below(node) : disk[p].kind = KindOf[NodeBelow(node, p)]
             /\ BytesOnDisk = BytesBelow(node)
        /\ step \in {"limit", "policy"} =>
             \/ ~Copyable(node)
             \/ ~job.trusted /\ ~IsPrefix(Canonicalize(job.declared), source)
=============================================================================
