---------------------------- MODULE Report_proofs ----------------------------
(* Proofs about Scan and Report: whatever the order and the batches in which   *)
(* findings turn up, the gravest are kept and everything else is accounted for. *)
(* And about VersionDiff: the comparison of releases tells what has changed.    *)
EXTENDS Report, VersionDiff, Sums_proofs, SequenceTheorems

-----------------------------------------------------------------------------
(* Findings in order.                                                          *)

\* What a tree holds: findings with an identity of their own.
Identified(F) ==
  /\ \A f \in F : f.id \in Int /\ f.risk \in Int /\ f.kind \in Kinds
  /\ \A f, g \in F : f.id = g.id => f = g

OfKind(A, k) == {f \in A : f.kind = k}

\* Findings are in a line.
LEMMA AboveOrders ==
  ASSUME NEW F, Identified(F)
  PROVE  /\ \A f, g \in F : f # g => Above(f, g) \/ Above(g, f)
         /\ \A f, g \in F : ~(Above(f, g) /\ Above(g, f))
         /\ \A f, g, h \in F : Above(f, g) /\ Above(g, h) => Above(f, h)
<1>1. \A f \in F : f.id \in Int /\ f.risk \in Int
  BY DEF Identified
<1>2. ASSUME NEW f \in F, NEW g \in F, f # g PROVE Above(f, g) \/ Above(g, f)
  <2>1. f.id # g.id
    BY <1>2 DEF Identified
  <2> QED
    BY <1>1, <2>1 DEF Above
<1>3. ASSUME NEW f \in F, NEW g \in F, Above(f, g), Above(g, f) PROVE FALSE
  BY <1>1, <1>3 DEF Above
<1>4. ASSUME NEW f \in F, NEW g \in F, NEW h \in F, Above(f, g), Above(g, h) PROVE Above(f, h)
  BY <1>1, <1>4 DEF Above
<1> QED
  BY <1>2, <1>3, <1>4

Lowest(S) == CHOOSE g \in S : \A h \in S \ {g} : Above(h, g)

\* One of several findings is below all others, and only one.
LEMMA LowestFinding ==
  ASSUME NEW F, Identified(F), NEW S \in SUBSET F, IsFiniteSet(S), S # {}
  PROVE  \E g \in S : \A h \in S \ {g} : Above(h, g)
<1> DEFINE below(g) == {h \in S : Above(g, h)}
           B == {below(g) : g \in S}
<1>b. B \in SUBSET (SUBSET S) /\ B # {} /\ (\A g \in S : below(g) \in B) /\ \A T \in B : \E g \in S : T = below(g)
  OBVIOUS
<1> HIDE DEF B
<1>1. PICK T \in B : \A U \in SUBSET T : U # T => U \notin B
  BY <1>b, SmallestPart
<1>2. PICK g \in S : T = below(g)
  BY <1>b, <1>1
<1>3. ASSUME NEW h \in below(g) PROVE FALSE
  <2>1. h \in S /\ Above(g, h) /\ h \in T
    BY <1>2, <1>3
  <2>2. below(h) \subseteq T
    <3>1. \A x \in S : Above(h, x) => Above(g, x)
      BY <2>1, AboveOrders
    <3> QED
      BY <1>2, <3>1
  <2>3. h \notin below(h)
    BY <2>1, AboveOrders
  <2>4. below(h) # T /\ below(h) \in SUBSET T
    BY <2>1, <2>2, <2>3
  <2> HIDE DEF below
  <2> QED
    BY <1>1, <1>b, <2>1, <2>4
<1>4. \A h \in S : ~Above(g, h)
  BY <1>3
<1>5. \A h \in S \ {g} : Above(h, g)
  BY <1>4, AboveOrders
<1> QED
  BY <1>5

-----------------------------------------------------------------------------
(* One collection.                                                             *)

\* Of what was found the gravest, as many as there is room for.
Gravest(K, A) ==
  /\ K \subseteq A
  /\ \A f \in A \ K, g \in K : Above(g, f)
  /\ Cardinality(K) <= MaxFindings
  /\ A # K => Cardinality(K) = MaxFindings

Collections(A) == [kept : [Kinds -> SUBSET A], exceeded : SUBSET Kinds]

\* What was kept of A, and whether something was dropped.
Summary(b, A) ==
  /\ b \in Collections(A)
  /\ \A k \in Kinds : /\ Gravest(b.kept[k], OfKind(A, k))
                      /\ k \in b.exceeded <=> OfKind(A, k) # b.kept[k]

\* No findings are the summary of none.
LEMMA NothingSummarised == Summary(NoFindings, {})
<1>1. \A k : OfKind({}, k) = {}
  BY DEF OfKind
<1>2. Cardinality({}) = 0
  BY FS_EmptySet
<1>3. Gravest({}, {})
  BY <1>2, ScanConstants DEF Gravest
<1> QED
  BY <1>1, <1>3 DEF Summary, NoFindings, Collections

\* The findings K kept of A have grown by f.
GrownTo(K, A, f) ==
  LET full == K \cup {f}
  IN  /\ Cardinality(full) <= MaxFindings => Gravest(full, A \cup {f}) /\ full = A \cup {f} /\ K = A
      /\ ~(Cardinality(full) <= MaxFindings) =>
           Gravest(full \ {Lowest(full)}, A \cup {f}) /\ full \ {Lowest(full)} # A \cup {f}

\* One finding more in a collection with room, or with something to drop.
LEMMA RoomForOne ==
  ASSUME NEW F, Identified(F), NEW A \in SUBSET F, IsFiniteSet(A), NEW K, Gravest(K, A), NEW f \in F, f \notin K
  PROVE  GrownTo(K, A, f)
<1> DEFINE full == K \cup {f}
           lowest == Lowest(full)
<1>1. K \subseteq A /\ IsFiniteSet(K) /\ Cardinality(K) \in Nat /\ Cardinality(K) <= MaxFindings
  BY FS_Subset, FS_CardinalityType DEF Gravest
<1>2. IsFiniteSet(full) /\ Cardinality(full) = Cardinality(K) + 1
  BY <1>1, FS_AddElement
<1>3. MaxFindings \in Nat
  BY ScanConstants
<1>4. CASE Cardinality(full) <= MaxFindings
  <2>1. A = K
    BY <1>1, <1>2, <1>3, <1>4 DEF Gravest
  <2>2. A \cup {f} = full
    BY <2>1
  <2> QED
    BY <1>4, <2>1, <2>2 DEF Gravest, GrownTo
<1>5. CASE ~(Cardinality(full) <= MaxFindings)
  <2>1. Cardinality(K) = MaxFindings
    BY <1>1, <1>2, <1>3, <1>5
  <2>2. full \in SUBSET F /\ full # {}
    BY <1>1
  <2>3. \E g \in full : \A h \in full \ {g} : Above(h, g)
    BY <1>2, <2>2, LowestFinding
  <2>4. lowest \in full /\ \A h \in full \ {lowest} : Above(h, lowest)
    BY <2>3 DEF Lowest
  <2> HIDE DEF lowest
  <2>5. Cardinality(full \ {lowest}) = MaxFindings
    <3>1. Cardinality(full \ {lowest}) = Cardinality(full) - 1
      BY <1>2, <2>4, FS_RemoveElement
    <3> QED
      BY <1>1, <1>2, <2>1, <3>1
  <2>6. full \ {lowest} \subseteq A \cup {f} /\ lowest \in A \cup {f}
    BY <1>1, <2>4
  <2>7. ASSUME NEW x \in (A \cup {f}) \ (full \ {lowest}), NEW g \in full \ {lowest} PROVE Above(g, x)
    <3>1. CASE x = lowest
      BY <2>4, <3>1
    <3>2. CASE x # lowest
      <4>1. x \in A \ K
        BY <2>7, <3>2
      <4>2. CASE g \in K
        BY <4>1, <4>2 DEF Gravest
      <4>3. CASE g \notin K
        <5>1. g = f /\ lowest \in K /\ Above(f, lowest)
          BY <2>4, <4>3
        <5>2. Above(lowest, x)
          BY <4>1, <5>1 DEF Gravest
        <5>3. lowest \in F /\ x \in F
          BY <1>1, <4>1, <5>1
        <5> QED
          BY <5>1, <5>2, <5>3, AboveOrders
      <4> QED
        BY <4>2, <4>3
    <3> QED
      BY <3>1, <3>2
  <2>8. Gravest(full \ {lowest}, A \cup {f})
    BY <1>3, <2>5, <2>6, <2>7 DEF Gravest
  <2>9. full \ {lowest} # A \cup {f}
    BY <2>6
  <2> QED
    BY <1>5, <2>8, <2>9 DEF lowest, GrownTo
<1> QED
  BY <1>4, <1>5

\* Inserting a finding leaves a summary of what was found and of it.
LEMMA InsertSummarises ==
  ASSUME NEW F, Identified(F), NEW A \in SUBSET F, IsFiniteSet(A), NEW b, Summary(b, A), NEW f \in F
  PROVE  Summary(Insert(b, f), A \cup {f})
<1> DEFINE known  == {g \in UNION Range(b.kept) : g.id = f.id}
           others == [k \in Kinds |-> b.kept[k] \ known]
           full   == others[f.kind] \cup {f}
           lowest == Lowest(full)
<1>1. b.kept \in [Kinds -> SUBSET A] /\ b.exceeded \in SUBSET Kinds /\ b = [kept |-> b.kept, exceeded |-> b.exceeded]
  BY DEF Summary, Collections
<1>2. UNION Range(b.kept) = UNION {b.kept[k] : k \in Kinds}
  BY <1>1 DEF Range
<1>3. UNION Range(b.kept) \subseteq A
  BY <1>1, <1>2
<1>4. f.kind \in Kinds
  BY DEF Identified
<1>5. \A k \in Kinds : OfKind(A \cup {f}, k) = IF k = f.kind THEN OfKind(A, k) \cup {f} ELSE OfKind(A, k)
  BY DEF OfKind
<1>6. \A k \in Kinds : b.kept[k] \subseteq OfKind(A, k) /\ Gravest(b.kept[k], OfKind(A, k))
                       /\ (k \in b.exceeded <=> OfKind(A, k) # b.kept[k])
  BY DEF Summary, Gravest
<1>7. CASE f \in UNION Range(b.kept)
  <2>1. f \in known /\ ~Above(f, f)
    BY <1>7, AboveOrders
  <2>2. Insert(b, f) = b
    BY <2>1 DEF Insert
  <2>3. A \cup {f} = A
    BY <1>3, <1>7
  <2> QED
    BY <2>2, <2>3
<1>8. CASE f \notin UNION Range(b.kept)
  <2>1. known = {}
    BY <1>3, <1>8 DEF Identified
  <2>2. others = b.kept
    BY <1>1, <2>1
  <2>3. f \notin b.kept[f.kind] /\ full = b.kept[f.kind] \cup {f}
    BY <1>2, <1>4, <1>8, <2>2
  <2>4. Insert(b, f) = IF Cardinality(full) <= MaxFindings
                       THEN [b EXCEPT !.kept = [others EXCEPT ![f.kind] = full]]
                       ELSE [kept |-> [others EXCEPT ![f.kind] = full \ {lowest}],
                             exceeded |-> b.exceeded \cup {f.kind}]
    BY <2>1 DEF Insert, Lowest
  <2> DEFINE K == b.kept[f.kind]
             B == OfKind(A, f.kind)
  <2>5. B \in SUBSET F /\ IsFiniteSet(B) /\ Gravest(K, B) /\ f \notin K
    <3>1. B \in SUBSET A
      BY DEF OfKind
    <3> QED
      BY <1>4, <1>6, <2>3, <3>1, FS_Subset
  <2>6. /\ Cardinality(full) <= MaxFindings => Gravest(full, B \cup {f}) /\ full = B \cup {f} /\ K = B
        /\ ~(Cardinality(full) <= MaxFindings) =>
             Gravest(full \ {lowest}, B \cup {f}) /\ full \ {lowest} # B \cup {f}
    <3>1. GrownTo(K, B, f)
      <4> HIDE DEF known, others, full, lowest, K, B
      <4> QED
        BY <2>5, RoomForOne
    <3> QED
      BY <2>3, <3>1 DEF GrownTo
  <2>7. OfKind(A \cup {f}, f.kind) = B \cup {f}
    BY <1>4, <1>5
  <2> HIDE DEF known, full, lowest, B
  <2>8. \A k \in Kinds \ {f.kind} : k \in b.exceeded \cup {f.kind} <=> k \in b.exceeded
    OBVIOUS
  <2>9. ASSUME NEW L, Gravest(L, B \cup {f}), NEW e \in SUBSET Kinds, \A k \in Kinds \ {f.kind} : k \in e <=> k \in b.exceeded,
               f.kind \in e <=> L # B \cup {f}
        PROVE  Summary([kept |-> [b.kept EXCEPT ![f.kind] = L], exceeded |-> e], A \cup {f})
    <3>1. L \subseteq A \cup {f}
      BY <2>7, <2>9 DEF Gravest, OfKind
    <3>2. [b.kept EXCEPT ![f.kind] = L] \in [Kinds -> SUBSET (A \cup {f})]
      BY <1>1, <3>1
    <3>3. \A k \in Kinds : [b.kept EXCEPT ![f.kind] = L][k] = IF k = f.kind THEN L ELSE b.kept[k]
      BY <1>1
    <3>4. ASSUME NEW k \in Kinds
          PROVE  /\ Gravest([b.kept EXCEPT ![f.kind] = L][k], OfKind(A \cup {f}, k))
                 /\ k \in e <=> OfKind(A \cup {f}, k) # [b.kept EXCEPT ![f.kind] = L][k]
      <4>1. CASE k = f.kind
        BY <2>7, <2>9, <3>3, <4>1
      <4>2. CASE k # f.kind
        BY <1>5, <1>6, <2>9, <3>3, <4>2
      <4> QED
        BY <4>1, <4>2
    <3> QED
      BY <2>9, <3>2, <3>4 DEF Summary, Collections
  <2>10. CASE Cardinality(full) <= MaxFindings
    <3>1. Insert(b, f) = [kept |-> [b.kept EXCEPT ![f.kind] = full], exceeded |-> b.exceeded]
      BY <1>1, <2>2, <2>4, <2>10
    <3>2. Gravest(full, B \cup {f}) /\ full = B \cup {f}
      BY <2>6, <2>10
    <3>3. f.kind \notin b.exceeded
      BY <1>4, <1>6, <2>6, <2>10 DEF B
    <3> QED
      BY <1>1, <2>9, <3>1, <3>2, <3>3
  <2>11. CASE ~(Cardinality(full) <= MaxFindings)
    <3>1. Insert(b, f) = [kept |-> [b.kept EXCEPT ![f.kind] = full \ {lowest}], exceeded |-> b.exceeded \cup {f.kind}]
      BY <2>2, <2>4, <2>11
    <3>2. Gravest(full \ {lowest}, B \cup {f}) /\ full \ {lowest} # B \cup {f}
      BY <2>6, <2>11
    <3>3. b.exceeded \cup {f.kind} \in SUBSET Kinds /\ f.kind \in b.exceeded \cup {f.kind}
      BY <1>1, <1>4
    <3> DEFINE e == b.exceeded \cup {f.kind}
               L == full \ {lowest}
    <3>4. /\ e \in SUBSET Kinds /\ \A k \in Kinds \ {f.kind} : k \in e <=> k \in b.exceeded
          /\ Gravest(L, B \cup {f}) /\ (f.kind \in e <=> L # B \cup {f})
      BY <2>8, <3>2, <3>3
    <3>5. Insert(b, f) = [kept |-> [b.kept EXCEPT ![f.kind] = L], exceeded |-> e]
      BY <3>1
    <3> HIDE DEF e, L
    <3> QED
      BY <2>9, <3>4, <3>5
  <2> QED
    BY <2>10, <2>11
<1> QED
  BY <1>7, <1>8

\* It stays a collection, whatever it was.
LEMMA InsertCollects ==
  ASSUME NEW F, \A f \in F : f.kind \in Kinds, NEW b \in Collections(F), NEW f \in F
  PROVE  Insert(b, f) \in Collections(F)
<1> DEFINE known  == {g \in UNION Range(b.kept) : g.id = f.id}
           others == [k \in Kinds |-> b.kept[k] \ known]
           full   == others[f.kind] \cup {f}
           lowest == CHOOSE g \in full : \A h \in full \ {g} : Above(h, g)
<1>1. b.kept \in [Kinds -> SUBSET F] /\ b.exceeded \in SUBSET Kinds /\ b = [kept |-> b.kept, exceeded |-> b.exceeded]
  BY DEF Collections
<1>2. others \in [Kinds -> SUBSET F] /\ full \in SUBSET F /\ full \ {lowest} \in SUBSET F
  BY <1>1
<1>3. [others EXCEPT ![f.kind] = full] \in [Kinds -> SUBSET F]
  BY <1>2
<1>4. [others EXCEPT ![f.kind] = full \ {lowest}] \in [Kinds -> SUBSET F]
  BY <1>2
<1>5. b.exceeded \cup {f.kind} \in SUBSET Kinds
  BY <1>1
<1>6. \A k : [b EXCEPT !.kept = k] = [kept |-> k, exceeded |-> b.exceeded]
  BY <1>1
<1>7. Insert(b, f) \in {b, [b EXCEPT !.kept = [others EXCEPT ![f.kind] = full]],
                        [kept |-> [others EXCEPT ![f.kind] = full \ {lowest}], exceeded |-> b.exceeded \cup {f.kind}]}
  BY DEF Insert
<1> HIDE DEF known, others, full, lowest
<1> QED
  BY <1>1, <1>3, <1>4, <1>5, <1>6, <1>7 DEF Collections

\* What each step summarises, the last one does.
LEMMA SummaryAlong ==
  ASSUME NEW n \in Nat, NEW h, NEW A, Summary(h[0], A[0]),
         \A i \in 1 .. n : Summary(h[i - 1], A[i - 1]) => Summary(h[i], A[i])
  PROVE  Summary(h[n], A[n])
<1> DEFINE S == {i \in 0 .. n : Summary(h[i], A[i])}
           g == [i \in 0 .. n |-> i]
<1>1. g[0] \in S /\ \A i \in 1 .. n : g[i - 1] \in S => g[i] \in S
  OBVIOUS
<1>2. \A i \in 0 .. n : g[i] \in S
  <2> HIDE DEF g, S
  <2> QED
    BY <1>1, IterationStays
<1> QED
  BY <1>2

\* Findings are inserted one after the other.
LEMMA InsertRuns ==
  ASSUME NEW F, \A f \in F : f.kind \in Kinds, NEW b \in Collections(F), NEW fs \in Seq(F)
  PROVE  \E h : /\ h \in [0 .. Len(fs) -> Collections(F)] /\ h[0] = b
                /\ \A i \in 1 .. Len(fs) : h[i] = Insert(h[i - 1], fs[i])
                /\ InsertAll(b, fs) = h[Len(fs)]
<1> DEFINE n == Len(fs)
           C == Collections(F)
           f == [x \in (1 .. n) \X C |-> Insert(x[2], fs[x[1]])]
           Runs(h) == h = [i \in 0 .. n |-> IF i = 0 THEN b ELSE Insert(h[i - 1], fs[i])]
           h == CHOOSE g : Runs(g)
<1>1. n \in Nat
  OBVIOUS
<1>b. \A i \in 1 .. n : fs[i] \in F
  OBVIOUS
<1>2. \A i \in 1 .. n : \A c \in C : Insert(c, fs[i]) \in C
  BY <1>b, InsertCollects
<1>3. \A i \in 1 .. n : \A c \in C : f[<<i, c>>] = Insert(c, fs[i])
  OBVIOUS
<1>4. Steady(f, C, n)
  <2> HIDE DEF f, n, C
  <2> QED
    BY <1>2, <1>3 DEF Steady
<1>5. InsertAll(b, fs) = h[n]
  BY Zenon DEF InsertAll
<1> HIDE DEF f, n, C
<1>c. b \in C
  BY DEF C
<1>6. PICK g : Looped(f, C, n, b, g)
  BY <1>1, <1>c, <1>4, IterationExists
<1>7. \A i \in 0 .. n : g[i] = IF i = 0 THEN b ELSE Insert(g[i - 1], fs[i])
  <2> TAKE i \in 0 .. n
  <2>1. CASE i = 0
    BY <1>6, <2>1 DEF Looped
  <2>2. CASE i # 0
    <3>1. i \in 1 .. n /\ g[i - 1] \in C
      BY <1>1, <1>6, <2>2 DEF Looped
    <3> QED
      BY <1>3, <1>6, <2>2, <3>1 DEF Looped
  <2> QED
    BY <2>1, <2>2
<1>8. Runs(g)
  BY <1>6, <1>7 DEF Looped
<1>9. Runs(h)
  BY <1>8, Zenon
<1> HIDE DEF h
<1>10. h[0] = b /\ (\A i \in 1 .. n : h[i] = Insert(h[i - 1], fs[i])) /\ h = [i \in 0 .. n |-> h[i]]
  <2>1. h = [i \in 0 .. n |-> IF i = 0 THEN b ELSE Insert(h[i - 1], fs[i])]
    BY <1>9
  <2>2. h[0] = b /\ \A i \in 1 .. n : h[i] = Insert(h[i - 1], fs[i])
    BY <1>1, <2>1
  <2>3. DOMAIN h = 0 .. n
    BY <2>1
  <2> QED
    BY <2>1, <2>2, <2>3
<1>11. h[0] \in C /\ \A i \in 1 .. n : h[i - 1] \in C => h[i] \in C
  BY <1>2, <1>c, <1>10
<1>12. \A i \in 0 .. n : h[i] \in C
  BY <1>1, <1>11, IterationStays
<1>13. h \in [0 .. n -> C]
  BY <1>10, <1>12
<1> QED
  BY <1>5, <1>10, <1>13 DEF n, C

\* Inserting findings one after the other leaves a collection of findings.
LEMMA InsertAllCollects ==
  ASSUME NEW F, \A f \in F : f.kind \in Kinds, NEW b \in Collections(F), NEW fs \in Seq(F)
  PROVE  InsertAll(b, fs) \in Collections(F)
<1>1. Len(fs) \in 0 .. Len(fs)
  OBVIOUS
<1> QED
  BY <1>1, InsertRuns

\* What comes first in a sequence.
Firsts(xs, i) == {xs[j] : j \in 1 .. i}

\* The first i of a sequence are the first i - 1 and the one after them.
LEMMA FirstsGrow ==
  ASSUME NEW xs, NEW i \in Nat \ {0}
  PROVE  Firsts(xs, 0) = {} /\ Firsts(xs, i) = Firsts(xs, i - 1) \cup {xs[i]}
BY DEF Firsts

\* The first i of a sequence are finitely many.
LEMMA FirstsFinite ==
  ASSUME NEW xs, NEW i \in Nat
  PROVE  IsFiniteSet(Firsts(xs, i))
<1> DEFINE g == [j \in 1 .. i |-> xs[j]]
<1>1. IsFiniteSet(1 .. i)
  BY FS_Interval
<1>2. g \in Surjection(1 .. i, Firsts(xs, i))
  BY DEF Surjection, Firsts
<1> QED
  BY <1>1, <1>2, FS_Surjection

\* A summary stays one while findings are inserted, of those before and those
\* inserted.
LEMMA InsertAllSummarises ==
  ASSUME NEW F, Identified(F), NEW A \in SUBSET F, IsFiniteSet(A), NEW b, Summary(b, A), NEW fs \in Seq(F)
  PROVE  Summary(InsertAll(b, fs), A \cup Range(fs))
<1> DEFINE n == Len(fs)
           G == [i \in 0 .. n |-> A \cup Firsts(fs, i)]
<1>1. n \in Nat /\ (\A i \in 1 .. n : fs[i] \in F) /\ Range(fs) = Firsts(fs, n)
  BY DEF Firsts, Range
<1>2. b \in Collections(F) /\ \A f \in F : f.kind \in Kinds
  BY DEF Summary, Collections, Identified
<1>3. PICK h : /\ h[0] = b /\ \A i \in 1 .. n : h[i] = Insert(h[i - 1], fs[i])
               /\ InsertAll(b, fs) = h[n]
  BY <1>2, InsertRuns
<1>4. \A i \in 0 .. n : G[i] \in SUBSET F /\ IsFiniteSet(G[i])
  <2> TAKE i \in 0 .. n
  <2>2. IsFiniteSet(Firsts(fs, i))
    BY FirstsFinite
  <2>3. Firsts(fs, i) \subseteq F
    BY <1>1 DEF Firsts
  <2> QED
    BY <2>2, <2>3, FS_Union
<1>5. G[0] = A /\ \A i \in 1 .. n : i - 1 \in 0 .. n /\ G[i] = G[i - 1] \cup {fs[i]}
  BY <1>1, FirstsGrow
<1>6. G[n] = A \cup Range(fs)
  BY <1>1
<1> HIDE DEF n, G
<1>7. ASSUME NEW i \in 1 .. n, Summary(h[i - 1], G[i - 1]) PROVE Summary(h[i], G[i])
  <2>1. h[i] = Insert(h[i - 1], fs[i]) /\ fs[i] \in F /\ i - 1 \in 0 .. n
    BY <1>1, <1>3, <1>5
  <2>2. G[i - 1] \in SUBSET F /\ IsFiniteSet(G[i - 1])
    BY <1>4, <2>1
  <2> QED
    BY <1>5, <1>7, <2>1, <2>2, InsertSummarises
<1>8. Summary(h[0], G[0])
  BY <1>3, <1>5
<1>9. Summary(h[n], G[n])
  BY <1>1, <1>7, <1>8, SummaryAlong
<1> QED
  BY <1>3, <1>6, <1>9

-----------------------------------------------------------------------------
(* Files and batches.                                                          *)

\* What the rules in force find in a file is summarised by its worker.
FileIn(F, e) ==
  /\ e.matches \in Seq(Range(e.matches))
  /\ \A x \in Range(e.matches) : Finding(x) \in F

Look(b, x) == IF IsFinding(x) THEN Insert(b, Finding(x)) ELSE b

\* The findings of a file are inserted match by match.
LEMMA FileRuns ==
  ASSUME NEW F, \A f \in F : f.kind \in Kinds, NEW e, FileIn(F, e)
  PROVE  \E h : /\ h \in [0 .. Len(e.matches) -> Collections(F)] /\ h[0] = NoFindings
                /\ \A i \in 1 .. Len(e.matches) : h[i] = Look(h[i - 1], e.matches[i])
                /\ ScanFile(e) = h[Len(e.matches)]
<1> DEFINE xs == e.matches
           n == Len(xs)
           C == Collections(F)
           f == [x \in (1 .. n) \X C |-> Look(x[2], xs[x[1]])]
           Runs(h) == h = [i \in 0 .. n |-> IF i = 0 THEN NoFindings
                                            ELSE IF IsFinding(xs[i]) THEN Insert(h[i - 1], Finding(xs[i])) ELSE h[i - 1]]
           h == CHOOSE g : Runs(g)
<1>1. n \in Nat
  BY DEF FileIn
<1>b. \A i \in 1 .. n : Finding(xs[i]) \in F
  <2>1. \A i \in 1 .. n : xs[i] \in Range(xs)
    BY DEF FileIn, Range
  <2> QED
    BY <2>1 DEF FileIn
<1>2. \A i \in 1 .. n : \A c \in C : Look(c, xs[i]) \in C
  <2> TAKE i \in 1 .. n
  <2> TAKE c \in C
  <2>1. Insert(c, Finding(xs[i])) \in C
    BY <1>b, InsertCollects
  <2> QED
    BY <2>1 DEF Look
<1>3. \A i \in 1 .. n : \A c \in C : f[<<i, c>>] = Look(c, xs[i])
  OBVIOUS
<1>4. Steady(f, C, n)
  <2> HIDE DEF f, n, C
  <2> QED
    BY <1>2, <1>3 DEF Steady
<1>5. ScanFile(e) = h[n]
  BY Zenon DEF ScanFile
<1>c. NoFindings \in C
  BY DEF C, Collections, NoFindings
<1> HIDE DEF f, n, C, xs
<1>6. PICK g : Looped(f, C, n, NoFindings, g)
  BY <1>1, <1>c, <1>4, IterationExists
<1>7. \A i \in 0 .. n : g[i] = IF i = 0 THEN NoFindings ELSE Look(g[i - 1], xs[i])
  <2> TAKE i \in 0 .. n
  <2>1. CASE i = 0
    BY <1>6, <2>1 DEF Looped
  <2>2. CASE i # 0
    <3>1. i \in 1 .. n /\ g[i - 1] \in C
      BY <1>1, <1>6, <2>2 DEF Looped
    <3> QED
      BY <1>3, <1>6, <2>2, <3>1 DEF Looped
  <2> QED
    BY <2>1, <2>2
<1>8. Runs(g)
  BY <1>6, <1>7 DEF Looped, Look
<1>9. Runs(h)
  BY <1>8, Zenon
<1> HIDE DEF h
<1>10. h[0] = NoFindings /\ (\A i \in 1 .. n : h[i] = Look(h[i - 1], xs[i])) /\ h = [i \in 0 .. n |-> h[i]]
  <2>1. h = [i \in 0 .. n |-> IF i = 0 THEN NoFindings
                              ELSE IF IsFinding(xs[i]) THEN Insert(h[i - 1], Finding(xs[i])) ELSE h[i - 1]]
    BY <1>9
  <2>2. h[0] = NoFindings /\ \A i \in 1 .. n : h[i] = Look(h[i - 1], xs[i])
    BY <1>1, <2>1 DEF Look
  <2>3. DOMAIN h = 0 .. n
    BY <2>1
  <2> QED
    BY <2>1, <2>2, <2>3
<1>11. h[0] \in C /\ \A i \in 1 .. n : h[i - 1] \in C => h[i] \in C
  BY <1>2, <1>c, <1>10
<1>12. \A i \in 0 .. n : h[i] \in C
  BY <1>1, <1>11, IterationStays
<1>13. h \in [0 .. n -> C]
  BY <1>10, <1>12
<1> QED
  BY <1>5, <1>10, <1>13 DEF n, C, xs

\* What a worker keeps of a file are findings.
LEMMA ScanFileCollects ==
  ASSUME NEW F, \A f \in F : f.kind \in Kinds, NEW e, FileIn(F, e)
  PROVE  ScanFile(e) \in Collections(F)
<1>1. Len(e.matches) \in 0 .. Len(e.matches)
  BY DEF FileIn
<1> QED
  BY <1>1, FileRuns

\* What a worker keeps of a file sums up all its matches.
LEMMA ScanFileSummarises ==
  ASSUME NEW F, Identified(F), NEW e, FileIn(F, e)
  PROVE  Summary(ScanFile(e), Matches(e)) /\ Matches(e) \in SUBSET F /\ IsFiniteSet(Matches(e))
<1> DEFINE xs == e.matches
           n == Len(xs)
           listed(i) == {Finding(x) : x \in {m \in Firsts(xs, i) : IsFinding(m)}}
           G == [i \in 0 .. n |-> listed(i)]
<1>1. n \in Nat /\ Range(xs) = Firsts(xs, n)
  BY DEF Firsts, Range, FileIn
<1>2. \A f \in F : f.kind \in Kinds
  BY DEF Identified
<1>3. PICK h : /\ h[0] = NoFindings /\ \A i \in 1 .. n : h[i] = Look(h[i - 1], xs[i])
               /\ ScanFile(e) = h[n]
  BY <1>2, FileRuns
<1>b. \A i \in 1 .. n : xs[i] \in Range(xs)
  BY DEF FileIn, Range
<1>4. \A i \in 0 .. n : listed(i) \in SUBSET F /\ IsFiniteSet(listed(i))
  <2> TAKE i \in 0 .. n
  <2> DEFINE D == {m \in Firsts(xs, i) : IsFinding(m)}
             g == [x \in D |-> Finding(x)]
  <2>1. Firsts(xs, i) \subseteq Range(xs)
    BY <1>b DEF Firsts
  <2>2. IsFiniteSet(D)
    BY <1>1, FirstsFinite, FS_Subset
  <2>3. g \in Surjection(D, listed(i))
    BY DEF Surjection
  <2>4. IsFiniteSet(listed(i))
    BY <2>2, <2>3, FS_Surjection
  <2> QED
    BY <2>1, <2>4 DEF FileIn
<1>5. G[0] = {} /\ \A i \in 1 .. n : /\ i - 1 \in 0 .. n
                                     /\ G[i] = IF IsFinding(xs[i]) THEN G[i - 1] \cup {Finding(xs[i])} ELSE G[i - 1]
  <2>1. listed(0) = {}
    BY FirstsGrow
  <2>2. ASSUME NEW i \in 1 .. n
        PROVE  listed(i) = IF IsFinding(xs[i]) THEN listed(i - 1) \cup {Finding(xs[i])} ELSE listed(i - 1)
    <3>1. Firsts(xs, i) = Firsts(xs, i - 1) \cup {xs[i]}
      BY FirstsGrow
    <3> QED
      BY <3>1
  <2>3. \A i \in 0 .. n : G[i] = listed(i)
    OBVIOUS
  <2>4. \A i \in 1 .. n : i \in 0 .. n /\ i - 1 \in 0 .. n
    BY <1>1
  <2>5. 0 \in 0 .. n
    BY <1>1
  <2> HIDE DEF listed, G
  <2> QED
    BY <2>1, <2>2, <2>3, <2>4, <2>5
<1>6. G[n] = Matches(e)
  BY <1>1 DEF Matches
<1>7. \A i \in 0 .. n : G[i] \in SUBSET F /\ IsFiniteSet(G[i])
  BY <1>4
<1> HIDE DEF G, xs, n
<1>8. ASSUME NEW i \in 1 .. n, Summary(h[i - 1], G[i - 1]) PROVE Summary(h[i], G[i])
  <2>1. CASE IsFinding(xs[i])
    <3>1. h[i] = Insert(h[i - 1], Finding(xs[i])) /\ G[i] = G[i - 1] \cup {Finding(xs[i])}
      BY <1>3, <1>5, <2>1 DEF Look
    <3>2. Finding(xs[i]) \in F
      BY <1>b DEF FileIn, xs
    <3>3. G[i - 1] \in SUBSET F /\ IsFiniteSet(G[i - 1])
      BY <1>5, <1>7
    <3> QED
      BY <1>8, <3>1, <3>2, <3>3, InsertSummarises
  <2>2. CASE ~IsFinding(xs[i])
    BY <1>3, <1>5, <1>8, <2>2 DEF Look
  <2> QED
    BY <2>1, <2>2
<1>9. Summary(h[0], G[0])
  BY <1>3, <1>5, NothingSummarised
<1>10. Summary(h[n], G[n])
  BY <1>1, <1>8, <1>9, SummaryAlong
<1>11. n \in 0 .. n
  BY <1>1
<1> QED
  BY <1>3, <1>6, <1>7, <1>10, <1>11

\* Every finite set is put into a sequence.
LEMMA InSequence ==
  ASSUME NEW S, IsFiniteSet(S)
  PROVE  SetToSeq(S) \in Seq(S) /\ Range(SetToSeq(S)) = S
<1> DEFINE n == Cardinality(S)
<1>1. n \in Nat /\ ExistsBijection(1 .. n, S)
  BY FS_CardinalityType
<1>2. PICK g \in Bijection(1 .. n, S) : TRUE
  BY <1>1 DEF ExistsBijection
<1>3. g \in [1 .. n -> S] /\ IsInjective(g)
  BY <1>2 DEF Bijection, Injection
<1>4. SetToSeq(S) \in [1 .. n -> S] /\ IsInjective(SetToSeq(S))
  BY <1>3 DEF SetToSeq
<1> DEFINE q == SetToSeq(S)
<1> HIDE DEF q
<1>5. q \in Injection(1 .. n, S)
  BY <1>4 DEF Injection, q
<1>6. IsFiniteSet(1 .. n) /\ Cardinality(1 .. n) = n
  BY <1>1, FS_Interval
<1>7. q \in Surjection(1 .. n, S)
  BY <1>5, <1>6, FS_Injection
<1>8. q \in [1 .. n -> S] /\ \A t \in S : \E i \in 1 .. n : q[i] = t
  BY <1>7 DEF Surjection
<1>9. Range(q) = S
  BY <1>8 DEF Range
<1>10. q \in Seq(S)
  BY <1>1, <1>8
<1> QED
  BY <1>9, <1>10 DEF q

\* What a worker dropped would have been dropped after merging as well.
LEMMA GravestJoins ==
  ASSUME NEW F, Identified(F), NEW A \in SUBSET F, NEW M \in SUBSET F, IsFiniteSet(A), IsFiniteSet(M),
         NEW K, Gravest(K, M), NEW R, Gravest(R, A \cup K)
  PROVE  Gravest(R, A \cup M) /\ (A \cup M # R <=> A \cup K # R \/ M # K)
<1>1. /\ K \subseteq M /\ IsFiniteSet(K) /\ Cardinality(K) \in Nat
      /\ R \subseteq A \cup K /\ IsFiniteSet(R) /\ Cardinality(R) \in Nat /\ Cardinality(R) <= MaxFindings
  <2>1. K \subseteq M /\ R \subseteq A \cup K /\ Cardinality(R) <= MaxFindings
    BY DEF Gravest
  <2>2. IsFiniteSet(K)
    BY <2>1, FS_Subset
  <2>3. IsFiniteSet(A \cup K)
    BY <2>2, FS_Union
  <2>4. IsFiniteSet(R)
    BY <2>1, <2>3, FS_Subset
  <2> QED
    BY <2>1, <2>2, <2>4, FS_CardinalityType
<1>2. CASE M = K
  BY <1>2
<1>3. CASE M # K
  <2>1. Cardinality(K) = MaxFindings
    BY <1>3 DEF Gravest
  <2>2. ASSUME NEW g \in R, g \notin K, K \subseteq R PROVE FALSE
    <3>1. IsFiniteSet(K \cup {g}) /\ Cardinality(K \cup {g}) = Cardinality(K) + 1
      BY <1>1, <2>2, FS_AddElement
    <3>2. K \cup {g} \subseteq R
      BY <2>2
    <3>3. Cardinality(K \cup {g}) <= Cardinality(R)
      BY <1>1, <3>2, FS_Subset
    <3> QED
      BY <1>1, <2>1, <3>1, <3>3
  <2>3. ASSUME NEW x \in M \ K, NEW g \in R, ~Above(g, x) PROVE FALSE
    <3>1. g \in F /\ x \in F /\ \A o \in K : o \in F /\ Above(o, x)
      BY <1>1, <2>3 DEF Gravest
    <3>2. g \notin K
      BY <2>3, <3>1
    <3>3. CASE x = g
      <4>1. \A o \in K : o \in R
        <5> TAKE o \in K
        <5> SUFFICES ASSUME o \notin R PROVE FALSE
          OBVIOUS
        <5>1. Above(g, o) /\ Above(o, g)
          BY <1>1, <3>1, <3>3 DEF Gravest
        <5> QED
          BY <3>1, <5>1, AboveOrders
      <4> QED
        BY <2>2, <3>2, <4>1
    <3>4. CASE x # g
      <4>1. Above(x, g)
        BY <2>3, <3>1, <3>4, AboveOrders
      <4>2. \A o \in K : o \in R
        <5> TAKE o \in K
        <5> SUFFICES ASSUME o \notin R PROVE FALSE
          OBVIOUS
        <5>1. Above(g, o) /\ Above(o, x) /\ o \in F
          BY <1>1, <3>1 DEF Gravest
        <5>2. Above(g, x)
          BY <3>1, <5>1, AboveOrders
        <5> QED
          BY <2>3, <5>2
      <4> QED
        BY <2>2, <3>2, <4>2
    <3> QED
      BY <3>3, <3>4
  <2>4. A \cup M # R
    <3> SUFFICES ASSUME A \cup M = R PROVE FALSE
      OBVIOUS
    <3>1. PICK x \in M \ K : TRUE
      BY <1>1, <1>3
    <3>2. x \in R /\ x \notin K /\ K \subseteq R
      BY <1>1, <3>1
    <3> QED
      BY <2>2, <3>2
  <2>5. \A f \in (A \cup M) \ R, g \in R : Above(g, f)
    <3> TAKE f \in (A \cup M) \ R, g \in R
    <3>1. CASE f \in A \cup K
      BY <3>1 DEF Gravest
    <3>2. CASE f \notin A \cup K
      BY <2>3, <3>2
    <3> QED
      BY <3>1, <3>2
  <2>6. Cardinality(R) = MaxFindings
    <3>1. CASE A \cup K # R
      BY <3>1 DEF Gravest
    <3>2. CASE A \cup K = R
      <4>1. Cardinality(K) <= Cardinality(R)
        BY <1>1, <3>2, FS_Subset
      <4> QED
        BY <1>1, <2>1, <4>1, ScanConstants
    <3> QED
      BY <3>1, <3>2
  <2>7. R \subseteq A \cup M
    BY <1>1
  <2>8. Gravest(R, A \cup M)
    BY <1>1, <2>5, <2>6, <2>7 DEF Gravest
  <2> QED
    BY <1>3, <2>4, <2>8
<1> QED
  BY <1>2, <1>3

\* A file's findings are merged into those of the files before it.
LEMMA MergeSummarises ==
  ASSUME NEW F, Identified(F), NEW A \in SUBSET F, IsFiniteSet(A), NEW b, Summary(b, A), NEW e, FileIn(F, e)
  PROVE  Summary(MergeFile(b, e), A \cup Matches(e))
<1> DEFINE own == ScanFile(e)
           M == Matches(e)
           K == UNION Range(own.kept)
           r == InsertAll(b, SetToSeq(K))
<1>1. Summary(own, M) /\ M \in SUBSET F /\ IsFiniteSet(M)
  BY ScanFileSummarises
<1>2. own.kept \in [Kinds -> SUBSET M] /\ own.exceeded \in SUBSET Kinds
  BY <1>1 DEF Summary, Collections
<1>3. MergeFile(b, e) = [r EXCEPT !.exceeded = @ \cup own.exceeded]
  BY DEF MergeFile
<1> HIDE DEF own, M
<1>4. K = UNION {own.kept[k] : k \in Kinds}
  BY <1>2 DEF Range
<1>5. K \subseteq M /\ K \in SUBSET F /\ IsFiniteSet(K)
  <2>1. K \subseteq M
    BY <1>2, <1>4
  <2> QED
    BY <1>1, <2>1, FS_Subset
<1>6. \A k \in Kinds : OfKind(K, k) = own.kept[k]
  <2> TAKE k \in Kinds
  <2>1. \A j \in Kinds : own.kept[j] \subseteq OfKind(M, j)
    BY <1>1 DEF Summary, Gravest
  <2> QED
    BY <1>4, <2>1 DEF OfKind
<1> HIDE DEF K
<1>7. SetToSeq(K) \in Seq(F) /\ Range(SetToSeq(K)) = K
  <2>1. SetToSeq(K) \in Seq(K) /\ Range(SetToSeq(K)) = K
    BY <1>5, InSequence
  <2> QED
    BY <1>5, <2>1
<1>8. Summary(r, A \cup K)
  BY <1>7, InsertAllSummarises
<1> HIDE DEF r
<1>9. r \in Collections(A \cup K)
  BY <1>8 DEF Summary
<1> DEFINE s == [kept |-> r.kept, exceeded |-> r.exceeded \cup own.exceeded]
<1>10. MergeFile(b, e) = s
  BY <1>3, <1>9 DEF Collections
<1>11. s \in Collections(A \cup M)
  BY <1>2, <1>5, <1>9 DEF Collections
<1>12. ASSUME NEW k \in Kinds
       PROVE  Gravest(r.kept[k], OfKind(A \cup M, k)) /\ (k \in s.exceeded <=> OfKind(A \cup M, k) # r.kept[k])
  <2> DEFINE Ak == OfKind(A, k)
             Mk == OfKind(M, k)
             Kk == own.kept[k]
             Rk == r.kept[k]
  <2>1. Ak \in SUBSET F /\ Mk \in SUBSET F /\ IsFiniteSet(Ak) /\ IsFiniteSet(Mk)
    <3>1. Ak \in SUBSET A /\ Mk \in SUBSET M
      BY DEF OfKind
    <3> QED
      BY <1>1, <3>1, FS_Subset
  <2>2. OfKind(A \cup M, k) = Ak \cup Mk /\ OfKind(A \cup K, k) = Ak \cup Kk
    BY <1>6 DEF OfKind
  <2>3. Gravest(Kk, Mk) /\ (k \in own.exceeded <=> Mk # Kk)
    BY <1>1 DEF Summary
  <2>4. Gravest(Rk, Ak \cup Kk) /\ (k \in r.exceeded <=> Ak \cup Kk # Rk)
    BY <1>8, <2>2 DEF Summary
  <2> HIDE DEF Ak, Mk, Kk, Rk
  <2>5. Gravest(Rk, Ak \cup Mk) /\ (Ak \cup Mk # Rk <=> Ak \cup Kk # Rk \/ Mk # Kk)
    BY <2>1, <2>3, <2>4, GravestJoins
  <2>6. k \in s.exceeded <=> Ak \cup Mk # Rk
    BY <2>3, <2>4, <2>5
  <2> QED
    BY <2>2, <2>5, <2>6 DEF Rk
<1>13. s.kept = r.kept
  OBVIOUS
<1> HIDE DEF s
<1> QED
  BY <1>10, <1>11, <1>12, <1>13 DEF Summary, M

\* Merging a file leaves a collection of findings.
LEMMA MergeCollects ==
  ASSUME NEW F, Identified(F), NEW b \in Collections(F), NEW e, FileIn(F, e)
  PROVE  MergeFile(b, e) \in Collections(F)
<1> DEFINE own == ScanFile(e)
           K == UNION Range(own.kept)
           r == InsertAll(b, SetToSeq(K))
<1>1. Summary(own, Matches(e)) /\ Matches(e) \in SUBSET F /\ IsFiniteSet(Matches(e))
  BY ScanFileSummarises
<1>2. own.kept \in [Kinds -> SUBSET Matches(e)] /\ own.exceeded \in SUBSET Kinds
  BY <1>1 DEF Summary, Collections
<1>3. MergeFile(b, e) = [r EXCEPT !.exceeded = @ \cup own.exceeded]
  BY DEF MergeFile
<1> HIDE DEF own
<1>4. K \subseteq Matches(e)
  BY <1>2 DEF Range
<1>5. K \in SUBSET F /\ IsFiniteSet(K)
  BY <1>1, <1>4, FS_Subset
<1>6. SetToSeq(K) \in Seq(F)
  <2>1. SetToSeq(K) \in Seq(K)
    BY <1>5, InSequence
  <2> QED
    BY <1>5, <2>1
<1>7. \A f \in F : f.kind \in Kinds
  BY DEF Identified
<1>8. r \in Collections(F)
  BY <1>6, <1>7, InsertAllCollects
<1> HIDE DEF r
<1> QED
  BY <1>2, <1>3, <1>8 DEF Collections

\* A batch is merged file by file, in the order of the walk.
LEMMA BatchRuns ==
  ASSUME NEW F, Identified(F), NEW b \in Collections(F), NEW E, \A e \in E : FileIn(F, e), NEW files \in Seq(E)
  PROVE  \E h : /\ h \in [0 .. Len(files) -> Collections(F)] /\ h[0] = b
                /\ \A i \in 1 .. Len(files) : h[i] = MergeFile(h[i - 1], files[i])
                /\ MergedFindings(b, files) = h[Len(files)]
<1> DEFINE n == Len(files)
           C == Collections(F)
           f == [x \in (1 .. n) \X C |-> MergeFile(x[2], files[x[1]])]
           Runs(h) == h = [i \in 0 .. n |-> IF i = 0 THEN b ELSE MergeFile(h[i - 1], files[i])]
           h == CHOOSE g : Runs(g)
<1>1. n \in Nat
  OBVIOUS
<1>b. \A i \in 1 .. n : FileIn(F, files[i])
  <2>1. \A i \in 1 .. n : files[i] \in E
    OBVIOUS
  <2> QED
    BY <2>1
<1>2. \A i \in 1 .. n : \A c \in C : MergeFile(c, files[i]) \in C
  BY <1>b, MergeCollects
<1>3. \A i \in 1 .. n : \A c \in C : f[<<i, c>>] = MergeFile(c, files[i])
  OBVIOUS
<1>4. Steady(f, C, n)
  <2> HIDE DEF f, n, C
  <2> QED
    BY <1>2, <1>3 DEF Steady
<1>5. MergedFindings(b, files) = h[n]
  BY Zenon DEF MergedFindings
<1> HIDE DEF f, n, C
<1>c. b \in C
  BY DEF C
<1>6. PICK g : Looped(f, C, n, b, g)
  BY <1>1, <1>c, <1>4, IterationExists
<1>7. \A i \in 0 .. n : g[i] = IF i = 0 THEN b ELSE MergeFile(g[i - 1], files[i])
  <2> TAKE i \in 0 .. n
  <2>1. CASE i = 0
    BY <1>6, <2>1 DEF Looped
  <2>2. CASE i # 0
    <3>1. i \in 1 .. n /\ g[i - 1] \in C
      BY <1>1, <1>6, <2>2 DEF Looped
    <3> QED
      BY <1>3, <1>6, <2>2, <3>1 DEF Looped
  <2> QED
    BY <2>1, <2>2
<1>8. Runs(g)
  BY <1>6, <1>7 DEF Looped
<1>9. Runs(h)
  BY <1>8, Zenon
<1> HIDE DEF h
<1>10. h[0] = b /\ (\A i \in 1 .. n : h[i] = MergeFile(h[i - 1], files[i])) /\ h = [i \in 0 .. n |-> h[i]]
  <2>1. h = [i \in 0 .. n |-> IF i = 0 THEN b ELSE MergeFile(h[i - 1], files[i])]
    BY <1>9
  <2>2. h[0] = b /\ \A i \in 1 .. n : h[i] = MergeFile(h[i - 1], files[i])
    BY <1>1, <2>1
  <2>3. DOMAIN h = 0 .. n
    BY <2>1
  <2> QED
    BY <2>1, <2>2, <2>3
<1>11. h[0] \in C /\ \A i \in 1 .. n : h[i - 1] \in C => h[i] \in C
  BY <1>2, <1>c, <1>10
<1>12. \A i \in 0 .. n : h[i] \in C
  BY <1>1, <1>11, IterationStays
<1>13. h \in [0 .. n -> C]
  BY <1>10, <1>12
<1> QED
  BY <1>5, <1>10, <1>13 DEF n, C

\* What the rules find in some files.
MatchesIn(files) == UNION {Matches(e) : e \in files}

\* A batch leaves a summary of what was found before and in its files.
LEMMA BatchSummarises ==
  ASSUME NEW F, Identified(F), NEW A \in SUBSET F, IsFiniteSet(A), NEW b, Summary(b, A),
         NEW E, \A e \in E : FileIn(F, e), NEW files \in Seq(E)
  PROVE  /\ Summary(MergedFindings(b, files), A \cup MatchesIn(Range(files)))
         /\ A \cup MatchesIn(Range(files)) \in SUBSET F /\ IsFiniteSet(A \cup MatchesIn(Range(files)))
<1> DEFINE n == Len(files)
           G == [i \in 0 .. n |-> A \cup MatchesIn(Firsts(files, i))]
<1>1. n \in Nat /\ Range(files) = Firsts(files, n)
  BY DEF Firsts, Range
<1>2. b \in Collections(F)
  BY DEF Summary, Collections
<1>3. PICK h : /\ h[0] = b /\ \A i \in 1 .. n : h[i] = MergeFile(h[i - 1], files[i])
               /\ MergedFindings(b, files) = h[n]
  BY <1>2, BatchRuns
<1>b. \A i \in 1 .. n : FileIn(F, files[i])
  <2>1. \A i \in 1 .. n : files[i] \in E
    OBVIOUS
  <2> QED
    BY <2>1
<1>4. MatchesIn(Firsts(files, 0)) = {} /\ \A i \in 1 .. n :
        MatchesIn(Firsts(files, i)) = MatchesIn(Firsts(files, i - 1)) \cup Matches(files[i])
  <2>1. MatchesIn(Firsts(files, 0)) = {}
    BY FirstsGrow DEF MatchesIn
  <2>2. ASSUME NEW i \in 1 .. n
        PROVE  MatchesIn(Firsts(files, i)) = MatchesIn(Firsts(files, i - 1)) \cup Matches(files[i])
    <3>1. Firsts(files, i) = Firsts(files, i - 1) \cup {files[i]}
      BY FirstsGrow
    <3> QED
      BY <3>1 DEF MatchesIn
  <2> QED
    BY <2>1, <2>2
<1>5. G[0] = A /\ \A i \in 1 .. n : i - 1 \in 0 .. n /\ G[i] = G[i - 1] \cup Matches(files[i])
  BY <1>1, <1>4
<1>6. G[n] = A \cup MatchesIn(Range(files))
  BY <1>1
<1> HIDE DEF n, G
<1>7. \A i \in 1 .. n : Matches(files[i]) \in SUBSET F /\ IsFiniteSet(Matches(files[i]))
  BY <1>b, ScanFileSummarises
<1> DEFINE good == {i \in 0 .. n : G[i] \in SUBSET F /\ IsFiniteSet(G[i])}
           id == [i \in 0 .. n |-> i]
<1>8. \A i \in 0 .. n : i \in good
  <2>1. 0 \in good
    BY <1>1, <1>5
  <2>2. ASSUME NEW i \in 1 .. n, i - 1 \in good PROVE i \in good
    <3>1. G[i] \in SUBSET F
      BY <1>5, <1>7, <2>2
    <3>2. IsFiniteSet(G[i - 1]) /\ IsFiniteSet(Matches(files[i])) /\ G[i] = G[i - 1] \cup Matches(files[i])
      BY <1>5, <1>7, <2>2
    <3>3. IsFiniteSet(G[i])
      BY <3>2, FS_Union
    <3> QED
      BY <1>1, <3>1, <3>3
  <2>3. id[0] \in good /\ \A i \in 1 .. n : id[i - 1] \in good => id[i] \in good
    BY <1>1, <2>1, <2>2
  <2> HIDE DEF good, id
  <2>4. \A i \in 0 .. n : id[i] \in good
    BY <1>1, <2>3, IterationStays
  <2> QED
    BY <2>4 DEF id
<1>9. ASSUME NEW i \in 1 .. n, Summary(h[i - 1], G[i - 1]) PROVE Summary(h[i], G[i])
  <2>1. G[i - 1] \in SUBSET F /\ IsFiniteSet(G[i - 1])
    BY <1>5, <1>8
  <2>2. h[i] = MergeFile(h[i - 1], files[i]) /\ FileIn(F, files[i]) /\ G[i] = G[i - 1] \cup Matches(files[i])
    BY <1>3, <1>5, <1>b
  <2> QED
    BY <1>9, <2>1, <2>2, MergeSummarises
<1>10. Summary(h[0], G[0])
  BY <1>3, <1>5
<1>11. Summary(h[n], G[n])
  BY <1>1, <1>9, <1>10, SummaryAlong
<1>12. n \in good
  BY <1>1, <1>8
<1> QED
  BY <1>3, <1>6, <1>11, <1>12

-----------------------------------------------------------------------------
(* Accounts of a scan.                                                         *)

\* Sequences joined hold what they held.
LEMMA Flattened ==
  ASSUME NEW S, NEW ss \in Seq(Seq(S))
  PROVE  FlattenSeq(ss) \in Seq(S)
<1> DEFINE n == Len(ss)
           C == Seq(S)
           f == [x \in (1 .. n) \X C |-> x[2] \o ss[x[1]]]
           Runs(h) == h = [i \in 1 .. n |-> IF i = 1 THEN ss[i] ELSE h[i - 1] \o ss[i]]
           h == CHOOSE g : Runs(g)
<1>1. n \in Nat /\ \A i \in 1 .. n : ss[i] \in C
  OBVIOUS
<1>2. FlattenSeq(ss) = IF n = 0 THEN ss ELSE h[n]
  BY Zenon DEF FlattenSeq
<1>3. CASE n = 0
  <2>1. ss = <<>>
    BY <1>3
  <2> QED
    BY <1>2, <1>3, <2>1
<1>4. CASE n # 0
  <2>1. \A i \in 1 .. n : \A c \in C : f[<<i, c>>] = c \o ss[i]
    <3> HIDE DEF C, n
    <3> QED
      OBVIOUS
  <2>2. \A i \in 1 .. n : ss[i] = <<>> \o ss[i]
    BY <1>1
  <2>a. \A c, d \in C : c \o d \in C
    OBVIOUS
  <2>b. <<>> \in C
    OBVIOUS
  <2> HIDE DEF f, n, C
  <2>3. Steady(f, C, n)
    BY <1>1, <2>1, <2>a DEF Steady
  <2>4. PICK g : Looped(f, C, n, <<>>, g)
    BY <1>1, <2>3, <2>b, IterationExists
  <2> DEFINE k == [i \in 1 .. n |-> g[i]]
  <2>5. \A i \in 1 .. n : k[i] = IF i = 1 THEN ss[i] ELSE k[i - 1] \o ss[i]
    <3> TAKE i \in 1 .. n
    <3>1. i \in 0 .. n /\ i - 1 \in 0 .. n /\ i # 0
      BY <1>1
    <3>2. g[i - 1] \in C /\ g[i] = f[<<i, g[i - 1]>>] /\ g[0] = <<>>
      <4>1. g \in [0 .. n -> C] /\ \A j \in 0 .. n : g[j] = IF j = 0 THEN <<>> ELSE f[<<j, g[j - 1]>>]
        BY <2>4 DEF Looped
      <4>2. g[i - 1] \in C
        BY <3>1, <4>1
      <4>3. g[i] = f[<<i, g[i - 1]>>]
        BY <3>1, <4>1
      <4>4. 0 \in 0 .. n
        BY <1>1
      <4>5. g[0] = <<>>
        BY <4>1, <4>4
      <4> QED
        BY <4>2, <4>3, <4>5
    <3>3. g[i] = g[i - 1] \o ss[i]
      BY <2>1, <3>2
    <3>4. CASE i = 1
      <4>a. g[i - 1] = <<>>
        BY <3>2, <3>4
      <4>1. g[i] = <<>> \o ss[i]
        BY Zenon, <3>3, <4>a
      <4> QED
        BY <2>2, <3>4, <4>1
    <3>5. CASE i # 1
      <4>1. i - 1 \in 1 .. n
        BY <1>1, <3>5
      <4> QED
        BY <3>3, <3>5, <4>1
    <3> QED
      BY <3>4, <3>5
  <2>6. Runs(k)
    BY <2>5
  <2>7. Runs(h)
    BY <2>6, Zenon
  <2> HIDE DEF h, k
  <2>8. \A i \in 1 .. n : h[i] = IF i = 1 THEN ss[i] ELSE h[i - 1] \o ss[i]
    BY <2>7
  <2> DEFINE good == {i \in 0 .. n : i = 0 \/ h[i] \in C}
             id == [i \in 0 .. n |-> i]
  <2>9. \A i \in 0 .. n : i \in good
    <3>1. ASSUME NEW i \in 1 .. n, i - 1 \in good PROVE i \in good
      <4>1. CASE i = 1
        BY <1>1, <2>8, <4>1
      <4>2. CASE i # 1
        <5>a. i - 1 # 0
          BY <1>1, <4>2
        <5>b. h[i] = h[i - 1] \o ss[i]
          BY Zenon, <2>8, <4>2
        <5>1. i - 1 # 0 /\ h[i] = h[i - 1] \o ss[i]
          BY <5>a, <5>b
        <5>2. h[i - 1] \in C
          BY <3>1, <5>1
        <5>3. h[i] \in C
          BY <1>1, <2>a, <5>1, <5>2
        <5> QED
          BY <1>1, <5>3
      <4> QED
        BY <4>1, <4>2
    <3>2. id[0] \in good /\ \A i \in 1 .. n : id[i - 1] \in good => id[i] \in good
      BY <1>1, <3>1
    <3> HIDE DEF good, id
    <3>3. \A i \in 0 .. n : id[i] \in good
      BY <1>1, <3>2, IterationStays
    <3> QED
      BY <3>3 DEF id
  <2>10. n \in 1 .. n
    BY <1>1, <1>4
  <2>11. h[n] \in C
    BY <1>4, <2>9, <2>10
  <2> QED
    BY <1>2, <1>4, <2>11 DEF C
<1> QED
  BY <1>3, <1>4

\* The files of a tree, by their places.
Places == DOMAIN tree

Bytes(D) == SumFunctionOnSet([i \in Places |-> tree[i].size], D)

InTree == tree \in Trees

\* The files of a tree are listed each once, with their sizes.
LEMMA TreeFacts ==
  ASSUME InTree
  PROVE  /\ tree \in Seq(Range(tree)) /\ Places = 1 .. Len(tree) /\ Len(tree) \in Nat /\ IsFiniteSet(Places)
         /\ \A i, j \in Places : tree[i] = tree[j] => i = j
         /\ \A i \in Places : tree[i] \in Range(tree) /\ tree[i].size \in Nat /\ tree[i].dirs \in Seq(STRING)
<1>1. tree \in Seq(Range(tree))
  BY TreesAssumption DEF InTree
<1>2. Places = 1 .. Len(tree) /\ Len(tree) \in Nat
  BY <1>1 DEF Places
<1>3. IsFiniteSet(Places)
  BY <1>2, FS_Interval
<1>4. \A i \in Places : tree[i] \in Range(tree)
  BY DEF Places, Range
<1>5. \A i, j \in Places : tree[i] = tree[j] => i = j
  <2>1. \A i, j \in Places : Path(tree[i]) = Path(tree[j]) => i = j
    BY TreesAssumption DEF InTree, Places
  <2> QED
    BY <2>1
<1>6. \A e \in Range(tree) : e.size \in Nat /\ e.dirs \in Seq(STRING)
  BY TreesAssumption DEF InTree
<1> QED
  BY <1>1, <1>2, <1>3, <1>4, <1>5, <1>6

\* The findings of a tree have one identity each, and a kind.
LEMMA TreeFindings ==
  ASSUME InTree
  PROVE  /\ Identified(Findable(tree))
         /\ \A e \in Range(tree) : FileIn(Findable(tree), e) /\ FileFindings(e) \in Seq(Findable(tree))
<1>1. Identified(Findable(tree))
  <2>1. /\ \A f \in Findable(tree) : f.id \in Int /\ f.risk \in Int /\ f.kind \in Kinds
        /\ \A f, g \in Findable(tree) : f.id = g.id => f = g
    BY TreesAssumption DEF InTree
  <2> QED
    BY <2>1 DEF Identified
<1>2. ASSUME NEW e \in Range(tree)
      PROVE  FileIn(Findable(tree), e) /\ FileFindings(e) \in Seq(Findable(tree))
  <2>1. e.matches \in Seq(Range(e.matches))
    BY TreesAssumption DEF InTree
  <2>2. Range(FileFindings(e)) \cup {Finding(x) : x \in Range(e.matches)} \subseteq Findable(tree)
    BY DEF Findable
  <2>3. FileFindings(e) \in Seq(Range(FileFindings(e)))
    <3>1. FileFindings(e) = <<>> \/ \E f : FileFindings(e) = <<f>>
      BY DEF FileFindings
    <3>2. <<>> \in Seq(Range(<<>>)) /\ \A f : <<f>> \in Seq(Range(<<f>>))
      BY DEF Range
    <3> QED
      BY <3>1, <3>2
  <2>4. FileFindings(e) \in Seq(Findable(tree))
    BY <2>2, <2>3
  <2>5. FileIn(Findable(tree), e)
    BY <2>1, <2>2 DEF FileIn
  <2> QED
    BY <2>4, <2>5
<1> QED
  BY <1>1, <1>2

\* The queue of files is that of some places.
Owed(p, Q) ==
  /\ Q \in SUBSET Places /\ p \in Seq(Range(tree))
  /\ Range(p) = {tree[i] : i \in Q} /\ Len(p) = Cardinality(Q) /\ BytesOf(p) = Bytes(Q)

Issues == Seq([code : {"parse_error"}, fatal : {TRUE}])

\* The counters are those of some places.
CountedIn(o, D) ==
  /\ D \in SUBSET Places
  /\ o = [files |-> Cardinality(D), bytes |-> Bytes(D), issues |-> o.issues] /\ o.issues \in Issues

\* Files are counted, and their bytes added, in any order.
LEMMA BytesFacts ==
  ASSUME InTree, NEW D \in SUBSET Places
  PROVE  /\ IsFiniteSet(D) /\ Cardinality(D) \in Nat /\ Bytes(D) \in Nat
         /\ \A i \in Places \ D : /\ Cardinality(D \cup {i}) = Cardinality(D) + 1
                                  /\ Bytes(D \cup {i}) = Bytes(D) + tree[i].size
         /\ \A E \in SUBSET Places : D \cap E = {} =>
              /\ Cardinality(D \cup E) = Cardinality(D) + Cardinality(E)
              /\ Bytes(D \cup E) = Bytes(D) + Bytes(E)
<1> DEFINE f == [i \in Places |-> tree[i].size]
<1>1. \A E \in SUBSET Places : IsFiniteSet(E) /\ Cardinality(E) \in Nat /\ \A i \in E : f[i] \in Nat
  <2> TAKE E \in SUBSET Places
  <2>1. IsFiniteSet(E)
    BY TreeFacts, FS_Subset
  <2> QED
    BY <2>1, TreeFacts, FS_CardinalityType
<1>2. \A E \in SUBSET Places : Bytes(E) = SumFunctionOnSet(f, E)
  BY DEF Bytes
<1>3. \A i \in Places : f[i] = tree[i].size
  OBVIOUS
<1> HIDE DEF f
<1>4. Bytes(D) \in Nat
  BY <1>1, <1>2, SumNat
<1>5. ASSUME NEW i \in Places \ D
      PROVE  Cardinality(D \cup {i}) = Cardinality(D) + 1 /\ Bytes(D \cup {i}) = Bytes(D) + tree[i].size
  <2>1. D \cup {i} \in SUBSET Places
    OBVIOUS
  <2>2. \A j \in D \cup {i} : f[j] \in Nat
    BY <1>1, <2>1
  <2>3. SumFunctionOnSet(f, D \cup {i}) = SumFunctionOnSet(f, D) + f[i]
    BY <1>1, <2>2, SumWith
  <2>4. Cardinality(D \cup {i}) = Cardinality(D) + 1
    BY <1>1, FS_AddElement
  <2> QED
    BY <1>2, <1>3, <2>1, <2>3, <2>4
<1>6. ASSUME NEW E \in SUBSET Places, D \cap E = {}
      PROVE  Cardinality(D \cup E) = Cardinality(D) + Cardinality(E) /\ Bytes(D \cup E) = Bytes(D) + Bytes(E)
  <2>1. D \cup E \in SUBSET Places /\ D \in SUBSET (D \cup E) /\ (D \cup E) \ D = E
    BY <1>6
  <2>2. IsFiniteSet(D \cup E) /\ \A j \in D \cup E : f[j] \in Nat
    BY <1>1, <2>1
  <2>3. SumFunctionOnSet(f, D \cup E) = SumFunctionOnSet(f, D) + SumFunctionOnSet(f, (D \cup E) \ D)
    BY <2>1, <2>2, SumSplit
  <2>4. Cardinality(D \cup E) = Cardinality(D) + Cardinality(E) - Cardinality(D \cap E)
    BY <1>1, FS_Union
  <2>5. Cardinality(D \cap E) = 0
    BY <1>6, FS_EmptySet
  <2>6. Bytes(D \cup E) = Bytes(D) + Bytes(E)
    BY <1>2, <2>1, <2>3
  <2> QED
    BY <1>1, <2>4, <2>5, <2>6
<1> QED
  BY <1>1, <1>4, <1>5, <1>6

\* The bytes of a sequence of files grow with the file appended.
LEMMA BytesAppended ==
  ASSUME NEW E, \A e \in E : e.size \in Nat, NEW p \in Seq(E), NEW e \in E
  PROVE  BytesOf(<<>>) = 0 /\ BytesOf(Append(p, e)) = BytesOf(p) + e.size
<1> DEFINE q == Append(p, e)
           n == Len(p) + 1
           f(s) == [i \in DOMAIN s |-> s[i].size]
           P == DOMAIN p
<1>1. \A s : BytesOf(s) = SumFunctionOnSet(f(s), DOMAIN s)
  BY DEF BytesOf, SumFunction
<1>2. BytesOf(<<>>) = 0
  <2>1. DOMAIN <<>> = {}
    OBVIOUS
  <2>2. SumFunctionOnSet(f(<<>>), {}) = 0
    BY SumStep, FS_EmptySet
  <2> QED
    BY <1>1, <2>1, <2>2
<1>3. /\ DOMAIN q = P \cup {n} /\ n \notin P /\ q[n] = e
      /\ \A i \in P : q[i] = p[i] /\ p[i] \in E
  OBVIOUS
<1>4. IsFiniteSet(P)
  <2>1. DOMAIN p = 1 .. Len(p) /\ Len(p) \in Nat
    OBVIOUS
  <2> QED
    BY <2>1, FS_Interval
<1> DEFINE fq == f(q)
           fp == f(p)
<1>5. /\ \A i \in P \cup {n} : fq[i] \in Nat
      /\ fq[n] = e.size /\ \A i \in P : fq[i] = fp[i]
  BY <1>3
<1>a. BytesOf(q) = SumFunctionOnSet(fq, P \cup {n}) /\ BytesOf(p) = SumFunctionOnSet(fp, P)
  BY <1>1, <1>3
<1> HIDE DEF f, fq, fp, P, n, q
<1>6. SumFunctionOnSet(fq, P \cup {n}) = SumFunctionOnSet(fq, P) + fq[n]
  <2>1. \A i \in P \cup {n} : fq[i] \in Nat
    BY <1>5
  <2>2. n \notin P
    BY <1>3
  <2> QED
    BY Zenon, <1>4, <2>1, <2>2, SumWith
<1>7. SumFunctionOnSet(fq, P) = SumFunctionOnSet(fp, P)
  BY <1>4, <1>5, SumSame
<1>8. BytesOf(q) = BytesOf(p) + e.size
  BY <1>a, <1>5, <1>6, <1>7
<1> QED
  BY <1>2, <1>8 DEF q

\* A file joins the queue.
LEMMA OneMoreOwed ==
  ASSUME InTree, NEW p, NEW Q, Owed(p, Q), NEW i \in Places \ Q
  PROVE  Owed(<<>>, {}) /\ Owed(Append(p, tree[i]), Q \cup {i})
<1>1. \A e \in Range(tree) : e.size \in Nat
  BY TreesAssumption DEF InTree
<1>2. tree[i] \in Range(tree) /\ p \in Seq(Range(tree)) /\ Q \in SUBSET Places
  BY TreeFacts DEF Owed
<1>3. BytesOf(<<>>) = 0 /\ BytesOf(Append(p, tree[i])) = BytesOf(p) + tree[i].size
  BY <1>1, <1>2, BytesAppended
<1>4. Cardinality({}) = 0 /\ {} \in SUBSET Places
  BY FS_EmptySet
<1>5. Bytes({}) = 0
  BY SumStep, FS_EmptySet DEF Bytes
<1>6. <<>> \in Seq(Range(tree)) /\ Range(<<>>) = {} /\ Len(<<>>) = 0
  BY DEF Range
<1>7. Owed(<<>>, {})
  BY <1>3, <1>4, <1>5, <1>6 DEF Owed
<1>8. /\ Append(p, tree[i]) \in Seq(Range(tree)) /\ Len(Append(p, tree[i])) = Len(p) + 1
      /\ Range(Append(p, tree[i])) = Range(p) \cup {tree[i]}
  <2>1. Append(p, tree[i]) \in Seq(Range(tree)) /\ Len(Append(p, tree[i])) = Len(p) + 1
    BY <1>2
  <2>2. Range(Append(p, tree[i])) = Range(p) \cup {tree[i]}
    BY <1>2 DEF Range
  <2> QED
    BY <2>1, <2>2
<1>9. Cardinality(Q \cup {i}) = Cardinality(Q) + 1 /\ Bytes(Q \cup {i}) = Bytes(Q) + tree[i].size
  BY <1>2, BytesFacts
<1>10. {tree[j] : j \in Q \cup {i}} = {tree[j] : j \in Q} \cup {tree[i]}
  OBVIOUS
<1>11. Owed(Append(p, tree[i]), Q \cup {i})
  BY <1>2, <1>3, <1>8, <1>9, <1>10 DEF Owed
<1> QED
  BY <1>7, <1>11

\* A batch is counted.
LEMMA BatchCounts ==
  ASSUME InTree, NEW o, NEW D, CountedIn(o, D), NEW p, NEW Q, Owed(p, Q), D \cap Q = {}
  PROVE  CountedIn(BatchOutcome(o, p), D \cup Q)
<1> DEFINE ss == [i \in DOMAIN p |-> ParseIssues(p[i])]
           S == [code : {"parse_error"}, fatal : {TRUE}]
<1>1. p \in Seq(Range(tree)) /\ D \in SUBSET Places /\ Q \in SUBSET Places
  BY DEF Owed, CountedIn
<1>2. \A e : ParseIssues(e) \in Seq(S)
  <2> TAKE e
  <2>1. [code |-> "parse_error", fatal |-> TRUE] \in S
    OBVIOUS
  <2> HIDE DEF S
  <2>2. << [code |-> "parse_error", fatal |-> TRUE] >> \in Seq(S) /\ <<>> \in Seq(S)
    BY <2>1
  <2> QED
    BY <2>2 DEF ParseIssues
<1>3. ss \in Seq(Seq(S))
  <2>1. ss \in [1 .. Len(p) -> Seq(S)] /\ Len(p) \in Nat
    BY <1>1, <1>2
  <2> QED
    BY <2>1
<1>4. FlattenSeq(ss) \in Seq(S)
  BY <1>3, Flattened
<1> HIDE DEF ss
<1>5. o.issues \o FlattenSeq(ss) \in Issues
  BY <1>4 DEF Issues, CountedIn
<1>6. Cardinality(D \cup Q) = Cardinality(D) + Cardinality(Q) /\ Bytes(D \cup Q) = Bytes(D) + Bytes(Q)
  BY <1>1, BytesFacts
<1>7. BatchOutcome(o, p) = [files |-> o.files + Len(p), bytes |-> o.bytes + BytesOf(p), issues |-> o.issues \o FlattenSeq(ss)]
  BY DEF BatchOutcome, ss
<1>8. o.files = Cardinality(D) /\ o.bytes = Bytes(D) /\ Len(p) = Cardinality(Q) /\ BytesOf(p) = Bytes(Q)
  BY DEF Owed, CountedIn
<1> HIDE DEF S
<1>9. BatchOutcome(o, p) = [files |-> Cardinality(D \cup Q), bytes |-> Bytes(D \cup Q), issues |-> o.issues \o FlattenSeq(ss)]
  BY <1>6, <1>7, <1>8
<1>10. D \cup Q \in SUBSET Places
  BY <1>1
<1> QED
  BY <1>5, <1>9, <1>10 DEF CountedIn

-----------------------------------------------------------------------------
(* The walk.                                                                   *)

\* Closing and opening directories ends at the ones the file is in.
LEMMA StackFollows ==
  ASSUME stack \in Seq(STRING), NEW dirs \in Seq(STRING)
  PROVE  OpenStack(dirs) = dirs
<1> DEFINE Same(n) == n <= Len(stack) /\ SubSeq(stack, 1, n) = SubSeq(dirs, 1, n)
           N == {Len(dirs) - n : n \in {m \in 0 .. Len(dirs) : Same(m)}}
           Fits(n) == /\ n <= Len(stack) /\ SubSeq(stack, 1, n) = SubSeq(dirs, 1, n)
                      /\ n < Len(dirs) /\ n < Len(stack) => stack[n + 1] # dirs[n + 1]
           common == CHOOSE n \in 0 .. Len(dirs) : Fits(n)
<1>1. Len(dirs) \in Nat /\ Len(stack) \in Nat
  OBVIOUS
<1>2. Same(0)
  OBVIOUS
<1>3. N \in SUBSET Nat /\ N # {}
  <2>1. Len(dirs) - 0 \in N
    BY <1>1, <1>2
  <2>2. \A n \in 0 .. Len(dirs) : Len(dirs) - n \in Nat
    BY <1>1
  <2> HIDE DEF Same
  <2> QED
    BY <2>1, <2>2
<1>4. PICK least \in N : \A m \in N : ~(m < least)
  <2> HIDE DEF N
  <2> QED
    BY <1>3, SmallestNumber
<1>5. PICK n \in 0 .. Len(dirs) : Same(n) /\ least = Len(dirs) - n
  BY <1>4
<1>6. ASSUME n < Len(dirs), n < Len(stack), stack[n + 1] = dirs[n + 1] PROVE FALSE
  <2>1. SubSeq(stack, 1, n + 1) = SubSeq(dirs, 1, n + 1)
    <3>1. \A s \in Seq(STRING) : n < Len(s) => SubSeq(s, 1, n + 1) = Append(SubSeq(s, 1, n), s[n + 1])
      BY <1>1
    <3>2. /\ SubSeq(stack, 1, n + 1) = Append(SubSeq(stack, 1, n), stack[n + 1])
          /\ SubSeq(dirs, 1, n + 1) = Append(SubSeq(dirs, 1, n), dirs[n + 1])
      BY <1>6, <3>1
    <3> QED
      BY <1>5, <1>6, <3>2
  <2>2. n + 1 \in 0 .. Len(dirs) /\ n + 1 <= Len(stack)
    BY <1>1, <1>6
  <2>3. Same(n + 1)
    BY <2>1, <2>2
  <2>4. Len(dirs) - (n + 1) \in N
    BY <2>2, <2>3
  <2>5. Len(dirs) - (n + 1) < least
    BY <1>1, <1>5
  <2> QED
    BY <1>4, <2>4, <2>5
<1>7. Fits(n)
  BY <1>5, <1>6
<1>8. common \in 0 .. Len(dirs) /\ Fits(common)
  <2> HIDE DEF Fits
  <2> QED
    BY <1>7
<1>9. OpenStack(dirs) = SubSeq(stack, 1, common) \o SubSeq(dirs, common + 1, Len(dirs))
  BY DEF OpenStack
<1> HIDE DEF common
<1>10. SubSeq(dirs, 1, common) \o SubSeq(dirs, common + 1, Len(dirs)) = dirs
  <2>1. 1 \in 1 .. Len(dirs) + 1 /\ common \in 1 - 1 .. Len(dirs) /\ Len(dirs) \in common .. Len(dirs)
    BY <1>1, <1>8
  <2>2. SubSeq(dirs, 1, common) \o SubSeq(dirs, common + 1, Len(dirs)) = SubSeq(dirs, 1, Len(dirs))
    BY <2>1, ConcatAdjacentSubSeq
  <2> QED
    BY <2>2, SubSeqFull
<1> QED
  BY <1>8, <1>9, <1>10

\* What the files at some places hold.
FoundIn(D) == UNION {Matches(tree[i]) : i \in D}

FoundAt(S, D) == (UNION {Range(FileFindings(tree[i])) : i \in S}) \cup FoundIn(D)

\* A collection b sums up what was found, A, and the counters o are those of D.
Kept(b, o, A, D) ==
  Summary(b, A) /\ A \in SUBSET Findable(tree) /\ IsFiniteSet(A) /\ CountedIn(o, D)

\* A batch leaves its findings and its counters.
LEMMA Batched ==
  ASSUME InTree, NEW b, NEW o, NEW A, NEW D, Kept(b, o, A, D), NEW p, NEW Q, Owed(p, Q), D \cap Q = {}
  PROVE  Kept(MergedFindings(b, p), BatchOutcome(o, p), A \cup FoundIn(Q), D \cup Q)
<1>1. Identified(Findable(tree)) /\ (\A e \in Range(tree) : FileIn(Findable(tree), e)) /\ p \in Seq(Range(tree))
  BY TreeFindings DEF Owed
<1>2. Summary(b, A) /\ A \in SUBSET Findable(tree) /\ IsFiniteSet(A) /\ CountedIn(o, D)
  BY DEF Kept
<1>3. MatchesIn(Range(p)) = FoundIn(Q)
  <2>1. Range(p) = {tree[i] : i \in Q}
    BY DEF Owed
  <2> QED
    BY <2>1 DEF MatchesIn, FoundIn
<1>4. /\ Summary(MergedFindings(b, p), A \cup FoundIn(Q))
      /\ A \cup FoundIn(Q) \in SUBSET Findable(tree) /\ IsFiniteSet(A \cup FoundIn(Q))
  BY <1>1, <1>2, <1>3, BatchSummarises
<1>5. CountedIn(BatchOutcome(o, p), D \cup Q)
  BY <1>2, BatchCounts
<1> QED
  BY <1>4, <1>5 DEF Kept

\* A file is judged as a whole.
LEMMA Judged ==
  ASSUME InTree, NEW b, NEW o, NEW A, NEW D, Kept(b, o, A, D), NEW i \in Places
  PROVE  Kept(InsertAll(b, FileFindings(tree[i])), o, A \cup Range(FileFindings(tree[i])), D)
<1> DEFINE fs == FileFindings(tree[i])
<1>1. Identified(Findable(tree)) /\ fs \in Seq(Findable(tree))
  BY TreeFindings, TreeFacts
<1>2. Summary(b, A) /\ A \in SUBSET Findable(tree) /\ IsFiniteSet(A) /\ CountedIn(o, D)
  BY DEF Kept
<1> HIDE DEF fs
<1>3. Summary(InsertAll(b, fs), A \cup Range(fs))
  BY <1>1, <1>2, InsertAllSummarises
<1>4. Range(fs) \in SUBSET Findable(tree) /\ IsFiniteSet(Range(fs))
  <2>1. Len(fs) \in Nat /\ Range(fs) = Firsts(fs, Len(fs))
    BY <1>1 DEF Range, Firsts
  <2>2. IsFiniteSet(Range(fs))
    BY <2>1, FirstsFinite
  <2> QED
    BY <1>1, <2>2 DEF Range
<1>5. IsFiniteSet(A \cup Range(fs))
  BY <1>2, <1>4, FS_Union
<1> QED
  BY <1>2, <1>3, <1>4, <1>5 DEF Kept, fs

Looked(n) == {i \in 1 .. n : Walked(tree[i]) /\ tree[i].type = "file"}

\* Places whose files wait to be analysed.
Queue == {i \in SeenSources : tree[i] \in Range(pending)}

\* At the end the issues say what was dropped.
Accounted ==
  IF scan = "done"
  THEN \E o : /\ Kept(budget, o, AllFound, Analysed)
              /\ outcome = [o EXCEPT !.issues = @ \o LimitIssues(budget)]
  ELSE Kept(budget, outcome, AllFound, Analysed)

\* What a scan keeps true.  The queue is that of files the walk has come past;
\* what was found in the others is summed up, and they are counted.
ScanInv ==
  /\ InTree /\ at \in 0 .. Len(tree) /\ stack \in Seq(STRING)
  /\ Owed(pending, Queue) /\ Accounted
  /\ outcome.files + Len(pending) <= MaxSourceFiles
  /\ held \in Nat /\ held <= MaxSourceFileSize /\ Len(pending) < Threads
  /\ \A o \in opened : o[1] = o[2]
  /\ scan = "done" => at = Len(tree) /\ pending = <<>>
  /\ phase = "configure" => at = 0 /\ scan = "walking"

\* What a step leaves alone stays what it was, for all that is defined by it.
LEMMA Carried ==
  ASSUME UNCHANGED <<tree, rules>>
  PROVE  /\ Seen' = Looked(at') /\ AllFound' = FoundAt(Seen', Analysed') /\ InTree' = InTree
         /\ SeenSources' = {i \in Seen' : IsSource(tree[i])}
         /\ Analysed' = {i \in SeenSources' : tree[i] \notin Range(pending')}
         /\ Queue' = {i \in SeenSources' : tree[i] \in Range(pending')}
<1>1. Seen' = Looked(at')
  BY DEF Seen, Looked
<1>2. \A e : Matches(e)' = Matches(e)
  BY DEF Matches, IsFinding
<1>3. AllFound' = FoundAt(Seen', Analysed')
  BY DEF AllFound, FoundAt, FoundIn, Matches, IsFinding
<1>4. InTree' = InTree
  BY DEF InTree
<1>5. SeenSources' = {i \in Seen' : IsSource(tree[i])}
  BY DEF SeenSources
<1>6. Analysed' = {i \in SeenSources' : tree[i] \notin Range(pending')}
  BY DEF Analysed
<1>7. Queue' = {i \in SeenSources' : tree[i] \in Range(pending')}
  BY DEF Queue
<1> QED
  BY <1>1, <1>3, <1>4, <1>5, <1>6, <1>7

\* So does what has been kept, and what is owed.
LEMMA CarriedKept ==
  ASSUME UNCHANGED <<tree, rules>>
  PROVE  /\ Kept(budget', outcome', AllFound', Analysed') => Kept(budget, outcome, AllFound, Analysed)'
         /\ Owed(pending', Queue') => Owed(pending, Queue)'
<1>1. Kept(budget', outcome', AllFound', Analysed') => Kept(budget, outcome, AllFound, Analysed)'
  BY DEF Kept, CountedIn, Bytes, Places
<1>2. Owed(pending', Queue') => Owed(pending, Queue)'
  BY DEF Owed, Bytes, Places
<1> QED
  BY <1>1, <1>2

\* Before the first file nothing is kept and nothing owed.
LEMMA NothingOwed ==
  ASSUME InTree
  PROVE  Owed(<<>>, {}) /\ Kept(NoFindings, [files |-> 0, bytes |-> 0, issues |-> <<>>], {}, {})
<1>1. Cardinality({}) = 0 /\ IsFiniteSet({})
  BY FS_EmptySet
<1>2. Bytes({}) = 0
  BY <1>1, SumStep DEF Bytes
<1>3. BytesOf(<<>>) = 0
  <2>1. BytesOf(<<>>) = SumFunctionOnSet([i \in DOMAIN <<>> |-> <<>>[i].size], DOMAIN <<>>)
    BY DEF BytesOf, SumFunction
  <2>2. DOMAIN <<>> = {}
    OBVIOUS
  <2> QED
    BY <1>1, <2>1, <2>2, SumStep
<1>4. <<>> \in Seq(Range(tree)) /\ Range(<<>>) = {} /\ Len(<<>>) = 0
  BY DEF Range
<1>5. Owed(<<>>, {})
  BY <1>1, <1>2, <1>3, <1>4 DEF Owed
<1>6. <<>> \in Issues
  BY DEF Issues
<1>7. CountedIn([files |-> 0, bytes |-> 0, issues |-> <<>>], {})
  BY <1>1, <1>2, <1>6 DEF CountedIn
<1> QED
  BY <1>1, <1>5, <1>7, NothingSummarised DEF Kept

\* The next place of the walk.
LEMMA LookedOn ==
  ASSUME InTree, at \in 0 .. Len(tree), at < Len(tree)
  PROVE  /\ at + 1 \in Places /\ at + 1 \in 0 .. Len(tree) /\ at + 1 \notin Looked(at) /\ Entry = tree[at + 1]
         /\ Walked(Entry) /\ Entry.type = "file" => Looked(at + 1) = Looked(at) \cup {at + 1}
         /\ ~(Walked(Entry) /\ Entry.type = "file") => Looked(at + 1) = Looked(at)
<1>1. Len(tree) \in Nat /\ Places = 1 .. Len(tree)
  BY TreeFacts
<1>2. at + 1 \in Places /\ at + 1 \in 0 .. Len(tree) /\ at + 1 \notin 1 .. at /\ 1 .. at + 1 = (1 .. at) \cup {at + 1}
  BY <1>1
<1>3. Entry = tree[at + 1]
  BY DEF Entry
<1>4. Walked(Entry) /\ Entry.type = "file" => Looked(at + 1) = Looked(at) \cup {at + 1}
  BY <1>2, <1>3 DEF Looked
<1>5. ~(Walked(Entry) /\ Entry.type = "file") => Looked(at + 1) = Looked(at)
  BY <1>2, <1>3 DEF Looked
<1>6. at + 1 \notin Looked(at)
  BY <1>2 DEF Looked
<1> QED
  BY <1>2, <1>3, <1>4, <1>5, <1>6

\* Files seen are files of the tree, and what is queued or analysed has been seen.
LEMMA LookedPlaces ==
  ASSUME InTree, at \in 0 .. Len(tree)
  PROVE  /\ Seen = Looked(at) /\ Seen \in SUBSET Places
         /\ SeenSources \in SUBSET Seen /\ Queue \in SUBSET SeenSources /\ Analysed = SeenSources \ Queue
         /\ AllFound = FoundAt(Seen, Analysed)
<1>1. Len(tree) \in Nat /\ Places = 1 .. Len(tree)
  BY TreeFacts
<1>2. Seen = Looked(at)
  BY DEF Seen, Looked
<1>3. Seen \in SUBSET Places
  BY <1>1 DEF Seen
<1>4. SeenSources \in SUBSET Seen /\ Queue \in SUBSET SeenSources /\ Analysed = SeenSources \ Queue
  BY DEF SeenSources, Queue, Analysed
<1>5. AllFound = FoundAt(Seen, Analysed)
  BY DEF AllFound, FoundAt, FoundIn
<1> QED
  BY <1>2, <1>3, <1>4, <1>5

\* A scan begins with nothing seen.
LEMMA ScanBegins ==
  ASSUME ReportInit
  PROVE  ScanInv
<1> USE DEF ReportInit, ScanInit
<1>1. InTree /\ at = 0 /\ pending = <<>>
  BY DEF InTree
<1>2. Len(tree) \in Nat
  BY <1>1, TreeFacts
<1>3. at \in 0 .. Len(tree) /\ stack \in Seq(STRING)
  BY <1>1, <1>2
<1>4. Seen = {}
  BY <1>1 DEF Seen
<1>5. Queue = {} /\ Analysed = {} /\ AllFound = {}
  BY <1>4 DEF Queue, Analysed, SeenSources, AllFound
<1>6. Owed(pending, Queue)
  BY <1>1, <1>5, NothingOwed
<1>7. Kept(budget, outcome, AllFound, Analysed)
  BY <1>1, <1>5, NothingOwed
<1>8. Accounted
  BY <1>7 DEF Accounted
<1>9. /\ outcome.files + Len(pending) <= MaxSourceFiles
      /\ held \in Nat /\ held <= MaxSourceFileSize /\ Len(pending) < Threads
  BY ScanConstants
<1>10. (\A o \in opened : o[1] = o[2]) /\ scan = "walking"
  OBVIOUS
<1> QED
  BY <1>1, <1>3, <1>6, <1>8, <1>9, <1>10 DEF ScanInv

\* What a walk that passes nothing new leaves.
LEMMA Unmoved ==
  ASSUME ScanInv, UNCHANGED <<rules, tree, pending, budget, outcome>>, Seen' = Seen
  PROVE  /\ InTree' /\ Owed(pending, Queue)' /\ Queue' = Queue /\ AllFound' = AllFound /\ Analysed' = Analysed
         /\ Kept(budget, outcome, AllFound, Analysed) => Kept(budget, outcome, AllFound, Analysed)'
<1>1. InTree /\ at \in 0 .. Len(tree) /\ Owed(pending, Queue)
  BY DEF ScanInv
<1>2. Queue' = Queue /\ Analysed' = Analysed /\ SeenSources' = SeenSources
  BY Carried DEF Queue, Analysed, SeenSources
<1>3. AllFound' = AllFound
  BY <1>1, <1>2, Carried, LookedPlaces
<1>4. InTree'
  BY <1>1, Carried
<1>5. Owed(pending, Queue)'
  <2>1. Owed(pending', Queue')
    BY <1>1, <1>2
  <2> QED
    BY <2>1, CarriedKept
<1>6. Kept(budget, outcome, AllFound, Analysed) => Kept(budget, outcome, AllFound, Analysed)'
  BY <1>2, <1>3, CarriedKept
<1> QED
  BY <1>2, <1>3, <1>4, <1>5, <1>6

\* A walk that fails has kept what it kept.
LEMMA WalkFails ==
  ASSUME ScanInv, NEW error, error # "done", scan = "walking", ScanFails(error), phase' = phase, phase = "scan"
  PROVE  ScanInv'
<1>1. /\ UNCHANGED <<rules, tree, at, stack, pending, budget, outcome, held, opened>> /\ scan' = error
  BY DEF ScanFails
<1>2. Seen' = Seen
  BY <1>1 DEF Seen
<1>3. Kept(budget, outcome, AllFound, Analysed)
  BY DEF ScanInv, Accounted
<1>4. InTree' /\ Owed(pending, Queue)' /\ Kept(budget, outcome, AllFound, Analysed)'
  BY <1>1, <1>2, <1>3, Unmoved
<1>5. Accounted'
  BY <1>1, <1>4 DEF Accounted
<1> QED
  BY <1>1, <1>4, <1>5 DEF ScanInv

\* What is not walked, or is no file, is passed over.
LEMMA PassesOver ==
  ASSUME ScanInv, PassOver, phase' = phase, phase = "scan"
  PROVE  ScanInv'
<1>1. /\ scan = "walking" /\ at < Len(tree) /\ at' = at + 1
      /\ UNCHANGED <<rules, tree, stack, pending, budget, outcome, held, opened, scan>>
      /\ ~(Walked(Entry) /\ Entry.type = "file")
  BY DEF PassOver, Walking
<1>2. InTree /\ at \in 0 .. Len(tree)
  BY DEF ScanInv
<1>3. Seen' = Seen /\ at' \in 0 .. Len(tree')
  BY <1>1, <1>2, LookedOn, LookedPlaces, Carried
<1>4. Kept(budget, outcome, AllFound, Analysed)
  BY <1>1 DEF ScanInv, Accounted
<1>5. InTree' /\ Owed(pending, Queue)' /\ Kept(budget, outcome, AllFound, Analysed)'
  BY <1>1, <1>3, <1>4, Unmoved
<1>6. Accounted'
  BY <1>1, <1>5 DEF Accounted
<1> QED
  BY <1>1, <1>3, <1>5, <1>6 DEF ScanInv

\* A file is opened through the directories the walk found it in.
LEMMA Opens ==
  ASSUME ScanInv, at < Len(tree), ReadEntry
  PROVE  /\ at' = at + 1 /\ stack' \in Seq(STRING) /\ \A o \in opened' : o[1] = o[2]
<1>1. InTree /\ at \in 0 .. Len(tree) /\ stack \in Seq(STRING) /\ \A o \in opened : o[1] = o[2]
  BY DEF ScanInv
<1>2. Entry.dirs \in Seq(STRING)
  BY <1>1, LookedOn, TreeFacts
<1>3. OpenStack(Entry.dirs) = Entry.dirs
  BY <1>1, <1>2, StackFollows
<1>4. opened' = opened \cup {<<Path(Entry), Path(Entry)>>}
  BY <1>3 DEF ReadEntry, Path
<1>5. \A o \in opened' : o[1] = o[2]
  BY <1>1, <1>4
<1> QED
  BY <1>2, <1>3, <1>5 DEF ReadEntry

\* A file of another kind is looked at by itself.
LEMMA VisitsOther ==
  ASSUME ScanInv, VisitOther, phase' = phase, phase = "scan"
  PROVE  ScanInv'
<1> DEFINE R == Range(FileFindings(Entry))
<1>1. /\ scan = "walking" /\ at < Len(tree) /\ Walked(Entry) /\ Entry.type = "file" /\ ~IsSource(Entry)
      /\ ReadEntry /\ budget' = InsertAll(budget, FileFindings(Entry))
      /\ UNCHANGED <<rules, tree, pending, outcome, held, scan>>
  BY DEF VisitOther, Readable, ToRead, Walking
<1>2. InTree /\ at \in 0 .. Len(tree) /\ Owed(pending, Queue) /\ Kept(budget, outcome, AllFound, Analysed)
  BY <1>1 DEF ScanInv, Accounted
<1>3. at' = at + 1 /\ stack' \in Seq(STRING) /\ \A o \in opened' : o[1] = o[2]
  BY <1>1, Opens
<1>4. at + 1 \in Places /\ Entry = tree[at + 1] /\ at' \in 0 .. Len(tree') /\ Seen' = Seen \cup {at + 1}
  BY <1>1, <1>2, <1>3, LookedOn, LookedPlaces, Carried
<1>5. SeenSources' = SeenSources
  BY <1>1, <1>4, Carried DEF SeenSources
<1>6. Queue' = Queue /\ Analysed' = Analysed
  BY <1>1, <1>5, Carried DEF Queue, Analysed
<1>7. AllFound' = AllFound \cup R
  <2>1. AllFound' = FoundAt(Seen \cup {at + 1}, Analysed) /\ AllFound = FoundAt(Seen, Analysed)
    BY <1>1, <1>2, <1>4, <1>6, Carried, LookedPlaces
  <2> QED
    BY <1>4, <2>1 DEF FoundAt
<1>8. Kept(budget', outcome', AllFound', Analysed')
  BY <1>1, <1>2, <1>4, <1>6, <1>7, Judged
<1>9. InTree' /\ Owed(pending, Queue)' /\ Kept(budget, outcome, AllFound, Analysed)'
  BY <1>1, <1>2, <1>6, <1>8, Carried, CarriedKept
<1>10. Accounted'
  BY <1>1, <1>9 DEF Accounted
<1> QED
  BY <1>1, <1>3, <1>4, <1>9, <1>10 DEF ScanInv

\* A queue that is that of some places seen.
LEMMA QueueIs ==
  ASSUME InTree, NEW S \in SUBSET Places, NEW p, NEW Q \in SUBSET S, Owed(p, Q)
  PROVE  {i \in S : tree[i] \in Range(p)} = Q /\ {i \in S : tree[i] \notin Range(p)} = S \ Q
<1>1. Range(p) = {tree[i] : i \in Q}
  BY DEF Owed
<1>2. \A i \in S : tree[i] \in Range(p) <=> i \in Q
  BY <1>1, TreeFacts
<1> QED
  BY <1>2

\* The file at i joins the batch p: what is analysed before, the batch it is
\* in, what is analysed after, and the batch that is left.
Batches(p, Q, i, first, queued, second, rest, Q1, Q2, Q3, Q4) ==
  /\ Owed(first, Q1) /\ Owed(queued, Q2) /\ Owed(second, Q3) /\ Owed(rest, Q4)
  /\ Q1 \cup Q2 = Q \cup {i} /\ Q1 \cap Q2 = {} /\ Q3 \cup Q4 = Q2 /\ Q3 \cap Q4 = {}
  /\ Len(first) + Len(queued) = Len(p) + 1 /\ Len(second) + Len(rest) = Len(queued)
  /\ Len(rest) < Threads /\ BytesOf(queued) \in Nat /\ BytesOf(queued) <= MaxSourceFileSize

\* A source is batched: the batch before it is analysed when it has no room, and
\* its own as soon as it is full.
LEMMA BatchesMove ==
  ASSUME InTree, NEW p, NEW Q, Owed(p, Q), NEW i \in Places \ Q, tree[i].size <= MaxSourceFileSize,
         NEW first, first = (IF p # <<>> /\ (Len(p) >= Threads \/ BytesOf(p) + tree[i].size > MaxSourceFileSize)
                             THEN p ELSE <<>>),
         NEW queued, queued = (IF p # <<>> /\ (Len(p) >= Threads \/ BytesOf(p) + tree[i].size > MaxSourceFileSize)
                               THEN <<tree[i]>> ELSE Append(p, tree[i])),
         NEW second, second = (IF FlushAfter(queued) THEN queued ELSE <<>>),
         NEW rest, rest = (IF second = <<>> THEN queued ELSE <<>>)
  PROVE  \E Q1, Q2, Q3, Q4 : Batches(p, Q, i, first, queued, second, rest, Q1, Q2, Q3, Q4)
<1>1. /\ p \in Seq(Range(tree)) /\ tree[i] \in Range(tree) /\ \A e \in Range(tree) : e.size \in Nat
      /\ MaxSourceFileSize \in Nat /\ Threads \in Nat \ {0} /\ Q \in SUBSET Places
  BY TreeFacts, TreesAssumption, ScanConstants DEF Owed, InTree
<1>2. <<>> \in Seq(Range(tree)) /\ Len(p) \in Nat /\ <<tree[i]>> = Append(<<>>, tree[i])
  BY <1>1
<1>3. /\ BytesOf(<<>>) = 0 /\ BytesOf(Append(p, tree[i])) = BytesOf(p) + tree[i].size
      /\ BytesOf(<<tree[i]>>) = tree[i].size
  <2>1. /\ BytesOf(<<>>) = 0 /\ BytesOf(Append(p, tree[i])) = BytesOf(p) + tree[i].size
    BY <1>1, BytesAppended
  <2>2. BytesOf(Append(<<>>, tree[i])) = BytesOf(<<>>) + tree[i].size
    BY <1>1, <1>2, BytesAppended
  <2> QED
    BY <1>1, <1>2, <2>1, <2>2
<1>4. Owed(<<>>, {}) /\ Owed(Append(p, tree[i]), Q \cup {i})
  BY OneMoreOwed
<1>5. Owed(<<tree[i]>>, {i})
  <2>1. i \in Places \ {}
    OBVIOUS
  <2>2. Owed(Append(<<>>, tree[i]), {} \cup {i})
    BY <1>4, <2>1, OneMoreOwed
  <2>3. {} \cup {i} = {i}
    OBVIOUS
  <2> QED
    BY <1>2, <2>2, <2>3
<1>6. \E Q1, Q2 : /\ Owed(first, Q1) /\ Owed(queued, Q2) /\ Q1 \cup Q2 = Q \cup {i} /\ Q1 \cap Q2 = {}
                  /\ Len(first) + Len(queued) = Len(p) + 1 /\ BytesOf(queued) <= MaxSourceFileSize
                  /\ queued # <<>> /\ Len(queued) \in Nat
  <2>1. CASE p # <<>> /\ (Len(p) >= Threads \/ BytesOf(p) + tree[i].size > MaxSourceFileSize)
    <3>1. first = p /\ queued = <<tree[i]>>
      BY <2>1
    <3>a. Len(<<tree[i]>>) = 1 /\ <<tree[i]>> # <<>>
      OBVIOUS
    <3>b. BytesOf(queued) <= MaxSourceFileSize
      BY <1>3, <3>1
    <3>2. Len(queued) = 1 /\ queued # <<>> /\ BytesOf(queued) <= MaxSourceFileSize
      BY <3>1, <3>a, <3>b
    <3>3. Len(first) + Len(queued) = Len(p) + 1
      BY <3>1, <3>2
    <3>4. Owed(first, Q) /\ Owed(queued, {i}) /\ Q \cap {i} = {}
      BY <1>5, <3>1
    <3> QED
      BY <3>2, <3>3, <3>4
  <2>2. CASE ~(p # <<>> /\ (Len(p) >= Threads \/ BytesOf(p) + tree[i].size > MaxSourceFileSize))
    <3>1. first = <<>> /\ queued = Append(p, tree[i])
      BY <2>2
    <3>2. Len(queued) = Len(p) + 1 /\ queued # <<>> /\ Len(first) = 0
      BY <1>1, <3>1
    <3>3. BytesOf(queued) <= MaxSourceFileSize
      <4>1. CASE p = <<>>
        <5>1. BytesOf(queued) = tree[i].size
          BY <1>2, <1>3, <3>1, <4>1
        <5> QED
          BY <5>1
      <4>2. CASE p # <<>>
        <5>1. BytesOf(p) \in Nat /\ tree[i].size \in Nat
          BY <1>1, BytesFacts DEF Owed
        <5> QED
          BY <1>1, <1>3, <2>2, <3>1, <4>2, <5>1
      <4> QED
        BY <4>1, <4>2
    <3>4. Owed(first, {}) /\ Owed(queued, Q \cup {i})
      BY <1>4, <3>1
    <3>5. {} \cup (Q \cup {i}) = Q \cup {i} /\ {} \cap (Q \cup {i}) = {} /\ Len(first) + Len(queued) = Len(p) + 1
      BY <1>2, <3>2
    <3> QED
      BY <1>2, <3>2, <3>3, <3>4, <3>5
  <2> QED
    BY <2>1, <2>2
<1>7. PICK Q1, Q2 : /\ Owed(first, Q1) /\ Owed(queued, Q2) /\ Q1 \cup Q2 = Q \cup {i} /\ Q1 \cap Q2 = {}
                    /\ Len(first) + Len(queued) = Len(p) + 1 /\ BytesOf(queued) <= MaxSourceFileSize
                    /\ queued # <<>> /\ Len(queued) \in Nat
  BY <1>6
<1>8. BytesOf(queued) \in Nat
  BY <1>7, BytesFacts DEF Owed
<1>9. \E Q3, Q4 : /\ Owed(second, Q3) /\ Owed(rest, Q4) /\ Q3 \cup Q4 = Q2 /\ Q3 \cap Q4 = {}
                  /\ Len(second) + Len(rest) = Len(queued) /\ Len(rest) < Threads
  <2>1. CASE FlushAfter(queued)
    <3>1. second = queued /\ rest = <<>> /\ Len(rest) = 0
      BY <1>7, <2>1
    <3>a. Len(second) = Len(queued)
      BY Zenon, <3>1
    <3>b. Len(rest) < Threads
      BY <1>1, <3>1
    <3>c. Len(queued) + 0 = Len(queued)
      BY <1>7
    <3>2. Len(second) + Len(rest) = Len(queued) /\ Len(rest) < Threads
      BY Zenon, <3>1, <3>a, <3>b, <3>c
    <3>3. Owed(second, Q2) /\ Owed(rest, {}) /\ Q2 \cup {} = Q2 /\ Q2 \cap {} = {}
      BY <1>4, <1>7, <3>1
    <3> QED
      BY <3>2, <3>3
  <2>2. CASE ~FlushAfter(queued)
    <3>1. second = <<>> /\ rest = queued /\ Len(second) = 0
      BY <2>2
    <3>a. ~(Len(queued) >= Threads) /\ Len(queued) \in Nat
      BY <1>7, <2>2 DEF FlushAfter
    <3>b. Len(rest) < Threads
      BY <1>1, <3>1, <3>a
    <3>c. Len(rest) = Len(queued)
      BY Zenon, <3>1
    <3>d. 0 + Len(queued) = Len(queued)
      BY <3>a
    <3>2. Len(second) + Len(rest) = Len(queued) /\ Len(rest) < Threads
      BY Zenon, <3>1, <3>b, <3>c, <3>d
    <3>3. Owed(second, {}) /\ Owed(rest, Q2) /\ {} \cup Q2 = Q2 /\ {} \cap Q2 = {}
      BY <1>4, <1>7, <3>1
    <3> QED
      BY <3>2, <3>3
  <2> QED
    BY <2>1, <2>2
<1> QED
  BY <1>7, <1>8, <1>9 DEF Batches

\* The greater of two numbers is one of them.
LEMMA Larger ==
  ASSUME NEW a \in Nat, NEW b \in Nat
  PROVE  Max({a, b}) \in {a, b}
<1>1. \E x \in {a, b} : \A y \in {a, b} : x >= y
  <2>1. CASE a >= b
    BY <2>1
  <2>2. CASE b >= a
    BY <2>2
  <2> QED
    BY <2>1, <2>2
<1> QED
  BY <1>1 DEF Max

\* A source is queued, and batches are analysed when they are full.
LEMMA VisitsSource ==
  ASSUME ScanInv, VisitSource, phase' = phase, phase = "scan"
  PROVE  ScanInv'
<1> DEFINE i      == at + 1
           R      == Range(FileFindings(Entry))
           first  == IF FlushBefore(Entry) THEN pending ELSE <<>>
           queued == IF FlushBefore(Entry) THEN <<Entry>> ELSE Append(pending, Entry)
           second == IF FlushAfter(queued) THEN queued ELSE <<>>
           rest   == IF second = <<>> THEN queued ELSE <<>>
           judged == InsertAll(budget, FileFindings(Entry))
<1>1. /\ scan = "walking" /\ at < Len(tree) /\ Walked(Entry) /\ Entry.type = "file" /\ IsSource(Entry)
      /\ ~AtFileLimit /\ Entry.size <= MaxSourceFileSize
  BY DEF VisitSource, Readable, ToRead, Walking
<1>2. InTree /\ at \in 0 .. Len(tree) /\ Owed(pending, Queue) /\ Kept(budget, outcome, AllFound, Analysed)
  BY <1>1 DEF ScanInv, Accounted
<1>3. CASE BatchFails(first) \/ BatchFails(second)
  <2>1. ScanFails("limit exceeded: query matches")
    BY <1>3 DEF VisitSource
  <2> QED
    BY <1>1, <2>1, WalkFails
<1>4. CASE ~(BatchFails(first) \/ BatchFails(second))
  <2>1. /\ ReadEntry /\ pending' = rest /\ held' = Max({held, BytesOf(queued)})
        /\ budget' = MergedFindings(MergedFindings(judged, first), second)
        /\ outcome' = BatchOutcome(BatchOutcome(outcome, first), second)
        /\ UNCHANGED <<rules, tree, scan>>
    BY <1>4 DEF VisitSource
  <2>2. at' = at + 1 /\ stack' \in Seq(STRING) /\ \A o \in opened' : o[1] = o[2]
    BY <1>1, <2>1, Opens
  <2>3. i \in Places /\ Entry = tree[i] /\ at' \in 0 .. Len(tree') /\ i \notin Seen /\ Seen' = Seen \cup {i}
    BY <1>1, <1>2, <2>1, <2>2, LookedOn, LookedPlaces, Carried
  <2>4. /\ Seen \in SUBSET Places /\ SeenSources \in SUBSET Seen /\ Queue \in SUBSET SeenSources
        /\ Analysed = SeenSources \ Queue /\ AllFound = FoundAt(Seen, Analysed)
    BY <1>2, LookedPlaces
  <2>5. SeenSources' = SeenSources \cup {i}
    BY <1>1, <2>1, <2>3, Carried DEF SeenSources
  <2>6. \E Q1, Q2, Q3, Q4 : Batches(pending, Queue, i, first, queued, second, rest, Q1, Q2, Q3, Q4)
    <3>1. i \in Places \ Queue /\ tree[i].size <= MaxSourceFileSize
      BY <1>1, <2>3, <2>4
    <3>2. /\ first = (IF pending # <<>> /\ (Len(pending) >= Threads \/ BytesOf(pending) + tree[i].size > MaxSourceFileSize)
                      THEN pending ELSE <<>>)
          /\ queued = (IF pending # <<>> /\ (Len(pending) >= Threads \/ BytesOf(pending) + tree[i].size > MaxSourceFileSize)
                       THEN <<tree[i]>> ELSE Append(pending, tree[i]))
      BY <2>3 DEF FlushBefore
    <3>3. /\ second = (IF FlushAfter(queued) THEN queued ELSE <<>>)
          /\ rest = (IF second = <<>> THEN queued ELSE <<>>)
      OBVIOUS
    <3> HIDE DEF first, queued, second, rest, i
    <3> QED
      BY <1>2, <3>1, <3>2, <3>3, BatchesMove
  <2> HIDE DEF first, queued, second, rest, judged, i
  <2>7. PICK Q1, Q2, Q3, Q4 : Batches(pending, Queue, i, first, queued, second, rest, Q1, Q2, Q3, Q4)
    BY <2>6
  <2>8. /\ Owed(first, Q1) /\ Owed(queued, Q2) /\ Owed(second, Q3) /\ Owed(rest, Q4)
        /\ Q1 \cup Q2 = Queue \cup {i} /\ Q1 \cap Q2 = {} /\ Q3 \cup Q4 = Q2 /\ Q3 \cap Q4 = {}
    BY <2>7 DEF Batches
  <2>9. /\ Len(first) + Len(queued) = Len(pending) + 1 /\ Len(second) + Len(rest) = Len(queued)
        /\ Len(rest) < Threads /\ BytesOf(queued) \in Nat /\ BytesOf(queued) <= MaxSourceFileSize
    BY <2>7 DEF Batches
  <2>10. Kept(judged, outcome, AllFound \cup R, Analysed)
    BY <1>2, <2>3, Judged DEF judged
  <2>11. Analysed \cap Q1 = {} /\ (Analysed \cup Q1) \cap Q3 = {} /\ Analysed \cup Q1 \cup Q3 = (SeenSources \cup {i}) \ Q4
    BY <2>3, <2>4, <2>8
  <2> HIDE DEF R
  <2>12. Kept(MergedFindings(judged, first), BatchOutcome(outcome, first), AllFound \cup R \cup FoundIn(Q1), Analysed \cup Q1)
    BY <1>2, <2>8, <2>10, <2>11, Batched
  <2>13. Kept(budget', outcome', AllFound \cup R \cup FoundIn(Q1) \cup FoundIn(Q3), Analysed \cup Q1 \cup Q3)
    BY <1>2, <2>1, <2>8, <2>11, <2>12, Batched
  <2>14. Queue' = Q4 /\ Analysed' = Analysed \cup Q1 \cup Q3
    <3>1. SeenSources \cup {i} \in SUBSET Places /\ Q4 \in SUBSET (SeenSources \cup {i})
      BY <2>3, <2>4, <2>8
    <3>2. /\ {j \in SeenSources \cup {i} : tree[j] \in Range(rest)} = Q4
          /\ {j \in SeenSources \cup {i} : tree[j] \notin Range(rest)} = (SeenSources \cup {i}) \ Q4
      BY <1>2, <2>8, <3>1, QueueIs
    <3>3. /\ Queue' = {j \in SeenSources' : tree[j] \in Range(pending')}
          /\ Analysed' = {j \in SeenSources' : tree[j] \notin Range(pending')}
      BY <2>1, Carried
    <3> QED
      BY <2>1, <2>5, <2>11, <3>2, <3>3
  <2>15. AllFound' = AllFound \cup R \cup FoundIn(Q1) \cup FoundIn(Q3)
    <3>1. AllFound' = FoundAt(Seen \cup {i}, Analysed \cup Q1 \cup Q3)
      BY <2>1, <2>3, <2>14, Carried
    <3>2. FoundIn(Analysed \cup Q1 \cup Q3) = FoundIn(Analysed) \cup FoundIn(Q1) \cup FoundIn(Q3)
      BY DEF FoundIn
    <3>3. UNION {Range(FileFindings(tree[j])) : j \in Seen \cup {i}} = (UNION {Range(FileFindings(tree[j])) : j \in Seen}) \cup R
      BY <2>3 DEF R
    <3> QED
      BY <2>4, <3>1, <3>2, <3>3 DEF FoundAt
  <2>16. InTree' /\ Owed(pending, Queue)' /\ Kept(budget, outcome, AllFound, Analysed)'
    BY <1>2, <2>1, <2>8, <2>13, <2>14, <2>15, Carried, CarriedKept
  <2>17. Accounted'
    BY <1>1, <2>1, <2>16 DEF Accounted
  <2>18. outcome'.files + Len(pending') <= MaxSourceFiles
    <3>1. /\ Len(first) \in Nat /\ Len(second) \in Nat /\ Len(rest) \in Nat /\ Len(pending) \in Nat /\ Len(queued) \in Nat
          /\ outcome.files \in Nat /\ MaxSourceFiles \in Nat
      <4>1. \A p : p \in Seq(Range(tree)) => Len(p) \in Nat
        OBVIOUS
      <4>2. outcome.files = Cardinality(Analysed) /\ Analysed \in SUBSET Places
        BY <1>2 DEF Kept, CountedIn
      <4>3. outcome.files \in Nat
        BY <1>2, <4>2, BytesFacts
      <4> QED
        BY <1>2, <2>8, <4>1, <4>3, ScanConstants DEF Owed
    <3>2. outcome'.files = outcome.files + Len(first) + Len(second)
      BY <2>1 DEF BatchOutcome
    <3>3. outcome.files + Len(pending) < MaxSourceFiles
      BY <1>1, <3>1 DEF AtFileLimit
    <3> QED
      BY <2>1, <2>9, <3>1, <3>2, <3>3
  <2>19. held' \in Nat /\ held' <= MaxSourceFileSize
    <3>1. held \in Nat /\ held <= MaxSourceFileSize
      BY DEF ScanInv
    <3>2. held' \in {held, BytesOf(queued)}
      BY <2>1, <2>9, <3>1, Larger
    <3> QED
      BY <2>9, <3>1, <3>2
  <2> QED
    BY <1>1, <2>1, <2>2, <2>3, <2>9, <2>16, <2>17, <2>18, <2>19 DEF ScanInv
<1> QED
  BY <1>3, <1>4

\* At its end a scan analyses what is queued and announces the limits that were
\* exceeded.
LEMMA Finishes ==
  ASSUME ScanInv, FinishScan, phase' = phase, phase = "scan"
  PROVE  ScanInv'
<1>1. scan = "walking" /\ at = Len(tree)
  BY DEF FinishScan
<1>2. InTree /\ at \in 0 .. Len(tree) /\ Owed(pending, Queue) /\ Kept(budget, outcome, AllFound, Analysed)
  BY <1>1 DEF ScanInv, Accounted
<1>3. CASE BatchFails(pending)
  <2>1. ScanFails("limit exceeded: query matches")
    BY <1>3 DEF FinishScan
  <2> QED
    BY <1>1, <2>1, WalkFails
<1>4. CASE ~BatchFails(pending)
  <2> DEFINE last == BatchOutcome(outcome, pending)
  <2>1. /\ budget' = MergedFindings(budget, pending)
        /\ outcome' = [last EXCEPT !.issues = @ \o LimitIssues(budget')]
        /\ pending' = <<>> /\ scan' = "done" /\ UNCHANGED <<rules, tree, at, stack, held, opened>>
    BY <1>4 DEF FinishScan
  <2>2. /\ Seen \in SUBSET Places /\ SeenSources \in SUBSET Seen /\ Queue \in SUBSET SeenSources
        /\ Analysed = SeenSources \ Queue /\ AllFound = FoundAt(Seen, Analysed)
    BY <1>2, LookedPlaces
  <2>3. Seen' = Seen /\ SeenSources' = SeenSources
    BY <2>1 DEF Seen, SeenSources
  <2>4. Owed(<<>>, {})
    BY <1>2, NothingOwed
  <2>5. Queue' = {} /\ Analysed' = Analysed \cup Queue
    <3>1. Range(<<>>) = {}
      BY DEF Range
    <3> QED
      BY <2>1, <2>2, <2>3, <3>1, Carried
  <2>6. AllFound' = AllFound \cup FoundIn(Queue)
    <3>1. AllFound' = FoundAt(Seen, Analysed \cup Queue)
      BY <2>1, <2>3, <2>5, Carried
    <3> QED
      BY <2>2, <3>1 DEF FoundAt, FoundIn
  <2>7. Kept(budget', last, AllFound', Analysed')
    <3>1. Analysed \cap Queue = {}
      BY <2>2
    <3> HIDE DEF last
    <3> QED
      BY <1>2, <2>1, <2>5, <2>6, <3>1, Batched DEF last
  <2>8. \A o : Kept(budget', o, AllFound', Analysed') => Kept(budget', o, AllFound', Analysed')
    OBVIOUS
  <2>9. InTree' /\ Owed(pending, Queue)'
    BY <1>2, <2>1, <2>4, <2>5, Carried, CarriedKept
  <2>10. Accounted'
    BY <2>1, <2>7 DEF Accounted, Kept, CountedIn, Bytes, Places
  <2>11. outcome'.files + Len(pending') <= MaxSourceFiles
    <3>1. last.files = outcome.files + Len(pending)
      BY DEF BatchOutcome
    <3>2. outcome'.files = last.files
      BY <2>1, <2>7 DEF Kept, CountedIn
    <3>3. outcome.files + Len(pending) <= MaxSourceFiles
      BY DEF ScanInv
    <3>4. outcome.files \in Nat /\ Len(pending) \in Nat
      <4>1. outcome.files = Cardinality(Analysed) /\ Analysed \in SUBSET Places
        BY <1>2 DEF Kept, CountedIn
      <4> QED
        BY <1>2, <4>1, BytesFacts DEF Owed
    <3> QED
      BY <2>1, <3>1, <3>2, <3>3, <3>4
  <2>12. Len(pending') < Threads
    BY <2>1, ScanConstants
  <2> QED
    BY <1>1, <2>1, <2>9, <2>10, <2>11, <2>12 DEF ScanInv
<1> QED
  BY <1>3, <1>4

\* Every step of a run keeps it.
LEMMA ScanContinues ==
  ASSUME ScanInv, ReportNext
  PROVE  ScanInv'
<1>1. CASE Scanning
  <2>1. phase = "scan" /\ phase' = phase /\ ScanNext
    BY <1>1 DEF Scanning, reportVars
  <2>2. CASE PassOver
    BY <2>1, <2>2, PassesOver
  <2>3. CASE TooManyFiles
    BY <2>1, <2>3, WalkFails DEF TooManyFiles, ToRead, Walking
  <2>4. CASE FileTooLarge
    BY <2>1, <2>4, WalkFails DEF FileTooLarge, ToRead, Walking
  <2>5. CASE FileReplaced
    BY <2>1, <2>5, WalkFails DEF FileReplaced, ToRead, Walking
  <2>6. CASE VisitOther
    BY <2>1, <2>6, VisitsOther
  <2>7. CASE VisitSource
    BY <2>1, <2>7, VisitsSource
  <2>8. CASE FinishScan
    BY <2>1, <2>8, Finishes
  <2>9. CASE ScanTimesOut
    BY <2>1, <2>9, WalkFails DEF ScanTimesOut
  <2> QED
    BY <2>1, <2>2, <2>3, <2>4, <2>5, <2>6, <2>7, <2>8, <2>9 DEF ScanNext
<1>2. CASE Configure
  <2>1. /\ phase = "configure" /\ phase' = "scan"
        /\ UNCHANGED <<tree, at, stack, pending, budget, outcome, held, opened, scan>>
    BY <1>2 DEF Configure
  <2>2. at = 0 /\ scan = "walking" /\ InTree /\ Owed(pending, Queue) /\ Kept(budget, outcome, AllFound, Analysed)
    BY <2>1 DEF ScanInv, Accounted
  <2>3. Seen = {} /\ Seen' = {}
    BY <2>1, <2>2 DEF Seen
  <2>4. Queue = {} /\ Analysed = {} /\ AllFound = {} /\ Queue' = {} /\ Analysed' = {} /\ AllFound' = {}
    BY <2>3 DEF Queue, Analysed, SeenSources, AllFound
  <2>5. InTree' /\ Owed(pending, Queue)'
    BY <2>1, <2>2, <2>4 DEF InTree, Owed, Bytes, Places
  <2>6. Kept(budget, outcome, AllFound, Analysed)'
    BY <2>1, <2>2, <2>4 DEF Kept, CountedIn, Bytes, Places
  <2>7. Accounted'
    BY <2>1, <2>2, <2>6 DEF Accounted
  <2> QED
    BY <2>1, <2>5, <2>7 DEF ScanInv
<1>3. ASSUME UNCHANGED scanVars, phase' # "configure" \/ phase' = phase PROVE ScanInv'
  <2>1. UNCHANGED <<rules, tree, at, stack, pending, budget, outcome, held, opened, scan>>
    BY <1>3 DEF scanVars
  <2>2. Seen' = Seen
    BY <2>1 DEF Seen
  <2>3. /\ InTree' /\ Owed(pending, Queue)' /\ AllFound' = AllFound /\ Analysed' = Analysed
        /\ Kept(budget, outcome, AllFound, Analysed) => Kept(budget, outcome, AllFound, Analysed)'
    BY <2>1, <2>2, Unmoved
  <2>4. \A o : Kept(budget, o, AllFound, Analysed) => Kept(budget', o, AllFound', Analysed')
    BY <2>1, <2>3
  <2>5. Accounted'
    BY <2>1, <2>3, <2>4 DEF ScanInv, Accounted, Kept, CountedIn, Bytes, Places
  <2> QED
    BY <1>3, <2>1, <2>3, <2>5 DEF ScanInv
<1>4. CASE RefuseConfiguration
  BY <1>3, <1>4 DEF RefuseConfiguration, Exit
<1>5. CASE Record
  BY <1>3, <1>5 DEF Record
<1>6. CASE Finalize
  BY <1>3, <1>6 DEF Finalize
<1>7. CASE Suppress
  BY <1>3, <1>7 DEF Suppress
<1>8. CASE Emit
  BY <1>3, <1>8 DEF Emit, Exit
<1> QED
  BY <1>1, <1>2, <1>4, <1>5, <1>6, <1>7, <1>8 DEF ReportNext

\* A step that is no step changes nothing.
LEMMA ScanStutters ==
  ASSUME ScanInv, UNCHANGED <<scanVars, reportVars>>
  PROVE  ScanInv'
<1>1. UNCHANGED <<rules, tree, at, stack, pending, budget, outcome, held, opened, scan>> /\ phase' = phase
  BY DEF scanVars, reportVars
<1>2. Seen' = Seen
  BY <1>1 DEF Seen
<1>3. /\ InTree' /\ Owed(pending, Queue)' /\ AllFound' = AllFound /\ Analysed' = Analysed
      /\ Kept(budget, outcome, AllFound, Analysed) => Kept(budget, outcome, AllFound, Analysed)'
  BY <1>1, <1>2, Unmoved
<1>4. Accounted'
  BY <1>1, <1>3 DEF ScanInv, Accounted, Kept, CountedIn, Bytes, Places
<1> QED
  BY <1>1, <1>3, <1>4 DEF ScanInv

\* At every moment of a scan what has been kept is what the findings met so far
\* determine, whatever the order of files and batches (scanner/mod.rs,
\* scanner/filesystem/mod.rs); for every tree, limit, number of workers and set of
\* rules.
THEOREM ScanInvHolds == ReportSpec => []ScanInv
<1>1. ReportInit => ScanInv
  BY ScanBegins
<1>2. ScanInv /\ [ReportNext]_<<scanVars, reportVars>> => ScanInv'
  BY ScanContinues, ScanStutters
<1> QED
  BY <1>1, <1>2, PTL DEF ReportSpec

\* What has been kept when a scan is done is determined by all it found.
LEMMA SummarySays ==
  ASSUME ScanInv
  PROVE  \E o : Kept(budget, o, AllFound, Analysed) /\ outcome.files = o.files /\ outcome.bytes = o.bytes
<1>1. CASE scan = "done"
  <2>1. PICK o : Kept(budget, o, AllFound, Analysed) /\ outcome = [o EXCEPT !.issues = @ \o LimitIssues(budget)]
    BY <1>1 DEF ScanInv, Accounted
  <2>2. o = [files |-> Cardinality(Analysed), bytes |-> Bytes(Analysed), issues |-> o.issues]
    BY <2>1 DEF Kept, CountedIn
  <2> QED
    BY <2>1, <2>2
<1>2. CASE scan # "done"
  BY <1>2 DEF ScanInv, Accounted
<1> QED
  BY <1>1, <1>2

\* What the budget keeps is what a scan promises to keep.
THEOREM KeepsMostSevereHolds == ReportSpec => []KeepsMostSevere
<1>1. ScanInv => KeepsMostSevere
  <2> SUFFICES ASSUME ScanInv PROVE KeepsMostSevere
    OBVIOUS
  <2>1. Summary(budget, AllFound)
    BY SummarySays DEF Kept
  <2> QED
    BY <2>1 DEF Summary, Gravest, OfKind, KeepsMostSevere
<1> QED
  BY <1>1, ScanInvHolds, PTL

\* There are as many limits reported as kinds that overflowed.
LEMMA LimitsCounted ==
  ASSUME NEW b, b.exceeded \in SUBSET Kinds, NEW is \in Issues
  PROVE  Cardinality(b.exceeded) =
           Cardinality({i \in DOMAIN (is \o LimitIssues(b)) : (is \o LimitIssues(b))[i].code = "limit_exceeded"})
<1> DEFINE w == [code |-> "limit_exceeded", fatal |-> FALSE]
           L == LimitIssues(b)
           n == Len(is)
           marked == {i \in DOMAIN (is \o L) : (is \o L)[i].code = "limit_exceeded"}
<1>1. n \in Nat /\ \A i \in 1 .. n : is[i].code # "limit_exceeded"
  <2> DEFINE S == [code : {"parse_error"}, fatal : {TRUE}]
  <2>1. is \in Seq(S) /\ \A x \in S : x.code = "parse_error"
    BY DEF Issues
  <2> HIDE DEF S
  <2>2. n \in Nat /\ \A i \in 1 .. n : is[i] \in S
    BY <2>1
  <2> QED
    BY <2>1, <2>2
<1>2. L \in Seq({w}) /\ Len(L) = Cardinality(b.exceeded)
  <2>1. /\ <<>> \in Seq({w}) /\ <<w>> \in Seq({w}) /\ <<w>> \o <<w>> \in Seq({w})
        /\ <<>> \o <<w>> = <<w>> /\ <<w>> \o <<>> = <<w>> /\ <<>> \o <<>> = <<>>
        /\ Len(<<>>) = 0 /\ Len(<<w>>) = 1 /\ Len(<<w>> \o <<w>>) = 2
    <3> HIDE DEF w
    <3>1. <<>> \in Seq({w}) /\ <<w>> \in Seq({w})
      OBVIOUS
    <3>2. <<>> \o <<w>> = <<w>> /\ <<w>> \o <<>> = <<w>> /\ <<>> \o <<>> = <<>>
      BY <3>1, ConcatEmptySeq
    <3>3. Len(<<>>) = 0 /\ Len(<<w>>) = 1
      OBVIOUS
    <3> DEFINE one == <<w>>
    <3>4. one \in Seq({w}) /\ Len(one) = 1
      BY <3>1, <3>3
    <3> HIDE DEF one
    <3>a. \A S : \A s, u \in Seq(S) : s \o u \in Seq(S) /\ Len(s \o u) = Len(s) + Len(u)
      BY ConcatProperties
    <3>b. one \o one \in Seq({w}) /\ Len(one \o one) = Len(one) + Len(one)
      BY Zenon, <3>4, <3>a
    <3>5. one \o one \in Seq({w}) /\ Len(one \o one) = 2
      BY <3>4, <3>b
    <3> QED
      BY <3>1, <3>2, <3>3, <3>5 DEF one
  <2>2. L = (IF "finding" \in b.exceeded THEN <<w>> ELSE <<>>) \o (IF "capability" \in b.exceeded THEN <<w>> ELSE <<>>)
    BY DEF LimitIssues, IssueOf
  <2>3. /\ Cardinality({}) = 0 /\ Cardinality({"finding"}) = 1 /\ Cardinality({"capability"}) = 1
        /\ Cardinality({"finding", "capability"}) = 2
    <3>1. \A x : IsFiniteSet({x}) /\ Cardinality({x}) = 1
      BY FS_Singleton
    <3>2. Cardinality({"finding"} \cup {"capability"}) = Cardinality({"finding"}) + 1
      <4>1. IsFiniteSet({"finding"}) /\ "capability" \notin {"finding"}
        BY <3>1
      <4> QED
        BY <4>1, FS_AddElement
    <3>3. {"finding"} \cup {"capability"} = {"finding", "capability"}
      OBVIOUS
    <3>4. Cardinality({"finding"}) = 1 /\ Cardinality({"capability"}) = 1
      BY <3>1
    <3>5. Cardinality({"finding", "capability"}) = 2
      BY <3>2, <3>3, <3>4
    <3> QED
      BY <3>4, <3>5, FS_EmptySet
  <2> HIDE DEF w, L
  <2>4. CASE "finding" \in b.exceeded /\ "capability" \in b.exceeded
    <3>1. b.exceeded = {"finding", "capability"} /\ L = <<w>> \o <<w>>
      BY <2>1, <2>2, <2>4 DEF Kinds
    <3> QED
      BY <2>1, <2>3, <3>1
  <2>5. CASE "finding" \in b.exceeded /\ "capability" \notin b.exceeded
    <3>1. b.exceeded = {"finding"} /\ L = <<w>>
      BY <2>1, <2>2, <2>5 DEF Kinds
    <3> QED
      BY <2>1, <2>3, <3>1
  <2>6. CASE "finding" \notin b.exceeded /\ "capability" \in b.exceeded
    <3>1. b.exceeded = {"capability"} /\ L = <<w>>
      BY <2>1, <2>2, <2>6 DEF Kinds
    <3> QED
      BY <2>1, <2>3, <3>1
  <2>7. CASE "finding" \notin b.exceeded /\ "capability" \notin b.exceeded
    <3>1. b.exceeded = {} /\ L = <<>>
      BY <2>1, <2>2, <2>7 DEF Kinds
    <3> QED
      BY <2>1, <2>3, <3>1
  <2> QED
    BY <2>4, <2>5, <2>6, <2>7
<1>3. w.code = "limit_exceeded"
  OBVIOUS
<1>a. is \in Seq([code : {"parse_error"}, fatal : {TRUE}])
  BY DEF Issues
<1> HIDE DEF w, L
<1>4. marked = n + 1 .. n + Len(L)
  <2>1. /\ Len(is) \in Nat /\ Len(L) \in Nat /\ DOMAIN (is \o L) = 1 .. n + Len(L)
        /\ (\A i \in 1 .. n : (is \o L)[i] = is[i]) /\ \A i \in n + 1 .. n + Len(L) : (is \o L)[i] = L[i - n]
    BY <1>2, <1>a
  <2>2. \A i \in n + 1 .. n + Len(L) : L[i - n] = w
    BY <1>2, <2>1
  <2> HIDE DEF n
  <2>3. \A i \in 1 .. n + Len(L) : i \in 1 .. n \/ i \in n + 1 .. n + Len(L)
    BY <1>1, <2>1
  <2>4. \A i \in n + 1 .. n + Len(L) : i \in 1 .. n + Len(L)
    BY <1>1, <2>1
  <2> QED
    BY <1>1, <1>3, <2>1, <2>2, <2>3, <2>4
<1>5. Cardinality(n + 1 .. n + Len(L)) = Len(L)
  <2>1. Len(L) \in Nat
    BY <1>2
  <2> DEFINE lo == n + 1
             hi == n + Len(L)
  <2>2. lo \in Int /\ hi \in Int /\ (lo > hi => Len(L) = 0) /\ (lo <= hi => hi - lo + 1 = Len(L))
    BY <1>1, <2>1
  <2> HIDE DEF lo, hi
  <2>3. Cardinality(lo .. hi) = IF lo > hi THEN 0 ELSE hi - lo + 1
    BY <2>2, FS_Interval
  <2>4. Cardinality(lo .. hi) = Len(L)
    BY <2>2, <2>3
  <2> QED
    BY <2>4 DEF lo, hi
<1> QED
  BY <1>2, <1>4, <1>5 DEF L

\* What the counters of a scan say.
THEOREM SourcesAccountedHolds == ReportSpec => []SourcesAccounted
<1>1. ScanInv => SourcesAccounted
  <2> SUFFICES ASSUME ScanInv PROVE SourcesAccounted
    OBVIOUS
  <2>1. outcome.files = Cardinality(Analysed) /\ outcome.bytes = Bytes(Analysed)
    <3>1. PICK o : Kept(budget, o, AllFound, Analysed) /\ outcome.files = o.files /\ outcome.bytes = o.bytes
      BY SummarySays
    <3> QED
      BY <3>1 DEF Kept, CountedIn
  <2>2. /\ outcome.files + Len(pending) <= MaxSourceFiles /\ held <= MaxSourceFileSize /\ Len(pending) < Threads
        /\ \A o \in opened : o[1] = o[2]
    BY DEF ScanInv
  <2>3. ASSUME scan = "done"
        PROVE  Analysed = {i \in DOMAIN tree : Walked(tree[i]) /\ IsSource(tree[i]) /\ tree[i].type = "file"}
    <3>1. InTree /\ at = Len(tree) /\ pending = <<>>
      BY <2>3 DEF ScanInv
    <3>2. DOMAIN tree = 1 .. at
      BY <3>1, TreeFacts DEF Places
    <3>3. Range(pending) = {}
      BY <3>1 DEF Range
    <3> QED
      BY <3>2, <3>3 DEF Analysed, SeenSources, Seen
  <2>4. ASSUME scan = "done"
        PROVE  Cardinality(budget.exceeded) =
                 Cardinality({i \in DOMAIN outcome.issues : outcome.issues[i].code = "limit_exceeded"})
    <3>1. PICK o : Kept(budget, o, AllFound, Analysed) /\ outcome = [o EXCEPT !.issues = @ \o LimitIssues(budget)]
      BY <2>4 DEF ScanInv, Accounted
    <3>2. /\ o = [files |-> Cardinality(Analysed), bytes |-> Bytes(Analysed), issues |-> o.issues] /\ o.issues \in Issues
          /\ budget.exceeded \in SUBSET Kinds
      BY <3>1 DEF Kept, CountedIn, Summary, Collections
    <3>3. outcome.issues = o.issues \o LimitIssues(budget)
      BY <3>1, <3>2
    <3> QED
      BY <3>2, <3>3, LimitsCounted
  <2> QED
    BY <2>1, <2>2, <2>3, <2>4 DEF SourcesAccounted, Bytes, Places
<1> QED
  BY <1>1, ScanInvHolds, PTL

-----------------------------------------------------------------------------
(* The order of a report and what it has room for.                             *)

\* So are they in the order of the report.
LEMMA BeforeOrders ==
  ASSUME NEW F, Identified(F)
  PROVE  /\ \A f, g \in F : f # g => Before(f, g) \/ Before(g, f)
         /\ \A f, g \in F : ~(Before(f, g) /\ Before(g, f))
         /\ \A f, g, h \in F : Before(f, g) /\ Before(g, h) => Before(f, h)
<1> DEFINE hook(f) == Hook(f)
<1>1. \A f \in F : f.id \in Int /\ f.risk \in Int
  BY DEF Identified
<1>2. \A f, g : Before(f, g) <=> \/ f.risk > g.risk
                                 \/ f.risk = g.risk /\ hook(f) /\ ~hook(g)
                                 \/ f.risk = g.risk /\ (hook(f) <=> hook(g)) /\ f.id < g.id
  BY DEF Before
<1> HIDE DEF hook
<1>3. ASSUME NEW f \in F, NEW g \in F, f # g PROVE Before(f, g) \/ Before(g, f)
  <2>1. f.id # g.id
    BY <1>3 DEF Identified
  <2> QED
    BY <1>1, <1>2, <2>1
<1>4. ASSUME NEW f \in F, NEW g \in F, Before(f, g), Before(g, f) PROVE FALSE
  BY <1>1, <1>2, <1>4
<1>5. ASSUME NEW f \in F, NEW g \in F, NEW h \in F, Before(f, g), Before(g, h) PROVE Before(f, h)
  BY <1>1, <1>2, <1>5
<1> QED
  BY <1>3, <1>4, <1>5

Ahead(S, f) == {g \in S : Before(g, f)}

\* One of several findings comes after all others.
LEMMA LastFinding ==
  ASSUME NEW F, Identified(F), NEW S \in SUBSET F, IsFiniteSet(S), S # {}
  PROVE  \E g \in S : Ahead(S, g) = S \ {g}
<1> DEFINE after(g) == {h \in S : Before(g, h)}
           B == {after(g) : g \in S}
<1>b. B \in SUBSET (SUBSET S) /\ B # {} /\ (\A g \in S : after(g) \in B) /\ \A T \in B : \E g \in S : T = after(g)
  OBVIOUS
<1> HIDE DEF B
<1>1. PICK T \in B : \A U \in SUBSET T : U # T => U \notin B
  BY <1>b, SmallestPart
<1>2. PICK g \in S : T = after(g)
  BY <1>b, <1>1
<1>3. ASSUME NEW h \in after(g) PROVE FALSE
  <2>1. h \in S /\ Before(g, h) /\ h \in T
    BY <1>2, <1>3
  <2>2. after(h) \subseteq T
    <3>1. \A x \in S : Before(h, x) => Before(g, x)
      BY <2>1, BeforeOrders
    <3> QED
      BY <1>2, <3>1
  <2>3. h \notin after(h)
    BY <2>1, BeforeOrders
  <2>4. after(h) # T /\ after(h) \in SUBSET T
    BY <2>1, <2>2, <2>3
  <2> HIDE DEF after
  <2> QED
    BY <1>1, <1>b, <2>1, <2>4
<1>4. \A h \in S : ~Before(g, h)
  BY <1>3
<1>5. \A h \in S : Before(h, g) <=> h # g
  BY <1>4, BeforeOrders
<1>6. Ahead(S, g) = S \ {g}
  BY <1>5 DEF Ahead
<1> QED
  BY <1>6

Firstmost(S) == {f \in S : Cardinality(Ahead(S, f)) < MaxFindings}

\* Those with few others ahead of them are few, and are ahead of the rest.
LEMMA FirstmostKept ==
  ASSUME NEW F, Identified(F), NEW S \in SUBSET F, IsFiniteSet(S)
  PROVE  /\ Cardinality(Firstmost(S)) <= MaxFindings
         /\ \A f \in S \ Firstmost(S), g \in Firstmost(S) : Before(g, f)
         /\ Cardinality(S) <= MaxFindings => Firstmost(S) = S
<1> DEFINE T == Firstmost(S)
<1>1. MaxFindings \in Nat
  BY ScanConstants
<1>2. T \subseteq S /\ IsFiniteSet(T) /\ Cardinality(T) \in Nat
  <2>1. T \subseteq S
    BY DEF Firstmost
  <2> HIDE DEF T
  <2> QED
    BY <2>1, FS_Subset, FS_CardinalityType
<1>3. \A f : Ahead(S, f) \subseteq S /\ IsFiniteSet(Ahead(S, f)) /\ Cardinality(Ahead(S, f)) \in Nat
  <2> TAKE f
  <2>1. Ahead(S, f) \subseteq S
    BY DEF Ahead
  <2> QED
    BY <2>1, FS_Subset, FS_CardinalityType
<1>4. \A f \in S : f \in T <=> Cardinality(Ahead(S, f)) < MaxFindings
  BY DEF Firstmost
<1> HIDE DEF T
<1>5. Cardinality(T) <= MaxFindings
  <2>1. CASE T = {}
    BY <1>1, <2>1, FS_EmptySet
  <2>2. CASE T # {}
    <3>1. PICK g \in T : Ahead(T, g) = T \ {g}
      BY <1>2, <2>2, LastFinding
    <3>2. Ahead(T, g) \subseteq Ahead(S, g)
      BY <1>2 DEF Ahead
    <3>3. Cardinality(T \ {g}) = Cardinality(T) - 1
      BY <1>2, <3>1, FS_RemoveElement
    <3>4. Cardinality(T \ {g}) <= Cardinality(Ahead(S, g))
      BY <1>3, <3>1, <3>2, FS_Subset
    <3>5. Cardinality(Ahead(S, g)) < MaxFindings
      BY <1>2, <1>4, <3>1
    <3>6. Cardinality(Ahead(S, g)) \in Nat
      BY <1>3
    <3> QED
      BY <1>1, <1>2, <3>3, <3>4, <3>5, <3>6
  <2> QED
    BY <2>1, <2>2
<1>6. ASSUME NEW f \in S \ T, NEW g \in T, ~Before(g, f) PROVE FALSE
  <2>1. f \in F /\ g \in F /\ f # g /\ Before(f, g)
    BY <1>2, <1>6, BeforeOrders
  <2>2. Ahead(S, f) \subseteq Ahead(S, g)
    <3>1. \A h \in S : Before(h, f) => Before(h, g)
      BY <2>1, BeforeOrders
    <3> QED
      BY <3>1 DEF Ahead
  <2>3. Cardinality(Ahead(S, f)) <= Cardinality(Ahead(S, g))
    BY <1>3, <2>2, FS_Subset
  <2>4. ~(Cardinality(Ahead(S, f)) < MaxFindings) /\ Cardinality(Ahead(S, g)) < MaxFindings
    BY <1>2, <1>4, <1>6
  <2>5. Cardinality(Ahead(S, f)) \in Nat /\ Cardinality(Ahead(S, g)) \in Nat
    BY <1>3
  <2> QED
    BY <1>1, <2>3, <2>4, <2>5
<1>7. ASSUME Cardinality(S) <= MaxFindings, NEW f \in S PROVE f \in T
  <2>1. Ahead(S, f) \subseteq S \ {f}
    <3>1. ~Before(f, f)
      BY BeforeOrders
    <3> QED
      BY <3>1 DEF Ahead
  <2>2. Cardinality(S \ {f}) = Cardinality(S) - 1 /\ IsFiniteSet(S \ {f})
    BY FS_RemoveElement
  <2>3. Cardinality(Ahead(S, f)) <= Cardinality(S \ {f})
    BY <2>1, <2>2, FS_Subset
  <2>4. Cardinality(S) \in Nat /\ Cardinality(Ahead(S, f)) \in Nat
    BY <1>3, FS_CardinalityType
  <2>5. Cardinality(Ahead(S, f)) < MaxFindings
    BY <1>1, <1>7, <2>2, <2>3, <2>4
  <2> QED
    BY <1>4, <2>5
<1> QED
  BY <1>2, <1>5, <1>6, <1>7 DEF T

-----------------------------------------------------------------------------
(* What a report consists of.                                                  *)

\* Two sequences joined hold what both of them hold.
LEMMA Joined ==
  ASSUME NEW B, NEW s \in Seq(B), NEW u \in Seq(B)
  PROVE  s \o u \in Seq(B) /\ Range(s \o u) = Range(s) \cup Range(u)
<1>1. s \in Seq(B) /\ u \in Seq(B)
  OBVIOUS
<1>2. /\ s \o u \in Seq(B) /\ Len(s \o u) = Len(s) + Len(u)
      /\ \A i \in 1 .. Len(s) + Len(u) : (s \o u)[i] = IF i <= Len(s) THEN s[i] ELSE u[i - Len(s)]
  BY <1>1, ConcatProperties
<1> DEFINE m == Len(s)
           n == Len(u)
           q == s \o u
<1>3. m \in Nat /\ n \in Nat /\ DOMAIN s = 1 .. m /\ DOMAIN u = 1 .. n
  BY <1>1
<1>4. DOMAIN q = 1 .. m + n
  BY <1>2
<1>5. \A i \in 1 .. m + n : q[i] = IF i <= m THEN s[i] ELSE u[i - m]
  BY <1>2
<1> HIDE DEF m, n, q
<1>6. \A i \in 1 .. m : i \in 1 .. m + n /\ q[i] = s[i]
  BY <1>3, <1>5
<1>7. \A i \in 1 .. n : i + m \in 1 .. m + n /\ q[i + m] = u[i]
  <2> TAKE i \in 1 .. n
  <2>1. i + m \in 1 .. m + n /\ ~(i + m <= m) /\ (i + m) - m = i
    BY <1>3
  <2> QED
    BY <1>5, <2>1
<1>8. \A i \in 1 .. m + n : \/ i \in 1 .. m /\ q[i] = s[i]
                            \/ i - m \in 1 .. n /\ q[i] = u[i - m]
  BY <1>3, <1>5
<1>9. Range(q) \subseteq Range(s) \cup Range(u)
  BY <1>3, <1>4, <1>8 DEF Range
<1>10. Range(s) \subseteq Range(q)
  BY <1>3, <1>4, <1>6 DEF Range
<1>11. Range(u) \subseteq Range(q)
  BY <1>3, <1>4, <1>7 DEF Range
<1> QED
  BY <1>2, <1>9, <1>10, <1>11 DEF q

\* A limit is among the issues of a scan when it has dropped something.
LEMMA ScanIssues ==
  ASSUME ScanInv, scan = "done"
  PROVE  /\ outcome.issues \in Seq(Range(outcome.issues))
         /\ \A x \in Range(outcome.issues) : x.code \in {"parse_error", "limit_exceeded"}
         /\ budget.exceeded # {} => \E x \in Range(outcome.issues) : x.code = "limit_exceeded"
<1> DEFINE w == [code |-> "limit_exceeded", fatal |-> FALSE]
           S == [code : {"parse_error"}, fatal : {TRUE}]
           L == LimitIssues(budget)
<1>1. PICK o : Kept(budget, o, AllFound, Analysed) /\ outcome = [o EXCEPT !.issues = @ \o LimitIssues(budget)]
  BY DEF ScanInv, Accounted
<1>2. o = [files |-> Cardinality(Analysed), bytes |-> Bytes(Analysed), issues |-> o.issues] /\ o.issues \in Seq(S)
  BY <1>1 DEF Kept, CountedIn, Issues
<1>3. outcome.issues = o.issues \o L
  BY <1>1, <1>2
<1>4. budget.exceeded \in SUBSET Kinds
  BY <1>1 DEF Kept, Summary, Collections
<1>5. \A x \in S : x.code = "parse_error"
  OBVIOUS
<1>6. w.code = "limit_exceeded"
  OBVIOUS
<1>7. \A k : IssueOf(budget, k) \in Seq({w}) /\ Range(IssueOf(budget, k)) = IF k \in budget.exceeded THEN {w} ELSE {}
  <2> TAKE k
  <2> HIDE DEF w
  <2>1. <<w>> \in Seq({w}) /\ <<>> \in Seq({w}) /\ Range(<<w>>) = {w} /\ Range(<<>>) = {}
    BY DEF Range
  <2>2. IssueOf(budget, k) = IF k \in budget.exceeded THEN <<w>> ELSE <<>>
    BY DEF IssueOf, w
  <2> QED
    BY <2>1, <2>2
<1> HIDE DEF w, S
<1>8. L \in Seq({w}) /\ Range(L) = IF budget.exceeded # {} THEN {w} ELSE {}
  <2>1. L \in Seq({w}) /\ Range(L) = Range(IssueOf(budget, "finding")) \cup Range(IssueOf(budget, "capability"))
    BY <1>7, Joined DEF LimitIssues
  <2> QED
    BY <1>4, <1>7, <2>1 DEF Kinds
<1> HIDE DEF L
<1>9. outcome.issues \in Seq(S \cup {w}) /\ Range(outcome.issues) = Range(o.issues) \cup Range(L)
  <2> DEFINE q == o.issues
             B == S \cup {w}
  <2>1. outcome.issues = q \o L
    BY <1>3
  <2>2. q \in Seq(B) /\ L \in Seq(B)
    BY <1>2, <1>8
  <2> HIDE DEF q, B
  <2>3. q \o L \in Seq(B) /\ Range(q \o L) = Range(q) \cup Range(L)
    BY <2>2, Joined
  <2> QED
    BY <2>1, <2>3 DEF q, B
<1>10. Range(o.issues) \subseteq S
  BY <1>2 DEF Range
<1>11. outcome.issues \in Seq(Range(outcome.issues))
  BY <1>9 DEF Range
<1>12. \A x \in Range(outcome.issues) : x.code \in {"parse_error", "limit_exceeded"}
  BY <1>5, <1>6, <1>8, <1>9, <1>10
<1>13. budget.exceeded # {} => w \in Range(outcome.issues)
  BY <1>8, <1>9
<1> QED
  BY <1>6, <1>11, <1>12, <1>13

Given == config \in Configurations /\ dependency \in Dependencies /\ scripts \in Scripts

Sources == IF scan = "done" THEN UNION Range(budget.kept) ELSE {}

Hooks == {ScriptFinding(s) : s \in scripts}

Gathered == Sources \cup Hooks \cup dependency.findings

Raised == (IF scan = "done" THEN outcome.issues ELSE <<ScanIssue>>) \o dependency.issues

\* What is found in sources is what the budget of the scan has kept of it.
LEMMA SourcesAre ==
  ASSUME ScanInv, Given
  PROVE  /\ InTree /\ AllFound \in SUBSET Findable(tree) /\ IsFiniteSet(AllFound)
         /\ budget.kept \in [Kinds -> SUBSET AllFound]
         /\ UNION Range(budget.kept) \in SUBSET AllFound /\ IsFiniteSet(UNION Range(budget.kept))
         /\ \A k \in Kinds : /\ Gravest(budget.kept[k], OfKind(AllFound, k))
                             /\ k \in budget.exceeded <=> OfKind(AllFound, k) # budget.kept[k]
                             /\ OfKind(UNION Range(budget.kept), k) = budget.kept[k]
         /\ Identified(AllFound) /\ \A f \in AllFound : f.package = Root
<1>1. PICK o : Kept(budget, o, AllFound, Analysed)
  BY SummarySays
<1>2. InTree /\ AllFound \in SUBSET Findable(tree) /\ IsFiniteSet(AllFound) /\ Summary(budget, AllFound)
  BY <1>1 DEF Kept, ScanInv
<1>3. budget.kept \in [Kinds -> SUBSET AllFound]
  BY <1>2 DEF Summary, Collections
<1>4. \A k \in Kinds : /\ Gravest(budget.kept[k], OfKind(AllFound, k))
                       /\ k \in budget.exceeded <=> OfKind(AllFound, k) # budget.kept[k]
  BY <1>2 DEF Summary
<1>5. UNION Range(budget.kept) = UNION {budget.kept[k] : k \in Kinds}
  BY <1>3 DEF Range
<1>6. UNION Range(budget.kept) \in SUBSET AllFound
  BY <1>3, <1>5
<1>7. IsFiniteSet(UNION Range(budget.kept))
  BY <1>2, <1>6, FS_Subset
<1>8. \A k \in Kinds : \A f \in budget.kept[k] : f.kind = k
  BY <1>4 DEF Gravest, OfKind
<1>9. \A k \in Kinds : OfKind(UNION Range(budget.kept), k) = budget.kept[k]
  BY <1>5, <1>8 DEF OfKind
<1>10. Identified(AllFound)
  BY <1>2, TreeFindings DEF Identified
<1>11. \A f \in Findable(tree) : f.package = Root
  <2>1. \A x : Finding(x).package = Root
    BY DEF Finding
  <2>2. \A e : \A f \in Range(FileFindings(e)) : f.package = Root
    <3> TAKE e
    <3>1. FileFindings(e) = <<>> \/ \E f : FileFindings(e) = <<f>> /\ f.package = Root
      BY DEF FileFindings
    <3>2. Range(<<>>) = {} /\ \A f : Range(<<f>>) = {f}
      BY DEF Range
    <3> QED
      BY <3>1, <3>2
  <2> QED
    BY <2>1, <2>2 DEF Findable
<1> QED
  BY <1>2, <1>3, <1>4, <1>6, <1>7, <1>9, <1>10, <1>11

\* Findings of manifests and of the dependency are others.
LEMMA OthersAre ==
  ASSUME ScanInv, Given
  PROVE  /\ IsFiniteSet(Hooks) /\ IsFiniteSet(dependency.findings)
         /\ Identified(AllFound \cup Hooks) /\ Identified(dependency.findings)
         /\ \A s \in scripts : \A f \in AllFound : f.id # s.id
         /\ \A f \in Hooks : f.kind = "finding" /\ f.package = Root /\ Hook(f)
         /\ \A f \in dependency.findings : f.package # Root /\ f.kind \in Kinds
         /\ \A k \in Kinds : Cardinality(OfKind(dependency.findings, k)) <= MaxFindings
         /\ dependency.issues \in Seq(Range(dependency.issues)) /\ config.threshold \in Int
<1>1. /\ IsFiniteSet(dependency.findings) /\ dependency.issues \in Seq(Range(dependency.issues))
      /\ \A f \in dependency.findings : f.id \in Int /\ f.risk \in Int /\ f.kind \in Kinds /\ f.package # Root
      /\ \A f, g \in dependency.findings : f.id = g.id => f = g
      /\ \A k \in Kinds : Cardinality({f \in dependency.findings : f.kind = k}) <= MaxFindings
  BY ReportAssumption DEF Given
<1>2. /\ IsFiniteSet(scripts) /\ \A s \in scripts : s.id \in Int
      /\ \A s, t \in scripts : s.id = t.id => s = t
      /\ \A t \in Trees, s \in scripts : \A f \in Findable(t) : f.id # s.id
  BY ReportAssumption DEF Given
<1>3. config.threshold \in Int
  BY ReportAssumption DEF Given
<1>4. tree \in Trees /\ AllFound \in SUBSET Findable(tree) /\ Identified(AllFound)
  BY SourcesAre DEF InTree
<1>5. \A s \in scripts : \A f \in AllFound : f.id # s.id
  BY <1>2, <1>4
<1>6. \A s \in scripts : LET f == ScriptFinding(s) IN
        f.id = s.id /\ f.kind = "finding" /\ f.package = Root /\ f.risk \in Int /\ f.rule \in {"npm hook", "python hook"}
  BY DEF ScriptFinding
<1>a. \A f \in Hooks : \E s \in scripts : f = ScriptFinding(s)
  BY DEF Hooks
<1>7. \A f \in Hooks : f.kind = "finding" /\ f.package = Root /\ Hook(f)
  <2>1. GroupOf["npm hook"] = "install" /\ GroupOf["python hook"] = "install"
    BY ReportAssumption
  <2>2. \A s \in scripts : Hook(ScriptFinding(s))
    BY <1>6, <2>1 DEF Hook
  <2> QED
    BY <1>6, <1>a, <2>2
<1>8. IsFiniteSet(Hooks)
  <2> DEFINE g == [s \in scripts |-> ScriptFinding(s)]
  <2>1. g \in Surjection(scripts, Hooks)
    BY DEF Surjection, Hooks
  <2> QED
    BY <1>2, <2>1, FS_Surjection
<1>9. Identified(AllFound \cup Hooks)
  <2>h. ASSUME NEW f \in Hooks
        PROVE  \E s \in scripts : f = ScriptFinding(s) /\ f.id = s.id /\ f.risk \in Int /\ f.kind = "finding"
    <3>1. PICK s \in scripts : f = ScriptFinding(s)
      BY <1>a
    <3> QED
      BY <1>6, <3>1
  <2>1. ASSUME NEW f \in Hooks PROVE f.id \in Int /\ f.risk \in Int /\ f.kind \in Kinds
    <3>1. PICK s \in scripts : f.id = s.id /\ f.risk \in Int /\ f.kind = "finding"
      BY <2>h
    <3>2. s.id \in Int
      BY <1>2
    <3> QED
      BY <3>1, <3>2 DEF Kinds
  <2>2. ASSUME NEW f \in Hooks, NEW g \in Hooks, f.id = g.id PROVE f = g
    <3>1. PICK s \in scripts : f = ScriptFinding(s) /\ f.id = s.id
      BY <2>h
    <3>2. PICK u \in scripts : g = ScriptFinding(u) /\ g.id = u.id
      BY <2>h
    <3>3. s = u
      BY <1>2, <2>2, <3>1, <3>2
    <3> QED
      BY <3>1, <3>2, <3>3
  <2>3. ASSUME NEW f \in AllFound, NEW g \in Hooks, f.id = g.id PROVE FALSE
    <3>1. PICK s \in scripts : g.id = s.id
      BY <2>h
    <3> QED
      BY <1>5, <2>3, <3>1
  <2>4. /\ \A f \in AllFound : f.id \in Int /\ f.risk \in Int /\ f.kind \in Kinds
        /\ \A f, g \in AllFound : f.id = g.id => f = g
    BY <1>4 DEF Identified
  <2> QED
    BY <2>1, <2>2, <2>3, <2>4 DEF Identified
<1>10. Identified(dependency.findings)
  BY <1>1 DEF Identified
<1> QED
  BY <1>1, <1>3, <1>5, <1>7, <1>8, <1>9, <1>10 DEF OfKind

\* The report before it is finalised, after, and when suppressions are marked.
Collected == RecordSharedScan(RecordPackage(RecordInstallScripts(RecordScan(EmptyReport))))

Finalized == EnforceFindingLimits(RecordCapabilities(DropIgnored(Collected)))

Marked == [Finalized EXCEPT !.findings = ApplySuppressions(@), !.capabilities = ApplySuppressions(@)]

\* The report that is collected is made of what the scans kept.
LEMMA Collects ==
  ASSUME ScanInv, Given
  PROVE  Collected = [findings |-> Gathered, capabilities |-> {}, issues |-> Raised, packages |-> {Root},
                      files |-> Collected.files, bytes |-> Collected.bytes]
<1> DEFINE r == RecordScan(EmptyReport)
           is == IF scan = "done" THEN outcome.issues ELSE <<ScanIssue>>
<1>1. r = [findings |-> Sources, capabilities |-> {}, issues |-> is, packages |-> {},
           files |-> r.files, bytes |-> r.bytes]
  <2>1. CASE scan = "done"
    <3>1. outcome.issues \in Seq(Range(outcome.issues))
      BY <2>1, ScanIssues
    <3>2. <<>> \o outcome.issues = outcome.issues
      BY <3>1, ConcatEmptySeq
    <3> QED
      BY <2>1, <3>2 DEF RecordScan, EmptyReport, Sources
  <2>2. CASE scan # "done"
    <3>1. Append(<<>>, ScanIssue) = <<ScanIssue>>
      OBVIOUS
    <3> QED
      BY <2>2, <3>1 DEF RecordScan, EmptyReport, Sources
  <2> QED
    BY <2>1, <2>2
<1> HIDE DEF r, is
<1>2. \A f \in Sources : f \in AllFound
  BY SourcesAre DEF Sources
<1>3. {s \in scripts : \A f \in r.findings : f.id # s.id} = scripts
  <2>1. r.findings = Sources
    BY <1>1
  <2> QED
    BY <1>2, <2>1, OthersAre
<1>4. RecordInstallScripts(r) = [r EXCEPT !.findings = @ \cup Hooks]
  BY <1>3 DEF RecordInstallScripts, Hooks
<1>5. Collected = RecordSharedScan(RecordPackage(RecordInstallScripts(r)))
  BY DEF Collected, r
<1> DEFINE x == RecordInstallScripts(r)
           q == RecordPackage(x)
<1>6. q = [findings |-> Sources \cup Hooks, capabilities |-> {}, issues |-> is,
           packages |-> {Root}, files |-> r.files, bytes |-> r.bytes]
  <2>1. x = [findings |-> Sources \cup Hooks, capabilities |-> {}, issues |-> is,
             packages |-> {}, files |-> r.files, bytes |-> r.bytes]
    BY <1>1, <1>4
  <2> HIDE DEF x
  <2> QED
    BY <2>1 DEF RecordPackage
<1>7. Collected = [q EXCEPT !.findings = @ \cup dependency.findings, !.issues = @ \o dependency.issues]
  BY <1>5 DEF RecordSharedScan
<1> HIDE DEF q
<1> DEFINE js == is \o dependency.issues
<1>8. js = Raised
  BY DEF is, Raised
<1>9. Collected = [findings |-> Gathered, capabilities |-> {}, issues |-> js,
                   packages |-> {Root}, files |-> r.files, bytes |-> r.bytes]
  <2>1. q.issues \o dependency.issues = js
    BY <1>6
  <2>2. q.findings \cup dependency.findings = Gathered
    BY <1>6 DEF Gathered
  <2> HIDE DEF js
  <2>3. Collected = [q EXCEPT !.findings = Gathered, !.issues = js]
    BY <1>7, <2>1, <2>2, Zenon
  <2> DEFINE H == Sources \cup Hooks
  <2>4. q = [findings |-> H, capabilities |-> {}, issues |-> is,
             packages |-> {Root}, files |-> r.files, bytes |-> r.bytes]
    BY <1>6
  <2> HIDE DEF H
  <2> QED
    BY <2>3, <2>4
<1> HIDE DEF js
<1> QED
  BY <1>8, <1>9

Unignored == {f \in Gathered : ~Selected(IgnoredSelectors, f.rule)}

Candidates == OfKind(Unignored, "finding")

CutShort == {[code |-> "limit_exceeded", fatal |-> FALSE, package |-> p] :
               p \in {f.package : f \in Candidates \ Retained(Candidates)}}

\* Finalising a report takes out what is ignored, cuts it to its limits and says
\* so.
LEMMA Finalizes ==
  ASSUME ScanInv, Given
  PROVE  Finalized = [findings |-> Retained(Candidates), capabilities |-> OfKind(Unignored, "capability"),
                      issues |-> Raised \o SetToSeq(CutShort), packages |-> {Root},
                      files |-> Collected.files, bytes |-> Collected.bytes]
<1> DEFINE n == Collected.files
           m == Collected.bytes
<1>1. Collected = [findings |-> Gathered, capabilities |-> {}, issues |-> Raised, packages |-> {Root},
                   files |-> n, bytes |-> m]
  BY Collects
<1> HIDE DEF n, m
<1> DEFINE r == DropIgnored(Collected)
           q == RecordCapabilities(r)
<1>2. r = [findings |-> Unignored, capabilities |-> {}, issues |-> Raised, packages |-> {Root},
           files |-> n, bytes |-> m]
  BY <1>1 DEF DropIgnored, Unignored
<1> HIDE DEF r
<1> DEFINE A == OfKind(Unignored, "finding")
           B == OfKind(Unignored, "capability")
<1>3. q = [findings |-> A, capabilities |-> B, issues |-> Raised, packages |-> {Root},
           files |-> n, bytes |-> m]
  <2>1. q = [r EXCEPT !.findings = A, !.capabilities = B]
    <3>1. {f \in r.findings : f.kind = "finding"} = A /\ {f \in r.findings : f.kind = "capability"} = B
      BY <1>2 DEF OfKind
    <3> HIDE DEF A, B
    <3> QED
      BY <3>1 DEF RecordCapabilities
  <2> HIDE DEF A, B, q
  <2> QED
    BY <1>2, <2>1
<1>4. Finalized = EnforceFindingLimits(q)
  BY DEF Finalized, q, r
<1> DEFINE K == Retained(A)
           C == {[code |-> "limit_exceeded", fatal |-> FALSE, package |-> p] : p \in {f.package : f \in A \ K}}
           js == Raised \o SetToSeq(C)
<1>5. EnforceFindingLimits(q) = [q EXCEPT !.findings = K, !.issues = js]
  <2>1. q.findings = A /\ q.issues = Raised
    BY <1>3
  <2> HIDE DEF q, A
  <2> QED
    BY <2>1 DEF EnforceFindingLimits
<1>6. A = Candidates /\ K = Retained(Candidates) /\ js = Raised \o SetToSeq(CutShort)
  BY DEF Candidates, CutShort
<1> HIDE DEF q, A, B, K, js
<1>7. EnforceFindingLimits(q) = [findings |-> K, capabilities |-> B, issues |-> js, packages |-> {Root},
                                 files |-> n, bytes |-> m]
  BY <1>3, <1>5
<1> QED
  BY <1>4, <1>6, <1>7 DEF n, m, B

\* All issues of a report, whatever their order.
LEMMA IssuesAre ==
  ASSUME ScanInv, Given
  PROVE  /\ Finalized.issues \in Seq(Range(Finalized.issues))
         /\ Range(Finalized.issues) = (IF scan = "done" THEN Range(outcome.issues) ELSE {ScanIssue})
                                        \cup Range(dependency.issues) \cup CutShort
<1> DEFINE is == IF scan = "done" THEN outcome.issues ELSE <<ScanIssue>>
           js == SetToSeq(CutShort)
           ds == dependency.issues
<1>1. is \in Seq(Range(is)) /\ Range(is) = IF scan = "done" THEN Range(outcome.issues) ELSE {ScanIssue}
  <2>1. CASE scan = "done"
    BY <2>1, ScanIssues
  <2>2. CASE scan # "done"
    <3> DEFINE x == ScanIssue
    <3>1. is = <<x>>
      BY <2>2
    <3> HIDE DEF x
    <3>2. Range(<<x>>) = {x} /\ <<x>> \in Seq({x})
      BY DEF Range
    <3>3. is \in Seq(Range(is)) /\ Range(is) = {x}
      BY <3>1, <3>2
    <3> QED
      BY <2>2, <3>3 DEF x
  <2> QED
    BY <2>1, <2>2
<1>2. ds \in Seq(Range(ds))
  BY OthersAre
<1>3. IsFiniteSet(CutShort)
  <2>1. IsFiniteSet(Candidates)
    <3>1. IsFiniteSet(Sources)
      <4>1. Sources = UNION Range(budget.kept) \/ Sources = {}
        BY DEF Sources
      <4> QED
        BY <4>1, SourcesAre, FS_EmptySet
    <3>2. IsFiniteSet(Gathered)
      BY <3>1, OthersAre, FS_Union DEF Gathered
    <3>3. Candidates \subseteq Gathered
      BY DEF Candidates, OfKind, Unignored
    <3> QED
      BY <3>2, <3>3, FS_Subset
  <2> DEFINE D == Candidates \ Retained(Candidates)
             g == [f \in D |-> [code |-> "limit_exceeded", fatal |-> FALSE, package |-> f.package]]
  <2>2. IsFiniteSet(D)
    BY <2>1, FS_Subset
  <2>3. g \in Surjection(D, CutShort)
    <3>1. \A f \in D : g[f] \in CutShort
      BY DEF CutShort
    <3>2. \A x \in CutShort : \E f \in D : g[f] = x
      BY DEF CutShort
    <3> HIDE DEF D
    <3>3. g \in [D -> CutShort]
      BY <3>1
    <3> HIDE DEF g
    <3> QED
      BY <3>2, <3>3 DEF Surjection
  <2> QED
    BY <2>2, <2>3, FS_Surjection
<1>4. js \in Seq(CutShort) /\ Range(js) = CutShort
  BY <1>3, InSequence
<1>5. Finalized.issues = (is \o ds) \o js
  <2> DEFINE A == Retained(Candidates)
             C == OfKind(Unignored, "capability")
             x == Raised \o js
             n == Collected.files
             m == Collected.bytes
  <2>1. Finalized = [findings |-> A, capabilities |-> C, issues |-> x, packages |-> {Root}, files |-> n, bytes |-> m]
    BY Finalizes
  <2>2. x = (is \o ds) \o js
    BY DEF Raised
  <2> HIDE DEF A, C, n, m, x
  <2>3. Finalized.issues = x
    BY <2>1
  <2> QED
    BY <2>2, <2>3
<1> HIDE DEF is, js, ds
<1> DEFINE B == Range(is) \cup Range(ds) \cup CutShort
           q == is \o ds
<1>6. is \in Seq(B) /\ ds \in Seq(B) /\ js \in Seq(B)
  BY <1>1, <1>2, <1>4
<1>7. B = Range(is) \cup Range(ds) \cup CutShort
  OBVIOUS
<1> HIDE DEF B
<1>8. q \in Seq(B) /\ Range(q) = Range(is) \cup Range(ds)
  BY <1>6, Joined
<1> HIDE DEF q
<1>9. q \o js \in Seq(B) /\ Range(q \o js) = Range(q) \cup Range(js)
  BY <1>6, <1>8, Joined
<1>10. Range(Finalized.issues) = B /\ Finalized.issues \in Seq(B)
  BY <1>4, <1>5, <1>7, <1>8, <1>9 DEF q
<1> QED
  BY <1>1, <1>7, <1>10 DEF ds

\* Each finding is marked once, as suppressed if a suppression matches it.
LEMMA Marks ==
  ASSUME NEW fs
  PROVE  /\ {x.finding : x \in ApplySuppressions(fs)} = fs
         /\ \A x \in ApplySuppressions(fs) :
              x.suppression = <<>> <=>
                ~\E i \in DOMAIN config.suppressions : SuppressedBy(config.suppressions[i], x.finding)
<1> DEFINE by(f) == {i \in DOMAIN config.suppressions : SuppressedBy(config.suppressions[i], f)}
           reason(f) == config.suppressions[Min(by(f))].reason
           mark(f) == [finding |-> f, suppression |-> IF by(f) = {} THEN <<>> ELSE <<reason(f)>>]
<1>1. ApplySuppressions(fs) = {mark(f) : f \in fs}
  BY DEF ApplySuppressions
<1>2. \A f : by(f) = {} <=> ~\E i \in DOMAIN config.suppressions : SuppressedBy(config.suppressions[i], f)
  OBVIOUS
<1> HIDE DEF by, reason
<1>3. \A f : mark(f).finding = f /\ (mark(f).suppression = <<>> <=> by(f) = {})
  <2> TAKE f
  <2>1. <<reason(f)>> # <<>>
    OBVIOUS
  <2> QED
    BY <2>1
<1> HIDE DEF mark
<1>4. {x.finding : x \in ApplySuppressions(fs)} = fs
  BY <1>1, <1>3
<1>5. \A x \in ApplySuppressions(fs) : \E f \in fs : x = mark(f)
  BY <1>1
<1> QED
  BY <1>2, <1>3, <1>4, <1>5

\* What a finished report shows.
LEMMA Shows ==
  ASSUME ScanInv, Given, report = Marked
  PROVE  /\ Shown = Retained(Candidates) \cup OfKind(Unignored, "capability")
         /\ report.findings = ApplySuppressions(Retained(Candidates))
         /\ report.issues = Finalized.issues
<1> DEFINE K == Retained(Candidates)
           C == OfKind(Unignored, "capability")
           js == Raised \o SetToSeq(CutShort)
           n == Collected.files
           m == Collected.bytes
<1>1. Finalized = [findings |-> K, capabilities |-> C, issues |-> js, packages |-> {Root}, files |-> n, bytes |-> m]
  BY Finalizes
<1> DEFINE x == ApplySuppressions(K)
           y == ApplySuppressions(C)
<1>2. {z.finding : z \in x} = K /\ {z.finding : z \in y} = C
  BY Marks
<1>3. Marked = [Finalized EXCEPT !.findings = x, !.capabilities = y]
  <2>1. Finalized.findings = K /\ Finalized.capabilities = C
    BY <1>1
  <2> HIDE DEF K, C
  <2> QED
    BY <2>1 DEF Marked
<1> HIDE DEF K, C, js, n, m, x, y
<1>4. report.findings = x /\ report.capabilities = y /\ report.issues = js /\ Finalized.issues = js
  BY <1>1, <1>3
<1>5. Shown = K \cup C
  BY <1>2, <1>4 DEF Shown
<1> QED
  BY <1>4, <1>5 DEF K, C, x

-----------------------------------------------------------------------------
(* The gravest findings are in the report.                                     *)

\* The findings of one package that compete for its places.
Competing(p) == {f \in Candidates : f.package = p}

\* What was found is collected, or was dropped by the scan below what it kept.
LEMMA CollectedOrDropped ==
  ASSUME ScanInv, Given
  PROVE  /\ Gathered \subseteq Found /\ IsFiniteSet(Found)
         /\ \A f \in Found : f.kind \in Kinds
         /\ \A f \in Found \ Gathered :
              /\ scan = "done" /\ f \in AllFound /\ f.package = Root /\ f.kind \in budget.exceeded
              /\ budget.kept[f.kind] \subseteq Gathered /\ f \notin budget.kept[f.kind]
              /\ Cardinality(budget.kept[f.kind]) = MaxFindings
              /\ \A g \in budget.kept[f.kind] :
                   Above(g, f) /\ g.kind = f.kind /\ g.package = Root /\ g \in AllFound
         /\ \A f \in Gathered : f.package = Root => f \in AllFound \cup Hooks
         /\ \A f \in Gathered : f.package = Root /\ f \notin Hooks => scan = "done" /\ f \in budget.kept[f.kind]
         /\ \A f \in Gathered : f.package # Root => f \in dependency.findings
         /\ \A f \in Hooks : f.kind = "finding" /\ Hook(f)
<1> DEFINE K == UNION Range(budget.kept)
<1>1. /\ IsFiniteSet(AllFound) /\ IsFiniteSet(Hooks) /\ IsFiniteSet(dependency.findings)
      /\ K \in SUBSET AllFound /\ \A k \in Kinds : budget.kept[k] = OfKind(K, k)
  BY SourcesAre, OthersAre
<1>2. /\ \A k \in Kinds : /\ Gravest(budget.kept[k], OfKind(AllFound, k))
                          /\ k \in budget.exceeded <=> OfKind(AllFound, k) # budget.kept[k]
      /\ \A f \in AllFound : f.package = Root /\ f.kind \in Kinds
  BY SourcesAre DEF Identified
<1>3. /\ \A f \in Hooks : f.kind = "finding" /\ f.package = Root /\ Hook(f)
      /\ \A f \in dependency.findings : f.package # Root /\ f.kind \in Kinds
  BY OthersAre
<1> HIDE DEF K
<1>4. Found = (IF scan = "done" THEN AllFound ELSE {}) \cup Hooks \cup dependency.findings
  BY DEF Found, Hooks
<1>5. Gathered = (IF scan = "done" THEN K ELSE {}) \cup Hooks \cup dependency.findings
  BY DEF Gathered, Sources, K
<1> HIDE DEF Hooks
<1>6. Gathered \subseteq Found
  BY <1>1, <1>4, <1>5
<1>7. IsFiniteSet(Found)
  <2>1. IsFiniteSet(AllFound \cup Hooks) /\ IsFiniteSet({} \cup Hooks)
    BY <1>1, FS_Union, FS_EmptySet
  <2>2. IsFiniteSet((IF scan = "done" THEN AllFound ELSE {}) \cup Hooks)
    BY <2>1
  <2> QED
    BY <1>1, <1>4, <2>2, FS_Union
<1>8. \A f \in Found : f.kind \in Kinds
  BY <1>2, <1>3, <1>4 DEF Kinds
<1>9. ASSUME NEW f \in Found \ Gathered
      PROVE  /\ scan = "done" /\ f \in AllFound /\ f.package = Root /\ f.kind \in budget.exceeded
             /\ budget.kept[f.kind] \subseteq Gathered /\ f \notin budget.kept[f.kind]
             /\ Cardinality(budget.kept[f.kind]) = MaxFindings
             /\ \A g \in budget.kept[f.kind] :
                  Above(g, f) /\ g.kind = f.kind /\ g.package = Root /\ g \in AllFound
  <2> DEFINE k == f.kind
  <2>1. scan = "done" /\ f \in AllFound /\ f \notin K
    BY <1>4, <1>5, <1>9
  <2>2. k \in Kinds /\ f.package = Root /\ f \in OfKind(AllFound, k)
    BY <1>2, <2>1 DEF OfKind
  <2>3. budget.kept[k] = OfKind(K, k) /\ f \notin budget.kept[k]
    BY <1>1, <2>1, <2>2 DEF OfKind
  <2>4. Gravest(budget.kept[k], OfKind(AllFound, k)) /\ k \in budget.exceeded
    BY <1>2, <2>2, <2>3
  <2>5. Cardinality(budget.kept[k]) = MaxFindings /\ \A g \in budget.kept[k] : Above(g, f)
    BY <2>2, <2>3, <2>4 DEF Gravest
  <2>6. \A g \in budget.kept[k] : g \in K /\ g.kind = k
    BY <2>3 DEF OfKind
  <2>7. \A g \in budget.kept[k] : g \in AllFound /\ g.package = Root
    BY <1>1, <1>2, <2>6
  <2>8. budget.kept[k] \subseteq Gathered
    BY <1>5, <2>1, <2>6
  <2> QED
    BY <2>1, <2>2, <2>3, <2>4, <2>5, <2>6, <2>7, <2>8
<1>10. \A f \in Gathered : f.package = Root => f \in AllFound \cup Hooks
  BY <1>1, <1>3, <1>5
<1>11. ASSUME NEW f \in Gathered, f.package = Root, f \notin Hooks
       PROVE  scan = "done" /\ f \in budget.kept[f.kind]
  <2>1. scan = "done" /\ f \in K
    BY <1>3, <1>5, <1>11
  <2>2. f.kind \in Kinds /\ budget.kept[f.kind] = OfKind(K, f.kind)
    BY <1>1, <1>2, <2>1
  <2> QED
    BY <2>1, <2>2 DEF OfKind
<1>12. \A f \in Gathered : f.package # Root => f \in dependency.findings
  BY <1>1, <1>2, <1>3, <1>5
<1> QED
  BY <1>3, <1>6, <1>7, <1>8, <1>9, <1>10, <1>11, <1>12

\* Of each package those that compete are in a line, the first ones are shown.
LEMMA PackagesCompete ==
  ASSUME ScanInv, Given, NEW p
  PROVE  /\ IsFiniteSet(Competing(p)) /\ \E F : Identified(F) /\ Competing(p) \in SUBSET F
         /\ {f \in Retained(Candidates) : f.package = p} = Firstmost(Competing(p))
         /\ Cardinality(Firstmost(Competing(p))) <= MaxFindings
         /\ \A f \in Competing(p) \ Firstmost(Competing(p)), g \in Firstmost(Competing(p)) : Before(g, f)
         /\ Cardinality(Competing(p)) <= MaxFindings => Firstmost(Competing(p)) = Competing(p)
<1>1. Competing(p) \subseteq Gathered /\ \A f \in Competing(p) : f.package = p
  BY DEF Competing, Candidates, OfKind, Unignored
<1>2. IsFiniteSet(Competing(p))
  BY <1>1, CollectedOrDropped, FS_Subset
<1>3. \E F : Identified(F) /\ Competing(p) \in SUBSET F
  <2>1. CASE p = Root
    <3>1. Identified(AllFound \cup Hooks) /\ Competing(p) \in SUBSET (AllFound \cup Hooks)
      BY <1>1, <2>1, CollectedOrDropped, OthersAre
    <3> QED
      BY <3>1
  <2>2. CASE p # Root
    <3>1. Identified(dependency.findings) /\ Competing(p) \in SUBSET dependency.findings
      BY <1>1, <2>2, CollectedOrDropped, OthersAre
    <3> QED
      BY <3>1
  <2> QED
    BY <2>1, <2>2
<1>4. {f \in Retained(Candidates) : f.package = p} = Firstmost(Competing(p))
  <2>1. ASSUME NEW f \in Candidates, f.package = p
        PROVE  {g \in Candidates : g.package = f.package /\ Before(g, f)} = Ahead(Competing(p), f)
    BY <2>1 DEF Ahead, Competing
  <2>2. \A f \in Candidates : f.package = p =>
          (f \in Retained(Candidates) <=> Cardinality(Ahead(Competing(p), f)) < MaxFindings)
    BY <2>1 DEF Retained
  <2>3. Retained(Candidates) \subseteq Candidates
    BY DEF Retained
  <2>4. \A f : f \in Competing(p) <=> f \in Candidates /\ f.package = p
    BY DEF Competing
  <2> QED
    BY <2>2, <2>3, <2>4 DEF Firstmost
<1> QED
  BY <1>2, <1>3, <1>4, FirstmostKept

\* What is shown of a kind and a package.
LEMMA ShownOfPackage ==
  ASSUME ScanInv, Given, report = Marked, NEW p, NEW k \in Kinds
  PROVE  /\ Of(Shown, p, k) = IF k = "finding" THEN Firstmost(Competing(p)) ELSE Of(Unignored, p, k)
         /\ Of(Unignored, p, "finding") = Competing(p)
         /\ Shown \subseteq Unignored /\ Unignored \subseteq Gathered /\ Unignored = Gathered \cap Evident
<1>1. Shown = Retained(Candidates) \cup OfKind(Unignored, "capability")
  BY Shows
<1>2. {f \in Retained(Candidates) : f.package = p} = Firstmost(Competing(p))
  BY PackagesCompete
<1>3. Retained(Candidates) \subseteq Candidates /\ \A f \in Candidates : f.kind = "finding" /\ f \in Unignored
  BY DEF Retained, Candidates, OfKind
<1>4. Of(Unignored, p, "finding") = Competing(p)
  BY DEF Of, Competing, Candidates, OfKind
<1>5. Gathered \subseteq Found
  BY CollectedOrDropped
<1>6. Unignored = Gathered \cap Evident
  BY <1>5 DEF Unignored, Evident
<1>7. CASE k = "finding"
  <2>1. Of(Shown, p, k) = {f \in Retained(Candidates) : f.package = p}
    BY <1>1, <1>3, <1>7 DEF Of, OfKind
  <2> QED
    BY <1>1, <1>2, <1>3, <1>4, <1>6, <1>7, <2>1 DEF OfKind
<1>8. CASE k = "capability"
  <2>1. Of(Shown, p, k) = Of(Unignored, p, k)
    BY <1>1, <1>3, <1>8 DEF Of, OfKind
  <2> QED
    BY <1>1, <1>3, <1>4, <1>6, <1>8, <2>1 DEF OfKind
<1> QED
  BY <1>7, <1>8 DEF Kinds

\* There are no more of them than the limit.
LEMMA ShownWithinLimit ==
  ASSUME ScanInv, Given, report = Marked, NEW p, NEW k \in Kinds
  PROVE  Cardinality(Of(Shown, p, k)) <= MaxFindings
<1>1. CASE k = "finding"
  BY <1>1, ShownOfPackage, PackagesCompete
<1>2. CASE k # "finding"
  <2> DEFINE C == Of(Unignored, p, k)
  <2>1. Of(Shown, p, k) = C /\ C \subseteq Gathered /\ \A f \in C : f.package = p /\ f.kind = k
    BY <1>2, ShownOfPackage DEF Of
  <2> HIDE DEF C
  <2>2. MaxFindings \in Nat /\ IsFiniteSet(C) /\ Cardinality(C) \in Nat
    BY <2>1, CollectedOrDropped, FS_Subset, FS_CardinalityType, ScanConstants
  <2>3. CASE p = Root
    <3>1. \A f \in C : f \notin Hooks
      BY <1>2, <2>1, CollectedOrDropped
    <3>2. \A f \in C : scan = "done" /\ f \in budget.kept[k]
      BY <2>1, <2>3, <3>1, CollectedOrDropped
    <3>3. C \subseteq budget.kept[k]
      BY <3>2
    <3>4. Gravest(budget.kept[k], OfKind(AllFound, k)) /\ IsFiniteSet(AllFound)
      BY SourcesAre
    <3>5. budget.kept[k] \subseteq AllFound /\ Cardinality(budget.kept[k]) <= MaxFindings
      BY <3>4 DEF Gravest, OfKind
    <3>6. IsFiniteSet(budget.kept[k])
      BY <3>4, <3>5, FS_Subset
    <3>7. Cardinality(C) <= Cardinality(budget.kept[k]) /\ Cardinality(budget.kept[k]) \in Nat
      BY <3>3, <3>6, FS_Subset, FS_CardinalityType
    <3> QED
      BY <2>1, <2>2, <3>5, <3>7
  <2>4. CASE p # Root
    <3> DEFINE D == OfKind(dependency.findings, k)
    <3>1. C \subseteq D
      BY <2>1, <2>4, CollectedOrDropped DEF OfKind
    <3>2. IsFiniteSet(dependency.findings) /\ Cardinality(D) <= MaxFindings
      BY OthersAre
    <3>3. D \subseteq dependency.findings
      BY DEF OfKind
    <3> HIDE DEF D
    <3>4. IsFiniteSet(D)
      BY <3>2, <3>3, FS_Subset
    <3>5. Cardinality(C) <= Cardinality(D) /\ Cardinality(D) \in Nat
      BY <3>1, <3>4, FS_Subset, FS_CardinalityType
    <3> QED
      BY <2>1, <2>2, <3>2, <3>5
  <2> QED
    BY <2>3, <2>4
<1> QED
  BY <1>1, <1>2

\* What is shown ranks before what is not.
LEMMA ShownOutranks ==
  ASSUME ScanInv, Given, report = Marked, NEW p, NEW k \in Kinds, Of(Found, p, k) = Of(Evident, p, k),
         NEW f \in Of(Evident \ Shown, p, k), NEW g \in Of(Shown, p, k)
  PROVE  Outranks(g, f)
<1>1. f \in Found /\ f \in Evident /\ f \notin Shown /\ f.package = p /\ f.kind = k
  BY DEF Of, Evident
<1>2. g \in Gathered /\ g \in Unignored /\ g.package = p /\ g.kind = k
  BY ShownOfPackage DEF Of
<1>3. CASE f \in Gathered
  <2>1. f \in Of(Unignored, p, k) /\ f \notin Of(Shown, p, k)
    BY <1>1, <1>3, ShownOfPackage DEF Of
  <2>2. k = "finding"
    BY <2>1, ShownOfPackage
  <2>3. f \in Competing(p) \ Firstmost(Competing(p)) /\ g \in Firstmost(Competing(p))
    BY <2>1, <2>2, ShownOfPackage
  <2>4. Before(g, f)
    BY <2>3, PackagesCompete
  <2> QED
    BY <2>4 DEF Outranks
<1>4. CASE f \notin Gathered
  <2> DEFINE K == budget.kept[k]
  <2>1. /\ scan = "done" /\ f \in AllFound /\ f.package = Root /\ K \subseteq Gathered /\ Cardinality(K) = MaxFindings
        /\ \A h \in K : Above(h, f) /\ h.kind = k /\ h.package = Root /\ h \in AllFound
    BY <1>1, <1>4, CollectedOrDropped
  <2> HIDE DEF K
  <2>2. \A h \in AllFound \cup Hooks : h.id \in Int /\ h.risk \in Int
    BY OthersAre DEF Identified
  <2>3. p = Root /\ g \in AllFound \cup Hooks
    BY <1>1, <1>2, <2>1, CollectedOrDropped
  <2> DEFINE hook(x) == Hook(x)
  <2>4. \A x, y : Before(x, y) <=> \/ x.risk > y.risk
                                   \/ x.risk = y.risk /\ hook(x) /\ ~hook(y)
                                   \/ x.risk = y.risk /\ (hook(x) <=> hook(y)) /\ x.id < y.id
    BY DEF Before
  <2>5. Outranks(g, f) <=> Before(g, f) \/ (g.risk = f.risk /\ hook(f))
    BY <2>1 DEF Outranks
  <2>h. g \in Hooks => hook(g)
    BY CollectedOrDropped
  <2> HIDE DEF hook
  <2>6. CASE g \notin Hooks
    <3>1. g \in K
      BY <1>2, <2>3, <2>6, CollectedOrDropped DEF K
    <3>2. g.risk > f.risk \/ (g.risk = f.risk /\ (g.id < f.id \/ g.id = f.id))
      BY <2>1, <3>1 DEF Above
    <3>3. g.id # f.id
      <4>1. K = budget.kept[f.kind] /\ f \notin budget.kept[f.kind]
        BY <1>1, <1>4, CollectedOrDropped DEF K
      <4>2. g # f /\ g \in AllFound
        BY <2>1, <3>1, <4>1
      <4>3. Identified(AllFound)
        BY SourcesAre
      <4> QED
        BY <2>1, <4>2, <4>3 DEF Identified
    <3> QED
      BY <2>1, <2>2, <2>3, <2>4, <2>5, <3>2, <3>3
  <2>7. CASE g \in Hooks
    <3>1. k = "finding" /\ hook(g)
      BY <1>2, <2>7, <2>h, CollectedOrDropped
    <3> SUFFICES ASSUME ~Outranks(g, f) PROVE FALSE
      OBVIOUS
    <3>2. g.risk < f.risk
      BY <2>1, <2>2, <2>3, <2>4, <2>5, <3>1
    <3>3. ASSUME NEW h \in K PROVE h \in Ahead(Competing(p), g)
      <4>1. Above(h, f) /\ h.kind = k /\ h.package = Root /\ h \in AllFound /\ h \in Gathered
        BY <2>1, <3>3
      <4>2. h.risk \in Int /\ f.risk \in Int /\ g.risk \in Int
        BY <2>1, <2>2, <2>3, <4>1
      <4>3. h.risk >= f.risk
        BY <4>1, <4>2 DEF Above
      <4>4. Before(h, g)
        BY <2>4, <3>2, <4>2, <4>3
      <4>5. h \in Found
        BY <4>1, CollectedOrDropped
      <4>6. h \in Of(Found, p, k)
        BY <2>3, <4>1, <4>5 DEF Of
      <4>7. h \in Evident
        BY <4>6 DEF Of
      <4>8. h \in Of(Unignored, p, k)
        BY <2>3, <4>1, <4>7, ShownOfPackage DEF Of
      <4>9. h \in Competing(p)
        BY <3>1, <4>8, ShownOfPackage
      <4> QED
        BY <4>4, <4>9 DEF Ahead
    <3>4. g \in Firstmost(Competing(p))
      BY <3>1, ShownOfPackage
    <3>5. Cardinality(Ahead(Competing(p), g)) < MaxFindings
      BY <3>4 DEF Firstmost
    <3>6. IsFiniteSet(Ahead(Competing(p), g))
      <4>1. Ahead(Competing(p), g) \subseteq Competing(p)
        BY DEF Ahead
      <4> QED
        BY <4>1, PackagesCompete, FS_Subset
    <3>7. K \subseteq Ahead(Competing(p), g)
      BY <3>3
    <3>8. Cardinality(K) <= Cardinality(Ahead(Competing(p), g)) /\ Cardinality(Ahead(Competing(p), g)) \in Nat
      BY <3>6, <3>7, FS_Subset, FS_CardinalityType
    <3> QED
      BY <2>1, <3>5, <3>8, ScanConstants
  <2> QED
    BY <2>6, <2>7
<1> QED
  BY <1>3, <1>4

\* Where there is room for all, all are shown.
LEMMA ShownIfRoom ==
  ASSUME ScanInv, Given, report = Marked, NEW p, NEW k \in Kinds, Of(Found, p, k) = Of(Evident, p, k),
         Cardinality(Of(Evident, p, k)) <= MaxFindings
  PROVE  Of(Shown, p, k) = Of(Evident, p, k)
<1> DEFINE E == Of(Evident, p, k)
<1>1. E \subseteq Found /\ IsFiniteSet(E) /\ Cardinality(E) \in Nat /\ MaxFindings \in Nat
  <2>1. E \subseteq Found
    BY DEF Of, Evident
  <2> HIDE DEF E
  <2> QED
    BY <2>1, CollectedOrDropped, FS_Subset, FS_CardinalityType, ScanConstants
<1>2. ASSUME NEW f \in E, f \notin Gathered PROVE FALSE
  <2> DEFINE K == budget.kept[k]
  <2>1. f \in Found /\ f.package = p /\ f.kind = k
    BY <1>1, <1>2 DEF Of
  <2>2. /\ f.package = Root /\ K \subseteq Gathered /\ Cardinality(K) = MaxFindings /\ f \notin K
        /\ \A h \in K : h.kind = k /\ h.package = Root
    BY <1>2, <2>1, CollectedOrDropped
  <2> HIDE DEF K
  <2>3. K \subseteq Of(Found, p, k)
    BY <2>1, <2>2, CollectedOrDropped DEF Of
  <2>4. K \cup {f} \subseteq E /\ K \subseteq E
    BY <1>2, <2>3
  <2> HIDE DEF E
  <2>5. IsFiniteSet(K)
    BY <1>1, <2>4, FS_Subset
  <2>6. Cardinality(K \cup {f}) = Cardinality(K) + 1
    BY <2>2, <2>5, FS_AddElement
  <2>7. Cardinality(K \cup {f}) <= Cardinality(E)
    BY <1>1, <2>4, FS_Subset
  <2>8. Cardinality(E) <= MaxFindings
    BY DEF E
  <2> QED
    BY <1>1, <2>2, <2>6, <2>7, <2>8
<1>3. E = Of(Unignored, p, k)
  <2>1. \A f \in E : f \in Unignored /\ f.package = p /\ f.kind = k
    BY <1>2, ShownOfPackage DEF Of
  <2>2. Of(Unignored, p, k) \subseteq E
    BY ShownOfPackage DEF Of
  <2> QED
    BY <2>1, <2>2 DEF Of
<1>4. CASE k = "finding"
  <2>1. E = Competing(p) /\ Cardinality(Competing(p)) <= MaxFindings
    BY <1>3, <1>4, ShownOfPackage
  <2> QED
    BY <1>4, <2>1, PackagesCompete, ShownOfPackage
<1>5. CASE k # "finding"
  BY <1>3, <1>5, ShownOfPackage
<1> QED
  BY <1>4, <1>5

\* What is missing is announced.
LEMMA MissingAnnounced ==
  ASSUME ScanInv, Given, report = Marked
  PROVE  /\ Shown \subseteq Evident
         /\ Shown # Evident => \E x \in Range(report.issues) : x.code = "limit_exceeded"
<1>1. Shown \subseteq Evident
  BY ShownOfPackage DEF Kinds
<1>2. ASSUME NEW f \in Evident \ Shown PROVE \E x \in Range(report.issues) : x.code = "limit_exceeded"
  <2>1. report.issues = Finalized.issues
    BY Shows
  <2>2. Range(report.issues) = (IF scan = "done" THEN Range(outcome.issues) ELSE {ScanIssue})
                                 \cup Range(dependency.issues) \cup CutShort
    BY <2>1, IssuesAre
  <2>3. f \in Found
    BY <1>2 DEF Evident
  <2>4. CASE f \notin Gathered
    <3>1. scan = "done" /\ budget.exceeded # {}
      BY <2>3, <2>4, CollectedOrDropped
    <3>2. \E x \in Range(outcome.issues) : x.code = "limit_exceeded"
      BY <3>1, ScanIssues
    <3> QED
      BY <2>2, <3>1, <3>2
  <2>5. CASE f \in Gathered
    <3>1. f \in Unignored
      BY <1>2, <2>5, ShownOfPackage DEF Kinds
    <3>2. f.kind \in Kinds
      BY <2>3, CollectedOrDropped
    <3>3. f \in Candidates \ Retained(Candidates)
      BY <1>2, <3>1, <3>2, Shows DEF Candidates, OfKind, Kinds
    <3> DEFINE x == [code |-> "limit_exceeded", fatal |-> FALSE, package |-> f.package]
    <3>4. x \in CutShort
      BY <3>3 DEF CutShort
    <3>5. x.code = "limit_exceeded"
      OBVIOUS
    <3> HIDE DEF x
    <3> QED
      BY <2>2, <3>4, <3>5
  <2> QED
    BY <2>4, <2>5
<1> QED
  BY <1>1, <1>2

-----------------------------------------------------------------------------
(* One run, from its configuration to its exit status.                         *)

\* What the report is at each stage of a run.  Rules are in force as soon as
\* there is a scan, and the exit status is that of the report as it is marked.
Stage ==
  /\ phase \in {"configure", "scan", "finalize", "suppress", "exit", "ended"}
  /\ phase = "configure" => rules = {}
  /\ phase \notin {"configure", "ended"} => rules # {}
  /\ phase \in {"configure", "scan"} => report = EmptyReport
  /\ phase = "finalize" => report = Collected
  /\ phase = "suppress" => report = Finalized
  /\ phase = "exit" => report = Marked
  /\ phase # "ended" => exit = Running
  /\ phase = "ended" => \/ exit = 2 /\ rules = {}
                        \/ rules # {} /\ report = Marked /\ exit \in {3, ExitStatus(report)}

ReportInv == ScanInv /\ Given /\ Stage

\* What a report is made of does not change once the scan is over.
LEMMA MakingUnmoved ==
  ASSUME UNCHANGED <<scanVars, config, dependency, scripts>>
  PROVE  Collected' = Collected /\ Finalized' = Finalized /\ Marked' = Marked
<1>1. UNCHANGED <<scan, budget, outcome, config, dependency, scripts>>
  BY DEF scanVars
<1>2. Collected' = Collected
  BY <1>1 DEF Collected, RecordScan, RecordInstallScripts, RecordSharedScan, RecordPackage, ScanIssue
<1>3. Finalized' = Finalized
  BY <1>1, <1>2 DEF Finalized, DropIgnored, IgnoredSelectors
<1>4. \A fs : ApplySuppressions(fs)' = ApplySuppressions(fs)
  BY <1>1 DEF ApplySuppressions, SuppressedBy
<1>5. Marked' = Marked
  BY <1>1, <1>3, <1>4 DEF Marked, ApplySuppressions, SuppressedBy
<1> QED
  BY <1>2, <1>3, <1>5

\* A run begins before its report.
LEMMA StageBegins ==
  ASSUME ReportInit
  PROVE  Given /\ Stage
BY DEF ReportInit, Given, Stage

\* Each step leads from one stage of a report to the next, or stays within one.
LEMMA StageContinues ==
  ASSUME ReportInv, ReportNext
  PROVE  Given' /\ Stage'
<1>1. Given'
  <2>1. UNCHANGED <<config, dependency, scripts>>
    BY DEF ReportNext, RefuseConfiguration, Configure, Scanning, Record, Finalize, Suppress, Emit, Exit, reportVars
  <2> QED
    BY <2>1 DEF ReportInv, Given
<1> SUFFICES Stage'
  BY <1>1
<1>2. CASE RefuseConfiguration
  BY <1>2 DEF RefuseConfiguration, Exit, ReportInv, Stage, scanVars
<1>3. CASE Configure
  <2>1. rules' # {}
    BY <1>3 DEF Configure, Misconfigured
  <2> QED
    BY <1>3, <2>1 DEF Configure, ReportInv, Stage, EmptyReport
<1>4. CASE Scanning
  <2>1. rules' = rules /\ UNCHANGED reportVars /\ phase = "scan"
    BY <1>4 DEF Scanning, ScanNext, PassOver, TooManyFiles, FileTooLarge, FileReplaced, ScanFails, VisitOther,
                VisitSource, FinishScan, ScanTimesOut
  <2> QED
    BY <2>1 DEF ReportInv, Stage, reportVars, EmptyReport
<1>5. CASE Record
  <2>1. report = EmptyReport /\ report' = Collected /\ rules' = rules /\ rules # {} /\ phase' = "finalize"
        /\ exit' = exit /\ exit = Running
    BY <1>5 DEF Record, ReportInv, Stage, Collected, scanVars
  <2>2. Collected' = Collected
    BY <1>5, MakingUnmoved DEF Record
  <2> QED
    BY <2>1, <2>2 DEF Stage, Running
<1>6. CASE Finalize
  <2>1. report' = Finalized /\ rules' = rules /\ rules # {} /\ phase' = "suppress" /\ exit' = exit /\ exit = Running
    BY <1>6 DEF Finalize, ReportInv, Stage, Finalized, scanVars
  <2>2. Finalized' = Finalized
    BY <1>6, MakingUnmoved DEF Finalize
  <2> QED
    BY <2>1, <2>2 DEF Stage, Running
<1>7. CASE Suppress
  <2>1. report' = Marked /\ rules' = rules /\ rules # {} /\ phase' = "exit" /\ exit' = exit /\ exit = Running
    BY <1>7 DEF Suppress, ReportInv, Stage, Marked, scanVars
  <2>2. Marked' = Marked
    BY <1>7, MakingUnmoved DEF Suppress
  <2> QED
    BY <2>1, <2>2 DEF Stage, Running
<1>8. CASE Emit
  <2>1. report = Marked /\ report' = report /\ rules' = rules /\ rules # {} /\ phase' = "ended"
        /\ exit' \in {3, ExitStatus(report)} /\ config' = config
    BY <1>8 DEF Emit, Exit, ReportInv, Stage, scanVars
  <2>2. Marked' = Marked
    BY <1>8, MakingUnmoved DEF Emit, Exit
  <2>3. ExitStatus(report)' = ExitStatus(report)
    BY <2>1 DEF ExitStatus, IssueExitStatus, MeetsThreshold
  <2> QED
    BY <2>1, <2>2, <2>3 DEF Stage
<1> QED
  BY <1>2, <1>3, <1>4, <1>5, <1>6, <1>7, <1>8 DEF ReportInv, ReportNext

\* A stage lasts while nothing is done.
LEMMA StageStutters ==
  ASSUME ReportInv, UNCHANGED <<scanVars, reportVars>>
  PROVE  Given' /\ Stage'
<1>1. UNCHANGED <<rules, config, dependency, scripts, phase, report, exit>> /\ UNCHANGED scanVars
  BY DEF scanVars, reportVars
<1>2. Collected' = Collected /\ Finalized' = Finalized /\ Marked' = Marked
  BY <1>1, MakingUnmoved
<1>3. ExitStatus(report)' = ExitStatus(report)
  BY <1>1 DEF ExitStatus, IssueExitStatus, MeetsThreshold
<1> QED
  BY <1>1, <1>2, <1>3 DEF ReportInv, Given, Stage, EmptyReport, Running

\* A run goes through its stages in order: src/app/mod.rs and
\* src/engine/analysis.rs, and what the report is made of at each of them.
THEOREM ReportInvHolds == ReportSpec => []ReportInv
<1>1. ReportInit => ReportInv
  BY ScanBegins, StageBegins DEF ReportInv
<1>2. ReportInv /\ [ReportNext]_<<scanVars, reportVars>> => ReportInv'
  BY ScanContinues, ScanStutters, StageContinues, StageStutters DEF ReportInv
<1> QED
  BY <1>1, <1>2, PTL DEF ReportSpec

\* From the codes of a sequence to the places that hold them.
LEMMA CodeAt ==
  ASSUME NEW is, NEW c, \E x \in Range(is) : x.code = c
  PROVE  \E i \in DOMAIN is : is[i].code = c
BY DEF Range

\* What is shown of a finished report was found, and what is not shown is
\* announced.
LEMMA KeepsTheWorst ==
  ASSUME ReportInv, Reported
  PROVE  /\ report = Marked /\ rules # {}
         /\ Shown \subseteq Evident
         /\ Shown # Evident => LimitIssue
<1>1. report = Marked /\ rules # {}
  BY DEF ReportInv, Stage, Reported
<1>2. ScanInv /\ Given
  BY DEF ReportInv
<1>3. Shown # Evident => \E x \in Range(report.issues) : x.code = "limit_exceeded"
  BY <1>1, <1>2, MissingAnnounced
<1>4. Shown # Evident => LimitIssue
  BY <1>3, CodeAt DEF LimitIssue
<1> QED
  BY <1>1, <1>2, <1>4, MissingAnnounced

\* Of every package the gravest findings are in the report, and the report
\* says so when one is missing: EnforceFindingLimits after the budgets of the
\* scans, src/engine/reporting.rs and src/engine/scanner/budget.rs.
THEOREM ReportKeepsTheWorstHolds == ReportSpec => []ReportKeepsTheWorst
<1>1. ReportInv => ReportKeepsTheWorst
  <2> SUFFICES ASSUME ReportInv, Reported
               PROVE  /\ Shown \subseteq Evident
                      /\ Shown # Evident => LimitIssue
                      /\ \A p \in {f.package : f \in Found}, k \in Kinds :
                           /\ Cardinality(Of(Shown, p, k)) <= MaxFindings
                           /\ Of(Found, p, k) = Of(Evident, p, k) =>
                                /\ \A f \in Of(Evident \ Shown, p, k), g \in Of(Shown, p, k) : Outranks(g, f)
                                /\ Cardinality(Of(Evident, p, k)) <= MaxFindings =>
                                     Of(Shown, p, k) = Of(Evident, p, k)
    BY DEF ReportKeepsTheWorst
  <2>1. ScanInv /\ Given /\ report = Marked /\ Shown \subseteq Evident /\ (Shown # Evident => LimitIssue)
    BY KeepsTheWorst DEF ReportInv
  <2>2. ASSUME NEW p \in {f.package : f \in Found}, NEW k \in Kinds
        PROVE  /\ Cardinality(Of(Shown, p, k)) <= MaxFindings
               /\ Of(Found, p, k) = Of(Evident, p, k) =>
                    /\ \A f \in Of(Evident \ Shown, p, k), g \in Of(Shown, p, k) : Outranks(g, f)
                    /\ Cardinality(Of(Evident, p, k)) <= MaxFindings =>
                         Of(Shown, p, k) = Of(Evident, p, k)
    <3>1. Cardinality(Of(Shown, p, k)) <= MaxFindings
      BY <2>1, ShownWithinLimit
    <3>2. ASSUME Of(Found, p, k) = Of(Evident, p, k), NEW f \in Of(Evident \ Shown, p, k), NEW g \in Of(Shown, p, k)
          PROVE  Outranks(g, f)
      BY <2>1, <3>2, ShownOutranks
    <3>3. ASSUME Of(Found, p, k) = Of(Evident, p, k), Cardinality(Of(Evident, p, k)) <= MaxFindings
          PROVE  Of(Shown, p, k) = Of(Evident, p, k)
      BY <2>1, <3>3, ShownIfRoom
    <3> QED
      BY <3>1, <3>2, <3>3
  <2> QED
    BY <2>1, <2>2
<1> QED
  BY <1>1, ReportInvHolds, PTL

\* A run without issues has finished its scan and shows all there is.
LEMMA NothingWithheld ==
  ASSUME ReportInv, Reported, IssueExitStatus(report) = 0
  PROVE  scan = "done" /\ Shown = Evident
<1>1. report.issues = <<>>
  BY DEF IssueExitStatus
<1>2. ScanInv /\ Given /\ report = Marked /\ (Shown # Evident => LimitIssue)
  BY KeepsTheWorst DEF ReportInv
<1>3. Range(report.issues) = {}
  BY <1>1 DEF Range
<1>4. scan = "done"
  <2> DEFINE x == ScanIssue
  <2>1. scan # "done" => x \in Range(report.issues)
    BY <1>2, Shows, IssuesAre
  <2> HIDE DEF x
  <2> QED
    BY <1>3, <2>1
<1>5. ~LimitIssue
  BY <1>1 DEF LimitIssue
<1> QED
  BY <1>2, <1>4, <1>5

\* The threshold is met by a finding no suppression matches.
LEMMA ThresholdMet ==
  ASSUME ReportInv, Reported
  PROVE  /\ \A x \in report.findings : MeetsThreshold(x) => x.finding \in Shown /\ ~Tolerated(x.finding)
         /\ (\A x \in report.findings : ~MeetsThreshold(x)) => \A f \in Shown : Tolerated(f)
<1>1. ScanInv /\ Given /\ report = Marked
  BY KeepsTheWorst DEF ReportInv
<1> DEFINE K == Retained(Candidates)
           C == OfKind(Unignored, "capability")
<1>2. Shown = K \cup C /\ report.findings = ApplySuppressions(K)
  BY <1>1, Shows
<1>3. \A f \in K : f.kind = "finding" /\ f.risk \in Int
  <2>1. ASSUME NEW f \in K PROVE f.kind = "finding" /\ f \in Competing(f.package)
    BY DEF Retained, Candidates, OfKind, Competing
  <2>2. ASSUME NEW f \in K PROVE f.risk \in Int
    <3>1. PICK F : Identified(F) /\ Competing(f.package) \in SUBSET F
      BY <1>1, PackagesCompete
    <3> HIDE DEF K
    <3> QED
      BY <2>1, <3>1 DEF Identified
  <2> QED
    BY <2>1, <2>2
<1>4. \A f \in C : f.kind = "capability"
  BY DEF OfKind
<1> HIDE DEF K, C
<1>5. {x.finding : x \in report.findings} = K
  BY <1>2, Marks
<1>6. \A x \in report.findings : /\ x.finding \in K
                                 /\ x.suppression = <<>> <=>
                                      ~\E i \in DOMAIN config.suppressions : SuppressedBy(config.suppressions[i], x.finding)
  BY <1>2, <1>5, Marks
<1>7. config.threshold \in Int
  BY <1>1, OthersAre
<1>8. ASSUME NEW x \in report.findings
      PROVE  MeetsThreshold(x) <=> ~Tolerated(x.finding)
  <2> DEFINE f == x.finding
             hit == \E i \in DOMAIN config.suppressions : SuppressedBy(config.suppressions[i], f)
  <2>1. f.kind = "finding" /\ f.risk \in Int /\ (x.suppression = <<>> <=> ~hit)
    BY <1>3, <1>6
  <2>2. Tolerated(f) <=> f.kind = "capability" \/ f.risk < config.threshold \/ hit
    BY DEF Tolerated
  <2>3. MeetsThreshold(x) <=> x.suppression = <<>> /\ f.risk >= config.threshold
    BY DEF MeetsThreshold
  <2> HIDE DEF f, hit
  <2>4. MeetsThreshold(x) <=> ~Tolerated(f)
    BY <1>7, <2>1, <2>2, <2>3
  <2> QED
    BY <2>4 DEF f
<1>9. ASSUME \A x \in report.findings : ~MeetsThreshold(x), NEW f \in Shown
      PROVE  Tolerated(f)
  <2>1. CASE f \in K
    BY <1>5, <1>8, <1>9, <2>1
  <2>2. CASE f \in C
    BY <1>4, <2>2 DEF Tolerated
  <2> QED
    BY <1>2, <2>1, <2>2
<1> QED
  BY <1>2, <1>6, <1>8, <1>9

\* What process::exit is given says what happened: src/app/output/mod.rs.
THEOREM ExitTellsTheTruthHolds == ReportSpec => []ExitTellsTheTruth
<1>1. ReportInv => ExitTellsTheTruth
  <2> SUFFICES ASSUME ReportInv PROVE ExitTellsTheTruth
    OBVIOUS
  <2>1. Stage
    BY DEF ReportInv
  <2>2. IssueExitStatus(report) \in {0, 3, 4} /\ ExitStatus(report) \in {0, 1, 3, 4}
    BY DEF IssueExitStatus, ExitStatus
  <2>3. exit = 2 <=> phase = "ended" /\ rules = {}
    BY <2>1, <2>2 DEF Stage, Running
  <2>4. ASSUME exit \in {0, 1, 4} PROVE Reported /\ exit = ExitStatus(report)
    BY <2>1, <2>4 DEF Stage, Running, Reported
  <2>5. ASSUME exit \in {0, 1}
        PROVE  /\ scan = "done" /\ Shown = Evident
               /\ exit = 1 <=> \E x \in report.findings : MeetsThreshold(x)
    <3>1. IssueExitStatus(report) = 0 /\ (exit = 1 <=> \E x \in report.findings : MeetsThreshold(x))
      BY <2>2, <2>4, <2>5 DEF ExitStatus
    <3> QED
      BY <2>4, <2>5, <3>1, NothingWithheld
  <2>6. exit = 0 => \A f \in Evident : Tolerated(f)
    <3> SUFFICES ASSUME exit = 0 PROVE \A f \in Evident : Tolerated(f)
      OBVIOUS
    <3>1. \A x \in report.findings : ~MeetsThreshold(x)
      BY <2>5
    <3> QED
      BY <2>4, <2>5, <3>1, ThresholdMet
  <2>7. exit = 1 => \E f \in Evident : ~Tolerated(f)
    <3> SUFFICES ASSUME exit = 1 PROVE \E f \in Evident : ~Tolerated(f)
      OBVIOUS
    <3>1. PICK x \in report.findings : MeetsThreshold(x)
      BY <2>5
    <3> QED
      BY <2>4, <2>5, <3>1, ThresholdMet
  <2>8. exit = 4 => LimitIssue \/ PolicyIssue
    <3> SUFFICES ASSUME exit = 4 PROVE LimitIssue \/ PolicyIssue
      OBVIOUS
    <3>1. \E i \in DOMAIN report.issues : report.issues[i].code \in {"policy_error", "limit_exceeded"}
      BY <2>4 DEF ExitStatus, IssueExitStatus
    <3>2. PICK y \in Range(report.issues) : y.code \in {"policy_error", "limit_exceeded"}
      BY <3>1 DEF Range
    <3>3. CASE y.code = "limit_exceeded"
      <4>1. \E x \in Range(report.issues) : x.code = "limit_exceeded"
        BY <3>3
      <4> QED
        BY <4>1, CodeAt DEF LimitIssue
    <3>4. CASE y.code = "policy_error"
      <4>1. ScanInv /\ Given /\ report = Marked
        BY <2>4, KeepsTheWorst DEF ReportInv
      <4>2. Range(report.issues) = (IF scan = "done" THEN Range(outcome.issues) ELSE {ScanIssue})
                                     \cup Range(dependency.issues) \cup CutShort
        BY <4>1, Shows, IssuesAre
      <4>3. scan = "done" => y \notin Range(outcome.issues)
        BY <3>4, <4>1, ScanIssues
      <4>4. y # ScanIssue
        BY <3>4 DEF ScanIssue
      <4>5. y \notin CutShort
        <5> DEFINE v(p) == [code |-> "limit_exceeded", fatal |-> FALSE, package |-> p]
        <5>1. \A p : v(p).code = "limit_exceeded"
          OBVIOUS
        <5>2. \A z \in CutShort : \E p : z = v(p)
          BY DEF CutShort
        <5> HIDE DEF v
        <5> QED
          BY <3>4, <5>1, <5>2
      <4>6. \E x \in Range(dependency.issues) : x.code = "policy_error"
        BY <3>4, <4>2, <4>3, <4>4, <4>5
      <4> QED
        BY <4>6, CodeAt DEF PolicyIssue
    <3> QED
      BY <3>2, <3>3, <3>4
  <2> QED
    BY <2>3, <2>5, <2>6, <2>7, <2>8 DEF ExitTellsTheTruth
<1> QED
  BY <1>1, ReportInvHolds, PTL

-----------------------------------------------------------------------------
(* Releases compared.                                                          *)

\* A report of a release.
FiniteReport(v) ==
  /\ v.issues \in Seq(Range(v.issues))
  /\ IsFiniteSet(v.findings) /\ IsFiniteSet(v.capabilities)

\* Between two places with different values there are neighbours that differ.
LEMMA NothingChanges ==
  ASSUME NEW c, NEW lo \in Nat, NEW hi \in Nat, lo <= hi,
         \A i \in lo .. hi - 1 : c[i] = c[i + 1]
  PROVE  c[lo] = c[hi]
<1> DEFINE N == {j \in lo .. hi : c[j] # c[lo]}
<1> SUFFICES ASSUME N # {} PROVE FALSE
  OBVIOUS
<1>b. N \in SUBSET Nat /\ \A j \in lo .. hi : j \in N <=> c[j] # c[lo]
  OBVIOUS
<1>1. PICK j \in N : \A m \in N : ~(m < j)
  BY <1>b, SmallestNumber
<1>2. j \in lo .. hi /\ j # lo
  OBVIOUS
<1> HIDE DEF N
<1>3. j - 1 \in lo .. hi - 1 /\ (j - 1) + 1 = j
  BY <1>2
<1>4. j - 1 \notin N
  BY <1>1, <1>3
<1>5. c[j - 1] = c[lo]
  BY <1>b, <1>3, <1>4
<1> QED
  BY <1>1, <1>2, <1>3, <1>5, <1>b

\* A number that is smaller at the end fell somewhere on the way.
LEMMA SomewhereItFalls ==
  ASSUME NEW c, NEW n \in Nat \ {0}, \A i \in 1 .. n : c[i] \in Nat, c[1] > c[n]
  PROVE  \E i \in 1 .. n - 1 : c[i] > c[i + 1]
<1> DEFINE N == {j \in 1 .. n : c[1] > c[j]}
<1>b. N \in SUBSET Nat /\ N # {} /\ \A j \in 1 .. n : j \in N <=> c[1] > c[j]
  OBVIOUS
<1>1. PICK j \in N : \A m \in N : ~(m < j)
  BY <1>b, SmallestNumber
<1>2. j \in 1 .. n /\ c[1] > c[j]
  OBVIOUS
<1> HIDE DEF N
<1>3. j # 1
  BY <1>2
<1>4. j - 1 \in 1 .. n - 1 /\ j - 1 \in 1 .. n /\ (j - 1) + 1 = j
  BY <1>2, <1>3
<1>5. j - 1 \notin N
  BY <1>1, <1>4
<1>6. ~(c[1] > c[j - 1])
  BY <1>b, <1>4, <1>5
<1>7. c[j - 1] > c[j]
  BY <1>2, <1>4, <1>6
<1> QED
  BY <1>4, <1>7

\* The changes from each place to the one after it, taken together, lead from
\* the last to the first.
LEMMA ChangesTelescope ==
  ASSUME NEW c, NEW n \in Nat \ {0}, \A i \in 1 .. n : c[i] \in Int,
         NEW W, W = {i \in 1 .. n - 1 : c[i] # c[i + 1]},
         NEW d, \A i \in W : d[i] = c[i] - c[i + 1]
  PROVE  SumFunctionOnSet(d, W) = c[1] - c[n]
<1> DEFINE Until(j) == {i \in W : i < j}
           N == {j \in 1 .. n : SumFunctionOnSet(d, Until(j)) # c[1] - c[j]}
<1>a. /\ \A j \in 1 .. n : IsFiniteSet(Until(j)) /\ \A i \in Until(j) : d[i] \in Int
      /\ Until(1) = {} /\ Until(n) = W
  <2>1. IsFiniteSet(1 .. n - 1)
    BY FS_Interval
  <2>2. \A j \in 1 .. n : Until(j) \subseteq 1 .. n - 1
    OBVIOUS
  <2>3. \A j \in 1 .. n : IsFiniteSet(Until(j))
    BY <2>1, <2>2, FS_Subset
  <2>4. \A i \in W : d[i] \in Int
    OBVIOUS
  <2>5. Until(1) = {} /\ Until(n) = W
    OBVIOUS
  <2> QED
    BY <2>3, <2>4, <2>5
<1> SUFFICES ASSUME N # {} PROVE FALSE
  <2>1. n \in 1 .. n
    OBVIOUS
  <2>2. CASE N = {}
    BY <1>a, <2>1, <2>2
  <2> QED
    BY <2>2
<1>b. N \in SUBSET Nat /\ \A j \in 1 .. n : j \in N <=> SumFunctionOnSet(d, Until(j)) # c[1] - c[j]
  OBVIOUS
<1>1. PICK j \in N : \A m \in N : ~(m < j)
  BY <1>b, SmallestNumber
<1>2. j \in 1 .. n
  OBVIOUS
<1> HIDE DEF N
<1>3. j # 1
  <2>1. SumFunctionOnSet(d, Until(1)) = 0
    BY <1>a, FS_EmptySet, SumStep
  <2>2. c[1] - c[1] = 0
    OBVIOUS
  <2> QED
    BY <1>1, <1>2, <1>b, <2>1, <2>2
<1>4. j - 1 \in 1 .. n - 1 /\ j - 1 \in 1 .. n /\ (j - 1) + 1 = j
  BY <1>2, <1>3
<1>5. SumFunctionOnSet(d, Until(j - 1)) = c[1] - c[j - 1]
  BY <1>1, <1>4, <1>b
<1>6. c[1] \in Int /\ c[j - 1] \in Int /\ c[j] \in Int
  BY <1>2, <1>4
<1>7. CASE j - 1 \in W
  <2>1. Until(j) \ {j - 1} = Until(j - 1) /\ j - 1 \in Until(j)
    BY <1>4, <1>7
  <2>2. SumFunctionOnSet(d, Until(j)) = d[j - 1] + SumFunctionOnSet(d, Until(j) \ {j - 1})
    <3> HIDE DEF Until
    <3> QED
      BY <1>a, <1>2, <2>1, SumTakesOut
  <2>3. d[j - 1] = c[j - 1] - c[j]
    BY <1>4, <1>7
  <2> HIDE DEF Until
  <2>4. SumFunctionOnSet(d, Until(j)) = (c[j - 1] - c[j]) + (c[1] - c[j - 1])
    BY <1>5, <2>1, <2>2, <2>3
  <2>5. SumFunctionOnSet(d, Until(j)) = c[1] - c[j]
    BY <1>6, <2>4
  <2> QED
    BY <1>1, <1>2, <1>b, <2>5
<1>8. CASE j - 1 \notin W
  <2>1. Until(j) = Until(j - 1)
    BY <1>4, <1>8
  <2>2. c[j - 1] = c[j]
    BY <1>4, <1>8
  <2> QED
    BY <1>1, <1>2, <1>5, <1>b, <2>1, <2>2
<1> QED
  BY <1>7, <1>8

\* Counts are numbers, and detections and capabilities have keys of their own.
LEMMA CountsAreNumbers ==
  ASSUME NEW v, FiniteReport(v), NEW k
  PROVE  /\ Counted(DetectionCounts(v), k) \in Nat /\ Counted(CapabilityCounts(v), k) \in Nat
         /\ k \in DOMAIN DetectionCounts(v) => k[1] = "detection"
         /\ k \in DOMAIN CapabilityCounts(v) => k[1] = "capability"
         /\ Count(v, k) \in Nat
<1> DEFINE shown == {e \in v.capabilities : ~e.suppressed}
           det == DetectionCounts(v)
           cap == CapabilityCounts(v)
<1>1. IsFiniteSet(Visible(v, Verbose)) /\ IsFiniteSet(shown)
  BY FS_Subset DEF FiniteReport, Visible
<1>2. ASSUME NEW d \in DOMAIN det PROVE det[d] \in Nat /\ d[1] = "detection"
  <2>1. d \in {Detection(f) : f \in Visible(v, Verbose)}
        /\ det[d] = Cardinality({f \in Visible(v, Verbose) : Detection(f) = d})
    BY <1>2 DEF DetectionCounts
  <2>2. PICK f \in Visible(v, Verbose) : d = Detection(f)
    BY <2>1
  <2>3. d[1] = "detection"
    BY <2>2 DEF Detection
  <2>4. IsFiniteSet({g \in Visible(v, Verbose) : Detection(g) = d})
    BY <1>1, FS_Subset
  <2>5. Cardinality({g \in Visible(v, Verbose) : Detection(g) = d}) \in Nat
    BY <2>4, FS_CardinalityType
  <2> QED
    BY <2>1, <2>3, <2>5
<1>3. ASSUME NEW c \in DOMAIN cap PROVE cap[c] \in Nat /\ c[1] = "capability"
  <2>1. c \in {<<"capability", e.name>> : e \in shown}
        /\ cap[c] = Cardinality({e \in shown : <<"capability", e.name>> = c})
    BY <1>3 DEF CapabilityCounts
  <2>2. c[1] = "capability"
    BY <2>1
  <2>3. IsFiniteSet({e \in shown : <<"capability", e.name>> = c})
    BY <1>1, FS_Subset
  <2>4. Cardinality({e \in shown : <<"capability", e.name>> = c}) \in Nat
    BY <2>3, FS_CardinalityType
  <2> QED
    BY <2>1, <2>2, <2>4
<1> HIDE DEF det, cap
<1>4. Counted(det, k) \in Nat /\ Counted(cap, k) \in Nat
  BY <1>2, <1>3 DEF Counted
<1>5. Count(v, k) = Counted(det, k) + Counted(cap, k)
  BY DEF Count, det, cap
<1> QED
  BY <1>2, <1>3, <1>4, <1>5 DEF det, cap

\* The changes from one table of counts to another.
LEMMA ChangesAreDifferences ==
  ASSUME NEW b, NEW a
  PROVE  /\ \A c \in Changes(b, a) :
              /\ c.before = Counted(b, c.key) /\ c.after = Counted(a, c.key)
              /\ c.key \in DOMAIN b \cup DOMAIN a /\ c.before # c.after
         /\ \A k : Counted(b, k) # Counted(a, k) => \E c \in Changes(b, a) : c.key = k
<1>1. ASSUME NEW c \in Changes(b, a)
      PROVE  /\ c.before = Counted(b, c.key) /\ c.after = Counted(a, c.key)
             /\ c.key \in DOMAIN b \cup DOMAIN a /\ c.before # c.after
  BY <1>1 DEF Changes
<1>2. ASSUME NEW k, Counted(b, k) # Counted(a, k) PROVE \E c \in Changes(b, a) : c.key = k
  <2>1. k \in DOMAIN b \cup DOMAIN a
    BY <1>2 DEF Counted
  <2>2. [key |-> k, before |-> Counted(b, k), after |-> Counted(a, k)] \in Changes(b, a)
    BY <1>2, <2>1 DEF Changes
  <2> QED
    BY <2>2
<1> QED
  BY <1>1, <1>2

AllChanges(c) == c.detections \cup c.capabilities

\* A comparison lists exactly the keys with different counts, with both counts.
LEMMA ComparisonIsExact ==
  ASSUME NEW o, NEW w, FiniteReport(o), FiniteReport(w), NEW k
  PROVE  LET all == AllChanges(CompareVersions(o, w))
         IN  /\ (\E c \in all : c.key = k) <=> Count(o, k) # Count(w, k)
             /\ \A c \in all : c.key = k => c.before = Count(o, k) /\ c.after = Count(w, k)
<1> DEFINE bd == DetectionCounts(o)
           ad == DetectionCounts(w)
           bc == CapabilityCounts(o)
           ac == CapabilityCounts(w)
           all == AllChanges(CompareVersions(o, w))
<1>1. all = Changes(bd, ad) \cup Changes(bc, ac)
  BY DEF AllChanges, CompareVersions
<1>2. /\ \A j \in {k} : j \in DOMAIN bd \cup DOMAIN ad => j[1] = "detection"
      /\ \A j \in {k} : j \in DOMAIN bc \cup DOMAIN ac => j[1] = "capability"
      /\ Counted(bd, k) \in Nat /\ Counted(ad, k) \in Nat
      /\ Counted(bc, k) \in Nat /\ Counted(ac, k) \in Nat
  BY CountsAreNumbers
<1>3. Count(o, k) = Counted(bd, k) + Counted(bc, k) /\ Count(w, k) = Counted(ad, k) + Counted(ac, k)
  BY DEF Count
<1>4. /\ k \in DOMAIN bd \cup DOMAIN ad => Counted(bc, k) = 0 /\ Counted(ac, k) = 0
      /\ k \in DOMAIN bc \cup DOMAIN ac => Counted(bd, k) = 0 /\ Counted(ad, k) = 0
      /\ k \notin DOMAIN bd \cup DOMAIN ad => Counted(bd, k) = 0 /\ Counted(ad, k) = 0
  <2>1. ~(k \in DOMAIN bd \cup DOMAIN ad /\ k \in DOMAIN bc \cup DOMAIN ac)
    BY <1>2
  <2> QED
    BY <2>1 DEF Counted
<1> HIDE DEF bd, ad, bc, ac, all
<1>5. ASSUME NEW c \in all, c.key = k
      PROVE  c.before = Count(o, k) /\ c.after = Count(w, k) /\ c.before # c.after
  <2>1. CASE c \in Changes(bd, ad)
    <3>1. c.before = Counted(bd, k) /\ c.after = Counted(ad, k) /\ k \in DOMAIN bd \cup DOMAIN ad /\ c.before # c.after
      BY <1>5, <2>1, ChangesAreDifferences
    <3> QED
      BY <1>2, <1>3, <1>4, <3>1
  <2>2. CASE c \in Changes(bc, ac)
    <3>1. c.before = Counted(bc, k) /\ c.after = Counted(ac, k) /\ k \in DOMAIN bc \cup DOMAIN ac /\ c.before # c.after
      BY <1>5, <2>2, ChangesAreDifferences
    <3> QED
      BY <1>2, <1>3, <1>4, <3>1
  <2> QED
    BY <1>1, <1>5, <2>1, <2>2
<1>6. ASSUME Count(o, k) # Count(w, k) PROVE \E c \in all : c.key = k
  <2>1. Counted(bd, k) # Counted(ad, k) \/ Counted(bc, k) # Counted(ac, k)
    BY <1>2, <1>3, <1>6
  <2>2. (\E c \in Changes(bd, ad) : c.key = k) \/ (\E c \in Changes(bc, ac) : c.key = k)
    BY <2>1, ChangesAreDifferences
  <2> QED
    BY <1>1, <2>2
<1> QED
  BY <1>5, <1>6 DEF all


\* The reports of a diff, and the comparisons of neighbours.
Series(vs) == vs \in Seq(Range(vs)) /\ \A v \in Range(vs) : FiniteReport(v)

Neighbours(vs) == [i \in 1 .. Len(vs) - 1 |-> CompareVersions(vs[i + 1], vs[i])]

\* The summary has the keys whose count is not the same throughout, with the
\* count at the beginning and the difference from the beginning to the end.
LEMMA SummaryIsExact ==
  ASSUME NEW vs, Series(vs), Len(vs) # 0, NEW k
  PROVE  LET all == AggregateChanges(Neighbours(vs))
         IN  IF k \in DOMAIN all
             THEN /\ all[k].initial = Count(vs[Len(vs)], k)
                  /\ all[k].initial + all[k].total = Count(vs[1], k)
             ELSE \A i \in 1 .. Len(vs) : Count(vs[i], k) = Count(vs[1], k)
<1> DEFINE n == Len(vs)
           cs == Neighbours(vs)
           c == [i \in 1 .. n |-> Count(vs[i], k)]
           Changing(j) == {i \in DOMAIN cs : \E x \in AllChanges(cs[i]) : x.key = j}
           ChangeAt(i, j) == CHOOSE x \in AllChanges(cs[i]) : x.key = j
           W == {i \in 1 .. n - 1 : c[i] # c[i + 1]}
           all == AggregateChanges(cs)
<1>1. n \in Nat \ {0} /\ DOMAIN vs = 1 .. n /\ \A i \in 1 .. n : vs[i] \in Range(vs) /\ FiniteReport(vs[i])
  <2>1. n \in Nat /\ DOMAIN vs = 1 .. n
    BY LenProperties DEF Series
  <2>2. \A i \in 1 .. n : vs[i] \in Range(vs)
    BY <2>1 DEF Range
  <2> QED
    BY <2>1, <2>2 DEF Series
<1>2. \A i \in 1 .. n : c[i] \in Nat /\ c[i] = Count(vs[i], k)
  BY <1>1, CountsAreNumbers
<1>3. DOMAIN cs = 1 .. n - 1 /\ \A i \in 1 .. n - 1 : cs[i] = CompareVersions(vs[i + 1], vs[i])
  BY DEF Neighbours
<1>4. all = [j \in UNION {{x.key : x \in AllChanges(cs[i])} : i \in DOMAIN cs} |->
               [initial |-> ChangeAt(Max(Changing(j)), j).before,
                total   |-> SumFunction([i \in Changing(j) |-> ChangeAt(i, j).after - ChangeAt(i, j).before])]]
  BY DEF AggregateChanges, AllChanges
<1> HIDE DEF n, cs, all, c
<1>5. ASSUME NEW i \in 1 .. n - 1
      PROVE  /\ (\E x \in AllChanges(cs[i]) : x.key = k) <=> c[i] # c[i + 1]
             /\ \A x \in AllChanges(cs[i]) : x.key = k => x.before = c[i + 1] /\ x.after = c[i]
  <2>1. i \in 1 .. n /\ i + 1 \in 1 .. n
    BY <1>1
  <2> QED
    BY <1>1, <1>2, <1>3, <2>1, ComparisonIsExact
<1>6. Changing(k) = W
  BY <1>3, <1>5
<1>7. ASSUME NEW i \in W PROVE ChangeAt(i, k).before = c[i + 1] /\ ChangeAt(i, k).after = c[i]
  <2>1. \E x \in AllChanges(cs[i]) : x.key = k
    BY <1>5, <1>7
  <2>2. ChangeAt(i, k) \in AllChanges(cs[i]) /\ ChangeAt(i, k).key = k
    BY <2>1
  <2> HIDE DEF ChangeAt
  <2> QED
    BY <1>5, <1>7, <2>2
<1>8. k \in DOMAIN all <=> W # {}
  <2>1. k \in DOMAIN all <=> \E i \in DOMAIN cs : \E x \in AllChanges(cs[i]) : x.key = k
    BY <1>4
  <2> QED
    BY <1>6, <2>1
<1>9. ASSUME W = {} PROVE \A i \in 1 .. n : c[i] = c[1]
  <2> TAKE i \in 1 .. n
  <2>1. \A m \in 1 .. n - 1 : c[m] = c[m + 1]
    BY <1>9
  <2>2. \A m \in 1 .. i - 1 : c[m] = c[m + 1]
    BY <1>1, <2>1
  <2> QED
    BY <1>1, <2>2, NothingChanges
<1>10. ASSUME W # {} PROVE all[k].initial = c[n] /\ all[k].initial + all[k].total = c[1]
  <2>1. W \subseteq 1 .. n - 1 /\ IsFiniteSet(W)
    BY <1>1, FS_Interval, FS_Subset
  <2>2. PICK t \in W : \A w \in W : t >= w
    <3> DEFINE N == {n - w : w \in W}
    <3>1. N \in SUBSET Nat /\ N # {} /\ \A w \in W : n - w \in N
      BY <1>1, <1>10
    <3>2. \A m \in N : \E w \in W : m = n - w
      OBVIOUS
    <3> HIDE DEF N
    <3>3. PICK m \in N : \A l \in N : ~(l < m)
      BY <3>1, SmallestNumber
    <3>4. PICK w \in W : m = n - w
      BY <3>2
    <3> QED
      BY <1>1, <2>1, <3>1, <3>3, <3>4
  <2>3. Max(W) \in W /\ \A w \in W : Max(W) >= w
    BY <2>2 DEF Max
  <2> DEFINE top == Max(W)
             d == [i \in W |-> ChangeAt(i, k).after - ChangeAt(i, k).before]
  <2>4. all[k].initial = ChangeAt(top, k).before /\ all[k].total = SumFunction(d)
    BY <1>4, <1>6, <1>8, <1>10
  <2>5. ChangeAt(top, k).before = c[top + 1]
    BY <1>7, <2>3
  <2>6. c[top + 1] = c[n]
    <3> HIDE DEF top
    <3>1. top \in 1 .. n - 1 /\ \A w \in W : top >= w
      BY <2>1, <2>3 DEF top
    <3>2. \A i \in top + 1 .. n - 1 : i \in 1 .. n - 1 /\ i \notin W
      BY <1>1, <3>1
    <3>3. \A i \in top + 1 .. n - 1 : c[i] = c[i + 1]
      BY <3>2
    <3>4. top + 1 \in Nat /\ n \in Nat /\ top + 1 <= n
      BY <1>1, <3>1
    <3> QED
      BY <3>3, <3>4, NothingChanges
  <2>7. \A i \in W : d[i] = c[i] - c[i + 1]
    BY <1>7
  <2>8. SumFunction(d) = SumFunctionOnSet(d, W)
    BY DEF SumFunction
  <2>9. SumFunctionOnSet(d, W) = c[1] - c[n]
    <3>1. \A i \in 1 .. n : c[i] \in Int
      BY <1>2
    <3> HIDE DEF d
    <3> QED
      BY <1>1, <2>7, <3>1, ChangesTelescope
  <2>10. c[1] \in Nat /\ c[n] \in Nat
    BY <1>1, <1>2
  <2> HIDE DEF d, top, W, ChangeAt
  <2> QED
    BY <2>4, <2>5, <2>6, <2>8, <2>9, <2>10
<1> HIDE DEF W
<1>11. 1 \in 1 .. n /\ n \in 1 .. n
  BY <1>1
<1> QED
  BY <1>2, <1>8, <1>9, <1>10, <1>11 DEF n, cs, all


\* The exit status is that of the gravest issue of any release.
LEMMA WorstIssue ==
  ASSUME NEW vs, Series(vs), Len(vs) # 0, NEW S, S = {IssueStatus(v) : v \in Range(vs)}
  PROVE  Max(S) \in {0, 3, 4} /\ (Max(S) = 0 <=> \A v \in Range(vs) : Complete(v))
<1>1. \A v : IssueStatus(v) \in {0, 3, 4} /\ (IssueStatus(v) = 0 <=> Complete(v))
  BY DEF IssueStatus, Complete
<1>2. Range(vs) # {}
  <2>1. 1 \in DOMAIN vs
    BY LenProperties DEF Series
  <2> QED
    BY <2>1 DEF Range
<1>3. S \subseteq {0, 3, 4} /\ S # {}
  BY <1>1, <1>2
<1>4. (\A v \in Range(vs) : Complete(v)) <=> S \subseteq {0}
  BY <1>1
<1>5. \E s \in S : \A t \in S : s >= t
  <2>1. CASE 4 \in S
    <3>1. \A t \in S : 4 >= t
      BY <1>3
    <3> QED
      BY <2>1, <3>1
  <2>2. CASE 4 \notin S /\ 3 \in S
    <3>1. \A t \in S : 3 >= t
      BY <1>3, <2>2
    <3> QED
      BY <2>2, <3>1
  <2>3. CASE 4 \notin S /\ 3 \notin S
    <3>1. 0 \in S /\ \A t \in S : 0 >= t
      BY <1>3, <2>3
    <3> QED
      BY <3>1
  <2> QED
    BY <2>1, <2>2, <2>3
<1>6. Max(S) \in S /\ \A t \in S : Max(S) >= t
  BY <1>5 DEF Max
<1>7. Max(S) \in {0, 3, 4} /\ (Max(S) = 0 <=> S \subseteq {0})
  <2>1. Max(S) \in {0, 3, 4}
    BY <1>3, <1>6
  <2>2. ASSUME Max(S) = 0, NEW t \in S PROVE t = 0
    <3>1. t \in {0, 3, 4} /\ 0 >= t
      BY <1>3, <1>6, <2>2
    <3> QED
      BY <3>1
  <2> QED
    BY <1>6, <2>1, <2>2
<1> QED
  BY <1>4, <1>7

\* A package that a report knows, or whose version has one part, is its name.
LEMMA NormalizedByName ==
  ASSUME NEW v, NEW p, p.version \in Seq(STRING),
         p.name = "root" \/ Len(p.version) = 1 \/ <<p, p.version>> \in v.resolved
  PROVE  NormalizedPackage(v, p) = <<p.name>>
<1>1. CASE p.name = "root" \/ <<p, p.version>> \in v.resolved
  BY <1>1 DEF NormalizedPackage
<1>2. CASE p.name # "root" /\ <<p, p.version>> \notin v.resolved
  <2>1. Len(p.version) = 1
    BY <1>2
  <2>2. Front(p.version) = <<>>
    BY <2>1 DEF Front
  <2>3. NormalizedPackage(v, p) = <<p.name>> \o <<>>
    BY <1>2, <2>2 DEF NormalizedPackage
  <2> QED
    BY <2>3
<1> QED
  BY <1>1, <1>2

\* Within one diff, findings have one identity when and only when they are the
\* same code, and then the same risk.
LEMMA IdentityIsCode ==
  ASSUME NEW vs \in Releases, NEW v \in Range(vs), NEW w \in Range(vs),
         NEW f \in v.findings, NEW g \in w.findings
  PROVE  /\ Identity(v, f) = Identity(w, g) <=> SameCode(f, g)
         /\ Identity(v, f) = Identity(w, g) => f.risk = g.risk
<1>1. /\ NormalizedPackage(v, f.package) = <<f.package.name>>
      /\ NormalizedPackage(w, g.package) = <<g.package.name>>
  <2>1. /\ f.package.version \in Seq(STRING) /\ g.package.version \in Seq(STRING)
        /\ \/ f.package.name = "root" \/ Len(f.package.version) = 1
           \/ <<f.package, f.package.version>> \in v.resolved
        /\ \/ g.package.name = "root" \/ Len(g.package.version) = 1
           \/ <<g.package, g.package.version>> \in w.resolved
    BY ReleasesAssumption
  <2> QED
    BY <2>1, NormalizedByName
<1>2. f.rule = g.rule => f.risk = g.risk
  BY ReleasesAssumption
<1>3. Identity(v, f) = Identity(w, g)
        <=> /\ <<f.package.name>> = <<g.package.name>>
            /\ f.rule = g.rule /\ f.file = g.file /\ f.code = g.code
  BY <1>1 DEF Identity
<1> QED
  BY <1>2, <1>3 DEF SameCode

\* The releases compared are finite reports in a sequence.
LEMMA ReleasesAreSeries ==
  ASSUME NEW vs \in Releases
  PROVE  Series(vs)
BY ReleasesAssumption DEF Series, FiniteReport

\* What the exit status compares, over all releases.
LEMMA CountsOfIdentity ==
  ASSUME NEW vs \in Releases, NEW v \in Range(vs), NEW w \in Range(vs),
         NEW f \in Visible(w, FALSE)
  PROVE  LET i == Identity(w, f)
             found == {g \in Visible(v, FALSE) : SameCode(f, g)}
         IN  /\ IdentityCount(v, FALSE, i) = Cardinality(found)
             /\ IdentityCount(v, Verbose, i) = Cardinality(found)
             /\ IsFiniteSet(found)
<1> DEFINE i == Identity(w, f)
           found == {g \in Visible(v, FALSE) : SameCode(f, g)}
<1>1. f \in w.findings /\ ~f.suppressed /\ f.risk >= Threshold
  BY DEF Visible, Counts
<1>2. ASSUME NEW g \in v.findings
      PROVE  (Identity(v, g) = i <=> SameCode(f, g)) /\ (Identity(v, g) = i => g.risk = f.risk)
  BY <1>1, IdentityIsCode
<1>3. {g \in Visible(v, FALSE) : Identity(v, g) = i} = found
  BY <1>2 DEF Visible
<1>4. {g \in Visible(v, Verbose) : Identity(v, g) = i} = found
  <2>1. ASSUME NEW g \in v.findings, Identity(v, g) = i
        PROVE  Counts(g, Verbose) <=> Counts(g, FALSE)
    BY <1>1, <1>2, <2>1 DEF Counts
  <2>2. {g \in Visible(v, Verbose) : Identity(v, g) = i} = {g \in Visible(v, FALSE) : Identity(v, g) = i}
    BY <2>1 DEF Visible
  <2> QED
    BY <1>3, <2>2
<1>5. IsFiniteSet(v.findings)
  BY ReleasesAreSeries DEF Series, FiniteReport
<1>6. IsFiniteSet(found)
  BY <1>5, FS_Subset DEF Visible
<1> QED
  BY <1>3, <1>4, <1>6 DEF IdentityCount

\* A finding that is more frequent in the newest release than in the oldest
\* was added between two neighbours.
LEMMA GrowthIsListed ==
  ASSUME NEW vs \in Releases, Len(vs) # 0, NEW f \in Visible(vs[1], FALSE),
         IdentityCount(vs[1], FALSE, Identity(vs[1], f))
           > IdentityCount(vs[Len(vs)], FALSE, Identity(vs[1], f))
  PROVE  \E j \in 1 .. Len(vs) - 1 : CompareVersions(vs[j + 1], vs[j]).added # {}
<1> DEFINE n == Len(vs)
           i == Identity(vs[1], f)
           found(j) == {g \in Visible(vs[j], FALSE) : SameCode(f, g)}
           c == [j \in 1 .. n |-> Cardinality(found(j))]
<1>1. n \in Nat \ {0} /\ \A j \in 1 .. n : vs[j] \in Range(vs)
  <2>1. n \in Nat /\ DOMAIN vs = 1 .. n
    BY ReleasesAreSeries, LenProperties DEF Series
  <2> QED
    BY <2>1 DEF Range
<1>2. ASSUME NEW j \in 1 .. n
      PROVE  /\ IdentityCount(vs[j], FALSE, i) = c[j] /\ IdentityCount(vs[j], Verbose, i) = c[j]
             /\ c[j] \in Nat
  <2>1. 1 \in 1 .. n
    BY <1>1
  <2>2. vs[j] \in Range(vs) /\ vs[1] \in Range(vs)
    BY <1>1, <2>1
  <2>3. /\ IdentityCount(vs[j], FALSE, i) = Cardinality(found(j))
        /\ IdentityCount(vs[j], Verbose, i) = Cardinality(found(j))
        /\ IsFiniteSet(found(j))
    BY <2>2, CountsOfIdentity
  <2>4. Cardinality(found(j)) \in Nat
    BY <2>3, FS_CardinalityType
  <2> QED
    BY <2>3, <2>4
<1>3. c[1] > c[n]
  <2>1. 1 \in 1 .. n /\ n \in 1 .. n
    BY <1>1
  <2>2. IdentityCount(vs[1], FALSE, i) = c[1] /\ IdentityCount(vs[n], FALSE, i) = c[n]
    BY <1>2, <2>1
  <2> QED
    BY <2>2
<1> HIDE DEF c
<1>4. PICK j \in 1 .. n - 1 : c[j] > c[j + 1]
  <2> HIDE DEF n
  <2> QED
    BY <1>1, <1>2, <1>3, SomewhereItFalls
<1>5. j \in 1 .. n /\ j + 1 \in 1 .. n
  BY <1>1, <1>4
<1>6. IdentityCount(vs[j], Verbose, i) > IdentityCount(vs[j + 1], Verbose, i)
  BY <1>2, <1>4, <1>5
<1>7. {g \in Visible(vs[j], Verbose) : Identity(vs[j], g) = i} # {}
  <2> SUFFICES ASSUME {g \in Visible(vs[j], Verbose) : Identity(vs[j], g) = i} = {} PROVE FALSE
    OBVIOUS
  <2>1. IdentityCount(vs[j], Verbose, i) = 0
    <3>1. IdentityCount(vs[j], Verbose, i)
            = Cardinality({g \in Visible(vs[j], Verbose) : Identity(vs[j], g) = i})
      BY DEF IdentityCount
    <3> QED
      BY <3>1, FS_EmptySet
  <2>2. c[j] = 0
    BY <1>2, <1>5, <2>1
  <2>3. c[j] \in Nat /\ c[j + 1] \in Nat
    BY <1>2, <1>5
  <2> QED
    BY <1>4, <2>2, <2>3
<1>8. PICK g \in Visible(vs[j], Verbose) : Identity(vs[j], g) = i
  BY <1>7
<1>9. g \in Grown(vs[j + 1], vs[j])
  BY <1>6, <1>8 DEF Grown
<1>10. CompareVersions(vs[j + 1], vs[j]).added = Grown(vs[j + 1], vs[j])
  BY DEF CompareVersions
<1> QED
  BY <1>4, <1>9, <1>10

\* The comparisons made so far are those of neighbours, from the newest on, and
\* a diff that has concluded made all of them.
DiffInv ==
  /\ versions \in Releases
  /\ comparisons \in Seq({CompareVersions(o, w) : o \in Range(versions), w \in Range(versions)})
  /\ \A i \in 1 .. Len(comparisons) : comparisons[i] = CompareVersions(versions[i + 1], versions[i])
  /\ diffExit # -1 =>
       /\ Len(versions) # 0 /\ Len(comparisons) = Len(versions) - 1
       /\ summary = AggregateChanges(comparisons)
       /\ diffExit = DiffExitStatus(versions)

\* Before the first comparison there is none.
LEMMA DiffStarts == DiffInit => DiffInv
<1> SUFFICES ASSUME DiffInit PROVE DiffInv
  OBVIOUS
<1>1. versions \in Releases /\ comparisons = <<>> /\ diffExit = -1
  BY DEF DiffInit
<1>2. Len(comparisons) = 0
  BY <1>1
<1> QED
  BY <1>1, <1>2 DEF DiffInv

\* Each comparison is that of the next two neighbours; the end is made of all of
\* them.
LEMMA DiffStep == DiffInv /\ [DiffNext]_diffVars => DiffInv'
<1> SUFFICES ASSUME DiffInv, [DiffNext]_diffVars PROVE DiffInv'
  OBVIOUS
<1> DEFINE Pairs == {CompareVersions(o, w) : o \in Range(versions), w \in Range(versions)}
<1>1. CASE CompareNext
  <2> DEFINE i == Len(comparisons) + 1
             next == CompareVersions(versions[i + 1], versions[i])
  <2>1. /\ diffExit = -1 /\ Len(comparisons) < Len(versions) - 1
        /\ comparisons' = Append(comparisons, next)
        /\ versions' = versions /\ diffExit' = diffExit
    BY <1>1 DEF CompareNext
  <2>2. Len(versions) \in Nat /\ DOMAIN versions = 1 .. Len(versions)
    BY ReleasesAreSeries, LenProperties DEF Series, DiffInv
  <2>3. comparisons \in Seq(Pairs) /\ Len(comparisons) \in Nat
    BY LenProperties DEF DiffInv
  <2>4. i \in 1 .. Len(versions) /\ i + 1 \in 1 .. Len(versions)
    BY <2>1, <2>2, <2>3
  <2>5. next \in Pairs
    <3>1. versions[i + 1] \in Range(versions) /\ versions[i] \in Range(versions)
      BY <2>2, <2>4 DEF Range
    <3> QED
      BY <3>1
  <2> HIDE DEF Pairs, next
  <2>6. /\ Append(comparisons, next) \in Seq(Pairs) /\ Len(Append(comparisons, next)) = i
        /\ \A j \in 1 .. Len(comparisons) : Append(comparisons, next)[j] = comparisons[j]
        /\ Append(comparisons, next)[i] = next
    BY <2>3, <2>5, AppendProperties
  <2>7. \A j \in 1 .. i : j \in 1 .. Len(comparisons) \/ j = i
    BY <2>3
  <2>8. \A j \in 1 .. i : comparisons'[j] = CompareVersions(versions[j + 1], versions[j])
    <3> TAKE j \in 1 .. i
    <3>1. CASE j \in 1 .. Len(comparisons)
      BY <2>1, <2>6, <3>1 DEF DiffInv
    <3>2. CASE j = i
      BY <2>1, <2>6, <3>2 DEF next
    <3> QED
      BY <2>7, <3>1, <3>2
  <2> QED
    BY <2>1, <2>6, <2>8 DEF DiffInv, Pairs
<1>2. CASE Conclude
  <2>1. /\ versions # <<>> /\ Len(comparisons) = Len(versions) - 1
        /\ summary' = AggregateChanges(comparisons) /\ diffExit' = DiffExitStatus(versions)
        /\ versions' = versions /\ comparisons' = comparisons
    BY <1>2 DEF Conclude
  <2>2. Len(versions) # 0
    BY <2>1, ReleasesAreSeries, EmptySeq DEF Series, DiffInv
  <2> QED
    BY <2>1, <2>2 DEF DiffInv
<1>3. CASE UNCHANGED diffVars
  BY <1>3 DEF diffVars, DiffInv
<1> QED
  BY <1>1, <1>2, <1>3 DEF DiffNext

\* A diff that has concluded tells the truth.
LEMMA ConcludedTruly == DiffInv => DiffTellsTheTruth
<1> SUFFICES ASSUME DiffInv, diffExit # -1 PROVE DiffTellsTheTruth
  BY DEF DiffTellsTheTruth
<1> DEFINE n == Len(versions)
           newest == Head(versions)
           oldest == Last(versions)
           S == {IssueStatus(v) : v \in Range(versions)}
<1>1. /\ versions \in Releases /\ Series(versions) /\ Len(versions) # 0
      /\ Len(comparisons) = Len(versions) - 1
      /\ summary = AggregateChanges(comparisons) /\ diffExit = DiffExitStatus(versions)
  BY ReleasesAreSeries DEF DiffInv
<1>2. /\ n \in Nat \ {0} /\ DOMAIN versions = 1 .. n
      /\ newest = versions[1] /\ oldest = versions[n]
      /\ \A i \in 1 .. n : versions[i] \in Range(versions)
      /\ \A v \in Range(versions) : \E i \in 1 .. n : v = versions[i]
      /\ newest \in Range(versions) /\ oldest \in Range(versions)
  <2>1. n \in Nat \ {0} /\ DOMAIN versions = 1 .. n
    BY <1>1, LenProperties DEF Series
  <2>2. newest = versions[1] /\ oldest = versions[n]
    BY <1>1, <2>1 DEF Last, Series
  <2>3. 1 \in 1 .. n /\ n \in 1 .. n
    BY <2>1
  <2> QED
    BY <2>1, <2>2, <2>3 DEF Range
<1>3. comparisons = Neighbours(versions)
  BY <1>1, SeqDef, LenProperties DEF DiffInv, Neighbours
<1>4. ASSUME NEW k
      PROVE  IF k \in DOMAIN summary
             THEN /\ summary[k].initial = Count(oldest, k)
                  /\ summary[k].initial + summary[k].total = Count(newest, k)
             ELSE \A v \in Range(versions) : Count(v, k) = Count(newest, k)
  <2>1. summary = AggregateChanges(Neighbours(versions))
    BY <1>1, <1>3
  <2>2. IF k \in DOMAIN summary
        THEN /\ summary[k].initial = Count(versions[n], k)
             /\ summary[k].initial + summary[k].total = Count(versions[1], k)
        ELSE \A i \in 1 .. n : Count(versions[i], k) = Count(versions[1], k)
    BY <1>1, <2>1, SummaryIsExact
  <2> QED
    BY <1>2, <2>2
<1>5. Max(S) \in {0, 3, 4} /\ (Max(S) = 0 <=> \A v \in Range(versions) : Complete(v))
  BY <1>1, WorstIssue
<1> DEFINE worst == Max(S)
           grows == \E i \in Identities(newest, FALSE) :
                      IdentityCount(newest, FALSE, i) > IdentityCount(oldest, FALSE, i)
<1>6. diffExit = IF worst > 0 THEN worst ELSE IF grows THEN 1 ELSE 0
  BY <1>1 DEF DiffExitStatus
<1> HIDE DEF S, newest, oldest, n, worst, grows
<1>7. /\ diffExit <= 1 <=> \A v \in Range(versions) : Complete(v)
      /\ diffExit = 1 => grows
      /\ diffExit = 0 => ~grows
  <2>1. worst \in {0, 3, 4} /\ (worst = 0 <=> \A v \in Range(versions) : Complete(v))
    BY <1>5 DEF worst
  <2>2. CASE worst = 0
    BY <1>6, <2>1, <2>2
  <2>3. CASE worst # 0
    BY <1>6, <2>1, <2>3
  <2> QED
    BY <2>1, <2>2, <2>3
<1>8. ASSUME diffExit = 0, NEW f \in Visible(newest, FALSE)
      PROVE  \E g \in Visible(oldest, FALSE) : SameCode(f, g)
  <2> DEFINE i == Identity(newest, f)
             here == {g \in Visible(newest, FALSE) : SameCode(f, g)}
             there == {g \in Visible(oldest, FALSE) : SameCode(f, g)}
  <2>1. i \in Identities(newest, FALSE)
    BY DEF Identities
  <2>2. ~(IdentityCount(newest, FALSE, i) > IdentityCount(oldest, FALSE, i))
    BY <1>7, <1>8, <2>1 DEF grows
  <2>3. /\ IdentityCount(newest, FALSE, i) = Cardinality(here) /\ IsFiniteSet(here)
        /\ IdentityCount(oldest, FALSE, i) = Cardinality(there) /\ IsFiniteSet(there)
    <3>1. versions \in Releases /\ newest \in Range(versions) /\ oldest \in Range(versions)
      BY <1>1, <1>2
    <3>2. IdentityCount(newest, FALSE, i) = Cardinality(here) /\ IsFiniteSet(here)
      BY <3>1, CountsOfIdentity
    <3>3. IdentityCount(oldest, FALSE, i) = Cardinality(there) /\ IsFiniteSet(there)
      BY <3>1, CountsOfIdentity
    <3> QED
      BY <3>2, <3>3
  <2>4. f \in here
    BY DEF SameCode
  <2> HIDE DEF here, there
  <2>5. Cardinality(here) \in Nat /\ Cardinality(here) # 0 /\ Cardinality(there) \in Nat
    BY <2>3, <2>4, FS_CardinalityType, FS_EmptySet
  <2>6. Cardinality(there) # 0
    <3>1. ~(Cardinality(here) > Cardinality(there))
      BY <2>2, <2>3
    <3> QED
      BY <2>5, <3>1
  <2>7. there # {}
    BY <2>6, FS_EmptySet
  <2> QED
    BY <2>7 DEF there
<1>9. ASSUME diffExit = 1
      PROVE  /\ \E i \in DOMAIN comparisons : comparisons[i].added # {}
             /\ \E f \in Visible(newest, FALSE) :
                  Cardinality({g \in Visible(newest, FALSE) : SameCode(f, g)})
                    > Cardinality({g \in Visible(oldest, FALSE) : SameCode(f, g)})
  <2>1. PICK i \in Identities(newest, FALSE) :
          IdentityCount(newest, FALSE, i) > IdentityCount(oldest, FALSE, i)
    BY <1>7, <1>9 DEF grows
  <2>2. PICK f \in Visible(newest, FALSE) : i = Identity(newest, f)
    BY DEF Identities
  <2>3. /\ IdentityCount(newest, FALSE, i) = Cardinality({g \in Visible(newest, FALSE) : SameCode(f, g)})
        /\ IdentityCount(oldest, FALSE, i) = Cardinality({g \in Visible(oldest, FALSE) : SameCode(f, g)})
    <3>1. versions \in Releases /\ newest \in Range(versions) /\ oldest \in Range(versions)
      BY <1>1, <1>2
    <3>2. IdentityCount(newest, FALSE, i) = Cardinality({g \in Visible(newest, FALSE) : SameCode(f, g)})
      BY <2>2, <3>1, CountsOfIdentity
    <3>3. IdentityCount(oldest, FALSE, i) = Cardinality({g \in Visible(oldest, FALSE) : SameCode(f, g)})
      BY <2>2, <3>1, CountsOfIdentity
    <3> QED
      BY <3>2, <3>3
  <2>4. PICK j \in 1 .. n - 1 : CompareVersions(versions[j + 1], versions[j]).added # {}
    BY <1>1, <1>2, <2>1, <2>2, GrowthIsListed DEF n
  <2>5. j \in DOMAIN comparisons /\ comparisons[j] = CompareVersions(versions[j + 1], versions[j])
    BY <1>3, <2>4 DEF Neighbours, n
  <2> QED
    BY <2>1, <2>3, <2>4, <2>5
<1> QED
  BY <1>4, <1>7, <1>8, <1>9 DEF DiffTellsTheTruth, newest, oldest

\* Whatever the releases: the summary leads from the oldest to the newest, and
\* the exit status tells whether code was added that counts.
THEOREM DiffTellsTheTruthHolds == DiffSpec => []DiffTellsTheTruth
<1>1. DiffInit => DiffInv
  BY DiffStarts
<1>2. DiffInv /\ [DiffNext]_diffVars => DiffInv'
  BY DiffStep
<1>3. DiffInv => DiffTellsTheTruth
  BY ConcludedTruly
<1> QED
  BY <1>1, <1>2, <1>3, PTL DEF DiffSpec
=============================================================================
