----------------------------- MODULE Sums_proofs -----------------------------
(* What the sums of the community modules add up to.  They are recursive        *)
(* functions over the subsets of a finite set that take an arbitrary member out  *)
(* at each step; here it is shown that such a function exists, and that the sum  *)
(* does not depend on which member is taken.  And what several proofs need of   *)
(* finite sets and sequences.                                                   *)
EXTENDS Integers, FiniteSets, SequencesExt, FiniteSetTheorems, SequenceTheorems, WellFoundedInduction, TLAPS

\* A set of numbers that is not empty has a smallest.
LEMMA SmallestNumber ==
  ASSUME NEW N \in SUBSET Nat, N # {}
  PROVE  \E n \in N : \A m \in N : ~(m < n)
<1> DEFINE less == OpToRel(<, Nat)
<1>1. IsWellFoundedOn(less, Nat)
  BY NatLessThanWellFounded
<1>2. \A x, y \in Nat : y < x => <<y, x>> \in less
  BY DEF OpToRel
<1> HIDE DEF less
<1>3. PICK n \in N : \A m \in N : ~(<<m, n>> \in less)
  BY <1>1, WFMin
<1> QED
  BY <1>2, <1>3

\* Among sets of parts of a finite set there is a smallest one: this takes the
\* place of induction on the size of a set.
LEMMA SmallestPart ==
  ASSUME NEW S, IsFiniteSet(S), NEW B \in SUBSET (SUBSET S), B # {}
  PROVE  \E T \in B : \A U \in SUBSET T : U # T => U \notin B
<1>1. \A T \in SUBSET S : IsFiniteSet(T) /\ Cardinality(T) \in Nat
  BY FS_Subset, FS_CardinalityType
<1>2. \A U, T \in SUBSET S : U \subseteq T /\ U # T => Cardinality(U) < Cardinality(T)
  <2> TAKE U, T \in SUBSET S
  <2> SUFFICES ASSUME U \subseteq T, U # T PROVE Cardinality(U) < Cardinality(T)
    OBVIOUS
  <2>1. Cardinality(U) <= Cardinality(T) /\ Cardinality(U) # Cardinality(T)
    BY <1>1, FS_Subset
  <2> QED
    BY <1>1, <2>1
<1> DEFINE sizes == {Cardinality(T) : T \in B}
<1>3. sizes \in SUBSET Nat /\ sizes # {}
  BY <1>1
<1>4. \A T \in B : Cardinality(T) \in sizes
  OBVIOUS
<1>5. \A n \in sizes : \E T \in B : n = Cardinality(T)
  OBVIOUS
<1> HIDE DEF sizes
<1>6. PICK n \in sizes : \A m \in sizes : ~(m < n)
  BY <1>3, SmallestNumber
<1>7. PICK T \in B : n = Cardinality(T)
  BY <1>5
<1>8. \A U \in SUBSET T : U # T => U \notin B
  BY <1>2, <1>4, <1>6, <1>7
<1> QED
  BY <1>8

-----------------------------------------------------------------------------
(* The recursion of a sum.                                                     *)

Drawn(s) == CHOOSE x \in s : TRUE

Step(f, g, s) == IF s = {} THEN 0 ELSE f[Drawn(s)] + g[s \ {Drawn(s)}]

\* g sums f over all parts of S.
SumsUp(f, g, S) == g = [s \in SUBSET S |-> Step(f, g, s)]

\* The sum is what a function that sums up has at the whole set.
LEMMA SumUnfolds ==
  ASSUME NEW f, NEW S
  PROVE  SumFunctionOnSet(f, S) = (CHOOSE g : SumsUp(f, g, S))[S]
BY Zenon DEF SumFunctionOnSet, FoldFunctionOnSet, MapThenFoldSet, Step, Drawn, SumsUp

\* Such functions agree wherever both are defined.
LEMMA SumsAgree ==
  ASSUME NEW S, IsFiniteSet(S), NEW f, NEW T \in SUBSET S, NEW g, NEW h, SumsUp(f, g, S), SumsUp(f, h, T)
  PROVE  \A s \in SUBSET T : g[s] = h[s]
<1> DEFINE B == {s \in SUBSET T : g[s] # h[s]}
<1> SUFFICES ASSUME B # {} PROVE FALSE
  OBVIOUS
<1>1. IsFiniteSet(T)
  BY FS_Subset
<1>b. B \in SUBSET (SUBSET T) /\ \A s \in SUBSET T : s \in B <=> g[s] # h[s]
  OBVIOUS
<1> HIDE DEF B
<1>2. PICK s \in B : \A U \in SUBSET s : U # s => U \notin B
  BY <1>1, <1>b, SmallestPart
<1>3. s \in SUBSET T /\ s \in SUBSET S /\ g[s] # h[s]
  BY <1>b
<1>4. g[s] = Step(f, g, s) /\ h[s] = Step(f, h, s)
  BY <1>3 DEF SumsUp
<1>5. s # {}
  BY <1>3, <1>4 DEF Step
<1>6. Drawn(s) \in s
  BY <1>5 DEF Drawn
<1>7. g[s \ {Drawn(s)}] = h[s \ {Drawn(s)}]
  <2>1. s \ {Drawn(s)} \in SUBSET s /\ s \ {Drawn(s)} # s /\ s \ {Drawn(s)} \in SUBSET T
    BY <1>3, <1>6
  <2> QED
    BY <1>2, <1>b, <2>1
<1> QED
  BY <1>3, <1>4, <1>5, <1>7 DEF Step

\* Every finite set has one.
LEMMA SumExists ==
  ASSUME NEW S, IsFiniteSet(S), NEW f
  PROVE  \E g : SumsUp(f, g, S)
<1> DEFINE B == {T \in SUBSET S : ~\E g : SumsUp(f, g, T)}
           sum(T) == (CHOOSE g : SumsUp(f, g, T))[T]
<1> SUFFICES ASSUME B # {} PROVE FALSE
  OBVIOUS
<1>b. B \in SUBSET (SUBSET S) /\ \A T \in SUBSET S : T \in B <=> ~\E g : SumsUp(f, g, T)
  OBVIOUS
<1> HIDE DEF B
<1>1. PICK T \in B : \A U \in SUBSET T : U # T => U \notin B
  BY <1>b, SmallestPart
<1>2. T \in SUBSET S /\ ~\E g : SumsUp(f, g, T)
  BY <1>b
<1>3. \A U \in SUBSET T : U # T => SumsUp(f, CHOOSE g : SumsUp(f, g, U), U)
  <2> TAKE U \in SUBSET T
  <2> HAVE U # T
  <2>1. U \in SUBSET S /\ U \notin B
    BY <1>1, <1>2
  <2>2. \E g : SumsUp(f, g, U)
    BY <1>b, <2>1
  <2> QED
    BY <2>2
<1>4. ASSUME NEW s \in SUBSET T, s # T, s # {} PROVE sum(s) = f[Drawn(s)] + sum(s \ {Drawn(s)})
  <2> DEFINE U == s \ {Drawn(s)}
             g == CHOOSE k : SumsUp(f, k, s)
             h == CHOOSE k : SumsUp(f, k, U)
  <2>1. Drawn(s) \in s
    BY <1>4 DEF Drawn
  <2>2. U \in SUBSET s /\ U \in SUBSET T /\ U # T /\ IsFiniteSet(s)
    BY <1>2, <2>1, FS_Subset
  <2>3. SumsUp(f, g, s) /\ SumsUp(f, h, U)
    BY <1>3, <1>4, <2>2
  <2> HIDE DEF g, h, U
  <2>4. g[U] = h[U]
    BY <2>2, <2>3, SumsAgree
  <2>5. g[s] = f[Drawn(s)] + g[U]
    BY <1>4, <2>3 DEF SumsUp, Step, U
  <2> QED
    BY <2>4, <2>5 DEF g, h, U
<1> DEFINE k == [s \in SUBSET T |-> IF s = {} THEN 0 ELSE f[Drawn(s)] + sum(s \ {Drawn(s)})]
<1>5. \A s \in SUBSET T : s # T => k[s] = sum(s)
  <2> TAKE s \in SUBSET T
  <2> HAVE s # T
  <2>1. CASE s = {}
    <3> DEFINE g == CHOOSE h : SumsUp(f, h, s)
    <3>1. SumsUp(f, g, s)
      BY <1>3
    <3> HIDE DEF g
    <3>2. g[s] = 0
      BY <2>1, <3>1 DEF SumsUp, Step
    <3> QED
      BY <2>1, <3>2 DEF g
  <2>2. CASE s # {}
    <3> HIDE DEF sum
    <3> QED
      BY <1>4, <2>2
  <2> QED
    BY <2>1, <2>2
<1> HIDE DEF sum
<1>6. \A s \in SUBSET T : k[s] = Step(f, k, s)
  <2> TAKE s \in SUBSET T
  <2>1. CASE s = {}
    BY <2>1 DEF Step
  <2>2. CASE s # {}
    <3>1. Drawn(s) \in s
      BY <2>2 DEF Drawn
    <3>2. s \ {Drawn(s)} \in SUBSET T /\ s \ {Drawn(s)} # T
      BY <3>1
    <3>3. k[s \ {Drawn(s)}] = sum(s \ {Drawn(s)}) /\ k[s] = f[Drawn(s)] + sum(s \ {Drawn(s)})
      BY <1>5, <2>2, <3>2
    <3> HIDE DEF k
    <3> QED
      BY <2>2, <3>3 DEF Step
  <2> QED
    BY <2>1, <2>2
<1>7. k = [s \in SUBSET T |-> k[s]]
  OBVIOUS
<1> HIDE DEF k
<1>8. SumsUp(f, k, T)
  BY <1>6, <1>7 DEF SumsUp
<1> QED
  BY <1>2, <1>8

\* A sum takes out one member after the other.
LEMMA SumStep ==
  ASSUME NEW S, IsFiniteSet(S), NEW f
  PROVE  /\ SumFunctionOnSet(f, {}) = 0
         /\ S # {} => /\ Drawn(S) \in S
                      /\ SumFunctionOnSet(f, S) = f[Drawn(S)] + SumFunctionOnSet(f, S \ {Drawn(S)})
<1> DEFINE g(T) == CHOOSE h : SumsUp(f, h, T)
<1>1. \A T : IsFiniteSet(T) => SumsUp(f, g(T), T) /\ SumFunctionOnSet(f, T) = g(T)[T]
  BY SumExists, SumUnfolds
<1> HIDE DEF g
<1>2. SumFunctionOnSet(f, {}) = 0
  <2>1. SumsUp(f, g({}), {}) /\ SumFunctionOnSet(f, {}) = g({})[{}]
    BY <1>1, FS_EmptySet
  <2> QED
    BY <2>1 DEF SumsUp, Step
<1>3. ASSUME S # {}
      PROVE  Drawn(S) \in S /\ SumFunctionOnSet(f, S) = f[Drawn(S)] + SumFunctionOnSet(f, S \ {Drawn(S)})
  <2> DEFINE T == S \ {Drawn(S)}
  <2>1. Drawn(S) \in S
    BY <1>3 DEF Drawn
  <2>2. T \in SUBSET S /\ IsFiniteSet(T)
    BY FS_Subset
  <2>3. g(S)[T] = g(T)[T]
    <3>1. SumsUp(f, g(S), S) /\ SumsUp(f, g(T), T)
      BY <1>1, <2>2
    <3> HIDE DEF T
    <3>2. \A s \in SUBSET T : g(S)[s] = g(T)[s]
      BY <2>2, <3>1, SumsAgree
    <3> QED
      BY <3>2
  <2>4. g(S)[S] = f[Drawn(S)] + g(S)[T]
    BY <1>1, <1>3 DEF SumsUp, Step
  <2> QED
    BY <1>1, <2>1, <2>2, <2>3, <2>4
<1> QED
  BY <1>2, <1>3

\* Sums of numbers are numbers.
LEMMA SumNat ==
  ASSUME NEW S, IsFiniteSet(S), NEW f, \A x \in S : f[x] \in Nat
  PROVE  SumFunctionOnSet(f, S) \in Nat
<1> DEFINE B == {T \in SUBSET S : SumFunctionOnSet(f, T) \notin Nat}
<1> SUFFICES ASSUME B # {} PROVE FALSE
  OBVIOUS
<1>b. B \in SUBSET (SUBSET S) /\ \A T \in SUBSET S : T \in B <=> SumFunctionOnSet(f, T) \notin Nat
  OBVIOUS
<1> HIDE DEF B
<1>1. PICK T \in B : \A U \in SUBSET T : U # T => U \notin B
  BY <1>b, SmallestPart
<1>2. T \in SUBSET S /\ IsFiniteSet(T) /\ SumFunctionOnSet(f, T) \notin Nat
  BY <1>b, FS_Subset
<1>3. T # {}
  <2>1. SumFunctionOnSet(f, {}) = 0
    BY FS_EmptySet, SumStep
  <2> QED
    BY <1>2, <2>1
<1>4. Drawn(T) \in T /\ SumFunctionOnSet(f, T) = f[Drawn(T)] + SumFunctionOnSet(f, T \ {Drawn(T)})
  BY <1>2, <1>3, SumStep
<1>5. T \ {Drawn(T)} \in SUBSET T /\ T \ {Drawn(T)} # T /\ T \ {Drawn(T)} \in SUBSET S
  BY <1>2, <1>4
<1>6. SumFunctionOnSet(f, T \ {Drawn(T)}) \in Nat /\ f[Drawn(T)] \in Nat
  BY <1>1, <1>2, <1>4, <1>5, <1>b
<1> QED
  BY <1>2, <1>4, <1>6

\* Sums of integers are integers.
LEMMA SumInt ==
  ASSUME NEW S, IsFiniteSet(S), NEW f, \A x \in S : f[x] \in Int
  PROVE  SumFunctionOnSet(f, S) \in Int
<1> DEFINE B == {T \in SUBSET S : SumFunctionOnSet(f, T) \notin Int}
<1> SUFFICES ASSUME B # {} PROVE FALSE
  OBVIOUS
<1>b. B \in SUBSET (SUBSET S) /\ \A T \in SUBSET S : T \in B <=> SumFunctionOnSet(f, T) \notin Int
  OBVIOUS
<1> HIDE DEF B
<1>1. PICK T \in B : \A U \in SUBSET T : U # T => U \notin B
  BY <1>b, SmallestPart
<1>2. T \in SUBSET S /\ IsFiniteSet(T) /\ SumFunctionOnSet(f, T) \notin Int
  BY <1>b, FS_Subset
<1>3. T # {}
  <2>1. SumFunctionOnSet(f, {}) = 0
    BY FS_EmptySet, SumStep
  <2> QED
    BY <1>2, <2>1
<1>4. Drawn(T) \in T /\ SumFunctionOnSet(f, T) = f[Drawn(T)] + SumFunctionOnSet(f, T \ {Drawn(T)})
  BY <1>2, <1>3, SumStep
<1>5. T \ {Drawn(T)} \in SUBSET T /\ T \ {Drawn(T)} # T /\ T \ {Drawn(T)} \in SUBSET S
  BY <1>2, <1>4
<1>6. SumFunctionOnSet(f, T \ {Drawn(T)}) \in Int /\ f[Drawn(T)] \in Int
  BY <1>1, <1>2, <1>4, <1>5, <1>b
<1> QED
  BY <1>2, <1>4, <1>6

\* Any member may be taken out first.
LEMMA SumTakesOut ==
  ASSUME NEW S, IsFiniteSet(S), NEW f, \A x \in S : f[x] \in Int, NEW x \in S
  PROVE  SumFunctionOnSet(f, S) = f[x] + SumFunctionOnSet(f, S \ {x})
<1> DEFINE sum(T) == SumFunctionOnSet(f, T)
           B == {T \in SUBSET S : \E y \in T : sum(T) # f[y] + sum(T \ {y})}
<1> SUFFICES ASSUME B # {} PROVE FALSE
  OBVIOUS
<1>b. /\ B \in SUBSET (SUBSET S) /\ B # {}
      /\ \A T \in SUBSET S : T \in B <=> \E y \in T : sum(T) # f[y] + sum(T \ {y})
  OBVIOUS
<1> HIDE DEF B
<1>1. PICK T \in B : \A U \in SUBSET T : U # T => U \notin B
  BY <1>b, SmallestPart
<1>0. T \in SUBSET S
  BY <1>b
<1>2. PICK y \in T : sum(T) # f[y] + sum(T \ {y})
  BY <1>b, <1>0
<1> DEFINE c == Drawn(T)
           R == (T \ {c}) \ {y}
<1>3. \A U \in SUBSET T : IsFiniteSet(U) /\ (\A z \in U : f[z] \in Int) /\ sum(U) \in Int
  <2> TAKE U \in SUBSET T
  <2>1. U \in SUBSET S
    BY <1>0
  <2>2. IsFiniteSet(U) /\ \A z \in U : f[z] \in Int
    BY <2>1, FS_Subset
  <2> QED
    BY <2>2, SumInt
<1>4. c \in T /\ sum(T) = f[c] + sum(T \ {c})
  BY <1>2, <1>3, SumStep
<1>5. c # y
  BY <1>2, <1>4
<1>6. R = (T \ {y}) \ {c}
  OBVIOUS
<1> HIDE DEF sum, c
<1>7. \A U \in SUBSET T : U # T => \A z \in U : sum(U) = f[z] + sum(U \ {z})
  <2> TAKE U \in SUBSET T
  <2> HAVE U # T
  <2>1. U \in SUBSET S /\ U \notin B
    BY <1>0, <1>1
  <2> QED
    BY <1>b, <2>1
<1>8. sum(T \ {c}) = f[y] + sum(R)
  <2>1. T \ {c} \in SUBSET T /\ T \ {c} # T /\ y \in T \ {c}
    BY <1>4, <1>5
  <2> QED
    BY <1>7, <2>1
<1>9. sum(T \ {y}) = f[c] + sum(R)
  <2>1. T \ {y} \in SUBSET T /\ T \ {y} # T /\ c \in T \ {y}
    BY <1>4, <1>5
  <2>2. sum(T \ {y}) = f[c] + sum((T \ {y}) \ {c})
    BY <1>7, <2>1
  <2> QED
    BY <1>6, <2>2
<1>10. f[c] \in Int /\ f[y] \in Int /\ R \in SUBSET T
  BY <1>0, <1>4
<1>11. sum(R) \in Int
  BY <1>3, <1>10
<1> QED
  BY <1>2, <1>4, <1>8, <1>9, <1>10, <1>11

\* And of natural numbers in particular.
LEMMA SumWithout ==
  ASSUME NEW S, IsFiniteSet(S), NEW f, \A x \in S : f[x] \in Nat, NEW x \in S
  PROVE  SumFunctionOnSet(f, S) = f[x] + SumFunctionOnSet(f, S \ {x})
<1>1. \A y \in S : f[y] \in Int
  OBVIOUS
<1> QED
  BY <1>1, SumTakesOut

\* A new member adds its value.
LEMMA SumWith ==
  ASSUME NEW S, IsFiniteSet(S), NEW f, NEW x, x \notin S, \A y \in S \cup {x} : f[y] \in Nat
  PROVE  SumFunctionOnSet(f, S \cup {x}) = SumFunctionOnSet(f, S) + f[x]
<1> DEFINE T == S \cup {x}
<1>1. IsFiniteSet(T) /\ x \in T /\ T \ {x} = S /\ \A y \in T : f[y] \in Nat
  BY FS_AddElement
<1> HIDE DEF T
<1>2. SumFunctionOnSet(f, T) = f[x] + SumFunctionOnSet(f, S)
  BY <1>1, SumWithout
<1>3. SumFunctionOnSet(f, S) \in Nat /\ f[x] \in Nat
  BY <1>1, SumNat
<1> QED
  BY <1>2, <1>3 DEF T

\* Only the values at the members count.
LEMMA SumSame ==
  ASSUME NEW S, IsFiniteSet(S), NEW f, NEW h, \A x \in S : f[x] = h[x]
  PROVE  SumFunctionOnSet(f, S) = SumFunctionOnSet(h, S)
<1> DEFINE B == {T \in SUBSET S : SumFunctionOnSet(f, T) # SumFunctionOnSet(h, T)}
<1> SUFFICES ASSUME B # {} PROVE FALSE
  OBVIOUS
<1>b. B \in SUBSET (SUBSET S) /\ \A T \in SUBSET S : T \in B <=> SumFunctionOnSet(f, T) # SumFunctionOnSet(h, T)
  OBVIOUS
<1> HIDE DEF B
<1>1. PICK T \in B : \A U \in SUBSET T : U # T => U \notin B
  BY <1>b, SmallestPart
<1>2. T \in SUBSET S /\ IsFiniteSet(T) /\ SumFunctionOnSet(f, T) # SumFunctionOnSet(h, T)
  BY <1>b, FS_Subset
<1>3. T # {}
  BY <1>2, SumStep
<1>4. /\ Drawn(T) \in T
      /\ SumFunctionOnSet(f, T) = f[Drawn(T)] + SumFunctionOnSet(f, T \ {Drawn(T)})
      /\ SumFunctionOnSet(h, T) = h[Drawn(T)] + SumFunctionOnSet(h, T \ {Drawn(T)})
  BY <1>2, <1>3, SumStep
<1>5. T \ {Drawn(T)} \in SUBSET T /\ T \ {Drawn(T)} # T /\ T \ {Drawn(T)} \in SUBSET S
  BY <1>2, <1>4
<1>6. SumFunctionOnSet(f, T \ {Drawn(T)}) = SumFunctionOnSet(h, T \ {Drawn(T)})
  BY <1>1, <1>5, <1>b
<1> QED
  BY <1>2, <1>4, <1>6

\* Nothing adds up to nothing.
LEMMA SumZero ==
  ASSUME NEW S, IsFiniteSet(S), NEW f, \A x \in S : f[x] = 0
  PROVE  SumFunctionOnSet(f, S) = 0
<1> DEFINE B == {T \in SUBSET S : SumFunctionOnSet(f, T) # 0}
<1> SUFFICES ASSUME B # {} PROVE FALSE
  OBVIOUS
<1>b. B \in SUBSET (SUBSET S) /\ \A T \in SUBSET S : T \in B <=> SumFunctionOnSet(f, T) # 0
  OBVIOUS
<1> HIDE DEF B
<1>1. PICK T \in B : \A U \in SUBSET T : U # T => U \notin B
  BY <1>b, SmallestPart
<1>2. T \in SUBSET S /\ IsFiniteSet(T) /\ SumFunctionOnSet(f, T) # 0
  BY <1>b, FS_Subset
<1>3. T # {}
  BY <1>2, SumStep
<1>4. Drawn(T) \in T /\ SumFunctionOnSet(f, T) = f[Drawn(T)] + SumFunctionOnSet(f, T \ {Drawn(T)})
  BY <1>2, <1>3, SumStep
<1>5. T \ {Drawn(T)} \in SUBSET T /\ T \ {Drawn(T)} # T /\ T \ {Drawn(T)} \in SUBSET S
  BY <1>2, <1>4
<1>6. SumFunctionOnSet(f, T \ {Drawn(T)}) = 0
  BY <1>1, <1>5, <1>b
<1>7. f[Drawn(T)] = 0
  BY <1>2, <1>4
<1> QED
  BY <1>2, <1>4, <1>6, <1>7

\* A sum is made up of the sum over a part and the one over the rest.
LEMMA SumSplit ==
  ASSUME NEW S, IsFiniteSet(S), NEW f, \A x \in S : f[x] \in Nat, NEW P \in SUBSET S
  PROVE  SumFunctionOnSet(f, S) = SumFunctionOnSet(f, P) + SumFunctionOnSet(f, S \ P)
<1> DEFINE sum(T) == SumFunctionOnSet(f, T)
           B == {T \in SUBSET S : sum(S) # sum(T) + sum(S \ T)}
<1> SUFFICES ASSUME B # {} PROVE FALSE
  OBVIOUS
<1>b. B \in SUBSET (SUBSET S) /\ \A T \in SUBSET S : T \in B <=> sum(S) # sum(T) + sum(S \ T)
  OBVIOUS
<1> HIDE DEF B
<1>1. PICK T \in B : \A U \in SUBSET T : U # T => U \notin B
  BY <1>b, SmallestPart
<1>2. T \in SUBSET S /\ sum(S) # sum(T) + sum(S \ T)
  BY <1>b
<1>3. \A U \in SUBSET S : IsFiniteSet(U) /\ (\A z \in U : f[z] \in Nat)
  BY FS_Subset
<1>4. \A U \in SUBSET S : sum(U) \in Nat
  BY <1>3, SumNat
<1>5. sum({}) = 0
  BY FS_EmptySet, SumStep
<1>6. T # {}
  <2>1. sum(S) \in Nat
    BY <1>4
  <2>2. S \ {} = S
    OBVIOUS
  <2> HIDE DEF sum
  <2> QED
    BY <1>2, <1>5, <2>1, <2>2
<1>7. PICK x \in T : TRUE
  BY <1>6
<1> DEFINE U == T \ {x}
           R == S \ T
<1>8. U \in SUBSET S /\ U \in SUBSET T /\ U # T /\ R \in SUBSET S /\ x \notin U /\ x \notin R
  BY <1>2
<1>9. sum(S) = sum(U) + sum(S \ U)
  BY <1>1, <1>8, <1>b
<1>10. T = U \cup {x} /\ S \ U = R \cup {x}
  BY <1>2
<1> HIDE DEF U, R
<1>11. IsFiniteSet(U) /\ IsFiniteSet(R) /\ (\A y \in U \cup {x} : f[y] \in Nat) /\ \A y \in R \cup {x} : f[y] \in Nat
  BY <1>2, <1>3, <1>8
<1>12. sum(U \cup {x}) = sum(U) + f[x]
  BY <1>8, <1>11, SumWith
<1>13. sum(R \cup {x}) = sum(R) + f[x]
  BY <1>8, <1>11, SumWith
<1>14. sum(U) \in Nat /\ sum(R) \in Nat /\ f[x] \in Nat
  BY <1>2, <1>4, <1>8
<1>15. sum(S) # sum(U \cup {x}) + sum(R)
  BY <1>2, <1>10 DEF R
<1> HIDE DEF sum
<1>16. sum(S) = sum(U) + sum(R \cup {x})
  BY <1>9, <1>10, Zenon
<1> QED
  BY <1>12, <1>13, <1>14, <1>15, <1>16
-----------------------------------------------------------------------------
(* A loop over the numbers up to n, as a recursive function.                   *)

\* Its step f stays within S, and g holds what it has come to after each number.
Steady(f, S, n) == \A i \in 1 .. n : \A s \in S : f[<<i, s>>] \in S

Looped(f, S, n, start, g) ==
  /\ g \in [0 .. n -> S]
  /\ \A i \in 0 .. n : g[i] = IF i = 0 THEN start ELSE f[<<i, g[i - 1]>>]

\* Such a loop can be run.
LEMMA IterationExists ==
  ASSUME NEW S, NEW n \in Nat, NEW a \in S, NEW f, Steady(f, S, n)
  PROVE  \E g : Looped(f, S, n, a, g)
<1> DEFINE Runs(m, g) == /\ g \in [0 .. m -> S]
                         /\ \A i \in 0 .. m : g[i] = IF i = 0 THEN a ELSE f[<<i, g[i - 1]>>]
           B == {m \in 0 .. n : ~\E g : Runs(m, g)}
<1>b. B \in SUBSET Nat /\ \A m \in 0 .. n : m \in B <=> ~\E g : Runs(m, g)
  OBVIOUS
<1>c. \A m \in B : m \in 0 .. n
  OBVIOUS
<1>1. ASSUME B # {} PROVE FALSE
  <2> HIDE DEF B
  <2>1. PICK m \in B : \A k \in B : ~(k < m)
    BY <1>1, <1>b, SmallestNumber
  <2>2. m \in 0 .. n /\ ~\E g : Runs(m, g)
    BY <1>b, <1>c
  <2>3. CASE m = 0
    <3> DEFINE g == [i \in 0 .. 0 |-> a]
    <3>1. Runs(0, g)
      OBVIOUS
    <3> QED
      BY <2>2, <2>3, <3>1
  <2>4. CASE m # 0
    <3>1. m - 1 \in 0 .. n /\ m - 1 \notin B /\ m \in 1 .. n
      BY <2>1, <2>2, <2>4
    <3>2. PICK h : Runs(m - 1, h)
      BY <1>b, <3>1
    <3> DEFINE g == [i \in 0 .. m |-> IF i = m THEN f[<<m, h[m - 1]>>] ELSE h[i]]
    <3>3. h[m - 1] \in S /\ f[<<m, h[m - 1]>>] \in S
      <4>1. h[m - 1] \in S
        BY <3>1, <3>2
      <4> QED
        BY <3>1, <4>1 DEF Steady
    <3>4. g \in [0 .. m -> S]
      <4>1. \A i \in 0 .. m : i # m => h[i] \in S
        BY <3>1, <3>2
      <4> QED
        BY <3>3, <4>1
    <3>5. \A i \in 0 .. m : g[i] = IF i = 0 THEN a ELSE f[<<i, g[i - 1]>>]
      <4> TAKE i \in 0 .. m
      <4>1. CASE i = m
        <5>1. g[i] = f[<<m, h[m - 1]>>] /\ g[m - 1] = h[m - 1]
          BY <3>1, <4>1
        <5> HIDE DEF g
        <5> QED
          BY <2>4, <4>1, <5>1
      <4>2. CASE i # m
        <5>1. i \in 0 .. m - 1 /\ (i # 0 => i - 1 \in 0 .. m - 1)
          BY <3>1, <4>2
        <5>2. g[i] = h[i] /\ (i # 0 => g[i - 1] = h[i - 1])
          BY <3>1, <4>2, <5>1
        <5>3. h[i] = IF i = 0 THEN a ELSE f[<<i, h[i - 1]>>]
          BY <3>2, <5>1
        <5> HIDE DEF g
        <5> QED
          BY <5>2, <5>3
      <4> QED
        BY <4>1, <4>2
    <3> HIDE DEF g
    <3>6. Runs(m, g)
      BY <3>4, <3>5
    <3> QED
      BY <2>2, <3>6
  <2> QED
    BY <2>3, <2>4
<1>2. n \in 0 .. n
  OBVIOUS
<1>3. \E g : Runs(n, g)
  BY <1>1, <1>b, <1>2
<1> QED
  BY <1>3 DEF Looped

\* What its step keeps, it keeps.
LEMMA IterationStays ==
  ASSUME NEW S, NEW n \in Nat, NEW g, g[0] \in S, \A i \in 1 .. n : g[i - 1] \in S => g[i] \in S
  PROVE  \A i \in 0 .. n : g[i] \in S
<1> DEFINE B == {i \in 0 .. n : g[i] \notin S}
<1>b. B \in SUBSET Nat /\ \A i \in 0 .. n : i \in B <=> g[i] \notin S
  OBVIOUS
<1>c. \A i \in B : i \in 0 .. n
  OBVIOUS
<1>1. ASSUME B # {} PROVE FALSE
  <2> HIDE DEF B
  <2>1. PICK i \in B : \A k \in B : ~(k < i)
    BY <1>1, <1>b, SmallestNumber
  <2>2. i \in 0 .. n /\ g[i] \notin S
    BY <1>b, <1>c
  <2>3. i # 0
    BY <2>2
  <2>4. i \in 1 .. n /\ i - 1 \in 0 .. n /\ i - 1 \notin B
    BY <2>1, <2>2, <2>3
  <2>5. g[i - 1] \in S
    BY <1>b, <2>4
  <2> QED
    BY <2>2, <2>4, <2>5
<1> QED
  BY <1>1

\* What is on disk weighs what its files do together.
Weight(d) == SumFunctionOnSet([p \in DOMAIN d |-> d[p].size], DOMAIN d)

\* Disk e has all of disk d; of what is new, only what is in F has bytes.
Enlarged(d, e, F) ==
  /\ IsFiniteSet(DOMAIN e) /\ DOMAIN d \subseteq DOMAIN e
  /\ \A p \in DOMAIN d : d[p].size \in Nat /\ e[p] = d[p]
  /\ \A p \in DOMAIN e : p \in DOMAIN d \/ p \in F \/ e[p].size = 0

\* Directories made on disk d weigh nothing.
LEMMA WeightStays ==
  ASSUME NEW d, NEW e, Enlarged(d, e, {})
  PROVE  Weight(e) = Weight(d)
<1> DEFINE D == DOMAIN d
           E == DOMAIN e
           f == [p \in DOMAIN d |-> d[p].size]
           g == [p \in DOMAIN e |-> e[p].size]
<1>1. IsFiniteSet(E) /\ IsFiniteSet(E \ D) /\ D \in SUBSET E /\ IsFiniteSet(D)
  BY FS_Subset, FS_Difference DEF Enlarged
<1>2. \A p \in D : g[p] = f[p] /\ g[p] \in Nat
  BY DEF Enlarged
<1>3. \A p \in E \ D : g[p] = 0
  BY DEF Enlarged
<1>4. Weight(e) = SumFunctionOnSet(g, E) /\ Weight(d) = SumFunctionOnSet(f, D)
  BY DEF Weight
<1> HIDE DEF D, E, f, g
<1>5. \A p \in E : g[p] \in Nat
  BY <1>2, <1>3
<1>6. SumFunctionOnSet(g, E) = SumFunctionOnSet(g, D) + SumFunctionOnSet(g, E \ D)
  BY <1>1, <1>5, SumSplit
<1>7. SumFunctionOnSet(g, E \ D) = 0
  BY <1>1, <1>3, SumZero
<1>8. SumFunctionOnSet(g, D) = SumFunctionOnSet(f, D) /\ SumFunctionOnSet(g, D) \in Nat
  BY <1>1, <1>2, SumSame, SumNat
<1> QED
  BY <1>4, <1>6, <1>7, <1>8

\* A file written on disk d, with the directories it needs, adds its size.
LEMMA WeightAdds ==
  ASSUME NEW d, NEW e, NEW path, Enlarged(d, e, {path}), path \in DOMAIN e, path \notin DOMAIN d, e[path].size \in Nat
  PROVE  Weight(e) = Weight(d) + e[path].size
<1> DEFINE E == DOMAIN e \ {path}
           without == [p \in E |-> e[p]]
           f == [p \in E |-> without[p].size]
           g == [p \in DOMAIN e |-> e[p].size]
<1>1. IsFiniteSet(DOMAIN e) /\ IsFiniteSet(E) /\ DOMAIN without = E
  BY FS_Subset DEF Enlarged
<1>2. Enlarged(d, without, {})
  BY <1>1 DEF Enlarged
<1>3. Weight(without) = Weight(d)
  BY <1>2, WeightStays
<1>4. \A p \in E \cup {path} : g[p] \in Nat
  BY DEF Enlarged
<1>5. DOMAIN e = E \cup {path} /\ path \notin E /\ g[path] = e[path].size /\ \A p \in E : g[p] = f[p]
  OBVIOUS
<1>6. Weight(e) = SumFunctionOnSet(g, DOMAIN e) /\ Weight(without) = SumFunctionOnSet(f, E)
  BY DEF Weight
<1> HIDE DEF E, without, f, g
<1>7. SumFunctionOnSet(g, E \cup {path}) = SumFunctionOnSet(g, E) + g[path]
  BY <1>1, <1>4, <1>5, SumWith
<1>8. SumFunctionOnSet(g, E) = SumFunctionOnSet(f, E)
  BY <1>1, <1>5, SumSame
<1> QED
  BY <1>3, <1>5, <1>6, <1>7, <1>8

-----------------------------------------------------------------------------
(* Sequences.                                                                  *)

\* A finite set has a member whose number is the largest: one with the fewest above.
LEMMA Largest ==
  ASSUME NEW S, IsFiniteSet(S), S # {}, NEW f, \A x \in S : f[x] \in Nat
  PROVE  \E x \in S : \A y \in S : f[y] <= f[x]
<1> DEFINE above(x) == {y \in S : f[x] < f[y]}
           counts == {Cardinality(above(x)) : x \in S}
           less == {ss \in Nat \X Nat : ss[1] < ss[2]}
<1>1. IsWellFoundedOn(less, Nat)
  BY NatLessThanWellFounded DEF OpToRel
<1>2. \A x, y \in Nat : y < x => <<y, x>> \in less
  OBVIOUS
<1>3. \A x \in S : IsFiniteSet(above(x)) /\ Cardinality(above(x)) \in Nat
  <2> TAKE x \in S
  <2>1. above(x) \subseteq S
    OBVIOUS
  <2> HIDE DEF above
  <2> QED
    BY <2>1, FS_Subset, FS_CardinalityType
<1>4. counts \subseteq Nat /\ counts # {}
  BY <1>3
<1> HIDE DEF less, counts
<1>5. PICK n \in counts : \A m \in counts : ~(<<m, n>> \in less)
  BY <1>1, <1>4, WFMin
<1>6. PICK x \in S : n = Cardinality(above(x))
  BY <1>5 DEF counts
<1>7. ASSUME NEW y \in S, ~(f[y] <= f[x]) PROVE FALSE
  <2>1. f[x] < f[y] /\ f[x] \in Nat /\ f[y] \in Nat
    BY <1>7
  <2>2. y \in above(x) /\ y \notin above(y)
    BY <2>1
  <2>3. above(y) \subseteq above(x)
    BY <2>1
  <2> HIDE DEF above
  <2>4. Cardinality(above(y)) < Cardinality(above(x))
    <3>1. IsFiniteSet(above(x)) /\ IsFiniteSet(above(y))
      BY <1>3
    <3>2. Cardinality(above(y)) <= Cardinality(above(x)) /\ (Cardinality(above(y)) = Cardinality(above(x)) => above(y) = above(x))
      BY <2>3, <3>1, FS_Subset
    <3>3. Cardinality(above(x)) \in Nat /\ Cardinality(above(y)) \in Nat
      BY <1>3
    <3> QED
      BY <2>2, <3>2, <3>3
  <2>5. Cardinality(above(y)) \in counts
    BY DEF counts
  <2> QED
    BY <1>2, <1>4, <1>5, <1>6, <2>4, <2>5
<1> QED
  BY <1>7

\* A prefix has its entries in common with what it begins.
LEMMA PrefixIs ==
  ASSUME NEW s \in Seq(STRING), NEW t \in Seq(STRING)
  PROVE  IsPrefix(s, t) <=> Len(s) <= Len(t) /\ \A i \in 1 .. Len(s) : s[i] = t[i]
<1> SUFFICES ASSUME Len(s) <= Len(t)
             PROVE  SubSeq(s, 1, Len(s)) = SubSeq(t, 1, Len(s)) <=> \A i \in 1 .. Len(s) : s[i] = t[i]
  BY DEF IsPrefix
<1>1. Len(s) \in Nat /\ Len(t) \in Nat
  OBVIOUS
<1>2. /\ Len(SubSeq(s, 1, Len(s))) = Len(s) /\ Len(SubSeq(t, 1, Len(s))) = Len(s)
      /\ SubSeq(s, 1, Len(s)) \in Seq(STRING) /\ SubSeq(t, 1, Len(s)) \in Seq(STRING)
      /\ \A i \in 1 .. Len(s) : SubSeq(s, 1, Len(s))[i] = s[i] /\ SubSeq(t, 1, Len(s))[i] = t[i]
  BY <1>1
<1> QED
  BY <1>1, <1>2

\* Of two beginnings of one path the shorter begins the longer, and all it begins.
LEMMA Nested ==
  ASSUME NEW a \in Seq(STRING), NEW b \in Seq(STRING), NEW t \in Seq(STRING), NEW u \in Seq(STRING),
         IsPrefix(a, t), IsPrefix(b, t), Len(a) <= Len(b), IsPrefix(b, u)
  PROVE  IsPrefix(a, u)
<1>1. Len(a) \in Nat /\ Len(b) \in Nat /\ Len(u) \in Nat /\ Len(t) \in Nat
  OBVIOUS
<1>2. /\ \A i \in 1 .. Len(a) : a[i] = t[i]
      /\ \A i \in 1 .. Len(b) : b[i] = t[i]
      /\ Len(b) <= Len(u) /\ \A i \in 1 .. Len(b) : b[i] = u[i]
  BY PrefixIs
<1>3. \A i \in 1 .. Len(a) : i \in 1 .. Len(b)
  BY <1>1
<1>4. \A i \in 1 .. Len(a) : a[i] = u[i]
  BY <1>2, <1>3
<1> QED
  BY <1>1, <1>2, <1>4, PrefixIs

\* A path begins what is appended to it.
LEMMA Begins ==
  ASSUME NEW a \in Seq(STRING), NEW b \in Seq(STRING)
  PROVE  a \o b \in Seq(STRING) /\ IsPrefix(a, a \o b)
<1>1. a \o b \in Seq(STRING) /\ Len(a) <= Len(a \o b) /\ \A i \in 1 .. Len(a) : a[i] = (a \o b)[i]
  OBVIOUS
<1> QED
  BY <1>1, PrefixIs

\* A sequence of all members of a finite set.
LEMMA Enumerated ==
  ASSUME NEW S, IsFiniteSet(S), NEW s \in SetToSeqs(S)
  PROVE  /\ s \in Seq(S) /\ Len(s) = Cardinality(S) /\ Cardinality(S) \in Nat
         /\ DOMAIN s = 1 .. Len(s)
         /\ \A i, j \in 1 .. Len(s) : s[i] = s[j] => i = j
         /\ \A x \in S : \E i \in 1 .. Len(s) : s[i] = x
<1> DEFINE n == Cardinality(S)
<1>1. n \in Nat /\ s \in [1 .. n -> S] /\ \A i, j \in 1 .. n : i # j => s[i] # s[j]
  BY FS_CardinalityType DEF SetToSeqs
<1> HIDE DEF n
<1>2. s \in Seq(S) /\ Len(s) = n
  BY <1>1, IsASeq, LenProperties
<1>3. s \in Injection(1 .. n, S)
  BY <1>1 DEF Injection, IsInjective
<1>4. Cardinality(1 .. n) = n
  BY <1>1, FS_Interval
<1>5. s \in Surjection(1 .. n, S)
  BY <1>3, <1>4, FS_Injection DEF n
<1>6. \A x \in S : \E i \in 1 .. n : s[i] = x
  BY <1>5 DEF Surjection
<1> QED
  BY <1>1, <1>2, <1>6 DEF n

\* Induction: a set of numbers with 0 that has the next of each has them all.
LEMMA Upwards ==
    ASSUME NEW T \in SUBSET Nat, 0 \in T, \A n \in T : n + 1 \in T
    PROVE  T = Nat
<1> DEFINE less == {ss \in Nat \X Nat : ss[1] < ss[2]}
           missing == Nat \ T
<1>1. IsWellFoundedOn(less, Nat)
    BY NatLessThanWellFounded DEF OpToRel
<1>2. \A x, y \in Nat : y < x => <<y, x>> \in less
    OBVIOUS
<1> SUFFICES ASSUME missing # {} PROVE FALSE
    OBVIOUS
<1>3. missing \subseteq Nat
    OBVIOUS
<1> HIDE DEF less, missing
<1>4. PICK x \in missing : \A y \in missing : ~(<<y, x>> \in less)
    BY <1>1, <1>3, WFMin
<1>5. \A y \in missing : ~(y < x)
    BY <1>2, <1>3, <1>4
<1>6. x # 0 /\ x \in Nat
    BY <1>4 DEF missing
<1>7. x - 1 \in T
    BY <1>5, <1>6 DEF missing
<1> QED
    BY <1>4, <1>6, <1>7 DEF missing

\* One more entry at the end.
LEMMA Appended ==
    ASSUME NEW S, NEW s \in Seq(S), NEW e \in S
    PROVE  /\ Append(s, e) \in Seq(S)
           /\ ToSet(Append(s, e)) = ToSet(s) \cup {e}
           /\ IsInjective(s) /\ e \notin ToSet(s) => IsInjective(Append(s, e))
<1>1. /\ Append(s, e) \in Seq(S)
      /\ DOMAIN Append(s, e) = DOMAIN s \cup {Len(s) + 1}
      /\ \A i \in DOMAIN s : Append(s, e)[i] = s[i]
      /\ Append(s, e)[Len(s) + 1] = e
    OBVIOUS
<1> QED
    BY <1>1 DEF ToSet, IsInjective

\* The head and the rest.
LEMMA Tailed ==
    ASSUME NEW S, NEW s \in Seq(S), s # <<>>
    PROVE  /\ Tail(s) \in Seq(S) /\ Head(s) \in S
           /\ ToSet(s) = ToSet(Tail(s)) \cup {Head(s)}
           /\ IsInjective(s) => IsInjective(Tail(s)) /\ Head(s) \notin ToSet(Tail(s))
<1>1. /\ Tail(s) \in Seq(S) /\ Head(s) = s[1] /\ 1 \in DOMAIN s
      /\ \A i \in DOMAIN Tail(s) : i + 1 \in DOMAIN s /\ i + 1 # 1 /\ Tail(s)[i] = s[i + 1]
      /\ \A i \in DOMAIN s : i = 1 \/ (i - 1 \in DOMAIN Tail(s) /\ Tail(s)[i - 1] = s[i])
      /\ \A i, j \in DOMAIN Tail(s) : i + 1 = j + 1 => i = j
    OBVIOUS
<1>2. Head(s) \in S
    BY <1>1
<1>3. ToSet(s) = ToSet(Tail(s)) \cup {Head(s)}
  <2>1. \A x \in ToSet(s) : x \in ToSet(Tail(s)) \cup {Head(s)}
    <3> TAKE x \in ToSet(s)
    <3>1. PICK i \in DOMAIN s : x = s[i]
      BY DEF ToSet
    <3>2. CASE i = 1
      BY <1>1, <3>1, <3>2
    <3>3. CASE i - 1 \in DOMAIN Tail(s) /\ Tail(s)[i - 1] = s[i]
      BY <3>1, <3>3 DEF ToSet
    <3> QED
      BY <1>1, <3>2, <3>3
  <2>2. \A x \in ToSet(Tail(s)) \cup {Head(s)} : x \in ToSet(s)
    BY <1>1 DEF ToSet
  <2> QED
    BY <2>1, <2>2
<1>4. ASSUME IsInjective(s) PROVE IsInjective(Tail(s)) /\ Head(s) \notin ToSet(Tail(s))
    BY <1>1, <1>4 DEF IsInjective, ToSet
<1> QED
    BY <1>1, <1>2, <1>3, <1>4

\* One sequence after the other.
LEMMA JoinedOnce ==
    ASSUME NEW S, NEW s \in Seq(S), NEW t \in Seq(S)
    PROVE  /\ s \o t \in Seq(S)
           /\ ToSet(s \o t) = ToSet(s) \cup ToSet(t)
           /\ IsInjective(s) /\ IsInjective(t) /\ ToSet(s) \cap ToSet(t) = {} => IsInjective(s \o t)
<1>1. /\ s \o t \in Seq(S) /\ Len(s) \in Nat
      /\ \A i \in DOMAIN s : i \in DOMAIN (s \o t) /\ (s \o t)[i] = s[i]
      /\ \A i \in DOMAIN t : i + Len(s) \in DOMAIN (s \o t) /\ (s \o t)[i + Len(s)] = t[i]
      /\ \A i \in DOMAIN (s \o t) : i \in DOMAIN s \/ (i - Len(s) \in DOMAIN t /\ i = (i - Len(s)) + Len(s))
    OBVIOUS
<1>2. ToSet(s \o t) = ToSet(s) \cup ToSet(t)
  <2>1. \A x \in ToSet(s \o t) : x \in ToSet(s) \cup ToSet(t)
    BY <1>1 DEF ToSet
  <2>2. \A x \in ToSet(s) \cup ToSet(t) : x \in ToSet(s \o t)
    BY <1>1 DEF ToSet
  <2> QED
    BY <2>1, <2>2
<1>3. ASSUME IsInjective(s), IsInjective(t), ToSet(s) \cap ToSet(t) = {} PROVE IsInjective(s \o t)
  <2> SUFFICES ASSUME NEW i \in DOMAIN (s \o t), NEW j \in DOMAIN (s \o t), (s \o t)[i] = (s \o t)[j]
               PROVE  i = j
    BY DEF IsInjective
  <2>1. CASE i \in DOMAIN s /\ j \in DOMAIN s
    BY <1>1, <1>3, <2>1 DEF IsInjective
  <2>2. CASE i \notin DOMAIN s /\ j \notin DOMAIN s
    <3>1. i - Len(s) \in DOMAIN t /\ j - Len(s) \in DOMAIN t /\ t[i - Len(s)] = t[j - Len(s)]
      BY <1>1, <2>2
    <3>2. i - Len(s) = j - Len(s)
      BY <1>3, <3>1 DEF IsInjective
    <3> QED
      BY <1>1, <2>2, <3>2
  <2>3. CASE (i \in DOMAIN s /\ j \notin DOMAIN s) \/ (i \notin DOMAIN s /\ j \in DOMAIN s)
    <3>1. (s \o t)[i] \in ToSet(s) /\ (s \o t)[i] \in ToSet(t)
      BY <1>1, <2>3 DEF ToSet
    <3> QED
      BY <1>3, <3>1
  <2> QED
    BY <2>1, <2>2, <2>3
<1> QED
    BY <1>1, <1>2, <1>3

\* A sequence without repetitions is as long as the set of its entries is large.
LEMMA CountedOnce ==
    ASSUME NEW S, NEW s \in Seq(S), IsInjective(s)
    PROVE  IsFiniteSet(ToSet(s)) /\ Cardinality(ToSet(s)) = Len(s)
<1> DEFINE f == [i \in 1..Len(s) |-> s[i]]
<1>1. DOMAIN s = 1..Len(s) /\ Len(s) \in Nat
    OBVIOUS
<1>2. f \in Surjection(1..Len(s), ToSet(s)) /\ f \in Injection(1..Len(s), ToSet(s))
    BY <1>1 DEF Surjection, Injection, IsInjective, ToSet
<1> HIDE DEF f
<1>3. IsFiniteSet(1..Len(s)) /\ Cardinality(1..Len(s)) = Len(s)
  <2>1. \A n \in Nat : IsFiniteSet(1..n) /\ Cardinality(1..n) = n
    BY FS_Interval
  <2> QED
    BY <1>1, <2>1
<1> QED
    BY <1>2, <1>3, FS_Surjection

\* The entries of s that are not in q, as NewImports computes them.
Unseen(s, q, r) ==
    r = [n \in 0..Len(s) |->
            IF n = 0 THEN <<>>
            ELSE IF s[n] \in q THEN r[n - 1]
            ELSE Append(r[n - 1], s[n])]

\* There is such a function of the positions.
LEMMA UnseenExists ==
    ASSUME NEW S, NEW s \in Seq(S), NEW q
    PROVE  \E r : Unseen(s, q, r)
<1> DEFINE Upto(n, r) ==
             r = [k \in 0..n |-> IF k = 0 THEN <<>>
                                 ELSE IF s[k] \in q THEN r[k - 1]
                                 ELSE Append(r[k - 1], s[k])]
           T == {n \in Nat : \E r : Upto(n, r)}
<1>1. 0 \in T
  <2> DEFINE r == [k \in 0..0 |-> <<>>]
  <2>1. Upto(0, r)
    OBVIOUS
  <2> QED
    BY <2>1
<1>2. ASSUME NEW n \in T PROVE n + 1 \in T
  <2>1. PICK r : Upto(n, r)
    BY <1>2
  <2> DEFINE new == IF s[n + 1] \in q THEN r[n] ELSE Append(r[n], s[n + 1])
             t == [k \in 0..(n + 1) |-> IF k = n + 1 THEN new ELSE r[k]]
  <2>2. n \in Nat /\ \A k \in 0..(n + 1) : (k = n + 1 \/ k \in 0..n) /\ (k # 0 => k - 1 \in 0..n)
    BY <1>2
  <2>3. \A k \in 0..n : k # n + 1 /\ t[k] = r[k]
    BY <2>2
  <2>4. \A k \in 0..n : r[k] = IF k = 0 THEN <<>> ELSE IF s[k] \in q THEN r[k - 1] ELSE Append(r[k - 1], s[k])
    BY <2>1
  <2>5. t[n + 1] = new /\ n \in 0..n /\ n + 1 # 0 /\ (n + 1) - 1 = n
    BY <2>2
  <2>6. \A k \in 0..(n + 1) : t[k] = IF k = 0 THEN <<>>
                                     ELSE IF s[k] \in q THEN t[k - 1] ELSE Append(t[k - 1], s[k])
    <3> TAKE k \in 0..(n + 1)
    <3>1. CASE k = n + 1
      BY <2>3, <2>5, <3>1
    <3>2. CASE k \in 0..n
      <4>1. k # 0 => k - 1 \in 0..n
        BY <2>2
      <4> QED
        BY <2>3, <2>4, <3>2, <4>1
    <3> QED
      BY <2>2, <3>1, <3>2
  <2>7. t = [k \in 0..(n + 1) |-> t[k]]
    OBVIOUS
  <2> HIDE DEF t
  <2>8. Upto(n + 1, t)
    BY <2>6, <2>7
  <2>9. \E u : Upto(n + 1, u)
    BY <2>8
  <2>10. n + 1 \in Nat
    BY <2>2
  <2> QED
    BY <2>9, <2>10
<1>3. T = Nat
  <2>1. T \in SUBSET Nat
    OBVIOUS
  <2> HIDE DEF T
  <2> QED
    BY <1>1, <1>2, <2>1, Upwards
<1>4. Len(s) \in T
  <2>1. Len(s) \in Nat
    OBVIOUS
  <2> HIDE DEF T
  <2> QED
    BY <1>3, <2>1
<1> QED
    BY <1>4 DEF Unseen

\* and what it has at each position.
LEMMA UnseenEntries ==
    ASSUME NEW S, NEW s \in Seq(S), IsInjective(s), NEW q, NEW r, Unseen(s, q, r)
    PROVE  /\ r[Len(s)] \in Seq(S)
           /\ IsInjective(r[Len(s)])
           /\ ToSet(r[Len(s)]) = ToSet(s) \ q
<1> DEFINE before(n) == {s[i] : i \in 1..n}
           Good(n) == /\ r[n] \in Seq(S) /\ IsInjective(r[n])
                      /\ ToSet(r[n]) = before(n) \ q
           T == {n \in Nat : n <= Len(s) => Good(n)}
<1>1. DOMAIN s = 1..Len(s) /\ Len(s) \in Nat
    OBVIOUS
<1>2. \A n \in 0..Len(s) : r[n] = IF n = 0 THEN <<>> ELSE IF s[n] \in q THEN r[n - 1] ELSE Append(r[n - 1], s[n])
    BY DEF Unseen
<1>3. 0 \in T
  <2>1. r[0] = <<>>
    BY <1>1, <1>2
  <2>2. <<>> \in Seq(S) /\ IsInjective(<<>>) /\ ToSet(<<>>) = {} /\ before(0) = {}
    BY DEF IsInjective, ToSet
  <2> QED
    BY <2>1, <2>2
<1>4. ASSUME NEW n \in T PROVE n + 1 \in T
  <2> SUFFICES ASSUME n + 1 <= Len(s) PROVE Good(n + 1)
    BY <1>4
  <2>1. n \in Nat /\ Good(n) /\ n + 1 \in 1..Len(s) /\ n + 1 \in 0..Len(s) /\ n + 1 # 0 /\ (n + 1) - 1 = n
    BY <1>1, <1>4
  <2>2. r[n + 1] = IF s[n + 1] \in q THEN r[n] ELSE Append(r[n], s[n + 1])
    BY <1>2, <2>1
  <2>3. before(n + 1) = before(n) \cup {s[n + 1]}
    <3>1. 1..(n + 1) = (1..n) \cup {n + 1}
      BY <2>1
    <3> QED
      BY <3>1
  <2>4. s[n + 1] \notin before(n)
    BY <1>1, <2>1 DEF IsInjective
  <2>5. s[n + 1] \in S
    BY <1>1, <2>1
  <2> HIDE DEF before
  <2>6. CASE s[n + 1] \in q
    BY <2>1, <2>2, <2>3, <2>6
  <2>7. CASE s[n + 1] \notin q
    <3>1. s[n + 1] \notin ToSet(r[n])
      BY <2>1, <2>4
    <3>2. /\ Append(r[n], s[n + 1]) \in Seq(S) /\ IsInjective(Append(r[n], s[n + 1]))
          /\ ToSet(Append(r[n], s[n + 1])) = ToSet(r[n]) \cup {s[n + 1]}
      BY <2>1, <2>5, <3>1, Appended
    <3> QED
      BY <2>1, <2>2, <2>3, <2>7, <3>2
  <2> QED
    BY <2>6, <2>7
<1>5. T = Nat
  <2>1. T \in SUBSET Nat
    OBVIOUS
  <2> HIDE DEF T
  <2> QED
    BY <1>3, <1>4, <2>1, Upwards
<1>6. Good(Len(s))
  <2>1. Len(s) \in T
    <3> HIDE DEF T
    <3> QED
      BY <1>1, <1>5
  <2> QED
    BY <1>1, <2>1
<1>7. before(Len(s)) = ToSet(s)
    BY <1>1 DEF ToSet
<1> QED
    BY <1>6, <1>7

\* The largest of some numbers.
LEMMA LargestNumber ==
  ASSUME NEW T \in SUBSET Nat, IsFiniteSet(T), T # {}
  PROVE  Max(T) \in T /\ \A n \in T : n <= Max(T)
<1> DEFINE f == [n \in T |-> n]
<1>1. \A n \in T : f[n] = n /\ f[n] \in Nat
  OBVIOUS
<1> HIDE DEF f
<1>2. \E n \in T : \A m \in T : f[m] <= f[n]
  BY <1>1, Largest
<1>3. \E n \in T : \A m \in T : n >= m
  BY <1>1, <1>2
<1>4. Max(T) \in T /\ \A m \in T : Max(T) >= m
  BY <1>3 DEF Max
<1> QED
  BY <1>4

=============================================================================
