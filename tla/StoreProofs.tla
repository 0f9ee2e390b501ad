----------------------------- MODULE StoreProofs -----------------------------
(***************************************************************************)
(* Theorems about the block store, for every set of blocks of any sizes,   *)
(* every set of tasks, every ceiling and time to live.                     *)
(***************************************************************************)
EXTENDS Store, TLAPS, FiniteSetTheorems, WellFoundedInduction

\* The inductive invariant: the types, and the three properties, whose proofs share
\* the facts of each step.  That held is finite follows from FiniteAssumption.
IInv == TypeOK /\ CountBounded /\ Recency /\ Conserved

USE SizeAssumption, CeilingAssumption, FiniteAssumption

-----------------------------------------------------------------------------
(* Sums of sizes.  SizeOf is a fold; its equations are proved here by looking at *)
(* a least set for which they would not hold.                                    *)

\* Induction over the subsets of a finite set: if some are bad, one of them is that
\* has no bad proper subset.
LEMMA LeastSubset ==
  ASSUME NEW S, IsFiniteSet(S), NEW Bad \in SUBSET (SUBSET S), Bad # {}
  PROVE  \E B \in Bad : \A C \in Bad : C \subseteq B => C = B
<1> DEFINE R == StrictSubsetOrdering(S)
<1>1. IsWellFoundedOn(R, FiniteSubsetsOf(S))
  BY FS_StrictSubsetOrderingWellFounded
<1>2. Bad \subseteq FiniteSubsetsOf(S)
  BY FS_FiniteSubsetsOfFinite
<1>3. PICK B \in Bad : \A C \in Bad : <<C, B>> \notin R
  BY <1>1, <1>2, WFMin
<1>4. ASSUME NEW C \in Bad, C \subseteq B, C # B
      PROVE  FALSE
  <2>1. <<C, B>> \in R
    BY <1>4 DEF StrictSubsetOrdering
  <2> QED
    BY <2>1, <1>3
<1> QED
  BY <1>4

\* The element the fold takes first.
Some(s) == CHOOSE x \in s : TRUE

\* g is a function of the subsets of S that adds up as the fold does.
Adds(g, S) ==
  g = [s \in SUBSET S |-> IF s = {} THEN 0 ELSE Size[Some(s)] + g[s \ {Some(s)}]]

\* SizeOf, with its definitions opened.
LEMMA SizeIsFold ==
  ASSUME NEW S
  PROVE  SizeOf(S) = (CHOOSE g : Adds(g, S))[S]
BY Zenon DEF SizeOf, MapThenSumSet, MapThenFoldSet, Adds, Some

\* It is one of them.
LEMMA SomeIn ==
  ASSUME NEW s, s # {}
  PROVE  Some(s) \in s
BY DEF Some

\* What such a function is, subset by subset.
LEMMA AddsAt ==
  ASSUME NEW S, NEW g, Adds(g, S), NEW s \in SUBSET S
  PROVE  g[s] = IF s = {} THEN 0 ELSE Size[Some(s)] + g[s \ {Some(s)}]
BY DEF Adds

\* There is at most one.
LEMMA AddsOnce ==
  ASSUME NEW S, NEW T, NEW g, NEW h, Adds(g, S), Adds(h, T), IsFiniteSet(S),
         NEW s \in SUBSET S, s \in SUBSET T
  PROVE  g[s] = h[s]
<1> DEFINE Bad == {u \in SUBSET s : g[u] # h[u]}
<1>1. CASE Bad = {}
  BY <1>1
<1>2. CASE Bad # {}
  <2>1. IsFiniteSet(s)
    BY FS_Subset
  <2>2. PICK B \in Bad : \A C \in Bad : C \subseteq B => C = B
    <3> Bad \in SUBSET (SUBSET s)
      OBVIOUS
    <3> HIDE DEF Bad
    <3> QED
      BY <1>2, <2>1, LeastSubset
  <2>3. B \in SUBSET S /\ B \in SUBSET T
    OBVIOUS
  <2>4. /\ g[B] = IF B = {} THEN 0 ELSE Size[Some(B)] + g[B \ {Some(B)}]
        /\ h[B] = IF B = {} THEN 0 ELSE Size[Some(B)] + h[B \ {Some(B)}]
    BY <2>3, AddsAt
  <2>5. B # {}
    BY <2>4
  <2>6. Some(B) \in B
    BY <2>5, SomeIn
  <2>7. g[B \ {Some(B)}] = h[B \ {Some(B)}]
    BY <2>2, <2>6
  <2> QED
    BY <2>4, <2>7
<1> QED
  BY <1>1, <1>2

\* There is one.
LEMMA AddsExists ==
  ASSUME NEW S, IsFiniteSet(S)
  PROVE  \E g : Adds(g, S)
<1> DEFINE Bad == {T \in SUBSET S : ~ \E g : Adds(g, T)}
<1>1. SUFFICES ASSUME Bad # {} PROVE FALSE
  OBVIOUS
<1>2. PICK B \in Bad : \A C \in Bad : C \subseteq B => C = B
  <2> Bad \in SUBSET (SUBSET S)
    OBVIOUS
  <2> HIDE DEF Bad
  <2> QED
    BY <1>1, LeastSubset
<1> DEFINE g == [s \in SUBSET B |-> IF s = {} THEN 0
                                    ELSE Size[Some(s)] + SizeOf(s \ {Some(s)})]
<1>3. ASSUME NEW U \in SUBSET B, U # B
      PROVE  g[U] = SizeOf(U)
  <2> DEFINE h == CHOOSE f : Adds(f, U)
  <2>1. \E f : Adds(f, U)
    BY <1>2, <1>3
  <2>2. Adds(h, U) /\ SizeOf(U) = h[U]
    BY <2>1, SizeIsFold
  <2> HIDE DEF h
  <2>3. h[U] = IF U = {} THEN 0 ELSE Size[Some(U)] + h[U \ {Some(U)}]
    BY <2>2, AddsAt
  <2>4. CASE U = {}
    BY <2>2, <2>3, <2>4
  <2>5. CASE U # {}
    <3> DEFINE V == U \ {Some(U)}
               f == CHOOSE e : Adds(e, V)
    <3>1. Some(U) \in U
      BY <2>5, SomeIn
    <3>2. V \in SUBSET B /\ V # B /\ V \in SUBSET U /\ V \in SUBSET S /\ U \in SUBSET S
      BY <1>3, <3>1
    <3> HIDE DEF V
    <3>3. \E e : Adds(e, V)
      BY <1>2, <3>2
    <3>4. Adds(f, V) /\ SizeOf(V) = f[V]
      BY <3>3, SizeIsFold
    <3> HIDE DEF f
    <3>5. IsFiniteSet(U)
      BY <3>2, FS_Subset
    <3>6. h[V] = f[V]
      BY <2>2, <3>2, <3>4, <3>5, AddsOnce
    <3>7. h[U] = Size[Some(U)] + SizeOf(V)
      BY <2>3, <2>5, <3>4, <3>6 DEF V
    <3>8. g[U] = Size[Some(U)] + SizeOf(V)
      BY <2>5 DEF V
    <3> QED
      BY <2>2, <3>7, <3>8
  <2> QED
    BY <2>4, <2>5
<1>4. ASSUME NEW s \in SUBSET B, s # {}
      PROVE  SizeOf(s \ {Some(s)}) = g[s \ {Some(s)}]
  <2>1. Some(s) \in s
    BY <1>4, SomeIn
  <2> HIDE DEF g
  <2> QED
    BY <1>3, <2>1
<1>5. Adds(g, B)
  <2>1. g = [s \in SUBSET B |-> IF s = {} THEN 0
                                ELSE Size[Some(s)] + SizeOf(s \ {Some(s)})]
    OBVIOUS
  <2> HIDE DEF g
  <2>2. \A s \in SUBSET B :
          (IF s = {} THEN 0 ELSE Size[Some(s)] + SizeOf(s \ {Some(s)}))
            = (IF s = {} THEN 0 ELSE Size[Some(s)] + g[s \ {Some(s)}])
    BY <1>4
  <2> QED
    BY <2>1, <2>2 DEF Adds
<1> QED
  BY <1>5, <1>2

\* The equations of the fold.
LEMMA SizeEquations ==
  ASSUME NEW S, IsFiniteSet(S)
  PROVE  SizeOf(S) = IF S = {} THEN 0 ELSE Size[Some(S)] + SizeOf(S \ {Some(S)})
<1> DEFINE g == CHOOSE f : Adds(f, S)
           V == S \ {Some(S)}
           h == CHOOSE f : Adds(f, V)
<1>1. \E f : Adds(f, S)
  BY AddsExists
<1>2. Adds(g, S) /\ SizeOf(S) = g[S]
  BY <1>1, SizeIsFold
<1> HIDE DEF g
<1>3. g[S] = IF S = {} THEN 0 ELSE Size[Some(S)] + g[S \ {Some(S)}]
  BY <1>2, AddsAt
<1>4. V \in SUBSET S /\ V \in SUBSET V
  OBVIOUS
<1> HIDE DEF V
<1>5. \E f : Adds(f, V)
  BY <1>4, FS_Subset, AddsExists
<1>6. Adds(h, V) /\ SizeOf(V) = h[V]
  BY <1>5, SizeIsFold
<1> HIDE DEF h
<1>7. g[V] = h[V]
  BY <1>2, <1>4, <1>6, AddsOnce
<1> QED
  BY <1>2, <1>3, <1>6, <1>7 DEF V

\* Sizes add up to a number, and to none for nothing.
LEMMA SizeIsNat ==
  ASSUME NEW S \in SUBSET Digests
  PROVE  SizeOf(S) \in Nat /\ SizeOf({}) = 0
<1> DEFINE Bad == {T \in SUBSET S : SizeOf(T) \notin Nat}
<1>1. IsFiniteSet(S) /\ SizeOf({}) = 0
  BY FS_Subset, FS_EmptySet, SizeEquations
<1>2. ASSUME Bad # {} PROVE FALSE
  <2>1. PICK B \in Bad : \A C \in Bad : C \subseteq B => C = B
    <3> Bad \in SUBSET (SUBSET S)
      OBVIOUS
    <3> HIDE DEF Bad
    <3> QED
      BY <1>1, <1>2, LeastSubset
  <2>2. IsFiniteSet(B)
    BY <1>1, FS_Subset
  <2>3. B # {} /\ SizeOf(B) = Size[Some(B)] + SizeOf(B \ {Some(B)})
    BY <1>1, <2>2, SizeEquations
  <2>4. Some(B) \in B
    BY <2>3, SomeIn
  <2>5. SizeOf(B \ {Some(B)}) \in Nat
    BY <2>1, <2>4
  <2>6. Size[Some(B)] \in Nat
    BY <2>4
  <2>7. SizeOf(B) \in Nat
    BY <2>3, <2>5, <2>6
  <2> QED
    BY <2>7
<1> QED
  BY <1>1, <1>2

\* Whichever block is taken off, the sizes add up.
LEMMA SizeWithout ==
  ASSUME NEW S \in SUBSET Digests, NEW d \in S
  PROVE  SizeOf(S) = SizeOf(S \ {d}) + Size[d]
<1> DEFINE Bad == {T \in SUBSET S : \E x \in T : SizeOf(T) # SizeOf(T \ {x}) + Size[x]}
<1>1. IsFiniteSet(S)
  BY FS_Subset
<1>2. ASSUME Bad # {} PROVE FALSE
  <2>1. PICK B \in Bad : \A C \in Bad : C \subseteq B => C = B
    <3> Bad \in SUBSET (SUBSET S)
      OBVIOUS
    <3> HIDE DEF Bad
    <3> QED
      BY <1>1, <1>2, LeastSubset
  <2>2. PICK e : e = Some(B)
    OBVIOUS
  <2>3. PICK f \in B : SizeOf(B) # SizeOf(B \ {f}) + Size[f]
    OBVIOUS
  <2>0. B \in SUBSET S
    OBVIOUS
  <2>4. IsFiniteSet(B) /\ IsFiniteSet(B \ {f})
    BY <1>1, <2>0, FS_Subset
  <2>5. e \in B /\ SizeOf(B) = Size[e] + SizeOf(B \ {e})
    BY <2>0, <2>2, <2>3, <2>4, SizeEquations, SomeIn
  <2>6. Size[e] \in Nat /\ Size[f] \in Nat
    BY <2>0, <2>3, <2>5
  <2>7. /\ SizeOf(B \ {e}) \in Nat /\ SizeOf((B \ {e}) \ {f}) \in Nat
        /\ SizeOf(B \ {f}) \in Nat
    BY <2>0, SizeIsNat
  <2>8. CASE e = f
    BY <2>3, <2>5, <2>6, <2>7, <2>8
  <2>9. CASE e # f
    <3>1. SizeOf(B \ {e}) = SizeOf((B \ {e}) \ {f}) + Size[f]
      <4>1. B \ {e} \in SUBSET S /\ f \in B \ {e} /\ B \ {e} \subseteq B /\ B \ {e} # B
        BY <2>0, <2>3, <2>5, <2>9
      <4> QED
        BY <2>1, <4>1
    <3>2. SizeOf(B \ {f}) = SizeOf((B \ {f}) \ {e}) + Size[e]
      <4>1. B \ {f} \in SUBSET S /\ e \in B \ {f} /\ B \ {f} \subseteq B /\ B \ {f} # B
        BY <2>0, <2>3, <2>5, <2>9
      <4> QED
        BY <2>1, <4>1
    <3>3. (B \ {f}) \ {e} = (B \ {e}) \ {f}
      OBVIOUS
    <3>4. SizeOf(B \ {f}) = SizeOf((B \ {e}) \ {f}) + Size[e]
      BY <3>2, <3>3
    <3> QED
      BY <2>3, <2>5, <2>6, <2>7, <3>1, <3>4
  <2> QED
    BY <2>8, <2>9
<1> QED
  BY <1>2

\* A set and what is left of the whole add up.
LEMMA SizeSplits ==
  ASSUME NEW S \in SUBSET Digests, NEW T \in SUBSET S
  PROVE  SizeOf(S) = SizeOf(T) + SizeOf(S \ T)
<1> DEFINE Bad == {U \in SUBSET T : SizeOf(S) # SizeOf(U) + SizeOf(S \ U)}
<1>1. IsFiniteSet(T)
  BY FS_Subset
<1>2. ASSUME Bad # {} PROVE FALSE
  <2>1. PICK B \in Bad : \A C \in Bad : C \subseteq B => C = B
    <3> Bad \in SUBSET (SUBSET T)
      OBVIOUS
    <3> HIDE DEF Bad
    <3> QED
      BY <1>1, <1>2, LeastSubset
  <2>2. B \in SUBSET T /\ SizeOf(S) # SizeOf(B) + SizeOf(S \ B)
    OBVIOUS
  <2>3. /\ SizeOf(S) \in Nat /\ SizeOf({}) = 0
        /\ SizeOf(B) \in Nat /\ SizeOf(S \ B) \in Nat
    BY <2>2, SizeIsNat
  <2>4. CASE B = {}
    BY <2>2, <2>3, <2>4
  <2>5. CASE B # {}
    <3>1. PICK d : d \in B
      BY <2>5
    <3>2. SizeOf(B) = SizeOf(B \ {d}) + Size[d]
      BY <2>2, <3>1, SizeWithout
    <3>3. SizeOf(S \ (B \ {d})) = SizeOf(S \ B) + Size[d]
      <4>1. d \in S \ (B \ {d}) /\ S \ (B \ {d}) \in SUBSET Digests
        BY <2>2, <3>1
      <4>2. (S \ (B \ {d})) \ {d} = S \ B
        BY <3>1
      <4> QED
        BY <4>1, <4>2, SizeWithout
    <3>4. SizeOf(S) = SizeOf(B \ {d}) + SizeOf(S \ (B \ {d}))
      <4>1. B \ {d} \in SUBSET T /\ B \ {d} \subseteq B /\ B \ {d} # B
        BY <2>2, <3>1
      <4> QED
        BY <2>1, <4>1
    <3>5. SizeOf(B \ {d}) \in Nat /\ Size[d] \in Nat
      BY <2>2, <3>1, SizeIsNat
    <3> QED
      BY <2>2, <2>3, <3>2, <3>3, <3>4, <3>5
  <2> QED
    BY <2>4, <2>5
<1> QED
  BY <1>2

\* More blocks are no fewer bytes.
LEMMA SizeGrows ==
  ASSUME NEW S \in SUBSET Digests, NEW T \in SUBSET S
  PROVE  SizeOf(T) <= SizeOf(S)
<1>1. SizeOf(S) = SizeOf(T) + SizeOf(S \ T) /\ SizeOf(T) \in Nat /\ SizeOf(S \ T) \in Nat
  BY SizeSplits, SizeIsNat
<1> QED
  BY <1>1

-----------------------------------------------------------------------------
\* A nonempty finite set has an element for which f is least: prune's order of
\* use, by seq, has a first block.
LEMMA OldestExists ==
  ASSUME NEW S, IsFiniteSet(S), S # {}, NEW f \in [S -> Nat]
  PROVE  \E d \in S : \A e \in S : f[d] <= f[e]
<1> DEFINE Below(d) == {e \in S : f[e] < f[d]}
           T == {Below(d) : d \in S}
           R == StrictSubsetOrdering(S)
<1>1. IsWellFoundedOn(R, FiniteSubsetsOf(S))
  BY FS_StrictSubsetOrderingWellFounded
<1>2. T \subseteq FiniteSubsetsOf(S) /\ T # {}
  <2>1. FiniteSubsetsOf(S) = SUBSET S
    BY FS_FiniteSubsetsOfFinite
  <2>2. \A d \in S : Below(d) \in SUBSET S
    OBVIOUS
  <2> HIDE DEF Below
  <2> QED
    BY <2>1, <2>2
<1>3. PICK B \in T : \A C \in T : <<C, B>> \notin R
  BY <1>1, <1>2, WFMin
<1>4. PICK d \in S : B = Below(d)
  BY <1>3
<1>5. ASSUME NEW e \in S, f[e] < f[d]
      PROVE  FALSE
  <2>1. Below(e) \subseteq Below(d) /\ e \in Below(d) /\ e \notin Below(e)
    BY <1>5
  <2>2. <<Below(e), Below(d)>> \in R
    BY <2>1 DEF StrictSubsetOrdering
  <2> QED
    BY <2>2, <1>3, <1>4
<1> QED
  BY <1>5

\* Once prune has decided, the survivors fit the count ceiling: the oldest of
\* them is not a victim, so it and what is younger fit.
LEMMA PruneSuffices ==
  ASSUME TypeOK, NEW time
  PROVE  Cardinality(held \ Victims(time)) <= MaxBlocks
<1> DEFINE Kept == held \ Victims(time)
<1>1. IsFiniteSet(held) /\ IsFiniteSet(Kept) /\ Cardinality(held) \in Nat
  BY FS_Subset, FS_CardinalityType DEF TypeOK
<1>2. CASE Kept = {}
  BY <1>2, FS_EmptySet
<1>3. CASE Kept # {}
  <2> DEFINE f == [d \in Kept |-> seq[d]]
  <2>1. f \in [Kept -> Nat]
    BY DEF TypeOK
  <2> HIDE DEF f
  <2>2. PICK d \in Kept : \A e \in Kept : f[d] <= f[e]
    BY <1>1, <1>3, <2>1, OldestExists
  <2>3. Older(d, time) \cap Kept = {}
    BY <2>1, <2>2 DEF Older, f, TypeOK
  <2>4. Older(d, time) \cup Kept \subseteq held
    BY DEF Older
  <2>5. ~ Overflows(d, time) /\ d \in held \ Expired(time)
    BY DEF Victims
  <2>6. IsFiniteSet(Older(d, time))
    BY <1>1, <2>4, FS_Subset
  <2>7. Cardinality(Older(d, time) \cup Kept) <= Cardinality(held)
    BY <1>1, <2>4, FS_Subset
  <2>8. Cardinality(Older(d, time) \cup Kept)
          = Cardinality(Older(d, time)) + Cardinality(Kept)
    <3>1. Cardinality(Older(d, time) \cap Kept) = 0
      BY <2>3, FS_EmptySet
    <3>2. Cardinality(Older(d, time) \cup Kept)
            = Cardinality(Older(d, time)) + Cardinality(Kept)
                - Cardinality(Older(d, time) \cap Kept)
      BY <1>1, <2>6, FS_Union
    <3>3. Cardinality(Older(d, time)) \in Nat /\ Cardinality(Kept) \in Nat
      BY <1>1, <2>6, FS_CardinalityType
    <3> QED
      BY <3>1, <3>2, <3>3
  <2>9. Cardinality(Older(d, time)) \in Nat /\ Cardinality(Kept) \in Nat
    BY <1>1, <2>6, FS_CardinalityType
  <2>10. Cardinality(held) <= MaxBlocks + Cardinality(Older(d, time))
    BY <1>1, <2>5, <2>9 DEF Overflows
  <2> QED
    BY <1>1, <2>7, <2>8, <2>9, <2>10
<1> QED
  BY <1>2, <1>3

\* What leaves the map is counted: a set and what is left of it add up.
LEMMA Split ==
  ASSUME NEW S, IsFiniteSet(S), NEW T \in SUBSET S
  PROVE  /\ Cardinality(S) = Cardinality(S \ T) + Cardinality(T)
         /\ Cardinality(S \ T) \in Nat /\ Cardinality(T) \in Nat
<1>1. IsFiniteSet(S \ T) /\ IsFiniteSet(T)
  BY FS_Subset, FS_Difference
<1>2. Cardinality((S \ T) \cup T)
        = Cardinality(S \ T) + Cardinality(T) - Cardinality((S \ T) \cap T)
  BY <1>1, FS_Union
<1>3. (S \ T) \cup T = S /\ (S \ T) \cap T = {}
  OBVIOUS
<1>4. Cardinality(S \ T) \in Nat /\ Cardinality(T) \in Nat
  BY <1>1, FS_CardinalityType
<1>5. Cardinality((S \ T) \cap T) = 0
  BY <1>3, FS_EmptySet
<1> QED
  BY <1>2, <1>3, <1>4, <1>5

-----------------------------------------------------------------------------
LEMMA InitIInv == Init => IInv
<1> SUFFICES ASSUME Init PROVE IInv
  OBVIOUS
<1>1. TypeOK /\ Recency
  BY DEF Init, TypeOK, Recency
<1>2. held = {} /\ Pruning = {}
  BY DEF Init, Pruning
<1>3. CountBounded /\ Conserved
  BY <1>2, FS_EmptySet DEF CountBounded, Conserved, Init
<1> QED
  BY <1>1, <1>3 DEF IInv

\* A task that leaves "idle" joins those that have to prune.
LEMMA PruningGrows ==
  ASSUME TypeOK, NEW t \in Threads, pc[t] = "idle",
         pc' = [pc EXCEPT ![t] = "over"]
  PROVE  Cardinality(Pruning') = Cardinality(Pruning) + 1
<1>1. Pruning' = Pruning \cup {t} /\ t \notin Pruning
  BY DEF Pruning, TypeOK
<1>2. IsFiniteSet(Pruning)
  BY FS_Subset DEF Pruning
<1> QED
  BY <1>1, <1>2, FS_AddElement

LEMMA PruningNat ==
  /\ Cardinality(Pruning) \in Nat /\ Cardinality(Pruning') \in Nat
<1>1. IsFiniteSet(Pruning) /\ IsFiniteSet(Pruning')
  BY FS_Subset DEF Pruning
<1> QED
  BY <1>1, FS_CardinalityType

LEMMA InsertKeeps ==
  ASSUME IInv, NEW t \in Threads, NEW d \in Digests, Insert(t, d)
  PROVE  IInv'
<1> USE DEF IInv
<1>1. TypeOK'
  BY DEF TypeOK, Insert, Use
<1>2. IsFiniteSet(held) /\ Cardinality(held) \in Nat
  BY FS_Subset, FS_CardinalityType DEF TypeOK
<1>3. held' = held \cup {d} /\ d \notin held
  BY DEF Insert
<1>4. Cardinality(held') = Cardinality(held) + 1
  BY <1>2, <1>3, FS_AddElement
<1>5. CountBounded'
  <2>1. CASE pc' = [pc EXCEPT ![t] = "over"]
    <3>1. Cardinality(Pruning') = Cardinality(Pruning) + 1
      BY <2>1, PruningGrows DEF Insert
    <3> QED
      BY <1>2, <1>4, <3>1, PruningNat DEF CountBounded
  <2>2. CASE Cardinality(held') <= MaxBlocks
    BY <1>2, <1>4, <2>2, PruningNat DEF CountBounded
  <2>3. pc' = [pc EXCEPT ![t] = "over"] \/ Cardinality(held') <= MaxBlocks
    <3> DEFINE over == total' > MaxBytes \/ Cardinality(held') > MaxBlocks
    <3>1. pc' = [pc EXCEPT ![t] = IF over THEN "over" ELSE "idle"]
      BY DEF Insert
    <3>2. ~ over => Cardinality(held') <= MaxBlocks
      BY <1>2, <1>4
    <3> HIDE DEF over
    <3> QED
      BY <3>1, <3>2
  <2> QED
    BY <2>1, <2>2, <2>3
<1>6. Recency'
  BY <1>3 DEF Recency, Insert, Use, TypeOK
<1>7. Conserved'
  BY <1>2, <1>4 DEF Conserved, Insert, TypeOK
<1> QED
  BY <1>1, <1>5, <1>6, <1>7

LEMMA PruneKeeps ==
  ASSUME IInv, NEW t \in Threads, Prune(t)
  PROVE  IInv'
<1> USE DEF IInv
<1> DEFINE gone == Victims(seen[t])
<1>1. gone \subseteq held /\ held' = held \ gone
  BY DEF Prune, Victims, Expired
<1>2. IsFiniteSet(held) /\ IsFiniteSet(gone)
  BY <1>1, FS_Subset DEF TypeOK
<1>3. /\ Cardinality(held) = Cardinality(held') + Cardinality(gone)
      /\ Cardinality(held') \in Nat /\ Cardinality(gone) \in Nat
  BY <1>1, <1>2, Split
<1>4. evicted' = evicted + Cardinality(gone) /\ stored' = stored
  BY DEF Prune
<1>5. Cardinality(held') <= MaxBlocks
  BY <1>1, PruneSuffices
<1> HIDE DEF gone
<1>6. TypeOK'
  BY <1>1, <1>3, <1>4 DEF TypeOK, Prune, Vacate
<1>7. CountBounded'
  BY <1>3, <1>5, PruningNat DEF CountBounded
<1>8. Recency'
  <2>1. \A d \in held' : seq'[d] = seq[d]
    BY <1>1 DEF Prune, Vacate, TypeOK, gone
  <2> QED
    BY <1>1, <2>1 DEF Recency, Prune
<1>9. Conserved'
  BY <1>3, <1>4 DEF Conserved, TypeOK
<1> QED
  BY <1>6, <1>7, <1>8, <1>9

LEMMA ClearKeeps ==
  ASSUME IInv, NEW t \in Threads, Clear(t)
  PROVE  IInv'
<1> USE DEF IInv
<1>1. IsFiniteSet(held) /\ Cardinality(held) \in Nat
  BY FS_Subset, FS_CardinalityType DEF TypeOK
<1>2. held' = {} /\ Cardinality(held') = 0
  BY FS_EmptySet DEF Clear
<1>3. TypeOK'
  BY <1>1 DEF TypeOK, Clear, Vacate
<1>4. CountBounded'
  BY <1>2, PruningNat DEF CountBounded
<1>5. Recency'
  BY <1>2 DEF Recency
<1>6. Conserved'
  BY <1>1, <1>2 DEF Conserved, Clear, TypeOK
<1> QED
  BY <1>3, <1>4, <1>5, <1>6

\* The steps that change neither the set of blocks nor who has to prune.
LEMMA OthersKeep ==
  ASSUME IInv,
         \/ \E t \in Threads, d \in Digests : Touch(t, d)
         \/ \E t \in Threads : PruneReadsClock(t)
         \/ Tick
         \/ UNCHANGED vars
  PROVE  IInv'
<1> USE DEF IInv
<1>1. held' = held /\ stored' = stored /\ evicted' = evicted /\ Pruning' = Pruning
  BY DEF Touch, PruneReadsClock, Tick, vars, entries, stats, Pruning, TypeOK
<1>2. CountBounded' /\ Conserved'
  BY <1>1 DEF CountBounded, Conserved
<1>3. ASSUME NEW t \in Threads, NEW d \in Digests, Touch(t, d)
      PROVE  TypeOK' /\ Recency'
  BY <1>3 DEF TypeOK, Recency, Touch, Use, stats
<1>4. ASSUME NEW t \in Threads, PruneReadsClock(t)
      PROVE  TypeOK' /\ Recency'
  BY <1>4 DEF TypeOK, Recency, PruneReadsClock, entries, stats
<1>5. ASSUME Tick PROVE TypeOK' /\ Recency'
  BY <1>5 DEF TypeOK, Recency, Tick, entries, stats
<1>6. ASSUME UNCHANGED vars PROVE TypeOK' /\ Recency'
  BY <1>6 DEF TypeOK, Recency, vars, entries, stats
<1> QED
  BY <1>2, <1>3, <1>4, <1>5, <1>6

LEMMA NextIInv == IInv /\ [Next]_vars => IInv'
BY InsertKeeps, PruneKeeps, ClearKeeps, OthersKeep DEF Next

\* The invariant holds: of the types, the count, the recency and the statistics.
THEOREM IInvHolds == Spec => []IInv
BY InitIInv, NextIInv, PTL DEF Spec

-----------------------------------------------------------------------------
\* The state of the store has its types.
THEOREM TypeCorrect == Spec => []TypeOK
<1>1. IInv => TypeOK
  BY DEF IInv
<1> QED
  BY <1>1, IInvHolds, PTL

\* Whatever tasks insert, use, clear and prune at the same time, the store holds
\* at most one block over its ceiling for each task that has still to prune.
THEOREM CountNeverExceeded == Spec => []CountBounded
<1>1. IInv => CountBounded
  BY DEF IInv
<1> QED
  BY <1>1, IInvHolds, PTL

\* Recency is a total order on the held blocks, so prune is deterministic.
THEOREM RecencyTotal == Spec => []Recency
<1>1. IInv => Recency
  BY DEF IInv
<1> QED
  BY <1>1, IInvHolds, PTL

\* Every block stored is held or was evicted, once.
THEOREM EveryBlockCounted == Spec => []Conserved
<1>1. IInv => Conserved
  BY DEF IInv
<1> QED
  BY <1>1, IInvHolds, PTL

-----------------------------------------------------------------------------
(* Bytes. *)

\* The books of bytes: the running total is the sum of what is held, and exceeds its
\* ceiling by one block for each task that has still to prune.
BytesInv == TotalIsSum /\ BytesBounded

\* As PruneSuffices, of the bytes: what is left of the sum when all that is older than
\* the oldest survivor is taken off is within the ceiling.
LEMMA PruneSufficesBytes ==
  ASSUME TypeOK, TotalIsSum, NEW time
  PROVE  SizeOf(held \ Victims(time)) <= MaxBytes
<1> DEFINE Kept == held \ Victims(time)
<1>1. IsFiniteSet(Kept) /\ held \in SUBSET Digests /\ Kept \in SUBSET held
  BY FS_Subset DEF TypeOK
<1>2. CASE Kept = {}
  <2>1. SizeOf({}) = 0
    BY SizeIsNat
  <2> QED
    BY <1>2, <2>1
<1>3. CASE Kept # {}
  <2> DEFINE f == [d \in Kept |-> seq[d]]
  <2>1. f \in [Kept -> Nat]
    BY DEF TypeOK
  <2> HIDE DEF f
  <2>2. PICK d \in Kept : \A e \in Kept : f[d] <= f[e]
    BY <1>1, <1>3, <2>1, OldestExists
  <2>3. PICK old : old = Older(d, time)
    OBVIOUS
  <2>4. old \cap Kept = {}
    BY <2>1, <2>2, <2>3 DEF Older, f, TypeOK
  <2>5. old \in SUBSET held
    BY <2>3 DEF Older
  <2>6. total <= MaxBytes + SizeOf(old)
    <3>1. ~ Overflows(d, time)
      BY DEF Victims
    <3>2. SizeOf(old) \in Nat /\ total \in Nat
      BY <1>1, <2>5, SizeIsNat DEF TotalIsSum
    <3> QED
      BY <2>3, <3>1, <3>2 DEF Overflows
  <2> HIDE DEF Kept
  <2>7. SizeOf(old) + SizeOf(Kept) <= SizeOf(held)
    <3>1. held \ old \in SUBSET Digests /\ Kept \in SUBSET (held \ old)
      BY <1>1, <2>4
    <3>2. SizeOf(Kept) <= SizeOf(held \ old)
      BY <3>1, SizeGrows
    <3>3. SizeOf(held) = SizeOf(old) + SizeOf(held \ old)
      BY <1>1, <2>5, SizeSplits
    <3>4. SizeOf(Kept) \in Nat /\ SizeOf(held \ old) \in Nat /\ SizeOf(old) \in Nat
      BY <1>1, <2>5, <3>1, SizeIsNat
    <3> QED
      BY <3>2, <3>3, <3>4
  <2>8. SizeOf(Kept) \in Nat /\ SizeOf(old) \in Nat /\ SizeOf(held) \in Nat
    BY <1>1, <2>5, SizeIsNat
  <2> QED
    BY <2>6, <2>7, <2>8 DEF TotalIsSum, Kept
<1> QED
  BY <1>2, <1>3

\* The room for one task more is one largest block more.
LEMMA Room ==
  ASSUME NEW n \in Nat, NEW b \in Nat
  PROVE  n * b \in Nat /\ (n + 1) * b = n * b + b
OBVIOUS

LEMMA BytesInit == Init => BytesInv
<1> SUFFICES ASSUME Init PROVE BytesInv
  OBVIOUS
<1>1. total = 0 /\ held = {}
  BY DEF Init
<1>2. SizeOf({}) = 0
  BY SizeIsNat
<1>3. Cardinality(Pruning) * MaxBlockBytes \in Nat
  BY PruningNat, Room
<1> QED
  BY <1>1, <1>2, <1>3 DEF BytesInv, TotalIsSum, BytesBounded

LEMMA InsertBytes ==
  ASSUME IInv, BytesInv, NEW t \in Threads, NEW d \in Digests, Insert(t, d)
  PROVE  BytesInv'
<1> USE DEF IInv, BytesInv
<1>1. /\ held' = held \cup {d} /\ d \notin held /\ total' = total + Size[d]
      /\ Size[d] \in Nat /\ Size[d] <= MaxBlockBytes /\ total \in Nat
      /\ held' \in SUBSET Digests
  BY DEF Insert, TotalIsSum, TypeOK
<1>2. TotalIsSum'
  <2>1. SizeOf(held') = SizeOf(held' \ {d}) + Size[d]
    BY <1>1, SizeWithout
  <2>2. held' \ {d} = held
    BY <1>1
  <2> QED
    BY <1>1, <2>1, <2>2 DEF TotalIsSum
<1>3. PICK n : n = Cardinality(Pruning)
  OBVIOUS
<1>4. n \in Nat /\ n * MaxBlockBytes \in Nat /\ (n + 1) * MaxBlockBytes = n * MaxBlockBytes + MaxBlockBytes
  BY <1>3, PruningNat, Room
<1>5. CASE pc' = [pc EXCEPT ![t] = "over"]
  <2>1. Cardinality(Pruning') = n + 1
    BY <1>3, <1>5, PruningGrows DEF Insert
  <2>2. total <= MaxBytes + n * MaxBlockBytes
    BY <1>3 DEF BytesBounded
  <2>3. total' <= MaxBytes + (n + 1) * MaxBlockBytes
    BY <1>1, <1>4, <2>2
  <2> QED
    BY <1>2, <2>1, <2>3 DEF BytesBounded
<1>6. CASE total' <= MaxBytes
  <2>1. Cardinality(Pruning') * MaxBlockBytes \in Nat
    BY PruningNat, Room
  <2> QED
    BY <1>1, <1>2, <1>6, <2>1 DEF BytesBounded
<1>7. pc' = [pc EXCEPT ![t] = "over"] \/ total' <= MaxBytes
  <2> DEFINE over == total' > MaxBytes \/ Cardinality(held') > MaxBlocks
  <2>1. pc' = [pc EXCEPT ![t] = IF over THEN "over" ELSE "idle"]
    BY DEF Insert
  <2>2. ~ over => total' <= MaxBytes
    BY <1>1
  <2> HIDE DEF over
  <2> QED
    BY <2>1, <2>2
<1> QED
  BY <1>5, <1>6, <1>7

LEMMA PruneBytes ==
  ASSUME IInv, BytesInv, NEW t \in Threads, Prune(t)
  PROVE  BytesInv'
<1>1. held' = held \ Victims(seen[t]) /\ total' = SizeOf(held') /\ held' \in SUBSET Digests
  BY DEF Prune, IInv, TypeOK
<1>2. TotalIsSum'
  BY <1>1, SizeIsNat DEF TotalIsSum
<1>3. total' <= MaxBytes
  BY <1>1, PruneSufficesBytes DEF IInv, BytesInv
<1>4. Cardinality(Pruning') * MaxBlockBytes \in Nat
  BY PruningNat, Room
<1> QED
  BY <1>2, <1>3, <1>4 DEF BytesInv, BytesBounded, TotalIsSum

LEMMA OthersBytes ==
  ASSUME IInv, BytesInv,
         \/ \E t \in Threads, d \in Digests : Touch(t, d)
         \/ \E t \in Threads : PruneReadsClock(t) \/ Clear(t)
         \/ Tick
         \/ UNCHANGED vars
  PROVE  BytesInv'
<1> USE DEF IInv, BytesInv
<1>1. CASE \E t \in Threads : Clear(t)
  <2>1. held' = {} /\ total' = 0
    BY <1>1 DEF Clear
  <2>2. SizeOf({}) = 0
    BY SizeIsNat
  <2>3. Cardinality(Pruning') * MaxBlockBytes \in Nat
    BY PruningNat, Room
  <2> QED
    BY <2>1, <2>2, <2>3 DEF TotalIsSum, BytesBounded
<1>2. CASE ~ \E t \in Threads : Clear(t)
  <2>1. held' = held /\ total' = total /\ Pruning' = Pruning
    BY <1>2 DEF Touch, PruneReadsClock, Tick, vars, entries, stats, Pruning, TypeOK
  <2> QED
    BY <2>1 DEF TotalIsSum, BytesBounded
<1> QED
  BY <1>1, <1>2

LEMMA NextBytes == IInv /\ BytesInv /\ [Next]_vars => BytesInv'
BY InsertBytes, PruneBytes, OthersBytes DEF Next

\* The invariant of the bytes holds.
THEOREM BytesInvHolds == Spec => []BytesInv
BY BytesInit, NextBytes, IInvHolds, PTL DEF Spec

\* insert's running total and prune's sum never disagree, whatever insert, prune and
\* clear of other tasks do in between.
THEOREM TotalIsTheSum == Spec => []TotalIsSum
<1>1. BytesInv => TotalIsSum
  BY DEF BytesInv
<1> QED
  BY <1>1, BytesInvHolds, PTL

\* However many tasks insert at the same time, the bytes held exceed the ceiling by at
\* most one largest block for each that has still to prune.
THEOREM BytesNeverExceeded == Spec => []BytesBounded
<1>1. BytesInv => BytesBounded
  BY DEF BytesInv
<1> QED
  BY <1>1, BytesInvHolds, PTL

-----------------------------------------------------------------------------
(* The order and the extent of eviction. *)

\* Nothing is from the future, and who was used later has a later time.
Times ==
  /\ \A t \in Threads : seen[t] <= now
  /\ \A d \in held : /\ at[d] <= now
                     /\ \A e \in held : seq[d] <= seq[e] => at[d] <= at[e]

LEMMA TimesInit == Init => Times
BY DEF Init, Times

\* A use keeps the times in order: it is the latest in both.
LEMMA UseTimes ==
  ASSUME TypeOK, Recency, Times, NEW d \in Digests, Use(d), held' \subseteq held \cup {d},
         seen' = seen, now' = now
  PROVE  Times'
<1>1. /\ seq' = [seq EXCEPT ![d] = clock + 1] /\ at' = [at EXCEPT ![d] = now]
  BY DEF Use
<1>2. \A x \in held \ {d} : x \in Digests /\ seq'[x] = seq[x] /\ at'[x] = at[x] /\ seq[x] <= clock
  BY <1>1 DEF TypeOK, Recency
<1>3. seq'[d] = clock + 1 /\ at'[d] = now /\ clock \in Nat /\ now \in Nat
  BY <1>1 DEF TypeOK
<1>4. \A x \in Digests : seq[x] \in Nat /\ at[x] \in Nat
  BY DEF TypeOK
<1>5. ASSUME NEW x \in held'
      PROVE  at'[x] <= now' /\ \A e \in held' : seq'[x] <= seq'[e] => at'[x] <= at'[e]
  <2>1. CASE x = d
    <3>1. ASSUME NEW e \in held', e # d PROVE ~(seq'[x] <= seq'[e])
      BY <1>2, <1>3, <1>4, <2>1, <3>1
    <3> QED
      BY <1>3, <2>1, <3>1
  <2>2. CASE x # d
    <3>1. x \in held \ {d}
      BY <2>2
    <3>2. at'[x] <= now'
      BY <1>2, <3>1 DEF Times
    <3>3. ASSUME NEW e \in held', seq'[x] <= seq'[e]
          PROVE  at'[x] <= at'[e]
      <4>1. CASE e = d
        BY <1>2, <1>3, <3>1, <4>1 DEF Times
      <4>2. CASE e # d
        BY <1>2, <3>1, <3>3, <4>2 DEF Times
      <4> QED
        BY <4>1, <4>2
    <3> QED
      BY <3>2, <3>3
  <2> QED
    BY <2>1, <2>2
<1> QED
  BY <1>5 DEF Times

LEMMA NextTimes == IInv /\ Times /\ [Next]_vars => Times'
<1> SUFFICES ASSUME IInv, Times, [Next]_vars PROVE Times'
  OBVIOUS
<1> USE DEF IInv
<1>1. ASSUME NEW t \in Threads, NEW d \in Digests, Insert(t, d) \/ Touch(t, d)
      PROVE  Times'
  <2>1. Use(d) /\ held' \subseteq held \cup {d} /\ seen' = seen /\ now' = now
    BY <1>1 DEF Insert, Touch
  <2> QED
    BY <2>1, UseTimes
<1>2. ASSUME NEW t \in Threads, PruneReadsClock(t)
      PROVE  Times'
  BY <1>2 DEF Times, TypeOK, PruneReadsClock, entries
<1>3. ASSUME NEW t \in Threads, Prune(t)
      PROVE  Times'
  <2>1. /\ held' \subseteq held /\ now' = now /\ seen' = [seen EXCEPT ![t] = 0]
        /\ \A d \in held' : seq'[d] = seq[d] /\ at'[d] = at[d]
    BY <1>3 DEF Prune, Vacate, TypeOK
  <2>2. \A u \in Threads : seen'[u] <= now'
    BY <2>1 DEF TypeOK, Times
  <2> QED
    BY <2>1, <2>2 DEF Times
<1>4. ASSUME NEW t \in Threads, Clear(t)
      PROVE  Times'
  BY <1>4 DEF Times, Clear
<1>5. ASSUME Tick
      PROVE  Times'
  BY <1>5 DEF Times, TypeOK, Tick, entries
<1>6. ASSUME UNCHANGED vars
      PROVE  Times'
  BY <1>6 DEF Times, vars, entries
<1> QED
  BY <1>1, <1>2, <1>3, <1>4, <1>5, <1>6 DEF Next

\* Times are in the order of use, as long as the clock is not set back.
THEOREM TimesHold == Spec => []Times
BY TimesInit, NextTimes, IInvHolds, PTL DEF Spec

\* Steps but Prune that remove a block remove them all.
LEMMA OnlyPruneSelects ==
  ASSUME IInv, [Next]_vars, held' # {}, NEW d \in held \ held'
  PROVE  \E t \in Threads : Prune(t)
BY DEF Next, IInv, Insert, Touch, PruneReadsClock, Clear, Tick, vars, entries, stats

\* A victim of prune that has not expired goes with all that is older.
LEMMA VictimsAreOldest ==
  ASSUME TypeOK, Recency, TotalIsSum, Times, NEW t \in Threads,
         NEW d \in Victims(seen[t]), NEW e \in held \ Victims(seen[t])
  PROVE  seq[d] < seq[e] /\ at[d] <= at[e]
<1> DEFINE time == seen[t]
<1>0. d \in held /\ e \in held /\ d \in Digests /\ e \in Digests /\ d # e
  BY DEF Victims, Expired, TypeOK
<1>1. seq[d] \in Nat /\ seq[e] \in Nat /\ at[d] \in Nat /\ at[e] \in Nat /\ time \in Nat
  BY <1>0 DEF TypeOK
<1>2. seq[d] # seq[e]
  BY <1>0 DEF Recency
<1>3. e \notin Expired(time) /\ ~ Overflows(e, time)
  BY DEF Victims
<1>4. ~(seq[e] < seq[d])
  <2>1. SUFFICES ASSUME seq[e] < seq[d] PROVE FALSE
    OBVIOUS
  <2>2. at[e] <= at[d]
    BY <1>0, <1>1, <2>1 DEF Times
  <2>3. d \notin Expired(time)
    <3>1. Ttl \in Nat
      OBVIOUS
    <3> QED
      BY <1>0, <1>1, <1>3, <2>2, <3>1 DEF Expired
  <2>4. Overflows(d, time)
    BY <2>3 DEF Victims
  <2>5. PICK D : D = Older(d, time)
    OBVIOUS
  <2>6. PICK E : E = Older(e, time)
    OBVIOUS
  <2>7. E \in SUBSET D /\ D \in SUBSET held /\ held \in SUBSET Digests
    <3>1. \A x \in held : seq[x] \in Nat
      BY DEF TypeOK
    <3> QED
      BY <1>1, <2>1, <2>5, <2>6, <3>1 DEF Older, TypeOK
  <2>8. IsFiniteSet(held) /\ IsFiniteSet(D) /\ IsFiniteSet(E)
    BY <2>7, FS_Subset
  <2>9. /\ Cardinality(E) <= Cardinality(D) /\ SizeOf(E) <= SizeOf(D)
        /\ Cardinality(E) \in Nat /\ Cardinality(D) \in Nat /\ Cardinality(held) \in Nat
        /\ SizeOf(E) \in Nat /\ SizeOf(D) \in Nat
    BY <2>7, <2>8, FS_Subset, FS_CardinalityType, SizeGrows, SizeIsNat
  <2>10. total \in Nat
    BY DEF TotalIsSum
  <2> QED
    BY <1>3, <2>4, <2>5, <2>6, <2>9, <2>10 DEF Overflows
<1>5. seq[d] < seq[e]
  BY <1>1, <1>2, <1>4
<1> QED
  BY <1>0, <1>1, <1>5 DEF Times

\* Whatever is inserted and used between a task's decision to prune and its lock, what
\* it evicts was used before all that it leaves.
THEOREM OldestGoFirst == Spec => EvictsOldest
<1>1. ASSUME IInv, BytesInv, Times, [Next]_vars
      PROVE  [\A d \in held \ held', e \in held \cap held' :
                seq[d] < seq[e] /\ at[d] <= at[e]]_vars
  <2>1. SUFFICES ASSUME NEW d \in held \ held', NEW e \in held \cap held'
                 PROVE  seq[d] < seq[e] /\ at[d] <= at[e]
    OBVIOUS
  <2>2. PICK t \in Threads : Prune(t)
    BY <1>1, OnlyPruneSelects
  <2>3. held' = held \ Victims(seen[t])
    BY <2>2 DEF Prune
  <2>4. d \in Victims(seen[t]) /\ e \in held \ Victims(seen[t])
    BY <2>3
  <2> QED
    BY <1>1, <2>4, VictimsAreOldest DEF IInv, BytesInv
<1> QED
  BY <1>1, IInvHolds, BytesInvHolds, TimesHold, PTL DEF Spec, EvictsOldest

\* No block leaves that has not expired and need not, with expired ones counted along:
\* also when two tasks that both saw the store over its ceiling both prune.
THEOREM NoMoreThanNeeded == Spec => EvictsToFit
<1>1. ASSUME IInv, BytesInv, Times, [Next]_vars, held' # {},
             NEW d \in held \ (held' \cup Expired(now))
      PROVE  LET kept == {e \in held : seq[e] >= seq[d]} \cup Expired(now)
             IN SizeOf(kept) > MaxBytes \/ Cardinality(kept) > MaxBlocks
  <2>1. PICK t \in Threads : Prune(t)
    BY <1>1, OnlyPruneSelects
  <2>2. d \in Victims(seen[t]) /\ d \in held /\ d \notin Expired(now)
    BY <1>1, <2>1 DEF Prune
  <2>3. Expired(seen[t]) \subseteq Expired(now)
    <3>1. seen[t] \in Nat /\ now \in Nat /\ Ttl \in Nat /\ \A e \in held : at[e] \in Nat
      BY <1>1 DEF IInv, TypeOK
    <3>2. seen[t] <= now
      BY <1>1 DEF Times
    <3> QED
      BY <3>1, <3>2 DEF Expired
  <2>4. PICK old : old = Older(d, seen[t])
    OBVIOUS
  <2>5. PICK kept : kept = {e \in held : seq[e] >= seq[d]} \cup Expired(now)
    OBVIOUS
  <2>6. total > MaxBytes + SizeOf(old) \/ Cardinality(held) > MaxBlocks + Cardinality(old)
    BY <2>2, <2>3, <2>4 DEF Victims, Overflows
  \* What prune has not counted off is among what is kept and what has expired by now.
  <2>7. PICK rest : rest = held \ old
    OBVIOUS
  <2>8. held \in SUBSET Digests /\ kept \in SUBSET held /\ rest \in SUBSET kept
    <3>1. \A e \in held : seq[e] \in Nat
      BY <1>1 DEF IInv, TypeOK
    <3>2. held \in SUBSET Digests /\ Expired(now) \subseteq held
      BY <1>1 DEF IInv, TypeOK, Expired
    <3>3. \A e \in rest : e \in Expired(seen[t]) \/ ~(seq[e] < seq[d])
      BY <2>4, <2>7 DEF Older
    <3>4. \A e \in rest : e \in Expired(now) \/ seq[e] >= seq[d]
      BY <2>2, <2>3, <2>7, <3>1, <3>3
    <3> QED
      BY <2>5, <2>7, <3>2, <3>4
  <2>9. old \in SUBSET held /\ held \ rest = old
    BY <2>4, <2>7 DEF Older
  <2>10. total = SizeOf(rest) + SizeOf(old)
    <3>1. SizeOf(held) = SizeOf(rest) + SizeOf(held \ rest)
      BY <2>8, SizeSplits
    <3> QED
      BY <1>1, <2>9, <3>1 DEF BytesInv, TotalIsSum
  <2>11. IsFiniteSet(held) /\ IsFiniteSet(kept)
    BY <2>8, FS_Subset
  <2>12. /\ Cardinality(held) = Cardinality(old) + Cardinality(rest)
         /\ Cardinality(old) \in Nat /\ Cardinality(rest) \in Nat
    BY <2>8, <2>9, <2>11, Split
  <2>13. /\ SizeOf(rest) \in Nat /\ SizeOf(old) \in Nat /\ SizeOf(kept) \in Nat
         /\ SizeOf(kept \ rest) \in Nat
    BY <2>8, <2>9, SizeIsNat
  <2>14. SizeOf(rest) > MaxBytes \/ Cardinality(rest) > MaxBlocks
    BY <2>6, <2>10, <2>12, <2>13
  <2>15. SizeOf(kept) = SizeOf(rest) + SizeOf(kept \ rest)
    BY <2>8, SizeSplits
  <2>16. /\ Cardinality(kept) = Cardinality(kept \ rest) + Cardinality(rest)
         /\ Cardinality(kept \ rest) \in Nat
    BY <2>8, <2>11, Split
  <2>17. SizeOf(kept) > MaxBytes \/ Cardinality(kept) > MaxBlocks
    BY <2>12, <2>13, <2>14, <2>15, <2>16
  <2> QED
    BY <2>5, <2>17
<1>2. ASSUME IInv, BytesInv, Times, [Next]_vars
      PROVE  [held' # {} =>
                \A d \in held \ (held' \cup Expired(now)) :
                  LET kept == {e \in held : seq[e] >= seq[d]} \cup Expired(now)
                  IN SizeOf(kept) > MaxBytes \/ Cardinality(kept) > MaxBlocks]_vars
  BY <1>1, <1>2
<1> QED
  BY <1>2, IInvHolds, BytesInvHolds, TimesHold, PTL DEF Spec, EvictsToFit
=============================================================================
