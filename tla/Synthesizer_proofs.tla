------------------------- MODULE Synthesizer_proofs -------------------------
(***************************************************************************)
(* Proofs about Synthesizer, for any evidence, any answers and any budget. *)
(*                                                                         *)
(* The first two parts are about the token accounting: what a sum over a   *)
(* set is (the library's fold takes the members in an order that nobody    *)
(* knows, so that it does not matter has to be shown, by induction on the  *)
(* number of members), and what follows for the estimate.  It grows with   *)
(* the evidence, and loses at most five characters for each paper.         *)
(*                                                                         *)
(* The third part uses of it only these two facts: whether a prompt Fits   *)
(* is left opaque.  What an extract promises is decided when it is         *)
(* written, from the papers that were shown, dropped and not considered    *)
(* yet; Pool says how these three divide the section's papers while it is  *)
(* worked on.                                                              *)
(***************************************************************************)
EXTENDS Synthesizer, FiniteSetTheorems, WellFoundedInduction, TLAPS
-----------------------------------------------------------------------------
(* Sums over finite sets. *)

\* Induction on the natural numbers, for a set in place of a predicate.
LEMMA NatSet ==
  ASSUME NEW S, 0 \in S, \A n \in Nat : n \in S => n + 1 \in S
  PROVE  Nat \subseteq S
<1> DEFINE R == OpToRel(<, Nat)
           T == Nat \ S
<1> SUFFICES ASSUME T # {} PROVE FALSE
  OBVIOUS
<1>1. PICK x \in T : \A y \in T : <<y, x>> \notin R
  <2> HIDE DEF R, T
  <2>1. IsWellFoundedOn(R, Nat)
    BY ONLY NatLessThanWellFounded, Zenon DEF R
  <2>2. T \subseteq Nat
    BY DEF T
  <2> QED
    BY <2>1, <2>2, WFMin
<1>2. x # 0 /\ x - 1 \in Nat /\ x - 1 < x
  OBVIOUS
<1>3. <<x - 1, x>> \in R
  BY <1>2 DEF OpToRel
<1>4. x - 1 \notin T
  BY <1>1, <1>3
<1> QED
  BY <1>2, <1>4

\* it sums the values of g over each subset of S, taking one member at a time.
Sums(it, g, S) ==
  it = [T \in SUBSET S |->
          IF T = {} THEN 0 ELSE g[CHOOSE x \in T : TRUE] + it[T \ {CHOOSE x \in T : TRUE}]]

\* it sums them in any order.
Adds(it, g, S) ==
  /\ it \in [SUBSET S -> Nat]
  /\ it[{}] = 0
  /\ \A T \in SUBSET S : \A x \in T : it[T] = g[x] + it[T \ {x}]

\* The sum of g over S.
Total(g, S) == MapThenSumSet(LAMBDA x : g[x], S)

\* A member less is one less to count.
LEMMA OneLess ==
  ASSUME NEW T, IsFiniteSet(T), NEW x \in T, NEW k \in Nat, Cardinality(T) = k + 1
  PROVE  IsFiniteSet(T \ {x}) /\ Cardinality(T \ {x}) = k
<1>1. Cardinality(T \ {x}) = Cardinality(T) - 1 /\ IsFiniteSet(T \ {x})
  BY FS_RemoveElement
<1> QED
  BY <1>1

LEMMA SumsExist ==
  ASSUME NEW S, IsFiniteSet(S), NEW g
  PROVE  \E it : Sums(it, g, S)
<1> DEFINE c(T) == CHOOSE x \in T : TRUE
           R(f, T) == IF T = {} THEN 0 ELSE g[c(T)] + f[T \ {c(T)}]
           K == {k \in Nat : \E f : \A T \in SUBSET S : Cardinality(T) <= k => f[T] = R(f, T)}
<1>1. \A T \in SUBSET S : IsFiniteSet(T) /\ Cardinality(T) \in Nat
                          /\ (Cardinality(T) = 0 <=> T = {})
  BY FS_Subset, FS_CardinalityType, FS_EmptySet
<1>2. 0 \in K
  <2> DEFINE f == [T \in SUBSET S |-> 0]
  <2>1. ASSUME NEW T \in SUBSET S, Cardinality(T) <= 0
        PROVE  f[T] = R(f, T)
    BY <1>1, <2>1
  <2> QED
    BY <2>1
<1>3. ASSUME NEW k \in Nat, k \in K PROVE k + 1 \in K
  <2>1. PICK f : \A T \in SUBSET S : Cardinality(T) <= k => f[T] = R(f, T)
    BY <1>3
  <2> DEFINE h == [T \in SUBSET S |-> R(f, T)]
  <2>2. ASSUME NEW T \in SUBSET S, Cardinality(T) <= k + 1
        PROVE  h[T] = R(h, T)
    <3>1. CASE T = {}
      BY <3>1
    <3>2. CASE T # {}
      <4> DEFINE U == T \ {c(T)}
      <4>1. c(T) \in T /\ U \in SUBSET S
        BY <3>2
      <4>2. Cardinality(U) <= k
        <5>1. Cardinality(T) # 0 /\ Cardinality(T) \in Nat /\ IsFiniteSet(T)
          BY <1>1, <3>2
        <5>2. Cardinality(U) = Cardinality(T) - 1
          BY <4>1, <5>1, FS_RemoveElement
        <5> HIDE DEF U
        <5> QED
          BY <2>2, <5>1, <5>2
      <4>3. f[U] = R(f, U)
        BY <2>1, <4>1, <4>2
      <4>4. h[U] = R(f, U)
        BY <4>1
      <4>5. h[T] = g[c(T)] + f[U]
        BY <3>2
      <4> HIDE DEF h
      <4> QED
        BY <3>2, <4>3, <4>4, <4>5
    <3> QED
      BY <3>1, <3>2
  <2> HIDE DEF h
  <2>3. \E e : \A T \in SUBSET S : Cardinality(T) <= k + 1 => e[T] = R(e, T)
    <3> HIDE DEF R
    <3> QED
      BY <2>2
  <2>4. k + 1 \in Nat
    OBVIOUS
  <2> QED
    BY <2>3, <2>4, Zenon
<1> HIDE DEF K
<1>4. Cardinality(S) \in K
  BY <1>1, <1>2, <1>3, NatSet
<1>5. PICK f : \A T \in SUBSET S : Cardinality(T) <= Cardinality(S) => f[T] = R(f, T)
  BY <1>4 DEF K
<1>6. \A T \in SUBSET S : f[T] = R(f, T)
  BY <1>5, FS_Subset
<1> DEFINE h == [T \in SUBSET S |-> R(f, T)]
<1>7. ASSUME NEW T \in SUBSET S PROVE R(f, T) = R(h, T)
  <2>1. T # {} => T \ {c(T)} \in SUBSET S
    OBVIOUS
  <2> QED
    BY <1>6, <2>1
<1>8. h = [T \in SUBSET S |-> R(h, T)]
  BY <1>7
<1> QED
  BY <1>8 DEF Sums

LEMMA SumsAdd ==
  ASSUME NEW S, IsFiniteSet(S), NEW g, \A x \in S : g[x] \in Nat, NEW it, Sums(it, g, S)
  PROVE  Adds(it, g, S)
<1> DEFINE c(T) == CHOOSE x \in T : TRUE
           K == {k \in Nat : \A T \in SUBSET S : Cardinality(T) <= k =>
                   it[T] \in Nat /\ \A x \in T : it[T] = g[x] + it[T \ {x}]}
<1>1. \A T \in SUBSET S : IsFiniteSet(T) /\ Cardinality(T) \in Nat
                          /\ (Cardinality(T) = 0 <=> T = {})
  BY FS_Subset, FS_CardinalityType, FS_EmptySet
<1>2. /\ it[{}] = 0
      /\ \A T \in SUBSET S : T # {} => c(T) \in T /\ it[T] = g[c(T)] + it[T \ {c(T)}]
  BY DEF Sums
<1> HIDE DEF c
<1>3. 0 \in K
  <2>1. \A T \in SUBSET S : Cardinality(T) <= 0 => T = {}
    BY <1>1
  <2>2. \A T \in SUBSET S : Cardinality(T) <= 0 =>
           it[T] \in Nat /\ \A x \in T : it[T] = g[x] + it[T \ {x}]
    <3> SUFFICES ASSUME NEW T \in SUBSET S, T = {}
                 PROVE  it[T] \in Nat /\ \A x \in T : it[T] = g[x] + it[T \ {x}]
      BY <2>1
    <3>1. it[T] = 0
      BY <1>2
    <3> QED
      BY <3>1
  <2> QED
    BY <2>2
<1>4. ASSUME NEW k \in Nat, k \in K PROVE k + 1 \in K
  <2>1. \A U \in SUBSET S : Cardinality(U) <= k =>
           it[U] \in Nat /\ \A x \in U : it[U] = g[x] + it[U \ {x}]
    BY <1>4
  <2> SUFFICES ASSUME NEW T \in SUBSET S, Cardinality(T) = k + 1
               PROVE  it[T] \in Nat /\ \A x \in T : it[T] = g[x] + it[T \ {x}]
    BY <1>1, <2>1
  <2> HIDE DEF K
  <2>2. T # {} /\ IsFiniteSet(T)
    BY <1>1
  <2>3. \A x \in T : T \ {x} \in SUBSET S /\ Cardinality(T \ {x}) = k /\ g[x] \in Nat
    BY <2>2, OneLess
  <2>4. c(T) \in T /\ it[T] = g[c(T)] + it[T \ {c(T)}]
    BY <1>2, <2>2
  <2>5. \A x \in T : it[T \ {x}] \in Nat
    BY <2>1, <2>3
  <2>6. ASSUME NEW x \in T, x # c(T)
        PROVE  it[T] = g[x] + it[T \ {x}]
    <3> DEFINE V == (T \ {x}) \ {c(T)}
    <3>1. V = (T \ {c(T)}) \ {x} /\ x \in T \ {c(T)} /\ c(T) \in T \ {x}
      BY <2>4, <2>6
    <3>2. it[T \ {x}] = g[c(T)] + it[V]
      BY <2>1, <2>3, <3>1
    <3>3. it[T \ {c(T)}] = g[x] + it[V]
      BY <2>1, <2>3, <2>4, <3>1
    <3>4. g[x] \in Nat /\ g[c(T)] \in Nat
      BY <2>3, <2>4
    <3>5. it[V] \in Nat
      <4>1. V \in SUBSET S /\ T \ {x} \in SUBSET S
        OBVIOUS
      <4>2. Cardinality(V) <= k
        BY <1>1, <2>3, <4>1, FS_Subset
      <4> HIDE DEF V
      <4> QED
        BY <2>1, <4>1, <4>2
    <3> HIDE DEF V
    <3> QED
      BY <2>4, <3>2, <3>3, <3>4, <3>5
  <2>7. it[T] \in Nat
    BY <2>3, <2>4, <2>5
  <2> QED
    BY <2>4, <2>6, <2>7
<1> HIDE DEF K
<1>5. Nat \subseteq K
  BY <1>3, <1>4, NatSet
<1>6. \A T \in SUBSET S : it[T] \in Nat /\ \A x \in T : it[T] = g[x] + it[T \ {x}]
  BY <1>1, <1>5 DEF K
<1>7. it \in [SUBSET S -> Nat]
  BY <1>6 DEF Sums
<1> QED
  BY <1>2, <1>6, <1>7 DEF Adds

LEMMA TotalDef == ASSUME NEW g, NEW S PROVE Total(g, S) = (CHOOSE it : Sums(it, g, S))[S]
BY DEF Total, MapThenSumSet, MapThenFoldSet, Sums

\* A total is what is left without x, and x.
LEMMA TotalParts ==
  ASSUME NEW S, IsFiniteSet(S), NEW g, \A x \in S : g[x] \in Nat
  PROVE  /\ Total(g, S) \in Nat
         /\ \E it : Adds(it, g, S) /\ Total(g, S) = it[S]
<1>1. PICK it : Sums(it, g, S) /\ Total(g, S) = it[S]
  <2> DEFINE it == CHOOSE it : Sums(it, g, S)
  <2>1. Sums(it, g, S)
    BY SumsExist
  <2> QED
    BY <2>1, TotalDef
<1>2. Adds(it, g, S)
  BY <1>1, SumsAdd
<1> QED
  BY <1>1, <1>2 DEF Adds

\* However it comes about, it is the same number.
LEMMA AddsTotal ==
  ASSUME NEW S, IsFiniteSet(S), NEW g, \A x \in S : g[x] \in Nat, NEW it, Adds(it, g, S),
         NEW T \in SUBSET S
  PROVE  it[T] = Total(g, T)
<1>1. IsFiniteSet(T) /\ \A x \in T : g[x] \in Nat
  BY FS_Subset
<1>2. PICK jt : Adds(jt, g, T) /\ Total(g, T) = jt[T]
  BY <1>1, TotalParts
<1> DEFINE K == {k \in Nat : \A U \in SUBSET T : Cardinality(U) = k => it[U] = jt[U]}
<1>3. \A U \in SUBSET T : IsFiniteSet(U) /\ Cardinality(U) \in Nat
                          /\ (Cardinality(U) = 0 <=> U = {})
  BY <1>1, FS_Subset, FS_CardinalityType, FS_EmptySet
<1>4. 0 \in K
  BY <1>2, <1>3 DEF Adds
<1>5. ASSUME NEW k \in Nat, k \in K PROVE k + 1 \in K
  <2>1. ASSUME NEW U \in SUBSET T, Cardinality(U) = k + 1
        PROVE  it[U] = jt[U]
    <3>1. PICK x \in U : TRUE
      BY <1>3, <2>1
    <3>2. Cardinality(U \ {x}) = k /\ U \ {x} \in SUBSET T
      BY <1>3, <2>1, OneLess
    <3>3. it[U \ {x}] = jt[U \ {x}]
      BY <1>5, <3>2
    <3>4. it[U] = g[x] + it[U \ {x}]
      BY DEF Adds
    <3>5. jt[U] = g[x] + jt[U \ {x}]
      BY <1>2 DEF Adds
    <3> QED
      BY <3>3, <3>4, <3>5
  <2> QED
    BY <2>1
<1> HIDE DEF K
<1>6. Cardinality(T) \in K
  BY <1>3, <1>4, <1>5, NatSet
<1> QED
  BY <1>2, <1>6 DEF K

LEMMA TotalEmpty == ASSUME NEW g PROVE Total(g, {}) = 0
<1>1. IsFiniteSet({}) /\ \A x \in {} : g[x] \in Nat
  BY FS_EmptySet
<1>2. PICK it : Adds(it, g, {}) /\ Total(g, {}) = it[{}]
  BY <1>1, TotalParts
<1> QED
  BY <1>2 DEF Adds

LEMMA TotalOneMore ==
  ASSUME NEW S, IsFiniteSet(S), NEW g, \A x \in S : g[x] \in Nat, NEW x \in S
  PROVE  /\ Total(g, S) = g[x] + Total(g, S \ {x})
         /\ Total(g, S \ {x}) \in Nat
<1>1. PICK it : Adds(it, g, S) /\ Total(g, S) = it[S]
  BY TotalParts
<1>2. S \ {x} \in SUBSET S
  OBVIOUS
<1>3. it[S] = g[x] + it[S \ {x}] /\ it[S \ {x}] \in Nat
  BY <1>1, <1>2 DEF Adds
<1>4. it[S \ {x}] = Total(g, S \ {x})
  BY <1>1, <1>2, AddsTotal
<1> QED
  BY <1>1, <1>3, <1>4

\* Totals of disjoint sets add up.
LEMMA TotalUnion ==
  ASSUME NEW A, NEW B, IsFiniteSet(A), IsFiniteSet(B), A \cap B = {},
         NEW g, \A x \in A \cup B : g[x] \in Nat
  PROVE  Total(g, A \cup B) = Total(g, A) + Total(g, B)
<1> DEFINE K == {k \in Nat : \A U \in SUBSET B : Cardinality(U) = k =>
                   Total(g, A \cup U) = Total(g, A) + Total(g, U)}
<1>1. \A U \in SUBSET B : IsFiniteSet(U) /\ Cardinality(U) \in Nat
                          /\ (Cardinality(U) = 0 <=> U = {})
  BY FS_Subset, FS_CardinalityType, FS_EmptySet
<1>2. Total(g, A) \in Nat
  BY TotalParts
<1>3. 0 \in K
  <2>1. \A U \in SUBSET B : Cardinality(U) = 0 => Total(g, A \cup U) = Total(g, A) + Total(g, U)
    <3> SUFFICES ASSUME NEW U \in SUBSET B, Cardinality(U) = 0
                 PROVE  Total(g, A \cup U) = Total(g, A) + Total(g, U)
      OBVIOUS
    <3>1. U = {} /\ A \cup U = A
      BY <1>1
    <3> QED
      BY <1>2, <3>1, TotalEmpty
  <2> QED
    BY <2>1
<1>4. ASSUME NEW k \in Nat, k \in K PROVE k + 1 \in K
  <2>1. ASSUME NEW U \in SUBSET B, Cardinality(U) = k + 1
        PROVE  Total(g, A \cup U) = Total(g, A) + Total(g, U)
    <3>1. PICK x \in U : TRUE
      BY <1>1, <2>1
    <3> DEFINE V == U \ {x}
    <3>2. Cardinality(V) = k /\ V \in SUBSET B /\ IsFiniteSet(U)
      BY <1>1, <2>1, OneLess
    <3>3. Total(g, A \cup V) = Total(g, A) + Total(g, V)
      BY <1>4, <3>2
    <3>4. Total(g, U) = g[x] + Total(g, V) /\ Total(g, V) \in Nat
      BY <3>2, TotalOneMore
    <3>5. (A \cup U) \ {x} = A \cup V /\ IsFiniteSet(A \cup U)
      <4>1. x \notin A
        OBVIOUS
      <4> QED
        BY <3>2, <4>1, FS_Union
    <3>6. Total(g, A \cup U) = g[x] + Total(g, (A \cup U) \ {x})
      <4>1. x \in A \cup U /\ \A y \in A \cup U : g[y] \in Nat
        OBVIOUS
      <4> QED
        BY <3>5, <4>1, TotalOneMore
    <3>7. g[x] \in Nat
      OBVIOUS
    <3>8. Total(g, A \cup U) = g[x] + Total(g, A \cup V)
      BY <3>5, <3>6
    <3> HIDE DEF V
    <3> QED
      BY <1>2, <3>3, <3>4, <3>7, <3>8
  <2> QED
    BY <2>1
<1> HIDE DEF K
<1>5. Cardinality(B) \in K
  BY <1>1, <1>3, <1>4, NatSet
<1> QED
  BY <1>5 DEF K

\* More members with no less to each have no less in total.
LEMMA TotalGrows ==
  ASSUME NEW A, NEW B, A \subseteq B, IsFiniteSet(B), NEW g, NEW h,
         \A x \in A : g[x] \in Nat /\ g[x] <= h[x], \A x \in B : h[x] \in Nat
  PROVE  Total(g, A) <= Total(h, B)
<1> DEFINE K == {k \in Nat : \A U \in SUBSET A : Cardinality(U) = k => Total(g, U) <= Total(h, U)}
<1>1. \A U \in SUBSET A : IsFiniteSet(U) /\ Cardinality(U) \in Nat
                          /\ (Cardinality(U) = 0 <=> U = {})
  BY FS_Subset, FS_CardinalityType, FS_EmptySet
<1>2. 0 \in K
  <2>1. \A U \in SUBSET A : Cardinality(U) = 0 => Total(g, U) <= Total(h, U)
    BY <1>1, TotalEmpty
  <2> QED
    BY <2>1
<1>3. ASSUME NEW k \in Nat, k \in K PROVE k + 1 \in K
  <2>1. ASSUME NEW U \in SUBSET A, Cardinality(U) = k + 1
        PROVE  Total(g, U) <= Total(h, U)
    <3>1. PICK x \in U : TRUE
      BY <1>1, <2>1
    <3>2. Cardinality(U \ {x}) = k /\ U \ {x} \in SUBSET A /\ IsFiniteSet(U)
      BY <1>1, <2>1, OneLess
    <3>3. Total(g, U \ {x}) <= Total(h, U \ {x})
      BY <1>3, <3>2
    <3>4. Total(g, U) = g[x] + Total(g, U \ {x}) /\ Total(g, U \ {x}) \in Nat
      BY <3>2, TotalOneMore
    <3>5. Total(h, U) = h[x] + Total(h, U \ {x}) /\ Total(h, U \ {x}) \in Nat
      BY <3>2, TotalOneMore
    <3>6. g[x] \in Nat /\ h[x] \in Nat /\ g[x] <= h[x]
      OBVIOUS
    <3> QED
      BY <3>3, <3>4, <3>5, <3>6
  <2> QED
    BY <2>1
<1> HIDE DEF K
<1>4. Total(g, A) <= Total(h, A)
  <2>1. Cardinality(A) \in K
    BY <1>1, <1>2, <1>3, NatSet
  <2> QED
    BY <2>1 DEF K
<1>5. A \cup (B \ A) = B /\ A \cap (B \ A) = {} /\ IsFiniteSet(B \ A) /\ IsFiniteSet(A)
  BY FS_Subset
<1>6. Total(h, B) = Total(h, A) + Total(h, B \ A)
  <2> DEFINE D == B \ A
  <2>1. \A x \in A \cup D : h[x] \in Nat
    OBVIOUS
  <2>2. A \cup D = B /\ A \cap D = {} /\ IsFiniteSet(D) /\ IsFiniteSet(A)
    BY <1>5
  <2> HIDE DEF D
  <2>3. Total(h, A \cup D) = Total(h, A) + Total(h, D)
    BY <2>1, <2>2, TotalUnion
  <2> QED
    BY <2>2, <2>3 DEF D
<1>7. Total(g, A) \in Nat /\ Total(h, A) \in Nat /\ Total(h, B \ A) \in Nat
  BY <1>5, TotalParts
<1> QED
  BY <1>4, <1>6, <1>7

LEMMA SumsTotal ==
  ASSUME NEW S, IsFiniteSet(S), NEW g, \A x \in S : g[x] \in Nat, NEW it, Sums(it, g, S)
  PROVE  it[S] = Total(g, S)
BY SumsAdd, AddsTotal
-----------------------------------------------------------------------------
(* What the estimate sums up. *)
CharsOf == [r \in Rows |-> r.chars]
BlockTokens(R) == [p \in Papers |-> Tokens(BlockChars(Of(R, p)))]

\* The length of a block is that of its rows and the joiners between them.
LEMMA BlockLength ==
  ASSUME NEW R \in SUBSET Rows, IsFiniteSet(R)
  PROVE  BlockChars(R) = Total(CharsOf, R) + 2 * (Cardinality(R) - 1)
<1> DEFINE M(it) == it = [T \in SUBSET R |->
              IF T = {} THEN 0
              ELSE (CHOOSE x \in T : TRUE).chars + it[T \ {CHOOSE x \in T : TRUE}]]
           S == MapThenSumSet(LAMBDA r : r.chars, R)
<1>1. S = (CHOOSE it : M(it))[R]
  BY DEF MapThenSumSet, MapThenFoldSet
<1>2. ASSUME NEW it PROVE M(it) <=> Sums(it, CharsOf, R)
  <2>1. \A T \in SUBSET R : T # {} => CharsOf[CHOOSE x \in T : TRUE] = (CHOOSE x \in T : TRUE).chars
    BY DEF CharsOf
  <2>2. [T \in SUBSET R |->
            IF T = {} THEN 0
            ELSE (CHOOSE x \in T : TRUE).chars + it[T \ {CHOOSE x \in T : TRUE}]]
        = [T \in SUBSET R |->
            IF T = {} THEN 0
            ELSE CharsOf[CHOOSE x \in T : TRUE] + it[T \ {CHOOSE x \in T : TRUE}]]
    BY <2>1
  <2> QED
    BY <2>2 DEF Sums
<1> HIDE DEF M
<1>3. PICK it : M(it) /\ S = it[R]
  <2>1. \E it : M(it)
    BY <1>2, SumsExist
  <2> QED
    BY <1>1, <2>1
<1>4. \A r \in R : CharsOf[r] \in Nat
  BY DEF CharsOf, Rows
<1>5. S = Total(CharsOf, R)
  BY <1>2, <1>3, <1>4, SumsTotal
<1> QED
  BY <1>5 DEF BlockChars, JoinerChars

LEMMA RowsTotal ==
  ASSUME NEW R \in SUBSET Rows, IsFiniteSet(R)
  PROVE  /\ \A r \in R : CharsOf[r] \in Nat
         /\ Total(CharsOf, R) \in Nat
         /\ Cardinality(R) \in Nat
         /\ R # {} => Cardinality(R) >= 1
<1>1. \A r \in R : CharsOf[r] \in Nat
  BY DEF CharsOf, Rows
<1>2. Cardinality(R) \in Nat /\ (Cardinality(R) = 0 <=> R = {})
  BY FS_CardinalityType, FS_EmptySet
<1> QED
  BY <1>1, <1>2, TotalParts

\* A block grows with its rows.
LEMMA BlockGrows ==
  ASSUME NEW B \in SUBSET Rows, IsFiniteSet(B), NEW A \in SUBSET B, A # {}
  PROVE  /\ BlockChars(A) \in Nat
         /\ BlockChars(B) \in Nat
         /\ Tokens(BlockChars(A)) \in Nat
         /\ Tokens(BlockChars(B)) \in Nat
         /\ Tokens(BlockChars(A)) <= Tokens(BlockChars(B))
<1>1. IsFiniteSet(A) /\ A \in SUBSET Rows /\ B # {} /\ Cardinality(A) <= Cardinality(B)
  BY FS_Subset
<1>2. Total(CharsOf, A) <= Total(CharsOf, B)
  BY <1>1, RowsTotal, TotalGrows
<1>3. /\ Total(CharsOf, A) \in Nat /\ Cardinality(A) \in Nat /\ Cardinality(A) >= 1
      /\ Total(CharsOf, B) \in Nat /\ Cardinality(B) \in Nat /\ Cardinality(B) >= 1
  BY <1>1, RowsTotal
<1>4. /\ BlockChars(A) = Total(CharsOf, A) + 2 * (Cardinality(A) - 1)
      /\ BlockChars(B) = Total(CharsOf, B) + 2 * (Cardinality(B) - 1)
  BY <1>1, BlockLength
<1>5. BlockChars(A) \in Nat /\ BlockChars(B) \in Nat /\ BlockChars(A) <= BlockChars(B)
  BY <1>1, <1>2, <1>3, <1>4
<1> QED
  BY <1>5 DEF Tokens

LEMMA PapersOf ==
  ASSUME NEW R \in SUBSET Rows
  PROVE  /\ PapersIn(R) \subseteq Papers
         /\ IsFiniteSet(PapersIn(R))
         /\ Cardinality(PapersIn(R)) \in Nat
         /\ R # {} => PapersIn(R) # {}
         /\ \A p \in PapersIn(R) : Of(R, p) # {} /\ Of(R, p) \in SUBSET R
<1>1. PapersIn(R) \subseteq Papers
  BY DEF PapersIn, Rows
<1>2. IsFiniteSet(PapersIn(R)) /\ Cardinality(PapersIn(R)) \in Nat
  BY <1>1, SynthesizerAssumption, FS_Subset, FS_CardinalityType
<1> QED
  BY <1>1, <1>2 DEF PapersIn, Of

LEMMA BlocksTotal ==
  ASSUME NEW R \in SUBSET Rows, IsFiniteSet(R)
  PROVE  /\ \A p \in PapersIn(R) : BlockTokens(R)[p] = Tokens(BlockChars(Of(R, p)))
                                   /\ BlockTokens(R)[p] \in Nat
         /\ Total(BlockTokens(R), PapersIn(R)) \in Nat
<1>1. ASSUME NEW p \in PapersIn(R)
      PROVE  /\ BlockTokens(R)[p] = Tokens(BlockChars(Of(R, p)))
             /\ BlockTokens(R)[p] \in Nat
  <2>1. BlockTokens(R)[p] = Tokens(BlockChars(Of(R, p)))
    BY PapersOf DEF BlockTokens
  <2>2. Of(R, p) # {} /\ Of(R, p) \in SUBSET Rows /\ IsFiniteSet(Of(R, p))
    BY PapersOf, FS_Subset
  <2> QED
    BY <2>1, <2>2, BlockGrows
<1> QED
  BY <1>1, PapersOf, TotalParts

\* The estimate is the template's, the header's and one of each paper's block.
LEMMA PackedTotal ==
  ASSUME NEW R \in SUBSET Rows, IsFiniteSet(R), R # {}
  PROVE  Packed(R) = BaseChars \div 4 + 9 + Total(BlockTokens(R), PapersIn(R))
<1> DEFINE P == PapersIn(R)
           t(p) == Tokens(BlockChars(Of(R, p)))
           M(it) == it = [T \in SUBSET P |->
              IF T = {} THEN 0
              ELSE t(CHOOSE x \in T : TRUE) + it[T \ {CHOOSE x \in T : TRUE}]]
           S == MapThenSumSet(LAMBDA p : Tokens(BlockChars(Of(R, p))), P)
<1>1. S = (CHOOSE it : M(it))[P]
  BY DEF MapThenSumSet, MapThenFoldSet
<1>2. \A p \in P : BlockTokens(R)[p] = t(p) /\ BlockTokens(R)[p] \in Nat
  BY BlocksTotal
<1>3. IsFiniteSet(P) /\ Cardinality(P) \in Nat
  BY PapersOf
<1> HIDE DEF P, t
<1>4. ASSUME NEW it PROVE M(it) <=> Sums(it, BlockTokens(R), P)
  <2>1. \A T \in SUBSET P : T # {} => BlockTokens(R)[CHOOSE x \in T : TRUE] = t(CHOOSE x \in T : TRUE)
    BY <1>2
  <2>2. [T \in SUBSET P |->
            IF T = {} THEN 0
            ELSE t(CHOOSE x \in T : TRUE) + it[T \ {CHOOSE x \in T : TRUE}]]
        = [T \in SUBSET P |->
            IF T = {} THEN 0
            ELSE BlockTokens(R)[CHOOSE x \in T : TRUE] + it[T \ {CHOOSE x \in T : TRUE}]]
    BY <2>1
  <2> QED
    BY <2>2 DEF Sums
<1> HIDE DEF M
<1>5. PICK it : M(it) /\ S = it[P]
  <2>1. \E it : M(it)
    BY <1>3, <1>4, SumsExist
  <2> QED
    BY <1>1, <2>1
<1>6. S = Total(BlockTokens(R), P)
  BY <1>2, <1>3, <1>4, <1>5, SumsTotal
<1>7. Packed(R) = Tokens(BaseChars) + Tokens(HeaderChars) + S
                  + (Cardinality(P) - 1) * Tokens(JoinerChars)
  BY DEF Packed, P
<1>8. Tokens(HeaderChars) = 9 /\ Tokens(JoinerChars) = 0 /\ Tokens(BaseChars) = BaseChars \div 4
  BY DEF Tokens, HeaderChars, JoinerChars
<1>9. S \in Nat
  BY <1>6, BlocksTotal DEF P
<1>10. (Cardinality(P) - 1) * Tokens(JoinerChars) = 0
  BY <1>3, <1>8
<1>11. BaseChars \div 4 \in Nat
  BY SynthesizerAssumption
<1> HIDE DEF S
<1>12. Packed(R) = BaseChars \div 4 + 9 + S
  BY <1>7, <1>8, <1>9, <1>10, <1>11
<1> QED
  BY <1>6, <1>12 DEF P

\* The estimate grows with the evidence: what fits goes on to fit when rows are left
\* out, so that a paper which did not fit beside some others never will beside more.
THEOREM LeavingOutFits == EstimateGrows
<1> SUFFICES ASSUME NEW S \in Stores, NEW B \in SUBSET S, NEW A \in SUBSET B, Fits(B)
             PROVE  Fits(A)
  BY DEF EstimateGrows
<1>1. /\ B \in SUBSET Rows /\ A \in SUBSET Rows
      /\ IsFiniteSet(B) /\ IsFiniteSet(A)
  BY SynthesizerAssumption, FS_Subset
<1>2. BaseChars \div 4 \in Nat /\ Budget \in Nat
  BY SynthesizerAssumption
<1>3. CASE B = {}
  BY <1>3 
<1>4. CASE B # {} /\ A = {}
  <2>1. Packed(A) = BaseChars \div 4
    BY <1>4 DEF Packed, Tokens
  <2>2. Packed(B) = BaseChars \div 4 + 9 + Total(BlockTokens(B), PapersIn(B))
    BY <1>1, <1>4, PackedTotal
  <2>3. Total(BlockTokens(B), PapersIn(B)) \in Nat
    BY <1>1, BlocksTotal
  <2> QED
    BY <1>2, <2>1, <2>2, <2>3 DEF Fits
<1>5. CASE A # {}
  <2>1. Packed(A) = BaseChars \div 4 + 9 + Total(BlockTokens(A), PapersIn(A))
    BY <1>1, <1>5, PackedTotal
  <2>2. Packed(B) = BaseChars \div 4 + 9 + Total(BlockTokens(B), PapersIn(B))
    BY <1>1, <1>5, PackedTotal
  <2>3. PapersIn(A) \subseteq PapersIn(B)
    BY DEF PapersIn
  <2>4. ASSUME NEW p \in PapersIn(A)
        PROVE  BlockTokens(A)[p] \in Nat /\ BlockTokens(A)[p] <= BlockTokens(B)[p]
    <3>1. Of(A, p) # {} /\ Of(A, p) \in SUBSET Of(B, p) /\ Of(B, p) \in SUBSET B
      BY DEF Of, PapersIn
    <3>2. Of(B, p) \in SUBSET Rows /\ IsFiniteSet(Of(B, p))
      BY <1>1, <3>1, FS_Subset
    <3>3. Tokens(BlockChars(Of(A, p))) <= Tokens(BlockChars(Of(B, p)))
      BY <3>1, <3>2, BlockGrows
    <3> QED
      BY <1>1, <2>3, <3>3, BlocksTotal
  <2>5. /\ \A p \in PapersIn(B) : BlockTokens(B)[p] \in Nat
        /\ IsFiniteSet(PapersIn(B))
        /\ Total(BlockTokens(A), PapersIn(A)) \in Nat
        /\ Total(BlockTokens(B), PapersIn(B)) \in Nat
    BY <1>1, BlocksTotal, PapersOf
  <2>6. Total(BlockTokens(A), PapersIn(A)) <= Total(BlockTokens(B), PapersIn(B))
    BY <2>3, <2>4, <2>5, TotalGrows
  <2> QED
    BY <1>2, <2>1, <2>2, <2>5, <2>6 DEF Fits
<1> QED
  BY <1>3, <1>4, <1>5

RowsOf(P, R) == {r \in R : r.paper \in P}

\* Rounded down on its own, a paper's part of the prompt loses at most five
\* characters: three of the block, and the joiner to the next.
LEMMA PartsLose ==
  ASSUME NEW R \in SUBSET Rows, IsFiniteSet(R)
  PROVE  Total(CharsOf, R) + 2 * Cardinality(R)
           <= 4 * Total(BlockTokens(R), PapersIn(R)) + 5 * Cardinality(PapersIn(R))
<1> DEFINE P == PapersIn(R)
           t == BlockTokens(R)
           Less(U) == Total(CharsOf, RowsOf(U, R)) + 2 * Cardinality(RowsOf(U, R))
                        <= 4 * Total(t, U) + 5 * Cardinality(U)
           K == {k \in Nat : \A U \in SUBSET P : Cardinality(U) = k => Less(U)}
<1>1. IsFiniteSet(P)
  BY PapersOf
<1>2. \A U \in SUBSET P : IsFiniteSet(U) /\ Cardinality(U) \in Nat
                          /\ (Cardinality(U) = 0 <=> U = {})
  BY <1>1, FS_Subset, FS_CardinalityType, FS_EmptySet
<1>3. \A p \in P : t[p] \in Nat /\ t[p] = Tokens(BlockChars(Of(R, p)))
  BY BlocksTotal
<1>4. ASSUME NEW U
      PROVE  /\ RowsOf(U, R) \in SUBSET Rows /\ IsFiniteSet(RowsOf(U, R))
             /\ Total(CharsOf, RowsOf(U, R)) \in Nat /\ Cardinality(RowsOf(U, R)) \in Nat
  <2>1. RowsOf(U, R) \in SUBSET Rows /\ RowsOf(U, R) \subseteq R
    BY DEF RowsOf
  <2>2. IsFiniteSet(RowsOf(U, R))
    BY <2>1, FS_Subset
  <2> QED
    BY <2>1, <2>2, RowsTotal
<1>5. \A U \in SUBSET P : Total(t, U) \in Nat
  BY <1>2, <1>3, TotalParts
<1>6. 0 \in K
  <2>1. Less({})
    <3>1. RowsOf({}, R) = {}
      BY DEF RowsOf
    <3> QED
      BY <3>1, TotalEmpty, FS_EmptySet
  <2> HIDE DEF Less
  <2> QED
    BY <1>2, <2>1
<1>7. ASSUME NEW k \in Nat, k \in K PROVE k + 1 \in K
  <2>1. ASSUME NEW U \in SUBSET P, Cardinality(U) = k + 1
        PROVE  Less(U)
    <3>1. PICK p \in U : TRUE
      BY <1>2, <2>1
    <3> DEFINE V == U \ {p}
               A == RowsOf(V, R)
               B == Of(R, p)
    <3>2. Cardinality(V) = k /\ V \in SUBSET P /\ p \in P
      BY <1>2, <2>1, OneLess
    <3>3. Less(V)
      BY <1>7, <3>2
    <3>4. Total(t, U) = t[p] + Total(t, V)
      <4>1. IsFiniteSet(U) /\ \A x \in U : t[x] \in Nat
        BY <1>2, <1>3
      <4> HIDE DEF t
      <4> QED
        BY <4>1, TotalOneMore
    <3>5. RowsOf(U, R) = A \cup B /\ A \cap B = {} /\ B \in SUBSET R
      BY DEF RowsOf, Of
    <3>6. IsFiniteSet(B) /\ B \in SUBSET Rows
      BY <3>5, FS_Subset
    <3>7. /\ IsFiniteSet(A) /\ A \in SUBSET Rows
          /\ Total(CharsOf, A) \in Nat /\ Cardinality(A) \in Nat
      BY <1>4
    <3>8. /\ Total(CharsOf, B) \in Nat /\ Cardinality(B) \in Nat
          /\ \A r \in B : CharsOf[r] \in Nat
          /\ \A r \in A : CharsOf[r] \in Nat
      BY <3>6, <3>7, RowsTotal
    <3>9. B # {}
      BY <3>2 DEF Of, PapersIn
    <3>10. t[p] = Tokens(BlockChars(B)) /\ t[p] \in Nat
      BY <1>3, <3>2
    <3>11. BlockChars(B) = Total(CharsOf, B) + 2 * (Cardinality(B) - 1) /\ BlockChars(B) \in Nat
      BY <3>6, <3>9, BlockLength, BlockGrows
    <3>12. Total(t, V) \in Nat
      BY <1>5, <3>2
    <3> HIDE DEF A, B, V, t
    <3>13. Total(CharsOf, RowsOf(U, R)) = Total(CharsOf, A) + Total(CharsOf, B)
      <4>1. Total(CharsOf, A \cup B) = Total(CharsOf, A) + Total(CharsOf, B)
        BY <3>5, <3>6, <3>7, <3>8, TotalUnion
      <4> QED
        BY <3>5, <4>1
    <3>14. Cardinality(RowsOf(U, R)) = Cardinality(A) + Cardinality(B)
      <4>1. Cardinality(A \cup B) = Cardinality(A) + Cardinality(B) - Cardinality(A \cap B)
        BY <3>6, <3>7, FS_Union
      <4>2. Cardinality(A \cap B) = 0
        BY <3>5, FS_EmptySet
      <4>3. Cardinality(A \cup B) = Cardinality(A) + Cardinality(B)
        BY <3>7, <3>8, <4>1, <4>2
      <4> QED
        BY <3>5, <4>3
    <3>15. Total(CharsOf, B) + 2 * Cardinality(B) <= 4 * t[p] + 5
      <4>1. BlockChars(B) <= 4 * (BlockChars(B) \div 4) + 3
        BY <3>11
      <4> QED
        BY <3>8, <3>10, <3>11, <4>1 DEF Tokens
    <3>16. Total(CharsOf, A) + 2 * Cardinality(A) <= 4 * Total(t, V) + 5 * k
      BY <3>2, <3>3 DEF A
    <3> QED
      BY <2>1, <3>4, <3>7, <3>8, <3>10, <3>12, <3>13, <3>14, <3>15, <3>16
  <2> HIDE DEF Less
  <2> QED
    BY <2>1
<1> HIDE DEF K
<1>8. Cardinality(P) \in K
  BY <1>2, <1>6, <1>7, NatSet
<1>9. Less(P)
  BY <1>8 DEF K
<1>10. RowsOf(P, R) = R
  BY DEF RowsOf, PapersIn
<1> QED
  BY <1>9, <1>10

\* A prompt that is packed into the budget exceeds it by the rounding at most.
LEMMA PromptBounded ==
  ASSUME NEW R \in SUBSET Rows, IsFiniteSet(R), R # {}, Fits(R)
  PROVE  Prompt(R) <= Budget + (5 * Cardinality(PapersIn(R)) + 2) \div 4
<1> DEFINE c == Total(CharsOf, R)
           m == Cardinality(R)
           n == Cardinality(PapersIn(R))
           t == Total(BlockTokens(R), PapersIn(R))
           b == BaseChars \div 4
<1>1. c \in Nat /\ m \in Nat /\ m >= 1 /\ n \in Nat /\ t \in Nat
  BY RowsTotal, PapersOf, BlocksTotal
<1>2. c + 2 * m <= 4 * t + 5 * n
  BY PartsLose
<1>3. b + 9 + t <= Budget
  BY PackedTotal DEF Fits
<1>4. Prompt(R) = (BaseChars + 37 + (c + 2 * (m - 1))) \div 4
  BY BlockLength DEF Prompt, Tokens, HeaderChars
<1>5. b \in Nat /\ Budget \in Nat /\ BaseChars \in Nat /\ BaseChars <= 4 * b + 3
  BY SynthesizerAssumption
<1> HIDE DEF c, m, n, t, b
<1>6. BaseChars + 37 + (c + 2 * (m - 1)) <= 4 * Budget + (5 * n + 2)
  BY <1>1, <1>2, <1>3, <1>5
<1>7. (BaseChars + 37 + (c + 2 * (m - 1))) \div 4 <= Budget + (5 * n + 2) \div 4
  <2> DEFINE x == BaseChars + 37 + (c + 2 * (m - 1))
             y == 5 * n + 2
  <2>1. x \in Nat /\ y \in Nat /\ x <= 4 * Budget + y
    BY <1>1, <1>5, <1>6
  <2> HIDE DEF x, y
  <2>2. x \div 4 <= Budget + y \div 4
    BY <1>5, <2>1
  <2> QED
    BY <2>2 DEF x, y
<1> QED
  BY <1>4, <1>7 DEF n
-----------------------------------------------------------------------------
(* The node. *)
\* What is true of an extract x of section s from when it is written.
Sound(s, x) ==
  /\ \A ref \in x.refs : /\ \A e \in ref.ids : \E r \in Read(s) : r.id = e /\ r.paper \in x.cited
                         /\ ref.papers \cap x.told = {}
  /\ \A ref \in x.synthesis : ref.papers = PapersIn({r \in Read(s) : r.id \in ref.ids})
  /\ ~ x.missing => /\ x.cited \cup x.told = PapersIn(Read(s))
                    /\ x.cited \cap x.told = {}
  /\ x.missing => \A p \in PapersIn(Read(s)) : ~ Fits(Of(Read(s), p))

AllSound == \A s \in Sections : extracts[s] # NoExtract => Sound(s, extracts[s])

Pool ==
  pc \in {"pack", "ask"} =>
    /\ idx \in 1..Len(outline)
    /\ items \subseteq Read(Cur)
    /\ PapersIn(items) \cup rest \cup dropped = PapersIn(Read(Cur))
    /\ PapersIn(items) \cap rest = {}
    /\ PapersIn(items) \cap dropped = {}
    /\ rest \cap dropped = {}
    /\ items # {} => Fits(items)
    /\ items = {} => \A p \in dropped : ~ Fits(Of(Read(Cur), p))
    /\ pc = "ask" => rest = {} /\ items # {}

\* The section at position i is over.
Over(i) == i < idx \/ (i = idx /\ pc \in {"section", "done"})

\* There is no extract of the evidence section s has.
Lacking(s) == extracts[s] = NoExtract \/ (extracts[s].missing /\ Read(s) # {})

Marked == \A i \in 1..Len(outline) : Over(i) /\ Lacking(outline[i]) => lastErr # NoCategory

IInv == /\ TypeOK
        /\ AllSound
        /\ Pool
        /\ Marked
        /\ pc = "done" => idx = Len(outline) /\ noted = lastErr

LEMMA OutlineType == ASSUME TypeOK
                     PROVE  /\ Len(outline) \in Nat
                            /\ \A i \in 1..Len(outline) : outline[i] \in Sections
BY SynthesizerAssumption DEF TypeOK

\* The rows of a section are rows of the table, with ids of their own.
LEMMA StoreRows ==
  ASSUME TypeOK
  PROVE  /\ \A r \in store : r \in Rows
         /\ \A r, s \in store : r.id = s.id => r = s
BY SynthesizerAssumption DEF TypeOK

LEMMA EmptySound ==
  ASSUME NEW s, \A p \in PapersIn(Read(s)) : ~ Fits(Of(Read(s), p))
  PROVE  EmptyOutput \in Extracts /\ Sound(s, EmptyOutput)
BY DEF EmptyOutput, Extracts, Sound

\* An answer that passes the layers cites what the section has and accounts for
\* all of its papers.
LEMMA AcceptedSound ==
  ASSUME TypeOK, Pool, pc = "ask", NEW x \in Accepted
  PROVE  x \in Extracts /\ ~ x.missing /\ Sound(Cur, x)
<1>1. PICK c \in Claims, f \in PaperFacts, m \in MatrixRows, t \in Taxonomies, y \in Syntheses :
        x = [cited |-> PapersIn(items), refs |-> c \cup f \cup m \cup t \cup y, synthesis |-> y,
             missing |-> FALSE, told |-> AddGaps(dropped)]
  BY DEF Accepted
<1>2. /\ c \subseteq Refs /\ f \subseteq Refs /\ m \subseteq Refs
      /\ t \subseteq Refs /\ y \subseteq Refs
  BY SynthesizerAssumption DEF Claims, PaperFacts, MatrixRows, Taxonomies, Syntheses
<1>3. \A ref \in x.refs : Shown(ref)
  BY <1>1 DEF Claims, PaperFacts, MatrixRows, Taxonomies, Syntheses
<1>4. /\ items \subseteq Read(Cur)
      /\ PapersIn(items) \cup dropped = PapersIn(Read(Cur))
      /\ PapersIn(items) \cap dropped = {}
  BY DEF Pool
<1>5. PapersIn(items) \subseteq Papers
  BY StoreRows DEF PapersIn, Rows, TypeOK
<1>6. x \in Extracts /\ ~ x.missing
  BY <1>1, <1>2, <1>5 DEF Extracts, AddGaps, TypeOK
<1>7. ASSUME NEW ref \in x.refs
      PROVE  /\ \A e \in ref.ids : \E r \in Read(Cur) : r.id = e /\ r.paper \in x.cited
             /\ ref.papers \cap x.told = {}
  <2>1. ref.papers \subseteq PapersIn(items) /\ ref.ids \subseteq {r.id : r \in items}
    BY <1>3 DEF Shown
  <2>2. ASSUME NEW e \in ref.ids
        PROVE  \E r \in Read(Cur) : r.id = e /\ r.paper \in x.cited
    <3>1. PICK r \in items : r.id = e
      BY <2>1
    <3>2. r.paper \in PapersIn(items)
      BY DEF PapersIn
    <3> QED
      BY <1>1, <1>4, <3>1, <3>2
  <2>3. x.told = dropped
    BY <1>1 DEF AddGaps
  <2> QED
    BY <1>4, <2>1, <2>2, <2>3
<1>8. ASSUME NEW ref \in x.synthesis
      PROVE  ref.papers = PapersIn({r \in Read(Cur) : r.id \in ref.ids})
  <2>1. ref \in y /\ Shown(ref) /\ Owned(ref)
    BY <1>1 DEF Syntheses
  <2>2. ASSUME NEW r \in Read(Cur), r.id \in ref.ids
        PROVE  r \in items
    <3>1. PICK z \in items : z.id = r.id
      BY <2>1, <2>2 DEF Shown
    <3> QED
      BY <3>1, <1>4, StoreRows DEF Read
  <2>3. {r \in Read(Cur) : r.id \in ref.ids} = {r \in items : r.id \in ref.ids}
    BY <1>4, <2>2
  <2> QED
    BY <2>1, <2>3 DEF Owned, Owners
<1>9. x.cited = PapersIn(items) /\ x.told = dropped
  BY <1>1 DEF AddGaps
<1> QED
  BY <1>4, <1>6, <1>7, <1>8, <1>9 DEF Sound

\* Writing a sound extract, marking the run if it lacks evidence there is.
LEMMA WriteStep ==
  ASSUME IInv, NEW i \in 1..Len(outline), NEW x \in Extracts,
         Sound(outline[i], x), Write(outline[i], x),
         x.missing /\ Read(outline[i]) # {} => lastErr' # NoCategory,
         lastErr' # lastErr => lastErr' # NoCategory,
         lastErr' \in Categories \cup {NoCategory},
         idx' = i, pc' = "section",
         \A j \in 1..Len(outline) : j < i => Over(j),
         UNCHANGED <<input, section, noted>>
  PROVE  IInv'
<1>1. outline[i] \in Sections /\ i \in 0..Len(outline)
  BY OutlineType DEF IInv
<1>2. /\ extracts' \in [Sections -> Extracts \cup {NoExtract}]
      /\ extracts'[outline[i]] = x
      /\ \A s \in Sections : s # outline[i] => extracts'[s] = extracts[s]
  BY <1>1 DEF Write, IInv, TypeOK
<1>3. TypeOK'
  BY <1>1, <1>2 DEF IInv, TypeOK, input, section
<1>4. x # NoExtract
  BY SynthesizerAssumption DEF Extracts
<1>5. \A s, y : Sound(s, y)' <=> Sound(s, y)
  BY DEF Sound, Read, input
<1>6. AllSound'
  <2>1. ASSUME NEW s \in Sections, extracts'[s] # NoExtract
        PROVE  Sound(s, extracts'[s])
    BY <1>2, <2>1 DEF IInv, AllSound
  <2> QED
    BY <2>1 DEF AllSound, Sound, Read, input
<1>7. Marked'
  <2> SUFFICES ASSUME NEW j \in 1..Len(outline), j <= i,
                      \/ extracts'[outline[j]] = NoExtract
                      \/ extracts'[outline[j]].missing /\ Read(outline[j]) # {}
               PROVE  lastErr' # NoCategory
    BY DEF Marked, Over, Lacking, Read, input
  <2>1. CASE outline[j] = outline[i]
    BY <1>2, <1>4, <2>1
  <2>2. CASE outline[j] # outline[i]
    <3>1. j < i /\ outline[j] \in Sections
      BY <2>2, OutlineType DEF IInv
    <3>2. extracts'[outline[j]] = extracts[outline[j]]
      BY <1>2, <2>2, <3>1
    <3>3. lastErr # NoCategory
      BY <3>1, <3>2 DEF IInv, Marked, Lacking
    <3> QED
      BY <3>3
  <2> QED
    BY <2>1, <2>2
<1> QED
  BY <1>3, <1>6, <1>7 DEF IInv, Pool

\* A section that is given up leaves the extracts alone and marks the run.
LEMMA GiveUpStep ==
  ASSUME IInv, pc = "ask", NEW category \in Categories, GiveUp(category)
  PROVE  IInv'
<1>1. /\ lastErr' = category /\ category # NoCategory /\ pc' = "section"
      /\ UNCHANGED <<outline, store, extracts, idx, items, rest, dropped, attempt, noted>>
  BY SynthesizerAssumption DEF GiveUp, Mark, Categories, input, section
<1>2. TypeOK'
  BY <1>1 DEF IInv, TypeOK
<1>3. AllSound'
  BY <1>1 DEF IInv, AllSound, Sound, Read
<1>4. Marked'
  BY <1>1 DEF Marked
<1> QED
  BY <1>1, <1>2, <1>3, <1>4 DEF IInv, Pool

LEMMA PackPaperStep == ASSUME IInv, PackPaper
                       PROVE  IInv'
<1>1. PICK p \in Best :
        LET candidate == items \cup Of(Read(Cur), p) IN
        IF Fits(candidate)
        THEN items' = candidate /\ rest' = rest \ {p} /\ UNCHANGED dropped
        ELSE Reject(p)
  BY DEF PackPaper
<1>2. /\ pc = "pack" /\ p \in rest
      /\ UNCHANGED <<outline, store, extracts, pc, idx, attempt, lastErr, noted>>
  BY DEF PackPaper, Best, input
<1>3. /\ idx \in 1..Len(outline) /\ items \subseteq Read(Cur)
      /\ PapersIn(items) \cup rest \cup dropped = PapersIn(Read(Cur))
      /\ PapersIn(items) \cap rest = {} /\ PapersIn(items) \cap dropped = {}
      /\ rest \cap dropped = {}
      /\ items # {} => Fits(items)
      /\ items = {} => \A q \in dropped : ~ Fits(Of(Read(Cur), q))
  BY <1>2 DEF IInv, Pool
<1>4. /\ Of(Read(Cur), p) \subseteq Read(Cur)
      /\ Of(Read(Cur), p) # {}
      /\ PapersIn(Of(Read(Cur), p)) = {p}
  BY <1>2, <1>3 DEF Of, PapersIn
<1>5. Read(Cur) \subseteq store
  BY DEF Read
<1>6. /\ Read(Cur)' = Read(Cur) /\ Cur' = Cur
      /\ \A q : Of(Read(Cur), q)' = Of(Read(Cur), q)
  BY <1>2 DEF Read, Cur, Of
<1>7. AllSound' /\ Marked'
  BY <1>2 DEF IInv, AllSound, Sound, Read, Marked, Over, Lacking
<1>8. CASE Fits(items \cup Of(Read(Cur), p))
  <2>1. /\ items' = items \cup Of(Read(Cur), p) /\ rest' = rest \ {p} /\ dropped' = dropped
    BY <1>1, <1>8
  <2>2. PapersIn(items') = PapersIn(items) \cup {p}
    BY <1>4, <2>1 DEF PapersIn
  <2>3. items' # {} /\ Fits(items')
    BY <1>4, <1>8, <2>1
  <2>4. TypeOK'
    BY <1>2, <1>4, <1>5, <2>1 DEF IInv, TypeOK
  <2>5. /\ PapersIn(items') \cup rest' \cup dropped' = PapersIn(Read(Cur))
        /\ PapersIn(items') \cap rest' = {}
        /\ PapersIn(items') \cap dropped' = {}
        /\ rest' \cap dropped' = {}
    BY <1>2, <1>3, <2>1, <2>2
  <2>6. Pool'
    <3>1. items' \subseteq Read(Cur)
      BY <1>3, <1>4, <2>1
    <3> QED
      BY <1>2, <1>3, <1>6, <2>3, <2>5, <3>1 DEF Pool
  <2> QED
    BY <1>2, <1>7, <2>4, <2>6 DEF IInv
<1>9. CASE ~ Fits(items \cup Of(Read(Cur), p))
  <2>1. /\ items' = items /\ rest' = rest \ {p} /\ dropped' = dropped \cup {p}
    BY <1>1, <1>9 DEF Reject
  <2>2. TypeOK'
    BY <1>2, <2>1 DEF IInv, TypeOK
  <2>3. items = {} => ~ Fits(Of(Read(Cur), p))
    <3>1. items = {} => items \cup Of(Read(Cur), p) = Of(Read(Cur), p)
      OBVIOUS
    <3> QED
      BY <1>9, <3>1
  <2> QED
    BY <1>2, <1>3, <1>6, <1>7, <2>1, <2>2, <2>3 DEF IInv, Pool
<1> QED
  BY <1>8, <1>9

LEMMA NextSectionStep == ASSUME IInv, NextSection
                         PROVE  IInv'
<1> DEFINE s == outline[idx + 1]
           all == Read(s)
<1>1. /\ pc = "section" /\ idx < Len(outline) /\ idx' = idx + 1
      /\ dropped' = {} /\ attempt' = 1 /\ all # {}
      /\ UNCHANGED <<outline, store, extracts, lastErr, noted>>
  BY DEF NextSection, input
<1>2. \/ Fits(all) /\ pc' = "ask" /\ items' = all /\ rest' = {}
      \/ pc' = "pack" /\ items' = {} /\ rest' = PapersIn(all)
  BY DEF NextSection
<1>3. /\ idx + 1 \in 1..Len(outline) /\ idx \in Nat /\ Len(outline) \in Nat
      /\ all \subseteq store
  BY <1>1, OutlineType DEF IInv, TypeOK, Read
<1>4. PapersIn(all) \subseteq Papers
  BY <1>3, StoreRows DEF IInv, PapersIn, Rows
<1>5. Cur' = s /\ Read(Cur)' = all
  BY <1>1 DEF Cur, Read
<1>6. PapersIn({}) = {}
  BY DEF PapersIn
<1>7. TypeOK'
  <2>1. idx' \in 0..Len(outline)
    BY <1>1, <1>3
  <2> HIDE DEF all
  <2> QED
    BY <1>1, <1>2, <1>3, <1>4, <2>1 DEF IInv, TypeOK
<1>8. AllSound'
  BY <1>1 DEF IInv, AllSound, Sound, Read
<1>9. Marked'
  <2>1. ASSUME NEW i \in 1..Len(outline), Over(i)'
        PROVE  Over(i)
    BY <1>1, <1>2, <1>3, <2>1 DEF Over
  <2> QED
    BY <1>1, <2>1 DEF IInv, Marked, Lacking, Read
<1> HIDE DEF all
<1>10. Pool'
  BY <1>1, <1>2, <1>3, <1>5, <1>6 DEF Pool
<1> QED
  BY <1>1, <1>2, <1>7, <1>8, <1>9, <1>10 DEF IInv

LEMMA InitIInv == Init => IInv
<1> SUFFICES ASSUME Init PROVE IInv
  OBVIOUS
<1>1. Len(outline) \in Nat
  BY SynthesizerAssumption DEF Init
<1>2. TypeOK
  BY <1>1 DEF Init, TypeOK
<1> QED
  BY <1>1, <1>2 DEF Init, IInv, AllSound, Pool, Marked, Over

LEMMA Inductive == Spec => []IInv
<1>1. IInv /\ [Next]_vars => IInv'
  <2> SUFFICES ASSUME IInv, [Next]_vars PROVE IInv'
    OBVIOUS
  <2>1. CASE EmptySection
    <3>1. /\ pc = "section" /\ idx < Len(outline) /\ idx' = idx + 1 /\ pc' = "section"
          /\ Read(outline[idx + 1]) = {} /\ Write(outline[idx + 1], EmptyOutput)
          /\ UNCHANGED <<input, section, lastErr, noted>>
      BY <2>1 DEF EmptySection
    <3>2. idx + 1 \in 1..Len(outline) /\ idx \in Nat
      BY <3>1, OutlineType DEF IInv, TypeOK
    <3>3. EmptyOutput \in Extracts /\ Sound(outline[idx + 1], EmptyOutput)
      BY <3>1, EmptySound DEF PapersIn
    <3>4. \A j \in 1..Len(outline) : j < idx + 1 => Over(j)
      BY <3>1, <3>2 DEF Over
    <3> QED
      BY <3>1, <3>2, <3>3, <3>4, WriteStep DEF IInv, TypeOK
  <2>2. CASE NextSection
    BY <2>2, NextSectionStep
  <2>3. CASE PackPaper
    BY <2>3, PackPaperStep
  <2>4. CASE PackedEnough
    BY <2>4 DEF PackedEnough, Packing, IInv, TypeOK, AllSound, Sound, Read, Cur, Of, Pool,
                Marked, Over, Lacking, input, section
  <2>5. CASE Overflow
    <3>1. /\ pc = "pack" /\ rest = {} /\ pc' = "section" /\ idx' = idx
          /\ items = {} \/ ~ Fits(items)
          /\ Write(outline[idx], EmptyOutput)
          /\ lastErr' = "context_overflow"
          /\ UNCHANGED <<input, section, noted>>
      BY <2>5 DEF Overflow, Packing, Mark, Cur
    <3>2. idx \in 1..Len(outline) /\ idx' = idx
      BY <3>1 DEF IInv, Pool
    <3>3. \A p \in PapersIn(Read(Cur)) : ~ Fits(Of(Read(Cur), p))
      <4>1. items = {} /\ PapersIn({}) = {}
        BY <3>1 DEF IInv, Pool, PapersIn
      <4> QED
        BY <3>1, <4>1 DEF IInv, Pool
    <3>4. EmptyOutput \in Extracts /\ Sound(outline[idx], EmptyOutput)
      BY <3>3, EmptySound DEF Cur
    <3>5. \A j \in 1..Len(outline) : j < idx => Over(j)
      BY DEF Over
    <3>6. lastErr' \in Categories /\ lastErr' # NoCategory
      BY <3>1, SynthesizerAssumption DEF Categories
    <3> QED
      BY <3>1, <3>2, <3>4, <3>5, <3>6, WriteStep
  <2>6. CASE AskAccepted
    <3>1. /\ pc = "ask" /\ pc' = "section" /\ idx' = idx
          /\ UNCHANGED <<input, section, lastErr, noted>>
      BY <2>6 DEF AskAccepted
    <3>2. PICK x \in Accepted : Write(outline[idx], x)
      BY <2>6 DEF AskAccepted, Cur
    <3>3. idx \in 1..Len(outline)
      BY <3>1 DEF IInv, Pool
    <3>4. x \in Extracts /\ ~ x.missing /\ Sound(outline[idx], x)
      BY <3>1, AcceptedSound DEF IInv, Cur
    <3>5. \A j \in 1..Len(outline) : j < idx => Over(j)
      BY DEF Over
    <3>6. lastErr' \in Categories \cup {NoCategory}
      BY <3>1 DEF IInv, TypeOK
    <3> QED
      BY <3>1, <3>2, <3>3, <3>4, <3>5, <3>6, WriteStep
  <2>7. CASE AskRepaired
    BY <2>7 DEF AskRepaired, MayRepair, CountAttempt, IInv, TypeOK, AllSound, Sound, Read, Cur,
                Of, Pool, Marked, Over, Lacking, input
  <2>8. CASE AskRejected
    BY <2>8, GiveUpStep DEF AskRejected, Categories
  <2>9. CASE AskFails
    <3>1. PICK c \in Transport : GiveUp(c)
      BY <2>9 DEF AskFails
    <3> QED
      BY <2>9, <3>1, GiveUpStep DEF AskFails, Transport, Categories
  <2>10. CASE AskRaises
    BY <2>10 DEF AskRaises, IInv, TypeOK, AllSound, Sound, Read, Pool, Marked, Over, Lacking,
                 input, section
  <2>11. CASE Finish
    BY <2>11 DEF Finish, IInv, TypeOK, AllSound, Sound, Read, Pool, Marked, Over, Lacking,
                 input, section
  <2>12. CASE UNCHANGED vars
    BY <2>12 DEF vars, IInv, TypeOK, AllSound, Sound, Read, Cur, Of, Pool, Marked, Over, Lacking,
                 input, section
  <2> QED
    BY <2>1, <2>2, <2>3, <2>4, <2>5, <2>6, <2>7, <2>8, <2>9, <2>10, <2>11, <2>12
    DEF Next, Step, Done
<1> QED
  BY InitIInv, <1>1, PTL DEF Spec

\* The variables keep their types.
THEOREM TypeCorrect == Spec => []TypeOK
<1>1. IInv => TypeOK
  BY DEF IInv
<1> QED
  BY <1>1, Inductive, PTL

\* Extracts cite only evidence the store holds for their section, of papers that
\* were not dropped.
THEOREM ExtractsAreGrounded == Spec => []ExtractsGrounded
<1>1. IInv => ExtractsGrounded
  BY DEF IInv, AllSound, Sound, ExtractsGrounded
<1> QED
  BY <1>1, Inductive, PTL

\* The papers of a cross-paper claim are the papers of the evidence it cites.
THEOREM SynthesesAreBacked == Spec => []SynthesisBacked
<1>1. IInv => SynthesisBacked
  BY DEF IInv, AllSound, Sound, SynthesisBacked
<1> QED
  BY <1>1, Inductive, PTL

\* Every paper of a section is cited or reported as dropped, and never both.
THEOREM PapersAreAccounted == Spec => []PapersAccounted
<1>1. IInv => PapersAccounted
  BY DEF IInv, AllSound, Sound, PapersAccounted
<1> QED
  BY <1>1, Inductive, PTL

\* Packing gives a section up only if no paper of it fits alone.
THEOREM EmptiedForWantOfRoom ==
  Spec => [](\A s \in Sections : extracts[s] # NoExtract /\ extracts[s].missing =>
                \A p \in PapersIn(Read(s)) : ~ Fits(Of(Read(s), p)))
<1>1. IInv => \A s \in Sections : extracts[s] # NoExtract /\ extracts[s].missing =>
                \A p \in PapersIn(Read(s)) : ~ Fits(Of(Read(s), p))
  BY DEF IInv, AllSound, Sound
<1> QED
  BY <1>1, Inductive, PTL

\* A section with evidence and no extract of it leaves a category on the run.
THEOREM FailuresAreNoted == Spec => []FailureIsNoted
<1>1. IInv => FailureIsNoted
  BY OutlineType DEF IInv, Marked, Over, Lacking, FailureIsNoted
<1> QED
  BY <1>1, Inductive, PTL

\* What the extracts say of sections: those that are not planned have none, an
\* extract that is not marked as missing cites a paper, and a section without
\* evidence always gets one.
Told ==
  /\ \A s \in Sections \ Planned(outline) : extracts[s] = NoExtract
  /\ \A s \in Sections : extracts[s] # NoExtract =>
       (extracts[s].missing <=> extracts[s].cited = {})
  /\ \A i \in 1..Len(outline) :
       Over(i) /\ Read(outline[i]) = {} => extracts[outline[i]] # NoExtract
  /\ pc \in {"pack", "ask"} => Read(Cur) # {}

\* Writing the extract of a planned section keeps Told.
LEMMA WriteTold ==
  ASSUME IInv, Told, NEW i \in 1..Len(outline), NEW x, x # NoExtract,
         x.missing <=> x.cited = {}, Write(outline[i], x),
         idx' = i, pc' = "section", UNCHANGED input,
         \A j \in 1..Len(outline) : j < i => Over(j)
  PROVE  Told'
<1>1. outline[i] \in Sections /\ outline[i] \in Planned(outline)
  BY OutlineType, SynthesizerAssumption DEF IInv, TypeOK, Planned
<1>2. /\ extracts'[outline[i]] = x
      /\ \A s \in Sections : s # outline[i] => extracts'[s] = extracts[s]
  BY <1>1 DEF Write, IInv, TypeOK
<1>3. UNCHANGED <<outline, store>>
  BY DEF input
<1>4. \A s \in Sections \ Planned(outline) : extracts'[s] = NoExtract
  BY <1>1, <1>2 DEF Told
<1>5. \A s \in Sections : extracts'[s] # NoExtract =>
         (extracts'[s].missing <=> extracts'[s].cited = {})
  BY <1>2 DEF Told
<1>6. ASSUME NEW j \in 1..Len(outline), Over(j)', Read(outline[j]) = {}
      PROVE  extracts'[outline[j]] # NoExtract
  <2>1. j < i \/ outline[j] = outline[i]
    BY <1>6 DEF Over
  <2>2. CASE outline[j] = outline[i]
    BY <1>2, <2>2
  <2>3. CASE outline[j] # outline[i]
    BY <1>2, <1>6, <2>1, <2>3, OutlineType DEF Told, IInv
  <2> QED
    BY <2>2, <2>3
<1>7. (\A j \in 1..Len(outline) :
         Over(j) /\ Read(outline[j]) = {} => extracts[outline[j]] # NoExtract)'
  BY <1>3, <1>6 DEF Read
<1> QED
  BY <1>3, <1>4, <1>5, <1>7 DEF Told

\* Steps that write no extract and leave no section but one with evidence.
LEMMA QuietTold ==
  ASSUME IInv, Told, UNCHANGED <<outline, store, extracts>>,
         \A i \in 1..Len(outline) : Over(i)' => Over(i) \/ Read(outline[i]) # {},
         pc' \in {"pack", "ask"} => Read(Cur)' # {}
  PROVE  Told'
<1>1. \A s : Read(s)' = Read(s)
  BY DEF Read
<1> QED
  BY <1>1 DEF Told

LEMMA EmptyIsEmpty ==
  EmptyOutput # NoExtract /\ (EmptyOutput.missing <=> EmptyOutput.cited = {})
<1>1. EmptyOutput \in Extracts
  BY DEF EmptyOutput, Extracts
<1>2. EmptyOutput.missing /\ EmptyOutput.cited = {}
  BY DEF EmptyOutput
<1> QED
  BY <1>1, <1>2, SynthesizerAssumption DEF Extracts

LEMMA AlwaysTold == Spec => []Told
<1>1. Init => Told
  <2> SUFFICES ASSUME Init PROVE Told
    OBVIOUS
  <2>1. \A i \in 1..Len(outline) : ~ Over(i)
    BY SynthesizerAssumption DEF Init, Over
  <2> QED
    BY <2>1 DEF Init, Told, Planned
<1>2. IInv /\ Told /\ [Next]_vars => Told'
  <2> SUFFICES ASSUME IInv, Told, [Next]_vars PROVE Told'
    OBVIOUS
  <2>0. Len(outline) \in Nat /\ idx \in Nat
    BY OutlineType DEF IInv, TypeOK
  <2>1. CASE EmptySection
    <3>1. /\ idx + 1 \in 1..Len(outline) /\ idx' = idx + 1 /\ pc = "section"
          /\ pc' = "section" /\ Write(outline[idx + 1], EmptyOutput)
          /\ UNCHANGED input
      BY <2>0, <2>1 DEF EmptySection
    <3>2. \A j \in 1..Len(outline) : j < idx + 1 => Over(j)
      BY <2>0, <3>1 DEF Over
    <3> QED
      BY <3>1, <3>2, EmptyIsEmpty, WriteTold
  <2>2. CASE NextSection
    <3>1. /\ pc = "section" /\ idx' = idx + 1 /\ pc' \in {"pack", "ask"}
          /\ Read(outline[idx + 1]) # {}
          /\ UNCHANGED <<outline, store, extracts>>
      BY <2>2 DEF NextSection, input
    <3>2. \A i \in 1..Len(outline) : Over(i)' => Over(i)
      BY <2>0, <3>1 DEF Over
    <3>3. Read(Cur)' = Read(outline[idx + 1])
      BY <3>1 DEF Read, Cur
    <3> QED
      BY <3>1, <3>2, <3>3, QuietTold
  <2>3. CASE PackPaper \/ PackedEnough \/ AskRepaired
    <3>1. /\ pc \in {"pack", "ask"} /\ UNCHANGED <<outline, store, extracts, idx>>
          /\ pc' \in {"pack", "ask"}
      BY <2>3 DEF PackPaper, PackedEnough, Packing, AskRepaired, input
    <3>2. Read(Cur)' = Read(Cur)
      BY <3>1 DEF Read, Cur
    <3>3. \A i \in 1..Len(outline) : Over(i)' => Over(i)
      BY <3>1 DEF Over
    <3> QED
      BY <3>1, <3>2, <3>3, QuietTold DEF Told
  <2>4. CASE Overflow \/ AskAccepted
    <3>1. /\ pc \in {"pack", "ask"} /\ pc' = "section" /\ idx' = idx /\ UNCHANGED input
      BY <2>4 DEF Overflow, Packing, AskAccepted
    <3>2. idx \in 1..Len(outline)
      BY <3>1 DEF IInv, Pool
    <3>3. \E x : /\ x # NoExtract /\ (x.missing <=> x.cited = {})
                 /\ Write(outline[idx], x)
      <4>1. CASE Overflow
        BY <4>1, EmptyIsEmpty DEF Overflow, Cur
      <4>2. CASE AskAccepted
        <5>1. PICK x \in Accepted : Write(outline[idx], x)
          BY <4>2 DEF AskAccepted, Cur
        <5>2. x \in Extracts /\ ~ x.missing
          BY <4>2, AcceptedSound DEF AskAccepted, IInv
        <5>3. x.cited = PapersIn(items) /\ items # {}
          BY <4>2 DEF Accepted, AskAccepted, IInv, Pool
        <5>4. x.cited # {}
          BY <5>3 DEF PapersIn
        <5> QED
          BY <5>1, <5>2, <5>4, SynthesizerAssumption DEF Extracts
      <4> QED
        BY <2>4, <4>1, <4>2
    <3>4. \A j \in 1..Len(outline) : j < idx => Over(j)
      BY DEF Over
    <3> QED
      BY <3>1, <3>2, <3>3, <3>4, WriteTold
  <2>5. CASE AskRejected \/ AskFails
    <3>1. /\ pc = "ask" /\ pc' = "section" /\ UNCHANGED <<outline, store, extracts, idx>>
      BY <2>5 DEF AskRejected, AskFails, GiveUp, input
    <3>2. \A i \in 1..Len(outline) : Over(i)' => Over(i) \/ Read(outline[i]) # {}
      BY <2>0, <3>1 DEF Over, Told, Cur
    <3> QED
      BY <3>1, <3>2, QuietTold
  <2>6. CASE AskRaises \/ Finish \/ UNCHANGED vars
    <3>1. /\ pc' \notin {"pack", "ask"} \/ (pc' = pc /\ idx' = idx)
          /\ UNCHANGED <<outline, store, extracts>>
      BY <2>6 DEF AskRaises, Finish, vars, input
    <3>2. \A i \in 1..Len(outline) : Over(i)' => Over(i)
      BY <2>6 DEF AskRaises, Finish, vars, Over
    <3>3. pc' \in {"pack", "ask"} => Read(Cur)' # {}
      BY <3>1 DEF Told, Read, Cur
    <3> QED
      BY <3>1, <3>2, <3>3, QuietTold
  <2> QED
    BY <2>1, <2>2, <2>3, <2>4, <2>5, <2>6 DEF Next, Step, Done
<1> QED
  BY <1>1, <1>2, Inductive, PTL DEF Spec

\* Every planned section has an extract that tells of each of its papers, or the run
\* has a category; other sections have none.
THEOREM DeliversAsPromised == Spec => []Delivers
<1>1. IInv /\ Told => Delivers
  <2> SUFFICES ASSUME IInv, Told, pc = "done", NEW s \in Sections
               PROVE  IF s \in Planned(outline)
                      THEN SynthDelivers(PapersWithEvidence(store, s), extracts[s],
                                         NoExtract, noted, NoCategory)
                      ELSE extracts[s] = NoExtract
    BY DEF Delivers
  <2>1. CASE s \notin Planned(outline)
    BY <2>1 DEF Told
  <2>2. CASE s \in Planned(outline)
    <3>1. PICK i \in 1..Len(outline) : outline[i] = s
      BY <2>2, SynthesizerAssumption DEF Planned, IInv, TypeOK
    <3>2. Over(i)
      BY OutlineType DEF IInv, Over
    <3>3. Lacking(s) => noted # NoCategory
      BY <3>1, <3>2 DEF IInv, Marked
    <3>4. PapersWithEvidence(store, s) = PapersIn(Read(s))
      BY DEF PapersWithEvidence, PapersIn, Read
    <3>5. PapersIn(Read(s)) # {} <=> Read(s) # {}
      BY DEF PapersIn
    <3>6. CASE extracts[s] = NoExtract
      BY <3>1, <3>2, <3>3, <3>4, <3>5, <3>6, <2>2 DEF Told, Lacking, SynthDelivers
    <3>7. CASE extracts[s] # NoExtract /\ extracts[s].missing
      BY <3>3, <3>4, <3>5, <3>7, <2>2 DEF Lacking, SynthDelivers
    <3>8. CASE extracts[s] # NoExtract /\ ~ extracts[s].missing
      BY <3>4, <3>8, <2>2 DEF Told, IInv, AllSound, Sound, SynthDelivers
    <3> QED
      BY <3>6, <3>7, <3>8
  <2> QED
    BY <2>1, <2>2
<1> QED
  BY <1>1, Inductive, AlwaysTold, PTL

\* While a section is packed: papers go in as a whole, and those dropped so far did
\* not fit beside what is in.
Needed ==
  pc \in {"pack", "ask"} =>
    /\ items = RowsOf(PapersIn(items), Read(Cur))
    /\ \A p \in dropped : ~ Fits(RowsOf(PapersIn(items) \cup {p}, Read(Cur)))

\* The same of the extracts that tell of dropped papers.
ToldNeeded ==
  \A s \in Sections : extracts[s] # NoExtract /\ ~ extracts[s].missing =>
    \A p \in extracts[s].told : ~ Fits(RowsOf(extracts[s].cited \cup {p}, Read(s)))

LEMMA PackNeeded ==
  ASSUME IInv, Needed, PackPaper
  PROVE  Needed'
<1>1. PICK p \in Best :
        LET candidate == items \cup Of(Read(Cur), p) IN
        IF Fits(candidate)
        THEN items' = candidate /\ rest' = rest \ {p} /\ UNCHANGED dropped
        ELSE Reject(p)
  BY DEF PackPaper
<1>2. /\ pc = "pack" /\ pc' = "pack" /\ p \in rest
      /\ UNCHANGED <<outline, store, idx>>
  BY DEF PackPaper, Best, input
<1>3. Read(Cur)' = Read(Cur)
  BY <1>2 DEF Read, Cur
<1>4. items \cup Of(Read(Cur), p) = RowsOf(PapersIn(items) \cup {p}, Read(Cur))
  BY <1>2 DEF Needed, RowsOf, Of
<1>5. CASE Fits(items \cup Of(Read(Cur), p))
  <2>1. items' = items \cup Of(Read(Cur), p) /\ dropped' = dropped
    BY <1>1, <1>5
  <2>2. PapersIn(items') = PapersIn(items) \cup {p}
    <3>1. Of(Read(Cur), p) # {}
      BY <1>2 DEF IInv, Pool, Of, PapersIn
    <3> QED
      BY <2>1, <3>1 DEF PapersIn, Of
  <2>3. items' = RowsOf(PapersIn(items'), Read(Cur))
    BY <1>4, <2>1, <2>2
  <2>4. ASSUME NEW q \in dropped
        PROVE  ~ Fits(RowsOf(PapersIn(items') \cup {q}, Read(Cur)))
    <3>1. ~ Fits(RowsOf(PapersIn(items) \cup {q}, Read(Cur)))
      BY <1>2 DEF Needed
    <3>2. RowsOf(PapersIn(items) \cup {q}, Read(Cur))
            \subseteq RowsOf(PapersIn(items') \cup {q}, Read(Cur))
      BY <2>2 DEF RowsOf
    <3>3. RowsOf(PapersIn(items') \cup {q}, Read(Cur)) \subseteq store /\ store \in Stores
      BY DEF RowsOf, Read, IInv, TypeOK
    <3> QED
      BY <3>1, <3>2, <3>3, LeavingOutFits DEF EstimateGrows
  <2> QED
    BY <1>3, <2>1, <2>3, <2>4 DEF Needed, RowsOf
<1>6. CASE ~ Fits(items \cup Of(Read(Cur), p))
  <2>1. items' = items /\ dropped' = dropped \cup {p}
    BY <1>1, <1>6 DEF Reject
  <2>2. items' = RowsOf(PapersIn(items'), Read(Cur))
    BY <1>2, <2>1 DEF Needed
  <2>3. \A q \in dropped' : ~ Fits(RowsOf(PapersIn(items') \cup {q}, Read(Cur)))
    BY <1>2, <1>4, <1>6, <2>1 DEF Needed
  <2> QED
    BY <1>3, <2>2, <2>3 DEF Needed, RowsOf
<1> QED
  BY <1>5, <1>6

LEMMA AlwaysNeeded == Spec => [](Needed /\ ToldNeeded)
<1>1. Init => Needed /\ ToldNeeded
  BY DEF Init, Needed, ToldNeeded
<1>2. IInv /\ Needed /\ ToldNeeded /\ [Next]_vars => Needed' /\ ToldNeeded'
  <2> SUFFICES ASSUME IInv, Needed, ToldNeeded, [Next]_vars PROVE Needed' /\ ToldNeeded'
    OBVIOUS
  <2>1. CASE PackPaper
    <3>1. UNCHANGED <<extracts, store>>
      BY <2>1 DEF PackPaper, input
    <3> QED
      BY <2>1, <3>1, PackNeeded DEF ToldNeeded, RowsOf, Read
  <2>2. CASE NextSection
    <3>1. /\ UNCHANGED <<extracts, store, outline>> /\ dropped' = {}
          /\ idx' = idx + 1
          /\ items' \in {Read(outline[idx + 1]), {}}
      BY <2>2 DEF NextSection, input
    <3>2. Read(Cur)' = Read(outline[idx + 1])
      BY <3>1 DEF Read, Cur
    <3>3. items' = RowsOf(PapersIn(items'), Read(Cur)')
      BY <3>1, <3>2 DEF RowsOf, PapersIn
    <3>4. Needed'
      BY <3>1, <3>3 DEF Needed
    <3>5. ToldNeeded'
      BY <3>1 DEF ToldNeeded, RowsOf, Read
    <3> QED
      BY <3>4, <3>5
  <2>3. CASE PackedEnough \/ AskRepaired \/ UNCHANGED vars
    <3>1. /\ UNCHANGED <<extracts, store, outline, idx, items, dropped>>
          /\ pc' \in {"pack", "ask"} => pc \in {"pack", "ask"}
      BY <2>3 DEF PackedEnough, Packing, AskRepaired, vars, input, section
    <3> QED
      BY <3>1 DEF Needed, ToldNeeded, RowsOf, Read, Cur, PapersIn
  <2>4. CASE EmptySection \/ Overflow
    <3>1. /\ pc' = "section" /\ UNCHANGED store
          /\ \E s \in Sections : Write(s, EmptyOutput)
      <4>1. CASE EmptySection
        BY <4>1, OutlineType DEF EmptySection, IInv, TypeOK, input
      <4>2. CASE Overflow
        BY <4>2, OutlineType DEF Overflow, Packing, IInv, Pool, Cur, input
      <4> QED
        BY <2>4, <4>1, <4>2
    <3>2. EmptyOutput.missing
      BY DEF EmptyOutput
    <3> QED
      BY <3>1, <3>2 DEF Write, Needed, ToldNeeded, RowsOf, Read, IInv, TypeOK
  <2>5. CASE AskAccepted
    <3>1. /\ pc = "ask" /\ pc' = "section" /\ UNCHANGED store /\ Cur \in Sections
      BY <2>5, OutlineType DEF AskAccepted, IInv, Pool, Cur, input
    <3>2. PICK x \in Accepted : Write(Cur, x)
      BY <2>5 DEF AskAccepted
    <3>3. x.cited = PapersIn(items) /\ x.told = dropped
      BY <3>2 DEF Accepted, AddGaps
    <3>4. \A p \in x.told : ~ Fits(RowsOf(x.cited \cup {p}, Read(Cur)))
      BY <3>1, <3>3 DEF Needed
    <3>5. /\ extracts'[Cur] = x
          /\ \A s \in Sections : s # Cur => extracts'[s] = extracts[s]
      BY <3>1, <3>2 DEF Write, IInv, TypeOK
    <3>6. ASSUME NEW s \in Sections, extracts'[s] # NoExtract, ~ extracts'[s].missing
          PROVE  \A p \in extracts'[s].told :
                    ~ Fits(RowsOf(extracts'[s].cited \cup {p}, Read(s)))
      BY <3>4, <3>5, <3>6 DEF ToldNeeded
    <3> QED
      BY <3>1, <3>6 DEF Needed, ToldNeeded, RowsOf, Read
  <2>6. CASE AskRejected \/ AskFails \/ AskRaises \/ Finish
    <3>1. pc' \notin {"pack", "ask"} /\ UNCHANGED <<extracts, store>>
      BY <2>6 DEF AskRejected, AskFails, GiveUp, AskRaises, Finish, input
    <3> QED
      BY <3>1 DEF Needed, ToldNeeded, RowsOf, Read
  <2> QED
    BY <2>1, <2>2, <2>3, <2>4, <2>5, <2>6 DEF Next, Step, Done
<1> QED
  BY <1>1, <1>2, Inductive, PTL DEF Spec

\* No paper is lost to the budget that would still fit beside the ones that were
\* kept, however the papers are ranked: _top_k_rerank never drops too much.
THEOREM DropsAreNeeded == Spec => []DropsNeeded
<1>1. IInv /\ Told /\ ToldNeeded => DropsNeeded
  <2> SUFFICES ASSUME IInv, Told, ToldNeeded,
                      NEW s \in Sections, extracts[s] # NoExtract, NEW p \in Lost(s)
               PROVE  ~ Fits({r \in Read(s) : r.paper \in extracts[s].cited \cup {p}})
    BY DEF DropsNeeded
  <2>1. CASE extracts[s].missing
    <3>1. ~ Fits(Of(Read(s), p))
      BY <2>1 DEF IInv, AllSound, Sound, Lost
    <3>2. extracts[s].cited = {}
      BY <2>1 DEF Told
    <3>3. {r \in Read(s) : r.paper \in extracts[s].cited \cup {p}} = Of(Read(s), p)
      BY <3>2 DEF Of
    <3> QED
      BY <3>1, <3>3
  <2>2. CASE ~ extracts[s].missing
    BY <2>2 DEF ToldNeeded, RowsOf, Lost
  <2> QED
    BY <2>1, <2>2
<1> QED
  BY <1>1, Inductive, AlwaysTold, AlwaysNeeded, PTL

\* What is sent to the model exceeds the budget by the rounding of the accounting
\* at most: five characters for each paper and two, whatever the rows' lengths.
THEOREM OverrunBounded == Spec => []OverrunByRounding
<1>1. IInv => OverrunByRounding
  <2> SUFFICES ASSUME IInv, pc = "ask"
               PROVE  Prompt(items) <= Budget + (5 * Cardinality(PapersIn(items)) + 2) \div 4
    BY DEF OverrunByRounding
  <2>1. items # {} /\ Fits(items)
    BY DEF IInv, Pool
  <2>2. items \in SUBSET Rows /\ IsFiniteSet(items)
    BY SynthesizerAssumption, FS_Subset DEF IInv, TypeOK
  <2> QED
    BY <2>1, <2>2, PromptBounded
<1> QED
  BY <1>1, Inductive, PTL
=============================================================================
