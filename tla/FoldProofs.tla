---- MODULE FoldProofs ----
(***************************************************************************)
(* Facts that the proofs about several components rest on: arithmetic, and *)
(* what the folds of the community modules compute, for sets of any size.  *)
(* A fold is the choice of a recursive function over the subsets of its    *)
(* domain: that there is one follows from the number of elements, and what *)
(* it keeps from a smallest subset that would break it.                    *)
(***************************************************************************)
EXTENDS Integers, Sequences, FiniteSets, FiniteSetsExt, Functions,
        FiniteSetTheorems, WellFoundedInduction, TLAPS

-----------------------------------------------------------------------------
(* Products and quotients.                                                 *)

(* Buying the quotient of a budget by a price never exceeds the budget.    *)
LEMMA QuotientWithinBudget ==
    ASSUME NEW a \in Nat, NEW b \in Nat \ {0}
    PROVE  /\ a \div b \in Nat
           /\ (a \div b) * b <= a
  BY SMT

LEMMA QuotientCovers ==
    ASSUME NEW a \in Nat, NEW b \in Nat \ {0}, NEW n \in Nat, n * b <= a
    PROVE  n <= a \div b
  BY SMT

LEMMA ProductMonotone ==
    ASSUME NEW a \in Nat, NEW b \in Nat, NEW c \in Nat, a <= b
    PROVE  a * c <= b * c
  BY SMT

LEMMA ProductNat ==
    ASSUME NEW a \in Nat, NEW b \in Nat
    PROVE  a * b \in Nat
  BY SMT

LEMMA ProductRegroups ==
    ASSUME NEW a \in Nat, NEW b \in Nat, NEW c \in Nat
    PROVE  a * (b * c) = (a * b) * c
  BY SMT

LEMMA ProductDistributes ==
    ASSUME NEW t \in Int, NEW a \in Int, NEW b \in Int
    PROVE  t * (a + b) = t * a + t * b /\ t * a \in Int
  BY SMT

-----------------------------------------------------------------------------
(* Smallest subsets and greatest numbers.                                  *)

LEMMA SmallestSubset ==
    ASSUME NEW S, IsFiniteSet(S), NEW T, \A A \in T : A \subseteq S, T # {}
    PROVE  \E A \in T : \A B \in T : B \subseteq A => B = A
<1>1. \A s \in SUBSET S : s \in FiniteSubsetsOf(S)
  BY FS_Subset DEF FiniteSubsetsOf
<1>2. IsWellFoundedOn(StrictSubsetOrdering(S), FiniteSubsetsOf(S))
  BY FS_StrictSubsetOrderingWellFounded
<1>3. T \subseteq FiniteSubsetsOf(S)
  BY <1>1
<1>4. PICK A \in T : \A B \in T : <<B, A>> \notin StrictSubsetOrdering(S)
  BY <1>2, <1>3, WFMin
<1>5. ASSUME NEW B \in T, B \subseteq A PROVE B = A
  <2>1. A \in SUBSET S /\ B \in SUBSET S
    OBVIOUS
  <2> QED
    BY <1>4, <1>5, <2>1 DEF StrictSubsetOrdering
<1> QED
  BY <1>5

LEMMA FiniteMax ==
    ASSUME NEW S \in SUBSET Int, IsFiniteSet(S), S # {}
    PROVE  \E m \in S : \A x \in S : x <= m
<1>0. ASSUME NEW T, \A A \in T : A \subseteq S, T # {}
      PROVE  \E A \in T : \A B \in T : B \subseteq A => B = A
  BY <1>0, SmallestSubset
<1> DEFINE Topless == {A \in SUBSET S : A # {} /\ ~\E m \in A : \A x \in A : x <= m}
<1> SUFFICES ASSUME Topless # {} PROVE FALSE
  OBVIOUS
<1>1. PICK A \in Topless : \A B \in Topless : B \subseteq A => B = A
  <2>1. \A A \in Topless : A \subseteq S
    OBVIOUS
  <2>2. Topless # {}
    OBVIOUS
  <2> HIDE DEF Topless
  <2> QED
    BY <1>0, <2>1, <2>2
<1>2. PICK a \in A : TRUE
  OBVIOUS
<1> DEFINE B == A \ {a}
<1>3. B \in SUBSET S /\ B \subseteq A /\ B # A /\ A \in SUBSET Int
  BY <1>2
<1>4. B \notin Topless
  BY <1>1, <1>3
<1>5. CASE B = {}
  BY <1>2, <1>3, <1>5
<1>6. CASE B # {}
  <2>1. PICK m \in B : \A x \in B : x <= m
    BY <1>3, <1>4, <1>6
  <2>2. a \in Int /\ m \in Int
    BY <1>2, <1>3
  <2>3. CASE a <= m
    BY <2>1, <2>2, <2>3
  <2>4. CASE m <= a
    BY <1>2, <1>3, <2>1, <2>2, <2>4
  <2> QED
    BY <2>2, <2>3, <2>4
<1> QED
  BY <1>5, <1>6

LEMMA MaxIs ==
    ASSUME NEW n \in Nat, NEW S \in SUBSET (1..n), S # {}
    PROVE  Max(S) \in S /\ (n \in S => Max(S) = n)
<1>1. IsFiniteSet(S)
  <2>1. IsFiniteSet(1..n)
    BY FS_Interval
  <2> QED
    BY <2>1, FS_Subset
<1>2. PICK m \in S : \A x \in S : x <= m
  BY <1>1, FiniteMax
<1>3. Max(S) \in S /\ \A x \in S : x <= Max(S)
  BY <1>2 DEF Max
<1>4. Max(S) \in 1..n
  BY <1>3
<1>5. ASSUME n \in S PROVE Max(S) = n
  BY <1>3, <1>4, <1>5
<1> QED
  BY <1>3, <1>5

-----------------------------------------------------------------------------
(* Folds.  Picks(S, pick): pick takes an element of every subset of S.     *)

Picks(S, pick) == \A s \in SUBSET S : s # {} => pick[s] \in s

FoldsUpTo(n, S, pick, w, base, step, V) ==
    \E iter \in [{s \in SUBSET S : Cardinality(s) <= n} -> V] :
       \A s \in SUBSET S : Cardinality(s) <= n =>
          iter[s] = IF s = {} THEN base ELSE step[<<iter[s \ {pick[s]}], w[pick[s]]>>]

FoldTable(S, pick, w, base, step, V, iter) ==
    /\ iter \in [SUBSET S -> V]
    /\ \A s \in SUBSET S :
          iter[s] = IF s = {} THEN base ELSE step[<<iter[s \ {pick[s]}], w[pick[s]]>>]

(* Any fold can be computed.                                               *)
LEMMA FoldExists ==
    ASSUME NEW S, IsFiniteSet(S), NEW pick, Picks(S, pick),
           NEW V, NEW W, NEW w, \A i \in S : w[i] \in W,
           NEW base \in V, NEW step \in [V \X W -> V]
    PROVE  \E iter : FoldTable(S, pick, w, base, step, V, iter)
<1>1. /\ Cardinality(S) \in Nat
      /\ \A s \in SUBSET S : /\ IsFiniteSet(s) /\ Cardinality(s) \in Nat
                             /\ Cardinality(s) <= Cardinality(S)
                             /\ (Cardinality(s) <= 0 => s = {})
  <2>1. Cardinality(S) \in Nat
    BY FS_CardinalityType
  <2>2. ASSUME NEW s \in SUBSET S
        PROVE  /\ IsFiniteSet(s) /\ Cardinality(s) \in Nat
               /\ Cardinality(s) <= Cardinality(S)
               /\ (Cardinality(s) <= 0 => s = {})
    <3>1. IsFiniteSet(s) /\ Cardinality(s) <= Cardinality(S)
      BY FS_Subset
    <3>2. Cardinality(s) \in Nat
      BY <3>1, FS_CardinalityType
    <3>3. Cardinality(s) = 0 => s = {}
      BY <3>1, FS_EmptySet
    <3> QED
      BY <3>1, <3>2, <3>3
  <2> QED
    BY <2>1, <2>2
<1>2. FoldsUpTo(0, S, pick, w, base, step, V)
  <2> DEFINE iter == [s \in {t \in SUBSET S : Cardinality(t) <= 0} |-> base]
  <2>1. iter \in [{s \in SUBSET S : Cardinality(s) <= 0} -> V]
    OBVIOUS
  <2>2. \A s \in SUBSET S : Cardinality(s) <= 0 => iter[s] = base /\ s = {}
    BY <1>1
  <2> HIDE DEF iter
  <2> QED
    BY <2>1, <2>2, Zenon DEF FoldsUpTo
<1>3. ASSUME NEW n \in Nat, FoldsUpTo(n, S, pick, w, base, step, V)
      PROVE  FoldsUpTo(n + 1, S, pick, w, base, step, V)
  <2> DEFINE Small(k) == {s \in SUBSET S : Cardinality(s) <= k}
  <2>1. PICK iter \in [Small(n) -> V] : \A s \in SUBSET S : Cardinality(s) <= n =>
           iter[s] = IF s = {} THEN base ELSE step[<<iter[s \ {pick[s]}], w[pick[s]]>>]
    BY <1>3 DEF FoldsUpTo
  <2> DEFINE next == [s \in Small(n + 1) |->
                        IF s = {} THEN base ELSE step[<<iter[s \ {pick[s]}], w[pick[s]]>>]]
  <2>2. ASSUME NEW s \in Small(n + 1), s # {}
        PROVE  pick[s] \in S /\ s \ {pick[s]} \in Small(n)
    <3>1. pick[s] \in s /\ s \in SUBSET S
      BY <2>2 DEF Picks
    <3>2. Cardinality(s \ {pick[s]}) = Cardinality(s) - 1
      BY <1>1, <3>1, FS_RemoveElement
    <3>3. Cardinality(s) \in Nat
      BY <1>1, <3>1
    <3> QED
      BY <3>1, <3>2, <3>3
  <2>3. next \in [Small(n + 1) -> V]
    <3>1. ASSUME NEW s \in Small(n + 1)
          PROVE  (IF s = {} THEN base ELSE step[<<iter[s \ {pick[s]}], w[pick[s]]>>]) \in V
      <4>1. CASE s = {}
        BY <4>1
      <4>2. CASE s # {}
        <5>1. iter[s \ {pick[s]}] \in V /\ w[pick[s]] \in W
          BY <2>1, <2>2, <4>2
        <5> QED
          BY <4>2, <5>1
      <4> QED
        BY <4>1, <4>2
    <3> QED
      BY <3>1
  <2>4. ASSUME NEW s \in Small(n)
        PROVE  s \in Small(n + 1) /\ next[s] = iter[s]
    <3>1. s \in Small(n + 1)
      BY <1>1
    <3>2. next[s] = IF s = {} THEN base ELSE step[<<iter[s \ {pick[s]}], w[pick[s]]>>]
      BY <3>1
    <3> HIDE DEF next
    <3> QED
      BY <2>1, <3>1, <3>2
  <2>5. ASSUME NEW s \in SUBSET S, Cardinality(s) <= n + 1
        PROVE  next[s] = IF s = {} THEN base ELSE step[<<next[s \ {pick[s]}], w[pick[s]]>>]
    <3>1. s \in Small(n + 1)
      BY <2>5
    <3>2. next[s] = IF s = {} THEN base ELSE step[<<iter[s \ {pick[s]}], w[pick[s]]>>]
      BY <3>1
    <3>3. s # {} => next[s \ {pick[s]}] = iter[s \ {pick[s]}]
      BY <2>2, <2>4, <3>1
    <3> HIDE DEF next
    <3> QED
      BY <3>2, <3>3
  <2> HIDE DEF next
  <2> QED
    BY <2>3, <2>5 DEF FoldsUpTo
<1>4. FoldsUpTo(Cardinality(S), S, pick, w, base, step, V)
  <2> DEFINE Good == {n \in 0..Cardinality(S) : FoldsUpTo(n, S, pick, w, base, step, V)}
  <2>1. Good \in SUBSET Int /\ IsFiniteSet(Good) /\ 0 \in Good
    <3>1. IsFiniteSet(0..Cardinality(S))
      BY <1>1, FS_Interval
    <3>2. IsFiniteSet(Good)
      BY <3>1, FS_Subset
    <3> QED
      BY <1>1, <1>2, <3>2
  <2>2. PICK n \in Good : \A m \in Good : m <= n
    <3> HIDE DEF Good
    <3> QED
      BY <2>1, FiniteMax
  <2>3. n \in Nat /\ n <= Cardinality(S) /\ FoldsUpTo(n, S, pick, w, base, step, V)
    BY <1>1
  <2>4. n + 1 \notin Good
    BY <2>2, <2>3
  <2>5. FoldsUpTo(n + 1, S, pick, w, base, step, V)
    BY <1>3, <2>3
  <2>6. n = Cardinality(S)
    BY <1>1, <2>3, <2>4, <2>5
  <2> QED
    BY <2>3, <2>6
<1>5. {s \in SUBSET S : Cardinality(s) <= Cardinality(S)} = SUBSET S
  BY <1>1
<1> QED
  BY <1>1, <1>4, <1>5 DEF FoldsUpTo, FoldTable

(* What holds of the empty set and is kept by each element holds of all.   *)
LEMMA FoldStaysIn ==
    ASSUME NEW S, IsFiniteSet(S), NEW pick, Picks(S, pick), NEW V, NEW iter,
           iter[{}] \in V,
           \A s \in SUBSET S : s # {} /\ iter[s \ {pick[s]}] \in V => iter[s] \in V
    PROVE  \A s \in SUBSET S : iter[s] \in V
<1> DEFINE Out == {s \in SUBSET S : iter[s] \notin V}
<1> SUFFICES ASSUME Out # {} PROVE FALSE
  OBVIOUS
<1>1. PICK A \in Out : \A B \in Out : B \subseteq A => B = A
  <2>1. \A A \in Out : A \subseteq S
    OBVIOUS
  <2> HIDE DEF Out
  <2> QED
    BY <2>1, SmallestSubset
<1>2. A \in SUBSET S /\ A # {} /\ iter[A] \notin V
  OBVIOUS
<1>3. pick[A] \in A
  BY <1>2 DEF Picks
<1>4. A \ {pick[A]} \notin Out
  BY <1>1, <1>3
<1> QED
  BY <1>2, <1>4

(* Folds over sequences take the greatest index last.                      *)
SeqFolds(w, base, step, iter) ==
    iter = [s \in SUBSET DOMAIN w |->
              IF s = {} THEN base ELSE step[<<iter[s \ {Max(s)}], w[Max(s)]>>]]

LEMMA GreatestPicks ==
    ASSUME NEW n \in Nat, NEW S, S = 1..n
    PROVE  IsFiniteSet(S) /\ Picks(S, [s \in SUBSET S |-> Max(s)])
<1>1. IsFiniteSet(S)
  BY FS_Interval
<1>2. \A s \in SUBSET S : s # {} => Max(s) \in s
  BY MaxIs
<1> QED
  BY <1>1, <1>2 DEF Picks

LEMMA SeqFoldExists ==
    ASSUME NEW V, NEW W, NEW w \in Seq(W), NEW base \in V, NEW step \in [V \X W -> V]
    PROVE  \E iter \in [SUBSET DOMAIN w -> V] : SeqFolds(w, base, step, iter)
<1> DEFINE S == DOMAIN w
           pick == [s \in SUBSET S |-> Max(s)]
<1>1. /\ Len(w) \in Nat /\ S = 1..Len(w) /\ \A i \in S : w[i] \in W
  OBVIOUS
<1> HIDE DEF S
<1>2. IsFiniteSet(S) /\ Picks(S, pick)
  BY <1>1, GreatestPicks
<1>3. \A s \in SUBSET S : pick[s] = Max(s)
  OBVIOUS
<1> HIDE DEF pick
<1>4. PICK iter : FoldTable(S, pick, w, base, step, V, iter)
  BY <1>1, <1>2, FoldExists, Zenon
<1>5. ASSUME NEW s \in SUBSET S
      PROVE  iter[s] = IF s = {} THEN base ELSE step[<<iter[s \ {Max(s)}], w[Max(s)]>>]
  BY <1>3, <1>4, Zenon DEF FoldTable
<1>6. iter \in [SUBSET S -> V]
  BY <1>4 DEF FoldTable
<1>7. iter = [s \in SUBSET S |->
                IF s = {} THEN base ELSE step[<<iter[s \ {Max(s)}], w[Max(s)]>>]]
  <2>1. iter = [s \in SUBSET S |-> iter[s]]
    BY <1>6
  <2> QED
    BY <1>5, <2>1, Zenon
<1> QED
  BY <1>6, <1>7, Zenon DEF SeqFolds, S

LEMMA SeqFoldStaysIn ==
    ASSUME NEW V, NEW k \in Nat, NEW iter, iter[{}] \in V,
           \A s \in SUBSET (1..k) : s # {} /\ iter[s \ {Max(s)}] \in V => iter[s] \in V
    PROVE  \A s \in SUBSET (1..k) : iter[s] \in V
<1> DEFINE S == 1..k
           pick == [s \in SUBSET S |-> Max(s)]
<1>1. IsFiniteSet(S) /\ Picks(S, pick)
  BY GreatestPicks
<1>2. \A s \in SUBSET S : pick[s] = Max(s)
  OBVIOUS
<1>3. \A s \in SUBSET S : s # {} /\ iter[s \ {Max(s)}] \in V => iter[s] \in V
  OBVIOUS
<1> HIDE DEF S, pick
<1>4. \A s \in SUBSET S : s # {} /\ iter[s \ {pick[s]}] \in V => iter[s] \in V
  BY <1>2, <1>3, Zenon
<1>5. \A s \in SUBSET S : iter[s] \in V
  BY <1>1, <1>4, FoldStaysIn, Zenon
<1> QED
  BY <1>5 DEF S

-----------------------------------------------------------------------------
(* Sums and products, as the functions over subsets that they choose.      *)

Member(S) == [s \in SUBSET S |-> CHOOSE x \in s : TRUE]

LEMMA MemberPicks ==
    ASSUME NEW S
    PROVE  Picks(S, Member(S))
  BY DEF Picks, Member

Sums(f, S, iter) ==
    iter = [s \in SUBSET S |-> IF s = {} THEN 0
                               ELSE f[Member(S)[s]] + iter[s \ {Member(S)[s]}]]

SumTable(f, S, iter) ==
    /\ iter \in [SUBSET S -> Int]
    /\ iter[{}] = 0
    /\ \A s \in SUBSET S : s # {} =>
          /\ Member(S)[s] \in s
          /\ iter[s] = f[Member(S)[s]] + iter[s \ {Member(S)[s]}]

LEMMA SumIs ==
    ASSUME NEW S, IsFiniteSet(S), NEW f, f \in [S -> Int]
    PROVE  \E iter : SumTable(f, S, iter) /\ SumFunctionOnSet(f, S) = iter[S]
<1> DEFINE iter == CHOOSE i : Sums(f, S, i)
           add == [x \in Int \X Int |-> x[1] + x[2]]
           pick == Member(S)
<1>1. SumFunctionOnSet(f, S) = iter[S]
  <2> DEFINE sum(i) == [s \in SUBSET S |-> IF s = {} THEN 0
                 ELSE f[CHOOSE x \in s : TRUE] + i[s \ {CHOOSE x \in s : TRUE}]]
  <2>1. SumFunctionOnSet(f, S) = (CHOOSE i : i = sum(i))[S]
    BY Zenon DEF SumFunctionOnSet, FoldFunctionOnSet, MapThenFoldSet
  <2>2. ASSUME NEW i PROVE (i = sum(i)) <=> Sums(f, S, i)
    <3>1. \A s \in SUBSET S : Member(S)[s] = CHOOSE x \in s : TRUE
      BY DEF Member
    <3> QED
      BY <3>1, Zenon DEF Sums
  <2> QED
    BY <2>1, <2>2, Zenon
<1>2. Picks(S, pick)
  BY MemberPicks
<1>3. \A s \in SUBSET S : s # {} =>
         pick[s] \in s /\ pick[s] \in S /\ f[pick[s]] \in Int /\ s \ {pick[s]} \in SUBSET S
  BY <1>2 DEF Picks
<1> HIDE DEF pick
<1>4. \E i : Sums(f, S, i)
  <2>1. add \in [Int \X Int -> Int] /\ \A x \in S : f[x] \in Int
    OBVIOUS
  <2> HIDE DEF add
  <2>2. PICK i : FoldTable(S, pick, f, 0, add, Int, i)
    <3>1. 0 \in Int
      OBVIOUS
    <3> QED
      BY <1>2, <2>1, <3>1, FoldExists, Zenon
  <2>3. ASSUME NEW s \in SUBSET S
        PROVE  i[s] = IF s = {} THEN 0 ELSE f[pick[s]] + i[s \ {pick[s]}]
    <3>1. s # {} => add[<<i[s \ {pick[s]}], f[pick[s]]>>] = f[pick[s]] + i[s \ {pick[s]}]
      BY <1>3, <2>2 DEF add, FoldTable
    <3>2. i[s] = IF s = {} THEN 0 ELSE add[<<i[s \ {pick[s]}], f[pick[s]]>>]
      BY <2>2, Zenon DEF FoldTable
    <3> QED
      BY <3>1, <3>2
  <2>4. i = [s \in SUBSET S |-> IF s = {} THEN 0 ELSE f[pick[s]] + i[s \ {pick[s]}]]
    <3>1. i = [s \in SUBSET S |-> i[s]]
      BY <2>2 DEF FoldTable
    <3> QED
      BY <2>3, <3>1, Zenon
  <2> QED
    BY <2>4, Zenon DEF Sums, pick
<1>5. Sums(f, S, iter)
  BY <1>4, Zenon
<1> HIDE DEF iter
<1>6. ASSUME NEW s \in SUBSET S
      PROVE  iter[s] = IF s = {} THEN 0 ELSE f[pick[s]] + iter[s \ {pick[s]}]
  BY <1>5, Zenon DEF Sums, pick
<1>7. \A s \in SUBSET S : iter[s] \in Int
  <2>1. iter[{}] \in Int
    <3>1. iter[{}] = 0
      BY <1>6, Zenon
    <3> QED
      BY <3>1
  <2>2. ASSUME NEW s \in SUBSET S, s # {}, iter[s \ {pick[s]}] \in Int
        PROVE  iter[s] \in Int
    <3>1. iter[s] = f[pick[s]] + iter[s \ {pick[s]}]
      BY <1>6, <2>2, Zenon
    <3> QED
      BY <1>3, <2>2, <3>1
  <2> QED
    BY <1>2, <2>1, <2>2, FoldStaysIn
<1>8. iter \in [SUBSET S -> Int]
  <2>1. iter = [s \in SUBSET S |-> IF s = {} THEN 0 ELSE f[pick[s]] + iter[s \ {pick[s]}]]
    BY <1>5, Zenon DEF Sums, pick
  <2>2. iter = [s \in SUBSET S |-> iter[s]]
    BY <2>1, Zenon
  <2> QED
    BY <1>7, <2>2, Zenon
<1>9. /\ iter[{}] = 0
      /\ \A s \in SUBSET S : s # {} =>
            pick[s] \in s /\ iter[s] = f[pick[s]] + iter[s \ {pick[s]}]
  <2>1. iter[{}] = 0
    BY <1>6, Zenon
  <2>2. \A s \in SUBSET S : s # {} => iter[s] = f[pick[s]] + iter[s \ {pick[s]}]
    BY <1>6, Zenon
  <2> QED
    BY <1>3, <2>1, <2>2
<1> QED
  BY <1>1, <1>8, <1>9, Zenon DEF pick, SumTable

LEMMA TableStep ==
    ASSUME NEW S, NEW f, f \in [S -> Int], NEW iter, SumTable(f, S, iter),
           NEW s, s \subseteq S, s # {}
    PROVE  \E x \in s : /\ x = Member(S)[s] /\ s \ {x} \subseteq S /\ f[x] \in Int
                        /\ iter[s] \in Int /\ iter[s \ {x}] \in Int
                        /\ iter[s] = f[x] + iter[s \ {x}]
<1>1. Member(S)[s] \in s /\ iter[s] = f[Member(S)[s]] + iter[s \ {Member(S)[s]}]
  BY DEF SumTable
<1>2. \A t : t \subseteq S => iter[t] \in Int
  BY DEF SumTable
<1> DEFINE x == Member(S)[s]
<1>3. x \in s /\ iter[s] = f[x] + iter[s \ {x}]
  BY <1>1
<1> HIDE DEF x
<1>4. s \ {x} \subseteq S /\ f[x] \in Int /\ iter[s] \in Int /\ iter[s \ {x}] \in Int
  BY <1>2, <1>3
<1> QED
  BY <1>3, <1>4 DEF x

(* A sum of whole numbers is one.                                          *)
LEMMA SumInt ==
    ASSUME NEW S, IsFiniteSet(S), NEW f, f \in [S -> Int]
    PROVE  SumFunctionOnSet(f, S) \in Int
<1>1. PICK iter : SumTable(f, S, iter) /\ SumFunctionOnSet(f, S) = iter[S]
  BY SumIs
<1> QED
  BY <1>1 DEF SumTable

(* A set with zero that is closed under addition has the sums of its       *)
(* elements.                                                               *)
ClosedUnderSums(V) == V \subseteq Int /\ 0 \in V /\ \A a, b \in V : a + b \in V

LEMMA SumStaysIn ==
    ASSUME NEW S, IsFiniteSet(S), NEW V, ClosedUnderSums(V),
           NEW f, f \in [S -> Int], \A x \in S : f[x] \in V
    PROVE  SumFunctionOnSet(f, S) \in V
<1>1. PICK iter : SumTable(f, S, iter) /\ SumFunctionOnSet(f, S) = iter[S]
  BY SumIs
<1>4. ASSUME NEW s, s \subseteq S, s # {}
      PROVE  \E x \in s : x = Member(S)[s] /\ iter[s] = f[x] + iter[s \ {x}]
  <2>1. SumTable(f, S, iter)
    BY <1>1
  <2>2. PICK x \in s : /\ x = Member(S)[s] /\ s \ {x} \subseteq S /\ f[x] \in Int
                       /\ iter[s] \in Int /\ iter[s \ {x}] \in Int
                       /\ iter[s] = f[x] + iter[s \ {x}]
    BY <2>1, <1>4, TableStep
  <2> QED
    BY <2>2
<1>2. ASSUME NEW s \in SUBSET S, s # {}, iter[s \ {Member(S)[s]}] \in V
      PROVE  iter[s] \in V
  <2>2. PICK x \in s : x = Member(S)[s] /\ iter[s] = f[x] + iter[s \ {x}]
    BY <1>2, <1>4
  <2>3. iter[s \ {x}] \in V /\ f[x] \in V
    BY <1>2, <2>2
  <2> QED
    BY <2>2, <2>3 DEF ClosedUnderSums
<1>3. \A s \in SUBSET S : iter[s] \in V
  <2>1. iter[{}] \in V
    BY <1>1 DEF SumTable, ClosedUnderSums
  <2> QED
    BY <1>2, <2>1, MemberPicks, FoldStaysIn, Zenon
<1> QED
  BY <1>1, <1>3

LEMMA SumNat ==
    ASSUME NEW S, IsFiniteSet(S), NEW f, f \in [S -> Int], \A x \in S : f[x] \in Nat
    PROVE  SumFunctionOnSet(f, S) \in Nat
<1>1. ClosedUnderSums(Nat)
  BY DEF ClosedUnderSums
<1> QED
  BY <1>1, SumStaysIn, Zenon

LEMMA SumOfZeros ==
    ASSUME NEW S, IsFiniteSet(S), NEW f, f \in [S -> Int], \A x \in S : f[x] = 0
    PROVE  SumFunctionOnSet(f, S) = 0
<1> DEFINE V == {0}
<1>1. ClosedUnderSums(V) /\ \A x \in S : f[x] \in V
  BY DEF ClosedUnderSums
<1>2. \A x : x \in V <=> x = 0
  OBVIOUS
<1> HIDE DEF V
<1>3. SumFunctionOnSet(f, S) \in V
  BY <1>1, SumStaysIn, Zenon
<1> QED
  BY <1>2, <1>3

(* A sum in which one term changes, changes as much.                       *)
LEMMA SumChanges ==
    ASSUME NEW S, IsFiniteSet(S), NEW f, f \in [S -> Int], NEW g, g \in [S -> Int],
           NEW x \in S, \A y \in S \ {x} : g[y] = f[y]
    PROVE  SumFunctionOnSet(g, S) = SumFunctionOnSet(f, S) + g[x] - f[x]
<1>1. PICK F : SumTable(f, S, F) /\ SumFunctionOnSet(f, S) = F[S]
  BY SumIs
<1>2. PICK G : SumTable(g, S, G) /\ SumFunctionOnSet(g, S) = G[S]
  BY SumIs
<1> DEFINE Wrong == {s \in SUBSET S : G[s] # F[s] + (IF x \in s THEN g[x] - f[x] ELSE 0)}
<1>3. Wrong = {}
  <2> SUFFICES ASSUME Wrong # {} PROVE FALSE
    OBVIOUS
  <2>1. PICK A \in Wrong : \A B \in Wrong : B \subseteq A => B = A
    <3>1. \A A \in Wrong : A \subseteq S
      OBVIOUS
    <3> HIDE DEF Wrong
    <3> QED
      BY <3>1, SmallestSubset
  <2>2. A \in SUBSET S
    OBVIOUS
  <2>3. A # {}
    <3>1. F[{}] = 0 /\ G[{}] = 0
      BY <1>1, <1>2 DEF SumTable
    <3>2. G[A] # F[A] + (IF x \in A THEN g[x] - f[x] ELSE 0)
      OBVIOUS
    <3> QED
      BY <3>1, <3>2
  <2>a. PICK m \in A : /\ m = Member(S)[A] /\ A \ {m} \subseteq S /\ f[m] \in Int
                       /\ F[A] \in Int /\ F[A \ {m}] \in Int /\ F[A] = f[m] + F[A \ {m}]
    BY <1>1, <2>2, <2>3, TableStep
  <2>b. PICK k \in A : /\ k = Member(S)[A] /\ A \ {k} \subseteq S /\ g[k] \in Int
                       /\ G[A] \in Int /\ G[A \ {k}] \in Int /\ G[A] = g[k] + G[A \ {k}]
    BY <1>2, <2>2, <2>3, TableStep
  <2>c. /\ g[m] \in Int /\ G[A] \in Int /\ G[A \ {m}] \in Int
        /\ G[A] = g[m] + G[A \ {m}]
    BY <2>a, <2>b
  <2> DEFINE B == A \ {m}
  <2>4. m \in A /\ F[A] = f[m] + F[B] /\ G[A] = g[m] + G[B]
    BY <2>a, <2>c
  <2>5. B \in SUBSET S /\ B \notin Wrong
    BY <2>1, <2>2, <2>4
  <2>6. G[B] = F[B] + (IF x \in B THEN g[x] - f[x] ELSE 0)
    BY <2>5
  <2>7. F[B] \in Int /\ G[B] \in Int /\ f[m] \in Int /\ g[m] \in Int /\ f[x] \in Int
        /\ g[x] \in Int
    BY <2>a, <2>c
  <2>8. CASE m = x
    BY <2>4, <2>6, <2>7, <2>8
  <2>9. CASE m # x
    <3>1. g[m] = f[m] /\ (x \in A <=> x \in B)
      BY <2>2, <2>4, <2>9
    <3> QED
      BY <2>4, <2>6, <2>7, <3>1
  <2> QED
    BY <2>8, <2>9
<1>4. G[S] = F[S] + (g[x] - f[x])
  BY <1>3
<1> QED
  BY <1>1, <1>2, <1>4

(* No term of a sum of natural numbers exceeds it.                         *)
LEMMA TermWithinSum ==
    ASSUME NEW S, IsFiniteSet(S), NEW f, f \in [S -> Int], \A y \in S : f[y] \in Nat,
           NEW x \in S
    PROVE  f[x] <= SumFunctionOnSet(f, S)
<1> DEFINE g == [f EXCEPT ![x] = 0]
<1>1. g \in [S -> Int] /\ g[x] = 0 /\ (\A y \in S \ {x} : f[y] = g[y]) /\ \A y \in S : g[y] \in Nat
  OBVIOUS
<1> HIDE DEF g
<1>2. SumFunctionOnSet(g, S) \in Nat
  BY <1>1, SumNat
<1>3. SumFunctionOnSet(f, S) = SumFunctionOnSet(g, S) + f[x] - g[x]
  BY <1>1, SumChanges
<1> QED
  BY <1>1, <1>2, <1>3

(* Two tables take the same element from a subset.                         *)
LEMMA TwoTables ==
    ASSUME NEW S, NEW f, f \in [S -> Int], NEW g, g \in [S -> Int],
           NEW F, SumTable(f, S, F), NEW G, SumTable(g, S, G),
           NEW s, s \subseteq S, s # {}
    PROVE  \E m \in s :
              /\ s \ {m} \subseteq S
              /\ f[m] \in Int /\ F[s \ {m}] \in Int /\ F[s] = f[m] + F[s \ {m}]
              /\ g[m] \in Int /\ G[s \ {m}] \in Int /\ G[s] = g[m] + G[s \ {m}]
<1> DEFINE m == Member(S)[s]
<1>1. /\ m \in s /\ F[s] = f[m] + F[s \ {m}] /\ G[s] = g[m] + G[s \ {m}]
      /\ \A t : t \subseteq S => F[t] \in Int /\ G[t] \in Int
  BY DEF SumTable
<1> HIDE DEF m
<1>2. s \ {m} \subseteq S /\ f[m] \in Int /\ g[m] \in Int
  BY <1>1
<1> QED
  BY <1>1, <1>2

(* What holds of the terms of two sums, up to a constant, holds of the     *)
(* sums, up to that constant for every term.                               *)
LEMMA SumScales ==
    ASSUME NEW S, IsFiniteSet(S), NEW f, f \in [S -> Int], NEW g, g \in [S -> Int],
           NEW t \in Int, NEW u \in Int, NEW c \in Int,
           \A x \in S : t * g[x] <= u * f[x] + c
    PROVE  t * SumFunctionOnSet(g, S) <= u * SumFunctionOnSet(f, S) + c * Cardinality(S)
<1>1. PICK F : SumTable(f, S, F) /\ SumFunctionOnSet(f, S) = F[S]
  BY SumIs
<1>2. PICK G : SumTable(g, S, G) /\ SumFunctionOnSet(g, S) = G[S]
  BY SumIs
<1> DEFINE Wrong == {s \in SUBSET S : ~(t * G[s] <= u * F[s] + c * Cardinality(s))}
<1>3. Wrong = {}
  <2> SUFFICES ASSUME Wrong # {} PROVE FALSE
    OBVIOUS
  <2>1. PICK A \in Wrong : \A B \in Wrong : B \subseteq A => B = A
    <3>1. \A A \in Wrong : A \subseteq S
      OBVIOUS
    <3> HIDE DEF Wrong
    <3> QED
      BY <3>1, SmallestSubset
  <2>2. A \in SUBSET S
    OBVIOUS
  <2>3. ~(t * G[A] <= u * F[A] + c * Cardinality(A))
    OBVIOUS
  <2>4. A # {}
    <3>1. F[{}] = 0 /\ G[{}] = 0 /\ Cardinality({}) = 0
      BY <1>1, <1>2, FS_EmptySet DEF SumTable
    <3>2. t * 0 <= u * 0 + c * 0
      OBVIOUS
    <3> QED
      BY <2>3, <3>1, <3>2, Zenon
  <2>5. PICK m \in A : /\ A \ {m} \subseteq S
                       /\ f[m] \in Int /\ F[A \ {m}] \in Int /\ F[A] = f[m] + F[A \ {m}]
                       /\ g[m] \in Int /\ G[A \ {m}] \in Int /\ G[A] = g[m] + G[A \ {m}]
    <3>1. f \in [S -> Int] /\ g \in [S -> Int] /\ A \subseteq S
      OBVIOUS
    <3> QED
      BY ONLY <1>1, <1>2, <2>4, <3>1, TwoTables
  <2> DEFINE B == A \ {m}
             b == Cardinality(B)
  <2>6. B \in SUBSET S /\ B \notin Wrong
    BY <2>1, <2>2, <2>5
  <2>7. t * G[B] <= u * F[B] + c * b
    BY <2>6
  <2>8. t * g[m] <= u * f[m] + c
    BY <2>2
  <2>9. t * G[A] = t * g[m] + t * G[B] /\ t * g[m] \in Int /\ t * G[B] \in Int
    BY <2>5, ProductDistributes
  <2>10. u * F[A] = u * f[m] + u * F[B] /\ u * f[m] \in Int /\ u * F[B] \in Int
    BY <2>5, ProductDistributes
  <2>11. Cardinality(A) = 1 + b /\ b \in Nat
    <3>1. IsFiniteSet(A)
      BY <2>2, FS_Subset
    <3>2. b = Cardinality(A) - 1 /\ Cardinality(A) \in Nat /\ b \in Nat
      BY <3>1, FS_RemoveElement, FS_CardinalityType
    <3> QED
      BY <3>2
  <2> HIDE DEF b
  <2>12. c * Cardinality(A) = c * 1 + c * b /\ c * b \in Int /\ c * 1 = c
    BY <2>11, ProductDistributes
  <2> QED
    BY <2>3, <2>7, <2>8, <2>9, <2>10, <2>12
<1>4. t * G[S] <= u * F[S] + c * Cardinality(S)
  BY <1>3
<1> QED
  BY <1>1, <1>2, <1>4

(* Dividing a whole in proportion, and rounding each part down, gives away *)
(* no more than the whole, and keeps back less than one for every part.    *)
LEMMA SharesOfWhole ==
    ASSUME NEW S, IsFiniteSet(S), NEW f, f \in [S -> Nat], NEW one \in Nat,
           SumFunctionOnSet(f, S) # 0
    PROVE  LET shared == SumFunctionOnSet(
                            [x \in S |-> (one * f[x]) \div SumFunctionOnSet(f, S)], S)
           IN  shared \in Nat /\ shared <= one /\ one <= shared + Cardinality(S)
<1> DEFINE whole == SumFunctionOnSet(f, S)
           g == [x \in S |-> (one * f[x]) \div whole]
           shared == SumFunctionOnSet(g, S)
<1>1. f \in [S -> Int] /\ \A x \in S : f[x] \in Nat
  OBVIOUS
<1>2. whole \in Nat \ {0}
  BY <1>1, SumNat
<1>3. SumFunctionOnSet(f, S) = whole
  OBVIOUS
<1> HIDE DEF whole
<1>4. ASSUME NEW x \in S
      PROVE  LET q == (one * f[x]) \div whole
             IN  q \in Nat /\ whole * q <= one * f[x] /\ one * f[x] <= whole * q + whole
  <2> DEFINE n == one * f[x]
             q == n \div whole
  <2>1. n \in Nat
    BY <1>1, ProductNat
  <2> HIDE DEF n
  <2>2. q \in Nat /\ q * whole <= n /\ n <= q * whole + whole
    <3>1. q \in Nat /\ q * whole <= n
      BY <1>2, <2>1, QuotientWithinBudget
    <3>2. ~(q + 1 <= q)
      BY <3>1
    <3>3. ~((q + 1) * whole <= n)
      BY <1>2, <2>1, <3>1, <3>2, QuotientCovers
    <3>4. (q + 1) * whole = q * whole + whole /\ q * whole \in Nat
      BY <1>2, <3>1, SMT
    <3> HIDE DEF q
    <3> QED
      BY <1>2, <2>1, <3>1, <3>3, <3>4
  <2> HIDE DEF q
  <2>3. whole * q = q * whole
    BY <1>2, <2>2
  <2> QED
    BY <2>2, <2>3 DEF n, q
<1>5. /\ g \in [S -> Int] /\ \A x \in S : g[x] \in Nat
      /\ \A x \in S : whole * g[x] <= one * f[x] /\ one * f[x] <= whole * g[x] + whole
  BY <1>4
<1> HIDE DEF g
<1>6. shared \in Nat
  BY <1>5, SumNat
<1>7. Cardinality(S) \in Nat
  BY FS_CardinalityType
<1>8. whole * shared <= one * whole + 0 * Cardinality(S)
  <2>1. \A x \in S : whole * g[x] <= one * f[x] + 0
    BY <1>1, <1>5
  <2>2. 0 \in Int /\ one \in Int /\ whole \in Int
    BY <1>2
  <2>3. whole * SumFunctionOnSet(g, S) <= one * SumFunctionOnSet(f, S) + 0 * Cardinality(S)
    BY <1>1, <1>5, <2>1, <2>2, SumScales, Zenon
  <2> QED
    BY <1>3, <2>3, Zenon
<1>9. one * whole <= whole * shared + whole * Cardinality(S)
  <2>1. one \in Int /\ whole \in Int
    BY <1>2
  <2>2. one * SumFunctionOnSet(f, S) <= whole * SumFunctionOnSet(g, S) + whole * Cardinality(S)
    BY <1>1, <1>5, <2>1, SumScales, Zenon
  <2> QED
    BY <1>3, <2>2, Zenon
<1>10. ASSUME NEW w \in Nat \ {0}, NEW s \in Nat, NEW n \in Nat,
              w * s <= one * w + 0 * n, one * w <= w * s + w * n
       PROVE  s <= one /\ one <= s + n
  <2>1. w * (s + n) = w * s + w * n
    BY SMT
  <2>2. one * w = w * one /\ 0 * n = 0
    BY SMT
  <2>3. w * s <= w * one /\ w * one <= w * (s + n)
    BY <1>10, <2>1, <2>2
  <2>4. \A a, b \in Nat : w * a <= w * b => a <= b
    BY SMT
  <2> QED
    BY <2>3, <2>4
<1> HIDE DEF shared
<1>11. shared <= one /\ one <= shared + Cardinality(S)
  BY <1>2, <1>6, <1>7, <1>8, <1>9, <1>10
<1> QED
  BY <1>6, <1>11, Zenon DEF shared, g, whole
====
