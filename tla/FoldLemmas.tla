----------------------------- MODULE FoldLemmas ------------------------------
(***************************************************************************)
(* Folds over sequences and finite sets: what the proofs about budgets,    *)
(* ledgers and answers need of them.  Each fact is an induction; as        *)
(* induction over a predicate parameter is not available to the provers,   *)
(* each takes a smallest counterexample instead, and an operation that is  *)
(* folded is given as a function.                                          *)
(***************************************************************************)
EXTENDS Integers, FiniteSets, Functions, SequencesExt, SequenceFilter,
        FiniteSetTheorems, WellFoundedInduction, TLAPS

\* A set of numbers has a least one.
LEMMA LeastNumber ==
  ASSUME NEW T \in SUBSET Nat, T # {}
  PROVE  \E n \in T : \A m \in T : n <= m
<1>1. IsWellFoundedOn(OpToRel(<, Nat), Nat)
  BY NatLessThanWellFounded
<1>2. PICK n \in T : \A m \in T : ~ (<<m, n>> \in OpToRel(<, Nat))
  BY <1>1, WFMin
<1>3. \A m \in T : ~ (m < n)
  BY <1>2 DEF OpToRel
<1> QED  BY <1>3

\* A set of subsets of a finite set has a smallest one.
LEMMA SmallestSet ==
  ASSUME NEW S, IsFiniteSet(S), NEW X \in SUBSET SUBSET S, X # {}
  PROVE  \E U \in X : \A x \in U : U \ {x} \notin X
<1> DEFINE T == { Cardinality(U) : U \in X }
<1>1. \A U \in X : IsFiniteSet(U) /\ Cardinality(U) \in Nat
  BY FS_Subset, FS_CardinalityType
<1>2. T \in SUBSET Nat /\ T # {}
  BY <1>1
<1>3. PICK U \in X : \A V \in X : Cardinality(U) <= Cardinality(V)
  <2> HIDE DEF T
  <2>1. PICK n \in T : \A m \in T : n <= m
    BY <1>2, LeastNumber
  <2> QED  BY <2>1 DEF T
<1>4. ASSUME NEW x \in U PROVE U \ {x} \notin X
  <2>1. Cardinality(U \ {x}) = Cardinality(U) - 1
    BY <1>1, FS_RemoveElement
  <2> QED  BY <1>1, <1>3, <2>1
<1> QED  BY <1>4

\* g is the fold over each subset of S; pick says which element comes last.
FoldsTo(g, S, base, pick, step) ==
  \A s \in SUBSET S :
    g[s] = IF s = {} THEN base ELSE step[<<pick[s], g[s \ {pick[s]}]>>]

\* There is one, as there is one up to each size.
LEMMA FoldExists ==
  ASSUME NEW S, IsFiniteSet(S), NEW Acc, NEW base \in Acc,
         NEW pick, \A s \in SUBSET S : s # {} => pick[s] \in s,
         NEW step \in [S \X Acc -> Acc]
  PROVE  \E g \in [SUBSET S -> Acc] : FoldsTo(g, S, base, pick, step)
<1> DEFINE UpTo(n) == { s \in SUBSET S : Cardinality(s) <= n }
           Solves(g, n) == \A s \in UpTo(n) :
                             g[s] = IF s = {} THEN base ELSE step[<<pick[s], g[s \ {pick[s]}]>>]
           Bad == { n \in Nat : ~ \E g \in [UpTo(n) -> Acc] : Solves(g, n) }
<1>1. \A s \in SUBSET S : IsFiniteSet(s) /\ Cardinality(s) \in Nat /\ Cardinality(s) <= Cardinality(S)
  BY FS_Subset, FS_CardinalityType
<1>2. \A s \in SUBSET S : s # {} =>
        /\ pick[s] \in s /\ pick[s] \in S
        /\ s \ {pick[s]} \in SUBSET S
        /\ Cardinality(s \ {pick[s]}) = Cardinality(s) - 1
  BY <1>1, FS_RemoveElement
<1>3. Bad = {}
  <2> SUFFICES ASSUME Bad # {} PROVE FALSE
    OBVIOUS
  <2>1. PICK n \in Bad : \A m \in Bad : n <= m
    <3>1. Bad \in SUBSET Nat  OBVIOUS
    <3> HIDE DEF Bad
    <3> QED  BY <3>1, LeastNumber
  <2>2. n \in Nat  BY <2>1
  <2>3. CASE n = 0
    <3> DEFINE g == [s \in UpTo(0) |-> base]
    <3>1. \A s \in UpTo(0) : s = {}
      <4> TAKE s \in UpTo(0)
      <4>1. Cardinality(s) = 0 /\ IsFiniteSet(s)  BY <1>1
      <4> QED  BY <4>1, FS_EmptySet
    <3>2. g \in [UpTo(0) -> Acc] /\ Solves(g, 0)
      BY <3>1
    <3> QED  BY <2>3, <3>2
  <2>4. CASE n > 0
    <3>1. n - 1 \in Nat /\ n - 1 \notin Bad
      <4>1. n - 1 \in Nat /\ ~ (n <= n - 1)
        BY <2>2, <2>4
      <4> HIDE DEF Bad
      <4> QED  BY <4>1, <2>1
    <3>2. PICK g \in [UpTo(n - 1) -> Acc] : Solves(g, n - 1)
      BY <3>1
    <3> DEFINE h == [s \in UpTo(n) |->
                       IF s \in UpTo(n - 1) THEN g[s] ELSE step[<<pick[s], g[s \ {pick[s]}]>>]]
    <3>3. \A s \in UpTo(n) : s # {} =>
            s \ {pick[s]} \in UpTo(n - 1) /\ s \ {pick[s]} \in UpTo(n) /\ pick[s] \in S
      BY <1>1, <1>2, <2>2
    <3>4. \A s \in UpTo(n) : s = {} => s \in UpTo(n - 1)
      BY <2>4, <2>2, FS_EmptySet
    <3>5. h \in [UpTo(n) -> Acc]
      <4> SUFFICES ASSUME NEW s \in UpTo(n) PROVE h[s] \in Acc
        OBVIOUS
      <4>1. CASE s \in UpTo(n - 1)
        BY <3>2, <4>1
      <4>2. CASE s \notin UpTo(n - 1)
        BY <3>2, <3>3, <3>4, <4>2
      <4> QED  BY <4>1, <4>2
    <3>6. Solves(h, n)
      <4> SUFFICES ASSUME NEW s \in UpTo(n)
                   PROVE h[s] = IF s = {} THEN base ELSE step[<<pick[s], h[s \ {pick[s]}]>>]
        OBVIOUS
      <4>1. s # {} => h[s \ {pick[s]}] = g[s \ {pick[s]}]
        BY <3>3
      <4>2. CASE s \in UpTo(n - 1)
        <5>1. h[s] = g[s]  BY <4>2
        <5>2. g[s] = IF s = {} THEN base ELSE step[<<pick[s], g[s \ {pick[s]}]>>]
          BY <3>2, <4>2
        <5> QED  BY <4>1, <5>1, <5>2
      <4>3. CASE s \notin UpTo(n - 1)
        <5>1. s # {} /\ h[s] = step[<<pick[s], g[s \ {pick[s]}]>>]
          BY <3>4, <4>3
        <5> QED  BY <4>1, <5>1
      <4> QED  BY <4>2, <4>3
    <3> HIDE DEF h
    <3> QED  BY <2>1, <3>5, <3>6
  <2> QED  BY <2>2, <2>3, <2>4
<1> DEFINE N == Cardinality(S)
<1>4. N \in Nat /\ UpTo(N) = SUBSET S
  BY <1>1
<1>5. PICK g \in [UpTo(N) -> Acc] : Solves(g, N)
  BY <1>3, <1>4
<1> HIDE DEF N
<1> QED  BY <1>4, <1>5 DEF FoldsTo

-----------------------------------------------------------------------------
(* Sequences are folded from the left: FoldLeft takes, of the positions    *)
(* that are left, the last one.                                            *)

LEMMA MaxIsIn ==
  ASSUME NEW n \in Nat, NEW s \in SUBSET (1 .. n), s # {}
  PROVE  Max(s) \in s /\ \A x \in s : x <= Max(s)
<1> DEFINE T == { n - x : x \in s }
<1>1. T \in SUBSET Nat /\ T # {}
  <2>1. \A x \in s : n - x \in Nat
    OBVIOUS
  <2>2. PICK x : x \in s
    OBVIOUS
  <2>3. n - x \in T
    BY <2>2
  <2> QED  BY <2>1, <2>3
<1>2. PICK t \in T : \A m \in T : t <= m
  <2> HIDE DEF T
  <2> QED  BY <1>1, LeastNumber
<1>3. PICK x \in s : t = n - x
  BY <1>2
<1>4. \A y \in s : x >= y
  <2> TAKE y \in s
  <2>1. t <= n - y
    BY <1>2
  <2> QED  BY <1>3, <2>1
<1>5. \A y \in s : Max(s) >= y
  BY <1>4 DEF Max
<1>6. Max(s) \in s
  BY <1>4 DEF Max
<1> QED  BY <1>5, <1>6

LEMMA LastOfInterval ==
  ASSUME NEW n \in Nat, NEW k \in 1 .. n
  PROVE  Max(1 .. k) = k /\ (1 .. k) \ {k} = 1 .. (k - 1)
<1>1. 1 .. k \in SUBSET (1 .. n) /\ k \in 1 .. k
  OBVIOUS
<1>2. Max(1 .. k) \in 1 .. k /\ k <= Max(1 .. k)
  BY <1>1, MaxIsIn
<1>3. Max(1 .. k) = k
  BY <1>2
<1>4. (1 .. k) \ {k} = 1 .. (k - 1)
  OBVIOUS
<1> QED  BY <1>3, <1>4

LEMMA FoldLeftExists ==
  ASSUME NEW n \in Nat, NEW Acc, NEW base \in Acc,
         NEW step \in [(1 .. n) \X Acc -> Acc]
  PROVE  \E g \in [SUBSET (1 .. n) -> Acc] :
            FoldsTo(g, 1 .. n, base, [s \in SUBSET (1 .. n) |-> Max(s)], step)
<1> DEFINE pick == [s \in SUBSET (1 .. n) |-> Max(s)]
<1>1. \A s \in SUBSET (1 .. n) : s # {} => pick[s] \in s
  BY MaxIsIn
<1>2. IsFiniteSet(1 .. n)
  BY FS_Interval
<1> HIDE DEF pick
<1>3. \E g \in [SUBSET (1 .. n) -> Acc] : FoldsTo(g, 1 .. n, base, pick, step)
  BY <1>1, <1>2, FoldExists
<1> QED  BY <1>3 DEF pick

\* h walks along the positions 1 .. n.
Walks(h, n, base, step) ==
  h[0] = base /\ \A k \in 1 .. n : h[k] = step[<<k, h[k - 1]>>]

LEMMA WalkExists ==
  ASSUME NEW n \in Nat, NEW Acc, NEW base \in Acc,
         NEW step \in [(1 .. n) \X Acc -> Acc]
  PROVE  \E h \in [0 .. n -> Acc] : Walks(h, n, base, step)
<1> DEFINE pick == [s \in SUBSET (1 .. n) |-> Max(s)]
<1>1. PICK g \in [SUBSET (1 .. n) -> Acc] : FoldsTo(g, 1 .. n, base, pick, step)
  BY FoldLeftExists
<1> DEFINE h == [k \in 0 .. n |-> g[1 .. k]]
<1>2. \A k \in 0 .. n : 1 .. k \in SUBSET (1 .. n)
  OBVIOUS
<1>3. h \in [0 .. n -> Acc]
  BY <1>2
<1>4. h[0] = base
  <2>1. h[0] = g[1 .. 0] /\ 1 .. 0 = {} /\ {} \in SUBSET (1 .. n)
    OBVIOUS
  <2> QED  BY <1>1, <2>1 DEF FoldsTo
<1>5. ASSUME NEW k \in 1 .. n PROVE h[k] = step[<<k, h[k - 1]>>]
  <2>0. Max(1 .. k) = k /\ (1 .. k) \ {k} = 1 .. (k - 1)
    BY LastOfInterval
  <2>1. /\ 1 .. k \in SUBSET (1 .. n) /\ 1 .. k # {}
        /\ pick[1 .. k] = k /\ (1 .. k) \ {k} = 1 .. (k - 1)
    <3>1. 1 .. k \in SUBSET (1 .. n)
      BY <1>2
    <3>2. k \in 1 .. k
      OBVIOUS
    <3>3. pick[1 .. k] = Max(1 .. k)
      BY <3>1
    <3> QED  BY <2>0, <3>1, <3>2, <3>3
  <2>2. h[k] = g[1 .. k] /\ h[k - 1] = g[1 .. (k - 1)]
    OBVIOUS
  <2> HIDE DEF pick, h
  <2>3. g[1 .. k] = step[<<pick[1 .. k], g[(1 .. k) \ {pick[1 .. k]}]>>]
    BY <1>1, <2>1 DEF FoldsTo
  <2> QED  BY <2>1, <2>2, <2>3
<1> HIDE DEF h
<1> QED  BY <1>3, <1>4, <1>5 DEF Walks

-----------------------------------------------------------------------------
(* A list filtered by its members (module SequenceFilter).                 *)

LEMMA AppendContains ==
  ASSUME NEW X, NEW s \in Seq(X), NEW y \in X
  PROVE  /\ Append(s, y) \in Seq(X)
         /\ \A x : Contains(Append(s, y), x) <=> x = y \/ Contains(s, x)
<1>1. /\ Append(s, y) \in Seq(X) /\ Len(Append(s, y)) = Len(s) + 1
      /\ \A i \in 1 .. Len(s) : Append(s, y)[i] = s[i]
      /\ Append(s, y)[Len(s) + 1] = y /\ Len(s) \in Nat
  OBVIOUS
<1> DEFINE t == Append(s, y)
<1> HIDE DEF t
<1>2. \A i : i \in 1 .. Len(t) <=> i \in 1 .. Len(s) \/ i = Len(s) + 1
  BY <1>1 DEF t
<1>3. \A x : Contains(t, x) <=> x = y \/ Contains(s, x)
  BY <1>1, <1>2 DEF Contains, t
<1> QED  BY <1>1, <1>3 DEF t

\* Only keeps the members of S, all of them and in a sequence.
LEMMA OnlyKeeps ==
  ASSUME NEW X, NEW s \in Seq(X), NEW S
  PROVE  /\ Only(s, S) \in Seq(X)
         /\ \A x : Contains(Only(s, S), x) <=> Contains(s, x) /\ x \in S
<1> DEFINE n == Len(s)
           step == [p \in (1 .. n) \X Seq(X) |->
                      IF s[p[1]] \in S THEN Append(p[2], s[p[1]]) ELSE p[2]]
           Is(k) == k = [i \in 0 .. Len(s) |->
                      IF i = 0 THEN << >>
                      ELSE IF s[i] \in S THEN Append(k[i - 1], s[i]) ELSE k[i - 1]]
           kept == CHOOSE k : Is(k)
<1>1. n \in Nat /\ \A i \in 1 .. n : s[i] \in X
  OBVIOUS
<1>2. step \in [(1 .. n) \X Seq(X) -> Seq(X)]
  <2>1. \A p \in (1 .. n) \X Seq(X) :
          (IF s[p[1]] \in S THEN Append(p[2], s[p[1]]) ELSE p[2]) \in Seq(X)
    BY <1>1
  <2> QED  BY <2>1
<1>3. \A i \in 1 .. n, q \in Seq(X) :
        step[<<i, q>>] = IF s[i] \in S THEN Append(q, s[i]) ELSE q
  OBVIOUS
<1> HIDE DEF step
<1>4. PICK h \in [0 .. n -> Seq(X)] : Walks(h, n, << >>, step)
  <2> DEFINE Acc == Seq(X)
  <2>1. << >> \in Acc /\ step \in [(1 .. n) \X Acc -> Acc] /\ n \in Nat
    BY <1>1, <1>2
  <2> HIDE DEF n, Acc
  <2>2. \E h \in [0 .. n -> Acc] : Walks(h, n, << >>, step)
    BY <2>1, WalkExists
  <2> QED  BY <2>2 DEF Acc
<1>5. Is(h)
  <2>1. \A i \in 1 .. n : h[i] = IF s[i] \in S THEN Append(h[i - 1], s[i]) ELSE h[i - 1]
    <3> TAKE i \in 1 .. n
    <3>1. h[i - 1] \in Seq(X)
      BY <1>1
    <3> QED  BY <1>3, <1>4, <3>1 DEF Walks
  <2>2. h[0] = << >>
    BY <1>4 DEF Walks
  <2>3. \A i \in 0 .. n : h[i] = IF i = 0 THEN << >>
                                 ELSE IF s[i] \in S THEN Append(h[i - 1], s[i]) ELSE h[i - 1]
    <3>1. \A i \in 0 .. n : i # 0 => i \in 1 .. n
      BY <1>1
    <3> QED  BY <2>1, <2>2, <3>1
  <2> QED  BY <2>3
<1>6. Is(kept)
  BY <1>5
<1> HIDE DEF kept
<1>7. /\ kept[0] = << >>
      /\ \A i \in 1 .. n : kept[i] = IF s[i] \in S THEN Append(kept[i - 1], s[i]) ELSE kept[i - 1]
  <2>1. \A i \in 0 .. n : kept[i] = IF i = 0 THEN << >>
                                    ELSE IF s[i] \in S THEN Append(kept[i - 1], s[i])
                                    ELSE kept[i - 1]
    BY <1>6
  <2>2. 0 \in 0 .. n /\ \A i \in 1 .. n : i \in 0 .. n /\ i # 0
    BY <1>1
  <2> HIDE DEF n
  <2> QED  BY <2>1, <2>2
<1> DEFINE Right(i) == /\ kept[i] \in Seq(X)
                       /\ \A x : Contains(kept[i], x) <=>
                            x \in S /\ \E j \in 1 .. i : s[j] = x
           Bad == { i \in 0 .. n : ~ Right(i) }
<1>8. Bad = {}
  <2> SUFFICES ASSUME Bad # {} PROVE FALSE
    OBVIOUS
  <2>1. PICK i \in Bad : \A j \in Bad : i <= j
    <3>1. Bad \in SUBSET Nat  OBVIOUS
    <3> HIDE DEF Bad
    <3> QED  BY <3>1, LeastNumber
  <2>2. i \in 0 .. n /\ ~ Right(i)
    BY <2>1
  <2>3. CASE i = 0
    <3>1. kept[0] \in Seq(X) /\ \A x : ~ Contains(kept[0], x)
      BY <1>7 DEF Contains
    <3> QED  BY <2>2, <2>3, <3>1
  <2>4. CASE i # 0
    <3>1. i \in 1 .. n /\ i - 1 \in 0 .. n /\ ~ (i <= i - 1)
      BY <1>1, <2>2, <2>4
    <3>2. Right(i - 1)
      <4>1. i - 1 \notin Bad
        <5> HIDE DEF Bad
        <5> QED  BY <2>1, <3>1
      <4> QED  BY <3>1, <4>1
    <3>3. \A x : (\E j \in 1 .. i : s[j] = x) <=> x = s[i] \/ \E j \in 1 .. (i - 1) : s[j] = x
      BY <3>1
    <3>4. CASE s[i] \in S
      <4>1. kept[i] = Append(kept[i - 1], s[i]) /\ kept[i - 1] \in Seq(X) /\ s[i] \in X
        BY <1>1, <1>7, <3>1, <3>2, <3>4
      <4>2. \A x : Contains(kept[i], x) <=> x = s[i] \/ Contains(kept[i - 1], x)
        BY <4>1, AppendContains
      <4>3. kept[i] \in Seq(X)
        BY <4>1
      <4> QED  BY <2>2, <3>2, <3>3, <3>4, <4>2, <4>3
    <3>5. CASE s[i] \notin S
      <4>1. kept[i] = kept[i - 1]
        BY <1>7, <3>1, <3>5
      <4> QED  BY <2>2, <3>2, <3>3, <3>5, <4>1
    <3> QED  BY <3>4, <3>5
  <2> QED  BY <2>3, <2>4
<1>9. Right(n)
  <2>1. n \in 0 .. n
    BY <1>1
  <2> QED  BY <1>8, <2>1
<1>10. Only(s, S) = kept[n]
  BY DEF Only, kept
<1> QED  BY <1>9, <1>10 DEF Contains

-----------------------------------------------------------------------------
(* The fold, set by set.                                                   *)

AnyOf(s) == CHOOSE x \in s : TRUE

Partial(f, S) ==
  CHOOSE g : g = [s \in SUBSET S |-> IF s = {} THEN 0 ELSE f[AnyOf(s)] + g[s \ {AnyOf(s)}]]

LEMMA SumIsPartial ==
  ASSUME NEW f, NEW S
  PROVE  SumFunctionOnSet(f, S) = Partial(f, S)[S]
BY DEF SumFunctionOnSet, FoldFunctionOnSet, MapThenFoldSet, Partial, AnyOf

LEMMA SomeIsIn == ASSUME NEW s, s # {} PROVE AnyOf(s) \in s
BY DEF AnyOf

\* The recursion has a solution.
LEMMA PartialExists ==
  ASSUME NEW f, NEW S, IsFiniteSet(S), \A x \in S : f[x] \in Int
  PROVE  /\ Partial(f, S) \in [SUBSET S -> Int]
         /\ \A s \in SUBSET S :
              Partial(f, S)[s] = IF s = {} THEN 0
                                 ELSE f[AnyOf(s)] + Partial(f, S)[s \ {AnyOf(s)}]
<1> DEFINE pick == [s \in SUBSET S |-> AnyOf(s)]
           step == [p \in S \X Int |-> f[p[1]] + p[2]]
<1>2. \A s \in SUBSET S : s # {} => AnyOf(s) \in s /\ AnyOf(s) \in S /\ pick[s] = AnyOf(s)
  BY SomeIsIn
<1>3. step \in [S \X Int -> Int]
  <2>1. \A p \in S \X Int : f[p[1]] + p[2] \in Int
    OBVIOUS
  <2> QED  BY <2>1
<1>4. \A x \in S, a \in Int : step[<<x, a>>] = f[x] + a
  OBVIOUS
<1> HIDE DEF pick, step
<1>5. PICK g \in [SUBSET S -> Int] : FoldsTo(g, S, 0, pick, step)
  <2>1. 0 \in Int
    OBVIOUS
  <2>2. \A s \in SUBSET S : s # {} => pick[s] \in s
    BY <1>2
  <2> QED  BY <1>3, <2>1, <2>2, FoldExists
<1>6. g \in [SUBSET S -> Int]
      /\ g = [s \in SUBSET S |-> IF s = {} THEN 0 ELSE f[AnyOf(s)] + g[s \ {AnyOf(s)}]]
  <2>1. \A s \in SUBSET S :
          g[s] = IF s = {} THEN 0 ELSE f[AnyOf(s)] + g[s \ {AnyOf(s)}]
    <3> TAKE s \in SUBSET S
    <3>1. s # {} => g[s \ {AnyOf(s)}] \in Int
      OBVIOUS
    <3> QED  BY <1>2, <1>4, <1>5, <3>1 DEF FoldsTo
  <2> QED  BY <2>1
<1>7. \E p : p = [s \in SUBSET S |-> IF s = {} THEN 0 ELSE f[AnyOf(s)] + p[s \ {AnyOf(s)}]]
  BY <1>6
<1>8. Partial(f, S)
        = [s \in SUBSET S |-> IF s = {} THEN 0
                              ELSE f[AnyOf(s)] + Partial(f, S)[s \ {AnyOf(s)}]]
  BY <1>7 DEF Partial
<1> DEFINE p == Partial(f, S)
           X == { s \in SUBSET S : p[s] # g[s] }
<1>9. DOMAIN p = SUBSET S
      /\ \A s \in SUBSET S : p[s] = IF s = {} THEN 0 ELSE f[AnyOf(s)] + p[s \ {AnyOf(s)}]
  BY <1>8
<1> HIDE DEF p
<1>10. X = {}
  <2> SUFFICES ASSUME X # {} PROVE FALSE
    OBVIOUS
  <2>1. PICK U \in X : \A x \in U : U \ {x} \notin X
    <3>1. X \in SUBSET SUBSET S  OBVIOUS
    <3> HIDE DEF X
    <3> QED  BY <3>1, SmallestSet
  <2>2. CASE U = {}
    BY <1>6, <1>9, <2>1, <2>2
  <2>3. CASE U # {}
    <3>1. AnyOf(U) \in U /\ U \ {AnyOf(U)} \in SUBSET S
      BY <1>2, <2>1, <2>3
    <3>2. p[U \ {AnyOf(U)}] = g[U \ {AnyOf(U)}]
      BY <2>1, <3>1
    <3>3. p[U] = f[AnyOf(U)] + p[U \ {AnyOf(U)}] /\ g[U] = f[AnyOf(U)] + g[U \ {AnyOf(U)}]
      BY <1>6, <1>9, <2>1, <2>3
    <3> QED  BY <2>1, <3>2, <3>3
  <2> QED  BY <2>2, <2>3
<1>11. p \in [SUBSET S -> Int]
  <2>1. \A s \in SUBSET S : p[s] = g[s]  BY <1>10
  <2>2. p = [s \in SUBSET S |-> p[s]]
    BY <1>8 DEF p
  <2> QED  BY <1>6, <2>1, <2>2
<1> QED  BY <1>9, <1>11 DEF p

\* The fold over a part of a set is what the fold of the whole says of it.
LEMMA PartialIsSum ==
  ASSUME NEW f, NEW S, IsFiniteSet(S), \A x \in S : f[x] \in Int, NEW T \in SUBSET S
  PROVE  Partial(f, S)[T] = SumFunctionOnSet(f, T)
<1> DEFINE p == Partial(f, S)
           q == Partial(f, T)
           X == { s \in SUBSET T : p[s] # q[s] }
<1>1. IsFiniteSet(T)
  BY FS_Subset
<1>2. \A s \in SUBSET S : p[s] = IF s = {} THEN 0 ELSE f[AnyOf(s)] + p[s \ {AnyOf(s)}]
  BY PartialExists
<1>3. \A s \in SUBSET T : q[s] = IF s = {} THEN 0 ELSE f[AnyOf(s)] + q[s \ {AnyOf(s)}]
  <2>1. \A x \in T : f[x] \in Int  OBVIOUS
  <2> QED  BY <1>1, <2>1, PartialExists
<1> HIDE DEF p, q
<1>4. X = {}
  <2> SUFFICES ASSUME X # {} PROVE FALSE
    OBVIOUS
  <2>1. PICK U \in X : \A x \in U : U \ {x} \notin X
    <3>1. X \in SUBSET SUBSET T  OBVIOUS
    <3> HIDE DEF X
    <3> QED  BY <1>1, <3>1, SmallestSet
  <2>2. U \in SUBSET S /\ U \in SUBSET T /\ p[U] # q[U]
    BY <2>1
  <2>3. CASE U = {}
    BY <1>2, <1>3, <2>2, <2>3
  <2>4. CASE U # {}
    <3>1. AnyOf(U) \in U /\ U \ {AnyOf(U)} \in SUBSET T
      BY <2>2, <2>4, SomeIsIn
    <3>2. p[U \ {AnyOf(U)}] = q[U \ {AnyOf(U)}]
      BY <2>1, <3>1
    <3> QED  BY <1>2, <1>3, <2>2, <2>4, <3>2
  <2> QED  BY <2>3, <2>4
<1>5. p[T] = q[T]
  BY <1>4
<1> QED  BY <1>5, SumIsPartial DEF p, q

LEMMA SumTyped ==
  ASSUME NEW f, NEW S, IsFiniteSet(S), \A x \in S : f[x] \in Int
  PROVE  SumFunctionOnSet(f, S) \in Int
<1>1. Partial(f, S) \in [SUBSET S -> Int] /\ S \in SUBSET S
  BY PartialExists
<1>2. Partial(f, S)[S] \in Int
  BY <1>1
<1> QED  BY <1>2, SumIsPartial

LEMMA SumEmpty ==
  ASSUME NEW f
  PROVE  SumFunctionOnSet(f, {}) = 0
<1>1. IsFiniteSet({}) /\ \A x \in {} : f[x] \in Int
  BY FS_EmptySet
<1>2. Partial(f, {})[{}] = 0
  BY <1>1, PartialExists
<1> QED  BY <1>2, SumIsPartial

\* The element the fold starts with.
LEMMA SumStep ==
  ASSUME NEW f, NEW S, IsFiniteSet(S), \A x \in S : f[x] \in Int, S # {}
  PROVE  /\ AnyOf(S) \in S
         /\ SumFunctionOnSet(f, S) = f[AnyOf(S)] + SumFunctionOnSet(f, S \ {AnyOf(S)})
<1> DEFINE p == Partial(f, S)
<1>0. \A s \in SUBSET S : p[s] = IF s = {} THEN 0 ELSE f[AnyOf(s)] + p[s \ {AnyOf(s)}]
  BY PartialExists
<1>1. p[S] = f[AnyOf(S)] + p[S \ {AnyOf(S)}]
  <2> HIDE DEF p
  <2> QED  BY <1>0
<1>2. p[S \ {AnyOf(S)}] = SumFunctionOnSet(f, S \ {AnyOf(S)})
  BY PartialIsSum
<1> QED  BY <1>1, <1>2, SumIsPartial, SomeIsIn

\* Every element of the set can be taken first.
LEMMA SumSplit ==
  ASSUME NEW f, NEW S, IsFiniteSet(S), \A x \in S : f[x] \in Int, NEW y \in S
  PROVE  SumFunctionOnSet(f, S) = f[y] + SumFunctionOnSet(f, S \ {y})
<1> DEFINE Sum(s) == SumFunctionOnSet(f, s)
           X == { s \in SUBSET S : \E z \in s : Sum(s) # f[z] + Sum(s \ {z}) }
<1>1. ASSUME NEW s \in SUBSET S
      PROVE  /\ IsFiniteSet(s) /\ \A x \in s : f[x] \in Int
             /\ Sum(s) \in Int
             /\ s # {} => AnyOf(s) \in s /\ Sum(s) = f[AnyOf(s)] + Sum(s \ {AnyOf(s)})
  <2>1. IsFiniteSet(s) /\ \A x \in s : f[x] \in Int
    BY FS_Subset
  <2>2. Sum(s) \in Int
    BY <2>1, SumTyped
  <2>3. s # {} => AnyOf(s) \in s /\ Sum(s) = f[AnyOf(s)] + Sum(s \ {AnyOf(s)})
    BY <2>1, SumStep
  <2> QED  BY <2>1, <2>2, <2>3
<1> HIDE DEF Sum
<1>2. X = {}
  <2> SUFFICES ASSUME X # {} PROVE FALSE
    OBVIOUS
  <2>1. PICK U \in X : \A x \in U : U \ {x} \notin X
    <3>1. X \in SUBSET SUBSET S  OBVIOUS
    <3> HIDE DEF X
    <3> QED  BY <3>1, SmallestSet
  <2>2. PICK z \in U : Sum(U) # f[z] + Sum(U \ {z})
    BY <2>1
  <2> DEFINE x == AnyOf(U)
  <2>3. U \in SUBSET S /\ x \in U /\ Sum(U) = f[x] + Sum(U \ {x})
    BY <1>1, <2>1, <2>2
  <2> HIDE DEF x
  <2>4. x # z
    BY <2>2, <2>3
  <2>5. /\ U \ {x} \in SUBSET S /\ U \ {z} \in SUBSET S /\ (U \ {x}) \ {z} \in SUBSET S
        /\ z \in U \ {x} /\ x \in U \ {z} /\ (U \ {z}) \ {x} = (U \ {x}) \ {z}
    BY <2>2, <2>3, <2>4
  <2>6. Sum(U \ {x}) = f[z] + Sum((U \ {x}) \ {z})
    BY <2>1, <2>3, <2>5
  <2>7. Sum(U \ {z}) = f[x] + Sum((U \ {x}) \ {z})
    BY <2>1, <2>2, <2>5
  <2>8. f[x] \in Int /\ f[z] \in Int /\ Sum((U \ {x}) \ {z}) \in Int
    BY <1>1, <2>2, <2>3, <2>5
  <2> QED  BY <2>2, <2>3, <2>6, <2>7, <2>8
<1>3. Sum(S) = f[y] + Sum(S \ {y})
  BY <1>2
<1> QED  BY <1>3 DEF Sum

\* A sum looks at nothing but the values on its set.
LEMMA SumSame ==
  ASSUME NEW f, NEW g, NEW S, IsFiniteSet(S),
         \A x \in S : f[x] \in Int /\ g[x] = f[x]
  PROVE  SumFunctionOnSet(g, S) = SumFunctionOnSet(f, S)
<1> DEFINE F(s) == SumFunctionOnSet(f, s)
           G(s) == SumFunctionOnSet(g, s)
           X == { s \in SUBSET S : F(s) # G(s) }
<1>1. ASSUME NEW s \in SUBSET S
      PROVE  /\ s = {} => F(s) = 0 /\ G(s) = 0
             /\ s # {} => /\ AnyOf(s) \in s
                          /\ F(s) = f[AnyOf(s)] + F(s \ {AnyOf(s)})
                          /\ G(s) = f[AnyOf(s)] + G(s \ {AnyOf(s)})
  <2>1. IsFiniteSet(s) /\ \A x \in s : f[x] \in Int /\ g[x] \in Int /\ g[x] = f[x]
    BY FS_Subset
  <2>2. s = {} => F(s) = 0 /\ G(s) = 0
    BY SumEmpty
  <2>3. s # {} => AnyOf(s) \in s /\ F(s) = f[AnyOf(s)] + F(s \ {AnyOf(s)})
    BY <2>1, SumStep
  <2>4. s # {} => G(s) = g[AnyOf(s)] + G(s \ {AnyOf(s)})
    BY <2>1, SumStep
  <2> HIDE DEF F, G
  <2> QED  BY <2>1, <2>2, <2>3, <2>4
<1> HIDE DEF F, G
<1>2. X = {}
  <2> SUFFICES ASSUME X # {} PROVE FALSE
    OBVIOUS
  <2>1. PICK U \in X : \A x \in U : U \ {x} \notin X
    <3>1. X \in SUBSET SUBSET S  OBVIOUS
    <3> HIDE DEF X
    <3> QED  BY <3>1, SmallestSet
  <2>2. U # {} /\ AnyOf(U) \in U /\ U \ {AnyOf(U)} \in SUBSET S
    BY <1>1, <2>1
  <2>3. F(U \ {AnyOf(U)}) = G(U \ {AnyOf(U)})
    BY <2>1, <2>2
  <2> QED  BY <1>1, <2>1, <2>2, <2>3
<1>3. F(S) = G(S)
  BY <1>2
<1> QED  BY <1>3 DEF F, G

\* One value changes, and the sum by as much.
LEMMA SumChange ==
  ASSUME NEW f, NEW g, NEW S, IsFiniteSet(S), NEW y \in S,
         \A x \in S : f[x] \in Int /\ g[x] \in Int,
         \A x \in S \ {y} : g[x] = f[x]
  PROVE  /\ SumFunctionOnSet(g, S) = SumFunctionOnSet(f, S) - f[y] + g[y]
         /\ SumFunctionOnSet(f, S) \in Int /\ SumFunctionOnSet(g, S) \in Int
<1>1. IsFiniteSet(S \ {y}) /\ \A x \in S \ {y} : f[x] \in Int
  BY FS_RemoveElement
<1>2. SumFunctionOnSet(g, S \ {y}) = SumFunctionOnSet(f, S \ {y})
      /\ SumFunctionOnSet(f, S \ {y}) \in Int
  BY <1>1, SumSame, SumTyped
<1>3. SumFunctionOnSet(f, S) = f[y] + SumFunctionOnSet(f, S \ {y})
  BY SumSplit
<1>4. SumFunctionOnSet(g, S) = g[y] + SumFunctionOnSet(g, S \ {y})
  BY SumSplit
<1> QED  BY <1>2, <1>3, <1>4

\* Nothing adds up to nothing.
LEMMA SumOfZeros ==
  ASSUME NEW f, NEW S, IsFiniteSet(S), \A x \in S : f[x] = 0
  PROVE  SumFunctionOnSet(f, S) = 0
<1> DEFINE F(s) == SumFunctionOnSet(f, s)
           X == { s \in SUBSET S : F(s) # 0 }
<1>1. ASSUME NEW s \in SUBSET S
      PROVE  /\ s = {} => F(s) = 0
             /\ s # {} => AnyOf(s) \in s /\ F(s) = 0 + F(s \ {AnyOf(s)})
  <2>1. IsFiniteSet(s) /\ \A x \in s : f[x] \in Int /\ f[x] = 0
    BY FS_Subset
  <2> QED  BY <2>1, SumEmpty, SumStep
<1> HIDE DEF F
<1>2. X = {}
  <2> SUFFICES ASSUME X # {} PROVE FALSE
    OBVIOUS
  <2>1. PICK U \in X : \A x \in U : U \ {x} \notin X
    <3>1. X \in SUBSET SUBSET S  OBVIOUS
    <3> HIDE DEF X
    <3> QED  BY <3>1, SmallestSet
  <2>2. U # {} /\ AnyOf(U) \in U /\ U \ {AnyOf(U)} \in SUBSET S
    BY <1>1, <2>1
  <2>3. F(U \ {AnyOf(U)}) = 0
    BY <2>1, <2>2
  <2> QED  BY <1>1, <2>1, <2>2, <2>3
<1>3. F(S) = 0
  BY <1>2
<1> QED  BY <1>3 DEF F

\* What each value is made of bounds the sum.
LEMMA SumBelow ==
  ASSUME NEW f, NEW g, NEW h, NEW S, IsFiniteSet(S),
         \A x \in S : f[x] \in Int /\ g[x] \in Int /\ h[x] \in Int /\ f[x] <= g[x] + h[x]
  PROVE  SumFunctionOnSet(f, S) <= SumFunctionOnSet(g, S) + SumFunctionOnSet(h, S)
<1> DEFINE F(s) == SumFunctionOnSet(f, s)
           G(s) == SumFunctionOnSet(g, s)
           H(s) == SumFunctionOnSet(h, s)
           X == { s \in SUBSET S : ~ (F(s) <= G(s) + H(s)) }
<1>1. ASSUME NEW s \in SUBSET S
      PROVE  /\ F(s) \in Int /\ G(s) \in Int /\ H(s) \in Int
             /\ s = {} => F(s) = 0 /\ G(s) = 0 /\ H(s) = 0
             /\ s # {} => /\ AnyOf(s) \in s
                          /\ F(s) = f[AnyOf(s)] + F(s \ {AnyOf(s)})
                          /\ G(s) = g[AnyOf(s)] + G(s \ {AnyOf(s)})
                          /\ H(s) = h[AnyOf(s)] + H(s \ {AnyOf(s)})
  <2>1. IsFiniteSet(s) /\ \A x \in s : f[x] \in Int /\ g[x] \in Int /\ h[x] \in Int
    BY FS_Subset
  <2>2. F(s) \in Int /\ G(s) \in Int /\ H(s) \in Int
    BY <2>1, SumTyped
  <2>3. s = {} => F(s) = 0 /\ G(s) = 0 /\ H(s) = 0
    BY SumEmpty
  <2>4. s # {} => AnyOf(s) \in s /\ F(s) = f[AnyOf(s)] + F(s \ {AnyOf(s)})
    BY <2>1, SumStep
  <2>5. s # {} => G(s) = g[AnyOf(s)] + G(s \ {AnyOf(s)})
    BY <2>1, SumStep
  <2>6. s # {} => H(s) = h[AnyOf(s)] + H(s \ {AnyOf(s)})
    BY <2>1, SumStep
  <2> HIDE DEF F, G, H
  <2> QED  BY <2>2, <2>3, <2>4, <2>5, <2>6
<1> HIDE DEF F, G, H
<1>2. X = {}
  <2> SUFFICES ASSUME X # {} PROVE FALSE
    OBVIOUS
  <2>1. PICK U \in X : \A x \in U : U \ {x} \notin X
    <3>1. X \in SUBSET SUBSET S  OBVIOUS
    <3> HIDE DEF X
    <3> QED  BY <3>1, SmallestSet
  <2> DEFINE a == AnyOf(U)
             V == U \ {a}
  <2>2. U # {} /\ a \in U /\ V \in SUBSET S /\ a \in S
    BY <1>1, <2>1
  <2>3. F(V) <= G(V) + H(V)
    BY <2>1, <2>2
  <2>4. F(U) = f[a] + F(V) /\ G(U) = g[a] + G(V) /\ H(U) = h[a] + H(V)
    BY <1>1, <2>1, <2>2
  <2>5. F(V) \in Int /\ G(V) \in Int /\ H(V) \in Int
    BY <1>1, <2>2
  <2>6. f[a] \in Int /\ g[a] \in Int /\ h[a] \in Int /\ f[a] <= g[a] + h[a]
    BY <2>2
  <2>7. ~ (F(U) <= G(U) + H(U))
    BY <2>1
  <2> HIDE DEF a, V
  <2> QED  BY <2>3, <2>4, <2>5, <2>6, <2>7
<1>3. F(S) <= G(S) + H(S)
  BY <1>2
<1> QED  BY <1>3 DEF F, G, H

-----------------------------------------------------------------------------
(* The members of a finite set in some order.                              *)

LEMMA SetToSeqTyped ==
  ASSUME NEW S, IsFiniteSet(S)
  PROVE  SetToSeq(S) \in Seq(S)
<1>1. Cardinality(S) \in Nat /\ ExistsBijection(1 .. Cardinality(S), S)
  BY FS_CardinalityType
<1>2. PICK f \in [1 .. Cardinality(S) -> S] : IsInjective(f)
  BY <1>1 DEF ExistsBijection, Bijection, Injection, Surjection, IsInjective
<1>3. SetToSeq(S) \in [1 .. Cardinality(S) -> S]
  BY <1>2 DEF SetToSeq
<1> QED  BY <1>1, <1>3

=============================================================================
