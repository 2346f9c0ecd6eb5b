---------------------------- MODULE StagedUploadsProofs ----------------------------
(* The staged-upload ledger, for every number of requests, keys, uploads and
   parts: LedgerCoversDisk, QuietLedgerExact, CapsHold, CompletedAsListed and
   type correctness are invariants of StagedUploads.

   The ledger's checks compare sums over all files, so the first section proves
   what a sum over a finite set is, from the fold that defines it.  The
   invariant then gives every request an account: what it holds of the ledger
   beyond the disk, and by how much it may take the ledger above its caps.
   Every action is shown to be a GoodStep of one request, one that changes the
   ledger by exactly what it changes on disk and in that request's account;
   that a good step preserves the invariant is proved once.                   *)
EXTENDS StagedUploads, FiniteSetTheorems, TLAPS

-----------------------------------------------------------------------------
(* Sums over finite sets *)

(* Induction over a finite set without a predicate parameter: a set of subsets of S
   that holds T whenever it holds every T without one element of it holds S. A smallest
   subset that is missing would contradict that. *)
LEMMA SetInduction ==
  ASSUME NEW S, IsFiniteSet(S), NEW Good,
         \A T \in SUBSET S : (\A x \in T : T \ {x} \in Good) => T \in Good
  PROVE  S \in Good
<1>. DEFINE Bad == (SUBSET S) \ Good
<1>1. SUFFICES ASSUME Bad # {} PROVE FALSE
  OBVIOUS
<1>2. PICK T \in Bad : \A U \in Bad : ~ (<<U, T>> \in StrictSubsetOrdering(S))
  <2>1. IsWellFoundedOn(StrictSubsetOrdering(S), SUBSET S)
    BY FS_StrictSubsetOrderingWellFounded, FS_FiniteSubsetsOfFinite
  <2>2. Bad \subseteq SUBSET S
    OBVIOUS
  <2>. HIDE DEF Bad
  <2>. QED BY <1>1, <2>1, <2>2, WFMin
<1>3. ASSUME NEW x \in T PROVE T \ {x} \in Good
  <2>. DEFINE U == T \ {x}
  <2>1. U \in SUBSET S /\ T \in SUBSET S /\ U \subseteq T /\ U # T
    OBVIOUS
  <2>2. <<U, T>> \in StrictSubsetOrdering(S)
    <3>. HIDE DEF U
    <3>. QED BY <2>1 DEF StrictSubsetOrdering
  <2>. QED BY <1>2, <2>1, <2>2
<1>. QED BY <1>2, <1>3

(* The element MapThenFoldSet takes next, and the function it defines by recursion over
   the subsets of S. *)
Pick(T) == CHOOSE x \in T : TRUE
IsSum(g, f, S) ==
  g = [T \in SUBSET S |-> IF T = {} THEN 0 ELSE f[Pick(T)] + g[T \ {Pick(T)}]]

(* Sum, the total the ledger's checks compare, is the value at S of that recursive
   function. *)
LEMMA SumUnfolds ==
  ASSUME NEW f, NEW S
  PROVE Sum(f, S) = (CHOOSE g : IsSum(g, f, S))[S]
BY DEF Sum, MapThenSumSet, MapThenFoldSet, IsSum, Pick

(* The element taken next is one of the set. *)
LEMMA PickIn == ASSUME NEW T, T # {} PROVE Pick(T) \in T
BY DEF Pick

(* The equation of the recursive function at one subset. *)
LEMMA SumAt ==
  ASSUME NEW g, NEW f, NEW S, IsSum(g, f, S), NEW T \in SUBSET S
  PROVE  g[T] = IF T = {} THEN 0 ELSE f[Pick(T)] + g[T \ {Pick(T)}]
<1>. DEFINE v(U) == IF U = {} THEN 0 ELSE f[Pick(U)] + g[U \ {Pick(U)}]
<1>1. g = [U \in SUBSET S |-> v(U)]
  BY DEF IsSum
<1>. HIDE DEF v
<1>2. g[T] = v(T)
  BY <1>1
<1>. QED BY <1>2 DEF v

(* Two such functions, over a set and over a larger one, agree on the smaller: what the
   sum of a set is does not depend on which set the recursion was set up for. *)
LEMMA SumUnique ==
  ASSUME NEW f, NEW S, NEW U, IsFiniteSet(S), S \subseteq U,
         NEW g, IsSum(g, f, S), NEW h, IsSum(h, f, U)
  PROVE  g[S] = h[S]
<1>. DEFINE Good == {T \in SUBSET S : g[T] = h[T]}
<1>1. ASSUME NEW T \in SUBSET S, \A x \in T : T \ {x} \in Good
      PROVE  T \in Good
  <2>1. T = {} => g[T] = h[T]
    BY SumAt
  <2>2. ASSUME T # {} PROVE g[T] = h[T]
    <3>. DEFINE p == Pick(T)
    <3>1. p \in T
      BY <2>2, PickIn
    <3>2. g[T] = f[p] + g[T \ {p}]
      BY <2>2, SumAt
    <3>3. h[T] = f[p] + h[T \ {p}]
      BY <2>2, SumAt, T \in SUBSET U
    <3>4. g[T \ {p}] = h[T \ {p}]
      BY <1>1, <3>1
    <3>. HIDE DEF p
    <3>. QED BY <3>2, <3>3, <3>4
  <2>. QED BY <2>1, <2>2
<1>. HIDE DEF Good
<1>2. S \in Good
  BY <1>1, SetInduction
<1>. QED BY <1>2 DEF Good

(* Every finite set has such a function, so the CHOOSE inside Sum finds one. *)
LEMMA SumExists ==
  ASSUME NEW f, NEW S, IsFiniteSet(S)
  PROVE  \E g : IsSum(g, f, S)
<1>. DEFINE Good == {T \in SUBSET S : \A U \in SUBSET T : \E g : IsSum(g, f, U)}
<1>1. ASSUME NEW T \in SUBSET S, \A x \in T : T \ {x} \in Good
      PROVE  T \in Good
  <2>. DEFINE G(U) == CHOOSE g : IsSum(g, f, U)
              w(U) == IF U = {} THEN 0 ELSE f[Pick(U)] + G(U \ {Pick(U)})[U \ {Pick(U)}]
              g == [U \in SUBSET T |-> w(U)]
  <2>1. ASSUME NEW U \in SUBSET T, U # T PROVE \E h : IsSum(h, f, U)
    <3>1. PICK x \in T : x \notin U
      BY <2>1
    <3>2. U \in SUBSET (T \ {x})
      BY <3>1
    <3>. QED BY <1>1, <3>1, <3>2
  <2>2. ASSUME NEW U \in SUBSET T, U # T PROVE IsSum(G(U), f, U)
    BY <2>1, <2>2
  <2>3. ASSUME NEW U \in SUBSET T, U # T PROVE g[U] = G(U)[U]
    <3>1. CASE U = {}
      BY <2>2, <2>3, <3>1, SumAt
    <3>2. CASE U # {}
      <4>. DEFINE p == Pick(U)
                  V == U \ {p}
      <4>1. p \in U
        BY <3>2, PickIn
      <4>2. G(U)[U] = f[p] + G(U)[V]
        BY <2>2, <2>3, <3>2, SumAt
      <4>3. V \in SUBSET T /\ V # T /\ V \subseteq U
        BY <4>1
      <4>4. IsSum(G(V), f, V) /\ IsSum(G(U), f, U)
        BY <2>2, <2>3, <4>3
      <4>5. IsFiniteSet(V)
        BY <4>3, FS_Subset
      <4>6. G(V)[V] = G(U)[V]
        <5>. HIDE DEF G, V
        <5>. QED BY <4>3, <4>4, <4>5, SumUnique
      <4>7. g[U] = f[p] + G(V)[V]
        BY <3>2
      <4>. HIDE DEF G, V, p, g
      <4>. QED BY <4>2, <4>6, <4>7
    <3>. QED BY <3>1, <3>2
  <2>4. IsSum(g, f, T)
    <3>1. ASSUME NEW U \in SUBSET T, U # {}
          PROVE  G(U \ {Pick(U)})[U \ {Pick(U)}] = g[U \ {Pick(U)}]
      <4>1. Pick(U) \in U
        BY <3>1, PickIn
      <4>2. U \ {Pick(U)} \in SUBSET T /\ U \ {Pick(U)} # T
        BY <4>1
      <4>. QED BY <2>3, <4>2
    <3>. DEFINE v(U) == IF U = {} THEN 0 ELSE f[Pick(U)] + g[U \ {Pick(U)}]
    <3>2. ASSUME NEW U \in SUBSET T PROVE w(U) = v(U)
      <4>1. CASE U = {}
        BY <4>1
      <4>2. CASE U # {}
        <5>1. G(U \ {Pick(U)})[U \ {Pick(U)}] = g[U \ {Pick(U)}]
          BY <3>1, <4>2
        <5>. HIDE DEF g, G
        <5>. QED BY <4>2, <5>1
      <4>. QED BY <4>1, <4>2
    <3>3. g = [U \in SUBSET T |-> v(U)]
      <4>. HIDE DEF w, v
      <4>1. g = [U \in SUBSET T |-> w(U)]
        BY DEF g
      <4>. HIDE DEF g
      <4>. QED BY <3>2, <4>1
    <3>. QED BY <3>3 DEF IsSum
  <2>. HIDE DEF g
  <2>. QED BY <2>1, <2>4
<1>. HIDE DEF Good
<1>2. S \in Good
  BY <1>1, SetInduction
<1>. QED BY <1>2 DEF Good

(* The sum over no element is zero. *)
LEMMA SumEmpty ==
  ASSUME NEW f PROVE Sum(f, {}) = 0
<1>1. IsSum(CHOOSE g : IsSum(g, f, {}), f, {})
  BY SumExists, FS_EmptySet
<1>. QED BY <1>1, SumAt, SumUnfolds

(* The sum over a set is the value of the element taken next and the sum over the
   others. *)
LEMMA SumStep ==
  ASSUME NEW f, NEW S, IsFiniteSet(S), S # {}
  PROVE  Sum(f, S) = f[Pick(S)] + Sum(f, S \ {Pick(S)})
<1>. DEFINE p == Pick(S)
            V == S \ {p}
            G(U) == CHOOSE g : IsSum(g, f, U)
<1>1. p \in S
  BY PickIn
<1>2. IsFiniteSet(V) /\ V \subseteq S
  BY FS_Subset
<1>3. IsSum(G(S), f, S) /\ IsSum(G(V), f, V)
  BY <1>2, SumExists
<1>4. Sum(f, S) = G(S)[S] /\ Sum(f, V) = G(V)[V]
  BY SumUnfolds
<1>. HIDE DEF G
<1>5. G(S)[S] = f[p] + G(S)[V]
  BY <1>3, SumAt
<1>. HIDE DEF V
<1>6. G(V)[V] = G(S)[V]
  BY <1>2, <1>3, SumUnique
<1>. HIDE DEF p
<1>7. Sum(f, S) = f[p] + Sum(f, V)
  BY <1>4, <1>5, <1>6
<1>. QED BY <1>7 DEF V, p

(* A sum of integers is an integer. *)
LEMMA SumInt ==
  ASSUME NEW S, IsFiniteSet(S), NEW f, \A x \in S : f[x] \in Int
  PROVE  Sum(f, S) \in Int
<1>. DEFINE Good == {T \in SUBSET S : Sum(f, T) \in Int}
<1>1. ASSUME NEW T \in SUBSET S, \A x \in T : T \ {x} \in Good
      PROVE  T \in Good
  <2>1. CASE T = {}
    BY <2>1, SumEmpty
  <2>2. CASE T # {}
    <3>1. Pick(T) \in T
      BY <2>2, PickIn
    <3>2. Sum(f, T) = f[Pick(T)] + Sum(f, T \ {Pick(T)})
      BY <2>2, SumStep, FS_Subset
    <3>3. Sum(f, T \ {Pick(T)}) \in Int /\ f[Pick(T)] \in Int
      BY <1>1, <3>1
    <3>. QED BY <3>2, <3>3
  <2>. QED BY <2>1, <2>2
<1>. HIDE DEF Good
<1>2. S \in Good
  BY <1>1, SetInduction
<1>. QED BY <1>2 DEF Good

(* A sum can be split at any element, not only at the one the recursion takes. *)
LEMMA SumSplit ==
  ASSUME NEW S, IsFiniteSet(S), NEW f, \A x \in S : f[x] \in Int, NEW x \in S
  PROVE  Sum(f, S) = f[x] + Sum(f, S \ {x})
<1>. DEFINE Good == {T \in SUBSET S : \A y \in T : Sum(f, T) = f[y] + Sum(f, T \ {y})}
<1>1. ASSUME NEW T \in SUBSET S, \A y \in T : T \ {y} \in Good
      PROVE  T \in Good
  <2>. SUFFICES ASSUME NEW y \in T PROVE Sum(f, T) = f[y] + Sum(f, T \ {y})
    OBVIOUS
  <2>. DEFINE p == Pick(T)
  <2>1. p \in T /\ IsFiniteSet(T)
    BY PickIn, FS_Subset
  <2>2. Sum(f, T) = f[p] + Sum(f, T \ {p})
    BY <2>1, SumStep
  <2>. HIDE DEF p
  <2>3. ASSUME y # p PROVE Sum(f, T) = f[y] + Sum(f, T \ {y})
    <3>. DEFINE R == (T \ {p}) \ {y}
    <3>1. Sum(f, T \ {p}) = f[y] + Sum(f, R)
      BY <1>1, <2>1, <2>3
    <3>2. Sum(f, T \ {y}) = f[p] + Sum(f, (T \ {y}) \ {p})
      BY <1>1, <2>1, <2>3
    <3>3. (T \ {y}) \ {p} = R
      OBVIOUS
    <3>4. IsFiniteSet(R) /\ R \subseteq S
      BY FS_Subset
    <3>. HIDE DEF R
    <3>5. Sum(f, R) \in Int
      BY <3>4, SumInt
    <3>6. f[p] \in Int /\ f[y] \in Int
      BY <2>1
    <3>. DEFINE total == Sum(f, T)
                less  == Sum(f, T \ {y})
                lesser == Sum(f, T \ {p})
                rest == Sum(f, R)
    <3>7. total = f[p] + lesser /\ lesser = f[y] + rest /\ less = f[p] + rest
      BY <2>2, <3>1, <3>2, <3>3
    <3>8. rest \in Int
      BY <3>5
    <3>. HIDE DEF total, less, lesser, rest
    <3>9. total = f[y] + less
      BY <3>6, <3>7, <3>8
    <3>. QED BY <3>9 DEF total, less
  <2>. QED BY <2>2, <2>3
<1>. HIDE DEF Good
<1>2. S \in Good
  BY <1>1, SetInduction
<1>. QED BY <1>2 DEF Good

(* A sum does not fall when no summand does. *)
LEMMA SumMonotone ==
  ASSUME NEW S, IsFiniteSet(S), NEW f, NEW g,
         \A x \in S : f[x] \in Int /\ g[x] \in Int /\ f[x] <= g[x]
  PROVE  Sum(f, S) <= Sum(g, S)
<1>. DEFINE Good == {T \in SUBSET S : Sum(f, T) <= Sum(g, T)}
<1>1. ASSUME NEW T \in SUBSET S, \A x \in T : T \ {x} \in Good
      PROVE  T \in Good
  <2>1. CASE T = {}
    BY <2>1, SumEmpty
  <2>2. CASE T # {}
    <3>. DEFINE p == Pick(T)
                R == T \ {p}
    <3>1. p \in T /\ IsFiniteSet(T) /\ IsFiniteSet(R)
      BY <2>2, PickIn, FS_Subset
    <3>2. Sum(f, T) = f[p] + Sum(f, R) /\ Sum(g, T) = g[p] + Sum(g, R)
      BY <2>2, <3>1, SumStep
    <3>3. Sum(f, R) <= Sum(g, R)
      BY <1>1, <3>1
    <3>4. R \subseteq S
      OBVIOUS
    <3>. HIDE DEF p, R
    <3>5. Sum(f, R) \in Int /\ Sum(g, R) \in Int
      BY <3>1, <3>4, SumInt
    <3>6. f[p] \in Int /\ g[p] \in Int /\ f[p] <= g[p]
      BY <3>1
    <3>. QED BY <3>2, <3>3, <3>5, <3>6
  <2>. QED BY <2>1, <2>2
<1>. HIDE DEF Good
<1>2. S \in Good
  BY <1>1, SetInduction
<1>. QED BY <1>2 DEF Good

(* The sums of two functions with the same values are the same. *)
LEMMA SumSame ==
  ASSUME NEW S, IsFiniteSet(S), NEW f, NEW g,
         \A x \in S : f[x] \in Int /\ g[x] = f[x]
  PROVE  Sum(g, S) = Sum(f, S)
<1>1. Sum(f, S) \in Int /\ Sum(g, S) \in Int
  BY SumInt
<1>2. Sum(f, S) <= Sum(g, S) /\ Sum(g, S) <= Sum(f, S)
  BY SumMonotone
<1>. QED BY <1>1, <1>2

(* Changing one summand changes the sum by the difference: what every booking of the
   ledger relies on, since a request changes one file's size at a time. *)
LEMMA SumChange ==
  ASSUME NEW S, IsFiniteSet(S), NEW f, NEW g, NEW x \in S,
         \A y \in S : f[y] \in Int /\ g[y] \in Int,
         \A y \in S : y # x => g[y] = f[y]
  PROVE  Sum(g, S) = (Sum(f, S) - f[x]) + g[x]
<1>. DEFINE R == S \ {x}
<1>1. Sum(f, S) = f[x] + Sum(f, R) /\ Sum(g, S) = g[x] + Sum(g, R)
  BY SumSplit
<1>2. IsFiniteSet(R) /\ \A y \in R : f[y] \in Int /\ g[y] = f[y]
  BY FS_Subset
<1>. HIDE DEF R
<1>3. Sum(g, R) = Sum(f, R) /\ Sum(f, R) \in Int
  BY <1>2, SumSame, SumInt
<1>. QED BY <1>1, <1>3

(* A sum of zeros is zero. *)
LEMMA SumZero ==
  ASSUME NEW S, IsFiniteSet(S), NEW f, \A x \in S : f[x] = 0
  PROVE  Sum(f, S) = 0
<1>. DEFINE Good == {T \in SUBSET S : Sum(f, T) = 0}
<1>1. ASSUME NEW T \in SUBSET S, \A x \in T : T \ {x} \in Good
      PROVE  T \in Good
  <2>1. CASE T = {}
    BY <2>1, SumEmpty
  <2>2. CASE T # {}
    <3>1. Pick(T) \in T /\ IsFiniteSet(T)
      BY <2>2, PickIn, FS_Subset
    <3>2. Sum(f, T) = f[Pick(T)] + Sum(f, T \ {Pick(T)})
      BY <2>2, <3>1, SumStep
    <3>. QED BY <1>1, <3>1, <3>2
  <2>. QED BY <2>1, <2>2
<1>. HIDE DEF Good
<1>2. S \in Good
  BY <1>1, SetInduction
<1>. QED BY <1>2 DEF Good

(* A sum of naturals is a natural no smaller than any of its summands. *)
LEMMA SumNat ==
  ASSUME NEW S, IsFiniteSet(S), NEW f, \A x \in S : f[x] \in Nat
  PROVE  Sum(f, S) \in Nat /\ \A x \in S : f[x] <= Sum(f, S)
<1>1. ASSUME NEW T \in SUBSET S PROVE Sum(f, T) \in Nat
  <2>. DEFINE zero == [x \in T |-> 0]
  <2>1. Sum(zero, T) = 0 /\ IsFiniteSet(T)
    BY SumZero, FS_Subset
  <2>2. \A x \in T : zero[x] \in Int /\ f[x] \in Int /\ zero[x] <= f[x]
    OBVIOUS
  <2>. HIDE DEF zero
  <2>3. 0 <= Sum(f, T) /\ Sum(f, T) \in Int
    BY <2>1, <2>2, SumMonotone, SumInt
  <2>. QED BY <2>3
<1>2. ASSUME NEW x \in S PROVE f[x] <= Sum(f, S)
  <2>1. Sum(f, S) = f[x] + Sum(f, S \ {x})
    BY SumSplit
  <2>2. Sum(f, S \ {x}) \in Nat
    BY <1>1
  <2>. QED BY <2>1, <2>2
<1>. QED BY <1>1, <1>2

(* How many elements pass a test changes by the one element whose test changes. *)
LEMMA CardinalityChange ==
  ASSUME NEW S, IsFiniteSet(S), NEW A \in SUBSET S, NEW B \in SUBSET S, NEW x,
         A \ {x} = B \ {x}
  PROVE  Cardinality(B) = (Cardinality(A) - (IF x \in A THEN 1 ELSE 0))
                             + (IF x \in B THEN 1 ELSE 0)
<1>. DEFINE R == A \ {x}
<1>1. IsFiniteSet(A) /\ IsFiniteSet(B)
  BY FS_Subset
<1>2. Cardinality(A) \in Nat /\ Cardinality(B) \in Nat
  BY <1>1, FS_CardinalityType
<1>3. Cardinality(A \ {x}) = IF x \in A THEN Cardinality(A) - 1 ELSE Cardinality(A)
  BY <1>1, FS_RemoveElement
<1>4. Cardinality(B \ {x}) = IF x \in B THEN Cardinality(B) - 1 ELSE Cardinality(B)
  BY <1>1, FS_RemoveElement, Zenon
<1>. DEFINE a == Cardinality(A)  b == Cardinality(B)  c == Cardinality(A \ {x})
<1>5. c = (IF x \in A THEN a - 1 ELSE a) /\ c = (IF x \in B THEN b - 1 ELSE b)
  BY <1>3, <1>4
<1>. HIDE DEF a, b, c
<1>6. b = (a - (IF x \in A THEN 1 ELSE 0)) + (IF x \in B THEN 1 ELSE 0)
  BY <1>2, <1>5 DEF a, b
<1>. QED BY <1>6 DEF a, b

(* Count, the number of files that are there, changes by the one file that is written
   or removed. *)
LEMMA CountChange ==
  ASSUME NEW S, IsFiniteSet(S), NEW f, NEW g, NEW x \in S,
         \A y \in S : y # x => g[y] = f[y]
  PROVE  Count(g, S) = (Count(f, S) - (IF f[x] > 0 THEN 1 ELSE 0))
                          + (IF g[x] > 0 THEN 1 ELSE 0)
<1>. DEFINE A == {y \in S : f[y] > 0}
            B == {y \in S : g[y] > 0}
<1>1. A \in SUBSET S /\ B \in SUBSET S /\ A \ {x} = B \ {x}
  OBVIOUS
<1>2. (x \in A <=> f[x] > 0) /\ (x \in B <=> g[x] > 0)
  OBVIOUS
<1>3. Count(f, S) = Cardinality(A) /\ Count(g, S) = Cardinality(B)
  BY DEF Count
<1>. HIDE DEF A, B
<1>. QED BY <1>1, <1>2, <1>3, CardinalityChange

(* A count of files is a natural. *)
LEMMA CountNat ==
  ASSUME NEW S, IsFiniteSet(S), NEW f
  PROVE  Count(f, S) \in Nat
BY FS_Subset, FS_CardinalityType DEF Count

(* There are no more files of which something is there than the sum of their numbers,
   when each has a number above zero. *)
LEMMA CountAtMost ==
  ASSUME NEW S, IsFiniteSet(S), NEW f, NEW g, \A x \in S : g[x] \in Nat,
         \A x \in S : f[x] > 0 => g[x] > 0
  PROVE  Count(f, S) <= Sum(g, S)
<1>. DEFINE Good == {T \in SUBSET S : Count(f, T) <= Sum(g, T)}
<1>1. ASSUME NEW T \in SUBSET S, \A x \in T : T \ {x} \in Good
      PROVE  T \in Good
  <2>1. CASE T = {}
    <3>1. {x \in {} : f[x] > 0} = {}
      OBVIOUS
    <3>. QED BY <2>1, <3>1, SumEmpty, FS_EmptySet DEF Count
  <2>2. CASE T # {}
    <3>. DEFINE p == Pick(T)
                R == T \ {p}
                A == {x \in R : f[x] > 0}
                B == {x \in T : f[x] > 0}
    <3>1. p \in T /\ IsFiniteSet(T) /\ IsFiniteSet(R)
      BY <2>2, PickIn, FS_Subset
    <3>2. Sum(g, T) = g[p] + Sum(g, R)
      BY <2>2, <3>1, SumStep
    <3>3. Count(f, R) <= Sum(g, R)
      BY <1>1, <3>1
    <3>4. A \in SUBSET T /\ B \in SUBSET T /\ A \ {p} = B \ {p} /\ p \notin A
          /\ (p \in B <=> f[p] > 0)
      BY <3>1
    <3>5. Count(f, R) = Cardinality(A) /\ Count(f, T) = Cardinality(B)
      BY DEF Count
    <3>6. R \subseteq S /\ p \in S
      BY <3>1
    <3>. HIDE DEF p, R, A, B
    <3>7. Count(f, T) = Count(f, R) + (IF f[p] > 0 THEN 1 ELSE 0)
      <4>1. Cardinality(B) = (Cardinality(A) - 0) + (IF p \in B THEN 1 ELSE 0)
        BY <3>1, <3>4, CardinalityChange
      <4>2. Count(f, R) \in Nat
        BY <3>1, CountNat
      <4>. QED BY <3>4, <3>5, <4>1, <4>2
    <3>8. Sum(g, R) \in Int /\ Count(f, R) \in Nat /\ g[p] \in Nat
      BY <3>1, <3>6, SumInt, CountNat
    <3>9. f[p] > 0 => g[p] > 0
      BY <3>6
    <3>. QED BY <3>2, <3>3, <3>7, <3>8, <3>9
  <2>. QED BY <2>1, <2>2
<1>. HIDE DEF Good
<1>2. S \in Good
  BY <1>1, SetInduction
<1>. QED BY <1>2 DEF Good

-----------------------------------------------------------------------------
(* The inductive invariant: one request *)

(* What a request is, where it stands, and what the model remembers of it. *)
Ops == {"none", "put", "part", "create", "complete", "abort"}
Pcs == {"idle", "done", "read", "body", "store", "rename", "name", "mkdir", "key", "clean",
        "claim", "join", "swap", "settle", "discard", "reopen"}
Listings == UNION {[L -> Nat] : L \in SUBSET Parts}
Usages == [bytes : Nat, files : Nat]
States == {"none", "keyless", "open", "joining", "joined", "left", "gone"}
Call == [op : Ops, pc : Pcs, key : Keys \cup {NoRequest},
         s : Sessions \cup {NoRequest}, n : Parts \cup {NoRequest},
         listed : Listings, replaced : Nat, bytes : Nat, files : Nat,
         usage : Usages, freed : Nat, ok : BOOLEAN]
Ledger == [loaded : BOOLEAN, bytes : Int, files : Int, sessions : Int]

(* The types of the variables. The ledger is an integer here: that it never falls below
   zero needs the accounts below. *)
TypeInv ==
    /\ stored \in [Keys -> Nat] /\ incoming \in [Requests -> Nat]
    /\ session \in [Sessions -> States]
    /\ part \in [Sessions -> [Parts -> Nat]]
    /\ ledger \in Ledger
    /\ lock \in Requests \cup {NoRequest}
    /\ overdrawn \in BOOLEAN /\ overcounted \in Usages
    /\ req \in [Requests -> Call]

(* The places of the code an operation of each kind comes through. *)
Places ==
    {<<"none", "idle">>, <<"none", "done">>, <<"abort", "store">>}
      \cup ({"put"} \X {"read", "body", "store", "rename", "settle"})
      \cup ({"part"} \X {"read", "body", "store", "name"})
      \cup ({"create"} \X {"read", "mkdir", "key", "clean"})
      \cup ({"complete"} \X {"claim", "join", "swap", "rename", "reopen",
                              "settle", "discard"})

(* A request is at a place of its own operation, knows the key, upload and part it is
   about, and is carried out only while the ledger is loaded. *)
PlaceInv(r) ==
    /\ <<req[r].op, req[r].pc>> \in Places
    /\ req[r].op \in {"put", "complete"} => req[r].key \in Keys
    /\ req[r].op \in {"part", "create", "complete", "abort"} => req[r].s \in Sessions
    /\ req[r].op = "part" => req[r].n \in Parts
    /\ req[r].op = "complete" =>
          /\ DOMAIN req[r].listed # {}
          /\ \A n \in DOMAIN req[r].listed : req[r].listed[n] > 0
    /\ Busy(r) => ledger.loaded

(* Fresh: nothing is booked for the request. Streams: its body is coming in. Joined:
   the parts are written to one file. Joining: it has claimed its upload. Whole: the
   size of the object it completes. *)
Fresh(r) == \/ req[r].pc \in {"idle", "done", "read", "claim", "mkdir", "key", "clean"}
            \/ req[r].op = "abort"
Streams(r) == req[r].op \in {"put", "part"} /\ req[r].pc \in {"body", "store", "name", "rename"}
Joined(r) == req[r].op = "complete" /\ req[r].pc \in {"swap", "rename"} /\ req[r].ok
Joining(r) == req[r].op = "complete" /\ req[r].pc # "claim"
Whole(r) == Sum(req[r].listed, DOMAIN req[r].listed)

(* What is booked for a request, by where it is, and what of it lies in the incoming
   file. *)
HoldInv(r) ==
    /\ Fresh(r) => req[r].bytes = 0 /\ req[r].files = 0 /\ req[r].replaced = 0
    /\ req[r].pc = "discard" => req[r].bytes = 0 /\ req[r].files = 0
    /\ ~Fresh(r) /\ req[r].pc # "discard" => req[r].files = 1
    /\ ~Joining(r) => req[r].usage.bytes = 0 /\ req[r].usage.files = 0
    /\ ~Fresh(r) /\ req[r].pc \notin {"body", "discard"} => req[r].bytes > 0
    /\ ledger.loaded =>
          incoming[r] = IF Streams(r) \/ Joined(r) THEN req[r].bytes ELSE 0

(* Between the steps of store_put, store_part and swap_in the request has the lock;
   what it read under the lock therefore still holds. *)
LockInv(r) == req[r].pc \in {"name", "rename", "settle", "discard", "reopen"} => lock = r
NameInv(r) ==
    req[r].pc = "name" => session[req[r].s] = "open" /\ part[req[r].s][req[r].n] = 0
MakeInv(r) == req[r].op = "create" =>
    /\ \A n \in Parts : part[req[r].s][n] = 0
    /\ req[r].pc \in {"read", "mkdir"} => session[req[r].s] = "none"
    /\ req[r].pc = "key" => session[req[r].s] = "keyless"
    /\ req[r].pc = "clean" => session[req[r].s] = "left"

(* An upload that is claimed keeps its parts as they were listed until the request that
   claimed it has removed or reopened it. *)
JoinInv(r) ==
    /\ Joining(r) =>
          /\ session[req[r].s] = "joining"
          /\ req[r].usage.bytes = PartBytes(req[r].s)
          /\ req[r].usage.files = PartFiles(req[r].s)
          /\ \A n \in DOMAIN req[r].listed : part[req[r].s][n] = req[r].listed[n]
          /\ req[r].pc \in {"join", "swap", "rename", "reopen"} => req[r].bytes = Whole(r)
          /\ req[r].pc \in {"settle", "discard"} => stored[req[r].key] = Whole(r)
          /\ req[r].pc = "rename" => req[r].ok
          /\ req[r].pc = "reopen" => ~req[r].ok
    /\ req[r].pc \in {"claim", "join"} => ~req[r].ok

(* Unless the cap was already passed, what a rename replaced is at least what the
   request was given room for. *)
SettleInv(r) ==
    req[r].pc = "settle" /\ ~overdrawn => req[r].replaced <= req[r].freed + req[r].usage.bytes
RequestInv(r) ==
    /\ PlaceInv(r) /\ HoldInv(r) /\ LockInv(r) /\ NameInv(r) /\ MakeInv(r)
    /\ JoinInv(r) /\ SettleInv(r)

-----------------------------------------------------------------------------
(* The inductive invariant: the ledger *)

(* No two requests create one upload, and no two join one. *)
OneMaker == \A q, r \in Requests :
    req[q].op = "create" /\ req[r].op = "create" /\ req[q].s = req[r].s => q = r
OneJoins == \A q, r \in Requests :
    Joining(q) /\ Joining(r) /\ req[q].s = req[r].s => q = r

(* What the ledger holds for one request beyond the files on disk: the bytes and files
   it has booked or has yet to give back, and the upload it is making. *)
Present(size) == IF size > 0 THEN 1 ELSE 0
Less(a, b) == IF a < b THEN a ELSE b
HeldBy(r) == IF req[r].pc = "settle" THEN req[r].freed ELSE req[r].bytes
HeldFilesBy(r) == IF req[r].pc = "settle" THEN Present(req[r].freed) ELSE req[r].files
MakesBy(r) == IF req[r].pc = "mkdir" THEN 1 ELSE 0

(* How far one request may take the ledger above its caps: the copy it replaces is on
   disk until the rename, so room for it was given twice. *)
SlackBy(r) ==
    CASE req[r].pc = "discard" -> req[r].usage.bytes
      [] req[r].pc = "settle" -> req[r].replaced
      [] req[r].pc = "name" -> IF req[r].replaced <= req[r].freed THEN 0
                               ELSE Less(req[r].bytes, req[r].replaced - req[r].freed)
      [] OTHER -> Less(req[r].bytes, req[r].replaced)
SlackFilesBy(r) ==
    CASE req[r].pc = "discard" -> req[r].usage.files
      [] req[r].pc = "settle" ->
            req[r].usage.files + (IF req[r].replaced > req[r].usage.bytes THEN 1 ELSE 0)
      [] req[r].pc = "name" -> IF req[r].replaced > req[r].freed THEN 1 ELSE 0
      [] OTHER -> IF /\ req[r].files > 0
                     /\ req[r].usage.files > 0 \/ req[r].replaced > req[r].usage.bytes
                  THEN 1 ELSE 0

(* The same, over all requests. *)
Held == Sum([r \in Requests |-> HeldBy(r)], Requests)
HeldFiles == Sum([r \in Requests |-> HeldFilesBy(r)], Requests)
Makes == Sum([r \in Requests |-> MakesBy(r)], Requests)
Slack == Sum([r \in Requests |-> SlackBy(r)], Requests)
SlackFiles == Sum([r \in Requests |-> SlackFilesBy(r)], Requests)

(* What the ledger counts beside the requests: the objects, the uploads that were not
   released, and what it still counts of parts that a failed abort removed. *)
Counts(state) == state \notin {"joined", "left"}
KeptBytes(s) == IF Counts(session[s]) THEN PartBytes(s) ELSE 0
KeptFiles(s) == IF Counts(session[s]) THEN PartFiles(s) ELSE 0
Stock == Sum(stored, Keys) + Sum([s \in Sessions |-> KeptBytes(s)], Sessions)
            + overcounted.bytes
FileStock == Count(stored, Keys) + Sum([s \in Sessions |-> KeptFiles(s)], Sessions)
                + overcounted.files
SessionStock == Cardinality({s \in Sessions : session[s] \in {"keyless", "open", "joining"}})

(* The loaded ledger is what it counts on the disk and what the requests hold. *)
LedgerExact ==
    ledger.loaded =>
        /\ ledger.bytes = Stock + Held
        /\ ledger.files = FileStock + HeldFiles
        /\ ledger.sessions = SessionStock + Makes

(* An upload not yet created has no parts. *)
EmptyInv == \A s \in Sessions : session[s] = "none" => \A n \in Parts : part[s][n] = 0

(* Unless the cap was passed by a replaced copy that had shrunk meanwhile, the loaded
   ledger is above its caps by no more than the requests' slack. *)
LedgerBounded ==
    ledger.loaded /\ ~overdrawn =>
        /\ ledger.bytes <= ByteCap + Slack
        /\ ledger.files <= FileCap + SlackFiles
        /\ ledger.sessions <= SessionCap

(* After a stop there is no ledger: what it left on disk, of which nothing is then
   uncounted, is within the caps, and the scan of the next request counts that. *)
DiskBounded ==
    ~ledger.loaded /\ ~overdrawn =>
        /\ \A s \in Sessions : Counts(session[s])
        /\ Stock <= ByteCap /\ FileStock <= FileCap /\ SessionStock <= SessionCap

(* The inductive invariant. *)
LedgerInv ==
    /\ TypeInv /\ left \in Nat /\ \A r \in Requests : RequestInv(r)
    /\ OneMaker /\ OneJoins /\ EmptyInv
    /\ LedgerExact /\ LedgerBounded /\ DiskBounded
    /\ ~ledger.loaded => overcounted.bytes = 0 /\ overcounted.files = 0

-----------------------------------------------------------------------------
(* How an action changes the request and the ledger *)

(* No part listed is a listing. *)
LEMMA EmptyListing == <<>> \in Listings
<1>1. <<>> \in [{} -> Nat]
  OBVIOUS
<1>. QED BY <1>1 DEF Listings

(* The request that has not begun and the one that has ended are calls. *)
LEMMA IdleTyped == Idle \in Call /\ Done \in Call
<1>1. Idle \in Call
  BY EmptyListing DEF Idle, Call, Usages, Ops, Pcs
<1>. QED BY <1>1 DEF Done, Call, Pcs

(* Neither has anything booked. *)
LEMMA DoneFields ==
    /\ Idle.op = "none" /\ Idle.pc = "idle" /\ Idle.replaced = 0 /\ Idle.bytes = 0
    /\ Idle.files = 0 /\ Idle.usage.bytes = 0 /\ Idle.usage.files = 0
    /\ Done.op = "none" /\ Done.pc = "done" /\ Done.replaced = 0 /\ Done.bytes = 0
    /\ Done.files = 0 /\ Done.usage.bytes = 0 /\ Done.usage.files = 0
BY DEF Idle, Done

(* The sets the ledger's sums run over are finite. *)
LEMMA AllFinite == /\ IsFiniteSet(Requests) /\ IsFiniteSet(Keys)
                    /\ IsFiniteSet(Sessions) /\ IsFiniteSet(Parts)
BY FinitenessAssumption

(* The forms a change of the requests and of the ledger takes in the actions: one
   request moves on or ends, bookings are made or released. *)
OthersKeep(r) == \A q \in Requests : q # r => req'[q] = req[q]
Keeps(r) ==
    /\ req'[r].op = req[r].op /\ req'[r].key = req[r].key /\ req'[r].s = req[r].s
    /\ req'[r].n = req[r].n /\ req'[r].listed = req[r].listed
Moves(r, pc) ==
    /\ req' \in [Requests -> Call] /\ OthersKeep(r) /\ Keeps(r) /\ req'[r].pc = pc
Holds(r, replaced, bytes, fileCount, freed) ==
    /\ req'[r].replaced = replaced /\ req'[r].bytes = bytes
    /\ req'[r].files = fileCount /\ req'[r].freed = freed
SameHold(r) ==
    Holds(r, req[r].replaced, req[r].bytes, req[r].files, req[r].freed)
SameUse(r) == req'[r].usage = req[r].usage /\ req'[r].ok = req[r].ok
Ends(r) == req' \in [Requests -> Call] /\ OthersKeep(r) /\ req'[r] = Done
Books(bytes, fileCount, sessions) ==
    /\ ledger' \in Ledger /\ ledger'.loaded = ledger.loaded
    /\ ledger'.bytes = ledger.bytes + bytes
    /\ ledger'.files = ledger.files + fileCount
    /\ ledger'.sessions = ledger.sessions + sessions
Releases(bytes, fileCount, sessions) ==
    /\ ledger' \in Ledger /\ ledger'.loaded = ledger.loaded
    /\ ledger'.bytes = ledger.bytes - bytes
    /\ ledger'.files = ledger.files - fileCount
    /\ ledger'.sessions = ledger.sessions - sessions
Drops(r) ==
    /\ Ends(r) /\ Releases(req[r].bytes, req[r].files, 0)
    /\ incoming' = [incoming EXCEPT ![r] = 0]

(* A request answered with Done has ended. *)
LEMMA EndsBy ==
  ASSUME TypeInv, NEW r \in Requests, req' = [req EXCEPT ![r] = Done]
  PROVE  Ends(r)
BY IdleTyped DEF Ends, OthersKeep, TypeInv

(* The fields of a ledger that was changed with EXCEPT. *)
LEMMA LedgerBy ==
  ASSUME TypeInv, NEW b \in Int, NEW f \in Int, NEW d \in Int,
         \/ ledger' = [ledger EXCEPT !.bytes = b, !.files = f, !.sessions = d]
         \/ ledger' = [ledger EXCEPT !.bytes = b, !.files = f] /\ d = ledger.sessions
         \/ /\ ledger' = [ledger EXCEPT !.bytes = b]
            /\ f = ledger.files /\ d = ledger.sessions
         \/ /\ ledger' = [ledger EXCEPT !.files = f]
            /\ b = ledger.bytes /\ d = ledger.sessions
         \/ /\ ledger' = [ledger EXCEPT !.sessions = d]
            /\ b = ledger.bytes /\ f = ledger.files
  PROVE  /\ ledger' \in Ledger /\ ledger'.loaded = ledger.loaded
         /\ ledger'.bytes = b /\ ledger'.files = f /\ ledger'.sessions = d
<1>1. ledger \in Ledger
  BY DEF TypeInv
<1>. QED BY <1>1 DEF Ledger

(* Dropping a reservation ends the request and releases what it booked. *)
LEMMA ReleaseBy ==
  ASSUME TypeInv, NEW r \in Requests, Release(r)
  PROVE  Ends(r) /\ Releases(req[r].bytes, req[r].files, 0)
<1>. DEFINE b == ledger.bytes - req[r].bytes
            f == ledger.files - req[r].files
            d == ledger.sessions
<1>1. req[r] \in Call /\ ledger \in Ledger
  BY DEF TypeInv
<1>2. b \in Int /\ f \in Int /\ d \in Int
  BY <1>1 DEF Call, Ledger
<1>3. ledger' = [ledger EXCEPT !.bytes = b, !.files = f]
  BY DEF Release, Released
<1>4. d = ledger.sessions /\ d = d - 0
  BY <1>2
<1>. HIDE DEF b, f, d
<1>5. /\ ledger' \in Ledger /\ ledger'.loaded = ledger.loaded
      /\ ledger'.bytes = b /\ ledger'.files = f /\ ledger'.sessions = d
  BY <1>2, <1>3, <1>4, LedgerBy
<1>6. Releases(req[r].bytes, req[r].files, 0)
  BY <1>4, <1>5 DEF Releases, b, f
<1>. QED BY <1>6, EndsBy DEF Release

(* Dropping the guard of a body, as every early return of put_object and upload_part
   does, ends the request and releases what it booked, whether or not its incoming file
   could be removed. *)
LEMMA DropsBy ==
  ASSUME TypeInv, NEW r \in Requests, Drop(r) \/ FailingDrop(r)
  PROVE  Drops(r)
<1>1. Release(r) /\ Unlinked(r)
  BY DEF Drop, FailingDrop, Unlink, FailingUnlink
<1>. QED BY <1>1, ReleaseBy DEF Drops, Unlinked

(* A request of which only the place changes keeps all it holds. *)
LEMMA MovesBy ==
  ASSUME TypeInv, NEW r \in Requests, NEW pc \in Pcs, req' = [req EXCEPT ![r].pc = pc]
  PROVE  Moves(r, pc) /\ SameHold(r) /\ SameUse(r)
<1>1. req[r] \in Call
  BY DEF TypeInv
<1>. QED BY <1>1 DEF Moves, SameHold, Holds, SameUse, OthersKeep, Keeps, Call, TypeInv

-----------------------------------------------------------------------------
(* What each action does *)

(* What each action does, in the forms above: the action's own formula with the record
   updates resolved. *)
At(r, op, pc) == req[r].op = op /\ req[r].pc = pc
Rejects(r) == Ends(r) /\ UNCHANGED <<files, incoming, ledger, lock, overdrawn, overcounted>>
DidRead(r) ==
    /\ req[r].pc = "read" /\ req[r].op \in {"put", "part"}
    /\ \/ Rejects(r)
       \/ /\ Moves(r, "body") /\ SameUse(r)
          /\ Holds(r, EarlierCopy(r), req[r].bytes, 1, req[r].freed)
          /\ Books(0, 1, 0)
          /\ ledger.files + 1 <= FileCap + Present(EarlierCopy(r))
          /\ UNCHANGED <<files, incoming, lock, overdrawn, overcounted>>
DidFrame(r) ==
    /\ req[r].pc = "body"
    /\ \/ Drops(r)
       \/ /\ Moves(r, "body") /\ SameUse(r)
          /\ Holds(r, req[r].replaced, req[r].bytes + 1, req[r].files, req[r].freed)
          /\ Books(1, 0, 0)
          /\ incoming' = [incoming EXCEPT ![r] = incoming[r] + 1]
          /\ ledger.bytes + 1 <= ByteCap + req[r].replaced
    /\ UNCHANGED <<files, lock, overdrawn, overcounted>>
DidEnd(r) ==
    /\ req[r].pc = "body" /\ req[r].bytes > 0
    /\ Moves(r, "store") /\ SameUse(r) /\ SameHold(r)
    /\ UNCHANGED <<files, incoming, ledger, lock, overdrawn, overcounted>>
DidGiveUp(r) ==
    /\ req[r].pc = "body" /\ Drops(r)
    /\ UNCHANGED <<files, lock, overdrawn, overcounted>>
DidStorePut(r) ==
    /\ At(r, "put", "store") /\ lock = NoRequest /\ lock' = r
    /\ Moves(r, "rename") /\ SameUse(r) /\ SameHold(r)
    /\ UNCHANGED <<files, incoming, ledger, overdrawn, overcounted>>
DidStorePart(r) ==
    /\ At(r, "part", "store") /\ lock = NoRequest
    /\ \/ Drops(r) /\ UNCHANGED <<part, lock>>
       \/ /\ Moves(r, "name") /\ SameUse(r)
          /\ Holds(r, req[r].replaced, req[r].bytes, req[r].files, part[req[r].s][req[r].n])
          /\ Releases(part[req[r].s][req[r].n], Present(part[req[r].s][req[r].n]), 0)
          /\ session[req[r].s] = "open"
          /\ part' = [part EXCEPT ![req[r].s][req[r].n] = 0]
          /\ lock' = r /\ UNCHANGED incoming
    /\ UNCHANGED <<stored, session, overdrawn, overcounted>>
DidNamePart(r) ==
    /\ req[r].pc = "name" /\ lock = r /\ lock' = NoRequest
    /\ \/ /\ Ends(r) /\ UNCHANGED ledger
          /\ part' = [part EXCEPT ![req[r].s][req[r].n] = incoming[r]]
          /\ incoming' = [incoming EXCEPT ![r] = 0]
          /\ overdrawn' = (overdrawn \/ req[r].replaced > req[r].freed)
       \/ Drops(r) /\ UNCHANGED <<part, overdrawn>>
    /\ UNCHANGED <<stored, session, overcounted>>
DidCreate(r) ==
    /\ At(r, "create", "read")
    /\ \/ Rejects(r)
       \/ /\ Moves(r, "mkdir") /\ SameUse(r) /\ SameHold(r)
          /\ Books(0, 0, 1) /\ ledger.sessions + 1 <= SessionCap
          /\ UNCHANGED <<files, incoming, lock, overdrawn, overcounted>>
DidMake(r) ==
    /\ req[r].pc = "mkdir"
    /\ \/ /\ Moves(r, "key") /\ SameUse(r) /\ SameHold(r)
          /\ session' = [session EXCEPT ![req[r].s] = "keyless"] /\ UNCHANGED ledger
       \/ Ends(r) /\ UNCHANGED session /\ Releases(0, 0, 1)
    /\ UNCHANGED <<stored, part, incoming, lock, overdrawn, overcounted>>
DidKey(r) ==
    /\ req[r].pc = "key"
    /\ \/ /\ Ends(r) /\ UNCHANGED ledger
          /\ session' = [session EXCEPT ![req[r].s] = "open"]
       \/ /\ Moves(r, "clean") /\ SameUse(r) /\ SameHold(r) /\ Releases(0, 0, 1)
          /\ session' = [session EXCEPT ![req[r].s] = "left"]
    /\ UNCHANGED <<stored, part, incoming, lock, overdrawn, overcounted>>
DidClean(r) ==
    /\ req[r].pc = "clean" /\ Ends(r)
    /\ session' \in {[session EXCEPT ![req[r].s] = "gone"], session}
    /\ UNCHANGED <<stored, part, incoming, ledger, lock, overdrawn, overcounted>>
DidAbort(r) ==
    /\ At(r, "abort", "store") /\ lock = NoRequest /\ Ends(r)
    /\ \/ /\ session[req[r].s] = "open" /\ RemoveSession(req[r].s)
          /\ Releases(PartBytes(req[r].s), PartFiles(req[r].s), 1)
          /\ UNCHANGED overcounted
       \/ /\ session[req[r].s] = "open"
          /\ \E removed \in SUBSET Parts :
               /\ RemovalFails(req[r].s, removed, {"open", "keyless"})
               /\ overcounted' =
                     [bytes |-> overcounted.bytes + Sum(part[req[r].s], removed),
                      files |-> overcounted.files + Count(part[req[r].s], removed)]
          /\ UNCHANGED ledger
       \/ UNCHANGED <<session, part, ledger, overcounted>>
    /\ UNCHANGED <<stored, incoming, lock, overdrawn>>
DidClaim(r) ==
    /\ req[r].pc = "claim" /\ lock = NoRequest
    /\ \/ Rejects(r)
       \/ /\ Moves(r, "join") /\ req'[r].ok = req[r].ok
          /\ req'[r].usage.bytes = PartBytes(req[r].s)
          /\ req'[r].usage.files = PartFiles(req[r].s)
          /\ Holds(r, PartBytes(req[r].s) + stored[req[r].key], Whole(r), 1, req[r].freed)
          /\ Books(Whole(r), 1, 0)
          /\ session[req[r].s] = "open"
          /\ session' = [session EXCEPT ![req[r].s] = "joining"]
          /\ \A n \in DOMAIN req[r].listed : part[req[r].s][n] = req[r].listed[n]
          /\ ledger.bytes + Whole(r) <=
                ByteCap + (PartBytes(req[r].s) + stored[req[r].key])
          /\ ledger.files + 1 <=
                FileCap + (PartFiles(req[r].s) + Present(stored[req[r].key]))
          /\ Whole(r) \in Nat /\ Whole(r) > 0
          /\ UNCHANGED <<stored, part, incoming, lock, overdrawn, overcounted>>
DidJoin(r) ==
    /\ req[r].pc = "join" /\ Moves(r, "swap") /\ SameHold(r)
    /\ req'[r].usage = req[r].usage
    /\ \/ /\ incoming' = [incoming EXCEPT ![r] = Sum(part[req[r].s], DOMAIN req[r].listed)]
          /\ req'[r].ok = TRUE
       \/ UNCHANGED incoming /\ req'[r].ok = req[r].ok
    /\ UNCHANGED <<files, ledger, lock, overdrawn, overcounted>>
DidSwap(r) ==
    /\ req[r].pc = "swap" /\ lock = NoRequest /\ lock' = r
    /\ \/ Moves(r, "rename") /\ req[r].ok
       \/ Moves(r, "reopen") /\ ~req[r].ok
    /\ SameHold(r) /\ SameUse(r)
    /\ UNCHANGED <<files, incoming, ledger, overdrawn, overcounted>>
DidRename(r) ==
    /\ req[r].pc = "rename" /\ lock = r
    /\ \/ /\ Moves(r, "settle") /\ SameUse(r)
          /\ Holds(r, req[r].replaced, req[r].bytes, req[r].files, stored[req[r].key])
          /\ stored' = [stored EXCEPT ![req[r].key] = incoming[r]]
          /\ incoming' = [incoming EXCEPT ![r] = 0]
          /\ overdrawn' = (overdrawn \/ req[r].replaced >
                              stored[req[r].key] + req[r].usage.bytes)
          /\ UNCHANGED <<ledger, lock>>
       \/ /\ req[r].op = "put" /\ Drops(r) /\ lock' = NoRequest
          /\ UNCHANGED <<stored, overdrawn>>
       \/ /\ req[r].op = "complete" /\ Moves(r, "reopen") /\ SameHold(r)
          /\ req'[r].usage = req[r].usage /\ req'[r].ok = FALSE
          /\ incoming' = [incoming EXCEPT ![r] = 0]
          /\ UNCHANGED <<stored, overdrawn, ledger, lock>>
    /\ UNCHANGED <<session, part, overcounted>>
DidSettle(r) ==
    /\ req[r].pc = "settle" /\ lock = r
    /\ Releases(req[r].freed, Present(req[r].freed), 0)
    /\ \/ req[r].op = "put" /\ Ends(r) /\ lock' = NoRequest
       \/ /\ req[r].op # "put" /\ Moves(r, "discard") /\ SameUse(r)
          /\ Holds(r, req[r].replaced, 0, 0, req[r].freed)
          /\ UNCHANGED lock
    /\ UNCHANGED <<files, incoming, overdrawn, overcounted>>
DidDiscard(r) ==
    /\ req[r].pc = "discard" /\ lock = r /\ lock' = NoRequest /\ Ends(r)
    /\ \/ RemoveSession(req[r].s)
       \/ \E removed \in SUBSET Parts :
             RemovalFails(req[r].s, removed, {"joined", "left"})
    /\ Releases(req[r].usage.bytes, req[r].usage.files, 1)
    /\ UNCHANGED <<stored, incoming, overdrawn, overcounted>>
DidReopen(r) ==
    /\ req[r].pc = "reopen" /\ lock = r /\ lock' = NoRequest /\ Ends(r)
    /\ Releases(req[r].bytes, req[r].files, 0)
    /\ \/ session' = [session EXCEPT ![req[r].s] = "open"]
       \/ UNCHANGED session
    /\ UNCHANGED <<stored, part, incoming, overdrawn, overcounted>>

(* The bookings of the actions. *)
LEMMA BooksBy ==
  ASSUME TypeInv, NEW b \in Nat
  PROVE  /\ ledger' = [ledger EXCEPT !.bytes = @ + b, !.files = @ + 1] => Books(b, 1, 0)
         /\ ledger' = [ledger EXCEPT !.bytes = @ + 1] => Books(1, 0, 0)
         /\ ledger' = [ledger EXCEPT !.files = @ + 1] => Books(0, 1, 0)
         /\ ledger' = [ledger EXCEPT !.sessions = @ + 1] => Books(0, 0, 1)
<1>. DEFINE x == ledger.bytes  y == ledger.files  z == ledger.sessions
            xb == x + b  x1 == x + 1  y1 == y + 1  z1 == z + 1
<1>1. /\ x \in Int /\ y \in Int /\ z \in Int
      /\ xb \in Int /\ x1 \in Int /\ y1 \in Int /\ z1 \in Int
      /\ x = ledger.bytes /\ y = ledger.files /\ z = ledger.sessions
      /\ x + 0 = x /\ y + 0 = y /\ z + 0 = z
  BY DEF TypeInv, Ledger
<1>2. ASSUME ledger' = [ledger EXCEPT !.bytes = @ + b, !.files = @ + 1]
      PROVE  Books(b, 1, 0)
  <2>1. ledger' = [ledger EXCEPT !.bytes = xb, !.files = y1]
    BY <1>2
  <2>. HIDE DEF x, y, z, xb, y1
  <2>2. /\ ledger' \in Ledger /\ ledger'.loaded = ledger.loaded
        /\ ledger'.bytes = xb /\ ledger'.files = y1 /\ ledger'.sessions = z
    BY <1>1, <2>1, LedgerBy
  <2>. QED BY <1>1, <2>2 DEF Books, xb, y1
<1>3. ASSUME ledger' = [ledger EXCEPT !.bytes = @ + 1] PROVE Books(1, 0, 0)
  <2>1. ledger' = [ledger EXCEPT !.bytes = x1]
    BY <1>3
  <2>. HIDE DEF x, y, z, x1
  <2>2. /\ ledger' \in Ledger /\ ledger'.loaded = ledger.loaded
        /\ ledger'.bytes = x1 /\ ledger'.files = y /\ ledger'.sessions = z
    BY <1>1, <2>1, LedgerBy
  <2>. QED BY <1>1, <2>2 DEF Books, x1
<1>4. ASSUME ledger' = [ledger EXCEPT !.files = @ + 1] PROVE Books(0, 1, 0)
  <2>1. ledger' = [ledger EXCEPT !.files = y1]
    BY <1>4
  <2>. HIDE DEF x, y, z, y1
  <2>2. /\ ledger' \in Ledger /\ ledger'.loaded = ledger.loaded
        /\ ledger'.bytes = x /\ ledger'.files = y1 /\ ledger'.sessions = z
    BY <1>1, <2>1, LedgerBy
  <2>. QED BY <1>1, <2>2 DEF Books, y1
<1>5. ASSUME ledger' = [ledger EXCEPT !.sessions = @ + 1] PROVE Books(0, 0, 1)
  <2>1. ledger' = [ledger EXCEPT !.sessions = z1]
    BY <1>5
  <2>. HIDE DEF x, y, z, z1
  <2>2. /\ ledger' \in Ledger /\ ledger'.loaded = ledger.loaded
        /\ ledger'.bytes = x /\ ledger'.files = y /\ ledger'.sessions = z1
    BY <1>1, <2>1, LedgerBy
  <2>. QED BY <1>1, <2>2 DEF Books, z1
<1>. QED BY <1>2, <1>3, <1>4, <1>5

(* The releases of the actions. *)
LEMMA ReleasesBy ==
  ASSUME TypeInv, NEW b \in Nat, NEW f \in Nat
  PROVE  /\ ledger' = [ledger EXCEPT !.bytes = @ - b, !.files = @ - f, !.sessions = @ - 1]
              => Releases(b, f, 1)
         /\ ledger' = [ledger EXCEPT !.bytes = @ - b, !.files = @ - f] => Releases(b, f, 0)
         /\ ledger' = [ledger EXCEPT !.sessions = @ - 1] => Releases(0, 0, 1)
<1>. DEFINE x == ledger.bytes  y == ledger.files  z == ledger.sessions
            xb == x - b  yf == y - f  z1 == z - 1
<1>1. /\ x \in Int /\ y \in Int /\ z \in Int
      /\ xb \in Int /\ yf \in Int /\ z1 \in Int
      /\ x = ledger.bytes /\ y = ledger.files /\ z = ledger.sessions
      /\ x - 0 = x /\ y - 0 = y /\ z - 0 = z
  BY DEF TypeInv, Ledger
<1>2. ASSUME ledger' = [ledger EXCEPT !.bytes = @ - b, !.files = @ - f, !.sessions = @ - 1]
      PROVE  Releases(b, f, 1)
  <2>1. ledger' = [ledger EXCEPT !.bytes = xb, !.files = yf, !.sessions = z1]
    BY <1>2
  <2>. HIDE DEF x, y, z, xb, yf, z1
  <2>2. /\ ledger' \in Ledger /\ ledger'.loaded = ledger.loaded
        /\ ledger'.bytes = xb /\ ledger'.files = yf /\ ledger'.sessions = z1
    BY <1>1, <2>1, LedgerBy
  <2>. QED BY <1>1, <2>2 DEF Releases, xb, yf, z1
<1>3. ASSUME ledger' = [ledger EXCEPT !.bytes = @ - b, !.files = @ - f]
      PROVE  Releases(b, f, 0)
  <2>1. ledger' = [ledger EXCEPT !.bytes = xb, !.files = yf]
    BY <1>3
  <2>. HIDE DEF x, y, z, xb, yf
  <2>2. /\ ledger' \in Ledger /\ ledger'.loaded = ledger.loaded
        /\ ledger'.bytes = xb /\ ledger'.files = yf /\ ledger'.sessions = z
    BY <1>1, <2>1, LedgerBy
  <2>. QED BY <1>1, <2>2 DEF Releases, xb, yf
<1>4. ASSUME ledger' = [ledger EXCEPT !.sessions = @ - 1] PROVE Releases(0, 0, 1)
  <2>1. ledger' = [ledger EXCEPT !.sessions = z1]
    BY <1>4
  <2>. HIDE DEF x, y, z, z1
  <2>2. /\ ledger' \in Ledger /\ ledger'.loaded = ledger.loaded
        /\ ledger'.bytes = x /\ ledger'.files = y /\ ledger'.sessions = z1
    BY <1>1, <2>1, LedgerBy
  <2>. QED BY <1>1, <2>2 DEF Releases, z1
<1>. QED BY <1>2, <1>3, <1>4

(* Read: the earlier copy is read and one file is booked, or the request is refused. *)
LEMMA ReadDoes ==
  ASSUME TypeInv, NEW r \in Requests, PlaceInv(r), Read(r)
  PROVE  DidRead(r)
<1>. DEFINE e == EarlierCopy(r)
            w == [req[r] EXCEPT !.pc = "body", !.replaced = e, !.files = 1]
<1>1. req[r] \in Call
  BY DEF TypeInv
<1>2. e \in Nat
  <2>1. req[r].op = "put" \/ (req[r].op # "put" /\ req[r].op = "part")
    BY DEF Read
  <2>. QED BY <2>1 DEF TypeInv, EarlierCopy, PlaceInv
<1>3. CASE req' = [req EXCEPT ![r] = Done] /\ UNCHANGED ledger
  BY <1>3, EndsBy DEF Read, DidRead, Rejects, own
<1>4. CASE /\ req' = [req EXCEPT ![r] = w]
           /\ ledger' = [ledger EXCEPT !.files = @ + 1]
           /\ Allows(ledger.files, Present(e), 1, FileCap)
  <2>1. w \in Call /\ w.op = req[r].op /\ w.key = req[r].key /\ w.s = req[r].s
        /\ w.n = req[r].n /\ w.listed = req[r].listed /\ w.pc = "body"
        /\ w.replaced = e /\ w.bytes = req[r].bytes /\ w.files = 1
        /\ w.freed = req[r].freed /\ w.usage = req[r].usage /\ w.ok = req[r].ok
    <3>. HIDE DEF e
    <3>. QED BY <1>1, <1>2 DEF Call, Pcs
  <2>2. Books(0, 1, 0)
    BY <1>4, BooksBy, 0 \in Nat
  <2>3. req' = [req EXCEPT ![r] = w]
    BY <1>4
  <2>. HIDE DEF w
  <2>4. Moves(r, "body") /\ SameUse(r) /\ Holds(r, e, req[r].bytes, 1, req[r].freed)
    BY <2>1, <2>3 DEF Moves, OthersKeep, Keeps, SameUse, Holds, TypeInv
  <2>. QED BY <1>4, <2>2, <2>4 DEF Read, DidRead, Allows, own
<1>. QED BY <1>3, <1>4 DEF Read, Present

(* Frame: a frame of the body is booked and written, or the request is dropped. *)
LEMMA FrameDoes ==
  ASSUME TypeInv, NEW r \in Requests, PlaceInv(r), Frame(r)
  PROVE  DidFrame(r)
<1>. DEFINE b == req[r].bytes + 1
<1>1. req[r] \in Call
  BY DEF TypeInv
<1>2. b \in Nat
  BY <1>1 DEF Call
<1>3. CASE Drop(r)
  BY <1>3, DropsBy DEF Frame, DidFrame
<1>4. CASE /\ Allows(ledger.bytes, req[r].replaced, 1, ByteCap)
           /\ ledger' = [ledger EXCEPT !.bytes = @ + 1]
           /\ incoming' = [incoming EXCEPT ![r] = @ + 1]
           /\ req' = [req EXCEPT ![r].bytes = b]
  <2>1. Books(1, 0, 0)
    BY <1>4, BooksBy, 0 \in Nat
  <2>. HIDE DEF b
  <2>2. /\ Moves(r, "body") /\ SameUse(r)
        /\ Holds(r, req[r].replaced, b, req[r].files, req[r].freed)
    BY <1>1, <1>2, <1>4
       DEF Moves, OthersKeep, Keeps, SameUse, Holds, TypeInv, Call, Frame
  <2>. QED BY <1>4, <2>1, <2>2 DEF Frame, DidFrame, Allows, b
<1>. QED BY <1>3, <1>4 DEF Frame

(* BodyEnds, GiveUp and StorePut: the body ends, the client goes, or the lock is taken
   to rename. *)
LEMMA BodyDoes ==
  ASSUME TypeInv, NEW r \in Requests
  PROVE  /\ BodyEnds(r) => DidEnd(r)
         /\ GiveUp(r) => DidGiveUp(r)
         /\ StorePut(r) => DidStorePut(r)
<1>1. "store" \in Pcs /\ "rename" \in Pcs
  BY DEF Pcs
<1>2. BodyEnds(r) => DidEnd(r)
  BY <1>1, MovesBy DEF BodyEnds, DidEnd, own
<1>3. GiveUp(r) => DidGiveUp(r)
  BY DropsBy DEF GiveUp, DidGiveUp
<1>4. StorePut(r) => DidStorePut(r)
  BY <1>1, MovesBy DEF StorePut, DidStorePut, At, Locks, own
<1>. QED BY <1>2, <1>3, <1>4

(* The size and the number of an upload's parts are naturals. *)
LEMMA UsageTyped ==
  ASSUME TypeInv, NEW s \in Sessions
  PROVE  PartBytes(s) \in Nat /\ PartFiles(s) \in Nat
<1>1. \A n \in Parts : part[s][n] \in Nat
  BY DEF TypeInv
<1>. QED BY <1>1, AllFinite, SumNat, CountNat DEF PartBytes, PartFiles

(* StorePart: the earlier part is removed and released under the lock. *)
LEMMA StorePartDoes ==
  ASSUME TypeInv, NEW r \in Requests, PlaceInv(r), StorePart(r)
  PROVE  DidStorePart(r)
<1>. DEFINE s == req[r].s
            n == req[r].n
            e == part[s][n]
<1>1. req[r] \in Call /\ At(r, "part", "store") /\ lock = NoRequest
  BY DEF TypeInv, StorePart, At
<1>2. e \in Nat /\ Present(e) \in Nat
  BY <1>1 DEF TypeInv, PlaceInv, At, Present
<1>3. CASE (Drop(r) \/ FailingDrop(r)) /\ UNCHANGED <<part, lock>>
  BY <1>1, <1>3, DropsBy DEF StorePart, DidStorePart
<1>4. CASE /\ Open(s)
           /\ part' = [part EXCEPT ![s][n] = 0]
           /\ ledger' = [ledger EXCEPT !.bytes = @ - e, !.files = @ - Present(e)]
           /\ req' = [req EXCEPT ![r].pc = "name", ![r].freed = e]
           /\ lock' = r /\ UNCHANGED own
  <2>1. Releases(e, Present(e), 0)
    BY <1>2, <1>4, ReleasesBy
  <2>. HIDE DEF e
  <2>2. /\ Moves(r, "name") /\ SameUse(r)
        /\ Holds(r, req[r].replaced, req[r].bytes, req[r].files, e)
    BY <1>1, <1>2, <1>4
       DEF Moves, OthersKeep, Keeps, SameUse, Holds, TypeInv, Call, Pcs
  <2>. QED BY <1>1, <1>4, <2>1, <2>2 DEF StorePart, DidStorePart, Open, e, own
<1>. QED BY <1>3, <1>4 DEF StorePart, Present

(* NamePart: the incoming file becomes the part, or is dropped. *)
LEMMA NamePartDoes ==
  ASSUME TypeInv, NEW r \in Requests, NamePart(r)
  PROVE  DidNamePart(r)
BY EndsBy, DropsBy DEF NamePart, DidNamePart, Unlocks

(* Create: one upload is booked. *)
LEMMA CreateDoes ==
  ASSUME TypeInv, NEW r \in Requests, Create(r)
  PROVE  DidCreate(r)
<1>1. At(r, "create", "read") /\ UNCHANGED <<files, incoming, lock, overdrawn, overcounted>>
  BY DEF Create, At, own
<1>2. CASE /\ Allows(ledger.sessions, 0, 1, SessionCap)
           /\ ledger' = [ledger EXCEPT !.sessions = @ + 1]
           /\ req' = [req EXCEPT ![r].pc = "mkdir"]
  <2>1. Books(0, 0, 1)
    BY <1>2, BooksBy, 0 \in Nat
  <2>2. Moves(r, "mkdir") /\ SameUse(r) /\ SameHold(r)
    BY <1>2, MovesBy DEF Pcs
  <2>3. ledger.sessions + 1 <= SessionCap
    BY <1>2, CapsAssumption DEF Allows
  <2>. QED BY <1>1, <2>1, <2>2, <2>3 DEF DidCreate
<1>3. CASE UNCHANGED ledger /\ req' = [req EXCEPT ![r] = Done]
  BY <1>1, <1>3, EndsBy DEF DidCreate, Rejects
<1>. QED BY <1>2, <1>3 DEF Create

(* MakeDir, WriteKey, CleanSession: the upload is made, or its booking released. *)
LEMMA MakeDoes ==
  ASSUME TypeInv, NEW r \in Requests
  PROVE  /\ MakeDir(r) => DidMake(r)
         /\ WriteKey(r) => DidKey(r)
         /\ CleanSession(r) => DidClean(r)
<1>1. Refuse => Releases(0, 0, 1)
  BY ReleasesBy, 0 \in Nat DEF Refuse
<1>2. /\ "key" \in Pcs /\ "clean" \in Pcs
  BY DEF Pcs
<1>3. MakeDir(r) => DidMake(r)
  BY <1>1, <1>2, EndsBy, MovesBy DEF MakeDir, DidMake, own
<1>4. WriteKey(r) => DidKey(r)
  BY <1>1, <1>2, EndsBy, MovesBy DEF WriteKey, DidKey, own
<1>5. CleanSession(r) => DidClean(r)
  BY EndsBy DEF CleanSession, DidClean, own
<1>. QED BY <1>3, <1>4, <1>5

(* Abort: an open upload is removed and all of it released, or some of it is removed
   and nothing released. *)
LEMMA AbortDoes ==
  ASSUME TypeInv, NEW r \in Requests, PlaceInv(r), Abort(r)
  PROVE  DidAbort(r)
<1>. DEFINE s == req[r].s
<1>1. /\ At(r, "abort", "store") /\ lock = NoRequest /\ Ends(r)
      /\ UNCHANGED <<stored, incoming, lock, overdrawn>>
  BY EndsBy DEF Abort, At, own
<1>2. s \in Sessions
  BY <1>1 DEF PlaceInv, At
<1>3. CASE /\ Open(s) /\ RemoveSession(s) /\ ledger' = ReleaseSession(s, Usage(s))
           /\ UNCHANGED overcounted
  <2>1. PartBytes(s) \in Nat /\ PartFiles(s) \in Nat
    BY <1>2, UsageTyped
  <2>2. ledger' = [ledger EXCEPT !.bytes = @ - PartBytes(s),
                      !.files = @ - PartFiles(s), !.sessions = @ - 1]
    BY <1>3 DEF ReleaseSession, Usage
  <2>3. Releases(PartBytes(s), PartFiles(s), 1)
    BY <2>1, <2>2, ReleasesBy
  <2>. QED BY <1>1, <1>3, <2>3 DEF DidAbort, Open
<1>4. CASE /\ Open(s)
           /\ \E removed \in SUBSET Parts :
                /\ RemovalFails(s, removed, {"open", "keyless"})
                /\ overcounted' = [bytes |-> overcounted.bytes + Sum(part[s], removed),
                                   files |-> overcounted.files + Count(part[s], removed)]
           /\ UNCHANGED ledger
  BY <1>1, <1>4 DEF DidAbort, Open
<1>5. CASE UNCHANGED <<session, part, ledger, overcounted>>
  BY <1>1, <1>5 DEF DidAbort
<1>. QED BY <1>3, <1>4, <1>5 DEF Abort

(* The size of a completed object is a positive natural: at least one part is listed
   and no part is empty. *)
LEMMA WholeIs ==
  ASSUME TypeInv, NEW r \in Requests, PlaceInv(r), req[r].op = "complete"
  PROVE  /\ Whole(r) \in Nat /\ Whole(r) > 0
         /\ DOMAIN req[r].listed \subseteq Parts
         /\ \A n \in DOMAIN req[r].listed : req[r].listed[n] \in Nat
<1>. DEFINE f == req[r].listed
            L == DOMAIN f
<1>1. f \in Listings
  BY DEF TypeInv, Call
<1>2. L \subseteq Parts /\ \A n \in L : f[n] \in Nat
  BY <1>1 DEF Listings
<1>3. L # {} /\ \A n \in L : f[n] > 0
  BY DEF PlaceInv
<1>4. IsFiniteSet(L)
  BY <1>2, AllFinite, FS_Subset
<1>5. Whole(r) = Sum(f, L)
  BY DEF Whole
<1>. HIDE DEF f, L
<1>6. Sum(f, L) \in Nat /\ \A n \in L : f[n] <= Sum(f, L)
  BY <1>2, <1>4, SumNat
<1>7. Sum(f, L) > 0
  BY <1>2, <1>3, <1>6
<1>. QED BY <1>2, <1>5, <1>6, <1>7 DEF f, L

(* Claim: the upload is claimed and room for the whole object is booked. *)
LEMMA ClaimDoes ==
  ASSUME TypeInv, NEW r \in Requests, PlaceInv(r), Claim(r)
  PROVE  DidClaim(r)
<1>. DEFINE s == req[r].s
            u == Usage(s)
            t == Whole(r)
            e == stored[req[r].key]
            v == u.bytes + e
            w == [req[r] EXCEPT !.pc = "join", !.replaced = v, !.bytes = t,
                                !.files = 1, !.usage = u]
<1>1. /\ req[r].pc = "claim" /\ lock = NoRequest /\ req[r] \in Call
      /\ UNCHANGED <<stored, part, incoming, lock, overdrawn, overcounted>>
  BY DEF Claim, TypeInv, own
<1>2. req[r].op = "complete" /\ s \in Sessions /\ req[r].key \in Keys
  BY <1>1 DEF PlaceInv, Places
<1>3. PartBytes(s) \in Nat /\ PartFiles(s) \in Nat /\ e \in Nat
  BY <1>2, UsageTyped DEF TypeInv
<1>4. t \in Nat /\ t > 0
  BY <1>2, WholeIs
<1>5. u.bytes = PartBytes(s) /\ u.files = PartFiles(s) /\ u \in Usages
  BY <1>3 DEF Usage, Usages
<1>6. v \in Nat
  BY <1>3, <1>5
<1>7. CASE req' = [req EXCEPT ![r] = Done] /\ UNCHANGED <<session, ledger>>
  BY <1>1, <1>7, EndsBy DEF DidClaim, Rejects, files
<1>8. CASE /\ Open(s) /\ \A n \in DOMAIN req[r].listed : part[s][n] = req[r].listed[n]
           /\ Allows(ledger.bytes, v, t, ByteCap)
           /\ Allows(ledger.files, u.files + Present(e), 1, FileCap)
           /\ session' = [session EXCEPT ![s] = "joining"]
           /\ ledger' = [ledger EXCEPT !.bytes = @ + t, !.files = @ + 1]
           /\ req' = [req EXCEPT ![r] = w]
  <2>1. w \in Call /\ w.op = req[r].op /\ w.key = req[r].key /\ w.s = req[r].s
        /\ w.n = req[r].n /\ w.listed = req[r].listed /\ w.pc = "join"
        /\ w.replaced = v /\ w.bytes = t /\ w.files = 1
        /\ w.freed = req[r].freed /\ w.usage = u /\ w.ok = req[r].ok
    <3>. HIDE DEF u, t, v
    <3>. QED BY <1>1, <1>4, <1>5, <1>6 DEF Call, Pcs
  <2>2. Books(t, 1, 0)
    <3>. HIDE DEF t
    <3>. QED BY <1>4, <1>8, BooksBy
  <2>3. req' = [req EXCEPT ![r] = w]
    BY <1>8
  <2>. HIDE DEF w
  <2>4. Moves(r, "join") /\ req'[r].ok = req[r].ok /\ Holds(r, v, t, 1, req[r].freed)
        /\ req'[r].usage = u
    BY <2>1, <2>3 DEF Moves, OthersKeep, Keeps, Holds, TypeInv
  <2>. QED BY <1>1, <1>4, <1>5, <1>8, <2>2, <2>4 DEF DidClaim, Allows, Open
<1>. HIDE DEF w
<1>9. \/ req' = [req EXCEPT ![r] = Done] /\ UNCHANGED <<session, ledger>>
      \/ /\ Open(s) /\ \A n \in DOMAIN req[r].listed : part[s][n] = req[r].listed[n]
         /\ Allows(ledger.bytes, v, t, ByteCap)
         /\ Allows(ledger.files, u.files + Present(e), 1, FileCap)
         /\ session' = [session EXCEPT ![s] = "joining"]
         /\ ledger' = [ledger EXCEPT !.bytes = @ + t, !.files = @ + 1]
         /\ req' = [req EXCEPT ![r] = w]
  BY DEF Claim, Whole, Present, w
<1>. QED BY <1>7, <1>8, <1>9

(* Join: the parts are written to one file, or that fails. *)
LEMMA JoinDoes ==
  ASSUME TypeInv, NEW r \in Requests, Join(r)
  PROVE  DidJoin(r)
<1>1. req[r] \in Call
  BY DEF TypeInv
<1>2. req[r].pc = "join" /\ UNCHANGED <<files, ledger, lock, overdrawn, overcounted>>
  BY DEF Join
<1>3. CASE /\ incoming' = [incoming EXCEPT ![r] =
                              Sum(part[req[r].s], DOMAIN req[r].listed)]
           /\ req' = [req EXCEPT ![r].pc = "swap", ![r].ok = TRUE]
  <2>1. Moves(r, "swap") /\ SameHold(r) /\ req'[r].usage = req[r].usage
        /\ req'[r].ok = TRUE
    BY <1>1, <1>3 DEF Moves, SameHold, Holds, OthersKeep, Keeps, Call, TypeInv, Pcs
  <2>. QED BY <1>2, <1>3, <2>1 DEF DidJoin
<1>4. CASE req' = [req EXCEPT ![r].pc = "swap"] /\ UNCHANGED incoming
  <2>1. Moves(r, "swap") /\ SameHold(r) /\ SameUse(r)
    BY <1>4, MovesBy DEF Pcs
  <2>. QED BY <1>2, <1>4, <2>1 DEF DidJoin, SameUse
<1>. QED BY <1>3, <1>4 DEF Join

(* Swap: the lock is taken to rename, or to reopen. *)
LEMMA SwapDoes ==
  ASSUME TypeInv, NEW r \in Requests, Swap(r)
  PROVE  DidSwap(r)
<1>1. req[r].pc = "swap" /\ lock = NoRequest /\ lock' = r
      /\ UNCHANGED <<files, incoming, ledger, overdrawn, overcounted>>
  BY DEF Swap, Locks, own
<1>2. CASE req[r].ok
  <2>1. req' = [req EXCEPT ![r].pc = "rename"]
    BY <1>2 DEF Swap
  <2>2. Moves(r, "rename") /\ SameHold(r) /\ SameUse(r)
    BY <2>1, MovesBy DEF Pcs
  <2>. QED BY <1>1, <1>2, <2>2 DEF DidSwap
<1>3. CASE ~req[r].ok
  <2>1. req' = [req EXCEPT ![r].pc = "reopen"]
    BY <1>3 DEF Swap
  <2>2. Moves(r, "reopen") /\ SameHold(r) /\ SameUse(r)
    BY <2>1, MovesBy DEF Pcs
  <2>. QED BY <1>1, <1>3, <2>2 DEF DidSwap
<1>. QED BY <1>2, <1>3

(* Rename: the object is replaced, or that fails. *)
LEMMA RenameDoes ==
  ASSUME TypeInv, NEW r \in Requests, PlaceInv(r), Rename(r)
  PROVE  DidRename(r)
<1>. DEFINE e == stored[req[r].key]
<1>1. req[r].pc = "rename" /\ lock = r /\ UNCHANGED <<session, part, overcounted>>
      /\ req[r] \in Call
  BY DEF Rename, TypeInv
<1>2. e \in Nat
  BY <1>1 DEF PlaceInv, Places, TypeInv
<1>3. CASE /\ stored' = [stored EXCEPT ![req[r].key] = incoming[r]]
           /\ incoming' = [incoming EXCEPT ![r] = 0]
           /\ req' = [req EXCEPT ![r].pc = "settle", ![r].freed = e]
           /\ overdrawn' = (overdrawn \/ req[r].replaced > e + req[r].usage.bytes)
           /\ UNCHANGED <<ledger, lock>>
  <2>. HIDE DEF e
  <2>1. /\ Moves(r, "settle") /\ SameUse(r)
        /\ Holds(r, req[r].replaced, req[r].bytes, req[r].files, e)
    BY <1>1, <1>2, <1>3
       DEF Moves, OthersKeep, Keeps, SameUse, Holds, TypeInv, Call, Pcs
  <2>. QED BY <1>1, <1>3, <2>1 DEF DidRename, e
<1>4. CASE /\ UNCHANGED <<stored, overdrawn>> /\ req[r].op = "put" /\ FailingDrop(r)
           /\ lock' = NoRequest
  BY <1>1, <1>4, DropsBy DEF DidRename
<1>5. CASE /\ UNCHANGED <<stored, overdrawn>> /\ req[r].op = "complete"
           /\ req' = [req EXCEPT ![r].pc = "reopen", ![r].ok = FALSE]
           /\ FailingUnlink(r) /\ UNCHANGED <<ledger, lock>>
  <2>1. Moves(r, "reopen") /\ SameHold(r)
        /\ req'[r].usage = req[r].usage /\ req'[r].ok = FALSE
    BY <1>1, <1>5 DEF Moves, SameHold, Holds, OthersKeep, Keeps, Call, TypeInv, Pcs
  <2>. QED BY <1>1, <1>5, <2>1 DEF DidRename, FailingUnlink, Unlinked
<1>. QED BY <1>3, <1>4, <1>5 DEF Rename

(* Settle: the replaced copy is released. *)
LEMMA SettleDoes ==
  ASSUME TypeInv, NEW r \in Requests, Settle(r)
  PROVE  DidSettle(r)
<1>. DEFINE e == req[r].freed
            w == [req[r] EXCEPT !.pc = "discard", !.bytes = 0, !.files = 0]
<1>1. req[r].pc = "settle" /\ lock = r /\ req[r] \in Call
      /\ UNCHANGED <<files, incoming, overdrawn, overcounted>>
  BY DEF Settle, TypeInv, own
<1>2. e \in Nat /\ Present(e) \in Nat
  BY <1>1 DEF Call, Present
<1>3. ledger' = [ledger EXCEPT !.bytes = @ - e, !.files = @ - Present(e)]
  BY DEF Settle, Present
<1>4. Releases(e, Present(e), 0)
  <2>. HIDE DEF e
  <2>. QED BY <1>2, <1>3, ReleasesBy
<1>5. CASE req[r].op = "put" /\ req' = [req EXCEPT ![r] = Done] /\ lock' = NoRequest
  BY <1>1, <1>4, <1>5, EndsBy DEF DidSettle
<1>6. CASE req[r].op # "put" /\ req' = [req EXCEPT ![r] = w] /\ UNCHANGED lock
  <2>1. w \in Call /\ w.op = req[r].op /\ w.key = req[r].key /\ w.s = req[r].s
        /\ w.n = req[r].n /\ w.listed = req[r].listed /\ w.pc = "discard"
        /\ w.replaced = req[r].replaced /\ w.bytes = 0 /\ w.files = 0
        /\ w.freed = e /\ w.usage = req[r].usage /\ w.ok = req[r].ok
    BY <1>1 DEF Call, Pcs
  <2>2. req' = [req EXCEPT ![r] = w]
    BY <1>6
  <2>. HIDE DEF w
  <2>3. Moves(r, "discard") /\ SameUse(r) /\ Holds(r, req[r].replaced, 0, 0, e)
    BY <2>1, <2>2 DEF Moves, OthersKeep, Keeps, SameUse, Holds, TypeInv
  <2>. QED BY <1>1, <1>4, <1>6, <2>3 DEF DidSettle
<1>. QED BY <1>5, <1>6 DEF Settle

(* Discard: the parts are removed, or some are left, and are released either way. *)
LEMMA DiscardDoes ==
  ASSUME TypeInv, NEW r \in Requests, Discard(r)
  PROVE  DidDiscard(r)
<1>. DEFINE b == req[r].usage.bytes
            f == req[r].usage.files
<1>1. b \in Nat /\ f \in Nat
  BY DEF TypeInv, Call, Usages
<1>2. ledger' = [ledger EXCEPT !.bytes = @ - b, !.files = @ - f, !.sessions = @ - 1]
  BY DEF Discard, ReleaseSession
<1>3. Releases(b, f, 1)
  <2>. HIDE DEF b, f
  <2>. QED BY <1>1, <1>2, ReleasesBy
<1>. QED BY <1>3, EndsBy DEF Discard, DidDiscard, Unlocks, own

(* Reopen: the claim is taken back and the booking dropped. *)
LEMMA ReopenDoes ==
  ASSUME TypeInv, NEW r \in Requests, Reopen(r)
  PROVE  DidReopen(r)
BY ReleaseBy DEF Reopen, DidReopen, Unlocks, own

-----------------------------------------------------------------------------
(* How the totals change *)

(* The types of what is booked for one request. *)
LEMMA PlainFields ==
  ASSUME TypeInv, NEW r \in Requests
  PROVE  /\ req[r].replaced \in Nat /\ req[r].bytes \in Nat /\ req[r].files \in Nat
         /\ req[r].freed \in Nat /\ req[r].usage.bytes \in Nat /\ req[r].usage.files \in Nat
         /\ req[r].ok \in BOOLEAN /\ incoming[r] \in Nat
BY DEF TypeInv, Call, Usages

AccountTypes == \A r \in Requests :
    /\ HeldBy(r) \in Nat /\ HeldFilesBy(r) \in Nat /\ MakesBy(r) \in Nat
    /\ SlackBy(r) \in Nat /\ SlackFilesBy(r) \in Nat

(* The types of the accounts of a request. *)
LEMMA AccountsTyped == TypeInv => AccountTypes
<1>. SUFFICES ASSUME TypeInv, NEW r \in Requests
     PROVE  /\ HeldBy(r) \in Nat /\ HeldFilesBy(r) \in Nat /\ MakesBy(r) \in Nat
            /\ SlackBy(r) \in Nat /\ SlackFilesBy(r) \in Nat
  BY DEF AccountTypes
<1>1. HeldBy(r) \in Nat /\ HeldFilesBy(r) \in Nat /\ MakesBy(r) \in Nat
  BY PlainFields DEF HeldBy, HeldFilesBy, MakesBy, Present
<1>2. SlackBy(r) \in Nat
  BY PlainFields DEF SlackBy, Less
<1>3. SlackFilesBy(r) \in Nat
  BY PlainFields DEF SlackFilesBy
<1>. QED BY <1>1, <1>2, <1>3

(* The types of the totals; no request's slack is above all requests' slack. *)
LEMMA TotalsTyped ==
  ASSUME TypeInv
  PROVE  /\ Held \in Nat /\ HeldFiles \in Nat /\ Makes \in Nat
         /\ Slack \in Nat /\ SlackFiles \in Nat
         /\ \A r \in Requests : SlackBy(r) <= Slack /\ SlackFilesBy(r) <= SlackFiles
<1>. DEFINE h == [r \in Requests |-> HeldBy(r)]
            hf == [r \in Requests |-> HeldFilesBy(r)]
            m == [r \in Requests |-> MakesBy(r)]
            c == [r \in Requests |-> SlackBy(r)]
            cf == [r \in Requests |-> SlackFilesBy(r)]
<1>1. \A r \in Requests : /\ h[r] \in Nat /\ hf[r] \in Nat /\ m[r] \in Nat
                          /\ c[r] \in Nat /\ cf[r] \in Nat
                          /\ c[r] = SlackBy(r) /\ cf[r] = SlackFilesBy(r)
  BY AccountsTyped DEF AccountTypes
<1>2. /\ Held = Sum(h, Requests) /\ HeldFiles = Sum(hf, Requests)
      /\ Makes = Sum(m, Requests) /\ Slack = Sum(c, Requests)
      /\ SlackFiles = Sum(cf, Requests)
  BY DEF Held, HeldFiles, Makes, Slack, SlackFiles
<1>. HIDE DEF h, hf, m, c, cf
<1>3. /\ Held \in Nat /\ HeldFiles \in Nat /\ Makes \in Nat
      /\ Slack \in Nat /\ SlackFiles \in Nat
  BY <1>1, <1>2, AllFinite, SumNat
<1>4. \A r \in Requests : c[r] <= Slack /\ cf[r] <= SlackFiles
  BY <1>1, <1>2, AllFinite, SumNat
<1>. QED BY <1>1, <1>3, <1>4

(* When only one request's account changes, the total changes by the difference. *)
LEMMA OneAccount ==
  ASSUME NEW f, NEW g, NEW r \in Requests,
         \A q \in Requests : f[q] \in Nat /\ g[q] \in Nat,
         \A q \in Requests : q # r => g[q] = f[q]
  PROVE  Sum(g, Requests) = (Sum(f, Requests) - f[r]) + g[r]
<1>1. \A q \in Requests : f[q] \in Int /\ g[q] \in Int
  OBVIOUS
<1>. QED BY <1>1, AllFinite, SumChange

(* The totals change by what the account of the request that takes the step does. *)
LEMMA TotalsMove ==
  ASSUME TypeInv, TypeInv', NEW r \in Requests, OthersKeep(r)
  PROVE  /\ Held' = (Held - HeldBy(r)) + HeldBy(r)'
         /\ HeldFiles' = (HeldFiles - HeldFilesBy(r)) + HeldFilesBy(r)'
         /\ Makes' = (Makes - MakesBy(r)) + MakesBy(r)'
         /\ Slack' = (Slack - SlackBy(r)) + SlackBy(r)'
         /\ SlackFiles' = (SlackFiles - SlackFilesBy(r)) + SlackFilesBy(r)'
<1>0. \A q \in Requests : q # r => req'[q] = req[q]
  BY DEF OthersKeep
<1>. AccountTypes /\ AccountTypes'
  <2>1. TypeInv' => AccountTypes'
    BY AccountsTyped, PTL
  <2>. QED BY <2>1, AccountsTyped
<1>1. Held' = (Held - HeldBy(r)) + HeldBy(r)'
  <2>. DEFINE f == [q \in Requests |-> HeldBy(q)]
  <2>1. \A q \in Requests : f[q] \in Nat /\ f'[q] \in Nat /\ (q # r => f'[q] = f[q])
    <3>1. \A q \in Requests : HeldBy(q) \in Nat /\ HeldBy(q)' \in Nat
      BY DEF AccountTypes
    <3>2. \A q \in Requests : q # r => HeldBy(q)' = HeldBy(q)
      BY <1>0 DEF HeldBy
    <3>. QED BY <3>1, <3>2
  <2>2. f[r] = HeldBy(r) /\ f'[r] = HeldBy(r)' /\ Held = Sum(f, Requests)
        /\ Held' = Sum(f', Requests)
    BY DEF Held
  <2>. HIDE DEF f
  <2>. QED BY <2>1, <2>2, OneAccount
<1>2. HeldFiles' = (HeldFiles - HeldFilesBy(r)) + HeldFilesBy(r)'
  <2>. DEFINE f == [q \in Requests |-> HeldFilesBy(q)]
  <2>1. \A q \in Requests : f[q] \in Nat /\ f'[q] \in Nat /\ (q # r => f'[q] = f[q])
    <3>1. \A q \in Requests : HeldFilesBy(q) \in Nat /\ HeldFilesBy(q)' \in Nat
      BY DEF AccountTypes
    <3>2. \A q \in Requests : q # r => HeldFilesBy(q)' = HeldFilesBy(q)
      BY <1>0 DEF HeldFilesBy
    <3>. QED BY <3>1, <3>2
  <2>2. f[r] = HeldFilesBy(r) /\ f'[r] = HeldFilesBy(r)' /\ HeldFiles = Sum(f, Requests)
        /\ HeldFiles' = Sum(f', Requests)
    BY DEF HeldFiles
  <2>. HIDE DEF f
  <2>. QED BY <2>1, <2>2, OneAccount
<1>3. Makes' = (Makes - MakesBy(r)) + MakesBy(r)'
  <2>. DEFINE f == [q \in Requests |-> MakesBy(q)]
  <2>1. \A q \in Requests : f[q] \in Nat /\ f'[q] \in Nat /\ (q # r => f'[q] = f[q])
    <3>1. \A q \in Requests : MakesBy(q) \in Nat /\ MakesBy(q)' \in Nat
      BY DEF AccountTypes
    <3>2. \A q \in Requests : q # r => MakesBy(q)' = MakesBy(q)
      BY <1>0 DEF MakesBy
    <3>. QED BY <3>1, <3>2
  <2>2. f[r] = MakesBy(r) /\ f'[r] = MakesBy(r)' /\ Makes = Sum(f, Requests)
        /\ Makes' = Sum(f', Requests)
    BY DEF Makes
  <2>. HIDE DEF f
  <2>. QED BY <2>1, <2>2, OneAccount
<1>4. Slack' = (Slack - SlackBy(r)) + SlackBy(r)'
  <2>. DEFINE f == [q \in Requests |-> SlackBy(q)]
  <2>1. \A q \in Requests : f[q] \in Nat /\ f'[q] \in Nat /\ (q # r => f'[q] = f[q])
    <3>1. \A q \in Requests : SlackBy(q) \in Nat /\ SlackBy(q)' \in Nat
      BY DEF AccountTypes
    <3>2. \A q \in Requests : q # r => SlackBy(q)' = SlackBy(q)
      BY <1>0 DEF SlackBy
    <3>. QED BY <3>1, <3>2
  <2>2. f[r] = SlackBy(r) /\ f'[r] = SlackBy(r)' /\ Slack = Sum(f, Requests)
        /\ Slack' = Sum(f', Requests)
    BY DEF Slack
  <2>. HIDE DEF f
  <2>. QED BY <2>1, <2>2, OneAccount
<1>5. SlackFiles' = (SlackFiles - SlackFilesBy(r)) + SlackFilesBy(r)'
  <2>. DEFINE f == [q \in Requests |-> SlackFilesBy(q)]
  <2>1. \A q \in Requests : f[q] \in Nat /\ f'[q] \in Nat /\ (q # r => f'[q] = f[q])
    <3>1. \A q \in Requests : SlackFilesBy(q) \in Nat /\ SlackFilesBy(q)' \in Nat
      BY DEF AccountTypes
    <3>2. \A q \in Requests : q # r => SlackFilesBy(q)' = SlackFilesBy(q)
      BY <1>0 DEF SlackFilesBy
    <3>. QED BY <3>1, <3>2
  <2>2. f[r] = SlackFilesBy(r) /\ f'[r] = SlackFilesBy(r)'
        /\ SlackFiles = Sum(f, Requests) /\ SlackFiles' = Sum(f', Requests)
    BY DEF SlackFiles
  <2>. HIDE DEF f
  <2>. QED BY <2>1, <2>2, OneAccount
<1>. QED BY <1>1, <1>2, <1>3, <1>4, <1>5

UsageTypes == \A s \in Sessions : PartBytes(s) \in Nat /\ PartFiles(s) \in Nat
KeptTypes == \A s \in Sessions : KeptBytes(s) \in Nat /\ KeptFiles(s) \in Nat

(* The sizes of all uploads are naturals. *)
LEMMA UsagesTyped == TypeInv => UsageTypes
BY UsageTyped DEF UsageTypes

(* So is what the ledger counts of them. *)
LEMMA KeptTyped == TypeInv => KeptTypes
BY UsageTyped DEF KeptTypes, KeptBytes, KeptFiles

(* The counters of parts that are gone are naturals. *)
LEMMA OverTyped ==
  ASSUME TypeInv PROVE overcounted.bytes \in Nat /\ overcounted.files \in Nat
BY DEF TypeInv, Usages

(* The types of what the ledger counts. *)
LEMMA DiskTyped ==
  ASSUME TypeInv
  PROVE  Stock \in Nat /\ FileStock \in Nat /\ SessionStock \in Nat
<1>. DEFINE pb == [s \in Sessions |-> KeptBytes(s)]
            pf == [s \in Sessions |-> KeptFiles(s)]
            o == overcounted.bytes
            of == overcounted.files
<1>1. \A s \in Sessions : pb[s] \in Nat /\ pf[s] \in Nat
  BY KeptTyped DEF KeptTypes
<1>2. Stock = Sum(stored, Keys) + Sum(pb, Sessions) + o
      /\ FileStock = Count(stored, Keys) + Sum(pf, Sessions) + of
  BY DEF Stock, FileStock
<1>3. o \in Nat /\ of \in Nat
  BY OverTyped
<1>. HIDE DEF pb, pf, o, of
<1>4. Sum(stored, Keys) \in Nat /\ Count(stored, Keys) \in Nat
  BY AllFinite, SumNat, CountNat DEF TypeInv
<1>5. Sum(pb, Sessions) \in Nat /\ Sum(pf, Sessions) \in Nat
  BY <1>1, AllFinite, SumNat
<1>6. SessionStock \in Nat
  BY AllFinite, FS_Subset, FS_CardinalityType DEF SessionStock
<1>. QED BY <1>2, <1>3, <1>4, <1>5, <1>6

(* What the ledger counts is determined by the objects, the parts and the uploads. *)
LEMMA DiskSame ==
  /\ UNCHANGED <<stored, session, part, overcounted>> =>
        Stock' = Stock /\ FileStock' = FileStock
  /\ UNCHANGED session => SessionStock' = SessionStock
BY DEF Stock, FileStock, SessionStock, KeptBytes, KeptFiles, PartBytes, PartFiles

(* Replacing one object changes the bytes by the difference, and the files if there was
   none or is none. *)
LEMMA StoredMoves ==
  ASSUME TypeInv, NEW k \in Keys, NEW v \in Nat,
         stored' = [stored EXCEPT ![k] = v], UNCHANGED <<session, part, overcounted>>
  PROVE  /\ Stock' = (Stock - stored[k]) + v
         /\ FileStock' = (FileStock - Present(stored[k])) + Present(v)
<1>. DEFINE P == Sum([s \in Sessions |-> KeptBytes(s)], Sessions) + overcounted.bytes
            F == Sum([s \in Sessions |-> KeptFiles(s)], Sessions) + overcounted.files
            o == stored[k]
<1>1. P' = P /\ F' = F
  BY DEF KeptBytes, KeptFiles, PartBytes, PartFiles
<1>2. \A x \in Keys : stored[x] \in Int /\ stored'[x] \in Int
  BY DEF TypeInv
<1>3. (\A x \in Keys : x # k => stored'[x] = stored[x]) /\ stored'[k] = v
  BY DEF TypeInv
<1>4. Sum(stored', Keys) = (Sum(stored, Keys) - o) + v
  <2>. DEFINE f == stored
              g == stored'
  <2>1. \A x \in Keys : f[x] \in Int /\ g[x] \in Int
    BY <1>2
  <2>2. \A x \in Keys : x # k => g[x] = f[x]
    BY <1>3
  <2>3. g[k] = v
    BY <1>3
  <2>. HIDE DEF f, g
  <2>4. Sum(g, Keys) = (Sum(f, Keys) - f[k]) + g[k]
    BY <2>1, <2>2, AllFinite, SumChange
  <2>. QED BY <2>3, <2>4 DEF f, g
<1>5. Count(stored', Keys) = (Count(stored, Keys) - Present(o)) + Present(v)
  <2>. DEFINE f == stored
              g == stored'
  <2>1. \A x \in Keys : x # k => g[x] = f[x]
    BY <1>3
  <2>2. g[k] = v
    BY <1>3
  <2>. HIDE DEF f, g
  <2>3. Count(g, Keys) = (Count(f, Keys) - Present(f[k])) + Present(g[k])
    BY <2>1, AllFinite, CountChange DEF Present
  <2>. QED BY <2>2, <2>3 DEF f, g
<1>6. P \in Int /\ F \in Int /\ Sum(stored, Keys) \in Int /\ Count(stored, Keys) \in Int
      /\ o \in Int /\ Present(o) \in Int /\ Present(v) \in Int
  <2>. DEFINE pb == [s \in Sessions |-> KeptBytes(s)]
              pf == [s \in Sessions |-> KeptFiles(s)]
              ob == overcounted.bytes
              of == overcounted.files
  <2>0. ob \in Int /\ of \in Int
    BY OverTyped
  <2>1. \A s \in Sessions : pb[s] \in Int /\ pf[s] \in Int
    BY KeptTyped DEF KeptTypes
  <2>. HIDE DEF pb, pf, ob, of
  <2>2. Sum(pb, Sessions) \in Int /\ Sum(pf, Sessions) \in Int
    BY <2>1, AllFinite, SumInt
  <2>3. Sum(stored, Keys) \in Int /\ Count(stored, Keys) \in Int
    BY <1>2, AllFinite, SumInt, CountNat
  <2>4. o \in Int /\ Present(o) \in Int /\ Present(v) \in Int
    BY <1>2 DEF Present
  <2>5. Sum(pb, Sessions) + ob \in Int /\ Sum(pf, Sessions) + of \in Int
    BY <2>0, <2>2
  <2>. QED BY <2>3, <2>4, <2>5 DEF pb, pf, ob, of
<1>7. Stock = Sum(stored, Keys) + P /\ Stock' = Sum(stored', Keys) + P'
      /\ FileStock = Count(stored, Keys) + F /\ FileStock' = Count(stored', Keys) + F'
  <2>. DEFINE pb == Sum([s \in Sessions |-> KeptBytes(s)], Sessions)
              pf == Sum([s \in Sessions |-> KeptFiles(s)], Sessions)
              ob == overcounted.bytes
              of == overcounted.files
              b == Sum(stored, Keys)
              c == Count(stored, Keys)
  <2>1. /\ Stock = b + pb + ob /\ P = pb + ob /\ Stock' = b' + pb' + ob' /\ P' = pb' + ob'
        /\ FileStock = c + pf + of /\ F = pf + of
        /\ FileStock' = c' + pf' + of' /\ F' = pf' + of'
    BY DEF Stock, FileStock
  <2>2. /\ pb \in Int /\ pf \in Int /\ ob \in Int /\ of \in Int /\ b \in Int /\ c \in Int
        /\ pb' = pb /\ pf' = pf /\ ob' = ob /\ of' = of
    <3>1. ob \in Int /\ of \in Int /\ b \in Int /\ c \in Int /\ ob' = ob /\ of' = of
      BY <1>6, OverTyped
    <3>2. pb' = pb /\ pf' = pf
      BY DEF KeptBytes, KeptFiles, PartBytes, PartFiles
    <3>3. pb \in Int /\ pf \in Int
      <4>. DEFINE fb == [s \in Sessions |-> KeptBytes(s)]
                  ff == [s \in Sessions |-> KeptFiles(s)]
      <4>1. \A s \in Sessions : fb[s] \in Int /\ ff[s] \in Int
        BY KeptTyped DEF KeptTypes
      <4>. HIDE DEF fb, ff
      <4>2. Sum(fb, Sessions) \in Int /\ Sum(ff, Sessions) \in Int
        BY <4>1, AllFinite, SumInt
      <4>. QED BY <4>2 DEF fb, ff
    <3>. QED BY <3>1, <3>2, <3>3
  <2>3. b' \in Int /\ c' \in Int
    BY <1>4, <1>5, <1>6
  <2>. HIDE DEF pb, pf, ob, of, b, c, P, F
  <2>4. Stock = b + P /\ Stock' = b' + P' /\ FileStock = c + F /\ FileStock' = c' + F'
    BY <2>1, <2>2, <2>3
  <2>. QED BY <2>4 DEF b, c
<1>. HIDE DEF P, F, o
<1>8. Stock' = (Stock - o) + v /\ FileStock' = (FileStock - Present(o)) + Present(v)
  BY <1>1, <1>4, <1>5, <1>6, <1>7
<1>. QED BY <1>8 DEF o

(* Changing one upload changes what is counted by what was and is counted of it, and
   by what stays counted of parts that are gone. *)
LEMMA PartsMove ==
  ASSUME TypeInv, TypeInv', NEW s \in Sessions, UNCHANGED stored,
         \A x \in Sessions : x # s => part'[x] = part[x] /\ session'[x] = session[x]
  PROVE  /\ Stock' = (Stock - (KeptBytes(s) + overcounted.bytes))
                        + (KeptBytes(s)' + overcounted'.bytes)
         /\ FileStock' = (FileStock - (KeptFiles(s) + overcounted.files))
                        + (KeptFiles(s)' + overcounted'.files)
<1>. DEFINE pb == [x \in Sessions |-> KeptBytes(x)]
            pf == [x \in Sessions |-> KeptFiles(x)]
            B == Sum(stored, Keys)
            C == Count(stored, Keys)
            ob == overcounted.bytes
            of == overcounted.files
<1>1. \A x \in Sessions : pb[x] \in Int /\ pf[x] \in Int /\ pb'[x] \in Int /\ pf'[x] \in Int
  <2>1. \A x \in Sessions : KeptBytes(x) \in Nat /\ KeptFiles(x) \in Nat
    BY KeptTyped DEF KeptTypes
  <2>2. \A x \in Sessions : KeptBytes(x)' \in Nat /\ KeptFiles(x)' \in Nat
    <3>1. TypeInv' => KeptTypes'
      BY KeptTyped, PTL
    <3>. QED BY <3>1 DEF KeptTypes
  <2>. QED BY <2>1, <2>2
<1>2. \A x \in Sessions : x # s => pb'[x] = pb[x] /\ pf'[x] = pf[x]
  BY DEF KeptBytes, KeptFiles, PartBytes, PartFiles
<1>3. /\ pb[s] = KeptBytes(s) /\ pb'[s] = KeptBytes(s)'
      /\ pf[s] = KeptFiles(s) /\ pf'[s] = KeptFiles(s)'
  OBVIOUS
<1>4. /\ Stock = B + Sum(pb, Sessions) + ob /\ Stock' = B + Sum(pb', Sessions) + ob'
      /\ FileStock = C + Sum(pf, Sessions) + of /\ FileStock' = C + Sum(pf', Sessions) + of'
  BY DEF Stock, FileStock
<1>5. B \in Int /\ C \in Int /\ ob \in Int /\ of \in Int
  BY AllFinite, SumNat, CountNat, OverTyped DEF TypeInv
<1>9. ob' \in Int /\ of' \in Int
  BY DEF TypeInv, Usages
<1>. HIDE DEF pb, pf, B, C, ob, of
<1>6. Sum(pb', Sessions) = (Sum(pb, Sessions) - pb[s]) + pb'[s]
      /\ Sum(pf', Sessions) = (Sum(pf, Sessions) - pf[s]) + pf'[s]
  <2>1. /\ \A x \in Sessions : pb[x] \in Int /\ pb'[x] \in Int
        /\ \A x \in Sessions : pf[x] \in Int /\ pf'[x] \in Int
        /\ \A x \in Sessions : x # s => pb'[x] = pb[x]
        /\ \A x \in Sessions : x # s => pf'[x] = pf[x]
    BY <1>1, <1>2
  <2>2. Sum(pb', Sessions) = (Sum(pb, Sessions) - pb[s]) + pb'[s]
    BY <2>1, AllFinite, SumChange
  <2>3. Sum(pf', Sessions) = (Sum(pf, Sessions) - pf[s]) + pf'[s]
    BY <2>1, AllFinite, SumChange
  <2>. QED BY <2>2, <2>3
<1>7. Sum(pb, Sessions) \in Int /\ Sum(pf, Sessions) \in Int
  BY <1>1, AllFinite, SumInt
<1>8. /\ Stock' = (Stock - (pb[s] + ob)) + (pb'[s] + ob')
      /\ FileStock' = (FileStock - (pf[s] + of)) + (pf'[s] + of')
  BY <1>1, <1>4, <1>5, <1>6, <1>7, <1>9
<1>. QED BY <1>3, <1>8 DEF ob, of

(* An upload that stays counted, with its parts, changes nothing. *)
LEMMA SessionSame ==
  ASSUME TypeInv, TypeInv', NEW s \in Sessions, NEW v,
         session' = [session EXCEPT ![s] = v], UNCHANGED <<stored, part, overcounted>>,
         \/ Counts(session[s]) /\ Counts(v)
         \/ PartBytes(s) = 0 /\ PartFiles(s) = 0
  PROVE  Stock' = Stock /\ FileStock' = FileStock
<1>1. /\ \A x \in Sessions : x # s => part'[x] = part[x] /\ session'[x] = session[x]
      /\ session'[s] = v
  BY DEF TypeInv
<1>2. PartBytes(s)' = PartBytes(s) /\ PartFiles(s)' = PartFiles(s)
  BY DEF PartBytes, PartFiles
<1>3. KeptBytes(s)' = KeptBytes(s) /\ KeptFiles(s)' = KeptFiles(s)
  BY <1>1, <1>2 DEF KeptBytes, KeptFiles
<1>4. /\ Stock' = (Stock - (KeptBytes(s) + overcounted.bytes))
                     + (KeptBytes(s)' + overcounted'.bytes)
      /\ FileStock' = (FileStock - (KeptFiles(s) + overcounted.files))
                     + (KeptFiles(s)' + overcounted'.files)
  BY <1>1, PartsMove
<1>5. /\ Stock \in Int /\ FileStock \in Int /\ KeptBytes(s) \in Int
      /\ KeptFiles(s) \in Int /\ overcounted.bytes \in Int /\ overcounted.files \in Int
  BY DiskTyped, KeptTyped, OverTyped DEF KeptTypes
<1>6. overcounted'.bytes = overcounted.bytes /\ overcounted'.files = overcounted.files
  OBVIOUS
<1>. QED BY <1>3, <1>4, <1>5, <1>6

(* Replacing one part changes the bytes by the difference, and the files if there was
   none or is none. *)
LEMMA PartMoves ==
  ASSUME TypeInv, TypeInv', NEW s \in Sessions, NEW n \in Parts, NEW v \in Nat,
         UNCHANGED <<stored, session, overcounted>>, part' = [part EXCEPT ![s][n] = v],
         Counts(session[s])
  PROVE  /\ Stock' = (Stock - part[s][n]) + v
         /\ FileStock' = (FileStock - Present(part[s][n])) + Present(v)
<1>. DEFINE f == part[s]
            g == part'[s]
<1>1. /\ \A x \in Sessions : x # s => part'[x] = part[x] /\ session'[x] = session[x]
      /\ \A m \in Parts : f[m] \in Int /\ g[m] \in Int
      /\ \A m \in Parts : m # n => g[m] = f[m]
      /\ g[n] = v
  BY DEF TypeInv
<1>2. /\ KeptBytes(s) = Sum(f, Parts) /\ KeptBytes(s)' = Sum(g, Parts)
      /\ KeptFiles(s) = Count(f, Parts) /\ KeptFiles(s)' = Count(g, Parts)
  BY DEF KeptBytes, KeptFiles, PartBytes, PartFiles
<1>. HIDE DEF f, g
<1>3. Sum(g, Parts) = (Sum(f, Parts) - f[n]) + g[n]
  <2>1. \A m \in Parts : f[m] \in Int /\ g[m] \in Int
    BY <1>1
  <2>2. \A m \in Parts : m # n => g[m] = f[m]
    BY <1>1
  <2>. QED BY <2>1, <2>2, AllFinite, SumChange
<1>4. Count(g, Parts) = (Count(f, Parts) - Present(f[n])) + Present(g[n])
  BY <1>1, AllFinite, CountChange DEF Present
<1>5. /\ Stock' = (Stock - (KeptBytes(s) + overcounted.bytes))
                     + (KeptBytes(s)' + overcounted'.bytes)
      /\ FileStock' = (FileStock - (KeptFiles(s) + overcounted.files))
                     + (KeptFiles(s)' + overcounted'.files)
  BY <1>1, PartsMove
<1>6. /\ Stock \in Int /\ FileStock \in Int /\ KeptBytes(s) \in Int
      /\ KeptFiles(s) \in Int /\ overcounted.bytes \in Int /\ overcounted.files \in Int
      /\ overcounted'.bytes = overcounted.bytes /\ overcounted'.files = overcounted.files
  BY DiskTyped, KeptTyped, OverTyped DEF KeptTypes
<1>7. f[n] \in Int /\ Present(f[n]) \in Int /\ Present(v) \in Int
  BY <1>1 DEF Present
<1>8. Stock' = (Stock - f[n]) + v /\ FileStock' = (FileStock - Present(f[n])) + Present(v)
  BY <1>1, <1>2, <1>3, <1>4, <1>5, <1>6, <1>7
<1>. QED BY <1>8 DEF f

(* An upload that is removed, or is no longer counted, takes all it held off the count. *)
LEMMA PartsRemoved ==
  ASSUME TypeInv, TypeInv', NEW s \in Sessions, UNCHANGED <<stored, overcounted>>,
         \A x \in Sessions : x # s => part'[x] = part[x] /\ session'[x] = session[x],
         Counts(session[s]), ~Counts(session'[s]) \/ \A n \in Parts : part'[s][n] = 0
  PROVE  Stock' = Stock - PartBytes(s) /\ FileStock' = FileStock - PartFiles(s)
<1>1. KeptBytes(s)' = 0 /\ KeptFiles(s)' = 0
  <2>1. CASE ~Counts(session'[s])
    BY <2>1 DEF KeptBytes, KeptFiles
  <2>2. CASE \A n \in Parts : part'[s][n] = 0
    <3>1. PartBytes(s)' = 0
      BY <2>2, AllFinite, SumZero DEF PartBytes
    <3>2. {m \in Parts : part'[s][m] > 0} = {}
      BY <2>2
    <3>3. PartFiles(s)' = 0
      BY <3>2, FS_EmptySet DEF PartFiles, Count
    <3>. QED BY <3>1, <3>3 DEF KeptBytes, KeptFiles
  <2>. QED BY <2>1, <2>2
<1>2. KeptBytes(s) = PartBytes(s) /\ KeptFiles(s) = PartFiles(s)
  BY DEF KeptBytes, KeptFiles
<1>4. /\ Stock \in Int /\ FileStock \in Int /\ PartBytes(s) \in Int
      /\ PartFiles(s) \in Int /\ overcounted.bytes \in Int /\ overcounted.files \in Int
      /\ overcounted'.bytes = overcounted.bytes /\ overcounted'.files = overcounted.files
  BY DiskTyped, UsageTyped, OverTyped
<1>5. /\ Stock' = (Stock - (KeptBytes(s) + overcounted.bytes))
                     + (KeptBytes(s)' + overcounted'.bytes)
      /\ FileStock' = (FileStock - (KeptFiles(s) + overcounted.files))
                     + (KeptFiles(s)' + overcounted'.files)
  BY PartsMove
<1>. QED BY <1>1, <1>2, <1>4, <1>5

(* A sum is that over a part of the set and that over the rest of it. *)
LEMMA SumParts ==
  ASSUME NEW S, IsFiniteSet(S), NEW f, \A x \in S : f[x] \in Nat, NEW R \in SUBSET S,
         NEW g, \A x \in S : g[x] = IF x \in R THEN 0 ELSE f[x]
  PROVE  Sum(f, S) = Sum(f, R) + Sum(g, S)
<1>. DEFINE Good == {T \in SUBSET S : Sum(f, T) = Sum(f, T \cap R) + Sum(g, T)}
<1>1. ASSUME NEW T \in SUBSET S, \A x \in T : T \ {x} \in Good
      PROVE  T \in Good
  <2>1. CASE T = {}
    <3>1. T \cap R = {}
      BY <2>1
    <3>2. Sum(f, T) = 0 /\ Sum(g, T) = 0 /\ Sum(f, T \cap R) = 0
      BY <2>1, <3>1, SumEmpty
    <3>. QED BY <3>2
  <2>2. CASE T # {}
    <3>. PICK x \in T : TRUE
      BY <2>2
    <3>. DEFINE V == T \ {x}
    <3>1. IsFiniteSet(T) /\ IsFiniteSet(V) /\ IsFiniteSet(T \cap R) /\ IsFiniteSet(V \cap R)
      BY FS_Subset
    <3>2. (\A y \in T : f[y] \in Int /\ g[y] \in Int) /\ x \in S
      OBVIOUS
    <3>3. Sum(f, T) = f[x] + Sum(f, V) /\ Sum(g, T) = g[x] + Sum(g, V)
      BY <3>1, <3>2, SumSplit
    <3>4. Sum(f, V) = Sum(f, V \cap R) + Sum(g, V)
      BY <1>1
    <3>5. Sum(f, T \cap R) \in Int /\ Sum(f, V \cap R) \in Int /\ Sum(g, V) \in Int
      BY <3>1, <3>2, SumInt
    <3>6. CASE x \in R
      <4>1. x \in T \cap R /\ (T \cap R) \ {x} = V \cap R /\ g[x] = 0
        BY <3>2, <3>6
      <4>2. \A y \in T \cap R : f[y] \in Int
        BY <3>2
      <4>3. Sum(f, T \cap R) = f[x] + Sum(f, V \cap R)
        BY <3>1, <4>1, <4>2, SumSplit
      <4>. QED BY <3>2, <3>3, <3>4, <3>5, <4>1, <4>3
    <3>7. CASE x \notin R
      <4>1. T \cap R = V \cap R /\ g[x] = f[x]
        BY <3>2, <3>7
      <4>2. Sum(f, T \cap R) = Sum(f, V \cap R)
        BY <4>1
      <4>3. f[x] \in Int /\ g[x] \in Int
        BY <3>2
      <4>4. Sum(f, T) = Sum(f, T \cap R) + Sum(g, T)
        <5>. HIDE DEF V
        <5>. QED BY <3>3, <3>4, <3>5, <4>1, <4>2, <4>3
      <4>. QED BY <4>4
    <3>. QED BY <3>6, <3>7
  <2>. QED BY <2>1, <2>2
<1>. HIDE DEF Good
<1>2. S \in Good
  BY <1>1, SetInduction
<1>3. S \cap R = R
  OBVIOUS
<1>. QED BY <1>2, <1>3 DEF Good

(* A count is that over a part of the set and that over the rest of it. *)
LEMMA CountParts ==
  ASSUME NEW S, IsFiniteSet(S), NEW f, NEW R \in SUBSET S,
         NEW g, \A x \in S : g[x] = IF x \in R THEN 0 ELSE f[x]
  PROVE  Count(f, S) = Count(f, R) + Count(g, S)
<1>. DEFINE A == {x \in S : f[x] > 0}
            B == {x \in R : f[x] > 0}
            C == {x \in S : g[x] > 0}
<1>1. A = B \cup C /\ B \cap C = {}
  OBVIOUS
<1>2. IsFiniteSet(B) /\ IsFiniteSet(C)
  BY FS_Subset
<1>3. Cardinality(A) = Cardinality(B) + Cardinality(C)
  <2>. HIDE DEF A, B, C
  <2>1. Cardinality(B \cap C) = 0
    BY <1>1, FS_EmptySet
  <2>2. Cardinality(B \cup C) = Cardinality(B) + Cardinality(C) - Cardinality(B \cap C)
    BY <1>2, FS_Union
  <2>3. Cardinality(B) \in Nat /\ Cardinality(C) \in Nat
    BY <1>2, FS_CardinalityType
  <2>. QED BY <1>1, <2>1, <2>2, <2>3
<1>. QED BY <1>3 DEF Count

(* A failed removal leaves the count as it is: what it took stays counted. *)
LEMMA PartsTaken ==
  ASSUME TypeInv, TypeInv', NEW s \in Sessions, NEW R \in SUBSET Parts, UNCHANGED stored,
         part' = [part EXCEPT ![s] = [n \in Parts |-> IF n \in R THEN 0 ELSE part[s][n]]],
         NEW v, session' = [session EXCEPT ![s] = v], Counts(session[s]), Counts(v),
         overcounted' = [bytes |-> overcounted.bytes + Sum(part[s], R),
                         files |-> overcounted.files + Count(part[s], R)]
  PROVE  Stock' = Stock /\ FileStock' = FileStock
<1>. DEFINE f == part[s]
            g == part'[s]
            ob == overcounted.bytes
            of == overcounted.files
            tb == Sum(f, R)
            tf == Count(f, R)
<1>1. /\ \A x \in Sessions : x # s => part'[x] = part[x] /\ session'[x] = session[x]
      /\ session'[s] = v
      /\ \A n \in Parts : f[n] \in Nat
      /\ \A n \in Parts : g[n] = IF n \in R THEN 0 ELSE f[n]
  BY DEF TypeInv
<1>2. /\ KeptBytes(s) = Sum(f, Parts) /\ KeptBytes(s)' = Sum(g, Parts)
      /\ KeptFiles(s) = Count(f, Parts) /\ KeptFiles(s)' = Count(g, Parts)
  BY <1>1 DEF KeptBytes, KeptFiles, PartBytes, PartFiles
<1>3. /\ overcounted'.bytes = ob + tb /\ overcounted'.files = of + tf
      /\ overcounted.bytes = ob /\ overcounted.files = of
  OBVIOUS
<1>4. ob \in Int /\ of \in Int
  BY OverTyped
<1>. HIDE DEF f, g, ob, of
<1>5. Sum(f, Parts) = tb + Sum(g, Parts)
  BY <1>1, AllFinite, SumParts
<1>6. Count(f, Parts) = tf + Count(g, Parts)
  BY <1>1, AllFinite, CountParts
<1>7. /\ tb \in Int /\ tf \in Int
      /\ Sum(g, Parts) \in Int /\ Count(g, Parts) \in Int
  <2>1. IsFiniteSet(R) /\ (\A n \in R : f[n] \in Int) /\ \A n \in Parts : g[n] \in Int
    BY <1>1, AllFinite, FS_Subset
  <2>. QED BY <2>1, AllFinite, SumInt, CountNat
<1>8. /\ Stock' = (Stock - (KeptBytes(s) + overcounted.bytes))
                     + (KeptBytes(s)' + overcounted'.bytes)
      /\ FileStock' = (FileStock - (KeptFiles(s) + overcounted.files))
                     + (KeptFiles(s)' + overcounted'.files)
  BY <1>1, PartsMove
<1>9. Stock \in Int /\ FileStock \in Int
  BY DiskTyped
<1>. HIDE DEF tb, tf
<1>. QED BY <1>2, <1>3, <1>4, <1>5, <1>6, <1>7, <1>8, <1>9

Kept(state) == IF state \in {"keyless", "open", "joining"} THEN 1 ELSE 0

(* Changing the state of one upload changes the number of uploads by that one. *)
LEMMA SessionMoves ==
  ASSUME TypeInv, NEW s \in Sessions, NEW v, session' = [session EXCEPT ![s] = v]
  PROVE  SessionStock' = (SessionStock - Kept(session[s])) + Kept(v)
<1>. DEFINE A == {x \in Sessions : session[x] \in {"keyless", "open", "joining"}}
            B == {x \in Sessions : session'[x] \in {"keyless", "open", "joining"}}
<1>1. A \in SUBSET Sessions /\ B \in SUBSET Sessions /\ A \ {s} = B \ {s}
  BY DEF TypeInv
<1>2. /\ (s \in A <=> session[s] \in {"keyless", "open", "joining"})
      /\ (s \in B <=> v \in {"keyless", "open", "joining"})
  BY DEF TypeInv
<1>3. SessionStock = Cardinality(A) /\ SessionStock' = Cardinality(B)
  BY DEF SessionStock
<1>. HIDE DEF A, B
<1>4. Cardinality(B) = (Cardinality(A) - (IF s \in A THEN 1 ELSE 0))
                          + (IF s \in B THEN 1 ELSE 0)
  BY <1>1, AllFinite, CardinalityChange
<1>. QED BY <1>2, <1>3, <1>4 DEF Kept

-----------------------------------------------------------------------------
(* A step of one request keeps its part of the invariant *)

(* What a step of request r may change of what others rely on: it creates or joins the
   upload, or the upload is open and no other request has the lock. *)
MayTouch(r, s) ==
    /\ session[s] \in {"none", "keyless", "left"} => req[r].op = "create" /\ req[r].s = s
    /\ session[s] = "joining" => Joining(r) /\ req[r].s = s
    /\ session[s] = "open" => lock \in {NoRequest, r}

(* What a step of request r leaves to the other requests. *)
SharedFrame(r) ==
    /\ OthersKeep(r) /\ ledger'.loaded = ledger.loaded
    /\ \A q \in Requests : q # r => incoming'[q] = incoming[q]
    /\ overdrawn => overdrawn'
    /\ \A q \in Requests : q # r /\ lock = q => lock' = q
    /\ \A k \in Keys : stored'[k] = stored[k] \/ lock = r
    /\ \A s \in Sessions : session'[s] = session[s] \/ MayTouch(r, s)
    /\ \A s \in Sessions : part'[s] = part[s] \/ MayTouch(r, s)
    /\ \A s \in Sessions : session'[s] = "none" => session[s] = "none" /\ part'[s] = part[s]

(* A request claims only an upload that is open, and creates only one nobody creates. *)
PairFrame(r) ==
    /\ Joining(r)' => \/ Joining(r) /\ req'[r].s = req[r].s
                      \/ session[req'[r].s] = "open"
    /\ req'[r].op = "create" =>
          \/ req[r].op = "create" /\ req'[r].s = req[r].s
          \/ \A q \in Requests : ~(req[q].op = "create" /\ req[q].s = req'[r].s)

(* A step changes the ledger by exactly what it changes of what the ledger counts on
   disk and in the request's account. *)
Evens(r) ==
    /\ (Stock' + HeldBy(r)') - ledger'.bytes = (Stock + HeldBy(r)) - ledger.bytes
    /\ (FileStock' + HeldFilesBy(r)') - ledger'.files
          = (FileStock + HeldFilesBy(r)) - ledger.files
    /\ (SessionStock' + MakesBy(r)') - ledger'.sessions
          = (SessionStock + MakesBy(r)) - ledger.sessions

(* A step takes the ledger above its caps by no more than the request's slack. *)
Within(r) == ~overdrawn' =>
    /\ \/ ledger'.bytes <= ByteCap + SlackBy(r)'
       \/ ledger'.bytes - SlackBy(r)' <= ledger.bytes - SlackBy(r)
    /\ \/ ledger'.files <= FileCap + SlackFilesBy(r)'
       \/ ledger'.files - SlackFilesBy(r)' <= ledger.files - SlackFilesBy(r)
    /\ ledger'.sessions <= SessionCap \/ ledger'.sessions <= ledger.sessions

(* All a step of a request has to do for the invariant. *)
GoodStep(r) ==
    TypeInv' /\ SharedFrame(r) /\ RequestInv(r)' /\ PairFrame(r) /\ Evens(r) /\ Within(r)

(* A request that ended satisfies its part of the invariant. *)
LEMMA EndedHolds ==
  ASSUME NEW r \in Requests, Ends(r), ledger'.loaded => incoming'[r] = 0
  PROVE  RequestInv(r)' /\ PairFrame(r)
<1>1. req'[r] = Done
  BY DEF Ends
<1>. USE <1>1, DoneFields
<1>2. PlaceInv(r)'
  BY DEF PlaceInv, Places, Busy
<1>3. HoldInv(r)'
  BY DEF HoldInv, Fresh, Streams, Joined, Joining
<1>4. LockInv(r)' /\ NameInv(r)' /\ MakeInv(r)' /\ SettleInv(r)'
  BY DEF LockInv, NameInv, MakeInv, SettleInv
<1>5. JoinInv(r)' /\ PairFrame(r)
  BY DEF JoinInv, Joining, PairFrame
<1>. QED BY <1>2, <1>3, <1>4, <1>5 DEF RequestInv

(* A request that ended holds nothing. *)
LEMMA EndedAccount ==
  ASSUME NEW r \in Requests, Ends(r)
  PROVE  /\ HeldBy(r)' = 0 /\ HeldFilesBy(r)' = 0 /\ MakesBy(r)' = 0
         /\ SlackBy(r)' = 0 /\ SlackFilesBy(r)' = 0
BY DoneFields DEF Ends, HeldBy, HeldFilesBy, MakesBy, SlackBy, SlackFilesBy, Less

(* The types of all numbers one step relates. *)
LEMMA NumbersTyped ==
  ASSUME TypeInv, NEW r \in Requests
  PROVE  /\ Stock \in Int /\ FileStock \in Int /\ SessionStock \in Int
         /\ ledger.bytes \in Int /\ ledger.files \in Int /\ ledger.sessions \in Int
         /\ HeldBy(r) \in Int /\ HeldFilesBy(r) \in Int /\ MakesBy(r) \in Int
         /\ SlackBy(r) \in Int /\ SlackFilesBy(r) \in Int
         /\ ByteCap \in Int /\ FileCap \in Int /\ SessionCap \in Int
<1>1. Stock \in Int /\ FileStock \in Int /\ SessionStock \in Int
  BY DiskTyped
<1>2. ledger.bytes \in Int /\ ledger.files \in Int /\ ledger.sessions \in Int
  BY DEF TypeInv, Ledger
<1>3. /\ HeldBy(r) \in Int /\ HeldFilesBy(r) \in Int /\ MakesBy(r) \in Int
      /\ SlackBy(r) \in Int /\ SlackFilesBy(r) \in Int
  BY AccountsTyped DEF AccountTypes
<1>4. ByteCap \in Int /\ FileCap \in Int /\ SessionCap \in Int
  BY CapsAssumption
<1>. QED BY <1>1, <1>2, <1>3, <1>4

(* A request refused before anything was booked. *)
LEMMA RejectsHold ==
  ASSUME TypeInv, NEW r \in Requests, RequestInv(r), Rejects(r),
         req[r].pc \in {"read", "claim"}
  PROVE  GoodStep(r)
<1>1. TypeInv'
  BY DEF Rejects, Ends, TypeInv, files
<1>2. SharedFrame(r)
  BY DEF Rejects, Ends, SharedFrame, files
<1>3. RequestInv(r)' /\ PairFrame(r)
  <2>1. ledger'.loaded => incoming'[r] = 0
    BY DEF Rejects, RequestInv, HoldInv, Streams, Joined
  <2>. QED BY <2>1, EndedHolds DEF Rejects
<1>4. /\ HeldBy(r) = 0 /\ HeldFilesBy(r) = 0 /\ MakesBy(r) = 0
      /\ SlackBy(r) = 0 /\ SlackFilesBy(r) = 0
  <2>1. /\ req[r].bytes = 0 /\ req[r].files = 0 /\ req[r].replaced = 0
        /\ req[r].pc \in {"read", "claim"}
    BY DEF RequestInv, HoldInv, Fresh
  <2>. QED BY <2>1 DEF HeldBy, HeldFilesBy, MakesBy, SlackBy, SlackFilesBy, Less
<1>5. /\ HeldBy(r)' = 0 /\ HeldFilesBy(r)' = 0 /\ MakesBy(r)' = 0
      /\ SlackBy(r)' = 0 /\ SlackFilesBy(r)' = 0
  BY EndedAccount DEF Rejects
<1>6. /\ Stock' = Stock /\ FileStock' = FileStock /\ SessionStock' = SessionStock
      /\ ledger' = ledger
  BY DiskSame DEF Rejects, files
<1>7. Evens(r) /\ Within(r)
  BY <1>4, <1>5, <1>6, NumbersTyped DEF Evens, Within
<1>. QED BY <1>1, <1>2, <1>3, <1>7 DEF GoodStep

(* A request dropped with what it booked, from any place where it may be dropped. *)
LEMMA DropsHold ==
  ASSUME TypeInv, NEW r \in Requests, RequestInv(r), Drops(r),
         req[r].pc \in {"body", "store", "name", "rename", "reopen"}, req[r].op # "abort",
         UNCHANGED <<stored, part, overcounted, overdrawn>>,
         lock' = lock \/ (lock = r /\ lock' = NoRequest),
         \/ UNCHANGED session
         \/ /\ req[r].pc = "reopen"
            /\ session' = [session EXCEPT ![req[r].s] = "open"]
  PROVE  GoodStep(r)
<1>0. req[r].pc = "reopen" =>
         Joining(r) /\ req[r].s \in Sessions /\ session[req[r].s] = "joining"
  BY DEF RequestInv, PlaceInv, Places, JoinInv, Joining
<1>1. TypeInv'
  <2>1. req' \in [Requests -> Call] /\ ledger' \in Ledger
        /\ incoming' \in [Requests -> Nat]
    BY DEF Drops, Ends, Releases, TypeInv
  <2>2. session' \in [Sessions -> States]
        /\ lock' \in Requests \cup {NoRequest}
    BY DEF TypeInv, States
  <2>. QED BY <2>1, <2>2 DEF TypeInv
<1>2. SharedFrame(r)
  <2>1. \A q \in Requests : q # r => incoming'[q] = incoming[q]
    BY DEF Drops, TypeInv
  <2>2. \A s \in Sessions : session'[s] = session[s] \/ MayTouch(r, s)
    BY <1>0 DEF MayTouch, TypeInv
  <2>3. OthersKeep(r) /\ ledger'.loaded = ledger.loaded
    BY DEF Drops, Ends, Releases
  <2>4. \A s \in Sessions : session'[s] = "none" => session[s] = "none" /\ part'[s] = part[s]
    BY <1>0 DEF TypeInv
  <2>. QED BY <2>1, <2>2, <2>3, <2>4 DEF SharedFrame
<1>3. RequestInv(r)' /\ PairFrame(r)
  <2>1. Ends(r) /\ incoming'[r] = 0
    BY DEF Drops, TypeInv
  <2>. QED BY <2>1, EndedHolds
<1>4. /\ req[r].bytes \in Nat /\ req[r].files \in Nat /\ req[r].replaced \in Nat
      /\ req[r].files = 1 /\ req[r].freed \in Nat
  BY PlainFields DEF RequestInv, HoldInv, Fresh
<1>5. /\ HeldBy(r) = req[r].bytes /\ HeldFilesBy(r) = req[r].files /\ MakesBy(r) = 0
      /\ SlackBy(r) <= req[r].bytes /\ SlackFilesBy(r) <= req[r].files
  BY <1>4 DEF HeldBy, HeldFilesBy, MakesBy, SlackBy, SlackFilesBy, Less
<1>6. /\ HeldBy(r)' = 0 /\ HeldFilesBy(r)' = 0 /\ MakesBy(r)' = 0
      /\ SlackBy(r)' = 0 /\ SlackFilesBy(r)' = 0
  BY EndedAccount DEF Drops
<1>7. Stock' = Stock /\ FileStock' = FileStock
  <2>1. CASE UNCHANGED session
    BY <2>1, DiskSame
  <2>2. CASE /\ req[r].pc = "reopen"
             /\ session' = [session EXCEPT ![req[r].s] = "open"]
    <3>. DEFINE s == req[r].s
    <3>1. s \in Sessions /\ session' = [session EXCEPT ![s] = "open"]
      BY <1>0, <2>2
    <3>. DEFINE v == "open"
    <3>2. Counts(session[s]) /\ Counts(v)
      BY <1>0, <2>2 DEF Counts
    <3>3. session' = [session EXCEPT ![s] = v] /\ s \in Sessions
      BY <3>1
    <3>4. UNCHANGED <<stored, part, overcounted>>
      OBVIOUS
    <3>. HIDE DEF s, v
    <3>. QED BY <1>1, <3>2, <3>3, <3>4, SessionSame
  <2>. QED BY <2>1, <2>2
<1>8. SessionStock' = SessionStock
  <2>1. CASE UNCHANGED session
    BY <2>1, DiskSame
  <2>2. CASE /\ req[r].pc = "reopen"
             /\ session' = [session EXCEPT ![req[r].s] = "open"]
    <3>1. SessionStock' = (SessionStock - Kept(session[req[r].s])) + Kept("open")
      BY <1>0, <2>2, SessionMoves
    <3>. QED BY <1>0, <2>2, <3>1, NumbersTyped DEF Kept
  <2>. QED BY <2>1, <2>2
<1>9. /\ ledger'.bytes = ledger.bytes - req[r].bytes
      /\ ledger'.files = ledger.files - req[r].files
      /\ ledger'.sessions = ledger.sessions - 0
  BY DEF Drops, Releases
<1>10. Evens(r) /\ Within(r)
  BY <1>4, <1>5, <1>6, <1>7, <1>8, <1>9, NumbersTyped DEF Evens, Within
<1>. QED BY <1>1, <1>2, <1>3, <1>10 DEF GoodStep

(* Read books the file it may write once the caps allow it over the copy it replaces. *)
LEMMA ReadHolds ==
  ASSUME TypeInv, NEW r \in Requests, RequestInv(r), DidRead(r)
  PROVE  GoodStep(r)
<1>1. CASE Rejects(r)
  BY <1>1, RejectsHold DEF DidRead
<1>. DEFINE e == EarlierCopy(r)
<1>2. CASE /\ Moves(r, "body") /\ SameUse(r)
           /\ Holds(r, e, req[r].bytes, 1, req[r].freed)
           /\ Books(0, 1, 0)
           /\ ledger.files + 1 <= FileCap + Present(e)
           /\ UNCHANGED <<files, incoming, lock, overdrawn, overcounted>>
  <2>0. /\ req[r].pc = "read" /\ req[r].op \in {"put", "part"} /\ e \in Nat
        /\ req[r].usage.bytes = 0 /\ req[r].usage.files = 0
        /\ req[r].bytes = 0 /\ req[r].files = 0 /\ req[r].replaced = 0
    <3>1. req[r].pc = "read" /\ (req[r].op = "put" \/ (req[r].op # "put" /\ req[r].op = "part"))
      BY DEF DidRead
    <3>2. e \in Nat
      BY <3>1 DEF RequestInv, PlaceInv, EarlierCopy, TypeInv
    <3>. QED BY <3>1, <3>2 DEF RequestInv, HoldInv, Joining, Fresh
  <2>. HIDE DEF e
  <2>1. TypeInv'
    BY <1>2 DEF TypeInv, Moves, Books, files
  <2>2. SharedFrame(r)
    BY <1>2 DEF Moves, Books, SharedFrame, files
  <2>3. /\ req'[r].op = req[r].op /\ req'[r].pc = "body" /\ req'[r].key = req[r].key
        /\ req'[r].s = req[r].s /\ req'[r].n = req[r].n
        /\ req'[r].bytes = 0 /\ req'[r].files = 1 /\ req'[r].replaced = e
        /\ req'[r].usage.bytes = 0 /\ req'[r].usage.files = 0
    BY <1>2, <2>0 DEF Moves, Keeps, Holds, SameUse
  <2>4. RequestInv(r)'
    <3>1. ledger.loaded /\ ledger'.loaded /\ incoming'[r] = 0
      BY <1>2, <2>0 DEF RequestInv, PlaceInv, HoldInv, Busy, Streams, Joined, Books
    <3>2. PlaceInv(r)'
      BY <2>0, <2>3, <3>1 DEF RequestInv, PlaceInv, Places
    <3>3. HoldInv(r)'
      BY <2>0, <2>3, <3>1 DEF HoldInv, Fresh, Streams, Joined, Joining
    <3>. QED BY <2>0, <2>3, <3>2, <3>3
         DEF RequestInv, LockInv, NameInv, MakeInv, JoinInv, Joining, SettleInv
  <2>5. PairFrame(r)
    BY <2>0, <2>3 DEF PairFrame, Joining
  <2>6. /\ HeldBy(r) = 0 /\ HeldFilesBy(r) = 0 /\ MakesBy(r) = 0
        /\ SlackBy(r) = 0 /\ SlackFilesBy(r) = 0
    BY <2>0 DEF HeldBy, HeldFilesBy, MakesBy, SlackBy, SlackFilesBy, Less
  <2>7. /\ HeldBy(r)' = 0 /\ HeldFilesBy(r)' = 1 /\ MakesBy(r)' = 0
        /\ SlackBy(r)' = 0 /\ SlackFilesBy(r)' = Present(e)
    BY <2>0, <2>3
       DEF HeldBy, HeldFilesBy, MakesBy, SlackBy, SlackFilesBy, Less, Present
  <2>8. /\ Stock' = Stock /\ FileStock' = FileStock /\ SessionStock' = SessionStock
    BY <1>2, DiskSame DEF files
  <2>9. /\ ledger'.bytes = ledger.bytes + 0 /\ ledger'.files = ledger.files + 1
        /\ ledger'.sessions = ledger.sessions + 0 /\ Present(e) \in Nat
    BY <1>2 DEF Books, Present
  <2>10. Evens(r) /\ Within(r)
    BY <1>2, <2>6, <2>7, <2>8, <2>9, NumbersTyped DEF Evens, Within
  <2>. QED BY <2>1, <2>2, <2>4, <2>5, <2>10 DEF GoodStep
<1>. QED BY <1>1, <1>2 DEF DidRead

(* A frame is booked only where the cap allows it over the copy that is replaced. *)
LEMMA FrameHolds ==
  ASSUME TypeInv, NEW r \in Requests, RequestInv(r), DidFrame(r)
  PROVE  GoodStep(r)
<1>0. /\ req[r].pc = "body" /\ req[r].op \in {"put", "part"}
      /\ UNCHANGED <<files, lock, overdrawn, overcounted>>
  BY DEF DidFrame, RequestInv, PlaceInv, Places
<1>1. CASE Drops(r)
  BY <1>0, <1>1, DropsHold DEF files
<1>2. CASE /\ Moves(r, "body") /\ SameUse(r)
           /\ Holds(r, req[r].replaced, req[r].bytes + 1, req[r].files, req[r].freed)
           /\ Books(1, 0, 0)
           /\ incoming' = [incoming EXCEPT ![r] = incoming[r] + 1]
           /\ ledger.bytes + 1 <= ByteCap + req[r].replaced
  <2>1. TypeInv'
    <3>1. incoming' \in [Requests -> Nat]
      BY <1>2 DEF TypeInv
    <3>. QED BY <1>0, <1>2, <3>1 DEF TypeInv, Moves, Books, files
  <2>2. SharedFrame(r)
    <3>1. \A q \in Requests : q # r => incoming'[q] = incoming[q]
      BY <1>2 DEF TypeInv
    <3>2. OthersKeep(r) /\ ledger'.loaded = ledger.loaded
      BY <1>2 DEF Moves, Books
    <3>. QED BY <1>0, <3>1, <3>2 DEF SharedFrame, files
  <2>3. /\ req'[r].op = req[r].op /\ req'[r].pc = "body" /\ req'[r].key = req[r].key
        /\ req'[r].s = req[r].s /\ req'[r].n = req[r].n
        /\ req'[r].bytes = req[r].bytes + 1 /\ req'[r].files = req[r].files
        /\ req'[r].replaced = req[r].replaced /\ req'[r].usage = req[r].usage
    BY <1>2 DEF Moves, Keeps, Holds, SameUse
  <2>4. /\ req[r].bytes \in Nat /\ req[r].files = 1 /\ req[r].replaced \in Nat
        /\ req[r].usage.bytes = 0 /\ req[r].usage.files = 0
    BY <1>0, PlainFields DEF RequestInv, HoldInv, Fresh, Joining
  <2>5. RequestInv(r)'
    <3>1. ledger.loaded /\ ledger'.loaded /\ incoming'[r] = req[r].bytes + 1
      BY <1>0, <1>2
         DEF RequestInv, PlaceInv, HoldInv, Busy, Streams, Joined, Books, TypeInv
    <3>2. PlaceInv(r)'
      BY <1>0, <2>3, <3>1 DEF RequestInv, PlaceInv, Places
    <3>3. HoldInv(r)'
      BY <1>0, <2>3, <2>4, <3>1 DEF HoldInv, Fresh, Streams, Joined, Joining
    <3>. QED BY <1>0, <2>3, <3>2, <3>3
         DEF RequestInv, LockInv, NameInv, MakeInv, JoinInv, Joining, SettleInv
  <2>6. PairFrame(r)
    BY <1>0, <2>3 DEF PairFrame, Joining
  <2>7. /\ HeldBy(r) = req[r].bytes /\ HeldFilesBy(r) = 1 /\ MakesBy(r) = 0
        /\ SlackBy(r) = Less(req[r].bytes, req[r].replaced)
        /\ SlackFilesBy(r) = Present(req[r].replaced)
    BY <1>0, <2>4
       DEF HeldBy, HeldFilesBy, MakesBy, SlackBy, SlackFilesBy, Present
  <2>8. /\ HeldBy(r)' = req[r].bytes + 1 /\ HeldFilesBy(r)' = 1 /\ MakesBy(r)' = 0
        /\ SlackBy(r)' = Less(req[r].bytes + 1, req[r].replaced)
        /\ SlackFilesBy(r)' = Present(req[r].replaced)
    BY <2>3, <2>4 DEF HeldBy, HeldFilesBy, MakesBy, SlackBy, SlackFilesBy, Present
  <2>9. /\ Stock' = Stock /\ FileStock' = FileStock /\ SessionStock' = SessionStock
    BY <1>0, DiskSame DEF files
  <2>10. /\ ledger'.bytes = ledger.bytes + 1 /\ ledger'.files = ledger.files + 0
         /\ ledger'.sessions = ledger.sessions + 0
    BY <1>2 DEF Books
  <2>11. Evens(r)
    <3>1. (Stock' + HeldBy(r)') - ledger'.bytes = (Stock + HeldBy(r)) - ledger.bytes
      BY <2>4, <2>7, <2>8, <2>9, <2>10, NumbersTyped
    <3>2. (FileStock' + HeldFilesBy(r)') - ledger'.files
             = (FileStock + HeldFilesBy(r)) - ledger.files
      BY <2>7, <2>8, <2>9, <2>10, NumbersTyped
    <3>3. (SessionStock' + MakesBy(r)') - ledger'.sessions
             = (SessionStock + MakesBy(r)) - ledger.sessions
      BY <2>7, <2>8, <2>9, <2>10, NumbersTyped
    <3>. QED BY <3>1, <3>2, <3>3 DEF Evens
  <2>12. Within(r)
    BY <1>2, <2>4, <2>7, <2>8, <2>9, <2>10, NumbersTyped DEF Within, Less
  <2>. QED BY <2>1, <2>2, <2>5, <2>6, <2>11, <2>12 DEF GoodStep
<1>. QED BY <1>1, <1>2 DEF DidFrame

(* A step that only moves the request changes no account. *)
LEMMA PlainMoveAccount ==
  ASSUME TypeInv, NEW r \in Requests, RequestInv(r), NEW pc, Moves(r, pc), SameHold(r),
         req'[r].usage = req[r].usage,
         {pc, req[r].pc} \subseteq {"body", "store", "rename", "join", "swap", "reopen"},
         UNCHANGED <<files, ledger, overcounted>>
  PROVE  Evens(r) /\ Within(r)
<1>1. /\ req'[r].pc \in {"body", "store", "rename", "join", "swap", "reopen"}
      /\ req[r].pc \in {"body", "store", "rename", "join", "swap", "reopen"}
      /\ req'[r].bytes = req[r].bytes /\ req'[r].files = req[r].files
      /\ req'[r].replaced = req[r].replaced /\ req'[r].usage = req[r].usage
  BY DEF Moves, SameHold, Holds
<1>2. /\ HeldBy(r)' = HeldBy(r) /\ HeldFilesBy(r)' = HeldFilesBy(r)
      /\ MakesBy(r)' = MakesBy(r) /\ SlackBy(r)' = SlackBy(r)
      /\ SlackFilesBy(r)' = SlackFilesBy(r)
  BY <1>1 DEF HeldBy, HeldFilesBy, MakesBy, SlackBy, SlackFilesBy
<1>3. /\ Stock' = Stock /\ FileStock' = FileStock /\ SessionStock' = SessionStock
      /\ ledger' = ledger
  BY DiskSame DEF files
<1>4. Evens(r)
  BY <1>2, <1>3 DEF Evens
<1>5. Within(r)
  BY <1>2, <1>3, NumbersTyped DEF Within
<1>. QED BY <1>4, <1>5

(* The end of a body changes no account; an empty body has been refused before. *)
LEMMA EndHolds ==
  ASSUME TypeInv, NEW r \in Requests, RequestInv(r), DidEnd(r)
  PROVE  GoodStep(r)
<1>0. /\ req[r].pc = "body" /\ req[r].op \in {"put", "part"} /\ req[r].bytes > 0
      /\ Moves(r, "store") /\ SameUse(r) /\ SameHold(r)
      /\ UNCHANGED <<files, incoming, ledger, lock, overdrawn, overcounted>>
  BY DEF DidEnd, RequestInv, PlaceInv, Places
<1>1. TypeInv' /\ SharedFrame(r)
  BY <1>0 DEF TypeInv, SharedFrame, Moves, files
<1>2. /\ req'[r].op = req[r].op /\ req'[r].pc = "store" /\ req'[r].key = req[r].key
      /\ req'[r].s = req[r].s /\ req'[r].n = req[r].n
      /\ req'[r].bytes = req[r].bytes /\ req'[r].files = req[r].files
      /\ req'[r].replaced = req[r].replaced /\ req'[r].usage = req[r].usage
  BY <1>0 DEF Moves, Keeps, Holds, SameHold, SameUse
<1>3. RequestInv(r)'
  <2>1. PlaceInv(r)'
    BY <1>0, <1>2 DEF RequestInv, PlaceInv, Places, Busy
  <2>2. HoldInv(r)'
    BY <1>0, <1>2 DEF RequestInv, HoldInv, Fresh, Streams, Joined, Joining
  <2>. QED BY <1>0, <1>2, <2>1, <2>2
       DEF RequestInv, LockInv, NameInv, MakeInv, JoinInv, Joining, SettleInv
<1>4. PairFrame(r)
  BY <1>0, <1>2 DEF PairFrame, Joining
<1>5. Evens(r) /\ Within(r)
  BY <1>0, PlainMoveAccount DEF SameUse
<1>. QED BY <1>1, <1>3, <1>4, <1>5 DEF GoodStep

(* A client that goes leaves nothing booked. *)
LEMMA GiveUpHolds ==
  ASSUME TypeInv, NEW r \in Requests, RequestInv(r), DidGiveUp(r)
  PROVE  GoodStep(r)
<1>1. req[r].pc = "body" /\ req[r].op # "abort" /\ Drops(r)
      /\ UNCHANGED <<files, lock, overdrawn, overcounted>>
  BY DEF DidGiveUp, RequestInv, PlaceInv, Places
<1>. QED BY <1>1, DropsHold DEF files

(* Taking the lock for a rename changes no account. *)
LEMMA StorePutHolds ==
  ASSUME TypeInv, NEW r \in Requests, RequestInv(r), DidStorePut(r)
  PROVE  GoodStep(r)
<1>0. /\ req[r].pc = "store" /\ req[r].op = "put" /\ lock = NoRequest /\ lock' = r
      /\ Moves(r, "rename") /\ SameUse(r) /\ SameHold(r)
      /\ UNCHANGED <<files, incoming, ledger, overdrawn, overcounted>>
  BY DEF DidStorePut, At
<1>1. TypeInv' /\ SharedFrame(r)
  BY <1>0, KeysAssumption DEF TypeInv, SharedFrame, Moves, files
<1>2. /\ req'[r].op = "put" /\ req'[r].pc = "rename" /\ req'[r].key = req[r].key
      /\ req'[r].bytes = req[r].bytes /\ req'[r].files = req[r].files
      /\ req'[r].replaced = req[r].replaced /\ req'[r].usage = req[r].usage
  BY <1>0 DEF Moves, Keeps, Holds, SameHold, SameUse
<1>3. RequestInv(r)'
  <2>1. PlaceInv(r)'
    BY <1>0, <1>2 DEF RequestInv, PlaceInv, Places, Busy
  <2>2. HoldInv(r)'
    BY <1>0, <1>2 DEF RequestInv, HoldInv, Fresh, Streams, Joined, Joining
  <2>. QED BY <1>0, <1>2, <2>1, <2>2
       DEF RequestInv, LockInv, NameInv, MakeInv, JoinInv, Joining, SettleInv
<1>4. PairFrame(r)
  BY <1>0, <1>2 DEF PairFrame, Joining
<1>5. Evens(r) /\ Within(r)
  BY <1>0, PlainMoveAccount DEF SameUse
<1>. QED BY <1>1, <1>3, <1>4, <1>5 DEF GoodStep

(* Removing the earlier part releases what it took, under the lock and from an open
   upload. *)
LEMMA StorePartHolds ==
  ASSUME TypeInv, NEW r \in Requests, RequestInv(r), DidStorePart(r)
  PROVE  GoodStep(r)
<1>. DEFINE s == req[r].s
            n == req[r].n
            e == part[s][n]
<1>0. /\ req[r].pc = "store" /\ req[r].op = "part" /\ lock = NoRequest
      /\ UNCHANGED <<stored, session, overdrawn, overcounted>>
      /\ s \in Sessions /\ n \in Parts
  BY DEF DidStorePart, At, RequestInv, PlaceInv
<1>1. CASE Drops(r) /\ UNCHANGED <<part, lock>>
  BY <1>0, <1>1, DropsHold
<1>2. CASE /\ Moves(r, "name") /\ SameUse(r)
           /\ Holds(r, req[r].replaced, req[r].bytes, req[r].files, e)
           /\ Releases(e, Present(e), 0)
           /\ session[s] = "open"
           /\ part' = [part EXCEPT ![s][n] = 0]
           /\ lock' = r /\ UNCHANGED incoming
  <2>0. e \in Nat /\ Present(e) \in Nat
    BY <1>0 DEF TypeInv, Present
  <2>1. TypeInv'
    <3>1. part' \in [Sessions -> [Parts -> Nat]]
      BY <1>0, <1>2 DEF TypeInv
    <3>. QED BY <1>0, <1>2, <3>1 DEF TypeInv, Moves, Releases
  <2>2. SharedFrame(r)
    <3>1. \A x \in Sessions : part'[x] = part[x] \/ x = s
      BY <1>0, <1>2 DEF TypeInv
    <3>2. MayTouch(r, s)
      BY <1>0, <1>2 DEF MayTouch
    <3>. QED BY <1>0, <1>2, <3>1, <3>2, KeysAssumption DEF SharedFrame, Moves, Releases
  <2>3. part'[s][n] = 0
    BY <1>0, <1>2 DEF TypeInv
  <2>. HIDE DEF e
  <2>4. /\ req'[r].op = "part" /\ req'[r].pc = "name" /\ req'[r].key = req[r].key
        /\ req'[r].s = s /\ req'[r].n = n /\ req'[r].freed = e
        /\ req'[r].bytes = req[r].bytes /\ req'[r].files = req[r].files
        /\ req'[r].replaced = req[r].replaced /\ req'[r].usage = req[r].usage
    BY <1>0, <1>2 DEF Moves, Keeps, Holds, SameUse
  <2>5. /\ req[r].bytes \in Nat /\ req[r].files = 1 /\ req[r].replaced \in Nat
        /\ req[r].usage.bytes = 0 /\ req[r].usage.files = 0
    BY <1>0, PlainFields DEF RequestInv, HoldInv, Fresh, Joining
  <2>6. RequestInv(r)'
    <3>1. PlaceInv(r)'
      BY <1>0, <1>2, <2>4 DEF RequestInv, PlaceInv, Places, Busy, Releases
    <3>2. HoldInv(r)'
      BY <1>0, <1>2, <2>4 DEF RequestInv, HoldInv, Fresh, Streams, Joined, Joining, Releases
    <3>. QED BY <1>0, <1>2, <2>3, <2>4, <3>1, <3>2
         DEF RequestInv, LockInv, NameInv, MakeInv, JoinInv, Joining, SettleInv
  <2>7. PairFrame(r)
    BY <2>4 DEF PairFrame, Joining
  <2>8. /\ HeldBy(r) = req[r].bytes /\ HeldFilesBy(r) = 1 /\ MakesBy(r) = 0
        /\ SlackBy(r) = Less(req[r].bytes, req[r].replaced)
        /\ SlackFilesBy(r) = Present(req[r].replaced)
    BY <1>0, <2>5 DEF HeldBy, HeldFilesBy, MakesBy, SlackBy, SlackFilesBy, Present
  <2>9. /\ HeldBy(r)' = req[r].bytes /\ HeldFilesBy(r)' = 1 /\ MakesBy(r)' = 0
        /\ SlackBy(r)' = IF req[r].replaced <= e THEN 0
                         ELSE Less(req[r].bytes, req[r].replaced - e)
        /\ SlackFilesBy(r)' = IF req[r].replaced > e THEN 1 ELSE 0
    BY <2>4, <2>5 DEF HeldBy, HeldFilesBy, MakesBy, SlackBy, SlackFilesBy
  <2>10. /\ Stock' = (Stock - e) + 0 /\ FileStock' = (FileStock - Present(e)) + Present(0)
         /\ SessionStock' = SessionStock
    <3>1. /\ 0 \in Nat /\ UNCHANGED <<stored, session, overcounted>>
          /\ part' = [part EXCEPT ![s][n] = 0] /\ Counts(session[s])
      BY <1>0, <1>2 DEF Counts
    <3>. QED BY <1>0, <2>1, <3>1, DiskSame, PartMoves DEF e
  <2>11. /\ ledger'.bytes = ledger.bytes - e /\ ledger'.files = ledger.files - Present(e)
         /\ ledger'.sessions = ledger.sessions - 0
    BY <1>2 DEF Releases
  <2>12. Evens(r)
    BY <2>0, <2>5, <2>8, <2>9, <2>10, <2>11, NumbersTyped DEF Evens, Present
  <2>13. Within(r)
    <3>1. ledger'.bytes - SlackBy(r)' <= ledger.bytes - SlackBy(r)
      BY <2>0, <2>5, <2>8, <2>9, <2>11, NumbersTyped DEF Less
    <3>2. ledger'.files - SlackFilesBy(r)' <= ledger.files - SlackFilesBy(r)
      BY <2>0, <2>5, <2>8, <2>9, <2>11, NumbersTyped DEF Present
    <3>3. ledger'.sessions <= ledger.sessions
      BY <2>11, NumbersTyped
    <3>. QED BY <3>1, <3>2, <3>3 DEF Within
  <2>. QED BY <2>1, <2>2, <2>6, <2>7, <2>12, <2>13 DEF GoodStep
<1>. QED BY <1>1, <1>2 DEF DidStorePart

(* Naming a part moves its bytes from the request's account to the disk. *)
LEMMA NamePartHolds ==
  ASSUME TypeInv, NEW r \in Requests, RequestInv(r), DidNamePart(r)
  PROVE  GoodStep(r)
<1>. DEFINE s == req[r].s
            n == req[r].n
<1>0. /\ req[r].pc = "name" /\ req[r].op = "part" /\ lock = r /\ lock' = NoRequest
      /\ UNCHANGED <<stored, session, overcounted>>
      /\ s \in Sessions /\ n \in Parts /\ session[s] = "open" /\ part[s][n] = 0
  BY DEF DidNamePart, RequestInv, PlaceInv, Places, NameInv
<1>1. CASE Drops(r) /\ UNCHANGED <<part, overdrawn>>
  BY <1>0, <1>1, DropsHold
<1>2. CASE /\ Ends(r) /\ UNCHANGED ledger
           /\ part' = [part EXCEPT ![s][n] = incoming[r]]
           /\ incoming' = [incoming EXCEPT ![r] = 0]
           /\ overdrawn' = (overdrawn \/ req[r].replaced > req[r].freed)
  <2>1. /\ req[r].bytes \in Nat /\ req[r].bytes > 0 /\ req[r].files = 1
        /\ req[r].replaced \in Nat /\ req[r].freed \in Nat
        /\ incoming[r] = req[r].bytes
    BY <1>0, PlainFields
       DEF RequestInv, PlaceInv, Busy, HoldInv, Fresh, Streams
  <2>2. TypeInv'
    <3>1. part' \in [Sessions -> [Parts -> Nat]] /\ incoming' \in [Requests -> Nat]
      BY <1>0, <1>2, <2>1 DEF TypeInv
    <3>2. overdrawn' \in BOOLEAN
      BY <1>2
    <3>. QED BY <1>0, <1>2, <3>1, <3>2 DEF TypeInv, Ends
  <2>3. SharedFrame(r)
    <3>1. \A x \in Sessions : part'[x] = part[x] \/ x = s
      BY <1>0, <1>2 DEF TypeInv
    <3>2. MayTouch(r, s)
      BY <1>0 DEF MayTouch
    <3>3. \A q \in Requests : q # r => incoming'[q] = incoming[q]
      BY <1>2 DEF TypeInv
    <3>. QED BY <1>0, <1>2, <3>1, <3>2, <3>3 DEF SharedFrame, Ends
  <2>4. RequestInv(r)' /\ PairFrame(r)
    <3>1. incoming'[r] = 0
      BY <1>2 DEF TypeInv
    <3>. QED BY <1>2, <3>1, EndedHolds
  <2>5. /\ HeldBy(r) = req[r].bytes /\ HeldFilesBy(r) = 1 /\ MakesBy(r) = 0
        /\ ~overdrawn' => SlackBy(r) = 0 /\ SlackFilesBy(r) = 0
    <3>1. HeldBy(r) = req[r].bytes /\ HeldFilesBy(r) = 1 /\ MakesBy(r) = 0
      BY <1>0, <2>1 DEF HeldBy, HeldFilesBy, MakesBy
    <3>2. ~overdrawn' => req[r].replaced <= req[r].freed
      <4>1. ~overdrawn' => ~(req[r].replaced > req[r].freed)
        BY <1>2, Zenon
      <4>2. ~(req[r].replaced > req[r].freed) => req[r].replaced <= req[r].freed
        BY <2>1
      <4>. QED BY <4>1, <4>2, Zenon
    <3>3. req[r].replaced <= req[r].freed => SlackBy(r) = 0 /\ SlackFilesBy(r) = 0
      BY <1>0, <2>1 DEF SlackBy, SlackFilesBy
    <3>. QED BY <3>1, <3>2, <3>3
  <2>6. /\ HeldBy(r)' = 0 /\ HeldFilesBy(r)' = 0 /\ MakesBy(r)' = 0
        /\ SlackBy(r)' = 0 /\ SlackFilesBy(r)' = 0
    BY <1>2, EndedAccount
  <2>7. /\ Stock' = (Stock - 0) + req[r].bytes
        /\ FileStock' = (FileStock - 0) + 1
        /\ SessionStock' = SessionStock
    <3>1. /\ UNCHANGED <<stored, session, overcounted>> /\ Counts(session[s])
          /\ part' = [part EXCEPT ![s][n] = req[r].bytes]
      BY <1>0, <1>2, <2>1 DEF Counts
    <3>2. Present(part[s][n]) = 0 /\ Present(req[r].bytes) = 1
      BY <1>0, <2>1 DEF Present
    <3>3. /\ Stock' = (Stock - part[s][n]) + req[r].bytes
          /\ FileStock' = (FileStock - Present(part[s][n])) + Present(req[r].bytes)
      BY <1>0, <2>1, <2>2, <3>1, PartMoves
    <3>. QED BY <1>0, <3>2, <3>3, DiskSame
  <2>8. ledger' = ledger
    BY <1>2
  <2>9. Evens(r) /\ Within(r)
    BY <2>1, <2>5, <2>6, <2>7, <2>8, NumbersTyped DEF Evens, Within
  <2>. QED BY <2>2, <2>3, <2>4, <2>9 DEF GoodStep
<1>. QED BY <1>1, <1>2 DEF DidNamePart

(* An upload is booked before it is made. *)
LEMMA CreateHolds ==
  ASSUME TypeInv, NEW r \in Requests, RequestInv(r), DidCreate(r)
  PROVE  GoodStep(r)
<1>0. req[r].op = "create" /\ req[r].pc = "read"
  BY DEF DidCreate, At
<1>1. CASE Rejects(r)
  BY <1>0, <1>1, RejectsHold
<1>2. CASE /\ Moves(r, "mkdir") /\ SameUse(r) /\ SameHold(r)
           /\ Books(0, 0, 1) /\ ledger.sessions + 1 <= SessionCap
           /\ UNCHANGED <<files, incoming, lock, overdrawn, overcounted>>
  <2>1. TypeInv' /\ SharedFrame(r)
    BY <1>2 DEF TypeInv, SharedFrame, Moves, Books, files
  <2>2. /\ req'[r].op = "create" /\ req'[r].pc = "mkdir" /\ req'[r].s = req[r].s
        /\ req'[r].bytes = 0 /\ req'[r].files = 0 /\ req'[r].replaced = 0
        /\ req'[r].usage = req[r].usage
        /\ req[r].bytes = 0 /\ req[r].files = 0 /\ req[r].replaced = 0
        /\ req[r].usage.bytes = 0 /\ req[r].usage.files = 0
    BY <1>0, <1>2
       DEF Moves, Keeps, Holds, SameHold, SameUse, RequestInv, HoldInv, Fresh, Joining
  <2>3. RequestInv(r)'
    <3>1. PlaceInv(r)'
      BY <1>0, <1>2, <2>2 DEF RequestInv, PlaceInv, Places, Busy, Books
    <3>2. HoldInv(r)'
      BY <1>0, <1>2, <2>2 DEF RequestInv, HoldInv, Fresh, Streams, Joined, Joining, Books
    <3>. QED BY <1>0, <1>2, <2>2, <3>1, <3>2
         DEF RequestInv, LockInv, NameInv, MakeInv, JoinInv, Joining, SettleInv, files
  <2>4. PairFrame(r)
    BY <1>0, <2>2 DEF PairFrame, Joining
  <2>5. /\ HeldBy(r)' = HeldBy(r) /\ HeldFilesBy(r)' = HeldFilesBy(r)
        /\ MakesBy(r) = 0 /\ MakesBy(r)' = 1
        /\ SlackBy(r)' = SlackBy(r) /\ SlackFilesBy(r)' = SlackFilesBy(r)
    BY <1>0, <2>2 DEF HeldBy, HeldFilesBy, MakesBy, SlackBy, SlackFilesBy
  <2>6. /\ Stock' = Stock /\ FileStock' = FileStock /\ SessionStock' = SessionStock
    BY <1>2, DiskSame DEF files
  <2>7. /\ ledger'.bytes = ledger.bytes + 0 /\ ledger'.files = ledger.files + 0
        /\ ledger'.sessions = ledger.sessions + 1
    BY <1>2 DEF Books
  <2>8. Evens(r) /\ Within(r)
    BY <1>2, <2>5, <2>6, <2>7, NumbersTyped DEF Evens, Within
  <2>. QED BY <2>1, <2>3, <2>4, <2>8 DEF GoodStep
<1>. QED BY <1>1, <1>2 DEF DidCreate

(* A request that creates an upload has nothing booked but, at first, the upload. *)
LEMMA MakerAccount ==
  ASSUME TypeInv, NEW r \in Requests, RequestInv(r), req[r].op = "create"
  PROVE  /\ req[r].bytes = 0 /\ req[r].files = 0 /\ req[r].replaced = 0
         /\ req[r].usage.bytes = 0 /\ req[r].usage.files = 0
         /\ HeldBy(r) = 0 /\ HeldFilesBy(r) = 0
         /\ SlackBy(r) = 0 /\ SlackFilesBy(r) = 0
<1>1. req[r].pc \in {"read", "mkdir", "key", "clean"}
  BY DEF RequestInv, PlaceInv, Places
<1>2. /\ req[r].bytes = 0 /\ req[r].files = 0 /\ req[r].replaced = 0
      /\ req[r].usage.bytes = 0 /\ req[r].usage.files = 0
  BY <1>1 DEF RequestInv, HoldInv, Fresh, Joining
<1>. QED BY <1>1, <1>2 DEF HeldBy, HeldFilesBy, SlackBy, SlackFilesBy, Less

(* An upload without parts counts nothing but itself. *)
LEMMA NoParts ==
  ASSUME NEW s \in Sessions, \A n \in Parts : part[s][n] = 0
  PROVE  PartBytes(s) = 0 /\ PartFiles(s) = 0
<1>1. PartBytes(s) = 0
  BY AllFinite, SumZero DEF PartBytes
<1>2. {n \in Parts : part[s][n] > 0} = {}
  OBVIOUS
<1>. QED BY <1>1, <1>2, FS_EmptySet DEF PartFiles, Count

(* What a step of its creator that changes an upload's state leaves as it is. *)
LEMMA MakerFrame ==
  ASSUME TypeInv, NEW r \in Requests, RequestInv(r), req[r].op = "create",
         req[r].pc \in {"mkdir", "key", "clean"},
         OthersKeep(r), req' \in [Requests -> Call],
         ledger' \in Ledger, ledger'.loaded = ledger.loaded,
         UNCHANGED <<stored, part, incoming, lock, overdrawn, overcounted>>,
         NEW v \in States \ {"none"}, session' = [session EXCEPT ![req[r].s] = v]
  PROVE  /\ TypeInv' /\ SharedFrame(r)
         /\ Stock' = Stock /\ FileStock' = FileStock
         /\ SessionStock' = (SessionStock - Kept(session[req[r].s])) + Kept(v)
<1>. DEFINE s == req[r].s
<1>0. /\ s \in Sessions /\ session[s] \in {"none", "keyless", "left"}
      /\ \A n \in Parts : part[s][n] = 0
  BY DEF RequestInv, PlaceInv, MakeInv
<1>1. TypeInv'
  <2>1. session' \in [Sessions -> States]
    BY DEF TypeInv
  <2>. QED BY <2>1 DEF TypeInv
<1>2. SharedFrame(r)
  <2>1. \A x \in Sessions : session'[x] = session[x] \/ x = s
    BY DEF TypeInv
  <2>2. MayTouch(r, s)
    BY <1>0 DEF MayTouch
  <2>3. \A x \in Sessions : session'[x] = "none" => session[x] = "none"
    BY DEF TypeInv
  <2>. QED BY <2>1, <2>2, <2>3 DEF SharedFrame
<1>3. PartBytes(s) = 0 /\ PartFiles(s) = 0
  BY <1>0, NoParts
<1>4. session' = [session EXCEPT ![s] = v]
  OBVIOUS
<1>5. Stock' = Stock /\ FileStock' = FileStock
  <2>. HIDE DEF s
  <2>. QED BY <1>0, <1>1, <1>3, <1>4, SessionSame
<1>6. SessionStock' = (SessionStock - Kept(session[s])) + Kept(v)
  BY <1>0, <1>4, SessionMoves
<1>. QED BY <1>1, <1>2, <1>5, <1>6

(* A creator that goes on keeps its part of the invariant. *)
LEMMA MakerHolds ==
  ASSUME TypeInv, NEW r \in Requests, RequestInv(r), req[r].op = "create",
         req[r].pc \in {"mkdir", "key"}, NEW pc \in {"key", "clean"},
         Moves(r, pc), SameUse(r), SameHold(r), ledger'.loaded,
         UNCHANGED <<part, incoming>>,
         session'[req[r].s] = IF pc = "key" THEN "keyless" ELSE "left"
  PROVE  /\ RequestInv(r)' /\ PairFrame(r)
         /\ HeldBy(r)' = 0 /\ HeldFilesBy(r)' = 0 /\ MakesBy(r)' = 0
         /\ SlackBy(r)' = 0 /\ SlackFilesBy(r)' = 0
<1>1. /\ req'[r].op = "create" /\ req'[r].pc = pc /\ req'[r].s = req[r].s
      /\ req'[r].bytes = 0 /\ req'[r].files = 0 /\ req'[r].replaced = 0
      /\ req'[r].usage.bytes = 0 /\ req'[r].usage.files = 0
  BY MakerAccount DEF Moves, Keeps, Holds, SameHold, SameUse
<1>2. incoming[r] = 0
  BY DEF RequestInv, PlaceInv, Busy, HoldInv, Streams, Joined
<1>3. PlaceInv(r)'
  BY <1>1 DEF RequestInv, PlaceInv, Places, Busy
<1>4. HoldInv(r)'
  BY <1>1, <1>2 DEF HoldInv, Fresh, Streams, Joined, Joining
<1>5. MakeInv(r)'
  BY <1>1 DEF RequestInv, MakeInv
<1>6. RequestInv(r)'
  BY <1>1, <1>3, <1>4, <1>5 DEF RequestInv, LockInv, NameInv, JoinInv, Joining, SettleInv
<1>7. PairFrame(r)
  BY <1>1 DEF PairFrame, Joining
<1>8. /\ HeldBy(r)' = 0 /\ HeldFilesBy(r)' = 0 /\ MakesBy(r)' = 0
      /\ SlackBy(r)' = 0 /\ SlackFilesBy(r)' = 0
  BY <1>1 DEF HeldBy, HeldFilesBy, MakesBy, SlackBy, SlackFilesBy, Less
<1>. QED BY <1>6, <1>7, <1>8

(* Making the directory moves its booking to the disk; failing releases it. *)
LEMMA MakeHolds ==
  ASSUME TypeInv, NEW r \in Requests, RequestInv(r), DidMake(r)
  PROVE  GoodStep(r)
<1>. DEFINE s == req[r].s
<1>0. /\ req[r].pc = "mkdir" /\ req[r].op = "create" /\ s \in Sessions
      /\ session[s] = "none" /\ ledger.loaded
      /\ UNCHANGED <<stored, part, incoming, lock, overdrawn, overcounted>>
  BY DEF DidMake, RequestInv, PlaceInv, Places, MakeInv, Busy
<1>1. /\ HeldBy(r) = 0 /\ HeldFilesBy(r) = 0 /\ MakesBy(r) = 1
      /\ SlackBy(r) = 0 /\ SlackFilesBy(r) = 0
  BY <1>0, MakerAccount DEF MakesBy
<1>2. CASE /\ Moves(r, "key") /\ SameUse(r) /\ SameHold(r)
           /\ session' = [session EXCEPT ![s] = "keyless"] /\ UNCHANGED ledger
  <2>1. /\ "keyless" \in States \ {"none"} /\ OthersKeep(r)
        /\ req' \in [Requests -> Call] /\ ledger' \in Ledger
    BY <1>2 DEF States, Moves, TypeInv
  <2>2. /\ TypeInv' /\ SharedFrame(r) /\ Stock' = Stock /\ FileStock' = FileStock
        /\ SessionStock' = (SessionStock - Kept(session[s])) + Kept("keyless")
    BY <1>0, <1>2, <2>1, MakerFrame
  <2>3. session'[s] = "keyless"
    BY <1>0, <1>2 DEF TypeInv
  <2>4. /\ RequestInv(r)' /\ PairFrame(r)
        /\ HeldBy(r)' = 0 /\ HeldFilesBy(r)' = 0 /\ MakesBy(r)' = 0
        /\ SlackBy(r)' = 0 /\ SlackFilesBy(r)' = 0
    BY <1>0, <1>2, <2>3, MakerHolds
  <2>5. SessionStock' = SessionStock + 1 /\ ledger' = ledger
    BY <1>0, <1>2, <2>2, NumbersTyped DEF Kept
  <2>6. Evens(r) /\ Within(r)
    BY <1>1, <2>2, <2>4, <2>5, NumbersTyped DEF Evens, Within
  <2>. QED BY <2>2, <2>4, <2>6 DEF GoodStep
<1>3. CASE Ends(r) /\ UNCHANGED session /\ Releases(0, 0, 1)
  <2>1. TypeInv'
    BY <1>0, <1>3 DEF TypeInv, Ends, Releases
  <2>2. SharedFrame(r)
    BY <1>0, <1>3 DEF SharedFrame, Ends, Releases
  <2>3. RequestInv(r)' /\ PairFrame(r)
    <3>1. incoming'[r] = 0
      BY <1>0 DEF RequestInv, HoldInv, Streams, Joined
    <3>. QED BY <1>3, <3>1, EndedHolds
  <2>4. /\ HeldBy(r)' = 0 /\ HeldFilesBy(r)' = 0 /\ MakesBy(r)' = 0
        /\ SlackBy(r)' = 0 /\ SlackFilesBy(r)' = 0
    BY <1>3, EndedAccount
  <2>5. Stock' = Stock /\ FileStock' = FileStock /\ SessionStock' = SessionStock
    BY <1>0, <1>3, DiskSame
  <2>6. /\ ledger'.bytes = ledger.bytes - 0 /\ ledger'.files = ledger.files - 0
        /\ ledger'.sessions = ledger.sessions - 1
    BY <1>3 DEF Releases
  <2>7. Evens(r) /\ Within(r)
    BY <1>1, <2>4, <2>5, <2>6, NumbersTyped DEF Evens, Within
  <2>. QED BY <2>1, <2>2, <2>3, <2>7 DEF GoodStep
<1>. QED BY <1>0, <1>2, <1>3 DEF DidMake

(* Writing the key file opens the upload; failing takes it off the ledger while its
   directory is still there. *)
LEMMA KeyHolds ==
  ASSUME TypeInv, NEW r \in Requests, RequestInv(r), DidKey(r)
  PROVE  GoodStep(r)
<1>. DEFINE s == req[r].s
<1>0. /\ req[r].pc = "key" /\ req[r].op = "create" /\ s \in Sessions
      /\ session[s] = "keyless" /\ ledger.loaded /\ ledger \in Ledger
      /\ UNCHANGED <<stored, part, incoming, lock, overdrawn, overcounted>>
  BY DEF DidKey, RequestInv, PlaceInv, Places, MakeInv, Busy, TypeInv
<1>1. /\ HeldBy(r) = 0 /\ HeldFilesBy(r) = 0 /\ MakesBy(r) = 0
      /\ SlackBy(r) = 0 /\ SlackFilesBy(r) = 0
  BY <1>0, MakerAccount DEF MakesBy
<1>2. CASE Ends(r) /\ UNCHANGED ledger /\ session' = [session EXCEPT ![s] = "open"]
  <2>1. /\ "open" \in States \ {"none"} /\ OthersKeep(r) /\ req' \in [Requests -> Call]
    BY <1>2 DEF States, Ends
  <2>2. /\ TypeInv' /\ SharedFrame(r) /\ Stock' = Stock /\ FileStock' = FileStock
        /\ SessionStock' = (SessionStock - Kept(session[s])) + Kept("open")
    BY <1>0, <1>2, <2>1, MakerFrame
  <2>3. RequestInv(r)' /\ PairFrame(r)
    <3>1. incoming'[r] = 0
      BY <1>0 DEF RequestInv, HoldInv, Streams, Joined
    <3>. QED BY <1>2, <3>1, EndedHolds
  <2>4. /\ HeldBy(r)' = 0 /\ HeldFilesBy(r)' = 0 /\ MakesBy(r)' = 0
        /\ SlackBy(r)' = 0 /\ SlackFilesBy(r)' = 0
    BY <1>2, EndedAccount
  <2>5. SessionStock' = SessionStock /\ ledger' = ledger
    BY <1>0, <1>2, <2>2, NumbersTyped DEF Kept
  <2>6. Evens(r) /\ Within(r)
    BY <1>1, <2>2, <2>4, <2>5, NumbersTyped DEF Evens, Within
  <2>. QED BY <2>2, <2>3, <2>6 DEF GoodStep
<1>3. CASE /\ Moves(r, "clean") /\ SameUse(r) /\ SameHold(r) /\ Releases(0, 0, 1)
           /\ session' = [session EXCEPT ![s] = "left"]
  <2>1. /\ "left" \in States \ {"none"} /\ OthersKeep(r) /\ req' \in [Requests -> Call]
        /\ ledger' \in Ledger /\ ledger'.loaded = ledger.loaded
    BY <1>3 DEF States, Moves, Releases
  <2>2. /\ TypeInv' /\ SharedFrame(r) /\ Stock' = Stock /\ FileStock' = FileStock
        /\ SessionStock' = (SessionStock - Kept(session[s])) + Kept("left")
    BY <1>0, <1>3, <2>1, MakerFrame
  <2>3. session'[s] = "left"
    BY <1>0, <1>3 DEF TypeInv
  <2>4. /\ RequestInv(r)' /\ PairFrame(r)
        /\ HeldBy(r)' = 0 /\ HeldFilesBy(r)' = 0 /\ MakesBy(r)' = 0
        /\ SlackBy(r)' = 0 /\ SlackFilesBy(r)' = 0
    <3>1. ledger'.loaded
      BY <1>0, <2>1
    <3>. QED BY <1>0, <1>3, <2>3, <3>1, MakerHolds
  <2>5. SessionStock' = SessionStock - 1
    BY <1>0, <2>2, NumbersTyped DEF Kept
  <2>6. /\ ledger'.bytes = ledger.bytes - 0 /\ ledger'.files = ledger.files - 0
        /\ ledger'.sessions = ledger.sessions - 1
    BY <1>3 DEF Releases
  <2>7. Evens(r) /\ Within(r)
    BY <1>1, <2>2, <2>4, <2>5, <2>6, NumbersTyped DEF Evens, Within
  <2>. QED BY <2>2, <2>4, <2>7 DEF GoodStep
<1>. QED BY <1>0, <1>2, <1>3 DEF DidKey

(* Removing the directory, or failing to, changes no account. *)
LEMMA CleanHolds ==
  ASSUME TypeInv, NEW r \in Requests, RequestInv(r), DidClean(r)
  PROVE  GoodStep(r)
<1>. DEFINE s == req[r].s
<1>0. /\ req[r].pc = "clean" /\ req[r].op = "create" /\ s \in Sessions /\ Ends(r)
      /\ session[s] = "left" /\ ledger.loaded /\ ledger \in Ledger
      /\ UNCHANGED <<stored, part, incoming, ledger, lock, overdrawn, overcounted>>
  BY DEF DidClean, RequestInv, PlaceInv, Places, MakeInv, Busy, TypeInv
<1>1. /\ HeldBy(r) = 0 /\ HeldFilesBy(r) = 0 /\ MakesBy(r) = 0
      /\ SlackBy(r) = 0 /\ SlackFilesBy(r) = 0
  BY <1>0, MakerAccount DEF MakesBy
<1>2. /\ TypeInv' /\ SharedFrame(r) /\ Stock' = Stock /\ FileStock' = FileStock
      /\ SessionStock' = SessionStock
  <2>1. CASE session' = [session EXCEPT ![s] = "gone"]
    <3>1. /\ "gone" \in States \ {"none"} /\ OthersKeep(r) /\ req' \in [Requests -> Call]
      BY <1>0 DEF States, Ends
    <3>2. /\ TypeInv' /\ SharedFrame(r) /\ Stock' = Stock /\ FileStock' = FileStock
          /\ SessionStock' = (SessionStock - Kept(session[s])) + Kept("gone")
      BY <1>0, <2>1, <3>1, MakerFrame
    <3>. QED BY <1>0, <3>2, NumbersTyped DEF Kept
  <2>2. CASE UNCHANGED session
    <3>1. TypeInv'
      BY <1>0, <2>2 DEF TypeInv, Ends
    <3>2. SharedFrame(r)
      BY <1>0, <2>2 DEF SharedFrame, Ends
    <3>. QED BY <1>0, <2>2, <3>1, <3>2, DiskSame
  <2>. QED BY <2>1, <2>2 DEF DidClean
<1>3. RequestInv(r)' /\ PairFrame(r)
  <2>1. incoming'[r] = 0
    BY <1>0 DEF RequestInv, HoldInv, Streams, Joined
  <2>. QED BY <1>0, <2>1, EndedHolds
<1>4. /\ HeldBy(r)' = 0 /\ HeldFilesBy(r)' = 0 /\ MakesBy(r)' = 0
      /\ SlackBy(r)' = 0 /\ SlackFilesBy(r)' = 0
  BY <1>0, EndedAccount
<1>5. Evens(r) /\ Within(r)
  BY <1>0, <1>1, <1>2, <1>4, NumbersTyped DEF Evens, Within
<1>. QED BY <1>2, <1>3, <1>5 DEF GoodStep

(* An abort takes an open upload off the disk and off the ledger, or takes some of its
   parts and releases nothing. *)
LEMMA AbortHolds ==
  ASSUME TypeInv, NEW r \in Requests, RequestInv(r), DidAbort(r)
  PROVE  GoodStep(r)
<1>. DEFINE s == req[r].s
            rest(R) == [n \in Parts |-> IF n \in R THEN 0 ELSE part[s][n]]
<1>0. /\ req[r].pc = "store" /\ req[r].op = "abort" /\ Ends(r) /\ s \in Sessions
      /\ lock = NoRequest /\ ledger.loaded
      /\ UNCHANGED <<stored, incoming, lock, overdrawn>>
  BY DEF DidAbort, At, RequestInv, PlaceInv, Busy
<1>1. /\ HeldBy(r) = 0 /\ HeldFilesBy(r) = 0 /\ MakesBy(r) = 0
      /\ SlackBy(r) = 0 /\ SlackFilesBy(r) = 0
  <2>1. req[r].bytes = 0 /\ req[r].files = 0 /\ req[r].replaced = 0
    BY <1>0 DEF RequestInv, HoldInv, Fresh
  <2>. QED BY <1>0, <2>1 DEF HeldBy, HeldFilesBy, MakesBy, SlackBy, SlackFilesBy, Less
<1>2. /\ HeldBy(r)' = 0 /\ HeldFilesBy(r)' = 0 /\ MakesBy(r)' = 0
      /\ SlackBy(r)' = 0 /\ SlackFilesBy(r)' = 0
  BY <1>0, EndedAccount
<1>3. RequestInv(r)' /\ PairFrame(r)
  <2>1. incoming'[r] = 0
    BY <1>0 DEF RequestInv, HoldInv, Streams, Joined
  <2>. QED BY <1>0, <2>1, EndedHolds
<1>4. session[s] = "open" => MayTouch(r, s)
  BY <1>0 DEF MayTouch
<1>5. CASE /\ session[s] = "open" /\ RemoveSession(s)
           /\ Releases(PartBytes(s), PartFiles(s), 1) /\ UNCHANGED overcounted
  <2>1. TypeInv'
    <3>1. session' \in [Sessions -> States] /\ part' \in [Sessions -> [Parts -> Nat]]
      BY <1>0, <1>5 DEF TypeInv, RemoveSession, States
    <3>. QED BY <1>0, <1>5, <3>1 DEF TypeInv, Ends, Releases
  <2>2. \A x \in Sessions : x # s => session'[x] = session[x] /\ part'[x] = part[x]
    BY <1>5 DEF TypeInv, RemoveSession
  <2>3. session'[s] = "gone" /\ \A n \in Parts : part'[s][n] = 0
    BY <1>0, <1>5 DEF TypeInv, RemoveSession
  <2>4. SharedFrame(r)
    BY <1>0, <1>4, <1>5, <2>2, <2>3 DEF SharedFrame, Ends, Releases
  <2>5. Stock' = Stock - PartBytes(s) /\ FileStock' = FileStock - PartFiles(s)
    <3>1. Counts(session[s]) /\ UNCHANGED <<stored, overcounted>>
      BY <1>0, <1>5 DEF Counts
    <3>. HIDE DEF s
    <3>. QED BY <1>0, <2>1, <2>2, <2>3, <3>1, PartsRemoved
  <2>6. SessionStock' = (SessionStock - Kept(session[s])) + Kept("gone")
    BY <1>0, <1>5, SessionMoves DEF RemoveSession
  <2>7. SessionStock' = SessionStock - 1
    BY <1>5, <2>6, NumbersTyped DEF Kept
  <2>8. /\ ledger'.bytes = ledger.bytes - PartBytes(s)
        /\ ledger'.files = ledger.files - PartFiles(s)
        /\ ledger'.sessions = ledger.sessions - 1
        /\ PartBytes(s) \in Nat /\ PartFiles(s) \in Nat
    BY <1>0, <1>5, UsageTyped DEF Releases
  <2>9. Evens(r) /\ Within(r)
    BY <1>1, <1>2, <2>5, <2>7, <2>8, NumbersTyped DEF Evens, Within
  <2>. QED BY <1>3, <2>1, <2>4, <2>9 DEF GoodStep
<1>6. CASE /\ session[s] = "open" /\ UNCHANGED ledger
           /\ \E R \in SUBSET Parts :
                /\ RemovalFails(s, R, {"open", "keyless"})
                /\ overcounted' = [bytes |-> overcounted.bytes + Sum(part[s], R),
                                   files |-> overcounted.files + Count(part[s], R)]
  <2>. PICK R \in SUBSET Parts :
                /\ RemovalFails(s, R, {"open", "keyless"})
                /\ overcounted' = [bytes |-> overcounted.bytes + Sum(part[s], R),
                                   files |-> overcounted.files + Count(part[s], R)]
    BY <1>6
  <2>. PICK v \in {"open", "keyless"} : session' = [session EXCEPT ![s] = v]
    BY DEF RemovalFails
  <2>1. part' = [part EXCEPT ![s] = rest(R)]
    BY DEF RemovalFails
  <2>2. TypeInv'
    <3>1. session' \in [Sessions -> States]
      BY <1>0 DEF TypeInv, States
    <3>2. \A n \in Parts : part[s][n] \in Nat
      BY <1>0 DEF TypeInv
    <3>3. rest(R) \in [Parts -> Nat]
      BY <3>2
    <3>4. part' \in [Sessions -> [Parts -> Nat]]
      <4>. HIDE DEF rest
      <4>. QED BY <1>0, <2>1, <3>3 DEF TypeInv
    <3>5. Sum(part[s], R) \in Nat /\ Count(part[s], R) \in Nat
      <4>. DEFINE f == part[s]
      <4>1. IsFiniteSet(R) /\ \A n \in R : f[n] \in Nat
        BY <3>2, AllFinite, FS_Subset
      <4>. HIDE DEF f
      <4>2. Sum(f, R) \in Nat /\ Count(f, R) \in Nat
        BY <4>1, SumNat, CountNat
      <4>. QED BY <4>2 DEF f
    <3>6. overcounted' \in Usages
      <4>1. overcounted.bytes + Sum(part[s], R) \in Nat
            /\ overcounted.files + Count(part[s], R) \in Nat
        BY <3>5, OverTyped
      <4>. QED BY <4>1 DEF Usages
    <3>. QED BY <1>0, <1>6, <3>1, <3>4, <3>6 DEF TypeInv, Ends
  <2>3. \A x \in Sessions : x # s => session'[x] = session[x] /\ part'[x] = part[x]
    BY <2>1 DEF TypeInv
  <2>4. session'[s] = v /\ v # "none"
    BY <1>0 DEF TypeInv
  <2>5. SharedFrame(r)
    BY <1>0, <1>4, <1>6, <2>3, <2>4 DEF SharedFrame, Ends
  <2>6. Stock' = Stock /\ FileStock' = FileStock
    <3>1. Counts(session[s]) /\ Counts(v) /\ UNCHANGED stored
      BY <1>0, <1>6 DEF Counts
    <3>2. part' = [part EXCEPT ![s] = [n \in Parts |-> IF n \in R THEN 0 ELSE part[s][n]]]
      BY <2>1
    <3>3. overcounted' = [bytes |-> overcounted.bytes + Sum(part[s], R),
                          files |-> overcounted.files + Count(part[s], R)]
      OBVIOUS
    <3>4. session' = [session EXCEPT ![s] = v]
      OBVIOUS
    <3>. HIDE DEF s, rest
    <3>. QED BY <1>0, <2>2, <3>1, <3>2, <3>3, <3>4, PartsTaken
  <2>7. SessionStock' = (SessionStock - Kept(session[s])) + Kept(v)
    BY <1>0, SessionMoves
  <2>8. SessionStock' = SessionStock /\ ledger' = ledger
    BY <1>6, <2>7, NumbersTyped DEF Kept
  <2>9. Evens(r) /\ Within(r)
    BY <1>1, <1>2, <2>6, <2>8, NumbersTyped DEF Evens, Within
  <2>. QED BY <1>3, <2>2, <2>5, <2>9 DEF GoodStep
<1>7. CASE UNCHANGED <<session, part, ledger, overcounted>>
  <2>1. TypeInv'
    BY <1>0, <1>7 DEF TypeInv, Ends
  <2>2. SharedFrame(r)
    BY <1>0, <1>7 DEF SharedFrame, Ends
  <2>3. /\ Stock' = Stock /\ FileStock' = FileStock /\ SessionStock' = SessionStock
    BY <1>0, <1>7, DiskSame
  <2>4. Evens(r) /\ Within(r)
    BY <1>1, <1>2, <1>7, <2>3, NumbersTyped DEF Evens, Within
  <2>. QED BY <1>3, <2>1, <2>2, <2>4 DEF GoodStep
<1>. QED BY <1>5, <1>6, <1>7 DEF DidAbort

(* A claim books the whole object over the parts and the object it will replace, and
   nobody else has claimed the upload. *)
LEMMA ClaimHolds ==
  ASSUME TypeInv, NEW r \in Requests, RequestInv(r), DidClaim(r)
  PROVE  GoodStep(r)
<1>. DEFINE s == req[r].s
            e == stored[req[r].key]
            t == Whole(r)
<1>0. /\ req[r].pc = "claim" /\ req[r].op = "complete" /\ lock = NoRequest
      /\ s \in Sessions /\ e \in Nat /\ ledger.loaded
  BY DEF DidClaim, RequestInv, PlaceInv, Places, TypeInv, Busy
<1>1. CASE Rejects(r)
  BY <1>0, <1>1, RejectsHold
<1>2. CASE /\ Moves(r, "join") /\ req'[r].ok = req[r].ok
           /\ req'[r].usage.bytes = PartBytes(s)
           /\ req'[r].usage.files = PartFiles(s)
           /\ Holds(r, PartBytes(s) + e, t, 1, req[r].freed)
           /\ Books(t, 1, 0)
           /\ session[s] = "open"
           /\ session' = [session EXCEPT ![s] = "joining"]
           /\ \A n \in DOMAIN req[r].listed : part[s][n] = req[r].listed[n]
           /\ ledger.bytes + t <= ByteCap + (PartBytes(s) + e)
           /\ ledger.files + 1 <= FileCap + (PartFiles(s) + Present(e))
           /\ t \in Nat /\ t > 0
           /\ UNCHANGED <<stored, part, incoming, lock, overdrawn, overcounted>>
  <2>1. TypeInv'
    <3>1. session' \in [Sessions -> States]
      BY <1>0, <1>2 DEF TypeInv, States
    <3>. QED BY <1>2, <3>1 DEF TypeInv, Moves, Books
  <2>2. SharedFrame(r)
    <3>1. \A x \in Sessions : session'[x] = session[x] \/ x = s
      BY <1>2 DEF TypeInv
    <3>2. MayTouch(r, s)
      BY <1>0, <1>2 DEF MayTouch
    <3>3. \A x \in Sessions : session'[x] = "none" => session[x] = "none"
      BY <1>2 DEF TypeInv
    <3>. QED BY <1>2, <3>1, <3>2, <3>3 DEF SharedFrame, Moves, Books
  <2>3. session'[s] = "joining"
    BY <1>0, <1>2 DEF TypeInv
  <2>. HIDE DEF e, t
  <2>4. /\ req'[r].op = "complete" /\ req'[r].pc = "join" /\ req'[r].key = req[r].key
        /\ req'[r].s = s /\ req'[r].listed = req[r].listed
        /\ req'[r].bytes = t /\ req'[r].files = 1 /\ req'[r].replaced = PartBytes(s) + e
        /\ req'[r].ok = req[r].ok
    BY <1>0, <1>2 DEF Moves, Keeps, Holds
  <2>5. /\ PartBytes(s) \in Nat /\ PartFiles(s) \in Nat
        /\ PartBytes(s)' = PartBytes(s) /\ PartFiles(s)' = PartFiles(s)
    <3>1. PartBytes(s) \in Nat /\ PartFiles(s) \in Nat
      BY <1>0, UsageTyped
    <3>2. PartBytes(s)' = PartBytes(s) /\ PartFiles(s)' = PartFiles(s)
      <4>1. part' = part /\ req'[r].s = req[r].s
        BY <1>2, <2>4
      <4>. QED BY <4>1 DEF PartBytes, PartFiles
    <3>. QED BY <3>1, <3>2
  <2>6. RequestInv(r)'
    <3>1. PlaceInv(r)'
      BY <1>0, <1>2, <2>4 DEF RequestInv, PlaceInv, Places, Busy, Books
    <3>2. HoldInv(r)'
      BY <1>0, <1>2, <2>4 DEF RequestInv, HoldInv, Fresh, Streams, Joined, Joining, Books
    <3>3. JoinInv(r)'
      <4>1. Whole(r)' = t
        BY <2>4 DEF Whole, t
      <4>2. ~req'[r].ok
        BY <1>0, <2>4 DEF RequestInv, JoinInv
      <4>. QED BY <1>2, <2>3, <2>4, <2>5, <4>1, <4>2 DEF JoinInv
    <3>. QED BY <2>4, <3>1, <3>2, <3>3
         DEF RequestInv, LockInv, NameInv, MakeInv, SettleInv
  <2>7. PairFrame(r)
    BY <1>2, <2>4 DEF PairFrame
  <2>8. /\ HeldBy(r) = 0 /\ HeldFilesBy(r) = 0 /\ MakesBy(r) = 0
        /\ SlackBy(r) = 0 /\ SlackFilesBy(r) = 0
    <3>1. req[r].bytes = 0 /\ req[r].files = 0 /\ req[r].replaced = 0
      BY <1>0 DEF RequestInv, HoldInv, Fresh
    <3>. QED BY <1>0, <3>1
         DEF HeldBy, HeldFilesBy, MakesBy, SlackBy, SlackFilesBy, Less
  <2>9. /\ HeldBy(r)' = t /\ HeldFilesBy(r)' = 1 /\ MakesBy(r)' = 0
        /\ SlackBy(r)' = Less(t, PartBytes(s) + e)
        /\ SlackFilesBy(r)' = IF PartFiles(s) > 0 \/ PartBytes(s) + e > PartBytes(s)
                              THEN 1 ELSE 0
    BY <1>2, <2>4 DEF HeldBy, HeldFilesBy, MakesBy, SlackBy, SlackFilesBy
  <2>10. /\ Stock' = Stock /\ FileStock' = FileStock
         /\ SessionStock' = SessionStock
    <3>. DEFINE v == "joining"
    <3>1. SessionStock' = (SessionStock - Kept(session[s])) + Kept(v)
      BY <1>0, <1>2, SessionMoves
    <3>2. SessionStock' = SessionStock
      BY <1>2, <3>1, NumbersTyped DEF Kept
    <3>3. /\ session' = [session EXCEPT ![s] = v] /\ Counts(session[s]) /\ Counts(v)
          /\ UNCHANGED <<stored, part, overcounted>>
      BY <1>2 DEF Counts
    <3>. HIDE DEF s, v
    <3>4. Stock' = Stock /\ FileStock' = FileStock
      BY <1>0, <2>1, <3>3, SessionSame
    <3>. QED BY <3>2, <3>4
  <2>11. /\ ledger'.bytes = ledger.bytes + t /\ ledger'.files = ledger.files + 1
         /\ ledger'.sessions = ledger.sessions + 0
    BY <1>2 DEF Books
  <2>12. Evens(r)
    BY <1>2, <2>8, <2>9, <2>10, <2>11, NumbersTyped DEF Evens
  <2>13. Within(r)
    <3>1. \/ ledger'.bytes <= ByteCap + SlackBy(r)'
          \/ ledger'.bytes - SlackBy(r)' <= ledger.bytes - SlackBy(r)
      BY <1>0, <1>2, <2>5, <2>8, <2>9, <2>11, NumbersTyped DEF Less
    <3>2. \/ ledger'.files <= FileCap + SlackFilesBy(r)'
          \/ ledger'.files - SlackFilesBy(r)' <= ledger.files - SlackFilesBy(r)
      BY <1>0, <1>2, <2>5, <2>8, <2>9, <2>11, NumbersTyped DEF Present, e
    <3>3. ledger'.sessions <= ledger.sessions
      BY <2>11, NumbersTyped
    <3>. QED BY <3>1, <3>2, <3>3 DEF Within
  <2>. QED BY <2>1, <2>2, <2>6, <2>7, <2>12, <2>13 DEF GoodStep
<1>. QED BY <1>1, <1>2 DEF DidClaim

(* Joining writes what was booked: the parts are still as they were listed. *)
LEMMA JoinHolds ==
  ASSUME TypeInv, NEW r \in Requests, RequestInv(r), DidJoin(r)
  PROVE  GoodStep(r)
<1>. DEFINE s == req[r].s
            L == DOMAIN req[r].listed
<1>0. /\ req[r].pc = "join" /\ req[r].op = "complete" /\ s \in Sessions
      /\ Moves(r, "swap") /\ SameHold(r) /\ req'[r].usage = req[r].usage
      /\ UNCHANGED <<files, ledger, lock, overdrawn, overcounted>>
      /\ ledger.loaded /\ ~req[r].ok
  BY DEF DidJoin, RequestInv, PlaceInv, Places, Busy, JoinInv
<1>1. /\ req[r].bytes = Whole(r) /\ incoming[r] = 0 /\ Whole(r) \in Nat
      /\ L \subseteq Parts /\ \A n \in L : part[s][n] = req[r].listed[n]
      /\ \A n \in L : req[r].listed[n] \in Nat
  <2>1. req[r].bytes = Whole(r) /\ \A n \in L : part[s][n] = req[r].listed[n]
    BY <1>0 DEF RequestInv, JoinInv, Joining
  <2>2. incoming[r] = 0
    BY <1>0 DEF RequestInv, HoldInv, Streams, Joined
  <2>3. PlaceInv(r)
    BY DEF RequestInv
  <2>. QED BY <1>0, <2>1, <2>2, <2>3, WholeIs
<1>2. Sum(part[s], L) = Whole(r)
  <2>. DEFINE f == req[r].listed
              g == part[s]
  <2>1. IsFiniteSet(L) /\ \A n \in L : f[n] \in Int /\ g[n] = f[n]
    BY <1>1, AllFinite, FS_Subset
  <2>2. Whole(r) = Sum(f, L)
    BY DEF Whole
  <2>. HIDE DEF L, f, g
  <2>3. Sum(g, L) = Sum(f, L)
    BY <2>1, SumSame
  <2>. QED BY <2>2, <2>3 DEF f, g
<1>3. \/ incoming' = [incoming EXCEPT ![r] = Whole(r)] /\ req'[r].ok
      \/ UNCHANGED incoming /\ ~req'[r].ok
  BY <1>0, <1>2 DEF DidJoin
<1>4. TypeInv'
  <2>1. incoming' \in [Requests -> Nat]
    BY <1>1, <1>3 DEF TypeInv
  <2>. QED BY <1>0, <2>1 DEF TypeInv, Moves, files
<1>5. SharedFrame(r)
  <2>1. \A q \in Requests : q # r => incoming'[q] = incoming[q]
    BY <1>3 DEF TypeInv
  <2>. QED BY <1>0, <2>1 DEF SharedFrame, Moves, files
<1>6. /\ req'[r].op = "complete" /\ req'[r].pc = "swap" /\ req'[r].key = req[r].key
      /\ req'[r].s = s /\ req'[r].listed = req[r].listed
      /\ req'[r].bytes = req[r].bytes /\ req'[r].files = req[r].files
      /\ req'[r].replaced = req[r].replaced /\ req'[r].usage = req[r].usage
  BY <1>0 DEF Moves, Keeps, Holds, SameHold
<1>7. RequestInv(r)'
  <2>1. PlaceInv(r)'
    BY <1>0, <1>6 DEF RequestInv, PlaceInv, Places, Busy
  <2>2. HoldInv(r)'
    <3>1. incoming'[r] = IF req'[r].ok THEN req[r].bytes ELSE 0
      BY <1>1, <1>3 DEF TypeInv
    <3>. QED BY <1>0, <1>6, <3>1 DEF RequestInv, HoldInv, Fresh, Streams, Joined, Joining
  <2>3. JoinInv(r)'
    <3>1. Whole(r)' = Whole(r)
      BY <1>6 DEF Whole
    <3>2. PartBytes(s)' = PartBytes(s) /\ PartFiles(s)' = PartFiles(s)
      BY <1>0, <1>6 DEF PartBytes, PartFiles, files
    <3>. QED BY <1>0, <1>1, <1>6, <3>1, <3>2 DEF RequestInv, JoinInv, Joining, files
  <2>. QED BY <1>6, <2>1, <2>2, <2>3
       DEF RequestInv, LockInv, NameInv, MakeInv, SettleInv
<1>8. PairFrame(r)
  BY <1>0, <1>6 DEF PairFrame, Joining
<1>9. Evens(r) /\ Within(r)
  BY <1>0, PlainMoveAccount
<1>. QED BY <1>4, <1>5, <1>7, <1>8, <1>9 DEF GoodStep

(* Taking the lock after the join changes no account. *)
LEMMA SwapHolds ==
  ASSUME TypeInv, NEW r \in Requests, RequestInv(r), DidSwap(r)
  PROVE  GoodStep(r)
<1>. DEFINE s == req[r].s
<1>0. /\ req[r].pc = "swap" /\ req[r].op = "complete" /\ s \in Sessions
      /\ lock = NoRequest /\ lock' = r /\ SameHold(r) /\ SameUse(r)
      /\ UNCHANGED <<files, incoming, ledger, overdrawn, overcounted>>
      /\ ledger.loaded
  BY DEF DidSwap, RequestInv, PlaceInv, Places, Busy
<1>1. PICK pc \in {"rename", "reopen"} : Moves(r, pc) /\ (pc = "rename" <=> req[r].ok)
  BY DEF DidSwap
<1>2. TypeInv' /\ SharedFrame(r)
  BY <1>0, <1>1, KeysAssumption DEF TypeInv, SharedFrame, Moves, files
<1>3. /\ req'[r].op = "complete" /\ req'[r].pc = pc /\ req'[r].key = req[r].key
      /\ req'[r].s = s /\ req'[r].listed = req[r].listed
      /\ req'[r].bytes = req[r].bytes /\ req'[r].files = req[r].files
      /\ req'[r].replaced = req[r].replaced /\ req'[r].usage = req[r].usage
      /\ req'[r].ok = req[r].ok
  BY <1>0, <1>1 DEF Moves, Keeps, Holds, SameHold, SameUse
<1>4. RequestInv(r)'
  <2>1. PlaceInv(r)'
    BY <1>0, <1>1, <1>3 DEF RequestInv, PlaceInv, Places, Busy
  <2>2. HoldInv(r)'
    BY <1>0, <1>1, <1>3 DEF RequestInv, HoldInv, Fresh, Streams, Joined, Joining
  <2>3. JoinInv(r)'
    <3>1. Whole(r)' = Whole(r)
      BY <1>3 DEF Whole
    <3>2. PartBytes(s)' = PartBytes(s) /\ PartFiles(s)' = PartFiles(s)
      BY <1>0, <1>3 DEF PartBytes, PartFiles, files
    <3>. QED BY <1>0, <1>1, <1>3, <3>1, <3>2 DEF RequestInv, JoinInv, Joining, files
  <2>. QED BY <1>0, <1>1, <1>3, <2>1, <2>2, <2>3
       DEF RequestInv, LockInv, NameInv, MakeInv, SettleInv
<1>5. PairFrame(r)
  BY <1>0, <1>3 DEF PairFrame, Joining
<1>6. Evens(r) /\ Within(r)
  BY <1>0, <1>1, PlainMoveAccount DEF SameUse
<1>. QED BY <1>2, <1>4, <1>5, <1>6 DEF GoodStep

(* A rename moves the new object's bytes from the request's account to the disk and
   leaves the old one's to be released; it records whether the old one had shrunk below
   what room was given for. *)
LEMMA RenameHolds ==
  ASSUME TypeInv, NEW r \in Requests, RequestInv(r), DidRename(r)
  PROVE  GoodStep(r)
<1>. DEFINE s == req[r].s
            k == req[r].key
            e == stored[k]
<1>0. /\ req[r].pc = "rename" /\ req[r].op \in {"put", "complete"} /\ k \in Keys
      /\ lock = r /\ UNCHANGED <<session, part, overcounted>> /\ ledger.loaded
  BY DEF DidRename, RequestInv, PlaceInv, Places, Busy
<1>1. CASE req[r].op = "put" /\ Drops(r) /\ lock' = NoRequest /\ UNCHANGED <<stored, overdrawn>>
  BY <1>0, <1>1, DropsHold
<1>. DEFINE Same == /\ req'[r].op = req[r].op /\ req'[r].key = k /\ req'[r].s = s
                    /\ req'[r].listed = req[r].listed
                    /\ req'[r].bytes = req[r].bytes /\ req'[r].files = req[r].files
                    /\ req'[r].replaced = req[r].replaced /\ req'[r].usage = req[r].usage
<1>2. /\ req[r].bytes \in Nat /\ req[r].bytes > 0 /\ req[r].files = 1 /\ e \in Nat
      /\ req[r].replaced \in Nat /\ req[r].usage.bytes \in Nat
      /\ req[r].usage.files \in Nat
      /\ incoming[r] = req[r].bytes
      /\ req[r].op = "complete" => s \in Sessions /\ req[r].ok /\ req[r].bytes = Whole(r)
  <2>1. /\ req[r].bytes > 0 /\ req[r].files = 1
        /\ req[r].op = "complete" => s \in Sessions /\ req[r].ok /\ req[r].bytes = Whole(r)
    BY <1>0 DEF RequestInv, PlaceInv, HoldInv, Fresh, JoinInv, Joining
  <2>2. incoming[r] = req[r].bytes
    BY <1>0, <2>1 DEF RequestInv, HoldInv, Streams, Joined
  <2>3. e \in Nat
    BY <1>0 DEF TypeInv
  <2>. QED BY <2>1, <2>2, <2>3, PlainFields
<1>3. CASE /\ req[r].op = "complete" /\ Moves(r, "reopen") /\ SameHold(r)
           /\ req'[r].usage = req[r].usage /\ req'[r].ok = FALSE
           /\ incoming' = [incoming EXCEPT ![r] = 0]
           /\ UNCHANGED <<stored, overdrawn, ledger, lock>>
  <2>0. /\ incoming' \in [Requests -> Nat] /\ incoming'[r] = 0
        /\ \A q \in Requests : q # r => incoming'[q] = incoming[q]
    BY <1>3 DEF TypeInv
  <2>1. TypeInv' /\ SharedFrame(r)
    BY <1>0, <1>3, <2>0 DEF TypeInv, SharedFrame, Moves, files
  <2>2. Same /\ req'[r].pc = "reopen" /\ ~req'[r].ok
    BY <1>3 DEF Moves, Keeps, Holds, SameHold
  <2>3. RequestInv(r)'
    <3>1. PlaceInv(r)'
      BY <1>0, <1>3, <2>2 DEF RequestInv, PlaceInv, Places, Busy
    <3>2. HoldInv(r)'
      BY <1>0, <1>3, <2>0, <2>2 DEF RequestInv, HoldInv, Fresh, Streams, Joined, Joining
    <3>3. JoinInv(r)'
      <4>1. Whole(r)' = Whole(r)
        BY <2>2 DEF Whole
      <4>2. PartBytes(s)' = PartBytes(s) /\ PartFiles(s)' = PartFiles(s)
        BY <1>0, <2>2 DEF PartBytes, PartFiles
      <4>. QED BY <1>0, <1>3, <2>2, <4>1, <4>2 DEF RequestInv, JoinInv, Joining
    <3>. QED BY <1>0, <1>3, <2>2, <3>1, <3>2, <3>3
         DEF RequestInv, LockInv, NameInv, MakeInv, SettleInv
  <2>4. PairFrame(r)
    BY <1>0, <1>3, <2>2 DEF PairFrame, Joining
  <2>5. Evens(r) /\ Within(r)
    <3>1. UNCHANGED <<files, ledger, overcounted>> /\ req'[r].usage = req[r].usage
      BY <1>0, <1>3, <2>2 DEF files
    <3>. QED BY <1>0, <1>3, <3>1, PlainMoveAccount
  <2>. QED BY <2>1, <2>3, <2>4, <2>5 DEF GoodStep
<1>4. CASE /\ Moves(r, "settle") /\ SameUse(r)
           /\ Holds(r, req[r].replaced, req[r].bytes, req[r].files, e)
           /\ stored' = [stored EXCEPT ![k] = incoming[r]]
           /\ incoming' = [incoming EXCEPT ![r] = 0]
           /\ overdrawn' = (overdrawn \/ req[r].replaced > e + req[r].usage.bytes)
           /\ UNCHANGED <<ledger, lock>>
  <2>1. TypeInv'
    <3>1. stored' \in [Keys -> Nat] /\ incoming' \in [Requests -> Nat]
      BY <1>0, <1>2, <1>4 DEF TypeInv
    <3>2. overdrawn' \in BOOLEAN
      BY <1>4
    <3>. QED BY <1>0, <1>4, <3>1, <3>2 DEF TypeInv, Moves
  <2>2. SharedFrame(r)
    <3>1. \A q \in Requests : q # r => incoming'[q] = incoming[q]
      BY <1>4 DEF TypeInv
    <3>. QED BY <1>0, <1>4, <3>1 DEF SharedFrame, Moves
  <2>3. incoming'[r] = 0 /\ stored'[k] = req[r].bytes
    BY <1>0, <1>2, <1>4 DEF TypeInv
  <2>4. /\ UNCHANGED <<session, part, overcounted>>
        /\ stored' = [stored EXCEPT ![k] = req[r].bytes]
    BY <1>0, <1>2, <1>4
  <2>5. /\ Stock' = (Stock - e) + req[r].bytes
        /\ FileStock' = (FileStock - Present(e)) + 1
        /\ SessionStock' = SessionStock
    <3>1. Present(req[r].bytes) = 1
      BY <1>2 DEF Present
    <3>. QED BY <1>0, <1>2, <2>4, <3>1, StoredMoves, DiskSame
  <2>6. ~overdrawn' => req[r].replaced <= e + req[r].usage.bytes
    <3>1. ~overdrawn' => ~(req[r].replaced > e + req[r].usage.bytes)
      BY <1>4, Zenon
    <3>2. ~(req[r].replaced > e + req[r].usage.bytes)
             => req[r].replaced <= e + req[r].usage.bytes
      BY <1>2
    <3>. QED BY <3>1, <3>2, Zenon
  <2>. HIDE DEF e
  <2>7. Same /\ req'[r].pc = "settle" /\ req'[r].freed = e /\ req'[r].ok = req[r].ok
    BY <1>4 DEF Moves, Keeps, Holds, SameUse
  <2>8. RequestInv(r)'
    <3>1. PlaceInv(r)'
      BY <1>0, <1>4, <2>7 DEF RequestInv, PlaceInv, Places, Busy
    <3>2. HoldInv(r)'
      BY <1>0, <1>4, <2>3, <2>7 DEF RequestInv, HoldInv, Fresh, Streams, Joined, Joining
    <3>3. JoinInv(r)'
      <4>1. Whole(r)' = Whole(r)
        BY <2>7 DEF Whole
      <4>2. PartBytes(s)' = PartBytes(s) /\ PartFiles(s)' = PartFiles(s)
        BY <1>0, <2>7 DEF PartBytes, PartFiles
      <4>. QED BY <1>0, <1>2, <1>4, <2>3, <2>7, <4>1, <4>2 DEF RequestInv, JoinInv, Joining
    <3>4. SettleInv(r)'
      BY <2>6, <2>7 DEF SettleInv
    <3>. QED BY <1>0, <1>4, <2>7, <3>1, <3>2, <3>3, <3>4
         DEF RequestInv, LockInv, NameInv, MakeInv
  <2>9. PairFrame(r)
    BY <1>0, <2>7 DEF PairFrame, Joining
  <2>10. /\ HeldBy(r) = req[r].bytes /\ HeldFilesBy(r) = 1 /\ MakesBy(r) = 0
         /\ SlackBy(r) = Less(req[r].bytes, req[r].replaced)
         /\ SlackFilesBy(r) =
               IF req[r].usage.files > 0 \/ req[r].replaced > req[r].usage.bytes THEN 1 ELSE 0
    BY <1>0, <1>2 DEF HeldBy, HeldFilesBy, MakesBy, SlackBy, SlackFilesBy
  <2>11. /\ HeldBy(r)' = e /\ HeldFilesBy(r)' = Present(e) /\ MakesBy(r)' = 0
         /\ SlackBy(r)' = req[r].replaced
         /\ SlackFilesBy(r)' = req[r].usage.files
               + (IF req[r].replaced > req[r].usage.bytes THEN 1 ELSE 0)
    BY <2>7 DEF HeldBy, HeldFilesBy, MakesBy, SlackBy, SlackFilesBy
  <2>12. ledger' = ledger /\ Present(e) \in Nat
    BY <1>4 DEF Present
  <2>13. Evens(r)
    BY <1>2, <2>5, <2>10, <2>11, <2>12, NumbersTyped DEF Evens
  <2>14. Within(r)
    <3>1. SlackBy(r) <= SlackBy(r)' /\ SlackFilesBy(r) <= SlackFilesBy(r)'
      BY <1>2, <2>10, <2>11 DEF Less
    <3>2. SlackBy(r)' \in Int /\ SlackFilesBy(r)' \in Int
      BY <1>2, <2>11
    <3>. QED BY <2>12, <3>1, <3>2, NumbersTyped DEF Within
  <2>. QED BY <2>1, <2>2, <2>8, <2>9, <2>13, <2>14 DEF GoodStep
<1>. QED BY <1>1, <1>3, <1>4 DEF DidRename

(* Settling releases the object that was replaced. *)
LEMMA SettleHolds ==
  ASSUME TypeInv, NEW r \in Requests, RequestInv(r), DidSettle(r)
  PROVE  GoodStep(r)
<1>. DEFINE s == req[r].s
            e == req[r].freed
<1>0. /\ req[r].pc = "settle" /\ req[r].op \in {"put", "complete"} /\ lock = r
      /\ Releases(e, Present(e), 0) /\ ledger.loaded
      /\ UNCHANGED <<files, incoming, overdrawn, overcounted>>
  BY DEF DidSettle, RequestInv, PlaceInv, Places, Busy
<1>1. /\ e \in Nat /\ Present(e) \in Nat /\ req[r].replaced \in Nat
      /\ req[r].usage.bytes \in Nat /\ req[r].usage.files \in Nat
      /\ req[r].op = "put" => req[r].usage.bytes = 0 /\ req[r].usage.files = 0
      /\ ~overdrawn' => req[r].replaced <= e + req[r].usage.bytes
      /\ incoming'[r] = 0
  <2>1. req[r].op = "put" => req[r].usage.bytes = 0 /\ req[r].usage.files = 0
    BY DEF RequestInv, HoldInv, Joining
  <2>2. ~overdrawn' => req[r].replaced <= e + req[r].usage.bytes
    BY <1>0 DEF RequestInv, SettleInv
  <2>3. incoming'[r] = 0
    BY <1>0 DEF RequestInv, HoldInv, Streams, Joined
  <2>. QED BY <2>1, <2>2, <2>3, PlainFields DEF Present
<1>2. /\ HeldBy(r) = e /\ HeldFilesBy(r) = Present(e) /\ MakesBy(r) = 0
      /\ SlackBy(r) = req[r].replaced
      /\ SlackFilesBy(r) = req[r].usage.files
            + (IF req[r].replaced > req[r].usage.bytes THEN 1 ELSE 0)
  BY <1>0 DEF HeldBy, HeldFilesBy, MakesBy, SlackBy, SlackFilesBy
<1>3. /\ Stock' = Stock /\ FileStock' = FileStock /\ SessionStock' = SessionStock
      /\ ledger'.bytes = ledger.bytes - e /\ ledger'.files = ledger.files - Present(e)
      /\ ledger'.sessions = ledger.sessions - 0
  BY <1>0, DiskSame DEF Releases, files
<1>4. CASE req[r].op = "put" /\ Ends(r) /\ lock' = NoRequest
  <2>1. TypeInv' /\ SharedFrame(r)
    BY <1>0, <1>4 DEF TypeInv, SharedFrame, Ends, Releases, files
  <2>2. RequestInv(r)' /\ PairFrame(r)
    BY <1>1, <1>4, EndedHolds
  <2>3. /\ HeldBy(r)' = 0 /\ HeldFilesBy(r)' = 0 /\ MakesBy(r)' = 0
        /\ SlackBy(r)' = 0 /\ SlackFilesBy(r)' = 0
    BY <1>4, EndedAccount
  <2>4. Evens(r)
    BY <1>1, <1>2, <1>3, <2>3, NumbersTyped DEF Evens
  <2>5. Within(r)
    <3>. HIDE DEF e
    <3>1. ~overdrawn' => ledger'.bytes - SlackBy(r)' <= ledger.bytes - SlackBy(r)
      BY <1>1, <1>2, <1>3, <1>4, <2>3, NumbersTyped
    <3>2. ~overdrawn' => ledger'.files - SlackFilesBy(r)' <= ledger.files - SlackFilesBy(r)
      BY <1>1, <1>2, <1>3, <1>4, <2>3, NumbersTyped DEF Present
    <3>3. ledger'.sessions <= ledger.sessions
      BY <1>3, NumbersTyped
    <3>. QED BY <3>1, <3>2, <3>3 DEF Within
  <2>. QED BY <2>1, <2>2, <2>4, <2>5 DEF GoodStep
<1>5. CASE /\ req[r].op # "put" /\ Moves(r, "discard") /\ SameUse(r)
           /\ Holds(r, req[r].replaced, 0, 0, e) /\ UNCHANGED lock
  <2>1. TypeInv' /\ SharedFrame(r)
    BY <1>0, <1>5 DEF TypeInv, SharedFrame, Moves, Releases, files
  <2>2. /\ req'[r].op = "complete" /\ req'[r].pc = "discard" /\ req'[r].key = req[r].key
        /\ req'[r].s = s /\ req'[r].listed = req[r].listed
        /\ req'[r].bytes = 0 /\ req'[r].files = 0
        /\ req'[r].replaced = req[r].replaced /\ req'[r].usage = req[r].usage
    BY <1>0, <1>5 DEF Moves, Keeps, Holds, SameUse
  <2>3. RequestInv(r)'
    <3>1. PlaceInv(r)'
      BY <1>0, <1>5, <2>2 DEF RequestInv, PlaceInv, Places, Busy, Releases
    <3>2. HoldInv(r)'
      BY <1>0, <1>1, <1>5, <2>2 DEF HoldInv, Fresh, Streams, Joined, Joining
    <3>3. JoinInv(r)'
      <4>1. Whole(r)' = Whole(r)
        BY <2>2 DEF Whole
      <4>2. PartBytes(s)' = PartBytes(s) /\ PartFiles(s)' = PartFiles(s)
        BY <1>0, <2>2 DEF PartBytes, PartFiles, files
      <4>. QED BY <1>0, <1>5, <2>2, <4>1, <4>2 DEF RequestInv, JoinInv, Joining, files
    <3>. QED BY <1>0, <1>5, <2>2, <3>1, <3>2, <3>3
         DEF RequestInv, LockInv, NameInv, MakeInv, SettleInv
  <2>4. PairFrame(r)
    BY <1>0, <1>5, <2>2 DEF PairFrame, Joining
  <2>5. /\ HeldBy(r)' = 0 /\ HeldFilesBy(r)' = 0 /\ MakesBy(r)' = 0
        /\ SlackBy(r)' = req[r].usage.bytes /\ SlackFilesBy(r)' = req[r].usage.files
    BY <2>2 DEF HeldBy, HeldFilesBy, MakesBy, SlackBy, SlackFilesBy
  <2>6. Evens(r)
    BY <1>1, <1>2, <1>3, <2>5, NumbersTyped DEF Evens
  <2>7. Within(r)
    <3>. HIDE DEF e
    <3>1. ~overdrawn' => ledger'.bytes - SlackBy(r)' <= ledger.bytes - SlackBy(r)
      BY <1>1, <1>2, <1>3, <2>5, NumbersTyped
    <3>2. ~overdrawn' => ledger'.files - SlackFilesBy(r)' <= ledger.files - SlackFilesBy(r)
      BY <1>1, <1>2, <1>3, <2>5, NumbersTyped DEF Present
    <3>3. ledger'.sessions <= ledger.sessions
      BY <1>3, NumbersTyped
    <3>. QED BY <3>1, <3>2, <3>3 DEF Within
  <2>. QED BY <2>1, <2>3, <2>4, <2>6, <2>7 DEF GoodStep
<1>. QED BY <1>4, <1>5 DEF DidSettle

(* Discarding takes the parts off the ledger, whether or not they could be removed. *)
LEMMA DiscardHolds ==
  ASSUME TypeInv, NEW r \in Requests, RequestInv(r), DidDiscard(r)
  PROVE  GoodStep(r)
<1>. DEFINE s == req[r].s
            b == req[r].usage.bytes
            f == req[r].usage.files
            rest(R) == [n \in Parts |-> IF n \in R THEN 0 ELSE part[s][n]]
<1>0. /\ req[r].pc = "discard" /\ req[r].op = "complete" /\ lock = r /\ lock' = NoRequest
      /\ Ends(r) /\ Releases(b, f, 1)
      /\ UNCHANGED <<stored, incoming, overdrawn, overcounted>>
      /\ s \in Sessions
  BY DEF DidDiscard, RequestInv, PlaceInv, Places
<1>1. /\ session[s] = "joining" /\ b = PartBytes(s) /\ f = PartFiles(s)
      /\ b \in Nat /\ f \in Nat /\ req[r].bytes = 0 /\ req[r].files = 0
  <2>1. /\ session[s] = "joining" /\ b = PartBytes(s) /\ f = PartFiles(s)
        /\ req[r].bytes = 0 /\ req[r].files = 0
    BY <1>0 DEF RequestInv, HoldInv, JoinInv, Joining
  <2>. QED BY <2>1, PlainFields
<1>2. \E v \in {"gone", "joined", "left"}, R \in SUBSET Parts :
         /\ session' = [session EXCEPT ![s] = v] /\ part' = [part EXCEPT ![s] = rest(R)]
         /\ v = "gone" => R = Parts
  <2>1. CASE RemoveSession(s)
    <3>1. rest(Parts) = [n \in Parts |-> 0]
      OBVIOUS
    <3>. QED BY <2>1, <3>1 DEF RemoveSession
  <2>2. CASE \E R \in SUBSET Parts : RemovalFails(s, R, {"joined", "left"})
    BY <2>2 DEF RemovalFails
  <2>. QED BY <2>1, <2>2 DEF DidDiscard
<1>. PICK v \in {"gone", "joined", "left"}, R \in SUBSET Parts :
         /\ session' = [session EXCEPT ![s] = v] /\ part' = [part EXCEPT ![s] = rest(R)]
         /\ v = "gone" => R = Parts
  BY <1>2
<1>3. TypeInv'
  <2>1. session' \in [Sessions -> States]
    BY <1>0 DEF TypeInv, States
  <2>2. rest(R) \in [Parts -> Nat]
    BY <1>0 DEF TypeInv
  <2>3. part' \in [Sessions -> [Parts -> Nat]]
    <3>. HIDE DEF rest
    <3>. QED BY <1>0, <2>2 DEF TypeInv
  <2>. QED BY <1>0, <2>1, <2>3 DEF TypeInv, Ends, Releases
<1>4. \A x \in Sessions : x # s => session'[x] = session[x] /\ part'[x] = part[x]
  BY DEF TypeInv
<1>5. session'[s] = v /\ part'[s] = rest(R)
  BY <1>0 DEF TypeInv
<1>6. SharedFrame(r)
  <2>1. MayTouch(r, s)
    BY <1>0, <1>1 DEF MayTouch, Joining
  <2>. QED BY <1>0, <1>4, <1>5, <2>1 DEF SharedFrame, Ends, Releases
<1>7. RequestInv(r)' /\ PairFrame(r)
  <2>1. ledger'.loaded => incoming'[r] = 0
    BY <1>0 DEF RequestInv, HoldInv, Streams, Joined, Releases
  <2>. QED BY <1>0, <2>1, EndedHolds
<1>8. /\ HeldBy(r) = 0 /\ HeldFilesBy(r) = 0 /\ MakesBy(r) = 0
      /\ SlackBy(r) = b /\ SlackFilesBy(r) = f
  BY <1>0, <1>1 DEF HeldBy, HeldFilesBy, MakesBy, SlackBy, SlackFilesBy
<1>9. /\ HeldBy(r)' = 0 /\ HeldFilesBy(r)' = 0 /\ MakesBy(r)' = 0
      /\ SlackBy(r)' = 0 /\ SlackFilesBy(r)' = 0
  BY <1>0, EndedAccount
<1>10. /\ ledger'.bytes = ledger.bytes - b /\ ledger'.files = ledger.files - f
       /\ ledger'.sessions = ledger.sessions - 1
  BY <1>0 DEF Releases
<1>11. Stock' = Stock - b /\ FileStock' = FileStock - f
  <2>1. Counts(session[s]) /\ (~Counts(session'[s]) \/ \A n \in Parts : part'[s][n] = 0)
    BY <1>1, <1>5 DEF Counts
  <2>2. UNCHANGED <<stored, overcounted>>
    BY <1>0
  <2>3. Stock' = Stock - PartBytes(s) /\ FileStock' = FileStock - PartFiles(s)
    <3>. HIDE DEF s
    <3>. QED BY <1>0, <1>3, <1>4, <2>1, <2>2, PartsRemoved
  <2>. QED BY <1>1, <2>3
<1>12. SessionStock' = (SessionStock - Kept(session[s])) + Kept(v)
  BY <1>0, SessionMoves
<1>13. SessionStock' = SessionStock - 1
  BY <1>1, <1>12, NumbersTyped DEF Kept
<1>. HIDE DEF b, f
<1>14. Evens(r)
  BY <1>1, <1>8, <1>9, <1>10, <1>11, <1>13, NumbersTyped DEF Evens
<1>15. Within(r)
  BY <1>1, <1>8, <1>9, <1>10, NumbersTyped DEF Within
<1>. QED BY <1>3, <1>6, <1>7, <1>14, <1>15 DEF GoodStep

(* Reopening drops the joined file and gives the upload back. *)
LEMMA ReopenHolds ==
  ASSUME TypeInv, NEW r \in Requests, RequestInv(r), DidReopen(r)
  PROVE  GoodStep(r)
<1>1. /\ req[r].pc = "reopen" /\ req[r].op = "complete" /\ lock = r /\ lock' = NoRequest
      /\ Ends(r) /\ Releases(req[r].bytes, req[r].files, 0)
      /\ UNCHANGED <<stored, part, incoming, overdrawn, overcounted>>
      /\ \/ session' = [session EXCEPT ![req[r].s] = "open"]
         \/ UNCHANGED session
  BY DEF DidReopen, RequestInv, PlaceInv, Places
<1>2. incoming[r] = 0
  BY <1>1 DEF RequestInv, PlaceInv, Busy, HoldInv, Streams, Joined
<1>3. Drops(r)
  BY <1>1, <1>2 DEF Drops, TypeInv
<1>. QED BY <1>1, <1>3, DropsHold

-----------------------------------------------------------------------------
(* A step of one request keeps the ledger *)

(* A step of one request keeps every other request's part of the invariant. *)
LEMMA OthersHold ==
  ASSUME TypeInv, NEW r \in Requests, SharedFrame(r), OneMaker, OneJoins,
         NEW q \in Requests, q # r, RequestInv(q)
  PROVE  RequestInv(q)'
<1>1. /\ req'[q] = req[q] /\ ledger'.loaded = ledger.loaded /\ incoming'[q] = incoming[q]
      /\ lock = q => lock' = q /\ \A k \in Keys : stored'[k] = stored[k]
      /\ overdrawn => overdrawn'
  BY DEF SharedFrame, OthersKeep
<1>2. /\ \A s \in Sessions : session'[s] = session[s] \/ MayTouch(r, s)
      /\ \A s \in Sessions : part'[s] = part[s] \/ MayTouch(r, s)
  BY DEF SharedFrame
<1>3. PlaceInv(q)' /\ HoldInv(q)' /\ LockInv(q)'
  <2>1. PlaceInv(q)'
    BY <1>1 DEF RequestInv, PlaceInv, Busy
  <2>2. HoldInv(q)'
    BY <1>1 DEF RequestInv, HoldInv, Fresh, Streams, Joined, Joining
  <2>3. LockInv(q)'
    BY <1>1 DEF RequestInv, LockInv
  <2>. QED BY <2>1, <2>2, <2>3
<1>4. NameInv(q)'
  <2>. SUFFICES ASSUME req[q].pc = "name" PROVE NameInv(q)'
    BY <1>1 DEF NameInv
  <2>. DEFINE s == req[q].s
  <2>1. s \in Sessions /\ session[s] = "open" /\ part[s][req[q].n] = 0 /\ lock = q
    BY DEF RequestInv, PlaceInv, Places, NameInv, LockInv
  <2>2. ~MayTouch(r, s)
    BY <2>1, KeysAssumption DEF MayTouch
  <2>. QED BY <1>1, <1>2, <2>1, <2>2 DEF NameInv
<1>5. MakeInv(q)'
  <2>. SUFFICES ASSUME req[q].op = "create" PROVE MakeInv(q)'
    BY <1>1 DEF MakeInv
  <2>. DEFINE s == req[q].s
  <2>1. s \in Sessions /\ session[s] \in {"none", "keyless", "left"} /\ MakeInv(q)
    BY DEF RequestInv, PlaceInv, Places, MakeInv
  <2>2. ~MayTouch(r, s)
    BY <2>1 DEF MayTouch, OneMaker
  <2>3. session'[s] = session[s] /\ part'[s] = part[s]
    BY <1>2, <2>1, <2>2
  <2>. QED BY <1>1, <2>1, <2>3 DEF MakeInv
<1>6. JoinInv(q)'
  <2>1. CASE Joining(q)
    <3>. DEFINE s == req[q].s
    <3>1. s \in Sessions /\ session[s] = "joining"
      BY <2>1 DEF RequestInv, PlaceInv, JoinInv, Joining
    <3>2. ~MayTouch(r, s)
      BY <2>1, <3>1 DEF MayTouch, OneJoins
    <3>3. session'[s] = session[s] /\ part'[s] = part[s] /\ req'[q].s = s
      BY <1>1, <1>2, <3>1, <3>2
    <3>4. PartBytes(s)' = PartBytes(s) /\ PartFiles(s)' = PartFiles(s)
      BY <3>3 DEF PartBytes, PartFiles
    <3>5. Whole(q)' = Whole(q)
      BY <1>1 DEF Whole
    <3>6. req[q].pc \in {"settle", "discard"} => stored'[req[q].key] = stored[req[q].key]
      BY <1>1, <2>1 DEF RequestInv, PlaceInv, LockInv, Joining
    <3>. QED BY <1>1, <2>1, <3>3, <3>4, <3>5, <3>6 DEF RequestInv, JoinInv, Joining
  <2>2. CASE ~Joining(q)
    BY <1>1, <2>2 DEF RequestInv, JoinInv, Joining
  <2>. QED BY <2>1, <2>2
<1>7. SettleInv(q)'
  BY <1>1 DEF RequestInv, SettleInv
<1>. QED BY <1>3, <1>4, <1>5, <1>6, <1>7 DEF RequestInv

(* A step keeps creators and joiners of one upload apart. *)
LEMMA PairsHold ==
  ASSUME NEW r \in Requests, OthersKeep(r), PairFrame(r), OneMaker, OneJoins,
         \A q \in Requests : RequestInv(q)
  PROVE  OneMaker' /\ OneJoins'
<1>1. \A q \in Requests : q # r => req'[q] = req[q]
  BY DEF OthersKeep
<1>2. OneMaker'
  BY <1>1 DEF PairFrame, OneMaker
<1>3. OneJoins'
  <2>1. \A q \in Requests : Joining(q) => session[req[q].s] = "joining"
    BY DEF RequestInv, JoinInv
  <2>. QED BY <1>1, <2>1 DEF PairFrame, OneJoins, Joining
<1>. QED BY <1>2, <1>3

(* The types of all numbers the ledger relates, as one formula. *)
NumberTypes(r) ==
    /\ Stock \in Int /\ FileStock \in Int /\ SessionStock \in Int
    /\ ledger.bytes \in Int /\ ledger.files \in Int /\ ledger.sessions \in Int
    /\ HeldBy(r) \in Int /\ HeldFilesBy(r) \in Int /\ MakesBy(r) \in Int
    /\ SlackBy(r) \in Int /\ SlackFilesBy(r) \in Int
    /\ ByteCap \in Int /\ FileCap \in Int /\ SessionCap \in Int
    /\ Held \in Int /\ HeldFiles \in Int /\ Makes \in Int
    /\ Slack \in Int /\ SlackFiles \in Int
    /\ SlackBy(r) <= Slack /\ SlackFilesBy(r) <= SlackFiles
AllNumbers == \A r \in Requests : NumberTypes(r)

(* They follow from the types of the variables. *)
LEMMA AllNumbersTyped == TypeInv => AllNumbers
<1>. SUFFICES ASSUME TypeInv, NEW r \in Requests PROVE NumberTypes(r)
  BY DEF AllNumbers
<1>1. /\ Held \in Nat /\ HeldFiles \in Nat /\ Makes \in Nat
      /\ Slack \in Nat /\ SlackFiles \in Nat
      /\ SlackBy(r) <= Slack /\ SlackFilesBy(r) <= SlackFiles
  BY TotalsTyped
<1>. QED BY <1>1, NumbersTyped DEF NumberTypes

(* A good step of a busy request preserves the invariant. *)
LEMMA StepHolds ==
  ASSUME LedgerInv, NEW r \in Requests, GoodStep(r), ledger.loaded, left' \in Nat
  PROVE  LedgerInv'
<1>1. /\ TypeInv /\ TypeInv' /\ SharedFrame(r) /\ RequestInv(r)' /\ PairFrame(r)
      /\ Evens(r) /\ Within(r) /\ OneMaker /\ OneJoins
      /\ \A q \in Requests : RequestInv(q)
  BY DEF LedgerInv, GoodStep
<1>2. OthersKeep(r) /\ ledger'.loaded /\ (overdrawn => overdrawn')
  BY <1>1 DEF SharedFrame
<1>3. \A q \in Requests : RequestInv(q)'
  BY <1>1, OthersHold
<1>4. OneMaker' /\ OneJoins'
  BY <1>1, <1>2, PairsHold
<1>5. /\ Held' = (Held - HeldBy(r)) + HeldBy(r)'
      /\ HeldFiles' = (HeldFiles - HeldFilesBy(r)) + HeldFilesBy(r)'
      /\ Makes' = (Makes - MakesBy(r)) + MakesBy(r)'
      /\ Slack' = (Slack - SlackBy(r)) + SlackBy(r)'
      /\ SlackFiles' = (SlackFiles - SlackFilesBy(r)) + SlackFilesBy(r)'
  BY <1>1, <1>2, TotalsMove
<1>6. NumberTypes(r) /\ NumberTypes(r)'
  <2>1. TypeInv' => AllNumbers'
    BY AllNumbersTyped, PTL
  <2>. QED BY <1>1, <2>1, AllNumbersTyped DEF AllNumbers
<1>7. LedgerExact'
  <2>0. Evens(r)
    BY <1>1
  <2>1. /\ ledger.bytes = Stock + Held /\ ledger.files = FileStock + HeldFiles
        /\ ledger.sessions = SessionStock + Makes
    BY <1>2 DEF LedgerInv, LedgerExact
  <2>2. ledger'.bytes = Stock' + Held'
    BY <1>5, <1>6, <2>0, <2>1 DEF Evens, NumberTypes
  <2>3. ledger'.files = FileStock' + HeldFiles'
    BY <1>5, <1>6, <2>0, <2>1 DEF Evens, NumberTypes
  <2>4. ledger'.sessions = SessionStock' + Makes'
    BY <1>5, <1>6, <2>0, <2>1 DEF Evens, NumberTypes
  <2>. QED BY <2>2, <2>3, <2>4 DEF LedgerExact
<1>8. LedgerBounded'
  <2>. SUFFICES ASSUME ~overdrawn'
       PROVE  /\ ledger'.bytes <= ByteCap + Slack'
              /\ ledger'.files <= FileCap + SlackFiles'
              /\ ledger'.sessions <= SessionCap
    BY DEF LedgerBounded
  <2>1. /\ ledger.bytes <= ByteCap + Slack /\ ledger.files <= FileCap + SlackFiles
        /\ ledger.sessions <= SessionCap
    BY <1>2 DEF LedgerInv, LedgerBounded
  <2>2. ledger'.bytes <= ByteCap + Slack'
    BY <1>1, <1>5, <1>6, <2>1 DEF Within, NumberTypes
  <2>3. ledger'.files <= FileCap + SlackFiles'
    BY <1>1, <1>5, <1>6, <2>1 DEF Within, NumberTypes
  <2>4. ledger'.sessions <= SessionCap
    BY <1>1, <1>6, <2>1 DEF Within, NumberTypes
  <2>. QED BY <2>2, <2>3, <2>4
<1>9. DiskBounded'
  BY <1>2 DEF DiskBounded
<1>10. EmptyInv'
  BY <1>1 DEF SharedFrame, LedgerInv, EmptyInv
<1>. QED BY <1>1, <1>2, <1>3, <1>4, <1>7, <1>8, <1>9, <1>10 DEF LedgerInv

-----------------------------------------------------------------------------
(* Beginning, the scan and a stop *)

(* The calls a request begins with. *)
FreshCall(c) ==
    /\ c \in Call
    /\ <<c.op, c.pc>> \in ({"put", "part", "create"} \X {"read"})
                            \cup {<<"complete", "claim">>, <<"abort", "store">>}
    /\ c.bytes = 0 /\ c.files = 0 /\ c.replaced = 0
    /\ c.usage.bytes = 0 /\ c.usage.files = 0 /\ ~c.ok
    /\ c.op \in {"put", "complete"} => c.key \in Keys
    /\ c.op # "put" => c.s \in Sessions
    /\ c.op = "part" => c.n \in Parts
    /\ c.op = "complete" => DOMAIN c.listed # {} /\ \A n \in DOMAIN c.listed : c.listed[n] > 0
Starts(r) ==
    /\ req' \in [Requests -> Call] /\ OthersKeep(r) /\ FreshCall(req'[r])
    /\ req'[r].op = "create" =>
          /\ session[req'[r].s] = "none"
          /\ \A q \in Requests : ~(req[q].op = "create" /\ req[q].s = req'[r].s)

(* The calls of put_object, create_multipart, upload_part and abort_multipart are
   fresh. *)
LEMMA FreshCalls ==
  /\ \A k \in Keys : FreshCall([Idle EXCEPT !.op = "put", !.pc = "read", !.key = k])
  /\ \A s \in Sessions : FreshCall([Idle EXCEPT !.op = "create", !.pc = "read", !.s = s])
  /\ \A s \in Sessions, n \in Parts :
        FreshCall([Idle EXCEPT !.op = "part", !.pc = "read", !.s = s, !.n = n])
  /\ \A s \in Sessions : FreshCall([Idle EXCEPT !.op = "abort", !.pc = "store", !.s = s])
<1>. USE EmptyListing DEF FreshCall, Idle, Call, Ops, Pcs, Usages
<1>1. \A k \in Keys : FreshCall([Idle EXCEPT !.op = "put", !.pc = "read", !.key = k])
  OBVIOUS
<1>2. \A s \in Sessions : FreshCall([Idle EXCEPT !.op = "create", !.pc = "read", !.s = s])
  OBVIOUS
<1>3. \A s \in Sessions, n \in Parts :
        FreshCall([Idle EXCEPT !.op = "part", !.pc = "read", !.s = s, !.n = n])
  <2>. SUFFICES ASSUME NEW s \in Sessions, NEW n \in Parts
       PROVE  FreshCall([Idle EXCEPT !.op = "part", !.pc = "read", !.s = s, !.n = n])
    OBVIOUS
  <2>. DEFINE c == [Idle EXCEPT !.op = "part", !.pc = "read", !.s = s, !.n = n]
  <2>1. c \in Call
    OBVIOUS
  <2>2. /\ c.op = "part" /\ c.pc = "read" /\ c.s = s /\ c.n = n
        /\ c.bytes = 0 /\ c.files = 0 /\ c.replaced = 0
        /\ c.usage.bytes = 0 /\ c.usage.files = 0 /\ ~c.ok
    OBVIOUS
  <2>. HIDE DEF c
  <2>. QED BY <2>1, <2>2 DEF c
<1>4. \A s \in Sessions : FreshCall([Idle EXCEPT !.op = "abort", !.pc = "store", !.s = s])
  OBVIOUS
<1>. QED BY <1>1, <1>2, <1>3, <1>4

(* So is that of complete_multipart, for any parts it lists. *)
LEMMA FreshComplete ==
  ASSUME NEW s \in Sessions, NEW f \in Listings, DOMAIN f # {}, \A n \in DOMAIN f : f[n] > 0
  PROVE  FreshCall([Idle EXCEPT !.op = "complete", !.pc = "claim", !.s = s,
                                !.key = KeyOf[s], !.listed = f])
<1>1. KeyOf[s] \in Keys
  BY KeysAssumption
<1>. QED BY <1>1 DEF FreshCall, Idle, Call, Ops, Pcs, Usages

(* Begin takes a request to one of these. *)
LEMMA BeginStarts ==
  ASSUME TypeInv, NEW r \in Requests, Begin(r)
  PROVE  Starts(r)
<1>1. ASSUME NEW c, FreshCall(c), Start(r, c),
             c.op = "create" =>
                /\ session[c.s] = "none"
                /\ \A q \in Requests : ~(req[q].op = "create" /\ req[q].s = c.s)
      PROVE  Starts(r)
  <2>1. c \in Call
    BY <1>1 DEF FreshCall
  <2>2. req' \in [Requests -> Call] /\ OthersKeep(r) /\ req'[r] = c
    BY <1>1, <2>1 DEF Start, TypeInv, OthersKeep
  <2>. QED BY <1>1, <2>2 DEF Starts
<1>2. ASSUME NEW k \in Keys, Start(r, [Idle EXCEPT !.op = "put", !.pc = "read", !.key = k])
      PROVE  Starts(r)
  <2>. DEFINE c == [Idle EXCEPT !.op = "put", !.pc = "read", !.key = k]
  <2>1. FreshCall(c) /\ c.op # "create"
    BY FreshCalls DEF Idle
  <2>2. Start(r, c)
    BY <1>2
  <2>. HIDE DEF c
  <2>. QED BY <1>1, <2>1, <2>2
<1>3. ASSUME NEW s \in Sessions, session[s] = "none",
             \A q \in Requests : ~(req[q].op = "create" /\ req[q].s = s),
             Start(r, [Idle EXCEPT !.op = "create", !.pc = "read", !.s = s])
      PROVE  Starts(r)
  <2>. DEFINE c == [Idle EXCEPT !.op = "create", !.pc = "read", !.s = s]
  <2>1. FreshCall(c) /\ c.s = s
    BY FreshCalls DEF Idle
  <2>2. Start(r, c)
    BY <1>3
  <2>. HIDE DEF c
  <2>. QED BY <1>1, <1>3, <2>1, <2>2
<1>4. ASSUME NEW s \in Sessions, NEW n \in Parts,
             Start(r, [Idle EXCEPT !.op = "part", !.pc = "read", !.s = s, !.n = n])
      PROVE  Starts(r)
  <2>. DEFINE c == [Idle EXCEPT !.op = "part", !.pc = "read", !.s = s, !.n = n]
  <2>1. FreshCall(c) /\ c.op # "create"
    BY FreshCalls DEF Idle
  <2>2. Start(r, c)
    BY <1>4
  <2>. HIDE DEF c
  <2>. QED BY <1>1, <2>1, <2>2
<1>5. ASSUME NEW s \in Sessions, NEW L \in (SUBSET {n \in Parts : part[s][n] > 0}) \ {{}},
             Start(r, [Idle EXCEPT !.op = "complete", !.pc = "claim", !.s = s,
                                   !.key = KeyOf[s], !.listed = [n \in L |-> part[s][n]]])
      PROVE  Starts(r)
  <2>. DEFINE f == [n \in L |-> part[s][n]]
              c == [Idle EXCEPT !.op = "complete", !.pc = "claim", !.s = s,
                                !.key = KeyOf[s], !.listed = f]
  <2>1. Start(r, c)
    BY <1>5
  <2>2. f \in Listings
    <3>1. L \in SUBSET Parts /\ f \in [L -> Nat]
      BY <1>5 DEF TypeInv
    <3>. HIDE DEF f
    <3>. QED BY <3>1 DEF Listings
  <2>3. DOMAIN f # {} /\ \A n \in DOMAIN f : f[n] > 0
    <3>1. L # {} /\ \A n \in L : part[s][n] > 0
      BY <1>5
    <3>2. DOMAIN f = L /\ \A n \in L : f[n] = part[s][n]
      OBVIOUS
    <3>. HIDE DEF f
    <3>. QED BY <3>1, <3>2
  <2>. HIDE DEF f
  <2>4. FreshCall(c)
    BY <2>2, <2>3, FreshComplete
  <2>5. c.op # "create"
    BY DEF Idle
  <2>. HIDE DEF c
  <2>. QED BY <1>1, <2>1, <2>4, <2>5
<1>6. ASSUME NEW s \in Sessions,
             Start(r, [Idle EXCEPT !.op = "abort", !.pc = "store", !.s = s])
      PROVE  Starts(r)
  <2>. DEFINE c == [Idle EXCEPT !.op = "abort", !.pc = "store", !.s = s]
  <2>1. FreshCall(c) /\ c.op # "create"
    BY FreshCalls DEF Idle
  <2>2. Start(r, c)
    BY <1>6
  <2>. HIDE DEF c
  <2>. QED BY <1>1, <2>1, <2>2
<1>. QED BY <1>2, <1>3, <1>4, <1>5, <1>6 DEF Begin

(* A request that begins satisfies its part of the invariant. *)
LEMMA StartedHolds ==
  ASSUME TypeInv, EmptyInv, NEW r \in Requests, Starts(r), ledger'.loaded,
         incoming'[r] = 0, UNCHANGED part,
         \A s \in Sessions : session[s] = "none" => session'[s] = "none"
  PROVE  RequestInv(r)' /\ PairFrame(r)
<1>1. FreshCall(req'[r])
  BY DEF Starts
<1>2. PlaceInv(r)'
  BY <1>1 DEF FreshCall, PlaceInv, Places, Busy
<1>3. HoldInv(r)'
  BY <1>1 DEF FreshCall, HoldInv, Fresh, Streams, Joined, Joining
<1>4. LockInv(r)' /\ NameInv(r)' /\ SettleInv(r)' /\ JoinInv(r)'
  BY <1>1 DEF FreshCall, LockInv, NameInv, SettleInv, JoinInv, Joining
<1>5. MakeInv(r)'
  BY <1>1 DEF Starts, FreshCall, MakeInv, EmptyInv
<1>6. PairFrame(r)
  BY <1>1 DEF Starts, FreshCall, PairFrame, Joining
<1>. QED BY <1>2, <1>3, <1>4, <1>5, <1>6 DEF RequestInv

(* A request that begins holds nothing. *)
LEMMA StartedAccount ==
  ASSUME NEW r \in Requests, Starts(r)
  PROVE  /\ HeldBy(r)' = 0 /\ HeldFilesBy(r)' = 0 /\ MakesBy(r)' = 0
         /\ SlackBy(r)' = 0 /\ SlackFilesBy(r)' = 0
BY DEF Starts, FreshCall, HeldBy, HeldFilesBy, MakesBy, SlackBy, SlackFilesBy, Less

(* Beginning while the ledger is loaded is a good step. *)
LEMMA BeginHolds ==
  ASSUME TypeInv, EmptyInv, NEW r \in Requests, RequestInv(r), Begin(r), ledger.loaded
  PROVE  GoodStep(r)
<1>1. /\ req[r].pc = "idle" /\ Starts(r)
      /\ UNCHANGED <<stored, session, part, incoming, ledger, lock, overdrawn, overcounted>>
  BY BeginStarts DEF Begin, own
<1>2. TypeInv' /\ SharedFrame(r)
  BY <1>1 DEF TypeInv, SharedFrame, Starts
<1>3. /\ incoming[r] = 0 /\ req[r].bytes = 0 /\ req[r].files = 0 /\ req[r].replaced = 0
  BY <1>1 DEF RequestInv, HoldInv, Fresh, Streams, Joined
<1>4. RequestInv(r)' /\ PairFrame(r)
  BY <1>1, <1>3, StartedHolds
<1>5. /\ HeldBy(r) = 0 /\ HeldFilesBy(r) = 0 /\ MakesBy(r) = 0
      /\ SlackBy(r) = 0 /\ SlackFilesBy(r) = 0
  BY <1>1, <1>3 DEF HeldBy, HeldFilesBy, MakesBy, SlackBy, SlackFilesBy, Less
<1>6. /\ HeldBy(r)' = 0 /\ HeldFilesBy(r)' = 0 /\ MakesBy(r)' = 0
      /\ SlackBy(r)' = 0 /\ SlackFilesBy(r)' = 0
  BY <1>1, StartedAccount
<1>7. /\ Stock' = Stock /\ FileStock' = FileStock /\ SessionStock' = SessionStock
      /\ ledger' = ledger
  BY <1>1, DiskSame
<1>8. Evens(r) /\ Within(r)
  BY <1>5, <1>6, <1>7, NumbersTyped DEF Evens, Within
<1>. QED BY <1>2, <1>4, <1>8 DEF GoodStep

(* A request that is not being carried out. *)
Rests(r) ==
    /\ req[r].op = "none" /\ req[r].pc \in {"idle", "done"}
    /\ req[r].bytes = 0 /\ req[r].files = 0 /\ req[r].replaced = 0
    /\ req[r].usage.bytes = 0 /\ req[r].usage.files = 0
    /\ ledger.loaded => incoming[r] = 0

(* It satisfies its part of the invariant. *)
LEMMA RestsHold ==
  ASSUME NEW r \in Requests
  PROVE  (Rests(r) => RequestInv(r)) /\ (Rests(r)' => RequestInv(r)')
<1>1. Rests(r) => RequestInv(r)
  <2>. SUFFICES ASSUME Rests(r) PROVE RequestInv(r)
    OBVIOUS
  <2>1. PlaceInv(r)
    BY DEF Rests, PlaceInv, Places, Busy
  <2>2. HoldInv(r)
    BY DEF Rests, HoldInv, Fresh, Streams, Joined, Joining
  <2>3. LockInv(r) /\ NameInv(r) /\ MakeInv(r) /\ SettleInv(r) /\ JoinInv(r)
    BY DEF Rests, LockInv, NameInv, MakeInv, SettleInv, JoinInv, Joining
  <2>. QED BY <2>1, <2>2, <2>3 DEF RequestInv
<1>2. Rests(r)' => RequestInv(r)'
  <2>. SUFFICES ASSUME Rests(r)' PROVE RequestInv(r)'
    OBVIOUS
  <2>1. PlaceInv(r)'
    BY DEF Rests, PlaceInv, Places, Busy
  <2>2. HoldInv(r)'
    BY DEF Rests, HoldInv, Fresh, Streams, Joined, Joining
  <2>3. LockInv(r)' /\ NameInv(r)' /\ MakeInv(r)' /\ SettleInv(r)' /\ JoinInv(r)'
    BY DEF Rests, LockInv, NameInv, MakeInv, SettleInv, JoinInv, Joining
  <2>. QED BY <2>1, <2>2, <2>3 DEF RequestInv
<1>. QED BY <1>1, <1>2

NoneHold == \A r \in Requests : HeldBy(r) = 0 /\ HeldFilesBy(r) = 0 /\ MakesBy(r) = 0
NoAccount == Held = 0 /\ HeldFiles = 0 /\ Makes = 0

(* When no request holds anything the totals are zero. *)
LEMMA NothingHeld == NoneHold => NoAccount
<1>. SUFFICES ASSUME NoneHold PROVE NoAccount
  OBVIOUS
<1>. DEFINE h == [r \in Requests |-> HeldBy(r)]
            f == [r \in Requests |-> HeldFilesBy(r)]
            m == [r \in Requests |-> MakesBy(r)]
<1>1. \A r \in Requests : h[r] = 0 /\ f[r] = 0 /\ m[r] = 0
  BY DEF NoneHold
<1>2. Held = Sum(h, Requests) /\ HeldFiles = Sum(f, Requests) /\ Makes = Sum(m, Requests)
  BY DEF Held, HeldFiles, Makes
<1>. HIDE DEF h, f, m
<1>3. Sum(h, Requests) = 0 /\ Sum(f, Requests) = 0 /\ Sum(m, Requests) = 0
  BY <1>1, AllFinite, SumZero
<1>. QED BY <1>2, <1>3 DEF NoAccount

SlackTypes == Slack \in Nat /\ SlackFiles \in Nat

(* The types of the slack, as one formula. *)
LEMMA SlackTyped == TypeInv => SlackTypes
BY TotalsTyped DEF SlackTypes

(* The objects and the parts on disk. *)
DiskBytes == Sum(stored, Keys) + Sum([s \in Sessions |-> PartBytes(s)], Sessions)
AllCount == /\ \A s \in Sessions : Counts(session[s])
            /\ overcounted.bytes = 0 /\ overcounted.files = 0
StockIsDisk == /\ Stock = DiskBytes /\ FileStock = FilesOnDisk
               /\ SessionStock = SessionsOnDisk

(* When every upload is counted, and no part that is gone is, what the ledger counts is
   what is on disk. *)
LEMMA AllCounted == TypeInv /\ AllCount => StockIsDisk
<1>. SUFFICES ASSUME TypeInv, AllCount PROVE StockIsDisk
  OBVIOUS
<1>. DEFINE pb == [s \in Sessions |-> PartBytes(s)]
            pf == [s \in Sessions |-> PartFiles(s)]
<1>1. [s \in Sessions |-> KeptBytes(s)] = pb /\ [s \in Sessions |-> KeptFiles(s)] = pf
  BY DEF AllCount, KeptBytes, KeptFiles
<1>2. /\ Stock = Sum(stored, Keys) + Sum(pb, Sessions) + 0
      /\ FileStock = Count(stored, Keys) + Sum(pf, Sessions) + 0
      /\ DiskBytes = Sum(stored, Keys) + Sum(pb, Sessions)
      /\ FilesOnDisk = Count(stored, Keys) + Sum(pf, Sessions)
  BY <1>1 DEF Stock, FileStock, DiskBytes, FilesOnDisk, AllCount
<1>3. \A s \in Sessions : pb[s] \in Nat /\ pf[s] \in Nat
  BY UsagesTyped DEF UsageTypes
<1>. HIDE DEF pb, pf
<1>4. /\ Sum(stored, Keys) \in Nat /\ Count(stored, Keys) \in Nat
      /\ Sum(pb, Sessions) \in Nat /\ Sum(pf, Sessions) \in Nat
  BY <1>3, AllFinite, SumNat, CountNat DEF TypeInv
<1>5. Stock = DiskBytes /\ FileStock = FilesOnDisk
  BY <1>2, <1>4
<1>6. {s \in Sessions : session[s] \in {"keyless", "open", "joining"}}
        = {s \in Sessions : session[s] \notin {"none", "gone"}}
  BY DEF AllCount, Counts, TypeInv, States
<1>7. SessionStock = SessionsOnDisk
  BY <1>6 DEF SessionStock, SessionsOnDisk
<1>. QED BY <1>5, <1>7 DEF StockIsDisk

(* The types of what is on disk. *)
LEMMA OnDiskTyped ==
  ASSUME TypeInv
  PROVE  /\ DiskBytes \in Nat /\ FilesOnDisk \in Nat /\ SessionsOnDisk \in Nat
         /\ Sum(incoming, Requests) \in Nat
<1>. DEFINE pb == [s \in Sessions |-> PartBytes(s)]
            pf == [s \in Sessions |-> PartFiles(s)]
<1>1. \A s \in Sessions : pb[s] \in Nat /\ pf[s] \in Nat
  BY UsagesTyped DEF UsageTypes
<1>2. /\ DiskBytes = Sum(stored, Keys) + Sum(pb, Sessions)
      /\ FilesOnDisk = Count(stored, Keys) + Sum(pf, Sessions)
  BY DEF DiskBytes, FilesOnDisk
<1>. HIDE DEF pb, pf
<1>3. /\ Sum(stored, Keys) \in Nat /\ Count(stored, Keys) \in Nat
      /\ Sum(pb, Sessions) \in Nat /\ Sum(pf, Sessions) \in Nat
      /\ Sum(incoming, Requests) \in Nat
  BY <1>1, AllFinite, SumNat, CountNat DEF TypeInv
<1>4. SessionsOnDisk \in Nat
  BY AllFinite, FS_Subset, FS_CardinalityType DEF SessionsOnDisk
<1>. QED BY <1>2, <1>3, <1>4

(* The first request since a start removes what the stop cut off and counts the rest:
   nothing is held, so the count is exact, and it is within the caps because what the
   stop left was. *)
LEMMA FirstBeginHolds ==
  ASSUME LedgerInv, NEW r \in Requests, Begin(r), ~ledger.loaded
  PROVE  LedgerInv'
<1>1. /\ TypeInv /\ left \in Nat /\ OneMaker /\ OneJoins /\ EmptyInv /\ DiskBounded
      /\ \A q \in Requests : RequestInv(q)
      /\ overcounted.bytes = 0 /\ overcounted.files = 0
  BY DEF LedgerInv
<1>2. /\ req[r].pc = "idle" /\ Starts(r) /\ Scan
      /\ UNCHANGED <<stored, part, lock, overdrawn, overcounted>>
  BY <1>1, BeginStarts DEF Begin
<1>3. OthersKeep(r)
  BY <1>2 DEF Starts
<1>4. /\ DiskBytes \in Nat /\ FilesOnDisk \in Nat /\ SessionsOnDisk \in Nat
      /\ Sum(incoming, Requests) \in Nat
  BY <1>1, OnDiskTyped
<1>5. ledger' = [loaded |-> TRUE, bytes |-> DiskBytes, files |-> FilesOnDisk,
                 sessions |-> SessionsOnDisk]
  <2>1. BytesOnDisk - Sum(incoming, Requests) - left = DiskBytes
    <3>. DEFINE i == Sum(incoming, Requests)
    <3>1. BytesOnDisk = DiskBytes + i + left
      BY DEF BytesOnDisk, DiskBytes
    <3>2. i \in Nat
      BY <1>4
    <3>. HIDE DEF i
    <3>3. BytesOnDisk - i - left = DiskBytes
      BY <1>1, <1>4, <3>1, <3>2
    <3>. QED BY <3>3 DEF i
  <2>. QED BY <1>2, <2>1 DEF Scan, Counted
<1>6. \A s \in Sessions :
        /\ session'[s] \in States /\ Counts(session'[s])
        /\ session'[s] = "none" <=> session[s] = "none"
        /\ session'[s] = "gone" <=> session[s] = "gone"
  BY <1>1, <1>2 DEF Scan, TypeInv, States, Counts
<1>7. TypeInv' /\ left' \in Nat
  <2>1. ledger' \in Ledger
    BY <1>4, <1>5 DEF Ledger
  <2>2. incoming' \in [Requests -> Nat] /\ left' \in Nat
    BY <1>2 DEF Scan
  <2>3. session' \in [Sessions -> States]
    <3>1. session' = [s \in Sessions |-> session'[s]]
      BY <1>2 DEF Scan
    <3>. QED BY <1>6, <3>1
  <2>. QED BY <1>1, <1>2, <2>1, <2>2, <2>3 DEF TypeInv, Starts
<1>8. \A q \in Requests : incoming'[q] = 0
  BY <1>2 DEF Scan
<1>9. RequestInv(r)' /\ PairFrame(r)
  <2>1. \A s \in Sessions : session[s] = "none" => session'[s] = "none"
    BY <1>6
  <2>. QED BY <1>1, <1>2, <1>5, <1>8, <2>1, StartedHolds
<1>10. ASSUME NEW q \in Requests, q # r PROVE Rests(q)'
  <2>1. req'[q] = req[q] /\ incoming'[q] = 0
    BY <1>3, <1>8, <1>10 DEF OthersKeep
  <2>2. req[q].op = "none" /\ req[q].pc \in {"idle", "done"}
    BY <1>1 DEF RequestInv, PlaceInv, Places, Busy
  <2>3. /\ req[q].bytes = 0 /\ req[q].files = 0 /\ req[q].replaced = 0
        /\ req[q].usage.bytes = 0 /\ req[q].usage.files = 0
    BY <1>1, <2>2 DEF RequestInv, HoldInv, Fresh, Joining
  <2>. QED BY <2>1, <2>2, <2>3 DEF Rests
<1>11. \A q \in Requests : RequestInv(q)'
  BY <1>9, <1>10, RestsHold
<1>12. OneMaker' /\ OneJoins'
  BY <1>1, <1>3, <1>9, PairsHold
<1>13. NoAccount'
  <2>1. HeldBy(r)' = 0 /\ HeldFilesBy(r)' = 0 /\ MakesBy(r)' = 0
    BY <1>2, StartedAccount
  <2>2. ASSUME NEW q \in Requests, q # r
        PROVE  HeldBy(q)' = 0 /\ HeldFilesBy(q)' = 0 /\ MakesBy(q)' = 0
    BY <1>10, <2>2 DEF Rests, HeldBy, HeldFilesBy, MakesBy
  <2>3. NoneHold'
    BY <2>1, <2>2 DEF NoneHold
  <2>4. NoneHold' => NoAccount'
    BY NothingHeld, PTL
  <2>. QED BY <2>3, <2>4
<1>14. Stock' = DiskBytes /\ FileStock' = FilesOnDisk /\ SessionStock' = SessionsOnDisk
  <2>1. AllCount'
    BY <1>1, <1>2, <1>6 DEF AllCount
  <2>2. TypeInv' /\ AllCount' => StockIsDisk'
    BY AllCounted, PTL
  <2>3. DiskBytes' = DiskBytes /\ FilesOnDisk' = FilesOnDisk
    BY <1>2 DEF DiskBytes, FilesOnDisk, PartBytes, PartFiles
  <2>4. {s \in Sessions : session'[s] \notin {"none", "gone"}}
          = {s \in Sessions : session[s] \notin {"none", "gone"}}
    BY <1>6
  <2>5. SessionsOnDisk' = SessionsOnDisk
    BY <2>4 DEF SessionsOnDisk
  <2>. QED BY <1>7, <2>1, <2>2, <2>3, <2>5 DEF StockIsDisk
<1>15. /\ ledger'.loaded /\ ledger'.bytes = DiskBytes /\ ledger'.files = FilesOnDisk
       /\ ledger'.sessions = SessionsOnDisk
  BY <1>5
<1>16. LedgerExact'
  BY <1>4, <1>13, <1>14, <1>15 DEF LedgerExact, NoAccount
<1>17. LedgerBounded'
  <2>. SUFFICES ASSUME ~overdrawn'
       PROVE  /\ ledger'.bytes <= ByteCap + Slack'
              /\ ledger'.files <= FileCap + SlackFiles'
              /\ ledger'.sessions <= SessionCap
    BY DEF LedgerBounded
  <2>1. AllCount
    BY <1>1, <1>2 DEF DiskBounded, AllCount
  <2>2. DiskBytes = Stock /\ FilesOnDisk = FileStock /\ SessionsOnDisk = SessionStock
    BY <1>1, <2>1, AllCounted DEF StockIsDisk
  <2>3. DiskBytes <= ByteCap /\ FilesOnDisk <= FileCap /\ SessionsOnDisk <= SessionCap
    BY <1>1, <1>2, <2>2 DEF DiskBounded
  <2>4. Slack' \in Nat /\ SlackFiles' \in Nat
    <3>1. TypeInv' => SlackTypes'
      BY SlackTyped, PTL
    <3>. QED BY <1>7, <3>1 DEF SlackTypes
  <2>5. ByteCap \in Nat /\ FileCap \in Nat /\ SessionCap \in Nat
    BY CapsAssumption
  <2>6. \A x, y, z \in Nat : x <= y => x <= y + z
    OBVIOUS
  <2>7. DiskBytes <= ByteCap + Slack' /\ FilesOnDisk <= FileCap + SlackFiles'
    BY <1>4, <2>3, <2>4, <2>5, <2>6, Zenon
  <2>. QED BY <1>15, <2>3, <2>7
<1>18. DiskBounded' /\ EmptyInv'
  BY <1>1, <1>2, <1>6, <1>15 DEF DiskBounded, EmptyInv
<1>. QED BY <1>7, <1>11, <1>12, <1>15, <1>16, <1>17, <1>18 DEF LedgerInv

(* Outside the two steps of a complete that follow its rename, a request holds at least
   as much as its slack: what it may be above the caps is not on disk yet. *)
LEMMA HeldCoversSlack ==
  ASSUME TypeInv, NEW r \in Requests, RequestInv(r), ~overdrawn,
         ~(req[r].op = "complete" /\ req[r].pc \in {"settle", "discard"})
  PROVE  SlackBy(r) <= HeldBy(r) /\ SlackFilesBy(r) <= HeldFilesBy(r)
<1>1. /\ req[r].bytes \in Nat /\ req[r].files \in Nat /\ req[r].replaced \in Nat
      /\ req[r].freed \in Nat /\ req[r].usage.bytes \in Nat /\ req[r].usage.files \in Nat
  BY PlainFields
<1>2. req[r].pc # "discard"
  BY DEF RequestInv, PlaceInv, Places
<1>3. CASE req[r].pc = "settle"
  <2>1. req[r].op = "put"
    BY <1>3 DEF RequestInv, PlaceInv, Places
  <2>2. req[r].usage.bytes = 0 /\ req[r].usage.files = 0
    BY <2>1 DEF RequestInv, HoldInv, Joining
  <2>3. req[r].replaced <= req[r].freed + req[r].usage.bytes
    BY <1>3 DEF RequestInv, SettleInv
  <2>4. req[r].replaced <= req[r].freed
    BY <1>1, <2>2, <2>3
  <2>. QED BY <1>1, <1>3, <2>2, <2>4
       DEF SlackBy, SlackFilesBy, HeldBy, HeldFilesBy, Present
<1>4. CASE req[r].pc = "name"
  <2>1. req[r].files = 1
    BY <1>4 DEF RequestInv, PlaceInv, Places, HoldInv, Fresh
  <2>. QED BY <1>1, <1>4, <2>1 DEF SlackBy, SlackFilesBy, HeldBy, HeldFilesBy, Less
<1>5. CASE req[r].pc \notin {"settle", "name", "discard"}
  BY <1>1, <1>5 DEF SlackBy, SlackFilesBy, HeldBy, HeldFilesBy, Less
<1>. QED BY <1>2, <1>3, <1>4, <1>5

(* The same for the totals. *)
LEMMA SlackWithinHeld ==
  ASSUME TypeInv,
         \A r \in Requests : SlackBy(r) <= HeldBy(r) /\ SlackFilesBy(r) <= HeldFilesBy(r)
  PROVE  Slack <= Held /\ SlackFiles <= HeldFiles
<1>. DEFINE h == [r \in Requests |-> HeldBy(r)]
            hf == [r \in Requests |-> HeldFilesBy(r)]
            c == [r \in Requests |-> SlackBy(r)]
            cf == [r \in Requests |-> SlackFilesBy(r)]
<1>1. \A r \in Requests : /\ h[r] \in Int /\ c[r] \in Int /\ c[r] <= h[r]
                          /\ hf[r] \in Int /\ cf[r] \in Int /\ cf[r] <= hf[r]
  BY AccountsTyped DEF AccountTypes
<1>2. /\ Held = Sum(h, Requests) /\ HeldFiles = Sum(hf, Requests)
      /\ Slack = Sum(c, Requests) /\ SlackFiles = Sum(cf, Requests)
  BY DEF Held, HeldFiles, Slack, SlackFiles
<1>. HIDE DEF h, hf, c, cf
<1>3. Sum(c, Requests) <= Sum(h, Requests)
  BY <1>1, AllFinite, SumMonotone
<1>4. Sum(cf, Requests) <= Sum(hf, Requests)
  BY <1>1, AllFinite, SumMonotone
<1>. QED BY <1>2, <1>3, <1>4

(* What is counted of the disk alone. *)
LEMMA StopStock ==
  ASSUME TypeInv, UNCHANGED <<stored, session, part>>,
         overcounted' = [bytes |-> 0, files |-> 0]
  PROVE  /\ Stock' = Stock - overcounted.bytes
         /\ FileStock' = FileStock - overcounted.files
<1>. DEFINE kb == [s \in Sessions |-> KeptBytes(s)]
            kf == [s \in Sessions |-> KeptFiles(s)]
            b == Sum(stored, Keys) + Sum(kb, Sessions)
            f == Count(stored, Keys) + Sum(kf, Sessions)
<1>1. \A s \in Sessions : kb[s] \in Nat /\ kf[s] \in Nat
  BY KeptTyped DEF KeptTypes
<1>2. b' = b /\ f' = f
  BY DEF KeptBytes, KeptFiles, PartBytes, PartFiles
<1>3. /\ Stock = b + overcounted.bytes /\ FileStock = f + overcounted.files
      /\ Stock' = b' + overcounted'.bytes /\ FileStock' = f' + overcounted'.files
  BY DEF Stock, FileStock
<1>4. overcounted'.bytes = 0 /\ overcounted'.files = 0
  OBVIOUS
<1>. HIDE DEF kb, kf
<1>5. b \in Nat /\ f \in Nat
  BY <1>1, AllFinite, SumNat, CountNat DEF TypeInv
<1>. HIDE DEF b, f
<1>. QED BY <1>2, <1>3, <1>4, <1>5, OverTyped

(* A stop forgets the ledger. Unless a directory was not counted, or a complete was cut
   off between its rename and the removal of its parts, what is left on disk is within
   the caps. *)
LEMMA CrashHolds ==
  ASSUME LedgerInv, Crash
  PROVE  LedgerInv'
<1>1. /\ TypeInv /\ left \in Nat /\ OneMaker /\ OneJoins /\ EmptyInv
      /\ LedgerExact /\ LedgerBounded /\ DiskBounded
      /\ \A r \in Requests : RequestInv(r)
      /\ ~ledger.loaded => overcounted.bytes = 0 /\ overcounted.files = 0
  BY DEF LedgerInv
<1>2. /\ req' = [r \in Requests |-> IF req[r].pc = "idle" THEN Idle ELSE Done]
      /\ ledger' = [loaded |-> FALSE, bytes |-> 0, files |-> 0, sessions |-> 0]
      /\ lock' = NoRequest /\ overcounted' = [bytes |-> 0, files |-> 0]
      /\ overdrawn' = (overdrawn \/ Uncounted # {} \/ \E r \in Requests :
                          req[r].op = "complete" /\ req[r].pc \in {"settle", "discard"})
      /\ UNCHANGED <<stored, session, part, incoming, left>>
  BY DEF Crash, files, own
<1>3. TypeInv'
  <2>1. ledger' \in Ledger /\ overdrawn' \in BOOLEAN /\ overcounted' \in Usages
    BY <1>2 DEF Ledger, Usages
  <2>2. req' \in [Requests -> Call]
    BY <1>2, IdleTyped
  <2>. QED BY <1>1, <1>2, <2>1, <2>2 DEF TypeInv
<1>4. \A r \in Requests : Rests(r)'
  BY <1>2, DoneFields DEF Rests
<1>5. \A r \in Requests : RequestInv(r)'
  BY <1>4, RestsHold
<1>6. OneMaker' /\ OneJoins'
  BY <1>4 DEF Rests, OneMaker, OneJoins, Joining
<1>7. LedgerExact' /\ LedgerBounded' /\ EmptyInv'
  BY <1>1, <1>2 DEF LedgerExact, LedgerBounded, EmptyInv
<1>8. DiskBounded'
  <2>. SUFFICES ASSUME ~overdrawn'
       PROVE  /\ \A s \in Sessions : Counts(session'[s])
              /\ Stock' <= ByteCap /\ FileStock' <= FileCap
              /\ SessionStock' <= SessionCap
    BY DEF DiskBounded
  <2>1. /\ ~overdrawn /\ Uncounted = {}
        /\ \A r \in Requests : ~(req[r].op = "complete" /\ req[r].pc \in {"settle", "discard"})
    BY <1>2
  <2>2. /\ Stock' = Stock - overcounted.bytes /\ FileStock' = FileStock - overcounted.files
        /\ SessionStock' = SessionStock
        /\ overcounted.bytes \in Nat /\ overcounted.files \in Nat
    BY <1>1, <1>2, StopStock, DiskSame, OverTyped
  <2>5. \A s \in Sessions : Counts(session'[s])
    BY <1>2, <2>1 DEF Uncounted, Counts
  <2>3. CASE ledger.loaded
    <3>1. /\ ledger.bytes = Stock + Held /\ ledger.files = FileStock + HeldFiles
          /\ ledger.sessions = SessionStock + Makes
      BY <1>1, <2>1, <2>3 DEF LedgerExact
    <3>2. /\ ledger.bytes <= ByteCap + Slack /\ ledger.files <= FileCap + SlackFiles
          /\ ledger.sessions <= SessionCap
      BY <1>1, <2>1, <2>3 DEF LedgerBounded
    <3>3. Slack <= Held /\ SlackFiles <= HeldFiles
      <4>1. \A r \in Requests : SlackBy(r) <= HeldBy(r) /\ SlackFilesBy(r) <= HeldFilesBy(r)
        BY <1>1, <2>1, HeldCoversSlack
      <4>. QED BY <1>1, <4>1, SlackWithinHeld
    <3>4. /\ Stock \in Nat /\ FileStock \in Nat /\ SessionStock \in Nat
          /\ Held \in Nat /\ HeldFiles \in Nat /\ Makes \in Nat
          /\ Slack \in Nat /\ SlackFiles \in Nat
      BY <1>1, DiskTyped, TotalsTyped
    <3>5. ByteCap \in Nat /\ FileCap \in Nat /\ SessionCap \in Nat
      BY CapsAssumption
    <3>6. Stock' <= ByteCap
      BY <2>2, <3>1, <3>2, <3>3, <3>4, <3>5
    <3>7. FileStock' <= FileCap
      BY <2>2, <3>1, <3>2, <3>3, <3>4, <3>5
    <3>8. SessionStock' <= SessionCap
      BY <2>2, <3>1, <3>2, <3>4, <3>5
    <3>. QED BY <2>5, <3>6, <3>7, <3>8
  <2>4. CASE ~ledger.loaded
    <3>1. Stock \in Nat /\ FileStock \in Nat
      BY <1>1, DiskTyped
    <3>2. Stock' = Stock /\ FileStock' = FileStock
      BY <1>1, <2>2, <2>4, <3>1
    <3>. QED BY <1>1, <2>1, <2>2, <2>4, <2>5, <3>2 DEF DiskBounded
  <2>. QED BY <2>3, <2>4
<1>9. left' \in Nat /\ overcounted'.bytes = 0 /\ overcounted'.files = 0
  BY <1>1, <1>2
<1>. QED BY <1>3, <1>5, <1>6, <1>7, <1>8, <1>9 DEF LedgerInv

(* The invariant holds at the start. *)
LEMMA InitHolds == Init => LedgerInv
<1>. SUFFICES ASSUME Init PROVE LedgerInv
  OBVIOUS
<1>1. TypeInv
  <2>1. ledger \in Ledger /\ req \in [Requests -> Call]
    BY IdleTyped DEF Init, Ledger
  <2>2. stored \in [Keys -> Nat] /\ part \in [Sessions -> [Parts -> Nat]]
    <3>1. [Keys -> {0, 2}] \subseteq [Keys -> Nat] /\ [Parts -> {0, 1}] \subseteq [Parts -> Nat]
      OBVIOUS
    <3>. QED BY <3>1 DEF Init
  <2>3. /\ session \in [Sessions -> States] /\ incoming \in [Requests -> Nat]
        /\ overcounted \in Usages
    BY DEF Init, States, Usages
  <2>. QED BY <2>1, <2>2, <2>3 DEF Init, TypeInv
<1>2. \A r \in Requests : Rests(r)
  BY DoneFields DEF Init, Rests
<1>3. \A r \in Requests : RequestInv(r)
  BY <1>2, RestsHold
<1>4. OneMaker /\ OneJoins
  BY <1>2 DEF Rests, OneMaker, OneJoins, Joining
<1>5. LedgerExact /\ LedgerBounded
  BY DEF Init, LedgerExact, LedgerBounded
<1>6. DiskBounded
  <2>1. Sum(incoming, Requests) = 0 /\ left = 0
    BY AllFinite, SumZero DEF Init
  <2>2. BytesOnDisk = DiskBytes + Sum(incoming, Requests) + left
    BY DEF BytesOnDisk, DiskBytes
  <2>3. BytesOnDisk = DiskBytes
    BY <1>1, <2>1, <2>2, OnDiskTyped
  <2>4. AllCount
    BY DEF Init, AllCount, Counts
  <2>5. Stock = DiskBytes /\ FileStock = FilesOnDisk /\ SessionStock = SessionsOnDisk
    BY <1>1, <2>4, AllCounted DEF StockIsDisk
  <2>. QED BY <2>3, <2>4, <2>5 DEF Init, DiskBounded, AllCount
<1>7. EmptyInv
  <2>. SUFFICES ASSUME NEW s \in Sessions, session[s] = "none", NEW n \in Parts
       PROVE  part[s][n] = 0
    BY DEF EmptyInv
  <2>. DEFINE f == part[s]
  <2>1. \A m \in Parts : f[m] \in Nat
    BY <1>1 DEF TypeInv
  <2>2. Sum(f, Parts) = 0
    BY DEF Init, PartBytes
  <2>. HIDE DEF f
  <2>3. f[n] <= 0 /\ f[n] \in Nat
    BY <2>1, <2>2, AllFinite, SumNat
  <2>. QED BY <2>3 DEF f
<1>8. left \in Nat /\ overcounted.bytes = 0 /\ overcounted.files = 0
  BY DEF Init
<1>. QED BY <1>1, <1>3, <1>4, <1>5, <1>6, <1>7, <1>8 DEF LedgerInv

(* Every step of a request is a good step of a busy request. *)
LEMMA RequestStepHolds ==
  ASSUME TypeInv, NEW r \in Requests, RequestInv(r), Step(r)
  PROVE  GoodStep(r) /\ Busy(r)
<1>. PlaceInv(r)
  BY DEF RequestInv
<1>1. CASE Read(r)
  BY <1>1, ReadDoes, ReadHolds DEF Read, Busy
<1>2. CASE Frame(r)
  BY <1>2, FrameDoes, FrameHolds DEF Frame, Busy
<1>3. CASE BodyEnds(r)
  BY <1>3, BodyDoes, EndHolds DEF BodyEnds, Busy
<1>4. CASE GiveUp(r)
  BY <1>4, BodyDoes, GiveUpHolds DEF GiveUp, Busy
<1>5. CASE StorePut(r)
  BY <1>5, BodyDoes, StorePutHolds DEF StorePut, Busy
<1>6. CASE StorePart(r)
  BY <1>6, StorePartDoes, StorePartHolds DEF StorePart, Busy
<1>7. CASE NamePart(r)
  BY <1>7, NamePartDoes, NamePartHolds DEF NamePart, Busy
<1>8. CASE Create(r)
  BY <1>8, CreateDoes, CreateHolds DEF Create, Busy
<1>9. CASE MakeDir(r)
  BY <1>9, MakeDoes, MakeHolds DEF MakeDir, Busy
<1>18. CASE WriteKey(r)
  BY <1>18, MakeDoes, KeyHolds DEF WriteKey, Busy
<1>19. CASE CleanSession(r)
  BY <1>19, MakeDoes, CleanHolds DEF CleanSession, Busy
<1>10. CASE Abort(r)
  BY <1>10, AbortDoes, AbortHolds DEF Abort, Busy
<1>11. CASE Claim(r)
  BY <1>11, ClaimDoes, ClaimHolds DEF Claim, Busy
<1>12. CASE Join(r)
  BY <1>12, JoinDoes, JoinHolds DEF Join, Busy
<1>13. CASE Swap(r)
  BY <1>13, SwapDoes, SwapHolds DEF Swap, Busy
<1>14. CASE Rename(r)
  BY <1>14, RenameDoes, RenameHolds DEF Rename, Busy
<1>15. CASE Settle(r)
  BY <1>15, SettleDoes, SettleHolds DEF Settle, Busy
<1>16. CASE Discard(r)
  BY <1>16, DiscardDoes, DiscardHolds DEF Discard, Busy
<1>17. CASE Reopen(r)
  BY <1>17, ReopenDoes, ReopenHolds DEF Reopen, Busy
<1>. QED BY <1>1, <1>2, <1>3, <1>4, <1>5, <1>6, <1>7, <1>8, <1>9, <1>10, <1>11, <1>12,
            <1>13, <1>14, <1>15, <1>16, <1>17, <1>18, <1>19 DEF Step

(* What stays behind of files that could not be removed is counted in naturals. *)
LEMMA LeftStays ==
  ASSUME TypeInv, left \in Nat, NEW r \in Requests, Step(r)
  PROVE  left' \in Nat
<1>1. incoming[r] \in Nat /\ req[r].bytes \in Nat
  BY PlainFields
<1>2. ASSUME Drop(r) \/ FailingDrop(r) \/ FailingUnlink(r) PROVE left' \in Nat
  BY <1>1, <1>2 DEF Drop, FailingDrop, Unlink, FailingUnlink
<1>3. CASE UNCHANGED left
  BY <1>3
<1>4. CASE Read(r) \/ BodyEnds(r) \/ StorePut(r) \/ Create(r) \/ MakeDir(r) \/ WriteKey(r)
            \/ CleanSession(r) \/ Abort(r) \/ Claim(r) \/ Swap(r) \/ Settle(r)
            \/ Discard(r) \/ Reopen(r)
  BY <1>4 DEF Read, BodyEnds, StorePut, Create, MakeDir, WriteKey, CleanSession, Abort,
              Claim, Swap, Settle, Discard, Reopen, own
<1>5. CASE Frame(r) \/ GiveUp(r)
  BY <1>2, <1>5 DEF Frame, GiveUp
<1>6. CASE StorePart(r)
  BY <1>2, <1>6 DEF StorePart, own
<1>7. CASE NamePart(r)
  BY <1>2, <1>7 DEF NamePart
<1>8. CASE Join(r)
  BY <1>1, <1>8 DEF Join
<1>9. CASE Rename(r)
  BY <1>2, <1>9 DEF Rename
<1>. QED BY <1>4, <1>5, <1>6, <1>7, <1>8, <1>9 DEF Step

(* A stuttering step preserves the invariant. *)
LEMMA StutterHolds ==
  ASSUME LedgerInv, UNCHANGED vars
  PROVE  LedgerInv'
<1>0. /\ stored' = stored /\ session' = session /\ part' = part
      /\ incoming' = incoming /\ ledger' = ledger /\ lock' = lock /\ req' = req
      /\ overdrawn' = overdrawn /\ overcounted' = overcounted /\ left' = left
  BY DEF vars, files, own
<1>1. TypeInv'
  BY <1>0 DEF LedgerInv, TypeInv
<1>2. ASSUME NEW r \in Requests PROVE RequestInv(r)'
  <2>1. RequestInv(r)
    BY DEF LedgerInv
  <2>2. PlaceInv(r)' /\ HoldInv(r)'
    BY <1>0, <2>1 DEF RequestInv, PlaceInv, HoldInv, Busy, Fresh, Streams, Joined, Joining
  <2>3. LockInv(r)' /\ NameInv(r)' /\ MakeInv(r)' /\ SettleInv(r)'
    BY <1>0, <2>1 DEF RequestInv, LockInv, NameInv, MakeInv, SettleInv
  <2>4. JoinInv(r)'
    BY <1>0, <2>1 DEF RequestInv, JoinInv, Joining, PartBytes, PartFiles, Whole
  <2>. QED BY <2>2, <2>3, <2>4 DEF RequestInv
<1>3. OneMaker' /\ OneJoins'
  BY <1>0 DEF LedgerInv, OneMaker, OneJoins, Joining
<1>4. /\ Stock' = Stock /\ FileStock' = FileStock /\ SessionStock' = SessionStock
  BY <1>0, DiskSame
<1>5. /\ Held' = Held /\ HeldFiles' = HeldFiles /\ Makes' = Makes
      /\ Slack' = Slack /\ SlackFiles' = SlackFiles
  BY <1>0 DEF Held, HeldFiles, Makes, Slack, SlackFiles,
              HeldBy, HeldFilesBy, MakesBy, SlackBy, SlackFilesBy
<1>6. LedgerExact' /\ LedgerBounded' /\ DiskBounded'
  BY <1>0, <1>4, <1>5 DEF LedgerInv, LedgerExact, LedgerBounded, DiskBounded
<1>7. EmptyInv' /\ left' \in Nat
  BY <1>0 DEF LedgerInv, EmptyInv
<1>. QED BY <1>0, <1>1, <1>2, <1>3, <1>6, <1>7 DEF LedgerInv

-----------------------------------------------------------------------------
(* The theorems *)

(* The invariant holds in every reachable state. *)
THEOREM LedgerInvHolds == Spec => []LedgerInv
<1>1. Init => LedgerInv
  BY InitHolds
<1>2. LedgerInv /\ [Next]_vars => LedgerInv'
  <2>. SUFFICES ASSUME LedgerInv, [Next]_vars PROVE LedgerInv'
    OBVIOUS
  <2>0. TypeInv /\ left \in Nat /\ EmptyInv /\ \A r \in Requests : RequestInv(r)
    BY DEF LedgerInv
  <2>1. ASSUME NEW r \in Requests, Begin(r) PROVE LedgerInv'
    <3>1. CASE ledger.loaded
      <4>1. left' \in Nat
        BY <2>0, <2>1, <3>1 DEF Begin, own
      <4>. QED BY <2>0, <2>1, <3>1, <4>1, BeginHolds, StepHolds
    <3>2. CASE ~ledger.loaded
      BY <2>1, <3>2, FirstBeginHolds
    <3>. QED BY <3>1, <3>2
  <2>2. ASSUME NEW r \in Requests, Step(r) PROVE LedgerInv'
    <3>1. GoodStep(r) /\ Busy(r)
      BY <2>0, <2>2, RequestStepHolds
    <3>2. ledger.loaded
      BY <2>0, <3>1 DEF RequestInv, PlaceInv
    <3>3. left' \in Nat
      BY <2>0, <2>2, LeftStays
    <3>. QED BY <3>1, <3>2, <3>3, StepHolds
  <2>3. CASE Crash
    BY <2>3, CrashHolds
  <2>4. CASE UNCHANGED vars
    BY <2>4, StutterHolds
  <2>. QED BY <2>1, <2>2, <2>3, <2>4 DEF Next
<1>. QED BY <1>1, <1>2, PTL DEF Spec

(* What lies in the incoming files is booked for their requests. *)
LEMMA HeldCoversIncoming ==
  ASSUME LedgerInv, ledger.loaded
  PROVE  Sum(incoming, Requests) <= Held /\ Count(incoming, Requests) <= HeldFiles
<1>. DEFINE h == [r \in Requests |-> HeldBy(r)]
            hf == [r \in Requests |-> HeldFilesBy(r)]
            g == incoming
<1>0. TypeInv /\ \A r \in Requests : RequestInv(r)
  BY DEF LedgerInv
<1>1. ASSUME NEW r \in Requests
      PROVE  incoming[r] <= HeldBy(r) /\ (incoming[r] > 0 => HeldFilesBy(r) > 0)
  <2>1. req[r].bytes \in Nat /\ req[r].freed \in Nat
    BY <1>0, PlainFields
  <2>2. /\ PlaceInv(r)
        /\ ~Fresh(r) /\ req[r].pc # "discard" => req[r].files = 1
        /\ incoming[r] = IF Streams(r) \/ Joined(r) THEN req[r].bytes ELSE 0
    BY <1>0 DEF RequestInv, HoldInv
  <2>3. CASE Streams(r) \/ Joined(r)
    <3>1. req[r].pc # "settle" /\ req[r].files = 1 /\ incoming[r] = req[r].bytes
      BY <2>2, <2>3 DEF Streams, Joined, Fresh
    <3>. QED BY <2>1, <3>1 DEF HeldBy, HeldFilesBy
  <2>4. CASE ~(Streams(r) \/ Joined(r))
    BY <2>1, <2>2, <2>4 DEF HeldBy
  <2>. QED BY <2>3, <2>4
<1>2. \A r \in Requests : /\ h[r] \in Int /\ g[r] \in Int /\ g[r] <= h[r]
                          /\ hf[r] \in Nat /\ (g[r] > 0 => hf[r] > 0)
  BY <1>0, <1>1, AccountsTyped DEF AccountTypes, TypeInv
<1>3. Held = Sum(h, Requests) /\ HeldFiles = Sum(hf, Requests)
  BY DEF Held, HeldFiles
<1>. HIDE DEF h, hf, g
<1>4. Sum(g, Requests) <= Sum(h, Requests)
  BY <1>2, AllFinite, SumMonotone
<1>5. Count(g, Requests) <= Sum(hf, Requests)
  BY <1>2, AllFinite, CountAtMost
<1>. QED BY <1>3, <1>4, <1>5 DEF g

OnDisk ==
    /\ BytesOnDisk + overcounted.bytes = Stock + BytesUncounted + Sum(incoming, Requests)
    /\ FilesOnDisk + overcounted.files = FileStock + FilesUncounted
    /\ SessionsOnDisk = SessionStock + Cardinality(Uncounted)
OnDiskTypes ==
    /\ BytesUncounted \in Nat /\ FilesUncounted \in Nat /\ Cardinality(Uncounted) \in Nat
    /\ BytesOnDisk \in Nat /\ FilesOnDisk \in Nat /\ SessionsOnDisk \in Nat
    /\ Sum(incoming, Requests) \in Nat /\ Count(incoming, Requests) \in Nat

(* The disk is what the ledger counts of it, what it does not, and the incoming files;
   and these are naturals. *)
LEMMA DiskIsStock ==
  ASSUME TypeInv, left \in Nat
  PROVE  OnDisk /\ OnDiskTypes
<1>. DEFINE pb == [s \in Sessions |-> PartBytes(s)]
            pf == [s \in Sessions |-> PartFiles(s)]
            kb == [s \in Sessions |-> KeptBytes(s)]
            kf == [s \in Sessions |-> KeptFiles(s)]
            U == Uncounted
            b == Sum(stored, Keys)
            c == Count(stored, Keys)
            i == Sum(incoming, Requests)
<1>1. /\ U \in SUBSET Sessions /\ IsFiniteSet(U)
      /\ \A s \in Sessions : Counts(session[s]) <=> s \notin U
  BY AllFinite, FS_Subset DEF Uncounted, Counts
<1>2. \A s \in Sessions : /\ pb[s] \in Nat /\ pf[s] \in Nat
                          /\ kb[s] = IF s \in U THEN 0 ELSE pb[s]
                          /\ kf[s] = IF s \in U THEN 0 ELSE pf[s]
  BY <1>1, UsagesTyped DEF UsageTypes, KeptBytes, KeptFiles
<1>3. /\ BytesOnDisk = b + Sum(pb, Sessions) + i + left
      /\ FilesOnDisk = c + Sum(pf, Sessions)
      /\ Stock = b + Sum(kb, Sessions) + overcounted.bytes
      /\ FileStock = c + Sum(kf, Sessions) + overcounted.files
      /\ BytesUncounted = left + Sum(pb, U) /\ FilesUncounted = Sum(pf, U)
  BY DEF BytesOnDisk, FilesOnDisk, Stock, FileStock, BytesUncounted, FilesUncounted
<1>4. b \in Nat /\ c \in Nat /\ i \in Nat /\ Count(incoming, Requests) \in Nat
  BY AllFinite, SumNat, CountNat DEF TypeInv
<1>5. overcounted.bytes \in Nat /\ overcounted.files \in Nat
  BY OverTyped
<1>6. SessionsOnDisk = SessionStock + Cardinality(U) /\ Cardinality(U) \in Nat
      /\ SessionsOnDisk \in Nat
  <2>. DEFINE K == {s \in Sessions : session[s] \in {"keyless", "open", "joining"}}
              D == {s \in Sessions : session[s] \notin {"none", "gone"}}
  <2>1. D = K \cup U /\ K \cap U = {}
    BY DEF Uncounted, TypeInv, States
  <2>2. SessionsOnDisk = Cardinality(D) /\ SessionStock = Cardinality(K)
    BY DEF SessionsOnDisk, SessionStock
  <2>3. IsFiniteSet(K)
    BY AllFinite, FS_Subset
  <2>. HIDE DEF K, D, U
  <2>4. Cardinality(K \cup U) = Cardinality(K) + Cardinality(U) - Cardinality(K \cap U)
    BY <1>1, <2>3, FS_Union
  <2>5. Cardinality(K \cap U) = 0
    BY <2>1, FS_EmptySet
  <2>6. Cardinality(K) \in Nat /\ Cardinality(U) \in Nat
    BY <1>1, <2>3, FS_CardinalityType
  <2>. QED BY <2>1, <2>2, <2>4, <2>5, <2>6
<1>. HIDE DEF pb, pf, kb, kf, U, b, c, i
<1>7. /\ Sum(pb, Sessions) = Sum(pb, U) + Sum(kb, Sessions)
      /\ Sum(pf, Sessions) = Sum(pf, U) + Sum(kf, Sessions)
  BY <1>1, <1>2, AllFinite, SumParts
<1>8. /\ Sum(pb, U) \in Nat /\ Sum(kb, Sessions) \in Nat
      /\ Sum(pf, U) \in Nat /\ Sum(kf, Sessions) \in Nat
  <2>1. \A s \in Sessions : kb[s] \in Nat /\ kf[s] \in Nat
    BY <1>2
  <2>2. \A s \in U : pb[s] \in Nat /\ pf[s] \in Nat
    BY <1>1, <1>2
  <2>. QED BY <1>1, <2>1, <2>2, AllFinite, SumNat
<1>9. BytesOnDisk + overcounted.bytes = Stock + BytesUncounted + i
  BY <1>3, <1>4, <1>5, <1>7, <1>8
<1>10. FilesOnDisk + overcounted.files = FileStock + FilesUncounted
  BY <1>3, <1>4, <1>5, <1>7, <1>8
<1>11. /\ BytesUncounted \in Nat /\ FilesUncounted \in Nat
       /\ BytesOnDisk \in Nat /\ FilesOnDisk \in Nat
  BY <1>3, <1>4, <1>7, <1>8
<1>. QED BY <1>4, <1>6, <1>9, <1>10, <1>11 DEF OnDisk, OnDiskTypes, U, i

(* When no request is being carried out nothing is held and no incoming file is left. *)
LEMMA QuietHoldsNothing ==
  ASSUME LedgerInv, Quiet, ledger.loaded
  PROVE  NoAccount /\ Sum(incoming, Requests) = 0
<1>1. ASSUME NEW r \in Requests
      PROVE  HeldBy(r) = 0 /\ HeldFilesBy(r) = 0 /\ MakesBy(r) = 0 /\ incoming[r] = 0
  <2>1. req[r].pc \in {"idle", "done"} /\ RequestInv(r)
    BY DEF Quiet, Busy, LedgerInv
  <2>2. req[r].bytes = 0 /\ req[r].files = 0 /\ incoming[r] = 0
    BY <2>1 DEF RequestInv, HoldInv, Fresh, Streams, Joined
  <2>. QED BY <2>1, <2>2 DEF HeldBy, HeldFilesBy, MakesBy
<1>2. NoAccount
  BY <1>1, NothingHeld DEF NoneHold
<1>3. Sum(incoming, Requests) = 0
  BY <1>1, AllFinite, SumZero
<1>. QED BY <1>2, <1>3

(* A loaded ledger never counts less than what is on disk, incoming files included, but
   for what removals that failed left there and for the directory a failed create has
   yet to remove: whatever requests are under way in whatever order, the caps it
   enforces bound the rest of the disk (staged_ledger, StagedGuard). *)
THEOREM LedgerCovers == Spec => []LedgerCoversDisk
<1>1. LedgerInv => LedgerCoversDisk
  <2>. DEFINE i == Sum(incoming, Requests)
              c == Count(incoming, Requests)
              u == Cardinality(Uncounted)
  <2>. SUFFICES ASSUME LedgerInv, ledger.loaded
       PROVE  /\ ledger.bytes + BytesUncounted >= BytesOnDisk
              /\ ledger.files + FilesUncounted >= FilesOnDisk + c
              /\ ledger.sessions + u >= SessionsOnDisk
    BY DEF LedgerCoversDisk
  <2>1. TypeInv /\ left \in Nat /\ LedgerExact
    BY DEF LedgerInv
  <2>2. /\ ledger.bytes = Stock + Held /\ ledger.files = FileStock + HeldFiles
        /\ ledger.sessions = SessionStock + Makes
    BY <2>1 DEF LedgerExact
  <2>3. i <= Held /\ c <= HeldFiles
    BY HeldCoversIncoming
  <2>4. OnDisk /\ OnDiskTypes
    BY <2>1, DiskIsStock
  <2>5. /\ BytesOnDisk + overcounted.bytes = Stock + BytesUncounted + i
        /\ FilesOnDisk + overcounted.files = FileStock + FilesUncounted
        /\ SessionsOnDisk = SessionStock + u
    BY <2>4 DEF OnDisk
  <2>6. /\ BytesUncounted \in Nat /\ FilesUncounted \in Nat /\ u \in Nat
        /\ BytesOnDisk \in Nat /\ FilesOnDisk \in Nat /\ i \in Nat /\ c \in Nat
        /\ overcounted.bytes \in Nat /\ overcounted.files \in Nat
    BY <2>1, <2>4, OverTyped DEF OnDiskTypes
  <2>7. /\ Stock \in Nat /\ FileStock \in Nat /\ SessionStock \in Nat
        /\ Held \in Nat /\ HeldFiles \in Nat /\ Makes \in Nat
    BY <2>1, DiskTyped, TotalsTyped
  <2>. HIDE DEF i, c, u
  <2>8. ledger.bytes + BytesUncounted >= BytesOnDisk
    BY <2>2, <2>3, <2>5, <2>6, <2>7
  <2>9. ledger.files + FilesUncounted >= FilesOnDisk + c
    BY <2>2, <2>3, <2>5, <2>6, <2>7
  <2>10. ledger.sessions + u >= SessionsOnDisk
    BY <2>2, <2>5, <2>6, <2>7
  <2>. QED BY <2>8, <2>9, <2>10
<1>. QED BY <1>1, LedgerInvHolds, PTL

(* When no request is being carried out the ledger is exactly what is on disk, but for
   what failed removals left uncounted and for the parts that failed aborts took and
   that stay counted: no early return, failed write or rename, dropped body or failed
   create leaves a booking behind or releases one twice. *)
THEOREM QuietLedger == Spec => []QuietLedgerExact
<1>1. LedgerInv => QuietLedgerExact
  <2>. DEFINE u == Cardinality(Uncounted)
  <2>. SUFFICES ASSUME LedgerInv, ledger.loaded, Quiet
       PROVE  /\ ledger.bytes + BytesUncounted = BytesOnDisk + overcounted.bytes
              /\ ledger.files + FilesUncounted = FilesOnDisk + overcounted.files
              /\ ledger.sessions + u = SessionsOnDisk
    BY DEF QuietLedgerExact
  <2>1. TypeInv /\ left \in Nat /\ LedgerExact
    BY DEF LedgerInv
  <2>2. /\ ledger.bytes = Stock + 0 /\ ledger.files = FileStock + 0
        /\ ledger.sessions = SessionStock + 0
    BY <2>1, QuietHoldsNothing DEF LedgerExact, NoAccount
  <2>3. OnDisk /\ OnDiskTypes
    BY <2>1, DiskIsStock
  <2>4. /\ BytesOnDisk + overcounted.bytes = Stock + BytesUncounted + 0
        /\ FilesOnDisk + overcounted.files = FileStock + FilesUncounted
        /\ SessionsOnDisk = SessionStock + u
    BY <2>3, QuietHoldsNothing DEF OnDisk
  <2>5. /\ Stock \in Nat /\ FileStock \in Nat /\ SessionStock \in Nat
        /\ BytesUncounted \in Nat /\ FilesUncounted \in Nat /\ u \in Nat
    BY <2>1, <2>3, DiskTyped DEF OnDiskTypes
  <2>. HIDE DEF u
  <2>. QED BY <2>2, <2>4, <2>5
<1>. QED BY <1>1, LedgerInvHolds, PTL

(* When no request is being carried out what is on disk, beside what failed removals
   left, is within the caps on bytes, files and uploads, unless a copy that was to be
   replaced had shrunk meanwhile or a stop left a directory that was not counted. *)
THEOREM CapsKept == Spec => []CapsHold
<1>1. LedgerInv => CapsHold
  <2>. DEFINE u == Cardinality(Uncounted)
  <2>. SUFFICES ASSUME LedgerInv, ledger.loaded, Quiet, ~overdrawn
       PROVE  /\ BytesOnDisk <= ByteCap + BytesUncounted
              /\ FilesOnDisk <= FileCap + FilesUncounted
              /\ SessionsOnDisk <= SessionCap + u
    BY DEF CapsHold
  <2>1. /\ TypeInv /\ left \in Nat /\ LedgerExact /\ LedgerBounded
        /\ \A r \in Requests : RequestInv(r)
    BY DEF LedgerInv
  <2>2. NoAccount /\ Sum(incoming, Requests) = 0
    BY QuietHoldsNothing
  <2>3. /\ ledger.bytes = Stock + 0 /\ ledger.files = FileStock + 0
        /\ ledger.sessions = SessionStock + 0
    BY <2>1, <2>2 DEF LedgerExact, NoAccount
  <2>4. /\ ledger.bytes <= ByteCap + Slack /\ ledger.files <= FileCap + SlackFiles
        /\ ledger.sessions <= SessionCap
    BY <2>1 DEF LedgerBounded
  <2>5. Slack <= Held /\ SlackFiles <= HeldFiles
    <3>1. \A r \in Requests : req[r].pc \in {"idle", "done"}
      BY DEF Quiet, Busy
    <3>2. \A r \in Requests : SlackBy(r) <= HeldBy(r) /\ SlackFilesBy(r) <= HeldFilesBy(r)
      BY <2>1, <3>1, HeldCoversSlack
    <3>. QED BY <2>1, <3>2, SlackWithinHeld
  <2>6. /\ Slack \in Nat /\ SlackFiles \in Nat /\ Slack <= 0 /\ SlackFiles <= 0
    BY <2>1, <2>2, <2>5, TotalsTyped DEF NoAccount
  <2>7. OnDisk /\ OnDiskTypes
    BY <2>1, DiskIsStock
  <2>8. /\ BytesOnDisk + overcounted.bytes = Stock + BytesUncounted + 0
        /\ FilesOnDisk + overcounted.files = FileStock + FilesUncounted
        /\ SessionsOnDisk = SessionStock + u
    BY <2>2, <2>7 DEF OnDisk
  <2>9. /\ BytesUncounted \in Nat /\ FilesUncounted \in Nat /\ u \in Nat
        /\ BytesOnDisk \in Nat /\ FilesOnDisk \in Nat
        /\ overcounted.bytes \in Nat /\ overcounted.files \in Nat
        /\ Stock \in Nat /\ FileStock \in Nat /\ SessionStock \in Nat
    BY <2>1, <2>7, OverTyped, DiskTyped DEF OnDiskTypes
  <2>10. ByteCap \in Nat /\ FileCap \in Nat /\ SessionCap \in Nat
    BY CapsAssumption
  <2>. HIDE DEF u
  <2>11. BytesOnDisk <= ByteCap + BytesUncounted
    BY <2>3, <2>4, <2>6, <2>8, <2>9, <2>10
  <2>12. FilesOnDisk <= FileCap + FilesUncounted
    BY <2>3, <2>4, <2>6, <2>8, <2>9, <2>10
  <2>13. SessionsOnDisk <= SessionCap + u
    BY <2>3, <2>4, <2>8, <2>9, <2>10
  <2>. QED BY <2>11, <2>12, <2>13
<1>. QED BY <1>1, LedgerInvHolds, PTL

(* A completed object is exactly the parts its complete listed: none was replaced
   between the claim and the rename. *)
THEOREM CompletedListed == Spec => []CompletedAsListed
<1>1. LedgerInv => CompletedAsListed
  BY DEF LedgerInv, RequestInv, JoinInv, Joining, Whole, CompletedAsListed
<1>. QED BY <1>1, LedgerInvHolds, PTL

(* No two requests join one upload. *)
THEOREM OneJoinerHolds == Spec => []OneJoiner
<1>1. LedgerInv => OneJoiner
  BY DEF LedgerInv, OneJoins, Joining, OneJoiner, Joins
<1>. QED BY <1>1, LedgerInvHolds, PTL

BoundsInv == faults \in 0..MaxFaults /\ crashes \in 0..MaxCrashes

(* The faults and stops stay within the bounds of the model. *)
LEMMA BoundsHold == Spec => []BoundsInv
<1>1. Init => BoundsInv
  BY BoundsAssumption DEF Init, BoundsInv
<1>2. BoundsInv /\ [Next]_vars => BoundsInv'
  <2>. SUFFICES ASSUME BoundsInv, [Next]_vars PROVE BoundsInv'
    OBVIOUS
  <2>. USE BoundsAssumption DEF BoundsInv
  <2>1. ASSUME UNCHANGED bounds PROVE BoundsInv'
    BY <2>1 DEF bounds
  <2>2. ASSUME UNCHANGED crashes, Works \/ Fails PROVE BoundsInv'
    BY <2>2 DEF Works, Fails
  <2>3. ASSUME NEW r \in Requests, Begin(r) PROVE BoundsInv'
    BY <2>1, <2>3 DEF Begin
  <2>4. ASSUME NEW r \in Requests, Step(r) PROVE BoundsInv'
    <3>1. CASE Read(r) \/ BodyEnds(r) \/ StorePut(r) \/ Create(r) \/ CleanSession(r)
               \/ Claim(r) \/ Swap(r) \/ Settle(r)
      BY <2>1, <3>1
         DEF Read, BodyEnds, StorePut, Create, CleanSession, Claim, Swap, Settle
    <3>2. CASE Frame(r) \/ GiveUp(r) \/ StorePart(r)
      BY <2>2, <3>2 DEF Frame, GiveUp, StorePart, Drop, Unlink
    <3>3. CASE NamePart(r) \/ MakeDir(r) \/ WriteKey(r) \/ Join(r) \/ Rename(r)
      BY <2>2, <3>3 DEF NamePart, MakeDir, WriteKey, Join, Rename
    <3>4. CASE Abort(r) \/ Discard(r) \/ Reopen(r)
      BY <2>2, <3>4 DEF Abort, Discard, Reopen
    <3>. QED BY <2>4, <3>1, <3>2, <3>3, <3>4 DEF Step
  <2>5. CASE Crash
    BY <2>5 DEF Crash
  <2>6. CASE UNCHANGED vars
    BY <2>1, <2>6 DEF vars
  <2>. QED BY <2>3, <2>4, <2>5, <2>6 DEF Next
<1>. QED BY <1>1, <1>2, PTL DEF Spec

(* A ledger that is not loaded counts nothing. *)
UnloadedInv == ~ledger.loaded => ledger.bytes = 0 /\ ledger.files = 0 /\ ledger.sessions = 0

(* Type correctness. That the ledger's numbers are never negative is the part that
   needs the accounts: a release never gives back more than was booked, not even for an
   upload whose parts could not be removed. *)
THEOREM TypeCorrect == Spec => []TypeOK
<1>1. Init => UnloadedInv
  BY DEF Init, UnloadedInv
<1>2. LedgerInv /\ UnloadedInv /\ [Next]_vars => UnloadedInv'
  <2>. SUFFICES ASSUME LedgerInv, UnloadedInv, [Next]_vars PROVE UnloadedInv'
    OBVIOUS
  <2>0. TypeInv /\ \A r \in Requests : RequestInv(r)
    BY DEF LedgerInv
  <2>1. ASSUME NEW r \in Requests, Begin(r) PROVE UnloadedInv'
    <3>1. CASE ledger.loaded
      BY <2>1, <3>1 DEF Begin, UnloadedInv
    <3>2. CASE ~ledger.loaded
      <4>1. ledger' = Counted
        BY <2>1, <3>2 DEF Begin, Scan
      <4>2. ledger'.loaded
        BY <4>1 DEF Counted
      <4>. QED BY <4>2 DEF UnloadedInv
    <3>. QED BY <3>1, <3>2
  <2>2. ASSUME NEW r \in Requests, Step(r) PROVE UnloadedInv'
    <3>1. GoodStep(r) /\ Busy(r)
      BY <2>0, <2>2, RequestStepHolds
    <3>2. ledger'.loaded
      BY <2>0, <3>1 DEF RequestInv, PlaceInv, GoodStep, SharedFrame
    <3>. QED BY <3>2 DEF UnloadedInv
  <2>3. CASE Crash
    BY <2>3 DEF Crash, UnloadedInv
  <2>4. CASE UNCHANGED vars
    BY <2>4 DEF vars, UnloadedInv
  <2>. QED BY <2>1, <2>2, <2>3, <2>4 DEF Next
<1>3. LedgerInv /\ UnloadedInv /\ BoundsInv => TypeOK
  <2>. SUFFICES ASSUME LedgerInv, UnloadedInv, BoundsInv PROVE TypeOK
    OBVIOUS
  <2>0. TypeInv /\ left \in Nat /\ LedgerExact
    BY DEF LedgerInv
  <2>1. ledger.bytes \in Nat /\ ledger.files \in Nat /\ ledger.sessions \in Nat
    <3>1. CASE ~ledger.loaded
      BY <3>1 DEF UnloadedInv
    <3>2. CASE ledger.loaded
      <4>1. /\ ledger.bytes = Stock + Held /\ ledger.files = FileStock + HeldFiles
            /\ ledger.sessions = SessionStock + Makes
        BY <2>0, <3>2 DEF LedgerExact
      <4>2. /\ Stock \in Nat /\ FileStock \in Nat /\ SessionStock \in Nat
            /\ Held \in Nat /\ HeldFiles \in Nat /\ Makes \in Nat
        BY <2>0, DiskTyped, TotalsTyped
      <4>. QED BY <4>1, <4>2
    <3>. QED BY <3>1, <3>2
  <2>2. ledger \in [loaded : BOOLEAN, bytes : Nat, files : Nat, sessions : Nat]
    BY <2>0, <2>1 DEF TypeInv, Ledger
  <2>. QED BY <2>0, <2>2 DEF TypeInv, BoundsInv, TypeOK, States, Usages
<1>. QED BY <1>1, <1>2, <1>3, LedgerInvHolds, BoundsHold, PTL DEF Spec
=============================================================================
