---------------------------- MODULE WorkerProofs -----------------------------
(* What the two smaller workers of the server promise, the one that posts webhooks
   (WebhookDelivery) and the one that builds vector tilesets (TilesetBuilds), for any
   number of events, subscriptions and tilesets, of failed statements and of restarts.
   The two modules have no name in common and each is proved about by itself. *)
EXTENDS WebhookDelivery, TilesetBuilds, FiniteSetTheorems, TLAPS

-----------------------------------------------------------------------------
(* Lists and how many of their members are of a set *)

(* Induction over a finite set without a predicate parameter: a set of subsets of S that
   holds T whenever it holds every T without one element of it holds S. *)
LEMMA SetInduction ==
  ASSUME NEW S, IsFiniteSet(S), NEW Good,
         \A T \in SUBSET S : (\A x \in T : T \ {x} \in Good) => T \in Good
  PROVE  S \in Good
<1>. DEFINE Bad == (SUBSET S) \ Good
<1>1. SUFFICES ASSUME Bad # {} PROVE FALSE
  OBVIOUS
<1>2. PICK T \in Bad : \A U \in Bad : ~ (<<U, T>> \in StrictSubsetOrdering(S))
  <2>1. IsWellFoundedOn(StrictSubsetOrdering(S), SUBSET S)
    BY FS_StrictSubsetOrderingWellFounded, FS_FiniteSubsetsOfFinite
  <2>2. Bad \subseteq SUBSET S
    OBVIOUS
  <2>. HIDE DEF Bad
  <2>. QED BY <1>1, <2>1, <2>2, WFMin
<1>3. ASSUME NEW x \in T PROVE T \ {x} \in Good
  <2>. DEFINE U == T \ {x}
  <2>1. U \in SUBSET S /\ T \in SUBSET S /\ U \subseteq T /\ U # T
    OBVIOUS
  <2>2. <<U, T>> \in StrictSubsetOrdering(S)
    <3>. HIDE DEF U
    <3>. QED BY <2>1 DEF StrictSubsetOrdering
  <2>. QED BY <1>2, <2>1, <2>2
<1>. QED BY <1>2, <1>3

(* Induction up to a number: what holds 0, and holds each n up to N with n - 1, holds N. *)
LEMMA UpTo ==
  ASSUME NEW N \in Nat, NEW A, 0 \in A,
         \A n \in 1..N : n - 1 \in A => n \in A
  PROVE  N \in A
<1>. DEFINE Good == {T \in SUBSET (1..N) : \A n \in 0..N : T = 1..n => n \in A}
<1>1. ASSUME NEW T \in SUBSET (1..N), \A x \in T : T \ {x} \in Good
      PROVE  T \in Good
  <2>1. SUFFICES ASSUME NEW n \in 0..N, T = 1..n PROVE n \in A
    OBVIOUS
  <2>2. CASE n = 0
    BY <2>2
  <2>3. CASE n # 0
    <3>1. n \in T /\ n - 1 \in 0..N /\ n \in 1..N
      BY <2>1, <2>3
    <3>2. T \ {n} = 1..(n - 1)
      BY <2>1, <2>3
    <3>3. T \ {n} \in Good
      BY <1>1, <3>1
    <3>4. n - 1 \in A
      BY <3>1, <3>2, <3>3
    <3>. QED BY <3>1, <3>4
  <2>. QED BY <2>2, <2>3
<1>. HIDE DEF Good
<1>2. 1..N \in Good
  <2>1. IsFiniteSet(1..N)
    BY FS_Interval
  <2>. QED BY <1>1, <2>1, SetInduction
<1>. QED BY <1>2 DEF Good

(* How many of the first n members of a list are of a set, and how many of all. *)
Among(list, n, S) == Cardinality({i \in 1..n : list[i] \in S})
Count(list, S) == Among(list, Len(list), S)

(* Those members are finitely many. *)
LEMMA AmongFinite ==
  ASSUME NEW list, NEW n \in Nat, NEW S
  PROVE  IsFiniteSet({i \in 1..n : list[i] \in S})
<1>1. IsFiniteSet(1..n)
  BY FS_Interval
<1>2. {i \in 1..n : list[i] \in S} \in SUBSET (1..n)
  OBVIOUS
<1>. QED BY <1>1, <1>2, FS_Subset

(* Their number is a natural number. *)
LEMMA AmongNat ==
  ASSUME NEW list, NEW n \in Nat, NEW S PROVE Among(list, n, S) \in Nat
BY AmongFinite, FS_CardinalityType DEF Among

(* Of no members none is of the set. *)
LEMMA AmongNone ==
  ASSUME NEW list, NEW S PROVE Among(list, 0, S) = 0
BY FS_EmptySet DEF Among

(* The next member counts if it is of the set. *)
LEMMA AmongStep ==
  ASSUME NEW list, NEW n \in Nat \ {0}, NEW S
  PROVE  Among(list, n, S) = Among(list, n - 1, S) + (IF list[n] \in S THEN 1 ELSE 0)
<1>. DEFINE T == {i \in 1..n : list[i] \in S}
            U == {i \in 1..(n - 1) : list[i] \in S}
<1>1. IsFiniteSet(U)
  BY n - 1 \in Nat, AmongFinite
<1>2. CASE list[n] \in S
  <2>1. T = U \cup {n} /\ n \notin U
    BY <1>2
  <2>2. Cardinality(U \cup {n}) = Cardinality(U) + 1
    BY <1>1, <2>1, FS_AddElement
  <2>. QED BY <1>2, <2>1, <2>2 DEF Among
<1>3. CASE list[n] \notin S
  <2>1. T = U
    BY <1>3
  <2>2. Cardinality(U) \in Nat
    BY <1>1, FS_CardinalityType
  <2>. QED BY <1>3, <2>1, <2>2 DEF Among
<1>. QED BY <1>2, <1>3

(* Lists whose first n members are of the set alike have as many of it. *)
LEMMA AmongSame ==
  ASSUME NEW a, NEW b, NEW n \in Nat, NEW S,
         \A i \in 1..n : a[i] \in S <=> b[i] \in S
  PROVE  Among(a, n, S) = Among(b, n, S)
<1>1. {i \in 1..n : a[i] \in S} = {i \in 1..n : b[i] \in S}
  OBVIOUS
<1>. QED BY <1>1 DEF Among

(* Of a larger set there are no fewer members. *)
LEMMA AmongMore ==
  ASSUME NEW list, NEW n \in Nat, NEW S, NEW T, \A i \in 1..n : list[i] \in S => list[i] \in T
  PROVE  Among(list, n, S) <= Among(list, n, T) 
<1>1. {i \in 1..n : list[i] \in S} \subseteq {i \in 1..n : list[i] \in T}
  OBVIOUS
<1>2. IsFiniteSet({i \in 1..n : list[i] \in T})
  BY AmongFinite
<1>. QED BY <1>1, <1>2, FS_Subset DEF Among

(* If all members are of the set, all of them count. *)
LEMMA AmongAll ==
  ASSUME NEW list, NEW n \in Nat, NEW S, \A i \in 1..n : list[i] \in S 
  PROVE  Among(list, n, S) = n
<1>1. {i \in 1..n : list[i] \in S} = 1..n
  OBVIOUS
<1>2. Cardinality(1..n) = n
  BY FS_Interval
<1>. QED BY <1>1, <1>2 DEF Among

(* A list put behind another adds what it has of the set. *)
LEMMA CountConcat ==
  ASSUME NEW E, NEW a \in Seq(E), NEW b \in Seq(E), NEW S
  PROVE  Count(a \o b, S) = Count(a, S) + Count(b, S)
<1>. DEFINE c == a \o b
            A == {n \in 0..Len(b) :
                     Among(c, Len(a) + n, S) = Among(a, Len(a), S) + Among(b, n, S)}
<1>0. Len(a) \in Nat /\ Len(b) \in Nat /\ Len(c) = Len(a) + Len(b)
  OBVIOUS
<1>1. 0 \in A
  <2>1. \A i \in 1..Len(a) : c[i] = a[i]
    OBVIOUS
  <2>2. Among(c, Len(a), S) = Among(a, Len(a), S)
    <3>. HIDE DEF c
    <3>. QED BY <1>0, <2>1, AmongSame
  <2>3. Among(b, 0, S) = 0 /\ Among(a, Len(a), S) \in Nat
    BY <1>0, AmongNone, AmongNat
  <2>4. Len(a) + 0 = Len(a) /\ Among(a, Len(a), S) + 0 = Among(a, Len(a), S)
    BY <1>0, <2>3
  <2>. HIDE DEF c
  <2>. QED BY <1>0, <2>2, <2>3, <2>4
<1>2. ASSUME NEW n \in 1..Len(b), n - 1 \in A PROVE n \in A
  <2>1. c[Len(a) + n] = b[n]
    BY <1>0
  <2>. HIDE DEF c
  <2>2. Among(c, Len(a) + n, S)
          = Among(c, Len(a) + n - 1, S) + (IF c[Len(a) + n] \in S THEN 1 ELSE 0)
    <3>1. Len(a) + n \in Nat \ {0}
      BY <1>0
    <3>. QED BY <3>1, AmongStep
  <2>3. Among(b, n, S) = Among(b, n - 1, S) + (IF b[n] \in S THEN 1 ELSE 0)
    <3>1. n \in Nat \ {0}
      BY <1>0
    <3>. QED BY <3>1, AmongStep
  <2>4. Len(a) + n - 1 = Len(a) + (n - 1) /\ n - 1 \in Nat
    BY <1>0
  <2>5. Among(c, Len(a) + (n - 1), S) = Among(a, Len(a), S) + Among(b, n - 1, S)
    BY <1>2
  <2>6. Among(b, n - 1, S) \in Nat /\ Among(a, Len(a), S) \in Nat
    BY <1>0, <2>4, AmongNat
  <2>7. Among(c, Len(a) + n, S) = Among(a, Len(a), S) + Among(b, n, S)
    BY <2>1, <2>2, <2>3, <2>4, <2>5, <2>6
  <2>. QED BY <1>0, <2>7
<1>3. Len(b) \in A
  <2>. HIDE DEF A
  <2>. QED BY <1>0, <1>1, <1>2, UpTo
<1>. HIDE DEF c
<1>. QED BY <1>0, <1>3 DEF Count, c

(* The same for the members of a whole list. *)
LEMMA CountNat ==
  ASSUME NEW E, NEW a \in Seq(E), NEW S
  PROVE  /\ Count(a, S) \in Nat
         /\ (\A i \in 1..Len(a) : a[i] \in S) => Count(a, S) = Len(a)
         /\ \A T : (\A i \in 1..Len(a) : a[i] \in S => a[i] \in T) => Count(a, S) <= Count(a, T)
<1>1. Len(a) \in Nat
  OBVIOUS
<1>. QED BY <1>1, AmongNat, AmongAll, AmongMore DEF Count

(* An empty list has no member of any set. *)
LEMMA CountEmpty ==
  ASSUME NEW S PROVE Count(<<>>, S) = 0
BY AmongNone DEF Count

(* What push_back adds counts if it is of the set. *)
LEMMA CountAppend ==
  ASSUME NEW E, NEW a \in Seq(E), NEW x \in E, NEW S
  PROVE  Count(Append(a, x), S) = Count(a, S) + (IF x \in S THEN 1 ELSE 0)
<1>. DEFINE c == Append(a, x)
            n == Len(a) + 1
<1>1. Len(a) \in Nat /\ Len(c) = n /\ c[n] = x /\ \A i \in 1..Len(a) : c[i] = a[i]
  OBVIOUS
<1>. HIDE DEF c
<1>2. n \in Nat \ {0} /\ n - 1 = Len(a)
  BY <1>1
<1>3. Among(c, n, S) = Among(c, n - 1, S) + (IF c[n] \in S THEN 1 ELSE 0)
  <2>. HIDE DEF n
  <2>. QED BY <1>2, AmongStep
<1>4. Among(c, Len(a), S) = Among(a, Len(a), S)
  BY <1>1, AmongSame
<1>. QED BY <1>1, <1>2, <1>3, <1>4 DEF Count, c

(* A list has its head and what its tail has. *)
LEMMA CountTail ==
  ASSUME NEW E, NEW a \in Seq(E), a # <<>>, NEW S
  PROVE  Count(a, S) = Count(Tail(a), S) + (IF Head(a) \in S THEN 1 ELSE 0)
<1>. DEFINE h == <<Head(a)>>
<1>1. /\ Head(a) \in E /\ Tail(a) \in Seq(E) /\ h \in Seq(E) /\ a = h \o Tail(a)
      /\ h = Append(<<>>, Head(a)) /\ <<>> \in Seq(E)
  OBVIOUS
<1>2. Count(h, S) = Count(<<>>, S) + (IF Head(a) \in S THEN 1 ELSE 0)
  <2>. HIDE DEF h
  <2>1. Count(Append(<<>>, Head(a)), S) = Count(<<>>, S) + (IF Head(a) \in S THEN 1 ELSE 0)
    BY <1>1, CountAppend
  <2>. QED BY <1>1, <2>1
<1>3. Count(h, S) = IF Head(a) \in S THEN 1 ELSE 0
  BY <1>2, CountEmpty
<1>. HIDE DEF h
<1>4. Count(a, S) = Count(h, S) + Count(Tail(a), S)
  BY <1>1, CountConcat
<1>5. Count(Tail(a), S) \in Nat
  BY <1>1, CountNat
<1>. QED BY <1>3, <1>4, <1>5

(* deliver_due's loop: what it has kept of the first n deliveries. *)
IsKept(kept, list, due, N) ==
  kept = [n \in 0..N |->
            IF n = 0 THEN <<>>
            ELSE IF list[n].due = due THEN Append(kept[n - 1], list[n]) ELSE kept[n - 1]]

(* Where is the value of that recursive function at the end of the list. *)
LEMMA WhereUnfolds ==
  ASSUME NEW list, NEW due
  PROVE  Where(list, due) = (CHOOSE kept : IsKept(kept, list, due, Len(list)))[Len(list)]
BY DEF Where, IsKept

(* The equation of the recursive function at one number. *)
LEMMA KeptAt ==
  ASSUME NEW kept, NEW list, NEW due, NEW N, IsKept(kept, list, due, N), NEW n \in 0..N
  PROVE  kept[n] = IF n = 0 THEN <<>>
                   ELSE IF list[n].due = due THEN Append(kept[n - 1], list[n]) ELSE kept[n - 1]
<1>. DEFINE v(m) == IF m = 0 THEN <<>>
                    ELSE IF list[m].due = due THEN Append(kept[m - 1], list[m]) ELSE kept[m - 1]
<1>1. kept = [m \in 0..N |-> v(m)]
  BY DEF IsKept
<1>. HIDE DEF v
<1>2. kept[n] = v(n)
  BY <1>1
<1>. QED BY <1>2 DEF v

(* There is such a function, so the CHOOSE inside Where finds one. *)
LEMMA KeptExists ==
  ASSUME NEW list, NEW due, NEW N \in Nat
  PROVE  \E kept : IsKept(kept, list, due, N)
<1>. DEFINE A == {n \in 0..N : \E kept : IsKept(kept, list, due, n)}
<1>1. 0 \in A
  <2>1. IsKept([n \in 0..0 |-> <<>>], list, due, 0)
    BY DEF IsKept
  <2>. QED BY <2>1
<1>2. ASSUME NEW n \in 1..N, n - 1 \in A PROVE n \in A
  <2>1. PICK f : IsKept(f, list, due, n - 1)
    BY <1>2
  <2>. DEFINE x == IF list[n].due = due THEN Append(f[n - 1], list[n]) ELSE f[n - 1]
              g == [m \in 0..n |-> IF m = n THEN x ELSE f[m]]
              v(m) == IF m = 0 THEN <<>>
                      ELSE IF list[m].due = due THEN Append(g[m - 1], list[m]) ELSE g[m - 1]
  <2>2. ASSUME NEW m \in 0..n PROVE g[m] = v(m)
    <3>1. CASE m = n
      <4>1. g[n - 1] = f[n - 1] /\ g[n] = x
        BY <1>2
      <4>. HIDE DEF g
      <4>. QED BY <1>2, <3>1, <4>1
    <3>2. CASE m # n
      <4>1. m \in 0..(n - 1) /\ g[m] = f[m]
        BY <1>2, <2>2, <3>2
      <4>2. m # 0 => g[m - 1] = f[m - 1]
        BY <4>1
      <4>3. f[m] = IF m = 0 THEN <<>>
                   ELSE IF list[m].due = due THEN Append(f[m - 1], list[m]) ELSE f[m - 1]
        BY <2>1, <4>1, KeptAt
      <4>. HIDE DEF g
      <4>. QED BY <4>1, <4>2, <4>3
    <3>. QED BY <3>1, <3>2
  <2>3. g = [m \in 0..n |-> v(m)]
    <3>1. g = [m \in 0..n |-> g[m]]
      OBVIOUS
    <3>. HIDE DEF g, v
    <3>. QED BY <2>2, <3>1
  <2>4. IsKept(g, list, due, n)
    BY <2>3 DEF IsKept
  <2>. HIDE DEF g
  <2>. QED BY <1>2, <2>4
<1>3. N \in A
  <2>. HIDE DEF A
  <2>. QED BY <1>1, <1>2, UpTo
<1>. QED BY <1>3

(* The due deliveries and the others are those of the list, no one missing and none twice. *)
LEMMA WhereOfTwo ==
  ASSUME NEW E, NEW list \in Seq(E), NEW yes, NEW no, yes # no,
         \A p \in E : p.due \in {yes, no}
  PROVE  /\ Where(list, yes) \in Seq(E) /\ Where(list, no) \in Seq(E)
         /\ \A S : Count(Where(list, yes), S) + Count(Where(list, no), S) = Count(list, S)
<1>. DEFINE N == Len(list)
<1>1. N \in Nat /\ \A n \in 1..N : list[n] \in E
  OBVIOUS
<1>2. PICK t : IsKept(t, list, yes, N) /\ Where(list, yes) = t[N]
  BY <1>1, KeptExists, WhereUnfolds
<1>3. PICK f : IsKept(f, list, no, N) /\ Where(list, no) = f[N]
  BY <1>1, KeptExists, WhereUnfolds
<1>. DEFINE A == {n \in 0..N : /\ t[n] \in Seq(E) /\ f[n] \in Seq(E)
                              /\ \A S : Count(t[n], S) + Count(f[n], S) = Among(list, n, S)}
<1>4. 0 \in A
  <2>1. t[0] = <<>> /\ f[0] = <<>> /\ 0 \in 0..N
    <3>. HIDE DEF N
    <3>1. 0 \in 0..N
      BY <1>1
    <3>2. t[0] = <<>>
      BY <1>2, <3>1, KeptAt
    <3>3. f[0] = <<>>
      BY <1>3, <3>1, KeptAt
    <3>. QED BY <3>1, <3>2, <3>3
  <2>2. ASSUME NEW S PROVE Count(t[0], S) + Count(f[0], S) = Among(list, 0, S)
    <3>1. Count(<<>>, S) = 0 /\ Among(list, 0, S) = 0
      BY CountEmpty, AmongNone
    <3>. QED BY <2>1, <3>1
  <2>3. t[0] \in Seq(E) /\ f[0] \in Seq(E)
    BY <2>1
  <2>. QED BY <2>1, <2>2, <2>3
<1>5. ASSUME NEW n \in 1..N, n - 1 \in A PROVE n \in A
  <2>. DEFINE x == list[n]
  <2>1. x \in E /\ x.due \in {yes, no} /\ n \in 0..N /\ n # 0 /\ n \in Nat \ {0}
    BY <1>1
  <2>2. /\ t[n] = IF x.due = yes THEN Append(t[n - 1], x) ELSE t[n - 1]
        /\ f[n] = IF x.due = no THEN Append(f[n - 1], x) ELSE f[n - 1]
    <3>. HIDE DEF N, A
    <3>1. t[n] = IF n = 0 THEN <<>>
                 ELSE IF list[n].due = yes THEN Append(t[n - 1], list[n]) ELSE t[n - 1]
      BY <1>2, <2>1, KeptAt
    <3>2. f[n] = IF n = 0 THEN <<>>
                 ELSE IF list[n].due = no THEN Append(f[n - 1], list[n]) ELSE f[n - 1]
      BY <1>3, <2>1, KeptAt
    <3>. QED BY <2>1, <3>1, <3>2
  <2>3. /\ t[n - 1] \in Seq(E) /\ f[n - 1] \in Seq(E)
        /\ \A S : Count(t[n - 1], S) + Count(f[n - 1], S) = Among(list, n - 1, S)
    BY <1>5
  <2>4. ASSUME NEW S PROVE Among(list, n, S) = Among(list, n - 1, S) + (IF x \in S THEN 1 ELSE 0)
    BY <2>1, AmongStep
  <2>5. ASSUME NEW S PROVE Count(t[n - 1], S) \in Nat /\ Count(f[n - 1], S) \in Nat
    BY <2>3, CountNat
  <2>6. t[n] \in Seq(E) /\ f[n] \in Seq(E)
    <3>. HIDE DEF x
    <3>. QED BY <2>1, <2>2, <2>3
  <2>7. ASSUME NEW S PROVE Count(t[n], S) + Count(f[n], S) = Among(list, n, S)
    <3>1. CASE x.due = yes
      <4>1. t[n] = Append(t[n - 1], x) /\ f[n] = f[n - 1]
        BY <2>2, <3>1
      <4>2. Count(t[n], S) = Count(t[n - 1], S) + (IF x \in S THEN 1 ELSE 0)
        BY <2>1, <2>3, <4>1, CountAppend
      <4>. HIDE DEF x
      <4>. QED BY <2>3, <2>4, <2>5, <4>1, <4>2
    <3>2. CASE x.due = no
      <4>1. f[n] = Append(f[n - 1], x) /\ t[n] = t[n - 1]
        BY <2>1, <2>2, <3>2
      <4>2. Count(f[n], S) = Count(f[n - 1], S) + (IF x \in S THEN 1 ELSE 0)
        BY <2>1, <2>3, <4>1, CountAppend
      <4>. HIDE DEF x
      <4>. QED BY <2>3, <2>4, <2>5, <4>1, <4>2
    <3>. QED BY <2>1, <3>1, <3>2
  <2>. QED BY <2>1, <2>6, <2>7
<1>6. N \in A
  <2>. HIDE DEF A, N
  <2>. QED BY <1>1, <1>4, <1>5, UpTo
<1>. QED BY <1>2, <1>3, <1>6 DEF Count

(* deliver_due splits the queue in two: it loses no delivery and doubles none. *)
LEMMA WhereSplits ==
  ASSUME NEW E, NEW list \in Seq(E), \A p \in E : p.due \in BOOLEAN
  PROVE  /\ Where(list, TRUE) \in Seq(E) /\ Where(list, FALSE) \in Seq(E)
         /\ \A S : Count(Where(list, TRUE), S) + Count(Where(list, FALSE), S) = Count(list, S)
<1>. DEFINE yes == TRUE
            no == FALSE
<1>1. yes # no
  OBVIOUS
<1>2. \A p \in E : p.due \in {yes, no}
  OBVIOUS
<1>3. /\ Where(list, yes) \in Seq(E) /\ Where(list, no) \in Seq(E)
      /\ \A S : Count(Where(list, yes), S) + Count(Where(list, no), S) = Count(list, S)
  <2>. HIDE DEF yes, no
  <2>. QED BY <1>1, <1>2, WhereOfTwo
<1>. QED BY <1>3

(* SetToSeq lists a finite set without repeating an element. *)
LEMMA SetToSeqLists ==
  ASSUME NEW S, IsFiniteSet(S)
  PROVE  /\ SetToSeq(S) \in Seq(S)
         /\ \A i, j \in 1..Len(SetToSeq(S)) : SetToSeq(S)[i] = SetToSeq(S)[j] => i = j
<1>1. PICK n \in Nat : ExistsBijection(1..n, S)
  BY FS_NatBijection
<1>2. n = Cardinality(S)
  BY <1>1, FS_CountingElements
<1>3. PICK f \in Bijection(1..n, S) : TRUE
  BY <1>1 DEF ExistsBijection
<1>4. f \in [1..Cardinality(S) -> S] /\ IsInjective(f)
  BY <1>2, <1>3 DEF Bijection, Injection, IsInjective
<1>5. SetToSeq(S) \in [1..Cardinality(S) -> S] /\ IsInjective(SetToSeq(S))
  BY <1>4 DEF SetToSeq
<1>6. Len(SetToSeq(S)) = Cardinality(S) /\ SetToSeq(S) \in Seq(S)
  BY <1>1, <1>2, <1>5
<1>. QED BY <1>5, <1>6 DEF IsInjective

(* A delivery as emit queues it. *)
Fresh(e, s) == [of |-> <<e, s>>, attempts |-> 0, due |-> TRUE]

(* What an emit puts in the queue: one new delivery for each of some subscriptions, no more
   than there is room for. *)
LEMMA EmitAdds ==
  ASSUME DeliveryTypeOK, NEW e \in Events, EmitQueues(e)
  PROVE  \E subs \in Seq(Subscriptions), new \in Seq(Pending) :
            /\ \A i, j \in 1..Len(subs) : subs[i] = subs[j] => i = j
            /\ Len(new) = Len(subs) /\ Len(subs) <= Room
            /\ \A i \in 1..Len(new) : new[i] = Fresh(e, subs[i])
            /\ pending' = pending \o new
            /\ queued' = queued \cup {<<e, subs[i]>> : i \in 1..Len(subs)}
<1>1. PICK recipients \in SUBSET wanted[e] :
         LET list == SetToSeq(recipients)
             taken == SubSeq(list, 1, IF Len(list) < Room THEN Len(list) ELSE Room)
         IN  /\ pending' = pending \o [i \in DOMAIN taken |->
                                         [of |-> <<e, taken[i]>>, attempts |-> 0, due |-> TRUE]]
             /\ queued' = queued \cup {<<e, taken[i]>> : i \in DOMAIN taken}
  BY DEF EmitQueues
<1>. DEFINE list == SetToSeq(recipients)
            k == IF Len(list) < Room THEN Len(list) ELSE Room
            subs == SubSeq(list, 1, k)
            new == [i \in 1..Len(subs) |-> Fresh(e, subs[i])]
<1>2. wanted[e] \subseteq Subscriptions
  BY DEF DeliveryTypeOK
<1>3. IsFiniteSet(recipients)
  <2>1. recipients \in SUBSET Subscriptions
    BY <1>2
  <2>. QED BY <2>1, SubscriptionsAssumption, FS_Subset
<1>4. /\ list \in Seq(recipients)
      /\ \A i, j \in 1..Len(list) : list[i] = list[j] => i = j
  BY <1>3, SetToSeqLists
<1>5. list \in Seq(Subscriptions)
  <2>. HIDE DEF list
  <2>. QED BY <1>2, <1>4
<1>6. Room \in Nat
  BY LimitsAssumption DEF Room, DeliveryTypeOK
<1>7. k \in 0..Len(list) /\ k <= Room
  <2>. HIDE DEF list
  <2>1. Len(list) \in Nat
    BY <1>5
  <2>. QED BY <1>6, <2>1
<1>8. subs \in Seq(Subscriptions) /\ Len(subs) = k /\ \A i \in 1..k : subs[i] = list[i]
  <2>. HIDE DEF list, k
  <2>. QED BY <1>5, <1>7
<1>9. \A i, j \in 1..Len(subs) : subs[i] = subs[j] => i = j
  <2>. HIDE DEF list, k, subs
  <2>. QED BY <1>4, <1>5, <1>7, <1>8
<1>10. new \in Seq(Pending) /\ Len(new) = Len(subs)
  <2>1. ASSUME NEW s \in Subscriptions PROVE Fresh(e, s) \in Pending
    BY LimitsAssumption DEF Fresh, Pending, Deliveries
  <2>. HIDE DEF subs
  <2>2. Len(subs) \in Nat /\ \A i \in 1..Len(subs) : subs[i] \in Subscriptions
    BY <1>8
  <2>3. \A i \in 1..Len(subs) : Fresh(e, subs[i]) \in Pending
    BY <2>1, <2>2
  <2>. QED BY <2>2, <2>3
<1>11. DOMAIN subs = 1..Len(subs)
  <2>. HIDE DEF subs
  <2>. QED BY <1>8
<1>12. /\ pending' = pending \o new
       /\ queued' = queued \cup {<<e, subs[i]>> : i \in 1..Len(subs)}
  <2>1. /\ pending' = pending \o [i \in DOMAIN subs |->
                                     [of |-> <<e, subs[i]>>, attempts |-> 0, due |-> TRUE]]
        /\ queued' = queued \cup {<<e, subs[i]>> : i \in DOMAIN subs}
    BY <1>1
  <2>. HIDE DEF subs
  <2>. QED BY <2>1, <1>11 DEF Fresh
<1>13. \A i \in 1..Len(new) : new[i] = Fresh(e, subs[i])
  <2>. HIDE DEF subs
  <2>. QED BY <1>10
<1>. HIDE DEF subs, new
<1>. QED BY <1>7, <1>8, <1>9, <1>10, <1>12, <1>13

-----------------------------------------------------------------------------
(* The queue of webhook deliveries *)

(* The deliveries of one event to one subscription, and those tried less than a times. *)
Of(d) == {p \in Pending : p.of = d}
Younger(a) == {p \in Pending : p.attempts < a}

(* Only an emit that is over has queued anything, and only what was queued is lost. *)
QueuedOnce ==
    /\ \A d \in queued : emitting[d[1]] = "over"
    /\ lost \subseteq queued

(* Of the deliveries tried less than a times there are never more than a caps under way,
   nor one cap more with those that wait and were tried less than a + 1 times. *)
TriedFit ==
    \A a \in Nat :
        /\ Count(batch, Younger(a)) <= a * MaxPending
        /\ Count(pending, Younger(a + 1)) + Count(batch, Younger(a)) <= (a + 1) * MaxPending

(* The inductive invariant of the queue. *)
DeliveryInv ==
    /\ DeliveryTypeOK /\ QueuedOnce /\ OneRowPerDelivery /\ TriedFit /\ FailedAfterAllAttempts

(* The copies of a delivery in a list, as a count of its members. *)
LEMMA CopiesCounted ==
  ASSUME NEW list \in Seq(Pending), NEW d
  PROVE  Copies(list, d) = Count(list, Of(d)) /\ Copies(list, d) \in Nat
<1>1. DOMAIN list = 1..Len(list) /\ \A i \in 1..Len(list) : list[i] \in Pending
  OBVIOUS
<1>2. {i \in DOMAIN list : list[i].of = d} = {i \in 1..Len(list) : list[i] \in Of(d)}
  BY <1>1 DEF Of
<1>3. Copies(list, d) = Count(list, Of(d))
  BY <1>2 DEF Copies, Count, Among
<1>. QED BY <1>3, CountNat

(* An empty queue, as at the start and after a restart, has no copy of a delivery. *)
LEMMA NoCopies ==
  ASSUME NEW d PROVE Copies(<<>>, d) = 0
<1>1. <<>> \in Seq(Pending)
  OBVIOUS
<1>. QED BY <1>1, CopiesCounted, CountEmpty

(* What is in a list has a copy there. *)
LEMMA CopyCounted ==
  ASSUME NEW list \in Seq(Pending), NEW i \in DOMAIN list
  PROVE  Copies(list, list[i].of) >= 1
<1>. DEFINE T == {j \in DOMAIN list : list[j].of = list[i].of}
<1>1. IsFiniteSet(DOMAIN list)
  <2>1. DOMAIN list = 1..Len(list) /\ Len(list) \in Nat
    OBVIOUS
  <2>. QED BY <2>1, FS_Interval
<1>2. IsFiniteSet(T)
  BY <1>1, FS_Subset
<1>3. T # {}
  OBVIOUS
<1>4. Cardinality(T) \in Nat /\ Cardinality(T) # 0
  BY <1>2, <1>3, FS_CardinalityType, FS_EmptySet
<1>. QED BY <1>4 DEF Copies

(* At the start nothing is queued. *)
LEMMA DeliveryInit == InitDelivery => DeliveryInv
<1> SUFFICES ASSUME InitDelivery PROVE DeliveryInv
  OBVIOUS
<1>1. DeliveryTypeOK
  BY DEF InitDelivery, DeliveryTypeOK
<1>2. QueuedOnce /\ FailedAfterAllAttempts
  BY DEF InitDelivery, QueuedOnce, FailedAfterAllAttempts
<1>3. OneRowPerDelivery
  <2>1. ASSUME NEW d \in Deliveries
        PROVE  Copies(pending, d) = 0 /\ Copies(batch, d) = 0 /\ finished[d] = 0
                 /\ d \notin queued \ lost
    BY NoCopies DEF InitDelivery
  <2>. QED BY <2>1 DEF OneRowPerDelivery
<1>4. TriedFit
  <2>1. ASSUME NEW S PROVE Count(pending, S) = 0 /\ Count(batch, S) = 0
    BY CountEmpty DEF InitDelivery
  <2>2. ASSUME NEW a \in Nat PROVE 0 <= a * MaxPending /\ 0 <= (a + 1) * MaxPending
    BY LimitsAssumption
  <2>. QED BY <2>1, <2>2 DEF TriedFit
<1>. QED BY <1>1, <1>2, <1>3, <1>4 DEF DeliveryInv

(* The steps that leave the queue alone *)
Quiet ==
    \/ \E s \in Subscriptions :
          \/ \E active \in {"active", "inactive"} : Subscribe(s, active)
          \/ Unsubscribe(s)
    \/ \E e \in Events : EmitReads(e)

(* The routes, and an emit that reads, leave the queue as it is. *)
LEMMA QuietKeeps == DeliveryInv /\ Quiet => DeliveryInv'
<1> SUFFICES ASSUME DeliveryInv, Quiet PROVE DeliveryInv'
  OBVIOUS
<1>1. UNCHANGED <<queue, lost, stops>>
  BY DEF Quiet, Subscribe, Unsubscribe, EmitReads
<1>2. DeliveryTypeOK'
  <2>1. subscription' \in [Subscriptions -> {"absent", "active", "inactive", "deleted"}]
    BY DEF DeliveryInv, DeliveryTypeOK, Quiet, Subscribe, Unsubscribe, EmitReads
  <2>2. emitting' \in [Events -> {"waiting", "read", "over"}]
    BY DEF DeliveryInv, DeliveryTypeOK, Quiet, Subscribe, Unsubscribe, EmitReads
  <2>3. wanted' \in [Events -> SUBSET Subscriptions]
    BY DEF DeliveryInv, DeliveryTypeOK, Quiet, Subscribe, Unsubscribe, EmitReads
  <2>4. failedReads' \in Nat
    BY DEF DeliveryInv, DeliveryTypeOK, Quiet, Subscribe, Unsubscribe, EmitReads
  <2>. QED BY <1>1, <2>1, <2>2, <2>3, <2>4 DEF DeliveryInv, DeliveryTypeOK, queue
<1>3. QueuedOnce'
  <2>1. \A e \in Events : emitting[e] = "over" => emitting'[e] = "over"
    BY DEF DeliveryInv, DeliveryTypeOK, Quiet, Subscribe, Unsubscribe, EmitReads
  <2>2. \A d \in queued : d[1] \in Events
    BY DEF DeliveryInv, DeliveryTypeOK, Deliveries
  <2>. QED BY <1>1, <2>1, <2>2 DEF DeliveryInv, QueuedOnce, queue
<1>4. OneRowPerDelivery' /\ TriedFit' /\ FailedAfterAllAttempts'
  BY <1>1 DEF DeliveryInv, queue, OneRowPerDelivery, TriedFit, FailedAfterAllAttempts,
              Copies, Count, Among
<1>. QED BY <1>2, <1>3, <1>4 DEF DeliveryInv

(* One cap more, as a sum: what the bounds below need of multiplication. *)
LEMMA OneCapMore ==
  ASSUME NEW a \in Nat
  PROVE  /\ a * MaxPending \in Nat /\ (a + 1) * MaxPending = a * MaxPending + MaxPending
         /\ MaxPending \in Nat
BY LimitsAssumption

(* An emit queues deliveries that were never queued before, and only below the cap. *)
LEMMA EmitQueuesKeeps ==
  ASSUME DeliveryInv, NEW e \in Events, EmitQueues(e)
  PROVE  DeliveryInv'
<1>1. DeliveryTypeOK
  BY DEF DeliveryInv
<1>2. PICK subs \in Seq(Subscriptions), new \in Seq(Pending) :
         /\ \A i, j \in 1..Len(subs) : subs[i] = subs[j] => i = j
         /\ Len(new) = Len(subs) /\ Len(subs) <= Room
         /\ \A i \in 1..Len(new) : new[i] = Fresh(e, subs[i])
         /\ pending' = pending \o new
         /\ queued' = queued \cup {<<e, subs[i]>> : i \in 1..Len(subs)}
  BY <1>1, EmitAdds
<1>3. /\ emitting[e] = "read"
      /\ emitting' = [emitting EXCEPT ![e] = "over"]
      /\ wanted' = [wanted EXCEPT ![e] = {}]
      /\ UNCHANGED <<subscription, batch, history, finished, lost, failedReads, stops>>
  BY DEF EmitQueues
<1>4. /\ pending \in Seq(Pending) /\ batch \in Seq(Pending)
      /\ Len(subs) \in Nat /\ \A i \in 1..Len(subs) : subs[i] \in Subscriptions
  BY <1>1 DEF DeliveryTypeOK
<1>5. DeliveryTypeOK'
  <2>1. emitting' \in [Events -> {"waiting", "read", "over"}]
    BY <1>1, <1>3 DEF DeliveryTypeOK
  <2>2. wanted' \in [Events -> SUBSET Subscriptions]
    BY <1>1, <1>3 DEF DeliveryTypeOK
  <2>3. pending' \in Seq(Pending)
    BY <1>2, <1>4
  <2>4. queued' \subseteq Deliveries
    BY <1>1, <1>2, <1>4 DEF DeliveryTypeOK, Deliveries
  <2>. QED BY <1>1, <1>3, <2>1, <2>2, <2>3, <2>4 DEF DeliveryTypeOK
<1>6. QueuedOnce'
  <2>1. \A d \in queued' : emitting'[d[1]] = "over"
    BY <1>1, <1>2, <1>3 DEF DeliveryInv, QueuedOnce, DeliveryTypeOK, Deliveries
  <2>2. lost' \subseteq queued'
    BY <1>2, <1>3 DEF DeliveryInv, QueuedOnce
  <2>. QED BY <2>1, <2>2 DEF QueuedOnce
<1>7. OneRowPerDelivery'
  <2>1. ASSUME NEW d \in Deliveries
        PROVE  Copies(pending', d) + Copies(batch', d) + finished'[d]
                 = IF d \in queued' \ lost' THEN 1 ELSE 0
    <3>1. Copies(pending, d) + Copies(batch, d) + finished[d]
            = IF d \in queued \ lost THEN 1 ELSE 0
      BY DEF DeliveryInv, OneRowPerDelivery
    <3>2. Copies(pending', d) = Copies(pending, d) + Copies(new, d)
      <4>1. Count(pending', Of(d)) = Count(pending, Of(d)) + Count(new, Of(d))
        BY <1>2, <1>4, CountConcat
      <4>. QED BY <1>4, <1>5, <4>1, CopiesCounted DEF DeliveryTypeOK
    <3>3. Copies(pending, d) \in Nat /\ Copies(batch, d) \in Nat /\ finished[d] \in Nat
      BY <1>1, <1>4, CopiesCounted DEF DeliveryTypeOK
    <3>4. DOMAIN new = 1..Len(subs) /\ \A i \in DOMAIN new : new[i].of = <<e, subs[i]>>
      <4>1. DOMAIN new = 1..Len(new)
        BY <1>2
      <4>2. \A i \in 1..Len(new) : Fresh(e, subs[i]).of = <<e, subs[i]>>
        BY DEF Fresh
      <4>. QED BY <1>2, <4>1, <4>2
    <3>5. CASE \E i \in 1..Len(subs) : d = <<e, subs[i]>>
      <4>1. PICK i \in 1..Len(subs) : d = <<e, subs[i]>>
        BY <3>5
      <4>2. {j \in DOMAIN new : new[j].of = d} = {i}
        BY <1>2, <1>4, <3>4, <4>1
      <4>3. Copies(new, d) = 1
        BY <4>2, FS_Singleton DEF Copies
      <4>4. d \notin queued
        BY <1>3, <4>1 DEF DeliveryInv, QueuedOnce
      <4>5. d \notin lost /\ d \in queued'
        BY <1>2, <4>1, <4>4 DEF DeliveryInv, QueuedOnce
      <4>. QED BY <1>3, <3>1, <3>2, <3>3, <4>3, <4>4, <4>5
    <3>6. CASE ~ \E i \in 1..Len(subs) : d = <<e, subs[i]>>
      <4>1. {j \in DOMAIN new : new[j].of = d} = {}
        BY <3>4, <3>6
      <4>2. Copies(new, d) = 0
        BY <4>1, FS_EmptySet DEF Copies
      <4>3. d \in queued' <=> d \in queued
        BY <1>2, <3>6
      <4>. QED BY <1>3, <3>1, <3>2, <3>3, <4>2, <4>3
    <3>. QED BY <3>5, <3>6
  <2>. QED BY <2>1 DEF OneRowPerDelivery
<1>8. TriedFit'
  <2>1. ASSUME NEW a \in Nat
        PROVE  /\ Count(batch', Younger(a)) <= a * MaxPending
               /\ Count(pending', Younger(a + 1)) + Count(batch', Younger(a))
                    <= (a + 1) * MaxPending
    <3>. DEFINE p == Count(pending, Younger(a + 1))
                b == Count(batch, Younger(a))
                n == Count(new, Younger(a + 1))
    <3>1. b <= a * MaxPending /\ p + b <= (a + 1) * MaxPending
      BY DEF DeliveryInv, TriedFit
    <3>2. Count(pending', Younger(a + 1)) = p + n /\ batch' = batch
      BY <1>2, <1>3, <1>4, CountConcat
    <3>3. n <= Len(new) /\ p <= Len(pending)
      <4>1. ASSUME NEW q \in Seq(Pending) PROVE Count(q, Younger(a + 1)) <= Len(q)
        <5>1. \A i \in 1..Len(q) : q[i] \in Pending
          OBVIOUS
        <5>2. Count(q, Pending) = Len(q)
          BY <5>1, CountNat
        <5>3. \A i \in 1..Len(q) : q[i] \in Younger(a + 1) => q[i] \in Pending
          BY <5>1
        <5>4. Count(q, Younger(a + 1)) <= Count(q, Pending)
          BY <5>3, CountNat
        <5>. QED BY <5>2, <5>4
      <4>. QED BY <1>4, <4>1
    <3>4. p \in Nat /\ b \in Nat /\ n \in Nat /\ Len(pending) \in Nat /\ Len(new) \in Nat
      BY <1>4, CountNat
    <3>5. Len(new) <= Room
      BY <1>2
    <3>6. Len(pending) < MaxPending => p + n <= MaxPending
      BY <3>3, <3>4, <3>5, LimitsAssumption DEF Room
    <3>7. ~(Len(pending) < MaxPending) => n = 0
      BY <3>3, <3>4, <3>5 DEF Room
    <3>8. p + n + b <= (a + 1) * MaxPending
      <4>. DEFINE m == a * MaxPending
                  m1 == (a + 1) * MaxPending
      <4>1. m \in Nat /\ m1 = m + MaxPending /\ MaxPending \in Nat
        BY OneCapMore
      <4>2. b <= m /\ p + b <= m1
        BY <3>1
      <4>. HIDE DEF p, n, b, m, m1
      <4>3. p + n + b <= m1
        BY <3>4, <3>6, <3>7, <4>1, <4>2
      <4>. QED BY <4>3 DEF m1
    <3>. HIDE DEF p, n
    <3>. QED BY <3>1, <3>2, <3>4, <3>8
  <2>. QED BY <2>1 DEF TriedFit
<1>9. FailedAfterAllAttempts'
  BY <1>3 DEF DeliveryInv, FailedAfterAllAttempts
<1>. QED BY <1>5, <1>6, <1>7, <1>8, <1>9 DEF DeliveryInv

(* A delay that runs out moves no delivery. *)
LEMMA ComesDueKeeps ==
  ASSUME DeliveryInv, NEW i \in DOMAIN pending, ComesDue(i)
  PROVE  DeliveryInv'
<1>1. DeliveryTypeOK
  BY DEF DeliveryInv
<1>2. /\ pending' = [pending EXCEPT ![i].due = TRUE]
      /\ UNCHANGED <<subscription, emitting, wanted, batch, history, finished,
                     queued, lost, failedReads, stops>>
  BY DEF ComesDue
<1>3. pending \in Seq(Pending) /\ DOMAIN pending = 1..Len(pending) /\ pending[i] \in Pending
  BY <1>1 DEF DeliveryTypeOK
<1>. DEFINE q == [pending[i] EXCEPT !.due = TRUE]
<1>4. q \in Pending /\ q.of = pending[i].of /\ q.attempts = pending[i].attempts
  BY <1>3 DEF Pending
<1>5. pending' = [pending EXCEPT ![i] = q]
  BY <1>2
<1>. HIDE DEF q
<1>6. /\ pending' \in Seq(Pending) /\ Len(pending') = Len(pending)
      /\ DOMAIN pending' = DOMAIN pending
  BY <1>3, <1>4, <1>5
<1>7. \A j \in DOMAIN pending :
         /\ pending'[j].of = pending[j].of /\ pending'[j].attempts = pending[j].attempts
         /\ pending'[j] \in Pending /\ pending[j] \in Pending
  BY <1>3, <1>4, <1>5
<1>8. DeliveryTypeOK' /\ QueuedOnce' /\ FailedAfterAllAttempts'
  BY <1>1, <1>2, <1>6 DEF DeliveryTypeOK, DeliveryInv, QueuedOnce, FailedAfterAllAttempts
<1>9. OneRowPerDelivery'
  <2>1. ASSUME NEW d PROVE Copies(pending', d) = Copies(pending, d)
    <3>1. {j \in DOMAIN pending' : pending'[j].of = d}
            = {j \in DOMAIN pending : pending[j].of = d}
      BY <1>6, <1>7
    <3>. QED BY <3>1 DEF Copies
  <2>2. \A d : Copies(batch', d) = Copies(batch, d)
    BY <1>2
  <2>. QED BY <1>2, <2>1, <2>2 DEF DeliveryInv, OneRowPerDelivery
<1>10. TriedFit'
  <2>1. ASSUME NEW a PROVE Count(pending', Younger(a)) = Count(pending, Younger(a))
    <3>1. \A j \in DOMAIN pending : pending'[j] \in Younger(a) <=> pending[j] \in Younger(a)
      BY <1>7 DEF Younger
    <3>2. Len(pending) \in Nat
      BY <1>3
    <3>. QED BY <1>3, <1>6, <3>1, <3>2, AmongSame DEF Count
  <2>. QED BY <1>2, <2>1 DEF DeliveryInv, TriedFit
<1>. QED BY <1>8, <1>9, <1>10 DEF DeliveryInv

(* A delivery is due or it is not. *)
LEMMA DueIsFlag == \A p \in Pending : p.due \in BOOLEAN
BY DEF Pending

(* The worker takes all that is due out of the queue; each delivery stays in one place. *)
LEMMA TakeDueKeeps == DeliveryInv /\ TakeDue => DeliveryInv'
<1> SUFFICES ASSUME DeliveryInv, TakeDue PROVE DeliveryInv'
  OBVIOUS
<1>1. DeliveryTypeOK /\ pending \in Seq(Pending)
  BY DEF DeliveryInv, DeliveryTypeOK
<1>2. /\ batch = <<>> /\ batch' = Where(pending, TRUE) /\ pending' = Where(pending, FALSE)
      /\ UNCHANGED <<subscription, emitting, wanted, history, finished, queued,
                     lost, failedReads, stops>>
  BY DEF TakeDue, Later
<1>3. /\ pending' \in Seq(Pending) /\ batch' \in Seq(Pending)
      /\ \A S : Count(batch', S) + Count(pending', S) = Count(pending, S)
  BY <1>1, <1>2, DueIsFlag, WhereSplits
<1>4. DeliveryTypeOK' /\ QueuedOnce' /\ FailedAfterAllAttempts'
  BY <1>1, <1>2, <1>3 DEF DeliveryTypeOK, DeliveryInv, QueuedOnce, FailedAfterAllAttempts
<1>5. OneRowPerDelivery'
  <2>1. ASSUME NEW d \in Deliveries
        PROVE  Copies(pending', d) + Copies(batch', d) + finished'[d]
                 = IF d \in queued' \ lost' THEN 1 ELSE 0
    <3>1. Copies(pending, d) + Copies(batch, d) + finished[d]
            = IF d \in queued \ lost THEN 1 ELSE 0
      BY DEF DeliveryInv, OneRowPerDelivery
    <3>2. Copies(batch, d) = 0
      BY <1>2, NoCopies
    <3>3. Copies(batch', d) + Copies(pending', d) = Copies(pending, d)
      BY <1>1, <1>3, CopiesCounted
    <3>4. /\ Copies(batch', d) \in Nat /\ Copies(pending', d) \in Nat
          /\ Copies(pending, d) \in Nat /\ finished[d] \in Nat
      BY <1>1, <1>3, CopiesCounted DEF DeliveryTypeOK
    <3>5. finished' = finished /\ queued' = queued /\ lost' = lost
      BY <1>2
    <3>6. Copies(pending', d) + Copies(batch', d) + finished[d]
            = IF d \in queued \ lost THEN 1 ELSE 0
      BY <3>1, <3>2, <3>3, <3>4
    <3>. QED BY <3>5, <3>6
  <2>. QED BY <2>1 DEF OneRowPerDelivery
<1>6. TriedFit'
  <2>1. ASSUME NEW a \in Nat
        PROVE  /\ Count(batch', Younger(a)) <= a * MaxPending
               /\ Count(pending', Younger(a + 1)) + Count(batch', Younger(a))
                    <= (a + 1) * MaxPending
    <3>1. Count(batch, Younger(a)) = 0 /\ Count(batch, Younger(a)) \in Nat
      BY <1>2, CountEmpty
    <3>2. \A c \in Nat : /\ Count(pending', Younger(c)) \in Nat
                         /\ Count(batch', Younger(c)) \in Nat
                         /\ Count(pending, Younger(c)) \in Nat
                         /\ Count(batch', Younger(c)) + Count(pending', Younger(c))
                              = Count(pending, Younger(c))
      BY <1>1, <1>3, CountNat
    <3>3. Count(batch', Younger(a)) <= Count(batch', Younger(a + 1))
      <4>1. \A p : p \in Younger(a) => p \in Younger(a + 1)
        BY LimitsAssumption DEF Younger, Pending
      <4>. QED BY <1>3, <4>1, CountNat
    <3>4. Count(pending', Younger(a + 1)) + Count(batch', Younger(a)) <= (a + 1) * MaxPending
      <4>. DEFINE m1 == (a + 1) * MaxPending
      <4>1. Count(pending, Younger(a + 1)) + Count(batch, Younger(a)) <= m1
        BY DEF DeliveryInv, TriedFit
      <4>2. m1 \in Nat
        BY LimitsAssumption
      <4>3. a + 1 \in Nat
        OBVIOUS
      <4>. HIDE DEF m1
      <4>4. Count(pending', Younger(a + 1)) + Count(batch', Younger(a)) <= m1
        BY <3>1, <3>2, <3>3, <4>1, <4>2, <4>3
      <4>. QED BY <4>4 DEF m1
    <3>5. Count(batch', Younger(a)) <= a * MaxPending
      <4>1. CASE a = 0
        <5>1. \A p \in Pending : p \notin Younger(0)
          BY LimitsAssumption DEF Younger, Pending
        <5>2. \A i \in 1..Len(batch') : batch'[i] \in Younger(0) => batch'[i] \in {}
          BY <1>3, <5>1
        <5>3. Count(batch', Younger(0)) <= Count(batch', {})
          BY <1>3, <5>2, CountNat
        <5>4. Count(batch', {}) = 0
          BY FS_EmptySet DEF Count, Among
        <5>. QED BY <4>1, <5>3, <5>4, LimitsAssumption
      <4>2. CASE a # 0
        <5>. DEFINE c == a - 1
                    m == a * MaxPending
        <5>1. c \in Nat /\ c + 1 = a
          BY <4>2
        <5>. HIDE DEF c
        <5>2. Count(pending, Younger(c + 1)) + Count(batch, Younger(c)) <= (c + 1) * MaxPending
          BY <5>1 DEF DeliveryInv, TriedFit
        <5>3. Count(batch, Younger(c)) = 0
          BY <1>2, CountEmpty
        <5>4. m \in Nat /\ Count(pending, Younger(a)) + 0 <= m
          BY <5>1, <5>2, <5>3, LimitsAssumption
        <5>. HIDE DEF m
        <5>5. Count(batch', Younger(a)) <= m
          BY <3>2, <5>4
        <5>. QED BY <5>5 DEF m
      <4>. QED BY <4>1, <4>2
    <3>. QED BY <3>4, <3>5
  <2>. QED BY <2>1 DEF TriedFit
<1>. QED BY <1>4, <1>5, <1>6 DEF DeliveryInv

(* A restart empties the queue; what was in it is lost. *)
LEMMA RestartLoses == DeliveryInv /\ RestartQueue => DeliveryInv'
<1> SUFFICES ASSUME DeliveryInv, RestartQueue PROVE DeliveryInv'
  OBVIOUS
<1>1. DeliveryTypeOK /\ pending \in Seq(Pending) /\ batch \in Seq(Pending)
  BY DEF DeliveryInv, DeliveryTypeOK
<1>2. /\ lost' = lost \cup {pending[i].of : i \in DOMAIN pending}
                      \cup {batch[i].of : i \in DOMAIN batch}
      /\ pending' = <<>> /\ batch' = <<>> /\ history' = <<>>
      /\ emitting' = [e \in Events |-> IF emitting[e] = "read" THEN "over" ELSE emitting[e]]
      /\ wanted' = [e \in Events |-> {}]
      /\ stops' = stops + 1
      /\ UNCHANGED <<subscription, finished, queued, failedReads>>
  BY DEF RestartQueue
<1>3. ASSUME NEW list \in Seq(Pending), NEW i \in DOMAIN list
      PROVE  list[i].of \in Deliveries /\ Copies(list, list[i].of) >= 1
  <2>1. list[i] \in Pending
    OBVIOUS
  <2>. QED BY <2>1, CopyCounted DEF Pending
<1>4. ASSUME NEW d \in Deliveries
      PROVE  /\ Copies(pending, d) \in Nat /\ Copies(batch, d) \in Nat /\ finished[d] \in Nat
             /\ Copies(pending, d) + Copies(batch, d) + finished[d]
                  = IF d \in queued \ lost THEN 1 ELSE 0
  BY <1>1, CopiesCounted DEF DeliveryInv, OneRowPerDelivery, DeliveryTypeOK
<1>5. ASSUME NEW d \in Deliveries
      PROVE  /\ d \in lost' \ lost => d \in queued \ lost /\ finished[d] = 0
             /\ d \notin lost' => Copies(pending, d) = 0 /\ Copies(batch, d) = 0
  <2>1. ASSUME d \in lost' \ lost PROVE d \in queued \ lost /\ finished[d] = 0
    <3>1. Copies(pending, d) >= 1 \/ Copies(batch, d) >= 1
      BY <1>1, <1>2, <1>3, <2>1
    <3>. QED BY <1>4, <3>1
  <2>2. ASSUME NEW list \in Seq(Pending), \A i \in DOMAIN list : list[i].of # d
        PROVE  Copies(list, d) = 0
    <3>1. {i \in DOMAIN list : list[i].of = d} = {}
      BY <2>2
    <3>. QED BY <3>1, FS_EmptySet DEF Copies
  <2>3. ASSUME d \notin lost' PROVE Copies(pending, d) = 0 /\ Copies(batch, d) = 0
    <3>1. /\ \A i \in DOMAIN pending : pending[i].of # d
          /\ \A i \in DOMAIN batch : batch[i].of # d
      BY <1>2, <2>3
    <3>. QED BY <1>1, <2>2, <3>1
  <2>. QED BY <2>1, <2>3
<1>6. DeliveryTypeOK'
  <2>1. pending' \in Seq(Pending) /\ batch' \in Seq(Pending) /\ history' \in Seq(Finished)
    BY <1>2
  <2>2. lost' \subseteq Deliveries
    <3>1. \A i \in DOMAIN pending : pending[i].of \in Deliveries
      BY <1>1, <1>3
    <3>2. \A i \in DOMAIN batch : batch[i].of \in Deliveries
      BY <1>1, <1>3
    <3>. QED BY <1>1, <1>2, <3>1, <3>2 DEF DeliveryTypeOK
  <2>3. emitting' \in [Events -> {"waiting", "read", "over"}]
    BY <1>1, <1>2 DEF DeliveryTypeOK
  <2>4. wanted' \in [Events -> SUBSET Subscriptions] /\ stops' \in Nat
    BY <1>1, <1>2 DEF DeliveryTypeOK
  <2>. QED BY <1>1, <1>2, <2>1, <2>2, <2>3, <2>4 DEF DeliveryTypeOK
<1>7. QueuedOnce'
  <2>1. lost' \subseteq queued
    BY <1>5, <1>6 DEF DeliveryInv, QueuedOnce, DeliveryTypeOK
  <2>2. \A d \in queued : d[1] \in Events
    BY <1>1 DEF DeliveryTypeOK, Deliveries
  <2>3. \A d \in queued : emitting'[d[1]] = "over"
    BY <1>2, <2>2 DEF DeliveryInv, QueuedOnce
  <2>. QED BY <1>2, <2>1, <2>3 DEF QueuedOnce
<1>8. OneRowPerDelivery'
  <2>1. ASSUME NEW d \in Deliveries
        PROVE  Copies(pending', d) + Copies(batch', d) + finished'[d]
                 = IF d \in queued' \ lost' THEN 1 ELSE 0
    <3>1. Copies(pending', d) = 0 /\ Copies(batch', d) = 0
      BY <1>2, NoCopies
    <3>2. finished' = finished /\ queued' = queued /\ lost \subseteq lost'
      BY <1>2
    <3>3. finished[d] = IF d \in queued \ lost' THEN 1 ELSE 0
      <4>1. CASE d \in lost'
        BY <1>4, <1>5, <4>1
      <4>2. CASE d \notin lost'
        BY <1>4, <1>5, <3>2, <4>2
      <4>. QED BY <4>1, <4>2
    <3>. QED BY <1>4, <3>1, <3>2, <3>3
  <2>. QED BY <2>1 DEF OneRowPerDelivery
<1>9. TriedFit'
  <2>1. ASSUME NEW S PROVE Count(pending', S) = 0 /\ Count(batch', S) = 0
    BY <1>2, CountEmpty
  <2>2. ASSUME NEW a \in Nat PROVE 0 <= a * MaxPending /\ 0 <= (a + 1) * MaxPending
    BY LimitsAssumption
  <2>. QED BY <2>1, <2>2 DEF TriedFit
<1>10. FailedAfterAllAttempts'
  BY <1>2 DEF FailedAfterAllAttempts
<1>. QED BY <1>6, <1>7, <1>8, <1>9, <1>10 DEF DeliveryInv

(* What becomes of a delivery that was attempted: it waits as p, or it ended as h. *)
WaitsAs(d, p) ==
    /\ p.of = d.of /\ p.attempts = d.attempts + 1
    /\ pending' = Append(pending, p)
    /\ UNCHANGED <<history, finished>>

EndedAs(d, h) ==
    /\ h.of = d.of /\ h.attempts <= MaxAttempts
    /\ h.status = "failed" => h.attempts = MaxAttempts
    /\ \E kept \in {history, Tail(history)} :
          /\ kept = history \/ history # <<>>
          /\ history' = Append(kept, h)
    /\ finished' = [finished EXCEPT ![d.of] = @ + 1]
    /\ UNCHANGED pending

(* A finished delivery is kept in the history, with as many attempts as it had. *)
LEMMA FinishEnds ==
  ASSUME DeliveryTypeOK, NEW d \in Pending, NEW status \in {"delivered", "failed"},
         FinishDelivery(d, d.attempts + 1, status), UNCHANGED pending,
         status = "failed" => ~Retried(d.attempts + 1)
  PROVE  \E h \in Finished : EndedAs(d, h)
<1>. DEFINE h == [of |-> d.of, attempts |-> d.attempts + 1, status |-> status]
            kept == IF Len(history) = HistoryLimit THEN Tail(history) ELSE history
<1>1. d.of \in Deliveries /\ d.attempts \in 0..(MaxAttempts - 1)
  BY DEF Pending
<1>2. d.attempts + 1 \in Nat /\ d.attempts + 1 <= MaxAttempts
  BY <1>1, LimitsAssumption
<1>3. h \in Finished
  BY <1>1, <1>2 DEF Finished
<1>4. h.of = d.of /\ h.attempts = d.attempts + 1 /\ h.status = status
  OBVIOUS
<1>5. history' = Append(kept, h) /\ finished' = [finished EXCEPT ![d.of] = @ + 1]
  BY DEF FinishDelivery
<1>6. kept \in {history, Tail(history)} /\ (kept = history \/ history # <<>>)
  BY LimitsAssumption
<1>7. status = "failed" => d.attempts + 1 = MaxAttempts
  BY <1>2, LimitsAssumption DEF Retried
<1>. HIDE DEF h, kept
<1>8. EndedAs(d, h)
  BY <1>2, <1>4, <1>5, <1>6, <1>7 DEF EndedAs
<1>. QED BY <1>3, <1>8

(* An attempt takes the first delivery of the batch, and it ends or waits again. *)
LEMMA AttemptEnds ==
  ASSUME DeliveryTypeOK, NEW answer \in {"accepted", "refused"}, Attempt(answer)
  PROVE  /\ Head(batch) \in Pending /\ batch # <<>> /\ batch' = Tail(batch)
         /\ UNCHANGED <<subscription, emitting, wanted, queued, lost, failedReads, stops>>
         /\ \/ \E p \in Pending : WaitsAs(Head(batch), p)
            \/ \E h \in Finished : EndedAs(Head(batch), h)
<1>. DEFINE d == Head(batch)
            n == d.attempts + 1
<1>1. /\ batch # <<>> /\ batch' = Tail(batch)
      /\ UNCHANGED <<subscription, emitting, wanted, queued, lost, failedReads, stops>>
      /\ \/ answer = "accepted" /\ FinishDelivery(d, n, "delivered") /\ UNCHANGED pending
         \/ /\ answer = "refused" /\ Retried(n)
            /\ pending' = Append(pending, [d EXCEPT !.attempts = n, !.due = FALSE])
            /\ UNCHANGED <<history, finished>>
         \/ /\ answer = "refused" /\ ~Retried(n)
            /\ FinishDelivery(d, n, "failed") /\ UNCHANGED pending
  BY DEF Attempt, Requeued
<1>2. batch \in Seq(Pending)
  BY DEF DeliveryTypeOK
<1>3. d \in Pending
  BY <1>1, <1>2
<1>. HIDE DEF d
<1>4. CASE answer = "accepted" /\ FinishDelivery(d, n, "delivered") /\ UNCHANGED pending
  <2>1. "delivered" = "failed" => ~Retried(d.attempts + 1)
    OBVIOUS
  <2>2. \E h \in Finished : EndedAs(d, h)
    BY <1>3, <1>4, <2>1, FinishEnds
  <2>. QED BY <1>1, <1>3, <2>2 DEF d
<1>5. CASE /\ answer = "refused" /\ ~Retried(n)
           /\ FinishDelivery(d, n, "failed") /\ UNCHANGED pending
  <2>1. \E h \in Finished : EndedAs(d, h)
    BY <1>3, <1>5, FinishEnds
  <2>. QED BY <1>1, <1>3, <2>1 DEF d
<1>6. CASE /\ answer = "refused" /\ Retried(n)
           /\ pending' = Append(pending, [d EXCEPT !.attempts = n, !.due = FALSE])
           /\ UNCHANGED <<history, finished>>
  <2>. DEFINE p == [d EXCEPT !.attempts = n, !.due = FALSE]
  <2>1. d.attempts \in 0..(MaxAttempts - 1)
    BY <1>3 DEF Pending
  <2>2. n \in 0..(MaxAttempts - 1)
    BY <1>6, <2>1, LimitsAssumption DEF Retried
  <2>3. p \in Pending /\ p.of = d.of /\ p.attempts = n
    <3>. HIDE DEF n
    <3>. QED BY <1>3, <2>2 DEF Pending
  <2>4. pending' = Append(pending, p)
    BY <1>6
  <2>. HIDE DEF p
  <2>5. WaitsAs(d, p)
    BY <1>6, <2>3, <2>4 DEF WaitsAs
  <2>. QED BY <1>1, <1>3, <2>3, <2>5 DEF d
<1>7. \/ answer = "accepted" /\ FinishDelivery(d, n, "delivered") /\ UNCHANGED pending
      \/ /\ answer = "refused" /\ Retried(n)
         /\ pending' = Append(pending, [d EXCEPT !.attempts = n, !.due = FALSE])
         /\ UNCHANGED <<history, finished>>
      \/ /\ answer = "refused" /\ ~Retried(n)
         /\ FinishDelivery(d, n, "failed") /\ UNCHANGED pending
  BY <1>1 DEF d
<1>. QED BY <1>4, <1>5, <1>6, <1>7

(* An attempt takes one delivery out of the batch: it ends, or waits one attempt older. *)
LEMMA AttemptKeeps ==
  ASSUME DeliveryInv, NEW answer \in {"accepted", "refused"}, Attempt(answer)
  PROVE  DeliveryInv'
<1>. DEFINE d == Head(batch)
<1>1. /\ DeliveryTypeOK /\ pending \in Seq(Pending) /\ batch \in Seq(Pending)
      /\ history \in Seq(Finished)
  BY DEF DeliveryInv, DeliveryTypeOK
<1>2. /\ d \in Pending /\ batch # <<>> /\ batch' = Tail(batch)
      /\ UNCHANGED <<subscription, emitting, wanted, queued, lost, failedReads, stops>>
      /\ \/ \E p \in Pending : WaitsAs(d, p)
         \/ \E h \in Finished : EndedAs(d, h)
  BY <1>1, AttemptEnds
<1>3. /\ batch' \in Seq(Pending)
      /\ \A S : Count(batch, S) = Count(batch', S) + (IF d \in S THEN 1 ELSE 0)
  <2>1. Tail(batch) \in Seq(Pending)
    BY <1>1, <1>2
  <2>2. ASSUME NEW S
        PROVE  Count(batch, S) = Count(Tail(batch), S) + (IF d \in S THEN 1 ELSE 0)
    BY <1>1, <1>2, CountTail
  <2>. QED BY <1>2, <2>1, <2>2
<1>. HIDE DEF d
<1>4. QueuedOnce'
  BY <1>2 DEF DeliveryInv, QueuedOnce
<1>5. ASSUME NEW x \in Deliveries
      PROVE  /\ Copies(pending, x) \in Nat /\ Copies(batch', x) \in Nat /\ finished[x] \in Nat
             /\ Copies(batch, x) = Copies(batch', x) + (IF d.of = x THEN 1 ELSE 0)
             /\ Copies(pending, x) + Copies(batch, x) + finished[x]
                  = IF x \in queued \ lost THEN 1 ELSE 0
  <2>1. Copies(batch, x) = Copies(batch', x) + (IF d \in Of(x) THEN 1 ELSE 0)
    BY <1>1, <1>3, CopiesCounted
  <2>2. d \in Of(x) <=> d.of = x
    BY <1>2 DEF Of
  <2>3. Copies(pending, x) \in Nat /\ Copies(batch', x) \in Nat
    BY <1>1, <1>3, CopiesCounted
  <2>. QED BY <1>1, <2>1, <2>2, <2>3 DEF DeliveryInv, OneRowPerDelivery, DeliveryTypeOK
<1>6. ASSUME NEW a \in Nat
      PROVE  /\ Count(batch', Younger(a)) \in Nat /\ Count(batch', Younger(a)) <= a * MaxPending
             /\ Count(pending, Younger(a + 1)) \in Nat
             /\ Count(pending, Younger(a + 1)) + Count(batch', Younger(a))
                  + (IF d.attempts < a THEN 1 ELSE 0) <= (a + 1) * MaxPending
             /\ (a + 1) * MaxPending \in Nat
  <2>. DEFINE m == a * MaxPending
              m1 == (a + 1) * MaxPending
  <2>1. d \in Younger(a) <=> d.attempts < a
    BY <1>2 DEF Younger
  <2>2. Count(batch, Younger(a)) = Count(batch', Younger(a)) + (IF d.attempts < a THEN 1 ELSE 0)
    BY <1>3, <2>1
  <2>3. Count(batch', Younger(a)) \in Nat /\ Count(pending, Younger(a + 1)) \in Nat
    BY <1>1, <1>3, CountNat
  <2>4. /\ Count(batch, Younger(a)) <= m
        /\ Count(pending, Younger(a + 1)) + Count(batch, Younger(a)) <= m1
    BY DEF DeliveryInv, TriedFit
  <2>5. m \in Nat /\ m1 \in Nat
    BY LimitsAssumption
  <2>. HIDE DEF m, m1
  <2>6. /\ Count(batch', Younger(a)) <= m
        /\ Count(pending, Younger(a + 1)) + Count(batch', Younger(a))
             + (IF d.attempts < a THEN 1 ELSE 0) <= m1
    BY <2>2, <2>3, <2>4, <2>5
  <2>. QED BY <2>3, <2>5, <2>6 DEF m, m1
<1>7. ASSUME NEW p \in Pending, WaitsAs(d, p) PROVE DeliveryInv'
  <2>1. /\ p.of = d.of /\ p.attempts = d.attempts + 1
        /\ pending' = Append(pending, p) /\ history' = history /\ finished' = finished
    BY <1>7 DEF WaitsAs
  <2>2. pending' \in Seq(Pending)
    BY <1>1, <2>1
  <2>3. DeliveryTypeOK' /\ FailedAfterAllAttempts'
    BY <1>1, <1>2, <1>3, <2>1, <2>2 DEF DeliveryTypeOK, DeliveryInv, FailedAfterAllAttempts
  <2>4. ASSUME NEW S PROVE Count(pending', S) = Count(pending, S) + (IF p \in S THEN 1 ELSE 0)
    BY <1>1, <2>1, CountAppend
  <2>5. OneRowPerDelivery'
    <3>1. ASSUME NEW x \in Deliveries
          PROVE  Copies(pending', x) + Copies(batch', x) + finished'[x]
                   = IF x \in queued' \ lost' THEN 1 ELSE 0
      <4>1. p \in Of(x) <=> d.of = x
        BY <2>1 DEF Of
      <4>2. Copies(pending', x) = Copies(pending, x) + (IF d.of = x THEN 1 ELSE 0)
        BY <1>1, <2>2, <2>4, <4>1, CopiesCounted
      <4>3. Copies(pending', x) + Copies(batch', x) + finished[x]
              = IF x \in queued \ lost THEN 1 ELSE 0
        BY <1>5, <4>2
      <4>. QED BY <1>2, <2>1, <4>3
    <3>. QED BY <3>1 DEF OneRowPerDelivery
  <2>6. TriedFit'
    <3>1. ASSUME NEW a \in Nat
          PROVE  /\ Count(batch', Younger(a)) <= a * MaxPending
                 /\ Count(pending', Younger(a + 1)) + Count(batch', Younger(a))
                      <= (a + 1) * MaxPending
      <4>. DEFINE m1 == (a + 1) * MaxPending
      <4>1. p \in Younger(a + 1) <=> d.attempts < a
        <5>1. d.attempts \in Nat
          BY <1>2, LimitsAssumption DEF Pending
        <5>. QED BY <2>1, <5>1 DEF Younger
      <4>2. Count(pending', Younger(a + 1))
              = Count(pending, Younger(a + 1)) + (IF d.attempts < a THEN 1 ELSE 0)
        BY <2>4, <4>1
      <4>3. /\ Count(batch', Younger(a)) \in Nat /\ Count(pending, Younger(a + 1)) \in Nat
            /\ Count(pending, Younger(a + 1)) + Count(batch', Younger(a))
                 + (IF d.attempts < a THEN 1 ELSE 0) <= m1
            /\ m1 \in Nat
        BY <1>6
      <4>. HIDE DEF m1
      <4>4. Count(pending', Younger(a + 1)) + Count(batch', Younger(a)) <= m1
        BY <4>2, <4>3
      <4>. QED BY <1>6, <4>4 DEF m1
    <3>. QED BY <3>1 DEF TriedFit
  <2>. QED BY <1>4, <2>3, <2>5, <2>6 DEF DeliveryInv
<1>8. ASSUME NEW h \in Finished, EndedAs(d, h) PROVE DeliveryInv'
  <2>1. /\ h.of = d.of /\ h.attempts <= MaxAttempts
        /\ h.status = "failed" => h.attempts = MaxAttempts
        /\ finished' = [finished EXCEPT ![d.of] = @ + 1]
        /\ pending' = pending
    BY <1>8 DEF EndedAs
  <2>2. PICK kept \in {history, Tail(history)} :
           /\ kept = history \/ history # <<>>
           /\ history' = Append(kept, h)
    BY <1>8 DEF EndedAs
  <2>3. /\ kept \in Seq(Finished)
        /\ \A i \in DOMAIN kept : \E j \in DOMAIN history : kept[i] = history[j]
    <3>1. CASE kept = history
      BY <1>1, <3>1
    <3>2. CASE kept = Tail(history) /\ history # <<>>
      <4>1. /\ Tail(history) \in Seq(Finished)
            /\ \A i \in DOMAIN Tail(history) :
                  i + 1 \in DOMAIN history /\ Tail(history)[i] = history[i + 1]
        BY <1>1, <3>2
      <4>. QED BY <3>2, <4>1
    <3>. QED BY <2>2, <3>1, <3>2
  <2>4. d.of \in Deliveries
    BY <1>2 DEF Pending
  <2>5. DeliveryTypeOK'
    <3>1. history' \in Seq(Finished)
      BY <2>2, <2>3
    <3>2. finished' \in [Deliveries -> Nat]
      BY <1>1, <2>1, <2>4 DEF DeliveryTypeOK
    <3>. QED BY <1>1, <1>2, <1>3, <2>1, <3>1, <3>2 DEF DeliveryTypeOK
  <2>6. FailedAfterAllAttempts'
    <3>1. ASSUME NEW i \in DOMAIN history'
          PROVE  /\ history'[i].attempts <= MaxAttempts
                 /\ history'[i].status = "failed" => history'[i].attempts = MaxAttempts
      <4>1. history'[i] = h \/ \E j \in DOMAIN history : history'[i] = history[j]
        <5>1. i = Len(kept) + 1 \/ i \in DOMAIN kept
          BY <2>2, <2>3
        <5>2. i = Len(kept) + 1 => history'[i] = h
          BY <2>2, <2>3
        <5>3. i \in DOMAIN kept => history'[i] = kept[i]
          BY <2>2, <2>3
        <5>. QED BY <2>3, <5>1, <5>2, <5>3
      <4>. QED BY <2>1, <4>1 DEF DeliveryInv, FailedAfterAllAttempts
    <3>. QED BY <3>1 DEF FailedAfterAllAttempts
  <2>7. OneRowPerDelivery'
    <3>1. ASSUME NEW x \in Deliveries
          PROVE  Copies(pending', x) + Copies(batch', x) + finished'[x]
                   = IF x \in queued' \ lost' THEN 1 ELSE 0
      <4>1. finished'[x] = finished[x] + (IF d.of = x THEN 1 ELSE 0)
        BY <1>1, <1>5, <2>1, <2>4 DEF DeliveryTypeOK
      <4>2. Copies(pending, x) + Copies(batch', x) + finished'[x]
              = IF x \in queued \ lost THEN 1 ELSE 0
        BY <1>5, <4>1
      <4>. QED BY <1>2, <2>1, <4>2
    <3>. QED BY <3>1 DEF OneRowPerDelivery
  <2>8. TriedFit'
    <3>1. ASSUME NEW a \in Nat
          PROVE  Count(pending, Younger(a + 1)) + Count(batch', Younger(a))
                   <= (a + 1) * MaxPending
      <4>. DEFINE m1 == (a + 1) * MaxPending
      <4>1. /\ Count(batch', Younger(a)) \in Nat /\ Count(pending, Younger(a + 1)) \in Nat
            /\ Count(pending, Younger(a + 1)) + Count(batch', Younger(a))
                 + (IF d.attempts < a THEN 1 ELSE 0) <= m1
            /\ m1 \in Nat
        BY <1>6
      <4>. HIDE DEF m1
      <4>2. Count(pending, Younger(a + 1)) + Count(batch', Younger(a)) <= m1
        BY <4>1
      <4>. QED BY <4>2 DEF m1
    <3>. QED BY <1>6, <2>1, <3>1 DEF TriedFit
  <2>. QED BY <1>4, <2>5, <2>6, <2>7, <2>8 DEF DeliveryInv
<1>. QED BY <1>2, <1>7, <1>8

(* So every step of the queue keeps the invariant. *)
LEMMA DeliveryKept == DeliveryInv /\ [NextDelivery]_deliveryVars => DeliveryInv'
<1> SUFFICES ASSUME DeliveryInv, [NextDelivery]_deliveryVars PROVE DeliveryInv'
  OBVIOUS
<1>1. CASE Quiet
  BY <1>1, QuietKeeps
<1>2. ASSUME NEW e \in Events, EmitQueues(e) PROVE DeliveryInv'
  BY <1>2, EmitQueuesKeeps
<1>3. ASSUME NEW i \in DOMAIN pending, ComesDue(i) PROVE DeliveryInv'
  BY <1>3, ComesDueKeeps
<1>4. CASE TakeDue
  BY <1>4, TakeDueKeeps
<1>5. ASSUME NEW answer \in {"accepted", "refused"}, Attempt(answer) PROVE DeliveryInv'
  BY <1>5, AttemptKeeps
<1>6. CASE RestartQueue
  BY <1>6, RestartLoses
<1>7. CASE UNCHANGED deliveryVars
  BY <1>7 DEF deliveryVars, queue, DeliveryInv, DeliveryTypeOK, QueuedOnce, OneRowPerDelivery,
              TriedFit, FailedAfterAllAttempts, Copies, Count, Among
<1>. QED BY <1>1, <1>2, <1>3, <1>4, <1>5, <1>6, <1>7 DEF NextDelivery, Deliver, Quiet

(* What TriedFit says of all deliveries: each was tried less than MAX_ATTEMPTS times. *)
LEMMA FitsWaiting == DeliveryInv => WaitingBounded
<1> SUFFICES ASSUME DeliveryInv PROVE WaitingBounded
  OBVIOUS
<1>. DEFINE a == MaxAttempts - 1
            m == MaxAttempts * MaxPending
            m1 == (MaxAttempts + 1) * MaxPending
<1>1. pending \in Seq(Pending) /\ batch \in Seq(Pending)
  BY DEF DeliveryInv, DeliveryTypeOK
<1>2. a \in Nat /\ MaxAttempts \in Nat /\ a + 1 = MaxAttempts
  BY LimitsAssumption
<1>3. ASSUME NEW list \in Seq(Pending), NEW b \in Nat, MaxAttempts <= b
      PROVE  Count(list, Younger(b)) = Len(list)
  <2>1. \A i \in 1..Len(list) : list[i] \in Younger(b)
    <3>1. \A p \in Pending : p \in Younger(b)
      BY <1>2, <1>3 DEF Younger, Pending
    <3>2. \A i \in 1..Len(list) : list[i] \in Pending
      OBVIOUS
    <3>. QED BY <3>1, <3>2
  <2>. QED BY <2>1, CountNat
<1>4. Len(pending) + Count(batch, Younger(a)) <= m /\ Count(batch, Younger(a)) \in Nat
  <2>. HIDE DEF a, m
  <2>1. Count(pending, Younger(a + 1)) + Count(batch, Younger(a)) <= (a + 1) * MaxPending
    BY <1>2 DEF DeliveryInv, TriedFit
  <2>2. Count(pending, Younger(a + 1)) = Len(pending)
    BY <1>1, <1>2, <1>3
  <2>3. Count(batch, Younger(a)) \in Nat
    BY <1>1, CountNat
  <2>. QED BY <1>2, <2>1, <2>2, <2>3 DEF m
<1>5. Len(pending) + Len(batch) <= m1
  <2>1. Count(pending, Younger(MaxAttempts + 1)) + Count(batch, Younger(MaxAttempts)) <= m1
    BY <1>2 DEF DeliveryInv, TriedFit
  <2>2. Count(pending, Younger(MaxAttempts + 1)) = Len(pending)
    BY <1>1, <1>2, <1>3
  <2>3. Count(batch, Younger(MaxAttempts)) = Len(batch)
    BY <1>1, <1>2, <1>3
  <2>. HIDE DEF m1
  <2>. QED BY <2>1, <2>2, <2>3
<1>6. m \in Nat /\ m1 \in Nat /\ Len(pending) \in Nat
  BY <1>1, LimitsAssumption
<1>7. Len(pending) <= m
  <2>. HIDE DEF m, a
  <2>. QED BY <1>4, <1>6
<1>. QED BY <1>5, <1>7 DEF WaitingBounded

(* The subscriptions, the emits and the queue hold values of their kinds. *)
THEOREM DeliveriesTyped == DeliverySpec => []DeliveryTypeOK
<1>1. DeliveryInv => DeliveryTypeOK
  BY DEF DeliveryInv
<1>. QED BY DeliveryInit, DeliveryKept, <1>1, PTL DEF DeliverySpec

(* One event gets one delivery on one subscription, whatever the outcome: it waits, is being
   attempted or was finished once, and only a stop of the server loses it. *)
THEOREM OneRow == DeliverySpec => []OneRowPerDelivery
<1>1. DeliveryInv => OneRowPerDelivery
  BY DEF DeliveryInv
<1>. QED BY DeliveryInit, DeliveryKept, <1>1, PTL DEF DeliverySpec

(* A delivery is given up after MAX_ATTEMPTS attempts and none is posted more often. *)
THEOREM AllAttemptsMade == DeliverySpec => []FailedAfterAllAttempts
<1>1. DeliveryInv => FailedAfterAllAttempts
  BY DEF DeliveryInv
<1>. QED BY DeliveryInit, DeliveryKept, <1>1, PTL DEF DeliverySpec

(* However retries, emits and the worker interleave, no more than MAX_ATTEMPTS caps wait, and
   one cap more with the deliveries under way. *)
THEOREM QueueBounded == DeliverySpec => []WaitingBounded
BY DeliveryInit, DeliveryKept, FitsWaiting, PTL DEF DeliverySpec

-----------------------------------------------------------------------------
(* The builds of vector tilesets *)

(* The worker is at work on a row that was claimed while it was building, and *)
(* that nothing but its delete has changed since. *)
AtWork ==
    /\ step = "idle" <=> current = NoTileset
    /\ step # "idle" => row[current] \in {"building", "deleted"}
    /\ step = "undo" => row[current] = "deleted"

(* The token is there while the archive is built and registered. *)
SlotHeld ==
    step \in {"idle", "take", "scratch", "discard", "finish", "undo"} =>
        slot = NoTileset /\ ~killed

(* What a successful build has written stays until a delete takes it away. *)
BuiltIsThere ==
    /\ step \in {"discard", "finish"} /\ built => step = "finish"
    /\ step \in {"scratch", "finish"} /\ built =>
           \/ row[current] = "deleted" \/ deleter[current] # "idle" \/ current \in mishap
           \/ current \in archive /\ current \in source

Free(t) == current # t /\ t \notin raced /\ t \notin mishap

(* What a delete has removed stays removed, unless a build is at work on it. *)
RemovedStays ==
    \A t \in Tilesets : Free(t) =>
        /\ deleter[t] \in {"archive", "scratch", "row"} => t \notin source
        /\ deleter[t] \in {"scratch", "row"} => t \notin archive
        /\ row[t] = "deleted" => t \notin archive /\ t \notin source

BuildInv ==
    /\ TypeOK /\ AtWork /\ SlotHeld /\ BuiltIsThere /\ RemovedStays
    /\ ReadyIsServed /\ KilledOnlyDeleted

(* Before anything happens there is nothing to serve. *)
LEMMA BuildInit == Init => BuildInv
<1> SUFFICES ASSUME Init PROVE BuildInv
  OBVIOUS
<1> USE DEF Init
<1>1. TypeOK
  <2>1. row \in [Tilesets -> Rows] /\ deleter \in [Tilesets -> DeleteSteps]
    BY DEF Rows, DeleteSteps
  <2>2. step \in Steps /\ faults \in Nat /\ crashes \in Nat
    BY DEF Steps
  <2>3. QED
    BY <2>1, <2>2 DEF TypeOK
<1>2. AtWork /\ SlotHeld /\ BuiltIsThere /\ KilledOnlyDeleted
  BY DEF AtWork, SlotHeld, BuiltIsThere, KilledOnlyDeleted
<1>3. RemovedStays /\ ReadyIsServed
  BY DEF RemovedStays, ReadyIsServed
<1>4. QED
  BY <1>1, <1>2, <1>3 DEF BuildInv

(* A statement works or fails. *)
LEMMA FaultsCounted ==
    ASSUME TypeOK, Works \/ Fails
    PROVE  faults' \in Nat
BY DEF TypeOK, Works, Fails

(* The upload and delete routes, which act between any two awaits of a build. *)
RouteStep(t) == Receive(t) \/ Store(t) \/ DeleteBegins(t) \/ DeleteFiles(t) \/ DeleteRow(t)

(* The routes keep the invariant. *)
LEMMA BuildRouteKeeps ==
    ASSUME BuildInv, NEW t \in Tilesets, RouteStep(t)
    PROVE  BuildInv'
<1> USE IdsAssumption
        DEF RouteStep, Receive, Store, DeleteBegins, DeleteFiles, DeleteRow, Works, Fails,
            Cancels, HasRow, disk, worker, ghosts, BuildInv, TypeOK
<1>1. TypeOK'
  <2>1. row' \in [Tilesets -> Rows]
    BY DEF Rows
  <2>2. deleter' \in [Tilesets -> DeleteSteps]
    BY DEF DeleteSteps
  <2>3. faults' \in Nat
    BY FaultsCounted
  <2>4. /\ claimed' \subseteq Tilesets /\ input' \subseteq Tilesets
        /\ archive' \subseteq Tilesets /\ source' \subseteq Tilesets
        /\ raced' \subseteq Tilesets /\ mishap' \subseteq Tilesets
    OBVIOUS
  <2>5. killed' \in BOOLEAN /\ UNCHANGED <<step, current, built, slot, crashes>>
    OBVIOUS
  <2>6. QED
    BY <2>1, <2>2, <2>3, <2>4, <2>5
<1>2. AtWork' /\ SlotHeld'
  BY DEF AtWork, SlotHeld
<1>3. BuiltIsThere'
  BY DEF AtWork, BuiltIsThere
<1>4. RemovedStays'
  BY DEF RemovedStays, Free
<1>5. ReadyIsServed'
  BY DEF ReadyIsServed
<1>6. KilledOnlyDeleted'
  BY DEF AtWork, SlotHeld, KilledOnlyDeleted
<1>7. QED
  BY <1>1, <1>2, <1>3, <1>4, <1>5, <1>6

(* The steps of a build. *)
LEMMA BuildWorkerKeeps == BuildInv /\ WorkerStep => BuildInv'
<1> SUFFICES ASSUME BuildInv, WorkerStep PROVE BuildInv'
  OBVIOUS
<1> USE IdsAssumption
        DEF WorkerStep, Claim, Unclaimed, Take, Prepare, Tippecanoe, Outcome, Register,
            RemoveScratch, Discard, Finish, RowGone, Rest, Undo, Works, Fails,
            HasRow, disk, worker, ghosts, BuildInv, TypeOK
<1>1. TypeOK'
  <2>1. row' \in [Tilesets -> Rows]
    BY DEF Rows
  <2>2. deleter' \in [Tilesets -> DeleteSteps]
    BY DEF DeleteSteps
  <2>3. faults' \in Nat
    BY FaultsCounted
  <2>4. /\ claimed' \subseteq Tilesets /\ input' \subseteq Tilesets
        /\ archive' \subseteq Tilesets /\ source' \subseteq Tilesets
        /\ raced' \subseteq Tilesets /\ mishap' \subseteq Tilesets
    OBVIOUS
  <2>5. /\ step' \in Steps
        /\ current' \in Tilesets \cup {NoTileset}
        /\ step' # "idle" => current' \in Tilesets
    BY DEF Steps
  <2>6. built' \in BOOLEAN /\ killed' \in BOOLEAN /\ UNCHANGED crashes
    OBVIOUS
  <2>7. slot' \in {current', NoTileset}
    BY DEF AtWork, SlotHeld
  <2>8. QED
    BY <2>1, <2>2, <2>3, <2>4, <2>5, <2>6, <2>7
<1>2. AtWork' /\ SlotHeld'
  BY DEF AtWork, SlotHeld
<1>3. BuiltIsThere'
  BY DEF AtWork, BuiltIsThere
<1>4. RemovedStays'
  BY DEF AtWork, RemovedStays, Free
<1>5. ReadyIsServed'
  BY DEF AtWork, BuiltIsThere, ReadyIsServed
<1>6. KilledOnlyDeleted'
  BY DEF AtWork, SlotHeld, KilledOnlyDeleted
<1>7. QED
  BY <1>1, <1>2, <1>3, <1>4, <1>5, <1>6

(* A start registers what is ready and ends everything that was at work. *)
LEMMA BuildRestartKeeps == BuildInv /\ Restart => BuildInv'
<1> SUFFICES ASSUME BuildInv, Restart PROVE BuildInv'
  OBVIOUS
<1> USE IdsAssumption, BoundsAssumption
        DEF Restart, Registered, ClaimsAtStart, Rest, HasRow, disk, BuildInv, TypeOK
<1>1. TypeOK'
  <2>1. row' \in [Tilesets -> Rows]
    BY DEF Rows
  <2>2. deleter' \in [Tilesets -> DeleteSteps]
    BY DEF DeleteSteps
  <2>3. crashes' \in Nat
    OBVIOUS
  <2>4. /\ claimed' \subseteq Tilesets /\ source' \subseteq Tilesets
        /\ mishap' \subseteq Tilesets
    OBVIOUS
  <2>5. /\ step' \in Steps /\ current' = NoTileset /\ step' = "idle"
        /\ built' \in BOOLEAN /\ killed' \in BOOLEAN /\ slot' = NoTileset
        /\ UNCHANGED <<input, archive, raced, faults>>
    BY DEF Steps
  <2>6. QED
    BY <2>1, <2>2, <2>3, <2>4, <2>5
<1>2. AtWork' /\ SlotHeld' /\ BuiltIsThere' /\ KilledOnlyDeleted'
  BY DEF AtWork, SlotHeld, BuiltIsThere, KilledOnlyDeleted
<1>3. RemovedStays'
  BY DEF AtWork, RemovedStays, Free
<1>4. ReadyIsServed'
  BY DEF ReadyIsServed
<1>5. QED
  BY <1>1, <1>2, <1>3, <1>4

(* So every step of the system keeps the invariant. *)
LEMMA BuildKept == BuildInv /\ [Next]_vars => BuildInv'
<1>1. BuildInv /\ UNCHANGED vars => BuildInv'
  BY DEF vars, disk, worker, ghosts, BuildInv, TypeOK, AtWork, SlotHeld, BuiltIsThere,
         RemovedStays, Free, ReadyIsServed, KilledOnlyDeleted, HasRow
<1>2. QED
  BY <1>1, BuildRouteKeeps, BuildWorkerKeeps, BuildRestartKeeps DEF Next, RouteStep

(* A ready tileset has its archive on disk and registered, unless a delete of *)
(* it is under way or failed. *)
THEOREM ReadyServed == Spec => []ReadyIsServed
<1>1. BuildInv => ReadyIsServed
  BY DEF BuildInv
<1>2. QED
  BY BuildInit, BuildKept, <1>1, PTL DEF Spec

(* A delete kills the build of its own tileset and no other. *)
THEOREM OnlyDeletedKilled == Spec => []KilledOnlyDeleted
<1>1. BuildInv => KilledOnlyDeleted
  BY DEF BuildInv
<1>2. QED
  BY BuildInit, BuildKept, <1>1, PTL DEF Spec

(* What a build writes after its row was deleted it removes itself. *)
THEOREM DeletedUndone == Spec => []DeletedBuildIsUndone
<1>1. BuildInv => DeletedBuildIsUndone
  BY DEF BuildInv, RemovedStays, Free, DeletedBuildIsUndone
<1>2. QED
  BY BuildInit, BuildKept, <1>1, PTL DEF Spec

=============================================================================
