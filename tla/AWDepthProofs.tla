---------------------------- MODULE AWDepthProofs ----------------------------
(***************************************************************************)
(* Proofs about AWDepth, for every book, every key and any number of       *)
(* clients: a client that is sent only what changed has the depth that the *)
(* worker got last.                                                        *)
(*                                                                         *)
(* The heart of it is DiffIsExact: what get_list_diff leaves out, because  *)
(* the list is full and the level would be cut, the client cuts by itself. *)
(* It takes lists that are in order, which the loop of get_depth_merge     *)
(* gives for any skiplist.  For a book in the order of the skiplist it     *)
(* also gives the best levels with their whole amounts (LevelsAreExact).   *)
(***************************************************************************)
EXTENDS AWDepth, FiniteSetTheorems, SequenceTheorems, TLAPS

-----------------------------------------------------------------------------
(* Induction, with a set for what is to be shown *)

\* A set that has 0 and the successor of each of its numbers has them all: the smallest
\* number it lacked would have a predecessor that it has.
LEMMA SetInduction ==
    ASSUME NEW S, 0 \in S, \A n \in Nat : n \in S => n + 1 \in S
    PROVE  Nat \subseteq S
<1> DEFINE T == Nat \ S
<1> SUFFICES ASSUME T # {} PROVE FALSE
  OBVIOUS
<1>1. PICK n \in T : \A m \in T : ~(<<m, n>> \in OpToRel(<, Nat))
  <2>1. T \subseteq Nat
    OBVIOUS
  <2> HIDE DEF T
  <2> QED
    BY <2>1, NatLessThanWellFounded, WFMin
<1>2. n \in Nat /\ n # 0
  BY <1>1
<1>3. n - 1 \in Nat /\ (n - 1) + 1 = n
  BY <1>2
<1>4. n - 1 \in T
  BY <1>1, <1>3
<1>5. <<n - 1, n>> \in OpToRel(<, Nat)
  BY <1>2, <1>3 DEF OpToRel
<1> QED
  BY <1>1, <1>4, <1>5

-----------------------------------------------------------------------------
(* Levels in order *)

Side == {1, -1}

\* The comparison of the skiplists is a strict total order of the prices.
LEMMA BetterOrders ==
    ASSUME NEW side \in Side, NEW p \in Int, NEW q \in Int, NEW r \in Int
    PROVE  /\ Better(p, q, side) /\ Better(q, r, side) => Better(p, r, side)
           /\ ~Better(p, p, side)
           /\ p = q \/ Better(p, q, side) \/ Better(q, p, side)
           /\ ~(Better(p, q, side) /\ Better(q, p, side))
<1>1. CASE side = 1
  BY <1>1 DEF Better
<1>2. CASE side = -1
  BY <1>2 DEF Better
<1> QED
  BY <1>1, <1>2 DEF Side

Level == Int \X (Nat \ {0})

\* A list in its order, of a length that the limit allows
Ordered(list, limit, side) ==
    /\ list \in Seq(Level) /\ Len(list) <= limit
    /\ \A i, j \in 1..Len(list) : i < j => Better(list[i][1], list[j][1], side)

\* In such a list a price stands for one level.
LEMMA PricesDiffer ==
    ASSUME NEW side \in Side, NEW limit, NEW list, Ordered(list, limit, side)
    PROVE  /\ \A i, j \in 1..Len(list) : list[i][1] = list[j][1] => i = j
           /\ \A i \in 1..Len(list) : list[i] \in Level /\ list[i][1] \in Int
<1>1. \A i \in 1..Len(list) : list[i] \in Level
  BY ElementOfSeq DEF Ordered
<1>2. \A i \in 1..Len(list) : list[i][1] \in Int
  BY <1>1 DEF Level
<1>3. ASSUME NEW i \in 1..Len(list), NEW j \in 1..Len(list), list[i][1] = list[j][1], i # j PROVE FALSE
  <2>1. i < j \/ j < i
    BY <1>3
  <2>2. Better(list[i][1], list[j][1], side) \/ Better(list[j][1], list[i][1], side)
    BY <2>1 DEF Ordered
  <2>3. ~Better(list[i][1], list[i][1], side)
    BY <1>2, BetterOrders
  <2> QED
    BY <1>3, <2>2, <2>3
<1> QED
  BY <1>1, <1>2, <1>3

-----------------------------------------------------------------------------
(* Sorting *)

\* The levels of S that are better than x
Ahead(S, x, side) == {y \in S : Better(y[1], x[1], side)}

FirstOf(list, n) == {list[j] : j \in 1..n}

\* The first levels of a list are as many as they should be.
LEMMA FirstLevels ==
    ASSUME NEW side \in Side, NEW limit, NEW list, Ordered(list, limit, side), NEW n \in 0..Len(list)
    PROVE  IsFiniteSet(FirstOf(list, n)) /\ Cardinality(FirstOf(list, n)) = n
<1> DEFINE f == [j \in 1..n |-> list[j]]
           S == {list[j] : j \in 1..n}
<1>1. Len(list) \in Nat
  BY DEF Ordered
<1>2. n \in Nat /\ 1..n \subseteq 1..Len(list)
  BY <1>1
<1>3. \A i, j \in 1..n : list[i] = list[j] => i = j
  BY <1>2, PricesDiffer
<1>4. f \in Bijection(1..n, S)
  BY <1>3 DEF Bijection, Injection, Surjection, IsInjective
<1> HIDE DEF f, S
<1>5. ExistsBijection(1..n, S)
  BY <1>4 DEF ExistsBijection
<1>6. IsFiniteSet(S)
  BY <1>2, <1>5, FS_NatBijection
<1>7. Cardinality(S) = n
  BY <1>2, <1>5, FS_CountingElements
<1> QED
  BY <1>6, <1>7 DEF S, FirstOf

\* Sorting puts the levels of a list in front of those that are worse than all of them.
LEMMA SortedFront ==
    ASSUME NEW side \in Side, NEW limit, NEW list, Ordered(list, limit, side),
           NEW W \in SUBSET Level, IsFiniteSet(W),
           \A w \in W : \A i \in 1..Len(list) : Better(list[i][1], w[1], side),
           NEW S, S = LevelsOf(list) \cup W
    PROVE  /\ IsFiniteSet(S) /\ Cardinality(S) \in Nat
           /\ Len(list) <= Cardinality(S) /\ (W = {} => Cardinality(S) = Len(list))
           /\ \A i \in 1..Len(list) : Sorted(S, side)[i] = list[i]
<1>1. Len(list) \in Nat /\ DOMAIN list = 1..Len(list)
  BY LenProperties DEF Ordered
<1>2. LevelsOf(list) = FirstOf(list, Len(list)) /\ LevelsOf(list) = {list[j] : j \in 1..Len(list)}
  BY <1>1 DEF LevelsOf, FirstOf
<1>3. IsFiniteSet(LevelsOf(list)) /\ Cardinality(LevelsOf(list)) = Len(list)
  <2>1. Len(list) \in 0..Len(list)
    BY <1>1
  <2>2. IsFiniteSet(FirstOf(list, Len(list))) /\ Cardinality(FirstOf(list, Len(list))) = Len(list)
    BY <2>1, FirstLevels
  <2> QED
    BY <1>2, <2>2
<1>4. IsFiniteSet(S) /\ Cardinality(S) \in Nat
  BY <1>3, FS_Union, FS_CardinalityType
<1>5. Len(list) <= Cardinality(S)
  BY <1>3, <1>4, FS_Subset
<1>6. W = {} => Cardinality(S) = Len(list)
  BY <1>3
<1>7. ASSUME NEW i \in 1..Len(list)
      PROVE  Ahead(S, list[i], side) = {list[j] : j \in 1..(i - 1)}
  <2>1. ASSUME NEW y \in Ahead(S, list[i], side) PROVE y \in {list[j] : j \in 1..(i - 1)}
    <3>1. y \in S /\ Better(y[1], list[i][1], side)
      BY <2>1 DEF Ahead
    <3>2. list[i][1] \in Int
      BY PricesDiffer
    <3>3. y \notin W
      <4>1. ASSUME y \in W PROVE FALSE
        <5>1. Better(list[i][1], y[1], side) /\ y[1] \in Int
          BY <4>1 DEF Level
        <5> QED
          BY <3>1, <3>2, <5>1, BetterOrders
      <4> QED
        BY <4>1
    <3>4. PICK j \in 1..Len(list) : y = list[j]
      BY <1>2, <3>1, <3>3
    <3>5. list[j][1] \in Int
      BY PricesDiffer
    <3>6. ~(i < j) /\ i # j
      BY <3>1, <3>2, <3>4, <3>5, BetterOrders DEF Ordered
    <3>7. j \in 1..(i - 1)
      BY <1>1, <3>6
    <3> QED
      BY <3>4, <3>7
  <2>2. ASSUME NEW j \in 1..(i - 1) PROVE list[j] \in Ahead(S, list[i], side)
    <3>1. j \in 1..Len(list) /\ j < i
      BY <1>1
    <3>2. Better(list[j][1], list[i][1], side)
      BY <3>1 DEF Ordered
    <3> QED
      BY <1>2, <3>1, <3>2 DEF Ahead
  <2> QED
    BY <2>1, <2>2
<1>8. ASSUME NEW i \in 1..Len(list)
      PROVE  list[i] \in S /\ Cardinality(Ahead(S, list[i], side)) = i - 1
  <2>1. i - 1 \in 0..Len(list)
    BY <1>1
  <2>2. Cardinality(FirstOf(list, i - 1)) = i - 1
    BY <2>1, FirstLevels
  <2> QED
    BY <1>2, <1>7, <2>2 DEF FirstOf
<1>9. ASSUME NEW i \in 1..Len(list), NEW x \in S, Cardinality(Ahead(S, x, side)) = i - 1
      PROVE  x = list[i]
  <2>1. CASE x \in LevelsOf(list)
    <3>1. PICK j \in 1..Len(list) : x = list[j]
      BY <1>2, <2>1
    <3>2. j - 1 = i - 1
      BY <1>8, <1>9, <3>1
    <3> QED
      BY <3>1, <3>2
  <2>2. CASE x \in W
    <3>1. LevelsOf(list) \subseteq Ahead(S, x, side)
      BY <1>2, <2>2 DEF Ahead
    <3>2. IsFiniteSet(Ahead(S, x, side))
      <4>1. Ahead(S, x, side) \in SUBSET S
        BY DEF Ahead
      <4> QED
        BY <1>4, <4>1, FS_Subset
    <3>3. Cardinality(LevelsOf(list)) <= Cardinality(Ahead(S, x, side))
      BY <3>1, <3>2, FS_Subset
    <3> QED
      BY <1>1, <1>3, <1>9, <3>3
  <2> QED
    BY <2>1, <2>2
<1>10. ASSUME NEW i \in 1..Len(list) PROVE Sorted(S, side)[i] = list[i]
  <2>1. i \in 1..Cardinality(S)
    BY <1>1, <1>4, <1>5
  <2>2. Sorted(S, side)[i] = CHOOSE x \in S : Cardinality(Ahead(S, x, side)) = i - 1
    BY <2>1 DEF Sorted, Ahead
  <2> QED
    BY <1>8, <1>9, <2>2
<1> QED
  BY <1>4, <1>5, <1>6, <1>10

\* Cutting what was sorted gives the list back, if it is full or nothing is behind it.
LEMMA CutSorted ==
    ASSUME NEW side \in Side, NEW limit \in Nat, NEW list, Ordered(list, limit, side),
           NEW W \in SUBSET Level, IsFiniteSet(W), Len(list) < limit => W = {},
           \A w \in W : \A i \in 1..Len(list) : Better(list[i][1], w[1], side),
           NEW S, S = LevelsOf(list) \cup W
    PROVE  Cut(Sorted(S, side), limit) = list
<1> DEFINE s == Sorted(S, side)
           n == Len(list)
<1>1. /\ Cardinality(S) \in Nat /\ n <= Cardinality(S) /\ (W = {} => Cardinality(S) = n)
      /\ \A i \in 1..n : s[i] = list[i]
  BY SortedFront
<1>2. n \in Nat /\ n <= limit /\ list \in Seq(Level)
  BY DEF Ordered
<1>3. Len(s) = Cardinality(S)
  BY <1>1 DEF Sorted
<1>4. (IF Len(s) < limit THEN Len(s) ELSE limit) = n
  BY <1>1, <1>2, <1>3
<1>5. Cut(s, limit) = SubSeq(s, 1, n)
  BY <1>4 DEF Cut
<1> HIDE DEF s, n
<1>6. \A i \in 1..n : s[i] \in Level
  BY <1>1, <1>2, ElementOfSeq DEF n
<1>7. /\ SubSeq(s, 1, n) \in Seq(Level)
      /\ Len(SubSeq(s, 1, n)) = IF 1 <= n THEN n - 1 + 1 ELSE 0
      /\ \A i \in 1..(n - 1 + 1) : SubSeq(s, 1, n)[i] = s[1 + i - 1]
  BY <1>2, <1>6, SubSeqProperties
<1>8. Len(SubSeq(s, 1, n)) = n /\ \A i \in 1..n : SubSeq(s, 1, n)[i] = list[i]
  BY <1>1, <1>2, <1>7
<1>9. SubSeq(s, 1, n) = list
  BY <1>2, <1>7, <1>8, SeqEqual DEF n
<1> QED
  BY <1>5, <1>9 DEF s

-----------------------------------------------------------------------------
(* What is sent and what is made of it *)

\* A client puts the new levels in place of the old ones and leaves out those of amount 0.
Kept(list, diff) == {l \in LevelsOf(list) : \A d \in diff : d[1] # l[1]}
News(diff) == {d \in diff : d[2] # 0}

\* What the client holds is sorted by price and cut.
LEMMA ApplyIs ==
    ASSUME NEW list, NEW diff, NEW limit, NEW side
    PROVE  Apply(list, diff, limit, side) = Cut(Sorted(Kept(list, diff) \cup News(diff), side), limit)
BY DEF Apply, Kept, News

\* The levels that a full list does not name and the client keeps are worse than all of it.
LEMMA KeptIs ==
    ASSUME NEW side \in Side, NEW limit \in Nat, NEW old, Ordered(old, limit, side),
           NEW list, Ordered(list, limit, side)
    PROVE  LET diff == GetListDiff(old, list, limit, side)
               W == {l \in LevelsOf(old) : l[1] \notin PricesOf(list) /\ \A q \in PricesOf(list) : Better(q, l[1], side)}
           IN  /\ News(diff) = LevelsOf(list) \ LevelsOf(old)
               /\ Len(list) < limit => Kept(old, diff) = LevelsOf(old) \cap LevelsOf(list)
               /\ ~(Len(list) < limit) => Kept(old, diff) = (LevelsOf(old) \cap LevelsOf(list)) \cup W
<1> DEFINE diff == GetListDiff(old, list, limit, side)
           W == {l \in LevelsOf(old) : l[1] \notin PricesOf(list) /\ \A q \in PricesOf(list) : Better(q, l[1], side)}
           Gone == (IF Len(list) < limit THEN PricesOf(old) ELSE Passed(old, list, side)) \ PricesOf(list)
<1>1. /\ DOMAIN old = 1..Len(old) /\ DOMAIN list = 1..Len(list)
      /\ \A i \in 1..Len(old) : old[i] \in Level
      /\ \A i \in 1..Len(list) : list[i] \in Level
  BY LenProperties, ElementOfSeq DEF Ordered
<1>2. /\ \A l \in LevelsOf(old) \cup LevelsOf(list) : l \in Level /\ l[1] \in Int /\ l[2] # 0
      /\ \A l, m \in LevelsOf(list) : l[1] = m[1] => l = m
      /\ PricesOf(list) = {l[1] : l \in LevelsOf(list)}
      /\ PricesOf(old) = {l[1] : l \in LevelsOf(old)}
  <2>1. \A l \in LevelsOf(old) \cup LevelsOf(list) : l \in Level
    BY <1>1 DEF LevelsOf
  <2>2. \A l \in Level : l[1] \in Int /\ l[2] # 0
    BY DEF Level
  <2>3. \A l, m \in LevelsOf(list) : l[1] = m[1] => l = m
    BY <1>1, PricesDiffer DEF LevelsOf
  <2> QED
    BY <2>1, <2>2, <2>3 DEF LevelsOf, PricesOf
<1>3. diff = (LevelsOf(list) \ LevelsOf(old)) \cup {<<p, 0>> : p \in Gone}
  BY DEF GetListDiff
<1> HIDE DEF diff, Gone
<1>4. News(diff) = LevelsOf(list) \ LevelsOf(old)
  BY <1>2, <1>3 DEF News
<1>5. ASSUME NEW l \in LevelsOf(old)
      PROVE  l \in Kept(old, diff) <=> l \in LevelsOf(list) \/ (l[1] \notin PricesOf(list) /\ l[1] \notin Gone)
  <2>1. CASE l[1] \in PricesOf(list)
    <3>1. PICK m \in LevelsOf(list) : m[1] = l[1]
      BY <1>2, <2>1
    <3>2. l \in LevelsOf(list) <=> m = l
      BY <1>2, <3>1
    <3>3. CASE m = l
      <4>1. \A d \in diff : d[1] # l[1]
        <5>1. \A d \in LevelsOf(list) \ LevelsOf(old) : d[1] # l[1]
          BY <1>2, <3>1, <3>3
        <5>2. \A p \in Gone : p # l[1]
          BY <2>1 DEF Gone
        <5> QED
          BY <1>3, <5>1, <5>2
      <4> QED
        BY <3>2, <3>3, <4>1 DEF Kept
    <3>4. CASE m # l
      <4>1. m \in diff
        <5>1. m \notin LevelsOf(old)
          BY <1>1, <3>1, <3>4, PricesDiffer DEF LevelsOf
        <5> QED
          BY <1>3, <3>1, <5>1
      <4> QED
        BY <2>1, <3>1, <3>2, <3>4, <4>1 DEF Kept
    <3> QED
      BY <3>3, <3>4
  <2>2. CASE l[1] \notin PricesOf(list)
    <3>1. l \notin LevelsOf(list) /\ \A d \in LevelsOf(list) : d[1] # l[1]
      BY <1>2, <2>2
    <3>2. (\A d \in diff : d[1] # l[1]) <=> l[1] \notin Gone
      <4>1. ASSUME l[1] \in Gone PROVE \E d \in diff : d[1] = l[1]
        <5>1. <<l[1], 0>> \in diff
          BY <1>3, <4>1
        <5> QED
          BY <5>1
      <4>2. ASSUME l[1] \notin Gone, NEW d \in diff PROVE d[1] # l[1]
        BY <1>3, <3>1, <4>2
      <4> QED
        BY <4>1, <4>2
    <3> QED
      BY <2>2, <3>1, <3>2 DEF Kept
  <2> QED
    BY <2>1, <2>2
<1>6. ASSUME Len(list) < limit PROVE Kept(old, diff) = LevelsOf(old) \cap LevelsOf(list)
  <2>1. Gone = PricesOf(old) \ PricesOf(list)
    BY <1>6 DEF Gone
  <2>2. \A l \in LevelsOf(old) : l \in Kept(old, diff) <=> l \in LevelsOf(list)
    BY <1>2, <1>5, <2>1
  <2> QED
    BY <2>2 DEF Kept
<1>7. ASSUME ~(Len(list) < limit) PROVE Kept(old, diff) = (LevelsOf(old) \cap LevelsOf(list)) \cup W
  <2>1. Gone = Passed(old, list, side) \ PricesOf(list)
    BY <1>7 DEF Gone
  <2>2. ASSUME NEW l \in LevelsOf(old), l[1] \notin PricesOf(list)
        PROVE  l[1] \notin Gone <=> \A q \in PricesOf(list) : Better(q, l[1], side)
    <3>1. l[1] \in Int /\ PricesOf(list) \subseteq Int
      BY <1>2
    <3>2. l[1] \in Gone <=> \E q \in PricesOf(list) : Better(l[1], q, side)
      BY <1>2, <2>1, <2>2 DEF Passed
    <3>3. \A q \in PricesOf(list) : Better(q, l[1], side) <=> ~Better(l[1], q, side)
      BY <2>2, <3>1, BetterOrders
    <3> QED
      BY <3>2, <3>3
  <2>3. \A l \in LevelsOf(old) : l \in Kept(old, diff) <=> l \in LevelsOf(list) \/ l \in W
    BY <1>5, <2>2
  <2>4. W \subseteq LevelsOf(old) /\ Kept(old, diff) \subseteq LevelsOf(old)
    BY DEF Kept
  <2> QED
    BY <2>3, <2>4
<1> QED
  BY <1>4, <1>6, <1>7 DEF diff

\* A client that has the one depth and applies the diff has the other (get_list_diff).
LEMMA DiffIsExact ==
    ASSUME NEW side \in Side, NEW limit \in Nat, NEW old, Ordered(old, limit, side),
           NEW list, Ordered(list, limit, side)
    PROVE  Apply(old, GetListDiff(old, list, limit, side), limit, side) = list
<1> DEFINE diff == GetListDiff(old, list, limit, side)
           W == {l \in LevelsOf(old) : l[1] \notin PricesOf(list) /\ \A q \in PricesOf(list) : Better(q, l[1], side)}
           S == Kept(old, diff) \cup News(diff)
           V == IF Len(list) < limit THEN {} ELSE W
<1>1. /\ News(diff) = LevelsOf(list) \ LevelsOf(old)
      /\ Len(list) < limit => Kept(old, diff) = LevelsOf(old) \cap LevelsOf(list)
      /\ ~(Len(list) < limit) => Kept(old, diff) = (LevelsOf(old) \cap LevelsOf(list)) \cup W
  BY KeptIs
<1>2. Apply(old, diff, limit, side) = Cut(Sorted(S, side), limit)
  BY ApplyIs
<1>3. /\ DOMAIN old = 1..Len(old) /\ DOMAIN list = 1..Len(list) /\ Len(old) \in Nat
      /\ \A i \in 1..Len(old) : old[i] \in Level
  BY LenProperties, ElementOfSeq DEF Ordered
<1>4. V \in SUBSET Level
  <2>1. LevelsOf(old) \subseteq Level
    BY <1>3 DEF LevelsOf
  <2> QED
    BY <2>1
<1>5. IsFiniteSet(V)
  <2>1. LevelsOf(old) = FirstOf(old, Len(old))
    BY <1>3 DEF LevelsOf, FirstOf
  <2>2. Len(old) \in 0..Len(old)
    BY <1>3
  <2>3. IsFiniteSet(FirstOf(old, Len(old)))
    BY <2>2, FirstLevels
  <2>4. V \in SUBSET LevelsOf(old)
    OBVIOUS
  <2> QED
    BY <2>1, <2>3, <2>4, FS_Subset
<1>6. \A w \in V : \A i \in 1..Len(list) : Better(list[i][1], w[1], side)
  BY <1>3 DEF PricesOf
<1>7. Len(list) < limit => V = {}
  OBVIOUS
<1> HIDE DEF diff, W
<1>8. S = LevelsOf(list) \cup V
  BY <1>1
<1> HIDE DEF S, V
<1>9. Cut(Sorted(S, side), limit) = list
  BY <1>4, <1>5, <1>6, <1>7, <1>8, CutSorted
<1> QED
  BY <1>2, <1>9 DEF diff, S

-----------------------------------------------------------------------------
(* The depths of the matchengine *)

SideOf(orders) == orders \in Seq(Level)

\* A price as a multiple of the interval and the rest
Parts(p, i, a, r) == a \in Int /\ r \in 0..(i - 1) /\ p = a * i + r

LEMMA PartsExist ==
    ASSUME NEW i \in Nat \ {0}, NEW p \in Int
    PROVE  \E a, r : Parts(p, i, a, r)
<1>1. PICK a \in Int, r \in 0..(i - 1) : a = p \div i /\ r = p % i /\ p = i * a + r
  OBVIOUS
<1>2. i * a = a * i
  OBVIOUS
<1> QED
  BY <1>1, <1>2 DEF Parts

\* There is one way to write it so.
LEMMA PartsAre ==
    ASSUME NEW i \in Nat \ {0}, NEW p \in Int, NEW a, NEW r, Parts(p, i, a, r)
    PROVE  p \div i = a /\ p % i = r
<1>1. a \in Int /\ r \in 0..(i - 1) /\ p = a * i + r
  BY DEF Parts
<1>2. PICK b \in Int, s \in 0..(i - 1) : b = p \div i /\ s = p % i /\ p = i * b + s
  OBVIOUS
<1>3. (a - b) * i = s - r
  BY <1>1, <1>2
<1>4. PICK d \in Int : d = a - b
  BY <1>1
<1>5. d * i = s - r /\ s - r < i /\ s - r > -i
  BY <1>1, <1>3, <1>4
<1>6. CASE d >= 1
  <2>1. (d - 1) * i >= 0
    BY <1>6
  <2>2. d * i = (d - 1) * i + i
    OBVIOUS
  <2>3. r \in Int
    BY <1>1
  <2> QED
    BY <1>5, <2>1, <2>2, <2>3
<1>7. CASE d <= -1
  <2>1. (-1 - d) * i >= 0
    BY <1>7
  <2>2. d * i = -((-1 - d) * i) - i
    OBVIOUS
  <2>3. r \in Int
    BY <1>1
  <2> QED
    BY <1>5, <2>1, <2>2, <2>3
<1>8. CASE d = 0
  <2>1. s = r
    BY <1>1, <1>5, <1>8
  <2>2. a = b
    BY <1>1, <1>4, <1>8
  <2> QED
    BY <1>2, <2>1, <2>2
<1> QED
  BY <1>6, <1>7, <1>8

\* The group of a price is the multiple below it, or the one above for an ask.
LEMMA GroupIs ==
    ASSUME NEW i \in Nat \ {0}, NEW p \in Int, NEW a, NEW r, Parts(p, i, a, r), NEW side \in Side
    PROVE  Group(p, i, side) = IF side = 1 /\ r # 0 THEN a * i + i ELSE a * i
<1>1. p % i = r
  BY PartsAre
<1>2. a \in Int /\ r \in Int /\ p = a * i + r
  BY DEF Parts
<1>3. PICK m \in Int : m = a * i
  BY <1>2
<1>4. RoundedDown(p, i) = m
  BY <1>1, <1>2, <1>3 DEF RoundedDown
<1> QED
  BY <1>2, <1>3, <1>4 DEF Group, Side

\* mpd_divmod and the step to the next multiple round as they should (get_depth_merge).
LEMMA GroupIsRounded ==
    ASSUME NEW p \in Int, NEW i \in Nat, NEW side \in Side
    PROVE  Group(p, i, side) = Rounded(p, i, side)
<1>1. CASE i = 0
  BY <1>1 DEF Group, RoundedDown, Rounded
<1>2. CASE i # 0
  <2>1. i \in Nat \ {0}
    BY <1>2
  <2>2. PICK a, r : Parts(p, i, a, r)
    BY <2>1, PartsExist
  <2>3. a \in Int /\ r \in 0..(i - 1) /\ p = a * i + r
    BY <2>2 DEF Parts
  <2>4. Group(p, i, side) = IF side = 1 /\ r # 0 THEN a * i + i ELSE a * i
    BY <2>1, <2>2, GroupIs
  <2>5. p \div i = a
    BY <2>1, <2>2, PartsAre
  <2>6. CASE side = -1
    BY <1>2, <2>4, <2>5, <2>6 DEF Rounded
  <2>7. PICK q \in Int : q = p + i - 1
    OBVIOUS
  <2>8. CASE side = 1 /\ r = 0
    <3>1. Parts(q, i, a, i - 1)
      BY <1>2, <2>3, <2>7, <2>8 DEF Parts
    <3>2. q \div i = a
      BY <2>1, <3>1, PartsAre
    <3> QED
      BY <1>2, <2>4, <2>7, <2>8, <3>2 DEF Rounded
  <2>9. CASE side = 1 /\ r # 0
    <3>1. (a + 1) * i = a * i + i
      BY <2>3
    <3>2. Parts(q, i, a + 1, r - 1)
      BY <1>2, <2>3, <2>7, <2>9, <3>1 DEF Parts
    <3>3. q \div i = a + 1
      BY <2>1, <3>2, PartsAre
    <3> QED
      BY <1>2, <2>4, <2>7, <2>9, <3>1, <3>3 DEF Rounded
  <2> QED
    BY <2>6, <2>8, <2>9 DEF Side
<1> QED
  BY <1>1, <1>2

\* A price that comes after another one and is within its level has the same level.
LEMMA GroupJoins ==
    ASSUME NEW p \in Int, NEW q \in Int, NEW i \in Nat, NEW side \in Side,
           ~Better(p, q, side), ~Better(Group(q, i, side), p, side)
    PROVE  Group(p, i, side) = Group(q, i, side)
<1>1. CASE i = 0
  <2>1. Group(q, i, side) = q
    BY <1>1 DEF Group, RoundedDown
  <2>2. p = q
    BY <2>1 DEF Better, Side
  <2> QED
    BY <2>2
<1>2. CASE i # 0
  <2>1. i \in Nat \ {0}
    BY <1>2
  <2>2. PICK a, r : Parts(q, i, a, r)
    BY <2>1, PartsExist
  <2>3. a \in Int /\ r \in 0..(i - 1) /\ q = a * i + r
    BY <2>2 DEF Parts
  <2>4. Group(q, i, side) = IF side = 1 /\ r # 0 THEN a * i + i ELSE a * i
    BY <2>1, <2>2, GroupIs
  <2>5. PICK m \in Int : m = a * i
    BY <2>3
  <2>6. PICK t \in Int : t = p - m
    BY <2>5
  <2>7. p = m + t /\ q = m + r /\ r \in Int
    BY <2>3, <2>5, <2>6
  <2>8. CASE side = -1
    <3>1. m <= p /\ p <= q
      BY <2>4, <2>5, <2>8 DEF Better
    <3>2. Parts(p, i, a, t)
      BY <2>1, <2>3, <2>5, <2>7, <3>1 DEF Parts
    <3>3. Group(p, i, side) = IF side = 1 /\ t # 0 THEN a * i + i ELSE a * i
      BY <2>1, <3>2, GroupIs
    <3> QED
      BY <2>4, <2>8, <3>3
  <2>9. CASE side = 1 /\ r = 0
    <3>1. Group(q, i, side) = q
      BY <2>4, <2>5, <2>7, <2>9
    <3>2. ~(p < q) /\ ~(q < p)
      BY <2>9, <3>1 DEF Better
    <3>3. p = q
      BY <3>2
    <3> QED
      BY <3>3
  <2>10. CASE side = 1 /\ r # 0
    <3>1. q <= p /\ p <= m + i
      BY <2>4, <2>5, <2>10 DEF Better
    <3>2. t \in 1..i
      BY <2>3, <2>7, <2>10, <3>1
    <3>3. CASE t # i
      <4>1. Parts(p, i, a, t)
        BY <2>1, <2>3, <2>5, <2>7, <3>2, <3>3 DEF Parts
      <4>2. Group(p, i, side) = IF side = 1 /\ t # 0 THEN a * i + i ELSE a * i
        BY <2>1, <4>1, GroupIs
      <4> QED
        BY <2>4, <2>10, <3>2, <4>2
    <3>4. CASE t = i
      <4>1. (a + 1) * i = a * i + i
        BY <2>3
      <4>2. Parts(p, i, a + 1, 0)
        BY <2>1, <2>3, <2>5, <2>7, <3>4, <4>1 DEF Parts
      <4>3. Group(p, i, side) = (a + 1) * i
        BY <2>1, <4>2, GroupIs
      <4> QED
        BY <2>4, <2>10, <4>1, <4>3
    <3> QED
      BY <3>3, <3>4
  <2> QED
    BY <2>8, <2>9, <2>10 DEF Side
<1> QED
  BY <1>1, <1>2

\* Rounding never makes a price better for its side (get_depth_merge).
LEMMA GroupIsNoBetter ==
    ASSUME NEW price \in Int, NEW interval \in Nat, NEW side \in Side
    PROVE  Group(price, interval, side) \in Int /\ ~Better(Group(price, interval, side), price, side)
<1>1. CASE interval = 0
  BY <1>1, BetterOrders DEF Group, RoundedDown
<1>2. CASE interval # 0
  <2>1. price % interval \in 0..(interval - 1)
    BY <1>2
  <2>2. PICK r \in 0..(interval - 1) : r = price % interval
    BY <2>1
  <2>3. RoundedDown(price, interval) = price - r
    BY <1>2, <2>2 DEF RoundedDown
  <2>4. CASE side = -1
    BY <2>2, <2>3, <2>4 DEF Group, Better
  <2>5. CASE side = 1
    BY <2>2, <2>3, <2>5 DEF Group, Better
  <2> QED
    BY <2>4, <2>5 DEF Side
<1> QED
  BY <1>1, <1>2

\* An order joins the last level, or opens one that is worse.
LEMMA JoinOrdered ==
    ASSUME NEW side \in Side, NEW k, k.limit \in Nat, k.interval \in Nat,
           NEW levels, Ordered(levels, k.limit, side), NEW order \in Level
    PROVE  Ordered(Join(levels, order, k, side), k.limit, side)
<1> DEFINE n == Len(levels)
           price == order[1]
           opened == <<Group(order[1], k.interval, side), order[2]>>
<1>1. price \in Int /\ order[2] \in Nat \ {0}
  BY DEF Level
<1>2. n \in Nat /\ levels \in Seq(Level) /\ \A i \in 1..n : levels[i] \in Level
  BY ElementOfSeq DEF Ordered
<1>3. CASE levels # <<>> /\ ~Better(Last(levels)[1], order[1], side)
  <2> DEFINE l == <<levels[n][1], levels[n][2] + order[2]>>
  <2>1. n \in 1..n /\ levels[n] \in Level
    BY <1>2, <1>3
  <2>2. l \in Level
    BY <1>1, <2>1 DEF Level
  <2>3. Join(levels, order, k, side) = [levels EXCEPT ![n] = l]
    <3>1. Join(levels, order, k, side) =
             [levels EXCEPT ![n] = [levels[n] EXCEPT ![2] = levels[n][2] + order[2]]]
      BY <1>3 DEF Join
    <3>2. PICK a \in Int, b \in Nat : levels[n] = <<a, b>>
      BY <2>1 DEF Level
    <3>3. [levels[n] EXCEPT ![2] = levels[n][2] + order[2]] = l
      BY <3>2
    <3> QED
      BY <3>1, <3>3
  <2> HIDE DEF l
  <2>4. /\ [levels EXCEPT ![n] = l] \in Seq(Level) /\ Len([levels EXCEPT ![n] = l]) = n
        /\ \A j \in 1..n : [levels EXCEPT ![n] = l][j] = IF j = n THEN l ELSE levels[j]
    BY <1>2, <2>1, <2>2, ExceptSeq
  <2>5. \A j \in 1..n : [levels EXCEPT ![n] = l][j][1] = levels[j][1]
    BY <2>4 DEF l
  <2> HIDE DEF n
  <2> QED
    BY <2>3, <2>4, <2>5 DEF Ordered, n
<1>4. CASE (levels = <<>> \/ Better(Last(levels)[1], order[1], side)) /\ n < k.limit
  <2>1. Join(levels, order, k, side) = Append(levels, opened)
    BY <1>4 DEF Join
  <2>2. opened[1] \in Int /\ ~Better(opened[1], price, side)
    BY <1>1, GroupIsNoBetter
  <2>3. opened \in Level
    BY <1>1, <2>2 DEF Level
  <2>4. /\ Append(levels, opened) \in Seq(Level) /\ Len(Append(levels, opened)) = n + 1
        /\ \A j \in 1..(n + 1) : Append(levels, opened)[j] = IF j <= n THEN levels[j] ELSE opened
    BY <1>2, <2>3
  <2>5. ASSUME NEW i \in 1..n PROVE Better(levels[i][1], opened[1], side)
    <3>1. levels # <<>> /\ n \in 1..n
      BY <1>2, <2>5
    <3>2. Better(levels[n][1], price, side)
      BY <1>4, <3>1 DEF Last
    <3>3. levels[n][1] \in Int /\ levels[i][1] \in Int
      BY <1>2, <2>5, <3>1 DEF Level
    <3>4. Better(levels[n][1], opened[1], side)
      <4>1. opened[1] = price \/ Better(price, opened[1], side)
        BY <1>1, <2>2, BetterOrders
      <4> HIDE DEF opened, price
      <4> QED
        BY <1>1, <2>2, <3>2, <3>3, <4>1, BetterOrders
    <3>5. i = n \/ Better(levels[i][1], levels[n][1], side)
      BY <1>2, <2>5, <3>1 DEF Ordered
    <3> HIDE DEF opened
    <3> QED
      BY <2>2, <3>3, <3>4, <3>5, BetterOrders
  <2>6. \A i, j \in 1..(n + 1) : i < j => Better(Append(levels, opened)[i][1], Append(levels, opened)[j][1], side)
    <3> TAKE i, j \in 1..(n + 1)
    <3> HAVE i < j
    <3>1. i \in 1..n /\ Append(levels, opened)[i] = levels[i]
      BY <1>2, <2>4
    <3>2. CASE j <= n
      BY <1>2, <2>4, <3>1, <3>2 DEF Ordered
    <3>3. CASE ~(j <= n)
      BY <2>4, <2>5, <3>1, <3>3
    <3> QED
      BY <3>2, <3>3
  <2> QED
    BY <1>2, <1>4, <2>1, <2>4, <2>6 DEF Ordered
<1>5. CASE (levels = <<>> \/ Better(Last(levels)[1], order[1], side)) /\ ~(n < k.limit)
  BY <1>5 DEF Join
<1> QED
  BY <1>3, <1>4, <1>5

\* The loop of get_depth_merge as a function of the orders it has been through
Loop(f, orders, k, side) ==
    f = [i \in 0..Len(orders) |-> IF i = 0 THEN <<>> ELSE Join(f[i - 1], orders[i], k, side)]
UpTo(f, n, orders, k, side) ==
    f = [i \in 0..n |-> IF i = 0 THEN <<>> ELSE Join(f[i - 1], orders[i], k, side)]

\* The loop over the orders reaches its end: for each length there is a function that
\* makes its steps.
LEMMA LoopRuns ==
    ASSUME NEW orders, Len(orders) \in Nat, NEW k, NEW side
    PROVE  \E f : Loop(f, orders, k, side)
<1> DEFINE T == {n \in Nat : \E f : UpTo(f, n, orders, k, side)}
<1>1. 0 \in T
  <2>1. UpTo([i \in 0..0 |-> <<>>], 0, orders, k, side)
    BY DEF UpTo
  <2> QED
    BY <2>1
<1>2. ASSUME NEW n \in Nat, n \in T PROVE n + 1 \in T
  <2>1. PICK f : UpTo(f, n, orders, k, side)
    BY <1>2
  <2> DEFINE g == [i \in 0..(n + 1) |-> IF i <= n THEN f[i] ELSE Join(f[n], orders[n + 1], k, side)]
  <2>2. \A i \in 0..n : f[i] = IF i = 0 THEN <<>> ELSE Join(f[i - 1], orders[i], k, side)
    BY <2>1 DEF UpTo
  <2>3. ASSUME NEW i \in 0..(n + 1)
        PROVE  g[i] = IF i = 0 THEN <<>> ELSE Join(g[i - 1], orders[i], k, side)
    <3>1. CASE i <= n
      <4>1. g[i] = f[i] /\ (i # 0 => g[i - 1] = f[i - 1]) /\ i \in 0..n
        BY <3>1
      <4> HIDE DEF g
      <4> QED
        BY <2>2, <4>1
    <3>2. CASE i = n + 1
      <4>1. g[i] = Join(f[n], orders[n + 1], k, side) /\ g[n] = f[n] /\ i - 1 = n /\ i # 0
        BY <3>2
      <4> HIDE DEF g
      <4> QED
        BY <3>2, <4>1
    <3> QED
      BY <3>1, <3>2
  <2>4. g = [i \in 0..(n + 1) |-> g[i]]
    OBVIOUS
  <2> HIDE DEF g
  <2>5. UpTo(g, n + 1, orders, k, side)
    BY <2>3, <2>4 DEF UpTo
  <2> QED
    BY <2>5
<1> HIDE DEF T
<1>3. Len(orders) \in T
  BY <1>1, <1>2, SetInduction
<1> QED
  BY <1>3 DEF T, UpTo, Loop

\* The levels of any side are in order, best first, and no more than the limit.
LEMMA GroupedOrdered ==
    ASSUME NEW side \in Side, NEW k, k.limit \in Nat, k.interval \in Nat, NEW orders, SideOf(orders)
    PROVE  Ordered(Grouped(orders, k, side), k.limit, side)
<1>1. Len(orders) \in Nat /\ \A i \in 1..Len(orders) : orders[i] \in Level
  BY ElementOfSeq DEF SideOf
<1>2. \E f : Loop(f, orders, k, side)
  BY <1>1, LoopRuns
<1>3. \E f : Loop(f, orders, k, side) /\ Grouped(orders, k, side) = f[Len(orders)]
  BY <1>2 DEF Grouped, Loop
<1>4. PICK f : Loop(f, orders, k, side) /\ Grouped(orders, k, side) = f[Len(orders)]
  BY <1>3
<1> DEFINE T == {n \in Nat : n <= Len(orders) => Ordered(f[n], k.limit, side)}
<1>5. \A i \in 0..Len(orders) : f[i] = IF i = 0 THEN <<>> ELSE Join(f[i - 1], orders[i], k, side)
  BY <1>4 DEF Loop
<1>6. 0 \in T
  <2>1. f[0] = <<>>
    BY <1>1, <1>5
  <2>2. Ordered(<<>>, k.limit, side)
    BY DEF Ordered
  <2> QED
    BY <2>1, <2>2
<1>7. ASSUME NEW n \in Nat, n \in T PROVE n + 1 \in T
  <2>1. CASE n + 1 <= Len(orders)
    <3>1. Ordered(f[n], k.limit, side)
      BY <1>1, <1>7, <2>1
    <3>2. f[n + 1] = Join(f[n], orders[n + 1], k, side)
      <4>1. n + 1 \in 0..Len(orders) /\ n + 1 # 0 /\ (n + 1) - 1 = n
        BY <1>1, <2>1
      <4> QED
        BY <1>5, <4>1
    <3>3. orders[n + 1] \in Level
      BY <1>1, <2>1
    <3>4. Ordered(f[n + 1], k.limit, side)
      BY <3>1, <3>2, <3>3, JoinOrdered
    <3> QED
      BY <3>4
  <2>2. CASE ~(n + 1 <= Len(orders))
    BY <2>2
  <2> QED
    BY <2>1, <2>2
<1>8. Len(orders) \in T
  <2> HIDE DEF T
  <2> QED
    BY <1>1, <1>6, <1>7, SetInduction
<1> QED
  BY <1>1, <1>4, <1>8

-----------------------------------------------------------------------------
(* The loop and its reference *)

\* The level that an order counts in
GroupOf(orders, j, k, side) == Group(orders[j][1], k.interval, side)
GroupsTo(orders, n, k, side) == {GroupOf(orders, j, k, side) : j \in 1..n}

\* The sum of Amount as a function of the orders it has been through
Adds(f, orders, p, k, side) ==
    f = [i \in 0..Len(orders) |->
            IF i = 0 THEN 0
            ELSE f[i - 1] + (IF Rounded(orders[i][1], k.interval, side) = p THEN orders[i][2] ELSE 0)]
AmountTo(orders, n, p, k, side) == (CHOOSE f : Adds(f, orders, p, k, side))[n]

AddsTo(f, n, orders, p, k, side) ==
    f = [i \in 0..n |->
            IF i = 0 THEN 0
            ELSE f[i - 1] + (IF Rounded(orders[i][1], k.interval, side) = p THEN orders[i][2] ELSE 0)]

\* The sum reaches the end of the orders.
LEMMA AddsRuns ==
    ASSUME NEW orders, Len(orders) \in Nat, NEW p, NEW k, NEW side
    PROVE  \E f : Adds(f, orders, p, k, side)
<1> DEFINE T == {n \in Nat : \E f : AddsTo(f, n, orders, p, k, side)}
           part(i) == IF Rounded(orders[i][1], k.interval, side) = p THEN orders[i][2] ELSE 0
<1>1. 0 \in T
  <2>1. AddsTo([i \in 0..0 |-> 0], 0, orders, p, k, side)
    BY DEF AddsTo
  <2> QED
    BY <2>1
<1>2. ASSUME NEW n \in Nat, n \in T PROVE n + 1 \in T
  <2>1. PICK f : AddsTo(f, n, orders, p, k, side)
    BY <1>2
  <2> DEFINE g == [i \in 0..(n + 1) |-> IF i <= n THEN f[i] ELSE f[n] + part(n + 1)]
  <2>2. \A i \in 0..n : f[i] = IF i = 0 THEN 0 ELSE f[i - 1] + part(i)
    BY <2>1 DEF AddsTo
  <2> HIDE DEF part
  <2>3. ASSUME NEW i \in 0..(n + 1) PROVE g[i] = IF i = 0 THEN 0 ELSE g[i - 1] + part(i)
    <3>1. CASE i <= n
      <4>1. g[i] = f[i] /\ (i # 0 => g[i - 1] = f[i - 1]) /\ i \in 0..n
        BY <3>1
      <4> HIDE DEF g
      <4> QED
        BY <2>2, <4>1
    <3>2. CASE i = n + 1
      <4>1. g[i] = f[n] + part(n + 1) /\ g[n] = f[n] /\ i - 1 = n /\ i # 0
        BY <3>2
      <4> HIDE DEF g
      <4> QED
        BY <3>2, <4>1
    <3> QED
      BY <3>1, <3>2
  <2>4. g = [i \in 0..(n + 1) |-> g[i]]
    OBVIOUS
  <2> HIDE DEF g
  <2>5. AddsTo(g, n + 1, orders, p, k, side)
    BY <2>3, <2>4 DEF AddsTo, part
  <2> QED
    BY <2>5
<1> HIDE DEF T
<1>3. Len(orders) \in T
  BY <1>1, <1>2, SetInduction
<1> QED
  BY <1>3 DEF T, AddsTo, Adds

\* What an order adds to the amount of a price
LEMMA AmountIs ==
    ASSUME NEW orders, SideOf(orders), NEW k, k.interval \in Nat, NEW side \in Side, NEW p
    PROVE  /\ Amount(orders, p, k, side) = AmountTo(orders, Len(orders), p, k, side)
           /\ AmountTo(orders, 0, p, k, side) = 0
           /\ \A n \in Nat : n + 1 \in 1..Len(orders) =>
                 AmountTo(orders, n + 1, p, k, side)
                 = AmountTo(orders, n, p, k, side)
                   + (IF GroupOf(orders, n + 1, k, side) = p THEN orders[n + 1][2] ELSE 0)
<1>1. Len(orders) \in Nat /\ \A i \in 1..Len(orders) : orders[i] \in Level /\ orders[i][1] \in Int
  <2>1. Len(orders) \in Nat /\ \A i \in 1..Len(orders) : orders[i] \in Level
    BY ElementOfSeq DEF SideOf
  <2> QED
    BY <2>1 DEF Level
<1>2. \E f : Adds(f, orders, p, k, side)
  BY <1>1, AddsRuns
<1>3. Amount(orders, p, k, side) = AmountTo(orders, Len(orders), p, k, side)
  BY DEF Amount, AmountTo, Adds
<1>4. PICK f : f = CHOOSE g : Adds(g, orders, p, k, side)
  OBVIOUS
<1>5. Adds(f, orders, p, k, side)
  BY <1>2, <1>4
<1>6. \A n : AmountTo(orders, n, p, k, side) = f[n]
  BY <1>4 DEF AmountTo
<1>7. \A i \in 0..Len(orders) :
         f[i] = IF i = 0 THEN 0
                ELSE f[i - 1] + (IF Rounded(orders[i][1], k.interval, side) = p THEN orders[i][2] ELSE 0)
  BY <1>5 DEF Adds
<1>8. f[0] = 0
  BY <1>1, <1>7
<1>9. ASSUME NEW n \in Nat, n + 1 \in 1..Len(orders)
      PROVE  f[n + 1] = f[n] + (IF GroupOf(orders, n + 1, k, side) = p THEN orders[n + 1][2] ELSE 0)
  <2>1. Rounded(orders[n + 1][1], k.interval, side) = GroupOf(orders, n + 1, k, side)
    BY <1>1, <1>9, GroupIsRounded DEF GroupOf
  <2>2. n + 1 \in 0..Len(orders) /\ n + 1 # 0 /\ (n + 1) - 1 = n
    BY <1>1, <1>9
  <2> QED
    BY <1>7, <2>1, <2>2
<1> QED
  BY <1>3, <1>6, <1>8, <1>9

\* One order more has at most one level more.
LEMMA GroupsGrow ==
    ASSUME NEW orders, NEW n \in Nat, NEW k, NEW side
    PROVE  /\ GroupsTo(orders, 0, k, side) = {}
           /\ GroupsTo(orders, n + 1, k, side) = GroupsTo(orders, n, k, side) \cup {GroupOf(orders, n + 1, k, side)}
<1>1. 1..(n + 1) = 1..n \cup {n + 1} /\ 1..0 = {}
  OBVIOUS
<1> QED
  BY <1>1 DEF GroupsTo

\* The amount of a price is positive if there is an order for it, and 0 otherwise.
LEMMA AmountOfGroups ==
    ASSUME NEW orders, SideOf(orders), NEW k, k.interval \in Nat, NEW side \in Side, NEW p,
           NEW n \in 0..Len(orders)
    PROVE  /\ AmountTo(orders, n, p, k, side) \in Nat
           /\ AmountTo(orders, n, p, k, side) # 0 <=> p \in GroupsTo(orders, n, k, side)
<1> DEFINE OK(m) == /\ AmountTo(orders, m, p, k, side) \in Nat
                    /\ AmountTo(orders, m, p, k, side) # 0 <=> p \in GroupsTo(orders, m, k, side)
           T == {m \in Nat : m <= Len(orders) => OK(m)}
<1>1. Len(orders) \in Nat /\ \A i \in 1..Len(orders) : orders[i][2] \in Nat \ {0}
  <2>1. Len(orders) \in Nat /\ \A i \in 1..Len(orders) : orders[i] \in Level
    BY ElementOfSeq DEF SideOf
  <2> QED
    BY <2>1 DEF Level
<1>2. 0 \in T
  <2>1. AmountTo(orders, 0, p, k, side) = 0
    BY AmountIs
  <2>2. GroupsTo(orders, 0, k, side) = {}
    BY GroupsGrow
  <2> QED
    BY <2>1, <2>2
<1>3. ASSUME NEW m \in Nat, m \in T PROVE m + 1 \in T
  <2> SUFFICES ASSUME m + 1 <= Len(orders) PROVE OK(m + 1)
    OBVIOUS
  <2>1. m + 1 \in 1..Len(orders) /\ (m + 1) - 1 = m /\ m <= Len(orders)
    BY <1>1
  <2>2. AmountTo(orders, m + 1, p, k, side)
        = AmountTo(orders, m, p, k, side)
          + (IF GroupOf(orders, m + 1, k, side) = p THEN orders[m + 1][2] ELSE 0)
    BY <2>1, AmountIs
  <2>3. GroupsTo(orders, m + 1, k, side) = GroupsTo(orders, m, k, side) \cup {GroupOf(orders, m + 1, k, side)}
    BY GroupsGrow
  <2>4. OK(m) /\ orders[m + 1][2] \in Nat \ {0}
    BY <1>1, <1>3, <2>1
  <2> QED
    BY <2>2, <2>3, <2>4
<1> HIDE DEF T
<1>4. n \in T
  <2>1. Nat \subseteq T
    BY <1>2, <1>3, SetInduction
  <2> QED
    BY <1>1, <2>1
<1> QED
  BY <1>1, <1>4 DEF T

\* What the loop has made of the first n orders: their best levels, with the whole of
\* their amounts
BestLevels(levels, orders, n, k, side) ==
    /\ Ordered(levels, k.limit, side)
    /\ \A i \in 1..Len(levels) :
          /\ levels[i][1] \in GroupsTo(orders, n, k, side)
          /\ levels[i][2] = AmountTo(orders, n, levels[i][1], k, side)
    /\ \A p \in GroupsTo(orders, n, k, side) :
          \/ \E i \in 1..Len(levels) : levels[i][1] = p
          \/ Len(levels) = k.limit /\ \A i \in 1..Len(levels) : Better(levels[i][1], p, side)

\* The next order, in the order of the skiplist, keeps it so.
LEMMA JoinIsBest ==
    ASSUME NEW side \in Side, NEW k, k.limit \in Nat \ {0}, k.interval \in Nat,
           NEW orders, SideOf(orders), InOrder(orders, side),
           NEW n \in Nat, n + 1 \in 1..Len(orders),
           NEW levels, BestLevels(levels, orders, n, k, side)
    PROVE  BestLevels(Join(levels, orders[n + 1], k, side), orders, n + 1, k, side)
<1> DEFINE order == orders[n + 1]
           price == orders[n + 1][1]
           g == GroupOf(orders, n + 1, k, side)
           G == GroupsTo(orders, n, k, side)
           A(p) == AmountTo(orders, n, p, k, side)
           B(p) == AmountTo(orders, n + 1, p, k, side)
           m == Len(levels)
           new == Join(levels, order, k, side)
<1>1. /\ DOMAIN orders = 1..Len(orders) /\ Len(orders) \in Nat
      /\ \A i \in 1..Len(orders) : orders[i] \in Level /\ orders[i][1] \in Int /\ orders[i][2] \in Nat \ {0}
  <2>1. DOMAIN orders = 1..Len(orders) /\ Len(orders) \in Nat /\ \A i \in 1..Len(orders) : orders[i] \in Level
    BY LenProperties, ElementOfSeq DEF SideOf
  <2> QED
    BY <2>1 DEF Level
<1>2. order \in Level /\ price \in Int /\ order[2] \in Nat \ {0}
  BY <1>1
<1>3. GroupsTo(orders, n + 1, k, side) = G \cup {g}
  BY GroupsGrow
<1>4. \A p : B(p) = A(p) + (IF g = p THEN order[2] ELSE 0)
  <2> TAKE p
  <2>1. AmountTo(orders, 0, p, k, side) = 0
    BY AmountIs
  <2> QED
    BY <2>1, AmountIs
<1>5. g \in Int /\ ~Better(g, price, side)
  BY <1>2, GroupIsNoBetter DEF GroupOf
<1>6. \A p : A(p) \in Nat /\ (A(p) # 0 <=> p \in G)
  <2>1. n \in 0..Len(orders)
    BY <1>1
  <2> QED
    BY <2>1, AmountOfGroups
<1>7. \A p \in G : p \in Int
  <2>1. \A j \in 1..n : GroupOf(orders, j, k, side) \in Int
    <3>1. \A j \in 1..n : j \in 1..Len(orders)
      BY <1>1
    <3> QED
      BY <1>1, <3>1, GroupIsNoBetter DEF GroupOf
  <2> QED
    BY <2>1 DEF GroupsTo
<1>8. ASSUME NEW p \in G, ~Better(p, price, side) PROVE g = p
  <2>1. PICK j \in 1..n : p = GroupOf(orders, j, k, side)
    BY DEF GroupsTo
  <2>2. j \in 1..Len(orders) /\ j < n + 1 /\ orders[j][1] \in Int
    BY <1>1
  <2>3. ~Better(price, orders[j][1], side)
    BY <1>1, <2>2 DEF InOrder
  <2> QED
    BY <1>2, <1>8, <2>1, <2>2, <2>3, GroupJoins DEF GroupOf
<1>9. /\ Ordered(levels, k.limit, side) /\ m \in Nat /\ levels \in Seq(Level)
      /\ \A i \in 1..m : levels[i][1] \in G /\ levels[i][2] = A(levels[i][1])
      /\ \A p \in G : \/ \E i \in 1..m : levels[i][1] = p
                      \/ m = k.limit /\ \A i \in 1..m : Better(levels[i][1], p, side)
  BY DEF BestLevels, Ordered
<1>10. Ordered(new, k.limit, side)
  BY <1>2, <1>9, JoinOrdered
<1>11. \A i, j \in 1..m : levels[i][1] = levels[j][1] => i = j
  BY <1>9, PricesDiffer
<1>12. \A i \in 1..m : i = m \/ Better(levels[i][1], levels[m][1], side)
  BY <1>9 DEF Ordered
<1>13. new = IF levels # <<>> /\ ~Better(Last(levels)[1], price, side)
             THEN [levels EXCEPT ![m][2] = @ + order[2]]
             ELSE IF m < k.limit THEN Append(levels, <<g, order[2]>>) ELSE levels
  BY DEF Join, GroupOf
<1>14. levels # <<>> => m \in 1..m /\ Last(levels) = levels[m]
  BY <1>9 DEF Last
<1> HIDE DEF order, price, g, G, A, B, m, new
<1>15. SUFFICES /\ \A i \in 1..Len(new) : new[i][1] \in G \cup {g} /\ new[i][2] = B(new[i][1])
                /\ \A p \in G \cup {g} :
                      \/ \E i \in 1..Len(new) : new[i][1] = p
                      \/ Len(new) = k.limit /\ \A i \in 1..Len(new) : Better(new[i][1], p, side)
  BY <1>3, <1>10 DEF BestLevels, new, order, G, B
<1>16. CASE levels # <<>> /\ ~Better(Last(levels)[1], price, side)
  <2>1. g = levels[m][1]
    BY <1>8, <1>9, <1>14, <1>16
  <2>2. g \in G
    BY <1>9, <1>14, <1>16, <2>1
  <2> DEFINE l == <<levels[m][1], levels[m][2] + order[2]>>
  <2>3. levels[m] \in Level
    BY <1>9, <1>14, <1>16, ElementOfSeq DEF m
  <2>4. l \in Level
    BY <1>2, <2>3 DEF Level
  <2>5. new = [levels EXCEPT ![m] = l]
    <3>1. PICK a \in Int, b \in Nat : levels[m] = <<a, b>>
      BY <2>3 DEF Level
    <3>2. [levels[m] EXCEPT ![2] = levels[m][2] + order[2]] = l
      BY <3>1
    <3>3. new = [levels EXCEPT ![m] = [levels[m] EXCEPT ![2] = levels[m][2] + order[2]]]
      BY <1>13, <1>16
    <3> QED
      BY <3>2, <3>3
  <2> HIDE DEF l
  <2>6. Len(new) = m /\ \A j \in 1..m : new[j] = IF j = m THEN l ELSE levels[j]
    BY <1>9, <1>14, <1>16, <2>4, <2>5, ExceptSeq DEF m
  <2>7. \A i \in 1..m : new[i][1] = levels[i][1]
    BY <2>6 DEF l
  <2>8. ASSUME NEW i \in 1..m PROVE new[i][2] = B(levels[i][1])
    <3>1. CASE i = m
      <4>1. new[i][2] = levels[m][2] + order[2]
        BY <2>6, <3>1 DEF l
      <4>2. levels[m][2] = A(levels[m][1])
        BY <1>9, <2>8, <3>1
      <4>3. B(g) = A(g) + order[2]
        BY <1>4
      <4> QED
        BY <2>1, <3>1, <4>1, <4>2, <4>3
    <3>2. CASE i # m
      <4>1. levels[i][1] # g
        BY <1>11, <1>14, <1>16, <2>1, <3>2
      <4>2. B(levels[i][1]) = A(levels[i][1]) + 0
        BY <1>4, <4>1
      <4>3. new[i][2] = A(levels[i][1]) /\ A(levels[i][1]) \in Nat
        BY <1>6, <1>9, <2>6, <3>2
      <4> QED
        BY <4>2, <4>3
    <3> QED
      BY <3>1, <3>2
  <2>9. \A i \in 1..m : levels[i][1] \in G
    BY <1>9
  <2>10. \A p \in G \cup {g} :
            \/ \E i \in 1..m : levels[i][1] = p
            \/ m = k.limit /\ \A i \in 1..m : Better(levels[i][1], p, side)
    BY <1>9, <2>2
  <2>11. \A i \in 1..m : new[i][1] \in G \cup {g} /\ new[i][2] = B(new[i][1])
    BY <2>7, <2>8, <2>9
  <2>12. \A p \in G \cup {g} :
            \/ \E i \in 1..m : new[i][1] = p
            \/ m = k.limit /\ \A i \in 1..m : Better(new[i][1], p, side)
    BY <2>7, <2>10
  <2> QED
    BY <2>6, <2>11, <2>12
<1>17. CASE levels = <<>> \/ Better(Last(levels)[1], price, side)
  <2>1. ASSUME NEW i \in 1..m PROVE Better(levels[i][1], g, side)
    <3>1. levels # <<>>
      BY <1>9, <2>1 DEF m
    <3>2. Better(levels[m][1], price, side)
      BY <1>14, <1>17, <3>1
    <3>3. levels[m][1] \in Int /\ levels[i][1] \in Int
      BY <1>7, <1>9, <1>14, <2>1, <3>1
    <3>4. g = price \/ Better(price, g, side)
      BY <1>2, <1>5, BetterOrders
    <3>5. Better(levels[m][1], g, side)
      BY <1>2, <1>5, <3>2, <3>3, <3>4, BetterOrders
    <3>6. i = m \/ Better(levels[i][1], levels[m][1], side)
      BY <1>12, <2>1
    <3> QED
      BY <1>5, <3>3, <3>5, <3>6, BetterOrders
  <2>2. \A i \in 1..m : levels[i][1] # g
    BY <1>5, <2>1, BetterOrders
  <2>3. ASSUME NEW i \in 1..m PROVE levels[i][2] = B(levels[i][1]) /\ levels[i][1] \in G
    <3>1. B(levels[i][1]) = A(levels[i][1]) + 0
      BY <1>4, <2>2
    <3>2. levels[i][2] = A(levels[i][1]) /\ A(levels[i][1]) \in Nat /\ levels[i][1] \in G
      BY <1>6, <1>9
    <3> QED
      BY <3>1, <3>2
  <2>4. CASE m < k.limit
    <3> DEFINE opened == <<g, order[2]>>
    <3>1. new = Append(levels, opened)
      BY <1>13, <1>17, <2>4
    <3>2. g \notin G
      BY <1>9, <2>2, <2>4
    <3>3. opened[1] = g /\ opened[2] = B(g)
      <4>1. A(g) = 0
        BY <1>6, <3>2
      <4>2. B(g) = A(g) + order[2]
        BY <1>4
      <4> QED
        BY <1>2, <4>1, <4>2
    <3> HIDE DEF opened
    <3>4. Len(new) = m + 1 /\ \A j \in 1..(m + 1) : new[j] = IF j <= m THEN levels[j] ELSE opened
      <4>1. PICK S : levels \in Seq(S) /\ opened \in S
        <5>1. levels \in Seq(Level \cup {opened})
          BY <1>9, SeqMonotonic
        <5> QED
          BY <5>1
      <4> QED
        BY <3>1, <4>1, AppendProperties DEF m
    <3>5. ASSUME NEW i \in 1..(m + 1) PROVE new[i][1] \in G \cup {g} /\ new[i][2] = B(new[i][1])
      <4>1. CASE i <= m
        <5>1. i \in 1..m /\ new[i] = levels[i]
          BY <1>9, <3>4, <4>1
        <5> QED
          BY <2>3, <5>1
      <4>2. CASE ~(i <= m)
        BY <3>3, <3>4, <4>2
      <4> QED
        BY <4>1, <4>2
    <3>6. ASSUME NEW p \in G \cup {g} PROVE \E i \in 1..(m + 1) : new[i][1] = p
      <4>1. CASE p = g
        <5>1. m + 1 \in 1..(m + 1) /\ ~(m + 1 <= m)
          BY <1>9
        <5> QED
          BY <3>3, <3>4, <4>1, <5>1
      <4>2. CASE p # g
        <5>1. PICK i \in 1..m : levels[i][1] = p
          BY <1>9, <2>4, <4>2
        <5>2. i \in 1..(m + 1) /\ i <= m
          BY <1>9
        <5> QED
          BY <3>4, <5>1, <5>2
      <4> QED
        BY <4>1, <4>2
    <3> QED
      BY <3>4, <3>5, <3>6
  <2>5. CASE ~(m < k.limit)
    <3>1. new = levels
      BY <1>13, <1>17, <2>5
    <3>2. m = k.limit
      BY <1>9, <2>5 DEF Ordered, m
    <3> QED
      BY <1>9, <2>1, <2>3, <3>1, <3>2 DEF m
  <2> QED
    BY <2>4, <2>5
<1> QED
  BY <1>16, <1>17

\* The loops over the skiplist give the levels of the reference (get_depth, get_depth_merge).
LEMMA GroupedIsLevels ==
    ASSUME NEW side \in Side, NEW k, k.limit \in Nat \ {0}, k.interval \in Nat,
           NEW orders, SideOf(orders), InOrder(orders, side)
    PROVE  Grouped(orders, k, side) = Levels(orders, k, side)
<1> DEFINE N == Len(orders)
           G == GroupsTo(orders, N, k, side)
           A(p) == Amount(orders, p, k, side)
           S == {<<p, A(p)>> : p \in G}
<1>1. /\ N \in Nat /\ DOMAIN orders = 1..N
      /\ \A i \in 1..N : orders[i][1] \in Int
  <2>1. N \in Nat /\ DOMAIN orders = 1..N /\ \A i \in 1..N : orders[i] \in Level
    BY LenProperties, ElementOfSeq DEF SideOf
  <2> QED
    BY <2>1 DEF Level
<1>2. \E f : Loop(f, orders, k, side)
  BY <1>1, LoopRuns
<1>3. \E f : Loop(f, orders, k, side) /\ Grouped(orders, k, side) = f[Len(orders)]
  BY <1>2 DEF Grouped, Loop
<1>4. PICK f : Loop(f, orders, k, side) /\ Grouped(orders, k, side) = f[Len(orders)]
  BY <1>3
<1>5. \A i \in 0..N : f[i] = IF i = 0 THEN <<>> ELSE Join(f[i - 1], orders[i], k, side)
  BY <1>4 DEF Loop
<1> DEFINE T == {n \in Nat : n <= N => BestLevels(f[n], orders, n, k, side)}
<1>6. 0 \in T
  <2>1. f[0] = <<>>
    BY <1>1, <1>5
  <2>2. GroupsTo(orders, 0, k, side) = {}
    BY GroupsGrow
  <2>3. BestLevels(<<>>, orders, 0, k, side)
    BY <2>2 DEF BestLevels, Ordered
  <2> QED
    BY <2>1, <2>3
<1>7. ASSUME NEW n \in Nat, n \in T PROVE n + 1 \in T
  <2> SUFFICES ASSUME n + 1 <= N PROVE BestLevels(f[n + 1], orders, n + 1, k, side)
    OBVIOUS
  <2>1. n + 1 \in 1..N /\ n + 1 \in 0..N /\ n + 1 # 0 /\ (n + 1) - 1 = n /\ n <= N
    BY <1>1
  <2>2. BestLevels(f[n], orders, n, k, side)
    BY <1>7, <2>1
  <2>3. f[n + 1] = Join(f[n], orders[n + 1], k, side)
    BY <1>5, <2>1
  <2>4. BestLevels(Join(f[n], orders[n + 1], k, side), orders, n + 1, k, side)
    BY <2>1, <2>2, JoinIsBest
  <2> QED
    BY <2>3, <2>4
<1>8. PICK list : list = Grouped(orders, k, side)
  OBVIOUS
<1>9. BestLevels(list, orders, N, k, side)
  <2>1. Nat \subseteq T
    <3> HIDE DEF T
    <3> QED
      BY <1>6, <1>7, SetInduction
  <2>2. BestLevels(f[N], orders, N, k, side)
    BY <1>1, <2>1
  <2> QED
    BY <1>4, <1>8, <2>2
<1> HIDE DEF T, N
<1>10. \A p : AmountTo(orders, N, p, k, side) = A(p)
  BY AmountIs DEF N
<1> HIDE DEF A
<1>11. \A p \in G : A(p) \in Nat \ {0} /\ p \in Int
  <2>1. N \in 0..N
    BY <1>1
  <2>2. \A p \in G : AmountTo(orders, N, p, k, side) \in Nat \ {0}
    BY <2>1, AmountOfGroups DEF N
  <2>3. \A j \in 1..N : GroupOf(orders, j, k, side) \in Int
    BY <1>1, GroupIsNoBetter DEF GroupOf
  <2> QED
    BY <1>10, <2>2, <2>3 DEF GroupsTo
<1>12. {Rounded(orders[i][1], k.interval, side) : i \in DOMAIN orders} = G
  <2>1. \A i \in 1..N : Rounded(orders[i][1], k.interval, side) = GroupOf(orders, i, k, side)
    BY <1>1, GroupIsRounded DEF GroupOf
  <2> QED
    BY <1>1, <2>1 DEF GroupsTo
<1>13. Levels(orders, k, side) = Cut(Sorted(S, side), k.limit)
  BY <1>12 DEF Levels, A
<1> HIDE DEF G
<1>14. /\ Ordered(list, k.limit, side) /\ list \in Seq(Level) /\ DOMAIN list = 1..Len(list)
       /\ \A i \in 1..Len(list) : list[i][1] \in G /\ list[i][2] = A(list[i][1]) /\ list[i] \in Level
       /\ \A p \in G : \/ \E i \in 1..Len(list) : list[i][1] = p
                       \/ Len(list) = k.limit /\ \A i \in 1..Len(list) : Better(list[i][1], p, side)
  <2>1. Ordered(list, k.limit, side) /\ list \in Seq(Level) /\ DOMAIN list = 1..Len(list)
    BY <1>9, LenProperties DEF BestLevels, Ordered
  <2>2. \A i \in 1..Len(list) : list[i] \in Level
    BY <2>1, ElementOfSeq
  <2> QED
    BY <1>9, <1>10, <2>1, <2>2 DEF BestLevels, G
<1> DEFINE W == {l \in S : l \notin LevelsOf(list)}
<1>15. LevelsOf(list) \subseteq S
  <2>1. ASSUME NEW i \in 1..Len(list) PROVE list[i] \in S
    <3>1. list[i] = <<list[i][1], list[i][2]>>
      BY <1>14 DEF Level
    <3> QED
      BY <1>14, <3>1
  <2> QED
    BY <1>14, <2>1 DEF LevelsOf
<1>16. S = LevelsOf(list) \cup W
  BY <1>15
<1>17. S \subseteq Level
  BY <1>11 DEF Level
<1>18. IsFiniteSet(S)
  <2> DEFINE h == [j \in 1..N |-> <<GroupOf(orders, j, k, side), A(GroupOf(orders, j, k, side))>>]
  <2>1. h \in Surjection(1..N, S)
    <3>1. S = {h[j] : j \in 1..N}
      BY DEF G, GroupsTo
    <3>2. h = [j \in 1..N |-> h[j]]
      OBVIOUS
    <3> HIDE DEF h, S
    <3> QED
      BY <3>1, <3>2 DEF Surjection
  <2>2. IsFiniteSet(1..N)
    BY <1>1, FS_Interval
  <2> HIDE DEF h, S
  <2> QED
    BY <2>1, <2>2, FS_Surjection
<1>19. ASSUME NEW w \in W
       PROVE  Len(list) = k.limit /\ \A i \in 1..Len(list) : Better(list[i][1], w[1], side)
  <2>1. w[1] \in G /\ w = <<w[1], A(w[1])>>
    OBVIOUS
  <2>2. ASSUME NEW i \in 1..Len(list), list[i][1] = w[1] PROVE FALSE
    <3>1. list[i] = <<list[i][1], list[i][2]>>
      BY <1>14 DEF Level
    <3>2. list[i] = w
      BY <1>14, <2>1, <2>2, <3>1
    <3> QED
      BY <1>14, <3>2 DEF LevelsOf
  <2> QED
    BY <1>14, <2>1, <2>2
<1> HIDE DEF S
<1>20. /\ W \in SUBSET Level /\ IsFiniteSet(W) /\ (Len(list) < k.limit => W = {})
       /\ \A w \in W : \A i \in 1..Len(list) : Better(list[i][1], w[1], side)
  <2>1. W \in SUBSET S
    OBVIOUS
  <2>2. IsFiniteSet(W)
    BY <1>18, <2>1, FS_Subset
  <2>3. Len(list) < k.limit => W = {}
    BY <1>19
  <2>4. W \in SUBSET Level
    BY <1>17, <2>1
  <2> QED
    BY <1>19, <2>2, <2>3, <2>4
<1> HIDE DEF W
<1>21. Cut(Sorted(S, side), k.limit) = list
  BY <1>14, <1>16, <1>20, CutSorted
<1> QED
  BY <1>8, <1>13, <1>21

-----------------------------------------------------------------------------
(* The invariant *)

\* A depth that the key k allows, and what may be sent or held for one
IsDepth(d, k) ==
    /\ d = [asks |-> d.asks, bids |-> d.bids]
    /\ Ordered(d.asks, k.limit, 1) /\ Ordered(d.bids, k.limit, -1)
DepthOrNone(d, k) == d = NoDepth \/ IsDepth(d, k)

IsSequence(s) == \E S : s \in Seq(S)
RepliesOK(queue) ==
    /\ IsSequence(queue)
    /\ \A i \in 1..Len(queue) : queue[i].key \in Key => DepthOrNone(queue[i].result, queue[i].key)

BookOK ==
    /\ SideOf(asks) /\ InOrder(asks, 1)
    /\ SideOf(bids) /\ InOrder(bids, -1)
CacheOK == \A k \in DOMAIN meCache : k \in Key => IsDepth(meCache[k], k)

\* A client listens to one key.
KeysOK ==
    /\ DOMAIN depth \subseteq Key /\ DOMAIN view = Client
    /\ \A k \in DOMAIN depth :
          /\ depth[k] = [sessions |-> depth[k].sessions, last |-> depth[k].last, due |-> depth[k].due]
          /\ depth[k].sessions \subseteq Client /\ DepthOrNone(depth[k].last, k)
    /\ \A k, l \in DOMAIN depth : \A c \in depth[k].sessions \cap depth[l].sessions : k = l

DepthInv == BookOK /\ CacheOK /\ RepliesOK(replies) /\ KeysOK /\ ViewIsLast

\* A subscription has a limit and an interval (on_method_depth_subscribe).
LEMMA KeyIs == ASSUME NEW k \in Key PROVE k.limit \in Nat \ {0} /\ k.interval \in Nat
BY DepthAssumption DEF Key

\* What the matchengine computes is a depth.
LEMMA MergeIsDepth == ASSUME BookOK, NEW k \in Key PROVE IsDepth(GetDepthMerge(k), k)
<1>1. k.limit \in Nat /\ k.interval \in Nat
  BY KeyIs
<1>2. Ordered(Grouped(asks, k, 1), k.limit, 1) /\ Ordered(Grouped(bids, k, -1), k.limit, -1)
  BY <1>1, GroupedOrdered DEF BookOK, Side
<1> QED
  BY <1>2 DEF GetDepthMerge, IsDepth

\* A client that follows the changes has the new depth.
LEMMA UpdatedIs ==
    ASSUME NEW k \in Key, NEW a, IsDepth(a, k), NEW b, IsDepth(b, k)
    PROVE  Updated(a, GetDepthDiff(a, b, k), k) = b
<1>1. k.limit \in Nat
  BY KeyIs
<1>2. /\ Apply(a.asks, GetListDiff(a.asks, b.asks, k.limit, 1), k.limit, 1) = b.asks
      /\ Apply(a.bids, GetListDiff(a.bids, b.bids, k.limit, -1), k.limit, -1) = b.bids
  BY <1>1, DiffIsExact DEF IsDepth, Side
<1> QED
  BY <1>2 DEF Updated, GetDepthDiff, IsDepth

\* A list with one element less
LEMMA RemovedIs ==
    ASSUME NEW S, NEW s \in Seq(S), NEW i \in 1..Len(s)
    PROVE  /\ RemoveAt(s, i) \in Seq(S) /\ Len(RemoveAt(s, i)) = Len(s) - 1
           /\ \A j \in 1..(Len(s) - 1) : RemoveAt(s, i)[j] = s[IF j < i THEN j ELSE j + 1]
<1> DEFINE a == SubSeq(s, 1, i - 1)
           b == SubSeq(s, i + 1, Len(s))
<1>1. Len(s) \in Nat /\ i \in Nat /\ i <= Len(s) /\ 1 <= i
  OBVIOUS
<1>2. \A j \in 1..Len(s) : s[j] \in S
  OBVIOUS
<1>3. /\ a \in Seq(S) /\ Len(a) = (IF 1 <= i - 1 THEN i - 1 - 1 + 1 ELSE 0)
      /\ \A j \in 1..(i - 1 - 1 + 1) : a[j] = s[1 + j - 1]
  <2>1. \A j \in 1..(i - 1) : s[j] \in S
    BY <1>1, <1>2
  <2>2. i - 1 \in Int /\ 1 \in Int
    BY <1>1
  <2> QED
    BY <2>1, <2>2, SubSeqProperties
<1>4. /\ b \in Seq(S) /\ Len(b) = (IF i + 1 <= Len(s) THEN Len(s) - (i + 1) + 1 ELSE 0)
      /\ \A j \in 1..(Len(s) - (i + 1) + 1) : b[j] = s[(i + 1) + j - 1]
  <2>1. \A j \in (i + 1)..Len(s) : s[j] \in S
    BY <1>1, <1>2
  <2>2. i + 1 \in Int /\ Len(s) \in Int
    BY <1>1
  <2> QED
    BY <2>1, <2>2, SubSeqProperties
<1>5. RemoveAt(s, i) = a \o b
  BY DEF RemoveAt
<1> HIDE DEF a, b
<1>6. /\ a \o b \in Seq(S) /\ Len(a \o b) = Len(a) + Len(b)
      /\ \A j \in 1..(Len(a) + Len(b)) : (a \o b)[j] = IF j <= Len(a) THEN a[j] ELSE b[j - Len(a)]
  BY <1>3, <1>4, ConcatProperties
<1>7. Len(a) = i - 1 /\ Len(b) = Len(s) - i
  BY <1>1, <1>3, <1>4
<1>8. ASSUME NEW j \in 1..(Len(s) - 1) PROVE (a \o b)[j] = s[IF j < i THEN j ELSE j + 1]
  <2>1. CASE j < i
    <3>1. j \in 1..(i - 1 - 1 + 1) /\ 1 + j - 1 = j
      BY <1>1, <2>1
    <3>2. (a \o b)[j] = a[j]
      BY <1>1, <1>6, <1>7, <2>1
    <3> QED
      BY <1>3, <2>1, <3>1, <3>2
  <2>2. CASE ~(j < i)
    <3> DEFINE h == j - (i - 1)
    <3>1. h \in 1..(Len(s) - (i + 1) + 1) /\ (i + 1) + h - 1 = j + 1
      BY <1>1, <2>2
    <3>2. (a \o b)[j] = b[h]
      BY <1>1, <1>6, <1>7, <2>2
    <3> QED
      BY <1>4, <2>2, <3>1, <3>2
  <2> QED
    BY <2>1, <2>2
<1>9. Len(a \o b) = Len(s) - 1
  BY <1>1, <1>6, <1>7
<1> QED
  BY <1>5, <1>6, <1>8, <1>9

\* Without one of its orders a side is in its order.
LEMMA RemovedInOrder ==
    ASSUME NEW list, SideOf(list), NEW side, InOrder(list, side), NEW i \in DOMAIN list
    PROVE  SideOf(RemoveAt(list, i)) /\ InOrder(RemoveAt(list, i), side)
<1> DEFINE at(j) == IF j < i THEN j ELSE j + 1
<1>1. list \in Seq(Level) /\ Len(list) \in Nat /\ DOMAIN list = 1..Len(list) /\ i \in 1..Len(list)
  BY DEF SideOf
<1>2. PICK s : s = RemoveAt(list, i)
  OBVIOUS
<1>3. /\ s \in Seq(Level) /\ Len(s) = Len(list) - 1
      /\ \A j \in 1..(Len(list) - 1) : s[j] = list[at(j)]
  BY <1>1, <1>2, RemovedIs
<1>4. DOMAIN s = 1..(Len(list) - 1)
  BY <1>3
<1>5. ASSUME NEW h \in DOMAIN s, NEW j \in DOMAIN s, h < j PROVE ~Better(s[j][1], s[h][1], side)
  <2>1. at(h) \in 1..Len(list) /\ at(j) \in 1..Len(list) /\ at(h) < at(j)
    BY <1>1, <1>4, <1>5
  <2>2. ~Better(list[at(j)][1], list[at(h)][1], side)
    BY <1>1, <2>1 DEF InOrder
  <2> QED
    BY <1>3, <1>4, <2>2
<1> QED
  BY <1>2, <1>3, <1>5 DEF SideOf, InOrder

\* Numbers from 1 without a gap are as many as the last of them.
LEMMA PrefixIs ==
    ASSUME NEW n \in Nat, NEW T \in SUBSET (1..n),
           \A i \in T : \A j \in 1..n : j < i => j \in T
    PROVE  T = 1..Cardinality(T) /\ Cardinality(T) \in 0..n
<1> DEFINE U == (1..(n + 1)) \ T
<1>1. n + 1 \in U /\ U \subseteq Nat
  OBVIOUS
<1> HIDE DEF U
<1>2. PICK x \in U : \A m \in U : ~(<<m, x>> \in OpToRel(<, Nat))
  BY <1>1, NatLessThanWellFounded, WFMin
<1>3. \A m \in U : ~(m < x)
  BY <1>1, <1>2 DEF OpToRel
<1>4. x \in 1..(n + 1) /\ x \notin T
  BY DEF U
<1>5. T = 1..(x - 1)
  <2>1. ASSUME NEW i \in 1..(x - 1) PROVE i \in T
    <3>1. i \in 1..(n + 1) /\ i < x
      BY <1>4
    <3> QED
      BY <1>3, <3>1 DEF U
  <2>2. ASSUME NEW i \in T PROVE i \in 1..(x - 1)
    <3>1. i \in 1..n /\ (x < i => x \in 1..n)
      BY <1>4
    <3>2. ~(x < i) /\ x # i
      BY <1>4, <3>1
    <3> QED
      BY <1>4, <3>1, <3>2
  <2> QED
    BY <2>1, <2>2
<1>6. x - 1 \in 0..n
  BY <1>4
<1>7. Cardinality(1..(x - 1)) = x - 1
  <2>1. 1 \in Int /\ x - 1 \in Int
    BY <1>6
  <2>2. Cardinality(1..(x - 1)) = IF 1 > x - 1 THEN 0 ELSE (x - 1) - 1 + 1
    BY <2>1, FS_Interval
  <2> QED
    BY <1>6, <2>2
<1> QED
  BY <1>5, <1>6, <1>7

\* skiplist_insert keeps a side in its order.
LEMMA PlaceIs ==
    ASSUME NEW list, SideOf(list), NEW order \in Level, NEW side \in Side, InOrder(list, side)
    PROVE  SideOf(Place(list, order, side)) /\ InOrder(Place(list, order, side), side)
<1> DEFINE T == {i \in DOMAIN list : ~Better(order[1], list[i][1], side)}
           n == Cardinality(T)
           N == Len(list)
<1>1. list \in Seq(Level) /\ N \in Nat /\ DOMAIN list = 1..N /\ order[1] \in Int
  BY LenProperties DEF SideOf, Level
<1>2. \A i \in 1..N : list[i] \in Level /\ list[i][1] \in Int
  <2>1. \A i \in 1..N : list[i] \in Level
    BY <1>1, ElementOfSeq
  <2> QED
    BY <2>1 DEF Level
<1>3. \A i, j \in 1..N : i < j => ~Better(list[j][1], list[i][1], side)
  BY <1>1 DEF InOrder
<1>4. T = 1..n /\ n \in 0..N
  <2>1. ASSUME NEW i \in T, NEW j \in 1..N, j < i PROVE j \in T
    <3>1. i \in 1..N /\ ~Better(order[1], list[i][1], side)
      BY <1>1
    <3>2. ~Better(list[i][1], list[j][1], side)
      BY <1>3, <2>1, <3>1
    <3>3. list[i][1] = list[j][1] \/ Better(list[j][1], list[i][1], side)
      BY <1>2, <3>1, <3>2, BetterOrders
    <3>4. ~Better(order[1], list[j][1], side)
      BY <1>1, <1>2, <3>1, <3>3, BetterOrders
    <3> QED
      BY <1>1, <3>4
  <2>2. T \in SUBSET (1..N)
    BY <1>1
  <2> HIDE DEF T, N
  <2> QED
    BY <1>1, <2>1, <2>2, PrefixIs
<1>5. ASSUME NEW i \in 1..N
      PROVE  IF i <= n THEN ~Better(order[1], list[i][1], side) ELSE ~Better(list[i][1], order[1], side)
  <2>1. i \in T <=> i <= n
    BY <1>4
  <2>2. i \in T <=> ~Better(order[1], list[i][1], side)
    BY <1>1
  <2> HIDE DEF T, n
  <2>3. ~(Better(order[1], list[i][1], side) /\ Better(list[i][1], order[1], side))
    BY <1>1, <1>2, BetterOrders
  <2> QED
    BY <2>1, <2>2, <2>3
<1> DEFINE a == SubSeq(list, 1, n)
           b == SubSeq(list, n + 1, N)
<1>6. Place(list, order, side) = a \o <<order>> \o b
  BY DEF Place
<1> HIDE DEF T, n, N
<1>7. a \in Seq(Level) /\ Len(a) = n /\ \A i \in 1..n : a[i] = list[i]
  <2>1. \A i \in 1..n : list[i] \in Level
    BY <1>1, <1>2, <1>4
  <2>2. /\ a \in Seq(Level) /\ Len(a) = IF 1 <= n THEN n - 1 + 1 ELSE 0
        /\ \A i \in 1..(n - 1 + 1) : a[i] = list[1 + i - 1]
    BY <1>4, <2>1, SubSeqProperties
  <2> HIDE DEF a
  <2> QED
    BY <1>1, <1>4, <2>2
<1>8. b \in Seq(Level) /\ Len(b) = N - n /\ \A i \in 1..(N - n) : b[i] = list[n + i]
  <2>1. \A i \in (n + 1)..N : list[i] \in Level
    BY <1>1, <1>2, <1>4
  <2>2. /\ b \in Seq(Level) /\ Len(b) = IF n + 1 <= N THEN N - (n + 1) + 1 ELSE 0
        /\ \A i \in 1..(N - (n + 1) + 1) : b[i] = list[(n + 1) + i - 1]
    BY <1>1, <1>4, <2>1, SubSeqProperties
  <2> HIDE DEF b
  <2>3. \A i \in 1..(N - n) : (n + 1) + i - 1 = n + i /\ i \in 1..(N - (n + 1) + 1)
    BY <1>1, <1>4
  <2> QED
    BY <1>1, <1>4, <2>2, <2>3
<1> HIDE DEF a, b
<1>9. /\ a \o <<order>> \in Seq(Level) /\ Len(a \o <<order>>) = n + 1
      /\ \A i \in 1..(n + 1) : (a \o <<order>>)[i] = IF i <= n THEN a[i] ELSE order
  <2>1. a \o <<order>> = Append(a, order)
    BY <1>7, AppendIsConcat
  <2> QED
    BY <1>7, <2>1, AppendProperties
<1>10. PICK c \in Seq(Level) : c = a \o <<order>>
  BY <1>9
<1>11. PICK s : s = c \o b
  OBVIOUS
<1>12. /\ s \in Seq(Level) /\ Len(s) = N + 1
       /\ \A i \in 1..(N + 1) : s[i] = IF i <= n + 1 THEN c[i] ELSE b[i - (n + 1)]
  <2>1. /\ c \o b \in Seq(Level) /\ Len(c \o b) = Len(c) + Len(b)
        /\ \A i \in 1..(Len(c) + Len(b)) : (c \o b)[i] = IF i <= Len(c) THEN c[i] ELSE b[i - Len(c)]
    BY <1>8, ConcatProperties
  <2>2. Len(c) = n + 1
    BY <1>9, <1>10
  <2>3. (n + 1) + (N - n) = N + 1
    BY <1>1, <1>4
  <2>4. Len(c) + Len(b) = N + 1
    BY <1>8, <2>2, <2>3
  <2> QED
    BY <1>11, <2>1, <2>2, <2>4
<1>13. \A i \in 1..(N + 1) : s[i] = IF i <= n THEN list[i] ELSE IF i = n + 1 THEN order ELSE list[i - 1]
  <2> TAKE i \in 1..(N + 1)
  <2>1. CASE i <= n
    BY <1>4, <1>7, <1>9, <1>10, <1>12, <2>1
  <2>2. CASE i = n + 1
    BY <1>4, <1>9, <1>10, <1>12, <2>2
  <2>3. CASE i > n + 1
    <3>1. i - (n + 1) \in 1..(N - n) /\ n + (i - (n + 1)) = i - 1 /\ ~(i <= n + 1)
      BY <1>1, <1>4, <2>3
    <3>2. s[i] = b[i - (n + 1)]
      BY <1>12, <3>1
    <3>3. b[i - (n + 1)] = list[n + (i - (n + 1))]
      BY <1>8, <3>1
    <3> QED
      BY <1>4, <2>3, <3>1, <3>2, <3>3
  <2> QED
    BY <1>1, <1>4, <2>1, <2>2, <2>3
<1>14. ASSUME NEW i \in 1..(N + 1), NEW j \in 1..(N + 1), i < j PROVE ~Better(s[j][1], s[i][1], side)
  <2>1. CASE i # n + 1 /\ j # n + 1
    <3> DEFINE h == IF i <= n THEN i ELSE i - 1
               m == IF j <= n THEN j ELSE j - 1
    <3>1. h \in 1..N /\ m \in 1..N /\ h < m
      BY <1>1, <1>4, <1>14, <2>1
    <3>2. s[i] = list[h] /\ s[j] = list[m]
      BY <1>13, <2>1
    <3> HIDE DEF h, m
    <3> QED
      BY <1>3, <3>1, <3>2
  <2>2. CASE i = n + 1
    <3>1. s[i] = order /\ s[j] = list[j - 1] /\ j - 1 \in 1..N /\ ~(j - 1 <= n)
      BY <1>1, <1>4, <1>13, <1>14, <2>2
    <3> QED
      BY <1>5, <3>1
  <2>3. CASE j = n + 1
    <3>1. s[j] = order /\ s[i] = list[i] /\ i \in 1..N /\ i <= n
      BY <1>1, <1>4, <1>13, <1>14, <2>3
    <3> QED
      BY <1>5, <3>1
  <2> QED
    BY <2>1, <2>2, <2>3
<1>15. DOMAIN s = 1..(N + 1)
  BY <1>12
<1> QED
  BY <1>6, <1>10, <1>11, <1>12, <1>14, <1>15 DEF SideOf, InOrder

\* The book stays two sides in their order.
LEMMA BookStays == ASSUME BookOK, BookChanges PROVE BookOK'
<1>1. /\ AskPrices \cup BidPrices \cup Amounts \subseteq Nat \ {0}
      /\ asks \in Seq(Level) /\ bids \in Seq(Level)
      /\ SideOf(asks) /\ InOrder(asks, 1) /\ SideOf(bids) /\ InOrder(bids, -1)
      /\ 1 \in Side /\ -1 \in Side
  BY DepthAssumption DEF BookOK, SideOf, Side
<1>2. ASSUME NEW p \in AskPrices, NEW a \in Amounts, asks' = Place(asks, <<p, a>>, 1), UNCHANGED bids
      PROVE  BookOK'
  <2>1. <<p, a>> \in Level
    BY <1>1 DEF Level
  <2>2. SideOf(Place(asks, <<p, a>>, 1)) /\ InOrder(Place(asks, <<p, a>>, 1), 1)
    BY <1>1, <2>1, PlaceIs
  <2> QED
    BY <1>1, <1>2, <2>2 DEF BookOK, SideOf, InOrder
<1>3. ASSUME NEW p \in BidPrices, NEW a \in Amounts, bids' = Place(bids, <<p, a>>, -1), UNCHANGED asks
      PROVE  BookOK'
  <2>1. <<p, a>> \in Level
    BY <1>1 DEF Level
  <2>2. SideOf(Place(bids, <<p, a>>, -1)) /\ InOrder(Place(bids, <<p, a>>, -1), -1)
    BY <1>1, <2>1, PlaceIs
  <2> QED
    BY <1>1, <1>3, <2>2 DEF BookOK, SideOf, InOrder
<1>4. ASSUME NEW i \in DOMAIN asks, NEW a \in Amounts, asks' = [asks EXCEPT ![i][2] = a], UNCHANGED bids
      PROVE  BookOK'
  <2>1. asks[i] \in Level /\ DOMAIN asks = 1..Len(asks)
    BY <1>1
  <2>2. PICK l \in Level : l = [asks[i] EXCEPT ![2] = a] /\ l[1] = asks[i][1]
    <3>1. PICK p \in Int, n \in Nat \ {0} : asks[i] = <<p, n>>
      BY <2>1 DEF Level
    <3>2. [asks[i] EXCEPT ![2] = a] = <<p, a>>
      BY <3>1
    <3>3. <<p, a>> \in Level /\ <<p, a>>[1] = p
      BY <1>1 DEF Level
    <3> QED
      BY <3>1, <3>2, <3>3
  <2>3. asks' = [asks EXCEPT ![i] = l]
    BY <1>4, <2>2
  <2>4. asks' \in Seq(Level)
    BY <1>1, <2>3
  <2>5. DOMAIN asks' = DOMAIN asks /\ \A j \in DOMAIN asks : asks'[j][1] = asks[j][1]
    BY <2>2, <2>3
  <2>6. InOrder(asks', 1)
    BY <1>1, <2>5 DEF InOrder
  <2> QED
    BY <1>1, <1>4, <2>4, <2>6 DEF BookOK, SideOf, InOrder
<1>5. ASSUME NEW i \in DOMAIN asks, asks' = RemoveAt(asks, i), UNCHANGED bids PROVE BookOK'
  <2>1. SideOf(RemoveAt(asks, i)) /\ InOrder(RemoveAt(asks, i), 1)
    BY <1>1, RemovedInOrder
  <2> QED
    BY <1>1, <1>5, <2>1 DEF BookOK, SideOf, InOrder
<1>6. ASSUME NEW i \in DOMAIN bids, bids' = RemoveAt(bids, i), UNCHANGED asks PROVE BookOK'
  <2>1. SideOf(RemoveAt(bids, i)) /\ InOrder(RemoveAt(bids, i), -1)
    BY <1>1, RemovedInOrder
  <2> QED
    BY <1>1, <1>6, <2>1 DEF BookOK, SideOf, InOrder
<1> QED
  BY <1>2, <1>3, <1>4, <1>5, <1>6 DEF BookChanges

\* An answer of the matchengine, computed or from its cache, is a depth of its key.
LEMMA AnswerIsDepth ==
    ASSUME DepthInv, OnCmdOrderBookDepth
    PROVE  CacheOK' /\ RepliesOK(replies')
<1> DEFINE k == Head(requests)
           result == IF k \in DOMAIN meCache THEN meCache[k] ELSE GetDepthMerge(k)
           reply == [key |-> k, result |-> IF k.known THEN result ELSE NoDepth]
<1>1. /\ replies' = Append(replies, reply)
      /\ meCache' = IF k.known THEN With(meCache, k, result) ELSE meCache
  BY DEF OnCmdOrderBookDepth
<1>2. k \in Key => IsDepth(result, k)
  <2>1. CASE k \in DOMAIN meCache
    BY <2>1 DEF DepthInv, CacheOK
  <2>2. CASE k \notin DOMAIN meCache
    BY <2>2, MergeIsDepth DEF DepthInv
  <2> QED
    BY <2>1, <2>2
<1> HIDE DEF k, result
<1>3. CacheOK'
  <2>1. ASSUME NEW l \in DOMAIN With(meCache, k, result), l \in Key
        PROVE  IsDepth(With(meCache, k, result)[l], l)
    <3>1. CASE l = k
      BY <1>2, <2>1, <3>1 DEF With
    <3>2. CASE l # k
      BY <2>1, <3>2 DEF With, DepthInv, CacheOK
    <3> QED
      BY <3>1, <3>2
  <2> QED
    BY <1>1, <2>1 DEF DepthInv, CacheOK, IsDepth, Ordered
<1>4. DepthOrNone(reply.result, reply.key) \/ reply.key \notin Key
  BY <1>2 DEF DepthOrNone
<1> HIDE DEF reply
<1>5. PICK S : replies \in Seq(S)
  BY DEF DepthInv, RepliesOK, IsSequence
<1> DEFINE T == S \cup {reply}
<1>6. replies \in Seq(T)
  BY <1>5, SeqMonotonic
<1>7. /\ Append(replies, reply) \in Seq(T) /\ Len(Append(replies, reply)) = Len(replies) + 1
      /\ \A i \in 1..(Len(replies) + 1) :
            Append(replies, reply)[i] = IF i <= Len(replies) THEN replies[i] ELSE reply
  BY <1>6, AppendProperties
<1>8. Len(replies) \in Nat
  BY <1>5
<1>9. ASSUME NEW i \in 1..Len(Append(replies, reply)), Append(replies, reply)[i].key \in Key
      PROVE  DepthOrNone(Append(replies, reply)[i].result, Append(replies, reply)[i].key)
  <2>1. CASE i <= Len(replies)
    <3>1. Append(replies, reply)[i] = replies[i] /\ i \in 1..Len(replies)
      BY <1>7, <1>8, <2>1
    <3> QED
      BY <1>9, <3>1 DEF DepthInv, RepliesOK
  <2>2. CASE ~(i <= Len(replies))
    <3>1. Append(replies, reply)[i] = reply
      BY <1>7, <1>8, <2>2
    <3> QED
      BY <1>4, <1>9, <3>1
  <2> QED
    BY <2>1, <2>2
<1>10. RepliesOK(Append(replies, reply))
  BY <1>7, <1>9 DEF RepliesOK, IsSequence
<1> QED
  BY <1>1, <1>3, <1>10

\* What is lost or read leaves the others as they were.
LEMMA RepliesStay ==
    ASSUME NEW queue, RepliesOK(queue)
    PROVE  /\ \A i \in DOMAIN queue : RepliesOK(RemoveAt(queue, i))
           /\ queue # <<>> => RepliesOK(Tail(queue))
<1>1. PICK S : queue \in Seq(S)
  BY DEF RepliesOK, IsSequence
<1>2. ASSUME NEW i \in DOMAIN queue PROVE RepliesOK(RemoveAt(queue, i))
  <2>1. i \in 1..Len(queue)
    BY <1>1
  <2>2. /\ RemoveAt(queue, i) \in Seq(S)
        /\ \A j \in 1..Len(RemoveAt(queue, i)) :
              \E m \in 1..Len(queue) : RemoveAt(queue, i)[j] = queue[m]
    <3>1. /\ RemoveAt(queue, i) \in Seq(S) /\ Len(RemoveAt(queue, i)) = Len(queue) - 1
          /\ \A j \in 1..(Len(queue) - 1) : RemoveAt(queue, i)[j] = queue[IF j < i THEN j ELSE j + 1]
      BY <1>1, <2>1, RemovedIs
    <3>2. \A j \in 1..(Len(queue) - 1) : (IF j < i THEN j ELSE j + 1) \in 1..Len(queue)
      BY <1>1
    <3> QED
      BY <3>1, <3>2
  <2>3. IsSequence(RemoveAt(queue, i))
    BY <2>2 DEF IsSequence
  <2> QED
    BY <2>2, <2>3 DEF RepliesOK
<1>3. ASSUME queue # <<>> PROVE RepliesOK(Tail(queue))
  <2>1. /\ Tail(queue) \in Seq(S) /\ Len(Tail(queue)) = Len(queue) - 1
        /\ \A i \in 1..Len(Tail(queue)) : Tail(queue)[i] = queue[i + 1]
    BY <1>1, <1>3, HeadTailProperties
  <2>2. Len(queue) \in Nat
    BY <1>1
  <2>3. \A i \in 1..Len(Tail(queue)) : i + 1 \in 1..Len(queue)
    BY <2>1, <2>2
  <2>4. IsSequence(Tail(queue))
    BY <2>1 DEF IsSequence
  <2> QED
    BY <2>1, <2>3, <2>4 DEF RepliesOK
<1> QED
  BY <1>2, <1>3

\* Without some keys, nothing changes for the clients of the others.
LEMMA FewerKeys ==
    ASSUME KeysOK, ViewIsLast, NEW T, depth' = Without(depth, T), view' = view
    PROVE  KeysOK' /\ ViewIsLast'
<1>1. DOMAIN depth' \subseteq DOMAIN depth /\ \A k \in DOMAIN depth' : depth'[k] = depth[k]
  BY DEF Without
<1> QED
  BY <1>1 DEF KeysOK, ViewIsLast, DepthOrNone, IsDepth, Ordered

\* What a reply makes of a key: a new last depth, which every client of it has
LEMMA ReplyKeeps ==
    ASSUME KeysOK, ViewIsLast, NEW k \in DOMAIN depth, NEW result, IsDepth(result, k), NEW due,
           depth' = [depth EXCEPT ![k].last = result, ![k].due = due],
           DOMAIN view' = Client,
           \A c \in Client \ depth[k].sessions : view'[c] = view[c],
           \A c \in depth[k].sessions : view'[c] = result
    PROVE  KeysOK' /\ ViewIsLast'
<1>1. /\ depth[k] = [sessions |-> depth[k].sessions, last |-> depth[k].last, due |-> depth[k].due]
      /\ DOMAIN depth \subseteq Key
  BY DEF KeysOK
<1>2. /\ DOMAIN depth' = DOMAIN depth
      /\ \A l \in DOMAIN depth \ {k} : depth'[l] = depth[l]
  OBVIOUS
<1>3. depth'[k] = [sessions |-> depth[k].sessions, last |-> result, due |-> due]
  <2>1. depth'[k] = [depth[k] EXCEPT !.last = result, !.due = due]
    OBVIOUS
  <2> QED
    BY <1>1, <2>1
<1>4. \A l \in DOMAIN depth : depth'[l].sessions = depth[l].sessions
  BY <1>2, <1>3
<1>5. ASSUME NEW l \in DOMAIN depth
      PROVE  /\ depth'[l] = [sessions |-> depth'[l].sessions, last |-> depth'[l].last, due |-> depth'[l].due]
             /\ depth'[l].sessions \subseteq Client /\ DepthOrNone(depth'[l].last, l)
  <2>1. CASE l = k
    BY <1>3, <2>1 DEF KeysOK, DepthOrNone
  <2>2. CASE l # k
    BY <1>2, <2>2 DEF KeysOK
  <2> QED
    BY <2>1, <2>2
<1>6. KeysOK'
  <2>1. DOMAIN depth' \subseteq Key /\ DOMAIN view' = Client
    BY <1>1, <1>2
  <2>2. \A l, m \in DOMAIN depth' : \A c \in depth'[l].sessions \cap depth'[m].sessions : l = m
    BY <1>2, <1>4 DEF KeysOK
  <2> QED
    BY <1>2, <1>5, <2>1, <2>2 DEF KeysOK, DepthOrNone, IsDepth, Ordered
<1>7. ASSUME NEW l \in DOMAIN depth, NEW c \in depth'[l].sessions PROVE view'[c] = depth'[l].last
  <2>1. c \in depth[l].sessions /\ c \in Client
    BY <1>4, <1>7 DEF KeysOK
  <2>2. CASE l = k
    BY <1>3, <2>1, <2>2
  <2>3. CASE l # k
    <3>1. c \notin depth[k].sessions
      BY <2>1, <2>3 DEF KeysOK
    <3> QED
      BY <1>2, <2>1, <2>3, <3>1 DEF ViewIsLast
  <2> QED
    BY <2>2, <2>3
<1> QED
  BY <1>2, <1>6, <1>7 DEF ViewIsLast

\* A reply, sent whole or as what changed, in time or late, or an error.
LEMMA ReplyStays == ASSUME DepthInv, OnBackendRecvPkg PROVE KeysOK' /\ ViewIsLast'
<1> DEFINE k == Head(replies).key
           result == Head(replies).result
           val == depth[k]
           diff == GetDepthDiff(val.last, result, k)
<1>1. KeysOK /\ ViewIsLast /\ RepliesOK(replies)
  BY DEF DepthInv
<1>2. k \in Key => DepthOrNone(result, k)
  <2>1. PICK S : replies \in Seq(S)
    BY <1>1 DEF RepliesOK, IsSequence
  <2>2. replies # <<>>
    BY DEF OnBackendRecvPkg
  <2>3. 1 \in 1..Len(replies) /\ Head(replies) = replies[1]
    BY <2>1, <2>2
  <2> QED
    BY <1>1, <2>3 DEF RepliesOK
<1>3. IF result = NoDepth THEN depth' = Without(depth, {k}) /\ UNCHANGED view
      ELSE IF k \in DOMAIN depth THEN OnMarketDepthReply(k, result)
      ELSE UNCHANGED <<depth, view>>
  BY DEF OnBackendRecvPkg
<1> HIDE DEF k, result
<1>4. CASE result = NoDepth
  BY <1>1, <1>3, <1>4, FewerKeys
<1>5. ASSUME UNCHANGED <<depth, view>> PROVE KeysOK' /\ ViewIsLast'
  BY <1>1, <1>5 DEF KeysOK, ViewIsLast, DepthOrNone, IsDepth, Ordered
<1>6. CASE result # NoDepth /\ k \notin DOMAIN depth
  BY <1>3, <1>5, <1>6
<1>7. CASE result # NoDepth /\ k \in DOMAIN depth
  <2>1. k \in Key /\ IsDepth(result, k) /\ val.sessions \subseteq Client /\ DOMAIN view = Client
    BY <1>1, <1>2, <1>7 DEF KeysOK, DepthOrNone
  <2>2. OnMarketDepthReply(k, result)
    BY <1>3, <1>7
  <2>3. CASE val.last = NoDepth \/ (diff # NoDiff /\ val.due)
    <3>1. /\ depth' = [depth EXCEPT ![k].last = result, ![k].due = FALSE]
          /\ view' = [c \in Client |-> IF c \in val.sessions THEN result ELSE view[c]]
      BY <2>2, <2>3 DEF OnMarketDepthReply, BroadcastClean
    <3>2. /\ DOMAIN view' = Client
          /\ \A c \in Client \ depth[k].sessions : view'[c] = view[c]
          /\ \A c \in depth[k].sessions : view'[c] = result
      BY <2>1, <3>1
    <3> QED
      BY <1>1, <1>7, <2>1, <3>1, <3>2, ReplyKeeps
  <2>4. CASE ~(val.last = NoDepth \/ (diff # NoDiff /\ val.due)) /\ diff = NoDiff
    <3>1. UNCHANGED <<depth, view>>
      BY <2>2, <2>4 DEF OnMarketDepthReply
    <3> QED
      BY <1>5, <3>1
  <2>5. CASE ~(val.last = NoDepth \/ (diff # NoDiff /\ val.due)) /\ diff # NoDiff
    <3>1. /\ depth' = [depth EXCEPT ![k].last = result]
          /\ view' = [c \in Client |-> IF c \in val.sessions /\ view[c] # NoDepth
                                       THEN Updated(view[c], diff, k) ELSE view[c]]
      BY <2>2, <2>5 DEF OnMarketDepthReply, BroadcastDiff
    <3>2. val = [sessions |-> val.sessions, last |-> val.last, due |-> val.due]
      BY <1>1, <1>7 DEF KeysOK
    <3>3. depth' = [depth EXCEPT ![k].last = result, ![k].due = val.due]
      <4>1. [val EXCEPT !.last = result] = [val EXCEPT !.last = result, !.due = val.due]
        BY <3>2
      <4> QED
        BY <1>7, <3>1, <4>1
    <3>4. IsDepth(val.last, k) /\ val.last # NoDepth
      BY <1>1, <1>7, <2>5 DEF KeysOK, DepthOrNone
    <3>5. Updated(val.last, diff, k) = result
      BY <2>1, <3>4, UpdatedIs
    <3> HIDE DEF diff
    <3>6. \A c \in val.sessions : view[c] = val.last
      BY <1>1, <1>7 DEF ViewIsLast
    <3>7. /\ DOMAIN view' = Client
          /\ \A c \in Client \ depth[k].sessions : view'[c] = view[c]
          /\ \A c \in depth[k].sessions : view'[c] = result
      BY <2>1, <3>1, <3>4, <3>5, <3>6
    <3> QED
      BY <1>1, <1>7, <2>1, <3>3, <3>7, ReplyKeeps
  <2> QED
    BY <2>3, <2>4, <2>5
<1> QED
  BY <1>4, <1>6, <1>7

\* The time since the last whole depth says nothing of what is held.
LEMMA DueStays ==
    ASSUME KeysOK, ViewIsLast, NEW k \in Key, CleanIsDue(k)
    PROVE  KeysOK' /\ ViewIsLast'
<1>1. /\ k \in DOMAIN depth /\ depth' = [depth EXCEPT ![k].due = TRUE] /\ view' = view
      /\ depth[k].last # NoDepth
  BY DEF CleanIsDue
<1>2. /\ depth[k] = [sessions |-> depth[k].sessions, last |-> depth[k].last, due |-> depth[k].due]
      /\ IsDepth(depth[k].last, k) /\ depth[k].sessions \subseteq Client /\ DOMAIN view = Client
  BY <1>1 DEF KeysOK, DepthOrNone
<1>3. [depth[k] EXCEPT !.due = TRUE] = [depth[k] EXCEPT !.last = depth[k].last, !.due = TRUE]
  BY <1>2
<1>4. depth' = [depth EXCEPT ![k].last = depth[k].last, ![k].due = TRUE]
  BY <1>1, <1>3
<1>5. PICK result, due : result = depth[k].last /\ due = TRUE
  OBVIOUS
<1>6. /\ depth' = [depth EXCEPT ![k].last = result, ![k].due = due]
      /\ IsDepth(result, k) /\ k \in DOMAIN depth
  BY <1>1, <1>2, <1>4, <1>5
<1>7. /\ \A c \in depth[k].sessions : view'[c] = result
      /\ \A c \in Client \ depth[k].sessions : view'[c] = view[c]
      /\ DOMAIN view' = Client
  BY <1>1, <1>2, <1>5 DEF ViewIsLast
<1> QED
  BY <1>6, <1>7, ReplyKeeps

\* A client that leaves takes its view along, and nobody else's.
LEMMA LeavingStays ==
    ASSUME KeysOK, ViewIsLast, NEW c \in Client, OnMethodDepthUnsubscribe(c)
    PROVE  KeysOK' /\ ViewIsLast'
<1>1. /\ depth' = Unsubscribed(c) /\ view' = [view EXCEPT ![c] = NoDepth]
  BY DEF OnMethodDepthUnsubscribe
<1>2. /\ DOMAIN depth' = DOMAIN depth /\ DOMAIN view' = Client
      /\ \A k \in DOMAIN depth :
            depth'[k] = [sessions |-> depth[k].sessions \ {c}, last |-> depth[k].last, due |-> depth[k].due]
  <2>1. ASSUME NEW k \in DOMAIN depth
        PROVE  [depth[k] EXCEPT !.sessions = @ \ {c}]
               = [sessions |-> depth[k].sessions \ {c}, last |-> depth[k].last, due |-> depth[k].due]
    BY DEF KeysOK
  <2>2. DOMAIN view' = DOMAIN view /\ DOMAIN view = Client
    BY <1>1 DEF KeysOK
  <2> QED
    BY <1>1, <2>1, <2>2 DEF Unsubscribed
<1>3. KeysOK'
  BY <1>2 DEF KeysOK, DepthOrNone, IsDepth, Ordered
<1>4. ASSUME NEW k \in DOMAIN depth, NEW d \in depth'[k].sessions PROVE view'[d] = depth'[k].last
  <2>1. d \in depth[k].sessions /\ d # c /\ depth'[k].last = depth[k].last
    BY <1>2, <1>4
  <2>2. view'[d] = view[d]
    BY <1>1, <2>1
  <2> QED
    BY <2>1, <2>2 DEF ViewIsLast
<1> QED
  BY <1>2, <1>3, <1>4 DEF ViewIsLast

\* A client that subscribes leaves its other key and is sent what is there.
LEMMA SubscribingStays ==
    ASSUME KeysOK, ViewIsLast, NEW c \in Client, NEW k \in Key, OnMethodDepthSubscribe(c, k)
    PROVE  KeysOK' /\ ViewIsLast'
<1> DEFINE old == Unsubscribed(c)
           val == IF k \in DOMAIN old THEN old[k]
                  ELSE [sessions |-> {}, last |-> NoDepth, due |-> FALSE]
           new == [val EXCEPT !.sessions = @ \cup {c}]
<1>1. /\ depth' = With(old, k, new) /\ view' = [view EXCEPT ![c] = depth'[k].last]
  BY DEF OnMethodDepthSubscribe, DepthSubscribed, DepthSendClean
<1>2. /\ DOMAIN old = DOMAIN depth
      /\ \A l \in DOMAIN depth :
            old[l] = [sessions |-> depth[l].sessions \ {c}, last |-> depth[l].last, due |-> depth[l].due]
  BY DEF Unsubscribed, KeysOK
<1>3. /\ val = [sessions |-> val.sessions, last |-> val.last, due |-> val.due]
      /\ val.sessions \subseteq Client \ {c} /\ DepthOrNone(val.last, k)
      /\ k \in DOMAIN depth => val.sessions = depth[k].sessions \ {c} /\ val.last = depth[k].last
      /\ k \notin DOMAIN depth => val.sessions = {}
  <2>1. CASE k \in DOMAIN depth
    BY <1>2, <2>1 DEF KeysOK
  <2>2. CASE k \notin DOMAIN depth
    BY <1>2, <2>2 DEF DepthOrNone
  <2> QED
    BY <2>1, <2>2
<1> HIDE DEF old, val
<1>4. new = [sessions |-> val.sessions \cup {c}, last |-> val.last, due |-> val.due]
  BY <1>3
<1> HIDE DEF new
<1>5. /\ DOMAIN depth' = DOMAIN depth \cup {k} /\ depth'[k] = new
      /\ \A l \in DOMAIN depth \ {k} : depth'[l] = old[l]
  BY <1>1, <1>2 DEF With
<1>6. DOMAIN view' = Client /\ view'[c] = val.last /\ \A d \in Client \ {c} : view'[d] = view[d]
  BY <1>1, <1>4, <1>5 DEF KeysOK
<1>7. ASSUME NEW l \in DOMAIN depth'
      PROVE  /\ depth'[l] = [sessions |-> depth'[l].sessions, last |-> depth'[l].last, due |-> depth'[l].due]
             /\ depth'[l].sessions \subseteq Client /\ DepthOrNone(depth'[l].last, l)
             /\ \A d \in depth'[l].sessions : IF d = c THEN l = k ELSE l \in DOMAIN depth /\ d \in depth[l].sessions
             /\ l # k => l \in DOMAIN depth /\ depth'[l].last = depth[l].last
             /\ l = k => depth'[l].last = val.last
  <2>1. CASE l = k
    <3>1. depth'[l] = [sessions |-> val.sessions \cup {c}, last |-> val.last, due |-> val.due]
      BY <1>4, <1>5, <2>1
    <3>2. \A d \in val.sessions : d # c /\ k \in DOMAIN depth /\ d \in depth[k].sessions
      BY <1>3
    <3> QED
      BY <1>3, <2>1, <3>1, <3>2
  <2>2. CASE l # k
    <3>1. /\ l \in DOMAIN depth
          /\ depth'[l] = [sessions |-> depth[l].sessions \ {c}, last |-> depth[l].last, due |-> depth[l].due]
      BY <1>2, <1>5, <2>2
    <3> QED
      BY <2>2, <3>1 DEF KeysOK
  <2> QED
    BY <2>1, <2>2
<1>8. DOMAIN depth' \subseteq Key
  BY <1>5 DEF KeysOK
<1>9. \A l, m \in DOMAIN depth' : \A d \in depth'[l].sessions \cap depth'[m].sessions : l = m
  <2> SUFFICES ASSUME NEW l \in DOMAIN depth', NEW m \in DOMAIN depth',
                      NEW d \in depth'[l].sessions \cap depth'[m].sessions
               PROVE  l = m
    OBVIOUS
  <2>1. CASE d = c
    BY <1>7, <2>1
  <2>2. CASE d # c
    <3>1. /\ l \in DOMAIN depth /\ m \in DOMAIN depth
          /\ d \in depth[l].sessions /\ d \in depth[m].sessions
      BY <1>7, <2>2
    <3> QED
      BY <3>1 DEF KeysOK
  <2> QED
    BY <2>1, <2>2
<1>10. KeysOK'
  BY <1>6, <1>7, <1>8, <1>9 DEF KeysOK, DepthOrNone, IsDepth, Ordered
<1>11. ASSUME NEW l \in DOMAIN depth', NEW d \in depth'[l].sessions PROVE view'[d] = depth'[l].last
  <2>1. CASE d = c
    BY <1>6, <1>7, <2>1
  <2>2. CASE d # c
    <3>1. l \in DOMAIN depth /\ d \in depth[l].sessions /\ d \in Client
      BY <1>7, <2>2
    <3>2. view'[d] = depth[l].last
      BY <1>6, <2>2, <3>1 DEF ViewIsLast
    <3>3. depth'[l].last = depth[l].last
      <4>1. CASE l = k
        BY <1>3, <1>7, <3>1, <4>1
      <4>2. CASE l # k
        BY <1>7, <4>2
      <4> QED
        BY <4>1, <4>2
    <3> QED
      BY <3>2, <3>3
  <2> QED
    BY <2>1, <2>2
<1> QED
  BY <1>10, <1>11 DEF ViewIsLast

-----------------------------------------------------------------------------

\* Init: a book of orders, and nobody subscribed.
LEMMA InitDepth == Init => DepthInv
<1> SUFFICES ASSUME Init PROVE DepthInv
  OBVIOUS
<1>1. BookOK
  BY DepthAssumption, StartsAssumption DEF Init, BookOK, SideOf, InOrder, Level
<1>2. DOMAIN meCache = {} /\ DOMAIN depth = {} /\ DOMAIN view = Client
  BY DEF Init
<1>3. RepliesOK(replies)
  <2>1. replies = <<>> /\ <<>> \in Seq({})
    BY DEF Init
  <2> QED
    BY <2>1 DEF RepliesOK, IsSequence
<1> QED
  BY <1>1, <1>2, <1>3 DEF DepthInv, CacheOK, KeysOK, ViewIsLast

\* Next: the book, the cache and the replies carry depths, and whatever the worker
\* makes of them its clients have.
LEMMA StepDepth == ASSUME DepthInv, [Next]_vars PROVE DepthInv'
<1>1. BookOK /\ CacheOK /\ RepliesOK(replies) /\ KeysOK /\ ViewIsLast
  BY DEF DepthInv
<1>2. UNCHANGED book => BookOK'
  BY <1>1 DEF book, BookOK, SideOf, InOrder
<1>3. UNCHANGED meCache => CacheOK'
  BY <1>1 DEF CacheOK, IsDepth, Ordered
<1>4. UNCHANGED replies => RepliesOK(replies')
  BY <1>1
<1>5. UNCHANGED <<depth, view>> => KeysOK' /\ ViewIsLast'
  BY <1>1 DEF KeysOK, ViewIsLast, DepthOrNone, IsDepth, Ordered
<1>6. BookOK' /\ CacheOK' /\ RepliesOK(replies') /\ KeysOK' /\ ViewIsLast' => DepthInv'
  BY DEF DepthInv, RepliesOK, IsSequence, DepthOrNone, IsDepth, Ordered
<1>7. CASE BookChanges
  <2>1. UNCHANGED <<meCache, depth, packets, view>>
    BY <1>7 DEF BookChanges
  <2> QED
    BY <1>1, <1>3, <1>4, <1>5, <1>6, <1>7, <2>1, BookStays DEF packets
<1>8. CASE OnCmdOrderBookDepth
  <2>1. UNCHANGED <<book, depth, view>>
    BY <1>8 DEF OnCmdOrderBookDepth
  <2> QED
    BY <1>2, <1>5, <1>6, <1>8, <2>1, AnswerIsDepth
<1>9. CASE OnTimer
  <2>1. UNCHANGED <<book, meCache, replies, view>> /\ depth' = Without(depth, Empty)
    BY <1>9 DEF OnTimer
  <2> QED
    BY <1>1, <1>2, <1>3, <1>4, <1>6, <2>1, FewerKeys
<1>10. CASE OnBackendRecvPkg
  <2>1. UNCHANGED <<book, meCache>> /\ replies # <<>> /\ replies' = Tail(replies)
    BY <1>10 DEF OnBackendRecvPkg
  <2> QED
    BY <1>1, <1>2, <1>3, <1>6, <1>10, <2>1, RepliesStay, ReplyStays
<1>11. CASE Lose
  <2>1. /\ UNCHANGED <<book, meCache, depth, view>>
        /\ UNCHANGED replies \/ \E i \in DOMAIN replies : replies' = RemoveAt(replies, i)
    BY <1>11 DEF Lose
  <2>2. RepliesOK(replies')
    BY <1>1, <2>1, RepliesStay
  <2> QED
    BY <1>2, <1>3, <1>5, <1>6, <2>1, <2>2
<1>12. ASSUME NEW k \in Key, CacheEnds(k) PROVE DepthInv'
  <2>1. UNCHANGED <<book, depth, packets, view>> /\ meCache' = Without(meCache, {k})
    BY <1>12 DEF CacheEnds
  <2>2. CacheOK'
    BY <1>1, <2>1 DEF CacheOK, Without, IsDepth, Ordered
  <2> QED
    BY <1>2, <1>4, <1>5, <1>6, <2>1, <2>2 DEF packets
<1>13. ASSUME NEW k \in Key, CleanIsDue(k) PROVE DepthInv'
  <2>1. UNCHANGED <<book, meCache, packets>>
    BY <1>13 DEF CleanIsDue
  <2> QED
    BY <1>1, <1>2, <1>3, <1>4, <1>6, <1>13, <2>1, DueStays DEF packets
<1>14. ASSUME NEW c \in Client, NEW k \in Key, OnMethodDepthSubscribe(c, k) PROVE DepthInv'
  <2>1. UNCHANGED <<book, meCache, packets>>
    BY <1>14 DEF OnMethodDepthSubscribe
  <2> QED
    BY <1>1, <1>2, <1>3, <1>4, <1>6, <1>14, <2>1, SubscribingStays DEF packets
<1>15. ASSUME NEW c \in Client, OnMethodDepthUnsubscribe(c) PROVE DepthInv'
  <2>1. UNCHANGED <<book, meCache, packets>>
    BY <1>15 DEF OnMethodDepthUnsubscribe
  <2> QED
    BY <1>1, <1>2, <1>3, <1>4, <1>6, <1>15, <2>1, LeavingStays DEF packets
<1>16. CASE UNCHANGED vars
  BY <1>2, <1>3, <1>4, <1>5, <1>6, <1>16 DEF vars, packets
<1> QED
  BY <1>7, <1>8, <1>9, <1>10, <1>11, <1>12, <1>13, <1>14, <1>15, <1>16 DEF Next

\* Whatever a client was sent since it subscribed, whole depths or only changes, early
\* or late, for any limit and interval, lost polls and cached replies: what it made of
\* it is the depth the worker got last (broadcast_update, get_list_diff).
THEOREM ClientsHaveTheLastDepth == Spec => []ViewIsLast
<1>1. DepthInv => ViewIsLast
  BY DEF DepthInv
<1> QED
  BY <1>1, InitDepth, StepDepth, PTL DEF Spec

\* The levels that the loops over the skiplists of any book make, for any limit and
\* interval, are those of the reference: each order counts in exactly the level of its
\* rounded price, and the best levels are kept (get_depth, get_depth_merge).
THEOREM LevelsAreExact == Spec => []MergeIsExact
<1>1. ASSUME BookOK, NEW k \in Key
      PROVE  GetDepthMerge(k) = [asks |-> Levels(asks, k, 1), bids |-> Levels(bids, k, -1)]
  <2>1. k.limit \in Nat \ {0} /\ k.interval \in Nat
    BY KeyIs
  <2>2. Grouped(asks, k, 1) = Levels(asks, k, 1) /\ Grouped(bids, k, -1) = Levels(bids, k, -1)
    BY <1>1, <2>1, GroupedIsLevels DEF BookOK, Side
  <2> QED
    BY <2>2 DEF GetDepthMerge
<1>2. DepthInv => MergeIsExact
  BY <1>1 DEF DepthInv, MergeIsExact
<1> QED
  BY <1>2, InitDepth, StepDepth, PTL DEF Spec
==============================================================================
