--------------------------- MODULE MEMarketProofs ---------------------------
(***************************************************************************)
(* Proofs about MEMarket, for every set of users, prices, amounts and fees *)
(* and every bound.  The inductive invariant Inv strengthens the safety    *)
(* invariants with what the matching loop carries from one iteration to    *)
(* the next: the taker can pay for all it has left (TakerFunded) and the   *)
(* iterator stands at the front of the opposite book (TakerAtFront).       *)
(* Frozen balances are counted as cardinalities: an open order holds the   *)
(* set of units Held gives, and placing, filling or removing an order adds *)
(* or takes away a block of that set.  The sum of an asset over all users  *)
(* is compared as a function that counts the users one by one.  What the   *)
(* commands of MEServer answer is a function of the state, so that their   *)
(* agreement follows from Inv.                                             *)
(***************************************************************************)
EXTENDS MEServer, FiniteSetTheorems, SequenceTheorems, WellFoundedInduction, TLAPS

\* Integer division rounds down (MPD_ROUND_DOWN).
LEMMA DivFacts ==
    ASSUME NEW x \in Nat, NEW y \in Nat \ {0}
    PROVE  /\ x \div y \in Nat
           /\ (x \div y) * y \in Nat
           /\ (x \div y) * y <= x
OBVIOUS

\* Products of naturals, as a fact to cite.
LEMMA ProductNat ==
    ASSUME NEW x \in Nat, NEW y \in Nat
    PROVE  x * y \in Nat
OBVIOUS

\* A product grows with its factors.
LEMMA ProductMonotone ==
    ASSUME NEW x \in Nat, NEW y \in Nat, NEW z \in Nat, x <= y
    PROVE  z * x \in Nat /\ z * y \in Nat /\ z * x <= z * y
OBVIOUS

\* A multiple divides without rest.
LEMMA MultipleDiv ==
    ASSUME NEW x \in Nat, NEW y \in Nat \ {0}
    PROVE  ((x * y) \div y) = x
OBVIOUS

\* mpd_rescale keeps a natural and never increases it.
LEMMA RescaleType ==
    ASSUME NEW a \in Assets, NEW x \in Nat
    PROVE  Rescale(a, x) \in Nat /\ Rescale(a, x) <= x
<1>1. Grain(a) \in Nat \ {0}
  BY GrainAssumption DEF Grain
<1> QED
  BY <1>1, DivFacts DEF Rescale

\* balance_add keeps the balances natural.
LEMMA BalanceAddType ==
    ASSUME NEW b \in [BalanceKeys -> Nat], NEW u \in Users, NEW t \in BalanceTypes,
           NEW a \in Assets, NEW x \in Nat
    PROVE  BalanceAdd(b, u, t, a, x) \in [BalanceKeys -> Nat]
<1>1. <<u, t, a>> \in BalanceKeys
  BY DEF BalanceKeys
<1>2. Rescale(a, b[<<u, t, a>>] + x) \in Nat
  BY <1>1, RescaleType
<1> QED
  BY <1>1, <1>2 DEF BalanceAdd

\* balance_sub refuses to go below zero.
LEMMA BalanceSubType ==
    ASSUME NEW b \in [BalanceKeys -> Nat], NEW u \in Users, NEW t \in BalanceTypes,
           NEW a \in Assets, NEW x \in Nat
    PROVE  BalanceSub(b, u, t, a, x) \in [BalanceKeys -> Nat]
<1>1. <<u, t, a>> \in BalanceKeys
  BY DEF BalanceKeys
<1>2. CASE b[<<u, t, a>>] < x
  BY <1>2 DEF BalanceSub
<1>3. CASE ~(b[<<u, t, a>>] < x)
  <2>1. Rescale(a, b[<<u, t, a>>] - x) \in Nat
    BY <1>1, <1>3, RescaleType
  <2> QED
    BY <1>1, <1>3, <2>1 DEF BalanceSub
<1> QED
  BY <1>2, <1>3

\* balance_freeze keeps the balances natural.
LEMMA BalanceFreezeType ==
    ASSUME NEW b \in [BalanceKeys -> Nat], NEW u \in Users, NEW a \in Assets, NEW x \in Nat
    PROVE  /\ BalanceFreeze(b, u, a, x) \in [BalanceKeys -> Nat]
           /\ BalanceUnfreeze(b, u, a, x) \in [BalanceKeys -> Nat]
<1>1. "FREEZE" \in BalanceTypes /\ "AVAILABLE" \in BalanceTypes
  BY DEF BalanceTypes
<1> QED
  BY <1>1, BalanceAddType, BalanceSubType DEF BalanceFreeze, BalanceUnfreeze

\* Each side gives one of the two assets and gets the other.
LEMMA SideAssets ==
    ASSUME NEW side \in Sides
    PROVE  /\ Gives(side) \in Assets /\ Gets(side) \in Assets
           /\ Gives(side) # Gets(side)
BY DEF Sides, Gives, Gets, Assets

\* What is traded is worth a natural number of steps.
LEMMA ValueType ==
    ASSUME NEW a \in Assets, NEW price \in Nat, NEW amount \in Nat
    PROVE  Value(a, price, amount) \in Nat
BY ProductNat DEF Value

\* A smaller amount is worth less.
LEMMA ValueMonotone ==
    ASSUME NEW a \in Assets, NEW p \in Nat, NEW q \in Nat, NEW x \in Nat, NEW y \in Nat,
           p <= q, x <= y
    PROVE  /\ Value(a, p, x) \in Nat /\ Value(a, q, y) \in Nat
           /\ Value(a, p, x) <= Value(a, q, y)
<1>1. p * x <= q * x /\ q * x <= q * y
  OBVIOUS
<1> QED
  BY <1>1, ProductNat DEF Value

\* What is left is worth the rest of the value.
LEMMA ValueMinus ==
    ASSUME NEW a \in Assets, NEW p \in Nat, NEW x \in Nat, NEW y \in Nat, y <= x
    PROVE  Value(a, p, x - y) = Value(a, p, x) - Value(a, p, y)
BY DEF Value

\* FeeOne units are a whole number of grains of each asset.
LEMMA GrainDivides ==
    ASSUME NEW a \in Assets
    PROVE  /\ Grain(a) \in Nat \ {0}
           /\ \E k \in Nat : FeeOne = k * Grain(a)
<1>1. CASE a = "stock"
  <2>1. Grain(a) = 1 /\ FeeOne = FeeOne * 1 /\ FeeOne \in Nat
    BY <1>1, FeesAssumption DEF Grain
  <2> QED
    BY <2>1
<1>2. CASE a # "stock"
  BY <1>2, GrainAssumption, FeesAssumption DEF Grain
<1> QED
  BY <1>1, <1>2

\* A whole number of price * step survives mpd_rescale.
LEMMA RescaleExact ==
    ASSUME NEW a \in Assets, NEW n \in Nat
    PROVE  Rescale(a, n * FeeOne) = n * FeeOne
<1>1. PICK k \in Nat : FeeOne = k * Grain(a)
  BY GrainDivides
<1>2. n * FeeOne = (n * k) * Grain(a) /\ n * k \in Nat
  BY <1>1, GrainDivides
<1> QED
  BY <1>2, MultipleDiv, GrainDivides DEF Rescale

\* Rounding down never crosses a whole number of price * step.
LEMMA RescaleAbove ==
    ASSUME NEW a \in Assets, NEW n \in Nat, NEW x \in Nat, n * FeeOne <= x
    PROVE  n * FeeOne <= Rescale(a, x)
<1> DEFINE g == Grain(a)
<1>1. g \in Nat \ {0}
  BY GrainDivides
<1>2. PICK k \in Nat : FeeOne = k * g
  BY GrainDivides
<1>3. n * FeeOne = (n * k) * g /\ n * k \in Nat
  BY <1>1, <1>2
<1> HIDE DEF g
<1>4. (n * k) <= x \div g
  BY <1>1, <1>2, <1>3
<1>5. (n * k) * g <= (x \div g) * g
  BY <1>1, <1>3, <1>4, DivFacts, ProductMonotone
<1> QED
  BY <1>3, <1>5 DEF Rescale, g

\* What one party's side of a deal does to the balances when it can pay.
LEMMA TradeEffect ==
    ASSUME NEW b \in [BalanceKeys -> Nat], NEW u \in Users, NEW t \in BalanceTypes,
           NEW side \in Sides, NEW price \in Nat, NEW amount \in Nat,
           NEW rate \in 0..(FeeOne - 1),
           b[<<u, t, Gives(side)>>] >= Value(Gives(side), price, amount) * FeeOne
    PROVE  LET r == Trade(b, u, t, side, price, amount, rate)
               pay == <<u, t, Gives(side)>>
               get == <<u, "AVAILABLE", Gets(side)>>
           IN  /\ r \in [BalanceKeys -> Nat]
               /\ \A k \in BalanceKeys : k # pay /\ k # get => r[k] = b[k]
               /\ r[pay] = Rescale(Gives(side), b[pay] - Value(Gives(side), price, amount) * FeeOne)
               /\ \A n \in Nat : b[get] >= n * FeeOne => r[get] >= n * FeeOne
<1> DEFINE give == Gives(side)
           gets == Gets(side)
           pay == <<u, t, give>>
           get == <<u, "AVAILABLE", gets>>
           v == Value(give, price, amount) * FeeOne
           w == Value(gets, price, amount) * FeeOne
           fee == Value(gets, price, amount) * rate
           paid == BalanceSub(b, u, t, give, v)
           got == BalanceAdd(paid, u, "AVAILABLE", gets, w)
           r == IF fee > 0 THEN BalanceSub(got, u, "AVAILABLE", gets, fee) ELSE got
<1>1. /\ give \in Assets /\ gets \in Assets /\ pay \in BalanceKeys
      /\ get \in BalanceKeys /\ pay # get /\ "AVAILABLE" \in BalanceTypes
  BY SideAssets DEF BalanceKeys, BalanceTypes
<1>2. v \in Nat /\ w \in Nat /\ fee \in Nat /\ fee <= w
  <2>1. Value(give, price, amount) \in Nat /\ Value(gets, price, amount) \in Nat
    BY <1>1, ValueType
  <2> QED
    BY <2>1, FeesAssumption, ProductMonotone
<1> HIDE DEF v, w, fee
<1>3. paid \in [BalanceKeys -> Nat] /\ got \in [BalanceKeys -> Nat]
  BY <1>1, <1>2, BalanceSubType, BalanceAddType
<1>4. paid = [b EXCEPT ![pay] = Rescale(give, b[pay] - v)]
  BY <1>1, <1>2 DEF BalanceSub, v
<1>5. got = [paid EXCEPT ![get] = Rescale(gets, paid[get] + w)] /\ paid[get] = b[get]
  BY <1>1, <1>3, <1>4 DEF BalanceAdd
<1> HIDE DEF paid
<1>6. r \in [BalanceKeys -> Nat]
  BY <1>1, <1>2, <1>3, BalanceSubType
<1>7. ASSUME NEW k \in BalanceKeys, k # get
      PROVE  r[k] = paid[k]
  <2>1. got[k] = paid[k]
    BY <1>1, <1>3, <1>5, <1>7
  <2> QED
    BY <1>1, <1>3, <1>7, <2>1 DEF BalanceSub
<1>8. ASSUME NEW n \in Nat, b[get] >= n * FeeOne
      PROVE  r[get] >= n * FeeOne
  <2>0. n * FeeOne \in Nat
    BY FeesAssumption
  <2>1. got[get] = Rescale(gets, b[get] + w)
    BY <1>1, <1>3, <1>5
  <2>a. b[get] \in Nat
    BY <1>1
  <2> DEFINE x == Value(gets, price, amount)
  <2>b. x \in Nat /\ w = x * FeeOne /\ (n + x) * FeeOne = n * FeeOne + w
    BY <1>1, ValueType, FeesAssumption DEF w
  <2>2. got[get] >= n * FeeOne + w
    <3>1. (n + x) * FeeOne <= b[get] + w
      BY <1>2, <1>8, <2>0, <2>a, <2>b
    <3>2. n + x \in Nat /\ b[get] + w \in Nat
      BY <1>2, <2>a, <2>b
    <3> HIDE DEF x
    <3> QED
      BY <1>1, <2>1, <2>b, <3>1, <3>2, RescaleAbove
  <2>3. CASE fee > 0
    <3>0. got[get] \in Nat
      BY <1>1, <1>3
    <3>1. got[get] - fee \in Nat /\ got[get] - fee >= n * FeeOne /\ ~(got[get] < fee)
      BY <1>2, <2>0, <2>2, <3>0
    <3>2. r = [got EXCEPT ![get] = Rescale(gets, got[get] - fee)]
      BY <2>3, <3>1 DEF BalanceSub
    <3>3. r[get] = Rescale(gets, got[get] - fee)
      BY <1>1, <1>3, <3>2
    <3> QED
      BY <1>1, <3>1, <3>3, RescaleAbove
  <2>4. CASE ~(fee > 0)
    BY <1>1, <1>2, <1>3, <2>0, <2>2, <2>4
  <2> QED
    BY <2>3, <2>4
<1>9. r[pay] = Rescale(give, b[pay] - v)
  BY <1>1, <1>4, <1>7
<1>10. \A k \in BalanceKeys : k # pay /\ k # get => r[k] = b[k]
  BY <1>4, <1>7
<1>11. r = Trade(b, u, t, side, price, amount, rate)
  BY DEF Trade, paid, fee, v, w
<1> QED
  BY <1>6, <1>8, <1>9, <1>10, <1>11 DEF v

-----------------------------------------------------------------------------
(* Counting the units the open orders hold *)

Owner(o, u, a) == o.user_id = u /\ Gives(o.side) = a

\* HeldUnits for a dictionary f of orders
Held(f, u, a) ==
    UNION {{i} \X (1..f[i].freeze) :
              i \in {j \in DOMAIN f : f[j].user_id = u /\ Gives(f[j].side) = a}}

\* Membership in the units an order dictionary holds for a user.
LEMMA HeldMember ==
    ASSUME NEW f, NEW u, NEW a, NEW x
    PROVE  x \in Held(f, u, a) <=>
              \E i \in DOMAIN f : /\ Owner(f[i], u, a)
                                  /\ x \in {i} \X (1..f[i].freeze)
BY DEF Held, Owner

\* The units one order holds between two bounds.
LEMMA BlockCardinality ==
    ASSUME NEW i, NEW m \in Nat, NEW n \in Nat, m <= n
    PROVE  /\ IsFiniteSet({i} \X ((m + 1)..n))
           /\ Cardinality({i} \X ((m + 1)..n)) = n - m
<1>1. IsFiniteSet((m + 1)..n) /\ Cardinality((m + 1)..n) = n - m
  <2>1. m + 1 \in Int /\ n \in Int
    OBVIOUS
  <2>2. /\ IsFiniteSet((m + 1)..n)
        /\ Cardinality((m + 1)..n) = IF m + 1 > n THEN 0 ELSE n - (m + 1) + 1
    BY <2>1, FS_Interval
  <2> QED
    BY <2>2
<1>2. IsFiniteSet({i}) /\ Cardinality({i}) = 1
  BY FS_Singleton
<1>3. /\ IsFiniteSet({i} \X ((m + 1)..n))
      /\ Cardinality({i} \X ((m + 1)..n)) = 1 * (n - m)
  BY <1>1, <1>2, FS_Product
<1> QED
  BY <1>3

\* The units one order holds in all.
LEMMA WholeBlockCardinality ==
    ASSUME NEW i, NEW n \in Nat
    PROVE  IsFiniteSet({i} \X (1..n)) /\ Cardinality({i} \X (1..n)) = n
<1>1. IsFiniteSet({i} \X ((0 + 1)..n)) /\ Cardinality({i} \X ((0 + 1)..n)) = n - 0
  BY BlockCardinality
<1>2. 0 + 1 = 1 /\ n - 0 = n
  OBVIOUS
<1> QED
  BY <1>1, <1>2

\* Adding disjoint units adds their number.
LEMMA GrowCardinality ==
    ASSUME NEW S, NEW T, IsFiniteSet(S), IsFiniteSet(T), S \cap T = {}
    PROVE  /\ IsFiniteSet(S \cup T)
           /\ Cardinality(S \cup T) = Cardinality(S) + Cardinality(T)
<1>1. Cardinality({}) = 0
  BY FS_EmptySet
<1>2. Cardinality(S) \in Nat /\ Cardinality(T) \in Nat
  BY FS_CardinalityType
<1>3. /\ IsFiniteSet(S \cup T)
      /\ Cardinality(S \cup T) = Cardinality(S) + Cardinality(T) - Cardinality(S \cap T)
  BY FS_Union
<1>4. Cardinality(S \cap T) = 0
  BY <1>1
<1> QED
  BY <1>2, <1>3, <1>4

\* Removing units a set has subtracts their number.
LEMMA ShrinkCardinality ==
    ASSUME NEW S, NEW T, IsFiniteSet(S), T \subseteq S
    PROVE  /\ IsFiniteSet(S \ T)
           /\ Cardinality(S \ T) = Cardinality(S) - Cardinality(T)
           /\ Cardinality(T) <= Cardinality(S)
<1>1. S \cap T = T
  OBVIOUS
<1>2. IsFiniteSet(T) /\ IsFiniteSet(S \ T)
  BY FS_Subset
<1>3. Cardinality(S \ T) = Cardinality(S) - Cardinality(T)
  BY <1>1, FS_Difference
<1>4. Cardinality(S) \in Nat /\ Cardinality(T) \in Nat /\ Cardinality(S \ T) \in Nat
  BY <1>2, FS_CardinalityType
<1> QED
  BY <1>2, <1>3, <1>4

\* order_put adds an order that holds o.freeze units.
LEMMA HeldPut ==
    ASSUME NEW f, NEW o \in Order, o.id \notin DOMAIN f, NEW u, NEW a,
           IsFiniteSet(Held(f, u, a))
    PROVE  LET g == [j \in DOMAIN f \cup {o.id} |-> IF j = o.id THEN o ELSE f[j]]
           IN  /\ IsFiniteSet(Held(g, u, a))
               /\ Cardinality(Held(g, u, a)) = Cardinality(Held(f, u, a))
                      + (IF Owner(o, u, a) THEN o.freeze ELSE 0)
<1> DEFINE g == [j \in DOMAIN f \cup {o.id} |-> IF j = o.id THEN o ELSE f[j]]
           B == {o.id} \X (1..o.freeze)
<1>1. o.freeze \in Nat
  BY DEF Order
<1>2. IsFiniteSet(B) /\ Cardinality(B) = o.freeze
  BY <1>1, WholeBlockCardinality
<1>3. Held(f, u, a) \cap B = {}
  <2> SUFFICES ASSUME NEW x \in B, x \in Held(f, u, a) PROVE FALSE
    OBVIOUS
  <2>1. PICK i \in DOMAIN f : x \in {i} \X (1..f[i].freeze)
    BY HeldMember
  <2> QED
    BY <2>1
<1>4. CASE Owner(o, u, a)
  <2>1. ASSUME NEW x PROVE x \in Held(g, u, a) <=> x \in Held(f, u, a) \cup B
    <3>1. x \in Held(g, u, a) <=> \E i \in DOMAIN g : Owner(g[i], u, a) /\ x \in {i} \X (1..g[i].freeze)
      BY HeldMember
    <3>2. x \in Held(f, u, a) <=> \E i \in DOMAIN f : Owner(f[i], u, a) /\ x \in {i} \X (1..f[i].freeze)
      BY HeldMember
    <3> QED
      BY <3>1, <3>2, <1>4
  <2>2. Held(g, u, a) = Held(f, u, a) \cup B
    BY <2>1
  <2> HIDE DEF g, B
  <2> QED
    BY <1>2, <1>3, <1>4, <2>2, GrowCardinality DEF g
<1>5. CASE ~Owner(o, u, a)
  <2>1. ASSUME NEW x PROVE x \in Held(g, u, a) <=> x \in Held(f, u, a)
    <3>1. x \in Held(g, u, a) <=> \E i \in DOMAIN g : Owner(g[i], u, a) /\ x \in {i} \X (1..g[i].freeze)
      BY HeldMember
    <3>2. x \in Held(f, u, a) <=> \E i \in DOMAIN f : Owner(f[i], u, a) /\ x \in {i} \X (1..f[i].freeze)
      BY HeldMember
    <3> QED
      BY <3>1, <3>2, <1>5
  <2>2. Held(g, u, a) = Held(f, u, a)
    BY <2>1
  <2> HIDE DEF g
  <2> QED
    BY <1>5, <2>2, FS_CardinalityType DEF g
<1> QED
  BY <1>4, <1>5

\* A deal leaves an order fewer units.
LEMMA HeldUpdate ==
    ASSUME NEW f, NEW i \in DOMAIN f, NEW o \in Order, f[i] \in Order,
           o.user_id = f[i].user_id, o.side = f[i].side, o.freeze <= f[i].freeze,
           NEW u, NEW a, IsFiniteSet(Held(f, u, a))
    PROVE  LET g == [f EXCEPT ![i] = o]
           IN  /\ IsFiniteSet(Held(g, u, a))
               /\ Cardinality(Held(g, u, a)) = Cardinality(Held(f, u, a))
                      - (IF Owner(o, u, a) THEN f[i].freeze - o.freeze ELSE 0)
<1> DEFINE g == [f EXCEPT ![i] = o]
           B == {i} \X ((o.freeze + 1)..f[i].freeze)
<1>1. o.freeze \in Nat /\ f[i].freeze \in Nat
  BY DEF Order
<1>2. IsFiniteSet(B) /\ Cardinality(B) = f[i].freeze - o.freeze
  BY <1>1, BlockCardinality
<1>3. ASSUME NEW x
      PROVE  /\ x \in Held(g, u, a) <=> \E j \in DOMAIN g : Owner(g[j], u, a) /\ x \in {j} \X (1..g[j].freeze)
             /\ x \in Held(f, u, a) <=> \E j \in DOMAIN f : Owner(f[j], u, a) /\ x \in {j} \X (1..f[j].freeze)
  BY HeldMember
<1>4. Owner(o, u, a) <=> Owner(f[i], u, a)
  BY DEF Owner
<1>5. CASE Owner(o, u, a)
  <2>1. B \subseteq Held(f, u, a)
    BY <1>1, <1>3, <1>4, <1>5
  <2>2. ASSUME NEW x PROVE x \in Held(g, u, a) <=> x \in Held(f, u, a) \ B
    <3>1. DOMAIN g = DOMAIN f /\ g[i] = o /\ \A j \in DOMAIN f \ {i} : g[j] = f[j]
      OBVIOUS
    <3> HIDE DEF g
    <3>2. CASE x \in {i} \X (1..f[i].freeze)
      <4>1. x \in Held(f, u, a)
        BY <1>3, <1>4, <1>5, <3>2
      <4>2. x \in Held(g, u, a) <=> x \in {i} \X (1..o.freeze)
        BY <1>3, <1>5, <3>1, <3>2
      <4> QED
        BY <1>1, <3>2, <4>1, <4>2
    <3>3. CASE x \notin {i} \X (1..f[i].freeze)
      <4>1. x \notin B /\ x \notin {i} \X (1..o.freeze)
        BY <1>1, <3>3
      <4> QED
        BY <1>3, <3>1, <3>3, <4>1
    <3> QED
      BY <3>2, <3>3
  <2>3. Held(g, u, a) = Held(f, u, a) \ B
    BY <2>2
  <2> HIDE DEF g, B
  <2> QED
    BY <1>2, <1>5, <2>1, <2>3, ShrinkCardinality DEF g
<1>6. CASE ~Owner(o, u, a)
  <2>1. ASSUME NEW x PROVE x \in Held(g, u, a) <=> x \in Held(f, u, a)
    BY <1>3, <1>4, <1>6
  <2>2. Held(g, u, a) = Held(f, u, a)
    BY <2>1
  <2> HIDE DEF g
  <2> QED
    BY <1>6, <2>2, FS_CardinalityType DEF g
<1> QED
  BY <1>5, <1>6

\* order_finish removes an order with all it holds.
LEMMA HeldDrop ==
    ASSUME NEW f, NEW i \in DOMAIN f, f[i] \in Order,
           NEW u, NEW a, IsFiniteSet(Held(f, u, a))
    PROVE  /\ IsFiniteSet(Held(Drop(f, i), u, a))
           /\ Cardinality(Held(Drop(f, i), u, a)) = Cardinality(Held(f, u, a))
                  - (IF Owner(f[i], u, a) THEN f[i].freeze ELSE 0)
           /\ Owner(f[i], u, a) => f[i].freeze <= Cardinality(Held(f, u, a))
<1> DEFINE g == Drop(f, i)
           B == {i} \X (1..f[i].freeze)
<1>1. f[i].freeze \in Nat
  BY DEF Order
<1>2. IsFiniteSet(B) /\ Cardinality(B) = f[i].freeze
  BY <1>1, WholeBlockCardinality
<1>3. ASSUME NEW x
      PROVE  /\ x \in Held(g, u, a) <=> \E j \in DOMAIN g : Owner(g[j], u, a) /\ x \in {j} \X (1..g[j].freeze)
             /\ x \in Held(f, u, a) <=> \E j \in DOMAIN f : Owner(f[j], u, a) /\ x \in {j} \X (1..f[j].freeze)
  BY HeldMember
<1>4. DOMAIN g = DOMAIN f \ {i} /\ \A j \in DOMAIN g : g[j] = f[j]
  BY DEF Drop
<1> HIDE DEF g
<1>5. CASE Owner(f[i], u, a)
  <2>1. B \subseteq Held(f, u, a)
    BY <1>1, <1>3, <1>5
  <2>2. ASSUME NEW x PROVE x \in Held(g, u, a) <=> x \in Held(f, u, a) \ B
    BY <1>3, <1>4, <1>5
  <2>3. Held(g, u, a) = Held(f, u, a) \ B
    BY <2>2
  <2> HIDE DEF B
  <2> QED
    BY <1>2, <1>5, <2>1, <2>3, ShrinkCardinality DEF g
<1>6. CASE ~Owner(f[i], u, a)
  <2>1. ASSUME NEW x PROVE x \in Held(g, u, a) <=> x \in Held(f, u, a)
    BY <1>3, <1>4, <1>6
  <2>2. Held(g, u, a) = Held(f, u, a)
    BY <2>1
  <2> QED
    BY <1>6, <2>2, FS_CardinalityType DEF g
<1> QED
  BY <1>5, <1>6

-----------------------------------------------------------------------------
(* The inductive invariant *)

HeldFinite == \A u \in Users, a \in Assets : IsFiniteSet(HeldUnits(u, a))

Inv ==
    /\ TypeOK
    /\ IndexConsistent
    /\ OrderAccounts
    /\ Uncrossed
    /\ IterValid
    /\ TakerAtFront
    /\ TakerFunded
    /\ FreezeBacked
    /\ HeldFinite

\* HeldUnits is Held of the current dictionary.
LEMMA HeldUnitsIsHeld ==
    ASSUME NEW u, NEW a
    PROVE  HeldUnits(u, a) = Held(orders, u, a)
BY DEF HeldUnits, Held, OpenOrders

\* The same of the state after a step
LEMMA HeldUnitsIsHeldAfter ==
    ASSUME NEW u, NEW a
    PROVE  HeldUnits(u, a)' = Held(orders', u, a)
BY DEF HeldUnits, Held, OpenOrders

\* f is the order o after a deal.
IsFilled(f, o, used, unfrozen, price, amount) ==
    /\ f \in Order
    /\ f.id = o.id /\ f.type = o.type /\ f.side = o.side
    /\ f.user_id = o.user_id /\ f.price = o.price /\ f.amount = o.amount
    /\ f.taker_fee = o.taker_fee /\ f.maker_fee = o.maker_fee
    /\ f.left = o.left - used /\ f.freeze = o.freeze - unfrozen
    /\ f.deal_stock = o.deal_stock + amount
    /\ f.deal_money = o.deal_money + price * amount

\* The fields of an order after a deal.
LEMMA FilledFields ==
    ASSUME NEW o \in Order, NEW used \in 0..o.left, NEW unfrozen \in 0..o.freeze,
           NEW price \in Nat, NEW amount \in Nat, NEW rate \in 0..(FeeOne - 1)
    PROVE  IsFilled(Filled(o, used, unfrozen, price, amount, rate),
                    o, used, unfrozen, price, amount)
<1> DEFINE f == Filled(o, used, unfrozen, price, amount, rate)
           fee == Value(Gets(o.side), price, amount) * rate
<1>1. o.side \in Sides /\ o.left \in Nat /\ o.freeze \in Nat /\ o.deal_stock \in Nat
      /\ o.deal_money \in Nat /\ o.deal_fee \in Nat
  BY DEF Order
<1>2. fee \in Nat /\ price * amount \in Nat
  <2>1. Gets(o.side) \in Assets
    BY <1>1, SideAssets
  <2>2. Value(Gets(o.side), price, amount) \in Nat
    BY <2>1, ValueType
  <2>3. rate \in Nat
    BY FeesAssumption
  <2> QED
    BY <2>2, <2>3, ProductNat
<1> DEFINE left == o.left - used
           freeze == o.freeze - unfrozen
           deal_stock == o.deal_stock + amount
           deal_money == o.deal_money + price * amount
           deal_fee == o.deal_fee + fee
<1>3. /\ left \in Nat /\ freeze \in Nat /\ deal_stock \in Nat
      /\ deal_money \in Nat /\ deal_fee \in Nat
  BY <1>1, <1>2
<1>4. f = [o EXCEPT !.left = left, !.freeze = freeze, !.deal_stock = deal_stock,
                    !.deal_money = deal_money, !.deal_fee = deal_fee]
  BY DEF Filled
<1> HIDE DEF f, fee, left, freeze, deal_stock, deal_money, deal_fee
<1>5. f \in Order
  BY <1>3, <1>4 DEF Order
<1>6. /\ f.id = o.id /\ f.type = o.type /\ f.side = o.side
      /\ f.user_id = o.user_id /\ f.price = o.price /\ f.amount = o.amount
      /\ f.taker_fee = o.taker_fee /\ f.maker_fee = o.maker_fee
      /\ f.left = left /\ f.freeze = freeze
      /\ f.deal_stock = deal_stock /\ f.deal_money = deal_money
  BY <1>4 DEF Order
<1>7. IsFilled(f, o, used, unfrozen, price, amount)
  BY <1>5, <1>6 DEF left, freeze, deal_stock, deal_money, IsFilled
<1> QED
  BY <1>7 DEF f

\* Facts about the order under the iterator
LEMMA MakerFacts ==
    ASSUME Inv, ~Idle, iter # 0
    PROVE  /\ taker \in Order
           /\ iter \in OpenOrders /\ iter \in Opposite(taker.side)
           /\ orders[iter] \in Order /\ orders[iter].id = iter
           /\ orders[iter].type = "LIMIT" /\ orders[iter].price > 0
           /\ orders[iter].left > 0
           /\ orders[iter].freeze = Value(Gives(orders[iter].side), orders[iter].price, orders[iter].left)
           /\ Gives(orders[iter].side) = Gets(taker.side)
           /\ Gets(orders[iter].side) = Gives(taker.side)
           /\ orders[iter].side # taker.side
           /\ iter # taker.id
<1>1. taker \in Order /\ iter \in Opposite(taker.side)
  BY DEF Inv, TypeOK, IterValid
<1>2. taker.side \in Sides
  BY <1>1 DEF Order
<1>3. iter \in OpenOrders /\ orders[iter].side \in Sides /\ orders[iter].side # taker.side
  BY <1>1, <1>2 DEF Inv, IndexConsistent, Opposite, Sides
<1> QED
  BY <1>1, <1>2, <1>3
  DEF Inv, TypeOK, IndexConsistent, OrderAccounts, TakerAtFront, OpenOrders, Gives, Gets, Sides

\* What the execute_*_order loops establish before the body of a deal runs
DealOK(amount, used) ==
    /\ ~Idle /\ iter # 0
    /\ amount \in 0..orders[iter].left
    /\ used \in 0..taker.left
    /\ taker.type = "LIMIT" =>
          /\ used = amount
          /\ Crosses(taker, orders[iter])
          /\ amount = taker.left \/ amount = orders[iter].left
    /\ taker.type # "LIMIT" =>
          used = Value(Gives(taker.side), orders[iter].price, amount)

\* What is owed covers the deal and all that is owed after it.
LEMMA OwedCovers ==
    ASSUME Inv, NEW amount, NEW used, DealOK(amount, used), NEW t \in Order,
           t.type = taker.type, t.side = taker.side, t.price = taker.price,
           t.left = taker.left - used
    PROVE  /\ Owed(taker) \in Nat /\ Owed(t) \in Nat
           /\ Value(Gives(taker.side), orders[iter].price, amount) \in Nat
           /\ Owed(t) + Value(Gives(taker.side), orders[iter].price, amount) <= Owed(taker)
<1> DEFINE p == orders[iter].price
           q == taker.price
<1>1. /\ taker \in Order /\ orders[iter] \in Order
  BY MakerFacts DEF DealOK
<1>2. /\ p \in Nat /\ q \in Nat /\ taker.left \in Nat /\ amount \in Nat /\ used \in Nat
      /\ used <= taker.left /\ taker.side \in Sides /\ orders[iter].left \in Nat
  BY <1>1 DEF DealOK, Order
<1>3. CASE taker.type # "LIMIT"
  <2>1. /\ used = Value(Gives(taker.side), p, amount)
        /\ Owed(taker) = taker.left /\ Owed(t) = taker.left - used
    BY <1>3 DEF DealOK, Owed
  <2> HIDE DEF p
  <2> QED
    BY <1>2, <2>1 DEF p
<1>4. CASE taker.type = "LIMIT" /\ taker.side = "ASK"
  BY <1>1, <1>2, <1>4 DEF DealOK, Owed, Gives, Value
<1>5. CASE taker.type = "LIMIT" /\ taker.side = "BID"
  <2>1. p <= q /\ used = amount
    BY <1>1, <1>2, <1>5 DEF DealOK, Crosses
  <2>2. p * amount <= q * amount /\ p * amount \in Nat
    BY <1>2, <2>1
  <2>3. q * (taker.left - amount) = q * taker.left - q * amount
    BY <1>2
  <2>4. q * taker.left \in Nat /\ q * (taker.left - amount) \in Nat /\ q * amount \in Nat
    BY <1>2, <2>1, ProductNat
  <2>5. /\ Owed(taker) = q * taker.left /\ Owed(t) = q * (taker.left - amount)
        /\ Value(Gives(taker.side), p, amount) = p * amount
    BY <1>5, <2>1 DEF Owed, Gives, Value
  <2> HIDE DEF p, q
  <2> QED
    BY <2>2, <2>3, <2>4, <2>5 DEF p
<1> QED
  BY <1>2, <1>3, <1>4, <1>5 DEF Sides

\* The balances after a deal: no balance_sub fails, the frozen balance of the
\* maker loses what the maker gives, no other frozen balance changes, and the
\* taker can still pay what it owes.
LEMMA DealBalances ==
    ASSUME Inv, NEW amount, NEW used, DealOK(amount, used), NEW t \in Order,
           t.type = taker.type, t.side = taker.side, t.price = taker.price,
           t.left = taker.left - used
    PROVE  LET b == DealtBalance(amount)
               maker == orders[iter]
           IN  /\ b \in [BalanceKeys -> Nat]
               /\ b[<<taker.user_id, "AVAILABLE", Gives(taker.side)>>] >= Owed(t) * FeeOne
               /\ \A u \in Users, a \in Assets :
                     b[<<u, "FREEZE", a>>] = balance[<<u, "FREEZE", a>>]
                        - (IF Owner(maker, u, a)
                           THEN Value(Gives(maker.side), maker.price, amount) * FeeOne
                           ELSE 0)
<1> DEFINE maker == orders[iter]
           give == Gives(taker.side)
           get == Gets(taker.side)
           gv == Value(give, maker.price, amount)
           mv == Value(get, maker.price, amount)
           b1 == Trade(balance, taker.user_id, "AVAILABLE", taker.side, maker.price,
                       amount, taker.taker_fee)
           b == Trade(b1, maker.user_id, "FREEZE", maker.side, maker.price, amount,
                      maker.maker_fee)
           tkey == <<taker.user_id, "AVAILABLE", give>>
           mkey == <<maker.user_id, "FREEZE", get>>
<1>1. /\ taker \in Order /\ maker \in Order /\ iter \in DOMAIN orders
      /\ Gives(maker.side) = get /\ Gets(maker.side) = give
      /\ maker.freeze = Value(get, maker.price, maker.left)
  BY MakerFacts DEF DealOK, OpenOrders
<1>2. /\ maker.price \in Nat /\ amount \in Nat /\ amount <= maker.left /\ maker.left \in Nat
      /\ taker.user_id \in Users /\ maker.user_id \in Users
      /\ taker.side \in Sides /\ maker.side \in Sides
      /\ taker.taker_fee \in 0..(FeeOne - 1) /\ maker.maker_fee \in 0..(FeeOne - 1)
  BY <1>1 DEF DealOK, Order
<1>3. give \in Assets /\ get \in Assets /\ give # get
  BY <1>2, SideAssets
<1>4. gv \in Nat /\ mv \in Nat
  BY <1>2, <1>3, ValueType
<1>5. /\ tkey \in BalanceKeys /\ mkey \in BalanceKeys
      /\ \A u \in Users, a \in Assets : /\ <<u, "FREEZE", a>> \in BalanceKeys
                                        /\ <<u, "AVAILABLE", a>> \in BalanceKeys
      /\ "AVAILABLE" \in BalanceTypes /\ "FREEZE" \in BalanceTypes
  BY <1>2, <1>3 DEF BalanceKeys, BalanceTypes
<1>6. balance \in [BalanceKeys -> Nat]
  BY DEF Inv, TypeOK
<1>7. Owed(taker) \in Nat /\ Owed(t) \in Nat /\ Owed(t) + gv <= Owed(taker)
  BY OwedCovers
<1>8. /\ balance[tkey] \in Nat
      /\ Owed(t) * FeeOne \in Nat /\ gv * FeeOne \in Nat
      /\ Owed(t) * FeeOne + gv * FeeOne <= balance[tkey]
  <2>1. balance[tkey] >= Owed(taker) * FeeOne
    BY DEF DealOK, Inv, TakerFunded
  <2>2. balance[tkey] \in Nat
    BY <1>5, <1>6
  <2>3. (Owed(t) + gv) * FeeOne <= Owed(taker) * FeeOne
    BY <1>4, <1>7, FeesAssumption
  <2>4. (Owed(t) + gv) * FeeOne = Owed(t) * FeeOne + gv * FeeOne
    BY <1>4, <1>7, FeesAssumption
  <2>5. Owed(t) * FeeOne \in Nat /\ gv * FeeOne \in Nat /\ Owed(taker) * FeeOne \in Nat
    BY <1>4, <1>7, FeesAssumption, ProductNat
  <2> QED
    BY <2>1, <2>2, <2>3, <2>4, <2>5
<1>9. /\ b1 \in [BalanceKeys -> Nat]
      /\ \A k \in BalanceKeys :
            k # tkey /\ k # <<taker.user_id, "AVAILABLE", get>> => b1[k] = balance[k]
      /\ b1[tkey] = Rescale(give, balance[tkey] - gv * FeeOne)
  <2>1. balance[<<taker.user_id, "AVAILABLE", Gives(taker.side)>>]
           >= Value(Gives(taker.side), maker.price, amount) * FeeOne
    BY <1>8
  <2> HIDE DEF maker
  <2>2. /\ b1 \in [BalanceKeys -> Nat]
        /\ \A k \in BalanceKeys :
              /\ k # <<taker.user_id, "AVAILABLE", Gives(taker.side)>>
              /\ k # <<taker.user_id, "AVAILABLE", Gets(taker.side)>>
              => b1[k] = balance[k]
        /\ b1[<<taker.user_id, "AVAILABLE", Gives(taker.side)>>]
              = Rescale(Gives(taker.side), balance[<<taker.user_id, "AVAILABLE", Gives(taker.side)>>]
                    - Value(Gives(taker.side), maker.price, amount) * FeeOne)
        /\ \A n \in Nat : balance[<<taker.user_id, "AVAILABLE", Gets(taker.side)>>] >= n * FeeOne
              => b1[<<taker.user_id, "AVAILABLE", Gets(taker.side)>>] >= n * FeeOne
    <3>1. "AVAILABLE" \in BalanceTypes
      BY DEF BalanceTypes
    <3>2. /\ maker.price \in Nat /\ amount \in Nat /\ taker.user_id \in Users
          /\ taker.side \in Sides /\ taker.taker_fee \in 0..(FeeOne - 1)
      BY <1>2
    <3> QED
      BY <1>6, <2>1, <3>1, <3>2, TradeEffect
  <2> HIDE DEF b1
  <2> QED
    BY <2>2
<1>10. b1[tkey] >= Owed(t) * FeeOne
  <2>1. balance[tkey] - gv * FeeOne \in Nat /\ Owed(t) * FeeOne <= balance[tkey] - gv * FeeOne
    BY <1>8
  <2> QED
    BY <1>3, <1>7, <1>9, <2>1, RescaleAbove
<1>11. \A u \in Users, a \in Assets : b1[<<u, "FREEZE", a>>] = balance[<<u, "FREEZE", a>>]
  BY <1>5, <1>9
<1> DEFINE card == Cardinality(Held(orders, maker.user_id, get))
<1>12. /\ card \in Nat /\ mv <= card /\ balance[mkey] = card * FeeOne
  <2>1. IsFiniteSet(Held(orders, maker.user_id, get))
    BY <1>2, <1>3, HeldUnitsIsHeld DEF Inv, HeldFinite
  <2>2. Owner(maker, maker.user_id, get)
    BY <1>1 DEF Owner
  <2>3. maker.freeze <= card
    BY <1>1, <2>1, <2>2, HeldDrop
  <2>4. mv <= maker.freeze
    <3> HIDE DEF maker, get
    <3>1. Value(get, maker.price, amount) <= Value(get, maker.price, maker.left)
      BY <1>2, <1>3 DEF Value
    <3> QED
      BY <1>1, <3>1
  <2>5. card \in Nat
    BY <2>1, FS_CardinalityType
  <2>6. balance[mkey] = card * FeeOne
    BY <1>2, <1>3, HeldUnitsIsHeld DEF Inv, FreezeBacked
  <2>7. maker.freeze \in Nat
    BY <1>1 DEF Order
  <2> HIDE DEF card, mv
  <2> QED
    BY <1>4, <2>3, <2>4, <2>5, <2>6, <2>7
<1> HIDE DEF card
<1>13. /\ balance[mkey] = b1[mkey]
       /\ b1[mkey] >= mv * FeeOne
       /\ b1[mkey] - mv * FeeOne = (card - mv) * FeeOne /\ card - mv \in Nat
  BY <1>2, <1>3, <1>4, <1>11, <1>12, FeesAssumption
<1>14. /\ b \in [BalanceKeys -> Nat]
       /\ \A k \in BalanceKeys :
             k # mkey /\ k # <<maker.user_id, "AVAILABLE", give>> => b[k] = b1[k]
       /\ b[mkey] = Rescale(get, b1[mkey] - mv * FeeOne)
       /\ \A n \in Nat : b1[<<maker.user_id, "AVAILABLE", give>>] >= n * FeeOne
              => b[<<maker.user_id, "AVAILABLE", give>>] >= n * FeeOne
  <2> HIDE DEF b1
  <2>1. b1[<<maker.user_id, "FREEZE", Gives(maker.side)>>]
           >= Value(Gives(maker.side), maker.price, amount) * FeeOne
    BY <1>1, <1>13
  <2> HIDE DEF maker
  <2>2. /\ b \in [BalanceKeys -> Nat]
        /\ \A k \in BalanceKeys :
              /\ k # <<maker.user_id, "FREEZE", Gives(maker.side)>>
              /\ k # <<maker.user_id, "AVAILABLE", Gets(maker.side)>>
              => b[k] = b1[k]
        /\ b[<<maker.user_id, "FREEZE", Gives(maker.side)>>]
              = Rescale(Gives(maker.side), b1[<<maker.user_id, "FREEZE", Gives(maker.side)>>]
                    - Value(Gives(maker.side), maker.price, amount) * FeeOne)
        /\ \A n \in Nat : b1[<<maker.user_id, "AVAILABLE", Gets(maker.side)>>] >= n * FeeOne
              => b[<<maker.user_id, "AVAILABLE", Gets(maker.side)>>] >= n * FeeOne
    BY <1>2, <1>5, <1>9, <2>1, TradeEffect
  <2> HIDE DEF b
  <2> QED
    BY <1>1, <2>2
<1>15. b = DealtBalance(amount)
  BY DEF DealtBalance
<1> HIDE DEF b, b1
<1>16. b[tkey] >= Owed(t) * FeeOne
  <2>1. CASE tkey = <<maker.user_id, "AVAILABLE", give>>
    BY <1>7, <1>10, <1>14, <2>1
  <2>2. CASE tkey # <<maker.user_id, "AVAILABLE", give>>
    BY <1>5, <1>10, <1>14, <2>2
  <2> QED
    BY <2>1, <2>2
<1>17. ASSUME NEW u \in Users, NEW a \in Assets
       PROVE  b[<<u, "FREEZE", a>>] = balance[<<u, "FREEZE", a>>]
                 - (IF Owner(maker, u, a) THEN mv * FeeOne ELSE 0)
  <2>1. CASE Owner(maker, u, a)
    <3>1. <<u, "FREEZE", a>> = mkey
      BY <1>1, <2>1 DEF Owner
    <3>2. b[mkey] = b1[mkey] - mv * FeeOne
      BY <1>3, <1>13, <1>14, RescaleExact
    <3> QED
      BY <1>13, <2>1, <3>1, <3>2
  <2>2. CASE ~Owner(maker, u, a)
    <3>1. <<u, "FREEZE", a>> # mkey
      BY <1>1, <2>2 DEF Owner
    <3>2. b[<<u, "FREEZE", a>>] = balance[<<u, "FREEZE", a>>]
      BY <1>5, <1>11, <1>14, <3>1
    <3>3. balance[<<u, "FREEZE", a>>] \in Nat
      BY <1>5, <1>6
    <3> QED
      BY <2>2, <3>2, <3>3
  <2> QED
    BY <2>1, <2>2
<1> QED
  BY <1>1, <1>14, <1>15, <1>16, <1>17

\* skiplist_get_iterator gives a node of the list or NULL.
LEMMA FrontMember ==
    ASSUME NEW S, NEW i \in Front(S)
    PROVE  i \in S \cup {0}
BY DEF Front

\* The maker after a deal, and what a deal does to the dictionary of orders
LEMMA DealtMakerFacts ==
    ASSUME Inv, NEW amount, NEW used, DealOK(amount, used)
    PROVE  LET maker == orders[iter]
               m == DealtMaker(amount)
               mv == Value(Gives(maker.side), maker.price, amount)
           IN  /\ m \in Order /\ mv \in Nat
               /\ m.id = iter /\ m.type = "LIMIT" /\ m.side = maker.side
               /\ m.user_id = maker.user_id /\ m.price = maker.price
               /\ m.left = maker.left - amount
               /\ m.freeze = maker.freeze - mv
               /\ m.freeze = Value(Gives(m.side), m.price, m.left)
               /\ m.left + m.deal_stock = m.amount
               /\ m.left = 0 => m.freeze = 0
<1> DEFINE maker == orders[iter]
           give == Gives(maker.side)
           mv == Value(give, maker.price, amount)
           m == Filled(maker, amount, mv, maker.price, amount, maker.maker_fee)
<1>1. /\ maker \in Order /\ maker.id = iter /\ maker.type = "LIMIT"
      /\ maker.freeze = Value(give, maker.price, maker.left)
      /\ iter \in OpenOrders
  BY MakerFacts DEF DealOK
<1>2. /\ maker.price \in Nat /\ maker.left \in Nat /\ maker.deal_stock \in Nat
      /\ amount \in 0..maker.left /\ amount \in Nat /\ maker.side \in Sides
      /\ maker.maker_fee \in 0..(FeeOne - 1) /\ maker.freeze \in Nat /\ maker.amount \in Nat
  BY <1>1 DEF DealOK, Order
<1>3. give \in Assets
  BY <1>2, SideAssets
<1>4. maker.left + maker.deal_stock = maker.amount
  BY <1>1 DEF Inv, OrderAccounts
<1>5. m = DealtMaker(amount)
  BY DEF DealtMaker
<1> HIDE DEF maker, give
<1>6. mv \in Nat /\ mv \in 0..maker.freeze
  <2>1. Value(give, maker.price, amount) <= Value(give, maker.price, maker.left)
    BY <1>2, <1>3 DEF Value
  <2>2. mv \in Nat
    BY <1>2, <1>3, ValueType
  <2> QED
    BY <1>1, <1>2, <2>1, <2>2
<1>7. maker.freeze - mv = Value(give, maker.price, maker.left - amount)
  BY <1>1, <1>2, <1>3, ValueMinus
<1>8. Value(give, maker.price, 0) = 0
  BY <1>2 DEF Value
<1> HIDE DEF mv
<1>9. /\ m \in Order
      /\ m.id = maker.id /\ m.type = maker.type /\ m.side = maker.side
      /\ m.user_id = maker.user_id /\ m.price = maker.price /\ m.amount = maker.amount
      /\ m.taker_fee = maker.taker_fee /\ m.maker_fee = maker.maker_fee
      /\ m.left = maker.left - amount /\ m.freeze = maker.freeze - mv
      /\ m.deal_stock = maker.deal_stock + amount
      /\ m.deal_money = maker.deal_money + maker.price * amount
  <2>1. /\ maker \in Order /\ amount \in 0..maker.left /\ mv \in 0..maker.freeze
        /\ maker.price \in Nat /\ amount \in Nat /\ maker.maker_fee \in 0..(FeeOne - 1)
    BY <1>1, <1>2, <1>6
  <2>2. IsFilled(m, maker, amount, mv, maker.price, amount)
    BY ONLY <2>1, FilledFields
  <2> QED
    BY <2>2 DEF IsFilled
<1> HIDE DEF m
<1>10. m.left = 0 => m.freeze = 0
  BY <1>7, <1>8, <1>9
<1>11. m.freeze = Value(Gives(m.side), m.price, m.left)
  BY <1>7, <1>9 DEF give
<1>12. m.left + m.deal_stock = m.amount
  BY <1>2, <1>4, <1>9
<1> QED
  BY <1>1, <1>5, <1>6, <1>9, <1>10, <1>11, <1>12 DEF maker, give, mv

\* A deal removes a maker that is filled from every index and updates one that
\* is not; the units it gives are held no more.
LEMMA DealDict ==
    ASSUME Inv, NEW amount, NEW used, DealOK(amount, used), Deal(amount, used)
    PROVE  LET maker == orders[iter]
               m == DealtMaker(amount)
           IN  /\ balance' = DealtBalance(amount)
               /\ \/ /\ m.left = 0
                     /\ DOMAIN orders' = OpenOrders \ {iter}
                     /\ \A j \in OpenOrders \ {iter} : orders'[j] = orders[j]
                     /\ users' = [users EXCEPT ![maker.user_id] = @ \ {iter}]
                     /\ asks' = asks \ {iter} /\ bids' = bids \ {iter}
                     /\ order_event' = [order_event EXCEPT ![iter] = "FINISH"]
                     /\ order_history' = IF m.deal_stock > 0
                                         THEN [order_history EXCEPT ![iter] = @ + 1]
                                         ELSE order_history
                  \/ /\ m.left # 0
                     /\ DOMAIN orders' = OpenOrders
                     /\ orders'[iter] = m
                     /\ \A j \in OpenOrders \ {iter} : orders'[j] = orders[j]
                     /\ order_event' = [order_event EXCEPT ![iter] = "UPDATE"]
                     /\ UNCHANGED <<users, asks, bids, order_history>>
               /\ \A u \in Users, a \in Assets :
                     /\ IsFiniteSet(Held(orders', u, a))
                     /\ Cardinality(Held(orders', u, a)) = Cardinality(Held(orders, u, a))
                           - (IF Owner(maker, u, a)
                              THEN Value(Gives(maker.side), maker.price, amount) ELSE 0)
<1> DEFINE maker == orders[iter]
           m == DealtMaker(amount)
           mv == Value(Gives(maker.side), maker.price, amount)
<1>1. /\ m \in Order /\ mv \in Nat
      /\ m.id = iter /\ m.side = maker.side /\ m.user_id = maker.user_id
      /\ m.freeze = maker.freeze - mv
      /\ m.left = 0 => m.freeze = 0
  BY DealtMakerFacts
<1>2. /\ maker \in Order /\ iter \in DOMAIN orders /\ maker.freeze \in Nat /\ m.freeze \in Nat
      /\ maker.side \in Sides /\ iter \in OpenOrders
  <2>1. maker \in Order /\ iter \in OpenOrders
    BY MakerFacts DEF DealOK
  <2> QED
    BY <1>1, <2>1 DEF Order, OpenOrders
<1>3. maker.side = "ASK" => iter \notin bids
  BY <1>2 DEF Inv, IndexConsistent
<1>4. maker.side = "BID" => iter \notin asks
  BY <1>2 DEF Inv, IndexConsistent
<1>5. \A u \in Users, a \in Assets : IsFiniteSet(Held(orders, u, a))
  BY HeldUnitsIsHeld DEF Inv, HeldFinite
<1>6. \A u, a : Owner(m, u, a) <=> Owner(maker, u, a)
  BY <1>1 DEF Owner
<1>a. \A u, a : Owner(maker, u, a) <=> Owner(orders[iter], u, a)
  OBVIOUS
<1>b. \A u \in Users, a \in Assets : Cardinality(Held(orders, u, a)) \in Nat
  BY <1>5, FS_CardinalityType
<1>7. CASE m.left = 0
  <2>1. OrderFinish(m, DealtBalance(amount)) /\ order_event' = [order_event EXCEPT ![m.id] = "FINISH"]
    BY <1>7 DEF Deal
  <2>2. m.freeze = 0 /\ mv = maker.freeze
    BY <1>1, <1>2, <1>7
  <2> HIDE DEF m
  <2>3. /\ asks' = IF m.side = "ASK" THEN asks \ {iter} ELSE asks
        /\ bids' = IF m.side = "BID" THEN bids \ {iter} ELSE bids
        /\ balance' = DealtBalance(amount)
        /\ orders' = Drop(orders, iter)
        /\ users' = [users EXCEPT ![m.user_id] = @ \ {iter}]
        /\ order_history' = IF m.deal_stock > 0
                            THEN [order_history EXCEPT ![iter] = @ + 1]
                            ELSE order_history
    BY <1>1, <2>1, <2>2 DEF OrderFinish
  <2>4. asks' = asks \ {iter} /\ bids' = bids \ {iter}
    BY <1>1, <1>2, <1>3, <1>4, <2>3 DEF Sides
  <2>5. /\ DOMAIN orders' = OpenOrders \ {iter}
        /\ \A j \in OpenOrders \ {iter} : orders'[j] = orders[j]
    BY <2>3 DEF Drop, OpenOrders
  <2>6. ASSUME NEW u \in Users, NEW a \in Assets
        PROVE  /\ IsFiniteSet(Held(orders', u, a))
               /\ Cardinality(Held(orders', u, a)) = Cardinality(Held(orders, u, a))
                     - (IF Owner(maker, u, a) THEN mv ELSE 0)
    <3>1. /\ IsFiniteSet(Held(Drop(orders, iter), u, a))
          /\ Cardinality(Held(Drop(orders, iter), u, a)) = Cardinality(Held(orders, u, a))
                - (IF Owner(orders[iter], u, a) THEN orders[iter].freeze ELSE 0)
      BY <1>2, <1>5, HeldDrop
    <3> QED
      BY <2>2, <2>3, <3>1
  <2> QED
    BY <1>1, <1>7, <2>1, <2>3, <2>4, <2>5, <2>6 DEF m
<1>8. CASE m.left # 0
  <2>1. /\ balance' = DealtBalance(amount)
        /\ orders' = [orders EXCEPT ![iter] = m]
        /\ order_event' = [order_event EXCEPT ![iter] = "UPDATE"]
        /\ UNCHANGED <<users, asks, bids, order_history>>
    BY <1>1, <1>8 DEF Deal
  <2> HIDE DEF m
  <2>2. /\ DOMAIN orders' = OpenOrders
        /\ orders'[iter] = m
        /\ \A j \in OpenOrders \ {iter} : orders'[j] = orders[j]
    BY <1>2, <2>1 DEF OpenOrders
  <2>3. ASSUME NEW u \in Users, NEW a \in Assets
        PROVE  /\ IsFiniteSet(Held(orders', u, a))
               /\ Cardinality(Held(orders', u, a)) = Cardinality(Held(orders, u, a))
                     - (IF Owner(maker, u, a) THEN mv ELSE 0)
    <3>1. m.freeze <= orders[iter].freeze
      BY <1>1, <1>2
    <3>2. orders[iter] \in Order
      BY <1>2
    <3>3. m.user_id = orders[iter].user_id /\ m.side = orders[iter].side
      BY <1>1
    <3>4. /\ IsFiniteSet(Held([orders EXCEPT ![iter] = m], u, a))
          /\ Cardinality(Held([orders EXCEPT ![iter] = m], u, a)) = Cardinality(Held(orders, u, a))
                - (IF Owner(m, u, a) THEN orders[iter].freeze - m.freeze ELSE 0)
      BY <1>1, <1>2, <1>5, <3>1, <3>2, <3>3, HeldUpdate
    <3>5. orders[iter].freeze - m.freeze = mv
      BY <1>1, <1>2
    <3>6. Owner(m, u, a) <=> Owner(maker, u, a)
      BY <1>6
    <3> QED
      BY <2>1, <3>4, <3>5, <3>6
  <2> QED
    BY <1>8, <2>1, <2>2, <2>3 DEF m
<1> QED
  BY <1>7, <1>8

\* The taker after a deal
LEMMA DealtTakerFacts ==
    ASSUME Inv, NEW amount, NEW used, DealOK(amount, used), Deal(amount, used)
    PROVE  /\ taker' \in Order /\ taker'.id = taker.id /\ taker'.type = taker.type
           /\ taker'.side = taker.side /\ taker'.user_id = taker.user_id
           /\ taker'.price = taker.price /\ taker'.amount = taker.amount
           /\ taker'.left = taker.left - used
           /\ taker'.deal_stock = taker.deal_stock + amount
           /\ taker'.freeze = 0
           /\ taker'.deal_money = taker.deal_money + orders[iter].price * amount
           /\ ~Idle'
<1> DEFINE price == orders[iter].price
           t == Filled(taker, used, 0, price, amount, taker.taker_fee)
<1>1. /\ taker \in Order /\ orders[iter] \in Order /\ taker.freeze = 0
  BY MakerFacts DEF DealOK, Inv, TakerAtFront
<1>2. /\ used \in 0..taker.left /\ 0 \in 0..taker.freeze /\ price \in Nat
      /\ amount \in Nat /\ taker.taker_fee \in 0..(FeeOne - 1)
  BY <1>1 DEF DealOK, Order
<1> HIDE DEF price
<1>3. /\ t \in Order
      /\ t.id = taker.id /\ t.type = taker.type /\ t.side = taker.side
      /\ t.user_id = taker.user_id /\ t.price = taker.price /\ t.amount = taker.amount
      /\ t.taker_fee = taker.taker_fee /\ t.maker_fee = taker.maker_fee
      /\ t.left = taker.left - used /\ t.freeze = taker.freeze - 0
      /\ t.deal_stock = taker.deal_stock + amount
      /\ t.deal_money = taker.deal_money + price * amount
  <2>1. /\ taker \in Order /\ used \in 0..taker.left /\ 0 \in 0..taker.freeze
        /\ price \in Nat /\ amount \in Nat /\ taker.taker_fee \in 0..(FeeOne - 1)
    BY <1>1, <1>2
  <2>2. IsFilled(t, taker, used, 0, price, amount)
    BY ONLY <2>1, FilledFields
  <2> QED
    BY ONLY <2>2 DEF IsFilled
<1>4. taker' = t
  BY DEF Deal, price
<1> HIDE DEF t
<1>5. t # NoOrder
  BY <1>3 DEF Order, NoOrder, OrderIds
<1> QED
  BY <1>1, <1>3, <1>4, <1>5 DEF Idle, NoOrder, price

\* The balance history stays a function to the integers.
LEMMA TradeHistoryType ==
    ASSUME NEW h \in [Users \X Assets -> Int], NEW u \in Users, NEW side \in Sides,
           NEW price \in Nat, NEW amount \in Nat, NEW rate \in 0..(FeeOne - 1)
    PROVE  TradeHistory(h, u, side, price, amount, rate) \in [Users \X Assets -> Int]
<1> DEFINE v == Value(Gives(side), price, amount) * FeeOne
           w == Value(Gets(side), price, amount) * (FeeOne - rate)
<1>1. Value(Gives(side), price, amount) \in Nat /\ Value(Gets(side), price, amount) \in Nat
  BY SideAssets, ValueType
<1>2. v \in Int /\ w \in Int
  BY <1>1, FeesAssumption
<1>3. TradeHistory(h, u, side, price, amount, rate)
         = [h EXCEPT ![<<u, Gives(side)>>] = @ - v, ![<<u, Gets(side)>>] = @ + w]
  BY DEF TradeHistory
<1> HIDE DEF v, w
<1> QED
  BY <1>2, <1>3, SideAssets

\* One iteration of any of the four loops keeps Inv.
LEMMA DealStep ==
    ASSUME Inv, NEW amount, NEW used, DealOK(amount, used), Deal(amount, used)
    PROVE  Inv'
<1> DEFINE maker == orders[iter]
           m == DealtMaker(amount)
           give == Gives(maker.side)
           mv == Value(give, maker.price, amount)
           opp == Opposite(taker.side)
<1>1. /\ taker \in Order /\ iter \in OpenOrders /\ iter \in opp
      /\ maker \in Order /\ maker.id = iter /\ maker.type = "LIMIT" /\ maker.price > 0
      /\ maker.side # taker.side /\ iter # taker.id
  BY MakerFacts DEF DealOK
<1>2. /\ m \in Order /\ mv \in Nat
      /\ m.id = iter /\ m.type = "LIMIT" /\ m.side = maker.side
      /\ m.user_id = maker.user_id /\ m.price = maker.price
      /\ m.left = maker.left - amount
      /\ m.freeze = Value(Gives(m.side), m.price, m.left)
      /\ m.left + m.deal_stock = m.amount
  BY DealtMakerFacts
<1>3. /\ taker' \in Order /\ taker'.id = taker.id /\ taker'.type = taker.type
      /\ taker'.side = taker.side /\ taker'.user_id = taker.user_id
      /\ taker'.price = taker.price /\ taker'.amount = taker.amount
      /\ taker'.left = taker.left - used
      /\ taker'.deal_stock = taker.deal_stock + amount
      /\ taker'.freeze = 0
      /\ ~Idle'
  BY DealtTakerFacts
<1>4. balance' = DealtBalance(amount)
  BY DealDict
<1>5. \/ /\ m.left = 0
         /\ DOMAIN orders' = OpenOrders \ {iter}
         /\ \A j \in OpenOrders \ {iter} : orders'[j] = orders[j]
         /\ users' = [users EXCEPT ![maker.user_id] = @ \ {iter}]
         /\ asks' = asks \ {iter} /\ bids' = bids \ {iter}
         /\ order_event' = [order_event EXCEPT ![iter] = "FINISH"]
         /\ order_history' = IF m.deal_stock > 0
                             THEN [order_history EXCEPT ![iter] = @ + 1]
                             ELSE order_history
      \/ /\ m.left # 0
         /\ DOMAIN orders' = OpenOrders
         /\ orders'[iter] = m
         /\ \A j \in OpenOrders \ {iter} : orders'[j] = orders[j]
         /\ order_event' = [order_event EXCEPT ![iter] = "UPDATE"]
         /\ UNCHANGED <<users, asks, bids, order_history>>
  BY DealDict
<1>6. \A u \in Users, a \in Assets :
         /\ IsFiniteSet(Held(orders', u, a))
         /\ Cardinality(Held(orders', u, a)) = Cardinality(Held(orders, u, a))
               - (IF Owner(maker, u, a) THEN mv ELSE 0)
  BY DealDict
<1>7. /\ balance' \in [BalanceKeys -> Nat]
      /\ balance'[<<taker.user_id, "AVAILABLE", Gives(taker.side)>>] >= Owed(taker') * FeeOne
      /\ \A u \in Users, a \in Assets :
            balance'[<<u, "FREEZE", a>>] = balance[<<u, "FREEZE", a>>]
               - (IF Owner(maker, u, a) THEN mv * FeeOne ELSE 0)
  <2>1. LET b == DealtBalance(amount)
        IN  /\ b \in [BalanceKeys -> Nat]
            /\ b[<<taker.user_id, "AVAILABLE", Gives(taker.side)>>] >= Owed(taker') * FeeOne
            /\ \A u \in Users, a \in Assets :
                  b[<<u, "FREEZE", a>>] = balance[<<u, "FREEZE", a>>]
                     - (IF Owner(maker, u, a) THEN mv * FeeOne ELSE 0)
    BY <1>3, DealBalances
  <2> QED
    BY <1>4, <2>1
<1>8. /\ iter' \in Front(After(opp, iter))
      /\ deals_id_start' = deals_id_start + 1
      /\ balance_history' =
            TradeHistory(TradeHistory(balance_history, taker.user_id,
                             taker.side, maker.price, amount, taker.taker_fee),
                         maker.user_id, maker.side, maker.price, amount,
                         maker.maker_fee)
      /\ deal_history' = deal_history \cup {taker.id, maker.id}
      /\ UNCHANGED <<order_id_start, updates>>
  BY DEF Deal
<1> HIDE DEF m
<1>9. TypeOK'
  <2>1. balance_history' \in [Users \X Assets -> Int]
    <3>1. /\ balance_history \in [Users \X Assets -> Int]
          /\ taker.user_id \in Users /\ taker.side \in Sides /\ taker.taker_fee \in 0..(FeeOne - 1)
          /\ maker.user_id \in Users /\ maker.side \in Sides /\ maker.maker_fee \in 0..(FeeOne - 1)
          /\ maker.price \in Nat /\ amount \in Nat
      BY <1>1 DEF Inv, TypeOK, Order, DealOK
    <3> HIDE DEF maker
    <3>2. TradeHistory(balance_history, taker.user_id, taker.side, maker.price, amount,
                       taker.taker_fee) \in [Users \X Assets -> Int]
      BY <3>1, TradeHistoryType
    <3> QED
      BY <1>8, <3>1, <3>2, TradeHistoryType
  <2>2. /\ iter \in OrderIds /\ taker.id \in OrderIds
        /\ order_id_start \in 0..MaxOrders
    BY <1>1 DEF Inv, TypeOK, TakerAtFront, DealOK, OrderIds, Opposite, Order
  <2>3. ASSUME NEW i \in DOMAIN orders'
        PROVE  orders'[i] \in Order /\ orders'[i].price > 0 /\ i \in 1..order_id_start'
    <3>1. i \in OpenOrders
      BY <1>1, <1>5
    <3>2. i \in 1..order_id_start'
      BY <1>8, <3>1 DEF Inv, TypeOK, OpenOrders
    <3>3. orders[i] \in Order /\ orders[i].price > 0
      BY <3>1 DEF Inv, TypeOK, OpenOrders
    <3> QED
      BY <1>1, <1>2, <1>5, <3>1, <3>2, <3>3
  <2>4. asks' \subseteq OrderIds /\ bids' \subseteq OrderIds
    BY <1>5 DEF Inv, TypeOK
  <2>5. users' \in [Users -> SUBSET OrderIds]
    BY <1>5 DEF Inv, TypeOK
  <2>6. iter' \in Nat
    <3>1. iter' \in After(opp, iter) \cup {0}
      BY <1>8, FrontMember
    <3>2. After(opp, iter) \subseteq OrderIds
      BY DEF After, Opposite, Inv, TypeOK
    <3> QED
      BY <3>1, <3>2, BoundsAssumption DEF OrderIds
  <2>7. order_history' \in [OrderIds -> Nat]
    BY <1>5, <2>2 DEF Inv, TypeOK
  <2>8. order_event' \in [OrderIds -> {"NONE", "PUT", "UPDATE", "FINISH"}]
    BY <1>5, <2>2 DEF Inv, TypeOK
  <2>9. deal_history' \subseteq OrderIds
    BY <1>1, <1>8, <2>2 DEF Inv, TypeOK
  <2>10. taker' \in Order /\ (taker'.type = "LIMIT" => taker'.price > 0)
    BY <1>3 DEF Inv, TypeOK, DealOK
  <2>11. /\ order_id_start' \in 0..MaxOrders /\ deals_id_start' \in Nat
         /\ updates' \in 0..MaxUpdates
    BY <1>8 DEF Inv, TypeOK
  <2> QED
    BY <1>7, <2>1, <2>3, <2>4, <2>5, <2>6, <2>7, <2>8, <2>9, <2>10, <2>11 DEF TypeOK
<1>10. IndexConsistent'
  <2>1. asks = {i \in OpenOrders : orders[i].side = "ASK"}
        /\ bids = {i \in OpenOrders : orders[i].side = "BID"}
        /\ (\A u \in Users : users[u] = {i \in OpenOrders : orders[i].user_id = u})
        /\ (\A i \in OpenOrders : orders[i].id = i /\ orders[i].type = "LIMIT")
        /\ users \in [Users -> SUBSET OrderIds] /\ maker.user_id \in Users
    BY <1>1 DEF Inv, IndexConsistent, TypeOK, Order
  <2>2. CASE m.left = 0
    BY <1>5, <2>1, <2>2 DEF IndexConsistent, OpenOrders
  <2>3. CASE m.left # 0
    BY <1>1, <1>2, <1>5, <2>1, <2>3 DEF IndexConsistent, OpenOrders
  <2> QED
    BY <2>2, <2>3
<1>11. OrderAccounts'
  <2>1. ASSUME NEW i \in DOMAIN orders'
        PROVE  /\ orders'[i].left > 0
               /\ orders'[i].left + orders'[i].deal_stock = orders'[i].amount
               /\ orders'[i].freeze = Value(Gives(orders'[i].side), orders'[i].price, orders'[i].left)
    <3>1. CASE i = iter
      <4>1. m.left # 0 /\ orders'[i] = m
        BY <1>5, <3>1
      <4>2. m.left \in Nat
        BY <1>2 DEF Order
      <4> QED
        BY <1>2, <4>1, <4>2
    <3>2. CASE i # iter
      <4>1. i \in OpenOrders /\ orders'[i] = orders[i]
        BY <1>5, <3>2
      <4> QED
        BY <4>1 DEF Inv, OrderAccounts
    <3> QED
      BY <3>1, <3>2
  <2> QED
    BY <2>1 DEF OrderAccounts, OpenOrders
<1>12. Uncrossed'
  <2>1. ASSUME NEW i \in DOMAIN orders' PROVE i \in OpenOrders /\ orders'[i].price = orders[i].price
    BY <1>1, <1>2, <1>5
  <2>2. asks' \subseteq asks /\ bids' \subseteq bids
    BY <1>5
  <2>3. asks' \subseteq DOMAIN orders' /\ bids' \subseteq DOMAIN orders'
    BY <1>10 DEF IndexConsistent, OpenOrders
  <2> QED
    BY <2>1, <2>2, <2>3 DEF Inv, Uncrossed
<1>13. IterValid'
  <2>1. iter' \in After(opp, iter) \cup {0}
    BY <1>8, FrontMember
  <2>2. maker.id \in Nat /\ maker.price \in Nat /\ maker.side \in Sides
    BY <1>1, BoundsAssumption DEF Order, OrderIds
  <2>3. ~MatchesBefore(maker, maker)
    BY <2>2 DEF MatchesBefore
  <2>4. After(opp, iter) \subseteq opp \ {iter}
    BY <2>3 DEF After
  <2>5. opp \ {iter} \subseteq Opposite(taker.side)'
    BY <1>3, <1>5 DEF Opposite
  <2>6. Opposite(taker.side)' = (Opposite(taker.side))'
    OBVIOUS
  <2> QED
    BY <1>3, <2>1, <2>4, <2>5 DEF IterValid
<1>14. TakerAtFront'
  <2>1. taker'.id = order_id_start' /\ taker'.id \notin DOMAIN orders'
    BY <1>1, <1>3, <1>5, <1>8 DEF Inv, TakerAtFront, DealOK
  <2>2. ASSUME taker'.type = "LIMIT"
        PROVE  /\ taker'.left + taker'.deal_stock = taker'.amount
               /\ taker'.left > 0 => iter' \in (Front(Opposite(taker.side)))'
    <3>1. /\ used = amount
          /\ amount = taker.left \/ amount = maker.left
          /\ taker.left + taker.deal_stock = taker.amount
          /\ taker.left > 0 => iter \in Front(opp)
      BY <1>3, <2>2 DEF DealOK, Inv, TakerAtFront
    <3>2. /\ taker.left \in Nat /\ amount \in Nat /\ taker.deal_stock \in Nat
          /\ taker.amount \in Nat /\ maker.left \in Nat
      BY <1>1 DEF DealOK, Order
    <3>3. taker'.left + taker'.deal_stock = taker'.amount
      BY <1>3, <3>1, <3>2
    <3>4. ASSUME taker'.left > 0
          PROVE  iter' \in (Front(Opposite(taker.side)))'
      <4>1. m.left = 0 /\ iter \in Front(opp)
        BY <1>2, <1>3, <3>1, <3>2, <3>4
      <4>2. opp \subseteq OpenOrders /\ iter # 0
        BY <1>1, <1>2 DEF Inv, IndexConsistent, Opposite, DealOK
      <4>3. /\ Opposite(taker.side)' = opp \ {iter}
            /\ \A j \in opp \ {iter} : orders'[j] = orders[j]
        BY <1>2, <1>3, <1>5, <4>1, <4>2 DEF Opposite
      <4>4. \A j \in opp \ {iter} : MatchesBefore(orders[iter], orders[j])
        BY <1>1, <4>1, <4>2 DEF Front
      <4>5. After(opp, iter) \subseteq opp \ {iter}
        <5>1. maker.id \in Nat /\ maker.price \in Nat
          BY <1>1, BoundsAssumption DEF Order, OrderIds
        <5>2. ~MatchesBefore(maker, maker)
          BY <5>1 DEF MatchesBefore
        <5> QED
          BY <5>2 DEF After
      <4>6. After(opp, iter) = opp \ {iter}
        BY <4>4, <4>5 DEF After
      <4>7. iter' \in Front(opp \ {iter})
        BY <1>8, <4>6
      <4> HIDE DEF opp
      <4> QED
        BY <4>3, <4>7 DEF Front
    <3> QED
      BY <3>3, <3>4
  <2> QED
    BY <1>3, <2>1, <2>2 DEF TakerAtFront, OpenOrders
<1>15. TakerFunded'
  BY <1>3, <1>7 DEF TakerFunded
<1>16. FreezeBacked' /\ HeldFinite'
  <2>1. ASSUME NEW u \in Users, NEW a \in Assets
        PROVE  /\ balance'[<<u, "FREEZE", a>>] = Cardinality(Held(orders', u, a)) * FeeOne
               /\ IsFiniteSet(Held(orders', u, a))
    <3> DEFINE card == Cardinality(Held(orders, u, a))
               card2 == Cardinality(Held(orders', u, a))
    <3>1. balance[<<u, "FREEZE", a>>] = card * FeeOne
      BY HeldUnitsIsHeld DEF Inv, FreezeBacked
    <3>2. IsFiniteSet(Held(orders, u, a)) /\ card \in Nat
      BY HeldUnitsIsHeld, FS_CardinalityType DEF Inv, HeldFinite
    <3>3. card2 = card - (IF Owner(maker, u, a) THEN mv ELSE 0)
      BY <1>6
    <3>4. balance'[<<u, "FREEZE", a>>] = balance[<<u, "FREEZE", a>>]
             - (IF Owner(maker, u, a) THEN mv * FeeOne ELSE 0)
      BY <1>7
    <3> HIDE DEF card, card2, mv
    <3>5. CASE Owner(maker, u, a)
      <4>1. (card - mv) * FeeOne = card * FeeOne - mv * FeeOne
        BY <1>2, <3>2, FeesAssumption
      <4>2. balance'[<<u, "FREEZE", a>>] = card2 * FeeOne
        BY <3>1, <3>3, <3>4, <3>5, <4>1
      <4> QED
        BY <1>6, <4>2 DEF card2
    <3>6. CASE ~Owner(maker, u, a)
      <4>1. card2 = card /\ balance'[<<u, "FREEZE", a>>] = card * FeeOne
        BY <3>1, <3>2, <3>3, <3>4, <3>6, FeesAssumption
      <4> QED
        BY <1>6, <4>1 DEF card2
    <3> QED
      BY <3>5, <3>6
  <2> QED
    BY <2>1 DEF FreezeBacked, HeldFinite, HeldUnits, Held, OpenOrders
<1> QED
  BY <1>9, <1>10, <1>11, <1>12, <1>13, <1>14, <1>15, <1>16 DEF Inv

-----------------------------------------------------------------------------
(* Freezing and unfreezing *)

\* balance_freeze of a covered amount moves exactly that amount.
LEMMA FreezeEffect ==
    ASSUME NEW b \in [BalanceKeys -> Nat], NEW u \in Users, NEW a \in Assets,
           NEW n \in Nat, NEW c \in Nat,
           b[<<u, "AVAILABLE", a>>] >= n * FeeOne,
           b[<<u, "FREEZE", a>>] = c * FeeOne
    PROVE  LET r == BalanceFreeze(b, u, a, n * FeeOne)
           IN  /\ r \in [BalanceKeys -> Nat]
               /\ r[<<u, "FREEZE", a>>] = (c + n) * FeeOne
               /\ \A v \in Users, d \in Assets :
                     ~(v = u /\ d = a) => r[<<v, "FREEZE", d>>] = b[<<v, "FREEZE", d>>]
<1> DEFINE fkey == <<u, "FREEZE", a>>
           akey == <<u, "AVAILABLE", a>>
           x == n * FeeOne
           b1 == BalanceAdd(b, u, "FREEZE", a, x)
           r == BalanceSub(b1, u, "AVAILABLE", a, x)
<1>1. /\ fkey \in BalanceKeys /\ akey \in BalanceKeys
      /\ \A v \in Users, d \in Assets : <<v, "FREEZE", d>> \in BalanceKeys
      /\ "FREEZE" \in BalanceTypes /\ "AVAILABLE" \in BalanceTypes
  BY DEF BalanceKeys, BalanceTypes
<1>2. x \in Nat
  BY FeesAssumption, ProductNat
<1>3. Rescale(a, b[fkey] + x) = (c + n) * FeeOne
  <2>1. b[fkey] + x = (c + n) * FeeOne /\ c + n \in Nat
    BY FeesAssumption
  <2> QED
    BY <2>1, RescaleExact
<1> HIDE DEF x
<1>4. b1 = [b EXCEPT ![fkey] = (c + n) * FeeOne] /\ b1 \in [BalanceKeys -> Nat]
  BY <1>1, <1>2, <1>3, BalanceAddType DEF BalanceAdd
<1>5. r \in [BalanceKeys -> Nat]
  BY <1>1, <1>2, <1>4, BalanceSubType
<1> HIDE DEF b1
<1>6. \A k \in BalanceKeys : k # akey => r[k] = b1[k]
  BY <1>1, <1>4 DEF BalanceSub
<1>7. BalanceFreeze(b, u, a, x) = r
  BY DEF BalanceFreeze, CanFreeze, x, b1
<1> HIDE DEF r
<1>8. r[fkey] = (c + n) * FeeOne
  BY <1>1, <1>4, <1>6
<1>9. ASSUME NEW v \in Users, NEW d \in Assets, ~(v = u /\ d = a)
      PROVE  r[<<v, "FREEZE", d>>] = b[<<v, "FREEZE", d>>]
  BY <1>1, <1>4, <1>6, <1>9
<1> QED
  BY <1>5, <1>7, <1>8, <1>9 DEF x

\* balance_unfreeze of a held amount succeeds and moves exactly it.
LEMMA UnfreezeEffect ==
    ASSUME NEW b \in [BalanceKeys -> Nat], NEW u \in Users, NEW a \in Assets,
           NEW n \in Nat, NEW c \in Nat, n <= c,
           b[<<u, "FREEZE", a>>] = c * FeeOne
    PROVE  LET r == BalanceUnfreeze(b, u, a, n * FeeOne)
           IN  /\ CanUnfreeze(b, u, a, n * FeeOne)
               /\ r \in [BalanceKeys -> Nat]
               /\ r[<<u, "FREEZE", a>>] = (c - n) * FeeOne
               /\ \A v \in Users, d \in Assets :
                     ~(v = u /\ d = a) => r[<<v, "FREEZE", d>>] = b[<<v, "FREEZE", d>>]
<1> DEFINE fkey == <<u, "FREEZE", a>>
           akey == <<u, "AVAILABLE", a>>
           x == n * FeeOne
           b1 == BalanceAdd(b, u, "AVAILABLE", a, x)
           r == BalanceSub(b1, u, "FREEZE", a, x)
<1>1. /\ fkey \in BalanceKeys /\ akey \in BalanceKeys
      /\ \A v \in Users, d \in Assets : <<v, "FREEZE", d>> \in BalanceKeys
      /\ "FREEZE" \in BalanceTypes /\ "AVAILABLE" \in BalanceTypes
  BY DEF BalanceKeys, BalanceTypes
<1>2. /\ x \in Nat /\ x <= b[fkey] /\ b[fkey] - x = (c - n) * FeeOne
      /\ c - n \in Nat /\ b[fkey] \in Nat
  <2>1. n * FeeOne <= c * FeeOne /\ n * FeeOne \in Nat /\ c * FeeOne \in Nat
    BY FeesAssumption
  <2>2. (c - n) * FeeOne = c * FeeOne - n * FeeOne
    BY FeesAssumption
  <2> QED
    BY <2>1, <2>2
<1>3. CanUnfreeze(b, u, a, x)
  BY <1>2 DEF CanUnfreeze
<1>4. Rescale(a, b[fkey] - x) = (c - n) * FeeOne
  BY <1>2, RescaleExact
<1> HIDE DEF x
<1>5. /\ b1 \in [BalanceKeys -> Nat]
      /\ \A k \in BalanceKeys : k # akey => b1[k] = b[k]
  BY <1>1, <1>2, BalanceAddType DEF BalanceAdd
<1>6. r \in [BalanceKeys -> Nat]
  BY <1>1, <1>2, <1>5, BalanceSubType
<1>7. BalanceUnfreeze(b, u, a, x) = r
  BY <1>3 DEF BalanceUnfreeze
<1> HIDE DEF b1
<1>8. r = [b1 EXCEPT ![fkey] = (c - n) * FeeOne]
  <2>1. b1[fkey] = b[fkey] /\ ~(b1[fkey] < x)
    BY <1>1, <1>2, <1>5
  <2> QED
    BY <1>4, <2>1 DEF BalanceSub
<1> HIDE DEF r
<1>9. r[fkey] = (c - n) * FeeOne
  BY <1>1, <1>5, <1>8
<1>10. ASSUME NEW v \in Users, NEW d \in Assets, ~(v = u /\ d = a)
       PROVE  r[<<v, "FREEZE", d>>] = b[<<v, "FREEZE", d>>]
  BY <1>1, <1>5, <1>8, <1>10
<1> QED
  BY <1>3, <1>6, <1>7, <1>9, <1>10 DEF x

-----------------------------------------------------------------------------
(* The initial state and the steps of the loop *)

\* The engine starts in a state of Inv.
LEMMA InitInv == Init => Inv
<1> SUFFICES ASSUME Init PROVE Inv
  OBVIOUS
<1>1. Idle /\ OpenOrders = {} /\ DOMAIN orders = {}
  BY DEF Init, Idle, OpenOrders
<1>2. TypeOK
  <2>1. balance_history \in [Users \X Assets -> Int]
    <3>1. \A k \in Users \X Assets : <<k[1], "AVAILABLE", k[2]>> \in BalanceKeys
      BY DEF BalanceKeys, BalanceTypes
    <3> QED
      BY <3>1, InitBalanceAssumption DEF Init
  <2>2. order_history \in [OrderIds -> Nat]
        /\ order_event \in [OrderIds -> {"NONE", "PUT", "UPDATE", "FINISH"}]
        /\ users \in [Users -> SUBSET OrderIds]
    BY DEF Init
  <2> QED
    BY <1>1, <2>1, <2>2, InitBalanceAssumption, BoundsAssumption DEF Init, TypeOK
<1>3. \A u, a : HeldUnits(u, a) = {}
  BY <1>1 DEF HeldUnits
<1>4. HeldFinite
  BY <1>3, FS_EmptySet DEF HeldFinite
<1>5. FreezeBacked
  <2>1. Cardinality({}) = 0
    BY FS_EmptySet
  <2>2. \A u \in Users, a \in Assets : balance[<<u, "FREEZE", a>>] = 0
    BY InitBalanceAssumption DEF Init
  <2>3. ASSUME NEW u \in Users, NEW a \in Assets
        PROVE  balance[<<u, "FREEZE", a>>] = Cardinality(HeldUnits(u, a)) * FeeOne
    <3>1. Cardinality(HeldUnits(u, a)) = 0
      BY <1>3, <2>1
    <3> QED
      BY <2>2, <3>1, FeesAssumption
  <2> QED
    BY <2>3 DEF FreezeBacked
<1>6. IndexConsistent /\ OrderAccounts /\ Uncrossed
  BY <1>1 DEF Init, IndexConsistent, OrderAccounts, Uncrossed
<1>7. IterValid /\ TakerAtFront /\ TakerFunded
  BY <1>1 DEF Init, IterValid, TakerAtFront, TakerFunded
<1> QED
  BY <1>2, <1>4, <1>5, <1>6, <1>7 DEF Inv

\* An iteration of execute_limit_ask_order or execute_limit_bid_order.
LEMMA ExecuteLimitStep ==
    ASSUME Inv, ExecuteLimitAskOrder \/ ExecuteLimitBidOrder
    PROVE  Inv'
<1> DEFINE amount == Smaller(taker.left, orders[iter].left)
<1>1. /\ ~Idle /\ iter # 0 /\ taker.type = "LIMIT" /\ Crosses(taker, orders[iter])
      /\ Deal(amount, amount)
  BY DEF ExecuteLimitAskOrder, ExecuteLimitBidOrder, LimitMatches
<1>2. taker.left \in Nat /\ orders[iter].left \in Nat
  BY <1>1, MakerFacts DEF Order
<1>3. /\ amount \in 0..orders[iter].left /\ amount \in 0..taker.left
      /\ amount = taker.left \/ amount = orders[iter].left
  BY <1>2 DEF Smaller
<1>4. DealOK(amount, amount)
  BY <1>1, <1>3 DEF DealOK
<1> QED
  BY <1>1, <1>4, DealStep

\* An iteration of execute_market_ask_order.
LEMMA ExecuteMarketAskStep ==
    ASSUME Inv, ExecuteMarketAskOrder
    PROVE  Inv'
<1> DEFINE amount == Smaller(taker.left, orders[iter].left)
<1>1. /\ ~Idle /\ iter # 0 /\ taker.type = "MARKET" /\ taker.side = "ASK"
      /\ Deal(amount, amount)
  BY DEF ExecuteMarketAskOrder, MarketAskMatches
<1>2. taker.left \in Nat /\ orders[iter].left \in Nat
  BY <1>1, MakerFacts DEF Order
<1>3. amount \in 0..orders[iter].left /\ amount \in 0..taker.left
  BY <1>2 DEF Smaller
<1>4. DealOK(amount, amount)
  BY <1>1, <1>3 DEF DealOK, Gives, Value
<1> QED
  BY <1>1, <1>4, DealStep

\* An iteration of execute_market_bid_order.
LEMMA ExecuteMarketBidStep ==
    ASSUME Inv, ExecuteMarketBidOrder
    PROVE  Inv'
<1> DEFINE price == orders[iter].price
           amount == Smaller(Affordable, orders[iter].left)
<1>1. /\ ~Idle /\ iter # 0 /\ taker.type = "MARKET" /\ taker.side = "BID"
      /\ Deal(amount, price * amount)
  BY DEF ExecuteMarketBidOrder, MarketBidMatches
<1>2. taker.left \in Nat /\ orders[iter].left \in Nat /\ price \in Nat \ {0}
  BY <1>1, MakerFacts DEF Order
<1>3. Affordable \in Nat /\ Affordable * price <= taker.left
  BY <1>2, DivFacts DEF Affordable
<1>4. amount \in 0..orders[iter].left /\ amount <= Affordable /\ amount \in Nat
  BY <1>2, <1>3 DEF Smaller
<1> HIDE DEF amount, price
<1>5. price * amount \in 0..taker.left
  <2>1. price * amount <= price * Affordable /\ price * amount \in Nat
    BY <1>2, <1>3, <1>4
  <2>2. price * Affordable = Affordable * price /\ price * Affordable \in Nat
    BY <1>2, <1>3
  <2> QED
    BY <1>2, <1>3, <2>1, <2>2
<1>6. DealOK(amount, price * amount)
  BY <1>1, <1>4, <1>5 DEF DealOK, Gives, Value, price
<1> QED
  BY <1>1, <1>6, DealStep

-----------------------------------------------------------------------------
(* The steps of the handlers *)

\* Steps that leave the books and the frozen balances alone
LEMMA BookUnchanged ==
    ASSUME Inv, UNCHANGED book, balance' \in [BalanceKeys -> Nat],
           \A u \in Users, a \in Assets : balance'[<<u, "FREEZE", a>>] = balance[<<u, "FREEZE", a>>]
    PROVE  IndexConsistent' /\ OrderAccounts' /\ Uncrossed' /\ FreezeBacked' /\ HeldFinite'
<1>1. UNCHANGED <<orders, users, asks, bids>>
  BY DEF book
<1>2. IndexConsistent' /\ OrderAccounts' /\ Uncrossed'
  BY <1>1 DEF Inv, IndexConsistent, OrderAccounts, Uncrossed, OpenOrders
<1>3. \A u, a : HeldUnits(u, a)' = HeldUnits(u, a)
  BY <1>1 DEF HeldUnits, OpenOrders
<1>4. FreezeBacked' /\ HeldFinite'
  BY <1>3 DEF Inv, FreezeBacked, HeldFinite
<1> QED
  BY <1>2, <1>4

\* Between two handlers nothing is asked of the taker.
LEMMA IdleConjuncts ==
    ASSUME Idle', iter' = 0
    PROVE  IterValid' /\ TakerAtFront' /\ TakerFunded'
BY DEF IterValid, TakerAtFront, TakerFunded

\* A checked order starts its loop at the front of the opposite book.
LEMMA StartStep ==
    ASSUME Inv, Idle, order_id_start < MaxOrders, NEW order \in Order,
           StartExecution(order), order.id = order_id_start + 1, order.freeze = 0,
           order.left = order.amount, order.deal_stock = 0,
           order.type = "LIMIT" => order.price > 0,
           balance[<<order.user_id, "AVAILABLE", Gives(order.side)>>] >= Owed(order) * FeeOne
    PROVE  Inv'
<1>1. /\ order_id_start' = order_id_start + 1 /\ taker' = order
      /\ iter' \in Front(Opposite(order.side))
      /\ UNCHANGED <<balance, book, deals_id_start, records, updates>>
  BY DEF StartExecution
<1>2. /\ UNCHANGED <<orders, users, asks, bids, balance_history, order_history,
                     deal_history, order_event, balance, deals_id_start, updates>>
  BY <1>1 DEF book, records
<1>3. ~Idle' /\ order.side \in Sides
  BY <1>1, BoundsAssumption DEF Idle, NoOrder, Order, OrderIds
<1>4. iter' \in Opposite(order.side) \cup {0}
  BY <1>1, FrontMember
<1>5. TypeOK'
  <2>3. Opposite(order.side) \subseteq OrderIds
    BY DEF Opposite, Inv, TypeOK
  <2>4. OrderIds \subseteq Nat
    BY BoundsAssumption DEF OrderIds
  <2>1. iter' \in Nat
    <3>1. CASE iter' = 0
      BY <3>1
    <3>2. CASE iter' \in Opposite(order.side)
      <4>1. iter' \in OrderIds
        BY <2>3, <3>2
      <4> QED
        BY <2>4, <4>1
    <3> QED
      BY <1>4, <3>1, <3>2
  <2>2. DOMAIN orders \subseteq 1..(order_id_start + 1) /\ order_id_start + 1 \in 0..MaxOrders
    BY BoundsAssumption DEF Inv, TypeOK
  <2> QED
    BY <1>1, <1>2, <2>1, <2>2 DEF Inv, TypeOK
<1>6. IndexConsistent' /\ OrderAccounts' /\ Uncrossed' /\ FreezeBacked' /\ HeldFinite'
  BY <1>1, BookUnchanged DEF Inv, TypeOK
<1>7. IterValid'
  BY <1>1, <1>2, <1>3, <1>4 DEF IterValid, Opposite
<1>8. TakerAtFront'
  <2>1. order.id \notin DOMAIN orders
    BY DEF Inv, TypeOK
  <2>2. order.left + order.deal_stock = order.amount
    BY DEF Order
  <2>3. Front(Opposite(order.side))' = Front(Opposite(order.side))
    BY <1>2 DEF Front, Opposite, MatchesBefore
  <2>4. iter' \in Front(Opposite(taker.side))'
    <3>1. Front(Opposite(taker.side))' = Front(Opposite(order.side))'
      BY <1>1
    <3> QED
      BY <1>1, <2>3, <3>1
  <2>5. /\ taker' = order /\ order.id = order_id_start' /\ order.id \notin OpenOrders'
        /\ order.freeze = 0
    BY <1>1, <1>2, <2>1 DEF OpenOrders
  <2> QED
    BY <2>2, <2>4, <2>5 DEF TakerAtFront
<1>9. TakerFunded'
  BY <1>1, <1>2 DEF TakerFunded, Owed
<1> QED
  BY <1>5, <1>6, <1>7, <1>8, <1>9 DEF Inv

\* market_put_limit_order up to its loop.
LEMMA PutLimitStep ==
    ASSUME Inv, NEW u \in Users, NEW side \in Sides, NEW amount \in Amounts,
           NEW price \in Prices, NEW fees \in Fees,
           PutLimitOrder(u, side, amount, price, fees)
    PROVE  Inv'
<1> DEFINE o == NewOrder("LIMIT", side, u, price, amount, fees)
<1>1. /\ Idle /\ order_id_start < MaxOrders
      /\ balance[<<u, "AVAILABLE", Gives(side)>>] >= Value(Gives(side), price, amount) * FeeOne
      /\ StartExecution(o)
  BY DEF PutLimitOrder
<1>2. o \in Order
  BY <1>1, PricesAssumption, AmountsAssumption, FeesAssumption, BoundsAssumption
  DEF NewOrder, Order, OrderIds, Inv, TypeOK
<1>3. /\ o.id = order_id_start + 1 /\ o.freeze = 0 /\ o.left = o.amount /\ o.deal_stock = 0
      /\ o.price > 0 /\ o.user_id = u /\ o.side = side
      /\ Owed(o) = Value(Gives(side), price, amount)
  BY PricesAssumption DEF NewOrder, Owed
<1> HIDE DEF o
<1> QED
  BY <1>1, <1>2, <1>3, StartStep

\* market_put_market_order up to its loop.
LEMMA PutMarketStep ==
    ASSUME Inv, NEW u \in Users, NEW side \in Sides, NEW amount \in Amounts,
           NEW fees \in Fees, PutMarketOrder(u, side, amount, fees)
    PROVE  Inv'
<1> DEFINE given == IF side = "ASK" THEN amount ELSE amount * PriceOne
           o == NewOrder("MARKET", side, u, 0, given, <<fees[1], 0>>)
<1>1. /\ Idle /\ order_id_start < MaxOrders
      /\ balance[<<u, "AVAILABLE", Gives(side)>>] >= given * FeeOne
      /\ StartExecution(o)
  BY DEF PutMarketOrder
<1>2. given \in Nat
  BY AmountsAssumption, PriceOneAssumption
<1> HIDE DEF given
<1>3. o \in Order
  <2>1. order_id_start + 1 \in OrderIds /\ order_id_start + 1 \in Nat
    BY <1>1, BoundsAssumption DEF OrderIds, Inv, TypeOK
  <2>2. fees[1] \in 0..(FeeOne - 1) /\ 0 \in 0..(FeeOne - 1)
    BY FeesAssumption
  <2> QED
    BY <1>2, <2>1, <2>2 DEF NewOrder, Order
<1>4. /\ o.id = order_id_start + 1 /\ o.freeze = 0 /\ o.left = o.amount /\ o.deal_stock = 0
      /\ o.type # "LIMIT" /\ o.user_id = u /\ o.side = side
      /\ Owed(o) = given
  BY DEF NewOrder, Owed
<1> HIDE DEF o
<1> QED
  BY <1>1, <1>3, <1>4, StartStep

\* The end of an order that does not rest.
LEMMA FinishTakerStep ==
    ASSUME Inv, FinishLimitOrder \/ FinishMarketOrder
    PROVE  Inv'
<1>1. /\ ~Idle /\ taker' = NoOrder /\ iter' = 0
      /\ order_history' = [order_history EXCEPT ![taker.id] = @ + 1]
      /\ order_event' = [order_event EXCEPT ![taker.id] = "FINISH"]
      /\ UNCHANGED <<balance, book, order_id_start, deals_id_start,
                     balance_history, deal_history, updates>>
  BY DEF FinishLimitOrder, FinishMarketOrder
<1>2. Idle'
  BY <1>1 DEF Idle
<1>3. UNCHANGED <<orders, users, asks, bids>>
  BY <1>1 DEF book
<1>4. TypeOK'
  <2>1. taker.id \in OrderIds
    BY <1>1 DEF Inv, TypeOK, Order
  <2> QED
    BY <1>1, <1>2, <1>3, <2>1 DEF Inv, TypeOK
<1>5. IndexConsistent' /\ OrderAccounts' /\ Uncrossed' /\ FreezeBacked' /\ HeldFinite'
  BY <1>1, BookUnchanged DEF Inv, TypeOK
<1> QED
  BY <1>1, <1>2, <1>4, <1>5, IdleConjuncts DEF Inv

\* update_user_balance.
LEMMA UpdateStep ==
    ASSUME Inv, NEW u \in Users, NEW a \in Assets, NEW change \in Int,
           UpdateUserBalance(u, a, change)
    PROVE  Inv'
<1>1. /\ Idle /\ updates < MaxUpdates /\ updates' = updates + 1
      /\ balance_history' = [balance_history EXCEPT ![<<u, a>>] = @ + change]
      /\ UNCHANGED <<book, order_id_start, deals_id_start, taker, iter,
                     order_history, deal_history, order_event>>
      /\ balance' = IF change >= 0
                    THEN BalanceAdd(balance, u, "AVAILABLE", a, change)
                    ELSE BalanceSub(balance, u, "AVAILABLE", a, -change)
  BY DEF UpdateUserBalance
<1>2. balance \in [BalanceKeys -> Nat] /\ "AVAILABLE" \in BalanceTypes
  BY DEF Inv, TypeOK, BalanceTypes
<1>3. balance' \in [BalanceKeys -> Nat]
  <2>1. CASE change >= 0
    BY <1>1, <1>2, <2>1, BalanceAddType
  <2>2. CASE ~(change >= 0)
    <3>1. -change \in Nat
      BY <2>2
    <3> QED
      BY <1>1, <1>2, <2>2, <3>1, BalanceSubType
  <2> QED
    BY <2>1, <2>2
<1>4. \A v \in Users, d \in Assets : balance'[<<v, "FREEZE", d>>] = balance[<<v, "FREEZE", d>>]
  <2>1. \A v \in Users, d \in Assets : <<v, "FREEZE", d>> \in BalanceKeys
    BY DEF BalanceKeys, BalanceTypes
  <2> QED
    BY <1>1, <1>2, <2>1 DEF BalanceAdd, BalanceSub
<1>5. Idle' /\ UNCHANGED <<orders, users, asks, bids>>
  BY <1>1 DEF Idle, book
<1>6. TypeOK'
  BY <1>1, <1>3, <1>5, BoundsAssumption DEF Inv, TypeOK
<1>7. IndexConsistent' /\ OrderAccounts' /\ Uncrossed' /\ FreezeBacked' /\ HeldFinite'
  BY <1>1, <1>3, <1>4, BookUnchanged
<1>8. iter' = 0
  BY <1>1 DEF Inv, IterValid
<1> QED
  BY <1>5, <1>6, <1>7, <1>8, IdleConjuncts DEF Inv

\* PlaceLimitOrder leaves no cross: the loop has met the best opposite price.
LEMMA FrontIsBest ==
    ASSUME Inv, ~Idle, taker.type = "LIMIT", taker.left > 0, ~LimitMatches,
           NEW j \in Opposite(taker.side)
    PROVE  IF taker.side = "ASK" THEN taker.price > orders[j].price
                                 ELSE orders[j].price > taker.price
<1>1. iter \in Front(Opposite(taker.side))
  BY DEF Inv, TakerAtFront
<1>2. /\ iter \in Opposite(taker.side)
      /\ \A k \in Opposite(taker.side) \ {iter} : MatchesBefore(orders[iter], orders[k])
  BY <1>1 DEF Front
<1>3. Opposite(taker.side) \subseteq OpenOrders
  BY DEF Inv, IndexConsistent, Opposite
<1>4. \A k \in OpenOrders : orders[k].price \in Nat
  BY DEF Inv, TypeOK, OpenOrders, Order
<1>5. taker.price \in Nat /\ taker.side \in Sides
  BY DEF Inv, TypeOK, Order
<1>6. ~Crosses(taker, orders[iter])
  <2>1. iter # 0
    <3>1. OrderIds \subseteq Nat \ {0}
      BY BoundsAssumption DEF OrderIds
    <3>2. Opposite(taker.side) \subseteq OrderIds
      BY DEF Inv, TypeOK, Opposite
    <3> QED
      BY <1>2, <3>1, <3>2
  <2> QED
    BY <2>1 DEF LimitMatches
<1>7. IF taker.side = "ASK" THEN taker.price > orders[iter].price
                            ELSE orders[iter].price > taker.price
  BY <1>2, <1>3, <1>4, <1>5, <1>6 DEF Crosses
<1>8. CASE j = iter
  BY <1>7, <1>8
<1>9. CASE j # iter
  <2>1. MatchesBefore(orders[iter], orders[j])
    BY <1>2, <1>9
  <2>2. orders[iter].side = IF taker.side = "ASK" THEN "BID" ELSE "ASK"
    BY <1>2, <1>5 DEF Inv, IndexConsistent, Opposite
  <2> QED
    BY <1>2, <1>3, <1>4, <1>5, <1>7, <2>1, <2>2 DEF MatchesBefore, Sides
<1> QED
  BY <1>8, <1>9

\* order_put of what a limit order has left: the freeze is covered and the
\* books do not cross.
LEMMA PlaceStep ==
    ASSUME Inv, PlaceLimitOrder
    PROVE  Inv'
<1> DEFINE give == Gives(taker.side)
           need == Value(give, taker.price, taker.left)
           o == [taker EXCEPT !.freeze = need]
<1>1. /\ ~Idle /\ taker.type = "LIMIT" /\ taker.left > 0 /\ ~LimitMatches
      /\ order_event' = [order_event EXCEPT ![taker.id] = "PUT"]
      /\ taker' = NoOrder /\ iter' = 0
      /\ UNCHANGED <<order_id_start, deals_id_start, balance_history,
                     order_history, deal_history, updates>>
  BY DEF PlaceLimitOrder
<1>2. /\ orders' = [j \in OpenOrders \cup {taker.id} |->
                        IF j = taker.id THEN o ELSE orders[j]]
      /\ users' = [users EXCEPT ![taker.user_id] = @ \cup {taker.id}]
      /\ asks' = IF taker.side = "ASK" THEN asks \cup {taker.id} ELSE asks
      /\ bids' = IF taker.side = "BID" THEN bids \cup {taker.id} ELSE bids
      /\ balance' = BalanceFreeze(balance, taker.user_id, give, need * FeeOne)
  BY DEF PlaceLimitOrder, OrderPut
<1>3. /\ taker \in Order /\ taker.price > 0 /\ taker.id \in OrderIds
      /\ taker.user_id \in Users /\ taker.side \in Sides
      /\ taker.price \in Nat /\ taker.left \in Nat
  BY <1>1 DEF Inv, TypeOK, Order
<1>4. /\ taker.id = order_id_start /\ taker.id \notin OpenOrders
      /\ taker.left + taker.deal_stock = taker.amount
  BY <1>1 DEF Inv, TakerAtFront
<1>5. give \in Assets /\ need \in Nat
  BY <1>3, SideAssets, ValueType
<1>6. /\ o \in Order /\ o.id = taker.id /\ o.type = "LIMIT" /\ o.side = taker.side
      /\ o.user_id = taker.user_id /\ o.price = taker.price /\ o.left = taker.left
      /\ o.deal_stock = taker.deal_stock /\ o.amount = taker.amount
      /\ o.freeze = need
  BY <1>1, <1>3, <1>5 DEF Order
<1>7. balance[<<taker.user_id, "AVAILABLE", give>>] >= need * FeeOne
  BY <1>1 DEF Inv, TakerFunded, Owed
<1> HIDE DEF o, need, give
<1>8. OpenOrders' = OpenOrders \cup {taker.id}
  BY <1>2 DEF OpenOrders
<1>9. orders'[taker.id] = o /\ \A j \in OpenOrders : j # taker.id /\ orders'[j] = orders[j]
  BY <1>2, <1>4
<1>10. Idle'
  BY <1>1 DEF Idle
<1>11. \A u \in Users, a \in Assets :
          /\ IsFiniteSet(Held(orders', u, a))
          /\ Cardinality(Held(orders', u, a)) = Cardinality(Held(orders, u, a))
                 + (IF Owner(o, u, a) THEN o.freeze ELSE 0)
  <2> SUFFICES ASSUME NEW u \in Users, NEW a \in Assets
               PROVE  /\ IsFiniteSet(Held(orders', u, a))
                      /\ Cardinality(Held(orders', u, a)) = Cardinality(Held(orders, u, a))
                             + (IF Owner(o, u, a) THEN o.freeze ELSE 0)
    OBVIOUS
  <2>1. IsFiniteSet(Held(orders, u, a))
    BY HeldUnitsIsHeld DEF Inv, HeldFinite
  <2>2. o \in Order /\ o.id \notin DOMAIN orders
    BY <1>4, <1>6 DEF OpenOrders
  <2>3. orders' = [j \in DOMAIN orders \cup {o.id} |-> IF j = o.id THEN o ELSE orders[j]]
    BY <1>2, <1>6 DEF OpenOrders
  <2> QED
    BY <2>1, <2>2, <2>3, HeldPut
<1>12. HeldFinite'
  BY <1>11, HeldUnitsIsHeldAfter DEF HeldFinite
<1>13. /\ balance' \in [BalanceKeys -> Nat]
       /\ FreezeBacked'
  <2> DEFINE c == Cardinality(HeldUnits(taker.user_id, give))
  <2>1. c \in Nat
    BY <1>3, <1>5, FS_CardinalityType DEF Inv, HeldFinite
  <2>2. balance[<<taker.user_id, "FREEZE", give>>] = c * FeeOne
    BY <1>3, <1>5 DEF Inv, FreezeBacked
  <2>3. balance \in [BalanceKeys -> Nat]
    BY DEF Inv, TypeOK
  <2> HIDE DEF c
  <2>4. /\ balance' \in [BalanceKeys -> Nat]
        /\ balance'[<<taker.user_id, "FREEZE", give>>] = (c + need) * FeeOne
        /\ \A v \in Users, d \in Assets :
              ~(v = taker.user_id /\ d = give)
                 => balance'[<<v, "FREEZE", d>>] = balance[<<v, "FREEZE", d>>]
    BY <1>2, <1>3, <1>5, <1>7, <2>1, <2>2, <2>3, FreezeEffect
  <2>5. ASSUME NEW v \in Users, NEW d \in Assets
        PROVE  balance'[<<v, "FREEZE", d>>] = Cardinality(HeldUnits(v, d)') * FeeOne
    <3>1. HeldUnits(v, d)' = Held(orders', v, d) /\ HeldUnits(v, d) = Held(orders, v, d)
      BY HeldUnitsIsHeld, HeldUnitsIsHeldAfter
    <3>2. Owner(o, v, d) <=> v = taker.user_id /\ d = give
      BY <1>6 DEF Owner, give
    <3>3. Cardinality(HeldUnits(v, d)) \in Nat
      BY FS_CardinalityType DEF Inv, HeldFinite
    <3>4. balance[<<v, "FREEZE", d>>] = Cardinality(HeldUnits(v, d)) * FeeOne
      BY DEF Inv, FreezeBacked
    <3>5. CASE v = taker.user_id /\ d = give
      <4>1. Cardinality(HeldUnits(v, d)') = c + need
        BY <1>6, <1>11, <3>1, <3>2, <3>5 DEF c
      <4> QED
        BY <2>4, <3>5, <4>1
    <3>6. CASE ~(v = taker.user_id /\ d = give)
      <4>1. Cardinality(HeldUnits(v, d)') = Cardinality(HeldUnits(v, d))
        BY <1>11, <3>1, <3>2, <3>3, <3>6
      <4> QED
        BY <2>4, <3>4, <3>6, <4>1
    <3> QED
      BY <3>5, <3>6
  <2> QED
    BY <2>4, <2>5 DEF FreezeBacked
<1>14. TypeOK'
  <2>1. DOMAIN orders' \subseteq 1..order_id_start'
    <3>1. DOMAIN orders' = DOMAIN orders \cup {order_id_start}
      BY <1>4, <1>8 DEF OpenOrders
    <3>2. order_id_start \in 1..order_id_start
      BY <1>3, <1>4, BoundsAssumption DEF OrderIds
    <3> QED
      BY <1>1, <3>1, <3>2 DEF Inv, TypeOK
  <2>2. \A i \in DOMAIN orders' : orders'[i] \in Order /\ orders'[i].price > 0
    BY <1>3, <1>6, <1>8, <1>9 DEF OpenOrders, Inv, TypeOK
  <2>3. users' \in [Users -> SUBSET OrderIds] /\ asks' \subseteq OrderIds /\ bids' \subseteq OrderIds
    BY <1>2, <1>3 DEF Inv, TypeOK
  <2>4. order_event' \in [OrderIds -> {"NONE", "PUT", "UPDATE", "FINISH"}]
    BY <1>1, <1>3 DEF Inv, TypeOK
  <2> QED
    BY <1>1, <1>10, <1>13, <2>1, <2>2, <2>3, <2>4 DEF Inv, TypeOK
<1>15. IndexConsistent'
  <2>1. asks' = {i \in OpenOrders' : orders'[i].side = "ASK"}
    BY <1>2, <1>3, <1>4, <1>6, <1>8, <1>9 DEF Inv, IndexConsistent, Sides
  <2>2. bids' = {i \in OpenOrders' : orders'[i].side = "BID"}
    BY <1>2, <1>3, <1>4, <1>6, <1>8, <1>9 DEF Inv, IndexConsistent, Sides
  <2>3. \A u \in Users : users'[u] = {i \in OpenOrders' : orders'[i].user_id = u}
    BY <1>2, <1>3, <1>4, <1>6, <1>8, <1>9 DEF Inv, IndexConsistent, TypeOK
  <2>4. \A i \in OpenOrders' : orders'[i].id = i /\ orders'[i].type = "LIMIT"
    BY <1>6, <1>8, <1>9 DEF Inv, IndexConsistent
  <2> QED
    BY <2>1, <2>2, <2>3, <2>4 DEF IndexConsistent
<1>16. OrderAccounts'
  BY <1>1, <1>4, <1>6, <1>8, <1>9 DEF Inv, OrderAccounts, need, give
<1>17. Uncrossed'
  <2>1. ASSUME NEW j \in Opposite(taker.side)
        PROVE  /\ j \in OpenOrders
               /\ IF taker.side = "ASK" THEN taker.price > orders[j].price
                                        ELSE orders[j].price > taker.price
    BY <1>1, FrontIsBest DEF Inv, IndexConsistent, Opposite
  <2>2. ASSUME NEW i \in asks', NEW j \in bids'
        PROVE  orders'[i].price > orders'[j].price
    <3>1. asks \subseteq OpenOrders /\ bids \subseteq OpenOrders
      BY DEF Inv, IndexConsistent
    <3>2. CASE taker.side = "ASK"
      <4>1. bids' = bids /\ asks' = asks \cup {taker.id} /\ Opposite(taker.side) = bids
        BY <1>2, <3>2 DEF Opposite
      <4>2. CASE i = taker.id
        BY <1>6, <1>9, <2>1, <3>1, <3>2, <4>1, <4>2
      <4>3. CASE i # taker.id
        BY <1>9, <3>1, <4>1, <4>3 DEF Inv, Uncrossed
      <4> QED
        BY <4>2, <4>3
    <3>3. CASE taker.side # "ASK"
      <4>1. asks' = asks /\ bids' = bids \cup {taker.id} /\ Opposite(taker.side) = asks
        BY <1>2, <1>3, <3>3 DEF Opposite, Sides
      <4>2. CASE j = taker.id
        BY <1>6, <1>9, <2>1, <3>1, <3>3, <4>1, <4>2
      <4>3. CASE j # taker.id
        BY <1>9, <3>1, <4>1, <4>3 DEF Inv, Uncrossed
      <4> QED
        BY <4>2, <4>3
    <3> QED
      BY <3>2, <3>3
  <2> QED
    BY <2>2 DEF Uncrossed
<1> QED
  BY <1>1, <1>10, <1>12, <1>13, <1>14, <1>15, <1>16, <1>17, IdleConjuncts DEF Inv

\* market_cancel_order: balance_unfreeze succeeds and order_finish completes.
LEMMA CancelStep ==
    ASSUME Inv, NEW i \in OpenOrders, CancelOrder(i)
    PROVE  Inv'
<1> DEFINE o == orders[i]
           give == Gives(o.side)
<1>1. /\ Idle
      /\ order_event' = [order_event EXCEPT ![i] = "FINISH"]
      /\ UNCHANGED <<order_id_start, deals_id_start, taker, iter,
                     balance_history, deal_history, updates>>
      /\ OrderFinish(o, balance)
  BY DEF CancelOrder
<1>2. /\ o \in Order /\ o.id = i /\ i \in OrderIds /\ o.user_id \in Users
      /\ o.side \in Sides /\ o.freeze \in Nat /\ o.left \in Nat /\ o.price \in Nat
  BY DEF Inv, TypeOK, IndexConsistent, OpenOrders, Order
<1>3. give \in Assets
  BY <1>2, SideAssets
<1>4. \A u \in Users, a \in Assets :
         /\ IsFiniteSet(Held(Drop(orders, i), u, a))
         /\ Cardinality(Held(Drop(orders, i), u, a)) = Cardinality(Held(orders, u, a))
                - (IF Owner(o, u, a) THEN o.freeze ELSE 0)
         /\ Owner(o, u, a) => o.freeze <= Cardinality(Held(orders, u, a))
  <2> SUFFICES ASSUME NEW u \in Users, NEW a \in Assets
               PROVE  /\ IsFiniteSet(Held(Drop(orders, i), u, a))
                      /\ Cardinality(Held(Drop(orders, i), u, a)) = Cardinality(Held(orders, u, a))
                             - (IF Owner(o, u, a) THEN o.freeze ELSE 0)
                      /\ Owner(o, u, a) => o.freeze <= Cardinality(Held(orders, u, a))
    OBVIOUS
  <2>1. IsFiniteSet(Held(orders, u, a)) /\ i \in DOMAIN orders /\ orders[i] \in Order
    BY <1>2, HeldUnitsIsHeld DEF Inv, HeldFinite, OpenOrders
  <2> QED
    BY <2>1, HeldDrop
<1>5. o.freeze > 0
  <2>1. o.left > 0 /\ o.freeze = Value(give, o.price, o.left) /\ o.price > 0
    BY DEF Inv, OrderAccounts, TypeOK, OpenOrders
  <2> QED
    BY <1>2, <2>1 DEF Value
<1> DEFINE c == Cardinality(HeldUnits(o.user_id, give))
<1>6. Owner(o, o.user_id, give) /\ \A u, a : Owner(o, u, a) <=> u = o.user_id /\ a = give
  BY DEF Owner
<1>7. c \in Nat /\ o.freeze <= c
  <2>1. c \in Nat
    BY <1>2, <1>3, FS_CardinalityType DEF Inv, HeldFinite
  <2>2. c = Cardinality(Held(orders, o.user_id, give))
    BY HeldUnitsIsHeld
  <2> QED
    BY <1>2, <1>3, <1>4, <1>6, <2>1, <2>2
<1>8. balance[<<o.user_id, "FREEZE", give>>] = c * FeeOne
  BY <1>2, <1>3 DEF Inv, FreezeBacked
<1>9. balance \in [BalanceKeys -> Nat]
  BY DEF Inv, TypeOK
<1>10. /\ asks' = IF o.side = "ASK" THEN asks \ {o.id} ELSE asks
       /\ bids' = IF o.side = "BID" THEN bids \ {o.id} ELSE bids
       /\ balance' = BalanceUnfreeze(balance, o.user_id, give, o.freeze * FeeOne)
       /\ CanUnfreeze(balance, o.user_id, give, o.freeze * FeeOne) =>
              /\ orders' = Drop(orders, o.id)
              /\ users' = [users EXCEPT ![o.user_id] = @ \ {o.id}]
              /\ order_history' = IF o.deal_stock > 0
                                  THEN [order_history EXCEPT ![o.id] = @ + 1]
                                  ELSE order_history
  BY <1>1, <1>5 DEF OrderFinish
<1> HIDE DEF o, give, c
<1>11. /\ CanUnfreeze(balance, o.user_id, give, o.freeze * FeeOne)
       /\ balance' \in [BalanceKeys -> Nat]
       /\ balance'[<<o.user_id, "FREEZE", give>>] = (c - o.freeze) * FeeOne
       /\ \A v \in Users, d \in Assets :
             ~(v = o.user_id /\ d = give)
                => balance'[<<v, "FREEZE", d>>] = balance[<<v, "FREEZE", d>>]
  BY <1>2, <1>3, <1>7, <1>8, <1>9, <1>10, UnfreezeEffect
<1>12. /\ orders' = Drop(orders, i)
       /\ users' = [users EXCEPT ![o.user_id] = @ \ {i}]
       /\ order_history' = IF o.deal_stock > 0
                           THEN [order_history EXCEPT ![i] = @ + 1] ELSE order_history
       /\ asks' = IF o.side = "ASK" THEN asks \ {i} ELSE asks
       /\ bids' = IF o.side = "BID" THEN bids \ {i} ELSE bids
  BY <1>2, <1>10, <1>11
<1>13. OpenOrders' = OpenOrders \ {i} /\ \A j \in OpenOrders \ {i} : orders'[j] = orders[j]
  BY <1>12 DEF OpenOrders, Drop
<1>14. FreezeBacked' /\ HeldFinite'
  <2>1. ASSUME NEW v \in Users, NEW d \in Assets
        PROVE  /\ balance'[<<v, "FREEZE", d>>] = Cardinality(HeldUnits(v, d)') * FeeOne
               /\ IsFiniteSet(HeldUnits(v, d)')
    <3>1. HeldUnits(v, d)' = Held(orders', v, d) /\ HeldUnits(v, d) = Held(orders, v, d)
      BY HeldUnitsIsHeld, HeldUnitsIsHeldAfter
    <3>2. Owner(o, v, d) <=> v = o.user_id /\ d = give
      BY <1>6
    <3>3. Cardinality(HeldUnits(v, d)) \in Nat
      BY FS_CardinalityType DEF Inv, HeldFinite
    <3>4. balance[<<v, "FREEZE", d>>] = Cardinality(HeldUnits(v, d)) * FeeOne
      BY DEF Inv, FreezeBacked
    <3>5. IsFiniteSet(HeldUnits(v, d)')
      BY <1>4, <1>12, <3>1
    <3>6. CASE v = o.user_id /\ d = give
      <4>1. Cardinality(HeldUnits(v, d)') = c - o.freeze
        BY <1>4, <1>12, <3>1, <3>2, <3>6 DEF c
      <4> QED
        BY <1>11, <3>5, <3>6, <4>1
    <3>7. CASE ~(v = o.user_id /\ d = give)
      <4>1. Cardinality(HeldUnits(v, d)') = Cardinality(HeldUnits(v, d))
        BY <1>4, <1>12, <3>1, <3>2, <3>3, <3>7
      <4> QED
        BY <1>11, <3>4, <3>5, <3>7, <4>1
    <3> QED
      BY <3>6, <3>7
  <2> QED
    BY <2>1 DEF FreezeBacked, HeldFinite
<1>15. Idle' /\ iter' = 0
  BY <1>1 DEF Idle, Inv, IterValid
<1>16. TypeOK'
  <2>1. /\ DOMAIN orders' \subseteq 1..order_id_start'
        /\ \A j \in DOMAIN orders' : orders'[j] \in Order /\ orders'[j].price > 0
    BY <1>1, <1>13 DEF OpenOrders, Inv, TypeOK
  <2>2. users' \in [Users -> SUBSET OrderIds] /\ asks' \subseteq OrderIds /\ bids' \subseteq OrderIds
    BY <1>12 DEF Inv, TypeOK
  <2>3. order_event' \in [OrderIds -> {"NONE", "PUT", "UPDATE", "FINISH"}]
    BY <1>1, <1>2 DEF Inv, TypeOK
  <2>4. order_history' \in [OrderIds -> Nat]
    BY <1>2, <1>12 DEF Inv, TypeOK
  <2> QED
    BY <1>1, <1>11, <1>15, <2>1, <2>2, <2>3, <2>4 DEF Inv, TypeOK
<1>17. IndexConsistent'
  <2>1. asks' = {j \in OpenOrders' : orders'[j].side = "ASK"}
    BY <1>12, <1>13 DEF Inv, IndexConsistent, o
  <2>2. bids' = {j \in OpenOrders' : orders'[j].side = "BID"}
    BY <1>12, <1>13 DEF Inv, IndexConsistent, o
  <2>3. \A u \in Users : users'[u] = {j \in OpenOrders' : orders'[j].user_id = u}
    BY <1>2, <1>12, <1>13 DEF Inv, IndexConsistent, TypeOK, o
  <2>4. \A j \in OpenOrders' : orders'[j].id = j /\ orders'[j].type = "LIMIT"
    BY <1>13 DEF Inv, IndexConsistent
  <2> QED
    BY <2>1, <2>2, <2>3, <2>4 DEF IndexConsistent
<1>18. OrderAccounts'
  BY <1>13 DEF Inv, OrderAccounts
<1>19. Uncrossed'
  <2>1. asks' \subseteq asks /\ bids' \subseteq bids /\ asks' \subseteq OpenOrders'
        /\ bids' \subseteq OpenOrders'
    BY <1>12, <1>17 DEF IndexConsistent
  <2> QED
    BY <1>13, <2>1 DEF Inv, Uncrossed
<1> QED
  BY <1>14, <1>15, <1>16, <1>17, <1>18, <1>19, IdleConjuncts DEF Inv

-----------------------------------------------------------------------------
(* The theorems *)

\* Every iteration of a matching loop, and every step after it, keeps Inv.
LEMMA ExecuteStep ==
    ASSUME Inv, Execute
    PROVE  Inv'
<1>1. CASE ExecuteLimitAskOrder \/ ExecuteLimitBidOrder
  BY <1>1, ExecuteLimitStep
<1>2. CASE ExecuteMarketAskOrder
  BY <1>2, ExecuteMarketAskStep
<1>3. CASE ExecuteMarketBidOrder
  BY <1>3, ExecuteMarketBidStep
<1>4. CASE FinishLimitOrder \/ FinishMarketOrder
  BY <1>4, FinishTakerStep
<1>5. CASE PlaceLimitOrder
  BY <1>5, PlaceStep
<1> QED
  BY <1>1, <1>2, <1>3, <1>4, <1>5 DEF Execute

\* Every request handler keeps Inv.
LEMMA RequestStep ==
    ASSUME Inv, Request
    PROVE  Inv'
<1>1. CASE \E u \in Users, side \in Sides, amount \in Amounts, fees \in Fees :
              \E price \in Prices : PutLimitOrder(u, side, amount, price, fees)
  BY <1>1, PutLimitStep
<1>2. CASE \E u \in Users, side \in Sides, amount \in Amounts, fees \in Fees :
              PutMarketOrder(u, side, amount, fees)
  BY <1>2, PutMarketStep
<1>3. CASE \E i \in OpenOrders : CancelOrder(i)
  BY <1>3, CancelStep
<1>4. CASE \E u \in Users, c \in Changes : UpdateUserBalance(u, c[1], c[2])
  <2>1. PICK u \in Users, c \in Changes : UpdateUserBalance(u, c[1], c[2])
    BY <1>4
  <2>2. c[1] \in Assets /\ c[2] \in Int
    BY ChangesAssumption
  <2> QED
    BY <2>1, <2>2, UpdateStep
<1> QED
  BY <1>1, <1>2, <1>3, <1>4 DEF Request

\* Inv reads nothing but the variables of vars.
LEMMA StutterStep ==
    ASSUME Inv, UNCHANGED vars
    PROVE  Inv'
<1>1. /\ UNCHANGED <<balance, orders, users, asks, bids, order_id_start, deals_id_start>>
      /\ UNCHANGED <<taker, iter, balance_history, order_history, deal_history>>
      /\ UNCHANGED <<order_event, updates>>
  BY DEF vars, book, records
<1>2. TypeOK' /\ IndexConsistent' /\ OrderAccounts' /\ Uncrossed'
  BY <1>1 DEF Inv, TypeOK, Idle, IndexConsistent, OrderAccounts, Uncrossed, OpenOrders
<1>3. IterValid' /\ TakerAtFront' /\ TakerFunded'
  BY <1>1 DEF Inv, IterValid, TakerAtFront, TakerFunded, Idle, OpenOrders, Front,
              Opposite, MatchesBefore, Owed
<1>4. FreezeBacked' /\ HeldFinite'
  BY <1>1 DEF Inv, FreezeBacked, HeldFinite, HeldUnits, OpenOrders
<1> QED
  BY <1>2, <1>3, <1>4 DEF Inv

\* The inductive invariant holds in every state of every behaviour, for every
\* set of users, prices, amounts and fees and every initial balance.
THEOREM Invariance == Spec => []Inv
<1>1. Inv /\ [Next]_vars => Inv'
  BY ExecuteStep, RequestStep, StutterStep DEF Next
<1> QED
  BY InitInv, <1>1, PTL DEF Spec

\* Type correctness: the dictionaries, the books and the counters keep their
\* types, no balance goes below zero and no order id exceeds order_id_start.
THEOREM TypeCorrect == Spec => []TypeOK
<1>1. Inv => TypeOK
  BY DEF Inv
<1> QED
  BY <1>1, Invariance, PTL

\* order_put and order_finish keep the order dictionary, the user lists and the
\* two books in step.
THEOREM IndexCorrect == Spec => []IndexConsistent
<1>1. Inv => IndexConsistent
  BY DEF Inv
<1> QED
  BY <1>1, Invariance, PTL

\* What an open order has left, traded and frozen agree after any number of
\* deals (execute_*_order) and when it is put in its book.
THEOREM AccountsCorrect == Spec => []OrderAccounts
<1>1. Inv => OrderAccounts
  BY DEF Inv
<1> QED
  BY <1>1, Invariance, PTL

\* The two books never cross, in the middle of a match either.
THEOREM BooksUncrossed == Spec => []Uncrossed
<1>1. Inv => Uncrossed
  BY DEF Inv
<1> QED
  BY <1>1, Invariance, PTL

\* The matching loops never read a node that order_finish has released.
THEOREM IteratorValid == Spec => []IterValid
<1>1. Inv => IterValid
  BY DEF Inv
<1> QED
  BY <1>1, Invariance, PTL

\* The taker's available balance always covers the rest of its order, so the
\* unchecked balance_sub calls of the loops cannot fail for it.
THEOREM TakerAlwaysFunded == Spec => []TakerFunded
<1>1. Inv => TakerFunded
  BY DEF Inv
<1> QED
  BY <1>1, Invariance, PTL

\* The frozen balance of every user and asset is exactly what its open orders
\* hold, for every fee, every precision and every number of orders.
THEOREM FreezeIsBacked == Spec => []FreezeBacked
<1>1. Inv => FreezeBacked
  BY DEF Inv
<1> QED
  BY <1>1, Invariance, PTL

\* The taker is in no index and stands before the front of the opposite book.
THEOREM TakerStandsAtFront == Spec => []TakerAtFront
<1>1. Inv => TakerAtFront
  BY DEF Inv
<1> QED
  BY <1>1, Invariance, PTL


-----------------------------------------------------------------------------
(***************************************************************************)
(* What the rest of the exchange learns of a market agrees with its books: *)
(* the messages of push_order_message and the rows of append_order_history *)
(* (RecordsComplete), the order in which resting orders trade              *)
(* (PriorityRespected), and the rows of append_user_balance                *)
(* (BalanceHistoryExplains).  They rest on Inv.                            *)
(***************************************************************************)

\* An id that has not been given out has no message and no row.
NewIdsUnused ==
    \A i \in OrderIds : i > order_id_start =>
        order_event[i] = "NONE" /\ order_history[i] = 0 /\ i \notin deal_history

\* Nothing is told of an order while its loop runs.
TakerUntold ==
    ~Idle => order_event[taker.id] = "NONE" /\ order_history[taker.id] = 0

\* An order that a row of append_order_deal_history names has traded, so its
\* end writes a row of append_order_history.
DealsCounted ==
    /\ \A i \in OpenOrders : i \in deal_history => orders[i].deal_stock > 0
    /\ ~Idle /\ taker.id \in deal_history => taker.deal_stock > 0

RecordsInv == RecordsComplete /\ NewIdsUnused /\ TakerUntold /\ DealsCounted

\* A market order's loop stands before the best order of the opposite book, or
\* it has nothing left that a deal could take.
MarketTakerAtFront ==
    ~Idle /\ taker.type = "MARKET" =>
        \/ iter \in Front(Opposite(taker.side))
        \/ taker.side = "ASK" /\ taker.left = 0
        \/ taker.side = "BID" /\ \A j \in asks : taker.left < orders[j].price

-----------------------------------------------------------------------------
(* Messages and rows *)

\* The dictionary after a deal, without the balances: the maker has left with
\* FINISH and its row, or rests with UPDATE.
LEMMA DealRecords ==
    ASSUME Inv, RecordsInv, NEW amount, NEW used, DealOK(amount, used),
           Deal(amount, used), amount > 0
    PROVE  RecordsInv'
<1> DEFINE maker == orders[iter]
           m == DealtMaker(amount)
<1>1. /\ taker \in Order /\ iter \in OpenOrders /\ maker \in Order /\ maker.id = iter
      /\ iter # taker.id /\ iter \in OrderIds /\ taker.id \in OrderIds
      /\ ~Idle /\ taker.id = order_id_start /\ taker.id \notin OpenOrders
      /\ iter \in 1..order_id_start /\ order_id_start \in Nat /\ amount \in Nat
  <2>1. ~Idle /\ iter # 0 /\ amount \in 0..maker.left
    BY DEF DealOK
  <2>2. /\ taker \in Order /\ iter \in OpenOrders /\ maker \in Order /\ maker.id = iter
        /\ iter # taker.id
    BY <2>1, MakerFacts
  <2>3. order_id_start \in Nat /\ iter \in 1..order_id_start
    BY <2>2, BoundsAssumption DEF Inv, TypeOK, OpenOrders
  <2>4. taker.id \in OrderIds /\ maker.id \in OrderIds /\ maker.left \in Nat
    BY <2>2 DEF Order
  <2>5. taker.id = order_id_start /\ taker.id \notin OpenOrders
    BY <2>1 DEF Inv, TakerAtFront
  <2> QED
    BY <2>1, <2>2, <2>3, <2>4, <2>5
<1>2. /\ taker' \in Order /\ taker'.id = taker.id /\ ~Idle'
      /\ taker'.deal_stock = taker.deal_stock + amount
  BY DealtTakerFacts
<1>3. /\ m \in Order
      /\ m.deal_stock > 0
  <2>1. m.deal_stock = maker.deal_stock + amount /\ maker.deal_stock \in Nat
    BY <1>1 DEF DealtMaker, Filled, Order
  <2> QED
    BY <1>1, <2>1, DealtMakerFacts
<1>4. \/ /\ DOMAIN orders' = OpenOrders \ {iter}
         /\ \A j \in OpenOrders \ {iter} : orders'[j] = orders[j]
         /\ order_event' = [order_event EXCEPT ![iter] = "FINISH"]
         /\ order_history' = [order_history EXCEPT ![iter] = @ + 1]
      \/ /\ DOMAIN orders' = OpenOrders
         /\ orders'[iter] = m
         /\ \A j \in OpenOrders \ {iter} : orders'[j] = orders[j]
         /\ order_event' = [order_event EXCEPT ![iter] = "UPDATE"]
         /\ order_history' = order_history
  BY <1>3, DealDict
<1>5. /\ deal_history' = deal_history \cup {taker.id, iter}
      /\ order_id_start' = order_id_start
  BY <1>1 DEF Deal
<1>6. /\ order_event \in [OrderIds -> {"NONE", "PUT", "UPDATE", "FINISH"}]
      /\ order_history \in [OrderIds -> Nat]
  BY DEF Inv, TypeOK
<1>7. order_event[iter] \in {"PUT", "UPDATE"} /\ order_history[iter] = 0
  BY <1>1, <1>6 DEF RecordsInv, RecordsComplete, AnnouncedOpen, OrderHistoryOnce
<1> HIDE DEF m, maker
<1>8. AnnouncedOpen'
  BY <1>1, <1>4, <1>6 DEF RecordsInv, RecordsComplete, AnnouncedOpen, OpenOrders
<1>9. OrderHistoryOnce'
  <2> SUFFICES ASSUME NEW i \in OrderIds
               PROVE  /\ order_history'[i] <= 1
                      /\ order_history'[i] = 1 => order_event'[i] = "FINISH"
                      /\ i \in deal_history' /\ order_event'[i] = "FINISH"
                            => order_history'[i] = 1
    BY DEF OrderHistoryOnce
  <2>1. CASE i = iter
    BY <1>1, <1>4, <1>6, <1>7, <2>1
  <2>2. CASE i # iter
    <3>1. order_history'[i] = order_history[i] /\ order_event'[i] = order_event[i]
      BY <1>4, <1>6, <2>2
    <3>2. i = taker.id => order_event[i] = "NONE"
      BY <1>1 DEF RecordsInv, TakerUntold
    <3> QED
      BY <1>5, <2>2, <3>1, <3>2 DEF RecordsInv, RecordsComplete, OrderHistoryOnce
  <2> QED
    BY <2>1, <2>2
<1>10. NewIdsUnused'
  <2> SUFFICES ASSUME NEW i \in OrderIds, i > order_id_start
               PROVE  /\ order_event'[i] = "NONE" /\ order_history'[i] = 0
                      /\ i \notin deal_history'
    BY <1>5 DEF NewIdsUnused
  <2>1. i # iter /\ i # taker.id
    BY <1>1 DEF OrderIds
  <2> QED
    BY <1>4, <1>5, <1>6, <2>1 DEF RecordsInv, NewIdsUnused
<1>11. TakerUntold'
  BY <1>1, <1>2, <1>4, <1>6 DEF RecordsInv, TakerUntold
<1>12. DealsCounted'
  <2>1. taker'.deal_stock > 0
    BY <1>1, <1>2 DEF Order
  <2>2. ASSUME NEW i \in DOMAIN orders', i \in deal_history'
        PROVE  orders'[i].deal_stock > 0
    <3>1. CASE i = iter
      BY <1>3, <1>4, <3>1
    <3>2. CASE i # iter
      BY <1>1, <1>4, <1>5, <2>2, <3>2 DEF RecordsInv, DealsCounted
    <3> QED
      BY <3>1, <3>2
  <2> QED
    BY <2>1, <2>2 DEF DealsCounted, OpenOrders
<1> QED
  BY <1>8, <1>9, <1>10, <1>11, <1>12 DEF RecordsInv, RecordsComplete

\* order_finish of a cancelled order never takes its early return: the order
\* leaves the dictionary, and its row is written when it has traded.
LEMMA CancelDict ==
    ASSUME Inv, NEW i \in OpenOrders, CancelOrder(i)
    PROVE  /\ DOMAIN orders' = OpenOrders \ {i}
           /\ \A j \in OpenOrders \ {i} : orders'[j] = orders[j]
           /\ order_history' = IF orders[i].deal_stock > 0
                               THEN [order_history EXCEPT ![i] = @ + 1]
                               ELSE order_history
<1> DEFINE o == orders[i]
<1>1. o \in Order /\ o.id = i /\ o.side \in Sides
  BY DEF Inv, TypeOK, IndexConsistent, OpenOrders, Order
<1>2. \/ /\ orders' = Drop(orders, i)
         /\ order_history' = IF o.deal_stock > 0
                             THEN [order_history EXCEPT ![i] = @ + 1] ELSE order_history
      \/ orders' = [orders EXCEPT ![i] = o]
  BY <1>1 DEF CancelOrder, OrderFinish
<1>3. /\ asks' = IF o.side = "ASK" THEN asks \ {i} ELSE asks
      /\ bids' = IF o.side = "BID" THEN bids \ {i} ELSE bids
  BY <1>1 DEF CancelOrder, OrderFinish
<1>4. orders' # [orders EXCEPT ![i] = o]
  <2> SUFFICES ASSUME orders' = [orders EXCEPT ![i] = o]
               PROVE  FALSE
    OBVIOUS
  <2>1. i \in OpenOrders' /\ orders'[i].side = o.side
    BY DEF OpenOrders
  <2>2. /\ asks' = {j \in OpenOrders' : orders'[j].side = "ASK"}
        /\ bids' = {j \in OpenOrders' : orders'[j].side = "BID"}
    BY CancelStep DEF Inv, IndexConsistent
  <2> HIDE DEF o
  <2> QED
    BY <1>1, <1>3, <2>1, <2>2 DEF Sides
<1> QED
  BY <1>2, <1>4 DEF Drop, OpenOrders

\* market_cancel_order.
LEMMA CancelRecords ==
    ASSUME Inv, RecordsInv, NEW i \in OpenOrders, CancelOrder(i)
    PROVE  RecordsInv'
<1>1. /\ Idle /\ Idle' /\ order_event' = [order_event EXCEPT ![i] = "FINISH"]
      /\ UNCHANGED <<order_id_start, deal_history, taker>>
  BY DEF CancelOrder, Idle
<1>2. /\ DOMAIN orders' = OpenOrders \ {i}
      /\ \A j \in OpenOrders \ {i} : orders'[j] = orders[j]
      /\ order_history' = IF orders[i].deal_stock > 0
                          THEN [order_history EXCEPT ![i] = @ + 1] ELSE order_history
  BY CancelDict
<1>3. /\ order_event \in [OrderIds -> {"NONE", "PUT", "UPDATE", "FINISH"}]
      /\ order_history \in [OrderIds -> Nat]
      /\ i \in OrderIds /\ i \in 1..order_id_start /\ order_id_start \in Nat
      /\ orders[i].deal_stock \in Nat
  <2>1. /\ order_event \in [OrderIds -> {"NONE", "PUT", "UPDATE", "FINISH"}]
        /\ order_history \in [OrderIds -> Nat]
        /\ order_id_start \in 0..MaxOrders /\ OpenOrders \subseteq 1..order_id_start
        /\ orders[i] \in Order
    BY DEF Inv, TypeOK, OpenOrders
  <2>2. i \in OrderIds /\ i \in 1..order_id_start /\ order_id_start \in Nat
    BY <2>1, BoundsAssumption DEF OrderIds
  <2> QED
    BY <2>1, <2>2 DEF Order
<1>4. order_history[i] = 0
  BY <1>3 DEF RecordsInv, RecordsComplete, AnnouncedOpen, OrderHistoryOnce
<1>5. AnnouncedOpen'
  BY <1>1, <1>2, <1>3 DEF RecordsInv, RecordsComplete, AnnouncedOpen, OpenOrders
<1>6. OrderHistoryOnce'
  <2> SUFFICES ASSUME NEW j \in OrderIds
               PROVE  /\ order_history'[j] <= 1
                      /\ order_history'[j] = 1 => order_event'[j] = "FINISH"
                      /\ j \in deal_history' /\ order_event'[j] = "FINISH"
                            => order_history'[j] = 1
    BY DEF OrderHistoryOnce
  <2>1. CASE j = i
    BY <1>1, <1>2, <1>3, <1>4, <2>1 DEF RecordsInv, DealsCounted
  <2>2. CASE j # i
    BY <1>1, <1>2, <1>3, <2>2 DEF RecordsInv, RecordsComplete, OrderHistoryOnce
  <2> QED
    BY <2>1, <2>2
<1>7. NewIdsUnused'
  BY <1>1, <1>2, <1>3 DEF RecordsInv, NewIdsUnused
<1>8. DealsCounted'
  BY <1>1, <1>2 DEF RecordsInv, DealsCounted, OpenOrders
<1> QED
  BY <1>1, <1>5, <1>6, <1>7, <1>8 DEF RecordsInv, RecordsComplete, TakerUntold

\* What is left of a limit order rests, after its PUT message.
LEMMA PlaceRecords ==
    ASSUME Inv, RecordsInv, PlaceLimitOrder
    PROVE  RecordsInv'
<1>1. /\ ~Idle /\ Idle' /\ order_event' = [order_event EXCEPT ![taker.id] = "PUT"]
      /\ UNCHANGED <<order_id_start, deal_history, order_history>>
  BY DEF PlaceLimitOrder, Idle
<1> DEFINE o == orders'[taker.id]
<1>2. /\ DOMAIN orders' = OpenOrders \cup {taker.id}
      /\ \A j \in OpenOrders : j # taker.id => orders'[j] = orders[j]
      /\ o.deal_stock = taker.deal_stock
  <2>1. taker \in Order
    BY <1>1 DEF Inv, TypeOK
  <2> QED
    BY <2>1 DEF PlaceLimitOrder, OrderPut, Order
<1>3. /\ order_event \in [OrderIds -> {"NONE", "PUT", "UPDATE", "FINISH"}]
      /\ taker.id \in OrderIds /\ taker.id = order_id_start /\ order_id_start \in Nat
      /\ taker.id \notin OpenOrders
  BY <1>1, BoundsAssumption DEF Inv, TypeOK, Order, TakerAtFront
<1>4. AnnouncedOpen'
  BY <1>1, <1>2, <1>3 DEF RecordsInv, RecordsComplete, AnnouncedOpen, OpenOrders
<1>5. order_history[taker.id] = 0
  BY <1>1 DEF RecordsInv, TakerUntold
<1>6. OrderHistoryOnce'
  BY <1>1, <1>3, <1>5 DEF RecordsInv, RecordsComplete, OrderHistoryOnce
<1>7. NewIdsUnused'
  BY <1>1, <1>3 DEF RecordsInv, NewIdsUnused, OrderIds
<1>8. DealsCounted'
  BY <1>1, <1>2, <1>3 DEF RecordsInv, DealsCounted, OpenOrders
<1> QED
  BY <1>1, <1>4, <1>6, <1>7, <1>8 DEF RecordsInv, RecordsComplete, TakerUntold

\* An order that does not rest ends with FINISH and its row.
LEMMA FinishTakerRecords ==
    ASSUME Inv, RecordsInv, FinishLimitOrder \/ FinishMarketOrder
    PROVE  RecordsInv'
<1>1. /\ ~Idle /\ Idle'
      /\ order_history' = [order_history EXCEPT ![taker.id] = @ + 1]
      /\ order_event' = [order_event EXCEPT ![taker.id] = "FINISH"]
      /\ UNCHANGED <<orders, order_id_start, deal_history>>
  BY DEF FinishLimitOrder, FinishMarketOrder, Idle, book
<1>2. /\ order_event \in [OrderIds -> {"NONE", "PUT", "UPDATE", "FINISH"}]
      /\ order_history \in [OrderIds -> Nat]
      /\ taker.id \in OrderIds /\ taker.id = order_id_start /\ order_id_start \in Nat
      /\ taker.id \notin OpenOrders
  BY <1>1, BoundsAssumption DEF Inv, TypeOK, Order, TakerAtFront
<1>3. order_history[taker.id] = 0
  BY <1>1 DEF RecordsInv, TakerUntold
<1>4. AnnouncedOpen'
  BY <1>1, <1>2 DEF RecordsInv, RecordsComplete, AnnouncedOpen, OpenOrders
<1>5. OrderHistoryOnce'
  BY <1>1, <1>2, <1>3 DEF RecordsInv, RecordsComplete, OrderHistoryOnce
<1>6. NewIdsUnused'
  BY <1>1, <1>2 DEF RecordsInv, NewIdsUnused, OrderIds
<1>7. DealsCounted'
  BY <1>1 DEF RecordsInv, DealsCounted, OpenOrders
<1> QED
  BY <1>1, <1>4, <1>5, <1>6, <1>7 DEF RecordsInv, RecordsComplete, TakerUntold

\* A new order: nothing is told of it yet.
LEMMA StartRecords ==
    ASSUME Inv, RecordsInv, order_id_start < MaxOrders, NEW order,
           StartExecution(order), order.id = order_id_start + 1
    PROVE  RecordsInv'
<1>1. /\ order_id_start' = order_id_start + 1 /\ taker'.id = order_id_start + 1
      /\ UNCHANGED <<orders, order_event, order_history, deal_history>>
  BY DEF StartExecution, book, records
<1>2. order_id_start \in Nat /\ order_id_start + 1 \in OrderIds
  BY BoundsAssumption DEF Inv, TypeOK, OrderIds
<1>3. /\ order_event[order_id_start + 1] = "NONE" /\ order_history[order_id_start + 1] = 0
      /\ order_id_start + 1 \notin deal_history
  BY <1>2 DEF RecordsInv, NewIdsUnused
<1>4. RecordsComplete'
  BY <1>1 DEF RecordsInv, RecordsComplete, AnnouncedOpen, OrderHistoryOnce, OpenOrders
<1>5. NewIdsUnused'
  BY <1>1, <1>2 DEF RecordsInv, NewIdsUnused, OrderIds
<1>6. DealsCounted'
  BY <1>1, <1>3 DEF RecordsInv, DealsCounted, OpenOrders
<1> QED
  BY <1>1, <1>3, <1>4, <1>5, <1>6 DEF RecordsInv, TakerUntold

\* The deal of an iteration is one DealOK admits, for an amount that is not 0.
LEMMA IterationDeals ==
    ASSUME Inv,
           \/ ExecuteLimitAskOrder \/ ExecuteLimitBidOrder
           \/ ExecuteMarketAskOrder \/ ExecuteMarketBidOrder
    PROVE  \E amount \in Nat \ {0}, used \in Nat :
              /\ DealOK(amount, used)
              /\ Deal(amount, used)
              /\ \/ amount = orders[iter].left
                 \/ taker.type = "LIMIT" /\ used = taker.left
                 \/ taker.type = "MARKET" /\ taker.side = "ASK" /\ used = taker.left
                 \/ /\ taker.type = "MARKET" /\ taker.side = "BID"
                    /\ amount = Affordable /\ used = orders[iter].price * amount
<1>1. ~Idle /\ iter # 0 /\ (taker.left > 0 \/ ExecuteMarketBidOrder)
  BY DEF ExecuteLimitAskOrder, ExecuteLimitBidOrder, ExecuteMarketAskOrder,
         ExecuteMarketBidOrder, LimitMatches, MarketAskMatches, MarketBidMatches
<1>2. /\ taker.left \in Nat /\ orders[iter].left \in Nat /\ orders[iter].left > 0
      /\ orders[iter].price \in Nat \ {0}
  BY <1>1, MakerFacts DEF Order
<1> DEFINE amount == Smaller(taker.left, orders[iter].left)
<1>3. CASE ExecuteLimitAskOrder \/ ExecuteLimitBidOrder
  <2>1. /\ taker.type = "LIMIT" /\ Crosses(taker, orders[iter]) /\ taker.left > 0
        /\ Deal(amount, amount)
    BY <1>3 DEF ExecuteLimitAskOrder, ExecuteLimitBidOrder, LimitMatches
  <2>2. /\ amount \in 0..orders[iter].left /\ amount \in 0..taker.left
        /\ amount \in Nat \ {0}
        /\ amount = taker.left \/ amount = orders[iter].left
    BY <1>2, <2>1 DEF Smaller
  <2> HIDE DEF amount
  <2>3. DealOK(amount, amount)
    BY <1>1, <2>1, <2>2 DEF DealOK
  <2> QED
    BY <2>1, <2>2, <2>3
<1>4. CASE ExecuteMarketAskOrder
  <2>1. /\ taker.type = "MARKET" /\ taker.side = "ASK" /\ taker.left > 0
        /\ Deal(amount, amount)
    BY <1>4 DEF ExecuteMarketAskOrder, MarketAskMatches
  <2>2. /\ amount \in 0..orders[iter].left /\ amount \in 0..taker.left
        /\ amount \in Nat \ {0}
        /\ amount = taker.left \/ amount = orders[iter].left
    BY <1>2, <2>1 DEF Smaller
  <2> HIDE DEF amount
  <2>3. DealOK(amount, amount)
    BY <1>1, <2>1, <2>2 DEF DealOK, Gives, Value
  <2> QED
    BY <2>1, <2>2, <2>3
<1>5. CASE ExecuteMarketBidOrder
  <2> DEFINE price == orders[iter].price
             most == Smaller(Affordable, orders[iter].left)
  <2>1. /\ taker.type = "MARKET" /\ taker.side = "BID" /\ most > 0
        /\ Deal(most, price * most)
    BY <1>5 DEF ExecuteMarketBidOrder, MarketBidMatches
  <2>2. Affordable \in Nat /\ Affordable * price <= taker.left
    BY <1>2, DivFacts DEF Affordable
  <2>3. /\ most \in 0..orders[iter].left /\ most <= Affordable /\ most \in Nat \ {0}
        /\ most = Affordable \/ most = orders[iter].left
    BY <1>2, <2>1, <2>2 DEF Smaller
  <2> HIDE DEF most
  <2>4. price * most <= price * Affordable /\ price * most \in Nat
    BY <1>2, <2>2, <2>3, ProductMonotone
  <2>5. price * Affordable = Affordable * price
    BY <1>2, <2>2
  <2>6. price * most \in 0..taker.left
    BY <1>2, <2>2, <2>4, <2>5
  <2>7. DealOK(most, price * most)
    BY <1>1, <2>1, <2>3, <2>6 DEF DealOK, Gives, Value
  <2> QED
    BY <2>1, <2>3, <2>4, <2>7
<1> QED
  BY <1>3, <1>4, <1>5

\* Every step of the market keeps messages, rows and books together.
LEMMA RecordsStep ==
    ASSUME Inv, RecordsInv, [Next]_vars
    PROVE  RecordsInv'
<1>1. CASE \/ ExecuteLimitAskOrder \/ ExecuteLimitBidOrder
           \/ ExecuteMarketAskOrder \/ ExecuteMarketBidOrder
  <2>1. PICK amount \in Nat \ {0}, used \in Nat :
           DealOK(amount, used) /\ Deal(amount, used)
    BY <1>1, IterationDeals
  <2> QED
    BY <2>1, DealRecords
<1>2. CASE FinishLimitOrder \/ FinishMarketOrder
  BY <1>2, FinishTakerRecords
<1>3. CASE PlaceLimitOrder
  BY <1>3, PlaceRecords
<1>4. ASSUME NEW u \in Users, NEW side \in Sides, NEW amount \in Amounts, NEW fees \in Fees,
             \/ \E price \in Prices : PutLimitOrder(u, side, amount, price, fees)
             \/ PutMarketOrder(u, side, amount, fees)
      PROVE  RecordsInv'
  <2>1. PICK order :
           /\ order_id_start < MaxOrders /\ StartExecution(order)
           /\ \E type \in {"LIMIT", "MARKET"} : \E price, given, rates :
                 order = NewOrder(type, side, u, price, given, rates)
    BY <1>4 DEF PutLimitOrder, PutMarketOrder
  <2>2. order.id = order_id_start + 1
    BY <2>1 DEF NewOrder
  <2> QED
    BY <2>1, <2>2, StartRecords
<1>5. ASSUME NEW i \in OpenOrders, CancelOrder(i)
      PROVE  RecordsInv'
  BY <1>5, CancelRecords
<1>6. CASE UNCHANGED <<orders, order_id_start, taker, order_event, order_history, deal_history>>
  BY <1>6 DEF RecordsInv, RecordsComplete, AnnouncedOpen, OrderHistoryOnce, NewIdsUnused,
              TakerUntold, DealsCounted, OpenOrders, Idle
<1>7. ASSUME NEW u \in Users, NEW c \in Changes, UpdateUserBalance(u, c[1], c[2])
      PROVE  RecordsInv'
  BY <1>6, <1>7 DEF UpdateUserBalance, book
<1>8. CASE UNCHANGED vars
  BY <1>6, <1>8 DEF vars, book, records
<1> QED
  BY <1>1, <1>2, <1>3, <1>4, <1>5, <1>7, <1>8 DEF Next, Execute, Request

\* A market starts without orders, messages and rows.
LEMMA InitRecords == Init => RecordsInv
BY BoundsAssumption
DEF Init, RecordsInv, RecordsComplete, AnnouncedOpen, OrderHistoryOnce, NewIdsUnused,
    TakerUntold, DealsCounted, OpenOrders, OrderIds, Idle, NoOrder

\* The inductive invariant of the messages and rows.
THEOREM RecordsInvariance == Spec => []RecordsInv
<1>1. Inv /\ RecordsInv /\ [Next]_vars => RecordsInv'
  BY RecordsStep
<1> QED
  BY InitRecords, <1>1, Invariance, PTL DEF Spec

\* The events of push_order_message and the rows of append_order_history tell
\* the same story as the book: the announced orders are the open ones, and an
\* order that has traded gets exactly one row, when it is over.
THEOREM RecordsAreComplete == Spec => []RecordsComplete
<1>1. RecordsInv => RecordsComplete
  BY DEF RecordsInv
<1> QED
  BY <1>1, RecordsInvariance, PTL

-----------------------------------------------------------------------------
(* The order of trading *)

\* Two orders of one side are never both before the other.
LEMMA ComparisonAsymmetric ==
    ASSUME NEW o \in Order, NEW p \in Order, o.side = p.side
    PROVE  /\ ~(MatchesBefore(o, p) /\ MatchesBefore(p, o))
           /\ ~MatchesBefore(o, o)
<1>1. /\ o.price \in Nat /\ p.price \in Nat /\ o.id \in Nat /\ p.id \in Nat
      /\ o.side \in Sides
  BY BoundsAssumption DEF Order, OrderIds
<1> QED
  BY <1>1 DEF MatchesBefore, Sides

\* A front that is not NULL is an order of its list and before all others.
LEMMA FrontFacts ==
    ASSUME NEW S, NEW i \in Front(S), i # 0
    PROVE  i \in S /\ \A j \in S \ {i} : MatchesBefore(orders[i], orders[j])
BY DEF Front

\* When the front maker of the loop is filled, the prefetched node is the new
\* front.
LEMMA FrontMovesOn ==
    ASSUME Inv, NEW amount, NEW used, DealOK(amount, used), Deal(amount, used),
           amount = orders[iter].left, iter \in Front(Opposite(taker.side))
    PROVE  iter' \in Front(Opposite(taker.side))'
<1> DEFINE opp == Opposite(taker.side)
           maker == orders[iter]
<1>1. /\ ~Idle /\ iter # 0 /\ iter \in opp /\ maker \in Order /\ maker.left \in Nat
  BY MakerFacts DEF DealOK, Order
<1>2. DealtMaker(amount).left = 0
  <2>1. DealtMaker(amount).left = maker.left - amount
    BY DealtMakerFacts
  <2> QED
    BY <1>1, <2>1
<1>3. /\ DOMAIN orders' = OpenOrders \ {iter}
      /\ \A j \in OpenOrders \ {iter} : orders'[j] = orders[j]
      /\ asks' = asks \ {iter} /\ bids' = bids \ {iter}
  BY <1>2, DealDict
<1>4. Opposite(taker.side)' = opp \ {iter} /\ opp \subseteq OpenOrders
  BY <1>3, DealtTakerFacts DEF Opposite, Inv, IndexConsistent
<1>5. After(opp, iter) = opp \ {iter}
  <2>1. \A j \in opp \ {iter} : MatchesBefore(maker, orders[j])
    BY <1>1, FrontFacts
  <2>2. ~MatchesBefore(maker, maker)
    BY <1>1, ComparisonAsymmetric
  <2> QED
    BY <2>1, <2>2 DEF After
<1>6. iter' \in Front(opp \ {iter})
  BY <1>5 DEF Deal
<1> HIDE DEF opp
<1> QED
  BY <1>3, <1>4, <1>6 DEF Front

\* A market order's deals: it meets the front again, or is over.
LEMMA MarketDealFront ==
    ASSUME Inv, MarketTakerAtFront,
           \/ ExecuteLimitAskOrder \/ ExecuteLimitBidOrder
           \/ ExecuteMarketAskOrder \/ ExecuteMarketBidOrder
    PROVE  MarketTakerAtFront' /\ iter \in Front(Opposite(taker.side))
<1>1. PICK amount \in Nat \ {0}, used \in Nat :
         /\ DealOK(amount, used)
         /\ Deal(amount, used)
         /\ \/ amount = orders[iter].left
            \/ taker.type = "LIMIT" /\ used = taker.left
            \/ taker.type = "MARKET" /\ taker.side = "ASK" /\ used = taker.left
            \/ /\ taker.type = "MARKET" /\ taker.side = "BID"
               /\ amount = Affordable /\ used = orders[iter].price * amount
  BY IterationDeals
<1>2. /\ ~Idle /\ iter # 0 /\ taker \in Order /\ orders[iter] \in Order
      /\ iter \in Opposite(taker.side) /\ orders[iter].price > 0
      /\ orders[iter].side # taker.side
  BY <1>1, MakerFacts DEF DealOK
<1>3. iter \in Front(Opposite(taker.side))
  <2>1. CASE taker.type = "LIMIT"
    <3>1. taker.left > 0
      BY <2>1 DEF ExecuteLimitAskOrder, ExecuteLimitBidOrder, ExecuteMarketAskOrder,
                  ExecuteMarketBidOrder, LimitMatches
    <3> QED
      BY <1>2, <2>1, <3>1 DEF Inv, TakerAtFront
  <2>2. CASE taker.type = "MARKET"
    <3>1. ~(taker.side = "ASK" /\ taker.left = 0)
      BY <2>2 DEF ExecuteLimitAskOrder, ExecuteLimitBidOrder, ExecuteMarketAskOrder,
                  ExecuteMarketBidOrder, MarketAskMatches
    <3>2. ASSUME taker.side = "BID", taker.left < orders[iter].price
          PROVE  FALSE
      <4>1. Smaller(Affordable, orders[iter].left) > 0
        BY <2>2, <3>2 DEF ExecuteLimitAskOrder, ExecuteLimitBidOrder,
               ExecuteMarketAskOrder, ExecuteMarketBidOrder, MarketBidMatches
      <4>2. taker.left \in Nat /\ orders[iter].price \in Nat \ {0} /\ orders[iter].left \in Nat
        BY <1>2 DEF Order
      <4>3. Affordable = 0
        BY <3>2, <4>2 DEF Affordable
      <4> QED
        BY <4>1, <4>2, <4>3 DEF Smaller
    <3> QED
      BY <1>2, <2>2, <3>1, <3>2 DEF MarketTakerAtFront, Opposite
  <2> QED
    BY <1>2, <2>1, <2>2 DEF Order
<1>4. /\ taker'.type = taker.type /\ taker'.side = taker.side
      /\ taker'.left = taker.left - used
      /\ taker.left \in Nat
  BY <1>1, <1>2, DealtTakerFacts DEF Order
<1>5. MarketTakerAtFront'
  <2>1. CASE amount = orders[iter].left
    BY <1>1, <1>3, <2>1, FrontMovesOn DEF MarketTakerAtFront
  <2>2. CASE taker.type = "LIMIT"
    BY <1>4, <2>2 DEF MarketTakerAtFront
  <2>3. CASE taker.side = "ASK" /\ used = taker.left
    BY <1>4, <2>3 DEF MarketTakerAtFront
  <2>4. CASE /\ taker.type = "MARKET" /\ taker.side = "BID"
             /\ amount = Affordable /\ used = orders[iter].price * amount
    <3> DEFINE price == orders[iter].price
    <3>1. price \in Nat \ {0}
      BY <1>2 DEF Order
    <3>2. taker'.left < price
      <4>1. used = price * (taker.left \div price)
        BY <2>4 DEF Affordable
      <4> QED
        BY <1>4, <3>1, <4>1
    <3>3. asks' \subseteq asks
      BY <1>1, DealDict
    <3>4. ASSUME NEW j \in asks' PROVE orders'[j].price >= price
      <4>1. j \in asks /\ j \in OpenOrders /\ orders[j] \in Order /\ orders[j].side = "ASK"
        BY <3>3, <3>4 DEF Inv, IndexConsistent, TypeOK, OpenOrders
      <4>2. orders'[j].price = orders[j].price
        <5>1. j \in DOMAIN orders'
          <6>1. Inv'
            BY <1>1, DealStep
          <6> QED
            BY <3>4, <6>1 DEF Inv, IndexConsistent, OpenOrders
        <5>2. \/ j # iter /\ orders'[j] = orders[j]
              \/ j = iter /\ orders'[j] = DealtMaker(amount)
          BY <1>1, <4>1, <5>1, DealDict
        <5>3. DealtMaker(amount).price = price
          BY <1>1, DealtMakerFacts
        <5> QED
          BY <5>2, <5>3
      <4>3. orders[j].price >= price
        <5>1. CASE j = iter
          BY <3>1, <5>1
        <5>2. CASE j # iter
          <6>1. MatchesBefore(orders[iter], orders[j])
            BY <1>2, <1>3, <2>4, <4>1, <5>2, FrontFacts DEF Opposite
          <6>2. orders[iter].side = "ASK" /\ orders[j].price \in Nat
            BY <1>2, <2>4, <4>1 DEF Order, Sides
          <6> QED
            BY <3>1, <6>1, <6>2 DEF MatchesBefore
        <5> QED
          BY <5>1, <5>2
      <4> QED
        BY <4>2, <4>3
    <3>5. \A j \in asks' : taker'.left < orders'[j].price
      <4> SUFFICES ASSUME NEW j \in asks'
                   PROVE  taker'.left < orders'[j].price
        OBVIOUS
      <4>1. orders'[j].price >= price
        BY <3>4
      <4>2. orders'[j].price \in Nat
        <5>1. Inv'
          BY <1>1, DealStep
        <5>2. j \in DOMAIN orders'
          BY <5>1 DEF Inv, IndexConsistent, OpenOrders
        <5>3. orders'[j] \in Order
          BY <5>1, <5>2 DEF Inv, TypeOK
        <5> QED
          BY <5>3 DEF Order
      <4>3. taker'.left \in Int
        BY <1>1, <1>4
      <4> HIDE DEF price
      <4> QED
        BY <3>1, <3>2, <4>1, <4>2, <4>3
    <3> QED
      BY <1>4, <2>4, <3>5 DEF MarketTakerAtFront
  <2> QED
    BY <1>1, <2>1, <2>2, <2>3, <2>4
<1> QED
  BY <1>3, <1>5

\* The loop of a market order starts at the front and ends with its order.
LEMMA MarketFrontStep ==
    ASSUME Inv, MarketTakerAtFront, [Next]_vars
    PROVE  MarketTakerAtFront'
<1>1. CASE \/ ExecuteLimitAskOrder \/ ExecuteLimitBidOrder
           \/ ExecuteMarketAskOrder \/ ExecuteMarketBidOrder
  BY <1>1, MarketDealFront
<1>2. CASE FinishLimitOrder \/ FinishMarketOrder \/ PlaceLimitOrder
  BY <1>2 DEF FinishLimitOrder, FinishMarketOrder, PlaceLimitOrder, MarketTakerAtFront, Idle
<1>3. ASSUME NEW u \in Users, NEW side \in Sides, NEW amount \in Amounts, NEW fees \in Fees,
             \/ \E price \in Prices : PutLimitOrder(u, side, amount, price, fees)
             \/ PutMarketOrder(u, side, amount, fees)
      PROVE  MarketTakerAtFront'
  <2>1. PICK order : StartExecution(order)
    BY <1>3 DEF PutLimitOrder, PutMarketOrder
  <2>2. /\ taker' = order /\ iter' \in Front(Opposite(order.side))
        /\ UNCHANGED <<orders, asks, bids>>
    BY <2>1 DEF StartExecution, book
  <2>3. iter' \in Front(Opposite(taker.side))'
    BY <2>2 DEF Front, Opposite
  <2> QED
    BY <2>3 DEF MarketTakerAtFront
<1>4. CASE UNCHANGED vars
  BY <1>4 DEF vars, book, MarketTakerAtFront, Front, Opposite, Idle
<1>5. CASE Idle'
  BY <1>5 DEF MarketTakerAtFront
<1>6. ASSUME NEW i \in OpenOrders, CancelOrder(i) PROVE Idle'
  BY <1>6 DEF CancelOrder, Idle
<1>7. ASSUME NEW u \in Users, NEW c \in Changes, UpdateUserBalance(u, c[1], c[2])
      PROVE  Idle'
  BY <1>7 DEF UpdateUserBalance, Idle
<1> QED
  BY <1>1, <1>2, <1>3, <1>4, <1>5, <1>6, <1>7 DEF Next, Execute, Request

\* Only the maker under the iterator changes in a deal, and it stands in front.
LEMMA PriorityStep ==
    ASSUME Inv, MarketTakerAtFront, [Next]_vars, deals_id_start' # deals_id_start,
           NEW i \in OpenOrders, Changed(i), NEW k \in OpenOrders,
           orders[k].side = orders[i].side
    PROVE  ~MatchesBefore(orders[k], orders[i])
<1>1. \/ ExecuteLimitAskOrder \/ ExecuteLimitBidOrder
      \/ ExecuteMarketAskOrder \/ ExecuteMarketBidOrder
  <2>1. ~(FinishLimitOrder \/ FinishMarketOrder \/ PlaceLimitOrder)
    BY DEF FinishLimitOrder, FinishMarketOrder, PlaceLimitOrder
  <2>2. \A u, side, amount, fees :
           /\ \A price : ~PutLimitOrder(u, side, amount, price, fees)
           /\ ~PutMarketOrder(u, side, amount, fees)
    BY DEF PutLimitOrder, PutMarketOrder, StartExecution
  <2>3. /\ \A j : ~CancelOrder(j)
        /\ \A u, a, change : ~UpdateUserBalance(u, a, change)
        /\ vars' # vars
    BY DEF CancelOrder, UpdateUserBalance, vars
  <2> QED
    BY <2>1, <2>2, <2>3 DEF Next, Execute, Request
<1>2. PICK amount \in Nat \ {0}, used \in Nat : DealOK(amount, used) /\ Deal(amount, used)
  BY <1>1, IterationDeals
<1>3. i = iter
  BY <1>2, DealDict DEF Changed
<1>4. iter \in Front(Opposite(taker.side))
  BY <1>1, MarketDealFront
<1>5. /\ ~Idle /\ iter # 0 /\ taker \in Order /\ iter \in Opposite(taker.side)
      /\ orders[iter].side # taker.side /\ orders[k] \in Order /\ orders[iter] \in Order
  BY <1>2, MakerFacts DEF DealOK, Inv, TypeOK, OpenOrders
<1>6. k \in Opposite(taker.side)
  BY <1>3, <1>5 DEF Inv, IndexConsistent, Opposite, Order, Sides
<1>7. k = iter \/ MatchesBefore(orders[iter], orders[k])
  BY <1>4, <1>5, <1>6, FrontFacts
<1> QED
  BY <1>3, <1>5, <1>7, ComparisonAsymmetric

\* A market order's loop never leaves the front of the opposite book before it
\* has nothing left to trade (execute_market_*_order).
THEOREM MarketTakerStandsAtFront == Spec => []MarketTakerAtFront
<1>1. Init => MarketTakerAtFront
  BY DEF Init, MarketTakerAtFront, Idle
<1>2. Inv /\ MarketTakerAtFront /\ [Next]_vars => MarketTakerAtFront'
  BY MarketFrontStep
<1> QED
  BY <1>1, <1>2, Invariance, PTL DEF Spec

\* Price-time priority: whatever orders execute_*_order matches, limit or
\* market, a resting order trades only when no order of its book comes before
\* it in the order of order_match_compare.
THEOREM PriorityIsRespected == Spec => PriorityRespected
<1>1. Inv /\ MarketTakerAtFront /\ [Next]_vars =>
         [deals_id_start' # deals_id_start =>
            \A i \in {j \in OpenOrders : Changed(j)}, k \in OpenOrders :
               orders[k].side = orders[i].side => ~MatchesBefore(orders[k], orders[i])]_vars
  BY PriorityStep
<1> QED
  BY <1>1, Invariance, MarketTakerStandsAtFront, PTL DEF Spec, PriorityRespected

-----------------------------------------------------------------------------
(* The balance history *)

\* A whole number of steps of prec_save
Multiple(x, a) == \E n \in Nat : x = n * Grain(a)

\* Balances are kept at prec_save.
InGrain(b) == \A k \in BalanceKeys : Multiple(b[k], k[3])

\* How much more the rows account for than the user has
Lost(h, b, u, a) == h[<<u, a>>] - (b[<<u, "AVAILABLE", a>>] + b[<<u, "FREEZE", a>>])

\* A number that leaves no remainder is a whole number of steps.
LEMMA DivisionExact ==
    ASSUME NEW x \in Int, NEW g \in Nat \ {0}, x % g = 0
    PROVE  /\ \E n \in Int : x = n * g
           /\ x >= 0 => \E n \in Nat : x = n * g
<1>1. x = (x \div g) * g /\ x \div g \in Int
  OBVIOUS
<1>2. x >= 0 => x \div g \in Nat
  OBVIOUS
<1> QED
  BY <1>1, <1>2

\* Steps of prec_save add up.
LEMMA MultipleArithmetic ==
    ASSUME NEW a \in Assets, NEW x \in Nat, NEW y \in Nat, Multiple(x, a), Multiple(y, a)
    PROVE  /\ Multiple(x + y, a)
           /\ y <= x => Multiple(x - y, a)
<1> DEFINE g == Grain(a)
<1>1. g \in Nat \ {0}
  BY GrainDivides
<1>2. PICK m \in Nat, n \in Nat : x = m * g /\ y = n * g
  BY DEF Multiple
<1> HIDE DEF g
<1>3. x + y = (m + n) * g
  BY <1>1, <1>2
<1>4. ASSUME y <= x
      PROVE  x - y = (m - n) * g /\ m - n \in Nat
  <2>1. n <= m
    BY <1>1, <1>2, <1>4
  <2> QED
    BY <1>1, <1>2, <2>1
<1> QED
  BY <1>2, <1>3, <1>4 DEF Multiple, g

\* What is at prec_save is not rounded, and rounding loses less than a grain.
LEMMA RescaleLoss ==
    ASSUME NEW a \in Assets, NEW x \in Nat
    PROVE  /\ Multiple(Rescale(a, x), a)
           /\ Rescale(a, x) \in Nat
           /\ x - Rescale(a, x) \in 0..(Grain(a) - 1)
           /\ Multiple(x, a) => Rescale(a, x) = x
<1> DEFINE g == Grain(a)
<1>1. g \in Nat \ {0}
  BY GrainDivides
<1>2. Rescale(a, x) = (x \div g) * g
  BY DEF Rescale
<1>3. ASSUME NEW n \in Nat, x = n * g
      PROVE  x \div g = n
  BY <1>1, <1>3, MultipleDiv
<1> HIDE DEF g
<1>4. x \div g \in Nat /\ (x \div g) * g \in Nat /\ (x \div g) * g <= x
  BY <1>1, DivFacts
<1>5. x < (x \div g) * g + g
  BY <1>1
<1>6. x - Rescale(a, x) \in 0..(g - 1)
  BY <1>1, <1>2, <1>4, <1>5
<1>7. Multiple(x, a) => Rescale(a, x) = x
  BY <1>2, <1>3 DEF Multiple, g
<1> QED
  BY <1>2, <1>4, <1>6, <1>7 DEF Multiple, g

\* Prices, amounts and what they are worth need no rounding.
LEMMA WorthMultiple ==
    ASSUME NEW a \in Assets, NEW n \in Nat
    PROVE  n * FeeOne \in Nat /\ Multiple(n * FeeOne, a)
<1>1. PICK k \in Nat : FeeOne = k * Grain(a)
  BY GrainDivides
<1>2. n * FeeOne = (n * k) * Grain(a) /\ n * k \in Nat /\ n * FeeOne \in Nat
  BY <1>1, GrainDivides, FeesAssumption
<1> QED
  BY <1>2 DEF Multiple

\* One party's side of a deal: the rows say what its balances show, but for the
\* part of its fee that is finer than prec_save.
LEMMA TradeLoss ==
    ASSUME NEW b \in [BalanceKeys -> Nat], InGrain(b),
           NEW h \in [Users \X Assets -> Int], NEW u \in Users, NEW t \in BalanceTypes,
           NEW side \in Sides, NEW price \in Nat, NEW amount \in Nat,
           NEW rate \in 0..(FeeOne - 1),
           b[<<u, t, Gives(side)>>] >= Value(Gives(side), price, amount) * FeeOne
    PROVE  LET r == Trade(b, u, t, side, price, amount, rate)
               rows == TradeHistory(h, u, side, price, amount, rate)
           IN  /\ r \in [BalanceKeys -> Nat] /\ InGrain(r)
               /\ rows \in [Users \X Assets -> Int]
               /\ \A v \in Users, a \in Assets :
                     Lost(rows, r, v, a) - Lost(h, b, v, a)
                        \in 0..(IF a = Gets(side) THEN Grain(a) - 1 ELSE 0)
<1> DEFINE give == Gives(side)
           gets == Gets(side)
           pay == <<u, t, give>>
           get == <<u, "AVAILABLE", gets>>
           v == Value(give, price, amount) * FeeOne
           w == Value(gets, price, amount) * FeeOne
           fee == Value(gets, price, amount) * rate
           net == Value(gets, price, amount) * (FeeOne - rate)
           paid == BalanceSub(b, u, t, give, v)
           got == BalanceAdd(paid, u, "AVAILABLE", gets, w)
           r == IF fee > 0 THEN BalanceSub(got, u, "AVAILABLE", gets, fee) ELSE got
           rows == TradeHistory(h, u, side, price, amount, rate)
<1>1. /\ give \in Assets /\ gets \in Assets /\ give # gets /\ pay \in BalanceKeys
      /\ get \in BalanceKeys /\ pay # get /\ "AVAILABLE" \in BalanceTypes
  BY SideAssets DEF BalanceKeys, BalanceTypes
<1>2. /\ v \in Nat /\ w \in Nat /\ fee \in Nat /\ fee <= w /\ net = w - fee
      /\ Multiple(v, give) /\ Multiple(w, gets)
  <2>1. Value(give, price, amount) \in Nat /\ Value(gets, price, amount) \in Nat
    BY <1>1, ValueType
  <2>2. Multiple(v, give) /\ Multiple(w, gets)
    BY <1>1, <2>1, WorthMultiple
  <2> DEFINE x == Value(gets, price, amount)
  <2>3. /\ x \in Nat /\ v \in Nat
    BY <2>1, FeesAssumption
  <2> HIDE DEF x, v
  <2>4. /\ x * FeeOne \in Nat /\ x * rate \in Nat /\ x * rate <= x * FeeOne
        /\ x * (FeeOne - rate) = x * FeeOne - x * rate
    BY <2>3, FeesAssumption, ProductMonotone
  <2> QED
    BY <2>2, <2>3, <2>4 DEF x
<1>3. rows = [h EXCEPT ![<<u, give>>] = @ - v, ![<<u, gets>>] = @ + net]
  BY DEF TradeHistory
<1>4. /\ b[pay] \in Nat /\ b[get] \in Nat /\ v <= b[pay]
      /\ Multiple(b[pay], give) /\ Multiple(b[get], gets)
  BY <1>1 DEF InGrain
<1> HIDE DEF v, w, fee, net, rows, give, gets, pay, get
<1>5. paid = [b EXCEPT ![pay] = b[pay] - v] /\ Multiple(b[pay] - v, give)
  <2>1. Multiple(b[pay] - v, give) /\ b[pay] - v \in Nat
    <3>1. v \in Nat /\ v <= b[pay] /\ Multiple(b[pay], give) /\ Multiple(v, give)
      BY <1>2, <1>4
    <3>2. b[pay] \in Nat /\ give \in Assets
      BY <1>1, <1>4
    <3>3. Multiple(b[pay] - v, give)
      BY <3>1, <3>2, MultipleArithmetic
    <3> QED
      BY <3>1, <3>2, <3>3
  <2>2. Rescale(give, b[pay] - v) = b[pay] - v
    BY <1>1, <2>1, RescaleLoss
  <2>3. ~(b[pay] < v)
    BY <1>2, <1>4
  <2> QED
    BY <2>1, <2>2, <2>3 DEF BalanceSub, pay
<1>6. got = [paid EXCEPT ![get] = b[get] + w] /\ Multiple(b[get] + w, gets)
  <2>1. paid[get] = b[get]
    BY <1>1, <1>5
  <2>2. Multiple(b[get] + w, gets) /\ b[get] + w \in Nat
    <3>1. w \in Nat /\ b[get] \in Nat /\ Multiple(b[get], gets) /\ Multiple(w, gets)
      BY <1>2, <1>4
    <3>2. gets \in Assets
      BY <1>1
    <3>3. Multiple(b[get] + w, gets)
      BY <3>1, <3>2, MultipleArithmetic
    <3> QED
      BY <3>1, <3>3
  <2>3. Rescale(gets, b[get] + w) = b[get] + w
    BY <1>1, <2>2, RescaleLoss
  <2> QED
    BY <2>1, <2>2, <2>3 DEF BalanceAdd, get
<1> HIDE DEF paid
<1>7. paid \in [BalanceKeys -> Nat] /\ got \in [BalanceKeys -> Nat]
  <2>1. b[pay] - v \in Nat /\ b[get] + w \in Nat
    BY <1>2, <1>4
  <2>2. paid \in [BalanceKeys -> Nat]
    BY <1>1, <1>5, <2>1
  <2> QED
    BY <1>1, <1>6, <2>1, <2>2
<1> HIDE DEF got
<1>8. \E kept \in Nat :
         /\ r = [got EXCEPT ![get] = kept]
         /\ Multiple(kept, gets)
         /\ b[get] + net - kept \in 0..(Grain(gets) - 1)
  <2>1. got[get] = b[get] + w
    BY <1>1, <1>6, <1>7
  <2>2. Grain(gets) \in Nat \ {0}
    BY <1>1, GrainDivides
  <2>3. CASE fee > 0
    <3> DEFINE left == b[get] + w - fee
    <3>1. left \in Nat /\ left = b[get] + net /\ ~(got[get] < fee) /\ left = got[get] - fee
      BY <1>2, <1>4, <2>1
    <3>2. r = [got EXCEPT ![get] = Rescale(gets, left)]
      <4>1. r = BalanceSub(got, u, "AVAILABLE", gets, fee)
        BY <2>3
      <4> QED
        BY <3>1, <4>1 DEF BalanceSub, get
    <3> HIDE DEF left
    <3>3. /\ Multiple(Rescale(gets, left), gets) /\ Rescale(gets, left) \in Nat
          /\ left - Rescale(gets, left) \in 0..(Grain(gets) - 1)
      BY <1>1, <3>1, RescaleLoss
    <3>4. b[get] + net - Rescale(gets, left) \in 0..(Grain(gets) - 1)
      <4>1. b[get] + net - Rescale(gets, left) = left - Rescale(gets, left)
        BY <1>2, <1>4, <3>1, <3>3
      <4> QED
        BY <3>3, <4>1
    <3> QED
      BY <3>2, <3>3, <3>4
  <2>4. CASE ~(fee > 0)
    <3>1. fee = 0 /\ net = w
      BY <1>2, <2>4
    <3>2. r = [got EXCEPT ![get] = b[get] + w]
      BY <1>1, <1>7, <2>1, <2>4
    <3>3. b[get] + w \in Nat /\ b[get] + net - (b[get] + w) \in 0..(Grain(gets) - 1)
      BY <1>2, <1>4, <2>2, <3>1
    <3> QED
      BY <1>6, <3>2, <3>3
  <2> QED
    BY <2>3, <2>4
<1>9. PICK kept \in Nat :
         /\ r = [got EXCEPT ![get] = kept]
         /\ Multiple(kept, gets)
         /\ b[get] + net - kept \in 0..(Grain(gets) - 1)
  BY <1>8
<1>10. r = Trade(b, u, t, side, price, amount, rate)
  BY DEF Trade, got, paid, fee, v, w, give, gets
<1> HIDE DEF r
<1>11. /\ r \in [BalanceKeys -> Nat]
       /\ r[pay] = b[pay] - v /\ r[get] = kept
       /\ \A k \in BalanceKeys : k # pay /\ k # get => r[k] = b[k]
  BY <1>1, <1>2, <1>4, <1>5, <1>6, <1>7, <1>9
<1>12. InGrain(r)
  BY <1>1, <1>5, <1>9, <1>11 DEF InGrain, pay, get
<1>13. rows \in [Users \X Assets -> Int]
  BY TradeHistoryType DEF rows
<1>14. ASSUME NEW x \in Users, NEW a \in Assets
       PROVE  Lost(rows, r, x, a) - Lost(h, b, x, a)
                 \in 0..(IF a = gets THEN Grain(a) - 1 ELSE 0)
  <2> USE DEF pay, get
  <2> DEFINE ka == <<x, "AVAILABLE", a>>
             kf == <<x, "FREEZE", a>>
  <2>1. /\ ka \in BalanceKeys /\ kf \in BalanceKeys /\ ka # kf
        /\ t = "AVAILABLE" \/ t = "FREEZE"
        /\ b[ka] \in Nat /\ b[kf] \in Nat /\ r[ka] \in Nat /\ r[kf] \in Nat
        /\ h[<<x, a>>] \in Int
        /\ Grain(a) \in Nat \ {0}
    BY <1>11, GrainDivides DEF BalanceKeys, BalanceTypes
  <2>2. CASE x = u /\ a = give
    <3>1. rows[<<x, a>>] = h[<<x, a>>] - v
      BY <1>1, <1>2, <1>3, <2>2
    <3>2. r[ka] + r[kf] = b[ka] + b[kf] - v
      BY <1>1, <1>2, <1>4, <1>11, <2>1, <2>2
    <3> QED
      BY <1>1, <1>2, <2>1, <2>2, <3>1, <3>2 DEF Lost
  <2>3. CASE x = u /\ a = gets
    <3>1. rows[<<x, a>>] = h[<<x, a>>] + net
      BY <1>1, <1>2, <1>3, <2>3
    <3>2. r[ka] = kept /\ r[kf] = b[kf] /\ ka = get
      BY <1>1, <1>11, <2>1, <2>3
    <3>3. net \in Int
      BY <1>2
    <3> QED
      BY <1>9, <2>1, <2>3, <3>1, <3>2, <3>3 DEF Lost
  <2>4. CASE ~(x = u /\ a = give) /\ ~(x = u /\ a = gets)
    <3>1. rows[<<x, a>>] = h[<<x, a>>]
      BY <1>1, <1>3, <2>4
    <3>2. r[ka] = b[ka] /\ r[kf] = b[kf]
      BY <1>11, <2>1, <2>4
    <3> QED
      BY <2>1, <3>1, <3>2 DEF Lost
  <2> QED
    BY <2>2, <2>3, <2>4
<1> QED
  BY <1>10, <1>11, <1>12, <1>13, <1>14 DEF rows, gets

\* Both parties of a deal have what it takes from them, whoever they are.
LEMMA DealPayable ==
    ASSUME Inv, NEW amount, NEW used, DealOK(amount, used)
    PROVE  LET maker == orders[iter]
               b1 == Trade(balance, taker.user_id, "AVAILABLE", taker.side, maker.price,
                           amount, taker.taker_fee)
           IN  /\ balance[<<taker.user_id, "AVAILABLE", Gives(taker.side)>>]
                     >= Value(Gives(taker.side), maker.price, amount) * FeeOne
               /\ b1[<<maker.user_id, "FREEZE", Gives(maker.side)>>]
                     >= Value(Gives(maker.side), maker.price, amount) * FeeOne
<1> DEFINE maker == orders[iter]
           gv == Value(Gives(taker.side), maker.price, amount)
           mv == Value(Gives(maker.side), maker.price, amount)
           tkey == <<taker.user_id, "AVAILABLE", Gives(taker.side)>>
           mkey == <<maker.user_id, "FREEZE", Gives(maker.side)>>
           b1 == Trade(balance, taker.user_id, "AVAILABLE", taker.side, maker.price,
                       amount, taker.taker_fee)
           b == DealtBalance(amount)
           t == [taker EXCEPT !.left = @ - used]
<1>1. /\ ~Idle /\ iter # 0 /\ taker \in Order /\ maker \in Order
      /\ amount \in Nat /\ used \in 0..taker.left
  BY MakerFacts DEF DealOK, Order
<1>2. /\ maker.price \in Nat /\ taker.user_id \in Users /\ maker.user_id \in Users
      /\ taker.side \in Sides /\ maker.side \in Sides /\ taker.left \in Nat
      /\ taker.taker_fee \in 0..(FeeOne - 1)
  BY <1>1 DEF Order
<1>3. /\ t \in Order /\ t.type = taker.type /\ t.side = taker.side /\ t.price = taker.price
      /\ t.left = taker.left - used
  BY <1>1, <1>2 DEF Order
<1> HIDE DEF t
<1>4. /\ Owed(taker) \in Nat /\ Owed(t) \in Nat /\ gv \in Nat /\ Owed(t) + gv <= Owed(taker)
  BY <1>3, OwedCovers
<1>5. /\ tkey \in BalanceKeys /\ mkey \in BalanceKeys /\ mv \in Nat
      /\ balance \in [BalanceKeys -> Nat]
  BY <1>1, <1>2, SideAssets, ValueType DEF BalanceKeys, BalanceTypes, Inv, TypeOK
<1>6. balance[tkey] >= gv * FeeOne
  <2>1. balance[tkey] >= Owed(taker) * FeeOne
    BY <1>1 DEF Inv, TakerFunded
  <2>2. gv <= Owed(taker) /\ balance[tkey] \in Nat
    BY <1>4, <1>5
  <2> HIDE DEF gv, tkey
  <2>3. gv * FeeOne <= Owed(taker) * FeeOne /\ gv * FeeOne \in Nat /\ Owed(taker) * FeeOne \in Nat
    BY <1>4, <2>2, FeesAssumption
  <2> QED
    BY <2>1, <2>2, <2>3
<1>7. balance[mkey] >= mv * FeeOne
  <2>1. b \in [BalanceKeys -> Nat] /\ b[mkey] = balance[mkey] - mv * FeeOne
    <3>1. LET d == DealtBalance(amount)
          IN  /\ d \in [BalanceKeys -> Nat]
              /\ \A u \in Users, a \in Assets :
                    d[<<u, "FREEZE", a>>] = balance[<<u, "FREEZE", a>>]
                       - (IF Owner(maker, u, a)
                          THEN Value(Gives(maker.side), maker.price, amount) * FeeOne ELSE 0)
      BY <1>3, DealBalances
    <3>2. Owner(maker, maker.user_id, Gives(maker.side)) /\ Gives(maker.side) \in Assets
      BY <1>2, SideAssets DEF Owner
    <3> HIDE DEF maker
    <3> QED
      BY <1>2, <3>1, <3>2
  <2>2. mv * FeeOne \in Nat
    BY <1>5, FeesAssumption
  <2> HIDE DEF b, mv, mkey
  <2> QED
    BY <1>5, <2>1, <2>2
<1>8. b1[mkey] = balance[mkey]
  <2>1. /\ "AVAILABLE" \in BalanceTypes
        /\ balance[<<taker.user_id, "AVAILABLE", Gives(taker.side)>>]
              >= Value(Gives(taker.side), maker.price, amount) * FeeOne
    BY <1>6 DEF BalanceTypes
  <2> HIDE DEF maker
  <2>2. /\ b1 \in [BalanceKeys -> Nat]
        /\ \A k \in BalanceKeys :
              /\ k # <<taker.user_id, "AVAILABLE", Gives(taker.side)>>
              /\ k # <<taker.user_id, "AVAILABLE", Gets(taker.side)>>
              => b1[k] = balance[k]
        /\ b1[<<taker.user_id, "AVAILABLE", Gives(taker.side)>>]
              = Rescale(Gives(taker.side), balance[<<taker.user_id, "AVAILABLE", Gives(taker.side)>>]
                    - Value(Gives(taker.side), maker.price, amount) * FeeOne)
        /\ \A n \in Nat : balance[<<taker.user_id, "AVAILABLE", Gets(taker.side)>>] >= n * FeeOne
              => b1[<<taker.user_id, "AVAILABLE", Gets(taker.side)>>] >= n * FeeOne
    <3>1. /\ amount \in Nat /\ maker.price \in Nat /\ taker.user_id \in Users
          /\ taker.side \in Sides /\ taker.taker_fee \in 0..(FeeOne - 1)
          /\ balance \in [BalanceKeys -> Nat]
      BY <1>1, <1>2, <1>5
    <3> QED
      BY <2>1, <3>1, TradeEffect
  <2> HIDE DEF b1
  <2> QED
    BY <1>5, <2>2
<1> QED
  BY <1>6, <1>7, <1>8

\* Balances are whole numbers of grains, and their rows explain them.
HistoryInv == InGrain(balance) /\ BalanceHistoryExplains

\* A deal loses less than a grain of each asset, in the fee of its receiver.
LEMMA DealHistory ==
    ASSUME Inv, HistoryInv, NEW amount, NEW used, DealOK(amount, used), Deal(amount, used)
    PROVE  HistoryInv'
<1> DEFINE maker == orders[iter]
           b1 == Trade(balance, taker.user_id, "AVAILABLE", taker.side, maker.price,
                       amount, taker.taker_fee)
           h1 == TradeHistory(balance_history, taker.user_id, taker.side, maker.price,
                              amount, taker.taker_fee)
           b2 == Trade(b1, maker.user_id, "FREEZE", maker.side, maker.price, amount,
                       maker.maker_fee)
           h2 == TradeHistory(h1, maker.user_id, maker.side, maker.price, amount,
                              maker.maker_fee)
<1>1. /\ ~Idle /\ iter # 0 /\ taker \in Order /\ maker \in Order /\ amount \in Nat
      /\ Gets(maker.side) = Gives(taker.side)
  BY MakerFacts DEF DealOK, Order
<1>2. /\ maker.price \in Nat /\ taker.user_id \in Users /\ maker.user_id \in Users
      /\ taker.side \in Sides /\ maker.side \in Sides
      /\ taker.taker_fee \in 0..(FeeOne - 1) /\ maker.maker_fee \in 0..(FeeOne - 1)
      /\ "AVAILABLE" \in BalanceTypes /\ "FREEZE" \in BalanceTypes
  BY <1>1 DEF Order, BalanceTypes
<1>3. /\ balance[<<taker.user_id, "AVAILABLE", Gives(taker.side)>>]
            >= Value(Gives(taker.side), maker.price, amount) * FeeOne
      /\ b1[<<maker.user_id, "FREEZE", Gives(maker.side)>>]
            >= Value(Gives(maker.side), maker.price, amount) * FeeOne
  BY DealPayable
<1>4. /\ balance' = b2 /\ balance_history' = h2 /\ deals_id_start' = deals_id_start + 1
  BY DealDict DEF Deal, DealtBalance
<1>5. /\ balance \in [BalanceKeys -> Nat] /\ balance_history \in [Users \X Assets -> Int]
      /\ InGrain(balance) /\ deals_id_start \in Nat
  BY DEF Inv, TypeOK, HistoryInv
<1> HIDE DEF maker
<1>6. /\ b1 \in [BalanceKeys -> Nat] /\ InGrain(b1) /\ h1 \in [Users \X Assets -> Int]
      /\ \A v \in Users, a \in Assets :
            Lost(h1, b1, v, a) - Lost(balance_history, balance, v, a)
               \in 0..(IF a = Gets(taker.side) THEN Grain(a) - 1 ELSE 0)
  BY <1>1, <1>2, <1>3, <1>5, TradeLoss
<1> HIDE DEF b1, h1
<1>7. /\ b2 \in [BalanceKeys -> Nat] /\ InGrain(b2) /\ h2 \in [Users \X Assets -> Int]
      /\ \A v \in Users, a \in Assets :
            Lost(h2, b2, v, a) - Lost(h1, b1, v, a)
               \in 0..(IF a = Gets(maker.side) THEN Grain(a) - 1 ELSE 0)
  BY <1>1, <1>2, <1>3, <1>6, TradeLoss
<1> HIDE DEF b2, h2
<1>8. ASSUME NEW v \in Users, NEW a \in Assets
      PROVE  /\ Lost(h2, b2, v, a) >= 0
             /\ Lost(h2, b2, v, a) <= (deals_id_start + 1) * (Grain(a) - 1)
  <2> DEFINE g == Grain(a) - 1
             l0 == Lost(balance_history, balance, v, a)
             l1 == Lost(h1, b1, v, a)
             l2 == Lost(h2, b2, v, a)
  <2>1. <<v, "AVAILABLE", a>> \in BalanceKeys /\ <<v, "FREEZE", a>> \in BalanceKeys
    BY DEF BalanceKeys, BalanceTypes
  <2>2. g \in Nat /\ l0 \in Int /\ l1 \in Int /\ l2 \in Int
    BY <1>5, <1>6, <1>7, <2>1, GrainDivides DEF Lost
  <2>3. l0 >= 0 /\ l0 <= deals_id_start * g
    BY DEF HistoryInv, BalanceHistoryExplains, TotalOf, Lost
  <2>4. /\ l1 - l0 \in 0..(IF a = Gets(taker.side) THEN g ELSE 0)
        /\ l2 - l1 \in 0..(IF a = Gets(maker.side) THEN g ELSE 0)
    BY <1>6, <1>7
  <2>5. ~(a = Gets(taker.side) /\ a = Gets(maker.side))
    BY <1>1, <1>2, SideAssets
  <2> HIDE DEF g, l0, l1, l2
  <2>6. l2 >= l0 /\ l2 <= l0 + g
    BY <2>2, <2>4, <2>5
  <2>7. (deals_id_start + 1) * g = deals_id_start * g + g /\ deals_id_start * g \in Nat
    BY <1>5, <2>2
  <2> QED
    BY <2>2, <2>3, <2>6, <2>7 DEF g, l2
<1> QED
  BY <1>4, <1>7, <1>8 DEF HistoryInv, BalanceHistoryExplains, TotalOf, Lost

\* Moving a held amount between the two balances of a user changes no sum.
LEMMA MoveTotal ==
    ASSUME NEW b \in [BalanceKeys -> Nat], InGrain(b), NEW u \in Users, NEW a \in Assets,
           NEW n \in Nat, NEW s \in BalanceTypes, NEW t \in BalanceTypes, s # t,
           b[<<u, s, a>>] >= n * FeeOne
    PROVE  LET r == BalanceSub(BalanceAdd(b, u, t, a, n * FeeOne), u, s, a, n * FeeOne)
           IN  /\ InGrain(r)
               /\ \A h : \A v \in Users, d \in Assets : Lost(h, r, v, d) = Lost(h, b, v, d)
<1> DEFINE from == <<u, s, a>>
           to == <<u, t, a>>
           x == n * FeeOne
           b1 == BalanceAdd(b, u, t, a, x)
           r == BalanceSub(b1, u, s, a, x)
<1>1. from \in BalanceKeys /\ to \in BalanceKeys /\ from # to /\ b[from] \in Nat /\ b[to] \in Nat
  BY DEF BalanceKeys
<1>2. x \in Nat /\ Multiple(x, a) /\ x <= b[from]
  BY WorthMultiple
<1>3. Multiple(b[from], a) /\ Multiple(b[to], a)
  BY <1>1 DEF InGrain
<1> HIDE DEF x
<1>4. /\ b[to] + x \in Nat /\ b[from] - x \in Nat
      /\ Multiple(b[to] + x, a) /\ Multiple(b[from] - x, a)
  <2> DEFINE p == b[from]
             q == b[to]
  <2>1. p \in Nat /\ q \in Nat /\ x <= p /\ Multiple(p, a) /\ Multiple(q, a)
    BY <1>1, <1>2, <1>3
  <2> HIDE DEF p, q
  <2>2. Multiple(q + x, a)
    BY <1>2, <2>1, MultipleArithmetic
  <2>3. Multiple(p - x, a)
    BY <1>2, <2>1, MultipleArithmetic
  <2> QED
    BY <1>2, <2>1, <2>2, <2>3 DEF p, q
<1>5. b1 = [b EXCEPT ![to] = b[to] + x]
  <2>1. Rescale(a, b[to] + x) = b[to] + x
    BY <1>4, RescaleLoss
  <2> QED
    BY <2>1 DEF BalanceAdd
<1>6. r = [b1 EXCEPT ![from] = b[from] - x]
  <2>1. Rescale(a, b[from] - x) = b[from] - x
    BY <1>4, RescaleLoss
  <2>2. b1[from] = b[from] /\ ~(b1[from] < x)
    BY <1>1, <1>2, <1>5
  <2> QED
    BY <2>1, <2>2 DEF BalanceSub
<1> HIDE DEF b1, r
<1>7. /\ r[from] = b[from] - x /\ r[to] = b[to] + x
      /\ \A k \in BalanceKeys : k # from /\ k # to => r[k] = b[k]
  BY <1>1, <1>4, <1>5, <1>6
<1>8. InGrain(r)
  BY <1>4, <1>7 DEF InGrain
<1>9. ASSUME NEW h, NEW v \in Users, NEW d \in Assets
      PROVE  Lost(h, r, v, d) = Lost(h, b, v, d)
  <2> DEFINE ka == <<v, "AVAILABLE", d>>
             kf == <<v, "FREEZE", d>>
  <2>1. /\ ka \in BalanceKeys /\ kf \in BalanceKeys /\ b[ka] \in Nat /\ b[kf] \in Nat
    BY DEF BalanceKeys, BalanceTypes
  <2>2. r[ka] + r[kf] = b[ka] + b[kf]
    <3>1. CASE v = u /\ d = a
      <4>1. (ka = from /\ kf = to) \/ (ka = to /\ kf = from)
        BY <3>1 DEF BalanceTypes
      <4> QED
        BY <1>1, <1>2, <1>7, <4>1
    <3>2. CASE ~(v = u /\ d = a)
      BY <1>7, <2>1, <3>2
    <3> QED
      BY <3>1, <3>2
  <2> QED
    BY <2>2 DEF Lost
<1> QED
  BY <1>8, <1>9 DEF r, b1, x

\* A balance and a row that change by the same whole number of grains agree as
\* before (update_user_balance).
LEMMA UpdateHistory ==
    ASSUME Inv, HistoryInv, NEW u \in Users, NEW a \in Assets, NEW change \in Int,
           \E n \in Int : change = n * Grain(a), UpdateUserBalance(u, a, change)
    PROVE  HistoryInv'
<1> DEFINE key == <<u, "AVAILABLE", a>>
<1>1. /\ balance \in [BalanceKeys -> Nat] /\ key \in BalanceKeys /\ balance[key] \in Nat
      /\ balance_history \in [Users \X Assets -> Int] /\ deals_id_start' = deals_id_start
      /\ balance_history' = [balance_history EXCEPT ![<<u, a>>] = @ + change]
      /\ Multiple(balance[key], a)
  BY DEF Inv, TypeOK, HistoryInv, InGrain, BalanceKeys, BalanceTypes, UpdateUserBalance
<1>2. Grain(a) \in Nat \ {0}
  BY GrainDivides
<1>3. balance[key] + change \in Nat
  BY <1>1 DEF UpdateUserBalance
<1>4. Multiple(balance[key] + change, a)
  <2>1. PICK m \in Nat, n \in Int : balance[key] = m * Grain(a) /\ change = n * Grain(a)
    BY <1>1 DEF Multiple
  <2> DEFINE g == Grain(a)
  <2>2. g \in Nat \ {0} /\ m * g + n * g \in Nat
    BY <1>2, <1>3, <2>1
  <2> HIDE DEF g
  <2>3. m * g + n * g = (m + n) * g
    BY <2>1, <2>2
  <2>4. m + n \in Nat
    BY <2>2, <2>3
  <2> QED
    BY <2>1, <2>3, <2>4 DEF g, Multiple
<1>5. balance' = [balance EXCEPT ![key] = balance[key] + change]
  <2>1. Rescale(a, balance[key] + change) = balance[key] + change
    BY <1>3, <1>4, RescaleLoss
  <2>2. CASE change >= 0
    BY <2>1, <2>2 DEF UpdateUserBalance, BalanceAdd
  <2>3. CASE change < 0
    <3>1. ~(balance[key] < -change) /\ balance[key] - (-change) = balance[key] + change
      BY <1>1, <1>3, <2>3
    <3>2. balance' = BalanceSub(balance, u, "AVAILABLE", a, -change)
      BY <2>3 DEF UpdateUserBalance
    <3> QED
      BY <2>1, <3>1, <3>2 DEF BalanceSub
  <2> QED
    BY <2>2, <2>3
<1>6. InGrain(balance')
  BY <1>1, <1>4, <1>5 DEF InGrain, HistoryInv
<1>7. ASSUME NEW v \in Users, NEW d \in Assets
      PROVE  Lost(balance_history', balance', v, d) = Lost(balance_history, balance, v, d)
  <2> DEFINE ka == <<v, "AVAILABLE", d>>
             kf == <<v, "FREEZE", d>>
  <2>1. /\ ka \in BalanceKeys /\ kf \in BalanceKeys /\ kf # key
        /\ balance[ka] \in Nat /\ balance[kf] \in Nat /\ balance_history[<<v, d>>] \in Int
    BY <1>1 DEF BalanceKeys, BalanceTypes
  <2>2. CASE v = u /\ d = a
    BY <1>1, <1>5, <2>1, <2>2 DEF Lost
  <2>3. CASE ~(v = u /\ d = a)
    BY <1>1, <1>5, <2>1, <2>3 DEF Lost
  <2> QED
    BY <2>2, <2>3
<1> QED
  BY <1>1, <1>6, <1>7 DEF HistoryInv, BalanceHistoryExplains, TotalOf, Lost

\* A step that moves no balance and appends no row
LEMMA SameHistory ==
    ASSUME HistoryInv, InGrain(balance'), deals_id_start' = deals_id_start,
           \A v \in Users, d \in Assets :
              Lost(balance_history', balance', v, d) = Lost(balance_history, balance, v, d)
    PROVE  HistoryInv'
BY DEF HistoryInv, BalanceHistoryExplains, TotalOf, Lost

\* A step moves value at most between the two balances of a user.
TotalsKept ==
    /\ InGrain(balance')
    /\ \A h : \A v \in Users, d \in Assets : Lost(h, balance', v, d) = Lost(h, balance, v, d)

\* balance_unfreeze in order_finish of a cancelled order.
LEMMA CancelMoves ==
    ASSUME Inv, HistoryInv, NEW i \in OpenOrders, CancelOrder(i)
    PROVE  TotalsKept
<1> DEFINE o == orders[i]
           give == Gives(o.side)
<1>1. /\ o.user_id \in Users /\ give \in Assets /\ o.freeze \in Nat
  BY SideAssets DEF Inv, TypeOK, OpenOrders, Order
<1>2. \/ balance' = balance
      \/ /\ CanUnfreeze(balance, o.user_id, give, o.freeze * FeeOne)
         /\ balance' = BalanceSub(BalanceAdd(balance, o.user_id, "AVAILABLE", give,
                          o.freeze * FeeOne), o.user_id, "FREEZE", give, o.freeze * FeeOne)
  BY DEF CancelOrder, OrderFinish, BalanceUnfreeze
<1>3. balance \in [BalanceKeys -> Nat] /\ InGrain(balance)
  BY DEF Inv, TypeOK, HistoryInv
<1> HIDE DEF o, give
<1>4. CASE balance' = balance
  BY <1>3, <1>4 DEF TotalsKept
<1>5. CASE CanUnfreeze(balance, o.user_id, give, o.freeze * FeeOne)
           /\ balance' = BalanceSub(BalanceAdd(balance, o.user_id, "AVAILABLE", give,
                            o.freeze * FeeOne), o.user_id, "FREEZE", give, o.freeze * FeeOne)
  <2>1. balance[<<o.user_id, "FREEZE", give>>] >= o.freeze * FeeOne
    BY <1>5 DEF CanUnfreeze
  <2>2. "FREEZE" \in BalanceTypes /\ "AVAILABLE" \in BalanceTypes /\ "FREEZE" # "AVAILABLE"
    BY DEF BalanceTypes
  <2>3. /\ InGrain(balance')
        /\ \A h : \A v \in Users, d \in Assets : Lost(h, balance', v, d) = Lost(h, balance, v, d)
    BY <1>1, <1>3, <1>5, <2>1, <2>2, MoveTotal
  <2> QED
    BY <2>3 DEF TotalsKept
<1> QED
  BY <1>2, <1>4, <1>5

\* balance_freeze in order_put.
LEMMA PlaceMoves ==
    ASSUME Inv, HistoryInv, PlaceLimitOrder
    PROVE  TotalsKept
<1> DEFINE u == taker.user_id
           give == Gives(taker.side)
           need == Value(give, taker.price, taker.left)
<1>1. /\ u \in Users /\ give \in Assets /\ need \in Nat
  <2>1. taker \in Order
    BY DEF PlaceLimitOrder, Inv, TypeOK
  <2>2. /\ u \in Users /\ taker.side \in Sides /\ taker.price \in Nat /\ taker.left \in Nat
    BY <2>1 DEF Order
  <2> QED
    BY <2>2, SideAssets, ValueType
<1>2. \/ balance' = balance
      \/ /\ CanFreeze(balance, u, give, need * FeeOne)
         /\ balance' = BalanceSub(BalanceAdd(balance, u, "FREEZE", give, need * FeeOne),
                                  u, "AVAILABLE", give, need * FeeOne)
  BY DEF PlaceLimitOrder, OrderPut, BalanceFreeze
<1>3. balance \in [BalanceKeys -> Nat] /\ InGrain(balance)
  BY DEF Inv, TypeOK, HistoryInv
<1> HIDE DEF u, give, need
<1>4. CASE balance' = balance
  BY <1>3, <1>4 DEF TotalsKept
<1>5. CASE CanFreeze(balance, u, give, need * FeeOne)
           /\ balance' = BalanceSub(BalanceAdd(balance, u, "FREEZE", give, need * FeeOne),
                                    u, "AVAILABLE", give, need * FeeOne)
  <2>1. balance[<<u, "AVAILABLE", give>>] >= need * FeeOne
    BY <1>5 DEF CanFreeze
  <2>2. "FREEZE" \in BalanceTypes /\ "AVAILABLE" \in BalanceTypes /\ "FREEZE" # "AVAILABLE"
    BY DEF BalanceTypes
  <2>3. /\ InGrain(balance')
        /\ \A h : \A v \in Users, d \in Assets : Lost(h, balance', v, d) = Lost(h, balance, v, d)
    BY <1>1, <1>3, <1>5, <2>1, <2>2, MoveTotal
  <2> QED
    BY <2>3 DEF TotalsKept
<1> QED
  BY <1>2, <1>4, <1>5

\* Every step keeps the balances explained.
LEMMA HistoryStep ==
    ASSUME Inv, HistoryInv, [Next]_vars
    PROVE  HistoryInv'
<1>1. CASE \/ ExecuteLimitAskOrder \/ ExecuteLimitBidOrder
           \/ ExecuteMarketAskOrder \/ ExecuteMarketBidOrder
  <2>1. PICK amount \in Nat \ {0}, used \in Nat :
           DealOK(amount, used) /\ Deal(amount, used)
    BY <1>1, IterationDeals
  <2> QED
    BY <2>1, DealHistory
<1>2. CASE UNCHANGED <<balance, deals_id_start, balance_history>>
  BY <1>2 DEF HistoryInv, BalanceHistoryExplains, TotalOf, InGrain
<1>3. CASE FinishLimitOrder \/ FinishMarketOrder
  BY <1>2, <1>3 DEF FinishLimitOrder, FinishMarketOrder
<1>4. CASE PlaceLimitOrder
  <2>1. UNCHANGED <<deals_id_start, balance_history>>
    BY <1>4 DEF PlaceLimitOrder
  <2>2. TotalsKept
    BY <1>4, PlaceMoves
  <2> QED
    BY <2>1, <2>2, SameHistory DEF TotalsKept
<1>5. ASSUME NEW u \in Users, NEW side \in Sides, NEW amount \in Amounts, NEW fees \in Fees,
             \/ \E price \in Prices : PutLimitOrder(u, side, amount, price, fees)
             \/ PutMarketOrder(u, side, amount, fees)
      PROVE  HistoryInv'
  BY <1>2, <1>5 DEF PutLimitOrder, PutMarketOrder, StartExecution, records
<1>6. ASSUME NEW i \in OpenOrders, CancelOrder(i)
      PROVE  HistoryInv'
  <2>1. UNCHANGED <<deals_id_start, balance_history>>
    BY <1>6 DEF CancelOrder
  <2>2. TotalsKept
    BY <1>6, CancelMoves
  <2> QED
    BY <2>1, <2>2, SameHistory DEF TotalsKept
<1>7. ASSUME NEW u \in Users, NEW c \in Changes, UpdateUserBalance(u, c[1], c[2])
      PROVE  HistoryInv'
  <2>1. /\ c[1] \in Assets /\ c[2] \in Int
        /\ c[1] = "money" => c[2] % MoneyGrain = 0
    BY ChangesAssumption
  <2>2. \E n \in Int : c[2] = n * Grain(c[1])
    <3>1. CASE c[1] = "stock"
      <4>1. Grain(c[1]) = 1 /\ c[2] = c[2] * 1
        BY <2>1, <3>1 DEF Grain
      <4> QED
        BY <2>1, <4>1
    <3>2. CASE c[1] = "money"
      <4>1. Grain(c[1]) = MoneyGrain /\ MoneyGrain \in Nat \ {0} /\ c[2] % MoneyGrain = 0
        BY <2>1, <3>2, GrainAssumption DEF Grain
      <4>2. \E n \in Int : c[2] = n * MoneyGrain
        BY <2>1, <4>1, DivisionExact
      <4> QED
        BY <4>1, <4>2
    <3> QED
      BY <2>1, <3>1, <3>2 DEF Assets
  <2> QED
    BY <1>7, <2>1, <2>2, UpdateHistory
<1>8. CASE UNCHANGED vars
  BY <1>2, <1>8 DEF vars, records
<1> QED
  BY <1>1, <1>3, <1>4, <1>5, <1>6, <1>7, <1>8 DEF Next, Execute, Request

\* The engine starts with balances at prec_save and with their rows.
LEMMA InitHistory == Init => HistoryInv
<1> SUFFICES ASSUME Init
             PROVE  HistoryInv
  OBVIOUS
<1>1. /\ balance = InitBalance /\ deals_id_start = 0
      /\ balance_history = [k \in Users \X Assets |-> InitBalance[<<k[1], "AVAILABLE", k[2]>>]]
  BY DEF Init
<1>2. ASSUME NEW k \in BalanceKeys
      PROVE  Multiple(InitBalance[k], k[3])
  <2>1. InitBalance[k] \in Nat /\ k[3] \in {"stock", "money"}
    BY InitBalanceAssumption DEF BalanceKeys, Assets
  <2>2. CASE k[3] = "stock"
    <3>1. Grain(k[3]) = 1 /\ InitBalance[k] = InitBalance[k] * 1
      BY <2>1, <2>2 DEF Grain
    <3> QED
      BY <2>1, <3>1 DEF Multiple
  <2>3. CASE k[3] = "money"
    <3> DEFINE x == InitBalance[k]
    <3>1. MoneyGrain \in Nat \ {0} /\ x % MoneyGrain = 0 /\ x \in Int /\ x >= 0
      BY <2>1, <2>3, GrainAssumption, InitBalanceAssumption
    <3> HIDE DEF x
    <3>2. \E n \in Nat : x = n * MoneyGrain
      BY <3>1, DivisionExact
    <3>3. Grain(k[3]) = MoneyGrain
      BY <2>3 DEF Grain
    <3> QED
      BY <3>2, <3>3 DEF Multiple, x
  <2> QED
    BY <2>1, <2>2, <2>3
<1>3. ASSUME NEW u \in Users, NEW a \in Assets
      PROVE  Lost(balance_history, balance, u, a) = 0
  <2>1. /\ <<u, "AVAILABLE", a>> \in BalanceKeys
        /\ InitBalance[<<u, "AVAILABLE", a>>] \in Nat
        /\ InitBalance[<<u, "FREEZE", a>>] = 0
    BY InitBalanceAssumption DEF BalanceKeys, BalanceTypes
  <2>2. balance_history[<<u, a>>] = InitBalance[<<u, "AVAILABLE", a>>]
    BY <1>1
  <2> QED
    BY <1>1, <2>1, <2>2 DEF Lost
<1>4. \A a \in Assets : deals_id_start * (Grain(a) - 1) = 0
  <2> SUFFICES ASSUME NEW a \in Assets
               PROVE  deals_id_start * (Grain(a) - 1) = 0
    OBVIOUS
  <2>1. Grain(a) \in Nat
    BY GrainDivides
  <2> QED
    BY <1>1, <2>1
<1> QED
  <2>1. InGrain(balance)
    BY <1>1, <1>2 DEF InGrain
  <2>2. BalanceHistoryExplains
    <3> SUFFICES ASSUME NEW u \in Users, NEW a \in Assets
                 PROVE  /\ Lost(balance_history, balance, u, a) >= 0
                        /\ Lost(balance_history, balance, u, a)
                              <= deals_id_start * (Grain(a) - 1)
      BY DEF BalanceHistoryExplains, TotalOf, Lost
    <3> QED
      BY <1>3, <1>4
  <2> QED
    BY <2>1, <2>2 DEF HistoryInv

\* Balances stay at prec_save and explained.
LEMMA HistoryHolds == Spec => []HistoryInv
<1>1. Inv /\ HistoryInv /\ [Next]_vars => HistoryInv'
  BY HistoryStep
<1> QED
  BY InitHistory, <1>1, Invariance, PTL DEF Spec

\* The rows of append_user_balance explain every balance: what balance_add and
\* balance_sub made of them differs only by fees finer than prec_save(money),
\* rounded against the user, by less than a grain a deal.
THEOREM HistoryExplainsBalances == Spec => []BalanceHistoryExplains
<1>1. HistoryInv => BalanceHistoryExplains
  BY DEF HistoryInv
<1> QED
  BY <1>1, HistoryHolds, PTL

-----------------------------------------------------------------------------
(* Sums over finite sets *)

\* A sum of w as a function of the set that is summed over, which takes its elements one by one.
Any(s) == CHOOSE x \in s : TRUE
Counted(f, w, s) == IF s = {} THEN 0 ELSE w[Any(s)] + f[s \ {Any(s)}]
SumLoop(f, w, S) == f = [s \in SUBSET S |-> Counted(f, w, s)]

SumOf(w, S) == SumFunctionOnSet(w, S)

\* A set that has 0 and the successor of each of its numbers has them all.
LEMMA SetInduction ==
    ASSUME NEW S, 0 \in S, \A n \in Nat : n \in S => n + 1 \in S
    PROVE  Nat \subseteq S
<1> DEFINE T == Nat \ S
<1> SUFFICES ASSUME T # {} PROVE FALSE
  OBVIOUS
<1>1. PICK n \in T : \A m \in T : ~(<<m, n>> \in OpToRel(<, Nat))
  <2>1. T \subseteq Nat
    OBVIOUS
  <2> HIDE DEF T
  <2> QED
    BY <2>1, NatLessThanWellFounded, WFMin
<1>2. n \in Nat /\ n # 0
  BY <1>1
<1>3. n - 1 \in Nat /\ (n - 1) + 1 = n
  BY <1>2
<1>4. n - 1 \in T
  BY <1>1, <1>3
<1>5. <<n - 1, n>> \in OpToRel(<, Nat)
  BY <1>2, <1>3 DEF OpToRel
<1> QED
  BY <1>1, <1>4, <1>5

\* Without one of its elements a set is smaller by one.
LEMMA OneLess ==
    ASSUME NEW S, IsFiniteSet(S), NEW s \in SUBSET S, NEW x \in s
    PROVE  /\ s \ {x} \in SUBSET S
           /\ Cardinality(s) \in Nat /\ Cardinality(s \ {x}) \in Nat
           /\ Cardinality(s \ {x}) + 1 = Cardinality(s)
<1>1. IsFiniteSet(s)
  BY FS_Subset
<1>2. /\ IsFiniteSet(s \ {x}) /\ Cardinality(s) \in Nat
      /\ Cardinality(s \ {x}) = Cardinality(s) - 1
  BY <1>1, FS_RemoveElement, FS_CardinalityType
<1>3. Cardinality(s \ {x}) \in Nat
  BY <1>2, FS_CardinalityType
<1> QED
  BY <1>2, <1>3

\* A family of sets that has {}, and a set if it has what is left without some element of it, has
\* every finite set.
LEMMA FiniteInduction ==
    ASSUME NEW S, IsFiniteSet(S), NEW F, {} \in F,
           \A s \in SUBSET S : s # {} /\ (\A x \in s : s \ {x} \in F) => s \in F
    PROVE  \A s \in SUBSET S : s \in F
<1> DEFINE T == {n \in Nat : \A s \in SUBSET S : Cardinality(s) = n => s \in F}
<1>1. 0 \in T
  <2>1. \A s \in SUBSET S : Cardinality(s) = 0 => s = {}
    BY FS_Subset, FS_EmptySet
  <2> QED
    BY <2>1
<1>2. ASSUME NEW n \in Nat, n \in T PROVE n + 1 \in T
  <2> SUFFICES ASSUME NEW s \in SUBSET S, Cardinality(s) = n + 1 PROVE s \in F
    OBVIOUS
  <2>1. ASSUME NEW x \in s PROVE s \ {x} \in F
    <3>1. /\ s \ {x} \in SUBSET S /\ Cardinality(s \ {x}) \in Nat
          /\ Cardinality(s \ {x}) + 1 = Cardinality(s)
      BY OneLess
    <3>2. Cardinality(s \ {x}) = n
      BY <3>1
    <3> QED
      BY <1>2, <3>1, <3>2
  <2>2. s # {}
    <3>1. Cardinality({}) = 0 /\ n + 1 # 0
      BY FS_EmptySet
    <3> QED
      BY <3>1
  <2> QED
    BY <2>1, <2>2
<1>3. Nat \subseteq T
  <2> HIDE DEF T
  <2> QED
    BY <1>1, <1>2, SetInduction
<1> SUFFICES ASSUME NEW s \in SUBSET S PROVE s \in F
  OBVIOUS
<1>4. Cardinality(s) \in Nat
  BY FS_Subset, FS_CardinalityType
<1> QED
  BY <1>3, <1>4

\* The loop has a value for every finite set.
LEMMA SumLoopRuns ==
    ASSUME NEW S, IsFiniteSet(S), NEW w
    PROVE  \E f : SumLoop(f, w, S)
<1> DEFINE D(n) == {s \in SUBSET S : Cardinality(s) <= n}
           Partial(f, n) == f = [s \in D(n) |-> Counted(f, w, s)]
           T == {n \in Nat : \E f : Partial(f, n)}
<1>0. ASSUME NEW s \in SUBSET S, s # {}
      PROVE  /\ s \ {Any(s)} \in SUBSET S /\ Cardinality(s) \in Nat /\ Cardinality(s \ {Any(s)}) \in Nat
             /\ Cardinality(s \ {Any(s)}) + 1 = Cardinality(s)
  <2>1. Any(s) \in s
    BY <1>0 DEF Any
  <2> QED
    BY <2>1, OneLess
<1>1. 0 \in T
  <2>1. \A s \in D(0) : s = {}
    <3> SUFFICES ASSUME NEW s \in SUBSET S, Cardinality(s) <= 0, s # {} PROVE FALSE
      OBVIOUS
    <3>1. /\ Cardinality(s) \in Nat /\ Cardinality(s \ {Any(s)}) \in Nat
          /\ Cardinality(s \ {Any(s)}) + 1 = Cardinality(s)
      BY <1>0
    <3> QED
      BY <3>1
  <2> DEFINE f == [s \in D(0) |-> 0]
  <2>2. Partial(f, 0)
    BY <2>1 DEF Counted
  <2> QED
    BY <2>2
<1>2. ASSUME NEW n \in Nat, n \in T PROVE n + 1 \in T
  <2>1. PICK f : Partial(f, n)
    BY <1>2
  <2> DEFINE g == [s \in D(n + 1) |-> Counted(f, w, s)]
  <2>2. ASSUME NEW s \in D(n) PROVE g[s] = f[s]
    <3>1. s \in SUBSET S /\ Cardinality(s) <= n
      OBVIOUS
    <3>2. s \in D(n + 1)
      <4>1. Cardinality(s) \in Nat
        BY <3>1, FS_Subset, FS_CardinalityType
      <4> QED
        BY <3>1, <4>1
    <3> QED
      BY <2>1, <3>2
  <2>3. ASSUME NEW s \in D(n + 1) PROVE g[s] = Counted(g, w, s)
    <3>1. g[s] = Counted(f, w, s)
      OBVIOUS
    <3>2. CASE s = {}
      BY <3>1, <3>2 DEF Counted
    <3>3. CASE s # {}
      <4>1. s \ {Any(s)} \in D(n)
        <5>1. s \in SUBSET S /\ Cardinality(s) <= n + 1
          OBVIOUS
        <5>2. /\ s \ {Any(s)} \in SUBSET S /\ Cardinality(s) \in Nat /\ Cardinality(s \ {Any(s)}) \in Nat
              /\ Cardinality(s \ {Any(s)}) + 1 = Cardinality(s)
          BY <1>0, <3>3, <5>1
        <5>3. Cardinality(s \ {Any(s)}) <= n
          BY <5>1, <5>2
        <5> QED
          BY <5>2, <5>3
      <4>2. g[s \ {Any(s)}] = f[s \ {Any(s)}]
        <5> HIDE DEF g, D
        <5> QED
          BY <2>2, <4>1
      <4> HIDE DEF g, D
      <4> QED
        BY <3>1, <3>3, <4>2 DEF Counted
    <3> QED
      BY <3>2, <3>3
  <2>4. g = [s \in D(n + 1) |-> g[s]]
    OBVIOUS
  <2>5. Partial(g, n + 1)
    <3> HIDE DEF g, D
    <3> QED
      BY <2>3, <2>4
  <2>6. \E h : Partial(h, n + 1)
    <3> HIDE DEF g, Partial
    <3> QED
      BY <2>5
  <2> HIDE DEF Partial
  <2> QED
    BY <2>6
<1>3. Cardinality(S) \in T
  <2>1. Cardinality(S) \in Nat
    BY FS_CardinalityType
  <2> HIDE DEF T
  <2> QED
    BY <1>1, <1>2, <2>1, SetInduction
<1>4. D(Cardinality(S)) = SUBSET S
  BY FS_Subset
<1>5. PICK f : Partial(f, Cardinality(S))
  BY <1>3
<1> HIDE DEF D
<1> QED
  BY <1>4, <1>5 DEF SumLoop

\* Loops over the same numbers agree, whatever the sets they were started with.
LEMMA LoopsAgree ==
    ASSUME NEW S, IsFiniteSet(S), NEW f, NEW g, NEW w, NEW v, NEW U, NEW V, S \subseteq U, S \subseteq V,
           SumLoop(f, w, U), SumLoop(g, v, V), \A x \in S : w[x] = v[x]
    PROVE  f[S] = g[S]
<1> DEFINE F == {s \in SUBSET S : f[s] = g[s]}
<1>1. \A s \in SUBSET S : f[s] = Counted(f, w, s) /\ g[s] = Counted(g, v, s)
  BY DEF SumLoop
<1>2. {} \in F
  <2>1. {} \in SUBSET S
    OBVIOUS
  <2> QED
    BY <1>1, <2>1 DEF Counted
<1>3. ASSUME NEW s \in SUBSET S, s # {}, \A x \in s : s \ {x} \in F
      PROVE  s \in F
  <2>1. Any(s) \in s
    BY <1>3 DEF Any
  <2>2. f[s \ {Any(s)}] = g[s \ {Any(s)}] /\ w[Any(s)] = v[Any(s)]
    BY <1>3, <2>1
  <2> QED
    BY <1>1, <1>3, <2>2 DEF Counted
<1>4. S \in F
  <2>1. \A s \in SUBSET S : s # {} /\ (\A x \in s : s \ {x} \in F) => s \in F
    BY <1>3
  <2> HIDE DEF F
  <2>2. \A s \in SUBSET S : s \in F
    BY <1>2, <2>1, FiniteInduction
  <2> QED
    BY <2>2
<1> QED
  BY <1>4

\* SumFunctionOnSet is what the loop makes.
LEMMA SumIs ==
    ASSUME NEW S, IsFiniteSet(S), NEW w
    PROVE  \E f : SumLoop(f, w, S) /\ SumOf(w, S) = f[S]
<1>1. \E f : SumLoop(f, w, S)
  BY SumLoopRuns
<1> QED
  BY ONLY <1>1, Zenon DEF SumOf, SumFunctionOnSet, FoldFunctionOnSet, MapThenFoldSet, SumLoop, Counted, Any

\* Numbers that are the same have the same sum.
LEMMA SumSame ==
    ASSUME NEW S, IsFiniteSet(S), NEW w, NEW v, \A x \in S : w[x] = v[x]
    PROVE  SumOf(w, S) = SumOf(v, S)
<1>2. PICK f : SumLoop(f, w, S) /\ SumOf(w, S) = f[S]
  BY SumIs
<1>3. PICK g : SumLoop(g, v, S) /\ SumOf(v, S) = g[S]
  BY SumIs
<1>4. f[S] = g[S]
  BY <1>2, <1>3, LoopsAgree
<1> QED
  BY <1>2, <1>3, <1>4

\* The sum of nothing, and of a set without the element that is taken first.
LEMMA SumStep ==
    ASSUME NEW S, IsFiniteSet(S), NEW w
    PROVE  /\ S = {} => SumOf(w, S) = 0
           /\ S # {} => SumOf(w, S) = w[Any(S)] + SumOf(w, S \ {Any(S)})
<1>1. PICK f : SumLoop(f, w, S) /\ SumOf(w, S) = f[S]
  BY SumIs
<1>2. f[S] = Counted(f, w, S)
  BY <1>1 DEF SumLoop
<1>3. CASE S # {}
  <2>1. Any(S) \in S
    BY <1>3 DEF Any
  <2>2. IsFiniteSet(S \ {Any(S)})
    BY FS_Subset
  <2>3. PICK g : SumLoop(g, w, S \ {Any(S)}) /\ SumOf(w, S \ {Any(S)}) = g[S \ {Any(S)}]
    BY <2>2, SumIs
  <2>4. f[S \ {Any(S)}] = g[S \ {Any(S)}]
    BY <1>1, <2>2, <2>3, LoopsAgree
  <2> QED
    BY <1>1, <1>2, <1>3, <2>3, <2>4 DEF Counted
<1> QED
  BY <1>1, <1>2, <1>3 DEF Counted

\* A sum of natural numbers is one.
LEMMA SumNat ==
    ASSUME NEW S, IsFiniteSet(S), NEW w, \A x \in S : w[x] \in Nat
    PROVE  SumOf(w, S) \in Nat
<1> DEFINE F == {s \in SUBSET S : SumOf(w, s) \in Nat}
<1>1. {} \in F
  <2>1. SumOf(w, {}) = 0
    BY FS_EmptySet, SumStep
  <2> QED
    BY <2>1
<1>2. ASSUME NEW s \in SUBSET S, s # {}, \A x \in s : s \ {x} \in F
      PROVE  s \in F
  <2>1. Any(s) \in s /\ IsFiniteSet(s)
    BY <1>2, FS_Subset DEF Any
  <2>2. SumOf(w, s) = w[Any(s)] + SumOf(w, s \ {Any(s)})
    BY <1>2, <2>1, SumStep
  <2>3. SumOf(w, s \ {Any(s)}) \in Nat /\ w[Any(s)] \in Nat
    BY <1>2, <2>1
  <2> QED
    BY <2>2, <2>3
<1>3. \A s \in SUBSET S : s \in F
  <2>1. \A s \in SUBSET S : s # {} /\ (\A x \in s : s \ {x} \in F) => s \in F
    BY <1>2
  <2> HIDE DEF F
  <2> QED
    BY <1>1, <2>1, FiniteInduction
<1> QED
  BY <1>3

\* Any element may be taken out of a sum.
LEMMA SumWithout ==
    ASSUME NEW S, IsFiniteSet(S), NEW w, \A x \in S : w[x] \in Nat
    PROVE  \A x \in S : /\ SumOf(w, S) = SumOf(w, S \ {x}) + w[x]
                        /\ SumOf(w, S \ {x}) \in Nat /\ SumOf(w, S) \in Nat
<1> DEFINE F == {s \in SUBSET S : \A x \in s : SumOf(w, s) = SumOf(w, s \ {x}) + w[x]}
<1>0. \A s \in SUBSET S : IsFiniteSet(s) /\ SumOf(w, s) \in Nat
  BY FS_Subset, SumNat
<1>1. {} \in F
  OBVIOUS
<1>2. ASSUME NEW s \in SUBSET S, s # {}, \A y \in s : s \ {y} \in F
      PROVE  s \in F
  <2> SUFFICES ASSUME NEW x \in s PROVE SumOf(w, s) = SumOf(w, s \ {x}) + w[x]
    OBVIOUS
  <2> DEFINE y == Any(s)
  <2>1. y \in s /\ IsFiniteSet(s)
    BY <1>0, <1>2 DEF Any
  <2>2. SumOf(w, s) = SumOf(w, s \ {y}) + w[y]
    <3>1. SumOf(w, s) = w[y] + SumOf(w, s \ {y})
      BY <1>2, <2>1, SumStep
    <3>2. w[y] \in Nat /\ s \ {y} \in SUBSET S
      BY <2>1
    <3>3. SumOf(w, s \ {y}) \in Nat
      BY <1>0, <3>2
    <3> HIDE DEF y
    <3> QED
      BY <3>1, <3>2, <3>3
  <2> HIDE DEF y
  <2>3. CASE y = x
    BY <2>2, <2>3
  <2>4. CASE y # x
    <3>1. SumOf(w, s \ {y}) = SumOf(w, (s \ {y}) \ {x}) + w[x]
      <4>1. x \in s \ {y} /\ s \ {y} \in F
        BY <1>2, <2>1, <2>4
      <4> QED
        BY <4>1
    <3>2. SumOf(w, s \ {x}) = SumOf(w, (s \ {x}) \ {y}) + w[y]
      <4>1. y \in s \ {x} /\ s \ {x} \in F
        BY <1>2, <2>1, <2>4
      <4> QED
        BY <4>1
    <3>3. (s \ {x}) \ {y} = (s \ {y}) \ {x}
      OBVIOUS
    <3>4. PICK n \in Nat : n = SumOf(w, (s \ {y}) \ {x})
      <4>1. (s \ {y}) \ {x} \in SUBSET S
        OBVIOUS
      <4> QED
        BY <1>0, <4>1
    <3>5. w[x] \in Nat /\ w[y] \in Nat
      BY <2>1
    <3>6. SumOf(w, s) = (n + w[x]) + w[y] /\ SumOf(w, s \ {x}) = n + w[y]
      BY <2>2, <3>1, <3>2, <3>3, <3>4
    <3> QED
      BY <3>4, <3>5, <3>6
  <2> QED
    BY <2>3, <2>4
<1>3. S \in F
  <2>1. \A s \in SUBSET S : s # {} /\ (\A y \in s : s \ {y} \in F) => s \in F
    BY <1>2
  <2> HIDE DEF F
  <2>2. \A s \in SUBSET S : s \in F
    BY <1>1, <2>1, FiniteInduction
  <2> QED
    BY <2>2
<1> QED
  BY <1>0, <1>3

\* A new element adds its number.
LEMMA SumWith ==
    ASSUME NEW S, IsFiniteSet(S), NEW w, NEW x, x \notin S, \A y \in S \cup {x} : w[y] \in Nat
    PROVE  /\ IsFiniteSet(S \cup {x})
           /\ SumOf(w, S) \in Nat /\ SumOf(w, S \cup {x}) = SumOf(w, S) + w[x]
<1> DEFINE T == S \cup {x}
<1>1. IsFiniteSet(T) /\ T \ {x} = S /\ x \in T
  BY FS_AddElement
<1>2. \A y \in T : w[y] \in Nat
  OBVIOUS
<1> HIDE DEF T
<1>3. SumOf(w, T) = SumOf(w, T \ {x}) + w[x] /\ SumOf(w, T \ {x}) \in Nat
  BY <1>1, <1>2, SumWithout
<1> QED
  BY <1>1, <1>3 DEF T

\* A sum over two sets without a common element is the sum of their sums.
LEMMA SumUnion ==
    ASSUME NEW S, IsFiniteSet(S), NEW T, IsFiniteSet(T), S \cap T = {}, NEW w,
           \A x \in S \cup T : w[x] \in Nat
    PROVE  /\ SumOf(w, S) \in Nat /\ SumOf(w, T) \in Nat
           /\ SumOf(w, S \cup T) = SumOf(w, S) + SumOf(w, T)
<1> DEFINE F == {s \in SUBSET T : SumOf(w, S \cup s) = SumOf(w, S) + SumOf(w, s)}
<1>0. \A s \in SUBSET T : IsFiniteSet(s) /\ SumOf(w, s) \in Nat /\ IsFiniteSet(S \cup s)
  <2> SUFFICES ASSUME NEW s \in SUBSET T PROVE IsFiniteSet(s) /\ SumOf(w, s) \in Nat /\ IsFiniteSet(S \cup s)
    OBVIOUS
  <2>1. IsFiniteSet(s)
    BY FS_Subset
  <2> QED
    BY <2>1, FS_Union, SumNat
<1>a. SumOf(w, S) \in Nat
  BY SumNat
<1>1. {} \in F
  <2>1. SumOf(w, {}) = 0 /\ S \cup {} = S
    BY FS_EmptySet, SumStep
  <2> QED
    BY <1>a, <2>1
<1>2. ASSUME NEW s \in SUBSET T, s # {}, \A y \in s : s \ {y} \in F
      PROVE  s \in F
  <2>1. PICK y \in s : TRUE
    BY <1>2
  <2>2. SumOf(w, S \cup (s \ {y})) = SumOf(w, S) + SumOf(w, s \ {y})
    BY <1>2
  <2>3. SumOf(w, s) = SumOf(w, s \ {y}) + w[y]
    BY <1>0, SumWithout
  <2>4. SumOf(w, S \cup s) = SumOf(w, (S \cup s) \ {y}) + w[y]
    <3> DEFINE R == S \cup s
    <3>1. IsFiniteSet(R) /\ y \in R /\ \A x \in R : w[x] \in Nat
      BY <1>0
    <3> HIDE DEF R
    <3>2. SumOf(w, R) = SumOf(w, R \ {y}) + w[y]
      BY <3>1, SumWithout
    <3> QED
      BY <3>2 DEF R
  <2>5. (S \cup s) \ {y} = S \cup (s \ {y})
    OBVIOUS
  <2>6. PICK n \in Nat : n = SumOf(w, s \ {y})
    <3>1. s \ {y} \in SUBSET T
      OBVIOUS
    <3> QED
      BY <1>0, <3>1
  <2>7. w[y] \in Nat
    OBVIOUS
  <2>8. PICK m \in Nat : m = SumOf(w, S)
    BY <1>a
  <2>9. SumOf(w, S \cup s) = (m + n) + w[y] /\ SumOf(w, s) = n + w[y]
    BY <2>2, <2>3, <2>4, <2>5, <2>6, <2>8
  <2>10. SumOf(w, S \cup s) = SumOf(w, S) + SumOf(w, s)
    BY <2>6, <2>7, <2>8, <2>9
  <2> QED
    BY <2>10
<1>3. T \in F
  <2>1. \A s \in SUBSET T : s # {} /\ (\A y \in s : s \ {y} \in F) => s \in F
    BY <1>2
  <2> HIDE DEF F
  <2>2. \A s \in SUBSET T : s \in F
    BY <1>1, <2>1, FiniteInduction
  <2> QED
    BY <2>2
<1> QED
  BY <1>0, <1>3, <1>a

\* Smaller numbers have a smaller sum; a sum of zeros is zero.
LEMMA SumAtMost ==
    ASSUME NEW S, IsFiniteSet(S), NEW w, NEW v,
           \A x \in S : w[x] \in Nat /\ v[x] \in Nat /\ w[x] <= v[x]
    PROVE  SumOf(w, S) \in Nat /\ SumOf(v, S) \in Nat /\ SumOf(w, S) <= SumOf(v, S)
<1> DEFINE F == {s \in SUBSET S : SumOf(w, s) <= SumOf(v, s)}
<1>0. \A s \in SUBSET S : IsFiniteSet(s) /\ SumOf(w, s) \in Nat /\ SumOf(v, s) \in Nat
  BY FS_Subset, SumNat
<1>1. {} \in F
  BY FS_EmptySet, SumStep
<1>2. ASSUME NEW s \in SUBSET S, s # {}, \A y \in s : s \ {y} \in F
      PROVE  s \in F
  <2>1. PICK y \in s : TRUE
    BY <1>2
  <2>2. /\ SumOf(w, s) = SumOf(w, s \ {y}) + w[y]
        /\ SumOf(v, s) = SumOf(v, s \ {y}) + v[y]
    BY <1>0, SumWithout
  <2>3. SumOf(w, s \ {y}) <= SumOf(v, s \ {y})
    BY <1>2
  <2>4. s \ {y} \in SUBSET S
    OBVIOUS
  <2>5. /\ SumOf(w, s \ {y}) \in Nat /\ SumOf(v, s \ {y}) \in Nat
        /\ w[y] \in Nat /\ v[y] \in Nat /\ w[y] <= v[y]
    BY <1>0, <2>4
  <2> QED
    BY <2>2, <2>3, <2>5
<1>3. S \in F
  <2>1. \A s \in SUBSET S : s # {} /\ (\A y \in s : s \ {y} \in F) => s \in F
    BY <1>2
  <2> HIDE DEF F
  <2>2. \A s \in SUBSET S : s \in F
    BY <1>1, <2>1, FiniteInduction
  <2> QED
    BY <2>2
<1> QED
  BY <1>0, <1>3

\* Elements that count nothing may be left out.
LEMMA SumZeros ==
    ASSUME NEW S, IsFiniteSet(S), NEW T \in SUBSET S, NEW w, \A x \in S : w[x] \in Nat,
           \A x \in S \ T : w[x] = 0
    PROVE  SumOf(w, S) = SumOf(w, T)
<1> DEFINE R == S \ T
           z == [x \in R |-> 0]
<1>1. IsFiniteSet(T) /\ IsFiniteSet(R) /\ T \cap R = {} /\ T \cup R = S
  BY FS_Subset
<1>2. \A x \in R : w[x] = 0
  OBVIOUS
<1>3. \A s \in SUBSET R : SumOf(w, s) = 0
  <2> DEFINE F == {s \in SUBSET R : SumOf(w, s) = 0}
  <2>1. {} \in F
    BY FS_EmptySet, SumStep
  <2>2. ASSUME NEW s \in SUBSET R, s # {}, \A y \in s : s \ {y} \in F
        PROVE  s \in F
    <3>1. IsFiniteSet(s) /\ Any(s) \in s
      BY <1>1, <2>2, FS_Subset DEF Any
    <3>2. SumOf(w, s) = w[Any(s)] + SumOf(w, s \ {Any(s)})
      BY <2>2, <3>1, SumStep
    <3>3. SumOf(w, s \ {Any(s)}) = 0 /\ w[Any(s)] = 0
      BY <1>2, <2>2, <3>1
    <3> QED
      BY <3>2, <3>3
  <2>3. \A s \in SUBSET R : s # {} /\ (\A y \in s : s \ {y} \in F) => s \in F
    BY <2>2
  <2> HIDE DEF F, R
  <2>4. \A s \in SUBSET R : s \in F
    BY <1>1, <2>1, <2>3, FiniteInduction
  <2> QED
    BY <2>4 DEF F
<1>4. SumOf(w, R) = 0
  BY <1>3
<1>5. \A x \in T \cup R : w[x] \in Nat
  OBVIOUS
<1> HIDE DEF R
<1>6. SumOf(w, T \cup R) = SumOf(w, T) + SumOf(w, R) /\ SumOf(w, T) \in Nat
  BY <1>1, <1>5, SumUnion
<1>7. SumOf(w, T) + 0 = SumOf(w, T)
  BY <1>6
<1> QED
  BY <1>1, <1>4, <1>6, <1>7

\* A sum may be taken over other names of its elements.
LEMMA SumRenamed ==
    ASSUME NEW S, IsFiniteSet(S), NEW h, \A x, y \in S : h[x] = h[y] => x = y,
           NEW w, NEW v, \A x \in S : w[x] \in Nat /\ v[h[x]] = w[x]
    PROVE  LET T == {h[x] : x \in S} IN IsFiniteSet(T) /\ SumOf(v, T) = SumOf(w, S)
<1> DEFINE Im(s) == {h[x] : x \in s}
           F == {s \in SUBSET S : IsFiniteSet(Im(s)) /\ SumOf(v, Im(s)) = SumOf(w, s)}
<1>1. {} \in F
  <2>1. Im({}) = {}
    OBVIOUS
  <2> HIDE DEF Im
  <2> QED
    BY <2>1, FS_EmptySet, SumStep
<1>2. ASSUME NEW s \in SUBSET S, s # {}, \A y \in s : s \ {y} \in F
      PROVE  s \in F
  <2>1. PICK y \in s : TRUE
    BY <1>2
  <2> DEFINE r == s \ {y}
  <2>2. Im(s) = Im(r) \cup {h[y]} /\ h[y] \notin Im(r)
    OBVIOUS
  <2>3. IsFiniteSet(Im(r)) /\ SumOf(v, Im(r)) = SumOf(w, r)
    BY <1>2
  <2>4. \A z \in Im(r) \cup {h[y]} : v[z] \in Nat
    OBVIOUS
  <2>5. IsFiniteSet(s) /\ \A x \in s : w[x] \in Nat
    BY FS_Subset
  <2>6. SumOf(w, s) = SumOf(w, r) + w[y]
    BY <2>5, SumWithout
  <2> HIDE DEF Im, r
  <2>7. IsFiniteSet(Im(r) \cup {h[y]}) /\ SumOf(v, Im(r) \cup {h[y]}) = SumOf(v, Im(r)) + v[h[y]]
    <3>1. PICK I : I = Im(r)
      OBVIOUS
    <3>2. PICK z : z = h[y]
      OBVIOUS
    <3>3. IsFiniteSet(I) /\ z \notin I /\ \A q \in I \cup {z} : v[q] \in Nat
      BY <2>2, <2>3, <2>4, <3>1, <3>2
    <3>4. IsFiniteSet(I \cup {z}) /\ SumOf(v, I \cup {z}) = SumOf(v, I) + v[z]
      BY ONLY <3>3, SumWith
    <3> QED
      BY <3>1, <3>2, <3>4
  <2> QED
    BY <2>2, <2>3, <2>6, <2>7
<1>3. S \in F
  <2>1. \A s \in SUBSET S : s # {} /\ (\A y \in s : s \ {y} \in F) => s \in F
    BY <1>2
  <2> HIDE DEF F
  <2>2. \A s \in SUBSET S : s \in F
    BY <1>1, <2>1, FiniteInduction
  <2> QED
    BY <2>2
<1> QED
  BY <1>3

\* Numbers that differ in one element have sums that differ by as much.
LEMMA SumMoves ==
    ASSUME NEW S, IsFiniteSet(S), NEW x \in S, NEW w, NEW v,
           \A y \in S : w[y] \in Nat /\ v[y] \in Nat,
           \A y \in S \ {x} : v[y] = w[y]
    PROVE  /\ SumOf(w, S) \in Nat /\ SumOf(v, S) \in Nat
           /\ SumOf(v, S) = SumOf(w, S) + (v[x] - w[x])
<1>1. SumOf(w, S) = SumOf(w, S \ {x}) + w[x] /\ SumOf(w, S \ {x}) \in Nat /\ SumOf(w, S) \in Nat
  BY SumWithout
<1>2. SumOf(v, S) = SumOf(v, S \ {x}) + v[x] /\ SumOf(v, S) \in Nat
  BY SumWithout
<1>3. SumOf(v, S \ {x}) = SumOf(w, S \ {x})
  BY FS_Subset, SumSame
<1>4. w[x] \in Nat /\ v[x] \in Nat
  OBVIOUS
<1> QED
  BY <1>1, <1>2, <1>3, <1>4

\* A sum may be taken group by group.
LEMMA SumGrouped ==
    ASSUME NEW S, IsFiniteSet(S), NEW P, IsFiniteSet(P), NEW p, \A x \in S : p[x] \in P,
           NEW w, \A x \in S : w[x] \in Nat
    PROVE  SumOf(w, S) = SumOf([q \in P |-> SumOf(w, {x \in S : p[x] = q})], P)
<1> DEFINE Group(s, q) == {x \in s : p[x] = q}
           G(s) == [q \in P |-> SumOf(w, Group(s, q))]
           F == {s \in SUBSET S : SumOf(w, s) = SumOf(G(s), P)}
<1>0. \A s \in SUBSET S : IsFiniteSet(s) /\ \A q \in P : G(s)[q] = SumOf(w, Group(s, q)) /\ G(s)[q] \in Nat
  <2> SUFFICES ASSUME NEW s \in SUBSET S, NEW q \in P
               PROVE  IsFiniteSet(s) /\ SumOf(w, Group(s, q)) \in Nat
    BY FS_Subset
  <2>1. IsFiniteSet(s) /\ IsFiniteSet(Group(s, q)) /\ \A x \in Group(s, q) : w[x] \in Nat
    BY FS_Subset
  <2> HIDE DEF Group
  <2> QED
    BY <2>1, SumNat
<1>1. {} \in F
  <2>1. \A q \in P : G({})[q] = 0
    <3>1. \A q \in P : Group({}, q) = {}
      OBVIOUS
    <3> HIDE DEF Group
    <3> QED
      BY <3>1, FS_EmptySet, SumStep
  <2>2. SumOf(G({}), P) = SumOf(G({}), {})
    <3> DEFINE g == G({})
    <3>1. \A q \in P : g[q] = 0 /\ g[q] \in Nat
      BY <2>1
    <3> HIDE DEF g
    <3>2. \A q \in P \ {} : g[q] = 0
      BY <3>1
    <3>3. SumOf(g, P) = SumOf(g, {})
      BY <3>1, <3>2, SumZeros
    <3> QED
      BY <3>3 DEF g
  <2> HIDE DEF G
  <2> QED
    BY <2>2, FS_EmptySet, SumStep
<1>2. ASSUME NEW s \in SUBSET S, s # {}, \A y \in s : s \ {y} \in F
      PROVE  s \in F
  <2>1. PICK y \in s : TRUE
    BY <1>2
  <2> DEFINE r == s \ {y}
             gs == G(s)
             gr == G(r)
  <2>2. SumOf(w, r) = SumOf(gr, P)
    BY <1>2
  <2>3. r \in SUBSET S /\ p[y] \in P /\ w[y] \in Nat
    OBVIOUS
  <2>4. SumOf(w, s) = SumOf(w, r) + w[y] /\ SumOf(w, r) \in Nat
    BY <1>0, SumWithout
  <2>5. \A q \in P \ {p[y]} : gs[q] = gr[q]
    <3>1. \A q \in P \ {p[y]} : Group(s, q) = Group(r, q)
      OBVIOUS
    <3> HIDE DEF Group, r
    <3> QED
      BY <3>1
  <2>6. gs[p[y]] = gr[p[y]] + w[y]
    <3> DEFINE A == Group(s, p[y])
    <3>1. A \ {y} = Group(r, p[y]) /\ y \in A /\ IsFiniteSet(A) /\ \A x \in A : w[x] \in Nat
      BY FS_Subset, <1>0
    <3>2. gs[p[y]] = SumOf(w, A) /\ gr[p[y]] = SumOf(w, Group(r, p[y]))
      BY <2>3
    <3> HIDE DEF A, Group, gs, gr
    <3>3. SumOf(w, A) = SumOf(w, A \ {y}) + w[y]
      BY <3>1, SumWithout
    <3> QED
      BY <3>1, <3>2, <3>3
  <2>7. \A q \in P : gs[q] \in Nat /\ gr[q] \in Nat
    BY <1>0, <2>3
  <2> HIDE DEF gs, gr, r
  <2>8. SumOf(gs, P) = SumOf(gr, P) + (gs[p[y]] - gr[p[y]]) /\ SumOf(gr, P) \in Nat
    BY <2>3, <2>5, <2>7, SumMoves
  <2>9. SumOf(gs, P) = SumOf(gr, P) + w[y]
    BY <2>3, <2>6, <2>7, <2>8
  <2>10. SumOf(w, s) = SumOf(gs, P)
    BY <2>2, <2>4, <2>9
  <2> QED
    BY <2>10 DEF gs
<1>3. S \in F
  <2>1. \A s \in SUBSET S : s # {} /\ (\A y \in s : s \ {y} \in F) => s \in F
    BY <1>2
  <2> HIDE DEF F
  <2>2. \A s \in SUBSET S : s \in F
    BY <1>1, <2>1, FiniteInduction
  <2> QED
    BY <2>2
<1> QED
  BY <1>3
-----------------------------------------------------------------------------
(* The sum of an asset over all users *)

\* What a user has of an asset in balances b
Wallet(b, a, u) == b[<<u, "AVAILABLE", a>>] + b[<<u, "FREEZE", a>>]
Wallets(b, a) == [u \in Users |-> Wallet(b, a, u)]

\* n is the sum over all users.
IsTotal(b, a, n) == n = SumOf(Wallets(b, a), Users)

\* The sum of a state is its Total.
LEMMA TotalIs ==
    ASSUME NEW a \in Assets
    PROVE  IsTotal(balance, a, Total(a)) /\ IsTotal(balance', a, Total(a)')
BY DEF IsTotal, Total, TotalOf, SumOf, SumFunction, Wallets, Wallet

\* Balances b and c are the same but for those of one user.
OthersKeep(b, c, a, u) == \A v \in Users \ {u} : Wallet(c, a, v) = Wallet(b, a, v)

\* The sum goes from n to m as the balances of one user do.
MovesBy(n, m, b, c, a, u) ==
    /\ n \in Nat /\ m \in Nat
    /\ m = n + (Wallet(c, a, u) - Wallet(b, a, u))

\* Balances that differ in one user's differ in their sum by that.
LEMMA TotalMoves ==
    ASSUME NEW b \in [BalanceKeys -> Nat], NEW c \in [BalanceKeys -> Nat], NEW a \in Assets,
           NEW n, NEW m, IsTotal(b, a, n), IsTotal(c, a, m), NEW u \in Users,
           OthersKeep(b, c, a, u)
    PROVE  MovesBy(n, m, b, c, a, u)
<1> DEFINE w == Wallets(b, a)
           v == Wallets(c, a)
<1>1. \A y \in Users : w[y] \in Nat /\ v[y] \in Nat
  BY DEF Wallets, Wallet, BalanceKeys, BalanceTypes
<1>2. \A y \in Users : w[y] = Wallet(b, a, y) /\ v[y] = Wallet(c, a, y)
  BY DEF Wallets
<1> HIDE DEF w, v
<1>3. \A y \in Users \ {u} : v[y] = w[y]
  BY <1>2 DEF OthersKeep
<1>4. SumOf(w, Users) \in Nat /\ SumOf(v, Users) \in Nat /\ SumOf(v, Users) = SumOf(w, Users) + (v[u] - w[u])
  BY <1>1, <1>3, UsersAssumption, SumMoves
<1> QED
  BY <1>2, <1>4 DEF IsTotal, MovesBy, w, v

\* Each user has what it had, so the sum is what it was.
LEMMA TotalStays ==
    ASSUME NEW a \in Assets, \A v \in Users : Wallet(balance', a, v) = Wallet(balance, a, v)
    PROVE  Total(a)' = Total(a)
<1>1. Wallets(balance, a) = Wallets(balance', a)
  BY DEF Wallets
<1> QED
  BY <1>1, TotalIs DEF IsTotal

\* balance_add and balance_sub change one balance.
LEMMA OthersUntouched ==
    ASSUME NEW b, NEW u, NEW t, NEW a, NEW x, NEW k \in DOMAIN b, k # <<u, t, a>>
    PROVE  /\ DOMAIN BalanceAdd(b, u, t, a, x) = DOMAIN b /\ DOMAIN BalanceSub(b, u, t, a, x) = DOMAIN b
           /\ BalanceAdd(b, u, t, a, x)[k] = b[k] /\ BalanceSub(b, u, t, a, x)[k] = b[k]
BY DEF BalanceAdd, BalanceSub

\* One party's side of a deal: it gives exactly what the deal is worth and gets no more, and
\* the others have what they had.
LEMMA TradeMoves ==
    ASSUME NEW b \in [BalanceKeys -> Nat], InGrain(b), NEW u \in Users, NEW t \in BalanceTypes,
           NEW side \in Sides, NEW price \in Nat, NEW amount \in Nat,
           NEW rate \in 0..(FeeOne - 1),
           b[<<u, t, Gives(side)>>] >= Value(Gives(side), price, amount) * FeeOne
    PROVE  LET r == Trade(b, u, t, side, price, amount, rate)
               give == Gives(side)
               get == Gets(side)
           IN  /\ r \in [BalanceKeys -> Nat] /\ InGrain(r)
               /\ \A a \in Assets : OthersKeep(b, r, a, u)
               /\ Wallet(r, give, u) = Wallet(b, give, u) - Value(give, price, amount) * FeeOne
               /\ Wallet(r, get, u) <= Wallet(b, get, u) + Value(get, price, amount) * FeeOne
<1> DEFINE r == Trade(b, u, t, side, price, amount, rate)
           give == Gives(side)
           get == Gets(side)
           h == [k \in Users \X Assets |-> 0]
           rows == TradeHistory(h, u, side, price, amount, rate)
           x == Value(give, price, amount)
           y == Value(get, price, amount)
<1>1. h \in [Users \X Assets -> Int]
  OBVIOUS
<1>2. /\ r \in [BalanceKeys -> Nat] /\ InGrain(r) /\ rows \in [Users \X Assets -> Int]
      /\ \A v \in Users, a \in Assets :
            Lost(rows, r, v, a) - Lost(h, b, v, a) \in 0..(IF a = get THEN Grain(a) - 1 ELSE 0)
  <2> HIDE DEF h
  <2> QED
    BY <1>1, TradeLoss
<1>3. /\ give \in Assets /\ get \in Assets /\ give # get
  BY SideAssets
<1>4. x \in Nat /\ y \in Nat /\ FeeOne \in Nat /\ rate \in Nat /\ rate <= FeeOne
  BY <1>3, ValueType, FeesAssumption
<1>5. rows[<<u, give>>] = 0 - x * FeeOne /\ rows[<<u, get>>] = 0 + y * (FeeOne - rate)
  BY <1>3 DEF TradeHistory
<1>6. \A k \in BalanceKeys : k # <<u, t, give>> /\ k # <<u, "AVAILABLE", get>> => r[k] = b[k]
  <2> TAKE k \in BalanceKeys
  <2> HAVE k # <<u, t, give>> /\ k # <<u, "AVAILABLE", get>>
  <2>1. PICK b1 : b1 = BalanceSub(b, u, t, give, x * FeeOne)
    OBVIOUS
  <2>2. PICK b2 : b2 = BalanceAdd(b1, u, "AVAILABLE", get, y * FeeOne)
    OBVIOUS
  <2>3. PICK b3 : b3 = BalanceSub(b2, u, "AVAILABLE", get, y * rate)
    OBVIOUS
  <2>4. r = b2 \/ r = b3
    BY <2>1, <2>2, <2>3 DEF Trade
  <2> HIDE DEF r, rows, give, get, x, y, h
  <2>5. b1[k] = b[k] /\ k \in DOMAIN b1
    BY <2>1, OthersUntouched
  <2>6. b2[k] = b[k] /\ k \in DOMAIN b2
    BY <2>2, <2>5, OthersUntouched
  <2>7. b3[k] = b[k]
    BY <2>3, <2>6, OthersUntouched
  <2> QED
    BY <2>4, <2>6, <2>7
<1> HIDE DEF r, rows, give, get, x, y
<1>7. \A v \in Users, a \in Assets : Wallet(r, a, v) \in Nat /\ Wallet(b, a, v) \in Nat
  BY <1>2 DEF Wallet, BalanceKeys, BalanceTypes
<1>8. \A a \in Assets : OthersKeep(b, r, a, u)
  BY <1>6 DEF OthersKeep, Wallet, BalanceKeys, BalanceTypes
<1>9. \A a \in Assets : /\ Lost(rows, r, u, a) = rows[<<u, a>>] - Wallet(r, a, u)
                        /\ Lost(h, b, u, a) = 0 - Wallet(b, a, u)
  BY DEF Lost, Wallet
<1> HIDE DEF h
<1>10. Wallet(r, give, u) = Wallet(b, give, u) - x * FeeOne
  <2>1. Lost(rows, r, u, give) - Lost(h, b, u, give) \in 0..0
    BY <1>2, <1>3
  <2>2. x * FeeOne \in Nat
    BY <1>4
  <2>3. (0 - x * FeeOne - Wallet(r, give, u)) - (0 - Wallet(b, give, u)) \in 0..0
    BY <1>3, <1>5, <1>9, <2>1
  <2> QED
    BY <1>3, <1>7, <2>2, <2>3
<1>11. Wallet(r, get, u) <= Wallet(b, get, u) + y * FeeOne
  <2>1. Lost(rows, r, u, get) - Lost(h, b, u, get) \in 0..(Grain(get) - 1)
    BY <1>2, <1>3
  <2>2. y * FeeOne \in Nat /\ y * (FeeOne - rate) \in Nat /\ y * (FeeOne - rate) <= y * FeeOne
    BY <1>4, ProductNat, ProductMonotone
  <2>3. (0 + y * (FeeOne - rate) - Wallet(r, get, u)) - (0 - Wallet(b, get, u)) >= 0
    <3>1. Lost(rows, r, u, get) - Lost(h, b, u, get) >= 0
      <4>1. Grain(get) \in Nat \ {0}
        BY <1>3, GrainDivides
      <4> QED
        BY <2>1, <4>1
    <3>2. PICK w \in Nat : w = y * (FeeOne - rate)
      BY <2>2
    <3>3. rows[<<u, get>>] = w
      BY <1>5, <3>2
    <3>4. Lost(rows, r, u, get) = w - Wallet(r, get, u) /\ Lost(h, b, u, get) = 0 - Wallet(b, get, u)
      BY <1>3, <1>9, <3>3
    <3>5. Wallet(r, get, u) \in Nat /\ Wallet(b, get, u) \in Nat
      BY <1>3, <1>7
    <3> QED
      BY <3>1, <3>2, <3>4, <3>5
  <2> QED
    BY <1>3, <1>7, <2>2, <2>3
<1> QED
  BY <1>2, <1>8, <1>10, <1>11 DEF r, give, get, x, y

\* A deal moves value between its parties, and takes their fees.
LEMMA DealValue ==
    ASSUME Inv, HistoryInv, NEW amount, NEW used, DealOK(amount, used), Deal(amount, used), NEW a \in Assets
    PROVE  Total(a)' <= Total(a)
<1> DEFINE maker == orders[iter]
           b1 == Trade(balance, taker.user_id, "AVAILABLE", taker.side, maker.price,
                       amount, taker.taker_fee)
           b2 == Trade(b1, maker.user_id, "FREEZE", maker.side, maker.price, amount,
                       maker.maker_fee)
           p == taker.user_id
           q == maker.user_id
           x == Value(a, maker.price, amount) * FeeOne
<1>1. /\ ~Idle /\ iter # 0 /\ taker \in Order /\ maker \in Order /\ amount \in Nat
      /\ Gets(maker.side) = Gives(taker.side)
  BY MakerFacts DEF DealOK, Order
<1>2. /\ maker.price \in Nat /\ p \in Users /\ q \in Users
      /\ taker.side \in Sides /\ maker.side \in Sides
      /\ taker.taker_fee \in 0..(FeeOne - 1) /\ maker.maker_fee \in 0..(FeeOne - 1)
      /\ "AVAILABLE" \in BalanceTypes /\ "FREEZE" \in BalanceTypes
  BY <1>1 DEF Order, BalanceTypes
<1>3. /\ balance[<<p, "AVAILABLE", Gives(taker.side)>>]
            >= Value(Gives(taker.side), maker.price, amount) * FeeOne
      /\ b1[<<q, "FREEZE", Gives(maker.side)>>]
            >= Value(Gives(maker.side), maker.price, amount) * FeeOne
  BY DealPayable
<1>4. balance' = b2
  BY DealDict DEF Deal, DealtBalance
<1>5. balance \in [BalanceKeys -> Nat] /\ InGrain(balance)
  BY DEF Inv, TypeOK, HistoryInv
<1>6. x \in Nat
  <2>1. Value(a, maker.price, amount) \in Nat
    BY <1>1, <1>2, ValueType
  <2>2. FeeOne \in Nat
    BY FeesAssumption
  <2> QED
    BY <2>1, <2>2, ProductNat
<1>7. Gets(taker.side) = Gives(maker.side) /\ (a = Gives(taker.side) \/ a = Gives(maker.side))
  BY <1>1, <1>2 DEF Gets, Gives, Sides, Assets
<1> HIDE DEF maker, p, q
<1>8. /\ b1 \in [BalanceKeys -> Nat] /\ InGrain(b1)
      /\ OthersKeep(balance, b1, a, p)
      /\ a = Gives(taker.side) => Wallet(b1, a, p) = Wallet(balance, a, p) - x
      /\ a = Gets(taker.side) => Wallet(b1, a, p) <= Wallet(balance, a, p) + x
  BY <1>1, <1>2, <1>3, <1>5, TradeMoves DEF p
<1> HIDE DEF b1
<1>9. /\ b2 \in [BalanceKeys -> Nat]
      /\ OthersKeep(b1, b2, a, q)
      /\ a = Gives(maker.side) => Wallet(b2, a, q) = Wallet(b1, a, q) - x
      /\ a = Gets(maker.side) => Wallet(b2, a, q) <= Wallet(b1, a, q) + x
  BY <1>1, <1>2, <1>3, <1>8, TradeMoves DEF q
<1> HIDE DEF b2, x
<1>10. PICK n1 : IsTotal(b1, a, n1)
  BY DEF IsTotal
<1>11. IsTotal(balance, a, Total(a)) /\ IsTotal(b2, a, Total(a)')
  BY <1>4, TotalIs
<1>12. PICK b0 : b0 = balance
  OBVIOUS
<1>13. PICK n0 : n0 = Total(a)
  OBVIOUS
<1>14. PICK n2 : n2 = Total(a)'
  OBVIOUS
<1>15. MovesBy(n0, n1, b0, b1, a, p)
  <2>1. IsTotal(b0, a, n0) /\ b0 \in [BalanceKeys -> Nat] /\ OthersKeep(b0, b1, a, p)
    BY <1>5, <1>8, <1>11, <1>12, <1>13
  <2> QED
    BY <1>2, <1>8, <1>10, <2>1, TotalMoves
<1>16. MovesBy(n1, n2, b1, b2, a, q)
  <2>1. IsTotal(b2, a, n2)
    BY <1>11, <1>14
  <2> QED
    BY <1>2, <1>8, <1>9, <1>10, <2>1, TotalMoves
<1>17. /\ Wallet(b0, a, p) \in Nat /\ Wallet(b1, a, p) \in Nat /\ Wallet(b1, a, q) \in Nat
       /\ Wallet(b2, a, q) \in Nat
  BY <1>2, <1>5, <1>8, <1>9, <1>12 DEF Wallet, BalanceKeys, BalanceTypes
<1>18. CASE a = Gives(taker.side)
  <2>1. Wallet(b1, a, p) = Wallet(b0, a, p) - x /\ Wallet(b2, a, q) <= Wallet(b1, a, q) + x
    BY <1>1, <1>8, <1>9, <1>12, <1>18
  <2> QED
    BY <1>6, <1>13, <1>14, <1>15, <1>16, <1>17, <2>1 DEF MovesBy
<1>19. CASE a = Gives(maker.side)
  <2>1. Wallet(b1, a, p) <= Wallet(b0, a, p) + x /\ Wallet(b2, a, q) = Wallet(b1, a, q) - x
    BY <1>7, <1>8, <1>9, <1>12, <1>19
  <2> QED
    BY <1>6, <1>13, <1>14, <1>15, <1>16, <1>17, <2>1 DEF MovesBy
<1> QED
  BY <1>7, <1>18, <1>19

\* balance_freeze and balance_unfreeze move value between two balances of a user.
LEMMA MoveValue ==
    ASSUME Inv, Inv', TotalsKept, NEW a \in Assets
    PROVE  Total(a)' = Total(a)
<1>1. balance \in [BalanceKeys -> Nat] /\ balance' \in [BalanceKeys -> Nat]
  BY DEF Inv, TypeOK
<1>2. ASSUME NEW v \in Users
      PROVE  Wallet(balance', a, v) = Wallet(balance, a, v)
  <2> DEFINE h == [k \in Users \X Assets |-> 0]
  <2>1. h[<<v, a>>] = 0
    OBVIOUS
  <2> HIDE DEF h
  <2>2. Lost(h, balance', v, a) = Lost(h, balance, v, a)
    BY DEF TotalsKept
  <2>3. 0 - Wallet(balance', a, v) = 0 - Wallet(balance, a, v)
    BY <2>1, <2>2 DEF Lost, Wallet
  <2>4. Wallet(balance', a, v) \in Nat /\ Wallet(balance, a, v) \in Nat
    BY <1>1 DEF Wallet, BalanceKeys, BalanceTypes
  <2> QED
    BY <2>3, <2>4
<1> QED
  BY <1>1, <1>2, TotalStays

\* A step that changes no balance changes no sum.
LEMMA SameValue ==
    ASSUME Inv, balance' = balance, NEW a \in Assets
    PROVE  Total(a)' = Total(a)
<1>1. balance \in [BalanceKeys -> Nat] /\ balance' \in [BalanceKeys -> Nat]
  BY DEF Inv, TypeOK
<1>2. \A v \in Users : Wallet(balance', a, v) = Wallet(balance, a, v)
  OBVIOUS
<1> QED
  BY <1>1, <1>2, TotalStays

\* The sum of an asset is a number.
LEMMA TotalNat ==
    ASSUME Inv, NEW a \in Assets
    PROVE  Total(a) \in Nat
<1>1. \A u \in Users : Wallets(balance, a)[u] \in Nat
  BY DEF Inv, TypeOK, Wallets, Wallet, BalanceKeys, BalanceTypes
<1> QED
  BY <1>1, TotalIs, UsersAssumption, SumNat DEF IsTotal

\* What a step that is not balance.update does to the sum of an asset.
LEMMA ValueStep ==
    ASSUME Inv, Inv', HistoryInv, [Next]_vars, updates' = updates, NEW a \in Assets
    PROVE  /\ Total(a)' <= Total(a)
           /\ deals_id_start' = deals_id_start => Total(a)' = Total(a)
<1>1. Total(a) \in Nat /\ deals_id_start \in Nat /\ updates \in Nat
  BY TotalNat DEF Inv, TypeOK
<1>2. CASE \/ ExecuteLimitAskOrder \/ ExecuteLimitBidOrder
           \/ ExecuteMarketAskOrder \/ ExecuteMarketBidOrder
  <2>1. PICK amount \in Nat \ {0}, used \in Nat :
           DealOK(amount, used) /\ Deal(amount, used)
    BY <1>2, IterationDeals
  <2>2. Total(a)' <= Total(a)
    BY <2>1, DealValue
  <2>3. deals_id_start' # deals_id_start
    BY <1>1, <2>1 DEF Deal
  <2> QED
    BY <2>2, <2>3
<1>3. ASSUME balance' = balance
      PROVE  Total(a)' <= Total(a) /\ Total(a)' = Total(a)
  BY <1>1, <1>3, SameValue
<1>4. ASSUME TotalsKept
      PROVE  Total(a)' <= Total(a) /\ Total(a)' = Total(a)
  BY <1>1, <1>4, MoveValue
<1>5. CASE FinishLimitOrder \/ FinishMarketOrder
  BY <1>3, <1>5 DEF FinishLimitOrder, FinishMarketOrder
<1>6. CASE PlaceLimitOrder
  BY <1>4, <1>6, PlaceMoves
<1>7. ASSUME NEW u \in Users, NEW side \in Sides, NEW amount \in Amounts, NEW fees \in Fees,
             \/ \E price \in Prices : PutLimitOrder(u, side, amount, price, fees)
             \/ PutMarketOrder(u, side, amount, fees)
      PROVE  Total(a)' <= Total(a) /\ Total(a)' = Total(a)
  BY <1>3, <1>7 DEF PutLimitOrder, PutMarketOrder, StartExecution
<1>8. ASSUME NEW i \in OpenOrders, CancelOrder(i)
      PROVE  Total(a)' <= Total(a) /\ Total(a)' = Total(a)
  BY <1>4, <1>8, CancelMoves
<1>9. ASSUME NEW u \in Users, NEW c \in Changes, UpdateUserBalance(u, c[1], c[2])
      PROVE  FALSE
  BY <1>1, <1>9 DEF UpdateUserBalance
<1>10. CASE UNCHANGED vars
  BY <1>3, <1>10 DEF vars
<1> QED
  BY <1>2, <1>5, <1>6, <1>7, <1>8, <1>9, <1>10 DEF Next, Execute, Request

\* Placing, matching and cancelling never increase the sum of an asset over all
\* users, and only deals, by their fees, decrease it: whatever balance_sub and
\* balance_add do unchecked in execute_*_order, freeze and unfreeze included,
\* only update_user_balance brings value in.
THEOREM NoValueIsCreated == Spec => NoValueCreated
<1>1. Inv /\ Inv' /\ HistoryInv /\ [Next]_vars =>
         [updates' = updates => \A a \in Assets :
            /\ Total(a)' <= Total(a)
            /\ deals_id_start' = deals_id_start => Total(a)' = Total(a)]_vars
  BY ValueStep
<1> QED
  BY <1>1, Invariance, HistoryHolds, PTL DEF Spec, NoValueCreated
-----------------------------------------------------------------------------
(***************************************************************************)
(* What the commands answer fits together (MEServer).  An answer is a      *)
(* function of the state, and of Inv it needs that the books and the lists *)
(* of the users hold the orders of the dictionary (IndexConsistent), that  *)
(* an order has frozen what it has left (OrderAccounts) and that balances  *)
(* back it (FreezeBacked).  The rest is about lists and sums: a list has   *)
(* the k-th element of its order at its k-th place, the pages of a list,   *)
(* of any length, join to it, and a sum may be taken in any order, over    *)
(* other names of its elements, and group by group.                        *)
(***************************************************************************)

-----------------------------------------------------------------------------
(* Lists *)

\* R orders S, each element before or after any other.
Orders(R, S) ==
    /\ \A x \in S : <<x, x>> \notin R
    /\ \A x, y \in S : x # y => <<x, y>> \in R \/ <<y, x>> \in R
    /\ \A x, y, z \in S : <<x, y>> \in R /\ <<y, z>> \in R => <<x, z>> \in R

\* How many elements of S come before x.
Rank(R, S, x) == Cardinality({y \in S : <<y, x>> \in R})

\* The list L has the elements of S in their order.
ListOf(L, R, S) ==
    /\ Cardinality(S) \in Nat /\ L \in [1 .. Cardinality(S) -> S]
    /\ \A x \in S : \E k \in DOMAIN L : L[k] = x
    /\ \A k, l \in DOMAIN L : k < l => <<L[k], L[l]>> \in R

\* An element has fewer before it than one that comes after it.
LEMMA RankGrows ==
    ASSUME NEW S, IsFiniteSet(S), NEW R, Orders(R, S), NEW x \in S
    PROVE  /\ Rank(R, S, x) \in Nat /\ Rank(R, S, x) < Cardinality(S)
           /\ \A y \in S : <<x, y>> \in R => Rank(R, S, x) < Rank(R, S, y)
<1> DEFINE Before(y) == {z \in S : <<z, y>> \in R}
<1>1. \A y \in S : IsFiniteSet(Before(y)) /\ Cardinality(Before(y)) \in Nat
  BY FS_Subset, FS_CardinalityType
<1>2. Cardinality(S) \in Nat
  BY FS_CardinalityType
<1>3. Cardinality(Before(x)) < Cardinality(S)
  <2>1. Before(x) \in SUBSET S /\ Before(x) # S
    BY DEF Orders
  <2> HIDE DEF Before
  <2>2. Cardinality(Before(x)) <= Cardinality(S) /\ Cardinality(Before(x)) # Cardinality(S)
    BY <2>1, FS_Subset
  <2> QED
    BY <1>1, <1>2, <2>2
<1>4. ASSUME NEW y \in S, <<x, y>> \in R PROVE Cardinality(Before(x)) < Cardinality(Before(y))
  <2>1. Before(x) \in SUBSET Before(y) /\ Before(x) # Before(y)
    BY <1>4 DEF Orders
  <2>2. IsFiniteSet(Before(y))
    BY <1>1
  <2> HIDE DEF Before
  <2>3. Cardinality(Before(x)) <= Cardinality(Before(y)) /\ Cardinality(Before(x)) # Cardinality(Before(y))
    BY <2>1, <2>2, FS_Subset
  <2> QED
    BY <1>1, <2>3
<1> QED
  BY <1>1, <1>3, <1>4 DEF Rank

\* Each place of the list has just one element.
LEMMA Ranked ==
    ASSUME NEW S, IsFiniteSet(S), NEW R, Orders(R, S)
    PROVE  /\ Cardinality(S) \in Nat
           /\ \A k \in 1 .. Cardinality(S) : \E x \in S : Rank(R, S, x) = k - 1
           /\ \A x \in S : Rank(R, S, x) + 1 \in 1 .. Cardinality(S)
           /\ \A x, y \in S : Rank(R, S, x) = Rank(R, S, y) => x = y
<1> DEFINE n == Cardinality(S)
           f == [x \in S |-> Rank(R, S, x)]
<1>1. n \in Nat
  BY FS_CardinalityType
<1>2. \A x \in S : Rank(R, S, x) \in Nat /\ Rank(R, S, x) < n
  BY RankGrows
<1>3. ASSUME NEW x \in S, NEW y \in S, Rank(R, S, x) = Rank(R, S, y)
      PROVE  x = y
  <2> SUFFICES ASSUME x # y PROVE FALSE
    OBVIOUS
  <2>1. <<x, y>> \in R \/ <<y, x>> \in R
    BY DEF Orders
  <2>2. Rank(R, S, x) < Rank(R, S, y) \/ Rank(R, S, y) < Rank(R, S, x)
    BY <2>1, RankGrows
  <2> QED
    BY <1>2, <1>3, <2>2
<1>4. f \in Injection(S, 0 .. (n - 1))
  <2>1. f \in [S -> 0 .. (n - 1)]
    BY <1>1, <1>2
  <2>2. \A x, y \in S : f[x] = f[y] => x = y
    BY <1>3
  <2> HIDE DEF f
  <2> QED
    BY <2>1, <2>2 DEF Injection, IsInjective
<1>5. IsFiniteSet(0 .. (n - 1)) /\ Cardinality(0 .. (n - 1)) = n
  <2>1. PICK m \in Int : m = n - 1
    BY <1>1
  <2>2. IsFiniteSet(0 .. m) /\ Cardinality(0 .. m) = IF 0 > m THEN 0 ELSE m - 0 + 1
    BY ONLY FS_Interval
  <2>3. (IF 0 > m THEN 0 ELSE m - 0 + 1) = n
    BY <1>1, <2>1
  <2> QED
    BY <2>1, <2>2, <2>3
<1>6. f \in Surjection(S, 0 .. (n - 1))
  BY <1>4, <1>5, FS_Injection
<1>7. ASSUME NEW k \in 1 .. n PROVE \E x \in S : Rank(R, S, x) = k - 1
  <2>1. k - 1 \in 0 .. (n - 1)
    BY <1>1
  <2> QED
    BY <1>6, <2>1 DEF Surjection
<1> QED
  BY <1>1, <1>2, <1>3, <1>7

\* A list of the elements by how many come before each is in order.
LEMMA RankedList ==
    ASSUME NEW S, IsFiniteSet(S), NEW R, Orders(R, S), NEW L \in [1 .. Cardinality(S) -> S],
           \A k \in 1 .. Cardinality(S) : Rank(R, S, L[k]) = k - 1
    PROVE  ListOf(L, R, S)
<1> DEFINE n == Cardinality(S)
<1>1. n \in Nat
  BY FS_CardinalityType
<1>2. ASSUME NEW x \in S PROVE \E k \in DOMAIN L : L[k] = x
  <2> DEFINE k == Rank(R, S, x) + 1
  <2>1. k \in 1 .. n /\ Rank(R, S, x) \in Nat
    BY Ranked, RankGrows
  <2>2. L[k] \in S /\ Rank(R, S, L[k]) = k - 1
    BY <2>1
  <2>3. Rank(R, S, L[k]) = Rank(R, S, x)
    BY <2>1, <2>2
  <2> HIDE DEF k
  <2>4. L[k] = x
    BY <2>2, <2>3, Ranked
  <2> QED
    BY <2>1, <2>4
<1>3. ASSUME NEW k \in 1 .. n, NEW l \in 1 .. n, k < l PROVE <<L[k], L[l]>> \in R
  <2>1. /\ L[k] \in S /\ Rank(R, S, L[k]) = k - 1
        /\ L[l] \in S /\ Rank(R, S, L[l]) = l - 1
    OBVIOUS
  <2>2. L[k] # L[l]
    BY <1>1, <1>3, <2>1
  <2>3. <<L[k], L[l]>> \in R \/ <<L[l], L[k]>> \in R
    BY <2>1, <2>2 DEF Orders
  <2>4. <<L[l], L[k]>> \in R => Rank(R, S, L[l]) < Rank(R, S, L[k])
    BY <2>1, RankGrows
  <2> QED
    BY <1>1, <1>3, <2>1, <2>3, <2>4
<1> QED
  BY <1>1, <1>2, <1>3 DEF ListOf

\* The order of a user's order list and of the books
Newer(S) == {p \in S \X S : NewestFirst(p[1], p[2])}
Better(S) == {p \in S \X S : BestFirst(p[1], p[2])}

\* A user's order list starts with the newest.
LEMMA NewestList ==
    ASSUME NEW S, S \subseteq Nat, IsFiniteSet(S)
    PROVE  ListOf(Listed(S, NewestFirst), Newer(S), S)
<1> DEFINE R == Newer(S)
           L == Listed(S, NewestFirst)
<1>0. IsFiniteSet(S)
  OBVIOUS
<1>1. Orders(R, S)
  BY DEF Orders, Newer, NewestFirst
<1>a. \A k \in 1 .. Cardinality(S) : \E i \in S : Rank(R, S, i) = k - 1
  BY ONLY <1>0, <1>1, Ranked
<1>2. \A i \in S : Rank(R, S, i) = Cardinality({j \in S : NewestFirst(j, i)})
  <2> SUFFICES ASSUME NEW i \in S PROVE Rank(R, S, i) = Cardinality({j \in S : NewestFirst(j, i)})
    OBVIOUS
  <2>1. {j \in S : <<j, i>> \in R} = {j \in S : NewestFirst(j, i)}
    BY DEF Newer
  <2> QED
    BY <2>1 DEF Rank
<1>3. /\ L = [k \in 1 .. Cardinality(S) |-> L[k]]
      /\ \A k \in 1 .. Cardinality(S) :
            L[k] = CHOOSE i \in S : Cardinality({j \in S : NewestFirst(j, i)}) = k - 1
  <2> DEFINE At(k) == CHOOSE i \in S : Cardinality({j \in S : NewestFirst(j, i)}) = k - 1
  <2>1. L = [k \in 1 .. Cardinality(S) |-> At(k)]
    BY Zenon DEF Listed
  <2> HIDE DEF L, At
  <2>2. /\ L = [k \in 1 .. Cardinality(S) |-> L[k]]
        /\ \A k \in 1 .. Cardinality(S) : L[k] = At(k)
    BY <2>1
  <2> QED
    BY <2>2 DEF At
<1> HIDE DEF R, L
<1>4. ASSUME NEW k \in 1 .. Cardinality(S) PROVE L[k] \in S /\ Rank(R, S, L[k]) = k - 1
  <2>1. \E i \in S : Cardinality({j \in S : NewestFirst(j, i)}) = k - 1
    <3>1. \E i \in S : Rank(R, S, i) = k - 1
      BY <1>a
    <3> QED
      BY <1>2, <3>1
  <2>2. L[k] \in S /\ Cardinality({j \in S : NewestFirst(j, L[k])}) = k - 1
    BY <1>3, <2>1
  <2> QED
    BY <1>2, <2>2
<1>5. L \in [1 .. Cardinality(S) -> S]
  <2>1. L = [k \in 1 .. Cardinality(S) |-> L[k]]
    BY <1>3
  <2> QED
    BY <1>4, <2>1
<1>6. ListOf(L, R, S)
  BY <1>0, <1>1, <1>4, <1>5, RankedList
<1> QED
  BY <1>6 DEF L, R

\* Orders of one side, as a book holds them
OneSided(S) ==
    /\ IsFiniteSet(S) /\ S \subseteq OpenOrders
    /\ \A i \in S : orders[i].id = i /\ i \in Nat /\ orders[i].price \in Nat
    /\ \E side \in Sides : \A i \in S : orders[i].side = side

\* A book starts with the order that matches first.
LEMMA BestList ==
    ASSUME NEW S, OneSided(S)
    PROVE  ListOf(Listed(S, BestFirst), Better(S), S)
<1> DEFINE R == Better(S)
           L == Listed(S, BestFirst)
<1>0. IsFiniteSet(S)
  BY DEF OneSided
<1>1. Orders(R, S)
  <2>1. PICK side \in Sides : \A i \in S : orders[i].side = side
    BY DEF OneSided
  <2>2. \A i, j \in S : <<i, j>> \in R <=>
           \/ side = "ASK" /\ orders[i].price < orders[j].price
           \/ side = "BID" /\ orders[i].price > orders[j].price
           \/ orders[i].price = orders[j].price /\ i < j
    BY <2>1 DEF Better, BestFirst, MatchesBefore, OneSided
  <2>3. \A i \in S : i \in Nat /\ orders[i].price \in Nat
    BY DEF OneSided
  <2> HIDE DEF R
  <2> QED
    BY <2>2, <2>3 DEF Orders, Sides
<1>2. \A i \in S : Rank(R, S, i) = Cardinality({j \in S : BestFirst(j, i)})
  <2> SUFFICES ASSUME NEW i \in S PROVE Rank(R, S, i) = Cardinality({j \in S : BestFirst(j, i)})
    OBVIOUS
  <2>1. {j \in S : <<j, i>> \in R} = {j \in S : BestFirst(j, i)}
    BY DEF Better
  <2> QED
    BY <2>1 DEF Rank
<1>3. /\ L = [k \in 1 .. Cardinality(S) |-> L[k]]
      /\ \A k \in 1 .. Cardinality(S) :
            L[k] = CHOOSE i \in S : Cardinality({j \in S : BestFirst(j, i)}) = k - 1
  <2> DEFINE At(k) == CHOOSE i \in S : Cardinality({j \in S : BestFirst(j, i)}) = k - 1
  <2>1. L = [k \in 1 .. Cardinality(S) |-> At(k)]
    BY Zenon DEF Listed
  <2> HIDE DEF L, At
  <2>2. /\ L = [k \in 1 .. Cardinality(S) |-> L[k]]
        /\ \A k \in 1 .. Cardinality(S) : L[k] = At(k)
    BY <2>1
  <2> QED
    BY <2>2 DEF At
<1> HIDE DEF R, L
<1>4. ASSUME NEW k \in 1 .. Cardinality(S) PROVE L[k] \in S /\ Rank(R, S, L[k]) = k - 1
  <2>1. \E i \in S : Cardinality({j \in S : BestFirst(j, i)}) = k - 1
    <3>1. \E i \in S : Rank(R, S, i) = k - 1
      BY <1>0, <1>1, Ranked
    <3> QED
      BY <1>2, <3>1
  <2>2. L[k] \in S /\ Cardinality({j \in S : BestFirst(j, L[k])}) = k - 1
    BY <1>3, <2>1
  <2> QED
    BY <1>2, <2>2
<1>5. L \in [1 .. Cardinality(S) -> S]
  <2>1. L = [k \in 1 .. Cardinality(S) |-> L[k]]
    BY <1>3
  <2> QED
    BY <1>4, <2>1
<1>6. ListOf(L, R, S)
  BY <1>0, <1>1, <1>4, <1>5, RankedList
<1> QED
  BY <1>6 DEF L, R

-----------------------------------------------------------------------------
(* Pages *)

\* What of W comes after its first m elements
Rest(W, m) == SubSeq(W, m + 1, Len(W))

\* The loop of Paged
PagesLoop(f, A, n, length) ==
    f = [k \in 0 .. n |-> IF k * length >= n THEN << >> ELSE A[k] \o f[k + 1]]

\* The answers A are the pages of W.
PagesOf(A, W, length) ==
    \A k \in 0 .. Len(W) : k * length < Len(W) =>
       A[k] = SubSeq(W, k * length + 1, Smaller(k * length + length, Len(W)))

\* A page and what comes after it
LEMMA PageAndRest ==
    ASSUME NEW X, NEW W \in Seq(X), NEW length \in Nat \ {0}, NEW m \in Nat
    PROVE  /\ m >= Len(W) => Rest(W, m) = << >>
           /\ m < Len(W) => SubSeq(W, m + 1, Smaller(m + length, Len(W))) \o Rest(W, m + length) = Rest(W, m)
           /\ Rest(W, 0) = W
<1> DEFINE n == Len(W)
<1>1. n \in Nat
  OBVIOUS
<1>2. ASSUME m >= n PROVE Rest(W, m) = << >>
  BY <1>1, <1>2 DEF Rest
<1>3. ASSUME m < n
      PROVE  SubSeq(W, m + 1, Smaller(m + length, n)) \o Rest(W, m + length) = Rest(W, m)
  <2>1. CASE m + length < n
    <3>1. Smaller(m + length, n) = m + length
      BY <2>1 DEF Smaller
    <3>2. SubSeq(W, m + 1, m + length) \o SubSeq(W, m + length + 1, n) = SubSeq(W, m + 1, n)
      <4>1. m + 1 \in 1 .. n + 1 /\ m + length \in (m + 1) - 1 .. n /\ n \in m + length .. n
        BY <1>1, <2>1
      <4> QED
        BY <4>1, ConcatAdjacentSubSeq
    <3> QED
      BY <3>1, <3>2 DEF Rest
  <2>2. CASE ~(m + length < n)
    <3>1. Smaller(m + length, n) = n
      BY <2>2 DEF Smaller
    <3>2. SubSeq(W, m + length + 1, n) = << >>
      BY <1>1, <2>2
    <3>3. SubSeq(W, m + 1, n) \o << >> = SubSeq(W, m + 1, n)
      BY <1>1, <1>3
    <3> QED
      BY <3>1, <3>2, <3>3 DEF Rest
  <2> QED
    BY <2>1, <2>2
<1>4. Rest(W, 0) = W
  BY <1>1 DEF Rest
<1> QED
  BY <1>2, <1>3, <1>4

\* The loop ends, with W for what it was started for.
LEMMA PagesJoin ==
    ASSUME NEW X, NEW W \in Seq(X), NEW length \in Nat \ {0}, NEW A, PagesOf(A, W, length)
    PROVE  /\ \E f : PagesLoop(f, A, Len(W), length)
           /\ \A f : PagesLoop(f, A, Len(W), length) => f[0] = W
<1> DEFINE n == Len(W)
<1>1. n \in Nat
  OBVIOUS
<1>2. ASSUME NEW k \in 0 .. n
      PROVE  /\ k * length \in Nat
             /\ ~(k * length >= n) => /\ k * length < n /\ k + 1 \in 0 .. n /\ k < n
                                      /\ (k + 1) * length = k * length + length
  <2>1. k * length \in Nat /\ k <= k * length
    BY <1>1, ProductMonotone
  <2> QED
    BY <1>1, <2>1
<1>3. ASSUME NEW k \in 0 .. n
      PROVE  Rest(W, k * length) = IF k * length >= n THEN << >> ELSE A[k] \o Rest(W, (k + 1) * length)
  <2>1. CASE k * length >= n
    BY <1>2, <2>1, PageAndRest
  <2>2. CASE ~(k * length >= n)
    <3>1. A[k] = SubSeq(W, k * length + 1, Smaller(k * length + length, n))
      BY <1>2, <2>2 DEF PagesOf
    <3>2. PICK m \in Nat : m = k * length
      BY <1>2
    <3>3. SubSeq(W, m + 1, Smaller(m + length, n)) \o Rest(W, m + length) = Rest(W, m)
      <4>1. m < Len(W)
        BY <1>2, <2>2, <3>2
      <4> QED
        BY <4>1, PageAndRest
    <3> QED
      BY <1>2, <2>2, <3>1, <3>2, <3>3
  <2> QED
    BY <2>1, <2>2
<1>4. \E f : PagesLoop(f, A, n, length)
  <2> DEFINE f == [k \in 0 .. n |-> Rest(W, k * length)]
  <2>1. ASSUME NEW k \in 0 .. n
        PROVE  f[k] = IF k * length >= n THEN << >> ELSE A[k] \o f[k + 1]
    <3>1. CASE k * length >= n
      BY <1>3, <3>1
    <3>2. CASE ~(k * length >= n)
      <4>1. f[k + 1] = Rest(W, (k + 1) * length)
        BY <1>2, <3>2
      <4> QED
        BY <1>3, <3>2, <4>1
    <3> QED
      BY <3>1, <3>2
  <2>2. f = [k \in 0 .. n |-> f[k]]
    OBVIOUS
  <2> HIDE DEF f
  <2>3. PagesLoop(f, A, n, length)
    BY <2>1, <2>2 DEF PagesLoop
  <2> QED
    BY <2>3
<1>5. ASSUME NEW f, PagesLoop(f, A, n, length) PROVE f[0] = W
  <2> DEFINE T == {m \in Nat : \A k \in 0 .. n : n - k <= m => f[k] = Rest(W, k * length)}
  <2>0. ASSUME NEW k \in 0 .. n
        PROVE  f[k] = IF k * length >= n THEN << >> ELSE A[k] \o f[k + 1]
    BY <1>5 DEF PagesLoop
  <2>1. 0 \in T
    <3> SUFFICES ASSUME NEW k \in 0 .. n, n - k <= 0 PROVE f[k] = Rest(W, k * length)
      OBVIOUS
    <3>1. k * length >= n
      BY <1>1, <1>2
    <3> QED
      BY <1>3, <2>0, <3>1
  <2>2. ASSUME NEW m \in Nat, m \in T PROVE m + 1 \in T
    <3> SUFFICES ASSUME NEW k \in 0 .. n, n - k <= m + 1 PROVE f[k] = Rest(W, k * length)
      OBVIOUS
    <3>1. CASE k * length >= n
      BY <1>3, <2>0, <3>1
    <3>2. CASE ~(k * length >= n)
      <4>1. k + 1 \in 0 .. n /\ n - (k + 1) <= m
        BY <1>1, <1>2, <3>2
      <4>2. f[k + 1] = Rest(W, (k + 1) * length)
        BY <2>2, <4>1
      <4> QED
        BY <1>3, <2>0, <3>2, <4>2
    <3> QED
      BY <3>1, <3>2
  <2>3. n \in T
    <3> HIDE DEF T
    <3> QED
      BY <1>1, <2>1, <2>2, SetInduction
  <2>4. 0 \in 0 .. n /\ n - 0 <= n /\ 0 * length = 0
    BY <1>1
  <2>5. f[0] = Rest(W, 0 * length)
    BY <2>3, <2>4
  <2> QED
    BY <2>4, <2>5, PageAndRest
<1> QED
  BY <1>4, <1>5

\* The orders of a page are those of the list.
LEMMA InfosPage ==
    ASSUME NEW S, NEW L \in Seq(S)
    PROVE  /\ Infos(L) \in Seq({Info(i) : i \in S}) /\ Len(Infos(L)) = Len(L)
           /\ \A k \in 1 .. Len(L) : Infos(L)[k] = Info(L[k])
           /\ \A offset \in Nat, limit \in Nat \ {0} : offset < Len(L) =>
                 Infos(Page(L, offset, limit)) = SubSeq(Infos(L), offset + 1, Smaller(offset + limit, Len(L)))
<1> DEFINE W == Infos(L)
           X == {Info(i) : i \in S}
           n == Len(L)
<1>1. n \in Nat /\ DOMAIN L = 1 .. n /\ \A k \in 1 .. n : L[k] \in S
  OBVIOUS
<1>2. W = [k \in 1 .. n |-> Info(L[k])]
  BY <1>1 DEF Infos
<1>3. W \in Seq(X) /\ Len(W) = n
  <2>1. \A k \in 1 .. n : Info(L[k]) \in X
    BY <1>1
  <2>2. W \in [1 .. n -> X]
    <3> HIDE DEF W, X
    <3> QED
      BY <1>2, <2>1
  <2> HIDE DEF W, X
  <2> QED
    BY <1>1, <2>2
<1>4. ASSUME NEW offset \in Nat, NEW limit \in Nat \ {0}, offset < n
      PROVE  Infos(Page(L, offset, limit)) = SubSeq(W, offset + 1, Smaller(offset + limit, n))
  <2> DEFINE lo == offset + 1
             hi == Smaller(offset + limit, n)
             P == SubSeq(L, lo, hi)
             V == SubSeq(W, lo, hi)
  <2>1. lo \in Int /\ hi \in Int /\ lo >= 1 /\ lo <= hi /\ hi <= n
    BY <1>1, <1>4 DEF Smaller
  <2>2. Page(L, offset, limit) = P
    BY <1>4 DEF Page
  <2> HIDE DEF lo, hi, W, X
  <2>3. P \in Seq(S) /\ Len(P) = hi - lo + 1 /\ \A k \in 1 .. hi - lo + 1 : P[k] = L[lo + k - 1]
    <3>1. \A k \in lo .. hi : L[k] \in S
      BY <1>1, <2>1
    <3> QED
      BY <2>1, <3>1, SubSeqProperties
  <2>4. V \in Seq(X) /\ Len(V) = hi - lo + 1 /\ \A k \in 1 .. hi - lo + 1 : V[k] = W[lo + k - 1]
    <3>1. \A k \in lo .. hi : W[k] \in X
      BY <1>1, <1>3, <2>1
    <3> QED
      BY <2>1, <3>1, SubSeqProperties
  <2> HIDE DEF P, V
  <2> DEFINE m == hi - lo + 1
  <2>5. DOMAIN P = 1 .. m /\ V = [k \in 1 .. m |-> V[k]]
    BY <2>3, <2>4
  <2>6. \A k \in 1 .. m : V[k] = Info(P[k])
    <3>1. \A k \in 1 .. m : lo + k - 1 \in 1 .. n
      BY <1>1, <2>1
    <3> QED
      BY <1>2, <2>3, <2>4, <3>1
  <2>7. Infos(P) = [k \in 1 .. m |-> Info(P[k])]
    BY <2>5 DEF Infos
  <2> HIDE DEF m
  <2>8. Infos(P) = V
    BY <2>5, <2>6, <2>7
  <2> QED
    BY <2>2, <2>8 DEF V, lo, hi
<1>5. \A k \in 1 .. n : W[k] = Info(L[k])
  BY <1>2
<1> QED
  BY <1>3, <1>4, <1>5

\* The list that the answers about a user's orders, or a book's, are cut from
UserList(u) == Listed(users[u], NewestFirst)
BookList(side) == Listed(Book(side), BestFirst)

\* An answered page is one of the list's.
LEMMA UserAnswer ==
    ASSUME NEW u, NEW offset, NEW limit, ~(limit > ListMax)
    PROVE  /\ OnCmdOrderQuery(u, offset, limit).total = Len(UserList(u))
           /\ OnCmdOrderQuery(u, offset, limit).records = Infos(Page(UserList(u), offset, limit))
BY DEF OnCmdOrderQuery, UserList

\* An answered page of a book is one of its list's.
LEMMA BookAnswer ==
    ASSUME NEW side, NEW offset, NEW limit, ~(limit > ListMax)
    PROVE  /\ OnCmdOrderBook(side, offset, limit).total = Len(BookList(side))
           /\ OnCmdOrderBook(side, offset, limit).orders = Infos(Page(BookList(side), offset, limit))
BY DEF OnCmdOrderBook, BookList

\* The pages of order.query are those of the user's list.
LEMMA OrdersAre ==
    ASSUME NEW u, NEW S, UserList(u) \in Seq(S), NEW length \in 1 .. ListMax
    PROVE  OrdersOf(u, length) = Infos(UserList(u))
<1> DEFINE L == UserList(u)
           n == OnCmdOrderQuery(u, 0, 0).total
           Literal(f) == f = [k \in 0 .. n |-> IF k * length >= n THEN << >>
                                               ELSE OnCmdOrderQuery(u, k * length, length).records \o f[k + 1]]
           A == [k \in 0 .. n |-> OnCmdOrderQuery(u, k * length, length).records]
<1>1. length \in Nat \ {0} /\ ~(length > ListMax) /\ ~(0 > ListMax)
  BY ListMaxAssumption
<1>2. n = Len(L) /\ n \in Nat
  BY <1>1, UserAnswer
<1>3. Infos(L) \in Seq({Info(i) : i \in S}) /\ Len(Infos(L)) = n
  BY <1>2, InfosPage
<1> HIDE DEF n
<1>4. \A k \in 0 .. n : A[k] = Infos(Page(L, k * length, length))
  BY <1>1, UserAnswer
<1>5. PagesOf(A, Infos(L), length)
  <2> SUFFICES ASSUME NEW k \in 0 .. n, k * length < n
               PROVE  A[k] = SubSeq(Infos(L), k * length + 1, Smaller(k * length + length, n))
    BY <1>3 DEF PagesOf
  <2>1. k * length \in Nat
    BY <1>1, ProductNat
  <2>2. PICK m \in Nat : m = k * length
    BY <2>1
  <2>3. Infos(Page(L, m, length)) = SubSeq(Infos(L), m + 1, Smaller(m + length, Len(L)))
    BY <1>1, <1>2, <2>2, InfosPage
  <2> QED
    BY <1>2, <1>4, <2>2, <2>3
<1>6. \A f : PagesLoop(f, A, n, length) <=> Literal(f)
  BY DEF PagesLoop
<1> HIDE DEF A
<1>7. /\ \E f : PagesLoop(f, A, n, length)
      /\ \A f : PagesLoop(f, A, n, length) => f[0] = Infos(L)
  BY <1>1, <1>3, <1>5, PagesJoin
<1> HIDE DEF Literal
<1>8. \E f : Literal(f)
  BY <1>6, <1>7
<1>9. \E f : Literal(f) /\ OrdersOf(u, length) = f[0]
  BY ONLY <1>8, Zenon DEF Literal, n, OrdersOf, Paged
<1> QED
  BY <1>6, <1>7, <1>9

\* The pages of order.book are those of the book.
LEMMA BookIs ==
    ASSUME NEW side, NEW S, BookList(side) \in Seq(S), NEW length \in 1 .. ListMax
    PROVE  BookOf(side, length) = Infos(BookList(side))
<1> DEFINE L == BookList(side)
           n == OnCmdOrderBook(side, 0, 0).total
           Literal(f) == f = [k \in 0 .. n |-> IF k * length >= n THEN << >>
                                               ELSE OnCmdOrderBook(side, k * length, length).orders \o f[k + 1]]
           A == [k \in 0 .. n |-> OnCmdOrderBook(side, k * length, length).orders]
<1>1. length \in Nat \ {0} /\ ~(length > ListMax) /\ ~(0 > ListMax)
  BY ListMaxAssumption
<1>2. n = Len(L) /\ n \in Nat
  BY <1>1, BookAnswer
<1>3. Infos(L) \in Seq({Info(i) : i \in S}) /\ Len(Infos(L)) = n
  BY <1>2, InfosPage
<1> HIDE DEF n
<1>4. \A k \in 0 .. n : A[k] = Infos(Page(L, k * length, length))
  BY <1>1, BookAnswer
<1>5. PagesOf(A, Infos(L), length)
  <2> SUFFICES ASSUME NEW k \in 0 .. n, k * length < n
               PROVE  A[k] = SubSeq(Infos(L), k * length + 1, Smaller(k * length + length, n))
    BY <1>3 DEF PagesOf
  <2>1. k * length \in Nat
    BY <1>1, ProductNat
  <2>2. PICK m \in Nat : m = k * length
    BY <2>1
  <2>3. Infos(Page(L, m, length)) = SubSeq(Infos(L), m + 1, Smaller(m + length, Len(L)))
    BY <1>1, <1>2, <2>2, InfosPage
  <2> QED
    BY <1>2, <1>4, <2>2, <2>3
<1>6. \A f : PagesLoop(f, A, n, length) <=> Literal(f)
  BY DEF PagesLoop
<1> HIDE DEF A
<1>7. /\ \E f : PagesLoop(f, A, n, length)
      /\ \A f : PagesLoop(f, A, n, length) => f[0] = Infos(L)
  BY <1>1, <1>3, <1>5, PagesJoin
<1> HIDE DEF Literal
<1>8. \E f : Literal(f)
  BY <1>6, <1>7
<1>9. \E f : Literal(f) /\ BookOf(side, length) = f[0]
  BY ONLY <1>8, Zenon DEF Literal, n, BookOf, Paged
<1> QED
  BY <1>6, <1>7, <1>9

-----------------------------------------------------------------------------
(* The orders that are answered *)

InfosOf(S) == {Info(i) : i \in S}

\* What is answered of an order is what it is.
LEMMA InfoFacts ==
    ASSUME Inv, NEW i \in OpenOrders
    PROVE  /\ i \in OrderIds /\ i \in Nat /\ orders[i] \in Order /\ orders[i].id = i
           /\ orders[i].freeze = Value(Gives(orders[i].side), orders[i].price, orders[i].left)
           /\ Info(i).id = i /\ Info(i).side = orders[i].side /\ Info(i).user_id = orders[i].user_id
           /\ Info(i).price = orders[i].price /\ Info(i).left = orders[i].left
<1>1. /\ orders[i] \in Order /\ orders[i].id = i
      /\ orders[i].freeze = Value(Gives(orders[i].side), orders[i].price, orders[i].left)
  BY DEF Inv, TypeOK, IndexConsistent, OrderAccounts, OpenOrders
<1>2. i \in OrderIds /\ i \in Nat
  <2>1. orders[i].id \in OrderIds
    BY <1>1 DEF Order
  <2> QED
    BY <1>1, <2>1, BoundsAssumption DEF OrderIds
<1>3. {"id", "side", "user_id", "price", "left"} \subseteq DOMAIN orders[i] \ {"freeze"}
  BY <1>1 DEF Order
<1>4. \A f \in {"id", "side", "user_id", "price", "left"} : Info(i)[f] = orders[i][f]
  BY <1>3 DEF Info
<1> QED
  BY <1>1, <1>2, <1>4

\* The orders are finitely many, those of a side in its book, those of a user in its list.
LEMMA OpenFacts ==
    ASSUME Inv
    PROVE  /\ IsFiniteSet(OpenOrders) /\ OpenOrders \subseteq Nat
           /\ \A side \in Sides : /\ OneSided(Book(side)) /\ Book(side) \subseteq OpenOrders
                                  /\ \A i \in OpenOrders : i \in Book(side) <=> orders[i].side = side
           /\ \A u \in Users : /\ IsFiniteSet(users[u]) /\ users[u] \subseteq OpenOrders
                               /\ \A i \in OpenOrders : i \in users[u] <=> orders[i].user_id = u
<1>1. OpenOrders \subseteq OrderIds /\ IsFiniteSet(OrderIds) /\ OrderIds \subseteq Nat
  <2>1. OpenOrders \subseteq OrderIds
    BY InfoFacts
  <2>2. IsFiniteSet(1 .. MaxOrders)
    BY BoundsAssumption, FS_Interval
  <2> QED
    BY <2>1, <2>2, BoundsAssumption DEF OrderIds
<1>2. IsFiniteSet(OpenOrders)
  BY <1>1, FS_Subset
<1>3. ASSUME NEW side \in Sides
      PROVE  /\ OneSided(Book(side)) /\ Book(side) \subseteq OpenOrders
             /\ \A i \in OpenOrders : i \in Book(side) <=> orders[i].side = side
  <2>1. Book(side) = {i \in OpenOrders : orders[i].side = side}
    BY DEF Book, Inv, IndexConsistent, Sides
  <2>2. IsFiniteSet(Book(side))
    BY <1>2, <2>1, FS_Subset
  <2>3. \A i \in Book(side) : orders[i].id = i /\ i \in Nat /\ orders[i].price \in Nat
    BY <2>1, InfoFacts DEF Order
  <2> QED
    BY <2>1, <2>2, <2>3 DEF OneSided
<1>4. ASSUME NEW u \in Users
      PROVE  /\ IsFiniteSet(users[u]) /\ users[u] \subseteq OpenOrders
             /\ \A i \in OpenOrders : i \in users[u] <=> orders[i].user_id = u
  <2>1. users[u] = {i \in OpenOrders : orders[i].user_id = u}
    BY DEF Inv, IndexConsistent
  <2> QED
    BY <1>2, <2>1, FS_Subset
<1> QED
  BY <1>1, <1>2, <1>3, <1>4

\* The members of a list's answer are the answers of its orders.
LEMMA MembersAre ==
    ASSUME NEW S, NEW R, NEW L, ListOf(L, R, S)
    PROVE  /\ L \in Seq(S) /\ Len(L) = Cardinality(S)
           /\ Members(Infos(L)) = InfosOf(S)
           /\ DOMAIN Infos(L) = 1 .. Len(L) /\ Len(Infos(L)) = Len(L)
           /\ \A k \in 1 .. Len(L) : Infos(L)[k] = Info(L[k]) /\ L[k] \in S
           /\ \A k, l \in 1 .. Len(L) : k < l => <<L[k], L[l]>> \in R
<1>1. Cardinality(S) \in Nat /\ L \in [1 .. Cardinality(S) -> S]
  BY DEF ListOf
<1>2. L \in Seq(S) /\ Len(L) = Cardinality(S)
  BY <1>1
<1>3. /\ Len(Infos(L)) = Len(L) /\ Infos(L) \in Seq(InfosOf(S))
      /\ \A k \in 1 .. Len(L) : Infos(L)[k] = Info(L[k])
  BY <1>2, InfosPage DEF InfosOf
<1>4. DOMAIN Infos(L) = 1 .. Len(L) /\ DOMAIN L = 1 .. Len(L)
  BY <1>2, <1>3
<1>5. /\ \A x \in S : \E k \in 1 .. Len(L) : L[k] = x
      /\ \A k, l \in 1 .. Len(L) : k < l => <<L[k], L[l]>> \in R
  BY <1>4 DEF ListOf
<1>6. \A k \in 1 .. Len(L) : L[k] \in S
  BY <1>1, <1>2
<1>7. Members(Infos(L)) = InfosOf(S)
  <2>1. Members(Infos(L)) = {Info(L[k]) : k \in 1 .. Len(L)}
    BY <1>3, <1>4 DEF Members
  <2> QED
    BY <1>5, <1>6, <2>1 DEF InfosOf
<1> QED
  BY <1>2, <1>3, <1>4, <1>5, <1>6, <1>7

\* What the pages of a book hold, at any length
LEMMA BookPages ==
    ASSUME Inv, NEW side \in Sides, NEW length \in 1 .. ListMax
    PROVE  /\ Members(BookOf(side, length)) = InfosOf(Book(side))
           /\ Len(BookOf(side, length)) = Cardinality(Book(side))
           /\ \A k, l \in DOMAIN BookOf(side, length) :
                 k < l => MatchesBefore(BookOf(side, length)[k], BookOf(side, length)[l])
           /\ OnCmdOrderBook(side, 0, 0).total = Cardinality(Book(side))
<1> DEFINE S == Book(side)
           L == BookList(side)
<1>1. OneSided(S) /\ S \subseteq OpenOrders
  BY OpenFacts
<1>2. ListOf(L, Better(S), S)
  BY <1>1, BestList DEF BookList
<1> HIDE DEF S
<1>3. /\ L \in Seq(S) /\ Len(L) = Cardinality(S) /\ Len(Infos(L)) = Len(L)
      /\ Members(Infos(L)) = InfosOf(S) /\ DOMAIN Infos(L) = 1 .. Len(L)
      /\ \A k \in 1 .. Len(L) : Infos(L)[k] = Info(L[k]) /\ L[k] \in S
      /\ \A k, l \in 1 .. Len(L) : k < l => <<L[k], L[l]>> \in Better(S)
  BY <1>2, MembersAre
<1>4. BookOf(side, length) = Infos(L)
  BY <1>3, BookIs
<1>5. OnCmdOrderBook(side, 0, 0).total = Len(L)
  <2>1. ~(0 > ListMax)
    BY ListMaxAssumption
  <2> QED
    BY <2>1, BookAnswer
<1> HIDE DEF L
<1>6. ASSUME NEW k \in 1 .. Len(L), NEW l \in 1 .. Len(L), k < l
      PROVE  MatchesBefore(Infos(L)[k], Infos(L)[l])
  <2>1. /\ Infos(L)[k] = Info(L[k]) /\ Infos(L)[l] = Info(L[l])
        /\ L[k] \in OpenOrders /\ L[l] \in OpenOrders /\ <<L[k], L[l]>> \in Better(S)
    BY <1>1, <1>3, <1>6
  <2>2. MatchesBefore(orders[L[k]], orders[L[l]])
    BY <2>1 DEF Better, BestFirst
  <2>3. /\ Info(L[k]).id = orders[L[k]].id /\ Info(L[k]).side = orders[L[k]].side
        /\ Info(L[k]).price = orders[L[k]].price
        /\ Info(L[l]).id = orders[L[l]].id /\ Info(L[l]).price = orders[L[l]].price
    BY <2>1, InfoFacts
  <2> QED
    BY <2>1, <2>2, <2>3 DEF MatchesBefore
<1> QED
  BY <1>3, <1>4, <1>5, <1>6 DEF S

\* What the pages of a user's orders hold, at any length
LEMMA UserPages ==
    ASSUME Inv, NEW u \in Users, NEW length \in 1 .. ListMax
    PROVE  /\ Members(OrdersOf(u, length)) = InfosOf(users[u])
           /\ \A k, l \in DOMAIN OrdersOf(u, length) :
                 k < l => OrdersOf(u, length)[k].id > OrdersOf(u, length)[l].id
<1> DEFINE S == users[u]
           L == UserList(u)
<1>1. IsFiniteSet(S) /\ S \subseteq OpenOrders /\ S \subseteq Nat
  BY OpenFacts
<1>2. ListOf(L, Newer(S), S)
  BY <1>1, NewestList DEF UserList
<1> HIDE DEF S
<1>3. /\ L \in Seq(S)
      /\ Members(Infos(L)) = InfosOf(S) /\ DOMAIN Infos(L) = 1 .. Len(L)
      /\ \A k \in 1 .. Len(L) : Infos(L)[k] = Info(L[k]) /\ L[k] \in S
      /\ \A k, l \in 1 .. Len(L) : k < l => <<L[k], L[l]>> \in Newer(S)
  BY <1>2, MembersAre
<1>4. OrdersOf(u, length) = Infos(L)
  BY <1>3, OrdersAre
<1> HIDE DEF L
<1>5. ASSUME NEW k \in 1 .. Len(L), NEW l \in 1 .. Len(L), k < l
      PROVE  Infos(L)[k].id > Infos(L)[l].id
  <2>1. /\ Infos(L)[k] = Info(L[k]) /\ Infos(L)[l] = Info(L[l])
        /\ L[k] \in OpenOrders /\ L[l] \in OpenOrders /\ <<L[k], L[l]>> \in Newer(S)
    BY <1>1, <1>3, <1>5
  <2>2. L[k] > L[l]
    BY <2>1 DEF Newer, NewestFirst
  <2>3. Info(L[k]).id = L[k] /\ Info(L[l]).id = L[l]
    BY <2>1, InfoFacts
  <2> QED
    BY <2>1, <2>2, <2>3
<1> QED
  BY <1>3, <1>4, <1>5 DEF S

\* All orders of the two books, and those of a user
LEMMA AllInfos ==
    ASSUME Inv
    PROVE  /\ InfosOf(Book("ASK")) \cup InfosOf(Book("BID")) = InfosOf(OpenOrders)
           /\ \A u \in Users : InfosOf(users[u]) = {o \in InfosOf(OpenOrders) : o.user_id = u}
           /\ \A i, j \in OpenOrders : Info(i) = Info(j) => i = j
<1>1. OpenOrders = Book("ASK") \cup Book("BID")
  <2>1. \A i \in OpenOrders : orders[i].side = "ASK" \/ orders[i].side = "BID"
    BY InfoFacts DEF Order, Sides
  <2> QED
    BY <2>1, OpenFacts DEF Sides
<1>2. ASSUME NEW u \in Users
      PROVE  InfosOf(users[u]) = {o \in InfosOf(OpenOrders) : o.user_id = u}
  <2>1. users[u] = {i \in OpenOrders : orders[i].user_id = u}
    BY OpenFacts
  <2>2. \A i \in OpenOrders : Info(i).user_id = orders[i].user_id
    BY InfoFacts
  <2> QED
    BY <2>1, <2>2 DEF InfosOf
<1>3. \A i, j \in OpenOrders : Info(i) = Info(j) => i = j
  <2>1. \A i \in OpenOrders : Info(i).id = i
    BY InfoFacts
  <2> QED
    BY <2>1
<1> QED
  BY <1>1, <1>2, <1>3 DEF InfosOf

-----------------------------------------------------------------------------
(* The sums that are answered *)

\* What the orders hold of a user's asset, in the units of balances
HeldBy(u, a) == [i \in OpenOrders |-> IF Owner(orders[i], u, a) THEN orders[i].freeze * FeeOne ELSE 0]
Holding(a) == [o \in InfosOf(OpenOrders) |-> Holds(o, a)]

\* What an order holds is a number.
LEMMA HeldByNat ==
    ASSUME Inv, NEW u, NEW a
    PROVE  \A i \in OpenOrders : HeldBy(u, a)[i] \in Nat
<1> SUFFICES ASSUME NEW i \in OpenOrders PROVE HeldBy(u, a)[i] \in Nat
  OBVIOUS
<1>1. orders[i].freeze \in Nat
  BY InfoFacts DEF Order
<1>2. orders[i].freeze * FeeOne \in Nat
  BY <1>1, FeesAssumption
<1> QED
  BY <1>2 DEF HeldBy

\* The units that orders hold, counted order by order
LEMMA HeldSum ==
    ASSUME Inv, NEW u, NEW a
    PROVE  Cardinality(HeldUnits(u, a)) * FeeOne = SumOf(HeldBy(u, a), OpenOrders)
<1> DEFINE Part(T) == [i \in T |-> orders[i]]
           w == HeldBy(u, a)
           F == {T \in SUBSET OpenOrders :
                   /\ IsFiniteSet(Held(Part(T), u, a))
                   /\ Cardinality(Held(Part(T), u, a)) * FeeOne = SumOf(w, T)}
<1>0. \A i \in OpenOrders : w[i] \in Nat
  BY HeldByNat
<1>a. IsFiniteSet(OpenOrders) /\ FeeOne \in Nat
  BY OpenFacts, FeesAssumption
<1>1. {} \in F
  <2>1. Held(Part({}), u, a) = {}
    BY DEF Held
  <2>2. SumOf(w, {}) = 0 /\ IsFiniteSet({}) /\ Cardinality({}) = 0
    BY FS_EmptySet, SumStep
  <2>3. 0 * FeeOne = 0
    BY <1>a
  <2> HIDE DEF Part, w
  <2> QED
    BY <2>1, <2>2, <2>3
<1>2. ASSUME NEW T \in SUBSET OpenOrders, T # {}, \A y \in T : T \ {y} \in F
      PROVE  T \in F
  <2>1. PICK y \in T : TRUE
    BY <1>2
  <2> DEFINE R == T \ {y}
             f == Part(R)
             o == orders[y]
             g == [j \in DOMAIN f \cup {o.id} |-> IF j = o.id THEN o ELSE f[j]]
  <2>2. o \in Order /\ o.id = y
    BY InfoFacts
  <2>3. o.id \notin DOMAIN f /\ Part(T) = g
    BY <2>2
  <2>4. IsFiniteSet(Held(f, u, a)) /\ Cardinality(Held(f, u, a)) * FeeOne = SumOf(w, R)
    BY <1>2
  <2>5. w[y] = (IF Owner(o, u, a) THEN o.freeze ELSE 0) * FeeOne
    BY <1>a DEF HeldBy
  <2>6. SumOf(w, T) = SumOf(w, R) + w[y]
    BY <1>0, <1>a, FS_Subset, SumWithout
  <2>7. o.freeze \in Nat
    BY <2>2 DEF Order
  <2> HIDE DEF w, f, o, R
  <2>8. /\ IsFiniteSet(Held(g, u, a))
        /\ Cardinality(Held(g, u, a)) = Cardinality(Held(f, u, a)) + (IF Owner(o, u, a) THEN o.freeze ELSE 0)
    BY <2>2, <2>3, <2>4, HeldPut
  <2> HIDE DEF g, Part
  <2>9. PICK c \in Nat : c = Cardinality(Held(f, u, a))
    BY <2>4, FS_CardinalityType
  <2>10. PICK x \in Nat : x = IF Owner(o, u, a) THEN o.freeze ELSE 0
    BY <2>7
  <2>11. (c + x) * FeeOne = c * FeeOne + x * FeeOne
    BY <1>a
  <2>12. Cardinality(Held(Part(T), u, a)) * FeeOne = SumOf(w, T)
    BY <2>3, <2>4, <2>5, <2>6, <2>8, <2>9, <2>10, <2>11
  <2> QED
    BY <2>3, <2>8, <2>12
<1>3. OpenOrders \in F
  <2>1. \A T \in SUBSET OpenOrders : T # {} /\ (\A y \in T : T \ {y} \in F) => T \in F
    BY <1>2
  <2> HIDE DEF F
  <2>2. \A T \in SUBSET OpenOrders : T \in F
    BY <1>1, <1>a, <2>1, FiniteInduction
  <2> QED
    BY <2>2
<1>4. Held(Part(OpenOrders), u, a) = HeldUnits(u, a)
  <2>1. DOMAIN Part(OpenOrders) = OpenOrders /\ \A i \in OpenOrders : Part(OpenOrders)[i] = orders[i]
    OBVIOUS
  <2> HIDE DEF Part
  <2>2. Held(Part(OpenOrders), u, a) = Held(orders, u, a)
    BY <2>1 DEF Held, OpenOrders
  <2> QED
    BY <2>2, HeldUnitsIsHeld
<1> QED
  BY <1>3, <1>4

\* What an order's answer says it holds is what it has frozen.
LEMMA HoldingIs ==
    ASSUME Inv, NEW a \in Assets
    PROVE  /\ \A o \in InfosOf(OpenOrders) : Holding(a)[o] \in Nat /\ Holding(a)[o] = Holds(o, a)
           /\ \A u \in Users : \A i \in users[u] : Holding(a)[Info(i)] = HeldBy(u, a)[i]
<1>1. ASSUME NEW i \in OpenOrders
      PROVE  /\ Holds(Info(i), a) = IF Gives(orders[i].side) = a THEN orders[i].freeze * FeeOne ELSE 0
             /\ Holds(Info(i), a) \in Nat
  <2>1. /\ Info(i).side = orders[i].side /\ Info(i).price = orders[i].price /\ Info(i).left = orders[i].left
        /\ orders[i].freeze = Value(Gives(orders[i].side), orders[i].price, orders[i].left)
        /\ orders[i].freeze \in Nat
    BY InfoFacts DEF Order
  <2>2. Holds(Info(i), a) = IF Gives(orders[i].side) = a THEN orders[i].freeze * FeeOne ELSE 0
    BY <2>1 DEF Holds
  <2>3. orders[i].freeze * FeeOne \in Nat
    BY <2>1, FeesAssumption
  <2> QED
    BY <2>2, <2>3
<1>2. \A o \in InfosOf(OpenOrders) : Holding(a)[o] = Holds(o, a) /\ Holds(o, a) \in Nat
  BY <1>1 DEF Holding, InfosOf
<1>3. ASSUME NEW u \in Users, NEW i \in users[u] PROVE Holding(a)[Info(i)] = HeldBy(u, a)[i]
  <2>1. i \in OpenOrders /\ orders[i].user_id = u
    BY OpenFacts
  <2>2. Info(i) \in InfosOf(OpenOrders)
    BY <2>1 DEF InfosOf
  <2> QED
    BY <1>1, <1>2, <2>1, <2>2 DEF HeldBy, Owner
<1> QED
  BY <1>2, <1>3

\* The frozen balance of a user is the sum over the answers of its orders.
LEMMA FrozenIs ==
    ASSUME Inv, NEW a \in Assets, NEW u \in Users
    PROVE  balance[<<u, "FREEZE", a>>] = SumOf(Holding(a), InfosOf(users[u]))
<1> DEFINE w == HeldBy(u, a)
           v == Holding(a)
           S == users[u]
           h == [i \in S |-> Info(i)]
<1>1. IsFiniteSet(OpenOrders) /\ S \in SUBSET OpenOrders /\ IsFiniteSet(S)
  BY OpenFacts
<1>2. \A i \in OpenOrders : w[i] \in Nat
  BY HeldByNat
<1>3. \A i \in OpenOrders \ S : w[i] = 0
  BY OpenFacts DEF HeldBy, Owner
<1>4. \A i \in S : w[i] \in Nat /\ v[h[i]] = w[i]
  BY <1>1, <1>2, HoldingIs
<1>5. \A i, j \in S : h[i] = h[j] => i = j
  BY <1>1, AllInfos
<1>6. {h[i] : i \in S} = InfosOf(S)
  BY DEF InfosOf
<1>7. balance[<<u, "FREEZE", a>>] = SumOf(w, OpenOrders)
  BY HeldSum DEF Inv, FreezeBacked
<1> HIDE DEF w, v, S, h
<1>8. SumOf(w, OpenOrders) = SumOf(w, S)
  BY <1>1, <1>2, <1>3, SumZeros
<1>9. SumOf(v, {h[i] : i \in S}) = SumOf(w, S)
  BY <1>1, <1>4, <1>5, SumRenamed
<1> QED
  BY <1>6, <1>7, <1>8, <1>9 DEF v, S

\* SumFunction, for numbers that another function has too
LEMMA SumFunctionIs ==
    ASSUME NEW S, IsFiniteSet(S), NEW w, DOMAIN w = S, NEW v, \A x \in S : w[x] = v[x]
    PROVE  SumFunction(w) = SumOf(v, S)
<1>1. SumFunction(w) = SumOf(w, S)
  BY DEF SumFunction, SumOf
<1> QED
  BY <1>1, SumSame

\* Finitely many orders are answered.
LEMMA InfosFinite ==
    ASSUME Inv, NEW S \in SUBSET OpenOrders
    PROVE  /\ IsFiniteSet(S) /\ IsFiniteSet(InfosOf(S)) /\ InfosOf(S) \subseteq InfosOf(OpenOrders)
<1>1. IsFiniteSet(S)
  BY OpenFacts, FS_Subset
<1>2. IsFiniteSet(InfosOf(S))
  <2> DEFINE h == [i \in S |-> Info(i)]
  <2>1. h \in Surjection(S, InfosOf(S))
    BY DEF Surjection, InfosOf
  <2> HIDE DEF h
  <2> QED
    BY <1>1, <2>1, FS_Surjection
<1> QED
  BY <1>1, <1>2 DEF InfosOf

\* market_get_status sums what the pages show.
LEMMA LeftIs ==
    ASSUME Inv, NEW S \in SUBSET OpenOrders
    PROVE  /\ SumFunction([i \in S |-> orders[i].left]) = SumFunction([o \in InfosOf(S) |-> o.left])
<1> DEFINE w == [i \in S |-> orders[i].left]
           v == [o \in InfosOf(S) |-> o.left]
           h == [i \in S |-> Info(i)]
<1>1. IsFiniteSet(S) /\ IsFiniteSet(InfosOf(S))
  BY InfosFinite
<1>2. \A i \in S : w[i] \in Nat /\ v[h[i]] = w[i]
  <2> SUFFICES ASSUME NEW i \in S PROVE w[i] \in Nat /\ v[h[i]] = w[i]
    OBVIOUS
  <2>1. orders[i].left \in Nat /\ Info(i).left = orders[i].left
    BY InfoFacts DEF Order
  <2>2. Info(i) \in InfosOf(S)
    BY DEF InfosOf
  <2> QED
    BY <2>1, <2>2
<1>3. \A i, j \in S : h[i] = h[j] => i = j
  BY AllInfos
<1>4. {h[i] : i \in S} = InfosOf(S)
  BY DEF InfosOf
<1>5. DOMAIN w = S /\ DOMAIN v = InfosOf(S)
  OBVIOUS
<1> HIDE DEF w, v, h
<1>6. SumOf(v, {h[i] : i \in S}) = SumOf(w, S)
  BY <1>1, <1>2, <1>3, SumRenamed
<1>7. SumFunction(w) = SumOf(w, S) /\ SumFunction(v) = SumOf(v, InfosOf(S))
  BY <1>5 DEF SumFunction, SumOf
<1> QED
  BY <1>4, <1>6, <1>7 DEF w, v

\* balance_status goes over the balances of an asset.
Entries(a) == {k \in BalanceKeys : k[3] = a /\ balance[k] > 0}
EntriesOf(a, t) == {k \in Entries(a) : k[2] = t}
Amount(a, t) == [u \in Users |-> balance[<<u, t, a>>]]

\* The balances that are not zero sum to all users' balances of a type.
LEMMA EntriesSum ==
    ASSUME Inv, NEW a \in Assets, NEW t \in BalanceTypes
    PROVE  /\ IsFiniteSet(EntriesOf(a, t)) /\ \A k \in EntriesOf(a, t) : balance[k] \in Nat
           /\ SumOf(balance, EntriesOf(a, t)) = SumOf(Amount(a, t), Users)
           /\ \A u \in Users : Amount(a, t)[u] \in Nat /\ Amount(a, t)[u] = balance[<<u, t, a>>]
<1> DEFINE h == [u \in Users |-> <<u, t, a>>]
           K == {h[u] : u \in Users}
           w == Amount(a, t)
<1>1. balance \in [BalanceKeys -> Nat]
  BY DEF Inv, TypeOK
<1>2. \A u \in Users : w[u] = balance[<<u, t, a>>] /\ h[u] = <<u, t, a>> /\ <<u, t, a>> \in BalanceKeys
  BY DEF Amount, BalanceKeys
<1>3. \A u \in Users : w[u] \in Nat /\ balance[h[u]] = w[u]
  BY <1>1, <1>2
<1>4. \A u, v \in Users : h[u] = h[v] => u = v
  BY <1>2
<1>5. K = {<<u, t, a>> : u \in Users}
  OBVIOUS
<1> HIDE DEF h, w
<1>6. IsFiniteSet(K) /\ SumOf(balance, K) = SumOf(w, Users)
  BY <1>3, <1>4, UsersAssumption, SumRenamed
<1> HIDE DEF K
<1>7. \A k \in K : k \in BalanceKeys /\ k[2] = t /\ k[3] = a /\ balance[k] \in Nat
  BY <1>1, <1>2, <1>5
<1>8. \A k \in BalanceKeys : k[2] = t /\ k[3] = a => k \in K
  BY <1>5 DEF BalanceKeys
<1>9. EntriesOf(a, t) \in SUBSET K
  BY <1>8 DEF EntriesOf, Entries
<1>10. \A k \in K \ EntriesOf(a, t) : balance[k] = 0
  BY <1>7 DEF EntriesOf, Entries
<1>11. SumOf(balance, K) = SumOf(balance, EntriesOf(a, t))
  BY <1>6, <1>7, <1>9, <1>10, SumZeros
<1>12. IsFiniteSet(EntriesOf(a, t)) /\ \A k \in EntriesOf(a, t) : balance[k] \in Nat
  BY <1>6, <1>7, <1>9, FS_Subset
<1> QED
  BY <1>2, <1>3, <1>6, <1>11, <1>12 DEF w

\* What balance_status answers
LEMMA StatusIs ==
    ASSUME NEW a \in Assets
    PROVE  /\ OnCmdAssetSummary[a].total_balance = SumOf(balance, Entries(a))
           /\ OnCmdAssetSummary[a].available_balance = SumOf(balance, EntriesOf(a, "AVAILABLE"))
           /\ OnCmdAssetSummary[a].freeze_balance = SumOf(balance, EntriesOf(a, "FREEZE"))
BY DEF OnCmdAssetSummary, BalanceStatus, SumOf, Entries, EntriesOf

\* A balance is not shown larger than it is.
LEMMA ShownLess ==
    ASSUME NEW a \in Assets, NEW x \in Nat
    PROVE  Shown(a, x) \in Nat /\ Shown(a, x) <= x
BY ShowAssumption, DivFacts DEF Shown

\* asset.summary agrees with the answers about the orders and the users.
LEMMA SummaryAgrees ==
    ASSUME Inv, NEW a \in Assets
    PROVE  LET all == InfosOf(OpenOrders)
               sum == OnCmdAssetSummary[a]
           IN  /\ sum.freeze_balance = SumFunction([o \in all |-> Holds(o, a)])
               /\ sum.total_balance = sum.available_balance + sum.freeze_balance
               /\ sum.available_balance >= SumFunction([u \in Users |-> OnCmdBalanceQuery(u)[a].available])
<1> DEFINE all == InfosOf(OpenOrders)
           sum == OnCmdAssetSummary[a]
           free == EntriesOf(a, "AVAILABLE")
           held == EntriesOf(a, "FREEZE")
<1>1. /\ sum.total_balance = SumOf(balance, Entries(a))
      /\ sum.available_balance = SumOf(balance, free)
      /\ sum.freeze_balance = SumOf(balance, held)
  BY StatusIs
<1>2. "AVAILABLE" \in BalanceTypes /\ "FREEZE" \in BalanceTypes
  BY DEF BalanceTypes
<1> HIDE DEF sum
<1>3. sum.freeze_balance = SumFunction([o \in all |-> Holds(o, a)])
  <2> DEFINE w == Amount(a, "FREEZE")
             v == Holding(a)
             p == [o \in all |-> o.user_id]
             g == [u \in Users |-> SumOf(v, {o \in all : p[o] = u})]
  <2>1. IsFiniteSet(all) /\ \A o \in all : v[o] \in Nat /\ v[o] = Holds(o, a)
    BY InfosFinite, HoldingIs
  <2>2. \A o \in all : p[o] \in Users
    <3>1. \A i \in OpenOrders : Info(i).user_id \in Users
      BY InfoFacts DEF Order
    <3> QED
      BY <3>1 DEF InfosOf
  <2>3. \A u \in Users : w[u] = g[u]
    <3> SUFFICES ASSUME NEW u \in Users PROVE w[u] = g[u]
      OBVIOUS
    <3>1. {o \in all : p[o] = u} = InfosOf(users[u])
      <4>1. {o \in all : p[o] = u} = {o \in all : o.user_id = u}
        OBVIOUS
      <4> QED
        BY <4>1, AllInfos
    <3>2. g[u] = SumOf(v, InfosOf(users[u]))
      BY <3>1
    <3>3. w[u] = balance[<<u, "FREEZE", a>>]
      BY DEF Amount
    <3> QED
      BY <3>2, <3>3, FrozenIs
  <2>4. SumOf(balance, held) = SumOf(w, Users)
    BY <1>2, EntriesSum
  <2> HIDE DEF w, v, p, all, held
  <2>5. SumOf(v, all) = SumOf(g, Users)
    BY <2>1, <2>2, UsersAssumption, SumGrouped
  <2> HIDE DEF g
  <2>6. SumOf(w, Users) = SumOf(g, Users)
    BY <2>3, UsersAssumption, SumSame
  <2>7. SumFunction([o \in all |-> Holds(o, a)]) = SumOf(v, all)
    <3> DEFINE f == [o \in all |-> Holds(o, a)]
    <3>1. DOMAIN f = all /\ \A o \in all : f[o] = v[o]
      BY <2>1
    <3> HIDE DEF f
    <3>2. SumFunction(f) = SumOf(v, all)
      BY <2>1, <3>1, SumFunctionIs
    <3> QED
      BY <3>2 DEF f
  <2> QED
    BY <1>1, <2>4, <2>5, <2>6, <2>7 DEF held
<1>4. sum.total_balance = sum.available_balance + sum.freeze_balance
  <2>1. IsFiniteSet(free) /\ IsFiniteSet(held) /\ \A k \in free \cup held : balance[k] \in Nat
    BY <1>2, EntriesSum
  <2>2. Entries(a) = free \cup held /\ free \cap held = {}
    <3>1. \A k \in Entries(a) : k[2] = "AVAILABLE" \/ k[2] = "FREEZE"
      BY DEF Entries, BalanceKeys, BalanceTypes
    <3> QED
      BY <3>1 DEF EntriesOf
  <2> HIDE DEF free, held
  <2>3. SumOf(balance, free \cup held) = SumOf(balance, free) + SumOf(balance, held)
    BY <2>1, <2>2, SumUnion
  <2> QED
    BY <1>1, <2>2, <2>3
<1>5. sum.available_balance >= SumFunction([u \in Users |-> OnCmdBalanceQuery(u)[a].available])
  <2> DEFINE w == Amount(a, "AVAILABLE")
             f == [u \in Users |-> OnCmdBalanceQuery(u)[a].available]
  <2>1. SumOf(balance, free) = SumOf(w, Users) /\ \A u \in Users : w[u] \in Nat /\ w[u] = balance[<<u, "AVAILABLE", a>>]
    BY <1>2, EntriesSum
  <2>2. \A u \in Users : f[u] = Shown(a, w[u])
    BY <2>1 DEF OnCmdBalanceQuery
  <2>3. \A u \in Users : f[u] \in Nat /\ w[u] \in Nat /\ f[u] <= w[u]
    BY <2>1, <2>2, ShownLess
  <2>4. DOMAIN f = Users
    OBVIOUS
  <2> HIDE DEF w, f, free
  <2>5. SumOf(f, Users) \in Nat /\ SumOf(w, Users) \in Nat /\ SumOf(f, Users) <= SumOf(w, Users)
    BY <2>3, UsersAssumption, SumAtMost
  <2>6. SumFunction(f) = SumOf(f, Users)
    BY <2>4 DEF SumFunction, SumOf
  <2>7. sum.available_balance >= SumFunction(f)
    BY <1>1, <2>1, <2>5, <2>6
  <2> QED
    BY <2>7 DEF f
<1> QED
  BY <1>3, <1>4, <1>5 DEF sum

-----------------------------------------------------------------------------
(* The agreement *)

\* What a client is shown tells whether its order is refused.
LEMMA RefusalsShown ==
    ASSUME Inv, NEW u \in Users, NEW side \in Sides, NEW amount \in Amounts
    PROVE  RefusedAsShown(u, side, amount)
<1> DEFINE a == Gives(side)
           x == balance[<<u, "AVAILABLE", a>>]
           shown == OnCmdBalanceQuery(u)[a].available
           other == IF side = "ASK" THEN "BID" ELSE "ASK"
           others == OnCmdOrderBook(other, 0, 0).total
           answer == OnCmdOrderPutMarket(u, side, amount)
<1>1. a \in Assets /\ other \in Sides /\ Opposite(side) = Book(other)
  BY SideAssets DEF Sides, Opposite, Book
<1>2. x \in Nat
  BY <1>1 DEF Inv, TypeOK, BalanceKeys, BalanceTypes
<1>3. shown = Shown(a, x)
  BY <1>1 DEF OnCmdBalanceQuery
<1> HIDE DEF other
<1>4. others = Cardinality(Book(other)) /\ IsFiniteSet(Book(other))
  <2>1. 1 \in 1 .. ListMax
    BY ListMaxAssumption
  <2> QED
    BY <1>1, <2>1, BookPages, OpenFacts DEF OneSided
<1>5. others \in Nat /\ (others = 0 <=> Opposite(side) = {})
  BY <1>1, <1>4, FS_EmptySet, FS_CardinalityType
<1>6. shown \in Nat /\ shown <= x
  BY <1>1, <1>2, <1>3, ShownLess
<1> HIDE DEF a, x, shown, others
<1>7. answer = "balance not enough" => shown < Given(side, amount) * FeeOne
  <2>1. Given(side, amount) * FeeOne \in Nat
    <3>1. amount \in Nat /\ PriceOne \in Nat /\ FeeOne \in Nat
      BY AmountsAssumption, PriceOneAssumption, FeesAssumption
    <3>2. Given(side, amount) \in Nat
      BY <3>1, ProductNat DEF Given
    <3> QED
      BY <3>1, <3>2, ProductNat
  <2>2. answer = "balance not enough" => ~(x >= Given(side, amount) * FeeOne)
    BY DEF OnCmdOrderPutMarket, Covers, x, a
  <2>3. PICK y \in Nat : y = Given(side, amount) * FeeOne
    BY <2>1
  <2>4. ~(x >= y) => shown < y
    BY <1>2, <1>6
  <2> QED
    BY <2>2, <2>3, <2>4
<1>8. /\ answer = "no enough trader" => others = 0
      /\ answer = "taken" => others > 0
  BY <1>5 DEF OnCmdOrderPutMarket
<1>9. ASSUME NEW price \in Prices, OnCmdOrderPutLimit(u, side, amount, price) = "balance not enough"
      PROVE  shown < Value(a, price, amount) * FeeOne
  <2>1. Value(a, price, amount) * FeeOne \in Nat
    <3>1. amount \in Nat /\ price \in Nat /\ FeeOne \in Nat
      BY AmountsAssumption, PricesAssumption, FeesAssumption
    <3>2. Value(a, price, amount) \in Nat
      BY <1>1, <3>1, ValueType
    <3> QED
      BY <3>1, <3>2, ProductNat
  <2>2. ~(x >= Value(a, price, amount) * FeeOne)
    BY <1>9 DEF OnCmdOrderPutLimit, Covers, x, a
  <2> QED
    BY <1>2, <1>6, <2>1, <2>2
<1> QED
  BY <1>7, <1>8, <1>9 DEF RefusedAsShown, a, shown, others, other

\* The market's status is what the pages of its books show.
LEMMA MarketSummaryAgrees ==
    ASSUME Inv, NEW length \in 1 .. ListMax
    PROVE  OnCmdMarketSummary =
              [ask_count |-> Len(BookOf("ASK", length)),
               ask_amount |-> SumFunction([o \in Members(BookOf("ASK", length)) |-> o.left]),
               bid_count |-> Len(BookOf("BID", length)),
               bid_amount |-> SumFunction([o \in Members(BookOf("BID", length)) |-> o.left])]
<1>1. ASSUME NEW side \in Sides
      PROVE  /\ Len(BookOf(side, length)) = Cardinality(Book(side))
             /\ SumFunction([i \in Book(side) |-> orders[i].left])
                   = SumFunction([o \in Members(BookOf(side, length)) |-> o.left])
  <2>1. /\ Len(BookOf(side, length)) = Cardinality(Book(side))
        /\ Members(BookOf(side, length)) = InfosOf(Book(side))
    BY BookPages
  <2>2. Book(side) \in SUBSET OpenOrders
    BY OpenFacts
  <2> QED
    BY <2>1, <2>2, LeftIs
<1>2. "ASK" \in Sides /\ "BID" \in Sides /\ Book("ASK") = asks /\ Book("BID") = bids
  BY DEF Sides, Book
<1> QED
  BY <1>1, <1>2 DEF OnCmdMarketSummary

\* order.detail knows the orders of the books.
LEMMA DetailAgrees ==
    ASSUME Inv
    PROVE  /\ \A i \in OrderIds : OnCmdOrderDetail(i) \in InfosOf(OpenOrders) \cup {Null}
           /\ \A o \in InfosOf(OpenOrders) : OnCmdOrderDetail(o.id) = o
<1>1. \A i \in OpenOrders : Info(i).id = i
  BY InfoFacts
<1> QED
  BY <1>1 DEF InfosOf, OnCmdOrderDetail

\* What the commands answer in a state of Inv fits together.
LEMMA AnswersAgree == Inv => AnswersFitTogether
<1> SUFFICES ASSUME Inv, NEW length \in 1 .. ListMax
             PROVE  LET book_of == [side \in Sides |-> BookOf(side, length)]
                        all == Members(book_of["ASK"]) \cup Members(book_of["BID"])
                        of == [u \in Users |-> OrdersOf(u, length)]
                        sums == OnCmdAssetSummary
                    IN  /\ \A side \in Sides : \A k, l \in DOMAIN book_of[side] :
                              k < l => MatchesBefore(book_of[side][k], book_of[side][l])
                        /\ \A u \in Users :
                              /\ Members(of[u]) = {o \in all : o.user_id = u}
                              /\ \A k, l \in DOMAIN of[u] : k < l => of[u][k].id > of[u][l].id
                              /\ \A a \in Assets :
                                    OnCmdBalanceQuery(u)[a].freeze
                                       = Shown(a, SumFunction([o \in Members(of[u]) |-> Holds(o, a)]))
                        /\ \A u \in Users, side \in Sides, amount \in Amounts : RefusedAsShown(u, side, amount)
                        /\ \A i \in OrderIds : OnCmdOrderDetail(i) \in all \cup {Null}
                        /\ \A o \in all : OnCmdOrderDetail(o.id) = o
                        /\ OnCmdMarketSummary =
                              [ask_count |-> Len(book_of["ASK"]),
                               ask_amount |-> SumFunction([o \in Members(book_of["ASK"]) |-> o.left]),
                               bid_count |-> Len(book_of["BID"]),
                               bid_amount |-> SumFunction([o \in Members(book_of["BID"]) |-> o.left])]
                        /\ \A a \in Assets :
                              /\ sums[a].freeze_balance = SumFunction([o \in all |-> Holds(o, a)])
                              /\ sums[a].total_balance = sums[a].available_balance + sums[a].freeze_balance
                              /\ sums[a].available_balance
                                    >= SumFunction([u \in Users |-> OnCmdBalanceQuery(u)[a].available])
  BY Zenon DEF AnswersFitTogether
<1> DEFINE book_of == [side \in Sides |-> BookOf(side, length)]
           all == Members(book_of["ASK"]) \cup Members(book_of["BID"])
           of == [u \in Users |-> OrdersOf(u, length)]
           sums == OnCmdAssetSummary
<1>1. /\ \A side \in Sides : book_of[side] = BookOf(side, length)
      /\ \A u \in Users : of[u] = OrdersOf(u, length)
      /\ "ASK" \in Sides /\ "BID" \in Sides
  BY DEF Sides
<1> HIDE DEF book_of, of
<1>2. all = InfosOf(OpenOrders)
  BY <1>1, BookPages, AllInfos
<1> HIDE DEF all, sums
<1>3. \A side \in Sides : \A k, l \in DOMAIN book_of[side] :
         k < l => MatchesBefore(book_of[side][k], book_of[side][l])
  BY <1>1, BookPages
<1>4. ASSUME NEW u \in Users
      PROVE  /\ Members(of[u]) = {o \in all : o.user_id = u}
             /\ \A k, l \in DOMAIN of[u] : k < l => of[u][k].id > of[u][l].id
             /\ \A a \in Assets :
                   OnCmdBalanceQuery(u)[a].freeze = Shown(a, SumFunction([o \in Members(of[u]) |-> Holds(o, a)]))
  <2>1. of[u] = OrdersOf(u, length) /\ Members(of[u]) = InfosOf(users[u])
    BY <1>1, UserPages
  <2>2. ASSUME NEW a \in Assets
        PROVE  OnCmdBalanceQuery(u)[a].freeze = Shown(a, SumFunction([o \in Members(of[u]) |-> Holds(o, a)]))
    <3> DEFINE S == InfosOf(users[u])
               f == [o \in S |-> Holds(o, a)]
    <3>1. IsFiniteSet(S) /\ S \subseteq InfosOf(OpenOrders)
      BY OpenFacts, InfosFinite
    <3>2. DOMAIN f = S /\ \A o \in S : f[o] = Holding(a)[o]
      BY <3>1, HoldingIs
    <3> HIDE DEF f, S
    <3>3. SumFunction(f) = SumOf(Holding(a), S)
      BY <3>1, <3>2, SumFunctionIs
    <3>4. OnCmdBalanceQuery(u)[a].freeze = Shown(a, balance[<<u, "FREEZE", a>>])
      BY DEF OnCmdBalanceQuery
    <3>5. OnCmdBalanceQuery(u)[a].freeze = Shown(a, SumFunction(f))
      BY <3>3, <3>4, FrozenIs DEF S
    <3> QED
      BY <2>1, <3>5 DEF f, S
  <2>3. Members(of[u]) = {o \in all : o.user_id = u}
    BY <1>2, <2>1, AllInfos
  <2>4. \A k, l \in DOMAIN of[u] : k < l => of[u][k].id > of[u][l].id
    BY <2>1, UserPages
  <2> QED
    BY <2>2, <2>3, <2>4
<1>5. \A u \in Users, side \in Sides, amount \in Amounts : RefusedAsShown(u, side, amount)
  BY RefusalsShown
<1>6. /\ \A i \in OrderIds : OnCmdOrderDetail(i) \in all \cup {Null}
      /\ \A o \in all : OnCmdOrderDetail(o.id) = o
  BY <1>2, DetailAgrees
<1>7. OnCmdMarketSummary =
         [ask_count |-> Len(book_of["ASK"]),
          ask_amount |-> SumFunction([o \in Members(book_of["ASK"]) |-> o.left]),
          bid_count |-> Len(book_of["BID"]),
          bid_amount |-> SumFunction([o \in Members(book_of["BID"]) |-> o.left])]
  BY <1>1, MarketSummaryAgrees
<1>8. \A a \in Assets :
         /\ sums[a].freeze_balance = SumFunction([o \in all |-> Holds(o, a)])
         /\ sums[a].total_balance = sums[a].available_balance + sums[a].freeze_balance
         /\ sums[a].available_balance >= SumFunction([u \in Users |-> OnCmdBalanceQuery(u)[a].available])
  BY <1>2, SummaryAgrees DEF sums
<1> QED
  BY ONLY <1>3, <1>4, <1>5, <1>6, <1>7, <1>8, Zenon DEF book_of, all, of, sums

\* However a client cuts its pages, order.query, order.book, order.detail, balance.query,
\* market.summary and asset.summary tell one story, and an order is refused as the balance
\* shown and the book tell: in every reachable state, for any users, prices, fees and limits.
THEOREM AnswersAlwaysAgree == Spec => []AnswersFitTogether
<1>1. Inv => AnswersFitTogether
  BY AnswersAgree
<1> QED
  BY <1>1, Invariance, PTL
==============================================================================
