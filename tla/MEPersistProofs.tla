--------------------------- MODULE MEPersistProofs ---------------------------
(***************************************************************************)
(* Proofs about MEPersist, for any operations, queue, days and number of   *)
(* crashes: a start of the engine rebuilds what the logged operations had  *)
(* made, it never fails, and it forgets nothing that is in the log.        *)
(*                                                                         *)
(* A restart replays from a base: the slice with the last id, or nothing.  *)
(* The invariant says of each base, and of each slice that is being made   *)
(* and may become one, which operations behind it are in the tables and    *)
(* in which days, and that no key comes twice among them.                  *)
(***************************************************************************)
EXTENDS MEPersist, FiniteSetTheorems, SequenceTheorems, TLAPS

-----------------------------------------------------------------------------
(* Numbers and days *)

\* The greatest of some numbers with a bound
LEMMA MaxIs ==
    ASSUME NEW S \in SUBSET Nat, S # {}, NEW n \in Nat, \A x \in S : x <= n
    PROVE  Max(S) \in S /\ \A x \in S : x <= Max(S)
<1> DEFINE T == {m \in Nat : \A x \in S : x <= m}
<1>1. PICK m \in T : \A k \in T : ~(<<k, m>> \in OpToRel(<, Nat))
  <2>1. T \subseteq Nat /\ n \in T
    OBVIOUS
  <2> HIDE DEF T
  <2> QED
    BY <2>1, NatLessThanWellFounded, WFMin
<1>2. m \in Nat /\ \A x \in S : x <= m
  BY <1>1
<1>3. m \in S
  <2> SUFFICES ASSUME m \notin S PROVE FALSE
    OBVIOUS
  <2>1. ASSUME NEW x \in S PROVE x <= m - 1
    <3>1. x \in Nat /\ x <= m /\ x # m
      BY <1>2
    <3> QED
      BY <1>2, <3>1
  <2>2. m - 1 \in T
    <3>1. PICK x \in S : x \in Nat /\ x <= m - 1
      BY <2>1
    <3>2. m - 1 \in Nat
      BY <1>2, <3>1
    <3> QED
      BY <2>1, <3>2
  <2>3. <<m - 1, m>> \in OpToRel(<, Nat)
    BY <1>2, <2>2 DEF OpToRel
  <2> QED
    BY <1>1, <2>2, <2>3
<1> QED
  BY <1>2, <1>3 DEF Max

\* Induction over the numbers with a set in place of an operator
LEMMA SetInduction ==
    ASSUME NEW S, 0 \in S, \A n \in Nat : n \in S => n + 1 \in S
    PROVE  Nat \subseteq S
<1> DEFINE T == Nat \ S
<1> SUFFICES ASSUME T # {} PROVE FALSE
  OBVIOUS
<1>1. PICK n \in T : \A m \in T : ~(<<m, n>> \in OpToRel(<, Nat))
  <2>1. T \subseteq Nat
    OBVIOUS
  <2> HIDE DEF T
  <2> QED
    BY <2>1, NatLessThanWellFounded, WFMin
<1>2. n \in Nat /\ n # 0
  BY <1>1
<1>3. n - 1 \in Nat /\ (n - 1) + 1 = n
  BY <1>2
<1>4. n - 1 \in T
  BY <1>1, <1>3
<1>5. <<n - 1, n>> \in OpToRel(<, Nat)
  BY <1>2, <1>3 DEF OpToRel
<1> QED
  BY <1>1, <1>4, <1>5

\* Later times are not of earlier days, and a day has DayLength seconds.
LEMMA DayGrows ==
    ASSUME NEW a \in Nat, NEW b \in Nat, a <= b
    PROVE  /\ Day(a) \in Nat /\ Day(a) <= Day(b)
           /\ Day(b) = Day(a) => b <= a + DayLength
<1>1. DayLength \in Nat /\ DayLength > 0
  BY SettingsAssumption
<1> DEFINE d == DayLength
           x == a \div d
           y == b \div d
<1>2. /\ x \in Nat /\ y \in Nat
      /\ x * d <= a /\ a < x * d + d /\ y * d <= b /\ b < y * d + d
  BY <1>1
<1>3. x <= y
  <2> SUFFICES ASSUME x >= y + 1 PROVE FALSE
    BY <1>2
  <2>1. PICK k \in Nat : x = y + 1 + k
    <3>1. x - y - 1 \in Nat /\ x = y + 1 + (x - y - 1)
      BY <1>2
    <3> QED
      BY <3>1
  <2>2. x * d = y * d + d + k * d /\ k * d >= 0
    BY <1>1, <1>2, <2>1
  <2> QED
    BY <1>1, <1>2, <2>2
<1>4. x = y => b <= a + d
  BY <1>1, <1>2
<1> QED
  BY <1>2, <1>3, <1>4 DEF Day

-----------------------------------------------------------------------------
(* What an operation makes of the memory *)

\* The part of the memory that a slice keeps, and the memory
ImageOK(a) ==
    /\ a = [avail |-> a.avail, frozen |-> a.frozen, orders |-> a.orders,
            order_id_start |-> a.order_id_start]
    /\ a.avail \in Int /\ a.frozen \in Int /\ a.order_id_start \in Nat
    /\ a.orders = [i \in DOMAIN a.orders |-> a.orders[i]]
    /\ DOMAIN a.orders \subseteq 1..a.order_id_start
    /\ \A i \in DOMAIN a.orders : a.orders[i] \in Nat \ {0}
Mem(avail, frozen, orders, order_id_start, seen) ==
    [avail |-> avail, frozen |-> frozen, orders |-> orders, order_id_start |-> order_id_start,
     seen |-> seen]
MemOK(m) ==
    /\ m = Mem(m.avail, m.frozen, m.orders, m.order_id_start, m.seen)
    /\ ImageOK(Image(m))
    /\ \A k \in DOMAIN m.seen : m.seen[k] \in Int

KeyAdded(seen, key) == [k \in DOMAIN seen \cup {key} |-> IF k = key THEN now ELSE seen[k]]
OrderAdded(orders, id, amount) ==
    [i \in DOMAIN orders \cup {id} |-> IF i = id THEN amount ELSE orders[i]]
OrderLeft(orders, id) == [i \in DOMAIN orders \ {id} |-> orders[i]]

\* b is what op makes of a.
UpdateMakes(a, op, b) ==
    /\ op.method = "update_balance" /\ op.change \in Int /\ a.avail + op.change >= 0
    /\ b = [avail |-> a.avail + op.change, frozen |-> a.frozen, orders |-> a.orders,
            order_id_start |-> a.order_id_start]
LimitMakes(a, op, b) ==
    /\ op.method = "limit_order" /\ op.amount \in Nat \ {0} /\ a.avail >= op.amount
    /\ b = [avail |-> a.avail - op.amount, frozen |-> a.frozen + op.amount,
            orders |-> OrderAdded(a.orders, a.order_id_start + 1, op.amount),
            order_id_start |-> a.order_id_start + 1]
CancelMakes(a, op, b) ==
    /\ op.method = "cancel_order" /\ op.order_id \in DOMAIN a.orders
    /\ b = [avail |-> a.avail + a.orders[op.order_id],
            frozen |-> a.frozen - a.orders[op.order_id],
            orders |-> OrderLeft(a.orders, op.order_id),
            order_id_start |-> a.order_id_start]
Makes(a, op, b) == UpdateMakes(a, op, b) \/ LimitMakes(a, op, b) \/ CancelMakes(a, op, b)

\* The keys after an operation: an update adds its own, with the present time.
KeysAfter(m, op, n) ==
    IF op.method = "update_balance"
    THEN MissesKey(m, op.key) /\ n.seen = KeyAdded(m.seen, op.key)
    ELSE n.seen = m.seen

\* update_user_balance, field by field
LEMMA UpdateFields ==
    ASSUME NEW a, NEW f, NEW o, NEW i, NEW s, NEW m, m = Mem(a, f, o, i, s), NEW key, NEW change
    PROVE  UpdateUserBalance(m, key, change) =
             IF MissesKey(m, key) /\ a + change >= 0
             THEN {Mem(a + change, f, o, i, KeyAdded(s, key))}
             ELSE {}
<1> DEFINE y == KeyAdded(s, key)
<1>1. m.avail = a /\ m.seen = s
  BY DEF Mem
<1>2. UpdateUserBalance(m, key, change) = IF MissesKey(m, key) /\ m.avail + change >= 0 THEN
   {[m EXCEPT !.avail = m.avail + change,
              !.seen = [k \in DOMAIN m.seen \cup {key} |-> IF k = key THEN now ELSE m.seen[k]]]}
    ELSE {}
  BY DEF UpdateUserBalance
<1>3. [k \in DOMAIN m.seen \cup {key} |-> IF k = key THEN now ELSE m.seen[k]] = y
  BY <1>1 DEF KeyAdded
<1> HIDE DEF y
<1>5. [m EXCEPT !.avail = a + change, !.seen = y] = Mem(a + change, f, o, i, y)
  <2> DEFINE n == [m EXCEPT !.avail = a + change]
  <2> HIDE DEF n
  <2>1. n = Mem(a + change, f, o, i, s)
    BY DEF n, Mem
  <2>2. [n EXCEPT !.seen = y] = Mem(a + change, f, o, i, y)
    BY <2>1 DEF Mem
  <2>3. [m EXCEPT !.avail = a + change, !.seen = y] = [n EXCEPT !.seen = y]
    BY Zenon DEF n
  <2> QED
    BY <2>2, <2>3
<1> QED
  BY <1>1, <1>2, <1>3, <1>5 DEF y

\* market_put_order
LEMMA PutFields ==
    ASSUME NEW a, NEW f, NEW o, NEW i, NEW s, NEW m, m = Mem(a, f, o, i, s), NEW id, NEW amount
    PROVE  OrderPut(m, id, amount) =
             Mem(IF a >= amount THEN a - amount ELSE a, IF a >= amount THEN f + amount ELSE f,
                 OrderAdded(o, id, amount), i, s)
<1> DEFINE x == OrderAdded(o, id, amount)
           y == IF a >= amount THEN a - amount ELSE a
           z == IF a >= amount THEN f + amount ELSE f
<1>1. m.avail = a /\ m.orders = o /\ m.frozen = f
  BY DEF Mem
<1>2. OrderPut(m, id, amount) =
   [m EXCEPT !.orders = [j \in DOMAIN m.orders \cup {id} |-> IF j = id THEN amount ELSE m.orders[j]],
                  !.avail = IF m.avail >= amount THEN m.avail - amount ELSE m.avail,
                  !.frozen = IF m.avail >= amount THEN m.frozen + amount ELSE m.frozen]
  BY DEF OrderPut
<1>3. [j \in DOMAIN m.orders \cup {id} |-> IF j = id THEN amount ELSE m.orders[j]] = x
  BY <1>1 DEF OrderAdded
<1>6. /\ (IF m.avail >= amount THEN m.avail - amount ELSE m.avail) = y
      /\ (IF m.avail >= amount THEN m.frozen + amount ELSE m.frozen) = z
  BY <1>1
<1> HIDE DEF x, y, z
<1>5. [m EXCEPT !.orders = x, !.avail = y, !.frozen = z] = Mem(y, z, x, i, s)
  <2> DEFINE n == [m EXCEPT !.orders = x]
             l == [n EXCEPT !.avail = y]
  <2> HIDE DEF n, l
  <2>1. n = Mem(a, f, x, i, s)
    BY DEF n, Mem
  <2>2. l = Mem(y, f, x, i, s)
    BY <2>1 DEF l, Mem
  <2>3. [l EXCEPT !.frozen = z] = Mem(y, z, x, i, s)
    BY <2>2 DEF Mem
  <2>4. [m EXCEPT !.orders = x, !.avail = y, !.frozen = z] = [l EXCEPT !.frozen = z]
    BY Zenon DEF n, l
  <2> QED
    BY <2>3, <2>4
<1> QED
  BY <1>2, <1>3, <1>5, <1>6 DEF x, y, z

\* market_cancel_order
LEMMA CancelFields ==
    ASSUME NEW a, NEW f, NEW o, NEW i, NEW s, NEW m, m = Mem(a, f, o, i, s), NEW id
    PROVE  CancelOrder(m, id) =
             IF id \in DOMAIN o
             THEN {Mem(a + o[id], f - o[id], OrderLeft(o, id), i, s)} ELSE {}
<1> DEFINE x == OrderLeft(o, id)
           y == a + o[id]
           z == f - o[id]
<1>1. m.avail = a /\ m.orders = o /\ m.frozen = f
  BY DEF Mem
<1>2. CancelOrder(m, id) = IF id \in DOMAIN m.orders THEN
   {[m EXCEPT !.orders = [j \in DOMAIN m.orders \ {id} |-> m.orders[j]],
                  !.avail = m.avail + m.orders[id],
                  !.frozen = m.frozen - m.orders[id]]} ELSE {}
  BY DEF CancelOrder
<1>3. [j \in DOMAIN m.orders \ {id} |-> m.orders[j]] = x
  BY <1>1 DEF OrderLeft
<1>6. m.avail + m.orders[id] = y /\ m.frozen - m.orders[id] = z
  BY <1>1
<1> HIDE DEF x, y, z
<1>5. [m EXCEPT !.orders = x, !.avail = y, !.frozen = z] = Mem(y, z, x, i, s)
  <2> DEFINE n == [m EXCEPT !.orders = x]
             l == [n EXCEPT !.avail = y]
  <2> HIDE DEF n, l
  <2>1. n = Mem(a, f, x, i, s)
    BY DEF n, Mem
  <2>2. l = Mem(y, f, x, i, s)
    BY <2>1 DEF l, Mem
  <2>3. [l EXCEPT !.frozen = z] = Mem(y, z, x, i, s)
    BY <2>2 DEF Mem
  <2>4. [m EXCEPT !.orders = x, !.avail = y, !.frozen = z] = [l EXCEPT !.frozen = z]
    BY Zenon DEF n, l
  <2> QED
    BY <2>3, <2>4
<1> QED
  BY <1>1, <1>2, <1>3, <1>5, <1>6 DEF x, y, z

\* Without a fraction to cut, decimal leaves a number as it is.
LEMMA DecimalIs == ASSUME NEW x \in Int PROVE Decimal(x, 1) = x
<1>1. x \div 1 = x /\ (-x) \div 1 = -x
  OBVIOUS
<1> QED
  BY <1>1 DEF Decimal

\* update_user_balance
LEMMA UpdateIs ==
    ASSUME NEW m, MemOK(m), now \in Nat, NEW key, NEW change \in Int, NEW op,
           op.method = "update_balance", op.key = key, op.change = change
    PROVE  /\ \A n \in UpdateUserBalance(m, key, change) :
                 MemOK(n) /\ Makes(Image(m), op, Image(n)) /\ KeysAfter(m, op, n)
           /\ \A b : UpdateMakes(Image(m), op, b) /\ key \notin DOMAIN m.seen =>
                 \E n : UpdateUserBalance(m, key, change) = {n} /\ Image(n) = b
<1> DEFINE seen == KeyAdded(m.seen, key)
           n == Mem(m.avail + change, m.frozen, m.orders, m.order_id_start, seen)
<1>1. m = Mem(m.avail, m.frozen, m.orders, m.order_id_start, m.seen)
  BY DEF MemOK
<1>2. UpdateUserBalance(m, key, change)
        = IF MissesKey(m, key) /\ m.avail + change >= 0 THEN {n} ELSE {}
  BY <1>1, UpdateFields
<1>3. ASSUME MissesKey(m, key), m.avail + change >= 0
      PROVE  MemOK(n) /\ Makes(Image(m), op, Image(n)) /\ KeysAfter(m, op, n)
  <2>1. MemOK(n)
    BY DEF MemOK, ImageOK, Image, Mem, KeyAdded
  <2>2. UpdateMakes(Image(m), op, Image(n))
    BY <1>3 DEF UpdateMakes, Image, Mem
  <2>3. KeysAfter(m, op, n)
    BY <1>3 DEF KeysAfter, Mem, KeyAdded
  <2> QED
    BY <2>1, <2>2, <2>3 DEF Makes
<1>4. ASSUME NEW b, UpdateMakes(Image(m), op, b) PROVE m.avail + change >= 0 /\ Image(n) = b
  BY <1>4 DEF UpdateMakes, Image, Mem
<1>5. key \notin DOMAIN m.seen => MissesKey(m, key)
  BY DEF MissesKey
<1> QED
  BY <1>2, <1>3, <1>4, <1>5

\* market_put_limit_order
LEMMA PutIs ==
    ASSUME NEW m, MemOK(m), NEW amount \in Nat \ {0}, NEW op, op.method = "limit_order", op.amount = amount
    PROVE  /\ \A n \in PutLimitOrder(m, amount) :
                 MemOK(n) /\ Makes(Image(m), op, Image(n)) /\ KeysAfter(m, op, n)
           /\ \A b : LimitMakes(Image(m), op, b) =>
                 \E n : PutLimitOrder(m, amount) = {n} /\ Image(n) = b
<1> DEFINE id == m.order_id_start + 1
           orders == OrderAdded(m.orders, id, amount)
           n == Mem(m.avail - amount, m.frozen + amount, orders, id, m.seen)
<1>1. PutLimitOrder(m, amount) = IF m.avail >= amount THEN {n} ELSE {}
  <2> DEFINE m1 == [m EXCEPT !.order_id_start = @ + 1]
  <2>1. m1 = Mem(m.avail, m.frozen, m.orders, id, m.seen)
    BY DEF MemOK, Mem
  <2> HIDE DEF m1
  <2>2. OrderPut(m1, id, amount)
          = Mem(IF m.avail >= amount THEN m.avail - amount ELSE m.avail,
                IF m.avail >= amount THEN m.frozen + amount ELSE m.frozen, orders, id, m.seen)
    BY <2>1, PutFields
  <2>3. PutLimitOrder(m, amount) = IF m.avail >= amount THEN {OrderPut(m1, id, amount)} ELSE {}
    BY DEF PutLimitOrder, m1
  <2> QED
    BY <2>2, <2>3
<1>2. ASSUME m.avail >= amount
      PROVE  MemOK(n) /\ Makes(Image(m), op, Image(n)) /\ KeysAfter(m, op, n)
  <2>1. m.avail \in Int /\ m.frozen \in Int /\ m.order_id_start \in Nat
    BY DEF MemOK, ImageOK, Image, Mem
  <2>2. /\ DOMAIN orders \subseteq 1..id
        /\ \A i \in DOMAIN orders : orders[i] \in Nat \ {0}
    BY <2>1 DEF MemOK, ImageOK, Image, Mem, OrderAdded
  <2>3. orders = [i \in DOMAIN orders |-> orders[i]]
    BY DEF OrderAdded
  <2> HIDE DEF orders
  <2>4. ImageOK(Image(n))
    BY <2>1, <2>2, <2>3 DEF ImageOK, Image, Mem
  <2>5. LimitMakes(Image(m), op, Image(n))
    BY <1>2 DEF LimitMakes, Image, Mem, orders
  <2> QED
    BY <2>4, <2>5 DEF MemOK, Makes, KeysAfter, Mem
<1>3. ASSUME NEW b, LimitMakes(Image(m), op, b) PROVE m.avail >= amount /\ Image(n) = b
  BY <1>3 DEF LimitMakes, Image, Mem
<1> QED
  BY <1>1, <1>2, <1>3

\* market_cancel_order
LEMMA CancelIs ==
    ASSUME NEW m, MemOK(m), NEW id, NEW op, op.method = "cancel_order", op.order_id = id
    PROVE  /\ \A n \in CancelOrder(m, id) :
                 MemOK(n) /\ Makes(Image(m), op, Image(n)) /\ KeysAfter(m, op, n)
           /\ \A b : CancelMakes(Image(m), op, b) =>
                 \E n : CancelOrder(m, id) = {n} /\ Image(n) = b
<1> DEFINE orders == OrderLeft(m.orders, id)
           n == Mem(m.avail + m.orders[id], m.frozen - m.orders[id], orders, m.order_id_start, m.seen)
<1>1. CancelOrder(m, id) = IF id \in DOMAIN m.orders THEN {n} ELSE {}
  BY CancelFields DEF MemOK
<1>2. ASSUME id \in DOMAIN m.orders
      PROVE  MemOK(n) /\ Makes(Image(m), op, Image(n)) /\ KeysAfter(m, op, n)
  <2>1. m.avail \in Int /\ m.frozen \in Int /\ m.orders[id] \in Int
    BY <1>2 DEF MemOK, ImageOK, Image, Mem
  <2>2. ImageOK(Image(n))
    BY <2>1 DEF MemOK, ImageOK, Image, Mem, OrderLeft
  <2>3. CancelMakes(Image(m), op, Image(n))
    BY <1>2 DEF CancelMakes, Image, Mem
  <2> QED
    BY <2>2, <2>3 DEF MemOK, Makes, KeysAfter, Mem
<1>3. ASSUME NEW b, CancelMakes(Image(m), op, b) PROVE id \in DOMAIN m.orders /\ Image(n) = b
  BY <1>3 DEF CancelMakes, Image, Mem
<1> QED
  BY <1>1, <1>2, <1>3

\* An operation done again on what it was done on makes what it made (load_oper).
LEMMA LoadOperIs ==
    ASSUME NEW m, MemOK(m), now \in Nat, NEW op, NEW b, Makes(Image(m), op, b),
           op.method = "update_balance" => op.key \notin DOMAIN m.seen
    PROVE  \E n : LoadOper(m, op) = {n} /\ MemOK(n) /\ Image(n) = b /\ KeysAfter(m, op, n)
<1>1. CASE UpdateMakes(Image(m), op, b)
  <2>1. op.method = "update_balance" /\ op.change \in Int
    BY <1>1 DEF UpdateMakes
  <2>2. LoadOper(m, op) = UpdateUserBalance(m, op.key, op.change)
    BY <2>1, DecimalIs DEF LoadOper, LoadUpdateBalance
  <2>3. PICK n : UpdateUserBalance(m, op.key, op.change) = {n} /\ Image(n) = b
    BY <1>1, <2>1, UpdateIs
  <2>4. MemOK(n) /\ KeysAfter(m, op, n)
    BY <2>1, <2>3, UpdateIs
  <2> QED
    BY <2>2, <2>3, <2>4
<1>2. CASE LimitMakes(Image(m), op, b)
  <2>1. op.method = "limit_order" /\ op.amount \in Nat \ {0}
    BY <1>2 DEF LimitMakes
  <2>2. LoadOper(m, op) = PutLimitOrder(m, op.amount)
    BY <2>1 DEF LoadOper, LoadLimitOrder
  <2>3. PICK n : PutLimitOrder(m, op.amount) = {n} /\ Image(n) = b
    BY <1>2, <2>1, PutIs
  <2>4. MemOK(n) /\ KeysAfter(m, op, n)
    BY <2>1, <2>3, PutIs
  <2> QED
    BY <2>2, <2>3, <2>4
<1>3. CASE CancelMakes(Image(m), op, b)
  <2>1. op.method = "cancel_order"
    BY <1>3 DEF CancelMakes
  <2>2. LoadOper(m, op) = CancelOrder(m, op.order_id)
    BY <2>1 DEF LoadOper, LoadCancelOrder
  <2>3. PICK n : CancelOrder(m, op.order_id) = {n} /\ Image(n) = b
    BY <1>3, <2>1, CancelIs
  <2>4. MemOK(n) /\ KeysAfter(m, op, n)
    BY <2>1, <2>3, CancelIs
  <2> QED
    BY <2>2, <2>3, <2>4
<1> QED
  BY <1>1, <1>2, <1>3 DEF Makes

-----------------------------------------------------------------------------
(* Recursive functions *)

\* Two functions that start alike and go on alike are alike.
LEMMA StepsAgree ==
    ASSUME NEW f, NEW g, NEW lo \in Int, NEW hi \in Int, f[lo] = g[lo],
           \A i \in lo + 1 .. hi : f[i - 1] = g[i - 1] => f[i] = g[i]
    PROVE  \A i \in lo..hi : f[i] = g[i]
<1> DEFINE S == {n \in Nat : lo + n <= hi => f[lo + n] = g[lo + n]}
<1>1. 0 \in S
  BY lo + 0 = lo
<1>2. ASSUME NEW n \in Nat, n \in S PROVE n + 1 \in S
  <2>1. CASE lo + (n + 1) <= hi
    <3>1. lo + (n + 1) \in lo + 1 .. hi /\ lo + (n + 1) - 1 = lo + n /\ lo + n <= hi
      BY <2>1
    <3> QED
      BY <1>2, <3>1
  <2>2. CASE ~(lo + (n + 1) <= hi)
    BY <2>2
  <2> QED
    BY <2>1, <2>2
<1>3. Nat \subseteq S
  <2> HIDE DEF S
  <2> QED
    BY <1>1, <1>2, SetInduction
<1>4. ASSUME NEW i \in lo..hi PROVE f[i] = g[i]
  <2>1. i - lo \in Nat /\ lo + (i - lo) = i /\ i <= hi
    OBVIOUS
  <2>2. i - lo \in S
    BY <1>3, <2>1
  <2> QED
    BY <2>1, <2>2
<1> QED
  BY <1>4

-----------------------------------------------------------------------------
(* Loading a slice *)

\* The memory that a slice, or the operations up to one, and some keys make
AsMem(a, seen) == Mem(a.avail, a.frozen, a.orders, a.order_id_start, seen)
OrdersUpTo(orders, i) == [j \in {k \in DOMAIN orders : k <= i} |-> orders[j]]

\* The slice s is the memory m.
SliceIs(s, m) ==
    /\ s.time \in DOMAIN slice_order \cap DOMAIN slice_balance
    /\ slice_order[s.time] = m.orders
    /\ slice_balance[s.time] = [avail |-> m.avail, frozen |-> m.frozen]
    /\ s.end_order_id = m.order_id_start

\* load_slice_from_db restores the memory that was dumped, but for the keys: the
\* freezes of its orders fail on an empty balance, which is then overwritten.
LEMMA LoadSliceIs ==
    ASSUME NEW s, NEW m, ImageOK(m), SliceIs(s, m)
    PROVE  LoadSlice(s) = {AsMem(m, Empty)}
<1> DEFINE n == s.end_order_id
           o == m.orders
           g == [i \in 0..n |-> Mem(0, 0, OrdersUpTo(o, i), n, Empty)]
           step(h, i) == IF i = 0 THEN [EmptyMem EXCEPT !.order_id_start = n]
                         ELSE IF i \in DOMAIN slice_order[s.time]
                              THEN OrderPut(h[i - 1], i, slice_order[s.time][i]) ELSE h[i - 1]
<1>1. /\ n \in Nat /\ DOMAIN o \subseteq 1..n /\ o = [i \in DOMAIN o |-> o[i]]
      /\ \A i \in DOMAIN o : o[i] \in Nat \ {0}
      /\ slice_order[s.time] = o
  BY DEF ImageOK, SliceIs
<1>2. g[0] = step(g, 0)
  <2>1. OrdersUpTo(o, 0) = Empty
    BY <1>1 DEF OrdersUpTo, Empty
  <2>2. [EmptyMem EXCEPT !.order_id_start = n] = Mem(0, 0, Empty, n, Empty)
    BY DEF EmptyMem, Mem
  <2> QED
    BY <1>1, <2>1, <2>2
<1>3. ASSUME NEW i \in 1..n PROVE g[i] = step(g, i)
  <2>1. g[i] = Mem(0, 0, OrdersUpTo(o, i), n, Empty) /\ g[i - 1] = Mem(0, 0, OrdersUpTo(o, i - 1), n, Empty)
    BY <1>1
  <2>2. CASE i \in DOMAIN o
    <3>1. o[i] \in Nat \ {0}
      BY <1>1, <2>2
    <3>2. OrderPut(g[i - 1], i, o[i])
            = Mem(IF 0 >= o[i] THEN 0 - o[i] ELSE 0, IF 0 >= o[i] THEN 0 + o[i] ELSE 0,
                  OrderAdded(OrdersUpTo(o, i - 1), i, o[i]), n, Empty)
      <4> DEFINE q == OrdersUpTo(o, i - 1)
                 h == g[i - 1]
                 x == o[i]
      <4>1. h = Mem(0, 0, q, n, Empty)
        BY <2>1
      <4> HIDE DEF q, h, x
      <4>2. OrderPut(h, i, x) = Mem(IF 0 >= x THEN 0 - x ELSE 0, IF 0 >= x THEN 0 + x ELSE 0,
                                    OrderAdded(q, i, x), n, Empty)
        BY <4>1, PutFields
      <4> QED
        BY <4>2 DEF q, h, x
    <3>3. OrderAdded(OrdersUpTo(o, i - 1), i, o[i]) = OrdersUpTo(o, i)
      <4>1. DOMAIN OrdersUpTo(o, i - 1) \cup {i} = DOMAIN OrdersUpTo(o, i)
        BY <1>1, <2>2 DEF OrdersUpTo
      <4> QED
        BY <1>1, <4>1 DEF OrderAdded, OrdersUpTo
    <3> QED
      BY <1>1, <2>1, <2>2, <3>1, <3>2, <3>3
  <2>3. CASE i \notin DOMAIN o
    <3>1. {k \in DOMAIN o : k <= i} = {k \in DOMAIN o : k <= i - 1}
      BY <1>1, <2>3
    <3>2. OrdersUpTo(o, i) = OrdersUpTo(o, i - 1)
      BY <3>1 DEF OrdersUpTo
    <3> QED
      BY <1>1, <2>1, <2>3, <3>2
  <2> QED
    BY <2>2, <2>3
<1>4. g = [i \in 0..n |-> step(g, i)]
  <2>1. \A i \in 0..n : g[i] = step(g, i)
    <3>1. \A i \in 0..n : i = 0 \/ i \in 1..n
      BY <1>1
    <3> HIDE DEF g, step
    <3> QED
      BY <1>2, <1>3, <3>1
  <2>2. g = [i \in 0..n |-> g[i]]
    OBVIOUS
  <2> HIDE DEF g, step
  <2> QED
    BY <2>1, <2>2
<1> DEFINE f == CHOOSE h : h = [i \in 0..n |-> step(h, i)]
<1>5. f = [i \in 0..n |-> step(f, i)]
  <2> HIDE DEF g, step
  <2> QED
    BY <1>4
<1>6. f[n] = g[n]
  <2>1. f[0] = g[0]
    <3>1. step(f, 0) = step(g, 0) /\ 0 \in 0..n
      BY <1>1
    <3> HIDE DEF f, g, step
    <3> QED
      BY <1>2, <1>5, <3>1
  <2>2. ASSUME NEW i \in 0 + 1 .. n, f[i - 1] = g[i - 1] PROVE f[i] = g[i]
    <3>1. i \in 0..n /\ i # 0 /\ i \in 1..n
      BY <1>1
    <3>2. step(f, i) = step(g, i)
      BY <2>2, <3>1
    <3>3. f[i] = step(f, i)
      <4> HIDE DEF f, g, step
      <4> QED
        BY <1>5, <3>1
    <3> HIDE DEF f, g, step
    <3> QED
      BY <1>3, <3>1, <3>2, <3>3
  <2> HIDE DEF f, g
  <2>3. \A i \in 0..n : f[i] = g[i]
    <3>1. 0 \in Int /\ n \in Int
      BY <1>1
    <3> HIDE DEF n
    <3> QED
      BY <2>1, <2>2, <3>1, StepsAgree
  <2> QED
    BY <1>1, <2>3
<1>7. g[n] = Mem(0, 0, o, n, Empty)
  <2>1. {k \in DOMAIN o : k <= n} = DOMAIN o
    BY <1>1
  <2>2. OrdersUpTo(o, n) = o
    BY <1>1, <2>1 DEF OrdersUpTo
  <2> QED
    BY <1>1, <2>2
<1>8. LoadSlice(s) = {[f[n] EXCEPT !.avail = slice_balance[s.time].avail,
                                   !.frozen = slice_balance[s.time].frozen]}
  BY DEF LoadSlice, SliceIs
<1> HIDE DEF f, g, step
<1> DEFINE a == slice_balance[s.time].avail
           b == slice_balance[s.time].frozen
<1>9. a = m.avail /\ b = m.frozen
  BY DEF SliceIs
<1> HIDE DEF a, b
<1>10. [f[n] EXCEPT !.avail = a, !.frozen = b] = Mem(a, b, o, n, Empty)
  <2> DEFINE l == f[n]
             h == [l EXCEPT !.avail = a]
  <2>1. l = Mem(0, 0, o, n, Empty)
    BY <1>6, <1>7
  <2> HIDE DEF l, h
  <2>2. h = Mem(a, 0, o, n, Empty)
    BY <2>1 DEF h, Mem
  <2>3. [h EXCEPT !.frozen = b] = Mem(a, b, o, n, Empty)
    BY <2>2 DEF Mem
  <2>4. [l EXCEPT !.avail = a, !.frozen = b] = [h EXCEPT !.frozen = b]
    BY Zenon DEF h
  <2> QED
    BY <2>3, <2>4 DEF l
<1>11. n = m.order_id_start
  BY DEF SliceIs
<1> QED
  BY <1>8, <1>9, <1>10, <1>11 DEF AsMem, a, b

-----------------------------------------------------------------------------
(* The replay of the log *)

\* The rows of the tables: their ids, days and what they made
EntryOK(e) ==
    /\ e.id \in 1..MaxOps
    /\ ImageOK(made[e.id - 1]) /\ ImageOK(made[e.id]) /\ Makes(made[e.id - 1], e.op, made[e.id])
RowOK(r) == EntryOK(r) /\ r.day \in Nat
TablesOK ==
    /\ \A r \in operlog : RowOK(r) /\ r.day <= Day(now)
    /\ \A a, b \in operlog : (a.id = b.id => a = b) /\ (a.id < b.id => a.day <= b.day)

\* Behind the operation oper no row is missing before another one, and no key is
\* used twice.
IsUpdate(e) == e.op.method = "update_balance"
Closed(oper) == \A r \in operlog : \A i \in oper + 1 .. r.id : \E a \in operlog : a.id = i
KeysDiffer(oper, E) ==
    \A e, f \in E : e.id > oper /\ f.id > oper /\ IsUpdate(e) /\ IsUpdate(f)
                       /\ e.op.key = f.op.key => e.id = f.id

\* What may be replayed after oper
Replayable(oper) ==
    /\ TablesOK /\ now \in Nat /\ MaxOps \in Nat
    /\ oper \in 0..MaxOps /\ ImageOK(made[oper]) /\ Closed(oper) /\ KeysDiffer(oper, operlog)

\* The memory after the operations oper + 1 .. n
KeysTo(oper, n) == {r.op.key : r \in {q \in operlog : q.id > oper /\ q.id <= n /\ IsUpdate(q)}}
AllNow(K) == [k \in K |-> now]
At(oper, n) == AsMem(made[n], AllNow(KeysTo(oper, n)))

\* It is what is to be restored.
LEMMA AtIs ==
    ASSUME NEW oper, NEW n, ImageOK(made[n]), now \in Nat
    PROVE  /\ MemOK(At(oper, n)) /\ Image(At(oper, n)) = made[n]
           /\ At(oper, n).seen = AllNow(KeysTo(oper, n))
<1> DEFINE a == made[n]
           m == At(oper, n)
<1>1. /\ m.avail = a.avail /\ m.frozen = a.frozen /\ m.orders = a.orders
      /\ m.order_id_start = a.order_id_start /\ m.seen = AllNow(KeysTo(oper, n))
      /\ m = Mem(m.avail, m.frozen, m.orders, m.order_id_start, m.seen)
  BY DEF At, AsMem, Mem
<1>2. a = [avail |-> a.avail, frozen |-> a.frozen, orders |-> a.orders,
           order_id_start |-> a.order_id_start]
  BY DEF ImageOK
<1> HIDE DEF a, m
<1>3. Image(m) = a
  BY <1>1, <1>2 DEF Image
<1>4. \A k \in DOMAIN m.seen : m.seen[k] \in Int
  BY <1>1 DEF AllNow
<1>5. ImageOK(a)
  BY DEF a
<1>6. MemOK(m)
  BY <1>1, <1>3, <1>4, <1>5 DEF MemOK
<1> QED
  BY <1>1, <1>3, <1>6 DEF a, m

\* One operation of the log
LEMMA ReplayStep ==
    ASSUME NEW oper, Replayable(oper), NEW r \in operlog, r.id > oper
    PROVE  LoadOper(At(oper, r.id - 1), r.op) = {At(oper, r.id)}
<1> DEFINE n == r.id
           m == At(oper, n - 1)
           K == KeysTo(oper, n - 1)
<1>1. /\ RowOK(r) /\ n \in 1..MaxOps /\ now \in Nat /\ oper \in Nat
      /\ \A q \in operlog : q.id \in Nat
  BY DEF Replayable, TablesOK, RowOK, EntryOK
<1>2. /\ MemOK(m) /\ Image(m) = made[n - 1] /\ m.seen = AllNow(K)
  BY <1>1, AtIs DEF RowOK, EntryOK
<1>3. ASSUME IsUpdate(r) PROVE r.op.key \notin K
  <2> SUFFICES ASSUME r.op.key \in K PROVE FALSE
    OBVIOUS
  <2>1. PICK q \in operlog : q.id > oper /\ q.id <= n - 1 /\ IsUpdate(q) /\ q.op.key = r.op.key
    BY DEF KeysTo
  <2>2. q.id = r.id
    BY <1>3, <2>1 DEF Replayable, KeysDiffer
  <2> QED
    BY <1>1, <2>1, <2>2
<1>4. KeysTo(oper, n) = IF IsUpdate(r) THEN K \cup {r.op.key} ELSE K
  <2>1. ASSUME NEW q \in operlog, q.id > oper, q.id <= n, IsUpdate(q)
        PROVE  q.id <= n - 1 \/ q = r
    BY <1>1, <2>1 DEF Replayable, TablesOK
  <2>2. \A q \in operlog : q.id <= n - 1 => q.id <= n
    BY <1>1
  <2>3. n <= n /\ n > oper /\ ~(n <= n - 1)
    BY <1>1
  <2> QED
    BY <2>1, <2>2, <2>3 DEF KeysTo
<1> HIDE DEF m, K
<1>5. DOMAIN m.seen = K
  BY <1>2 DEF AllNow
<1>6. PICK l : LoadOper(m, r.op) = {l} /\ MemOK(l) /\ Image(l) = made[n] /\ KeysAfter(m, r.op, l)
  <2>1. Makes(Image(m), r.op, made[n])
    BY <1>1, <1>2 DEF RowOK, EntryOK
  <2>2. r.op.method = "update_balance" => r.op.key \notin DOMAIN m.seen
    BY <1>3, <1>5 DEF IsUpdate
  <2> QED
    BY <1>1, <1>2, <2>1, <2>2, LoadOperIs
<1>7. l.seen = AllNow(KeysTo(oper, n))
  <2>1. CASE IsUpdate(r)
    <3>1. l.seen = KeyAdded(m.seen, r.op.key)
      BY <1>6, <2>1 DEF KeysAfter, IsUpdate
    <3>2. KeyAdded(AllNow(K), r.op.key) = AllNow(K \cup {r.op.key})
      BY DEF KeyAdded, AllNow
    <3> QED
      BY <1>2, <1>4, <2>1, <3>1, <3>2
  <2>2. CASE ~IsUpdate(r)
    BY <1>2, <1>4, <1>6, <2>2 DEF KeysAfter, IsUpdate
  <2> QED
    BY <2>1, <2>2
<1>8. l = At(oper, n)
  <2> DEFINE a == made[n]
  <2>1. /\ l.avail = a.avail /\ l.frozen = a.frozen /\ l.orders = a.orders
        /\ l.order_id_start = a.order_id_start
    BY <1>6 DEF Image
  <2>2. l = Mem(l.avail, l.frozen, l.orders, l.order_id_start, l.seen)
    BY <1>6 DEF MemOK
  <2> HIDE DEF a
  <2>3. l = Mem(a.avail, a.frozen, a.orders, a.order_id_start, l.seen)
    BY <2>1, <2>2
  <2> QED
    BY <1>7, <2>3 DEF At, AsMem, a
<1> QED
  BY <1>6, <1>8 DEF m

\* The last operation in a table of a day up to d
IdsTo(oper, d) == {oper} \cup {r.id : r \in {q \in operlog : q.id > oper /\ q.day <= d}}
EndOf(oper, d) == Max(IdsTo(oper, d))

\* It is that of a row of such a table, or oper when there is none.
LEMMA EndIs ==
    ASSUME NEW oper, Replayable(oper), NEW d
    PROVE  /\ EndOf(oper, d) \in oper..MaxOps
           /\ \A r \in operlog : r.day <= d => r.id <= EndOf(oper, d)
           /\ \/ EndOf(oper, d) = oper
              \/ \E r \in operlog : r.id = EndOf(oper, d) /\ r.id > oper /\ r.day <= d
<1> DEFINE S == IdsTo(oper, d)
<1>1. oper \in Nat /\ MaxOps \in Nat /\ oper <= MaxOps /\ \A q \in operlog : q.id \in 1..MaxOps
  BY DEF Replayable, TablesOK, RowOK, EntryOK
<1>2. S \in SUBSET Nat /\ oper \in S /\ \A x \in S : x <= MaxOps
  BY <1>1 DEF IdsTo
<1>3. Max(S) \in S /\ \A x \in S : x <= Max(S)
  <2> HIDE DEF S
  <2> QED
    BY <1>1, <1>2, MaxIs
<1>4. EndOf(oper, d) = Max(S)
  BY DEF EndOf
<1>5. \/ Max(S) = oper
      \/ \E r \in operlog : r.id = Max(S) /\ r.id > oper /\ r.day <= d
  BY <1>3 DEF IdsTo
<1>6. ASSUME NEW r \in operlog, r.day <= d PROVE r.id <= Max(S)
  <2>1. CASE r.id > oper
    <3>1. r.id \in S
      BY <1>6, <2>1 DEF IdsTo
    <3> QED
      BY <1>3, <3>1
  <2>2. CASE ~(r.id > oper)
    <3> DEFINE x == Max(S)
    <3>1. x \in Nat /\ oper <= x
      BY <1>2, <1>3
    <3>2. r.id \in Nat
      BY <1>1
    <3> HIDE DEF x
    <3>3. r.id <= x
      BY <1>1, <2>2, <3>1, <3>2
    <3> QED
      BY <3>3 DEF x
  <2> QED
    BY <2>1, <2>2
<1> HIDE DEF S
<1>7. Max(S) \in oper..MaxOps
  <2> DEFINE x == Max(S)
  <2>1. x \in Nat /\ oper <= x /\ x <= MaxOps
    BY <1>2, <1>3
  <2> HIDE DEF x
  <2>2. x \in oper..MaxOps
    BY <1>1, <2>1
  <2> QED
    BY <2>2 DEF x
<1> QED
  BY <1>4, <1>5, <1>6, <1>7

\* The rows of the table of day d that a replay reads are those between the last
\* operations of the day before and of d.
RowsOf(last, d) == {r \in operlog : r.day = d /\ r.id > last}

\* They are consecutive, so their number says where the replay of the table ends.
LEMMA RowsAre ==
    ASSUME NEW oper, Replayable(oper), NEW d \in Int
    PROVE  LET last == EndOf(oper, d - 1)
               end == EndOf(oper, d)
           IN  /\ last \in oper..MaxOps /\ end \in last..MaxOps
               /\ {r.id : r \in RowsOf(last, d)} = last + 1 .. end
               /\ Cardinality(RowsOf(last, d)) = end - last
<1> DEFINE last == EndOf(oper, d - 1)
           end == EndOf(oper, d)
           R == RowsOf(last, d)
<1>1. /\ oper \in Nat /\ MaxOps \in Nat
      /\ \A q \in operlog : q.id \in 1..MaxOps /\ q.id \in Nat /\ q.day \in Nat
      /\ \A a, b \in operlog : (a.id = b.id => a = b) /\ (a.id < b.id => a.day <= b.day)
  BY DEF Replayable, TablesOK, RowOK, EntryOK
<1>2. /\ last \in oper..MaxOps
      /\ \A r \in operlog : r.day <= d - 1 => r.id <= last
      /\ last = oper \/ \E r \in operlog : r.id = last /\ r.id > oper /\ r.day <= d - 1
  BY EndIs
<1>3. /\ end \in oper..MaxOps
      /\ \A r \in operlog : r.day <= d => r.id <= end
      /\ end = oper \/ \E r \in operlog : r.id = end /\ r.id > oper /\ r.day <= d
  BY EndIs
<1> HIDE DEF last, end
<1>4. end \in last..MaxOps
  <2>1. CASE last = oper
    BY <1>1, <1>2, <1>3, <2>1
  <2>2. CASE last # oper
    <3>1. PICK r \in operlog : r.id = last /\ r.day <= d - 1
      BY <1>2, <2>2
    <3>2. r.day <= d
      BY <1>1, <3>1
    <3>3. last <= end
      BY <1>3, <3>1, <3>2
    <3> QED
      BY <1>1, <1>2, <1>3, <3>3
  <2> QED
    BY <2>1, <2>2
<1>5. ASSUME NEW r \in R PROVE r.id \in last + 1 .. end
  <2>1. r \in operlog /\ r.day = d /\ r.id > last /\ r.day <= d
    BY <1>1 DEF RowsOf
  <2>2. r.id <= end /\ r.id \in Nat
    BY <1>1, <1>3, <2>1
  <2> QED
    BY <1>1, <1>2, <1>3, <2>1, <2>2
<1>6. ASSUME NEW i \in last + 1 .. end PROVE \E r \in R : r.id = i
  <2>1. i \in Nat /\ i > last /\ i > oper /\ i <= end /\ end # oper /\ i \in oper + 1 .. end
    BY <1>1, <1>2, <1>3
  <2>2. PICK q \in operlog : q.id = end /\ q.day <= d
    BY <1>3, <2>1
  <2>3. PICK r \in operlog : r.id = i
    BY <2>1, <2>2 DEF Replayable, Closed
  <2>4. r.day <= d
    <3>1. r = q \/ r.id < q.id
      BY <1>1, <2>1, <2>2, <2>3
    <3> QED
      BY <1>1, <2>2, <3>1
  <2>5. ~(r.day <= d - 1)
    BY <1>1, <1>2, <2>1, <2>3
  <2>6. r.day = d
    BY <1>1, <2>4, <2>5
  <2> QED
    BY <2>1, <2>3, <2>6 DEF RowsOf
<1>7. {r.id : r \in R} = last + 1 .. end
  <2> HIDE DEF R
  <2> QED
    BY <1>5, <1>6
<1>8. Cardinality(R) = end - last
  <2> DEFINE I == last + 1 .. end
             f == [i \in I |-> CHOOSE r \in R : r.id = i]
  <2>1. \A i \in I : f[i] \in R /\ f[i].id = i
    BY <1>6
  <2>2. \A r \in R : r.id \in I /\ f[r.id] = r
    <3>1. \A a, b \in R : a.id = b.id => a = b
      BY <1>1 DEF RowsOf
    <3> HIDE DEF R, f
    <3> QED
      BY <1>5, <2>1, <3>1
  <2>3. f \in [I -> R] /\ \A i, j \in I : f[i] = f[j] => i = j
    <3> HIDE DEF R
    <3>1. f \in [I -> R]
      BY <2>1
    <3> HIDE DEF f
    <3> QED
      BY <2>1, <3>1
  <2>4. f \in Bijection(I, R)
    <3> HIDE DEF R, f, I
    <3> QED
      BY <2>1, <2>2, <2>3 DEF Bijection, Injection, Surjection, IsInjective
  <2>5. last \in Int /\ last + 1 \in Int /\ end \in Int
    BY <1>1, <1>2, <1>4
  <2>6. IsFiniteSet(I) /\ Cardinality(I) = IF last + 1 <= end THEN end - (last + 1) + 1 ELSE 0
    BY <2>5, FS_Interval
  <2>7. Cardinality(R) = Cardinality(I)
    <3> HIDE DEF R, I, f
    <3> QED
      BY <2>4, <2>6, FS_Bijection DEF ExistsBijection
  <2>8. last <= end
    BY <1>1, <1>2, <1>4
  <2> HIDE DEF R, I, f
  <2> QED
    BY <2>5, <2>6, <2>7, <2>8
<1> QED
  BY <1>2, <1>4, <1>7, <1>8 DEF last, end

\* load_operlog, on the table of day d
LEMMA LoadTable ==
    ASSUME NEW oper, Replayable(oper), NEW d \in Int
    PROVE  LoadOperlog({At(oper, EndOf(oper, d - 1))}, EndOf(oper, d - 1), d)
             = [end |-> EndOf(oper, d), mems |-> {At(oper, EndOf(oper, d))}]
<1> DEFINE last == EndOf(oper, d - 1)
           end == EndOf(oper, d)
           R == RowsOf(last, d)
           M == {At(oper, last)}
           step(h, i) == IF i = last THEN M
                         ELSE UNION {LoadOper(m, (CHOOSE r \in R : r.id = i).op) : m \in h[i - 1]}
           f == CHOOSE h : h = [i \in last..end |-> step(h, i)]
           g == [i \in last..end |-> {At(oper, i)}]
<1>1. /\ last \in oper..MaxOps /\ end \in last..MaxOps
      /\ {r.id : r \in R} = last + 1 .. end
      /\ Cardinality(R) = end - last
  BY RowsAre
<1>2. oper \in Nat /\ last \in Int /\ end \in Int /\ last <= end
  BY <1>1 DEF Replayable
<1> HIDE DEF last, end
<1>3. ASSUME NEW i \in last + 1 .. end, NEW h, h[i - 1] = {At(oper, i - 1)}
      PROVE  step(h, i) = {At(oper, i)}
  <2> DEFINE r == CHOOSE q \in R : q.id = i
  <2>1. r \in R /\ r.id = i
    <3> HIDE DEF R
    <3>1. \E q \in R : q.id = i
      BY <1>1
    <3> QED
      BY <3>1
  <2> HIDE DEF r
  <2>2. r \in operlog /\ r.id > oper
    BY <1>1, <1>2, <2>1 DEF RowsOf
  <2>3. LoadOper(At(oper, i - 1), r.op) = {At(oper, i)}
    BY <2>1, <2>2, ReplayStep
  <2>4. i # last
    BY <1>2
  <2>5. step(h, i) = UNION {LoadOper(m, r.op) : m \in {At(oper, i - 1)}}
    BY <1>3, <2>4 DEF r
  <2> DEFINE a == At(oper, i - 1)
  <2> HIDE DEF a
  <2>6. UNION {LoadOper(m, r.op) : m \in {a}} = LoadOper(a, r.op)
    OBVIOUS
  <2> HIDE DEF step
  <2> QED
    BY <2>3, <2>5, <2>6 DEF a
<1>4. \A i \in last..end : g[i] = step(g, i)
  <2> TAKE i \in last..end
  <2>1. CASE i = last
    BY <2>1
  <2>2. CASE i # last
    <3>1. i \in last + 1 .. end /\ i - 1 \in last..end
      BY <1>2, <2>2
    <3>2. g[i] = {At(oper, i)} /\ g[i - 1] = {At(oper, i - 1)}
      BY <3>1
    <3> HIDE DEF g, step
    <3> QED
      BY <1>3, <3>1, <3>2
  <2> QED
    BY <2>1, <2>2
<1>5. g = [i \in last..end |-> step(g, i)]
  <2>1. g = [i \in last..end |-> g[i]]
    OBVIOUS
  <2> HIDE DEF g, step
  <2> QED
    BY <1>4, <2>1
<1>6. f = [i \in last..end |-> step(f, i)]
  <2> HIDE DEF g, step
  <2> QED
    BY <1>5
<1>7. f[end] = g[end]
  <2>1. f[last] = g[last]
    <3>1. f[last] = step(f, last) /\ g[last] = step(g, last) /\ last \in last..end
      <4> HIDE DEF f, g, step
      <4> QED
        BY <1>2, <1>4, <1>6
    <3>2. step(f, last) = step(g, last)
      BY DEF step
    <3> HIDE DEF f, g, step
    <3> QED
      BY <3>1, <3>2
  <2>2. ASSUME NEW i \in last + 1 .. end, f[i - 1] = g[i - 1] PROVE f[i] = g[i]
    <3>1. i \in last..end /\ i - 1 \in last..end
      BY <1>2
    <3>2. g[i] = {At(oper, i)} /\ g[i - 1] = {At(oper, i - 1)}
      BY <3>1
    <3>3. f[i] = step(f, i)
      <4> HIDE DEF f, g, step
      <4> QED
        BY <1>6, <3>1
    <3> HIDE DEF f, g, step
    <3> QED
      BY <1>3, <2>2, <3>2, <3>3
  <2> HIDE DEF f, g
  <2>3. \A i \in last..end : f[i] = g[i]
    BY <1>2, <2>1, <2>2, StepsAgree
  <2> QED
    BY <1>2, <2>3
<1>8. g[end] = {At(oper, end)}
  BY <1>2
<1>9. last + Cardinality(R) = end
  BY <1>1, <1>2
<1>10. LoadOperlog(M, last, d) = [end |-> end, mems |-> f[end]]
  <2> DEFINE e == last + Cardinality(R)
             fe == CHOOSE h : h = [i \in last..e |-> step(h, i)]
  <2>1. LoadOperlog(M, last, d)
          = IF {r.id : r \in R} = (last + 1)..e
            THEN [end |-> e, mems |-> fe[e]] ELSE [end |-> last, mems |-> {}]
    BY Zenon DEF LoadOperlog, RowsOf
  <2>2. e = end
    BY <1>9
  <2>3. fe = f
    <3> HIDE DEF e, step
    <3> QED
      BY <2>2
  <2> HIDE DEF e, fe, f
  <2> QED
    BY <1>1, <2>1, <2>2, <2>3
<1> HIDE DEF f, g
<1> QED
  BY <1>7, <1>8, <1>10 DEF last, end

\* The loop of init_from_db over the days since the slice
LEMMA LoadDaysIs ==
    ASSUME NEW oper, Replayable(oper), NEW begin \in Nat, begin <= now,
           \A r \in operlog : r.id > oper => r.day >= Day(begin)
    PROVE  LoadDays({At(oper, oper)}, oper, begin)
             = [end |-> EndOf(oper, Day(now)), mems |-> {At(oper, EndOf(oper, Day(now)))}]
<1> DEFINE lo == Day(begin) - 1
           hi == Day(now)
           M == {At(oper, oper)}
           step(h, d) == IF d < Day(begin) THEN [end |-> oper, mems |-> M]
                         ELSE LoadOperlog(h[d - 1].mems, h[d - 1].end, d)
           f == CHOOSE h : h = [d \in lo..hi |-> step(h, d)]
           g == [d \in lo..hi |-> [end |-> EndOf(oper, d), mems |-> {At(oper, EndOf(oper, d))}]]
<1>1. Day(begin) \in Nat /\ hi \in Nat /\ Day(begin) <= hi /\ now \in Nat
  <2>1. now \in Nat
    BY DEF Replayable
  <2> QED
    BY <2>1, DayGrows
<1>2. lo \in Int /\ hi \in Int /\ lo <= hi /\ lo < Day(begin)
  BY <1>1
<1>3. EndOf(oper, lo) = oper
  <2>1. \A r \in operlog : r.day \in Nat
    BY DEF Replayable, TablesOK, RowOK, EntryOK
  <2>2. \A r \in operlog : r.id > oper => ~(r.day <= lo)
    BY <1>1, <2>1
  <2> HIDE DEF lo
  <2> QED
    BY <2>2, EndIs
<1>4. ASSUME NEW d \in lo + 1 .. hi, NEW h, h[d - 1] = g[d - 1] PROVE step(h, d) = g[d]
  <2>1. ~(d < Day(begin)) /\ d \in lo..hi /\ d - 1 \in lo..hi /\ d \in Int
    BY <1>1
  <2>2. /\ g[d - 1] = [end |-> EndOf(oper, d - 1), mems |-> {At(oper, EndOf(oper, d - 1))}]
        /\ g[d] = [end |-> EndOf(oper, d), mems |-> {At(oper, EndOf(oper, d))}]
    BY <2>1
  <2>3. h[d - 1].mems = {At(oper, EndOf(oper, d - 1))} /\ h[d - 1].end = EndOf(oper, d - 1)
    <3> HIDE DEF g
    <3> QED
      BY <1>4, <2>2
  <2>4. step(h, d) = LoadOperlog({At(oper, EndOf(oper, d - 1))}, EndOf(oper, d - 1), d)
    BY <2>1, <2>3
  <2> HIDE DEF g, step
  <2> QED
    BY <2>1, <2>2, <2>4, LoadTable
<1>5. ASSUME NEW h PROVE step(h, lo) = g[lo]
  <2>1. g[lo] = [end |-> EndOf(oper, lo), mems |-> {At(oper, EndOf(oper, lo))}]
    BY <1>2
  <2>2. step(h, lo) = [end |-> oper, mems |-> M]
    BY <1>2
  <2> HIDE DEF step, g, lo
  <2> QED
    BY <1>3, <2>1, <2>2
<1>6. g = [d \in lo..hi |-> step(g, d)]
  <2>1. \A d \in lo..hi : g[d] = step(g, d)
    <3> TAKE d \in lo..hi
    <3>1. d = lo \/ d \in lo + 1 .. hi
      BY <1>2
    <3> HIDE DEF g, step
    <3> QED
      BY <1>4, <1>5, <3>1
  <2>2. g = [d \in lo..hi |-> g[d]]
    OBVIOUS
  <2> HIDE DEF g, step
  <2> QED
    BY <2>1, <2>2
<1>7. f = [d \in lo..hi |-> step(f, d)]
  <2> HIDE DEF g, step
  <2> QED
    BY <1>6
<1>8. f[hi] = g[hi]
  <2> HIDE DEF f, g, step, lo, hi
  <2>1. f[lo] = g[lo]
    <3>1. lo \in lo..hi
      BY <1>2
    <3> QED
      BY <1>5, <1>7, <3>1
  <2>2. ASSUME NEW d \in lo + 1 .. hi, f[d - 1] = g[d - 1] PROVE f[d] = g[d]
    <3>1. d \in lo..hi
      BY <1>2
    <3> QED
      BY <1>4, <1>7, <2>2, <3>1
  <2>3. \A d \in lo..hi : f[d] = g[d]
    BY <1>2, <2>1, <2>2, StepsAgree
  <2> QED
    BY <1>2, <2>3
<1>9. g[hi] = [end |-> EndOf(oper, hi), mems |-> {At(oper, EndOf(oper, hi))}]
  BY <1>2
<1>10. LoadDays(M, oper, begin) = f[hi]
  BY Zenon DEF LoadDays
<1> HIDE DEF f, g
<1> QED
  BY <1>8, <1>9, <1>10

\* What is restored at the end: every operation of the tables, and its key
LEMMA AllRestored ==
    ASSUME NEW oper, Replayable(oper)
    PROVE  LET n == EndOf(oper, Day(now))
               m == At(oper, n)
           IN  /\ n \in oper..MaxOps /\ n \in 0..MaxOps /\ ImageOK(made[n])
               /\ MemOK(m) /\ Image(m) = made[n]
               /\ \A r \in operlog : r.id <= n
               /\ \A i \in oper + 1 .. n : \E r \in operlog : r.id = i
               /\ \A r \in operlog : r.id > oper /\ IsUpdate(r) =>
                     r.op.key \in DOMAIN m.seen /\ m.seen[r.op.key] = now
<1> DEFINE n == EndOf(oper, Day(now))
           m == At(oper, n)
<1>1. /\ n \in oper..MaxOps
      /\ \A r \in operlog : r.day <= Day(now) => r.id <= n
      /\ n = oper \/ \E r \in operlog : r.id = n /\ r.id > oper
  BY EndIs
<1>2. /\ oper \in 0..MaxOps /\ MaxOps \in Nat /\ now \in Nat /\ ImageOK(made[oper])
      /\ \A r \in operlog : r.day <= Day(now) /\ RowOK(r)
  BY DEF Replayable, TablesOK
<1> HIDE DEF n
<1>3. n \in 0..MaxOps
  BY <1>1, <1>2
<1>4. ImageOK(made[n])
  <2>1. CASE n = oper
    BY <1>2, <2>1
  <2>2. CASE n # oper
    <3>1. PICK r \in operlog : r.id = n
      BY <1>1, <2>2
    <3> QED
      BY <1>2, <3>1 DEF RowOK, EntryOK
  <2> QED
    BY <2>1, <2>2
<1>5. MemOK(m) /\ Image(m) = made[n] /\ m.seen = AllNow(KeysTo(oper, n))
  BY <1>2, <1>4, AtIs
<1>6. \A r \in operlog : r.id <= n
  BY <1>1, <1>2
<1>7. ASSUME NEW i \in oper + 1 .. n PROVE \E r \in operlog : r.id = i
  <2>1. n # oper /\ i \in oper + 1 .. n
    BY <1>1, <1>2
  <2>2. PICK r \in operlog : r.id = n
    BY <1>1, <2>1
  <2> QED
    BY <2>1, <2>2 DEF Replayable, Closed
<1>8. ASSUME NEW r \in operlog, r.id > oper, IsUpdate(r)
      PROVE  r.op.key \in DOMAIN m.seen /\ m.seen[r.op.key] = now
  <2>1. r.op.key \in KeysTo(oper, n)
    BY <1>6, <1>8 DEF KeysTo
  <2> HIDE DEF m
  <2> QED
    BY <1>5, <2>1 DEF AllNow
<1> QED
  BY <1>1, <1>3, <1>4, <1>5, <1>6, <1>7, <1>8 DEF n

-----------------------------------------------------------------------------
(* The invariant *)

Running == status \in {"UP", "STOPPING", "RELEASING"}
IsSequence(q) == \E S : q \in Seq(S)

\* The operations on their way: in a table, in the statement the worker has, in those
\* that wait, and in the list
Queued == UNION {Rows(requests[j]) : j \in DOMAIN requests}
Placed == operlog \cup Rows(executing) \cup Queued
Listed == {list[i] : i \in DOMAIN list}
Entries == Placed \cup Listed

StatusOK ==
    /\ Running \/ status = "DOWN"
    /\ now \in Nat /\ now >= 1
    /\ IsSequence(list) /\ IsSequence(requests)
    /\ status = "DOWN" => list = <<>> /\ requests = <<>> /\ executing = NoJob

MadeOK == /\ made = [i \in 0..MaxOps |-> made[i]]
          /\ made[0] = Image(EmptyMem)

MemoryOK ==
    Running => /\ MemOK(mem) /\ operlog_id_start \in 0..MaxOps
               /\ Image(mem) = made[operlog_id_start]

\* Ids and days grow along the log.
PlacedOK ==
    /\ \A a \in Placed : RowOK(a) /\ a.day <= Day(now) /\ (Running => a.id <= operlog_id_start)
    /\ \A a, b \in Placed : (a.id = b.id => a = b) /\ (a.id < b.id => a.day <= b.day)

\* The queue is in order, and a statement is in its table as a whole or not at all.
QueueOK ==
    /\ \A i, j \in DOMAIN requests : i < j =>
          \A a \in Rows(requests[i]), b \in Rows(requests[j]) : a.id < b.id
    /\ \A j \in DOMAIN requests : \A a \in operlog \cup Rows(executing), b \in Rows(requests[j]) :
          a.id < b.id
    /\ \/ Rows(executing) \subseteq operlog
       \/ \A a \in operlog, b \in Rows(executing) : a.id < b.id

ListOK ==
    /\ \A i \in DOMAIN list : /\ EntryOK(list[i])
                              /\ list[i].id = operlog_id_start - Len(list) + i
    /\ \A a \in Placed, e \in Listed : a.id < e.id

EngineInv == StatusOK /\ MadeOK /\ MemoryOK /\ PlacedOK /\ QueueOK /\ ListOK

\* A base of a replay: the operation oper, and the time at which it was the last
BaseTimes(oper, time) ==
    /\ oper \in 0..MaxOps /\ time \in 1..now /\ now <= time + DayLength
    /\ ImageOK(made[oper])
    /\ Running => oper <= operlog_id_start
BaseDays(oper, time) == \A a \in Placed : a.id > oper => a.day >= Day(time)
BaseHeld(oper) ==
    Running => \A i \in oper + 1 .. operlog_id_start : \E e \in Entries : e.id = i
BaseSeen(oper, time) ==
    Running => \A e \in Entries : e.id > oper /\ IsUpdate(e) =>
                  e.op.key \in DOMAIN mem.seen /\ mem.seen[e.op.key] >= time
BaseOK(oper, time) ==
    /\ BaseTimes(oper, time) /\ BaseDays(oper, time) /\ Closed(oper) /\ BaseHeld(oper)
    /\ KeysDiffer(oper, Entries) /\ BaseSeen(oper, time)

\* The ids of operations have been given out.
LEMMA EntriesGiven ==
    ASSUME EngineInv, Running
    PROVE  \A e \in Entries : e.id \in 1..operlog_id_start
<1>1. operlog_id_start \in Nat
  BY DEF EngineInv, MemoryOK
<1>2. ASSUME NEW a \in Placed PROVE a.id \in 1..operlog_id_start
  BY <1>1 DEF EngineInv, PlacedOK, RowOK, EntryOK
<1>3. ASSUME NEW e \in Listed PROVE e.id \in 1..operlog_id_start
  <2>1. PICK i \in DOMAIN list : e = list[i]
    BY DEF Listed
  <2>2. i <= Len(list) /\ i \in Nat /\ Len(list) \in Nat
    <3>1. PICK S : list \in Seq(S)
      BY DEF EngineInv, StatusOK, IsSequence
    <3> QED
      BY <3>1, LenProperties
  <2>3. e.id = operlog_id_start - Len(list) + i /\ e.id \in 1..MaxOps
    BY <2>1 DEF EngineInv, ListOK, EntryOK
  <2> QED
    BY <1>1, <2>2, <2>3
<1> QED
  BY <1>2, <1>3 DEF Entries

\* An operation is done, logged and answered.
LEMMA HandleKeeps ==
    ASSUME EngineInv, "padding" \notin Faults,
           NEW op, NEW m, MemOK(m), Makes(Image(mem), op, Image(m)), KeysAfter(mem, op, m),
           status = "UP", operlog_id_start < MaxOps, mem' = m,
           made' = [made EXCEPT ![operlog_id_start + 1] = Image(m)],
           AppendOperlog(op), UNCHANGED <<status, requests, executing, operlog, now>>
    PROVE  /\ EngineInv' /\ \A i \in 0..operlog_id_start : made'[i] = made[i]
           /\ \A oper, time : BaseOK(oper, time) => BaseOK(oper, time)'
<1>0. PICK n, new : n = operlog_id_start /\ new = [id |-> operlog_id_start + 1, op |-> op]
  OBVIOUS
<1>1. /\ Running /\ Running' /\ n \in 0..MaxOps /\ n + 1 \in 0..MaxOps /\ MaxOps \in Nat /\ n \in Nat
      /\ n = operlog_id_start /\ operlog_id_start' = n + 1 /\ Image(mem) = made[n]
  BY <1>0, BoundsAssumption DEF EngineInv, MemoryOK, Running, AppendOperlog
<1>2. Placed' = Placed
  BY DEF Placed, Queued
<1>3. /\ DOMAIN made = 0..MaxOps /\ \A i \in 0..n : made'[i] = made[i]
      /\ made'[n + 1] = Image(m)
  BY <1>1 DEF EngineInv, MadeOK
<1>4. PICK S : list \in Seq(S)
  BY DEF EngineInv, StatusOK, IsSequence
<1>5. /\ list' \in Seq(S \cup {new}) /\ Len(list) \in Nat /\ Len(list') = Len(list) + 1
      /\ DOMAIN list = 1..Len(list) /\ DOMAIN list' = 1..(Len(list) + 1)
      /\ \A i \in 1..Len(list) : list'[i] = list[i]
      /\ list'[Len(list) + 1] = new
  <2>1. list \in Seq(S \cup {new}) /\ new \in S \cup {new} /\ list' = Append(list, new)
    BY <1>0, <1>4, SeqMonotonic DEF AppendOperlog
  <2> QED
    BY <2>1, AppendProperties
<1>6. Listed' = Listed \cup {new}
  <2>1. \A i \in 1..(Len(list) + 1) : i \in 1..Len(list) \/ i = Len(list) + 1
    BY <1>5
  <2> QED
    BY <1>5, <2>1 DEF Listed
<1>7. new.id = n + 1 /\ new.op = op
  BY <1>0
<1>8. /\ \A a \in Placed : a.id \in 1..n
      /\ \A e \in Listed : e.id \in 1..n
  BY <1>1, EntriesGiven DEF Entries
<1>9. ASSUME NEW e, e.id \in 1..n, EntryOK(e) PROVE EntryOK(e)'
  <2>1. e.id \in 0..n /\ e.id - 1 \in 0..n
    BY <1>1, <1>9
  <2> QED
    BY <1>3, <1>9, <2>1 DEF EntryOK
<1>10. EntryOK(new)'
  <2>1. made'[n] = Image(mem) /\ ImageOK(Image(mem)) /\ ImageOK(Image(m))
    BY <1>1, <1>3 DEF EngineInv, MemoryOK, MemOK
  <2>2. new.id - 1 = n /\ new.id = n + 1 /\ new.id \in 1..MaxOps
    BY <1>1, <1>7
  <2>3. ImageOK(made[n])' /\ ImageOK(made[n + 1])'
    BY <1>1, <1>3, <2>1
  <2> QED
    BY <1>3, <1>7, <2>1, <2>2 DEF EntryOK
<1>11. StatusOK'
  BY <1>1, <1>5 DEF EngineInv, StatusOK, IsSequence, Running
<1>12. MadeOK'
  <2>1. made' = [i \in 0..MaxOps |-> made'[i]]
    BY DEF EngineInv, MadeOK
  <2>2. made'[0] = made[0]
    BY <1>1, <1>3
  <2> QED
    BY <2>1, <2>2 DEF EngineInv, MadeOK
<1>13. MemoryOK'
  BY <1>1, <1>3 DEF MemoryOK
<1>14. PlacedOK'
  <2>1. ASSUME NEW a \in Placed PROVE RowOK(a)' /\ a.day <= Day(now)' /\ a.id <= n + 1
    BY <1>1, <1>8, <1>9 DEF EngineInv, PlacedOK, RowOK, Day
  <2> QED
    BY <1>1, <1>2, <2>1 DEF EngineInv, PlacedOK
<1>15. QueueOK'
  BY DEF EngineInv, QueueOK
<1>16. ListOK'
  <2>1. ASSUME NEW i \in DOMAIN list'
        PROVE  EntryOK(list[i])' /\ list'[i].id = operlog_id_start' - Len(list') + i
    <3>1. CASE i \in 1..Len(list)
      <4>0. PICK e : e = list[i]
        OBVIOUS
      <4>1. list'[i] = e /\ e \in Listed /\ EntryOK(e) /\ e.id = n - Len(list) + i
        BY <1>1, <1>5, <3>1, <4>0 DEF EngineInv, ListOK, Listed
      <4>2. EntryOK(e)'
        BY <1>8, <1>9, <4>1
      <4>3. e.id = n + 1 - (Len(list) + 1) + i
        BY <1>1, <1>5, <3>1, <4>1
      <4> QED
        BY <1>1, <1>5, <4>1, <4>2, <4>3 DEF EntryOK
    <3>2. CASE i = Len(list) + 1
      <4>1. n + 1 = n + 1 - (Len(list) + 1) + i
        BY <1>1, <1>5, <3>2
      <4> QED
        BY <1>1, <1>5, <1>7, <1>10, <3>2, <4>1 DEF EntryOK
    <3> QED
      BY <1>5, <3>1, <3>2
  <2>2. ASSUME NEW a \in Placed, NEW e \in Listed \cup {new} PROVE a.id < e.id
    BY <1>1, <1>7, <1>8 DEF EngineInv, ListOK
  <2>3. \A i \in DOMAIN list' : EntryOK(list[i])' /\ list'[i].id = operlog_id_start' - Len(list') + i
    BY <2>1
  <2> QED
    BY <1>2, <1>6, <2>2, <2>3 DEF ListOK
<1>17. Entries' = Entries \cup {new}
  BY <1>2, <1>6 DEF Entries
<1>18. \A e \in Entries : e.id \in 1..n
  BY <1>8 DEF Entries
<1>19. ASSUME NEW oper, NEW time, BaseOK(oper, time) PROVE BaseOK(oper, time)'
  <2>1. oper \in 0..n /\ time \in 1..now /\ now \in Nat
    BY <1>1, <1>19 DEF BaseOK, BaseTimes, EngineInv, StatusOK
  <2>2. BaseTimes(oper, time)'
    BY <1>1, <1>3, <1>19, <2>1 DEF BaseOK, BaseTimes
  <2>3. BaseDays(oper, time)' /\ Closed(oper)'
    BY <1>2, <1>19 DEF BaseOK, BaseDays, Closed, Day
  <2>4. BaseHeld(oper)'
    <3>1. ASSUME NEW i \in oper + 1 .. n + 1 PROVE \E e \in Entries \cup {new} : e.id = i
      <4>1. i = n + 1 \/ i \in oper + 1 .. n
        BY <1>1, <2>1
      <4> QED
        BY <1>1, <1>7, <1>19, <4>1 DEF BaseOK, BaseHeld
    <3> QED
      BY <1>1, <1>17, <3>1 DEF BaseHeld
  <2>5. IsUpdate(new) => \A e \in Entries : e.id > oper /\ IsUpdate(e) => e.op.key # op.key
    <3>1. IsUpdate(new) => op.key \notin DOMAIN mem.seen
      BY <1>7 DEF KeysAfter, IsUpdate, MissesKey
    <3> QED
      BY <1>1, <1>19, <3>1 DEF BaseOK, BaseSeen
  <2>6. KeysDiffer(oper, Entries \cup {new})
    <3> SUFFICES ASSUME NEW e \in Entries \cup {new}, NEW f \in Entries \cup {new}, e.id > oper, f.id > oper,
                        IsUpdate(e), IsUpdate(f), e.op.key = f.op.key
                 PROVE  e.id = f.id
      BY DEF KeysDiffer
    <3>1. CASE e = new \/ f = new
      BY <1>7, <2>5, <3>1
    <3>2. CASE e \in Entries /\ f \in Entries
      BY <1>19, <3>2 DEF BaseOK, KeysDiffer
    <3> QED
      BY <3>1, <3>2
  <2>7. BaseSeen(oper, time)'
    <3>1. ASSUME NEW e \in Entries \cup {new}, e.id > oper, IsUpdate(e)
          PROVE  e.op.key \in DOMAIN m.seen /\ m.seen[e.op.key] >= time
      <4>1. CASE e = new
        <5>1. m.seen = KeyAdded(mem.seen, op.key)
          BY <1>7, <3>1, <4>1 DEF KeysAfter, IsUpdate
        <5>2. e.op.key = op.key /\ now >= time
          BY <1>7, <2>1, <4>1
        <5> QED
          BY <5>1, <5>2 DEF KeyAdded
      <4>2. CASE e \in Entries
        <5>1. e.op.key \in DOMAIN mem.seen /\ mem.seen[e.op.key] >= time
          BY <1>1, <1>19, <3>1, <4>2 DEF BaseOK, BaseSeen
        <5>2. m.seen = mem.seen \/ m.seen = KeyAdded(mem.seen, op.key)
          BY DEF KeysAfter
        <5>3. now >= time
          BY <2>1
        <5> QED
          BY <5>1, <5>2, <5>3 DEF KeyAdded
      <4> QED
        BY <3>1, <4>1, <4>2
    <3> QED
      BY <1>17, <3>1 DEF BaseSeen
  <2> QED
    BY <1>17, <2>2, <2>3, <2>4, <2>6, <2>7 DEF BaseOK, KeysDiffer, IsUpdate
<1> QED
  BY <1>1, <1>3, <1>11, <1>12, <1>13, <1>14, <1>15, <1>16, <1>19 DEF EngineInv

\* A base stays one while operations move on, if none is lost and none comes.
Same(E, F) == \A e \in E : \E f \in F : f.id = e.id /\ f.op = e.op

\* So what was held and seen behind a base still is, wherever the operations are now.
LEMMA BaseMoves ==
    ASSUME NEW oper, NEW time, BaseOK(oper, time),
           Same(Entries', Entries), Running => Same(Entries, Entries'), Running' => Running,
           UNCHANGED <<mem, operlog_id_start, now, made>>, BaseDays(oper, time)', Closed(oper)'
    PROVE  BaseOK(oper, time)'
<1>1. BaseTimes(oper, time)'
  BY DEF BaseOK, BaseTimes
<1>2. BaseHeld(oper)'
  BY DEF BaseOK, BaseHeld, Same
<1>3. BaseSeen(oper, time)'
  BY DEF BaseOK, BaseSeen, Same, IsUpdate
<1>4. KeysDiffer(oper, Entries')
  BY DEF BaseOK, KeysDiffer, Same, IsUpdate
<1> QED
  BY <1>1, <1>2, <1>3, <1>4 DEF BaseOK, KeysDiffer, IsUpdate

\* What does not touch the engine, the tables or the clock
LEMMA EngineSame ==
    ASSUME EngineInv,
           UNCHANGED <<status, mem, operlog_id_start, list, requests, executing, operlog, now, made>>
    PROVE  EngineInv' /\ \A oper, time : BaseOK(oper, time) => BaseOK(oper, time)'
<1>1. Running' = Running /\ Placed' = Placed /\ Entries' = Entries /\ Listed' = Listed
  BY DEF Running, Placed, Entries, Listed, Queued
<1>2. StatusOK' /\ MadeOK' /\ MemoryOK'
  BY <1>1 DEF EngineInv, StatusOK, MadeOK, MemoryOK, IsSequence
<1>3. \A e : EntryOK(e) => EntryOK(e)'
  BY DEF EntryOK
<1>4. PlacedOK'
  BY <1>1, <1>3 DEF EngineInv, PlacedOK, RowOK, Day
<1>5. QueueOK'
  BY DEF EngineInv, QueueOK
<1>6. ListOK'
  BY <1>1 DEF EngineInv, ListOK, EntryOK
<1>7. ASSUME NEW oper, NEW time, BaseOK(oper, time) PROVE BaseOK(oper, time)'
  BY <1>1, <1>7 DEF BaseOK, BaseTimes, BaseDays, Closed, BaseHeld, KeysDiffer, BaseSeen, IsUpdate, Day
<1> QED
  BY <1>2, <1>4, <1>5, <1>6, <1>7 DEF EngineInv

\* Keys are dropped when they are older than a day, and no base is.
LEMMA ExpireKeeps ==
    ASSUME EngineInv, ExpireUpdates
    PROVE  EngineInv' /\ \A oper, time : BaseOK(oper, time) => BaseOK(oper, time)'
<1> DEFINE kept == [k \in {j \in DOMAIN mem.seen : mem.seen[j] >= now - DayLength} |-> mem.seen[k]]
<1>1. /\ Running /\ Running' /\ MemOK(mem) /\ Image(mem) = made[operlog_id_start]
      /\ mem' = [mem EXCEPT !.seen = kept]
      /\ UNCHANGED <<status, operlog_id_start, list, requests, executing, operlog, now, made>>
  BY DEF ExpireUpdates, EngineInv, MemoryOK, Running, ghosts, buffers
<1>2. mem' = Mem(mem.avail, mem.frozen, mem.orders, mem.order_id_start, kept)
  <2>1. mem = Mem(mem.avail, mem.frozen, mem.orders, mem.order_id_start, mem.seen)
    BY <1>1 DEF MemOK
  <2> HIDE DEF kept
  <2> QED
    BY <1>1, <2>1 DEF Mem
<1>3. mem'.seen = kept /\ Image(mem') = Image(mem)
  <2> HIDE DEF kept
  <2> QED
    BY <1>2 DEF Mem, Image
<1>4. MemOK(mem')
  <2>1. \A k \in DOMAIN kept : kept[k] \in Int
    BY <1>1 DEF MemOK
  <2>2. ImageOK(Image(mem'))
    BY <1>1, <1>3 DEF MemOK
  <2>3. mem' = Mem(mem'.avail, mem'.frozen, mem'.orders, mem'.order_id_start, mem'.seen)
    <3> HIDE DEF kept
    <3> QED
      BY <1>2 DEF Mem
  <2> HIDE DEF kept
  <2> QED
    BY <1>3, <2>1, <2>2, <2>3 DEF MemOK
<1>5. Placed' = Placed /\ Entries' = Entries /\ Listed' = Listed
  BY <1>1 DEF Placed, Entries, Listed, Queued
<1>6. \A e : EntryOK(e) => EntryOK(e)'
  BY <1>1 DEF EntryOK
<1>7. StatusOK' /\ MadeOK' /\ QueueOK'
  BY <1>1 DEF EngineInv, StatusOK, MadeOK, QueueOK, Running, IsSequence
<1>8. PlacedOK'
  BY <1>1, <1>5, <1>6 DEF EngineInv, PlacedOK, RowOK, Day
<1>9. ListOK'
  BY <1>1, <1>5 DEF EngineInv, ListOK, EntryOK
<1>10. MemoryOK'
  <2> HIDE DEF kept
  <2> QED
    BY <1>1, <1>3, <1>4 DEF EngineInv, MemoryOK
<1>11. ASSUME NEW oper, NEW time, BaseOK(oper, time) PROVE BaseOK(oper, time)'
  <2>1. BaseTimes(oper, time)' /\ BaseDays(oper, time)' /\ Closed(oper)' /\ BaseHeld(oper)'
    BY <1>1, <1>5, <1>11 DEF BaseOK, BaseTimes, BaseDays, Closed, BaseHeld, Day
  <2>2. KeysDiffer(oper, Entries')
    BY <1>5, <1>11 DEF BaseOK
  <2>3. ASSUME NEW e \in Entries, e.id > oper, IsUpdate(e)
        PROVE  e.op.key \in DOMAIN kept /\ kept[e.op.key] >= time
    <3> DEFINE k == e.op.key
    <3>1. k \in DOMAIN mem.seen /\ mem.seen[k] >= time
      BY <1>1, <1>11, <2>3 DEF BaseOK, BaseSeen
    <3>2. mem.seen[k] \in Int /\ now \in Nat /\ time \in Int /\ DayLength \in Nat /\ now <= time + DayLength
      BY <1>1, <1>11, <3>1, SettingsAssumption DEF BaseOK, BaseTimes, MemOK, EngineInv, StatusOK
    <3>3. mem.seen[k] >= now - DayLength
      BY <3>1, <3>2
    <3> QED
      BY <3>1, <3>3
  <2>4. BaseSeen(oper, time)'
    <3> HIDE DEF kept
    <3> QED
      BY <1>3, <1>5, <2>3 DEF BaseSeen, IsUpdate
  <2> QED
    BY <2>1, <2>2, <2>4 DEF BaseOK, KeysDiffer, IsUpdate
<1> QED
  BY <1>7, <1>8, <1>9, <1>10, <1>11 DEF EngineInv

\* The process is gone.
LEMMA GoneKeeps ==
    ASSUME EngineInv, Gone
    PROVE  /\ EngineInv' /\ \A oper, time : BaseOK(oper, time) => BaseOK(oper, time)'
           /\ Same(Entries', Entries)
<1>1. /\ status' = "DOWN" /\ ~Running' /\ list' = <<>> /\ requests' = <<>> /\ executing' = NoJob
      /\ UNCHANGED <<operlog, now, made>>
  BY DEF Gone, Running, ghosts
<1>2. Placed' = operlog /\ Listed' = {} /\ Entries' = operlog /\ operlog \subseteq Placed
  <2>1. Queued' = {} /\ Rows(executing)' = {}
    BY <1>1 DEF Queued, Rows, NoJob
  <2>2. Listed' = {}
    BY <1>1 DEF Listed
  <2> QED
    BY <1>1, <2>1, <2>2 DEF Placed, Entries
<1>3. \A e : EntryOK(e) => EntryOK(e)'
  BY <1>1 DEF EntryOK
<1>4. StatusOK' /\ MadeOK' /\ MemoryOK'
  <2>1. <<>> \in Seq({})
    OBVIOUS
  <2> QED
    BY <1>1, <2>1 DEF EngineInv, StatusOK, MadeOK, MemoryOK, IsSequence
<1>5. PlacedOK'
  BY <1>1, <1>2, <1>3 DEF EngineInv, PlacedOK, RowOK, Day
<1>6. QueueOK'
  BY <1>1 DEF QueueOK, Rows, NoJob
<1>7. ListOK'
  BY <1>1, <1>2 DEF ListOK
<1>8. ASSUME NEW oper, NEW time, BaseOK(oper, time) PROVE BaseOK(oper, time)'
  <2>1. BaseTimes(oper, time)' /\ BaseHeld(oper)' /\ BaseSeen(oper, time)'
    BY <1>1, <1>8 DEF BaseOK, BaseTimes, BaseHeld, BaseSeen
  <2>2. BaseDays(oper, time)' /\ Closed(oper)'
    BY <1>1, <1>2, <1>8 DEF BaseOK, BaseDays, Closed, Day
  <2>3. KeysDiffer(oper, Entries')
    BY <1>2, <1>8 DEF BaseOK, KeysDiffer, Entries
  <2> QED
    BY <2>1, <2>2, <2>3 DEF BaseOK, KeysDiffer, IsUpdate
<1> QED
  BY <1>2, <1>4, <1>5, <1>6, <1>7, <1>8 DEF EngineInv, Same, Entries

\* Time passes, within a day of the base.
LEMMA TickKeeps ==
    ASSUME EngineInv, Tick
    PROVE  EngineInv' /\ \A oper, time : BaseOK(oper, time) /\ now' <= time + DayLength
                            => BaseOK(oper, time)'
<1>1. /\ now \in Nat /\ now' = now + 1 /\ now' \in Nat /\ Day(now) <= Day(now') /\ Day(now) \in Int /\ Day(now') \in Int
      /\ UNCHANGED <<status, mem, operlog_id_start, list, requests, executing, operlog, made>>
  <2>1. now \in Nat /\ now' = now + 1 /\ now' \in Nat /\ now <= now'
    BY DEF Tick, EngineInv, StatusOK
  <2>2. /\ Day(now) \in Nat /\ Day(now) <= Day(now') /\ Day(now') \in Nat
    BY <2>1, DayGrows
  <2> QED
    BY <2>1, <2>2 DEF Tick, engine, ghosts, buffers
<1>2. Running' = Running /\ Placed' = Placed /\ Entries' = Entries /\ Listed' = Listed
  BY <1>1 DEF Running, Placed, Entries, Listed, Queued
<1>3. \A e : EntryOK(e) => EntryOK(e)'
  BY <1>1 DEF EntryOK
<1>4. StatusOK' /\ MadeOK' /\ MemoryOK' /\ QueueOK'
  BY <1>1, <1>2 DEF EngineInv, StatusOK, MadeOK, MemoryOK, QueueOK, IsSequence
<1>5. PlacedOK'
  <2>1. ASSUME NEW a \in Placed PROVE RowOK(a)' /\ a.day <= Day(now')
    <3>1. RowOK(a) /\ a.day <= Day(now) /\ a.day \in Nat
      BY DEF EngineInv, PlacedOK, RowOK
    <3> QED
      BY <1>1, <1>3, <3>1 DEF RowOK
  <2>2. Day(now)' = Day(now')
    BY DEF Day
  <2> QED
    BY <1>1, <1>2, <2>1, <2>2 DEF EngineInv, PlacedOK
<1>6. ListOK'
  BY <1>1, <1>2 DEF EngineInv, ListOK, EntryOK
<1>7. ASSUME NEW oper, NEW time, BaseOK(oper, time), now' <= time + DayLength PROVE BaseOK(oper, time)'
  <2>1. BaseTimes(oper, time)'
    BY <1>1, <1>2, <1>7 DEF BaseOK, BaseTimes
  <2>2. BaseDays(oper, time)' /\ Closed(oper)' /\ BaseHeld(oper)' /\ BaseSeen(oper, time)'
    BY <1>1, <1>2, <1>7 DEF BaseOK, BaseDays, Closed, BaseHeld, BaseSeen, Day, IsUpdate
  <2>3. KeysDiffer(oper, Entries')
    BY <1>2, <1>7 DEF BaseOK
  <2> QED
    BY <2>1, <2>2, <2>3 DEF BaseOK, KeysDiffer, IsUpdate
<1> QED
  BY <1>4, <1>5, <1>6, <1>7 DEF EngineInv

\* The rows that a flush of the list makes
Flush == {[day |-> Day(now), id |-> list[i].id, op |-> list[i].op] : i \in DOMAIN list}

\* What flush_log appends to the queue is the list, in one statement.
LEMMA FlushedIs ==
    ASSUME IsSequence(list), IsSequence(requests), FlushLog
    PROVE  /\ list' = <<>> /\ IsSequence(requests)' /\ DOMAIN requests \subseteq DOMAIN requests'
           /\ \A j \in DOMAIN requests' : j \in Int
           /\ \A j \in DOMAIN requests : requests'[j] = requests[j] /\ \A i \in DOMAIN requests' \ DOMAIN requests : j < i
           /\ \A j \in DOMAIN requests' \ DOMAIN requests : Rows(requests'[j]) \in {Flush, {}}
           /\ \A i, j \in DOMAIN requests' \ DOMAIN requests :
                 i < j => Rows(requests'[i]) = {} \/ Rows(requests'[j]) = {}
           /\ Flush # {} => \E j \in DOMAIN requests' \ DOMAIN requests : Rows(requests'[j]) = Flush
<1>1. PICK S, T : list \in Seq(S) /\ requests \in Seq(T)
  BY DEF IsSequence
<1> DEFINE insert == [day |-> Day(now), rows |-> list, create |-> FALSE]
           create == [day |-> Day(now), rows |-> <<>>, create |-> TRUE]
<1>2. Rows(insert) = Flush /\ Rows(create) = {}
  BY DEF Rows, Flush
<1>3. PICK U : requests \in Seq(U) /\ insert \in U /\ create \in U
  <2>1. requests \in Seq(T \cup {insert, create}) /\ insert \in T \cup {insert, create} /\ create \in T \cup {insert, create}
    <3> HIDE DEF insert, create
    <3> QED
      BY <1>1, SeqMonotonic
  <2> HIDE DEF insert, create
  <2> QED
    BY <2>1
<1>4. /\ list' = <<>>
      /\ requests' = IF list = <<>> THEN requests
                     ELSE requests \o (IF table_last # Day(now) THEN <<create, insert>> ELSE <<insert>>)
  BY DEF FlushLog, Flushed
<1> DEFINE n == Len(requests)
<1> HIDE DEF insert, create
<1>5. n \in Nat /\ DOMAIN requests = 1..n
  BY <1>3, LenProperties
<1>6. CASE list = <<>>
  <2>1. requests' = requests /\ Flush = {}
    BY <1>4, <1>6 DEF Flush
  <2>2. (1..n) \ (1..n) = {} /\ \A j \in 1..n : j \in Int
    BY <1>5
  <2>3. list' = <<>> /\ IsSequence(requests)' /\ DOMAIN requests' = 1..n /\ \A j \in 1..n : requests'[j] = requests[j]
    BY <1>4, <1>5, <2>1 DEF IsSequence
  <2> HIDE DEF n
  <2> QED
    BY <1>5, <2>1, <2>2, <2>3
<1>7. CASE list # <<>> /\ table_last # Day(now)
  <2>1. requests' = requests \o <<create, insert>>
    BY <1>4, <1>7
  <2>2. /\ <<create, insert>> \in Seq(U) /\ Len(<<create, insert>>) = 2
        /\ <<create, insert>>[1] = create /\ <<create, insert>>[2] = insert
    BY <1>3
  <2> DEFINE q == <<create, insert>>
  <2> HIDE DEF q
  <2>3. /\ requests' \in Seq(U) /\ DOMAIN requests' = 1..(n + 2)
        /\ \A j \in 1..n : requests'[j] = requests[j]
        /\ requests'[n + 1] = create /\ requests'[n + 2] = insert
    <3>1. requests' = requests \o q /\ q \in Seq(U) /\ Len(q) = 2 /\ q[1] = create /\ q[2] = insert
      BY <2>1, <2>2 DEF q
    <3>2. /\ requests \o q \in Seq(U) /\ Len(requests \o q) = n + 2
          /\ \A j \in 1..(n + 2) : (requests \o q)[j] = IF j <= n THEN requests[j] ELSE q[j - n]
      <4>1. /\ requests \o q \in Seq(U) /\ Len(requests \o q) = Len(requests) + Len(q)
            /\ \A j \in 1..Len(requests) + Len(q) :
                  (requests \o q)[j] = IF j <= Len(requests) THEN requests[j] ELSE q[j - Len(requests)]
        BY <1>3, <3>1, ConcatProperties
      <4>2. Len(q) = 2
        BY <3>1
      <4> QED
        BY <4>1, <4>2
    <3>3. DOMAIN (requests \o q) = 1..(n + 2)
      BY <3>2, LenProperties
    <3>4. (n + 1) - n = 1 /\ (n + 2) - n = 2 /\ n + 1 \in 1..(n + 2) /\ n + 2 \in 1..(n + 2) /\ ~(n + 1 <= n) /\ ~(n + 2 <= n)
          /\ \A j \in 1..n : j \in 1..(n + 2) /\ j <= n
      BY <1>5
    <3> HIDE DEF n
    <3> QED
      BY <3>1, <3>2, <3>3, <3>4
  <2>4. /\ Rows(requests'[n + 1]) = {} /\ Rows(requests'[n + 2]) = Flush
        /\ \A j \in 1..(n + 2) : j \in 1..n \/ j = n + 1 \/ j = n + 2
        /\ n + 1 \in (1..(n + 2)) \ (1..n) /\ n + 2 \in (1..(n + 2)) \ (1..n)
    BY <1>2, <1>5, <2>3
  <2>5. \A j \in (1..(n + 2)) \ (1..n) : j = n + 1 \/ j = n + 2
    BY <2>4
  <2>6. IsSequence(requests)'
    BY <2>3 DEF IsSequence
  <2>7. 1..n \subseteq 1..(n + 2) /\ \A j \in 1..n : \A i \in (1..(n + 2)) \ (1..n) : j < i
    BY <1>5
  <2>8. \A i, j \in (1..(n + 2)) \ (1..n) : i < j => Rows(requests'[i]) = {}
    BY <1>5, <2>4, <2>5
  <2> HIDE DEF n
  <2> QED
    <3>1. \A j \in (1..(n + 2)) \ (1..n) : Rows(requests'[j]) \in {Flush, {}}
      BY <2>4, <2>5
    <3>2. \A j \in 1..(n + 2) : j \in Int
      BY <1>5
    <3>3. \E j \in (1..(n + 2)) \ (1..n) : Rows(requests'[j]) = Flush
      BY <2>4
    <3> QED
      BY <1>4, <1>5, <2>3, <2>6, <2>7, <2>8, <3>1, <3>2, <3>3
<1>8. CASE list # <<>> /\ ~(table_last # Day(now))
  <2>1. requests' = Append(requests, insert)
    <3>1. requests' = requests \o <<insert>>
      BY <1>4, <1>8
    <3> QED
      BY <1>3, <3>1
  <2>2. /\ requests' \in Seq(U) /\ DOMAIN requests' = 1..(n + 1)
        /\ \A j \in 1..n : requests'[j] = requests[j]
        /\ requests'[n + 1] = insert
    BY <1>3, <2>1, AppendProperties, LenProperties
  <2>3. \A j \in (1..(n + 1)) \ (1..n) : j = n + 1
    BY <1>5
  <2>4. 1..n \subseteq 1..(n + 1) /\ \A j \in 1..n : \A i \in (1..(n + 1)) \ (1..n) : j < i
    BY <1>5
  <2>5. n + 1 \in (1..(n + 1)) \ (1..n) /\ ~(n + 1 < n + 1)
    BY <1>5
  <2>6. IsSequence(requests)'
    BY <2>2 DEF IsSequence
  <2> HIDE DEF n
  <2> QED
    BY <1>2, <1>4, <1>5, <2>2, <2>3, <2>4, <2>5, <2>6
<1> QED
  BY <1>6, <1>7, <1>8

\* The list goes to the queue: its operations come after those that are placed.
LEMMA FlushKeeps ==
    ASSUME EngineInv, status = "UP", status' \in {"UP", "STOPPING"}, FlushLog,
           UNCHANGED <<mem, operlog_id_start, executing, operlog, now, made>>
    PROVE  /\ EngineInv' /\ \A oper, time : BaseOK(oper, time) => BaseOK(oper, time)'
           /\ Same(Entries', Entries)
<1>1. /\ Running /\ Running' /\ now \in Nat /\ IsSequence(list) /\ IsSequence(requests)
      /\ operlog_id_start \in 0..MaxOps /\ MaxOps \in Nat
  BY BoundsAssumption DEF EngineInv, StatusOK, MemoryOK, Running
<1>2. /\ list' = <<>> /\ IsSequence(requests)' /\ DOMAIN requests \subseteq DOMAIN requests'
      /\ \A j \in DOMAIN requests' : j \in Int
      /\ \A j \in DOMAIN requests : requests'[j] = requests[j] /\ \A i \in DOMAIN requests' \ DOMAIN requests : j < i
      /\ \A j \in DOMAIN requests' \ DOMAIN requests : Rows(requests'[j]) \in {Flush, {}}
      /\ \A i, j \in DOMAIN requests' \ DOMAIN requests :
            i < j => Rows(requests'[i]) = {} \/ Rows(requests'[j]) = {}
      /\ Flush # {} => \E j \in DOMAIN requests' \ DOMAIN requests : Rows(requests'[j]) = Flush
  BY <1>1, FlushedIs
<1>3. Queued' = Queued \cup Flush
  BY <1>2 DEF Queued
<1>4. Placed' = Placed \cup Flush /\ Rows(executing)' = Rows(executing)
  BY <1>3 DEF Placed, Rows
<1>5. Listed' = {}
  BY <1>2 DEF Listed
<1>6. Entries' = Placed \cup Flush
  BY <1>4, <1>5 DEF Entries
<1>7. \A f \in Flush : \E e \in Listed : f.id = e.id /\ f.op = e.op
  <2> TAKE f \in Flush
  <2>1. PICK i \in DOMAIN list : f = [day |-> Day(now), id |-> list[i].id, op |-> list[i].op]
    BY DEF Flush
  <2> QED
    BY <2>1 DEF Listed
<1>8. \A e \in Listed : \E f \in Flush : f.id = e.id /\ f.op = e.op
  <2> TAKE e \in Listed
  <2>1. PICK i \in DOMAIN list : e = list[i]
    BY DEF Listed
  <2> DEFINE f == [day |-> Day(now), id |-> list[i].id, op |-> list[i].op]
  <2>2. f \in Flush
    BY DEF Flush
  <2>3. f.id = e.id /\ f.op = e.op
    BY <2>1
  <2> HIDE DEF f
  <2> QED
    BY <2>2, <2>3
<1>9. \A e : EntryOK(e) => EntryOK(e)'
  BY DEF EntryOK
<1>10. Day(now) \in Nat
  BY <1>1, DayGrows
<1>11. ASSUME NEW f \in Flush
       PROVE  /\ RowOK(f) /\ f.day = Day(now) /\ f.id \in 1..operlog_id_start
              /\ \A a \in Placed : a.id < f.id
  <2>1. PICK i \in DOMAIN list : f = [day |-> Day(now), id |-> list[i].id, op |-> list[i].op]
    BY DEF Flush
  <2> DEFINE e == list[i]
  <2>2. e \in Listed /\ EntryOK(e) /\ e.id = operlog_id_start - Len(list) + i
    BY DEF EngineInv, ListOK, Listed
  <2>3. i <= Len(list) /\ i \in Nat /\ Len(list) \in Nat
    <3>1. PICK S : list \in Seq(S)
      BY <1>1 DEF IsSequence
    <3> QED
      BY <3>1, LenProperties
  <2> HIDE DEF e
  <2>4. f.id = e.id /\ f.op = e.op /\ f.day = Day(now)
    BY <2>1 DEF e
  <2>5. e.id \in 1..operlog_id_start
    BY <1>1, <2>2, <2>3 DEF EntryOK
  <2>6. RowOK(f)
    BY <1>10, <2>2, <2>4 DEF RowOK, EntryOK
  <2>7. \A a \in Placed : a.id < e.id
    BY <2>2 DEF EngineInv, ListOK
  <2> QED
    BY <2>4, <2>5, <2>6, <2>7
<1>12. \A f, g \in Flush : f.id = g.id => f = g
  <2> SUFFICES ASSUME NEW f \in Flush, NEW g \in Flush, f.id = g.id PROVE f = g
    OBVIOUS
  <2>1. PICK i \in DOMAIN list : f = [day |-> Day(now), id |-> list[i].id, op |-> list[i].op]
    BY DEF Flush
  <2>2. PICK j \in DOMAIN list : g = [day |-> Day(now), id |-> list[j].id, op |-> list[j].op]
    BY DEF Flush
  <2>3. list[i].id = operlog_id_start - Len(list) + i /\ list[j].id = operlog_id_start - Len(list) + j
    BY DEF EngineInv, ListOK
  <2>4. i \in Nat /\ j \in Nat /\ Len(list) \in Nat
    <3>1. PICK S : list \in Seq(S)
      BY <1>1 DEF IsSequence
    <3> QED
      BY <3>1, LenProperties
  <2>5. list[i].id = list[j].id
    BY <2>1, <2>2
  <2>6. i = j
    BY <1>1, <2>3, <2>4, <2>5
  <2> QED
    BY <2>1, <2>2, <2>6
<1>13. StatusOK' /\ MadeOK' /\ MemoryOK'
  <2>1. <<>> \in Seq({})
    OBVIOUS
  <2> QED
    BY <1>1, <1>2, <2>1 DEF EngineInv, StatusOK, MadeOK, MemoryOK, IsSequence, Running
<1>14. PlacedOK'
  <2>1. ASSUME NEW a \in Placed PROVE RowOK(a) /\ a.day \in Nat /\ a.id \in Nat /\ a.day <= Day(now) /\ a.id <= operlog_id_start
    BY <1>1 DEF EngineInv, PlacedOK, RowOK, EntryOK
  <2>2. ASSUME NEW a \in Placed \cup Flush PROVE RowOK(a)' /\ a.day <= Day(now) /\ a.id <= operlog_id_start
    <3>1. RowOK(a) /\ a.day <= Day(now) /\ a.id <= operlog_id_start
      BY <1>1, <1>10, <1>11, <2>1
    <3> QED
      BY <1>9, <3>1 DEF RowOK
  <2>3. ASSUME NEW a \in Placed \cup Flush, NEW b \in Placed \cup Flush
        PROVE  (a.id = b.id => a = b) /\ (a.id < b.id => a.day <= b.day)
    <3>1. CASE a \in Placed /\ b \in Placed
      BY <3>1 DEF EngineInv, PlacedOK
    <3>2. CASE a \in Placed /\ b \in Flush
      BY <1>10, <1>11, <2>1, <3>2
    <3>3. CASE a \in Flush /\ b \in Placed
      BY <1>1, <1>10, <1>11, <2>1, <3>3
    <3>4. CASE a \in Flush /\ b \in Flush
      BY <1>10, <1>11, <1>12, <3>4
    <3> QED
      BY <3>1, <3>2, <3>3, <3>4
  <2> QED
    BY <1>4, <2>2, <2>3 DEF PlacedOK, Day
<1>15. QueueOK'
  <2>1. ASSUME NEW i \in DOMAIN requests', NEW j \in DOMAIN requests', i < j,
               NEW a \in Rows(requests'[i]), NEW b \in Rows(requests'[j])
        PROVE  a.id < b.id
    <3>1. CASE j \in DOMAIN requests
      <4>1. i \in DOMAIN requests
        BY <1>2, <2>1, <3>1
      <4> QED
        BY <1>2, <2>1, <3>1, <4>1 DEF EngineInv, QueueOK
    <3>2. CASE i \in DOMAIN requests /\ j \notin DOMAIN requests
      <4>1. a \in Placed /\ b \in Flush
        BY <1>2, <3>2 DEF Placed, Queued
      <4> QED
        BY <1>11, <4>1
    <3>3. CASE i \notin DOMAIN requests /\ j \notin DOMAIN requests
      BY <1>2, <2>1, <3>3
    <3> QED
      BY <3>1, <3>2, <3>3
  <2>2. ASSUME NEW j \in DOMAIN requests', NEW a \in operlog \cup Rows(executing), NEW b \in Rows(requests'[j])
        PROVE  a.id < b.id
    <3>1. CASE j \in DOMAIN requests
      BY <1>2, <3>1 DEF EngineInv, QueueOK
    <3>2. CASE j \notin DOMAIN requests
      <4>1. a \in Placed /\ b \in Flush
        BY <1>2, <3>2 DEF Placed
      <4> QED
        BY <1>11, <4>1
    <3> QED
      BY <3>1, <3>2
  <2> QED
    BY <2>1, <2>2 DEF EngineInv, QueueOK, Rows
<1>16. ListOK'
  BY <1>2, <1>5 DEF ListOK
<1>17. Same(Entries', Entries) /\ Same(Entries, Entries')
  BY <1>6, <1>7, <1>8 DEF Same, Entries
<1>18. ASSUME NEW oper, NEW time, BaseOK(oper, time) PROVE BaseOK(oper, time)'
  <2>1. Closed(oper)'
    BY <1>18 DEF BaseOK, Closed
  <2>2. BaseDays(oper, time)'
    <3>1. Day(time) <= Day(now)
      <4>1. time \in Nat /\ time <= now
        BY <1>1, <1>18 DEF BaseOK, BaseTimes
      <4> QED
        BY <1>1, <4>1, DayGrows
    <3>2. \A a \in Placed \cup Flush : a.id > oper => a.day >= Day(time)
      BY <1>10, <1>11, <1>18, <3>1 DEF BaseOK, BaseDays
    <3> QED
      BY <1>4, <3>2 DEF BaseDays, Day
  <2> QED
    BY <1>1, <1>18, <1>17, <2>1, <2>2, BaseMoves
<1> QED
  BY <1>13, <1>14, <1>15, <1>16, <1>18, <1>17 DEF EngineInv

\* The worker takes the first statement of the queue.
LEMMA TakeKeeps ==
    ASSUME EngineInv, TakeRequest
    PROVE  /\ EngineInv' /\ \A oper, time : BaseOK(oper, time) => BaseOK(oper, time)'
           /\ Same(Entries', Entries)
<1>1. /\ Running /\ Running' /\ executing = NoJob /\ requests # <<>>
      /\ executing' = Head(requests) /\ requests' = Tail(requests)
      /\ UNCHANGED <<status, mem, operlog_id_start, list, operlog, now, made>>
  BY DEF TakeRequest, Running, ghosts
<1>2. PICK S : requests \in Seq(S)
  BY DEF EngineInv, StatusOK, IsSequence
<1> DEFINE n == Len(requests)
<1>3. /\ n \in Nat /\ n >= 1 /\ DOMAIN requests = 1..n
      /\ requests' \in Seq(S) /\ DOMAIN requests' = 1..(n - 1)
      /\ executing' = requests[1]
      /\ \A j \in 1..(n - 1) : requests'[j] = requests[j + 1]
  <2>1. n \in Nat /\ n # 0 /\ DOMAIN requests = 1..n
    BY <1>1, <1>2, LenProperties, EmptySeq
  <2>2. Tail(requests) \in Seq(S) /\ Len(Tail(requests)) = n - 1
        /\ \A j \in 1..(n - 1) : Tail(requests)[j] = requests[j + 1]
    BY <1>1, <1>2, HeadTailProperties
  <2>3. DOMAIN Tail(requests) = 1..(n - 1)
    BY <2>2, LenProperties
  <2>4. Head(requests) = requests[1]
    BY <1>1, <1>2
  <2> QED
    BY <1>1, <2>1, <2>2, <2>3, <2>4
<1>4. Rows(executing) = {}
  BY <1>1 DEF Rows, NoJob
<1>5. \A j \in 1..n : j = 1 \/ (j - 1 \in 1..(n - 1) /\ (j - 1) + 1 = j)
  BY <1>3
<1>6. \A j \in 1..(n - 1) : j + 1 \in 1..n /\ 1 < j + 1
  BY <1>3
<1> HIDE DEF n
<1>7. Queued = Rows(requests[1]) \cup Queued'
  <2>1. 1 \in 1..n
    BY <1>3
  <2>2. \A j \in 1..(n - 1) : Rows(requests'[j]) \subseteq Queued
    BY <1>3, <1>6 DEF Queued
  <2>3. \A j \in 1..n : Rows(requests[j]) \subseteq Rows(requests[1]) \cup Queued'
    <3> TAKE j \in 1..n
    <3>1. CASE j = 1
      BY <3>1
    <3>2. CASE j # 1
      <4>1. j - 1 \in 1..(n - 1) /\ requests'[j - 1] = requests[j]
        BY <1>3, <1>5, <3>2
      <4> QED
        BY <1>3, <4>1 DEF Queued
    <3> QED
      BY <3>1, <3>2
  <2>4. Queued' \subseteq Queued
    BY <1>3, <2>2 DEF Queued
  <2>5. Rows(requests[1]) \subseteq Queued
    BY <1>3, <2>1 DEF Queued
  <2>6. Queued \subseteq Rows(requests[1]) \cup Queued'
    BY <1>3, <2>3 DEF Queued
  <2> QED
    BY <2>4, <2>5, <2>6
<1>8. Placed' = Placed /\ Listed' = Listed /\ Entries' = Entries
  <2>1. Rows(executing)' = Rows(requests[1])
    BY <1>3 DEF Rows
  <2>2. Placed' = operlog \cup Rows(executing)' \cup Queued'
    BY <1>1 DEF Placed
  <2>3. Placed' = Placed
    BY <1>4, <1>7, <2>1, <2>2 DEF Placed
  <2> QED
    BY <1>1, <2>3 DEF Listed, Entries
<1>9. \A e : EntryOK(e) => EntryOK(e)'
  BY <1>1 DEF EntryOK
<1>10. StatusOK' /\ MadeOK' /\ MemoryOK'
  BY <1>1, <1>3 DEF EngineInv, StatusOK, MadeOK, MemoryOK, IsSequence, Running
<1>11. PlacedOK'
  BY <1>1, <1>8, <1>9 DEF EngineInv, PlacedOK, RowOK, Day
<1>12. QueueOK'
  <2>1. ASSUME NEW i \in 1..(n - 1), NEW j \in 1..(n - 1), i < j,
               NEW a \in Rows(requests'[i]), NEW b \in Rows(requests'[j])
        PROVE  a.id < b.id
    <3>1. i + 1 < j + 1 /\ i + 1 \in DOMAIN requests /\ j + 1 \in DOMAIN requests
          /\ a \in Rows(requests[i + 1]) /\ b \in Rows(requests[j + 1])
      BY <1>3, <1>6, <2>1
    <3> QED
      BY <3>1 DEF EngineInv, QueueOK
  <2>2. ASSUME NEW j \in 1..(n - 1), NEW a \in operlog \cup Rows(requests[1]), NEW b \in Rows(requests'[j])
        PROVE  a.id < b.id
    <3>1. 1 < j + 1 /\ 1 \in DOMAIN requests /\ j + 1 \in DOMAIN requests /\ b \in Rows(requests[j + 1])
      BY <1>3, <1>6
    <3> QED
      BY <3>1 DEF EngineInv, QueueOK
  <2>3. \A a \in operlog, b \in Rows(requests[1]) : a.id < b.id
    <3>1. 1 \in DOMAIN requests
      BY <1>3
    <3> QED
      BY <3>1 DEF EngineInv, QueueOK
  <2>4. Rows(executing)' = Rows(requests[1])
    BY <1>3 DEF Rows
  <2>5. /\ \A i, j \in DOMAIN requests' : i < j =>
              \A a \in Rows(requests'[i]), b \in Rows(requests'[j]) : a.id < b.id
        /\ \A j \in DOMAIN requests' : \A a \in operlog \cup Rows(executing)', b \in Rows(requests'[j]) :
              a.id < b.id
        /\ \A a \in operlog, b \in Rows(executing)' : a.id < b.id
    BY <1>3, <2>1, <2>2, <2>3, <2>4
  <2> QED
    BY <1>1, <2>5 DEF QueueOK, Rows
<1>13. ListOK'
  BY <1>1, <1>8 DEF EngineInv, ListOK, EntryOK
<1>14. ASSUME NEW oper, NEW time, BaseOK(oper, time) PROVE BaseOK(oper, time)'
  BY <1>1, <1>8, <1>14
    DEF BaseOK, BaseTimes, BaseDays, Closed, BaseHeld, KeysDiffer, BaseSeen, IsUpdate, Day
<1> QED
  BY <1>8, <1>10, <1>11, <1>12, <1>13, <1>14 DEF EngineInv, Same

\* A statement is executed, again when it was and its answer got lost: its rows are in
\* the table once.
LEMMA ExecuteKeeps ==
    ASSUME EngineInv, NEW answered \in BOOLEAN, ExecuteSql(answered)
    PROVE  /\ EngineInv' /\ \A oper, time : BaseOK(oper, time) => BaseOK(oper, time)'
           /\ Same(Entries', Entries)
<1> DEFINE R == Rows(executing)
<1>1. /\ Running' = Running /\ Running
      /\ executing' = IF answered THEN NoJob ELSE executing
      /\ UNCHANGED <<status, mem, operlog_id_start, list, requests, now, made>>
  BY DEF ExecuteSql, EngineInv, StatusOK, Running, ghosts
<1>2. Rows(executing)' = {} \/ Rows(executing)' = R
  <2>1. Rows(NoJob) = {}
    BY DEF Rows, NoJob
  <2> QED
    BY <1>1, <2>1 DEF Rows
<1>3. \A a \in Placed : a.id \in Nat
  BY DEF EngineInv, PlacedOK, RowOK, EntryOK
<1>4. operlog' = operlog \cup R
  <2>1. CASE R \subseteq operlog
    <3>1. operlog' = operlog \/ operlog' = operlog \cup R
      BY DEF ExecuteSql
    <3> QED
      BY <2>1, <3>1
  <2>2. CASE ~(R \subseteq operlog)
    <3>1. \A a \in operlog, b \in R : a.id < b.id
      BY <2>2 DEF EngineInv, QueueOK
    <3>2. \A a \in operlog, b \in R : a.id # b.id
      BY <1>3, <3>1 DEF Placed
    <3>3. ~Duplicate(executing)
      BY <3>2 DEF Duplicate
    <3> QED
      BY <3>3 DEF ExecuteSql
  <2> QED
    BY <2>1, <2>2
<1>5. Placed' = Placed /\ Listed' = Listed /\ Entries' = Entries
  BY <1>1, <1>2, <1>4 DEF Placed, Listed, Entries, Queued
<1>6. \A e : EntryOK(e) => EntryOK(e)'
  BY <1>1 DEF EntryOK
<1>7. StatusOK' /\ MadeOK' /\ MemoryOK'
  BY <1>1 DEF EngineInv, StatusOK, MadeOK, MemoryOK, Running
<1>8. PlacedOK'
  BY <1>1, <1>5, <1>6 DEF EngineInv, PlacedOK, RowOK, Day
<1>9. QueueOK'
  <2>1. operlog' \cup Rows(executing)' = operlog \cup R /\ Rows(executing)' \subseteq operlog'
    BY <1>2, <1>4
  <2> QED
    BY <1>1, <2>1 DEF EngineInv, QueueOK
<1>10. ListOK'
  BY <1>1, <1>5 DEF EngineInv, ListOK, EntryOK
<1>11. ASSUME NEW oper, NEW time, BaseOK(oper, time) PROVE BaseOK(oper, time)'
  <2>1. Closed(oper)'
    <3>1. ASSUME NEW r \in operlog \cup R, NEW i \in oper + 1 .. r.id PROVE \E a \in operlog \cup R : a.id = i
      <4>1. CASE r \in operlog
        BY <1>11, <4>1 DEF BaseOK, Closed
      <4>2. CASE r \in R
        <5>1. r \in Placed /\ r.id \in Nat /\ r.id <= operlog_id_start /\ oper \in Nat /\ operlog_id_start \in Nat
          BY <1>1, <1>3, <1>11, <4>2 DEF Placed, EngineInv, PlacedOK, MemoryOK, BaseOK, BaseTimes
        <5>2. i \in oper + 1 .. operlog_id_start /\ i <= r.id
          BY <5>1
        <5>3. PICK e \in Entries : e.id = i
          BY <1>1, <1>11, <5>2 DEF BaseOK, BaseHeld
        <5>4. \A b \in Queued \cup Listed : r.id < b.id
          BY <4>2, <5>1 DEF EngineInv, QueueOK, ListOK, Queued
        <5>5. ~(r.id < i)
          BY <5>1, <5>2
        <5> QED
          BY <5>3, <5>4, <5>5 DEF Entries, Placed
      <4> QED
        BY <4>1, <4>2
    <3> QED
      BY <1>4, <3>1 DEF Closed
  <2> QED
    BY <1>1, <1>5, <1>11, <2>1
      DEF BaseOK, BaseTimes, BaseDays, BaseHeld, KeysDiffer, BaseSeen, IsUpdate, Day
<1> QED
  BY <1>5, <1>7, <1>8, <1>9, <1>10, <1>11 DEF EngineInv, Same

\* Conditions under which matchengine keeps what the log holds: no fault but crashes, so in
\* particular keys of updates that are compared by value and no two slices in a second; changes
\* of balances that have no more digits than those that are shown, and slices that are kept
\* for a day (slice_keeptime is three days by default).
Careful ==
    /\ Faults = {} /\ \A c \in Changes : Decimal(c, ShowGrain) = c
    /\ DayLength <= SliceKeeptime

\* A command of a client
LEMMA RequestKeeps ==
    ASSUME EngineInv, Careful, Request
    PROVE  /\ EngineInv' /\ \A i \in 0..operlog_id_start : made'[i] = made[i]
           /\ \A oper, time : BaseOK(oper, time) => BaseOK(oper, time)'
           /\ Running /\ UNCHANGED <<children, slices, now, status>>
<1>1. ASSUME NEW op, NEW M, Handle(op, M),
             \A m \in M : MemOK(m) /\ Makes(Image(mem), op, Image(m)) /\ KeysAfter(mem, op, m)
      PROVE  /\ EngineInv' /\ \A i \in 0..operlog_id_start : made'[i] = made[i]
             /\ \A oper, time : BaseOK(oper, time) => BaseOK(oper, time)'
             /\ Running /\ UNCHANGED <<children, slices, now, status>>
  <2>1. PICK m \in M : mem' = m /\ made' = [made EXCEPT ![operlog_id_start + 1] = Image(m)]
    BY <1>1 DEF Handle
  <2>2. /\ status = "UP" /\ operlog_id_start < MaxOps /\ AppendOperlog(op) /\ Running
        /\ UNCHANGED <<children, slices, now, status, requests, executing, operlog>>
    BY <1>1 DEF Handle, Running, slices
  <2>3. MemOK(m) /\ Makes(Image(mem), op, Image(m)) /\ KeysAfter(mem, op, m)
    BY <1>1, <2>1
  <2> QED
    BY <2>1, <2>2, <2>3, HandleKeeps DEF Careful
<1>2. \A op, M : Handle(op, M) => MemOK(mem) /\ now \in Nat
  BY DEF Handle, EngineInv, MemoryOK, StatusOK, Running
<1>3. ASSUME NEW key \in Keys, NEW change \in Changes, OnCmdBalanceUpdate(key, change)
      PROVE  /\ EngineInv' /\ \A i \in 0..operlog_id_start : made'[i] = made[i]
             /\ \A oper, time : BaseOK(oper, time) => BaseOK(oper, time)'
             /\ Running /\ UNCHANGED <<children, slices, now, status>>
  <2> DEFINE op == [method |-> "update_balance", key |-> key, change |-> change]
             M == UpdateUserBalance(mem, key, Decimal(change, ShowGrain))
  <2>1. Handle(op, M)
    BY <1>3 DEF OnCmdBalanceUpdate
  <2>2. M = UpdateUserBalance(mem, key, change) /\ change \in Int
    BY InputsAssumption DEF Careful
  <2>3. op.method = "update_balance" /\ op.key = key /\ op.change = change
    OBVIOUS
  <2> HIDE DEF op, M
  <2>4. MemOK(mem) /\ now \in Nat
    BY <1>2, <2>1
  <2>5. \A m \in M : MemOK(m) /\ Makes(Image(mem), op, Image(m)) /\ KeysAfter(mem, op, m)
    BY <2>2, <2>3, <2>4, UpdateIs
  <2> QED
    BY <1>1, <2>1, <2>5
<1>4. ASSUME NEW amount \in Amounts, OnCmdOrderPutLimit(amount)
      PROVE  /\ EngineInv' /\ \A i \in 0..operlog_id_start : made'[i] = made[i]
             /\ \A oper, time : BaseOK(oper, time) => BaseOK(oper, time)'
             /\ Running /\ UNCHANGED <<children, slices, now, status>>
  <2> DEFINE op == [method |-> "limit_order", amount |-> amount]
             M == PutLimitOrder(mem, amount)
  <2>1. Handle(op, M)
    BY <1>4 DEF OnCmdOrderPutLimit
  <2>2. amount \in Nat \ {0}
    BY InputsAssumption
  <2>3. op.method = "limit_order" /\ op.amount = amount
    OBVIOUS
  <2> HIDE DEF op
  <2>4. MemOK(mem)
    BY <1>2, <2>1
  <2>5. \A m \in M : MemOK(m) /\ Makes(Image(mem), op, Image(m)) /\ KeysAfter(mem, op, m)
    BY <2>2, <2>3, <2>4, PutIs
  <2> HIDE DEF M
  <2> QED
    BY <1>1, <2>1, <2>5
<1>5. ASSUME NEW id \in 1..MaxOps, OnCmdOrderCancel(id)
      PROVE  /\ EngineInv' /\ \A i \in 0..operlog_id_start : made'[i] = made[i]
             /\ \A oper, time : BaseOK(oper, time) => BaseOK(oper, time)'
             /\ Running /\ UNCHANGED <<children, slices, now, status>>
  <2> DEFINE op == [method |-> "cancel_order", order_id |-> id]
             M == CancelOrder(mem, id)
  <2>1. Handle(op, M)
    BY <1>5 DEF OnCmdOrderCancel
  <2>2. op.method = "cancel_order" /\ op.order_id = id
    OBVIOUS
  <2> HIDE DEF op
  <2>3. MemOK(mem)
    BY <1>2, <2>1
  <2>4. \A m \in M : MemOK(m) /\ Makes(Image(mem), op, Image(m)) /\ KeysAfter(mem, op, m)
    BY <2>2, <2>3, CancelIs
  <2> HIDE DEF M
  <2> QED
    BY <1>1, <2>1, <2>4
<1> QED
  BY <1>3, <1>4, <1>5 DEF Request

-----------------------------------------------------------------------------
(* Slices *)

ChildRecord(time, image, oper, phase, old) ==
    [time |-> time, image |-> image, oper |-> oper, phase |-> phase, old |-> old]
ChildOK(c) ==
    /\ c = ChildRecord(c.time, c.image, c.oper, c.phase, c.old)
    /\ c.time \in 1..now /\ c.phase \in {"orders", "balance", "history", "dumped", "clear"}
    /\ c.phase # "clear" => c.old = {}

\* A child that may still commit a slice
Dumping == {c \in children : c.phase \in {"orders", "balance", "history"}}

\* What it has dumped is the memory of one instant.
DumpOK(c) ==
    /\ c.image = made[c.oper] /\ BaseOK(c.oper, c.time)
    /\ \A s \in slice_history : s.time # c.time
    /\ c.phase \in {"balance", "history"} =>
          c.time \in DOMAIN slice_order /\ slice_order[c.time] = c.image.orders
    /\ c.phase = "history" =>
          /\ c.time \in DOMAIN slice_balance
          /\ slice_balance[c.time] = [avail |-> c.image.avail, frozen |-> c.image.frozen]

\* A slice that may be deleted is neither the last one nor one that is being made.
OldOK(s) ==
    /\ s.id \in Nat /\ s.time \in Nat /\ s.time < now
    /\ \A d \in Dumping : s.time # d.time
    /\ LastSlice # {} /\ \A l \in LastSlice : s.id < l.id /\ s.time # l.time

ChildrenOK ==
    /\ \A c \in children : ChildOK(c) /\ \A s \in c.old : OldOK(s)
    /\ \A c, d \in children : c.time = d.time => c = d
    /\ \A c \in Dumping : DumpOK(c)
HistoryOK ==
    /\ \A s \in slice_history : s.id \in Nat /\ s.time \in Nat
    /\ \E n \in Nat : \A s \in slice_history : s.id <= n
    /\ \A s, t \in slice_history : s.id = t.id => s = t
LastOK ==
    /\ \A s \in LastSlice : SliceIs(s, made[s.end_oper_id]) /\ BaseOK(s.end_oper_id, s.time)
    /\ slice_history = {} => BaseOK(0, 1) /\ Day(now) = Day(1)
SlicesInv == ChildrenOK /\ HistoryOK /\ LastOK

\* There is a last slice when there is one.
LEMMA LastIs == ASSUME HistoryOK, slice_history # {} PROVE LastSlice # {}
<1> DEFINE S == {s.id : s \in slice_history}
<1>1. PICK n \in Nat : \A s \in slice_history : s.id <= n
  BY DEF HistoryOK
<1>2. S \in SUBSET Nat /\ S # {} /\ \A x \in S : x <= n
  BY <1>1 DEF HistoryOK
<1>3. Max(S) \in S /\ \A x \in S : x <= Max(S)
  <2> HIDE DEF S
  <2> QED
    BY <1>2, MaxIs
<1> DEFINE m == Max(S)
<1>4. m \in S /\ \A x \in S : x <= m
  BY <1>3
<1> HIDE DEF m
<1>5. PICK s \in slice_history : s.id = m
  BY <1>4
<1>6. s \in LastSlice
  BY <1>4, <1>5 DEF LastSlice
<1> QED
  BY <1>6

\* The slices stay what they are while the engine goes on.
LEMMA SlicesStay ==
    ASSUME SlicesInv, UNCHANGED <<children, slices>>, now \in Nat, now' \in Nat, now <= now',
           \A oper, time : BaseOK(oper, time) /\ now' <= time + DayLength =>
               BaseOK(oper, time)' /\ made'[oper] = made[oper],
           \A c \in Dumping : now' <= c.time + DayLength,
           \A s \in LastSlice : now' <= s.time + DayLength,
           slice_history = {} => Day(now') = Day(1)
    PROVE  SlicesInv'
<1>1. /\ Dumping' = Dumping /\ LastSlice' = LastSlice
      /\ UNCHANGED <<slice_order, slice_balance, slice_history>>
  BY DEF Dumping, LastSlice, slices
<1>2. HistoryOK'
  BY <1>1 DEF SlicesInv, HistoryOK
<1>3. ASSUME NEW c \in children PROVE ChildOK(c)' /\ \A s \in c.old : OldOK(s)'
  <2>1. ChildOK(c) /\ \A s \in c.old : OldOK(s)
    BY DEF SlicesInv, ChildrenOK
  <2>2. ChildOK(c)'
    BY <2>1 DEF ChildOK
  <2>3. ASSUME NEW s \in c.old PROVE OldOK(s)'
    <3>1. OldOK(s) /\ s.time < now'
      <4>1. s.time < now /\ s.time \in Nat /\ OldOK(s)
        BY <2>1 DEF OldOK
      <4> QED
        BY <4>1
    <3> QED
      BY <1>1, <3>1 DEF OldOK
  <2> QED
    BY <2>2, <2>3
<1>4. ASSUME NEW c \in Dumping PROVE DumpOK(c)'
  <2>1. DumpOK(c) /\ BaseOK(c.oper, c.time)
    BY DEF SlicesInv, ChildrenOK, DumpOK
  <2>2. BaseOK(c.oper, c.time)' /\ made'[c.oper] = made[c.oper]
    BY <2>1
  <2> QED
    BY <1>1, <2>1, <2>2 DEF DumpOK
<1>5. ASSUME NEW s \in LastSlice PROVE SliceIs(s, made[s.end_oper_id])' /\ BaseOK(s.end_oper_id, s.time)'
  <2>1. SliceIs(s, made[s.end_oper_id]) /\ BaseOK(s.end_oper_id, s.time)
    BY DEF SlicesInv, LastOK
  <2>2. BaseOK(s.end_oper_id, s.time)' /\ made'[s.end_oper_id] = made[s.end_oper_id]
    BY <2>1
  <2> QED
    BY <1>1, <2>1, <2>2 DEF SliceIs
<1>6. slice_history = {} => BaseOK(0, 1)' /\ Day(now)' = Day(1)
  <2> SUFFICES ASSUME slice_history = {} PROVE BaseOK(0, 1)' /\ Day(now)' = Day(1)
    OBVIOUS
  <2>1. BaseOK(0, 1) /\ 1 <= now /\ Day(now') = Day(1)
    BY DEF SlicesInv, LastOK, BaseOK, BaseTimes
  <2>2. now' <= 1 + DayLength
    <3>1. 1 \in Nat /\ 1 <= now'
      BY <2>1
    <3> QED
      BY <2>1, <3>1, DayGrows
  <2> QED
    BY <2>1, <2>2 DEF Day
<1> QED
  BY <1>1, <1>2, <1>3, <1>4, <1>5, <1>6 DEF SlicesInv, ChildrenOK, LastOK, Day

\* The tables of a slice stay.
Kept(time) ==
    /\ time \in DOMAIN slice_order =>
          time \in DOMAIN slice_order' /\ slice_order'[time] = slice_order[time]
    /\ time \in DOMAIN slice_balance =>
          time \in DOMAIN slice_balance' /\ slice_balance'[time] = slice_balance[time]

\* A child goes on, or ends, and leaves the others alone.
LEMMA ChildMoves ==
    ASSUME EngineInv, SlicesInv, NEW c \in children, NEW D, children' = (children \ {c}) \cup D,
           UNCHANGED <<engine, operlog, now, ghosts>>,
           \A d \in D : ChildOK(d)' /\ d.time = c.time /\ (d \in Dumping' => c \in Dumping /\ DumpOK(d)'),
           \A d, e \in D : d = e,
           \A d \in Dumping \ {c} : Kept(d.time) /\ \A s \in slice_history' : s.time # d.time,
           LastSlice # {} => LastSlice' # {},
           \A s : OldOK(s) => \A l \in LastSlice' : s.id < l.id /\ s.time # l.time,
           \A d \in D : \A s \in d.old : OldOK(s)
    PROVE  EngineInv' /\ ChildrenOK' /\ \A oper, time : BaseOK(oper, time) => BaseOK(oper, time)'
<1>1. EngineInv' /\ \A oper, time : BaseOK(oper, time) => BaseOK(oper, time)'
  <2>1. UNCHANGED <<status, mem, operlog_id_start, list, requests, executing, operlog, now, made>>
    BY DEF engine, buffers, ghosts
  <2> QED
    BY <2>1, EngineSame
<1>2. \A d \in Dumping' : d \in Dumping \ {c} \/ (d \in D /\ c \in Dumping)
  BY DEF Dumping
<1>3. \A d \in Dumping : d \in children
  BY DEF Dumping
<1>4. ASSUME NEW s, OldOK(s) PROVE OldOK(s)'
  <2>1. ASSUME NEW d \in Dumping' PROVE s.time # d.time
    BY <1>2, <1>4 DEF OldOK
  <2> QED
    BY <1>4, <2>1 DEF OldOK
<1>5. ASSUME NEW d \in children' PROVE ChildOK(d)' /\ \A s \in d.old : OldOK(s)'
  <2>1. CASE d \in children
    <3>1. ChildOK(d) /\ \A s \in d.old : OldOK(s)
      BY <2>1 DEF SlicesInv, ChildrenOK
    <3> QED
      BY <1>4, <3>1 DEF ChildOK
  <2>2. CASE d \in D
    BY <1>4, <2>2
  <2> QED
    BY <2>1, <2>2
<1>6. \A d, e \in children' : d.time = e.time => d = e
  <2>1. \A d, e \in children : d.time = e.time => d = e
    BY DEF SlicesInv, ChildrenOK
  <2> QED
    BY <2>1
<1>7. ASSUME NEW d \in Dumping' PROVE DumpOK(d)'
  <2>1. CASE d \in D
    BY <2>1
  <2>2. CASE d \in Dumping \ {c}
    <3>1. DumpOK(d) /\ made' = made /\ BaseOK(d.oper, d.time)'
      BY <1>1, <2>2 DEF SlicesInv, ChildrenOK, DumpOK, ghosts
    <3>2. Kept(d.time) /\ \A s \in slice_history' : s.time # d.time
      BY <2>2
    <3> QED
      BY <3>1, <3>2 DEF DumpOK, Kept
  <2> QED
    BY <1>2, <2>1, <2>2
<1> QED
  BY <1>1, <1>5, <1>6, <1>7 DEF ChildrenOK

\* The last slice stays.
LEMMA LastStays ==
    ASSUME SlicesInv, LastSlice' = LastSlice, slice_history' = {} => slice_history = {},
           UNCHANGED <<made, now>>, \A s \in LastSlice : Kept(s.time),
           \A oper, time : BaseOK(oper, time) => BaseOK(oper, time)'
    PROVE  LastOK'
<1>1. ASSUME NEW s \in LastSlice PROVE SliceIs(s, made[s.end_oper_id])' /\ BaseOK(s.end_oper_id, s.time)'
  <2>1. SliceIs(s, made[s.end_oper_id]) /\ BaseOK(s.end_oper_id, s.time) /\ Kept(s.time)
    BY DEF SlicesInv, LastOK
  <2> QED
    BY <2>1 DEF SliceIs, Kept
<1>2. slice_history' = {} => BaseOK(0, 1)' /\ Day(now)' = Day(1)
  BY DEF SlicesInv, LastOK, Day
<1> QED
  BY <1>1, <1>2 DEF LastOK, Day

\* A record of a child, with another phase
LEMMA PhaseIs ==
    ASSUME NEW c, ChildOK(c), NEW p
    PROVE  [c EXCEPT !.phase = p] = ChildRecord(c.time, c.image, c.oper, p, c.old)
BY DEF ChildOK, ChildRecord

\* The fields of such a record
LEMMA ChildFields ==
    ASSUME NEW t, NEW i, NEW o, NEW p, NEW l, NEW d, d = ChildRecord(t, i, o, p, l)
    PROVE  d.time = t /\ d.image = i /\ d.oper = o /\ d.phase = p /\ d.old = l
BY DEF ChildRecord

\* A child is forked: its image is a base from now on.
LEMMA MakeSliceKeeps ==
    ASSUME EngineInv, SlicesInv, Careful, MakeSlice,
           UNCHANGED <<status, mem, operlog_id_start, buffers, operlog, slices, now, ghosts>>
    PROVE  EngineInv' /\ SlicesInv'
<1>1. EngineInv' /\ \A oper, time : BaseOK(oper, time) => BaseOK(oper, time)'
  <2>1. UNCHANGED <<status, mem, operlog_id_start, list, requests, executing, operlog, now, made>>
    BY DEF buffers, ghosts
  <2> QED
    BY <2>1, EngineSame
<1>2. /\ Running /\ now \in Nat /\ now >= 1 /\ operlog_id_start \in 0..MaxOps /\ MaxOps \in Nat
      /\ ImageOK(Image(mem)) /\ Image(mem) = made[operlog_id_start] /\ DayLength \in Nat
  BY BoundsAssumption, SettingsAssumption DEF MakeSlice, Running, EngineInv, StatusOK, MemoryOK, MemOK
<1> DEFINE n == operlog_id_start
<1>3. \A e \in Entries : e.id \in Nat /\ e.id <= n
  BY <1>2, EntriesGiven
<1>4. BaseOK(n, now)
  <2>1. BaseTimes(n, now)
    BY <1>2 DEF BaseTimes
  <2>2. BaseDays(n, now) /\ BaseHeld(n) /\ BaseSeen(n, now) /\ KeysDiffer(n, Entries)
    <3>1. \A e \in Entries : ~(e.id > n)
      BY <1>2, <1>3
    <3>2. \A i \in n + 1 .. n : FALSE
      BY <1>2
    <3> QED
      BY <3>1, <3>2 DEF BaseDays, BaseHeld, BaseSeen, KeysDiffer, Entries
  <2>3. Closed(n)
    <3>1. \A r \in operlog : r.id \in Nat /\ r.id <= n
      BY <1>3 DEF Entries, Placed
    <3>2. \A r \in operlog : \A i \in n + 1 .. r.id : FALSE
      BY <1>2, <3>1
    <3> QED
      BY <3>2 DEF Closed
  <2> HIDE DEF n
  <2> QED
    BY <2>1, <2>2, <2>3 DEF BaseOK
<1>5. PICK d : d = ChildRecord(now, Image(mem), operlog_id_start, "orders", {})
  OBVIOUS
<1>6. d.time = now /\ d.image = Image(mem) /\ d.oper = operlog_id_start /\ d.phase = "orders" /\ d.old = {}
  BY <1>5, ChildFields
<1>7. /\ children' = children \cup {d} /\ \A c \in children : c.time # now
      /\ \A s \in slice_history : s.time # now
  BY <1>5 DEF MakeSlice, NewSecond, Careful, Child, ChildRecord
<1>8. /\ Dumping' = Dumping \cup {d} /\ LastSlice' = LastSlice
      /\ UNCHANGED <<slice_order, slice_balance, slice_history, made, now>>
  BY <1>6, <1>7 DEF Dumping, LastSlice, slices, ghosts
<1>9. HistoryOK'
  BY <1>8 DEF SlicesInv, HistoryOK
<1>10. LastOK'
  BY <1>1, <1>8, LastStays DEF Kept
<1>11. ASSUME NEW c \in children' PROVE ChildOK(c)' /\ \A s \in c.old : OldOK(s)'
  <2>1. CASE c \in children
    <3>1. ChildOK(c) /\ \A s \in c.old : OldOK(s)
      BY <2>1 DEF SlicesInv, ChildrenOK
    <3>2. ASSUME NEW s \in c.old PROVE OldOK(s)'
      <4>1. OldOK(s) /\ s.time < now
        BY <3>1 DEF OldOK
      <4>2. s.time # d.time
        BY <1>2, <1>6, <4>1 DEF OldOK
      <4> QED
        BY <1>8, <4>1, <4>2 DEF OldOK
    <3> QED
      BY <1>8, <3>1, <3>2 DEF ChildOK
  <2>2. CASE c = d
    <3>1. ChildOK(d)
      BY <1>2, <1>5, <1>6 DEF ChildOK
    <3> QED
      BY <1>6, <1>8, <2>2, <3>1 DEF ChildOK
  <2> QED
    BY <1>7, <2>1, <2>2
<1>12. \A a, b \in children' : a.time = b.time => a = b
  <2>1. \A a, b \in children : a.time = b.time => a = b
    BY DEF SlicesInv, ChildrenOK
  <2> QED
    BY <1>6, <1>7, <2>1
<1>13. ASSUME NEW c \in Dumping' PROVE DumpOK(c)'
  <2>1. CASE c \in Dumping
    <3>1. DumpOK(c) /\ BaseOK(c.oper, c.time)'
      BY <1>1, <2>1 DEF SlicesInv, ChildrenOK, DumpOK
    <3> QED
      BY <1>8, <3>1 DEF DumpOK
  <2>2. CASE c = d
    <3>1. BaseOK(d.oper, d.time)'
      BY <1>1, <1>4, <1>6
    <3> QED
      BY <1>2, <1>6, <1>7, <1>8, <2>2, <3>1 DEF DumpOK
  <2> QED
    BY <1>8, <2>1, <2>2
<1> QED
  BY <1>1, <1>9, <1>10, <1>11, <1>12, <1>13 DEF SlicesInv, ChildrenOK

\* A child that dumps has a time of its own.
LEMMA TimeIsOwn ==
    ASSUME SlicesInv, NEW c \in Dumping
    PROVE  /\ c \in children /\ ChildOK(c) /\ DumpOK(c) /\ c.old = {}
           /\ \A d \in Dumping \ {c} : d.time # c.time
           /\ \A s \in LastSlice : s.time # c.time
BY DEF SlicesInv, ChildrenOK, ChildOK, DumpOK, Dumping, LastSlice

\* dump_orders
LEMMA DumpOrdersKeeps ==
    ASSUME EngineInv, SlicesInv, Careful, NEW c \in children, DumpOrders(c)
    PROVE  EngineInv' /\ SlicesInv'
<1>1. /\ c.phase = "orders" /\ children' = (children \ {c}) \cup {[c EXCEPT !.phase = "balance"]}
      /\ slice_order' = Put(slice_order, c.time, c.image.orders)
      /\ UNCHANGED <<engine, operlog, slice_balance, slice_history, now, ghosts, made>>
  BY DEF DumpOrders, Phase, Careful, ghosts
<1>2. c \in Dumping
  BY <1>1 DEF Dumping
<1>3. /\ ChildOK(c) /\ DumpOK(c) /\ c.old = {}
      /\ \A d \in Dumping \ {c} : d.time # c.time
      /\ \A s \in LastSlice : s.time # c.time
  BY <1>2, TimeIsOwn
<1>4. PICK d : d = [c EXCEPT !.phase = "balance"]
  OBVIOUS
<1>5. d = ChildRecord(c.time, c.image, c.oper, "balance", c.old)
  BY <1>3, <1>4, PhaseIs
<1>6. d.time = c.time /\ d.image = c.image /\ d.oper = c.oper /\ d.phase = "balance" /\ d.old = c.old
  BY <1>5, ChildFields
<1>7. \A t : t # c.time => Kept(t)
  BY <1>1 DEF Kept, Put
<1>8. c.time \in DOMAIN slice_order' /\ slice_order'[c.time] = c.image.orders
  BY <1>1 DEF Put
<1>9. LastSlice' = LastSlice /\ slice_history' = slice_history
  BY <1>1 DEF LastSlice
<1>10. EngineInv' /\ \A oper, time : BaseOK(oper, time) => BaseOK(oper, time)'
  <2>1. UNCHANGED <<status, mem, operlog_id_start, list, requests, executing, operlog, now, made>>
    BY <1>1 DEF engine, buffers
  <2> QED
    BY <2>1, EngineSame
<1>11. ChildOK(d)'
  BY <1>1, <1>3, <1>5, <1>6 DEF ChildOK
<1>12. DumpOK(d)'
  <2>1. BaseOK(d.oper, d.time)' /\ made' = made
    BY <1>1, <1>3, <1>6, <1>10 DEF DumpOK
  <2> QED
    BY <1>3, <1>6, <1>8, <1>9, <2>1 DEF DumpOK
<1>13. \A e \in Dumping \ {c} : Kept(e.time) /\ \A s \in slice_history' : s.time # e.time
  <2>1. \A e \in Dumping : \A s \in slice_history : s.time # e.time
    BY DEF SlicesInv, ChildrenOK, DumpOK
  <2> QED
    BY <1>3, <1>7, <1>9, <2>1
<1>14. ChildrenOK'
  <2>1. \A s : OldOK(s) => \A l \in LastSlice' : s.id < l.id /\ s.time # l.time
    BY <1>9 DEF OldOK
  <2>2. PICK D : D = {d}
    OBVIOUS
  <2>3. children' = (children \ {c}) \cup D /\ \A e, g \in D : e = g
    BY <1>1, <1>4, <2>2
  <2>4. \A e \in D : \A s \in e.old : OldOK(s)
    BY <1>3, <1>6, <2>2
  <2>5. \A e \in D : ChildOK(e)' /\ e.time = c.time /\ (e \in Dumping' => c \in Dumping /\ DumpOK(e)')
    BY <1>2, <1>6, <1>11, <1>12, <2>2
  <2>6. UNCHANGED <<engine, operlog, now, ghosts>> /\ (LastSlice # {} => LastSlice' # {})
    BY <1>1, <1>9
  <2> QED
    BY <1>13, <2>1, <2>3, <2>4, <2>5, <2>6, ChildMoves
<1>15. LastOK'
  BY <1>1, <1>3, <1>7, <1>9, <1>10, LastStays
<1>16. HistoryOK'
  BY <1>9 DEF SlicesInv, HistoryOK
<1> QED
  BY <1>10, <1>14, <1>15, <1>16 DEF SlicesInv

\* dump_balance
LEMMA DumpBalanceKeeps ==
    ASSUME EngineInv, SlicesInv, Careful, NEW c \in children, DumpBalance(c)
    PROVE  EngineInv' /\ SlicesInv'
<1>1. /\ c.phase = "balance" /\ children' = (children \ {c}) \cup {[c EXCEPT !.phase = "history"]}
      /\ slice_balance' = Put(slice_balance, c.time, [avail |-> c.image.avail, frozen |-> c.image.frozen])
      /\ UNCHANGED <<engine, operlog, slice_order, slice_history, now, ghosts, made>>
  BY DEF DumpBalance, Phase, Careful, ghosts
<1>2. c \in Dumping
  BY <1>1 DEF Dumping
<1>3. /\ ChildOK(c) /\ DumpOK(c) /\ c.old = {}
      /\ \A d \in Dumping \ {c} : d.time # c.time
      /\ \A s \in LastSlice : s.time # c.time
  BY <1>2, TimeIsOwn
<1>4. PICK d : d = [c EXCEPT !.phase = "history"]
  OBVIOUS
<1>5. d = ChildRecord(c.time, c.image, c.oper, "history", c.old)
  BY <1>3, <1>4, PhaseIs
<1>6. d.time = c.time /\ d.image = c.image /\ d.oper = c.oper /\ d.phase = "history" /\ d.old = c.old
  BY <1>5, ChildFields
<1>7. \A t : t # c.time => Kept(t)
  BY <1>1 DEF Kept, Put
<1>8. /\ c.time \in DOMAIN slice_balance'
      /\ slice_balance'[c.time] = [avail |-> c.image.avail, frozen |-> c.image.frozen]
  BY <1>1 DEF Put
<1>9. LastSlice' = LastSlice /\ slice_history' = slice_history
  BY <1>1 DEF LastSlice
<1>10. EngineInv' /\ \A oper, time : BaseOK(oper, time) => BaseOK(oper, time)'
  <2>1. UNCHANGED <<status, mem, operlog_id_start, list, requests, executing, operlog, now, made>>
    BY <1>1 DEF engine, buffers
  <2> QED
    BY <2>1, EngineSame
<1>11. ChildOK(d)'
  BY <1>1, <1>3, <1>5, <1>6 DEF ChildOK
<1>12. DumpOK(d)'
  <2>1. BaseOK(d.oper, d.time)' /\ made' = made
    BY <1>1, <1>3, <1>6, <1>10 DEF DumpOK
  <2>2. c.time \in DOMAIN slice_order' /\ slice_order'[c.time] = c.image.orders
    BY <1>1, <1>3 DEF DumpOK
  <2> QED
    BY <1>3, <1>6, <1>8, <1>9, <2>1, <2>2 DEF DumpOK
<1>13. \A e \in Dumping \ {c} : Kept(e.time) /\ \A s \in slice_history' : s.time # e.time
  <2>1. \A e \in Dumping : \A s \in slice_history : s.time # e.time
    BY DEF SlicesInv, ChildrenOK, DumpOK
  <2> QED
    BY <1>3, <1>7, <1>9, <2>1
<1>14. ChildrenOK'
  <2>1. \A s : OldOK(s) => \A l \in LastSlice' : s.id < l.id /\ s.time # l.time
    BY <1>9 DEF OldOK
  <2>2. PICK D : D = {d}
    OBVIOUS
  <2>3. children' = (children \ {c}) \cup D /\ \A e, g \in D : e = g
    BY <1>1, <1>4, <2>2
  <2>4. \A e \in D : \A s \in e.old : OldOK(s)
    BY <1>3, <1>6, <2>2
  <2>5. \A e \in D : ChildOK(e)' /\ e.time = c.time /\ (e \in Dumping' => c \in Dumping /\ DumpOK(e)')
    BY <1>2, <1>6, <1>11, <1>12, <2>2
  <2>6. UNCHANGED <<engine, operlog, now, ghosts>> /\ (LastSlice # {} => LastSlice' # {})
    BY <1>1, <1>9
  <2> QED
    BY <1>13, <2>1, <2>3, <2>4, <2>5, <2>6, ChildMoves
<1>15. LastOK'
  BY <1>1, <1>3, <1>7, <1>9, <1>10, LastStays
<1>16. HistoryOK'
  BY <1>9 DEF SlicesInv, HistoryOK
<1> QED
  BY <1>10, <1>14, <1>15, <1>16 DEF SlicesInv

\* update_slice_history: the slice is whole, and the last one from now on.
LEMMA CommitKeeps ==
    ASSUME EngineInv, SlicesInv, NEW c \in children, UpdateSliceHistory(c)
    PROVE  EngineInv' /\ SlicesInv'
<1> DEFINE ids == {0} \cup {s.id : s \in slice_history}
           m == Max(ids)
<1>1. /\ c.phase = "history" /\ children' = (children \ {c}) \cup {[c EXCEPT !.phase = "dumped"]}
      /\ UNCHANGED <<engine, operlog, slice_order, slice_balance, now, ghosts, made>>
  BY DEF UpdateSliceHistory, Phase, ghosts
<1>2. PICK new : /\ new = [id |-> m + 1, time |-> c.time, end_oper_id |-> c.oper,
                           end_order_id |-> c.image.order_id_start]
                 /\ slice_history' = slice_history \cup {new}
  BY DEF UpdateSliceHistory
<1>3. c \in Dumping
  BY <1>1 DEF Dumping
<1>4. /\ ChildOK(c) /\ DumpOK(c) /\ c.old = {} /\ c.time \in Nat
      /\ \A d \in Dumping \ {c} : d.time # c.time
  BY <1>3, TimeIsOwn DEF ChildOK, EngineInv, StatusOK
<1>5. m \in Nat /\ \A s \in slice_history : s.id \in Nat /\ s.id <= m
  <2>1. PICK n \in Nat : \A s \in slice_history : s.id <= n
    BY DEF SlicesInv, HistoryOK
  <2>2. ids \in SUBSET Nat /\ ids # {} /\ \A x \in ids : x <= n
    BY <2>1 DEF SlicesInv, HistoryOK
  <2>3. m \in ids /\ \A x \in ids : x <= m
    <3> HIDE DEF ids
    <3> QED
      BY <2>2, MaxIs
  <2>4. \A s \in slice_history : s.id \in ids
    OBVIOUS
  <2> HIDE DEF m
  <2>5. \A s \in slice_history : s.id \in Nat /\ s.id <= m
    BY <2>2, <2>3, <2>4
  <2> QED
    BY <2>2, <2>3, <2>5
<1>6. new.id = m + 1 /\ new.time = c.time /\ new.end_oper_id = c.oper /\ new.end_order_id = c.image.order_id_start
  BY <1>2
<1> HIDE DEF m
<1>7. LastSlice' = {new}
  <2>1. \A s \in slice_history : s.id < new.id /\ s # new
    BY <1>5, <1>6
  <2>2. new \in LastSlice'
    <3>1. \A t \in slice_history \cup {new} : t.id <= new.id
      BY <1>5, <1>6
    <3> QED
      BY <1>2, <3>1 DEF LastSlice
  <2>3. ASSUME NEW s \in LastSlice' PROVE s = new
    <3>1. s \in slice_history \cup {new} /\ new.id <= s.id
      BY <1>2 DEF LastSlice
    <3>2. s \in slice_history => ~(new.id <= s.id)
      BY <1>5, <1>6
    <3> QED
      BY <3>1, <3>2
  <2> QED
    BY <2>2, <2>3
<1>8. PICK d : d = [c EXCEPT !.phase = "dumped"]
  OBVIOUS
<1>9. d = ChildRecord(c.time, c.image, c.oper, "dumped", c.old)
  BY <1>4, <1>8, PhaseIs
<1>10. d.time = c.time /\ d.phase = "dumped" /\ d.old = c.old
  BY <1>9, ChildFields
<1>11. EngineInv' /\ \A oper, time : BaseOK(oper, time) => BaseOK(oper, time)'
  <2>1. UNCHANGED <<status, mem, operlog_id_start, list, requests, executing, operlog, now, made>>
    BY <1>1 DEF engine, buffers
  <2> QED
    BY <2>1, EngineSame
<1>12. ChildOK(d)' /\ d \notin Dumping'
  <2>1. d.image = c.image /\ d.oper = c.oper
    BY <1>9, ChildFields
  <2> QED
    BY <1>1, <1>4, <1>9, <1>10, <2>1 DEF ChildOK, Dumping
<1>13. \A e \in Dumping \ {c} : Kept(e.time) /\ \A s \in slice_history' : s.time # e.time
  <2>1. \A e \in Dumping : \A s \in slice_history : s.time # e.time
    BY DEF SlicesInv, ChildrenOK, DumpOK
  <2> QED
    BY <1>1, <1>2, <1>4, <1>6, <2>1 DEF Kept
<1>14. ChildrenOK'
  <2>1. ASSUME NEW s, OldOK(s) PROVE s.id < new.id /\ s.time # new.time
    <3>1. PICK l \in LastSlice : s.id < l.id
      BY <2>1 DEF OldOK
    <3>2. l.id \in Nat /\ l.id <= m /\ s.id \in Nat
      BY <1>5, <2>1 DEF LastSlice, OldOK
    <3> QED
      BY <1>3, <1>5, <1>6, <2>1, <3>1, <3>2 DEF OldOK
  <2>2. PICK D : D = {d}
    OBVIOUS
  <2>3. children' = (children \ {c}) \cup D /\ \A e, g \in D : e = g
    BY <1>1, <1>8, <2>2
  <2>4. \A e \in D : \A s \in e.old : OldOK(s)
    BY <1>4, <1>10, <2>2
  <2>5. \A e \in D : ChildOK(e)' /\ e.time = c.time /\ (e \in Dumping' => c \in Dumping /\ DumpOK(e)')
    BY <1>10, <1>12, <2>2
  <2>6. UNCHANGED <<engine, operlog, now, ghosts>> /\ (LastSlice # {} => LastSlice' # {})
    BY <1>1, <1>7
  <2>7. \A s : OldOK(s) => \A l \in LastSlice' : s.id < l.id /\ s.time # l.time
    BY <1>7, <2>1
  <2> QED
    BY <1>13, <2>3, <2>4, <2>5, <2>6, <2>7, ChildMoves
<1>15. LastOK'
  <2>1. BaseOK(c.oper, c.time)'
    BY <1>4, <1>11 DEF DumpOK
  <2>2. SliceIs(new, made[new.end_oper_id])'
    <3>1. c.image = made[c.oper] /\ made' = made
      BY <1>1, <1>4 DEF DumpOK
    <3>2. /\ c.time \in DOMAIN slice_order' /\ slice_order'[c.time] = c.image.orders
          /\ c.time \in DOMAIN slice_balance'
          /\ slice_balance'[c.time] = [avail |-> c.image.avail, frozen |-> c.image.frozen]
      BY <1>1, <1>4 DEF DumpOK
    <3> QED
      BY <1>6, <3>1, <3>2 DEF SliceIs
  <2>3. slice_history' # {}
    BY <1>2
  <2> QED
    BY <1>6, <1>7, <2>1, <2>2, <2>3 DEF LastOK
<1>16. HistoryOK'
  <2>1. \A s \in slice_history' : s.id \in Nat /\ s.time \in Nat /\ s.id <= m + 1
    BY <1>2, <1>4, <1>5, <1>6 DEF SlicesInv, HistoryOK
  <2>2. \A s, t \in slice_history' : s.id = t.id => s = t
    <3>1. \A s \in slice_history : s.id # new.id
      BY <1>5, <1>6
    <3> QED
      BY <1>2, <3>1 DEF SlicesInv, HistoryOK
  <2> QED
    BY <1>5, <2>1, <2>2 DEF HistoryOK
<1> QED
  BY <1>11, <1>14, <1>15, <1>16 DEF SlicesInv

\* What changes no table of a slice that counts and leaves the last one the last
LEMMA ChildIdle ==
    ASSUME EngineInv, SlicesInv, NEW c \in children, NEW D, children' = (children \ {c}) \cup D,
           UNCHANGED <<engine, operlog, now, ghosts>>,
           \A d \in D : ChildOK(d)' /\ d.time = c.time /\ d \notin Dumping' /\ \A s \in d.old : OldOK(s),
           \A d, e \in D : d = e,
           slice_history' \subseteq slice_history, slice_history' = {} => slice_history = {},
           LastSlice' = LastSlice,
           \A d \in Dumping : Kept(d.time), \A s \in LastSlice : Kept(s.time)
    PROVE  EngineInv' /\ SlicesInv'
<1>1. made' = made /\ now' = now
  BY DEF ghosts
<1>2. /\ \A s : OldOK(s) => \A l \in LastSlice' : s.id < l.id /\ s.time # l.time
      /\ \A d \in Dumping \ {c} : Kept(d.time) /\ \A s \in slice_history' : s.time # d.time
  <2>1. \A d \in Dumping : \A s \in slice_history : s.time # d.time
    BY DEF SlicesInv, ChildrenOK, DumpOK
  <2> QED
    BY <2>1 DEF OldOK
<1>3. EngineInv' /\ ChildrenOK' /\ \A oper, time : BaseOK(oper, time) => BaseOK(oper, time)'
  BY <1>2, ChildMoves
<1>4. LastOK'
  BY <1>1, <1>3, LastStays
<1>5. HistoryOK'
  BY DEF SlicesInv, HistoryOK
<1> QED
  BY <1>3, <1>4, <1>5 DEF SlicesInv

\* dump_to_db fails, or the child is killed.
LEMMA DumpFailsKeeps ==
    ASSUME EngineInv, SlicesInv, NEW c \in children, DumpFails(c) \/ ChildEnds(c)
    PROVE  EngineInv' /\ SlicesInv'
<1>1. UNCHANGED <<engine, operlog, slice_order, slice_balance, slice_history, now, ghosts>>
  BY DEF DumpFails, ChildEnds, slices
<1>2. LastSlice' = LastSlice /\ \A t : Kept(t)
  BY <1>1 DEF LastSlice, Kept
<1>3. CASE ChildEnds(c)
  <2>1. PICK D : D = {}
    OBVIOUS
  <2>2. children' = (children \ {c}) \cup D
    BY <1>3, <2>1 DEF ChildEnds
  <2> QED
    BY <1>1, <1>2, <2>1, <2>2, ChildIdle
<1>4. CASE DumpFails(c)
  <2>1. ChildOK(c)
    BY DEF SlicesInv, ChildrenOK
  <2>2. PICK d : d = [c EXCEPT !.phase = "dumped"]
    OBVIOUS
  <2>3. d = ChildRecord(c.time, c.image, c.oper, "dumped", c.old)
    BY <2>1, <2>2, PhaseIs
  <2>4. d.time = c.time /\ d.phase = "dumped" /\ d.old = c.old /\ d.image = c.image /\ d.oper = c.oper
    BY <2>3, ChildFields
  <2>5. children' = (children \ {c}) \cup {d} /\ c.phase # "clear"
    BY <1>4, <2>2 DEF DumpFails, Phase
  <2>6. c.old = {} /\ ChildOK(d)' /\ d \notin Dumping'
    BY <1>1, <2>1, <2>3, <2>4, <2>5 DEF ChildOK, Dumping
  <2>7. PICK D : D = {d}
    OBVIOUS
  <2>8. \A e \in D : ChildOK(e)' /\ e.time = c.time /\ e \notin Dumping' /\ \A s \in e.old : OldOK(s)
    BY <2>4, <2>6, <2>7
  <2>9. children' = (children \ {c}) \cup D /\ \A e, g \in D : e = g
    BY <2>5, <2>7
  <2> QED
    BY <1>1, <1>2, <2>8, <2>9, ChildIdle
<1> QED
  BY <1>3, <1>4

\* clear_slice: what it will delete is older than a day, and the last slice is not.
LEMMA ClearSliceKeeps ==
    ASSUME EngineInv, SlicesInv, Careful, NEW c \in children, ClearSlice(c)
    PROVE  EngineInv' /\ SlicesInv'
<1>1. /\ c.phase = "dumped"
      /\ UNCHANGED <<engine, operlog, slice_order, slice_balance, slice_history, now, ghosts>>
  BY DEF ClearSlice, slices
<1>2. LastSlice' = LastSlice /\ \A t : Kept(t)
  BY <1>1 DEF LastSlice, Kept
<1>3. CASE children' = children \ {c}
  <2>1. PICK D : D = {}
    OBVIOUS
  <2>2. children' = (children \ {c}) \cup D
    BY <1>3, <2>1
  <2>3. \A e \in D : ChildOK(e)' /\ e.time = c.time /\ e \notin Dumping' /\ \A s \in e.old : OldOK(s)
    BY <2>1
  <2>4. \A e, g \in D : e = g
    BY <2>1
  <2> QED
    BY <1>1, <1>2, <2>2, <2>3, <2>4, ChildIdle
<1> DEFINE old == {s \in slice_history : s.time < c.time - SliceKeeptime}
<1>4. CASE children' = (children \ {c}) \cup {[c EXCEPT !.phase = "clear", !.old = old]}
  <2>1. ChildOK(c)
    BY DEF SlicesInv, ChildrenOK
  <2>2. PICK d, f, o : /\ d = [c EXCEPT !.phase = "clear", !.old = old]
                       /\ f = [c EXCEPT !.phase = "clear"] /\ o = old
    OBVIOUS
  <2>3. f = ChildRecord(c.time, c.image, c.oper, "clear", c.old)
    BY <2>1, <2>2, PhaseIs
  <2>4. d = ChildRecord(c.time, c.image, c.oper, "clear", o)
    <3>1. [f EXCEPT !.old = o] = ChildRecord(c.time, c.image, c.oper, "clear", o)
      BY <2>3 DEF ChildRecord
    <3>2. d = [f EXCEPT !.old = o]
      BY Zenon, <2>2
    <3> QED
      BY <3>1, <3>2
  <2>5. d.time = c.time /\ d.phase = "clear" /\ d.old = o /\ d.image = c.image /\ d.oper = c.oper
    BY <2>4, ChildFields
  <2>6. ChildOK(d)' /\ d \notin Dumping'
    BY <1>1, <2>1, <2>4, <2>5 DEF ChildOK, Dumping
  <2>7. ASSUME NEW s \in o PROVE OldOK(s)
    <3>1. s \in slice_history /\ s.time < c.time - SliceKeeptime
      BY <2>2
    <3>2. /\ s.id \in Nat /\ s.time \in Nat /\ c.time \in Nat /\ now \in Nat /\ c.time <= now
          /\ SliceKeeptime \in Nat /\ DayLength \in Nat /\ DayLength <= SliceKeeptime
      BY <2>1, <3>1, SettingsAssumption
        DEF Careful, SlicesInv, HistoryOK, ChildOK, EngineInv, StatusOK
    <3>3. s.time < now /\ s.time + DayLength < now
      BY <3>1, <3>2
    <3>4. \A d1 \in Dumping : s.time # d1.time
      BY <3>1 DEF SlicesInv, ChildrenOK, DumpOK
    <3>5. LastSlice # {}
      BY <3>1, LastIs DEF SlicesInv
    <3>6. ASSUME NEW l \in LastSlice PROVE s.id < l.id /\ s.time # l.time
      <4>1. now <= l.time + DayLength /\ l.time \in Nat /\ l.id \in Nat /\ s.id <= l.id /\ l \in slice_history
        BY <3>1 DEF SlicesInv, LastOK, BaseOK, BaseTimes, HistoryOK, LastSlice
      <4>2. s.time # l.time
        BY <3>2, <3>3, <4>1
      <4>3. s.id # l.id
        BY <3>1, <4>1, <4>2 DEF SlicesInv, HistoryOK
      <4> QED
        BY <3>2, <4>1, <4>2, <4>3
    <3> QED
      BY <3>2, <3>3, <3>4, <3>5, <3>6 DEF OldOK
  <2>8. PICK D : D = {d}
    OBVIOUS
  <2>9. children' = (children \ {c}) \cup D /\ \A e, g \in D : e = g
    BY <1>4, <2>2, <2>8
  <2>10. \A e \in D : ChildOK(e)' /\ e.time = c.time /\ e \notin Dumping' /\ \A s \in e.old : OldOK(s)
    BY <2>5, <2>6, <2>7, <2>8
  <2> HIDE DEF old
  <2> QED
    BY <1>1, <1>2, <2>9, <2>10, ChildIdle
<1> QED
  BY <1>3, <1>4 DEF ClearSlice

\* delete_slice, as far as it gets
LEMMA DeleteSliceKeeps ==
    ASSUME EngineInv, SlicesInv, NEW c \in children, NEW s \in c.old, NEW n \in 0..3, DeleteSlice(c, s, n)
    PROVE  EngineInv' /\ SlicesInv'
<1>1. /\ c.phase = "clear"
      /\ UNCHANGED <<engine, operlog, now, ghosts>>
      /\ slice_history' = slice_history \/ slice_history' = slice_history \ {s}
  BY DEF DeleteSlice
<1>2. ChildOK(c) /\ OldOK(s) /\ \A t \in c.old : OldOK(t)
  BY DEF SlicesInv, ChildrenOK
<1>3. PICK l \in LastSlice : s.id < l.id
  BY <1>2 DEF OldOK
<1>4. l \in slice_history /\ l # s /\ l.id \in Nat /\ s.id \in Nat
  BY <1>2, <1>3 DEF LastSlice, SlicesInv, HistoryOK, OldOK
<1>5. LastSlice' = LastSlice
  <2>1. \A t \in LastSlice : t # s
    BY <1>2, <1>4 DEF OldOK
  <2>2. ASSUME NEW t \in slice_history, l.id <= t.id PROVE s.id <= t.id
    <3>1. t.id \in Nat
      BY DEF SlicesInv, HistoryOK
    <3> QED
      BY <1>3, <1>4, <2>2, <3>1
  <2>3. l \in slice_history'
    BY <1>1, <1>4
  <2>4. slice_history' \subseteq slice_history /\ \A t \in slice_history : t \in slice_history' \/ t = s
    BY <1>1
  <2>5. ASSUME NEW t \in LastSlice' PROVE t \in LastSlice
    <3>1. t \in slice_history /\ \A u \in slice_history' : u.id <= t.id
      BY <2>4 DEF LastSlice
    <3>2. s.id <= t.id
      BY <2>2, <2>3, <3>1
    <3> QED
      BY <2>4, <3>1, <3>2 DEF LastSlice
  <2>6. ASSUME NEW t \in LastSlice PROVE t \in LastSlice'
    BY <2>1, <2>4 DEF LastSlice
  <2> QED
    BY <2>5, <2>6
<1>6. \A t : t # s.time => Kept(t)
  BY DEF DeleteSlice, Kept, Without
<1>7. (\A d \in Dumping : Kept(d.time)) /\ \A t \in LastSlice : Kept(t.time)
  BY <1>2, <1>6 DEF OldOK
<1>8. slice_history' \subseteq slice_history /\ slice_history' # {}
  BY <1>1, <1>4
<1>9. CASE children' = children \ {c}
  <2>1. PICK D : D = {}
    OBVIOUS
  <2>2. children' = (children \ {c}) \cup D
    BY <1>9, <2>1
  <2> QED
    BY <1>1, <1>5, <1>7, <1>8, <2>1, <2>2, ChildIdle
<1>10. CASE children' = (children \ {c}) \cup {[c EXCEPT !.old = c.old \ {s}]}
  <2>1. PICK d, o : d = [c EXCEPT !.old = o] /\ o = c.old \ {s}
    OBVIOUS
  <2>2. d = ChildRecord(c.time, c.image, c.oper, c.phase, o)
    BY <1>2, <2>1 DEF ChildOK, ChildRecord
  <2>3. d.time = c.time /\ d.phase = c.phase /\ d.old = o /\ d.image = c.image /\ d.oper = c.oper
    BY <2>2, ChildFields
  <2>4. ChildOK(d)' /\ d \notin Dumping' /\ \A t \in d.old : OldOK(t)
    BY <1>1, <1>2, <2>1, <2>2, <2>3 DEF ChildOK, Dumping
  <2>5. PICK D : D = {d}
    OBVIOUS
  <2>6. children' = (children \ {c}) \cup D /\ \A e, g \in D : e = g
    BY <1>10, <2>1, <2>5
  <2>7. \A e \in D : ChildOK(e)' /\ e.time = c.time /\ e \notin Dumping' /\ \A t \in e.old : OldOK(t)
    BY <2>3, <2>4, <2>5
  <2> QED
    BY <1>1, <1>5, <1>7, <1>8, <2>6, <2>7, ChildIdle
<1> QED
  BY <1>9, <1>10 DEF DeleteSlice

-----------------------------------------------------------------------------
(* A start of the engine *)

\* A base may be replayed.
LEMMA BaseReplays ==
    ASSUME EngineInv, NEW oper, NEW time, BaseOK(oper, time)
    PROVE  Replayable(oper)
<1>1. TablesOK
  BY DEF EngineInv, PlacedOK, TablesOK, Placed
<1>2. KeysDiffer(oper, operlog)
  BY DEF BaseOK, KeysDiffer, Entries, Placed
<1>3. now \in Nat /\ MaxOps \in Nat
  BY BoundsAssumption DEF EngineInv, StatusOK
<1> QED
  BY <1>1, <1>2, <1>3 DEF BaseOK, BaseTimes, Replayable

\* init_from_db ends with what the operations of the log made.
LEMMA LoadedIs ==
    ASSUME EngineInv, SlicesInv
    PROVE  \E oper, time :
             /\ BaseOK(oper, time) /\ Replayable(oper)
             /\ \A s \in LastSlice : s.end_oper_id = oper /\ s.time = time
             /\ slice_history = {} => oper = 0 /\ time = 1
             /\ Loaded = [end |-> EndOf(oper, Day(now)), mems |-> {At(oper, EndOf(oper, Day(now)))}]
<1>1. now \in Nat
  BY DEF EngineInv, StatusOK
<1>2. CASE slice_history = {}
  <2>1. BaseOK(0, 1) /\ Replayable(0) /\ Day(now) = Day(1)
    BY <1>2, BaseReplays DEF SlicesInv, LastOK
  <2>2. Day(now) \in Nat
    BY <1>1, DayGrows
  <2>3. EndOf(0, Day(now) - 1) = 0
    <3>1. ASSUME NEW r \in operlog, r.id > 0 PROVE ~(r.day <= Day(now) - 1)
      <4>1. r.day \in Nat /\ r.day >= Day(1)
        BY <2>1, <3>1 DEF BaseOK, BaseDays, Placed, EngineInv, PlacedOK, RowOK
      <4> QED
        BY <2>1, <2>2, <4>1
    <3> QED
      BY <2>1, <3>1, EndIs
  <2>4. EmptyMem = At(0, 0)
    <3>1. KeysTo(0, 0) = {}
      <4>1. \A r \in operlog : r.id \in Nat
        BY DEF EngineInv, PlacedOK, Placed, RowOK, EntryOK
      <4>2. \A r \in operlog : ~(r.id > 0 /\ r.id <= 0)
        BY <4>1
      <4> QED
        BY <4>2 DEF KeysTo
    <3>2. AllNow({}) = Empty
      BY DEF AllNow, Empty
    <3>3. made[0] = Image(EmptyMem)
      BY DEF EngineInv, MadeOK
    <3>4. AsMem(Image(EmptyMem), Empty) = EmptyMem
      BY DEF AsMem, Mem, Image, EmptyMem
    <3> QED
      BY <3>1, <3>2, <3>3, <3>4 DEF At
  <2>5. Loaded = LoadOperlog({At(0, 0)}, 0, Day(now))
    BY <1>2, <2>4 DEF Loaded
  <2>6. Loaded = [end |-> EndOf(0, Day(now)), mems |-> {At(0, EndOf(0, Day(now)))}]
    BY <2>1, <2>2, <2>3, <2>5, LoadTable
  <2>7. LastSlice = {}
    BY <1>2 DEF LastSlice
  <2> QED
    BY <2>1, <2>6, <2>7
<1>3. CASE slice_history # {}
  <2> DEFINE s == CHOOSE t \in LastSlice : TRUE
  <2>1. s \in LastSlice
    BY <1>3, LastIs DEF SlicesInv
  <2>2. Loaded = LoadDays(LoadSlice(s), s.end_oper_id, s.time)
    BY <1>3 DEF Loaded
  <2> HIDE DEF s
  <2>3. PICK oper, time : oper = s.end_oper_id /\ time = s.time
    OBVIOUS
  <2>4. SliceIs(s, made[oper]) /\ BaseOK(oper, time) /\ Replayable(oper)
    BY <2>1, <2>3, BaseReplays DEF SlicesInv, LastOK
  <2>5. ImageOK(made[oper]) /\ time \in Nat /\ time <= now
    BY <1>1, <2>4 DEF BaseOK, BaseTimes
  <2>6. LoadSlice(s) = {AsMem(made[oper], Empty)}
    BY <2>4, <2>5, LoadSliceIs
  <2>7. AsMem(made[oper], Empty) = At(oper, oper)
    <3>1. KeysTo(oper, oper) = {}
      <4>1. oper \in Nat /\ \A r \in operlog : r.id \in Nat
        BY <2>4 DEF Replayable, TablesOK, RowOK, EntryOK
      <4>2. \A r \in operlog : ~(r.id > oper /\ r.id <= oper)
        BY <4>1
      <4> QED
        BY <4>2 DEF KeysTo
    <3>2. AllNow({}) = Empty
      BY DEF AllNow, Empty
    <3> QED
      BY <3>1, <3>2 DEF At
  <2>8. \A r \in operlog : r.id > oper => r.day >= Day(time)
    BY <2>4 DEF BaseOK, BaseDays, Placed
  <2>9. Loaded = [end |-> EndOf(oper, Day(now)), mems |-> {At(oper, EndOf(oper, Day(now)))}]
    BY <2>2, <2>3, <2>4, <2>5, <2>6, <2>7, <2>8, LoadDaysIs
  <2>10. \A t \in LastSlice : t = s
    <3>1. ASSUME NEW t \in LastSlice PROVE t = s
      <4>1. t.id <= s.id /\ s.id <= t.id /\ t \in slice_history /\ s \in slice_history
        BY <2>1 DEF LastSlice
      <4>2. t.id \in Nat /\ s.id \in Nat
        BY <4>1 DEF SlicesInv, HistoryOK
      <4>3. t.id = s.id
        BY <4>1, <4>2
      <4> QED
        BY <4>1, <4>3 DEF SlicesInv, HistoryOK
    <3> QED
      BY <3>1
  <2> QED
    BY <1>3, <2>3, <2>4, <2>9, <2>10
<1> QED
  BY <1>2, <1>3

\* A start succeeds, and restores every operation of the log.
LEMMA RestartKeeps ==
    ASSUME EngineInv, SlicesInv, Careful, Restart
    PROVE  /\ EngineInv' /\ SlicesInv'
           /\ status' = "UP" /\ \A r \in operlog : r.id <= operlog_id_start'
<1>1. PICK oper, time :
        /\ BaseOK(oper, time) /\ Replayable(oper)
        /\ \A s \in LastSlice : s.end_oper_id = oper /\ s.time = time
        /\ slice_history = {} => oper = 0 /\ time = 1
        /\ Loaded = [end |-> EndOf(oper, Day(now)), mems |-> {At(oper, EndOf(oper, Day(now)))}]
  BY LoadedIs
<1>2. PICK n, m : n = EndOf(oper, Day(now)) /\ m = At(oper, n)
  OBVIOUS
<1>3. /\ n \in oper..MaxOps /\ n \in 0..MaxOps /\ ImageOK(made[n])
      /\ MemOK(m) /\ Image(m) = made[n]
      /\ \A r \in operlog : r.id <= n
      /\ \A i \in oper + 1 .. n : \E r \in operlog : r.id = i
      /\ \A r \in operlog : r.id > oper /\ IsUpdate(r) =>
            r.op.key \in DOMAIN m.seen /\ m.seen[r.op.key] = now
  BY <1>1, <1>2, AllRestored
<1>4. Loaded.end = n /\ Loaded.mems = {m}
  BY <1>1, <1>2
<1>5. /\ status' = "UP" /\ mem' = m /\ operlog_id_start' = n
      /\ made' = [i \in DOMAIN made |-> IF i <= n THEN made[i] ELSE NoImage]
      /\ children = {} /\ status = "DOWN"
      /\ UNCHANGED <<list, requests, executing, children, operlog, slice_order, slice_balance, slice_history, now>>
  <2>1. Loaded.mems # {} /\ "stale_slice" \notin Faults
    BY <1>4 DEF Careful
  <2>2. status' = "UP" /\ mem' \in Loaded.mems /\ operlog_id_start' = Loaded.end
        /\ made' = [i \in DOMAIN made |-> IF i <= Loaded.end THEN made[i] ELSE NoImage]
    BY <2>1 DEF Restart, RepeatFound, Careful
  <2> QED
    BY <1>4, <2>1, <2>2 DEF Restart, buffers, slices
<1>6. Running' /\ ~Running /\ MaxOps \in Nat /\ oper \in Nat /\ n \in Nat /\ now \in Nat
  BY <1>1, <1>3, <1>5, BoundsAssumption DEF Running, Replayable
<1>7. list = <<>> /\ requests = <<>> /\ executing = NoJob
  BY <1>5 DEF EngineInv, StatusOK
<1>8. /\ Placed = operlog /\ Entries = operlog /\ Placed' = operlog /\ Entries' = operlog /\ Listed' = {}
  <2>1. Queued = {} /\ Rows(executing) = {} /\ Listed = {}
    BY <1>7 DEF Queued, Rows, NoJob, Listed
  <2>2. Queued' = Queued /\ Rows(executing)' = Rows(executing) /\ Listed' = Listed
    BY <1>5 DEF Queued, Rows, Listed
  <2> QED
    BY <1>5, <2>1, <2>2 DEF Placed, Entries
<1>9. \A i \in 0..n : made'[i] = made[i]
  <2>1. DOMAIN made = 0..MaxOps
    BY DEF EngineInv, MadeOK
  <2>2. \A i \in 0..n : i \in 0..MaxOps /\ i <= n
    BY <1>3, <1>6
  <2> QED
    BY <1>5, <2>1, <2>2
<1>10. \A r \in operlog : RowOK(r) /\ RowOK(r)' /\ r.day <= Day(now) /\ r.id <= n
  <2> TAKE r \in operlog
  <2>1. RowOK(r) /\ r.day <= Day(now) /\ r.id <= n
    BY <1>3, <1>8 DEF EngineInv, PlacedOK
  <2>2. r.id \in 0..n /\ r.id - 1 \in 0..n
    BY <1>6, <2>1 DEF RowOK, EntryOK
  <2> QED
    BY <1>9, <2>1, <2>2 DEF RowOK, EntryOK
<1>11. StatusOK'
  BY <1>5, <1>6 DEF EngineInv, StatusOK, IsSequence
<1>12. MadeOK'
  <2>1. DOMAIN made = 0..MaxOps /\ made[0] = Image(EmptyMem)
    BY DEF EngineInv, MadeOK
  <2>2. made' = [i \in 0..MaxOps |-> made'[i]]
    BY <1>5, <2>1
  <2>3. made'[0] = made[0]
    BY <1>6, <1>9
  <2> QED
    BY <2>1, <2>2, <2>3 DEF MadeOK
<1>13. MemoryOK'
  BY <1>3, <1>5, <1>6, <1>9 DEF MemoryOK
<1>14. PlacedOK'
  BY <1>5, <1>8, <1>10 DEF EngineInv, PlacedOK, Day
<1>15. QueueOK'
  BY <1>5 DEF EngineInv, QueueOK
<1>16. ListOK'
  BY <1>5, <1>7, <1>8 DEF ListOK
<1>17. BaseOK(oper, time)'
  <2>1. BaseTimes(oper, time)'
    <3>1. oper \in 0..n
      BY <1>3, <1>6
    <3> QED
      BY <1>1, <1>5, <1>6, <1>9, <3>1 DEF BaseOK, BaseTimes
  <2>2. BaseDays(oper, time)' /\ Closed(oper)' /\ KeysDiffer(oper, Entries')
    BY <1>1, <1>5, <1>8 DEF BaseOK, BaseDays, Closed, Day
  <2>3. BaseHeld(oper)'
    BY <1>3, <1>5, <1>8 DEF BaseHeld
  <2>4. now >= time
    BY <1>1, <1>6 DEF BaseOK, BaseTimes
  <2>5. BaseSeen(oper, time)'
    BY <1>3, <1>5, <1>8, <2>4 DEF BaseSeen, IsUpdate
  <2> QED
    BY <2>1, <2>2, <2>3, <2>5 DEF BaseOK, KeysDiffer, IsUpdate
<1>18. ChildrenOK'
  BY <1>5 DEF ChildrenOK, Dumping
<1>19. HistoryOK'
  BY <1>5 DEF SlicesInv, HistoryOK
<1>20. LastOK'
  <2>1. LastSlice' = LastSlice
    BY <1>5 DEF LastSlice
  <2>2. ASSUME NEW s \in LastSlice PROVE SliceIs(s, made[s.end_oper_id])' /\ BaseOK(s.end_oper_id, s.time)'
    <3>1. SliceIs(s, made[s.end_oper_id]) /\ s.end_oper_id = oper /\ s.time = time
      BY <1>1 DEF SlicesInv, LastOK
    <3>2. made'[oper] = made[oper]
      BY <1>3, <1>6, <1>9
    <3>3. BaseOK(s.end_oper_id, s.time)'
      BY <1>17, <3>1
    <3> QED
      BY <1>5, <3>1, <3>2, <3>3 DEF SliceIs
  <2>3. slice_history = {} => BaseOK(0, 1)' /\ Day(now) = Day(1)
    BY <1>1, <1>17 DEF SlicesInv, LastOK
  <2> QED
    BY <1>5, <2>1, <2>2, <2>3 DEF LastOK, Day
<1> QED
  BY <1>3, <1>5, <1>11, <1>12, <1>13, <1>14, <1>15, <1>16, <1>18, <1>19, <1>20 DEF EngineInv, SlicesInv

-----------------------------------------------------------------------------
(* The invariant of every behaviour *)

IInv == EngineInv /\ SlicesInv

\* The first start: nothing is in memory, in the tables or on its way.
LEMMA InitHolds == Init => IInv
<1> SUFFICES ASSUME Init PROVE IInv
  OBVIOUS
<1>1. /\ status = "UP" /\ mem = EmptyMem /\ operlog_id_start = 0 /\ list = <<>> /\ requests = <<>>
      /\ executing = NoJob /\ children = {} /\ operlog = {} /\ slice_history = {} /\ now = 1
      /\ made = [i \in 0..MaxOps |-> IF i = 0 THEN Image(EmptyMem) ELSE NoImage]
      /\ MaxOps \in Nat /\ DayLength \in Nat
  BY BoundsAssumption, SettingsAssumption DEF Init
<1>2. /\ Running /\ Placed = {} /\ Listed = {} /\ Entries = {} /\ LastSlice = {} /\ Dumping = {}
      /\ Rows(executing) = {}
  BY <1>1 DEF Running, Placed, Listed, Entries, Queued, Rows, NoJob, LastSlice, Dumping
<1>3. made[0] = Image(EmptyMem) /\ 0 \in 0..MaxOps
  BY <1>1
<1>4. MemOK(EmptyMem)
  <2>1. /\ EmptyMem.avail = 0 /\ EmptyMem.frozen = 0 /\ EmptyMem.orders = Empty
        /\ EmptyMem.order_id_start = 0 /\ EmptyMem.seen = Empty
        /\ EmptyMem = Mem(0, 0, Empty, 0, Empty)
    BY DEF EmptyMem, Mem
  <2>2. Empty = [i \in DOMAIN Empty |-> Empty[i]] /\ DOMAIN Empty = {}
    BY DEF Empty
  <2>3. ImageOK([avail |-> 0, frozen |-> 0, orders |-> Empty, order_id_start |-> 0])
    BY <2>2 DEF ImageOK
  <2>4. Image(EmptyMem) = [avail |-> 0, frozen |-> 0, orders |-> Empty, order_id_start |-> 0]
    BY <2>1 DEF Image
  <2> QED
    BY <2>1, <2>2, <2>3, <2>4 DEF MemOK
<1>5. StatusOK
  <2>1. <<>> \in Seq({})
    OBVIOUS
  <2> QED
    BY <1>1, <1>2, <2>1 DEF StatusOK, IsSequence
<1>6. MadeOK /\ MemoryOK
  BY <1>1, <1>3, <1>4 DEF MadeOK, MemoryOK
<1>7. PlacedOK /\ QueueOK /\ ListOK
  BY <1>1, <1>2 DEF PlacedOK, QueueOK, ListOK
<1>8. BaseOK(0, 1)
  <2>1. BaseTimes(0, 1)
    BY <1>1, <1>3, <1>4 DEF BaseTimes, MemOK
  <2>2. BaseDays(0, 1) /\ Closed(0) /\ BaseHeld(0) /\ KeysDiffer(0, Entries) /\ BaseSeen(0, 1)
    BY <1>1, <1>2 DEF BaseDays, Closed, BaseHeld, KeysDiffer, BaseSeen
  <2> QED
    BY <2>1, <2>2 DEF BaseOK
<1>9. ChildrenOK /\ HistoryOK /\ LastOK
  BY <1>1, <1>2, <1>8 DEF ChildrenOK, HistoryOK, LastOK
<1> QED
  BY <1>5, <1>6, <1>7, <1>9 DEF IInv, EngineInv, SlicesInv

\* A step of the engine alone leaves the slices as they are.
LEMMA EngineStep ==
    ASSUME IInv, EngineInv', UNCHANGED <<children, slices, now>>,
           \A oper, time : BaseOK(oper, time) => BaseOK(oper, time)' /\ made'[oper] = made[oper]
    PROVE  IInv'
<1>1. now \in Nat /\ now' = now /\ now <= now'
  BY DEF IInv, EngineInv, StatusOK
<1>2. \A c \in Dumping : now' <= c.time + DayLength
  BY <1>1 DEF IInv, SlicesInv, ChildrenOK, DumpOK, BaseOK, BaseTimes
<1>3. \A s \in LastSlice : now' <= s.time + DayLength
  BY <1>1 DEF IInv, SlicesInv, LastOK, BaseOK, BaseTimes
<1>4. slice_history = {} => Day(now') = Day(1)
  BY <1>1 DEF IInv, SlicesInv, LastOK
<1>5. SlicesInv
  BY DEF IInv
<1>6. now' \in Nat /\ UNCHANGED <<children, slices>>
  BY <1>1
<1>7. SlicesInv'
  BY <1>1, <1>2, <1>3, <1>4, <1>5, <1>6, SlicesStay
<1> QED
  BY <1>7 DEF IInv

\* Every step keeps the invariant; the only step out of "DOWN" is a start, and it succeeds.
LEMMA NextKeeps ==
    ASSUME Careful, IInv, [Next]_vars
    PROVE  /\ IInv'
           /\ status = "DOWN" /\ status' # "DOWN" =>
                 status' = "UP" /\ \A r \in operlog : r.id <= operlog_id_start'
<1>1. EngineInv /\ SlicesInv
  BY DEF IInv
<1>2. CASE Request
  <2>1. /\ EngineInv' /\ \A i \in 0..operlog_id_start : made'[i] = made[i]
        /\ \A oper, time : BaseOK(oper, time) => BaseOK(oper, time)'
        /\ Running /\ UNCHANGED <<children, slices, now, status>>
    BY <1>1, <1>2, RequestKeeps
  <2>2. operlog_id_start \in Nat
    BY <1>1, <2>1 DEF EngineInv, MemoryOK
  <2>3. ASSUME NEW oper, NEW time, BaseOK(oper, time) PROVE made'[oper] = made[oper]
    <3>1. oper \in 0..operlog_id_start
      BY <2>1, <2>2, <2>3 DEF BaseOK, BaseTimes
    <3> QED
      BY <2>1, <3>1
  <2>4. UNCHANGED <<children, slices, now>>
    BY <2>1
  <2> QED
    BY <2>1, <2>3, <2>4, EngineStep
<1>3. CASE ExpireUpdates
  <2>1. UNCHANGED <<children, slices, now>> /\ made' = made /\ status' = status
    BY <1>3 DEF ExpireUpdates, ghosts
  <2> QED
    BY <1>1, <1>3, <2>1, ExpireKeeps, EngineStep
<1>4. CASE OnTimerFlush
  <2>1. /\ UNCHANGED <<children, slices, now>> /\ made' = made /\ status' = status
        /\ status = "UP" /\ status' \in {"UP", "STOPPING"} /\ FlushLog
        /\ UNCHANGED <<mem, operlog_id_start, executing, operlog, now, made>>
    BY <1>4 DEF OnTimerFlush, ghosts
  <2> QED
    BY <1>1, <2>1, FlushKeeps, EngineStep
<1>5. CASE Stop
  <2>1. /\ UNCHANGED <<children, slices, now>> /\ made' = made
        /\ status = "UP" /\ status' \in {"UP", "STOPPING"} /\ FlushLog
        /\ UNCHANGED <<mem, operlog_id_start, executing, operlog, now, made>>
    BY <1>5 DEF Stop, ghosts
  <2> QED
    BY <1>1, <2>1, FlushKeeps, EngineStep
<1>6. CASE TakeRequest
  <2>1. UNCHANGED <<children, slices, now>> /\ made' = made /\ status' = status
    BY <1>6 DEF TakeRequest, ghosts
  <2> QED
    BY <1>1, <1>6, <2>1, TakeKeeps, EngineStep
<1>7. ASSUME NEW answered \in BOOLEAN, ExecuteSql(answered) PROVE IInv' /\ status' = status
  <2>1. UNCHANGED <<children, slices, now>> /\ made' = made /\ status' = status
    BY <1>7 DEF ExecuteSql, ghosts
  <2> QED
    BY <1>1, <1>7, <2>1, ExecuteKeeps, EngineStep
<1>8. CASE NwJobRelease
  <2>1. /\ UNCHANGED <<children, slices, now>> /\ status = "STOPPING" /\ status' = "RELEASING"
        /\ UNCHANGED <<mem, operlog_id_start, list, requests, executing, operlog, made>>
    BY <1>8 DEF NwJobRelease, ghosts, buffers
  <2>2. Running' = Running /\ Placed' = Placed /\ Entries' = Entries /\ Listed' = Listed
    BY <2>1 DEF Running, Placed, Entries, Listed, Queued
  <2>3. \A e : EntryOK(e) => EntryOK(e)'
    BY <2>1 DEF EntryOK
  <2>4. StatusOK' /\ MadeOK' /\ MemoryOK' /\ QueueOK'
    BY <1>1, <2>1, <2>2 DEF EngineInv, StatusOK, MadeOK, MemoryOK, QueueOK, IsSequence
  <2>5. PlacedOK'
    BY <1>1, <2>1, <2>2, <2>3 DEF EngineInv, PlacedOK, RowOK, Day
  <2>6. ListOK'
    BY <1>1, <2>1, <2>2 DEF EngineInv, ListOK, EntryOK
  <2>7. \A oper, time : BaseOK(oper, time) => BaseOK(oper, time)'
    BY <2>1, <2>2 DEF BaseOK, BaseTimes, BaseDays, Closed, BaseHeld, KeysDiffer, BaseSeen, IsUpdate, Day
  <2> QED
    BY <2>1, <2>4, <2>5, <2>6, <2>7, EngineStep DEF EngineInv
<1>9. CASE Exit \/ Crash
  <2>1. Gone /\ status # "DOWN" /\ UNCHANGED <<children, slices, now>> /\ made' = made
    BY <1>9 DEF Exit, Crash, Gone, ghosts
  <2> QED
    BY <1>1, <2>1, GoneKeeps, EngineStep
<1>10. CASE Tick
  <2>1. /\ UNCHANGED <<children, slices>> /\ made' = made /\ status' = status
        /\ now \in Nat /\ now' = now + 1
        /\ "no_slice" \notin Faults
    BY <1>1, <1>10 DEF Tick, engine, ghosts, Careful, EngineInv, StatusOK
  <2>2. EngineInv' /\ \A oper, time : BaseOK(oper, time) /\ now' <= time + DayLength
                          => BaseOK(oper, time)' /\ made'[oper] = made[oper]
    BY <1>1, <1>10, <2>1, TickKeeps
  <2>3. ASSUME NEW c \in Dumping PROVE now' <= c.time + DayLength
    <3>1. c \in children /\ now' - c.time <= DayLength
      BY <1>10 DEF Tick, Dumping
    <3>2. c.time \in Nat /\ DayLength \in Nat
      BY <1>1, <2>1, <3>1, SettingsAssumption DEF SlicesInv, ChildrenOK, ChildOK
    <3> QED
      BY <2>1, <3>1, <3>2
  <2>4. ASSUME NEW s \in LastSlice PROVE now' <= s.time + DayLength
    <3>1. s \in slice_history
      BY DEF LastSlice
    <3>2. PICK t \in LastSlice : now' - t.time <= DayLength
      BY <1>10, <2>1, <3>1 DEF Tick
    <3>3. s.id \in Nat /\ t.id \in Nat /\ s.time \in Nat /\ t.id <= s.id /\ s.id <= t.id /\ t \in slice_history
      BY <1>1 DEF SlicesInv, HistoryOK, LastSlice
    <3>4. s = t
      <4>1. s.id = t.id
        BY <3>3
      <4> QED
        BY <1>1, <3>1, <3>3, <4>1 DEF SlicesInv, HistoryOK
    <3>5. DayLength \in Nat
      BY SettingsAssumption
    <3> QED
      BY <2>1, <3>2, <3>3, <3>4, <3>5
  <2>5. slice_history = {} => Day(now') = Day(1)
    <3>1. slice_history = {} => LastSlice = {}
      BY DEF LastSlice
    <3>2. slice_history = {} => Day(now') = Day(now)
      BY <1>10, <2>1, <3>1 DEF Tick
    <3> QED
      BY <1>1, <3>2 DEF SlicesInv, LastOK
  <2>6. now' \in Nat /\ now <= now'
    BY <2>1
  <2>7. SlicesInv'
    BY <1>1, <2>1, <2>2, <2>3, <2>4, <2>5, <2>6, SlicesStay
  <2> QED
    BY <2>1, <2>2, <2>7 DEF IInv
<1>11. CASE Restart
  BY <1>1, <1>11, RestartKeeps DEF IInv
<1>12. CASE Slice
  <2>1. CASE OnTimerSlice
    <3>1. status' = status
      BY <2>1 DEF OnTimerSlice
    <3>2. CASE MakeSlice
      <4>1. UNCHANGED <<status, mem, operlog_id_start, buffers, operlog, slices, now, ghosts>>
        BY <2>1 DEF OnTimerSlice
      <4> QED
        BY <1>1, <3>1, <3>2, <4>1, MakeSliceKeeps DEF IInv
    <3>3. CASE UNCHANGED children
      <4>1. /\ UNCHANGED <<children, slices, now>> /\ made' = made
            /\ UNCHANGED <<status, mem, operlog_id_start, list, requests, executing, operlog, now, made>>
        BY <2>1, <3>3 DEF OnTimerSlice, buffers, ghosts
      <4> QED
        BY <1>1, <3>1, <4>1, EngineSame, EngineStep
    <3> QED
      BY <2>1, <3>2, <3>3 DEF OnTimerSlice
  <2>2. CASE OnCmdMakeslice
    <3>1. MakeSlice /\ UNCHANGED <<status, mem, operlog_id_start, buffers, operlog, slices, now, ghosts>>
      BY <2>2 DEF OnCmdMakeslice
    <3>2. status' = status
      BY <3>1
    <3> QED
      BY <1>1, <3>1, <3>2, MakeSliceKeeps DEF IInv
  <2>3. ASSUME NEW c \in children, DumpOrders(c) PROVE IInv' /\ status' = status
    BY <1>1, <2>3, DumpOrdersKeeps DEF IInv, DumpOrders, engine
  <2>4. ASSUME NEW c \in children, DumpBalance(c) PROVE IInv' /\ status' = status
    BY <1>1, <2>4, DumpBalanceKeeps DEF IInv, DumpBalance, engine
  <2>5. ASSUME NEW c \in children, UpdateSliceHistory(c) PROVE IInv' /\ status' = status
    BY <1>1, <2>5, CommitKeeps DEF IInv, UpdateSliceHistory, engine
  <2>6. ASSUME NEW c \in children, DumpFails(c) \/ ChildEnds(c) PROVE IInv' /\ status' = status
    BY <1>1, <2>6, DumpFailsKeeps DEF IInv, DumpFails, ChildEnds, engine
  <2>7. ASSUME NEW c \in children, ClearSlice(c) PROVE IInv' /\ status' = status
    BY <1>1, <2>7, ClearSliceKeeps DEF IInv, ClearSlice, engine
  <2>8. ASSUME NEW c \in children, NEW s \in c.old, NEW n \in 0..3, DeleteSlice(c, s, n)
        PROVE  IInv' /\ status' = status
    BY <1>1, <2>8, DeleteSliceKeeps DEF IInv, DeleteSlice, engine
  <2> QED
    BY <1>12, <2>1, <2>2, <2>3, <2>4, <2>5, <2>6, <2>7, <2>8 DEF Slice, OnTimerSlice, OnCmdMakeslice
<1>13. CASE UNCHANGED vars
  <2>1. /\ UNCHANGED <<children, slices, now>> /\ made' = made
        /\ UNCHANGED <<status, mem, operlog_id_start, list, requests, executing, operlog, now, made>>
    BY <1>13 DEF vars, buffers, ghosts
  <2> QED
    BY <1>1, <2>1, EngineSame, EngineStep
<1> QED
  BY <1>2, <1>3, <1>4, <1>5, <1>6, <1>7, <1>8, <1>9, <1>10, <1>11, <1>12, <1>13 DEF Next

\* Every state of every behaviour
LEMMA Invariance == ASSUME Careful PROVE Spec => []IInv
<1>1. IInv /\ [Next]_vars => IInv'
  BY NextKeeps
<1> QED
  BY InitHolds, <1>1, PTL DEF Spec

\* What doc/README_origin.md says of matchengine, that it "redoes the operation log when
\* start": after any number of crashes and stops, at any point of the queue, the worker and
\* the slices, the memory is what the operations up to the last id had made (init_from_db).
THEOREM RestartRedoesTheLog == ASSUME Careful PROVE Spec => []RestartRedoesLog
<1>1. IInv => RestartRedoesLog
  BY DEF IInv, EngineInv, MemoryOK, Running, RestartRedoesLog
<1> QED
  BY Invariance, <1>1, PTL

\* The slice that get_last_slice finds is whole, and it is the memory of the instant of its
\* end_oper_id, whichever children dump, commit, clear and are killed at the same time.
THEOREM SlicesAreIntact == ASSUME Careful PROVE Spec => []SliceIntact
<1>1. IInv => SliceIntact
  BY DEF IInv, SlicesInv, LastOK, SliceIs, SliceIntact
<1> QED
  BY Invariance, <1>1, PTL

\* A start never fails, and it restores every operation that is in a table: what a crash
\* loses are operations whose INSERT had not been executed.
THEOREM NothingDurableIsForgotten == ASSUME Careful PROVE Spec => DurableKept
<1>1. IInv /\ [Next]_vars => [status = "DOWN" /\ status' # "DOWN" =>
          status' = "UP" /\ \A r \in operlog : r.id <= operlog_id_start']_vars
  BY NextKeeps
<1> QED
  BY Invariance, <1>1, PTL DEF Spec, DurableKept

-----------------------------------------------------------------------------
(* Updates that are repeated *)

\* An accepted key is that of its operation, and is in the dictionary for a day.
AcceptedOK ==
    \A k \in DOMAIN accepted :
        /\ accepted[k].id \in Nat /\ accepted[k].time \in Nat /\ accepted[k].time <= now
        /\ Running => /\ accepted[k].id <= operlog_id_start
                      /\ accepted[k].time >= now - DayLength =>
                            k \in DOMAIN mem.seen /\ mem.seen[k] >= accepted[k].time
        /\ \A e \in Entries : e.id = accepted[k].id => IsUpdate(e) /\ e.op.key = k

\* Steps that accept no update and forget no key that is younger than a day
LEMMA AcceptedMoves ==
    ASSUME EngineInv, AcceptedOK, Same(Entries', Entries), now' \in Nat, now <= now',
           accepted' = accepted,
           Running' => /\ Running /\ operlog_id_start <= operlog_id_start'
                       /\ operlog_id_start' \in Nat
                       /\ \A k \in DOMAIN mem.seen : mem.seen[k] >= now' - DayLength =>
                             k \in DOMAIN mem'.seen /\ mem'.seen[k] = mem.seen[k]
    PROVE  AcceptedOK'
<1>1. now \in Nat /\ DayLength \in Nat /\ (Running => operlog_id_start \in Nat)
  BY SettingsAssumption DEF EngineInv, StatusOK, MemoryOK
<1>2. ASSUME NEW k \in DOMAIN accepted
      PROVE  /\ accepted[k].id \in Nat /\ accepted[k].time \in Nat /\ accepted[k].time <= now'
             /\ Running' => /\ accepted[k].id <= operlog_id_start'
                            /\ accepted[k].time >= now' - DayLength =>
                                  k \in DOMAIN mem'.seen /\ mem'.seen[k] >= accepted[k].time
             /\ \A e \in Entries' : e.id = accepted[k].id => IsUpdate(e) /\ e.op.key = k
  <2> DEFINE a == accepted[k]
  <2>1. a.id \in Nat /\ a.time \in Nat /\ a.time <= now
    BY DEF AcceptedOK
  <2>2. ASSUME Running' PROVE a.id <= operlog_id_start'
    BY <1>1, <2>1, <2>2 DEF AcceptedOK
  <2>3. ASSUME Running', a.time >= now' - DayLength
        PROVE  k \in DOMAIN mem'.seen /\ mem'.seen[k] >= a.time
    <3>1. a.time >= now - DayLength
      BY <1>1, <2>1, <2>3
    <3>2. k \in DOMAIN mem.seen /\ mem.seen[k] >= a.time
      BY <2>3, <3>1 DEF AcceptedOK
    <3>3. mem.seen[k] \in Int
      BY <2>3, <3>2 DEF EngineInv, MemoryOK, MemOK
    <3>4. mem.seen[k] >= now' - DayLength
      BY <1>1, <2>1, <2>3, <3>2, <3>3
    <3> QED
      BY <2>3, <3>2, <3>4
  <2>4. \A e \in Entries' : e.id = a.id => IsUpdate(e) /\ e.op.key = k
    <3> TAKE e \in Entries'
    <3>1. PICK f \in Entries : f.id = e.id /\ f.op = e.op
      BY DEF Same
    <3> QED
      BY <3>1 DEF AcceptedOK, IsUpdate
  <2>5. a.time <= now'
    BY <1>1, <2>1
  <2> HIDE DEF a
  <2> QED
    BY <2>1, <2>2, <2>3, <2>4, <2>5 DEF a
<1> QED
  BY <1>2 DEF AcceptedOK, IsUpdate

\* The list gets the new operation.
LEMMA AppendedIs ==
    ASSUME EngineInv, Running, NEW op, AppendOperlog(op), UNCHANGED <<requests, executing, operlog>>
    PROVE  /\ \A e \in Entries' : e \in Entries \/ (e.id = operlog_id_start + 1 /\ e.op = op)
           /\ operlog_id_start \in Nat /\ operlog_id_start' = operlog_id_start + 1
<1>1. PICK new : new = [id |-> operlog_id_start + 1, op |-> op]
  OBVIOUS
<1>2. PICK S : list \in Seq(S)
  BY DEF EngineInv, StatusOK, IsSequence
<1>3. /\ Len(list) \in Nat /\ DOMAIN list' = 1..(Len(list) + 1) /\ DOMAIN list = 1..Len(list)
      /\ \A i \in 1..Len(list) : list'[i] = list[i]
      /\ list'[Len(list) + 1] = new
  <2>1. list \in Seq(S \cup {new}) /\ new \in S \cup {new} /\ list' = Append(list, new)
    BY <1>1, <1>2, SeqMonotonic DEF AppendOperlog
  <2> QED
    BY <2>1, AppendProperties, LenProperties
<1>4. \A e \in Listed' : e \in Listed \/ e = new
  <2>1. \A i \in 1..(Len(list) + 1) : i \in 1..Len(list) \/ i = Len(list) + 1
    BY <1>3
  <2> QED
    BY <1>3, <2>1 DEF Listed
<1>5. Placed' = Placed
  BY DEF Placed, Queued
<1>6. new.id = operlog_id_start + 1 /\ new.op = op
  BY <1>1
<1>7. operlog_id_start \in Nat /\ operlog_id_start' = operlog_id_start + 1
  BY DEF EngineInv, MemoryOK, AppendOperlog
<1> QED
  BY <1>4, <1>5, <1>6, <1>7 DEF Entries

\* A command of a client: an update that is accepted was in the dictionary no longer.
LEMMA RequestAccepts ==
    ASSUME Careful, IInv, AcceptedOK, Request
    PROVE  /\ AcceptedOK'
           /\ \A k \in DOMAIN accepted :
                 accepted[k].time >= now - DayLength /\ k \in DOMAIN accepted'
                    => accepted'[k] = accepted[k]
<1>1. EngineInv /\ now \in Nat
  BY DEF IInv, EngineInv, StatusOK
<1>2. ASSUME NEW op, NEW M, Handle(op, M),
             \A m \in M : MemOK(m) /\ Makes(Image(mem), op, Image(m)) /\ KeysAfter(mem, op, m)
      PROVE  /\ Running /\ now' = now /\ MemOK(mem)
             /\ \A e \in Entries : e.id \in 1..operlog_id_start
             /\ \A e \in Entries' : e \in Entries \/ (e.id = operlog_id_start + 1 /\ e.op = op)
             /\ operlog_id_start \in Nat /\ operlog_id_start' = operlog_id_start + 1
             /\ KeysAfter(mem, op, mem')
  <2>1. /\ Running /\ now' = now /\ AppendOperlog(op) /\ UNCHANGED <<requests, executing, operlog>>
        /\ mem' \in M
    BY <1>2 DEF Handle, Running
  <2>2. MemOK(mem)
    BY <1>1, <2>1 DEF EngineInv, MemoryOK
  <2> QED
    BY <1>1, <1>2, <2>1, <2>2, AppendedIs, EntriesGiven
<1>3. ASSUME NEW op, op.method # "update_balance", KeysAfter(mem, op, mem'), accepted' = accepted,
             Running, now' = now,
             \A e \in Entries : e.id \in 1..operlog_id_start,
             \A e \in Entries' : e \in Entries \/ (e.id = operlog_id_start + 1 /\ e.op = op),
             operlog_id_start \in Nat, operlog_id_start' = operlog_id_start + 1
      PROVE  AcceptedOK'
  <2>1. mem'.seen = mem.seen
    BY <1>3 DEF KeysAfter
  <2>2. ASSUME NEW k \in DOMAIN accepted
        PROVE  /\ accepted[k].id \in Nat /\ accepted[k].time \in Nat /\ accepted[k].time <= now'
               /\ accepted[k].id <= operlog_id_start'
               /\ accepted[k].time >= now' - DayLength =>
                     k \in DOMAIN mem'.seen /\ mem'.seen[k] >= accepted[k].time
               /\ \A e \in Entries' : e.id = accepted[k].id => IsUpdate(e) /\ e.op.key = k
    <3>1. accepted[k].id \in Nat /\ accepted[k].id <= operlog_id_start
      BY <1>3 DEF AcceptedOK
    <3>2. accepted[k].id # operlog_id_start + 1 /\ accepted[k].id <= operlog_id_start + 1
      BY <1>3, <3>1
    <3> QED
      BY <1>3, <2>1, <3>1, <3>2 DEF AcceptedOK
  <2> QED
    BY <1>3, <2>2 DEF AcceptedOK, IsUpdate
<1>4. ASSUME NEW key \in Keys, NEW change \in Changes, OnCmdBalanceUpdate(key, change)
      PROVE  /\ AcceptedOK'
             /\ \A k \in DOMAIN accepted :
                   accepted[k].time >= now - DayLength /\ k \in DOMAIN accepted'
                      => accepted'[k] = accepted[k]
  <2> DEFINE M == UpdateUserBalance(mem, key, Decimal(change, ShowGrain))
  <2>1. PICK op : op = [method |-> "update_balance", key |-> key, change |-> change]
    OBVIOUS
  <2>2. op.method = "update_balance" /\ op.key = key /\ op.change = change
    BY <2>1
  <2>3. Handle(op, M)
    BY <1>4, <2>1 DEF OnCmdBalanceUpdate
  <2>4. M = UpdateUserBalance(mem, key, change) /\ change \in Int
    BY InputsAssumption DEF Careful
  <2> HIDE DEF M
  <2>5. MemOK(mem)
    BY <1>1, <2>3 DEF Handle, EngineInv, MemoryOK, Running
  <2>6. \A m \in M : MemOK(m) /\ Makes(Image(mem), op, Image(m)) /\ KeysAfter(mem, op, m)
    BY <1>1, <2>2, <2>4, <2>5, UpdateIs
  <2>7. /\ Running /\ now' = now
        /\ \A e \in Entries : e.id \in 1..operlog_id_start
        /\ \A e \in Entries' : e \in Entries \/ (e.id = operlog_id_start + 1 /\ e.op = op)
        /\ operlog_id_start \in Nat /\ operlog_id_start' = operlog_id_start + 1
        /\ KeysAfter(mem, op, mem')
    BY <1>2, <2>3, <2>6
  <2>8. key \notin DOMAIN mem.seen /\ mem'.seen = KeyAdded(mem.seen, key)
    BY <2>2, <2>7 DEF KeysAfter, MissesKey, Careful
  <2>9. accepted' = [k \in DOMAIN accepted \cup {key} |->
                        IF k = key THEN [id |-> operlog_id_start + 1, time |-> now] ELSE accepted[k]]
    BY <1>4 DEF OnCmdBalanceUpdate
  <2>10. ASSUME NEW k \in DOMAIN accepted', k # key
         PROVE  /\ k \in DOMAIN accepted /\ accepted'[k] = accepted[k]
                /\ accepted[k].id \in Nat /\ accepted[k].time \in Nat /\ accepted[k].time <= now
                /\ accepted[k].id <= operlog_id_start /\ accepted[k].id # operlog_id_start + 1
                /\ accepted[k].id <= operlog_id_start + 1
                /\ accepted[k].time >= now - DayLength =>
                      k \in DOMAIN mem'.seen /\ mem'.seen[k] >= accepted[k].time
    <3>1. k \in DOMAIN accepted /\ accepted'[k] = accepted[k]
      BY <2>9, <2>10
    <3>2. /\ accepted[k].id \in Nat /\ accepted[k].time \in Nat /\ accepted[k].time <= now
          /\ accepted[k].id <= operlog_id_start
          /\ accepted[k].time >= now - DayLength =>
                k \in DOMAIN mem.seen /\ mem.seen[k] >= accepted[k].time
      BY <2>7, <3>1 DEF AcceptedOK
    <3>3. accepted[k].id # operlog_id_start + 1 /\ accepted[k].id <= operlog_id_start + 1
      BY <2>7, <3>2
    <3>4. k \in DOMAIN mem.seen => k \in DOMAIN mem'.seen /\ mem'.seen[k] = mem.seen[k]
      BY <2>8, <2>10 DEF KeyAdded
    <3> QED
      BY <3>1, <3>2, <3>3, <3>4
  <2>11. /\ accepted'[key].id = operlog_id_start + 1 /\ accepted'[key].time = now
         /\ key \in DOMAIN mem'.seen /\ mem'.seen[key] = now
    BY <2>8, <2>9 DEF KeyAdded
  <2>12. ASSUME NEW k \in DOMAIN accepted', NEW e \in Entries', e.id = accepted'[k].id
         PROVE  IsUpdate(e) /\ e.op.key = k
    <3>1. CASE k = key
      <4>1. e.id = operlog_id_start + 1 /\ ~(e.id \in 1..operlog_id_start)
        BY <2>7, <2>11, <2>12, <3>1
      <4>2. e.op = op
        BY <2>7, <4>1
      <4> QED
        BY <2>2, <3>1, <4>2 DEF IsUpdate
    <3>2. CASE k # key
      <4>1. e \in Entries /\ e.id = accepted[k].id /\ k \in DOMAIN accepted
        BY <2>7, <2>10, <2>12, <3>2
      <4> QED
        BY <4>1 DEF AcceptedOK
    <3> QED
      BY <3>1, <3>2
  <2>13. ASSUME NEW k \in DOMAIN accepted'
         PROVE  /\ accepted'[k].id \in Nat /\ accepted'[k].time \in Nat /\ accepted'[k].time <= now
                /\ accepted'[k].id <= operlog_id_start'
                /\ accepted'[k].time >= now - DayLength =>
                      k \in DOMAIN mem'.seen /\ mem'.seen[k] >= accepted'[k].time
    <3>1. CASE k = key
      BY <1>1, <2>7, <2>11, <3>1
    <3>2. CASE k # key
      BY <2>7, <2>10, <3>2
    <3> QED
      BY <3>1, <3>2
  <2>14. AcceptedOK'
    BY <2>7, <2>12, <2>13 DEF AcceptedOK, IsUpdate
  <2>15. ASSUME NEW k \in DOMAIN accepted, accepted[k].time >= now - DayLength, k \in DOMAIN accepted'
         PROVE  accepted'[k] = accepted[k]
    <3>1. k \in DOMAIN mem.seen
      BY <2>7, <2>15 DEF AcceptedOK
    <3> QED
      BY <2>8, <2>10, <2>15, <3>1
  <2> QED
    BY <2>14, <2>15
<1>5. ASSUME NEW amount \in Amounts, OnCmdOrderPutLimit(amount) PROVE AcceptedOK' /\ accepted' = accepted
  <2> DEFINE M == PutLimitOrder(mem, amount)
  <2>1. PICK op : op = [method |-> "limit_order", amount |-> amount]
    OBVIOUS
  <2>2. op.method = "limit_order" /\ op.amount = amount /\ amount \in Nat \ {0}
    BY <2>1, InputsAssumption
  <2>3. Handle(op, M) /\ accepted' = accepted
    BY <1>5, <2>1 DEF OnCmdOrderPutLimit
  <2>4. MemOK(mem)
    BY <1>1, <2>3 DEF Handle, EngineInv, MemoryOK, Running
  <2>5. \A m \in M : MemOK(m) /\ Makes(Image(mem), op, Image(m)) /\ KeysAfter(mem, op, m)
    BY <2>2, <2>4, PutIs
  <2> HIDE DEF M
  <2>6. op.method # "update_balance"
    BY <2>2
  <2> QED
    BY <1>2, <1>3, <2>3, <2>5, <2>6
<1>6. ASSUME NEW id \in 1..MaxOps, OnCmdOrderCancel(id) PROVE AcceptedOK' /\ accepted' = accepted
  <2> DEFINE M == CancelOrder(mem, id)
  <2>1. PICK op : op = [method |-> "cancel_order", order_id |-> id]
    OBVIOUS
  <2>2. op.method = "cancel_order" /\ op.order_id = id
    BY <2>1
  <2>3. Handle(op, M) /\ accepted' = accepted
    BY <1>6, <2>1 DEF OnCmdOrderCancel
  <2>4. MemOK(mem)
    BY <1>1, <2>3 DEF Handle, EngineInv, MemoryOK, Running
  <2>5. \A m \in M : MemOK(m) /\ Makes(Image(mem), op, Image(m)) /\ KeysAfter(mem, op, m)
    BY <2>2, <2>4, CancelIs
  <2> HIDE DEF M
  <2>6. op.method # "update_balance"
    BY <2>2
  <2> QED
    BY <1>2, <1>3, <2>3, <2>5, <2>6
<1> QED
  BY <1>4, <1>5, <1>6 DEF Request

\* A start: the keys of the operations behind the slice are young again, others are given up.
LEMMA RestartAccepts ==
    ASSUME Careful, IInv, AcceptedOK, Restart
    PROVE  /\ AcceptedOK'
           /\ \A k \in DOMAIN accepted : k \in DOMAIN accepted' => accepted'[k] = accepted[k]
<1>1. EngineInv /\ SlicesInv /\ now \in Nat
  BY DEF IInv, EngineInv, StatusOK
<1>2. PICK oper, time :
        /\ BaseOK(oper, time) /\ Replayable(oper)
        /\ \A s \in LastSlice : s.end_oper_id = oper /\ s.time = time
        /\ slice_history = {} => oper = 0 /\ time = 1
        /\ Loaded = [end |-> EndOf(oper, Day(now)), mems |-> {At(oper, EndOf(oper, Day(now)))}]
  BY <1>1, LoadedIs
<1>3. PICK n, m : n = EndOf(oper, Day(now)) /\ m = At(oper, n)
  OBVIOUS
<1>4. /\ n \in oper..MaxOps /\ n \in 0..MaxOps
      /\ \A i \in oper + 1 .. n : \E r \in operlog : r.id = i
      /\ \A r \in operlog : r.id > oper /\ IsUpdate(r) =>
            r.op.key \in DOMAIN m.seen /\ m.seen[r.op.key] = now
  BY <1>2, <1>3, AllRestored
<1>5. oper \in Nat /\ n \in Nat
  BY <1>2, <1>4, BoundsAssumption DEF Replayable
<1>6. LastEnd = oper
  <2> DEFINE S == {0} \cup {s.end_oper_id : s \in LastSlice}
  <2>1. S = {0, oper}
    <3>1. CASE LastSlice = {}
      <4>1. oper = 0
        BY <1>1, <1>2, <3>1, LastIs DEF SlicesInv
      <4> QED
        BY <3>1, <4>1
    <3>2. CASE LastSlice # {}
      BY <1>2, <3>2
    <3> QED
      BY <3>1, <3>2
  <2>2. S \in SUBSET Nat /\ S # {} /\ \A x \in S : x <= oper
    BY <1>5, <2>1
  <2>3. Max(S) \in S /\ oper <= Max(S)
    <3>1. oper \in S
      BY <2>1
    <3> HIDE DEF S
    <3> QED
      BY <1>5, <2>2, <3>1, MaxIs
  <2> DEFINE x == Max(S)
  <2>4. x = 0 \/ x = oper
    BY <2>1, <2>3
  <2>5. oper <= x
    BY <2>3
  <2> HIDE DEF x
  <2>6. x = oper
    BY <1>5, <2>4, <2>5
  <2> QED
    BY <2>6 DEF LastEnd, x
<1>7. Loaded.end = n /\ Loaded.mems = {m}
  BY <1>2, <1>3
<1>8. /\ mem' = m /\ operlog_id_start' = n /\ status = "DOWN"
      /\ accepted' = [k \in {j \in DOMAIN accepted : accepted[j].id \in oper + 1 .. n} |-> accepted[k]]
      /\ UNCHANGED <<list, requests, executing, operlog, now>>
  <2>1. Loaded.mems # {}
    BY <1>7
  <2>2. /\ mem' \in Loaded.mems /\ operlog_id_start' = Loaded.end
        /\ accepted' = [k \in {j \in DOMAIN accepted : accepted[j].id \in LastEnd + 1 .. Loaded.end} |->
                           accepted[k]]
    BY <2>1 DEF Restart, RepeatFound, Careful
  <2> QED
    BY <1>6, <1>7, <2>2 DEF Restart, buffers
<1>9. Entries' = Entries /\ operlog \subseteq Entries
  BY <1>8 DEF Entries, Placed, Queued, Listed, Rows
<1>10. ASSUME NEW k \in DOMAIN accepted'
       PROVE  /\ k \in DOMAIN accepted /\ accepted'[k] = accepted[k]
              /\ accepted[k].id \in Nat /\ accepted[k].time \in Nat /\ accepted[k].time <= now
              /\ accepted[k].id <= n /\ k \in DOMAIN m.seen /\ m.seen[k] >= accepted[k].time
  <2>1. k \in DOMAIN accepted /\ accepted'[k] = accepted[k] /\ accepted[k].id \in oper + 1 .. n
    BY <1>8
  <2>2. accepted[k].id \in Nat /\ accepted[k].time \in Nat /\ accepted[k].time <= now
    BY <2>1 DEF AcceptedOK
  <2>3. accepted[k].id <= n /\ accepted[k].id > oper
    BY <1>5, <2>1, <2>2
  <2>4. PICK r \in operlog : r.id = accepted[k].id
    BY <1>4, <2>1
  <2>5. IsUpdate(r) /\ r.op.key = k
    BY <1>9, <2>1, <2>4 DEF AcceptedOK
  <2>6. k \in DOMAIN m.seen /\ m.seen[k] = now
    BY <1>4, <2>3, <2>4, <2>5
  <2>7. m.seen[k] >= accepted[k].time
    BY <1>1, <2>2, <2>6
  <2> QED
    BY <2>1, <2>2, <2>3, <2>6, <2>7
<1>11. ASSUME NEW k \in DOMAIN accepted', NEW e \in Entries', e.id = accepted'[k].id
       PROVE  IsUpdate(e) /\ e.op.key = k
  BY <1>9, <1>10, <1>11 DEF AcceptedOK
<1>12. AcceptedOK'
  BY <1>8, <1>10, <1>11 DEF AcceptedOK, IsUpdate
<1> QED
  BY <1>10, <1>12

\* Every step keeps AcceptedOK, and no update that is remembered is accepted again.
LEMMA NextAccepts ==
    ASSUME Careful, IInv, AcceptedOK, [Next]_vars
    PROVE  /\ AcceptedOK'
           /\ \A k \in DOMAIN accepted :
                 accepted[k].time >= now - DayLength /\ k \in DOMAIN accepted'
                    => accepted'[k] = accepted[k]
<1>1. EngineInv /\ now \in Nat /\ (Running => operlog_id_start \in Nat) /\ DayLength \in Nat
  BY SettingsAssumption DEF IInv, EngineInv, StatusOK, MemoryOK
<1>2. CASE Request
  BY <1>2, RequestAccepts
<1>3. CASE Restart
  BY <1>3, RestartAccepts
<1>4. ASSUME UNCHANGED <<mem, operlog_id_start, now, accepted>>, Same(Entries', Entries), Running' => Running
      PROVE  AcceptedOK' /\ accepted' = accepted
  BY <1>1, <1>4, AcceptedMoves
<1>5. ASSUME UNCHANGED <<status, mem, operlog_id_start, list, requests, executing, operlog, now, accepted>>
      PROVE  AcceptedOK' /\ accepted' = accepted
  <2>1. Entries' = Entries /\ Running' = Running
    BY <1>5 DEF Entries, Placed, Listed, Queued, Running
  <2>2. Same(Entries', Entries)
    BY <2>1 DEF Same
  <2> QED
    BY <1>4, <1>5, <2>1, <2>2
<1>6. CASE ExpireUpdates
  <2> DEFINE kept == [k \in {j \in DOMAIN mem.seen : mem.seen[j] >= now - DayLength} |-> mem.seen[k]]
  <2>1. /\ Running /\ mem' = [mem EXCEPT !.seen = kept]
        /\ UNCHANGED <<operlog_id_start, list, requests, executing, operlog, now, accepted>>
    BY <1>6 DEF ExpireUpdates, Running, buffers, ghosts
  <2>2. mem'.seen = kept
    <3>1. mem = Mem(mem.avail, mem.frozen, mem.orders, mem.order_id_start, mem.seen)
      BY <1>1, <2>1 DEF EngineInv, MemoryOK, MemOK
    <3> HIDE DEF kept
    <3> QED
      BY <2>1, <3>1 DEF Mem
  <2>3. \A k \in DOMAIN mem.seen : mem.seen[k] >= now' - DayLength =>
            k \in DOMAIN mem'.seen /\ mem'.seen[k] = mem.seen[k]
    BY <2>1, <2>2
  <2>4. Same(Entries', Entries)
    BY <2>1 DEF Same, Entries, Placed, Listed, Queued
  <2>5. now' \in Nat /\ now <= now' /\ operlog_id_start' \in Nat /\ operlog_id_start <= operlog_id_start'
    BY <1>1, <2>1
  <2> HIDE DEF kept
  <2> QED
    BY <1>1, <2>1, <2>3, <2>4, <2>5, AcceptedMoves
<1>7. CASE OnTimerFlush \/ Stop
  <2>1. /\ status = "UP" /\ status' \in {"UP", "STOPPING"} /\ FlushLog /\ Running
        /\ UNCHANGED <<mem, operlog_id_start, executing, operlog, now, made>>
        /\ UNCHANGED <<mem, operlog_id_start, now, accepted>>
    BY <1>7 DEF OnTimerFlush, Stop, ghosts, Running
  <2>2. Same(Entries', Entries)
    BY <1>1, <2>1, FlushKeeps
  <2> QED
    BY <1>4, <2>1, <2>2
<1>8. CASE TakeRequest
  <2>1. UNCHANGED <<mem, operlog_id_start, now, accepted>> /\ Running
    BY <1>8 DEF TakeRequest, ghosts, Running
  <2> QED
    BY <1>1, <1>4, <1>8, <2>1, TakeKeeps
<1>9. ASSUME NEW answered \in BOOLEAN, ExecuteSql(answered) PROVE AcceptedOK' /\ accepted' = accepted
  <2>1. UNCHANGED <<mem, operlog_id_start, now, accepted>> /\ Running' = Running
    BY <1>9 DEF ExecuteSql, ghosts, Running
  <2> QED
    BY <1>1, <1>4, <1>9, <2>1, ExecuteKeeps
<1>10. CASE NwJobRelease
  <2>1. UNCHANGED <<mem, operlog_id_start, list, requests, executing, operlog, now, accepted>> /\ Running
    BY <1>10 DEF NwJobRelease, ghosts, buffers, Running
  <2>2. Same(Entries', Entries)
    BY <2>1 DEF Same, Entries, Placed, Listed, Queued
  <2> QED
    BY <1>4, <2>1, <2>2
<1>11. CASE Exit \/ Crash
  <2>1. Gone /\ ~Running' /\ UNCHANGED <<now, accepted>>
    BY <1>11 DEF Exit, Crash, Gone, ghosts, Running
  <2>2. Same(Entries', Entries)
    BY <1>1, <2>1, GoneKeeps
  <2> QED
    BY <1>1, <2>1, <2>2, AcceptedMoves
<1>12. CASE Tick
  <2>1. /\ UNCHANGED <<status, mem, operlog_id_start, list, requests, executing, operlog, accepted>>
        /\ now' = now + 1
    BY <1>12 DEF Tick, engine, buffers, ghosts
  <2>2. Same(Entries', Entries) /\ Running' = Running
    BY <2>1 DEF Same, Entries, Placed, Listed, Queued, Running
  <2>3. now' \in Nat /\ now <= now'
    BY <1>1, <2>1
  <2> QED
    BY <1>1, <2>1, <2>2, <2>3, AcceptedMoves
<1>13. CASE Slice
  <2>1. UNCHANGED <<status, mem, operlog_id_start, list, requests, executing, operlog, now, accepted>>
    BY <1>13 DEF Slice, OnTimerSlice, OnCmdMakeslice, DumpOrders, DumpBalance, UpdateSliceHistory,
                 DumpFails, ClearSlice, ChildEnds, DeleteSlice, engine, buffers, ghosts
  <2> QED
    BY <1>5, <2>1
<1>14. CASE UNCHANGED vars
  <2>1. UNCHANGED <<status, mem, operlog_id_start, list, requests, executing, operlog, now, accepted>>
    BY <1>14 DEF vars, buffers, ghosts
  <2> QED
    BY <1>5, <2>1
<1> QED
  BY <1>2, <1>3, <1>6, <1>7, <1>8, <1>9, <1>10, <1>11, <1>12, <1>13, <1>14 DEF Next

\* Two keys of the same update are the same to dict_find: the four bytes of struct update_key
\* that update_user_balance leaves unset are the same in both.
KeysComparedByValue == \A m, key : MissesKey(m, key) <=> key \notin DOMAIN m.seen

\* As long as no fault makes the unset bytes differ, keys are compared by value.
LEMMA SamePadding == ASSUME Careful PROVE KeysComparedByValue
BY DEF Careful, KeysComparedByValue, MissesKey

\* The reply "repeat update" of on_cmd_balance_update, where the unset bytes of the key happen
\* to be the same at every call, live or in a replay: an update that was accepted less than a
\* day ago is refused, as long as no crash lost its operation and it lies behind the slice the
\* engine was started from.  (With "padding" in Faults it is not: RepeatRefused is violated.)
THEOREM RepetitionsAreRefused ==
    ASSUME Careful, KeysComparedByValue PROVE Spec => RepeatRefused
<1>1. Init => AcceptedOK
  BY DEF Init, AcceptedOK, Empty
<1>2. IInv /\ AcceptedOK /\ [Next]_vars =>
        AcceptedOK' /\ [\A k \in DOMAIN accepted :
                            accepted[k].time >= now - DayLength /\ k \in DOMAIN accepted'
                               => accepted'[k] = accepted[k]]_vars
  BY NextAccepts
<1> QED
  BY Invariance, <1>1, <1>2, PTL DEF Spec, RepeatRefused
==============================================================================
