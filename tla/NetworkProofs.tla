---------------------------- MODULE NetworkProofs ----------------------------
(***************************************************************************)
(* Proofs about Network, for any sizes of buffers, sockets and packages:   *)
(* what is sent on a connection is what is received on it.                 *)
(*                                                                         *)
(* The bytes in the receiver's buffer, in the sockets and in the sender's  *)
(* list of buffers are one stream, from the first byte of the package that *)
(* is to be decoded next to the last byte of the package that was sent     *)
(* last.  A stream is told by its first byte, its last one, and which byte *)
(* follows which.                                                          *)
(***************************************************************************)
EXTENDS Network, SequenceTheorems, WellFoundedInduction, TLAPS

-----------------------------------------------------------------------------
(* Induction *)

\* A set that has 0 and the successor of each of its numbers has them all.
LEMMA SetInduction ==
    ASSUME NEW S, 0 \in S, \A n \in Nat : n \in S => n + 1 \in S
    PROVE  Nat \subseteq S
<1> DEFINE T == Nat \ S
<1> SUFFICES ASSUME T # {} PROVE FALSE
  OBVIOUS
<1>1. PICK n \in T : \A m \in T : ~(<<m, n>> \in OpToRel(<, Nat))
  <2>1. T \subseteq Nat
    OBVIOUS
  <2> HIDE DEF T
  <2> QED
    BY <2>1, NatLessThanWellFounded, WFMin
<1>2. n \in Nat /\ n # 0
  BY <1>1
<1>3. n - 1 \in Nat /\ (n - 1) + 1 = n
  BY <1>2
<1>4. n - 1 \in T
  BY <1>1, <1>3
<1>5. <<n - 1, n>> \in OpToRel(<, Nat)
  BY <1>2, <1>3 DEF OpToRel
<1> QED
  BY <1>1, <1>4, <1>5

\* What holds at 0 and goes on holding does so up to a number.
LEMMA Inductive ==
    ASSUME NEW n \in Nat, NEW S, 0 \in S, \A k \in 1..n : k - 1 \in S => k \in S
    PROVE  \A k \in 0..n : k \in S
<1> DEFINE T == {m \in Nat : m <= n => m \in S}
<1>1. 0 \in T
  OBVIOUS
<1>2. ASSUME NEW m \in Nat, m \in T PROVE m + 1 \in T
  <2>1. CASE m + 1 <= n
    <3>1. m + 1 \in 1..n /\ (m + 1) - 1 = m /\ m \in S
      BY <1>2, <2>1
    <3> QED
      BY <2>1, <3>1
  <2>2. CASE ~(m + 1 <= n)
    BY <2>2
  <2> QED
    BY <2>1, <2>2
<1>3. Nat \subseteq T
  <2> HIDE DEF T
  <2> QED
    BY <1>1, <1>2, SetInduction
<1> QED
  BY <1>3

IsLoop(f, F, n, a) == f[0] = a /\ \A k \in 1..n : f[k] = F[<<k, f[k - 1]>>]

\* A loop of n rounds over values of a set has a run.
LEMMA LoopRuns ==
    ASSUME NEW X, NEW a \in X, NEW n \in Nat, NEW F \in [(1..n) \X X -> X]
    PROVE  \E f \in [0..n -> X] : IsLoop(f, F, n, a)
<1> DEFINE S == {m \in Nat : \E f \in [0..m -> X] : f[0] = a /\ \A k \in 1..m : f[k] = F[<<k, f[k - 1]>>]}
<1>1. 0 \in S
  <2>1. PICK f \in [0..0 -> X] : f = [k \in 0..0 |-> a]
    OBVIOUS
  <2>2. f[0] = a /\ \A k \in 1..0 : f[k] = F[<<k, f[k - 1]>>]
    BY <2>1
  <2> QED
    BY <2>2
<1>2. ASSUME NEW k \in 1..n, k - 1 \in S PROVE k \in S
  <2>1. PICK f \in [0..(k - 1) -> X] : f[0] = a /\ \A j \in 1..(k - 1) : f[j] = F[<<j, f[j - 1]>>]
    BY <1>2
  <2>2. f[k - 1] \in X /\ F[<<k, f[k - 1]>>] \in X
    <3>1. k - 1 \in 0..(k - 1)
      OBVIOUS
    <3>2. f[k - 1] \in X
      BY <3>1
    <3> QED
      BY <3>2
  <2> DEFINE g == [j \in 0..k |-> IF j <= k - 1 THEN f[j] ELSE F[<<k, f[k - 1]>>]]
  <2>3. g \in [0..k -> X]
    BY <2>2
  <2>4. g[0] = a
    BY <2>1
  <2>5. ASSUME NEW j \in 1..k PROVE g[j] = F[<<j, g[j - 1]>>]
    <3>1. CASE j <= k - 1
      <4>1. g[j] = f[j] /\ g[j - 1] = f[j - 1] /\ j \in 1..(k - 1)
        BY <3>1
      <4> HIDE DEF g
      <4> QED
        BY <2>1, <4>1
    <3>2. CASE j = k
      <4>1. g[k] = F[<<k, f[k - 1]>>] /\ g[k - 1] = f[k - 1]
        OBVIOUS
      <4> HIDE DEF g
      <4> QED
        BY <3>2, <4>1
    <3> QED
      BY <3>1, <3>2
  <2> HIDE DEF g
  <2> QED
    BY <2>3, <2>4, <2>5
<1>3. \A k \in 0..n : k \in S
  <2> HIDE DEF S
  <2> QED
    BY <1>1, <1>2, Inductive
<1>4. n \in S
  <2> HIDE DEF S
  <2> QED
    BY <1>3
<1>5. PICK f \in [0..n -> X] : f[0] = a /\ \A k \in 1..n : f[k] = F[<<k, f[k - 1]>>]
  BY <1>4
<1>6. IsLoop(f, F, n, a)
  BY <1>5 DEF IsLoop
<1> QED
  BY <1>6

-----------------------------------------------------------------------------
(* Sequences of bytes *)

Byte == Nat \X Nat
Buf == [data : Seq(Byte), wpos : 0..BufSize]

\* Three sequences behind one another
LEMMA JoinAgain ==
    ASSUME NEW s \in Seq(Byte), NEW t \in Seq(Byte), NEW u \in Seq(Byte)
    PROVE  (s \o t) \o u = s \o (t \o u)
BY ConcatAssociative

\* A sequence that is cut in two, and put together again
LEMMA CutJoins ==
    ASSUME NEW s \in Seq(Byte), NEW k \in 0..Len(s)
    PROVE  /\ SubSeq(s, 1, k) \in Seq(Byte) /\ SubSeq(s, k + 1, Len(s)) \in Seq(Byte)
           /\ SubSeq(s, 1, k) \o SubSeq(s, k + 1, Len(s)) = s
           /\ Len(SubSeq(s, 1, k)) = k /\ Len(SubSeq(s, k + 1, Len(s))) = Len(s) - k
           /\ \A i \in 1..k : SubSeq(s, 1, k)[i] = s[i]
           /\ \A i \in 1 .. Len(s) - k : SubSeq(s, k + 1, Len(s))[i] = s[k + i]
<1>1. Len(s) \in Nat /\ \A i \in 1..Len(s) : s[i] \in Byte
  BY LenProperties, ElementOfSeq
<1>2. /\ SubSeq(s, 1, k) \in Seq(Byte) /\ Len(SubSeq(s, 1, k)) = k
      /\ \A i \in 1..k : SubSeq(s, 1, k)[i] = s[i]
  <2>1. \A i \in 1..k : s[i] \in Byte
    BY <1>1
  <2>2. /\ SubSeq(s, 1, k) \in Seq(Byte) /\ Len(SubSeq(s, 1, k)) = IF 1 <= k THEN k - 1 + 1 ELSE 0
        /\ \A i \in 1 .. k - 1 + 1 : SubSeq(s, 1, k)[i] = s[1 + i - 1]
    BY <2>1, SubSeqProperties
  <2>3. k - 1 + 1 = k /\ \A i \in 1..k : 1 + i - 1 = i
    BY <1>1
  <2> QED
    BY <1>1, <2>2, <2>3
<1>3. /\ SubSeq(s, k + 1, Len(s)) \in Seq(Byte) /\ Len(SubSeq(s, k + 1, Len(s))) = Len(s) - k
      /\ \A i \in 1 .. Len(s) - k : SubSeq(s, k + 1, Len(s))[i] = s[k + i]
  <2>1. k + 1 \in Int /\ \A i \in k + 1 .. Len(s) : s[i] \in Byte
    BY <1>1
  <2>2. /\ SubSeq(s, k + 1, Len(s)) \in Seq(Byte)
        /\ Len(SubSeq(s, k + 1, Len(s))) = IF k + 1 <= Len(s) THEN Len(s) - (k + 1) + 1 ELSE 0
        /\ \A i \in 1 .. Len(s) - (k + 1) + 1 : SubSeq(s, k + 1, Len(s))[i] = s[(k + 1) + i - 1]
    BY <1>1, <2>1, SubSeqProperties
  <2> DEFINE b == SubSeq(s, k + 1, Len(s))
  <2> HIDE DEF b
  <2>3. Len(b) = Len(s) - k
    BY <1>1, <2>2 DEF b
  <2>4. ASSUME NEW i \in 1 .. Len(s) - k PROVE b[i] = s[k + i]
    <3>1. i \in 1 .. Len(s) - (k + 1) + 1 /\ (k + 1) + i - 1 = k + i
      BY <1>1
    <3> QED
      BY <2>2, <3>1 DEF b
  <2> QED
    BY <2>2, <2>3, <2>4 DEF b
<1>4. SubSeq(s, 1, k) \o SubSeq(s, k + 1, Len(s)) = s
  <2>1. 1 \in 1 .. Len(s) + 1 /\ k \in 1 - 1 .. Len(s) /\ Len(s) \in k .. Len(s)
    BY <1>1
  <2>2. SubSeq(s, 1, k) \o SubSeq(s, k + 1, Len(s)) = SubSeq(s, 1, Len(s))
    BY <2>1, ConcatAdjacentSubSeq
  <2> QED
    BY <2>2, SubSeqFull
<1> QED
  BY <1>2, <1>3, <1>4

\* What is taken off the front of two sequences that are joined
LEMMA FrontOff ==
    ASSUME NEW s \in Seq(Byte), NEW t \in Seq(Byte), NEW n \in Nat
    PROVE  SubSeq(s, n + 1, Len(s)) \o SubSeq(t, Minus(n, Len(s)) + 1, Len(t))
             = SubSeq(s \o t, n + 1, Len(s \o t))
<1>1. /\ Len(s) \in Nat /\ Len(t) \in Nat /\ s \o t \in Seq(Byte) /\ Len(s \o t) = Len(s) + Len(t)
      /\ \A i \in 1 .. Len(s) + Len(t) : (s \o t)[i] = IF i <= Len(s) THEN s[i] ELSE t[i - Len(s)]
  BY LenProperties, ConcatProperties
<1>2. CASE n <= Len(s)
  <2>1. n \in 0..Len(s) /\ 0 \in 0..Len(t) /\ n \in 0..Len(s \o t) /\ Minus(n, Len(s)) = 0
    BY <1>1, <1>2 DEF Minus
  <2> DEFINE a == SubSeq(s, n + 1, Len(s))
  <2> DEFINE c == SubSeq(s \o t, n + 1, Len(s \o t))
  <2>2. a \in Seq(Byte) /\ Len(a) = Len(s) - n /\ \A i \in 1 .. Len(s) - n : a[i] = s[n + i]
    BY <2>1, CutJoins
  <2>3. c \in Seq(Byte) /\ Len(c) = Len(s) + Len(t) - n
        /\ \A i \in 1 .. Len(s) + Len(t) - n : c[i] = (s \o t)[n + i]
    <3>1. c \in Seq(Byte) /\ Len(c) = Len(s \o t) - n /\ \A i \in 1 .. Len(s \o t) - n : c[i] = (s \o t)[n + i]
      BY <1>1, <2>1, CutJoins
    <3> QED
      BY <1>1, <3>1
  <2>4. SubSeq(t, 0 + 1, Len(t)) = t
    BY SubSeqFull
  <2> HIDE DEF a, c
  <2>5. /\ a \o t \in Seq(Byte) /\ Len(a \o t) = Len(a) + Len(t)
        /\ \A i \in 1 .. Len(a) + Len(t) : (a \o t)[i] = IF i <= Len(a) THEN a[i] ELSE t[i - Len(a)]
    BY <2>2, ConcatProperties
  <2>6. ASSUME NEW i \in 1 .. Len(a \o t) PROVE (a \o t)[i] = c[i]
    <3>1. i \in 1 .. Len(s) + Len(t) - n /\ n + i \in 1 .. Len(s) + Len(t)
      BY <1>1, <1>2, <2>2, <2>5
    <3>2. c[i] = IF n + i <= Len(s) THEN s[n + i] ELSE t[n + i - Len(s)]
      BY <1>1, <2>3, <3>1
    <3>3. CASE i <= Len(s) - n
      <4>1. (a \o t)[i] = a[i] /\ a[i] = s[n + i] /\ n + i <= Len(s)
        BY <1>1, <2>2, <2>5, <3>1, <3>3
      <4> QED
        BY <3>2, <4>1
    <3>4. CASE ~(i <= Len(s) - n)
      <4>1. (a \o t)[i] = t[i - Len(a)] /\ ~(n + i <= Len(s)) /\ i - Len(a) = n + i - Len(s)
        BY <1>1, <2>2, <2>5, <3>1, <3>4
      <4> QED
        BY <3>2, <4>1
    <3> QED
      BY <3>3, <3>4
  <2>7. Len(a \o t) = Len(c)
    BY <1>1, <2>2, <2>3, <2>5
  <2>8. a \o t = c
    BY <2>3, <2>5, <2>6, <2>7, SeqEqual
  <2> QED
    BY <2>1, <2>4, <2>8 DEF a, c
<1>3. CASE ~(n <= Len(s))
  <2>1. Minus(n, Len(s)) = n - Len(s) /\ n - Len(s) \in Nat
    BY <1>1, <1>3 DEF Minus
  <2>2. SubSeq(s, n + 1, Len(s)) = <<>>
    BY <1>1, <1>3, SubSeqEmpty
  <2> DEFINE a == SubSeq(t, n - Len(s) + 1, Len(t))
  <2> DEFINE c == SubSeq(s \o t, n + 1, Len(s \o t))
  <2>3. CASE n - Len(s) <= Len(t)
    <3>1. n - Len(s) \in 0..Len(t) /\ n \in 0..Len(s \o t)
      BY <1>1, <2>1, <2>3
    <3>2. a \in Seq(Byte) /\ Len(a) = Len(t) - (n - Len(s))
          /\ \A i \in 1 .. Len(t) - (n - Len(s)) : a[i] = t[n - Len(s) + i]
      BY <3>1, CutJoins
    <3>3. c \in Seq(Byte) /\ Len(c) = Len(s \o t) - n /\ \A i \in 1 .. Len(s \o t) - n : c[i] = (s \o t)[n + i]
      BY <1>1, <3>1, CutJoins
    <3> HIDE DEF a, c
    <3>4. Len(a) = Len(c) /\ Len(a) = Len(s) + Len(t) - n
      BY <1>1, <3>2, <3>3
    <3>5. ASSUME NEW i \in 1..Len(a) PROVE a[i] = c[i]
      <4>1. i \in 1 .. Len(t) - (n - Len(s)) /\ i \in 1 .. Len(s \o t) - n
            /\ n + i \in 1 .. Len(s) + Len(t) /\ ~(n + i <= Len(s)) /\ n + i - Len(s) = n - Len(s) + i
        BY <1>1, <1>3, <2>1, <3>2, <3>4
      <4> QED
        BY <1>1, <3>2, <3>3, <4>1
    <3>6. a = c
      BY <3>2, <3>3, <3>4, <3>5, SeqEqual
    <3>7. <<>> \o a = a
      BY <3>2, ConcatEmptySeq
    <3> QED
      BY <2>1, <2>2, <3>6, <3>7 DEF a, c
  <2>4. CASE ~(n - Len(s) <= Len(t))
    <3>1. a = <<>> /\ c = <<>>
      <4>1. n - Len(s) + 1 \in Int /\ Len(t) < n - Len(s) + 1 /\ n + 1 \in Int /\ Len(s \o t) < n + 1
            /\ Len(s \o t) \in Int
        BY <1>1, <2>1, <2>4
      <4> QED
        BY <1>1, <4>1, SubSeqEmpty
    <3>2. <<>> \in Seq(Byte) /\ <<>> \o <<>> = <<>>
      BY EmptySeq, ConcatEmptySeq
    <3> QED
      BY <2>1, <2>2, <3>1, <3>2
  <2> QED
    BY <2>3, <2>4
<1> QED
  BY <1>2, <1>3

-----------------------------------------------------------------------------
(* What a list of buffers holds *)

Runs(f, list) ==
    /\ f \in [0..Len(list) -> Seq(Byte)] /\ f[0] = <<>>
    /\ \A k \in 1..Len(list) : f[k] = f[k - 1] \o list[k].data

\* The loop over the buffers
LEMMA PendingRuns ==
    ASSUME NEW list \in Seq(Buf)
    PROVE  \E f : Runs(f, list) /\ Pending(list) = f[Len(list)]
<1>1. Len(list) \in Nat /\ \A k \in 1..Len(list) : list[k].data \in Seq(Byte)
  <2>1. \A k \in 1..Len(list) : list[k] \in Buf
    BY ElementOfSeq
  <2> QED
    BY <2>1, LenProperties DEF Buf
<1>2. PICK F \in [(1..Len(list)) \X Seq(Byte) -> Seq(Byte)] :
          \A k \in 1..Len(list), x \in Seq(Byte) : F[<<k, x>>] = x \o list[k].data
  <2> DEFINE F == [p \in (1..Len(list)) \X Seq(Byte) |-> p[2] \o list[p[1]].data]
  <2>1. F \in [(1..Len(list)) \X Seq(Byte) -> Seq(Byte)]
    BY <1>1, ConcatProperties
  <2>2. \A k \in 1..Len(list), x \in Seq(Byte) : F[<<k, x>>] = x \o list[k].data
    OBVIOUS
  <2> HIDE DEF F
  <2> QED
    BY <2>1, <2>2
<1>3. PICK e \in Seq(Byte) : e = <<>>
  BY EmptySeq
<1>4. PICK f \in [0..Len(list) -> Seq(Byte)] :
          f[0] = <<>> /\ \A k \in 1..Len(list) : f[k] = F[<<k, f[k - 1]>>]
  <2>1. \E f \in [0..Len(list) -> Seq(Byte)] : IsLoop(f, F, Len(list), e)
    BY <1>1, LoopRuns
  <2> QED
    BY <1>3, <2>1 DEF IsLoop
<1>5. \A k \in 1..Len(list) : f[k] = f[k - 1] \o list[k].data
  <2>1. \A k \in 1..Len(list) : k - 1 \in 0..Len(list)
    BY <1>1
  <2> QED
    BY <1>2, <1>4, <2>1
<1>6. \A k \in 0..Len(list) : f[k] = IF k = 0 THEN <<>> ELSE f[k - 1] \o list[k].data
  <2>1. \A k \in 0..Len(list) : k = 0 \/ k \in 1..Len(list)
    BY <1>1
  <2> QED
    BY <1>4, <1>5, <2>1
<1>7. f = [k \in 0..Len(list) |-> IF k = 0 THEN <<>> ELSE f[k - 1] \o list[k].data]
  <2>1. f = [k \in 0..Len(list) |-> f[k]]
    BY <1>4
  <2> QED
    BY <1>6, <2>1
<1>8. PICK g : /\ g = [k \in 0..Len(list) |-> IF k = 0 THEN <<>> ELSE g[k - 1] \o list[k].data]
               /\ Pending(list) = g[Len(list)]
  BY <1>7, Zenon DEF Pending
<1>9. \A k \in 0..Len(list) : g[k] = IF k = 0 THEN <<>> ELSE g[k - 1] \o list[k].data
  BY <1>8
<1>10. \A k \in 0..Len(list) : g[k] = f[k]
  <2> DEFINE S == {k \in 0..Len(list) : g[k] = f[k]}
  <2>1. 0 \in S
    BY <1>1, <1>4, <1>9
  <2>2. \A k \in 1..Len(list) : k - 1 \in S => k \in S
    <3>1. \A k \in 1..Len(list) : k \in 0..Len(list) /\ k # 0
      BY <1>1
    <3> QED
      BY <1>5, <1>9, <3>1
  <2>3. \A k \in 0..Len(list) : k \in S
    <3> HIDE DEF S
    <3> QED
      BY <1>1, <2>1, <2>2, Inductive
  <2> QED
    BY <2>3
<1>11. Pending(list) = f[Len(list)]
  BY <1>1, <1>8, <1>10
<1> QED
  BY <1>4, <1>5, <1>11 DEF Runs

\* It is a sequence of bytes.
LEMMA PendingIs == ASSUME NEW list \in Seq(Buf) PROVE Pending(list) \in Seq(Byte)
<1>1. PICK f : Runs(f, list) /\ Pending(list) = f[Len(list)]
  BY PendingRuns
<1>2. Len(list) \in 0..Len(list)
  BY LenProperties
<1> QED
  BY <1>1, <1>2 DEF Runs

\* No buffers, and one
LEMMA PendingFew ==
    /\ <<>> \in Seq(Buf) /\ Pending(<<>>) = <<>>
    /\ \A b \in Buf : <<b>> \in Seq(Buf) /\ Pending(<<b>>) = b.data
<1>1. <<>> \in Seq(Buf) /\ Len(<<>>) = 0
  BY EmptySeq
<1>2. Pending(<<>>) = <<>>
  <2>1. PICK f : Runs(f, <<>>) /\ Pending(<<>>) = f[Len(<<>>)]
    BY <1>1, PendingRuns
  <2> QED
    BY <1>1, <2>1 DEF Runs
<1>3. ASSUME NEW b \in Buf PROVE <<b>> \in Seq(Buf) /\ Pending(<<b>>) = b.data
  <2>1. PICK s \in Seq(Buf) : s = <<b>> /\ Len(s) = 1 /\ s[1] = b
    <3>1. <<b>> \in Seq(Buf)
      OBVIOUS
    <3>2. Len(<<b>>) = 1 /\ <<b>>[1] = b
      OBVIOUS
    <3> QED
      BY <3>1, <3>2
  <2>2. PICK f : Runs(f, s) /\ Pending(s) = f[Len(s)]
    BY PendingRuns
  <2>3. 1 \in 1..Len(s) /\ 1 - 1 = 0
    BY <2>1
  <2>4. f[1] = f[0] \o s[1].data /\ f[0] = <<>>
    BY <2>2, <2>3 DEF Runs
  <2>5. b.data \in Seq(Byte)
    BY DEF Buf
  <2>6. <<>> \o b.data = b.data
    BY <2>5, ConcatEmptySeq
  <2> QED
    BY <2>1, <2>2, <2>4, <2>6
<1> QED
  BY <1>1, <1>2, <1>3

\* One list behind another
LEMMA PendingJoined ==
    ASSUME NEW a \in Seq(Buf), NEW b \in Seq(Buf)
    PROVE  a \o b \in Seq(Buf) /\ Pending(a \o b) = Pending(a) \o Pending(b)
<1> DEFINE c == a \o b
<1>1. /\ Len(a) \in Nat /\ Len(b) \in Nat /\ c \in Seq(Buf) /\ Len(c) = Len(a) + Len(b)
      /\ \A i \in 1 .. Len(a) + Len(b) : c[i] = IF i <= Len(a) THEN a[i] ELSE b[i - Len(a)]
  BY LenProperties, ConcatProperties
<1> HIDE DEF c
<1>2. PICK f : Runs(f, a) /\ Pending(a) = f[Len(a)]
  BY PendingRuns
<1>3. PICK g : Runs(g, b) /\ Pending(b) = g[Len(b)]
  BY PendingRuns
<1>4. PICK h : Runs(h, c) /\ Pending(c) = h[Len(c)]
  BY <1>1, PendingRuns
<1>5. \A k \in 0..Len(a) : h[k] = f[k]
  <2> DEFINE S == {k \in 0..Len(a) : h[k] = f[k]}
  <2>1. 0 \in S
    BY <1>1, <1>2, <1>4 DEF Runs
  <2>2. ASSUME NEW k \in 1..Len(a), k - 1 \in S PROVE k \in S
    <3>1. k \in 1..Len(c) /\ c[k] = a[k] /\ k \in 0..Len(a)
      BY <1>1
    <3>2. h[k] = h[k - 1] \o c[k].data /\ f[k] = f[k - 1] \o a[k].data
      BY <1>2, <1>4, <3>1 DEF Runs
    <3> QED
      BY <2>2, <3>1, <3>2
  <2>3. \A k \in 0..Len(a) : k \in S
    <3> HIDE DEF S
    <3> QED
      BY <1>1, <2>1, <2>2, Inductive
  <2> QED
    BY <2>3
<1>6. PICK p \in Seq(Byte) : h[Len(a)] = p /\ f[Len(a)] = p
  <2>1. f[Len(a)] \in Seq(Byte) /\ h[Len(a)] = f[Len(a)]
    BY <1>1, <1>2, <1>5 DEF Runs
  <2> QED
    BY <2>1
<1>7. \A k \in 0..Len(b) : h[Len(a) + k] = p \o g[k]
  <2> DEFINE S == {k \in 0..Len(b) : h[Len(a) + k] = p \o g[k]}
  <2>1. 0 \in S
    <3>1. g[0] = <<>> /\ Len(a) + 0 = Len(a)
      BY <1>1, <1>3 DEF Runs
    <3>2. p \o <<>> = f[Len(a)]
      BY <1>6, ConcatEmptySeq
    <3>3. 0 \in 0..Len(b)
      BY <1>1
    <3> QED
      BY <1>6, <3>1, <3>2, <3>3
  <2>2. ASSUME NEW k \in 1..Len(b), k - 1 \in S PROVE k \in S
    <3>1. /\ Len(a) + k \in 1..Len(c) /\ (Len(a) + k) - Len(a) = k /\ ~(Len(a) + k <= Len(a))
          /\ (Len(a) + k) - 1 = Len(a) + (k - 1) /\ k \in 0..Len(b) /\ k - 1 \in 0..Len(b)
      BY <1>1
    <3>2. c[Len(a) + k] = b[k]
      BY <1>1, <3>1
    <3>3. h[Len(a) + k] = h[Len(a) + (k - 1)] \o b[k].data
      BY <1>4, <3>1, <3>2 DEF Runs
    <3>4. g[k] = g[k - 1] \o b[k].data /\ g[k - 1] \in Seq(Byte)
      BY <1>3, <3>1 DEF Runs
    <3>5. b[k].data \in Seq(Byte)
      <4>1. b[k] \in Buf
        BY ElementOfSeq
      <4> QED
        BY <4>1 DEF Buf
    <3>6. (p \o g[k - 1]) \o b[k].data = p \o (g[k - 1] \o b[k].data)
      <4>1. PICK q \in Seq(Byte) : q = g[k - 1]
        BY <3>4
      <4>2. PICK d \in Seq(Byte) : d = b[k].data
        BY <3>5
      <4>3. (p \o q) \o d = p \o (q \o d)
        BY JoinAgain, Zenon
      <4> QED
        BY <4>1, <4>2, <4>3
    <3> QED
      BY <2>2, <3>1, <3>3, <3>4, <3>6
  <2>3. \A k \in 0..Len(b) : k \in S
    <3> HIDE DEF S
    <3> QED
      BY <1>1, <2>1, <2>2, Inductive
  <2> QED
    BY <2>3
<1>8. Pending(c) = Pending(a) \o Pending(b)
  <2>1. Len(b) \in 0..Len(b)
    BY <1>1
  <2>2. h[Len(a) + Len(b)] = p \o g[Len(b)]
    BY <1>7, <2>1
  <2> QED
    BY <1>1, <1>2, <1>3, <1>4, <1>6, <2>2
<1> QED
  BY <1>1, <1>8 DEF c

-----------------------------------------------------------------------------
(* nw_buf_list_write *)

BytesTo(s, q) == SubSeq(s, 1, Less(q, Len(s)))
BytesFrom(s, p, q) == SubSeq(s, p + 1, Less(q, Len(s)))

\* The bytes up to p, and on to q, as far as there are any
LEMMA ChunkJoins ==
    ASSUME NEW s \in Seq(Byte), NEW p \in Nat, NEW b \in Nat, NEW q \in Nat, q = p + b
    PROVE  /\ BytesFrom(s, p, q) \in Seq(Byte) /\ Len(BytesFrom(s, p, q)) <= b
           /\ BytesTo(s, p) \o BytesFrom(s, p, q) = BytesTo(s, q)
<1>1. Len(s) \in Nat /\ \A i \in 1..Len(s) : s[i] \in Byte
  BY LenProperties, ElementOfSeq
<1>2. CASE p <= Len(s)
  <2>1. PICK m \in Nat : m = Less(q, Len(s)) /\ p <= m /\ m <= Len(s) /\ m <= q
    BY <1>1, <1>2 DEF Less
  <2>2. Less(p, Len(s)) = p
    BY <1>1, <1>2 DEF Less
  <2>3. SubSeq(s, 1, p) \o SubSeq(s, p + 1, m) = SubSeq(s, 1, m)
    <3>1. 1 \in 1 .. Len(s) + 1 /\ p \in 1 - 1 .. Len(s) /\ m \in p .. Len(s)
      BY <1>1, <1>2, <2>1
    <3> QED
      BY <3>1, ConcatAdjacentSubSeq
  <2>4. /\ SubSeq(s, p + 1, m) \in Seq(Byte)
        /\ Len(SubSeq(s, p + 1, m)) = IF p + 1 <= m THEN m - (p + 1) + 1 ELSE 0
    <3>1. p + 1 \in Int /\ m \in Int /\ \A i \in p + 1 .. m : s[i] \in Byte
      BY <1>1, <2>1
    <3> QED
      BY <3>1, SubSeqProperties
  <2>5. Len(SubSeq(s, p + 1, m)) <= b
    BY <2>1, <2>4
  <2> QED
    BY <2>1, <2>2, <2>3, <2>4, <2>5 DEF BytesTo, BytesFrom
<1>3. CASE ~(p <= Len(s))
  <2>1. Less(q, Len(s)) = Len(s) /\ Less(p, Len(s)) = Len(s)
    BY <1>1, <1>3 DEF Less
  <2>2. SubSeq(s, p + 1, Len(s)) = <<>>
    BY <1>1, <1>3, SubSeqEmpty
  <2>3. PICK e \in Seq(Byte) : e = <<>> /\ Len(e) = 0 /\ s \o e = s
    BY EmptySeq, ConcatEmptySeq
  <2>4. SubSeq(s, 1, Len(s)) = s
    BY SubSeqFull
  <2>5. BytesTo(s, p) = s /\ BytesTo(s, q) = s /\ BytesFrom(s, p, q) = e
    BY <2>1, <2>2, <2>3, <2>4 DEF BytesTo, BytesFrom
  <2>6. Len(e) = 0 /\ s \o e = s
    BY <2>3
  <2>7. 0 <= b
    OBVIOUS
  <2> QED
    BY <2>5, <2>6, <2>7, Zenon
<1> QED
  BY <1>2, <1>3

\* New buffers hold the bytes.
LEMMA AllocIs ==
    ASSUME NEW bytes \in Seq(Byte)
    PROVE  NwBufAlloc(bytes) \in Seq(Buf) /\ Pending(NwBufAlloc(bytes)) = bytes
<1> DEFINE n == (Len(bytes) + BufSize - 1) \div BufSize
<1>1. BufSize \in Nat /\ BufSize > 0 /\ Len(bytes) \in Nat
  BY SizesAssumption, LenProperties
<1>2. n \in Nat /\ Len(bytes) <= n * BufSize
  <2>1. PICK x \in Nat : x = Len(bytes) + BufSize - 1
    BY <1>1
  <2>2. x \div BufSize \in Nat /\ x < (x \div BufSize) * BufSize + BufSize
    BY <1>1
  <2>3. PICK y \in Nat : y = (x \div BufSize) * BufSize
    BY <1>1, <2>2
  <2> QED
    BY <1>1, <2>1, <2>2, <2>3
<1> HIDE DEF n
<1> DEFINE Chunk(k) == BytesFrom(bytes, (k - 1) * BufSize, k * BufSize)
           UpTo(k) == BytesTo(bytes, k * BufSize)
<1>3. ASSUME NEW k \in 1..n
      PROVE  Chunk(k) \in Seq(Byte) /\ Len(Chunk(k)) <= BufSize /\ UpTo(k - 1) \o Chunk(k) = UpTo(k)
  <2>1. PICK p \in Nat : p = (k - 1) * BufSize
    <3>1. k - 1 \in Nat
      BY <1>2
    <3> QED
      BY <1>1, <3>1
  <2>2. PICK q \in Nat : q = k * BufSize
    BY <1>1, <1>2
  <2>3. q = p + BufSize
    BY <1>1, <1>2, <2>1, <2>2
  <2>4. /\ BytesFrom(bytes, p, q) \in Seq(Byte) /\ Len(BytesFrom(bytes, p, q)) <= BufSize
        /\ BytesTo(bytes, p) \o BytesFrom(bytes, p, q) = BytesTo(bytes, q)
    BY <1>1, <2>3, ChunkJoins
  <2> QED
    BY <2>1, <2>2, <2>4
<1>4. UpTo(0) = <<>> /\ UpTo(n) = bytes
  <2>1. 0 * BufSize = 0 /\ Less(0, Len(bytes)) = 0 /\ Less(n * BufSize, Len(bytes)) = Len(bytes)
    BY <1>1, <1>2 DEF Less
  <2>2. SubSeq(bytes, 1, 0) = <<>>
    BY SubSeqEmpty
  <2>3. SubSeq(bytes, 1, Len(bytes)) = bytes
    BY SubSeqFull
  <2> QED
    BY <2>1, <2>2, <2>3 DEF BytesTo
<1>5. PICK a : a = NwBufAlloc(bytes)
  OBVIOUS
<1>6. a = [k \in 1..n |-> NwBufWrite([data |-> <<>>, wpos |-> 0], Chunk(k))]
  BY <1>5 DEF NwBufAlloc, n, BytesFrom
<1> HIDE DEF Chunk, UpTo
<1>7. ASSUME NEW k \in 1..n
      PROVE  a[k] \in Buf /\ a[k].data = Chunk(k)
  <2>1. PICK c \in Seq(Byte) : c = Chunk(k) /\ Len(c) <= BufSize
    BY <1>3
  <2>2. Len(c) \in Nat /\ <<>> \o c = c
    BY LenProperties, ConcatEmptySeq
  <2>3. a[k] = [data |-> <<>> \o c, wpos |-> 0 + Len(c)]
    BY <1>6, <2>1 DEF NwBufWrite
  <2>4. 0 + Len(c) \in 0..BufSize
    BY <1>1, <2>1, <2>2
  <2> QED
    BY <2>1, <2>2, <2>3, <2>4 DEF Buf
<1>8. a \in Seq(Buf) /\ Len(a) = n
  BY <1>2, <1>6, <1>7
<1>9. PICK f : Runs(f, a) /\ Pending(a) = f[Len(a)]
  BY <1>8, PendingRuns
<1>10. \A k \in 0..n : f[k] = UpTo(k)
  <2> DEFINE S == {k \in 0..n : f[k] = UpTo(k)}
  <2>1. 0 \in S
    BY <1>2, <1>4, <1>9 DEF Runs
  <2>2. ASSUME NEW k \in 1..n, k - 1 \in S PROVE k \in S
    <3>1. f[k] = f[k - 1] \o a[k].data
      BY <1>8, <1>9 DEF Runs
    <3>2. f[k - 1] = UpTo(k - 1) /\ k \in 0..n
      BY <1>2, <2>2
    <3> QED
      BY <1>3, <1>7, <3>1, <3>2
  <2>3. \A k \in 0..n : k \in S
    <3> HIDE DEF S
    <3> QED
      BY <1>2, <2>1, <2>2, Inductive
  <2> QED
    BY <2>3
<1>11. Pending(a) = bytes
  BY <1>2, <1>4, <1>8, <1>9, <1>10
<1> QED
  BY <1>5, <1>8, <1>11

\* The bytes are behind those that wait.
LEMMA ListWriteIs ==
    ASSUME NEW list \in Seq(Buf), NEW bytes \in Seq(Byte)
    PROVE  /\ NwBufListWrite(list, bytes) \in Seq(Buf)
           /\ Pending(NwBufListWrite(list, bytes)) = Pending(list) \o bytes
<1>1. CASE list = <<>>
  <2>1. NwBufListWrite(list, bytes) = NwBufAlloc(bytes)
    BY <1>1 DEF NwBufListWrite
  <2>2. Pending(list) = <<>> /\ <<>> \o bytes = bytes
    BY <1>1, PendingFew, ConcatEmptySeq
  <2> QED
    BY <2>1, <2>2, AllocIs
<1>2. CASE list # <<>>
  <2>1. PICK init \in Seq(Buf), tail \in Buf : list = init \o <<tail>> /\ SubSeq(list, 1, Len(list) - 1) = init
                                               /\ list[Len(list)] = tail
    <3>1. Len(list) \in Nat /\ Len(list) # 0 /\ \A i \in 1..Len(list) : list[i] \in Buf
      BY <1>2, LenProperties, EmptySeq, ElementOfSeq
    <3>2. list[Len(list)] \in Buf /\ Len(list) \in 1..Len(list) /\ 1 \in 1..Len(list)
      BY <3>1
    <3>3. SubSeq(list, 1, Len(list) - 1) \in Seq(Buf)
      <4>1. Len(list) - 1 \in Int /\ \A i \in 1 .. Len(list) - 1 : list[i] \in Buf
        BY <3>1
      <4> QED
        BY <4>1, SubSeqProperties
    <3>4. SubSeq(list, 1, Len(list)) = SubSeq(list, 1, Len(list) - 1) \o <<list[Len(list)]>>
      BY <3>2, SubSeqRecursiveSecond
    <3>5. SubSeq(list, 1, Len(list)) = list
      BY SubSeqFull
    <3> QED
      BY <3>2, <3>3, <3>4, <3>5
  <2> DEFINE fits == Less(NwBufAvail(tail), Len(bytes))
  <2>2. /\ BufSize \in Nat /\ Len(bytes) \in Nat /\ tail.data \in Seq(Byte) /\ tail.wpos \in 0..BufSize
        /\ fits \in 0..Len(bytes) /\ tail.wpos + fits <= BufSize
    BY SizesAssumption, LenProperties DEF Buf, Less, NwBufAvail
  <2> HIDE DEF fits
  <2>3. PICK front \in Seq(Byte), back \in Seq(Byte) :
            /\ front = SubSeq(bytes, 1, fits) /\ back = SubSeq(bytes, fits + 1, Len(bytes))
            /\ front \o back = bytes /\ Len(front) = fits
    BY <2>2, CutJoins
  <2>4. PICK last : last = NwBufWrite(tail, front)
    OBVIOUS
  <2>5. last \in Buf /\ last.data = tail.data \o front
    <3>1. tail.data \o front \in Seq(Byte)
      BY <2>2, ConcatProperties
    <3>2. tail.wpos + Len(front) \in 0..BufSize
      BY <2>2, <2>3
    <3>3. last = [data |-> tail.data \o front, wpos |-> tail.wpos + Len(front)]
      BY <2>4 DEF NwBufWrite
    <3> QED
      BY <3>1, <3>2, <3>3 DEF Buf
  <2>6. PICK new \in Seq(Buf) : new = NwBufAlloc(back) /\ Pending(new) = back
    BY AllocIs
  <2>7. NwBufListWrite(list, bytes) = (init \o <<last>>) \o new
    BY <1>2, <2>1, <2>3, <2>4, <2>6 DEF NwBufListWrite, fits
  <2>8. <<last>> \in Seq(Buf) /\ Pending(<<last>>) = last.data
        /\ <<tail>> \in Seq(Buf) /\ Pending(<<tail>>) = tail.data
    BY <2>5, PendingFew
  <2>9. /\ init \o <<last>> \in Seq(Buf) /\ Pending(init \o <<last>>) = Pending(init) \o last.data
        /\ Pending(list) = Pending(init) \o tail.data
    <3>1. PICK x \in Seq(Buf) : x = <<last>> /\ Pending(x) = last.data
      BY <2>8
    <3>2. PICK y \in Seq(Buf) : y = <<tail>> /\ Pending(y) = tail.data
      BY <2>8
    <3>3. init \o x \in Seq(Buf) /\ Pending(init \o x) = Pending(init) \o Pending(x)
      BY PendingJoined
    <3>4. Pending(init \o y) = Pending(init) \o Pending(y)
      BY PendingJoined
    <3> QED
      BY <2>1, <3>1, <3>2, <3>3, <3>4
  <2>10. /\ (init \o <<last>>) \o new \in Seq(Buf)
        /\ Pending((init \o <<last>>) \o new) = (Pending(init) \o last.data) \o back
    BY <2>6, <2>9, PendingJoined
  <2>11. (Pending(init) \o (tail.data \o front)) \o back = (Pending(init) \o tail.data) \o (front \o back)
    <3>1. PICK p \in Seq(Byte) : p = Pending(init)
      BY PendingIs
    <3>2. PICK d \in Seq(Byte) : d = tail.data
      BY <2>2
    <3>3. p \o (d \o front) = (p \o d) \o front
      BY JoinAgain, Zenon
    <3>4. PICK e \in Seq(Byte) : e = p \o d
      BY ConcatProperties
    <3>5. (e \o front) \o back = e \o (front \o back)
      BY JoinAgain, Zenon
    <3> QED
      BY <3>1, <3>2, <3>3, <3>4, <3>5
  <2> QED
    BY <2>3, <2>5, <2>7, <2>9, <2>10, <2>11
<1> QED
  BY <1>1, <1>2

-----------------------------------------------------------------------------
(* nw_buf_list_shift *)

PendingTo(list, k) == Pending(SubSeq(list, 1, k))

\* The bytes of the first k buffers are those of the first k - 1, and those of buffer k.
LEMMA PrefixGrows ==
    ASSUME NEW list \in Seq(Buf)
    PROVE  /\ PendingTo(list, 0) = <<>> /\ PendingTo(list, Len(list)) = Pending(list)
           /\ \A k \in 0..Len(list) : PendingTo(list, k) \in Seq(Byte)
           /\ \A k \in 1..Len(list) : /\ list[k] \in Buf /\ list[k].data \in Seq(Byte)
                                      /\ PendingTo(list, k) = PendingTo(list, k - 1) \o list[k].data
<1>1. Len(list) \in Nat /\ \A k \in 1..Len(list) : list[k] \in Buf
  BY LenProperties, ElementOfSeq
<1>2. \A k \in 0..Len(list) : SubSeq(list, 1, k) \in Seq(Buf)
  <2>1. \A k \in 0..Len(list) : \A i \in 1..k : list[i] \in Buf
    BY <1>1
  <2> QED
    BY <1>1, <2>1, SubSeqProperties
<1>3. SubSeq(list, 1, 0) = <<>> /\ SubSeq(list, 1, Len(list)) = list
  BY SubSeqEmpty, SubSeqFull
<1>4. PendingTo(list, 0) = <<>> /\ PendingTo(list, Len(list)) = Pending(list)
  BY <1>3, PendingFew DEF PendingTo
<1>5. \A k \in 0..Len(list) : PendingTo(list, k) \in Seq(Byte)
  BY <1>2, PendingIs DEF PendingTo
<1>6. ASSUME NEW k \in 1..Len(list)
      PROVE  /\ list[k] \in Buf /\ list[k].data \in Seq(Byte)
             /\ PendingTo(list, k) = PendingTo(list, k - 1) \o list[k].data
  <2>1. 1 \in 1..Len(list) /\ k \in 1..Len(list) /\ k \in 0..Len(list) /\ k - 1 \in 0..Len(list)
    BY <1>1
  <2>2. PICK b \in Buf : b = list[k]
    BY <1>1
  <2>3. PICK a \in Seq(Buf) : a = SubSeq(list, 1, k - 1)
    BY <1>2, <2>1
  <2>4. PICK t \in Seq(Buf) : t = <<b>> /\ Pending(t) = b.data
    BY PendingFew
  <2>5. SubSeq(list, 1, k) = SubSeq(list, 1, k - 1) \o <<list[k]>>
    BY <2>1, SubSeqRecursiveSecond
  <2>6. SubSeq(list, 1, k) = a \o t
    BY <2>2, <2>3, <2>4, <2>5
  <2>7. Pending(a \o t) = Pending(a) \o Pending(t)
    BY PendingJoined
  <2>8. b.data \in Seq(Byte)
    BY DEF Buf
  <2> QED
    BY <2>2, <2>3, <2>4, <2>6, <2>7, <2>8 DEF PendingTo
<1> QED
  BY <1>4, <1>5, <1>6

\* What is left of a buffer
LEMMA ShiftIs ==
    ASSUME NEW list \in Seq(Buf), NEW n \in Nat, NEW k \in 1..Len(list)
    PROVE  /\ NwBufShift(list, n, k) \in Buf
           /\ NwBufShift(list, n, k).data
                = SubSeq(list[k].data, Minus(n, Len(PendingTo(list, k - 1))) + 1, Len(list[k].data))
<1>1. PICK b \in Buf : b = list[k]
  BY PrefixGrows
<1>2. b.data \in Seq(Byte) /\ Len(b.data) \in Nat /\ \A i \in 1..Len(b.data) : b.data[i] \in Byte
  <2>1. b.data \in Seq(Byte)
    BY DEF Buf
  <2> QED
    BY <2>1, LenProperties, ElementOfSeq
<1>3. PICK m \in Nat : m = Minus(n, Len(PendingTo(list, k - 1)))
  <2>1. k - 1 \in 0..Len(list)
    BY LenProperties
  <2>2. PendingTo(list, k - 1) \in Seq(Byte)
    BY <2>1, PrefixGrows
  <2>3. PICK l \in Nat : l = Len(PendingTo(list, k - 1))
    BY <2>2, LenProperties
  <2>4. Minus(n, l) \in Nat
    BY DEF Minus
  <2> QED
    BY <2>3, <2>4
<1>4. SubSeq(b.data, m + 1, Len(b.data)) \in Seq(Byte)
  <2>1. m + 1 \in Int /\ Len(b.data) \in Int /\ \A i \in m + 1 .. Len(b.data) : b.data[i] \in Byte
    BY <1>2
  <2> QED
    BY <2>1, SubSeqProperties
<1>5. NwBufShift(list, n, k) = [b EXCEPT !.data = SubSeq(b.data, m + 1, Len(b.data))]
  BY <1>1, <1>3 DEF NwBufShift, PendingTo
<1>6. PICK d \in Seq(Byte) : d = SubSeq(b.data, m + 1, Len(b.data))
  BY <1>4
<1>7. [b EXCEPT !.data = d] \in Buf /\ [b EXCEPT !.data = d].data = d
  BY DEF Buf
<1> QED
  BY <1>1, <1>3, <1>5, <1>6, <1>7

Shifted(s, b) == IF b.data = <<>> THEN s ELSE Append(s, b)

\* The loop over the buffers
LEMMA ListShiftRuns ==
    ASSUME NEW list \in Seq(Buf), NEW n \in Nat
    PROVE  \E f \in [0..Len(list) -> Seq(Buf)] :
              /\ f[0] = <<>> /\ NwBufListShift(list, n) = f[Len(list)]
              /\ \A k \in 1..Len(list) : f[k] = Shifted(f[k - 1], NwBufShift(list, n, k))
<1>1. Len(list) \in Nat /\ \A k \in 1..Len(list) : NwBufShift(list, n, k) \in Buf
  BY ShiftIs, LenProperties
<1>2. \A s \in Seq(Buf), b \in Buf : Shifted(s, b) \in Seq(Buf)
  BY AppendProperties DEF Shifted
<1>3. PICK F \in [(1..Len(list)) \X Seq(Buf) -> Seq(Buf)] :
          \A k \in 1..Len(list), x \in Seq(Buf) : F[<<k, x>>] = Shifted(x, NwBufShift(list, n, k))
  <2> DEFINE F == [p \in (1..Len(list)) \X Seq(Buf) |-> Shifted(p[2], NwBufShift(list, n, p[1]))]
  <2>1. F \in [(1..Len(list)) \X Seq(Buf) -> Seq(Buf)]
    BY <1>1, <1>2
  <2>2. \A k \in 1..Len(list), x \in Seq(Buf) : F[<<k, x>>] = Shifted(x, NwBufShift(list, n, k))
    OBVIOUS
  <2> HIDE DEF F
  <2> QED
    BY <2>1, <2>2
<1>4. PICK e \in Seq(Buf) : e = <<>>
  BY EmptySeq
<1>5. PICK f \in [0..Len(list) -> Seq(Buf)] : IsLoop(f, F, Len(list), e)
  BY <1>1, LoopRuns
<1>6. \A k \in 1..Len(list) : f[k] = Shifted(f[k - 1], NwBufShift(list, n, k))
  <2>1. \A k \in 1..Len(list) : k - 1 \in 0..Len(list)
    BY <1>1
  <2> QED
    BY <1>3, <1>5, <2>1 DEF IsLoop
<1>7. f[0] = <<>>
  BY <1>4, <1>5 DEF IsLoop
<1>8. \A k \in 0..Len(list) : f[k] = IF k = 0 THEN <<>>
                                     ELSE IF NwBufShift(list, n, k).data = <<>> THEN f[k - 1]
                                     ELSE Append(f[k - 1], NwBufShift(list, n, k))
  <2>1. \A k \in 0..Len(list) : k = 0 \/ k \in 1..Len(list)
    BY <1>1
  <2> QED
    BY <1>6, <1>7, <2>1 DEF Shifted
<1>9. f = [k \in 0..Len(list) |-> IF k = 0 THEN <<>>
                                  ELSE IF NwBufShift(list, n, k).data = <<>> THEN f[k - 1]
                                  ELSE Append(f[k - 1], NwBufShift(list, n, k))]
  <2>1. f = [k \in 0..Len(list) |-> f[k]]
    BY <1>5
  <2> QED
    BY <1>8, <2>1
<1>10. PICK g : /\ g = [k \in 0..Len(list) |-> IF k = 0 THEN <<>>
                                                ELSE IF NwBufShift(list, n, k).data = <<>> THEN g[k - 1]
                                                ELSE Append(g[k - 1], NwBufShift(list, n, k))]
                /\ NwBufListShift(list, n) = g[Len(list)]
  BY <1>9, Zenon DEF NwBufListShift
<1>11. \A k \in 0..Len(list) : g[k] = IF k = 0 THEN <<>> ELSE Shifted(g[k - 1], NwBufShift(list, n, k))
  BY <1>10 DEF Shifted
<1>12. \A k \in 0..Len(list) : g[k] = f[k]
  <2> DEFINE S == {k \in 0..Len(list) : g[k] = f[k]}
  <2>1. 0 \in S
    BY <1>1, <1>7, <1>11
  <2>2. \A k \in 1..Len(list) : k - 1 \in S => k \in S
    <3>1. \A k \in 1..Len(list) : k \in 0..Len(list) /\ k # 0
      BY <1>1
    <3> QED
      BY <1>6, <1>11, <3>1
  <2>3. \A k \in 0..Len(list) : k \in S
    <3> HIDE DEF S
    <3> QED
      BY <1>1, <2>1, <2>2, Inductive
  <2> QED
    BY <2>3
<1>13. NwBufListShift(list, n) = f[Len(list)]
  BY <1>1, <1>10, <1>12
<1> QED
  BY <1>6, <1>7, <1>13

\* The first n bytes are gone, and no others.
LEMMA ListShiftIs ==
    ASSUME NEW list \in Seq(Buf), NEW n \in Nat
    PROVE  /\ NwBufListShift(list, n) \in Seq(Buf)
           /\ Pending(NwBufListShift(list, n)) = SubSeq(Pending(list), n + 1, Len(Pending(list)))
<1> DEFINE Rest(s) == SubSeq(s, n + 1, Len(s))
<1>1. PICK f \in [0..Len(list) -> Seq(Buf)] :
          /\ f[0] = <<>> /\ NwBufListShift(list, n) = f[Len(list)]
          /\ \A k \in 1..Len(list) : f[k] = Shifted(f[k - 1], NwBufShift(list, n, k))
  BY ListShiftRuns
<1>2. Len(list) \in Nat
  BY LenProperties
<1>3. \A k \in 0..Len(list) : Pending(f[k]) = Rest(PendingTo(list, k))
  <2> DEFINE S == {k \in 0..Len(list) : Pending(f[k]) = Rest(PendingTo(list, k))}
  <2>1. 0 \in S
    <3>1. PICK e \in Seq(Byte) : e = <<>> /\ Len(e) = 0
      BY EmptySeq
    <3>2. PendingTo(list, 0) = e /\ Pending(f[0]) = e
      BY <1>1, <3>1, PrefixGrows, PendingFew
    <3>3. SubSeq(e, n + 1, 0) = <<>>
      BY SubSeqEmpty
    <3>4. 0 \in 0..Len(list)
      BY <1>2
    <3> QED
      BY <3>1, <3>2, <3>3, <3>4
  <2>2. ASSUME NEW k \in 1..Len(list), k - 1 \in S PROVE k \in S
    <3>1. k \in 0..Len(list) /\ k - 1 \in 0..Len(list)
      BY <1>2
    <3>2. PICK b \in Buf : b = NwBufShift(list, n, k)
      BY ShiftIs
    <3>3. PICK d \in Seq(Byte) : d = list[k].data
      BY PrefixGrows
    <3>4. PICK p \in Seq(Byte) : p = PendingTo(list, k - 1) /\ PendingTo(list, k) = p \o d
      BY <3>1, <3>3, PrefixGrows
    <3>5. PICK s \in Seq(Buf) : s = f[k - 1] /\ f[k] = Shifted(s, b) /\ Pending(s) = Rest(p)
      BY <1>1, <2>2, <3>1, <3>2, <3>4
    <3>6. b.data = SubSeq(d, Minus(n, Len(p)) + 1, Len(d))
      BY <3>2, <3>3, <3>4, ShiftIs
    <3>7. Pending(Shifted(s, b)) = Pending(s) \o b.data
      <4>1. PICK q \in Seq(Byte) : q = Pending(s)
        BY PendingIs
      <4>2. CASE b.data = <<>>
        <5>1. q \o <<>> = q
          BY ConcatEmptySeq
        <5> QED
          BY <4>1, <4>2, <5>1 DEF Shifted
      <4>3. CASE b.data # <<>>
        <5>1. PICK t \in Seq(Buf) : t = <<b>> /\ Pending(t) = b.data
          BY PendingFew
        <5>2. Append(s, b) = s \o <<b>>
          BY AppendIsConcat
        <5>3. Pending(s \o t) = Pending(s) \o Pending(t)
          BY PendingJoined
        <5> QED
          BY <4>3, <5>1, <5>2, <5>3 DEF Shifted
      <4> QED
        BY <4>2, <4>3
    <3>8. Rest(p) \o SubSeq(d, Minus(n, Len(p)) + 1, Len(d)) = Rest(p \o d)
      BY FrontOff
    <3> QED
      BY <3>1, <3>4, <3>5, <3>6, <3>7, <3>8
  <2>3. \A k \in 0..Len(list) : k \in S
    <3> HIDE DEF S
    <3> QED
      BY <1>2, <2>1, <2>2, Inductive
  <2> QED
    BY <2>3
<1>4. Len(list) \in 0..Len(list) /\ PendingTo(list, Len(list)) = Pending(list)
  <2>1. Len(list) \in 0..Len(list)
    BY <1>2
  <2>2. PendingTo(list, Len(list)) = Pending(list)
    BY PrefixGrows
  <2> QED
    BY <2>1, <2>2
<1>5. Pending(f[Len(list)]) = Rest(PendingTo(list, Len(list))) /\ f[Len(list)] \in Seq(Buf)
  BY <1>3, <1>4
<1> QED
  BY <1>1, <1>4, <1>5

-----------------------------------------------------------------------------
(* The stream of a connection *)

SizesOK(P) == Len(P) \in Nat /\ \A n \in 1..Len(P) : P[n].size \in Nat \ {0}
BytesOf(P, n) == [i \in 1 .. P[n].size |-> <<n, i>>]

\* The byte after the byte b, and the bytes of the packages d + 1 .. m of P but for some at
\* the front
NextByte(P, b) == IF b[2] < P[b[1]].size THEN <<b[1], b[2] + 1>> ELSE <<b[1] + 1, 1>>
Follows(P, s) == \A i \in 1 .. Len(s) - 1 : s[i + 1] = NextByte(P, s[i])
Stream(P, s, d, m) ==
    /\ s \in Seq(Byte) /\ d \in Nat /\ m \in Nat /\ d <= m /\ m <= Len(P)
    /\ s = <<>> => d = m
    /\ s # <<>> => s[1] = <<d + 1, 1>> /\ s[Len(s)] = <<m, P[m].size>>
    /\ \A i \in 1..Len(s) : s[i][1] <= m
    /\ Follows(P, s)

\* The bytes of a package
LEMMA BytesAre ==
    ASSUME NEW P, SizesOK(P), NEW n \in 1..Len(P)
    PROVE  /\ BytesOf(P, n) \in Seq(Byte) /\ Len(BytesOf(P, n)) = P[n].size
           /\ \A i \in 1 .. P[n].size : BytesOf(P, n)[i] = <<n, i>>
<1>1. PICK z \in Nat : z = P[n].size
  BY DEF SizesOK
<1>2. n \in Nat /\ \A i \in 1..z : <<n, i>> \in Byte
  BY DEF SizesOK, Byte
<1>3. PICK b : b = [i \in 1..z |-> <<n, i>>]
  OBVIOUS
<1>4. b \in Seq(Byte) /\ Len(b) = z /\ \A i \in 1..z : b[i] = <<n, i>>
  BY <1>2, <1>3
<1> QED
  BY <1>1, <1>3, <1>4 DEF BytesOf

\* A connection begins with nothing.
LEMMA StreamBegins == ASSUME NEW P, SizesOK(P) PROVE Stream(P, <<>>, 0, 0)
<1>1. PICK e \in Seq(Byte) : e = <<>> /\ Len(e) = 0
  BY EmptySeq
<1>2. /\ e \in Seq(Byte) /\ 0 \in Nat /\ 0 <= 0 /\ 0 <= Len(P)
      /\ \A i \in 1..Len(e) : FALSE
      /\ \A i \in 1 .. Len(e) - 1 : FALSE
  BY <1>1 DEF SizesOK
<1>3. Stream(P, e, 0, 0)
  BY <1>1, <1>2 DEF Stream, Follows
<1> QED
  BY <1>1, <1>3

\* A package is sent.
LEMMA StreamGrows ==
    ASSUME NEW P, SizesOK(P), NEW s, NEW d, NEW m, Stream(P, s, d, m), m < Len(P)
    PROVE  Stream(P, s \o BytesOf(P, m + 1), d, m + 1)
<1>1. /\ s \in Seq(Byte) /\ Len(s) \in Nat /\ d \in Nat /\ m \in Nat /\ d <= m /\ m + 1 \in 1..Len(P)
      /\ Len(P) \in Nat
  BY LenProperties DEF Stream, SizesOK
<1>2. PICK t \in Seq(Byte) : t = BytesOf(P, m + 1)
  BY <1>1, BytesAre
<1>3. PICK z \in Nat \ {0} : z = P[m + 1].size /\ Len(t) = z /\ \A i \in 1..z : t[i] = <<m + 1, i>>
  BY <1>1, <1>2, BytesAre DEF SizesOK
<1>4. PICK c \in Seq(Byte) : /\ c = s \o t /\ Len(c) = Len(s) + z
                             /\ \A i \in 1 .. Len(s) + z : c[i] = IF i <= Len(s) THEN s[i] ELSE t[i - Len(s)]
  <2>1. PICK c : c = s \o t
    OBVIOUS
  <2>2. /\ s \o t \in Seq(Byte) /\ Len(s \o t) = Len(s) + Len(t)
        /\ \A i \in 1 .. Len(s) + Len(t) : (s \o t)[i] = IF i <= Len(s) THEN s[i] ELSE t[i - Len(s)]
    BY <1>1, ConcatProperties
  <2>3. /\ c \in Seq(Byte) /\ Len(c) = Len(s) + Len(t)
        /\ \A i \in 1 .. Len(s) + Len(t) : c[i] = IF i <= Len(s) THEN s[i] ELSE t[i - Len(s)]
    BY <2>1, <2>2
  <2> QED
    BY <1>3, <2>1, <2>3
<1>5. ASSUME NEW i \in Len(s) + 1 .. Len(s) + z PROVE c[i] = <<m + 1, i - Len(s)>>
  <2>1. i \in 1 .. Len(s) + z /\ ~(i <= Len(s)) /\ i - Len(s) \in 1..z
    BY <1>1, <1>3
  <2>2. c[i] = t[i - Len(s)]
    BY <1>4, <2>1
  <2> QED
    BY <1>3, <2>1, <2>2
<1>6. c # <<>> /\ c[Len(c)] = <<m + 1, z>>
  <2>1. Len(c) \in Len(s) + 1 .. Len(s) + z /\ Len(c) - Len(s) = z
    BY <1>1, <1>4
  <2>2. c # <<>>
    BY <2>1, <1>1, EmptySeq
  <2> QED
    BY <1>5, <2>1, <2>2
<1>7. c[1] = <<d + 1, 1>>
  <2>1. CASE s = <<>>
    <3>1. Len(s) = 0 /\ d = m
      BY <2>1, EmptySeq DEF Stream
    <3>2. 1 \in Len(s) + 1 .. Len(s) + z /\ 1 - Len(s) = 1
      BY <3>1
    <3> QED
      BY <1>5, <3>1, <3>2
  <2>2. CASE s # <<>>
    <3>1. Len(s) # 0
      BY <1>1, <2>2, EmptySeq
    <3>2. 1 \in 1 .. Len(s) + z /\ 1 <= Len(s)
      BY <1>1, <3>1
    <3> QED
      BY <1>4, <2>2, <3>2 DEF Stream
  <2> QED
    BY <2>1, <2>2
<1>8. \A i \in 1..Len(c) : c[i][1] <= m + 1
  <2> TAKE i \in 1..Len(c)
  <2>1. CASE i <= Len(s)
    <3>1. c[i] = s[i] /\ i \in 1..Len(s)
      BY <1>1, <1>4, <2>1
    <3>2. s[i][1] <= m /\ s[i] \in Byte
      BY <1>1, <3>1, ElementOfSeq DEF Stream
    <3>3. s[i][1] \in Nat
      BY <3>2 DEF Byte
    <3> QED
      BY <1>1, <3>1, <3>2, <3>3
  <2>2. CASE ~(i <= Len(s))
    <3>1. c[i] = <<m + 1, i - Len(s)>>
      <4>1. i \in Len(s) + 1 .. Len(s) + z
        BY <1>1, <1>4, <2>2
      <4> QED
        BY <1>5, <4>1
    <3> QED
      BY <1>1, <3>1
  <2> QED
    BY <2>1, <2>2
<1>9. Follows(P, c)
  <2> SUFFICES ASSUME NEW i \in 1 .. Len(c) - 1 PROVE c[i + 1] = NextByte(P, c[i])
    BY DEF Follows
  <2>1. CASE i + 1 <= Len(s)
    <3>1. c[i] = s[i] /\ c[i + 1] = s[i + 1] /\ i \in 1 .. Len(s) - 1
      BY <1>1, <1>4, <2>1
    <3> QED
      BY <3>1 DEF Stream, Follows
  <2>2. CASE i = Len(s)
    <3>1. c[i] = s[Len(s)] /\ s # <<>> /\ i + 1 \in Len(s) + 1 .. Len(s) + z /\ i + 1 - Len(s) = 1
      BY <1>1, <1>4, <2>2, EmptySeq
    <3>2. c[i] = <<m, P[m].size>> /\ c[i + 1] = <<m + 1, 1>>
      <4>1. c[i] = <<m, P[m].size>>
        BY <3>1 DEF Stream
      <4>2. PICK j \in Len(s) + 1 .. Len(s) + z : j = i + 1 /\ j - Len(s) = 1
        BY <3>1
      <4>3. c[j] = <<m + 1, j - Len(s)>>
        BY <1>5
      <4> QED
        BY <4>1, <4>2, <4>3
    <3>3. ~(P[m].size < P[m].size)
      <4>1. m # 0
        <5>1. s[1][1] <= m /\ s[1] = <<d + 1, 1>>
          BY <1>1, <2>2, <3>1 DEF Stream
        <5> QED
          BY <1>1, <5>1
      <4>2. P[m].size \in Nat
        BY <1>1, <4>1 DEF SizesOK
      <4> QED
        BY <4>2
    <3> QED
      BY <3>2, <3>3 DEF NextByte
  <2>3. CASE i > Len(s)
    <3>1. i \in Len(s) + 1 .. Len(s) + z /\ i + 1 \in Len(s) + 1 .. Len(s) + z
      BY <1>1, <1>4, <2>3
    <3>2. PICK j \in 1..z : j = i - Len(s) /\ j < z /\ (i + 1) - Len(s) = j + 1
      <4>1. i - Len(s) \in 1..z /\ i - Len(s) < z /\ (i + 1) - Len(s) = (i - Len(s)) + 1
        BY <1>1, <1>4, <2>3
      <4> QED
        BY <4>1
    <3>3. c[i] = <<m + 1, j>> /\ c[i + 1] = <<m + 1, j + 1>>
      BY <1>5, <3>1, <3>2
    <3> QED
      BY <1>3, <3>2, <3>3 DEF NextByte
  <2> QED
    BY <1>1, <2>1, <2>2, <2>3
<1>10. Stream(P, c, d, m + 1)
  BY <1>1, <1>3, <1>6, <1>7, <1>8, <1>9 DEF Stream
<1> QED
  BY <1>2, <1>4, <1>10

\* The first package of the stream is whole, if there are as many bytes as it has.
LEMMA StreamFront ==
    ASSUME NEW P, SizesOK(P), NEW s, NEW d, NEW m, Stream(P, s, d, m), s # <<>>
    PROVE  /\ d + 1 \in 1..Len(P) /\ d + 1 <= m /\ s[1] = <<d + 1, 1>>
           /\ \A i \in 1 .. P[d + 1].size : i <= Len(s) => s[i] = <<d + 1, i>>
<1>1. /\ s \in Seq(Byte) /\ Len(s) \in Nat /\ Len(s) # 0 /\ d \in Nat /\ m \in Nat /\ m <= Len(P) /\ Len(P) \in Nat
  BY LenProperties, EmptySeq DEF Stream, SizesOK
<1>2. s[1] = <<d + 1, 1>> /\ s[1][1] <= m
  BY <1>1 DEF Stream
<1>3. d + 1 \in 1..Len(P) /\ d + 1 <= m
  BY <1>1, <1>2
<1>4. PICK z \in Nat \ {0} : z = P[d + 1].size
  BY <1>3 DEF SizesOK
<1> DEFINE S == {i \in Nat : i + 1 <= z /\ i + 1 <= Len(s) => s[i + 1] = <<d + 1, i + 1>>}
<1>5. 0 \in S
  BY <1>2
<1>6. ASSUME NEW i \in Nat, i \in S PROVE i + 1 \in S
  <2> SUFFICES ASSUME (i + 1) + 1 <= z, (i + 1) + 1 <= Len(s) PROVE s[(i + 1) + 1] = <<d + 1, (i + 1) + 1>>
    OBVIOUS
  <2>1. i + 1 \in 1 .. Len(s) - 1 /\ i + 1 < z
    BY <1>1
  <2>2. s[i + 1] = <<d + 1, i + 1>>
    BY <1>1, <1>6, <2>1
  <2>3. s[(i + 1) + 1] = NextByte(P, s[i + 1])
    BY <2>1 DEF Stream, Follows
  <2> QED
    BY <1>4, <2>1, <2>2, <2>3 DEF NextByte
<1>7. Nat \subseteq S
  <2> HIDE DEF S
  <2> QED
    BY <1>5, <1>6, SetInduction
<1>8. ASSUME NEW i \in 1..z, i <= Len(s) PROVE s[i] = <<d + 1, i>>
  <2>1. PICK j \in Nat : i = j + 1
    <3>1. i - 1 \in Nat /\ i = (i - 1) + 1
      OBVIOUS
    <3> QED
      BY <3>1
  <2>2. j \in S
    BY <1>7
  <2> QED
    BY <1>8, <2>1, <2>2
<1> QED
  BY <1>2, <1>3, <1>4, <1>8

\* Behind the first package the stream goes on with the next.
LEMMA StreamRest ==
    ASSUME NEW P, SizesOK(P), NEW s, NEW d, NEW m, Stream(P, s, d, m), s # <<>>, P[d + 1].size <= Len(s)
    PROVE  Stream(P, SubSeq(s, P[d + 1].size + 1, Len(s)), d + 1, m)
<1>1. /\ s \in Seq(Byte) /\ Len(s) \in Nat /\ Len(s) # 0 /\ d \in Nat /\ m \in Nat /\ m <= Len(P)
      /\ \A i \in 1..Len(s) : s[i][1] <= m
  BY LenProperties, EmptySeq DEF Stream
<1>2. d + 1 \in 1..Len(P) /\ d + 1 <= m
  BY StreamFront
<1>3. PICK z \in Nat \ {0} : z = P[d + 1].size
  BY <1>2 DEF SizesOK
<1>4. z \in 0..Len(s) /\ s[z] = <<d + 1, z>>
  <2>1. z \in 1 .. P[d + 1].size /\ z <= Len(s)
    BY <1>3
  <2>2. s[z] = <<d + 1, z>>
    BY <2>1, StreamFront
  <2> QED
    BY <1>1, <2>1, <2>2
<1>5. PICK c : c = SubSeq(s, z + 1, Len(s))
  OBVIOUS
<1>6. c \in Seq(Byte) /\ Len(c) = Len(s) - z /\ \A i \in 1 .. Len(s) - z : c[i] = s[z + i]
  <2>1. /\ SubSeq(s, z + 1, Len(s)) \in Seq(Byte) /\ Len(SubSeq(s, z + 1, Len(s))) = Len(s) - z
        /\ \A i \in 1 .. Len(s) - z : SubSeq(s, z + 1, Len(s))[i] = s[z + i]
    BY <1>1, <1>4, CutJoins
  <2> QED
    BY <1>5, <2>1
<1>7. CASE c = <<>>
  <2>1. Len(s) = z /\ Len(c) = 0
    BY <1>1, <1>4, <1>6, <1>7, EmptySeq
  <2>2. s[Len(s)] = <<m, P[m].size>>
    BY DEF Stream
  <2>3. m = d + 1
    BY <1>4, <2>1, <2>2
  <2>4. Follows(P, c) /\ \A i \in 1..Len(c) : c[i][1] <= m
    BY <2>1 DEF Follows
  <2> QED
    BY <1>1, <1>2, <1>3, <1>5, <1>6, <1>7, <2>3, <2>4 DEF Stream
<1>8. CASE c # <<>>
  <2>1. Len(c) # 0 /\ Len(c) \in Nat
    BY <1>6, <1>8, EmptySeq, LenProperties
  <2>2. c[1] = <<(d + 1) + 1, 1>>
    <3>1. c[1] = s[z + 1] /\ z \in 1 .. Len(s) - 1
      <4>1. 1 \in 1 .. Len(s) - z /\ z \in 1 .. Len(s) - 1
        BY <1>1, <1>4, <1>6, <2>1
      <4> QED
        BY <1>6, <4>1
    <3>2. s[z + 1] = NextByte(P, s[z])
      BY <3>1 DEF Stream, Follows
    <3> QED
      BY <1>3, <1>4, <3>1, <3>2 DEF NextByte
  <2>3. c[Len(c)] = <<m, P[m].size>>
    <3>1. Len(c) \in 1 .. Len(s) - z /\ z + Len(c) = Len(s)
      <4>1. Len(c) = Len(s) - z /\ Len(s) \in Nat
        BY <1>1, <1>6
      <4> QED
        BY <2>1, <4>1
    <3>2. c[Len(c)] = s[Len(s)]
      BY <1>6, <3>1
    <3> QED
      BY <3>2 DEF Stream
  <2>4. ASSUME NEW i \in 1..Len(c) PROVE c[i][1] <= m
    <3>1. i \in 1 .. Len(s) - z /\ z + i \in 1..Len(s)
      BY <1>1, <1>4, <1>6
    <3> QED
      BY <1>1, <1>6, <3>1
  <2>5. Follows(P, c)
    <3> SUFFICES ASSUME NEW i \in 1 .. Len(c) - 1 PROVE c[i + 1] = NextByte(P, c[i])
      BY DEF Follows
    <3>1. i \in 1 .. Len(s) - z /\ i + 1 \in 1 .. Len(s) - z /\ z + i \in 1 .. Len(s) - 1
          /\ z + (i + 1) = (z + i) + 1
      BY <1>1, <1>4, <1>6
    <3>2. s[(z + i) + 1] = NextByte(P, s[z + i])
      BY <3>1 DEF Stream, Follows
    <3>3. c[i] = s[z + i] /\ c[i + 1] = s[z + (i + 1)]
      BY <1>6, <3>1
    <3> QED
      BY <3>1, <3>2, <3>3
  <2>6. d + 1 \in Nat /\ c \in Seq(Byte)
    BY <1>1, <1>6
  <2>7. Stream(P, c, d + 1, m)
    BY <1>1, <1>2, <1>8, <2>2, <2>3, <2>4, <2>5, <2>6 DEF Stream
  <2> QED
    BY <1>3, <1>5, <2>7
<1> QED
  BY <1>7, <1>8

-----------------------------------------------------------------------------
(* rpc_decode and decode_pkg *)

\* The packages decoded so far are the next ones, and what is left goes on from there.
DecodeOK(P, x, d, u, m) ==
    /\ x = [pkgs |-> x.pkgs, rest |-> x.rest, bad |-> FALSE]
    /\ x.pkgs \in Seq(Nat) /\ \A i \in 1..Len(x.pkgs) : x.pkgs[i] = d + i
    /\ x.rest \in Seq(Byte)
    /\ Stream(P, x.rest \o u, d + Len(x.pkgs), m)

\* One package is taken, if all of it is there.
LEMMA DecodeNextKeeps ==
    ASSUME SizesOK(talk.packages), NEW d \in Nat, NEW m, NEW u \in Seq(Byte), NEW x,
           DecodeOK(talk.packages, x, d, u, m)
    PROVE  DecodeOK(talk.packages, DecodeNext(x), d, u, m)
<1> DEFINE P == talk.packages
<1>1. PICK pkgs \in Seq(Nat) : pkgs = x.pkgs /\ Len(pkgs) \in Nat
  BY LenProperties DEF DecodeOK
<1>2. PICK t \in Seq(Byte) : t = x.rest /\ Len(t) \in Nat
  BY LenProperties DEF DecodeOK
<1>3. x = [pkgs |-> pkgs, rest |-> t, bad |-> FALSE]
  BY <1>1, <1>2 DEF DecodeOK
<1>4. PICK e \in Nat : e = d + Len(pkgs) /\ Stream(P, t \o u, e, m) /\ \A i \in 1..Len(pkgs) : pkgs[i] = d + i
  BY <1>1, <1>2 DEF DecodeOK
<1>5. CASE t = <<>>
  BY <1>3, <1>5 DEF DecodeNext
<1>6. CASE t # <<>>
  <2>1. PICK s : s = t \o u
    OBVIOUS
  <2>2. /\ t \o u \in Seq(Byte) /\ Len(t \o u) = Len(t) + Len(u) /\ Len(u) \in Nat
        /\ \A i \in 1 .. Len(t) + Len(u) : (t \o u)[i] = IF i <= Len(t) THEN t[i] ELSE u[i - Len(t)]
    BY ConcatProperties, LenProperties
  <2>3. /\ s \in Seq(Byte) /\ Len(s) = Len(t) + Len(u) /\ Len(u) \in Nat
        /\ \A i \in 1 .. Len(t) + Len(u) : s[i] = IF i <= Len(t) THEN t[i] ELSE u[i - Len(t)]
    BY <2>1, <2>2
  <2>4. Len(t) # 0
    BY <1>2, <1>6, EmptySeq
  <2>5. s # <<>>
    BY <1>2, <2>3, <2>4, EmptySeq
  <2>6. \A i \in 1..Len(t) : s[i] = t[i]
    BY <1>2, <2>3
  <2>7. Stream(P, s, e, m)
    BY <1>4, <2>1
  <2>8. /\ e + 1 \in 1..Len(P) /\ e + 1 <= m /\ s[1] = <<e + 1, 1>>
        /\ \A i \in 1 .. P[e + 1].size : i <= Len(s) => s[i] = <<e + 1, i>>
    BY <2>5, <2>7, StreamFront
  <2>9. PICK n \in 1..Len(P) : n = e + 1
    BY <2>8
  <2>10. PICK z \in Nat \ {0} : z = P[n].size
    BY DEF SizesOK
  <2>11. Head(t) = <<n, 1>>
    <3>1. Head(t) = t[1] /\ 1 \in 1..Len(t)
      BY <1>2, <2>4
    <3> QED
      BY <2>6, <2>8, <2>9, <3>1
  <2>12. CASE Len(t) < z
    <3>1. DecodeNext(x) = x
      <4>1. x.rest = t /\ x.bad = FALSE
        BY <1>3
      <4>2. Head(t)[1] = n /\ Head(t)[2] = 1 /\ Package(n).size = z
        BY <2>10, <2>11 DEF Package
      <4> QED
        BY <1>6, <2>12, <4>1, <4>2 DEF DecodeNext
    <3> QED
      BY <3>1
  <2>13. CASE ~(Len(t) < z)
    <3>1. z \in 0..Len(t) /\ z <= Len(s)
      BY <1>2, <2>3, <2>13
    <3>2. PICK f \in Seq(Byte) : f = SubSeq(t, 1, z) /\ Len(f) = z /\ \A i \in 1..z : f[i] = t[i]
      BY <3>1, CutJoins
    <3>3. PICK b \in Seq(Byte) : b = BytesOf(P, n) /\ Len(b) = z /\ \A i \in 1..z : b[i] = <<n, i>>
      BY <2>10, BytesAre
    <3>4. ASSUME NEW i \in 1..Len(f) PROVE f[i] = b[i]
      <4>1. i \in 1..z /\ i \in 1..Len(t) /\ i <= Len(s)
        BY <1>2, <3>1, <3>2
      <4>2. s[i] = <<n, i>>
        BY <2>8, <2>9, <2>10, <4>1
      <4> QED
        BY <2>6, <3>2, <3>3, <4>1, <4>2
    <3>5. f = b
      BY <3>2, <3>3, <3>4, SeqEqual
    <3>6. BytesOf(P, n) = Bytes(n)
      BY DEF BytesOf, Bytes, Package
    <3>7. PICK r \in Seq(Byte) : r = SubSeq(t, z + 1, Len(t))
      BY <3>1, CutJoins
    <3>8. DecodeNext(x) = [pkgs |-> Append(pkgs, n), rest |-> r, bad |-> FALSE]
      <4>1. x.rest = t /\ x.bad = FALSE /\ x.pkgs = pkgs
        BY <1>3
      <4>2. Head(t)[1] = n /\ Head(t)[2] = 1 /\ Package(n).size = z
        BY <2>10, <2>11 DEF Package
      <4>3. SubSeq(t, 1, z) = Bytes(n)
        BY <3>2, <3>3, <3>5, <3>6
      <4> QED
        BY <1>6, <2>13, <3>7, <4>1, <4>2, <4>3 DEF DecodeNext
    <3>9. r \o u = SubSeq(s, z + 1, Len(s))
      <4>1. SubSeq(t, z + 1, Len(t)) \o SubSeq(u, Minus(z, Len(t)) + 1, Len(u)) = SubSeq(t \o u, z + 1, Len(t \o u))
        BY FrontOff
      <4>2. Minus(z, Len(t)) = 0
        BY <1>2, <2>13, <3>1 DEF Minus
      <4>3. SubSeq(u, 0 + 1, Len(u)) = u
        BY SubSeqFull
      <4> QED
        BY <2>1, <3>7, <4>1, <4>2, <4>3
    <3>10. Stream(P, r \o u, n + 0, m)
      <4>1. P[e + 1].size <= Len(s)
        BY <2>9, <2>10, <3>1
      <4>2. Stream(P, SubSeq(s, P[e + 1].size + 1, Len(s)), e + 1, m)
        BY <2>5, <2>7, <4>1, StreamRest
      <4> QED
        BY <2>9, <2>10, <3>9, <4>2
    <3>11. PICK q \in Seq(Nat) : q = Append(pkgs, n) /\ Len(q) = Len(pkgs) + 1
                                /\ (\A i \in 1..Len(pkgs) : q[i] = pkgs[i]) /\ q[Len(pkgs) + 1] = n
      <4>1. n \in Nat
        BY <2>9
      <4>2. /\ Append(pkgs, n) \in Seq(Nat) /\ Len(Append(pkgs, n)) = Len(pkgs) + 1
            /\ \A i \in 1..Len(pkgs) : Append(pkgs, n)[i] = pkgs[i]
            /\ Append(pkgs, n)[Len(pkgs) + 1] = n
        BY <4>1, AppendProperties
      <4> QED
        BY <4>2
    <3>12. ASSUME NEW i \in 1..Len(q) PROVE q[i] = d + i
      <4>1. i \in 1..Len(pkgs) \/ i = Len(pkgs) + 1
        <5>1. PICK l \in Nat : l = Len(pkgs)
          BY <1>1
        <5>2. i \in 1 .. l + 1
          BY <3>11, <5>1
        <5>3. i \in 1..l \/ i = l + 1
          BY <5>2
        <5> QED
          BY <5>1, <5>3
      <4>2. CASE i \in 1..Len(pkgs)
        BY <1>4, <3>11, <4>2
      <4>3. CASE i = Len(pkgs) + 1
        BY <1>1, <1>4, <2>9, <3>11, <4>3
      <4> QED
        BY <4>1, <4>2, <4>3
    <3>13. n + 0 = d + Len(q)
      BY <1>1, <1>4, <2>9, <3>11
    <3> QED
      <4>1. PICK y : y = DecodeNext(x)
        OBVIOUS
      <4>2. y.pkgs = q /\ y.rest = r /\ y = [pkgs |-> y.pkgs, rest |-> y.rest, bad |-> FALSE]
        BY <3>8, <3>11, <4>1
      <4>3. Stream(P, y.rest \o u, d + Len(y.pkgs), m)
        BY <3>10, <3>13, <4>2
      <4>4. y.pkgs \in Seq(Nat) /\ y.rest \in Seq(Byte) /\ \A i \in 1..Len(y.pkgs) : y.pkgs[i] = d + i
        BY <3>12, <4>2
      <4> QED
        BY <4>1, <4>2, <4>3, <4>4 DEF DecodeOK
  <2> QED
    BY <2>12, <2>13
<1> QED
  BY <1>5, <1>6

\* All the packages that are there are taken.
LEMMA PkgDecodeIs ==
    ASSUME SizesOK(talk.packages), NEW d \in Nat, NEW m, NEW t \in Seq(Byte), NEW u \in Seq(Byte),
           Stream(talk.packages, t \o u, d, m)
    PROVE  DecodeOK(talk.packages, PkgDecode(t), d, u, m)
<1>1. PICK X : X = {x \in [pkgs : Seq(Nat), rest : Seq(Byte), bad : BOOLEAN] : DecodeOK(talk.packages, x, d, u, m)}
  OBVIOUS
<1>2. \A x \in X : DecodeOK(talk.packages, x, d, u, m)
  BY <1>1
<1>3. ASSUME NEW x, DecodeOK(talk.packages, x, d, u, m) PROVE x \in X
  <2>1. x = [pkgs |-> x.pkgs, rest |-> x.rest, bad |-> FALSE] /\ x.pkgs \in Seq(Nat) /\ x.rest \in Seq(Byte)
    BY <1>3 DEF DecodeOK
  <2>2. x \in [pkgs : Seq(Nat), rest : Seq(Byte), bad : BOOLEAN]
    <3>1. PICK q \in Seq(Nat), r \in Seq(Byte) : q = x.pkgs /\ r = x.rest
      BY <2>1
    <3>2. x = [pkgs |-> q, rest |-> r, bad |-> FALSE]
      BY <2>1, <3>1
    <3>3. [pkgs |-> q, rest |-> r, bad |-> FALSE] \in [pkgs : Seq(Nat), rest : Seq(Byte), bad : BOOLEAN]
      OBVIOUS
    <3> QED
      BY <3>2, <3>3
  <2> QED
    BY <1>1, <1>3, <2>2
<1>4. PICK a : a = [pkgs |-> <<>>, rest |-> t, bad |-> FALSE]
  OBVIOUS
<1>5. a \in X
  <2>1. PICK e \in Seq(Nat) : e = <<>> /\ Len(e) = 0
    BY EmptySeq
  <2>2. a.pkgs = e /\ a.rest = t /\ a = [pkgs |-> a.pkgs, rest |-> a.rest, bad |-> FALSE]
    BY <1>4, <2>1
  <2>3. d + Len(e) = d /\ \A i \in 1..Len(e) : e[i] = d + i
    BY <2>1
  <2>4. DecodeOK(talk.packages, a, d, u, m)
    BY <2>2, <2>3 DEF DecodeOK
  <2> QED
    BY <1>3, <2>4
<1>6. \A x \in X : DecodeNext(x) \in X
  BY <1>2, <1>3, DecodeNextKeeps
<1>7. PICK n \in Nat : n = Len(t)
  BY LenProperties
<1>8. PICK F \in [(1..n) \X X -> X] : \A k \in 1..n, x \in X : F[<<k, x>>] = DecodeNext(x)
  <2> DEFINE F == [p \in (1..n) \X X |-> DecodeNext(p[2])]
  <2>1. F \in [(1..n) \X X -> X]
    BY <1>6
  <2>2. \A k \in 1..n, x \in X : F[<<k, x>>] = DecodeNext(x)
    OBVIOUS
  <2> HIDE DEF F
  <2> QED
    BY <2>1, <2>2
<1>9. PICK f \in [0..n -> X] : IsLoop(f, F, n, a)
  BY <1>5, LoopRuns
<1>10. f[0] = a /\ \A k \in 1..n : f[k] = DecodeNext(f[k - 1])
  <2>1. \A k \in 1..n : k - 1 \in 0..n
    OBVIOUS
  <2> QED
    BY <1>8, <1>9, <2>1 DEF IsLoop
<1>11. \A k \in 0..n : f[k] = IF k = 0 THEN a ELSE DecodeNext(f[k - 1])
  <2>1. \A k \in 0..n : k = 0 \/ k \in 1..n
    OBVIOUS
  <2> QED
    BY <1>10, <2>1
<1>12. f = [k \in 0..Len(t) |-> IF k = 0 THEN [pkgs |-> <<>>, rest |-> t, bad |-> FALSE] ELSE DecodeNext(f[k - 1])]
  <2>1. f = [k \in 0..n |-> f[k]]
    OBVIOUS
  <2> QED
    BY <1>4, <1>7, <1>11, <2>1
<1>13. PICK g :
          /\ g = [k \in 0..Len(t) |-> IF k = 0 THEN [pkgs |-> <<>>, rest |-> t, bad |-> FALSE] ELSE DecodeNext(g[k - 1])]
          /\ PkgDecode(t) = g[Len(t)]
  BY <1>12, Zenon DEF PkgDecode
<1>14. \A k \in 0..n : g[k] = IF k = 0 THEN a ELSE DecodeNext(g[k - 1])
  BY <1>4, <1>7, <1>13
<1>15. \A k \in 0..n : g[k] = f[k]
  <2> DEFINE S == {k \in 0..n : g[k] = f[k]}
  <2>1. 0 \in S
    BY <1>10, <1>14
  <2>2. \A k \in 1..n : k - 1 \in S => k \in S
    <3>1. \A k \in 1..n : k \in 0..n /\ k # 0
      OBVIOUS
    <3> QED
      BY <1>10, <1>14, <3>1
  <2>3. \A k \in 0..n : k \in S
    <3> HIDE DEF S
    <3> QED
      BY <2>1, <2>2, Inductive
  <2> QED
    BY <2>3
<1>16. PkgDecode(t) = f[n] /\ f[n] \in X
  <2>1. n \in 0..n
    OBVIOUS
  <2> QED
    BY <1>7, <1>13, <1>15, <2>1
<1> QED
  BY <1>2, <1>16

-----------------------------------------------------------------------------
(* What is sent and what is received *)

Messages == [open : Seq(Byte), done : Seq(Seq(Byte))]
\* The messages in the first packages
IsMeaning(h) ==
    /\ h \in [0..Len(talk.packages) -> Messages]
    /\ h[0] = [open |-> <<>>, done |-> <<>>]
    /\ \A k \in 1..Len(talk.packages) : h[k] = MeantNext(h[k - 1], k)

\* http is left out: a body that arrives in pieces is cut (on_body).
NoHttp == \A t \in Talks : t.protocol # "http"

\* What a talk is
LEMMA TalkIs ==
    ASSUME NoHttp, talk \in Talks
    PROVE  /\ SizesOK(talk.packages) /\ talk.protocol \in {"rpc", "ws"} /\ ~IsHttp
           /\ \A n \in 1..Len(talk.packages) :
                 /\ Package(n).kind \in Kinds(talk.protocol, n)
                 /\ Content(n) = Bytes(n) /\ Bytes(n) = BytesOf(talk.packages, n) /\ Bytes(n) \in Seq(Byte)
<1>1. /\ talk.protocol \in {"rpc", "ws"} /\ ~IsHttp /\ talk.packages \in Seq([kind : STRING, size : Nat \ {0}])
      /\ \A n \in 1..Len(talk.packages) : Package(n).kind \in Kinds(talk.protocol, n)
  BY TalksAssumption DEF NoHttp, IsHttp, Package
<1>2. SizesOK(talk.packages)
  <2>1. \A n \in 1..Len(talk.packages) : talk.packages[n] \in [kind : STRING, size : Nat \ {0}]
    BY <1>1, ElementOfSeq
  <2> QED
    BY <1>1, <2>1, LenProperties DEF SizesOK
<1>3. \A n \in 1..Len(talk.packages) : Content(n) = Bytes(n) /\ Bytes(n) = BytesOf(talk.packages, n)
  BY <1>1 DEF Content, Bytes, BytesOf, Package
<1>4. \A n \in 1..Len(talk.packages) : Bytes(n) \in Seq(Byte)
  BY <1>2, <1>3, BytesAre
<1> QED
  BY <1>1, <1>2, <1>3, <1>4

\* One more package
LEMMA MeantNextIs ==
    ASSUME NoHttp, talk \in Talks, NEW x \in Messages, NEW n \in 1..Len(talk.packages)
    PROVE  MeantNext(x, n) \in Messages
<1>1. PICK o \in Seq(Byte), c \in Seq(Seq(Byte)) : x = [open |-> o, done |-> c]
  BY DEF Messages
<1>2. PICK b \in Seq(Byte) : b = Content(n)
  BY TalkIs
<1>3. PICK j \in Seq(Byte) : j = o \o b
  BY ConcatProperties
<1>4. Append(c, j) \in Seq(Seq(Byte))
  BY AppendProperties
<1>5. <<>> \in Seq(Byte)
  BY EmptySeq
<1>6. CASE Package(n).kind = "piece"
  <2>1. MeantNext(x, n) = [open |-> j, done |-> c]
    BY <1>1, <1>2, <1>3, <1>6 DEF MeantNext
  <2> QED
    BY <2>1 DEF Messages
<1>7. CASE Package(n).kind = "whole"
  <2>1. MeantNext(x, n) = [open |-> <<>>, done |-> Append(c, j)]
    BY <1>1, <1>2, <1>3, <1>7 DEF MeantNext
  <2> QED
    BY <1>4, <1>5, <2>1 DEF Messages
<1>8. CASE Package(n).kind # "piece" /\ Package(n).kind # "whole"
  BY <1>8 DEF MeantNext
<1> QED
  BY <1>6, <1>7, <1>8

\* The messages of all packages
LEMMA MeaningIs == ASSUME NoHttp, talk \in Talks PROVE \E h : IsMeaning(h)
<1>1. PICK n \in Nat : n = Len(talk.packages)
  BY TalkIs DEF SizesOK
<1>2. PICK a \in Messages : a = [open |-> <<>>, done |-> <<>>]
  <2>1. <<>> \in Seq(Byte) /\ <<>> \in Seq(Seq(Byte))
    BY EmptySeq
  <2> QED
    BY <2>1 DEF Messages
<1>3. \A k \in 1..n, x \in Messages : MeantNext(x, k) \in Messages
  BY <1>1, MeantNextIs
<1>4. PICK F \in [(1..n) \X Messages -> Messages] : \A k \in 1..n, x \in Messages : F[<<k, x>>] = MeantNext(x, k)
  <2> DEFINE F == [p \in (1..n) \X Messages |-> MeantNext(p[2], p[1])]
  <2>1. F \in [(1..n) \X Messages -> Messages]
    BY <1>3
  <2>2. \A k \in 1..n, x \in Messages : F[<<k, x>>] = MeantNext(x, k)
    OBVIOUS
  <2> HIDE DEF F
  <2> QED
    BY <2>1, <2>2
<1>5. PICK h \in [0..n -> Messages] : IsLoop(h, F, n, a)
  BY LoopRuns
<1>6. h[0] = a /\ \A k \in 1..n : h[k] = MeantNext(h[k - 1], k)
  <2>1. \A k \in 1..n : k - 1 \in 0..n
    OBVIOUS
  <2> QED
    BY <1>4, <1>5, <2>1 DEF IsLoop
<1>7. IsMeaning(h)
  BY <1>1, <1>2, <1>6 DEF IsMeaning
<1> QED
  BY <1>7

\* What Meant says
LEMMA MeantIs ==
    ASSUME NoHttp, talk \in Talks, NEW h, IsMeaning(h), NEW n \in 0..Len(talk.packages)
    PROVE  Meant(n) = h[n].done
<1>1. PICK m \in Nat : m = n /\ m <= Len(talk.packages) /\ Len(talk.packages) \in Nat
  BY TalkIs DEF SizesOK
<1>2. PICK a : a = [open |-> <<>>, done |-> <<>>]
  OBVIOUS
<1>3. h[0] = a /\ \A k \in 1..m : h[k] = MeantNext(h[k - 1], k)
  BY <1>1, <1>2 DEF IsMeaning
<1>4. PICK f : f = [k \in 0..m |-> h[k]]
  OBVIOUS
<1>5. \A k \in 0..m : f[k] = IF k = 0 THEN a ELSE MeantNext(f[k - 1], k)
  <2>1. \A k \in 0..m : k = 0 \/ (k \in 1..m /\ k - 1 \in 0..m)
    OBVIOUS
  <2> QED
    BY <1>3, <1>4, <2>1
<1>6. f = [k \in 0..n |-> IF k = 0 THEN [open |-> <<>>, done |-> <<>>] ELSE MeantNext(f[k - 1], k)]
  BY <1>1, <1>2, <1>4, <1>5
<1>7. PICK g :
          /\ g = [k \in 0..n |-> IF k = 0 THEN [open |-> <<>>, done |-> <<>>] ELSE MeantNext(g[k - 1], k)]
          /\ Meant(n) = g[n].done
  BY <1>6, Zenon DEF Meant
<1>8. \A k \in 0..m : g[k] = IF k = 0 THEN a ELSE MeantNext(g[k - 1], k)
  BY <1>1, <1>2, <1>7
<1>9. \A k \in 0..m : g[k] = h[k]
  <2> DEFINE S == {k \in 0..m : g[k] = h[k]}
  <2>1. 0 \in S
    BY <1>3, <1>8
  <2>2. \A k \in 1..m : k - 1 \in S => k \in S
    <3>1. \A k \in 1..m : k \in 0..m /\ k # 0
      OBVIOUS
    <3> QED
      BY <1>3, <1>8, <3>1
  <2>3. \A k \in 0..m : k \in S
    <3> HIDE DEF S
    <3> QED
      BY <2>1, <2>2, Inductive
  <2> QED
    BY <2>3
<1>10. m \in 0..m
  OBVIOUS
<1> QED
  BY <1>1, <1>7, <1>9, <1>10

\* The one sequence of messages begins the other.
Begins(s, t) ==
    /\ s \in Seq(Seq(Byte)) /\ t \in Seq(Seq(Byte))
    /\ Len(s) <= Len(t) /\ \A j \in 1..Len(s) : s[j] = t[j]

LEMMA NextBegins ==
    ASSUME NoHttp, talk \in Talks, NEW x \in Messages, NEW n \in 1..Len(talk.packages)
    PROVE  Begins(x.done, MeantNext(x, n).done)
<1>1. PICK o \in Seq(Byte), c \in Seq(Seq(Byte)) : x = [open |-> o, done |-> c]
  BY DEF Messages
<1>2. PICK b \in Seq(Byte) : b = Content(n)
  BY TalkIs
<1>3. PICK j \in Seq(Byte) : j = o \o b
  BY ConcatProperties
<1>4. Begins(c, c)
  BY LenProperties DEF Begins
<1>5. Begins(c, Append(c, j))
  <2>1. PICK e \in Seq(Seq(Byte)) : e = Append(c, j) /\ Len(e) = Len(c) + 1 /\ \A i \in 1..Len(c) : e[i] = c[i]
    <3>1. PICK B : B = Seq(Byte)
      OBVIOUS
    <3>2. c \in Seq(B) /\ j \in B
      BY <3>1
    <3>3. /\ Append(c, j) \in Seq(B) /\ Len(Append(c, j)) = Len(c) + 1
          /\ \A i \in 1..Len(c) : Append(c, j)[i] = c[i]
      BY <3>2, AppendProperties
    <3> QED
      BY <3>1, <3>3
  <2>2. Len(c) \in Nat
    BY LenProperties
  <2> QED
    BY <2>1, <2>2 DEF Begins
<1>6. CASE Package(n).kind = "piece"
  <2>1. MeantNext(x, n) = [open |-> j, done |-> c]
    BY <1>1, <1>2, <1>3, <1>6 DEF MeantNext
  <2>2. MeantNext(x, n).done = c /\ x.done = c
    BY <1>1, <2>1
  <2> QED
    BY <1>4, <2>2
<1>7. CASE Package(n).kind = "whole"
  <2>1. MeantNext(x, n) = [open |-> <<>>, done |-> Append(c, j)]
    BY <1>1, <1>2, <1>3, <1>7 DEF MeantNext
  <2>2. MeantNext(x, n).done = Append(c, j) /\ x.done = c
    BY <1>1, <2>1
  <2> QED
    BY <1>5, <2>2
<1>8. CASE Package(n).kind # "piece" /\ Package(n).kind # "whole"
  <2>1. MeantNext(x, n) = x
    BY <1>8 DEF MeantNext
  <2>2. MeantNext(x, n).done = c /\ x.done = c
    BY <1>1, <2>1
  <2> QED
    BY <1>4, <2>2
<1> QED
  BY <1>6, <1>7, <1>8

\* What was complete stays so.
LEMMA DoneGrows ==
    ASSUME NoHttp, talk \in Talks, NEW h, IsMeaning(h), NEW n \in 0..Len(talk.packages), NEW i \in 0..n
    PROVE  Begins(h[i].done, h[n].done)
<1>1. PICK m \in Nat : m = n /\ m <= Len(talk.packages) /\ Len(talk.packages) \in Nat
  BY TalkIs DEF SizesOK
<1>2. \A k \in 0..m : h[k] \in Messages
  BY <1>1 DEF IsMeaning
<1>3. \A k \in 1..m : Begins(h[k - 1].done, h[k].done)
  <2>1. \A k \in 1..m : k \in 1..Len(talk.packages) /\ k - 1 \in 0..m
    BY <1>1
  <2>2. \A k \in 1..m : h[k] = MeantNext(h[k - 1], k)
    BY <2>1 DEF IsMeaning
  <2> QED
    BY <1>2, <2>1, <2>2, NextBegins
<1>4. \A k \in 0..m : h[k].done \in Seq(Seq(Byte))
  BY <1>2 DEF Messages
<1> DEFINE S == {k \in 0..m : i <= k => Begins(h[i].done, h[k].done)}
<1>5. \A k \in 0..m : Begins(h[k].done, h[k].done)
  BY <1>4, LenProperties DEF Begins
<1>6. 0 \in S
  BY <1>1, <1>5
<1>7. ASSUME NEW k \in 1..m, k - 1 \in S PROVE k \in S
  <2>1. CASE i <= k - 1
    <3>1. Begins(h[i].done, h[k - 1].done)
      BY <1>7, <2>1
    <3>2. Begins(h[k - 1].done, h[k].done)
      BY <1>3
    <3>3. PICK a, b, c : a = h[i].done /\ b = h[k - 1].done /\ c = h[k].done
      OBVIOUS
    <3>4. Begins(a, b) /\ Begins(b, c)
      BY <3>1, <3>2, <3>3
    <3>5. Begins(a, c)
      BY <3>4, LenProperties DEF Begins
    <3> QED
      BY <3>3, <3>5
  <2>2. CASE i = k
    BY <1>5, <2>2
  <2>3. CASE i > k
    BY <2>3
  <2> QED
    BY <1>1, <2>1, <2>2, <2>3
<1>8. \A k \in 0..m : k \in S
  <2> HIDE DEF S
  <2> QED
    BY <1>6, <1>7, Inductive
<1>9. m \in S
  <2> HIDE DEF S
  <2> QED
    BY <1>8
<1> QED
  BY <1>1, <1>9

\* What the server holds of a session
Receivers == [ses : {"open", "upgraded", "none"}, message : Seq(Byte), got : Seq(Seq(Byte))]
Receiver(a, o, c) == [ses |-> a, message |-> o, got |-> c]

\* on_recv_pkg of the rpc server
LEMMA OnRpcPkg ==
    ASSUME NEW a, a # "none", NEW o, NEW c, NEW n, talk.protocol = "rpc"
    PROVE  OnRecvPkg(Receiver(a, o, c), n)
             = IF Package(n).kind = "heartbeat" THEN Receiver(a, o, c) ELSE Receiver(a, o, Append(c, Bytes(n)))
<1>1. PICK x, b : x = Receiver(a, o, c) /\ b = Bytes(n)
  OBVIOUS
<1>2. x.ses = a /\ x.got = c /\ [x EXCEPT !.got = Append(@, b)] = Receiver(a, o, Append(c, b))
  BY <1>1 DEF Receiver
<1>3. OnRecvPkg(x, n) = RpcRecvPkg(x, n)
  BY <1>2 DEF OnRecvPkg
<1> QED
  BY <1>1, <1>2, <1>3 DEF RpcRecvPkg

\* on_recv_pkg of the websocket server
LEMMA OnWsPkg ==
    ASSUME NEW a, a # "none", NEW o, NEW c, NEW n, talk.protocol = "ws"
    PROVE  OnRecvPkg(Receiver(a, o, c), n)
             = IF a = "open"
               THEN IF Package(n).kind = "hello" THEN Receiver("upgraded", o, c) ELSE Receiver("none", o, c)
               ELSE IF Package(n).kind = "close" THEN Receiver("none", o, c)
               ELSE IF Package(n).kind \in {"ping", "pong"} THEN Receiver(a, o, c)
               ELSE IF Package(n).kind = "piece" THEN Receiver(a, o \o Bytes(n), c)
               ELSE Receiver(a, <<>>, Append(c, o \o Bytes(n)))
<1>1. PICK x, b, k : x = Receiver(a, o, c) /\ b = Bytes(n) /\ k = Package(n).kind
  OBVIOUS
<1>2. x.ses = a /\ x.got = c /\ x.message = o
  BY <1>1 DEF Receiver
<1>3. /\ [x EXCEPT !.ses = "upgraded"] = Receiver("upgraded", o, c)
      /\ [x EXCEPT !.ses = "none"] = Receiver("none", o, c)
      /\ [x EXCEPT !.message = @ \o b] = Receiver(a, o \o b, c)
  <2>1. x = [ses |-> a, message |-> o, got |-> c]
    BY <1>1 DEF Receiver
  <2>2. [x EXCEPT !.ses = "upgraded"] = [ses |-> "upgraded", message |-> o, got |-> c]
    BY <2>1
  <2>3. [x EXCEPT !.ses = "none"] = [ses |-> "none", message |-> o, got |-> c]
    BY <2>1
  <2>4. PICK j : j = o \o b
    OBVIOUS
  <2>5. [x EXCEPT !.message = j] = [ses |-> a, message |-> j, got |-> c]
    BY <2>1
  <2>6. [x EXCEPT !.message = @ \o b] = [x EXCEPT !.message = j]
    BY <1>2, <2>4
  <2> QED
    BY <2>2, <2>3, <2>4, <2>5, <2>6 DEF Receiver
<1>4. [x EXCEPT !.got = Append(@, o \o b), !.message = <<>>] = Receiver(a, <<>>, Append(c, o \o b))
  <2>1. PICK e, z : e = <<>> /\ z = Append(c, o \o b)
    OBVIOUS
  <2>2. x = [ses |-> a, message |-> o, got |-> c]
    BY <1>1 DEF Receiver
  <2>3. PICK y : y = [x EXCEPT !.got = z]
    OBVIOUS
  <2>4. y = [ses |-> a, message |-> o, got |-> z]
    BY <2>2, <2>3
  <2>5. [y EXCEPT !.message = e] = [ses |-> a, message |-> e, got |-> z]
    BY <2>4
  <2>6. [x EXCEPT !.got = Append(@, o \o b), !.message = <<>>] = [y EXCEPT !.message = e]
    BY <1>2, <2>1, <2>3
  <2> QED
    BY <2>1, <2>5, <2>6 DEF Receiver
<1>5. OnRecvPkg(x, n) = WsRecvPkg(x, n)
  BY <1>2 DEF OnRecvPkg
<1>6. CASE a = "open"
  BY <1>1, <1>2, <1>3, <1>5, <1>6 DEF WsRecvPkg, Upgrade
<1>7. CASE a # "open"
  <2>1. WsMessage(x, n) = IF k = "piece" THEN Receiver(a, o \o b, c) ELSE Receiver(a, <<>>, Append(c, o \o b))
    BY <1>1, <1>2, <1>3, <1>4 DEF WsMessage
  <2>2. WsRecvPkg(x, n) = IF k = "close" THEN Receiver("none", o, c)
                          ELSE IF k \in {"ping", "pong"} THEN x ELSE WsMessage(x, n)
    BY <1>1, <1>2, <1>3, <1>7 DEF WsRecvPkg
  <2> QED
    BY <1>1, <1>5, <1>7, <2>1, <2>2
<1> QED
  BY <1>6, <1>7

\* A session stays one.
LEMMA OnRecvPkgIs ==
    ASSUME NoHttp, talk \in Talks, NEW x \in Receivers, NEW n \in 1..Len(talk.packages)
    PROVE  OnRecvPkg(x, n) \in Receivers
<1>1. PICK a \in {"open", "upgraded", "none"}, o \in Seq(Byte), c \in Seq(Seq(Byte)) :
          x = [ses |-> a, message |-> o, got |-> c]
  BY DEF Receivers
<1>2. x = Receiver(a, o, c)
  BY <1>1 DEF Receiver
<1>3. PICK b \in Seq(Byte) : b = Bytes(n)
  BY TalkIs
<1>4. o \o b \in Seq(Byte)
  BY ConcatProperties
<1>5. \A j \in Seq(Byte) : Append(c, j) \in Seq(Seq(Byte))
  BY AppendProperties
<1>6. <<>> \in Seq(Byte)
  BY EmptySeq
<1>7. \A e \in {"open", "upgraded", "none"}, m \in Seq(Byte), g \in Seq(Seq(Byte)) : Receiver(e, m, g) \in Receivers
  BY DEF Receiver, Receivers
<1>8. CASE a = "none"
  <2>1. x.ses = "none"
    BY <1>1, <1>8
  <2>2. OnRecvPkg(x, n) = x
    BY <2>1 DEF OnRecvPkg
  <2> QED
    BY <2>2
<1>9. CASE a # "none" /\ talk.protocol = "rpc"
  <2>1. OnRecvPkg(x, n) = x \/ OnRecvPkg(x, n) = Receiver(a, o, Append(c, b))
    <3>1. OnRecvPkg(Receiver(a, o, c), n)
            = IF Package(n).kind = "heartbeat" THEN Receiver(a, o, c) ELSE Receiver(a, o, Append(c, Bytes(n)))
      BY <1>9, OnRpcPkg
    <3> QED
      BY <1>2, <1>3, <3>1
  <2>2. Receiver(a, o, Append(c, b)) \in Receivers
    BY <1>5, <1>7
  <2> QED
    BY <2>1, <2>2
<1>10. CASE a # "none" /\ talk.protocol = "ws"
  <2>1. PICK j \in Seq(Byte) : j = o \o b
    BY <1>4
  <2>2. \/ OnRecvPkg(x, n) \in {x, Receiver("upgraded", o, c), Receiver("none", o, c), Receiver(a, j, c)}
        \/ OnRecvPkg(x, n) = Receiver(a, <<>>, Append(c, j))
    BY <1>2, <1>3, <1>10, <2>1, OnWsPkg
  <2>3. Receiver("upgraded", o, c) \in Receivers /\ Receiver("none", o, c) \in Receivers /\ Receiver(a, j, c) \in Receivers
    BY <1>7
  <2>4. Receiver(a, <<>>, Append(c, j)) \in Receivers
    BY <1>5, <1>6, <1>7
  <2> QED
    BY <2>2, <2>3, <2>4
<1> QED
  BY <1>8, <1>9, <1>10, TalkIs

\* After d packages the server has what the client meant by them.
RecvOK(h, s, d) ==
    /\ s \in Receivers
    /\ s.ses # "none" => /\ s.got = h[d].done /\ s.message = h[d].open
                         /\ talk.protocol = "rpc" => s.message = <<>>
                         /\ talk.protocol = "ws" => (s.ses = "open" <=> d = 0)
    /\ s.ses = "none" => \E k \in 0..d : s.got = h[k].done

\* A session that ended has what was complete then.
LEMMA EndedOK ==
    ASSUME NEW h, NEW d \in Nat, NEW s \in Receivers, s.ses = "none", NEW k \in 0..d, s.got = h[k].done
    PROVE  RecvOK(h, s, d)
BY DEF RecvOK

LEMMA RecvNext ==
    ASSUME NoHttp, talk \in Talks, NEW h, IsMeaning(h), NEW d \in Nat, NEW n \in 1..Len(talk.packages), n = d + 1,
           NEW s, RecvOK(h, s, d)
    PROVE  RecvOK(h, OnRecvPkg(s, n), n)
<1>1. PICK a \in {"open", "upgraded", "none"}, o \in Seq(Byte), c \in Seq(Seq(Byte)) :
          s = [ses |-> a, message |-> o, got |-> c]
  BY DEF RecvOK, Receivers
<1>2. s = Receiver(a, o, c) /\ s.ses = a /\ s.message = o /\ s.got = c /\ s \in Receivers
  BY <1>1 DEF Receiver, RecvOK
<1>3. PICK z : z = OnRecvPkg(s, n)
  OBVIOUS
<1> SUFFICES RecvOK(h, z, n)
  BY <1>3
<1>4. z \in Receivers
  BY <1>2, <1>3, OnRecvPkgIs
<1>5. d \in 0..n /\ n \in 0..n /\ n # 0 /\ n - 1 = d
  OBVIOUS
<1>6. CASE a = "none"
  <2>1. z = s
    BY <1>2, <1>3, <1>6 DEF OnRecvPkg
  <2>2. PICK k \in 0..d : s.got = h[k].done
    BY <1>2, <1>6 DEF RecvOK
  <2>3. k \in 0..n /\ n \in Nat
    OBVIOUS
  <2> QED
    BY <1>2, <1>3, <1>6, <2>1, <2>2, <2>3, EndedOK
<1>7. CASE a # "none"
  <2>1. /\ c = h[d].done /\ o = h[d].open
        /\ talk.protocol = "rpc" => o = <<>>
        /\ talk.protocol = "ws" => (a = "open" <=> d = 0)
    BY <1>2, <1>7 DEF RecvOK
  <2>2. PICK b \in Seq(Byte) : b = Bytes(n) /\ b = Content(n)
    BY TalkIs
  <2>3. PICK kind : kind = Package(n).kind /\ kind \in Kinds(talk.protocol, n)
    BY TalkIs
  <2>4. PICK x, y : x = h[d] /\ y = h[n] /\ y = MeantNext(x, n)
    <3>1. h[n] = MeantNext(h[n - 1], n)
      BY DEF IsMeaning
    <3> QED
      BY <1>5, <3>1
  <2>5. x = [open |-> o, done |-> c]
    <3>1. x \in Messages
      <4>1. d \in 0..Len(talk.packages)
        BY TalkIs DEF SizesOK
      <4> QED
        BY <2>4, <4>1 DEF IsMeaning
    <3> QED
      BY <2>1, <2>4, <3>1 DEF Messages
  <2>6. PICK j, w : j = o \o b /\ w = Append(c, j)
    OBVIOUS
  <2>7. /\ kind = "piece" => y = [open |-> j, done |-> c]
        /\ kind = "whole" => y = [open |-> <<>>, done |-> w]
        /\ kind # "piece" /\ kind # "whole" => y = x
    <3>1. CASE kind = "piece"
      <4>1. x.open \o Content(n) = j
        BY <2>2, <2>5, <2>6
      <4>2. MeantNext(x, n) = [x EXCEPT !.open = j]
        BY <2>3, <3>1, <4>1 DEF MeantNext
      <4> QED
        BY <2>4, <2>5, <3>1, <4>2
    <3>2. CASE kind = "whole"
      <4>1. Append(x.done, x.open \o Content(n)) = w
        BY <2>2, <2>5, <2>6
      <4>2. MeantNext(x, n) = [open |-> <<>>, done |-> w]
        BY <2>3, <3>2, <4>1 DEF MeantNext
      <4> QED
        BY <2>4, <3>2, <4>2
    <3>3. CASE kind # "piece" /\ kind # "whole"
      BY <2>3, <2>4, <3>3 DEF MeantNext
    <3> QED
      BY <3>1, <3>2, <3>3
  \* The session ends: what it got is what it had.
  <2>8. ASSUME z.ses = "none", z.got = c PROVE RecvOK(h, z, n)
    BY <1>4, <1>5, <2>1, <2>8, EndedOK
  \* It goes on.
  <2>9. ASSUME z.ses # "none", z.got = y.done, z.message = y.open,
               talk.protocol = "rpc" => z.message = <<>>, talk.protocol = "ws" => z.ses # "open"
        PROVE  RecvOK(h, z, n)
    BY <1>4, <1>5, <2>4, <2>9 DEF RecvOK
  <2>10. \A e, m, g : z = Receiver(e, m, g) => z.ses = e /\ z.message = m /\ z.got = g
    BY DEF Receiver
  <2>11. CASE talk.protocol = "rpc"
    <3>1. z = IF kind = "heartbeat" THEN Receiver(a, o, c) ELSE Receiver(a, o, Append(c, b))
      <4>1. OnRecvPkg(Receiver(a, o, c), n)
              = IF Package(n).kind = "heartbeat" THEN Receiver(a, o, c) ELSE Receiver(a, o, Append(c, Bytes(n)))
        BY <1>7, <2>11, OnRpcPkg
      <4> QED
        BY <1>2, <1>3, <2>2, <2>3, <4>1
    <3>2. kind = "whole" \/ kind = "heartbeat"
      BY <2>3, <2>11 DEF Kinds
    <3>3. CASE kind = "heartbeat"
      <4>1. y = x /\ z.ses = a /\ z.message = o /\ z.got = c
        BY <2>7, <2>10, <3>1, <3>3
      <4>2. z.got = y.done /\ z.message = y.open /\ z.message = <<>>
        BY <2>1, <2>5, <2>11, <4>1
      <4> QED
        BY <1>7, <2>9, <2>11, <4>1, <4>2
    <3>4. CASE kind = "whole"
      <4>1. j = b
        <5>1. <<>> \o b = b
          BY ConcatEmptySeq
        <5> QED
          BY <2>1, <2>6, <2>11, <5>1
      <4>2. z = Receiver(a, o, w)
        BY <2>6, <3>1, <3>4, <4>1
      <4>3. z.ses = a /\ z.message = o /\ z.got = w
        BY <2>10, <4>2
      <4>4. y = [open |-> <<>>, done |-> w]
        BY <2>7, <3>4
      <4>5. z.got = y.done /\ z.message = y.open /\ z.message = <<>>
        BY <2>1, <2>11, <4>3, <4>4
      <4> QED
        BY <1>7, <2>9, <2>11, <4>3, <4>5
    <3> QED
      BY <3>2, <3>3, <3>4
  <2>12. CASE talk.protocol = "ws"
    <3>1. z = IF a = "open"
              THEN IF kind = "hello" THEN Receiver("upgraded", o, c) ELSE Receiver("none", o, c)
              ELSE IF kind = "close" THEN Receiver("none", o, c)
              ELSE IF kind \in {"ping", "pong"} THEN Receiver(a, o, c)
              ELSE IF kind = "piece" THEN Receiver(a, j, c)
              ELSE Receiver(a, <<>>, w)
      <4>1. OnRecvPkg(Receiver(a, o, c), n)
              = IF a = "open"
                THEN IF Package(n).kind = "hello" THEN Receiver("upgraded", o, c) ELSE Receiver("none", o, c)
                ELSE IF Package(n).kind = "close" THEN Receiver("none", o, c)
                ELSE IF Package(n).kind \in {"ping", "pong"} THEN Receiver(a, o, c)
                ELSE IF Package(n).kind = "piece" THEN Receiver(a, o \o Bytes(n), c)
                ELSE Receiver(a, <<>>, Append(c, o \o Bytes(n)))
        BY <1>7, <2>12, OnWsPkg
      <4> QED
        BY <1>2, <1>3, <2>2, <2>3, <2>6, <4>1
    <3>2. CASE a = "open"
      <4>1. n = 1
        BY <2>1, <2>12, <3>2
      <4>2. kind = "hello" \/ kind = "bad hello"
        BY <2>3, <2>12, <4>1 DEF Kinds
      <4>3. y = x
        BY <2>7, <4>2
      <4>4. y.done = c /\ y.open = o
        BY <2>5, <4>3
      <4>5. CASE kind = "hello"
        <5>1. z = Receiver("upgraded", o, c)
          BY <3>1, <3>2, <4>5
        <5>2. z.ses = "upgraded" /\ z.message = y.open /\ z.got = y.done
          BY <2>10, <4>4, <5>1
        <5> QED
          BY <2>9, <2>12, <5>2
      <4>6. CASE kind # "hello"
        <5>1. z = Receiver("none", o, c)
          BY <3>1, <3>2, <4>6
        <5>2. z.ses = "none" /\ z.got = c
          BY <2>10, <5>1
        <5> QED
          BY <2>8, <5>2
      <4> QED
        BY <4>5, <4>6
    <3>3. CASE a # "open"
      <4>1. n # 1
        BY <2>1, <2>12, <3>3
      <4>2. kind \in {"piece", "whole", "ping", "pong", "close"}
        BY <2>3, <2>12, <4>1 DEF Kinds
      <4>3. CASE kind = "close"
        <5>1. z = Receiver("none", o, c)
          BY <3>1, <3>3, <4>3
        <5>2. z.ses = "none" /\ z.got = c
          BY <2>10, <5>1
        <5> QED
          BY <2>8, <5>2
      <4>4. CASE kind \in {"ping", "pong"}
        <5>1. y = x /\ z = Receiver(a, o, c)
          BY <2>7, <3>1, <3>3, <4>4
        <5>2. z.ses = a /\ z.message = y.open /\ z.got = y.done
          BY <2>5, <2>10, <5>1
        <5> QED
          BY <1>7, <2>9, <2>12, <3>3, <5>2
      <4>5. CASE kind = "piece"
        <5>1. y = [open |-> j, done |-> c] /\ z = Receiver(a, j, c)
          BY <2>7, <3>1, <3>3, <4>5
        <5>2. z.ses = a /\ z.message = y.open /\ z.got = y.done
          BY <2>10, <5>1
        <5> QED
          BY <1>7, <2>9, <2>12, <3>3, <5>2
      <4>6. CASE kind = "whole"
        <5>1. y = [open |-> <<>>, done |-> w] /\ z = Receiver(a, <<>>, w)
          BY <2>7, <3>1, <3>3, <4>6
        <5>2. z.ses = a /\ z.message = y.open /\ z.got = y.done
          BY <2>10, <5>1
        <5> QED
          BY <1>7, <2>9, <2>12, <3>3, <5>2
      <4> QED
        BY <4>2, <4>3, <4>4, <4>5, <4>6
    <3> QED
      BY <3>2, <3>3
  <2>13. talk.protocol = "rpc" \/ talk.protocol = "ws"
    BY TalkIs
  <2> QED
    BY <1>3, <2>11, <2>12, <2>13
<1> QED
  BY <1>6, <1>7

\* The packages of one round
LEMMA RecvPkgsIs ==
    ASSUME NoHttp, talk \in Talks, NEW h, IsMeaning(h), NEW d \in Nat,
           NEW pkgs \in Seq(Nat), \A i \in 1..Len(pkgs) : pkgs[i] = d + i,
           NEW e \in Nat, e = d + Len(pkgs), e <= Len(talk.packages),
           RecvOK(h, Receiver(ses, message, got), d)
    PROVE  RecvOK(h, OnRecvPkgs(pkgs), e)
<1>1. PICK n \in Nat : n = Len(pkgs)
  BY LenProperties
<1>2. PICK a : a = Receiver(ses, message, got)
  OBVIOUS
<1>3. a \in Receivers /\ a = [ses |-> ses, message |-> message, got |-> got]
  BY <1>2 DEF RecvOK, Receiver
<1>4. \A k \in 1..n : pkgs[k] \in 1..Len(talk.packages) /\ pkgs[k] = (d + (k - 1)) + 1 /\ d + (k - 1) \in Nat /\ pkgs[k] = d + k
  <2>1. Len(talk.packages) \in Nat
    BY TalkIs DEF SizesOK
  <2> QED
    BY <1>1, <2>1
<1>5. \A k \in 1..n, x \in Receivers : OnRecvPkg(x, pkgs[k]) \in Receivers
  BY <1>4, OnRecvPkgIs
<1>6. PICK F \in [(1..n) \X Receivers -> Receivers] :
          \A k \in 1..n, x \in Receivers : F[<<k, x>>] = OnRecvPkg(x, pkgs[k])
  <2> DEFINE F == [p \in (1..n) \X Receivers |-> OnRecvPkg(p[2], pkgs[p[1]])]
  <2>1. F \in [(1..n) \X Receivers -> Receivers]
    BY <1>5
  <2>2. \A k \in 1..n, x \in Receivers : F[<<k, x>>] = OnRecvPkg(x, pkgs[k])
    OBVIOUS
  <2> HIDE DEF F
  <2> QED
    BY <2>1, <2>2
<1>7. PICK f \in [0..n -> Receivers] : IsLoop(f, F, n, a)
  BY <1>3, LoopRuns
<1>8. f[0] = a /\ \A k \in 1..n : f[k] = OnRecvPkg(f[k - 1], pkgs[k])
  <2>1. \A k \in 1..n : k - 1 \in 0..n
    OBVIOUS
  <2> QED
    BY <1>6, <1>7, <2>1 DEF IsLoop
<1>9. \A k \in 0..n : f[k] = IF k = 0 THEN a ELSE OnRecvPkg(f[k - 1], pkgs[k])
  <2>1. \A k \in 0..n : k = 0 \/ k \in 1..n
    OBVIOUS
  <2> QED
    BY <1>8, <2>1
<1>10. f = [k \in 0..Len(pkgs) |-> IF k = 0 THEN [ses |-> ses, message |-> message, got |-> got]
                                   ELSE OnRecvPkg(f[k - 1], pkgs[k])]
  <2>1. f = [k \in 0..n |-> f[k]]
    OBVIOUS
  <2> QED
    BY <1>1, <1>3, <1>9, <2>1
<1>11. PICK g :
          /\ g = [k \in 0..Len(pkgs) |-> IF k = 0 THEN [ses |-> ses, message |-> message, got |-> got]
                                         ELSE OnRecvPkg(g[k - 1], pkgs[k])]
          /\ OnRecvPkgs(pkgs) = g[Len(pkgs)]
  BY <1>10, Zenon DEF OnRecvPkgs
<1>12. \A k \in 0..n : g[k] = IF k = 0 THEN a ELSE OnRecvPkg(g[k - 1], pkgs[k])
  BY <1>1, <1>3, <1>11
<1>13. \A k \in 0..n : g[k] = f[k]
  <2> DEFINE S == {k \in 0..n : g[k] = f[k]}
  <2>1. 0 \in S
    BY <1>8, <1>12
  <2>2. \A k \in 1..n : k - 1 \in S => k \in S
    <3>1. \A k \in 1..n : k \in 0..n /\ k # 0
      OBVIOUS
    <3> QED
      BY <1>8, <1>12, <3>1
  <2>3. \A k \in 0..n : k \in S
    <3> HIDE DEF S
    <3> QED
      BY <2>1, <2>2, Inductive
  <2> QED
    BY <2>3
<1>14. \A k \in 0..n : RecvOK(h, f[k], d + k)
  <2> DEFINE S == {k \in 0..n : RecvOK(h, f[k], d + k)}
  <2>1. 0 \in S
    <3>1. d + 0 = d
      OBVIOUS
    <3> QED
      BY <1>2, <1>8, <3>1
  <2>2. ASSUME NEW k \in 1..n, k - 1 \in S PROVE k \in S
    <3>1. PICK p \in 1..Len(talk.packages) : p = pkgs[k] /\ p = d + k
      BY <1>4
    <3>2. PICK b \in Nat : b = d + (k - 1)
      BY <1>4
    <3>3. PICK x : x = f[k - 1]
      OBVIOUS
    <3>4. RecvOK(h, x, b)
      BY <2>2, <3>2, <3>3
    <3>5. p = b + 1
      BY <3>1, <3>2
    <3>6. RecvOK(h, OnRecvPkg(x, p), p)
      BY <3>4, <3>5, RecvNext
    <3>7. f[k] = OnRecvPkg(x, p)
      BY <1>8, <3>1, <3>3
    <3>8. RecvOK(h, f[k], d + k)
      BY <3>1, <3>6, <3>7
    <3> QED
      BY <3>8
  <2>3. \A k \in 0..n : k \in S
    <3> HIDE DEF S
    <3> QED
      BY <2>1, <2>2, Inductive
  <2> QED
    BY <2>3
<1>15. n \in 0..n /\ e = d + n
  BY <1>1
<1>16. OnRecvPkgs(pkgs) = f[n]
  BY <1>1, <1>11, <1>13, <1>15
<1> QED
  BY <1>14, <1>15, <1>16

\* A session that ends keeps what it got; the request under way is gone.
LEMMA ClosedOK ==
    ASSUME NEW h, NEW d \in Nat, NEW a, NEW m, NEW g, RecvOK(h, Receiver(a, m, g), d)
    PROVE  RecvOK(h, Receiver("none", <<>>, g), d)
<1>1. PICK s, z : s = Receiver(a, m, g) /\ z = Receiver("none", <<>>, g)
  OBVIOUS
<1>2. s.ses = a /\ s.message = m /\ s.got = g /\ z.ses = "none" /\ z.got = g
  BY <1>1 DEF Receiver
<1>3. RecvOK(h, s, d) /\ s \in Receivers
  BY <1>1 DEF RecvOK
<1>4. g \in Seq(Seq(Byte))
  BY <1>2, <1>3 DEF Receivers
<1>5. <<>> \in Seq(Byte)
  BY EmptySeq
<1>6. z \in Receivers
  BY <1>1, <1>4, <1>5 DEF Receiver, Receivers
<1>7. PICK k \in 0..d : g = h[k].done
  <2>1. d \in 0..d
    OBVIOUS
  <2> QED
    BY <1>2, <1>3, <2>1 DEF RecvOK
<1>8. RecvOK(h, z, d)
  BY <1>2, <1>6, <1>7, EndedOK
<1> QED
  BY <1>1, <1>8

\* A new session
LEMMA OpenedOK ==
    ASSUME NoHttp, talk \in Talks, NEW h, IsMeaning(h), NEW a \in {"none", "open"}
    PROVE  RecvOK(h, Receiver(a, <<>>, <<>>), 0)
<1>1. PICK z : z = Receiver(a, <<>>, <<>>)
  OBVIOUS
<1>2. z.ses = a /\ z.message = <<>> /\ z.got = <<>>
  BY <1>1 DEF Receiver
<1>3. <<>> \in Seq(Byte) /\ <<>> \in Seq(Seq(Byte))
  BY EmptySeq
<1>4. z \in Receivers
  BY <1>1, <1>3 DEF Receiver, Receivers
<1>5. h[0].open = <<>> /\ h[0].done = <<>>
  BY DEF IsMeaning
<1>6. 0 \in 0..0
  OBVIOUS
<1>7. RecvOK(h, z, 0)
  BY <1>2, <1>4, <1>5, <1>6 DEF RecvOK
<1> QED
  BY <1>1, <1>7

-----------------------------------------------------------------------------
(* The client *)

\* Only a connected client has buffers.
CltOK ==
    /\ state # "connected" => writeBuf = <<>> /\ wire = <<>> /\ readBuf = <<>>
    /\ starting => state = "closed" /\ timer # "reconnect"
    /\ timer = "reconnect" => state = "closed"
    /\ watching = "connect" => state = "connecting"
    /\ watching = "readwrite" => state = "connected"

\* What is closed has nothing.
LEMMA CloseKeepsClt == ASSUME CloseAndRestart, ReconnectLater PROVE CltOK'
BY DEF CltOK, CloseAndRestart, ReconnectLater, NwSesClose

LEMMA CloseStartKeepsClt == ASSUME CloseAndStart PROVE CltOK'
BY DEF CltOK, CloseAndStart, NwSesClose

\* nw_clt_start, on_can_connect and the timer
LEMMA StartKeepsClt == ASSUME CltOK, Started \/ Answered PROVE CltOK'
<1>1. CASE ConnectsAtOnce
  BY <1>1 DEF CltOK, ConnectsAtOnce
<1>2. CASE ConnectInProgress
  BY <1>2 DEF CltOK, ConnectInProgress
<1>3. CASE RefusedAtOnce
  BY <1>3, CloseKeepsClt DEF RefusedAtOnce
<1>4. CASE NwCltStartFails
  BY <1>4 DEF CltOK, NwCltStartFails, CloseAndRestart, NwSesClose
<1>5. CASE OnReconnectTimeout
  BY <1>5 DEF CltOK, OnReconnectTimeout, sesVars
<1>6. CASE OnConnectTimeout
  <2>1. CASE CloseAndStart
    BY <2>1, CloseStartKeepsClt
  <2>2. CASE timer' = "none" /\ UNCHANGED <<setting, peer, currIndex, state, starting, sesVars>>
    BY <2>2 DEF CltOK, sesVars
  <2> QED
    BY <1>6, <2>1, <2>2 DEF OnConnectTimeout
<1>7. CASE OnConnect
  BY <1>7 DEF CltOK, OnConnect
<1>8. CASE OnConnectFails
  BY <1>8, CloseKeepsClt DEF OnConnectFails
<1> QED
  BY <1>1, <1>2, <1>3, <1>4, <1>5, <1>6, <1>7, <1>8 DEF Started, Answered, Accepted

\* Every step
LEMMA CltKeeps == ASSUME CltOK, [Next]_vars PROVE CltOK'
<1>1. CASE Connect
  BY <1>1, StartKeepsClt DEF Connect
<1>2. CASE Disconnect
  <2>1. CASE OnCloseOrError
    BY <2>1, CloseKeepsClt DEF OnCloseOrError
  <2>2. CASE HeartbeatTimeout
    BY <2>2, CloseStartKeepsClt DEF HeartbeatTimeout
  <2> QED
    BY <1>2, <2>1, <2>2 DEF Disconnect
<1>3. CASE KeepAliveTimeout
  BY <1>3 DEF CltOK, KeepAliveTimeout, sesVars, cltVars
<1>4. ASSUME NEW s \in Servers, Crash(s) \/ Restart(s) PROVE CltOK'
  BY <1>4 DEF CltOK, Crash, Restart, sesVars, cltVars
<1>5. CASE Send
  <2>1. ASSUME NwSesSend(Bytes(sent + 1)), UNCHANGED cltVars PROVE CltOK'
    <3>1. state = "connected" /\ state' = state /\ timer' = timer /\ starting' = starting
      BY <1>5, <2>1 DEF Send, MaySend, cltVars
    <3>2. watching' = watching \/ watching' = "readwrite"
      BY <2>1 DEF NwSesSend
    <3> QED
      BY <3>1, <3>2 DEF CltOK
  <2>2. CASE OnCloseOrError
    BY <2>2, CloseKeepsClt DEF OnCloseOrError
  <2> QED
    BY <1>5, <2>1, <2>2 DEF Send
<1>6. CASE Write
  <2>1. state = "connected" /\ state' = state /\ timer' = timer /\ starting' = starting
    BY <1>6 DEF Write, OnCanWrite, CltOK, cltVars
  <2>2. watching' = "read" \/ watching' = "readwrite"
    BY <1>6 DEF Write, OnCanWrite, WatchAfter
  <2> QED
    BY <2>1, <2>2 DEF CltOK
<1>7. CASE Receive
  <2>1. state' = state /\ timer' = timer /\ starting' = starting /\ watching' = watching
    BY <1>7 DEF Receive, OnCanRead, cltVars
  <2>2. wire # <<>>
    <3>1. PICK n \in 1..Len(wire) : TRUE
      BY <1>7 DEF Receive
    <3>2. Len(wire) # 0
      BY <3>1
    <3> QED
      BY <3>2, EmptySeq
  <2> QED
    BY <2>1, <2>2 DEF CltOK
<1>8. CASE UNCHANGED vars
  BY <1>8 DEF CltOK, vars, sesVars, cltVars
<1> QED
  BY <1>1, <1>2, <1>3, <1>4, <1>5, <1>6, <1>7, <1>8 DEF Next

-----------------------------------------------------------------------------
(* The session *)

NetTypes ==
    /\ talk \in Talks
    /\ writeBuf \in Seq(Buf) /\ wire \in Seq(Byte) /\ Len(wire) <= WireMax /\ readBuf \in Seq(Byte)
    /\ sent \in 0..Len(talk.packages)

\* d packages were decoded: what is under way is the rest, and the server has what they mean.
SessionOK(d) ==
    /\ ses # "none" => Stream(talk.packages, readBuf \o (wire \o Pending(writeBuf)), d, sent)
    /\ \A h : IsMeaning(h) => RecvOK(h, Receiver(ses, message, got), d)
NetInv == NetTypes /\ CltOK /\ \E d \in 0..sent : SessionOK(d)

\* What a talk means does not change.
LEMMA TalkStays ==
    ASSUME talk' = talk, NEW h
    PROVE  IsMeaning(h)' <=> IsMeaning(h)
<1>1. \A x, n : MeantNext(x, n)' = MeantNext(x, n)
  BY DEF MeantNext, Package, Content, Bytes, IsHttp
<1> QED
  BY <1>1 DEF IsMeaning

\* What SessionOK says of the next state
LEMMA SessionThen ==
    ASSUME talk' = talk, NEW d,
           ses' # "none" => Stream(talk.packages, readBuf' \o (wire' \o Pending(writeBuf')), d, sent'),
           \A h : IsMeaning(h) => RecvOK(h, Receiver(ses', message', got'), d)
    PROVE  SessionOK(d)'
<1>1. ses' # "none" => Stream(talk'.packages, readBuf' \o (wire' \o Pending(writeBuf')), d, sent')
  OBVIOUS
<1>2. ASSUME NEW h, IsMeaning(h)' PROVE RecvOK(h, Receiver(ses, message, got), d)'
  <2>1. RecvOK(h, Receiver(ses', message', got'), d)
    BY <1>2, TalkStays
  <2>2. PICK s : s = Receiver(ses', message', got')
    OBVIOUS
  <2>3. RecvOK(h, s, d)
    BY <2>1, <2>2
  <2>4. RecvOK(h, s, d)'
    BY <2>3 DEF RecvOK
  <2>5. s = Receiver(ses, message, got)'
    BY <2>2 DEF Receiver
  <2> QED
    BY <2>4, <2>5
<1> QED
  BY <1>1, <1>2 DEF SessionOK

\* A new session, or none
LEMMA FreshOK ==
    ASSUME NoHttp, talk \in Talks, talk' = talk, ses' \in {"none", "open"}, sent' = 0, message' = <<>>, got' = <<>>,
           writeBuf' = <<>>, wire' = <<>>, readBuf' = <<>>
    PROVE  NetTypes' /\ \E d \in 0..sent' : SessionOK(d)'
<1>1. SizesOK(talk.packages) /\ Len(talk.packages) \in Nat
  BY TalkIs DEF SizesOK
<1>2. <<>> \in Seq(Byte) /\ <<>> \in Seq(Buf) /\ Len(<<>>) = 0 /\ Pending(<<>>) = <<>>
  BY PendingFew, EmptySeq
<1>3. 0 <= WireMax
  BY SizesAssumption
<1>4. NetTypes'
  <2>1. Len(wire') <= WireMax
    BY <1>2, <1>3
  <2>2. sent' \in 0..Len(talk'.packages)
    BY <1>1
  <2> QED
    BY <1>2, <2>1, <2>2 DEF NetTypes
<1>5. readBuf' \o (wire' \o Pending(writeBuf')) = <<>>
  <2>1. <<>> \o <<>> = <<>>
    BY <1>2, ConcatEmptySeq
  <2> QED
    BY <1>2, <2>1
<1>6. Stream(talk.packages, readBuf' \o (wire' \o Pending(writeBuf')), 0, sent')
  BY <1>1, <1>5, StreamBegins
<1>7. \A h : IsMeaning(h) => RecvOK(h, Receiver(ses', message', got'), 0)
  BY OpenedOK
<1>8. SessionOK(0)'
  BY <1>6, <1>7, SessionThen
<1>9. 0 \in 0..sent'
  OBVIOUS
<1> QED
  BY <1>4, <1>8, <1>9

\* The session's end, and what leaves it alone
LEMMA EndKeeps ==
    ASSUME NetTypes, NEW d \in 0..sent, SessionOK(d), UNCHANGED <<talk, writeBuf, wire, readBuf, sent, got>>,
           \/ ses' = "none" /\ message' = <<>>
           \/ ses' = ses /\ message' = message
    PROVE  NetTypes' /\ \E e \in 0..sent' : SessionOK(e)'
<1>1. NetTypes'
  BY DEF NetTypes
<1>2. d \in Nat
  BY DEF NetTypes
<1>3. SessionOK(d)'
  <2>1. CASE ses' = "none" /\ message' = <<>>
    <3>1. \A h : IsMeaning(h) => RecvOK(h, Receiver("none", <<>>, got), d)
      BY <1>2, ClosedOK DEF SessionOK
    <3> QED
      BY <2>1, <3>1, SessionThen
  <2>2. CASE ses' = ses /\ message' = message
    <3>1. \A h : IsMeaning(h) => RecvOK(h, Receiver(ses', message', got'), d)
      BY <2>2 DEF SessionOK
    <3>2. ses' # "none" => Stream(talk.packages, readBuf' \o (wire' \o Pending(writeBuf')), d, sent')
      BY <2>2 DEF SessionOK
    <3> QED
      BY <3>1, <3>2, SessionThen
  <2> QED
    BY <2>1, <2>2
<1> QED
  BY <1>1, <1>3

\* nw_clt_start and the answers to it
LEMMA ConnectKeeps ==
    ASSUME NoHttp, NetInv, Connect
    PROVE  NetTypes' /\ \E d \in 0..sent' : SessionOK(d)'
<1>1. talk \in Talks /\ talk' = talk
  BY DEF NetInv, NetTypes, Connect
<1>2. CASE AddSession /\ (ConnectsAtOnce \/ OnConnect)
  <2>1. state # "connected" /\ UNCHANGED <<writeBuf, wire, readBuf>>
    BY <1>2 DEF NetInv, CltOK, ConnectsAtOnce, OnConnect
  <2>2. writeBuf' = <<>> /\ wire' = <<>> /\ readBuf' = <<>>
    BY <2>1 DEF NetInv, CltOK
  <2> QED
    BY <1>1, <1>2, <2>2, FreshOK DEF AddSession
<1>3. CASE NoSession /\ writeBuf' = <<>> /\ wire' = <<>> /\ readBuf' = <<>>
  BY <1>1, <1>3, FreshOK DEF NoSession
<1>4. CASE ConnectInProgress /\ NoSession
  <2>1. state # "connected" /\ UNCHANGED <<writeBuf, wire, readBuf>>
    BY <1>4 DEF NetInv, CltOK, ConnectInProgress
  <2> QED
    BY <1>3, <1>4, <2>1 DEF NetInv, CltOK
<1>5. CASE RefusedAtOnce /\ NoSession
  BY <1>3, <1>5 DEF RefusedAtOnce, CloseAndRestart, NwSesClose
<1>6. CASE NwCltStartFails /\ NoSession
  BY <1>3, <1>6 DEF NwCltStartFails, CloseAndRestart, NwSesClose
<1>7. CASE OnConnectFails /\ NoSession
  BY <1>3, <1>7 DEF OnConnectFails, CloseAndRestart, NwSesClose
<1>8. CASE OnReconnectTimeout /\ NoSession
  <2>1. state # "connected" /\ UNCHANGED <<writeBuf, wire, readBuf>>
    BY <1>8 DEF NetInv, CltOK, OnReconnectTimeout, sesVars
  <2> QED
    BY <1>3, <1>8, <2>1 DEF NetInv, CltOK
<1>9. CASE OnConnectTimeout /\ IF ~called THEN NoSession ELSE UNCHANGED <<ses, sent, message, got>>
  <2>1. CASE ~called
    <3>1. CloseAndStart
      BY <1>9, <2>1 DEF OnConnectTimeout
    <3> QED
      BY <1>3, <1>9, <2>1, <3>1 DEF CloseAndStart, NwSesClose
  <2>2. CASE called
    <3>1. UNCHANGED sesVars /\ UNCHANGED <<ses, sent, message, got>>
      BY <1>9, <2>2 DEF OnConnectTimeout
    <3>2. UNCHANGED <<talk, writeBuf, wire, readBuf, sent, got, ses, message>>
      BY <1>1, <3>1 DEF sesVars
    <3> QED
      BY <3>2, EndKeeps DEF NetInv
  <2> QED
    BY <2>1, <2>2
<1> QED
  BY <1>2, <1>4, <1>5, <1>6, <1>7, <1>8, <1>9 DEF Connect, Started, Answered, Accepted

\* on_close, on_error, and the time-out of the client
LEMMA DisconnectKeeps ==
    ASSUME NoHttp, NetInv, talk' = talk, OnCloseOrError \/ HeartbeatTimeout, NoSession
    PROVE  NetTypes' /\ \E d \in 0..sent' : SessionOK(d)'
<1>1. writeBuf' = <<>> /\ wire' = <<>> /\ readBuf' = <<>>
  BY DEF OnCloseOrError, HeartbeatTimeout, CloseAndRestart, CloseAndStart, NwSesClose
<1>2. talk \in Talks
  BY DEF NetInv, NetTypes
<1> QED
  BY <1>1, <1>2, FreshOK DEF NoSession

\* What the socket takes of some bytes, and what it leaves
LEMMA WrittenIs ==
    ASSUME wire \in Seq(Byte), Len(wire) <= WireMax, NEW bytes \in Seq(Byte)
    PROVE  /\ Written(bytes) \in Seq(Byte) /\ Unwritten(bytes) \in Seq(Byte)
           /\ Written(bytes) \o Unwritten(bytes) = bytes
           /\ Len(Written(bytes)) \in Nat /\ Unwritten(bytes) = SubSeq(bytes, Len(Written(bytes)) + 1, Len(bytes))
           /\ wire \o Written(bytes) \in Seq(Byte) /\ Len(wire \o Written(bytes)) <= WireMax
<1>1. Len(wire) \in Nat /\ Len(bytes) \in Nat /\ WireMax \in Nat
  BY LenProperties, SizesAssumption
<1>2. PICK k \in 0..Len(bytes) : k = Less(WireMax - Len(wire), Len(bytes)) /\ k <= WireMax - Len(wire)
  BY <1>1 DEF Less
<1>3. /\ SubSeq(bytes, 1, k) \in Seq(Byte) /\ SubSeq(bytes, k + 1, Len(bytes)) \in Seq(Byte)
      /\ SubSeq(bytes, 1, k) \o SubSeq(bytes, k + 1, Len(bytes)) = bytes
      /\ Len(SubSeq(bytes, 1, k)) = k
  BY CutJoins
<1>4. Written(bytes) = SubSeq(bytes, 1, k)
  BY <1>2 DEF Written
<1>5. Len(Written(bytes)) = k
  BY <1>3, <1>4
<1>6. Unwritten(bytes) = SubSeq(bytes, k + 1, Len(bytes))
  BY <1>5 DEF Unwritten
<1>7. PICK w \in Seq(Byte) : w = Written(bytes) /\ Len(w) = k
  BY <1>3, <1>4
<1>8. wire \o w \in Seq(Byte) /\ Len(wire \o w) = Len(wire) + Len(w)
  BY ConcatProperties
<1>9. Len(wire \o w) <= WireMax
  BY <1>1, <1>2, <1>7, <1>8
<1>10. wire \o Written(bytes) \in Seq(Byte) /\ Len(wire \o Written(bytes)) <= WireMax
  BY <1>7, <1>8, <1>9
<1>11. Written(bytes) \in Seq(Byte) /\ Unwritten(bytes) \in Seq(Byte) /\ Written(bytes) \o Unwritten(bytes) = bytes
  BY <1>3, <1>4, <1>6
<1>12. Len(Written(bytes)) \in Nat
  BY <1>5
<1> QED
  BY <1>10, <1>11, <1>12 DEF Unwritten

\* nw_ses_send puts the bytes behind those under way.
LEMMA SendIs ==
    ASSUME NetTypes, NEW bytes \in Seq(Byte), NwSesSend(bytes)
    PROVE  /\ writeBuf' \in Seq(Buf) /\ wire' \in Seq(Byte) /\ Len(wire') <= WireMax /\ readBuf' = readBuf
           /\ wire' \o Pending(writeBuf') = (wire \o Pending(writeBuf)) \o bytes
<1>1. /\ writeBuf \in Seq(Buf) /\ wire \in Seq(Byte) /\ Len(wire) <= WireMax
      /\ readBuf' = readBuf /\ writeBuf' = ListAfter(bytes)
  BY DEF NetTypes, NwSesSend
<1>2. CASE writeBuf # <<>>
  <2>1. writeBuf' = NwBufListWrite(writeBuf, bytes) /\ wire' = wire
    BY <1>1, <1>2 DEF ListAfter, NwSesSend
  <2>2. writeBuf' \in Seq(Buf) /\ Pending(writeBuf') = Pending(writeBuf) \o bytes
    BY <1>1, <2>1, ListWriteIs
  <2>3. Pending(writeBuf) \in Seq(Byte)
    BY <1>1, PendingIs
  <2>4. (wire \o Pending(writeBuf)) \o bytes = wire \o (Pending(writeBuf) \o bytes)
    BY <1>1, <2>3, JoinAgain, Zenon
  <2> QED
    BY <1>1, <2>1, <2>2, <2>4
<1>3. CASE writeBuf = <<>>
  <2>1. writeBuf' = NwBufListWrite(writeBuf, Unwritten(bytes)) /\ wire' = wire \o Written(bytes)
    BY <1>1, <1>3 DEF ListAfter, NwSesSend
  <2>2. /\ Written(bytes) \in Seq(Byte) /\ Unwritten(bytes) \in Seq(Byte)
        /\ Written(bytes) \o Unwritten(bytes) = bytes
        /\ wire \o Written(bytes) \in Seq(Byte) /\ Len(wire \o Written(bytes)) <= WireMax
    BY <1>1, WrittenIs
  <2>3. writeBuf' \in Seq(Buf) /\ Pending(writeBuf') = Pending(writeBuf) \o Unwritten(bytes)
    BY <1>1, <2>1, <2>2, ListWriteIs
  <2>4. Pending(writeBuf) = <<>> /\ <<>> \o Unwritten(bytes) = Unwritten(bytes)
    BY <1>3, <2>2, PendingFew, ConcatEmptySeq
  <2>5. (wire \o Written(bytes)) \o Unwritten(bytes) = wire \o bytes
    <3>1. (wire \o Written(bytes)) \o Unwritten(bytes) = wire \o (Written(bytes) \o Unwritten(bytes))
      BY <1>1, <2>2, JoinAgain, Zenon
    <3> QED
      BY <2>2, <3>1
  <2>6. wire \o Pending(writeBuf) = wire
    BY <1>1, <2>4, ConcatEmptySeq
  <2> QED
    BY <1>1, <2>1, <2>2, <2>3, <2>4, <2>5, <2>6
<1> QED
  BY <1>2, <1>3

LEMMA SendKeeps ==
    ASSUME NoHttp, NetInv, Send
    PROVE  NetTypes' /\ \E d \in 0..sent' : SessionOK(d)'
<1>1. talk \in Talks /\ talk' = talk
  BY DEF NetInv, NetTypes, Send
<1>2. CASE OnCloseOrError /\ NoSession
  BY <1>1, <1>2, DisconnectKeeps
<1>3. CASE NwSesSend(Bytes(sent + 1)) /\ sent' = sent + 1 /\ UNCHANGED <<cltVars, ses, message, got>>
  <2>1. SizesOK(talk.packages) /\ Len(talk.packages) \in Nat
    BY <1>1, TalkIs DEF SizesOK
  <2>2. sent \in Nat /\ sent < Len(talk.packages) /\ sent + 1 \in 1..Len(talk.packages)
    BY <2>1 DEF NetInv, NetTypes, Send, MaySend
  <2>3. PICK b \in Seq(Byte) : b = Bytes(sent + 1) /\ b = BytesOf(talk.packages, sent + 1)
    BY <1>1, <2>2, TalkIs
  <2>4. /\ writeBuf' \in Seq(Buf) /\ wire' \in Seq(Byte) /\ Len(wire') <= WireMax /\ readBuf' = readBuf
        /\ wire' \o Pending(writeBuf') = (wire \o Pending(writeBuf)) \o b
    <3>1. NwSesSend(b)
      BY <1>3, <2>3
    <3> QED
      BY <3>1, SendIs DEF NetInv
  <2>5. NetTypes'
    <3>1. sent' \in 0..Len(talk'.packages)
      BY <1>1, <1>3, <2>1, <2>2
    <3>2. readBuf \in Seq(Byte)
      BY DEF NetInv, NetTypes
    <3> QED
      BY <1>1, <2>4, <3>1, <3>2 DEF NetTypes
  <2>6. PICK d \in 0..sent : SessionOK(d)
    BY DEF NetInv
  <2>7. ASSUME ses' # "none"
        PROVE  Stream(talk.packages, readBuf' \o (wire' \o Pending(writeBuf')), d, sent')
    <3>1. readBuf \in Seq(Byte) /\ wire \in Seq(Byte) /\ Pending(writeBuf) \in Seq(Byte)
      BY PendingIs DEF NetInv, NetTypes
    <3>2. PICK u \in Seq(Byte) : u = wire \o Pending(writeBuf)
      BY <3>1, ConcatProperties
    <3>3. (readBuf \o u) \o b = readBuf \o (u \o b)
      BY <3>1, JoinAgain, ZenonT(60)
    <3>4. Stream(talk.packages, readBuf \o u, d, sent)
      BY <1>3, <2>6, <2>7, <3>2 DEF SessionOK
    <3>5. Stream(talk.packages, (readBuf \o u) \o b, d, sent + 1)
      BY <2>1, <2>2, <2>3, <3>4, StreamGrows
    <3> QED
      BY <1>3, <2>4, <3>2, <3>3, <3>5
  <2>8. \A h : IsMeaning(h) => RecvOK(h, Receiver(ses', message', got'), d)
    BY <1>3, <2>6 DEF SessionOK
  <2>9. SessionOK(d)'
    BY <1>1, <2>7, <2>8, SessionThen
  <2>10. d \in 0..sent'
    BY <1>3, <2>2
  <2> QED
    BY <2>5, <2>9, <2>10
<1> QED
  BY <1>2, <1>3 DEF Send

\* on_can_write moves the front of what waits into the sockets.
LEMMA WriteKeeps ==
    ASSUME NetInv, Write
    PROVE  NetTypes' /\ \E d \in 0..sent' : SessionOK(d)'
<1>1. /\ writeBuf \in Seq(Buf) /\ wire \in Seq(Byte) /\ Len(wire) <= WireMax /\ readBuf \in Seq(Byte)
      /\ UNCHANGED <<talk, ses, sent, message, got, readBuf>>
  BY DEF NetInv, NetTypes, Write, OnCanWrite
<1>2. PICK p \in Seq(Byte) : p = Pending(writeBuf)
  BY <1>1, PendingIs
<1>3. wire' = wire \o Written(p) /\ writeBuf' = NwBufListShift(writeBuf, Len(Written(p)))
  BY <1>2 DEF Write, OnCanWrite
<1>4. /\ Written(p) \in Seq(Byte) /\ Unwritten(p) \in Seq(Byte)
      /\ Written(p) \o Unwritten(p) = p
      /\ Len(Written(p)) \in Nat /\ Unwritten(p) = SubSeq(p, Len(Written(p)) + 1, Len(p))
      /\ wire \o Written(p) \in Seq(Byte) /\ Len(wire \o Written(p)) <= WireMax
  BY <1>1, WrittenIs
<1>5. writeBuf' \in Seq(Buf) /\ Pending(writeBuf') = Unwritten(p)
  <2>1. PICK n \in Nat : n = Len(Written(p))
    BY <1>4
  <2>2. /\ NwBufListShift(writeBuf, n) \in Seq(Buf)
        /\ Pending(NwBufListShift(writeBuf, n)) = SubSeq(Pending(writeBuf), n + 1, Len(Pending(writeBuf)))
    BY <1>1, ListShiftIs
  <2> QED
    BY <1>2, <1>3, <1>4, <2>1, <2>2
<1>6. wire' \o Pending(writeBuf') = wire \o Pending(writeBuf)
  <2>1. (wire \o Written(p)) \o Unwritten(p) = wire \o (Written(p) \o Unwritten(p))
    BY <1>1, <1>4, JoinAgain, ZenonT(60)
  <2> QED
    BY <1>2, <1>3, <1>4, <1>5, <2>1
<1>7. NetTypes'
  BY <1>1, <1>3, <1>4, <1>5 DEF NetInv, NetTypes
<1>8. PICK d \in 0..sent : SessionOK(d)
  BY DEF NetInv
<1>9. ses' # "none" => Stream(talk.packages, readBuf' \o (wire' \o Pending(writeBuf')), d, sent')
  BY <1>1, <1>6, <1>8 DEF SessionOK
<1>10. \A h : IsMeaning(h) => RecvOK(h, Receiver(ses', message', got'), d)
  BY <1>1, <1>8 DEF SessionOK
<1>11. SessionOK(d)'
  BY <1>1, <1>9, <1>10, SessionThen
<1> QED
  BY <1>1, <1>7, <1>8, <1>11

\* on_can_read takes bytes from the sockets, then the packages that are whole.
LEMMA ReceiveKeeps ==
    ASSUME NoHttp, NetInv, Receive
    PROVE  NetTypes' /\ \E d \in 0..sent' : SessionOK(d)'
<1>1. /\ talk \in Talks /\ writeBuf \in Seq(Buf) /\ wire \in Seq(Byte) /\ Len(wire) <= WireMax /\ readBuf \in Seq(Byte)
      /\ sent \in 0..Len(talk.packages)
      /\ UNCHANGED <<talk, sent, writeBuf>>
  BY DEF NetInv, NetTypes, Receive, OnCanRead
<1>2. /\ SizesOK(talk.packages) /\ ~IsHttp /\ sent \in Nat /\ sent <= Len(talk.packages) /\ Len(talk.packages) \in Nat
      /\ Len(wire) \in Nat /\ WireMax \in Nat
  BY <1>1, TalkIs, LenProperties, SizesAssumption DEF SizesOK
<1>3. PICK n \in 1..Len(wire) :
          LET decoded == Decode(Arrived(n))
              after == OnRecvPkgs(decoded.pkgs)
          IN  /\ OnCanRead(n, decoded.rest)
              /\ got' = after.got
              /\ ses' = IF DecodeError(decoded) THEN "none" ELSE after.ses
              /\ message' = IF DecodeError(decoded) THEN <<>> ELSE after.message
  BY DEF Receive
<1>4. PICK x : x = PkgDecode(Arrived(n))
  OBVIOUS
<1>5. PICK after : after = OnRecvPkgs(x.pkgs)
  OBVIOUS
<1>6. /\ wire' = SubSeq(wire, n + 1, Len(wire)) /\ readBuf' = x.rest
      /\ got' = after.got
      /\ ses' = IF DecodeError(x) THEN "none" ELSE after.ses
      /\ message' = IF DecodeError(x) THEN <<>> ELSE after.message
  BY <1>2, <1>3, <1>4, <1>5 DEF Decode, OnCanRead
<1>7. PICK d \in 0..sent : SessionOK(d)
  BY DEF NetInv
<1>8. d \in Nat
  BY <1>2
<1>9. PICK p \in Seq(Byte) : p = Pending(writeBuf)
  BY <1>1, PendingIs
<1>10. PICK k \in 0..Len(wire) : k = n
  BY <1>2
<1>11. PICK w1, w2 : w1 = SubSeq(wire, 1, k) /\ w2 = SubSeq(wire, k + 1, Len(wire))
  OBVIOUS
<1>12. w1 \in Seq(Byte) /\ w2 \in Seq(Byte) /\ w1 \o w2 = wire /\ Len(w2) = Len(wire) - k
  <2>1. /\ SubSeq(wire, 1, k) \in Seq(Byte) /\ SubSeq(wire, k + 1, Len(wire)) \in Seq(Byte)
        /\ SubSeq(wire, 1, k) \o SubSeq(wire, k + 1, Len(wire)) = wire
        /\ Len(SubSeq(wire, k + 1, Len(wire))) = Len(wire) - k
    BY <1>1, CutJoins
  <2> QED
    BY <1>11, <2>1
<1>13. PICK t \in Seq(Byte), u \in Seq(Byte) : t = readBuf \o w1 /\ u = w2 \o p
  BY <1>1, <1>12, ConcatProperties
<1>14. t = Arrived(n) /\ wire' = w2
  BY <1>6, <1>10, <1>11, <1>13 DEF Arrived
<1>15. t \o u = readBuf \o (wire \o p)
  <2>1. (readBuf \o w1) \o u = readBuf \o (w1 \o u)
    <3>1. readBuf \in Seq(Byte) /\ w1 \in Seq(Byte) /\ u \in Seq(Byte)
      BY <1>1, <1>12
    <3> QED
      BY <3>1, JoinAgain, ZenonT(60)
  <2>2. (w1 \o w2) \o p = w1 \o (w2 \o p)
    BY <1>12, JoinAgain, ZenonT(60)
  <2> QED
    BY <1>12, <1>13, <2>1, <2>2
<1>16. Stream(talk.packages, t \o u, d, sent)
  BY <1>7, <1>9, <1>15 DEF SessionOK, Receive
<1>17. DecodeOK(talk.packages, x, d, u, sent)
  <2>1. DecodeOK(talk.packages, PkgDecode(t), d, u, sent)
    BY <1>2, <1>8, <1>16, PkgDecodeIs
  <2> QED
    BY <1>4, <1>14, <2>1
<1>18. PICK pkgs \in Seq(Nat), r \in Seq(Byte) :
           /\ pkgs = x.pkgs /\ r = x.rest
           /\ \A i \in 1..Len(pkgs) : pkgs[i] = d + i
           /\ Stream(talk.packages, r \o u, d + Len(pkgs), sent)
  BY <1>17 DEF DecodeOK
<1>19. PICK e \in Nat : e = d + Len(pkgs) /\ Stream(talk.packages, r \o u, e, sent) /\ e <= sent
  <2>1. d + Len(pkgs) \in Nat
    BY <1>8, <1>18, LenProperties
  <2> QED
    BY <1>18, <2>1 DEF Stream
<1>20. \A h : IsMeaning(h) => RecvOK(h, after, e)
  <2>1. SUFFICES ASSUME NEW h, IsMeaning(h) PROVE RecvOK(h, after, e)
    OBVIOUS
  <2>2. RecvOK(h, Receiver(ses, message, got), d)
    BY <1>7, <2>1 DEF SessionOK
  <2>3. e <= Len(talk.packages)
    BY <1>2, <1>19
  <2>4. RecvOK(h, OnRecvPkgs(pkgs), e)
    BY <1>1, <1>8, <1>18, <1>19, <2>1, <2>2, <2>3, RecvPkgsIs
  <2> QED
    BY <1>5, <1>18, <2>4
<1>21. ASSUME NEW h, IsMeaning(h) PROVE RecvOK(h, Receiver(ses', message', got'), e)
  <2>1. RecvOK(h, after, e) /\ after \in Receivers
    BY <1>20, <1>21 DEF RecvOK
  <2>2. after = Receiver(after.ses, after.message, after.got)
    BY <2>1 DEF Receivers, Receiver
  <2>3. CASE DecodeError(x)
    <3>1. PICK a, m, g : a = after.ses /\ m = after.message /\ g = after.got
      OBVIOUS
    <3>2. RecvOK(h, Receiver(a, m, g), e)
      BY <2>1, <2>2, <3>1
    <3>3. RecvOK(h, Receiver("none", <<>>, g), e)
      BY <3>2, ClosedOK
    <3> QED
      BY <1>6, <2>3, <3>1, <3>3
  <2>4. CASE ~DecodeError(x)
    BY <1>6, <2>1, <2>2, <2>4
  <2> QED
    BY <2>3, <2>4
<1>22. Stream(talk.packages, readBuf' \o (wire' \o Pending(writeBuf')), e, sent')
  BY <1>1, <1>6, <1>9, <1>13, <1>14, <1>18, <1>19
<1>23. SessionOK(e)'
  BY <1>1, <1>21, <1>22, SessionThen
<1>24. NetTypes'
  <2>1. wire' \in Seq(Byte) /\ readBuf' \in Seq(Byte)
    BY <1>6, <1>12, <1>14, <1>18
  <2>2. Len(wire') <= WireMax
    BY <1>1, <1>2, <1>12, <1>14
  <2> QED
    BY <1>1, <2>1, <2>2 DEF NetTypes
<1>25. e \in 0..sent'
  BY <1>1, <1>2, <1>19
<1> QED
  BY <1>23, <1>24, <1>25

-----------------------------------------------------------------------------

LEMMA NetInit == ASSUME NoHttp, Init PROVE NetInv
<1>1. talk \in Talks /\ ses = "none" /\ sent = 0 /\ message = <<>> /\ got = <<>>
  BY DEF Init
<1>2. writeBuf = <<>> /\ wire = <<>> /\ readBuf = <<>> /\ watching = "none"
  BY DEF Init, NwSesInit
<1>3. CltOK
  BY <1>2 DEF Init, RpcCltStart, CltOK
<1>4. SizesOK(talk.packages) /\ Len(talk.packages) \in Nat
  BY <1>1, TalkIs DEF SizesOK
<1>5. <<>> \in Seq(Byte) /\ <<>> \in Seq(Buf) /\ Len(<<>>) = 0 /\ 0 <= WireMax
  BY PendingFew, EmptySeq, SizesAssumption
<1>6. NetTypes
  <2>1. sent \in 0..Len(talk.packages)
    BY <1>1, <1>4
  <2>2. Len(wire) <= WireMax
    BY <1>2, <1>5
  <2> QED
    BY <1>1, <1>2, <1>5, <2>1, <2>2 DEF NetTypes
<1>7. \A h : IsMeaning(h) => RecvOK(h, Receiver(ses, message, got), 0)
  BY <1>1, OpenedOK
<1>8. SessionOK(0)
  BY <1>1, <1>7 DEF SessionOK
<1>9. 0 \in 0..sent
  BY <1>1
<1> QED
  BY <1>3, <1>6, <1>8, <1>9 DEF NetInv

LEMMA NetKeeps == ASSUME NoHttp, NetInv, [Next]_vars PROVE NetInv'
<1>1. CltOK'
  BY CltKeeps DEF NetInv
<1> SUFFICES NetTypes' /\ \E d \in 0..sent' : SessionOK(d)'
  BY <1>1 DEF NetInv
<1>2. CASE Connect
  BY <1>2, ConnectKeeps
<1>3. CASE Disconnect
  BY <1>3, DisconnectKeeps DEF Disconnect
<1>4. CASE KeepAliveTimeout
  <2>1. /\ UNCHANGED <<talk, writeBuf, wire, readBuf, sent, got>>
        /\ ses' = "none" /\ message' = <<>>
    BY <1>4 DEF KeepAliveTimeout, sesVars
  <2> QED
    BY <2>1, EndKeeps DEF NetInv
<1>5. ASSUME NEW s \in Servers, Crash(s) PROVE NetTypes' /\ \E d \in 0..sent' : SessionOK(d)'
  <2>1. /\ UNCHANGED <<talk, writeBuf, wire, readBuf, sent, got>>
        /\ \/ ses' = "none" /\ message' = <<>>
           \/ ses' = ses /\ message' = message
    BY <1>5 DEF Crash, sesVars
  <2> QED
    BY <2>1, EndKeeps DEF NetInv
<1>6. ASSUME NEW s \in Servers, Restart(s) PROVE NetTypes' /\ \E d \in 0..sent' : SessionOK(d)'
  <2>1. UNCHANGED <<talk, writeBuf, wire, readBuf, sent, got>> /\ ses' = ses /\ message' = message
    BY <1>6 DEF Restart, sesVars
  <2> QED
    BY <2>1, EndKeeps DEF NetInv
<1>7. CASE Send
  BY <1>7, SendKeeps
<1>8. CASE Write
  BY <1>8, WriteKeeps
<1>9. CASE Receive
  BY <1>9, ReceiveKeeps
<1>10. CASE UNCHANGED vars
  <2>1. UNCHANGED <<talk, writeBuf, wire, readBuf, sent, got>> /\ ses' = ses /\ message' = message
    BY <1>10 DEF vars, sesVars
  <2> QED
    BY <2>1, EndKeeps DEF NetInv
<1> QED
  BY <1>2, <1>3, <1>4, <1>5, <1>6, <1>7, <1>8, <1>9, <1>10 DEF Next

LEMMA NetIntact == ASSUME NoHttp, NetInv PROVE MessagesIntact
<1>1. talk \in Talks /\ sent \in 0..Len(talk.packages)
  BY DEF NetInv, NetTypes
<1>2. PICK h : IsMeaning(h)
  BY <1>1, MeaningIs
<1>3. PICK d \in 0..sent : SessionOK(d)
  BY DEF NetInv
<1>4. PICK s : s = Receiver(ses, message, got)
  OBVIOUS
<1>5. s.ses = ses /\ s.got = got /\ RecvOK(h, s, d)
  BY <1>2, <1>3, <1>4 DEF Receiver, SessionOK
<1>6. PICK i \in 0..sent : got = h[i].done
  <2>1. CASE ses # "none"
    BY <1>5, <2>1 DEF RecvOK
  <2>2. CASE ses = "none"
    <3>1. PICK k \in 0..d : got = h[k].done
      BY <1>5, <2>2 DEF RecvOK
    <3>2. k \in 0..sent
      BY <1>1
    <3> QED
      BY <3>1, <3>2
  <2> QED
    BY <2>1, <2>2
<1>7. PICK meant : meant = Meant(sent)
  OBVIOUS
<1>8. Begins(got, meant)
  <2>1. Meant(sent) = h[sent].done
    BY <1>1, <1>2, MeantIs
  <2>2. Begins(h[i].done, h[sent].done)
    BY <1>1, <1>2, DoneGrows
  <2> QED
    BY <1>6, <1>7, <2>1, <2>2
<1>9. DOMAIN got = 1..Len(got)
  BY <1>8, LenProperties DEF Begins
<1>10. Len(got) <= Len(meant) /\ \A j \in DOMAIN got : got[j] = meant[j]
  BY <1>8, <1>9 DEF Begins
<1> QED
  BY <1>7, <1>10 DEF MessagesIntact

\* MessagesIntact, in the rpc and the websocket protocol, for every talk, every size of
\* buffers, sockets and packages, and every setting of a client (nw_ses.c, nw_buf.c, rpc_decode,
\* decode_pkg, on_recv_pkg): what the callback of a server was given on a connection is a
\* prefix of what was sent on it.
THEOREM WhatIsSentIsReceived == ASSUME NoHttp PROVE Spec => []MessagesIntact
<1>1. Init => NetInv
  BY NetInit
<1>2. NetInv /\ [Next]_vars => NetInv'
  BY NetKeeps
<1>3. NetInv => MessagesIntact
  BY NetIntact
<1> QED
  BY <1>1, <1>2, <1>3, PTL DEF Spec
==============================================================================
