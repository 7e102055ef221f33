---------------------------- MODULE CodecProofs ----------------------------
(***************************************************************************)
(* What Codec promises, for every stream of packets, every way of cutting  *)
(* it into chunks, every size of the receive buffer and of packet_len: the *)
(* receive thread follows the stream packet by packet until one of three   *)
(* things happens, and comes out of its loop; and of what it follows, the  *)
(* application is told exactly what the protocol allows.  Both suppose     *)
(* that 16 bits hold the lengths of the stream (Sized).                    *)
(***************************************************************************)
EXTENDS Codec, SequenceTheorems, WellFoundedInduction, TLAPS

-----------------------------------------------------------------------------
(* Recursion over numbers.  A definition by recursion is a CHOOSE: that    *)
(* the function exists, and what it is, is proved from the least number    *)
(* where it would fail.                                                    *)

LEMMA MinIs ==
  ASSUME NEW S \in SUBSET Nat, S # {}
  PROVE  Min(S) \in S /\ \A y \in S : Min(S) <= y
<1>1. PICK x \in S : \A y \in S : ~(<<y, x>> \in OpToRel(<, Nat))
  BY NatLessThanWellFounded, WFMin
<1>2. \A y \in S : x <= y
  <2>1. ASSUME NEW y \in S, ~(x <= y) PROVE FALSE
    <3>1. <<y, x>> \in OpToRel(<, Nat)
      BY <2>1 DEF OpToRel
    <3>. QED BY <3>1, <1>1
  <2>. QED BY <2>1
<1>. QED BY <1>2 DEF Min

\* The l elements behind the first o.
Cut(s, o, l) == SubSeq(s, o + 1, o + l)

LEMMA CutLen ==
  ASSUME NEW s, NEW o \in Nat, NEW l \in Nat
  PROVE  Len(Cut(s, o, l)) = l
<1>1. PICK a \in Int, b \in Int : a = o + 1 /\ b = o + l
  OBVIOUS
<1>2. Len(SubSeq(s, a, b)) = IF a <= b THEN b - a + 1 ELSE 0
  <2> DEFINE S == {s[i] : i \in a..b}
  <2>1. \A i \in a..b : s[i] \in S
    OBVIOUS
  <2>. HIDE DEF S
  <2>. QED BY <2>1, SubSeqProperties
<1>. QED BY <1>1, <1>2 DEF Cut

LEMMA CutIs ==
  ASSUME NEW S, NEW n \in Nat, NEW s \in [1..n -> S], NEW o \in Nat, NEW l \in Nat, o + l <= n
  PROVE  /\ Cut(s, o, l) \in Seq(S) /\ Len(Cut(s, o, l)) = l
         /\ \A i \in 1..l : Cut(s, o, l)[i] = s[o + i]
<1>1. PICK a \in Int, b \in Int : a = o + 1 /\ b = o + l
  OBVIOUS
<1>2. /\ SubSeq(s, a, b) \in Seq(S)
      /\ Len(SubSeq(s, a, b)) = IF a <= b THEN b - a + 1 ELSE 0
      /\ \A i \in 1..b - a + 1 : SubSeq(s, a, b)[i] = s[a + i - 1]
  <2>1. \A i \in a..b : s[i] \in S
    BY <1>1
  <2>. QED BY <2>1, SubSeqProperties
<1>3. b - a + 1 = l /\ Len(SubSeq(s, a, b)) = l
  BY <1>1, <1>2
<1>4. \A i \in 1..l : SubSeq(s, a, b)[i] = s[o + i]
  <2>1. \A i \in 1..l : a + i - 1 = o + i
    BY <1>1
  <2>. QED BY <2>1, <1>2, <1>3
<1>5. Cut(s, o, l) = SubSeq(s, a, b)
  BY <1>1 DEF Cut
<1>. QED BY <1>2, <1>3, <1>4, <1>5

LEMMA CutEquals ==
  ASSUME NEW S, NEW n \in Nat, NEW s \in [1..n -> S], NEW o \in Nat, NEW t \in Seq(S),
         o + Len(t) <= n, \A i \in 1..Len(t) : s[o + i] = t[i]
  PROVE  Cut(s, o, Len(t)) = t
<1>1. PICK l \in Nat : l = Len(t)
  OBVIOUS
<1>2. /\ Cut(s, o, l) \in Seq(S) /\ Len(Cut(s, o, l)) = l
      /\ \A i \in 1..l : Cut(s, o, l)[i] = s[o + i]
  <2>1. o + l <= n
    BY <1>1
  <2>2. Cut(s, o, l) \in Seq(S)
    BY <2>1, CutIs
  <2>3. Len(Cut(s, o, l)) = l
    BY <2>1, CutIs
  <2>4. ASSUME NEW i \in 1..l PROVE Cut(s, o, l)[i] = s[o + i]
    BY <2>1, CutIs, SMTT(20)
  <2>. QED BY <2>2, <2>3, <2>4
<1>3. \A i \in 1..l : Cut(s, o, l)[i] = t[i]
  BY <1>1, <1>2
<1> DEFINE c == Cut(s, o, l)
<1>4. c \in Seq(S) /\ Len(c) = Len(t) /\ \A i \in 1..Len(c) : c[i] = t[i]
  BY <1>1, <1>2, <1>3
<1>. HIDE DEF c
<1>5. c = t
  BY <1>4, SeqEqual
<1>. QED BY <1>1, <1>5 DEF c

\* f is the recursive function with f[0] = b and f[i] = G[i, f[i - 1]].
Recursive(f, m, b, G) == f[0] = b /\ \A i \in 1..m : f[i] = G[<<i, f[i - 1]>>]

LEMMA RecursionExists ==
  ASSUME NEW S, NEW m \in Nat, NEW b \in S, NEW G \in [(1..m) \X S -> S]
  PROVE  \E f \in [0..m -> S] : Recursive(f, m, b, G)
<1> DEFINE Good(k) == \E f \in [0..k -> S] : Recursive(f, k, b, G)
           Bad == {k \in 0..m : ~Good(k)}
<1>1. CASE Bad = {}
  <2>1. m \in 0..m
    OBVIOUS
  <2>. QED BY <1>1, <2>1
<1>2. CASE Bad # {}
  <2>1. PICK k \in Bad : \A j \in Bad : k <= j
    <3>1. Bad \in SUBSET Nat
      OBVIOUS
    <3>. HIDE DEF Bad
    <3>. QED BY <3>1, <1>2, MinIs
  <2>2. k \in 0..m /\ ~Good(k)
    BY <2>1
  <2>3. k # 0
    <3>1. SUFFICES ASSUME k = 0 PROVE FALSE
      OBVIOUS
    <3>2. [i \in 0..0 |-> b] \in [0..0 -> S] /\ Recursive([i \in 0..0 |-> b], 0, b, G)
      BY DEF Recursive
    <3>. QED BY <3>1, <3>2, <2>2
  <2>4. k - 1 \in 0..m /\ k - 1 \notin Bad /\ k \in 1..m
    BY <2>1, <2>2, <2>3
  <2>5. PICK f \in [0..k - 1 -> S] : Recursive(f, k - 1, b, G)
    BY <2>4
  <2> DEFINE g == [i \in 0..k |-> IF i = k THEN G[<<k, f[k - 1]>>] ELSE f[i]]
  <2>6. g \in [0..k -> S]
    <3>1. f[k - 1] \in S
      BY <2>4
    <3>2. G[<<k, f[k - 1]>>] \in S
      BY <3>1, <2>4
    <3>3. \A i \in 0..k : i # k => i \in 0..k - 1
      BY <2>4
    <3>. QED BY <3>2, <3>3
  <2>7. Recursive(g, k, b, G)
    <3>1. g[0] = b
      BY <2>4, <2>5 DEF Recursive
    <3>2. ASSUME NEW i \in 1..k PROVE g[i] = G[<<i, g[i - 1]>>]
      <4>1. i \in 0..k /\ i - 1 \in 0..k /\ i - 1 # k /\ g[i - 1] = f[i - 1]
        BY <2>4
      <4>2. CASE i = k
        BY <4>1, <4>2
      <4>3. CASE i # k
        <5>1. i \in 1..k - 1
          BY <4>3, <2>4
        <5>. QED BY <4>1, <4>3, <5>1, <2>5 DEF Recursive
      <4>. QED BY <4>2, <4>3
    <3>. HIDE DEF g
    <3>. QED BY <3>1, <3>2 DEF Recursive
  <2>. HIDE DEF g
  <2>. QED BY <2>2, <2>6, <2>7
<1>. QED BY <1>1, <1>2

\* The recursive function of FlattenSeq.
Flattens(f, seqs) ==
  f = [i \in 1..Len(seqs) |-> IF i = 1 THEN seqs[i] ELSE f[i - 1] \o seqs[i]]

LEMMA FlattenIs ==
  ASSUME NEW T, NEW seqs \in Seq(Seq(T)), seqs # <<>>
  PROVE  \E f \in [1..Len(seqs) -> Seq(T)] :
           Flattens(f, seqs) /\ FlattenSeq(seqs) = f[Len(seqs)]
<1> DEFINE n == Len(seqs)
           S == Seq(T)
           G == [x \in (1..n) \X S |-> IF x[1] = 1 THEN seqs[1] ELSE x[2] \o seqs[x[1]]]
<1>1. n \in Nat /\ n # 0 /\ 1 \in 1..n /\ n \in 1..n /\ \A i \in 1..n : seqs[i] \in S
  OBVIOUS
<1>2. <<>> \in S /\ \A s, t \in S : s \o t \in S
  OBVIOUS
<1>3. G \in [(1..n) \X S -> S]
  <2>1. ASSUME NEW x \in (1..n) \X S
        PROVE  (IF x[1] = 1 THEN seqs[1] ELSE x[2] \o seqs[x[1]]) \in S
    <3>1. x[1] \in 1..n /\ x[2] \in S
      OBVIOUS
    <3>. HIDE DEF S
    <3>. QED BY <3>1, <1>1, <1>2
  <2>. HIDE DEF S
  <2>. QED BY <2>1
<1>4. PICK f \in [0..n -> S] : Recursive(f, n, <<>>, G)
  <2>. HIDE DEF S, G, n
  <2>. QED BY <1>1, <1>2, <1>3, RecursionExists
<1> DEFINE g == [i \in 1..n |-> f[i]]
<1>5. g \in [1..n -> S]
  <2>. HIDE DEF S
  <2>. QED BY <1>4
<1>6. Flattens(g, seqs)
  <2>1. ASSUME NEW i \in 1..n
        PROVE  f[i] = IF i = 1 THEN seqs[i] ELSE f[i - 1] \o seqs[i]
    <3>1. i - 1 \in 0..n
      BY <1>1
    <3>2. <<i, f[i - 1]>> \in (1..n) \X S
      BY <3>1, <1>4
    <3>3. G[<<i, f[i - 1]>>] = IF i = 1 THEN seqs[i] ELSE f[i - 1] \o seqs[i]
      <4>. HIDE DEF S, n
      <4>. QED BY <3>2
    <3>. HIDE DEF G, S
    <3>. QED BY <3>3, <1>4 DEF Recursive
  <2>2. \A i \in 1..n : i # 1 => i - 1 \in 1..n
    BY <1>1
  <2>. QED BY <2>1, <2>2 DEF Flattens
<1> DEFINE h == CHOOSE h : Flattens(h, seqs)
<1>7. Flattens(h, seqs)
  BY <1>6
<1>8. \A i \in 1..n : h[i] \in S
  <2> DEFINE Bad == {i \in 1..n : h[i] \notin S}
  <2>1. SUFFICES ASSUME Bad # {} PROVE FALSE
    OBVIOUS
  <2>2. Bad \in SUBSET Nat
    OBVIOUS
  <2>3. PICK k \in Bad : \A j \in Bad : k <= j
    <3>. HIDE DEF Bad
    <3>. QED BY <2>1, <2>2, MinIs
  <2>. HIDE DEF h
  <2>4. k \in 1..n /\ h[k] \notin S
    BY <2>3
  <2>5. h[k] = IF k = 1 THEN seqs[k] ELSE h[k - 1] \o seqs[k]
    BY <1>7, <2>4 DEF Flattens
  <2>6. k # 1 => k - 1 \in 1..n /\ k - 1 \notin Bad
    BY <2>3, <2>4
  <2>7. k # 1 => h[k - 1] \in S
    BY <2>6
  <2>. HIDE DEF S, n
  <2>. QED BY <2>4, <2>5, <2>7, <1>1, <1>2
<1>9. h = [i \in 1..n |-> h[i]]
  <2>. HIDE DEF h
  <2>. QED BY <1>7 DEF Flattens
<1>10. h \in [1..n -> S]
  <2>. HIDE DEF h, S, n
  <2>. QED BY <1>8, <1>9
<1>11. FlattenSeq(seqs) = h[n]
  BY <1>1 DEF FlattenSeq, Flattens
<1>. HIDE DEF h
<1>. QED BY <1>7, <1>10, <1>11

LEMMA FlattenAppend ==
  ASSUME NEW T, NEW seqs \in Seq(Seq(T)), NEW s \in Seq(T)
  PROVE  /\ FlattenSeq(seqs) \in Seq(T)
         /\ FlattenSeq(Append(seqs, s)) = FlattenSeq(seqs) \o s
<1> DEFINE n == Len(seqs)
           longer == Append(seqs, s)
<1>1. /\ n \in Nat /\ longer \in Seq(Seq(T)) /\ longer # <<>> /\ Len(longer) = n + 1
      /\ longer[n + 1] = s /\ \A i \in 1..n : longer[i] = seqs[i]
  <2> DEFINE U == Seq(T)
  <2>1. s \in U /\ seqs \in Seq(U)
    OBVIOUS
  <2>. HIDE DEF U
  <2>2. longer \in Seq(U) /\ Len(longer) = n + 1 /\ n \in Nat
    BY <2>1
  <2>3. longer[n + 1] = s /\ \A i \in 1..n : longer[i] = seqs[i]
    BY <2>1
  <2>. HIDE DEF longer, n
  <2>4. Seq(U) = Seq(Seq(T))
    BY DEF U
  <2>5. longer # <<>>
    BY <2>2
  <2>. QED BY <2>2, <2>3, <2>4, <2>5
<1>2. PICK g \in [1..n + 1 -> Seq(T)] : Flattens(g, longer) /\ FlattenSeq(longer) = g[n + 1]
  <2>. HIDE DEF longer
  <2>. QED BY <1>1, FlattenIs
<1>3. \A i \in 1..n + 1 : g[i] = IF i = 1 THEN longer[i] ELSE g[i - 1] \o longer[i]
  BY <1>1, <1>2 DEF Flattens
<1>4. CASE seqs = <<>>
  <2>1. FlattenSeq(seqs) = <<>>
    BY <1>4 DEF FlattenSeq
  <2>2. n = 0 /\ g[1] = s
    BY <1>1, <1>3, <1>4
  <2>. QED BY <2>1, <2>2, <1>2
<1>5. CASE seqs # <<>>
  <2>1. PICK f \in [1..n -> Seq(T)] : Flattens(f, seqs) /\ FlattenSeq(seqs) = f[n]
    BY <1>5, FlattenIs
  <2>2. \A i \in 1..n : f[i] = IF i = 1 THEN seqs[i] ELSE f[i - 1] \o seqs[i]
    BY <2>1 DEF Flattens
  <2>3. n # 0
    BY <1>5
  <2>. HIDE DEF longer, n
  <2>4. \A i \in 1..n : g[i] = f[i]
    <3> DEFINE Bad == {i \in 1..n : g[i] # f[i]}
    <3>1. SUFFICES ASSUME Bad # {} PROVE FALSE
      OBVIOUS
    <3>2. Bad \in SUBSET Nat
      OBVIOUS
    <3>3. PICK k \in Bad : \A j \in Bad : k <= j
      <4>. HIDE DEF Bad
      <4>. QED BY <3>1, <3>2, MinIs
    <3>4. k \in 1..n /\ g[k] # f[k]
      BY <3>3
    <3>5. k \in 1..n + 1 /\ (k # 1 => k - 1 \in 1..n /\ k - 1 \notin Bad)
      BY <3>3, <3>4, <1>1
    <3>6. k # 1 => g[k - 1] = f[k - 1]
      BY <3>5
    <3>7. g[k] = IF k = 1 THEN longer[k] ELSE g[k - 1] \o longer[k]
      BY <3>5, <1>3
    <3>8. f[k] = IF k = 1 THEN seqs[k] ELSE f[k - 1] \o seqs[k]
      BY <3>4, <2>2
    <3>9. longer[k] = seqs[k]
      BY <3>4, <1>1
    <3>. QED BY <3>4, <3>6, <3>7, <3>8, <3>9
  <2>5. g[n + 1] = f[n] \o s
    <3>1. n + 1 \in 1..n + 1 /\ n + 1 # 1 /\ n + 1 - 1 = n /\ n \in 1..n
      BY <2>3, <1>1
    <3>2. \A i \in 1..n + 1 : i # 1 => g[i] = g[i - 1] \o longer[i]
      BY <1>3
    <3>3. \A m \in 1..n + 1 : m # 1 /\ m - 1 = n => g[m] = g[n] \o longer[m]
      BY <3>2
    <3>4. g[n + 1] = g[n] \o longer[n + 1]
      <4> DEFINE m == n + 1
      <4>1. m \in 1..m /\ m # 1 /\ m - 1 = n
        BY <3>1
      <4>2. \A j \in 1..m : j # 1 /\ j - 1 = n => g[j] = g[n] \o longer[j]
        BY <3>3
      <4>. HIDE DEF m
      <4>3. g[m] = g[n] \o longer[m]
        BY <4>1, <4>2
      <4>. QED BY <4>3 DEF m
    <3>. QED BY <3>1, <3>4, <2>4, <1>1
  <2>6. f[n] \in Seq(T)
    BY <2>1, <2>3, <1>1
  <2>. QED BY <2>1, <2>5, <2>6, <1>2 DEF longer
<1>. QED BY <1>4, <1>5

-----------------------------------------------------------------------------
(* Numbers and their digits                                                *)

\* `value' is within four digits of an integer of variable length.
LEMMA Division ==
  ASSUME NEW a \in Nat
  PROVE  /\ a \div Base \in Nat /\ a % Base \in 0..Base - 1
         /\ a = Base * (a \div Base) + (a % Base)
         /\ a < Base => a \div Base = 0 /\ a % Base = a
<1>1. Base \in Nat /\ Base > 0
  BY Mqtt5Assumption
<1>. QED BY <1>1

\* The value of the digits, the count-th the last.
ValueOf(digit, count) ==
  LET d(k) == IF k <= count THEN digit[k] % 128 ELSE 0
  IN  d(1) + Base * (d(2) + Base * (d(3) + Base * d(4)))

\* An encoded number says itself where it ends, and what it is.
LEMMA DigitsAre ==
  ASSUME NEW v, Encodable(v)
  PROVE  /\ Digits(v) \in Seq(0..255) /\ Len(Digits(v)) \in 1..4
         /\ \A k \in 1..Len(Digits(v)) - 1 : Digits(v)[k] >= 128
         /\ Digits(v)[Len(Digits(v))] < 128
         /\ ValueOf(Digits(v), Len(Digits(v))) = v
<1> DEFINE q == Quotients(v)
           Small == {k \in 1..4 : q[k] < Base}
           d == Min(Small)
<1>1. v \in Nat /\ q[4] < Base /\ Base \in 2..128
  BY Mqtt5Assumption DEF Encodable
<1>2. /\ \A k \in 1..4 : q[k] \in Nat
      /\ q[1] = v /\ q[2] = q[1] \div Base /\ q[3] = q[2] \div Base /\ q[4] = q[3] \div Base
  <2>1. q[1] = v /\ q[2] = q[1] \div Base /\ q[3] = q[2] \div Base /\ q[4] = q[3] \div Base
    BY DEF Quotients
  <2>. HIDE DEF q
  <2>2. q[2] \in Nat
    BY <2>1, <1>1, Division
  <2>3. q[3] \in Nat
    BY <2>1, <2>2, Division
  <2>4. q[4] \in Nat
    BY <2>1, <2>3, Division
  <2>. QED BY <2>1, <2>2, <2>3, <2>4, <1>1
<1> HIDE DEF q
<1>3. d \in Small /\ \A k \in Small : d <= k
  <2>1. 4 \in Small /\ Small \in SUBSET Nat
    BY <1>1
  <2>. HIDE DEF Small
  <2>. QED BY <2>1, MinIs
<1>4. d \in 1..4 /\ q[d] < Base /\ \A k \in 1..4 : k < d => q[k] >= Base
  <2>. HIDE DEF d
  <2>. QED BY <1>1, <1>2, <1>3
<1>5. Digits(v) = [i \in 1..d |-> (q[i] % Base) + (IF i < d THEN 128 ELSE 0)]
  BY DEF Digits, q
<1> HIDE DEF d, Small
<1>6. \A k \in 1..4 : q[k] % Base \in 0..Base - 1
  BY <1>2, Division
<1>7. \A k \in 1..d : /\ Digits(v)[k] \in 0..255 /\ Digits(v)[k] % 128 = q[k] % Base
                      /\ Digits(v)[k] >= 128 <=> k < d
  <2>1. SUFFICES ASSUME NEW k \in 1..d
                 PROVE  /\ Digits(v)[k] \in 0..255 /\ Digits(v)[k] % 128 = q[k] % Base
                        /\ Digits(v)[k] >= 128 <=> k < d
    OBVIOUS
  <2>2. Digits(v)[k] = (q[k] % Base) + (IF k < d THEN 128 ELSE 0)
    BY <1>5
  <2>3. PICK r \in 0..127 : r = q[k] % Base
    BY <1>1, <1>4, <1>6
  <2>4. (r + 128) % 128 = r /\ r % 128 = r /\ r + 128 \in 0..255
    BY SMT
  <2>. QED BY <2>2, <2>3, <2>4, <1>4
<1>8. Digits(v) \in Seq(0..255) /\ Len(Digits(v)) = d
  BY <1>4, <1>5, <1>7
<1>9. ValueOf(Digits(v), d) = v
  <2> DEFINE e(k) == IF k <= d THEN q[k] % Base ELSE 0
  <2>1. ValueOf(Digits(v), d) = e(1) + Base * (e(2) + Base * (e(3) + Base * e(4)))
    BY <1>4, <1>7 DEF ValueOf
  <2>2. /\ q[1] = (q[1] % Base) + Base * q[2] /\ q[2] = (q[2] % Base) + Base * q[3]
        /\ q[3] = (q[3] % Base) + Base * q[4]
    <3>1. \A a \in Nat : a = (a % Base) + Base * (a \div Base)
      BY <1>1
    <3>. QED BY <3>1, <1>2
  <2>3. q[d] % Base = q[d]
    BY <1>2, <1>4, Division
  <2>4. Base * 0 = 0
    BY <1>1
  <2>5. d = 1 => e(1) = q[1] /\ e(2) = 0 /\ e(3) = 0 /\ e(4) = 0
    BY <2>3
  <2>6. d = 2 => e(1) = q[1] % Base /\ e(2) = q[2] /\ e(3) = 0 /\ e(4) = 0
    BY <2>3
  <2>7. d = 3 => e(1) = q[1] % Base /\ e(2) = q[2] % Base /\ e(3) = q[3] /\ e(4) = 0
    BY <2>3
  <2>8. d = 4 => e(1) = q[1] % Base /\ e(2) = q[2] % Base /\ e(3) = q[3] % Base /\ e(4) = q[4]
    BY <2>3
  <2>9. \A x \in Nat : x + 0 = x
    OBVIOUS
  <2>10. \A k \in 1..4 : q[k] % Base \in Nat
    BY <1>1, <1>6
  <2>. HIDE DEF e
  <2>11. e(1) + Base * (e(2) + Base * (e(3) + Base * e(4))) = q[1]
    <3>1. CASE d = 1
      BY <3>1, <2>4, <2>5, <1>2
    <3>2. CASE d = 2
      <4>1. e(3) + Base * e(4) = 0
        BY <3>2, <2>4, <2>6
      <4>2. e(2) + Base * (e(3) + Base * e(4)) = q[2]
        BY <4>1, <3>2, <2>4, <2>6, <1>2
      <4>. QED BY <4>2, <3>2, <2>2, <2>6
    <3>3. CASE d = 3
      <4>1. e(3) + Base * e(4) = q[3]
        BY <3>3, <2>4, <2>7, <1>2
      <4>2. e(2) + Base * (e(3) + Base * e(4)) = q[2]
        BY <4>1, <3>3, <2>2, <2>7
      <4>. QED BY <4>2, <3>3, <2>2, <2>7
    <3>4. CASE d = 4
      <4>1. e(3) + Base * e(4) = q[3]
        BY <3>4, <2>2, <2>8
      <4>2. e(2) + Base * (e(3) + Base * e(4)) = q[2]
        BY <4>1, <3>4, <2>2, <2>8
      <4>. QED BY <4>2, <3>4, <2>2, <2>8
    <3>. QED BY <3>1, <3>2, <3>3, <3>4, <1>4
  <2>. QED BY <2>1, <2>11, <1>2
<1>10. Digits(v)[d] < 128
  BY <1>4, <1>7
<1>. QED BY <1>4, <1>7, <1>8, <1>9, <1>10

-----------------------------------------------------------------------------
(* Packets and streams                                                     *)

Byte == 0..255

\* The digits of the length field of a packet.
Count(p) == Len(Digits(RemainingLength(p)))

LEMMA HeaderIsValid ==
  ASSUME NEW p \in Packet
  PROVE  Header(p) \in ValidHeaders /\ Header(p) \in Byte
<1>1. Sendable(p)
  BY PacketAssumption
<1>2. /\ p.type \in Acks \cup {"CONNACK", "PUBLISH", "PINGRESP", "DISCONNECT", "AUTH"}
      /\ p.qos \in 0..2
  BY <1>1 DEF Sendable
<1>3. CASE p.type = "PUBLISH"
  <2>1. Header(p) = 48 + 2 * p.qos
    BY <1>3 DEF Header
  <2>2. p.qos = 0 => 48 \in {h \in 48..63 : (h \div 2) % 4 # 3}
    BY SMT
  <2>3. p.qos = 1 => 50 \in {h \in 48..63 : (h \div 2) % 4 # 3}
    BY SMT
  <2>4. p.qos = 2 => 52 \in {h \in 48..63 : (h \div 2) % 4 # 3}
    BY SMT
  <2>. QED BY <2>1, <2>2, <2>3, <2>4, <1>2 DEF ValidHeaders, Byte
<1>4. CASE p.type # "PUBLISH"
  <2>1. Header(p) \in {32, 64, 80, 98, 112, 144, 176, 208, 224, 240}
    BY <1>2, <1>4 DEF Header, Acks
  <2>2. {32, 64, 80, 98, 112, 144, 176, 208, 224, 240} \subseteq ValidHeaders
    BY DEF ValidHeaders
  <2>. QED BY <2>1, <2>2 DEF Byte
<1>. QED BY <1>3, <1>4

LEMMA PacketIs ==
  ASSUME NEW p \in Packet
  PROVE  /\ RemainingLength(p) \in Nat /\ Count(p) \in 1..4
         /\ Bytes(p) \in Seq(Byte) /\ Len(Bytes(p)) = Size(p)
         /\ Size(p) = 1 + Count(p) + RemainingLength(p)
         /\ Bytes(p)[1] = Header(p)
         /\ \A k \in 1..Count(p) : Bytes(p)[1 + k] = Digits(RemainingLength(p))[k]
<1> DEFINE rest == RemainingLength(p)
           digits == Digits(rest)
           body == [i \in 1..rest |-> p.fill]
<1>1. Encodable(rest) /\ p.fill \in Byte
  BY PacketAssumption DEF Sendable, Byte
<1>2. rest \in Nat
  BY <1>1 DEF Encodable
<1>3. digits \in Seq(Byte) /\ Len(digits) \in 1..4
  <2>. HIDE DEF rest
  <2>. QED BY <1>1, DigitsAre DEF Byte
<1>4. Header(p) \in Byte
  BY HeaderIsValid
<1>. HIDE DEF digits, rest
<1>5. body \in Seq(Byte) /\ Len(body) = rest
  BY <1>1, <1>2
<1>. HIDE DEF body
<1>6. Bytes(p) = <<Header(p)>> \o digits \o body
  BY DEF Bytes, digits, rest, body
<1>7. <<Header(p)>> \in Seq(Byte)
  BY <1>4
<1>8. <<Header(p)>> \o digits \in Seq(Byte) /\ Len(<<Header(p)>> \o digits) = 1 + Len(digits)
  BY <1>3, <1>7
<1>9. /\ Bytes(p) \in Seq(Byte) /\ Len(Bytes(p)) = 1 + Len(digits) + rest
      /\ \A i \in 1..1 + Len(digits) : Bytes(p)[i] = (<<Header(p)>> \o digits)[i]
  BY <1>2, <1>3, <1>5, <1>6, <1>8
<1>10. /\ Bytes(p)[1] = Header(p)
       /\ \A k \in 1..Len(digits) : Bytes(p)[1 + k] = digits[k]
  BY <1>3, <1>7, <1>9
<1>11. Count(p) = Len(digits) /\ Size(p) = 1 + Len(digits) + rest
  BY DEF Count, Size, digits, rest
<1>12. digits = Digits(RemainingLength(p)) /\ rest = RemainingLength(p)
  BY DEF digits, rest
<1>. QED BY <1>2, <1>3, <1>9, <1>10, <1>11, <1>12

\* How many bytes of a stream lie before its k-th packet but one, and whether
\* the bytes of packet k + 1 follow there.
Start(s, k) == Len(BytesOf(Prefix(s, k)))

LEMMA PrefixIs ==
  ASSUME NEW T, NEW s \in Seq(T), NEW k \in 0..Len(s)
  PROVE  Prefix(s, k) = SubSeq(s, 1, k)
<1>1. {k, Len(s)} \in SUBSET Nat /\ {k, Len(s)} # {}
  OBVIOUS
<1>2. Min({k, Len(s)}) \in {k, Len(s)} /\ \A y \in {k, Len(s)} : Min({k, Len(s)}) <= y
  BY <1>1, MinIs
<1>3. Min({k, Len(s)}) = k
  BY <1>2
<1>. QED BY <1>3 DEF Prefix

LEMMA BytesOfNext ==
  ASSUME NEW s \in Seq(Packet), NEW k \in 0..Len(s)
  PROVE  /\ BytesOf(Prefix(s, k)) \in Seq(Byte)
         /\ k < Len(s) => BytesOf(Prefix(s, k + 1)) = BytesOf(Prefix(s, k)) \o Bytes(s[k + 1])
<1> DEFINE B(t) == [i \in DOMAIN t |-> Bytes(t[i])]
           S == Seq(Byte)
           t == SubSeq(s, 1, k)
<1>1. t \in Seq(Packet) /\ Prefix(s, k) = t
  BY PrefixIs
<1>2. B(t) \in Seq(S)
  <2>1. \A i \in DOMAIN t : t[i] \in Packet
    BY <1>1
  <2>2. \A i \in DOMAIN t : Bytes(t[i]) \in S
    BY <2>1, PacketIs
  <2>3. Len(t) \in Nat /\ DOMAIN t = 1..Len(t)
    BY <1>1
  <2>. HIDE DEF S, t
  <2>. QED BY <2>2, <2>3
<1>3. BytesOf(Prefix(s, k)) = FlattenSeq(B(t))
  BY <1>1 DEF BytesOf
<1>4. <<>> \in S
  OBVIOUS
<1>5. BytesOf(Prefix(s, k)) \in Seq(Byte)
  <2>. HIDE DEF B, t
  <2>. QED BY <1>2, <1>3, <1>4, FlattenAppend
<1>6. ASSUME k < Len(s)
      PROVE  BytesOf(Prefix(s, k + 1)) = BytesOf(Prefix(s, k)) \o Bytes(s[k + 1])
  <2> DEFINE u == SubSeq(s, 1, k + 1)
  <2>1. k + 1 \in 0..Len(s) /\ k + 1 \in 1..Len(s) /\ s[k + 1] \in Packet
    BY <1>6
  <2>2. Prefix(s, k + 1) = u /\ Bytes(s[k + 1]) \in S
    BY <2>1, PrefixIs, PacketIs
  <2>3. /\ DOMAIN u = 1..k + 1 /\ DOMAIN t = 1..k
        /\ \A i \in 1..k : u[i] = t[i]
        /\ u[k + 1] = s[k + 1]
    BY <2>1
  <2>4. B(u) = Append(B(t), Bytes(s[k + 1]))
    <3>1. B(t) = [i \in 1..k |-> Bytes(t[i])] /\ B(u) = [i \in 1..k + 1 |-> Bytes(u[i])]
      BY <2>3
    <3>2. Len(B(t)) = k
      BY <3>1
    <3>3. Append(B(t), Bytes(s[k + 1]))
            = [i \in 1..k + 1 |-> IF i = k + 1 THEN Bytes(s[k + 1]) ELSE B(t)[i]]
      <4>. HIDE DEF B, t, S
      <4>. QED BY <1>2, <2>2, <3>2
    <3>4. \A i \in 1..k + 1 :
            Bytes(u[i]) = IF i = k + 1 THEN Bytes(s[k + 1]) ELSE B(t)[i]
      <4>1. \A i \in 1..k + 1 : i # k + 1 => i \in 1..k
        OBVIOUS
      <4>. HIDE DEF t, u
      <4>. QED BY <2>3, <3>1, <4>1
    <3>. HIDE DEF t, u
    <3>. QED BY <3>1, <3>3, <3>4
  <2>5. BytesOf(Prefix(s, k + 1)) = FlattenSeq(B(u))
    BY <2>2 DEF BytesOf
  <2>. HIDE DEF B, t, u
  <2>. QED BY <1>2, <1>3, <2>2, <2>4, <2>5, FlattenAppend
<1>. QED BY <1>5, <1>6

\* The bytes before a packet are the first of the stream.
LEMMA BytesOfPrefix ==
  ASSUME NEW s \in Seq(Packet), NEW k \in 0..Len(s)
  PROVE  /\ Start(s, k) \in Nat /\ Start(s, k) <= Len(BytesOf(s))
         /\ \A i \in 1..Start(s, k) : BytesOf(s)[i] = BytesOf(Prefix(s, k))[i]
<1> DEFINE b(m) == BytesOf(Prefix(s, m))
           Good(m) == /\ Start(s, k) <= Len(b(m))
                      /\ \A i \in 1..Start(s, k) : b(m)[i] = b(k)[i]
           Bad == {m \in k..Len(s) : ~Good(m)}
<1>1. \A m \in 0..Len(s) : b(m) \in Seq(Byte) /\ Len(b(m)) \in Nat
  BY BytesOfNext
<1>2. \A m \in 0..Len(s) : m < Len(s) => b(m + 1) = b(m) \o Bytes(s[m + 1])
  BY BytesOfNext
<1>3. b(Len(s)) = BytesOf(s)
  BY PrefixIs
<1>4. Start(s, k) = Len(b(k)) /\ Len(s) \in Nat
  BY DEF Start
<1>5. Bad = {}
  <2>1. SUFFICES ASSUME Bad # {} PROVE FALSE
    OBVIOUS
  <2>2. Bad \in SUBSET Nat
    OBVIOUS
  <2>3. PICK m \in Bad : \A j \in Bad : m <= j
    <3>. HIDE DEF Bad
    <3>. QED BY <2>1, <2>2, MinIs
  <2>4. m \in k..Len(s) /\ ~Good(m)
    BY <2>3
  <2>5. m # k
    BY <1>1, <1>4, <2>4
  <2>6. m - 1 \in k..Len(s) /\ m - 1 \notin Bad
    BY <2>3, <2>4, <2>5
  <2>7. Good(m - 1)
    BY <2>6
  <2>8. m - 1 \in 0..Len(s) /\ m - 1 < Len(s) /\ m - 1 + 1 = m /\ s[m] \in Packet
    BY <2>4, <2>5
  <2>9. b(m) = b(m - 1) \o Bytes(s[m])
    BY <1>2, <2>8
  <2>10. b(m - 1) \in Seq(Byte) /\ Bytes(s[m]) \in Seq(Byte)
    BY <1>1, <2>8, PacketIs
  <2>11. Start(s, k) \in Nat
    BY <1>1, <1>4
  <2>. HIDE DEF b
  <2>. QED BY <2>4, <2>7, <2>9, <2>10, <2>11
<1>6. Len(s) \notin Bad /\ Len(s) \in k..Len(s)
  BY <1>4, <1>5
<1>7. Good(Len(s))
  BY <1>6
<1>. HIDE DEF b
<1>. QED BY <1>1, <1>3, <1>4, <1>7 DEF b

LEMMA StreamIs ==
  ASSUME NEW s \in Seq(Packet)
  PROVE  /\ BytesOf(s) \in Seq(Byte)
         /\ Start(s, 0) = 0 /\ Start(s, Len(s)) = Len(BytesOf(s))
         /\ \A k \in 0..Len(s) : Start(s, k) \in 0..Len(BytesOf(s))
         /\ \A k \in 0..Len(s) : k < Len(s) =>
              /\ s[k + 1] \in Packet
              /\ Start(s, k + 1) = Start(s, k) + Size(s[k + 1])
              /\ \A i \in 1..Size(s[k + 1]) :
                   BytesOf(s)[Start(s, k) + i] = Bytes(s[k + 1])[i]
<1> DEFINE b(m) == BytesOf(Prefix(s, m))
<1>1. 0 \in 0..Len(s) /\ Len(s) \in 0..Len(s)
  OBVIOUS
<1>2. Prefix(s, Len(s)) = s /\ Prefix(s, 0) = <<>>
  BY <1>1, PrefixIs
<1>3. BytesOf(s) \in Seq(Byte)
  BY <1>1, <1>2, BytesOfNext
<1>4. Start(s, 0) = 0 /\ Start(s, Len(s)) = Len(BytesOf(s))
  <2>1. BytesOf(<<>>) = <<>>
    BY DEF BytesOf, FlattenSeq
  <2>. QED BY <1>2, <2>1 DEF Start
<1>5. \A k \in 0..Len(s) : Start(s, k) \in 0..Len(BytesOf(s))
  BY <1>3, BytesOfPrefix
<1>6. ASSUME NEW k \in 0..Len(s), k < Len(s)
      PROVE  /\ s[k + 1] \in Packet
             /\ Start(s, k + 1) = Start(s, k) + Size(s[k + 1])
             /\ \A i \in 1..Size(s[k + 1]) :
                  BytesOf(s)[Start(s, k) + i] = Bytes(s[k + 1])[i]
  <2>1. k + 1 \in 0..Len(s) /\ s[k + 1] \in Packet
    BY <1>6
  <2> DEFINE p == s[k + 1]
  <2>2. b(k) \in Seq(Byte) /\ b(k + 1) = b(k) \o Bytes(p)
    BY <1>6, BytesOfNext
  <2>3. Bytes(p) \in Seq(Byte) /\ Len(Bytes(p)) = Size(p)
    BY <2>1, PacketIs
  <2>4. Start(s, k) = Len(b(k)) /\ Start(s, k + 1) = Len(b(k + 1))
    BY DEF Start
  <2>5. \A i \in 1..Start(s, k + 1) : BytesOf(s)[i] = b(k + 1)[i]
    BY <2>1, BytesOfPrefix
  <2>. HIDE DEF b, p
  <2>6. Start(s, k + 1) = Start(s, k) + Size(p) /\ Start(s, k) \in Nat /\ Size(p) \in Nat
    <3>1. Len(b(k) \o Bytes(p)) = Len(b(k)) + Len(Bytes(p))
      BY <2>2, <2>3, ConcatProperties
    <3>2. Len(b(k)) \in Nat /\ Len(Bytes(p)) \in Nat
      BY <2>2, <2>3
    <3>. QED BY <3>1, <3>2, <2>2, <2>3, <2>4
  <2>7. ASSUME NEW i \in 1..Size(p)
        PROVE  BytesOf(s)[Start(s, k) + i] = Bytes(p)[i]
    <3>1. Start(s, k) + i \in 1..Start(s, k + 1)
      BY <2>6
    <3>2. b(k + 1)[Start(s, k) + i] = Bytes(p)[i]
      BY <2>2, <2>3, <2>4, <2>6
    <3>. QED BY <3>1, <3>2, <2>5
  <2>. QED BY <2>1, <2>6, <2>7 DEF p
<1>. QED BY <1>3, <1>4, <1>5, <1>6

-----------------------------------------------------------------------------
(* The values of parse_offset                                              *)

\* s leads from o, in steps of D, to where D is 0.
Path(s, o, D, n) ==
  /\ s \in Seq(0..n) /\ s # <<>> /\ s[1] = o
  /\ \A j \in 1..Len(s) - 1 : D[s[j]] > 0 /\ s[j + 1] = s[j] + D[s[j]]
  /\ D[s[Len(s)]] = 0

\* The recursive function of Offsets.
Walks(f, D, n) ==
  f = [o \in 0..n |-> <<o>> \o (IF D[o] > 0 THEN f[o + D[o]] ELSE <<>>)]

LEMMA WalkExists ==
  ASSUME NEW n \in Nat, NEW D \in [0..n -> Nat], \A o \in 0..n : o + D[o] <= n
  PROVE  \E f : Walks(f, D, n)
<1> DEFINE S == Seq(0..n)
           Walk(f, o) == f[o] = <<o>> \o (IF D[o] > 0 THEN f[o + D[o]] ELSE <<>>)
           Good(k) == \E f \in [n - k..n -> S] : \A o \in n - k..n : Walk(f, o)
           Bad == {k \in 0..n : ~Good(k)}
<1>1. Bad = {}
  <2>1. SUFFICES ASSUME Bad # {} PROVE FALSE
    OBVIOUS
  <2>2. PICK k \in Bad : \A j \in Bad : k <= j
    <3>1. Bad \in SUBSET Nat
      OBVIOUS
    <3>. HIDE DEF Bad
    <3>. QED BY <3>1, <2>1, MinIs
  <2>3. k \in 0..n /\ ~Good(k)
    BY <2>2
  <2> DEFINE a == n - k
  <2>4. a \in 0..n
    BY <2>3
  <2>5. PICK f : f \in [a + 1..n -> S] /\ \A o \in a + 1..n : Walk(f, o)
    <3>1. CASE k = 0
      <4>1. \A o \in a + 1..n : FALSE
        BY <3>1
      <4> DEFINE e == [o \in a + 1..n |-> <<>>]
      <4>2. e \in [a + 1..n -> S] /\ \A o \in a + 1..n : Walk(e, o)
        BY <4>1
      <4>. QED BY <4>2
    <3>2. CASE k # 0
      <4>1. k - 1 \in 0..n /\ ~(k <= k - 1)
        BY <2>3, <3>2
      <4>2. k - 1 \notin Bad
        <5>. HIDE DEF Bad
        <5>. QED BY <2>2, <4>1
      <4>3. Good(k - 1)
        <5>. HIDE DEF Good
        <5>. QED BY <4>1, <4>2
      <4>4. n - (k - 1) = a + 1
        BY <2>3
      <4>. QED BY <4>3, <4>4
    <3>. QED BY <3>1, <3>2
  <2> DEFINE g == [o \in a..n |->
                    IF o = a THEN <<o>> \o (IF D[o] > 0 THEN f[o + D[o]] ELSE <<>>) ELSE f[o]]
  <2>6. \A o \in a..n : o # a => o \in a + 1..n
    BY <2>4
  <2>7. D[a] \in Nat /\ a + D[a] <= n
    BY <2>4
  <2>8. g \in [a..n -> S]
    <3>1. D[a] > 0 => a + D[a] \in a + 1..n
      <4>1. \A x \in Nat, d \in Nat : x + d <= n /\ d > 0 => x + d \in x + 1..n
        OBVIOUS
      <4>2. a \in Nat /\ D[a] \in Nat /\ a + D[a] <= n
        BY <2>3, <2>4, <2>7
      <4>. HIDE DEF a
      <4>. QED BY <4>1, <4>2
    <3>2. D[a] > 0 => f[a + D[a]] \in S
      BY <2>5, <3>1
    <3>3. <<a>> \in S /\ <<>> \in S /\ \A s, t \in S : s \o t \in S
      BY <2>4
    <3>4. \A o \in a..n : o # a => f[o] \in S
      BY <2>5, <2>6
    <3>5. <<a>> \o (IF D[a] > 0 THEN f[a + D[a]] ELSE <<>>) \in S
      <4>. HIDE DEF S, a
      <4>. QED BY <3>2, <3>3
    <3>. HIDE DEF S, a
    <3>. QED BY <3>4, <3>5
  <2>9. \A o \in a..n : Walk(g, o)
    <3>1. SUFFICES ASSUME NEW o \in a..n PROVE Walk(g, o)
      OBVIOUS
    <3>2. o \in 0..n /\ D[o] \in Nat /\ o + D[o] <= n
      BY <2>4
    <3>3. D[o] > 0 => o + D[o] \in a..n /\ o + D[o] # a
      <4>1. \A x, y, d \in Nat :
              x <= y /\ y + d <= n /\ d > 0 => y + d \in x..n /\ y + d # x
        OBVIOUS
      <4>. HIDE DEF a
      <4>2. a \in Nat /\ o \in Nat /\ a <= o
        BY <2>4
      <4>. QED BY <4>1, <4>2, <3>2
    <3>4. D[o] > 0 => g[o + D[o]] = f[o + D[o]]
      <4>. HIDE DEF a
      <4>. QED BY <3>3
    <3>5. CASE o = a
      <4>. HIDE DEF a
      <4>1. g[o] = <<o>> \o (IF D[o] > 0 THEN f[o + D[o]] ELSE <<>>)
        BY <3>5
      <4>. HIDE DEF g
      <4>. QED BY <4>1, <3>4
    <3>6. CASE o # a
      <4>1. Walk(f, o)
        BY <3>6, <2>5, <2>6
      <4>. HIDE DEF a
      <4>2. g[o] = f[o]
        BY <3>6
      <4>. HIDE DEF g
      <4>. QED BY <4>1, <4>2, <3>4
    <3>. QED BY <3>5, <3>6
  <2>. HIDE DEF g
  <2>. QED BY <2>3, <2>8, <2>9
<1>2. Good(n)
  <2>1. n \in 0..n
    OBVIOUS
  <2>2. n \notin Bad
    <3>. HIDE DEF Bad
    <3>. QED BY <1>1
  <2>. HIDE DEF Good
  <2>. QED BY <2>1, <2>2
<1>3. PICK f : f \in [n - n..n -> S] /\ \A o \in n - n..n : Walk(f, o)
  BY <1>2
<1>4. n - n = 0
  OBVIOUS
<1>5. f = [o \in 0..n |-> f[o]]
  BY <1>3, <1>4
<1>6. \A o \in 0..n : f[o] = <<o>> \o (IF D[o] > 0 THEN f[o + D[o]] ELSE <<>>)
  BY <1>3, <1>4
<1>7. Walks(f, D, n)
  BY <1>5, <1>6 DEF Walks
<1>. QED BY <1>7

LEMMA PathPrepend ==
  ASSUME NEW n \in Nat, NEW D, NEW o \in 0..n, D[o] > 0, NEW s, Path(s, o + D[o], D, n)
  PROVE  Path(<<o>> \o s, o, D, n)
<1> DEFINE t == <<o>> \o s
<1>1. s \in Seq(0..n) /\ <<o>> \in Seq(0..n) /\ s # <<>> /\ s[1] = o + D[o] /\ D[s[Len(s)]] = 0
  BY DEF Path
<1>2. \A j \in 1..Len(s) - 1 : D[s[j]] > 0 /\ s[j + 1] = s[j] + D[s[j]]
  BY DEF Path
<1>3. Len(s) \in Nat /\ Len(s) > 0
  BY <1>1
<1>4. t \in Seq(0..n) /\ Len(t) = 1 + Len(s) /\ t[1] = o
  BY <1>1
<1>5. \A j \in 1..Len(s) : t[j + 1] = s[j]
  BY <1>1
<1>. HIDE DEF t
<1>6. t # <<>>
  BY <1>3, <1>4
<1>7. ASSUME NEW j \in 1..Len(t) - 1 PROVE D[t[j]] > 0 /\ t[j + 1] = t[j] + D[t[j]]
  <2>1. j \in 1..Len(s)
    BY <1>3, <1>4
  <2>2. CASE j = 1
    <3>1. t[2] = s[1]
      BY <1>3, <1>5
    <3>. QED BY <3>1, <2>2, <1>1, <1>4
  <2>3. CASE j # 1
    <3>1. j - 1 \in 1..Len(s) - 1 /\ j - 1 \in 1..Len(s) /\ j - 1 + 1 = j
      BY <2>1, <2>3
    <3>2. t[j] = s[j - 1]
      BY <3>1, <1>5
    <3>3. D[s[j - 1]] > 0 /\ s[j] = s[j - 1] + D[s[j - 1]]
      BY <3>1, <1>2
    <3>4. t[j + 1] = s[j]
      BY <2>1, <1>5
    <3>. QED BY <3>2, <3>3, <3>4
  <2>. QED BY <2>2, <2>3
<1>8. t[Len(t)] = s[Len(s)]
  <2>1. Len(s) \in 1..Len(s) /\ Len(t) = Len(s) + 1
    BY <1>3, <1>4
  <2>. QED BY <2>1, <1>5
<1>9. Path(t, o, D, n)
  BY <1>1, <1>4, <1>6, <1>7, <1>8 DEF Path
<1>. QED BY <1>9 DEF t

LEMMA WalkIs ==
  ASSUME NEW n \in Nat, NEW D \in [0..n -> Nat], \A o \in 0..n : o + D[o] <= n,
         NEW f, Walks(f, D, n), NEW o \in 0..n
  PROVE  Path(f[o], o, D, n)
<1> DEFINE Bad == {k \in 0..n : ~Path(f[n - k], n - k, D, n)}
<1>1. Bad = {}
  <2>1. SUFFICES ASSUME Bad # {} PROVE FALSE
    OBVIOUS
  <2>2. PICK k \in Bad : \A j \in Bad : k <= j
    <3>1. Bad \in SUBSET Nat
      OBVIOUS
    <3>. HIDE DEF Bad
    <3>. QED BY <3>1, <2>1, MinIs
  <2>3. k \in 0..n /\ ~Path(f[n - k], n - k, D, n)
    BY <2>2
  <2>4. PICK a \in 0..n : a = n - k
    BY <2>3
  <2>5. f[a] = <<a>> \o (IF D[a] > 0 THEN f[a + D[a]] ELSE <<>>)
    BY DEF Walks
  <2>6. D[a] \in Nat /\ a + D[a] <= n
    OBVIOUS
  <2>7. CASE D[a] > 0
    <3>1. PICK d \in Nat : d = D[a]
      BY <2>6
    <3>2. d > 0 /\ a + d <= n
      BY <2>6, <2>7, <3>1
    <3>3. n - (a + d) \in 0..n /\ n - (a + d) < k /\ n - (n - (a + d)) = a + d
      BY <2>3, <2>4, <3>2
    <3>4. n - (a + d) \notin Bad
      <4>. HIDE DEF Bad
      <4>1. ~(k <= n - (a + d))
        BY <3>3, <2>3
      <4>. QED BY <4>1, <2>2
    <3>5. Path(f[a + d], a + d, D, n)
      <4>1. Path(f[n - (n - (a + d))], n - (n - (a + d)), D, n)
        BY <3>3, <3>4
      <4>. QED BY <4>1, <3>3
    <3>6. Path(<<a>> \o f[a + D[a]], a, D, n)
      BY <3>1, <3>5, <2>7, PathPrepend
    <3>. QED BY <3>6, <2>3, <2>4, <2>5, <2>7
  <2>8. CASE ~(D[a] > 0)
    <3>1. f[a] = <<a>> /\ D[a] = 0
      BY <2>5, <2>6, <2>8
    <3>2. Path(<<a>>, a, D, n)
      BY <3>1 DEF Path
    <3>. QED BY <3>1, <3>2, <2>3, <2>4
  <2>. QED BY <2>7, <2>8
<1>2. n - o \in 0..n /\ n - (n - o) = o
  OBVIOUS
<1>3. n - o \notin Bad
  <2>. HIDE DEF Bad
  <2>. QED BY <1>1
<1>4. Path(f[n - (n - o)], n - (n - o), D, n)
  BY <1>2, <1>3
<1>. QED BY <1>2, <1>4

LEMMA LengthsAre ==
  ASSUME NEW buf \in [1..BufSize -> Byte], heap \in Byte, NEW o \in Nat
  PROVE  /\ LengthBytes(buf, o) \in 0..4 /\ LengthValue(buf, o) \in Nat
         /\ PacketLen(buf, o) \in Nat
         /\ LengthBytes(buf, o) = 0 => \A k \in 1..4 : ~(ByteAt(buf, o + 1 + k) < 128)
         /\ LengthBytes(buf, o) # 0 =>
              /\ ByteAt(buf, o + 1 + LengthBytes(buf, o)) < 128
              /\ \A k \in 1..4 : ByteAt(buf, o + 1 + k) < 128 => LengthBytes(buf, o) <= k
<1> DEFINE ends == {k \in 1..4 : ByteAt(buf, o + 1 + k) < 128}
<1>1. \A k \in 1..4 : ByteAt(buf, o + 1 + k) \in Byte
  BY CodecAssumption DEF ByteAt
<1>2. LengthBytes(buf, o) = IF ends = {} THEN 0 ELSE Min(ends)
  BY DEF LengthBytes
<1>3. ends \in SUBSET Nat
  OBVIOUS
<1>4. ends # {} => Min(ends) \in ends /\ \A y \in ends : Min(ends) <= y
  <2>. HIDE DEF ends
  <2>. QED BY <1>3, MinIs
<1>5. /\ LengthBytes(buf, o) \in 0..4
      /\ LengthBytes(buf, o) = 0 => ends = {}
      /\ LengthBytes(buf, o) # 0 => LengthBytes(buf, o) \in ends /\ \A y \in ends : LengthBytes(buf, o) <= y
  <2>1. ends \subseteq 1..4
    OBVIOUS
  <2>. HIDE DEF ends
  <2>2. CASE ends = {}
    BY <2>2, <1>2
  <2>3. CASE ends # {}
    <3>1. LengthBytes(buf, o) = Min(ends)
      BY <2>3, <1>2
    <3>2. Min(ends) \in ends
      BY <2>3, <1>4
    <3>3. \A x \in ends : x \in 0..4 /\ x # 0
      BY <2>1
    <3>. QED BY <3>1, <3>2, <3>3, <2>3, <1>4
  <2>. QED BY <2>2, <2>3
<1> DEFINE digit(k) == IF k <= LengthBytes(buf, o) THEN ByteAt(buf, o + 1 + k) % 128 ELSE 0
<1>6. \A k \in 1..4 : digit(k) \in Nat
  <2>1. \A x \in Byte : x % 128 \in Nat
    BY DEF Byte
  <2>. QED BY <1>1, <2>1
<1>7. LengthValue(buf, o) = digit(1) + Base * (digit(2) + Base * (digit(3) + Base * digit(4)))
  BY DEF LengthValue
<1>8. LengthValue(buf, o) \in Nat
  <2>1. \A x, y \in Nat : x + Base * y \in Nat
    BY Mqtt5Assumption
  <2>. HIDE DEF digit
  <2>2. digit(1) \in Nat /\ digit(2) \in Nat /\ digit(3) \in Nat /\ digit(4) \in Nat
    BY <1>6
  <2>3. digit(3) + Base * digit(4) \in Nat
    BY <2>1, <2>2
  <2>4. digit(2) + Base * (digit(3) + Base * digit(4)) \in Nat
    BY <2>1, <2>2, <2>3
  <2>5. digit(1) + Base * (digit(2) + Base * (digit(3) + Base * digit(4))) \in Nat
    BY <2>1, <2>2, <2>4
  <2>. QED BY <1>7, <2>5
<1>9. PacketLen(buf, o) \in Nat
  <2>1. LenMod \in Nat /\ LenMod > 0
    BY Mqtt5Assumption
  <2>2. 1 + LengthBytes(buf, o) + LengthValue(buf, o) \in Nat
    BY <1>5, <1>8
  <2>. QED BY <2>1, <2>2 DEF PacketLen
<1>. QED BY <1>5, <1>8, <1>9

LEMMA OffsetsAre ==
  ASSUME NEW buf \in [1..BufSize -> Byte], heap \in Byte, NEW n \in Nat
  PROVE  LET s == Offsets(buf, n) IN
         /\ s \in Seq(0..n) /\ s # <<>> /\ s[1] = 0
         /\ \A j \in 1..Len(s) - 1 : /\ Takes(buf, n, s[j]) /\ PacketLen(buf, s[j]) > 0
                                     /\ s[j + 1] = s[j] + PacketLen(buf, s[j])
         /\ ~(Takes(buf, n, s[Len(s)]) /\ PacketLen(buf, s[Len(s)]) > 0)
<1> DEFINE gets(o) == Takes(buf, n, o) /\ PacketLen(buf, o) > 0
           D == [o \in 0..n |-> IF gets(o) THEN PacketLen(buf, o) ELSE 0]
           Goes(f) == f = [o \in 0..n |->
                        <<o>> \o (IF gets(o) THEN f[o + PacketLen(buf, o)] ELSE <<>>)]
           from == CHOOSE f : Goes(f)
<1>1. \A o \in 0..n : PacketLen(buf, o) \in Nat
  <2>1. \A o \in 0..n : o \in Nat
    OBVIOUS
  <2>. QED BY <2>1, LengthsAre
<1>2. \A o \in 0..n : /\ D[o] > 0 <=> gets(o)
                      /\ gets(o) => D[o] = PacketLen(buf, o) /\ o + D[o] <= n
                      /\ ~gets(o) => D[o] = 0
  BY <1>1 DEF Takes
<1>3. D \in [0..n -> Nat] /\ \A o \in 0..n : o + D[o] <= n
  <2>1. D \in [0..n -> Nat]
    BY <1>1
  <2>2. \A o \in 0..n : o + 0 <= n
    OBVIOUS
  <2>. HIDE DEF D, gets
  <2>. QED BY <1>2, <2>1, <2>2
<1>4. \A f : Walks(f, D, n) <=> Goes(f)
  <2>1. SUFFICES ASSUME NEW f PROVE Walks(f, D, n) <=> Goes(f)
    OBVIOUS
  <2>2. \A o \in 0..n :
          <<o>> \o (IF D[o] > 0 THEN f[o + D[o]] ELSE <<>>)
            = <<o>> \o (IF gets(o) THEN f[o + PacketLen(buf, o)] ELSE <<>>)
    <3>. HIDE DEF D, gets
    <3>. QED BY <1>2
  <2>. HIDE DEF D, gets
  <2>. QED BY <2>2 DEF Walks
<1>5. Offsets(buf, n) = from[0]
  BY DEF Offsets
<1>6. Goes(from)
  <2>1. \E f : Walks(f, D, n)
    <3>. HIDE DEF D
    <3>. QED BY <1>3, WalkExists
  <2>2. \E f : Goes(f)
    <3>. HIDE DEF D, Goes
    <3>. QED BY <1>4, <2>1
  <2>. HIDE DEF Goes
  <2>. QED BY <2>2
<1>7. Path(from[0], 0, D, n)
  <2>1. Walks(from, D, n)
    <3>. HIDE DEF D, Goes, from
    <3>. QED BY <1>4, <1>6
  <2>2. 0 \in 0..n
    OBVIOUS
  <2>. HIDE DEF D, from
  <2>. QED BY <1>3, <2>1, <2>2, WalkIs
<1> DEFINE s == Offsets(buf, n)
<1>8. s \in Seq(0..n) /\ s # <<>> /\ s[1] = 0 /\ D[s[Len(s)]] = 0
  <2>. HIDE DEF D, from
  <2>. QED BY <1>5, <1>7 DEF Path
<1>9. \A j \in 1..Len(s) - 1 : D[s[j]] > 0 /\ s[j + 1] = s[j] + D[s[j]]
  <2>. HIDE DEF D, from
  <2>. QED BY <1>5, <1>7 DEF Path
<1>. HIDE DEF s, D, from, gets, Goes
<1>10. \A j \in 1..Len(s) : s[j] \in 0..n
  BY <1>8
<1>11. \A j \in 1..Len(s) - 1 : gets(s[j]) /\ s[j + 1] = s[j] + PacketLen(buf, s[j])
  <2>1. \A j \in 1..Len(s) - 1 : j \in 1..Len(s)
    BY <1>8
  <2>. QED BY <1>2, <1>9, <1>10, <2>1
<1>12. ~gets(s[Len(s)])
  <2>1. s[Len(s)] \in 0..n
    BY <1>8, <1>10
  <2>2. ~(0 > 0)
    OBVIOUS
  <2>. QED BY <1>2, <1>8, <2>1, <2>2
<1>. QED BY <1>8, <1>11, <1>12 DEF s, gets

\* The loop at a packet whose first bytes are in the buffer: with the whole
\* length field there it knows the packet's size, and else it is told to wait or
\* takes stale bytes for the rest of the field.
LEMMA AtPacket ==
  ASSUME NEW buf \in [1..BufSize -> Byte], heap \in Byte, NEW p \in Packet,
         NEW n \in 0..BufSize, NEW o \in 0..n, Size(p) < LenMod,
         \A i \in 1..Size(p) : i <= n - o => buf[o + i] = Bytes(p)[i]
  PROVE  /\ n - o >= 1 + Count(p) =>
              /\ PacketLen(buf, o) = Size(p) /\ ~Refuses(buf, n, o)
              /\ Takes(buf, n, o) <=> n - o >= Size(p)
         /\ n - o < 1 + Count(p) =>
              /\ ~Takes(buf, n, o)
              /\ Refuses(buf, n, o) => n - o \in 2..Count(p)
<1> DEFINE c == Count(p)
           rest == RemainingLength(p)
           digits == Digits(rest)
           count == LengthBytes(buf, o)
           avail == n - o
<1>1. /\ rest \in Nat /\ c \in 1..4 /\ Size(p) = 1 + c + rest /\ Bytes(p)[1] = Header(p)
      /\ \A k \in 1..c : Bytes(p)[1 + k] = digits[k]
  BY PacketIs
<1>2. /\ Len(digits) = c /\ digits \in Seq(Byte) /\ digits[c] < 128
      /\ \A k \in 1..c - 1 : digits[k] >= 128
      /\ ValueOf(digits, c) = rest
  <2>1. Encodable(rest)
    BY PacketAssumption DEF Sendable
  <2>. QED BY <2>1, DigitsAre DEF Count, Byte
<1>3. BufSize \in Nat /\ LenMod \in Nat /\ LenMod > 0 /\ n \in Nat /\ o \in Nat /\ avail \in Nat /\ o + avail = n /\ n <= BufSize
  BY CodecAssumption, Mqtt5Assumption
<1>4. /\ count \in 0..4
      /\ count = 0 => \A k \in 1..4 : ~(ByteAt(buf, o + 1 + k) < 128)
      /\ count # 0 => /\ ByteAt(buf, o + 1 + count) < 128
                      /\ \A k \in 1..4 : ByteAt(buf, o + 1 + k) < 128 => count <= k
  BY <1>3, LengthsAre
<1>. HIDE DEF c, rest, digits, count, avail
<1>5. \A i \in 1..Size(p) : i <= avail => buf[o + i] = Bytes(p)[i]
  BY DEF avail
<1>6. \A k \in 1..c : 1 + k <= avail => ByteAt(buf, o + 1 + k) = digits[k]
  <2>1. SUFFICES ASSUME NEW k \in 1..c, 1 + k <= avail
                 PROVE  ByteAt(buf, o + 1 + k) = digits[k]
    OBVIOUS
  <2>2. 1 + k \in 1..Size(p) /\ o + (1 + k) = o + 1 + k /\ o + 1 + k <= BufSize
    BY <1>1, <1>3, <2>1
  <2>3. buf[o + (1 + k)] = Bytes(p)[1 + k]
    BY <1>5, <2>1, <2>2
  <2>. QED BY <1>1, <2>2, <2>3 DEF ByteAt
<1>7. avail >= 2 => buf[o + 1] \in ValidHeaders
  <2>1. SUFFICES ASSUME avail >= 2 PROVE buf[o + 1] \in ValidHeaders
    OBVIOUS
  <2>2. 1 \in 1..Size(p) /\ 1 <= avail
    BY <1>1, <1>3, <2>1
  <2>3. buf[o + 1] = Header(p)
    BY <1>1, <1>5, <2>2
  <2>. QED BY <2>3, HeaderIsValid
<1>8. \A k \in 1..c : digits[k] \in Byte
  BY <1>2
<1>9. ASSUME avail >= 1 + c
      PROVE  /\ PacketLen(buf, o) = Size(p) /\ ~Refuses(buf, n, o)
             /\ Takes(buf, n, o) <=> avail >= Size(p)
  <2>1. \A k \in 1..c : ByteAt(buf, o + 1 + k) = digits[k]
    BY <1>1, <1>3, <1>6, <1>9
  <2>2. count = c
    <3>1. c \in 1..c /\ c \in 1..4 /\ ByteAt(buf, o + 1 + c) < 128
      BY <1>1, <1>2, <2>1
    <3>2. count # 0 /\ count <= c
      BY <3>1, <1>4
    <3>3. ASSUME count < c PROVE FALSE
      <4>1. count \in 1..c - 1 /\ count \in 1..c
        BY <3>2, <3>3, <1>1, <1>4
      <4>2. digits[count] >= 128 /\ digits[count] < 128 /\ digits[count] \in Byte
        BY <4>1, <3>2, <1>2, <1>4, <1>8, <2>1
      <4>3. \A x \in 0..255 : ~(x >= 128 /\ x < 128)
        OBVIOUS
      <4>. QED BY <4>2, <4>3 DEF Byte
    <3>4. ~(count < c)
      BY <3>3, <3>2
    <3>5. count \in Int /\ c \in Int
      BY <1>1, <1>4, SMTT(20)
    <3>. QED BY <3>2, <3>4, <3>5
  <2>3. LengthValue(buf, o) = rest
    <3>1. \A k \in 1..4 : (IF k <= c THEN ByteAt(buf, o + 1 + k) % 128 ELSE 0)
                            = IF k <= c THEN digits[k] % 128 ELSE 0
      <4>1. \A k \in 1..4 : k <= c => k \in 1..c
        BY <1>1
      <4>. QED BY <4>1, <2>1
    <3>2. /\ 1 \in 1..4 /\ 2 \in 1..4 /\ 3 \in 1..4 /\ 4 \in 1..4
      OBVIOUS
    <3>3. LengthValue(buf, o) = ValueOf(digits, c)
      BY <3>1, <3>2, <2>2 DEF LengthValue, ValueOf, count
    <3>. QED BY <3>3, <1>2
  <2>4. PacketLen(buf, o) = Size(p)
    <3>1. PacketLen(buf, o) = (1 + c + rest) % LenMod
      BY <2>2, <2>3 DEF PacketLen, count
    <3>2. \A x \in Nat : x < LenMod => x % LenMod = x
      BY <1>3
    <3>3. Size(p) \in Nat
      BY <1>1
    <3>. QED BY <3>1, <3>2, <3>3, <1>1
  <2>5. avail >= 2 /\ ~(rest >= LenMod) /\ count # 0
    BY <1>1, <1>3, <1>9, <2>2
  <2>6. ~Refuses(buf, n, o)
    BY <2>3, <2>5, <1>7 DEF Refuses, count, avail
  <2>7. Takes(buf, n, o) <=> avail >= Size(p)
    BY <2>2, <2>4, <2>5, <2>6, <1>9 DEF Takes, count, avail
  <2>. QED BY <2>4, <2>6, <2>7
<1>10. ASSUME avail < 1 + c
       PROVE  ~Takes(buf, n, o) /\ (Refuses(buf, n, o) => avail \in 2..c)
  <2>1. count = 0 \/ ~(avail >= 1 + count)
    <3>1. SUFFICES ASSUME count # 0, avail >= 1 + count PROVE FALSE
      OBVIOUS
    <3>2. count \in 1..c - 1 /\ count \in 1..c /\ 1 + count <= avail
      BY <3>1, <1>1, <1>3, <1>4, <1>10
    <3>3. ByteAt(buf, o + 1 + count) = digits[count]
      BY <3>2, <1>6
    <3>4. digits[count] >= 128 /\ digits[count] < 128 /\ digits[count] \in Byte
      BY <3>1, <3>2, <3>3, <1>2, <1>4, <1>8
    <3>5. \A x \in 0..255 : ~(x >= 128 /\ x < 128)
      OBVIOUS
    <3>. QED BY <3>4, <3>5 DEF Byte
  <2>2. count = 0 => ~(avail >= 2) \/ Refuses(buf, n, o)
    BY DEF Refuses, count, avail
  <2>3. ~Takes(buf, n, o)
    BY <2>1, <2>2 DEF Takes, count, avail
  <2>4. Refuses(buf, n, o) => avail >= 2
    BY DEF Refuses, avail
  <2>. QED BY <2>3, <2>4, <1>1, <1>3, <1>10
<1>. QED BY <1>9, <1>10 DEF avail, c

-----------------------------------------------------------------------------
(* The loop over a buffer that holds the next bytes of the stream          *)

Sent == BytesOf(Stream)

\* `n' bytes of the buffer are what follows the first h packets of the stream.
Holds(buf, n, h) ==
  /\ buf \in [1..BufSize -> Byte] /\ n \in 0..BufSize /\ h \in 0..Len(Stream)
  /\ Start(Stream, h) + n <= Len(Sent)
  /\ \A i \in 1..n : buf[i] = Sent[Start(Stream, h) + i]

LEMMA AtOffset ==
  ASSUME Stream \in Seq(Packet), heap \in Byte, Sized,
         NEW buf, NEW n, NEW h, Holds(buf, n, h),
         NEW k \in h..Len(Stream), NEW o \in 0..n, Start(Stream, h) + o = Start(Stream, k)
  PROVE  /\ Takes(buf, n, o) =>
              /\ k < Len(Stream) /\ PacketLen(buf, o) = Size(Stream[k + 1]) /\ PacketLen(buf, o) > 0
              /\ Start(Stream, h) + (o + PacketLen(buf, o)) = Start(Stream, k + 1)
              /\ IsPacket(buf, o, k + 1)
         /\ Refuses(buf, n, o) => InsideLength(Start(Stream, h) + n)
         /\ ~Takes(buf, n, o) /\ k < Len(Stream) => n - o < Size(Stream[k + 1])
<1> DEFINE a == Start(Stream, h)
           b == Start(Stream, k)
           p == Stream[k + 1]
<1>1. /\ buf \in [1..BufSize -> Byte] /\ n \in 0..BufSize /\ h \in 0..Len(Stream)
      /\ a + n <= Len(Sent) /\ \A i \in 1..n : buf[i] = Sent[a + i]
  BY DEF Holds
<1>2. /\ Sent \in Seq(Byte) /\ Len(Sent) \in Nat /\ BufSize \in Nat /\ Len(Stream) \in Nat
      /\ k \in 0..Len(Stream) /\ n \in Nat /\ o \in Nat /\ k \in Nat
  BY <1>1, StreamIs, CodecAssumption DEF Sent
<1>3. a \in Nat /\ b \in 0..Len(Sent) /\ b = a + o
  BY <1>1, <1>2, StreamIs DEF Sent
<1>4. CASE k = Len(Stream)
  <2>1. b = Len(Sent)
    BY <1>4, StreamIs DEF Sent
  <2>2. ~(n - o >= 2)
    <3>. HIDE DEF a, b
    <3>. QED BY <2>1, <1>1, <1>2, <1>3
  <2>. QED BY <2>2, <1>2, <1>4 DEF Takes, Refuses
<1>5. CASE k # Len(Stream)
  <2>1. k < Len(Stream) /\ k + 1 \in DOMAIN Stream
    BY <1>2, <1>5
  <2>2. /\ p \in Packet /\ Start(Stream, k + 1) = b + Size(p)
        /\ \A i \in 1..Size(p) : Sent[b + i] = Bytes(p)[i]
    BY <1>2, <2>1, StreamIs DEF Sent
  <2>3. Size(p) < LenMod
    BY <2>1 DEF Sized
  <2>4. /\ Count(p) \in 1..4 /\ Size(p) = 1 + Count(p) + RemainingLength(p)
        /\ RemainingLength(p) \in Nat /\ Bytes(p) \in Seq(Byte) /\ Len(Bytes(p)) = Size(p)
    BY <2>2, PacketIs
  <2>. HIDE DEF a, b, p
  <2>5. ASSUME NEW i \in 1..Size(p), i <= n - o PROVE buf[o + i] = Bytes(p)[i]
    <3>1. o + i \in 1..n /\ a + (o + i) = b + i
      BY <2>5, <1>2, <1>3
    <3>2. buf[o + i] = Sent[a + (o + i)]
      BY <3>1, <1>1
    <3>. QED BY <3>1, <3>2, <2>2
  <2>6. /\ n - o >= 1 + Count(p) =>
             /\ PacketLen(buf, o) = Size(p) /\ ~Refuses(buf, n, o)
             /\ Takes(buf, n, o) <=> n - o >= Size(p)
        /\ n - o < 1 + Count(p) =>
             /\ ~Takes(buf, n, o)
             /\ Refuses(buf, n, o) => n - o \in 2..Count(p)
    BY <1>1, <2>2, <2>3, <2>5, AtPacket
  <2>7. ASSUME Takes(buf, n, o)
        PROVE  /\ PacketLen(buf, o) = Size(p) /\ PacketLen(buf, o) > 0
               /\ a + (o + PacketLen(buf, o)) = Start(Stream, k + 1)
               /\ IsPacket(buf, o, k + 1)
    <3>1. PacketLen(buf, o) = Size(p) /\ n - o >= Size(p)
      BY <2>4, <2>6, <2>7, <1>2
    <3>2. Size(p) > 0 /\ Size(p) \in Nat
      BY <2>4
    <3>3. a + (o + Size(p)) = Start(Stream, k + 1)
      BY <2>2, <3>2, <1>2, <1>3
    <3>4. \A i \in 1..Size(p) : buf[o + i] = Bytes(p)[i]
      <4>1. \A i \in 1..Size(p) : i <= n - o
        BY <3>1, <3>2, <1>2
      <4>. QED BY <4>1, <2>5
    <3>5. Cut(buf, o, Size(p)) = Bytes(p)
      <4>1. o + Len(Bytes(p)) <= BufSize
        BY <3>1, <3>2, <2>4, <1>1, <1>2
      <4>2. \A i \in 1..Len(Bytes(p)) : buf[o + i] = Bytes(p)[i]
        BY <3>4, <2>4
      <4>3. Bytes(p) \in Seq(Byte) /\ Size(p) = Len(Bytes(p))
        BY <2>4
      <4>4. Cut(buf, o, Len(Bytes(p))) = Bytes(p)
        BY <4>1, <4>2, <4>3, <1>1, <1>2, CutEquals
      <4>. QED BY <4>3, <4>4
    <3>6. IsPacket(buf, o, k + 1)
      <4>1. k + 1 \in 1..Len(Stream) /\ o \in Nat
        BY <3>1, <2>1, <1>2
      <4>. QED BY <4>1, <3>1, <3>5, <2>1, <1>2 DEF IsPacket, Cut, p
    <3>. QED BY <3>1, <3>2, <3>3, <3>6
  <2>8. ASSUME Refuses(buf, n, o) PROVE InsideLength(a + n)
    <3>1. n - o \in 2..Count(p)
      BY <2>4, <2>6, <2>8, <1>2
    <3>2. a + n \in b + 2..b + Count(p)
      BY <3>1, <2>4, <1>2, <1>3, SMTT(20)
    <3>3. k + 1 - 1 = k
      BY <1>2
    <3>4. Len(BytesOf(Prefix(Stream, k + 1 - 1))) = b
      BY <3>3 DEF Start, b
    <3>5. Len(Digits(RemainingLength(Stream[k + 1]))) = Count(p)
      BY DEF Count, p
    <3>. QED BY <3>2, <3>4, <3>5, <2>1 DEF InsideLength
  <2>9. ASSUME ~Takes(buf, n, o) PROVE n - o < Size(p)
    <3>1. CASE n - o >= 1 + Count(p)
      BY <3>1, <2>4, <2>6, <2>9, <1>2
    <3>2. CASE ~(n - o >= 1 + Count(p))
      BY <3>2, <2>4, <1>2
    <3>. QED BY <3>1, <3>2
  <2>. QED BY <2>1, <2>7, <2>8, <2>9 DEF a, p
<1>. QED BY <1>4, <1>5

\* Every packet the loop cuts out is the next one of the stream, it comes to an
\* end, and what it leaves is less than a packet.
LEMMA LoopFollows ==
  ASSUME Stream \in Seq(Packet), heap \in Byte, Sized,
         NEW buf, NEW n, NEW h, Holds(buf, n, h)
  PROVE  LET s == Offsets(buf, n)
             last == s[Len(s)]
             k == h + (Len(s) - 1)
         IN
         /\ s \in Seq(0..n) /\ Len(s) - 1 \in Nat /\ last \in 0..n /\ k \in h..Len(Stream)
         /\ Start(Stream, h) + last = Start(Stream, k)
         /\ \A j \in 1..Len(s) - 1 : h + j <= Len(Stream) /\ IsPacket(buf, s[j], h + j)
         /\ ~Spins(buf, n, last)
         /\ Refuses(buf, n, last) => InsideLength(Start(Stream, h) + n)
         /\ k < Len(Stream) => n - last < Size(Stream[k + 1])
<1> DEFINE s == Offsets(buf, n)
           m == Len(s)
           a == Start(Stream, h)
           Good(j) == /\ h + (j - 1) \in h..Len(Stream)
                      /\ a + s[j] = Start(Stream, h + (j - 1))
           Bad == {j \in 1..m : ~Good(j)}
<1>1. /\ buf \in [1..BufSize -> Byte] /\ n \in Nat /\ h \in 0..Len(Stream) /\ h \in Nat
      /\ Len(Stream) \in Nat /\ a \in Nat
  BY CodecAssumption, StreamIs DEF Holds
<1>2. /\ s \in Seq(0..n) /\ s # <<>> /\ s[1] = 0
      /\ \A j \in 1..m - 1 : /\ Takes(buf, n, s[j]) /\ PacketLen(buf, s[j]) > 0
                             /\ s[j + 1] = s[j] + PacketLen(buf, s[j])
      /\ ~(Takes(buf, n, s[m]) /\ PacketLen(buf, s[m]) > 0)
  BY <1>1, OffsetsAre
<1>. HIDE DEF s, a
<1>3. m \in Nat /\ m - 1 \in Nat /\ m >= 1 /\ \A j \in 1..m : s[j] \in 0..n
  <2>1. s \in Seq(0..n) /\ s # <<>>
    BY <1>2
  <2>2. m \in Nat /\ m # 0
    BY <2>1
  <2>3. ASSUME NEW j \in 1..m PROVE s[j] \in 0..n
    BY <2>1, ElementOfSeq
  <2>. QED BY <2>2, <2>3
<1>. HIDE DEF m
<1>4. ASSUME NEW j \in 1..m, Good(j), Takes(buf, n, s[j])
      PROVE  /\ h + j <= Len(Stream) /\ PacketLen(buf, s[j]) > 0
             /\ a + (s[j] + PacketLen(buf, s[j])) = Start(Stream, h + j)
             /\ IsPacket(buf, s[j], h + j)
  <2>1. PICK k \in h..Len(Stream) : k = h + (j - 1)
    BY <1>4
  <2>2. k + 1 = h + j /\ k \in Nat
    BY <2>1, <1>1
  <2>3. s[j] \in 0..n /\ a + s[j] = Start(Stream, k)
    BY <1>3, <1>4, <2>1
  <2>4. /\ k < Len(Stream) /\ PacketLen(buf, s[j]) > 0
        /\ a + (s[j] + PacketLen(buf, s[j])) = Start(Stream, k + 1)
        /\ IsPacket(buf, s[j], k + 1)
    BY <2>3, <1>4, AtOffset DEF a
  <2>5. h + j <= Len(Stream)
    BY <2>2, <2>4, <1>1
  <2>. QED BY <2>2, <2>4, <2>5
<1>5. \A j \in 1..m : Good(j)
  <2>1. SUFFICES ASSUME Bad # {} PROVE FALSE
    OBVIOUS
  <2>2. PICK j \in Bad : \A i \in Bad : j <= i
    <3>1. Bad \in SUBSET Nat
      BY <1>3
    <3>. HIDE DEF Bad
    <3>. QED BY <2>1, <3>1, MinIs
  <2>3. j \in 1..m /\ ~Good(j)
    BY <2>2
  <2>4. j # 1
    <3>1. h + (1 - 1) = h /\ h \in h..Len(Stream) /\ a + 0 = Start(Stream, h)
      BY <1>1 DEF a
    <3>2. Good(1)
      BY <3>1, <1>2
    <3>. QED BY <3>2, <2>3
  <2>5. j - 1 \in 1..m /\ j - 1 \in 1..m - 1 /\ ~(j <= j - 1) /\ j - 1 + 1 = j
    BY <2>3, <2>4, <1>3
  <2>6. Good(j - 1)
    <3>1. j - 1 \notin Bad
      <4>. HIDE DEF Bad
      <4>. QED BY <2>2, <2>5
    <3>. HIDE DEF Good
    <3>. QED BY <2>5, <3>1
  <2>7. Takes(buf, n, s[j - 1]) /\ s[j] = s[j - 1] + PacketLen(buf, s[j - 1])
    BY <2>5, <1>2 DEF m
  <2>8. /\ h + (j - 1) <= Len(Stream)
        /\ a + (s[j - 1] + PacketLen(buf, s[j - 1])) = Start(Stream, h + (j - 1))
    <3>. HIDE DEF Good
    <3>. QED BY <2>5, <2>6, <2>7, <1>4
  <2>9. h + (j - 1) \in h..Len(Stream)
    BY <2>3, <2>8, <1>1, <1>3
  <2>. QED BY <2>3, <2>7, <2>8, <2>9
<1>6. ASSUME NEW j \in 1..m - 1 PROVE h + j <= Len(Stream) /\ IsPacket(buf, s[j], h + j)
  <2>1. j \in 1..m /\ Takes(buf, n, s[j])
    BY <1>2, <1>3 DEF m
  <2>. HIDE DEF Good
  <2>. QED BY <2>1, <1>4, <1>5
<1> DEFINE last == s[m]
           k == h + (m - 1)
<1>7. m \in 1..m /\ last \in 0..n
  BY <1>3
<1>8. k \in h..Len(Stream) /\ a + last = Start(Stream, k)
  BY <1>5, <1>7
<1>9. ~Takes(buf, n, last)
  <2>1. Takes(buf, n, last) => PacketLen(buf, last) > 0
    <3>. HIDE DEF Good
    <3>. QED BY <1>4, <1>5, <1>7
  <2>. QED BY <2>1, <1>2 DEF m
<1>10. ~Spins(buf, n, last)
  BY <1>9 DEF Spins
<1>. HIDE DEF last, k
<1>11. /\ Refuses(buf, n, last) => InsideLength(a + n)
       /\ k < Len(Stream) => n - last < Size(Stream[k + 1])
  BY <1>7, <1>8, <1>9, AtOffset DEF a
<1>. QED BY <1>2, <1>3, <1>6, <1>7, <1>8, <1>10, <1>11 DEF s, m, a, last, k

-----------------------------------------------------------------------------
(* The inductive invariant                                                 *)

Events == {Event(p, ok) : p \in Packet, ok \in BOOLEAN}

\* What is yet to be received are the last bytes of the stream.
Ending(s, w) == Len(w) <= Len(s) /\ \A i \in 1..Len(w) : w[i] = s[Len(s) - Len(w) + i]

TypeInv ==
  /\ rcv_buf \in [1..BufSize -> Byte] /\ rcv_offset \in 0..BufSize
  /\ handled \in Seq(Events) /\ stuck \in BOOLEAN
  /\ scenario \in Scenarios /\ conn \in DOMAIN scenario.streams /\ heap \in Heap
  /\ wire \in Seq(Byte) /\ Ending(Sent, wire)
  /\ lost.why \in {"no", "overflow", "length", "leftover"} /\ lost.at \in Nat

\* What the application was told of the packets handled.
Told ==
  \A i \in 1..Len(handled) :
    i <= Len(Stream) /\ \E ok \in Accepts(Stream[i]) : handled[i] = Event(Stream[i], ok)

\* In step with the stream: the buffer continues it behind the packets handled,
\* the wire behind the buffer, and less than a packet waits.
Following ==
  /\ ~stuck /\ Told
  /\ Holds(rcv_buf, rcv_offset, Len(handled))
  /\ Start(Stream, Len(handled)) + rcv_offset + Len(wire) = Len(Sent)
  /\ Len(handled) < Len(Stream) => rcv_offset < Size(Stream[Len(handled) + 1])

TooBig == \E i \in DOMAIN Stream : Size(Stream[i]) - 1 + MaxChunk > BufSize

Inv ==
  /\ TypeInv
  /\ Sized => /\ lost.why = "no" => Following
              /\ lost.why = "length" => InsideLength(lost.at)
              /\ lost.why = "overflow" => TooBig
              /\ lost.why = "leftover" => conn > 1

LEMMA TypeGives ==
  ASSUME TypeInv
  PROVE  /\ Stream \in Seq(Packet) /\ heap \in Byte /\ Sent \in Seq(Byte) /\ TypeOK
         /\ conn \in 1..Len(scenario.streams) /\ scenario.streams \in Seq(Seq(Packet))
<1>1. scenario.streams \in Seq(Seq(Packet)) /\ conn \in DOMAIN scenario.streams
  BY CodecAssumption DEF TypeInv
<1>2. Stream \in Seq(Packet)
  BY <1>1 DEF Stream
<1>3. heap \in Byte
  BY CodecAssumption DEF TypeInv, Byte
<1>4. Sent \in Seq(Byte)
  BY <1>2, StreamIs DEF Sent
<1>5. \A i \in DOMAIN handled : handled[i].ok \in BOOLEAN
  <2>1. \A e \in Events : e.ok \in BOOLEAN
    BY DEF Events, Event
  <2>2. handled \in Seq(Events)
    BY DEF TypeInv
  <2>3. \A i \in DOMAIN handled : handled[i] \in Events
    BY <2>2
  <2>. QED BY <2>1, <2>3
<1>6. Range(wire) \subseteq Byte
  <2>1. wire \in Seq(Byte)
    BY DEF TypeInv
  <2>. QED BY <2>1 DEF Range
<1>7. TypeOK
  BY <1>5, <1>6 DEF TypeOK, TypeInv, Byte
<1>8. conn \in 1..Len(scenario.streams)
  BY <1>1
<1>. QED BY <1>1, <1>2, <1>3, <1>4, <1>7, <1>8

LEMMA InitInv == Init => Inv
<1>. SUFFICES ASSUME Init PROVE Inv
  OBVIOUS
<1>1. /\ scenario \in Scenarios /\ conn = 1 /\ wire = Sent /\ heap \in Heap /\ handled = <<>>
      /\ rcv_buf = [i \in 1..BufSize |-> heap] /\ rcv_offset = 0 /\ stuck = FALSE /\ lost = InStep
  BY DEF Init, Sent
<1>2. scenario.streams \in Seq(Seq(Packet)) /\ scenario.streams # <<>> /\ heap \in Byte
  BY <1>1, CodecAssumption DEF Byte
<1>3. conn \in DOMAIN scenario.streams
  BY <1>1, <1>2
<1>4. Stream \in Seq(Packet)
  BY <1>2, <1>3 DEF Stream
<1>5. Sent \in Seq(Byte) /\ Start(Stream, 0) = 0
  BY <1>4, StreamIs DEF Sent
<1>6. BufSize \in Nat /\ 0 \in 0..BufSize
  BY CodecAssumption
<1>7. rcv_buf \in [1..BufSize -> Byte]
  BY <1>1, <1>2
<1>8. Ending(Sent, wire)
  <2>1. Len(Sent) \in Nat /\ wire = Sent
    BY <1>1, <1>5
  <2>2. Len(Sent) <= Len(Sent) /\ \A i \in 1..Len(Sent) : Len(Sent) - Len(Sent) + i = i
    BY <2>1
  <2>. QED BY <2>1, <2>2 DEF Ending
<1>9. TypeInv
  <2>1. handled \in Seq(Events)
    BY <1>1
  <2>2. lost.why = "no" /\ lost.at = 0
    BY <1>1 DEF InStep
  <2>3. rcv_offset \in 0..BufSize /\ stuck \in BOOLEAN
    BY <1>1, <1>6
  <2>4. lost.why \in {"no", "overflow", "length", "leftover"} /\ lost.at \in Nat
    BY <2>2
  <2>5. wire \in Seq(Byte) /\ scenario \in Scenarios /\ heap \in Heap
    BY <1>1, <1>5
  <2>. QED BY <2>1, <2>3, <2>4, <2>5, <1>3, <1>7, <1>8 DEF TypeInv
<1>10. Following
  <2>1. Len(handled) = 0 /\ 0 \in 0..Len(Stream)
    BY <1>1, <1>4
  <2>2. Told
    BY <2>1 DEF Told
  <2>3. Holds(rcv_buf, rcv_offset, Len(handled))
    <3>1. 0 + 0 <= Len(Sent)
      BY <1>5
    <3>. QED BY <3>1, <2>1, <1>1, <1>5, <1>6, <1>7 DEF Holds
  <2>4. 0 + 0 + Len(Sent) = Len(Sent)
    BY <1>5
  <2>5. 0 < Len(Stream) => 0 < Size(Stream[0 + 1])
    <3>1. SUFFICES ASSUME 0 < Len(Stream) PROVE 0 < Size(Stream[1])
      OBVIOUS
    <3>2. Stream[1] \in Packet
      BY <3>1, <1>4
    <3>. QED BY <3>2, PacketIs
  <2>. QED BY <2>1, <2>2, <2>3, <2>4, <2>5, <1>1, <1>5 DEF Following
<1>11. lost.why = "no"
  BY <1>1 DEF InStep
<1>. QED BY <1>9, <1>10, <1>11 DEF Inv

LEMMA SameStream ==
  ASSUME UNCHANGED <<scenario, conn>>
  PROVE  Stream' = Stream /\ Sent' = Sent /\ Sized' = Sized /\ TooBig' = TooBig
<1>1. Stream' = Stream
  BY DEF Stream
<1>2. \A p : Misread(p)' = Misread(p)
  BY DEF Misread, V5
<1>. QED BY <1>1, <1>2 DEF Sent, Sized, TooBig

LEMMA SameAnswers ==
  ASSUME UNCHANGED scenario
  PROVE  \A p : Accepts(p)' = Accepts(p)
<1>1. \A p : Misread(p)' = Misread(p)
  BY DEF Misread, V5
<1>2. \A p : Answers(p)' = Answers(p)
  BY DEF Answers, AcceptsConnack, AcceptsPublish, AcceptsAck, AcceptsSuback, AcceptsAuth,
     MethodMatches, V5
<1>. QED BY <1>1, <1>2 DEF Accepts

\* recv returns some of what is left, and leaves the rest.
LEMMA ArrivesIs ==
  ASSUME TypeInv, NEW n \in 1..Min({MaxChunk, Len(wire)}), Arrives(n), UNCHANGED <<scenario, conn>>
  PROVE  /\ n \in Nat /\ n >= 1 /\ n <= MaxChunk /\ n <= Len(wire)
         /\ Len(wire) \in Nat /\ Len(Sent) \in Nat /\ Len(wire) <= Len(Sent)
         /\ wire' \in Seq(Byte) /\ Len(wire') = Len(wire) - n /\ Ending(Sent, wire)'
         /\ \A i \in 1..n : wire[i] \in Byte /\ wire[i] = Sent[Len(Sent) - Len(wire) + i]
<1>1. /\ wire \in Seq(Byte) /\ Len(wire) \in Nat /\ Ending(Sent, wire)
      /\ Sent \in Seq(Byte) /\ Len(Sent) \in Nat
  BY TypeGives DEF TypeInv
<1>2. n \in Nat /\ n >= 1 /\ n <= MaxChunk /\ n <= Len(wire) /\ MaxChunk \in Nat
  <2>1. {MaxChunk, Len(wire)} \in SUBSET Nat /\ MaxChunk \in Nat
    BY <1>1, CodecAssumption
  <2>2. /\ Min({MaxChunk, Len(wire)}) \in {MaxChunk, Len(wire)}
        /\ Min({MaxChunk, Len(wire)}) <= MaxChunk /\ Min({MaxChunk, Len(wire)}) <= Len(wire)
    BY <2>1, MinIs
  <2>. QED BY <2>1, <2>2, <1>1
<1>3. PICK l \in Nat : l = Len(wire) - n
  BY <1>1, <1>2
<1>4. wire' = Cut(wire, n, l)
  <2>1. n + l = Len(wire)
    BY <1>1, <1>2, <1>3
  <2>. QED BY <2>1 DEF Arrives, Cut
<1>5. wire' \in Seq(Byte) /\ Len(wire') = l /\ \A i \in 1..l : wire'[i] = wire[n + i]
  <2>1. wire \in [1..Len(wire) -> Byte] /\ n + l <= Len(wire)
    BY <1>1, <1>2, <1>3
  <2>2. Cut(wire, n, l) \in Seq(Byte)
    BY <2>1, <1>1, <1>2, CutIs
  <2>4. Len(Cut(wire, n, l)) = l
    BY <1>2, CutLen
  <2>3. ASSUME NEW i \in 1..l PROVE Cut(wire, n, l)[i] = wire[n + i]
    BY <2>1, <1>1, <1>2, CutIs
  <2>. QED BY <2>2, <2>3, <2>4, <1>4
<1>6. Ending(Sent, wire')
  <2>1. Len(wire') <= Len(Sent)
    BY <1>1, <1>2, <1>3, <1>5 DEF Ending
  <2>2. ASSUME NEW i \in 1..Len(wire')
        PROVE  wire'[i] = Sent[Len(Sent) - Len(wire') + i]
    <3>1. /\ n + i \in 1..Len(wire)
          /\ Len(Sent) - Len(wire) + (n + i) = Len(Sent) - Len(wire') + i
      BY <1>1, <1>2, <1>3, <1>5
    <3>2. wire[n + i] = Sent[Len(Sent) - Len(wire) + (n + i)]
      BY <3>1, <1>1 DEF Ending
    <3>. QED BY <3>1, <3>2, <1>5
  <2>. QED BY <2>1, <2>2 DEF Ending
<1>7. \A i \in 1..n : wire[i] \in Byte /\ wire[i] = Sent[Len(Sent) - Len(wire) + i]
  <2>1. \A i \in 1..n : i \in 1..Len(wire)
    BY <1>1, <1>2
  <2>. QED BY <2>1, <1>1 DEF Ending
<1>8. Sent' = Sent
  BY SameStream
<1>9. Ending(Sent, wire)'
  BY <1>6, <1>8 DEF Ending
<1>. QED BY <1>1, <1>2, <1>3, <1>5, <1>7, <1>9 DEF Ending

\* The place where the client lost step is kept.
LEMMA LosesStep ==
  ASSUME TypeInv, NEW why, LoseStep(why), Len(wire') \in Nat, Len(wire') <= Len(Sent)
  PROVE  /\ lost.why = "no" => lost'.why = why /\ lost'.at = Len(Sent) - Len(wire')
         /\ lost.why # "no" => lost' = lost
         /\ lost'.at \in Nat
<1>1. Len(Sent) \in Nat /\ Len(Sent) - Len(wire') \in Nat /\ lost.at \in Nat
  BY TypeGives DEF TypeInv
<1>2. lost' = IF lost.why = "no" THEN [why |-> why, at |-> Len(Sent) - Len(wire')] ELSE lost
  BY DEF LoseStep, Sent
<1>. QED BY <1>1, <1>2

\* In step and with bytes yet to come, the stream has another packet.
LEMMA MoreToCome ==
  ASSUME TypeInv, Following, Len(wire) >= 1
  PROVE  /\ Len(handled) < Len(Stream) /\ Len(handled) \in Nat
         /\ Len(handled) + 1 \in DOMAIN Stream /\ Size(Stream[Len(handled) + 1]) \in Nat
         /\ rcv_offset < Size(Stream[Len(handled) + 1])
<1>1. Stream \in Seq(Packet) /\ Len(Stream) \in Nat /\ Len(Sent) \in Nat /\ Len(wire) \in Nat
  BY TypeGives DEF TypeInv
<1>2. /\ Len(handled) \in 0..Len(Stream) /\ rcv_offset \in Nat
      /\ Start(Stream, Len(handled)) + rcv_offset + Len(wire) = Len(Sent)
      /\ Len(handled) < Len(Stream) => rcv_offset < Size(Stream[Len(handled) + 1])
  BY CodecAssumption DEF Following, Holds, TypeInv
<1>3. Start(Stream, Len(handled)) \in Nat /\ Start(Stream, Len(Stream)) = Len(Sent)
  BY <1>1, <1>2, StreamIs DEF Sent
<1>4. Len(handled) # Len(Stream)
  BY <1>1, <1>2, <1>3
<1>5. /\ Len(handled) < Len(Stream) /\ Len(handled) \in Nat
      /\ Len(handled) + 1 \in DOMAIN Stream /\ Stream[Len(handled) + 1] \in Packet
  BY <1>1, <1>2, <1>4
<1>6. Size(Stream[Len(handled) + 1]) \in Nat
  BY <1>5, PacketIs
<1>. QED BY <1>2, <1>5, <1>6

LEMMA TooMuchInv ==
  ASSUME Inv, NEW n \in 1..Min({MaxChunk, Len(wire)}), ReceiveTooMuch(n)
  PROVE  Inv'
<1>1. /\ Overflows(n) /\ Arrives(n) /\ rcv_offset' = 0 /\ LoseStep("overflow")
      /\ UNCHANGED <<rcv_buf, handled, stuck, scenario, conn, heap>>
  BY DEF ReceiveTooMuch
<1>2. TypeInv
  BY DEF Inv
<1>3. /\ n \in Nat /\ n >= 1 /\ n <= MaxChunk /\ n <= Len(wire)
      /\ Len(wire) \in Nat /\ Len(Sent) \in Nat /\ Len(wire) <= Len(Sent)
      /\ wire' \in Seq(Byte) /\ Len(wire') = Len(wire) - n /\ Ending(Sent, wire)'
  BY <1>1, <1>2, ArrivesIs
<1>4. /\ Stream' = Stream /\ Sent' = Sent /\ Sized' = Sized /\ TooBig' = TooBig
  BY <1>1, SameStream
<1>5. /\ lost.why = "no" => lost'.why = "overflow"
      /\ lost.why # "no" => lost' = lost
      /\ lost'.at \in Nat
  <2>1. Len(wire') \in Nat /\ Len(wire') <= Len(Sent)
    BY <1>3
  <2>. QED BY <2>1, <1>1, <1>2, LosesStep
<1>6. TypeInv'
  <2>1. 0 \in 0..BufSize
    BY CodecAssumption
  <2>2. lost'.why \in {"no", "overflow", "length", "leftover"}
    BY <1>2, <1>5 DEF TypeInv
  <2>. QED BY <2>1, <2>2, <1>1, <1>2, <1>3, <1>5 DEF TypeInv, Events
<1>7. ASSUME Sized, lost.why = "no" PROVE TooBig
  <2>1. Following
    BY <1>7 DEF Inv
  <2>2. /\ Len(handled) + 1 \in DOMAIN Stream /\ Size(Stream[Len(handled) + 1]) \in Nat
        /\ rcv_offset < Size(Stream[Len(handled) + 1])
    BY <2>1, <1>2, <1>3, MoreToCome
  <2>3. rcv_offset \in Nat /\ BufSize \in Nat /\ MaxChunk \in Nat /\ rcv_offset + n > BufSize
    BY <1>1, <1>2, CodecAssumption DEF Overflows, TypeInv
  <2>4. Size(Stream[Len(handled) + 1]) - 1 + MaxChunk > BufSize
    BY <2>2, <2>3, <1>3
  <2>. QED BY <2>2, <2>4 DEF TooBig
<1>8. InsideLength(lost.at) /\ lost' = lost => InsideLength(lost.at)'
  BY <1>4 DEF InsideLength
<1>9. Sized => /\ lost'.why # "no"
               /\ lost'.why = "length" => InsideLength(lost.at)'
               /\ lost'.why = "overflow" => TooBig
               /\ lost'.why = "leftover" => conn > 1
  <2>1. CASE lost.why = "no"
    BY <2>1, <1>5, <1>7
  <2>2. CASE lost.why # "no"
    BY <2>2, <1>5, <1>8 DEF Inv
  <2>. QED BY <2>1, <2>2
<1>. QED BY <1>1, <1>4, <1>6, <1>9 DEF Inv

LEMMA ReconnectInv ==
  ASSUME Inv, Reconnect
  PROVE  Inv'
<1>1. /\ ~stuck /\ conn < Len(scenario.streams) /\ conn' = conn + 1
      /\ wire' = BytesOf(scenario.streams[conn + 1]) /\ handled' = <<>>
      /\ lost' = IF rcv_offset = 0 THEN InStep ELSE [why |-> "leftover", at |-> 0]
      /\ UNCHANGED <<rcv_buf, rcv_offset, stuck, scenario, heap>>
  BY DEF Reconnect
<1>2. TypeInv
  BY DEF Inv
<1>3. conn \in 1..Len(scenario.streams) /\ scenario.streams \in Seq(Seq(Packet))
  BY <1>2, TypeGives
<1>4. conn' \in DOMAIN scenario'.streams /\ conn' > 1
  BY <1>1, <1>3
<1>5. Stream' \in Seq(Packet) /\ wire' = Sent'
  BY <1>1, <1>3, <1>4 DEF Stream, Sent
<1>6. Sent' \in Seq(Byte) /\ Len(Sent') \in Nat /\ Start(Stream', 0) = 0 /\ Len(Stream') \in Nat
  BY <1>5, StreamIs DEF Sent
<1>7. Ending(Sent, wire)'
  <2>1. Len(Sent') <= Len(Sent') /\ \A i \in 1..Len(Sent') : Len(Sent') - Len(Sent') + i = i
    BY <1>6
  <2>. QED BY <2>1, <1>5 DEF Ending
<1>8. lost'.why \in {"no", "leftover"} /\ lost'.at = 0 /\ (lost'.why = "no" => rcv_offset = 0)
  BY <1>1 DEF InStep
<1>9. TypeInv'
  <2>1. handled' \in Seq(Events')
    BY <1>1
  <2>2. rcv_buf' \in [1..BufSize -> Byte] /\ rcv_offset' \in 0..BufSize /\ stuck' \in BOOLEAN
    BY <1>1, <1>2 DEF TypeInv
  <2>3. scenario' \in Scenarios /\ heap' \in Heap /\ wire' \in Seq(Byte)
    BY <1>1, <1>2, <1>5, <1>6 DEF TypeInv
  <2>4. lost'.why \in {"no", "overflow", "length", "leftover"} /\ lost'.at \in Nat
    BY <1>8
  <2>. QED BY <2>1, <2>2, <2>3, <2>4, <1>4, <1>7 DEF TypeInv
<1>10. ASSUME lost'.why = "no" PROVE Following'
  <2>1. Len(handled') = 0 /\ 0 \in 0..Len(Stream') /\ rcv_offset' = 0 /\ ~stuck'
    BY <1>1, <1>6, <1>8, <1>10
  <2>2. Told'
    BY <2>1 DEF Told
  <2>3. Holds(rcv_buf, rcv_offset, Len(handled))'
    <3>1. 0 + 0 <= Len(Sent') /\ 0 \in 0..BufSize
      BY <1>6, CodecAssumption
    <3>2. rcv_buf' \in [1..BufSize -> Byte]
      BY <1>1, <1>2 DEF TypeInv
    <3>. QED BY <3>1, <3>2, <2>1, <1>6 DEF Holds
  <2>4. 0 + 0 + Len(Sent') = Len(Sent')
    BY <1>6
  <2>5. 0 < Len(Stream') => 0 < Size(Stream'[0 + 1])
    <3>1. SUFFICES ASSUME 0 < Len(Stream') PROVE 0 < Size(Stream'[1])
      OBVIOUS
    <3>2. Stream'[1] \in Packet
      BY <3>1, <1>5, <1>6
    <3>. QED BY <3>2, PacketIs
  <2>. QED BY <2>1, <2>2, <2>3, <2>4, <2>5, <1>5, <1>6 DEF Following
<1>. QED BY <1>4, <1>8, <1>9, <1>10 DEF Inv

LEMMA FilledIs ==
  ASSUME TypeInv, NEW n \in 1..Min({MaxChunk, Len(wire)}), Arrives(n), ~Overflows(n),
         UNCHANGED <<scenario, conn>>
  PROVE  /\ rcv_offset + n \in 0..BufSize /\ Filled(n) \in [1..BufSize -> Byte]
         /\ Following =>
              /\ Holds(Filled(n), rcv_offset + n, Len(handled))
              /\ Start(Stream, Len(handled)) + (rcv_offset + n) = Len(Sent) - Len(wire')
<1>1. /\ n \in Nat /\ n >= 1 /\ n <= Len(wire)
      /\ Len(wire) \in Nat /\ Len(Sent) \in Nat /\ Len(wire) <= Len(Sent)
      /\ Len(wire') = Len(wire) - n
      /\ \A i \in 1..n : wire[i] \in Byte /\ wire[i] = Sent[Len(Sent) - Len(wire) + i]
  BY ArrivesIs
<1>2. /\ rcv_buf \in [1..BufSize -> Byte] /\ rcv_offset \in 0..BufSize /\ BufSize \in Nat
      /\ rcv_offset \in Nat /\ Stream \in Seq(Packet)
  BY CodecAssumption, TypeGives DEF TypeInv
<1>3. rcv_offset + n \in 0..BufSize
  BY <1>1, <1>2 DEF Overflows
<1>4. \A i \in rcv_offset + 1..rcv_offset + n : i - rcv_offset \in 1..n
  BY <1>1, <1>2
<1>5. Filled(n) \in [1..BufSize -> Byte]
  <2>1. ASSUME NEW i \in 1..BufSize
        PROVE  (IF i \in rcv_offset + 1..rcv_offset + n THEN wire[i - rcv_offset]
                ELSE rcv_buf[i]) \in Byte
    BY <1>1, <1>2, <1>4
  <2>. QED BY <2>1 DEF Filled
<1>6. ASSUME Following
      PROVE  /\ Holds(Filled(n), rcv_offset + n, Len(handled))
             /\ Start(Stream, Len(handled)) + (rcv_offset + n) = Len(Sent) - Len(wire')
  <2> DEFINE a == Start(Stream, Len(handled))
  <2>1. /\ Len(handled) \in 0..Len(Stream) /\ a + rcv_offset + Len(wire) = Len(Sent)
        /\ \A i \in 1..rcv_offset : rcv_buf[i] = Sent[a + i]
    BY <1>6 DEF Following, Holds
  <2>2. a \in Nat
    BY <2>1, <1>2, StreamIs
  <2>. HIDE DEF a
  <2>3. a + (rcv_offset + n) = Len(Sent) - Len(wire') /\ a + (rcv_offset + n) <= Len(Sent)
    BY <2>1, <2>2, <1>1, <1>2
  <2>4. ASSUME NEW i \in 1..rcv_offset + n PROVE Filled(n)[i] = Sent[a + i]
    <3>1. i \in 1..BufSize
      BY <1>1, <1>2, <1>3
    <3>2. CASE i \in rcv_offset + 1..rcv_offset + n
      <4>1. /\ i - rcv_offset \in 1..n
            /\ Len(Sent) - Len(wire) + (i - rcv_offset) = a + i
        <5> DEFINE y == rcv_offset
                   z == Len(wire)
                   u == Len(Sent)
        <5>1. y \in Nat /\ z \in Nat /\ u \in Nat /\ i \in Nat
          BY <3>1, <1>1, <1>2, <1>4
        <5>2. a + y + z = u /\ i - rcv_offset \in 1..n
          BY <3>2, <2>1, <2>2, <1>1, <1>2, <1>4
        <5>. HIDE DEF y, z, u
        <5>3. u - z + (i - y) = a + i
          BY <5>1, <5>2, <2>2
        <5>. QED BY <5>2, <5>3 DEF y, z, u
      <4>2. wire[i - rcv_offset] = Sent[a + i]
        BY <4>1, <1>1
      <4>. QED BY <3>1, <3>2, <4>2 DEF Filled
    <3>3. CASE i \notin rcv_offset + 1..rcv_offset + n
      <4>1. i \in 1..rcv_offset
        BY <3>3, <1>1, <1>2
      <4>. QED BY <3>1, <3>3, <4>1, <2>1 DEF Filled
    <3>. QED BY <3>2, <3>3
  <2>5. Holds(Filled(n), rcv_offset + n, Len(handled))
    BY <2>1, <2>3, <2>4, <1>3, <1>5 DEF Holds, a
  <2>. QED BY <2>3, <2>5 DEF a
<1>. QED BY <1>3, <1>5, <1>6

LEMMA ReceiveIs ==
  ASSUME NEW n, Receive(n)
  PROVE  LET buf == Filled(n)
             end == rcv_offset + n
             s == Offsets(buf, end)
             last == s[Len(s)]
         IN
         /\ ~stuck /\ ~Overflows(n) /\ Arrives(n) /\ UNCHANGED <<scenario, conn, heap>>
         /\ stuck' = Spins(buf, end, last)
         /\ Handles(buf, s, Len(s) - 1)
         /\ \/ Refuses(buf, end, last) /\ rcv_offset' = 0 /\ rcv_buf' = buf /\ LoseStep("length")
            \/ Spins(buf, end, last) /\ rcv_offset' = end /\ rcv_buf' = buf /\ lost' = lost
            \/ /\ ~Refuses(buf, end, last) /\ ~Spins(buf, end, last)
               /\ rcv_offset' = end - last /\ rcv_buf' = Moved(buf, last, end - last)
               /\ lost' = lost
  BY DEF Receive

\* What was handled before stays, and every new event is one of a packet.
LEMMA HandledIs ==
  ASSUME TypeInv, Len(Stream) >= 1, NEW m \in Nat, NEW ok \in [1..m -> BOOLEAN],
         handled' = handled \o [i \in DOMAIN ok |->
                      Event(Stream[Min({Len(handled) + i, Len(Stream)})], ok[i])]
  PROVE  /\ handled' \in Seq(Events) /\ Len(handled) \in Nat /\ Len(handled') = Len(handled) + m
         /\ \A i \in 1..Len(handled) : handled'[i] = handled[i]
         /\ \A i \in 1..m : Len(handled) + i <= Len(Stream) =>
              handled'[Len(handled) + i] = Event(Stream[Len(handled) + i], ok[i])
<1> DEFINE at(i) == Min({Len(handled) + i, Len(Stream)})
           new == [i \in DOMAIN ok |-> Event(Stream[at(i)], ok[i])]
<1>1. Stream \in Seq(Packet) /\ handled \in Seq(Events)
  BY TypeGives DEF TypeInv
<1>2. Len(handled) \in Nat /\ Len(Stream) \in Nat /\ DOMAIN ok = 1..m
  BY <1>1
<1>3. ASSUME NEW i \in 1..m
      PROVE  at(i) \in 1..Len(Stream) /\ (Len(handled) + i <= Len(Stream) => at(i) = Len(handled) + i)
  <2> DEFINE S == {Len(handled) + i, Len(Stream)}
  <2>1. S \in SUBSET Nat /\ S # {}
    BY <1>2
  <2>2. at(i) \in S /\ \A y \in S : at(i) <= y
    BY <2>1, MinIs
  <2>. QED BY <2>2, <1>2
<1>. HIDE DEF at
<1>4. ASSUME NEW i \in 1..m PROVE Event(Stream[at(i)], ok[i]) \in Events
  <2>1. Stream[at(i)] \in Packet /\ ok[i] \in BOOLEAN
    BY <1>1, <1>3
  <2>. QED BY <2>1 DEF Events
<1>5. new \in Seq(Events) /\ Len(new) = m /\ \A i \in 1..m : new[i] = Event(Stream[at(i)], ok[i])
  <2>1. new = [i \in 1..m |-> Event(Stream[at(i)], ok[i])]
    BY <1>2
  <2>. HIDE DEF new
  <2>2. new \in [1..m -> Events]
    BY <2>1, <1>4
  <2>. QED BY <2>1, <2>2
<1>6. handled' = handled \o new
  BY DEF at
<1>. HIDE DEF new
<1>7. /\ handled' \in Seq(Events) /\ Len(handled') = Len(handled) + Len(new)
      /\ \A i \in 1..Len(handled) + Len(new) : handled'[i] =
                  IF i <= Len(handled) THEN handled[i] ELSE new[i - Len(handled)]
  <2>1. new \in Seq(Events) /\ handled \in Seq(Events)
    BY <1>1, <1>5
  <2>2. /\ handled \o new \in Seq(Events) /\ Len(handled \o new) = Len(handled) + Len(new)
        /\ \A i \in 1..Len(handled) + Len(new) : (handled \o new)[i] =
                  IF i <= Len(handled) THEN handled[i] ELSE new[i - Len(handled)]
    BY <2>1, ConcatProperties, Zenon
  <2>. QED BY <2>2, <1>6, Zenon
<1>8. \A i \in 1..Len(handled) : handled'[i] = handled[i]
  BY <1>2, <1>5, <1>7
<1>9. ASSUME NEW i \in 1..m, Len(handled) + i <= Len(Stream)
      PROVE  handled'[Len(handled) + i] = Event(Stream[Len(handled) + i], ok[i])
  <2>1. /\ Len(handled) + i \in 1..Len(handled) + Len(new) /\ ~(Len(handled) + i <= Len(handled))
        /\ Len(handled) + i - Len(handled) = i
    BY <1>2, <1>5
  <2>2. handled'[Len(handled) + i] = new[i]
    <3>1. PICK j \in 1..Len(handled) + Len(new) : j = Len(handled) + i
      BY <2>1
    <3>2. ~(j <= Len(handled)) /\ j - Len(handled) = i
      BY <2>1, <3>1
    <3>3. handled'[j] = new[j - Len(handled)]
      BY <3>2, <1>7
    <3>. QED BY <3>1, <3>2, <3>3
  <2>. QED BY <2>2, <1>3, <1>5, <1>9
<1>. QED BY <1>2, <1>5, <1>7, <1>8, <1>9

LEMMA MovedIs ==
  ASSUME NEW buf \in [1..BufSize -> Byte], NEW n \in 0..BufSize, NEW o \in 0..n
  PROVE  /\ n - o \in 0..BufSize /\ Moved(buf, o, n - o) \in [1..BufSize -> Byte]
         /\ \A i \in 1..n - o : Moved(buf, o, n - o)[i] = buf[o + i]
<1>1. BufSize \in Nat
  BY CodecAssumption
<1>2. n - o \in 0..BufSize /\ \A i \in 1..n - o : i \in 1..BufSize /\ o + i \in 1..BufSize
  BY <1>1
<1>3. \A i \in 1..BufSize : i <= n - o => i \in 1..n - o
  BY <1>1
<1>4. \A i \in 1..BufSize : (IF i <= n - o THEN buf[o + i] ELSE buf[i]) \in Byte
  BY <1>2, <1>3
<1>5. Moved(buf, o, n - o) \in [1..BufSize -> Byte]
  BY <1>4 DEF Moved
<1>6. \A i \in 1..n - o : i <= n - o
  BY <1>1
<1>. QED BY <1>2, <1>5, <1>6 DEF Moved

LEMMA ReceiveInv ==
  ASSUME Inv, NEW n \in 1..Min({MaxChunk, Len(wire)}), Receive(n)
  PROVE  Inv'
<1> DEFINE buf == Filled(n)
           end == rcv_offset + n
           s == Offsets(buf, end)
           m == Len(s) - 1
           last == s[Len(s)]
           h == Len(handled)
           k == h + m
<1>1. /\ ~stuck /\ ~Overflows(n) /\ Arrives(n) /\ UNCHANGED <<scenario, conn, heap>>
      /\ stuck' = Spins(buf, end, last)
      /\ \/ Refuses(buf, end, last) /\ rcv_offset' = 0 /\ rcv_buf' = buf /\ LoseStep("length")
         \/ Spins(buf, end, last) /\ rcv_offset' = end /\ rcv_buf' = buf /\ lost' = lost
         \/ /\ ~Refuses(buf, end, last) /\ ~Spins(buf, end, last)
            /\ rcv_offset' = end - last /\ rcv_buf' = Moved(buf, last, end - last)
            /\ lost' = lost
  BY ReceiveIs
<1>2. PICK ok \in [1..m -> BOOLEAN] :
        /\ \A i \in DOMAIN ok : IsPacket(buf, s[i], h + i) => ok[i] \in Accepts(Stream[h + i])
        /\ handled' = handled \o [i \in DOMAIN ok |->
                        Event(Stream[Min({h + i, Len(Stream)})], ok[i])]
  BY ReceiveIs DEF Handles
<1>3. TypeInv /\ Stream \in Seq(Packet) /\ heap \in Byte /\ Sent \in Seq(Byte)
  BY TypeGives DEF Inv
<1>4. /\ n \in Nat /\ n >= 1 /\ n <= Len(wire)
      /\ Len(wire) \in Nat /\ Len(Sent) \in Nat /\ Len(wire) <= Len(Sent)
      /\ wire' \in Seq(Byte) /\ Len(wire') = Len(wire) - n /\ Ending(Sent, wire)'
  BY <1>1, <1>3, ArrivesIs
<1>5. /\ end \in 0..BufSize /\ end \in Nat /\ buf \in [1..BufSize -> Byte] /\ BufSize \in Nat
      /\ Following => Holds(buf, end, h) /\ Start(Stream, h) + end = Len(Sent) - Len(wire')
  <2>1. UNCHANGED <<scenario, conn>> /\ BufSize \in Nat
    BY <1>1, CodecAssumption
  <2>2. /\ end \in 0..BufSize /\ buf \in [1..BufSize -> Byte]
        /\ Following => Holds(buf, end, h) /\ Start(Stream, h) + end = Len(Sent) - Len(wire')
    BY <2>1, <1>1, <1>3, FilledIs
  <2>. QED BY <2>1, <2>2
<1>6. Stream' = Stream /\ Sent' = Sent /\ Sized' = Sized /\ TooBig' = TooBig
  BY <1>1, SameStream
<1>7. Len(Stream) >= 1
  <2>1. CASE Len(Stream) = 0
    <3>1. Len(Sent) = 0
      BY <2>1, <1>3, StreamIs DEF Sent
    <3>. QED BY <3>1, <1>4
  <2>2. Len(Stream) \in Nat
    BY <1>3
  <2>. QED BY <2>1, <2>2
<1>. HIDE DEF buf, end
<1>8. m \in Nat /\ last \in 0..end
  <2>1. s \in Seq(0..end) /\ s # <<>>
    BY <1>3, <1>5, OffsetsAre
  <2>2. Len(s) \in Nat /\ Len(s) # 0
    BY <2>1
  <2>3. Len(s) \in 1..Len(s)
    BY <2>2
  <2>4. last \in 0..end
    BY <2>1, <2>3, ElementOfSeq
  <2>. QED BY <2>2, <2>4
<1>. HIDE DEF s
<1>9. /\ handled' \in Seq(Events) /\ h \in Nat /\ Len(handled') = h + m
      /\ \A i \in 1..h : handled'[i] = handled[i]
      /\ \A i \in 1..m : h + i <= Len(Stream) => handled'[h + i] = Event(Stream[h + i], ok[i])
  <2>. HIDE DEF m
  <2>. QED BY <1>2, <1>3, <1>7, <1>8, HandledIs
<1>. HIDE DEF last, m
<1>10. /\ end - last \in 0..BufSize /\ Moved(buf, last, end - last) \in [1..BufSize -> Byte]
       /\ \A i \in 1..end - last : Moved(buf, last, end - last)[i] = buf[last + i]
  BY <1>5, <1>8, MovedIs
<1>11. /\ Refuses(buf, end, last) \/ lost' = lost
       /\ lost.why # "no" => lost' = lost
       /\ lost' = lost \/ (lost'.why = "length" /\ lost'.at = Len(Sent) - Len(wire'))
       /\ lost'.at \in Nat
  <2>1. Len(wire') \in Nat /\ Len(wire') <= Len(Sent)
    BY <1>4
  <2>2. lost.at \in Nat
    BY <1>3 DEF TypeInv
  <2>3. CASE LoseStep("length") /\ Refuses(buf, end, last)
    BY <2>1, <2>3, <1>3, LosesStep
  <2>4. CASE lost' = lost
    BY <2>2, <2>4
  <2>. QED BY <2>3, <2>4, <1>1
<1>12. TypeInv'
  <2>1. rcv_buf' \in [1..BufSize -> Byte] /\ rcv_offset' \in 0..BufSize
    <3>1. 0 \in 0..BufSize
      BY <1>5
    <3>. QED BY <3>1, <1>1, <1>5, <1>10
  <2>2. stuck' \in BOOLEAN
    BY <1>1 DEF Spins
  <2>3. lost'.why \in {"no", "overflow", "length", "leftover"}
    BY <1>3, <1>11 DEF TypeInv
  <2>4. scenario' \in Scenarios /\ conn' \in DOMAIN scenario'.streams /\ heap' \in Heap
    BY <1>1, <1>3 DEF TypeInv
  <2>5. handled' \in Seq(Events)'
    BY <1>9 DEF Events, Event
  <2>. QED BY <2>1, <2>2, <2>3, <2>4, <2>5, <1>4, <1>11 DEF TypeInv
<1>13. ASSUME Sized, lost.why = "no", Following
       PROVE  /\ k \in h..Len(Stream) /\ Start(Stream, h) + last = Start(Stream, k)
              /\ \A j \in 1..m : h + j <= Len(Stream) /\ IsPacket(buf, s[j], h + j)
              /\ ~Spins(buf, end, last)
              /\ Refuses(buf, end, last) => InsideLength(Len(Sent) - Len(wire'))
              /\ k < Len(Stream) => end - last < Size(Stream[k + 1])
  <2>1. Holds(buf, end, h) /\ Start(Stream, h) + end = Len(Sent) - Len(wire')
    BY <1>5, <1>13
  <2>. HIDE DEF h
  <2>. QED BY <2>1, <1>3, <1>13, LoopFollows DEF s, m, last
<1>14. ASSUME Sized, lost.why = "no", lost'.why = "no" PROVE Following'
  <2>1. Following
    BY <1>14 DEF Inv
  <2>2. /\ ~Spins(buf, end, last) /\ ~Refuses(buf, end, last)
        /\ rcv_offset' = end - last /\ rcv_buf' = Moved(buf, last, end - last)
    <3>1. ~Spins(buf, end, last)
      BY <2>1, <1>13, <1>14
    <3>2. ~LoseStep("length")
      <4>1. LoseStep("length") => lost'.why = "length"
        BY <1>14 DEF LoseStep
      <4>. QED BY <4>1, <1>14
    <3>. QED BY <3>1, <3>2, <1>1
  <2>3. /\ k \in h..Len(Stream) /\ Start(Stream, h) + last = Start(Stream, k)
        /\ \A j \in 1..m : h + j <= Len(Stream) /\ IsPacket(buf, s[j], h + j)
        /\ k < Len(Stream) => end - last < Size(Stream[k + 1])
    BY <2>1, <1>13, <1>14
  <2>4. /\ Holds(buf, end, h) /\ Start(Stream, h) + end = Len(Sent) - Len(wire')
        /\ Start(Stream, h) + end <= Len(Sent)
        /\ h \in 0..Len(Stream) /\ Start(Stream, h) \in Nat
        /\ \A i \in 1..end : buf[i] = Sent[Start(Stream, h) + i]
    BY <2>1, <1>3, <1>5, StreamIs DEF Holds
  <2>5. Len(handled') = k /\ k \in 0..Len(Stream) /\ Start(Stream, k) \in Nat /\ Len(Stream) \in Nat
    BY <2>3, <2>4, <1>3, <1>9, StreamIs
  <2>6. Told'
    <3>1. SUFFICES ASSUME NEW i \in 1..k
                   PROVE  i <= Len(Stream) /\ \E b \in Accepts(Stream[i]) : handled'[i] = Event(Stream[i], b)
      <4>1. \A i \in 1..Len(handled') :
              i <= Len(Stream) /\ \E b \in Accepts(Stream[i]) : handled'[i] = Event(Stream[i], b)
        BY <3>1, <2>5
      <4>2. \A p : Accepts(p)' = Accepts(p)
        BY <1>1, SameAnswers
      <4>. QED BY <4>1, <4>2, <1>6 DEF Told
    <3>2. CASE i <= h
      <4>1. i \in 1..h
        BY <3>2, <1>9
      <4>. QED BY <4>1, <2>1, <1>9 DEF Following, Told
    <3>3. CASE ~(i <= h)
      <4>1. PICK j \in 1..m : i = h + j
        <5>1. i - h \in 1..m /\ h + (i - h) = i
          BY <3>3, <1>8, <1>9
        <5>. QED BY <5>1
      <4>2. h + j <= Len(Stream) /\ IsPacket(buf, s[j], h + j)
        BY <2>3
      <4>3. j \in DOMAIN ok /\ ok[j] \in Accepts(Stream[h + j])
        BY <4>2, <1>2
      <4>4. handled'[h + j] = Event(Stream[h + j], ok[j])
        BY <4>2, <1>9
      <4>. QED BY <4>1, <4>2, <4>3, <4>4
    <3>. QED BY <3>2, <3>3
  <2>7. last \in Nat /\ end - last \in Nat /\ Start(Stream, k) + (end - last) = Start(Stream, h) + end
    BY <2>3, <2>4, <2>5, <1>5, <1>8
  <2>8. Holds(rcv_buf', end - last, k)
    <3>1. ASSUME NEW i \in 1..end - last PROVE rcv_buf'[i] = Sent[Start(Stream, k) + i]
      <4>1. last + i \in 1..end /\ Start(Stream, h) + (last + i) = Start(Stream, k) + i
        BY <2>3, <2>4, <2>7, <1>5
      <4>2. rcv_buf'[i] = buf[last + i]
        BY <2>2, <1>10
      <4>3. buf[last + i] = Sent[Start(Stream, h) + (last + i)]
        BY <4>1, <2>4
      <4>. QED BY <4>1, <4>2, <4>3
    <3>2. rcv_buf' \in [1..BufSize -> Byte]
      BY <2>2, <1>10
    <3>3. Start(Stream, k) + (end - last) <= Len(Sent)
      BY <2>4, <2>7
    <3>. QED BY <3>1, <3>2, <3>3, <2>5, <1>10 DEF Holds
  <2>. HIDE DEF k, h
  <2>9. Holds(rcv_buf, rcv_offset, Len(handled))'
    <3>1. rcv_offset' = end - last /\ Len(handled') = k
      BY <2>2, <2>5
    <3>. QED BY <3>1, <2>8, <1>6, SMTT(20) DEF Holds
  <2>10. Start(Stream, k) + (end - last) + Len(wire') = Len(Sent)
    <3> DEFINE x == Start(Stream, k) + (end - last)
    <3>1. x = Len(Sent) - Len(wire')
      BY <2>4, <2>7
    <3>2. Len(Sent) \in Nat /\ Len(wire') \in Nat
      BY <1>4
    <3>. HIDE DEF x
    <3>3. x + Len(wire') = Len(Sent)
      BY <3>1, <3>2
    <3>. QED BY <3>3 DEF x
  <2>11. Start(Stream, Len(handled))' = Start(Stream, k)
    BY <2>5, <1>6 DEF Start, BytesOf, Prefix
  <2>12. ~stuck'
    BY <2>2, <1>1
  <2>. QED BY <2>2, <2>3, <2>5, <2>6, <2>9, <2>10, <2>11, <2>12, <1>6 DEF Following
<1>15. \A x : InsideLength(x)' <=> InsideLength(x)
  BY <1>6 DEF InsideLength
<1>16. ASSUME Sized
       PROVE  /\ lost'.why = "no" => Following'
              /\ lost'.why = "length" => InsideLength(lost'.at)
              /\ lost'.why = "overflow" => TooBig
              /\ lost'.why = "leftover" => conn > 1
  <2>1. CASE lost.why # "no"
    <3>1. lost' = lost
      BY <2>1, <1>11
    <3>. QED BY <3>1, <2>1, <1>16 DEF Inv
  <2>2. CASE lost.why = "no"
    <3>1. Following
      BY <2>2, <1>16 DEF Inv
    <3>2. Refuses(buf, end, last) => InsideLength(Len(Sent) - Len(wire'))
      <4>. HIDE DEF h, k
      <4>. QED BY <3>1, <2>2, <1>13, <1>16
    <3>3. lost'.why = "no" \/ (lost'.why = "length" /\ InsideLength(lost'.at))
      BY <3>2, <2>2, <1>11
    <3>. QED BY <3>3, <2>2, <1>14, <1>16
  <2>. QED BY <2>1, <2>2
<1>17. InsideLength(lost.at)' <=> InsideLength(lost'.at)
  BY <1>6 DEF InsideLength
<1>. QED BY <1>1, <1>6, <1>12, <1>16, <1>17 DEF Inv

\* A handler does not return only where the premise of the invariant is false, or
\* step with the stream was lost.
LEMMA HangInv ==
  ASSUME Inv, NEW n \in 1..Min({MaxChunk, Len(wire)}), Hang(n)
  PROVE  Inv'
<1> DEFINE buf == Filled(n)
           end == rcv_offset + n
           s == Offsets(buf, end)
           h == Len(handled)
<1>1. /\ ~Overflows(n) /\ Arrives(n) /\ UNCHANGED <<scenario, conn, heap, lost>>
      /\ rcv_buf' = buf /\ rcv_offset' = end /\ stuck' = TRUE
  BY DEF Hang
<1>2. PICK count \in 1..Len(s) - 1 :
        /\ IsPacket(buf, s[count], h + count) => Misread(Stream[h + count])
        /\ Handles(buf, s, count - 1)
  BY DEF Hang
<1>3. TypeInv /\ Stream \in Seq(Packet) /\ heap \in Byte /\ Sent \in Seq(Byte)
  BY TypeGives DEF Inv
<1>4. /\ n \in Nat /\ n >= 1 /\ n <= Len(wire)
      /\ Len(wire) \in Nat /\ Len(Sent) \in Nat /\ Len(wire) <= Len(Sent)
      /\ wire' \in Seq(Byte) /\ Ending(Sent, wire)'
  BY <1>1, <1>3, ArrivesIs
<1>5. /\ end \in 0..BufSize /\ buf \in [1..BufSize -> Byte]
      /\ Following => Holds(buf, end, h)
  <2>1. UNCHANGED <<scenario, conn>>
    BY <1>1
  <2>. QED BY <2>1, <1>1, <1>3, FilledIs
<1>6. Stream' = Stream /\ Sent' = Sent /\ Sized' = Sized /\ TooBig' = TooBig
  BY <1>1, SameStream
<1>7. Len(Stream) >= 1
  <2>1. CASE Len(Stream) = 0
    <3>1. Len(Sent) = 0
      BY <2>1, <1>3, StreamIs DEF Sent
    <3>. QED BY <3>1, <1>4
  <2>2. Len(Stream) \in Nat
    BY <1>3
  <2>. QED BY <2>1, <2>2
<1>. HIDE DEF buf, end
<1>8. Len(s) - 1 \in Nat
  <2>1. s \in Seq(0..end) /\ s # <<>>
    BY <1>3, <1>5, OffsetsAre
  <2>. QED BY <2>1
<1>. HIDE DEF s
<1>9. handled' \in Seq(Events)
  <2>1. count - 1 \in Nat
    BY <1>8
  <2>2. PICK ok \in [1..count - 1 -> BOOLEAN] :
          handled' = handled \o [i \in DOMAIN ok |->
                       Event(Stream[Min({Len(handled) + i, Len(Stream)})], ok[i])]
    BY <1>2 DEF Handles
  <2>. QED BY <2>1, <2>2, <1>3, <1>7, HandledIs
<1>10. TypeInv'
  <2>1. scenario' \in Scenarios /\ conn' \in DOMAIN scenario'.streams /\ heap' \in Heap
    BY <1>1, <1>3 DEF TypeInv
  <2>2. lost'.why \in {"no", "overflow", "length", "leftover"} /\ lost'.at \in Nat
    BY <1>1, <1>3 DEF TypeInv
  <2>3. handled' \in Seq(Events)'
    BY <1>9 DEF Events, Event
  <2>. QED BY <2>1, <2>2, <2>3, <1>1, <1>4, <1>5 DEF TypeInv
<1>11. ASSUME Sized PROVE lost.why # "no"
  <2>1. SUFFICES ASSUME lost.why = "no" PROVE FALSE
    OBVIOUS
  <2>2. Following /\ Holds(buf, end, h)
    BY <2>1, <1>5, <1>11 DEF Inv
  <2>. HIDE DEF h
  <2>3. \A j \in 1..Len(s) - 1 : h + j <= Len(Stream) /\ IsPacket(buf, s[j], h + j)
    BY <2>2, <1>3, <1>5, <1>11, LoopFollows DEF s
  <2>4. h \in Nat /\ Len(Stream) \in Nat
    BY <1>3 DEF h, TypeInv
  <2>5. h + count <= Len(Stream) /\ Misread(Stream[h + count])
    BY <2>3, <1>2
  <2>6. h + count \in DOMAIN Stream
    BY <2>4, <2>5, <1>2, <1>3, <1>8
  <2>. QED BY <2>5, <2>6, <1>11 DEF Sized
<1>12. InsideLength(lost.at)' <=> InsideLength(lost.at)
  BY <1>1, <1>6 DEF InsideLength
<1>. QED BY <1>1, <1>6, <1>10, <1>11, <1>12 DEF Inv

LEMMA StutterInv ==
  ASSUME Inv, UNCHANGED vars
  PROVE  Inv'
<1>1. /\ Stream' = Stream /\ Sent' = Sent /\ Sized' = Sized /\ TooBig' = TooBig
  BY SameStream DEF vars
<1>2. TypeInv' <=> TypeInv
  BY <1>1 DEF TypeInv, vars, Ending, Events, Event
<1>3. \A p : Accepts(p)' = Accepts(p)
  BY SameAnswers DEF vars
<1>4. Told' <=> Told
  BY <1>1, <1>3 DEF Told, vars
<1>5. Start(Stream, Len(handled))' = Start(Stream, Len(handled))
  BY <1>1 DEF Start, BytesOf, Prefix, vars
<1>6. Following' <=> Following
  BY <1>1, <1>4, <1>5 DEF Following, Holds, vars
<1>7. InsideLength(lost.at)' <=> InsideLength(lost.at)
  BY <1>1 DEF InsideLength, vars
<1>. QED BY <1>1, <1>2, <1>6, <1>7 DEF Inv, vars

THEOREM Invariance == Spec => []Inv
<1>1. Init => Inv
  BY InitInv
<1>2. Inv /\ [Next]_vars => Inv'
  <2>. SUFFICES ASSUME Inv, [Next]_vars PROVE Inv'
    OBVIOUS
  <2>1. ASSUME NEW n \in 1..Min({MaxChunk, Len(wire)}), Receive(n) PROVE Inv'
    BY <2>1, ReceiveInv
  <2>2. ASSUME NEW n \in 1..Min({MaxChunk, Len(wire)}), ReceiveTooMuch(n) PROVE Inv'
    BY <2>2, TooMuchInv
  <2>3. CASE Reconnect
    BY <2>3, ReconnectInv
  <2>4. CASE UNCHANGED vars
    BY <2>4, StutterInv
  <2>5. ASSUME NEW n \in 1..Min({MaxChunk, Len(wire)}), Hang(n) PROVE Inv'
    BY <2>5, HangInv
  <2>. QED BY <2>1, <2>2, <2>3, <2>4, <2>5 DEF Next
<1>. QED BY <1>1, <1>2, PTL DEF Spec

-----------------------------------------------------------------------------
(* The theorems                                                            *)

\* The state of the receive buffer and of what is known of the stream is of the
\* right type: rcv_offset stays within rcv_buf (noxmqtt_transport_rcv_func).
THEOREM TypeCorrect == Spec => []TypeOK
<1>1. Inv => TypeOK
  BY TypeGives DEF Inv
<1>. QED BY <1>1, Invariance, PTL

LEMMA CutFromStart ==
  ASSUME NEW S, NEW n \in Nat, NEW s \in [1..n -> S], NEW l \in 0..n, NEW i \in 1..l
  PROVE  Cut(s, 0, l)[i] = s[i]
<1>1. PICK a \in Int : a = 1 /\ a = 0 + 1 /\ 0 + l = l /\ l \in Int
  OBVIOUS
<1>2. Cut(s, 0, l) = SubSeq(s, a, l)
  BY <1>1 DEF Cut
<1>3. \A k \in a..l : s[k] \in S
  BY <1>1
<1>4. \A k \in 1..l - a + 1 : SubSeq(s, a, l)[k] = s[a + k - 1]
  BY <1>1, <1>3, SubSeqProperties
<1>5. i \in 1..l - a + 1 /\ a + i - 1 = i
  BY <1>1
<1>. QED BY <1>2, <1>4, <1>5

LEMMA ConcatBehind ==
  ASSUME NEW T, NEW s \in Seq(T), NEW t \in Seq(T), NEW m \in Nat, m = Len(s), NEW j \in 1..Len(t)
  PROVE  (s \o t)[m + j] = t[j]
<1>1. m + j \in 1..Len(s) + Len(t) /\ ~(m + j <= Len(s)) /\ m + j - Len(s) = j
  OBVIOUS
<1>. QED BY <1>1, ConcatProperties

LEMMA FollowingFollows ==
  ASSUME TypeInv, Following
  PROVE  Follows
<1> DEFINE h == Len(handled)
           a == BytesOf(Prefix(Stream, h))
           b == SubSeq(rcv_buf, 1, rcv_offset)
<1>1. /\ Stream \in Seq(Packet) /\ Sent \in Seq(Byte) /\ wire \in Seq(Byte) /\ Ending(Sent, wire)
      /\ rcv_buf \in [1..BufSize -> Byte] /\ rcv_offset \in 0..BufSize /\ BufSize \in Nat
  BY TypeGives, CodecAssumption DEF TypeInv
<1>2. /\ h \in 0..Len(Stream) /\ Start(Stream, h) + rcv_offset + Len(wire) = Len(Sent)
      /\ \A i \in 1..rcv_offset : rcv_buf[i] = Sent[Start(Stream, h) + i]
  BY DEF Following, Holds
<1>3. /\ a \in Seq(Byte) /\ Len(a) = Start(Stream, h) /\ Len(a) \in Nat
      /\ \A i \in 1..Len(a) : a[i] = Sent[i]
  <2>1. a \in Seq(Byte) /\ Len(a) = Start(Stream, h)
    BY <1>1, <1>2, BytesOfNext DEF Start
  <2>2. \A i \in 1..Start(Stream, h) : BytesOf(Stream)[i] = a[i]
    BY <1>1, <1>2, BytesOfPrefix
  <2>. HIDE DEF a
  <2>. QED BY <2>1, <2>2 DEF Sent
<1>4. /\ b \in Seq(Byte) /\ Len(b) = rcv_offset
      /\ \A i \in 1..rcv_offset : b[i] = rcv_buf[i]
  <2>1. 0 + rcv_offset <= BufSize /\ rcv_offset \in Nat /\ 0 + 1 = 1 /\ 0 + rcv_offset = rcv_offset
    BY <1>1
  <2>2. b = Cut(rcv_buf, 0, rcv_offset)
    BY <2>1 DEF Cut
  <2>3. Cut(rcv_buf, 0, rcv_offset) \in Seq(Byte)
    BY <2>1, <1>1, CutIs
  <2>4. Len(Cut(rcv_buf, 0, rcv_offset)) = rcv_offset
    BY <2>1, CutLen
  <2>5. ASSUME NEW i \in 1..rcv_offset PROVE Cut(rcv_buf, 0, rcv_offset)[i] = rcv_buf[i]
    BY <2>1, <1>1, CutFromStart
  <2>. QED BY <2>2, <2>3, <2>4, <2>5
<1>. HIDE DEF a, b, h
<1>5. Len(wire) \in Nat /\ Len(Sent) \in Nat /\ rcv_offset \in Nat
  BY <1>1
<1>6. a \o b \in Seq(Byte) /\ Len(a \o b) = Len(a) + rcv_offset
  BY <1>3, <1>4
<1>7. a \o b \o wire \in Seq(Byte) /\ Len(a \o b \o wire) = Len(Sent)
  <2>1. Len((a \o b) \o wire) = Len(a \o b) + Len(wire)
    BY <1>1, <1>6, ConcatProperties
  <2>. QED BY <2>1, <1>1, <1>2, <1>3, <1>6
<1>8. ASSUME NEW i \in 1..Len(Sent) PROVE (a \o b \o wire)[i] = Sent[i]
  <2>1. CASE i <= Len(a)
    <3>1. (a \o b \o wire)[i] = a[i]
      BY <2>1, <1>1, <1>3, <1>4, <1>6
    <3>. QED BY <3>1, <2>1, <1>3
  <2>2. CASE i > Len(a) /\ i <= Len(a) + rcv_offset
    <3>1. i - Len(a) \in 1..rcv_offset /\ Len(a) + (i - Len(a)) = i
      BY <2>2, <1>3, <1>5
    <3>2. (a \o b \o wire)[i] = (a \o b)[i]
      BY <2>2, <1>1, <1>3, <1>5, <1>6
    <3>3. (a \o b)[i] = b[i - Len(a)]
      BY <2>2, <1>3, <1>4, <1>5
    <3>. QED BY <3>1, <3>2, <3>3, <1>2, <1>3, <1>4
  <2>3. CASE i > Len(a) + rcv_offset
    <3>1. PICK j \in 1..Len(wire) : j = i - (Len(a) + rcv_offset)
      BY <2>3, <1>2, <1>3, <1>5
    <3>2. (a \o b \o wire)[i] = wire[j]
      <4> DEFINE ab == a \o b
                 m == Len(a) + rcv_offset
      <4>1. ab \in Seq(Byte) /\ m = Len(ab) /\ m \in Nat
        BY <1>3, <1>5, <1>6
      <4>. HIDE DEF ab
      <4>2. m + j = i
        BY <3>1, <1>3, <1>5
      <4>. HIDE DEF m
      <4>3. (ab \o wire)[m + j] = wire[j]
        BY <4>1, <1>1, ConcatBehind
      <4>. QED BY <4>2, <4>3 DEF ab
    <3>3. \A x, y, z, s, u, v \in Nat : x + y + z = s /\ u = v - (x + y) => s - z + u = v
      OBVIOUS
    <3>4. Len(a) + rcv_offset + Len(wire) = Len(Sent) /\ j \in Nat /\ i \in Nat
      BY <1>2, <1>3, <1>5
    <3>5. Len(Sent) - Len(wire) + j = i
      BY <3>1, <3>3, <3>4, <1>3, <1>5
    <3>6. wire[j] = Sent[Len(Sent) - Len(wire) + j]
      BY <1>1 DEF Ending
    <3>. QED BY <3>2, <3>5, <3>6
  <2>4. \/ i <= Len(a) \/ i > Len(a) + rcv_offset
        \/ i > Len(a) /\ i <= Len(a) + rcv_offset
    BY <1>3, <1>5
  <2>. QED BY <2>1, <2>2, <2>3, <2>4, Zenon
<1>9. a \o b \o wire = Sent
  BY <1>1, <1>7, <1>8, SeqEqual
<1>10. Len(handled) <= Len(Stream)
  BY <1>1, <1>2 DEF h
<1>11. ~stuck
  BY DEF Following
<1>. QED BY <1>9, <1>10, <1>11 DEF Follows, Following, Sent, a, b, h

\* However recv cuts the stream, the client handles its packets one by one, the
\* whole stream being the packets handled, the buffer and what is yet to come, and
\* comes to the end of the bytes it was given.  It loses step only over a chunk
\* that ends within a length field, a packet too big for the buffer and another
\* chunk, or bytes of the last connection (noxmqtt_transport_rcv_func).  The
\* property leaves out streams in which a packet is of 64 kB, or a length field
\* reaches so far beyond the property block that a 16-bit sum wraps.
THEOREM StreamStaysIntact == Spec => []StreamIntact
<1>1. Inv => StreamIntact
  <2>. SUFFICES ASSUME Inv, Sized
                PROVE  CASE lost.why = "no" -> Follows
                         [] lost.why = "length" -> InsideLength(lost.at)
                         [] lost.why = "overflow" -> TooBig
                         [] lost.why = "leftover" -> conn > 1
    BY DEF StreamIntact, TooBig
  <2>1. lost.why \in {"no", "overflow", "length", "leftover"}
    BY DEF Inv, TypeInv
  <2>2. lost.why = "no" => Follows
    BY FollowingFollows DEF Inv
  <2>. QED BY <2>1, <2>2 DEF Inv
<1>. QED BY <1>1, Invariance, PTL

-----------------------------------------------------------------------------
(* Property lists                                                          *)

Property == [id : PropertyId \cup {"unknown"}, val : Nat]

\* s holds the values of the properties `id' among the first n.
Collected(props, id, n, s) ==
  /\ s \in Seq(Nat)
  /\ \A k \in 1..Len(s) : \E i \in 1..n : props[i].id = id /\ props[i].val = s[k]
  /\ \A i \in 1..n : props[i].id = id => \E k \in 1..Len(s) : s[k] = props[i].val
  /\ \A i, j \in 1..n : props[i].id = id /\ props[j].id = id /\ i # j => Len(s) > 1
  /\ Len(s) > 1 => \E i, j \in 1..n : props[i].id = id /\ props[j].id = id /\ i # j

LEMMA CollectedNext ==
  ASSUME NEW props, NEW id, NEW m \in Nat, NEW s, Collected(props, id, m, s),
         NEW n \in Nat, n = m + 1, props[n].val \in Nat
  PROVE  Collected(props, id, n,
                   IF props[n].id = id THEN Append(s, props[n].val) ELSE s)
<1>1. s \in Seq(Nat) /\ Len(s) \in Nat
  BY DEF Collected
<1>2. /\ \A i \in 1..m : i \in 1..n /\ i # n
      /\ n \in 1..n /\ \A i \in 1..n : i = n \/ i \in 1..m
  OBVIOUS
<1>3. CASE props[n].id # id
  <2>1. \A k \in 1..Len(s) : \E i \in 1..n : props[i].id = id /\ props[i].val = s[k]
    BY <1>2 DEF Collected
  <2>2. \A i \in 1..n : props[i].id = id => \E k \in 1..Len(s) : s[k] = props[i].val
    BY <1>2, <1>3 DEF Collected
  <2>3. \A i, j \in 1..n : props[i].id = id /\ props[j].id = id /\ i # j => Len(s) > 1
    BY <1>2, <1>3 DEF Collected
  <2>4. Len(s) > 1 => \E i, j \in 1..n : props[i].id = id /\ props[j].id = id /\ i # j
    BY <1>2 DEF Collected
  <2>. QED BY <2>1, <2>2, <2>3, <2>4, <1>1, <1>3 DEF Collected
<1>4. CASE props[n].id = id
  <2> DEFINE t == Append(s, props[n].val)
  <2>1. /\ t \in Seq(Nat) /\ Len(t) = Len(s) + 1 /\ t[Len(s) + 1] = props[n].val
        /\ \A k \in 1..Len(s) : t[k] = s[k]
    BY <1>1
  <2>2. \A k \in 1..Len(t) : k = Len(s) + 1 \/ k \in 1..Len(s)
    BY <1>1, <2>1
  <2>3. Len(s) + 1 \in 1..Len(t) /\ \A k \in 1..Len(s) : k \in 1..Len(t)
    BY <1>1, <2>1
  <2>. HIDE DEF t
  <2>4. ASSUME NEW k \in 1..Len(t)
        PROVE  \E i \in 1..n : props[i].id = id /\ props[i].val = t[k]
    <3>1. CASE k = Len(s) + 1
      BY <3>1, <2>1, <1>2, <1>4
    <3>2. CASE k \in 1..Len(s)
      <4>1. PICK i \in 1..m : props[i].id = id /\ props[i].val = s[k]
        BY <3>2 DEF Collected
      <4>. QED BY <4>1, <3>2, <2>1, <1>2
    <3>. QED BY <3>1, <3>2, <2>2
  <2>5. ASSUME NEW i \in 1..n, props[i].id = id
        PROVE  \E k \in 1..Len(t) : t[k] = props[i].val
    <3>1. CASE i = n
      BY <3>1, <2>1, <2>3
    <3>2. CASE i \in 1..m
      <4>1. PICK k \in 1..Len(s) : s[k] = props[i].val
        BY <3>2, <2>5 DEF Collected
      <4>. QED BY <4>1, <2>1, <2>3
    <3>. QED BY <3>1, <3>2, <1>2
  <2>6. ASSUME NEW i \in 1..m, props[i].id = id PROVE Len(t) > 1
    <3>1. PICK k \in 1..Len(s) : s[k] = props[i].val
      BY <2>6 DEF Collected
    <3>. QED BY <3>1, <2>1, <1>1
  <2>7. \A i, j \in 1..n : props[i].id = id /\ props[j].id = id /\ i # j => Len(t) > 1
    BY <2>6, <1>2
  <2>8. ASSUME Len(t) > 1
        PROVE  \E i, j \in 1..n : props[i].id = id /\ props[j].id = id /\ i # j
    <3>1. 1 \in 1..Len(s)
      BY <2>1, <2>8, <1>1
    <3>2. PICK i \in 1..m : props[i].id = id
      BY <3>1 DEF Collected
    <3>. QED BY <3>2, <1>2, <1>4
  <2>9. Collected(props, id, n, t)
    BY <2>1, <2>4, <2>5, <2>7, <2>8 DEF Collected
  <2>. QED BY <2>9, <1>4 DEF t
<1>. QED BY <1>3, <1>4

\* The recursive function of Values.
Collects(f, props, id) ==
  f = [n \in 0..Len(props) |->
         IF n = 0 THEN <<>>
         ELSE IF props[n].id = id THEN Append(f[n - 1], props[n].val)
         ELSE f[n - 1]]

LEMMA CollectsExists ==
  ASSUME NEW props \in Seq(Property), NEW id
  PROVE  \E f : Collects(f, props, id)
<1> DEFINE n == Len(props)
           S == Seq(Nat)
           G == [x \in (1..n) \X S |->
                   IF props[x[1]].id = id THEN Append(x[2], props[x[1]].val) ELSE x[2]]
<1>1. n \in Nat /\ <<>> \in S /\ \A i \in 1..n : props[i].val \in Nat
  <2> DEFINE P == Property
  <2>1. \A q \in P : q.val \in Nat
    BY DEF Property
  <2>2. props \in Seq(P)
    OBVIOUS
  <2>. HIDE DEF P
  <2>3. \A i \in 1..n : props[i] \in P
    BY <2>2
  <2>. QED BY <2>1, <2>2, <2>3
<1>2. \A s \in S, v \in Nat : Append(s, v) \in S
  OBVIOUS
<1>3. G \in [(1..n) \X S -> S]
  <2>1. ASSUME NEW x \in (1..n) \X S
        PROVE  (IF props[x[1]].id = id THEN Append(x[2], props[x[1]].val) ELSE x[2]) \in S
    <3>1. x[1] \in 1..n /\ x[2] \in S
      OBVIOUS
    <3>2. props[x[1]].val \in Nat
      BY <3>1, <1>1
    <3>. HIDE DEF S
    <3>. QED BY <3>1, <3>2, <1>2
  <2>. HIDE DEF S
  <2>. QED BY <2>1
<1>4. PICK f \in [0..n -> S] : Recursive(f, n, <<>>, G)
  <2>. HIDE DEF S, G, n
  <2>. QED BY <1>1, <1>3, RecursionExists
<1>5. ASSUME NEW i \in 0..n
      PROVE  f[i] = IF i = 0 THEN <<>>
                    ELSE IF props[i].id = id THEN Append(f[i - 1], props[i].val)
                    ELSE f[i - 1]
  <2>1. CASE i = 0
    BY <2>1, <1>4 DEF Recursive
  <2>2. CASE i # 0
    <3>1. i \in 1..n /\ i - 1 \in 0..n
      BY <2>2, <1>1
    <3>2. <<i, f[i - 1]>> \in (1..n) \X S
      BY <3>1, <1>4
    <3>3. G[<<i, f[i - 1]>>]
            = IF props[i].id = id THEN Append(f[i - 1], props[i].val) ELSE f[i - 1]
      <4>. HIDE DEF S, n
      <4>. QED BY <3>2
    <3>. HIDE DEF G, S
    <3>. QED BY <3>1, <3>3, <2>2, <1>4 DEF Recursive
  <2>. QED BY <2>1, <2>2
<1>6. f = [i \in 0..n |-> f[i]]
  <2>. HIDE DEF S
  <2>. QED BY <1>4
<1>7. Collects(f, props, id)
  <2>. HIDE DEF G, S
  <2>. QED BY <1>5, <1>6 DEF Collects
<1>. QED BY <1>7

\* Values are what the properties with that identifier have.
LEMMA ValuesAre ==
  ASSUME NEW props \in Seq(Property), NEW id
  PROVE  Collected(props, id, Len(props), Values(props, id))
<1> DEFINE n == Len(props)
           f == CHOOSE f : Collects(f, props, id)
           Bad == {m \in 0..n : ~Collected(props, id, m, f[m])}
<1>1. n \in Nat /\ \A i \in 1..n : props[i].val \in Nat
  <2> DEFINE P == Property
  <2>1. \A q \in P : q.val \in Nat
    BY DEF Property
  <2>2. props \in Seq(P)
    OBVIOUS
  <2>. HIDE DEF P
  <2>3. \A i \in 1..n : props[i] \in P
    BY <2>2
  <2>. QED BY <2>1, <2>2, <2>3
<1>2. Collects(f, props, id)
  BY CollectsExists
<1>3. Values(props, id) = f[n]
  BY DEF Values, Collects
<1>. HIDE DEF f
<1>4. Bad = {}
  <2>1. SUFFICES ASSUME Bad # {} PROVE FALSE
    OBVIOUS
  <2>2. Bad \in SUBSET Nat
    OBVIOUS
  <2>3. PICK k \in Bad : \A j \in Bad : k <= j
    <3>. HIDE DEF Bad
    <3>. QED BY <2>1, <2>2, MinIs
  <2>4. k \in 0..n /\ ~Collected(props, id, k, f[k])
    BY <2>3
  <2>5. CASE k = 0
    <3>1. f[0] = <<>>
      BY <2>4, <2>5, <1>2 DEF Collects
    <3>2. Collected(props, id, 0, <<>>)
      BY DEF Collected
    <3>. QED BY <3>1, <3>2, <2>4, <2>5
  <2>6. CASE k # 0
    <3>1. PICK m \in 0..n : k = m + 1 /\ m = k - 1
      BY <2>4, <2>6, <1>1
    <3>2. m \notin Bad
      BY <3>1, <2>3, <2>4
    <3>3. Collected(props, id, m, f[m])
      BY <3>2
    <3>4. f[k] = IF props[k].id = id THEN Append(f[m], props[k].val) ELSE f[m]
      BY <3>1, <2>4, <2>6, <1>2 DEF Collects
    <3>5. k \in Nat /\ m \in Nat /\ k \in 1..n
      BY <3>1, <2>4, <2>6, <1>1
    <3>6. props[k].val \in Nat
      BY <3>5, <1>1
    <3>. HIDE DEF Bad, n
    <3>7. Collected(props, id, k, IF props[k].id = id THEN Append(f[m], props[k].val) ELSE f[m])
      BY <3>1, <3>3, <3>5, <3>6, CollectedNext
    <3>. QED BY <3>4, <3>7, <2>4
  <2>. QED BY <2>5, <2>6
<1>5. n \in 0..n
  BY <1>1
<1>6. Collected(props, id, n, f[n])
  BY <1>4, <1>5
<1>. QED BY <1>3, <1>6

\* A list is a list of whole properties, all of which the block declares.
LEMMA ListIs ==
  ASSUME NEW p \in Packet
  PROVE  /\ Sendable(p) /\ p.props \in Seq(Property) /\ Len(p.props) \in Nat
         /\ SubSeq(p.props, 1, Len(p.props)) = p.props
         /\ \A i \in DOMAIN p.props : p.props[i].val \in Nat
         /\ p.payload \in Nat /\ p.length \in Nat /\ ListSize(p.props) \in Nat
         /\ p.codes \in Seq(Byte) /\ Len(p.codes) \in Nat
<1> DEFINE P == Property
<1>1. Sendable(p)
  BY PacketAssumption
<1>2. p.props \in Seq(P) /\ p.codes \in Seq(Byte)
  BY <1>1 DEF Sendable, Property, Byte
<1>3. p.payload \in Nat /\ p.length \in Nat /\ ListSize(p.props) \in Nat
  BY <1>1 DEF Sendable
<1>4. \A q \in P : q.val \in Nat
  BY DEF Property
<1>. HIDE DEF P
<1>5. /\ Len(p.props) \in Nat /\ DOMAIN p.props = 1..Len(p.props)
      /\ \A i \in DOMAIN p.props : p.props[i] \in P
  BY <1>2
<1>6. SubSeq(p.props, 1, Len(p.props)) = p.props
  <2> DEFINE s == p.props
             t == SubSeq(s, 1, Len(s))
  <2>1. t \in Seq(P) /\ Len(t) = Len(s) /\ \A i \in 1..Len(s) : t[i] = s[i]
    BY <1>2
  <2>2. s \in Seq(P)
    BY <1>2
  <2>. HIDE DEF s, t
  <2>3. t = s
    BY <2>1, <2>2, SeqEqual
  <2>. QED BY <2>3 DEF s, t
<1>. QED BY <1>1, <1>2, <1>3, <1>4, <1>5, <1>6 DEF P

\* The block of a packet is all of its list where no length lies.
LEMMA BlockIs ==
  ASSUME NEW p \in Packet
  PROVE  /\ BlockSize(p) \in Nat
         /\ p.length = ListSize(p.props) => BlockSize(p) = p.length
<1> DEFINE S == {p.length, ListSize(p.props)}
<1>1. S \in SUBSET Nat /\ S # {}
  BY ListIs
<1>2. BlockSize(p) \in S
  BY <1>1, MinIs DEF BlockSize
<1>. QED BY <1>1, <1>2

\* What `Collected' says of the values of a packet: they are numbers, ...
LEMMA PacketCollects ==
  ASSUME NEW p \in Packet, NEW id
  PROVE  /\ Collected(p.props, id, Len(p.props), Values(p.props, id))
         /\ Values(p.props, id) \in Seq(Nat) /\ Len(Values(p.props, id)) \in Nat
         /\ DOMAIN p.props = 1..Len(p.props)
<1>1. Collected(p.props, id, Len(p.props), Values(p.props, id))
  BY ListIs, ValuesAre
<1>2. Values(p.props, id) \in Seq(Nat)
  BY <1>1 DEF Collected
<1>3. DOMAIN p.props = 1..Len(p.props)
  BY ListIs
<1>. QED BY <1>1, <1>2, <1>3

\* A property `id' has the value v.
Given(props, id, v) == \E i \in DOMAIN props : props[i].id = id /\ props[i].val = v

\* ... each that of a property with the identifier, ...
LEMMA ValueIsGiven ==
  ASSUME NEW p \in Packet, NEW id, NEW k \in 1..Len(Values(p.props, id))
  PROVE  Given(p.props, id, Values(p.props, id)[k])
<1> DEFINE s == Values(p.props, id)
           n == Len(p.props)
<1>1. Collected(p.props, id, n, s) /\ DOMAIN p.props = 1..n
  BY PacketCollects
<1>. HIDE DEF s, n
<1>2. \A l \in 1..Len(s) : \E i \in 1..n : p.props[i].id = id /\ p.props[i].val = s[l]
  BY <1>1 DEF Collected
<1>3. \A l \in 1..Len(s) : \E i \in DOMAIN p.props : p.props[i].id = id /\ p.props[i].val = s[l]
  BY <1>1, <1>2
<1>. QED BY <1>3 DEF s, Given

\* ... of every such property, ...
LEMMA GivenIsValue ==
  ASSUME NEW p \in Packet, NEW i \in DOMAIN p.props
  PROVE  \E k \in 1..Len(Values(p.props, p.props[i].id)) :
           Values(p.props, p.props[i].id)[k] = p.props[i].val
<1> DEFINE id == p.props[i].id
<1>1. Collected(p.props, id, Len(p.props), Values(p.props, id)) /\ i \in 1..Len(p.props)
  BY PacketCollects
<1>2. p.props[i].id = id
  OBVIOUS
<1>. HIDE DEF id
<1>3. \E k \in 1..Len(Values(p.props, id)) : Values(p.props, id)[k] = p.props[i].val
  BY <1>1, <1>2 DEF Collected
<1>. QED BY <1>3 DEF id

\* ... and one for each.
LEMMA GivenOnce ==
  ASSUME NEW p \in Packet, NEW id
  PROVE  Len(Values(p.props, id)) <= 1 <=>
           \A i, j \in DOMAIN p.props : p.props[i].id = id /\ p.props[j].id = id => i = j
<1> DEFINE s == Values(p.props, id)
           n == Len(p.props)
<1>1. Collected(p.props, id, n, s) /\ Len(s) \in Nat /\ DOMAIN p.props = 1..n
  BY PacketCollects
<1>. HIDE DEF s, n
<1>2. Len(s) <= 1 <=> ~(Len(s) > 1)
  BY <1>1
<1>3. ASSUME ~(Len(s) > 1)
      PROVE  \A i, j \in 1..n : p.props[i].id = id /\ p.props[j].id = id => i = j
  BY <1>1, <1>3 DEF Collected
<1>4. ASSUME Len(s) > 1
      PROVE  \E i, j \in 1..n : p.props[i].id = id /\ p.props[j].id = id /\ i # j
  BY <1>1, <1>4 DEF Collected
<1>. QED BY <1>1, <1>2, <1>3, <1>4 DEF s

Holders == Acks \cup {"CONNACK", "PUBLISH", "DISCONNECT", "AUTH"}

\* noxmqtt_mqtt5_validate_properties forbids exactly what the standard does not
\* provide for.
LEMMA ForbiddenIs ==
  ASSUME NEW type \in Holders, NEW id \in PropertyId
  PROVE  id \in Forbidden(type) <=> type \notin UsedIn(id)
<1>1. CASE type = "CONNACK"
  BY <1>1 DEF PropertyId, Flags, U16, U32, Strings, Repeatable, Forbidden, ConnackForbids, UsedIn, Acks
<1>2. CASE type = "PUBLISH"
  BY <1>2 DEF PropertyId, Flags, U16, U32, Strings, Repeatable, Forbidden, PublishForbids, UsedIn, Acks
<1>3. CASE type \in Acks
  BY <1>3 DEF PropertyId, Flags, U16, U32, Strings, Repeatable, Forbidden, AckForbids, AuthForbids,
     UsedIn, Acks
<1>4. CASE type = "DISCONNECT"
  BY <1>4 DEF PropertyId, Flags, U16, U32, Strings, Repeatable, Forbidden, DisconnectForbids,
     AckForbids, AuthForbids, UsedIn, Acks
<1>5. CASE type = "AUTH"
  BY <1>5 DEF PropertyId, Flags, U16, U32, Strings, Repeatable, Forbidden, AuthForbids, UsedIn, Acks
<1>. QED BY <1>1, <1>2, <1>3, <1>4, <1>5 DEF Holders

LEMMA OnlyKnownUsed ==
  ASSUME NEW id, UsedIn(id) # {}
  PROVE  id \in PropertyId
BY DEF UsedIn, PropertyId, Flags, U16, U32, Strings, Repeatable

\* The tables of reason codes are those of the standard.
LEMMA CodesAre ==
  ASSUME NEW type \in Holders, type # "PUBLISH", NEW c \in Byte
  PROVE  c \in ReasonCodes(type) <=> type \in CodeUsedIn(c)
<1>1. CASE type = "CONNACK"
  BY <1>1 DEF ReasonCodes, CodeUsedIn, Acks, Byte
<1>2. CASE type \in {"PUBACK", "PUBREC"}
  BY <1>2 DEF ReasonCodes, CodeUsedIn, Acks, Byte
<1>3. CASE type \in {"PUBREL", "PUBCOMP"}
  BY <1>3 DEF ReasonCodes, CodeUsedIn, Acks, Byte
<1>4. CASE type = "SUBACK"
  BY <1>4 DEF ReasonCodes, CodeUsedIn, Acks, Byte
<1>5. CASE type = "UNSUBACK"
  BY <1>5 DEF ReasonCodes, CodeUsedIn, Acks, Byte
<1>6. CASE type = "DISCONNECT"
  BY <1>6 DEF ReasonCodes, CodeUsedIn, Acks, Byte
<1>7. CASE type = "AUTH"
  BY <1>7 DEF ReasonCodes, CodeUsedIn, Acks, Byte
<1>. QED BY <1>1, <1>2, <1>3, <1>4, <1>5, <1>6, <1>7 DEF Holders, Acks

\* What the view holds of a packet.
LEMMA ViewIs ==
  ASSUME NEW p \in Packet, NEW id
  PROVE  /\ id \in DOMAIN View(p.props) <=> \E i \in DOMAIN p.props : p.props[i].id = id
         /\ id \in DOMAIN View(p.props) =>
              View(p.props)[id] = IF id = "user_property" THEN Prefix(Values(p.props, id), MaxUser)
                                  ELSE Values(p.props, id)
  BY DEF View, Prefix

-----------------------------------------------------------------------------
(* What is accepted                                                        *)

\* The conditions of the standard on a list of properties.
WellListed(p) ==
  /\ p.length = ListSize(p.props)
  /\ \A i, j \in DOMAIN p.props :
       p.props[i].id = p.props[j].id => i = j \/ p.props[i].id \in Repeatable
  /\ \A i \in DOMAIN p.props :
       LET id == p.props[i].id IN
       /\ p.type \in UsedIn(id)
       /\ id \in Flags => p.props[i].val \in {0, 1}
       /\ id \in {"subscription_identifier", "receive_maximum", "topic_alias",
                  "maximum_packet_size"} => p.props[i].val > 0
       /\ id = "auth_data" => \E j \in DOMAIN p.props : p.props[j].id = "auth_method"

LEMMA ReadIsWellListed ==
  ASSUME NEW p \in Packet, p.type \in Holders, ReadsProperties(p)
  PROVE  WellListed(p)
<1> DEFINE ids(id) == {i \in DOMAIN p.props : p.props[i].id = id}
<1>1. Parses(p.props, p.length, Room(p)) /\ Validates(p.type, View(p.props))
  BY DEF ReadsProperties
<1>2. /\ Len(p.props) \in Declared(p.props, p.length)
      /\ \A i \in DOMAIN p.props : p.props[i].id \in PropertyId
      /\ \A id \in PropertyId \ Repeatable : Len(Values(p.props, id)) <= 1
  <2>1. PICK n \in Declared(p.props, p.length) :
          LET read == SubSeq(p.props, 1, n) IN
          /\ \A i \in DOMAIN read : read[i].id \in PropertyId
          /\ \A id \in PropertyId \ Repeatable : Len(Values(read, id)) <= 1
    BY <1>1 DEF Parses
  <2>2. n = Len(p.props)
    BY ListIs DEF Sendable
  <2>3. SubSeq(p.props, 1, n) = p.props
    BY <2>2, ListIs
  <2>. QED BY <2>1, <2>2, <2>3
<1>3. p.length = ListSize(p.props)
  <2>1. ListSize(SubSeq(p.props, 1, Len(p.props))) = p.length
    BY <1>2 DEF Declared
  <2>. QED BY <2>1, ListIs
<1>4. ASSUME NEW i \in DOMAIN p.props, NEW j \in DOMAIN p.props, p.props[i].id = p.props[j].id,
             p.props[i].id \notin Repeatable
      PROVE  i = j
  <2>1. p.props[i].id \in PropertyId \ Repeatable
    BY <1>2, <1>4
  <2>2. Len(Values(p.props, p.props[i].id)) <= 1
    BY <1>2, <2>1
  <2>. QED BY <2>2, <1>4, GivenOnce
<1>5. ASSUME NEW i \in DOMAIN p.props, NEW id, id = p.props[i].id
      PROVE  /\ p.type \in UsedIn(id)
             /\ id \in Flags => p.props[i].val \in {0, 1}
             /\ id \in MustBePositive => p.props[i].val > 0
             /\ id = "auth_data" => \E j \in DOMAIN p.props : p.props[j].id = "auth_method"
  <2>1. id \in DOMAIN View(p.props) /\ id \in PropertyId
    BY <1>2, <1>5, ViewIs
  <2>2. p.type \in UsedIn(id)
    <3>1. id \notin Forbidden(p.type)
      BY <1>1, <2>1 DEF Validates
    <3>. QED BY <3>1, <2>1, ForbiddenIs
  <2>3. PICK k \in 1..Len(Values(p.props, id)) : Values(p.props, id)[k] = p.props[i].val
    BY <1>5, GivenIsValue
  <2>4. Len(Values(p.props, id)) \in Nat /\ p.props[i].val \in Nat /\ Values(p.props, id) \in Seq(Nat)
    BY ListIs, PacketCollects
  <2>5. id # "user_property" => View(p.props)[id] = Values(p.props, id)
    BY <2>1, ViewIs
  <2>6. ASSUME id \in Flags PROVE p.props[i].val \in {0, 1}
    <3>1. id \in PropertyId \ Repeatable /\ id # "user_property"
      BY <2>6, <2>1 DEF Flags, Repeatable
    <3>2. Len(Values(p.props, id)) <= 1
      BY <3>1, <1>2
    <3>3. k = 1
      BY <3>2, <2>3, <2>4
    <3>4. View(p.props)[id][1] <= 1
      BY <2>1, <2>6, <1>1 DEF Validates
    <3>. QED BY <3>1, <3>3, <3>4, <2>3, <2>4, <2>5
  <2>7. ASSUME id \in MustBePositive PROVE p.props[i].val > 0
    <3>1. id # "user_property"
      BY <2>7 DEF MustBePositive
    <3>2. 0 \notin Range(Values(p.props, id))
      BY <3>1, <2>1, <2>5, <2>7, <1>1 DEF Validates
    <3>3. Values(p.props, id)[k] # 0
      BY <3>2, <2>3, <2>4 DEF Range
    <3>. QED BY <3>3, <2>3, <2>4
  <2>8. ASSUME id = "auth_data" PROVE \E j \in DOMAIN p.props : p.props[j].id = "auth_method"
    <3>1. "auth_method" \in DOMAIN View(p.props)
      BY <2>1, <2>8, <1>1 DEF Validates
    <3>. QED BY <3>1, ViewIs
  <2>. QED BY <2>2, <2>6, <2>7, <2>8
<1>. QED BY <1>3, <1>4, <1>5 DEF WellListed, MustBePositive

LEMMA WellListedIsRead ==
  ASSUME NEW p \in Packet, p.type \in Holders, p.full, WellListed(p),
         Len(Values(p.props, "subscription_identifier")) <= MaxSubIds
  PROVE  ReadsProperties(p)
<1>1. \A i \in DOMAIN p.props :
        p.type \in UsedIn(p.props[i].id) /\ p.props[i].id \in PropertyId
  BY OnlyKnownUsed DEF WellListed
<1>2. p.length <= Room(p)
  <2>1. p.length \in Nat /\ p.payload \in Nat /\ Len(p.codes) \in Nat
    BY ListIs
  <2>2. BlockSize(p) = p.length
    BY BlockIs DEF WellListed
  <2>3. Room(p) = p.length + p.payload + (IF CodesLast(p) THEN Len(p.codes) ELSE 0)
    BY <2>2 DEF Room
  <2>. QED BY <2>1, <2>3
<1>3. Len(p.props) \in Declared(p.props, p.length)
  <2>1. SubSeq(p.props, 1, Len(p.props)) = p.props /\ Len(p.props) \in Nat
    BY ListIs
  <2>2. ListSize(SubSeq(p.props, 1, Len(p.props))) = p.length
    BY <2>1 DEF WellListed
  <2>. QED BY <2>1, <2>2 DEF Declared
<1>4. ASSUME NEW id \in PropertyId \ Repeatable PROVE Len(Values(p.props, id)) <= 1
  <2>1. \A i, j \in DOMAIN p.props : p.props[i].id = id /\ p.props[j].id = id => i = j
    BY DEF WellListed
  <2>. QED BY <2>1, GivenOnce
<1>5. Parses(p.props, p.length, Room(p))
  <2> DEFINE n == Len(p.props)
             read == SubSeq(p.props, 1, n)
  <2>1. read = p.props
    BY ListIs
  <2>2. /\ \A i \in DOMAIN read : read[i].id \in PropertyId
        /\ \A id \in PropertyId \ Repeatable : Len(Values(read, id)) <= 1
        /\ Len(Values(read, "subscription_identifier")) <= MaxSubIds
    BY <2>1, <1>1, <1>4
  <2>. HIDE DEF n
  <2>3. n \in Declared(p.props, p.length)
    BY <1>3 DEF n
  <2>. QED BY <2>2, <2>3, <1>2 DEF Parses
<1>6. ASSUME NEW id, id \in DOMAIN View(p.props)
      PROVE  /\ id \notin Forbidden(p.type)
             /\ id \in Flags => View(p.props)[id][1] <= 1
             /\ id \in MustBePositive => 0 \notin Range(View(p.props)[id])
             /\ id = "auth_data" => "auth_method" \in DOMAIN View(p.props)
  <2>1. PICK i \in DOMAIN p.props : p.props[i].id = id
    BY <1>6, ViewIs
  <2>2. id \notin Forbidden(p.type)
    BY <2>1, <1>1, <1>6, ForbiddenIs
  <2>3. /\ Values(p.props, id) \in Seq(Nat) /\ Len(Values(p.props, id)) \in Nat
        /\ \A k \in 1..Len(Values(p.props, id)) : Given(p.props, id, Values(p.props, id)[k])
    <3>1. Values(p.props, id) \in Seq(Nat) /\ Len(Values(p.props, id)) \in Nat
      BY PacketCollects
    <3>2. \A k \in 1..Len(Values(p.props, id)) : Given(p.props, id, Values(p.props, id)[k])
      BY ValueIsGiven
    <3>. QED BY <3>1, <3>2
  <2>4. id # "user_property" => View(p.props)[id] = Values(p.props, id)
    BY <1>6, ViewIs
  <2>5. ASSUME id \in Flags PROVE View(p.props)[id][1] <= 1
    <3>1. PICK k \in 1..Len(Values(p.props, id)) : Values(p.props, id)[k] = p.props[i].val
      BY <2>1, GivenIsValue
    <3>2. 1 \in 1..Len(Values(p.props, id))
      BY <3>1, <2>3
    <3>3. PICK j \in DOMAIN p.props : p.props[j].id = id /\ p.props[j].val = Values(p.props, id)[1]
      BY <3>2, <2>3 DEF Given
    <3>4. p.props[j].val \in {0, 1}
      BY <3>3, <2>5 DEF WellListed
    <3>5. id # "user_property"
      BY <2>5 DEF Flags
    <3>. QED BY <3>3, <3>4, <3>5, <2>4
  <2>6. ASSUME id \in MustBePositive PROVE 0 \notin Range(View(p.props)[id])
    <3>1. id # "user_property"
      BY <2>6 DEF MustBePositive
    <3>2. \A j \in DOMAIN p.props : p.props[j].id = id => p.props[j].val > 0
      BY <2>6 DEF WellListed, MustBePositive
    <3>3. \A k \in 1..Len(Values(p.props, id)) : Values(p.props, id)[k] # 0
      BY <3>2, <2>3 DEF Given
    <3>. QED BY <3>1, <3>3, <2>3, <2>4 DEF Range
  <2>7. ASSUME id = "auth_data" PROVE "auth_method" \in DOMAIN View(p.props)
    <3>1. \E j \in DOMAIN p.props : p.props[j].id = "auth_method"
      BY <2>1, <2>7 DEF WellListed
    <3>. QED BY <3>1, ViewIs
  <2>. QED BY <2>2, <2>5, <2>6, <2>7
<1>7. Validates(p.type, View(p.props))
  BY <1>6 DEF Validates
<1>. QED BY <1>5, <1>7 DEF ReadsProperties

LEMMA TypeIs ==
  ASSUME NEW p \in Packet
  PROVE  p.type \in Holders \cup {"PINGRESP"}
BY ListIs DEF Sendable, Holders

LEMMA CodesAllowed ==
  ASSUME NEW p \in Packet, p.type \in Holders, p.type # "PUBLISH"
  PROVE  ValidReasons(p.type, p.codes) <=>
           \A i \in DOMAIN p.codes : p.type \in CodeUsedIn(p.codes[i])
<1>1. p.codes \in Seq(Byte)
  BY ListIs
<1>2. \A i \in DOMAIN p.codes : p.codes[i] \in Byte
  BY <1>1
<1>3. \A i \in DOMAIN p.codes :
        p.codes[i] \in ReasonCodes(p.type) <=> p.type \in CodeUsedIn(p.codes[i])
  BY <1>2, CodesAre
<1>4. ValidReasons(p.type, p.codes) <=>
        \A i \in DOMAIN p.codes : p.codes[i] \in ReasonCodes(p.type)
  BY DEF ValidReasons, Range
<1>. QED BY <1>3, <1>4

\* How long the rest of a packet is.
LEMMA RestIs ==
  ASSUME NEW p \in Packet
  PROVE  \E block \in Nat :
           /\ p.full <=> block > 0
           /\ RemainingLength(p) = FixedSize(p) + Len(p.codes) + p.payload + block
<1> DEFINE block == IF p.full THEN Len(Digits(p.length)) + BlockSize(p) ELSE 0
<1>1. Encodable(p.length) /\ p.full \in BOOLEAN
  BY ListIs DEF Sendable
<1>2. Len(Digits(p.length)) \in 1..4
  BY <1>1, DigitsAre
<1>3. BlockSize(p) \in Nat
  BY BlockIs
<1>. DEFINE d == Len(Digits(p.length))
            l == BlockSize(p)
<1>4. d \in 1..4 /\ l \in Nat
  BY <1>2, <1>3
<1>. HIDE DEF d, l
<1>6. d + l \in Nat /\ d + l > 0
  BY <1>4
<1>7. CASE p.full
  <2>1. block = d + l
    BY <1>7 DEF d, l
  <2>2. RemainingLength(p) = FixedSize(p) + Len(p.codes) + p.payload + block
    BY DEF RemainingLength
  <2>. HIDE DEF block
  <2>3. block \in Nat /\ block > 0
    BY <2>1, <1>6
  <2>. QED BY <2>2, <2>3, <1>7
<1>8. CASE ~p.full
  <2>1. block = 0
    BY <1>8
  <2>2. RemainingLength(p) = FixedSize(p) + Len(p.codes) + p.payload + block
    BY DEF RemainingLength
  <2>. HIDE DEF block
  <2>3. block \in Nat /\ ~(block > 0)
    BY <2>1
  <2>. QED BY <2>2, <2>3, <1>8
<1>. QED BY <1>7, <1>8

\* A packet without a property block has no properties.
LEMMA BareIsWellListed ==
  ASSUME NEW p \in Packet, ~p.full
  PROVE  p.props = <<>> /\ WellListed(p)
<1>1. p.props = <<>> /\ p.length = ListSize(<<>>)
  BY ListIs DEF Sendable
<1>2. p.length = ListSize(p.props) /\ DOMAIN p.props = {}
  BY <1>1
<1>. QED BY <1>1, <1>2 DEF WellListed

LEMMA WellFormedIs ==
  ASSUME NEW p
  PROVE  WellFormed(p) <=>
           /\ V5 => p.full \/ p.type \in Omits
           /\ \A i \in DOMAIN p.codes : p.type \in CodeUsedIn(p.codes[i])
           /\ WellListed(p)
BY DEF WellFormed, WellListed

\* With MQTT 5, no handler accepts what the standard calls malformed,
\* unless it misreads it.
LEMMA AcceptedIsWellFormed ==
  ASSUME NEW p \in Packet, V5, TRUE \in Answers(p)
  PROVE  WellFormed(p)
<1>1. p.type \in Holders \cup {"PINGRESP"} /\ Sendable(p)
  BY TypeIs, ListIs
<1>2. p.codes = <<>> => DOMAIN p.codes = {}
  OBVIOUS
<1>3. CASE p.type = "PINGRESP"
  <2>1. ~p.full /\ p.codes = <<>>
    BY <1>1, <1>3 DEF Sendable
  <2>. QED BY <2>1, <1>2, <1>3, BareIsWellListed, WellFormedIs DEF Omits
<1>4. CASE p.type = "PUBLISH"
  <2>1. ReadsProperties(p) /\ p.codes = <<>>
    BY <1>1, <1>4 DEF Answers, AcceptsPublish, Sendable
  <2>2. p.type \in Holders /\ p.full
    BY <1>4, <2>1 DEF Holders, ReadsProperties
  <2>. QED BY <2>1, <2>2, <1>2, ReadIsWellListed, WellFormedIs
<1>5. CASE p.type = "CONNACK"
  <2>1. AcceptsConnack(p)
    BY <1>5 DEF Answers
  <2>2. ReadsProperties(p) /\ ValidReasons(p.type, p.codes)
    BY <2>1 DEF AcceptsConnack
  <2>3. p.type \in Holders /\ p.full /\ p.type # "PUBLISH"
    BY <1>5, <2>2 DEF Holders, ReadsProperties
  <2>. QED BY <2>2, <2>3, CodesAllowed, ReadIsWellListed, WellFormedIs
<1>6. CASE p.type \in {"SUBACK", "UNSUBACK"}
  <2>1. AcceptsSuback(p)
    BY <1>6 DEF Answers
  <2>2. ReadsProperties(p) /\ ValidReasons(p.type, p.codes)
    BY <2>1 DEF AcceptsSuback
  <2>3. p.type \in Holders /\ p.full /\ p.type # "PUBLISH"
    BY <1>6, <2>2 DEF Holders, Acks, ReadsProperties
  <2>. QED BY <2>2, <2>3, CodesAllowed, ReadIsWellListed, WellFormedIs
<1>7. CASE p.type \in {"PUBACK", "PUBREC", "PUBREL", "PUBCOMP"}
  <2>1. AcceptsAck(p)
    BY <1>7 DEF Answers
  <2>2. ValidReasons(p.type, p.codes) /\ (p.full => ReadsProperties(p))
    BY <2>1 DEF AcceptsAck
  <2>3. p.type \in Holders /\ p.type \in Omits /\ p.type # "PUBLISH"
    BY <1>7 DEF Holders, Acks, Omits
  <2>4. WellListed(p)
    BY <2>2, <2>3, ReadIsWellListed, BareIsWellListed
  <2>. QED BY <2>2, <2>3, <2>4, CodesAllowed, WellFormedIs
<1>8. CASE p.type \in {"DISCONNECT", "AUTH"}
  <2>1. p.type \in Holders /\ p.type \in Omits /\ p.type # "PUBLISH"
    BY <1>8 DEF Holders, Omits
  <2>2. CASE p.codes = <<>>
    <3>1. ~p.full
      BY <1>1, <1>8, <2>2 DEF Sendable
    <3>. QED BY <3>1, <2>1, <2>2, <1>2, BareIsWellListed, WellFormedIs
  <2>3. CASE p.codes # <<>>
    <3>1. ValidReasons(p.type, p.codes) /\ (p.full => ReadsProperties(p))
      <4>1. CASE p.type = "DISCONNECT"
        BY <4>1, <2>3 DEF Answers
      <4>2. CASE p.type = "AUTH"
        BY <4>2, <2>3 DEF Answers, AcceptsAuth
      <4>. QED BY <4>1, <4>2, <1>8
    <3>2. WellListed(p)
      BY <3>1, <2>1, ReadIsWellListed, BareIsWellListed
    <3>. QED BY <3>1, <3>2, <2>1, CodesAllowed, WellFormedIs
  <2>. QED BY <2>2, <2>3
<1>. QED BY <1>1, <1>3, <1>4, <1>5, <1>6, <1>7, <1>8 DEF Holders, Acks

\* The authentication method of a packet that names it once.
LEMMA MethodIs ==
  ASSUME NEW p \in Packet, WellListed(p), NEW i \in DOMAIN p.props,
         p.props[i].id = "auth_method", p.full
  PROVE  GivesMethod(p) /\ View(p.props)["auth_method"][1] = p.props[i].val
<1> DEFINE id == "auth_method"
<1>1. id \in DOMAIN View(p.props) /\ View(p.props)[id] = Values(p.props, id)
  <2>1. p.props[i].id = id /\ id # "user_property"
    OBVIOUS
  <2>. HIDE DEF id
  <2>2. id \in DOMAIN View(p.props)
    BY <2>1, ViewIs
  <2>. QED BY <2>1, <2>2, ViewIs
<1>2. \A j \in DOMAIN p.props : p.props[j].id = id => j = i
  BY DEF WellListed, Repeatable
<1>3. Len(Values(p.props, id)) \in Nat
  BY PacketCollects
<1>4. \E k \in 1..Len(Values(p.props, p.props[i].id)) :
        Values(p.props, p.props[i].id)[k] = p.props[i].val
  BY GivenIsValue
<1>5. 1 \in 1..Len(Values(p.props, id))
  BY <1>3, <1>4
<1>6. Given(p.props, id, Values(p.props, id)[1])
  BY <1>5, ValueIsGiven
<1>7. Values(p.props, id)[1] = p.props[i].val
  BY <1>2, <1>6 DEF Given
<1>. QED BY <1>1, <1>7 DEF GivesMethod

\* Every legal packet within the limits of the client is accepted, whatever the
\* bytes of a view that was never written.
LEMMA LegalIsAccepted ==
  ASSUME NEW p \in Packet, V5 \/ Version311(p), Legal(p), ~BeyondLimits(p),
         NEW ok \in Answers(p)
  PROVE  ok
<1> DEFINE agreed == scenario.conf.auth_method
           names == {i \in DOMAIN p.props : p.props[i].id = "auth_method"}
<1>1. p.type \in Holders \cup {"PINGRESP"} /\ Sendable(p)
  BY TypeIs, ListIs
<1>2. /\ V5 => p.full \/ p.type \in Omits
      /\ \A i \in DOMAIN p.codes : p.type \in CodeUsedIn(p.codes[i])
      /\ WellListed(p)
  BY WellFormedIs DEF Legal
<1>3. /\ \A i \in names : agreed > 0 /\ p.props[i].val = agreed
      /\ p.type = "AUTH" => agreed > 0
      /\ p.type = "AUTH" \/ (p.type = "CONNACK" /\ p.codes = <<0>>) => agreed = 0 \/ names # {}
  BY DEF Legal
<1>4. p.type \in Holders /\ p.type # "PUBLISH" => ValidReasons(p.type, p.codes)
  BY <1>2, CodesAllowed
<1>5. p.type \in Holders /\ p.full => ReadsProperties(p)
  <2>1. Len(Values(p.props, "subscription_identifier")) <= MaxSubIds
    <3>1. Len(Values(p.props, "subscription_identifier")) \in Nat
      BY PacketCollects
    <3>2. ~(Len(Values(p.props, "subscription_identifier")) > MaxSubIds)
      BY DEF BeyondLimits
    <3>. QED BY <3>1, <3>2, Mqtt5Assumption
  <2>. QED BY <2>1, <1>2, WellListedIsRead
<1>6. EndsThere(p)
  BY <1>2 DEF EndsThere, WellListed
<1>7. PICK block \in Nat : /\ p.full <=> block > 0
                           /\ RemainingLength(p) = FixedSize(p) + Len(p.codes) + p.payload + block
  BY RestIs
<1>8. Len(p.codes) \in Nat /\ p.payload \in Nat /\ (p.codes # <<>> => Len(p.codes) > 0)
  BY ListIs
<1>9. ~p.full => names = {}
  BY BareIsWellListed
<1>10. names # {} /\ p.full => GivesMethod(p) /\ MethodMatches(p)
  <2>1. SUFFICES ASSUME NEW i \in names, p.full PROVE GivesMethod(p) /\ MethodMatches(p)
    OBVIOUS
  <2>2. GivesMethod(p) /\ View(p.props)["auth_method"][1] = p.props[i].val
    BY <2>1, <1>2, MethodIs
  <2>. QED BY <2>2, <1>3 DEF MethodMatches
<1>11. ~V5 => ~p.full
  BY DEF Version311
<1>. HIDE DEF names
<1>12. CASE p.type = "CONNACK"
  <2>1. FixedSize(p) = 1 /\ p.payload = 0 /\ Len(p.codes) = 1 /\ p.type \in Holders
    <3>1. /\ FixedSize(p) = 1
          /\ p.type \in Holders
      <4>1. p.type \notin {"PUBLISH", "PINGRESP"} \cup Acks /\ p.type \in Holders
        BY <1>12 DEF Acks, Holders
      <4>. QED BY <4>1, <1>12 DEF FixedSize
    <3>2. p.payload = 0 /\ Len(p.codes) = 1
      BY <1>1, <1>12 DEF Sendable
    <3>. QED BY <3>1, <3>2
  <2>2. Len(Digits(RemainingLength(p))) = 1
    <3>1. Len(Digits(RemainingLength(p))) \in 1..4
      BY PacketIs DEF Count
    <3>2. ~(Len(Digits(RemainingLength(p))) > 1)
      BY <1>12 DEF BeyondLimits
    <3>. QED BY <3>1, <3>2
  <2>3. RemainingLength(p) >= 2 /\ (~p.full => RemainingLength(p) = 2)
    BY <2>1, <1>7, <1>8
  <2>4. CASE V5
    <3>1. p.full
      BY <2>4, <1>2, <1>12 DEF Omits
    <3>2. p.codes = <<0>> /\ agreed > 0 => GivesMethod(p) /\ MethodMatches(p)
      <4>1. agreed > 0 => agreed # 0
        OBVIOUS
      <4>. QED BY <4>1, <3>1, <1>3, <1>10, <1>12
    <3>3. AcceptsConnack(p)
      BY <2>1, <2>2, <2>3, <2>4, <3>1, <3>2, <1>4, <1>5, <1>6, <1>12 DEF AcceptsConnack
    <3>. QED BY <3>3, <1>12 DEF Answers
  <2>5. CASE ~V5
    <3>1. Range(p.codes) \subseteq 0..5 /\ ~p.full
      BY <2>5, <1>11, <1>12 DEF Version311
    <3>2. AcceptsConnack(p)
      BY <2>2, <2>3, <2>5, <3>1 DEF AcceptsConnack
    <3>. QED BY <3>2, <1>12 DEF Answers
  <2>. QED BY <2>4, <2>5
<1>13. CASE p.type = "PUBLISH"
  <2>1. V5 => ReadsProperties(p)
    BY <1>2, <1>5, <1>13 DEF Omits, Holders
  <2>. QED BY <2>1, <1>13 DEF Answers, AcceptsPublish
<1>14. CASE p.type \in {"PUBACK", "PUBREC", "PUBREL", "PUBCOMP"}
  <2>1. FixedSize(p) = 2 /\ p.type \in Holders /\ p.type # "PUBLISH"
    BY <1>14 DEF FixedSize, Acks, Holders
  <2>2. RemainingLength(p) >= 2
    BY <2>1, <1>7, <1>8
  <2>3. AcceptsAck(p)
    BY <2>1, <2>2, <1>4, <1>5, <1>6 DEF AcceptsAck
  <2>. QED BY <2>3, <1>14 DEF Answers
<1>15. CASE p.type \in {"SUBACK", "UNSUBACK"}
  <2>1. FixedSize(p) = 2 /\ p.type \in Holders /\ p.type # "PUBLISH"
    BY <1>15 DEF FixedSize, Acks, Holders
  <2>2. p.type = "SUBACK" => p.codes # <<>>
    BY <1>1 DEF Sendable
  <2>3. RemainingLength(p) >= (IF p.type = "SUBACK" THEN 3 ELSE 2)
    BY <2>1, <2>2, <1>7, <1>8
  <2>4. V5 => ReadsProperties(p)
    BY <2>1, <1>2, <1>5, <1>15 DEF Omits
  <2>5. AcceptsSuback(p)
    BY <2>1, <2>3, <2>4, <1>4 DEF AcceptsSuback
  <2>. QED BY <2>5, <1>15 DEF Answers
<1>16. CASE p.type = "PINGRESP"
  <2>1. FixedSize(p) = 0 /\ ~p.full /\ p.payload = 0 /\ Len(p.codes) = 0
    BY <1>1, <1>16 DEF FixedSize, Acks, Sendable
  <2>2. RemainingLength(p) = 0
    BY <2>1, <1>7, <1>8
  <2>. QED BY <2>2, <1>16 DEF Answers
<1>17. CASE p.type = "DISCONNECT"
  <2>1. p.codes # <<>> => p.full
    BY <1>17 DEF BeyondLimits
  <2>2. p.codes # <<>> => ValidReasons(p.type, p.codes) /\ ReadsProperties(p)
    BY <2>1, <1>4, <1>5, <1>17 DEF Holders
  <2>. QED BY <2>1, <2>2, <1>17 DEF Answers
<1>18. CASE p.type = "AUTH"
  <2>1. agreed > 0 /\ agreed # 0
    BY <1>3, <1>18
  <2>2. names # {} /\ p.full
    BY <2>1, <1>3, <1>9, <1>18
  <2>3. p.codes # <<>> /\ V5
    BY <2>2, <1>1, <1>11, <1>18 DEF Sendable
  <2>4. AcceptsAuth(p)
    BY <2>2, <2>3, <1>4, <1>5, <1>10, <1>18 DEF AcceptsAuth, Holders
  <2>. QED BY <2>2, <2>3, <2>4, <1>18 DEF Answers
<1>. QED BY <1>1, <1>12, <1>13, <1>14, <1>15, <1>16, <1>17, <1>18 DEF Holders, Acks

\* What the application sees of a packet that is accepted are its values.
LEMMA SeenIs ==
  ASSUME NEW p \in Packet, NEW id
  PROVE  Seen(Event(p, TRUE).view, id)
           = IF id = "user_property" THEN Prefix(Values(p.props, id), MaxUser)
             ELSE Values(p.props, id)
<1> DEFINE s == Values(p.props, id)
<1>1. s \in Seq(Nat) /\ Len(s) \in Nat
  BY PacketCollects
<1>2. CASE ~\E i \in DOMAIN p.props : p.props[i].id = id
  <2>1. s = <<>>
    <3>1. ASSUME s # <<>> PROVE FALSE
      <4>1. 1 \in 1..Len(s)
        BY <3>1, <1>1
      <4>2. Given(p.props, id, s[1])
        BY <4>1, ValueIsGiven
      <4>. QED BY <4>2, <1>2 DEF Given
    <3>. QED BY <3>1
  <2>2. Prefix(<<>>, MaxUser) = <<>>
    <3>1. {MaxUser, 0} \in SUBSET Nat /\ {MaxUser, 0} # {}
      BY Mqtt5Assumption
    <3>2. Min({MaxUser, 0}) \in {MaxUser, 0} /\ Min({MaxUser, 0}) <= 0
      BY <3>1, MinIs
    <3>3. Min({MaxUser, 0}) = 0
      BY <3>1, <3>2
    <3>4. Len(<<>>) = 0 /\ SubSeq(<<>>, 1, 0) = <<>>
      OBVIOUS
    <3>. QED BY <3>3, <3>4 DEF Prefix
  <2>3. id \notin DOMAIN Event(p, TRUE).view
    <3>1. Event(p, TRUE).view = IF p.full THEN View(p.props) ELSE <<>>
      BY DEF Event
    <3>2. id \notin DOMAIN View(p.props)
      BY <1>2, ViewIs
    <3>3. DOMAIN <<>> = {}
      OBVIOUS
    <3>. QED BY <3>1, <3>2, <3>3
  <2>. QED BY <2>1, <2>2, <2>3 DEF Seen
<1>3. CASE \E i \in DOMAIN p.props : p.props[i].id = id
  <2>1. p.full
    <3>1. ASSUME ~p.full PROVE FALSE
      <4>1. p.props = <<>>
        BY <3>1, BareIsWellListed
      <4>. QED BY <4>1, <1>3
    <3>. QED BY <3>1
  <2>2. Event(p, TRUE).view = View(p.props)
    BY <2>1 DEF Event
  <2>3. id \in DOMAIN View(p.props)
    BY <1>3, ViewIs
  <2>4. View(p.props)[id] = IF id = "user_property" THEN Prefix(Values(p.props, id), MaxUser)
                            ELSE Values(p.props, id)
    BY <2>3, ViewIs
  <2>. QED BY <2>2, <2>3, <2>4 DEF Seen
<1>. QED BY <1>2, <1>3

\* Each packet of the stream that was handled is told of as the standard wants
\* it, if its list is what the other application meant.
LEMMA ToldIsUnderstood ==
  ASSUME TypeInv, Told, Sized,
         \A p \in Packet : \A id \in DOMAIN p.meant : p.meant[id] = Values(p.props, id),
         NEW i \in DOMAIN handled
  PROVE  LET p == Stream[i] IN
         /\ V5 /\ handled[i].ok => WellFormed(p)
         /\ Legal(p) /\ ~BeyondLimits(p) => handled[i].ok
         /\ handled[i].ok =>
              \A id \in DOMAIN p.meant :
                Seen(handled[i].view, id) = IF id = "user_property"
                                            THEN Prefix(p.meant[id], MaxUser)
                                            ELSE p.meant[id]
<1> DEFINE p == Stream[i]
<1>1. i \in 1..Len(handled) /\ Stream \in Seq(Packet)
  BY TypeGives DEF TypeInv
<1>2. PICK ok \in Accepts(p) : handled[i] = Event(p, ok)
  BY <1>1 DEF Told
<1>3. p \in Packet /\ i \in DOMAIN Stream
  <2>1. i \in 1..Len(Stream)
    BY <1>1 DEF Told
  <2>. QED BY <2>1, <1>1
<1>9. Accepts(p) = Answers(p)
  BY <1>3 DEF Sized, Accepts
<1>4. V5 \/ Version311(p)
  <2>1. scenario \in Scenarios /\ conn \in DOMAIN scenario.streams
    BY DEF TypeInv
  <2>2. scenario.version = 5 \/ Version311(scenario.streams[conn][i])
    BY <2>1, <1>3, PacketAssumption DEF Stream
  <2>. QED BY <2>2 DEF V5, Stream
<1>5. handled[i].ok = ok
  BY <1>2 DEF Event
<1>6. V5 /\ handled[i].ok => WellFormed(p)
  <2>. HIDE DEF p
  <2>1. ASSUME V5, ok PROVE WellFormed(p)
    <3>1. TRUE \in Answers(p)
      BY <1>2, <1>9, <2>1
    <3>. QED BY <3>1, <2>1, <1>3, AcceptedIsWellFormed
  <2>. QED BY <2>1, <1>5
<1>7. Legal(p) /\ ~BeyondLimits(p) => handled[i].ok
  <2>. HIDE DEF p
  <2>. QED BY <1>2, <1>3, <1>4, <1>5, <1>9, LegalIsAccepted
<1>8. ASSUME handled[i].ok, NEW id \in DOMAIN p.meant
      PROVE  Seen(handled[i].view, id) = IF id = "user_property" THEN Prefix(p.meant[id], MaxUser)
                                         ELSE p.meant[id]
  <2>1. handled[i] = Event(p, TRUE)
    BY <1>2, <1>5, <1>8 DEF Event
  <2>2. p.meant[id] = Values(p.props, id)
    BY <1>3
  <2>. HIDE DEF p
  <2>3. Seen(Event(p, TRUE).view, id)
           = IF id = "user_property" THEN Prefix(Values(p.props, id), MaxUser)
             ELSE Values(p.props, id)
    BY <1>3, SeenIs
  <2>. QED BY <2>1, <2>2, <2>3
<1>. QED BY <1>6, <1>7, <1>8

\* The application is told of every legal packet and of no malformed one, and
\* sees the properties it carries, through however many packets and connections
\* (the handlers of noxmqtt.c over noxmqtt_mqtt5_parse_properties and
\* noxmqtt_mqtt5_validate_properties).  The hypothesis is that what a packet is
\* meant to carry is what its list holds; malformed packets include those with a
\* length that lies, unless the 16-bit sum of a read function wraps over it.
THEOREM PacketsUnderstood ==
  ASSUME MeantIsHeld
  PROVE  Spec => []Understood
<1>1. Inv => Understood
  <2>. SUFFICES ASSUME Inv, lost.why = "no", Sized
                PROVE  \A i \in DOMAIN handled :
                         LET p == Stream[i] IN
                         /\ V5 /\ handled[i].ok => WellFormed(p)
                         /\ Legal(p) /\ ~BeyondLimits(p) => handled[i].ok
                         /\ handled[i].ok =>
                              \A id \in DOMAIN p.meant :
                                Seen(handled[i].view, id)
                                  = IF id = "user_property" THEN Prefix(p.meant[id], MaxUser)
                                    ELSE p.meant[id]
    BY DEF Understood
  <2>1. TypeInv /\ Told
    BY DEF Inv, Following
  <2>. QED BY <2>1, ToldIsUnderstood DEF MeantIsHeld
<1>. QED BY <1>1, Invariance, PTL

-----------------------------------------------------------------------------
(* What is written is read                                                 *)

LEMMA ValuesOfNone == ASSUME NEW id PROVE Values(<<>>, id) = <<>>
<1>1. PICK f : Collects(f, <<>>, id)
  <2>1. <<>> \in Seq(Property)
    OBVIOUS
  <2>. QED BY <2>1, CollectsExists
<1> DEFINE g == CHOOSE g : Collects(g, <<>>, id)
<1>2. Collects(g, <<>>, id)
  BY <1>1
<1>3. Values(<<>>, id) = g[0]
  BY DEF Values, Collects
<1>. HIDE DEF g
<1>4. g[0] = <<>>
  BY <1>2 DEF Collects
<1>. QED BY <1>3, <1>4

LEMMA ValuesAppend ==
  ASSUME NEW props \in Seq(Property), NEW q \in Property, NEW id
  PROVE  Values(Append(props, q), id)
           = IF q.id = id THEN Append(Values(props, id), q.val) ELSE Values(props, id)
<1> DEFINE P == Property
           n == Len(props)
           longer == Append(props, q)
           f == CHOOSE f : Collects(f, props, id)
           g == CHOOSE g : Collects(g, longer, id)
           Bad == {k \in 0..n : f[k] # g[k]}
<1>1. /\ n \in Nat /\ longer \in Seq(P) /\ Len(longer) = n + 1
      /\ longer[n + 1] = q /\ \A i \in 1..n : longer[i] = props[i]
  <2>1. props \in Seq(P) /\ q \in P
    OBVIOUS
  <2>. HIDE DEF P
  <2>. QED BY <2>1
<1>2. Collects(f, props, id) /\ Collects(g, longer, id)
  <2>1. \E h : Collects(h, props, id)
    BY CollectsExists
  <2>2. longer \in Seq(Property)
    BY <1>1
  <2>. HIDE DEF longer
  <2>3. \E h : Collects(h, longer, id)
    BY <2>2, CollectsExists
  <2>. QED BY <2>1, <2>3
<1>3. Values(props, id) = f[n] /\ Values(longer, id) = g[Len(longer)]
  BY DEF Values, Collects
<1>. HIDE DEF f, g, P
<1>4. \A k \in 0..n : f[k] = IF k = 0 THEN <<>>
                             ELSE IF props[k].id = id THEN Append(f[k - 1], props[k].val)
                             ELSE f[k - 1]
  BY <1>2 DEF Collects
<1>5. \A k \in 0..n + 1 : g[k] = IF k = 0 THEN <<>>
                                 ELSE IF longer[k].id = id THEN Append(g[k - 1], longer[k].val)
                                 ELSE g[k - 1]
  <2>1. Len(longer) = n + 1
    BY <1>1
  <2>. HIDE DEF longer, n
  <2>. QED BY <2>1, <1>2 DEF Collects
<1>. HIDE DEF longer, n
<1>6. Bad = {}
  <2>1. SUFFICES ASSUME Bad # {} PROVE FALSE
    OBVIOUS
  <2>2. Bad \in SUBSET Nat
    OBVIOUS
  <2>3. PICK k \in Bad : \A j \in Bad : k <= j
    <3>. HIDE DEF Bad
    <3>. QED BY <2>1, <2>2, MinIs
  <2>4. k \in 0..n /\ k \in 0..n + 1 /\ f[k] # g[k]
    BY <2>3, <1>1
  <2>5. CASE k = 0
    BY <2>4, <2>5, <1>4, <1>5
  <2>6. CASE k # 0
    <3>1. k - 1 \in 0..n /\ k - 1 \notin Bad /\ k \in 1..n
      BY <2>3, <2>4, <2>6, <1>1
    <3>2. f[k - 1] = g[k - 1] /\ longer[k] = props[k]
      BY <3>1, <1>1
    <3>3. f[k] = IF props[k].id = id THEN Append(f[k - 1], props[k].val) ELSE f[k - 1]
      BY <2>4, <2>6, <1>4
    <3>4. g[k] = IF longer[k].id = id THEN Append(g[k - 1], longer[k].val) ELSE g[k - 1]
      BY <2>4, <2>6, <1>5
    <3>. QED BY <3>2, <3>3, <3>4, <2>4
  <2>. QED BY <2>5, <2>6
<1>7. f[n] = g[n]
  <2>1. n \in 0..n
    BY <1>1
  <2>. QED BY <1>6, <2>1
<1>8. g[n + 1] = IF q.id = id THEN Append(g[n], q.val) ELSE g[n]
  <2>1. n + 1 \in 0..n + 1 /\ n + 1 # 0 /\ n + 1 - 1 = n
    BY <1>1
  <2>2. \A k \in 0..n + 1 : k # 0 /\ k - 1 = n =>
          g[k] = IF longer[k].id = id THEN Append(g[n], longer[k].val) ELSE g[n]
    BY <1>5
  <2> DEFINE m == n + 1
  <2>3. m \in 0..m /\ m # 0 /\ m - 1 = n /\ longer[m] = q
    BY <2>1, <1>1
  <2>4. \A k \in 0..m : k # 0 /\ k - 1 = n =>
          g[k] = IF longer[k].id = id THEN Append(g[n], longer[k].val) ELSE g[n]
    BY <2>2
  <2>. HIDE DEF m
  <2>5. g[m] = IF q.id = id THEN Append(g[n], q.val) ELSE g[n]
    BY <2>3, <2>4
  <2>. QED BY <2>5 DEF m
<1>. QED BY <1>1, <1>3, <1>7, <1>8 DEF longer

LEMMA SeqNext ==
  ASSUME NEW T, NEW s \in Seq(T), NEW k \in 1..Len(s)
  PROVE  /\ SubSeq(s, 1, k - 1) \in Seq(T) /\ s[k] \in T
         /\ SubSeq(s, 1, k) = Append(SubSeq(s, 1, k - 1), s[k])
<1> DEFINE a == SubSeq(s, 1, k - 1)
           b == SubSeq(s, 1, k)
<1>1. a \in Seq(T) /\ b \in Seq(T) /\ s[k] \in T
  OBVIOUS
<1>2. Len(a) = k - 1 /\ Len(b) = k /\ Len(s) \in Nat /\ k \in Nat
  OBVIOUS
<1>3. /\ \A i \in 1..k - 1 : a[i] = s[i]
      /\ \A i \in 1..k : b[i] = s[i]
  OBVIOUS
<1>. HIDE DEF a, b
<1>4. Append(a, s[k]) \in Seq(T) /\ Len(Append(a, s[k])) = k
  BY <1>1, <1>2
<1>5. \A i \in 1..k : Append(a, s[k])[i] = b[i]
  BY <1>1, <1>2, <1>3
<1>6. Append(a, s[k]) = b
  BY <1>1, <1>2, <1>4, <1>5, SeqEqual
<1>. QED BY <1>1, <1>6 DEF a, b

LEMMA ConcatAppend ==
  ASSUME NEW T, NEW a \in Seq(T), NEW b \in Seq(T), NEW x \in T
  PROVE  a \o Append(b, x) = Append(a \o b, x)
<1>1. /\ a \o Append(b, x) \in Seq(T) /\ Append(a \o b, x) \in Seq(T)
      /\ Len(a \o Append(b, x)) = Len(Append(a \o b, x))
  OBVIOUS
<1>2. \A i \in 1..Len(a) + Len(b) + 1 : (a \o Append(b, x))[i] = Append(a \o b, x)[i]
  OBVIOUS
<1>3. Len(a \o Append(b, x)) = Len(a) + Len(b) + 1
  OBVIOUS
<1>. QED BY <1>1, <1>2, <1>3, SeqEqual

LEMMA ValuesInSeq ==
  ASSUME NEW props \in Seq(Property), NEW id
  PROVE  Values(props, id) \in Seq(Nat)
BY ValuesAre DEF Collected

LEMMA Whole ==
  ASSUME NEW T, NEW s \in Seq(T)
  PROVE  SubSeq(s, 1, 0) = <<>> /\ SubSeq(s, 1, Len(s)) = s /\ Len(s) \in Nat
<1> DEFINE t == SubSeq(s, 1, Len(s))
           e == SubSeq(s, 1, 0)
<1>1. t \in Seq(T) /\ Len(t) = Len(s) /\ \A i \in 1..Len(s) : t[i] = s[i]
  OBVIOUS
<1>2. e \in Seq(T) /\ Len(e) = 0
  OBVIOUS
<1>3. Len(s) \in Nat
  OBVIOUS
<1>. HIDE DEF t, e
<1>4. t = s
  BY <1>1, SeqEqual
<1>5. e = <<>>
  BY <1>2
<1>. QED BY <1>3, <1>4, <1>5 DEF t, e

LEMMA ValuesConcat ==
  ASSUME NEW a \in Seq(Property), NEW b \in Seq(Property), NEW id
  PROVE  Values(a \o b, id) = Values(a, id) \o Values(b, id)
<1> DEFINE first(k) == SubSeq(b, 1, k)
           Bad == {k \in 0..Len(b) :
                     Values(a \o first(k), id) # Values(a, id) \o Values(first(k), id)}
<1>1. Bad = {}
  <2>1. SUFFICES ASSUME Bad # {} PROVE FALSE
    OBVIOUS
  <2>2. Bad \in SUBSET Nat
    <3>1. Len(b) \in Nat
      OBVIOUS
    <3>. QED BY <3>1
  <2>3. PICK k \in Bad : \A j \in Bad : k <= j
    <3>. HIDE DEF Bad
    <3>. QED BY <2>1, <2>2, MinIs
  <2>4. k \in 0..Len(b) /\ Values(a \o first(k), id) # Values(a, id) \o Values(first(k), id)
    BY <2>3
  <2>5. CASE k = 0
    <3>1. first(k) = <<>> /\ Values(first(k), id) = <<>>
      BY <2>5, Whole, ValuesOfNone
    <3>2. Values(a, id) \in Seq(Nat)
      BY ValuesInSeq
    <3>3. Values(a, id) \o <<>> = Values(a, id)
      <4> DEFINE v == Values(a, id)
      <4>1. v \in Seq(Nat)
        BY <3>2
      <4>. HIDE DEF v
      <4>2. v \o <<>> = v
        BY <4>1
      <4>. QED BY <4>2 DEF v
    <3>4. a \o <<>> = a
      <4> DEFINE P == Property
      <4>1. a \in Seq(P)
        OBVIOUS
      <4>. HIDE DEF P
      <4>. QED BY <4>1
    <3>. QED BY <3>1, <3>3, <3>4, <2>4
  <2>6. CASE k # 0
    <3>1. k \in 1..Len(b) /\ k - 1 \in 0..Len(b) /\ ~(k <= k - 1)
      BY <2>4, <2>6
    <3>2. k - 1 \notin Bad
      BY <3>1, <2>3
    <3>3. Values(a \o first(k - 1), id) = Values(a, id) \o Values(first(k - 1), id)
      BY <3>1, <3>2
    <3>4. first(k - 1) \in Seq(Property) /\ b[k] \in Property
          /\ first(k) = Append(first(k - 1), b[k])
      BY <3>1, SeqNext
    <3> DEFINE c == first(k - 1)
               q == b[k]
               v == Values(a, id)
               w == Values(c, id)
               n == q.val
    <3>5. c \in Seq(Property) /\ q \in Property /\ first(k) = Append(c, q)
      BY <3>4
    <3>6. n \in Nat
      BY <3>5 DEF Property
    <3>. HIDE DEF first, q, c
    <3>7. a \o first(k) = Append(a \o c, q)
      <4>1. a \o Append(c, q) = Append(a \o c, q)
        BY <3>5, ConcatAppend, SMTT(20)
      <4>. QED BY <4>1, <3>5
    <3>8. a \o c \in Seq(Property)
      <4> DEFINE P == Property
      <4>1. a \in Seq(P) /\ c \in Seq(P)
        BY <3>5
      <4>. HIDE DEF P
      <4>2. a \o c \in Seq(P)
        BY <4>1
      <4>. QED BY <4>2 DEF P
    <3>9. v \in Seq(Nat) /\ w \in Seq(Nat)
      BY <3>5, ValuesInSeq
    <3>10. Values(first(k), id) = IF q.id = id THEN Append(w, n) ELSE w
      BY <3>5, ValuesAppend
    <3>11. Values(a \o c, id) = v \o w
      BY <3>3 DEF c
    <3>12. Values(a \o first(k), id)
             = IF q.id = id THEN Append(Values(a \o c, id), n) ELSE Values(a \o c, id)
      <4> DEFINE ac == a \o c
      <4>1. ac \in Seq(Property) /\ a \o first(k) = Append(ac, q)
        BY <3>7, <3>8
      <4>. HIDE DEF ac
      <4>2. Values(Append(ac, q), id) = IF q.id = id THEN Append(Values(ac, id), n) ELSE Values(ac, id)
        BY <3>5, <4>1, ValuesAppend
      <4>. QED BY <4>1, <4>2 DEF ac
    <3>13. Values(a \o first(k), id) # v \o Values(first(k), id)
      BY <2>4
    <3>. HIDE DEF v, w, n
    <3>14. v \o Append(w, n) = Append(v \o w, n)
      BY <3>6, <3>9, ConcatAppend, SMTT(20)
    <3>15. CASE q.id = id
      <4>1. Values(first(k), id) = Append(w, n) /\ Values(a \o first(k), id) = Append(v \o w, n)
        BY <3>10, <3>11, <3>12, <3>15
      <4>. QED BY <4>1, <3>13, <3>14
    <3>16. CASE q.id # id
      <4>1. Values(first(k), id) = w /\ Values(a \o first(k), id) = v \o w
        BY <3>10, <3>11, <3>12, <3>16
      <4>. QED BY <4>1, <3>13
    <3>. QED BY <3>15, <3>16
  <2>. QED BY <2>5, <2>6
<1>2. first(Len(b)) = b /\ Len(b) \in 0..Len(b)
  <2>1. first(Len(b)) = b /\ Len(b) \in Nat
    BY Whole
  <2>. QED BY <2>1
<1>. QED BY <1>1, <1>2

\* The user properties of s.
UserList(s) == [i \in DOMAIN s |-> [id |-> "user_property", val |-> s[i]]]

LEMMA UserListAppend ==
  ASSUME NEW s \in Seq(Nat), NEW v \in Nat
  PROVE  /\ UserList(s) \in Seq(Property)
         /\ UserList(Append(s, v)) = Append(UserList(s), [id |-> "user_property", val |-> v])
<1> DEFINE P == Property
           q == [id |-> "user_property", val |-> v]
           t == Append(s, v)
<1>1. \A n \in Nat : [id |-> "user_property", val |-> n] \in P
  <2>1. "user_property" \in PropertyId
    BY DEF PropertyId, Repeatable
  <2>. QED BY <2>1 DEF Property
<1>2. ASSUME NEW r \in Seq(Nat)
      PROVE  UserList(r) \in Seq(P) /\ Len(UserList(r)) = Len(r)
             /\ \A i \in 1..Len(r) : UserList(r)[i] = [id |-> "user_property", val |-> r[i]]
  <2>1. DOMAIN r = 1..Len(r) /\ Len(r) \in Nat /\ \A i \in 1..Len(r) : r[i] \in Nat
    OBVIOUS
  <2>. HIDE DEF P
  <2>2. UserList(r) = [i \in 1..Len(r) |-> [id |-> "user_property", val |-> r[i]]]
    BY <2>1 DEF UserList
  <2>3. \A i \in 1..Len(r) : [id |-> "user_property", val |-> r[i]] \in P
    BY <1>1, <2>1
  <2> DEFINE F(i) == [id |-> "user_property", val |-> r[i]]
  <2>4. \A i \in 1..Len(r) : F(i) \in P
    BY <2>3
  <2>. HIDE DEF F
  <2>5. [i \in 1..Len(r) |-> F(i)] \in Seq(P) /\ Len([i \in 1..Len(r) |-> F(i)]) = Len(r)
    BY <2>1, <2>4
  <2>. QED BY <2>2, <2>5 DEF F
<1>3. t \in Seq(Nat) /\ Len(t) = Len(s) + 1 /\ t[Len(s) + 1] = v
      /\ \A i \in 1..Len(s) : t[i] = s[i]
  OBVIOUS
<1>4. Len(s) \in Nat /\ q \in P
  BY <1>1
<1> DEFINE a == UserList(s)
           b == UserList(t)
<1>5. /\ a \in Seq(P) /\ Len(a) = Len(s)
      /\ \A i \in 1..Len(s) : a[i] = [id |-> "user_property", val |-> s[i]]
  BY <1>2
<1>6. /\ b \in Seq(P) /\ Len(b) = Len(s) + 1
      /\ \A i \in 1..Len(s) + 1 : b[i] = [id |-> "user_property", val |-> t[i]]
  <2>. HIDE DEF t, P
  <2>. QED BY <1>2, <1>3
<1>7. /\ \A i \in 1..Len(s) : b[i] = a[i]
      /\ b[Len(s) + 1] = q
  <2>1. Len(s) + 1 \in 1..Len(s) + 1 /\ \A i \in 1..Len(s) : i \in 1..Len(s) + 1
    BY <1>4
  <2>. HIDE DEF a, b, t
  <2>. QED BY <2>1, <1>3, <1>5, <1>6
<1>. HIDE DEF a, b, t, q, P
<1>8. Append(a, q) \in Seq(P) /\ Len(Append(a, q)) = Len(s) + 1
      /\ Append(a, q)[Len(s) + 1] = q /\ \A i \in 1..Len(s) : Append(a, q)[i] = a[i]
  BY <1>4, <1>5
<1>9. \A i \in 1..Len(s) + 1 : b[i] = Append(a, q)[i]
  <2>1. \A i \in 1..Len(s) + 1 : i = Len(s) + 1 \/ i \in 1..Len(s)
    BY <1>4
  <2>. QED BY <2>1, <1>7, <1>8
<1>10. b = Append(a, q)
  BY <1>6, <1>8, <1>9, SeqEqual
<1>. QED BY <1>5, <1>10 DEF a, b, t, q, P

LEMMA ValuesOfUser ==
  ASSUME NEW s \in Seq(Nat), NEW id
  PROVE  Values(UserList(s), id) = IF id = "user_property" THEN s ELSE <<>>
<1> DEFINE first(k) == SubSeq(s, 1, k)
           Good(k) == Values(UserList(first(k)), id)
                        = IF id = "user_property" THEN first(k) ELSE <<>>
           Bad == {k \in 0..Len(s) : ~Good(k)}
<1>1. first(0) = <<>> /\ first(Len(s)) = s /\ Len(s) \in Nat
  BY Whole
<1>2. Good(0)
  <2>1. UserList(<<>>) = <<>>
    BY DEF UserList
  <2>. QED BY <1>1, <2>1, ValuesOfNone
<1>3. Bad = {}
  <2>1. SUFFICES ASSUME Bad # {} PROVE FALSE
    OBVIOUS
  <2>2. Bad \in SUBSET Nat
    BY <1>1
  <2>3. PICK k \in Bad : \A j \in Bad : k <= j
    <3>. HIDE DEF Bad
    <3>. QED BY <2>1, <2>2, MinIs
  <2>4. k \in 0..Len(s) /\ ~Good(k)
    BY <2>3
  <2>5. k # 0
    <3>. HIDE DEF Good
    <3>. QED BY <2>4, <1>2
  <2>6. k \in 1..Len(s) /\ k - 1 \in 0..Len(s) /\ ~(k <= k - 1)
    BY <2>4, <2>5, <1>1
  <2>7. Good(k - 1)
    <3>. HIDE DEF Good
    <3>. QED BY <2>3, <2>6
  <2> DEFINE r == first(k - 1)
             v == s[k]
  <2>8. r \in Seq(Nat) /\ v \in Nat /\ first(k) = Append(r, v)
    BY <2>6, SeqNext
  <2>. HIDE DEF first, v
  <2>9. Values(UserList(first(k)), id)
          = IF "user_property" = id THEN Append(Values(UserList(r), id), v)
            ELSE Values(UserList(r), id)
    <3> DEFINE q == [id |-> "user_property", val |-> v]
    <3>1. /\ UserList(r) \in Seq(Property) /\ q \in Property
          /\ UserList(first(k)) = Append(UserList(r), q)
      <4>1. "user_property" \in PropertyId
        BY DEF PropertyId, Repeatable
      <4>2. q \in Property
        BY <4>1, <2>8 DEF Property
      <4>. QED BY <4>2, <2>8, UserListAppend
    <3>2. q.id = "user_property" /\ q.val = v
      OBVIOUS
    <3>. HIDE DEF q, r
    <3>. QED BY <3>1, <3>2, ValuesAppend
  <2>10. Values(UserList(r), id) = IF id = "user_property" THEN r ELSE <<>>
    BY <2>7
  <2>. HIDE DEF r
  <2>. QED BY <2>4, <2>8, <2>9, <2>10
<1>4. Len(s) \in 0..Len(s)
  BY <1>1
<1>5. Good(Len(s))
  <2>. HIDE DEF Good
  <2>. QED BY <1>3, <1>4
<1>. QED BY <1>1, <1>5

\* What an application gives: a number for each property, 0 for none, and the
\* user properties.  The length of a C string fits in 16 bits.
IsConf(conf) ==
  /\ \A id \in PropertyId \ {"user_property"} : conf[id] \in Nat
  /\ \A id \in CStrings : conf[id] < LenMod
  /\ conf.user \in Seq(Nat)

\* The values an encoder writes for the property `id'.
Value(conf, id) == IF conf[id] = 0 THEN <<>> ELSE <<conf[id]>>

LEMMA ValuesOfOne ==
  ASSUME NEW q \in Property, NEW id
  PROVE  <<q>> \in Seq(Property) /\ Values(<<q>>, id) = IF q.id = id THEN <<q.val>> ELSE <<>>
<1> DEFINE P == Property
           n == q.val
<1>1. <<>> \in Seq(P) /\ <<q>> \in Seq(P) /\ <<q>> = Append(<<>>, q)
  <2>1. q \in P
    OBVIOUS
  <2>. HIDE DEF P
  <2>. QED BY <2>1
<1>2. n \in Nat
  BY DEF Property
<1>3. Values(Append(<<>>, q), id) = IF q.id = id THEN Append(<<>>, n) ELSE <<>>
  <2> DEFINE e == <<>>
  <2>1. e \in Seq(Property) /\ Values(e, id) = <<>>
    BY <1>1, ValuesOfNone
  <2>. HIDE DEF e
  <2>2. Values(Append(e, q), id) = IF q.id = id THEN Append(Values(e, id), n) ELSE Values(e, id)
    BY <2>1, ValuesAppend
  <2>3. Values(Append(e, q), id) = IF q.id = id THEN Append(<<>>, n) ELSE <<>>
    BY <2>1, <2>2
  <2>. QED BY <2>3 DEF e
<1>. HIDE DEF n
<1>4. Append(<<>>, n) = <<n>>
  BY <1>2
<1>. QED BY <1>1, <1>3, <1>4 DEF n

LEMMA FieldIs ==
  ASSUME NEW conf, IsConf(conf), NEW x \in PropertyId \ {"user_property"}, NEW id
  PROVE  /\ Field(conf, x) \in Seq(Property)
         /\ Values(Field(conf, x), id) = IF x = id THEN Value(conf, x) ELSE <<>>
<1> DEFINE q == [id |-> x, val |-> conf[x]]
<1>1. conf[x] \in Nat
  BY DEF IsConf
<1>2. q \in Property /\ q.id = x /\ q.val = conf[x]
  BY <1>1 DEF Property
<1>3. CASE conf[x] > 0
  <2>1. Field(conf, x) = <<q>>
    <3>1. x \in CStrings => conf[x] % LenMod = conf[x]
      <4>1. x \in CStrings => conf[x] < LenMod
        BY DEF IsConf
      <4>2. LenMod \in Nat \ {0}
        BY Mqtt5Assumption
      <4> DEFINE v == conf[x]
      <4>. HIDE DEF v
      <4>3. v \in Nat /\ v < LenMod => v % LenMod = v
        BY <4>2
      <4>. QED BY <4>1, <4>3, <1>1 DEF v
    <3>. QED BY <3>1, <1>3 DEF Field
  <2>2. Value(conf, x) = <<conf[x]>>
    BY <1>1, <1>3 DEF Value
  <2>. HIDE DEF q
  <2>. QED BY <2>1, <2>2, <1>2, ValuesOfOne
<1>4. CASE ~(conf[x] > 0)
  <2>1. Field(conf, x) = <<>> /\ Value(conf, x) = <<>>
    BY <1>1, <1>4 DEF Field, Value
  <2>2. <<>> \in Seq(Property)
    OBVIOUS
  <2>. QED BY <2>1, <2>2, ValuesOfNone
<1>. QED BY <1>3, <1>4

\* The identifiers an encoder goes through: known ones, each once.
IsOrder(ids) ==
  /\ ids \in Seq(PropertyId \ {"user_property"})
  /\ \A i, j \in DOMAIN ids : ids[i] = ids[j] => i = j

LEMMA FieldsAppend ==
  ASSUME NEW conf, IsConf(conf), NEW ids \in Seq(PropertyId \ {"user_property"}),
         NEW x \in PropertyId \ {"user_property"}
  PROVE  /\ Fields(conf, ids) \in Seq(Property)
         /\ Fields(conf, Append(ids, x)) = Fields(conf, ids) \o Field(conf, x)
<1> DEFINE U == Seq(Property)
           I == PropertyId \ {"user_property"}
           t == Append(ids, x)
           F(i) == Field(conf, i)
           a == [i \in DOMAIN ids |-> F(ids[i])]
           b == [i \in DOMAIN t |-> F(t[i])]
<1>1. \A i \in I : F(i) \in U
  BY FieldIs
<1>2. /\ Len(ids) \in Nat /\ DOMAIN ids = 1..Len(ids) /\ \A i \in 1..Len(ids) : ids[i] \in I
      /\ DOMAIN t = 1..Len(ids) + 1 /\ t[Len(ids) + 1] = x
      /\ \A i \in 1..Len(ids) : t[i] = ids[i]
  <2>1. ids \in Seq(I) /\ x \in I
    OBVIOUS
  <2>. HIDE DEF I
  <2>. QED BY <2>1
<1>3. Fields(conf, ids) = FlattenSeq(a) /\ Fields(conf, t) = FlattenSeq(b)
  BY DEF Fields
<1>4. x \in I
  OBVIOUS
<1>. HIDE DEF U, I, t, F
<1>5. \A i \in 1..Len(ids) + 1 : t[i] \in I
  BY <1>2, <1>4
<1>6. a \in Seq(U) /\ Len(a) = Len(ids) /\ \A i \in 1..Len(ids) : a[i] = F(ids[i])
  BY <1>1, <1>2
<1>7. b \in Seq(U) /\ Len(b) = Len(ids) + 1 /\ \A i \in 1..Len(ids) + 1 : b[i] = F(t[i])
  BY <1>1, <1>2, <1>5
<1>8. F(x) \in U
  BY <1>1, <1>4
<1>. HIDE DEF a, b
<1>9. Append(a, F(x)) \in Seq(U) /\ Len(Append(a, F(x))) = Len(ids) + 1
      /\ Append(a, F(x))[Len(ids) + 1] = F(x)
      /\ \A i \in 1..Len(ids) : Append(a, F(x))[i] = a[i]
  BY <1>6, <1>8
<1>10. \A i \in 1..Len(ids) + 1 : b[i] = Append(a, F(x))[i]
  <2>1. \A i \in 1..Len(ids) + 1 : i = Len(ids) + 1 \/ i \in 1..Len(ids)
    BY <1>2
  <2>. QED BY <2>1, <1>2, <1>6, <1>7, <1>9
<1>11. b = Append(a, F(x))
  BY <1>7, <1>9, <1>10, SeqEqual
<1>12. a \in Seq(Seq(Property)) /\ F(x) \in Seq(Property)
  BY <1>6, <1>8 DEF U
<1>13. FlattenSeq(a) \in Seq(Property) /\ FlattenSeq(Append(a, F(x))) = FlattenSeq(a) \o F(x)
  BY <1>12, FlattenAppend
<1>. QED BY <1>3, <1>11, <1>13 DEF F, t

LEMMA FieldsAre ==
  ASSUME NEW conf, IsConf(conf), NEW ids, IsOrder(ids), NEW id
  PROVE  /\ Fields(conf, ids) \in Seq(Property)
         /\ Values(Fields(conf, ids), id)
              = IF id \in Range(ids) THEN Value(conf, id) ELSE <<>>
<1> DEFINE I == PropertyId \ {"user_property"}
           first(k) == SubSeq(ids, 1, k)
           Good(k) == /\ Fields(conf, first(k)) \in Seq(Property)
                      /\ Values(Fields(conf, first(k)), id)
                           = IF \E i \in 1..k : ids[i] = id THEN Value(conf, id) ELSE <<>>
           Bad == {k \in 0..Len(ids) : ~Good(k)}
<1>1. /\ ids \in Seq(I) /\ first(0) = <<>> /\ first(Len(ids)) = ids
      /\ Len(ids) \in Nat /\ DOMAIN ids = 1..Len(ids)
      /\ \A i, j \in 1..Len(ids) : ids[i] = ids[j] => i = j
  <2>1. ids \in Seq(I) /\ \A i, j \in DOMAIN ids : ids[i] = ids[j] => i = j
    BY DEF IsOrder
  <2>. HIDE DEF I
  <2>2. DOMAIN ids = 1..Len(ids)
    BY <2>1
  <2>3. first(0) = <<>> /\ first(Len(ids)) = ids /\ Len(ids) \in Nat
    BY <2>1, Whole
  <2>. QED BY <2>1, <2>2, <2>3
<1>2. Good(0)
  <2>1. Fields(conf, <<>>) = <<>>
    BY DEF Fields, FlattenSeq
  <2>2. Values(<<>>, id) = <<>> /\ <<>> \in Seq(Property)
    BY ValuesOfNone
  <2>3. ~\E i \in 1..0 : ids[i] = id
    OBVIOUS
  <2>4. Fields(conf, first(0)) = <<>>
    BY <1>1, <2>1
  <2>. HIDE DEF first
  <2>. QED BY <2>2, <2>3, <2>4
<1>3. Bad = {}
  <2>1. SUFFICES ASSUME Bad # {} PROVE FALSE
    OBVIOUS
  <2>2. Bad \in SUBSET Nat
    BY <1>1
  <2>3. PICK k \in Bad : \A j \in Bad : k <= j
    <3>. HIDE DEF Bad
    <3>. QED BY <2>1, <2>2, MinIs
  <2>4. k \in 0..Len(ids) /\ ~Good(k)
    BY <2>3
  <2>5. k # 0
    <3>. HIDE DEF Good
    <3>. QED BY <2>4, <1>2
  <2>6. k \in 1..Len(ids) /\ k - 1 \in 0..Len(ids) /\ ~(k <= k - 1)
    BY <2>4, <2>5, <1>1
  <2>7. Good(k - 1)
    <3>. HIDE DEF Good
    <3>. QED BY <2>3, <2>6
  <2> DEFINE r == first(k - 1)
             x == ids[k]
             v == Fields(conf, r)
             w == Field(conf, x)
  <2>8. r \in Seq(I) /\ x \in I /\ first(k) = Append(r, x)
    <3>. HIDE DEF I
    <3>. QED BY <2>6, <1>1, SeqNext
  <2>9. /\ v \in Seq(Property)
        /\ Values(v, id) = IF \E i \in 1..k - 1 : ids[i] = id THEN Value(conf, id) ELSE <<>>
    BY <2>7
  <2>. HIDE DEF first
  <2>10. Fields(conf, first(k)) = v \o w
    <3>. HIDE DEF r, x
    <3>. QED BY <2>8, FieldsAppend
  <2>11. w \in Seq(Property) /\ Values(w, id) = IF x = id THEN Value(conf, x) ELSE <<>>
    <3>. HIDE DEF x
    <3>. QED BY <2>8, FieldIs
  <2>. HIDE DEF v, w
  <2>12. v \o w \in Seq(Property)
    <3> DEFINE P == Property
    <3>1. v \in Seq(P) /\ w \in Seq(P)
      BY <2>9, <2>11
    <3>. HIDE DEF P
    <3>2. v \o w \in Seq(P)
      BY <3>1
    <3>. QED BY <3>2 DEF P
  <2>13. Values(v \o w, id) = Values(v, id) \o Values(w, id)
    BY <2>9, <2>11, ValuesConcat
  <2>14. Values(v, id) \in Seq(Nat) /\ Values(w, id) \in Seq(Nat)
    BY <2>9, <2>11, ValuesInSeq
  <2>15. Values(v \o w, id) = IF \E i \in 1..k : ids[i] = id THEN Value(conf, id) ELSE <<>>
    <3>1. \A i \in 1..k : i = k \/ i \in 1..k - 1
      BY <2>6
    <3>2. k \in 1..k /\ \A i \in 1..k - 1 : i \in 1..k /\ i \in 1..Len(ids) /\ i # k
      BY <2>6, <1>1
    <3>3. CASE x = id
      <4>1. ~\E i \in 1..k - 1 : ids[i] = id
        BY <3>2, <3>3, <2>6, <1>1
      <4>2. Values(v, id) = <<>>
        BY <4>1, <2>9
      <4>3. Values(v, id) \o Values(w, id) = Values(w, id)
        BY <4>2, <2>14
      <4>. QED BY <4>3, <3>2, <3>3, <2>11, <2>13
    <3>4. CASE x # id
      <4>1. (\E i \in 1..k : ids[i] = id) <=> \E i \in 1..k - 1 : ids[i] = id
        BY <3>1, <3>2, <3>4
      <4>2. Values(w, id) = <<>>
        BY <3>4, <2>11
      <4>3. Values(v, id) \o Values(w, id) = Values(v, id)
        BY <4>2, <2>14
      <4>. QED BY <4>1, <4>3, <2>9, <2>13
    <3>. QED BY <3>3, <3>4
  <2>. QED BY <2>4, <2>10, <2>12, <2>15
<1>4. Len(ids) \in 0..Len(ids)
  BY <1>1
<1>5. Good(Len(ids))
  <2>. HIDE DEF Good
  <2>. QED BY <1>3, <1>4
<1>6. id \in Range(ids) <=> \E i \in 1..Len(ids) : ids[i] = id
  <2>1. DOMAIN ids = 1..Len(ids)
    BY <1>1
  <2>. QED BY <2>1 DEF Range
<1>. QED BY <1>1, <1>5, <1>6

\* A list of fields, then the user properties.
LEMMA FieldsThenUser ==
  ASSUME NEW conf, IsConf(conf), NEW list \in Seq(Property), NEW id
  PROVE  /\ list \o UserProperties(conf) \in Seq(Property)
         /\ Values(list \o UserProperties(conf), id)
              = Values(list, id) \o (IF id = "user_property" THEN conf.user ELSE <<>>)
<1> DEFINE u == UserProperties(conf)
           s == conf.user
<1>1. s \in Seq(Nat)
  BY DEF IsConf
<1>2. u = UserList(s)
  BY DEF UserProperties, UserList
<1>. HIDE DEF u, s
<1>3. u \in Seq(Property)
  <2>1. 0 \in Nat
    OBVIOUS
  <2>. QED BY <1>1, <1>2, <2>1, UserListAppend
<1>4. Values(u, id) = IF id = "user_property" THEN s ELSE <<>>
  BY <1>1, <1>2, ValuesOfUser
<1>5. Values(list \o u, id) = Values(list, id) \o Values(u, id)
  BY <1>3, ValuesConcat
<1>6. list \o u \in Seq(Property)
  <2> DEFINE P == Property
  <2>1. list \in Seq(P) /\ u \in Seq(P)
    BY <1>3
  <2>. HIDE DEF P
  <2>2. list \o u \in Seq(P)
    BY <2>1
  <2>. QED BY <2>2 DEF P
<1>. QED BY <1>4, <1>5, <1>6 DEF u, s

\* What a list holds that is written from the fields `ids' and the user properties.
Writes(conf, ids, list) ==
  /\ list \in Seq(Property)
  /\ \A id : Values(list, id) = IF id = "user_property" THEN conf.user
                                ELSE IF id \in ids THEN Value(conf, id) ELSE <<>>

LEMMA WrittenInOrder ==
  ASSUME NEW conf, IsConf(conf), NEW ids, IsOrder(ids)
  PROVE  Writes(conf, Range(ids), Fields(conf, ids) \o UserProperties(conf))
<1> DEFINE f == Fields(conf, ids)
           list == f \o UserProperties(conf)
<1>1. f \in Seq(Property)
  BY FieldsAre
<1>2. "user_property" \notin Range(ids)
  <2> DEFINE I == PropertyId \ {"user_property"}
  <2>1. ids \in Seq(I)
    BY DEF IsOrder
  <2>2. "user_property" \notin I
    OBVIOUS
  <2>. HIDE DEF I
  <2>. QED BY <2>1, <2>2 DEF Range
<1>3. ASSUME NEW id
      PROVE  Values(list, id) = IF id = "user_property" THEN conf.user
                                ELSE IF id \in Range(ids) THEN Value(conf, id) ELSE <<>>
  <2> DEFINE u == IF id = "user_property" THEN conf.user ELSE <<>>
             v == Values(f, id)
  <2>1. v = IF id \in Range(ids) THEN Value(conf, id) ELSE <<>>
    BY FieldsAre
  <2>2. Values(list, id) = v \o u
    <3>. HIDE DEF f
    <3>. QED BY <1>1, FieldsThenUser
  <2>3. v \in Seq(Nat)
    <3>. HIDE DEF f
    <3>. QED BY <1>1, ValuesInSeq
  <2>4. u \in Seq(Nat)
    <3>1. conf.user \in Seq(Nat) /\ <<>> \in Seq(Nat)
      BY DEF IsConf
    <3>. QED BY <3>1
  <2>5. CASE id = "user_property"
    <3>1. v = <<>> /\ u = conf.user
      BY <1>2, <2>1, <2>5
    <3>. HIDE DEF u, v
    <3>2. v \o u = u
      BY <3>1, <2>3, <2>4
    <3>. QED BY <3>1, <3>2, <2>2, <2>5
  <2>6. CASE id # "user_property"
    <3>1. u = <<>>
      BY <2>6
    <3>. HIDE DEF u, v
    <3>2. v \o u = v
      BY <3>1, <2>3
    <3>. QED BY <3>2, <2>1, <2>2, <2>6
  <2>. QED BY <2>5, <2>6
<1>4. list \in Seq(Property)
  <2>. HIDE DEF f
  <2>. QED BY <1>1, FieldsThenUser
<1>. QED BY <1>3, <1>4 DEF Writes

MessageIds ==
  {"payload_format_indicator", "message_expiry_interval", "response_topic", "correlation_data",
   "content_type"}

LEMMA OrderOfPublish ==
  LET ids == <<"payload_format_indicator", "message_expiry_interval", "topic_alias",
               "response_topic", "correlation_data", "content_type">>
  IN  IsOrder(ids) /\ Range(ids) = MessageIds \cup {"topic_alias"}
BY DEF IsOrder, Range, PropertyId, Flags, U16, U32, Strings, Repeatable, MessageIds

LEMMA OrderOfWill ==
  LET ids == <<"will_delay_interval", "payload_format_indicator", "message_expiry_interval",
               "response_topic", "correlation_data", "content_type">>
  IN  IsOrder(ids) /\ Range(ids) = MessageIds \cup {"will_delay_interval"}
BY DEF IsOrder, Range, PropertyId, Flags, U16, U32, Strings, Repeatable, MessageIds

LEMMA OrderOfSubscribe ==
  LET ids == <<"subscription_identifier">>
  IN  IsOrder(ids) /\ Range(ids) = {"subscription_identifier"}
BY DEF IsOrder, Range, PropertyId, Repeatable

LEMMA OrderOfDisconnect ==
  LET ids == <<"session_expiry_interval", "reason_string", "server_reference">>
  IN  IsOrder(ids) /\ Range(ids) = {"session_expiry_interval", "reason_string", "server_reference"}
BY DEF IsOrder, Range, PropertyId, U32, Strings, Repeatable

LEMMA OrderOfAuth ==
  LET ids == <<"auth_method", "auth_data", "reason_string">>
  IN  IsOrder(ids) /\ Range(ids) = {"auth_method", "auth_data", "reason_string"}
BY DEF IsOrder, Range, PropertyId, Strings, Repeatable

LEMMA OrderOfConnect ==
  LET before == <<"session_expiry_interval", "receive_maximum", "topic_alias_maximum",
                  "maximum_packet_size">>
      after == <<"auth_method", "auth_data">>
  IN  /\ IsOrder(before) /\ IsOrder(after)
      /\ Range(before) = {"session_expiry_interval", "receive_maximum", "topic_alias_maximum",
                          "maximum_packet_size"}
      /\ Range(after) = {"auth_method", "auth_data"}
BY DEF IsOrder, Range, PropertyId, U16, U32, Strings, Repeatable

Asks == {"request_response_info", "request_problem_info"}
Announces ==
  {"session_expiry_interval", "receive_maximum", "topic_alias_maximum", "maximum_packet_size",
   "auth_method", "auth_data"}

\* CONNECT has the two requests always, whatever their value.
LEMMA ConnectWrites ==
  ASSUME NEW conf, IsConf(conf), NEW id
  PROVE  /\ EncodeConnect(conf) \in Seq(Property)
         /\ Values(EncodeConnect(conf), id)
              = IF id = "user_property" THEN conf.user
                ELSE IF id \in {"request_response_info", "request_problem_info"} THEN <<conf[id]>>
                ELSE IF id \in {"session_expiry_interval", "receive_maximum", "topic_alias_maximum",
                                "maximum_packet_size", "auth_method", "auth_data"}
                     THEN Value(conf, id)
                ELSE <<>>
<1> DEFINE P == Property
           V(s) == Values(s, id)
           before == <<"session_expiry_interval", "receive_maximum", "topic_alias_maximum",
                       "maximum_packet_size">>
           after == <<"auth_method", "auth_data">>
           a == Fields(conf, before)
           asks == [i \in 1..2 |-> LET x == <<"request_response_info", "request_problem_info">>[i]
                                   IN  [id |-> x, val |-> conf[x]]]
           c == Fields(conf, after)
           u == UserProperties(conf)
           q == [id |-> "request_response_info", val |-> conf["request_response_info"]]
           r == [id |-> "request_problem_info", val |-> conf["request_problem_info"]]
<1>1. EncodeConnect(conf) = a \o asks \o c \o u
  BY DEF EncodeConnect
<1>2. q \in P /\ r \in P
  <2>1. {"request_response_info", "request_problem_info"} \subseteq PropertyId \ {"user_property"}
    BY DEF PropertyId, Flags
  <2>2. conf["request_response_info"] \in Nat /\ conf["request_problem_info"] \in Nat
    BY <2>1 DEF IsConf
  <2>. QED BY <2>1, <2>2 DEF Property
<1>3. asks = <<q>> \o <<r>>
  <2>1. asks[1] = q /\ asks[2] = r /\ DOMAIN asks = 1..2
    OBVIOUS
  <2>2. <<q>> \o <<r>> = <<q, r>>
    <3> DEFINE s == <<q>> \o <<r>>
               t == <<q, r>>
    <3>. HIDE DEF q, r, P
    <3>1. t \in Seq(P) /\ Len(t) = 2 /\ t[1] = q /\ t[2] = r
      BY <1>2
    <3>2. s \in Seq(P) /\ Len(s) = 2 /\ s[1] = q /\ s[2] = r
      BY <1>2
    <3>. HIDE DEF s, t
    <3>3. \A i \in 1..2 : s[i] = t[i]
      BY <3>1, <3>2
    <3>4. s = t
      BY <3>1, <3>2, <3>3, SeqEqual
    <3>. QED BY <3>4 DEF s, t
  <2>3. asks = <<asks[1], asks[2]>>
    OBVIOUS
  <2>. HIDE DEF asks, q, r
  <2>. QED BY <2>1, <2>2, <2>3
<1>4. /\ <<q>> \in Seq(P) /\ <<r>> \in Seq(P)
      /\ V(<<q>>) = IF "request_response_info" = id THEN <<conf["request_response_info"]>> ELSE <<>>
      /\ V(<<r>>) = IF "request_problem_info" = id THEN <<conf["request_problem_info"]>> ELSE <<>>
  <2>1. /\ q.id = "request_response_info" /\ q.val = conf["request_response_info"]
        /\ r.id = "request_problem_info" /\ r.val = conf["request_problem_info"]
    OBVIOUS
  <2>. HIDE DEF q, r
  <2>. QED BY <1>2, <2>1, ValuesOfOne
<1>5. /\ a \in Seq(P) /\ c \in Seq(P)
      /\ V(a) = IF id \in Range(before) THEN Value(conf, id) ELSE <<>>
      /\ V(c) = IF id \in Range(after) THEN Value(conf, id) ELSE <<>>
  <2>1. IsOrder(before) /\ IsOrder(after)
    BY OrderOfConnect
  <2>. HIDE DEF before, after
  <2>. QED BY <2>1, FieldsAre
<1>6. /\ Range(before) = {"session_expiry_interval", "receive_maximum", "topic_alias_maximum",
                          "maximum_packet_size"}
      /\ Range(after) = {"auth_method", "auth_data"}
  BY OrderOfConnect
<1> DEFINE req == IF id \in {"request_response_info", "request_problem_info"} THEN <<conf[id]>>
                  ELSE <<>>
           end == IF id = "user_property" THEN conf.user ELSE <<>>
           ids == {"session_expiry_interval", "receive_maximum", "topic_alias_maximum",
                   "maximum_packet_size", "auth_method", "auth_data"}
           val == IF id \in ids THEN Value(conf, id) ELSE <<>>
<1>. HIDE DEF before, after, a, c, q, r
<1>7. ASSUME NEW x \in Seq(P), NEW y \in Seq(P)
      PROVE  x \o y \in Seq(P) /\ V(x \o y) = V(x) \o V(y) /\ V(x) \in Seq(Nat)
  <2>1. x \o y \in Seq(P)
    <3>. HIDE DEF P
    <3>. QED OBVIOUS
  <2>. QED BY <2>1, ValuesConcat, ValuesInSeq
<1>8. asks \in Seq(P) /\ V(asks) = V(<<q>>) \o V(<<r>>) /\ V(<<q>>) \in Seq(Nat)
      /\ V(<<r>>) \in Seq(Nat)
  <2>. HIDE DEF P, V, asks
  <2>. QED BY <1>3, <1>4, <1>7
<1>9. a \o asks \in Seq(P) /\ V(a \o asks) = V(a) \o V(asks)
  <2>. HIDE DEF P, V, asks
  <2>. QED BY <1>5, <1>7, <1>8
<1>10. a \o asks \o c \in Seq(P) /\ V(a \o asks \o c) = V(a) \o V(asks) \o V(c)
  <2> DEFINE x == a \o asks
  <2>1. x \in Seq(P) /\ V(x) = V(a) \o V(asks)
    BY <1>9
  <2>. HIDE DEF P, V, asks, x
  <2>2. x \o c \in Seq(P) /\ V(x \o c) = V(x) \o V(c)
    BY <2>1, <1>5, <1>7
  <2>. QED BY <2>1, <2>2 DEF x
<1>11. /\ a \o asks \o c \o u \in Seq(P)
       /\ V(a \o asks \o c \o u) = (V(a) \o V(asks) \o V(c)) \o end
  <2> DEFINE x == a \o asks \o c
  <2>1. x \in Seq(P) /\ V(x) = V(a) \o V(asks) \o V(c)
    BY <1>10
  <2>. HIDE DEF asks, x
  <2>2. /\ x \o UserProperties(conf) \in Seq(Property)
        /\ Values(x \o UserProperties(conf), id)
             = Values(x, id) \o (IF id = "user_property" THEN conf.user ELSE <<>>)
    BY <2>1, FieldsThenUser
  <2>3. x \o u \in Seq(P) /\ V(x \o u) = V(x) \o end
    BY <2>2
  <2>. HIDE DEF u, end, V
  <2>. QED BY <2>1, <2>3 DEF x
<1>12. /\ V(a) \in Seq(Nat) /\ V(c) \in Seq(Nat) /\ V(asks) \in Seq(Nat)
       /\ end \in Seq(Nat)
  <2>1. end \in Seq(Nat)
    BY DEF IsConf
  <2>. HIDE DEF P, V, asks, end
  <2>. QED BY <2>1, <1>5, <1>7, <1>8
<1>13. V(asks) = req
  <2> DEFINE s == V(<<q>>)
             t == V(<<r>>)
  <2>1. s \in Seq(Nat) /\ t \in Seq(Nat) /\ V(asks) = s \o t
    BY <1>8
  <2>. HIDE DEF V, asks
  <2>2. CASE id = "request_response_info"
    <3>1. t = <<>> /\ s = req
      BY <1>4, <2>2
    <3>. HIDE DEF req, s, t
    <3>2. s \o t = s
      BY <3>1, <2>1
    <3>. QED BY <3>1, <3>2, <2>1
  <2>3. CASE id # "request_response_info"
    <3>1. s = <<>> /\ t = req
      BY <1>4, <2>3
    <3>. HIDE DEF req, s, t
    <3>2. s \o t = t
      BY <3>1, <2>1
    <3>. QED BY <3>1, <3>2, <2>1
  <2>. QED BY <2>2, <2>3
<1>. HIDE DEF V, asks, P, u
<1>14. CASE id = "user_property"
  <2>1. V(a) = <<>> /\ V(asks) = <<>> /\ V(c) = <<>> /\ end = conf.user
    BY <1>5, <1>6, <1>13, <1>14
  <2>. HIDE DEF end
  <2>2. (V(a) \o V(asks) \o V(c)) \o end = end
    BY <2>1, <1>12
  <2>. QED BY <2>1, <2>2, <1>1, <1>11, <1>14 DEF P, V, asks, u
<1>15. CASE id # "user_property"
  <2>1. end = <<>>
    BY <1>15
  <2>2. CASE id \in {"request_response_info", "request_problem_info"}
    <3>1. V(a) = <<>> /\ V(c) = <<>> /\ V(asks) = <<conf[id]>>
      BY <1>5, <1>6, <1>13, <2>2
    <3>. HIDE DEF end
    <3>2. (V(a) \o V(asks) \o V(c)) \o end = V(asks)
      BY <3>1, <2>1, <1>12
    <3>. QED BY <3>1, <3>2, <2>2, <1>1, <1>11, <1>15 DEF P, V, asks, u
  <2>3. CASE id \in Range(before)
    <3>1. V(c) = <<>> /\ V(asks) = <<>> /\ V(a) = Value(conf, id)
      BY <1>5, <1>6, <1>13, <2>3
    <3>. HIDE DEF end
    <3>2. (V(a) \o V(asks) \o V(c)) \o end = V(a)
      BY <3>1, <2>1, <1>12
    <3>. QED BY <3>1, <3>2, <2>3, <1>1, <1>6, <1>11, <1>15 DEF P, V, asks, u
  <2>4. CASE id \notin Range(before) /\ id \notin {"request_response_info", "request_problem_info"}
    <3>1. /\ V(a) = <<>> /\ V(asks) = <<>>
          /\ V(c) = IF id \in {"auth_method", "auth_data"} THEN Value(conf, id) ELSE <<>>
      BY <1>5, <1>6, <1>13, <2>4
    <3>. HIDE DEF end
    <3>2. (V(a) \o V(asks) \o V(c)) \o end = V(c)
      BY <3>1, <2>1, <1>12
    <3>. QED BY <3>1, <3>2, <2>4, <1>1, <1>6, <1>11, <1>15 DEF P, V, asks, u
  <2>. QED BY <2>2, <2>3, <2>4
<1>. QED BY <1>14, <1>15

\* What the application sets is what the list holds, each property once and the
\* user properties in their order, whichever of the six encoders writes it
\* (noxmqtt_mqtt5_encode_*_properties): what `meant' is for a packet with such a
\* list, as PacketsUnderstood supposes.
THEOREM EncodersWriteAll ==
  ASSUME NEW conf, IsConf(conf)
  PROVE  /\ Writes(conf, MessageIds \cup {"topic_alias"}, EncodePublish(conf))
         /\ Writes(conf, MessageIds \cup {"will_delay_interval"}, EncodeWill(conf))
         /\ Writes(conf, {"subscription_identifier"}, EncodeSubscribe(conf))
         /\ Writes(conf, {"session_expiry_interval", "reason_string", "server_reference"},
                   EncodeDisconnect(conf))
         /\ Writes(conf, {"auth_method", "auth_data", "reason_string"}, EncodeAuth(conf))
         /\ \A id : Values(EncodeConnect(conf), id)
                      = IF id = "user_property" THEN conf.user
                        ELSE IF id \in Asks THEN <<conf[id]>>
                        ELSE IF id \in Announces THEN Value(conf, id)
                        ELSE <<>>
<1>1. Writes(conf, MessageIds \cup {"topic_alias"}, EncodePublish(conf))
  <2> DEFINE ids == <<"payload_format_indicator", "message_expiry_interval", "topic_alias",
                      "response_topic", "correlation_data", "content_type">>
             set == MessageIds \cup {"topic_alias"}
  <2>1. IsOrder(ids) /\ Range(ids) = set
    BY OrderOfPublish
  <2>2. EncodePublish(conf) = Fields(conf, ids) \o UserProperties(conf)
    BY DEF EncodePublish
  <2>. HIDE DEF ids, set
  <2>3. Writes(conf, set, EncodePublish(conf))
    BY <2>1, <2>2, WrittenInOrder
  <2>. QED BY <2>3 DEF set
<1>2. Writes(conf, MessageIds \cup {"will_delay_interval"}, EncodeWill(conf))
  <2> DEFINE ids == <<"will_delay_interval", "payload_format_indicator", "message_expiry_interval",
                      "response_topic", "correlation_data", "content_type">>
             set == MessageIds \cup {"will_delay_interval"}
  <2>1. IsOrder(ids) /\ Range(ids) = set
    BY OrderOfWill
  <2>2. EncodeWill(conf) = Fields(conf, ids) \o UserProperties(conf)
    BY DEF EncodeWill
  <2>. HIDE DEF ids, set
  <2>3. Writes(conf, set, EncodeWill(conf))
    BY <2>1, <2>2, WrittenInOrder
  <2>. QED BY <2>3 DEF set
<1>3. Writes(conf, {"subscription_identifier"}, EncodeSubscribe(conf))
  <2> DEFINE ids == <<"subscription_identifier">>
             set == {"subscription_identifier"}
  <2>1. IsOrder(ids) /\ Range(ids) = set
    BY OrderOfSubscribe
  <2>2. EncodeSubscribe(conf) = Fields(conf, ids) \o UserProperties(conf)
    BY DEF EncodeSubscribe
  <2>. HIDE DEF ids, set
  <2>3. Writes(conf, set, EncodeSubscribe(conf))
    BY <2>1, <2>2, WrittenInOrder
  <2>. QED BY <2>3 DEF set
<1>4. Writes(conf, {"session_expiry_interval", "reason_string", "server_reference"}, EncodeDisconnect(conf))
  <2> DEFINE ids == <<"session_expiry_interval", "reason_string", "server_reference">>
             set == {"session_expiry_interval", "reason_string", "server_reference"}
  <2>1. IsOrder(ids) /\ Range(ids) = set
    BY OrderOfDisconnect
  <2>2. EncodeDisconnect(conf) = Fields(conf, ids) \o UserProperties(conf)
    BY DEF EncodeDisconnect
  <2>. HIDE DEF ids, set
  <2>3. Writes(conf, set, EncodeDisconnect(conf))
    BY <2>1, <2>2, WrittenInOrder
  <2>. QED BY <2>3 DEF set
<1>5. Writes(conf, {"auth_method", "auth_data", "reason_string"}, EncodeAuth(conf))
  <2> DEFINE ids == <<"auth_method", "auth_data", "reason_string">>
             set == {"auth_method", "auth_data", "reason_string"}
  <2>1. IsOrder(ids) /\ Range(ids) = set
    BY OrderOfAuth
  <2>2. EncodeAuth(conf) = Fields(conf, ids) \o UserProperties(conf)
    BY DEF EncodeAuth
  <2>. HIDE DEF ids, set
  <2>3. Writes(conf, set, EncodeAuth(conf))
    BY <2>1, <2>2, WrittenInOrder
  <2>. QED BY <2>3 DEF set
<1>. QED BY <1>1, <1>2, <1>3, <1>4, <1>5, ConnectWrites DEF Asks, Announces
=============================================================================
