------------------------ MODULE PosixTransportProofs ------------------------
(***************************************************************************)
(* Theorems about PosixTransport, for any number of sockets.  In general:  *)
(* the type invariant, and that the client is freed after its worker has   *)
(* ended.  For an application that waits after its disconnects: that       *)
(* receive threads do not meet, that none closes a connection it did not   *)
(* serve, that a client without automatic reconnects stays disconnected,   *)
(* and that it is freed when no thread uses it.  Where a theorem leaves    *)
(* out a disconnect that automatic reconnects may undo (Left, or a premise *)
(* on DisconnectsWithAuto, EndsWithAuto or `auto'), it says so.            *)
(***************************************************************************)
EXTENDS PosixTransport, Integers, FiniteSetTheorems, WellFoundedInduction, TLAPS

-----------------------------------------------------------------------------
(* What is left of a call                                                  *)

Label ==
  {"flags", "open", "start", "hello", "bye", "stop", "close", "unset", "reset", "notify",
   "load", "store", "loop", "recv", "process", "connack", "disconnect_packet", "exit",
   "wait", "stop_worker", "join_worker", "deinit", "free"}

(* The labels that may come after label l in the calls of the application, *)
(* of the worker and of a receive thread; "nil" is the end of the call.    *)
MainAfter(l) ==
  CASE l = "flags" -> {"open"}
    [] l \in {"open", "start", "hello", "deinit", "free"} -> {"nil"}
    [] l = "close" -> {"unset"}
    [] l = "unset" -> {"nil", "stop", "reset"}
    [] l = "bye" -> {"stop"}
    [] l = "stop" -> {"close"}
    [] l = "reset" -> {"nil", "wait", "free"}
    [] l = "wait" -> {"nil", "stop_worker"}
    [] l = "stop_worker" -> {"join_worker"}
    [] l = "join_worker" -> {"deinit"}
    [] OTHER -> {}

WorkerAfter(l) ==
  CASE l = "flags" -> {"open"}
    [] l \in {"open", "start", "hello", "notify", "store"} -> {"nil"}
    [] l = "close" -> {"unset"}
    [] l = "unset" -> {"nil", "notify"}
    [] l = "stop" -> {"close"}
    [] l = "load" -> {"store"}
    [] OTHER -> {}

ReceiverAfter(l) ==
  CASE l = "flags" -> {"open"}
    [] l \in {"open", "start", "hello", "process"} -> {"loop"}
    [] l \in {"loop", "recv", "exit"} -> {"nil"}
    [] l = "close" -> {"unset"}
    [] l = "unset" -> {"notify", "process", "loop"}
    [] l = "stop" -> {"close"}
    [] l = "notify" -> {"loop", "exit"}
    [] l = "load" -> {"store"}
    [] l = "store" -> {"process", "loop"}
    [] l \in {"connack", "disconnect_packet"} -> {"process"}
    [] OTHER -> {}

After(a, l) ==
  IF a = Main THEN MainAfter(l) ELSE IF a = Worker THEN WorkerAfter(l) ELSE ReceiverAfter(l)

(* A stack of labels in an order the code of thread a has.                 *)
NextLabel(q, i) == IF i = Len(q) THEN "nil" ELSE q[i + 1]
WellShaped(a, q) ==
  q \in Seq(Label) /\ \A i \in DOMAIN q : NextLabel(q, i) \in After(a, q[i])

Shape == todo \in [Threads -> Seq(Label)] /\ \A a \in Threads : WellShaped(a, todo[a])

In(q, l) == \E i \in DOMAIN q : q[i] = l
Has(a, l) == In(todo[a], l)

(* The application, the worker and the receive threads are different
   threads.                                                                *)
LEMMA ThreadFacts ==
  /\ MaxSockets \in Nat /\ MaxSockets > 0 /\ Receivers = 1..MaxSockets /\ Sockets = Receivers
  /\ Main \in Threads /\ Worker \in Threads /\ Main # Worker
  /\ Main \notin Receivers /\ Worker \notin Receivers /\ Receivers \subseteq Threads
  /\ NoSocket = 0 /\ NoSocket \notin Sockets
  /\ \A a \in Threads : a \in Receivers \/ a = Main \/ a = Worker
BY TransportAssumption DEF Receivers, Sockets, Threads, Main, Worker, NoSocket

LEMMA NothingAfterNil == \A a : After(a, "nil") = {}
BY DEF After, MainAfter, WorkerAfter, ReceiverAfter

(* The end of the first label.                                             *)
LEMMA PopIs ==
  ASSUME NEW a, NEW q, WellShaped(a, q), q # <<>>
  PROVE  /\ WellShaped(a, Tail(q)) /\ Len(Tail(q)) = Len(q) - 1
         /\ Tail(q) = <<>> => "nil" \in After(a, Head(q))
         /\ Tail(q) # <<>> => Head(Tail(q)) \in After(a, Head(q)) /\ Head(Tail(q)) # "nil"
         /\ \A l : In(Tail(q), l) => In(q, l)
         /\ \A l : In(q, l) => l = Head(q) \/ In(Tail(q), l)
         /\ In(q, Head(q))
<1>1. /\ q \in Seq(Label) /\ Len(q) \in Nat /\ Len(q) > 0 /\ DOMAIN q = 1..Len(q)
      /\ Tail(q) \in Seq(Label) /\ Len(Tail(q)) = Len(q) - 1 /\ DOMAIN Tail(q) = 1..(Len(q) - 1)
      /\ Head(q) = q[1] /\ \A i \in 1..(Len(q) - 1) : Tail(q)[i] = q[i + 1]
      /\ Tail(q) = <<>> => Len(q) = 1
      /\ Tail(q) # <<>> => Len(q) > 1 /\ Head(Tail(q)) = q[2]
  <2>1. q \in Seq(Label)
    BY DEF WellShaped
  <2>2. Tail(q) \in Seq(Label) /\ Len(Tail(q)) = Len(q) - 1 /\ Len(q) \in Nat /\ Len(q) > 0
        /\ \A i \in 1..(Len(q) - 1) : Tail(q)[i] = q[i + 1]
    BY <2>1
  <2>3. Tail(q) = <<>> => Len(q) = 1
    <3>1. \A s \in Seq(Label) : s = <<>> => Len(s) = 0
      OBVIOUS
    <3> DEFINE t == Tail(q)
    <3>2. t \in Seq(Label) /\ Len(t) = Len(q) - 1 /\ Len(q) \in Nat
      BY <2>2
    <3> HIDE DEF t
    <3>3. t = <<>> => Len(q) = 1
      BY <3>1, <3>2
    <3>. QED BY <3>3 DEF t
  <2>4. Tail(q) # <<>> => Len(q) > 1 /\ Head(Tail(q)) = q[2]
    BY <2>1, <2>2
  <2>. QED BY <2>1, <2>2, <2>3, <2>4
<1>2. WellShaped(a, Tail(q))
  <2> SUFFICES ASSUME NEW i \in DOMAIN Tail(q)
               PROVE  NextLabel(Tail(q), i) \in After(a, Tail(q)[i])
    BY <1>1 DEF WellShaped
  <2>1. i + 1 \in DOMAIN q /\ Tail(q)[i] = q[i + 1] /\ (i = Len(Tail(q)) <=> i + 1 = Len(q))
        /\ (i # Len(Tail(q)) => Tail(q)[i + 1] = q[(i + 1) + 1])
    BY <1>1
  <2>2. NextLabel(q, i + 1) \in After(a, q[i + 1])
    BY <2>1 DEF WellShaped
  <2>. QED BY <2>1, <2>2 DEF NextLabel
<1>3. 1 \in DOMAIN q /\ NextLabel(q, 1) \in After(a, Head(q))
  BY <1>1 DEF WellShaped
<1>4. Len(q) > 1 => 2 \in DOMAIN q /\ NextLabel(q, 2) \in After(a, q[2])
  BY <1>1 DEF WellShaped
<1>5. /\ Tail(q) = <<>> => "nil" \in After(a, Head(q))
      /\ Tail(q) # <<>> => Head(Tail(q)) \in After(a, Head(q)) /\ Head(Tail(q)) # "nil"
  BY <1>1, <1>3, <1>4, NothingAfterNil DEF NextLabel
<1>6. \A l : In(Tail(q), l) => In(q, l)
  BY <1>1 DEF In
<1>7. \A i \in DOMAIN q : i = 1 \/ (i - 1 \in DOMAIN Tail(q) /\ Tail(q)[i - 1] = q[i])
  BY <1>1
<1>8. \A l : In(q, l) => l = Head(q) \/ In(Tail(q), l)
  BY <1>1, <1>7 DEF In
<1>. QED BY <1>1, <1>2, <1>3, <1>5, <1>6, <1>8 DEF In

(* The first label turns into the labels L.                                *)
Chained(a, L) ==
  L \in Seq(Label) /\ L # <<>> /\ \A i \in DOMAIN L : i # Len(L) => L[i + 1] \in After(a, L[i])

(* A thread that pushes a call before the rest of its work keeps labels in
   code order.                                                             *)
LEMMA PushIs ==
  ASSUME NEW a, NEW q, NEW L, WellShaped(a, q), q # <<>>, Chained(a, L),
         After(a, Head(q)) \subseteq After(a, L[Len(L)])
  PROVE  /\ WellShaped(a, L \o Tail(q)) /\ L \o Tail(q) # <<>> /\ Head(L \o Tail(q)) = L[1]
         /\ \A l : In(L \o Tail(q), l) <=> In(L, l) \/ In(Tail(q), l)
<1> DEFINE t == Tail(q)
           r == L \o t
           n == Len(L)
<1>1. /\ t \in Seq(Label) /\ Len(t) \in Nat /\ DOMAIN t = 1..Len(t) /\ WellShaped(a, t)
      /\ t = <<>> => "nil" \in After(a, Head(q))
      /\ t # <<>> => Head(t) \in After(a, Head(q))
      /\ (t = <<>> <=> Len(t) = 0) /\ (t # <<>> => Head(t) = t[1])
  <2>1. WellShaped(a, t) /\ (t = <<>> => "nil" \in After(a, Head(q)))
        /\ (t # <<>> => Head(t) \in After(a, Head(q)))
    BY PopIs
  <2>2. t \in Seq(Label)
    BY <2>1 DEF WellShaped
  <2> HIDE DEF t
  <2>. QED BY <2>1, <2>2
<1> HIDE DEF t
<1>2. /\ n \in Nat /\ n > 0 /\ DOMAIN L = 1..n /\ r \in Seq(Label) /\ Len(r) = n + Len(t)
      /\ DOMAIN r = 1..(n + Len(t)) /\ Head(r) = r[1] /\ r # <<>>
      /\ \A i \in 1..n : r[i] = L[i]
      /\ \A i \in 1..Len(t) : r[n + i] = t[i]
  <2>1. L \in Seq(Label) /\ L # <<>>
    BY DEF Chained
  <2>2. r \in Seq(Label) /\ Len(r) = n + Len(t) /\ n \in Nat /\ n > 0
    BY <1>1, <2>1
  <2>3. \A i \in 1..n : r[i] = L[i]
    BY <1>1, <2>1
  <2>4. \A i \in 1..Len(t) : n + i > n /\ n + i <= n + Len(t) /\ (n + i) - n = i
    BY <1>1, <2>2
  <2>5. \A j \in 1..(n + Len(t)) : j > n => r[j] = t[j - n]
    BY <1>1, <2>1
  <2>6. \A i \in 1..Len(t) : r[n + i] = t[i]
    BY <1>1, <2>2, <2>4, <2>5
  <2> HIDE DEF r
  <2>. QED BY <1>1, <2>1, <2>2, <2>3, <2>6
<1> HIDE DEF r, n
<1>3. ASSUME NEW i \in 1..n PROVE NextLabel(r, i) \in After(a, r[i])
  <2>1. CASE i # n
    <3>1. i + 1 \in 1..n /\ r[i + 1] = L[i + 1] /\ i # Len(r)
      BY <1>1, <1>2, <2>1
    <3>2. L[i + 1] \in After(a, L[i])
      BY <1>2, <2>1 DEF Chained, n
    <3>. QED BY <1>2, <3>1, <3>2 DEF NextLabel
  <2>2. CASE i = n /\ t = <<>>
    BY <1>1, <1>2, <2>2 DEF NextLabel, n
  <2>3. CASE i = n /\ t # <<>>
    <3>1. r[n + 1] = t[1] /\ n # Len(r)
      BY <1>1, <1>2, <2>3
    <3>. QED BY <1>1, <1>2, <2>3, <3>1 DEF NextLabel, n
  <2>. QED BY <2>1, <2>2, <2>3
<1>4. ASSUME NEW j \in 1..Len(t) PROVE NextLabel(r, n + j) \in After(a, r[n + j])
  <2>1. NextLabel(t, j) \in After(a, t[j])
    BY <1>1 DEF WellShaped
  <2>2. j \in Nat /\ j <= Len(t) /\ n \in Nat /\ Len(t) \in Nat /\ Len(r) = n + Len(t)
    BY <1>1, <1>2
  <2>3. n + j = Len(r) <=> j = Len(t)
    BY <2>2
  <2>4. j # Len(t) => r[(n + j) + 1] = t[j + 1]
    <3>1. j # Len(t) => j + 1 \in 1..Len(t) /\ (n + j) + 1 = n + (j + 1)
      BY <2>2
    <3>. QED BY <1>2, <3>1
  <2>. QED BY <1>2, <2>1, <2>3, <2>4 DEF NextLabel
<1>5. \A i \in DOMAIN r : i \in 1..n \/ (i - n \in 1..Len(t) /\ n + (i - n) = i)
  BY <1>1, <1>2
<1>6. WellShaped(a, r)
  BY <1>2, <1>3, <1>4, <1>5 DEF WellShaped
<1>7. \A l : In(r, l) => In(L, l) \/ In(t, l)
  BY <1>1, <1>2, <1>5 DEF In
<1>8. \A i \in 1..Len(t) : n + i \in DOMAIN r
  BY <1>1, <1>2
<1>9. \A l : In(L, l) \/ In(t, l) => In(r, l)
  <2>1. \A l : In(L, l) => In(r, l)
    <3>1. \A i \in DOMAIN L : i \in DOMAIN r /\ r[i] = L[i]
      BY <1>1, <1>2
    <3>. QED BY <3>1 DEF In
  <2>2. \A l : In(t, l) => In(r, l)
    <3>1. \A i \in DOMAIN t : n + i \in DOMAIN r /\ r[n + i] = t[i]
      BY <1>1, <1>2, <1>8
    <3>. QED BY <3>1 DEF In
  <2>. QED BY <2>1, <2>2
<1>. QED BY <1>2, <1>6, <1>7, <1>9 DEF r, t

(* A list of labels from `first' to `last', in an order the code has.      *)
Piece(a, L, first, last, labels) ==
  Chained(a, L) /\ L[1] = first /\ L[Len(L)] = last /\ \A l : In(L, l) <=> l \in labels

(* Two pieces of a call, the second of which may follow the first, are a
   piece.                                                                  *)
LEMMA JoinIs ==
  ASSUME NEW a, NEW L, NEW M, NEW f, NEW x, NEW y, NEW z, NEW P, NEW Q,
         Piece(a, L, f, x, P), Piece(a, M, y, z, Q), y \in After(a, x)
  PROVE  Piece(a, L \o M, f, z, P \cup Q)
<1> DEFINE r == L \o M
           n == Len(L)
           m == Len(M)
<1>1. /\ L \in Seq(Label) /\ M \in Seq(Label) /\ n \in Nat /\ m \in Nat /\ n > 0 /\ m > 0
      /\ DOMAIN L = 1..n /\ DOMAIN M = 1..m
  BY DEF Piece, Chained
<1>2. /\ r \in Seq(Label) /\ Len(r) = n + m /\ DOMAIN r = 1..(n + m) /\ r # <<>>
      /\ \A i \in 1..n : r[i] = L[i]
      /\ \A i \in 1..(n + m) : i > n => r[i] = M[i - n]
  BY <1>1
<1>3. /\ L[1] = f /\ L[n] = x /\ M[1] = y /\ M[m] = z
      /\ \A i \in 1..n : i # n => L[i + 1] \in After(a, L[i])
      /\ \A i \in 1..m : i # m => M[i + 1] \in After(a, M[i])
      /\ \A l : (l \in P <=> In(L, l)) /\ (l \in Q <=> In(M, l))
  BY <1>1 DEF Piece, Chained
<1> HIDE DEF r, n, m
<1>4. ASSUME NEW i \in 1..(n + m), i # n + m PROVE r[i + 1] \in After(a, r[i])
  <2>0. i \in Nat /\ i > 0 /\ n \in Nat /\ m \in Nat
    BY <1>1
  <2>1. CASE i < n
    <3>1. i \in 1..n /\ i + 1 \in 1..n /\ i # n
      BY <2>0, <2>1
    <3>. QED BY <1>2, <1>3, <3>1
  <2>2. CASE i = n
    <3>1. i \in 1..n /\ i + 1 \in 1..(n + m) /\ i + 1 > n /\ (i + 1) - n = 1
      BY <1>1, <2>0, <2>2
    <3>. QED BY <1>2, <1>3, <2>2, <3>1
  <2>3. CASE i > n
    <3>1. /\ i + 1 \in 1..(n + m) /\ i + 1 > n /\ (i + 1) - n = (i - n) + 1
          /\ i - n \in 1..m /\ i - n # m
      BY <1>4, <2>0, <2>3
    <3>. QED BY <1>2, <1>3, <2>3, <3>1
  <2>. QED BY <2>0, <2>1, <2>2, <2>3
<1>5. r[1] = f /\ r[n + m] = z
  <2>1. 1 \in 1..n /\ n + m \in 1..(n + m) /\ n + m > n /\ (n + m) - n = m
    BY <1>1
  <2>. QED BY <1>2, <1>3, <2>1
<1>6. \A l : In(r, l) => l \in P \cup Q
  <2>1. \A i \in DOMAIN r : (i \in 1..n /\ r[i] = L[i]) \/ (i - n \in 1..m /\ r[i] = M[i - n])
    BY <1>1, <1>2
  <2>. QED BY <1>1, <1>3, <2>1 DEF In
<1>7. \A l : l \in P => In(r, l)
  <2>1. \A i \in DOMAIN L : i \in DOMAIN r /\ r[i] = L[i]
    BY <1>1, <1>2
  <2>. QED BY <1>3, <2>1 DEF In
<1>8. \A l : l \in Q => In(r, l)
  <2>1. \A i \in DOMAIN M : n + i \in 1..(n + m) /\ n + i > n /\ (n + i) - n = i
    BY <1>1
  <2>2. \A i \in DOMAIN M : n + i \in DOMAIN r /\ r[n + i] = M[i]
    BY <1>2, <2>1
  <2>. QED BY <1>3, <2>2 DEF In
<1>9. Chained(a, r) /\ r[Len(r)] = z
  BY <1>2, <1>4, <1>5 DEF Chained
<1>. QED BY <1>5, <1>6, <1>7, <1>8, <1>9 DEF Piece, r

(* The calls are short, and are pieces because each label may follow the
   one before it.                                                          *)
LEMMA ShortSequences ==
  ASSUME NEW S, NEW l \in S, NEW m \in S, NEW n \in S, NEW o \in S
  PROVE  /\ <<l>> \in Seq(S) /\ <<l>> # <<>> /\ Len(<<l>>) = 1 /\ DOMAIN <<l>> = {1} /\ <<l>>[1] = l
         /\ <<l, m>> \in Seq(S) /\ <<l, m, n>> \in Seq(S) /\ <<l, m, n, o>> \in Seq(S)
OBVIOUS

LEMMA OneLabel ==
  ASSUME NEW a, NEW l \in Label
  PROVE  Piece(a, <<l>>, l, l, {l})
<1> DEFINE L == <<l>>
<1>1. L \in Seq(Label) /\ L # <<>> /\ Len(L) = 1 /\ DOMAIN L = {1} /\ L[1] = l
  BY ShortSequences
<1> HIDE DEF L
<1>2. Chained(a, L)
  BY <1>1 DEF Chained
<1>3. \A x : In(L, x) <=> x \in {l}
  BY <1>1 DEF In
<1>. QED BY <1>1, <1>2, <1>3 DEF Piece, L

LEMMA TwoLabels ==
  ASSUME NEW a, NEW l \in Label, NEW m \in Label, m \in After(a, l)
  PROVE  Piece(a, <<l, m>>, l, m, {l, m})
<1> DEFINE L == <<l, m>>
<1>1. L \in Seq(Label)
  BY ShortSequences, Zenon
<1>2. L # <<>> /\ Len(L) = 2 /\ DOMAIN L = {1, 2} /\ L[1] = l /\ L[2] = m
  OBVIOUS
<1> HIDE DEF L
<1>3. ASSUME NEW i \in DOMAIN L, i # Len(L) PROVE L[i + 1] \in After(a, L[i])
  <2>1. i = 1 /\ i + 1 = 2
    BY <1>2, <1>3
  <2>. QED BY <1>2, <2>1
<1>4. Chained(a, L)
  BY <1>1, <1>2, <1>3 DEF Chained
<1>5. \A x : In(L, x) <=> x \in {l, m}
  BY <1>2 DEF In
<1>. QED BY <1>2, <1>4, <1>5 DEF Piece, L

LEMMA ThreeLabels ==
  ASSUME NEW a, NEW l \in Label, NEW m \in Label, NEW n \in Label,
         m \in After(a, l), n \in After(a, m)
  PROVE  Piece(a, <<l, m, n>>, l, n, {l, m, n})
<1> DEFINE L == <<l, m, n>>
<1>1. L \in Seq(Label)
  BY ShortSequences, Zenon
<1>2. L # <<>> /\ Len(L) = 3 /\ DOMAIN L = {1, 2, 3} /\ L[1] = l /\ L[2] = m /\ L[3] = n
  OBVIOUS
<1> HIDE DEF L
<1>3. ASSUME NEW i \in DOMAIN L, i # Len(L) PROVE L[i + 1] \in After(a, L[i])
  <2>1. (i = 1 /\ i + 1 = 2) \/ (i = 2 /\ i + 1 = 3)
    BY <1>2, <1>3
  <2>. QED BY <1>2, <2>1
<1>4. Chained(a, L)
  BY <1>1, <1>2, <1>3 DEF Chained
<1>5. \A x : In(L, x) <=> x \in {l, m, n}
  BY <1>2 DEF In
<1>. QED BY <1>2, <1>4, <1>5 DEF Piece, L

LEMMA FourLabels ==
  ASSUME NEW a, NEW l \in Label, NEW m \in Label, NEW n \in Label, NEW o \in Label,
         m \in After(a, l), n \in After(a, m), o \in After(a, n)
  PROVE  Piece(a, <<l, m, n, o>>, l, o, {l, m, n, o})
<1> DEFINE L == <<l, m, n, o>>
<1>1. L \in Seq(Label)
  BY ShortSequences, Zenon
<1>2. /\ L # <<>> /\ Len(L) = 4 /\ DOMAIN L = {1, 2, 3, 4}
      /\ L[1] = l /\ L[2] = m /\ L[3] = n /\ L[4] = o
  OBVIOUS
<1> HIDE DEF L
<1>3. ASSUME NEW i \in DOMAIN L, i # Len(L) PROVE L[i + 1] \in After(a, L[i])
  <2>1. (i = 1 /\ i + 1 = 2) \/ (i = 2 /\ i + 1 = 3) \/ (i = 3 /\ i + 1 = 4)
    BY <1>2, <1>3
  <2>. QED BY <1>2, <2>1
<1>4. Chained(a, L)
  BY <1>1, <1>2, <1>3 DEF Chained
<1>5. \A x : In(L, x) <=> x \in {l, m, n, o}
  BY <1>2 DEF In
<1>. QED BY <1>2, <1>4, <1>5 DEF Piece, L

(* The pieces that the actions put on the stack.                           *)
LEMMA Pieces ==
  ASSUME NEW a \in Threads
  PROVE  /\ Piece(a, NoxConnect, "flags", "open", {"flags", "open"})
         /\ Piece(a, Cleanup, "close", "unset", {"close", "unset"})
         /\ a # Main => Piece(a, MarkPing, "load", "store", {"load", "store"})
         /\ a # Main => Piece(a, Lost, "stop", "notify", {"stop", "close", "unset", "notify"})
         /\ Piece(a, <<"stop">> \o Cleanup, "stop", "unset", {"stop", "close", "unset"})
<1>1. /\ "open" \in After(a, "flags") /\ "unset" \in After(a, "close")
      /\ "close" \in After(a, "stop")
      /\ a # Main => "store" \in After(a, "load") /\ "notify" \in After(a, "unset")
  BY DEF After, MainAfter, WorkerAfter, ReceiverAfter
<1>2. Piece(a, NoxConnect, "flags", "open", {"flags", "open"})
  BY <1>1, TwoLabels DEF NoxConnect, Label
<1>3. Piece(a, Cleanup, "close", "unset", {"close", "unset"})
  BY <1>1, TwoLabels DEF Cleanup, Label
<1>4. a # Main => Piece(a, MarkPing, "load", "store", {"load", "store"})
  BY <1>1, TwoLabels DEF MarkPing, Label
<1>5. Piece(a, <<"stop">> \o Cleanup, "stop", "unset", {"stop", "close", "unset"})
  <2>1. Piece(a, <<"stop">>, "stop", "stop", {"stop"})
    BY OneLabel DEF Label
  <2>2. Piece(a, <<"stop">> \o Cleanup, "stop", "unset", {"stop"} \cup {"close", "unset"})
    BY <1>1, <1>3, <2>1, JoinIs
  <2>3. {"stop"} \cup {"close", "unset"} = {"stop", "close", "unset"}
    OBVIOUS
  <2>. QED BY <2>2, <2>3
<1>6. a # Main => Piece(a, Lost, "stop", "notify", {"stop", "close", "unset", "notify"})
  <2> SUFFICES ASSUME a # Main PROVE Piece(a, Lost, "stop", "notify", {"stop", "close", "unset", "notify"})
    OBVIOUS
  <2>1. Piece(a, <<"notify">>, "notify", "notify", {"notify"})
    BY OneLabel DEF Label
  <2>2. Piece(a, (<<"stop">> \o Cleanup) \o <<"notify">>, "stop", "notify",
              {"stop", "close", "unset"} \cup {"notify"})
    BY <1>1, <1>5, <2>1, JoinIs
  <2>3. {"stop", "close", "unset"} \cup {"notify"} = {"stop", "close", "unset", "notify"}
    OBVIOUS
  <2>. QED BY <2>2, <2>3 DEF Lost
<1>. QED BY <1>2, <1>3, <1>4, <1>5, <1>6

LEMMA EmptyConcat ==
  ASSUME NEW S, NEW q \in Seq(S)
  PROVE  q \o <<>> = q /\ <<>> \o q = q
OBVIOUS

LEMMA GoodByePiece == Piece(Main, GoodBye, "bye", "reset", {"bye", "stop", "close", "unset", "reset"})
<1>1. "stop" \in After(Main, "bye") /\ "close" \in After(Main, "stop") /\ "reset" \in After(Main, "unset")
  BY DEF After, MainAfter
<1>2. Piece(Main, <<"bye", "stop">>, "bye", "stop", {"bye", "stop"})
  BY <1>1, TwoLabels DEF Label
<1>3. Piece(Main, Cleanup, "close", "unset", {"close", "unset"})
  BY Pieces, ThreadFacts
<1>4. Piece(Main, <<"reset">>, "reset", "reset", {"reset"})
  BY OneLabel DEF Label
<1>5. Piece(Main, <<"bye", "stop">> \o Cleanup, "bye", "unset", {"bye", "stop"} \cup {"close", "unset"})
  BY <1>1, <1>2, <1>3, JoinIs
<1>6. Piece(Main, (<<"bye", "stop">> \o Cleanup) \o <<"reset">>, "bye", "reset",
            ({"bye", "stop"} \cup {"close", "unset"}) \cup {"reset"})
  BY <1>1, <1>4, <1>5, JoinIs
<1>7. ({"bye", "stop"} \cup {"close", "unset"}) \cup {"reset"}
        = {"bye", "stop", "close", "unset", "reset"}
  OBVIOUS
<1>. QED BY <1>6, <1>7 DEF GoodBye

(* The calls of the application that end a connection.                     *)
LEMMA MainPieces ==
  /\ Piece(Main, GoodBye \o <<"wait">>, "bye", "wait", {"bye", "stop", "close", "unset", "reset", "wait"})
  /\ Piece(Main, GoodBye \o <<>>, "bye", "reset", {"bye", "stop", "close", "unset", "reset"})
  /\ Piece(Main, GoodBye \o <<"wait", "stop_worker", "join_worker", "deinit">>, "bye", "deinit",
           {"bye", "stop", "close", "unset", "reset", "wait", "stop_worker", "join_worker", "deinit"})
  /\ Piece(Main, GoodBye \o <<"free">>, "bye", "free", {"bye", "stop", "close", "unset", "reset", "free"})
  /\ Piece(Main, <<>> \o <<"free">>, "free", "free", {"free"})
<1>1. /\ "wait" \in After(Main, "reset") /\ "free" \in After(Main, "reset")
      /\ "stop_worker" \in After(Main, "wait") /\ "join_worker" \in After(Main, "stop_worker")
      /\ "deinit" \in After(Main, "join_worker")
  BY DEF After, MainAfter
<1>2. /\ Piece(Main, <<"wait">>, "wait", "wait", {"wait"})
      /\ Piece(Main, <<"free">>, "free", "free", {"free"})
  BY OneLabel DEF Label
<1>3. Piece(Main, <<"wait", "stop_worker", "join_worker", "deinit">>, "wait", "deinit",
            {"wait", "stop_worker", "join_worker", "deinit"})
  <2>1. {"wait", "stop_worker", "join_worker", "deinit"} \subseteq Label
    BY DEF Label
  <2>. QED BY <1>1, <2>1, FourLabels
<1> DEFINE G == {"bye", "stop", "close", "unset", "reset"}
<1>4. G \cup {"wait"} = {"bye", "stop", "close", "unset", "reset", "wait"}
  OBVIOUS
<1>5. G \cup {"free"} = {"bye", "stop", "close", "unset", "reset", "free"}
  OBVIOUS
<1>6. G \cup {"wait", "stop_worker", "join_worker", "deinit"}
        = {"bye", "stop", "close", "unset", "reset", "wait", "stop_worker", "join_worker", "deinit"}
  OBVIOUS
<1>7. Piece(Main, GoodBye \o <<"wait">>, "bye", "wait", G \cup {"wait"})
  BY <1>1, <1>2, GoodByePiece, JoinIs
<1>8. Piece(Main, GoodBye \o <<"free">>, "bye", "free", G \cup {"free"})
  BY <1>1, <1>2, GoodByePiece, JoinIs
<1>9. Piece(Main, GoodBye \o <<"wait", "stop_worker", "join_worker", "deinit">>, "bye", "deinit",
            G \cup {"wait", "stop_worker", "join_worker", "deinit"})
  BY <1>1, <1>3, GoodByePiece, JoinIs
<1>10. GoodBye \o <<>> = GoodBye
  BY GoodByePiece, EmptyConcat DEF Piece, Chained
<1>11. <<>> \o <<"free">> = <<"free">>
  BY <1>2, EmptyConcat DEF Piece, Chained
<1>. QED BY <1>2, <1>4, <1>5, <1>6, <1>7, <1>8, <1>9, <1>10, <1>11, GoodByePiece

(* What a receive thread does when its connection ends or a packet comes.  *)
LEMMA ReceiverPieces ==
  ASSUME NEW k \in Receivers
  PROVE  /\ Piece(k, <<"loop">>, "loop", "loop", {"loop"})
         /\ Piece(k, <<"connack", "process", "loop">>, "connack", "loop", {"connack", "process", "loop"})
         /\ Piece(k, <<"disconnect_packet", "process", "loop">>, "disconnect_packet", "loop",
                  {"disconnect_packet", "process", "loop"})
         /\ Piece(k, <<>> \o <<"process", "loop">>, "process", "loop", {"process", "loop"})
         /\ Piece(k, MarkPing \o <<"process", "loop">>, "load", "loop",
                  {"load", "store", "process", "loop"})
         /\ Piece(k, Cleanup \o <<"process", "loop">>, "close", "loop",
                  {"close", "unset", "process", "loop"})
         /\ Piece(k, Lost \o <<"exit">>, "stop", "exit", {"stop", "close", "unset", "notify", "exit"})
         /\ Piece(k, Lost \o <<"loop">>, "stop", "loop", {"stop", "close", "unset", "notify", "loop"})
<1>1. k \in Threads /\ k # Main /\ k # Worker
  BY ThreadFacts
<1>2. /\ "process" \in After(k, "connack") /\ "process" \in After(k, "disconnect_packet")
      /\ "loop" \in After(k, "process") /\ "process" \in After(k, "store")
      /\ "process" \in After(k, "unset")
      /\ "exit" \in After(k, "notify") /\ "loop" \in After(k, "notify")
  BY <1>1 DEF After, ReceiverAfter
<1> {"connack", "disconnect_packet", "process", "loop"} \subseteq Label
  BY DEF Label
<1>3. /\ Piece(k, <<"loop">>, "loop", "loop", {"loop"})
      /\ Piece(k, <<"exit">>, "exit", "exit", {"exit"})
  BY OneLabel DEF Label
<1>4. Piece(k, <<"process", "loop">>, "process", "loop", {"process", "loop"})
  BY <1>2, TwoLabels, Zenon
<1>5. Piece(k, <<"connack", "process", "loop">>, "connack", "loop", {"connack", "process", "loop"})
  BY <1>2, ThreeLabels, Zenon
<1>6. Piece(k, <<"disconnect_packet", "process", "loop">>, "disconnect_packet", "loop",
            {"disconnect_packet", "process", "loop"})
  BY <1>2, ThreeLabels, Zenon
<1>7. <<>> \o <<"process", "loop">> = <<"process", "loop">>
  BY <1>4, EmptyConcat DEF Piece, Chained
<1>8. /\ Piece(k, MarkPing, "load", "store", {"load", "store"})
      /\ Piece(k, Cleanup, "close", "unset", {"close", "unset"})
      /\ Piece(k, Lost, "stop", "notify", {"stop", "close", "unset", "notify"})
  BY <1>1, Pieces
<1>9. Piece(k, MarkPing \o <<"process", "loop">>, "load", "loop", {"load", "store"} \cup {"process", "loop"})
  BY <1>2, <1>4, <1>8, JoinIs
<1>10. Piece(k, Cleanup \o <<"process", "loop">>, "close", "loop", {"close", "unset"} \cup {"process", "loop"})
  BY <1>2, <1>4, <1>8, JoinIs
<1>11. Piece(k, Lost \o <<"exit">>, "stop", "exit", {"stop", "close", "unset", "notify"} \cup {"exit"})
  BY <1>2, <1>3, <1>8, JoinIs
<1>12. Piece(k, Lost \o <<"loop">>, "stop", "loop", {"stop", "close", "unset", "notify"} \cup {"loop"})
  BY <1>2, <1>3, <1>8, JoinIs
<1>13. /\ {"load", "store"} \cup {"process", "loop"} = {"load", "store", "process", "loop"}
       /\ {"close", "unset"} \cup {"process", "loop"} = {"close", "unset", "process", "loop"}
       /\ {"stop", "close", "unset", "notify"} \cup {"exit"} = {"stop", "close", "unset", "notify", "exit"}
       /\ {"stop", "close", "unset", "notify"} \cup {"loop"} = {"stop", "close", "unset", "notify", "loop"}
  OBVIOUS
<1>. QED BY <1>3, <1>4, <1>5, <1>6, <1>7, <1>9, <1>10, <1>11, <1>12, <1>13

(* Thread a goes on: its next label is one of `next', and the labels `new'
   have joined those it had.                                               *)
Becomes(a, next, new) ==
  /\ Shape'
  /\ \A b \in Threads : b # a => todo'[b] = todo[b]
  /\ IF todo'[a] = <<>> THEN "nil" \in next ELSE Head(todo'[a]) \in next /\ Head(todo'[a]) # "nil"
  /\ \A l : Has(a, l)' => Has(a, l) \/ l \in new
  /\ \A l : Has(a, l) => At(a, l) \/ Has(a, l)'
  /\ \A l \in new : Has(a, l)'

LEMMA AtIs ==
  ASSUME Shape, NEW a \in Threads, NEW l, At(a, l)
  PROVE  /\ todo[a] # <<>> /\ Head(todo[a]) = l /\ WellShaped(a, todo[a])
         /\ Has(a, l) /\ After(a, l) # {} /\ l # "nil"
<1>1. todo[a] # <<>> /\ Head(todo[a]) = l /\ WellShaped(a, todo[a])
  BY DEF At, Shape
<1>2. 1 \in DOMAIN todo[a] /\ todo[a][1] = l
  BY <1>1 DEF WellShaped
<1>. QED BY <1>1, <1>2, NothingAfterNil DEF WellShaped, Has, In

LEMMA FrameIs ==
  ASSUME Shape, NEW a \in Threads, NEW q, todo' = [todo EXCEPT ![a] = q], WellShaped(a, q)
  PROVE  Shape' /\ todo'[a] = q /\ \A b \in Threads : b # a => todo'[b] = todo[b]
BY DEF Shape, WellShaped

LEMMA ProceedIs ==
  ASSUME Shape, NEW a \in Threads, NEW l, At(a, l), Proceed(a)
  PROVE  Becomes(a, After(a, l), {}) /\ todo'[a] = Tail(todo[a])
<1> DEFINE q == todo[a]
           t == Tail(q)
<1>1. WellShaped(a, q) /\ q # <<>> /\ Head(q) = l
  BY AtIs
<1>2. /\ WellShaped(a, t)
      /\ t = <<>> => "nil" \in After(a, l)
      /\ t # <<>> => Head(t) \in After(a, l) /\ Head(t) # "nil"
      /\ \A x : In(t, x) => In(q, x)
      /\ \A x : In(q, x) => x = l \/ In(t, x)
  BY <1>1, PopIs
<1>3. todo' = [todo EXCEPT ![a] = t]
  <2>1. <<>> \o t = t
    BY <1>2, EmptyConcat DEF WellShaped
  <2>2. todo' = [todo EXCEPT ![a] = <<>> \o Tail(todo[a])]
    BY DEF Proceed, Goto
  <2>. QED BY <2>1, <2>2
<1> HIDE DEF t
<1>4. Shape' /\ todo'[a] = t /\ \A b \in Threads : b # a => todo'[b] = todo[b]
  BY <1>2, <1>3, FrameIs
<1>. QED BY <1>1, <1>2, <1>4 DEF Becomes, Has, At, t

(* A step that replaces the label it is at by a piece.                     *)
LEMMA GoesIs ==
  ASSUME Shape, NEW a \in Threads, NEW l, At(a, l), NEW L, NEW f, NEW x, NEW P,
         Piece(a, L, f, x, P), f # "nil", After(a, l) \subseteq After(a, x),
         todo' = [todo EXCEPT ![a] = L \o Tail(todo[a])]
  PROVE  Becomes(a, {f}, P)
<1> DEFINE q == todo[a]
           r == L \o Tail(q)
<1>1. WellShaped(a, q) /\ q # <<>> /\ Head(q) = l
  BY AtIs
<1>2. /\ WellShaped(a, r) /\ r # <<>> /\ Head(r) = f
      /\ \A y : In(r, y) <=> y \in P \/ In(Tail(q), y)
  BY <1>1, PushIs DEF Piece
<1>3. /\ \A y : In(Tail(q), y) => In(q, y)
      /\ \A y : In(q, y) => y = l \/ In(Tail(q), y)
  BY <1>1, PopIs
<1> HIDE DEF r
<1>4. Shape' /\ todo'[a] = r /\ \A b \in Threads : b # a => todo'[b] = todo[b]
  BY <1>2, FrameIs DEF r
<1>. QED BY <1>1, <1>2, <1>3, <1>4 DEF Becomes, Has, At

(* A thread that was in no call begins one.                                *)
LEMMA BeginsIs ==
  ASSUME Shape, NEW a \in Threads, todo[a] = <<>>, NEW L, NEW f, NEW x, NEW P,
         Piece(a, L, f, x, P), f # "nil", "nil" \in After(a, x),
         todo' = [todo EXCEPT ![a] = L]
  PROVE  Becomes(a, {f}, P)
<1>1. WellShaped(a, L)
  BY DEF Piece, Chained, WellShaped, NextLabel
<1>2. Shape' /\ todo'[a] = L /\ \A b \in Threads : b # a => todo'[b] = todo[b]
  BY <1>1, FrameIs
<1>3. L # <<>> /\ Head(L) = f
  BY DEF Piece, Chained
<1>4. \A y : ~In(<<>>, y)
  BY DEF In
<1>. QED BY <1>2, <1>3, <1>4 DEF Becomes, Has, Piece

-----------------------------------------------------------------------------
(* The types                                                               *)

ValueTypes ==
  /\ {auto, connected, pending, due, running, wanted, revived} \subseteq BOOLEAN
  /\ socket_fd \in 0..MaxSockets /\ last_thread \in 0..MaxSockets
  /\ sock \in [Sockets -> {"none", "open", "closed"}]
  /\ srv \in [Sockets -> {"none", "asked", "answered", "left"}]
  /\ rx \in [Receivers -> 0..MaxSockets]
  /\ thread \in [Receivers -> {"none", "alive", "done"}]
  /\ app \in {"running", "stopping", "freed"}

AliveWork == \A k \in Receivers : (thread[k] = "alive") <=> (todo[k] # <<>>)

(* A status byte is held from its load to its store only.                  *)
ByteTypes ==
  /\ byte \in [Threads -> BOOLEAN \X BOOLEAN] /\ overwritten \in BOOLEAN
  /\ \A a \in Threads : byte[a] # <<FALSE, FALSE>> => At(a, "store")

(* A receive thread is created for a socket: there is one for every call
   that is about to create one.                                            *)
Starters == {a \in Threads : At(a, "start")}
Counted ==
  Cardinality(Receivers \ Unused(thread)) + Cardinality(Starters)
    <= Cardinality(Sockets \ Unused(sock))

TypeInv == ValueTypes /\ AliveWork /\ Shape /\ ByteTypes /\ Counted

LEMMA FirstIs ==
  ASSUME NEW S \in SUBSET Nat, S # {}
  PROVE  First(S) \in S
<1>1. PICK x \in S : \A y \in S : ~(<<y, x>> \in OpToRel(<, Nat))
  BY NatLessThanWellFounded, WFMin
<1>2. \A y \in S : x <= y
  <2>1. ASSUME NEW y \in S, ~(x <= y) PROVE FALSE
    <3>1. <<y, x>> \in OpToRel(<, Nat)
      BY <2>1 DEF OpToRel
    <3>. QED BY <3>1, <1>1
  <2>. QED BY <2>1
<1>. QED BY <1>2 DEF First

(* Threads and sockets can be counted.                                     *)
LEMMA FiniteThreads ==
  ASSUME NEW S, S \subseteq Threads
  PROVE  IsFiniteSet(S) /\ Cardinality(S) \in Nat
<1>1. Threads = 1..(MaxSockets + 2) /\ MaxSockets + 2 \in Nat
  BY TransportAssumption DEF Threads, Receivers, Main, Worker
<1>2. IsFiniteSet(Threads)
  BY <1>1, FS_Interval
<1>. QED BY <1>2, FS_Subset, FS_CardinalityType

LEMMA FiniteSockets ==
  ASSUME NEW S, S \subseteq Sockets
  PROVE  IsFiniteSet(S) /\ Cardinality(S) \in Nat /\ Cardinality(S) <= MaxSockets
<1>1. IsFiniteSet(Sockets) /\ Cardinality(Sockets) = MaxSockets
  BY ThreadFacts, FS_Interval
<1>. QED BY <1>1, FS_Subset, FS_CardinalityType

(* The labels a step may arrive at that does not bring the thread nearer
   to a new connection, nor to the end of one.                             *)
Plain(a) ==
  (IF a \in Receivers THEN Label ELSE Label \cup {"nil"})
    \ {"flags", "open", "start", "unset", "notify"}

LEMMA PlainAfter ==
  ASSUME NEW a \in Threads
  PROVE  /\ \A l \in {"open", "start", "hello", "bye", "stop", "reset", "notify", "load", "store",
                     "process", "wait", "stop_worker", "join_worker", "deinit", "free", "connack",
                     "disconnect_packet"} : After(a, l) \subseteq Plain(a)
         /\ After(a, "load") \subseteq {"store"}
         /\ After(a, "flags") = {"open"} /\ After(a, "close") = {"unset"}
         /\ After(a, "unset") \subseteq Plain(a) \cup {"notify"}
<1>1. CASE a = Main
  BY <1>1, ThreadFacts DEF Plain, After, MainAfter, Label
<1>2. CASE a = Worker
  BY <1>2, ThreadFacts DEF Plain, After, WorkerAfter, Label
<1>3. CASE a \in Receivers
  <2>1. a # Main /\ a # Worker
    BY <1>3, ThreadFacts
  <2>. QED BY <1>3, <2>1 DEF Plain, After, ReceiverAfter, Label
<1>. QED BY <1>1, <1>2, <1>3, ThreadFacts

(* Thread a goes on, with nothing but the labels `new' to do in addition;
   of the labels Plain leaves out it arrives at those in `at' only.        *)
Moves(a, at, new) ==
  /\ Shape'
  /\ \A b \in Threads : b # a => todo'[b] = todo[b]
  /\ \A l \in {"flags", "open", "start", "unset", "notify"} : At(a, l)' => l \in at
  /\ a \in Receivers => todo'[a] # <<>>
  /\ \A l : Has(a, l)' => Has(a, l) \/ l \in new
  /\ \A l : Has(a, l) => At(a, l) \/ l = "unset" \/ Has(a, l)'

(* What each way of going on with a call means for where the thread gets.  *)
LEMMA BecomesMoves ==
  ASSUME NEW a \in Threads, NEW next, NEW P, NEW at, Becomes(a, next, P),
         next \subseteq Plain(a) \cup at, "nil" \notin at
  PROVE  Moves(a, at, P)
<1>1. \A l \in {"flags", "open", "start", "unset", "notify"} : At(a, l)' => l \in at
  BY DEF Becomes, At, Plain
<1>2. "nil" \notin Label
  BY DEF Label
<1>3. a \in Receivers => todo'[a] # <<>>
  BY <1>2 DEF Becomes, Plain
<1>. QED BY <1>1, <1>3 DEF Becomes, Moves

LEMMA ProceedMoves ==
  ASSUME Shape, NEW a \in Threads, NEW l, At(a, l), Proceed(a), After(a, l) \subseteq Plain(a)
  PROVE  Moves(a, {}, {})
<1>1. Becomes(a, After(a, l), {})
  BY ProceedIs
<1>2. After(a, l) \subseteq Plain(a) \cup {} /\ "nil" \notin {}
  OBVIOUS
<1>. QED BY <1>1, <1>2, BecomesMoves, Zenon

(* The first label turns into a piece.                                     *)
LEMMA GoesMoves ==
  ASSUME Shape, NEW a \in Threads, NEW l, At(a, l), NEW L, NEW f, NEW x, NEW P,
         Piece(a, L, f, x, P), f \in Plain(a) \ {"nil"}, After(a, l) \subseteq After(a, x), Goto(a, L)
  PROVE  Moves(a, {}, P) /\ \A y \in P : Has(a, y)'
<1>1. todo' = [todo EXCEPT ![a] = L \o Tail(todo[a])]
  BY DEF Goto
<1>2. Becomes(a, {f}, P)
  BY <1>1, GoesIs
<1>3. Moves(a, {}, P)
  BY <1>2, BecomesMoves
<1>. QED BY <1>2, <1>3 DEF Becomes

LEMMA ConnectMoves ==
  ASSUME Shape, NEW a \in Threads
  PROVE  /\ Flags(a) => Moves(a, {"open"}, {})
         /\ Open(a) => Moves(a, {"start"}, {"start"}) /\ At(a, "start")'
         /\ OpenFails(a) => Moves(a, {}, {})
         /\ StartFails(a) => Moves(a, {}, {"close", "unset"})
         /\ Hello(a) => Moves(a, {}, {})
         /\ HelloFails(a) => Moves(a, {}, {"close", "unset"})
<1>1. ASSUME Flags(a) PROVE Moves(a, {"open"}, {})
  <2>1. After(a, "flags") = {"open"}
    BY PlainAfter
  <2>2. At(a, "flags") /\ Proceed(a)
    BY <1>1 DEF Flags
  <2>3. Becomes(a, {"open"}, {})
    BY <2>1, <2>2, ProceedIs
  <2>. QED BY <2>3, BecomesMoves
<1>2. ASSUME Open(a) PROVE Moves(a, {"start"}, {"start"}) /\ At(a, "start")'
  <2>1. At(a, "open") /\ todo' = [todo EXCEPT ![a] = <<"start">> \o Tail(todo[a])]
    BY <1>2 DEF Open, Goto
  <2>2. Piece(a, <<"start">>, "start", "start", {"start"})
    BY OneLabel DEF Label
  <2>3. After(a, "open") \subseteq After(a, "start")
    BY ThreadFacts DEF After, MainAfter, WorkerAfter, ReceiverAfter
  <2>4. Becomes(a, {"start"}, {"start"})
    BY <2>1, <2>2, <2>3, GoesIs
  <2>5. todo'[a] # <<>>
    <3>1. Has(a, "start")'
      BY <2>4 DEF Becomes
    <3>2. ~In(<<>>, "start")
      BY DEF In
    <3>. QED BY <3>1, <3>2 DEF Has
  <2>6. At(a, "start")'
    BY <2>4, <2>5 DEF Becomes, At
  <2>. QED BY <2>4, <2>6, BecomesMoves
<1>3. ASSUME NEW l \in {"start", "hello"}, At(a, l), Goto(a, Cleanup)
      PROVE  Moves(a, {}, {"close", "unset"})
  <2>1. After(a, l) \subseteq After(a, "unset")
    BY ThreadFacts DEF After, MainAfter, WorkerAfter, ReceiverAfter
  <2>2. "close" \in Plain(a) \ {"nil"}
    BY DEF Plain, Label
  <2>. QED BY <1>3, <2>1, <2>2, Pieces, GoesMoves
<1>4. StartFails(a) => Moves(a, {}, {"close", "unset"})
  BY <1>3 DEF StartFails
<1>5. HelloFails(a) => Moves(a, {}, {"close", "unset"})
  BY <1>3 DEF HelloFails
<1>6. OpenFails(a) => Moves(a, {}, {})
  BY ProceedMoves, PlainAfter DEF OpenFails
<1>7. Hello(a) => Moves(a, {}, {})
  BY ProceedMoves, PlainAfter DEF Hello
<1>. QED BY <1>1, <1>2, <1>4, <1>5, <1>6, <1>7

LEMMA DisconnectMoves ==
  ASSUME Shape, NEW a \in Threads
  PROVE  /\ Bye(a) => Moves(a, {}, {}) \/ Moves(a, {}, {"close", "unset"})
         /\ Stop(a) => Moves(a, {}, {})
         /\ Unset(a) => Moves(a, {"notify"}, {})
         /\ Reset(a) => Moves(a, {}, {})
         /\ NotifyDisconnected(a) => Moves(a, {}, {})
         /\ LoadStatus(a) => Moves(a, {}, {}) /\ At(a, "store")'
         /\ StoreStatus(a) => Moves(a, {}, {})
<1>1. ASSUME Bye(a) PROVE Moves(a, {}, {}) \/ Moves(a, {}, {"close", "unset"})
  <2>1. At(a, "bye") /\ (Proceed(a) \/ Goto(a, Cleanup))
    BY <1>1 DEF Bye
  <2>2. CASE Proceed(a)
    BY <2>1, <2>2, PlainAfter, ProceedMoves
  <2>3. CASE Goto(a, Cleanup)
    <3>1. After(a, "bye") \subseteq After(a, "unset")
      BY ThreadFacts DEF After, MainAfter, WorkerAfter, ReceiverAfter
    <3>2. "close" \in Plain(a) \ {"nil"}
      BY DEF Plain, Label
    <3>. QED BY <2>1, <2>3, <3>1, <3>2, Pieces, GoesMoves
  <2>. QED BY <2>1, <2>2, <2>3
<1>2. ASSUME Unset(a) PROVE Moves(a, {"notify"}, {})
  <2>1. Becomes(a, After(a, "unset"), {})
    BY <1>2, ProceedIs DEF Unset
  <2>2. After(a, "unset") \subseteq Plain(a) \cup {"notify"}
    BY PlainAfter
  <2>. QED BY <2>1, <2>2, BecomesMoves
<1>3. ASSUME LoadStatus(a) PROVE Moves(a, {}, {}) /\ At(a, "store")'
  <2>1. Becomes(a, After(a, "load"), {}) /\ At(a, "load")
    BY <1>3, ProceedIs DEF LoadStatus
  <2>2. After(a, "load") \subseteq {"store"} /\ After(a, "load") \subseteq Plain(a)
    BY PlainAfter
  <2>3. At(a, "store")'
    BY <2>1, <2>2 DEF Becomes, At
  <2>4. After(a, "load") \subseteq Plain(a) \cup {} /\ "nil" \notin {}
    BY <2>2
  <2>. QED BY <2>1, <2>3, <2>4, BecomesMoves, Zenon
<1>4. Stop(a) => Moves(a, {}, {})
  BY ProceedMoves, PlainAfter DEF Stop
<1>5. Reset(a) => Moves(a, {}, {})
  BY ProceedMoves, PlainAfter DEF Reset
<1>6. NotifyDisconnected(a) => Moves(a, {}, {})
  BY ProceedMoves, PlainAfter DEF NotifyDisconnected
<1>7. StoreStatus(a) => Moves(a, {}, {})
  BY ProceedMoves, PlainAfter DEF StoreStatus
<1>. QED BY <1>1, <1>2, <1>3, <1>4, <1>5, <1>6, <1>7

LEMMA CloseMoves ==
  ASSUME Shape, NEW a \in Threads, Close(a)
  PROVE  Moves(a, {"unset", "notify"}, {})
<1>1. CASE socket_fd # NoSocket
  <2>1. Becomes(a, After(a, "close"), {})
    BY <1>1, ProceedIs DEF Close
  <2>2. After(a, "close") = {"unset"}
    BY PlainAfter
  <2>. QED BY <2>1, <2>2, BecomesMoves
<1>2. CASE socket_fd = NoSocket
  <2> DEFINE q == todo[a]
             t == Tail(q)
             u == Tail(t)
  <2>1. todo' = [todo EXCEPT ![a] = u] /\ At(a, "close")
    BY <1>2 DEF Close
  <2>2. WellShaped(a, q) /\ q # <<>> /\ Head(q) = "close" /\ "nil" \notin After(a, "close")
        /\ After(a, "close") = {"unset"} /\ After(a, "unset") \subseteq Plain(a) \cup {"notify"}
    <3>1. After(a, "close") = {"unset"} /\ After(a, "unset") \subseteq Plain(a) \cup {"notify"}
      BY PlainAfter
    <3>. QED BY <2>1, <3>1, AtIs
  <2>3. /\ WellShaped(a, t) /\ t # <<>> /\ Head(t) = "unset"
        /\ \A x : In(t, x) => In(q, x)
        /\ \A x : In(q, x) => x = "close" \/ In(t, x)
    <3>1. /\ WellShaped(a, t)
          /\ t = <<>> => "nil" \in After(a, Head(q))
          /\ t # <<>> => Head(t) \in After(a, Head(q))
          /\ \A x : In(t, x) => In(q, x)
          /\ \A x : In(q, x) => x = Head(q) \/ In(t, x)
      BY <2>2, PopIs
    <3> HIDE DEF t, q
    <3>. QED BY <2>2, <3>1
  <2> HIDE DEF t, q
  <2>4. /\ WellShaped(a, u)
        /\ u = <<>> => "nil" \in After(a, "unset")
        /\ u # <<>> => Head(u) \in After(a, "unset")
        /\ \A x : In(u, x) => In(t, x)
        /\ \A x : In(t, x) => x = "unset" \/ In(u, x)
    <3>1. /\ WellShaped(a, u)
          /\ u = <<>> => "nil" \in After(a, Head(t))
          /\ u # <<>> => Head(u) \in After(a, Head(t))
          /\ \A x : In(u, x) => In(t, x)
          /\ \A x : In(t, x) => x = Head(t) \/ In(u, x)
      BY <2>3, PopIs
    <3> HIDE DEF u
    <3>. QED BY <2>3, <3>1
  <2> HIDE DEF u
  <2>5. Shape' /\ todo'[a] = u /\ \A b \in Threads : b # a => todo'[b] = todo[b]
    BY <2>1, <2>4, FrameIs
  <2>6. \A l \in {"flags", "open", "start", "unset", "notify"} : At(a, l)' => l \in {"unset", "notify"}
    BY <2>2, <2>4, <2>5 DEF At, Plain
  <2>7. a \in Receivers => u # <<>>
    <3>1. "nil" \notin Label
      BY DEF Label
    <3>. QED BY <3>1, <2>2, <2>4 DEF Plain
  <2>8. \A l : Has(a, l) => At(a, l) \/ l = "unset" \/ Has(a, l)'
    BY <2>1, <2>3, <2>4, <2>5 DEF Has, q
  <2>9. \A l : Has(a, l)' => Has(a, l)
    BY <2>3, <2>4, <2>5 DEF Has, q
  <2>. QED BY <2>5, <2>6, <2>7, <2>8, <2>9 DEF Moves
<1>. QED BY <1>1, <1>2

LEMMA MovesWider ==
  ASSUME NEW a, NEW at, NEW P, NEW Q, Moves(a, at, P), P \subseteq Q
  PROVE  Moves(a, at, Q)
BY DEF Moves

LEMMA BeginsMoves ==
  ASSUME Shape, NEW a \in Threads, todo[a] = <<>>, NEW L, NEW f, NEW x, NEW P, NEW at,
         Piece(a, L, f, x, P), "nil" \in After(a, x), f \in (Plain(a) \ {"nil"}) \cup at, "nil" \notin at,
         todo' = [todo EXCEPT ![a] = L]
  PROVE  Moves(a, at, P) /\ \A y \in P : Has(a, y)'
<1>1. Becomes(a, {f}, P)
  BY BeginsIs
<1>2. Moves(a, at, P)
  BY <1>1, BecomesMoves
<1>. QED BY <1>1, <1>2 DEF Becomes

Ending == {"bye", "stop", "close", "unset", "reset"}

(* Where a step of each kind of thread gets it.                            *)
LEMMA MainMoves ==
  ASSUME Shape
  PROVE  /\ TransportWait \/ StopWorker \/ JoinWorker \/ Free => Moves(Main, {}, {})
         /\ Deinit => Moves(Main, {}, Ending \cup {"free"})
         /\ Connect => Moves(Main, {"flags"}, {"flags", "open"})
         /\ Disconnect => /\ Moves(Main, {}, Ending \cup {"wait"})
                          /\ Waits => Has(Main, "wait")'
         /\ Shutdown => /\ Moves(Main, {}, Ending \cup {"wait", "stop_worker", "join_worker", "deinit"})
                        /\ Has(Main, "wait")' /\ Has(Main, "stop_worker")' /\ Has(Main, "join_worker")'
<1> USE ThreadFacts
<1>1. /\ "bye" \in Plain(Main) \ {"nil"} /\ "free" \in Plain(Main) \ {"nil"}
      /\ "nil" \in After(Main, "open") /\ "nil" \in After(Main, "reset") /\ "nil" \in After(Main, "wait")
      /\ "nil" \in After(Main, "deinit") /\ After(Main, "deinit") \subseteq After(Main, "free")
  BY DEF Plain, Label, After, MainAfter
<1>2. TransportWait \/ StopWorker \/ JoinWorker \/ Free => Moves(Main, {}, {})
  BY ProceedMoves, PlainAfter DEF TransportWait, StopWorker, JoinWorker, Free
<1>3. ASSUME Deinit PROVE Moves(Main, {}, Ending \cup {"free"})
  <2>1. At(Main, "deinit")
    BY <1>3 DEF Deinit
  <2>2. CASE Goto(Main, GoodBye \o <<"free">>)
    <3>1. Moves(Main, {}, {"bye", "stop", "close", "unset", "reset", "free"})
      BY <1>1, <2>1, <2>2, MainPieces, GoesMoves
    <3>. QED BY <3>1, MovesWider DEF Ending
  <2>3. CASE Goto(Main, <<>> \o <<"free">>)
    <3>1. Moves(Main, {}, {"free"})
      BY <1>1, <2>1, <2>3, MainPieces, GoesMoves
    <3>. QED BY <3>1, MovesWider
  <2>. QED BY <1>3, <2>2, <2>3 DEF Deinit
<1>4. ASSUME Connect PROVE Moves(Main, {"flags"}, {"flags", "open"})
  <2>1. todo[Main] = <<>> /\ todo' = [todo EXCEPT ![Main] = NoxConnect]
    BY <1>4 DEF Connect
  <2>2. "flags" \in {"flags"} /\ "nil" \notin {"flags"}
    OBVIOUS
  <2>. QED BY <1>1, <2>1, <2>2, Pieces, BeginsMoves
<1>5. ASSUME Disconnect PROVE Moves(Main, {}, Ending \cup {"wait"}) /\ (Waits => Has(Main, "wait")')
  <2>1. todo[Main] = <<>>
    BY <1>5 DEF Disconnect, MayDisconnect
  <2>2. CASE Waits
    <3> DEFINE L == GoodBye \o <<"wait">>
               P == {"bye", "stop", "close", "unset", "reset", "wait"}
    <3>1. todo' = [todo EXCEPT ![Main] = L] /\ Piece(Main, L, "bye", "wait", P)
      BY <1>5, <2>2, MainPieces DEF Disconnect
    <3> HIDE DEF L
    <3>2. Moves(Main, {}, P) /\ \A y \in P : Has(Main, y)'
      <4> HIDE DEF P
      <4>. QED BY <1>1, <2>1, <3>1, BeginsMoves
    <3>. QED BY <3>2, MovesWider DEF Ending
  <2>3. CASE ~Waits
    <3>1. todo' = [todo EXCEPT ![Main] = GoodBye \o <<>>]
      BY <1>5, <2>3 DEF Disconnect
    <3>2. Moves(Main, {}, {"bye", "stop", "close", "unset", "reset"})
      BY <1>1, <2>1, <3>1, MainPieces, BeginsMoves
    <3>. QED BY <2>3, <3>2, MovesWider DEF Ending
  <2>. QED BY <2>2, <2>3
<1>6. ASSUME Shutdown
      PROVE  /\ Moves(Main, {}, Ending \cup {"wait", "stop_worker", "join_worker", "deinit"})
             /\ Has(Main, "wait")' /\ Has(Main, "stop_worker")' /\ Has(Main, "join_worker")'
  <2> DEFINE L == GoodBye \o <<"wait", "stop_worker", "join_worker", "deinit">>
             P == {"bye", "stop", "close", "unset", "reset", "wait", "stop_worker", "join_worker", "deinit"}
  <2>1. todo[Main] = <<>> /\ todo' = [todo EXCEPT ![Main] = L]
    BY <1>6 DEF Shutdown, MayDisconnect
  <2>2. Piece(Main, L, "bye", "deinit", P)
    BY MainPieces
  <2> HIDE DEF L
  <2>3. Moves(Main, {}, P) /\ \A y \in P : Has(Main, y)'
    <3> HIDE DEF P
    <3>. QED BY <1>1, <2>1, <2>2, BeginsMoves
  <2>. QED BY <2>3, MovesWider DEF Ending
<1>. QED BY <1>2, <1>3, <1>4, <1>5, <1>6

(* noxmqtt_process: a reconnect that is due, or work on a connection.      *)
Reconnects(a) ==
  /\ ~connected /\ pending /\ due /\ auto
  /\ pending' = FALSE /\ due' = FALSE /\ UNCHANGED <<auto, connected>>
  /\ Moves(a, {"flags"}, {"flags", "open"})

Tends(a) == UNCHANGED client /\ Moves(a, {}, {"load", "store", "stop", "close", "unset", "notify"})

LEMMA WorkerMoves ==
  ASSUME Shape, WorkerPolls
  PROVE  todo[Worker] = <<>> /\ app = "running" /\ (Reconnects(Worker) \/ (connected /\ Tends(Worker)))
<1> USE ThreadFacts
<1> DEFINE P == {"load", "store", "stop", "close", "unset", "notify"}
<1>0. todo[Worker] = <<>> /\ app = "running" /\ ProcessCall(Worker, <<>>)
  BY DEF WorkerPolls
<1>1. /\ {"load", "close", "stop"} \subseteq Plain(Worker) \ {"nil"}
      /\ \A l \in {"open", "store", "unset", "notify"} : "nil" \in After(Worker, l)
  BY DEF Plain, Label, After, WorkerAfter
<1>2. /\ NoxConnect \o <<>> = NoxConnect /\ MarkPing \o <<>> = MarkPing /\ Cleanup \o <<>> = Cleanup
      /\ Lost \o <<>> = Lost
  BY Pieces, EmptyConcat DEF Piece, Chained
<1>3. CASE /\ ~connected /\ pending /\ due /\ auto
           /\ pending' = FALSE /\ due' = FALSE
           /\ todo' = [todo EXCEPT ![Worker] = NoxConnect \o <<>>]
           /\ UNCHANGED <<auto, connected>>
  <2>1. "flags" \in {"flags"} /\ "nil" \notin {"flags"} /\ todo' = [todo EXCEPT ![Worker] = NoxConnect]
    BY <1>2, <1>3
  <2>2. Moves(Worker, {"flags"}, {"flags", "open"})
    BY <1>0, <1>1, <2>1, Pieces, BeginsMoves
  <2>. QED BY <1>0, <1>3, <2>2 DEF Reconnects
<1>4. CASE UNCHANGED client /\ connected /\ todo' = [todo EXCEPT ![Worker] = MarkPing \o <<>>]
  <2>1. Moves(Worker, {}, {"load", "store"})
    BY <1>0, <1>1, <1>2, <1>4, Pieces, BeginsMoves
  <2>2. Moves(Worker, {}, P)
    BY <2>1, MovesWider
  <2>. QED BY <1>0, <1>4, <2>2 DEF Tends
<1>5. CASE UNCHANGED client /\ connected /\ todo' = [todo EXCEPT ![Worker] = Cleanup \o <<>>]
  <2>1. Moves(Worker, {}, {"close", "unset"})
    BY <1>0, <1>1, <1>2, <1>5, Pieces, BeginsMoves
  <2>2. Moves(Worker, {}, P)
    BY <2>1, MovesWider
  <2>. QED BY <1>0, <1>5, <2>2 DEF Tends
<1>6. CASE UNCHANGED client /\ connected /\ todo' = [todo EXCEPT ![Worker] = Lost \o <<>>]
  <2> DEFINE Q == {"stop", "close", "unset", "notify"}
  <2>0. Piece(Worker, Lost, "stop", "notify", Q)
    BY Pieces
  <2>1. Moves(Worker, {}, Q)
    <3> HIDE DEF Q
    <3>. QED BY <1>0, <1>1, <1>2, <1>6, <2>0, BeginsMoves
  <2>2. Moves(Worker, {}, P)
    BY <2>1, MovesWider
  <2>. QED BY <1>0, <1>6, <2>2 DEF Tends
<1>. QED BY <1>0, <1>3, <1>4, <1>5, <1>6 DEF ProcessCall

LEMMA ProcessMoves ==
  ASSUME Shape, NEW k \in Receivers, ReceiverProcesses(k)
  PROVE  \/ Reconnects(k)
         \/ connected /\ Tends(k)
         \/ UNCHANGED client /\ Moves(k, {}, {})
<1> DEFINE P == {"load", "store", "stop", "close", "unset", "notify"}
           rest == Tail(todo[k])
<1>0. At(k, "process") /\ k \in Threads /\ k # Main /\ k # Worker
  BY ThreadFacts DEF ReceiverProcesses
<1>1. /\ {"load", "close", "stop"} \subseteq Plain(k) \ {"nil"}
      /\ \A l \in {"open", "store", "unset", "notify"} : After(k, "process") \subseteq After(k, l)
  BY <1>0 DEF Plain, Label, After, ReceiverAfter
<1>2. \A L : todo' = [todo EXCEPT ![k] = L \o rest] => Goto(k, L)
  BY DEF Goto
<1>3. ASSUME todo' = [todo EXCEPT ![k] = NoxConnect \o rest]
      PROVE  Moves(k, {"flags"}, {"flags", "open"})
  <2>1. Becomes(k, {"flags"}, {"flags", "open"})
    BY <1>0, <1>1, <1>3, Pieces, GoesIs
  <2>. QED BY <1>0, <2>1, BecomesMoves
<1>4. ASSUME todo' = [todo EXCEPT ![k] = MarkPing \o rest] PROVE Moves(k, {}, P)
  <2>1. Moves(k, {}, {"load", "store"})
    BY <1>0, <1>1, <1>2, <1>4, Pieces, GoesMoves
  <2>. QED BY <2>1, MovesWider
<1>5. ASSUME todo' = [todo EXCEPT ![k] = Cleanup \o rest] PROVE Moves(k, {}, P)
  <2>1. Moves(k, {}, {"close", "unset"})
    BY <1>0, <1>1, <1>2, <1>5, Pieces, GoesMoves
  <2>. QED BY <2>1, MovesWider
<1>6. ASSUME todo' = [todo EXCEPT ![k] = Lost \o rest] PROVE Moves(k, {}, P)
  <2> DEFINE Q == {"stop", "close", "unset", "notify"}
  <2>1. Piece(k, Lost, "stop", "notify", Q)
    BY <1>0, Pieces
  <2>2. Moves(k, {}, Q)
    <3> HIDE DEF Q
    <3>. QED BY <1>0, <1>1, <1>2, <1>6, <2>1, GoesMoves
  <2>. QED BY <2>2, MovesWider
<1>7. Proceed(k) => Moves(k, {}, {})
  BY <1>0, ProceedMoves, PlainAfter
<1> HIDE DEF rest
<1>8. \/ ProcessCall(k, rest)
      \/ Proceed(k) /\ UNCHANGED client
  BY DEF ReceiverProcesses, rest
<1>9. \/ /\ ~connected /\ pending /\ due /\ auto
         /\ pending' = FALSE /\ due' = FALSE
         /\ todo' = [todo EXCEPT ![k] = NoxConnect \o rest]
         /\ UNCHANGED <<auto, connected>>
      \/ UNCHANGED client /\ connected /\ todo' = [todo EXCEPT ![k] = MarkPing \o rest]
      \/ UNCHANGED client /\ connected /\ todo' = [todo EXCEPT ![k] = Cleanup \o rest]
      \/ UNCHANGED client /\ connected /\ todo' = [todo EXCEPT ![k] = Lost \o rest]
      \/ UNCHANGED client /\ Proceed(k)
  BY <1>8 DEF ProcessCall
<1>. QED BY <1>3, <1>4, <1>5, <1>6, <1>7, <1>9 DEF Reconnects, Tends

LEMMA ReceiverMoves ==
  ASSUME Shape, NEW k \in Receivers
  PROVE  /\ Loop(k) => IF running THEN Moves(k, {}, {"recv"}) /\ At(k, "recv")' ELSE Proceed(k)
         /\ RecvConnack(k) => Moves(k, {}, {"connack", "process", "loop"})
         /\ RecvDisconnect(k) => Moves(k, {}, {"disconnect_packet", "process", "loop"})
         /\ RecvOther(k) => Moves(k, {}, {"load", "store", "close", "unset", "process", "loop"})
         /\ RecvEof(k) => Moves(k, {}, {"stop", "close", "unset", "notify", "exit"})
         /\ RecvError(k) => Moves(k, {}, {"stop", "close", "unset", "notify", "loop"})
         /\ HandleConnack(k) => Moves(k, {}, {}) \/ Moves(k, {}, {"close", "unset"})
         /\ HandleDisconnectPacket(k) => Moves(k, {}, {"stop", "close", "unset"}) /\ Has(k, "close")'
<1>0. k \in Threads /\ k # Main /\ k # Worker
  BY ThreadFacts
<1>1. /\ {"recv", "connack", "disconnect_packet", "process", "load", "close", "stop"} \subseteq Plain(k) \ {"nil"}
      /\ \A l \in {"loop", "exit"} : After(k, "recv") \subseteq After(k, l)
      /\ \A l \in {"connack", "disconnect_packet"} : After(k, l) \subseteq After(k, "unset")
      /\ After(k, "loop") \subseteq After(k, "recv")
  BY <1>0 DEF Plain, Label, After, ReceiverAfter
<1>2. ASSUME Loop(k) PROVE IF running THEN Moves(k, {}, {"recv"}) /\ At(k, "recv")' ELSE Proceed(k)
  <2>1. CASE running
    <3>1. At(k, "loop") /\ Goto(k, <<"recv">>)
      BY <1>2, <2>1 DEF Loop
    <3>2. Piece(k, <<"recv">>, "recv", "recv", {"recv"})
      BY OneLabel DEF Label
    <3>3. Moves(k, {}, {"recv"})
      BY <1>0, <1>1, <3>1, <3>2, GoesMoves
    <3>4. Becomes(k, {"recv"}, {"recv"})
      <4>1. todo' = [todo EXCEPT ![k] = <<"recv">> \o Tail(todo[k])]
        BY <3>1 DEF Goto
      <4>. QED BY <1>0, <1>1, <3>1, <3>2, <4>1, GoesIs
    <3>. QED BY <2>1, <3>3, <3>4 DEF Becomes, At, Moves
  <2>2. CASE ~running
    BY <1>2, <2>2 DEF Loop
  <2>. QED BY <2>1, <2>2
<1>3. RecvConnack(k) => Moves(k, {}, {"connack", "process", "loop"})
  <2> DEFINE P == {"connack", "process", "loop"}
             L == <<"connack", "process", "loop">>
  <2>1. RecvConnack(k) => At(k, "recv") /\ Goto(k, L)
    BY DEF RecvConnack
  <2>2. Piece(k, L, "connack", "loop", P)
    BY ReceiverPieces
  <2> HIDE DEF L
  <2>3. RecvConnack(k) => Moves(k, {}, P)
    <3> HIDE DEF P
    <3>. QED BY <1>0, <1>1, <2>1, <2>2, GoesMoves
  <2>. QED BY <2>3
<1>4. RecvDisconnect(k) => Moves(k, {}, {"disconnect_packet", "process", "loop"})
  <2> DEFINE P == {"disconnect_packet", "process", "loop"}
             L == <<"disconnect_packet", "process", "loop">>
  <2>1. RecvDisconnect(k) => At(k, "recv") /\ Goto(k, L)
    BY DEF RecvDisconnect
  <2>2. Piece(k, L, "disconnect_packet", "loop", P)
    BY ReceiverPieces
  <2> HIDE DEF L
  <2>3. RecvDisconnect(k) => Moves(k, {}, P)
    <3> HIDE DEF P
    <3>. QED BY <1>0, <1>1, <2>1, <2>2, GoesMoves
  <2>. QED BY <2>3
<1>5. ASSUME RecvOther(k) PROVE Moves(k, {}, {"load", "store", "close", "unset", "process", "loop"})
  <2> DEFINE R == <<"process", "loop">>
             P1 == {"process", "loop"}
             P2 == {"load", "store", "process", "loop"}
             P3 == {"close", "unset", "process", "loop"}
             P == {"load", "store", "close", "unset", "process", "loop"}
             L1 == <<>> \o R
             L2 == MarkPing \o R
             L3 == Cleanup \o R
  <2>1. At(k, "recv") /\ (Goto(k, L1) \/ Goto(k, L2) \/ Goto(k, L3))
    BY <1>5 DEF RecvOther
  <2>2. /\ Piece(k, L1, "process", "loop", P1) /\ Piece(k, L2, "load", "loop", P2)
        /\ Piece(k, L3, "close", "loop", P3)
    BY ReceiverPieces
  <2>3. P1 \subseteq P /\ P2 \subseteq P /\ P3 \subseteq P
    OBVIOUS
  <2> HIDE DEF P, P1, P2, P3, L1, L2, L3
  <2>4. Moves(k, {}, P1) \/ Moves(k, {}, P2) \/ Moves(k, {}, P3)
    BY <1>0, <1>1, <2>1, <2>2, GoesMoves
  <2>5. Moves(k, {}, P)
    BY <2>3, <2>4, MovesWider
  <2>. QED BY <2>5 DEF P
<1>6. RecvEof(k) => Moves(k, {}, {"stop", "close", "unset", "notify", "exit"})
  <2> DEFINE P == {"stop", "close", "unset", "notify", "exit"}
             L == Lost \o <<"exit">>
  <2>1. RecvEof(k) => At(k, "recv") /\ Goto(k, L)
    BY DEF RecvEof
  <2>2. Piece(k, L, "stop", "exit", P)
    BY ReceiverPieces
  <2> HIDE DEF L
  <2>3. RecvEof(k) => Moves(k, {}, P)
    <3> HIDE DEF P
    <3>. QED BY <1>0, <1>1, <2>1, <2>2, GoesMoves
  <2>. QED BY <2>3
<1>7. RecvError(k) => Moves(k, {}, {"stop", "close", "unset", "notify", "loop"})
  <2> DEFINE P == {"stop", "close", "unset", "notify", "loop"}
             L == Lost \o <<"loop">>
  <2>1. RecvError(k) => At(k, "recv") /\ Goto(k, L)
    BY DEF RecvError
  <2>2. Piece(k, L, "stop", "loop", P)
    BY ReceiverPieces
  <2> HIDE DEF L
  <2>3. RecvError(k) => Moves(k, {}, P)
    <3> HIDE DEF P
    <3>. QED BY <1>0, <1>1, <2>1, <2>2, GoesMoves
  <2>. QED BY <2>3
<1>8. ASSUME HandleConnack(k) PROVE Moves(k, {}, {}) \/ Moves(k, {}, {"close", "unset"})
  <2>1. At(k, "connack") /\ (Proceed(k) \/ Goto(k, Cleanup))
    BY <1>8 DEF HandleConnack
  <2>2. Proceed(k) => Moves(k, {}, {})
    BY <1>0, <2>1, ProceedMoves, PlainAfter
  <2>3. Goto(k, Cleanup) => Moves(k, {}, {"close", "unset"})
    BY <1>0, <1>1, <2>1, Pieces, GoesMoves
  <2>. QED BY <2>1, <2>2, <2>3
<1>9. ASSUME HandleDisconnectPacket(k) PROVE Moves(k, {}, {"stop", "close", "unset"}) /\ Has(k, "close")'
  <2> DEFINE P == {"stop", "close", "unset"}
             L == <<"stop">> \o Cleanup
  <2>1. At(k, "disconnect_packet") /\ Goto(k, L)
    BY <1>9 DEF HandleDisconnectPacket
  <2>2. Piece(k, L, "stop", "unset", P)
    BY <1>0, Pieces
  <2> HIDE DEF L
  <2>3. Moves(k, {}, P) /\ \A y \in P : Has(k, y)'
    <3> HIDE DEF P
    <3>. QED BY <1>0, <1>1, <2>1, <2>2, GoesMoves
  <2>. QED BY <2>3
<1>. QED BY <1>2, <1>3, <1>4, <1>5, <1>6, <1>7, <1>8, <1>9

(* A step of a thread that creates no thread and opens no socket.          *)
LEMMA StepShape ==
  ASSUME TypeInv, NEW a \in Threads, NEW at, NEW new, Moves(a, at, new),
         a \in Receivers => todo[a] # <<>>,
         "start" \notin at, UNCHANGED thread, Unused(sock') \subseteq Unused(sock)
  PROVE  Shape' /\ AliveWork' /\ Counted'
<1>1. /\ Shape' /\ \A b \in Threads : b # a => todo'[b] = todo[b]
      /\ a \in Receivers => todo'[a] # <<>>
      /\ ~At(a, "start")'
  BY DEF Moves
<1>2. AliveWork'
  BY <1>1, ThreadFacts DEF TypeInv, AliveWork
<1>3. Starters' \subseteq Starters
  BY <1>1 DEF Starters, At
<1>4. Cardinality(Starters') <= Cardinality(Starters) /\ Cardinality(Starters') \in Nat
      /\ Cardinality(Starters) \in Nat
  <2>1. Starters \subseteq Threads /\ Starters' \subseteq Threads
    BY DEF Starters
  <2>. QED BY <1>3, <2>1, FiniteThreads, FS_Subset
<1>5. /\ Cardinality(Receivers \ Unused(thread)) \in Nat
      /\ Cardinality(Sockets \ Unused(sock)) \in Nat
      /\ Receivers \ Unused(thread') = Receivers \ Unused(thread)
      /\ Cardinality(Sockets \ Unused(sock')) \in Nat
      /\ Cardinality(Sockets \ Unused(sock)) <= Cardinality(Sockets \ Unused(sock'))
  <2>1. Sockets \ Unused(sock) \subseteq Sockets \ Unused(sock')
    OBVIOUS
  <2>2. IsFiniteSet(Sockets \ Unused(sock'))
    BY FiniteSockets
  <2>3. Cardinality(Sockets \ Unused(sock)) <= Cardinality(Sockets \ Unused(sock'))
    BY <2>1, <2>2, FS_Subset
  <2>. QED BY <2>3, FiniteSockets, ThreadFacts DEF Unused
<1>6. Counted'
  <2>1. Counted
    BY DEF TypeInv
  <2> DEFINE n == Cardinality(Receivers \ Unused(thread))
             m == Cardinality(Sockets \ Unused(sock))
             c == Cardinality(Starters)
             d == Cardinality(Starters')
             e == Cardinality(Sockets \ Unused(sock'))
  <2>2. n \in Nat /\ m \in Nat /\ c \in Nat /\ d \in Nat /\ e \in Nat /\ d <= c /\ n + c <= m /\ m <= e
    BY <1>4, <1>5, <2>1 DEF Counted
  <2>3. n + d <= e
    <3> HIDE DEF n, m, c, d, e
    <3>. QED BY <2>2
  <2>. QED BY <1>5, <2>3 DEF Counted
<1>. QED BY <1>1, <1>2, <1>6

(* A step of one thread that creates no other keeps the invariant on all
   of them.                                                                *)
LEMMA StepOfOne ==
  ASSUME TypeInv, NEW a \in Threads, NEW at, NEW new, Moves(a, at, new),
         a \in Receivers => todo[a] # <<>>,
         "start" \notin at, ~At(a, "store"), UNCHANGED race,
         UNCHANGED thread, Unused(sock') \subseteq Unused(sock)
  PROVE  Shape' /\ AliveWork' /\ ByteTypes' /\ Counted'
<1>1. Shape' /\ AliveWork' /\ Counted'
  BY StepShape
<1>2. byte' = byte /\ overwritten' = overwritten
  BY DEF race
<1>3. ByteTypes'
  BY <1>2 DEF ByteTypes, At, TypeInv, Moves
<1>. QED BY <1>1, <1>3

(* There is a thread to create for a call that is about to create one.     *)
LEMMA StartFinds ==
  ASSUME TypeInv, NEW a \in Threads, At(a, "start"), NEW k, k = First(Unused(thread))
  PROVE  k \in Receivers /\ k \in Unused(thread) /\ todo[k] = <<>> /\ k # a
<1>1. /\ Receivers \ Unused(thread) \subseteq Sockets /\ Sockets \ Unused(sock) \subseteq Sockets
      /\ Unused(thread) \subseteq Receivers
  BY ThreadFacts DEF Unused
<1>2. Cardinality(Starters) > 0 /\ Cardinality(Starters) \in Nat
  <2>1. Starters \subseteq Threads /\ Starters # {}
    BY DEF Starters
  <2>. QED BY <2>1, FiniteThreads, FS_EmptySet
<1>3. Unused(thread) # {}
  <2> SUFFICES ASSUME Unused(thread) = {} PROVE FALSE
    OBVIOUS
  <2>1. Cardinality(Receivers \ Unused(thread)) = MaxSockets
    BY ThreadFacts, FS_Interval
  <2>2. Cardinality(Sockets \ Unused(sock)) <= MaxSockets /\ Cardinality(Sockets \ Unused(sock)) \in Nat
    BY <1>1, FiniteSockets
  <2>3. MaxSockets + Cardinality(Starters) <= Cardinality(Sockets \ Unused(sock))
    BY <2>1 DEF TypeInv, Counted
  <2>. QED BY <1>2, <2>2, <2>3, ThreadFacts
<1>4. Unused(thread) \in SUBSET Nat
  BY <1>1, ThreadFacts
<1>5. k \in Unused(thread)
  BY <1>3, <1>4, FirstIs
<1>6. todo[k] = <<>>
  BY <1>1, <1>5 DEF TypeInv, AliveWork, Unused
<1>. QED BY <1>1, <1>5, <1>6 DEF At

(* Start: the new thread begins its loop, its creator goes on.             *)
LEMMA StartIs ==
  ASSUME TypeInv, NEW a \in Threads, Start(a), NEW k, k = First(Unused(thread))
  PROVE  /\ k \in Receivers /\ k # a /\ thread[k] = "none" /\ todo[k] = <<>>
         /\ thread' = [thread EXCEPT ![k] = "alive"]
         /\ Shape' /\ todo'[k] = <<"loop">> /\ At(k, "loop")' /\ At(a, "hello")'
         /\ \A b \in Threads : b # a /\ b # k => todo'[b] = todo[b]
         /\ \A l : Has(a, l)' => Has(a, l) \/ l = "hello"
         /\ \A l : Has(a, l) => l = "start" \/ Has(a, l)'
<1> DEFINE q == todo[a]
           r == <<"hello">> \o Tail(q)
<1>1. At(a, "start") /\ Shape
  BY DEF Start, TypeInv
<1>2. k \in Receivers /\ k \in Unused(thread) /\ todo[k] = <<>> /\ k # a
  BY <1>1, StartFinds
<1>3. /\ todo' = [todo EXCEPT ![k] = <<"loop">>, ![a] = r]
      /\ thread' = [thread EXCEPT ![k] = "alive"]
  BY <1>2 DEF Start
<1>4. WellShaped(a, q) /\ q # <<>> /\ Head(q) = "start"
  BY <1>1, AtIs
<1>5. /\ WellShaped(a, r) /\ r # <<>> /\ Head(r) = "hello"
      /\ \A l : In(r, l) <=> l = "hello" \/ In(Tail(q), l)
  <2> DEFINE L == <<"hello">>
  <2>1. Piece(a, L, "hello", "hello", {"hello"})
    BY OneLabel DEF Label
  <2>2. After(a, "start") \subseteq After(a, "hello")
    BY ThreadFacts DEF After, MainAfter, WorkerAfter, ReceiverAfter
  <2> HIDE DEF L, q
  <2>3. Chained(a, L) /\ L[1] = "hello" /\ L[Len(L)] = "hello" /\ \A l : In(L, l) <=> l = "hello"
    BY <2>1 DEF Piece
  <2>4. /\ WellShaped(a, L \o Tail(q)) /\ L \o Tail(q) # <<>> /\ Head(L \o Tail(q)) = "hello"
        /\ \A l : In(L \o Tail(q), l) <=> In(L, l) \/ In(Tail(q), l)
    BY <1>4, <2>2, <2>3, PushIs
  <2>. QED BY <2>3, <2>4 DEF L
<1>6. /\ \A l : In(Tail(q), l) => In(q, l)
      /\ \A l : In(q, l) => l = "start" \/ In(Tail(q), l)
  BY <1>4, PopIs
<1> HIDE DEF r
<1>7. /\ WellShaped(k, <<"loop">>) /\ <<"loop">> # <<>> /\ Head(<<"loop">>) = "loop"
  <2> DEFINE L == <<"loop">>
  <2>1. Piece(k, L, "loop", "loop", {"loop"})
    BY <1>2, ReceiverPieces
  <2>2. "nil" \in After(k, "loop")
    BY <1>2, ThreadFacts DEF After, ReceiverAfter
  <2>3. Head(L) = "loop" /\ L # <<>>
    OBVIOUS
  <2> HIDE DEF L
  <2>4. WellShaped(k, L)
    BY <2>1, <2>2 DEF Piece, Chained, WellShaped, NextLabel
  <2>. QED BY <2>3, <2>4 DEF L
<1> DEFINE L == <<"loop">>
<1>8. WellShaped(k, L) /\ L # <<>> /\ Head(L) = "loop" /\ todo' = [todo EXCEPT ![k] = L, ![a] = r]
  BY <1>3, <1>7
<1>8a. thread[k] = "none" /\ k \in Threads
  BY <1>2, ThreadFacts DEF Unused
<1> HIDE DEF L
<1>9. /\ todo'[k] = L /\ todo'[a] = r /\ todo' \in [Threads -> Seq(Label)]
      /\ \A b \in Threads : b # a /\ b # k => todo'[b] = todo[b]
  BY <1>1, <1>2, <1>5, <1>8, <1>8a DEF Shape, WellShaped
<1>10. Shape'
  BY <1>1, <1>5, <1>8, <1>9 DEF Shape
<1>11. At(k, "loop")' /\ At(a, "hello")'
  BY <1>5, <1>8, <1>9 DEF At
<1>12. \A l : (Has(a, l)' => Has(a, l) \/ l = "hello") /\ (Has(a, l) => l = "start" \/ Has(a, l)')
  BY <1>5, <1>6, <1>9 DEF Has, q
<1>. QED BY <1>2, <1>3, <1>8a, <1>9, <1>10, <1>11, <1>12 DEF L

(* The end of a receive thread.                                            *)
LEMMA EndIs ==
  ASSUME Shape, NEW k \in Receivers, NEW l \in {"loop", "exit"}, At(k, l), Proceed(k)
  PROVE  Shape' /\ todo'[k] = <<>> /\ \A b \in Threads : b # k => todo'[b] = todo[b]
<1>1. k \in Threads /\ k # Main /\ k # Worker
  BY ThreadFacts
<1>2. After(k, l) = {"nil"}
  BY <1>1 DEF After, ReceiverAfter
<1>. QED BY <1>1, <1>2, ProceedIs DEF Becomes

(* The counting, when a socket is opened and when a thread is created.     *)
LEMMA OpenCounts ==
  ASSUME TypeInv, NEW a \in Threads, Open(a)
  PROVE  Counted' /\ First(Unused(sock)) \in Sockets /\ sock[First(Unused(sock))] = "none"
<1> DEFINE s == First(Unused(sock))
           U == Sockets \ Unused(sock)
           V == Sockets \ Unused(sock')
<1>1. Unused(sock) \in SUBSET Nat /\ Unused(sock) # {} /\ Unused(sock) \subseteq Sockets
  BY ThreadFacts DEF Open, Unused
<1>2. s \in Unused(sock) /\ s \in Sockets /\ sock[s] = "none"
  <2>1. s \in Unused(sock)
    BY <1>1, FirstIs
  <2>. QED BY <2>1 DEF Unused
<1> HIDE DEF s
<1>3. sock' = [sock EXCEPT ![s] = "open"] /\ sock \in [Sockets -> {"none", "open", "closed"}]
  BY DEF Open, s, TypeInv, ValueTypes
<1>4. V = U \cup {s} /\ s \notin U
  BY <1>2, <1>3 DEF Unused
<1>5. Cardinality(V) = Cardinality(U) + 1
  BY <1>4, FiniteSockets, FS_AddElement
<1>6. Starters' = Starters \cup {a} /\ a \notin Starters
  <2>1. At(a, "open") /\ Moves(a, {"start"}, {"start"}) /\ At(a, "start")'
    BY ConnectMoves DEF Open, TypeInv
  <2>. QED BY <2>1 DEF Moves, Starters, At
<1>7. Cardinality(Starters') = Cardinality(Starters) + 1
  <2>1. IsFiniteSet(Starters)
    BY FiniteThreads DEF Starters
  <2>. QED BY <1>6, <2>1, FS_AddElement
<1>8. thread' = thread
  BY DEF Open
<1>9. /\ Cardinality(Receivers \ Unused(thread)) \in Nat /\ Cardinality(U) \in Nat
      /\ Cardinality(Starters) \in Nat
  BY FiniteSockets, FiniteThreads, ThreadFacts DEF Starters, Unused
<1>10. Cardinality(Receivers \ Unused(thread)) + Cardinality(Starters) <= Cardinality(U)
  BY DEF TypeInv, Counted
<1>11. Counted'
  <2> DEFINE n == Cardinality(Receivers \ Unused(thread))
             m == Cardinality(U)
             c == Cardinality(Starters)
  <2>1. n + (c + 1) <= m + 1
    <3>1. n \in Nat /\ m \in Nat /\ c \in Nat /\ n + c <= m
      BY <1>9, <1>10
    <3> HIDE DEF n, m, c
    <3>. QED BY <3>1
  <2>. QED BY <1>5, <1>7, <1>8, <2>1 DEF Counted
<1>. QED BY <1>2, <1>11 DEF s

(* The thread that a connect creates was counted for its socket.           *)
LEMMA StartCounts ==
  ASSUME TypeInv, NEW a \in Threads, Start(a)
  PROVE  Counted'
<1> DEFINE U == Receivers \ Unused(thread)
           V == Receivers \ Unused(thread')
<1>0. PICK k : k = First(Unused(thread))
  OBVIOUS
<1>1. /\ k \in Receivers /\ k # a /\ thread[k] = "none" /\ thread' = [thread EXCEPT ![k] = "alive"]
      /\ At(k, "loop")' /\ At(a, "hello")' /\ todo[k] = <<>>
      /\ \A b \in Threads : b # a /\ b # k => todo'[b] = todo[b]
  BY <1>0, StartIs
<1>2. thread \in [Receivers -> {"none", "alive", "done"}] /\ At(a, "start") /\ sock' = sock
  BY DEF TypeInv, ValueTypes, Start, world
<1>3. V = U \cup {k} /\ k \notin U
  BY <1>1, <1>2, ThreadFacts DEF Unused
<1>4. Cardinality(V) = Cardinality(U) + 1
  <2>1. IsFiniteSet(U)
    BY FiniteSockets, ThreadFacts
  <2>. QED BY <1>3, <2>1, FS_AddElement
<1>5. Starters = Starters' \cup {a} /\ a \notin Starters'
  BY <1>1, <1>2 DEF Starters, At
<1>6. Cardinality(Starters) = Cardinality(Starters') + 1
  <2>1. IsFiniteSet(Starters')
    BY FiniteThreads DEF Starters
  <2> DEFINE T == Starters'
             S == Starters
  <2>2. IsFiniteSet(T) /\ S = T \cup {a} /\ a \notin T
    BY <1>5, <2>1
  <2> HIDE DEF T, S
  <2>3. Cardinality(S) = Cardinality(T) + 1
    BY <2>2, FS_AddElement
  <2>. QED BY <2>3 DEF S, T
<1>7. Cardinality(U) \in Nat /\ Cardinality(Sockets \ Unused(sock)) \in Nat /\ Cardinality(Starters') \in Nat
  BY FiniteSockets, FiniteThreads, ThreadFacts DEF Starters, Unused
<1>8. Cardinality(U) + Cardinality(Starters) <= Cardinality(Sockets \ Unused(sock))
  BY DEF TypeInv, Counted
<1>9. Counted'
  <2> DEFINE n == Cardinality(U)
             m == Cardinality(Sockets \ Unused(sock))
             d == Cardinality(Starters')
  <2>1. (n + 1) + d <= m
    <3>1. n \in Nat /\ m \in Nat /\ d \in Nat /\ n + (d + 1) <= m
      BY <1>6, <1>7, <1>8
    <3> HIDE DEF n, m, d
    <3>. QED BY <3>1
  <2>. QED BY <1>2, <1>4, <2>1 DEF Counted, Unused
<1>. QED BY <1>9

(* The end of a receive thread does not change the counting.               *)
LEMMA ThreadEnds ==
  ASSUME TypeInv, NEW k \in Receivers, NEW l \in {"loop", "exit"}, At(k, l), Proceed(k),
         thread' = [thread EXCEPT ![k] = "done"], UNCHANGED sock, UNCHANGED race
  PROVE  Shape' /\ AliveWork' /\ ByteTypes' /\ Counted'
<1>1. Shape' /\ todo'[k] = <<>> /\ \A b \in Threads : b # k => todo'[b] = todo[b]
  BY EndIs DEF TypeInv
<1>2. thread \in [Receivers -> {"none", "alive", "done"}] /\ thread[k] = "alive"
  BY DEF TypeInv, ValueTypes, AliveWork, At
<1>3. AliveWork'
  BY <1>1, <1>2, ThreadFacts DEF TypeInv, AliveWork
<1>4. ByteTypes'
  <2>1. byte' = byte /\ overwritten' = overwritten
    BY DEF race
  <2>. QED BY <1>1, <2>1 DEF ByteTypes, At, TypeInv
<1>5. Unused(thread') = Unused(thread)
  BY <1>2 DEF Unused
<1>6. Starters' = Starters
  BY <1>1 DEF Starters, At
<1>7. Counted'
  BY <1>5, <1>6 DEF Counted, TypeInv
<1>. QED BY <1>1, <1>3, <1>4, <1>7

(* Each action keeps the types.                                            *)
LEMMA TypeOfConnect ==
  ASSUME TypeInv, NEW a \in Threads, ConnectStep(a)
  PROVE  TypeInv'
<1> USE DEF client, transport, world, race
<1>0. /\ ValueTypes /\ Shape /\ AliveWork /\ ByteTypes
      /\ \A l : At(a, l) => todo[a] # <<>> /\ (l # "store" => ~At(a, "store"))
  BY DEF TypeInv, At
<1>1. ASSUME Flags(a) PROVE TypeInv'
  <2>1. ValueTypes'
    BY <1>0, <1>1 DEF Flags, ValueTypes
  <2>2. Moves(a, {"open"}, {})
    BY <1>0, <1>1, ConnectMoves
  <2>. QED BY <1>0, <1>1, <2>1, <2>2, StepOfOne DEF Flags, TypeInv
<1>2. ASSUME Open(a) PROVE TypeInv'
  <2>1. Counted' /\ First(Unused(sock)) \in Sockets
    BY <1>2, OpenCounts
  <2>2. ValueTypes'
    BY <1>0, <1>2, <2>1, ThreadFacts DEF Open, ValueTypes
  <2>3. Moves(a, {"start"}, {"start"}) /\ At(a, "start")'
    BY <1>0, <1>2, ConnectMoves
  <2>4. AliveWork'
    BY <1>0, <1>2, <2>3, ThreadFacts DEF Open, Moves, AliveWork
  <2>5. ByteTypes'
    BY <1>0, <1>2, <2>3 DEF Open, Moves, ByteTypes, At
  <2>. QED BY <2>1, <2>2, <2>3, <2>4, <2>5 DEF TypeInv, Moves
<1>3. ASSUME OpenFails(a) PROVE TypeInv'
  <2>1. ValueTypes'
    BY <1>0, <1>3 DEF OpenFails, ValueTypes
  <2>2. Moves(a, {}, {})
    BY <1>0, <1>3, ConnectMoves
  <2>. QED BY <1>0, <1>3, <2>1, <2>2, StepOfOne DEF OpenFails, TypeInv
<1>4. ASSUME Start(a) PROVE TypeInv'
  <2>0. PICK k : k = First(Unused(thread))
    OBVIOUS
  <2>1. /\ k \in Receivers /\ k # a /\ thread[k] = "none" /\ todo[k] = <<>>
        /\ thread' = [thread EXCEPT ![k] = "alive"]
        /\ Shape' /\ todo'[k] = <<"loop">> /\ At(k, "loop")' /\ At(a, "hello")'
        /\ \A b \in Threads : b # a /\ b # k => todo'[b] = todo[b]
    BY <1>4, <2>0, StartIs
  <2>2. last_thread' = k
    BY <1>4, <2>0 DEF Start
  <2>3. ValueTypes'
    BY <1>0, <1>4, <2>1, <2>2, ThreadFacts DEF Start, ValueTypes
  <2>4. AliveWork'
    <3>1. todo[a] # <<>> /\ todo'[k] # <<>> /\ todo'[a] # <<>>
      BY <1>4, <2>1 DEF Start, At
    <3>2. thread \in [Receivers -> {"none", "alive", "done"}]
      BY <1>0 DEF ValueTypes
    <3>3. \A j \in Receivers : j # k => thread'[j] = thread[j]
      BY <2>1, <3>2
    <3>4. thread'[k] = "alive"
      BY <2>1, <3>2
    <3>. QED BY <1>0, <2>1, <3>1, <3>3, <3>4, ThreadFacts DEF AliveWork
  <2>5. ByteTypes'
    BY <1>0, <1>4, <2>1 DEF Start, ByteTypes, At
  <2>6. Counted'
    BY <1>4, StartCounts
  <2>. QED BY <2>1, <2>3, <2>4, <2>5, <2>6 DEF TypeInv
<1>5. ASSUME StartFails(a) PROVE TypeInv'
  <2>1. ValueTypes'
    BY <1>0, <1>5 DEF StartFails, ValueTypes
  <2>2. Moves(a, {}, {"close", "unset"})
    BY <1>0, <1>5, ConnectMoves
  <2>. QED BY <1>0, <1>5, <2>1, <2>2, StepOfOne DEF StartFails, TypeInv
<1>6. ASSUME Hello(a) PROVE TypeInv'
  <2>1. ValueTypes'
    BY <1>0, <1>6 DEF Hello, ValueTypes
  <2>2. Moves(a, {}, {})
    BY <1>0, <1>6, ConnectMoves
  <2>. QED BY <1>0, <1>6, <2>1, <2>2, StepOfOne DEF Hello, TypeInv
<1>7. ASSUME HelloFails(a) PROVE TypeInv'
  <2>1. ValueTypes'
    BY <1>0, <1>7 DEF HelloFails, ValueTypes
  <2>2. Moves(a, {}, {"close", "unset"})
    BY <1>0, <1>7, ConnectMoves
  <2>. QED BY <1>0, <1>7, <2>1, <2>2, StepOfOne DEF HelloFails, TypeInv
<1>. QED BY <1>1, <1>2, <1>3, <1>4, <1>5, <1>6, <1>7 DEF ConnectStep

LEMMA TypeOfDisconnect ==
  ASSUME TypeInv, NEW a \in Threads, DisconnectStep(a) \/ LoadStatus(a) \/ StoreStatus(a)
  PROVE  TypeInv'
<1> USE DEF client, transport, world, race
<1>0. /\ ValueTypes /\ Shape /\ AliveWork /\ ByteTypes
      /\ \A l : At(a, l) => todo[a] # <<>> /\ (l # "store" => ~At(a, "store"))
  BY DEF TypeInv, At
<1>1. ASSUME Bye(a) PROVE TypeInv'
  <2>1. ValueTypes'
    BY <1>0, <1>1 DEF Bye, ValueTypes
  <2>2. Moves(a, {}, {}) \/ Moves(a, {}, {"close", "unset"})
    BY <1>0, <1>1, DisconnectMoves
  <2>. QED BY <1>0, <1>1, <2>1, <2>2, StepOfOne DEF Bye, TypeInv
<1>2. ASSUME Stop(a) PROVE TypeInv'
  <2>1. ValueTypes'
    BY <1>0, <1>2 DEF Stop, ValueTypes
  <2>2. Moves(a, {}, {})
    BY <1>0, <1>2, DisconnectMoves
  <2>. QED BY <1>0, <1>2, <2>1, <2>2, StepOfOne DEF Stop, TypeInv
<1>3. ASSUME Unset(a) PROVE TypeInv'
  <2>1. ValueTypes'
    BY <1>0, <1>3, ThreadFacts DEF Unset, ValueTypes
  <2>2. Moves(a, {"notify"}, {})
    BY <1>0, <1>3, DisconnectMoves
  <2>. QED BY <1>0, <1>3, <2>1, <2>2, StepOfOne DEF Unset, TypeInv
<1>4. ASSUME Reset(a) PROVE TypeInv'
  <2>1. ValueTypes'
    BY <1>0, <1>4 DEF Reset, ValueTypes
  <2>2. Moves(a, {}, {})
    BY <1>0, <1>4, DisconnectMoves
  <2>. QED BY <1>0, <1>4, <2>1, <2>2, StepOfOne DEF Reset, TypeInv
<1>5. ASSUME NotifyDisconnected(a) PROVE TypeInv'
  <2>1. ValueTypes'
    BY <1>0, <1>5 DEF NotifyDisconnected, DropSession, ValueTypes
  <2>2. Moves(a, {}, {})
    BY <1>0, <1>5, DisconnectMoves
  <2>. QED BY <1>0, <1>5, <2>1, <2>2, StepOfOne DEF NotifyDisconnected, DropSession, TypeInv
<1>6. ASSUME Close(a) PROVE TypeInv'
  <2>1. ValueTypes' /\ Unused(sock') \subseteq Unused(sock)
    <3>1. CASE sock' = sock
      BY <1>0, <1>6, <3>1 DEF Close, ValueTypes
    <3>2. CASE socket_fd # NoSocket /\ sock' = [sock EXCEPT ![socket_fd] = "closed"]
      <4>1. ValueTypes'
        BY <1>0, <1>6, <3>2 DEF Close, ValueTypes
      <4>2. \A s \in Sockets : sock'[s] = "none" => sock[s] = "none"
        BY <1>0, <3>2 DEF ValueTypes
      <4>. QED BY <4>1, <4>2 DEF Unused
    <3>. QED BY <1>6, <3>1, <3>2 DEF Close
  <2>2. Moves(a, {"unset", "notify"}, {})
    BY <1>0, <1>6, CloseMoves
  <2>. QED BY <1>0, <1>6, <2>1, <2>2, StepOfOne DEF Close, TypeInv
<1>7. ASSUME LoadStatus(a) PROVE TypeInv'
  <2>1. ValueTypes'
    BY <1>0, <1>7 DEF LoadStatus, ValueTypes
  <2>2. Moves(a, {}, {}) /\ At(a, "store")'
    BY <1>0, <1>7, DisconnectMoves
  <2>3. Shape' /\ AliveWork' /\ Counted'
    BY <1>0, <1>7, <2>2, StepShape DEF LoadStatus
  <2>4. connected \in BOOLEAN /\ pending \in BOOLEAN
    BY <1>0 DEF ValueTypes
  <2>5. ByteTypes'
    <3>1. byte' = [byte EXCEPT ![a] = <<connected, pending>>] /\ overwritten' = overwritten
      BY <1>7 DEF LoadStatus
    <3>2. <<connected, pending>> \in BOOLEAN \X BOOLEAN
      BY <2>4
    <3> HIDE DEF client
    <3>. QED BY <1>0, <2>2, <3>1, <3>2 DEF ByteTypes, Moves, At
  <2>. QED BY <2>1, <2>3, <2>5 DEF TypeInv
<1>8. ASSUME StoreStatus(a) PROVE TypeInv'
  <2>0. byte[a] \in BOOLEAN \X BOOLEAN
    BY <1>0 DEF ByteTypes
  <2>1. ValueTypes'
    BY <1>0, <1>8, <2>0 DEF StoreStatus, ValueTypes
  <2>2. Moves(a, {}, {})
    BY <1>0, <1>8, DisconnectMoves
  <2>3. Shape' /\ AliveWork' /\ Counted'
    BY <1>0, <1>8, <2>2, StepShape DEF StoreStatus
  <2>5. ByteTypes'
    <3>1. /\ byte' = [byte EXCEPT ![a] = <<FALSE, FALSE>>]
          /\ overwritten' = (overwritten \/ byte[a] # <<connected, pending>>)
      BY <1>8 DEF StoreStatus
    <3>2. <<FALSE, FALSE>> \in BOOLEAN \X BOOLEAN /\ overwritten' \in BOOLEAN
      BY <1>0, <3>1 DEF ByteTypes
    <3>. QED BY <1>0, <2>2, <3>1, <3>2 DEF ByteTypes, Moves, At
  <2>. QED BY <2>1, <2>3, <2>5 DEF TypeInv
<1>. QED BY <1>1, <1>2, <1>3, <1>4, <1>5, <1>6, <1>7, <1>8 DEF DisconnectStep

LEMMA TypeOfMain ==
  ASSUME TypeInv, MainStep \/ Connect \/ Disconnect \/ Shutdown
  PROVE  TypeInv'
<1> USE DEF client, transport, world, race
<1>0. /\ ValueTypes /\ Shape /\ AliveWork /\ ByteTypes
      /\ \A l : At(Main, l) /\ l # "store" => ~At(Main, "store")
      /\ todo[Main] = <<>> => ~At(Main, "store")
  BY DEF TypeInv, At
<1>1. ASSUME TransportWait PROVE TypeInv'
  <2>1. ValueTypes'
    BY <1>0, <1>1, ThreadFacts DEF TransportWait, ValueTypes
  <2>2. Moves(Main, {}, {})
    BY <1>0, <1>1, MainMoves
  <2>. QED BY <1>0, <1>1, <2>1, <2>2, ThreadFacts, StepOfOne DEF TransportWait, TypeInv
<1>2. ASSUME StopWorker PROVE TypeInv'
  <2>1. ValueTypes'
    BY <1>0, <1>2 DEF StopWorker, ValueTypes
  <2>2. Moves(Main, {}, {})
    BY <1>0, <1>2, MainMoves
  <2>. QED BY <1>0, <1>2, <2>1, <2>2, ThreadFacts, StepOfOne DEF StopWorker, TypeInv
<1>3. ASSUME JoinWorker PROVE TypeInv'
  <2>1. ValueTypes'
    BY <1>0, <1>3 DEF JoinWorker, ValueTypes
  <2>2. Moves(Main, {}, {})
    BY <1>0, <1>3, MainMoves
  <2>. QED BY <1>0, <1>3, <2>1, <2>2, ThreadFacts, StepOfOne DEF JoinWorker, TypeInv
<1>4. ASSUME Free PROVE TypeInv'
  <2>1. ValueTypes'
    BY <1>0, <1>4 DEF Free, ValueTypes
  <2>2. Moves(Main, {}, {})
    BY <1>0, <1>4, MainMoves
  <2>. QED BY <1>0, <1>4, <2>1, <2>2, ThreadFacts, StepOfOne DEF Free, TypeInv
<1>5. ASSUME Deinit PROVE TypeInv'
  <2>1. ValueTypes'
    BY <1>0, <1>5 DEF Deinit, ValueTypes
  <2>2. Moves(Main, {}, Ending \cup {"free"})
    BY <1>0, <1>5, MainMoves
  <2>. QED BY <1>0, <1>5, <2>1, <2>2, ThreadFacts, StepOfOne DEF Deinit, TypeInv
<1>6. ASSUME Connect PROVE TypeInv'
  <2>1. ValueTypes'
    BY <1>0, <1>6 DEF Connect, ValueTypes
  <2>2. Moves(Main, {"flags"}, {"flags", "open"})
    BY <1>0, <1>6, MainMoves
  <2>. QED BY <1>0, <1>6, <2>1, <2>2, ThreadFacts, StepOfOne DEF Connect, TypeInv
<1>7. ASSUME Disconnect PROVE TypeInv'
  <2>1. ValueTypes'
    BY <1>0, <1>7 DEF Disconnect, MayDisconnect, ValueTypes
  <2>2. Moves(Main, {}, Ending \cup {"wait"})
    BY <1>0, <1>7, MainMoves
  <2>. QED BY <1>0, <1>7, <2>1, <2>2, ThreadFacts, StepOfOne DEF Disconnect, MayDisconnect, TypeInv
<1>8. ASSUME Shutdown PROVE TypeInv'
  <2>1. ValueTypes'
    BY <1>0, <1>8 DEF Shutdown, MayDisconnect, ValueTypes
  <2>2. Moves(Main, {}, Ending \cup {"wait", "stop_worker", "join_worker", "deinit"})
    BY <1>0, <1>8, MainMoves
  <2>. QED BY <1>0, <1>8, <2>1, <2>2, ThreadFacts, StepOfOne DEF Shutdown, MayDisconnect, TypeInv
<1>. QED BY <1>1, <1>2, <1>3, <1>4, <1>5, <1>6, <1>7, <1>8 DEF MainStep

LEMMA TypeOfReceiver ==
  ASSUME TypeInv, NEW k \in Receivers, ReceiverStep(k)
  PROVE  TypeInv'
<1> USE DEF client, transport, world, race
<1>0. /\ ValueTypes /\ Shape /\ AliveWork /\ ByteTypes
      /\ \A l : At(k, l) => todo[k] # <<>> /\ (l # "store" => ~At(k, "store"))
      /\ k \in Threads
  BY ThreadFacts DEF TypeInv, At
<1>1. ASSUME RecvConnack(k) PROVE TypeInv'
  <2>1. ValueTypes'
    BY <1>0, <1>1 DEF RecvConnack, ValueTypes
  <2>2. Moves(k, {}, {"connack", "process", "loop"})
    BY <1>0, <1>1, ReceiverMoves
  <2>. QED BY <1>0, <1>1, <2>1, <2>2, ThreadFacts, StepOfOne DEF RecvConnack, TypeInv
<1>2. ASSUME RecvDisconnect(k) PROVE TypeInv'
  <2>1. ValueTypes'
    BY <1>0, <1>2 DEF RecvDisconnect, ValueTypes
  <2>2. Moves(k, {}, {"disconnect_packet", "process", "loop"})
    BY <1>0, <1>2, ReceiverMoves
  <2>. QED BY <1>0, <1>2, <2>1, <2>2, ThreadFacts, StepOfOne DEF RecvDisconnect, TypeInv
<1>3. ASSUME RecvOther(k) PROVE TypeInv'
  <2>1. ValueTypes'
    BY <1>0, <1>3 DEF RecvOther, ValueTypes
  <2>2. Moves(k, {}, {"load", "store", "close", "unset", "process", "loop"})
    BY <1>0, <1>3, ReceiverMoves
  <2>. QED BY <1>0, <1>3, <2>1, <2>2, ThreadFacts, StepOfOne DEF RecvOther, TypeInv
<1>4. ASSUME RecvEof(k) PROVE TypeInv'
  <2>1. ValueTypes'
    BY <1>0, <1>4 DEF RecvEof, ValueTypes
  <2>2. Moves(k, {}, {"stop", "close", "unset", "notify", "exit"})
    BY <1>0, <1>4, ReceiverMoves
  <2>. QED BY <1>0, <1>4, <2>1, <2>2, ThreadFacts, StepOfOne DEF RecvEof, TypeInv
<1>5. ASSUME RecvError(k) PROVE TypeInv'
  <2>1. ValueTypes'
    BY <1>0, <1>5 DEF RecvError, ValueTypes
  <2>2. Moves(k, {}, {"stop", "close", "unset", "notify", "loop"})
    BY <1>0, <1>5, ReceiverMoves
  <2>. QED BY <1>0, <1>5, <2>1, <2>2, ThreadFacts, StepOfOne DEF RecvError, TypeInv
<1>6. ASSUME HandleConnack(k) PROVE TypeInv'
  <2>1. ValueTypes'
    BY <1>0, <1>6 DEF HandleConnack, ValueTypes
  <2>2. Moves(k, {}, {}) \/ Moves(k, {}, {"close", "unset"})
    BY <1>0, <1>6, ReceiverMoves
  <2>. QED BY <1>0, <1>6, <2>1, <2>2, ThreadFacts, StepOfOne DEF HandleConnack, TypeInv
<1>7. ASSUME HandleDisconnectPacket(k) PROVE TypeInv'
  <2>1. ValueTypes'
    BY <1>0, <1>7 DEF HandleDisconnectPacket, DropSession, ValueTypes
  <2>2. Moves(k, {}, {"stop", "close", "unset"})
    BY <1>0, <1>7, ReceiverMoves
  <2>. QED BY <1>0, <1>7, <2>1, <2>2, ThreadFacts, StepOfOne DEF HandleDisconnectPacket, DropSession, TypeInv
<1>8. ASSUME ReceiverProcesses(k) PROVE TypeInv'
  <2>1. Reconnects(k) \/ (connected /\ Tends(k)) \/ (UNCHANGED client /\ Moves(k, {}, {}))
    BY <1>0, <1>8, ProcessMoves
  <2>2. ValueTypes'
    BY <1>0, <1>8, <2>1 DEF ReceiverProcesses, Reconnects, Tends, ValueTypes
  <2>3. \E at \in {{}, {"flags"}} : \E new : Moves(k, at, new)
    BY <2>1 DEF Reconnects, Tends
  <2>. QED BY <1>0, <1>8, <2>2, <2>3, StepOfOne DEF ReceiverProcesses, TypeInv
<1>9. ASSUME Exit(k) PROVE TypeInv'
  <2>1. ValueTypes'
    BY <1>0, <1>9 DEF Exit, ValueTypes
  <2>. QED BY <1>0, <1>9, <2>1, ThreadEnds DEF Exit, TypeInv
<1>10. ASSUME Loop(k) PROVE TypeInv'
  <2>1. ValueTypes'
    BY <1>0, <1>10 DEF Loop, ValueTypes
  <2>2. CASE running
    <3>1. Moves(k, {}, {"recv"})
      BY <1>0, <1>10, <2>2, ReceiverMoves
    <3>. QED BY <1>0, <1>10, <2>1, <2>2, <3>1, StepOfOne DEF Loop, TypeInv
  <2>3. CASE ~running
    BY <1>0, <1>10, <2>1, <2>3, ThreadEnds DEF Loop, TypeInv
  <2>. QED BY <2>2, <2>3
<1>. QED BY <1>1, <1>2, <1>3, <1>4, <1>5, <1>6, <1>7, <1>8, <1>9, <1>10 DEF ReceiverStep

LEMMA TypeOfWorker ==
  ASSUME TypeInv, WorkerPolls
  PROVE  TypeInv'
<1> USE DEF client, transport, world, race
<1>1. ValueTypes /\ Shape /\ ~At(Worker, "store") /\ Worker \in Threads /\ Worker \notin Receivers
  BY ThreadFacts DEF TypeInv, At, WorkerPolls
<1>2. Reconnects(Worker) \/ (connected /\ Tends(Worker))
  BY <1>1, WorkerMoves
<1>3. ValueTypes'
  BY <1>1, <1>2 DEF WorkerPolls, Reconnects, Tends, ValueTypes
<1>4. \E at \in {{}, {"flags"}} : \E new : Moves(Worker, at, new)
  BY <1>2 DEF Reconnects, Tends
<1>. QED BY <1>1, <1>3, <1>4, StepOfOne DEF WorkerPolls, TypeInv

LEMMA TypeInitially == Init => TypeInv
<1> SUFFICES ASSUME Init PROVE TypeInv
  OBVIOUS
<1>1. ValueTypes
  <2>1. /\ connected = FALSE /\ pending = FALSE /\ due = FALSE /\ running = FALSE /\ wanted = FALSE /\ revived = FALSE
        /\ auto \in BOOLEAN /\ socket_fd = 0 /\ last_thread = 0 /\ app = "running"
    BY DEF Init, NoSocket
  <2>2. /\ sock \in [Sockets -> {"none", "open", "closed"}]
        /\ srv \in [Sockets -> {"none", "asked", "answered", "left"}]
        /\ rx \in [Receivers -> 0..MaxSockets]
        /\ thread \in [Receivers -> {"none", "alive", "done"}]
    BY ThreadFacts DEF Init
  <2>3. {auto, connected, pending, due, running, wanted, revived} \subseteq BOOLEAN
    BY <2>1, Zenon
  <2>4. socket_fd \in 0..MaxSockets /\ last_thread \in 0..MaxSockets
    BY <2>1, ThreadFacts
  <2>5. app \in {"running", "stopping", "freed"}
    BY <2>1
  <2>. QED BY <2>2, <2>3, <2>4, <2>5 DEF ValueTypes
<1>2. \A a \in Threads : todo[a] = <<>>
  BY DEF Init
<1>3. AliveWork
  BY <1>2, ThreadFacts DEF Init, AliveWork
<1>4. Shape
  <2>1. <<>> \in Seq(Label) /\ DOMAIN <<>> = {}
    OBVIOUS
  <2>2. \A a : WellShaped(a, <<>>)
    BY <2>1 DEF WellShaped
  <2>. QED BY <2>1, <2>2 DEF Init, Shape
<1>5. ByteTypes
  BY DEF Init, ByteTypes
<1>6. Counted
  <2>1. Receivers \ Unused(thread) = {} /\ Starters = {}
    BY <1>2, ThreadFacts DEF Init, Unused, Starters, At
  <2>2. Sockets \ Unused(sock) = {}
    BY ThreadFacts DEF Init, Unused
  <2>. QED BY <2>1, <2>2, FS_EmptySet DEF Counted
<1>. QED BY <1>1, <1>3, <1>4, <1>5, <1>6 DEF TypeInv

LEMMA TypeSteps == TypeInv /\ [Next]_vars => TypeInv'
<1> SUFFICES ASSUME TypeInv, [Next]_vars PROVE TypeInv'
  OBVIOUS
<1>1. CASE UNCHANGED vars
  <2>1. /\ UNCHANGED <<auto, connected, pending, due, running, socket_fd, last_thread>>
        /\ UNCHANGED <<sock, srv, todo, rx, thread, app, byte, overwritten, wanted, revived>>
    BY <1>1 DEF vars, client, transport, world, race
  <2>2. ValueTypes' /\ AliveWork' /\ Shape'
    BY <2>1 DEF TypeInv, ValueTypes, AliveWork, Shape
  <2>3. ByteTypes' /\ Counted'
    BY <2>1 DEF TypeInv, ByteTypes, Counted, Starters, At
  <2>. QED BY <2>2, <2>3 DEF TypeInv
<1>2. CASE DelayPasses
  <2>1. /\ UNCHANGED <<auto, connected, pending, running, socket_fd, last_thread>>
        /\ UNCHANGED <<sock, srv, todo, rx, thread, app, byte, overwritten, wanted, revived>> /\ due' = TRUE
    BY <1>2 DEF DelayPasses, transport, world, race
  <2>2. ValueTypes' /\ AliveWork' /\ Shape'
    BY <2>1 DEF TypeInv, ValueTypes, AliveWork, Shape
  <2>3. ByteTypes' /\ Counted'
    BY <2>1 DEF TypeInv, ByteTypes, Counted, Starters, At
  <2>. QED BY <2>2, <2>3 DEF TypeInv
<1>3. ASSUME NEW a \in Threads, CallStep(a) PROVE TypeInv'
  BY <1>3, TypeOfConnect, TypeOfDisconnect, TypeOfReceiver, TypeOfMain DEF CallStep
<1>. QED BY <1>1, <1>2, <1>3, TypeOfMain, TypeOfWorker DEF Next

LEMMA TypeInvIsTypeOK == TypeInv => TypeOK
BY DEF TypeInv, ValueTypes, AliveWork, TypeOK

(* Every variable stays in its range, and every thread at a label of its
   code, however many connections there are and whatever the application
   does with them: a receive thread has work left exactly while it is alive,
   and a connect that goes on always finds a thread to create.             *)
THEOREM TypeCorrect == Spec => []TypeOK
<1>1. Spec => []TypeInv
  BY TypeInitially, TypeSteps, PTL DEF Spec
<1>. QED BY <1>1, TypeInvIsTypeOK, PTL

-----------------------------------------------------------------------------
(* An application that waits after a disconnect, and leaves a client with  *)
(* automatic reconnects to them                                            *)

NoOpen        == \A s \in Sockets : sock[s] # "open"
Idle(a)       == todo[a] = <<>>
Connecting(a) == At(a, "flags") \/ At(a, "open") \/ At(a, "start")
NoReceiver    == \A k \in Receivers : thread[k] # "alive"

(* The receive thread that is alive is the one noxmqtt_transport_wait would
   join, and the socket it reads is the one of the transport.  Nobody
   connects while there is one, and there is none after the wait.          *)
SingleInv ==
  /\ \A k \in Receivers : thread[k] = "alive" => last_thread = k
  /\ \A k \in Receivers : todo[k] # <<>> /\ ~At(k, "loop") /\ socket_fd # NoSocket => rx[k] = socket_fd
  /\ \A a \in Threads : Connecting(a) => NoReceiver /\ wanted
  /\ ~wanted /\ ~Has(Main, "wait") => NoReceiver

(* A reconnect falls due when nothing else is going on.                    *)
DueInv == due => auto /\ wanted /\ pending /\ ~connected /\ \A a \in Threads : Idle(a)

(* Without automatic reconnects only the application connects.             *)
ManualInv ==
  ~auto => /\ ~pending
           /\ \A a \in Threads : ~byte[a][2] /\ (Connecting(a) => a = Main)

(* With them: nothing else goes on during a connect; the only socket that is
   open is the one of the transport; a connection is closed before its loss
   is announced; and no reconnect is pending while a socket is open, unless
   a thread is about to close it.                                          *)
AutoInv ==
  auto =>
    /\ \A l : Has(Main, l) => l \in {"flags", "open", "start", "hello", "close", "unset"}
    /\ ~wanted => ~connected /\ ~pending /\ NoOpen /\ \A a \in Threads : Idle(a)
    /\ \A a \in Threads : Connecting(a) =>
         /\ ~connected /\ ~pending
         /\ At(a, "start") \/ NoOpen
         /\ \A b \in Threads : b # a => Idle(b)
    /\ \A s \in Sockets : sock[s] = "open" => s = socket_fd
    /\ \A a \in Threads : At(a, "unset") \/ At(a, "notify") => NoOpen
    /\ pending \/ (\E a \in Threads : byte[a][2]) => NoOpen \/ \E a \in Threads : Has(a, "close")
    /\ ~(connected /\ pending) /\ \A a \in Threads : ~(byte[a][1] /\ byte[a][2])

TransportInv == TypeInv /\ SingleInv /\ DueInv /\ ManualInv /\ AutoInv

(* The application leaves a client with automatic reconnects to them.      *)
Left == auto => ~DisconnectsWithAuto /\ ~EndsWithAuto

LEMMA OneConnecting ==
  ASSUME ManualInv, AutoInv, NEW a \in Threads, NEW b \in Threads, Connecting(a), Connecting(b)
  PROVE  a = b
BY DEF ManualInv, AutoInv, Connecting, Idle, At

(* Only a connect, and the thread it creates, could disturb SingleInv: a
   step that does not get to one, or finds no receiver alive, keeps it.    *)
LEMMA SingleFrame ==
  ASSUME TypeInv, SingleInv, NEW a \in Threads, NEW at, NEW new, Moves(a, at, new),
         UNCHANGED <<thread, rx, last_thread>>, wanted => wanted',
         socket_fd' \in {socket_fd, NoSocket} \/ NoReceiver,
         at \cap {"flags", "open", "start"} # {} => NoReceiver /\ wanted',
         a \in Receivers => todo[a] # <<>> /\ ~At(a, "loop"),
         a = Main => ~At(Main, "wait")
  PROVE  SingleInv'
<1>1. NoReceiver' <=> NoReceiver
  BY DEF NoReceiver
<1>2. \A k \in Receivers : thread'[k] = "alive" => last_thread' = k
  BY DEF SingleInv
<1>3. ASSUME NEW k \in Receivers, todo'[k] # <<>>, ~At(k, "loop")', socket_fd' # NoSocket
      PROVE  rx'[k] = socket_fd'
  <2>1. todo[k] # <<>> /\ ~At(k, "loop")
    <3>1. CASE k = a
      BY <3>1
    <3>2. CASE k # a
      BY <1>3, <3>2, ThreadFacts DEF Moves, At
    <3>. QED BY <3>1, <3>2
  <2>2. thread[k] = "alive"
    BY <2>1 DEF TypeInv, AliveWork
  <2>3. socket_fd' = socket_fd
    BY <1>3, <2>2 DEF NoReceiver
  <2>. QED BY <1>3, <2>1, <2>3 DEF SingleInv
<1>4. ASSUME NEW b \in Threads, Connecting(b)' PROVE NoReceiver' /\ wanted'
  <2>1. CASE b = a
    <3>1. at \cap {"flags", "open", "start"} # {}
      BY <1>4, <2>1 DEF Connecting, Moves
    <3>. QED BY <1>1, <3>1
  <2>2. CASE b # a
    <3>1. Connecting(b)
      BY <1>4, <2>2 DEF Connecting, Moves, At
    <3>. QED BY <1>1, <3>1 DEF SingleInv
  <2>. QED BY <2>1, <2>2
<1>5. ASSUME ~wanted', ~Has(Main, "wait")' PROVE NoReceiver'
  <2>1. ~Has(Main, "wait")
    <3>1. CASE a = Main
      BY <1>5, <3>1 DEF Moves
    <3>2. CASE a # Main
      BY <1>5, <3>2, ThreadFacts DEF Moves, Has
    <3>. QED BY <3>1, <3>2
  <2>. QED BY <1>1, <1>5, <2>1 DEF SingleInv
<1>. QED BY <1>2, <1>3, <1>4, <1>5 DEF SingleInv

(* Each action keeps SingleInv.                                            *)
LEMMA SingleOfConnect ==
  ASSUME TransportInv, NEW a \in Threads, ConnectStep(a)
  PROVE  SingleInv'
<1> USE DEF client, transport, world, race
<1>0. /\ TypeInv /\ SingleInv /\ Shape
      /\ \A l : At(a, l) => todo[a] # <<>> /\ (l # "loop" => ~At(a, "loop")) /\ (l # "wait" => ~At(a, "wait"))
      /\ Connecting(a) => NoReceiver /\ wanted
  BY DEF TransportInv, TypeInv, SingleInv, At
<1>1. ASSUME Flags(a) PROVE SingleInv'
  <2>1. Moves(a, {"open"}, {})
    BY <1>0, <1>1, ConnectMoves
  <2>. QED BY <1>0, <1>1, <2>1, SingleFrame DEF Flags, Connecting
<1>2. ASSUME Open(a) PROVE SingleInv'
  <2>1. Moves(a, {"start"}, {"start"})
    BY <1>0, <1>2, ConnectMoves
  <2>. QED BY <1>0, <1>2, <2>1, SingleFrame DEF Open, Connecting
<1>3. ASSUME OpenFails(a) PROVE SingleInv'
  <2>1. Moves(a, {}, {})
    BY <1>0, <1>3, ConnectMoves
  <2>. QED BY <1>0, <1>3, <2>1, SingleFrame DEF OpenFails
<1>4. ASSUME StartFails(a) PROVE SingleInv'
  <2>1. Moves(a, {}, {"close", "unset"})
    BY <1>0, <1>4, ConnectMoves
  <2>. QED BY <1>0, <1>4, <2>1, SingleFrame DEF StartFails
<1>5. ASSUME Hello(a) PROVE SingleInv'
  <2>1. Moves(a, {}, {})
    BY <1>0, <1>5, ConnectMoves
  <2>. QED BY <1>0, <1>5, <2>1, SingleFrame DEF Hello
<1>6. ASSUME HelloFails(a) PROVE SingleInv'
  <2>1. Moves(a, {}, {"close", "unset"})
    BY <1>0, <1>6, ConnectMoves
  <2>. QED BY <1>0, <1>6, <2>1, SingleFrame DEF HelloFails
<1>7. ASSUME Start(a) PROVE SingleInv'
  <2>0. PICK k : k = First(Unused(thread))
    OBVIOUS
  <2>1. /\ k \in Receivers /\ k # a /\ thread[k] = "none" /\ todo[k] = <<>>
        /\ thread' = [thread EXCEPT ![k] = "alive"]
        /\ Shape' /\ todo'[k] = <<"loop">> /\ At(k, "loop")' /\ At(a, "hello")'
        /\ \A b \in Threads : b # a /\ b # k => todo'[b] = todo[b]
        /\ \A l : Has(a, l)' => Has(a, l) \/ l = "hello"
        /\ \A l : Has(a, l) => l = "start" \/ Has(a, l)'
    BY <1>0, <1>7, <2>0, StartIs
  <2>2. last_thread' = k /\ rx' = rx /\ socket_fd' = socket_fd /\ wanted' = wanted /\ At(a, "start")
    BY <1>7, <2>0 DEF Start
  <2>3. Connecting(a) /\ NoReceiver /\ wanted
    BY <1>0, <2>2 DEF Connecting
  <2>4. \A j \in Receivers : thread'[j] = "alive" => last_thread' = j
    BY <1>0, <2>1, <2>2, <2>3 DEF NoReceiver, TypeInv, ValueTypes
  <2>5. \A j \in Receivers : todo'[j] # <<>> /\ ~At(j, "loop")' /\ socket_fd' # NoSocket => rx'[j] = socket_fd'
    <3>1. \A j \in Receivers : todo[j] = <<>>
      BY <1>0, <2>3 DEF NoReceiver, TypeInv, AliveWork
    <3>2. a \notin Receivers
      BY <2>2, <3>1 DEF At
    <3>. QED BY <2>1, <3>1, <3>2, ThreadFacts
  <2>6. \A b \in Threads : ~Connecting(b)'
    <3>1. ASSUME NEW b \in Threads, Connecting(b)' PROVE FALSE
      <4>1. b # a /\ b # k
        BY <2>1, <3>1 DEF Connecting, At
      <4>2. Connecting(b)
        BY <2>1, <3>1, <4>1 DEF Connecting, At
      <4>. QED BY <2>3, <4>1, <4>2, OneConnecting DEF TransportInv
    <3>. QED BY <3>1
  <2>. QED BY <2>2, <2>3, <2>4, <2>5, <2>6 DEF SingleInv
<1>. QED BY <1>1, <1>2, <1>3, <1>4, <1>5, <1>6, <1>7 DEF ConnectStep

LEMMA SingleOfDisconnect ==
  ASSUME TransportInv, NEW a \in Threads, DisconnectStep(a) \/ LoadStatus(a) \/ StoreStatus(a)
  PROVE  SingleInv'
<1> USE DEF client, transport, world, race
<1>0. /\ TypeInv /\ SingleInv /\ Shape
      /\ \A l : At(a, l) => todo[a] # <<>> /\ (l # "loop" => ~At(a, "loop")) /\ (l # "wait" => ~At(a, "wait"))
  BY DEF TransportInv, TypeInv, At
<1>1. ASSUME Bye(a) PROVE SingleInv'
  <2>1. Moves(a, {}, {}) \/ Moves(a, {}, {"close", "unset"})
    BY <1>0, <1>1, DisconnectMoves
  <2>. QED BY <1>0, <1>1, <2>1, SingleFrame DEF Bye
<1>2. ASSUME Stop(a) PROVE SingleInv'
  <2>1. Moves(a, {}, {})
    BY <1>0, <1>2, DisconnectMoves
  <2>. QED BY <1>0, <1>2, <2>1, SingleFrame DEF Stop
<1>3. ASSUME Close(a) PROVE SingleInv'
  <2>1. Moves(a, {"unset", "notify"}, {})
    BY <1>0, <1>3, CloseMoves
  <2>. QED BY <1>0, <1>3, <2>1, SingleFrame DEF Close
<1>4. ASSUME Unset(a) PROVE SingleInv'
  <2>1. Moves(a, {"notify"}, {})
    BY <1>0, <1>4, DisconnectMoves
  <2>. QED BY <1>0, <1>4, <2>1, SingleFrame DEF Unset
<1>5. ASSUME Reset(a) PROVE SingleInv'
  <2>1. Moves(a, {}, {})
    BY <1>0, <1>5, DisconnectMoves
  <2>. QED BY <1>0, <1>5, <2>1, SingleFrame DEF Reset
<1>6. ASSUME NotifyDisconnected(a) PROVE SingleInv'
  <2>1. Moves(a, {}, {})
    BY <1>0, <1>6, DisconnectMoves
  <2>. QED BY <1>0, <1>6, <2>1, SingleFrame DEF NotifyDisconnected, DropSession
<1>7. ASSUME LoadStatus(a) PROVE SingleInv'
  <2>1. Moves(a, {}, {})
    BY <1>0, <1>7, DisconnectMoves
  <2>. QED BY <1>0, <1>7, <2>1, SingleFrame DEF LoadStatus
<1>8. ASSUME StoreStatus(a) PROVE SingleInv'
  <2>1. Moves(a, {}, {})
    BY <1>0, <1>8, DisconnectMoves
  <2>. QED BY <1>0, <1>8, <2>1, SingleFrame DEF StoreStatus
<1>. QED BY <1>1, <1>2, <1>3, <1>4, <1>5, <1>6, <1>7, <1>8 DEF DisconnectStep

LEMMA SingleOfReceiver ==
  ASSUME TransportInv, NEW k \in Receivers, ReceiverStep(k)
  PROVE  SingleInv'
<1> USE DEF client, transport, world, race
<1>0. /\ TypeInv /\ SingleInv /\ Shape /\ k \in Threads /\ k # Main
      /\ \A l : At(k, l) => todo[k] # <<>> /\ (l # "loop" => ~At(k, "loop"))
  BY ThreadFacts DEF TransportInv, TypeInv, At
<1>1. ASSUME RecvConnack(k) PROVE SingleInv'
  <2>1. Moves(k, {}, {"connack", "process", "loop"})
    BY <1>0, <1>1, ReceiverMoves
  <2>. QED BY <1>0, <1>1, <2>1, SingleFrame DEF RecvConnack
<1>2. ASSUME RecvDisconnect(k) PROVE SingleInv'
  <2>1. Moves(k, {}, {"disconnect_packet", "process", "loop"})
    BY <1>0, <1>2, ReceiverMoves
  <2>. QED BY <1>0, <1>2, <2>1, SingleFrame DEF RecvDisconnect
<1>3. ASSUME RecvOther(k) PROVE SingleInv'
  <2>1. Moves(k, {}, {"load", "store", "close", "unset", "process", "loop"})
    BY <1>0, <1>3, ReceiverMoves
  <2>. QED BY <1>0, <1>3, <2>1, SingleFrame DEF RecvOther
<1>4. ASSUME RecvEof(k) PROVE SingleInv'
  <2>1. Moves(k, {}, {"stop", "close", "unset", "notify", "exit"})
    BY <1>0, <1>4, ReceiverMoves
  <2>. QED BY <1>0, <1>4, <2>1, SingleFrame DEF RecvEof
<1>5. ASSUME RecvError(k) PROVE SingleInv'
  <2>1. Moves(k, {}, {"stop", "close", "unset", "notify", "loop"})
    BY <1>0, <1>5, ReceiverMoves
  <2>. QED BY <1>0, <1>5, <2>1, SingleFrame DEF RecvError
<1>6. ASSUME HandleConnack(k) PROVE SingleInv'
  <2>1. Moves(k, {}, {}) \/ Moves(k, {}, {"close", "unset"})
    BY <1>0, <1>6, ReceiverMoves
  <2>. QED BY <1>0, <1>6, <2>1, SingleFrame DEF HandleConnack
<1>7. ASSUME HandleDisconnectPacket(k) PROVE SingleInv'
  <2>1. Moves(k, {}, {"stop", "close", "unset"})
    BY <1>0, <1>7, ReceiverMoves
  <2>. QED BY <1>0, <1>7, <2>1, SingleFrame DEF HandleDisconnectPacket, DropSession
<1>8. ASSUME ReceiverProcesses(k) PROVE SingleInv'
  <2>1. ~Reconnects(k)
    BY <1>0, <1>8 DEF TransportInv, DueInv, Idle, ReceiverProcesses, Reconnects
  <2>2. \E new : Moves(k, {}, new)
    BY <1>0, <1>8, <2>1, ProcessMoves DEF Tends
  <2>. QED BY <1>0, <1>8, <2>2, SingleFrame DEF ReceiverProcesses
<1>9. ASSUME NEW l \in {"loop", "exit"}, At(k, l), Proceed(k),
             thread' = [thread EXCEPT ![k] = "done"], UNCHANGED <<last_thread, rx, socket_fd, wanted>>
      PROVE  SingleInv'
  <2>1. todo'[k] = <<>> /\ \A b \in Threads : b # k => todo'[b] = todo[b]
    BY <1>0, <1>9, EndIs
  <2>2. \A j \in Receivers : thread'[j] = "alive" => thread[j] = "alive"
    BY <1>0, <1>9 DEF TypeInv, ValueTypes
  <2>3. NoReceiver => NoReceiver'
    BY <2>2 DEF NoReceiver
  <2>4. \A b \in Threads : Connecting(b)' => Connecting(b)
    BY <2>1 DEF Connecting, At
  <2>5. \A j \in Receivers : todo'[j] # <<>> => todo'[j] = todo[j]
    BY <2>1, ThreadFacts
  <2>6. Has(Main, "wait")' <=> Has(Main, "wait")
    BY <1>0, <2>1, ThreadFacts DEF Has
  <2>. QED BY <1>0, <1>9, <2>2, <2>3, <2>4, <2>5, <2>6 DEF SingleInv, At
<1>10. ASSUME Exit(k) PROVE SingleInv'
  BY <1>9, <1>10 DEF Exit
<1>11. ASSUME Loop(k) PROVE SingleInv'
  <2>1. CASE running
    <3>1. /\ Moves(k, {}, {"recv"}) /\ At(k, "recv")' /\ rx' = [rx EXCEPT ![k] = socket_fd]
          /\ UNCHANGED <<thread, last_thread, socket_fd, wanted>> /\ At(k, "loop")
      BY <1>0, <1>11, <2>1, ReceiverMoves DEF Loop
    <3>2. \A j \in Receivers : thread'[j] = "alive" => last_thread' = j
      BY <1>0, <3>1 DEF SingleInv
    <3>3. \A j \in Receivers : todo'[j] # <<>> /\ ~At(j, "loop")' /\ socket_fd' # NoSocket => rx'[j] = socket_fd'
      BY <1>0, <3>1, ThreadFacts DEF SingleInv, Moves, At, TypeInv, ValueTypes
    <3>4. \A b \in Threads : Connecting(b)' => Connecting(b)
      BY <3>1 DEF Connecting, At, Moves
    <3>5. Has(Main, "wait")' <=> Has(Main, "wait")
      BY <1>0, <3>1, ThreadFacts DEF Has, Moves
    <3>. QED BY <1>0, <3>1, <3>2, <3>3, <3>4, <3>5 DEF SingleInv, NoReceiver
  <2>2. CASE ~running
    BY <1>9, <1>11, <2>2 DEF Loop
  <2>. QED BY <2>1, <2>2
<1>. QED BY <1>1, <1>2, <1>3, <1>4, <1>5, <1>6, <1>7, <1>8, <1>10, <1>11 DEF ReceiverStep

LEMMA SingleOfMain ==
  ASSUME TransportInv, Waits, Left, MainStep \/ Connect \/ Disconnect \/ Shutdown
  PROVE  SingleInv'
<1> USE DEF client, transport, world, race
<1>0. /\ TypeInv /\ SingleInv /\ Shape /\ Main \in Threads /\ Main \notin Receivers
      /\ \A l : At(Main, l) /\ l # "wait" => ~At(Main, "wait")
      /\ todo[Main] = <<>> => ~At(Main, "wait") /\ \A l : ~Has(Main, l)
  <2>1. \A l : ~In(<<>>, l)
    BY DEF In
  <2>. QED BY <2>1, ThreadFacts DEF TransportInv, TypeInv, At, Has
<1>1. ASSUME StopWorker PROVE SingleInv'
  <2>1. Moves(Main, {}, {})
    BY <1>0, <1>1, MainMoves
  <2>. QED BY <1>0, <1>1, <2>1, SingleFrame DEF StopWorker
<1>2. ASSUME JoinWorker PROVE SingleInv'
  <2>1. Moves(Main, {}, {})
    BY <1>0, <1>2, MainMoves
  <2>. QED BY <1>0, <1>2, <2>1, SingleFrame DEF JoinWorker
<1>3. ASSUME Free PROVE SingleInv'
  <2>1. Moves(Main, {}, {})
    BY <1>0, <1>3, MainMoves
  <2>. QED BY <1>0, <1>3, <2>1, SingleFrame DEF Free
<1>4. ASSUME Deinit PROVE SingleInv'
  <2>1. Moves(Main, {}, Ending \cup {"free"})
    BY <1>0, <1>4, MainMoves
  <2>. QED BY <1>0, <1>4, <2>1, SingleFrame DEF Deinit
<1>5. ASSUME Connect PROVE SingleInv'
  <2>1. Moves(Main, {"flags"}, {"flags", "open"})
    BY <1>0, <1>5, MainMoves
  <2>2. NoReceiver
    BY <1>0, <1>5 DEF Connect, SingleInv
  <2>. QED BY <1>0, <1>5, <2>1, <2>2, SingleFrame DEF Connect
<1>6. ASSUME Disconnect \/ Shutdown PROVE SingleInv'
  <2>1. (\E new : Moves(Main, {}, new)) /\ Has(Main, "wait")'
    BY <1>0, <1>6, MainMoves
  <2>2. /\ UNCHANGED <<thread, last_thread, rx, socket_fd>> /\ ~wanted'
        /\ ~auto /\ todo[Main] = <<>>
    BY <1>6 DEF Disconnect, Shutdown, MayDisconnect, Left, TransportInv, TypeInv, ValueTypes
  <2>3. \A b \in Threads : b # Main => ~Connecting(b)
    BY <2>2 DEF TransportInv, ManualInv
  <2>4. \A b \in Threads : ~Connecting(b)'
    BY <2>1, <2>3 DEF Moves, Connecting, At
  <2>5. \A j \in Receivers : todo'[j] = todo[j]
    BY <2>1, ThreadFacts DEF Moves
  <2>. QED BY <1>0, <2>1, <2>2, <2>4, <2>5 DEF SingleInv, At
<1>7. ASSUME TransportWait PROVE SingleInv'
  <2>1. /\ Moves(Main, {}, {}) /\ At(Main, "wait") /\ last_thread' = 0
        /\ last_thread # 0 => thread[last_thread] = "done"
        /\ UNCHANGED <<thread, rx, socket_fd, wanted>>
    BY <1>0, <1>7, MainMoves DEF TransportWait
  <2>2. NoReceiver /\ NoReceiver'
    BY <1>0, <2>1, ThreadFacts DEF SingleInv, NoReceiver
  <2>3. \A b \in Threads : Connecting(b)' => Connecting(b)
    BY <2>1 DEF Moves, Connecting, At
  <2>4. \A j \in Receivers : todo'[j] = todo[j]
    BY <2>1, ThreadFacts DEF Moves
  <2>. QED BY <1>0, <2>1, <2>2, <2>3, <2>4 DEF SingleInv, At, NoReceiver
<1>. QED BY <1>1, <1>2, <1>3, <1>4, <1>5, <1>6, <1>7 DEF MainStep

LEMMA SingleOfWorker ==
  ASSUME TransportInv, WorkerPolls
  PROVE  SingleInv'
<1> USE DEF client, transport, world, race
<1>0. TypeInv /\ SingleInv /\ Shape /\ Worker \in Threads /\ Worker \notin Receivers /\ Worker # Main
  BY ThreadFacts DEF TransportInv, TypeInv
<1>1. Reconnects(Worker) \/ Tends(Worker)
  BY <1>0, WorkerMoves
<1>2. CASE Reconnects(Worker)
  <2>1. NoReceiver /\ wanted
    BY <1>0, <1>2, ThreadFacts DEF Reconnects, TransportInv, DueInv, Idle, TypeInv, AliveWork, NoReceiver
  <2>2. Moves(Worker, {"flags"}, {"flags", "open"})
    BY <1>2 DEF Reconnects
  <2>. QED BY <1>0, <2>1, <2>2, SingleFrame DEF WorkerPolls
<1>3. CASE Tends(Worker)
  <2>1. \E new : Moves(Worker, {}, new)
    BY <1>3 DEF Tends
  <2>. QED BY <1>0, <2>1, SingleFrame DEF WorkerPolls
<1>. QED BY <1>1, <1>2, <1>3

(* A reconnect falls due only while every thread is idle, and no step of a
   call makes it due.                                                      *)
LEMMA CallIsBusy ==
  ASSUME NEW a \in Threads, CallStep(a)
  PROVE  todo[a] # <<>> /\ UNCHANGED auto
<1> USE DEF At, client
<1>1. ASSUME ConnectStep(a) PROVE todo[a] # <<>> /\ UNCHANGED auto
  BY <1>1 DEF ConnectStep, Flags, Open, OpenFails, Start, StartFails, Hello, HelloFails
<1>2. ASSUME DisconnectStep(a) PROVE todo[a] # <<>> /\ UNCHANGED auto
  BY <1>2 DEF DisconnectStep, Bye, Stop, Close, Unset, Reset, NotifyDisconnected
<1>3. ASSUME LoadStatus(a) \/ StoreStatus(a) PROVE todo[a] # <<>> /\ UNCHANGED auto
  BY <1>3 DEF LoadStatus, StoreStatus
<1>4. ASSUME ReceiverStep(a) PROVE todo[a] # <<>> /\ UNCHANGED auto
  BY <1>4 DEF ReceiverStep, Loop, ReceiverProcesses, ProcessCall, Exit, RecvConnack, RecvDisconnect, RecvOther,
     RecvEof, RecvError, HandleConnack, HandleDisconnectPacket
<1>5. ASSUME a = Main, MainStep PROVE todo[a] # <<>> /\ UNCHANGED auto
  BY <1>5 DEF MainStep, TransportWait, StopWorker, JoinWorker, Deinit, Free
<1>. QED BY <1>1, <1>2, <1>3, <1>4, <1>5 DEF CallStep

(* No step of a call makes a reconnect fall due.                           *)
LEMMA CallIsNotDue ==
  ASSUME NEW a \in Threads, CallStep(a), due'
  PROVE  due
<1> USE DEF client
<1>1. ~ConnectStep(a) \/ due
  BY DEF ConnectStep, Flags, Open, OpenFails, Start, StartFails, Hello, HelloFails
<1>2. ~DisconnectStep(a) \/ due
  BY DEF DisconnectStep, Bye, Stop, Close, Unset, Reset, NotifyDisconnected, DropSession
<1>3. ~(LoadStatus(a) \/ StoreStatus(a)) \/ due
  BY DEF LoadStatus, StoreStatus
<1>4. ~ReceiverStep(a) \/ due
  BY DEF ReceiverStep, Loop, ReceiverProcesses, ProcessCall, Exit, RecvConnack, RecvDisconnect, RecvOther,
     RecvEof, RecvError, HandleConnack, HandleDisconnectPacket, DropSession
<1>5. ~MainStep \/ due
  BY DEF MainStep, TransportWait, StopWorker, JoinWorker, Deinit, Free
<1>. QED BY <1>1, <1>2, <1>3, <1>4, <1>5 DEF CallStep

(* A label that ends a call is the last one.                               *)
LEMMA LastLabel ==
  ASSUME Shape, NEW a \in Threads, NEW l, At(a, l), After(a, l) = {"nil"}, NEW m, Has(a, m)
  PROVE  m = l
<1> DEFINE q == todo[a]
           t == Tail(q)
<1>1. WellShaped(a, q) /\ q # <<>> /\ Head(q) = l
  BY AtIs
<1>2. /\ t # <<>> => Head(t) \in After(a, l) /\ Head(t) # "nil"
      /\ \A x : In(q, x) => x = l \/ In(t, x)
  BY <1>1, PopIs
<1> HIDE DEF t
<1>3. t = <<>>
  BY <1>2
<1>4. ~In(<<>>, m)
  BY DEF In
<1>. QED BY <1>2, <1>3, <1>4 DEF Has

(* While the delay before a reconnect passes, every thread comes to rest.  *)
LEMMA DelayIsQuiet ==
  ASSUME TransportInv, DelayPasses
  PROVE  auto /\ wanted /\ ~connected /\ \A a \in Threads : Idle(a)
<1>0. pending /\ Shape /\ \A a \in Threads : Blocked(a)
  BY DEF DelayPasses, TransportInv, TypeInv
<1>1. auto
  BY <1>0 DEF TransportInv, ManualInv
<1>2. wanted /\ ~connected
  BY <1>0, <1>1 DEF TransportInv, AutoInv
<1>3. ASSUME NEW a \in Threads, ~Idle(a)
      PROVE  At(a, "recv") /\ a \in Receivers /\ ~NoOpen
  <2>1. ~At(a, "wait") /\ ~At(a, "join_worker")
    <3>1. At(a, "wait") \/ At(a, "join_worker") => a = Main
      <4>1. a # Main => After(a, "wait") = {} /\ After(a, "join_worker") = {}
        BY ThreadFacts DEF After, WorkerAfter, ReceiverAfter
      <4>. QED BY <1>0, <4>1, AtIs
    <3>2. ~Has(Main, "wait") /\ ~Has(Main, "join_worker")
      BY <1>1 DEF TransportInv, AutoInv
    <3>. QED BY <1>0, <3>1, <3>2, AtIs
  <2>2. At(a, "recv") /\ rx[a] # NoSocket /\ sock[rx[a]] = "open"
    BY <1>0, <1>3, <2>1 DEF Blocked, Idle
  <2>3. a \in Receivers
    <3>1. a \notin Receivers => After(a, "recv") = {}
      BY ThreadFacts DEF After, MainAfter, WorkerAfter
    <3>. QED BY <1>0, <2>2, <3>1, AtIs
  <2>4. rx[a] \in Sockets
    BY <2>2, <2>3, ThreadFacts DEF TransportInv, TypeInv, ValueTypes
  <2>. QED BY <2>2, <2>3, <2>4 DEF NoOpen
<1>4. ASSUME NEW a \in Threads, ~Idle(a) PROVE FALSE
  <2>1. PICK c \in Threads : Has(c, "close")
    BY <1>0, <1>1, <1>3, <1>4 DEF TransportInv, AutoInv
  <2>2. ~Idle(c)
    <3>1. ~In(<<>>, "close")
      BY DEF In
    <3>. QED BY <2>1, <3>1 DEF Has, Idle
  <2>3. At(c, "recv") /\ After(c, "recv") = {"nil"}
    BY <1>3, <2>2, ThreadFacts DEF After, ReceiverAfter
  <2>. QED BY <1>0, <2>1, <2>3, LastLabel
<1>. QED BY <1>1, <1>2, <1>4

LEMMA DueSteps ==
  ASSUME TransportInv, Left, [Next]_vars
  PROVE  DueInv'
<1> USE DEF client, transport, world, race
<1>0. DueInv /\ Shape /\ ValueTypes
  BY DEF TransportInv, TypeInv
<1>1. CASE UNCHANGED vars
  BY <1>0, <1>1 DEF vars, DueInv, Idle
<1>2. CASE DelayPasses
  BY <1>2, DelayIsQuiet DEF DelayPasses, DueInv, Idle
<1>3. ASSUME NEW a \in Threads, CallStep(a) PROVE ~due'
  BY <1>0, <1>3, CallIsBusy, CallIsNotDue DEF DueInv, Idle
<1>4. CASE Connect \/ Disconnect \/ Shutdown
  BY <1>0, <1>4 DEF Connect, Disconnect, Shutdown, MayDisconnect, Left, DueInv
<1>5. CASE WorkerPolls
  <2>1. Reconnects(Worker) \/ (connected /\ Tends(Worker))
    BY <1>0, <1>5, WorkerMoves
  <2>. QED BY <1>0, <2>1 DEF Reconnects, Tends, DueInv
<1>. QED BY <1>1, <1>2, <1>3, <1>4, <1>5 DEF Next, DueInv

LEMMA ManualSteps ==
  ASSUME TransportInv, [Next]_vars
  PROVE  ManualInv'
<1> USE DEF client, transport, world, race
<1>0. /\ TypeInv /\ ManualInv /\ Shape /\ ValueTypes /\ ByteTypes /\ SingleInv /\ DueInv
      /\ \A a \in Threads : a \in Receivers => a # Main
  BY ThreadFacts DEF TransportInv, TypeInv
<1>. SUFFICES ASSUME ~auto' PROVE ManualInv'
  BY DEF ManualInv
<1>1. CASE UNCHANGED vars
  BY <1>0, <1>1 DEF vars, ManualInv, Connecting, At
<1>2. CASE DelayPasses
  BY <1>0, <1>2 DEF DelayPasses, ManualInv
<1>3. ASSUME NEW a \in Threads, NEW at, NEW new, Moves(a, at, new), ~pending',
             \A b \in Threads : ~byte'[b][2], at \cap {"flags", "open", "start"} # {} => a = Main, ~auto
      PROVE  ManualInv'
  BY <1>0, <1>3 DEF Moves, ManualInv, Connecting, At
<1>. SUFFICES ASSUME ~auto, ~pending PROVE ManualInv'
  <2>1. \A a \in Threads : CallStep(a) => UNCHANGED auto
    BY CallIsBusy
  <2>2. Connect \/ Disconnect \/ Shutdown => UNCHANGED auto
    BY DEF Connect, Disconnect, Shutdown
  <2>3. WorkerPolls => UNCHANGED auto
    BY <1>0, WorkerMoves DEF Reconnects, Tends
  <2>. QED BY <1>0, <1>1, <1>2, <2>1, <2>2, <2>3 DEF Next, ManualInv
<1>4. \A b \in Threads : ~byte[b][2] /\ (Connecting(b) => b = Main)
  BY <1>0 DEF ManualInv
<1>5. ASSUME NEW a \in Threads, ConnectStep(a) PROVE ManualInv'
  <2>1. ASSUME Flags(a) PROVE ManualInv'
    BY <1>0, <1>3, <1>4, <2>1, ConnectMoves DEF Flags, Connecting
  <2>2. ASSUME Open(a) PROVE ManualInv'
    BY <1>0, <1>3, <1>4, <2>2, ConnectMoves DEF Open, Connecting
  <2>3. ASSUME OpenFails(a) PROVE ManualInv'
    BY <1>0, <1>3, <1>4, <2>3, ConnectMoves DEF OpenFails
  <2>4. ASSUME StartFails(a) PROVE ManualInv'
    BY <1>0, <1>3, <1>4, <2>4, ConnectMoves DEF StartFails
  <2>5. ASSUME Hello(a) PROVE ManualInv'
    BY <1>0, <1>3, <1>4, <2>5, ConnectMoves DEF Hello
  <2>6. ASSUME HelloFails(a) PROVE ManualInv'
    BY <1>0, <1>3, <1>4, <2>6, ConnectMoves DEF HelloFails
  <2>7. ASSUME Start(a) PROVE ManualInv'
    <3>0. PICK k : k = First(Unused(thread))
      OBVIOUS
    <3>1. /\ k # a /\ At(k, "loop")' /\ At(a, "hello")'
          /\ \A b \in Threads : b # a /\ b # k => todo'[b] = todo[b]
      BY <1>0, <2>7, <3>0, StartIs
    <3>2. \A b \in Threads : Connecting(b)' => Connecting(b)
      BY <3>1 DEF Connecting, At
    <3>. QED BY <1>4, <2>7, <3>2 DEF Start, ManualInv
  <2>. QED BY <1>5, <2>1, <2>2, <2>3, <2>4, <2>5, <2>6, <2>7 DEF ConnectStep
<1>6. ASSUME NEW a \in Threads, DisconnectStep(a) PROVE ManualInv'
  <2>1. ASSUME Bye(a) PROVE ManualInv'
    BY <1>0, <1>3, <1>4, <2>1, DisconnectMoves DEF Bye
  <2>2. ASSUME Stop(a) PROVE ManualInv'
    BY <1>0, <1>3, <1>4, <2>2, DisconnectMoves DEF Stop
  <2>3. ASSUME Close(a) PROVE ManualInv'
    BY <1>0, <1>3, <1>4, <2>3, CloseMoves DEF Close
  <2>4. ASSUME Unset(a) PROVE ManualInv'
    BY <1>0, <1>3, <1>4, <2>4, DisconnectMoves DEF Unset
  <2>5. ASSUME Reset(a) PROVE ManualInv'
    BY <1>0, <1>3, <1>4, <2>5, DisconnectMoves DEF Reset
  <2>6. ASSUME NotifyDisconnected(a) PROVE ManualInv'
    BY <1>0, <1>3, <1>4, <2>6, DisconnectMoves DEF NotifyDisconnected, DropSession
  <2>. QED BY <1>6, <2>1, <2>2, <2>3, <2>4, <2>5, <2>6 DEF DisconnectStep
<1>7. ASSUME NEW a \in Threads, LoadStatus(a) PROVE ManualInv'
  <2>1. \A b \in Threads : ~byte'[b][2]
    BY <1>0, <1>4, <1>7 DEF LoadStatus, ByteTypes
  <2>. QED BY <1>0, <1>3, <1>7, <2>1, DisconnectMoves DEF LoadStatus
<1>8. ASSUME NEW a \in Threads, StoreStatus(a) PROVE ManualInv'
  <2>1. \A b \in Threads : ~byte'[b][2]
    BY <1>0, <1>4, <1>8 DEF StoreStatus, ByteTypes
  <2>2. ~pending'
    BY <1>4, <1>8 DEF StoreStatus
  <2>. QED BY <1>0, <1>3, <1>8, <2>1, <2>2, DisconnectMoves DEF StoreStatus
<1>9. ASSUME NEW k \in Receivers, ReceiverStep(k) PROVE ManualInv'
  <2>0. k \in Threads
    BY ThreadFacts
  <2>1. ASSUME RecvConnack(k) \/ RecvDisconnect(k) \/ RecvOther(k) \/ RecvEof(k) \/ RecvError(k) PROVE ManualInv'
    <3>1. \E new : Moves(k, {}, new)
      BY <1>0, <2>1, ReceiverMoves
    <3>2. UNCHANGED <<client, race>>
      BY <2>1 DEF RecvConnack, RecvDisconnect, RecvOther, RecvEof, RecvError
    <3>. QED BY <1>3, <1>4, <2>0, <3>1, <3>2
  <2>2. ASSUME HandleConnack(k) \/ HandleDisconnectPacket(k) PROVE ManualInv'
    <3>1. \E new : Moves(k, {}, new)
      BY <1>0, <2>2, ReceiverMoves
    <3>2. ~pending' /\ UNCHANGED <<auto, race>>
      BY <2>2 DEF HandleConnack, HandleDisconnectPacket, DropSession
    <3>. QED BY <1>3, <1>4, <2>0, <3>1, <3>2
  <2>3. ASSUME ReceiverProcesses(k) PROVE ManualInv'
    <3>1. UNCHANGED client /\ \E new : Moves(k, {}, new)
      BY <1>0, <2>3, ProcessMoves DEF Reconnects, Tends
    <3>2. UNCHANGED race
      BY <2>3 DEF ReceiverProcesses
    <3>. QED BY <1>3, <1>4, <2>0, <3>1, <3>2
  <2>4. ASSUME NEW l \in {"loop", "exit"}, At(k, l), Proceed(k), UNCHANGED client, UNCHANGED race PROVE ManualInv'
    <3>1. \A b \in Threads : Connecting(b)' => Connecting(b)
      BY <1>0, <2>4, EndIs DEF Connecting, At
    <3>. QED BY <1>4, <2>4, <3>1 DEF ManualInv
  <2>5. ASSUME Exit(k) PROVE ManualInv'
    BY <2>4, <2>5 DEF Exit
  <2>6. ASSUME Loop(k) PROVE ManualInv'
    <3>1. CASE running
      BY <1>0, <1>3, <1>4, <2>0, <2>6, <3>1, ReceiverMoves DEF Loop
    <3>2. CASE ~running
      BY <2>4, <2>6, <3>2 DEF Loop
    <3>. QED BY <3>1, <3>2
  <2>. QED BY <1>9, <2>1, <2>2, <2>3, <2>5, <2>6 DEF ReceiverStep
<1>10. ASSUME MainStep \/ Connect \/ Disconnect \/ Shutdown PROVE ManualInv'
  <2>1. \E at, new : Moves(Main, at, new)
    BY <1>0, <1>10, MainMoves DEF MainStep
  <2>2. UNCHANGED <<client, race>>
    BY <1>10 DEF MainStep, TransportWait, StopWorker, JoinWorker, Deinit, Free, Connect, Disconnect, Shutdown
  <2>. QED BY <1>3, <1>4, <2>1, <2>2, ThreadFacts
<1>11. ASSUME WorkerPolls PROVE ManualInv'
  <2>1. UNCHANGED client /\ \E new : Moves(Worker, {}, new)
    BY <1>0, <1>11, WorkerMoves DEF Reconnects, Tends
  <2>2. UNCHANGED race
    BY <1>11 DEF WorkerPolls
  <2>. QED BY <1>3, <1>4, <2>1, <2>2, ThreadFacts
<1>. QED BY <1>1, <1>2, <1>5, <1>6, <1>7, <1>8, <1>9, <1>10, <1>11 DEF Next, CallStep

(* Thread a goes on, or ends its call.                                     *)
Advances(a, at, new) ==
  /\ \A b \in Threads : b # a => todo'[b] = todo[b]
  /\ \A l \in {"flags", "open", "start", "unset", "notify"} : At(a, l)' => l \in at
  /\ \A l : Has(a, l)' => Has(a, l) \/ l \in new
  /\ Has(a, "close") => At(a, "close") \/ Has(a, "close")'

LEMMA MovesAdvances ==
  ASSUME NEW a, NEW at, NEW new, Moves(a, at, new)
  PROVE  Advances(a, at, new)
BY DEF Moves, Advances

LEMMA EndAdvances ==
  ASSUME Shape, NEW k \in Receivers, NEW l \in {"loop", "exit"}, At(k, l), Proceed(k)
  PROVE  Advances(k, {}, {})
<1>1. k \in Threads /\ todo'[k] = <<>> /\ \A b \in Threads : b # k => todo'[b] = todo[b]
  BY EndIs, ThreadFacts
<1>2. \A m : ~In(<<>>, m)
  BY DEF In
<1>3. After(k, l) = {"nil"}
  BY ThreadFacts DEF After, ReceiverAfter
<1>4. ~Has(k, "close")
  BY <1>1, <1>3, LastLabel
<1>. QED BY <1>1, <1>2, <1>4 DEF Advances, Has, At

ConnectLabels == {"flags", "open", "start", "hello", "close", "unset"}
MayReconnect == pending \/ \E a \in Threads : byte[a][2]
Consistent == ~(connected /\ pending) /\ \A a \in Threads : ~(byte[a][1] /\ byte[a][2])

(* What a step has to keep for AutoInv, when it opens no connection.       *)
LEMMA AutoFrame ==
  ASSUME TransportInv, NEW a \in Threads, NEW at, NEW new, Advances(a, at, new), todo[a] # <<>>,
         at \cap {"flags", "open", "start"} = {}, a = Main => new \subseteq ConnectLabels,
         UNCHANGED <<auto, wanted>>,
         auto => \A s \in Sockets : sock'[s] = "open" => s = socket_fd',
         auto /\ NoOpen => NoOpen',
         auto /\ (at # {} \/ At(a, "close")) => NoOpen',
         auto /\ MayReconnect' => MayReconnect \/ NoOpen' \/ Has(a, "close")',
         auto => Consistent'
  PROVE  AutoInv'
<1> SUFFICES ASSUME auto PROVE AutoInv'
  BY DEF AutoInv
<1>1. /\ \A l : Has(Main, l) => l \in {"flags", "open", "start", "hello", "close", "unset"}
      /\ ~wanted => ~connected /\ ~pending /\ NoOpen /\ \A b \in Threads : Idle(b)
      /\ \A b \in Threads : Connecting(b) =>
           /\ ~connected /\ ~pending
           /\ At(b, "start") \/ NoOpen
           /\ \A c \in Threads : c # b => Idle(c)
      /\ \A s \in Sockets : sock[s] = "open" => s = socket_fd
      /\ \A b \in Threads : At(b, "unset") \/ At(b, "notify") => NoOpen
      /\ MayReconnect => NoOpen \/ \E b \in Threads : Has(b, "close")
  BY DEF TransportInv, AutoInv, MayReconnect
<1>2. \A l : Has(Main, l)' => l \in {"flags", "open", "start", "hello", "close", "unset"}
  <2>1. CASE a = Main
    BY <1>1, <2>1 DEF Advances, ConnectLabels
  <2>2. CASE a # Main
    BY <1>1, <2>2, ThreadFacts DEF Advances, Has
  <2>. QED BY <2>1, <2>2
<1>3. wanted'
  BY <1>1 DEF Idle
<1>4. ASSUME NEW b \in Threads, Connecting(b)' PROVE FALSE
  <2>1. b # a
    BY <1>4 DEF Advances, Connecting
  <2>2. Connecting(b)
    BY <1>4, <2>1 DEF Advances, Connecting, At
  <2>. QED BY <1>1, <2>1, <2>2 DEF Idle
<1>5. ASSUME NEW b \in Threads, At(b, "unset")' \/ At(b, "notify")' PROVE NoOpen'
  <2>1. CASE b = a
    BY <1>5, <2>1 DEF Advances
  <2>2. CASE b # a
    <3>1. At(b, "unset") \/ At(b, "notify")
      BY <1>5, <2>2 DEF Advances, At
    <3>. QED BY <1>1, <3>1
  <2>. QED BY <2>1, <2>2
<1>6. MayReconnect' => NoOpen' \/ \E b \in Threads : Has(b, "close")'
  <2> SUFFICES ASSUME MayReconnect', ~NoOpen', ~Has(a, "close")' PROVE \E b \in Threads : Has(b, "close")'
    OBVIOUS
  <2>1. PICK b \in Threads : Has(b, "close")
    BY <1>1
  <2>2. b # a
    BY <2>1 DEF Advances
  <2>3. Has(b, "close")'
    BY <2>1, <2>2 DEF Advances, Has
  <2>. QED BY <2>3
<1>. QED BY <1>2, <1>3, <1>4, <1>5, <1>6 DEF AutoInv, MayReconnect, Consistent

(* What a step that leaves these variables alone leaves as it was.         *)
LEMMA AutoSame ==
  ASSUME TransportInv, UNCHANGED <<connected, pending, byte, sock, socket_fd>>
  PROVE  /\ auto => \A s \in Sockets : sock'[s] = "open" => s = socket_fd'
         /\ NoOpen => NoOpen'
         /\ MayReconnect' => MayReconnect
         /\ auto => Consistent'
BY DEF TransportInv, AutoInv, NoOpen, MayReconnect, Consistent

(* A step that leaves alone what AutoInv is about.                         *)
LEMMA AutoQuiet ==
  ASSUME TransportInv, NEW a \in Threads, NEW new, Advances(a, {}, new), todo[a] # <<>>,
         ~At(a, "close"), a = Main => new \subseteq ConnectLabels,
         UNCHANGED <<auto, wanted, connected, pending, byte, sock, socket_fd>>
  PROVE  AutoInv'
BY AutoSame, AutoFrame

LEMMA EmptyByte ==
  ASSUME NEW p, p = <<FALSE, FALSE>>
  PROVE  ~p[1] /\ ~p[2]
<1>1. p[1] = FALSE /\ p[2] = FALSE
  OBVIOUS
<1>. QED BY <1>1

(* Each action keeps AutoInv.                                              *)
LEMMA AutoOfConnect ==
  ASSUME TransportInv, NEW a \in Threads, ConnectStep(a)
  PROVE  AutoInv'
<1> USE DEF client, transport, world, race
<1>0. /\ TypeInv /\ Shape /\ SingleInv /\ ValueTypes /\ ByteTypes
      /\ \A l : At(a, l) => todo[a] # <<>> /\ (l # "close" => ~At(a, "close"))
  BY DEF TransportInv, TypeInv, At
<1>1. ASSUME NEW at, NEW new, Moves(a, at, new), at \in {{"open"}, {"start"}}, a = Main => new \subseteq ConnectLabels,
             Connecting(a), ~connected', ~pending', UNCHANGED <<auto, byte, wanted>>,
             auto => At(a, "start")' \/ NoOpen',
             auto => \A s \in Sockets : sock'[s] = "open" => s = socket_fd'
      PROVE  AutoInv'
  <2> SUFFICES ASSUME auto PROVE AutoInv'
    BY <1>1 DEF AutoInv
  <2>1. /\ Advances(a, at, new) /\ wanted /\ wanted' /\ \A b \in Threads : b # a => Idle(b)
    BY <1>0, <1>1, MovesAdvances DEF TransportInv, AutoInv, SingleInv
  <2>2. \A b \in Threads : b # a => Idle(b)' /\ ~At(b, "unset")' /\ ~At(b, "notify")' /\ ~Connecting(b)'
    BY <2>1 DEF Advances, Idle, At, Connecting
  <2>3. ~At(a, "unset")' /\ ~At(a, "notify")'
    BY <1>1, <2>1 DEF Advances
  <2>4. \A l : Has(Main, l)' => l \in {"flags", "open", "start", "hello", "close", "unset"}
    <3>1. \A l : Has(Main, l) => l \in {"flags", "open", "start", "hello", "close", "unset"}
      BY DEF TransportInv, AutoInv
    <3>2. CASE a = Main
      BY <1>1, <2>1, <3>1, <3>2 DEF Advances, ConnectLabels
    <3>3. CASE a # Main
      BY <2>1, <3>1, <3>3, ThreadFacts DEF Advances, Has
    <3>. QED BY <3>2, <3>3
  <2>5. \A b \in Threads : byte'[b] = <<FALSE, FALSE>>
    <3>1. \A b \in Threads : ~At(b, "store")
      BY <1>1, <2>1 DEF Idle, At, Connecting
    <3>. QED BY <1>0, <1>1, <3>1 DEF ByteTypes
  <2>6. \A b \in Threads : ~byte'[b][1] /\ ~byte'[b][2]
    BY <2>5, EmptyByte
  <2>. QED BY <1>1, <2>1, <2>2, <2>3, <2>4, <2>6 DEF AutoInv
<1>2. ASSUME Flags(a) PROVE AutoInv'
  <2>1. Moves(a, {"open"}, {}) /\ Connecting(a)
    BY <1>0, <1>2, ConnectMoves DEF Flags, Connecting
  <2>2. auto => NoOpen
    BY <1>2 DEF Flags, Connecting, TransportInv, AutoInv, At
  <2>3. auto => \A s \in Sockets : sock[s] = "open" => s = socket_fd
    BY DEF TransportInv, AutoInv
  <2>4. {"open"} \in {{"open"}, {"start"}} /\ {} \subseteq ConnectLabels
    OBVIOUS
  <2>. QED BY <1>1, <1>2, <2>1, <2>2, <2>3, <2>4 DEF Flags, NoOpen
<1>3. ASSUME Open(a) PROVE AutoInv'
  <2>1. Moves(a, {"start"}, {"start"}) /\ At(a, "start")' /\ Connecting(a) /\ At(a, "open")
    BY <1>0, <1>3, ConnectMoves DEF Open, Connecting
  <2>2. PICK s : s = First(Unused(sock)) /\ s \in Sockets
    BY <1>0, <1>3, OpenCounts
  <2>3. sock' = [sock EXCEPT ![s] = "open"] /\ socket_fd' = s
    BY <1>3, <2>2 DEF Open
  <2>4. auto => NoOpen /\ ~connected /\ ~pending
    BY <2>1 DEF Connecting, TransportInv, AutoInv, At
  <2>5. auto => \A t \in Sockets : sock'[t] = "open" => t = socket_fd'
    BY <1>0, <2>2, <2>3, <2>4 DEF NoOpen, ValueTypes
  <2>6. {"start"} \in {{"open"}, {"start"}} /\ {"start"} \subseteq ConnectLabels
    BY DEF ConnectLabels
  <2>7. UNCHANGED <<auto, connected, pending, byte, wanted>>
    BY <1>3 DEF Open
  <2> SUFFICES ASSUME auto PROVE AutoInv'
    BY <2>7 DEF AutoInv
  <2>. QED BY <1>1, <2>1, <2>4, <2>5, <2>6, <2>7
<1>4. ASSUME OpenFails(a) PROVE AutoInv'
  <2>1. Advances(a, {}, {})
    BY <1>0, <1>4, ConnectMoves, MovesAdvances
  <2>. QED BY <1>0, <1>4, <2>1, AutoQuiet DEF OpenFails
<1>5. ASSUME StartFails(a) PROVE AutoInv'
  <2>1. Advances(a, {}, {"close", "unset"})
    BY <1>0, <1>5, ConnectMoves, MovesAdvances
  <2>. QED BY <1>0, <1>5, <2>1, AutoQuiet DEF StartFails, ConnectLabels
<1>6. ASSUME Hello(a) PROVE AutoInv'
  <2>1. Advances(a, {}, {})
    BY <1>0, <1>6, ConnectMoves, MovesAdvances
  <2>. QED BY <1>0, <1>6, <2>1, AutoQuiet DEF Hello
<1>7. ASSUME HelloFails(a) PROVE AutoInv'
  <2>1. Advances(a, {}, {"close", "unset"})
    BY <1>0, <1>7, ConnectMoves, MovesAdvances
  <2>. QED BY <1>0, <1>7, <2>1, AutoQuiet DEF HelloFails, ConnectLabels
<1>8. ASSUME Start(a) PROVE AutoInv'
  <2>0. PICK k : k = First(Unused(thread))
    OBVIOUS
  <2>1. /\ k \in Receivers /\ k # a /\ todo[k] = <<>>
        /\ todo'[k] = <<"loop">> /\ At(k, "loop")' /\ At(a, "hello")'
        /\ \A b \in Threads : b # a /\ b # k => todo'[b] = todo[b]
        /\ \A l : Has(a, l)' => Has(a, l) \/ l = "hello"
    BY <1>0, <1>8, <2>0, StartIs
  <2>2. At(a, "start") /\ UNCHANGED <<auto, wanted, connected, pending, byte, sock, socket_fd>>
    BY <1>8 DEF Start
  <2> SUFFICES ASSUME auto PROVE AutoInv'
    BY <2>2 DEF AutoInv
  <2>3. /\ wanted /\ ~connected /\ ~pending /\ \A b \in Threads : b # a => Idle(b)
    BY <1>0, <2>2 DEF TransportInv, AutoInv, SingleInv, Connecting
  <2>4. \A b \in Threads : ~Connecting(b)' /\ ~At(b, "unset")' /\ ~At(b, "notify")'
    BY <2>1, <2>3 DEF Connecting, At, Idle
  <2>5. \A l : Has(Main, l)' => l \in {"flags", "open", "start", "hello", "close", "unset"}
    <3>1. \A l : Has(Main, l) => l \in {"flags", "open", "start", "hello", "close", "unset"}
      BY DEF TransportInv, AutoInv
    <3>2. CASE a = Main
      BY <2>1, <3>1, <3>2
    <3>3. CASE a # Main
      BY <2>1, <3>1, <3>3, ThreadFacts DEF Has
    <3>. QED BY <3>2, <3>3
  <2>6. \A b \in Threads : byte'[b] = <<FALSE, FALSE>>
    <3>1. \A b \in Threads : ~At(b, "store")
      BY <2>2, <2>3 DEF Idle, At
    <3>. QED BY <1>0, <2>2, <3>1 DEF ByteTypes
  <2>7. \A b \in Threads : ~byte'[b][1] /\ ~byte'[b][2]
    BY <2>6, EmptyByte
  <2>8. \A s \in Sockets : sock'[s] = "open" => s = socket_fd'
    BY <2>2 DEF TransportInv, AutoInv
  <2>. QED BY <2>2, <2>3, <2>4, <2>5, <2>7, <2>8 DEF AutoInv
<1>. QED BY <1>2, <1>3, <1>4, <1>5, <1>6, <1>7, <1>8 DEF ConnectStep

LEMMA AutoOfDisconnect ==
  ASSUME TransportInv, NEW a \in Threads, DisconnectStep(a) \/ LoadStatus(a) \/ StoreStatus(a)
  PROVE  AutoInv'
<1> USE DEF client, transport, world, race
<1>0. /\ TypeInv /\ Shape /\ ValueTypes /\ ByteTypes
      /\ \A l : At(a, l) => todo[a] # <<>> /\ (l # "close" => ~At(a, "close"))
      /\ {"close", "unset"} \subseteq ConnectLabels
  BY DEF TransportInv, TypeInv, At, ConnectLabels
<1>1. ASSUME auto
      PROVE  /\ \A s \in Sockets : sock[s] = "open" => s = socket_fd
             /\ \A b \in Threads : At(b, "unset") \/ At(b, "notify") => NoOpen
             /\ Consistent
  BY <1>1 DEF TransportInv, AutoInv, Consistent
<1>2. ASSUME Bye(a) PROVE AutoInv'
  <2>1. Advances(a, {}, {}) \/ Advances(a, {}, {"close", "unset"})
    BY <1>0, <1>2, DisconnectMoves, MovesAdvances
  <2>. QED BY <1>0, <1>2, <2>1, AutoQuiet DEF Bye
<1>3. ASSUME Stop(a) PROVE AutoInv'
  <2>1. Advances(a, {}, {})
    BY <1>0, <1>3, DisconnectMoves, MovesAdvances
  <2>. QED BY <1>0, <1>3, <2>1, AutoQuiet DEF Stop
<1>4. ASSUME Close(a) PROVE AutoInv'
  <2>1. Advances(a, {"unset", "notify"}, {})
    BY <1>0, <1>4, CloseMoves, MovesAdvances
  <2>2. auto => NoOpen'
    BY <1>0, <1>1, <1>4, ThreadFacts DEF Close, NoOpen, ValueTypes
  <2>3. /\ UNCHANGED <<auto, wanted, connected, pending, byte, socket_fd>>
        /\ auto => \A s \in Sockets : sock'[s] = "open" => s = socket_fd'
        /\ MayReconnect' => MayReconnect
        /\ auto => Consistent'
    BY <1>1, <1>4, <2>2 DEF Close, NoOpen, MayReconnect, Consistent
  <2>4. todo[a] # <<>>
    BY <1>0, <1>4 DEF Close
  <2>. QED BY <1>0, <2>1, <2>2, <2>3, <2>4, AutoFrame
<1>5. ASSUME Unset(a) PROVE AutoInv'
  <2>1. Advances(a, {"notify"}, {})
    BY <1>0, <1>5, DisconnectMoves, MovesAdvances
  <2>2. auto => NoOpen /\ NoOpen'
    BY <1>1, <1>5 DEF Unset, NoOpen
  <2>3. /\ UNCHANGED <<auto, wanted, connected, pending, byte, sock>>
        /\ auto => \A s \in Sockets : sock'[s] = "open" => s = socket_fd'
        /\ MayReconnect' => MayReconnect
        /\ auto => Consistent'
    BY <1>1, <1>5, <2>2 DEF Unset, NoOpen, MayReconnect, Consistent
  <2>4. todo[a] # <<>>
    BY <1>0, <1>5 DEF Unset
  <2>. QED BY <1>0, <2>1, <2>2, <2>3, <2>4, AutoFrame
<1>6. ASSUME Reset(a) \/ NotifyDisconnected(a) PROVE AutoInv'
  <2>1. Advances(a, {}, {})
    BY <1>0, <1>6, DisconnectMoves, MovesAdvances
  <2>2. /\ UNCHANGED <<auto, wanted, byte, sock, socket_fd>> /\ ~connected'
        /\ pending' => NotifyDisconnected(a)
    BY <1>6 DEF Reset, NotifyDisconnected, DropSession
  <2>3. /\ auto => \A s \in Sockets : sock'[s] = "open" => s = socket_fd'
        /\ NoOpen => NoOpen'
        /\ auto => Consistent'
    BY <1>1, <2>2 DEF NoOpen, Consistent
  <2>4. auto /\ MayReconnect' => MayReconnect \/ NoOpen'
    <3>1. NotifyDisconnected(a) => At(a, "notify")
      BY DEF NotifyDisconnected
    <3>. QED BY <1>1, <2>2, <2>3, <3>1 DEF MayReconnect
  <2>5. todo[a] # <<>> /\ ~At(a, "close")
    BY <1>0, <1>6 DEF Reset, NotifyDisconnected
  <2>. QED BY <1>0, <2>1, <2>2, <2>3, <2>4, <2>5, AutoFrame
<1>7. ASSUME LoadStatus(a) PROVE AutoInv'
  <2>1. Advances(a, {}, {})
    BY <1>0, <1>7, DisconnectMoves, MovesAdvances
  <2>2. UNCHANGED <<auto, wanted, connected, pending, sock, socket_fd>>
    BY <1>7 DEF LoadStatus
  <2>3. \A b \in Threads : byte'[b] = IF b = a THEN <<connected, pending>> ELSE byte[b]
    BY <1>0, <1>7 DEF LoadStatus, ByteTypes
  <2>4. byte'[a][1] = connected /\ byte'[a][2] = pending
    BY <2>3
  <2>5. /\ auto => \A s \in Sockets : sock'[s] = "open" => s = socket_fd'
        /\ NoOpen => NoOpen'
    BY <1>1, <2>2 DEF NoOpen
  <2>6. auto => Consistent'
    BY <1>1, <2>2, <2>3, <2>4 DEF Consistent
  <2>7. MayReconnect' => MayReconnect
    BY <2>2, <2>3, <2>4 DEF MayReconnect
  <2>8. todo[a] # <<>> /\ ~At(a, "close")
    BY <1>0, <1>7 DEF LoadStatus
  <2>. QED BY <1>0, <2>1, <2>2, <2>5, <2>6, <2>7, <2>8, AutoFrame
<1>8. ASSUME StoreStatus(a) PROVE AutoInv'
  <2>1. Advances(a, {}, {})
    BY <1>0, <1>8, DisconnectMoves, MovesAdvances
  <2>2. UNCHANGED <<auto, wanted, sock, socket_fd>> /\ connected' = byte[a][1] /\ pending' = byte[a][2]
    BY <1>8 DEF StoreStatus
  <2>3. \A b \in Threads : byte'[b] = IF b = a THEN <<FALSE, FALSE>> ELSE byte[b]
    BY <1>0, <1>8 DEF StoreStatus, ByteTypes
  <2>4. ~byte'[a][1] /\ ~byte'[a][2]
    BY <2>3, EmptyByte
  <2>5. /\ auto => \A s \in Sockets : sock'[s] = "open" => s = socket_fd'
        /\ NoOpen => NoOpen'
    BY <1>1, <2>2 DEF NoOpen
  <2>6. auto => Consistent'
    BY <1>1, <2>2, <2>3, <2>4 DEF Consistent
  <2>7. MayReconnect' => MayReconnect
    BY <2>2, <2>3, <2>4 DEF MayReconnect
  <2>8. todo[a] # <<>> /\ ~At(a, "close")
    BY <1>0, <1>8 DEF StoreStatus
  <2>. QED BY <1>0, <2>1, <2>2, <2>5, <2>6, <2>7, <2>8, AutoFrame
<1>. QED BY <1>2, <1>3, <1>4, <1>5, <1>6, <1>7, <1>8 DEF DisconnectStep

LEMMA AutoOfReceiver ==
  ASSUME TransportInv, NEW k \in Receivers, ReceiverStep(k)
  PROVE  AutoInv'
<1> USE DEF client, transport, world, race
<1>0. /\ TypeInv /\ Shape /\ ValueTypes /\ k \in Threads /\ k # Main
      /\ \A l : At(k, l) => todo[k] # <<>> /\ (l # "close" => ~At(k, "close"))
  BY ThreadFacts DEF TransportInv, TypeInv, At
<1>1. ASSUME RecvConnack(k) \/ RecvDisconnect(k) \/ RecvOther(k) \/ RecvEof(k) \/ RecvError(k)
      PROVE  AutoInv'
  <2>1. \E new : Advances(k, {}, new)
    BY <1>0, <1>1, ReceiverMoves, MovesAdvances
  <2>2. UNCHANGED <<auto, wanted, connected, pending, byte, sock, socket_fd>> /\ At(k, "recv")
    BY <1>1 DEF RecvConnack, RecvDisconnect, RecvOther, RecvEof, RecvError
  <2>. QED BY <1>0, <2>1, <2>2, AutoQuiet
<1>2. ASSUME HandleConnack(k) \/ HandleDisconnectPacket(k) PROVE AutoInv'
  <2>1. \E new : Advances(k, {}, new)
    BY <1>0, <1>2, ReceiverMoves, MovesAdvances
  <2>2. /\ UNCHANGED <<auto, wanted, byte, sock, socket_fd>> /\ ~(connected' /\ pending')
        /\ pending' => Has(k, "close")'
    <3>1. HandleDisconnectPacket(k) => Has(k, "close")' /\ ~connected'
      BY <1>0, ReceiverMoves DEF HandleDisconnectPacket, DropSession
    <3>2. HandleConnack(k) => ~pending'
      BY DEF HandleConnack
    <3>3. UNCHANGED <<auto, wanted, byte, sock, socket_fd>>
      BY <1>2 DEF HandleConnack, HandleDisconnectPacket
    <3>. QED BY <1>2, <3>1, <3>2, <3>3
  <2>3. todo[k] # <<>> /\ ~At(k, "close")
    BY <1>0, <1>2 DEF HandleConnack, HandleDisconnectPacket
  <2>4. /\ auto => \A s \in Sockets : sock'[s] = "open" => s = socket_fd'
        /\ NoOpen => NoOpen'
        /\ auto => Consistent'
        /\ MayReconnect' => MayReconnect \/ Has(k, "close")'
    BY <2>2 DEF TransportInv, AutoInv, NoOpen, Consistent, MayReconnect
  <2>. QED BY <1>0, <2>1, <2>2, <2>3, <2>4, AutoFrame
<1>3. ASSUME ReceiverProcesses(k) PROVE AutoInv'
  <2>1. ~Reconnects(k)
    BY <1>0, <1>3 DEF TransportInv, DueInv, Idle, ReceiverProcesses, Reconnects
  <2>2. UNCHANGED client /\ \E new : Advances(k, {}, new)
    BY <1>0, <1>3, <2>1, ProcessMoves, MovesAdvances DEF Tends
  <2>. QED BY <1>0, <1>3, <2>2, AutoQuiet DEF ReceiverProcesses
<1>4. ASSUME Exit(k) PROVE AutoInv'
  <2>1. Advances(k, {}, {})
    BY <1>0, <1>4, EndAdvances DEF Exit
  <2>. QED BY <1>0, <1>4, <2>1, AutoQuiet DEF Exit
<1>5. ASSUME Loop(k) PROVE AutoInv'
  <2>1. \E new : Advances(k, {}, new)
    <3>1. CASE running
      BY <1>0, <1>5, <3>1, ReceiverMoves, MovesAdvances
    <3>2. CASE ~running
      BY <1>0, <1>5, <3>2, EndAdvances DEF Loop
    <3>. QED BY <3>1, <3>2
  <2>. QED BY <1>0, <1>5, <2>1, AutoQuiet DEF Loop
<1>. QED BY <1>1, <1>2, <1>3, <1>4, <1>5 DEF ReceiverStep

LEMMA AutoOfMain ==
  ASSUME TransportInv, Left, MainStep \/ Connect \/ Disconnect \/ Shutdown
  PROVE  AutoInv'
<1> USE DEF client, transport, world, race
<1>0. TypeInv /\ Shape /\ ValueTypes /\ ByteTypes /\ Main \in Threads
  BY ThreadFacts DEF TransportInv, TypeInv
<1>1. ~auto \/ ~(MainStep \/ Disconnect \/ Shutdown)
  <2>1. MainStep => At(Main, "wait") \/ At(Main, "stop_worker") \/ At(Main, "join_worker")
                    \/ At(Main, "deinit") \/ At(Main, "free")
    BY DEF MainStep, TransportWait, StopWorker, JoinWorker, Deinit, Free
  <2>2. auto => \A l : Has(Main, l) => l \in {"flags", "open", "start", "hello", "close", "unset"}
    BY DEF TransportInv, AutoInv
  <2>3. MainStep => ~auto
    BY <1>0, <2>1, <2>2, AtIs
  <2>4. Disconnect \/ Shutdown => ~auto
    BY DEF Disconnect, Shutdown, Left
  <2>. QED BY <2>3, <2>4
<1>2. UNCHANGED auto
  BY DEF MainStep, TransportWait, StopWorker, JoinWorker, Deinit, Free, Connect, Disconnect, Shutdown
<1> SUFFICES ASSUME auto, Connect PROVE AutoInv'
  BY <1>1, <1>2 DEF AutoInv
<1>3. /\ wanted' /\ ~wanted /\ UNCHANGED <<connected, pending, byte, sock, socket_fd>>
      /\ Moves(Main, {"flags"}, {"flags", "open"})
  BY <1>0, MainMoves DEF Connect
<1>4. ~connected /\ ~pending /\ NoOpen /\ \A b \in Threads : Idle(b)
  BY <1>3 DEF TransportInv, AutoInv
<1>5. \A b \in Threads : b # Main => Idle(b)' /\ ~At(b, "unset")' /\ ~At(b, "notify")' /\ ~Connecting(b)'
  BY <1>3, <1>4 DEF Moves, Idle, At, Connecting
<1>6. ~At(Main, "unset")' /\ ~At(Main, "notify")'
  BY <1>3 DEF Moves
<1>7. \A l : Has(Main, l)' => l \in {"flags", "open", "start", "hello", "close", "unset"}
  <2>1. \A l : ~In(<<>>, l)
    BY DEF In
  <2>. QED BY <1>0, <1>3, <1>4, <2>1 DEF Moves, Has, Idle
<1>8. \A b \in Threads : ~byte'[b][1] /\ ~byte'[b][2]
  <2>1. \A b \in Threads : byte[b] = <<FALSE, FALSE>>
    BY <1>0, <1>4 DEF ByteTypes, Idle, At
  <2>. QED BY <1>3, <2>1, EmptyByte
<1>9. NoOpen' /\ ~connected' /\ ~pending'
  BY <1>3, <1>4 DEF NoOpen
<1>. QED BY <1>3, <1>5, <1>6, <1>7, <1>8, <1>9 DEF AutoInv, NoOpen

LEMMA AutoOfWorker ==
  ASSUME TransportInv, WorkerPolls
  PROVE  AutoInv'
<1> USE DEF client, transport, world, race
<1>0. TypeInv /\ Shape /\ ValueTypes /\ ByteTypes /\ Worker \in Threads /\ Worker # Main
  BY ThreadFacts DEF TransportInv, TypeInv
<1>1. /\ (Reconnects(Worker) \/ (connected /\ Tends(Worker))) /\ UNCHANGED auto
      /\ todo[Worker] = <<>> /\ UNCHANGED <<wanted, byte, sock, socket_fd>>
  BY <1>0, WorkerMoves DEF WorkerPolls, Reconnects, Tends
<1> SUFFICES ASSUME auto PROVE AutoInv'
  BY <1>1 DEF AutoInv, Reconnects, Tends
<1>2. /\ \A l : Has(Main, l) => l \in {"flags", "open", "start", "hello", "close", "unset"}
      /\ ~wanted => ~connected /\ ~pending
      /\ \A b \in Threads : Connecting(b) => ~connected /\ ~pending
      /\ \A s \in Sockets : sock[s] = "open" => s = socket_fd
      /\ \A b \in Threads : At(b, "unset") \/ At(b, "notify") => NoOpen
      /\ MayReconnect => NoOpen \/ \E b \in Threads : Has(b, "close")
      /\ Consistent
  BY DEF TransportInv, AutoInv, MayReconnect, Consistent
<1>3. wanted'
  BY <1>1, <1>2 DEF Reconnects
<1>4. ASSUME NEW at, NEW new, Moves(Worker, at, new), at \cap {"unset", "notify"} = {}
      PROVE  /\ \A l : Has(Main, l)' => l \in {"flags", "open", "start", "hello", "close", "unset"}
             /\ \A b \in Threads : At(b, "unset")' \/ At(b, "notify")' => NoOpen'
             /\ \A s \in Sockets : sock'[s] = "open" => s = socket_fd'
             /\ \A b \in Threads : b # Worker => (Connecting(b)' <=> Connecting(b)) /\ (Idle(b)' <=> Idle(b))
             /\ \A b \in Threads : Has(b, "close") => Has(b, "close")'
  <2>1. \A b \in Threads : b # Worker => todo'[b] = todo[b]
    BY <1>4 DEF Moves
  <2>2. ~At(Worker, "unset")' /\ ~At(Worker, "notify")'
    BY <1>4 DEF Moves
  <2>3. ~Has(Worker, "close")
    <3>1. ~In(<<>>, "close")
      BY DEF In
    <3>. QED BY <1>1, <3>1 DEF Has
  <2>4. \A l : Has(Main, l)' <=> Has(Main, l)
    BY <1>0, <2>1, ThreadFacts DEF Has
  <2>5. \A b \in Threads : Has(b, "close") => Has(b, "close")'
    BY <2>1, <2>3 DEF Has
  <2>. QED BY <1>1, <1>2, <2>1, <2>2, <2>4, <2>5 DEF At, NoOpen, Connecting, Idle
<1>5. CASE Reconnects(Worker)
  <2>1. Moves(Worker, {"flags"}, {"flags", "open"}) /\ ~connected' /\ ~pending' /\ due
    BY <1>5 DEF Reconnects
  <2>2. \A b \in Threads : Idle(b)
    BY <2>1 DEF TransportInv, DueInv
  <2>3. pending
    BY <1>5 DEF Reconnects
  <2>4. NoOpen
    <3>1. \A b \in Threads : ~Has(b, "close")
      <4>1. ~In(<<>>, "close")
        BY DEF In
      <4>. QED BY <2>2, <4>1 DEF Has, Idle
    <3>. QED BY <1>2, <2>3, <3>1 DEF MayReconnect
  <2>5. NoOpen'
    BY <1>1, <2>4 DEF NoOpen
  <2>6. {"flags"} \cap {"unset", "notify"} = {}
    OBVIOUS
  <2>7. /\ \A l : Has(Main, l)' => l \in {"flags", "open", "start", "hello", "close", "unset"}
        /\ \A b \in Threads : b # Worker => ~Connecting(b)' /\ Idle(b)'
    BY <1>4, <2>1, <2>2, <2>6 DEF Connecting, Idle, At
  <2>8. \A b \in Threads : ~byte'[b][1] /\ ~byte'[b][2]
    <3>1. \A b \in Threads : byte[b] = <<FALSE, FALSE>>
      BY <1>0, <2>2 DEF ByteTypes, Idle, At
    <3>. QED BY <1>1, <3>1, EmptyByte
  <2>. QED BY <1>3, <2>1, <2>5, <2>7, <2>8 DEF AutoInv, NoOpen
<1>6. CASE connected /\ Tends(Worker)
  <2>1. /\ Moves(Worker, {}, {"load", "store", "stop", "close", "unset", "notify"})
        /\ UNCHANGED <<connected, pending>>
    BY <1>6 DEF Tends
  <2>2. {} \cap {"unset", "notify"} = {}
    OBVIOUS
  <2>3. /\ \A l : Has(Main, l)' => l \in {"flags", "open", "start", "hello", "close", "unset"}
        /\ \A b \in Threads : At(b, "unset")' \/ At(b, "notify")' => NoOpen'
        /\ \A s \in Sockets : sock'[s] = "open" => s = socket_fd'
        /\ \A b \in Threads : b # Worker => (Connecting(b)' <=> Connecting(b)) /\ (Idle(b)' <=> Idle(b))
        /\ \A b \in Threads : Has(b, "close") => Has(b, "close")'
    BY <1>4, <2>1, <2>2
  <2>4. \A b \in Threads : ~Connecting(b)'
    <3>1. ~Connecting(Worker)'
      BY <2>1 DEF Moves, Connecting
    <3>. QED BY <1>2, <1>6, <2>3, <3>1
  <2>5. MayReconnect' => NoOpen' \/ \E b \in Threads : Has(b, "close")'
    BY <1>1, <1>2, <2>1, <2>3 DEF MayReconnect, NoOpen
  <2>6. Consistent'
    BY <1>1, <1>2, <2>1 DEF Consistent
  <2>. QED BY <1>3, <2>3, <2>4, <2>5, <2>6 DEF AutoInv, MayReconnect, Consistent
<1>. QED BY <1>1, <1>5, <1>6

LEMMA TransportInitially == Init => TransportInv
<1> SUFFICES ASSUME Init PROVE TransportInv
  OBVIOUS
<1>1. TypeInv
  BY TypeInitially
<1>2. /\ \A a \in Threads : Idle(a) /\ ~Connecting(a) /\ ~At(a, "unset") /\ ~At(a, "notify")
      /\ \A l : ~Has(Main, l)
  <2>1. \A l : ~In(<<>>, l)
    BY DEF In
  <2>. QED BY <2>1, ThreadFacts DEF Init, Idle, Connecting, At, Has
<1>3. NoReceiver /\ NoOpen
  BY DEF Init, NoReceiver, NoOpen
<1>4. /\ ~connected /\ ~pending /\ ~due
      /\ \A a \in Threads : ~byte[a][1] /\ ~byte[a][2]
  <2>1. \A a \in Threads : byte[a] = <<FALSE, FALSE>>
    BY DEF Init
  <2>. QED BY <2>1, EmptyByte DEF Init
<1>5. SingleInv
  BY <1>2, <1>3, ThreadFacts DEF SingleInv, NoReceiver, Idle
<1>6. DueInv /\ ManualInv
  BY <1>2, <1>4 DEF DueInv, ManualInv
<1>7. AutoInv
  BY <1>2, <1>3, <1>4 DEF AutoInv, NoOpen
<1>. QED BY <1>1, <1>5, <1>6, <1>7 DEF TransportInv

(* The whole invariant, and what it says of receivers.                     *)
LEMMA TransportSteps ==
  ASSUME Waits, Left, TransportInv, [Next]_vars
  PROVE  TransportInv'
<1>1. TypeInv' /\ DueInv' /\ ManualInv'
  BY TypeSteps, DueSteps, ManualSteps DEF TransportInv
<1>2. CASE UNCHANGED vars \/ DelayPasses
  <2>1. /\ UNCHANGED <<auto, connected, pending, running, socket_fd, last_thread>>
        /\ UNCHANGED <<sock, srv, todo, rx, thread, app, byte, overwritten, wanted, revived>>
    BY <1>2 DEF DelayPasses, vars, client, transport, world, race
  <2>2. SingleInv'
    BY <2>1 DEF TransportInv, SingleInv, NoReceiver, Connecting, At, Has
  <2>3. AutoInv'
    BY <2>1 DEF TransportInv, AutoInv, NoOpen, Idle, Connecting, At, Has
  <2>. QED BY <1>1, <2>2, <2>3 DEF TransportInv
<1>3. ASSUME NEW a \in Threads, CallStep(a) PROVE SingleInv' /\ AutoInv'
  <2>1. SingleInv'
    BY <1>3, SingleOfConnect, SingleOfDisconnect, SingleOfReceiver, SingleOfMain DEF CallStep
  <2>2. AutoInv'
    BY <1>3, AutoOfConnect, AutoOfDisconnect, AutoOfReceiver, AutoOfMain DEF CallStep
  <2>. QED BY <2>1, <2>2
<1>4. Connect \/ Disconnect \/ Shutdown => SingleInv' /\ AutoInv'
  BY SingleOfMain, AutoOfMain
<1>5. WorkerPolls => SingleInv' /\ AutoInv'
  BY SingleOfWorker, AutoOfWorker
<1>. QED BY <1>1, <1>2, <1>3, <1>4, <1>5 DEF Next, TransportInv

LEMMA OneIsAlive == TransportInv => OneReceiver
<1> SUFFICES ASSUME TransportInv PROVE OneReceiver
  OBVIOUS
<1> DEFINE S == {k \in Receivers : thread[k] = "alive"}
<1>1. \A k, m \in S : k = m
  BY DEF TransportInv, SingleInv
<1>2. Cardinality(S) <= 1
  <2>1. CASE S = {}
    BY <2>1, FS_EmptySet
  <2>2. CASE S # {}
    <3>1. PICK k : S = {k}
      BY <1>1, <2>2
    <3>. QED BY <3>1, FS_Singleton
  <2>. QED BY <2>1, <2>2
<1>. QED BY <1>2 DEF OneReceiver

(* Only Close closes a socket, and only the one of the transport.          *)
LEMMA OnlyCloseCloses ==
  ASSUME TypeInv, [Next]_vars, NEW s \in Sockets, sock[s] = "open", sock'[s] # "open"
  PROVE  \E a \in Threads : Close(a) /\ s = socket_fd
<1> USE DEF client, transport, world, race
<1>0. sock \in [Sockets -> {"none", "open", "closed"}]
  BY DEF TypeInv, ValueTypes
<1>1. sock' # sock
  OBVIOUS
<1>2. ASSUME NEW a \in Threads, ConnectStep(a) PROVE FALSE
  <2>1. ~Open(a)
    BY <1>0 DEF Open
  <2>. QED BY <1>1, <1>2, <2>1 DEF ConnectStep, Flags, OpenFails, Start, StartFails, Hello, HelloFails
<1>3. ASSUME NEW a \in Threads, DisconnectStep(a) PROVE Close(a) /\ s = socket_fd
  <2>1. Close(a)
    BY <1>1, <1>3 DEF DisconnectStep, Bye, Stop, Unset, Reset, NotifyDisconnected
  <2>. QED BY <1>0, <1>1, <2>1 DEF Close
<1>4. ASSUME NEW a \in Threads, LoadStatus(a) \/ StoreStatus(a) PROVE FALSE
  BY <1>1, <1>4 DEF LoadStatus, StoreStatus
<1>5. ASSUME NEW a \in Threads, ReceiverStep(a) PROVE FALSE
  BY <1>1, <1>5 DEF ReceiverStep, Loop, ReceiverProcesses, Exit, RecvConnack, RecvDisconnect, RecvOther,
     RecvEof, RecvError, HandleConnack, HandleDisconnectPacket
<1>6. ASSUME MainStep \/ Connect \/ Disconnect \/ Shutdown \/ WorkerPolls \/ DelayPasses \/ UNCHANGED vars PROVE FALSE
  BY <1>1, <1>6 DEF MainStep, TransportWait, StopWorker, JoinWorker, Deinit, Free, Connect, Disconnect, Shutdown,
     WorkerPolls, DelayPasses, vars
<1>. QED BY <1>2, <1>3, <1>4, <1>5, <1>6 DEF Next, CallStep

LEMMA ReceiverClosesItsOwn ==
  ASSUME TransportInv, [Next]_vars, NEW k \in Receivers, NEW s \in Sockets,
         At(k, "close"), todo'[k] # todo[k], sock[s] = "open"
  PROVE  sock'[s] = "open" \/ s = rx[k]
<1> SUFFICES ASSUME sock'[s] # "open" PROVE s = rx[k]
  OBVIOUS
<1>0. TypeInv /\ Shape /\ SingleInv
  BY DEF TransportInv, TypeInv
<1>1. PICK a \in Threads : Close(a) /\ s = socket_fd
  BY <1>0, OnlyCloseCloses
<1>2. Moves(a, {"unset", "notify"}, {})
  BY <1>0, <1>1, CloseMoves
<1>3. a = k
  BY <1>2, ThreadFacts DEF Moves
<1>4. todo[k] # <<>> /\ ~At(k, "loop") /\ socket_fd # NoSocket
  BY <1>1, ThreadFacts DEF At
<1>. QED BY <1>0, <1>1, <1>4 DEF SingleInv

LEMMA AutoStays == [Next]_vars => auto' = auto
<1> USE DEF client, transport, world, race
<1>1. ASSUME NEW a \in Threads, CallStep(a) PROVE auto' = auto
  <2>1. ConnectStep(a) => auto' = auto
    BY DEF ConnectStep, Flags, Open, OpenFails, Start, StartFails, Hello, HelloFails
  <2>2. DisconnectStep(a) => auto' = auto
    BY DEF DisconnectStep, Bye, Stop, Close, Unset, Reset, NotifyDisconnected
  <2>3. LoadStatus(a) \/ StoreStatus(a) => auto' = auto
    BY DEF LoadStatus, StoreStatus
  <2>4. ReceiverStep(a) => auto' = auto
    BY DEF ReceiverStep, Loop, ReceiverProcesses, ProcessCall, Exit, RecvConnack, RecvDisconnect, RecvOther,
       RecvEof, RecvError, HandleConnack, HandleDisconnectPacket
  <2>5. MainStep => auto' = auto
    BY DEF MainStep, TransportWait, StopWorker, JoinWorker, Deinit, Free
  <2>. QED BY <1>1, <2>1, <2>2, <2>3, <2>4, <2>5 DEF CallStep
<1>2. Connect \/ Disconnect \/ Shutdown \/ WorkerPolls \/ DelayPasses \/ UNCHANGED vars => auto' = auto
  BY DEF Connect, Disconnect, Shutdown, WorkerPolls, ProcessCall, DelayPasses, vars
<1>. QED BY <1>1, <1>2 DEF Next

LEMMA TransportInvariant ==
  ASSUME Waits
  PROVE  Spec => [](Left => TransportInv)
<1>1. (Left => TransportInv) /\ [Next]_vars => (Left => TransportInv)'
  BY TransportSteps, AutoStays DEF Left
<1>. QED BY <1>1, TransportInitially, PTL DEF Spec

(* However often the application connects and disconnects, and the worker
   reconnects, there are never two receive threads: not while a connection
   is being lost, nor between a disconnect and the next connect.           *)
THEOREM ReceiversDoNotMeet ==
  ASSUME Waits
  PROVE  Spec => [](Left => OneReceiver)
BY TransportInvariant, OneIsAlive, PTL

(* A receive thread that cleans up after the end of its connection closes
   the socket it was reading, whoever else is closing, or has closed, it.  *)
THEOREM ReceiversCloseTheirOwn ==
  ASSUME Waits, ~DisconnectsWithAuto, ~EndsWithAuto
  PROVE  Spec => ClosesOnlyItsOwn
<1>1. (Left => TransportInv) /\ [Next]_vars
        => [\A k \in Receivers, s \in Sockets :
              At(k, "close") /\ todo'[k] # todo[k] /\ sock[s] = "open"
                => sock'[s] = "open" \/ s = rx[k]]_vars
  BY ReceiverClosesItsOwn DEF Left
<1>. QED BY <1>1, TransportInvariant, PTL DEF Spec, ClosesOnlyItsOwn

(* A client without automatic reconnects stays disconnected once the
   application has disconnected it.                                        *)
THEOREM ManualDisconnectIsFinal ==
  ASSUME Waits, ~DisconnectsWithAuto, ~EndsWithAuto
  PROVE  Spec => DisconnectIsFinal
<1>1. (Left => TransportInv) => (~wanted => ~\E a \in Threads : Open(a))
  BY DEF Left, TransportInv, SingleInv, Open, Connecting
<1>2. (Left => TransportInv) /\ [Next]_vars
        => [~wanted /\ todo[Main] = <<>> => ~\E a \in Threads : Open(a)]_vars
  BY <1>1
<1>. QED BY <1>2, TransportInvariant, PTL DEF Spec, DisconnectIsFinal

-----------------------------------------------------------------------------
(* The end of the application                                              *)

(* Its last call waits for the receive thread, then asks the worker to stop
   and joins it, then frees the client; each part is over when the next
   begins.                                                                 *)
QuietInv ==
  /\ app # "running" => ~wanted /\ ~Has(Main, "wait")
  /\ Has(Main, "stop_worker") => ~wanted
  /\ Has(Main, "join_worker") => Has(Main, "stop_worker") \/ app # "running"
  /\ Has(Main, "deinit") => Has(Main, "join_worker") \/ (Idle(Worker) /\ app # "running")
  /\ Has(Main, "free") \/ app = "freed" => Idle(Worker) /\ app # "running"

(* The order of the parts.                                                 *)
LEMMA MainOrder ==
  ASSUME Shape, NEW m, Has(Main, m)
  PROVE  /\ At(Main, "deinit") => m = "deinit"
         /\ At(Main, "join_worker") => m \in {"join_worker", "deinit"}
         /\ At(Main, "stop_worker") => m \in {"stop_worker", "join_worker", "deinit"}
<1>0. /\ After(Main, "deinit") = {"nil"} /\ After(Main, "join_worker") = {"deinit"}
      /\ After(Main, "stop_worker") = {"join_worker"}
  BY DEF After, MainAfter
<1>1. ASSUME NEW q, WellShaped(Main, q), q # <<>>, NEW x, In(q, x)
      PROVE  /\ x = Head(q) \/ In(Tail(q), x)
             /\ WellShaped(Main, Tail(q))
             /\ \/ /\ Tail(q) # <<>> /\ Head(Tail(q)) # "nil"
                   /\ Head(Tail(q)) \in After(Main, Head(q))
                \/ Tail(q) = <<>>
  BY <1>1, PopIs
<1>2. \A x : ~In(<<>>, x)
  BY DEF In
<1>3. ASSUME NEW q, WellShaped(Main, q), q # <<>>, Head(q) = "deinit", NEW x, In(q, x)
      PROVE  x = "deinit"
  <2>1. Tail(q) = <<>>
    BY <1>0, <1>1, <1>3
  <2>. QED BY <1>1, <1>2, <1>3, <2>1
<1>4. ASSUME NEW q, WellShaped(Main, q), q # <<>>, Head(q) = "join_worker", NEW x, In(q, x)
      PROVE  x \in {"join_worker", "deinit"}
  <2>1. Tail(q) # <<>> => Head(Tail(q)) = "deinit" /\ WellShaped(Main, Tail(q))
    BY <1>0, <1>1, <1>4
  <2>2. In(Tail(q), x) => x = "deinit"
    BY <1>2, <1>3, <2>1
  <2>. QED BY <1>1, <1>4, <2>2
<1>5. ASSUME NEW q, WellShaped(Main, q), q # <<>>, Head(q) = "stop_worker", NEW x, In(q, x)
      PROVE  x \in {"stop_worker", "join_worker", "deinit"}
  <2>1. Tail(q) # <<>> => Head(Tail(q)) = "join_worker" /\ WellShaped(Main, Tail(q))
    BY <1>0, <1>1, <1>5
  <2>2. In(Tail(q), x) => x \in {"join_worker", "deinit"}
    BY <1>2, <1>4, <2>1
  <2>. QED BY <1>1, <1>5, <2>2
<1>6. \A l : At(Main, l) => WellShaped(Main, todo[Main]) /\ todo[Main] # <<>> /\ Head(todo[Main]) = l
  BY AtIs, ThreadFacts
<1>. QED BY <1>3, <1>4, <1>5, <1>6 DEF Has

(* The steps of other threads, and those of a connect or a disconnect, end
   none of the parts.                                                      *)
LEMMA CallStays ==
  ASSUME TypeInv, NEW a \in Threads, CallStep(a), ~(a = Main /\ MainStep)
  PROVE  /\ UNCHANGED <<app, wanted, auto>>
         /\ \A l \in {"wait", "stop_worker", "join_worker", "deinit", "free"} : Has(Main, l)' <=> Has(Main, l)
         /\ a # Worker => (Idle(Worker)' <=> Idle(Worker))
<1> USE DEF client, transport, world, race
<1> DEFINE Parts == {"wait", "stop_worker", "join_worker", "deinit", "free"}
<1>0. Shape /\ Main \in Threads /\ Worker \in Threads /\ Main # Worker /\ Main \notin Receivers
      /\ Worker \notin Receivers
  BY ThreadFacts DEF TypeInv
<1>1. UNCHANGED <<app, wanted, auto>>
  <2>1. ConnectStep(a) => UNCHANGED <<app, wanted>>
    BY DEF ConnectStep, Flags, Open, OpenFails, Start, StartFails, Hello, HelloFails
  <2>2. DisconnectStep(a) => UNCHANGED <<app, wanted>>
    BY DEF DisconnectStep, Bye, Stop, Close, Unset, Reset, NotifyDisconnected
  <2>3. LoadStatus(a) \/ StoreStatus(a) => UNCHANGED <<app, wanted>>
    BY DEF LoadStatus, StoreStatus
  <2>4. ReceiverStep(a) => UNCHANGED <<app, wanted>>
    BY DEF ReceiverStep, Loop, ReceiverProcesses, Exit, RecvConnack, RecvDisconnect, RecvOther,
       RecvEof, RecvError, HandleConnack, HandleDisconnectPacket
  <2>. QED BY <2>1, <2>2, <2>3, <2>4, CallIsBusy DEF CallStep
<1>2. ASSUME NEW at, NEW new, Moves(a, at, new), new \cap Parts = {}, a = Main => \A l \in Parts : ~At(Main, l)
      PROVE  /\ \A l \in Parts : Has(Main, l)' <=> Has(Main, l)
             /\ a # Worker => (Idle(Worker)' <=> Idle(Worker))
  <2>1. CASE a = Main
    BY <1>0, <1>2, <2>1 DEF Moves, Idle
  <2>2. CASE a # Main
    BY <1>0, <1>2, <2>2 DEF Moves, Idle, Has
  <2>. QED BY <2>1, <2>2
<1>3. ASSUME NEW b \in Threads, b # Main, \A c \in Threads : c # b => todo'[c] = todo[c], a = b
      PROVE  /\ \A l \in Parts : Has(Main, l)' <=> Has(Main, l)
             /\ a # Worker => (Idle(Worker)' <=> Idle(Worker))
  BY <1>0, <1>3 DEF Idle, Has
<1>4. /\ \A l \in Parts : ~(l \in {"close", "unset", "start"})
      /\ \A l, m : At(a, l) /\ At(a, m) => l = m
  BY DEF At
<1>5. ASSUME ConnectStep(a)
      PROVE  /\ \A l \in Parts : Has(Main, l)' <=> Has(Main, l)
             /\ a # Worker => (Idle(Worker)' <=> Idle(Worker))
  <2>1. CASE Start(a)
    <3>0. PICK k : k = First(Unused(thread))
      OBVIOUS
    <3>1. /\ k \in Receivers /\ k # a
          /\ \A b \in Threads : b # a /\ b # k => todo'[b] = todo[b]
          /\ \A l : Has(a, l)' => Has(a, l) \/ l = "hello"
          /\ \A l : Has(a, l) => l = "start" \/ Has(a, l)'
      BY <2>1, <3>0, StartIs
    <3>. QED BY <1>0, <3>1 DEF Has, Idle
  <2>2. CASE ~Start(a)
    <3>1. \E at, new : Moves(a, at, new) /\ new \cap Parts = {}
      <4>1. {"start"} \cap Parts = {} /\ {"close", "unset"} \cap Parts = {} /\ {} \cap Parts = {}
        OBVIOUS
      <4>. QED BY <1>0, <1>5, <2>2, <4>1, ConnectMoves DEF ConnectStep
    <3>2. \E l \in {"flags", "open", "hello", "start"} : At(a, l)
      BY <1>5 DEF ConnectStep, Flags, Open, OpenFails, Start, StartFails, Hello, HelloFails
    <3>3. \A l \in Parts : ~At(a, l)
      BY <1>4, <3>2
    <3>. QED BY <1>2, <3>1, <3>3
  <2>. QED BY <2>1, <2>2
<1>6. ASSUME DisconnectStep(a) \/ LoadStatus(a) \/ StoreStatus(a)
      PROVE  /\ \A l \in Parts : Has(Main, l)' <=> Has(Main, l)
             /\ a # Worker => (Idle(Worker)' <=> Idle(Worker))
  <2>1. \E at, new : Moves(a, at, new) /\ new \cap Parts = {}
    <3>1. {"close", "unset"} \cap Parts = {} /\ {} \cap Parts = {}
      OBVIOUS
    <3>. QED BY <1>0, <1>6, <3>1, DisconnectMoves, CloseMoves DEF DisconnectStep
  <2>2. \E l \in {"bye", "stop", "close", "unset", "reset", "notify", "load", "store"} : At(a, l)
    BY <1>6 DEF DisconnectStep, Bye, Stop, Close, Unset, Reset, NotifyDisconnected, LoadStatus, StoreStatus
  <2>3. \A l \in Parts : ~At(a, l)
    BY <1>4, <2>2
  <2>. QED BY <1>2, <2>1, <2>3
<1>7. ASSUME a \in Receivers, ReceiverStep(a)
      PROVE  /\ \A l \in Parts : Has(Main, l)' <=> Has(Main, l)
             /\ a # Worker => (Idle(Worker)' <=> Idle(Worker))
  <2>1. \A c \in Threads : c # a => todo'[c] = todo[c]
    <3>1. todo \in [Threads -> Seq(Label)]
      BY <1>0 DEF Shape
    <3>2. \E q : todo' = [todo EXCEPT ![a] = q]
      BY <1>7 DEF ReceiverStep, Loop, ReceiverProcesses, ProcessCall, Exit, RecvConnack, RecvDisconnect, RecvOther,
         RecvEof, RecvError, HandleConnack, HandleDisconnectPacket, Goto, Proceed
    <3>. QED BY <3>1, <3>2
  <2>. QED BY <1>0, <1>3, <1>7, <2>1
<1>. QED BY <1>1, <1>5, <1>6, <1>7 DEF CallStep

(* The application goes through its shutdown in order, and no other thread
   changes where it is.                                                    *)
LEMMA QuietOfMain ==
  ASSUME TypeInv, QuietInv, MainStep \/ Connect \/ Disconnect \/ Shutdown
  PROVE  QuietInv'
<1> USE DEF client, transport, world, race
<1>0. /\ TypeInv /\ Shape /\ ValueTypes /\ Main \in Threads /\ Worker \in Threads /\ Worker # Main
      /\ \A l : At(Main, l) => Has(Main, l)
      /\ \A l, m : At(Main, l) /\ At(Main, m) => l = m
  <2>1. TypeInv /\ Shape /\ ValueTypes /\ Main \in Threads /\ Worker \in Threads /\ Worker # Main
    BY ThreadFacts DEF TypeInv
  <2>2. \A l : At(Main, l) => Has(Main, l)
    BY <2>1, AtIs
  <2>. QED BY <2>1, <2>2 DEF At
<1>1. ASSUME NEW at, NEW new, Moves(Main, at, new)
      PROVE  /\ Idle(Worker)' <=> Idle(Worker)
             /\ \A l : Has(Main, l)' => Has(Main, l) \/ l \in new
             /\ \A l \in {"wait", "stop_worker", "join_worker", "deinit", "free"} :
                  Has(Main, l) => At(Main, l) \/ Has(Main, l)'
  BY <1>0, <1>1 DEF Moves, Idle
<1>2. ASSUME TransportWait PROVE QuietInv'
  <2>1. Moves(Main, {}, {}) /\ At(Main, "wait") /\ UNCHANGED <<app, wanted, auto>>
    BY <1>0, <1>2, MainMoves DEF TransportWait
  <2>. QED BY <1>0, <1>1, <2>1 DEF QuietInv
<1>3. ASSUME StopWorker PROVE QuietInv'
  <2>1. Moves(Main, {}, {}) /\ At(Main, "stop_worker") /\ UNCHANGED <<wanted, auto>> /\ app' = "stopping"
    BY <1>0, <1>3, MainMoves DEF StopWorker
  <2>2. ~Has(Main, "wait") /\ ~Has(Main, "free")
    BY <1>0, <2>1, MainOrder
  <2>. QED BY <1>0, <1>1, <2>1, <2>2 DEF QuietInv
<1>4. ASSUME JoinWorker PROVE QuietInv'
  <2>1. /\ Moves(Main, {}, {}) /\ At(Main, "join_worker") /\ UNCHANGED <<app, wanted, auto>> /\ Idle(Worker)
    BY <1>0, <1>4, MainMoves DEF JoinWorker, Idle
  <2>2. ~Has(Main, "stop_worker")
    BY <1>0, <2>1, MainOrder
  <2>. QED BY <1>0, <1>1, <2>1, <2>2 DEF QuietInv
<1>5. ASSUME Deinit PROVE QuietInv'
  <2>1. /\ Moves(Main, {}, Ending \cup {"free"}) /\ At(Main, "deinit") /\ UNCHANGED <<app, wanted, auto>>
    BY <1>0, <1>5, MainMoves DEF Deinit
  <2>2. ~Has(Main, "join_worker") /\ ~Has(Main, "stop_worker") /\ ~Has(Main, "wait")
    BY <1>0, <2>1, MainOrder
  <2>3. \A l \in {"wait", "stop_worker", "join_worker", "deinit"} : l \notin Ending \cup {"free"}
    BY DEF Ending
  <2>. QED BY <1>0, <1>1, <2>1, <2>2, <2>3 DEF QuietInv
<1>6. ASSUME Free PROVE QuietInv'
  <2>1. Moves(Main, {}, {}) /\ At(Main, "free") /\ UNCHANGED <<wanted, auto>> /\ app' = "freed"
    BY <1>0, <1>6, MainMoves DEF Free
  <2>. QED BY <1>0, <1>1, <2>1 DEF QuietInv
<1>7. todo[Main] = <<>> => \A l : ~Has(Main, l)
  <2>1. \A l : ~In(<<>>, l)
    BY DEF In
  <2>. QED BY <2>1 DEF Has
<1>8. ASSUME Connect PROVE QuietInv'
  <2>1. /\ Moves(Main, {"flags"}, {"flags", "open"}) /\ todo[Main] = <<>> /\ app' = "running"
    BY <1>0, <1>8, MainMoves DEF Connect
  <2>. QED BY <1>1, <1>7, <2>1 DEF QuietInv
<1>9. ASSUME Disconnect PROVE QuietInv'
  <2>1. /\ Moves(Main, {}, Ending \cup {"wait"}) /\ todo[Main] = <<>> /\ app' = "running"
    BY <1>0, <1>9, MainMoves DEF Disconnect, MayDisconnect
  <2>2. \A l \in {"stop_worker", "join_worker", "deinit", "free"} : l \notin Ending \cup {"wait"}
    BY DEF Ending
  <2>. QED BY <1>1, <1>7, <2>1, <2>2 DEF QuietInv
<1>10. ASSUME Shutdown PROVE QuietInv'
  <2>1. /\ Moves(Main, {}, Ending \cup {"wait", "stop_worker", "join_worker", "deinit"})
        /\ Has(Main, "stop_worker")' /\ Has(Main, "join_worker")'
        /\ todo[Main] = <<>> /\ app' = "running" /\ ~wanted'
    BY <1>0, <1>10, MainMoves DEF Shutdown, MayDisconnect
  <2>2. "free" \notin Ending \cup {"wait", "stop_worker", "join_worker", "deinit"}
    BY DEF Ending
  <2>. QED BY <1>1, <1>7, <2>1, <2>2 DEF QuietInv
<1>. QED BY <1>2, <1>3, <1>4, <1>5, <1>6, <1>8, <1>9, <1>10 DEF MainStep

LEMMA QuietSteps ==
  ASSUME TypeInv, QuietInv, [Next]_vars
  PROVE  QuietInv'
<1> USE DEF client, transport, world, race
<1>0. TypeInv /\ Shape /\ Main \in Threads /\ Worker \in Threads /\ Worker # Main
  BY ThreadFacts DEF TypeInv
<1>1. CASE UNCHANGED vars \/ DelayPasses
  <2>1. UNCHANGED <<app, wanted, auto, todo>>
    BY <1>1 DEF vars, DelayPasses
  <2>. QED BY <2>1 DEF QuietInv, Has, Idle
<1>2. ASSUME NEW a \in Threads, CallStep(a), ~(a = Main /\ MainStep) PROVE QuietInv'
  <2>1. /\ UNCHANGED <<app, wanted, auto>>
        /\ \A l \in {"wait", "stop_worker", "join_worker", "deinit", "free"} : Has(Main, l)' <=> Has(Main, l)
        /\ a # Worker => (Idle(Worker)' <=> Idle(Worker))
    BY <1>0, <1>2, CallStays
  <2>2. a = Worker => ~Idle(Worker)
    BY <1>2, CallIsBusy DEF Idle
  <2>3. Idle(Worker) => Idle(Worker)'
    BY <2>1, <2>2
  <2>. QED BY <2>1, <2>3 DEF QuietInv
<1>3. CASE WorkerPolls
  <2>1. app = "running" /\ app' = "running" /\ wanted' = wanted
    BY <1>3 DEF WorkerPolls
  <2>2. auto' = auto /\ \E at, new : Moves(Worker, at, new)
    BY <1>0, <1>3, WorkerMoves DEF Reconnects, Tends
  <2>3. \A l : Has(Main, l)' <=> Has(Main, l)
    BY <1>0, <2>2 DEF Moves, Has
  <2>. QED BY <2>1, <2>2, <2>3 DEF QuietInv
<1>. QED BY <1>1, <1>2, <1>3, QuietOfMain DEF Next

LEMMA QuietInvariant == Spec => [](TypeInv /\ QuietInv)
<1>1. Init => QuietInv
  <2>1. \A l : ~In(<<>>, l)
    BY DEF In
  <2>. QED BY <2>1, ThreadFacts DEF Init, QuietInv, Has, Idle
<1>2. TypeInv /\ QuietInv /\ [Next]_vars => TypeInv' /\ QuietInv'
  BY QuietSteps, TypeSteps
<1>. QED BY <1>1, <1>2, TypeInitially, PTL DEF Spec

(* noxmqtt_deinit frees the client when the worker has been joined,
   whatever the worker was doing when the application decided to stop and
   whether or not the client reconnects by itself.                         *)
THEOREM WorkerIsJoined == Spec => [](app = "freed" => todo[Worker] = <<>>)
<1>1. TypeInv /\ QuietInv => (app = "freed" => todo[Worker] = <<>>)
  BY DEF QuietInv, Idle
<1>. QED BY <1>1, QuietInvariant, PTL

(* A client without automatic reconnects is freed when no thread is inside
   the library, the receive thread having ended as well.  (With them,
   FreedWhenQuiet has an exemption the runs find to be needed.)            *)
THEOREM FreedAtRest ==
  ASSUME Waits
  PROVE  Spec => [](~auto => FreedWhenQuiet)
<1>1. ASSUME TypeInv, QuietInv, Left => TransportInv PROVE ~auto => FreedWhenQuiet
  <2> SUFFICES ASSUME ~auto, app = "freed"
               PROVE  todo[Worker] = <<>> /\ \A k \in Receivers : todo[k] = <<>>
    BY DEF FreedWhenQuiet
  <2>1. Idle(Worker) /\ ~wanted /\ ~Has(Main, "wait")
    BY <1>1 DEF QuietInv
  <2>2. NoReceiver
    BY <1>1, <2>1 DEF Left, TransportInv, SingleInv
  <2>. QED BY <1>1, <2>1, <2>2 DEF TypeInv, AliveWork, NoReceiver, Idle
<1>. QED BY <1>1, QuietInvariant, TransportInvariant, PTL
=============================================================================
