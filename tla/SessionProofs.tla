--------------------------- MODULE SessionProofs ---------------------------
(***************************************************************************)
(* Theorems about Session, for every width of the clock, every keepalive   *)
(* and every polling interval, and for two callers of process: type        *)
(* correctness, that the keepalive is kept, that a timeout is real and     *)
(* that a scheduled reconnect is attempted in time.  The clock wraps       *)
(* round, so most of the arithmetic is modulo ClockMod.                    *)
(***************************************************************************)
EXTENDS Session, Integers, TLAPS

-----------------------------------------------------------------------------
(* Lemmas about the clock                                                  *)

LEMMA ClockType == Clock \subseteq Nat /\ 0 \in Clock /\ Unset \notin Clock
BY SessionAssumption DEF Clock

(* A number is its remainder and whole rounds.                             *)
LEMMA ModSplit ==
  ASSUME NEW x \in Nat
  PROVE  /\ x % ClockMod \in Clock
         /\ \E k \in Int : x = (x % ClockMod) + k * ClockMod
<1>1. x % ClockMod \in Clock
  BY SessionAssumption DEF Clock
<1>2. x = (x % ClockMod) + (x \div ClockMod) * ClockMod /\ x \div ClockMod \in Int
  BY SessionAssumption
<1>. QED BY <1>1, <1>2

(* The only multiple of c strictly between -c and c is 0.                  *)
LEMMA MultipleBelow ==
  ASSUME NEW c \in Nat \ {0}, NEW z \in Int, z * c < c, 0 - c < z * c
  PROVE  z = 0
<1>1. CASE z >= 1
  <2>1. z * c >= c
    BY <1>1
  <2>. QED BY <2>1
<1>2. CASE z <= 0 - 1
  <2>1. z * c <= 0 - c
    BY <1>2
  <2>. QED BY <2>1
<1>. QED BY <1>1, <1>2

(* A clock reading that differs from a number by whole rounds is its
   remainder.                                                              *)
LEMMA ModUnique ==
  ASSUME NEW x \in Nat, NEW r \in Clock, NEW k \in Int, x = r + k * ClockMod
  PROVE  x % ClockMod = r
<1>1. PICK j \in Int : x = (x % ClockMod) + j * ClockMod
  BY ModSplit
<1>2. x % ClockMod \in Clock
  BY ModSplit
<1>3. (k - j) * ClockMod = (x % ClockMod) - r
  BY <1>1, <1>2, SessionAssumption DEF Clock
<1>4. k - j = 0
  BY <1>2, <1>3, MultipleBelow, SessionAssumption DEF Clock
<1>. QED BY <1>1, <1>2, <1>3, <1>4, SessionAssumption DEF Clock

LEMMA ModSmall ==
  ASSUME NEW x \in Clock
  PROVE  x % ClockMod = x
<1>1. x \in Nat /\ x = x + 0 * ClockMod
  BY SessionAssumption DEF Clock
<1>. QED BY <1>1, ModUnique

(* A remainder is no larger than the number.                               *)
LEMMA ModBelow ==
  ASSUME NEW x \in Nat
  PROVE  x % ClockMod \in Clock /\ x % ClockMod <= x
<1>1. CASE x < ClockMod
  BY <1>1, ModSmall, SessionAssumption DEF Clock
<1>2. CASE ~(x < ClockMod)
  <2>1. x % ClockMod \in Clock
    BY ModSplit
  <2>. QED BY <1>2, <2>1, SessionAssumption DEF Clock
<1>. QED BY <1>1, <1>2

(* n ticks after the reading s the clock shows t.                          *)
Shows(s, n, t) == (s + n) % ClockMod = t

LEMMA ShowsItself ==
  ASSUME NEW s \in Clock
  PROVE  Shows(s, 0, s)
<1>1. s + 0 = s
  BY SessionAssumption DEF Clock
<1>. QED BY <1>1, ModSmall DEF Shows

LEMMA ShowsNext ==
  ASSUME NEW s \in Clock, NEW n \in Nat, NEW t \in Clock, Shows(s, n, t)
  PROVE  Shows(s, n + 1, (t + 1) % ClockMod)
<1>1. s \in Nat /\ t \in Nat
  BY SessionAssumption DEF Clock
<1>2. PICK k \in Int : s + n = t + k * ClockMod
  BY <1>1, ModSplit DEF Shows
<1>3. PICK j \in Int : t + 1 = ((t + 1) % ClockMod) + j * ClockMod
  BY <1>1, ModSplit
<1>4. (t + 1) % ClockMod \in Clock
  BY <1>1, ModSplit
<1> DEFINE r == (t + 1) % ClockMod
           x == s + (n + 1)
           i == k + j
<1>5. x = r + i * ClockMod
  <2>1. x = (t + 1) + k * ClockMod
    BY <1>1, <1>2, SessionAssumption
  <2>2. t + 1 = r + j * ClockMod
    BY <1>3
  <2>3. r \in Int
    <3>1. r \in Clock
      BY <1>4
    <3> HIDE DEF r
    <3>. QED BY <3>1, ClockType
  <2> HIDE DEF r
  <2>4. ClockMod \in Int
    BY SessionAssumption
  <2>5. i * ClockMod = k * ClockMod + j * ClockMod
    BY <2>4
  <2>6. k * ClockMod \in Int /\ j * ClockMod \in Int
    BY <2>4
  <2>. QED BY <2>1, <2>2, <2>3, <2>5, <2>6
<1>6. x \in Nat /\ i \in Int /\ r \in Clock
  BY <1>1, <1>4
<1> HIDE DEF r, x, i
<1>7. x % ClockMod = r
  BY <1>5, <1>6, ModUnique
<1>. QED BY <1>7 DEF Shows, r, x

LEMMA ShowsPrevious ==
  ASSUME NEW s \in Clock, NEW n \in Nat, NEW t \in Clock, Shows(s, n + 1, t)
  PROVE  Shows((s + 1) % ClockMod, n, t)
<1>1. s \in Nat /\ t \in Nat
  BY SessionAssumption DEF Clock
<1>2. PICK k \in Int : s + (n + 1) = t + k * ClockMod
  BY <1>1, ModSplit DEF Shows
<1>3. PICK j \in Int : s + 1 = ((s + 1) % ClockMod) + j * ClockMod
  BY <1>1, ModSplit
<1>4. (s + 1) % ClockMod \in Clock
  BY <1>1, ModSplit
<1> DEFINE q == (s + 1) % ClockMod
           x == q + n
           i == k - j
<1>5. q \in Nat
  BY <1>4, ClockType
<1>6. x = t + i * ClockMod
  <2>1. s + 1 = q + j * ClockMod
    BY <1>3
  <2> HIDE DEF q
  <2>2. ClockMod \in Int
    BY SessionAssumption
  <2>3. i * ClockMod = k * ClockMod - j * ClockMod
    BY <2>2
  <2>4. k * ClockMod \in Int /\ j * ClockMod \in Int
    BY <2>2
  <2>. QED BY <1>1, <1>2, <1>5, <2>1, <2>3, <2>4
<1>7. x \in Nat /\ i \in Int
  BY <1>5
<1> HIDE DEF q, x, i
<1>8. x % ClockMod = t
  BY <1>6, <1>7, ModUnique
<1>. QED BY <1>8 DEF Shows, q, x

(* The difference of two readings is the ticks between them, up to rounds. *)
LEMMA ElapsedBetween ==
  ASSUME NEW s \in Clock, NEW p \in Clock, NEW t \in Clock, NEW n \in Nat, NEW d \in Nat,
         Shows(s, n, t), Shows(p, d, t), d <= n
  PROVE  Elapsed(s, p) = (n - d) % ClockMod
<1>1. s \in Nat /\ p \in Nat /\ t \in Nat /\ n - d \in Nat /\ p + ClockMod - s \in Nat
  BY SessionAssumption DEF Clock
<1>2. PICK k \in Int : s + n = t + k * ClockMod
  BY <1>1, ModSplit DEF Shows
<1>3. PICK j \in Int : p + d = t + j * ClockMod
  BY <1>1, ModSplit DEF Shows
<1>4. PICK i \in Int : n - d = ((n - d) % ClockMod) + i * ClockMod
  BY <1>1, ModSplit
<1>5. (n - d) % ClockMod \in Clock
  BY <1>1, ModSplit
<1>6. p - s = (n - d) + (j - k) * ClockMod
  BY <1>1, <1>2, <1>3, SessionAssumption
<1> DEFINE r == (n - d) % ClockMod
           x == p + ClockMod - s
           m == i + j - k + 1
<1>7. x = r + m * ClockMod
  <2>1. ClockMod \in Int /\ r \in Int
    BY <1>5, ClockType, SessionAssumption
  <2>2. m * ClockMod = i * ClockMod + (j - k) * ClockMod + ClockMod
    BY <2>1
  <2>3. i * ClockMod \in Int /\ (j - k) * ClockMod \in Int
    BY <2>1
  <2>4. n - d = r + i * ClockMod
    BY <1>4
  <2> HIDE DEF r, m
  <2>. QED BY <1>1, <1>6, <2>1, <2>2, <2>3, <2>4
<1>8. x \in Nat /\ m \in Int /\ r \in Clock
  BY <1>1, <1>5
<1> HIDE DEF r, x, m
<1>9. x % ClockMod = r
  BY <1>7, <1>8, ModUnique
<1>. QED BY <1>9 DEF Elapsed, r, x

LEMMA ElapsedType ==
  ASSUME NEW s \in Clock, NEW p \in Clock
  PROVE  Elapsed(s, p) \in Clock
<1>1. p + ClockMod - s \in Nat
  BY SessionAssumption DEF Clock
<1>. QED BY <1>1, ModSplit DEF Elapsed

-----------------------------------------------------------------------------
(* Type correctness                                                        *)

LEMMA CountUpType ==
  ASSUME NEW n \in 0..ClockMod
  PROVE  CountUp(n) \in 0..ClockMod
BY SessionAssumption DEF CountUp

(* The keepalives the session may have.                                    *)
Keepalives == {0, ConfKeepalive, DefaultKeepalive} \cup ServerKeepalives

LEMMA KeepaliveType ==
  ASSUME TypeOK
  PROVE  keepalive \in Keepalives /\ keepalive \in Nat
BY SessionAssumption DEF TypeOK, Keepalives

LEMMA InitType == Init => TypeOK
<1> SUFFICES ASSUME Init PROVE TypeOK
  OBVIOUS
<1>1. 0 \in Clock /\ 0 \in 0..ClockMod /\ 0 \in Nat
  BY ClockType, SessionAssumption
<1>2. \A t \in Callers : lag[t] = 0 /\ lag[t] <= Bound(t)
  BY SessionAssumption DEF Init, Bound
<1>3. lag \in [Callers -> Nat] /\ pnow \in [Callers -> Clock]
      /\ pc \in [Callers -> {"idle", "begun", "pinging"}]
  BY <1>1 DEF Init
<1>. QED BY <1>1, <1>2, <1>3 DEF Init, TypeOK

LEMMA NoxConnectType ==
  ASSUME TypeOK, NEW k \in Keepalives, NoxConnect(k)
  PROVE  /\ connected' = FALSE /\ ping' = Unset /\ reconnect' = Unset
         /\ pinged' = Unset /\ missed' \in BOOLEAN
         /\ keepalive' \in Keepalives
         /\ {last_tx, last_rx}' \subseteq Clock /\ {tx_age, rx_age}' \subseteq 0..ClockMod
         /\ peer' \in {"none", "asked", "silent", "closed"}
<1>1. 0 \in 0..ClockMod
  BY SessionAssumption
<1>2. now \in Clock /\ {last_tx, last_rx} \subseteq Clock /\ {tx_age, rx_age} \subseteq 0..ClockMod
  BY DEF TypeOK
<1>3. keepalive' \in Keepalives
  BY DEF NoxConnect, Keepalives
<1>. QED BY <1>1, <1>2, <1>3 DEF NoxConnect, NoPing, Answered, Marking, stamps, Sent, Received

LEMMA DropSessionType ==
  ASSUME TypeOK, DropSession
  PROVE  /\ connected' = FALSE /\ ping' = Unset /\ (reconnect' = Unset \/ reconnect' \in Clock)
         /\ pinged' = Unset /\ missed' \in BOOLEAN /\ peer' = "none"
<1>1. now \in Nat
  BY ClockType DEF TypeOK
<1>2. now + ReconnectDelay \in Nat
  BY <1>1, SessionAssumption
<1>. QED BY <1>2, ModSplit DEF DropSession, NoPing, Answered, Marking

LEMMA SentType ==
  ASSUME TypeOK
  PROVE  /\ Sent \/ NothingSent => last_tx' \in Clock /\ tx_age' \in 0..ClockMod
         /\ Received \/ NothingReceived => last_rx' \in Clock /\ rx_age' \in 0..ClockMod
BY SessionAssumption DEF TypeOK, Sent, NothingSent, Received, NothingReceived

(* The types of what a thread in process has of its own.                   *)
LocalType ==
  /\ pc \in [Callers -> {"idle", "begun", "pinging"}]
  /\ pnow \in [Callers -> Clock]
  /\ lag \in [Callers -> Nat] /\ \A t \in Callers : lag[t] <= Bound(t)
  /\ crossed \subseteq {t \in Callers : pc[t] # "idle"}

LEMMA BoundType ==
  \A t \in Callers : Bound(t) \in Nat
BY SessionAssumption DEF Bound

LEMMA ReturnType ==
  ASSUME LocalType, NEW t \in Callers, Return(t)
  PROVE  LocalType'
<1>1. 0 \in Clock /\ 0 <= MaxLag
  BY ClockType, SessionAssumption
<1>. QED BY <1>1 DEF Return, LocalType, Bound

LEMMA BeginType ==
  ASSUME LocalType, now \in Clock, NEW t \in Callers, ProcessBegin(t)
  PROVE  LocalType'
<1>1. 0 <= MaxCall
  BY SessionAssumption
<1>. QED BY <1>1 DEF ProcessBegin, LocalType, Bound

LEMMA PingType ==
  ASSUME LocalType, NEW t \in Callers, ProcessPing(t)
  PROVE  LocalType'
BY DEF ProcessPing, LocalType, Bound

LEMMA MarkType ==
  ASSUME LocalType, NEW t \in Callers, ProcessMarkPing(t)
  PROVE  LocalType' /\ ping' \in Clock
<1>1. 0 \in Clock /\ 0 <= MaxLag
  BY ClockType, SessionAssumption
<1>. QED BY <1>1 DEF ProcessMarkPing, LocalType, Bound

LEMMA TickLag ==
  ASSUME LocalType, Tick
  PROVE  /\ UNCHANGED <<pc, pnow, crossed>> /\ LocalType'
         /\ \A t \in Callers : Counts(t) => lag'[t] = lag[t] + 1
<1>1. \A t \in Callers : Bound(t)' = Bound(t)
  BY DEF Tick, Bound
<1>2. \A t \in Callers : Counts(t) => lag[t] + 1 <= Bound(t)
  BY BoundType DEF Tick, LocalType
<1>. QED BY <1>1, <1>2 DEF Tick, LocalType

(* Every step keeps the types.                                             *)
LEMMA NextType ==
  ASSUME TypeOK, [Next]_vars
  PROVE  TypeOK'
<1> USE DEF status, local, stamps, answer, NoPing, Answered, Marking, Bound
<1>1. 0 \in Clock /\ 0 \in 0..ClockMod
  BY ClockType, SessionAssumption
<1>2. ConfKeepalive \in Keepalives /\ keepalive \in Keepalives
  BY KeepaliveType DEF Keepalives
<1>3. LocalType
  BY DEF TypeOK, LocalType
<1>4. CASE Connect
  <2>1. NoxConnect(ConfKeepalive) /\ UNCHANGED <<now, local>> /\ wanted' \in BOOLEAN
    BY <1>4 DEF Connect
  <2>. QED BY <1>2, <2>1, NoxConnectType DEF TypeOK, Keepalives
<1>5. CASE Disconnect
  BY <1>5, SentType DEF Disconnect, TypeOK
<1>6. CASE Write
  BY <1>6, SentType DEF Write, TypeOK
<1>7. CASE RecvConnack
  BY <1>7, SentType DEF RecvConnack, TypeOK
<1>8. CASE RecvPingresp
  BY <1>8, SentType DEF RecvPingresp, TypeOK
<1>9. CASE RecvOther
  BY <1>9, SentType DEF RecvOther, TypeOK
<1>10. CASE RecvDisconnect
  <2>1. DropSession /\ Received /\ NothingSent /\ UNCHANGED <<now, keepalive, local, wanted>>
    BY <1>10 DEF RecvDisconnect
  <2>. QED BY <2>1, SentType, DropSessionType DEF TypeOK
<1>11. CASE ReportLoss
  <2>1. DropSession /\ UNCHANGED <<now, keepalive, stamps, local, wanted>>
    BY <1>11 DEF ReportLoss
  <2>. QED BY <2>1, DropSessionType DEF TypeOK
<1>12. CASE Close \/ FallSilent
  BY <1>12 DEF Close, FallSilent, TypeOK
<1>13. CASE Tick
  <2>1. now \in Nat
    BY ClockType DEF TypeOK
  <2>2. now' \in Clock
    BY <1>13, <2>1, ModSplit DEF Tick
  <2>3. LocalType'
    BY <1>3, <1>13, TickLag
  <2>4. {tx_age, rx_age}' \subseteq 0..ClockMod /\ (pinged' = Unset \/ pinged' \in 0..ClockMod)
    BY <1>13, CountUpType DEF Tick, TypeOK
  <2>. QED BY <1>13, <2>2, <2>3, <2>4 DEF Tick, TypeOK, LocalType
<1>14. ASSUME NEW t \in Callers, ProcessStep(t)
       PROVE  TypeOK'
  <2>1. CASE ProcessIdle(t) \/ ProcessNothing(t)
    <3>1. Return(t) /\ UNCHANGED <<now, status, keepalive, stamps, peer, wanted, answer>>
      BY <2>1 DEF ProcessIdle, ProcessNothing
    <3>2. LocalType'
      BY <1>3, <3>1, ReturnType
    <3>. QED BY <3>1, <3>2 DEF TypeOK, LocalType
  <2>2. CASE Reconnect(t)
    <3>1. NoxConnect(keepalive) /\ Return(t) /\ UNCHANGED <<now, wanted>>
      BY <2>2 DEF Reconnect
    <3>2. LocalType'
      BY <1>3, <3>1, ReturnType
    <3>3. keepalive' \in Keepalives /\ connected' = FALSE /\ reconnect' = Unset /\ ping' = Unset
          /\ pinged' = Unset /\ missed' \in BOOLEAN
          /\ {last_tx, last_rx}' \subseteq Clock /\ {tx_age, rx_age}' \subseteq 0..ClockMod
          /\ peer' \in {"none", "asked", "silent", "closed"}
      BY <1>2, <3>1, NoxConnectType
    <3>. QED BY <3>1, <3>2, <3>3 DEF TypeOK, Keepalives, LocalType
  <2>3. CASE ProcessBegin(t)
    <3>1. UNCHANGED <<now, status, keepalive, stamps, peer, wanted, answer>>
      BY <2>3 DEF ProcessBegin
    <3>2. LocalType'
      BY <1>3, <2>3, BeginType DEF TypeOK
    <3>. QED BY <3>1, <3>2 DEF TypeOK, LocalType
  <2>4. CASE ProcessPump(t)
    BY <2>4, SentType DEF ProcessPump, TypeOK
  <2>5. CASE ProcessTimeout(t)
    <3>1. DropSession /\ Return(t) /\ UNCHANGED <<now, keepalive, stamps, wanted>>
      BY <2>5 DEF ProcessTimeout
    <3>2. LocalType'
      BY <1>3, <3>1, ReturnType
    <3>. QED BY <3>1, <3>2, DropSessionType DEF TypeOK, LocalType
  <2>6. CASE ProcessPing(t)
    <3>1. /\ Sent /\ NothingReceived /\ pinged' = 0
          /\ UNCHANGED <<now, status, keepalive, peer, wanted, missed>>
      BY <2>6 DEF ProcessPing
    <3>2. LocalType'
      BY <1>3, <2>6, PingType
    <3>. QED BY <1>1, <3>1, <3>2, SentType DEF TypeOK, LocalType
  <2>7. CASE ProcessMarkPing(t)
    <3>1. LocalType' /\ ping' \in Clock
      BY <1>3, <2>7, MarkType
    <3>2. UNCHANGED <<now, connected, reconnect, keepalive, stamps, peer, wanted, answer>>
      BY <2>7 DEF ProcessMarkPing
    <3>. QED BY <3>1, <3>2 DEF TypeOK, LocalType
  <2>8. CASE ProcessSendFails(t)
    <3>1. /\ Return(t) /\ peer' \in {peer, "closed"}
          /\ UNCHANGED <<now, status, keepalive, stamps, wanted, answer>>
      BY <2>8 DEF ProcessSendFails
    <3>2. LocalType'
      BY <1>3, <3>1, ReturnType
    <3>. QED BY <3>1, <3>2 DEF TypeOK, LocalType
  <2>. QED BY <1>14, <2>1, <2>2, <2>3, <2>4, <2>5, <2>6, <2>7, <2>8 DEF ProcessStep
<1>15. CASE UNCHANGED vars
  BY <1>15 DEF vars, TypeOK
<1>. QED BY <1>4, <1>5, <1>6, <1>7, <1>8, <1>9, <1>10, <1>11, <1>12, <1>13, <1>14, <1>15 DEF Next

(* Every clock reading keeps its width, and the variables their types.     *)
THEOREM TypeCorrect == Spec => []TypeOK
<1>. QED BY InitType, NextType, PTL DEF Spec

-----------------------------------------------------------------------------
(* The inductive invariant: what the stamps and the readings of the clock  *)
(* that the callers of process hold have to do with the time that really   *)
(* passed.                                                                 *)

(* A stamp is as old as its packet, until the clock has gone round.        *)
Stamped ==
  /\ tx_age < ClockMod => Shows(last_tx, tx_age, now)
  /\ rx_age < ClockMod => Shows(last_rx, rx_age, now)

(* A PINGREQ that is marked, or about to be, is unanswered or was missed.  *)
PingAnswered == ping # Unset \/ Marking => missed \/ pinged # Unset

(* The mark of an unanswered PINGREQ is at most MaxCall older than it, and no
   younger than a reading of the clock taken d ticks ago.                  *)
PingDated(d) ==
  ping # Unset /\ pinged # Unset /\ pinged < ClockMod =>
    \E e \in 0..MaxCall : Shows(ping, e + pinged, now) /\ d <= e + pinged

(* The reading of a caller was taken d ticks ago; a PINGREQ it sent and did
   not mark yet was sent since; and unless another caller has marked one
   since, the mark was taken before.                                       *)
ReadAt(t, d) ==
  /\ Shows(pnow[t], d, now)
  /\ pc[t] = "pinging" => tx_age <= d /\ (pinged # Unset => pinged <= d)
  /\ pc[t] = "begun" /\ t \notin crossed => PingDated(d)

Polling ==
  /\ PingDated(0)
  /\ \A t \in Callers : pc[t] # "idle" => \E d \in 0..lag[t] : ReadAt(t, d)

(* The keepalive, a poll and two calls fit into a round of the clock.      *)
Timely == keepalive # 0 /\ keepalive + MaxLag + 2 * MaxCall < ClockMod

(* The ticks since the worker last looked at the clock, in a call it has
   completed, are at most this many.                                       *)
Slack == MaxCall + lag["worker"] + (IF pc["worker"] = "idle" THEN 0 ELSE MaxLag)

(* Since then process has seen to the keepalive: no time stamp is too old,
   and no PINGREQ outstanding for too long.                                *)
WellKept ==
  connected /\ Alive /\ Timely =>
    /\ tx_age < ClockMod /\ rx_age < ClockMod => Idle < keepalive + Slack
    /\ ping # Unset => \E g \in Nat : /\ Shows(ping, g, now) /\ tx_age <= g
                                      /\ g < keepalive + Slack

(* A reconnect is at most this late: an idle worker may have been in a call
   when it was due.                                                        *)
Late == lag["worker"] + (IF pc["worker"] = "idle" THEN MaxCall ELSE 0)

(* A reconnect is scheduled for a client without a connection only, and is
   either not due yet or not late.                                         *)
Scheduled ==
  reconnect # Unset =>
    /\ ~connected /\ AutoReconnect
    /\ reconnect + MaxLag + MaxCall < ClockMod =>
         \/ \E r \in 0..ReconnectDelay : Shows(now, r, reconnect)
         \/ \E o \in 0..Late : now = reconnect + o

SessionInv == TypeOK /\ Stamped /\ PingAnswered /\ Polling /\ WellKept /\ Scheduled

-----------------------------------------------------------------------------
(* The types as numbers, for the arithmetic.                               *)
LEMMA NumberTypes ==
  ASSUME TypeOK
  PROVE  /\ now \in Nat /\ keepalive \in Nat
         /\ \A t \in Callers : lag[t] \in Nat /\ lag[t] <= Bound(t)
         /\ tx_age \in Nat /\ rx_age \in Nat /\ tx_age <= ClockMod /\ rx_age <= ClockMod
         /\ pinged # Unset => pinged \in Nat /\ pinged <= ClockMod
         /\ MaxLag \in Nat /\ MaxCall \in Nat /\ ClockMod \in Nat /\ ClockMod > 0
<1>1. MaxLag \in Nat /\ MaxCall \in Nat /\ ClockMod \in Nat /\ ClockMod > 0
  BY SessionAssumption
<1>2. now \in Nat /\ keepalive \in Nat
  BY ClockType, KeepaliveType DEF TypeOK
<1>3. (\A t \in Callers : lag[t] \in Nat /\ lag[t] <= Bound(t))
      /\ tx_age \in 0..ClockMod /\ rx_age \in 0..ClockMod
      /\ (pinged # Unset => pinged \in 0..ClockMod)
  BY DEF TypeOK
<1>. QED BY <1>1, <1>2, <1>3

LEMMA WorkerLag ==
  ASSUME TypeOK
  PROVE  /\ lag["worker"] \in Nat /\ Slack \in Nat /\ Late \in Nat
         /\ Slack <= MaxLag + 2 * MaxCall /\ Late <= MaxLag + MaxCall
         /\ MaxCall <= Slack
<1>1. "worker" \in Callers
  BY DEF Callers
<1>2. lag["worker"] \in Nat /\ lag["worker"] <= IF pc["worker"] = "idle" THEN MaxLag ELSE MaxCall
  BY <1>1, NumberTypes DEF Bound
<1>. QED BY <1>2, SessionAssumption DEF Slack, Late

LEMMA IdleIsLeast ==
  ASSUME TypeOK
  PROVE  /\ Idle \in Nat /\ Idle <= tx_age /\ Idle <= rx_age
BY NumberTypes DEF Idle

LEMMA InitInv == Init => SessionInv
<1> SUFFICES ASSUME Init PROVE SessionInv
  OBVIOUS
<1>1. TypeOK
  BY InitType
<1>2. Stamped
  BY ClockType, ShowsItself DEF Init, Stamped
<1>3. Polling /\ WellKept /\ PingAnswered /\ Scheduled
  BY DEF Init, Polling, PingDated, WellKept, PingAnswered, Marking, Scheduled
<1>. QED BY <1>1, <1>2, <1>3 DEF SessionInv

-----------------------------------------------------------------------------
(* What the steps do to the stamps                                         *)

(* A step at which no time passes leaves each stamp alone or renews it.    *)
Renews ==
  /\ UNCHANGED now
  /\ Sent \/ NothingSent
  /\ Received \/ NothingReceived

LEMMA TicksOrRenews ==
  ASSUME [Next]_vars
  PROVE  Tick \/ Renews
<1> USE DEF status, local, stamps, answer, Renews, Sent, Received, NothingSent, NothingReceived
<1>1. CASE Connect \/ Disconnect \/ Write
  BY <1>1 DEF Connect, Disconnect, NoxConnect, Write
<1>2. CASE RecvConnack \/ RecvPingresp \/ RecvOther \/ RecvDisconnect \/ ReportLoss
  BY <1>2 DEF RecvConnack, RecvPingresp, RecvOther, RecvDisconnect, ReportLoss
<1>3. CASE Close \/ FallSilent \/ UNCHANGED vars
  BY <1>3 DEF Close, FallSilent, vars
<1>4. ASSUME NEW t \in Callers, ProcessStep(t)
      PROVE  Renews
  <2>1. CASE ProcessIdle(t) \/ Reconnect(t) \/ ProcessBegin(t)
    BY <2>1 DEF ProcessIdle, Reconnect, NoxConnect, ProcessBegin
  <2>2. CASE ProcessPump(t) \/ ProcessNothing(t) \/ ProcessTimeout(t)
    BY <2>2 DEF ProcessPump, ProcessNothing, ProcessTimeout
  <2>3. CASE ProcessPing(t) \/ ProcessMarkPing(t) \/ ProcessSendFails(t)
    BY <2>3 DEF ProcessPing, ProcessMarkPing, ProcessSendFails
  <2>. QED BY <1>4, <2>1, <2>2, <2>3 DEF ProcessStep
<1>. QED BY <1>1, <1>2, <1>3, <1>4 DEF Next

LEMMA KeepsStamped ==
  ASSUME TypeOK, Stamped, [Next]_vars
  PROVE  Stamped'
<1>1. CASE Tick
  <2>1. /\ now' = (now + 1) % ClockMod /\ UNCHANGED <<last_tx, last_rx>>
        /\ tx_age' = CountUp(tx_age) /\ rx_age' = CountUp(rx_age)
    BY <1>1 DEF Tick
  <2>2. last_tx \in Clock /\ last_rx \in Clock /\ now \in Clock
    BY DEF TypeOK
  <2>3. tx_age < ClockMod => Shows(last_tx, tx_age + 1, now')
    BY <2>1, <2>2, NumberTypes, ShowsNext DEF Stamped
  <2>4. rx_age < ClockMod => Shows(last_rx, rx_age + 1, now')
    BY <2>1, <2>2, NumberTypes, ShowsNext DEF Stamped
  <2>. QED BY <2>1, <2>3, <2>4, NumberTypes DEF CountUp, Stamped
<1>2. CASE Renews
  <2>1. now \in Clock /\ UNCHANGED now
    BY <1>2 DEF TypeOK, Renews
  <2>2. Shows(now, 0, now)
    BY <2>1, ShowsItself
  <2>. QED BY <1>2, <2>1, <2>2
       DEF Renews, Sent, Received, NothingSent, NothingReceived, Stamped
<1>. QED BY <1>1, <1>2, TicksOrRenews

-----------------------------------------------------------------------------
(* What the steps do to the flags                                          *)

(* A step that ends the session or begins one, or a PINGRESP, clears the
   mark.                                                                   *)
LEMMA FlagSteps ==
  ASSUME LocalType, [Next]_vars
  PROVE  \/ NoPing /\ (Marking' => Marking)
         \/ Tick
         \/ UNCHANGED <<missed, ping, pinged>> /\ (Marking' => Marking)
         \/ \E t \in Callers : ProcessPing(t) \/ ProcessMarkPing(t)
<1> USE DEF status, local, stamps, answer
<1>1. CASE Connect \/ Disconnect \/ RecvConnack \/ RecvPingresp \/ RecvDisconnect \/ ReportLoss
  <2>1. NoPing /\ UNCHANGED pc
    BY <1>1 DEF Connect, Disconnect, RecvConnack, RecvPingresp, RecvDisconnect, ReportLoss,
                NoxConnect, DropSession
  <2>2. Marking' => Marking
    BY <2>1 DEF Marking
  <2>. QED BY <2>1, <2>2
<1>2. CASE Write \/ RecvOther \/ Close \/ FallSilent \/ UNCHANGED vars
  BY <1>2 DEF Write, RecvOther, Close, FallSilent, vars, Marking
<1>3. ASSUME NEW t \in Callers, Return(t)
      PROVE  Marking' => Marking
  BY <1>3 DEF Return, Marking, LocalType
<1>4. ASSUME NEW t \in Callers, ProcessStep(t), ~ProcessPing(t), ~ProcessMarkPing(t)
      PROVE  \/ NoPing /\ (Marking' => Marking)
             \/ UNCHANGED <<missed, ping, pinged>> /\ (Marking' => Marking)
  <2>1. CASE ProcessIdle(t) \/ ProcessNothing(t) \/ ProcessSendFails(t)
    BY <1>3, <2>1 DEF ProcessIdle, ProcessNothing, ProcessSendFails
  <2>2. CASE Reconnect(t) \/ ProcessTimeout(t)
    <3>1. NoPing /\ Return(t)
      BY <2>2 DEF Reconnect, ProcessTimeout, NoxConnect, DropSession
    <3>. QED BY <1>3, <3>1
  <2>3. CASE ProcessBegin(t)
    BY <2>3 DEF ProcessBegin, Marking, LocalType
  <2>4. CASE ProcessPump(t)
    BY <2>4 DEF ProcessPump, Marking
  <2>. QED BY <1>4, <2>1, <2>2, <2>3, <2>4 DEF ProcessStep
<1>. QED BY <1>1, <1>2, <1>4 DEF Next

LEMMA KeepsFlags ==
  ASSUME TypeOK, PingAnswered, [Next]_vars
  PROVE  PingAnswered'
<1>1. LocalType
  BY DEF TypeOK, LocalType
<1>2. CASE NoPing /\ (Marking' => Marking)
  BY <1>2 DEF NoPing, Answered, PingAnswered
<1>3. CASE Tick
  <2>1. pinged # Unset => pinged' # Unset
    BY <1>3, NumberTypes, SessionAssumption DEF Tick, CountUp
  <2>2. UNCHANGED <<ping, missed, pc>> /\ (Marking' => Marking)
    BY <1>3 DEF Tick, status, Marking
  <2>. QED BY <2>1, <2>2 DEF PingAnswered
<1>4. CASE UNCHANGED <<missed, ping, pinged>> /\ (Marking' => Marking)
  BY <1>4 DEF PingAnswered
<1>5. ASSUME NEW t \in Callers, ProcessPing(t)
      PROVE  PingAnswered'
  <2>1. pinged' # Unset
    BY <1>5, SessionAssumption DEF ProcessPing
  <2>. QED BY <2>1 DEF PingAnswered
<1>6. ASSUME NEW t \in Callers, ProcessMarkPing(t)
      PROVE  PingAnswered'
  <2>1. Marking /\ UNCHANGED <<pinged, missed>>
    BY <1>6 DEF ProcessMarkPing, Marking, answer
  <2>. QED BY <2>1 DEF PingAnswered
<1>. QED BY <1>1, <1>2, <1>3, <1>4, <1>5, <1>6, FlagSteps

-----------------------------------------------------------------------------
(* What the steps do to the readings of the clock                          *)

(* Thread u is where it was in process, with the reading it had.           *)
Stays(u) ==
  /\ pc'[u] = pc[u] /\ pnow'[u] = pnow[u] /\ lag'[u] = lag[u]
  /\ u \in crossed => u \in crossed'

LEMMA ReturnStays ==
  ASSUME LocalType, NEW t \in Callers, Return(t), NEW u \in Callers
  PROVE  pc'[u] = "idle" \/ Stays(u)
BY DEF Return, Stays, LocalType

LEMMA LocalStays ==
  ASSUME UNCHANGED local, NEW u \in Callers
  PROVE  Stays(u)
BY DEF local, Stays

(* A step that neither lets time pass nor has to do with a PINGREQ leaves
   each caller where it was, or takes it out of process.                   *)
Quiet ==
  /\ UNCHANGED now
  /\ pinged' = pinged \/ pinged' = Unset
  /\ tx_age' = tx_age \/ tx_age' = 0
  /\ ping' = Unset \/ UNCHANGED ping
  /\ \A u \in Callers : pc'[u] = "idle" \/ Stays(u)

LEMMA PollSteps ==
  ASSUME LocalType, [Next]_vars
  PROVE  \/ Tick \/ Quiet
         \/ \E t \in Callers : ProcessBegin(t) \/ ProcessPing(t) \/ ProcessMarkPing(t)
<1> USE DEF status, stamps, answer, NoPing, Answered, Sent, NothingSent
<1>1. CASE Connect \/ Disconnect \/ RecvConnack \/ RecvPingresp \/ RecvDisconnect \/ ReportLoss
  <2>1. UNCHANGED local
    BY <1>1 DEF Connect, Disconnect, RecvConnack, RecvPingresp, RecvDisconnect, ReportLoss
  <2>2. /\ UNCHANGED now /\ pinged' = Unset /\ ping' = Unset
        /\ tx_age' = tx_age \/ tx_age' = 0
    BY <1>1 DEF Connect, Disconnect, RecvConnack, RecvPingresp, RecvDisconnect, ReportLoss,
                NoxConnect, DropSession
  <2>. QED BY <2>1, <2>2, LocalStays DEF Quiet
<1>2. CASE Write \/ RecvOther \/ Close \/ FallSilent \/ UNCHANGED vars
  <2>1. UNCHANGED local
    BY <1>2 DEF Write, RecvOther, Close, FallSilent, vars
  <2>2. UNCHANGED <<now, pinged, ping>> /\ (tx_age' = tx_age \/ tx_age' = 0)
    BY <1>2 DEF Write, RecvOther, Close, FallSilent, vars
  <2>. QED BY <2>1, <2>2, LocalStays DEF Quiet
<1>3. ASSUME NEW t \in Callers, ProcessStep(t),
             ~ProcessBegin(t), ~ProcessPing(t), ~ProcessMarkPing(t)
      PROVE  Quiet
  <2>1. CASE ProcessPump(t)
    <3>1. UNCHANGED local
      BY <2>1 DEF ProcessPump
    <3>2. UNCHANGED <<now, pinged, ping>> /\ tx_age' = 0
      BY <2>1 DEF ProcessPump
    <3>. QED BY <3>1, <3>2, LocalStays DEF Quiet
  <2>2. CASE ProcessIdle(t) \/ ProcessNothing(t) \/ ProcessSendFails(t)
    <3>1. Return(t) /\ UNCHANGED <<now, pinged, ping, tx_age>>
      BY <2>2 DEF ProcessIdle, ProcessNothing, ProcessSendFails
    <3>. QED BY <3>1, ReturnStays DEF Quiet
  <2>3. CASE Reconnect(t) \/ ProcessTimeout(t)
    <3>1. /\ Return(t) /\ UNCHANGED now /\ pinged' = Unset /\ ping' = Unset
          /\ tx_age' = tx_age \/ tx_age' = 0
      BY <2>3 DEF Reconnect, ProcessTimeout, NoxConnect, DropSession
    <3>. QED BY <3>1, ReturnStays DEF Quiet
  <2>. QED BY <1>3, <2>1, <2>2, <2>3 DEF ProcessStep
<1>. QED BY <1>1, <1>2, <1>3 DEF Next

(* A reading that is d ticks old is d + 1 ticks old after a tick.          *)
LEMMA TickShows ==
  ASSUME TypeOK, Tick, NEW s \in Clock, NEW n \in Nat, Shows(s, n, now)
  PROVE  Shows(s, n + 1, now')
<1>1. now \in Clock /\ now' = (now + 1) % ClockMod
  BY DEF TypeOK, Tick
<1>. QED BY <1>1, ShowsNext

LEMMA TickDates ==
  ASSUME TypeOK, Tick, NEW d \in Nat, PingDated(d)
  PROVE  PingDated(d + 1)' /\ PingDated(0)'
<1> SUFFICES ASSUME ping' # Unset, pinged' # Unset, pinged' < ClockMod
             PROVE  \E e \in 0..MaxCall : Shows(ping, e + pinged', now') /\ d + 1 <= e + pinged'
  <2>1. ping' = ping /\ 0 <= d + 1
    BY DEF Tick, status
  <2>2. pinged' # Unset => pinged' \in Nat
    BY NumberTypes DEF Tick, CountUp
  <2>. QED BY <2>1, <2>2, NumberTypes DEF PingDated
<1>1. /\ ping # Unset /\ pinged # Unset /\ pinged \in Nat
      /\ pinged < ClockMod /\ pinged' = pinged + 1
  BY NumberTypes DEF Tick, status, CountUp
<1>2. PICK e \in 0..MaxCall : Shows(ping, e + pinged, now) /\ d <= e + pinged
  BY <1>1 DEF PingDated
<1>3. ping \in Clock /\ e + pinged \in Nat
  BY <1>1, <1>2, NumberTypes DEF TypeOK
<1>4. Shows(ping, (e + pinged) + 1, now')
  BY <1>2, <1>3, TickShows
<1>5. (e + pinged) + 1 = e + pinged' /\ d + 1 <= e + pinged'
  BY <1>1, <1>2, NumberTypes
<1>. QED BY <1>4, <1>5

(* PingDated is about these variables.                                     *)
LEMMA DatedFrame ==
  ASSUME TypeOK, NEW d \in Nat, PingDated(d), UNCHANGED now,
         ping' = Unset \/ UNCHANGED ping, pinged' = pinged \/ pinged' = Unset
  PROVE  PingDated(d)'
BY DEF PingDated

LEMMA KeepsPolling ==
  ASSUME TypeOK, TypeOK', Polling, [Next]_vars
  PROVE  Polling'
<1>1. /\ now \in Clock /\ MaxCall \in Nat /\ 0 \in Nat /\ LocalType
      /\ \A u \in Callers : lag[u] \in Nat /\ lag[u] <= Bound(u) /\ pnow[u] \in Clock
  BY NumberTypes DEF TypeOK, LocalType
<1>2. CASE Tick
  <2>1. UNCHANGED <<pc, pnow, ping, crossed>> /\ tx_age' = CountUp(tx_age)
        /\ pinged' = IF pinged = Unset THEN Unset ELSE CountUp(pinged)
    BY <1>2 DEF Tick, status
  <2>2. PingDated(0)'
    BY <1>1, <1>2, TickDates DEF Polling
  <2>3. ASSUME NEW u \in Callers, pc[u] # "idle"
        PROVE  \E d \in 0..lag'[u] : ReadAt(u, d)'
    <3>1. PICK d \in 0..lag[u] : ReadAt(u, d)
      BY <2>3 DEF Polling
    <3>2. d \in Nat /\ d + 1 \in 0..lag'[u]
      <4>1. lag'[u] = lag[u] + 1
        BY <1>1, <1>2, <2>3, TickLag DEF Counts
      <4>. QED BY <1>1, <4>1
    <3>3. Shows(pnow[u], d + 1, now')
      BY <1>1, <1>2, <3>1, <3>2, TickShows DEF ReadAt
    <3>4. pc[u] = "pinging" => tx_age' <= d + 1 /\ (pinged' # Unset => pinged' <= d + 1)
      BY <2>1, <3>1, <3>2, NumberTypes DEF CountUp, ReadAt
    <3>5. pc[u] = "begun" /\ u \notin crossed => PingDated(d + 1)'
      BY <1>2, <3>1, <3>2, TickDates DEF ReadAt
    <3> DEFINE c == d + 1
    <3>6. c \in 0..lag'[u] /\ ReadAt(u, c)'
      BY <2>1, <3>2, <3>3, <3>4, <3>5 DEF ReadAt
    <3>. QED BY <3>6
  <2>. QED BY <2>1, <2>2, <2>3 DEF Polling
<1>3. CASE Quiet
  <2>1. PingDated(0)'
    BY <1>1, <1>3, DatedFrame DEF Polling, Quiet
  <2>2. ASSUME NEW u \in Callers, pc'[u] # "idle"
        PROVE  \E d \in 0..lag'[u] : ReadAt(u, d)'
    <3>1. Stays(u)
      BY <1>3, <2>2 DEF Quiet
    <3>2. PICK d \in 0..lag[u] : ReadAt(u, d)
      BY <2>2, <3>1 DEF Polling, Stays
    <3>3. d \in Nat
      BY <1>1
    <3>4. u \notin crossed' /\ pc[u] = "begun" => PingDated(d)'
      BY <1>3, <3>1, <3>2, <3>3, DatedFrame DEF Quiet, Stays, ReadAt
    <3>5. pc[u] = "pinging" => tx_age' <= d /\ (pinged' # Unset => pinged' <= d)
      BY <1>3, <3>2, <3>3 DEF Quiet, ReadAt
    <3>6. Shows(pnow'[u], d, now')
      BY <1>3, <3>1, <3>2 DEF Quiet, Stays, ReadAt
    <3>7. ReadAt(u, d)'
      BY <3>1, <3>4, <3>5, <3>6 DEF Stays, ReadAt
    <3>. QED BY <3>1, <3>7 DEF Stays
  <2>. QED BY <2>1, <2>2 DEF Polling
<1>4. ASSUME NEW t \in Callers, ProcessBegin(t)
      PROVE  Polling'
  <2>1. /\ pc' = [pc EXCEPT ![t] = "begun"] /\ pnow' = [pnow EXCEPT ![t] = now]
        /\ lag' = [lag EXCEPT ![t] = 0]
        /\ UNCHANGED <<now, crossed, ping, pinged, tx_age>>
    BY <1>4 DEF ProcessBegin, status, answer, stamps
  <2>2. PingDated(0)'
    BY <2>1, <1>1, DatedFrame DEF Polling
  <2>3. ASSUME NEW u \in Callers, pc'[u] # "idle"
        PROVE  \E d \in 0..lag'[u] : ReadAt(u, d)'
    <3>1. CASE u = t
      <4>1. pnow'[u] = now /\ pc'[u] = "begun" /\ lag'[u] = 0
        BY <1>1, <2>1, <3>1 DEF LocalType
      <4>2. Shows(pnow'[u], 0, now')
        BY <1>1, <2>1, <4>1, ShowsItself
      <4>3. 0 \in 0..lag'[u] /\ ReadAt(u, 0)'
        BY <1>1, <2>1, <2>2, <4>1, <4>2 DEF ReadAt
      <4>. QED BY <4>3
    <3>2. CASE u # t
      <4>1. pc'[u] = pc[u] /\ pnow'[u] = pnow[u] /\ lag'[u] = lag[u]
        BY <1>1, <2>1, <3>2 DEF LocalType
      <4>2. PICK d \in 0..lag[u] : ReadAt(u, d)
        BY <2>3, <4>1 DEF Polling
      <4>3. d \in Nat
        BY <1>1
      <4>4. PingDated(d) => PingDated(d)'
        BY <2>1, <4>3, DatedFrame
      <4>5. ReadAt(u, d)'
        BY <2>1, <4>1, <4>2, <4>4 DEF ReadAt
      <4>. QED BY <4>1, <4>5
    <3>. QED BY <3>1, <3>2
  <2>. QED BY <2>2, <2>3 DEF Polling
<1>5. ASSUME NEW t \in Callers, ProcessPing(t)
      PROVE  Polling'
  <2>1. /\ pc' = [pc EXCEPT ![t] = "pinging"] /\ pc[t] = "begun"
        /\ UNCHANGED <<now, pnow, lag, crossed>> /\ ping = Unset /\ UNCHANGED ping
        /\ pinged' = 0 /\ tx_age' = 0
    BY <1>5 DEF ProcessPing, PingDue, status, Sent
  <2>2. ASSUME NEW d \in Nat
        PROVE  PingDated(d)'
    BY <2>1 DEF PingDated
  <2>3. ASSUME NEW u \in Callers, pc'[u] # "idle"
        PROVE  \E d \in 0..lag'[u] : ReadAt(u, d)'
    <3>1. pc[u] # "idle"
      BY <1>1, <2>1, <2>3 DEF LocalType
    <3>2. PICK d \in 0..lag[u] : ReadAt(u, d)
      BY <3>1 DEF Polling
    <3>3. d \in Nat /\ 0 <= d
      BY <1>1
    <3>4. PingDated(d)'
      BY <2>2, <3>3
    <3>5. ReadAt(u, d)'
      BY <2>1, <3>2, <3>3, <3>4 DEF ReadAt
    <3>. QED BY <2>1, <3>5
  <2>4. PingDated(0)'
    BY <1>1, <2>2
  <2>. QED BY <2>3, <2>4 DEF Polling
<1>6. ASSUME NEW t \in Callers, ProcessMarkPing(t)
      PROVE  Polling'
  <2>1. /\ pc[t] = "pinging" /\ ping' = pnow[t]
        /\ pc' = [pc EXCEPT ![t] = "idle"] /\ pnow' = [pnow EXCEPT ![t] = 0]
        /\ lag' = [lag EXCEPT ![t] = 0] /\ crossed' = {u \in Callers \ {t} : pc[u] # "idle"}
        /\ UNCHANGED <<now, pinged, tx_age>>
    BY <1>6 DEF ProcessMarkPing, answer, stamps
  <2>2. PingDated(0)'
    <3>1. PICK d \in 0..lag[t] : ReadAt(t, d)
      BY <2>1 DEF Polling
    <3>2. Shows(pnow[t], d, now) /\ (pinged # Unset => pinged <= d)
      BY <2>1, <3>1 DEF ReadAt
    <3>3. ASSUME pinged # Unset
          PROVE  \E e \in 0..MaxCall : Shows(pnow[t], e + pinged, now) /\ 0 <= e + pinged
      <4>1. d \in Nat /\ d <= MaxCall /\ pinged \in Nat /\ pinged <= d
        BY <1>1, <2>1, <3>2, <3>3, NumberTypes DEF Bound
      <4>2. d - pinged \in 0..MaxCall /\ (d - pinged) + pinged = d /\ 0 <= d
        BY <1>1, <4>1
      <4>. QED BY <3>2, <4>2
    <3>. QED BY <2>1, <3>3 DEF PingDated
  <2>3. ASSUME NEW u \in Callers, pc'[u] # "idle"
        PROVE  \E d \in 0..lag'[u] : ReadAt(u, d)'
    <3>1. /\ u # t /\ pc'[u] = pc[u] /\ pnow'[u] = pnow[u] /\ lag'[u] = lag[u]
          /\ u \in crossed'
      BY <1>1, <2>1, <2>3 DEF LocalType
    <3>2. PICK d \in 0..lag[u] : ReadAt(u, d)
      BY <2>3, <3>1 DEF Polling
    <3>3. ReadAt(u, d)'
      BY <2>1, <3>1, <3>2 DEF ReadAt
    <3>. QED BY <3>1, <3>3
  <2>. QED BY <2>2, <2>3 DEF Polling
<1>. QED BY <1>1, <1>2, <1>3, <1>4, <1>5, <1>6, PollSteps

-----------------------------------------------------------------------------
(* What the steps do to the keepalive                                      *)

(* The worker's idle time becomes the gap before its call.                 *)
LEMMA BeginSlack ==
  ASSUME TypeOK, LocalType, NEW t \in Callers, ProcessBegin(t)
  PROVE  Slack' >= Slack
<1>1. CASE t = "worker"
  <2>1. /\ pc[t] = "idle" /\ pc'[t] = "begun" /\ lag'[t] = 0
        /\ lag[t] \in Nat /\ lag[t] <= MaxLag
    BY NumberTypes DEF ProcessBegin, MayCall, LocalType, Bound
  <2>2. Slack = MaxCall + lag[t] /\ Slack' = MaxCall + MaxLag
    BY <1>1, <2>1, SessionAssumption DEF Slack
  <2>. QED BY <2>1, <2>2, SessionAssumption
<1>2. CASE t # "worker"
  <2>1. "worker" \in Callers /\ lag'["worker"] = lag["worker"] /\ pc'["worker"] = pc["worker"]
    BY <1>2 DEF ProcessBegin, LocalType, Callers
  <2>. QED BY <2>1, WorkerLag DEF Slack
<1>. QED BY <1>1, <1>2

LEMMA KeepaliveSteps ==
  ASSUME TypeOK, LocalType, [Next]_vars
  PROVE  \/ ~connected' \/ ~Alive' \/ RecvConnack \/ Tick \/ ProcessNothing("worker")
         \/ \E t \in Callers : ProcessMarkPing(t)
         \/ /\ UNCHANGED <<now, connected, keepalive>> /\ Alive
            /\ Slack' >= Slack
            /\ tx_age' = tx_age \/ tx_age' = 0
            /\ rx_age' = rx_age \/ rx_age' = 0
            /\ ping' = ping \/ ping' = Unset
<1> USE DEF status, local, stamps, answer, NoPing, Sent, NothingSent, Received, NothingReceived, Alive
<1>0. UNCHANGED local => Slack' >= Slack
  BY WorkerLag DEF Slack
<1>1. CASE Connect \/ Disconnect
  BY <1>1 DEF Connect, Disconnect, NoxConnect
<1>2. CASE RecvDisconnect \/ ReportLoss
  BY <1>2 DEF RecvDisconnect, ReportLoss, DropSession
<1>3. CASE Close \/ FallSilent \/ UNCHANGED vars
  BY <1>0, <1>3 DEF Close, FallSilent, vars
<1>4. CASE Write \/ RecvPingresp \/ RecvOther
  BY <1>0, <1>4 DEF Write, RecvPingresp, RecvOther
<1>5. ASSUME NEW t \in Callers, ProcessStep(t)
      PROVE  \/ ~connected' \/ ~Alive' \/ ProcessNothing("worker") \/ ProcessMarkPing(t)
             \/ /\ UNCHANGED <<now, connected, keepalive>> /\ Alive
                /\ Slack' >= Slack
                /\ tx_age' = tx_age \/ tx_age' = 0
                /\ rx_age' = rx_age \/ rx_age' = 0
                /\ ping' = ping \/ ping' = Unset
  <2>1. CASE ProcessIdle(t) \/ Reconnect(t) \/ ProcessTimeout(t) \/ ProcessSendFails(t)
    BY <2>1 DEF ProcessIdle, Reconnect, ProcessTimeout, ProcessSendFails, NoxConnect, DropSession
  <2>2. CASE ProcessBegin(t)
    <3>1. Slack' >= Slack
      BY <2>2, BeginSlack
    <3>. QED BY <2>2, <3>1 DEF ProcessBegin
  <2>4. CASE ProcessPump(t)
    BY <1>0, <2>4 DEF ProcessPump
  <2>5. CASE ProcessPing(t)
    <3>1. Slack' >= Slack
      BY <2>5, WorkerLag DEF ProcessPing, LocalType, Callers, Slack
    <3>. QED BY <2>5, <3>1 DEF ProcessPing
  <2>3. CASE ProcessNothing(t)
    <3>1. CASE t = "worker"
      BY <2>3, <3>1
    <3>2. CASE t # "worker"
      <4>1. Slack' >= Slack
        BY <2>3, <3>2, WorkerLag DEF ProcessNothing, Return, LocalType, Callers, Slack
      <4>. QED BY <2>3, <4>1 DEF ProcessNothing
    <3>. QED BY <3>1, <3>2
  <2>. QED BY <1>5, <2>1, <2>2, <2>3, <2>4, <2>5 DEF ProcessStep
<1>. QED BY <1>1, <1>2, <1>3, <1>4, <1>5 DEF Next

(* process looks at the stamps and finds nothing to do.                    *)
LEMMA NothingKeepsWellKept ==
  ASSUME SessionInv, ProcessNothing("worker")
  PROVE  WellKept'
<1> DEFINE w == "worker"
<1>0. w \in Callers
  BY DEF Callers
<1> HIDE DEF w
<1>1. /\ pc[w] = "begun" /\ Slack' = MaxCall /\ ~PingOverdue(w) /\ ~PingDue(w)
      /\ UNCHANGED <<now, connected, ping, keepalive, last_tx, last_rx, tx_age, rx_age, peer>>
  <2>1. ProcessNothing(w) /\ LocalType
    BY DEF w, SessionInv, TypeOK, LocalType
  <2>2. lag'[w] = 0 /\ pc'[w] = "idle"
    BY <1>0, <2>1 DEF ProcessNothing, Return, LocalType
  <2>3. Slack' = MaxCall
    BY <2>2, SessionAssumption DEF Slack, w
  <2>. QED BY <2>1, <2>3 DEF ProcessNothing, status, stamps
<1> SUFFICES ASSUME connected, Alive, Timely
             PROVE  /\ tx_age < ClockMod /\ rx_age < ClockMod => Idle < keepalive + MaxCall
                    /\ ping # Unset => \E g \in Nat : /\ Shows(ping, g, now) /\ tx_age <= g
                                                      /\ g < keepalive + MaxCall
  BY <1>1, NumberTypes DEF SessionInv, WellKept, Alive, Timely, Idle
<1>2. TypeOK /\ Stamped /\ Polling /\ WellKept
  BY DEF SessionInv
<1>3. now \in Clock /\ pnow[w] \in Clock /\ last_tx \in Clock /\ last_rx \in Clock
  BY <1>0, <1>2 DEF TypeOK
<1>4. PICK d \in 0..lag[w] : Shows(pnow[w], d, now)
  BY <1>0, <1>1, <1>2 DEF Polling, ReadAt
<1>5. d \in Nat /\ d <= MaxCall /\ keepalive > 0 /\ keepalive + MaxLag + 2 * MaxCall < ClockMod
  BY <1>0, <1>1, <1>2, <1>4, NumberTypes DEF Timely, Bound
<1>6. ASSUME NEW s \in Clock, NEW n \in Nat, n < ClockMod, Shows(s, n, now),
             Elapsed(s, pnow[w]) < keepalive
      PROVE  n < keepalive + MaxCall
  <2>1. CASE d <= n
    <3>1. n - d \in Clock
      BY <1>2, <1>5, <1>6, <2>1, NumberTypes DEF Clock
    <3>2. Elapsed(s, pnow[w]) = n - d
      BY <1>3, <1>4, <1>5, <1>6, <2>1, <3>1, ElapsedBetween, ModSmall
    <3>. QED BY <1>2, <1>5, <1>6, <3>2, NumberTypes
  <2>2. CASE n < d
    BY <1>2, <1>5, <2>2, NumberTypes
  <2>. QED BY <1>5, <2>1, <2>2
<1>7. ASSUME ping # Unset
      PROVE  \E g \in Nat : Shows(ping, g, now) /\ tx_age <= g /\ g < keepalive + MaxCall
  <2>1. PICK g \in Nat : /\ Shows(ping, g, now) /\ tx_age <= g
                         /\ g < keepalive + Slack
    BY <1>2, <1>7 DEF WellKept
  <2>2. g < ClockMod
    BY <1>2, <1>5, <2>1, NumberTypes, WorkerLag
  <2>3. ping \in Clock /\ Elapsed(ping, pnow[w]) \in Clock
    BY <1>2, <1>3, <1>7, ElapsedType DEF TypeOK
  <2>4. Elapsed(ping, pnow[w]) < keepalive
    <3>1. Elapsed(ping, pnow[w]) \in Nat /\ keepalive \in Nat
      BY <1>2, <2>3, ClockType, NumberTypes
    <3>2. ~(Elapsed(ping, pnow[w]) >= keepalive)
      BY <1>1, <1>7 DEF PingOverdue, Timely
    <3>. QED BY <3>1, <3>2
  <2>. QED BY <1>6, <2>1, <2>2, <2>3, <2>4
<1>8. ASSUME ping = Unset, tx_age < ClockMod, rx_age < ClockMod
      PROVE  Idle < keepalive + MaxCall
  <2>1. last_activity \in Clock /\ Elapsed(last_activity, pnow[w]) \in Clock
    BY <1>3, ElapsedType DEF last_activity
  <2>2. Elapsed(last_activity, pnow[w]) < keepalive
    <3>1. Elapsed(last_activity, pnow[w]) \in Nat /\ keepalive \in Nat
      BY <1>2, <2>1, ClockType, NumberTypes
    <3>2. ~(Elapsed(last_activity, pnow[w]) >= keepalive)
      BY <1>1, <1>8 DEF PingDue, Timely
    <3>. QED BY <3>1, <3>2
  <2>3. PICK a \in {tx_age, rx_age} : Shows(last_activity, a, now)
    BY <1>2, <1>8 DEF Stamped, last_activity
  <2>4. a \in Nat /\ a < ClockMod /\ Idle <= a
    BY <1>2, <1>8, NumberTypes, IdleIsLeast
  <2>5. a < keepalive + MaxCall
    BY <1>6, <2>1, <2>2, <2>3, <2>4
  <2>. QED BY <1>2, <2>4, <2>5, NumberTypes, IdleIsLeast
<1>9. \A g \in Nat : tx_age <= g /\ g < keepalive + MaxCall => Idle < keepalive + MaxCall
  BY <1>2, NumberTypes, IdleIsLeast
<1>. QED BY <1>7, <1>8, <1>9

LEMMA LateAfter ==
  ASSUME TypeOK'
  PROVE  Late' \in Nat /\ Late' <= MaxLag + MaxCall
<1>1. "worker" \in Callers
  BY DEF Callers
<1>2. /\ lag'["worker"] \in Nat
      /\ lag'["worker"] <= IF pc'["worker"] = "idle" THEN MaxLag ELSE MaxCall
  BY <1>1 DEF TypeOK, Bound
<1>. QED BY <1>2, SessionAssumption DEF Late

LEMMA SlackAfter ==
  ASSUME TypeOK'
  PROVE  Slack' \in Nat /\ MaxCall <= Slack'
<1>1. "worker" \in Callers
  BY DEF Callers
<1>2. lag'["worker"] \in Nat
  BY <1>1 DEF TypeOK
<1>. QED BY <1>2, SessionAssumption DEF Slack

LEMMA KeepsWellKept ==
  ASSUME SessionInv, TypeOK', [Next]_vars
  PROVE  WellKept'
<1>1. TypeOK /\ Polling /\ WellKept
  BY DEF SessionInv
<1>2. /\ now \in Clock /\ Slack \in Nat /\ MaxCall <= Slack
      /\ Slack <= MaxLag + 2 * MaxCall /\ Slack' \in Nat /\ MaxCall <= Slack'
      /\ tx_age \in Nat /\ rx_age \in Nat /\ keepalive \in Nat
      /\ MaxLag \in Nat /\ MaxCall \in Nat /\ ClockMod \in Nat
  BY <1>1, NumberTypes, WorkerLag, SlackAfter DEF TypeOK
<1>3. CASE ~connected' \/ ~Alive'
  BY <1>3 DEF WellKept
<1>4. CASE RecvConnack
  <2>1. /\ ping' = Unset /\ rx_age' = 0 /\ UNCHANGED tx_age
        /\ keepalive' \in {keepalive} \cup ServerKeepalives
    BY <1>4 DEF RecvConnack, NoPing, Received, NothingSent
  <2>2. keepalive' \in Nat
    BY <1>2, <2>1, SessionAssumption
  <2>3. keepalive' # 0 => 0 < keepalive' + Slack'
    <3> DEFINE k == keepalive'
              l == Slack'
    <3>1. k \in Nat /\ l \in Nat
      BY <1>2, <2>2
    <3> HIDE DEF k, l
    <3>2. k # 0 => 0 < k + l
      BY <3>1
    <3>. QED BY <3>2 DEF k, l
  <2>4. Idle' = 0
    BY <1>2, <2>1 DEF Idle
  <2>. QED BY <2>1, <2>3, <2>4 DEF WellKept, Timely
<1>5. CASE Tick
  <2>1. /\ UNCHANGED <<connected, peer, keepalive, ping>>
        /\ Slack' = Slack + 1
        /\ tx_age' = CountUp(tx_age) /\ rx_age' = CountUp(rx_age)
    <3>1. LocalType /\ "worker" \in Callers /\ Counts("worker")
      BY <1>1 DEF TypeOK, LocalType, Callers, Counts
    <3>2. lag'["worker"] = lag["worker"] + 1 /\ pc' = pc
      BY <1>5, <3>1, TickLag
    <3>3. Slack' = Slack + 1
      BY <1>1, <3>2, WorkerLag, SessionAssumption DEF Slack
    <3>. QED BY <1>5, <3>3 DEF Tick, status
  <2> SUFFICES ASSUME connected, Alive, Timely
               PROVE  /\ tx_age' < ClockMod /\ rx_age' < ClockMod
                           => Idle' < keepalive + (Slack + 1)
                      /\ ping # Unset => \E g \in Nat : /\ Shows(ping, g, now') /\ tx_age' <= g
                                                        /\ g < keepalive + (Slack + 1)
    BY <2>1 DEF WellKept, Alive, Timely
  <2>2. tx_age' < ClockMod /\ rx_age' < ClockMod
          => tx_age' = tx_age + 1 /\ rx_age' = rx_age + 1
             /\ tx_age < ClockMod /\ rx_age < ClockMod
    BY <1>2, <2>1 DEF CountUp
  <2>3. tx_age' < ClockMod /\ rx_age' < ClockMod => Idle' = Idle + 1
    BY <1>2, <2>2 DEF Idle
  <2>4. Idle \in Nat
    BY <1>1, IdleIsLeast
  <2>5. tx_age' < ClockMod /\ rx_age' < ClockMod => Idle' < keepalive + (Slack + 1)
    BY <1>1, <1>2, <2>2, <2>3, <2>4 DEF WellKept
  <2>6. ASSUME ping # Unset
        PROVE  \E g \in Nat : /\ Shows(ping, g, now') /\ tx_age' <= g
                              /\ g < keepalive + (Slack + 1)
    <3>1. PICK g \in Nat : /\ Shows(ping, g, now) /\ tx_age <= g
                           /\ g < keepalive + Slack
      BY <1>1, <2>6 DEF WellKept
    <3>2. ping \in Clock
      BY <1>1, <2>6 DEF TypeOK
    <3>3. Shows(ping, g + 1, now')
      BY <1>1, <1>5, <3>1, <3>2, TickShows
    <3>4. tx_age' <= g + 1 /\ g + 1 < keepalive + (Slack + 1) /\ g + 1 \in Nat
      BY <1>2, <2>1, <3>1 DEF CountUp
    <3>. QED BY <3>3, <3>4
  <2>. QED BY <2>5, <2>6
<1>6. CASE ProcessNothing("worker")
  BY <1>6, NothingKeepsWellKept
<1>7. ASSUME NEW t \in Callers, ProcessMarkPing(t)
      PROVE  WellKept'
  <2>1. /\ pc[t] = "pinging" /\ ping' = pnow[t]
        /\ UNCHANGED <<now, connected, peer, keepalive, tx_age, rx_age>>
    BY <1>7 DEF ProcessMarkPing, stamps
  <2>2. PICK d \in 0..lag[t] : Shows(pnow[t], d, now) /\ tx_age <= d
    BY <1>1, <2>1 DEF Polling, ReadAt
  <2>3. d \in Nat /\ d <= MaxCall /\ Idle \in Nat /\ Idle <= tx_age
    BY <1>1, <2>1, <2>2, NumberTypes, IdleIsLeast DEF Bound
  <2>4. keepalive # 0 => d < keepalive + Slack' /\ Idle < keepalive + Slack'
    <3> DEFINE l == Slack'
    <3>1. l \in Nat /\ MaxCall <= l
      BY <1>2
    <3> HIDE DEF l
    <3>2. keepalive # 0 => d < keepalive + l /\ Idle < keepalive + l
      BY <1>2, <2>2, <2>3, <3>1
    <3>. QED BY <3>2 DEF l
  <2>. QED BY <2>1, <2>2, <2>3, <2>4 DEF WellKept, Timely, Idle
<1>8. CASE /\ UNCHANGED <<now, connected, keepalive>> /\ Alive
           /\ Slack' >= Slack
           /\ tx_age' = tx_age \/ tx_age' = 0
           /\ rx_age' = rx_age \/ rx_age' = 0
           /\ ping' = ping \/ ping' = Unset
  <2> DEFINE l == Slack'
  <2> SUFFICES ASSUME connected, Timely
               PROVE  /\ tx_age' < ClockMod /\ rx_age' < ClockMod
                           => Idle' < keepalive + l
                      /\ ping' # Unset => \E g \in Nat : /\ Shows(ping, g, now) /\ tx_age' <= g
                                                         /\ g < keepalive + l
    BY <1>8 DEF WellKept, Timely
  <2>0. l \in Nat /\ Slack <= l
    BY <1>2, <1>8
  <2> HIDE DEF l
  <2>1. tx_age' < ClockMod /\ rx_age' < ClockMod => Idle' < keepalive + l
    <3>1. CASE tx_age' = tx_age /\ rx_age' = rx_age
      <4>1. Idle' = Idle /\ Idle \in Nat
        BY <1>1, <3>1, IdleIsLeast DEF Idle
      <4>2. tx_age < ClockMod /\ rx_age < ClockMod => Idle < keepalive + Slack
        BY <1>1, <1>8 DEF WellKept
      <4>. QED BY <1>2, <2>0, <3>1, <4>1, <4>2
    <3>2. CASE tx_age' = 0 \/ rx_age' = 0
      <4>1. Idle' = 0
        BY <1>2, <1>8, <3>2 DEF Idle
      <4>2. keepalive > 0
        BY <1>2 DEF Timely
      <4>. QED BY <1>2, <2>0, <4>1, <4>2
    <3>. QED BY <1>8, <3>1, <3>2
  <2>2. ASSUME ping' # Unset
        PROVE  \E g \in Nat : /\ Shows(ping, g, now) /\ tx_age' <= g
                              /\ g < keepalive + l
    <3>1. PICK g \in Nat : /\ Shows(ping, g, now) /\ tx_age <= g
                           /\ g < keepalive + Slack
      BY <1>1, <1>8, <2>2 DEF WellKept
    <3>. QED BY <1>2, <1>8, <2>0, <3>1
  <2>. QED BY <2>1, <2>2
<1>9. LocalType
  BY <1>1 DEF TypeOK, LocalType
<1>10. \/ ~connected' \/ ~Alive' \/ RecvConnack \/ Tick \/ ProcessNothing("worker")
       \/ \E t \in Callers : ProcessMarkPing(t)
       \/ /\ UNCHANGED <<now, connected, keepalive>> /\ Alive
          /\ Slack' >= Slack
          /\ tx_age' = tx_age \/ tx_age' = 0
          /\ rx_age' = rx_age \/ rx_age' = 0
          /\ ping' = ping \/ ping' = Unset
  BY <1>1, <1>9, KeepaliveSteps
<1>. QED BY <1>3, <1>4, <1>5, <1>6, <1>7, <1>8, <1>10

-----------------------------------------------------------------------------
(* What the steps do to a scheduled reconnect                              *)

(* A step other than a tick that keeps the schedule leaves the worker where
   it was, ends its call, or finds that the time has not come.             *)
LEMMA ScheduleSteps ==
  ASSUME TypeOK, Scheduled, [Next]_vars
  PROVE  \/ reconnect' = Unset
         \/ DropSession /\ UNCHANGED now
         \/ Tick
         \/ ProcessIdle("worker") /\ UNCHANGED <<now, connected, reconnect>>
         \/ UNCHANGED <<now, connected, reconnect>> /\ Late' >= Late
<1> USE DEF status, local, stamps, answer
<1>1. LocalType /\ "worker" \in Callers
  BY DEF TypeOK, LocalType, Callers
<1>2. UNCHANGED <<pc, lag>> => Late' >= Late
  BY WorkerLag DEF Late
<1>3. ASSUME NEW t \in Callers, Return(t), t # "worker" \/ pc[t] # "idle"
      PROVE  Late' >= Late
  <2>1. CASE t = "worker"
    <3>1. /\ pc[t] # "idle" /\ pc'[t] = "idle" /\ lag'[t] = 0
          /\ lag[t] \in Nat /\ lag[t] <= MaxCall
      BY <1>1, <1>3, <2>1, NumberTypes DEF Return, LocalType, Bound
    <3>2. Late = lag[t] /\ Late' = MaxCall
      BY <2>1, <3>1, SessionAssumption DEF Late
    <3>. QED BY <3>1, <3>2, SessionAssumption
  <2>2. CASE t # "worker"
    <3>1. lag'["worker"] = lag["worker"] /\ pc'["worker"] = pc["worker"]
      BY <1>1, <1>3, <2>2 DEF Return, LocalType
    <3>. QED BY <3>1, WorkerLag DEF Late
  <2>. QED BY <2>1, <2>2
<1>4. CASE Connect \/ Disconnect \/ RecvConnack
  BY <1>4 DEF Connect, Disconnect, RecvConnack, NoxConnect
<1>5. CASE RecvDisconnect \/ ReportLoss
  BY <1>5 DEF RecvDisconnect, ReportLoss
<1>6. CASE Write \/ RecvPingresp \/ RecvOther \/ Close \/ FallSilent \/ UNCHANGED vars
  BY <1>2, <1>6 DEF Write, RecvPingresp, RecvOther, Close, FallSilent, vars
<1>7. ASSUME NEW t \in Callers, ProcessStep(t), reconnect' # Unset
      PROVE  \/ DropSession /\ UNCHANGED now
             \/ ProcessIdle("worker") /\ UNCHANGED <<now, connected, reconnect>>
             \/ UNCHANGED <<now, connected, reconnect>> /\ Late' >= Late
  <2>1. CASE ProcessIdle(t)
    <3>1. Return(t) /\ UNCHANGED <<now, connected, reconnect>>
      BY <2>1 DEF ProcessIdle
    <3>. QED BY <1>3, <2>1, <3>1
  <2>2. CASE Reconnect(t) \/ ProcessTimeout(t)
    BY <1>7, <2>2 DEF Reconnect, NoxConnect, ProcessTimeout
  <2>3. CASE ProcessBegin(t)
    BY <1>7, <2>3 DEF ProcessBegin, Scheduled
  <2>4. CASE ProcessPump(t)
    BY <1>2, <2>4 DEF ProcessPump
  <2>5. CASE ProcessNothing(t) \/ ProcessSendFails(t)
    <3>1. /\ pc[t] # "idle" /\ Return(t)
          /\ UNCHANGED <<now, connected, reconnect>>
      BY <2>5 DEF ProcessNothing, ProcessSendFails
    <3>. QED BY <1>3, <3>1
  <2>6. CASE ProcessPing(t)
    <3>1. /\ pc' = [pc EXCEPT ![t] = "pinging"] /\ pc[t] # "idle"
          /\ UNCHANGED <<now, connected, reconnect, lag>>
      BY <2>6 DEF ProcessPing
    <3>2. Late' >= Late
      BY <1>1, <3>1, WorkerLag DEF Late, LocalType
    <3>. QED BY <3>1, <3>2
  <2>7. CASE ProcessMarkPing(t)
    <3>1. /\ pc[t] # "idle" /\ pc' = [pc EXCEPT ![t] = "idle"]
          /\ lag' = [lag EXCEPT ![t] = 0]
          /\ UNCHANGED <<now, connected, reconnect>>
      BY <2>7 DEF ProcessMarkPing
    <3>2. CASE t = "worker"
      <4>1. /\ pc'[t] = "idle" /\ lag'[t] = 0 /\ lag[t] \in Nat /\ lag[t] <= MaxCall
        BY <1>1, <3>1, <3>2, NumberTypes DEF LocalType, Bound
      <4>2. Late = lag[t] /\ Late' = MaxCall
        BY <3>1, <3>2, <4>1, SessionAssumption DEF Late
      <4>. QED BY <3>1, <4>1, <4>2, SessionAssumption
    <3>3. CASE t # "worker"
      <4>1. lag'["worker"] = lag["worker"] /\ pc'["worker"] = pc["worker"]
        BY <1>1, <3>1, <3>3 DEF LocalType
      <4>. QED BY <3>1, <4>1, WorkerLag DEF Late
    <3>. QED BY <3>2, <3>3
  <2>. QED BY <1>7, <2>1, <2>2, <2>3, <2>4, <2>5, <2>6, <2>7 DEF ProcessStep
<1>. QED BY <1>4, <1>5, <1>6, <1>7 DEF Next

LEMMA KeepsScheduled ==
  ASSUME TypeOK, TypeOK', Scheduled, [Next]_vars
  PROVE  Scheduled'
<1> SUFFICES ASSUME reconnect' # Unset
             PROVE  /\ ~connected' /\ AutoReconnect
                    /\ reconnect' + MaxLag + MaxCall < ClockMod =>
                         \/ \E r \in 0..ReconnectDelay : Shows(now', r, reconnect')
                         \/ \E o \in 0..Late' : now' = reconnect' + o
  BY DEF Scheduled
<1>1. /\ now \in Clock /\ now \in Nat /\ Late \in Nat /\ Late' \in Nat
      /\ Late' <= MaxLag + MaxCall
      /\ MaxLag \in Nat /\ MaxCall \in Nat /\ ClockMod \in Nat /\ ReconnectDelay \in Nat
  BY ClockType, WorkerLag, LateAfter, SessionAssumption DEF TypeOK
<1>2. CASE DropSession /\ UNCHANGED now
  <2>1. /\ ~connected' /\ AutoReconnect
        /\ reconnect' = (now + ReconnectDelay) % ClockMod
    BY <1>2 DEF DropSession
  <2>2. ReconnectDelay \in 0..ReconnectDelay /\ Shows(now', ReconnectDelay, reconnect')
    BY <1>1, <1>2, <2>1 DEF Shows
  <2>. QED BY <2>1, <2>2
<1>3. CASE Tick
  <2>1. UNCHANGED <<connected, reconnect>> /\ now' = (now + 1) % ClockMod
    BY <1>3 DEF Tick, status
  <2>2. ~connected /\ AutoReconnect /\ reconnect \in Clock /\ reconnect \in Nat
    BY <2>1, ClockType DEF Scheduled, TypeOK
  <2>3. Late' = Late + 1
    <3>1. LocalType /\ "worker" \in Callers /\ Counts("worker")
      BY DEF TypeOK, LocalType, Callers, Counts
    <3>2. lag'["worker"] = lag["worker"] + 1 /\ pc' = pc
      BY <1>3, <3>1, TickLag
    <3>. QED BY <3>2, WorkerLag, SessionAssumption DEF Late
  <2> SUFFICES ASSUME reconnect + MaxLag + MaxCall < ClockMod
               PROVE  \/ \E r \in 0..ReconnectDelay : Shows(now', r, reconnect)
                      \/ \E o \in 0..Late' : now' = reconnect + o
    BY <2>1, <2>2
  <2>4. CASE \E r \in 1..ReconnectDelay : Shows(now, r, reconnect)
    <3>1. PICK r \in 1..ReconnectDelay : Shows(now, r, reconnect)
      BY <2>4
    <3> DEFINE q == r - 1
    <3>2. q \in Nat /\ q \in 0..ReconnectDelay /\ q + 1 = r
      BY <1>1
    <3> HIDE DEF q
    <3>3. Shows(now, q + 1, reconnect)
      BY <3>1, <3>2
    <3>4. Shows(now', q, reconnect)
      BY <1>1, <2>1, <2>2, <3>2, <3>3, ShowsPrevious
    <3>. QED BY <3>2, <3>4
  <2>5. CASE \E o \in 0..Late : now = reconnect + o
    <3>1. PICK o \in 0..Late : now = reconnect + o
      BY <2>5
    <3>2. o + 1 \in 0..Late' /\ now + 1 = reconnect + (o + 1) /\ now + 1 < ClockMod
      BY <1>1, <2>2, <2>3, <3>1
    <3>3. now + 1 \in Clock
      BY <1>1, <3>2 DEF Clock
    <3>4. now' = now + 1
      BY <2>1, <3>3, ModSmall
    <3>. QED BY <3>2, <3>4
  <2>6. Shows(now, 0, reconnect) => now = reconnect + 0
    <3>1. now + 0 = now /\ now % ClockMod = now
      BY <1>1, ModSmall
    <3>. QED BY <2>2, <3>1 DEF Shows
  <2>7. \/ \E r \in 0..ReconnectDelay : Shows(now, r, reconnect)
        \/ \E o \in 0..Late : now = reconnect + o
    BY <2>1 DEF Scheduled
  <2>8. \A r \in 0..ReconnectDelay : r = 0 \/ r \in 1..ReconnectDelay
    BY <1>1
  <2>9. 0 \in 0..Late
    BY <1>1
  <2>. QED BY <2>4, <2>5, <2>6, <2>7, <2>8, <2>9
<1>4. CASE ProcessIdle("worker") /\ UNCHANGED <<now, connected, reconnect>>
  <2>1. ~connected /\ AutoReconnect /\ reconnect \in Nat
    BY <1>4, ClockType DEF Scheduled, TypeOK
  <2>2. ~(now >= reconnect)
    BY <1>4, <2>1 DEF ProcessIdle, ReconnectDue
  <2>3. ~\E o \in 0..Late : now = reconnect + o
    BY <1>1, <2>1, <2>2
  <2>. QED BY <1>4, <2>1, <2>3 DEF Scheduled
<1>5. CASE UNCHANGED <<now, connected, reconnect>> /\ Late' >= Late
  <2>1. 0..Late \subseteq 0..Late'
    BY <1>1, <1>5
  <2>. QED BY <1>5, <2>1 DEF Scheduled
<1>. QED BY <1>2, <1>3, <1>4, <1>5, ScheduleSteps

LEMMA SessionInvariant == Spec => []SessionInv
<1>1. SessionInv /\ [Next]_vars => SessionInv'
  <2> SUFFICES ASSUME SessionInv, [Next]_vars PROVE SessionInv'
    OBVIOUS
  <2>1. TypeOK'
    BY NextType DEF SessionInv
  <2>2. Stamped' /\ PingAnswered' /\ Polling'
    BY <2>1, KeepsStamped, KeepsFlags, KeepsPolling DEF SessionInv
  <2>3. WellKept' /\ Scheduled'
    BY <2>1, KeepsWellKept, KeepsScheduled DEF SessionInv
  <2>. QED BY <2>1, <2>2, <2>3 DEF SessionInv
<1>. QED BY <1>1, InitInv, PTL DEF Spec

-----------------------------------------------------------------------------
(* What follows for the program                                            *)

(* A connected client whose worker polls noxmqtt_process never lets the
   keepalive pass, by more than a poll and two calls of process, without a
   packet in one direction or the other, although last_activity is the larger
   of two stamps of a clock that wraps round.                              *)
THEOREM KeepaliveIsKept == Spec => []KeptAlive
<1>1. SessionInv => KeptAlive
  <2> SUFFICES ASSUME SessionInv, connected, Alive, keepalive # 0,
                      tx_age < ClockMod, rx_age < ClockMod
               PROVE  Idle < keepalive + MaxLag + 2 * MaxCall
    BY DEF KeptAlive
  <2>1. TypeOK /\ WellKept
    BY DEF SessionInv
  <2>2. Idle \in Nat /\ Idle < ClockMod
    BY <2>1, IdleIsLeast, NumberTypes
  <2>3. CASE keepalive + MaxLag + 2 * MaxCall < ClockMod
    <3>1. Idle < keepalive + Slack
      BY <2>1, <2>3 DEF WellKept, Timely
    <3>. QED BY <2>1, <2>2, <3>1, NumberTypes, WorkerLag
  <2>4. CASE ~(keepalive + MaxLag + 2 * MaxCall < ClockMod)
    BY <2>1, <2>2, <2>4, NumberTypes
  <2>. QED BY <2>3, <2>4
<1>. QED BY <1>1, SessionInvariant, PTL

(* process gives a connection up only if its PINGREQ has been unanswered for
   the keepalive, less the time one call of process takes; or if the PINGRESP
   was handled before a caller had marked its PINGREQ; or if the other caller
   marked one after this call had read the clock.                          *)
THEOREM TimeoutsAreReal == Spec => TimeoutIsReal
<1>1. ASSUME SessionInv, NEW t \in Callers, ProcessTimeout(t), t \notin crossed
      PROVE  missed \/ (pinged # Unset /\ pinged + MaxCall >= keepalive)
  <2>1. /\ pc[t] = "begun" /\ keepalive # 0 /\ ping # Unset
        /\ Elapsed(ping, pnow[t]) >= keepalive
    BY <1>1 DEF ProcessTimeout, PingOverdue
  <2>2. TypeOK /\ (missed \/ pinged # Unset)
    BY <1>1, <2>1 DEF SessionInv, PingAnswered
  <2> SUFFICES ASSUME pinged # Unset
               PROVE  pinged + MaxCall >= keepalive
    BY <2>2
  <2>3. /\ now \in Clock /\ pnow[t] \in Clock /\ ping \in Clock /\ pinged \in Nat
        /\ keepalive \in Nat /\ MaxCall \in Nat /\ ClockMod \in Nat
    BY <1>1, <2>1, <2>2, NumberTypes DEF TypeOK
  <2>4. Elapsed(ping, pnow[t]) \in Nat /\ Elapsed(ping, pnow[t]) < ClockMod
    BY <2>3, ElapsedType DEF Clock
  <2>5. CASE pinged >= ClockMod
    BY <2>1, <2>3, <2>4, <2>5
  <2>6. CASE pinged < ClockMod
    <3>1. PICK d \in 0..lag[t] : Shows(pnow[t], d, now) /\ PingDated(d)
      BY <1>1, <2>1 DEF SessionInv, Polling, ReadAt
    <3>2. PICK e \in 0..MaxCall : Shows(ping, e + pinged, now) /\ d <= e + pinged
      BY <2>1, <2>2, <2>6, <3>1 DEF PingDated
    <3>3. d \in Nat /\ e \in Nat /\ e <= MaxCall /\ e + pinged \in Nat /\ (e + pinged) - d \in Nat
      BY <1>1, <2>2, <2>3, <3>1, <3>2, NumberTypes
    <3>4. Elapsed(ping, pnow[t]) = ((e + pinged) - d) % ClockMod
      BY <2>3, <3>1, <3>2, <3>3, ElapsedBetween
    <3>5. Elapsed(ping, pnow[t]) <= (e + pinged) - d
      BY <3>3, <3>4, ModBelow
    <3>. QED BY <2>1, <2>3, <2>4, <3>3, <3>5
  <2>. QED BY <2>3, <2>5, <2>6
<1>2. SessionInv /\ [Next]_vars
        => [\A t \in Callers : ProcessTimeout(t) =>
              missed \/ t \in crossed \/ (pinged # Unset /\ pinged + MaxCall >= keepalive)]_vars
  BY <1>1
<1>. QED BY <1>2, SessionInvariant, PTL DEF Spec, TimeoutIsReal

(* A reconnect that is scheduled is attempted, or no longer needed, at the
   latest one poll after it is due, unless it is due within a poll of the
   clock's wrapping round, where now >= next_reconnect_ms may be false at
   every poll.                                                             *)
THEOREM ReconnectsAreInTime == Spec => []ReconnectsInTime
<1>1. SessionInv => ReconnectsInTime
  <2> SUFFICES ASSUME SessionInv, reconnect # Unset,
                      reconnect + MaxLag + MaxCall < ClockMod
               PROVE  \/ Elapsed(now, reconnect) <= ReconnectDelay
                      \/ Elapsed(reconnect, now) <= MaxLag + MaxCall
    BY DEF ReconnectsInTime
  <2>0. ReconnectDelay \in Nat /\ MaxLag \in Nat /\ MaxCall \in Nat
    BY SessionAssumption
  <2>1. TypeOK /\ now \in Clock /\ reconnect \in Clock /\ reconnect \in Nat
    BY ClockType DEF SessionInv, TypeOK
  <2>2. Shows(now, 0, now) /\ Shows(reconnect, 0, reconnect)
    BY <2>1, ShowsItself
  <2>3. CASE \E r \in 0..ReconnectDelay : Shows(now, r, reconnect)
    <3>1. PICK r \in 0..ReconnectDelay : Shows(now, r, reconnect)
      BY <2>3
    <3>2. r \in Nat /\ 0 <= r /\ r - 0 = r /\ r <= ReconnectDelay
      BY <2>0
    <3>3. Elapsed(now, reconnect) = r % ClockMod
      BY <2>1, <2>2, <3>1, <3>2, ElapsedBetween
    <3>4. r % ClockMod \in Nat /\ r % ClockMod <= r
      BY <3>2, ModBelow, ClockType
    <3> DEFINE q == r % ClockMod
    <3>5. q \in Nat /\ q <= r /\ Elapsed(now, reconnect) = q
      BY <3>3, <3>4
    <3> HIDE DEF q
    <3>. QED BY <2>0, <3>2, <3>5
  <2>4. CASE \E o \in 0..Late : now = reconnect + o
    <3>1. PICK o \in 0..Late : now = reconnect + o
      BY <2>4
    <3>2. o \in Nat /\ 0 <= o /\ o - 0 = o /\ o <= MaxLag + MaxCall
      BY <2>0, <2>1, WorkerLag
    <3>3. Shows(reconnect, o, now)
      BY <2>1, <3>1, ModSmall DEF Shows
    <3>4. Elapsed(reconnect, now) = o % ClockMod
      BY <2>1, <2>2, <3>2, <3>3, ElapsedBetween
    <3>5. o % ClockMod \in Nat /\ o % ClockMod <= o
      BY <3>2, ModBelow, ClockType
    <3> DEFINE q == o % ClockMod
    <3>6. q \in Nat /\ q <= o /\ Elapsed(reconnect, now) = q
      BY <3>4, <3>5
    <3> HIDE DEF q
    <3>. QED BY <2>0, <3>2, <3>6
  <2>. QED BY <2>3, <2>4 DEF SessionInv, Scheduled
<1>. QED BY <1>1, SessionInvariant, PTL
=============================================================================
