--------------------------- MODULE InboundProofs ---------------------------
(***************************************************************************)
(* Theorems about Inbound, for all messages, topics, alias capacities and  *)
(* maxima: type correctness, that every message is reported under its      *)
(* topic, that it is reported twice only when an acknowledgement was lost, *)
(* and that the receiving side implements ReliableDelivery.                *)
(***************************************************************************)
EXTENDS Inbound, TLAPS

-----------------------------------------------------------------------------
(* The inductive invariant                                                 *)

FromBroker ==
  [type : {"PUBLISH"}, msg : Msg \cup {NoMsg}, qos : {0, 1, 2}, topic : Topic \cup {Empty},
   alias : 0..Announced, meant : Topic]
  \cup [type : {"PUBREL"}, msg : Msg]

FromClient == [type : {"PUBACK", "PUBREC", "PUBCOMP"}, msg : Msg]

WireTypeOK ==
  /\ toClient \in Seq(FromBroker)
  /\ toBroker \in Seq(FromClient)
  /\ \A i \in 1..Len(toClient) :
       toClient[i].type = "PUBLISH" => (toClient[i].msg = NoMsg <=> toClient[i].qos = 0)

(* Without a connection nothing is under way, and no alias is known; the
   handler of the last connection may still be in the event of a message.  *)
NoAliases(n) == [a \in 1..n |-> NoTopic]

LinkInv ==
  /\ link = "connecting" => handler = "idle"
  /\ link \in {"down", "connecting"} =>
    /\ ~connected
    /\ toBroker = <<>> /\ toClient = <<>> /\ again = {}
    /\ topic_aliases = NoAliases(Capacity) /\ given = NoAliases(Announced)

TypeInv == TypeOK /\ WireTypeOK /\ LinkInv

(* The i-th packet from the broker is a PUBLISH of m.                      *)
Publishes(i, m) == toClient[i].type = "PUBLISH" /\ toClient[i].msg = m

(* The i-th packet from the client acknowledges a PUBLISH of m.            *)
Acks(i, m) == toBroker[i].type \in {"PUBACK", "PUBREC"} /\ toBroker[i].msg = m

Acked(m) == \E i \in 1..Len(toBroker) : Acks(i, m)

(* A PUBLISH is under way once, and not while its acknowledgement is.      *)
OneAtATime(m) ==
  /\ \A i \in 1..Len(toClient) : Publishes(i, m) =>
       /\ inbox[m] = "sent" /\ m \notin again /\ ~Acked(m)
       /\ \A j \in 1..Len(toClient) : Publishes(j, m) => i = j
  /\ Acked(m) => Told[m] > 0 /\ inbox[m] # "new" /\ m \notin again

(* PUBREL and PUBCOMP are about messages the broker has released.          *)
Released(m) ==
  /\ \A i \in 1..Len(toClient) :
       toClient[i].type = "PUBREL" /\ toClient[i].msg = m => inbox[m] \in {"released", "done"}
  /\ \A i \in 1..Len(toBroker) :
       toBroker[i].type = "PUBCOMP" /\ toBroker[i].msg = m => inbox[m] \in {"released", "done"}

(* What was reported, or is about to be, and not lost is acknowledged or
   about to be.                                                            *)
ReportedOnce(m) ==
  /\ inbox[m] = "new" => Told[m] = 0
  /\ inbox[m] = "sent" => content[m] \in [topic : Topic, qos : Qos]
  /\ Told[m] > 0 /\ m \notin unanswered /\ inbox[m] = "sent" => Acked(m)
  /\ Told[m] = 2 => m \in unanswered

MsgInv == \A m \in Msg : OneAtATime(m) /\ Released(m) /\ ReportedOnce(m)

(* The i-th packet under way tells the client of alias a.                  *)
Tells(i, a) == toClient[i].type = "PUBLISH" /\ toClient[i].alias = a /\ toClient[i].topic # Empty

(* After n packets alias a means t to the client.                          *)
Knows(a, t, n) ==
  \/ \E i \in 1..n : /\ Tells(i, a) /\ toClient[i].topic = t
                     /\ \A j \in 1..n : Tells(j, a) => j <= i
  \/ topic_aliases[a] = t /\ \A j \in 1..n : ~Tells(j, a)

Resolves(i) ==
  LET p == toClient[i] IN
  p.type = "PUBLISH" =>
    /\ p.topic # Empty => p.meant = p.topic
    /\ p.topic = Empty /\ p.alias \in Alias => Knows(p.alias, p.meant, i - 1)

TopicInv ==
  /\ \A i \in 1..Len(toClient) : Resolves(i)
  /\ \A a \in 1..Announced : a \in Alias /\ given[a] # NoTopic => Knows(a, given[a], Len(toClient))
  /\ RightTopic

Inv == TypeInv /\ MsgInv /\ TopicInv

-----------------------------------------------------------------------------
(* What the client will know of the aliases                                *)

(* A packet that is sent changes what the client will know of its own alias
   only, and only if it is a PUBLISH with a topic.                         *)
LEMMA KnowsAfterSend ==
  ASSUME toClient \in Seq(FromBroker), NEW p \in FromBroker, toClient' = Append(toClient, p),
         UNCHANGED topic_aliases, NEW n \in Nat, n = Len(toClient), NEW b, NEW t
  PROVE  /\ \A k \in 0..n : Knows(b, t, k) => Knows(b, t, k)'
         /\ Knows(b, t, n) /\ ~(p.type = "PUBLISH" /\ p.alias = b /\ p.topic # Empty)
              => Knows(b, t, n + 1)'
         /\ p.type = "PUBLISH" /\ p.topic # Empty => Knows(p.alias, p.topic, n + 1)'
<1>1. /\ Len(toClient') = n + 1 /\ toClient'[n + 1] = p
      /\ \A i \in 1..n : toClient'[i] = toClient[i]
  OBVIOUS
<1>2. \A a : \A i \in 1..n : Tells(i, a)' <=> Tells(i, a)
  BY <1>1 DEF Tells
<1>3. ASSUME NEW k \in 0..n, Knows(b, t, k) PROVE Knows(b, t, k)'
  <2>1. \A i \in 1..k : i \in 1..n
    OBVIOUS
  <2>. QED BY <1>1, <1>2, <1>3, <2>1 DEF Knows
<1>4. \A a : Tells(n + 1, a)' <=> p.type = "PUBLISH" /\ p.alias = a /\ p.topic # Empty
  BY <1>1 DEF Tells
<1>5. ASSUME Knows(b, t, n), ~(p.type = "PUBLISH" /\ p.alias = b /\ p.topic # Empty)
      PROVE  Knows(b, t, n + 1)'
  <2>1. \A j \in 1..(n + 1) : Tells(j, b)' => j \in 1..n /\ Tells(j, b)
    BY <1>2, <1>4, <1>5
  <2>2. CASE topic_aliases[b] = t /\ \A j \in 1..n : ~Tells(j, b)
    BY <2>1, <2>2 DEF Knows
  <2>3. CASE \E i \in 1..n : /\ Tells(i, b) /\ toClient[i].topic = t
                             /\ \A j \in 1..n : Tells(j, b) => j <= i
    <3>1. PICK i \in 1..n : /\ Tells(i, b) /\ toClient[i].topic = t
                            /\ \A j \in 1..n : Tells(j, b) => j <= i
      BY <2>3
    <3>2. i \in 1..(n + 1) /\ Tells(i, b)' /\ toClient'[i].topic = t
      BY <3>1, <1>1, <1>2
    <3>3. \A j \in 1..(n + 1) : Tells(j, b)' => j <= i
      BY <2>1, <3>1
    <3>. QED BY <3>2, <3>3 DEF Knows
  <2>. QED BY <1>5, <2>2, <2>3 DEF Knows
<1>6. ASSUME p.type = "PUBLISH", p.topic # Empty PROVE Knows(p.alias, p.topic, n + 1)'
  <2>1. Tells(n + 1, p.alias)' /\ toClient'[n + 1].topic = p.topic /\ n + 1 \in 1..(n + 1)
    BY <1>1, <1>4, <1>6
  <2>2. \A j \in 1..(n + 1) : Tells(j, p.alias)' => j <= n + 1
    OBVIOUS
  <2>. QED BY <2>1, <2>2 DEF Knows
<1>. QED BY <1>3, <1>5, <1>6

(* The client learns from the packet it reads what it was to tell.         *)
Learns ==
  \A b \in Alias : topic_aliases'[b] = IF Tells(1, b) THEN toClient[1].topic ELSE topic_aliases[b]

LEMMA KnowsAfterRead ==
  ASSUME toClient \in Seq(FromBroker), toClient # <<>>, toClient' = Tail(toClient), Learns,
         NEW b \in Alias, NEW t, NEW k \in 1..Len(toClient), Knows(b, t, k)
  PROVE  Knows(b, t, k - 1)'
<1>1. /\ Len(toClient') = Len(toClient) - 1
      /\ \A i \in 1..(Len(toClient) - 1) : toClient'[i] = toClient[i + 1]
  OBVIOUS
<1>2. \A i \in 1..(k - 1) : Tells(i, b)' <=> Tells(i + 1, b)
  <2>1. \A i \in 1..(k - 1) : i \in 1..(Len(toClient) - 1)
    OBVIOUS
  <2>. QED BY <1>1, <2>1 DEF Tells
<1>3. \A j \in 1..(k - 1) : j + 1 \in 1..k
  OBVIOUS
<1>4. CASE topic_aliases[b] = t /\ \A j \in 1..k : ~Tells(j, b)
  <2>1. ~Tells(1, b)
    BY <1>4
  <2>2. topic_aliases'[b] = t
    BY <1>4, <2>1 DEF Learns
  <2>3. \A j \in 1..(k - 1) : ~Tells(j, b)'
    BY <1>2, <1>3, <1>4
  <2>. QED BY <2>2, <2>3 DEF Knows
<1>5. CASE \E i \in 1..k : /\ Tells(i, b) /\ toClient[i].topic = t
                           /\ \A j \in 1..k : Tells(j, b) => j <= i
  <2>1. PICK i \in 1..k : /\ Tells(i, b) /\ toClient[i].topic = t
                          /\ \A j \in 1..k : Tells(j, b) => j <= i
    BY <1>5
  <2>2. CASE i = 1
    <3>1. topic_aliases'[b] = t
      BY <2>1, <2>2 DEF Learns
    <3>2. \A j \in 1..(k - 1) : ~Tells(j, b)'
      BY <1>2, <1>3, <2>1, <2>2
    <3>. QED BY <3>1, <3>2 DEF Knows
  <2>3. CASE i # 1
    <3>1. i - 1 \in 1..(k - 1) /\ (i - 1) + 1 = i /\ i - 1 \in 1..(Len(toClient) - 1)
      BY <2>3
    <3>2. Tells(i - 1, b)' /\ toClient'[i - 1].topic = t
      BY <1>1, <1>2, <2>1, <3>1
    <3>3. \A j \in 1..(k - 1) : Tells(j, b)' => j <= i - 1
      BY <1>2, <1>3, <2>1
    <3>. QED BY <3>1, <3>2, <3>3 DEF Knows
  <2>. QED BY <2>2, <2>3
<1>. QED BY <1>4, <1>5 DEF Knows

-----------------------------------------------------------------------------
(* The packets and the variables keep their types                          *)

LEMMA InitInv == Init => Inv
<1> SUFFICES ASSUME Init PROVE Inv
  OBVIOUS
<1>1. toClient = <<>> /\ toBroker = <<>> /\ Len(toClient) = 0 /\ Len(toBroker) = 0
  BY DEF Init, ConnInit
<1>2. TypeInv
  <2>1. ConnTypeOK
    <3>1. connected \in BOOLEAN
      BY DEF Init, ConnInit
    <3>2. connects \in 0..MaxConnects
      BY ConnectionAssumption DEF Init, ConnInit
    <3>. QED BY <3>1, <3>2 DEF Init, ConnInit, ConnTypeOK
  <2>2. TypeOK
    BY <2>1 DEF Init, TypeOK, Unacknowledged
  <2>3. WireTypeOK
    BY <1>1 DEF WireTypeOK
  <2>. QED BY <2>2, <2>3 DEF TypeInv, Init, ConnInit, LinkInv, NoAliases, Alias
<1>3. MsgInv
  <2> SUFFICES ASSUME NEW m \in Msg PROVE OneAtATime(m) /\ Released(m) /\ ReportedOnce(m)
    BY DEF MsgInv
  <2>1. Told[m] = 0 /\ inbox[m] = "new"
    BY DEF Init, Told
  <2>. QED BY <1>1, <2>1 DEF OneAtATime, Released, ReportedOnce, Acked
<1>4. TopicInv
  BY <1>1 DEF TopicInv, Init, RightTopic
<1>. QED BY <1>2, <1>3, <1>4 DEF Inv

(* The PUBLISH the broker sends.                                           *)
PublishPacket(m, r, a, t) ==
  [type |-> "PUBLISH", msg |-> m, qos |-> r.qos, topic |-> t, alias |-> a, meant |-> r.topic]

LEMMA PublishPacketType ==
  ASSUME TypeInv, NEW m \in Msg \cup {NoMsg}, NEW r \in [topic : Topic, qos : {0, 1, 2}],
         m = NoMsg <=> r.qos = 0, NEW a \in 0..Announced, NEW t \in {r.topic, Empty}
  PROVE  PublishPacket(m, r, a, t) \in FromBroker
<1>1. r.qos \in {0, 1, 2} /\ r.topic \in Topic /\ t \in Topic \cup {Empty}
  OBVIOUS
<1>. QED BY <1>1 DEF PublishPacket, FromBroker

(* A packet more, or one less, keeps the queue to the client well typed.   *)
LEMMA SendKeepsWire ==
  ASSUME WireTypeOK, UNCHANGED toBroker, NEW p \in FromBroker, toClient' = Append(toClient, p),
         p.type = "PUBLISH" => (p.msg = NoMsg <=> p.qos = 0)
  PROVE  WireTypeOK'
<1>1. PICK n \in Nat : n = Len(toClient)
  BY DEF WireTypeOK
<1>2. /\ toClient' \in Seq(FromBroker) /\ Len(toClient') = n + 1 /\ toClient'[n + 1] = p
      /\ \A i \in 1..n : toClient'[i] = toClient[i]
  BY <1>1 DEF WireTypeOK
<1>. QED BY <1>1, <1>2 DEF WireTypeOK

LEMMA ReadKeepsWire ==
  ASSUME WireTypeOK, toBroker' \in Seq(FromClient), toClient # <<>>, toClient' = Tail(toClient)
  PROVE  WireTypeOK'
<1>1. /\ toClient' \in Seq(FromBroker) /\ Len(toClient') = Len(toClient) - 1
      /\ \A i \in 1..(Len(toClient) - 1) : toClient'[i] = toClient[i + 1]
  BY DEF WireTypeOK
<1>. QED BY <1>1 DEF WireTypeOK

(* The packet a handler reads.                                             *)
LEMMA FirstPacket ==
  ASSUME TypeInv, NEW type, Received(type)
  PROVE  /\ toClient # <<>> /\ Head(toClient) = toClient[1] /\ Head(toClient) \in FromBroker
         /\ Head(toClient).type = type /\ toClient' = Tail(toClient) /\ 1 \in 1..Len(toClient)
         /\ link \in {"up", "broken"} /\ connected /\ handler = "idle"
BY DEF TypeInv, WireTypeOK, LinkInv, Received, TypeOK, ConnTypeOK

LEMMA FirstPublish ==
  ASSUME TypeInv, Received("PUBLISH")
  PROVE  /\ Head(toClient).msg \in Msg \cup {NoMsg} /\ Head(toClient).qos \in {0, 1, 2}
         /\ Head(toClient).topic \in Topic \cup {Empty} /\ Head(toClient).alias \in 0..Announced
         /\ Head(toClient).meant \in Topic
         /\ Head(toClient).msg = NoMsg <=> Head(toClient).qos = 0
<1>1. Head(toClient) \in FromBroker /\ Head(toClient).type = "PUBLISH"
  BY FirstPacket
<1>2. Head(toClient) = toClient[1] /\ 1 \in 1..Len(toClient)
  BY FirstPacket
<1>. QED BY <1>1, <1>2 DEF FromBroker, TypeInv, WireTypeOK

(* What is sent to the broker.                                             *)
LEMMA SendType ==
  ASSUME WireTypeOK, NEW p \in FromClient, Send(p)
  PROVE  toBroker' \in Seq(FromClient)
BY DEF WireTypeOK, Send

LEMMA AnswersType ==
  ASSUME TypeInv, NEW m \in Msg \cup {NoMsg}, NEW q \in {0, 1, 2}, m = NoMsg <=> q = 0,
         Answers(m, Answer(q))
  PROVE  toBroker' \in Seq(FromClient) /\ unanswered' \subseteq Msg
<1>1. WireTypeOK /\ toBroker \in Seq(FromClient) /\ unanswered \subseteq Msg
  BY DEF TypeInv, WireTypeOK, TypeOK
<1>2. CASE UNCHANGED <<toBroker, unanswered>>
  BY <1>1, <1>2
<1>3. CASE \E type \in Answer(q) :
             IF Written(TRUE)
             THEN Send([type |-> type, msg |-> m]) /\ UNCHANGED unanswered
             ELSE unanswered' = unanswered \cup {m} /\ UNCHANGED toBroker
  <2>1. PICK type \in Answer(q) :
             IF Written(TRUE)
             THEN Send([type |-> type, msg |-> m]) /\ UNCHANGED unanswered
             ELSE unanswered' = unanswered \cup {m} /\ UNCHANGED toBroker
    BY <1>3
  <2>2. m \in Msg /\ type \in {"PUBACK", "PUBREC"}
    BY <2>1 DEF Answer
  <2>3. [type |-> type, msg |-> m] \in FromClient
    BY <2>2 DEF FromClient
  <2>. QED BY <1>1, <2>1, <2>2, <2>3, SendType
<1>. QED BY <1>2, <1>3 DEF Answers

LEMMA StoredType ==
  ASSUME TypeInv, NEW p, p.topic \in Topic \cup {Empty}
  PROVE  Stored(p) \in [Alias -> Topic \cup {NoTopic}]
BY DEF TypeInv, TypeOK, Stored

LEMMA RecvPublishType == TypeInv /\ RecvPublish => TypeInv'
<1> SUFFICES ASSUME TypeInv, RecvPublish PROVE TypeInv'
  OBVIOUS
<1> DEFINE p == Head(toClient)
<1>1. Received("PUBLISH") /\ ~Bad(p) /\ topic_aliases' = Stored(p) /\ Answers(p.msg, Answer(p.qos))
  BY DEF RecvPublish
<1>2. /\ p.msg \in Msg \cup {NoMsg} /\ p.qos \in {0, 1, 2} /\ p.topic \in Topic \cup {Empty}
      /\ p.alias \in 0..Announced /\ p.meant \in Topic
      /\ p.msg = NoMsg <=> p.qos = 0
  BY <1>1, FirstPublish
<1>3. toClient # <<>> /\ toClient' = Tail(toClient) /\ link \in {"up", "broken"}
  BY <1>1, FirstPacket
<1>4. /\ UNCHANGED <<inbox, content, given, again, delivered, rejected, connected, link, connects>>
      /\ reporting' = {IF p.topic # Empty
                       THEN [msg |-> p.msg, topic |-> p.topic, meant |-> p.meant, held |-> "packet"]
                       ELSE [msg |-> p.msg, topic |-> Lookup(p.alias), meant |-> p.meant,
                             held |-> "table"]}
      /\ handler' = "callback"
  BY DEF RecvPublish, broker
<1> HIDE DEF p
<1>5. toBroker' \in Seq(FromClient) /\ unanswered' \subseteq Msg
  BY <1>1, <1>2, AnswersType
<1>6. topic_aliases' \in [Alias -> Topic \cup {NoTopic}]
  BY <1>1, <1>2, StoredType
<1>7. WireTypeOK'
  BY <1>3, <1>5, ReadKeepsWire DEF TypeInv
<1>8. p.topic # Empty => p.topic \in Topic
  BY <1>2
<1>9. Lookup(p.alias) \in Topic \cup {NoTopic}
  BY <1>2 DEF Lookup, TypeInv, TypeOK
<1>10. \E r \in [msg : Msg \cup {NoMsg}, topic : Topic \cup {NoTopic}, meant : Topic,
                 held : Places] : reporting' = {r}
  <2>1. \A t \in Topic \cup {NoTopic}, h \in Places :
          [msg |-> p.msg, topic |-> t, meant |-> p.meant, held |-> h]
            \in [msg : Msg \cup {NoMsg}, topic : Topic \cup {NoTopic}, meant : Topic, held : Places]
    BY <1>2
  <2>2. CASE p.topic # Empty
    <3>1. reporting' = {[msg |-> p.msg, topic |-> p.topic, meant |-> p.meant, held |-> "packet"]}
      BY <1>4, <2>2
    <3>. QED BY <1>8, <2>1, <2>2, <3>1 DEF Places
  <2>3. CASE p.topic = Empty
    <3>1. reporting' = {[msg |-> p.msg, topic |-> Lookup(p.alias), meant |-> p.meant,
                         held |-> "table"]}
      BY <1>4, <2>3
    <3>. QED BY <1>9, <2>1, <3>1 DEF Places
  <2>. QED BY <2>2, <2>3
<1>11. ConnTypeOK' /\ Unacknowledged' = Unacknowledged
  BY <1>4 DEF TypeInv, TypeOK, ConnTypeOK, Unacknowledged
<1>12. TypeOK'
  BY <1>4, <1>5, <1>6, <1>10, <1>11 DEF TypeInv, TypeOK
<1>13. LinkInv'
  BY <1>3, <1>4 DEF LinkInv
<1>. QED BY <1>7, <1>12, <1>13 DEF TypeInv

(* The event: what was being reported has been.                            *)
LEMMA ReportType == TypeInv /\ Report => TypeInv'
<1> SUFFICES ASSUME TypeInv, Report PROVE TypeInv'
  OBVIOUS
<1>1. /\ delivered' = Told /\ reporting' = {} /\ handler' = "idle"
      /\ UNCHANGED <<topic_aliases, inbox, content, given, again, unanswered, rejected,
                     connected, link, toBroker, toClient, connects>>
  BY DEF Report, broker, network
<1>2. TypeOK /\ delivered \in [Msg -> 0..2]
  BY DEF TypeInv, TypeOK
<1>3. delivered' \in [Msg -> 0..2]
  BY <1>1, <1>2 DEF Told
<1>4. ConnTypeOK' /\ Unacknowledged' = Unacknowledged
  BY <1>1, <1>2 DEF TypeOK, ConnTypeOK, Unacknowledged
<1>5. TypeOK'
  BY <1>1, <1>2, <1>3, <1>4 DEF TypeOK
<1>. QED BY <1>1, <1>5 DEF TypeInv, WireTypeOK, LinkInv

LEMMA RecvBadPublishType == TypeInv /\ RecvBadPublish => TypeInv'
<1> SUFFICES ASSUME TypeInv, RecvBadPublish PROVE TypeInv'
  OBVIOUS
<1>1. Received("PUBLISH") /\ rejected' = rejected \cup ({Head(toClient).msg} \ {NoMsg})
  BY DEF RecvBadPublish
<1>2. Head(toClient).msg \in Msg \cup {NoMsg}
  BY <1>1, FirstPublish
<1>3. toClient # <<>> /\ toClient' = Tail(toClient) /\ link \in {"up", "broken"}
  BY <1>1, FirstPacket
<1>4. UNCHANGED <<topic_aliases, reporting, inbox, content, given, again, delivered, unanswered,
                  connected, handler, link, toBroker, connects>>
  BY DEF RecvBadPublish, broker
<1>5. WireTypeOK'
  BY <1>3, <1>4, ReadKeepsWire DEF TypeInv, WireTypeOK
<1>6. rejected' \subseteq Msg
  BY <1>1, <1>2 DEF TypeInv, TypeOK
<1>7. TypeOK'
  BY <1>4, <1>6 DEF TypeInv, TypeOK, ConnTypeOK, Unacknowledged
<1>. QED BY <1>3, <1>4, <1>5, <1>7 DEF TypeInv, LinkInv

LEMMA RecvPubrelType == TypeInv /\ RecvPubrel => TypeInv'
<1> SUFFICES ASSUME TypeInv, RecvPubrel PROVE TypeInv'
  OBVIOUS
<1>1. Received("PUBREL") /\ Pubcomp(Head(toClient).msg)
  BY DEF RecvPubrel
<1>2. Head(toClient) \in FromBroker /\ Head(toClient).type = "PUBREL"
  BY <1>1, FirstPacket
<1>3. toClient # <<>> /\ toClient' = Tail(toClient) /\ link \in {"up", "broken"}
  BY <1>1, FirstPacket
<1>4. UNCHANGED inVars /\ UNCHANGED <<connected, handler, link, connects>>
  BY DEF RecvPubrel
<1>5. [type |-> "PUBCOMP", msg |-> Head(toClient).msg] \in FromClient
  BY <1>2 DEF FromBroker, FromClient
<1>6. toBroker' \in Seq(FromClient)
  BY <1>1, <1>5, SendType DEF Pubcomp, TypeInv, WireTypeOK
<1>7. WireTypeOK'
  BY <1>3, <1>6, ReadKeepsWire DEF TypeInv
<1>8. TypeOK'
  BY <1>4 DEF TypeInv, TypeOK, ConnTypeOK, Unacknowledged, inVars, broker, history
<1>. QED BY <1>3, <1>4, <1>7, <1>8 DEF TypeInv, LinkInv

(* The steps of the connection.                                            *)
LEMMA ConnectionType ==
  ASSUME TypeInv,
         Connect \/ Resume \/ Break \/ Disconnect \/ \E sp \in BOOLEAN : RecvConnack(sp)
  PROVE  TypeInv'
<1>1. CASE Connect
  <2>1. /\ topic_aliases' = NoAliases(Capacity)
        /\ UNCHANGED <<reporting, inbox, content, given, again, delivered, unanswered, rejected>>
    BY <1>1 DEF Connect, NoAliases, Alias, broker, history
  <2>2. /\ handler = "idle" /\ ~connected /\ link = "down" /\ connects < MaxConnects
        /\ link' = "connecting" /\ connects' = connects + 1
        /\ UNCHANGED <<connected, handler, toBroker, toClient>>
    BY <1>1 DEF Connect, ConnConnect
  <2>3. ConnTypeOK'
    BY <2>2, ConnectionAssumption DEF TypeInv, TypeOK, ConnTypeOK
  <2>4. topic_aliases' \in [Alias -> Topic \cup {NoTopic}]
    BY <2>1 DEF NoAliases, Alias
  <2>5. TypeOK'
    BY <2>1, <2>2, <2>3, <2>4 DEF TypeInv, TypeOK, Unacknowledged
  <2>. QED BY <2>1, <2>2, <2>5 DEF TypeInv, WireTypeOK, LinkInv
<1>2. CASE Resume
  <2>1. /\ reporting = {} /\ handler' = "idle" /\ UNCHANGED inVars
        /\ UNCHANGED <<connected, network, connects>>
    BY <1>2 DEF Resume
  <2>2. UNCHANGED <<link, toBroker, toClient>>
    BY <2>1 DEF network
  <2>3. ConnTypeOK'
    BY <2>1, <2>2 DEF TypeInv, TypeOK, ConnTypeOK
  <2>. QED BY <2>1, <2>2, <2>3 DEF TypeInv, TypeOK, WireTypeOK, LinkInv, Unacknowledged, inVars,
                               broker, history
<1>3. CASE Break
  <2>1. /\ link \in {"connecting", "up"} /\ link' = "broken" /\ UNCHANGED inVars
        /\ UNCHANGED <<connected, handler, toBroker, toClient, connects>>
    BY <1>3 DEF Break, ConnBreak
  <2>2. ConnTypeOK'
    BY <2>1 DEF TypeInv, TypeOK, ConnTypeOK
  <2>. QED BY <2>1, <2>2 DEF TypeInv, TypeOK, WireTypeOK, LinkInv, Unacknowledged, inVars,
                               broker, history
<1>4. CASE Disconnect
  <2>1. /\ link # "down" /\ connected' = FALSE /\ link' = "down"
        /\ toBroker' = <<>> /\ toClient' = <<>> /\ UNCHANGED <<handler, connects>>
    BY <1>4 DEF Disconnect, ConnClose
  <2>2. /\ topic_aliases' = NoAliases(Capacity) /\ given' = NoAliases(Announced) /\ again' = {}
        /\ UNCHANGED <<inbox, content, delivered, rejected>>
        /\ unanswered' \subseteq unanswered \cup Msg
        /\ reporting' = {[r EXCEPT !.held = IF @ = "table" THEN "freed" ELSE @] : r \in reporting}
    BY <1>4 DEF Disconnect, NoAliases, Alias
  <2>3. ConnTypeOK'
    BY <2>1 DEF TypeInv, TypeOK, ConnTypeOK
  <2>4. \/ reporting' = {}
        \/ /\ handler' = "callback"
           /\ \E r \in [msg : Msg \cup {NoMsg}, topic : Topic \cup {NoTopic}, meant : Topic,
                        held : Places] : reporting' = {r}
    <3>1. CASE reporting = {}
      BY <2>2, <3>1
    <3>2. CASE reporting # {}
      <4>1. PICK r \in [msg : Msg \cup {NoMsg}, topic : Topic \cup {NoTopic}, meant : Topic,
                        held : Places] : reporting = {r} /\ handler = "callback"
        BY <3>2 DEF TypeInv, TypeOK
      <4>2. reporting' = {[r EXCEPT !.held = IF @ = "table" THEN "freed" ELSE @]}
        BY <2>2, <4>1
      <4>3. [r EXCEPT !.held = IF @ = "table" THEN "freed" ELSE @]
              \in [msg : Msg \cup {NoMsg}, topic : Topic \cup {NoTopic}, meant : Topic, held : Places]
        BY DEF Places
      <4>. QED BY <2>1, <4>1, <4>2, <4>3
    <3>. QED BY <3>1, <3>2
  <2>5. TypeOK'
    BY <2>2, <2>3, <2>4 DEF TypeInv, TypeOK, NoAliases, Alias
  <2>6. WireTypeOK'
    BY <2>1 DEF WireTypeOK
  <2>. QED BY <2>1, <2>2, <2>5, <2>6 DEF TypeInv, LinkInv
<1>5. ASSUME NEW sp \in BOOLEAN, RecvConnack(sp) PROVE TypeInv'
  <2>1. /\ handler = "idle" /\ link = "connecting" /\ link' = "up" /\ connected' = TRUE
        /\ handler' = "callback" /\ UNCHANGED <<toBroker, toClient, connects>>
    BY <1>5 DEF RecvConnack, ConnRecvConnack
  <2>2. /\ inbox' \in [Msg -> {"new", "sent", "released", "done", "dropped"}]
        /\ again' \subseteq Unacknowledged'
        /\ UNCHANGED <<topic_aliases, reporting, content, given, delivered, unanswered, rejected>>
    <3>1. /\ inbox' = [m \in Msg |-> IF sp \/ m \notin Unacknowledged THEN inbox[m]
                                     ELSE IF inbox[m] = "sent" THEN "dropped" ELSE "done"]
          /\ again' = IF sp THEN Unacknowledged ELSE {}
      BY <1>5 DEF RecvConnack
    <3>. QED BY <1>5, <3>1 DEF RecvConnack, TypeInv, TypeOK, Unacknowledged, history
  <2>3. ConnTypeOK'
    BY <2>1 DEF TypeInv, TypeOK, ConnTypeOK
  <2>. QED BY <2>1, <2>2, <2>3 DEF TypeInv, TypeOK, WireTypeOK, LinkInv
<1>. QED BY <1>1, <1>2, <1>3, <1>4, <1>5

(* The broker's PUBLISH: an alias it names is given the topic.             *)
LEMMA SendsPublishType ==
  ASSUME TypeInv, NEW m \in Msg \cup {NoMsg}, NEW r \in [topic : Topic, qos : {0, 1, 2}],
         m = NoMsg <=> r.qos = 0, NEW a \in 0..Announced, SendsPublish(m, r, a)
  PROVE  \E t \in {r.topic, Empty} :
           /\ t = Empty => a # 0 /\ given[a] = r.topic
           /\ given' = IF a # 0 THEN [given EXCEPT ![a] = r.topic] ELSE given
           /\ given' \in [1..Announced -> Topic \cup {NoTopic}]
           /\ PublishPacket(m, r, a, t) \in FromBroker
           /\ toClient' = Append(toClient, PublishPacket(m, r, a, t))
<1>1. PICK t \in {r.topic, Empty} :
         /\ t = Empty => a # 0 /\ given[a] = r.topic
         /\ given' = IF a # 0 THEN [given EXCEPT ![a] = r.topic] ELSE given
         /\ toClient' = Append(toClient, PublishPacket(m, r, a, t))
  BY DEF SendsPublish, BrokerSends, PublishPacket
<1>2. given' \in [1..Announced -> Topic \cup {NoTopic}]
  BY <1>1 DEF TypeInv, TypeOK
<1>3. PublishPacket(m, r, a, t) \in FromBroker
  BY PublishPacketType
<1>. QED BY <1>1, <1>2, <1>3

LEMMA SendsPublishWire ==
  ASSUME TypeInv, NEW m \in Msg \cup {NoMsg}, NEW r \in [topic : Topic, qos : {0, 1, 2}],
         m = NoMsg <=> r.qos = 0, NEW a \in 0..Announced, SendsPublish(m, r, a),
         UNCHANGED toBroker
  PROVE  WireTypeOK' /\ given' \in [1..Announced -> Topic \cup {NoTopic}]
<1>1. PICK t \in {r.topic, Empty} :
           /\ given' \in [1..Announced -> Topic \cup {NoTopic}]
           /\ PublishPacket(m, r, a, t) \in FromBroker
           /\ toClient' = Append(toClient, PublishPacket(m, r, a, t))
  BY SendsPublishType
<1>2. PICK p \in FromBroker : p = PublishPacket(m, r, a, t)
  BY <1>1
<1>3. p.msg = m /\ p.qos = r.qos
  BY <1>2 DEF PublishPacket
<1>. QED BY <1>1, <1>2, <1>3, SendKeepsWire DEF TypeInv

LEMMA ContentType ==
  ASSUME NEW r \in [topic : Topic, qos : Qos]
  PROVE  r \in [topic : Topic, qos : {0, 1, 2}] /\ r.qos # 0
<1>1. r.topic \in Topic /\ r.qos \in Qos /\ r = [topic |-> r.topic, qos |-> r.qos]
  OBVIOUS
<1>2. r.qos \in {1, 2}
  BY <1>1, InboundAssumption
<1>3. PICK q \in {0, 1, 2}, t \in Topic : r = [topic |-> t, qos |-> q]
  BY <1>1, <1>2
<1>. QED BY <1>2, <1>3

LEMMA BrokerType ==
  ASSUME TypeInv, MsgInv,
         \/ \E t \in Topic, a \in 0..Announced : BrokerPublishesQos0(t, a)
         \/ \E m \in Msg, a \in 0..Announced :
              \/ BrokerSendsAgain(m, a)
              \/ \E r \in [topic : Topic, qos : Qos] : BrokerPublishes(m, r, a)
  PROVE  TypeInv'
<1>1. /\ TypeOK /\ LinkInv /\ WireTypeOK
  BY DEF TypeInv
<1>2. ASSUME NEW t \in Topic, NEW a \in 0..Announced, BrokerPublishesQos0(t, a) PROVE TypeInv'
  <2>1. /\ link = "up" /\ SendsPublish(NoMsg, [topic |-> t, qos |-> 0], a)
        /\ UNCHANGED <<topic_aliases, reporting, inbox, content, again, delivered, unanswered,
                       rejected, connected, handler, link, toBroker, connects>>
    BY <1>2 DEF BrokerPublishesQos0, history
  <2>2. PICK r \in [topic : Topic, qos : {0, 1, 2}] : r = [topic |-> t, qos |-> 0]
    OBVIOUS
  <2>3. WireTypeOK' /\ given' \in [1..Announced -> Topic \cup {NoTopic}]
    <3>1. r.qos = 0 /\ SendsPublish(NoMsg, r, a) /\ UNCHANGED toBroker
      BY <2>1, <2>2
    <3>. QED BY <3>1, SendsPublishWire
  <2>4. ConnTypeOK' /\ Unacknowledged' = Unacknowledged
    BY <1>1, <2>1 DEF TypeOK, ConnTypeOK, Unacknowledged
  <2>5. TypeOK'
    BY <1>1, <2>1, <2>3, <2>4 DEF TypeOK
  <2>. QED BY <2>1, <2>3, <2>5 DEF TypeInv, LinkInv
<1>3. ASSUME NEW m \in Msg, NEW a \in 0..Announced, BrokerSendsAgain(m, a) PROVE TypeInv'
  <2>1. /\ link = "up" /\ m \in again /\ again' = again \ {m}
        /\ UNCHANGED <<topic_aliases, reporting, inbox, content, delivered, unanswered, rejected,
                       connected, handler, link, toBroker, connects>>
    BY <1>3 DEF BrokerSendsAgain, history
  <2>2. WireTypeOK' /\ given' \in [1..Announced -> Topic \cup {NoTopic}]
    <3>1. CASE inbox[m] = "sent" /\ SendsPublish(m, content[m], a)
      <4>1. content[m] \in [topic : Topic, qos : Qos]
        BY <3>1 DEF MsgInv, ReportedOnce
      <4>2. PICK r \in [topic : Topic, qos : {0, 1, 2}] : r = content[m] /\ r.qos # 0
        BY <4>1, ContentType
      <4>3. m # NoMsg /\ SendsPublish(m, r, a) /\ UNCHANGED toBroker
        BY <2>1, <3>1, <4>2, InboundAssumption
      <4>. QED BY <4>2, <4>3, SendsPublishWire
    <3>2. CASE BrokerSends([type |-> "PUBREL", msg |-> m]) /\ UNCHANGED given
      <4>1. PICK p \in FromBroker : p = [type |-> "PUBREL", msg |-> m]
        BY DEF FromBroker
      <4>2. p.type # "PUBLISH" /\ toClient' = Append(toClient, p)
        BY <3>2, <4>1 DEF BrokerSends
      <4>. QED BY <1>1, <2>1, <3>2, <4>2, SendKeepsWire DEF TypeOK
    <3>. QED BY <1>3, <3>1, <3>2 DEF BrokerSendsAgain
  <2>3. ConnTypeOK' /\ Unacknowledged' = Unacknowledged
    BY <1>1, <2>1 DEF TypeOK, ConnTypeOK, Unacknowledged
  <2>4. TypeOK'
    BY <1>1, <2>1, <2>2, <2>3 DEF TypeOK
  <2>. QED BY <2>1, <2>2, <2>4 DEF TypeInv, LinkInv
<1>4. ASSUME NEW m \in Msg, NEW a \in 0..Announced, NEW r \in [topic : Topic, qos : Qos],
             BrokerPublishes(m, r, a)
      PROVE  TypeInv'
  <2>1. /\ link = "up" /\ inbox[m] = "new" /\ inbox' = [inbox EXCEPT ![m] = "sent"]
        /\ content' = [content EXCEPT ![m] = r] /\ SendsPublish(m, r, a)
        /\ UNCHANGED <<topic_aliases, reporting, again, delivered, unanswered, rejected,
                       connected, handler, link, toBroker, connects>>
    BY <1>4 DEF BrokerPublishes, history
  <2>2. WireTypeOK' /\ given' \in [1..Announced -> Topic \cup {NoTopic}]
    <3>1. r \in [topic : Topic, qos : {0, 1, 2}] /\ r.qos # 0 /\ m # NoMsg
      BY ContentType, InboundAssumption
    <3>. QED BY <2>1, <3>1, SendsPublishWire
  <2>3. /\ inbox' \in [Msg -> {"new", "sent", "released", "done", "dropped"}]
        /\ content' \in [Msg -> [topic : Topic, qos : Qos] \cup {NoContent}]
    BY <1>1, <2>1 DEF TypeOK
  <2>4. again' \subseteq Unacknowledged'
    BY <1>1, <2>1 DEF TypeOK, Unacknowledged
  <2>5. ConnTypeOK'
    BY <1>1, <2>1 DEF TypeOK, ConnTypeOK
  <2>6. TypeOK'
    BY <1>1, <2>1, <2>2, <2>3, <2>4, <2>5 DEF TypeOK
  <2>. QED BY <2>1, <2>2, <2>6 DEF TypeInv, LinkInv
<1>. QED BY <1>2, <1>3, <1>4

(* The packet the broker reads.                                            *)
LEMMA FirstAck ==
  ASSUME TypeInv, NEW type, BrokerReads(type)
  PROVE  /\ toBroker # <<>> /\ Head(toBroker) = toBroker[1] /\ 1 \in 1..Len(toBroker)
         /\ Head(toBroker).msg \in Msg /\ Head(toBroker).type = type
         /\ toBroker' = Tail(toBroker) /\ toBroker' \in Seq(FromClient)
         /\ Len(toBroker') = Len(toBroker) - 1
         /\ \A i \in 1..(Len(toBroker) - 1) : toBroker'[i] = toBroker[i + 1]
         /\ link \in {"up", "broken"}
<1>1. /\ toBroker \in Seq(FromClient) /\ toBroker # <<>> /\ toBroker' = Tail(toBroker)
      /\ Head(toBroker).type = type
  BY DEF TypeInv, WireTypeOK, BrokerReads
<1>2. Head(toBroker) \in FromClient /\ link \in {"up", "broken"}
  BY <1>1 DEF TypeInv, LinkInv, TypeOK, ConnTypeOK
<1>. QED BY <1>1, <1>2 DEF FromClient

LEMMA BrokerTakesAckType ==
  ASSUME TypeInv, NEW type \in {"PUBACK", "PUBREC", "PUBCOMP"}, BrokerTakesAck(type)
  PROVE  TypeInv'
<1> DEFINE m == Head(toBroker).msg
<1>1. /\ m \in Msg /\ toBroker' \in Seq(FromClient) /\ link \in {"up", "broken"}
  BY FirstAck DEF BrokerTakesAck
<1>2. /\ again' = again \ {m}
      /\ \/ inbox' = [inbox EXCEPT ![m] = "done"] /\ UNCHANGED toClient
         \/ inbox' = [inbox EXCEPT ![m] = "released"] /\ BrokerSends([type |-> "PUBREL", msg |-> m])
      /\ UNCHANGED <<topic_aliases, reporting, content, given, delivered, unanswered, rejected,
                     connected, handler, link, connects>>
  BY DEF BrokerTakesAck, history
<1> HIDE DEF m
<1>3. TypeOK /\ LinkInv /\ WireTypeOK
  BY DEF TypeInv
<1>4. WireTypeOK'
  <2>1. CASE UNCHANGED toClient
    BY <1>1, <1>3, <2>1 DEF WireTypeOK
  <2>2. CASE BrokerSends([type |-> "PUBREL", msg |-> m])
    <3>1. PICK p \in FromBroker : p = [type |-> "PUBREL", msg |-> m]
      BY <1>1 DEF FromBroker
    <3>2. p.type # "PUBLISH" /\ toClient' = Append(toClient, p)
      BY <2>2, <3>1 DEF BrokerSends
    <3>3. PICK n \in Nat : n = Len(toClient)
      BY <1>3 DEF WireTypeOK
    <3>4. /\ toClient' \in Seq(FromBroker) /\ Len(toClient') = n + 1 /\ toClient'[n + 1] = p
          /\ \A i \in 1..n : toClient'[i] = toClient[i]
      BY <1>3, <3>2, <3>3 DEF WireTypeOK
    <3>. QED BY <1>1, <1>3, <3>2, <3>3, <3>4 DEF WireTypeOK
  <2>. QED BY <1>2, <2>1, <2>2
<1>5. /\ inbox' \in [Msg -> {"new", "sent", "released", "done", "dropped"}]
      /\ again' \subseteq Unacknowledged'
  BY <1>1, <1>2, <1>3 DEF TypeOK, Unacknowledged
<1>6. ConnTypeOK'
  BY <1>2, <1>3 DEF TypeOK, ConnTypeOK
<1>7. TypeOK'
  BY <1>2, <1>3, <1>5, <1>6 DEF TypeOK
<1>. QED BY <1>1, <1>2, <1>4, <1>7 DEF TypeInv, LinkInv

LEMMA TypeStep ==
  ASSUME TypeInv, MsgInv, [Next]_vars
  PROVE  TypeInv'
<1>1. CASE Connect \/ Resume \/ Break \/ Disconnect \/ \E sp \in BOOLEAN : RecvConnack(sp)
  BY <1>1, ConnectionType
<1>2. CASE RecvPublish
  BY <1>2, RecvPublishType
<1>8. CASE Report
  BY <1>8, ReportType
<1>3. CASE RecvBadPublish
  BY <1>3, RecvBadPublishType
<1>4. CASE RecvPubrel
  BY <1>4, RecvPubrelType
<1>5. CASE \/ \E t \in Topic, a \in 0..Announced : BrokerPublishesQos0(t, a)
           \/ \E m \in Msg, a \in 0..Announced :
                \/ BrokerSendsAgain(m, a)
                \/ \E r \in [topic : Topic, qos : Qos] : BrokerPublishes(m, r, a)
  BY <1>5, BrokerType
<1>6. ASSUME NEW type \in {"PUBACK", "PUBREC", "PUBCOMP"}, BrokerTakesAck(type) PROVE TypeInv'
  BY <1>6, BrokerTakesAckType
<1>7. CASE UNCHANGED vars
  BY <1>7 DEF vars, inVars, broker, history, connVars, network, TypeInv, TypeOK, ConnTypeOK, WireTypeOK, LinkInv,
              Unacknowledged
<1>. QED BY <1>1, <1>2, <1>3, <1>4, <1>5, <1>6, <1>7, <1>8 DEF Next

-----------------------------------------------------------------------------
(* Every message is reported once unless an acknowledgement is lost        *)

(* The packets to the broker after one more, and after one less.           *)
LEMMA AckedAfterSend ==
  ASSUME WireTypeOK, NEW type, NEW w, toBroker' = Append(toBroker, [type |-> type, msg |-> w]),
         NEW m
  PROVE  /\ Acked(m)' <=> Acked(m) \/ (type \in {"PUBACK", "PUBREC"} /\ w = m)
         /\ \A i \in 1..Len(toBroker') :
              toBroker'[i].type = "PUBCOMP" /\ toBroker'[i].msg = m =>
                \/ type = "PUBCOMP" /\ w = m
                \/ i \in 1..Len(toBroker) /\ toBroker[i].type = "PUBCOMP" /\ toBroker[i].msg = m
<1>1. PICK n \in Nat : n = Len(toBroker)
  BY DEF WireTypeOK
<1>2. /\ Len(toBroker') = n + 1 /\ toBroker'[n + 1] = [type |-> type, msg |-> w]
      /\ \A i \in 1..n : toBroker'[i] = toBroker[i]
  BY <1>1 DEF WireTypeOK
<1>3. toBroker'[n + 1].type = type /\ toBroker'[n + 1].msg = w
  BY <1>2
<1>4. \A i \in 1..(n + 1) : i \in 1..n \/ i = n + 1
  OBVIOUS
<1>5. \A i \in 1..n : i \in 1..(n + 1)
  OBVIOUS
<1>6. n + 1 \in 1..(n + 1)
  OBVIOUS
<1>. QED BY <1>1, <1>2, <1>3, <1>4, <1>5, <1>6 DEF Acked, Acks

LEMMA AckedAfterRead ==
  ASSUME TypeInv, NEW type, BrokerReads(type), NEW m
  PROVE  /\ Acked(m)' => Acked(m)
         /\ Acked(m) => Acked(m)' \/ (type \in {"PUBACK", "PUBREC"} /\ m = Head(toBroker).msg)
         /\ type \in {"PUBACK", "PUBREC"} => Acked(Head(toBroker).msg)
         /\ \A i \in 1..Len(toBroker') :
              i + 1 \in 1..Len(toBroker) /\ toBroker'[i] = toBroker[i + 1]
<1>1. PICK n \in Nat : n = Len(toBroker)
  BY DEF TypeInv, WireTypeOK
<1>2. /\ Len(toBroker') = n - 1 /\ 1 \in 1..n /\ Head(toBroker) = toBroker[1]
      /\ toBroker[1].type = type
      /\ \A i \in 1..(n - 1) : toBroker'[i] = toBroker[i + 1]
  BY <1>1, FirstAck
<1>3. \A i \in 1..(n - 1) : i + 1 \in 1..n
  OBVIOUS
<1>4. \A i \in 1..n : i = 1 \/ (i - 1 \in 1..(n - 1) /\ (i - 1) + 1 = i)
  OBVIOUS
<1>5. \A i \in 1..(n - 1) : Acks(i, m)' <=> Acks(i + 1, m)
  BY <1>2 DEF Acks
<1>6. Acked(m)' => Acked(m)
  BY <1>1, <1>2, <1>3, <1>5 DEF Acked
<1>7. Acked(m) => Acked(m)' \/ (type \in {"PUBACK", "PUBREC"} /\ m = Head(toBroker).msg)
  <2>1. ASSUME NEW i \in 1..n, Acks(i, m), i # 1 PROVE Acked(m)'
    <3>1. i - 1 \in 1..(n - 1) /\ Acks(i - 1, m)'
      BY <1>4, <1>5, <2>1
    <3>. QED BY <1>2, <3>1 DEF Acked
  <2>2. Acks(1, m) => type \in {"PUBACK", "PUBREC"} /\ m = Head(toBroker).msg
    BY <1>2 DEF Acks
  <2>. QED BY <1>1, <2>1, <2>2 DEF Acked
<1>8. type \in {"PUBACK", "PUBREC"} => Acked(Head(toBroker).msg)
  BY <1>1, <1>2 DEF Acked, Acks
<1>. QED BY <1>1, <1>2, <1>3, <1>6, <1>7, <1>8

(* The packets to the client after one less.                               *)
LEMMA ClientReads ==
  ASSUME TypeInv, NEW type, Received(type)
  PROVE  \A i \in 1..Len(toClient') :
           /\ i + 1 \in 1..Len(toClient) /\ i + 1 # 1 /\ toClient'[i] = toClient[i + 1]
           /\ \A m : Publishes(i, m)' <=> Publishes(i + 1, m)
<1>1. PICK n \in Nat : n = Len(toClient)
  BY DEF TypeInv, WireTypeOK
<1>2. toClient # <<>> /\ toClient' = Tail(toClient) /\ toClient \in Seq(FromBroker)
  BY FirstPacket DEF TypeInv, WireTypeOK
<1>3. Len(toClient') = n - 1 /\ \A i \in 1..(n - 1) : toClient'[i] = toClient[i + 1]
  BY <1>1, <1>2
<1>4. \A i \in 1..(n - 1) : i + 1 \in 1..n /\ i + 1 # 1
  OBVIOUS
<1>. QED BY <1>1, <1>3, <1>4 DEF Publishes

(* The handler of a PUBLISH is about to report its message.                *)
LEMMA PublishTold ==
  ASSUME TypeInv, RecvPublish
  PROVE  /\ Told \in [Msg -> 0..2]
         /\ Told' = [x \in Msg |-> IF x = Head(toClient).msg /\ Told[x] < 2 THEN Told[x] + 1
                                   ELSE Told[x]]
<1>1. delivered \in [Msg -> 0..2] /\ reporting = {}
  BY FirstPacket DEF TypeInv, TypeOK, RecvPublish
<1>2. Told = delivered
  <2>1. Told = [x \in Msg |-> delivered[x]]
    BY <1>1 DEF Told
  <2>. QED BY <1>1, <2>1
<1>3. delivered' = delivered /\ \A x : (\E r \in reporting' : r.msg = x) <=> x = Head(toClient).msg
  BY DEF RecvPublish
<1>4. Told' = [x \in Msg |-> IF delivered[x] < 2 /\ x = Head(toClient).msg
                             THEN delivered[x] + 1 ELSE delivered[x]]
  BY <1>3 DEF Told
<1>. QED BY <1>1, <1>2, <1>4

(* The event changes nothing of that.                                      *)
LEMMA ReportTold == TypeInv /\ Report => Told' = Told
<1> SUFFICES ASSUME TypeInv, Report PROVE Told' = Told
  OBVIOUS
<1>1. delivered' = Told /\ reporting' = {}
  BY DEF Report
<1>2. Told' = [x \in Msg |-> Told[x]]
  BY <1>1 DEF Told
<1>. QED BY <1>2 DEF Told

(* Neither does a disconnect.                                              *)
LEMMA DisconnectTold == TypeInv /\ Disconnect => Told' = Told
<1> SUFFICES ASSUME TypeInv, Disconnect PROVE Told' = Told
  OBVIOUS
<1>1. /\ UNCHANGED delivered
      /\ reporting' = {[r EXCEPT !.held = IF @ = "table" THEN "freed" ELSE @] : r \in reporting}
  BY DEF Disconnect
<1>2. ASSUME NEW r \in reporting
      PROVE  r.msg = [r EXCEPT !.held = IF @ = "table" THEN "freed" ELSE @].msg
  <2>1. PICK q \in [msg : Msg \cup {NoMsg}, topic : Topic \cup {NoTopic}, meant : Topic,
                    held : Places] : reporting = {q}
    BY DEF TypeInv, TypeOK
  <2>2. r = q
    BY <2>1
  <2>. QED BY <2>2
<1>3. ASSUME NEW x PROVE (\E r \in reporting' : r.msg = x) <=> \E r \in reporting : r.msg = x
  <2>1. ASSUME NEW r \in reporting, r.msg = x PROVE \E q \in reporting' : q.msg = x
    <3>1. [r EXCEPT !.held = IF @ = "table" THEN "freed" ELSE @] \in reporting'
      BY <1>1
    <3>. QED BY <1>2, <2>1, <3>1
  <2>2. ASSUME NEW q \in reporting', q.msg = x PROVE \E r \in reporting : r.msg = x
    <3>1. PICK r \in reporting : q = [r EXCEPT !.held = IF @ = "table" THEN "freed" ELSE @]
      BY <1>1
    <3>. QED BY <1>2, <2>2, <3>1
  <2>. QED BY <2>1, <2>2
<1>. QED BY <1>1, <1>3 DEF Told

LEMMA RecvPublishMsg == TypeInv /\ MsgInv /\ RecvPublish => MsgInv'
<1> SUFFICES ASSUME TypeInv, MsgInv, RecvPublish, NEW m \in Msg
             PROVE  (OneAtATime(m) /\ Released(m) /\ ReportedOnce(m))'
  BY DEF MsgInv
<1>1. Received("PUBLISH") /\ Answers(Head(toClient).msg, Answer(Head(toClient).qos))
  BY DEF RecvPublish
<1>2. PICK w \in Msg \cup {NoMsg}, q \in {0, 1, 2} :
        /\ w = Head(toClient).msg /\ q = Head(toClient).qos
        /\ w = NoMsg <=> q = 0
  BY <1>1, FirstPublish
<1>3. 1 \in 1..Len(toClient) /\ Publishes(1, w)
  BY <1>1, <1>2, FirstPacket DEF Publishes
<1>4. /\ UNCHANGED <<inbox, content, again>>
      /\ Told \in [Msg -> 0..2]
      /\ Told' = [x \in Msg |-> IF x = w /\ Told[x] < 2 THEN Told[x] + 1 ELSE Told[x]]
  BY <1>2, PublishTold DEF RecvPublish, broker
<1>5. Told[m] \in 0..2 /\ Told'[m] \in 0..2 /\ Told'[m] >= Told[m]
      /\ (m # w => Told'[m] = Told[m]) /\ (m = w => Told'[m] > 0)
  <2>1. Told[m] \in 0..2 /\ Told'[m] = IF m = w /\ Told[m] < 2 THEN Told[m] + 1 ELSE Told[m]
    BY <1>4
  <2>. QED BY <2>1
<1>6. \A i \in 1..Len(toClient') :
        /\ i + 1 \in 1..Len(toClient) /\ i + 1 # 1 /\ toClient'[i] = toClient[i + 1]
        /\ Publishes(i, m)' <=> Publishes(i + 1, m)
  BY <1>1, ClientReads
<1>7. OneAtATime(m) /\ Released(m) /\ ReportedOnce(m)
  BY DEF MsgInv
<1>8. /\ m = w => Acked(m)' \/ m \in unanswered'
      /\ Acked(m) => Acked(m)'
      /\ m # w => (Acked(m)' => Acked(m)) /\ (m \in unanswered' <=> m \in unanswered)
      /\ m \in unanswered => m \in unanswered'
      /\ \A i \in 1..Len(toBroker') :
              toBroker'[i].type = "PUBCOMP" /\ toBroker'[i].msg = m =>
                i \in 1..Len(toBroker) /\ toBroker[i].type = "PUBCOMP" /\ toBroker[i].msg = m
  <2>1. CASE q = 0
    <3>1. w # m
      BY <1>2, <2>1, InboundAssumption
    <3>2. Answer(q) = {}
      BY <2>1 DEF Answer
    <3>3. UNCHANGED <<toBroker, unanswered>>
      BY <1>1, <1>2, <3>2 DEF Answers
    <3>. QED BY <3>1, <3>3 DEF Acked, Acks
  <2>2. CASE q # 0
    <3>1. PICK type \in {"PUBACK", "PUBREC"} :
             IF Written(TRUE)
             THEN Send([type |-> type, msg |-> w]) /\ UNCHANGED unanswered
             ELSE unanswered' = unanswered \cup {w} /\ UNCHANGED toBroker
      BY <1>1, <1>2, <2>2 DEF Answers, Answer
    <3>2. CASE Written(TRUE)
      <4>1. toBroker' = Append(toBroker, [type |-> type, msg |-> w]) /\ UNCHANGED unanswered
        BY <3>1, <3>2 DEF Send
      <4>2. WireTypeOK
        BY DEF TypeInv
      <4>3. /\ Acked(m)' <=> Acked(m) \/ (type \in {"PUBACK", "PUBREC"} /\ w = m)
            /\ \A i \in 1..Len(toBroker') :
                 toBroker'[i].type = "PUBCOMP" /\ toBroker'[i].msg = m =>
                   \/ type = "PUBCOMP" /\ w = m
                   \/ i \in 1..Len(toBroker) /\ toBroker[i].type = "PUBCOMP" /\ toBroker[i].msg = m
        BY <4>1, <4>2, AckedAfterSend
      <4>. QED BY <4>1, <4>3
    <3>3. CASE ~Written(TRUE)
      <4>1. unanswered' = unanswered \cup {w} /\ UNCHANGED toBroker
        BY <3>1, <3>3
      <4>. QED BY <4>1 DEF Acked, Acks
    <3>. QED BY <3>2, <3>3
  <2>. QED BY <2>1, <2>2
<1>9. m = w => /\ inbox[m] = "sent" /\ m \notin again /\ ~Acked(m)
               /\ \A j \in 1..Len(toClient) : Publishes(j, m) => 1 = j
  BY <1>3, <1>7 DEF OneAtATime
<1>10. OneAtATime(m)'
  <2>1. CASE m = w
    <3>1. \A i \in 1..Len(toClient') : ~Publishes(i, m)'
      BY <1>6, <1>9, <2>1
    <3>2. Acked(m)' => Told'[m] > 0 /\ inbox'[m] # "new" /\ m \notin again'
      BY <1>4, <1>5, <1>9, <2>1
    <3>. QED BY <3>1, <3>2 DEF OneAtATime
  <2>2. CASE m # w
    <3>1. \A i \in 1..Len(toClient') : Publishes(i, m)' =>
            /\ inbox'[m] = "sent" /\ m \notin again' /\ ~Acked(m)'
            /\ \A j \in 1..Len(toClient') : Publishes(j, m)' => i = j
      <4> SUFFICES ASSUME NEW i \in 1..Len(toClient'), Publishes(i, m)'
                   PROVE  /\ inbox'[m] = "sent" /\ m \notin again' /\ ~Acked(m)'
                          /\ \A j \in 1..Len(toClient') : Publishes(j, m)' => i = j
        OBVIOUS
      <4>1. i + 1 \in 1..Len(toClient) /\ Publishes(i + 1, m)
        BY <1>6
      <4>2. /\ inbox[m] = "sent" /\ m \notin again /\ ~Acked(m)
            /\ \A j \in 1..Len(toClient) : Publishes(j, m) => i + 1 = j
        BY <1>7, <4>1 DEF OneAtATime
      <4>3. ASSUME NEW j \in 1..Len(toClient'), Publishes(j, m)' PROVE i = j
        <5>1. j + 1 \in 1..Len(toClient) /\ Publishes(j + 1, m)
          BY <1>6, <4>3
        <5>. QED BY <4>2, <5>1
      <4>. QED BY <1>4, <1>8, <2>2, <4>2, <4>3
    <3>2. Acked(m)' => Told'[m] > 0 /\ inbox'[m] # "new" /\ m \notin again'
      BY <1>4, <1>5, <1>7, <1>8, <2>2 DEF OneAtATime
    <3>. QED BY <3>1, <3>2 DEF OneAtATime
  <2>. QED BY <2>1, <2>2
<1>11. Released(m)'
  <2>1. inbox'[m] = inbox[m]
    BY <1>4
  <2>. QED BY <1>6, <1>7, <1>8, <2>1 DEF Released
<1>12. ReportedOnce(m)'
  <2>1. CASE m = w
    <3>1. Told'[m] = 2 => Told[m] > 0
      BY <1>4, <1>5
    <3>. QED BY <1>4, <1>5, <1>7, <1>8, <1>9, <2>1, <3>1 DEF ReportedOnce
  <2>2. CASE m # w
    BY <1>4, <1>5, <1>7, <1>8, <2>2 DEF ReportedOnce
  <2>. QED BY <2>1, <2>2
<1>. QED BY <1>10, <1>11, <1>12

LEMMA RecvBadPublishMsg == TypeInv /\ MsgInv /\ RecvBadPublish => MsgInv'
<1> SUFFICES ASSUME TypeInv, MsgInv, RecvBadPublish, NEW m \in Msg
             PROVE  (OneAtATime(m) /\ Released(m) /\ ReportedOnce(m))'
  BY DEF MsgInv
<1>1. \A i \in 1..Len(toClient') :
        /\ i + 1 \in 1..Len(toClient) /\ toClient'[i] = toClient[i + 1]
        /\ Publishes(i, m)' <=> Publishes(i + 1, m)
  BY ClientReads DEF RecvBadPublish
<1>2. UNCHANGED <<inbox, content, again, Told, unanswered, toBroker>>
  BY DEF RecvBadPublish, broker, Told
<1>3. OneAtATime(m) /\ Released(m) /\ ReportedOnce(m)
  BY DEF MsgInv
<1>4. Acked(m)' <=> Acked(m)
  BY <1>2 DEF Acked, Acks
<1>5. \A i, j \in 1..Len(toClient') : i + 1 = j + 1 => i = j
  OBVIOUS
<1>6. OneAtATime(m)'
  BY <1>1, <1>2, <1>3, <1>4, <1>5 DEF OneAtATime
<1>7. Released(m)'
  BY <1>1, <1>2, <1>3 DEF Released
<1>. QED BY <1>2, <1>3, <1>4, <1>6, <1>7 DEF ReportedOnce

LEMMA RecvPubrelMsg == TypeInv /\ MsgInv /\ RecvPubrel => MsgInv'
<1> SUFFICES ASSUME TypeInv, MsgInv, RecvPubrel, NEW m \in Msg
             PROVE  (OneAtATime(m) /\ Released(m) /\ ReportedOnce(m))'
  BY DEF MsgInv
<1>1. Received("PUBREL") /\ Pubcomp(Head(toClient).msg)
  BY DEF RecvPubrel
<1>2. \A i \in 1..Len(toClient') :
        /\ i + 1 \in 1..Len(toClient) /\ toClient'[i] = toClient[i + 1]
        /\ Publishes(i, m)' <=> Publishes(i + 1, m)
  BY <1>1, ClientReads
<1>3. UNCHANGED <<inbox, content, again, Told, unanswered>>
  BY DEF RecvPubrel, inVars, broker, history, Told
<1>4. OneAtATime(m) /\ Released(m) /\ ReportedOnce(m)
  BY DEF MsgInv
<1>5. PICK w : /\ w = Head(toClient).msg
               /\ w \in Msg => inbox[w] \in {"released", "done"}
  <2>1. 1 \in 1..Len(toClient) /\ toClient[1].type = "PUBREL" /\ Head(toClient) = toClient[1]
    BY <1>1, FirstPacket
  <2>. QED BY <2>1 DEF MsgInv, Released
<1>6. /\ Acked(m)' <=> Acked(m)
      /\ \A i \in 1..Len(toBroker') :
           toBroker'[i].type = "PUBCOMP" /\ toBroker'[i].msg = m =>
             \/ w = m
             \/ i \in 1..Len(toBroker) /\ toBroker[i].type = "PUBCOMP" /\ toBroker[i].msg = m
  <2>1. CASE Written(TRUE)
    <3>1. toBroker' = Append(toBroker, [type |-> "PUBCOMP", msg |-> w]) /\ WireTypeOK
      BY <1>1, <1>5, <2>1 DEF Pubcomp, Send, TypeInv
    <3>. QED BY <3>1, AckedAfterSend
  <2>2. CASE ~Written(TRUE)
    <3>1. UNCHANGED toBroker
      BY <1>1, <2>2 DEF Pubcomp
    <3>. QED BY <3>1 DEF Acked, Acks
  <2>. QED BY <2>1, <2>2
<1>7. \A i, j \in 1..Len(toClient') : i + 1 = j + 1 => i = j
  OBVIOUS
<1>8. OneAtATime(m)'
  BY <1>2, <1>3, <1>4, <1>6, <1>7 DEF OneAtATime
<1>9. Released(m)'
  BY <1>2, <1>3, <1>4, <1>5, <1>6 DEF Released
<1>. QED BY <1>3, <1>4, <1>6, <1>8, <1>9 DEF ReportedOnce

(* Steps of the connection: a packet is lost with the connection, and with
   the acknowledgements that are lost their messages are marked.           *)
LEMMA ConnectionMsg ==
  ASSUME TypeInv, MsgInv,
         Connect \/ Resume \/ Break \/ Disconnect \/ (\E sp \in BOOLEAN : RecvConnack(sp))
           \/ Report \/ UNCHANGED vars
  PROVE  MsgInv'
<1> SUFFICES ASSUME NEW m \in Msg PROVE (OneAtATime(m) /\ Released(m) /\ ReportedOnce(m))'
  BY DEF MsgInv
<1>1. OneAtATime(m) /\ Released(m) /\ ReportedOnce(m)
  BY DEF MsgInv
<1>2. CASE Connect \/ Resume \/ Break \/ UNCHANGED vars
  <2>1. UNCHANGED <<inbox, content, again, delivered, reporting, unanswered, toBroker, toClient>>
    BY <1>2 DEF Connect, ConnConnect, Resume, Break, ConnBreak, vars, connVars, inVars, network,
                broker, history
  <2>2. UNCHANGED Told
    BY <2>1 DEF Told
  <2>. QED BY <1>1, <2>1, <2>2 DEF OneAtATime, Released, ReportedOnce, Acked, Acks, Publishes
<1>5. CASE Report
  <2>1. UNCHANGED <<inbox, content, again, unanswered, toBroker, toClient>>
    BY <1>5 DEF Report, network, broker
  <2>2. UNCHANGED Told
    BY <1>5, ReportTold
  <2>. QED BY <1>1, <2>1, <2>2 DEF OneAtATime, Released, ReportedOnce, Acked, Acks, Publishes
<1>3. CASE Disconnect
  <2>1. /\ Len(toBroker') = 0 /\ Len(toClient') = 0 /\ again' = {}
        /\ UNCHANGED <<inbox, content, delivered>>
    BY <1>3 DEF Disconnect, ConnClose
  <2>4. UNCHANGED Told
    BY <1>3, DisconnectTold
  <2>2. unanswered \subseteq unanswered' /\ (Acked(m) => m \in unanswered')
    <3>1. DOMAIN toBroker = 1..Len(toBroker)
      BY DEF TypeInv, WireTypeOK
    <3>. QED BY <1>3, <3>1 DEF Disconnect, Acked, Acks
  <2>3. ~Acked(m)'
    BY <2>1 DEF Acked
  <2>. QED BY <1>1, <2>1, <2>2, <2>3, <2>4 DEF OneAtATime, Released, ReportedOnce
<1>4. ASSUME NEW sp \in BOOLEAN, RecvConnack(sp)
      PROVE  (OneAtATime(m) /\ Released(m) /\ ReportedOnce(m))'
  <2>1. /\ toBroker = <<>> /\ toClient = <<>> /\ UNCHANGED <<toBroker, toClient>>
        /\ UNCHANGED <<content, Told, unanswered>>
    BY <1>4 DEF RecvConnack, ConnRecvConnack, TypeInv, LinkInv, history, Told
  <2>2. Len(toBroker) = 0 /\ Len(toClient) = 0 /\ Len(toBroker') = 0 /\ Len(toClient') = 0
    BY <2>1
  <2>3. /\ inbox'[m] = "sent" => inbox[m] = "sent"
        /\ inbox'[m] = "new" => inbox[m] = "new"
    BY <1>4 DEF RecvConnack, Unacknowledged
  <2>4. ~Acked(m) /\ ~Acked(m)'
    BY <2>2 DEF Acked
  <2>. QED BY <1>1, <2>1, <2>2, <2>3, <2>4 DEF OneAtATime, Released, ReportedOnce
<1>. QED BY <1>2, <1>3, <1>4, <1>5

(* The packets to the client after one more.                               *)
LEMMA ClientSent ==
  ASSUME WireTypeOK, NEW p, toClient' = Append(toClient, p), NEW m
  PROVE  /\ \A i \in 1..Len(toClient') : i \in 1..Len(toClient) \/ i = Len(toClient) + 1
         /\ \A i \in 1..Len(toClient) : toClient'[i] = toClient[i]
         /\ \A i \in 1..Len(toClient) : Publishes(i, m)' <=> Publishes(i, m)
         /\ toClient'[Len(toClient) + 1] = p
<1>1. PICK n \in Nat : n = Len(toClient)
  BY DEF WireTypeOK
<1>2. /\ Len(toClient') = n + 1 /\ toClient'[n + 1] = p
      /\ \A i \in 1..n : toClient'[i] = toClient[i]
  BY <1>1 DEF WireTypeOK
<1>. QED BY <1>1, <1>2 DEF Publishes

(* A PUBLISH for w is put under way when none is, and none for the others. *)
LEMMA PublishMsg ==
  ASSUME TypeInv, MsgInv, NEW w \in Msg \cup {NoMsg}, NEW r \in [topic : Topic, qos : {0, 1, 2}],
         w = NoMsg <=> r.qos = 0, NEW a \in 0..Announced, SendsPublish(w, r, a),
         UNCHANGED <<Told, unanswered, toBroker>>,
         w \in Msg => /\ inbox[w] = "new" \/ w \in again
                      /\ inbox'[w] = "sent" /\ w \notin again'
                      /\ content'[w] \in [topic : Topic, qos : Qos]
                      /\ inbox[w] \in {"new", "sent"},
         \A x \in Msg : x # w => /\ inbox'[x] = inbox[x] /\ content'[x] = content[x]
                                 /\ x \in again' <=> x \in again
  PROVE  MsgInv'
<1> SUFFICES ASSUME NEW m \in Msg PROVE (OneAtATime(m) /\ Released(m) /\ ReportedOnce(m))'
  BY DEF MsgInv
<1>1. OneAtATime(m) /\ Released(m) /\ ReportedOnce(m)
  BY DEF MsgInv
<1>2. PICK t, p : p = PublishPacket(w, r, a, t) /\ toClient' = Append(toClient, p)
  BY SendsPublishType
<1>3. p.type = "PUBLISH" /\ p.msg = w
  BY <1>2 DEF PublishPacket
<1>4. PICK n \in Nat : n = Len(toClient)
  BY DEF TypeInv, WireTypeOK
<1>5. /\ \A i \in 1..Len(toClient') : i \in 1..n \/ i = n + 1
      /\ \A i \in 1..n : toClient'[i] = toClient[i]
      /\ \A i \in 1..n : Publishes(i, m)' <=> Publishes(i, m)
      /\ toClient'[n + 1] = p
  BY <1>2, <1>4, ClientSent DEF TypeInv
<1>6. Publishes(n + 1, m)' <=> m = w
  BY <1>3, <1>5 DEF Publishes
<1>7. Acked(m)' <=> Acked(m)
  BY DEF Acked, Acks
<1>8. m = w => ~Acked(m) /\ \A i \in 1..n : ~Publishes(i, m)
  BY <1>1, <1>4 DEF OneAtATime
<1>9. OneAtATime(m)'
  <2>1. ASSUME NEW i \in 1..Len(toClient'), Publishes(i, m)'
        PROVE  /\ inbox'[m] = "sent" /\ m \notin again' /\ ~Acked(m)'
               /\ \A j \in 1..Len(toClient') : Publishes(j, m)' => i = j
    <3>1. CASE m = w
      <4>1. \A j \in 1..Len(toClient') : Publishes(j, m)' => j = n + 1
        BY <1>5, <1>8, <3>1
      <4>. QED BY <1>7, <1>8, <2>1, <3>1, <4>1
    <3>2. CASE m # w
      <4>1. \A j \in 1..Len(toClient') : Publishes(j, m)' => j \in 1..n /\ Publishes(j, m)
        BY <1>5, <1>6, <3>2
      <4>. QED BY <1>1, <1>4, <1>7, <2>1, <3>2, <4>1 DEF OneAtATime
    <3>. QED BY <3>1, <3>2
  <2>2. Acked(m)' => Told'[m] > 0 /\ inbox'[m] # "new" /\ m \notin again'
    BY <1>1, <1>7, <1>8 DEF OneAtATime
  <2>. QED BY <2>1, <2>2 DEF OneAtATime
<1>10. Released(m)'
  <2>1. \A i \in 1..Len(toClient') : toClient'[i].type = "PUBREL" => i \in 1..n
    BY <1>3, <1>5
  <2>2. m = w => \A i \in 1..n : ~(toClient[i].type = "PUBREL" /\ toClient[i].msg = m)
    BY <1>1, <1>4 DEF Released
  <2>3. m = w => \A i \in 1..Len(toBroker) : ~(toBroker[i].type = "PUBCOMP" /\ toBroker[i].msg = m)
    BY <1>1 DEF Released
  <2>. QED BY <1>1, <1>4, <1>5, <2>1, <2>2, <2>3 DEF Released
<1>11. ReportedOnce(m)'
  <2>1. CASE m = w
    <3>1. Told[m] \in 0..2
      BY DEF TypeInv, TypeOK, Told
    <3>2. CASE inbox[m] = "new"
      BY <1>1, <1>7, <2>1, <3>1, <3>2 DEF ReportedOnce
    <3>3. CASE inbox[m] = "sent"
      BY <1>1, <1>7, <2>1, <3>1, <3>3 DEF ReportedOnce
    <3>. QED BY <2>1, <3>2, <3>3
  <2>2. CASE m # w
    BY <1>1, <1>7, <2>2 DEF ReportedOnce
  <2>. QED BY <2>1, <2>2
<1>. QED BY <1>9, <1>10, <1>11

(* A PUBREL for a message that the broker has released.                    *)
LEMMA PubrelMsg ==
  ASSUME WireTypeOK, NEW w \in Msg, toClient' = Append(toClient, [type |-> "PUBREL", msg |-> w]),
         NEW m \in Msg
  PROVE  /\ \A i \in 1..Len(toClient') :
              Publishes(i, m)' => i \in 1..Len(toClient) /\ Publishes(i, m)
         /\ \A i \in 1..Len(toClient') :
              toClient'[i].type = "PUBREL" /\ toClient'[i].msg = m =>
                \/ w = m
                \/ i \in 1..Len(toClient) /\ toClient[i].type = "PUBREL" /\ toClient[i].msg = m
<1>1. PICK p : p = [type |-> "PUBREL", msg |-> w]
  OBVIOUS
<1>2. PICK n \in Nat : n = Len(toClient)
  BY DEF WireTypeOK
<1>3. /\ \A i \in 1..Len(toClient') : i \in 1..n \/ i = n + 1
      /\ \A i \in 1..n : toClient'[i] = toClient[i]
      /\ \A i \in 1..n : Publishes(i, m)' <=> Publishes(i, m)
      /\ toClient'[n + 1] = p
  BY <1>1, <1>2, ClientSent
<1>4. p.type # "PUBLISH" /\ p.msg = w
  BY <1>1
<1>5. ~Publishes(n + 1, m)'
  BY <1>3, <1>4 DEF Publishes
<1>. QED BY <1>2, <1>3, <1>4, <1>5

LEMMA BrokerMsg ==
  ASSUME TypeInv, MsgInv,
         \/ \E t \in Topic, a \in 0..Announced : BrokerPublishesQos0(t, a)
         \/ \E m \in Msg, a \in 0..Announced :
              \/ BrokerSendsAgain(m, a)
              \/ \E r \in [topic : Topic, qos : Qos] : BrokerPublishes(m, r, a)
  PROVE  MsgInv'
<1>1. ASSUME NEW t \in Topic, NEW a \in 0..Announced, BrokerPublishesQos0(t, a) PROVE MsgInv'
  <2>1. /\ SendsPublish(NoMsg, [topic |-> t, qos |-> 0], a)
        /\ UNCHANGED <<inbox, content, again, Told, unanswered, toBroker>>
    BY <1>1 DEF BrokerPublishesQos0, history, Told
  <2>2. PICK r \in [topic : Topic, qos : {0, 1, 2}] : r = [topic |-> t, qos |-> 0]
    OBVIOUS
  <2>3. r.qos = 0 /\ SendsPublish(NoMsg, r, a) /\ NoMsg \notin Msg
    BY <2>1, <2>2, InboundAssumption
  <2>. QED BY <2>1, <2>3, PublishMsg
<1>2. ASSUME NEW w \in Msg, NEW a \in 0..Announced, NEW r \in [topic : Topic, qos : Qos],
             BrokerPublishes(w, r, a)
      PROVE  MsgInv'
  <2>1. /\ inbox[w] = "new" /\ inbox' = [inbox EXCEPT ![w] = "sent"]
        /\ content' = [content EXCEPT ![w] = r] /\ SendsPublish(w, r, a)
        /\ UNCHANGED <<again, Told, unanswered, toBroker>>
    BY <1>2 DEF BrokerPublishes, history, Told
  <2>2. r \in [topic : Topic, qos : {0, 1, 2}] /\ r.qos # 0 /\ w # NoMsg
    BY ContentType, InboundAssumption
  <2>3. w \notin again /\ inbox'[w] = "sent" /\ content'[w] = r
    BY <2>1 DEF TypeInv, TypeOK, Unacknowledged
  <2>4. \A x \in Msg : x # w => inbox'[x] = inbox[x] /\ content'[x] = content[x]
    BY <2>1 DEF TypeInv, TypeOK
  <2>. QED BY <2>1, <2>2, <2>3, <2>4, PublishMsg
<1>3. ASSUME NEW w \in Msg, NEW a \in 0..Announced, BrokerSendsAgain(w, a) PROVE MsgInv'
  <2>1. /\ w \in again /\ again' = again \ {w}
        /\ UNCHANGED <<inbox, content, Told, unanswered, toBroker>>
    BY <1>3 DEF BrokerSendsAgain, history, Told
  <2>2. CASE inbox[w] = "sent" /\ SendsPublish(w, content[w], a)
    <3>1. content[w] \in [topic : Topic, qos : Qos]
      BY <2>2 DEF MsgInv, ReportedOnce
    <3>2. PICK r \in [topic : Topic, qos : {0, 1, 2}] : r = content[w] /\ r.qos # 0
      BY <3>1, ContentType
    <3>3. w # NoMsg /\ SendsPublish(w, r, a)
      BY <2>2, <3>2, InboundAssumption
    <3>4. \A x \in Msg : x # w => (x \in again' <=> x \in again)
      BY <2>1
    <3>. QED BY <2>1, <2>2, <3>1, <3>2, <3>3, <3>4, PublishMsg
  <2>3. CASE inbox[w] = "released" /\ BrokerSends([type |-> "PUBREL", msg |-> w])
    <3> SUFFICES ASSUME NEW m \in Msg PROVE (OneAtATime(m) /\ Released(m) /\ ReportedOnce(m))'
      BY DEF MsgInv
    <3>1. OneAtATime(m) /\ Released(m) /\ ReportedOnce(m) /\ WireTypeOK
      BY DEF MsgInv, TypeInv
    <3>2. toClient' = Append(toClient, [type |-> "PUBREL", msg |-> w])
      BY <2>3 DEF BrokerSends
    <3>3. /\ \A i \in 1..Len(toClient') :
               Publishes(i, m)' => i \in 1..Len(toClient) /\ Publishes(i, m)
          /\ \A i \in 1..Len(toClient') :
               toClient'[i].type = "PUBREL" /\ toClient'[i].msg = m =>
                 \/ w = m
                 \/ i \in 1..Len(toClient) /\ toClient[i].type = "PUBREL" /\ toClient[i].msg = m
      BY <3>1, <3>2, PubrelMsg
    <3>4. Acked(m)' <=> Acked(m)
      BY <2>1 DEF Acked, Acks
    <3>5. OneAtATime(m)'
      BY <2>1, <3>1, <3>3, <3>4 DEF OneAtATime
    <3>6. Released(m)'
      BY <2>1, <2>3, <3>1, <3>3 DEF Released
    <3>. QED BY <2>1, <3>1, <3>4, <3>5, <3>6 DEF ReportedOnce
  <2>. QED BY <1>3, <2>2, <2>3 DEF BrokerSendsAgain
<1>. QED BY <1>1, <1>2, <1>3

LEMMA BrokerTakesAckMsg ==
  ASSUME TypeInv, MsgInv, NEW type \in {"PUBACK", "PUBREC", "PUBCOMP"}, BrokerTakesAck(type)
  PROVE  MsgInv'
<1> SUFFICES ASSUME NEW m \in Msg PROVE (OneAtATime(m) /\ Released(m) /\ ReportedOnce(m))'
  BY DEF MsgInv
<1>1. PICK w \in Msg : w = Head(toBroker).msg
  BY FirstAck DEF BrokerTakesAck
<1>2. /\ again' = again \ {w} /\ BrokerReads(type)
      /\ \/ /\ type \in {"PUBACK", "PUBCOMP"}
            /\ inbox' = [inbox EXCEPT ![w] = "done"] /\ UNCHANGED toClient
         \/ /\ type = "PUBREC"
            /\ inbox' = [inbox EXCEPT ![w] = "released"]
            /\ BrokerSends([type |-> "PUBREL", msg |-> w])
      /\ UNCHANGED <<content, Told, unanswered>>
  BY <1>1 DEF BrokerTakesAck, history, Told
<1>3. OneAtATime(m) /\ Released(m) /\ ReportedOnce(m) /\ WireTypeOK
  BY DEF MsgInv, TypeInv
<1>4. /\ Acked(m)' => Acked(m)
      /\ Acked(m) => Acked(m)' \/ (type \in {"PUBACK", "PUBREC"} /\ m = w)
      /\ type \in {"PUBACK", "PUBREC"} => Acked(w)
      /\ \A i \in 1..Len(toBroker') :
           i + 1 \in 1..Len(toBroker) /\ toBroker'[i] = toBroker[i + 1]
  BY <1>1, <1>2, AckedAfterRead
<1>5. inbox'[w] \in {"released", "done"} /\ \A x \in Msg : x # w => inbox'[x] = inbox[x]
  BY <1>2 DEF TypeInv, TypeOK
<1>6. /\ \A i \in 1..Len(toClient') :
           Publishes(i, m)' => i \in 1..Len(toClient) /\ Publishes(i, m)
      /\ \A i \in 1..Len(toClient') :
           toClient'[i].type = "PUBREL" /\ toClient'[i].msg = m =>
             \/ w = m
             \/ i \in 1..Len(toClient) /\ toClient[i].type = "PUBREL" /\ toClient[i].msg = m
  <2>1. CASE UNCHANGED toClient
    BY <2>1 DEF Publishes
  <2>2. CASE BrokerSends([type |-> "PUBREL", msg |-> w])
    <3>1. toClient' = Append(toClient, [type |-> "PUBREL", msg |-> w])
      BY <2>2 DEF BrokerSends
    <3>. QED BY <1>3, <3>1, PubrelMsg
  <2>. QED BY <1>2, <2>1, <2>2
(* The broker reads a PUBACK or PUBREC while no PUBLISH of its message is
   under way, and a PUBCOMP after it released the message.                 *)
<1>7. \A i \in 1..Len(toClient) : ~Publishes(i, w)
  <2>1. CASE type \in {"PUBACK", "PUBREC"}
    BY <1>4, <2>1 DEF MsgInv, OneAtATime
  <2>2. CASE type = "PUBCOMP"
    <3>1. 1 \in 1..Len(toBroker) /\ toBroker[1].type = "PUBCOMP" /\ toBroker[1].msg = w
      BY <1>1, <1>2, <2>2, FirstAck
    <3>2. inbox[w] \in {"released", "done"}
      BY <3>1 DEF MsgInv, Released
    <3>. QED BY <3>2 DEF MsgInv, OneAtATime
  <2>. QED BY <2>1, <2>2
<1>8. OneAtATime(m)'
  <2>1. \A i \in 1..Len(toClient') : Publishes(i, m)' => m # w
    BY <1>6, <1>7
  <2>. QED BY <1>2, <1>3, <1>4, <1>5, <1>6, <2>1 DEF OneAtATime
<1>9. Released(m)'
  <2>1. CASE m = w
    BY <1>5, <2>1 DEF Released
  <2>2. CASE m # w
    BY <1>3, <1>4, <1>5, <1>6, <2>2 DEF Released
  <2>. QED BY <2>1, <2>2
<1>10. ReportedOnce(m)'
  <2>1. CASE m = w
    BY <1>2, <1>3, <1>5, <2>1 DEF ReportedOnce
  <2>2. CASE m # w
    BY <1>2, <1>3, <1>4, <1>5, <2>2 DEF ReportedOnce
  <2>. QED BY <2>1, <2>2
<1>. QED BY <1>8, <1>9, <1>10

LEMMA MsgStep ==
  ASSUME TypeInv, MsgInv, [Next]_vars
  PROVE  MsgInv'
<1>1. CASE Connect \/ Resume \/ Break \/ Disconnect \/ (\E sp \in BOOLEAN : RecvConnack(sp))
             \/ Report \/ UNCHANGED vars
  BY <1>1, ConnectionMsg
<1>2. CASE RecvPublish
  BY <1>2, RecvPublishMsg
<1>3. CASE RecvBadPublish
  BY <1>3, RecvBadPublishMsg
<1>4. CASE RecvPubrel
  BY <1>4, RecvPubrelMsg
<1>5. CASE \/ \E t \in Topic, a \in 0..Announced : BrokerPublishesQos0(t, a)
           \/ \E m \in Msg, a \in 0..Announced :
                \/ BrokerSendsAgain(m, a)
                \/ \E r \in [topic : Topic, qos : Qos] : BrokerPublishes(m, r, a)
  BY <1>5, BrokerMsg
<1>6. ASSUME NEW type \in {"PUBACK", "PUBREC", "PUBCOMP"}, BrokerTakesAck(type) PROVE MsgInv'
  BY <1>6, BrokerTakesAckMsg
<1>. QED BY <1>1, <1>2, <1>3, <1>4, <1>5, <1>6 DEF Next

-----------------------------------------------------------------------------
(* Every message is reported under its topic                               *)

(* A packet the broker sends: a PUBLISH without a topic has an alias that
   was given the topic.                                                    *)
LEMMA SendTopic ==
  ASSUME TypeInv, TopicInv, NEW p \in FromBroker, toClient' = Append(toClient, p),
         UNCHANGED <<topic_aliases, reporting>>,
         p.type # "PUBLISH" => UNCHANGED given,
         p.type = "PUBLISH" =>
           /\ p.meant # NoTopic /\ p.alias \in 0..Announced
           /\ p.topic # Empty => p.meant = p.topic
           /\ p.topic = Empty => p.alias # 0 /\ given[p.alias] = p.meant
           /\ given' = IF p.alias # 0 THEN [given EXCEPT ![p.alias] = p.meant] ELSE given
  PROVE  TopicInv'
<1>1. PICK n \in Nat : n = Len(toClient)
  BY DEF TypeInv, WireTypeOK
<1>2. toClient \in Seq(FromBroker)
  BY DEF TypeInv, WireTypeOK
<1>3. /\ Len(toClient') = n + 1 /\ toClient'[n + 1] = p
      /\ \A i \in 1..n : toClient'[i] = toClient[i]
  BY <1>1, <1>2
<1>4. \A b, t :
        /\ \A k \in 0..n : Knows(b, t, k) => Knows(b, t, k)'
        /\ Knows(b, t, n) /\ ~(p.type = "PUBLISH" /\ p.alias = b /\ p.topic # Empty)
             => Knows(b, t, n + 1)'
        /\ p.type = "PUBLISH" /\ p.topic # Empty => Knows(p.alias, p.topic, n + 1)'
  <2> SUFFICES ASSUME NEW b, NEW t
               PROVE  /\ \A k \in 0..n : Knows(b, t, k) => Knows(b, t, k)'
                      /\ Knows(b, t, n) /\ ~(p.type = "PUBLISH" /\ p.alias = b /\ p.topic # Empty)
                           => Knows(b, t, n + 1)'
                      /\ p.type = "PUBLISH" /\ p.topic # Empty => Knows(p.alias, p.topic, n + 1)'
    OBVIOUS
  <2>. QED BY <1>1, <1>2, KnowsAfterSend
<1>5. \A a \in 1..Announced : a \in Alias /\ given[a] # NoTopic => Knows(a, given[a], n)
  BY <1>1 DEF TopicInv
<1>6. \A i \in 1..n : Resolves(i)
  BY <1>1 DEF TopicInv
<1>7. ASSUME NEW i \in 1..n PROVE Resolves(i)'
  <2>1. Resolves(i) /\ i - 1 \in 0..n
    BY <1>6
  <2>. QED BY <1>3, <1>4, <2>1 DEF Resolves
<1>8. Resolves(n + 1)'
  <2>1. p.type = "PUBLISH" /\ p.topic = Empty /\ p.alias \in Alias => Knows(p.alias, p.meant, n)'
    <3> SUFFICES ASSUME p.type = "PUBLISH", p.topic = Empty, p.alias \in Alias
                 PROVE  Knows(p.alias, p.meant, n)'
      OBVIOUS
    <3>1. p.alias \in 1..Announced /\ given[p.alias] = p.meant /\ p.meant # NoTopic
      OBVIOUS
    <3>2. Knows(p.alias, p.meant, n)
      BY <1>5, <3>1
    <3>. QED BY <1>4, <3>2
  <2>2. (n + 1) - 1 = n
    OBVIOUS
  <2>. QED BY <1>3, <2>1, <2>2 DEF Resolves
<1>9. \A i \in 1..(n + 1) : Resolves(i)'
  <2>1. \A i \in 1..(n + 1) : i \in 1..n \/ i = n + 1
    OBVIOUS
  <2>. QED BY <1>7, <1>8, <2>1
<1>10. ASSUME NEW a \in 1..Announced, a \in Alias, given'[a] # NoTopic
       PROVE  Knows(a, given[a], n + 1)'
  <2>1. given \in [1..Announced -> Topic \cup {NoTopic}]
    BY DEF TypeInv, TypeOK
  <2>2. CASE p.type = "PUBLISH" /\ p.alias = a
    <3>1. given'[a] = p.meant
      <4>1. p.alias # 0 /\ given' = [given EXCEPT ![a] = p.meant]
        BY <2>2
      <4>. QED BY <2>1, <4>1
    <3>2. CASE p.topic # Empty
      BY <1>4, <2>2, <3>1, <3>2
    <3>3. CASE p.topic = Empty
      <4>1. given[a] = p.meant /\ given[a] # NoTopic
        BY <2>2, <3>3
      <4>2. Knows(a, p.meant, n)
        BY <1>5, <1>10, <4>1
      <4>. QED BY <1>4, <3>1, <3>3, <4>2
    <3>. QED BY <3>2, <3>3
  <2>3. CASE ~(p.type = "PUBLISH" /\ p.alias = a)
    <3>1. given'[a] = given[a]
      BY <2>1, <2>3
    <3>2. Knows(a, given[a], n)
      BY <1>5, <1>10, <3>1
    <3>. QED BY <1>4, <2>3, <3>1, <3>2
  <2>. QED BY <2>2, <2>3
<1>11. RightTopic'
  BY DEF TopicInv, RightTopic
<1>. QED BY <1>3, <1>9, <1>10, <1>11 DEF TopicInv

(* A packet the client reads, from which it learns its aliases.            *)
LEMMA ReadTopic ==
  ASSUME TypeInv, TopicInv, NEW type, Received(type), Learns, UNCHANGED given, RightTopic'
  PROVE  TopicInv'
<1>1. PICK n \in Nat : n = Len(toClient)
  BY DEF TypeInv, WireTypeOK
<1>2. toClient \in Seq(FromBroker) /\ toClient # <<>> /\ toClient' = Tail(toClient) /\ 1 \in 1..n
  BY <1>1, FirstPacket DEF TypeInv, WireTypeOK
<1>3. Len(toClient') = n - 1 /\ \A i \in 1..(n - 1) : toClient'[i] = toClient[i + 1]
  BY <1>1, <1>2
<1>4. \A t : \A b \in Alias, k \in 1..n : Knows(b, t, k) => Knows(b, t, k - 1)'
  <2> SUFFICES ASSUME NEW b \in Alias, NEW t, NEW k \in 1..n, Knows(b, t, k)
               PROVE  Knows(b, t, k - 1)'
    OBVIOUS
  <2>. QED BY <1>1, <1>2, KnowsAfterRead
<1>5. ASSUME NEW i \in 1..(n - 1) PROVE Resolves(i)'
  <2>1. i + 1 \in 1..n /\ i \in 1..n /\ (i + 1) - 1 = i
    OBVIOUS
  <2>2. Resolves(i + 1)
    BY <1>1, <2>1 DEF TopicInv
  <2>. QED BY <1>3, <1>4, <2>1, <2>2 DEF Resolves
<1>6. ASSUME NEW a \in 1..Announced, a \in Alias, given[a] # NoTopic
      PROVE  Knows(a, given[a], n - 1)'
  <2>1. Knows(a, given[a], n) /\ n \in 1..n
    BY <1>1, <1>2, <1>6 DEF TopicInv
  <2>. QED BY <1>4, <1>6, <2>1
<1>. QED BY <1>3, <1>5, <1>6 DEF TopicInv

LEMMA FirstTells ==
  ASSUME TypeInv, NEW type, Received(type), NEW b
  PROVE  Tells(1, b) <=> /\ type = "PUBLISH" /\ Head(toClient).alias = b
                         /\ Head(toClient).topic # Empty
BY FirstPacket DEF Tells

LEMMA ReceiveTopic ==
  ASSUME TypeInv, TopicInv, RecvPublish \/ RecvBadPublish \/ RecvPubrel
  PROVE  TopicInv'
<1>0. topic_aliases \in [Alias -> Topic \cup {NoTopic}] /\ Alias \subseteq Nat
  BY DEF TypeInv, TypeOK, Alias
<1>1. CASE RecvPublish
  <2> DEFINE p == Head(toClient)
  <2>1. /\ Received("PUBLISH") /\ ~Bad(p) /\ topic_aliases' = Stored(p) /\ UNCHANGED given
        /\ \A r \in reporting' : /\ r.topic = IF p.topic # Empty THEN p.topic ELSE Lookup(p.alias)
                                 /\ r.meant = p.meant
    BY <1>1 DEF RecvPublish, broker
  <2>2. p = toClient[1]
    BY <2>1, FirstPacket
  <2>3. \A b : Tells(1, b) <=> p.alias = b /\ p.topic # Empty
    BY <2>1, FirstTells
  <2>4. Resolves(1) /\ p.type = "PUBLISH"
    BY <2>1, FirstPacket DEF TopicInv
  <2>5. Learns
    <3> HIDE DEF p
    <3>. QED BY <1>0, <2>1, <2>2, <2>3 DEF Learns, Stored
  <2>6. (IF p.topic # Empty THEN p.topic ELSE Lookup(p.alias)) = p.meant
    <3>1. CASE p.topic # Empty
      BY <2>2, <2>4, <3>1 DEF Resolves
    <3>2. CASE p.topic = Empty
      <4>1. Lookup(p.alias) # NoTopic
        BY <2>1, <3>2 DEF Bad
      <4>2. p.alias \in Alias /\ Lookup(p.alias) = topic_aliases[p.alias]
        BY <4>1 DEF Lookup
      <4>3. Knows(p.alias, p.meant, 0)
        BY <2>2, <2>4, <3>2, <4>2 DEF Resolves
      <4>4. \A i \in 1..0 : FALSE
        OBVIOUS
      <4>. QED BY <3>2, <4>2, <4>3, <4>4 DEF Knows
    <3>. QED BY <3>1, <3>2
  <2> HIDE DEF p
  <2>7. RightTopic'
    BY <2>1, <2>6 DEF RightTopic
  <2>. QED BY <2>1, <2>5, <2>7, ReadTopic
<1>2. CASE RecvBadPublish
  <2>1. Received("PUBLISH") /\ Bad(Head(toClient)) /\ UNCHANGED <<topic_aliases, reporting, given>>
    BY <1>2 DEF RecvBadPublish, broker
  <2>2. \A b \in Alias : ~Tells(1, b)
    <3>1. \A b \in Alias : b <= Capacity
      BY DEF Alias
    <3>2. Capacity \in Nat
      BY InboundAssumption
    <3>. QED BY <1>0, <2>1, <3>1, <3>2, FirstTells DEF Bad
  <2>. QED BY <2>1, <2>2, ReadTopic DEF Learns, TopicInv, RightTopic
<1>3. CASE RecvPubrel
  <2>1. Received("PUBREL") /\ UNCHANGED <<topic_aliases, reporting, given>>
    BY <1>3 DEF RecvPubrel, inVars, broker
  <2>2. \A b \in Alias : ~Tells(1, b)
    BY <2>1, FirstTells
  <2>. QED BY <2>1, <2>2, ReadTopic DEF Learns, TopicInv, RightTopic
<1>. QED BY <1>1, <1>2, <1>3

LEMMA PublishTopic ==
  ASSUME TypeInv, TopicInv, UNCHANGED <<topic_aliases, reporting>>,
         NEW m \in Msg \cup {NoMsg}, NEW r \in [topic : Topic, qos : {0, 1, 2}],
         m = NoMsg <=> r.qos = 0, NEW a \in 0..Announced, SendsPublish(m, r, a)
  PROVE  TopicInv'
<1>1. PICK t \in {r.topic, Empty} :
        /\ t = Empty => a # 0 /\ given[a] = r.topic
        /\ given' = IF a # 0 THEN [given EXCEPT ![a] = r.topic] ELSE given
        /\ PublishPacket(m, r, a, t) \in FromBroker
        /\ toClient' = Append(toClient, PublishPacket(m, r, a, t))
  BY SendsPublishType
<1>2. PICK p \in FromBroker : p = PublishPacket(m, r, a, t)
  BY <1>1
<1>3. p.type = "PUBLISH" /\ p.meant = r.topic /\ p.alias = a /\ p.topic = t
  BY <1>2 DEF PublishPacket
<1>4. r.topic \in Topic /\ r.topic # NoTopic /\ r.topic # Empty
  BY InboundAssumption
<1>. QED BY <1>1, <1>2, <1>3, <1>4, SendTopic

LEMMA PubrelTopic ==
  ASSUME TypeInv, TopicInv, UNCHANGED <<topic_aliases, reporting, given>>, NEW m \in Msg,
         BrokerSends([type |-> "PUBREL", msg |-> m])
  PROVE  TopicInv'
<1>1. PICK p \in FromBroker : p = [type |-> "PUBREL", msg |-> m]
  BY DEF FromBroker
<1>2. p.type # "PUBLISH" /\ toClient' = Append(toClient, p)
  BY <1>1 DEF BrokerSends
<1>. QED BY <1>2, SendTopic

LEMMA TopicStep ==
  ASSUME TypeInv, MsgInv, TopicInv, [Next]_vars
  PROVE  TopicInv'
<1>1. CASE UNCHANGED <<toClient, topic_aliases, given, reporting>>
  BY <1>1 DEF TopicInv, RightTopic, Resolves, Knows, Tells
<1>2. CASE Connect
  <2>1. topic_aliases' = topic_aliases /\ UNCHANGED <<toClient, given, reporting>>
    BY <1>2 DEF Connect, ConnConnect, TypeInv, LinkInv, NoAliases, Alias, broker
  <2>. QED BY <1>1, <2>1
<1>3. CASE Resume \/ Break \/ (\E sp \in BOOLEAN : RecvConnack(sp)) \/ UNCHANGED vars
  <2>1. UNCHANGED <<toClient, topic_aliases, given, reporting>>
    BY <1>3 DEF Resume, Break, ConnBreak, RecvConnack, ConnRecvConnack, vars, connVars, inVars,
                network, broker
  <2>. QED BY <1>1, <2>1
<1>4. CASE Disconnect
  <2>1. /\ Len(toClient') = 0 /\ given' = [a \in 1..Announced |-> NoTopic]
        /\ reporting' = {[r EXCEPT !.held = IF @ = "table" THEN "freed" ELSE @] : r \in reporting}
    BY <1>4 DEF Disconnect, ConnClose
  <2>2. RightTopic'
    <3>1. CASE reporting = {}
      BY <2>1, <3>1 DEF RightTopic
    <3>2. CASE reporting # {}
      <4>1. PICK q \in [msg : Msg \cup {NoMsg}, topic : Topic \cup {NoTopic}, meant : Topic,
                        held : Places] : reporting = {q}
        BY <3>2 DEF TypeInv, TypeOK
      <4>2. q.held # "freed" => q.topic = q.meant
        BY <4>1 DEF TopicInv, RightTopic
      <4>3. PICK q2 : q2 = [q EXCEPT !.held = IF @ = "table" THEN "freed" ELSE @]
        OBVIOUS
      <4>4. q2.topic = q.topic /\ q2.meant = q.meant /\ (q2.held # "freed" => q.held # "freed")
        BY <4>3
      <4>5. reporting' = {q2}
        BY <2>1, <4>1, <4>3
      <4>. QED BY <4>2, <4>4, <4>5 DEF RightTopic
    <3>. QED BY <3>1, <3>2
  <2>. QED BY <2>1, <2>2 DEF TopicInv
<1>10. CASE Report
  <2>1. reporting' = {} /\ UNCHANGED <<toClient, topic_aliases, given>>
    BY <1>10 DEF Report, network, broker
  <2>. QED BY <2>1 DEF TopicInv, RightTopic, Resolves, Knows, Tells
<1>5. CASE RecvPublish \/ RecvBadPublish \/ RecvPubrel
  BY <1>5, ReceiveTopic
<1>6. ASSUME NEW t \in Topic, NEW a \in 0..Announced, BrokerPublishesQos0(t, a) PROVE TopicInv'
  <2>1. PICK r \in [topic : Topic, qos : {0, 1, 2}] : r = [topic |-> t, qos |-> 0]
    OBVIOUS
  <2>2. r.qos = 0 /\ SendsPublish(NoMsg, r, a) /\ UNCHANGED <<topic_aliases, reporting>>
    BY <1>6, <2>1 DEF BrokerPublishesQos0
  <2>. QED BY <2>2, PublishTopic
<1>7. ASSUME NEW m \in Msg, NEW a \in 0..Announced, NEW r \in [topic : Topic, qos : Qos],
             BrokerPublishes(m, r, a)
      PROVE  TopicInv'
  <2>1. r \in [topic : Topic, qos : {0, 1, 2}] /\ r.qos # 0 /\ m # NoMsg
    BY ContentType, InboundAssumption
  <2>2. SendsPublish(m, r, a) /\ UNCHANGED <<topic_aliases, reporting>>
    BY <1>7 DEF BrokerPublishes
  <2>. QED BY <2>1, <2>2, PublishTopic
<1>8. ASSUME NEW m \in Msg, NEW a \in 0..Announced, BrokerSendsAgain(m, a) PROVE TopicInv'
  <2>1. UNCHANGED <<topic_aliases, reporting>>
    BY <1>8 DEF BrokerSendsAgain
  <2>2. CASE inbox[m] = "sent" /\ SendsPublish(m, content[m], a)
    <3>1. content[m] \in [topic : Topic, qos : Qos]
      BY <2>2 DEF MsgInv, ReportedOnce
    <3>2. PICK r \in [topic : Topic, qos : {0, 1, 2}] : r = content[m] /\ r.qos # 0
      BY <3>1, ContentType
    <3>3. m # NoMsg /\ SendsPublish(m, r, a)
      BY <2>2, <3>2, InboundAssumption
    <3>. QED BY <2>1, <3>2, <3>3, PublishTopic
  <2>3. CASE BrokerSends([type |-> "PUBREL", msg |-> m]) /\ UNCHANGED given
    BY <2>1, <2>3, PubrelTopic
  <2>. QED BY <1>8, <2>2, <2>3 DEF BrokerSendsAgain
<1>9. ASSUME NEW type \in {"PUBACK", "PUBREC", "PUBCOMP"}, BrokerTakesAck(type) PROVE TopicInv'
  <2>1. PICK m \in Msg : m = Head(toBroker).msg
    BY <1>9, FirstAck DEF BrokerTakesAck
  <2>2. /\ UNCHANGED <<topic_aliases, reporting, given>>
        /\ UNCHANGED toClient \/ BrokerSends([type |-> "PUBREL", msg |-> m])
    BY <1>9, <2>1 DEF BrokerTakesAck
  <2>. QED BY <1>1, <2>2, PubrelTopic
<1>. QED BY <1>2, <1>3, <1>4, <1>5, <1>6, <1>7, <1>8, <1>9, <1>10 DEF Next

-----------------------------------------------------------------------------
(* The theorems                                                            *)

LEMMA InvHolds == Spec => []Inv
<1>1. Init => Inv
  BY InitInv
<1>2. Inv /\ [Next]_vars => Inv'
  BY TypeStep, MsgStep, TopicStep DEF Inv
<1>. QED BY <1>1, <1>2, PTL DEF Spec

(* The client's tables, the broker's view of the messages and the history
   of the events keep their types, and the broker sends again only what is
   unacknowledged.                                                         *)
THEOREM TypeCorrect == Spec => []TypeOK
<1>1. Inv => TypeOK
  BY DEF Inv, TypeInv
<1>. QED BY <1>1, InvHolds, PTL

(* The application is told of a message under its topic, whatever aliases
   noxmqtt_handler_publish resolved, unless another thread's disconnect
   freed the topic it looked up before the event.                          *)
THEOREM TopicsAreRight == Spec => []RightTopic
<1>1. Inv => RightTopic
  BY DEF Inv, TopicInv
<1>. QED BY <1>1, InvHolds, PTL

(* noxmqtt_handler_publish tells the application of a message again only
   when a PUBACK or PUBREC for it was not sent, or lost with a connection. *)
THEOREM RepeatsAreExplained == Spec => []TwiceOnlyIfLost
<1>1. Inv => TwiceOnlyIfLost
  <2> SUFFICES ASSUME Inv, NEW m \in Msg, delivered[m] = 2 PROVE m \in unanswered
    BY DEF TwiceOnlyIfLost
  <2>1. Told[m] = 2
    BY DEF Told
  <2>. QED BY <2>1 DEF Inv, MsgInv, ReportedOnce
<1>. QED BY <1>1, InvHolds, PTL

-----------------------------------------------------------------------------
(* Receiving implements ReliableDelivery                                   *)

(* What a message is to ReliableDelivery changes with it alone.            *)
LEMMA StatusChange ==
  ASSUME TypeOK, NEW m \in Msg,
         NEW x \in {"new", "sent", "released", "done", "dropped"},
         inbox' = [inbox EXCEPT ![m] = x]
  PROVE  /\ InboundStatus' = [InboundStatus EXCEPT ![m] =
                                IF x = "new" THEN "new"
                                ELSE IF x \in {"sent", "dropped"} THEN "pending" ELSE "done"]
         /\ InboundStatus[m] = IF inbox[m] = "new" THEN "new"
                               ELSE IF inbox[m] \in {"sent", "dropped"} THEN "pending" ELSE "done"
<1>1. inbox \in [Msg -> {"new", "sent", "released", "done", "dropped"}]
  BY DEF TypeOK
<1>2. \A y \in Msg : InboundStatus'[y] = IF y = m
        THEN IF x = "new" THEN "new" ELSE IF x \in {"sent", "dropped"} THEN "pending" ELSE "done"
        ELSE InboundStatus[y]
  BY <1>1 DEF InboundStatus
<1>. QED BY <1>1, <1>2 DEF InboundStatus

LEMMA PublishImplements ==
  ASSUME Inv, NEW m \in Msg, NEW a \in 0..Announced, NEW r \in [topic : Topic, qos : Qos],
         BrokerPublishes(m, r, a)
  PROVE  Receiving!Accept(m)
<1>1. inbox[m] = "new" /\ inbox' = [inbox EXCEPT ![m] = "sent"] /\ UNCHANGED Told
  BY DEF BrokerPublishes, history, Told
<1>2. InboundStatus[m] = "new" /\ InboundStatus' = [InboundStatus EXCEPT ![m] = "pending"]
  BY <1>1, StatusChange DEF Inv, TypeInv
<1>. QED BY <1>1, <1>2 DEF Receiving!Accept

LEMMA ReceiveImplements ==
  ASSUME Inv, RecvPublish
  PROVE  (\E m \in Msg : Receiving!Receive(m)) \/ UNCHANGED <<InboundStatus, Told>>
<1>1. Received("PUBLISH") /\ UNCHANGED inbox
  BY DEF RecvPublish, broker
<1>2. PICK w \in Msg \cup {NoMsg} : w = Head(toClient).msg
  BY <1>1, FirstPublish DEF Inv
<1>3. /\ Told' = [m \in Msg |-> IF m = w /\ Told[m] < 2 THEN Told[m] + 1 ELSE Told[m]]
      /\ Told \in [Msg -> 0..2]
  BY <1>2, PublishTold DEF Inv
<1>4. InboundStatus' = InboundStatus
  BY <1>1 DEF InboundStatus
<1>5. Told \in [Msg -> 0..2]
  BY <1>3
<1>6. CASE w \notin Msg
  BY <1>3, <1>4, <1>5, <1>6
<1>7. CASE w \in Msg
  <2>1. inbox[w] = "sent"
    <3>1. Publishes(1, w) /\ 1 \in 1..Len(toClient)
      BY <1>1, <1>2, FirstPacket DEF Publishes, Inv
    <3>. QED BY <1>7, <3>1 DEF Inv, MsgInv, OneAtATime
  <2>2. InboundStatus[w] = "pending"
    BY <1>7, <2>1 DEF InboundStatus
  <2>3. Told' = [Told EXCEPT ![w] = Receiving!AtMost2(@ + 1)]
    <3>1. Told[w] \in 0..2
      BY <1>5, <1>7
    <3>2. Receiving!AtMost2(Told[w] + 1) = IF Told[w] < 2 THEN Told[w] + 1 ELSE Told[w]
      BY <3>1 DEF Receiving!AtMost2
    <3>. QED BY <1>3, <1>5, <1>7, <3>2
  <2>4. [m \in Msg |-> 1][w] = 1
    BY <1>7
  <2>5. Receiving!Receive(w)
    BY <1>4, <2>2, <2>3, <2>4 DEF Receiving!Receive
  <2>. QED BY <1>7, <2>5
<1>. QED BY <1>6, <1>7

LEMMA AckImplements ==
  ASSUME Inv, NEW type \in {"PUBACK", "PUBREC", "PUBCOMP"}, BrokerTakesAck(type)
  PROVE  (\E m \in Msg : Receiving!Complete(m)) \/ UNCHANGED <<InboundStatus, Told>>
<1> USE DEF Inv
<1>1. PICK w \in Msg : w = Head(toBroker).msg
  BY FirstAck DEF BrokerTakesAck
<1>2. PICK x \in {"released", "done"} : inbox' = [inbox EXCEPT ![w] = x]
  BY <1>1 DEF BrokerTakesAck
<1>3. BrokerReads(type) /\ UNCHANGED Told
  BY DEF BrokerTakesAck, history, Told
<1>4. /\ InboundStatus' = [InboundStatus EXCEPT ![w] = "done"]
      /\ InboundStatus[w] = IF inbox[w] = "new" THEN "new"
                            ELSE IF inbox[w] \in {"sent", "dropped"} THEN "pending" ELSE "done"
  BY <1>2, StatusChange DEF TypeInv
<1>5. CASE type \in {"PUBACK", "PUBREC"}
  <2>1. Acked(w)
    BY <1>1, <1>3, <1>5, AckedAfterRead
  <2>2. Told[w] > 0 /\ inbox[w] # "new"
    BY <2>1 DEF MsgInv, OneAtATime
  <2>3. CASE inbox[w] \in {"sent", "dropped"}
    BY <1>3, <1>4, <2>2, <2>3 DEF Receiving!Complete
  <2>4. CASE inbox[w] \notin {"sent", "dropped"}
    <3>1. InboundStatus[w] = "done"
      BY <1>4, <2>2, <2>4
    <3>. QED BY <1>3, <1>4, <3>1 DEF InboundStatus
  <2>. QED BY <2>3, <2>4
<1>6. CASE type = "PUBCOMP"
  <2>1. 1 \in 1..Len(toBroker) /\ toBroker[1].type = "PUBCOMP" /\ toBroker[1].msg = w
    BY <1>1, <1>3, <1>6, FirstAck
  <2>2. InboundStatus[w] = "done"
    BY <1>4, <2>1 DEF MsgInv, Released
  <2>. QED BY <1>3, <1>4, <2>2 DEF InboundStatus
<1>. QED BY <1>5, <1>6

(* To a broker with a QoS 1 or 2 message the client is what ReliableDelivery
   promises: every message the broker has seen acknowledged is one the
   application was told of, or that the handler which acknowledged it is
   about to report.                                                        *)
THEOREM ReceivingDelivers == Spec => AtLeastOnce
<1>1. Init => Receiving!AbstractInit
  <2>1. ASSUME Init PROVE InboundStatus = [m \in Msg |-> "new"]
    BY <2>1 DEF Init, InboundStatus
  <2>2. ASSUME Init PROVE Told = [m \in Msg |-> 0]
    BY <2>2 DEF Init, Told
  <2>. QED BY <2>1, <2>2 DEF Init, Receiving!AbstractInit
<1>2. Inv /\ [Next]_vars => [Receiving!AbstractNext]_(Receiving!abstractVars)
  <2> SUFFICES ASSUME Inv, [Next]_vars
               PROVE  Receiving!AbstractNext \/ UNCHANGED Receiving!abstractVars
    OBVIOUS
  <2>1. ASSUME UNCHANGED <<InboundStatus, Told>> PROVE UNCHANGED Receiving!abstractVars
    BY <2>1 DEF Receiving!abstractVars
  <2>2. CASE RecvPublish
    BY <2>1, <2>2, ReceiveImplements DEF Receiving!AbstractNext
  <2>3. ASSUME NEW m \in Msg, NEW a \in 0..Announced, NEW r \in [topic : Topic, qos : Qos],
               BrokerPublishes(m, r, a)
        PROVE  Receiving!AbstractNext
    BY <2>3, PublishImplements DEF Receiving!AbstractNext
  <2>4. ASSUME NEW type \in {"PUBACK", "PUBREC", "PUBCOMP"}, BrokerTakesAck(type)
        PROVE  Receiving!AbstractNext \/ UNCHANGED Receiving!abstractVars
    BY <2>1, <2>4, AckImplements DEF Receiving!AbstractNext
  <2>5. ASSUME NEW sp \in BOOLEAN, RecvConnack(sp) PROVE UNCHANGED Receiving!abstractVars
    <3>1. /\ inbox' = [m \in Msg |-> IF sp \/ m \notin Unacknowledged THEN inbox[m]
                                     ELSE IF inbox[m] = "sent" THEN "dropped" ELSE "done"]
          /\ UNCHANGED Told
      BY <2>5 DEF RecvConnack, history, Told
    <3>2. inbox \in [Msg -> {"new", "sent", "released", "done", "dropped"}]
      BY DEF Inv, TypeInv, TypeOK
    <3>3. \A m \in Msg : InboundStatus'[m] = InboundStatus[m]
      BY <3>1, <3>2 DEF InboundStatus, Unacknowledged
    <3>4. InboundStatus' = InboundStatus
      BY <3>3 DEF InboundStatus
    <3>. QED BY <2>1, <3>1, <3>4
  <2>6. CASE \/ Connect \/ Resume \/ Break \/ RecvBadPublish \/ RecvPubrel
             \/ \E m \in Msg, a \in 0..Announced : BrokerSendsAgain(m, a)
             \/ \E t \in Topic, a \in 0..Announced : BrokerPublishesQos0(t, a)
             \/ UNCHANGED vars
    <3>1. UNCHANGED <<inbox, delivered, reporting>>
      BY <2>6 DEF Connect, Resume, Break, RecvBadPublish, RecvPubrel,
                  BrokerSendsAgain, BrokerPublishesQos0, vars, inVars, broker, history
    <3>. QED BY <2>1, <3>1 DEF InboundStatus, Told
  <2>7. CASE Disconnect \/ Report
    <3>1. UNCHANGED inbox
      BY <2>7 DEF Disconnect, Report, broker
    <3>2. UNCHANGED Told
      BY <2>7, ReportTold, DisconnectTold DEF Inv
    <3>. QED BY <2>1, <3>1, <3>2 DEF InboundStatus
  <2>. QED BY <2>2, <2>3, <2>4, <2>5, <2>6, <2>7 DEF Next
<1>. QED BY <1>1, <1>2, InvHolds, PTL DEF Spec, AtLeastOnce, Receiving!AbstractSpec
=============================================================================
