-------------------------- MODULE TopicAliasProofs --------------------------
(***************************************************************************)
(* Theorems about TopicAlias, for all topics, table sizes, maxima of the   *)
(* broker, windows and numbers of slots: type correctness, the shape of    *)
(* the client's table, its agreement with the broker's, and that           *)
(* publishing with aliases implements TopicChannel.                        *)
(***************************************************************************)
EXTENDS TopicAlias, SequenceTheorems, WellFoundedInduction, TLAPS

-----------------------------------------------------------------------------
(* The inductive invariant                                                 *)

(* The tables of the client.                                               *)
TableTypeOK ==
  /\ publish_topic_aliases \in [Alias -> Topic \cup {NoTopic}]
  /\ next_publish_topic_alias \in Alias
  /\ broker_topic_alias_maximum \in Maxima \cup {0}
  /\ unsent \subseteq Alias

(* An alias the broker of this connection does not allow is not in use;
   no broker's maximum is known before its CONNACK, and until then the table
   is blank.                                                               *)
TableInv ==
  /\ TableTypeOK
  /\ OneAliasPerTopic
  /\ \A a \in Alias : a > alias_limit => publish_topic_aliases[a] = NoTopic
  /\ link = "connecting" => publish_topic_aliases = Blank

(* The rest of the client, and the connection.                             *)
ClientInv ==
  /\ outbox \in [Slot -> Item \cup {FreeItem}]
  /\ connected \in BOOLEAN /\ handler \in {"idle", "callback", "replay", "pump"}
  /\ link \in {"down", "connecting", "up", "broken"}
  /\ todo \subseteq Slot \ InState("FREE")
  /\ todo # {} => handler = "replay"
  /\ acks \subseteq Slot
  /\ publishes \in 0..MaxPublishes /\ connects \in 0..MaxConnects
  /\ link \in {"down", "connecting"} => ~connected /\ handler = "idle" /\ toBroker = <<>>

(* The i-th packet under way tells the broker of alias a.                  *)
Tells(i, a) == toBroker[i].alias = a /\ toBroker[i].topic # Empty

(* After n packets alias a means t to the broker.                          *)
Knows(a, t, n) ==
  \/ \E i \in 1..n : /\ Tells(i, a) /\ toBroker[i].topic = t
                     /\ \A j \in 1..n : Tells(j, a) => j <= i
  \/ learnt[a] = t /\ \A j \in 1..n : ~Tells(j, a)

(* The packets under way.                                                  *)
WireTypeOK ==
  /\ toBroker \in Seq(Packet)
  /\ learnt \in [Alias -> Topic \cup {NoTopic}]
  /\ arrived \in Topic \cup {NoTopic}

(* A packet with an alias in place of its topic has the alias of a table;
   when it is sure, the broker will know the alias by then.                *)
PacketOK(i) ==
  LET p == toBroker[i] IN
  /\ p.alias <= broker_topic_alias_maximum
  /\ p.topic # Empty => p.meant = p.topic
  /\ p.topic = Empty => p.alias \in Alias
  /\ p.topic = Empty /\ p.sure => Knows(p.alias, p.meant, i - 1)

WireInv ==
  /\ WireTypeOK
  /\ \A i \in 1..Len(toBroker) : PacketOK(i)
  /\ link = "up" =>
       \A a \in Alias : publish_topic_aliases[a] # NoTopic /\ a \notin unsent
                          => Knows(a, publish_topic_aliases[a], Len(toBroker))

Inv == TableInv /\ ClientInv /\ WireInv

-----------------------------------------------------------------------------
(* Lemmas about the operators                                              *)

(* A non-empty set of positive numbers has a first element, and First
   returns it.                                                             *)
LEMMA FirstIsMember ==
  ASSUME NEW S \in SUBSET Nat, S # {}
  PROVE  First(S) \in S
<1>1. PICK x \in S : \A y \in S : ~(<<y, x>> \in OpToRel(<, Nat))
  BY NatLessThanWellFounded, WFMin
<1>2. \A y \in S : x <= y
  <2>1. ASSUME NEW y \in S, ~(x <= y) PROVE FALSE
    <3>1. <<y, x>> \in OpToRel(<, Nat)
      BY <2>1 DEF OpToRel
    <3>. QED BY <3>1, <1>1
  <2>. QED BY <2>1
<1>. QED BY <1>2 DEF First

(* The limit is an alias, and at most what the broker allows if it allows
   any.                                                                    *)
LEMMA LimitType ==
  ASSUME TableTypeOK
  PROVE  /\ alias_limit \in Alias
         /\ broker_topic_alias_maximum \in Nat
         /\ broker_topic_alias_maximum > 0 => alias_limit <= broker_topic_alias_maximum
BY TopicAliasAssumption DEF TableTypeOK, alias_limit, Alias

(* Storing a topic frees its other aliases: the table keeps its shape.     *)
LEMMA StoreKeepsTable ==
  ASSUME TableInv, NEW a \in 1..alias_limit, NEW t \in Topic
  PROVE  /\ Store(a, t) \in [Alias -> Topic \cup {NoTopic}]
         /\ Store(a, t)[a] = t
         /\ \A b \in Alias : b # a => Store(a, t)[b] \in {publish_topic_aliases[b], NoTopic}
         /\ \A b, c \in Alias : Store(a, t)[b] = Store(a, t)[c] /\ b # c => Store(a, t)[b] = NoTopic
         /\ \A b \in Alias : b > alias_limit => Store(a, t)[b] = NoTopic
<1>1. alias_limit \in Alias /\ Alias \subseteq Nat
  BY LimitType DEF TableInv, Alias
<1>2. a \in Alias
  BY <1>1, TopicAliasAssumption DEF Alias
<1>3. publish_topic_aliases \in [Alias -> Topic \cup {NoTopic}]
  BY DEF TableInv, TableTypeOK
<1>4. \A b \in Alias : b # a /\ Store(a, t)[b] = t => FALSE
  <2>1. ASSUME NEW b \in Alias, b # a, Store(a, t)[b] = t PROVE FALSE
    <3>1. b \notin Find(t) /\ publish_topic_aliases[b] = t
      BY <2>1, TopicAliasAssumption DEF Store
    <3>2. ~(b <= alias_limit)
      BY <3>1, <1>1 DEF Find, Alias
    <3>3. publish_topic_aliases[b] = NoTopic
      BY <3>2, <1>1 DEF TableInv
    <3>. QED BY <3>1, <3>3, TopicAliasAssumption
  <2>. QED BY <2>1
<1>5. \A b, c \in Alias : publish_topic_aliases[b] = publish_topic_aliases[c] /\ b # c
                            => publish_topic_aliases[b] = NoTopic
  BY DEF TableInv, OneAliasPerTopic
<1>6. \A b \in Alias : Store(a, t)[b] = IF b = a THEN t ELSE IF b \in Find(t) THEN NoTopic
                                          ELSE publish_topic_aliases[b]
  BY DEF Store
<1>7. \A b, c \in Alias : Store(a, t)[b] = Store(a, t)[c] /\ b # c => Store(a, t)[b] = NoTopic
  BY <1>2, <1>4, <1>5, <1>6
<1>8. \A b \in Alias : b > alias_limit => Store(a, t)[b] = NoTopic
  BY <1>1, <1>2, <1>6 DEF TableInv
<1>. QED BY <1>2, <1>3, <1>6, <1>7, <1>8 DEF Store

(* What noxmqtt_publish_internal puts on the wire: an alias the broker
   allows; with the topic, if the table learns it; in place of the topic only
   if the table has it.                                                    *)
Chosen(t, a) ==
  LET alias == AliasSent(t, a) IN
  /\ alias \in Nat /\ alias <= broker_topic_alias_maximum
  /\ Meant(t, a) \in Topic
  /\ Stores(t, a) => alias \in 1..alias_limit /\ TopicSent(t, a) = t /\ t \in Topic
  /\ TopicSent(t, a) # Empty => TopicSent(t, a) = Meant(t, a)
  /\ TopicSent(t, a) = Empty =>
       /\ ~Stores(t, a) /\ alias \in 1..alias_limit
       /\ publish_topic_aliases[alias] = Meant(t, a)
  /\ TopicSent(t, a) # Empty /\ ~Stores(t, a) => alias = 0

LEMMA ChosenAlias ==
  ASSUME TableInv, NEW t \in Topic \cup {Empty}, NEW a \in 0..MaxAlias, t # Empty \/ a # 0,
         ~Refused(t, a)
  PROVE  Chosen(t, a)
<1> DEFINE alias == AliasSent(t, a)
<1>1. /\ alias_limit \in Alias /\ alias_limit \in Nat /\ alias_limit > 0
      /\ broker_topic_alias_maximum \in Nat
      /\ broker_topic_alias_maximum > 0 => alias_limit <= broker_topic_alias_maximum
  BY LimitType, TopicAliasAssumption DEF TableInv, Alias
<1>2. a \in Nat /\ Empty \notin Topic /\ NoTopic \notin Topic /\ Empty # NoTopic
  BY TopicAliasAssumption
<1>3. \A b \in 1..alias_limit : publish_topic_aliases[b] \in Topic \cup {NoTopic}
  <2>1. 1..alias_limit \subseteq Alias
    BY <1>1, TopicAliasAssumption DEF Alias
  <2>. QED BY <2>1 DEF TableInv, TableTypeOK
<1>4. CASE a # 0 /\ t # Empty
  <2>1. /\ alias = a /\ TopicSent(t, a) = t /\ Meant(t, a) = t /\ Stores(t, a)
        /\ a <= broker_topic_alias_maximum /\ a <= alias_limit
    BY <1>1, <1>2, <1>4 DEF AliasSent, TopicSent, Meant, Stores, Reuses, Assigns, Refused
  <2>. QED BY <1>1, <1>2, <1>4, <2>1 DEF Chosen
<1>5. CASE a # 0 /\ t = Empty
  <2>1. /\ alias = a /\ TopicSent(t, a) = Empty /\ Meant(t, a) = Lookup(a) /\ ~Stores(t, a)
        /\ a <= broker_topic_alias_maximum /\ Lookup(a) # NoTopic
    BY <1>1, <1>2, <1>5 DEF AliasSent, TopicSent, Meant, Stores, Reuses, Assigns, Refused
  <2>2. a \in 1..alias_limit /\ Lookup(a) = publish_topic_aliases[a]
    BY <2>1 DEF Lookup
  <2>. QED BY <1>2, <1>3, <2>1, <2>2 DEF Chosen
<1>6. CASE Reuses(t, a)
  <2>1. t \in Topic /\ alias = First(Find(t)) /\ Find(t) # {} /\ broker_topic_alias_maximum > 0
    BY <1>6 DEF Reuses, AliasSent
  <2>2. alias \in Find(t)
    <3>1. Find(t) \in SUBSET Nat
      BY DEF Find
    <3>. QED BY <3>1, <2>1, FirstIsMember
  <2>3. alias \in 1..alias_limit /\ publish_topic_aliases[alias] = t
    BY <2>2 DEF Find
  <2>4. TopicSent(t, a) = Empty /\ Meant(t, a) = t /\ ~Stores(t, a)
    BY <1>2, <1>6, <2>1 DEF TopicSent, Meant, Stores, Reuses, Assigns
  <2>. QED BY <1>1, <2>1, <2>3, <2>4 DEF Chosen
<1>7. CASE Assigns(t, a)
  <2>1. /\ t \in Topic /\ alias = Turn(next_publish_topic_alias)
        /\ broker_topic_alias_maximum > 0
    BY <1>7 DEF Assigns, Reuses, AliasSent
  <2>2. alias \in 1..alias_limit
    BY <1>1, <2>1 DEF Turn
  <2>3. TopicSent(t, a) = t /\ Meant(t, a) = t /\ Stores(t, a)
    BY <1>2, <1>7, <2>1 DEF TopicSent, Meant, Stores, Reuses, Assigns
  <2>. QED BY <1>1, <1>2, <2>1, <2>2, <2>3 DEF Chosen
<1>8. CASE a = 0 /\ ~Reuses(t, a) /\ ~Assigns(t, a)
  <2>1. t \in Topic /\ alias = 0 /\ TopicSent(t, a) = t /\ Meant(t, a) = t /\ ~Stores(t, a)
    BY <1>2, <1>8 DEF AliasSent, TopicSent, Meant, Stores
  <2>. QED BY <1>1, <1>2, <2>1 DEF Chosen
<1>. QED BY <1>4, <1>5, <1>6, <1>7, <1>8 DEF Reuses, Assigns

(* The table after noxmqtt_publish_internal.                               *)
LEMMA PublishKeepsTable ==
  ASSUME TableInv, link \notin {"down", "connecting"}, UNCHANGED <<link, broker_topic_alias_maximum>>,
         NEW t \in Topic \cup {Empty}, NEW a \in 0..MaxAlias, t # Empty \/ a # 0,
         NEW s, NEW fits, PublishInternal(t, a, s, fits)
  PROVE  TableInv'
<1> DEFINE alias == AliasSent(t, a)
<1>1. Chosen(t, a)
  BY ChosenAlias DEF PublishInternal
<1>2. alias_limit' = alias_limit /\ alias_limit \in Alias
  BY LimitType DEF alias_limit, TableInv
<1>3. 1..alias_limit \subseteq Alias
  BY <1>2, TopicAliasAssumption DEF Alias
<1>4. next_publish_topic_alias' \in Alias
  <2>1. \A n \in Nat : Turn(n) \in 1..alias_limit
    BY <1>2 DEF Turn, Alias
  <2>2. Assigns(t, a) => Stores(t, a)
    BY DEF Stores
  <2>. QED BY <1>1, <1>3, <2>1, <2>2 DEF PublishInternal, Chosen, TableInv, TableTypeOK
<1>5. unsent' \subseteq Alias
  BY <1>1, <1>3 DEF PublishInternal, Chosen, TableInv, TableTypeOK
<1>6. CASE Stores(t, a)
  <2>1. publish_topic_aliases' = Store(alias, t)
    BY <1>6 DEF PublishInternal
  <2>2. alias \in 1..alias_limit /\ t \in Topic
    BY <1>1, <1>6 DEF Chosen
  <2> HIDE DEF alias
  <2>3. /\ publish_topic_aliases' \in [Alias -> Topic \cup {NoTopic}]
        /\ OneAliasPerTopic'
        /\ \A b \in Alias : b > alias_limit => publish_topic_aliases'[b] = NoTopic
    BY <2>1, <2>2, StoreKeepsTable DEF OneAliasPerTopic
  <2>. QED BY <1>2, <1>4, <1>5, <2>3 DEF TableInv, TableTypeOK
<1>7. CASE ~Stores(t, a)
  <2>1. UNCHANGED publish_topic_aliases
    BY <1>7 DEF PublishInternal
  <2>. QED BY <1>2, <1>4, <1>5, <2>1 DEF TableInv, TableTypeOK, OneAliasPerTopic
<1>. QED BY <1>6, <1>7
-----------------------------------------------------------------------------
(* The packets under way                                                   *)

(* A packet that is sent changes what the broker will know of its own alias
   only, and only if it has a topic.                                       *)
LEMMA KnowsAfterSend ==
  ASSUME toBroker \in Seq(Packet), NEW p \in Packet, toBroker' = Append(toBroker, p),
         UNCHANGED learnt, NEW n \in Nat, n = Len(toBroker), NEW b, NEW t
  PROVE  /\ \A k \in 0..n : Knows(b, t, k) => Knows(b, t, k)'
         /\ Knows(b, t, n) /\ (p.alias # b \/ p.topic = Empty) => Knows(b, t, n + 1)'
         /\ p.topic # Empty => Knows(p.alias, p.topic, n + 1)'
<1>1. /\ Len(toBroker') = n + 1 /\ toBroker'[n + 1] = p
      /\ \A i \in 1..n : toBroker'[i] = toBroker[i]
  OBVIOUS
<1>2. \A a : \A i \in 1..n : Tells(i, a)' <=> Tells(i, a)
  BY <1>1 DEF Tells
<1>3. ASSUME NEW k \in 0..n, Knows(b, t, k) PROVE Knows(b, t, k)'
  <2>1. \A i \in 1..k : i \in 1..n
    OBVIOUS
  <2>. QED BY <1>1, <1>2, <1>3, <2>1 DEF Knows
<1>4. \A a : Tells(n + 1, a)' <=> p.alias = a /\ p.topic # Empty
  BY <1>1 DEF Tells
<1>5. ASSUME Knows(b, t, n), p.alias # b \/ p.topic = Empty PROVE Knows(b, t, n + 1)'
  <2>1. \A j \in 1..(n + 1) : Tells(j, b)' => j \in 1..n /\ Tells(j, b)
    BY <1>2, <1>4, <1>5
  <2>2. CASE learnt[b] = t /\ \A j \in 1..n : ~Tells(j, b)
    BY <2>1, <2>2 DEF Knows
  <2>3. CASE \E i \in 1..n : /\ Tells(i, b) /\ toBroker[i].topic = t
                             /\ \A j \in 1..n : Tells(j, b) => j <= i
    <3>1. PICK i \in 1..n : /\ Tells(i, b) /\ toBroker[i].topic = t
                            /\ \A j \in 1..n : Tells(j, b) => j <= i
      BY <2>3
    <3>2. i \in 1..(n + 1) /\ Tells(i, b)' /\ toBroker'[i].topic = t
      BY <3>1, <1>1, <1>2
    <3>3. \A j \in 1..(n + 1) : Tells(j, b)' => j <= i
      BY <2>1, <3>1
    <3>. QED BY <3>2, <3>3 DEF Knows
  <2>. QED BY <1>5, <2>2, <2>3 DEF Knows
<1>6. ASSUME p.topic # Empty PROVE Knows(p.alias, p.topic, n + 1)'
  <2>1. Tells(n + 1, p.alias)' /\ toBroker'[n + 1].topic = p.topic /\ n + 1 \in 1..(n + 1)
    BY <1>1, <1>4, <1>6
  <2>2. \A j \in 1..(n + 1) : Tells(j, p.alias)' => j <= n + 1
    OBVIOUS
  <2>. QED BY <2>1, <2>2 DEF Knows
<1>. QED BY <1>3, <1>5, <1>6

(* The packet noxmqtt_publish_internal sends.                              *)
PublishPacket(t, a, s) ==
  [topic |-> TopicSent(t, a), alias |-> AliasSent(t, a), slot |-> s, meant |-> Meant(t, a),
   sure |-> Stores(t, a) \/ AliasSent(t, a) \notin unsent]

LEMMA PublishKeepsWire ==
  ASSUME TableInv, WireInv, UNCHANGED <<link, broker_topic_alias_maximum, learnt, arrived>>,
         NEW t \in Topic \cup {Empty}, NEW a \in 0..MaxAlias, t # Empty \/ a # 0,
         NEW s \in 0..NumSlots, NEW fits, PublishInternal(t, a, s, fits)
  PROVE  WireInv'
<1> DEFINE alias == AliasSent(t, a)
<1>1. Chosen(t, a)
  BY ChosenAlias DEF PublishInternal
<1>2. 1..alias_limit \subseteq Alias
  BY LimitType, TopicAliasAssumption DEF TableInv, Alias
<1>3. \A b \in Alias : b # alias \/ ~Stores(t, a)
                         => publish_topic_aliases'[b] \in {publish_topic_aliases[b], NoTopic}
  <2>1. CASE Stores(t, a)
    <3>1. publish_topic_aliases' = Store(alias, t) /\ alias \in 1..alias_limit /\ t \in Topic
      BY <1>1, <2>1 DEF PublishInternal, Chosen
    <3> HIDE DEF alias
    <3>. QED BY <2>1, <3>1, StoreKeepsTable
  <2>2. CASE ~Stores(t, a)
    BY <2>2 DEF PublishInternal
  <2>. QED BY <2>1, <2>2
<1>4. learnt' \in [Alias -> Topic \cup {NoTopic}] /\ arrived' \in Topic \cup {NoTopic}
  BY DEF WireInv, WireTypeOK
<1>5. PICK n \in Nat : n = Len(toBroker)
  BY DEF WireInv, WireTypeOK
<1>6. CASE ~Sendable(fits)
  <2>1. UNCHANGED toBroker /\ unsent' = IF Stores(t, a) THEN unsent \cup {alias} ELSE unsent
    BY <1>6 DEF PublishInternal
  <2>2. \A b, u, k : Knows(b, u, k)' <=> Knows(b, u, k)
    BY <2>1 DEF Knows, Tells
  <2>3. \A i \in 1..Len(toBroker) : PacketOK(i)'
    BY <2>1, <2>2 DEF PacketOK, WireInv
  <2>4. ASSUME link' = "up", NEW b \in Alias, publish_topic_aliases'[b] # NoTopic, b \notin unsent'
        PROVE  Knows(b, publish_topic_aliases[b], Len(toBroker))'
    <3>1. b \notin unsent /\ (b # alias \/ ~Stores(t, a))
      BY <2>1, <2>4
    <3>2. publish_topic_aliases'[b] = publish_topic_aliases[b]
      BY <1>3, <2>4, <3>1
    <3>3. Knows(b, publish_topic_aliases[b], n)
      BY <1>5, <2>4, <3>1, <3>2 DEF WireInv
    <3>. QED BY <1>5, <2>1, <2>2, <3>2, <3>3
  <2>. QED BY <1>4, <2>1, <2>3, <2>4 DEF WireInv, WireTypeOK
<1>7. CASE Sendable(fits)
  <2>3. PublishPacket(t, a, s) \in Packet
    <3>1. TopicSent(t, a) \in Topic \cup {Empty} /\ Meant(t, a) \in Topic /\ alias \in Nat
      BY <1>1 DEF Chosen, TopicSent
    <3>2. (Stores(t, a) \/ alias \notin unsent) \in BOOLEAN
      BY DEF Stores, Assigns
    <3>. QED BY <3>1, <3>2 DEF Packet, PublishPacket
  <2>0. PICK p \in Packet : p = PublishPacket(t, a, s)
    BY <2>3
  <2>1. /\ toBroker' = Append(toBroker, p) /\ link = "up"
        /\ unsent' = IF Stores(t, a) THEN unsent \ {alias} ELSE unsent
    BY <1>7, <2>0 DEF PublishInternal, PublishPacket, Sendable
  <2>2. /\ p.topic = TopicSent(t, a) /\ p.alias = alias /\ p.meant = Meant(t, a)
        /\ p.sure = (Stores(t, a) \/ alias \notin unsent)
    BY <2>0 DEF PublishPacket
  <2> HIDE DEF alias
  <2>4. /\ Len(toBroker') = n + 1 /\ toBroker'[n + 1] = p /\ toBroker' \in Seq(Packet)
        /\ \A i \in 1..n : toBroker'[i] = toBroker[i]
    BY <1>5, <2>1, <2>3 DEF WireInv, WireTypeOK
  <2>5. \A b, u :
          /\ \A k \in 0..n : Knows(b, u, k) => Knows(b, u, k)'
          /\ Knows(b, u, n) /\ (p.alias # b \/ p.topic = Empty) => Knows(b, u, n + 1)'
          /\ p.topic # Empty => Knows(p.alias, p.topic, n + 1)'
    <3>1. toBroker \in Seq(Packet) /\ UNCHANGED learnt
      BY DEF WireInv, WireTypeOK
    <3> SUFFICES ASSUME NEW b, NEW u
                 PROVE  /\ \A k \in 0..n : Knows(b, u, k) => Knows(b, u, k)'
                        /\ Knows(b, u, n) /\ (p.alias # b \/ p.topic = Empty)
                             => Knows(b, u, n + 1)'
                        /\ p.topic # Empty => Knows(p.alias, p.topic, n + 1)'
      OBVIOUS
    <3>. QED BY <1>5, <2>1, <2>3, <3>1, KnowsAfterSend
  <2>6. \A b \in Alias : publish_topic_aliases[b] # NoTopic /\ b \notin unsent
                           => Knows(b, publish_topic_aliases[b], n)
    BY <1>5, <2>1 DEF WireInv
  <2>7. ASSUME NEW i \in 1..n PROVE PacketOK(i)'
    <3>1. PacketOK(i)
      BY <1>5 DEF WireInv
    <3>2. i - 1 \in 0..n
      OBVIOUS
    <3>. QED BY <2>4, <2>5, <3>1, <3>2 DEF PacketOK
  <2>8. PacketOK(n + 1)'
    <3>1. p.topic = Empty /\ p.sure => Knows(p.alias, p.meant, n)
      BY <1>1, <1>2, <2>2, <2>6, TopicAliasAssumption DEF Chosen, alias
    <3>2. /\ p.alias <= broker_topic_alias_maximum
          /\ p.topic # Empty => p.meant = p.topic
          /\ p.topic = Empty => p.alias \in Alias
      BY <1>1, <1>2, <2>2 DEF Chosen, alias
    <3>3. (n + 1) - 1 = n /\ n \in 0..n
      OBVIOUS
    <3>. QED BY <2>4, <2>5, <3>1, <3>2, <3>3 DEF PacketOK
  <2>9. ASSUME NEW b \in Alias, publish_topic_aliases'[b] # NoTopic, b \notin unsent'
        PROVE  Knows(b, publish_topic_aliases[b], Len(toBroker))'
    <3>1. CASE b = alias /\ Stores(t, a)
      <4>1. publish_topic_aliases'[b] = t /\ p.topic = t /\ t # Empty
        <5>1. publish_topic_aliases' = Store(alias, t) /\ alias \in 1..alias_limit /\ t \in Topic
          BY <1>1, <3>1 DEF PublishInternal, Chosen, alias
        <5>2. TopicSent(t, a) = t
          BY <1>1, <3>1 DEF Chosen
        <5>. QED BY <2>2, <3>1, <5>1, <5>2, StoreKeepsTable, TopicAliasAssumption
      <4>. QED BY <2>2, <2>4, <2>5, <3>1, <4>1
    <3>2. CASE b # alias \/ ~Stores(t, a)
      <4>1. publish_topic_aliases'[b] = publish_topic_aliases[b]
        BY <1>3, <2>9, <3>2 DEF alias
      <4>2. b \notin unsent
        BY <2>1, <2>9, <3>2
      <4>3. Knows(b, publish_topic_aliases[b], n)
        BY <2>6, <2>9, <4>1, <4>2
      <4>4. p.alias # b \/ p.topic = Empty
        <5>1. CASE p.topic # Empty /\ ~Stores(t, a)
          <6>1. p.alias = 0
            BY <1>1, <2>2, <5>1 DEF Chosen, alias
          <6>. QED BY <6>1, TopicAliasAssumption DEF Alias
        <5>. QED BY <2>2, <3>2, <5>1
      <4>. QED BY <2>4, <2>5, <4>1, <4>3, <4>4
    <3>. QED BY <3>1, <3>2
  <2>. QED
    <3>1. \A i \in 1..(n + 1) : PacketOK(i)'
      <4>1. \A i \in 1..(n + 1) : i \in 1..n \/ i = n + 1
        OBVIOUS
      <4>. QED BY <2>7, <2>8, <4>1
    <3>. QED BY <1>4, <2>4, <2>9, <3>1 DEF WireInv, WireTypeOK
<1>. QED BY <1>6, <1>7
(* The broker reads a packet: what it knows afterwards of what is left is
   what it would have known.                                               *)
LEMMA KnowsAfterRead ==
  ASSUME WireInv, BrokerTakes, NEW b \in Alias, NEW t, NEW k \in 1..Len(toBroker), Knows(b, t, k)
  PROVE  Knows(b, t, k - 1)'
<1> DEFINE q == Head(toBroker)
<1>1. /\ toBroker \in Seq(Packet) /\ toBroker # <<>> /\ toBroker' = Tail(toBroker)
      /\ learnt \in [Alias -> Topic \cup {NoTopic}]
  BY DEF WireInv, WireTypeOK, BrokerTakes
<1>2. /\ q = toBroker[1] /\ Len(toBroker') = Len(toBroker) - 1
      /\ \A i \in 1..(Len(toBroker) - 1) : toBroker'[i] = toBroker[i + 1]
  BY <1>1
<1>3. learnt' = IF q.alias \in Alias
                THEN [learnt EXCEPT ![q.alias] = IF q.topic # Empty THEN q.topic ELSE learnt[q.alias]]
                ELSE learnt
  BY DEF BrokerTakes
<1> HIDE DEF q
<1>4. \A i \in 1..(k - 1) : Tells(i, b)' <=> Tells(i + 1, b)
  <2>1. \A i \in 1..(k - 1) : i \in 1..(Len(toBroker) - 1)
    BY <1>1
  <2>. QED BY <1>2, <2>1 DEF Tells
<1>5. \A j \in 1..(k - 1) : j + 1 \in 1..k
  BY <1>1
<1>6. CASE learnt[b] = t /\ \A j \in 1..k : ~Tells(j, b)
  <2>1. ~Tells(1, b)
    BY <1>1, <1>6
  <2>2. learnt'[b] = t
    BY <1>1, <1>2, <1>3, <1>6, <2>1 DEF Tells
  <2>3. \A j \in 1..(k - 1) : ~Tells(j, b)'
    BY <1>4, <1>5, <1>6
  <2>. QED BY <2>2, <2>3 DEF Knows
<1>7. CASE \E i \in 1..k : /\ Tells(i, b) /\ toBroker[i].topic = t
                           /\ \A j \in 1..k : Tells(j, b) => j <= i
  <2>1. PICK i \in 1..k : /\ Tells(i, b) /\ toBroker[i].topic = t
                          /\ \A j \in 1..k : Tells(j, b) => j <= i
    BY <1>7
  <2>2. CASE i = 1
    <3>1. learnt'[b] = t
      BY <1>1, <1>2, <1>3, <2>1, <2>2 DEF Tells
    <3>2. \A j \in 1..(k - 1) : ~Tells(j, b)'
      BY <1>1, <1>4, <1>5, <2>1, <2>2
    <3>. QED BY <3>1, <3>2 DEF Knows
  <2>3. CASE i # 1
    <3>1. i - 1 \in 1..(k - 1) /\ (i - 1) + 1 = i /\ i - 1 \in 1..(Len(toBroker) - 1)
      BY <1>1, <2>3
    <3>2. Tells(i - 1, b)' /\ toBroker'[i - 1].topic = t
      BY <1>2, <1>4, <2>1, <3>1
    <3>3. \A j \in 1..(k - 1) : Tells(j, b)' => j <= i - 1
      BY <1>1, <1>4, <1>5, <2>1
    <3>. QED BY <3>1, <3>2, <3>3 DEF Knows
  <2>. QED BY <2>2, <2>3
<1>. QED BY <1>6, <1>7 DEF Knows

LEMMA ReadKeepsWire ==
  ASSUME WireInv, BrokerTakes
  PROVE  WireInv'
<1> DEFINE q == Head(toBroker)
           u == IF q.topic # Empty THEN q.topic ELSE learnt[q.alias]
<1>1. /\ toBroker \in Seq(Packet) /\ toBroker # <<>> /\ toBroker' = Tail(toBroker)
      /\ learnt \in [Alias -> Topic \cup {NoTopic}]
  BY DEF WireInv, WireTypeOK, BrokerTakes
<1>2. PICK n \in Nat : n = Len(toBroker) /\ n > 0
  BY <1>1
<1>3. /\ q = toBroker[1] /\ q \in Packet /\ Len(toBroker') = n - 1 /\ toBroker' \in Seq(Packet)
      /\ \A i \in 1..(n - 1) : toBroker'[i] = toBroker[i + 1]
  BY <1>1, <1>2
<1>4. learnt' \in [Alias -> Topic \cup {NoTopic}] /\ arrived' \in Topic \cup {NoTopic}
  <2>1. PacketOK(1)
    BY <1>2 DEF WireInv
  <2>2. u \in Topic \cup {NoTopic}
    BY <1>1, <1>3, <2>1 DEF PacketOK, Packet
  <2>3. /\ arrived' = u
        /\ learnt' = IF q.alias \in Alias THEN [learnt EXCEPT ![q.alias] = u] ELSE learnt
    BY DEF BrokerTakes
  <2> HIDE DEF u
  <2>. QED BY <1>1, <2>2, <2>3
<1>5. ASSUME NEW i \in 1..(n - 1) PROVE PacketOK(i)'
  <2>1. PacketOK(i + 1) /\ i + 1 \in 1..n
    BY <1>2 DEF WireInv
  <2>2. (i + 1) - 1 = i /\ i \in 1..n /\ toBroker'[i] = toBroker[i + 1]
    BY <1>2, <1>3
  <2>3. UNCHANGED broker_topic_alias_maximum
    BY DEF BrokerTakes
  <2>4. \A t : \A b \in Alias : Knows(b, t, i) => Knows(b, t, i - 1)'
    BY <1>2, <2>2, KnowsAfterRead
  <2>. QED BY <2>1, <2>2, <2>3, <2>4 DEF PacketOK
<1>6. ASSUME link' = "up", NEW a \in Alias, publish_topic_aliases'[a] # NoTopic, a \notin unsent'
      PROVE  Knows(a, publish_topic_aliases[a], Len(toBroker))'
  <2>1. UNCHANGED <<publish_topic_aliases, unsent, link>>
    BY DEF BrokerTakes, tables
  <2>2. Knows(a, publish_topic_aliases[a], n)
    BY <1>2, <1>6, <2>1 DEF WireInv
  <2>3. n \in 1..Len(toBroker)
    BY <1>2
  <2>4. \A t : Knows(a, t, n) => Knows(a, t, n - 1)'
    BY <2>3, KnowsAfterRead
  <2>. QED BY <1>3, <2>1, <2>2, <2>4
<1>. QED BY <1>3, <1>4, <1>5, <1>6 DEF WireInv, WireTypeOK
-----------------------------------------------------------------------------
(* The steps                                                               *)

(* What the four places that call noxmqtt_publish_internal have in common. *)
PublishStep ==
  /\ link \notin {"down", "connecting"}
  /\ UNCHANGED <<link, broker_topic_alias_maximum, learnt, arrived>>
  /\ \E t \in Topic \cup {Empty}, a \in 0..MaxAlias, s \in 0..NumSlots, fits \in BOOLEAN :
       (t # Empty \/ a # 0) /\ PublishInternal(t, a, s, fits)

(* A slot in use, found by its state or in todo.                           *)
LEMMA ItemInUse ==
  ASSUME ClientInv, NEW S \in SUBSET (Slot \ InState("FREE")), S # {}
  PROVE  /\ First(S) \in S /\ First(S) \in Slot /\ First(S) \in 0..NumSlots
         /\ outbox[First(S)] \in Item
         /\ outbox[First(S)].topic \in Topic /\ outbox[First(S)].alias \in 0..MaxAlias
<1>1. S \in SUBSET Nat
  BY TopicAliasAssumption DEF Slot
<1>2. First(S) \in S
  BY <1>1, FirstIsMember
<1>3. First(S) \in Slot /\ First(S) \in 0..NumSlots
  <2>1. First(S) \in Slot
    BY <1>2
  <2>. QED BY <2>1, TopicAliasAssumption DEF Slot
<1>4. outbox[First(S)] \in Item
  BY <1>2, <1>3 DEF ClientInv, InState, FreeItem
<1>. QED BY <1>2, <1>3, <1>4 DEF Item

LEMMA FreeSlotType ==
  ASSUME InState("FREE") # {}
  PROVE  First(InState("FREE")) \in InState("FREE") /\ First(InState("FREE")) \in 0..NumSlots
<1>1. InState("FREE") \in SUBSET Nat /\ InState("FREE") \subseteq 0..NumSlots
  BY TopicAliasAssumption DEF InState, Slot
<1>. QED BY <1>1, FirstIsMember

Publishing ==
  \/ \E t \in Topic \cup {Empty}, a \in 0..MaxAlias, fits \in BOOLEAN :
       PublishQos0(t, a, fits) \/ PublishQos1(t, a, fits)
  \/ \E fits \in BOOLEAN : PumpSend(fits) \/ ReplaySend(fits)

LEMMA PublishingPublishes ==
  ASSUME ClientInv, Publishing
  PROVE  PublishStep
<1>1. ASSUME NEW t \in Topic \cup {Empty}, NEW a \in 0..MaxAlias, NEW fits \in BOOLEAN,
             PublishQos0(t, a, fits)
      PROVE  PublishStep
  <2>1. link \notin {"down", "connecting"}
    BY <1>1 DEF PublishQos0, CanCall, ClientInv
  <2>2. 0 \in 0..NumSlots
    BY TopicAliasAssumption
  <2>. QED BY <1>1, <2>1, <2>2 DEF PublishQos0, Request, PublishStep
<1>2. ASSUME NEW t \in Topic \cup {Empty}, NEW a \in 0..MaxAlias, NEW fits \in BOOLEAN,
             PublishQos1(t, a, fits)
      PROVE  PublishStep
  <2>1. link \notin {"down", "connecting"}
    BY <1>2 DEF PublishQos1, CanCall, ClientInv
  <2>2. First(InState("FREE")) \in 0..NumSlots
    BY <1>2, FreeSlotType DEF PublishQos1
  <2>. QED BY <1>2, <2>1, <2>2 DEF PublishQos1, Request, PublishStep
<1>3. ASSUME NEW fits \in BOOLEAN, PumpSend(fits) PROVE PublishStep
  <2>1. link \notin {"down", "connecting"}
    BY <1>3 DEF PumpSend, ClientInv
  <2> DEFINE s == First(InState("QUEUED"))
  <2>2. s \in 0..NumSlots /\ outbox[s].topic \in Topic /\ outbox[s].alias \in 0..MaxAlias
    <3>1. InState("QUEUED") \in SUBSET (Slot \ InState("FREE"))
      BY DEF InState
    <3>. QED BY <1>3, <3>1, ItemInUse DEF PumpSend
  <2>3. outbox[s].topic # Empty
    BY <2>2, TopicAliasAssumption
  <2>. QED BY <1>3, <2>1, <2>2, <2>3 DEF PumpSend, PublishStep
<1>4. ASSUME NEW fits \in BOOLEAN, ReplaySend(fits) PROVE PublishStep
  <2>1. link \notin {"down", "connecting"}
    BY <1>4 DEF ReplaySend, ClientInv
  <2> DEFINE s == First(todo)
  <2>2. s \in 0..NumSlots /\ outbox[s].topic \in Topic /\ outbox[s].alias \in 0..MaxAlias
    BY <1>4, ItemInUse DEF ReplaySend, ClientInv
  <2>3. outbox[s].topic # Empty
    BY <2>2, TopicAliasAssumption
  <2>. QED BY <1>4, <2>1, <2>2, <2>3 DEF ReplaySend, PublishStep
<1>. QED BY <1>1, <1>2, <1>3, <1>4 DEF Publishing

(* Steps that touch neither the tables nor the packets under way.          *)
Quiet ==
  /\ UNCHANGED <<tables, unsent, broker_topic_alias_maximum, toBroker, learnt, arrived>>
  /\ link' \in {link, "broken"}

LEMMA QuietKeepsTableAndWire ==
  ASSUME TableInv, WireInv, Quiet
  PROVE  TableInv' /\ WireInv'
<1>1. TableInv'
  BY DEF TableInv, TableTypeOK, Quiet, tables, OneAliasPerTopic, alias_limit
<1>2. WireInv'
  BY DEF WireInv, WireTypeOK, PacketOK, Knows, Tells, Quiet, tables
<1>. QED BY <1>1, <1>2

(* Steps that start or end a connection leave nothing under way.           *)
LEMMA ResetKeepsTableAndWire ==
  ASSUME TableInv, WireInv, toBroker' = <<>>, link' # "up",
         \/ UNCHANGED <<tables, unsent, broker_topic_alias_maximum>> /\ link' # "connecting"
         \/ ClearTables /\ broker_topic_alias_maximum' = 0,
         learnt' \in {learnt, Blank}, arrived' \in {arrived, NoTopic}
  PROVE  TableInv' /\ WireInv'
<1>1. Blank \in [Alias -> Topic \cup {NoTopic}] /\ 1 \in Alias
  BY TopicAliasAssumption DEF Blank, Alias
<1>2. TableInv'
  <2>1. CASE UNCHANGED <<tables, unsent, broker_topic_alias_maximum>> /\ link' # "connecting"
    BY <2>1 DEF TableInv, TableTypeOK, tables, OneAliasPerTopic, alias_limit
  <2>2. CASE ClearTables /\ broker_topic_alias_maximum' = 0
    <3>1. publish_topic_aliases' = Blank /\ \A a \in Alias : Blank[a] = NoTopic
      BY <2>2 DEF ClearTables, Blank
    <3>. QED BY <1>1, <2>2, <3>1 DEF TableInv, TableTypeOK, ClearTables, OneAliasPerTopic
  <2>. QED BY <2>1, <2>2
<1>3. WireInv'
  <2>1. toBroker' \in Seq(Packet) /\ Len(toBroker') = 0
    OBVIOUS
  <2>2. learnt' \in [Alias -> Topic \cup {NoTopic}] /\ arrived' \in Topic \cup {NoTopic}
    BY <1>1 DEF WireInv, WireTypeOK
  <2>. QED BY <2>1, <2>2 DEF WireInv, WireTypeOK
<1>. QED BY <1>2, <1>3

LEMMA NextKeepsTableAndWire ==
  ASSUME Inv, [Next]_vars
  PROVE  TableInv' /\ WireInv'
<1> USE DEF Inv
<1>1. CASE Publishing
  <2>1. PublishStep
    BY <1>1, PublishingPublishes
  <2>2. PICK t \in Topic \cup {Empty}, a \in 0..MaxAlias, s \in 0..NumSlots, fits \in BOOLEAN :
          (t # Empty \/ a # 0) /\ PublishInternal(t, a, s, fits)
    BY <2>1 DEF PublishStep
  <2>3. UNCHANGED <<link, broker_topic_alias_maximum, learnt, arrived>>
    BY <2>1 DEF PublishStep
  <2>4. TableInv'
    BY <2>1, <2>2, <2>3, PublishKeepsTable DEF PublishStep
  <2>5. WireInv'
    BY <2>2, <2>3, PublishKeepsWire
  <2>. QED BY <2>4, <2>5
<1>2. CASE \E t \in Topic \cup {Empty}, a \in 0..MaxAlias : PublishQueued(t, a)
  BY <1>2, QuietKeepsTableAndWire DEF PublishQueued, Quiet, network
<1>3. CASE (\E s \in Slot : RecvPuback(s)) \/ Process \/ PumpReturn \/ Resume \/ ReplayReturn
  BY <1>3, QuietKeepsTableAndWire
  DEF RecvPuback, Process, PumpReturn, Resume, ReplayReturn, Quiet, network
<1>4. CASE Connect
  BY <1>4, ResetKeepsTableAndWire DEF Connect, ClientInv
<1>5. CASE Disconnect
  BY <1>5, ResetKeepsTableAndWire DEF Disconnect
<1>6. CASE Break
  BY <1>6, QuietKeepsTableAndWire DEF Break, Quiet
<1>7. CASE BrokerCloses
  <2>1. /\ toBroker' = <<>> /\ link' = "broken"
        /\ UNCHANGED <<tables, unsent, broker_topic_alias_maximum>>
        /\ UNCHANGED <<learnt, arrived>>
    BY <1>7 DEF BrokerCloses
  <2>. QED BY <2>1, ResetKeepsTableAndWire
<1>8. CASE BrokerTakes
  <2>1. TableInv'
    BY <1>8 DEF BrokerTakes, TableInv, TableTypeOK, tables, OneAliasPerTopic, alias_limit
  <2>. QED BY <1>8, <2>1, ReadKeepsWire
<1>9. ASSUME NEW maximum \in Maxima, RecvConnack(maximum) PROVE TableInv' /\ WireInv'
  <2>1. /\ link = "connecting" /\ link' = "up" /\ broker_topic_alias_maximum' = maximum
        /\ UNCHANGED <<tables, toBroker, learnt, unsent, arrived>>
    BY <1>9 DEF RecvConnack
  <2>2. toBroker = <<>> /\ publish_topic_aliases = Blank /\ \A a \in Alias : Blank[a] = NoTopic
    BY <2>1 DEF ClientInv, TableInv, Blank
  <2>3. TableInv'
    BY <2>1, <2>2 DEF TableInv, TableTypeOK, tables, OneAliasPerTopic
  <2>4. WireInv'
    BY <2>1, <2>2 DEF WireInv, WireTypeOK, tables
  <2>. QED BY <2>3, <2>4
<1>10. CASE UNCHANGED vars
  BY <1>10, QuietKeepsTableAndWire DEF vars, Quiet, network
<1>. QED BY <1>1, <1>2, <1>3, <1>4, <1>5, <1>6, <1>7, <1>8, <1>9, <1>10 DEF Next, Publishing
(* What the outbox holds stays well-formed, and the replay looks at slots in
   use.                                                                    *)
LEMMA NextKeepsClient ==
  ASSUME Inv, [Next]_vars
  PROVE  ClientInv'
<1> USE DEF Inv
<1>1. ASSUME NEW t \in Topic \cup {Empty}, NEW a \in 0..MaxAlias, NEW fits \in BOOLEAN,
             PublishQos0(t, a, fits)
      PROVE  ClientInv'
  <2>1. /\ UNCHANGED <<outbox, connected, handler, todo, link, acks, connects>>
        /\ publishes' \in 0..MaxPublishes
    BY <1>1, TopicAliasAssumption DEF PublishQos0, CanCall, ClientInv
  <2>2. link \notin {"down", "connecting"}
    BY <1>1 DEF PublishQos0, CanCall, ClientInv
  <2>. QED BY <2>1, <2>2 DEF ClientInv, InState
<1>2. ASSUME NEW t \in Topic \cup {Empty}, NEW a \in 0..MaxAlias, NEW fits \in BOOLEAN,
             PublishQos1(t, a, fits)
      PROVE  ClientInv'
  <2> DEFINE s == First(InState("FREE"))
             item == [state |-> "PUBLISH_SENT", topic |-> Meant(t, a), alias |-> a]
  <2>1. /\ UNCHANGED <<connected, handler, todo, link, acks, connects>>
        /\ publishes' \in 0..MaxPublishes
        /\ outbox' = [outbox EXCEPT ![s] = item] \/ UNCHANGED outbox
    BY <1>2, TopicAliasAssumption DEF PublishQos1, CanCall, ClientInv
  <2>2. link \notin {"down", "connecting"} /\ todo = {}
    BY <1>2 DEF PublishQos1, CanCall, ClientInv
  <2>3. item \in Item
    <3>1. Chosen(t, a)
      BY <1>2, ChosenAlias DEF PublishQos1, Request, PublishInternal
    <3>. QED BY <3>1 DEF Chosen, Item
  <2> HIDE DEF item
  <2>4. outbox' \in [Slot -> Item \cup {FreeItem}]
    BY <2>1, <2>3 DEF ClientInv
  <2>. QED BY <2>1, <2>2, <2>4 DEF ClientInv
<1>3. ASSUME NEW t \in Topic \cup {Empty}, NEW a \in 0..MaxAlias, PublishQueued(t, a)
      PROVE  ClientInv'
  <2> DEFINE s == First(InState("FREE"))
             item == [state |-> "QUEUED", topic |-> Meant(t, a), alias |-> a]
  <2>1. /\ UNCHANGED <<connected, handler, todo, network, connects>>
        /\ publishes' \in 0..MaxPublishes
        /\ outbox' = [outbox EXCEPT ![s] = item]
    BY <1>3, TopicAliasAssumption DEF PublishQueued, CanCall, ClientInv
  <2>2. link \notin {"down", "connecting"} /\ todo = {}
    BY <1>3 DEF PublishQueued, CanCall, ClientInv
  <2>3. item \in Item
    <3>1. Meant(t, a) \in Topic
      <4>1. \A b \in 1..alias_limit : publish_topic_aliases[b] \in Topic \cup {NoTopic}
        <5>1. 1..alias_limit \subseteq Alias
          BY LimitType, TopicAliasAssumption DEF TableInv, Alias
        <5>. QED BY <5>1 DEF TableInv, TableTypeOK
      <4>. QED BY <1>3, <4>1 DEF PublishQueued, Meant, Lookup
    <3>. QED BY <3>1 DEF Item
  <2> HIDE DEF item
  <2>4. outbox' \in [Slot -> Item \cup {FreeItem}]
    BY <2>1, <2>3 DEF ClientInv
  <2>. QED BY <2>1, <2>2, <2>4 DEF ClientInv, network
<1>4. ASSUME NEW fits \in BOOLEAN, PumpSend(fits) PROVE ClientInv'
  <2> DEFINE s == First(InState("QUEUED"))
  <2>1. /\ UNCHANGED <<connected, todo, link, acks, publishes, connects>>
        /\ outbox' = [outbox EXCEPT ![s].state = "PUBLISH_SENT"] \/ UNCHANGED outbox
        /\ handler' \in {"pump", "idle"}
    BY <1>4 DEF PumpSend
  <2>2. link \notin {"down", "connecting"} /\ todo = {}
    BY <1>4 DEF PumpSend, ClientInv
  <2>3. s \in Slot /\ outbox[s] \in Item
    <3>1. InState("QUEUED") \in SUBSET (Slot \ InState("FREE"))
      BY DEF InState
    <3>. QED BY <1>4, <3>1, ItemInUse DEF PumpSend
  <2>4. [outbox[s] EXCEPT !.state = "PUBLISH_SENT"] \in Item
    BY <2>3 DEF Item
  <2> HIDE DEF s
  <2>5. outbox' \in [Slot -> Item \cup {FreeItem}]
    BY <2>1, <2>3, <2>4 DEF ClientInv
  <2>. QED BY <2>1, <2>2, <2>5 DEF ClientInv
<1>5. ASSUME NEW fits \in BOOLEAN, ReplaySend(fits) PROVE ClientInv'
  <2> DEFINE s == First(todo)
  <2>1. /\ UNCHANGED <<connected, link, acks, publishes, connects>>
        /\ \/ /\ outbox' = [outbox EXCEPT ![s].state = "PUBLISH_SENT"]
              /\ todo' = todo \ {s} /\ UNCHANGED handler
           \/ UNCHANGED outbox /\ todo' = {} /\ handler' = "idle"
    BY <1>5 DEF ReplaySend
  <2>2. link \notin {"down", "connecting"} /\ handler = "replay"
    BY <1>5 DEF ReplaySend, ClientInv
  <2>3. s \in Slot /\ outbox[s] \in Item
    BY <1>5, ItemInUse DEF ReplaySend, ClientInv
  <2>4. [outbox[s] EXCEPT !.state = "PUBLISH_SENT"] \in Item
    BY <2>3 DEF Item
  <2> HIDE DEF s
  <2>5. outbox' \in [Slot -> Item \cup {FreeItem}]
    BY <2>1, <2>3, <2>4 DEF ClientInv
  <2>6. \A u \in todo' : outbox'[u].state # "FREE"
    BY <2>1, <2>3 DEF ClientInv, InState
  <2>. QED BY <2>1, <2>2, <2>5, <2>6 DEF ClientInv, InState
<1>6. ASSUME NEW s \in Slot, RecvPuback(s) PROVE ClientInv'
  <2>1. link \notin {"down", "connecting"} /\ todo = {}
    BY <1>6 DEF RecvPuback, ClientInv
  <2>. QED BY <1>6, <2>1 DEF RecvPuback, ClientInv
<1>7. CASE Process \/ PumpReturn \/ Resume \/ ReplayReturn
  <2>1. link \notin {"down", "connecting"}
    BY <1>7 DEF Process, PumpReturn, Resume, ReplayReturn, ClientInv
  <2>2. UNCHANGED <<outbox, connected, network, publishes, connects>>
    BY <1>7 DEF Process, PumpReturn, Resume, ReplayReturn
  <2>3. /\ handler' \in {"idle", "callback", "replay", "pump"}
        /\ todo' \subseteq Slot \ InState("FREE")
        /\ todo' # {} => handler' = "replay"
    BY <1>7 DEF Process, PumpReturn, Resume, ReplayReturn, ClientInv
  <2>. QED BY <2>1, <2>2, <2>3 DEF ClientInv, network, InState
<1>8. CASE Connect
  <2>1. connects' \in 0..MaxConnects
    BY <1>8, TopicAliasAssumption DEF Connect, ClientInv
  <2>. QED BY <1>8, <2>1 DEF Connect, ClientInv, InState
<1>9. CASE Disconnect
  BY <1>9 DEF Disconnect, ClientInv, InState
<1>10. CASE Break \/ BrokerCloses
  BY <1>10 DEF Break, BrokerCloses, ClientInv, InState
<1>11. CASE BrokerTakes
  <2>1. /\ UNCHANGED <<outbox, connected, handler, todo, link, publishes, connects>>
        /\ link \notin {"down", "connecting"}
        /\ acks' = IF Head(toBroker).slot # 0 THEN acks \cup {Head(toBroker).slot} ELSE acks
    BY <1>11 DEF BrokerTakes, ClientInv
  <2>2. Head(toBroker) \in Packet
    BY <1>11 DEF BrokerTakes, WireInv, WireTypeOK
  <2>3. acks' \subseteq Slot
    <3>1. Head(toBroker).slot \in 0..NumSlots
      BY <2>2 DEF Packet
    <3>2. Head(toBroker).slot # 0 => Head(toBroker).slot \in Slot
      BY <3>1, TopicAliasAssumption DEF Slot
    <3>. QED BY <2>1, <3>2 DEF ClientInv
  <2>. QED BY <2>1, <2>3 DEF ClientInv, InState
<1>12. ASSUME NEW maximum \in Maxima, RecvConnack(maximum) PROVE ClientInv'
  BY <1>12 DEF RecvConnack, ClientInv, InState
<1>13. CASE UNCHANGED vars
  BY <1>13 DEF vars, network, ClientInv, InState
<1>. QED BY <1>1, <1>2, <1>3, <1>4, <1>5, <1>6, <1>7, <1>8, <1>9, <1>10, <1>11, <1>12, <1>13
         DEF Next
-----------------------------------------------------------------------------
(* The theorems                                                            *)

LEMMA InitInv ==
  ASSUME Init
  PROVE  Inv
<1>1. 1 \in Alias /\ Blank \in [Alias -> Topic \cup {NoTopic}] /\ \A a \in Alias : Blank[a] = NoTopic
  BY TopicAliasAssumption DEF Alias, Blank
<1>2. TableInv
  BY <1>1 DEF Init, TableInv, TableTypeOK, OneAliasPerTopic
<1>3. ClientInv
  <2>1. outbox \in [Slot -> Item \cup {FreeItem}]
    BY DEF Init
  <2>2. 0 \in 0..MaxPublishes /\ 0 \in 0..MaxConnects
    BY TopicAliasAssumption
  <2>. QED BY <2>1, <2>2 DEF Init, ClientInv
<1>4. WireInv
  BY <1>1 DEF Init, WireInv, WireTypeOK
<1>. QED BY <1>2, <1>3, <1>4 DEF Inv

LEMMA Invariant == Spec => []Inv
<1>1. Init => Inv
  BY InitInv
<1>2. Inv /\ [Next]_vars => Inv'
  BY NextKeepsTableAndWire, NextKeepsClient DEF Inv
<1>. QED BY <1>1, <1>2, PTL DEF Spec

(* Type correctness: the tables hold topics, aliases stay within the table,
   and every packet under way is well-formed and means a topic.            *)
THEOREM TypeCorrect == Spec => []TypeOK
<1>1. Inv => TypeOK
  BY DEF Inv, TableInv, TableTypeOK, ClientInv, WireInv, WireTypeOK, TypeOK, InState
<1>. QED BY <1>1, Invariant, PTL

(* noxmqtt_publish_topic_alias_store leaves no topic with two aliases.     *)
THEOREM AliasesDiffer == Spec => []OneAliasPerTopic
<1>1. Inv => OneAliasPerTopic
  BY DEF Inv, TableInv
<1>. QED BY <1>1, Invariant, PTL

(* No PUBLISH has an alias above the maximum of the broker it is sent to,
   whatever alias the application gave on an earlier connection.           *)
THEOREM OnlyAllowedAliases == Spec => []AliasesAllowed
<1>1. Inv => AliasesAllowed
  BY DEF Inv, WireInv, PacketOK, AliasesAllowed
<1>. QED BY <1>1, Invariant, PTL

(* What the client holds of an alias is what the broker will hold when it
   has read what is under way, but for an alias stored for a packet that
   was not sent.                                                           *)
THEOREM TablesAlwaysAgree == Spec => []TablesAgree
<1>1. ASSUME Inv PROVE TablesAgree
  <2> SUFFICES ASSUME connected, link = "up", NEW a \in Alias,
                      publish_topic_aliases[a] # NoTopic, a \notin unsent
               PROVE  KnownAfter(a, Len(toBroker)) = publish_topic_aliases[a]
    BY DEF TablesAgree
  <2> DEFINE t == publish_topic_aliases[a]
  <2>1. PICK n \in Nat : n = Len(toBroker)
    BY <1>1 DEF Inv, WireInv, WireTypeOK
  <2>2. Knows(a, t, n)
    BY <1>1, <2>1 DEF Inv, WireInv
  <2>3. Defines(a, n) = {i \in 1..n : Tells(i, a)}
    BY DEF Defines, Tells
  <2>4. CASE learnt[a] = t /\ \A j \in 1..n : ~Tells(j, a)
    BY <2>1, <2>3, <2>4 DEF KnownAfter
  <2>5. CASE \E i \in 1..n : /\ Tells(i, a) /\ toBroker[i].topic = t
                             /\ \A j \in 1..n : Tells(j, a) => j <= i
    <3>1. PICK i \in 1..n : /\ Tells(i, a) /\ toBroker[i].topic = t
                            /\ \A j \in 1..n : Tells(j, a) => j <= i
      BY <2>5
    <3> DEFINE last == CHOOSE k \in Defines(a, n) : \A j \in Defines(a, n) : j <= k
    <3>2. i \in Defines(a, n) /\ \A j \in Defines(a, n) : j <= i
      BY <2>3, <3>1
    <3>3. last \in Defines(a, n) /\ \A j \in Defines(a, n) : j <= last
      BY <3>2
    <3>4. last = i
      BY <2>3, <3>2, <3>3
    <3>5. KnownAfter(a, n) = toBroker[last].topic
      BY <3>2 DEF KnownAfter
    <3>. QED BY <2>1, <3>1, <3>4, <3>5
  <2>. QED BY <2>2, <2>4, <2>5 DEF Knows
<1>. QED BY <1>1, Invariant, PTL

-----------------------------------------------------------------------------
(* TopicAlias implements TopicChannel                                      *)

(* The messages under way, as TopicChannel sees them.                      *)
Message == [topic : Topic, sure : BOOLEAN]

Sent == [i \in DOMAIN toBroker |-> [topic |-> toBroker[i].meant, sure |-> toBroker[i].sure]]

LEMMA SentAfterSend ==
  ASSUME toBroker \in Seq(Packet), NEW p \in Packet, toBroker' = Append(toBroker, p)
  PROVE  Sent' = Append(Sent, [topic |-> p.meant, sure |-> p.sure])
<1>1. PICK n \in Nat : n = Len(toBroker)
  OBVIOUS
<1>2. /\ DOMAIN toBroker = 1..n /\ DOMAIN toBroker' = 1..(n + 1)
      /\ \A i \in 1..n : toBroker[i] \in Packet /\ toBroker'[i] = toBroker[i]
      /\ toBroker'[n + 1] = p
  BY <1>1
<1>3. Sent \in Seq(Message) /\ Len(Sent) = n
  <2>1. \A i \in 1..n : [topic |-> toBroker[i].meant, sure |-> toBroker[i].sure] \in Message
    BY <1>2 DEF Packet, Message
  <2>. QED BY <1>2, <2>1 DEF Sent
<1> DEFINE q == [topic |-> p.meant, sure |-> p.sure]
<1>4. q \in Message
  BY DEF Packet, Message
<1>5. Sent' \in Seq(Message) /\ Len(Sent') = n + 1
  <2>1. \A i \in 1..(n + 1) : [topic |-> toBroker'[i].meant, sure |-> toBroker'[i].sure] \in Message
    BY <1>2 DEF Packet, Message
  <2>. QED BY <1>2, <2>1 DEF Sent
<1>6. \A i \in 1..(n + 1) : Sent'[i] = Append(Sent, q)[i]
  <2>1. \A i \in 1..n : Sent'[i] = Sent[i]
    BY <1>2 DEF Sent
  <2>2. Sent'[n + 1] = q
    BY <1>2 DEF Sent
  <2>3. /\ \A i \in 1..n : Append(Sent, q)[i] = Sent[i]
        /\ Append(Sent, q)[n + 1] = q
    BY <1>3, <1>4, AppendProperties
  <2>4. \A i \in 1..(n + 1) : i \in 1..n \/ i = n + 1
    OBVIOUS
  <2>. QED BY <2>1, <2>2, <2>3, <2>4
<1>. QED BY <1>3, <1>4, <1>5, <1>6, SeqEqual, AppendProperties

LEMMA SentAfterRead ==
  ASSUME toBroker \in Seq(Packet), toBroker # <<>>, toBroker' = Tail(toBroker)
  PROVE  /\ Sent # <<>> /\ Sent' = Tail(Sent)
         /\ Head(Sent) = [topic |-> toBroker[1].meant, sure |-> toBroker[1].sure]
<1>1. PICK n \in Nat : n = Len(toBroker) /\ n > 0
  OBVIOUS
<1>2. /\ DOMAIN toBroker = 1..n /\ DOMAIN toBroker' = 1..(n - 1)
      /\ \A i \in 1..n : toBroker[i] \in Packet
      /\ \A i \in 1..(n - 1) : toBroker'[i] = toBroker[i + 1] /\ toBroker'[i] \in Packet
  BY <1>1
<1>3. Sent \in Seq(Message) /\ Len(Sent) = n
  <2>1. \A i \in 1..n : [topic |-> toBroker[i].meant, sure |-> toBroker[i].sure] \in Message
    BY <1>2 DEF Packet, Message
  <2>. QED BY <1>2, <2>1 DEF Sent
<1>4. Sent' \in Seq(Message) /\ Len(Sent') = n - 1
  <2>1. \A i \in 1..(n - 1) : [topic |-> toBroker'[i].meant, sure |-> toBroker'[i].sure] \in Message
    BY <1>2 DEF Packet, Message
  <2>. QED BY <1>1, <1>2, <2>1 DEF Sent
<1>5. Tail(Sent) \in Seq(Message) /\ Len(Tail(Sent)) = n - 1
  BY <1>1, <1>3
<1>6. \A i \in 1..(n - 1) : Sent'[i] = Tail(Sent)[i]
  <2>1. \A i \in 1..(n - 1) : i + 1 \in 1..n /\ Tail(Sent)[i] = Sent[i + 1]
    BY <1>1, <1>3
  <2>. QED BY <1>2, <2>1 DEF Sent
<1>7. Sent' = Tail(Sent)
  BY <1>4, <1>5, <1>6, SeqEqual
<1>8. Sent # <<>> /\ Head(Sent) = Sent[1]
  BY <1>1, <1>3
<1>. QED BY <1>1, <1>2, <1>7, <1>8 DEF Sent

LEMMA PublishImplements ==
  ASSUME Inv, PublishStep
  PROVE  \/ \E t \in Topic, sure \in BOOLEAN : Channel!Publish(t, sure)
         \/ Channel!Forget
         \/ UNCHANGED Channel!channelVars
<1> USE DEF Inv
<1>1. PICK t \in Topic \cup {Empty}, a \in 0..MaxAlias, s \in 0..NumSlots, fits \in BOOLEAN :
        (t # Empty \/ a # 0) /\ PublishInternal(t, a, s, fits)
  BY DEF PublishStep
<1>2. Chosen(t, a) /\ UNCHANGED arrived
  BY <1>1, ChosenAlias DEF PublishInternal, PublishStep
<1> DEFINE alias == AliasSent(t, a)
           sure == Stores(t, a) \/ alias \notin unsent
<1>3. CASE Sendable(fits)
  <2>1. /\ toBroker' = Append(toBroker, PublishPacket(t, a, s))
        /\ unsent' = IF Stores(t, a) THEN unsent \ {alias} ELSE unsent
    BY <1>1, <1>3 DEF PublishInternal, PublishPacket
  <2>2. /\ PublishPacket(t, a, s) \in Packet /\ Meant(t, a) \in Topic /\ sure \in BOOLEAN
        /\ PublishPacket(t, a, s).meant = Meant(t, a) /\ PublishPacket(t, a, s).sure = sure
    <3>1. TopicSent(t, a) \in Topic \cup {Empty} /\ Meant(t, a) \in Topic /\ alias \in Nat
      BY <1>2 DEF Chosen, TopicSent
    <3>2. sure \in BOOLEAN
      BY DEF Stores, Assigns
    <3>. QED BY <3>1, <3>2 DEF Packet, PublishPacket
  <2>3. PICK p \in Packet : p = PublishPacket(t, a, s)
    BY <2>2
  <2>4. Sent' = Append(Sent, [topic |-> Meant(t, a), sure |-> sure])
    <3>1. Sent' = Append(Sent, [topic |-> p.meant, sure |-> p.sure])
      BY <2>1, <2>3, SentAfterSend DEF WireInv, WireTypeOK
    <3>. QED BY <2>2, <2>3, <3>1
  <2>5. sure \/ (unsent # {})
    OBVIOUS
  <2>6. (unsent # {})' \in {unsent # {}, FALSE}
    BY <2>1
  <2>7. PICK m \in Topic, su \in BOOLEAN : m = Meant(t, a) /\ su = sure
    BY <2>2
  <2> HIDE DEF sure
  <2>8. Sent' = Append(Sent, [topic |-> m, sure |-> su]) /\ (su \/ unsent # {})
    BY <2>4, <2>5, <2>7
  <2>9. Channel!Publish(m, su)
    BY <1>2, <2>6, <2>8 DEF Channel!Publish, Sent
  <2>. QED BY <2>9
<1>4. CASE ~Sendable(fits)
  <2>1. UNCHANGED toBroker /\ unsent' = IF Stores(t, a) THEN unsent \cup {alias} ELSE unsent
    BY <1>1, <1>4 DEF PublishInternal
  <2>2. Sent' = Sent
    BY <2>1 DEF Sent
  <2>3. CASE Stores(t, a)
    BY <1>2, <2>1, <2>2, <2>3 DEF Channel!Forget, Sent
  <2>4. CASE ~Stores(t, a)
    <3>1. UNCHANGED <<toBroker, arrived, unsent>>
      BY <1>2, <2>1, <2>4
    <3>. QED BY <3>1 DEF Channel!channelVars
  <2>. QED BY <2>3, <2>4
<1>. QED BY <1>3, <1>4

LEMMA ReadImplements ==
  ASSUME Inv, BrokerTakes
  PROVE  Channel!Arrive
<1> USE DEF Inv
<1>1. /\ toBroker \in Seq(Packet) /\ toBroker # <<>> /\ toBroker' = Tail(toBroker)
      /\ learnt \in [Alias -> Topic \cup {NoTopic}]
  BY DEF WireInv, WireTypeOK, BrokerTakes
<1>2. /\ Sent # <<>> /\ Sent' = Tail(Sent)
      /\ Head(Sent) = [topic |-> toBroker[1].meant, sure |-> toBroker[1].sure]
  BY <1>1, SentAfterRead
<1>3. PacketOK(1) /\ Head(toBroker) = toBroker[1] /\ toBroker[1] \in Packet
  BY <1>1 DEF WireInv
<1>4. arrived' = IF toBroker[1].topic # Empty THEN toBroker[1].topic ELSE learnt[toBroker[1].alias]
  BY <1>3 DEF BrokerTakes
<1>5. arrived' \in Topic
  <2>1. arrived' # NoTopic
    BY <1>3, <1>4 DEF BrokerTakes
  <2>. QED BY <1>1, <1>3, <1>4, <2>1 DEF PacketOK, Packet
<1>6. toBroker[1].sure => arrived' = toBroker[1].meant
  <2>1. CASE toBroker[1].topic # Empty
    BY <1>3, <1>4, <2>1 DEF PacketOK
  <2>2. CASE toBroker[1].topic = Empty /\ toBroker[1].sure
    <3>1. Knows(toBroker[1].alias, toBroker[1].meant, 0)
      BY <1>3, <2>2 DEF PacketOK
    <3>. QED BY <1>4, <2>2, <3>1 DEF Knows
  <2>. QED BY <2>1, <2>2
<1>7. UNCHANGED unsent
  BY DEF BrokerTakes
<1>. QED BY <1>2, <1>5, <1>6, <1>7 DEF Channel!Arrive, Sent

(* Publishing with aliases carries every message under its topic and in
   order, but for messages that rely on an alias stored for a packet that
   was not sent: TopicAlias implements TopicChannel.                       *)
THEOREM TopicsAreCarried == Spec => CarriesTopics
<1>1. Init => Channel!ChannelInit
  <2>1. ASSUME Init PROVE Sent = <<>>
    BY <2>1 DEF Init, Sent
  <2>. QED BY <2>1 DEF Init, Channel!ChannelInit, Sent
<1>2. Inv /\ [Next]_vars => [Channel!ChannelNext]_(Channel!channelVars)
  <2> SUFFICES ASSUME Inv, [Next]_vars
               PROVE  Channel!ChannelNext \/ UNCHANGED Channel!channelVars
    OBVIOUS
  <2> USE DEF Inv
  <2>1. CASE Publishing
    BY <2>1, PublishingPublishes, PublishImplements DEF Channel!ChannelNext
  <2>2. CASE BrokerTakes
    BY <2>2, ReadImplements DEF Channel!ChannelNext
  <2>3. CASE BrokerCloses \/ Disconnect \/ Connect
    <3>1. /\ toBroker' = <<>> /\ arrived' \in {arrived, NoTopic}
          /\ (unsent # {})' \in {unsent # {}, FALSE}
      BY <2>3 DEF BrokerCloses, Disconnect, Connect, ClearTables, ClientInv
    <3>2. Sent' = <<>>
      BY <3>1 DEF Sent
    <3>. QED BY <3>1, <3>2 DEF Channel!ChannelNext, Channel!Lose, Sent
  <2>4. CASE \/ \E t \in Topic \cup {Empty}, a \in 0..MaxAlias : PublishQueued(t, a)
             \/ \E s \in Slot : RecvPuback(s)
             \/ Process \/ PumpReturn \/ Resume \/ ReplayReturn \/ Break
             \/ \E maximum \in Maxima : RecvConnack(maximum)
             \/ UNCHANGED vars
    <3>1. UNCHANGED <<toBroker, arrived, unsent>>
      BY <2>4 DEF PublishQueued, RecvPuback, Process, PumpReturn, Resume, ReplayReturn, Break,
                  RecvConnack, network, vars
    <3>. QED BY <3>1 DEF Channel!channelVars
  <2>. QED BY <2>1, <2>2, <2>3, <2>4 DEF Next, Publishing
<1>. QED BY <1>1, <1>2, Invariant, PTL DEF Spec, CarriesTopics, Channel!ChannelSpec
=============================================================================
