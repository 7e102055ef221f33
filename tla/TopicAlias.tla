----------------------------- MODULE TopicAlias -----------------------------
(***************************************************************************)
(* The topic aliases of outgoing PUBLISH packets (MQTT 5).  The client     *)
(* keeps a table of what it believes the broker has learnt; the broker     *)
(* learns from the packets it reads.  An application may give an alias,    *)
(* with the topic or instead of it; without one the client takes an alias  *)
(* it has for the topic and leaves the topic out, or assigns the next one. *)
(*                                                                         *)
(* QoS 1 messages are in the outbox until they are acknowledged, and are   *)
(* encoded again, with the tables of that moment, by the pump and by the   *)
(* replay on the next connection.  Identifiers and QoS 2 are left to       *)
(* Outbox.  `fits' says whether the encoded packet is smaller than tx_buf  *)
(* and the broker's maximum packet size: it depends on the alias chosen,   *)
(* and is known only after the tables have changed.                        *)
(***************************************************************************)
EXTENDS Naturals, Sequences, FiniteSets

CONSTANTS
  Topic,          \* topic names
  Empty,          \* the empty topic of an alias-only PUBLISH
  NoTopic,        \* an alias without a topic
  Capacity,       \* NOXMQTT_MAX_TOPIC_ALIASES
  Maxima,         \* values of Topic Alias Maximum in a CONNACK
  MaxAlias,       \* bound: aliases the application tries
  NumSlots,       \* NOXMQTT_MAX_OUTBOX_MESSAGES
  Window,         \* Receive Maximum of the broker
  MaxConnects,    \* bound: noxmqtt_connect calls
  MaxPublishes,   \* bound: publish calls
  MaxQueue        \* bound: packets under way

ASSUME TopicAliasAssumption ==
  /\ Empty \notin Topic /\ NoTopic \notin Topic /\ Empty # NoTopic
  /\ Capacity \in Nat \ {0} /\ MaxAlias \in Nat
  /\ Maxima \subseteq Nat
  /\ NumSlots \in Nat \ {0} /\ Window \in Nat \ {0}
  /\ {MaxConnects, MaxPublishes} \subseteq Nat /\ MaxQueue \in Nat \ {0}

VARIABLES
  \* the client
  publish_topic_aliases,
  next_publish_topic_alias,
  broker_topic_alias_maximum,
  outbox,
  connected,
  handler,      \* "idle", "callback" (CONNECT event), "replay", "pump"
  todo,         \* slots the replay has yet to look at
  \* the network
  link,         \* "down", "connecting", "up", "broken"
  toBroker,     \* PUBLISH packets under way
  acks,         \* slots whose PUBACK is under way
  \* the broker
  learnt,       \* topic of each alias, from the packets it has read
  \* history
  unsent,       \* aliases stored for a packet that was then not sent
  arrived,      \* topic of the last message the broker took on this connection
  publishes,    \* publish calls so far (bound)
  connects      \* noxmqtt_connect calls so far (bound)

tables  == <<publish_topic_aliases, next_publish_topic_alias>>
network == <<link, toBroker, acks>>
vars == <<tables, broker_topic_alias_maximum, outbox, connected, handler, todo,
          network, learnt, unsent, arrived, publishes, connects>>

Alias == 1..Capacity
Slot  == 1..NumSlots

Blank == [a \in Alias |-> NoTopic]

FreeItem == [state |-> "FREE", topic |-> NoTopic, alias |-> 0]

Item == [state : {"QUEUED", "PUBLISH_SENT"}, topic : Topic, alias : 0..MaxAlias]

\* `meant' and `sure' are ghosts: the topic the client holds the message to be
\* for, and whether it does not rely on an alias that was stored and not sent.
Packet == [topic : Topic \cup {Empty}, alias : Nat, slot : 0..NumSlots, meant : Topic, sure : BOOLEAN]

Init ==
  /\ publish_topic_aliases = Blank /\ next_publish_topic_alias = 1
  /\ broker_topic_alias_maximum = 0
  /\ outbox = [s \in Slot |-> FreeItem]
  /\ connected = FALSE /\ handler = "idle" /\ todo = {}
  /\ link = "down" /\ toBroker = <<>> /\ acks = {}
  /\ learnt = Blank
  /\ unsent = {} /\ arrived = NoTopic 
  /\ publishes = 0 /\ connects = 0

InState(st) == {s \in Slot : outbox[s].state = st}
First(S)    == CHOOSE s \in S : \A t \in S : s <= t

-----------------------------------------------------------------------------
(* The table                                                               *)

alias_limit ==
  IF broker_topic_alias_maximum \in Alias THEN broker_topic_alias_maximum ELSE Capacity

\* noxmqtt_publish_topic_alias_find: aliases that stand for t, at most one.
Find(t) == {a \in 1..alias_limit : publish_topic_aliases[a] = t}

\* noxmqtt_publish_topic_alias_lookup
Lookup(a) == IF a \in 1..alias_limit THEN publish_topic_aliases[a] ELSE NoTopic

\* Mutant: the other aliases of the topic are kept.
StoreBeside(a, t) == [publish_topic_aliases EXCEPT ![a] = t]

\* Mutant: an alias that stands for a topic is not given to another.
StoreIfNew(a, t) ==
  [b \in Alias |-> IF b = a /\ publish_topic_aliases[a] = NoTopic THEN t
                   ELSE IF b \in Find(t) THEN NoTopic
                   ELSE publish_topic_aliases[b]]

\* noxmqtt_publish_topic_alias_store: the other aliases of t are freed.
Store(a, t) ==
  [b \in Alias |-> IF b = a THEN t
                   ELSE IF b \in Find(t) THEN NoTopic
                   ELSE publish_topic_aliases[b]]

\* Mutant: the next alias is not taken modulo the limit.
TurnOn(a) == a

\* noxmqtt_publish_topic_alias_assign takes aliases in turn, in use or not.
Turn(a) == IF a \in 1..alias_limit THEN a ELSE 1

\* Mutant: the tables of the lost connection are kept.
KeepTables == UNCHANGED <<tables, unsent>>

\* noxmqtt_publish_topic_alias_cache_clear
ClearTables ==
  /\ publish_topic_aliases' = Blank
  /\ next_publish_topic_alias' = 1
  /\ unsent' = {}

-----------------------------------------------------------------------------
(* noxmqtt_publish_internal of topic t with the alias a the application    *)
(* gave, or 0                                                              *)

\* Mutant: an alias above the maximum of this connection is taken.
RefusedUnlessStored(t, a) ==
  \/ a # 0 /\ t # Empty /\ a > alias_limit
  \/ a # 0 /\ t = Empty /\ Lookup(a) = NoTopic

\* It fails before anything changes.
Refused(t, a) ==
  \/ a > broker_topic_alias_maximum
  \/ a # 0 /\ t # Empty /\ a > alias_limit
  \/ a # 0 /\ t = Empty /\ Lookup(a) = NoTopic

Reuses(t, a)  == a = 0 /\ broker_topic_alias_maximum > 0 /\ Find(t) # {}
Assigns(t, a) == a = 0 /\ broker_topic_alias_maximum > 0 /\ Find(t) = {}
Stores(t, a)  == Assigns(t, a) \/ (a # 0 /\ t # Empty)

AliasSent(t, a) ==
  IF Reuses(t, a) THEN First(Find(t))
  ELSE IF Assigns(t, a) THEN Turn(next_publish_topic_alias)
  ELSE a

TopicSent(t, a) == IF Reuses(t, a) THEN Empty ELSE t

Meant(t, a) == IF t = Empty THEN Lookup(a) ELSE t

Sendable(fits) == fits /\ link = "up"

PublishInternal(t, a, s, fits) ==
  LET alias == AliasSent(t, a) IN
  /\ ~Refused(t, a)
  /\ publish_topic_aliases' = IF Stores(t, a) THEN Store(alias, t) ELSE publish_topic_aliases
  /\ next_publish_topic_alias' =
       IF Assigns(t, a) THEN Turn(alias + 1) ELSE next_publish_topic_alias
  /\ IF Sendable(fits)
     THEN /\ Len(toBroker) < MaxQueue
          /\ toBroker' = Append(toBroker, [topic |-> TopicSent(t, a), alias |-> alias,
                                           slot |-> s, meant |-> Meant(t, a),
                                           sure |-> Stores(t, a) \/ alias \notin unsent])
          /\ unsent' = IF Stores(t, a) THEN unsent \ {alias} ELSE unsent
     ELSE /\ UNCHANGED toBroker
          /\ unsent' = IF Stores(t, a) THEN unsent \cup {alias} ELSE unsent

-----------------------------------------------------------------------------
(* noxmqtt_publish_data.  Its own checks are those of Refused, and come    *)
(* before the outbox.  It is called between two handlers or from the       *)
(* CONNECT event callback.                                                 *)

CanCall ==
  /\ connected /\ handler \in {"idle", "callback"}
  /\ publishes < MaxPublishes
  /\ publishes' = publishes + 1

\* What the application may give: a topic, an alias, or both.
Request(t, a) ==
  /\ t \in Topic \cup {Empty} /\ a \in 0..MaxAlias
  /\ t # Empty \/ a # 0

PublishQos0(t, a, fits) ==
  /\ CanCall /\ Request(t, a)
  /\ PublishInternal(t, a, 0, fits)
  /\ UNCHANGED <<broker_topic_alias_maximum, outbox, connected, handler, todo, link, acks,
                 learnt, arrived, connects>>

WindowFull == Cardinality(InState("PUBLISH_SENT")) >= Window

\* An alias above the capacity is found out only after the item was stored.
PublishQueued(t, a) ==
  /\ CanCall /\ Request(t, a)
  /\ a <= broker_topic_alias_maximum /\ Meant(t, a) # NoTopic
  /\ WindowFull /\ InState("FREE") # {}
  /\ outbox' = [outbox EXCEPT ![First(InState("FREE"))] =
                  [state |-> "QUEUED", topic |-> Meant(t, a), alias |-> a]]
  /\ UNCHANGED <<tables, broker_topic_alias_maximum, connected, handler, todo, network,
                 learnt, unsent, arrived, connects>>

\* The item is stored before the packet is built and removed when that fails.
PublishQos1(t, a, fits) ==
  LET s == First(InState("FREE")) IN
  /\ CanCall /\ Request(t, a)
  /\ ~WindowFull /\ InState("FREE") # {}
  /\ PublishInternal(t, a, s, fits)
  /\ IF Sendable(fits)
     THEN outbox' = [outbox EXCEPT ![s] =
                       [state |-> "PUBLISH_SENT", topic |-> Meant(t, a), alias |-> a]]
     ELSE UNCHANGED outbox
  /\ UNCHANGED <<broker_topic_alias_maximum, connected, handler, todo, link, acks,
                 learnt, arrived, connects>>

-----------------------------------------------------------------------------
(* The pump, after a PUBACK or from noxmqtt_process                        *)

RecvPuback(s) ==
  /\ connected /\ handler = "idle" /\ s \in acks
  /\ acks' = acks \ {s}
  /\ outbox' = [outbox EXCEPT ![s] = FreeItem]
  /\ handler' = "pump"
  /\ UNCHANGED <<tables, broker_topic_alias_maximum, connected, todo, link, toBroker,
                 learnt, unsent, arrived, publishes, connects>>

Process ==
  /\ connected /\ handler = "idle" /\ InState("QUEUED") # {}
  /\ handler' = "pump"
  /\ UNCHANGED <<tables, broker_topic_alias_maximum, outbox, connected, todo, network,
                 learnt, unsent, arrived, publishes, connects>>

\* The loop ends with its slots, or at the first that cannot be encoded.
NothingToSend(slots) ==
  slots # {} => Refused(outbox[First(slots)].topic, outbox[First(slots)].alias)

\* A send that fails leaves the item QUEUED and ends the loop.
PumpSend(fits) ==
  LET s == First(InState("QUEUED")) IN
  /\ handler = "pump" /\ connected /\ InState("QUEUED") # {} /\ ~WindowFull
  /\ PublishInternal(outbox[s].topic, outbox[s].alias, s, fits)
  /\ IF Sendable(fits)
     THEN /\ outbox' = [outbox EXCEPT ![s].state = "PUBLISH_SENT"]
          /\ UNCHANGED handler
     ELSE /\ UNCHANGED outbox
          /\ handler' = "idle"
  /\ UNCHANGED <<broker_topic_alias_maximum, connected, todo, link, acks,
                 learnt, arrived, publishes, connects>>

PumpReturn ==
  /\ handler = "pump"
  /\ ~connected \/ WindowFull \/ NothingToSend(InState("QUEUED"))
  /\ handler' = "idle"
  /\ UNCHANGED <<tables, broker_topic_alias_maximum, outbox, connected, todo, network,
                 learnt, unsent, arrived, publishes, connects>>

-----------------------------------------------------------------------------
(* The connection                                                          *)

Connect ==
  /\ handler = "idle" /\ ~connected /\ link = "down" /\ connects < MaxConnects
  /\ link' = "connecting" /\ connects' = connects + 1
  /\ broker_topic_alias_maximum' = 0
  /\ ClearTables
  /\ UNCHANGED <<outbox, connected, handler, todo, toBroker, acks, learnt, arrived, publishes>>


RecvConnack(maximum) ==
  /\ handler = "idle" /\ link = "connecting"
  /\ link' = "up" /\ connected' = TRUE
  /\ broker_topic_alias_maximum' = maximum
  /\ handler' = "callback"
  /\ UNCHANGED <<tables, outbox, todo, toBroker, acks, learnt, unsent, arrived, publishes, connects>>

\* The callback returns.
Resume ==
  /\ handler = "callback"
  /\ handler' = "replay"
  /\ todo' = Slot \ InState("FREE")
  /\ UNCHANGED <<tables, broker_topic_alias_maximum, outbox, connected, network,
                 learnt, unsent, arrived, publishes, connects>>

\* noxmqtt_replay_outbox, one slot; a send that fails ends the loop.
ReplaySend(fits) ==
  LET s == First(todo) IN
  /\ handler = "replay" /\ todo # {}
  /\ PublishInternal(outbox[s].topic, outbox[s].alias, s, fits)
  /\ IF Sendable(fits)
     THEN /\ outbox' = [outbox EXCEPT ![s].state = "PUBLISH_SENT"]
          /\ todo' = todo \ {s}
          /\ UNCHANGED handler
     ELSE /\ UNCHANGED outbox
          /\ todo' = {}
          /\ handler' = "idle"
  /\ UNCHANGED <<broker_topic_alias_maximum, connected, link, acks,
                 learnt, arrived, publishes, connects>>

ReplayReturn ==
  /\ handler = "replay"
  /\ NothingToSend(todo)
  /\ todo' = {} /\ handler' = "idle"
  /\ UNCHANGED <<tables, broker_topic_alias_maximum, outbox, connected, network,
                 learnt, unsent, arrived, publishes, connects>>

\* noxmqtt_disconnect_ex, noxmqtt_transport_notify_disconnected and
\* noxmqtt_handler_disconnect_packet
Disconnect ==
  /\ handler = "idle" /\ link # "down"
  /\ connected' = FALSE /\ link' = "down"
  /\ toBroker' = <<>> /\ acks' = {} /\ learnt' = Blank /\ arrived' = NoTopic
  /\ broker_topic_alias_maximum' = 0
  /\ ClearTables
  /\ UNCHANGED <<outbox, handler, todo, publishes, connects>>

Break ==
  /\ link \in {"connecting", "up"}
  /\ link' = "broken"
  /\ UNCHANGED <<tables, broker_topic_alias_maximum, outbox, connected, handler, todo, toBroker,
                 acks, learnt, unsent, arrived, publishes, connects>>

\* The broker reads a PUBLISH whose topic or alias it knows.
BrokerTakes ==
  /\ toBroker # <<>>
  /\ LET p == Head(toBroker)
         t == IF p.topic # Empty THEN p.topic ELSE learnt[p.alias] IN
     /\ t # NoTopic
     /\ arrived' = t
     /\ learnt' = IF p.alias \in Alias THEN [learnt EXCEPT ![p.alias] = t] ELSE learnt
     /\ acks' = IF p.slot # 0 THEN acks \cup {p.slot} ELSE acks
  /\ toBroker' = Tail(toBroker)
  /\ UNCHANGED <<tables, broker_topic_alias_maximum, outbox, connected, handler, todo, link,
                 unsent, publishes, connects>>

\* It closes the connection on an alias it does not know.
BrokerCloses ==
  /\ toBroker # <<>>
  /\ Head(toBroker).topic = Empty /\ learnt[Head(toBroker).alias] = NoTopic
  /\ toBroker' = <<>> /\ link' = "broken"
  /\ UNCHANGED <<tables, broker_topic_alias_maximum, outbox, connected, handler, todo, acks,
                 learnt, unsent, arrived, publishes, connects>>

Next ==
  \/ \E t \in Topic \cup {Empty}, a \in 0..MaxAlias :
       \/ \E fits \in BOOLEAN : PublishQos0(t, a, fits) \/ PublishQos1(t, a, fits)
       \/ PublishQueued(t, a)
  \/ \E s \in Slot : RecvPuback(s)
  \/ \E fits \in BOOLEAN : PumpSend(fits) \/ ReplaySend(fits)
  \/ Process \/ PumpReturn
  \/ Connect \/ Resume \/ ReplayReturn \/ Disconnect \/ Break
  \/ \E maximum \in Maxima : RecvConnack(maximum)
  \/ BrokerTakes \/ BrokerCloses

Spec == Init /\ [][Next]_vars

-----------------------------------------------------------------------------
(* Properties                                                              *)

TypeOK ==
  /\ publish_topic_aliases \in [Alias -> Topic \cup {NoTopic}]
  /\ next_publish_topic_alias \in Alias
  /\ broker_topic_alias_maximum \in Maxima \cup {0}
  /\ outbox \in [Slot -> Item \cup {FreeItem}]
  /\ connected \in BOOLEAN /\ handler \in {"idle", "callback", "replay", "pump"}
  /\ todo \subseteq Slot
  /\ link \in {"down", "connecting", "up", "broken"}
  /\ toBroker \in Seq(Packet) /\ acks \subseteq Slot
  /\ learnt \in [Alias -> Topic \cup {NoTopic}]
  /\ unsent \subseteq Alias
  /\ arrived \in Topic \cup {NoTopic}
  /\ publishes \in 0..MaxPublishes /\ connects \in 0..MaxConnects

\* What the broker will know of alias a when it has read the first n packets.
Defines(a, n) == {i \in 1..n : toBroker[i].alias = a /\ toBroker[i].topic # Empty}

KnownAfter(a, n) ==
  IF Defines(a, n) = {} THEN learnt[a]
  ELSE toBroker[CHOOSE i \in Defines(a, n) : \A j \in Defines(a, n) : j <= i].topic

\* The two tables agree: an alias the client has a topic for means that topic
\* to the broker as soon as it has read what is under way, unless the packet
\* that was to tell it was built and not sent.
TablesAgree ==
  connected /\ link = "up" =>
    \A a \in Alias : publish_topic_aliases[a] # NoTopic /\ a \notin unsent
                       => KnownAfter(a, Len(toBroker)) = publish_topic_aliases[a]

\* No topic has two aliases, so that there is nothing to choose in
\* noxmqtt_publish_topic_alias_find, and the table never holds an alias the
\* broker of this connection does not allow.
OneAliasPerTopic ==
  \A a, b \in Alias : publish_topic_aliases[a] = publish_topic_aliases[b] /\ a # b
                        => publish_topic_aliases[a] = NoTopic

\* A message in the outbox keeps the alias it was given across connections;
\* no packet carries one that the broker of this connection does not allow.
AliasesAllowed ==
  connected => \A i \in 1..Len(toBroker) : toBroker[i].alias <= broker_topic_alias_maximum

Channel ==
  INSTANCE TopicChannel WITH
    Nothing <- NoTopic,
    sent    <- [i \in DOMAIN toBroker |->
                  [topic |-> toBroker[i].meant, sure |-> toBroker[i].sure]],
    arrived <- arrived,
    doubt   <- unsent # {}

\* Every message arrives under the topic it was published under, in order:
\* publishing with aliases implements publishing with topics, but for
\* messages that rely on an alias stored for a packet that was not sent.
CarriesTopics == Channel!ChannelSpec
=============================================================================
