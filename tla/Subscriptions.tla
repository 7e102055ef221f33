---------------------------- MODULE Subscriptions ----------------------------
(***************************************************************************)
(* The subscription cache: what the application has subscribed to, kept so *)
(* that it can be subscribed again on a connection whose broker has no     *)
(* session.  noxmqtt_subscribe and noxmqtt_unsubscribe change the cache    *)
(* topic by topic while they encode, and send the packet last; each of     *)
(* these steps can fail, and what was cached or removed stays so.  The     *)
(* answers of the broker change nothing in the client.                     *)
(*                                                                         *)
(* Arguments noxmqtt_subscribe refuses before anything changes whatever    *)
(* the broker (no topic, a QoS above 2) are left out, as are the packet    *)
(* identifiers (module Outbox).  Under MQTT 3.1.1 nothing depends on the   *)
(* broker, which is the offer that allows everything.                      *)
(***************************************************************************)
EXTENDS Connection, FiniteSets, SequencesExt

CONSTANTS
  Topic,          \* topic filters
  Wildcard,       \* those with a wildcard
  Shared,         \* those of a shared subscription
  Identified,     \* those the application subscribes to with an identifier
  Offers,         \* what the brokers allow, see FullOffer
  NumSlots,       \* NOXMQTT_MAX_SUBSCRIPTIONS
  NoTopic,        \* the topic of an inactive slot
  Requests,       \* the lists of topics the application calls with
  MaxCalls        \* bound: subscribe and unsubscribe calls

FullOffer == [maximum_qos |-> 2, wildcards |-> TRUE, shared |-> TRUE, identifiers |-> TRUE]

ASSUME SubscriptionsAssumption ==
  /\ NoTopic \notin Topic /\ Wildcard \cup Shared \cup Identified \subseteq Topic
  /\ Requests \subseteq Seq([topic : Topic, qos : 0..2]) \ {<<>>}
  /\ Offers \subseteq [maximum_qos : 0..2, wildcards : BOOLEAN, shared : BOOLEAN,
                       identifiers : BOOLEAN]
  /\ NumSlots \in Nat \ {0} /\ MaxCalls \in Nat

VARIABLES
  \* the client
  subscriptions,
  subscriptions_count,
  offer,        \* broker_maximum_qos and broker_*_available
  call,         \* the subscribe or unsubscribe call under way
  todo,         \* slots noxmqtt_resubscribe_all has yet to look at
  \* the broker
  granted,      \* its subscriptions of this client
  \* history
  astray,       \* topics the client's cache and the broker may disagree on
  wanted,       \* topics of which the last call to come to them was a subscribe
  confirmed,    \* topics whose unsubscription the broker has confirmed
  calls         \* calls so far (bound)

subVars == <<subscriptions, subscriptions_count, offer, call, todo, granted,
             astray, wanted, confirmed, calls>>
vars == <<connVars, subVars>>

Slot == 1..NumSlots

FreeSlot == [topic |-> NoTopic, qos |-> 0]

Sub == [topic : Topic, qos : 0..2]

\* `rest' are the topics the loop has yet to come to, `encoded' the others.
NoCall == [op |-> "none", rest |-> <<>>, encoded |-> <<>>]

Init ==
  /\ ConnInit
  /\ subscriptions = [s \in Slot |-> FreeSlot] /\ subscriptions_count = 0
  /\ offer = FullOffer
  /\ call = NoCall /\ todo = {}
  /\ granted = {}
  /\ astray = {} /\ wanted = {} /\ confirmed = {} /\ calls = 0

First(S) == CHOOSE s \in S : \A t \in S : s <= t

Active   == {s \in Slot : subscriptions[s] # FreeSlot}
SlotOf(t) == {s \in Slot : subscriptions[s].topic = t}
Cached   == {subscriptions[s] : s \in Active}

Topics(subs)  == {r.topic : r \in subs}
Pending       == ToSet(call.rest)
Encoded       == ToSet(call.encoded)

\* The packets under way that are about topic t.
Mentions(t) ==
  {i \in DOMAIN toBroker : toBroker[i].type \in {"SUBSCRIBE", "UNSUBSCRIBE"}
                            /\ t \in Topics(toBroker[i].subs)}

-----------------------------------------------------------------------------
(* The cache                                                               *)

\* noxmqtt_subscription_cache_add, when there is room
CacheAdd(r) ==
  IF SlotOf(r.topic) # {}
  THEN /\ subscriptions' = [subscriptions EXCEPT ![First(SlotOf(r.topic))] = r]
       /\ UNCHANGED subscriptions_count
  ELSE /\ subscriptions' = [subscriptions EXCEPT ![First(Slot \ Active)] = r]
       /\ subscriptions_count' = subscriptions_count + 1

HasRoom(t) == SlotOf(t) # {} \/ Active # Slot

\* Mutant: an unsubscribed topic stays in its slot.
CacheForget(t) ==
  /\ UNCHANGED subscriptions
  /\ subscriptions_count' = IF SlotOf(t) # {} THEN subscriptions_count - 1 ELSE subscriptions_count

\* noxmqtt_subscription_cache_remove
CacheRemove(t) ==
  IF SlotOf(t) # {}
  THEN /\ subscriptions' = [subscriptions EXCEPT ![First(SlotOf(t))] = FreeSlot]
       /\ subscriptions_count' = subscriptions_count - 1
  ELSE UNCHANGED <<subscriptions, subscriptions_count>>

\* The checks of noxmqtt_subscribe that depend on the broker.
Allowed(r) ==
  /\ r.qos <= offer.maximum_qos
  /\ r.topic \in Wildcard => offer.wildcards
  /\ r.topic \in Shared => offer.shared
  /\ r.topic \in Identified => offer.identifiers

-----------------------------------------------------------------------------
(* noxmqtt_subscribe and noxmqtt_unsubscribe                               *)

CanCall ==
  /\ connected /\ handler \in {"idle", "callback"} /\ call = NoCall
  /\ calls < MaxCalls
  /\ calls' = calls + 1

\* The topics of one call; all with a subscription identifier, or none.
Request(rs) ==
  /\ rs \in Requests
  /\ \A i, j \in DOMAIN rs : rs[i].topic = rs[j].topic => i = j
  /\ \A i, j \in DOMAIN rs : rs[i].topic \in Identified <=> rs[j].topic \in Identified

Subscribe(rs) ==
  /\ CanCall /\ Request(rs)
  /\ \A i \in DOMAIN rs : Allowed(rs[i])
  /\ call' = [op |-> "SUBSCRIBE", rest |-> rs, encoded |-> <<>>]
  /\ confirmed' = confirmed \ Topics(ToSet(rs))
  /\ UNCHANGED <<subscriptions, subscriptions_count, offer, todo, granted, astray, wanted, connVars>>

\* The QoS of the topics is ignored.
Unsubscribe(rs) ==
  /\ CanCall /\ Request(rs)
  /\ call' = [op |-> "UNSUBSCRIBE", rest |-> rs, encoded |-> <<>>]
  /\ UNCHANGED <<subscriptions, subscriptions_count, offer, todo, granted, astray, wanted, confirmed,
                 connVars>>

\* The call returns an error: the topics it has already cached or removed stay
\* so.  noxmqtt_resubscribe_all then gives up the slots that are left.
Fails(changed) ==
  /\ call' = NoCall
  /\ IF handler = "resubscribe"
     THEN /\ handler' = "idle" /\ todo' = {}
          /\ astray' = astray \cup Topics(changed) \cup {subscriptions[s].topic : s \in todo \cap Active}
     ELSE /\ UNCHANGED <<handler, todo>>
          /\ astray' = astray \cup Topics(changed)

\* One topic: cached or removed, then encoded, which fails when it does not
\* fit in tx_buf.
EncodeTopic(fits) ==
  LET r == Head(call.rest) IN
  /\ call.rest # <<>>
  /\ IF call.op = "SUBSCRIBE" THEN HasRoom(r.topic) /\ CacheAdd(r) ELSE CacheRemove(r.topic)
  /\ wanted' = IF call.op = "SUBSCRIBE" THEN wanted \cup {r.topic} ELSE wanted \ {r.topic}
  /\ IF fits
     THEN /\ call' = [call EXCEPT !.rest = Tail(@), !.encoded = Append(@, r)]
          /\ UNCHANGED <<handler, todo, astray>>
     ELSE Fails(Encoded \cup {r})
  /\ UNCHANGED <<offer, granted, confirmed, calls, connected, network, connects>>

CacheFull ==
  /\ call.rest # <<>> /\ call.op = "SUBSCRIBE" /\ ~HasRoom(Head(call.rest).topic)
  /\ Fails(Encoded)
  /\ UNCHANGED <<subscriptions, subscriptions_count, offer, granted, wanted, confirmed, calls,
                 connected, network, connects>>

\* The packet is built and written.
SendCall(fits) ==
  /\ call # NoCall /\ call.rest = <<>>
  /\ IF Written(fits)
     THEN /\ Len(toBroker) < MaxQueue
          /\ Send([type |-> call.op, subs |-> Encoded])
          /\ astray' = astray \ Topics(Encoded)
          /\ call' = NoCall
          /\ UNCHANGED <<handler, todo>>
     ELSE /\ Fails(Encoded)
          /\ UNCHANGED toBroker
  /\ UNCHANGED <<subscriptions, subscriptions_count, offer, granted, wanted, confirmed, calls,
                 connected, link, toClient, connects>>

-----------------------------------------------------------------------------
(* The connection                                                          *)

Connect ==
  /\ ConnConnect
  /\ offer' = FullOffer
  /\ UNCHANGED <<subscriptions, subscriptions_count, call, todo, granted, astray, wanted, confirmed, calls>>

\* Mutant: subscribes again when the session is resumed.
ToResubscribeIfPresent(session_present) == IF session_present THEN Slot ELSE {}

\* The slots noxmqtt_resubscribe_all will look at.
ToResubscribe(session_present) == IF session_present THEN {} ELSE Slot

\* A broker without a session of this client has no subscriptions of it.
RecvConnack(o, session_present) ==
  /\ ConnRecvConnack
  /\ offer' = o
  /\ todo' = ToResubscribe(session_present)
  /\ granted' = IF session_present THEN granted ELSE {}
  /\ astray' = IF session_present THEN astray ELSE {}
  /\ UNCHANGED <<subscriptions, subscriptions_count, call, wanted, confirmed, calls>>

\* Mutant: the loop takes subscriptions_count for the number of slots.
UpToCount == 1..subscriptions_count

\* noxmqtt_resubscribe_all looks at every slot.
SlotsToLookAt == Slot

\* The CONNECT event's callback returns; todo is empty when the broker has a
\* session, and noxmqtt_resubscribe_all returns at once when the count is 0.
Resume ==
  /\ handler = "callback" /\ call = NoCall
  /\ handler' = "resubscribe"
  /\ todo' = IF subscriptions_count = 0 THEN {} ELSE todo \cap SlotsToLookAt
  /\ UNCHANGED <<subscriptions, subscriptions_count, offer, call, granted, astray, wanted, confirmed, calls,
                 connected, network, connects>>

\* One slot; a topic this broker does not allow ends the loop.
Resubscribe ==
  LET s == First(todo)
      r == subscriptions[s] IN
  /\ handler = "resubscribe" /\ call = NoCall /\ todo # {}
  /\ IF s \in Active => Allowed(r)
     THEN /\ call' = IF s \in Active THEN [op |-> "SUBSCRIBE", rest |-> <<r>>, encoded |-> <<>>]
                     ELSE NoCall
          /\ todo' = todo \ {s}
          /\ UNCHANGED <<handler, astray>>
     ELSE Fails({r})
  /\ UNCHANGED <<subscriptions, subscriptions_count, offer, granted, wanted, confirmed, calls,
                 connected, network, connects>>

\* The CONNACK handler is done; noxmqtt_replay_outbox is in module Outbox.
ResubscribeReturn ==
  /\ handler = "resubscribe" /\ call = NoCall /\ todo = {}
  /\ handler' = "idle"
  /\ UNCHANGED <<subVars, connected, network, connects>>

\* What was under way is lost.  A broker may have read it or not.
Disconnect ==
  /\ ConnDisconnect /\ call = NoCall
  /\ offer' = FullOffer
  /\ astray' = astray \cup {t \in Topic : Mentions(t) # {}}
  /\ UNCHANGED <<subscriptions, subscriptions_count, call, todo, granted, wanted, confirmed, calls>>

Break == ConnBreak /\ UNCHANGED subVars

-----------------------------------------------------------------------------
(* The answers and the broker                                              *)

\* noxmqtt_handler_suback reports the codes and changes nothing.
RecvSuback ==
  /\ Received("SUBACK") /\ call = NoCall
  /\ UNCHANGED <<subVars, connected, handler, link, toBroker, connects>>

\* The packet read is the last about t: nothing of the application is pending.
Answered(t) ==
  /\ t \notin wanted /\ Mentions(t) = {}
  /\ \A i \in 2..Len(toClient) :
       toClient[i].type \in {"SUBACK", "UNSUBACK"} => t \notin toClient[i].topics

\* noxmqtt_handler_unsuback
RecvUnsuback ==
  /\ Received("UNSUBACK") /\ call = NoCall
  /\ confirmed' = confirmed \cup {t \in Head(toClient).topics : Answered(t)}
  /\ UNCHANGED <<subscriptions, subscriptions_count, offer, call, todo, granted, astray, wanted, calls,
                 connected, handler, link, toBroker, connects>>

\* The broker may refuse any topic of a SUBSCRIBE: it keeps what it had.
BrokerSubscribes(refused) ==
  LET subs  == Head(toBroker).subs
      taken == {r \in subs : r.topic \notin refused} IN
  /\ BrokerReads("SUBSCRIBE")
  /\ refused \subseteq Topics(subs)
  /\ granted' = {r \in granted : r.topic \notin Topics(taken)} \cup taken
  /\ astray' = astray \cup refused
  /\ BrokerSends([type |-> "SUBACK", topics |-> Topics(subs)])
  /\ UNCHANGED <<subscriptions, subscriptions_count, offer, call, todo, wanted, confirmed, calls,
                 connected, handler, link, connects>>

BrokerUnsubscribes ==
  /\ BrokerReads("UNSUBSCRIBE")
  /\ granted' = {r \in granted : r.topic \notin Topics(Head(toBroker).subs)}
  /\ BrokerSends([type |-> "UNSUBACK", topics |-> Topics(Head(toBroker).subs)])
  /\ UNCHANGED <<subscriptions, subscriptions_count, offer, call, todo, astray, wanted, confirmed, calls,
                 connected, handler, link, connects>>

Next ==
  \/ Connect \/ Disconnect \/ Break
  \/ \E o \in Offers, session_present \in BOOLEAN : RecvConnack(o, session_present)
  \/ \E rs \in Requests : Subscribe(rs) \/ Unsubscribe(rs)
  \/ \E fits \in BOOLEAN : EncodeTopic(fits) \/ SendCall(fits)
  \/ CacheFull
  \/ Resume \/ Resubscribe \/ ResubscribeReturn
  \/ RecvSuback \/ RecvUnsuback
  \/ \E refused \in SUBSET Topic : BrokerSubscribes(refused)
  \/ BrokerUnsubscribes

Spec == Init /\ [][Next]_vars

\* A call and the handlers run to their end; packets under way are read.
Fairness ==
  /\ WF_vars(Resume \/ Resubscribe \/ ResubscribeReturn)
  /\ WF_vars(CacheFull \/ \E fits \in BOOLEAN : EncodeTopic(fits) \/ SendCall(fits))
  /\ WF_vars(RecvSuback \/ RecvUnsuback)
  /\ WF_vars(BrokerUnsubscribes \/ \E refused \in SUBSET Topic : BrokerSubscribes(refused))

FairSpec == Spec /\ Fairness

-----------------------------------------------------------------------------
(* Properties                                                              *)

TypeOK ==
  /\ ConnTypeOK
  /\ subscriptions \in [Slot -> Sub \cup {FreeSlot}] /\ subscriptions_count \in 0..NumSlots
  /\ offer \in Offers \cup {FullOffer}
  /\ call.op \in {"none", "SUBSCRIBE", "UNSUBSCRIBE"}
  /\ {call.rest, call.encoded} \subseteq Seq(Sub)
  /\ todo \subseteq Slot /\ granted \subseteq Sub
  /\ astray \cup wanted \cup confirmed \subseteq Topic /\ calls \in 0..MaxCalls

\* No topic has two slots, and the count is that of the slots in use: it is
\* what noxmqtt_resubscribe_all trusts to find that there is nothing to do.
CacheConsistent ==
  /\ subscriptions_count = Cardinality(Active)
  /\ \A s, u \in Active : subscriptions[s].topic = subscriptions[u].topic => s = u

\* What the broker will hold for topic t when it has read what is under way.
WillHold(t) ==
  LET last == CHOOSE i \in Mentions(t) : \A j \in Mentions(t) : j <= i
      subs == IF Mentions(t) = {} THEN granted
              ELSE IF toBroker[last].type = "SUBSCRIBE" THEN toBroker[last].subs
              ELSE {} IN
  {r \in subs : r.topic = t}

\* Between two handlers the broker holds what the cache holds, or will when
\* it has read what is under way; but for the topics that are astray: cached
\* or removed by a call that then failed, given up by resubscribe_all, refused
\* by the broker, or lost with a connection whose session went on.
InStep ==
  connected /\ handler = "idle" /\ call = NoCall =>
    \A t \in Topic \ astray : WillHold(t) = {r \in Cached : r.topic = t}

\* A topic whose unsubscription the broker has confirmed is not subscribed
\* again by anything but a new noxmqtt_subscribe of the application, whatever
\* connections and sessions are lost.
UnsubscribedStays ==
  \A t \in confirmed : WillHold(t) = {} /\ t \notin Topics(granted)

\* What the application has subscribed to is subscribed at the broker in the
\* end, also after a connection whose session is gone, if the connection
\* lasts and the topic does not go astray.
EventuallySubscribed ==
  \A t \in Topic :
    connected ~> \/ \A r \in Cached : r.topic = t => r \in granted
                 \/ t \in astray \/ link # "up" \/ ~connected
=============================================================================
