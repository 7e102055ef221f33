------------------------------ MODULE Inbound ------------------------------
(***************************************************************************)
(* Messages from the broker: PUBLISH with its topic or an alias for it,    *)
(* the PUBACK or PUBREC the client writes, the event that tells the        *)
(* application afterwards, PUBREL and PUBCOMP.  Between the answer and the *)
(* event the broker, the network and the other threads of the client go    *)
(* on.  The client keeps nothing of a message but the topics of the        *)
(* aliases; it is the broker that remembers what is unacknowledged and     *)
(* sends it again on the next connection.                                  *)
(*                                                                         *)
(* Packet identifiers are the broker's, one for each message; the client   *)
(* copies them into its answers.  Malformed packets are module Codec.      *)
(***************************************************************************)
EXTENDS Connection, FiniteSets

CONSTANTS
  Topic,          \* topic names
  NoTopic,        \* an alias without a topic
  Qos,            \* QoS of those messages
  Msg,            \* messages of QoS 1 and 2, each published once
  Empty,          \* the empty topic of a PUBLISH with an alias
  NoMsg,          \* the identity of a QoS 0 message
  Capacity,       \* topic_alias_capacity
  Announced       \* Topic Alias Maximum in the client's CONNECT

ASSUME InboundAssumption ==
  /\ NoTopic \notin Topic /\ Qos \subseteq {1, 2}
  /\ Empty \notin Topic \cup {NoTopic} /\ NoMsg \notin Msg
  /\ {Capacity, Announced} \subseteq Nat

VARIABLES
  \* the client
  topic_aliases,
  reporting,    \* the message noxmqtt_handler_publish has answered and not reported
                \* yet, in a set of at most one; the topic, the topic that was meant
                \* and what holds the topic: the "packet", the "table" of the aliases
                \* or nothing any more ("freed")
  \* the broker
  inbox,        \* inbox[m]: how far the broker is with m
  content,      \* content[m]: topic and QoS of m
  given,        \* topic of each alias on this connection
  again,        \* messages to be sent again on this connection
  \* history
  delivered,    \* delivered[m]: events for m (2 stands for "more than once")
  unanswered,   \* messages of which a PUBACK or PUBREC was lost
  rejected      \* messages of which a PUBLISH was found bad

broker  == <<inbox, content, given, again>>
history == <<delivered, unanswered, rejected>>
inVars  == <<topic_aliases, reporting, broker, history>>
vars == <<connVars, inVars>>

Alias == 1..Capacity

NoContent == [topic |-> NoTopic, qos |-> 0]

Init ==
  /\ ConnInit
  /\ topic_aliases = [a \in Alias |-> NoTopic]
  /\ reporting = {}
  /\ inbox = [m \in Msg |-> "new"] /\ content = [m \in Msg |-> NoContent]
  /\ given = [a \in 1..Announced |-> NoTopic] /\ again = {}
  /\ delivered = [m \in Msg |-> 0] /\ unanswered = {} /\ rejected = {}

Unacknowledged == {m \in Msg : inbox[m] \in {"sent", "released"}}

\* How often m has been reported, or will be when the handler returns.
Told ==
  [m \in Msg |-> IF delivered[m] < 2 /\ \E r \in reporting : r.msg = m THEN delivered[m] + 1
                 ELSE delivered[m]]

-----------------------------------------------------------------------------
(* The client                                                              *)

\* Mutant: an alias that has a topic keeps it.
StoreIfNew(p) ==
  IF p.topic # Empty /\ p.alias \in Alias /\ topic_aliases[p.alias] = NoTopic
  THEN [topic_aliases EXCEPT ![p.alias] = p.topic]
  ELSE topic_aliases

\* Mutant: an empty topic is stored.
StoreEmpty(p) ==
  IF p.alias \in Alias THEN [topic_aliases EXCEPT ![p.alias] = p.topic] ELSE topic_aliases

\* noxmqtt_topic_alias_store
Stored(p) ==
  IF p.topic # Empty /\ p.alias \in Alias THEN [topic_aliases EXCEPT ![p.alias] = p.topic]
  ELSE topic_aliases

\* noxmqtt_topic_alias_lookup
Lookup(a) == IF a \in Alias THEN topic_aliases[a] ELSE NoTopic

\* An alias above the capacity is refused, although CONNECT may announce more.
Bad(p) ==
  \/ p.topic # Empty /\ p.alias > Capacity
  \/ p.topic = Empty /\ Lookup(p.alias) = NoTopic

\* Mutant: PUBREC is left to the application's event callback.
OnlyPuback(qos) == IF qos = 1 THEN {"PUBACK"} ELSE {}

\* What noxmqtt_handler_publish answers.
Answer(qos) == IF qos = 1 THEN {"PUBACK"} ELSE IF qos = 2 THEN {"PUBREC"} ELSE {}

\* The answer is written, or reported as an error; the event is sent anyway.
Answers(m, types) ==
  \/ types = {} /\ UNCHANGED <<toBroker, unanswered>>
  \/ \E type \in types :
       IF Written(TRUE)
       THEN Send([type |-> type, msg |-> m]) /\ UNCHANGED unanswered
       ELSE unanswered' = unanswered \cup {m} /\ UNCHANGED toBroker

\* A topic that is looked up stays where it is, in the table.
RecvPublish ==
  LET p == Head(toClient) IN
  /\ Received("PUBLISH") /\ ~Bad(p)
  /\ topic_aliases' = Stored(p)
  /\ Answers(p.msg, Answer(p.qos))
  /\ reporting' = {IF p.topic # Empty
                   THEN [msg |-> p.msg, topic |-> p.topic, meant |-> p.meant, held |-> "packet"]
                   ELSE [msg |-> p.msg, topic |-> Lookup(p.alias), meant |-> p.meant,
                         held |-> "table"]}
  /\ handler' = "callback"
  /\ UNCHANGED <<broker, delivered, rejected, connected, link, connects>>

\* noxmqtt_send_event, whatever has become of the connection.
Report ==
  /\ reporting # {}
  /\ delivered' = Told
  /\ reporting' = {} /\ handler' = "idle"
  /\ UNCHANGED <<topic_aliases, broker, unanswered, rejected, connected, network, connects>>

\* Mutant: a PUBLISH is answered before it is found bad.
AnswerBadPublish ==
  LET p == Head(toClient) IN
  /\ Received("PUBLISH") /\ Bad(p)
  /\ rejected' = rejected \cup ({p.msg} \ {NoMsg})
  /\ Answers(p.msg, Answer(p.qos))
  /\ UNCHANGED <<topic_aliases, reporting, broker, delivered,
                 connected, handler, link, connects>>

\* Neither an answer nor an event.
RecvBadPublish ==
  /\ Received("PUBLISH") /\ Bad(Head(toClient))
  /\ rejected' = rejected \cup ({Head(toClient).msg} \ {NoMsg})
  /\ UNCHANGED <<topic_aliases, reporting, broker, delivered, unanswered,
                 connected, handler, link, toBroker, connects>>

\* Mutant: a PUBREL is not answered.
NoPubcomp(m) == UNCHANGED toBroker

\* noxmqtt_pubcomp
Pubcomp(m) ==
  IF Written(TRUE) THEN Send([type |-> "PUBCOMP", msg |-> m]) ELSE UNCHANGED toBroker

RecvPubrel ==
  /\ Received("PUBREL")
  /\ Pubcomp(Head(toClient).msg)
  /\ UNCHANGED <<inVars, connected, handler, link, connects>>

-----------------------------------------------------------------------------
(* The connection                                                          *)

Connect ==
  /\ ConnConnect
  /\ topic_aliases' = [a \in Alias |-> NoTopic]
  /\ UNCHANGED <<reporting, broker, history>>

\* The CONNECT event's callback returns.
Resume ==
  /\ handler = "callback" /\ reporting = {} /\ handler' = "idle"
  /\ UNCHANGED <<inVars, connected, network, connects>>

\* A broker that has the session sends what is unacknowledged again, one that
\* has not has forgotten it.
RecvConnack(session_present) ==
  /\ ConnRecvConnack
  /\ inbox' = [m \in Msg |-> IF session_present \/ m \notin Unacknowledged THEN inbox[m]
                             ELSE IF inbox[m] = "sent" THEN "dropped" ELSE "done"]
  /\ again' = IF session_present THEN Unacknowledged ELSE {}
  /\ UNCHANGED <<topic_aliases, reporting, content, given, history>>

Break == ConnBreak /\ UNCHANGED inVars

\* Another thread may disconnect while a handler runs, and free a topic it
\* has looked up.
Disconnect ==
  /\ ConnClose
  /\ topic_aliases' = [a \in Alias |-> NoTopic]
  /\ reporting' = {[r EXCEPT !.held = IF @ = "table" THEN "freed" ELSE @] : r \in reporting}
  /\ given' = [a \in 1..Announced |-> NoTopic] /\ again' = {}
  /\ unanswered' = unanswered \cup {m \in Msg : \E i \in DOMAIN toBroker :
                     /\ toBroker[i].type \in {"PUBACK", "PUBREC"} /\ toBroker[i].msg = m}
  /\ UNCHANGED <<inbox, content, delivered, rejected>>

-----------------------------------------------------------------------------
(* The broker                                                              *)

\* A PUBLISH of m: with its topic, with an alias for it too, or with an alias
\* only.  `meant' is a ghost, the topic of the message.
SendsPublish(m, r, a) ==
  \E t \in {r.topic, Empty} :
    /\ t = Empty => a # 0 /\ given[a] = r.topic
    /\ given' = IF a # 0 THEN [given EXCEPT ![a] = r.topic] ELSE given
    /\ BrokerSends([type |-> "PUBLISH", msg |-> m, qos |-> r.qos, topic |-> t, alias |-> a,
                    meant |-> r.topic])

\* A QoS 0 message leaves no trace at the broker.
BrokerPublishesQos0(t, a) ==
  /\ link = "up" /\ Len(toClient) < MaxQueue
  /\ SendsPublish(NoMsg, [topic |-> t, qos |-> 0], a)
  /\ UNCHANGED <<topic_aliases, reporting, inbox, content, again, history,
                 connected, handler, link, toBroker, connects>>

BrokerPublishes(m, r, a) ==
  /\ link = "up" /\ inbox[m] = "new" /\ Len(toClient) < MaxQueue
  /\ inbox' = [inbox EXCEPT ![m] = "sent"]
  /\ content' = [content EXCEPT ![m] = r]
  /\ SendsPublish(m, r, a)
  /\ UNCHANGED <<topic_aliases, reporting, again, history,
                 connected, handler, link, toBroker, connects>>

BrokerSendsAgain(m, a) ==
  /\ link = "up" /\ m \in again
  /\ again' = again \ {m}
  /\ \/ inbox[m] = "sent" /\ SendsPublish(m, content[m], a)
     \/ /\ inbox[m] = "released" /\ a = 0
        /\ BrokerSends([type |-> "PUBREL", msg |-> m])
        /\ UNCHANGED given
  /\ UNCHANGED <<topic_aliases, reporting, inbox, content, history,
                 connected, handler, link, toBroker, connects>>

BrokerTakesAck(type) ==
  LET m == Head(toBroker).msg IN
  /\ BrokerReads(type)
  /\ \/ /\ type \in {"PUBACK", "PUBCOMP"}
        /\ inbox' = [inbox EXCEPT ![m] = "done"]
        /\ UNCHANGED toClient
     \/ /\ type = "PUBREC"
        /\ inbox' = [inbox EXCEPT ![m] = "released"]
        /\ BrokerSends([type |-> "PUBREL", msg |-> m])
  /\ again' = again \ {m}
  /\ UNCHANGED <<topic_aliases, reporting, content, given, history,
                 connected, handler, link, connects>>

Next ==
  \/ Connect \/ Resume \/ Disconnect \/ Break
  \/ \E session_present \in BOOLEAN : RecvConnack(session_present)
  \/ RecvPublish \/ Report \/ RecvBadPublish \/ RecvPubrel
  \/ \E m \in Msg, a \in 0..Announced :
       \/ BrokerSendsAgain(m, a)
       \/ \E r \in [topic : Topic, qos : Qos] : BrokerPublishes(m, r, a)
  \/ \E t \in Topic, a \in 0..Announced : BrokerPublishesQos0(t, a)
  \/ \E type \in {"PUBACK", "PUBREC", "PUBCOMP"} : BrokerTakesAck(type)

Spec == Init /\ [][Next]_vars

\* The handlers run to their end, packets under way are read, and the broker
\* sends again what it has to.
Fairness ==
  /\ WF_vars(Resume \/ Report)
  /\ WF_vars(RecvPublish \/ RecvBadPublish \/ RecvPubrel)
  /\ WF_vars(\E type \in {"PUBACK", "PUBREC", "PUBCOMP"} : BrokerTakesAck(type))
  /\ WF_vars(\E m \in Msg, a \in 0..Announced : BrokerSendsAgain(m, a))

FairSpec == Spec /\ Fairness

-----------------------------------------------------------------------------
(* Properties                                                              *)

Places == {"packet", "table", "freed"}

\* The types of the client's tables, of the broker's view and of the history;
\* the handler reports one message at a time.
TypeOK ==
  /\ ConnTypeOK
  /\ topic_aliases \in [Alias -> Topic \cup {NoTopic}]
  /\ \/ reporting = {}
     \/ /\ handler = "callback"
        /\ \E r \in [msg : Msg \cup {NoMsg}, topic : Topic \cup {NoTopic}, meant : Topic,
                     held : Places] : reporting = {r}
  /\ inbox \in [Msg -> {"new", "sent", "released", "done", "dropped"}]
  /\ content \in [Msg -> [topic : Topic, qos : Qos] \cup {NoContent}]
  /\ given \in [1..Announced -> Topic \cup {NoTopic}]
  /\ again \subseteq Unacknowledged
  /\ delivered \in [Msg -> 0..2] /\ unanswered \cup rejected \subseteq Msg

\* The application sees a message under the topic it was published under,
\* whatever aliases the broker puts in its place, unless the topic was looked
\* up and freed by another thread's disconnect before the event.
RightTopic == \A r \in reporting : r.held # "freed" => r.topic = r.meant

\* A message is reported a second time only when the acknowledgement of an
\* earlier PUBLISH was lost.
TwiceOnlyIfLost == \A m \in Msg : delivered[m] = 2 => m \in unanswered

InboundStatus ==
  [m \in Msg |-> CASE inbox[m] = "new" -> "new"
                   [] inbox[m] \in {"sent", "dropped"} -> "pending"
                   [] inbox[m] \in {"released", "done"} -> "done"]

Receiving ==
  INSTANCE ReliableDelivery WITH
    QosOf <- [m \in Msg |-> 1], status <- InboundStatus, received <- Told,
    refused <- {}, session_lost <- FALSE

\* To a broker the client is what the broker is to the client for QoS 1
\* (ReliableDelivery): no message is complete that the application was not
\* told of, or that its handler is not about to report; the answer goes first,
\* so the application may hear of a message the broker has let go already.
\* For QoS 2 it promises no more than that.
AtLeastOnce == Receiving!AbstractSpec

\* What the broker has sent is acknowledged if the connection lasts, but for
\* a PUBLISH the client finds bad; and the application hears of what the
\* broker has seen acknowledged, whether the connection lasts or not.
EventuallyAcknowledged ==
  \A m \in Msg :
    /\ inbox[m] \in {"sent", "released"}
         ~> inbox[m] \in {"done", "dropped"} \/ link # "up" \/ ~connected \/ m \in rejected
    /\ inbox[m] \in {"released", "done"} ~> delivered[m] > 0
=============================================================================
