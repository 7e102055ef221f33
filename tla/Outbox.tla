------------------------------- MODULE Outbox -------------------------------
(***************************************************************************)
(* The outgoing QoS engine of src/noxmqtt-lib/noxmqtt.c: the outbox slots, *)
(* the packet identifier counter, publishing, the four acknowledgement     *)
(* handlers, the pump that sends QUEUED messages when the broker's Receive *)
(* Maximum allows it, and the replay after CONNACK.  One client, one       *)
(* broker, two FIFO byte streams cut into packets.                         *)
(*                                                                         *)
(* Three threads use the client and nothing in it keeps them apart: the    *)
(* application, the worker of main.c that calls noxmqtt_process, and the   *)
(* receive thread, which runs the handlers and calls noxmqtt_process too.  *)
(* `at' says in which function of the client each of them is.  The two     *)
(* loops that send (pump, replay) take a step for every send, and the pump *)
(* one more to mark what it sent, so that the connection can break, the    *)
(* broker can answer and the other threads can run in between.  A step     *)
(* that one thread takes while another is inside the client is an overlap. *)
(* `overlaps' counts them: the two threads then share tx_buf, the slots    *)
(* and counts read before, and most of what is claimed here is claimed     *)
(* only while there was none.                                              *)
(*                                                                         *)
(* The broker and the network are external.  Bounds of the model: every    *)
(* message is published once, MaxConnects, MaxOtherIdents, MaxOverlaps.    *)
(***************************************************************************)
EXTENDS Naturals, Sequences, FiniteSets

CONSTANTS
  Msg,             \* messages (topic, payload and properties) to publish
  NoMsg,           \* the contents of a FREE slot
  QosOf,           \* QosOf[m]: QoS requested for m
  Size,            \* Size[m]: encoded size of the PUBLISH packet of m
  NumSlots,        \* NOXMQTT_MAX_OUTBOX_MESSAGES
  IdentMod,        \* packet_ident is a uint16_t: 65536 in the code
  TxBufSize,       \* NOXMQTT_TX_BUF_SIZE: larger packets cannot be built
  Offers,          \* capability sets a broker may announce in CONNACK
  BrokerRefuses,   \* TRUE when the broker may answer with an error reason code
  MaxConnects,     \* bound: number of noxmqtt_connect calls
  MaxOtherIdents,  \* bound: identifiers taken by SUBSCRIBE and UNSUBSCRIBE
  MaxOverlaps      \* bound: steps of one thread while another is in the client

Capabilities ==
  [receive_maximum : Nat, maximum_qos : 0..2, maximum_packet_size : Nat]

ASSUME OutboxAssumption ==
  /\ NoMsg \notin Msg
  /\ QosOf \in [Msg -> 0..2]
  /\ Size \in [Msg -> Nat]
  /\ NumSlots \in Nat \ {0}
  /\ IdentMod \in Nat \ {0, 1}
  /\ TxBufSize \in Nat
  /\ Offers \subseteq Capabilities
  /\ BrokerRefuses \in BOOLEAN
  /\ MaxConnects \in Nat
  /\ MaxOtherIdents \in Nat
  /\ MaxOverlaps \in Nat

VARIABLES
  \* the client (noxmqtt_client_t)
  outbox,          \* outbox[s]: slot s of c->outbox
  outbox_count,    \* c->outbox_count
  packet_ident,    \* c->packet_ident
  connected,       \* c->status.connected
  caps,            \* c->broker_receive_maximum, _maximum_qos, _maximum_packet_size
  \* the threads inside it
  at,              \* at[t]: the function of the client thread t runs
  scan,            \* scan[t]: the local variables of the loop t runs over the slots
  \* the network
  link,            \* "down", "connecting" (CONNECT sent), "up", "broken"
  toBroker,        \* packets on their way to the broker
  toClient,        \* acknowledgements on their way to the client
  \* the broker
  held,            \* identifiers of QoS 2 messages taken and not yet released
  \* history
  status,          \* what the application was told about each message
  received,        \* times the broker took each message, saturating at 2
  refused,         \* messages the broker answered with an error reason code
  session_lost,    \* the broker forgot a non-empty `held'
  reused,          \* a QoS 1 or 2 publish took an identifier that was 0 or still in use
  overlaps,        \* steps of a thread while another was inside the client
  connects,        \* noxmqtt_connect calls so far (bound)
  others           \* identifiers taken by SUBSCRIBE and UNSUBSCRIBE (bound)

clientVars  == <<outbox, outbox_count, packet_ident, connected, caps>>
threadVars  == <<at, scan, overlaps>>
networkVars == <<link, toBroker, toClient>>
brokerVars  == <<held, received, refused, session_lost>>
historyVars == <<status, reused>>
boundVars   == <<connects, others>>
vars == <<clientVars, threadVars, networkVars, brokerVars, historyVars, boundVars>>

-----------------------------------------------------------------------------
(* Data                                                                    *)

Slot  == 1..NumSlots
Ident == 0..(IdentMod - 1)

SlotState == {"FREE", "QUEUED", "PUBLISH_SENT", "PUBREL_SENT"}

Item == [state : SlotState, pid : Ident, dup : 0..1, msg : Msg \cup {NoMsg}]

FreeItem == [state |-> "FREE", pid |-> 0, dup |-> 0, msg |-> NoMsg]

Packet == [type : {"PUBLISH", "PUBREL"}, pid : Ident, dup : 0..1, msg : Msg \cup {NoMsg}]

PublishPacket(pid, dup, m) == [type |-> "PUBLISH", pid |-> pid, dup |-> dup, msg |-> m]
PubrelPacket(pid) == [type |-> "PUBREL", pid |-> pid, dup |-> 0, msg |-> NoMsg]

\* `ok' is FALSE for an MQTT 5 reason code of 0x80 or more.
Ack == [type : {"PUBACK", "PUBREC", "PUBCOMP"}, pid : Ident, ok : BOOLEAN]

\* noxmqtt_reset_broker_capabilities; a receive maximum or packet size of 0 means no limit.
DefaultCaps == [receive_maximum |-> 0, maximum_qos |-> 2, maximum_packet_size |-> 0]

Looping == {"worker", "receiver"}
Thread  == Looping \cup {"app"}

\* The loop variables of pump and replay: the next slot, and the pump's count
\* and limit of messages in flight, read when it starts.
Scan   == [next : Nat, count : Nat, limit : Nat]
NoScan == [next |-> 1, count |-> 0, limit |-> 0]

\* Mutant: the counter is wider than the identifier field.
NextIdentTooWide == packet_ident + 1

NextIdent == (packet_ident + 1) % IdentMod

First(S) == CHOOSE s \in S : \A t \in S : s <= t

InState(st) == {s \in Slot : outbox[s].state = st}
Used        == {s \in Slot : outbox[s].state # "FREE"}
Inflight    == InState("PUBLISH_SENT") \cup InState("PUBREL_SENT")

\* Slots whose PUBLISH a pump has sent and not marked yet.
Sending == {s \in Slot : \E t \in Looping : at[t] = "mark" /\ scan[t].next = s}

\* noxmqtt_outbox_find: at most one slot, see IdentsUnique.
Holding(pid) == {s \in Used : outbox[s].pid = pid}

-----------------------------------------------------------------------------
(* Sending                                                                 *)

\* noxmqtt_publish_internal and noxmqtt_transport_write_packet fail before
\* the transport is reached: QoS the broker does not take, packet larger than
\* tx_buf or than the broker's maximum packet size, or a slot without a topic.
CannotEncode(m) ==
  \/ m = NoMsg
  \/ QosOf[m] > caps.maximum_qos
  \/ Size[m] > TxBufSize
  \/ caps.maximum_packet_size > 0 /\ Size[m] > caps.maximum_packet_size

SendFails(m) == CannotEncode(m) \/ link # "up"

Send(p) == toBroker' = Append(toBroker, p)

-----------------------------------------------------------------------------
(* The threads                                                             *)

\* Thread t does something inside the client: an overlap, if another thread is
\* there too.
Works(t) ==
  \/ /\ \A u \in Thread \ {t} : at[u] = "out"
     /\ UNCHANGED overlaps
  \/ /\ \E u \in Thread \ {t} : at[u] # "out"
     /\ overlaps < MaxOverlaps
     /\ overlaps' = overlaps + 1

Moves(t, label) == at' = [at EXCEPT ![t] = label]

\* The application is in a call of its own, or in the CONNECT event callback,
\* which runs in the receive thread and goes on after the call.
InCall(t) == \/ t = "app" /\ at[t] = "call"
             \/ t = "receiver" /\ at[t] = "callback"

CallEnds(t) == at' = IF t = "app" THEN [at EXCEPT ![t] = "out"] ELSE at

AppCall ==
  /\ at["app"] = "out"
  /\ Moves("app", "call")
  /\ UNCHANGED <<clientVars, scan, overlaps, networkVars, brokerVars, historyVars, boundVars>>

\* A call that changes nothing here, as one of a client not connected.
AppReturn ==
  /\ at["app"] = "call"
  /\ Moves("app", "out")
  /\ UNCHANGED <<clientVars, scan, overlaps, networkVars, brokerVars, historyVars, boundVars>>

-----------------------------------------------------------------------------
(* The outbox operations, on outbox and outbox_count                       *)

\* Mutant: the identifier is not looked up before a slot is taken.
OutboxStoreUnchecked(pid, m, st) ==
  /\ InState("FREE") # {}
  /\ outbox' = [outbox EXCEPT ![First(InState("FREE"))] =
                  [state |-> st, pid |-> pid, dup |-> 0, msg |-> m]]
  /\ outbox_count' = outbox_count + 1

\* noxmqtt_outbox_store.  An identifier that is still in use stores nothing
\* and reports success all the same.
OutboxStore(pid, m, st) ==
  IF Holding(pid) # {}
  THEN UNCHANGED <<outbox, outbox_count>>
  ELSE /\ InState("FREE") # {}
       /\ outbox' = [outbox EXCEPT ![First(InState("FREE"))] =
                       [state |-> st, pid |-> pid, dup |-> 0, msg |-> m]]
       /\ outbox_count' = outbox_count + 1

\* Mutant: the first item is taken for the acknowledged one.
OutboxRemoveFirst(pid) ==
  IF Used = {}
  THEN UNCHANGED <<outbox, outbox_count>>
  ELSE /\ outbox' = [outbox EXCEPT ![First(Used)] = FreeItem]
       /\ outbox_count' = outbox_count - 1

\* noxmqtt_outbox_remove and noxmqtt_outbox_item_reset
OutboxRemove(pid) ==
  IF Holding(pid) = {}
  THEN UNCHANGED <<outbox, outbox_count>>
  ELSE /\ outbox' = [outbox EXCEPT ![First(Holding(pid))] = FreeItem]
       /\ outbox_count' = IF outbox_count > 0 THEN outbox_count - 1 ELSE outbox_count

-----------------------------------------------------------------------------
(* noxmqtt_publish_data: one action per outcome.  A call of the            *)
(* application, also from its own CONNECT event callback.                  *)

Calls(t) == connected /\ InCall(t) /\ Works(t) /\ CallEnds(t)

\* The receive window is full: store the message QUEUED and send it later.
WindowFull == caps.receive_maximum > 0 /\ Cardinality(Inflight) >= caps.receive_maximum

Told(m, st) == status' = [status EXCEPT ![m] = st]

\* packet_ident++ after the identifier was given to a message.  The code does
\* not look whether it is 0 or still in use; `reused' remembers that it was.
InUse(pid) ==
  \/ pid = 0 \/ Holding(pid) # {} \/ pid \in held
  \/ \E i \in 1..Len(toBroker) : toBroker[i].pid = pid
  \/ \E i \in 1..Len(toClient) : toClient[i].pid = pid

TakeOwnIdent ==
  /\ packet_ident' = NextIdent
  /\ reused' = (reused \/ InUse(packet_ident))

\* The QoS is above the broker's maximum, or the outbox cannot store the
\* message: no FREE slot, or no memory for the copies of topic and payload.
PublishRejected(t, m) ==
  /\ Calls(t) /\ status[m] = "new"
  /\ \/ QosOf[m] > caps.maximum_qos
     \/ QosOf[m] > 0 /\ Holding(packet_ident) = {}
  /\ Told(m, "failed")
  /\ UNCHANGED <<clientVars, scan, networkVars, brokerVars, reused, boundVars>>

PublishQos0(t, m) ==
  /\ Calls(t) /\ status[m] = "new" /\ QosOf[m] = 0
  /\ IF SendFails(m)
     THEN Told(m, "failed") /\ UNCHANGED toBroker
     ELSE Told(m, "done") /\ Send(PublishPacket(0, 0, m))
  /\ UNCHANGED <<clientVars, scan, link, toClient, brokerVars, reused, boundVars>>

PublishQueued(t, m) ==
  /\ Calls(t) /\ status[m] = "new" /\ QosOf[m] \in 1..caps.maximum_qos
  /\ WindowFull
  /\ OutboxStore(packet_ident, m, "QUEUED")
  /\ TakeOwnIdent
  /\ Told(m, "pending")
  /\ UNCHANGED <<connected, caps, scan, networkVars, brokerVars, boundVars>>

PublishSent(t, m) ==
  /\ Calls(t) /\ status[m] = "new" /\ QosOf[m] \in 1..caps.maximum_qos
  /\ ~WindowFull /\ ~SendFails(m)
  /\ OutboxStore(packet_ident, m, "PUBLISH_SENT")
  /\ TakeOwnIdent
  /\ Send(PublishPacket(packet_ident, 0, m))
  /\ Told(m, "pending")
  /\ UNCHANGED <<connected, caps, scan, link, toClient, brokerVars, boundVars>>

\* The item was stored and could not be sent: it is removed again, by its
\* identifier, unless that is 0 (noxmqtt.c:1614).
PublishFailed(t, m) ==
  /\ Calls(t) /\ status[m] = "new" /\ QosOf[m] \in 1..caps.maximum_qos
  /\ ~WindowFull /\ SendFails(m)
  /\ \/ /\ packet_ident = 0
        /\ OutboxStore(packet_ident, m, "PUBLISH_SENT")
     \/ /\ packet_ident # 0
        /\ Holding(packet_ident) # {} \/ InState("FREE") # {}
        /\ OutboxRemove(packet_ident)
  /\ TakeOwnIdent
  /\ Told(m, "failed")
  /\ UNCHANGED <<connected, caps, scan, networkVars, brokerVars, boundVars>>

\* noxmqtt_subscribe, noxmqtt_unsubscribe and, between the CONNECT callback
\* and the replay, noxmqtt_resubscribe_all take identifiers from the same counter.
TakeIdent(t) ==
  /\ Calls(t) /\ others < MaxOtherIdents
  /\ packet_ident' = NextIdent
  /\ others' = others + 1
  /\ UNCHANGED <<outbox, outbox_count, connected, caps, scan, networkVars,
                 brokerVars, historyVars, connects>>

-----------------------------------------------------------------------------
(* noxmqtt_outbox_pump: from the first slot to the last, in the worker or  *)
(* the receive thread.  What is in flight is counted once, at the start.   *)

PumpLimit == IF caps.receive_maximum = 0 THEN NumSlots ELSE caps.receive_maximum

\* Mutant: the pump forgets the limit the broker announced.
StartsPumpUnlimited(t) ==
  /\ Moves(t, "pump")
  /\ scan' = [scan EXCEPT ![t] = [next |-> 1, count |-> Cardinality(Inflight'), limit |-> NumSlots]]

StartsPump(t) ==
  /\ Moves(t, "pump")
  /\ scan' = [scan EXCEPT ![t] = [next |-> 1, count |-> Cardinality(Inflight'), limit |-> PumpLimit]]

\* noxmqtt_process while connected: by the worker, or after a receive.
Process(t) ==
  /\ at[t] = "out" /\ connected
  /\ UNCHANGED <<clientVars, overlaps, networkVars, brokerVars, historyVars, boundVars>>
  /\ StartsPump(t)

Ahead(t) == {s \in Slot : s >= scan[t].next}

\* The slot the loop sends next; none when no slot is QUEUED, no place is left
\* in the window, or the send fails.
PumpFinds(t) ==
  LET found == Ahead(t) \cap InState("QUEUED") IN
  IF found = {} \/ scan[t].count >= scan[t].limit THEN {}
  ELSE {s \in {First(found)} : ~SendFails(outbox[s].msg)}

\* The PUBLISH is sent; the slot is still QUEUED.
PumpSend(t) ==
  /\ at[t] = "pump" /\ Works(t)
  /\ \E s \in PumpFinds(t) :
       /\ Send(PublishPacket(outbox[s].pid, outbox[s].dup, outbox[s].msg))
       /\ scan' = [scan EXCEPT ![t].next = s]
  /\ Moves(t, "mark")
  /\ UNCHANGED <<clientVars, link, toClient, brokerVars, historyVars, boundVars>>

\* item->state = PUBLISH_SENT, inflight_count++ and the next iteration.
PumpMark(t) ==
  /\ at[t] = "mark" /\ Works(t)
  /\ outbox' = [outbox EXCEPT ![scan[t].next].state = "PUBLISH_SENT"]
  /\ scan' = [scan EXCEPT ![t].next = @ + 1, ![t].count = @ + 1]
  /\ Moves(t, "pump")
  /\ UNCHANGED <<outbox_count, packet_ident, connected, caps, networkVars, brokerVars,
                 historyVars, boundVars>>

PumpReturn(t) ==
  /\ at[t] = "pump" /\ PumpFinds(t) = {}
  /\ Moves(t, "out")
  /\ scan' = [scan EXCEPT ![t] = NoScan]
  /\ UNCHANGED <<clientVars, overlaps, networkVars, brokerVars, historyVars, boundVars>>

-----------------------------------------------------------------------------
(* The acknowledgement handlers                                            *)

\* The receive thread is in its own loop and reads a packet.
Receives(type) ==
  /\ at["receiver"] = "out" /\ Works("receiver")
  /\ toClient # <<>> /\ Head(toClient).type = type

\* The item of an identifier leaves the outbox and the pump runs.
Completed(pid) ==
  /\ OutboxRemove(pid)
  /\ status' = [m \in Msg |->
                  IF \E s \in Holding(pid) : outbox[s].msg = m THEN "done" ELSE status[m]]
  /\ StartsPump("receiver")
  /\ toClient' = Tail(toClient)
  /\ UNCHANGED <<packet_ident, connected, caps, link, toBroker, brokerVars,
                 reused, boundVars>>

\* noxmqtt_handler_puback, with any reason code
RecvPuback == Receives("PUBACK") /\ Completed(Head(toClient).pid)

\* noxmqtt_handler_pubcomp
RecvPubcomp == Receives("PUBCOMP") /\ Completed(Head(toClient).pid)

\* noxmqtt_handler_pubrec, reason code 0x80 or more
RecvPubrecError == Receives("PUBREC") /\ ~Head(toClient).ok /\ Completed(Head(toClient).pid)

\* Mutant: the first item is taken for the one PUBREC is about.
RecvPubrecFirst ==
  /\ Receives("PUBREC") /\ Head(toClient).ok
  /\ outbox' = IF Used = {} THEN outbox
               ELSE [outbox EXCEPT ![First(Used)].state = "PUBREL_SENT"]
  /\ IF link = "up" THEN Send(PubrelPacket(Head(toClient).pid)) ELSE UNCHANGED toBroker
  /\ toClient' = Tail(toClient)
  /\ UNCHANGED <<outbox_count, packet_ident, connected, caps, at, scan, link,
                 brokerVars, historyVars, boundVars>>

\* noxmqtt_handler_pubrec: the item, if any, is released and PUBREL is sent.
RecvPubrec ==
  /\ Receives("PUBREC") /\ Head(toClient).ok
  /\ LET pid == Head(toClient).pid IN
       /\ outbox' = IF Holding(pid) = {} THEN outbox
                    ELSE [outbox EXCEPT ![First(Holding(pid))].state = "PUBREL_SENT"]
       /\ IF link = "up" THEN Send(PubrelPacket(pid)) ELSE UNCHANGED toBroker
  /\ toClient' = Tail(toClient)
  /\ UNCHANGED <<outbox_count, packet_ident, connected, caps, at, scan, link,
                 brokerVars, historyVars, boundVars>>

-----------------------------------------------------------------------------
(* Connection: noxmqtt_connect, CONNACK, replay, loss and disconnect       *)

\* noxmqtt_connect, called by the application or by noxmqtt_process.  Packets
\* of the previous connection that the broker has not read are lost.
Connect(t) ==
  /\ at[t] = (IF t = "app" THEN "call" ELSE "out")
  /\ link = "down" /\ connects < MaxConnects
  /\ Works(t) /\ CallEnds(t)
  /\ link' = "connecting"
  /\ toBroker' = <<>> /\ toClient' = <<>>
  /\ caps' = DefaultCaps
  /\ connects' = connects + 1
  /\ UNCHANGED <<outbox, outbox_count, packet_ident, connected, scan, brokerVars,
                 historyVars, others>>

\* noxmqtt_handler_connack up to the CONNECT event.  Without a stored session
\* (session_present = 0) the broker has forgotten the QoS 2 identifiers.
RecvConnack ==
  /\ at["receiver"] = "out" /\ link = "connecting" /\ Works("receiver")
  /\ link' = "up"
  /\ connected' = TRUE
  /\ caps' \in Offers
  /\ Moves("receiver", "callback")
  /\ \/ UNCHANGED <<held, session_lost>>
     \/ /\ held' = {}
        /\ session_lost' = (session_lost \/ held # {})
  /\ UNCHANGED <<outbox, outbox_count, packet_ident, scan, toBroker, toClient,
                 received, refused, historyVars, boundVars>>

\* Mutant: the replay starts behind the first slot.
ResumeSecond ==
  /\ at["receiver"] = "callback" /\ Works("receiver")
  /\ Moves("receiver", "replay")
  /\ scan' = [scan EXCEPT !["receiver"].next = 2]
  /\ UNCHANGED <<clientVars, networkVars, brokerVars, historyVars, boundVars>>

\* The callback returned: noxmqtt_replay_outbox starts, unless outbox_count is 0.
Resume ==
  /\ at["receiver"] = "callback" /\ Works("receiver")
  /\ Moves("receiver", "replay")
  /\ scan' = [scan EXCEPT !["receiver"].next = IF outbox_count = 0 THEN NumSlots + 1 ELSE 1]
  /\ UNCHANGED <<clientVars, networkVars, brokerVars, historyVars, boundVars>>

ReplayLeft == Ahead("receiver") \cap Used

\* Mutant: the replayed PUBLISH is not marked as a duplicate.
ReplaySendUnmarked ==
  /\ at["receiver"] = "replay" /\ ReplayLeft # {} /\ Works("receiver")
  /\ LET s    == First(ReplayLeft)
         item == outbox[s]
     IN  /\ IF item.state = "PUBREL_SENT"
            THEN link = "up" /\ Send(PubrelPacket(item.pid)) /\ UNCHANGED outbox
            ELSE /\ ~SendFails(item.msg)
                 /\ outbox' = [outbox EXCEPT ![s].state = "PUBLISH_SENT"]
                 /\ Send(PublishPacket(item.pid, item.dup, item.msg))
         /\ scan' = [scan EXCEPT !["receiver"].next = s + 1]
  /\ UNCHANGED <<outbox_count, packet_ident, connected, caps, at, link, toClient,
                 brokerVars, historyVars, boundVars>>

\* Mutant: a released QoS 2 message is replayed from its PUBLISH on.
ReplaySendFromStart ==
  /\ at["receiver"] = "replay" /\ ReplayLeft # {} /\ Works("receiver")
  /\ LET s == First(ReplayLeft) IN
       /\ ~SendFails(outbox[s].msg)
       /\ outbox' = [outbox EXCEPT ![s].state = "PUBLISH_SENT", ![s].dup = 1]
       /\ Send(PublishPacket(outbox[s].pid, 1, outbox[s].msg))
       /\ scan' = [scan EXCEPT !["receiver"].next = s + 1]
  /\ UNCHANGED <<outbox_count, packet_ident, connected, caps, at, link, toClient,
                 brokerVars, historyVars, boundVars>>

\* One iteration of noxmqtt_replay_outbox that sends.
ReplaySend ==
  /\ at["receiver"] = "replay" /\ ReplayLeft # {} /\ Works("receiver")
  /\ LET s    == First(ReplayLeft)
         item == outbox[s]
         dup  == IF item.state = "PUBLISH_SENT" THEN 1 ELSE item.dup
     IN  /\ \/ /\ item.state = "PUBREL_SENT" /\ link = "up"
               /\ Send(PubrelPacket(item.pid))
               /\ UNCHANGED outbox
            \/ /\ item.state # "PUBREL_SENT" /\ ~SendFails(item.msg)
               /\ outbox' = [outbox EXCEPT ![s].state = "PUBLISH_SENT", ![s].dup = dup]
               /\ Send(PublishPacket(item.pid, dup, item.msg))
         /\ scan' = [scan EXCEPT !["receiver"].next = s + 1]
  /\ UNCHANGED <<outbox_count, packet_ident, connected, caps, at, link, toClient,
                 brokerVars, historyVars, boundVars>>

\* One iteration whose send fails: the rest of the outbox is not replayed.
ReplayAbort ==
  /\ at["receiver"] = "replay" /\ ReplayLeft # {} /\ Works("receiver")
  /\ LET s    == First(ReplayLeft)
         item == outbox[s]
     IN  \/ /\ item.state = "PUBREL_SENT" /\ link # "up"
            /\ UNCHANGED outbox
         \/ /\ item.state # "PUBREL_SENT" /\ SendFails(item.msg)
            /\ outbox' = IF item.state = "PUBLISH_SENT" THEN [outbox EXCEPT ![s].dup = 1]
                         ELSE outbox
  /\ Moves("receiver", "out")
  /\ scan' = [scan EXCEPT !["receiver"] = NoScan]
  /\ UNCHANGED <<outbox_count, packet_ident, connected, caps, networkVars,
                 brokerVars, historyVars, boundVars>>

ReplayReturn ==
  /\ at["receiver"] = "replay" /\ ReplayLeft = {}
  /\ Moves("receiver", "out")
  /\ scan' = [scan EXCEPT !["receiver"] = NoScan]
  /\ UNCHANGED <<clientVars, overlaps, networkVars, brokerVars, historyVars, boundVars>>

\* noxmqtt_disconnect_ex, noxmqtt_transport_notify_disconnected after a broken
\* link or a keepalive timeout, and the broker's DISCONNECT packet
\* (noxmqtt_handler_disconnect_packet) leave the same state for the outbox.
\* Only the first may happen inside the callback.
Disconnect(t) ==
  /\ \/ InCall(t)
     \/ t # "app" /\ at[t] = "out"
  /\ link # "down"
  /\ Works(t) /\ CallEnds(t)
  /\ link' = "down"
  /\ connected' = FALSE
  /\ caps' = DefaultCaps
  /\ toClient' = <<>>
  /\ UNCHANGED <<outbox, outbox_count, packet_ident, scan, toBroker,
                 brokerVars, historyVars, boundVars>>

-----------------------------------------------------------------------------
(* External: the network and the broker                                    *)

\* The client's sends fail from here on; what is under way may still arrive.
Break ==
  /\ link \in {"connecting", "up"}
  /\ link' = "broken"
  /\ UNCHANGED <<clientVars, threadVars, toBroker, toClient, brokerVars, historyVars, boundVars>>

Answer(type, pid, ok) ==
  toClient' = IF link = "up" THEN Append(toClient, [type |-> type, pid |-> pid, ok |-> ok])
              ELSE toClient

Take(m) == received' = [received EXCEPT ![m] = IF @ = 2 THEN 2 ELSE @ + 1]

BrokerPublish(p) ==
  LET m == p.msg IN
  \/ /\ QosOf[m] = 0
     /\ Take(m)
     /\ UNCHANGED <<held, refused, link, toClient>>
  \/ /\ QosOf[m] = 1 /\ p.pid # 0
     /\ Take(m) /\ Answer("PUBACK", p.pid, TRUE)
     /\ UNCHANGED <<held, refused, link>>
  \/ /\ QosOf[m] = 2 /\ p.pid # 0
     /\ IF p.pid \in held THEN UNCHANGED received ELSE Take(m)
     /\ held' = held \cup {p.pid}
     /\ Answer("PUBREC", p.pid, TRUE)
     /\ UNCHANGED <<refused, link>>
  \/ /\ BrokerRefuses /\ QosOf[m] > 0 /\ p.pid # 0 /\ p.pid \notin held
     /\ refused' = refused \cup {m}
     /\ Answer(IF QosOf[m] = 1 THEN "PUBACK" ELSE "PUBREC", p.pid, FALSE)
     /\ UNCHANGED <<held, received, link>>
  \* A QoS 1 or 2 PUBLISH without a packet identifier is malformed: the broker
  \* closes the connection.
  \/ /\ QosOf[m] > 0 /\ p.pid = 0
     /\ link' = IF link = "up" THEN "broken" ELSE link
     /\ UNCHANGED <<held, received, refused, toClient>>

BrokerPubrel(p) ==
  /\ held' = held \ {p.pid}
  /\ Answer("PUBCOMP", p.pid, TRUE)
  /\ UNCHANGED <<received, refused, link>>

BrokerStep ==
  /\ toBroker # <<>>
  /\ toBroker' = Tail(toBroker)
  /\ \/ Head(toBroker).type = "PUBLISH" /\ BrokerPublish(Head(toBroker))
     \/ Head(toBroker).type = "PUBREL" /\ BrokerPubrel(Head(toBroker))
  /\ UNCHANGED <<clientVars, threadVars, session_lost, historyVars, boundVars>>

-----------------------------------------------------------------------------
Init ==
  /\ outbox = [s \in Slot |-> FreeItem]
  /\ outbox_count = 0
  /\ packet_ident = 1
  /\ connected = FALSE
  /\ caps = DefaultCaps
  /\ at = [t \in Thread |-> "out"]
  /\ scan = [t \in Looping |-> NoScan]
  /\ overlaps = 0
  /\ link = "down"
  /\ toBroker = <<>> /\ toClient = <<>>
  /\ held = {}
  /\ status = [m \in Msg |-> "new"]
  /\ received = [m \in Msg |-> 0]
  /\ refused = {}
  /\ session_lost = FALSE
  /\ reused = FALSE
  /\ connects = 0 /\ others = 0

Publish(t, m) ==
  \/ PublishRejected(t, m) \/ PublishQos0(t, m) \/ PublishQueued(t, m)
  \/ PublishSent(t, m) \/ PublishFailed(t, m)

RecvAck == RecvPuback \/ RecvPubcomp \/ RecvPubrecError \/ RecvPubrec

Pump(t) == PumpSend(t) \/ PumpMark(t) \/ PumpReturn(t)
Replay  == ReplaySend \/ ReplayAbort \/ ReplayReturn

Next ==
  \/ AppCall \/ AppReturn
  \/ \E t \in Thread, m \in Msg : Publish(t, m)
  \/ \E t \in Thread : TakeIdent(t) \/ Connect(t) \/ Disconnect(t)
  \/ \E t \in Looping : Process(t) \/ Pump(t)
  \/ RecvAck \/ RecvConnack \/ Resume \/ Replay
  \/ Break \/ BrokerStep

Spec == Init /\ [][Next]_vars

(* A function of the client that runs, returns; the worker calls           *)
(* noxmqtt_process; the receive thread reads before every call of its own  *)
(* of noxmqtt_process, so it does not poll for ever with an acknowledge-   *)
(* ment unread; the broker reads its input.                                *)
Fairness ==
  /\ WF_vars(AppReturn)
  /\ \A t \in Looping : WF_vars(Pump(t))
  /\ WF_vars(Resume) /\ WF_vars(Replay)
  /\ WF_vars(Process("worker")) /\ SF_vars(RecvAck)
  /\ WF_vars(BrokerStep)

FairSpec == Spec /\ Fairness

-----------------------------------------------------------------------------
(* Properties                                                              *)

TypeOK ==
  /\ outbox \in [Slot -> Item]
  /\ outbox_count \in Nat
  /\ packet_ident \in Ident
  /\ connected \in BOOLEAN
  /\ caps \in Capabilities
  /\ at \in [Thread -> {"out", "call", "pump", "mark", "callback", "replay"}]
  /\ scan \in [Looping -> Scan]
  /\ overlaps \in 0..MaxOverlaps
  /\ link \in {"down", "connecting", "up", "broken"}
  /\ toBroker \in Seq(Packet)
  /\ toClient \in Seq(Ack)
  /\ held \subseteq Ident
  /\ status \in [Msg -> {"new", "failed", "pending", "done"}]
  /\ received \in [Msg -> 0..2]
  /\ refused \subseteq Msg
  /\ session_lost \in BOOLEAN
  /\ reused \in BOOLEAN
  /\ connects \in Nat /\ others \in Nat

\* No thread has done anything while another was inside the client.
Undisturbed == overlaps = 0

(* outbox_count is exactly the number of slots in use.  noxmqtt_replay_outbox
   returns without looking at the slots when it is 0, so an undercount means
   that messages are never sent again after a reconnect.                   *)
OutboxCountExact == outbox_count = Cardinality(Used)

(* No two outbox slots carry the same packet identifier: noxmqtt_outbox_find
   takes the first match, so with a duplicate an acknowledgement would free
   the wrong message.                                                      *)
IdentsUnique ==
  \A s, t \in Used : outbox[s].pid = outbox[t].pid => s = t

FreedIsEmpty == \A s \in Slot : outbox[s].state = "FREE" => outbox[s] = FreeItem

(* The outbox is consistent while the threads do not overlap.              *)
OutboxConsistent == Undisturbed => OutboxCountExact /\ IdentsUnique /\ FreedIsEmpty

(* A message the application was told is taken over (publish returned
   NOXMQTT_SUCCESS) stays in the outbox until it is acknowledged, through
   failed sends, lost connections and replays ...                          *)
PendingIsHeld ==
  \A m \in Msg : status[m] = "pending" => \E s \in Used : outbox[s].msg = m

(* ... as long as packet_ident did not come back to an identifier still in
   use, and the threads did not overlap.                                   *)
HeldUnlessReused == Undisturbed /\ ~reused => PendingIsHeld

(* A message is switched from "send PUBLISH again" to "send PUBREL again"
   only once the broker has it: it is a QoS 2 message that was received.
   noxmqtt_handler_pubrec itself checks neither the state nor the QoS of the
   item it finds under the identifier.                                     *)
ReleasedIsTaken ==
  Undisturbed /\ ~reused =>
    \A s \in InState("PUBREL_SENT") :
      QosOf[outbox[s].msg] = 2 /\ received[outbox[s].msg] > 0

(* A PUBLISH without the DUP flag is the first transmission of its message:
   no packet of that message is ahead of it and the broker has not seen it.
   The flag is set by noxmqtt_replay_outbox alone, several connections and
   failed sends after the first transmission.  It holds while the threads do
   not overlap: the pumps of the worker and of the receive thread can both
   find a slot QUEUED and send it, unmarked, twice.                        *)
UnmarkedIsFirst ==
  Undisturbed /\ ~reused =>
    \A i \in 1..Len(toBroker) :
      LET p == toBroker[i] IN
      p.type = "PUBLISH" /\ p.dup = 0 =>
        /\ received[p.msg] = 0
        /\ \A j \in 1..(i - 1) : toBroker[j].msg # p.msg

\* Slots whose message was sent and is not acknowledged.
Unacknowledged == Inflight \cup Sending

(* Publishing and pumping never take the number of unacknowledged messages
   above the broker's Receive Maximum, although the pump counts them once and
   goes on sending.  (Replay may: it sends the QUEUED messages too, without
   looking at the window.)  It holds while the threads do not overlap: two
   pumps, or a pump and a publish, can each give the last place away.      *)
WindowRespected ==
  [][ Undisturbed' /\ ~reused' /\ at["receiver"] # "replay"
      /\ Cardinality(Unacknowledged') > Cardinality(Unacknowledged)
        => caps.receive_maximum = 0 \/ Cardinality(Unacknowledged') <= caps.receive_maximum ]_vars

(* The publish flow implements the abstract promise: nothing is let go
   before the broker took or refused it, nothing rejected is sent, and the
   broker takes a QoS 2 message once while it keeps its session; as long as
   the threads do not overlap.                                             *)
Promise ==
  INSTANCE ReliableDelivery WITH
    Msg <- Msg, QosOf <- QosOf,
    status <- status, received <- received, refused <- refused, session_lost <- session_lost
Delivers ==
  /\ Promise!AbstractInit
  /\ [][Undisturbed' => Promise!AbstractNext]_(Promise!abstractVars)

(* Once a connection lasts, every message taken over is eventually
   acknowledged and leaves the outbox, if the threads never overlap.       *)
Stable == connected /\ link = "up"

EventuallyCompleted ==
  []Undisturbed /\ <>[]Stable => \A m \in Msg : status[m] = "pending" ~> status[m] = "done"

-----------------------------------------------------------------------------
(* Statements of the code's comments and documents that it does not keep   *)

(* "Sends queued outbox messages when capacity is available." (comment of
   noxmqtt_outbox_pump): on a connection that lasts, with room in the
   window, a QUEUED message the broker would accept does not wait for ever. *)
CapacityIsUsed ==
  []<>~( /\ Stable
         /\ Cardinality(Inflight) < PumpLimit
         /\ \E s \in InState("QUEUED") : ~CannotEncode(outbox[s].msg) )
=============================================================================
