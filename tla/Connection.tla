----------------------------- MODULE Connection -----------------------------
(***************************************************************************)
(* The connection that Subscriptions and Inbound share: the client's       *)
(* `connected' flag and the CONNACK handler it may be in, and the network  *)
(* with the packets under way.  The link may break at any moment; what the *)
(* broker had sent can still be read, what was sent to it is lost when the *)
(* connection is closed.  The actions here say what happens to these       *)
(* variables only; Subscriptions and Inbound conjoin them with their own.  *)
(***************************************************************************)
EXTENDS Naturals, Sequences

CONSTANTS
  MaxConnects,    \* bound: noxmqtt_connect calls
  MaxQueue        \* bound: packets under way

ASSUME ConnectionAssumption == MaxConnects \in Nat /\ MaxQueue \in Nat \ {0}

VARIABLES
  connected,
  handler,      \* "idle", "callback" (CONNECT event), "resubscribe"
  link,         \* "down", "connecting", "up", "broken"
  toBroker,     \* packets from the client under way
  toClient,     \* packets from the broker under way
  connects      \* noxmqtt_connect calls so far (bound)

network  == <<link, toBroker, toClient>>
connVars == <<connected, handler, network, connects>>

ConnInit ==
  /\ connected = FALSE /\ handler = "idle"
  /\ link = "down" /\ toBroker = <<>> /\ toClient = <<>>
  /\ connects = 0

ConnTypeOK ==
  /\ connected \in BOOLEAN /\ handler \in {"idle", "callback", "resubscribe"}
  /\ link \in {"down", "connecting", "up", "broken"}
  /\ connects \in 0..MaxConnects

\* noxmqtt_finalize_packet and noxmqtt_transport_write_packet: `fits' says
\* whether the packet is within tx_buf and the broker's maximum packet size.
Written(fits) == fits /\ link = "up"

Send(p) == toBroker' = Append(toBroker, p)

ConnConnect ==
  /\ handler = "idle" /\ ~connected /\ link = "down" /\ connects < MaxConnects
  /\ link' = "connecting" /\ connects' = connects + 1
  /\ UNCHANGED <<connected, handler, toBroker, toClient>>

ConnRecvConnack ==
  /\ handler = "idle" /\ link = "connecting"
  /\ link' = "up" /\ connected' = TRUE /\ handler' = "callback"
  /\ UNCHANGED <<toBroker, toClient, connects>>

\* noxmqtt_disconnect_ex, noxmqtt_transport_notify_disconnected and
\* noxmqtt_handler_disconnect_packet
ConnClose ==
  /\ link # "down"
  /\ connected' = FALSE /\ link' = "down"
  /\ toBroker' = <<>> /\ toClient' = <<>>
  /\ UNCHANGED <<handler, connects>>

ConnDisconnect == handler = "idle" /\ ConnClose

ConnBreak ==
  /\ link \in {"connecting", "up"}
  /\ link' = "broken"
  /\ UNCHANGED <<connected, handler, toBroker, toClient, connects>>

\* The next packet from the broker, handled when no handler is under way.
Received(type) ==
  /\ handler = "idle" /\ connected
  /\ toClient # <<>> /\ Head(toClient).type = type
  /\ toClient' = Tail(toClient)

\* The broker reads the next packet.
BrokerReads(type) ==
  /\ toBroker # <<>> /\ Head(toBroker).type = type
  /\ toBroker' = Tail(toBroker)

BrokerSends(p) == toClient' = Append(toClient, p)
=============================================================================
