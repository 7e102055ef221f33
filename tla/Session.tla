------------------------------ MODULE Session ------------------------------
(***************************************************************************)
(* The life of a session: connect, CONNACK, keepalive, loss and automatic  *)
(* reconnect, against a millisecond clock that wraps round.                *)
(*                                                                         *)
(* noxmqtt_process reads the clock first, uses that reading after the pump *)
(* has sent, and marks a PINGREQ outstanding after it has sent it: it is a *)
(* step up to each of these points.  Two threads call it, without a lock:  *)
(* the worker, which polls, and the receive thread, after every recv.      *)
(* Between the steps of one call time passes, the other thread goes on,    *)
(* the application connects or disconnects and, unless the call is the     *)
(* receive thread's own, packets are handled, each in one step.  The       *)
(* transport reports a lost connection once and no disconnect the          *)
(* application asked for.                                                  *)
(*                                                                         *)
(* A time stamp that is read only while a flag is set is one variable with *)
(* that flag: Unset, or the stamp.                                         *)
(***************************************************************************)
EXTENDS Naturals

CONSTANTS
  ClockMod,         \* noxmqtt_tal_time_ms wraps round at ClockMod (2^32)
  ConfKeepalive,    \* keepalive the application asks for
  DefaultKeepalive, \* MQTT_CONN_DEFAULT_KEEPALIVE
  ServerKeepalives, \* values of Server Keep Alive in a CONNACK
  ReconnectDelay,   \* reconnect_timeout_ms
  AutoReconnect,    \* ~disable_auto_reconnect
  MaxLag,           \* bound: ticks between two calls of the worker
  MaxCall,          \* bound: ticks in one call of noxmqtt_process
  MaxHandshake,     \* bound: ticks a CONNACK may take
  Unset             \* no time stamp

ASSUME SessionAssumption ==
  /\ ClockMod \in Nat \ {0} /\ ConfKeepalive \in Nat
  /\ DefaultKeepalive \in Nat \ {0} /\ ServerKeepalives \subseteq Nat
  /\ ReconnectDelay \in Nat /\ ReconnectDelay < ClockMod
  /\ AutoReconnect \in BOOLEAN
  /\ MaxLag \in Nat \ {0} /\ MaxCall \in Nat /\ MaxHandshake \in Nat
  /\ Unset \notin Nat

VARIABLES
  now,
  connected,        \* status.connected
  ping,             \* status.ping_outstanding and last_pingreq_ms
  reconnect,        \* status.reconnect_pending and next_reconnect_ms
  keepalive,
  last_tx, last_rx, \* last_tx_ms, last_rx_ms
  pc, pnow, lag,    \* where each caller is in process, the clock it read,
                    \* and the ticks in this call, or since the worker's last
  peer,             \* the connection: "none", "asked" (CONNECT sent),
                    \* "answered" (CONNACK received), "silent" (the broker
                    \* is gone, nothing arrives) or "closed" (not reported)
  wanted,           \* history: connected by the application, not disconnected
  tx_age, rx_age,   \* history: ticks since a packet was sent, was received
  pinged,           \* history: ticks since the last PINGREQ was sent, or Unset
                    \* when a PINGRESP has come since
  missed,           \* history: when the last PINGRESP came, or the connection
                    \* was replaced, a PINGREQ was still to be marked
  crossed           \* history: the callers in whose call another has marked a
                    \* PINGREQ

status  == <<connected, ping, reconnect>>
local   == <<pc, pnow, lag, crossed>>
stamps  == <<last_tx, last_rx, tx_age, rx_age>>
answer  == <<pinged, missed>>
vars == <<now, status, keepalive, stamps, local, peer, wanted, answer>>

Callers == {"worker", "receiver"}

Clock == 0..(ClockMod - 1)

Alive == peer \in {"asked", "answered", "silent"}

\* The histories stop counting when the clock has gone round.
CountUp(n) == IF n < ClockMod THEN n + 1 ELSE n

Idle == IF tx_age < rx_age THEN tx_age ELSE rx_age

\* Unsigned subtraction.
Elapsed(from, to) == (to + ClockMod - from) % ClockMod

Init ==
  /\ now = 0
  /\ connected = FALSE /\ ping = Unset /\ reconnect = Unset
  /\ keepalive = DefaultKeepalive /\ last_tx = 0 /\ last_rx = 0
  /\ pc = [t \in Callers |-> "idle"]
  /\ pnow = [t \in Callers |-> 0] /\ lag = [t \in Callers |-> 0]
  /\ peer = "none" /\ wanted = FALSE
  /\ tx_age = 0 /\ rx_age = 0
  /\ pinged = Unset /\ missed = FALSE /\ crossed = {}

-----------------------------------------------------------------------------
(* What the calls have in common                                           *)

Sent     == last_tx' = now /\ tx_age' = 0
Received == last_rx' = now /\ rx_age' = 0

NothingSent     == UNCHANGED <<last_tx, tx_age>>
NothingReceived == UNCHANGED <<last_rx, rx_age>>

\* A caller has sent a PINGREQ and not marked it yet.
Marking == \E t \in Callers : pc[t] = "pinging"

\* A PINGREQ that is not marked yet is marked after all.
Answered == pinged' = Unset /\ missed' = Marking

NoPing == ping' = Unset /\ Answered

\* noxmqtt_connect with the keepalive it is given: the flags go first, then
\* the transport connects or fails, then the CONNECT is written or not.
NoxConnect(asked) ==
  /\ connected' = FALSE /\ reconnect' = Unset
  /\ NoPing
  /\ keepalive' = IF asked = 0 THEN DefaultKeepalive ELSE asked
  /\ \/ peer' = "none" /\ UNCHANGED stamps
     \/ peer' \in {"asked", "silent", "closed"} /\ Sent /\ Received

\* Mutant: the time of the next attempt does not wrap round.
DropSessionWide ==
  /\ connected' = FALSE
  /\ NoPing
  /\ reconnect' = IF AutoReconnect THEN now + ReconnectDelay ELSE Unset
  /\ peer' = "none"

\* noxmqtt_transport_notify_disconnected and noxmqtt_handler_disconnect_packet
DropSession ==
  /\ connected' = FALSE
  /\ NoPing
  /\ reconnect' = IF AutoReconnect THEN (now + ReconnectDelay) % ClockMod ELSE Unset
  /\ peer' = "none"

\* process returns; the clock it read was in a local variable.
Return(t) ==
  /\ pc' = [pc EXCEPT ![t] = "idle"]
  /\ pnow' = [pnow EXCEPT ![t] = 0] /\ lag' = [lag EXCEPT ![t] = 0]
  /\ crossed' = crossed \ {t}

-----------------------------------------------------------------------------
(* The application                                                         *)

Connect ==
  /\ peer = "none"
  /\ NoxConnect(ConfKeepalive)
  /\ wanted' = (peer' # "none")         \* otherwise the call returned an error
  /\ UNCHANGED <<now, local>>

Disconnect ==
  /\ wanted
  /\ connected' = FALSE /\ reconnect' = Unset
  /\ NoPing
  /\ peer' = "none" /\ wanted' = FALSE
  /\ IF connected /\ Alive THEN Sent ELSE NothingSent
  /\ NothingReceived
  /\ UNCHANGED <<now, keepalive, local>>

\* A packet written by a call of the application or by a handler.
Write ==
  /\ connected /\ Alive
  /\ Sent /\ NothingReceived
  /\ UNCHANGED <<now, status, keepalive, local, peer, wanted, answer>>

-----------------------------------------------------------------------------
(* The receive thread                                                      *)

InRecv == pc["receiver"] = "idle"

RecvConnack ==
  /\ InRecv /\ peer = "asked" /\ Idle <= MaxHandshake
  /\ Received /\ NothingSent
  /\ connected' = TRUE /\ reconnect' = Unset
  /\ NoPing
  /\ keepalive' \in {keepalive} \cup ServerKeepalives
  /\ peer' = "answered"
  /\ UNCHANGED <<now, local, wanted>>

\* Mutant: the PINGRESP does not clear the flag.
RecvPingrespUncleared ==
  /\ InRecv /\ peer = "answered"
  /\ Received /\ NothingSent
  /\ Answered
  /\ UNCHANGED <<now, status, keepalive, local, peer, wanted>>

\* Any PINGRESP clears the flag, whether a PINGREQ is marked or not.
RecvPingresp ==
  /\ InRecv /\ peer = "answered"
  /\ Received /\ NothingSent
  /\ NoPing
  /\ UNCHANGED <<now, connected, reconnect, keepalive, local, peer, wanted>>

\* Any other packet, a CONNACK that refuses included.
RecvOther ==
  /\ InRecv /\ peer \in {"asked", "answered"}
  /\ Received /\ NothingSent
  /\ UNCHANGED <<now, status, keepalive, local, peer, wanted, answer>>

RecvDisconnect ==
  /\ InRecv /\ peer = "answered"
  /\ Received /\ NothingSent
  /\ DropSession
  /\ UNCHANGED <<now, keepalive, local, wanted>>

ReportLoss ==
  /\ InRecv /\ peer = "closed"
  /\ DropSession
  /\ UNCHANGED <<now, keepalive, stamps, local, wanted>>

-----------------------------------------------------------------------------
(* The network and the clock                                               *)

Close ==
  /\ Alive
  /\ peer' = "closed"
  /\ UNCHANGED <<now, status, keepalive, stamps, local, wanted, answer>>

FallSilent ==
  /\ peer = "answered"
  /\ peer' = "silent"
  /\ UNCHANGED <<now, status, keepalive, stamps, local, wanted, answer>>

\* The worker polls, and nobody stays in a call.
Counts(t) == t = "worker" \/ pc[t] # "idle"
Bound(t)  == IF pc[t] = "idle" THEN MaxLag ELSE MaxCall

Tick ==
  /\ \A t \in Callers : Counts(t) => lag[t] < Bound(t)
  /\ now' = (now + 1) % ClockMod
  /\ lag' = [t \in Callers |-> IF Counts(t) THEN lag[t] + 1 ELSE lag[t]]
  /\ tx_age' = CountUp(tx_age) /\ rx_age' = CountUp(rx_age)
  /\ pinged' = IF pinged = Unset THEN Unset ELSE CountUp(pinged)
  /\ UNCHANGED <<status, keepalive, last_tx, last_rx, pc, pnow, crossed, peer,
                 wanted, missed>>

-----------------------------------------------------------------------------
(* noxmqtt_process                                                         *)

\* The receive thread calls it when recv has not ended the connection, and
\* once more after the DISCONNECT packet that has.
MayCall(t) == pc[t] = "idle" /\ (t = "receiver" => peer # "closed")

\* Mutant: only a call at the time of the attempt itself makes it.
ReconnectDueAtTime == reconnect # Unset /\ AutoReconnect /\ now = reconnect

ReconnectDue == reconnect # Unset /\ AutoReconnect /\ now >= reconnect

ProcessIdle(t) ==
  /\ MayCall(t) /\ ~connected /\ ~ReconnectDue
  /\ Return(t)
  /\ UNCHANGED <<now, status, keepalive, stamps, peer, wanted, answer>>

Reconnect(t) ==
  /\ MayCall(t) /\ ~connected /\ ReconnectDue
  /\ NoxConnect(keepalive)
  /\ Return(t)
  /\ UNCHANGED <<now, wanted>>

ProcessBegin(t) ==
  /\ MayCall(t) /\ connected
  /\ pc' = [pc EXCEPT ![t] = "begun"]
  /\ pnow' = [pnow EXCEPT ![t] = now] /\ lag' = [lag EXCEPT ![t] = 0]
  /\ UNCHANGED <<now, status, keepalive, stamps, crossed, peer, wanted, answer>>

\* A queued message is sent; there may be several, or none.
ProcessPump(t) ==
  /\ pc[t] = "begun"
  /\ Alive
  /\ Sent /\ NothingReceived
  /\ UNCHANGED <<now, status, keepalive, local, peer, wanted, answer>>

last_activity == IF last_tx > last_rx THEN last_tx ELSE last_rx

PingOverdue(t) ==
  /\ keepalive # 0 /\ ping # Unset
  /\ Elapsed(ping, pnow[t]) >= keepalive

\* Mutant: two times are compared, instead of their difference with the
\* keepalive.
PingDueAtTime(t) ==
  /\ keepalive # 0 /\ ping = Unset
  /\ pnow[t] >= last_activity + keepalive

PingDue(t) ==
  /\ keepalive # 0 /\ ping = Unset
  /\ Elapsed(last_activity, pnow[t]) >= keepalive

ProcessNothing(t) ==
  /\ pc[t] = "begun"
  /\ ~PingOverdue(t) /\ ~PingDue(t)
  /\ Return(t)
  /\ UNCHANGED <<now, status, keepalive, stamps, peer, wanted, answer>>

ProcessTimeout(t) ==
  /\ pc[t] = "begun" /\ PingOverdue(t)
  /\ DropSession
  /\ Return(t)
  /\ UNCHANGED <<now, keepalive, stamps, wanted>>

ProcessPing(t) ==
  /\ pc[t] = "begun" /\ PingDue(t)
  /\ Alive
  /\ Sent /\ NothingReceived
  /\ pinged' = 0
  /\ pc' = [pc EXCEPT ![t] = "pinging"]
  /\ UNCHANGED <<now, status, keepalive, peer, wanted, pnow, lag, crossed, missed>>

\* Mutant: the PINGREQ is not marked.
ProcessForgetPing(t) ==
  /\ pc[t] = "pinging"
  /\ Return(t)
  /\ UNCHANGED <<now, status, keepalive, stamps, peer, wanted, answer>>

ProcessMarkPing(t) ==
  /\ pc[t] = "pinging"
  /\ ping' = pnow[t]
  /\ pc' = [pc EXCEPT ![t] = "idle"]
  /\ pnow' = [pnow EXCEPT ![t] = 0] /\ lag' = [lag EXCEPT ![t] = 0]
  /\ crossed' = {u \in Callers \ {t} : pc[u] # "idle"}
  /\ UNCHANGED <<now, connected, reconnect, keepalive, stamps, peer, wanted, answer>>

\* A queued message or the PINGREQ cannot be sent: the transport closes the
\* socket and process returns the error.
ProcessSendFails(t) ==
  /\ pc[t] = "begun"
  /\ peer' = IF Alive THEN "closed" ELSE peer
  /\ Return(t)
  /\ UNCHANGED <<now, status, keepalive, stamps, wanted, answer>>

-----------------------------------------------------------------------------
ProcessStep(t) ==
  \/ ProcessIdle(t) \/ Reconnect(t) \/ ProcessBegin(t) \/ ProcessPump(t)
  \/ ProcessNothing(t) \/ ProcessTimeout(t) \/ ProcessPing(t) \/ ProcessMarkPing(t)
  \/ ProcessSendFails(t)

Next ==
  \/ Connect \/ Disconnect \/ Write
  \/ RecvConnack \/ RecvPingresp \/ RecvOther \/ RecvDisconnect \/ ReportLoss
  \/ Close \/ FallSilent \/ Tick
  \/ \E t \in Callers : ProcessStep(t)

\* Time passes, the worker polls, and the receive thread ends a call it is in
\* and reports a loss.  A tick is strongly fair because the bound of a call
\* makes it wait, again and again, for the thread that is in one.
Fairness ==
  /\ SF_vars(Tick)
  /\ WF_vars(ProcessStep("worker"))
  /\ WF_vars(~InRecv /\ ProcessStep("receiver"))
  /\ WF_vars(ReportLoss)

Spec == Init /\ [][Next]_vars /\ Fairness

-----------------------------------------------------------------------------
(* Properties                                                              *)

\* Every variable keeps its type and every clock reading its width.
TypeOK ==
  /\ {now, last_tx, last_rx} \subseteq Clock
  /\ connected \in BOOLEAN /\ wanted \in BOOLEAN
  /\ ping = Unset \/ ping \in Clock
  /\ reconnect = Unset \/ reconnect \in Clock
  /\ keepalive \in {0, ConfKeepalive, DefaultKeepalive} \cup ServerKeepalives
  /\ pc \in [Callers -> {"idle", "begun", "pinging"}]
  /\ pnow \in [Callers -> Clock]
  /\ lag \in [Callers -> Nat] /\ \A t \in Callers : lag[t] <= Bound(t)
  /\ crossed \subseteq {t \in Callers : pc[t] # "idle"}
  /\ peer \in {"none", "asked", "answered", "silent", "closed"}
  /\ {tx_age, rx_age} \subseteq 0..ClockMod
  /\ pinged = Unset \/ pinged \in 0..ClockMod
  /\ missed \in BOOLEAN

\* A connected client whose worker polls process never lets the keepalive
\* pass, by more than a poll and two calls of process, without a packet in
\* one direction or the other, wherever the clock wraps round and whatever
\* the receive thread's calls do in between: as long as neither direction
\* has been still for a whole round of the clock.
KeptAlive ==
  connected /\ Alive /\ keepalive # 0 /\ tx_age < ClockMod /\ rx_age < ClockMod
    => Idle < keepalive + MaxLag + 2 * MaxCall

\* process gives a connection up only if a PINGREQ has been unanswered for
\* the keepalive, less the time one call of process takes.  There are two
\* exceptions.  The PINGRESP was handled, or the connection replaced, before
\* a caller of process had marked its PINGREQ; or the other caller marked one
\* after this call had read the clock, and the stamp may then be later than
\* the reading it is subtracted from.
TimeoutIsReal ==
  [][\A t \in Callers : ProcessTimeout(t) =>
       missed \/ t \in crossed \/ (pinged # Unset /\ pinged + MaxCall >= keepalive)]_vars

\* A broker that falls silent is noticed, unless the client itself goes on
\* sending for ever.
SilenceIsNoticed ==
  <>[](connected /\ peer = "silent" /\ keepalive # 0)
    => []<><<Write \/ \E t \in Callers : ProcessPump(t)>>_<<last_tx, tx_age>>

\* A reconnect that is scheduled is attempted, or no longer needed, at the
\* latest one poll after it is due, unless the time it is due is one of the
\* last before the clock wraps round: the polls may step over those, and
\* now >= next_reconnect_ms is false again for a whole round.
ReconnectsInTime ==
  reconnect # Unset /\ reconnect + MaxLag + MaxCall < ClockMod
    => \/ Elapsed(now, reconnect) <= ReconnectDelay
       \/ Elapsed(reconnect, now) <= MaxLag + MaxCall

\* A client the application has connected, and that reconnects by itself,
\* has a connection, or an attempt under way or scheduled: "Runs periodic
\* keepalive, reconnect, and queued-send processing." (noxmqtt.h)
NeverGivesUp ==
  wanted /\ AutoReconnect => peer # "none" \/ reconnect # Unset
=============================================================================
