-------------------------- MODULE ReliableDelivery --------------------------
(***************************************************************************)
(* What the QoS 1 and QoS 2 publish flow of noxmqtt promises to the        *)
(* application, without packets, slots or connections.  A message whose    *)
(* publish call returned NOXMQTT_SUCCESS is "pending" until the client     *)
(* stops caring about it ("done"), and the client stops caring only after  *)
(* the broker took the message or refused it.  The broker takes a QoS 2    *)
(* message once, as long as it keeps its session.                          *)
(***************************************************************************)
EXTENDS Naturals

CONSTANTS
  Msg,        \* messages the application may publish, each at most once
  QosOf       \* QosOf[m]: the QoS the application publishes m with

VARIABLES
  status,        \* status[m]: what became of the publish call of m
  received,      \* received[m]: times the broker took m (2 stands for "more than once")
  refused,       \* messages the broker answered with an error reason code
  session_lost   \* TRUE once the broker forgot QoS 2 state of this client

abstractVars == <<status, received, refused, session_lost>>

Status == {"new", "failed", "pending", "done"}

AtMost2(n) == IF n > 2 THEN 2 ELSE n

AbstractInit ==
  /\ status = [m \in Msg |-> "new"]
  /\ received = [m \in Msg |-> 0]
  /\ refused = {}
  /\ session_lost = FALSE

(* The publish call of m returns an error: the message was not taken over. *)
Reject(m) ==
  /\ status[m] = "new"
  /\ status' = [status EXCEPT ![m] = "failed"]
  /\ UNCHANGED <<received, refused, session_lost>>

(* The publish call of m succeeds.  Nothing more is promised for QoS 0.    *)
Accept(m) ==
  /\ status[m] = "new"
  /\ status' = [status EXCEPT ![m] = IF QosOf[m] = 0 THEN "done" ELSE "pending"]
  /\ UNCHANGED <<received, refused, session_lost>>

(* The broker takes m: QoS 0 and 2 at most once (QoS 2: while the session  *)
(* lasts), QoS 1 any number of times.                                      *)
Receive(m) ==
  /\ status[m] \in {"pending", "done"}
  /\ \/ QosOf[m] = 1
     \/ received[m] = 0
     \/ QosOf[m] = 2 /\ session_lost
  /\ received' = [received EXCEPT ![m] = AtMost2(@ + 1)]
  /\ UNCHANGED <<status, refused, session_lost>>

(* The broker answers m with an error reason code.                         *)
Refuse(m) ==
  /\ status[m] \in {"pending", "done"}
  /\ QosOf[m] > 0
  /\ refused' = refused \cup {m}
  /\ UNCHANGED <<status, received, session_lost>>

(* The client lets go of m, never before the broker took or refused it.    *)
Complete(m) ==
  /\ status[m] = "pending"
  /\ received[m] > 0 \/ m \in refused
  /\ status' = [status EXCEPT ![m] = "done"]
  /\ UNCHANGED <<received, refused, session_lost>>

LoseSession ==
  /\ session_lost' = TRUE
  /\ UNCHANGED <<status, received, refused>>

AbstractNext ==
  \/ \E m \in Msg : Reject(m) \/ Accept(m) \/ Receive(m) \/ Refuse(m) \/ Complete(m)
  \/ LoseSession

AbstractSpec == AbstractInit /\ [][AbstractNext]_abstractVars
=============================================================================
