------------------------------ MODULE MCOutbox ------------------------------
(* Instances of Outbox for TLC: two or three messages and slots.           *)
EXTENDS Outbox, TLC

CONSTANTS m0, m1, m2, m3

Small == [m \in Msg |-> 1]

\* One message of QoS 2, the others of QoS 1.
MixedQos == [m \in Msg |-> IF m = m2 THEN 2 ELSE 1]

\* A QoS 0 message among the others.
WithQos0 == [m \in Msg |-> IF m = m0 THEN 0 ELSE MixedQos[m]]

AllQos1 == [m \in Msg |-> 1]

\* m2 is larger than tx_buf: it can be QUEUED but never sent.
OneTooLarge == m1 :> 1 @@ m2 :> 3 @@ m3 :> 1

Offer(rm, qos, size) ==
  [receive_maximum |-> rm, maximum_qos |-> qos, maximum_packet_size |-> size]

WindowOf1  == {Offer(1, 2, 0)}
ManyOffers == {Offer(0, 2, 0), Offer(1, 2, 0), Offer(0, 1, 0)}
=============================================================================
