--------------------------- MODULE MCSubscriptions --------------------------
(* Instances of Subscriptions for TLC.                                     *)
EXTENDS Subscriptions

CONSTANTS t1, t2, t3

\* A broker that grants everything, and one that does not.
TwoOffers ==
  {FullOffer, [FullOffer EXCEPT !.maximum_qos = 1, !.wildcards = FALSE, !.shared = FALSE]}

\* Two QoS of one topic, and two topics at once that need the last two slots.
Calls ==
  {<<[topic |-> t1, qos |-> 1]>>, <<[topic |-> t1, qos |-> 2]>>,
   <<[topic |-> t2, qos |-> 2]>>, <<[topic |-> t2, qos |-> 2], [topic |-> t3, qos |-> 1]>>}
=============================================================================
