---------------------------- MODULE TopicChannel ----------------------------
(***************************************************************************)
(* What publishing with MQTT 5 topic aliases promises: a message arrives   *)
(* under the topic it was published under, in the order of publishing,     *)
(* whatever was put on the wire in place of the topic.  A message that     *)
(* relies on an alias the receiver was not told of is not `sure': it may   *)
(* arrive under any topic, or end the connection.                          *)
(***************************************************************************)
EXTENDS Sequences

CONSTANTS
  Topic,     \* topics of messages
  Nothing    \* no message has arrived yet

VARIABLES
  sent,      \* the messages under way: the topic meant, and whether it is sure
  arrived,   \* topic of the last message that arrived on this connection
  doubt      \* the sender may rely on something the receiver was not told

channelVars == <<sent, arrived, doubt>>

ChannelInit == sent = <<>> /\ arrived = Nothing /\ doubt = FALSE

\* Publishing may tell the receiver what it was not told before.
Publish(t, s) ==
  /\ s \/ doubt
  /\ sent' = Append(sent, [topic |-> t, sure |-> s])
  /\ doubt' \in {doubt, FALSE}
  /\ UNCHANGED arrived

Arrive ==
  /\ sent # <<>>
  /\ sent' = Tail(sent)
  /\ IF Head(sent).sure THEN arrived' = Head(sent).topic ELSE arrived' \in Topic
  /\ UNCHANGED doubt

\* Something is noted as told and is not sent.
Forget == doubt' = TRUE /\ UNCHANGED <<sent, arrived>>

\* The connection ends, with what is under way: because it broke, or because
\* the receiver does not understand the first message.
Lose ==
  /\ sent' = <<>>
  /\ doubt' \in {doubt, FALSE}
  /\ arrived' \in {arrived, Nothing}

ChannelNext ==
  \/ \E t \in Topic, s \in BOOLEAN : Publish(t, s)
  \/ Arrive \/ Forget \/ Lose

ChannelSpec == ChannelInit /\ [][ChannelNext]_channelVars
=============================================================================
