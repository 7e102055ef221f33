------------------------- MODULE SubscriptionsProofs -------------------------
(***************************************************************************)
(* Theorems about Subscriptions, for all topics, offers, requests and      *)
(* numbers of slots: the subscription cache keeps its types, its count and *)
(* one slot for each topic; the broker holds what the cache holds, or will *)
(* when it has read what is under way; a topic stays unsubscribed.         *)
(***************************************************************************)
EXTENDS Subscriptions, FiniteSetTheorems, WellFoundedInduction, TLAPS

-----------------------------------------------------------------------------
(* The inductive invariant                                                 *)

Calls == [op : {"none", "SUBSCRIBE", "UNSUBSCRIBE"}, rest : Seq(Sub), encoded : Seq(Sub)]

(* The cache, with the topics the call under way and resubscribe_all have
   yet to come to.                                                         *)
CacheInv ==
  /\ subscriptions \in [Slot -> Sub \cup {FreeSlot}]
  /\ subscriptions_count = Cardinality(Active)
  /\ \A s, u \in Active : subscriptions[s].topic = subscriptions[u].topic => s = u
  /\ call \in Calls
  /\ todo \subseteq Slot

-----------------------------------------------------------------------------
(* Lemmas about the operators                                              *)

(* A non-empty set of positive numbers has a first element, and First
   returns it.                                                             *)
LEMMA FirstIsMember ==
  ASSUME NEW S \in SUBSET Nat, S # {}
  PROVE  First(S) \in S
<1>1. PICK x \in S : \A y \in S : ~(<<y, x>> \in OpToRel(<, Nat))
  BY NatLessThanWellFounded, WFMin
<1>2. \A y \in S : x <= y
  <2>1. ASSUME NEW y \in S, ~(x <= y) PROVE FALSE
    <3>1. <<y, x>> \in OpToRel(<, Nat)
      BY <2>1 DEF OpToRel
    <3>. QED BY <3>1, <1>1
  <2>. QED BY <2>1
<1>. QED BY <1>2 DEF First

LEMMA ActiveIsFinite == Slot \subseteq Nat /\ IsFiniteSet(Slot) /\ IsFiniteSet(Active)
<1>1. IsFiniteSet(Slot) /\ Slot \subseteq Nat
  BY SubscriptionsAssumption, FS_Interval DEF Slot
<1>2. Active \subseteq Slot
  BY DEF Active
<1>. QED BY <1>1, <1>2, FS_Subset

(* A slot is in use when it has a topic.                                   *)
LEMMA SubIsNotFree ==
  ASSUME NEW r \in Sub
  PROVE  r # FreeSlot /\ r.topic \in Topic /\ r.topic # NoTopic
BY SubscriptionsAssumption DEF Sub, FreeSlot

LEMMA SlotOfIsActive ==
  ASSUME CacheInv, NEW t \in Topic
  PROVE  SlotOf(t) \subseteq Active /\ SlotOf(t) \subseteq Slot
BY SubscriptionsAssumption DEF CacheInv, SlotOf, Active, FreeSlot

(* noxmqtt_subscription_cache_add takes the slot of the topic or a free one. *)
LEMMA AddKeepsCache ==
  ASSUME CacheInv, NEW r \in Sub, HasRoom(r.topic), CacheAdd(r)
  PROVE  /\ subscriptions' \in [Slot -> Sub \cup {FreeSlot}]
         /\ subscriptions_count' = Cardinality(Active)'
         /\ \A s, u \in Active' : subscriptions'[s].topic = subscriptions'[u].topic => s = u
<1>1. Slot \subseteq Nat /\ IsFiniteSet(Active) /\ Active \subseteq Slot
  BY ActiveIsFinite DEF Active
<1>2. r # FreeSlot /\ r.topic \in Topic
  BY SubIsNotFree
<1>3. SlotOf(r.topic) \subseteq Active /\ SlotOf(r.topic) \subseteq Slot
  BY <1>2, SlotOfIsActive
<1>4. subscriptions \in [Slot -> Sub \cup {FreeSlot}]
  BY DEF CacheInv
<1>5. CASE SlotOf(r.topic) # {}
  <2>1. PICK s \in SlotOf(r.topic) : s = First(SlotOf(r.topic))
    <3>1. SlotOf(r.topic) \in SUBSET Nat
      BY <1>1, <1>3
    <3>. QED BY <1>5, <3>1, FirstIsMember
  <2>2. /\ subscriptions' = [subscriptions EXCEPT ![s] = r] /\ UNCHANGED subscriptions_count
        /\ s \in Active /\ s \in Slot /\ subscriptions[s].topic = r.topic
    BY <1>3, <1>5, <2>1 DEF CacheAdd, SlotOf
  <2>3. Active' = Active
    BY <1>2, <1>4, <2>2 DEF Active
  <2>4. \A u \in Active : subscriptions'[u].topic = subscriptions[u].topic
    BY <1>1, <1>4, <2>2
  <2>. QED BY <1>4, <2>2, <2>3, <2>4 DEF CacheInv
<1>6. CASE SlotOf(r.topic) = {}
  <2>1. PICK s \in Slot \ Active : s = First(Slot \ Active)
    <3>1. Slot \ Active # {} /\ Slot \ Active \in SUBSET Nat
      BY <1>1, <1>6 DEF HasRoom
    <3>. QED BY <3>1, FirstIsMember
  <2>2. /\ subscriptions' = [subscriptions EXCEPT ![s] = r]
        /\ subscriptions_count' = subscriptions_count + 1
    BY <1>6, <2>1 DEF CacheAdd
  <2>3. Active' = Active \cup {s}
    BY <1>2, <1>4, <2>1, <2>2 DEF Active
  <2>4. Cardinality(Active \cup {s}) = Cardinality(Active) + 1
    BY <1>1, <2>1, FS_AddElement
  <2>5. /\ subscriptions'[s] = r
        /\ \A u \in Active : u # s /\ subscriptions'[u] = subscriptions[u]
                             /\ subscriptions[u].topic # r.topic
    BY <1>1, <1>4, <1>6, <2>1, <2>2 DEF SlotOf
  <2>. QED BY <1>4, <2>2, <2>3, <2>4, <2>5 DEF CacheInv
<1>. QED BY <1>5, <1>6

(* noxmqtt_subscription_cache_remove frees the slot of the topic.          *)
LEMMA RemoveKeepsCache ==
  ASSUME CacheInv, NEW t \in Topic, CacheRemove(t)
  PROVE  /\ subscriptions' \in [Slot -> Sub \cup {FreeSlot}]
         /\ subscriptions_count' = Cardinality(Active)'
         /\ \A s, u \in Active' : subscriptions'[s].topic = subscriptions'[u].topic => s = u
<1>1. Slot \subseteq Nat /\ IsFiniteSet(Active) /\ Active \subseteq Slot
  BY ActiveIsFinite DEF Active
<1>2. SlotOf(t) \subseteq Active /\ SlotOf(t) \subseteq Slot
  BY SlotOfIsActive
<1>3. subscriptions \in [Slot -> Sub \cup {FreeSlot}]
  BY DEF CacheInv
<1>4. CASE SlotOf(t) # {}
  <2>1. PICK s \in SlotOf(t) : s = First(SlotOf(t))
    <3>1. SlotOf(t) \in SUBSET Nat
      BY <1>1, <1>2
    <3>. QED BY <1>4, <3>1, FirstIsMember
  <2>2. /\ subscriptions' = [subscriptions EXCEPT ![s] = FreeSlot]
        /\ subscriptions_count' = subscriptions_count - 1
        /\ s \in Active /\ s \in Slot
    BY <1>2, <1>4, <2>1 DEF CacheRemove
  <2>3. Active' = Active \ {s}
    BY <1>3, <2>2 DEF Active
  <2>4. Cardinality(Active \ {s}) = Cardinality(Active) - 1
    BY <1>1, <2>2, FS_RemoveElement
  <2>5. \A u \in Active \ {s} : subscriptions'[u] = subscriptions[u]
    BY <1>1, <1>3, <2>2
  <2>. QED BY <1>3, <2>2, <2>3, <2>4, <2>5 DEF CacheInv
<1>5. CASE SlotOf(t) = {}
  <2>1. UNCHANGED <<subscriptions, subscriptions_count>>
    BY <1>5 DEF CacheRemove
  <2>. QED BY <2>1 DEF CacheInv, Active
<1>. QED BY <1>4, <1>5

-----------------------------------------------------------------------------
(* The steps                                                               *)

LEMMA NoCallType == NoCall \in Calls /\ \A r \in Sub :
        [op |-> "SUBSCRIBE", rest |-> <<r>>, encoded |-> <<>>] \in Calls
BY DEF NoCall, Calls

(* A step that leaves the cache alone, and puts a call or slots in the
   place of others.                                                        *)
LEMMA CacheFrame ==
  ASSUME CacheInv, UNCHANGED <<subscriptions, subscriptions_count>>, call' \in Calls,
         todo' \subseteq Slot
  PROVE  CacheInv'
BY DEF CacheInv, Active

LEMMA FailsFrame ==
  ASSUME CacheInv, NEW changed, Fails(changed)
  PROVE  call' \in Calls /\ todo' \subseteq Slot
BY NoCallType DEF Fails, CacheInv

LEMMA EncodeKeepsCache ==
  ASSUME CacheInv, NEW fits \in BOOLEAN, EncodeTopic(fits)
  PROVE  CacheInv'
<1>1. call \in Calls /\ call.rest \in Seq(Sub) /\ call.rest # <<>> /\ call.encoded \in Seq(Sub)
  BY DEF CacheInv, Calls, EncodeTopic
<1>2. PICK r \in Sub : r = Head(call.rest)
  BY <1>1
<1>3. r.topic \in Topic
  BY SubIsNotFree
<1>4. /\ subscriptions' \in [Slot -> Sub \cup {FreeSlot}]
      /\ subscriptions_count' = Cardinality(Active)'
      /\ \A s, u \in Active' : subscriptions'[s].topic = subscriptions'[u].topic => s = u
  <2>1. CASE call.op = "SUBSCRIBE"
    BY <1>2, <2>1, AddKeepsCache DEF EncodeTopic
  <2>2. CASE call.op # "SUBSCRIBE"
    BY <1>2, <1>3, <2>2, RemoveKeepsCache DEF EncodeTopic
  <2>. QED BY <2>1, <2>2
<1>5. call' \in Calls /\ todo' \subseteq Slot
  <2>1. CASE fits
    <3>1. call' = [call EXCEPT !.rest = Tail(call.rest), !.encoded = Append(call.encoded, r)]
          /\ todo' = todo
      BY <1>2, <2>1 DEF EncodeTopic
    <3>2. Tail(call.rest) \in Seq(Sub) /\ Append(call.encoded, r) \in Seq(Sub)
      BY <1>1
    <3>. QED BY <1>1, <3>1, <3>2 DEF Calls, CacheInv
  <2>2. CASE ~fits
    <3>1. Fails(Encoded \cup {r})
      BY <1>2, <2>2 DEF EncodeTopic
    <3>. QED BY <3>1, FailsFrame
  <2>. QED BY <2>1, <2>2
<1>. QED BY <1>4, <1>5 DEF CacheInv

LEMMA ResubscribeKeepsCache ==
  ASSUME CacheInv, Resubscribe
  PROVE  CacheInv'
<1>1. todo # {} /\ todo \subseteq Slot /\ UNCHANGED <<subscriptions, subscriptions_count>>
  BY DEF Resubscribe, CacheInv
<1>2. PICK s \in todo : s = First(todo)
  <2>1. todo \in SUBSET Nat
    BY <1>1, ActiveIsFinite
  <2>. QED BY <1>1, <2>1, FirstIsMember
<1>3. CASE s \in Active => Allowed(subscriptions[s])
  <2>1. todo' = todo \ {s}
    BY <1>2, <1>3 DEF Resubscribe
  <2>2. call' = IF s \in Active
                THEN [op |-> "SUBSCRIBE", rest |-> <<subscriptions[s]>>, encoded |-> <<>>]
                ELSE NoCall
    BY <1>2, <1>3 DEF Resubscribe
  <2>3. s \in Active => subscriptions[s] \in Sub
    BY <1>1, <1>2 DEF Active, CacheInv
  <2>4. call' \in Calls
    BY <2>2, <2>3, NoCallType
  <2>. QED BY <1>1, <2>1, <2>4, CacheFrame
<1>4. CASE ~(s \in Active => Allowed(subscriptions[s]))
  <2>1. Fails({subscriptions[s]})
    BY <1>2, <1>4 DEF Resubscribe
  <2>. QED BY <1>1, <2>1, FailsFrame, CacheFrame
<1>. QED BY <1>3, <1>4

LEMMA CallsKeepCache ==
  ASSUME CacheInv,
         \/ \E rs \in Requests : Subscribe(rs) \/ Unsubscribe(rs)
         \/ CacheFull \/ \E fits \in BOOLEAN : SendCall(fits)
  PROVE  CacheInv'
<1>1. call \in Calls /\ todo \subseteq Slot
  BY DEF CacheInv
<1>2. ASSUME NEW rs \in Requests, Subscribe(rs) \/ Unsubscribe(rs) PROVE CacheInv'
  <2>1. rs \in Seq(Sub)
    BY SubscriptionsAssumption DEF Sub
  <2>2. PICK op \in {"SUBSCRIBE", "UNSUBSCRIBE"} :
          /\ call' = [op |-> op, rest |-> rs, encoded |-> <<>>]
          /\ UNCHANGED <<subscriptions, subscriptions_count, todo>>
    BY <1>2 DEF Subscribe, Unsubscribe
  <2>3. call' \in Calls
    BY <2>1, <2>2 DEF Calls
  <2>. QED BY <1>1, <2>2, <2>3, CacheFrame
<1>3. CASE CacheFull
  BY <1>3, FailsFrame, CacheFrame DEF CacheFull
<1>4. ASSUME NEW fits \in BOOLEAN, SendCall(fits) PROVE CacheInv'
  <2>1. CASE Written(fits)
    <3>1. call' = NoCall /\ UNCHANGED <<subscriptions, subscriptions_count, todo>>
      BY <1>4, <2>1 DEF SendCall
    <3>. QED BY <1>1, <3>1, NoCallType, CacheFrame
  <2>2. CASE ~Written(fits)
    <3>1. Fails(Encoded) /\ UNCHANGED <<subscriptions, subscriptions_count>>
      BY <1>4, <2>2 DEF SendCall
    <3>. QED BY <3>1, FailsFrame, CacheFrame
  <2>. QED BY <2>1, <2>2
<1>. QED BY <1>2, <1>3, <1>4

LEMMA OthersKeepCache ==
  ASSUME CacheInv,
         \/ Connect \/ Disconnect \/ Break
         \/ \E o \in Offers, session_present \in BOOLEAN : RecvConnack(o, session_present)
         \/ Resume \/ ResubscribeReturn \/ RecvSuback \/ RecvUnsuback
         \/ \E refused \in SUBSET Topic : BrokerSubscribes(refused)
         \/ BrokerUnsubscribes \/ UNCHANGED vars
  PROVE  CacheInv'
<1>1. UNCHANGED <<subscriptions, subscriptions_count, call>>
  BY DEF Connect, Disconnect, Break, RecvConnack, Resume, ResubscribeReturn, RecvSuback,
         RecvUnsuback, BrokerSubscribes, BrokerUnsubscribes, vars, subVars
<1>2. todo' \subseteq Slot
  BY DEF Connect, Disconnect, Break, RecvConnack, Resume, ResubscribeReturn, RecvSuback,
         RecvUnsuback, BrokerSubscribes, BrokerUnsubscribes, vars, subVars, CacheInv,
         ToResubscribe, SlotsToLookAt
<1>. QED BY <1>1, <1>2, CacheFrame DEF CacheInv

LEMMA CacheInvHolds == Spec => []CacheInv
<1>1. Init => CacheInv
  <2> SUFFICES ASSUME Init PROVE CacheInv
    OBVIOUS
  <2>1. /\ subscriptions = [s \in Slot |-> FreeSlot] /\ subscriptions_count = 0
        /\ call = NoCall /\ todo = {}
    BY DEF Init
  <2>2. Active = {}
    BY <2>1 DEF Active
  <2>. QED BY <2>1, <2>2, NoCallType, FS_EmptySet DEF CacheInv
<1>2. CacheInv /\ [Next]_vars => CacheInv'
  BY EncodeKeepsCache, ResubscribeKeepsCache, CallsKeepCache, OthersKeepCache DEF Next
<1>. QED BY <1>1, <1>2, PTL DEF Spec

-----------------------------------------------------------------------------
(* The theorem                                                             *)

(* However noxmqtt_subscribe, noxmqtt_unsubscribe and noxmqtt_resubscribe_all
   end, no topic has two slots and subscriptions_count counts the slots in
   use.                                                                    *)
THEOREM CacheStaysConsistent == Spec => []CacheConsistent
<1>1. CacheInv => CacheConsistent
  BY DEF CacheInv, CacheConsistent
<1>. QED BY <1>1, CacheInvHolds, PTL

-----------------------------------------------------------------------------
(* The broker and the cache                                                *)

(* The packets under way.                                                  *)
CallPacket == [type : {"SUBSCRIBE", "UNSUBSCRIBE"}, subs : SUBSET Sub]
AnswerPacket == [type : {"SUBACK", "UNSUBACK"}, topics : SUBSET Topic]

PacketTypes ==
  /\ toBroker \in Seq(CallPacket) /\ toClient \in Seq(AnswerPacket)
  /\ granted \subseteq Sub

(* When a call can be under way, and what resubscribe_all's is about.      *)
CallInv ==
  /\ ~connected => handler = "idle" /\ call = NoCall /\ toBroker = <<>>
  /\ link \in {"down", "connecting"} => ~connected
  /\ handler = "idle" => todo = {}
  /\ call.op = "none" => call = NoCall
  /\ handler = "resubscribe" => /\ call.op # "UNSUBSCRIBE" /\ Len(call.rest) <= 1
                                /\ Pending \cup Encoded \subseteq Cached

(* The subscriptions of S for topic t; what packet p makes of t.           *)
For(S, t) == {r \in S : r.topic = t}
SaysOf(p, t) == IF p.type = "SUBSCRIBE" THEN For(p.subs, t) ELSE {}

(* The call under way has each topic once, and the cache says of those it
   has come to what the packet will say.                                   *)
EncodedInv ==
  /\ \A i, j \in DOMAIN call.rest : call.rest[i].topic = call.rest[j].topic => i = j
  /\ \A i \in DOMAIN call.rest : call.rest[i].topic \notin Topics(Encoded)
  /\ \A t \in Topics(Encoded) :
       For(Cached, t) = SaysOf([type |-> call.op, subs |-> Encoded], t)

(* Topics noxmqtt_resubscribe_all is about to subscribe to again.          *)
Ahead ==
  {subscriptions[s].topic : s \in todo \cap Active}
    \cup (IF handler = "resubscribe" THEN Topics(Pending) ELSE {})

(* InStep at any moment: but for the topics a call has changed and not yet
   sent, and those resubscribe_all has yet to come to.                     *)
BrokerInStep ==
  \A t \in Topic \ (astray \cup Topics(Encoded) \cup Ahead) : WillHold(t) = For(Cached, t)

StepInv == PacketTypes /\ CallInv /\ EncodedInv /\ BrokerInStep

(* The last answer under way about t is the i-th.                          *)
LastAnswer(i, t) ==
  /\ i \in DOMAIN toClient /\ t \in toClient[i].topics
  /\ \A j \in DOMAIN toClient : j > i => t \notin toClient[j].topics

(* Nothing that could subscribe a confirmed topic is left.                 *)
StaysInv ==
  /\ Topics(Cached) \subseteq wanted /\ confirmed \cap wanted = {}
  /\ call.op = "SUBSCRIBE" => confirmed \cap Topics(Pending \cup Encoded) = {}
  /\ \A i \in DOMAIN toBroker :
       toBroker[i].type = "SUBSCRIBE" => confirmed \cap Topics(toBroker[i].subs) = {}
  /\ confirmed \cap Topics(granted) = {}
  /\ \A i \in DOMAIN toClient, t \in Topic :
       LastAnswer(i, t) /\ toClient[i].type = "UNSUBACK" => t \notin Topics(granted)

(* WillHold of any queue q and any granted subscriptions g.                *)
MentionsIn(q, t) == {i \in DOMAIN q : q[i].type \in {"SUBSCRIBE", "UNSUBSCRIBE"}
                                        /\ t \in Topics(q[i].subs)}
HoldsAfter(q, g, t) ==
  LET last == CHOOSE i \in MentionsIn(q, t) : \A j \in MentionsIn(q, t) : j <= i
      subs == IF MentionsIn(q, t) = {} THEN g
              ELSE IF q[last].type = "SUBSCRIBE" THEN q[last].subs
              ELSE {} IN
  {r \in subs : r.topic = t}

LEMMA WillHoldIs ==
  ASSUME NEW t
  PROVE  /\ WillHold(t) = HoldsAfter(toBroker, granted, t)
         /\ WillHold(t)' = HoldsAfter(toBroker', granted', t)
         /\ Mentions(t) = MentionsIn(toBroker, t)
BY DEF WillHold, HoldsAfter, Mentions, MentionsIn

(* A topic that is mentioned is mentioned last somewhere.                  *)
LEMMA LastMentionExists ==
  ASSUME NEW q \in Seq(CallPacket), NEW t, MentionsIn(q, t) # {}
  PROVE  \E i \in MentionsIn(q, t) : \A j \in MentionsIn(q, t) : j <= i
<1> DEFINE n == Len(q)
           S == {n - i : i \in MentionsIn(q, t)}
<1>1. n \in Nat /\ MentionsIn(q, t) \subseteq 1..n
  BY DEF MentionsIn
<1>2. S \in SUBSET Nat /\ S # {}
  BY <1>1
<1>3. PICK x \in S : \A y \in S : ~(<<y, x>> \in OpToRel(<, Nat))
  <2> HIDE DEF S
  <2>. QED BY <1>2, NatLessThanWellFounded, WFMin
<1>4. PICK i \in MentionsIn(q, t) : x = n - i
  BY <1>3
<1>5. ASSUME NEW j \in MentionsIn(q, t) PROVE j <= i
  <2>1. n - j \in S /\ n - j \in Nat /\ x \in Nat
    BY <1>2, <1>3
  <2>2. ~(n - j < x)
    <3> HIDE DEF S, n
    <3>. QED BY <1>3, <2>1 DEF OpToRel
  <2>. QED BY <1>1, <1>4, <2>2
<1>. QED BY <1>5

LEMMA HoldsNone ==
  ASSUME NEW q, NEW g, NEW t, MentionsIn(q, t) = {}
  PROVE  HoldsAfter(q, g, t) = For(g, t)
BY DEF HoldsAfter, For

LEMMA HoldsLast ==
  ASSUME NEW q \in Seq(CallPacket), NEW g, NEW t, NEW i \in MentionsIn(q, t),
         \A j \in MentionsIn(q, t) : j <= i
  PROVE  HoldsAfter(q, g, t) = SaysOf(q[i], t)
<1>1. MentionsIn(q, t) \subseteq Nat
  BY DEF MentionsIn
<1>2. (CHOOSE k \in MentionsIn(q, t) : \A j \in MentionsIn(q, t) : j <= k) = i
  BY <1>1
<1>. QED BY <1>2 DEF HoldsAfter, SaysOf, For

LEMMA HoldsAppend ==
  ASSUME NEW q \in Seq(CallPacket), NEW p \in CallPacket, NEW g, NEW t
  PROVE  HoldsAfter(Append(q, p), g, t) =
           IF t \in Topics(p.subs) THEN SaysOf(p, t) ELSE HoldsAfter(q, g, t)
<1> DEFINE q2 == Append(q, p)
           n == Len(q)
<1>1. /\ q2 \in Seq(CallPacket) /\ n \in Nat /\ DOMAIN q2 = 1..(n + 1) /\ DOMAIN q = 1..n
      /\ q2[n + 1] = p /\ \A i \in 1..n : q2[i] = q[i]
  OBVIOUS
<1>2. p.type \in {"SUBSCRIBE", "UNSUBSCRIBE"}
  BY DEF CallPacket
<1> HIDE DEF q2, n
<1>3. CASE t \in Topics(p.subs)
  <2>1. n + 1 \in MentionsIn(q2, t) /\ \A j \in MentionsIn(q2, t) : j <= n + 1
    BY <1>1, <1>2, <1>3 DEF MentionsIn
  <2>. QED BY <1>1, <1>3, <2>1, HoldsLast DEF q2
<1>4. CASE t \notin Topics(p.subs)
  <2>1. MentionsIn(q2, t) = MentionsIn(q, t)
    BY <1>1, <1>4 DEF MentionsIn
  <2>2. CASE MentionsIn(q, t) = {}
    BY <1>4, <2>1, <2>2, HoldsNone DEF q2
  <2>3. CASE MentionsIn(q, t) # {}
    <3>1. PICK i \in MentionsIn(q, t) : \A j \in MentionsIn(q, t) : j <= i
      BY <2>3, LastMentionExists
    <3>2. HoldsAfter(q2, g, t) = SaysOf(q2[i], t) /\ HoldsAfter(q, g, t) = SaysOf(q[i], t)
      BY <1>1, <2>1, <3>1, HoldsLast
    <3>3. q2[i] = q[i]
      BY <1>1 DEF MentionsIn
    <3>. QED BY <1>4, <3>2, <3>3 DEF q2
  <2>. QED BY <2>2, <2>3
<1>. QED BY <1>3, <1>4

(* The broker reads the first packet of q and grants what it says.         *)
LEMMA HoldsTail ==
  ASSUME NEW q \in Seq(CallPacket), q # <<>>, NEW g, NEW h, NEW t,
         For(h, t) = IF t \in Topics(Head(q).subs) THEN SaysOf(Head(q), t) ELSE For(g, t)
  PROVE  HoldsAfter(Tail(q), h, t) = HoldsAfter(q, g, t)
<1> DEFINE q2 == Tail(q)
           n == Len(q)
<1>1. /\ q2 \in Seq(CallPacket) /\ n \in Nat /\ n > 0 /\ DOMAIN q = 1..n /\ DOMAIN q2 = 1..(n - 1)
      /\ Head(q) = q[1] /\ \A i \in 1..(n - 1) : q2[i] = q[i + 1]
  OBVIOUS
<1>2. Head(q).type \in {"SUBSCRIBE", "UNSUBSCRIBE"}
  <2>1. Head(q) \in CallPacket
    OBVIOUS
  <2>. QED BY <2>1 DEF CallPacket
<1> HIDE DEF q2, n
<1>3. \A i \in 1..(n - 1) : i \in MentionsIn(q2, t) <=> i + 1 \in MentionsIn(q, t)
  BY <1>1 DEF MentionsIn
<1>4. MentionsIn(q, t) \subseteq 1..n /\ MentionsIn(q2, t) \subseteq 1..(n - 1)
  BY <1>1 DEF MentionsIn
<1>5. CASE MentionsIn(q2, t) = {}
  <2>1. HoldsAfter(q2, h, t) = For(h, t)
    BY <1>5, HoldsNone
  <2>2. CASE t \in Topics(Head(q).subs)
    <3>1. 1 \in MentionsIn(q, t) /\ \A j \in MentionsIn(q, t) : j <= 1
      <4>1. 1 \in MentionsIn(q, t)
        BY <1>1, <1>2, <2>2 DEF MentionsIn
      <4>2. ASSUME NEW j \in MentionsIn(q, t), ~(j <= 1) PROVE FALSE
        <5>1. j - 1 \in 1..(n - 1) /\ (j - 1) + 1 = j
          BY <1>1, <1>4, <4>2
        <5>. QED BY <1>3, <1>5, <5>1
      <4>. QED BY <4>1, <4>2
    <3>. QED BY <1>1, <2>1, <2>2, <3>1, HoldsLast DEF q2
  <2>3. CASE t \notin Topics(Head(q).subs)
    <3>1. MentionsIn(q, t) = {}
      <4>1. ASSUME NEW j \in MentionsIn(q, t) PROVE FALSE
        <5>1. CASE j = 1
          BY <1>1, <2>3, <5>1 DEF MentionsIn
        <5>2. CASE j # 1
          <6>1. j - 1 \in 1..(n - 1) /\ (j - 1) + 1 = j
            BY <1>1, <1>4, <5>2
          <6>. QED BY <1>3, <1>5, <6>1
        <5>. QED BY <5>1, <5>2
      <4>. QED BY <4>1
    <3>. QED BY <2>1, <2>3, <3>1, HoldsNone DEF q2
  <2>. QED BY <2>2, <2>3
<1>6. CASE MentionsIn(q2, t) # {}
  <2>1. PICK i \in MentionsIn(q2, t) : \A j \in MentionsIn(q2, t) : j <= i
    BY <1>1, <1>6, LastMentionExists
  <2>2. i \in 1..(n - 1) /\ i + 1 \in MentionsIn(q, t)
    BY <1>3, <1>4
  <2>3. ASSUME NEW j \in MentionsIn(q, t), ~(j <= i + 1) PROVE FALSE
    <3>1. j - 1 \in 1..(n - 1) /\ (j - 1) + 1 = j
      BY <1>1, <1>4, <2>2, <2>3
    <3>2. j - 1 <= i
      BY <1>3, <2>1, <3>1
    <3>. QED BY <2>2, <2>3, <3>1, <3>2
  <2>4. HoldsAfter(q, g, t) = SaysOf(q[i + 1], t)
    BY <2>2, <2>3, HoldsLast
  <2>5. HoldsAfter(q2, h, t) = SaysOf(q2[i], t)
    BY <1>1, <2>1, HoldsLast
  <2>. QED BY <1>1, <2>2, <2>4, <2>5 DEF q2
<1>. QED BY <1>5, <1>6

(* A sequence's elements: the first and the rest; the appended one.        *)
LEMMA ToSetHead ==
  ASSUME NEW S, NEW q \in Seq(S), q # <<>>
  PROVE  ToSet(q) = {Head(q)} \cup ToSet(Tail(q))
<1> DEFINE n == Len(q)
<1>1. /\ n \in Nat /\ n > 0 /\ DOMAIN q = 1..n /\ DOMAIN Tail(q) = 1..(n - 1)
      /\ Head(q) = q[1] /\ \A i \in 1..(n - 1) : Tail(q)[i] = q[i + 1]
  OBVIOUS
<1> HIDE DEF n
<1>2. ASSUME NEW i \in 1..n, i # 1 PROVE q[i] \in ToSet(Tail(q))
  <2>1. i - 1 \in 1..(n - 1) /\ (i - 1) + 1 = i
    BY <1>1, <1>2
  <2>. QED BY <1>1, <2>1 DEF ToSet
<1>3. ASSUME NEW i \in 1..(n - 1) PROVE Tail(q)[i] \in ToSet(q)
  <2>1. i + 1 \in 1..n
    BY <1>1
  <2>. QED BY <1>1, <2>1 DEF ToSet
<1>4. 1 \in DOMAIN q
  BY <1>1
<1>. QED BY <1>1, <1>2, <1>3, <1>4 DEF ToSet

LEMMA ToSetAppend ==
  ASSUME NEW S, NEW q \in Seq(S), NEW e
  PROVE  ToSet(Append(q, e)) = ToSet(q) \cup {e}
<1>1. /\ Len(q) \in Nat /\ DOMAIN q = 1..Len(q) /\ DOMAIN Append(q, e) = 1..(Len(q) + 1)
      /\ Append(q, e)[Len(q) + 1] = e /\ \A i \in 1..Len(q) : Append(q, e)[i] = q[i]
  OBVIOUS
<1>. QED BY <1>1 DEF ToSet

LEMMA NoCallSays ==
  /\ call = NoCall => Pending = {} /\ Encoded = {} /\ call.op = "none"
                      /\ call.rest = <<>> /\ call.encoded = <<>>
  /\ call' = NoCall => Pending' = {} /\ Encoded' = {} /\ call'.op = "none"
                       /\ call'.rest = <<>> /\ call'.encoded = <<>>
  /\ Topics({}) = {}
BY DEF NoCall, Pending, Encoded, ToSet, Topics

LEMMA PendingTypes ==
  ASSUME CacheInv
  PROVE  /\ call.op \in {"none", "SUBSCRIBE", "UNSUBSCRIBE"}
         /\ call.rest \in Seq(Sub) /\ call.encoded \in Seq(Sub)
         /\ Pending \subseteq Sub /\ Encoded \subseteq Sub
<1>1. /\ call.op \in {"none", "SUBSCRIBE", "UNSUBSCRIBE"}
      /\ call.rest \in Seq(Sub) /\ call.encoded \in Seq(Sub)
  BY DEF CacheInv, Calls
<1>2. \A q \in Seq(Sub) : ToSet(q) \subseteq Sub
  BY DEF ToSet
<1>. QED BY <1>1, <1>2 DEF Pending, Encoded

(* What noxmqtt_subscription_cache_add does to the slots, and so to what
   the cache says of each topic.                                           *)
LEMMA AddSays ==
  ASSUME CacheInv, NEW r \in Sub, HasRoom(r.topic), CacheAdd(r)
  PROVE  /\ For(Cached, r.topic)' = {r}
         /\ \A t \in Topic \ {r.topic} : For(Cached, t)' = For(Cached, t)
         /\ \A s \in Active : s \in Active' /\ (subscriptions'[s] = subscriptions[s]
                                                 \/ subscriptions[s].topic = r.topic)
         /\ Cached' \subseteq Cached \cup {r}
         /\ r \in Cached => subscriptions' = subscriptions
<1>1. Slot \subseteq Nat /\ Active \subseteq Slot /\ subscriptions \in [Slot -> Sub \cup {FreeSlot}]
  BY ActiveIsFinite DEF Active, CacheInv
<1>2. r # FreeSlot /\ r.topic \in Topic
  BY SubIsNotFree
<1>3. \A s, u \in Active : subscriptions[s].topic = subscriptions[u].topic => s = u
  BY DEF CacheInv
<1>4. PICK s \in Slot : /\ subscriptions' = [subscriptions EXCEPT ![s] = r]
                        /\ s \in Active => subscriptions[s].topic = r.topic
                        /\ \A u \in Active : subscriptions[u].topic = r.topic => u = s
  <2>1. CASE SlotOf(r.topic) # {}
    <3>1. SlotOf(r.topic) \subseteq Active /\ SlotOf(r.topic) \in SUBSET Nat
      BY <1>1, <1>2, SlotOfIsActive
    <3>2. PICK s \in SlotOf(r.topic) : s = First(SlotOf(r.topic))
      BY <2>1, <3>1, FirstIsMember
    <3>3. s \in Active /\ subscriptions[s].topic = r.topic
          /\ subscriptions' = [subscriptions EXCEPT ![s] = r]
      BY <2>1, <3>1, <3>2 DEF CacheAdd, SlotOf
    <3>. QED BY <1>1, <1>3, <3>3
  <2>2. CASE SlotOf(r.topic) = {}
    <3>1. Slot \ Active # {} /\ Slot \ Active \in SUBSET Nat
      BY <1>1, <2>2 DEF HasRoom
    <3>2. PICK s \in Slot \ Active : s = First(Slot \ Active)
      BY <3>1, FirstIsMember
    <3>3. subscriptions' = [subscriptions EXCEPT ![s] = r]
      BY <2>2, <3>2 DEF CacheAdd
    <3>4. \A u \in Active : subscriptions[u].topic # r.topic
      BY <1>1, <2>2 DEF SlotOf
    <3>. QED BY <3>2, <3>3, <3>4
  <2>. QED BY <2>1, <2>2
<1>5. /\ subscriptions'[s] = r /\ \A u \in Slot \ {s} : subscriptions'[u] = subscriptions[u]
      /\ Active' = Active \cup {s}
  BY <1>1, <1>2, <1>4 DEF Active
<1>6. Cached' = {subscriptions[u] : u \in Active \ {s}} \cup {r}
  BY <1>1, <1>5 DEF Cached
<1>7. Cached = {subscriptions[u] : u \in Active \ {s}}
                 \cup (IF s \in Active THEN {subscriptions[s]} ELSE {})
  BY DEF Cached
<1>8. For(Cached, r.topic)' = {r}
  BY <1>4, <1>6 DEF For
<1>9. \A t \in Topic \ {r.topic} : For(Cached, t)' = For(Cached, t)
  BY <1>4, <1>6, <1>7 DEF For
<1>10. ASSUME r \in Cached PROVE subscriptions' = subscriptions
  <2>1. s \in Active /\ subscriptions[s] = r
    BY <1>4, <1>10 DEF Cached
  <2>. QED BY <1>1, <1>4, <2>1
<1>11. Cached' \subseteq Cached \cup {r}
  BY <1>6, <1>7
<1>12. \A u \in Active : u \in Active' /\ (subscriptions'[u] = subscriptions[u]
                                            \/ subscriptions[u].topic = r.topic)
  BY <1>1, <1>4, <1>5
<1>. QED BY <1>8, <1>9, <1>10, <1>11, <1>12

(* The same for noxmqtt_subscription_cache_remove.                         *)
LEMMA RemoveSays ==
  ASSUME CacheInv, NEW t \in Topic, CacheRemove(t)
  PROVE  /\ For(Cached, t)' = {}
         /\ \A u \in Topic \ {t} : For(Cached, u)' = For(Cached, u)
         /\ \A s \in Active : subscriptions[s].topic # t
                                => s \in Active' /\ subscriptions'[s] = subscriptions[s]
         /\ Cached' \subseteq Cached
<1>1. Slot \subseteq Nat /\ Active \subseteq Slot /\ subscriptions \in [Slot -> Sub \cup {FreeSlot}]
  BY ActiveIsFinite DEF Active, CacheInv
<1>2. \A s, u \in Active : subscriptions[s].topic = subscriptions[u].topic => s = u
  BY DEF CacheInv
<1>3. CASE SlotOf(t) # {}
  <2>1. SlotOf(t) \subseteq Active /\ SlotOf(t) \in SUBSET Nat
    BY <1>1, SlotOfIsActive
  <2>2. PICK s \in SlotOf(t) : s = First(SlotOf(t))
    BY <1>3, <2>1, FirstIsMember
  <2>3. s \in Active /\ subscriptions[s].topic = t
        /\ subscriptions' = [subscriptions EXCEPT ![s] = FreeSlot]
    BY <1>3, <2>1, <2>2 DEF CacheRemove, SlotOf
  <2>4. \A u \in Active \ {s} : subscriptions[u].topic # t
    BY <1>2, <2>3
  <2>5. Active' = Active \ {s} /\ \A u \in Active \ {s} : subscriptions'[u] = subscriptions[u]
    BY <1>1, <2>3 DEF Active
  <2>6. Cached' = {subscriptions[u] : u \in Active \ {s}}
        /\ Cached = {subscriptions[u] : u \in Active \ {s}} \cup {subscriptions[s]}
    BY <2>3, <2>5 DEF Cached
  <2>7. For(Cached, t)' = {} /\ \A u \in Topic \ {t} : For(Cached, u)' = For(Cached, u)
    BY <2>3, <2>4, <2>6 DEF For
  <2>. QED BY <2>3, <2>5, <2>6, <2>7
<1>4. CASE SlotOf(t) = {}
  <2>1. UNCHANGED subscriptions
    BY <1>4 DEF CacheRemove
  <2>2. Active' = Active /\ Cached' = Cached
    BY <2>1 DEF Active, Cached
  <2>3. \A s \in Active : subscriptions[s].topic # t
    BY <1>1, <1>4 DEF SlotOf
  <2>4. For(Cached, t) = {}
    BY <2>3 DEF For, Cached
  <2>5. \A u : For(Cached, u)' = For(Cached, u)
    BY <2>2 DEF For
  <2>. QED BY <2>1, <2>2, <2>3, <2>4, <2>5
<1>. QED BY <1>3, <1>4

(* A call that returns an error: what it has changed goes astray, and what
   resubscribe_all was still to subscribe to.                              *)
LEMMA FailsKeepsStep ==
  ASSUME CacheInv, StepInv, NEW changed, Fails(changed), connected,
         UNCHANGED <<connected, link, toBroker, granted>>,
         Topics(Encoded) \subseteq Topics(changed),
         handler = "resubscribe" => Topics(Pending) \subseteq Topics(changed),
         \A t \in Topic \ Topics(changed) : For(Cached, t)' = For(Cached, t),
         \A s \in todo \cap Active : \/ s \in Active' /\ subscriptions'[s] = subscriptions[s]
                                     \/ subscriptions[s].topic \in Topics(changed)
  PROVE  CallInv' /\ EncodedInv' /\ BrokerInStep'
<1>1. call' = NoCall /\ Pending' = {} /\ Encoded' = {} /\ call'.op = "none" /\ call'.rest = <<>>
      /\ Topics({}) = {}
  BY NoCallSays DEF Fails
<1>2. CallInv'
  BY <1>1 DEF Fails, StepInv, CallInv
<1>3. EncodedInv'
  <2>1. Topics(Encoded') = {} /\ DOMAIN call'.rest = {}
    BY <1>1
  <2>. QED BY <2>1 DEF EncodedInv
<1>4. ASSUME NEW t \in Topic, t \notin (astray \cup Topics(Encoded) \cup Ahead)'
      PROVE  WillHold(t)' = For(Cached, t)'
  <2>1. t \notin astray /\ t \notin Topics(changed)
    BY <1>4 DEF Fails
  <2>2. t \notin Topics(Encoded) /\ t \notin Ahead
    <3>1. CASE handler = "resubscribe"
      BY <1>4, <2>1, <3>1 DEF Fails, Ahead
    <3>2. CASE handler # "resubscribe"
      <4>1. todo' = todo
        BY <3>2 DEF Fails
      <4>2. t \notin {subscriptions[s].topic : s \in todo \cap Active}
        BY <1>4, <2>1, <4>1 DEF Ahead
      <4>. QED BY <2>1, <3>2, <4>2 DEF Ahead
    <3>. QED BY <3>1, <3>2
  <2>3. WillHold(t) = For(Cached, t)
    BY <2>1, <2>2 DEF StepInv, BrokerInStep
  <2>4. WillHold(t)' = WillHold(t)
    BY WillHoldIs
  <2>. QED BY <2>1, <2>3, <2>4
<1>. QED BY <1>2, <1>3, <1>4 DEF BrokerInStep

LEMMA EncodeKeepsStep ==
  ASSUME CacheInv, StepInv, NEW fits \in BOOLEAN, EncodeTopic(fits)
  PROVE  StepInv'
<1>1. /\ call.op \in {"none", "SUBSCRIBE", "UNSUBSCRIBE"} /\ call.rest \in Seq(Sub)
      /\ call.encoded \in Seq(Sub) /\ call.rest # <<>> /\ Pending \subseteq Sub
  BY PendingTypes DEF EncodeTopic
<1>2. PICK r \in Sub : r = Head(call.rest)
  BY <1>1
<1>3. r.topic \in Topic /\ Pending = {r} \cup ToSet(Tail(call.rest))
  BY <1>1, <1>2, SubIsNotFree, ToSetHead DEF Pending
<1>4. call # NoCall /\ call.op # "none" /\ connected
  BY <1>1, NoCallSays DEF StepInv, CallInv
<1>5. UNCHANGED <<connected, link, toBroker, toClient, granted>>
  BY DEF EncodeTopic, network
<1>6. /\ For(Cached, r.topic)' = SaysOf([type |-> call.op, subs |-> {r}], r.topic)
      /\ \A t \in Topic \ {r.topic} : For(Cached, t)' = For(Cached, t)
      /\ \A s \in Active : \/ s \in Active' /\ subscriptions'[s] = subscriptions[s]
                           \/ subscriptions[s].topic = r.topic
      /\ handler = "resubscribe" => Cached' = Cached
  <2>1. CASE call.op = "SUBSCRIBE"
    <3>1. HasRoom(r.topic) /\ CacheAdd(r)
      BY <1>2, <2>1 DEF EncodeTopic
    <3>2. SaysOf([type |-> call.op, subs |-> {r}], r.topic) = {r}
      BY <2>1 DEF SaysOf, For
    <3>3. handler = "resubscribe" => r \in Cached
      BY <1>3 DEF StepInv, CallInv
    <3>4. subscriptions' = subscriptions => Cached' = Cached
      BY DEF Cached, Active
    <3>. QED BY <3>1, <3>2, <3>3, <3>4, AddSays
  <2>2. CASE call.op = "UNSUBSCRIBE"
    <3>1. CacheRemove(r.topic)
      BY <1>2, <2>2 DEF EncodeTopic
    <3>2. SaysOf([type |-> call.op, subs |-> {r}], r.topic) = {}
      BY <2>2 DEF SaysOf, For
    <3>3. handler # "resubscribe"
      BY <2>2 DEF StepInv, CallInv
    <3>. QED BY <1>3, <3>1, <3>2, <3>3, RemoveSays
  <2>. QED BY <1>1, <1>4, <2>1, <2>2
<1>7. CASE fits
  <2>1. /\ call' = [call EXCEPT !.rest = Tail(call.rest), !.encoded = Append(call.encoded, r)]
        /\ UNCHANGED <<handler, todo, astray>>
    BY <1>2, <1>7 DEF EncodeTopic
  <2>2. call'.rest = Tail(call.rest) /\ call'.encoded = Append(call.encoded, r) /\ call'.op = call.op
    BY <2>1 DEF CacheInv, Calls
  <2>3. Pending' = ToSet(Tail(call.rest)) /\ Encoded' = Encoded \cup {r}
    BY <1>1, <2>2, ToSetAppend DEF Pending, Encoded
  <2>4. Topics(Encoded') = Topics(Encoded) \cup {r.topic}
    BY <2>3 DEF Topics
  <2>5. CallInv'
    <3>1. Pending' \cup Encoded' = Pending \cup Encoded
      BY <1>3, <2>3
    <3>2. Len(call'.rest) <= Len(call.rest) /\ Len(call.rest) \in Nat /\ Len(call'.rest) \in Nat
      BY <1>1, <2>2
    <3>3. call'.op # "none"
      BY <1>4, <2>2
    <3>4. handler' = "resubscribe" => /\ call'.op # "UNSUBSCRIBE" /\ Len(call'.rest) <= 1
                                      /\ Pending' \cup Encoded' \subseteq Cached'
      BY <1>6, <2>1, <2>2, <3>1, <3>2 DEF StepInv, CallInv
    <3>. QED BY <1>4, <1>5, <2>1, <3>3, <3>4 DEF StepInv, CallInv
  <2>6. EncodedInv'
    <3>1. /\ Len(call.rest) \in Nat /\ Len(call.rest) > 0 /\ DOMAIN call.rest = 1..Len(call.rest)
          /\ DOMAIN call'.rest = 1..(Len(call.rest) - 1) /\ r = call.rest[1]
          /\ \A i \in DOMAIN call'.rest : call'.rest[i] = call.rest[i + 1]
      BY <1>1, <1>2, <2>2
    <3>2. \A i \in DOMAIN call'.rest : i + 1 \in DOMAIN call.rest /\ i \in Nat /\ i + 1 # 1
      BY <3>1
    <3>3. ASSUME NEW i \in DOMAIN call'.rest, NEW j \in DOMAIN call'.rest,
                 call'.rest[i].topic = call'.rest[j].topic
          PROVE  i = j
      <4>1. /\ i + 1 \in DOMAIN call.rest /\ j + 1 \in DOMAIN call.rest
            /\ call.rest[i + 1].topic = call.rest[j + 1].topic
        BY <3>1, <3>2, <3>3
      <4>2. \A k, l \in DOMAIN call.rest : call.rest[k].topic = call.rest[l].topic => k = l
        BY DEF StepInv, EncodedInv
      <4>3. i + 1 = j + 1
        BY <4>1, <4>2
      <4>. QED BY <3>2, <4>3
    <3>4. ASSUME NEW i \in DOMAIN call'.rest
          PROVE  call'.rest[i].topic \notin Topics(Encoded')
      <4>1. call.rest[i + 1].topic \notin Topics(Encoded) /\ call.rest[i + 1].topic # r.topic
        BY <3>1, <3>2 DEF StepInv, EncodedInv
      <4>. QED BY <2>4, <3>1, <4>1
    <3>5. r.topic \notin Topics(Encoded)
      BY <3>1 DEF StepInv, EncodedInv
    <3>6. ASSUME NEW t \in Topics(Encoded')
          PROVE  For(Cached, t)' = SaysOf([type |-> call.op, subs |-> Encoded \cup {r}], t)
      <4>1. CASE t = r.topic
        BY <1>6, <3>5, <4>1 DEF SaysOf, For, Topics
      <4>2. CASE t # r.topic
        <5>1. t \in Topics(Encoded) /\ t \in Topic
          BY <2>4, <4>2, PendingTypes, SubIsNotFree DEF Topics
        <5>2. For(Cached, t) = SaysOf([type |-> call.op, subs |-> Encoded], t)
          BY <5>1 DEF StepInv, EncodedInv
        <5>. QED BY <1>6, <4>2, <5>1, <5>2 DEF SaysOf, For
      <4>. QED BY <4>1, <4>2
    <3>. QED BY <2>2, <2>3, <3>3, <3>4, <3>6 DEF EncodedInv
  <2>7. ASSUME NEW t \in Topic, t \notin (astray \cup Topics(Encoded) \cup Ahead)'
        PROVE  WillHold(t)' = For(Cached, t)'
    <3>1. t \notin astray /\ t \notin Topics(Encoded) /\ t # r.topic
      BY <2>1, <2>4, <2>7
    <3>2. t \notin {subscriptions[s].topic : s \in todo \cap Active}
      BY <1>6, <2>1, <2>7, <3>1 DEF Ahead
    <3>3. handler = "resubscribe" => t \notin Topics(Pending)
      BY <1>3, <2>1, <2>3, <2>7, <3>1 DEF Ahead, Topics
    <3>4. WillHold(t) = For(Cached, t)
      BY <3>1, <3>2, <3>3 DEF StepInv, BrokerInStep, Ahead
    <3>5. WillHold(t)' = WillHold(t)
      BY <1>5, WillHoldIs
    <3>. QED BY <1>6, <3>1, <3>4, <3>5
  <2>8. PacketTypes'
    BY <1>5 DEF StepInv, PacketTypes
  <2>. QED BY <2>5, <2>6, <2>7, <2>8 DEF StepInv, BrokerInStep
<1>8. CASE ~fits
  <2>1. Fails(Encoded \cup {r})
    BY <1>2, <1>8 DEF EncodeTopic
  <2>2. Topics(Encoded) \subseteq Topics(Encoded \cup {r}) /\ r.topic \in Topics(Encoded \cup {r})
    BY DEF Topics
  <2>3. handler = "resubscribe" => Topics(Pending) \subseteq Topics(Encoded \cup {r})
    <3>1. ASSUME handler = "resubscribe" PROVE Pending = {r}
      <4>1. Len(call.rest) <= 1 /\ Len(call.rest) \in Nat /\ Len(call.rest) # 0
        BY <1>1, <3>1 DEF StepInv, CallInv
      <4>2. DOMAIN call.rest = {1} /\ call.rest[1] = r
        BY <1>1, <1>2, <4>1
      <4>. QED BY <4>2 DEF Pending, ToSet
    <3>. QED BY <3>1 DEF Topics
  <2>4. CallInv' /\ EncodedInv' /\ BrokerInStep'
    BY <1>4, <1>5, <1>6, <2>1, <2>2, <2>3, FailsKeepsStep
  <2>. QED BY <1>5, <2>4 DEF StepInv, PacketTypes
<1>. QED BY <1>7, <1>8

(* The packet is written, or the call fails.                               *)
LEMMA SendKeepsStep ==
  ASSUME CacheInv, StepInv, NEW fits \in BOOLEAN, SendCall(fits)
  PROVE  StepInv'
<1>1. /\ call.op \in {"none", "SUBSCRIBE", "UNSUBSCRIBE"} /\ Encoded \subseteq Sub
      /\ call # NoCall /\ call.rest = <<>> /\ Topics({}) = {}
  BY PendingTypes, NoCallSays DEF SendCall
<1>2. Pending = {}
  BY <1>1 DEF Pending, ToSet
<1>3. call.op # "none" /\ connected
  BY <1>1 DEF StepInv, CallInv
<1>4. UNCHANGED <<connected, link, toClient, granted, subscriptions>>
  BY DEF SendCall
<1>5. Active' = Active /\ Cached' = Cached
  BY <1>4 DEF Active, Cached
<1>6. CASE Written(fits)
  <2> DEFINE p == [type |-> call.op, subs |-> Encoded]
  <2>1. /\ toBroker' = Append(toBroker, p) /\ astray' = astray \ Topics(Encoded)
        /\ call' = NoCall /\ UNCHANGED <<handler, todo>>
    BY <1>6 DEF SendCall, Send
  <2>2. p \in CallPacket /\ toBroker \in Seq(CallPacket)
    BY <1>1, <1>3 DEF CallPacket, StepInv, PacketTypes
  <2>3. PacketTypes'
    BY <1>4, <2>1, <2>2 DEF StepInv, PacketTypes
  <2>4. /\ Pending' = {} /\ Encoded' = {} /\ call'.op = "none"
        /\ call'.rest = <<>> /\ Topics(Encoded') = {}
    BY <1>1, <2>1, NoCallSays
  <2>5. CallInv'
    BY <1>3, <1>4, <2>1, <2>4 DEF StepInv, CallInv
  <2>6. EncodedInv'
    BY <2>4 DEF EncodedInv
  <2>7. ASSUME NEW t \in Topic, t \notin (astray \cup Topics(Encoded) \cup Ahead)'
        PROVE  WillHold(t)' = For(Cached, t)'
    <3>1. WillHold(t)' = IF t \in Topics(Encoded) THEN SaysOf(p, t) ELSE WillHold(t)
      <4>1. HoldsAfter(Append(toBroker, p), granted, t) =
              IF t \in Topics(p.subs) THEN SaysOf(p, t) ELSE HoldsAfter(toBroker, granted, t)
        BY <2>2, HoldsAppend
      <4>. QED BY <1>4, <2>1, <4>1, WillHoldIs
    <3>2. For(Cached, t)' = For(Cached, t)
      BY <1>5
    <3>3. CASE t \in Topics(Encoded)
      BY <3>1, <3>2, <3>3 DEF StepInv, EncodedInv
    <3>4. CASE t \notin Topics(Encoded)
      <4>1. t \notin astray
        BY <2>1, <2>7, <3>4
      <4>2. t \notin Ahead
        BY <1>1, <1>2, <1>4, <1>5, <2>1, <2>7 DEF Ahead
      <4>. QED BY <3>1, <3>2, <3>4, <4>1, <4>2 DEF StepInv, BrokerInStep
    <3>. QED BY <3>3, <3>4
  <2>. QED BY <2>3, <2>5, <2>6, <2>7 DEF StepInv, BrokerInStep
<1>7. CASE ~Written(fits)
  <2>1. Fails(Encoded) /\ UNCHANGED toBroker
    BY <1>7 DEF SendCall
  <2>2. CallInv' /\ EncodedInv' /\ BrokerInStep'
    <3>1. \A t \in Topic \ Topics(Encoded) : For(Cached, t)' = For(Cached, t)
      BY <1>5
    <3>. QED BY <1>1, <1>2, <1>3, <1>4, <1>5, <2>1, <3>1, FailsKeepsStep
  <2>. QED BY <1>4, <2>1, <2>2 DEF StepInv, PacketTypes
<1>. QED BY <1>6, <1>7

LEMMA CacheFullKeepsStep ==
  ASSUME CacheInv, StepInv, CacheFull
  PROVE  StepInv'
<1>1. /\ call.rest \in Seq(Sub) /\ call.rest # <<>> /\ ~HasRoom(Head(call.rest).topic)
      /\ Fails(Encoded) /\ UNCHANGED <<connected, link, toBroker, toClient, granted, subscriptions>>
  BY PendingTypes DEF CacheFull, network
<1>2. connected
  BY <1>1, NoCallSays DEF StepInv, CallInv
<1>3. handler # "resubscribe"
  <2>1. ASSUME handler = "resubscribe" PROVE FALSE
    <3>1. Head(call.rest) \in Pending
      BY <1>1, ToSetHead DEF Pending
    <3>2. Head(call.rest) \in Cached
      BY <2>1, <3>1 DEF StepInv, CallInv
    <3>3. PICK s \in Active : subscriptions[s] = Head(call.rest)
      BY <3>2 DEF Cached
    <3>4. s \in SlotOf(Head(call.rest).topic)
      BY <3>3 DEF SlotOf, Active
    <3>. QED BY <1>1, <3>4 DEF HasRoom
  <2>. QED BY <2>1
<1>4. Active' = Active /\ Cached' = Cached
  BY <1>1 DEF Active, Cached
<1>5. \A t \in Topic \ Topics(Encoded) : For(Cached, t)' = For(Cached, t)
  BY <1>4
<1>6. CallInv' /\ EncodedInv' /\ BrokerInStep'
  BY <1>1, <1>2, <1>3, <1>4, <1>5, FailsKeepsStep
<1>. QED BY <1>1, <1>6 DEF StepInv, PacketTypes

(* A call begins, of the application or of resubscribe_all, or a handler
   goes on: the cache and the broker stay as they are.                     *)
LEMMA InStepFrame ==
  ASSUME BrokerInStep, UNCHANGED <<subscriptions, granted, toBroker>>,
         Topic \cap (astray \cup Topics(Encoded) \cup Ahead) \subseteq (astray \cup Topics(Encoded) \cup Ahead)'
  PROVE  BrokerInStep'
<1>1. Cached' = Cached
  BY DEF Cached, Active
<1>2. \A t : WillHold(t)' = WillHold(t) /\ For(Cached, t)' = For(Cached, t)
  BY <1>1, WillHoldIs
<1>. QED BY <1>2 DEF BrokerInStep

LEMMA CallKeepsStep ==
  ASSUME CacheInv, StepInv, NEW rs \in Requests, Subscribe(rs) \/ Unsubscribe(rs)
  PROVE  StepInv'
<1>1. /\ connected /\ handler # "resubscribe" /\ call = NoCall /\ Request(rs)
      /\ UNCHANGED <<connected, handler, link, toBroker, toClient, granted, subscriptions,
                     todo, astray>>
  BY DEF Subscribe, Unsubscribe, CanCall, connVars, network, StepInv, CallInv
<1>2. PICK op \in {"SUBSCRIBE", "UNSUBSCRIBE"} :
        call' = [op |-> op, rest |-> rs, encoded |-> <<>>]
  BY DEF Subscribe, Unsubscribe
<1>3. call'.op # "none" /\ call'.rest = rs /\ Encoded' = {} /\ Encoded = {} /\ Topics({}) = {}
  BY <1>1, <1>2, NoCallSays DEF Encoded, ToSet
<1>4. CallInv'
  BY <1>1, <1>3 DEF StepInv, CallInv
<1>5. EncodedInv'
  BY <1>1, <1>3 DEF EncodedInv, Request
<1>6. BrokerInStep'
  <2>1. Ahead' = Ahead
    BY <1>1 DEF Ahead, Active
  <2>. QED BY <1>1, <1>3, <2>1, InStepFrame DEF StepInv
<1>. QED BY <1>1, <1>4, <1>5, <1>6 DEF StepInv, PacketTypes

LEMMA ResubscribeKeepsStep ==
  ASSUME CacheInv, StepInv, Resubscribe
  PROVE  StepInv'
<1>1. /\ handler = "resubscribe" /\ call = NoCall /\ todo # {} /\ todo \subseteq Slot /\ connected
      /\ UNCHANGED <<connected, link, toBroker, toClient, granted, subscriptions>>
  BY DEF Resubscribe, CacheInv, StepInv, CallInv, network
<1>2. PICK s \in todo : s = First(todo)
  <2>1. todo \in SUBSET Nat
    BY <1>1, ActiveIsFinite
  <2>. QED BY <1>1, <2>1, FirstIsMember
<1>3. Active' = Active /\ Cached' = Cached /\ \A t : For(Cached, t)' = For(Cached, t)
  <2>1. Active' = Active /\ Cached' = Cached
    BY <1>1 DEF Active, Cached
  <2>. QED BY <2>1
<1>4. Pending = {} /\ Encoded = {} /\ Topics({}) = {}
  BY <1>1, NoCallSays
<1>5. CASE s \in Active => Allowed(subscriptions[s])
  <2>1. /\ todo' = todo \ {s} /\ UNCHANGED <<handler, astray>>
        /\ call' = IF s \in Active
                   THEN [op |-> "SUBSCRIBE", rest |-> <<subscriptions[s]>>, encoded |-> <<>>]
                   ELSE NoCall
    BY <1>2, <1>5 DEF Resubscribe
  <2>2. CASE s \in Active
    <3>1. /\ call' = [op |-> "SUBSCRIBE", rest |-> <<subscriptions[s]>>, encoded |-> <<>>]
          /\ subscriptions[s] \in Cached
      BY <2>1, <2>2 DEF Cached
    <3>2. /\ call'.op = "SUBSCRIBE" /\ call'.rest = <<subscriptions[s]>> /\ Encoded' = {}
          /\ Len(call'.rest) = 1 /\ Pending' = {subscriptions[s]}
      BY <3>1 DEF Encoded, Pending, ToSet
    <3>3. CallInv'
      BY <1>1, <1>3, <2>1, <3>1, <3>2 DEF StepInv, CallInv
    <3>4. EncodedInv'
      <4>1. DOMAIN call'.rest = {1} /\ Topics(Encoded') = {}
        BY <1>4, <3>2
      <4>. QED BY <4>1 DEF EncodedInv
    <3>5. Ahead \subseteq Ahead'
      <4>1. subscriptions[s].topic \in Topics(Pending')
        BY <3>2 DEF Topics
      <4>. QED BY <1>1, <1>3, <1>4, <2>1, <4>1 DEF Ahead
    <3>6. BrokerInStep'
      BY <1>1, <1>4, <2>1, <3>2, <3>5, InStepFrame DEF StepInv
    <3>. QED BY <1>1, <3>3, <3>4, <3>6 DEF StepInv, PacketTypes
  <2>3. CASE s \notin Active
    <3>1. call' = NoCall /\ todo' \cap Active' = todo \cap Active
      BY <1>3, <2>1, <2>3
    <3>2. CallInv'
      BY <1>1, <1>3, <2>1, <3>1 DEF StepInv, CallInv, Pending, Encoded
    <3>3. EncodedInv'
      <4>1. DOMAIN call'.rest = {} /\ Topics(Encoded') = {}
        BY <1>4, <3>1, NoCallSays
      <4>. QED BY <4>1 DEF EncodedInv
    <3>4. Ahead' = Ahead
      BY <1>1, <2>1, <3>1 DEF Ahead, Pending
    <3>5. BrokerInStep'
      BY <1>1, <1>4, <2>1, <3>1, <3>4, NoCallSays, InStepFrame DEF StepInv
    <3>. QED BY <1>1, <3>2, <3>3, <3>5 DEF StepInv, PacketTypes
  <2>. QED BY <2>2, <2>3
<1>6. CASE ~(s \in Active => Allowed(subscriptions[s]))
  <2>1. Fails({subscriptions[s]})
    BY <1>2, <1>6 DEF Resubscribe
  <2>2. CallInv' /\ EncodedInv' /\ BrokerInStep'
    <3> DEFINE changed == {subscriptions[s]}
    <3>1. /\ \A t \in Topic \ Topics(changed) : For(Cached, t)' = For(Cached, t)
          /\ Topics(Encoded) \subseteq Topics(changed) /\ Topics(Pending) \subseteq Topics(changed)
          /\ Fails(changed)
      BY <1>3, <1>4, <2>1
    <3> HIDE DEF changed
    <3>. QED BY <1>1, <1>3, <3>1, FailsKeepsStep
  <2>. QED BY <1>1, <2>2 DEF StepInv, PacketTypes
<1>. QED BY <1>5, <1>6

(* No call is under way: EncodedInv says nothing.                          *)
LEMMA IdleEncoded == (call = NoCall => EncodedInv) /\ (call' = NoCall => EncodedInv')
<1>1. ASSUME call = NoCall PROVE EncodedInv
  <2>1. call.rest = <<>> /\ Encoded = {} /\ Topics({}) = {}
    BY <1>1, NoCallSays
  <2>2. DOMAIN call.rest = {} /\ Topics(Encoded) = {}
    BY <2>1
  <2>. QED BY <2>2 DEF EncodedInv
<1>2. ASSUME call' = NoCall PROVE EncodedInv'
  <2>1. call'.rest = <<>> /\ Encoded' = {} /\ Topics({}) = {}
    BY <1>2, NoCallSays
  <2>2. DOMAIN call'.rest = {} /\ Topics(Encoded') = {}
    BY <2>1
  <2>. QED BY <2>2 DEF EncodedInv
<1>. QED BY <1>1, <1>2

LEMMA HandlerKeepsStep ==
  ASSUME CacheInv, StepInv, Resume \/ ResubscribeReturn
  PROVE  StepInv'
<1>1. /\ handler # "idle" /\ connected /\ call = NoCall
      /\ UNCHANGED <<connected, link, toBroker, toClient, granted, subscriptions, call, astray>>
  BY DEF Resume, ResubscribeReturn, network, subVars, StepInv, CallInv
<1>2. /\ Pending = {} /\ Encoded = {} /\ Pending' = {} /\ Encoded' = {} /\ Topics({}) = {}
      /\ call'.op = "none" /\ Len(call'.rest) = 0
  BY <1>1, NoCallSays
<1>3. CallInv'
  <2>1. CASE Resume
    BY <1>1, <1>2, <2>1 DEF Resume, StepInv, CallInv
  <2>2. CASE ResubscribeReturn
    BY <1>1, <1>2, <2>2 DEF ResubscribeReturn, subVars, StepInv, CallInv
  <2>. QED BY <2>1, <2>2
<1>4. Active' = Active
  BY <1>1 DEF Active
<1>5. todo \cap Active = todo' \cap Active'
  <2>1. CASE Resume
    <3>1. CASE subscriptions_count = 0
      <4>1. Active = {}
        BY <3>1, ActiveIsFinite, FS_EmptySet DEF CacheInv
      <4>. QED BY <1>4, <4>1
    <3>2. CASE subscriptions_count # 0
      BY <1>4, <2>1, <3>2 DEF Resume, SlotsToLookAt, CacheInv
    <3>. QED BY <3>1, <3>2
  <2>2. CASE ResubscribeReturn
    BY <1>4, <2>2 DEF ResubscribeReturn, subVars
  <2>. QED BY <2>1, <2>2
<1>6. Ahead' = Ahead
  BY <1>1, <1>2, <1>5 DEF Ahead
<1>7. BrokerInStep'
  BY <1>1, <1>2, <1>6, InStepFrame DEF StepInv
<1>. QED BY <1>1, <1>3, <1>7, IdleEncoded DEF StepInv, PacketTypes

LEMMA ConnectionKeepsStep ==
  ASSUME CacheInv, StepInv, Connect \/ Break
  PROVE  StepInv'
<1>1. /\ UNCHANGED <<connected, handler, toBroker, toClient, granted, subscriptions, call,
                     todo, astray>>
      /\ link' = "connecting" => ~connected
      /\ link' # "down"
  BY DEF Connect, ConnConnect, Break, ConnBreak, subVars
<1>2. Active' = Active /\ Cached' = Cached /\ Pending' = Pending /\ Encoded' = Encoded
  BY <1>1 DEF Active, Cached, Pending, Encoded
<1>3. CallInv'
  BY <1>1, <1>2 DEF StepInv, CallInv
<1>4. EncodedInv'
  <2>1. \A t : For(Cached, t)' = For(Cached, t)
    BY <1>2
  <2>. QED BY <1>1, <1>2, <2>1 DEF StepInv, EncodedInv
<1>5. Ahead' = Ahead
  BY <1>1, <1>2 DEF Ahead
<1>6. BrokerInStep'
  BY <1>1, <1>2, <1>5, InStepFrame DEF StepInv
<1>. QED BY <1>1, <1>3, <1>4, <1>6 DEF StepInv, PacketTypes

(* A broker without a session is to be told of every slot in use.          *)
LEMMA ConnackKeepsStep ==
  ASSUME CacheInv, StepInv, NEW o \in Offers, NEW session_present \in BOOLEAN,
         RecvConnack(o, session_present)
  PROVE  StepInv'
<1>1. /\ ~connected /\ call = NoCall /\ handler = "idle" /\ todo = {} /\ toBroker = <<>>
      /\ link' = "up" /\ connected' = TRUE /\ handler' = "callback"
      /\ UNCHANGED <<toBroker, toClient, subscriptions, call>>
      /\ todo' = ToResubscribe(session_present)
      /\ granted' = (IF session_present THEN granted ELSE {})
      /\ astray' = (IF session_present THEN astray ELSE {})
  BY DEF RecvConnack, ConnRecvConnack, StepInv, CallInv
<1>2. /\ Pending = {} /\ Encoded = {} /\ Pending' = {} /\ Encoded' = {} /\ Topics({}) = {}
      /\ call'.op = "none"
  BY <1>1, NoCallSays
<1>3. Active' = Active /\ Cached' = Cached /\ \A t : For(Cached, t)' = For(Cached, t)
  <2>1. Active' = Active /\ Cached' = Cached
    BY <1>1 DEF Active, Cached
  <2>. QED BY <2>1
<1>4. CallInv'
  BY <1>1, <1>2 DEF StepInv, CallInv
<1>5. PacketTypes'
  BY <1>1 DEF StepInv, PacketTypes
<1>6. CASE session_present
  <2>1. Ahead' = Ahead /\ todo' = todo
    BY <1>1, <1>2, <1>3, <1>6 DEF Ahead, ToResubscribe
  <2>2. BrokerInStep'
    BY <1>1, <1>2, <1>6, <2>1, InStepFrame DEF StepInv
  <2>. QED BY <1>1, <1>4, <1>5, <2>2, IdleEncoded DEF StepInv
<1>7. CASE ~session_present
  <2>1. ASSUME NEW t \in Topic, t \notin Ahead'
        PROVE  WillHold(t)' = For(Cached, t)'
    <3>1. t \notin {subscriptions[s].topic : s \in Active}
      BY <1>1, <1>3, <1>7, <2>1 DEF Ahead, ToResubscribe, Active
    <3>2. For(Cached, t) = {}
      BY <3>1 DEF For, Cached
    <3>3. HoldsAfter(toBroker', {}, t) = {}
      <4>1. MentionsIn(<<>>, t) = {}
        BY DEF MentionsIn
      <4>. QED BY <1>1, <4>1, HoldsNone DEF For
    <3>. QED BY <1>1, <1>3, <1>7, <3>2, <3>3, WillHoldIs
  <2>2. BrokerInStep'
    BY <2>1 DEF BrokerInStep
  <2>. QED BY <1>1, <1>4, <1>5, <2>2, IdleEncoded DEF StepInv
<1>. QED BY <1>6, <1>7

(* What was under way is lost, and its topics are astray.                  *)
LEMMA DisconnectKeepsStep ==
  ASSUME CacheInv, StepInv, Disconnect
  PROVE  StepInv'
<1>1. /\ call = NoCall /\ handler = "idle" /\ todo = {}
      /\ connected' = FALSE /\ toBroker' = <<>> /\ toClient' = <<>>
      /\ UNCHANGED <<handler, granted, subscriptions, call, todo>>
      /\ astray' = astray \cup {t \in Topic : Mentions(t) # {}}
  BY DEF Disconnect, ConnDisconnect, ConnClose, StepInv, CallInv
<1>2. /\ Pending = {} /\ Encoded = {} /\ Pending' = {} /\ Encoded' = {} /\ Topics({}) = {}
      /\ call'.op = "none"
  BY <1>1, NoCallSays
<1>3. Active' = Active /\ Cached' = Cached /\ \A t : For(Cached, t)' = For(Cached, t)
  <2>1. Active' = Active /\ Cached' = Cached
    BY <1>1 DEF Active, Cached
  <2>. QED BY <2>1
<1>4. CallInv' /\ PacketTypes'
  BY <1>1, <1>2 DEF StepInv, CallInv, PacketTypes
<1>5. ASSUME NEW t \in Topic, t \notin astray'
      PROVE  WillHold(t)' = For(Cached, t)'
  <2>1. t \notin astray /\ MentionsIn(toBroker, t) = {} /\ MentionsIn(<<>>, t) = {}
    BY <1>1, <1>5, WillHoldIs DEF MentionsIn
  <2>2. t \notin Ahead
    BY <1>1, <1>2 DEF Ahead
  <2>3. WillHold(t) = For(granted, t) /\ WillHold(t)' = For(granted, t)
    BY <1>1, <2>1, HoldsNone, WillHoldIs
  <2>. QED BY <1>2, <1>3, <2>1, <2>2, <2>3 DEF StepInv, BrokerInStep
<1>6. BrokerInStep'
  BY <1>5 DEF BrokerInStep
<1>. QED BY <1>1, <1>4, <1>6, IdleEncoded DEF StepInv

(* The broker's answer changes nothing but what is under way to the client. *)
LEMMA AnswerKeepsStep ==
  ASSUME CacheInv, StepInv, RecvSuback \/ RecvUnsuback
  PROVE  StepInv'
<1>1. /\ toClient # <<>> /\ toClient' = Tail(toClient)
      /\ UNCHANGED <<connected, handler, link, toBroker, granted, subscriptions, call, todo, astray>>
  BY DEF RecvSuback, RecvUnsuback, Received, subVars
<1>2. Active' = Active /\ Cached' = Cached /\ Pending' = Pending /\ Encoded' = Encoded
  BY <1>1 DEF Active, Cached, Pending, Encoded
<1>3. CallInv' /\ PacketTypes'
  BY <1>1, <1>2 DEF StepInv, CallInv, PacketTypes
<1>4. EncodedInv'
  <2>1. \A t : For(Cached, t)' = For(Cached, t)
    BY <1>2
  <2>. QED BY <1>1, <1>2, <2>1 DEF StepInv, EncodedInv
<1>5. Ahead' = Ahead
  BY <1>1, <1>2 DEF Ahead
<1>6. BrokerInStep'
  BY <1>1, <1>2, <1>5, InStepFrame DEF StepInv
<1>. QED BY <1>3, <1>4, <1>6 DEF StepInv

(* The broker reads a packet: what it will hold is what it would have held,
   but for the topics it refuses.                                          *)
LEMMA BrokerKeepsStep ==
  ASSUME CacheInv, StepInv,
         BrokerUnsubscribes \/ \E refused \in SUBSET Topic : BrokerSubscribes(refused)
  PROVE  StepInv'
<1> DEFINE p == Head(toBroker)
<1>1. /\ toBroker # <<>> /\ toBroker \in Seq(CallPacket) /\ p \in CallPacket
      /\ toBroker' = Tail(toBroker) /\ toBroker' \in Seq(CallPacket)
      /\ UNCHANGED <<connected, handler, link, subscriptions, call, todo>>
  <2>1. /\ toBroker # <<>> /\ toBroker \in Seq(CallPacket) /\ toBroker' = Tail(toBroker)
        /\ UNCHANGED <<connected, handler, link, subscriptions, call, todo>>
    BY DEF BrokerUnsubscribes, BrokerSubscribes, BrokerReads, StepInv, PacketTypes
  <2>2. \A q \in Seq(CallPacket) : q # <<>> => Head(q) \in CallPacket /\ Tail(q) \in Seq(CallPacket)
    OBVIOUS
  <2>. QED BY <2>1, <2>2
<1>2. p.subs \subseteq Sub /\ Topics(p.subs) \subseteq Topic
  BY <1>1, SubIsNotFree DEF CallPacket, Topics
<1> DEFINE Reads(refused) ==
             /\ astray' = astray \cup refused
             /\ \E a \in AnswerPacket : toClient' = Append(toClient, a)
             /\ granted' \subseteq Sub
             /\ \A t \in Topic \ refused :
                  For(granted', t) = IF t \in Topics(p.subs) THEN SaysOf(p, t) ELSE For(granted, t)
<1>3. PICK refused \in SUBSET Topic : Reads(refused)
  <2>1. granted \subseteq Sub
    BY DEF StepInv, PacketTypes
  <2>2. CASE BrokerUnsubscribes
    <3>1. [type |-> "UNSUBACK", topics |-> Topics(p.subs)] \in AnswerPacket
      BY <1>2 DEF AnswerPacket
    <3>2. /\ p.type = "UNSUBSCRIBE" /\ astray' = astray \cup {}
          /\ granted' = {r \in granted : r.topic \notin Topics(p.subs)}
          /\ toClient' = Append(toClient, [type |-> "UNSUBACK", topics |-> Topics(p.subs)])
      BY <2>2 DEF BrokerUnsubscribes, BrokerReads, BrokerSends
    <3>3. \A t \in Topic :
            For(granted', t) = IF t \in Topics(p.subs) THEN SaysOf(p, t) ELSE For(granted, t)
      BY <3>2 DEF For, SaysOf
    <3>4. Reads({})
      BY <2>1, <3>1, <3>2, <3>3
    <3>. QED BY <3>4
  <2>3. ASSUME NEW refused \in SUBSET Topic, BrokerSubscribes(refused)
        PROVE  Reads(refused)
    <3> DEFINE taken == {r \in p.subs : r.topic \notin refused}
    <3>1. [type |-> "SUBACK", topics |-> Topics(p.subs)] \in AnswerPacket
      BY <1>2 DEF AnswerPacket
    <3>2. /\ p.type = "SUBSCRIBE" /\ astray' = astray \cup refused
          /\ granted' = {r \in granted : r.topic \notin Topics(taken)} \cup taken
          /\ toClient' = Append(toClient, [type |-> "SUBACK", topics |-> Topics(p.subs)])
      BY <2>3 DEF BrokerSubscribes, BrokerReads, BrokerSends
    <3>3. ASSUME NEW t \in Topic \ refused
          PROVE  For(granted', t) = IF t \in Topics(p.subs) THEN SaysOf(p, t) ELSE For(granted, t)
      <4>1. t \in Topics(p.subs) <=> t \in Topics(taken)
        BY DEF Topics
      <4>2. For(taken, t) = For(p.subs, t)
        BY DEF For
      <4>3. t \notin Topics(taken) => For(taken, t) = {}
        BY DEF For, Topics
      <4>. QED BY <3>2, <4>1, <4>2, <4>3 DEF For, SaysOf
    <3>. QED BY <1>2, <2>1, <3>1, <3>2, <3>3
  <2> HIDE DEF Reads
  <2>. QED BY <2>2, <2>3
<1>4. Active' = Active /\ Cached' = Cached /\ Pending' = Pending /\ Encoded' = Encoded
  BY <1>1 DEF Active, Cached, Pending, Encoded
<1>5. PacketTypes'
  BY <1>1, <1>3 DEF StepInv, PacketTypes
<1>6. CallInv'
  BY <1>1, <1>4 DEF StepInv, CallInv
<1>7. \A t : For(Cached, t)' = For(Cached, t)
  BY <1>4
<1>8. EncodedInv'
  BY <1>1, <1>4, <1>7 DEF StepInv, EncodedInv
<1>9. Ahead' = Ahead
  BY <1>1, <1>4 DEF Ahead
<1>10. ASSUME NEW t \in Topic, t \notin (astray \cup Topics(Encoded) \cup Ahead)'
       PROVE  WillHold(t)' = For(Cached, t)'
  <2>1. t \notin astray \cup Topics(Encoded) \cup Ahead /\ t \notin refused
    BY <1>3, <1>4, <1>9, <1>10
  <2>2. HoldsAfter(toBroker', granted', t) = HoldsAfter(toBroker, granted, t)
    BY <1>1, <1>3, <2>1, HoldsTail
  <2>3. WillHold(t) = For(Cached, t)
    BY <2>1 DEF StepInv, BrokerInStep
  <2>. QED BY <1>7, <2>2, <2>3, WillHoldIs
<1>. QED BY <1>5, <1>6, <1>8, <1>10 DEF StepInv, BrokerInStep

LEMMA StepInvHolds == Spec => []StepInv
<1>1. Init => StepInv
  <2> SUFFICES ASSUME Init PROVE StepInv
    OBVIOUS
  <2>1. /\ subscriptions = [s \in Slot |-> FreeSlot] /\ call = NoCall /\ todo = {}
        /\ granted = {} /\ toBroker = <<>> /\ toClient = <<>> /\ ~connected /\ handler = "idle"
    BY DEF Init, ConnInit
  <2>2. PacketTypes /\ CallInv
    BY <2>1 DEF PacketTypes, CallInv
  <2>3. Cached = {}
    BY <2>1 DEF Cached, Active
  <2>4. ASSUME NEW t \in Topic PROVE WillHold(t) = For(Cached, t)
    <3>1. MentionsIn(<<>>, t) = {}
      BY DEF MentionsIn
    <3>. QED BY <2>1, <2>3, <3>1, HoldsNone, WillHoldIs
  <2>. QED BY <2>1, <2>2, <2>4, IdleEncoded DEF StepInv, BrokerInStep
<1>2. ASSUME CacheInv, StepInv, [Next]_vars PROVE StepInv'
  <2>1. CASE UNCHANGED vars
    <3>1. UNCHANGED <<connected, handler, link, toBroker, toClient, granted, subscriptions, call,
                      todo, astray>>
      BY <2>1 DEF vars, connVars, network, subVars
    <3>2. Active' = Active /\ Cached' = Cached /\ Pending' = Pending /\ Encoded' = Encoded
      BY <3>1 DEF Active, Cached, Pending, Encoded
    <3>3. \A t : For(Cached, t)' = For(Cached, t)
      BY <3>2
    <3>4. Ahead' = Ahead
      BY <3>1, <3>2 DEF Ahead
    <3>5. BrokerInStep'
      BY <1>2, <3>1, <3>2, <3>4, InStepFrame DEF StepInv
    <3>6. PacketTypes' /\ CallInv' /\ EncodedInv'
      BY <1>2, <3>1, <3>2, <3>3 DEF StepInv, PacketTypes, CallInv, EncodedInv
    <3>. QED BY <3>5, <3>6 DEF StepInv
  <2>. QED BY <1>2, <2>1, EncodeKeepsStep, SendKeepsStep, CacheFullKeepsStep, CallKeepsStep,
              ResubscribeKeepsStep, HandlerKeepsStep, ConnectionKeepsStep, ConnackKeepsStep,
              DisconnectKeepsStep, AnswerKeepsStep, BrokerKeepsStep DEF Next
<1>. QED BY <1>1, <1>2, CacheInvHolds, PTL DEF Spec

(* Whatever noxmqtt_subscribe, noxmqtt_unsubscribe and
   noxmqtt_resubscribe_all have done and in whatever way they ended, between
   two handlers the broker holds what the cache holds, or will when it has
   read what is under way, but for the topics that are astray.             *)
THEOREM BrokerFollowsCache == Spec => []InStep
<1>1. StepInv => InStep
  <2> SUFFICES ASSUME StepInv, connected, handler = "idle", call = NoCall, NEW t \in Topic \ astray
               PROVE  WillHold(t) = For(Cached, t)
    BY DEF InStep, For
  <2>1. Topics(Encoded) = {} /\ Ahead = {}
    BY NoCallSays DEF StepInv, CallInv, Ahead
  <2>. QED BY <2>1 DEF StepInv, BrokerInStep
<1>. QED BY <1>1, StepInvHolds, PTL

-----------------------------------------------------------------------------
(* Unsubscribed topics                                                     *)

(* Steps that grant nothing, and at most give up the call or lose what is
   under way.                                                              *)
LEMMA StaysFrame ==
  ASSUME StaysInv, UNCHANGED <<subscriptions, wanted, confirmed>>, granted' \subseteq granted,
         call' \in {call, NoCall}, toBroker' \in {toBroker, <<>>}, toClient' \in {toClient, <<>>}
  PROVE  StaysInv'
<1>1. Cached' = Cached
  BY DEF Cached, Active
<1>2. Topics(granted') \subseteq Topics(granted)
  BY DEF Topics
<1>3. call'.op = "SUBSCRIBE" => confirmed' \cap Topics(Pending' \cup Encoded') = {}
  <2>1. CASE call' = call
    BY <2>1 DEF StaysInv, Pending, Encoded
  <2>2. CASE call' = NoCall
    BY <2>2, NoCallSays
  <2>. QED BY <2>1, <2>2
<1>4. \A i \in DOMAIN toBroker' :
        toBroker'[i].type = "SUBSCRIBE" => confirmed' \cap Topics(toBroker'[i].subs) = {}
  BY DEF StaysInv
<1>5. \A i \in DOMAIN toClient', t \in Topic :
        LastAnswer(i, t)' /\ toClient'[i].type = "UNSUBACK" => t \notin Topics(granted')
  BY <1>2 DEF StaysInv, LastAnswer
<1>. QED BY <1>1, <1>2, <1>3, <1>4, <1>5 DEF StaysInv

LEMMA EncodeKeepsStays ==
  ASSUME CacheInv, StaysInv, NEW fits \in BOOLEAN, EncodeTopic(fits)
  PROVE  StaysInv'
<1>1. /\ call.op \in {"none", "SUBSCRIBE", "UNSUBSCRIBE"} /\ call.rest \in Seq(Sub)
      /\ call.encoded \in Seq(Sub) /\ call.rest # <<>> /\ Pending \subseteq Sub
  BY PendingTypes DEF EncodeTopic
<1>2. PICK r \in Sub : r = Head(call.rest)
  BY <1>1
<1>3. r.topic \in Topic /\ Pending = {r} \cup ToSet(Tail(call.rest)) /\ r.topic \in Topics(Pending)
  <2>1. r.topic \in Topic /\ Pending = {r} \cup ToSet(Tail(call.rest))
    BY <1>1, <1>2, SubIsNotFree, ToSetHead DEF Pending
  <2>. QED BY <2>1 DEF Topics
<1>4. UNCHANGED <<toBroker, toClient, granted, confirmed>>
  BY DEF EncodeTopic, network
<1>5. Topics(Cached') \subseteq wanted' /\ confirmed' \cap wanted' = {}
  <2>1. CASE call.op = "SUBSCRIBE"
    <3>1. HasRoom(r.topic) /\ CacheAdd(r) /\ wanted' = wanted \cup {r.topic}
      BY <1>2, <2>1 DEF EncodeTopic
    <3>2. Cached' \subseteq Cached \cup {r}
      BY <3>1, AddSays
    <3>3. r.topic \notin confirmed
      BY <1>3, <2>1 DEF StaysInv, Topics
    <3>. QED BY <1>4, <3>1, <3>2, <3>3 DEF StaysInv, Topics
  <2>2. CASE call.op # "SUBSCRIBE"
    <3>1. CacheRemove(r.topic) /\ wanted' = wanted \ {r.topic}
      BY <1>2, <2>2 DEF EncodeTopic
    <3>2. Cached' \subseteq Cached /\ For(Cached, r.topic)' = {}
      BY <1>3, <3>1, RemoveSays
    <3>3. r.topic \notin Topics(Cached')
      BY <3>2 DEF For, Topics
    <3>. QED BY <1>4, <3>1, <3>2, <3>3 DEF StaysInv, Topics
  <2>. QED BY <2>1, <2>2
<1>6. call'.op = "SUBSCRIBE" => confirmed' \cap Topics(Pending' \cup Encoded') = {}
  <2>1. CASE fits
    <3>1. call' = [call EXCEPT !.rest = Tail(call.rest), !.encoded = Append(call.encoded, r)]
      BY <1>2, <2>1 DEF EncodeTopic
    <3>2. call'.rest = Tail(call.rest) /\ call'.encoded = Append(call.encoded, r)
          /\ call'.op = call.op
      BY <3>1 DEF CacheInv, Calls
    <3>3. Pending' \cup Encoded' = Pending \cup Encoded
      BY <1>1, <1>3, <3>2, ToSetAppend DEF Pending, Encoded
    <3>. QED BY <1>4, <3>2, <3>3 DEF StaysInv
  <2>2. CASE ~fits
    BY <2>2, NoCallSays DEF EncodeTopic, Fails
  <2>. QED BY <2>1, <2>2
<1>. QED BY <1>4, <1>5, <1>6 DEF StaysInv, LastAnswer

LEMMA SendKeepsStays ==
  ASSUME CacheInv, StepInv, StaysInv, NEW fits \in BOOLEAN, SendCall(fits)
  PROVE  StaysInv'
<1>1. /\ call.op \in {"none", "SUBSCRIBE", "UNSUBSCRIBE"} /\ Encoded \subseteq Sub
      /\ UNCHANGED <<subscriptions, granted, toClient, wanted, confirmed>>
  BY PendingTypes DEF SendCall
<1>2. CASE Written(fits)
  <2> DEFINE p == [type |-> call.op, subs |-> Encoded]
             n == Len(toBroker)
  <2>1. toBroker' = Append(toBroker, p) /\ call' = NoCall /\ toBroker \in Seq(CallPacket)
    BY <1>2 DEF SendCall, Send, StepInv, PacketTypes
  <2>2. /\ n \in Nat /\ DOMAIN toBroker = 1..n /\ DOMAIN toBroker' = 1..(n + 1)
        /\ toBroker'[n + 1] = p /\ \A i \in 1..n : toBroker'[i] = toBroker[i]
    BY <2>1
  <2>3. p.type = "SUBSCRIBE" => confirmed \cap Topics(p.subs) = {}
    BY DEF StaysInv, Topics
  <2>4. \A i \in DOMAIN toBroker' :
          toBroker'[i].type = "SUBSCRIBE" => confirmed' \cap Topics(toBroker'[i].subs) = {}
    <3> HIDE DEF p, n
    <3>. QED BY <1>1, <2>2, <2>3 DEF StaysInv
  <2>5. call'.op # "SUBSCRIBE"
    BY <2>1, NoCallSays
  <2>6. Cached' = Cached
    BY <1>1 DEF Cached, Active
  <2>. QED BY <1>1, <2>4, <2>5, <2>6 DEF StaysInv, LastAnswer
<1>3. CASE ~Written(fits)
  BY <1>1, <1>3, StaysFrame DEF SendCall, Fails
<1>. QED BY <1>2, <1>3

LEMMA CallKeepsStays ==
  ASSUME CacheInv, StaysInv,
         Resubscribe \/ \E rs \in Requests : Subscribe(rs) \/ Unsubscribe(rs)
  PROVE  StaysInv'
<1>1. /\ confirmed' \subseteq confirmed
      /\ UNCHANGED <<subscriptions, granted, toBroker, toClient, wanted>>
  BY DEF Resubscribe, Subscribe, Unsubscribe, connVars, network
<1>2. Cached' = Cached
  BY <1>1 DEF Cached, Active
<1>3. call'.op = "SUBSCRIBE" => confirmed' \cap Topics(Pending' \cup Encoded') = {}
  <2>1. ASSUME NEW rs \in Requests, Subscribe(rs)
        PROVE  confirmed' \cap Topics(Pending' \cup Encoded') = {}
    <3>1. /\ call' = [op |-> "SUBSCRIBE", rest |-> rs, encoded |-> <<>>]
          /\ confirmed' = confirmed \ Topics(ToSet(rs))
      BY <2>1 DEF Subscribe
    <3>2. Pending' = ToSet(rs) /\ Encoded' = {}
      BY <3>1 DEF Pending, Encoded, ToSet
    <3>3. Pending' \cup Encoded' = ToSet(rs)
      BY <3>2
    <3>. QED BY <3>1, <3>3
  <2>2. ASSUME NEW rs \in Requests, Unsubscribe(rs) PROVE call'.op # "SUBSCRIBE"
    BY <2>2 DEF Unsubscribe
  <2>3. CASE Resubscribe
    <3>1. CASE call' = NoCall
      BY <3>1, NoCallSays
    <3>2. CASE call' # NoCall
      <4>1. PICK s \in Active : call' = [op |-> "SUBSCRIBE", rest |-> <<subscriptions[s]>>,
                                         encoded |-> <<>>]
        BY <2>3, <3>2 DEF Resubscribe, Fails
      <4>2. Pending' = {subscriptions[s]} /\ Encoded' = {}
        BY <4>1 DEF Pending, Encoded, ToSet
      <4>3. subscriptions[s].topic \in Topics(Cached)
        BY DEF Topics, Cached
      <4>4. subscriptions[s].topic \notin confirmed'
        BY <1>1, <4>3 DEF StaysInv
      <4>5. Topics(Pending' \cup Encoded') = {subscriptions[s].topic}
        BY <4>2 DEF Topics
      <4>. QED BY <4>4, <4>5
    <3>. QED BY <3>1, <3>2
  <2>. QED BY <2>1, <2>2, <2>3
<1>. QED BY <1>1, <1>2, <1>3 DEF StaysInv, LastAnswer

(* The client reads an answer: the others keep their order, and a topic is
   confirmed when this is the last about it.                               *)
LEMMA AnswerKeepsStays ==
  ASSUME CacheInv, StepInv, StaysInv, RecvSuback \/ RecvUnsuback
  PROVE  StaysInv'
<1> DEFINE n == Len(toClient)
<1>1. /\ toClient # <<>> /\ toClient' = Tail(toClient) /\ call = NoCall /\ call' = call
      /\ UNCHANGED <<subscriptions, granted, toBroker, wanted>>
  BY DEF RecvSuback, RecvUnsuback, Received, subVars
<1>2. /\ n \in Nat /\ n > 0 /\ DOMAIN toClient = 1..n /\ DOMAIN toClient' = 1..(n - 1)
      /\ Head(toClient) = toClient[1] /\ \A i \in 1..(n - 1) : toClient'[i] = toClient[i + 1]
      /\ \A i \in 1..n : toClient[i] \in AnswerPacket
  <2>1. toClient \in Seq(AnswerPacket)
    BY DEF StepInv, PacketTypes
  <2>. QED BY <1>1, <2>1
<1> HIDE DEF n
<1>3. Cached' = Cached /\ call'.op # "SUBSCRIBE"
  BY <1>1, NoCallSays DEF Cached, Active
<1>4. ASSUME NEW i \in DOMAIN toClient', NEW t \in Topic, LastAnswer(i, t)',
             toClient'[i].type = "UNSUBACK"
      PROVE  t \notin Topics(granted')
  <2>1. /\ i + 1 \in 1..n /\ i \in Nat /\ t \in toClient[i + 1].topics
        /\ toClient[i + 1].type = "UNSUBACK"
    BY <1>2, <1>4 DEF LastAnswer
  <2>2. ASSUME NEW j \in 1..n, j > i + 1 PROVE t \notin toClient[j].topics
    <3>1. j - 1 \in 1..(n - 1) /\ (j - 1) + 1 = j /\ j - 1 > i
      BY <1>2, <2>1, <2>2
    <3>. QED BY <1>2, <1>4, <3>1 DEF LastAnswer
  <2>3. LastAnswer(i + 1, t)
    BY <1>2, <2>1, <2>2 DEF LastAnswer
  <2>. QED BY <1>1, <1>2, <2>1, <2>3 DEF StaysInv
<1>5. CASE RecvSuback
  BY <1>1, <1>3, <1>4, <1>5 DEF StaysInv, RecvSuback, subVars
<1>6. CASE RecvUnsuback
  <2>1. /\ confirmed' = confirmed \cup {t \in Head(toClient).topics : Answered(t)}
        /\ Head(toClient).type = "UNSUBACK"
    BY <1>6 DEF RecvUnsuback, Received
  <2>2. ASSUME NEW t \in Head(toClient).topics, Answered(t)
        PROVE  /\ t \notin wanted /\ t \notin Topics(granted)
               /\ \A i \in DOMAIN toBroker :
                    toBroker[i].type = "SUBSCRIBE" => t \notin Topics(toBroker[i].subs)
    <3>1. t \notin wanted /\ Mentions(t) = {}
      BY <2>2 DEF Answered
    <3>2. ASSUME NEW j \in 1..n, j > 1 PROVE t \notin toClient[j].topics
      <4>1. j \in 2..Len(toClient) /\ toClient[j].type \in {"SUBACK", "UNSUBACK"}
        BY <1>2, <3>2 DEF AnswerPacket, n
      <4>. QED BY <2>2, <4>1 DEF Answered
    <3>3. LastAnswer(1, t) /\ 1 \in DOMAIN toClient /\ t \in Topic
      BY <1>2, <2>2, <3>2 DEF LastAnswer, AnswerPacket
    <3>4. t \notin Topics(granted)
      BY <1>2, <2>1, <3>3 DEF StaysInv
    <3>. QED BY <3>1, <3>4 DEF Mentions
  <2>3. confirmed' \cap wanted = {} /\ confirmed' \cap Topics(granted) = {}
    BY <2>1, <2>2 DEF StaysInv
  <2>4. \A i \in DOMAIN toBroker :
          toBroker[i].type = "SUBSCRIBE" => confirmed' \cap Topics(toBroker[i].subs) = {}
    BY <2>1, <2>2 DEF StaysInv
  <2>. QED BY <1>1, <1>3, <1>4, <2>3, <2>4 DEF StaysInv
<1>. QED BY <1>5, <1>6

(* The broker grants what it reads, which is of no confirmed topic, and
   answers last about what it has just read.                               *)
LEMMA BrokerKeepsStays ==
  ASSUME CacheInv, StepInv, StaysInv,
         BrokerUnsubscribes \/ \E refused \in SUBSET Topic : BrokerSubscribes(refused)
  PROVE  StaysInv'
<1> DEFINE p == Head(toBroker)
           n == Len(toClient)
<1>1. /\ toBroker # <<>> /\ toBroker \in Seq(CallPacket) /\ toBroker' = Tail(toBroker)
      /\ toClient \in Seq(AnswerPacket) /\ p.type \in {"SUBSCRIBE", "UNSUBSCRIBE"}
      /\ UNCHANGED <<subscriptions, call, wanted, confirmed>>
  BY DEF BrokerUnsubscribes, BrokerSubscribes, BrokerReads, StepInv, PacketTypes
<1>2. PICK a : /\ toClient' = Append(toClient, a) /\ a.topics = Topics(p.subs)
               /\ a.type = IF p.type = "SUBSCRIBE" THEN "SUBACK" ELSE "UNSUBACK"
  BY DEF BrokerUnsubscribes, BrokerSubscribes, BrokerReads, BrokerSends
<1>3. /\ \A t \in Topics(granted') : t \in Topics(granted) \/ t \in Topics(p.subs)
      /\ p.type = "UNSUBSCRIBE" => \A t \in Topics(p.subs) : t \notin Topics(granted')
  <2>1. CASE BrokerUnsubscribes
    BY <2>1 DEF BrokerUnsubscribes, Topics
  <2>2. ASSUME NEW refused \in SUBSET Topic, BrokerSubscribes(refused)
        PROVE  /\ \A t \in Topics(granted') : t \in Topics(granted) \/ t \in Topics(p.subs)
               /\ p.type = "SUBSCRIBE"
    BY <2>2 DEF BrokerSubscribes, BrokerReads, Topics
  <2>. QED BY <2>1, <2>2
<1>4. p.type = "SUBSCRIBE" => confirmed \cap Topics(p.subs) = {}
  <2>1. 1 \in DOMAIN toBroker /\ p = toBroker[1]
    BY <1>1
  <2>. QED BY <2>1 DEF StaysInv
<1>5. \A i \in DOMAIN toBroker' : i + 1 \in DOMAIN toBroker /\ toBroker'[i] = toBroker[i + 1]
  BY <1>1
<1>6. /\ n \in Nat /\ DOMAIN toClient = 1..n /\ DOMAIN toClient' = 1..(n + 1)
      /\ toClient'[n + 1] = a /\ \A i \in 1..n : toClient'[i] = toClient[i]
  BY <1>1, <1>2
<1> HIDE DEF p, n
<1>7. confirmed' \cap Topics(granted') = {}
  BY <1>1, <1>3, <1>4 DEF StaysInv
<1>8. \A i \in DOMAIN toBroker' :
        toBroker'[i].type = "SUBSCRIBE" => confirmed' \cap Topics(toBroker'[i].subs) = {}
  BY <1>1, <1>5 DEF StaysInv
<1>9. ASSUME NEW i \in DOMAIN toClient', NEW t \in Topic, LastAnswer(i, t)',
             toClient'[i].type = "UNSUBACK"
      PROVE  t \notin Topics(granted')
  <2>1. CASE i = n + 1
    BY <1>1, <1>2, <1>3, <1>6, <1>9, <2>1 DEF LastAnswer
  <2>2. CASE i # n + 1
    <3>1. i \in 1..n /\ n + 1 > i /\ n + 1 \in DOMAIN toClient'
      BY <1>6, <2>2
    <3>2. t \notin Topics(p.subs)
      BY <1>2, <1>6, <1>9, <3>1 DEF LastAnswer
    <3>3. LastAnswer(i, t) /\ toClient[i].type = "UNSUBACK"
      <4>1. \A j \in DOMAIN toClient : j \in DOMAIN toClient' /\ toClient'[j] = toClient[j]
        BY <1>6
      <4>. QED BY <1>6, <1>9, <3>1, <4>1 DEF LastAnswer
    <3>4. t \notin Topics(granted)
      BY <1>6, <3>1, <3>3 DEF StaysInv
    <3>. QED BY <1>3, <3>2, <3>4
  <2>. QED BY <2>1, <2>2
<1>10. Cached' = Cached /\ Pending' = Pending /\ Encoded' = Encoded
  BY <1>1 DEF Cached, Active, Pending, Encoded
<1>. QED BY <1>1, <1>7, <1>8, <1>9, <1>10 DEF StaysInv

LEMMA StaysInvHolds == Spec => []StaysInv
<1>1. Init => StaysInv
  <2> SUFFICES ASSUME Init PROVE StaysInv
    OBVIOUS
  <2>1. /\ subscriptions = [s \in Slot |-> FreeSlot] /\ call = NoCall /\ granted = {}
        /\ toBroker = <<>> /\ toClient = <<>> /\ wanted = {} /\ confirmed = {}
    BY DEF Init, ConnInit
  <2>2. Cached = {} /\ Topics({}) = {} /\ call.op = "none"
    BY <2>1, NoCallSays DEF Cached, Active
  <2>. QED BY <2>1, <2>2 DEF StaysInv
<1>2. ASSUME CacheInv, StepInv, StaysInv, [Next]_vars PROVE StaysInv'
  <2>1. CASE \/ Connect \/ Disconnect \/ Break \/ Resume \/ ResubscribeReturn \/ CacheFull
             \/ \E o \in Offers, session_present \in BOOLEAN : RecvConnack(o, session_present)
             \/ UNCHANGED vars
    <3>1. /\ UNCHANGED <<subscriptions, wanted, confirmed>> /\ granted' \subseteq granted
          /\ call' \in {call, NoCall} /\ toBroker' \in {toBroker, <<>>}
          /\ toClient' \in {toClient, <<>>}
      BY <2>1 DEF Connect, ConnConnect, Disconnect, ConnDisconnect, ConnClose, Break, ConnBreak, Resume,
                  ResubscribeReturn, CacheFull, Fails, RecvConnack, ConnRecvConnack, vars,
                  connVars, network, subVars
    <3>. QED BY <1>2, <3>1, StaysFrame
  <2>. QED BY <1>2, <2>1, EncodeKeepsStays, SendKeepsStays, CallKeepsStays, AnswerKeepsStays,
              BrokerKeepsStays DEF Next
<1>. QED BY <1>1, <1>2, CacheInvHolds, StepInvHolds, PTL DEF Spec

(* A topic whose unsubscription the broker has confirmed is not subscribed
   again, neither by noxmqtt_resubscribe_all nor by a packet still under
   way, until the application calls noxmqtt_subscribe for it.              *)
THEOREM NoGhostSubscription == Spec => []UnsubscribedStays
<1>1. StepInv /\ StaysInv => UnsubscribedStays
  <2> SUFFICES ASSUME StepInv, StaysInv, NEW t \in confirmed
               PROVE  WillHold(t) = {} /\ t \notin Topics(granted)
    BY DEF UnsubscribedStays
  <2>1. t \notin Topics(granted)
    BY DEF StaysInv
  <2>2. CASE MentionsIn(toBroker, t) = {}
    <3>1. For(granted, t) = {}
      BY <2>1 DEF For, Topics
    <3>. QED BY <2>1, <2>2, <3>1, HoldsNone, WillHoldIs
  <2>3. CASE MentionsIn(toBroker, t) # {}
    <3>1. toBroker \in Seq(CallPacket)
      BY DEF StepInv, PacketTypes
    <3>2. PICK i \in MentionsIn(toBroker, t) : \A j \in MentionsIn(toBroker, t) : j <= i
      BY <2>3, <3>1, LastMentionExists
    <3>3. toBroker[i].type # "SUBSCRIBE"
      BY <3>2 DEF MentionsIn, StaysInv
    <3>4. HoldsAfter(toBroker, granted, t) = {}
      BY <3>1, <3>2, <3>3, HoldsLast DEF SaysOf
    <3>. QED BY <2>1, <3>4, WillHoldIs
  <2>. QED BY <2>2, <2>3
<1>. QED BY <1>1, StepInvHolds, StaysInvHolds, PTL
=============================================================================
