---------------------------- MODULE OutboxProofs ----------------------------
(***************************************************************************)
(* Theorems about Outbox, for every number of slots, every set of messages *)
(* and every size of the identifier counter.  First what the client alone  *)
(* guarantees: type correctness, whatever the threads do, and, while they  *)
(* do not overlap, consistency of the outbox and that a message taken over *)
(* stays in it.  Then what needs to know what is under way: a message is   *)
(* released only when the broker has it, a PUBLISH without DUP is the      *)
(* first of its message, the Receive Maximum is kept, and publishing       *)
(* implements ReliableDelivery.                                            *)
(***************************************************************************)
EXTENDS Outbox, FiniteSetTheorems, WellFoundedInduction, TLAPS

-----------------------------------------------------------------------------
(* Lemmas about the operators                                              *)

(* A non-empty set of slots has a first element, and First returns it.     *)
LEMMA FirstIsMember ==
  ASSUME NEW S \in SUBSET Slot, S # {}
  PROVE  First(S) \in S /\ \A t \in S : First(S) <= t
<1>1. S \subseteq Nat
  BY OutboxAssumption DEF Slot
<1>2. PICK x \in S : \A y \in S : ~(<<y, x>> \in OpToRel(<, Nat))
  BY <1>1, NatLessThanWellFounded, WFMin
<1>3. \A y \in S : x <= y
  <2>1. ASSUME NEW y \in S, ~(x <= y) PROVE FALSE
    <3>. x \in Nat /\ y \in Nat
      BY <1>1
    <3>1. y < x
      BY <2>1
    <3>2. <<y, x>> \in OpToRel(<, Nat)
      BY <3>1 DEF OpToRel
    <3>. QED BY <3>2, <1>2, <2>1
  <2>. QED BY <2>1
<1>. QED BY <1>2, <1>3 DEF First

(* Any set of slots is finite.                                             *)
LEMMA SlotsFinite ==
  ASSUME NEW S \in SUBSET Slot
  PROVE  IsFiniteSet(S) /\ Cardinality(S) \in Nat
<1>1. IsFiniteSet(Slot)
  BY OutboxAssumption, FS_Interval DEF Slot
<1>. QED BY <1>1, FS_Subset, FS_CardinalityType

(* The identifier after an identifier is an identifier.                    *)
LEMMA NextIdentType ==
  ASSUME packet_ident \in Ident
  PROVE  NextIdent \in Ident
BY OutboxAssumption DEF Ident, NextIdent

LEMMA FreeItemType == FreeItem \in Item
BY OutboxAssumption DEF FreeItem, Item, SlotState, Ident

LEMMA DefaultCapsType == DefaultCaps \in Capabilities
BY DEF DefaultCaps, Capabilities

LEMMA PublishPacketType ==
  ASSUME NEW pid \in Ident, NEW dup \in 0..1, NEW m \in Msg
  PROVE  PublishPacket(pid, dup, m) \in Packet
BY DEF PublishPacket, Packet

LEMMA PubrelPacketType ==
  ASSUME NEW pid \in Ident
  PROVE  PubrelPacket(pid) \in Packet
BY DEF PubrelPacket, Packet

(* A sent packet keeps the stream typed.                                   *)
LEMMA SendType ==
  ASSUME toBroker \in Seq(Packet), NEW p \in Packet, Send(p)
  PROVE  toBroker' \in Seq(Packet)
BY DEF Send

-----------------------------------------------------------------------------
(* The outbox operations: types, consistency, what they keep               *)

(* The outbox variables alone.                                             *)
OutboxTypeOK == outbox \in [Slot -> Item] /\ outbox_count \in Nat

(* A slot in use holds a message.                                          *)
SlotsFilled == \A s \in Used : outbox[s].msg \in Msg

OutboxInv == OutboxTypeOK /\ OutboxCountExact /\ IdentsUnique /\ FreedIsEmpty /\ SlotsFilled

(* noxmqtt_outbox_store keeps the outbox consistent, and with an identifier
   that is not in use it keeps every item and adds the message.            *)
LEMMA StoreKeepsInv ==
  ASSUME OutboxInv, NEW pid \in Ident, NEW m \in Msg,
         NEW st \in {"QUEUED", "PUBLISH_SENT"}, OutboxStore(pid, m, st)
  PROVE  /\ OutboxInv'
         /\ \A s \in Used : s \in Used' /\ outbox'[s] = outbox[s]
         /\ Holding(pid) = {} => \E s \in Used' : outbox'[s].msg = m
<1>1. CASE Holding(pid) # {}
  BY <1>1 DEF OutboxStore, OutboxInv, OutboxTypeOK, OutboxCountExact, IdentsUnique,
              FreedIsEmpty, SlotsFilled, Used
<1>2. CASE Holding(pid) = {}
  <2> DEFINE f == First(InState("FREE"))
             item == [state |-> st, pid |-> pid, dup |-> 0, msg |-> m]
  <2>1. /\ InState("FREE") # {}
        /\ outbox' = [outbox EXCEPT ![f] = item]
        /\ outbox_count' = outbox_count + 1
    BY <1>2 DEF OutboxStore
  <2>2. f \in Slot /\ outbox[f].state = "FREE"
    BY <2>1, FirstIsMember DEF InState
  <2>3. item \in Item /\ item.state # "FREE" /\ item.pid = pid /\ item.msg = m
    BY DEF Item, SlotState
  <2>4. /\ outbox' \in [Slot -> Item]
        /\ outbox'[f] = item
        /\ \A s \in Slot \ {f} : outbox'[s] = outbox[s]
    BY <2>1, <2>2, <2>3 DEF OutboxInv, OutboxTypeOK
  <2> HIDE DEF f, item
  <2>5. Used' = Used \cup {f} /\ f \notin Used
    BY <2>2, <2>3, <2>4 DEF Used
  <2>6. Cardinality(Used') = Cardinality(Used) + 1
    <3>1. IsFiniteSet(Used)
      BY SlotsFinite DEF Used
    <3>. QED BY <2>5, <3>1, FS_AddElement
  <2>7. OutboxCountExact'
    BY <2>1, <2>6 DEF OutboxInv, OutboxCountExact
  <2>8. IdentsUnique'
    BY <1>2, <2>2, <2>3, <2>4, <2>5 DEF OutboxInv, IdentsUnique, Holding, Used
  <2>9. FreedIsEmpty'
    BY <2>3, <2>4 DEF OutboxInv, FreedIsEmpty
  <2>10. SlotsFilled'
    BY <2>3, <2>4, <2>5 DEF OutboxInv, SlotsFilled, Used
  <2>11. \A s \in Used : s \in Used' /\ outbox'[s] = outbox[s]
    BY <2>4, <2>5 DEF Used
  <2>12. \E s \in Used' : outbox'[s].msg = m
    BY <2>3, <2>4, <2>5
  <2>13. outbox_count' \in Nat
    BY <2>1 DEF OutboxInv, OutboxTypeOK
  <2>. QED BY <2>4, <2>7, <2>8, <2>9, <2>10, <2>11, <2>12, <2>13
       DEF OutboxInv, OutboxTypeOK
<1>. QED BY <1>1, <1>2

(* noxmqtt_outbox_remove keeps the outbox consistent and every item of
   another identifier.                                                     *)
LEMMA RemoveKeepsInv ==
  ASSUME OutboxInv, NEW pid, OutboxRemove(pid)
  PROVE  /\ OutboxInv'
         /\ \A s \in Used : outbox[s].pid # pid => s \in Used' /\ outbox'[s] = outbox[s]
<1>1. CASE Holding(pid) = {}
  BY <1>1 DEF OutboxRemove, OutboxInv, OutboxTypeOK, OutboxCountExact, IdentsUnique,
              FreedIsEmpty, SlotsFilled, Used
<1>2. CASE Holding(pid) # {}
  <2> DEFINE f == First(Holding(pid))
  <2>1. f \in Used /\ f \in Slot /\ outbox[f].pid = pid
    BY <1>2, FirstIsMember DEF Holding, Used
  <2>2. /\ outbox' = [outbox EXCEPT ![f] = FreeItem]
        /\ outbox_count' = IF outbox_count > 0 THEN outbox_count - 1 ELSE outbox_count
    BY <1>2 DEF OutboxRemove
  <2> HIDE DEF f
  <2>3. /\ outbox' \in [Slot -> Item]
        /\ outbox'[f] = FreeItem
        /\ \A s \in Slot \ {f} : outbox'[s] = outbox[s]
    BY <2>1, <2>2, FreeItemType DEF OutboxInv, OutboxTypeOK
  <2>4. FreeItem.state = "FREE"
    BY DEF FreeItem
  <2>5. Used' = Used \ {f}
    BY <2>1, <2>3, <2>4 DEF Used
  <2>6. IsFiniteSet(Used) /\ Cardinality(Used) \in Nat
    BY SlotsFinite DEF Used
  <2>7. Cardinality(Used') = Cardinality(Used) - 1
    BY <2>1, <2>5, <2>6, FS_RemoveElement
  <2>8. Cardinality(Used) # 0
    BY <2>1, <2>6, FS_EmptySet
  <2>9. outbox_count = Cardinality(Used)
    BY DEF OutboxInv, OutboxCountExact
  <2>10. outbox_count' \in Nat /\ OutboxCountExact'
    BY <2>2, <2>6, <2>7, <2>8, <2>9 DEF OutboxCountExact
  <2>11. IdentsUnique'
    BY <2>3, <2>5 DEF OutboxInv, IdentsUnique, Used
  <2>12. FreedIsEmpty'
    BY <2>3 DEF OutboxInv, FreedIsEmpty
  <2>13. SlotsFilled'
    BY <2>3, <2>5 DEF OutboxInv, SlotsFilled, Used
  <2>14. \A s \in Used : outbox[s].pid # pid => s \in Used' /\ outbox'[s] = outbox[s]
    BY <2>1, <2>3, <2>5 DEF Used
  <2>. QED BY <2>3, <2>10, <2>11, <2>12, <2>13, <2>14
       DEF OutboxInv, OutboxTypeOK
<1>. QED BY <1>1, <1>2

(* Changing the state or the DUP flag of one item in use keeps the outbox
   consistent: the sends of the pump and of the replay, and PUBREC.        *)
LEMMA UpdateKeepsInv ==
  ASSUME OutboxInv, NEW s \in Used, NEW st \in SlotState \ {"FREE"}, NEW dup \in 0..1,
         outbox' = [outbox EXCEPT ![s].state = st, ![s].dup = dup],
         UNCHANGED outbox_count
  PROVE  /\ OutboxInv'
         /\ Used' = Used
         /\ \A t \in Slot : outbox'[t].msg = outbox[t].msg /\ outbox'[t].pid = outbox[t].pid
<1>1. s \in Slot /\ outbox[s] \in Item /\ outbox[s].state # "FREE"
  BY DEF Used, OutboxInv, OutboxTypeOK
<1>2. outbox' = [outbox EXCEPT ![s] = [outbox[s] EXCEPT !.state = st, !.dup = dup]]
  BY <1>1 DEF OutboxInv, OutboxTypeOK
<1> DEFINE item == [outbox[s] EXCEPT !.state = st, !.dup = dup]
<1>3. item \in Item /\ item.state = st /\ item.pid = outbox[s].pid /\ item.msg = outbox[s].msg
  BY <1>1 DEF Item
<1>4. outbox' \in [Slot -> Item] /\ outbox'[s] = item /\ \A t \in Slot \ {s} : outbox'[t] = outbox[t]
  BY <1>1, <1>2, <1>3 DEF OutboxInv, OutboxTypeOK
<1> HIDE DEF item
<1>5. \A t \in Slot : /\ outbox'[t].msg = outbox[t].msg
                      /\ outbox'[t].pid = outbox[t].pid
                      /\ outbox'[t].state = "FREE" <=> outbox[t].state = "FREE"
  BY <1>1, <1>3, <1>4
<1>6. Used' = Used
  BY <1>5 DEF Used
<1>7. OutboxCountExact' /\ IdentsUnique' /\ FreedIsEmpty'
  <2>1. OutboxCountExact'
    BY <1>6 DEF OutboxInv, OutboxCountExact
  <2>2. IdentsUnique'
    BY <1>5, <1>6 DEF OutboxInv, IdentsUnique, Used
  <2>3. FreedIsEmpty'
    BY <1>3, <1>4 DEF OutboxInv, FreedIsEmpty
  <2>. QED BY <2>1, <2>2, <2>3
<1>8. SlotsFilled'
  BY <1>5, <1>6 DEF OutboxInv, SlotsFilled, Used
<1>. QED BY <1>4, <1>5, <1>6, <1>7, <1>8 DEF OutboxInv, OutboxTypeOK

-----------------------------------------------------------------------------
(* The threads                                                             *)

ThreadTypeOK ==
  /\ at \in [Thread -> {"out", "call", "pump", "mark", "callback", "replay"}]
  /\ scan \in [Looping -> Scan]
  /\ overlaps \in 0..MaxOverlaps

(* A thread that works counts an overlap, unless the others are outside.   *)
LEMMA WorksType ==
  ASSUME overlaps \in 0..MaxOverlaps, NEW t \in Thread, Works(t)
  PROVE  overlaps' \in 0..MaxOverlaps
BY OutboxAssumption DEF Works

LEMMA WorksAlone ==
  ASSUME ThreadTypeOK, NEW t \in Thread, Works(t), Undisturbed'
  PROVE  Undisturbed /\ \A u \in Thread \ {t} : at[u] = "out"
BY OutboxAssumption DEF ThreadTypeOK, Works, Undisturbed

LEMMA MovesType ==
  ASSUME ThreadTypeOK, NEW t \in Thread,
         NEW label \in {"out", "call", "pump", "mark", "callback", "replay"},
         Moves(t, label) \/ (label = "out" /\ CallEnds(t))
  PROVE  at' \in [Thread -> {"out", "call", "pump", "mark", "callback", "replay"}]
BY DEF ThreadTypeOK, Moves, CallEnds

LEMMA MoveOne ==
  ASSUME ThreadTypeOK, NEW t \in Thread, NEW label, Moves(t, label)
  PROVE  at'[t] = label /\ \A u \in Thread \ {t} : at'[u] = at[u]
BY DEF ThreadTypeOK, Moves

LEMMA ScanTypes == NoScan \in Scan /\ NumSlots + 1 \in Nat /\ 1 \in Nat /\ Slot \subseteq Nat
BY OutboxAssumption DEF NoScan, Scan, Slot

(* The part of the type invariant that is about the connection, the packets
   under way and the broker.                                               *)
WireTypeOK ==
  /\ connected \in BOOLEAN
  /\ caps \in Capabilities
  /\ link \in {"down", "connecting", "up", "broken"}
  /\ toBroker \in Seq(Packet)
  /\ toClient \in Seq(Ack)
  /\ held \subseteq Ident
  /\ received \in [Msg -> 0..2]
  /\ refused \subseteq Msg
  /\ session_lost \in BOOLEAN
  /\ connects \in Nat /\ others \in Nat

(* What a PUBLISH on its way to the broker carries.                        *)
PublishesFilled ==
  \A i \in 1..Len(toBroker) : toBroker[i].type = "PUBLISH" => toBroker[i].msg \in Msg

WireInv == WireTypeOK /\ PublishesFilled


(* The slot the pump sends next: QUEUED, with a message that can be sent.  *)
LEMMA PumpFindsOne ==
  ASSUME OutboxTypeOK, NEW t \in Looping, NEW s \in PumpFinds(t)
  PROVE  /\ s \in Slot /\ s \in InState("QUEUED") /\ s \in Used
         /\ outbox[s] \in Item /\ outbox[s].msg \in Msg
         /\ ~(scan[t].count >= scan[t].limit)
         /\ ~SendFails(outbox[s].msg)
<1> DEFINE found == Ahead(t) \cap InState("QUEUED")
<1>1. found # {} /\ ~(scan[t].count >= scan[t].limit) /\ s = First(found) /\ ~SendFails(outbox[s].msg)
  BY DEF PumpFinds
<1>2. found \subseteq Slot
  BY DEF Ahead
<1>3. s \in found
  BY <1>1, <1>2, FirstIsMember
<1> HIDE DEF found
<1>4. s \in Slot /\ s \in InState("QUEUED")
  BY <1>2, <1>3 DEF found
<1>5. outbox[s] \in Item /\ outbox[s].state = "QUEUED"
  BY <1>4 DEF OutboxTypeOK, InState
<1>6. outbox[s].msg # NoMsg
  BY <1>1 DEF SendFails, CannotEncode
<1>. QED BY <1>1, <1>4, <1>5, <1>6 DEF Item, Used

(* The slot the replay looks at next is in use.                            *)
LEMMA ReplayLooksAtUsed ==
  ASSUME ReplayLeft # {}
  PROVE  First(ReplayLeft) \in Used /\ First(ReplayLeft) \in Slot
<1>1. ReplayLeft \subseteq Slot /\ ReplayLeft \subseteq Used
  BY DEF ReplayLeft, Ahead
<1>. QED BY <1>1, FirstIsMember

-----------------------------------------------------------------------------
(* Type correctness, whatever the threads do                               *)

(* What the client remembers of its messages.                              *)
ClientTypeOK ==
  /\ packet_ident \in Ident
  /\ status \in [Msg -> {"new", "failed", "pending", "done"}]
  /\ reused \in BOOLEAN

LEMMA StoreKeepsType ==
  ASSUME OutboxTypeOK, NEW pid \in Ident, NEW m \in Msg,
         NEW st \in {"QUEUED", "PUBLISH_SENT"}, OutboxStore(pid, m, st)
  PROVE  OutboxTypeOK'
<1>1. [state |-> st, pid |-> pid, dup |-> 0, msg |-> m] \in Item
  BY DEF Item, SlotState
<1>. QED BY <1>1 DEF OutboxTypeOK, OutboxStore

LEMMA RemoveKeepsType ==
  ASSUME OutboxTypeOK, NEW pid, OutboxRemove(pid)
  PROVE  OutboxTypeOK'
BY FreeItemType DEF OutboxTypeOK, OutboxRemove

LEMMA UpdateKeepsType ==
  ASSUME OutboxTypeOK, NEW s, NEW st \in SlotState, NEW dup \in 0..1, UNCHANGED outbox_count,
         \/ outbox' = [outbox EXCEPT ![s].state = st]
         \/ outbox' = [outbox EXCEPT ![s].dup = dup]
         \/ outbox' = [outbox EXCEPT ![s].state = st, ![s].dup = dup]
  PROVE  OutboxTypeOK'
<1>1. CASE s \in Slot
  <2>1. outbox[s] \in Item
    BY <1>1 DEF OutboxTypeOK
  <2>2. /\ [outbox[s] EXCEPT !.state = st] \in Item
        /\ [outbox[s] EXCEPT !.dup = dup] \in Item
        /\ [outbox[s] EXCEPT !.state = st, !.dup = dup] \in Item
    BY <2>1 DEF Item
  <2>3. \/ outbox' = [outbox EXCEPT ![s] = [outbox[s] EXCEPT !.state = st]]
        \/ outbox' = [outbox EXCEPT ![s] = [outbox[s] EXCEPT !.dup = dup]]
        \/ outbox' = [outbox EXCEPT ![s] = [outbox[s] EXCEPT !.state = st, !.dup = dup]]
    BY <1>1 DEF OutboxTypeOK
  <2>. QED BY <1>1, <2>2, <2>3 DEF OutboxTypeOK
<1>2. CASE s \notin Slot
  <2>1. outbox' = outbox
    BY <1>2 DEF OutboxTypeOK
  <2>. QED BY <2>1 DEF OutboxTypeOK
<1>. QED BY <1>1, <1>2

LEMMA OutboxKeepsType ==
  ASSUME OutboxTypeOK, ClientTypeOK, [Next]_vars
  PROVE  OutboxTypeOK'
<1> USE DEF clientVars, historyVars
<1>1. packet_ident \in Ident
  BY DEF ClientTypeOK
<1>2. ASSUME NEW t \in Thread, NEW m \in Msg, PublishQueued(t, m) \/ PublishSent(t, m)
      PROVE  OutboxTypeOK'
  <2>1. PICK st \in {"QUEUED", "PUBLISH_SENT"} : OutboxStore(packet_ident, m, st)
    BY <1>2 DEF PublishQueued, PublishSent
  <2>. QED BY <1>1, <2>1, StoreKeepsType
<1>3. ASSUME NEW t \in Thread, NEW m \in Msg, PublishFailed(t, m)
      PROVE  OutboxTypeOK'
  <2>1. OutboxStore(packet_ident, m, "PUBLISH_SENT") \/ OutboxRemove(packet_ident)
    BY <1>3 DEF PublishFailed
  <2>. QED BY <1>1, <2>1, StoreKeepsType, RemoveKeepsType
<1>4. CASE RecvPuback \/ RecvPubcomp \/ RecvPubrecError
  <2>1. PICK pid : OutboxRemove(pid)
    BY <1>4 DEF RecvPuback, RecvPubcomp, RecvPubrecError, Completed
  <2>. QED BY <2>1, RemoveKeepsType
<1>5. CASE RecvPubrec
  <2>1. UNCHANGED outbox_count
    BY <1>5 DEF RecvPubrec
  <2>2. \/ UNCHANGED outbox
        \/ \E s : outbox' = [outbox EXCEPT ![s].state = "PUBREL_SENT"]
    BY <1>5 DEF RecvPubrec
  <2>3. "PUBREL_SENT" \in SlotState /\ 0 \in 0..1
    BY DEF SlotState
  <2>. QED BY <2>1, <2>2, <2>3, UpdateKeepsType DEF OutboxTypeOK
<1>6. ASSUME NEW t \in Looping, PumpMark(t)
      PROVE  OutboxTypeOK'
  <2>1. "PUBLISH_SENT" \in SlotState /\ 0 \in 0..1
    BY DEF SlotState
  <2>. QED BY <1>6, <2>1, UpdateKeepsType DEF PumpMark
<1>7. CASE ReplaySend \/ ReplayAbort
  <2> DEFINE s == First(ReplayLeft)
             dup == IF outbox[s].state = "PUBLISH_SENT" THEN 1 ELSE outbox[s].dup
  <2>1. s \in Slot /\ UNCHANGED outbox_count
    BY <1>7, ReplayLooksAtUsed DEF ReplaySend, ReplayAbort
  <2>2. dup \in 0..1
    BY <2>1 DEF OutboxTypeOK, Item
  <2>3. \/ UNCHANGED outbox
        \/ outbox' = [outbox EXCEPT ![s].state = "PUBLISH_SENT", ![s].dup = dup]
        \/ outbox' = [outbox EXCEPT ![s].dup = 1]
    BY <1>7 DEF ReplaySend, ReplayAbort
  <2>4. "PUBLISH_SENT" \in SlotState /\ 1 \in 0..1
    BY DEF SlotState
  <2> HIDE DEF s, dup
  <2>. QED BY <2>1, <2>2, <2>3, <2>4, UpdateKeepsType DEF OutboxTypeOK
<1>8. CASE UNCHANGED <<outbox, outbox_count>>
  BY <1>8 DEF OutboxTypeOK
<1>. QED BY <1>2, <1>3, <1>4, <1>5, <1>6, <1>7, <1>8
     DEF Next, AppCall, AppReturn, Publish, PublishRejected, PublishQos0, TakeIdent, Connect,
         Disconnect, Process, Pump, PumpSend, PumpReturn, RecvAck, RecvConnack, Resume, Replay,
         ReplayReturn, Break, BrokerStep, vars

LEMMA ClientKeepsType ==
  ASSUME ClientTypeOK, [Next]_vars
  PROVE  ClientTypeOK'
<1> USE DEF clientVars, historyVars
<1>1. ASSUME NEW t \in Thread, NEW m \in Msg, Publish(t, m)
      PROVE  ClientTypeOK'
  <2>1. \E st \in {"failed", "done", "pending"} : Told(m, st)
    BY <1>1 DEF Publish, PublishRejected, PublishQos0, PublishQueued, PublishSent, PublishFailed
  <2>2. status' \in [Msg -> {"new", "failed", "pending", "done"}]
    BY <2>1 DEF ClientTypeOK, Told
  <2>3. TakeOwnIdent \/ UNCHANGED <<packet_ident, reused>>
    BY <1>1 DEF Publish, PublishRejected, PublishQos0, PublishQueued, PublishSent, PublishFailed
  <2>4. packet_ident' \in Ident /\ reused' \in BOOLEAN
    BY <2>3, NextIdentType DEF ClientTypeOK, TakeOwnIdent, InUse
  <2>. QED BY <2>2, <2>4 DEF ClientTypeOK
<1>2. ASSUME NEW t \in Thread, TakeIdent(t)
      PROVE  ClientTypeOK'
  BY <1>2, NextIdentType DEF TakeIdent, ClientTypeOK
<1>3. CASE RecvPuback \/ RecvPubcomp \/ RecvPubrecError
  <2>1. PICK pid : Completed(pid)
    BY <1>3 DEF RecvPuback, RecvPubcomp, RecvPubrecError
  <2>. QED BY <2>1 DEF Completed, ClientTypeOK
<1>4. CASE UNCHANGED <<packet_ident, status, reused>>
  BY <1>4 DEF ClientTypeOK
<1>. QED BY <1>1, <1>2, <1>3, <1>4
     DEF Next, AppCall, AppReturn, Connect, Disconnect, Process, Pump, PumpSend, PumpMark,
         PumpReturn, RecvAck, RecvPubrec, RecvConnack, Resume, Replay, ReplaySend, ReplayAbort,
         ReplayReturn, Break, BrokerStep, vars

(* Where the threads are and what their loops remember.                    *)
LEMMA ThreadsKeepType ==
  ASSUME OutboxTypeOK, ThreadTypeOK, WireTypeOK, OutboxTypeOK', [Next]_vars
  PROVE  ThreadTypeOK'
<1> USE DEF threadVars
<1>1. Looping \subseteq Thread /\ "receiver" \in Thread /\ "receiver" \in Looping /\ "app" \in Thread
  BY DEF Thread, Looping
<1>2. Cardinality(Inflight') \in Nat /\ PumpLimit \in Nat
  <2>1. Inflight' \subseteq Slot
    BY DEF Inflight, InState
  <2>. QED BY <2>1, SlotsFinite, OutboxAssumption DEF PumpLimit, WireTypeOK, Capabilities
<1>3. ASSUME NEW t \in Looping, StartsPump(t)
      PROVE  /\ at' \in [Thread -> {"out", "call", "pump", "mark", "callback", "replay"}]
             /\ scan' \in [Looping -> Scan]
  <2> DEFINE r == [next |-> 1, count |-> Cardinality(Inflight'), limit |-> PumpLimit]
  <2>1. r \in Scan /\ scan' = [scan EXCEPT ![t] = r]
    BY <1>2, <1>3 DEF Scan, StartsPump
  <2> HIDE DEF r
  <2>2. scan' \in [Looping -> Scan]
    BY <2>1 DEF ThreadTypeOK
  <2>. QED BY <1>1, <1>3, <2>2, MovesType DEF StartsPump
<1>4. CASE AppCall \/ AppReturn
  BY <1>1, <1>4, MovesType DEF AppCall, AppReturn, ThreadTypeOK
<1>5. ASSUME NEW t \in Thread, NEW m \in Msg, Publish(t, m)
      PROVE  ThreadTypeOK'
  <2>1. Works(t) /\ CallEnds(t) /\ UNCHANGED scan
    BY <1>5 DEF Publish, PublishRejected, PublishQos0, PublishQueued, PublishSent, PublishFailed, Calls
  <2>. QED BY <2>1, WorksType, MovesType DEF ThreadTypeOK
<1>6. ASSUME NEW t \in Thread, TakeIdent(t) \/ Connect(t) \/ Disconnect(t)
      PROVE  ThreadTypeOK'
  <2>1. Works(t) /\ CallEnds(t) /\ UNCHANGED scan
    BY <1>6 DEF TakeIdent, Connect, Disconnect, Calls
  <2>. QED BY <2>1, WorksType, MovesType DEF ThreadTypeOK
<1>7. ASSUME NEW t \in Looping, Process(t)
      PROVE  ThreadTypeOK'
  BY <1>3, <1>7 DEF Process, ThreadTypeOK
<1>8. ASSUME NEW t \in Looping, PumpSend(t)
      PROVE  ThreadTypeOK'
  <2>1. PICK s \in PumpFinds(t) : scan' = [scan EXCEPT ![t].next = s]
    BY <1>8 DEF PumpSend
  <2>2. s \in Nat
    BY PumpFindsOne, ScanTypes
  <2>3. scan' \in [Looping -> Scan]
    BY <2>1, <2>2 DEF ThreadTypeOK, Scan
  <2>. QED BY <1>1, <1>8, <2>3, WorksType, MovesType DEF PumpSend, ThreadTypeOK
<1>9. ASSUME NEW t \in Looping, PumpMark(t)
      PROVE  ThreadTypeOK'
  <2>1. scan' = [scan EXCEPT ![t] = [scan[t] EXCEPT !.next = scan[t].next + 1, !.count = scan[t].count + 1]]
    BY <1>9 DEF PumpMark, ThreadTypeOK, Scan
  <2>2. scan[t] \in [next : Nat, count : Nat, limit : Nat]
    BY DEF ThreadTypeOK, Scan
  <2>3. [scan[t] EXCEPT !.next = scan[t].next + 1, !.count = scan[t].count + 1] \in Scan
    <3>1. scan[t].next + 1 \in Nat /\ scan[t].count + 1 \in Nat
      BY <2>2
    <3>. QED BY <2>2, <3>1 DEF Scan
  <2>4. scan' \in [Looping -> Scan]
    BY <2>1, <2>3 DEF ThreadTypeOK
  <2>. QED BY <1>1, <1>9, <2>4, WorksType, MovesType DEF PumpMark, ThreadTypeOK
<1>10. ASSUME NEW t \in Looping, PumpReturn(t)
       PROVE  ThreadTypeOK'
  BY <1>1, <1>10, MovesType, ScanTypes DEF PumpReturn, ThreadTypeOK
<1>11. CASE RecvPuback \/ RecvPubcomp \/ RecvPubrecError
  <2>1. Works("receiver") /\ StartsPump("receiver")
    BY <1>11 DEF RecvPuback, RecvPubcomp, RecvPubrecError, Receives, Completed
  <2>. QED BY <1>1, <1>3, <2>1, WorksType DEF ThreadTypeOK
<1>12. CASE RecvPubrec
  BY <1>1, <1>12, WorksType DEF RecvPubrec, Receives, ThreadTypeOK
<1>13. CASE RecvConnack
  BY <1>1, <1>13, WorksType, MovesType DEF RecvConnack, ThreadTypeOK
<1>14. CASE Resume
  <2>1. \E n \in Nat : scan' = [scan EXCEPT !["receiver"].next = n]
    BY <1>14, ScanTypes DEF Resume
  <2>2. scan' \in [Looping -> Scan]
    BY <1>1, <2>1 DEF ThreadTypeOK, Scan
  <2>. QED BY <1>1, <1>14, <2>2, WorksType, MovesType DEF Resume, ThreadTypeOK
<1>15. CASE ReplaySend
  <2>1. First(ReplayLeft) + 1 \in Nat /\ scan' = [scan EXCEPT !["receiver"].next = First(ReplayLeft) + 1]
    BY <1>15, ReplayLooksAtUsed, ScanTypes DEF ReplaySend
  <2>2. scan' \in [Looping -> Scan]
    BY <1>1, <2>1 DEF ThreadTypeOK, Scan
  <2>. QED BY <1>1, <1>15, <2>2, WorksType DEF ReplaySend, ThreadTypeOK
<1>16. CASE ReplayAbort \/ ReplayReturn
  <2>1. scan' \in [Looping -> Scan]
    BY <1>1, <1>16, ScanTypes DEF ReplayAbort, ReplayReturn, ThreadTypeOK
  <2>2. overlaps' \in 0..MaxOverlaps
    BY <1>1, <1>16, WorksType DEF ReplayAbort, ReplayReturn, ThreadTypeOK
  <2>. QED BY <1>1, <1>16, <2>1, <2>2, MovesType DEF ReplayAbort, ReplayReturn, ThreadTypeOK
<1>17. CASE UNCHANGED threadVars
  BY <1>17 DEF ThreadTypeOK
<1>. QED BY <1>4, <1>5, <1>6, <1>7, <1>8, <1>9, <1>10, <1>11, <1>12, <1>13, <1>14, <1>15, <1>16, <1>17
     DEF Next, Pump, RecvAck, Replay, Break, BrokerStep, vars

-----------------------------------------------------------------------------
(* The connection, the packets under way and the broker                    *)

(* A packet is sent: what is under way stays well-formed.                  *)
LEMMA SendKeepsWire ==
  ASSUME WireInv, NEW p \in Packet, p.type = "PUBLISH" => p.msg \in Msg, Send(p)
  PROVE  toBroker' \in Seq(Packet) /\ PublishesFilled'
<1>1. toBroker \in Seq(Packet)
  BY DEF WireInv, WireTypeOK
<1>2. toBroker' = Append(toBroker, p)
  BY DEF Send
<1>3. /\ toBroker' \in Seq(Packet)
      /\ Len(toBroker') = Len(toBroker) + 1
      /\ Len(toBroker) \in Nat
      /\ toBroker'[Len(toBroker) + 1] = p
      /\ \A i \in 1..Len(toBroker) : toBroker'[i] = toBroker[i]
  BY <1>1, <1>2
<1>4. PublishesFilled'
  <2> SUFFICES ASSUME NEW i \in 1..(Len(toBroker) + 1), toBroker'[i].type = "PUBLISH"
               PROVE  toBroker'[i].msg \in Msg
    BY <1>3 DEF PublishesFilled
  <2>1. CASE i = Len(toBroker) + 1
    BY <1>3, <2>1
  <2>2. CASE i \in 1..Len(toBroker)
    BY <1>3, <2>2 DEF WireInv, PublishesFilled
  <2>. QED BY <1>3, <2>1, <2>2
<1>. QED BY <1>3, <1>4

(* The broker takes the next packet off the wire.                          *)
LEMMA TailKeepsWire ==
  ASSUME WireInv, toBroker # <<>>, toBroker' = Tail(toBroker)
  PROVE  /\ toBroker' \in Seq(Packet) /\ PublishesFilled'
         /\ Head(toBroker) \in Packet
         /\ Head(toBroker).type = "PUBLISH" => Head(toBroker).msg \in Msg
<1>1. toBroker \in Seq(Packet)
  BY DEF WireInv, WireTypeOK
<1>2. /\ toBroker' \in Seq(Packet)
      /\ Len(toBroker) \in Nat /\ Len(toBroker) > 0
      /\ Len(toBroker') = Len(toBroker) - 1
      /\ \A i \in 1..Len(toBroker') : toBroker'[i] = toBroker[i + 1]
      /\ Head(toBroker) = toBroker[1] /\ Head(toBroker) \in Packet
  BY <1>1
<1>3. PublishesFilled'
  BY <1>2 DEF WireInv, PublishesFilled
<1>4. Head(toBroker).type = "PUBLISH" => Head(toBroker).msg \in Msg
  BY <1>2 DEF WireInv, PublishesFilled
<1>. QED BY <1>2, <1>3, <1>4

(* The broker's answer.                                                    *)
LEMMA AnswerType ==
  ASSUME toClient \in Seq(Ack), NEW type \in {"PUBACK", "PUBREC", "PUBCOMP"},
         NEW pid \in Ident, NEW ok \in BOOLEAN, Answer(type, pid, ok)
  PROVE  toClient' \in Seq(Ack)
<1>1. [type |-> type, pid |-> pid, ok |-> ok] \in Ack
  BY DEF Ack
<1>. QED BY <1>1 DEF Answer

LEMMA InitWireInv == Init => WireInv
<1> SUFFICES ASSUME Init PROVE WireInv
  OBVIOUS
<1>1. toBroker \in Seq(Packet) /\ toClient \in Seq(Ack) /\ Len(toBroker) = 0
  BY DEF Init
<1>2. PublishesFilled
  BY <1>1 DEF PublishesFilled
<1>3. received \in [Msg -> 0..2] /\ caps \in Capabilities
  BY DefaultCapsType DEF Init
<1>. QED BY <1>1, <1>2, <1>3 DEF Init, WireInv, WireTypeOK

(* Steps that leave the packets alone.                                     *)
LEMMA WireFrame ==
  ASSUME WireInv, UNCHANGED <<toBroker, toClient, caps, link, connected, connects, others>>,
         UNCHANGED brokerVars
  PROVE  WireInv'
BY DEF WireInv, WireTypeOK, PublishesFilled, brokerVars

(* A send changes nothing else of the connection.                          *)
LEMMA SendFrame ==
  ASSUME WireInv, NEW p \in Packet, p.type = "PUBLISH" => p.msg \in Msg, Send(p),
         toClient' \in Seq(Ack),
         UNCHANGED <<caps, link, connected, brokerVars, boundVars>>
  PROVE  WireInv'
<1>1. toBroker' \in Seq(Packet) /\ PublishesFilled'
  BY SendKeepsWire
<1>. QED BY <1>1 DEF WireInv, WireTypeOK, brokerVars, boundVars

LEMMA PublishKeepsWire ==
  ASSUME ClientTypeOK, WireInv, NEW t \in Thread, NEW m \in Msg, Publish(t, m)
  PROVE  WireInv'
<1>1. /\ PublishPacket(0, 0, m) \in Packet /\ PublishPacket(packet_ident, 0, m) \in Packet
      /\ \A pid : PublishPacket(pid, 0, m).msg = m
  <2>1. 0 \in Ident /\ packet_ident \in Ident
    BY OutboxAssumption DEF Ident, ClientTypeOK
  <2>. QED BY <2>1, PublishPacketType DEF PublishPacket
<1>2. CASE PublishQos0(t, m)
  <2>1. CASE SendFails(m)
    BY <1>2, <2>1, WireFrame DEF PublishQos0, clientVars, boundVars
  <2>2. CASE ~SendFails(m)
    <3>1. Send(PublishPacket(0, 0, m))
      BY <1>2, <2>2 DEF PublishQos0
    <3>2. toClient' \in Seq(Ack) /\ UNCHANGED <<caps, link, connected, brokerVars, boundVars>>
      BY <1>2 DEF PublishQos0, clientVars, WireInv, WireTypeOK
    <3>. QED BY <1>1, <3>1, <3>2, SendFrame
  <2>. QED BY <2>1, <2>2
<1>3. CASE PublishSent(t, m)
  <2>1. Send(PublishPacket(packet_ident, 0, m))
    BY <1>3 DEF PublishSent
  <2>2. toClient' \in Seq(Ack) /\ UNCHANGED <<caps, link, connected, brokerVars, boundVars>>
    BY <1>3 DEF PublishSent, WireInv, WireTypeOK
  <2>. QED BY <1>1, <2>1, <2>2, SendFrame
<1>4. CASE PublishRejected(t, m) \/ PublishQueued(t, m) \/ PublishFailed(t, m)
  BY <1>4, WireFrame
  DEF PublishRejected, PublishQueued, PublishFailed, clientVars, networkVars, boundVars
<1>. QED BY <1>2, <1>3, <1>4 DEF Publish

(* The head of toClient leaves it.                                         *)
LEMMA ReceiveType ==
  ASSUME WireInv, NEW type, Receives(type), toClient' = Tail(toClient)
  PROVE  toClient' \in Seq(Ack) /\ Head(toClient) \in Ack
BY DEF WireInv, WireTypeOK, Receives

LEMMA RecvAckKeepsWire ==
  ASSUME WireInv, RecvAck
  PROVE  WireInv'
<1> USE DEF WireInv, WireTypeOK
<1>1. CASE RecvPuback \/ RecvPubcomp \/ RecvPubrecError
  <2>1. PICK type : Receives(type) /\ Completed(Head(toClient).pid)
    BY <1>1 DEF RecvPuback, RecvPubcomp, RecvPubrecError
  <2>2. toClient' \in Seq(Ack)
    BY <2>1, ReceiveType DEF Completed
  <2>3. UNCHANGED <<connected, caps, link, toBroker, brokerVars, boundVars>>
    BY <2>1 DEF Completed
  <2>. QED BY <2>2, <2>3 DEF PublishesFilled, brokerVars, boundVars
<1>2. CASE RecvPubrec
  <2> DEFINE pid == Head(toClient).pid
  <2>1. /\ Receives("PUBREC") /\ toClient' = Tail(toClient)
        /\ UNCHANGED <<connected, caps, link, brokerVars, boundVars>>
        /\ Send(PubrelPacket(pid)) \/ UNCHANGED toBroker
    BY <1>2 DEF RecvPubrec
  <2>2. toClient' \in Seq(Ack) /\ Head(toClient) \in Ack
    BY <2>1, ReceiveType
  <2>3. pid \in Ident
    BY <2>2 DEF Ack
  <2>4. CASE UNCHANGED toBroker
    BY <2>1, <2>2, <2>4 DEF PublishesFilled, brokerVars, boundVars
  <2>5. CASE Send(PubrelPacket(pid))
    <3>1. PubrelPacket(pid) \in Packet /\ PubrelPacket(pid).type = "PUBREL"
      BY <2>3, PubrelPacketType DEF PubrelPacket
    <3>. QED BY <2>1, <2>2, <2>5, <3>1, SendFrame
  <2>. QED BY <2>1, <2>4, <2>5
<1>. QED BY <1>1, <1>2 DEF RecvAck

LEMMA PumpKeepsWire ==
  ASSUME OutboxTypeOK, WireInv, NEW t \in Looping, Pump(t)
  PROVE  WireInv'
<1>1. CASE PumpSend(t)
  <2>1. PICK s \in PumpFinds(t) :
          /\ Send(PublishPacket(outbox[s].pid, outbox[s].dup, outbox[s].msg))
          /\ UNCHANGED <<connected, caps, link, toClient, brokerVars, boundVars>>
    BY <1>1 DEF PumpSend, clientVars
  <2> DEFINE p == PublishPacket(outbox[s].pid, outbox[s].dup, outbox[s].msg)
  <2>2. outbox[s] \in Item /\ outbox[s].msg \in Msg
    BY PumpFindsOne
  <2>3. p \in Packet /\ p.msg \in Msg
    BY <2>2, PublishPacketType DEF Item, PublishPacket
  <2>. QED BY <2>1, <2>3, SendFrame DEF WireInv, WireTypeOK
<1>2. CASE PumpMark(t) \/ PumpReturn(t)
  BY <1>2, WireFrame DEF PumpMark, PumpReturn, clientVars, networkVars, boundVars
<1>. QED BY <1>1, <1>2 DEF Pump

LEMMA ReplayKeepsWire ==
  ASSUME OutboxTypeOK, WireInv, Replay
  PROVE  WireInv'
<1>1. CASE ReplaySend
  <2> DEFINE s == First(ReplayLeft)
             dup == IF outbox[s].state = "PUBLISH_SENT" THEN 1 ELSE outbox[s].dup
  <2>1. s \in Slot
    BY <1>1, ReplayLooksAtUsed DEF ReplaySend
  <2>2. outbox[s] \in Item
    BY <2>1 DEF OutboxTypeOK
  <2>3. /\ \/ Send(PubrelPacket(outbox[s].pid))
           \/ /\ ~SendFails(outbox[s].msg)
              /\ Send(PublishPacket(outbox[s].pid, dup, outbox[s].msg))
        /\ UNCHANGED <<connected, caps, link, toClient, brokerVars, boundVars>>
    BY <1>1 DEF ReplaySend
  <2>4. outbox[s].pid \in Ident /\ dup \in 0..1
    BY <2>2 DEF Item
  <2> HIDE DEF s, dup
  <2>5. CASE Send(PubrelPacket(outbox[s].pid))
    <3>1. /\ PubrelPacket(outbox[s].pid) \in Packet
          /\ PubrelPacket(outbox[s].pid).type = "PUBREL"
      BY <2>4, PubrelPacketType DEF PubrelPacket
    <3>. QED BY <2>3, <2>5, <3>1, SendFrame DEF WireInv, WireTypeOK
  <2>6. CASE ~SendFails(outbox[s].msg) /\ Send(PublishPacket(outbox[s].pid, dup, outbox[s].msg))
    <3>1. outbox[s].msg \in Msg
      BY <2>2, <2>6 DEF SendFails, CannotEncode, Item
    <3>2. /\ PublishPacket(outbox[s].pid, dup, outbox[s].msg) \in Packet
          /\ PublishPacket(outbox[s].pid, dup, outbox[s].msg).msg \in Msg
      BY <2>4, <3>1, PublishPacketType DEF PublishPacket
    <3>. QED BY <2>3, <2>6, <3>2, SendFrame DEF WireInv, WireTypeOK
  <2>. QED BY <2>3, <2>5, <2>6
<1>2. CASE ReplayAbort \/ ReplayReturn
  BY <1>2, WireFrame DEF ReplayAbort, ReplayReturn, clientVars, networkVars, boundVars
<1>. QED BY <1>1, <1>2 DEF Replay

LEMMA ConnectionKeepsWire ==
  ASSUME WireInv, NEW t \in Thread, Connect(t) \/ RecvConnack \/ Disconnect(t) \/ Break
  PROVE  WireInv'
<1> USE DEF WireInv, WireTypeOK
<1>1. CASE Connect(t)
  <2>1. toBroker' \in Seq(Packet) /\ toClient' \in Seq(Ack) /\ Len(toBroker') = 0
    BY <1>1 DEF Connect
  <2>2. PublishesFilled'
    BY <2>1 DEF PublishesFilled
  <2>3. connects' \in Nat
    BY <1>1 DEF Connect
  <2>. QED BY <1>1, <2>1, <2>2, <2>3, DefaultCapsType DEF Connect, brokerVars
<1>2. CASE RecvConnack
  <2>1. caps' \in Capabilities
    BY <1>2, OutboxAssumption DEF RecvConnack
  <2>2. session_lost' \in BOOLEAN /\ held' \subseteq Ident
    BY <1>2 DEF RecvConnack
  <2>. QED BY <1>2, <2>1, <2>2 DEF RecvConnack, PublishesFilled, boundVars
<1>3. CASE Disconnect(t)
  <2>1. toClient' \in Seq(Ack)
    BY <1>3 DEF Disconnect
  <2>. QED BY <1>3, <2>1, DefaultCapsType DEF Disconnect, PublishesFilled, brokerVars, boundVars
<1>4. CASE Break
  BY <1>4 DEF Break, clientVars, PublishesFilled, brokerVars, boundVars
<1>. QED BY <1>1, <1>2, <1>3, <1>4

LEMMA BrokerKeepsWire ==
  ASSUME WireInv, BrokerStep
  PROVE  WireInv'
<1> DEFINE p == Head(toBroker)
<1>1. /\ toBroker' \in Seq(Packet) /\ PublishesFilled'
      /\ p \in Packet
      /\ p.type = "PUBLISH" => p.msg \in Msg
  BY TailKeepsWire DEF BrokerStep
<1>2. UNCHANGED <<connected, caps, session_lost, connects, others>>
  BY DEF BrokerStep, clientVars, boundVars
<1>3. p.pid \in Ident
  BY <1>1 DEF Packet
<1>4. toClient \in Seq(Ack)
  BY DEF WireInv, WireTypeOK
<1> HIDE DEF p
<1> SUFFICES /\ toClient' \in Seq(Ack)
             /\ held' \subseteq Ident /\ refused' \subseteq Msg
             /\ received' \in [Msg -> 0..2]
             /\ link' \in {"down", "connecting", "up", "broken"}
  BY <1>1, <1>2 DEF WireInv, WireTypeOK
<1>5. CASE p.type = "PUBREL" /\ BrokerPubrel(p)
  BY <1>3, <1>4, <1>5, AnswerType DEF BrokerPubrel, WireInv, WireTypeOK
<1>6. CASE p.type = "PUBLISH" /\ BrokerPublish(p)
  <2> DEFINE m == p.msg
  <2>1. m \in Msg
    BY <1>1, <1>6
  <2>2. toClient' \in Seq(Ack)
    <3>1. \/ UNCHANGED toClient
          \/ \E type \in {"PUBACK", "PUBREC", "PUBCOMP"}, ok \in BOOLEAN : Answer(type, p.pid, ok)
      BY <1>6 DEF BrokerPublish
    <3>. QED BY <1>3, <1>4, <3>1, AnswerType
  <2>3. received' \in [Msg -> 0..2]
    <3>1. UNCHANGED received \/ Take(m)
      BY <1>6 DEF BrokerPublish
    <3>2. Take(m) => received' \in [Msg -> 0..2]
      BY <2>1 DEF Take, WireInv, WireTypeOK
    <3>. QED BY <3>1, <3>2 DEF WireInv, WireTypeOK
  <2>4. held' \subseteq Ident
    BY <1>3, <1>6 DEF BrokerPublish, WireInv, WireTypeOK
  <2>5. refused' \subseteq Msg
    BY <1>6, <2>1 DEF BrokerPublish, WireInv, WireTypeOK
  <2>6. link' \in {"down", "connecting", "up", "broken"}
    BY <1>6 DEF BrokerPublish, WireInv, WireTypeOK
  <2>. QED BY <2>2, <2>3, <2>4, <2>5, <2>6
<1>. QED BY <1>5, <1>6 DEF BrokerStep, p

LEMMA NextKeepsWire ==
  ASSUME OutboxTypeOK, ClientTypeOK, WireInv, [Next]_vars
  PROVE  WireInv'
<1>1. ASSUME NEW t \in Thread, TakeIdent(t)
      PROVE  WireInv'
  <2>1. others' \in Nat
    BY <1>1 DEF TakeIdent, WireInv, WireTypeOK
  <2>. QED BY <1>1, <2>1
       DEF TakeIdent, networkVars, brokerVars, WireInv, WireTypeOK, PublishesFilled
<1>2. CASE AppCall \/ AppReturn \/ Resume \/ \E t \in Looping : Process(t)
  BY <1>2, WireFrame DEF AppCall, AppReturn, Resume, Process, clientVars, networkVars, boundVars
<1>3. CASE UNCHANGED vars
  BY <1>3, WireFrame DEF vars, clientVars, networkVars, boundVars
<1>4. ASSUME NEW t \in Thread, Connect(t) \/ Disconnect(t)
      PROVE  WireInv'
  BY <1>4, ConnectionKeepsWire
<1>5. CASE RecvConnack \/ Break
  <2>1. "app" \in Thread
    BY DEF Thread
  <2>. QED BY <1>5, <2>1, ConnectionKeepsWire
<1>. QED BY <1>1, <1>2, <1>3, <1>4, <1>5, PublishKeepsWire, RecvAckKeepsWire, PumpKeepsWire,
            ReplayKeepsWire, BrokerKeepsWire DEF Next

(* What holds whatever the threads do.                                     *)
TypesInv == OutboxTypeOK /\ ClientTypeOK /\ ThreadTypeOK /\ WireInv

LEMMA InitTypesInv == Init => TypesInv
<1> SUFFICES ASSUME Init PROVE TypesInv
  OBVIOUS
<1>1. OutboxTypeOK
  BY FreeItemType DEF Init, OutboxTypeOK
<1>2. ClientTypeOK
  <2>1. 1 \in Ident
    BY OutboxAssumption DEF Ident
  <2>. QED BY <2>1 DEF Init, ClientTypeOK
<1>3. ThreadTypeOK
  BY OutboxAssumption, ScanTypes DEF Init, ThreadTypeOK
<1>. QED BY <1>1, <1>2, <1>3, InitWireInv DEF TypesInv

LEMMA NextKeepsTypes ==
  ASSUME TypesInv, [Next]_vars
  PROVE  TypesInv'
<1>1. OutboxTypeOK'
  BY OutboxKeepsType DEF TypesInv
<1>2. ThreadTypeOK'
  BY <1>1, ThreadsKeepType DEF TypesInv, WireInv
<1>. QED BY <1>1, <1>2, ClientKeepsType, NextKeepsWire DEF TypesInv

LEMMA TypesInvariant == Spec => []TypesInv
BY InitTypesInv, NextKeepsTypes, PTL DEF Spec

(* Every variable keeps its type; in particular packet_ident stays within
   the width of the identifier field, however often it wraps and whatever the
   threads do.                                                             *)
THEOREM TypeCorrect == Spec => []TypeOK
<1>1. TypesInv => TypeOK
  BY DEF TypesInv, OutboxTypeOK, ClientTypeOK, ThreadTypeOK, WireInv, WireTypeOK, TypeOK
<1>. QED BY <1>1, TypesInvariant, PTL

-----------------------------------------------------------------------------
(* While the threads do not overlap: consistency, and what is held         *)

HeldInv == ~reused => PendingIsHeld

ClientInv == OutboxInv /\ ClientTypeOK /\ HeldInv

(* Steps that leave the outbox alone.                                      *)
LEMMA FrameKeepsInv ==
  ASSUME ClientInv, UNCHANGED <<outbox, outbox_count, status, reused>>
  PROVE  OutboxInv' /\ HeldInv' /\ Used' = Used
BY DEF ClientInv, OutboxInv, OutboxTypeOK, OutboxCountExact, IdentsUnique,
       FreedIsEmpty, SlotsFilled, Used, HeldInv, PendingIsHeld

(* Steps that change the state or the DUP flag of an item.                 *)
LEMMA UpdateKeepsHeld ==
  ASSUME ClientInv, UNCHANGED <<status, reused>>, Used' = Used,
         \A t \in Slot : outbox'[t].msg = outbox[t].msg
  PROVE  HeldInv'
BY DEF ClientInv, HeldInv, PendingIsHeld, Used

LEMMA InitClientInv == Init => ClientInv
<1> SUFFICES ASSUME Init PROVE ClientInv
  OBVIOUS
<1>1. Used = {}
  BY DEF Init, Used, FreeItem
<1>2. OutboxInv
  BY <1>1, FreeItemType, FS_EmptySet
  DEF Init, OutboxInv, OutboxTypeOK, OutboxCountExact, IdentsUnique,
      FreedIsEmpty, SlotsFilled
<1>3. ClientTypeOK
  <2>1. 1 \in Ident
    BY OutboxAssumption DEF Ident
  <2>. QED BY <2>1 DEF Init, ClientTypeOK
<1>4. HeldInv
  BY DEF Init, HeldInv, PendingIsHeld
<1>. QED BY <1>2, <1>3, <1>4 DEF ClientInv

(* publish_data, each outcome.                                             *)
LEMMA PublishKeepsInv ==
  ASSUME ClientInv, NEW t \in Thread, NEW m \in Msg, Publish(t, m)
  PROVE  ClientInv'
<1> USE DEF ClientInv
<1>1. CASE PublishRejected(t, m)
  <2>1. OutboxInv' /\ Used' = Used
    BY <1>1 DEF PublishRejected, clientVars, OutboxInv, OutboxTypeOK, OutboxCountExact,
       IdentsUnique, FreedIsEmpty, SlotsFilled, Used
  <2>2. ClientTypeOK'
    BY <1>1, <2>1 DEF PublishRejected, clientVars, ClientTypeOK, Told
  <2>3. HeldInv'
    BY <1>1, <2>1 DEF PublishRejected, clientVars, ClientTypeOK, HeldInv, PendingIsHeld, Told
  <2>. QED BY <2>1, <2>2, <2>3
<1>2. CASE PublishQos0(t, m)
  <2>1. OutboxInv' /\ Used' = Used
    BY <1>2 DEF PublishQos0, clientVars, OutboxInv, OutboxTypeOK, OutboxCountExact,
       IdentsUnique, FreedIsEmpty, SlotsFilled, Used
  <2>2. ClientTypeOK'
    BY <1>2, <2>1 DEF PublishQos0, clientVars, ClientTypeOK, Told
  <2>3. HeldInv'
    BY <1>2, <2>1 DEF PublishQos0, clientVars, ClientTypeOK, HeldInv, PendingIsHeld, Told
  <2>. QED BY <2>1, <2>2, <2>3
<1>3. CASE PublishQueued(t, m) \/ PublishSent(t, m)
  <2>1. /\ \E st \in {"QUEUED", "PUBLISH_SENT"} : OutboxStore(packet_ident, m, st)
        /\ TakeOwnIdent /\ Told(m, "pending")
    BY <1>3 DEF PublishQueued, PublishSent
  <2>2. PICK st \in {"QUEUED", "PUBLISH_SENT"} : OutboxStore(packet_ident, m, st)
    BY <2>1
  <2>3. packet_ident \in Ident
    BY DEF ClientTypeOK
  <2>4. /\ OutboxInv'
        /\ \A s \in Used : s \in Used' /\ outbox'[s] = outbox[s]
        /\ Holding(packet_ident) = {} => \E s \in Used' : outbox'[s].msg = m
    BY <2>2, <2>3, StoreKeepsInv
  <2>5. ClientTypeOK'
    BY <2>1, <2>4, NextIdentType DEF ClientTypeOK, TakeOwnIdent, Told, InUse
  <2>6. HeldInv'
    <3> SUFFICES ASSUME ~reused', NEW k \in Msg, status'[k] = "pending"
                 PROVE  \E s \in Used' : outbox'[s].msg = k
      BY DEF HeldInv, PendingIsHeld
    <3>1. ~reused /\ Holding(packet_ident) = {}
      BY <2>1 DEF TakeOwnIdent, InUse, ClientTypeOK
    <3>2. CASE k = m
      BY <3>1, <3>2, <2>4
    <3>3. CASE k # m
      <4>1. status[k] = "pending"
        BY <2>1, <3>3 DEF Told, ClientTypeOK
      <4>. QED BY <4>1, <3>1, <2>4 DEF HeldInv, PendingIsHeld
    <3>. QED BY <3>2, <3>3
  <2>. QED BY <2>4, <2>5, <2>6
<1>4. CASE PublishFailed(t, m)
  <2>1. /\ \/ packet_ident = 0 /\ OutboxStore(packet_ident, m, "PUBLISH_SENT")
           \/ OutboxRemove(packet_ident)
        /\ TakeOwnIdent /\ Told(m, "failed")
    BY <1>4 DEF PublishFailed
  <2>2. packet_ident \in Ident
    BY DEF ClientTypeOK
  <2>3. /\ OutboxInv'
        /\ \A s \in Used : outbox[s].pid # packet_ident => s \in Used' /\ outbox'[s] = outbox[s]
    BY <2>1, <2>2, StoreKeepsInv, RemoveKeepsInv
  <2>4. ClientTypeOK'
    BY <2>1, <2>3, NextIdentType DEF ClientTypeOK, TakeOwnIdent, Told, InUse
  <2>5. HeldInv'
    <3> SUFFICES ASSUME ~reused', NEW k \in Msg, status'[k] = "pending"
                 PROVE  \E s \in Used' : outbox'[s].msg = k
      BY DEF HeldInv, PendingIsHeld
    <3>1. ~reused /\ Holding(packet_ident) = {}
      BY <2>1 DEF TakeOwnIdent, InUse, ClientTypeOK
    <3>2. status[k] = "pending"
      BY <2>1 DEF Told, ClientTypeOK
    <3>. QED BY <3>1, <3>2, <2>3 DEF HeldInv, PendingIsHeld, Holding
  <2>. QED BY <2>3, <2>4, <2>5
<1>. QED BY <1>1, <1>2, <1>3, <1>4 DEF Publish

(* An acknowledgement that ends a message: PUBACK, PUBCOMP, failed PUBREC. *)
LEMMA CompletedKeepsInv ==
  ASSUME ClientInv, NEW pid, Completed(pid)
  PROVE  ClientInv'
<1>1. /\ OutboxInv'
      /\ \A s \in Used : outbox[s].pid # pid => s \in Used' /\ outbox'[s] = outbox[s]
  BY RemoveKeepsInv DEF ClientInv, Completed
<1>2. ClientTypeOK'
  <2>1. status' \in [Msg -> {"new", "failed", "pending", "done"}]
    BY DEF ClientInv, ClientTypeOK, Completed
  <2>. QED BY <2>1 DEF ClientInv, ClientTypeOK, Completed
<1>3. HeldInv'
  <2> SUFFICES ASSUME ~reused', NEW k \in Msg, status'[k] = "pending"
               PROVE  \E s \in Used' : outbox'[s].msg = k
    BY DEF HeldInv, PendingIsHeld
  <2>1. status[k] = "pending" /\ \A s \in Holding(pid) : outbox[s].msg # k
    BY DEF Completed
  <2>2. ~reused
    BY DEF Completed
  <2>3. PICK s \in Used : outbox[s].msg = k
    BY <2>1, <2>2 DEF ClientInv, HeldInv, PendingIsHeld
  <2>4. outbox[s].pid # pid
    BY <2>1, <2>3 DEF Holding
  <2>. QED BY <1>1, <2>3, <2>4
<1>. QED BY <1>1, <1>2, <1>3 DEF ClientInv

(* PUBREC with success: the state of at most one item changes.             *)
LEMMA PubrecKeepsInv ==
  ASSUME ClientInv, RecvPubrec
  PROVE  ClientInv'
<1> DEFINE pid == Head(toClient).pid
<1>1. UNCHANGED <<outbox_count, packet_ident, status, reused>>
  BY DEF RecvPubrec, historyVars
<1>2. CASE Holding(pid) = {}
  <2>1. outbox' = outbox
    BY <1>2 DEF RecvPubrec
  <2>2. OutboxInv' /\ HeldInv' /\ Used' = Used
    BY <1>1, <2>1, FrameKeepsInv
  <2>. QED BY <1>1, <2>2 DEF ClientInv, ClientTypeOK
<1>3. CASE Holding(pid) # {}
  <2> DEFINE f == First(Holding(pid))
  <2>1. f \in Used
    BY <1>3, FirstIsMember DEF Holding, Used
  <2>2. outbox[f] \in Item /\ f \in Slot
    BY <2>1 DEF Used, ClientInv, OutboxInv, OutboxTypeOK
  <2>3. outbox' = [outbox EXCEPT ![f].state = "PUBREL_SENT"]
    BY <1>3 DEF RecvPubrec
  <2> HIDE DEF f
  <2>4. outbox[f].dup \in 0..1
    BY <2>2 DEF Item
  <2>5. outbox' = [outbox EXCEPT ![f].state = "PUBREL_SENT", ![f].dup = outbox[f].dup]
    BY <2>2, <2>3 DEF ClientInv, OutboxInv, OutboxTypeOK, Item
  <2>6. OutboxInv' /\ Used' = Used /\ \A t \in Slot : outbox'[t].msg = outbox[t].msg
    BY <1>1, <2>1, <2>4, <2>5, UpdateKeepsInv DEF ClientInv, SlotState
  <2>7. HeldInv'
    BY <1>1, <2>6, UpdateKeepsHeld
  <2>. QED BY <1>1, <2>6, <2>7 DEF ClientInv, ClientTypeOK
<1>. QED BY <1>2, <1>3

(* What a loop over the slots remembers is true while nobody else works: the
   pump's count and limit, and that the slot it has just sent is still QUEUED. *)
LoopInv ==
  \A t \in Looping :
    /\ at[t] \in {"pump", "mark"} =>
         scan[t].count = Cardinality(Inflight) /\ scan[t].limit = PumpLimit
    /\ at[t] = "mark" => scan[t].next \in InState("QUEUED") /\ scan[t].count < scan[t].limit

(* The pump marks the slot it sent.                                        *)
LEMMA PumpMarkKeepsInv ==
  ASSUME ClientInv, LoopInv, NEW t \in Looping, PumpMark(t)
  PROVE  ClientInv'
<1> DEFINE f == scan[t].next
<1>1. UNCHANGED <<outbox_count, packet_ident, status, reused>>
  BY DEF PumpMark, historyVars
<1>2. f \in Slot /\ outbox[f].state = "QUEUED"
  BY DEF PumpMark, LoopInv, InState
<1>3. f \in Used /\ outbox[f] \in Item
  BY <1>2 DEF Used, ClientInv, OutboxInv, OutboxTypeOK
<1>4. outbox' = [outbox EXCEPT ![f].state = "PUBLISH_SENT"]
  BY DEF PumpMark
<1> HIDE DEF f
<1>5. outbox[f].dup \in 0..1
  BY <1>3 DEF Item
<1>6. outbox' = [outbox EXCEPT ![f].state = "PUBLISH_SENT", ![f].dup = outbox[f].dup]
  BY <1>2, <1>3, <1>4 DEF ClientInv, OutboxInv, OutboxTypeOK, Item
<1>7. OutboxInv' /\ Used' = Used /\ \A s \in Slot : outbox'[s].msg = outbox[s].msg
  BY <1>1, <1>3, <1>5, <1>6, UpdateKeepsInv DEF ClientInv, SlotState
<1>8. HeldInv'
  BY <1>1, <1>7, UpdateKeepsHeld
<1>. QED BY <1>1, <1>7, <1>8 DEF ClientInv, ClientTypeOK

(* One iteration of the replay, whether its send works or fails.           *)
LEMMA ReplayKeepsInv ==
  ASSUME ClientInv, ReplaySend \/ ReplayAbort
  PROVE  ClientInv'
<1> DEFINE f == First(ReplayLeft)
           dup == IF outbox[f].state = "PUBLISH_SENT" THEN 1 ELSE outbox[f].dup
<1>1. UNCHANGED <<outbox_count, packet_ident, status, reused>>
  BY DEF ReplaySend, ReplayAbort, historyVars
<1>3. f \in Used /\ f \in Slot
  BY ReplayLooksAtUsed DEF ReplaySend, ReplayAbort
<1>4. outbox[f] \in Item /\ outbox[f].dup \in 0..1 /\ dup \in 0..1
  BY <1>3 DEF ClientInv, OutboxInv, OutboxTypeOK, Item
<1>5. \/ UNCHANGED outbox
      \/ \E st \in SlotState \ {"FREE"}, d \in 0..1 :
           outbox' = [outbox EXCEPT ![f].state = st, ![f].dup = d]
  <2>1. CASE ReplaySend
    <3>1. \/ UNCHANGED outbox
          \/ outbox' = [outbox EXCEPT ![f].state = "PUBLISH_SENT", ![f].dup = dup]
      BY <2>1 DEF ReplaySend
    <3>. QED BY <3>1, <1>4 DEF SlotState
  <2>2. CASE ReplayAbort
    <3>1. \/ UNCHANGED outbox
          \/ outbox[f].state = "PUBLISH_SENT" /\ outbox' = [outbox EXCEPT ![f].dup = 1]
      BY <2>2 DEF ReplayAbort
    <3>2. outbox[f].state = "PUBLISH_SENT" /\ outbox' = [outbox EXCEPT ![f].dup = 1]
            => outbox' = [outbox EXCEPT ![f].state = "PUBLISH_SENT", ![f].dup = 1]
      BY <1>3, <1>4 DEF ClientInv, OutboxInv, OutboxTypeOK, Item
    <3>. QED BY <3>1, <3>2 DEF SlotState
  <2>. QED BY <2>1, <2>2
<1> HIDE DEF f, dup
<1>7. OutboxInv' /\ HeldInv' /\ Used' = Used
  <2>1. CASE UNCHANGED outbox
    BY <1>1, <2>1, FrameKeepsInv
  <2>2. CASE ~UNCHANGED outbox
    <3>1. PICK st \in SlotState \ {"FREE"}, d \in 0..1 :
            outbox' = [outbox EXCEPT ![f].state = st, ![f].dup = d]
      BY <1>5, <2>2
    <3>2. OutboxInv' /\ Used' = Used /\ \A t \in Slot : outbox'[t].msg = outbox[t].msg
      BY <1>1, <1>3, <3>1, UpdateKeepsInv DEF ClientInv
    <3>. QED BY <1>1, <3>2, UpdateKeepsHeld
  <2>. QED BY <2>1, <2>2
<1>. QED BY <1>1, <1>7 DEF ClientInv, ClientTypeOK

(* The remaining actions of the client, of the network and of the broker
   touch neither the outbox nor what the application was told.             *)
LEMMA OthersKeepInv ==
  ASSUME ClientInv, UNCHANGED <<outbox, outbox_count, status, reused>>, packet_ident' \in Ident
  PROVE  ClientInv'
<1>1. OutboxInv' /\ HeldInv' /\ Used' = Used
  BY FrameKeepsInv
<1>. QED BY <1>1 DEF ClientInv, ClientTypeOK

(* Every step that does not overlap another keeps the invariant.           *)
LEMMA NextKeepsInv ==
  ASSUME ClientInv, LoopInv, [Next]_vars
  PROVE  ClientInv'
<1> USE DEF clientVars, historyVars
<1>1. packet_ident \in Ident
  BY DEF ClientInv, ClientTypeOK
<1>2. ASSUME NEW t \in Thread, TakeIdent(t)
      PROVE  ClientInv'
  BY <1>1, <1>2, OthersKeepInv, NextIdentType DEF TakeIdent
<1>3. CASE \/ AppCall \/ AppReturn \/ \E t \in Thread : Connect(t) \/ Disconnect(t)
           \/ \E t \in Looping : Process(t) \/ PumpSend(t) \/ PumpReturn(t)
           \/ RecvConnack \/ Resume \/ ReplayReturn \/ Break \/ BrokerStep \/ UNCHANGED vars
  <2>1. UNCHANGED <<outbox, outbox_count, packet_ident, status, reused>>
    BY <1>3 DEF AppCall, AppReturn, Connect, Disconnect, Process, PumpSend, PumpReturn, RecvConnack,
                Resume, ReplayReturn, Break, BrokerStep, vars
  <2>. QED BY <1>1, <2>1, OthersKeepInv
<1>4. CASE RecvPuback \/ RecvPubcomp \/ RecvPubrecError
  BY <1>4, CompletedKeepsInv DEF RecvPuback, RecvPubcomp, RecvPubrecError
<1>. QED BY <1>2, <1>3, <1>4, PublishKeepsInv, PubrecKeepsInv, PumpMarkKeepsInv, ReplayKeepsInv
     DEF Next, RecvAck, Pump, Replay

(* The loops' memory survives every step that nobody else's work overlaps. *)
LEMMA LoopFrame ==
  ASSUME LoopInv, UNCHANGED <<outbox, caps, scan>>,
         \A t \in Looping : at'[t] = at[t] \/ at'[t] \notin {"pump", "mark"}
  PROVE  LoopInv'
BY DEF LoopInv, Inflight, InState, PumpLimit

(* A thread that works alone need only keep its own.                       *)
LEMMA LoopAlone ==
  ASSUME ThreadTypeOK, NEW t \in Thread, Works(t), Undisturbed',
         \A u \in Thread \ {t} : at'[u] = at[u],
         at'[t] \notin {"pump", "mark"}
  PROVE  LoopInv'
<1>1. \A u \in Thread \ {t} : at[u] = "out"
  BY WorksAlone
<1>. QED BY <1>1 DEF LoopInv, Thread

LEMMA StartsPumpLoop ==
  ASSUME ThreadTypeOK, NEW t \in Looping, StartsPump(t), caps' = caps,
         \A u \in Looping \ {t} : at[u] \in {"pump", "mark"} => UNCHANGED outbox /\ LoopInv
  PROVE  LoopInv'
<1>1. t \in Thread /\ Looping \subseteq Thread
  BY DEF Thread
<1>2. at'[t] = "pump" /\ \A u \in Looping \ {t} : at'[u] = at[u] /\ scan'[u] = scan[u]
  BY <1>1, MoveOne DEF StartsPump, ThreadTypeOK
<1>3. scan'[t].count = Cardinality(Inflight)' /\ scan'[t].limit = PumpLimit'
  BY DEF StartsPump, ThreadTypeOK, PumpLimit
<1>4. ASSUME NEW u \in Looping \ {t}, at[u] \in {"pump", "mark"}
      PROVE  Inflight' = Inflight /\ PumpLimit' = PumpLimit /\ InState("QUEUED")' = InState("QUEUED")
  BY <1>4 DEF Inflight, InState, PumpLimit
<1>. QED BY <1>2, <1>3, <1>4 DEF LoopInv

LEMMA PumpSendLoop ==
  ASSUME OutboxTypeOK, ThreadTypeOK, LoopInv, NEW t \in Looping, PumpSend(t), Undisturbed'
  PROVE  LoopInv'
<1>1. t \in Thread /\ Looping \subseteq Thread
  BY DEF Thread
<1>2. PICK s \in PumpFinds(t) : scan' = [scan EXCEPT ![t].next = s]
  BY DEF PumpSend
<1>3. \A u \in Thread \ {t} : at[u] = "out"
  BY <1>1, WorksAlone DEF PumpSend
<1>4. at[t] = "pump" /\ at'[t] = "mark" /\ \A u \in Thread \ {t} : at'[u] = at[u]
  BY <1>1, MoveOne DEF PumpSend
<1>5. UNCHANGED <<outbox, caps>>
  BY DEF PumpSend, clientVars
<1>6. scan'[t].next = s /\ scan'[t].count = scan[t].count /\ scan'[t].limit = scan[t].limit
  BY <1>2 DEF ThreadTypeOK, Scan
<1>7. s \in InState("QUEUED") /\ ~(scan[t].count >= scan[t].limit)
  BY PumpFindsOne
<1>8. scan[t].count \in Nat /\ scan[t].limit \in Nat
  BY DEF ThreadTypeOK, Scan
<1>9. Inflight' = Inflight /\ PumpLimit' = PumpLimit /\ InState("QUEUED")' = InState("QUEUED")
  BY <1>5 DEF Inflight, InState, PumpLimit
<1>. QED BY <1>1, <1>3, <1>4, <1>6, <1>7, <1>8, <1>9 DEF LoopInv

(* Marking a QUEUED slot adds it to those in flight.                       *)
LEMMA MarkAddsOne ==
  ASSUME OutboxTypeOK, NEW f \in InState("QUEUED"),
         outbox' = [outbox EXCEPT ![f].state = "PUBLISH_SENT"]
  PROVE  /\ Inflight' = Inflight \cup {f} /\ f \notin Inflight
         /\ Cardinality(Inflight') = Cardinality(Inflight) + 1
<1>1. f \in Slot /\ outbox[f].state = "QUEUED"
  BY DEF InState
<1>2. /\ outbox'[f].state = "PUBLISH_SENT"
      /\ \A s \in Slot \ {f} : outbox'[s] = outbox[s]
  BY <1>1 DEF OutboxTypeOK, Item
<1>3. Inflight' = Inflight \cup {f} /\ f \notin Inflight
  BY <1>1, <1>2 DEF Inflight, InState
<1>4. IsFiniteSet(Inflight)
  BY SlotsFinite DEF Inflight, InState
<1>. QED BY <1>3, <1>4, FS_AddElement

LEMMA PumpMarkLoop ==
  ASSUME OutboxTypeOK, ThreadTypeOK, LoopInv, NEW t \in Looping, PumpMark(t), Undisturbed'
  PROVE  LoopInv'
<1>1. t \in Thread /\ Looping \subseteq Thread
  BY DEF Thread
<1>2. \A u \in Thread \ {t} : at[u] = "out"
  BY <1>1, WorksAlone DEF PumpMark
<1>3. at[t] = "mark" /\ at'[t] = "pump" /\ \A u \in Thread \ {t} : at'[u] = at[u]
  BY <1>1, MoveOne DEF PumpMark
<1>4. PumpLimit' = PumpLimit
  BY DEF PumpMark, PumpLimit
<1>5. scan'[t].count = scan[t].count + 1 /\ scan'[t].limit = scan[t].limit
  BY DEF PumpMark, ThreadTypeOK, Scan
<1>6. scan[t].next \in InState("QUEUED") /\ scan[t].count = Cardinality(Inflight)
      /\ scan[t].limit = PumpLimit
  BY <1>3 DEF LoopInv
<1>7. Cardinality(Inflight') = Cardinality(Inflight) + 1
  BY <1>6, MarkAddsOne DEF PumpMark
<1>. QED BY <1>1, <1>2, <1>3, <1>4, <1>5, <1>6, <1>7 DEF LoopInv

LEMMA NextKeepsLoop ==
  ASSUME OutboxTypeOK, ThreadTypeOK, LoopInv, Undisturbed', [Next]_vars
  PROVE  LoopInv'
<1> USE DEF clientVars, threadVars
<1>1. "receiver" \in Looping /\ "receiver" \in Thread /\ "app" \in Thread /\ Looping \subseteq Thread
      /\ "app" \notin Looping
  BY DEF Looping, Thread
<1>2. CASE AppCall \/ AppReturn
  BY <1>1, <1>2, MoveOne, LoopFrame DEF AppCall, AppReturn
<1>3. ASSUME NEW t \in Thread, Works(t), CallEnds(t),
             at[t] \in {"out", "call", "callback"}
      PROVE  LoopInv'
  <2>1. at'[t] \notin {"pump", "mark"} /\ \A u \in Thread \ {t} : at'[u] = at[u]
    BY <1>1, <1>3 DEF CallEnds, ThreadTypeOK
  <2>. QED BY <1>3, <2>1, LoopAlone
<1>4. ASSUME NEW t \in Thread, TakeIdent(t) \/ Connect(t) \/ Disconnect(t)
      PROVE  LoopInv'
  BY <1>3, <1>4 DEF TakeIdent, Connect, Disconnect, Calls, InCall
<1>5. ASSUME NEW t \in Thread, NEW m \in Msg, Publish(t, m)
      PROVE  LoopInv'
  <2>1. Calls(t)
    BY <1>5 DEF Publish, PublishRejected, PublishQos0, PublishQueued, PublishSent, PublishFailed
  <2>. QED BY <1>3, <2>1 DEF Calls, InCall
<1>6. ASSUME NEW t \in Looping, Process(t)
      PROVE  LoopInv'
  BY <1>6, StartsPumpLoop DEF Process
<1>7. ASSUME NEW t \in Looping, PumpReturn(t)
      PROVE  LoopInv'
  <2>1. at'[t] = "out" /\ \A u \in Thread \ {t} : at'[u] = at[u]
    BY <1>1, <1>7, MoveOne DEF PumpReturn
  <2>2. \A u \in Looping \ {t} : scan'[u] = scan[u]
    BY <1>7 DEF PumpReturn, ThreadTypeOK
  <2>3. Inflight' = Inflight /\ PumpLimit' = PumpLimit /\ InState("QUEUED")' = InState("QUEUED")
    BY <1>7 DEF PumpReturn, Inflight, InState, PumpLimit
  <2>. QED BY <1>1, <2>1, <2>2, <2>3 DEF LoopInv
<1>8. CASE RecvPuback \/ RecvPubcomp \/ RecvPubrecError
  <2>1. Works("receiver") /\ StartsPump("receiver") /\ caps' = caps
    BY <1>8 DEF RecvPuback, RecvPubcomp, RecvPubrecError, Receives, Completed
  <2>2. \A u \in Looping \ {"receiver"} : at[u] = "out"
    BY <1>1, <2>1, WorksAlone
  <2>. QED BY <1>1, <2>1, <2>2, StartsPumpLoop
<1>9. CASE RecvPubrec \/ RecvConnack \/ Resume \/ ReplaySend \/ ReplayAbort
  <2>1. Works("receiver")
    BY <1>9 DEF RecvPubrec, Receives, RecvConnack, Resume, ReplaySend, ReplayAbort
  <2>2. at'["receiver"] \notin {"pump", "mark"}
        /\ \A u \in Thread \ {"receiver"} : at'[u] = at[u]
    BY <1>1, <1>9, MoveOne DEF RecvPubrec, Receives, RecvConnack, Resume, ReplaySend, ReplayAbort
  <2>. QED BY <1>1, <2>1, <2>2, LoopAlone
<1>10. CASE ReplayReturn
  <2>1. at'["receiver"] = "out" /\ \A u \in Thread \ {"receiver"} : at'[u] = at[u]
    BY <1>1, <1>10, MoveOne DEF ReplayReturn
  <2>2. \A u \in Looping \ {"receiver"} : scan'[u] = scan[u]
    BY <1>10 DEF ReplayReturn, ThreadTypeOK
  <2>3. Inflight' = Inflight /\ PumpLimit' = PumpLimit /\ InState("QUEUED")' = InState("QUEUED")
    BY <1>10 DEF ReplayReturn, Inflight, InState, PumpLimit
  <2>. QED BY <1>1, <2>1, <2>2, <2>3 DEF LoopInv
<1>11. CASE Break \/ BrokerStep \/ UNCHANGED vars
  BY <1>11, LoopFrame DEF Break, BrokerStep, vars
<1>. QED BY <1>2, <1>4, <1>5, <1>6, <1>7, <1>8, <1>9, <1>10, <1>11, PumpSendLoop, PumpMarkLoop
     DEF Next, Pump, RecvAck, Replay

-----------------------------------------------------------------------------
(* The inductive invariant: what packets under way and the broker's        *)
(* identifiers have to do with the slots.                                  *)

Wire == 1..Len(toBroker)
Acks == 1..Len(toClient)

IsPublish(i) == toBroker[i].type = "PUBLISH"

(* The broker has the QoS 2 message m.                                     *)
Taken(m) == QosOf[m] = 2 /\ received[m] > 0

(* A slot in use is of a message that waits for its acknowledgement, and no
   other slot is of the same message.                                      *)
SlotsPending ==
  /\ \A s \in Used : /\ status[outbox[s].msg] = "pending"
                     /\ QosOf[outbox[s].msg] \in 1..2
                     /\ outbox[s].pid # 0
  /\ \A s, t \in Used : outbox[s].msg = outbox[t].msg => s = t

(* A PUBLISH under way is of an accepted message, and shares its identifier
   with the slot and the other packets of that message, and no other slot. *)
PublishesMatch ==
  \A i \in Wire : IsPublish(i) =>
    /\ status[toBroker[i].msg] \in {"pending", "done"}
    /\ QosOf[toBroker[i].msg] = 0 <=> toBroker[i].pid = 0
    /\ QosOf[toBroker[i].msg] = 0 => toBroker[i].dup = 0
    /\ \A s \in Used : outbox[s].pid = toBroker[i].pid <=> outbox[s].msg = toBroker[i].msg
    /\ \A j \in Wire : IsPublish(j) /\ toBroker[j].msg = toBroker[i].msg
                         => toBroker[j].pid = toBroker[i].pid

(* A PUBREL under way has its slot released, and no PUBLISH of the same
   identifier behind it.                                                   *)
PubrelsMatch ==
  \A i \in Wire : ~IsPublish(i) =>
    /\ toBroker[i].msg = NoMsg
    /\ \A s \in Used : outbox[s].pid = toBroker[i].pid => outbox[s].state = "PUBREL_SENT"
    /\ \A j \in Wire : i < j /\ IsPublish(j) /\ QosOf[toBroker[j].msg] > 0
                         => toBroker[j].pid # toBroker[i].pid

(* A released slot is of a message the broker has.                         *)
Released == \A s \in InState("PUBREL_SENT") : Taken(outbox[s].msg)

(* An acknowledgement under way tells the truth about the slot it is for.  *)
AcksMatch ==
  \A i \in Acks, s \in Used : outbox[s].pid = toClient[i].pid =>
    IF toClient[i].type = "PUBREC" /\ toClient[i].ok
    THEN Taken(outbox[s].msg)
    ELSE received[outbox[s].msg] > 0 \/ outbox[s].msg \in refused

(* An identifier the broker holds is of a message it has ...               *)
HeldMatch == \A s \in Used : outbox[s].pid \in held => Taken(outbox[s].msg)

(* ... and it holds the identifiers of those it may be sent again.         *)
HeldComplete ==
  ~session_lost =>
    /\ \A i \in Wire : IsPublish(i) /\ Taken(toBroker[i].msg) => toBroker[i].pid \in held
    /\ \A s \in Used : outbox[s].state # "PUBREL_SENT" /\ Taken(outbox[s].msg)
                         => outbox[s].pid \in held

(* A QUEUED message was never sent, unless the pump is about to mark it.   *)
Waiting == InState("QUEUED") \ Sending

QueuedUnsent ==
  \A s \in Waiting :
    /\ outbox[s].dup = 0 /\ received[outbox[s].msg] = 0
    /\ \A i \in Wire : toBroker[i].msg # outbox[s].msg

(* A PUBLISH without DUP is the first of its message.                      *)
UnmarkedFirst ==
  \A i \in Wire : IsPublish(i) /\ toBroker[i].dup = 0 =>
    /\ received[toBroker[i].msg] = 0
    /\ \A j \in Wire : j < i => toBroker[j].msg # toBroker[i].msg

(* The broker has no message the application was not told is taken over.   *)
RejectedUnsent == \A m \in Msg : status[m] \in {"new", "failed"} => received[m] = 0

DeliveryInv ==
  /\ SlotsPending /\ PublishesMatch /\ PubrelsMatch /\ Released
  /\ AcksMatch /\ HeldMatch /\ HeldComplete
  /\ QueuedUnsent /\ UnmarkedFirst /\ RejectedUnsent

-----------------------------------------------------------------------------
(* Lemmas about the packets under way                                      *)

LEMMA WireType ==
  ASSUME WireInv
  PROVE  /\ toBroker \in Seq(Packet) /\ Len(toBroker) \in Nat /\ Wire \subseteq Nat
         /\ \A i \in Wire : toBroker[i] \in Packet
         /\ toClient \in Seq(Ack) /\ Len(toClient) \in Nat
         /\ \A i \in Acks : toClient[i] \in Ack
         /\ \A i \in Wire : IsPublish(i) => toBroker[i].msg \in Msg
BY DEF WireInv, WireTypeOK, PublishesFilled, Wire, Acks, IsPublish

(* A sent packet comes last.                                               *)
LEMMA WireAfterSend ==
  ASSUME WireInv, NEW p, Send(p)
  PROVE  \E n \in Nat : /\ n \notin Wire /\ Wire' = Wire \cup {n} /\ Wire \subseteq Nat
                        /\ toBroker'[n] = p
                        /\ \A i \in Wire : i < n /\ toBroker'[i] = toBroker[i]
<1>1. toBroker \in Seq(Packet) /\ Len(toBroker) \in Nat
  BY WireType
<1>2. toBroker' = Append(toBroker, p)
  BY DEF Send
<1>3. /\ Len(toBroker') = Len(toBroker) + 1
      /\ toBroker'[Len(toBroker) + 1] = p
      /\ \A i \in 1..Len(toBroker) : toBroker'[i] = toBroker[i]
  BY <1>1, <1>2
<1>. QED BY <1>1, <1>3 DEF Wire

(* A read packet leaves its place to the others.                           *)
LEMMA WireAfterRead ==
  ASSUME WireInv, toBroker # <<>>, toBroker' = Tail(toBroker)
  PROVE  /\ 1 \in Wire /\ toBroker[1] = Head(toBroker)
         /\ \A i \in Wire' : /\ i \in Nat /\ i + 1 \in Wire /\ 1 < i + 1
                             /\ toBroker'[i] = toBroker[i + 1]
BY WireType DEF Wire

(* The acknowledgements are among those that were under way.               *)
AcksKept == \A i \in Acks' : \E j \in Acks : toClient'[i] = toClient[j]

LEMMA AcksAfterRead ==
  ASSUME WireInv,
         \/ toClient' = <<>> \/ UNCHANGED toClient
         \/ toClient # <<>> /\ toClient' = Tail(toClient)
  PROVE  AcksKept
<1>1. toClient \in Seq(Ack) /\ Len(toClient) \in Nat
  BY WireType
<1>2. CASE toClient' = <<>>
  <2>1. Len(toClient') = 0
    BY <1>2
  <2>. QED BY <2>1 DEF AcksKept, Acks
<1>3. CASE UNCHANGED toClient
  BY <1>3 DEF AcksKept, Acks
<1>4. CASE toClient # <<>> /\ toClient' = Tail(toClient)
  <2>1. /\ Len(toClient') = Len(toClient) - 1
        /\ \A i \in 1..Len(toClient') : toClient'[i] = toClient[i + 1]
    BY <1>1, <1>4
  <2>2. \A i \in Acks' : i + 1 \in Acks
    BY <1>1, <2>1 DEF Acks
  <2>. QED BY <2>1, <2>2 DEF AcksKept, Acks
<1>. QED BY <1>2, <1>3, <1>4

-----------------------------------------------------------------------------
(* What the steps do to slots, packets and the broker's memory             *)

LEMMA SlotType ==
  ASSUME ClientInv
  PROVE  /\ Used \subseteq Slot
         /\ \A s \in Slot : outbox[s] \in Item
         /\ \A s \in Used : /\ outbox[s] \in Item /\ outbox[s].msg \in Msg
                            /\ outbox[s].pid \in Ident /\ outbox[s].dup \in 0..1
         /\ \A s, t \in Used : outbox[s].pid = outbox[t].pid => s = t
BY DEF ClientInv, OutboxInv, OutboxTypeOK, IdentsUnique, SlotsFilled, Used, Item

(* Slots, packets and identifiers may only disappear, and a message be told
   rejected, or done once its slot is gone: rejected publishes, completed
   ones, and the connection's steps.                                       *)
LEMMA ShrinkKeepsDelivery ==
  ASSUME ClientInv, WireInv, DeliveryInv,
         Used' \subseteq Used, \A s \in Used' : outbox'[s] = outbox[s],
         UNCHANGED toBroker \/ toBroker' = <<>>, AcksKept,
         \/ UNCHANGED <<held, session_lost>>
         \/ held' = {} /\ session_lost' = (session_lost \/ held # {}),
         \A k \in Msg : \/ status'[k] = status[k]
                        \/ status[k] = "new" /\ status'[k] = "failed"
                        \/ status'[k] = "done" /\ \A s \in Used' : outbox[s].msg # k,
         UNCHANGED <<received, refused>>, Sending' = Sending
  PROVE  DeliveryInv'
<1>1. Wire' \subseteq Wire /\ \A i \in Wire' : toBroker'[i] = toBroker[i]
  <2>1. CASE UNCHANGED toBroker
    BY <2>1 DEF Wire
  <2>2. CASE toBroker' = <<>>
    <3>1. Wire' = {}
      BY <2>2 DEF Wire
    <3>. QED BY <3>1
  <2>. QED BY <2>1, <2>2
<1>2. \A st \in SlotState \ {"FREE"} : InState(st)' \subseteq InState(st)
  BY DEF InState, Used
<1>3. SlotsPending'
  BY SlotType DEF DeliveryInv, SlotsPending
<1>4. PublishesMatch'
  BY <1>1, WireType, SMTT(20) DEF DeliveryInv, PublishesMatch, IsPublish
<1>5. PubrelsMatch'
  BY <1>1 DEF DeliveryInv, PubrelsMatch, IsPublish
<1>6. Released'
  BY <1>2 DEF DeliveryInv, Released, InState, Used, Taken, SlotState
<1>7. AcksMatch'
  <2> SUFFICES ASSUME NEW i \in Acks', NEW s \in Used', outbox'[s].pid = toClient'[i].pid
               PROVE  IF toClient'[i].type = "PUBREC" /\ toClient'[i].ok
                      THEN Taken(outbox[s].msg)
                      ELSE received[outbox[s].msg] > 0 \/ outbox[s].msg \in refused
    BY DEF AcksMatch, Taken
  <2>1. PICK j \in Acks : toClient'[i] = toClient[j]
    BY DEF AcksKept
  <2>. QED BY <2>1 DEF DeliveryInv, AcksMatch
<1>8. HeldMatch'
  BY DEF DeliveryInv, HeldMatch, Taken
<1>9. HeldComplete'
  BY <1>1 DEF DeliveryInv, HeldComplete, IsPublish, Taken
<1>10. QueuedUnsent'
  BY <1>1, <1>2 DEF DeliveryInv, QueuedUnsent, Waiting, InState, Used, SlotState
<1>11. UnmarkedFirst'
  BY <1>1 DEF DeliveryInv, UnmarkedFirst, IsPublish
<1>12. RejectedUnsent'
  BY DEF DeliveryInv, RejectedUnsent
<1>. QED BY <1>3, <1>4, <1>5, <1>6, <1>7, <1>8, <1>9, <1>10, <1>11, <1>12 DEF DeliveryInv

(* A QoS 0 message is sent.                                                *)
LEMMA Qos0KeepsDelivery ==
  ASSUME ClientInv, WireInv, DeliveryInv, NEW m \in Msg, status[m] = "new", QosOf[m] = 0,
         Told(m, "done"), Send(PublishPacket(0, 0, m)),
         UNCHANGED <<outbox, toClient, held, received, refused, session_lost>>, Sending' = Sending
  PROVE  DeliveryInv'
<1>1. Used' = Used /\ Acks' = Acks /\ \A st : InState(st)' = InState(st)
  BY DEF Used, Acks, InState
<1>2. /\ status'[m] = "done"
      /\ \A k \in Msg : k # m => status'[k] = status[k]
  BY DEF Told, ClientInv, ClientTypeOK
<1> DEFINE p == PublishPacket(0, 0, m)
<1>3. p.type = "PUBLISH" /\ p.pid = 0 /\ p.dup = 0 /\ p.msg = m
  BY DEF PublishPacket
<1>4. Send(p)
  OBVIOUS
<1> HIDE DEF p
<1>5. PICK n \in Nat : /\ n \notin Wire /\ Wire' = Wire \cup {n} /\ Wire \subseteq Nat
                       /\ toBroker'[n] = p
                       /\ \A i \in Wire : i < n /\ toBroker'[i] = toBroker[i]
  BY <1>4, WireAfterSend
<1>6. \A s \in Used : outbox[s].msg # m /\ outbox[s].pid # 0
  BY DEF DeliveryInv, SlotsPending
<1>7. \A i \in Wire : toBroker[i].msg # m
  BY WireType, OutboxAssumption DEF DeliveryInv, PublishesMatch, PubrelsMatch
<1>8. SlotsPending'
  BY <1>1, <1>2, <1>6, SlotType DEF DeliveryInv, SlotsPending
<1>9. PublishesMatch'
  BY <1>1, <1>2, <1>3, <1>5, <1>6, <1>7, WireType, SMTT(20) DEF DeliveryInv, PublishesMatch, IsPublish
<1>10. PubrelsMatch'
  <2> SUFFICES ASSUME NEW i \in Wire', ~IsPublish(i)'
               PROVE  /\ toBroker'[i].msg = NoMsg
                      /\ \A s \in Used : outbox[s].pid = toBroker'[i].pid
                                          => outbox[s].state = "PUBREL_SENT"
                      /\ \A j \in Wire' : i < j /\ IsPublish(j)' /\ QosOf[toBroker'[j].msg] > 0
                                           => toBroker'[j].pid # toBroker'[i].pid
    BY <1>1 DEF PubrelsMatch
  <2>1. i \in Wire /\ ~IsPublish(i) /\ toBroker'[i] = toBroker[i]
    BY <1>3, <1>5 DEF IsPublish
  <2>2. \A j \in Wire' : QosOf[toBroker'[j].msg] > 0 => j \in Wire /\ toBroker'[j] = toBroker[j]
    <3>1. toBroker'[n].msg = m /\ ~(QosOf[m] > 0)
      BY <1>3, <1>5
    <3>. QED BY <1>5, <3>1
  <2>. QED BY <2>1, <2>2 DEF DeliveryInv, PubrelsMatch, IsPublish
<1>11. Released' /\ AcksMatch' /\ HeldMatch'
  BY <1>1 DEF DeliveryInv, Released, AcksMatch, HeldMatch, Taken
<1>12. HeldComplete'
  BY <1>1, <1>3, <1>5 DEF DeliveryInv, HeldComplete, IsPublish, Taken
<1>13. QueuedUnsent'
  BY <1>1, <1>3, <1>5, <1>6 DEF DeliveryInv, QueuedUnsent, Waiting, InState, Used
<1>14. UnmarkedFirst'
  <2> SUFFICES ASSUME NEW i \in Wire', IsPublish(i)', toBroker'[i].dup = 0
               PROVE  /\ received[toBroker'[i].msg] = 0
                      /\ \A j \in Wire' : j < i => toBroker'[j].msg # toBroker'[i].msg
    BY DEF UnmarkedFirst
  <2>1. CASE i = n
    BY <1>3, <1>5, <1>7, <2>1 DEF DeliveryInv, RejectedUnsent
  <2>2. CASE i # n
    BY <1>5, <2>2 DEF DeliveryInv, UnmarkedFirst, IsPublish
  <2>. QED BY <2>1, <2>2
<1>15. RejectedUnsent'
  BY <1>2 DEF DeliveryInv, RejectedUnsent
<1>. QED BY <1>8, <1>9, <1>10, <1>11, <1>12, <1>13, <1>14, <1>15 DEF DeliveryInv

(* noxmqtt_outbox_store, with an identifier that is not in use: one slot
   more, of the message.                                                   *)
LEMMA StoreAddsSlot ==
  ASSUME ClientInv, NEW pid, NEW m, NEW st \in SlotState \ {"FREE"},
         Holding(pid) = {}, OutboxStore(pid, m, st)
  PROVE  \E f \in Slot \ Used :
           /\ Used' = Used \cup {f}
           /\ outbox'[f] = [state |-> st, pid |-> pid, dup |-> 0, msg |-> m]
           /\ \A s \in Slot \ {f} : outbox'[s] = outbox[s]
<1> DEFINE f == First(InState("FREE"))
           item == [state |-> st, pid |-> pid, dup |-> 0, msg |-> m]
<1>1. InState("FREE") # {} /\ outbox' = [outbox EXCEPT ![f] = item]
  BY DEF OutboxStore
<1>2. f \in Slot /\ outbox[f].state = "FREE"
  BY <1>1, FirstIsMember DEF InState
<1>3. item.state # "FREE" /\ outbox \in [Slot -> Item]
  BY DEF ClientInv, OutboxInv, OutboxTypeOK
<1> HIDE DEF f, item
<1>4. outbox'[f] = item /\ \A s \in Slot \ {f} : outbox'[s] = outbox[s]
  BY <1>1, <1>2, <1>3
<1>5. f \notin Used /\ Used' = Used \cup {f}
  BY <1>2, <1>3, <1>4 DEF Used
<1>. QED BY <1>2, <1>4, <1>5 DEF item

(* A message is stored with a fresh identifier, and sent or QUEUED.        *)
LEMMA StoreKeepsDelivery ==
  ASSUME ClientInv, WireInv, DeliveryInv,
         NEW m \in Msg, status[m] = "new", QosOf[m] \in 1..2, Told(m, "pending"),
         NEW st \in {"QUEUED", "PUBLISH_SENT"}, ~InUse(packet_ident),
         OutboxStore(packet_ident, m, st),
         \/ st = "PUBLISH_SENT" /\ Send(PublishPacket(packet_ident, 0, m))
         \/ st = "QUEUED" /\ UNCHANGED toBroker,
         UNCHANGED <<toClient, held, received, refused, session_lost>>, Sending' = Sending
  PROVE  DeliveryInv'
<1> DEFINE pid == packet_ident
           p == PublishPacket(packet_ident, 0, m)
<1>1. /\ pid # 0 /\ Holding(pid) = {} /\ pid \notin held
      /\ \A i \in Wire : toBroker[i].pid # pid
      /\ \A i \in Acks : toClient[i].pid # pid
  BY DEF InUse, Wire, Acks
<1>2. p.type = "PUBLISH" /\ p.pid = pid /\ p.dup = 0 /\ p.msg = m
  BY DEF PublishPacket
<1>3. st \in SlotState \ {"FREE"}
  BY DEF SlotState
<1>4. PICK f \in Slot \ Used :
        /\ Used' = Used \cup {f}
        /\ outbox'[f] = [state |-> st, pid |-> pid, dup |-> 0, msg |-> m]
        /\ \A s \in Slot \ {f} : outbox'[s] = outbox[s]
  BY <1>1, <1>3, StoreAddsSlot
<1>5. /\ outbox'[f].state = st /\ outbox'[f].pid = pid
      /\ outbox'[f].dup = 0 /\ outbox'[f].msg = m
  BY <1>4
<1>6. \A s \in Used : /\ s # f /\ outbox'[s] = outbox[s]
                      /\ outbox[s].msg # m /\ outbox[s].pid # pid
  BY <1>1, <1>4, SlotType DEF DeliveryInv, SlotsPending, Holding
<1>7. \A i \in Wire : toBroker[i].msg # m
  BY WireType, OutboxAssumption DEF DeliveryInv, PublishesMatch, PubrelsMatch
<1>8. /\ status'[m] = "pending"
      /\ \A k \in Msg : k # m => status'[k] = status[k]
      /\ received[m] = 0
  BY DEF Told, ClientInv, ClientTypeOK, DeliveryInv, RejectedUnsent
<1>9. PICK n \in Nat : \/ /\ st = "PUBLISH_SENT"
                          /\ n \notin Wire /\ Wire' = Wire \cup {n} /\ Wire \subseteq Nat
                          /\ toBroker'[n] = p
                          /\ \A i \in Wire : i < n /\ toBroker'[i] = toBroker[i]
                       \/ /\ st = "QUEUED" /\ n \notin Wire
                          /\ Wire' = Wire /\ toBroker' = toBroker
  <2>1. CASE st = "PUBLISH_SENT"
    BY <2>1, WireAfterSend
  <2>2. CASE st = "QUEUED"
    BY <2>2 DEF Wire
  <2>. QED BY <2>1, <2>2
<1>10. Acks' = Acks
  BY DEF Acks
<1> HIDE DEF p, pid
<1>11. SlotsPending'
  BY <1>1, <1>4, <1>5, <1>6, <1>8, SlotType DEF DeliveryInv, SlotsPending
<1>12. PublishesMatch'
  <2> SUFFICES ASSUME NEW i \in Wire', IsPublish(i)'
               PROVE  /\ status'[toBroker'[i].msg] \in {"pending", "done"}
                      /\ QosOf[toBroker'[i].msg] = 0 <=> toBroker'[i].pid = 0
                      /\ QosOf[toBroker'[i].msg] = 0 => toBroker'[i].dup = 0
                      /\ \A s \in Used' : outbox'[s].pid = toBroker'[i].pid
                                            <=> outbox'[s].msg = toBroker'[i].msg
                      /\ \A j \in Wire' : IsPublish(j)' /\ toBroker'[j].msg = toBroker'[i].msg
                                           => toBroker'[j].pid = toBroker'[i].pid
    BY DEF PublishesMatch
  <2>1. \A j \in Wire' : \/ j \in Wire /\ toBroker'[j] = toBroker[j]
                         \/ toBroker'[j] = p
    BY <1>9
  <2>2. CASE i \in Wire /\ toBroker'[i] = toBroker[i]
    <3>1. IsPublish(i) /\ toBroker[i].msg # m /\ toBroker[i].msg \in Msg /\ toBroker[i].pid # pid
      BY <1>1, <1>7, <2>2, WireType DEF IsPublish
    <3>. QED BY <1>2, <1>4, <1>5, <1>6, <1>8, <2>1, <2>2, <3>1 DEF DeliveryInv, PublishesMatch, IsPublish
  <2>3. CASE toBroker'[i] = p
    BY <1>1, <1>2, <1>4, <1>5, <1>6, <1>7, <1>8, <2>1, <2>3
  <2>. QED BY <2>1, <2>2, <2>3
<1>13. PubrelsMatch'
  BY <1>1, <1>2, <1>4, <1>5, <1>6, <1>9 DEF DeliveryInv, PubrelsMatch, IsPublish
<1>14. Released'
  BY <1>4, <1>5, <1>6 DEF DeliveryInv, Released, InState, Used, Taken
<1>15. AcksMatch'
  BY <1>1, <1>4, <1>5, <1>6, <1>10 DEF DeliveryInv, AcksMatch, Taken
<1>16. HeldMatch'
  BY <1>1, <1>4, <1>5, <1>6 DEF DeliveryInv, HeldMatch, Taken
<1>17. HeldComplete'
  BY <1>2, <1>4, <1>5, <1>6, <1>8, <1>9 DEF DeliveryInv, HeldComplete, IsPublish, Taken
<1>18. QueuedUnsent'
  BY <1>2, <1>4, <1>5, <1>6, <1>7, <1>8, <1>9 DEF DeliveryInv, QueuedUnsent, Waiting, InState, Used
<1>19. UnmarkedFirst'
  BY <1>2, <1>7, <1>8, <1>9 DEF DeliveryInv, UnmarkedFirst, IsPublish
<1>20. RejectedUnsent'
  BY <1>8 DEF DeliveryInv, RejectedUnsent
<1>. QED BY <1>11, <1>12, <1>13, <1>14, <1>15, <1>16, <1>17, <1>18, <1>19, <1>20 DEF DeliveryInv

(* One slot changes its state, and may be marked as a duplicate.           *)
OnlyMarks(f, st) ==
  /\ \A s \in Slot : outbox'[s].msg = outbox[s].msg /\ outbox'[s].pid = outbox[s].pid
  /\ \A s \in Slot \ {f} : outbox'[s] = outbox[s]
  /\ outbox'[f].state = st

LEMMA MarkOnlyMarks ==
  ASSUME ClientInv, NEW f \in Slot, NEW st, NEW dup,
         \/ outbox' = [outbox EXCEPT ![f].state = st]
         \/ outbox' = [outbox EXCEPT ![f].state = st, ![f].dup = dup]
         \/ outbox[f].state = st /\ outbox' = [outbox EXCEPT ![f].dup = dup]
  PROVE  OnlyMarks(f, st)
<1>1. outbox \in [Slot -> Item]
  BY DEF ClientInv, OutboxInv, OutboxTypeOK
<1>2. CASE outbox' = [outbox EXCEPT ![f].state = st]
  BY <1>1, <1>2 DEF OnlyMarks, Item
<1>3. CASE outbox' = [outbox EXCEPT ![f].state = st, ![f].dup = dup]
  BY <1>1, <1>3 DEF OnlyMarks, Item
<1>4. CASE outbox[f].state = st /\ outbox' = [outbox EXCEPT ![f].dup = dup]
  BY <1>1, <1>4 DEF OnlyMarks, Item
<1>. QED BY <1>2, <1>3, <1>4

(* A slot's PUBLISH is sent, for the first time or marked as a duplicate:
   the pump and the replay.                                                *)
LEMMA SendPublishKeepsDelivery ==
  ASSUME ClientInv, WireInv, DeliveryInv,
         NEW f \in Used, outbox[f].state \in {"QUEUED", "PUBLISH_SENT"},
         NEW dup \in 0..1, dup = 1 \/ (outbox[f].state = "QUEUED" /\ dup = outbox[f].dup),
         Sending = {},
         OnlyMarks(f, "PUBLISH_SENT") \/ (OnlyMarks(f, "QUEUED") /\ f \in Sending'),
         Send(PublishPacket(outbox[f].pid, dup, outbox[f].msg)),
         UNCHANGED <<toClient, held, received, refused, status, session_lost>>
  PROVE  DeliveryInv'
<1> DEFINE p == PublishPacket(outbox[f].pid, dup, outbox[f].msg)
<1>1. p.type = "PUBLISH" /\ p.pid = outbox[f].pid /\ p.dup = dup /\ p.msg = outbox[f].msg
  BY DEF PublishPacket
<1>2. PICK n \in Nat : /\ n \notin Wire /\ Wire' = Wire \cup {n} /\ Wire \subseteq Nat
                       /\ toBroker'[n] = p
                       /\ \A i \in Wire : i < n /\ toBroker'[i] = toBroker[i]
  BY WireAfterSend
<1>3. /\ \A s \in Slot : outbox'[s].msg = outbox[s].msg /\ outbox'[s].pid = outbox[s].pid
      /\ \A s \in Slot \ {f} : outbox'[s] = outbox[s]
      /\ outbox'[f].state \in {"QUEUED", "PUBLISH_SENT"}
      /\ outbox'[f].state = "QUEUED" => f \in Sending'
  BY DEF OnlyMarks
<1>4. Used' = Used /\ Acks' = Acks
  BY <1>3 DEF Used, Acks
<1>5. /\ status[p.msg] = "pending" /\ QosOf[p.msg] \in 1..2 /\ p.pid # 0
      /\ \A s \in Used : outbox[s].msg = p.msg <=> s = f
      /\ \A s \in Used : outbox[s].pid = p.pid <=> s = f
      /\ p.msg \in Msg
  BY <1>1, SlotType DEF DeliveryInv, SlotsPending
<1>6. \A i \in Wire : IsPublish(i) => (toBroker[i].msg = p.msg <=> toBroker[i].pid = p.pid)
  BY <1>1 DEF DeliveryInv, PublishesMatch
<1>7. \A i \in Wire : ~IsPublish(i) => toBroker[i].pid # p.pid
  BY <1>1 DEF DeliveryInv, PubrelsMatch
<1>8. outbox[f].state = "QUEUED" => received[p.msg] = 0 /\ \A i \in Wire : toBroker[i].msg # p.msg
  BY <1>1 DEF DeliveryInv, QueuedUnsent, Waiting, InState, Used
<1>9. dup = 0 => outbox[f].state = "QUEUED"
  OBVIOUS
<1>10. Taken(p.msg) /\ ~session_lost => p.pid \in held
  BY <1>1 DEF DeliveryInv, HeldComplete
<1> HIDE DEF p
<1>11. SlotsPending'
  BY <1>3, <1>4, SlotType DEF DeliveryInv, SlotsPending
<1>12. PublishesMatch'
  <2> SUFFICES ASSUME NEW i \in Wire', IsPublish(i)'
               PROVE  /\ status[toBroker'[i].msg] \in {"pending", "done"}
                      /\ QosOf[toBroker'[i].msg] = 0 <=> toBroker'[i].pid = 0
                      /\ QosOf[toBroker'[i].msg] = 0 => toBroker'[i].dup = 0
                      /\ \A s \in Used : outbox[s].pid = toBroker'[i].pid
                                           <=> outbox[s].msg = toBroker'[i].msg
                      /\ \A j \in Wire' : IsPublish(j)' /\ toBroker'[j].msg = toBroker'[i].msg
                                           => toBroker'[j].pid = toBroker'[i].pid
    BY <1>3, <1>4, SlotType DEF PublishesMatch
  <2>1. \A j \in Wire' : \/ j \in Wire /\ toBroker'[j] = toBroker[j]
                         \/ toBroker'[j] = p
    BY <1>2
  <2>2. CASE i \in Wire /\ toBroker'[i] = toBroker[i]
    <3>1. IsPublish(i)
      BY <2>2 DEF IsPublish
    <3>. QED BY <1>6, <2>1, <2>2, <3>1 DEF DeliveryInv, PublishesMatch, IsPublish
  <2>3. CASE toBroker'[i] = p
    <3>1. \A j \in Wire' : IsPublish(j)' /\ toBroker'[j].msg = p.msg => toBroker'[j].pid = p.pid
      BY <1>6, <2>1 DEF IsPublish
    <3>. QED BY <1>5, <2>3, <3>1
  <2>. QED BY <2>1, <2>2, <2>3
<1>13. PubrelsMatch'
  <2> SUFFICES ASSUME NEW i \in Wire', ~IsPublish(i)'
               PROVE  /\ toBroker'[i].msg = NoMsg
                      /\ \A s \in Used : outbox[s].pid = toBroker'[i].pid
                                          => outbox'[s].state = "PUBREL_SENT"
                      /\ \A j \in Wire' : i < j /\ IsPublish(j)' /\ QosOf[toBroker'[j].msg] > 0
                                           => toBroker'[j].pid # toBroker'[i].pid
    BY <1>3, <1>4, SlotType DEF PubrelsMatch
  <2>1. i \in Wire /\ ~IsPublish(i) /\ toBroker'[i] = toBroker[i] /\ toBroker[i].pid # p.pid
    BY <1>1, <1>2, <1>7 DEF IsPublish
  <2>2. \A s \in Used : outbox[s].pid = toBroker[i].pid => outbox'[s] = outbox[s]
    BY <1>1, <1>3, <2>1, SlotType
  <2>. QED BY <1>2, <2>1, <2>2 DEF DeliveryInv, PubrelsMatch, IsPublish
<1>14. Released'
  BY <1>3, <1>4 DEF DeliveryInv, Released, InState, Used, Taken
<1>15. AcksMatch'
  BY <1>3, <1>4, SlotType DEF DeliveryInv, AcksMatch, Taken
<1>16. HeldMatch'
  BY <1>3, <1>4, SlotType DEF DeliveryInv, HeldMatch, Taken
<1>17. HeldComplete'
  <2>1. ~session_lost => \A i \in Wire' : IsPublish(i)' /\ Taken(toBroker'[i].msg)
                                            => toBroker'[i].pid \in held
    BY <1>2, <1>10 DEF DeliveryInv, HeldComplete, IsPublish
  <2>2. ~session_lost => \A s \in Used : outbox'[s].state # "PUBREL_SENT" /\ Taken(outbox[s].msg)
                                           => outbox[s].pid \in held
    BY <1>1, <1>3, <1>10 DEF DeliveryInv, HeldComplete, Used
  <2>. QED BY <1>3, <1>4, <2>1, <2>2, SlotType DEF HeldComplete, Taken
<1>18. QueuedUnsent'
  <2> SUFFICES ASSUME NEW s \in Slot, outbox'[s].state = "QUEUED", s \notin Sending'
               PROVE  /\ outbox'[s].dup = 0 /\ received[outbox'[s].msg] = 0
                      /\ \A i \in Wire' : toBroker'[i].msg # outbox'[s].msg
    BY DEF QueuedUnsent, Waiting, InState
  <2>1. s # f /\ outbox'[s] = outbox[s] /\ s \in Waiting /\ s \in Used
    BY <1>3 DEF Waiting, InState, Used
  <2>. QED BY <1>2, <1>5, <2>1 DEF DeliveryInv, QueuedUnsent
<1>19. UnmarkedFirst'
  <2> SUFFICES ASSUME NEW i \in Wire', IsPublish(i)', toBroker'[i].dup = 0
               PROVE  /\ received[toBroker'[i].msg] = 0
                      /\ \A j \in Wire' : j < i => toBroker'[j].msg # toBroker'[i].msg
    BY DEF UnmarkedFirst
  <2>1. CASE i = n
    BY <1>1, <1>2, <1>8, <1>9, <2>1
  <2>2. CASE i # n
    BY <1>2, <2>2 DEF DeliveryInv, UnmarkedFirst, IsPublish
  <2>. QED BY <2>1, <2>2
<1>20. RejectedUnsent'
  BY DEF DeliveryInv, RejectedUnsent
<1>. QED BY <1>11, <1>12, <1>13, <1>14, <1>15, <1>16, <1>17, <1>18, <1>19, <1>20 DEF DeliveryInv

(* A slot is released, or was before, and PUBREL is sent if it can be: a
   PUBREC and the replay.                                                  *)
LEMMA ReleaseKeepsDelivery ==
  ASSUME ClientInv, WireInv, DeliveryInv, NEW pid,
         UNCHANGED toBroker \/ Send(PubrelPacket(pid)),
         \A s \in Used : outbox[s].pid = pid => Taken(outbox[s].msg),
         \/ UNCHANGED outbox /\ \A s \in Used : outbox[s].pid = pid => outbox[s].state = "PUBREL_SENT"
         \/ \E f \in Used : /\ outbox[f].pid = pid
                            /\ outbox' = [outbox EXCEPT ![f].state = "PUBREL_SENT"],
         AcksKept, UNCHANGED <<held, received, refused, status, session_lost>>, Sending' = Sending
  PROVE  DeliveryInv'
<1> DEFINE p == PubrelPacket(pid)
<1>1. p.type = "PUBREL" /\ p.type # "PUBLISH" /\ p.pid = pid /\ p.msg = NoMsg
  BY DEF PubrelPacket
<1>2. PICK n \in Nat : /\ n \notin Wire /\ Wire \subseteq Nat
                       /\ \/ /\ Wire' = Wire \cup {n} /\ toBroker'[n] = p
                             /\ \A i \in Wire : i < n /\ toBroker'[i] = toBroker[i]
                          \/ Wire' = Wire /\ toBroker' = toBroker
  <2>1. CASE UNCHANGED toBroker
    <3>1. Len(toBroker) + 1 \in Nat /\ Len(toBroker) + 1 \notin Wire /\ Wire \subseteq Nat
      BY WireType DEF Wire
    <3>. QED BY <2>1, <3>1 DEF Wire
  <2>2. CASE Send(p)
    BY <2>2, WireAfterSend
  <2>. QED BY <2>1, <2>2
<1> HIDE DEF p
<1>3. /\ \A s \in Slot : /\ outbox'[s].msg = outbox[s].msg /\ outbox'[s].pid = outbox[s].pid
                         /\ outbox'[s].dup = outbox[s].dup
      /\ \A s \in Used : IF outbox[s].pid = pid THEN outbox'[s].state = "PUBREL_SENT"
                         ELSE outbox'[s].state = outbox[s].state
      /\ \A s \in Slot \ Used : outbox'[s] = outbox[s]
  <2>1. CASE UNCHANGED outbox
                  /\ \A s \in Used : outbox[s].pid = pid => outbox[s].state = "PUBREL_SENT"
    BY <2>1
  <2>2. ASSUME NEW f \in Used, outbox[f].pid = pid,
               outbox' = [outbox EXCEPT ![f].state = "PUBREL_SENT"]
        PROVE  <1>3!:
    BY <2>2, SlotType DEF ClientInv, OutboxInv, OutboxTypeOK, Item
  <2>. QED BY <2>1, <2>2
<1>4. Used' = Used
  BY <1>3 DEF Used
<1>5. \A i \in Wire' : IsPublish(i)' => i \in Wire /\ IsPublish(i) /\ toBroker'[i] = toBroker[i]
  BY <1>1, <1>2 DEF IsPublish
<1>6. \A i \in Wire' : ~IsPublish(i)' => \/ i \in Wire /\ ~IsPublish(i) /\ toBroker'[i] = toBroker[i]
                                         \/ i = n /\ toBroker'[i] = p
  BY <1>1, <1>2 DEF IsPublish
<1>7. SlotsPending'
  BY <1>3, <1>4, SlotType DEF DeliveryInv, SlotsPending
<1>8. PublishesMatch'
  BY <1>3, <1>4, <1>5, SlotType DEF DeliveryInv, PublishesMatch
<1>9. PubrelsMatch'
  <2> SUFFICES ASSUME NEW i \in Wire', ~IsPublish(i)'
               PROVE  /\ toBroker'[i].msg = NoMsg
                      /\ \A s \in Used : outbox[s].pid = toBroker'[i].pid
                                          => outbox'[s].state = "PUBREL_SENT"
                      /\ \A j \in Wire' : i < j /\ IsPublish(j)' /\ QosOf[toBroker'[j].msg] > 0
                                           => toBroker'[j].pid # toBroker'[i].pid
    BY <1>3, <1>4, SlotType DEF PubrelsMatch
  <2>1. CASE i \in Wire /\ ~IsPublish(i) /\ toBroker'[i] = toBroker[i]
    <3>1. \A s \in Used : outbox[s].pid = toBroker[i].pid => outbox'[s].state = "PUBREL_SENT"
      BY <1>3, <2>1 DEF DeliveryInv, PubrelsMatch
    <3>. QED BY <1>5, <2>1, <3>1 DEF DeliveryInv, PubrelsMatch
  <2>2. CASE i = n /\ toBroker'[i] = p
    <3>1. \A j \in Wire' : IsPublish(j)' => ~(i < j)
      BY <1>2, <1>5, <2>2
    <3>. QED BY <1>1, <1>3, <2>2, <3>1
  <2>. QED BY <1>6, <2>1, <2>2
<1>10. Released'
  BY <1>3, <1>4 DEF DeliveryInv, Released, InState, Used, Taken
<1>11. AcksMatch'
  <2> SUFFICES ASSUME NEW i \in Acks', NEW s \in Used, outbox[s].pid = toClient'[i].pid
               PROVE  IF toClient'[i].type = "PUBREC" /\ toClient'[i].ok
                      THEN Taken(outbox[s].msg)
                      ELSE received[outbox[s].msg] > 0 \/ outbox[s].msg \in refused
    BY <1>3, <1>4, SlotType DEF AcksMatch, Taken
  <2>1. PICK j \in Acks : toClient'[i] = toClient[j]
    BY DEF AcksKept
  <2>. QED BY <2>1 DEF DeliveryInv, AcksMatch
<1>12. HeldMatch'
  BY <1>3, <1>4, SlotType DEF DeliveryInv, HeldMatch, Taken
<1>13. HeldComplete'
  BY <1>3, <1>4, <1>5, SlotType DEF DeliveryInv, HeldComplete, Taken
<1>14. QueuedUnsent'
  <2> SUFFICES ASSUME NEW s \in Slot, outbox'[s].state = "QUEUED", s \notin Sending'
               PROVE  /\ outbox'[s].dup = 0 /\ received[outbox'[s].msg] = 0
                      /\ \A i \in Wire' : toBroker'[i].msg # outbox'[s].msg
    BY DEF QueuedUnsent, Waiting, InState
  <2>1. s \in Waiting /\ outbox[s].msg \in Msg
    BY <1>3, SlotType DEF Waiting, InState, Used
  <2>2. \A i \in Wire' : toBroker'[i].msg # outbox[s].msg
    BY <1>1, <1>2, <2>1, OutboxAssumption DEF DeliveryInv, QueuedUnsent
  <2>. QED BY <1>3, <2>1, <2>2 DEF DeliveryInv, QueuedUnsent
<1>15. UnmarkedFirst'
  <2> SUFFICES ASSUME NEW i \in Wire', IsPublish(i)', toBroker'[i].dup = 0
               PROVE  /\ received[toBroker'[i].msg] = 0
                      /\ \A j \in Wire' : j < i => toBroker'[j].msg # toBroker'[i].msg
    BY DEF UnmarkedFirst
  <2>1. i \in Wire /\ IsPublish(i) /\ toBroker'[i] = toBroker[i]
    BY <1>5
  <2>2. \A j \in Wire' : j < i => j \in Wire /\ toBroker'[j] = toBroker[j]
    BY <1>2, <2>1
  <2>. QED BY <2>1, <2>2 DEF DeliveryInv, UnmarkedFirst
<1>16. RejectedUnsent'
  BY DEF DeliveryInv, RejectedUnsent
<1>. QED BY <1>7, <1>8, <1>9, <1>10, <1>11, <1>12, <1>13, <1>14, <1>15, <1>16 DEF DeliveryInv

(* The broker reads a packet and may answer it: what it takes, holds and
   answers agrees with the slots.                                          *)
LEMMA ReadKeepsDelivery ==
  ASSUME ClientInv, WireInv, DeliveryInv, toBroker # <<>>, toBroker' = Tail(toBroker),
         UNCHANGED <<outbox, status, session_lost>>, Sending' = Sending,
         NEW p, p = Head(toBroker), NEW a,
         \A k \in Msg : received[k] > 0 => received'[k] > 0,
         \A k \in Msg : k # p.msg => received'[k] = received[k],
         refused \subseteq refused',
         \A i \in Acks' : (\E j \in Acks : toClient'[i] = toClient[j]) \/ toClient'[i] = a,
         \A s \in Used : outbox[s].pid = a.pid =>
            IF a.type = "PUBREC" /\ a.ok
            THEN QosOf[outbox[s].msg] = 2 /\ received'[outbox[s].msg] > 0
            ELSE received'[outbox[s].msg] > 0 \/ outbox[s].msg \in refused',
         \A s \in Used : outbox[s].pid \in held' =>
            \/ outbox[s].pid \in held
            \/ QosOf[outbox[s].msg] = 2 /\ received'[outbox[s].msg] > 0,
         \/ /\ p.type = "PUBLISH" /\ held \subseteq held'
            /\ QosOf[p.msg] = 2 /\ received'[p.msg] > 0 => Taken(p.msg) \/ p.pid \in held'
         \/ p.type # "PUBLISH" /\ held' = held \ {p.pid} /\ UNCHANGED received
  PROVE  DeliveryInv'
<1>1. /\ 1 \in Wire /\ toBroker[1] = p
      /\ \A i \in Wire' : /\ i \in Nat /\ i + 1 \in Wire /\ 1 < i + 1
                          /\ toBroker'[i] = toBroker[i + 1]
                          /\ IsPublish(i)' = IsPublish(i + 1)
  BY WireAfterRead DEF IsPublish
<1>2. Used' = Used /\ \A st : InState(st)' = InState(st)
  BY DEF Used, InState
<1>3. IsPublish(1) <=> p.type = "PUBLISH"
  BY <1>1 DEF IsPublish
<1>4. \A i \in Wire : IsPublish(i) => toBroker[i].msg \in Msg
  BY WireType
<1>5. SlotsPending'
  BY <1>2 DEF DeliveryInv, SlotsPending
<1>6. PublishesMatch'
  <2> SUFFICES ASSUME NEW i \in Wire', IsPublish(i)'
               PROVE  /\ status[toBroker'[i].msg] \in {"pending", "done"}
                      /\ QosOf[toBroker'[i].msg] = 0 <=> toBroker'[i].pid = 0
                      /\ QosOf[toBroker'[i].msg] = 0 => toBroker'[i].dup = 0
                      /\ \A s \in Used : outbox[s].pid = toBroker'[i].pid
                                           <=> outbox[s].msg = toBroker'[i].msg
                      /\ \A j \in Wire' : IsPublish(j)' /\ toBroker'[j].msg = toBroker'[i].msg
                                           => toBroker'[j].pid = toBroker'[i].pid
    BY <1>2 DEF PublishesMatch
  <2>1. i + 1 \in Wire /\ IsPublish(i + 1) /\ toBroker'[i] = toBroker[i + 1]
    BY <1>1
  <2>2. \A j \in Wire' : IsPublish(j)' => /\ j + 1 \in Wire /\ IsPublish(j + 1)
                                          /\ toBroker'[j] = toBroker[j + 1]
    BY <1>1
  <2> DEFINE q == toBroker[i + 1]
  <2>3. /\ status[q.msg] \in {"pending", "done"}
        /\ QosOf[q.msg] = 0 <=> q.pid = 0
        /\ QosOf[q.msg] = 0 => q.dup = 0
        /\ \A s \in Used : outbox[s].pid = q.pid <=> outbox[s].msg = q.msg
        /\ \A j \in Wire : IsPublish(j) /\ toBroker[j].msg = q.msg => toBroker[j].pid = q.pid
    BY <2>1 DEF DeliveryInv, PublishesMatch
  <2> HIDE DEF q
  <2>4. toBroker'[i] = q
    BY <2>1 DEF q
  <2>5. ASSUME NEW j \in Wire', IsPublish(j)', toBroker'[j].msg = q.msg
        PROVE  toBroker'[j].pid = q.pid
    BY <2>2, <2>3, <2>5
  <2>. QED BY <2>3, <2>4, <2>5
<1>7. PubrelsMatch'
  <2> SUFFICES ASSUME NEW i \in Wire', ~IsPublish(i)'
               PROVE  /\ toBroker'[i].msg = NoMsg
                      /\ \A s \in Used : outbox[s].pid = toBroker'[i].pid
                                          => outbox[s].state = "PUBREL_SENT"
                      /\ \A j \in Wire' : i < j /\ IsPublish(j)' /\ QosOf[toBroker'[j].msg] > 0
                                           => toBroker'[j].pid # toBroker'[i].pid
    BY <1>2 DEF PubrelsMatch
  <2>1. i + 1 \in Wire /\ ~IsPublish(i + 1) /\ toBroker'[i] = toBroker[i + 1] /\ i \in Nat
    BY <1>1
  <2>2. ASSUME NEW j \in Wire', i < j, IsPublish(j)', QosOf[toBroker'[j].msg] > 0
        PROVE  toBroker'[j].pid # toBroker'[i].pid
    <3>1. j \in Nat /\ j + 1 \in Wire /\ IsPublish(j + 1) /\ toBroker'[j] = toBroker[j + 1]
      BY <1>1, <2>2
    <3>2. i + 1 < j + 1
      BY <2>1, <2>2, <3>1
    <3>. QED BY <2>1, <2>2, <3>1, <3>2 DEF DeliveryInv, PubrelsMatch
  <2>3. /\ toBroker[i + 1].msg = NoMsg
        /\ \A s \in Used : outbox[s].pid = toBroker[i + 1].pid => outbox[s].state = "PUBREL_SENT"
    BY <2>1 DEF DeliveryInv, PubrelsMatch
  <2>. QED BY <2>1, <2>2, <2>3
<1>8. Released'
  BY <1>2, SlotType DEF DeliveryInv, Released, Taken, InState, Used
<1>9. AcksMatch'
  <2> SUFFICES ASSUME NEW i \in Acks', NEW s \in Used, outbox[s].pid = toClient'[i].pid
               PROVE  IF toClient'[i].type = "PUBREC" /\ toClient'[i].ok
                      THEN QosOf[outbox[s].msg] = 2 /\ received'[outbox[s].msg] > 0
                      ELSE received'[outbox[s].msg] > 0 \/ outbox[s].msg \in refused'
    BY <1>2 DEF AcksMatch, Taken
  <2>1. CASE toClient'[i] = a
    BY <2>1
  <2>2. ASSUME NEW j \in Acks, toClient'[i] = toClient[j]
        PROVE  IF toClient'[i].type = "PUBREC" /\ toClient'[i].ok
               THEN QosOf[outbox[s].msg] = 2 /\ received'[outbox[s].msg] > 0
               ELSE received'[outbox[s].msg] > 0 \/ outbox[s].msg \in refused'
    BY <2>2, SlotType DEF DeliveryInv, AcksMatch, Taken
  <2>. QED BY <2>1, <2>2
<1>10. HeldMatch'
  BY <1>2, SlotType DEF DeliveryInv, HeldMatch, Taken
<1>11. HeldComplete'
  <2> SUFFICES ASSUME ~session_lost
               PROVE  /\ \A i \in Wire' : IsPublish(i)' /\ QosOf[toBroker'[i].msg] = 2
                                            /\ received'[toBroker'[i].msg] > 0
                                            => toBroker'[i].pid \in held'
                      /\ \A s \in Used : outbox[s].state # "PUBREL_SENT"
                                           /\ QosOf[outbox[s].msg] = 2
                                           /\ received'[outbox[s].msg] > 0
                                           => outbox[s].pid \in held'
    BY <1>2 DEF HeldComplete, Taken
  <2>1. CASE p.type = "PUBLISH"
    <3>1. \A s \in Used : outbox[s].msg = p.msg => outbox[s].pid = p.pid
      BY <1>1, <1>3, <2>1 DEF DeliveryInv, PublishesMatch
    <3>2. \A i \in Wire : IsPublish(i) /\ toBroker[i].msg = p.msg => toBroker[i].pid = p.pid
      BY <1>1, <1>3, <2>1 DEF DeliveryInv, PublishesMatch
    <3>3. \A s \in Used : outbox[s].state # "PUBREL_SENT" /\ QosOf[outbox[s].msg] = 2
                            /\ received'[outbox[s].msg] > 0 => outbox[s].pid \in held'
      BY <2>1, <3>1, SlotType DEF DeliveryInv, HeldComplete, Taken
    <3>4. \A i \in Wire : IsPublish(i) /\ QosOf[toBroker[i].msg] = 2
                            /\ received'[toBroker[i].msg] > 0 => toBroker[i].pid \in held'
      BY <1>4, <2>1, <3>2 DEF DeliveryInv, HeldComplete, Taken
    <3>. QED BY <1>1, <3>3, <3>4, ZenonT(40)
  <2>2. CASE p.type # "PUBLISH" /\ held' = held \ {p.pid} /\ UNCHANGED received
    <3>1. \A s \in Used : outbox[s].state # "PUBREL_SENT" => outbox[s].pid # p.pid
      BY <1>1, <1>3, <2>2 DEF DeliveryInv, PubrelsMatch
    <3>2. \A i \in Wire : 1 < i /\ IsPublish(i) /\ QosOf[toBroker[i].msg] > 0
                            => toBroker[i].pid # p.pid
      BY <1>1, <1>3, <2>2 DEF DeliveryInv, PubrelsMatch
    <3>3. ASSUME NEW i \in Wire', IsPublish(i)', QosOf[toBroker'[i].msg] = 2,
                 received'[toBroker'[i].msg] > 0
          PROVE  toBroker'[i].pid \in held'
      <4>1. /\ i + 1 \in Wire /\ 1 < i + 1 /\ IsPublish(i + 1) /\ toBroker'[i] = toBroker[i + 1]
            /\ QosOf[toBroker[i + 1].msg] = 2 /\ received[toBroker[i + 1].msg] > 0
        BY <1>1, <2>2, <3>3
      <4>2. toBroker[i + 1].pid \in held /\ toBroker[i + 1].pid # p.pid
        BY <3>2, <4>1 DEF DeliveryInv, HeldComplete, Taken
      <4>. QED BY <2>2, <4>1, <4>2
    <3>. QED BY <2>2, <3>1, <3>3 DEF DeliveryInv, HeldComplete, Taken
  <2>. QED BY <2>1, <2>2
<1>12. QueuedUnsent'
  <2> SUFFICES ASSUME NEW s \in Waiting
               PROVE  /\ outbox[s].dup = 0 /\ received'[outbox[s].msg] = 0
                      /\ \A i \in Wire' : toBroker'[i].msg # outbox[s].msg
    BY <1>2 DEF QueuedUnsent, Waiting
  <2>1. outbox[s].msg \in Msg
    BY SlotType DEF Waiting, InState, Used
  <2>2. /\ outbox[s].dup = 0 /\ received[outbox[s].msg] = 0
        /\ \A i \in Wire : toBroker[i].msg # outbox[s].msg
    BY DEF DeliveryInv, QueuedUnsent
  <2>3. outbox[s].msg # p.msg
    BY <1>1, <2>2
  <2>. QED BY <1>1, <2>1, <2>2, <2>3
<1>13. UnmarkedFirst'
  <2> SUFFICES ASSUME NEW i \in Wire', IsPublish(i)', toBroker'[i].dup = 0
               PROVE  /\ received'[toBroker'[i].msg] = 0
                      /\ \A j \in Wire' : j < i => toBroker'[j].msg # toBroker'[i].msg
    BY DEF UnmarkedFirst
  <2>1. /\ i + 1 \in Wire /\ IsPublish(i + 1) /\ toBroker'[i] = toBroker[i + 1]
        /\ toBroker[i + 1].msg \in Msg
    BY <1>1, <1>4
  <2>2. /\ received[toBroker[i + 1].msg] = 0
        /\ \A j \in Wire : j < i + 1 => toBroker[j].msg # toBroker[i + 1].msg
    BY <2>1 DEF DeliveryInv, UnmarkedFirst
  <2>3. toBroker[i + 1].msg # p.msg
    BY <1>1, <2>2
  <2>4. ASSUME NEW j \in Wire', j < i
        PROVE  toBroker'[j].msg # toBroker[i + 1].msg
    <3>1. j \in Nat /\ i \in Nat /\ j + 1 \in Wire /\ toBroker'[j] = toBroker[j + 1]
      BY <1>1
    <3>2. j + 1 < i + 1
      BY <2>4, <3>1
    <3>. QED BY <2>2, <3>1, <3>2
  <2>. QED BY <2>1, <2>2, <2>3, <2>4
<1>14. RejectedUnsent'
  <2>1. p.type = "PUBLISH" => status[p.msg] \in {"pending", "done"}
    BY <1>1, <1>3 DEF DeliveryInv, PublishesMatch
  <2>. QED BY <2>1 DEF DeliveryInv, RejectedUnsent
<1>. QED BY <1>5, <1>6, <1>7, <1>8, <1>9, <1>10, <1>11, <1>12, <1>13, <1>14 DEF DeliveryInv

(* A message is marked without being sent: by the pump that has just sent it,
   and by the replay that could not.                                       *)
LEMMA MarkKeepsDelivery ==
  ASSUME ClientInv, WireInv, DeliveryInv, NEW f \in Used,
         outbox[f].state \in {"QUEUED", "PUBLISH_SENT"}, OnlyMarks(f, "PUBLISH_SENT"),
         Sending \subseteq {f},
         UNCHANGED <<toBroker, toClient, held, received, refused, status, session_lost>>
  PROVE  DeliveryInv'
<1>1. /\ \A s \in Slot : outbox'[s].msg = outbox[s].msg /\ outbox'[s].pid = outbox[s].pid
      /\ \A s \in Slot \ {f} : outbox'[s] = outbox[s]
      /\ outbox'[f].state = "PUBLISH_SENT"
  BY DEF OnlyMarks
<1>2. Used' = Used /\ Wire' = Wire /\ Acks' = Acks
  BY <1>1 DEF Used, Wire, Acks
<1>3. SlotsPending'
  BY <1>1, <1>2, SlotType DEF DeliveryInv, SlotsPending
<1>4. PublishesMatch'
  BY <1>1, <1>2, SlotType DEF DeliveryInv, PublishesMatch, IsPublish
<1>5. PubrelsMatch'
  BY <1>1, <1>2, SlotType DEF DeliveryInv, PubrelsMatch, IsPublish
<1>6. Released'
  BY <1>1, <1>2 DEF DeliveryInv, Released, InState, Taken
<1>7. AcksMatch'
  BY <1>1, <1>2, SlotType DEF DeliveryInv, AcksMatch, Taken
<1>8. HeldMatch' /\ HeldComplete'
  BY <1>1, <1>2, SlotType DEF DeliveryInv, HeldMatch, HeldComplete, Taken, IsPublish
<1>9. QueuedUnsent'
  <2>1. \A s \in Waiting' : s \in Waiting /\ outbox'[s] = outbox[s]
    BY <1>1 DEF Waiting, InState
  <2>. QED BY <1>2, <2>1 DEF DeliveryInv, QueuedUnsent
<1>10. UnmarkedFirst' /\ RejectedUnsent'
  BY <1>2 DEF DeliveryInv, UnmarkedFirst, RejectedUnsent, IsPublish
<1>. QED BY <1>3, <1>4, <1>5, <1>6, <1>7, <1>8, <1>9, <1>10 DEF DeliveryInv

-----------------------------------------------------------------------------
(* The slots sent and not yet marked                                       *)

LEMMA SameSending ==
  ASSUME \A u \in Looping : /\ at'[u] = "mark" <=> at[u] = "mark"
                            /\ at[u] = "mark" => scan'[u] = scan[u]
  PROVE  Sending' = Sending
BY DEF Sending

(* Only the pump sends without marking, and only the pump marks later.     *)
LEMMA OthersKeepSending ==
  ASSUME ThreadTypeOK, [Next]_vars, \A t \in Looping : ~PumpSend(t) /\ ~PumpMark(t)
  PROVE  Sending' = Sending
<1> USE DEF threadVars
<1>1. "receiver" \in Looping /\ "receiver" \in Thread /\ "app" \in Thread /\ Looping \subseteq Thread
      /\ "app" \notin Looping
  BY DEF Looping, Thread
<1>2. CASE AppCall \/ AppReturn
  BY <1>1, <1>2, MoveOne, SameSending DEF AppCall, AppReturn
<1>3. ASSUME NEW t \in Thread, CallEnds(t), UNCHANGED scan
      PROVE  Sending' = Sending
  BY <1>1, <1>3, SameSending DEF CallEnds, ThreadTypeOK
<1>4. ASSUME NEW t \in Thread, TakeIdent(t) \/ Connect(t) \/ Disconnect(t)
      PROVE  Sending' = Sending
  BY <1>3, <1>4 DEF TakeIdent, Connect, Disconnect, Calls
<1>5. ASSUME NEW t \in Thread, NEW m \in Msg, Publish(t, m)
      PROVE  Sending' = Sending
  BY <1>3, <1>5 DEF Publish, PublishRejected, PublishQos0, PublishQueued, PublishSent,
                    PublishFailed, Calls
<1>6. ASSUME NEW t \in Looping, at[t] # "mark", NEW label, label # "mark", Moves(t, label),
             NEW x, UNCHANGED scan \/ scan' = [scan EXCEPT ![t] = x] \/ scan' = [scan EXCEPT ![t].next = x]
      PROVE  Sending' = Sending
  <2>1. at'[t] = label /\ \A u \in Thread \ {t} : at'[u] = at[u]
    BY <1>1, <1>6, MoveOne
  <2>2. \A u \in Looping \ {t} : scan'[u] = scan[u]
    BY <1>6 DEF ThreadTypeOK
  <2>. QED BY <1>1, <1>6, <2>1, <2>2, SameSending
<1>7. ASSUME NEW t \in Looping, Process(t) \/ PumpReturn(t)
      PROVE  Sending' = Sending
  BY <1>6, <1>7 DEF Process, PumpReturn, StartsPump
<1>8. CASE RecvPuback \/ RecvPubcomp \/ RecvPubrecError
  BY <1>1, <1>6, <1>8 DEF RecvPuback, RecvPubcomp, RecvPubrecError, Receives, Completed, StartsPump
<1>9. CASE RecvConnack \/ Resume \/ ReplayAbort \/ ReplayReturn
  BY <1>1, <1>6, <1>9 DEF RecvConnack, Resume, ReplayAbort, ReplayReturn
<1>10. CASE ReplaySend
  <2>1. at["receiver"] = "replay" /\ UNCHANGED at /\ \A u \in Looping \ {"receiver"} : scan'[u] = scan[u]
    BY <1>10 DEF ReplaySend, ThreadTypeOK
  <2>. QED BY <1>1, <2>1, SameSending
<1>11. CASE RecvPubrec \/ Break \/ BrokerStep \/ UNCHANGED vars
  BY <1>11, SameSending DEF RecvPubrec, Break, BrokerStep, vars
<1>. QED BY <1>2, <1>4, <1>5, <1>7, <1>8, <1>9, <1>10, <1>11 DEF Next, Pump, RecvAck, Replay

(* The thread that works without overlap is the only one that can have a
   slot to mark.                                                           *)
LEMMA SendingAlone ==
  ASSUME ThreadTypeOK, NEW t \in Thread, Works(t), Undisturbed'
  PROVE  /\ at[t] # "mark" => Sending = {}
         /\ t \in Looping => Sending \subseteq {scan[t].next}
<1>1. \A u \in Thread \ {t} : at[u] = "out"
  BY WorksAlone
<1>2. Looping \subseteq Thread
  BY DEF Thread
<1>. QED BY <1>1, <1>2 DEF Sending

-----------------------------------------------------------------------------
(* Every step keeps the invariant, unless it takes an identifier in use.   *)

(* What each Shrink step leaves alone.                                     *)
LEMMA FrameKeepsDelivery ==
  ASSUME ClientInv, WireInv, DeliveryInv,
         UNCHANGED <<outbox, toBroker, toClient, held, session_lost, received, refused>>,
         UNCHANGED status \/ \E m \in Msg : status[m] = "new" /\ Told(m, "failed"),
         Sending' = Sending
  PROVE  DeliveryInv'
<1>1. Used' = Used /\ AcksKept
  BY AcksAfterRead DEF Used
<1>2. \A k \in Msg : \/ status'[k] = status[k]
                     \/ status[k] = "new" /\ status'[k] = "failed"
  BY DEF Told, ClientInv, ClientTypeOK
<1>. QED BY <1>1, <1>2, ShrinkKeepsDelivery

LEMMA PublishKeepsDelivery ==
  ASSUME ClientInv, WireInv, DeliveryInv, ~reused', Sending' = Sending,
         NEW t \in Thread, NEW m \in Msg, Publish(t, m)
  PROVE  DeliveryInv'
<1>2. caps.maximum_qos \in 0..2
  BY DEF WireInv, WireTypeOK, Capabilities
<1>3. CASE PublishRejected(t, m)
  <2>1. /\ UNCHANGED <<outbox, toBroker, toClient, held, session_lost, received, refused>>
        /\ status[m] = "new" /\ Told(m, "failed")
    BY <1>3 DEF PublishRejected, clientVars, networkVars, brokerVars
  <2>. QED BY <2>1, FrameKeepsDelivery
<1>4. CASE PublishQos0(t, m)
  <2>1. CASE SendFails(m)
    <3>1. /\ UNCHANGED <<outbox, toBroker, toClient, held, session_lost, received, refused>>
          /\ status[m] = "new" /\ Told(m, "failed")
      BY <1>4, <2>1 DEF PublishQos0, clientVars, brokerVars
    <3>. QED BY <3>1, FrameKeepsDelivery
  <2>2. CASE ~SendFails(m)
    BY <1>4, <2>2, Qos0KeepsDelivery DEF PublishQos0, clientVars, brokerVars
  <2>. QED BY <2>1, <2>2
<1>5. CASE PublishQueued(t, m)
  <2>1. ~InUse(packet_ident)
    BY <1>5 DEF PublishQueued, TakeOwnIdent
  <2>2. QosOf[m] \in 1..2
    BY <1>2, <1>5, OutboxAssumption DEF PublishQueued
  <2>. QED BY <1>5, <2>1, <2>2, StoreKeepsDelivery DEF PublishQueued, networkVars, brokerVars
<1>6. CASE PublishSent(t, m)
  <2>1. ~InUse(packet_ident)
    BY <1>6 DEF PublishSent, TakeOwnIdent
  <2>2. QosOf[m] \in 1..2
    BY <1>2, <1>6, OutboxAssumption DEF PublishSent
  <2>. QED BY <1>6, <2>1, <2>2, StoreKeepsDelivery DEF PublishSent, brokerVars
<1>7. CASE PublishFailed(t, m)
  <2>1. ~InUse(packet_ident)
    BY <1>7 DEF PublishFailed, TakeOwnIdent
  <2>2. UNCHANGED outbox
    BY <1>7, <2>1 DEF PublishFailed, InUse, OutboxRemove
  <2>3. /\ UNCHANGED <<outbox, toBroker, toClient, held, session_lost, received, refused>>
        /\ status[m] = "new" /\ Told(m, "failed")
    BY <1>7, <2>2 DEF PublishFailed, networkVars, brokerVars
  <2>. QED BY <2>3, FrameKeepsDelivery
<1>. QED BY <1>3, <1>4, <1>5, <1>6, <1>7 DEF Publish

(* The first PUBACK, PUBCOMP or refusing PUBREC completes the message.     *)
LEMMA CompletedSlots ==
  ASSUME ClientInv, NEW pid, Completed(pid)
  PROVE  /\ Used' = Used \ Holding(pid)
         /\ \A s \in Used' : outbox'[s] = outbox[s]
         /\ \A s, t \in Holding(pid) : s = t
<1>1. \A s, t \in Holding(pid) : s = t
  BY SlotType DEF Holding
<1>2. CASE Holding(pid) = {}
  BY <1>1, <1>2 DEF Completed, OutboxRemove, Used
<1>3. CASE Holding(pid) # {}
  <2> DEFINE f == First(Holding(pid))
  <2>1. f \in Holding(pid) /\ f \in Slot
    BY <1>3, FirstIsMember, SlotType DEF Holding
  <2>2. outbox' = [outbox EXCEPT ![f] = FreeItem] /\ outbox \in [Slot -> Item]
    BY <1>3 DEF Completed, OutboxRemove, ClientInv, OutboxInv, OutboxTypeOK
  <2> HIDE DEF f
  <2>3. outbox'[f].state = "FREE" /\ \A s \in Slot \ {f} : outbox'[s] = outbox[s]
    BY <2>1, <2>2 DEF FreeItem
  <2>4. Used' = Used \ {f}
    BY <2>1, <2>3 DEF Used
  <2>5. Holding(pid) = {f}
    BY <1>1, <2>1
  <2>. QED BY <1>1, <2>3, <2>4, <2>5, SlotType
<1>. QED BY <1>2, <1>3

LEMMA CompletedKeepsDelivery ==
  ASSUME ClientInv, WireInv, DeliveryInv, Sending' = Sending,
         NEW pid, toClient # <<>>, Completed(pid)
  PROVE  DeliveryInv'
<1>1. /\ Used' = Used \ Holding(pid) /\ \A s \in Used' : outbox'[s] = outbox[s]
  BY CompletedSlots
<1>2. AcksKept
  BY AcksAfterRead DEF Completed
<1>3. \A k \in Msg : \/ status'[k] = status[k]
                     \/ status'[k] = "done" /\ \E s \in Holding(pid) : outbox[s].msg = k
  BY DEF Completed
<1>4. \A s \in Holding(pid), t \in Used' : outbox[s].msg # outbox[t].msg
  BY <1>1 DEF Holding, DeliveryInv, SlotsPending
<1>5. \A k \in Msg : \/ status'[k] = status[k]
                     \/ status'[k] = "done" /\ \A s \in Used' : outbox[s].msg # k
  BY <1>3, <1>4
<1>. QED BY <1>1, <1>2, <1>5, ShrinkKeepsDelivery DEF Completed, brokerVars

LEMMA RecvAckKeepsDelivery ==
  ASSUME ClientInv, WireInv, DeliveryInv, Sending' = Sending, RecvAck
  PROVE  DeliveryInv'
<1>1. CASE RecvPuback \/ RecvPubcomp \/ RecvPubrecError
  BY <1>1, CompletedKeepsDelivery DEF RecvPuback, RecvPubcomp, RecvPubrecError, Receives
<1>2. CASE RecvPubrec
  <2> DEFINE pid == Head(toClient).pid
  <2>1. /\ toClient # <<>> /\ toClient' = Tail(toClient)
        /\ Head(toClient).type = "PUBREC" /\ Head(toClient).ok
    BY <1>2 DEF RecvPubrec, Receives
  <2>2. AcksKept
    BY <2>1, AcksAfterRead
  <2>3. 1 \in Acks /\ toClient[1] = Head(toClient)
    BY <2>1, WireType DEF Acks
  <2>4. \A s \in Used : outbox[s].pid = pid => Taken(outbox[s].msg)
    BY <2>1, <2>3 DEF DeliveryInv, AcksMatch
  <2>5. UNCHANGED toBroker \/ Send(PubrelPacket(pid))
    BY <1>2 DEF RecvPubrec
  <2>6. CASE Holding(pid) = {}
    <3>1. UNCHANGED outbox /\ \A s \in Used : outbox[s].pid # pid
      BY <1>2, <2>6 DEF RecvPubrec, Holding
    <3>. QED BY <1>2, <2>2, <2>4, <2>5, <3>1, ReleaseKeepsDelivery
         DEF RecvPubrec, brokerVars, historyVars
  <2>7. CASE Holding(pid) # {}
    <3>1. First(Holding(pid)) \in Holding(pid)
      BY <2>7, FirstIsMember, SlotType DEF Holding
    <3>2. PICK f \in Used : /\ outbox[f].pid = pid
                            /\ outbox' = [outbox EXCEPT ![f].state = "PUBREL_SENT"]
      BY <1>2, <2>7, <3>1 DEF RecvPubrec, Holding
    <3>. QED BY <1>2, <2>2, <2>4, <2>5, <3>2, ReleaseKeepsDelivery
         DEF RecvPubrec, brokerVars, historyVars
  <2>. QED BY <2>6, <2>7
<1>. QED BY <1>1, <1>2 DEF RecvAck

LEMMA PumpKeepsDelivery ==
  ASSUME ClientInv, ThreadTypeOK, LoopInv, WireInv, DeliveryInv, Undisturbed',
         NEW t \in Looping, PumpSend(t) \/ PumpMark(t)
  PROVE  DeliveryInv'
<1>0. t \in Thread
  BY DEF Thread
<1>1. CASE PumpSend(t)
  <2>1. PICK f \in PumpFinds(t) :
          /\ Send(PublishPacket(outbox[f].pid, outbox[f].dup, outbox[f].msg))
          /\ scan' = [scan EXCEPT ![t].next = f]
    BY <1>1 DEF PumpSend
  <2>2. f \in Used /\ f \in Slot /\ outbox[f].state = "QUEUED" /\ outbox[f].dup \in 0..1
    BY PumpFindsOne, SlotType DEF InState, ClientInv, OutboxInv
  <2>3. UNCHANGED <<outbox, toClient, held, received, refused, status, session_lost>>
    BY <1>1 DEF PumpSend, clientVars, brokerVars, historyVars
  <2>4. OnlyMarks(f, "QUEUED")
    BY <2>2, <2>3 DEF OnlyMarks
  <2>5. f \in Sending'
    <3>1. at'[t] = "mark"
      BY <1>0, <1>1, MoveOne DEF PumpSend
    <3>2. scan'[t].next = f
      BY <2>1 DEF ThreadTypeOK, Scan
    <3>. QED BY <2>2, <3>1, <3>2 DEF Sending
  <2>6. Sending = {}
    BY <1>0, <1>1, SendingAlone DEF PumpSend
  <2>. QED BY <2>1, <2>2, <2>3, <2>4, <2>5, <2>6, SendPublishKeepsDelivery
<1>2. CASE PumpMark(t)
  <2> DEFINE f == scan[t].next
  <2>1. f \in InState("QUEUED") /\ Sending \subseteq {f}
    BY <1>0, <1>2, SendingAlone DEF LoopInv, PumpMark
  <2>2. f \in Used /\ f \in Slot /\ outbox[f].state = "QUEUED"
    BY <2>1 DEF InState, Used
  <2>3. /\ outbox' = [outbox EXCEPT ![f].state = "PUBLISH_SENT"]
        /\ UNCHANGED <<toBroker, toClient, held, received, refused, status, session_lost>>
    BY <1>2 DEF PumpMark, networkVars, brokerVars, historyVars
  <2> HIDE DEF f
  <2>4. OnlyMarks(f, "PUBLISH_SENT")
    BY <2>2, <2>3, MarkOnlyMarks
  <2>. QED BY <2>1, <2>2, <2>3, <2>4, MarkKeepsDelivery
<1>. QED BY <1>1, <1>2

LEMMA ReplayKeepsDelivery ==
  ASSUME ClientInv, ThreadTypeOK, WireInv, DeliveryInv, Undisturbed', Sending' = Sending,
         ReplaySend \/ ReplayAbort
  PROVE  DeliveryInv'
<1> DEFINE f == First(ReplayLeft)
<1>0. Sending = {}
  <2>1. "receiver" \in Thread
    BY DEF Thread, Looping
  <2>. QED BY <2>1, SendingAlone DEF ReplaySend, ReplayAbort
<1>1. f \in Used /\ f \in Slot
  BY ReplayLooksAtUsed DEF ReplaySend, ReplayAbort
<1>2. outbox[f].state \in {"QUEUED", "PUBLISH_SENT", "PUBREL_SENT"} /\ outbox[f].dup \in 0..1
  BY <1>1, SlotType DEF Used, Item, SlotState
<1>3. UNCHANGED <<toClient, held, received, refused, status, session_lost>>
  BY DEF ReplaySend, ReplayAbort, networkVars, brokerVars, historyVars
<1>4. AcksKept
  BY <1>3, AcksAfterRead
<1>5. CASE ReplaySend
  <2>1. CASE outbox[f].state = "PUBREL_SENT"
    <3>1. UNCHANGED outbox /\ Send(PubrelPacket(outbox[f].pid))
      BY <1>5, <2>1 DEF ReplaySend
    <3>2. \A s \in Used : outbox[s].pid = outbox[f].pid
                            => outbox[s].state = "PUBREL_SENT" /\ Taken(outbox[s].msg)
      BY <1>1, <2>1, SlotType DEF DeliveryInv, Released, InState
    <3>. QED BY <1>3, <1>4, <3>1, <3>2, ReleaseKeepsDelivery
  <2>2. CASE outbox[f].state # "PUBREL_SENT"
    <3> DEFINE dup == IF outbox[f].state = "PUBLISH_SENT" THEN 1 ELSE outbox[f].dup
    <3>1. /\ outbox' = [outbox EXCEPT ![f].state = "PUBLISH_SENT", ![f].dup = dup]
          /\ Send(PublishPacket(outbox[f].pid, dup, outbox[f].msg))
      BY <1>5, <2>2 DEF ReplaySend
    <3>2. /\ dup \in 0..1
          /\ dup = 1 \/ (outbox[f].state = "QUEUED" /\ dup = outbox[f].dup)
      BY <1>2, <2>2
    <3>3. outbox[f].state \in {"QUEUED", "PUBLISH_SENT"}
      BY <1>2, <2>2
    <3> HIDE DEF f, dup
    <3>4. OnlyMarks(f, "PUBLISH_SENT")
      BY <1>1, <3>1, MarkOnlyMarks
    <3>. QED BY <1>0, <1>1, <1>3, <3>1, <3>2, <3>3, <3>4, SendPublishKeepsDelivery
  <2>. QED BY <2>1, <2>2
<1>6. CASE ReplayAbort
  <2>1. UNCHANGED toBroker
    BY <1>6 DEF ReplayAbort, networkVars
  <2>2. \/ UNCHANGED outbox
        \/ outbox[f].state = "PUBLISH_SENT" /\ outbox' = [outbox EXCEPT ![f].dup = 1]
    BY <1>6 DEF ReplayAbort
  <2> HIDE DEF f
  <2>3. CASE UNCHANGED outbox
    BY <1>3, <2>1, <2>3, FrameKeepsDelivery
  <2>4. CASE outbox[f].state = "PUBLISH_SENT" /\ outbox' = [outbox EXCEPT ![f].dup = 1]
    <3>1. OnlyMarks(f, "PUBLISH_SENT")
      BY <1>1, <2>4, MarkOnlyMarks
    <3>. QED BY <1>0, <1>1, <1>3, <2>1, <2>4, <3>1, MarkKeepsDelivery
  <2>. QED BY <2>2, <2>3, <2>4
<1>. QED BY <1>5, <1>6

LEMMA ConnectionKeepsDelivery ==
  ASSUME ClientInv, WireInv, DeliveryInv, Sending' = Sending,
         NEW t \in Thread, Connect(t) \/ RecvConnack \/ Disconnect(t)
  PROVE  DeliveryInv'
<1>1. UNCHANGED <<outbox, status, received, refused>> /\ Used' = Used
  BY DEF Connect, RecvConnack, Disconnect, brokerVars, historyVars, Used
<1>2. UNCHANGED toBroker \/ toBroker' = <<>>
  BY DEF Connect, RecvConnack, Disconnect
<1>3. AcksKept
  BY AcksAfterRead DEF Connect, RecvConnack, Disconnect
<1>4. \/ UNCHANGED <<held, session_lost>>
      \/ held' = {} /\ session_lost' = (session_lost \/ held # {})
  BY DEF Connect, RecvConnack, Disconnect, brokerVars
<1>. QED BY <1>1, <1>2, <1>3, <1>4, ShrinkKeepsDelivery

(* The broker's answer comes after the others.                             *)
LEMMA AcksAfterAnswer ==
  ASSUME WireInv, NEW a,
         toClient' = IF link = "up" THEN Append(toClient, a) ELSE toClient
  PROVE  \A i \in Acks' : \/ \E j \in Acks : toClient'[i] = toClient[j]
                          \/ toClient'[i] = a
<1>1. toClient \in Seq(Ack) /\ Len(toClient) \in Nat
  BY WireType
<1>2. UNCHANGED toClient \/ toClient' = Append(toClient, a)
  OBVIOUS
<1>3. CASE UNCHANGED toClient
  BY <1>3 DEF Acks
<1>4. CASE toClient' = Append(toClient, a)
  <2>1. /\ Len(toClient') = Len(toClient) + 1
        /\ toClient'[Len(toClient) + 1] = a
        /\ \A i \in 1..Len(toClient) : toClient'[i] = toClient[i]
    BY <1>1, <1>4
  <2>2. \A i \in Acks' : i \in Acks \/ i = Len(toClient) + 1
    BY <1>1, <2>1 DEF Acks
  <2>. QED BY <2>1, <2>2 DEF Acks
<1>. QED BY <1>2, <1>3, <1>4

LEMMA TakeCounts ==
  ASSUME WireInv, NEW m \in Msg, Take(m)
  PROVE  /\ received'[m] > 0
         /\ \A k \in Msg : k # m => received'[k] = received[k]
         /\ \A k \in Msg : received[k] > 0 => received'[k] > 0
<1>1. received \in [Msg -> 0..2]
  BY DEF WireInv, WireTypeOK
<1>2. received'[m] = IF received[m] = 2 THEN 2 ELSE received[m] + 1
  BY <1>1 DEF Take
<1>3. \A k \in Msg : k # m => received'[k] = received[k]
  BY <1>1 DEF Take
<1>. QED BY <1>1, <1>2, <1>3

(* What the broker may do with the PUBLISH it reads, given that the packet
   agrees with the slots.                                                  *)
LEMMA BrokerPublishKeepsDelivery ==
  ASSUME ClientInv, WireInv, DeliveryInv, toBroker # <<>>, toBroker' = Tail(toBroker),
         UNCHANGED <<outbox, status, session_lost>>, Sending' = Sending,
         Head(toBroker).type = "PUBLISH", BrokerPublish(Head(toBroker))
  PROVE  DeliveryInv'
<1> DEFINE p == Head(toBroker)
<1>1. 1 \in Wire /\ toBroker[1] = p /\ IsPublish(1)
  BY WireAfterRead DEF IsPublish
<1>2. p.msg \in Msg
  BY <1>1, WireType
<1>3. /\ QosOf[p.msg] = 0 <=> p.pid = 0
      /\ \A s \in Used : outbox[s].pid = p.pid => outbox[s].msg = p.msg
  BY <1>1 DEF DeliveryInv, PublishesMatch
<1>4. \A s \in Used : outbox[s].pid \in held => Taken(outbox[s].msg)
  BY DEF DeliveryInv, HeldMatch
<1>5. \A s \in Used : outbox[s].pid # 0
  BY DEF DeliveryInv, SlotsPending
<1>6. QosOf[p.msg] \in 0..2 /\ p.type = "PUBLISH"
  BY <1>2, OutboxAssumption
<1>7. CASE QosOf[p.msg] = 0 /\ Take(p.msg) /\ UNCHANGED <<held, refused, link, toClient>>
  <2> DEFINE a == [type |-> "PUBACK", pid |-> 0, ok |-> TRUE]
  <2>1. a.pid = 0
    OBVIOUS
  <2>2. Acks' = Acks
    BY <1>7 DEF Acks
  <2> HIDE DEF p, a
  <2>. QED BY <1>2, <1>5, <1>6, <1>7, <2>1, <2>2, TakeCounts, ReadKeepsDelivery DEF p
<1>8. CASE /\ QosOf[p.msg] = 1 /\ p.pid # 0
           /\ Take(p.msg) /\ Answer("PUBACK", p.pid, TRUE)
           /\ UNCHANGED <<held, refused, link>>
  <2> DEFINE a == [type |-> "PUBACK", pid |-> p.pid, ok |-> TRUE]
  <2>1. a.pid = p.pid /\ a.type # "PUBREC"
    OBVIOUS
  <2>2. \A i \in Acks' : (\E j \in Acks : toClient'[i] = toClient[j]) \/ toClient'[i] = a
    BY <1>8, AcksAfterAnswer DEF Answer
  <2>3. /\ received'[p.msg] > 0
        /\ \A k \in Msg : k # p.msg => received'[k] = received[k]
        /\ \A k \in Msg : received[k] > 0 => received'[k] > 0
    BY <1>2, <1>8, TakeCounts
  <2> HIDE DEF p, a
  <2>. QED BY <1>3, <1>6, <1>8, <2>1, <2>2, <2>3, ReadKeepsDelivery DEF p
<1>9. CASE /\ QosOf[p.msg] = 2 /\ p.pid # 0
           /\ IF p.pid \in held THEN UNCHANGED received ELSE Take(p.msg)
           /\ held' = held \cup {p.pid}
           /\ Answer("PUBREC", p.pid, TRUE)
           /\ UNCHANGED <<refused, link>>
  <2> DEFINE a == [type |-> "PUBREC", pid |-> p.pid, ok |-> TRUE]
  <2>1. a.pid = p.pid /\ a.type = "PUBREC" /\ a.ok
    OBVIOUS
  <2>2. \A i \in Acks' : (\E j \in Acks : toClient'[i] = toClient[j]) \/ toClient'[i] = a
    <3>1. Answer("PUBREC", p.pid, TRUE)
      BY <1>9
    <3>. QED BY <3>1, AcksAfterAnswer DEF Answer
  <2>3. /\ p.pid \notin held => received'[p.msg] > 0
        /\ \A k \in Msg : k # p.msg => received'[k] = received[k]
        /\ \A k \in Msg : received[k] > 0 => received'[k] > 0
    BY <1>2, <1>9, TakeCounts
  <2>4. \A s \in Used : outbox[s].pid = p.pid => QosOf[outbox[s].msg] = 2 /\ received'[outbox[s].msg] > 0
    BY <1>2, <1>3, <1>4, <1>9, <2>3 DEF Taken
  <2> HIDE DEF p, a
  <2>. QED BY <1>6, <1>9, <2>1, <2>2, <2>3, <2>4, ReadKeepsDelivery DEF p
<1>10. CASE /\ BrokerRefuses /\ QosOf[p.msg] > 0 /\ p.pid # 0 /\ p.pid \notin held
            /\ refused' = refused \cup {p.msg}
            /\ Answer(IF QosOf[p.msg] = 1 THEN "PUBACK" ELSE "PUBREC", p.pid, FALSE)
            /\ UNCHANGED <<held, received, link>>
  <2> DEFINE a == [type |-> IF QosOf[p.msg] = 1 THEN "PUBACK" ELSE "PUBREC",
                   pid |-> p.pid, ok |-> FALSE]
  <2>1. a.pid = p.pid /\ ~a.ok
    OBVIOUS
  <2>2. \A i \in Acks' : (\E j \in Acks : toClient'[i] = toClient[j]) \/ toClient'[i] = a
    BY <1>10, AcksAfterAnswer DEF Answer
  <2> HIDE DEF p, a
  <2>. QED BY <1>3, <1>6, <1>10, <2>1, <2>2, ReadKeepsDelivery DEF p, Taken
<1>11. CASE QosOf[p.msg] > 0 /\ p.pid = 0
  BY <1>3, <1>11
<1>. QED BY <1>7, <1>8, <1>9, <1>10, <1>11 DEF BrokerPublish

LEMMA BrokerKeepsDelivery ==
  ASSUME ClientInv, WireInv, DeliveryInv, Sending' = Sending, BrokerStep
  PROVE  DeliveryInv'
<1> DEFINE p == Head(toBroker)
<1>1. /\ toBroker # <<>> /\ toBroker' = Tail(toBroker)
      /\ UNCHANGED <<outbox, status, session_lost>>
      /\ \/ p.type = "PUBLISH" /\ BrokerPublish(p)
         \/ p.type = "PUBREL" /\ BrokerPubrel(p)
  BY DEF BrokerStep, clientVars, historyVars
<1>2. CASE p.type = "PUBLISH" /\ BrokerPublish(p)
  BY <1>1, <1>2, BrokerPublishKeepsDelivery
<1>3. CASE p.type = "PUBREL" /\ BrokerPubrel(p)
  <2> DEFINE a == [type |-> "PUBCOMP", pid |-> p.pid, ok |-> TRUE]
  <2>1. a.pid = p.pid /\ a.type # "PUBREC" /\ p.type # "PUBLISH"
    BY <1>3
  <2>2. \A i \in Acks' : (\E j \in Acks : toClient'[i] = toClient[j]) \/ toClient'[i] = a
    BY <1>3, AcksAfterAnswer DEF BrokerPubrel, Answer
  <2>3. held' = held \ {p.pid} /\ UNCHANGED <<received, refused>>
    BY <1>3 DEF BrokerPubrel
  <2>4. 1 \in Wire /\ toBroker[1] = p /\ ~IsPublish(1)
    BY <1>1, <2>1, WireAfterRead DEF IsPublish
  <2>5. \A s \in Used : outbox[s].pid = p.pid => received[outbox[s].msg] > 0
    BY <2>4, SlotType DEF DeliveryInv, PubrelsMatch, Released, InState, Taken
  <2> HIDE DEF p, a
  <2>. QED BY <1>1, <2>1, <2>2, <2>3, <2>5, ReadKeepsDelivery DEF p
<1>. QED BY <1>1, <1>2, <1>3

LEMMA NextKeepsDelivery ==
  ASSUME ClientInv, ThreadTypeOK, LoopInv, WireInv, DeliveryInv,
         ~reused', Undisturbed', [Next]_vars
  PROVE  DeliveryInv'
<1>1. CASE \E t \in Looping : PumpSend(t) \/ PumpMark(t)
  BY <1>1, PumpKeepsDelivery
<1>2. CASE ~\E t \in Looping : PumpSend(t) \/ PumpMark(t)
  <2>1. Sending' = Sending
    BY <1>2, OthersKeepSending
  <2>2. CASE \E t \in Thread, m \in Msg : Publish(t, m)
    BY <2>1, <2>2, PublishKeepsDelivery
  <2>3. CASE RecvAck
    BY <2>1, <2>3, RecvAckKeepsDelivery
  <2>4. CASE ReplaySend \/ ReplayAbort
    BY <2>1, <2>4, ReplayKeepsDelivery
  <2>5. CASE \E t \in Thread : Connect(t) \/ Disconnect(t)
    BY <2>1, <2>5, ConnectionKeepsDelivery
  <2>6. CASE RecvConnack
    <3>1. "app" \in Thread
      BY DEF Thread
    <3>. QED BY <2>1, <2>6, <3>1, ConnectionKeepsDelivery
  <2>7. CASE BrokerStep
    BY <2>1, <2>7, BrokerKeepsDelivery
  <2>8. CASE \/ AppCall \/ AppReturn \/ \E t \in Thread : TakeIdent(t)
             \/ \E t \in Looping : Process(t) \/ PumpReturn(t)
             \/ Resume \/ ReplayReturn \/ Break \/ UNCHANGED vars
    <3>1. UNCHANGED <<outbox, toBroker, toClient, held, session_lost, received, refused, status>>
      BY <2>8 DEF AppCall, AppReturn, TakeIdent, Process, PumpReturn, Resume, ReplayReturn, Break,
                  vars, clientVars, networkVars, brokerVars, historyVars
    <3>. QED BY <2>1, <3>1, FrameKeepsDelivery
  <2>. QED BY <1>2, <2>2, <2>3, <2>4, <2>5, <2>6, <2>7, <2>8 DEF Next, Pump, Replay
<1>. QED BY <1>1, <1>2

LEMMA InitDelivery == Init => DeliveryInv
<1> SUFFICES ASSUME Init PROVE DeliveryInv
  OBVIOUS
<1>1. Wire = {} /\ Acks = {}
  BY DEF Init, Wire, Acks
<1>2. Used = {} /\ \A st \in SlotState \ {"FREE"} : InState(st) = {}
  BY DEF Init, Used, InState, FreeItem
<1>3. \A m \in Msg : received[m] = 0
  BY DEF Init
<1>. QED BY <1>1, <1>2, <1>3
     DEF DeliveryInv, SlotsPending, PublishesMatch, PubrelsMatch, Released, AcksMatch, HeldMatch,
         HeldComplete, QueuedUnsent, Waiting, UnmarkedFirst, RejectedUnsent, SlotState

(* An identifier once taken while in use is remembered, and so is an
   overlap.                                                                *)
LEMMA ReusedIsKept ==
  ASSUME reused, [Next]_vars
  PROVE  reused'
BY DEF Next, AppCall, AppReturn, Publish, PublishRejected, PublishQos0, PublishQueued, PublishSent,
       PublishFailed, TakeOwnIdent, TakeIdent, Process, Pump, PumpSend, PumpMark, PumpReturn, RecvAck,
       RecvPuback, RecvPubcomp, RecvPubrecError, Completed, RecvPubrec, Connect, RecvConnack, Resume,
       Replay, ReplaySend, ReplayAbort, ReplayReturn, Disconnect, Break, BrokerStep, historyVars, vars

LEMMA OverlapIsKept ==
  ASSUME ThreadTypeOK, [Next]_vars, Undisturbed'
  PROVE  Undisturbed
<1>1. (\E t \in Thread : Works(t)) \/ UNCHANGED overlaps
  <2>1. "receiver" \in Thread /\ Looping \subseteq Thread
    BY DEF Thread, Looping
  <2>. QED BY <2>1
       DEF Next, AppCall, AppReturn, Publish, PublishRejected, PublishQos0, PublishQueued, PublishSent,
           PublishFailed, TakeIdent, Calls, Process, Pump, PumpSend, PumpMark, PumpReturn, RecvAck,
           RecvPuback, RecvPubcomp, RecvPubrecError, Receives, RecvPubrec, Connect, RecvConnack, Resume,
           Replay, ReplaySend, ReplayAbort, ReplayReturn, Disconnect, Break, BrokerStep, threadVars, vars
<1>2. CASE UNCHANGED overlaps
  BY <1>2 DEF Undisturbed
<1>. QED BY <1>1, <1>2, WorksAlone

(* The invariant of the whole publish flow: the types whatever happens, and
   the rest while no step overlapped another.                              *)
OutboxFlowInv ==
  /\ TypesInv
  /\ Undisturbed => ClientInv /\ LoopInv
  /\ Undisturbed /\ ~reused => DeliveryInv

LEMMA FlowInvariant == Spec => []OutboxFlowInv
<1>1. Init => OutboxFlowInv
  <2>1. Init => LoopInv
    BY DEF Init, LoopInv, Thread
  <2>. QED BY <2>1, InitTypesInv, InitClientInv, InitDelivery DEF OutboxFlowInv
<1>2. OutboxFlowInv /\ [Next]_vars => OutboxFlowInv'
  <2> SUFFICES ASSUME OutboxFlowInv, [Next]_vars PROVE OutboxFlowInv'
    OBVIOUS
  <2>1. TypesInv'
    BY NextKeepsTypes DEF OutboxFlowInv
  <2>2. OutboxTypeOK /\ ThreadTypeOK /\ WireInv
    BY DEF OutboxFlowInv, TypesInv
  <2>3. ASSUME Undisturbed'
        PROVE  Undisturbed /\ ClientInv' /\ LoopInv'
    BY <2>2, <2>3, OverlapIsKept, NextKeepsInv, NextKeepsLoop DEF OutboxFlowInv
  <2>4. ASSUME Undisturbed', ~reused'
        PROVE  DeliveryInv'
    BY <2>2, <2>3, <2>4, ReusedIsKept, NextKeepsDelivery DEF OutboxFlowInv
  <2>. QED BY <2>1, <2>3, <2>4 DEF OutboxFlowInv
<1>. QED BY <1>1, <1>2, PTL DEF Spec

-----------------------------------------------------------------------------
(* What follows for the program                                            *)

(* outbox_count is the number of slots in use, no two slots carry the same
   packet identifier and a freed slot keeps nothing of its message, whatever
   the application, the network and the broker do, as long as the threads do
   not overlap.                                                            *)
THEOREM OutboxIsConsistent == Spec => []OutboxConsistent
<1>1. OutboxFlowInv => OutboxConsistent
  BY DEF OutboxFlowInv, ClientInv, OutboxInv, OutboxConsistent
<1>. QED BY <1>1, FlowInvariant, PTL

(* A message whose publish call returned NOXMQTT_SUCCESS stays in the outbox
   until its acknowledgement, unless packet_ident wrapped round to an
   identifier that was still in use, or threads overlapped.                *)
THEOREM HeldUntilAcknowledged == Spec => []HeldUnlessReused
<1>1. OutboxFlowInv => HeldUnlessReused
  BY DEF OutboxFlowInv, ClientInv, HeldInv, HeldUnlessReused
<1>. QED BY <1>1, FlowInvariant, PTL

(* PUBREL is only ever sent for a QoS 2 message the broker has, although
   noxmqtt_handler_pubrec checks neither the QoS nor the state of the item
   it finds: an identifier is released only once its PUBLISH was received. *)
THEOREM ReleasedOnlyIfTaken == Spec => []ReleasedIsTaken
<1>1. OutboxFlowInv => ReleasedIsTaken
  BY DEF OutboxFlowInv, DeliveryInv, Released, Taken, ReleasedIsTaken
<1>. QED BY <1>1, FlowInvariant, PTL

(* A PUBLISH without the DUP flag is the first of its message, across failed
   sends, lost connections and replays, as long as no two threads are in the
   client at once.  The premise is needed: two pumps send a slot twice.    *)
THEOREM UnmarkedPublishIsFirst == Spec => []UnmarkedIsFirst
<1>1. OutboxFlowInv => UnmarkedIsFirst
  <2> SUFFICES ASSUME OutboxFlowInv, Undisturbed, ~reused, NEW i \in 1..Len(toBroker),
                      toBroker[i].type = "PUBLISH", toBroker[i].dup = 0
               PROVE  /\ received[toBroker[i].msg] = 0
                      /\ \A j \in 1..(i - 1) : toBroker[j].msg # toBroker[i].msg
    BY DEF UnmarkedIsFirst
  <2>1. /\ received[toBroker[i].msg] = 0
        /\ \A j \in Wire : j < i => toBroker[j].msg # toBroker[i].msg
    BY DEF OutboxFlowInv, DeliveryInv, UnmarkedFirst, Wire, IsPublish
  <2>2. Len(toBroker) \in Nat
    BY WireType DEF OutboxFlowInv, TypesInv
  <2>. QED BY <2>1, <2>2 DEF Wire
<1>. QED BY <1>1, FlowInvariant, PTL

(* One message more is unacknowledged at most.                             *)
LEMMA AtMostOneMore ==
  ASSUME NEW S \in SUBSET Slot, NEW T \in SUBSET Slot, NEW f \in Slot, T \subseteq S \cup {f}
  PROVE  /\ Cardinality(S) \in Nat /\ Cardinality(T) \in Nat
         /\ Cardinality(T) <= Cardinality(S) + 1
<1>1. /\ IsFiniteSet(S) /\ IsFiniteSet(T)
      /\ Cardinality(S) \in Nat /\ Cardinality(T) \in Nat
  BY SlotsFinite
<1>2. /\ IsFiniteSet(S \cup {f})
      /\ \/ Cardinality(S \cup {f}) = Cardinality(S) + 1
         \/ Cardinality(S \cup {f}) = Cardinality(S)
  BY <1>1, FS_AddElement
<1>3. Cardinality(T) <= Cardinality(S \cup {f})
  BY <1>2, FS_Subset
<1>. QED BY <1>1, <1>2, <1>3

LEMMA NoneMore ==
  ASSUME NEW S \in SUBSET Slot, NEW T \in SUBSET Slot, T \subseteq S
  PROVE  /\ Cardinality(S) \in Nat /\ Cardinality(T) \in Nat
         /\ Cardinality(T) <= Cardinality(S)
BY SlotsFinite, FS_Subset

LEMMA UnacknowledgedSlots ==
  Unacknowledged \subseteq Slot /\ Inflight \subseteq Slot /\ Sending \subseteq Slot
BY DEF Unacknowledged, Inflight, Sending, InState

(* Which steps bring a message into flight.  A PUBREC cannot: the item of a
   QUEUED message is not found by it, as its PUBLISH was never sent.       *)
LEMMA OnlySendsGrow ==
  ASSUME ClientInv, ThreadTypeOK, LoopInv, WireInv, DeliveryInv, Undisturbed', ~reused',
         at["receiver"] # "replay", [Next]_vars,
         ~\E t \in Thread, m \in Msg : PublishSent(t, m), ~\E t \in Looping : PumpSend(t) \/ PumpMark(t)
  PROVE  Inflight' \subseteq Inflight
<1>0. Undisturbed'
  OBVIOUS
<1>1. DeliveryInv /\ ClientInv /\ WireInv
  OBVIOUS
<1>2. CASE UNCHANGED outbox
  BY <1>2 DEF Inflight, InState
<1>3. ASSUME NEW t \in Thread, NEW m \in Msg, PublishQueued(t, m)
      PROVE  Inflight' \subseteq Inflight
  <2>1. Holding(packet_ident) = {} /\ OutboxStore(packet_ident, m, "QUEUED")
    BY <1>3 DEF PublishQueued, TakeOwnIdent, InUse
  <2>2. "QUEUED" \in SlotState \ {"FREE"}
    BY DEF SlotState
  <2>3. PICK f \in Slot \ Used :
          /\ Used' = Used \cup {f}
          /\ outbox'[f] = [state |-> "QUEUED", pid |-> packet_ident, dup |-> 0, msg |-> m]
          /\ \A s \in Slot \ {f} : outbox'[s] = outbox[s]
    BY <1>1, <2>1, <2>2, StoreAddsSlot
  <2>. QED BY <2>3 DEF Inflight, InState
<1>4. ASSUME NEW t \in Thread, NEW m \in Msg, PublishFailed(t, m)
      PROVE  UNCHANGED outbox
  BY <1>4 DEF PublishFailed, TakeOwnIdent, InUse, OutboxRemove
<1>5. CASE RecvPuback \/ RecvPubcomp \/ RecvPubrecError
  <2>1. PICK pid : Completed(pid)
    BY <1>5 DEF RecvPuback, RecvPubcomp, RecvPubrecError
  <2>2. Used' \subseteq Used /\ \A s \in Used' : outbox'[s] = outbox[s]
    BY <1>1, <2>1, CompletedSlots
  <2>3. Inflight' \subseteq Used'
    BY DEF Inflight, InState, Used
  <2>. QED BY <2>2, <2>3 DEF Inflight, InState
<1>6. CASE RecvPubrec
  <2>0. Sending = {}
    <3>1. "receiver" \in Thread
      BY DEF Thread, Looping
    <3>. QED BY <1>0, <1>6, <3>1, SendingAlone DEF RecvPubrec, Receives
  <2> DEFINE pid == Head(toClient).pid
             f == First(Holding(pid))
  <2>1. CASE Holding(pid) = {}
    BY <1>2, <1>6, <2>1 DEF RecvPubrec
  <2>2. CASE Holding(pid) # {}
    <3>1. f \in Holding(pid)
      BY <1>1, <2>2, FirstIsMember, SlotType DEF Holding
    <3>2. f \in Used /\ f \in Slot /\ outbox[f].pid = pid
      BY <1>1, <3>1, SlotType DEF Holding
    <3>3. outbox' = [outbox EXCEPT ![f].state = "PUBREL_SENT"]
      BY <1>6, <2>2 DEF RecvPubrec
    <3>4. 1 \in Acks /\ toClient[1] = Head(toClient)
      BY <1>1, <1>6, WireType DEF Acks, RecvPubrec, Receives
    <3>5. Head(toClient).type = "PUBREC" /\ Head(toClient).ok
      BY <1>6 DEF RecvPubrec, Receives
    <3>6. Taken(outbox[f].msg)
      BY <1>1, <3>2, <3>4, <3>5 DEF DeliveryInv, AcksMatch
    <3>7. outbox[f].state # "QUEUED"
      BY <2>0, <1>1, <3>2, <3>6 DEF DeliveryInv, QueuedUnsent, Waiting, InState, Taken
    <3> HIDE DEF f
    <3>8. f \in Inflight
      BY <1>1, <3>2, <3>7, SlotType DEF Inflight, InState, Used, Item, SlotState
    <3>9. OnlyMarks(f, "PUBREL_SENT")
      BY <1>1, <3>2, <3>3, MarkOnlyMarks
    <3>. QED BY <3>8, <3>9 DEF OnlyMarks, Inflight, InState
  <2>. QED BY <2>1, <2>2
<1>7. \/ UNCHANGED outbox
      \/ RecvPuback \/ RecvPubcomp \/ RecvPubrecError \/ RecvPubrec
      \/ \E t \in Thread, m \in Msg : PublishQueued(t, m) \/ PublishFailed(t, m)
  BY DEF Next, AppCall, AppReturn, Publish, PublishRejected, PublishQos0, TakeIdent, Process, Pump,
         PumpReturn, RecvAck, Connect, RecvConnack, Resume, Replay, ReplaySend, ReplayAbort,
         ReplayReturn, Disconnect, Break, BrokerStep, vars, clientVars
<1>. QED BY <1>2, <1>3, <1>4, <1>5, <1>6, <1>7

(* Publishing and the pump never take the unacknowledged messages above the
   broker's Receive Maximum, as long as no two threads are in the client at
   once.  The premise is needed: two pumps may both fill the last place.   *)
THEOREM ReceiveMaximumKept == Spec => WindowRespected
<1> DEFINE Kept == caps.receive_maximum = 0
                     \/ Cardinality(Unacknowledged') <= caps.receive_maximum
<1>1. ASSUME OutboxFlowInv, Next, Undisturbed', ~reused', at["receiver"] # "replay",
             Cardinality(Unacknowledged') > Cardinality(Unacknowledged)
      PROVE  Kept
  <2>1. /\ ClientInv /\ ThreadTypeOK /\ LoopInv /\ WireInv /\ DeliveryInv
        /\ caps.receive_maximum \in Nat
    <3>1. ThreadTypeOK /\ WireInv
      BY <1>1 DEF OutboxFlowInv, TypesInv
    <3>2. Undisturbed /\ ~reused
      BY <1>1, <3>1, OverlapIsKept, ReusedIsKept
    <3>. QED BY <1>1, <3>1, <3>2 DEF OutboxFlowInv, WireInv, WireTypeOK, Capabilities
  <2>2. /\ Unacknowledged \in SUBSET Slot /\ Unacknowledged' \in SUBSET Slot
        /\ Inflight \in SUBSET Slot
    <3>1. (Unacknowledged \subseteq Slot)'
      BY UnacknowledgedSlots, PTL
    <3>2. Unacknowledged' \subseteq Slot
      BY <3>1 DEF Slot
    <3>. QED BY <3>2, UnacknowledgedSlots
  <2>3. ASSUME NEW t \in Thread, NEW m \in Msg, PublishSent(t, m)
        PROVE  Kept
    <3>1. Holding(packet_ident) = {} /\ OutboxStore(packet_ident, m, "PUBLISH_SENT")
      BY <1>1, <2>3 DEF PublishSent, TakeOwnIdent, InUse
    <3>2. "PUBLISH_SENT" \in SlotState \ {"FREE"}
      BY DEF SlotState
    <3>3. PICK f \in Slot \ Used : \A s \in Slot \ {f} : outbox'[s] = outbox[s]
      BY <2>1, <3>1, <3>2, StoreAddsSlot
    <3>4. Inflight' \subseteq Inflight \cup {f}
      BY <3>3 DEF Inflight, InState
    <3>5. Works(t) /\ at[t] # "mark"
      BY <2>3 DEF PublishSent, Calls, InCall
    <3>6. Sending = {}
      BY <1>1, <2>1, <3>5, SendingAlone
    <3>7. Sending' = {}
      <4>1. \A u \in Looping : at'[u] # "mark"
        BY <1>1, <2>1, <2>3, <3>5, WorksAlone DEF PublishSent, Calls, CallEnds, ThreadTypeOK, Thread
      <4>. QED BY <4>1 DEF Sending
    <3>8. Unacknowledged = Inflight /\ Unacknowledged' \subseteq Inflight \cup {f}
      BY <3>4, <3>6, <3>7 DEF Unacknowledged
    <3>9. Cardinality(Unacknowledged') <= Cardinality(Inflight) + 1 /\ Cardinality(Unacknowledged') \in Nat
      BY <2>2, <3>3, <3>8, AtMostOneMore
    <3>10. Cardinality(Inflight) \in Nat
      BY <2>2, SlotsFinite
    <3>. QED BY <2>1, <2>3, <3>9, <3>10 DEF PublishSent, WindowFull
  <2>4. ASSUME NEW t \in Looping, PumpSend(t)
        PROVE  Kept
    <3>1. t \in Thread /\ Works(t) /\ at[t] = "pump" /\ UNCHANGED outbox
      BY <2>4 DEF PumpSend, Thread, clientVars
    <3>2. PICK f \in PumpFinds(t) : scan' = [scan EXCEPT ![t].next = f]
      BY <2>4 DEF PumpSend
    <3>3. f \in Slot /\ ~(scan[t].count >= scan[t].limit)
      BY <2>1, PumpFindsOne DEF ClientInv, OutboxInv
    <3>4. Sending = {} /\ \A u \in Thread \ {t} : at[u] = "out"
      BY <1>1, <2>1, <3>1, SendingAlone, WorksAlone
    <3>5. \A u \in Looping \ {t} : at'[u] = "out"
      BY <2>1, <2>4, <3>1, <3>4, MoveOne DEF PumpSend, Thread
    <3>6. scan'[t].next = f
      BY <2>1, <3>2 DEF ThreadTypeOK, Scan
    <3>7. Sending' \subseteq {f}
      BY <3>5, <3>6 DEF Sending
    <3>8. Inflight' = Inflight
      BY <3>1 DEF Inflight, InState
    <3>9. Unacknowledged' \subseteq Inflight \cup {f}
      BY <3>7, <3>8 DEF Unacknowledged
    <3>10. Cardinality(Unacknowledged') <= Cardinality(Inflight) + 1 /\ Cardinality(Unacknowledged') \in Nat
      BY <2>2, <3>3, <3>9, AtMostOneMore
    <3>11. scan[t].count = Cardinality(Inflight) /\ scan[t].limit = PumpLimit
      BY <2>1, <3>1 DEF LoopInv
    <3>12. Cardinality(Inflight) \in Nat /\ PumpLimit \in Nat
      BY <2>1, <2>2, SlotsFinite, OutboxAssumption DEF PumpLimit
    <3>. QED BY <2>1, <3>3, <3>10, <3>11, <3>12 DEF PumpLimit
  <2>5. ASSUME NEW t \in Looping, PumpMark(t)
        PROVE  Unacknowledged' \subseteq Unacknowledged
    <3>1. t \in Thread /\ Works(t) /\ at[t] = "mark"
      BY <2>5 DEF PumpMark, Thread
    <3>2. scan[t].next \in InState("QUEUED") /\ scan[t].next \in Sending
      BY <2>1, <3>1 DEF LoopInv, Sending, InState
    <3>3. Inflight' = Inflight \cup {scan[t].next}
      BY <2>1, <2>5, <3>2, MarkAddsOne DEF PumpMark, ClientInv, OutboxInv
    <3>4. \A u \in Looping : at'[u] # "mark"
      BY <1>1, <2>1, <2>5, <3>1, WorksAlone, MoveOne DEF PumpMark, Thread
    <3>. QED BY <3>2, <3>3, <3>4 DEF Unacknowledged, Sending
  <2>6. CASE ~\E t \in Looping : PumpSend(t) \/ PumpMark(t)
    <3>1. CASE \E t \in Thread, m \in Msg : PublishSent(t, m)
      BY <2>3, <3>1
    <3>2. CASE ~\E t \in Thread, m \in Msg : PublishSent(t, m)
      <4>1. Inflight' \subseteq Inflight
        BY <1>1, <2>1, <2>6, <3>2, OnlySendsGrow
      <4>2. Sending' = Sending
        BY <1>1, <2>1, <2>6, OthersKeepSending
      <4>3. Unacknowledged' \subseteq Unacknowledged
        BY <4>1, <4>2 DEF Unacknowledged
      <4>. QED BY <1>1, <2>2, <4>3, NoneMore
    <3>. QED BY <3>1, <3>2
  <2>7. ASSUME Unacknowledged' \subseteq Unacknowledged
        PROVE  FALSE
    BY <1>1, <2>2, <2>7, NoneMore
  <2>. QED BY <2>4, <2>5, <2>6, <2>7
<1>2. ASSUME OutboxFlowInv, [Next]_vars
      PROVE  [ Undisturbed' /\ ~reused' /\ at["receiver"] # "replay"
               /\ Cardinality(Unacknowledged') > Cardinality(Unacknowledged)
                 => caps.receive_maximum = 0 \/ Cardinality(Unacknowledged') <= caps.receive_maximum ]_vars
  BY <1>1, <1>2
<1>. QED BY <1>2, FlowInvariant, PTL DEF Spec, WindowRespected

-----------------------------------------------------------------------------
(* Publishing implements ReliableDelivery                                  *)

(* A publish call accepts or rejects its message.                          *)
LEMMA PublishImplements ==
  ASSUME ClientInv, WireInv, NEW t \in Thread, NEW m \in Msg, Publish(t, m)
  PROVE  Promise!Reject(m) \/ Promise!Accept(m)
<1>1. UNCHANGED <<received, refused, session_lost>> /\ status[m] = "new"
  BY DEF Publish, PublishRejected, PublishQos0, PublishQueued, PublishSent, PublishFailed, brokerVars
<1>2. CASE Told(m, "failed")
  BY <1>1, <1>2 DEF Told, Promise!Reject
<1>3. CASE QosOf[m] = 0 /\ Told(m, "done")
  BY <1>1, <1>3 DEF Told, Promise!Accept
<1>4. CASE QosOf[m] # 0 /\ Told(m, "pending")
  BY <1>1, <1>4 DEF Told, Promise!Accept
<1>5. QosOf[m] \in 1..caps.maximum_qos => QosOf[m] # 0
  BY DEF WireInv, WireTypeOK, Capabilities
<1>. QED BY <1>2, <1>3, <1>4, <1>5
     DEF Publish, PublishRejected, PublishQos0, PublishQueued, PublishSent, PublishFailed

(* An acknowledgement completes its message, if any, and the broker had
   taken or refused it.                                                    *)
LEMMA CompletedImplements ==
  ASSUME ClientInv, WireInv, DeliveryInv, toClient # <<>>,
         ~(Head(toClient).type = "PUBREC" /\ Head(toClient).ok),
         Completed(Head(toClient).pid)
  PROVE  UNCHANGED Promise!abstractVars \/ \E m \in Msg : Promise!Complete(m)
<1> DEFINE pid == Head(toClient).pid
<1>1. UNCHANGED <<received, refused, session_lost>>
  BY DEF Completed, brokerVars
<1>2. status' = [k \in Msg |->
                   IF \E s \in Holding(pid) : outbox[s].msg = k THEN "done" ELSE status[k]]
  BY DEF Completed
<1>3. status \in [Msg -> {"new", "failed", "pending", "done"}]
  BY DEF ClientInv, ClientTypeOK
<1>4. 1 \in Acks /\ toClient[1] = Head(toClient)
  BY WireType DEF Acks
<1>5. \A s, t \in Holding(pid) : s = t
  BY CompletedSlots
<1>6. CASE Holding(pid) = {}
  <2>1. status' = status
    BY <1>2, <1>3, <1>6
  <2>. QED BY <1>1, <2>1 DEF Promise!abstractVars
<1>7. ASSUME NEW f \in Holding(pid)
      PROVE  \E m \in Msg : Promise!Complete(m)
  <2> DEFINE m == outbox[f].msg
  <2>1. f \in Used /\ m \in Msg /\ outbox[f].pid = pid /\ status[m] = "pending"
    BY SlotType DEF Holding, DeliveryInv, SlotsPending
  <2>2. received[m] > 0 \/ m \in refused
    BY <1>4, <2>1 DEF DeliveryInv, AcksMatch
  <2>3. \A k \in Msg : (\E s \in Holding(pid) : outbox[s].msg = k) <=> k = m
    BY <1>5
  <2>4. status' = [status EXCEPT ![m] = "done"]
    BY <1>2, <1>3, <2>1, <2>3
  <2>. QED BY <1>1, <2>1, <2>2, <2>4 DEF Promise!Complete
<1>. QED BY <1>6, <1>7

(* Reading a PUBLISH, the broker takes its message as often as promised.   *)
LEMMA BrokerImplements ==
  ASSUME ClientInv, WireInv, DeliveryInv, BrokerStep
  PROVE  \/ UNCHANGED Promise!abstractVars
         \/ \E m \in Msg : Promise!Receive(m) \/ Promise!Refuse(m)
<1> DEFINE p == Head(toBroker)
<1>1. UNCHANGED <<status, session_lost>> /\ 1 \in Wire /\ toBroker[1] = p
  BY WireAfterRead DEF BrokerStep, historyVars
<1>2. CASE p.type = "PUBREL" /\ BrokerPubrel(p)
  BY <1>1, <1>2 DEF BrokerPubrel, Promise!abstractVars
<1>3. CASE p.type = "PUBLISH" /\ BrokerPublish(p)
  <2>1. IsPublish(1)
    BY <1>1, <1>3 DEF IsPublish
  <2>2. p.msg \in Msg /\ QosOf[p.msg] \in 0..2
    BY <1>1, <2>1, WireType, OutboxAssumption
  <2>3. /\ status[p.msg] \in {"pending", "done"}
        /\ QosOf[p.msg] = 0 => p.dup = 0
        /\ QosOf[p.msg] = 0 <=> p.pid = 0
    BY <1>1, <2>1 DEF DeliveryInv, PublishesMatch
  <2>4. p.dup = 0 => received[p.msg] = 0
    BY <1>1, <2>1 DEF DeliveryInv, UnmarkedFirst
  <2>5. ~session_lost /\ QosOf[p.msg] = 2 /\ received[p.msg] > 0 => p.pid \in held
    BY <1>1, <2>1 DEF DeliveryInv, HeldComplete, Taken
  <2>6. received \in [Msg -> 0..2]
    BY DEF WireInv, WireTypeOK
  <2>7. Take(p.msg) => received' = [received EXCEPT ![p.msg] = Promise!AtMost2(@ + 1)]
    <3>1. (IF received[p.msg] = 2 THEN 2 ELSE received[p.msg] + 1)
            = Promise!AtMost2(received[p.msg] + 1)
      BY <2>2, <2>6 DEF Promise!AtMost2
    <3>. QED BY <3>1 DEF Take
  <2>8. CASE Take(p.msg) /\ UNCHANGED refused /\ ~(QosOf[p.msg] = 2 /\ p.pid \in held)
    <3>1. QosOf[p.msg] = 1 \/ received[p.msg] = 0 \/ (QosOf[p.msg] = 2 /\ session_lost)
      BY <2>2, <2>3, <2>4, <2>5, <2>6, <2>8
    <3>. QED BY <1>1, <2>2, <2>3, <2>7, <2>8, <3>1 DEF Promise!Receive
  <2>9. CASE UNCHANGED <<received, refused>>
    BY <1>1, <2>9 DEF Promise!abstractVars
  <2>10. CASE QosOf[p.msg] > 0 /\ refused' = refused \cup {p.msg} /\ UNCHANGED received
    BY <1>1, <2>2, <2>3, <2>10 DEF Promise!Refuse
  <2>11. \/ Take(p.msg) /\ UNCHANGED refused /\ ~(QosOf[p.msg] = 2 /\ p.pid \in held)
         \/ UNCHANGED <<received, refused>>
         \/ QosOf[p.msg] > 0 /\ refused' = refused \cup {p.msg} /\ UNCHANGED received
    <3>1. BrokerPublish(p)
      BY <1>3
    <3>2. (QosOf[p.msg] = 0 \/ QosOf[p.msg] = 1) => QosOf[p.msg] # 2
      OBVIOUS
    <3> HIDE DEF p
    <3>3. CASE UNCHANGED <<received, refused>>
      BY <3>3
    <3>4. CASE QosOf[p.msg] > 0 /\ refused' = refused \cup {p.msg} /\ UNCHANGED received
      BY <3>4
    <3>5. CASE Take(p.msg) /\ UNCHANGED refused /\ ~(QosOf[p.msg] = 2 /\ p.pid \in held)
      BY <3>5
    <3>. QED BY <3>1, <3>2, <3>3, <3>4, <3>5, Zenon DEF BrokerPublish
  <2>. QED BY <2>8, <2>9, <2>10, <2>11
<1>. QED BY <1>2, <1>3 DEF BrokerStep

(* Nothing is let go before the broker took or refused it, nothing rejected
   is sent, and the broker takes a QoS 2 message once while it keeps its
   session, as long as the threads do not overlap and no identifier was taken
   while in use: once packet_ident wraps round to one in use, an
   acknowledgement may be for another message.                             *)
THEOREM PublishingDelivers == Spec /\ [](~reused) => Delivers
<1>1. Init => Promise!AbstractInit
  BY DEF Init, Promise!AbstractInit
<1>2. OutboxFlowInv /\ ~reused /\ [Next]_vars
        => [Undisturbed' => Promise!AbstractNext]_(Promise!abstractVars)
  <2> SUFFICES ASSUME OutboxFlowInv, ~reused, [Next]_vars, Undisturbed'
               PROVE  Promise!AbstractNext \/ UNCHANGED Promise!abstractVars
    OBVIOUS
  <2>1. ClientInv /\ WireInv /\ DeliveryInv
    <3>1. ThreadTypeOK /\ WireInv
      BY DEF OutboxFlowInv, TypesInv
    <3>2. Undisturbed
      BY <3>1, OverlapIsKept
    <3>. QED BY <3>1, <3>2 DEF OutboxFlowInv
  <2>2. CASE \E t \in Thread, m \in Msg : Publish(t, m)
    BY <2>1, <2>2, PublishImplements DEF Promise!AbstractNext
  <2>3. CASE RecvPuback \/ RecvPubcomp \/ RecvPubrecError
    <3>1. /\ toClient # <<>> /\ ~(Head(toClient).type = "PUBREC" /\ Head(toClient).ok)
          /\ Completed(Head(toClient).pid)
      BY <2>3 DEF RecvPuback, RecvPubcomp, RecvPubrecError, Receives
    <3>. QED BY <2>1, <3>1, CompletedImplements DEF Promise!AbstractNext
  <2>4. CASE RecvConnack
    <3>1. UNCHANGED <<status, received, refused>>
      BY <2>4 DEF RecvConnack, historyVars
    <3>2. UNCHANGED session_lost \/ session_lost'
      BY <2>1, <2>4 DEF RecvConnack, WireInv, WireTypeOK
    <3>3. session_lost' \in BOOLEAN /\ session_lost \in BOOLEAN
      BY <2>1, <2>4 DEF RecvConnack, WireInv, WireTypeOK
    <3>. QED BY <3>1, <3>2, <3>3
         DEF Promise!AbstractNext, Promise!LoseSession, Promise!abstractVars
  <2>5. CASE BrokerStep
    BY <2>1, <2>5, BrokerImplements DEF Promise!AbstractNext
  <2>6. CASE \/ AppCall \/ AppReturn
             \/ \E t \in Thread : TakeIdent(t) \/ Connect(t) \/ Disconnect(t)
             \/ \E t \in Looping : Process(t) \/ Pump(t)
             \/ RecvPubrec \/ Resume \/ Replay \/ Break \/ UNCHANGED vars
    <3>1. UNCHANGED <<status, received, refused, session_lost>>
      BY <2>6 DEF AppCall, AppReturn, TakeIdent, Process, Pump, PumpSend, PumpMark, PumpReturn,
                  RecvPubrec, Connect, Resume, Replay, ReplaySend, ReplayAbort, ReplayReturn,
                  Disconnect, Break, vars, brokerVars, historyVars
    <3>. QED BY <3>1 DEF Promise!abstractVars
  <2>. QED BY <2>2, <2>3, <2>4, <2>5, <2>6 DEF Next, RecvAck
<1>. QED BY <1>1, <1>2, FlowInvariant, PTL DEF Spec, Delivers
=============================================================================
