------------------------------- MODULE Codec -------------------------------
(***************************************************************************)
(* From the bytes on the connection to the events of the application: the  *)
(* receive buffer that noxmqtt_transport_rcv_func fills with whatever recv *)
(* returned, the packets it cuts out of it, and what the handlers accept   *)
(* (noxmqtt.c) and read out of their property lists (Mqtt5).               *)
(*                                                                         *)
(* A packet is a record: what its handler looks at, and `fill', the value  *)
(* of the other bytes of its body.  A scenario says which packets the      *)
(* broker sends on each connection; where the stream is cut into chunks,   *)
(* and when the connection is lost, is left open.                          *)
(***************************************************************************)
EXTENDS Mqtt5

CONSTANTS
  BufSize,        \* rcv_buf_size
  MaxChunk,       \* the most that recv returns at once
  Heap,           \* values a byte nobody wrote may have
  Packet,         \* what a broker may send
  Scenarios       \* [version, conf, streams: one sequence of packets per connection,
                  \*  cut: whether recv may return less than what it has room for]

ASSUME CodecAssumption ==
  /\ {BufSize, MaxChunk} \subseteq Nat \ {0}
  /\ MaxChunk <= BufSize /\ BufSize < LenMod /\ Heap \subseteq 0..255
  /\ LET Streams == Seq(Seq(Packet)) \ {<<>>} IN \A s \in Scenarios : s.streams \in Streams

VARIABLES
  \* the client
  rcv_buf, rcv_offset,
  handled,        \* what became of the packets of this connection
  stuck,          \* the receive thread is in a loop that does not end
  \* the connection
  scenario,
  conn,           \* which connection of the scenario
  heap,           \* the value of the bytes nobody wrote
  wire,           \* bytes of this connection not yet received
  \* history
  lost            \* why, and after how many bytes, the client lost step with the stream

vars == <<rcv_buf, rcv_offset, handled, stuck, scenario, conn, heap, wire, lost>>

V5 == scenario.version = 5

InStep == [why |-> "no", at |-> 0]

-----------------------------------------------------------------------------
(* Packets and their bytes                                                 *)

Header(p) ==
  CASE p.type = "CONNACK" -> \h20
    [] p.type = "PUBLISH" -> \h30 + 2 * p.qos
    [] p.type = "PUBACK" -> \h40
    [] p.type = "PUBREC" -> \h50
    [] p.type = "PUBREL" -> \h62
    [] p.type = "PUBCOMP" -> \h70
    [] p.type = "SUBACK" -> \h90
    [] p.type = "UNSUBACK" -> \hB0
    [] p.type = "PINGRESP" -> \hD0
    [] p.type = "DISCONNECT" -> \hE0
    [] p.type = "AUTH" -> \hF0

\* Acknowledge flags, topic name, packet identifier.
FixedSize(p) ==
  CASE p.type = "CONNACK" -> 1
    [] p.type = "PUBLISH" -> IF p.qos = 0 THEN 3 ELSE 5
    [] p.type \in Acks -> 2
    [] OTHER -> 0

\* The bytes of the property block.  A property whose length field lies reaches
\* beyond it, and a block whose length lies beyond the packet.
BlockSize(p) == Min({p.length, ListSize(p.props)})

\* `full' says whether there is a property block, `length' what it declares.
RemainingLength(p) ==
  FixedSize(p) + Len(p.codes) + p.payload
  + (IF p.full THEN Len(Digits(p.length)) + BlockSize(p) ELSE 0)

Bytes(p) ==
  <<Header(p)>> \o Digits(RemainingLength(p)) \o [i \in 1..RemainingLength(p) |-> p.fill]

BytesOf(packets) == FlattenSeq([i \in DOMAIN packets |-> Bytes(packets[i])])

Size(p) == LET rest == RemainingLength(p) IN 1 + Len(Digits(rest)) + rest

CodesLast(p) == p.type \in {"SUBACK", "UNSUBACK"}

\* The bytes a property block can extend over: reason codes follow it in
\* SUBACK and UNSUBACK, the payload in PUBLISH.
Room(p) == BlockSize(p) + p.payload + (IF CodesLast(p) THEN Len(p.codes) ELSE 0)

\* What a packet of each type looks like: CONNACK has one reason code and SUBACK
\* at least one, PINGRESP is bare, a property block comes after a reason code,
\* `props' has what begins within the declared length of the block and no more,
\* unless that is beyond the packet, and an identifier that MQTT 5 does not
\* define is "unknown".
Sendable(p) ==
  /\ p.type \in Acks \cup {"CONNACK", "PUBLISH", "PINGRESP", "DISCONNECT", "AUTH"}
  /\ p.qos \in 0..2 /\ p.fill \in 0..255 /\ p.full \in BOOLEAN
  /\ p.codes \in Seq(0..255) /\ p.props \in Seq([id : PropertyId \cup {"unknown"}, val : Nat])
  /\ {p.payload, p.length, ListSize(p.props)} \subseteq Nat
  /\ Declared(p.props, p.length) \subseteq {Len(p.props)}
  /\ p.length > ListSize(p.props) => p.length > Room(p)
  /\ ~p.full => p.props = <<>> /\ p.length = ListSize(<<>>)
  /\ p.type # "PUBLISH" => p.payload = 0
  /\ p.type = "PINGRESP" => ~p.full
  /\ p.type \in {"PUBLISH", "PINGRESP"} => p.codes = <<>>
  /\ p.type = "CONNACK" => Len(p.codes) = 1
  /\ p.type = "SUBACK" => p.codes # <<>>
  /\ p.type \in {"DISCONNECT", "AUTH"} /\ p.full => p.codes # <<>>
  /\ Encodable(p.length) /\ Encodable(RemainingLength(p))

\* A version 3.1.1 packet has no properties, and the reason codes of that version.
Version311(p) ==
  /\ ~p.full
  /\ p.type = "CONNACK" => Range(p.codes) \subseteq 0..5
  /\ p.type # "CONNACK" => Range(p.codes) \subseteq {0, 1, 2, 128}

ASSUME PacketAssumption ==
  /\ \A p \in Packet : Sendable(p)
  /\ \A s \in Scenarios : s.version = 5 \/ \A c \in DOMAIN s.streams :
       \A i \in DOMAIN s.streams[c] : Version311(s.streams[c][i])

Stream == scenario.streams[conn]

Prefix(s, n) == SubSeq(s, 1, Min({n, Len(s)}))

-----------------------------------------------------------------------------
(* What the handlers accept                                                *)

ReadsProperties(p) ==
  p.full /\ Parses(p.props, p.length, Room(p)) /\ Validates(p.type, View(p.props))

\* The bytes of the packet up to the end of the property block.
End(p) ==
  1 + Len(Digits(RemainingLength(p))) + FixedSize(p) + (IF CodesLast(p) THEN 0 ELSE Len(p.codes))
  + Len(Digits(p.length)) + p.length

\* Its handler comes to read a property at which the 16 bits of the sum wrap.
\* What it then reads is not modelled: it may refuse the packet, accept it with
\* a value that is none, or read the same properties for ever.
Misread(p) == V5 /\ p.full /\ p.length <= Room(p) /\ Wraps(p.props, p.length, End(p))

\* The packet ends with its properties.
EndsThere(p) == p.length = ListSize(p.props)

GivesMethod(p) == p.full /\ "auth_method" \in DOMAIN View(p.props)

\* The authentication method of the packet is the one CONNECT asked for.
MethodMatches(p) == scenario.conf.auth_method \in {0, View(p.props)["auth_method"][1]}

AcceptsConnack(p) ==
  /\ Len(Digits(RemainingLength(p))) = 1 /\ RemainingLength(p) >= 2
  /\ IF V5
     THEN /\ ValidReasons(p.type, p.codes) /\ ReadsProperties(p) /\ EndsThere(p)
          /\ p.codes = <<0>> /\ scenario.conf.auth_method > 0 =>
               GivesMethod(p) /\ MethodMatches(p)
     ELSE RemainingLength(p) = 2 /\ Range(p.codes) \subseteq 0..5

AcceptsPublish(p) == V5 => ReadsProperties(p)

\* noxmqtt_mqtt5_parse_ack and the checks of its callers
AcceptsAck(p) ==
  /\ RemainingLength(p) >= 2
  /\ V5 => ValidReasons(p.type, p.codes) /\ (p.full => ReadsProperties(p) /\ EndsThere(p))

AcceptsSuback(p) ==
  /\ RemainingLength(p) >= (IF p.type = "SUBACK" THEN 3 ELSE 2)
  /\ V5 => ReadsProperties(p)
  /\ ValidReasons(p.type, p.codes)

AcceptsAuth(p) ==
  /\ V5 /\ ValidReasons(p.type, p.codes) /\ ReadsProperties(p)
  /\ IF GivesMethod(p) THEN MethodMatches(p) ELSE scenario.conf.auth_method > 0

\* The answers of the handler to a packet it does not misread.  Without a property
\* block the DISCONNECT and AUTH handlers validate a view that was never written.
Answers(p) ==
  CASE p.type = "CONNACK" -> {AcceptsConnack(p)}
    [] p.type = "PUBLISH" -> {AcceptsPublish(p)}
    [] p.type \in {"PUBACK", "PUBREC", "PUBREL", "PUBCOMP"} -> {AcceptsAck(p)}
    [] p.type \in {"SUBACK", "UNSUBACK"} -> {AcceptsSuback(p)}
    [] p.type = "PINGRESP" -> {RemainingLength(p) = 0}
    [] p.type = "DISCONNECT" ->
         IF ~V5 \/ p.codes = <<>> THEN {TRUE}
         ELSE IF ~p.full /\ ValidReasons(p.type, p.codes) THEN BOOLEAN
         ELSE {ValidReasons(p.type, p.codes) /\ ReadsProperties(p)}
    [] p.type = "AUTH" ->
         IF p.codes = <<>> THEN {V5 /\ scenario.conf.auth_method = 0}
         ELSE IF V5 /\ ~p.full /\ ValidReasons(p.type, p.codes) THEN BOOLEAN
         ELSE {AcceptsAuth(p)}

Accepts(p) == IF Misread(p) THEN BOOLEAN ELSE Answers(p)

\* An event, or an error.
Event(p, ok) == [ok |-> ok, view |-> IF ok /\ p.full THEN View(p.props) ELSE <<>>]

-----------------------------------------------------------------------------
(* noxmqtt_transport_rcv_func                                              *)

\* noxmqtt_validate_received_header_flags
ValidHeaders ==
  {\h20, \h40, \h50, \h62, \h70, \h82, \h90, \hA2, \hB0, \hD0, \hE0, \hF0}
    \cup {h \in \h30..\h3F : (h \div 2) % 4 # 3}

\* A byte of the receive buffer, or behind it.
ByteAt(buf, i) == IF i <= BufSize THEN buf[i] ELSE heap

\* noxmqtt_decode_remain_len for a packet that starts after `o' bytes: it looks
\* at up to four bytes, received or not.  0 stands for a length without end.
LengthBytes(buf, o) ==
  LET ends == {k \in 1..4 : ByteAt(buf, o + 1 + k) < 128} IN IF ends = {} THEN 0 ELSE Min(ends)

LengthValue(buf, o) ==
  LET count == LengthBytes(buf, o)
      digit(k) == IF k <= count THEN ByteAt(buf, o + 1 + k) % 128 ELSE 0
  IN  digit(1) + Base * (digit(2) + Base * (digit(3) + Base * digit(4)))

PacketLen(buf, o) == (1 + LengthBytes(buf, o) + LengthValue(buf, o)) % LenMod

\* The loop at a packet that starts after `o' of `n' bytes: it cannot be one,
\* or it has arrived whole.  Else the loop ends.
Refuses(buf, n, o) ==
  /\ n - o >= 2
  /\ \/ buf[o + 1] \notin ValidHeaders
     \/ LengthBytes(buf, o) = 0
     \/ n - o >= 1 + LengthBytes(buf, o) /\ LengthValue(buf, o) >= LenMod

Takes(buf, n, o) ==
  /\ n - o >= 2 /\ ~Refuses(buf, n, o)
  /\ n - o >= 1 + LengthBytes(buf, o) /\ n - o >= PacketLen(buf, o)

\* packet_len has wrapped round to 0: the loop calls a handler for no bytes,
\* and comes to the same packet again.
Spins(buf, n, o) == Takes(buf, n, o) /\ PacketLen(buf, o) = 0

\* The values of parse_offset, the last one where the loop ends or does not
\* get on.
Offsets(buf, n) ==
  LET from[o \in 0..n] ==
        <<o>> \o (IF Takes(buf, n, o) /\ PacketLen(buf, o) > 0 THEN from[o + PacketLen(buf, o)]
                 ELSE <<>>)
  IN  from[0]

\* The packet that was cut out is the k-th of the stream.
IsPacket(buf, o, k) ==
  /\ k <= Len(Stream)
  /\ SubSeq(buf, o + 1, o + PacketLen(buf, o)) = Bytes(Stream[k])

\* Mutant: what is left of the buffer is not moved to its front.
LeftInPlace(buf, o, left) == buf

\* The memmove of what is left after `o' bytes.
Moved(buf, o, left) ==
  [i \in 1..BufSize |-> IF i <= left THEN buf[o + i] ELSE buf[i]]

\* Mutant: only the chunk is compared with the size of the buffer.
ChunkOverflows(n) == n > BufSize

Overflows(n) == rcv_offset + n > BufSize

LoseStep(why) ==
  lost' = IF lost.why = "no" THEN [why |-> why, at |-> Len(BytesOf(Stream)) - Len(wire')] ELSE lost

-----------------------------------------------------------------------------

\* The broker keeps to the maximum packet size that CONNECT announced.
Obeys(s) ==
  LET announced == Values(EncodeConnect(s.conf), "maximum_packet_size") IN
  s.version = 5 /\ announced # <<>> =>
    \A c \in DOMAIN s.streams : \A i \in DOMAIN s.streams[c] :
      Size(s.streams[c][i]) <= announced[1]

Init ==
  /\ scenario \in {s \in Scenarios : Obeys(s)}
  /\ conn = 1 /\ wire = BytesOf(Stream)
  /\ heap \in Heap
  /\ rcv_buf = [i \in 1..BufSize |-> heap] /\ rcv_offset = 0
  /\ handled = <<>> /\ stuck = FALSE /\ lost = InStep

\* recv returns the next `n' bytes.
Arrives(n) ==
  /\ scenario.cut \/ n = Min({MaxChunk, Len(wire)})
  /\ wire' = SubSeq(wire, n + 1, Len(wire))

\* More than the buffer has room for: all of it is dropped.
ReceiveTooMuch(n) ==
  /\ ~stuck /\ Overflows(n) /\ Arrives(n)
  /\ rcv_offset' = 0
  /\ LoseStep("overflow")
  /\ UNCHANGED <<rcv_buf, handled, stuck, scenario, conn, heap>>

\* The receive buffer with the next `n' bytes.
Filled(n) ==
  [i \in 1..BufSize |->
     IF i \in rcv_offset + 1..rcv_offset + n THEN wire[i - rcv_offset] ELSE rcv_buf[i]]

\* The first `count' packets that were cut out of the buffer go to their handlers.
\* What they make of bytes that are no packet of the stream is left open.
Handles(buf, offsets, count) ==
  LET packet(i) == Len(handled) + i IN
  \E ok \in [1..count -> BOOLEAN] :
    /\ \A i \in DOMAIN ok :
         IsPacket(buf, offsets[i], packet(i)) => ok[i] \in Accepts(Stream[packet(i)])
    /\ handled' = handled \o [i \in DOMAIN ok |->
                    Event(Stream[Min({packet(i), Len(Stream)})], ok[i])]

Receive(n) ==
  /\ ~stuck /\ ~Overflows(n) /\ Arrives(n)
  /\ LET end == rcv_offset + n
         buf == Filled(n)
         offsets == Offsets(buf, end)
         last == offsets[Len(offsets)]
     IN
     /\ Handles(buf, offsets, Len(offsets) - 1)
     /\ stuck' = Spins(buf, end, last)
     /\ \/ /\ Refuses(buf, end, last)
           /\ rcv_offset' = 0 /\ rcv_buf' = buf
           /\ LoseStep("length")
        \/ /\ Spins(buf, end, last)
           /\ rcv_offset' = end /\ rcv_buf' = buf
           /\ UNCHANGED lost
        \/ /\ ~Refuses(buf, end, last) /\ ~Spins(buf, end, last)
           /\ rcv_offset' = end - last /\ rcv_buf' = Moved(buf, last, end - last)
           /\ UNCHANGED lost
  /\ UNCHANGED <<scenario, conn, heap>>

\* The handler of a packet it misreads does not return.
Hang(n) ==
  /\ ~stuck /\ ~Overflows(n) /\ Arrives(n)
  /\ LET buf == Filled(n)
         offsets == Offsets(buf, rcv_offset + n)
     IN
     /\ \E count \in 1..Len(offsets) - 1 :
          /\ IF IsPacket(buf, offsets[count], Len(handled) + count)
             THEN Misread(Stream[Len(handled) + count])
             ELSE V5
          /\ Handles(buf, offsets, count - 1)
     /\ rcv_buf' = buf
  /\ rcv_offset' = rcv_offset + n /\ stuck' = TRUE
  /\ UNCHANGED <<scenario, conn, heap, lost>>

\* The connection is lost or closed and noxmqtt_connect opens the next one.
\* Neither touches the receive buffer.  A receive thread that is stuck notices
\* nothing; what the other threads make of that is not modelled.
Reconnect ==
  /\ ~stuck /\ conn < Len(scenario.streams)
  /\ conn' = conn + 1 /\ wire' = BytesOf(scenario.streams[conn + 1]) /\ handled' = <<>>
  /\ lost' = IF rcv_offset = 0 THEN InStep ELSE [why |-> "leftover", at |-> 0]
  /\ UNCHANGED <<rcv_buf, rcv_offset, stuck, scenario, heap>>

Next ==
  \/ \E n \in 1..Min({MaxChunk, Len(wire)}) : Receive(n) \/ Hang(n) \/ ReceiveTooMuch(n)
  \/ Reconnect

Spec == Init /\ [][Next]_vars

-----------------------------------------------------------------------------
(* Properties                                                              *)

TypeOK ==
  /\ rcv_buf \in [1..BufSize -> 0..255] /\ rcv_offset \in 0..BufSize
  /\ \A i \in DOMAIN handled : handled[i].ok \in BOOLEAN
  /\ stuck \in BOOLEAN
  /\ conn \in DOMAIN scenario.streams /\ heap \in Heap
  /\ Range(wire) \subseteq 0..255
  /\ lost.why \in {"no", "overflow", "length", "leftover"} /\ lost.at \in Nat

\* Where the client is in the stream: it is out of the receive loop, the packets
\* handled are the first of the stream, the buffer holds the bytes that follow
\* them, and no packet waits there whole.
Follows ==
  /\ ~stuck
  /\ Len(handled) <= Len(Stream)
  /\ BytesOf(Prefix(Stream, Len(handled))) \o SubSeq(rcv_buf, 1, rcv_offset) \o wire
       = BytesOf(Stream)
  /\ Len(handled) < Len(Stream) => rcv_offset < Size(Stream[Len(handled) + 1])

\* After `n' bytes the stream stands between two bytes of a length field.
InsideLength(n) ==
  \E i \in DOMAIN Stream :
    LET before == Len(BytesOf(Prefix(Stream, i - 1))) IN
    n \in before + 2..before + Len(Digits(RemainingLength(Stream[i])))

\* The 16 bits of packet_len hold the size of every packet, and those of the sums
\* of the read functions the lengths in it.
Sized == \A i \in DOMAIN Stream : Size(Stream[i]) < LenMod /\ ~Misread(Stream[i])

\* However a stream of such packets is cut, the client follows it packet by packet,
\* and neither its handlers nor the loop of noxmqtt_transport_rcv_func go on for ever, unless
\* it lost step for one of three reasons: a chunk cut a length field while the
\* buffer held stale bytes behind it, a packet too big to wait in the buffer
\* for the next chunk, or bytes of an earlier connection still in the buffer.
StreamIntact == Sized =>
  CASE lost.why = "no" -> Follows
    [] lost.why = "length" -> InsideLength(lost.at)
    [] lost.why = "overflow" ->
         \E i \in DOMAIN Stream : Size(Stream[i]) - 1 + MaxChunk > BufSize
    [] lost.why = "leftover" -> conn > 1

-----------------------------------------------------------------------------
(* What MQTT 5 allows: properties by packet (its table 2-4) and reason     *)
(* codes by value (its table 2-6), for the packets a broker sends.         *)

UsedIn(id) ==
  CASE id \in {"payload_format_indicator", "message_expiry_interval", "content_type",
               "response_topic", "correlation_data", "subscription_identifier",
               "topic_alias"} -> {"PUBLISH"}
    [] id = "session_expiry_interval" -> {"CONNACK", "DISCONNECT"}
    [] id \in {"auth_method", "auth_data"} -> {"CONNACK", "AUTH"}
    [] id = "server_reference" -> {"CONNACK", "DISCONNECT"}
    [] id = "reason_string" -> Acks \cup {"CONNACK", "DISCONNECT", "AUTH"}
    [] id = "user_property" -> Acks \cup {"CONNACK", "PUBLISH", "DISCONNECT", "AUTH"}
    [] id \in {"assigned_client_identifier", "server_keep_alive", "response_information",
               "receive_maximum", "topic_alias_maximum", "maximum_qos", "retain_available",
               "maximum_packet_size", "wildcard_subscription_available",
               "subscription_identifiers_available", "shared_subscription_available"} ->
         {"CONNACK"}
    [] OTHER -> {}

CodeUsedIn(code) ==
  CASE code = 0 -> Acks \cup {"CONNACK", "DISCONNECT", "AUTH"}
    [] code \in {1, 2} -> {"SUBACK"}
    [] code = \h10 -> {"PUBACK", "PUBREC"}
    [] code = \h11 -> {"UNSUBACK"}
    [] code \in {\h18, \h19} -> {"AUTH"}
    [] code \in {\h80, \h83, \h87} -> (Acks \ {"PUBREL", "PUBCOMP"}) \cup {"CONNACK", "DISCONNECT"}
    [] code \in {\h81, \h82, \h89, \h95, \h9A, \h9B, \h9C, \h9D, \h9F} -> {"CONNACK", "DISCONNECT"}
    [] code \in {\h84, \h85, \h86, \h88, \h8A, \h8C} -> {"CONNACK"}
    [] code = \h8F -> {"SUBACK", "UNSUBACK", "DISCONNECT"}
    [] code \in {\h90, \h99} -> {"PUBACK", "PUBREC", "CONNACK", "DISCONNECT"}
    [] code = \h91 -> {"PUBACK", "PUBREC", "SUBACK", "UNSUBACK"}
    [] code = \h92 -> {"PUBREL", "PUBCOMP"}
    [] code = \h97 -> {"PUBACK", "PUBREC", "SUBACK", "CONNACK", "DISCONNECT"}
    [] code \in {\h9E, \hA1, \hA2} -> {"SUBACK", "DISCONNECT"}
    [] code \in {4, \h8B, \h8D, \h8E, \h93, \h94, \h96, \h98, \hA0} -> {"DISCONNECT"}
    [] OTHER -> {}

\* Only these may leave out the property block.
Omits == {"PUBACK", "PUBREC", "PUBREL", "PUBCOMP", "PINGRESP", "DISCONNECT", "AUTH"}

WellFormed(p) ==
  /\ V5 => p.full \/ p.type \in Omits
  /\ \A i \in DOMAIN p.codes : p.type \in CodeUsedIn(p.codes[i])
  /\ p.length = ListSize(p.props)
  /\ \A i, j \in DOMAIN p.props :
       p.props[i].id = p.props[j].id => i = j \/ p.props[i].id \in Repeatable
  /\ \A i \in DOMAIN p.props :
       LET id == p.props[i].id IN
       /\ p.type \in UsedIn(id)
       /\ id \in Flags => p.props[i].val \in {0, 1}
       /\ id \in {"subscription_identifier", "receive_maximum", "topic_alias",
                  "maximum_packet_size"} => p.props[i].val > 0
       /\ id = "auth_data" => \E j \in DOMAIN p.props : p.props[j].id = "auth_method"

\* What a broker that keeps to the agreed authentication method may send.
Legal(p) ==
  LET agreed == scenario.conf.auth_method
      names == {i \in DOMAIN p.props : p.props[i].id = "auth_method"}
  IN
  /\ WellFormed(p)
  /\ \A i \in names : agreed > 0 /\ p.props[i].val = agreed
  /\ p.type = "AUTH" => agreed > 0
  /\ p.type = "AUTH" \/ (p.type = "CONNACK" /\ p.codes = <<0>>) => agreed = 0 \/ names # {}

\* Three things the client does not understand although they are legal.
BeyondLimits(p) ==
  \/ p.type = "CONNACK" /\ Len(Digits(RemainingLength(p))) > 1
  \/ Len(Values(p.props, "subscription_identifier")) > MaxSubIds
  \/ p.type \in {"DISCONNECT", "AUTH"} /\ p.codes # <<>> /\ ~p.full

\* `meant' is what the list of the packet holds.
MeantIsHeld == \A p \in Packet : \A id \in DOMAIN p.meant : p.meant[id] = Values(p.props, id)

Seen(view, id) == IF id \in DOMAIN view THEN view[id] ELSE <<>>

\* The application is told of every legal packet and of no malformed one, and
\* with a packet that carries another application's properties it sees them
\* as they were given, but for user properties beyond the maximum.
Understood ==
  lost.why = "no" /\ Sized =>
    \A i \in DOMAIN handled :
      LET p == Stream[i] IN
      /\ V5 /\ handled[i].ok => WellFormed(p)
      /\ Legal(p) /\ ~BeyondLimits(p) => handled[i].ok
      /\ handled[i].ok =>
           \A id \in DOMAIN p.meant :
             Seen(handled[i].view, id) = IF id = "user_property" THEN Prefix(p.meant[id], MaxUser)
                                         ELSE p.meant[id]
=============================================================================
