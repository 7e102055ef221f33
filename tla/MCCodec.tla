------------------------------ MODULE MCCodec ------------------------------
(***************************************************************************)
(* The packets and scenarios for Codec: every packet of a catalogue alone, *)
(* and a few streams of several packets over two connections.              *)
(***************************************************************************)
EXTENDS Codec

NoFields == [id \in PropertyId \ {"user_property"} |-> 0] @@ [user |-> <<>>]

Conf == [NoFields EXCEPT !["auth_method"] = 1]

\* A packet with a property block.
Full(type, codes, props) ==
  [type |-> type, qos |-> 0, codes |-> codes, props |-> props, full |-> TRUE,
   length |-> ListSize(props), payload |-> 0, fill |-> 0, meant |-> <<>>]

Bare(type, codes) == [Full(type, codes, <<>>) EXCEPT !.full = FALSE]

Prop(id, val) == [id |-> id, val |-> val]

\* With the reason code 0 where the packet has one.
With(type, props) == Full(type, IF type = "PUBLISH" THEN <<>> ELSE <<0>>, props)

Method == <<Prop("auth_method", 1)>>

\* AUTH and CONNACK name the method.
Agreed(type, props) ==
  With(type, (IF type \in {"AUTH", "CONNACK"} THEN Method ELSE <<>>) \o props)

Types == Acks \cup {"CONNACK", "PUBLISH", "DISCONNECT", "AUTH"}
WithCodes == Types \ {"PUBLISH"}

Codes ==
  {[Agreed(type, <<>>) EXCEPT !.codes = <<code>>] : type \in WithCodes, code \in (0..4) \cup (16..25) \cup (128..164)}
    \cup {Bare(type, <<code>>) : type \in {"PUBACK", "PUBREC", "PUBREL", "PUBCOMP", "DISCONNECT", "AUTH"},
                                 code \in {0, 3, 146}}
    \cup {Bare(type, <<>>) : type \in {"PUBACK", "PUBREC", "PUBREL", "PUBCOMP", "DISCONNECT", "AUTH",
                                       "PINGRESP"}}

OneProperty ==
  UNION {{With(type, <<p>>), Agreed(type, <<p>>)} :
           type \in Types, p \in [id : PropertyId \cup {"unknown"}, val : 0..2]}

TwoProperties ==
  {Agreed(type, <<Prop(id, 1), Prop(id, 1)>>) : type \in Types, id \in PropertyId}
    \cup {With(type, Method \o <<Prop("auth_data", 1)>>) : type \in Types}
    \cup {With("PUBLISH", [i \in 1..3 |-> Prop("subscription_identifier", i)])}

\* The length of the block lies.
WrongLength ==
  {[With(type, <<Prop("user_property", 1)>>) EXCEPT !.length = n] : type \in Types, n \in {5, 8}}

\* The length of the last property lies, by so little that it is refused, or by so
\* much that the sum of the read function wraps.
Lies(id, val) ==
  {[With(type, list) EXCEPT !.length = ListSize(list) - val] :
     type \in Types, list \in {<<Prop(id, val)>>, Method \o <<Prop(id, val)>>}}

LyingLength ==
  UNION {Lies(id, val) : id \in Strings \cup {"user_property"}, val \in {2, LenMod - 1}}

Broken == [With("PUBLISH", <<Prop("correlation_data", 1), Prop("content_type", LenMod - 5)>>)
             EXCEPT !.length = 7, !.payload = 2]

-----------------------------------------------------------------------------
(* What the client encodes, forwarded or sent back to it                   *)

Meant(conf, ids) ==
  [id \in ids |-> IF conf[id] = 0 THEN <<>> ELSE <<conf[id]>>] @@ [user_property |-> conf.user]

Message == {"payload_format_indicator", "message_expiry_interval", "response_topic",
            "correlation_data", "content_type"}

Confs(ids) ==
  {[id \in DOMAIN NoFields |-> IF id = "user" THEN u ELSE IF id \in set THEN 1 ELSE 0] :
     set \in SUBSET ids, u \in {<<>>, <<1, 2>>}}

Of(p, conf, ids) == [p EXCEPT !.meant = Meant(conf, ids)]

Forwards(list) ==
  SelectSeq(list, LAMBDA p : p.id \notin {"topic_alias", "will_delay_interval"})

Published ==
  {Of(With("PUBLISH", Forwards(EncodePublish(conf)) \o EncodeSubscribe([conf EXCEPT !.user = <<>>])), conf,
      Message \cup {"subscription_identifier"}) :
     conf \in {c \in Confs(Message \cup {"topic_alias", "subscription_identifier"}) :
                 Encodes("PUBLISH", EncodePublish(c)) /\ ~Overruns("PUBLISH", EncodePublish(c))}}

Wills ==
  {Of(With("PUBLISH", Forwards(EncodeWill(conf))), conf, Message) :
     conf \in {c \in Confs(Message \cup {"will_delay_interval"}) :
                 Encodes("WILL", EncodeWill(c)) /\ ~Overruns("WILL", EncodeWill(c))}}

Echoes ==
  {Of(With("AUTH", EncodeAuth(conf)), conf, {"auth_method", "auth_data", "reason_string"}) :
     conf \in Confs({"auth_method", "auth_data", "reason_string"})}
  \cup {Of(With("DISCONNECT", EncodeDisconnect(conf)), conf,
           {"session_expiry_interval", "reason_string", "server_reference"}) :
          conf \in Confs({"session_expiry_interval", "reason_string", "server_reference"})}

Alone ==
  {[version |-> 5, conf |-> Conf, streams |-> <<<<p>>>>, cut |-> FALSE] :
     p \in Codes \cup OneProperty \cup TwoProperties \cup WrongLength \cup LyingLength \cup Published
             \cup Wills \cup Echoes}

-----------------------------------------------------------------------------
(* Streams                                                                 *)

Connack == Agreed("CONNACK", <<>>)
Big == [With("PUBLISH", <<Prop("content_type", 1)>>) EXCEPT !.payload = 14, !.qos = 1, !.fill = 200]
Huge == [Big EXCEPT !.payload = 30]
Suback == [Full("SUBACK", <<128, 0>>, <<>>) EXCEPT !.fill = 200]
Looks == [With("PUBLISH", <<>>) EXCEPT !.payload = 3, !.fill = 48]
Pingresp == Bare("PINGRESP", <<>>)

Streams ==
  {[version |-> 5, conf |-> Conf, streams |-> s, cut |-> TRUE] :
     s \in {<<<<Connack, Big>>, <<Connack, Suback>>>>, <<<<Big, Pingresp, Looks>>>>,
            <<<<Looks, Big>>, <<Looks>>>>, <<<<Suback, Huge>>>>, <<<<Suback, Broken, Looks>>>>}}
  \cup {[version |-> 5, conf |-> [Conf EXCEPT !["maximum_packet_size"] = 20],
         streams |-> <<<<Suback, p>>>>, cut |-> TRUE] : p \in {Huge, Looks}}

Old(type, codes) == Bare(type, codes)

Streams311 ==
  {[version |-> 4, conf |-> NoFields, streams |-> <<<<Old("CONNACK", <<0>>), p>>>>, cut |-> TRUE] :
     p \in {Old("SUBACK", <<1>>), Old("SUBACK", <<128>>), Old("UNSUBACK", <<>>), Old("PUBLISH", <<>>), Pingresp}
             \cup {Old(type, <<>>) : type \in {"PUBACK", "PUBREC", "PUBREL", "PUBCOMP"}}}

\* A packet whose size is LenMod, as large as a broker may send to a client that
\* announced no maximum packet size.
WholeWraps ==
  {[version |-> 5, conf |-> Conf, streams |-> <<<<p>>>>, cut |-> TRUE] :
     p \in {q \in {[Big EXCEPT !.payload = n] : n \in 0..LenMod} : Size(q) = LenMod}}

AllScenarios == Alone \cup Streams \cup Streams311 \cup WholeWraps

PacketsOf(scenarios) ==
  UNION {UNION {Range(s.streams[c]) : c \in DOMAIN s.streams} : s \in scenarios}

AllPackets == PacketsOf(AllScenarios)

\* What the theorem about Understood supposes of the packets.
ASSUME MCCodecAssumption == MeantIsHeld

EveryBuf == [packet \in {"PUBLISH", "WILL"} |-> 24]
=============================================================================
