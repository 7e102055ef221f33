------------------------------- MODULE Mqtt5 -------------------------------
(***************************************************************************)
(* MQTT 5 property lists and reason codes (noxmqtt_mqtt5.c): how lists are *)
(* written, read and validated.  A list is a sequence of properties        *)
(* [id, val]; `val' is a number, or the length that the length fields of a *)
(* string, of binary data or of the name and value of a user property      *)
(* give.  What the parser returns, the view, maps each property it found   *)
(* to its values in order.                                                 *)
(***************************************************************************)
EXTENDS Naturals, Sequences, FiniteSets, FiniteSetsExt, SequencesExt

CONSTANTS
  LenMod,         \* values of a uint16_t, as lengths and offsets are: 2^16 in the code
  Base,           \* values of a digit of a variable-length integer: 128 in the code
  MaxSubIds,      \* NOXMQTT_MAX_SUBSCRIPTION_IDENTIFIERS
  MaxUser,        \* NOXMQTT_MAX_USER_PROPERTIES
  BufOf           \* BufOf[packet]: bytes of the buffer its properties are encoded into

ASSUME Mqtt5Assumption ==
  /\ Base \in 2..128 /\ {MaxSubIds, MaxUser, LenMod} \subseteq Nat \ {0}
  /\ \A packet \in DOMAIN BufOf : BufOf[packet] \in Nat

Flags ==
  {"payload_format_indicator", "request_problem_info", "request_response_info", "maximum_qos",
   "retain_available", "wildcard_subscription_available", "subscription_identifiers_available",
   "shared_subscription_available"}
U16 == {"server_keep_alive", "receive_maximum", "topic_alias_maximum", "topic_alias"}
U32 == {"message_expiry_interval", "session_expiry_interval", "maximum_packet_size",
        "will_delay_interval"}
Strings ==
  {"content_type", "response_topic", "correlation_data", "assigned_client_identifier",
   "auth_method", "auth_data", "response_information", "server_reference", "reason_string"}
Repeatable == {"subscription_identifier", "user_property"}

PropertyId == Flags \cup U16 \cup U32 \cup Strings \cup Repeatable

Acks == {"PUBACK", "PUBREC", "PUBREL", "PUBCOMP", "SUBACK", "UNSUBACK"}

-----------------------------------------------------------------------------
(* Writing                                                                 *)

\* The remaining value before each digit, and what the four digits can hold.
Quotients(value) ==
  LET second == value \div Base
      third == second \div Base
  IN  <<value, second, third, third \div Base>>

Encodable(value) == value \in Nat /\ Quotients(value)[4] < Base

\* noxmqtt_set_remain_len, noxmqtt_write_varint and mqtt5_write_varint: least
\* significant digit first, all but the last with the continuation bit.
Digits(value) ==
  LET q == Quotients(value)
      count == Min({k \in 1..4 : q[k] < Base})
  IN  [i \in 1..count |-> (q[i] % Base) + (IF i < count THEN 128 ELSE 0)]

SizeOf(p) ==
  1 + CASE p.id \in Flags -> 1
        [] p.id \in U16 -> 2
        [] p.id \in U32 -> 4
        [] p.id \in Strings -> 2 + p.val
        [] p.id = "subscription_identifier" -> Len(Digits(p.val))
        [] p.id = "user_property" -> 4 + p.val
        [] OTHER -> 1

ListSize(props) == FoldLeft(LAMBDA size, p : size + SizeOf(p), 0, props)

\* The C strings of the application; the length of the others is given with them.
CStrings == Strings \ {"correlation_data", "auth_data"}

\* A property the application left out is 0 or an empty string.  Of a string
\* mqtt5_write_utf8_string writes as much as 16 bits of its strlen say.
Field(conf, id) ==
  LET val == IF id \in CStrings THEN conf[id] % LenMod ELSE conf[id]
  IN  IF conf[id] > 0 THEN <<[id |-> id, val |-> val]>> ELSE <<>>

\* The properties of `ids' that are set, in that order.
Fields(conf, ids) == FlattenSeq([i \in DOMAIN ids |-> Field(conf, ids[i])])

\* mqtt5_write_user_properties
UserProperties(conf) == [i \in DOMAIN conf.user |-> [id |-> "user_property", val |-> conf.user[i]]]

EncodeConnect(conf) ==
  Fields(conf, <<"session_expiry_interval", "receive_maximum", "topic_alias_maximum",
                 "maximum_packet_size">>)
  \o [i \in 1..2 |-> LET id == <<"request_response_info", "request_problem_info">>[i]
                     IN  [id |-> id, val |-> conf[id]]]
  \o Fields(conf, <<"auth_method", "auth_data">>) \o UserProperties(conf)

EncodeWill(conf) ==
  Fields(conf, <<"will_delay_interval", "payload_format_indicator", "message_expiry_interval",
                 "response_topic", "correlation_data", "content_type">>)
  \o UserProperties(conf)

EncodePublish(props) ==
  Fields(props, <<"payload_format_indicator", "message_expiry_interval", "topic_alias",
                  "response_topic", "correlation_data", "content_type">>)
  \o UserProperties(props)

EncodeSubscribe(props) == Fields(props, <<"subscription_identifier">>) \o UserProperties(props)

EncodeDisconnect(props) ==
  Fields(props, <<"session_expiry_interval", "reason_string", "server_reference">>)
  \o UserProperties(props)

EncodeAuth(props) ==
  Fields(props, <<"auth_method", "auth_data", "reason_string">>) \o UserProperties(props)

\* The encoder's buffer is a local of its caller.  Each value is compared with
\* the room that is left; one that does not fit is refused
\* (NOXMQTT_RC_ERROR_OVERFLOW).
Encodes(packet, props) == ListSize(props) <= BufOf[packet]

\* The identifier of a property is written before any comparison: one more
\* property behind a list that exactly fills the buffer is refused as well, but
\* its first byte has been written behind the buffer, and what becomes of the
\* caller is undefined.
Overruns(packet, props) ==
  \E n \in 0..Len(props) - 1 : ListSize(SubSeq(props, 1, n)) = BufOf[packet]

-----------------------------------------------------------------------------
(* Reading                                                                 *)

\* The values of a property among the first n, as the view collects them.
Values(props, id) ==
  LET upto[n \in 0..Len(props)] ==
        IF n = 0 THEN <<>>
        ELSE IF props[n].id = id THEN Append(upto[n - 1], props[n].val)
        ELSE upto[n - 1]
  IN  upto[Len(props)]

\* The properties that make up the declared length.  There is no such `n' when
\* one reaches beyond it.
Declared(props, length) ==
  {n \in 0..Len(props) : ListSize(SubSeq(props, 1, n)) = length}

\* The property that reaches beyond the declared length, which ends before byte
\* `end' of the packet, has a number or a length field that the read functions
\* compare in 16 bits, `(uint16_t)(*offset + length) > len', and the sum wraps:
\* the offset goes back, or the length of the view out of the buffer.
Wraps(props, length, end) ==
  \E n \in DOMAIN props :
    /\ ListSize(SubSeq(props, 1, n - 1)) < length /\ length < ListSize(SubSeq(props, 1, n))
    /\ props[n].id \in U16 \cup U32 \cup Strings \cup {"user_property"}
    /\ end + (ListSize(SubSeq(props, 1, n)) - length) >= LenMod

\* Mutant: the read functions do not compare a length with the end of the block.
ParsesReaching(props, length, room) ==
  /\ length <= room
  /\ \E n \in 0..Len(props) :
       LET read == SubSeq(props, 1, n) IN
       /\ ListSize(read) >= length
       /\ \A i \in DOMAIN read : read[i].id \in PropertyId
       /\ \A id \in PropertyId \ Repeatable : Len(Values(read, id)) <= 1
       /\ Len(Values(read, "subscription_identifier")) <= MaxSubIds

\* noxmqtt_mqtt5_parse_properties succeeds: the block is within the packet, of
\* whole properties with known identifiers, none of them twice.  Where nothing
\* `Wraps' the read functions refuse a property that reaches beyond the block;
\* where something does, this says nothing of the code.
Parses(props, length, room) ==
  /\ length <= room
  /\ \E n \in Declared(props, length) :
       LET read == SubSeq(props, 1, n) IN
       /\ \A i \in DOMAIN read : read[i].id \in PropertyId
       /\ \A id \in PropertyId \ Repeatable : Len(Values(read, id)) <= 1
       /\ Len(Values(read, "subscription_identifier")) <= MaxSubIds

\* What it returns.  User properties beyond the maximum are dropped.
View(props) ==
  [id \in {props[i].id : i \in DOMAIN props} |->
     IF id = "user_property"
     THEN SubSeq(Values(props, id), 1, Min({MaxUser, Len(Values(props, id))}))
     ELSE Values(props, id)]

ConnackForbids ==
  {"payload_format_indicator", "message_expiry_interval", "will_delay_interval", "content_type",
   "response_topic", "correlation_data", "subscription_identifier", "request_problem_info",
   "request_response_info", "topic_alias"}

PublishForbids ==
  {"session_expiry_interval", "will_delay_interval", "assigned_client_identifier",
   "server_keep_alive", "auth_method", "auth_data", "request_problem_info",
   "request_response_info", "response_information", "server_reference", "reason_string",
   "receive_maximum", "topic_alias_maximum", "maximum_qos", "retain_available",
   "maximum_packet_size", "wildcard_subscription_available", "subscription_identifiers_available",
   "shared_subscription_available"}

AuthForbids ==
  {"payload_format_indicator", "message_expiry_interval", "will_delay_interval", "content_type",
   "response_topic", "correlation_data", "subscription_identifier", "session_expiry_interval",
   "assigned_client_identifier", "server_keep_alive", "request_problem_info",
   "request_response_info", "response_information", "server_reference", "receive_maximum",
   "topic_alias_maximum", "topic_alias", "maximum_qos", "retain_available",
   "maximum_packet_size", "wildcard_subscription_available", "subscription_identifiers_available",
   "shared_subscription_available"}

AckForbids == AuthForbids \cup {"auth_method", "auth_data"}

DisconnectForbids == AckForbids \ {"session_expiry_interval", "server_reference"}

\* noxmqtt_mqtt5_validate_properties, the part by packet type
Forbidden(type) ==
  CASE type = "CONNACK" -> ConnackForbids
    [] type = "PUBLISH" -> PublishForbids
    [] type \in Acks -> AckForbids
    [] type = "DISCONNECT" -> DisconnectForbids
    [] type = "AUTH" -> AuthForbids

MustBePositive ==
  {"subscription_identifier", "receive_maximum", "topic_alias", "maximum_packet_size"}

Validates(type, view) ==
  /\ DOMAIN view \cap Forbidden(type) = {}
  /\ "auth_data" \in DOMAIN view => "auth_method" \in DOMAIN view
  /\ \A id \in DOMAIN view \cap Flags : view[id][1] <= 1
  /\ \A id \in DOMAIN view \cap MustBePositive : 0 \notin Range(view[id])

\* noxmqtt_mqtt5_is_valid_reason_code
ReasonCodes(type) ==
  CASE type = "CONNACK" ->
         {0} \cup (\h80..\h8A) \cup {\h8C, \h90, \h95, \h97, \h99, \h9A, \h9B, \h9C, \h9D, \h9F}
    [] type \in {"PUBACK", "PUBREC"} ->
         {0, \h10, \h80, \h83, \h87, \h90, \h91, \h97, \h99}
    [] type \in {"PUBREL", "PUBCOMP"} -> {0, \h92}
    [] type = "DISCONNECT" ->
         {0, 4, \h80, \h81, \h82, \h83, \h87, \h89, \h8B} \cup (\h8D..\h90)
           \cup (\h93..\hA2)
    [] type = "AUTH" -> {0, \h18, \h19}
    [] type = "SUBACK" ->
         {0, 1, 2, \h80, \h83, \h87, \h8F, \h91, \h97, \h9E, \hA1, \hA2}
    [] type = "UNSUBACK" -> {0, \h11, \h80, \h83, \h87, \h8F, \h91}

\* noxmqtt_mqtt5_are_valid_reason_codes
ValidReasons(type, codes) == Range(codes) \subseteq ReasonCodes(type)
=============================================================================
