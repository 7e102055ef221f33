# A TLA+ development of noxmqtt

noxmqtt is an MQTT 3.1.1 and 5.0 client library in C for small devices: one
protocol engine (`src/src/noxmqtt-lib/noxmqtt.c`), a codec for MQTT 5 property
lists (`noxmqtt_mqtt5.c`), one transport per platform (`src/port/`), and a
command-line client (`src/apps/noxmqtt/main.c`).  This directory models
the protocol engine: publishing and receiving over a connection that breaks,
subscriptions, topic aliases, authentication, the keepalive and reconnect timers,
the bytes of the packets, and the threads that share a client.  TLC checks small
instances; TLAPS proves, for every instance, the safety properties the passing
runs check, under the premises that section 4 names: of the outbox, the
subscriptions, the authentication, the keepalive, the threads of the transport,
the framing and the understanding of packets; and that publishing, alias
publishing and receiving implement abstract specifications.

Line numbers below are of `noxmqtt.c` unless a file is named.

## 1. Inventory

### Components, state and operations

**Outbox and acknowledged publishing** (modelled: `Outbox`).  State: `outbox[]`
(16 slots FREE, QUEUED, PUBLISH_SENT, PUBREL_SENT, each with a packet identifier,
a DUP flag and the message), `outbox_count`, `packet_ident`, the capabilities of
the broker.  Operations: `noxmqtt_publish_data`, the handlers of PUBACK, PUBREC
and PUBCOMP, `noxmqtt_outbox_pump` (from those handlers and from
`noxmqtt_process`), `noxmqtt_replay_outbox` (from the CONNACK handler).  The
application, the worker of `main.c` and the receive thread run them on one client,
without a lock.  Correct when: a message that `publish` accepted is never dropped
before the broker took it or refused it; a QoS 2 message is taken once while the
broker keeps the session; DUP is set on retransmissions only; the Receive Maximum
is kept; every accepted message is acknowledged in the end if the connection
lasts.

**POSIX transport and its threads** (modelled for TCP: `PosixTransport`).
State: `running`, `socket_fd` and the receive thread of the context, the global
`noxmqtt_last_thread`, and the client's status byte, all without a lock.
Operations: connect, send, disconnect, wait, the receive thread's loop.  Correct
when: one receive thread at a time uses the client's receive buffer; a thread
closes only the connection it served; memory is freed when no thread uses it; a
wait returns; a lost connection is noticed; a disconnect is final.

**Session lifecycle** (modelled: `Session`; the parts other components see, in
those).  State: the status flags, `keepalive`, `last_tx_ms`, `last_rx_ms`,
`last_pingreq_ms`, `next_reconnect_ms`, over a 32-bit millisecond clock.
Operations: `noxmqtt_connect`, the handlers of CONNACK, PINGRESP and DISCONNECT,
`noxmqtt_disconnect_ex`, `noxmqtt_transport_notify_disconnected`,
`noxmqtt_process`, the last called by two threads (main.c:852, posix.c:642 and
654).  Correct when: the connection is never idle for longer than the keepalive;
it is given up only when a PINGREQ was not answered; a silent broker is noticed; a
scheduled reconnect happens in time; a client that should reconnect always has an
attempt ahead of it.

**Subscriptions** (modelled: `Subscriptions`).  State: the cache of 16
subscriptions and its count, the capabilities of the broker.  Operations:
`noxmqtt_subscribe`, `noxmqtt_unsubscribe`, the handlers of SUBACK and UNSUBACK,
`noxmqtt_resubscribe_all` (from the CONNACK handler).  Correct when: the broker
holds what the cache holds, after every reconnect; no topic has two slots; what
was unsubscribed does not come back.

**Incoming messages** (modelled: `Inbound`).  State: the incoming alias table.
Operations: `noxmqtt_handler_publish`, which sends PUBACK or PUBREC before it
reports the message, `noxmqtt_handler_pubrel`.  Correct when: the application is
told of every message that was acknowledged, a message is reported under its
topic, and again only when an acknowledgement was lost.

**Topic aliases** (modelled: `TopicAlias` for publishing, `Inbound` for
receiving).  State: the tables of the two directions,
`next_publish_topic_alias`, the broker's Topic Alias Maximum.  Operations: the
alias part of `noxmqtt_publish_internal`, the clearing of the tables.  Correct
when: an alias means the same topic on both sides.

**Receive buffer and framing** (modelled: `Codec`).  State: `rcv_buf`,
`rcv_offset`.  `noxmqtt_transport_rcv_func` cuts a byte stream into packets.
Correct when: the packets do not depend on how the stream was cut into reads.

**MQTT 5 properties and reason codes** (modelled: `Mqtt5`).  Pure functions: six
encoders, a parser, a validation by packet type, the reason codes.  Correct
when: every legal packet is accepted, no malformed one is, and what one client
encodes another reads.

**Enhanced authentication** (modelled: `Auth`).  State: the active method,
`auth_in_progress`.  Operations: `noxmqtt_connect`, `noxmqtt_auth`, the handlers
of CONNACK and AUTH, every end of a connection.  Correct when: client and broker
agree on the method and on whose turn it is, and an exchange ends.

**Command-line application** (its connect, disconnect, worker and shutdown are in
`PosixTransport`).  Parsing, printing and the completion of one-shot commands are
not modelled.

**Windows and ESP-IDF transports**, **TLS client identity**, **debug output and
string helpers**: not modelled, see section 5.

### How they interact

The application calls the library; the library calls the transport to connect,
send and disconnect; the transport's receive thread calls back
`noxmqtt_transport_rcv_func`, `noxmqtt_transport_notify_disconnected` and
`noxmqtt_process`; handlers call the application's event callback, which may
call the library again.  The worker of the command-line application calls
`noxmqtt_process` too.  All share one `noxmqtt_client_t`.

### What is hard

Threads without locks over one context; a connection lost between a send and its
acknowledgement; late acknowledgements; a 16-bit identifier and a 32-bit clock
that wrap round; failures in the middle of a loop over the slots; limits (slots,
Receive Maximum, packet size, aliases, the receive buffer); state that is changed
before the packet that depends on it is sent; retries after a failed reconnect.
`PROJECT.json` lists each hazard at its line with the properties that cover it, or
the reason why none does.

## 2. Modules

| module | what it is |
| --- | --- |
| `ReliableDelivery` | what acknowledged messages promise: no packets, no slots |
| `Outbox` | the publish flow, the broker and a link that breaks |
| `MCOutbox` | instances of `Outbox` for TLC |
| `OutboxProofs` | theorems about `Outbox`, one that it refines `ReliableDelivery` |
| `PosixTransport` | application, worker and receive threads over the shared fields |
| `PosixTransportProofs` | theorems about `PosixTransport` |
| `Session` | connect, keepalive, time-out and reconnect over a clock that wraps |
| `SessionProofs` | theorems about `Session` |
| `Connection` | the connection `Subscriptions`, `Inbound` and `Auth` build on |
| `Subscriptions`, `MCSubscriptions` | the subscription cache and the broker's; its instance |
| `SubscriptionsProofs` | theorems about `Subscriptions` |
| `Inbound` | messages from the broker, incoming aliases |
| `InboundProofs` | theorems about `Inbound`, one that it refines `ReliableDelivery` |
| `TopicChannel` | what publishing with aliases promises: topics arrive in order |
| `TopicAlias` | the outgoing alias table and what the broker makes of it |
| `TopicAliasProofs` | theorems about `TopicAlias`, one that it refines `TopicChannel` |
| `Mqtt5` | property lists and reason codes as functions |
| `Codec`, `MCCodec` | the receive buffer over bytes, what handlers accept; its packets |
| `CodecProofs` | theorems about `Codec` and the encoders of `Mqtt5` |
| `Auth` | the method and the exchange of AUTH packets |
| `AuthProofs` | theorems about `Auth` |

`PROJECT.json` maps every definition to the lines it models.  Definitions named
as mutants (each has a comment starting "Mutant:") are deliberately wrong
variants, used to confirm that a property can fail; no specification uses them.

### Outbox

One action per outcome of `noxmqtt_publish_data` (rejected, QoS 0, queued, sent,
failed), one per acknowledgement handler, one per step of the pump and of the
replay.  The threads are the application, the worker and the receive thread.
`at[t]` is the function of the client thread t runs: "out" of it, in a "call" of
the application, in the "pump", at its "mark", in the event "callback" of a
handler, or in the "replay" after a CONNACK.  `scan[t]` are the loop variables of
the pump or replay: the next slot, and the count and the limit of messages in
flight, which the pump reads once (3106) and then keeps.  The pump takes one step
to send a message (`PumpSend`) and one to mark its slot (`PumpMark`), so between
any two of them the link breaks, the broker answers, the other threads run.
`Process(t)` is a call of `noxmqtt_process` by the worker or the receive thread, as
far as the outbox is concerned: its pump.

Nothing in the code keeps these threads apart.  A step of one while another is
inside the client is an overlap (`Works`); `overlaps` counts them up to
`MaxOverlaps`.  Two pumps may find one slot QUEUED and send it twice without DUP, a
publish may take a place in the window that a pump has counted as its own, a
slot may be freed and filled again between a pump's send and its mark.
`Undisturbed` says that no thread has come into another's way so far.  It is the
premise of `OutboxConsistent`, `HeldUnlessReused`, `ReleasedIsTaken`,
`UnmarkedIsFirst`, `WindowRespected`, `Delivers` and `EventuallyCompleted`: after an
overlap the code promises none of these, and the hazards in `PROJECT.json` say
what happens instead.  (`UnmarkedIsFirst` without the premise is false in the
states of the run `outbox_safety`; `WindowRespected` without it needs three
messages: the pump counts, the application publishes, the pump sends.)  Only
`TypeOK` is claimed of every behaviour.

The link is "down", "connecting", "up" or "broken"; on a broken one sends fail
and what is under way may still arrive.  CONNECT and CONNACK are one exchange,
`RecvConnack`; a refusing CONNACK changes nothing here.
`noxmqtt_disconnect_ex`, `noxmqtt_transport_notify_disconnected` and
`noxmqtt_handler_disconnect_packet` leave the same state for the outbox and are
one action, `Disconnect`.  Subscribe, unsubscribe and resubscribe appear as
`TakeIdent`, which takes identifiers from the shared counter.  The broker keeps
the QoS 2 identifiers it has taken, may refuse a message, may forget the session
between two connections, and closes the connection on a QoS 1 or 2 PUBLISH with
identifier 0.  The application is taken to pass `dup = 0`.

History: `status` (what `publish` returned and whether it was acknowledged),
`received`, `refused`, `session_lost`, and `reused`: a publish took identifier 0
or one still in use, which the code does not prevent (1608).  Properties that
need distinct identifiers are stated for `~reused`.

### PosixTransport

Threads: `Main` (the application), `Worker` (polls `noxmqtt_process`) and one
receive thread per successful `noxmqtt_transport_connect`.  `todo[a]` is what is
left of the call thread `a` is in, as a stack of labels; each label is one
action that reads or writes the shared fields once.  Reading `socket_fd` and the
system call on it are one step, except for `recv`, whose descriptor is captured
in `rx` before it blocks.  The status flags are bit-fields of one byte: a
function that sets all of them stores the byte, one that changes
`ping_outstanding` alone loads and stores it, and loses a store in between
(`overwritten`).

Whether the client reconnects by itself (`auto`) is chosen at the start.  In the
passing run an application without `auto` calls `noxmqtt_transport_wait` after each
disconnect (`Waits`).  One with `auto` connects once, leaves the rest to the
library (`DisconnectsWithAuto` is FALSE) and in the end does what `main()` does
(`EndsWithAuto` is TRUE): disconnect, wait, stop and join the worker, deinit
(main.c:1487), with automatic reconnects on, as they are by default (main.c:335).
A reconnect of the worker may then start a receive thread after the application
has disconnected (`revived`), and deinit frees the memory under it; the
properties name that case.  The interactive disconnect of the application
(main.c:1301) does not wait; with it, or with a disconnect under `auto` before the
end, the code has the races that the hazards list names.  `DelayPasses` assumes
that the reconnect delay (10 s by default) is longer than any thread needs to
reach its next blocking call.

### Session

`noxmqtt_process` reads the clock, pumps, decides, sends PINGREQ and then marks it
outstanding: it is a step up to each of these points, between which time passes,
the handlers of the receive thread run, and so does the other caller.  `Callers`
are the worker and the receive thread; `pc[t]` and `pnow[t]` are the place of each
in the function and its reading of the clock, and nothing orders them.  A handler
is one step.  The clock counts modulo `ClockMod`; `Elapsed` is the code's unsigned
subtraction, and `last_activity` and `ReconnectDue` are its plain comparisons.  A
stamp that is read only while a flag is set is one variable with the flag.
`AutoReconnect` stands for `disable_auto_reconnect = 0`; the address is set from
the first connect on.  Lost updates of the status byte are left to
`PosixTransport`, the contents of the pump to `Outbox`.

Two bounds say how time relates to the threads: at most `MaxLag` ticks pass between
two calls of the worker, at most `MaxCall` while a thread is in one call.  A
blocking connect inside `Reconnect` takes no time.  Histories: `missed`, a PINGRESP
or a new connection came before its PINGREQ was marked; `crossed`, the callers
whose reading of the clock is older than a mark the other one has made since.

### Connection

A part of the next three, not a specification: the `connected` flag, the CONNACK
handler that may be in its event callback or in `noxmqtt_resubscribe_all`, a link
that is "down", "connecting", "up" or "broken", and the packets under way both
ways.  Its actions change these variables only; the modules that extend it
conjoin them with their own changes.  `ConnDisconnect` is
`noxmqtt_disconnect_ex`, `noxmqtt_transport_notify_disconnected` and
`noxmqtt_handler_disconnect_packet`, which leave the same state behind; what was
under way is lost, and the broker may have read it or not.

### Subscriptions

A call of `noxmqtt_subscribe` or `noxmqtt_unsubscribe` is a step for its checks,
one per topic (`EncodeTopic` caches or removes it, then encodes it, which may
fail), and one for the packet (`SendCall`).  `Fails` is every error return: what
was cached or removed before it stays so.  `Resubscribe` is one slot of
`noxmqtt_resubscribe_all`, which calls the same subscribe; its first failure ends
the loop.  A call of another thread while that loop runs is not modelled.
`RecvSuback` changes nothing, as in the code.  The broker may refuse topics,
forget the session between connections, and offer less on the next one.

History: `astray`, the topics on which cache and broker may differ because a
call failed, the loop gave up, the broker refused, or a packet was lost with a
connection whose session went on; `wanted` and `confirmed`, for unsubscription.

### Inbound

`noxmqtt_handler_publish` is two steps.  `RecvPublish` resolves the alias and
writes PUBACK or PUBREC (760 to 772); a write that fails is reported as an error
and the event is sent anyway.  `Report` is the event callback (778).  `reporting`
is what the handler holds in between: the message, its topic, and where that topic
is kept.  Between the two steps the broker may complete the message, the link may
break, another thread may disconnect: that frees the aliases, and if the topic
came from the table the application is handed freed memory (`held` is "freed").  A
crash in between loses a message that is acknowledged; crashes are not modelled,
neither is a connect by another thread while a handler runs.  `RecvBadPublish` is
a PUBLISH with an alias the client has no topic for or that is above its capacity:
neither answered nor reported (`noxmqtt_connect` may announce a larger maximum
than the table has).  The client keeps no identifiers of QoS 2 messages; it is the
broker that sends again, on a resumed session, what is not acknowledged.

Messages are the broker's, so `ReliableDelivery` is used the other way round:
"pending" is what the broker has published, `received` counts the events,
including the one the handler that runs will send (`Told`).  That this event does
come is the second half of `EventuallyAcknowledged`.  Since the client filters no
duplicates, the promise is the one for QoS 1.

### TopicAlias

`PublishInternal` is `noxmqtt_publish_internal`: the alias is chosen and the table
changed before the packet is encoded and sent, and `fits` says whether that
succeeds.  QoS 1 messages stay in the outbox and are encoded again, with the
tables of that moment, by the pump and the replay.  The broker learns from the
packets it reads, and disconnects on an alias it does not know.  `unsent` is the
history of aliases stored for a packet that was then not sent.  Messages are sent
by one thread at a time: the pump of another thread between the store of an
alias and the packet that tells of it is not modelled.

### Mqtt5 and Codec

A property is its identifier and a number; a string or binary value is its
length.  Encoders list the properties they write in the code's order.  A C string
is written with its length cut to 16 bits (1376 of `noxmqtt_mqtt5.c`; `CStrings`,
`Field`).  A list that does not fit its buffer is refused, but an encoder writes
the identifier of a property before it compares (89, 117, 1439): behind a list
that exactly fills the buffer it writes one byte too many, and what the caller
then does is undefined (`Overruns`).  `Parses` and `Validates` are the parser and
`noxmqtt_mqtt5_validate_properties`; `View` is what the handler gets.  `Codec`
works on bytes: header, length digits and body.  A declared length may be
anything, so a string may reach beyond its block and a number may be cut.  The
read functions compare `(uint16_t)(*offset + length) > len` (1514, 1535, 1571,
1605): where that sum does not wrap, such a packet is refused; where it does
(`Wraps`) the parser goes back, or hands on a view of bytes outside the packet.
What a handler makes of a packet it reads in this way (`Misread`) is not followed:
it may refuse it, accept it with any view (`Accepts`), or read the same properties
for ever (`Hang`), as line 519 does on the PUBLISH `30 09 00 01 74 05 26 00 00 FF
FB`.  The `fill` of a body stands for whatever bytes it has, which matters when
the decoder looks at stale ones.  A variable-length digit has `Base` values (128
in the code), so that lengths of two digits fit in a small buffer.

`Receive(n)` is one call of `noxmqtt_transport_rcv_func`: the chunk is appended,
the loop cuts packets, the rest is moved to the front.  `heap` is the value of a
byte that nobody has written.  DISCONNECT and AUTH without a property block are
validated from a view that was never initialised: both answers are possible.

`packet_len` is a `uint16_t`, so it counts modulo `LenMod` (2^16).  A remaining
length of 65536 or more is refused (`Refuses`), but one of 65532 makes a packet of
65536 bytes: `packet_len` wraps round to 0, the loop of lines 321 to 370 takes a
packet of no bytes again and again, and the receive thread is `stuck`.  It takes a
broker that sends such a packet to a client whose CONNECT did not announce a
smaller maximum.  The properties are stated for streams without such packets
(`Sized`: every packet is shorter than `LenMod` and none is `Misread`).  The topic
of a PUBLISH is one byte, so the same sum in `noxmqtt.c` (692) is not modelled.

`Packet` is the set of packets a broker may send, `Sendable` what each of them
looks like: the number of reason codes of its type, a property block only behind
them, lengths that can be encoded.  Wrong codes, wrong, unknown or repeated
properties, wrong block lengths, and strings and numbers that end behind their
block are all among them.

### Auth

`noxmqtt_auth` is two steps, its checks and marks (`Auth`) and the write
(`Write`, `WriteFails`), because the worker may lose the connection and reconnect
between them.  The application answers challenges (`Answer`) and may call
unasked (`Call`).  It can do neither before the CONNACK: a broker that sends a
challenge first, as MQTT 5 allows, never gets an answer (2299 wants a connected
client), and `EventuallySettled` is about connected clients only.
The broker keeps to the protocol and disconnects on an AUTH
out of turn or of another method.  Histories name the cases in which the client
is out of step: `unasked`, `unsent`, `stray`.

## 3. Runs

### outbox_safety (about 2.7 million states)

Two messages, QoS 1 and 2; two slots; identifiers modulo 3; two connections; two
identifiers taken by a subscribe; one overlap of threads; brokers without limits,
with a Receive Maximum of 1, with a maximum QoS of 1, that may refuse.  With three
identifiers, identifier 0 is reached and identifiers come round while still in
use; two messages fill the outbox and slots are used again.  Two connections make
every replay happen after every partial first attempt.  One overlap is enough to
tell the properties' premise from TRUE.
 * `TypeOK`.
 * `OutboxConsistent`: the count is exact, identifiers in use differ, a FREE slot
   is blank.
 * `HeldUnlessReused`: an accepted message is in the outbox until it is
   acknowledged.
 * `ReleasedIsTaken`: only a QoS 2 message the broker has is switched to PUBREL,
   though `noxmqtt_handler_pubrec` checks neither the state nor the QoS of the
   slot.
 * `UnmarkedIsFirst`: a PUBLISH without DUP is the first of its message.
 * `WindowRespected`: publish and pump keep the Receive Maximum.

All but `TypeOK` are about clients whose threads have not met (`Undisturbed`).

### outbox_delivery (about 260 000 states)

A QoS 0, a QoS 2 and a QoS 1 message, a window of 1, one overlap, under
`FairSpec`.  `Delivers` is refinement: every step of `Outbox` before an overlap is
a step of `ReliableDelivery` or changes nothing it knows.  `EventuallyCompleted`:
once a connection lasts, and if the threads do not meet, every accepted message is
acknowledged.

Fairness: weak, on a call that returns (`AppReturn`), on a handler that runs
(`Pump`, `Resume`, `Replay`), on the worker's polling (`Process`) and on a broker
that reads its input; strong, on reading an acknowledgement (`RecvAck`), since the
receive thread can be in a pump of its own again and again, but reads before
each.  There is none on publishing, connecting or breaking; `EventuallyCompleted`
is stated for connections that last.

### outbox_poison (violation)

`CapacityIsUsed` is the pump's comment "Sends queued outbox messages when capacity
is available."  It fails: a message too large to encode stops the pump at its
slot for good, and the messages behind it wait although they could be sent.  Three
messages of QoS 1, one of them too large.

### posix_transport (about 450 000 states)

Two sockets, so that an old and a new connection, or an automatic reconnect,
meet.  `TypeOK`, `OneReceiver`, `FreedWhenQuiet`, `ClosesOnlyItsOwn`,
`WaitReturns`, `LossIsNoticed`.  The application ends as `main()` does, with
automatic reconnects or without.  `FreedWhenQuiet` says that when the client is
freed the worker is out of it, and so is every receive thread unless a reconnect
has `revived` one after the disconnect; `WaitReturns` has the same exception.
`LossIsNoticed` does not claim anything once a store of the status byte was lost
(`overwritten`, for good), so it says little of the time after such a loss.

Fairness: a thread inside a call goes on (`recv` returns at the
latest by SO_RCVTIMEO); none on starting calls, on the worker or on the delay.
Deadlock is not checked: after `noxmqtt_deinit`, or when all sockets are used,
there is nothing to do.

### posix_undone (violation)

`DisconnectIsFinal`: the receive thread reports the disconnect the application
asked for as a lost connection, and with automatic reconnects enabled, the
default, the client connects again.

### session_keepalive (about 600 000 states)

A clock of 7 ticks, a keepalive of 2, a reconnect delay of 2, at most two ticks
between two calls of the worker (`MaxLag`) and one in a call (`MaxCall`).  The
clock is longer than the keepalive and the time two polls and two calls take, as
2^32 ms is, and so short that every stamp is met on either side of the wrap.  With
polls two ticks apart, as the 100 ms of main.c:853 are 100 ticks, a poll can step
over a time the clock shows.
 * `KeptAlive`: a connected client is not idle, in both directions, for longer
   than the keepalive, a poll and two calls.  The premise that neither direction
   has been still for a whole round of the clock (49 days) is needed: a stamp that
   old looks recent.
 * `TimeoutIsReal`: process gives a connection up only if its PINGREQ was not
   answered for the keepalive, but for two races the code has: its PINGRESP was
   handled, or the connection replaced, before a caller had marked the PINGREQ
   (`missed`, 2430); or the other caller has marked one since this one read the
   clock, and a stamp later than the reading makes the unsigned difference of 2421
   huge (`crossed`).  Without either exception the run violates it.
 * `ReconnectsInTime`: a scheduled reconnect is attempted, or no longer needed,
   within a poll and a call of being due, unless it is due in the last ticks
   before the clock wraps: those a poll may step over, and `now >=
   next_reconnect_ms` (2399) is then false for a round.  Without that exception
   the run violates it.
 * `SilenceIsNoticed`: a silent broker is noticed, unless the client itself keeps
   sending.

Fairness: time passes (strong, as a caller that is late holds the clock), the
worker polls, the receive thread ends a call it is in and
reports a loss.  None on the application's other calls or on the network.

### session_givesup (violation)

`NeverGivesUp`: a reconnect whose attempt fails at once is not repeated.

### alias_topics

Three topics for a table of two aliases, so that the turn comes round and topics
lose their alias; brokers that allow none, one and more aliases than the table
has; aliases of the application up to 3, one too many for the table; two
connections, so that the outbox replays a message under another maximum; a
window of 1, so that messages are pumped later than they were published.
 * `TablesAgree`: an alias the client would use in place of a topic means that
   topic to the broker once it has read what is under way, unless it is `unsent`.
 * `OneAliasPerTopic`: a topic has one alias, which `Find` relies on.
 * `AliasesAllowed`: no packet has an alias above this broker's maximum.
 * `CarriesTopics`: refinement of `TopicChannel`.

### subscriptions_cache

Three topics for two slots, among them a wildcard of a shared subscription; calls
with one and two topics, the same topic at two QoS; a broker that allows all and
one that does not; three connections: one to subscribe on, one that loses the
session, one after it.
 * `CacheConsistent`: the count is exact, no topic has two slots.
 * `InStep`: between two handlers, the broker holds or will hold what the cache
   holds, for every topic that is not `astray`.
 * `UnsubscribedStays`: a confirmed unsubscription is not undone by a reconnect.
   The mutant that breaks it is the one that breaks `CacheConsistent`.
 * `EventuallySubscribed`: while the connection lasts, what is cached is
   subscribed in the end, if it does not go astray.

Fairness: weak, on a call or handler that runs, on reading packets, and on a
broker that reads its input.

### inbound_receiving (about 1.1 million states)

One message, QoS 1 or 2, besides QoS 0 messages on the same wire; two topics; an
alias table of 1 while 2 are announced; three connections, so that a message is
sent a second time and its second acknowledgement is lost too.  Messages share
nothing but the alias table, which QoS 0 messages exercise; the proofs cover
more of them.
 * `RightTopic`: a message is reported under the topic it was published under,
   unless that topic was freed by another thread's disconnect before the event.
 * `TwiceOnlyIfLost`: a second report has a lost acknowledgement behind it.
 * `AtLeastOnce`: refinement of `ReliableDelivery`.
 * `EventuallyAcknowledged`: in a connection that lasts every message is
   acknowledged, but for a PUBLISH the client finds bad (`rejected`), and a message
   that is acknowledged is reported.  A bad PUBLISH is not answered at all; the
   exception is that hazard, which no property here says should not be.

Fairness: as above, and on a broker that sends again what it has to.

### codec (about 63 000 states)

`MCCodec` has the scenarios.  Every packet of a catalogue alone: each type with
each reason code, each property in each type with a legal and an illegal value,
each property twice, wrong property lengths, 411 packets whose last string or
number ends behind its block (201 of them so far that the 16-bit sum wraps), and
everything the six encoders produce from subsets of their fields, sent back to a
client.  Streams of two or three packets over two connections, cut by recv in
every way.  The buffer of 36 bytes takes every packet but one, with chunks of 10:
overflow and left-over bytes both happen.  `LenMod` is 64, and one scenario
(`WholeWraps`) has a packet of exactly that size, on which the receive thread gets
stuck.
 * `StreamIntact`: the packets handled, the buffer and the wire are together the
   stream, however it is cut, no whole packet waits in the buffer, and the loop
   and the handlers end.  The client loses step in three cases only, which the
   property names: a length field cut with stale bytes behind it, a packet too big
   to wait in the buffer, bytes of the previous connection.  It is about `Sized`
   streams; a packet that is not may hang the client.
 * `Understood`, again of `Sized` streams: nothing malformed is accepted,
   everything legal is, and the properties another client gave are seen as given.
   The client refuses three kinds of legal packets, which `BeyondLimits` names: a
   CONNACK whose remaining length takes two digits (128 bytes or more, 404), more
   subscription identifiers than the view holds, and a DISCONNECT or AUTH with a
   reason code and no property block, which it validates from a view never written
   (1135, 1205) and may accept or not.  What is legal is stated from the tables of
   the MQTT 5 standard, not from the code.

`MCCodec` assumes `MeantIsHeld`, which TLC evaluates: what each packet of the
catalogue is meant to carry is what its property list holds, also after a broker
has taken topic alias and will delay out of it.

### auth_exchange (about 20 000 states)

Two methods, three connections, three calls that no challenge asked for, two
challenges in an exchange.
 * `ExchangeAgrees`: in a connection that stands, the client has the broker's
   method; a broker that waits has a client that knows or is about to; a client
   that waits has an answer under way or owed, unless its AUTH was `unsent`.
 * `InTurnUnlessTold`: the broker never ends a connection because of an AUTH,
   unless the application spoke `unasked` or without a method agreed, or a
   reconnect made the packet `stray`.
 * `EventuallySettled`: every exchange of a connected client ends, unless its first
   AUTH was `unsent`.  One the broker starts before its CONNACK never does, since
   the client cannot answer it (2299).

Fairness: the receive thread, the return of a call, the broker, and an
application that answers what it was asked; none on connecting or breaking.

Deadlock is not checked where calls, connections or messages are bounded: once
they are used up there is nothing left to do.

## 4. Proofs

`OutboxProofs` proves for all messages, slots, identifier widths, brokers and
numbers of overlaps, from `OutboxAssumption` alone, first `TypeCorrect`, `Spec =>
[]TypeOK`: the types (`TypesInv`) hold whatever the threads do to each other.
`WireInv` in it is the type of the packets on the wire, with the fact that a
PUBLISH carries a message: the broker's step looks into packets the client sent.
The rest is about threads that do not meet (`Undisturbed`).  A step keeps
`overlaps` only if its thread works alone, and that lemma turns the premise into
the guard that the code does not have:
 * `OutboxIsConsistent`: `Spec => []OutboxConsistent`
 * `HeldUntilAcknowledged`: `Spec => []HeldUnlessReused`
 * `ReleasedOnlyIfTaken`: `Spec => []ReleasedIsTaken`
 * `UnmarkedPublishIsFirst`: `Spec => []UnmarkedIsFirst`
 * `ReceiveMaximumKept`: `Spec => WindowRespected`
 * `PublishingDelivers`: `Spec /\ [](~reused) => Delivers`, which refines
   `ReliableDelivery` as long as threads have not met and identifiers not been
   reused.

The inductive invariant is `OutboxFlowInv`: `TypesInv`, and if `Undisturbed` also
`ClientInv` and `LoopInv`, and if not `reused` also `DeliveryInv`.  `ClientInv` is
`OutboxConsistent`, the types of the client's variables and `HeldUnlessReused`.
None of these is inductive alone: that removing the item of an acknowledged
identifier completes no other message needs that identifiers in use differ; that a
stored message is new to the outbox needs that its identifier was not in use; that
the count stays exact needs that a reset slot was in use and is one slot.  The
operations on slots (store, remove, update in place) have a lemma each; every
action that changes the outbox is one of them with a frame.  `LoopInv` is about
the loops: the count and the limit the pump remembers are still those of the
slots, and the slot it has sent and not marked is still QUEUED with the message it
sent.  `WindowRespected` and `UnmarkedIsFirst` rest on it.  `DeliveryInv` brings
in the broker and ties what is under way to the slots: a PUBLISH on the wire
carries the message of the slot with its identifier, or one the broker is known to
have; an acknowledgement is about something the broker took or refused; PUBREL is
about a message it took.  All of that holds until an identifier is taken while in
use (`reused`), after which an acknowledgement can be for another message: the
counter wraps after 65535 packets and the code does not look whether an identifier
is free (1608).  The hypothesis of `PublishingDelivers` holds at least until the
counter wraps for the first time, and from then on as long as no publish meets 0
or an identifier in use.

`TopicAliasProofs`, from `TopicAliasAssumption`: `TypeCorrect`, `AliasesDiffer`,
`OnlyAllowedAliases`, `TablesAlwaysAgree` and `TopicsAreCarried`, the refinement
of `TopicChannel`.  The inductive invariant has three parts.  `TableInv` is the
shape of the client's table: one alias per topic, none above the limit, blank
while connecting (the limit changes with the CONNACK).  `ClientInv` has the rest
of the client's types.  `WireInv` says what the broker will know: `Knows(a, t, n)`
holds when after n more packets alias a means t to it, because one of them tells
so and no later one of the n tells otherwise, or because it knows already and
none does.  An alias in the table that is not `unsent` is known after all
packets; a packet that uses an alias instead of its topic finds it known when it
is its turn.  A send adds one packet (`KnowsAfterSend`), the broker takes one
away (`KnowsAfterRead`).  These two lemmas carry the proof.

`InboundProofs`, from `InboundAssumption` and `ConnectionAssumption`:
`TypeCorrect`, `TopicsAreRight`, `RepeatsAreExplained` and `ReceivingDelivers`,
the refinement of `ReliableDelivery`.  `TopicInv` is the argument above in the
other direction.  `MsgInv` says of each message: a PUBLISH of it is under way at
most once, and then it is neither acknowledged nor to be sent again; an
acknowledgement under way was preceded by an event, or its handler is about to
send it; PUBREL and PUBCOMP are about messages the broker has released; what was
reported and not lost is acknowledged or about to be.  `TwiceOnlyIfLost` alone is
not inductive: a second PUBLISH must not come while the first acknowledgement is
still under way.

`SubscriptionsProofs`, from `SubscriptionsAssumption`:
`CacheStaysConsistent`, `BrokerFollowsCache` (`[]InStep`) and
`NoGhostSubscription` (`[]UnsubscribedStays`).  The invariant of the first adds to
`CacheConsistent` the types of the cache, of the call under way and of the slots
that resubscribe_all has yet to look at.  For the second, `WillHold` is what the
broker holds once it has read the packets under way; `BrokerInStep` says it is
what the cache holds, but for topics that are `astray`, that a call has cached
and not sent yet, or that resubscribe_all has yet to reach.  `InStep` is silent
while a handler runs, so it is not inductive; `BrokerInStep` covers the middle
of a loop as well.  For the third, `StaysInv` says of a confirmed topic that it
is in no slot, in no SUBSCRIBE under way and in no call, and not at the broker.

`SessionProofs`, from `SessionAssumption`: `TypeCorrect`, `KeepaliveIsKept`
(`[]KeptAlive`), `TimeoutsAreReal` (`TimeoutIsReal`) and `ReconnectsAreInTime`
(`[]ReconnectsInTime`), for clocks of any width and two callers of process that
nothing orders.  `SessionInv` says that each stamp shows its true age modulo
`ClockMod` (`Stamped`); that a PINGREQ marked, or about to be, is unanswered or
was `missed` (`PingAnswered`); that the reading of the clock a caller works with
is at most as old as its call, and the mark of a PINGREQ no later than it unless
the caller was `crossed` (`Polling`); that the connection has been idle for less
than the keepalive and the time since the worker last looked (`WellKept`); and
that a reconnect is ahead of the clock by at most its delay, or late by at most
the time since the worker last looked (`Scheduled`).  Everything else is
arithmetic of differences modulo `ClockMod`, in lemmas of their own.  A keepalive
so long that with a poll and two calls it fills the clock would make `KeptAlive`
empty: its premise needs ages below `ClockMod`.  65535 s are far from the 49 days
of 2^32 ms.

`AuthProofs`, from `AuthAssumption` and `ConnectionAssumption`: `TypeCorrect`,
`PeersAgree` (`[]ExchangeAgrees`) and `BrokerHasNoQuarrel`
(`[]InTurnUnlessTold`).  The heart of `AuthInv` is `OneAuth`: in a connection no
reconnect has overtaken and no unasked call has disturbed, there is one AUTH,
prepared, on its way to the broker, on its way to the client or reported, and it
belongs to the side whose turn it is.  `LinkInv` and `MethodInv` say what a CONNECT
or CONNACK under way has to do with the state of both sides; `AskedInv` and
`OwedInv` that whoever waits is owed an answer, and are what `ExchangeAgrees`
follows from.

`PosixTransportProofs`, for any number of connections.  `TypeCorrect` (`[]TypeOK`)
needs `TransportAssumption` only.  `todo` is a stack of labels, and its type is
the shape of the code: `WellShaped` says that a label follows another only as it
does in the functions (`After`), so that what a thread will do is known from where
it is.  `Counted` says that there is a thread left for every connect that is about
to create one.  `WorkerIsJoined` needs no more either: in any application, when
the client is freed the worker is out of it.  The others are about an application
that waits after its disconnects (`Waits`):
 * `ReceiversDoNotMeet`: `Spec => [](Left => OneReceiver)`, where `Left` says that
   the client has no automatic reconnects or is never disconnected while it has
   them
 * `FreedAtRest`: `Spec => [](~auto => FreedWhenQuiet)`.  With automatic
   reconnects the part about the worker is `WorkerIsJoined`, and the part about
   the receive thread is checked by the run only, with its exception `revived`.
 * `ReceiversCloseTheirOwn`: `Spec => ClosesOnlyItsOwn`, and
 * `ManualDisconnectIsFinal`: `Spec => DisconnectIsFinal`, for an application that
   does not disconnect a client with automatic reconnects, not at its end either
   (`~DisconnectsWithAuto`, `~EndsWithAuto`).  The run `posix_undone` violates
   `DisconnectIsFinal` with an automatic reconnect after a disconnect; the theorem
   shows that there is no other way.

`OneReceiver` is far from inductive: that a new receive thread finds no other
alive depends on who may connect, which depends on the flags and on what every
thread is about to do.  `TransportInv` adds to the types `SingleInv` (a receiver
that is alive is the last one created, and reads `socket_fd` if that is set;
nobody is in a connect while one is alive), `DueInv` (a reconnect falls due only
when no thread is in a call, which is the assumption on the delay), `ManualInv`
(without automatic reconnects only the application connects) and `AutoInv` (with
them, no socket but `socket_fd` is open, it is closed before the loss is
announced, and a client never believes itself connected and waiting to reconnect
at once).  `FreedAtRest` adds `QuietInv`, the order wait, stop the worker, join
it, deinit, free, and what has ended by each of these steps.

`CodecProofs`, from `CodecAssumption`, `PacketAssumption` and `Mqtt5Assumption`,
for every base of the length digits, every size of the buffer, of the chunks and
of `packet_len`, every set of packets and every stream of them:
 * `TypeCorrect`: `Spec => []TypeOK`
 * `StreamStaysIntact`: `Spec => []StreamIntact`, which has the premise `Sized`
 * `PacketsUnderstood`: `Spec => []Understood`, with the same premise, supposing
   `MeantIsHeld`
 * `EncodersWriteAll`: for any configuration, each of the six encoders writes the
   properties that are set, each once, and the user properties in their order, if
   its C strings are shorter than `LenMod`.

The induction is `Inv`, the types with `Following` while the client is in step.
`StreamIntact` says that packets handled, buffer and wire are the stream; that is
not inductive, because the decoder also looks at bytes behind the ones received.
`Following` gives the place: the buffer holds the bytes of the stream from the
`Start` of the first packet not handled (`Holds`), fewer than that packet has,
and what was handled are the packets before it, each with an answer its handler
can give (`Told`).  One step of the loop is a lemma about a buffer that holds the
stream from some packet on (`AtPacket`): a packet that is there whole is taken
with its true length; otherwise the loop ends, or refuses a length field
whose later bytes are stale, which is the case `InsideLength`.  `LoopFollows` puts
the steps together; that the loop and the handlers end uses `Sized`.

`PacketsUnderstood` follows from `Told` and from what the handlers' checks say
about a packet.  `Values` of a list is characterised by `Collected`: its
elements are the values of the properties with that identifier, two of
them exactly if two properties have it.  With that, `ReadsProperties` and
`WellListed`, the part of `WellFormed` about the properties, are equivalent within
the client's limits (`ReadIsWellListed`, `WellListedIsRead`), and each handler's
other checks are compared with the tables of the standard one type at a time
(`AcceptedIsWellFormed`, `LegalIsAccepted`).  `MeantIsHeld` is about the ghost
`meant` only: without it, `Understood` would compare the view with whatever the
ghost says.  For a list that one of the encoders wrote, `EncodersWriteAll` shows
what has to be meant; for the catalogue TLC checks it.

The modules on which the theorems rest declare no RECURSIVE operator.  `Codec` and
`Mqtt5` have recursive functions (`Offsets`, `Values`, `FlattenSeq`).  The
induction theorems of the library cannot be used with the installed provers, so
facts about these functions are proved from the least number at which they would
fail (`MinIs`, from `WFMin`), and so is that the functions exist
(`RecursionExists`).  `ListSize`, a fold, is not expanded in any proof: the
theorems hold whatever it sums up to, the lists being `Sendable`.

Only model-checked: liveness (`EventuallyCompleted`, `WaitReturns`,
`LossIsNoticed`, `SilenceIsNoticed`, `EventuallySubscribed`,
`EventuallyAcknowledged`, `EventuallySettled`), which is out of the prover's
reach; and `OneReceiver`, `ClosesOnlyItsOwn` and `FreedWhenQuiet` for a client
that is disconnected at the end with automatic reconnects on.

## 5. Not modelled

TLS; the contents of `tx_buf` and `rcv_buf` as threads share them without a lock
(`Codec` has one thread; `Outbox` says when threads meet, and claims nothing of
what they then write); in `Subscriptions`, `TopicAlias` and `Inbound`, a subscribe,
a pump or a connect of another thread while a handler or a send is under way;
what a handler does with a packet it misreads (`Misread`) or a caller after an
`Overruns`; memory exhaustion, except that storing a message may fail; crashes;
an application that calls `noxmqtt_connect` while it is connected; two
applications' threads calling the library at once.  The fixed part of CONNECT
and the contents of authentication data, topics and payloads.

**Windows transport**: the structure of the POSIX one over another thread and
socket interface; `PosixTransport` models the one that CI builds and runs.
**ESP-IDF transports**: the same receive loop as a FreeRTOS task, with a
`local_disconnect` guard that the POSIX one lacks; a variant of `PosixTransport`
with it is in the plan.  **TLS client identity**: loading files for an external
library.  **Debug output, string helpers**: no state.

## 6. Plan

1. The ESP-IDF variant of `PosixTransport` with its `local_disconnect` guard, under
   which `DisconnectIsFinal` should hold; then `CliApp`, the completion of
   one-shot commands, over it.
2. `tx_buf` under the threads of `PosixTransport`.
3. What is left of the promises of `Outbox` after two threads have met in it, and
   whether an accepted message can then be lost.
4. The same overlap in `TopicAlias` and `Subscriptions`: another thread's pump
   between the store of an alias and its packet, a call during resubscribe_all.
5. Proofs: how far the theorems of `PosixTransport` reach when the application
   disconnects a client with automatic reconnects.
