-------------------------------- MODULE Auth --------------------------------
(***************************************************************************)
(* MQTT 5 enhanced authentication: the method agreed in CONNECT and        *)
(* CONNACK, and AUTH exchanges, in which the broker asks (CONTINUE) until  *)
(* it is satisfied (SUCCESS).  The client keeps two things, the active     *)
(* method and whether an exchange is in progress, and notes them before it *)
(* has written its AUTH; the application's call may be overtaken by the    *)
(* receive thread and by a reconnect of the worker.  A broker that is sent *)
(* an AUTH out of turn, or of another method, disconnects.                 *)
(***************************************************************************)
EXTENDS Connection, FiniteSets

CONSTANTS
  Method,         \* authentication methods
  NoMethod,       \* none: NULL
  NoCall,         \* no AUTH is about to be written
  MaxCalls,       \* bound: AUTHs of the application that no challenge asked for
  MaxRounds       \* bound: challenges of the broker in one exchange

ASSUME AuthAssumption ==
  /\ NoMethod \notin Method /\ NoCall \notin [reason : {"continue", "reauth"}, method : Method]
  /\ MaxCalls \in Nat /\ MaxRounds \in Nat \ {0}

VARIABLES
  \* the client
  active_auth_method, auth_in_progress,
  calling,        \* the AUTH that noxmqtt_auth has prepared and not yet written
  \* the broker
  exchange,       \* "none", "idle", "asked" (the client's turn), "evaluating"
  method,         \* the method of the CONNECT it has read
  accepted,       \* it has sent CONNACK
  rounds,         \* challenges in this exchange
  \* history
  asked,          \* a challenge has been reported to the application
  calls,
  unasked,        \* the application answered without having been asked
  unsent,         \* an exchange was noted and the AUTH that starts it not written
  stray,          \* an AUTH was written on another connection than it was meant for
  offence         \* why the broker disconnected: "no", "turn", "method"

authVars == <<active_auth_method, auth_in_progress, calling, exchange, method, accepted, rounds,
              asked, calls, unasked, unsent, stray, offence>>
vars == <<connVars, authVars>>

clientAuth == <<active_auth_method, auth_in_progress>>
broker == <<exchange, method, accepted, rounds, offence>>
blame == <<calls, unasked, unsent, stray>>

AuthPacket(reason, m) == [type |-> "AUTH", reason |-> reason, method |-> m]

Init ==
  /\ ConnInit
  /\ active_auth_method = NoMethod /\ auth_in_progress = FALSE /\ calling = NoCall
  /\ exchange = "none" /\ method = NoMethod /\ accepted = FALSE /\ rounds = 0
  /\ asked = FALSE /\ calls = 0
  /\ unasked = FALSE /\ unsent = FALSE /\ stray = FALSE /\ offence = "no"

-----------------------------------------------------------------------------
(* The client's state                                                      *)

\* Mutant: only the start of an exchange marks it.
OnlyReauth(reason) == reason = "reauth"

\* noxmqtt_is_auth_exchange_active
ExchangeActive(reason) == reason \in {"continue", "reauth"}

\* Mutant: the method is forgotten and the exchange is not.
ForgetMethod ==
  active_auth_method' = NoMethod /\ UNCHANGED auth_in_progress

\* At every end of a connection.
ClearAuth ==
  active_auth_method' = NoMethod /\ auth_in_progress' = FALSE

\* noxmqtt_active_auth_method_matches, or there is none to match
Matches(m) == active_auth_method \in {NoMethod, m}

-----------------------------------------------------------------------------
(* The connection                                                          *)

\* noxmqtt_connect: the method is set and the exchange marked before the
\* transport is opened, and stay so when it cannot be.
Connect(m) ==
  /\ ~connected /\ link = "down" /\ connects < MaxConnects
  /\ connects' = connects + 1
  /\ active_auth_method' = m /\ auth_in_progress' = (m # NoMethod)
  /\ \/ link' = "connecting" /\ Send([type |-> "CONNECT", method |-> m])
     \/ UNCHANGED <<link, toBroker>>
  /\ stray' = (calling # NoCall)
  /\ asked' = FALSE /\ unasked' = FALSE /\ unsent' = FALSE
  /\ exchange' = "none" /\ accepted' = FALSE /\ offence' = "no"
  /\ UNCHANGED <<connected, handler, toClient, calling, method, rounds, calls>>

\* The part of noxmqtt_handler_connack for V5 that is about authentication:
\* without the method that was asked for, the CONNACK is an error.
RecvConnack ==
  LET m == Head(toClient).method IN
  /\ link # "down" /\ toClient # <<>> /\ Head(toClient).type = "CONNACK"
  /\ toClient' = Tail(toClient)
  /\ IF active_auth_method = NoMethod \/ m = active_auth_method
     THEN /\ active_auth_method' = m /\ auth_in_progress' = FALSE /\ connected' = TRUE
          /\ link' = IF link = "connecting" THEN "up" ELSE link
          /\ asked' = FALSE
     ELSE UNCHANGED <<clientAuth, connected, link, asked>>
  /\ UNCHANGED <<handler, toBroker, connects, calling, broker, blame>>

\* A CONNACK with an error: an event, and nothing else.
RecvRefusal ==
  /\ link # "down" /\ toClient # <<>> /\ Head(toClient).type = "REFUSED"
  /\ toClient' = Tail(toClient)
  /\ UNCHANGED <<connected, handler, link, toBroker, connects, authVars>>

\* noxmqtt_disconnect_ex and noxmqtt_transport_notify_disconnected
Disconnect ==
  /\ ConnDisconnect
  /\ ClearAuth /\ asked' = FALSE
  /\ UNCHANGED <<calling, broker, blame>>

\* noxmqtt_handler_disconnect_packet
RecvDisconnect ==
  /\ toClient # <<>> /\ Head(toClient).type = "DISCONNECT"
  /\ Disconnect

Break == ConnBreak /\ UNCHANGED authVars

-----------------------------------------------------------------------------
(* AUTH                                                                    *)

RecvAuth ==
  LET p == Head(toClient)
      ok == IF p.method # NoMethod THEN Matches(p.method) ELSE active_auth_method # NoMethod IN
  /\ link # "down" /\ toClient # <<>> /\ p.type = "AUTH"
  /\ toClient' = Tail(toClient)
  /\ IF ok
     THEN /\ active_auth_method' = IF p.method # NoMethod THEN p.method ELSE active_auth_method
          /\ auth_in_progress' = ExchangeActive(p.reason)
          /\ asked' = (p.reason = "continue")
     ELSE UNCHANGED <<clientAuth, asked>>
  /\ UNCHANGED <<connected, handler, link, toBroker, connects, calling, broker, blame>>

\* Mutant: an exchange in progress does not keep another from being started.
AnyReason(reason) == TRUE

\* While an exchange is in progress, only CONTINUE.
ReasonAllowed(reason) == auth_in_progress => reason = "continue"

\* Mutant: the packet has the method only if the application gave it again.
GivenMethod(m) == m

\* The method of the packet.
EffectiveMethod(m) == IF m = NoMethod THEN active_auth_method ELSE m

\* noxmqtt_auth until the packet is ready; `fits' says whether its properties
\* can be encoded.
Auth(reason, m, fits) ==
  /\ connected /\ calling = NoCall
  /\ ReasonAllowed(reason)
  /\ IF active_auth_method # NoMethod THEN m \in {NoMethod, active_auth_method} ELSE m # NoMethod
  /\ active_auth_method' = IF active_auth_method = NoMethod THEN m ELSE active_auth_method
  /\ IF fits
     THEN /\ calling' = [reason |-> reason, method |-> EffectiveMethod(m)]
          /\ auth_in_progress' = ExchangeActive(reason)
          /\ unasked' = (unasked \/ (reason = "continue" /\ ~asked))
     ELSE UNCHANGED <<calling, auth_in_progress, unasked>>
  /\ UNCHANGED <<connVars, broker, asked, unsent, stray>>

Answer == asked /\ Auth("continue", NoMethod, TRUE) /\ UNCHANGED calls

Call(reason, m, fits) ==
  /\ calls < MaxCalls /\ calls' = calls + 1
  /\ Auth(reason, m, fits)

\* The rest of noxmqtt_auth: whatever connection there is now takes the packet.
Write ==
  /\ calling # NoCall /\ calling' = NoCall
  /\ link \in {"connecting", "up"} /\ Len(toBroker) < MaxQueue
  /\ Send(AuthPacket(calling.reason, calling.method)) /\ asked' = FALSE
  /\ UNCHANGED <<connected, handler, link, toClient, connects, clientAuth, broker, blame>>

\* There is none, or the packet exceeds the broker's maximum packet size.
WriteFails ==
  /\ calling # NoCall /\ calling' = NoCall
  /\ \/ link \in {"down", "broken"} /\ UNCHANGED calls
     \/ calls < MaxCalls /\ calls' = calls + 1
  /\ unsent' = (unsent \/ ~asked)
  /\ UNCHANGED <<connVars, clientAuth, broker, asked, unasked, stray>>

-----------------------------------------------------------------------------
(* The broker                                                              *)

BrokerConnack ==
  BrokerSends([type |-> "CONNACK", method |-> method']) /\ accepted' = TRUE /\ exchange' = "idle"

BrokerAsks ==
  /\ BrokerSends(AuthPacket("continue", method')) /\ exchange' = "asked"
  /\ UNCHANGED accepted

BrokerEnds(type) == BrokerSends([type |-> type]) /\ exchange' = "none" /\ UNCHANGED accepted

BrokerReadsConnect ==
  /\ BrokerReads("CONNECT")
  /\ method' = Head(toBroker).method
  /\ \/ BrokerConnack /\ rounds' = 0
     \/ method' # NoMethod /\ BrokerAsks /\ rounds' = 1
     \/ BrokerEnds("REFUSED") /\ rounds' = 0
  /\ UNCHANGED <<connected, handler, link, connects, clientAuth, calling, asked, blame, offence>>

InTurn(reason) ==
  \/ exchange = "asked" /\ reason = "continue"
  \/ exchange = "idle" /\ reason = "reauth"

BrokerReadsAuth ==
  LET p == Head(toBroker)
      agreed == method # NoMethod /\ p.method = method
  IN
  /\ BrokerReads("AUTH") /\ Len(toClient) < MaxQueue
  /\ IF exchange = "none" THEN UNCHANGED <<exchange, accepted, rounds, toClient, offence>>
     ELSE IF agreed /\ InTurn(p.reason)
     THEN /\ exchange' = "evaluating"
          /\ rounds' = IF p.reason = "reauth" THEN 0 ELSE rounds
          /\ UNCHANGED <<accepted, toClient, offence>>
     ELSE /\ BrokerEnds("DISCONNECT") /\ UNCHANGED rounds
          /\ offence' = IF agreed THEN "turn" ELSE "method"
  /\ UNCHANGED <<connected, handler, link, connects, clientAuth, calling, method, asked, blame>>

BrokerAnswers ==
  /\ link \in {"connecting", "up"} /\ exchange = "evaluating" /\ Len(toClient) < MaxQueue
  /\ UNCHANGED method
  /\ \/ IF accepted
        THEN BrokerSends(AuthPacket("success", method)) /\ exchange' = "idle" /\ UNCHANGED accepted
        ELSE BrokerConnack
     \/ BrokerEnds("DISCONNECT")
  /\ UNCHANGED <<connected, handler, link, toBroker, connects, clientAuth, calling, rounds,
                 asked, blame, offence>>

BrokerAsksAgain ==
  /\ link \in {"connecting", "up"} /\ exchange = "evaluating" /\ Len(toClient) < MaxQueue
  /\ rounds < MaxRounds
  /\ rounds' = rounds + 1 /\ UNCHANGED method
  /\ BrokerAsks
  /\ UNCHANGED <<connected, handler, link, toBroker, connects, clientAuth, calling, asked,
                 blame, offence>>

-----------------------------------------------------------------------------

Next ==
  \/ \E m \in Method \cup {NoMethod} : Connect(m)
  \/ RecvConnack \/ RecvRefusal \/ RecvAuth \/ RecvDisconnect
  \/ Disconnect \/ Break
  \/ Answer
  \/ \E reason \in {"continue", "reauth"}, m \in Method \cup {NoMethod}, fits \in BOOLEAN :
       Call(reason, m, fits)
  \/ Write \/ WriteFails
  \/ BrokerReadsConnect \/ BrokerReadsAuth \/ BrokerAnswers \/ BrokerAsksAgain

Spec == Init /\ [][Next]_vars

\* The receive thread runs, and tells of a connection that is no more; a call
\* of noxmqtt_auth returns; the broker reads and answers; the application
\* answers a challenge it was told of.
FairSpec ==
  /\ Spec
  /\ WF_vars(RecvConnack) /\ WF_vars(RecvRefusal) /\ WF_vars(RecvAuth) /\ WF_vars(RecvDisconnect)
  /\ WF_vars(link = "broken" /\ Disconnect)
  /\ WF_vars(Answer) /\ WF_vars(Write \/ WriteFails)
  /\ WF_vars(BrokerReadsConnect) /\ WF_vars(BrokerReadsAuth) /\ WF_vars(BrokerAnswers)

-----------------------------------------------------------------------------
(* Properties                                                              *)

Packets ==
  [type : {"CONNECT", "CONNACK"}, method : Method \cup {NoMethod}]
    \cup [type : {"AUTH"}, reason : {"continue", "reauth", "success"}, method : Method]
    \cup [type : {"REFUSED", "DISCONNECT"}]

TypeOK ==
  /\ ConnTypeOK
  /\ \A q \in {toBroker, toClient} : q \in Seq(Packets) /\ Len(q) <= MaxQueue
  /\ active_auth_method \in Method \cup {NoMethod} /\ auth_in_progress \in BOOLEAN
  /\ calling \in [reason : {"continue", "reauth"}, method : Method] \cup {NoCall}
  /\ exchange \in {"none", "idle", "asked", "evaluating"}
  /\ method \in Method \cup {NoMethod} /\ accepted \in BOOLEAN /\ rounds \in 0..MaxRounds
  /\ asked \in BOOLEAN /\ calls \in 0..MaxCalls
  /\ {unasked, unsent, stray} \subseteq BOOLEAN /\ offence \in {"no", "turn", "method"}

Underway(queue, type) == \E i \in DOMAIN queue : queue[i].type = type

\* While the connection stands, client and broker agree: on the method, and on
\* whose turn it is.  A broker that waits for an answer has a client that knows
\* of it or is about to; a client that waits has an AUTH under way, or a broker
\* that owes it one or has ended the connection.
ExchangeAgrees ==
  connected /\ link = "up" =>
    /\ method # NoMethod => active_auth_method = method
    /\ exchange = "asked" => auth_in_progress \/ Underway(toClient, "AUTH")
    /\ auth_in_progress =>
         \/ exchange \in {"asked", "evaluating"}
         \/ Underway(toBroker, "AUTH") \/ Underway(toClient, "AUTH") \/ calling # NoCall
         \/ Underway(toClient, "DISCONNECT")
         \/ unsent

\* The broker never ends a connection because of an AUTH of the client, unless
\* the application answered unasked or named a method where CONNECT had none,
\* or a reconnect came between noxmqtt_auth's checks and its write.
InTurnUnlessTold ==
  /\ offence = "turn" => unasked \/ stray
  /\ offence = "method" => method = NoMethod \/ stray

\* An exchange of a connected client comes to an end, unless its first AUTH was
\* never written.
EventuallySettled ==
  (connected /\ auth_in_progress) ~> (~auth_in_progress \/ unsent)
=============================================================================
