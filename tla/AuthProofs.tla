----------------------------- MODULE AuthProofs -----------------------------
(***************************************************************************)
(* Theorems about Auth, for all methods: type correctness; client and      *)
(* broker agree on the method and on whose turn it is; the broker has a    *)
(* reason to end the connection over an AUTH only if it was told so.       *)
(***************************************************************************)
EXTENDS Auth, Integers, TLAPS

-----------------------------------------------------------------------------
(* The inductive invariant                                                 *)

(* Packets of the connection are under way while there is one; CONNECT is
   the first, and nothing has happened before the broker reads it; CONNACK
   is sent once.                                                           *)
LinkInv ==
  /\ link = "down" => ~connected /\ toBroker = <<>> /\ toClient = <<>>
  /\ link = "connecting" => ~connected
  /\ \A i \in DOMAIN toBroker : toBroker[i].type = "CONNECT" =>
       /\ i = 1 /\ ~connected /\ toClient = <<>>
       /\ exchange = "none" /\ offence = "no" /\ ~accepted /\ ~asked
       /\ toBroker[i].method = active_auth_method
       /\ auth_in_progress <=> active_auth_method # NoMethod
  /\ \A i, j \in DOMAIN toClient :
       toClient[i].type = "CONNACK" /\ toClient[j].type = "CONNACK" => i = j
  /\ connected \/ ~accepted => ~Underway(toClient, "CONNACK")
  /\ connected => accepted

(* The client has the broker's method, once the broker has read CONNECT;
   but for one the application named where CONNECT had none.  An exchange
   of the broker has a method.                                             *)
MethodInv ==
  /\ \A i \in DOMAIN toClient :
       toClient[i].type \in {"CONNACK", "AUTH"} => toClient[i].method = method
  /\ \A i \in DOMAIN toClient :
       toClient[i].type = "AUTH" => toClient[i].reason \in {"continue", "success"}
  /\ link # "down" /\ ~Underway(toBroker, "CONNECT") /\ (method # NoMethod \/ ~connected)
       => active_auth_method = method
  /\ exchange \in {"asked", "evaluating"} => method # NoMethod

(* The last AUTH or CONNACK under way to the client is a challenge.        *)
LastIsChallenge(q) ==
  \E i \in DOMAIN q : /\ q[i].type = "AUTH" /\ q[i].reason = "continue"
                      /\ \A j \in DOMAIN q : j > i => q[j].type \notin {"AUTH", "CONNACK"}

(* A broker that waits for an answer.                                      *)
AskedInv ==
  link # "down" /\ exchange = "asked" =>
    \/ auth_in_progress /\ ~Underway(toClient, "AUTH") /\ ~Underway(toClient, "CONNACK")
    \/ LastIsChallenge(toClient)

(* A challenge, on its way or reported, is not the end of it.              *)
Waits == exchange \in {"asked", "evaluating"}
Answers == {"AUTH", "CONNACK", "DISCONNECT"}

OwedInv ==
  /\ \A i \in DOMAIN toClient : toClient[i].type = "AUTH" /\ toClient[i].reason = "continue" =>
       Waits \/ \E j \in DOMAIN toClient : j > i /\ toClient[j].type \in Answers
  /\ asked => Waits \/ \E j \in DOMAIN toClient : toClient[j].type \in Answers
  /\ link # "down" /\ accepted /\ exchange = "none" => Underway(toClient, "DISCONNECT")
  /\ connected /\ auth_in_progress =>
       \/ Waits \/ Underway(toBroker, "AUTH") \/ Underway(toClient, "AUTH") \/ calling # NoCall
       \/ Underway(toClient, "DISCONNECT") \/ unsent

(* One AUTH at most is prepared or under way, and it is that of the side
   whose turn it is.                                                       *)
OneAuth ==
  /\ \A i, j \in DOMAIN toBroker :
       toBroker[i].type = "AUTH" /\ toBroker[j].type = "AUTH" => i = j
  /\ \A i \in DOMAIN toBroker : toBroker[i].type = "AUTH" =>
       /\ InTurn(toBroker[i].reason)
       /\ calling = NoCall /\ auth_in_progress /\ ~asked /\ ~Underway(toClient, "AUTH")
  /\ \A i, j \in DOMAIN toClient :
       toClient[i].type = "AUTH" /\ toClient[j].type = "AUTH" => i = j
  /\ \A i \in DOMAIN toClient : toClient[i].type = "AUTH" =>
       /\ exchange = IF toClient[i].reason = "continue" THEN "asked" ELSE "idle"
       /\ calling = NoCall /\ auth_in_progress /\ ~asked
  /\ calling # NoCall => /\ InTurn(calling.reason) /\ auth_in_progress
                         /\ asked <=> calling.reason = "continue"
  /\ asked => exchange = "asked" /\ auth_in_progress
  /\ ~auth_in_progress => exchange = "idle"
  /\ exchange = "evaluating" => calling = NoCall

TurnInv ==
  link # "down" /\ ~stray =>
    /\ ~connected => /\ calling = NoCall /\ ~Underway(toBroker, "AUTH")
                     /\ exchange # "evaluating"
    /\ Underway(toClient, "CONNACK") => /\ exchange = "idle" /\ ~asked
                                        /\ ~Underway(toClient, "AUTH")
    /\ ~unasked /\ exchange # "none" => OneAuth

(* Without a reconnect in between, an AUTH has the method of CONNECT.      *)
SameMethod ==
  link # "down" /\ ~stray /\ ~Underway(toBroker, "CONNECT") /\ method # NoMethod =>
    /\ \A i \in DOMAIN toBroker : toBroker[i].type = "AUTH" => toBroker[i].method = method
    /\ calling # NoCall => calling.method = method

AuthInv ==
  TypeOK /\ LinkInv /\ MethodInv /\ AskedInv /\ OwedInv /\ TurnInv /\ SameMethod /\ InTurnUnlessTold

-----------------------------------------------------------------------------
(* Lemmas about packets and queues                                         *)

LEMMA PacketIs ==
  ASSUME NEW p \in Packets
  PROVE  /\ p.type \in {"CONNECT", "CONNACK", "AUTH", "REFUSED", "DISCONNECT"}
         /\ p.type \in {"CONNECT", "CONNACK"} => p.method \in Method \cup {NoMethod}
         /\ p.type = "AUTH" => /\ p.reason \in {"continue", "reauth", "success"}
                              /\ p.method \in Method /\ p.method # NoMethod
<1>1. CASE p \in [type : {"CONNECT", "CONNACK"}, method : Method \cup {NoMethod}]
  BY <1>1
<1>2. CASE p \in [type : {"AUTH"}, reason : {"continue", "reauth", "success"}, method : Method]
  BY <1>2, AuthAssumption
<1>3. CASE p \in [type : {"REFUSED", "DISCONNECT"}]
  BY <1>3
<1>. QED BY <1>1, <1>2, <1>3 DEF Packets

LEMMA IsPacket ==
  /\ \A type \in {"CONNECT", "CONNACK"}, m \in Method \cup {NoMethod} :
       [type |-> type, method |-> m] \in Packets
  /\ \A reason \in {"continue", "reauth", "success"}, m \in Method :
       AuthPacket(reason, m) \in Packets
  /\ \A type \in {"REFUSED", "DISCONNECT"} : [type |-> type] \in Packets
BY DEF Packets, AuthPacket

LEMMA TailIs ==
  ASSUME NEW S, NEW q \in Seq(S), q # <<>>
  PROVE  /\ Tail(q) \in Seq(S) /\ Len(Tail(q)) <= Len(q) /\ Head(q) \in S
         /\ 1 \in DOMAIN q /\ Head(q) = q[1]
         /\ \A i \in DOMAIN q : i \in Nat
         /\ \A i \in DOMAIN Tail(q) :
              /\ i \in Nat /\ i > 0 /\ i + 1 \in DOMAIN q /\ Tail(q)[i] = q[i + 1]
         /\ \A i \in DOMAIN q : i # 1 =>
              /\ i - 1 \in DOMAIN Tail(q) /\ Tail(q)[i - 1] = q[i]
<1>1. /\ Len(q) \in Nat /\ Len(q) > 0 /\ DOMAIN q = 1..Len(q) /\ Tail(q) \in Seq(S)
      /\ Len(Tail(q)) = Len(q) - 1 /\ DOMAIN Tail(q) = 1..(Len(q) - 1) /\ Head(q) = q[1]
      /\ Head(q) \in S /\ \A i \in 1..(Len(q) - 1) : Tail(q)[i] = q[i + 1]
  OBVIOUS
<1>2. \A i \in DOMAIN q : i # 1 => i - 1 \in 1..(Len(q) - 1) /\ (i - 1) + 1 = i
  BY <1>1
<1>. QED BY <1>1, <1>2

LEMMA AppendIs ==
  ASSUME NEW S, NEW q \in Seq(S), NEW p \in S
  PROVE  /\ Append(q, p) \in Seq(S) /\ Len(Append(q, p)) = Len(q) + 1 /\ Len(q) \in Nat
         /\ \A i \in DOMAIN q : /\ i \in DOMAIN Append(q, p) /\ Append(q, p)[i] = q[i]
                               /\ i \in Nat /\ i < Len(q) + 1
         /\ Len(q) + 1 \in DOMAIN Append(q, p) /\ Append(q, p)[Len(q) + 1] = p
         /\ \A i \in DOMAIN Append(q, p) : i \in DOMAIN q \/ i = Len(q) + 1
OBVIOUS

(* TypeOK in parts: the queues, the bounded numbers and the rest.          *)
QueueTypes ==
  /\ toBroker \in Seq(Packets) /\ Len(toBroker) <= MaxQueue
  /\ toClient \in Seq(Packets) /\ Len(toClient) <= MaxQueue

Bounds == connects \in 0..MaxConnects /\ rounds \in 0..MaxRounds /\ calls \in 0..MaxCalls

StateTypes ==
  /\ connected \in BOOLEAN /\ handler \in {"idle", "callback", "resubscribe"}
  /\ link \in {"down", "connecting", "up", "broken"}
  /\ active_auth_method \in Method \cup {NoMethod} /\ auth_in_progress \in BOOLEAN
  /\ calling \in [reason : {"continue", "reauth"}, method : Method] \cup {NoCall}
  /\ exchange \in {"none", "idle", "asked", "evaluating"}
  /\ method \in Method \cup {NoMethod} /\ accepted \in BOOLEAN /\ asked \in BOOLEAN
  /\ unasked \in BOOLEAN /\ unsent \in BOOLEAN /\ stray \in BOOLEAN
  /\ offence \in {"no", "turn", "method"}

LEMMA TypeParts ==
  /\ TypeOK <=> QueueTypes /\ Bounds /\ StateTypes
  /\ TypeOK' <=> QueueTypes' /\ Bounds' /\ StateTypes'
BY DEF TypeOK, ConnTypeOK, QueueTypes, Bounds, StateTypes

LEMMA NothingUnderway == \A type : ~Underway(<<>>, type)
BY DEF Underway

LEMMA TypeFacts ==
  ASSUME AuthInv
  PROVE  /\ toBroker \in Seq(Packets) /\ Len(toBroker) \in Nat /\ Len(toBroker) <= MaxQueue
         /\ toClient \in Seq(Packets) /\ Len(toClient) \in Nat /\ Len(toClient) <= MaxQueue
         /\ MaxQueue \in Nat /\ MaxQueue > 0
BY ConnectionAssumption, TypeParts DEF AuthInv, QueueTypes

-----------------------------------------------------------------------------
(* The steps                                                               *)

LEMMA InitHolds == Init => AuthInv
<1> SUFFICES ASSUME Init PROVE AuthInv
  OBVIOUS
<1> USE DEF Init, ConnInit
<1>1. TypeOK
  <2>1. QueueTypes
    BY ConnectionAssumption DEF QueueTypes
  <2>2. StateTypes
    BY DEF StateTypes
  <2>3. Bounds
    BY ConnectionAssumption, AuthAssumption DEF Bounds
  <2>. QED BY <2>1, <2>2, <2>3, TypeParts
<1>2. LinkInv /\ MethodInv /\ OwedInv /\ InTurnUnlessTold
  BY NothingUnderway DEF LinkInv, MethodInv, OwedInv, InTurnUnlessTold
<1>3. AskedInv /\ TurnInv /\ SameMethod
  BY DEF AskedInv, TurnInv, SameMethod
<1>. QED BY <1>1, <1>2, <1>3 DEF AuthInv

LEMMA ConnectKeeps ==
  ASSUME AuthInv, NEW m \in Method \cup {NoMethod}, Connect(m)
  PROVE  AuthInv'
<1> DEFINE p == [type |-> "CONNECT", method |-> m]
<1>1. /\ ~connected /\ link = "down" /\ toBroker = <<>> /\ toClient = <<>>
      /\ connects < MaxConnects /\ connects' = connects + 1
      /\ active_auth_method' = m /\ auth_in_progress' = (m # NoMethod)
      /\ \/ link' = "connecting" /\ toBroker' = Append(<<>>, p)
         \/ UNCHANGED <<link, toBroker>>
      /\ stray' = (calling # NoCall)
      /\ asked' = FALSE /\ unasked' = FALSE /\ unsent' = FALSE
      /\ exchange' = "none" /\ accepted' = FALSE /\ offence' = "no"
      /\ UNCHANGED <<connected, handler, toClient, calling, method, rounds, calls>>
  BY DEF Connect, Send, AuthInv, LinkInv
<1>2. Append(<<>>, p) = <<p>> /\ Len(<<p>>) = 1 /\ DOMAIN <<p>> = {1} /\ <<p>>[1] = p
  OBVIOUS
<1>3. p \in Packets /\ p.type = "CONNECT" /\ p.method = m
  BY IsPacket
<1>4. <<p>> \in Seq(Packets)
  BY <1>3
<1>5. (toBroker' = <<>> /\ link' = "down") \/ (toBroker' = <<p>> /\ link' = "connecting")
  BY <1>1, <1>2
<1>6. \A i \in DOMAIN toBroker' : i = 1 /\ toBroker'[i] = p
  BY <1>2, <1>5
<1> HIDE DEF p
<1>7. TypeOK'
  <2>1. QueueTypes'
    <3>1. Len(<<>>) = 0 /\ <<>> \in Seq(Packets) /\ MaxQueue \in Nat /\ MaxQueue > 0
      BY ConnectionAssumption
    <3>2. toBroker' \in Seq(Packets) /\ Len(toBroker') <= MaxQueue
      <4>1. CASE toBroker' = <<>>
        BY <3>1, <4>1
      <4>2. CASE toBroker' = <<p>>
        BY <1>2, <1>4, <3>1, <4>2
      <4>. QED BY <1>5, <4>1, <4>2
    <3>. QED BY <1>1, <3>1, <3>2 DEF QueueTypes
  <2>2. StateTypes'
    BY <1>1, TypeParts DEF AuthInv, StateTypes
  <2>3. Bounds'
    BY <1>1, ConnectionAssumption, TypeParts DEF AuthInv, Bounds
  <2>. QED BY <2>1, <2>2, <2>3, TypeParts
<1>8. LinkInv'
  <2>1. \A i \in DOMAIN toBroker' : i = 1 /\ toBroker'[i].method = m
    BY <1>3, <1>6
  <2>2. DOMAIN toClient' = {} /\ ~Underway(toClient', "CONNACK")
    BY <1>1, NothingUnderway
  <2>3. link' = "down" => toBroker' = <<>>
    BY <1>5
  <2>. QED BY <1>1, <2>1, <2>2, <2>3 DEF LinkInv
<1>9. MethodInv'
  BY <1>1, <1>3, <1>5, <1>2 DEF MethodInv, Underway
<1>10. AskedInv' /\ OwedInv' /\ InTurnUnlessTold'
  BY <1>1, NothingUnderway DEF AskedInv, OwedInv, InTurnUnlessTold
<1>11. TurnInv'
  <2>1. ~Underway(toBroker', "AUTH") /\ ~Underway(toClient', "CONNACK")
    BY <1>1, <1>3, <1>6 DEF Underway
  <2>. QED BY <1>1, <2>1 DEF TurnInv
<1>12. SameMethod'
  <2>1. link' # "down" => Underway(toBroker', "CONNECT")
    BY <1>1, <1>2, <1>3, <1>5 DEF Underway
  <2>. QED BY <2>1 DEF SameMethod
<1>. QED BY <1>7, <1>8, <1>9, <1>10, <1>11, <1>12 DEF AuthInv

LEMMA DisconnectKeeps ==
  ASSUME AuthInv, Disconnect
  PROVE  AuthInv'
<1>1. /\ link' = "down" /\ connected' = FALSE /\ toBroker' = <<>> /\ toClient' = <<>>
      /\ active_auth_method' = NoMethod /\ auth_in_progress' = FALSE /\ asked' = FALSE
      /\ UNCHANGED <<handler, connects, calling, exchange, method, accepted, rounds, offence,
                     calls, unasked, unsent, stray>>
  BY DEF Disconnect, ConnDisconnect, ConnClose, ClearAuth, broker, blame
<1>2. TypeOK'
  <2>1. QueueTypes'
    BY <1>1, ConnectionAssumption DEF QueueTypes
  <2>2. StateTypes'
    BY <1>1, TypeParts, ZenonT(40) DEF AuthInv, StateTypes
  <2>3. Bounds'
    BY <1>1, TypeParts DEF AuthInv, Bounds
  <2>. QED BY <2>1, <2>2, <2>3, TypeParts
<1>3. LinkInv' /\ MethodInv' /\ OwedInv' /\ InTurnUnlessTold'
  BY <1>1, NothingUnderway DEF AuthInv, LinkInv, MethodInv, OwedInv, InTurnUnlessTold
<1>4. AskedInv' /\ TurnInv' /\ SameMethod'
  BY <1>1 DEF AskedInv, TurnInv, SameMethod
<1>. QED BY <1>2, <1>3, <1>4 DEF AuthInv

(* The link may break; nothing of this module changes.                     *)
LEMMA BreakKeeps ==
  ASSUME AuthInv, Break \/ UNCHANGED vars
  PROVE  AuthInv'
<1>1. /\ link' \in {link, "broken"} /\ (link' # link => link # "down")
      /\ UNCHANGED <<connected, handler, toBroker, toClient, connects, authVars>>
  BY DEF Break, ConnBreak, vars, connVars, network
<1> USE DEF authVars
<1>2. TypeOK'
  BY <1>1 DEF AuthInv, TypeOK, ConnTypeOK
<1>3. LinkInv' /\ MethodInv' /\ AskedInv' /\ SameMethod'
  BY <1>1 DEF AuthInv, LinkInv, MethodInv, AskedInv, SameMethod
<1>4. OwedInv' /\ InTurnUnlessTold'
  BY <1>1 DEF AuthInv, OwedInv, Waits, InTurnUnlessTold
<1>5. TurnInv'
  BY <1>1 DEF AuthInv, TurnInv, OneAuth, InTurn
<1>. QED BY <1>2, <1>3, <1>4, <1>5 DEF AuthInv

(* The client reads the first packet under way: the others keep their order. *)
LEMMA ClientReads ==
  ASSUME AuthInv, toClient # <<>>, toClient' = Tail(toClient)
  PROVE  /\ toClient' \in Seq(Packets) /\ Len(toClient') <= MaxQueue
         /\ Head(toClient) \in Packets
         /\ 1 \in DOMAIN toClient /\ Head(toClient) = toClient[1]
         /\ \A i \in DOMAIN toClient' : /\ i \in Nat /\ i > 0 /\ i + 1 \in DOMAIN toClient
                                       /\ toClient'[i] = toClient[i + 1]
         /\ \A type : Underway(toClient', type) => Underway(toClient, type)
         /\ \A type : Underway(toClient, type) /\ Head(toClient).type # type
                        => Underway(toClient', type)
         /\ LastIsChallenge(toClient) =>
              \/ LastIsChallenge(toClient')
              \/ /\ Head(toClient).type = "AUTH" /\ Head(toClient).reason = "continue"
                 /\ ~Underway(toClient', "AUTH") /\ ~Underway(toClient', "CONNACK")
         /\ \A i \in DOMAIN toClient' :
              toClient'[i].type = "AUTH" /\ toClient'[i].reason = "continue" =>
                Waits \/ \E j \in DOMAIN toClient' : j > i /\ toClient'[j].type \in Answers
<1>1. toClient \in Seq(Packets) /\ Len(toClient) <= MaxQueue /\ Len(toClient) \in Nat /\ MaxQueue \in Nat
  BY TypeFacts
<1>2. /\ toClient' \in Seq(Packets) /\ Len(toClient') <= Len(toClient) /\ Head(toClient) \in Packets
      /\ Len(toClient') \in Nat
      /\ 1 \in DOMAIN toClient /\ Head(toClient) = toClient[1]
      /\ \A i \in DOMAIN toClient : i \in Nat
      /\ \A i \in DOMAIN toClient' : /\ i \in Nat /\ i > 0 /\ i + 1 \in DOMAIN toClient
                                    /\ toClient'[i] = toClient[i + 1]
      /\ \A i \in DOMAIN toClient : i # 1 =>
           i - 1 \in DOMAIN toClient' /\ toClient'[i - 1] = toClient[i]
  BY <1>1, TailIs
<1>3. \A type : Underway(toClient', type) => Underway(toClient, type)
  BY <1>2 DEF Underway
<1>4. \A type : Underway(toClient, type) /\ Head(toClient).type # type => Underway(toClient', type)
  BY <1>2 DEF Underway
<1>5. ASSUME LastIsChallenge(toClient)
      PROVE  \/ LastIsChallenge(toClient')
             \/ /\ Head(toClient).type = "AUTH" /\ Head(toClient).reason = "continue"
                /\ ~Underway(toClient', "AUTH") /\ ~Underway(toClient', "CONNACK")
  <2>1. PICK i \in DOMAIN toClient :
          /\ toClient[i].type = "AUTH" /\ toClient[i].reason = "continue"
          /\ \A j \in DOMAIN toClient : j > i => toClient[j].type \notin {"AUTH", "CONNACK"}
    BY <1>5 DEF LastIsChallenge
  <2>2. ASSUME NEW j \in DOMAIN toClient', j > i - 1
        PROVE  toClient'[j].type \notin {"AUTH", "CONNACK"}
    <3>1. j + 1 \in DOMAIN toClient /\ j + 1 > i /\ toClient'[j] = toClient[j + 1]
      BY <1>2, <2>2
    <3>. QED BY <2>1, <3>1
  <2>3. CASE i = 1
    <3>1. \A j \in DOMAIN toClient' : j > i - 1
      BY <1>2, <2>3
    <3>. QED BY <1>2, <2>1, <2>2, <2>3, <3>1 DEF Underway
  <2>4. CASE i # 1
    <3>1. i - 1 \in DOMAIN toClient' /\ toClient'[i - 1] = toClient[i]
      BY <1>2, <2>4
    <3>. QED BY <2>1, <2>2, <3>1 DEF LastIsChallenge
  <2>. QED BY <2>3, <2>4
<1>6. ASSUME NEW i \in DOMAIN toClient', toClient'[i].type = "AUTH",
             toClient'[i].reason = "continue", ~Waits
      PROVE  \E j \in DOMAIN toClient' : j > i /\ toClient'[j].type \in Answers
  <2>1. i + 1 \in DOMAIN toClient /\ toClient[i + 1] = toClient'[i] /\ i \in Nat
    BY <1>2
  <2>2. PICK j \in DOMAIN toClient : j > i + 1 /\ toClient[j].type \in Answers
    BY <1>6, <2>1 DEF AuthInv, OwedInv
  <2>3. j \in Nat /\ j # 1 /\ j - 1 > i
    BY <1>2, <2>1, <2>2
  <2>4. j - 1 \in DOMAIN toClient' /\ toClient'[j - 1] = toClient[j]
    BY <1>2, <2>3
  <2>. QED BY <2>2, <2>3, <2>4
<1>. QED BY <1>1, <1>2, <1>3, <1>4, <1>5, <1>6

(* CONNACK is the only one, and read by a client that is not connected: it
   has the client's method.                                                *)
LEMMA ConnackKeeps ==
  ASSUME AuthInv, RecvConnack
  PROVE  AuthInv'
<1> DEFINE p == Head(toClient)
<1>1. /\ link # "down" /\ toClient # <<>> /\ p.type = "CONNACK" /\ toClient' = Tail(toClient)
      /\ UNCHANGED <<handler, toBroker, connects, calling, exchange, method, accepted, rounds,
                     offence, calls, unasked, unsent, stray>>
  BY DEF RecvConnack, broker, blame
<1>2. /\ toClient' \in Seq(Packets) /\ Len(toClient') <= MaxQueue /\ p \in Packets
      /\ 1 \in DOMAIN toClient /\ p = toClient[1]
      /\ \A i \in DOMAIN toClient' :
           /\ i \in Nat /\ i > 0 /\ i + 1 \in DOMAIN toClient /\ toClient'[i] = toClient[i + 1]
  BY <1>1, ClientReads
<1>3. /\ \A type : Underway(toClient', type) => Underway(toClient, type)
      /\ Underway(toClient, "DISCONNECT") => Underway(toClient', "DISCONNECT")
      /\ LastIsChallenge(toClient) => LastIsChallenge(toClient')
      /\ \A i \in DOMAIN toClient' :
           toClient'[i].type = "AUTH" /\ toClient'[i].reason = "continue" =>
             Waits \/ \E j \in DOMAIN toClient' : j > i /\ toClient'[j].type \in Answers
  <2>1. p.type # "AUTH" /\ p.type # "DISCONNECT"
    BY <1>1
  <2>. QED BY <1>1, <2>1, ClientReads
<1>4. Underway(toClient, "CONNACK")
  BY <1>1, <1>2 DEF Underway
<1>5. ~connected /\ accepted
  BY <1>4 DEF AuthInv, LinkInv
<1>6. ~Underway(toBroker, "CONNECT")
  BY <1>1 DEF Underway, AuthInv, LinkInv
<1>7. active_auth_method = method /\ p.method = method
  BY <1>1, <1>2, <1>5, <1>6 DEF AuthInv, MethodInv
<1>8. /\ UNCHANGED active_auth_method /\ auth_in_progress' = FALSE /\ connected' = TRUE
      /\ link' = (IF link = "connecting" THEN "up" ELSE link) /\ asked' = FALSE
  BY <1>7 DEF RecvConnack
<1>9. \A i \in DOMAIN toClient' : toClient'[i].type # "CONNACK"
  <2>1. ASSUME NEW i \in DOMAIN toClient', toClient'[i].type = "CONNACK" PROVE FALSE
    <3>1. i + 1 = 1
      BY <1>1, <1>2, <2>1 DEF AuthInv, LinkInv
    <3>. QED BY <1>2, <3>1
  <2>. QED BY <2>1
<1> HIDE DEF p
<1>10. ~Underway(toClient', "CONNACK")
  BY <1>9 DEF Underway
<1>11. TypeOK'
  <2>1. QueueTypes'
    BY <1>1, <1>2, TypeFacts DEF QueueTypes
  <2>2. StateTypes'
    <3>1. link' \in {link, "up"}
      BY <1>8
    <3>2. StateTypes
      BY TypeParts DEF AuthInv
    <3>3. /\ connected' \in BOOLEAN /\ auth_in_progress' \in BOOLEAN /\ asked' \in BOOLEAN
          /\ UNCHANGED <<handler, active_auth_method, calling, exchange, method, accepted,
                         unasked, unsent, stray, offence>>
      BY <1>1, <1>8
    <3>. QED BY <3>1, <3>2, <3>3 DEF StateTypes
  <2>3. Bounds'
    BY <1>1, TypeParts DEF AuthInv, Bounds
  <2>. QED BY <2>1, <2>2, <2>3, TypeParts
<1>12. LinkInv'
  <2>1. \A i \in DOMAIN toBroker' : toBroker'[i].type # "CONNECT"
    BY <1>1, <1>6 DEF Underway
  <2>. QED BY <1>1, <1>5, <1>8, <1>9, <1>10, <2>1 DEF AuthInv, LinkInv
<1>13. MethodInv'
  BY <1>1, <1>2, <1>7, <1>8 DEF AuthInv, MethodInv
<1>14. AskedInv'
  BY <1>1, <1>3, <1>4 DEF AuthInv, AskedInv
<1>15. OwedInv'
  <2>1. exchange = "none" => Underway(toClient', "DISCONNECT")
    BY <1>1, <1>3, <1>5 DEF AuthInv, OwedInv
  <2>. QED BY <1>1, <1>3, <1>8, <2>1 DEF OwedInv, Waits
<1>16. TurnInv'
  <2> SUFFICES ASSUME ~stray PROVE TurnInv'
    BY <1>1 DEF TurnInv
  <2>1. /\ calling = NoCall /\ ~Underway(toBroker, "AUTH")
        /\ exchange = "idle" /\ ~Underway(toClient, "AUTH")
    BY <1>1, <1>4, <1>5 DEF AuthInv, TurnInv
  <2>2. ~Underway(toClient', "AUTH")
    BY <1>3, <2>1
  <2>3. OneAuth'
    BY <1>1, <1>8, <2>1, <2>2 DEF OneAuth, Underway
  <2>. QED BY <1>1, <1>8, <1>10, <2>3 DEF TurnInv
<1>17. SameMethod' /\ InTurnUnlessTold'
  BY <1>1, <1>8 DEF AuthInv, SameMethod, InTurnUnlessTold
<1>. QED BY <1>11, <1>12, <1>13, <1>14, <1>15, <1>16, <1>17 DEF AuthInv

(* A refusal changes nothing else, and is not what anything waits for.     *)
LEMMA RefusalKeeps ==
  ASSUME AuthInv, RecvRefusal
  PROVE  AuthInv'
<1> DEFINE p == Head(toClient)
<1>1. /\ link # "down" /\ toClient # <<>> /\ p.type = "REFUSED" /\ toClient' = Tail(toClient)
      /\ UNCHANGED <<connected, handler, link, toBroker, connects, authVars>>
  BY DEF RecvRefusal
<1>2. /\ toClient' \in Seq(Packets) /\ Len(toClient') <= MaxQueue
      /\ \A i \in DOMAIN toClient' :
           /\ i \in Nat /\ i + 1 \in DOMAIN toClient /\ toClient'[i] = toClient[i + 1]
      /\ \A type : Underway(toClient', type) => Underway(toClient, type)
      /\ \A i \in DOMAIN toClient' :
           toClient'[i].type = "AUTH" /\ toClient'[i].reason = "continue" =>
             Waits \/ \E j \in DOMAIN toClient' : j > i /\ toClient'[j].type \in Answers
  BY <1>1, ClientReads
<1>3. /\ \A type \in Answers : Underway(toClient, type) => Underway(toClient', type)
      /\ LastIsChallenge(toClient) => LastIsChallenge(toClient')
  <2>1. p.type \notin Answers
    BY <1>1 DEF Answers
  <2>. QED BY <1>1, <2>1, ClientReads
<1> HIDE DEF p
<1>4. TypeOK'
  <2>1. QueueTypes'
    BY <1>1, <1>2, TypeFacts DEF QueueTypes
  <2>2. StateTypes' /\ Bounds'
    BY <1>1, TypeParts DEF AuthInv, StateTypes, Bounds, authVars
  <2>. QED BY <2>1, <2>2, TypeParts
<1>5. LinkInv'
  <2>1. ASSUME NEW i \in DOMAIN toClient', NEW j \in DOMAIN toClient',
               toClient'[i].type = "CONNACK", toClient'[j].type = "CONNACK"
        PROVE  i = j
    <3>1. i + 1 = j + 1
      BY <1>2, <2>1 DEF AuthInv, LinkInv
    <3>. QED BY <1>2, <3>1
  <2>2. \A i \in DOMAIN toBroker : toBroker[i].type # "CONNECT"
    BY <1>1 DEF AuthInv, LinkInv
  <2>3. connected \/ ~accepted => ~Underway(toClient', "CONNACK")
    BY <1>2 DEF AuthInv, LinkInv
  <2>. QED BY <1>1, <2>1, <2>2, <2>3 DEF AuthInv, LinkInv, authVars
<1>6. MethodInv'
  BY <1>1, <1>2 DEF AuthInv, MethodInv, authVars
<1>7. AskedInv'
  BY <1>1, <1>2, <1>3 DEF AuthInv, AskedInv, authVars
<1>8. OwedInv'
  <2>1. \A type \in Answers : Underway(toClient, type) => Underway(toClient', type)
    BY <1>3
  <2>2. asked => Waits \/ \E j \in DOMAIN toClient' : toClient'[j].type \in Answers
    BY <2>1 DEF AuthInv, OwedInv, Underway
  <2>3. /\ Underway(toClient, "AUTH") => Underway(toClient', "AUTH")
        /\ Underway(toClient, "DISCONNECT") => Underway(toClient', "DISCONNECT")
    BY <2>1 DEF Answers
  <2>. QED BY <1>1, <1>2, <2>2, <2>3 DEF AuthInv, OwedInv, Waits, authVars
<1>9. TurnInv'
  <2>1. OneAuth => OneAuth'
    <3> SUFFICES ASSUME OneAuth PROVE OneAuth'
      OBVIOUS
    <3>1. ASSUME NEW i \in DOMAIN toClient', NEW j \in DOMAIN toClient',
                 toClient'[i].type = "AUTH", toClient'[j].type = "AUTH"
          PROVE  i = j
      <4>1. i + 1 = j + 1
        BY <1>2, <3>1 DEF OneAuth
      <4>. QED BY <1>2, <4>1
    <3>2. \A i \in DOMAIN toClient' : toClient'[i].type = "AUTH" =>
            /\ exchange = IF toClient'[i].reason = "continue" THEN "asked" ELSE "idle"
            /\ calling = NoCall /\ auth_in_progress /\ ~asked
      BY <1>2 DEF OneAuth
    <3>3. \A i \in DOMAIN toBroker : toBroker[i].type = "AUTH" => ~Underway(toClient', "AUTH")
      BY <1>2 DEF OneAuth
    <3>. QED BY <1>1, <3>1, <3>2, <3>3 DEF OneAuth, InTurn, authVars
  <2>. QED BY <1>1, <1>2, <2>1 DEF AuthInv, TurnInv, authVars
<1>10. SameMethod' /\ InTurnUnlessTold'
  BY <1>1 DEF AuthInv, SameMethod, InTurnUnlessTold, authVars
<1>. QED BY <1>4, <1>5, <1>6, <1>7, <1>8, <1>9, <1>10 DEF AuthInv

(* AUTH from the broker has the client's method: a challenge is reported,
   an end of the exchange noted.                                           *)
LEMMA RecvAuthKeeps ==
  ASSUME AuthInv, RecvAuth
  PROVE  AuthInv'
<1> DEFINE p == Head(toClient)
<1>1. /\ link # "down" /\ toClient # <<>> /\ p.type = "AUTH" /\ toClient' = Tail(toClient)
      /\ UNCHANGED <<connected, handler, link, toBroker, connects, calling, exchange, method,
                     accepted, rounds, offence, calls, unasked, unsent, stray>>
  BY DEF RecvAuth, broker, blame
<1>2. /\ toClient' \in Seq(Packets) /\ Len(toClient') <= MaxQueue /\ p \in Packets
      /\ 1 \in DOMAIN toClient /\ p = toClient[1]
      /\ \A i \in DOMAIN toClient' :
           /\ i \in Nat /\ i > 0 /\ i + 1 \in DOMAIN toClient /\ toClient'[i] = toClient[i + 1]
      /\ \A type : Underway(toClient', type) => Underway(toClient, type)
      /\ \A i \in DOMAIN toClient' :
           toClient'[i].type = "AUTH" /\ toClient'[i].reason = "continue" =>
             Waits \/ \E j \in DOMAIN toClient' : j > i /\ toClient'[j].type \in Answers
  BY <1>1, ClientReads
<1>3. /\ Underway(toClient, "DISCONNECT") => Underway(toClient', "DISCONNECT")
      /\ Underway(toClient, "CONNACK") => Underway(toClient', "CONNACK")
      /\ LastIsChallenge(toClient) =>
           \/ LastIsChallenge(toClient')
           \/ /\ p.reason = "continue"
              /\ ~Underway(toClient', "AUTH") /\ ~Underway(toClient', "CONNACK")
  <2>1. p.type # "DISCONNECT" /\ p.type # "CONNACK"
    BY <1>1
  <2>. QED BY <1>1, <2>1, ClientReads
<1>4. p.method = method /\ method \in Method /\ method # NoMethod
      /\ p.reason \in {"continue", "reauth", "success"}
  <2>1. p.method = method
    BY <1>1, <1>2 DEF AuthInv, MethodInv
  <2>. QED BY <1>1, <1>2, <2>1, PacketIs
<1>5. \A i \in DOMAIN toBroker : toBroker[i].type # "CONNECT"
  BY <1>1 DEF AuthInv, LinkInv
<1>6. active_auth_method = method
  <2>1. ~Underway(toBroker, "CONNECT")
    BY <1>5 DEF Underway
  <2>. QED BY <1>1, <1>4, <2>1 DEF AuthInv, MethodInv
<1>7. /\ UNCHANGED active_auth_method
      /\ auth_in_progress' = ExchangeActive(p.reason)
      /\ asked' = (p.reason = "continue")
  BY <1>4, <1>6 DEF RecvAuth, Matches
<1>8. p.reason = "continue" =>
        Waits \/ \E j \in DOMAIN toClient' : toClient'[j].type \in Answers
  <2> SUFFICES ASSUME p.reason = "continue", ~Waits
               PROVE  \E j \in DOMAIN toClient' : toClient'[j].type \in Answers
    OBVIOUS
  <2>1. PICK j \in DOMAIN toClient : j > 1 /\ toClient[j].type \in Answers
    BY <1>1, <1>2 DEF AuthInv, OwedInv
  <2>2. j - 1 \in DOMAIN toClient' /\ toClient'[j - 1] = toClient[j]
    <3>1. toClient \in Seq(Packets) /\ j # 1
      BY <2>1, TypeFacts
    <3>. QED BY <1>1, <3>1, TailIs
  <2>. QED BY <2>1, <2>2
<1> HIDE DEF p
<1>9. TypeOK'
  <2>1. QueueTypes'
    BY <1>1, <1>2, TypeFacts DEF QueueTypes
  <2>2. Bounds'
    BY <1>1, TypeParts DEF AuthInv, Bounds
  <2>3. auth_in_progress' \in BOOLEAN /\ asked' \in BOOLEAN
    BY <1>7 DEF ExchangeActive
  <2>4. StateTypes
    BY TypeParts DEF AuthInv
  <2>5. UNCHANGED <<connected, handler, link, active_auth_method, calling, exchange, method,
                    accepted, unasked, unsent, stray, offence>>
    BY <1>1, <1>7
  <2>6. StateTypes'
    BY <2>3, <2>4, <2>5 DEF StateTypes
  <2>. QED BY <2>1, <2>2, <2>6, TypeParts
<1>10. LinkInv'
  <2>1. ASSUME NEW i \in DOMAIN toClient', NEW j \in DOMAIN toClient',
               toClient'[i].type = "CONNACK", toClient'[j].type = "CONNACK"
        PROVE  i = j
    <3>1. i + 1 = j + 1
      BY <1>2, <2>1 DEF AuthInv, LinkInv
    <3>. QED BY <1>2, <3>1
  <2>2. connected \/ ~accepted => ~Underway(toClient', "CONNACK")
    BY <1>2 DEF AuthInv, LinkInv
  <2>. QED BY <1>1, <1>5, <2>1, <2>2 DEF AuthInv, LinkInv
<1>11. MethodInv'
  BY <1>1, <1>2, <1>6, <1>7 DEF AuthInv, MethodInv
<1>12. AskedInv'
  <2> SUFFICES ASSUME exchange = "asked"
               PROVE  \/ /\ auth_in_progress' /\ ~Underway(toClient', "AUTH")
                         /\ ~Underway(toClient', "CONNACK")
                      \/ LastIsChallenge(toClient')
    BY <1>1 DEF AskedInv
  <2>1. Underway(toClient, "AUTH")
    BY <1>1, <1>2 DEF Underway
  <2>2. LastIsChallenge(toClient)
    BY <1>1, <2>1 DEF AuthInv, AskedInv
  <2>3. p.reason = "continue" => auth_in_progress'
    BY <1>7 DEF ExchangeActive
  <2>. QED BY <1>3, <2>2, <2>3
<1>13. OwedInv'
  <2>1. asked' => Waits \/ \E j \in DOMAIN toClient' : toClient'[j].type \in Answers
    BY <1>7, <1>8
  <2>2. link # "down" /\ accepted /\ exchange = "none" => Underway(toClient', "DISCONNECT")
    BY <1>3 DEF AuthInv, OwedInv
  <2>3. connected => ~Underway(toClient', "CONNACK")
    BY <1>2 DEF AuthInv, LinkInv
  <2>4. auth_in_progress' => p.reason = "continue"
    <3>1. p.reason # "reauth"
      BY <1>1, <1>2 DEF AuthInv, MethodInv
    <3>. QED BY <1>7, <3>1 DEF ExchangeActive
  <2>5. connected /\ auth_in_progress' =>
          Waits \/ Underway(toClient', "AUTH") \/ Underway(toClient', "DISCONNECT")
    BY <1>8, <2>3, <2>4 DEF Answers, Underway
  <2>. QED BY <1>1, <1>2, <2>1, <2>2, <2>5 DEF OwedInv, Waits
<1>14. TurnInv'
  <2> SUFFICES ASSUME ~stray PROVE TurnInv'
    BY <1>1 DEF TurnInv
  <2>1. Underway(toClient, "AUTH")
    BY <1>1, <1>2 DEF Underway
  <2>2. ~Underway(toClient', "CONNACK")
    BY <1>1, <1>2, <2>1 DEF AuthInv, TurnInv
  <2>3. ASSUME ~unasked, exchange # "none" PROVE OneAuth'
    <3>1. OneAuth
      BY <1>1, <2>3 DEF AuthInv, TurnInv
    <3>2. /\ exchange = IF p.reason = "continue" THEN "asked" ELSE "idle"
          /\ calling = NoCall
      BY <1>1, <1>2, <3>1 DEF OneAuth
    <3>3. \A i \in DOMAIN toClient' : toClient'[i].type # "AUTH"
      <4>1. ASSUME NEW i \in DOMAIN toClient', toClient'[i].type = "AUTH" PROVE FALSE
        <5>1. i + 1 = 1
          BY <1>1, <1>2, <3>1, <4>1 DEF OneAuth
        <5>. QED BY <1>2, <5>1
      <4>. QED BY <4>1
    <3>4. \A i \in DOMAIN toBroker : toBroker[i].type # "AUTH"
      BY <2>1, <3>1 DEF OneAuth
    <3>5. p.reason = "continue" <=> auth_in_progress'
      <4>1. p.reason # "reauth"
        BY <1>1, <1>2 DEF AuthInv, MethodInv
      <4>. QED BY <1>7, <4>1 DEF ExchangeActive
    <3>. QED BY <1>1, <1>7, <3>2, <3>3, <3>4, <3>5 DEF OneAuth
  <2>. QED BY <1>1, <2>2, <2>3 DEF AuthInv, TurnInv
<1>15. SameMethod' /\ InTurnUnlessTold'
  BY <1>1 DEF AuthInv, SameMethod, InTurnUnlessTold
<1>. QED BY <1>9, <1>10, <1>11, <1>12, <1>13, <1>14, <1>15 DEF AuthInv

(* noxmqtt_auth: an answer to a challenge, or the start of an exchange when
   none is in progress; anything else the application was not asked for.   *)
LEMMA AuthKeeps ==
  ASSUME AuthInv, NEW reason \in {"continue", "reauth"}, NEW m \in Method \cup {NoMethod},
         NEW fits \in BOOLEAN, Auth(reason, m, fits), calls' \in 0..MaxCalls
  PROVE  AuthInv'
<1> DEFINE e == EffectiveMethod(m)
           c == [reason |-> reason, method |-> e]
<1>1. /\ connected /\ calling = NoCall /\ (auth_in_progress => reason = "continue")
      /\ IF active_auth_method # NoMethod THEN m \in {NoMethod, active_auth_method} ELSE m # NoMethod
      /\ active_auth_method' = (IF active_auth_method = NoMethod THEN m ELSE active_auth_method)
      /\ UNCHANGED <<connected, handler, link, toBroker, toClient, connects, exchange, method,
                     accepted, rounds, offence, asked, unsent, stray>>
  BY DEF Auth, ReasonAllowed, connVars, network, broker
<1>2. \/ /\ calling' = c /\ auth_in_progress' = TRUE
         /\ unasked' = (unasked \/ (reason = "continue" /\ ~asked))
      \/ UNCHANGED <<calling, auth_in_progress, unasked>>
  BY DEF Auth, ExchangeActive
<1>3. active_auth_method \in Method \cup {NoMethod}
  BY TypeParts DEF AuthInv, StateTypes
<1>4. e \in Method /\ active_auth_method' = e
      /\ (active_auth_method # NoMethod => active_auth_method' = active_auth_method)
  BY <1>1, <1>3, AuthAssumption DEF EffectiveMethod
<1>5. /\ c \in [reason : {"continue", "reauth"}, method : Method] /\ c # NoCall
      /\ c.reason = reason /\ c.method = e
  BY <1>4, AuthAssumption
<1>6. /\ link # "down" /\ accepted /\ ~Underway(toClient, "CONNACK")
      /\ \A i \in DOMAIN toBroker : toBroker[i].type # "CONNECT"
  BY <1>1 DEF AuthInv, LinkInv
<1>7. ~Underway(toBroker, "CONNECT")
  BY <1>6 DEF Underway
<1>8. method # NoMethod => active_auth_method = method
  BY <1>6, <1>7 DEF AuthInv, MethodInv
<1> HIDE DEF c, e
<1>9. TypeOK'
  <2>1. QueueTypes' /\ Bounds'
    BY <1>1, TypeParts DEF AuthInv, QueueTypes, Bounds
  <2>2. /\ calling' \in [reason : {"continue", "reauth"}, method : Method] \cup {NoCall}
        /\ auth_in_progress' \in BOOLEAN /\ unasked' \in BOOLEAN
    BY <1>2, <1>5, TypeParts DEF AuthInv, StateTypes
  <2>3. /\ active_auth_method' \in Method \cup {NoMethod} /\ StateTypes
        /\ UNCHANGED <<connected, handler, link, exchange, method, accepted, asked, unsent,
                       stray, offence>>
    BY <1>1, <1>4, TypeParts DEF AuthInv
  <2>4. StateTypes'
    BY <2>2, <2>3 DEF StateTypes
  <2>. QED BY <2>1, <2>4, TypeParts
<1>10. LinkInv'
  BY <1>1, <1>6 DEF AuthInv, LinkInv
<1>11. MethodInv'
  BY <1>1, <1>4, <1>8, AuthAssumption DEF AuthInv, MethodInv
<1>12. AskedInv'
  BY <1>1, <1>2 DEF AuthInv, AskedInv
<1>13. OwedInv'
  BY <1>1, <1>2, <1>5 DEF AuthInv, OwedInv, Waits
<1>14. TurnInv'
  <2> SUFFICES ASSUME ~stray, ~unasked', exchange # "none" PROVE OneAuth'
    BY <1>1, <1>6 DEF AuthInv, TurnInv
  <2>1. ~unasked
    BY <1>2
  <2>2. OneAuth
    BY <1>6, <2>1 DEF AuthInv, TurnInv
  <2>3. CASE UNCHANGED <<calling, auth_in_progress, unasked>>
    BY <1>1, <2>2, <2>3 DEF OneAuth, InTurn
  <2>4. CASE /\ calling' = c /\ auth_in_progress' = TRUE
             /\ unasked' = (unasked \/ (reason = "continue" /\ ~asked))
    <3>1. /\ reason = "continue" => asked /\ exchange = "asked"
          /\ reason = "reauth" => ~auth_in_progress /\ ~asked /\ exchange = "idle"
      BY <1>1, <2>2, <2>4 DEF OneAuth
    <3>2. /\ \A i \in DOMAIN toBroker : toBroker[i].type # "AUTH"
          /\ \A i \in DOMAIN toClient : toClient[i].type # "AUTH"
      BY <2>2, <3>1 DEF OneAuth
    <3>. QED BY <1>1, <1>5, <2>2, <2>4, <3>1, <3>2 DEF OneAuth, InTurn
  <2>. QED BY <1>2, <2>3, <2>4
<1>15. SameMethod'
  BY <1>1, <1>2, <1>4, <1>5, <1>8, AuthAssumption DEF AuthInv, SameMethod
<1>16. InTurnUnlessTold'
  BY <1>1, <1>2 DEF AuthInv, InTurnUnlessTold
<1>. QED BY <1>9, <1>10, <1>11, <1>12, <1>13, <1>14, <1>15, <1>16 DEF AuthInv

(* The prepared AUTH goes to whatever connection there is.                 *)
LEMMA WriteKeeps ==
  ASSUME AuthInv, Write
  PROVE  AuthInv'
<1> DEFINE p == AuthPacket(calling.reason, calling.method)
           n == Len(toBroker) + 1
<1>1. /\ calling # NoCall /\ calling' = NoCall /\ link \in {"connecting", "up"}
      /\ Len(toBroker) < MaxQueue /\ toBroker' = Append(toBroker, p) /\ asked' = FALSE
      /\ UNCHANGED <<connected, handler, link, toClient, connects, active_auth_method,
                     auth_in_progress, exchange, method, accepted, rounds, offence,
                     calls, unasked, unsent, stray>>
  BY DEF Write, Send, clientAuth, broker, blame
<1>2. calling \in [reason : {"continue", "reauth"}, method : Method]
  BY <1>1, TypeParts DEF AuthInv, StateTypes
<1>3. p \in Packets /\ p.type = "AUTH" /\ p.reason = calling.reason /\ p.method = calling.method
  BY <1>2, IsPacket DEF AuthPacket
<1> HIDE DEF p
<1>4. /\ toBroker' \in Seq(Packets) /\ Len(toBroker') <= MaxQueue
      /\ \A i \in DOMAIN toBroker : /\ i \in DOMAIN toBroker' /\ toBroker'[i] = toBroker[i]
                                    /\ i \in Nat /\ i < n
      /\ n \in DOMAIN toBroker' /\ toBroker'[n] = p
      /\ \A i \in DOMAIN toBroker' : i \in DOMAIN toBroker \/ i = n
  <2>1. toBroker \in Seq(Packets) /\ MaxQueue \in Nat
    BY TypeFacts
  <2>. QED BY <1>1, <1>3, <2>1, AppendIs
<1> HIDE DEF n
<1>5. /\ \A type : Underway(toBroker, type) => Underway(toBroker', type)
      /\ \A type : type # "AUTH" => (Underway(toBroker', type) => Underway(toBroker, type))
      /\ Underway(toBroker', "AUTH")
  BY <1>3, <1>4 DEF Underway
<1>6. TypeOK'
  <2>1. QueueTypes' /\ Bounds'
    BY <1>1, <1>4, TypeParts DEF AuthInv, QueueTypes, Bounds
  <2>2. /\ StateTypes /\ calling' = NoCall /\ asked' \in BOOLEAN
        /\ UNCHANGED <<connected, handler, link, active_auth_method, auth_in_progress, exchange,
                       method, accepted, unasked, unsent, stray, offence>>
    BY <1>1, TypeParts DEF AuthInv
  <2>3. StateTypes'
    BY <2>2 DEF StateTypes
  <2>. QED BY <2>1, <2>3, TypeParts
<1>7. LinkInv'
  <2>1. \A i \in DOMAIN toBroker' : toBroker'[i].type = "CONNECT" =>
          i \in DOMAIN toBroker /\ toBroker'[i] = toBroker[i]
    BY <1>3, <1>4
  <2>. QED BY <1>1, <2>1 DEF AuthInv, LinkInv
<1>8. MethodInv' /\ AskedInv' /\ InTurnUnlessTold'
  BY <1>1, <1>5 DEF AuthInv, MethodInv, AskedInv, InTurnUnlessTold
<1>9. OwedInv'
  BY <1>1, <1>5 DEF AuthInv, OwedInv, Waits
<1>10. TurnInv'
  <2> SUFFICES ASSUME ~stray PROVE TurnInv'
    BY <1>1 DEF TurnInv
  <2>1. connected
    BY <1>1 DEF AuthInv, TurnInv
  <2>2. ~Underway(toClient, "CONNACK")
    BY <2>1 DEF AuthInv, LinkInv
  <2>3. ASSUME ~unasked, exchange # "none" PROVE OneAuth'
    <3>1. OneAuth
      BY <1>1, <2>3 DEF AuthInv, TurnInv
    <3>2. /\ \A i \in DOMAIN toBroker : toBroker[i].type # "AUTH"
          /\ \A i \in DOMAIN toClient : toClient[i].type # "AUTH"
          /\ InTurn(calling.reason) /\ auth_in_progress
      BY <1>1, <3>1 DEF OneAuth
    <3>3. \A i \in DOMAIN toBroker' : toBroker'[i].type = "AUTH" => i = n /\ toBroker'[i] = p
      BY <1>4, <3>2
    <3>4. ~Underway(toClient, "AUTH")
      BY <3>2 DEF Underway
    <3>. QED BY <1>1, <1>3, <3>1, <3>2, <3>3, <3>4 DEF OneAuth, InTurn
  <2>. QED BY <1>1, <2>1, <2>2, <2>3 DEF TurnInv
<1>11. SameMethod'
  <2> SUFFICES ASSUME ~stray, ~Underway(toBroker', "CONNECT"), method # NoMethod
               PROVE  \A i \in DOMAIN toBroker' :
                        toBroker'[i].type = "AUTH" => toBroker'[i].method = method
    BY <1>1 DEF SameMethod
  <2>1. /\ \A i \in DOMAIN toBroker : toBroker[i].type = "AUTH" => toBroker[i].method = method
        /\ calling.method = method
    BY <1>1, <1>5 DEF AuthInv, SameMethod
  <2>. QED BY <1>3, <1>4, <2>1
<1>. QED BY <1>6, <1>7, <1>8, <1>9, <1>10, <1>11 DEF AuthInv

(* It is not written: the exchange it was to start stays noted.            *)
LEMMA WriteFailsKeeps ==
  ASSUME AuthInv, WriteFails
  PROVE  AuthInv'
<1>1. /\ calling' = NoCall /\ unsent' = (unsent \/ ~asked)
      /\ calls' \in {calls, calls + 1} /\ (calls' # calls => calls < MaxCalls)
      /\ UNCHANGED <<connected, handler, link, toBroker, toClient, connects, active_auth_method,
                     auth_in_progress, exchange, method, accepted, rounds, offence, asked,
                     unasked, stray>>
  BY DEF WriteFails, connVars, network, clientAuth, broker
<1>2. TypeOK'
  <2>1. QueueTypes'
    BY <1>1, TypeParts DEF AuthInv, QueueTypes
  <2>2. Bounds'
    BY <1>1, AuthAssumption, TypeParts DEF AuthInv, Bounds
  <2>3. unsent' \in BOOLEAN
    BY <1>1, TypeParts DEF AuthInv, StateTypes
  <2>4. StateTypes'
    BY <1>1, <2>3, TypeParts DEF AuthInv, StateTypes
  <2>. QED BY <2>1, <2>2, <2>4, TypeParts
<1>3. LinkInv' /\ MethodInv' /\ AskedInv' /\ SameMethod' /\ InTurnUnlessTold'
  BY <1>1 DEF AuthInv, LinkInv, MethodInv, AskedInv, SameMethod, InTurnUnlessTold
<1>4. OwedInv'
  <2>1. connected => ~Underway(toClient, "CONNACK")
    BY DEF AuthInv, LinkInv
  <2>2. connected /\ auth_in_progress /\ ~unsent' =>
          Waits \/ Underway(toClient, "AUTH") \/ Underway(toClient, "DISCONNECT")
    BY <1>1, <2>1 DEF AuthInv, OwedInv, Answers, Underway
  <2>. QED BY <1>1, <2>2 DEF AuthInv, OwedInv, Waits
<1>5. TurnInv'
  BY <1>1 DEF AuthInv, TurnInv, OneAuth, InTurn
<1>. QED BY <1>2, <1>3, <1>4, <1>5 DEF AuthInv

(* The broker sends packet p: a challenge it sends is the last; and what was
   under way still is.                                                     *)
LEMMA BrokerSendsIs ==
  ASSUME AuthInv, NEW p \in Packets, BrokerSends(p), Len(toClient) < MaxQueue
  PROVE  /\ toClient' \in Seq(Packets) /\ Len(toClient') <= MaxQueue
         /\ \A i \in DOMAIN toClient : /\ i \in DOMAIN toClient' /\ toClient'[i] = toClient[i]
                                       /\ i \in Nat /\ i < Len(toClient) + 1
         /\ Len(toClient) + 1 \in DOMAIN toClient' /\ toClient'[Len(toClient) + 1] = p
         /\ \A i \in DOMAIN toClient' : i \in DOMAIN toClient \/ i = Len(toClient) + 1
         /\ \A type : Underway(toClient', type) <=> Underway(toClient, type) \/ p.type = type
         /\ p.type = "AUTH" /\ p.reason = "continue" => LastIsChallenge(toClient')
<1>1. toClient \in Seq(Packets) /\ toClient' = Append(toClient, p) /\ MaxQueue \in Nat
  BY TypeFacts DEF BrokerSends
<1>2. /\ toClient' \in Seq(Packets) /\ Len(toClient') <= MaxQueue /\ Len(toClient) \in Nat
      /\ \A i \in DOMAIN toClient : /\ i \in DOMAIN toClient' /\ toClient'[i] = toClient[i]
                                    /\ i \in Nat /\ i < Len(toClient) + 1
      /\ Len(toClient) + 1 \in DOMAIN toClient' /\ toClient'[Len(toClient) + 1] = p
      /\ \A i \in DOMAIN toClient' : i \in DOMAIN toClient \/ i = Len(toClient) + 1
  BY <1>1, AppendIs
<1>3. \A type : Underway(toClient', type) <=> Underway(toClient, type) \/ p.type = type
  BY <1>2 DEF Underway
<1>4. \A j \in DOMAIN toClient' : ~(j > Len(toClient) + 1)
  BY <1>2
<1>. QED BY <1>2, <1>3, <1>4 DEF LastIsChallenge

(* The broker takes the first packet from the client.                      *)
LEMMA BrokerReadsIs ==
  ASSUME AuthInv, NEW type, BrokerReads(type)
  PROVE  /\ toBroker' \in Seq(Packets) /\ Len(toBroker') <= MaxQueue
         /\ link # "down" /\ 1 \in DOMAIN toBroker /\ Head(toBroker) = toBroker[1]
         /\ Head(toBroker) \in Packets /\ Head(toBroker).type = type
         /\ \A i \in DOMAIN toBroker' : /\ i \in Nat /\ i > 0 /\ i + 1 \in DOMAIN toBroker
                                        /\ toBroker'[i] = toBroker[i + 1]
         /\ \A t : Underway(toBroker', t) => Underway(toBroker, t)
         /\ \A t : Underway(toBroker, t) /\ t # type => Underway(toBroker', t)
         /\ \A i \in DOMAIN toBroker' : toBroker'[i].type # "CONNECT"
<1>1. /\ toBroker \in Seq(Packets) /\ Len(toBroker) <= MaxQueue /\ Len(toBroker) \in Nat /\ MaxQueue \in Nat
      /\ toBroker # <<>> /\ Head(toBroker).type = type /\ toBroker' = Tail(toBroker)
  BY TypeFacts DEF BrokerReads
<1>2. /\ toBroker' \in Seq(Packets) /\ Len(toBroker') <= Len(toBroker) /\ Head(toBroker) \in Packets
      /\ Len(toBroker') \in Nat
      /\ 1 \in DOMAIN toBroker /\ Head(toBroker) = toBroker[1]
      /\ \A i \in DOMAIN toBroker' : /\ i \in Nat /\ i > 0 /\ i + 1 \in DOMAIN toBroker
                                    /\ toBroker'[i] = toBroker[i + 1]
      /\ \A i \in DOMAIN toBroker : i # 1 =>
           i - 1 \in DOMAIN toBroker' /\ toBroker'[i - 1] = toBroker[i]
  BY <1>1, TailIs
<1>3. link # "down"
  BY <1>1 DEF AuthInv, LinkInv
<1>4. \A t : Underway(toBroker', t) => Underway(toBroker, t)
  BY <1>2 DEF Underway
<1>5. \A t : Underway(toBroker, t) /\ t # type => Underway(toBroker', t)
  BY <1>1, <1>2, ZenonT(40) DEF Underway
<1>6. ASSUME NEW i \in DOMAIN toBroker', toBroker'[i].type = "CONNECT" PROVE FALSE
  <2>1. i + 1 = 1
    BY <1>2, <1>6 DEF AuthInv, LinkInv
  <2>. QED BY <1>2, <2>1
<1>. QED BY <1>1, <1>2, <1>3, <1>4, <1>5, <1>6

(* CONNECT is the first packet, and CONNACK, a challenge or a refusal the
   answer to it.                                                           *)
LEMMA BrokerConnectKeeps ==
  ASSUME AuthInv, BrokerReadsConnect
  PROVE  AuthInv'
<1> DEFINE c == Head(toBroker)
<1>1. /\ BrokerReads("CONNECT") /\ method' = c.method
      /\ UNCHANGED <<connected, handler, link, connects, active_auth_method, auth_in_progress,
                     calling, asked, calls, unasked, unsent, stray, offence>>
  BY DEF BrokerReadsConnect, clientAuth, blame
<1>2. /\ toBroker' \in Seq(Packets) /\ Len(toBroker') <= MaxQueue
      /\ link # "down" /\ 1 \in DOMAIN toBroker /\ c = toBroker[1]
      /\ c \in Packets /\ c.type = "CONNECT"
      /\ \A i \in DOMAIN toBroker' : toBroker'[i].type # "CONNECT"
      /\ \A t : Underway(toBroker', t) => Underway(toBroker, t)
      /\ ~Underway(toBroker', "CONNECT")
  <2>1. /\ toBroker' \in Seq(Packets) /\ Len(toBroker') <= MaxQueue
        /\ link # "down" /\ 1 \in DOMAIN toBroker /\ c = toBroker[1]
        /\ c \in Packets /\ c.type = "CONNECT"
        /\ \A i \in DOMAIN toBroker' : toBroker'[i].type # "CONNECT"
        /\ \A t : Underway(toBroker', t) => Underway(toBroker, t)
    BY <1>1, BrokerReadsIs
  <2>2. ~Underway(toBroker', "CONNECT")
    BY <2>1 DEF Underway
  <2>. QED BY <2>1, <2>2
<1>3. /\ ~connected /\ toClient = <<>> /\ exchange = "none" /\ offence = "no" /\ ~accepted /\ ~asked
      /\ c.method = active_auth_method /\ (auth_in_progress <=> active_auth_method # NoMethod)
  BY <1>2 DEF AuthInv, LinkInv
<1>4. method' = active_auth_method /\ method' \in Method \cup {NoMethod}
  BY <1>1, <1>2, <1>3, PacketIs
<1>5. PICK p \in Packets :
        /\ BrokerSends(p)
        /\ \/ /\ p.type = "CONNACK" /\ p.method = method'
              /\ accepted' = TRUE /\ exchange' = "idle" /\ rounds' = 0
           \/ /\ p.type = "AUTH" /\ p.reason = "continue" /\ p.method = method'
              /\ method' # NoMethod /\ accepted' = accepted /\ exchange' = "asked" /\ rounds' = 1
           \/ /\ p.type = "REFUSED" /\ accepted' = accepted /\ exchange' = "none" /\ rounds' = 0
  <2>1. CASE BrokerConnack /\ rounds' = 0
    <3> DEFINE p == [type |-> "CONNACK", method |-> method']
    <3>1. p \in Packets /\ p.type = "CONNACK" /\ p.method = method' /\ BrokerSends(p)
      BY <1>4, <2>1, IsPacket DEF BrokerConnack
    <3> HIDE DEF p
    <3>. QED BY <2>1, <3>1 DEF BrokerConnack
  <2>2. CASE method' # NoMethod /\ BrokerAsks /\ rounds' = 1
    <3> DEFINE p == AuthPacket("continue", method')
    <3>1. /\ p \in Packets /\ p.type = "AUTH" /\ p.reason = "continue" /\ p.method = method'
          /\ BrokerSends(p)
      BY <1>4, <2>2, IsPacket DEF BrokerAsks, AuthPacket
    <3> HIDE DEF p
    <3>. QED BY <2>2, <3>1 DEF BrokerAsks
  <2>3. CASE BrokerEnds("REFUSED") /\ rounds' = 0
    <3> DEFINE p == [type |-> "REFUSED"]
    <3>1. p \in Packets /\ p.type = "REFUSED" /\ BrokerSends(p)
      BY <2>3, IsPacket DEF BrokerEnds
    <3> HIDE DEF p
    <3>. QED BY <2>3, <3>1 DEF BrokerEnds
  <2>. QED BY <2>1, <2>2, <2>3 DEF BrokerReadsConnect
<1>6. /\ toClient' \in Seq(Packets) /\ Len(toClient') <= MaxQueue
      /\ \A i \in DOMAIN toClient' : i = 1 /\ toClient'[i] = p
      /\ \A type : Underway(toClient', type) <=> p.type = type
      /\ p.type = "AUTH" /\ p.reason = "continue" => LastIsChallenge(toClient')
  <2>1. Len(toClient) = 0 /\ DOMAIN toClient = {} /\ Len(toClient) < MaxQueue /\ Len(toClient) + 1 = 1
    BY <1>3, ConnectionAssumption
  <2>2. \A type : ~Underway(toClient, type)
    BY <1>3, NothingUnderway
  <2>. QED BY <1>5, <2>1, <2>2, BrokerSendsIs
<1> HIDE DEF c
<1>7. TypeOK'
  <2>1. QueueTypes'
    BY <1>2, <1>6 DEF QueueTypes
  <2>2. Bounds'
    <3>1. rounds' \in 0..MaxRounds
      BY <1>5, AuthAssumption
    <3>. QED BY <1>1, <3>1, TypeParts DEF AuthInv, Bounds
  <2>3. accepted' \in BOOLEAN /\ exchange' \in {"none", "idle", "asked", "evaluating"}
    BY <1>5, TypeParts DEF AuthInv, StateTypes
  <2>4. /\ StateTypes
        /\ UNCHANGED <<connected, handler, link, active_auth_method, auth_in_progress, calling,
                       asked, unasked, unsent, stray, offence>>
    BY <1>1, TypeParts DEF AuthInv
  <2>5. StateTypes'
    BY <1>4, <2>3, <2>4 DEF StateTypes
  <2>. QED BY <2>1, <2>2, <2>5, TypeParts
<1>8. LinkInv'
  BY <1>1, <1>2, <1>3, <1>5, <1>6 DEF AuthInv, LinkInv
<1>9. MethodInv'
  BY <1>1, <1>4, <1>5, <1>6 DEF MethodInv
<1>10. AskedInv'
  BY <1>5, <1>6 DEF AskedInv
<1>11. OwedInv'
  <2>1. accepted' => exchange' # "none"
    BY <1>3, <1>5
  <2>2. \A i \in DOMAIN toClient' : toClient'[i].type = "AUTH" => exchange' = "asked"
    BY <1>5, <1>6
  <2>. QED BY <1>1, <1>3, <2>1, <2>2 DEF OwedInv, Waits
<1>12. TurnInv'
  <2> SUFFICES ASSUME ~stray PROVE TurnInv'
    BY <1>1 DEF TurnInv
  <2>1. calling = NoCall /\ ~Underway(toBroker, "AUTH") /\ ~Underway(toBroker', "AUTH")
    BY <1>2, <1>3 DEF AuthInv, TurnInv
  <2>2. Underway(toClient', "CONNACK") =>
          exchange' = "idle" /\ ~Underway(toClient', "AUTH")
    BY <1>5, <1>6
  <2>3. exchange' # "none" => OneAuth'
    <3>1. \A i \in DOMAIN toBroker' : toBroker'[i].type # "AUTH"
      BY <2>1 DEF Underway
    <3>2. \A i \in DOMAIN toClient' : toClient'[i].type = "AUTH" =>
            toClient'[i].reason = "continue" /\ exchange' = "asked" /\ auth_in_progress
      BY <1>3, <1>4, <1>5, <1>6
    <3>3. exchange' \in {"none", "idle", "asked"}
      BY <1>5
    <3>4. ~auth_in_progress => exchange' # "asked"
      BY <1>3, <1>4, <1>5
    <3>. QED BY <1>1, <1>3, <1>6, <2>1, <3>1, <3>2, <3>3, <3>4 DEF OneAuth
  <2>4. exchange' # "evaluating"
    BY <1>5
  <2>. QED BY <1>1, <1>3, <2>1, <2>2, <2>3, <2>4 DEF TurnInv
<1>13. SameMethod'
  <2> SUFFICES ASSUME ~stray PROVE SameMethod'
    BY <1>1 DEF SameMethod
  <2>1. calling = NoCall /\ ~Underway(toBroker', "AUTH")
    BY <1>2, <1>3 DEF AuthInv, TurnInv
  <2>. QED BY <1>1, <2>1 DEF SameMethod, Underway
<1>14. InTurnUnlessTold'
  BY <1>1, <1>3 DEF InTurnUnlessTold
<1>. QED BY <1>7, <1>8, <1>9, <1>10, <1>11, <1>12, <1>13, <1>14 DEF AuthInv

(* An AUTH that ends up at a broker whose exchange is over is not looked at;
   one in turn is evaluated; any other ends the connection.                *)
LEMMA BrokerAuthKeeps ==
  ASSUME AuthInv, BrokerReadsAuth
  PROVE  AuthInv'
<1> DEFINE a == Head(toBroker)
           d == [type |-> "DISCONNECT"]
           n == Len(toClient) + 1
           agreed == method # NoMethod /\ a.method = method
<1>1. /\ BrokerReads("AUTH") /\ Len(toClient) < MaxQueue
      /\ UNCHANGED <<connected, handler, link, connects, active_auth_method, auth_in_progress,
                     calling, method, asked, calls, unasked, unsent, stray, accepted>>
      /\ rounds' \in {rounds, 0}
  BY DEF BrokerReadsAuth, clientAuth, blame, BrokerEnds
<1>2. \/ exchange = "none" /\ UNCHANGED <<exchange, toClient, offence>>
      \/ /\ exchange # "none" /\ agreed /\ InTurn(a.reason)
         /\ exchange' = "evaluating" /\ UNCHANGED <<toClient, offence>>
      \/ /\ exchange # "none" /\ ~(agreed /\ InTurn(a.reason))
         /\ exchange' = "none" /\ BrokerSends(d) /\ offence' = IF agreed THEN "turn" ELSE "method"
  BY DEF BrokerReadsAuth, BrokerEnds
<1>3. d \in Packets /\ d.type = "DISCONNECT"
  BY IsPacket
<1> HIDE DEF d
<1>4. /\ toBroker' \in Seq(Packets) /\ Len(toBroker') <= MaxQueue
      /\ link # "down" /\ 1 \in DOMAIN toBroker /\ a = toBroker[1] /\ a.type = "AUTH"
      /\ \A i \in DOMAIN toBroker' : /\ i \in Nat /\ i > 0 /\ i + 1 \in DOMAIN toBroker
                                     /\ toBroker'[i] = toBroker[i + 1]
      /\ \A t : Underway(toBroker', t) => Underway(toBroker, t)
      /\ \A i \in DOMAIN toBroker' : toBroker'[i].type # "CONNECT"
  BY <1>1, BrokerReadsIs
<1> HIDE DEF a
<1>5. /\ ~Underway(toBroker, "CONNECT") /\ ~Underway(toBroker', "CONNECT")
      /\ Underway(toBroker, "AUTH")
  BY <1>4 DEF AuthInv, LinkInv, Underway
<1>6. ~stray => connected /\ ~Underway(toClient, "CONNACK")
  BY <1>4, <1>5 DEF AuthInv, TurnInv, LinkInv
<1>7. ASSUME ~stray, ~unasked, exchange # "none"
      PROVE  /\ OneAuth /\ InTurn(a.reason) /\ calling = NoCall /\ auth_in_progress /\ ~asked
             /\ ~Underway(toClient, "AUTH") /\ \A i \in DOMAIN toBroker' : toBroker'[i].type # "AUTH"
  <2>1. OneAuth
    BY <1>4, <1>7 DEF AuthInv, TurnInv
  <2>2. /\ InTurn(a.reason) /\ calling = NoCall /\ auth_in_progress /\ ~asked
        /\ ~Underway(toClient, "AUTH")
    BY <2>1, <1>4 DEF OneAuth
  <2>3. ASSUME NEW i \in DOMAIN toBroker', toBroker'[i].type = "AUTH" PROVE FALSE
    <3>1. i \in Nat /\ i > 0 /\ i + 1 \in DOMAIN toBroker /\ toBroker[i + 1].type = "AUTH"
      BY <1>4, <2>3
    <3>2. i + 1 = 1
      BY <1>4, <2>1, <3>1 DEF OneAuth
    <3>. QED BY <3>1, <3>2
  <2>. QED BY <2>1, <2>2, <2>3
<1>8. exchange' \in {"none", "idle", "asked", "evaluating"} /\ offence' \in {"no", "turn", "method"}
  BY <1>2, TypeParts DEF AuthInv, StateTypes
<1>9. Bounds'
  <2>1. rounds' \in 0..MaxRounds
    BY <1>1, AuthAssumption, TypeParts DEF AuthInv, Bounds
  <2>. QED BY <1>1, <2>1, TypeParts DEF AuthInv, Bounds
<1>10. StateTypes'
  <2>1. /\ StateTypes
        /\ UNCHANGED <<connected, handler, link, active_auth_method, auth_in_progress, calling,
                       method, accepted, asked, unasked, unsent, stray>>
    BY <1>1, TypeParts DEF AuthInv
  <2>. QED BY <1>8, <2>1 DEF StateTypes
<1>11. SameMethod'
  <2>1. SameMethod
    BY DEF AuthInv
  <2>. QED BY <1>1, <1>4, <1>5, <2>1 DEF SameMethod
<1>12. CASE exchange = "none" /\ UNCHANGED <<exchange, toClient, offence>>
  <2>1. QueueTypes'
    BY <1>4, <1>12, TypeParts DEF AuthInv, QueueTypes
  <2>2. LinkInv'
    BY <1>1, <1>4, <1>12 DEF AuthInv, LinkInv
  <2>3. MethodInv' /\ AskedInv' /\ InTurnUnlessTold'
    BY <1>1, <1>5, <1>12 DEF AuthInv, MethodInv, AskedInv, InTurnUnlessTold
  <2>4. OwedInv'
    <3>1. connected => Underway(toClient, "DISCONNECT")
      BY <1>4, <1>12 DEF AuthInv, LinkInv, OwedInv
    <3>. QED BY <1>1, <1>12, <3>1 DEF AuthInv, OwedInv, Waits
  <2>5. TurnInv'
    BY <1>1, <1>6, <1>12 DEF TurnInv
  <2>. QED BY <1>9, <1>10, <1>11, <2>1, <2>2, <2>3, <2>4, <2>5, TypeParts DEF AuthInv
<1>13. CASE /\ exchange # "none" /\ agreed /\ InTurn(a.reason)
            /\ exchange' = "evaluating" /\ UNCHANGED <<toClient, offence>>
  <2>1. QueueTypes'
    BY <1>4, <1>13, TypeParts DEF AuthInv, QueueTypes
  <2>2. LinkInv'
    BY <1>1, <1>4, <1>13 DEF AuthInv, LinkInv
  <2>3. MethodInv' /\ AskedInv' /\ InTurnUnlessTold'
    BY <1>1, <1>5, <1>13 DEF AuthInv, MethodInv, AskedInv, InTurnUnlessTold
  <2>4. OwedInv'
    BY <1>13 DEF OwedInv, Waits
  <2>5. TurnInv'
    <3> SUFFICES ASSUME ~stray PROVE TurnInv'
      BY <1>1 DEF TurnInv
    <3>1. ~unasked => OneAuth'
      BY <1>1, <1>7, <1>13 DEF OneAuth, Underway
    <3>. QED BY <1>1, <1>6, <1>13, <3>1 DEF TurnInv
  <2>. QED BY <1>9, <1>10, <1>11, <2>1, <2>2, <2>3, <2>4, <2>5, TypeParts DEF AuthInv
<1>14. CASE /\ exchange # "none" /\ ~(agreed /\ InTurn(a.reason))
            /\ exchange' = "none" /\ BrokerSends(d)
            /\ offence' = IF agreed THEN "turn" ELSE "method"
  <2>1. /\ toClient' \in Seq(Packets) /\ Len(toClient') <= MaxQueue
        /\ \A i \in DOMAIN toClient : /\ i \in DOMAIN toClient' /\ toClient'[i] = toClient[i]
                                      /\ i \in Nat /\ i < n
        /\ n \in DOMAIN toClient' /\ toClient'[n] = d
        /\ \A i \in DOMAIN toClient' : i \in DOMAIN toClient \/ i = n
        /\ \A type : Underway(toClient', type) <=> Underway(toClient, type) \/ d.type = type
    BY <1>1, <1>3, <1>14, BrokerSendsIs
  <2> HIDE DEF n
  <2>2. QueueTypes'
    BY <1>4, <2>1 DEF QueueTypes
  <2>3. \A i \in DOMAIN toClient' : toClient'[i].type # "DISCONNECT" =>
          i \in DOMAIN toClient /\ toClient'[i] = toClient[i] /\ n > i
    <3>1. n \in Nat
      BY TypeFacts DEF n
    <3>. QED BY <1>3, <2>1, <3>1
  <2>4. LinkInv'
    BY <1>1, <1>3, <1>4, <2>1, <2>3 DEF AuthInv, LinkInv
  <2>5. MethodInv' /\ AskedInv'
    BY <1>1, <1>5, <1>14, <2>3 DEF AuthInv, MethodInv, AskedInv
  <2>6. OwedInv'
    <3>1. Underway(toClient', "DISCONNECT")
      BY <1>3, <2>1
    <3>2. \A i \in DOMAIN toClient' : toClient'[i].type = "AUTH" =>
            n > i /\ n \in DOMAIN toClient' /\ toClient'[n].type \in Answers
      BY <1>3, <2>1, <2>3 DEF Answers
    <3>3. n \in DOMAIN toClient' /\ toClient'[n].type \in Answers
      BY <1>3, <2>1 DEF Answers
    <3>. QED BY <3>1, <3>2, <3>3 DEF OwedInv
  <2>7. TurnInv'
    BY <1>1, <1>3, <1>6, <1>14, <2>1 DEF TurnInv
  <2>8. InTurnUnlessTold'
    <3>1. ~stray /\ method # NoMethod => a.method = method
      BY <1>4, <1>5 DEF AuthInv, SameMethod
    <3>2. ~stray /\ ~unasked => InTurn(a.reason)
      BY <1>7, <1>14
    <3>. QED BY <1>1, <1>14, <3>1, <3>2 DEF InTurnUnlessTold
  <2>. QED BY <1>9, <1>10, <1>11, <2>2, <2>4, <2>5, <2>6, <2>7, <2>8, TypeParts DEF AuthInv
<1>. QED BY <1>2, <1>12, <1>13, <1>14

(* The broker has evaluated an AUTH: success, the CONNACK that was kept
   back, the end of the connection, or another challenge.                  *)
LEMMA BrokerSpeaksKeeps ==
  ASSUME AuthInv, BrokerAnswers \/ BrokerAsksAgain
  PROVE  AuthInv'
<1> DEFINE n == Len(toClient) + 1
<1>1. /\ link \in {"connecting", "up"} /\ exchange = "evaluating" /\ Len(toClient) < MaxQueue
      /\ UNCHANGED <<connected, handler, link, toBroker, connects, active_auth_method,
                     auth_in_progress, calling, method, asked, calls, unasked, unsent, stray, offence>>
      /\ rounds' = rounds \/ (rounds < MaxRounds /\ rounds' = rounds + 1)
  BY DEF BrokerAnswers, BrokerAsksAgain, clientAuth, blame
<1>2. method # NoMethod /\ method \in Method
  BY <1>1, TypeParts DEF AuthInv, MethodInv, StateTypes
<1>3. PICK p \in Packets :
        /\ BrokerSends(p)
        /\ \/ /\ p.type = "AUTH" /\ p.reason = "success" /\ p.method = method
              /\ accepted /\ accepted' = accepted /\ exchange' = "idle"
           \/ /\ p.type = "CONNACK" /\ p.method = method
              /\ ~accepted /\ accepted' = TRUE /\ exchange' = "idle"
           \/ p.type = "DISCONNECT" /\ accepted' = accepted /\ exchange' = "none"
           \/ /\ p.type = "AUTH" /\ p.reason = "continue" /\ p.method = method
              /\ accepted' = accepted /\ exchange' = "asked"
  <2>1. CASE /\ accepted /\ BrokerSends(AuthPacket("success", method))
             /\ exchange' = "idle" /\ UNCHANGED accepted
    <3> DEFINE p == AuthPacket("success", method)
    <3>1. /\ p \in Packets /\ p.type = "AUTH" /\ p.reason = "success" /\ p.method = method
          /\ BrokerSends(p)
      BY <1>2, <2>1, IsPacket DEF AuthPacket
    <3> HIDE DEF p
    <3>. QED BY <2>1, <3>1
  <2>2. CASE ~accepted /\ BrokerConnack
    <3> DEFINE p == [type |-> "CONNACK", method |-> method']
    <3>1. p \in Packets /\ p.type = "CONNACK" /\ p.method = method /\ BrokerSends(p)
      BY <1>1, <1>2, <2>2, IsPacket DEF BrokerConnack
    <3> HIDE DEF p
    <3>. QED BY <2>2, <3>1 DEF BrokerConnack
  <2>3. CASE BrokerEnds("DISCONNECT")
    <3> DEFINE p == [type |-> "DISCONNECT"]
    <3>1. p \in Packets /\ p.type = "DISCONNECT" /\ BrokerSends(p)
      BY <2>3, IsPacket DEF BrokerEnds
    <3> HIDE DEF p
    <3>. QED BY <2>3, <3>1 DEF BrokerEnds
  <2>4. CASE BrokerAsks
    <3> DEFINE p == AuthPacket("continue", method')
    <3>1. /\ p \in Packets /\ p.type = "AUTH" /\ p.reason = "continue" /\ p.method = method
          /\ BrokerSends(p)
      BY <1>1, <1>2, <2>4, IsPacket DEF BrokerAsks, AuthPacket
    <3> HIDE DEF p
    <3>. QED BY <2>4, <3>1 DEF BrokerAsks
  <2>. QED BY <2>1, <2>2, <2>3, <2>4 DEF BrokerAnswers, BrokerAsksAgain
<1>4. /\ toClient' \in Seq(Packets) /\ Len(toClient') <= MaxQueue
      /\ \A i \in DOMAIN toClient : /\ i \in DOMAIN toClient' /\ toClient'[i] = toClient[i]
                                    /\ i \in Nat /\ i < n
      /\ n \in DOMAIN toClient' /\ toClient'[n] = p
      /\ \A i \in DOMAIN toClient' : i \in DOMAIN toClient \/ i = n
      /\ \A type : Underway(toClient', type) <=> Underway(toClient, type) \/ p.type = type
      /\ p.type = "AUTH" /\ p.reason = "continue" => LastIsChallenge(toClient')
  BY <1>1, <1>3, BrokerSendsIs
<1>5. \A i \in DOMAIN toClient' :
        \/ i \in DOMAIN toClient /\ toClient'[i] = toClient[i] /\ n > i
        \/ i = n /\ toClient'[i] = p
  <2>1. n \in Nat
    BY TypeFacts
  <2>. QED BY <1>4, <2>1
<1> HIDE DEF n
<1>6. TypeOK'
  <2>1. QueueTypes'
    BY <1>1, <1>4, TypeParts DEF AuthInv, QueueTypes
  <2>2. Bounds'
    <3>1. rounds' \in 0..MaxRounds
      BY <1>1, AuthAssumption, TypeParts DEF AuthInv, Bounds
    <3>. QED BY <1>1, <3>1, TypeParts DEF AuthInv, Bounds
  <2>3. accepted' \in BOOLEAN /\ exchange' \in {"none", "idle", "asked", "evaluating"}
    BY <1>3, TypeParts DEF AuthInv, StateTypes
  <2>4. /\ StateTypes
        /\ UNCHANGED <<connected, handler, link, active_auth_method, auth_in_progress, calling,
                       method, asked, unasked, unsent, stray, offence>>
    BY <1>1, TypeParts DEF AuthInv
  <2>5. StateTypes'
    BY <2>3, <2>4 DEF StateTypes
  <2>. QED BY <2>1, <2>2, <2>5, TypeParts
<1>7. LinkInv'
  <2>1. \A i \in DOMAIN toBroker : toBroker[i].type # "CONNECT"
    BY <1>1 DEF AuthInv, LinkInv
  <2>2. p.type = "CONNACK" =>
          ~connected /\ accepted' /\ \A i \in DOMAIN toClient : toClient[i].type # "CONNACK"
    BY <1>3 DEF AuthInv, LinkInv, Underway
  <2>3. \A i, j \in DOMAIN toClient' :
          toClient'[i].type = "CONNACK" /\ toClient'[j].type = "CONNACK" => i = j
    BY <1>5, <2>2 DEF AuthInv, LinkInv
  <2>4. connected \/ ~accepted' => ~Underway(toClient', "CONNACK")
    <3>1. accepted => accepted'
      BY <1>3
    <3>. QED BY <1>4, <2>2, <3>1 DEF AuthInv, LinkInv
  <2>5. connected => accepted'
    <3>1. accepted => accepted'
      BY <1>3
    <3>2. connected => accepted
      BY DEF AuthInv, LinkInv
    <3>. QED BY <3>1, <3>2
  <2>. QED BY <1>1, <2>1, <2>3, <2>4, <2>5 DEF AuthInv, LinkInv
<1>8. MethodInv'
  <2>1. \A i \in DOMAIN toClient' :
          /\ toClient'[i].type \in {"CONNACK", "AUTH"} => toClient'[i].method = method
          /\ toClient'[i].type = "AUTH" => toClient'[i].reason \in {"continue", "success"}
    BY <1>3, <1>5 DEF AuthInv, MethodInv
  <2>. QED BY <1>1, <1>2, <2>1 DEF AuthInv, MethodInv
<1>9. AskedInv'
  BY <1>3, <1>4 DEF AskedInv
<1>10. OwedInv'
  <2>1. p.type \in Answers
    BY <1>3 DEF Answers
  <2>2. \A i \in DOMAIN toClient' :
          toClient'[i].type = "AUTH" /\ toClient'[i].reason = "continue" =>
            Waits' \/ \E j \in DOMAIN toClient' : j > i /\ toClient'[j].type \in Answers
    BY <1>3, <1>4, <1>5, <2>1 DEF Waits
  <2>3. \E j \in DOMAIN toClient' : toClient'[j].type \in Answers
    BY <1>4, <2>1
  <2>4. accepted' /\ exchange' = "none" => Underway(toClient', "DISCONNECT")
    BY <1>3, <1>4
  <2>5. connected => Waits' \/ Underway(toClient', "AUTH") \/ Underway(toClient', "DISCONNECT")
    BY <1>3, <1>4 DEF AuthInv, LinkInv, Waits
  <2>. QED BY <1>1, <2>2, <2>3, <2>4, <2>5 DEF OwedInv
<1>11. TurnInv'
  <2> SUFFICES ASSUME ~stray PROVE TurnInv'
    BY <1>1 DEF TurnInv
  <2>1. connected /\ accepted
    BY <1>1 DEF AuthInv, TurnInv, LinkInv
  <2>2. ~Underway(toClient', "CONNACK")
    BY <1>3, <1>4, <2>1 DEF AuthInv, LinkInv
  <2>3. ASSUME ~unasked, exchange' # "none" PROVE OneAuth'
    <3>1. OneAuth
      BY <1>1, <2>3 DEF AuthInv, TurnInv
    <3>2. /\ \A i \in DOMAIN toBroker : toBroker[i].type # "AUTH"
          /\ \A i \in DOMAIN toClient : toClient[i].type # "AUTH"
          /\ calling = NoCall /\ ~asked /\ auth_in_progress
      <4>1. \A i \in DOMAIN toBroker : toBroker[i].type # "AUTH"
        BY <1>1, <3>1 DEF OneAuth, InTurn
      <4>2. \A i \in DOMAIN toClient : toClient[i].type # "AUTH"
        BY <1>1, <3>1 DEF OneAuth
      <4>3. calling = NoCall /\ ~asked /\ auth_in_progress
        BY <1>1, <3>1 DEF OneAuth
      <4>. QED BY <4>1, <4>2, <4>3
    <3>3. \A i \in DOMAIN toClient' : toClient'[i].type = "AUTH" => i = n /\ toClient'[i] = p
      BY <1>5, <3>2
    <3>4. /\ p.type = "AUTH" => exchange' = IF p.reason = "continue" THEN "asked" ELSE "idle"
          /\ exchange' # "evaluating"
      BY <1>3
    <3>. QED BY <1>1, <3>2, <3>3, <3>4 DEF OneAuth
  <2>. QED BY <1>1, <2>1, <2>2, <2>3 DEF TurnInv
<1>12. SameMethod' /\ InTurnUnlessTold'
  BY <1>1 DEF AuthInv, SameMethod, InTurnUnlessTold
<1>. QED BY <1>6, <1>7, <1>8, <1>9, <1>10, <1>11, <1>12 DEF AuthInv

LEMMA StepKeeps == AuthInv /\ [Next]_vars => AuthInv'
<1> SUFFICES ASSUME AuthInv, [Next]_vars PROVE AuthInv'
  OBVIOUS
<1>1. CASE \E m \in Method \cup {NoMethod} : Connect(m)
  BY <1>1, ConnectKeeps
<1>2. CASE RecvConnack
  BY <1>2, ConnackKeeps
<1>3. CASE RecvRefusal
  BY <1>3, RefusalKeeps
<1>4. CASE RecvAuth
  BY <1>4, RecvAuthKeeps
<1>5. CASE RecvDisconnect \/ Disconnect
  BY <1>5, DisconnectKeeps DEF RecvDisconnect
<1>6. CASE Break \/ UNCHANGED vars
  BY <1>6, BreakKeeps
<1>7. CASE Answer
  <2>1. calls' \in 0..MaxCalls
    BY <1>7, TypeParts DEF Answer, AuthInv, Bounds
  <2>2. Auth("continue", NoMethod, TRUE)
    BY <1>7 DEF Answer
  <2>. QED BY <2>1, <2>2, AuthKeeps
<1>8. CASE \E reason \in {"continue", "reauth"}, m \in Method \cup {NoMethod}, fits \in BOOLEAN :
             Call(reason, m, fits)
  <2>1. PICK reason \in {"continue", "reauth"}, m \in Method \cup {NoMethod}, fits \in BOOLEAN :
          Call(reason, m, fits)
    BY <1>8
  <2>2. calls' \in 0..MaxCalls
    BY <2>1, AuthAssumption, TypeParts DEF Call, AuthInv, Bounds
  <2>3. Auth(reason, m, fits)
    BY <2>1 DEF Call
  <2>. QED BY <2>2, <2>3, AuthKeeps
<1>9. CASE Write
  BY <1>9, WriteKeeps
<1>10. CASE WriteFails
  BY <1>10, WriteFailsKeeps
<1>11. CASE BrokerReadsConnect
  BY <1>11, BrokerConnectKeeps
<1>12. CASE BrokerReadsAuth
  BY <1>12, BrokerAuthKeeps
<1>13. CASE BrokerAnswers \/ BrokerAsksAgain
  BY <1>13, BrokerSpeaksKeeps
<1>. QED BY <1>1, <1>2, <1>3, <1>4, <1>5, <1>6, <1>7, <1>8, <1>9, <1>10, <1>11, <1>12, <1>13 DEF Next

LEMMA AuthInvariant == Spec => []AuthInv
BY InitHolds, StepKeeps, PTL DEF Spec

-----------------------------------------------------------------------------
(* The theorems                                                            *)

(* The state of the client and of the broker, and the packets between them,
   have the types declared: an AUTH is never sent without a method.        *)
THEOREM TypeCorrect == Spec => []TypeOK
<1>1. AuthInv => TypeOK
  BY DEF AuthInv
<1>. QED BY <1>1, AuthInvariant, PTL

(* While the connection stands, the client that noxmqtt_handler_connack,
   noxmqtt_handler_auth and noxmqtt_auth keep has the broker's method and is
   in an exchange when the broker is, up to what is under way between them
   and to an AUTH that noxmqtt_auth noted and did not write.               *)
THEOREM PeersAgree == Spec => []ExchangeAgrees
<1>1. AuthInv => ExchangeAgrees
  <2> SUFFICES ASSUME AuthInv, connected, link = "up" PROVE ExchangeAgrees
    BY DEF ExchangeAgrees
  <2>1. method # NoMethod => active_auth_method = method
    <3>1. ~Underway(toBroker, "CONNECT")
      BY DEF AuthInv, LinkInv, Underway
    <3>. QED BY <3>1 DEF AuthInv, MethodInv
  <2>2. exchange = "asked" => auth_in_progress \/ Underway(toClient, "AUTH")
    BY DEF AuthInv, AskedInv, LastIsChallenge, Underway
  <2>. QED BY <2>1, <2>2 DEF AuthInv, OwedInv, Waits, ExchangeAgrees
<1>. QED BY <1>1, AuthInvariant, PTL

(* No AUTH that noxmqtt_auth lets through makes the broker end the
   connection, but for one that the application sent unasked, one that names
   a method where CONNECT had none, and one a reconnect overtook.          *)
THEOREM BrokerHasNoQuarrel == Spec => []InTurnUnlessTold
<1>1. AuthInv => InTurnUnlessTold
  BY DEF AuthInv
<1>. QED BY <1>1, AuthInvariant, PTL
=============================================================================
