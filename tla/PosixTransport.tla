--------------------------- MODULE PosixTransport ---------------------------
(***************************************************************************)
(* The threads that share one client over the POSIX TCP transport: the     *)
(* application's thread ("main"), the worker that polls noxmqtt_process,   *)
(* and one receive thread for every successful noxmqtt_transport_connect.  *)
(* Nothing is locked, so a step is one read or write of a shared field and *)
(* the threads interleave freely between steps.                            *)
(*                                                                         *)
(* todo[a] is what is left of the call thread a is in, as a stack of       *)
(* labels; each label is one action.  Reading socket_fd and the system     *)
(* call it is the argument of are one step, except for recv, which blocks. *)
(* The status flags are bit-fields of one byte: a function that sets all   *)
(* of them stores the byte, one that sets ping_outstanding alone loads the *)
(* byte and stores it back, and a store in between is lost.                *)
(***************************************************************************)
EXTENDS Naturals, Sequences, FiniteSets

CONSTANTS
  MaxSockets,         \* bound: sockets opened, and receive threads created
  Waits,              \* the application calls noxmqtt_transport_wait after
                      \*   each noxmqtt_disconnect
  DisconnectsWithAuto, \* the application may disconnect a client that has
                      \*   automatic reconnects enabled, and use it again
  EndsWithAuto        \* and main() may end with such a client

ASSUME TransportAssumption == /\ MaxSockets \in Nat \ {0}
                              /\ Waits \in BOOLEAN
                              /\ DisconnectsWithAuto \in BOOLEAN
                              /\ EndsWithAuto \in BOOLEAN

Sockets   == 1..MaxSockets
Receivers == 1..MaxSockets
Main      == MaxSockets + 1
Worker    == MaxSockets + 2
Threads   == Receivers \cup {Main, Worker}

NoSocket  == 0                             \* socket_fd = -1

VARIABLES
  \* noxmqtt_client_t
  auto,          \* ~last_conf.server.disable_auto_reconnect
  connected,     \* status.connected
  pending,       \* status.reconnect_pending
  due,           \* now >= next_reconnect_ms
  \* noxmqtt_posix_transport_t and the global of the port
  running,       \* ctx->running
  socket_fd,     \* ctx->socket_fd
  last_thread,   \* noxmqtt_last_thread, 0 when it is not valid
  \* the operating system and the broker
  sock,          \* state of every socket
  srv,           \* what the broker has done with the connection on a socket
  \* the threads
  todo,
  rx,            \* the descriptor a receive thread passed to recv
  thread,        \* "none", "alive" or "done" for every receive thread
  app,           \* "running", "stopping" (app->running = 0) or "freed"
  byte,          \* the status byte a thread has loaded to change one bit
  wanted,        \* history: the last call of the application was connect
  overwritten,   \* history: a store of the status byte was lost
  revived        \* history: a reconnect started a receive thread although the
                 \*   application had disconnected

client    == <<auto, connected, pending, due>>
transport == <<running, socket_fd, last_thread>>
world     == <<sock, srv>>
race      == <<byte, overwritten, revived>>
vars == <<client, transport, world, todo, rx, thread, app, race, wanted>>

-----------------------------------------------------------------------------
(* What the calls consist of.                                              *)

Cleanup     == <<"close", "unset">>
NoxConnect  == <<"flags", "open">>
GoodBye     == <<"bye", "stop">> \o Cleanup \o <<"reset">>
MarkPing    == <<"load", "store">>
Lost        == <<"stop">> \o Cleanup \o <<"notify">>

At(a, label) == todo[a] # <<>> /\ Head(todo[a]) = label

\* Thread a is done with its current label and continues with labels, then
\* with the rest of its call.
Goto(a, labels) == todo' = [todo EXCEPT ![a] = labels \o Tail(@)]
Proceed(a)      == Goto(a, <<>>)

Unused(f) == {s \in Sockets : f[s] = "none"}
First(S)  == CHOOSE s \in S : \A t \in S : s <= t

\* A thread that needs something from outside, or a time-out, to go on.
Blocked(a) ==
  \/ todo[a] = <<>>
  \/ /\ At(a, "recv")
     /\ rx[a] # NoSocket
     /\ sock[rx[a]] = "open"
  \/ /\ At(a, "wait")
     /\ last_thread # 0
     /\ thread[last_thread] = "alive"
  \/ /\ At(a, "join_worker")
     /\ todo[Worker] # <<>>

-----------------------------------------------------------------------------
Init ==
  /\ auto \in BOOLEAN
  /\ connected = FALSE /\ pending = FALSE /\ due = FALSE
  /\ running = FALSE /\ socket_fd = NoSocket /\ last_thread = 0
  /\ sock = [s \in Sockets |-> "none"]
  /\ srv = [s \in Sockets |-> "none"]
  /\ todo = [a \in Threads |-> <<>>]
  /\ rx = [k \in Receivers |-> NoSocket]
  /\ thread = [k \in Receivers |-> "none"]
  /\ app = "running"
  /\ byte = [a \in Threads |-> <<FALSE, FALSE>>]
  /\ wanted = FALSE
  /\ overwritten = FALSE
  /\ revived = FALSE

-----------------------------------------------------------------------------
(* The application.  With automatic reconnects it connects once; otherwise *)
(* it connects again only after it has disconnected.                       *)

Connect ==
  /\ app = "running" /\ todo[Main] = <<>> /\ ~wanted
  /\ todo' = [todo EXCEPT ![Main] = NoxConnect]
  /\ wanted' = TRUE
  /\ UNCHANGED <<client, transport, world, rx, thread, app, race>>

MayDisconnect ==
  app = "running" /\ todo[Main] = <<>> /\ wanted

Disconnect ==
  /\ MayDisconnect
  /\ auto => DisconnectsWithAuto
  /\ todo' = [todo EXCEPT ![Main] =
                GoodBye \o (IF Waits THEN <<"wait">> ELSE <<>>)]
  /\ wanted' = FALSE
  /\ UNCHANGED <<client, transport, world, rx, thread, app, race>>

\* The end of main().
Shutdown ==
  /\ MayDisconnect
  /\ auto => EndsWithAuto
  /\ todo' = [todo EXCEPT ![Main] =
                GoodBye \o <<"wait", "stop_worker", "join_worker", "deinit">>]
  /\ wanted' = FALSE
  /\ UNCHANGED <<client, transport, world, rx, thread, app, race>>

StopWorker ==
  /\ At(Main, "stop_worker")
  /\ app' = "stopping"
  /\ Proceed(Main)
  /\ UNCHANGED <<client, transport, world, rx, thread, race, wanted>>

\* Mutant: asks the worker to stop and does not join it.
JoinWorkerNot ==
  /\ At(Main, "join_worker")
  /\ Proceed(Main)
  /\ UNCHANGED <<client, transport, world, rx, thread, app, race, wanted>>

JoinWorker ==
  /\ At(Main, "join_worker")
  /\ todo[Worker] = <<>>
  /\ Proceed(Main)
  /\ UNCHANGED <<client, transport, world, rx, thread, app, race, wanted>>

Deinit ==
  /\ At(Main, "deinit")
  /\ Goto(Main, (IF connected THEN GoodBye ELSE <<>>) \o <<"free">>)
  /\ UNCHANGED <<client, transport, world, rx, thread, app, race, wanted>>

Free ==
  /\ At(Main, "free")
  /\ app' = "freed"
  /\ Proceed(Main)
  /\ UNCHANGED <<client, transport, world, rx, thread, race, wanted>>

\* Mutant: returns although the receive thread is alive.
TransportWaitReturnsAtOnce ==
  /\ At(Main, "wait")
  /\ last_thread' = 0
  /\ Proceed(Main)
  /\ UNCHANGED <<client, running, socket_fd, world, rx, thread, app, race, wanted>>

TransportWait ==
  /\ At(Main, "wait")
  /\ last_thread # 0 => thread[last_thread] = "done"
  /\ last_thread' = 0
  /\ Proceed(Main)
  /\ UNCHANGED <<client, running, socket_fd, world, rx, thread, app, race, wanted>>

-----------------------------------------------------------------------------
(* noxmqtt_connect                                                         *)

Flags(a) ==
  /\ At(a, "flags")
  /\ connected' = FALSE /\ pending' = FALSE /\ due' = FALSE
  /\ Proceed(a)
  /\ UNCHANGED <<auto, transport, world, rx, thread, app, race, wanted>>

Open(a) ==
  /\ At(a, "open")
  /\ Unused(sock) # {}
  /\ LET s == First(Unused(sock)) IN
       /\ sock' = [sock EXCEPT ![s] = "open"]
       /\ socket_fd' = s
  /\ Goto(a, <<"start">>)
  /\ UNCHANGED <<client, running, last_thread, srv, rx, thread, app, race, wanted>>

OpenFails(a) ==
  /\ At(a, "open")
  /\ Proceed(a)
  /\ UNCHANGED <<client, transport, world, rx, thread, app, race, wanted>>

\* Mutant: forgets to record the thread for noxmqtt_transport_wait.
StartUnrecorded(a) ==
  /\ At(a, "start")
  /\ LET k == First(Unused(thread)) IN
       /\ thread' = [thread EXCEPT ![k] = "alive"]
       /\ todo' = [todo EXCEPT ![k] = <<"loop">>,
                               ![a] = <<"hello">> \o Tail(@)]
  /\ running' = TRUE
  /\ revived' = (revived \/ ~wanted)
  /\ UNCHANGED <<client, socket_fd, last_thread, world, rx, app, byte, overwritten, wanted>>

Start(a) ==
  /\ At(a, "start")
  /\ LET k == First(Unused(thread)) IN
       /\ thread' = [thread EXCEPT ![k] = "alive"]
       /\ todo' = [todo EXCEPT ![k] = <<"loop">>,
                               ![a] = <<"hello">> \o Tail(@)]
       /\ last_thread' = k
  /\ running' = TRUE
  /\ revived' = (revived \/ ~wanted)
  /\ UNCHANGED <<client, socket_fd, world, rx, app, byte, overwritten, wanted>>

StartFails(a) ==
  /\ At(a, "start")
  /\ running' = FALSE
  /\ Goto(a, Cleanup)
  /\ UNCHANGED <<client, socket_fd, last_thread, world, rx, thread, app, race, wanted>>

\* A send on a closed descriptor fails; one on an open socket may fail.
SendWorks == socket_fd # NoSocket /\ sock[socket_fd] = "open"

Hello(a) ==
  /\ At(a, "hello")
  /\ SendWorks
  /\ srv' = [srv EXCEPT ![socket_fd] = "asked"]
  /\ Proceed(a)
  /\ UNCHANGED <<client, transport, sock, rx, thread, app, race, wanted>>

HelloFails(a) ==
  /\ At(a, "hello")
  /\ Goto(a, Cleanup)
  /\ UNCHANGED <<client, transport, world, rx, thread, app, race, wanted>>

-----------------------------------------------------------------------------
(* noxmqtt_disconnect_ex, noxmqtt_transport_disconnect and                 *)
(* noxmqtt_transport_notify_disconnected                                   *)

Bye(a) ==
  /\ At(a, "bye")
  /\ \/ (connected => SendWorks) /\ Proceed(a)
     \/ connected /\ Goto(a, Cleanup)
  /\ UNCHANGED <<client, transport, world, rx, thread, app, race, wanted>>

Stop(a) ==
  /\ At(a, "stop")
  /\ running' = FALSE
  /\ Proceed(a)
  /\ UNCHANGED <<client, socket_fd, last_thread, world, rx, thread, app, race, wanted>>

\* shutdown() and close(), which make a recv blocked on the socket return.
\* There is nothing to clean up, or to unset, when the descriptor is -1.
Close(a) ==
  /\ At(a, "close")
  /\ IF socket_fd = NoSocket
     THEN todo' = [todo EXCEPT ![a] = Tail(Tail(@))] /\ UNCHANGED sock
     ELSE Proceed(a) /\ sock' = [sock EXCEPT ![socket_fd] = "closed"]
  /\ UNCHANGED <<client, transport, srv, rx, thread, app, race, wanted>>

Unset(a) ==
  /\ At(a, "unset")
  /\ socket_fd' = NoSocket
  /\ Proceed(a)
  /\ UNCHANGED <<client, running, last_thread, world, rx, thread, app, race, wanted>>

Reset(a) ==
  /\ At(a, "reset")
  /\ connected' = FALSE /\ pending' = FALSE /\ due' = FALSE
  /\ Proceed(a)
  /\ UNCHANGED <<auto, transport, world, rx, thread, app, race, wanted>>

\* connected = 0, and a reconnect is scheduled unless it is disabled.
DropSession ==
  /\ connected' = FALSE
  /\ pending' = auto
  /\ due' = FALSE

NotifyDisconnected(a) ==
  /\ At(a, "notify")
  /\ DropSession
  /\ Proceed(a)
  /\ UNCHANGED <<auto, transport, world, rx, thread, app, race, wanted>>

-----------------------------------------------------------------------------
(* noxmqtt_process, polled by the worker and called by a receive thread    *)
(* after every recv that did not end the connection.                       *)

\* ping_outstanding = 1 or 0, in the byte that holds connected and
\* reconnect_pending.
LoadStatus(a) ==
  /\ At(a, "load")
  /\ byte' = [byte EXCEPT ![a] = <<connected, pending>>]
  /\ Proceed(a)
  /\ UNCHANGED <<client, transport, world, rx, thread, app, wanted, overwritten, revived>>

StoreStatus(a) ==
  /\ At(a, "store")
  /\ connected' = byte[a][1] /\ pending' = byte[a][2]
  /\ overwritten' = (overwritten \/ byte[a] # <<connected, pending>>)
  /\ byte' = [byte EXCEPT ![a] = <<FALSE, FALSE>>]
  /\ Proceed(a)
  /\ UNCHANGED <<auto, due, transport, world, rx, thread, app, wanted, revived>>

\* Thread a, with rest left to do afterwards, runs one call of process.
ProcessCall(a, rest) ==
  \/ /\ ~connected /\ pending /\ due /\ auto
     /\ pending' = FALSE /\ due' = FALSE
     /\ todo' = [todo EXCEPT ![a] = NoxConnect \o rest]
     /\ UNCHANGED <<auto, connected>>
  \/ /\ connected /\ SendWorks          \* PINGREQ
     /\ todo' = [todo EXCEPT ![a] = MarkPing \o rest]
     /\ UNCHANGED client
  \/ /\ connected                       \* a queued PUBLISH or PINGREQ failed
     /\ todo' = [todo EXCEPT ![a] = Cleanup \o rest]
     /\ UNCHANGED client
  \/ /\ connected                       \* PINGREQ was not answered in time
     /\ todo' = [todo EXCEPT ![a] = Lost \o rest]
     /\ UNCHANGED client

WorkerPolls ==
  /\ todo[Worker] = <<>> /\ app = "running"
  /\ ProcessCall(Worker, <<>>)
  /\ UNCHANGED <<transport, world, rx, thread, app, race, wanted>>

ReceiverProcesses(k) ==
  /\ At(k, "process")
  /\ \/ ProcessCall(k, Tail(todo[k]))
     \/ ~(~connected /\ pending /\ due) /\ Proceed(k) /\ UNCHANGED client
  /\ UNCHANGED <<transport, world, rx, thread, app, race, wanted>>

\* now reaches next_reconnect_ms.  The delay is taken to be longer than any
\* thread needs to reach its next blocking call.
DelayPasses ==
  /\ pending /\ ~due
  /\ \A a \in Threads : Blocked(a)
  /\ due' = TRUE
  /\ UNCHANGED <<auto, connected, pending, transport, world, todo, rx, thread,
                 app, race, wanted>>

-----------------------------------------------------------------------------
(* noxmqtt_transport_receive_thread of receive thread k                    *)

\* Mutant: does not test running.
LoopForever(k) ==
  /\ At(k, "loop")
  /\ rx' = [rx EXCEPT ![k] = socket_fd]
  /\ Goto(k, <<"recv">>)
  /\ UNCHANGED <<client, transport, world, thread, app, race, wanted>>

Loop(k) ==
  /\ At(k, "loop")
  /\ IF running
     THEN /\ rx' = [rx EXCEPT ![k] = socket_fd]
          /\ Goto(k, <<"recv">>)
          /\ UNCHANGED thread
     ELSE /\ thread' = [thread EXCEPT ![k] = "done"]
          /\ Proceed(k)
          /\ UNCHANGED rx
  /\ UNCHANGED <<client, transport, world, app, race, wanted>>

RecvIsOpen(k) == rx[k] # NoSocket /\ sock[rx[k]] = "open"

RecvConnack(k) ==
  /\ At(k, "recv") /\ RecvIsOpen(k)
  /\ srv[rx[k]] = "asked"
  /\ srv' = [srv EXCEPT ![rx[k]] = "answered"]
  /\ Goto(k, <<"connack", "process", "loop">>)
  /\ UNCHANGED <<client, transport, sock, rx, thread, app, race, wanted>>

RecvDisconnect(k) ==
  /\ At(k, "recv") /\ RecvIsOpen(k)
  /\ srv[rx[k]] = "answered"
  /\ srv' = [srv EXCEPT ![rx[k]] = "left"]
  /\ Goto(k, <<"disconnect_packet", "process", "loop">>)
  /\ UNCHANGED <<client, transport, sock, rx, thread, app, race, wanted>>

\* A time-out; or a packet that touches none of this state, a PINGRESP, or a
\* packet whose answer cannot be sent.
RecvOther(k) ==
  /\ At(k, "recv") /\ RecvIsOpen(k)
  /\ \E work \in {<<>>, MarkPing, Cleanup} :
       Goto(k, work \o <<"process", "loop">>)
  /\ UNCHANGED <<client, transport, world, rx, thread, app, race, wanted>>

\* Mutant: takes the end of the stream for one the client asked for.
RecvEofSilently(k) ==
  /\ At(k, "recv") /\ rx[k] # NoSocket
  /\ Goto(k, <<"stop">> \o Cleanup \o <<"exit">>)
  /\ UNCHANGED <<client, transport, world, rx, thread, app, race, wanted>>

\* The peer, or another thread of this process, closed the connection.
RecvEof(k) ==
  /\ At(k, "recv") /\ rx[k] # NoSocket
  /\ Goto(k, Lost \o <<"exit">>)
  /\ UNCHANGED <<client, transport, world, rx, thread, app, race, wanted>>

\* A reset connection or a descriptor that is not open.  The loop goes on.
RecvError(k) ==
  /\ At(k, "recv")
  /\ Goto(k, Lost \o <<"loop">>)
  /\ UNCHANGED <<client, transport, world, rx, thread, app, race, wanted>>

HandleConnack(k) ==
  /\ At(k, "connack")
  /\ connected' = TRUE /\ pending' = FALSE /\ due' = FALSE
  /\ \/ Proceed(k)
     \/ Goto(k, Cleanup)                \* resubscribing or replaying failed
  /\ UNCHANGED <<auto, transport, world, rx, thread, app, race, wanted>>

HandleDisconnectPacket(k) ==
  /\ At(k, "disconnect_packet")
  /\ DropSession
  /\ Goto(k, <<"stop">> \o Cleanup)
  /\ UNCHANGED <<auto, transport, world, rx, thread, app, race, wanted>>

\* Mutant: leaves thread_started set.
ExitStillStarted(k) ==
  /\ At(k, "exit")
  /\ Proceed(k)
  /\ UNCHANGED <<client, transport, world, rx, thread, app, race, wanted>>

Exit(k) ==
  /\ At(k, "exit")
  /\ thread' = [thread EXCEPT ![k] = "done"]
  /\ Proceed(k)
  /\ UNCHANGED <<client, transport, world, rx, app, race, wanted>>

-----------------------------------------------------------------------------
ConnectStep(a) ==
  \/ Flags(a) \/ Open(a) \/ OpenFails(a) \/ Start(a) \/ StartFails(a)
  \/ Hello(a) \/ HelloFails(a)

DisconnectStep(a) ==
  Bye(a) \/ Stop(a) \/ Close(a) \/ Unset(a) \/ Reset(a) \/ NotifyDisconnected(a)

ReceiverStep(k) ==
  \/ Loop(k) \/ ReceiverProcesses(k) \/ Exit(k)
  \/ RecvConnack(k) \/ RecvDisconnect(k) \/ RecvOther(k)
  \/ RecvEof(k) \/ RecvError(k)
  \/ HandleConnack(k) \/ HandleDisconnectPacket(k)

MainStep == TransportWait \/ StopWorker \/ JoinWorker \/ Deinit \/ Free

CallStep(a) ==
  \/ ConnectStep(a)
  \/ DisconnectStep(a)
  \/ LoadStatus(a) \/ StoreStatus(a)
  \/ a \in Receivers /\ ReceiverStep(a)
  \/ a = Main /\ MainStep

Next ==
  \/ Connect \/ Disconnect \/ Shutdown
  \/ WorkerPolls \/ DelayPasses
  \/ \E a \in Threads : CallStep(a)

\* A thread inside a call goes on; nothing makes the application, the worker
\* or the delay start anything.
Fairness == \A a \in Threads : WF_vars(CallStep(a))

Spec == Init /\ [][Next]_vars /\ Fairness

-----------------------------------------------------------------------------
(* Properties                                                              *)

\* Every variable stays in its range, and every thread at a label of its
\* code (noxmqtt_transport_posix.c, main.c).
TypeOK ==
  /\ {auto, connected, pending, due, running, wanted, revived}
       \subseteq BOOLEAN
  /\ socket_fd \in 0..MaxSockets /\ last_thread \in 0..MaxSockets
  /\ sock \in [Sockets -> {"none", "open", "closed"}]
  /\ srv \in [Sockets -> {"none", "asked", "answered", "left"}]
  /\ rx \in [Receivers -> 0..MaxSockets]
  /\ thread \in [Receivers -> {"none", "alive", "done"}]
  /\ app \in {"running", "stopping", "freed"}
  /\ \A k \in Receivers : (thread[k] = "alive") <=> (todo[k] # <<>>)

\* At most one receive thread is alive: rx_buffer is local to it, but
\* rcv_buf, rcv_offset and every handler it runs belong to the client, and
\* none of them is locked.
OneReceiver == Cardinality({k \in Receivers : thread[k] = "alive"}) <= 1

\* A receive thread that ends its connection closes the socket it was
\* reading, never the socket of a newer connection.  ctx->socket_fd is
\* shared, and cleanup closes whatever it holds by then.
ClosesOnlyItsOwn ==
  [][\A k \in Receivers, s \in Sockets :
       At(k, "close") /\ todo'[k] # todo[k] /\ sock[s] = "open"
         => sock'[s] = "open" \/ s = rx[k]]_vars

\* When noxmqtt_deinit frees the client and its transport context the worker
\* is not inside the library any more.  Nor is a receive thread, except one
\* that a reconnect of the worker has started since the application
\* disconnected: the disconnect of main() does not stop such a reconnect, its
\* wait may be over by then, and the thread goes on with freed memory.
FreedWhenQuiet ==
  app = "freed" => /\ todo[Worker] = <<>>
                   /\ revived \/ \A k \in Receivers : todo[k] = <<>>

\* noxmqtt_transport_wait after a disconnect returns: the receive thread
\* terminates whatever it was doing when running was cleared, unless a
\* reconnect sets running again and starts another one.
WaitReturns == At(Main, "wait") ~> (~At(Main, "wait") \/ revived)

\* A client that reconnects by itself and believes to be connected, but
\* whose socket a failed send or an unanswered ping has closed, is told so by
\* one of its threads, unless a store of the status byte was lost: without
\* that it would never reconnect.
LossIsNoticed ==
  (auto /\ connected /\ \A s \in Sockets : sock[s] # "open")
    ~> (~connected \/ overwritten)

\* Once a disconnect the application asked for is over, the client opens no
\* connection of its own: "Disconnects from the broker." (noxmqtt.h)
DisconnectIsFinal ==
  [][~wanted /\ todo[Main] = <<>> => ~\E a \in Threads : Open(a)]_vars
=============================================================================
