------------------------ MODULE PersistentProtocol ------------------------
(***************************************************************************)
(* Two PersistentProtocol objects (base/parts/ipc/common/ipc.net.ts), the  *)
(* client's and the server's, over a succession of sockets.  The client's  *)
(* reconnecting loop and handshake are those of                            *)
(* platform/remote/common/remoteAgentConnection.ts; the server side is     *)
(* server/node/remoteExtensionHostAgentServer.ts, which either keeps the   *)
(* socket (a management connection) or hands it over to the extension host *)
(* process (Handover).                                                     *)
(*                                                                         *)
(* A socket is one FIFO stream per direction.  When it breaks, writes to   *)
(* it vanish and each end may still read a prefix of what was in flight.   *)
(* The n-th message given to send() carries the datum n.                   *)
(***************************************************************************)
EXTENDS Integers, Sequences

CONSTANTS
    MaxMsgs,      \* bound: how often each end calls send()
    MaxSockets,   \* bound: sockets opened during the run (the last is stable)
    IdSpace,      \* a wire id is a u32: writeUInt32BE keeps it modulo IdSpace
    Handover      \* TRUE: the server passes the socket to another process

ASSUME ConstantsAssumption ==
    /\ MaxMsgs \in [{"client", "server"} -> Nat]
    /\ MaxSockets \in Nat \ {0}
    /\ IdSpace \in Nat \ {0, 1}
    /\ Handover \in BOOLEAN

VARIABLES
    \* the fields of each PersistentProtocol
    isReconnecting, outgoingUnackMsg, outgoingMsgId, outgoingAckId,
    incomingMsgId, incomingAckId,
    incomingAckTimeout,   \* the timer of _sendAckCheck is armed
    outgoingAckTimeout,   \* the timer of _recvAckCheck is armed
    received,             \* history: the data fired by onMessage
    \* each protocol's ProtocolWriter and socket
    writer, paused, socket,
    \* the network
    wire,                 \* wire[g][p]: what travels to p on socket g
    alive,                \* alive[g]: socket g still carries what is written
    \* the client's reconnecting loop and the server's handshake per socket
    phase, controlBuffer, handshake

protoVars == <<isReconnecting, outgoingUnackMsg, outgoingMsgId, outgoingAckId,
               incomingMsgId, incomingAckId, incomingAckTimeout,
               outgoingAckTimeout, received>>
socketVars == <<writer, paused, socket, wire, alive>>
loopVars == <<phase, controlBuffer, handshake>>
vars == <<isReconnecting, outgoingUnackMsg, outgoingMsgId, outgoingAckId,
          incomingMsgId, incomingAckId, incomingAckTimeout,
          outgoingAckTimeout, received, writer, paused, socket, wire, alive,
          phase, controlBuffer, handshake>>

Ends == {"client", "server"}
Peer(p) == IF p = "client" THEN "server" ELSE "client"
Sockets == 1 .. MaxSockets

ControlTypes == {"auth", "sign", "connectionType", "ok"}
PlainTypes == {"Ack", "KeepAlive", "ReplayRequest", "Pause", "Resume"}
MsgTypes == {"Regular"} \cup PlainTypes \cup ControlTypes

Message == [type : MsgTypes, id : Nat, ack : Nat, data : Nat]

\* A message outside the acknowledged flow: id 0, no datum.
Plain(t, a) == [type |-> t, id |-> 0, ack |-> a, data |-> 0]

Regular(n, a) == [type |-> "Regular", id |-> n, ack |-> a, data |-> n]

\* ProtocolWriter.write: the header keeps 32 bits of id and of ack.
ToWire(m) == [m EXCEPT !.id = @ % IdSpace, !.ack = @ % IdSpace]
AllToWire(s) == [i \in 1 .. Len(s) |-> ToWire(s[i])]

\* ProtocolWriter.write of several messages: they wait for the next flush.
WriterAfter(p, msgs) == [writer EXCEPT ![p] = @ \o AllToWire(msgs)]

\* What travels to q on socket g once msgs have been written to it.
WireAfter(w, g, q, msgs) ==
    IF alive[g] THEN [w EXCEPT ![g][q] = @ \o msgs] ELSE w

\* The protocol attached to p's socket reads the head of its stream.
Reading(p) == wire[socket[p]][p] # <<>>
Incoming(p) == Head(wire[socket[p]][p])
Consume(p) == wire' = [wire EXCEPT ![socket[p]][p] = Tail(@)]

-----------------------------------------------------------------------------
(* Acknowledgements                                                        *)

\* What p acknowledges on everything it writes.
AckValueOneBehind(p) == incomingMsgId[p] - 1
AckValueOneAhead(p) == incomingMsgId[p] + 1
AckValue(p) == incomingMsgId[p]

\* How many messages at the front of q an ack confirms: the do/while loop.
ConfirmedOneMore(q, ack) ==
    CHOOSE k \in 0 .. Len(q) :
        /\ \A i \in 1 .. k : q[i].id <= ack + 1
        /\ k < Len(q) => q[k + 1].id > ack + 1
Confirmed(q, ack) ==
    CHOOSE k \in 0 .. Len(q) :
        /\ \A i \in 1 .. k : q[i].id <= ack
        /\ k < Len(q) => q[k + 1].id > ack

\* The head of _receiveMessage, run for every message whatever its type.
ProcessAck(p, m) ==
    IF m.ack > outgoingAckId[p]
    THEN /\ outgoingAckId' = [outgoingAckId EXCEPT ![p] = m.ack]
         /\ outgoingUnackMsg' =
                [outgoingUnackMsg EXCEPT ![p] =
                    SubSeq(@, Confirmed(@, m.ack) + 1, Len(@))]
    ELSE UNCHANGED <<outgoingAckId, outgoingUnackMsg>>

\* _recvAckCheck arms its timer while something is unacknowledged, unless a
\* reconnection is in progress; an armed timer stays armed.
ArmsAckCheck(p, lastSent, lastAcked, reconnecting) ==
    outgoingAckTimeout' =
        [outgoingAckTimeout EXCEPT ![p] =
            @ \/ (lastSent > lastAcked /\ ~reconnecting)]

\* The message p is waiting for: neither a duplicate nor beyond a gap.
IsNextOrOlder(p, m) == m.id <= incomingMsgId[p] + 1
IsNext(p, m) == m.id = incomingMsgId[p] + 1

\* send() only keeps the message while a reconnection is in progress.
WritesNowAlways(p) == TRUE
WritesNow(p) == ~isReconnecting[p]

-----------------------------------------------------------------------------
(* Operations of one protocol                                              *)

\* send(): keep a copy; write it now unless a reconnection is in progress.
Send(p) ==
    /\ outgoingMsgId[p] < MaxMsgs[p]
    /\ LET myId == outgoingMsgId[p] + 1
           msg == Regular(myId, AckValue(p))
       IN /\ outgoingMsgId' = [outgoingMsgId EXCEPT ![p] = myId]
          /\ incomingAckId' = [incomingAckId EXCEPT ![p] = AckValue(p)]
          /\ outgoingUnackMsg' =
                [outgoingUnackMsg EXCEPT ![p] = Append(@, msg)]
          /\ IF WritesNow(p)
             THEN /\ writer' = WriterAfter(p, <<msg>>)
                  /\ ArmsAckCheck(p, myId, outgoingAckId[p], FALSE)
             ELSE UNCHANGED <<writer, outgoingAckTimeout>>
    /\ UNCHANGED <<isReconnecting, outgoingAckId, incomingMsgId,
                   incomingAckTimeout, received, paused, socket, wire, alive>>
    /\ UNCHANGED loopVars

\* ProtocolWriter._writeNow: everything buffered goes to the socket at once.
Flush(p) ==
    /\ writer[p] # <<>>
    /\ ~paused[p]
    /\ wire' = WireAfter(wire, socket[p], Peer(p), writer[p])
    /\ writer' = [writer EXCEPT ![p] = <<>>]
    /\ UNCHANGED <<paused, socket, alive>>
    /\ UNCHANGED protoVars
    /\ UNCHANGED loopVars

\* The timer of _sendAckCheck: acknowledge what nothing else acknowledged.
\* (When a newer message postponed it, the timer just runs again.)
AckTimer(p) ==
    /\ incomingAckTimeout[p]
    /\ incomingAckTimeout' = [incomingAckTimeout EXCEPT ![p] = FALSE]
    /\ IF incomingMsgId[p] <= incomingAckId[p]
       THEN UNCHANGED <<incomingAckId, writer>>
       ELSE /\ incomingAckId' = [incomingAckId EXCEPT ![p] = AckValue(p)]
            /\ writer' = WriterAfter(p, <<Plain("Ack", AckValue(p))>>)
    /\ UNCHANGED <<isReconnecting, outgoingUnackMsg, outgoingMsgId,
                   outgoingAckId, incomingMsgId, outgoingAckTimeout, received,
                   paused, socket, wire, alive>>
    /\ UNCHANGED loopVars

\* The keep-alive interval.  (One unread keep-alive at a time: a bound.)
KeepAlive(p) ==
    /\ writer[p] = <<>>
    /\ wire[socket[p]][Peer(p)] = <<>>
    /\ incomingAckId' = [incomingAckId EXCEPT ![p] = AckValue(p)]
    /\ writer' = WriterAfter(p, <<Plain("KeepAlive", AckValue(p))>>)
    /\ UNCHANGED <<isReconnecting, outgoingUnackMsg, outgoingMsgId,
                   outgoingAckId, incomingMsgId, incomingAckTimeout,
                   outgoingAckTimeout, received, paused, socket, wire, alive>>
    /\ UNCHANGED loopVars

\* onMessage's Regular case.  A duplicate is dropped; a gap may ask for a
\* replay (at most every 10s); the next message is delivered.
ReceiveRegular(p) ==
    /\ Reading(p)
    /\ Incoming(p).type = "Regular"
    /\ Consume(p)
    /\ ProcessAck(p, Incoming(p))
    /\ IF IsNext(p, Incoming(p))
       THEN /\ incomingMsgId' = [incomingMsgId EXCEPT ![p] = Incoming(p).id]
            /\ incomingAckTimeout' = [incomingAckTimeout EXCEPT ![p] = TRUE]
            /\ received' = [received EXCEPT ![p] = Append(@, Incoming(p).data)]
            /\ UNCHANGED writer
       ELSE /\ UNCHANGED <<incomingMsgId, incomingAckTimeout, received>>
            /\ IF Incoming(p).id > incomingMsgId[p]
               THEN \E ask \in {<<>>, <<Plain("ReplayRequest", 0)>>} :
                        writer' = WriterAfter(p, ask)
               ELSE UNCHANGED writer
    /\ UNCHANGED <<isReconnecting, outgoingMsgId, incomingAckId,
                   outgoingAckTimeout, paused, socket, alive>>
    /\ UNCHANGED loopVars

\* The Ack, KeepAlive, ReplayRequest, Pause and Resume cases.
ReceivePlain(p) ==
    /\ Reading(p)
    /\ Incoming(p).type \in PlainTypes
    /\ Consume(p)
    /\ ProcessAck(p, Incoming(p))
    /\ paused' = [paused EXCEPT ![p] =
                    \/ Incoming(p).type = "Pause"
                    \/ @ /\ Incoming(p).type # "Resume"]
    /\ IF Incoming(p).type = "ReplayRequest"
       THEN /\ writer' = WriterAfter(p, outgoingUnackMsg[p])
            /\ ArmsAckCheck(p, outgoingMsgId[p], outgoingAckId[p],
                            isReconnecting[p])
       ELSE UNCHANGED <<writer, outgoingAckTimeout>>
    /\ UNCHANGED <<isReconnecting, outgoingMsgId, incomingMsgId,
                   incomingAckId, incomingAckTimeout, received, socket, alive>>
    /\ UNCHANGED loopVars

-----------------------------------------------------------------------------
(* The client's reconnecting loop                                          *)

\* endAcceptReconnection: acknowledge again, then everything unacknowledged.
ResyncMessagesOnly(p) == outgoingUnackMsg[p]
ResyncAckOnly(p) == <<Plain("Ack", AckValue(p))>>
Resync(p) == <<Plain("Ack", AckValue(p))>> \o outgoingUnackMsg[p]

EndAcceptReconnectionChecksFirst(p) ==
    /\ isReconnecting' = [isReconnecting EXCEPT ![p] = FALSE]
    /\ incomingAckId' = [incomingAckId EXCEPT ![p] = AckValue(p)]
    /\ ArmsAckCheck(p, outgoingMsgId[p], outgoingAckId[p], isReconnecting[p])
    /\ UNCHANGED <<outgoingUnackMsg, outgoingMsgId, outgoingAckId,
                   incomingMsgId, incomingAckTimeout, received>>

EndAcceptReconnection(p) ==
    /\ isReconnecting' = [isReconnecting EXCEPT ![p] = FALSE]
    /\ incomingAckId' = [incomingAckId EXCEPT ![p] = AckValue(p)]
    /\ ArmsAckCheck(p, outgoingMsgId[p], outgoingAckId[p], FALSE)
    /\ UNCHANGED <<outgoingUnackMsg, outgoingMsgId, outgoingAckId,
                   incomingMsgId, incomingAckTimeout, received>>

\* The timer of _recvAckCheck.  Without an ack for long enough the client's
\* socket timeout event starts the reconnecting loop (nobody listens to the
\* server's) and the timer is not armed again; otherwise it runs again.
AckCheckTimer(p) ==
    /\ outgoingAckTimeout[p]
    /\ outgoingAckTimeout' = [outgoingAckTimeout EXCEPT ![p] = FALSE]
    /\ \/ outgoingMsgId[p] <= outgoingAckId[p] /\ UNCHANGED phase
       \/ isReconnecting[p] /\ UNCHANGED phase
       \/ /\ outgoingMsgId[p] > outgoingAckId[p]
          /\ ~isReconnecting[p]
          /\ socket["client"] < MaxSockets
          /\ phase' = IF p = "client" /\ phase = "up" THEN "lost" ELSE phase
    /\ UNCHANGED <<isReconnecting, outgoingUnackMsg, outgoingMsgId,
                   outgoingAckId, incomingMsgId, incomingAckId,
                   incomingAckTimeout, received, controlBuffer, handshake>>
    /\ UNCHANGED socketVars

\* The network drops a socket (never the last one: a bound).
Break(g) ==
    /\ alive[g]
    /\ g < MaxSockets
    /\ alive' = [alive EXCEPT ![g] = FALSE]
    /\ UNCHANGED <<writer, paused, socket, wire>>
    /\ UNCHANGED protoVars
    /\ UNCHANGED loopVars

\* onSocketClose: nothing more is read.  The client starts its loop, unless
\* it is already in it.
SocketClosed(p) ==
    /\ ~alive[socket[p]]
    /\ \/ Reading(p)
       \/ p = "client" /\ phase = "up"
    /\ wire' = [wire EXCEPT ![socket[p]][p] = <<>>]
    /\ phase' = IF p = "client" /\ phase = "up" THEN "lost" ELSE phase
    /\ UNCHANGED <<writer, paused, socket, alive, controlBuffer, handshake>>
    /\ UNCHANGED protoVars

\* What the listener of readOneControlMessage makes of the next message.
AwaitSign(buffer) ==
    IF buffer = <<>> THEN "awaitSign"
    ELSE IF Head(buffer) = "sign" THEN "signing"
    ELSE "failed"                              \* VSCODE_CONNECTION_ERROR

\* beginAcceptReconnection forgets control messages nobody listened to.
FlushedControlKept == controlBuffer
FlushedControl == <<>>

\* connectToRemoteExtensionHostAgent: a new socket, beginAcceptReconnection,
\* and the auth request.  The old writer is flushed when it is disposed.
BeginReconnect ==
    /\ phase = "lost"
    /\ socket["client"] < MaxSockets
    /\ LET old == socket["client"]
           new == old + 1
           drained == IF paused["client"] THEN <<>> ELSE writer["client"]
       IN /\ wire' = WireAfter(wire, old, "server", drained)
          /\ alive' = [alive EXCEPT ![old] = FALSE, ![new] = TRUE]
          /\ socket' = [socket EXCEPT !["client"] = new]
          /\ handshake' = [handshake EXCEPT ![new] = "waitAuth"]
    /\ isReconnecting' = [isReconnecting EXCEPT !["client"] = TRUE]
    /\ writer' = [writer EXCEPT !["client"] = <<Plain("auth", 0)>>]
    /\ paused' = [paused EXCEPT !["client"] = FALSE]
    /\ controlBuffer' = FlushedControl
    /\ phase' = AwaitSign(controlBuffer')
    /\ UNCHANGED <<outgoingUnackMsg, outgoingMsgId, outgoingAckId,
                   incomingMsgId, incomingAckId, incomingAckTimeout,
                   outgoingAckTimeout, received>>

\* The signature is ready: ask for a connection and listen for its answer.
SendConnectionType ==
    /\ phase = "signing"
    /\ phase' = "awaitOk"
    /\ writer' = WriterAfter("client", <<Plain("connectionType", 0)>>)
    /\ UNCHANGED <<paused, socket, wire, alive, controlBuffer, handshake>>
    /\ UNCHANGED protoVars

\* The handshake takes too long; the loop will try another socket.
HandshakeTimeout ==
    /\ phase \in {"awaitSign", "signing", "awaitOk"}
    /\ socket["client"] < MaxSockets
    /\ phase' = "lost"
    /\ UNCHANGED <<controlBuffer, handshake>>
    /\ UNCHANGED protoVars
    /\ UNCHANGED socketVars

\* A control message reaches the listener of the step the handshake is at,
\* or waits in the BufferedEmitter when there is none.
ReceiveControl ==
    /\ Reading("client")
    /\ Incoming("client").type \in ControlTypes
    /\ Consume("client")
    /\ \/ /\ phase = "awaitSign"
          /\ phase' = AwaitSign(<<Incoming("client").type>>)
          /\ UNCHANGED <<writer, controlBuffer>>
          /\ UNCHANGED protoVars
       \/ /\ phase = "awaitOk"
          /\ phase' = "up"
          /\ writer' = WriterAfter("client", Resync("client"))
          /\ EndAcceptReconnection("client")
          /\ UNCHANGED controlBuffer
       \/ /\ phase \notin {"awaitSign", "awaitOk"}
          /\ controlBuffer' = Append(controlBuffer, Incoming("client").type)
          /\ UNCHANGED <<phase, writer>>
          /\ UNCHANGED protoVars
    /\ UNCHANGED <<paused, socket, alive, handshake>>

-----------------------------------------------------------------------------
(* The server's handshake                                                  *)

\* beginAcceptReconnection and endAcceptReconnection on the server, in one
\* go; w is the network once the handshake has answered.
AcceptReconnection(g, w, farewell) ==
    LET old == socket["server"]
        drained == IF paused["server"] THEN <<>> ELSE writer["server"]
    IN /\ wire' = WireAfter(w, old, "client", drained)
       /\ alive' = [alive EXCEPT ![old] = FALSE]
       /\ socket' = [socket EXCEPT !["server"] = g]
       /\ paused' = [paused EXCEPT !["server"] = FALSE]
       /\ writer' = [writer EXCEPT !["server"] =
                        AllToWire(Resync("server") \o farewell)]
       /\ EndAcceptReconnection("server")

\* A fresh PersistentProtocol reads the socket during the handshake: what is
\* not a control message is lost on it.
HandshakeRead(g) ==
    /\ handshake[g] \in {"waitAuth", "waitType"}
    /\ wire[g]["server"] # <<>>
    /\ LET m == Head(wire[g]["server"])
           rest == [wire EXCEPT ![g]["server"] = Tail(@)]
       IN \/ /\ m.type = "auth" /\ handshake[g] = "waitAuth"
             /\ handshake' = [handshake EXCEPT ![g] = "waitType"]
             /\ wire' = WireAfter(rest, g, "client", <<Plain("sign", 0)>>)
             /\ UNCHANGED <<writer, paused, socket, alive>>
             /\ UNCHANGED protoVars
          \/ /\ m.type = "connectionType" /\ handshake[g] = "waitType"
             /\ Handover
             /\ handshake' = [handshake EXCEPT ![g] = "handover"]
             /\ wire' = WireAfter(rest, g, "client",
                                  <<Plain("Pause", 0), Plain("ok", 0)>>)
             /\ UNCHANGED <<writer, paused, socket, alive>>
             /\ UNCHANGED protoVars
          \/ /\ m.type = "connectionType" /\ handshake[g] = "waitType"
             /\ ~Handover
             /\ handshake' = [handshake EXCEPT ![g] = "done"]
             /\ AcceptReconnection(g,
                    WireAfter(rest, g, "client", <<Plain("ok", 0)>>), <<>>)
          \/ /\ m.type \notin {"auth", "connectionType"}
             /\ wire' = rest
             /\ UNCHANGED <<writer, paused, socket, alive, handshake>>
             /\ UNCHANGED protoVars
    /\ UNCHANGED <<phase, controlBuffer>>

\* Bytes that arrive while the socket is between two processes are lost.
HandoverLoss(g) ==
    /\ handshake[g] = "handover"
    /\ wire[g]["server"] # <<>>
    /\ wire' = [wire EXCEPT ![g]["server"] = Tail(@)]
    /\ UNCHANGED <<writer, paused, socket, alive>>
    /\ UNCHANGED protoVars
    /\ UNCHANGED loopVars

\* The extension host process gets the socket and lets the client write.
HandoverDone(g) ==
    /\ handshake[g] = "handover"
    /\ handshake' = [handshake EXCEPT ![g] = "done"]
    /\ AcceptReconnection(g, wire, <<Plain("Resume", 0)>>)
    /\ UNCHANGED <<phase, controlBuffer>>

-----------------------------------------------------------------------------
Init ==
    /\ isReconnecting = [p \in Ends |-> FALSE]
    /\ outgoingUnackMsg = [p \in Ends |-> <<>>]
    /\ outgoingMsgId = [p \in Ends |-> 0]
    /\ outgoingAckId = [p \in Ends |-> 0]
    /\ incomingMsgId = [p \in Ends |-> 0]
    /\ incomingAckId = [p \in Ends |-> 0]
    /\ incomingAckTimeout = [p \in Ends |-> FALSE]
    /\ outgoingAckTimeout = [p \in Ends |-> FALSE]
    /\ received = [p \in Ends |-> <<>>]
    /\ writer = [p \in Ends |-> <<>>]
    /\ paused = [p \in Ends |-> FALSE]
    /\ socket = [p \in Ends |-> 1]
    /\ wire = [g \in Sockets |-> [p \in Ends |-> <<>>]]
    /\ alive = [g \in Sockets |-> g = 1]
    /\ phase = "up"
    /\ controlBuffer = <<>>
    /\ handshake = [g \in Sockets |-> IF g = 1 THEN "done" ELSE "none"]

Next ==
    \/ \E p \in Ends :
          \/ Send(p) \/ Flush(p) \/ AckTimer(p) \/ KeepAlive(p)
          \/ ReceiveRegular(p) \/ ReceivePlain(p)
          \/ AckCheckTimer(p) \/ SocketClosed(p)
    \/ BeginReconnect \/ SendConnectionType \/ HandshakeTimeout
    \/ ReceiveControl
    \/ \E g \in Sockets :
          Break(g) \/ HandshakeRead(g) \/ HandoverLoss(g) \/ HandoverDone(g)

Spec == Init /\ [][Next]_vars

\* Timers fire, sockets are read and written, and the loop goes on.  Nothing
\* makes the network, the application or the keep-alive do anything.
Fairness ==
    /\ \A p \in Ends :
          /\ WF_vars(Flush(p)) /\ WF_vars(AckTimer(p))
          /\ WF_vars(ReceiveRegular(p)) /\ WF_vars(ReceivePlain(p))
          /\ WF_vars(SocketClosed(p))
    /\ WF_vars(BeginReconnect) /\ WF_vars(SendConnectionType)
    /\ WF_vars(ReceiveControl)
    /\ WF_vars(~alive[socket["client"]] /\ HandshakeTimeout)
    /\ \A g \in Sockets : WF_vars(HandshakeRead(g)) /\ WF_vars(HandoverDone(g))

LiveSpec == Spec /\ Fairness

-----------------------------------------------------------------------------
(* Properties                                                              *)

TypeOK ==
    /\ isReconnecting \in [Ends -> BOOLEAN]
    /\ outgoingUnackMsg \in [Ends -> Seq(Message)]
    /\ outgoingMsgId \in [Ends -> Nat]
    /\ outgoingAckId \in [Ends -> Nat]
    /\ incomingMsgId \in [Ends -> Nat]
    /\ incomingAckId \in [Ends -> Nat]
    /\ incomingAckTimeout \in [Ends -> BOOLEAN]
    /\ outgoingAckTimeout \in [Ends -> BOOLEAN]
    /\ received \in [Ends -> Seq(Nat)]
    /\ writer \in [Ends -> Seq(Message)]
    /\ paused \in [Ends -> BOOLEAN]
    /\ socket \in [Ends -> Sockets]
    /\ wire \in [Sockets -> [Ends -> Seq(Message)]]
    /\ alive \in [Sockets -> BOOLEAN]
    /\ phase \in {"up", "lost", "awaitSign", "signing", "awaitOk", "failed"}
    /\ controlBuffer \in Seq(ControlTypes)
    /\ handshake \in
         [Sockets -> {"none", "waitAuth", "waitType", "handover", "done"}]

\* Whatever sockets break, overlap or are retried, the application at each
\* end gets the other end's messages once each and in the order of send().
ExactlyOnceInOrder ==
    \A p \in Ends :
        /\ received[p] = [n \in 1 .. incomingMsgId[p] |-> n]
        /\ incomingMsgId[p] <= outgoingMsgId[Peer(p)]

\* A sender lets go of its copy of a message only once the application at
\* the other end has been given it: the copies kept are exactly the ones
\* above outgoingAckId, and that is never ahead of what was received.
KeptUntilReceived ==
    \A p \in Ends :
        /\ outgoingAckId[p] <= incomingMsgId[Peer(p)]
        /\ Len(outgoingUnackMsg[p]) = outgoingMsgId[p] - outgoingAckId[p]
        /\ \A i \in 1 .. Len(outgoingUnackMsg[p]) :
              outgoingUnackMsg[p][i].id = outgoingAckId[p] + i

\* What endAcceptReconnection writes again is always enough: a protocol never
\* reads a message beyond the one it expects, so no replay is ever requested.
ReplayNeverNeeded ==
    \A p \in Ends :
        Reading(p) /\ Incoming(p).type = "Regular"
            => Incoming(p).id <= incomingMsgId[p] + 1

\* The short-lived protocol of the server's handshake, and the time the
\* socket spends between two processes, never swallow an application message.
HandshakeSwallowsNothing ==
    \A g \in Sockets :
        handshake[g] \in {"waitAuth", "waitType", "handover"}
            => \A i \in 1 .. Len(wire[g]["server"]) :
                    wire[g]["server"][i].type # "Regular"

\* A late answer to an abandoned handshake is never taken for an answer of
\* the current one, which would be a permanent connection failure.
StaleAnswerNeverFatal == phase # "failed"

\* While the client believes it is connected, its protocol is not left mute
\* in a reconnection, and unacknowledged messages are watched by a timer.
ConnectedIsWatched ==
    phase = "up" =>
        /\ ~isReconnecting["client"]
        /\ outgoingMsgId["client"] > outgoingAckId["client"]
              => outgoingAckTimeout["client"]

\* Once the client's socket stays alive, every message either end has sent
\* is acknowledged: received, and no longer kept by its sender.
EverythingAcknowledged ==
    <>[]alive[socket["client"]] =>
        \A p \in Ends :
            []<>(outgoingAckId[p] = outgoingMsgId[p])

-----------------------------------------------------------------------------
(* Refinement                                                              *)

\* Both directions of the connection are a reliable channel: sockets,
\* handshakes and retransmissions are invisible to the application.
Channel == INSTANCE ReliableChannel
    WITH sent <- outgoingMsgId, forgotten <- outgoingAckId
ChannelSpec == Channel!ChSpec
=============================================================================
