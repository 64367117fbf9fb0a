--------------------- MODULE PersistentProtocolProofs ---------------------
(***************************************************************************)
(* Proofs about PersistentProtocol, for every value of its constants.  The *)
(* one hypothesis on them, IdsFit, says that the ids of a connection do    *)
(* not overflow the header.                                                *)
(*                                                                         *)
(* The inductive invariant IInv says of every message, wherever it is      *)
(* (kept for retransmission, buffered by a writer, in flight on a live or  *)
(* an abandoned socket), that its sender can stand by it: it carries an    *)
(* ack of no more than the sender has received and, if it is a Regular     *)
(* message, an id the sender has given out and the datum of that id.       *)
(*                                                                         *)
(* SocketInv adds what IInv does not say, the order of things: what a      *)
(* socket may carry while its handshake is at a given step, where the      *)
(* client's loop can be by then, and that what each end is yet to read, in *)
(* flight and buffered, has no gap in the application's messages.          *)
(***************************************************************************)
EXTENDS PersistentProtocol, SequenceTheorems, TLAPS

IdsFit == \A p \in Ends : MaxMsgs[p] < IdSpace

\* m can come from an end that has sent `out' messages and received `in'.
Ok(m, out, in) ==
    /\ m \in Message
    /\ m.ack <= in
    /\ m.type = "Regular" => m.id = m.data /\ m.id \in 1 .. out

OkSeq(s, out, in) ==
    /\ s \in Seq(Message)
    /\ \A i \in 1 .. Len(s) : Ok(s[i], out, in)

\* The same for every end, and for everything in flight: what travels to p
\* comes from p's peer.
OkPerEnd(f, out, in) ==
    /\ f \in [Ends -> Seq(Message)]
    /\ \A p \in Ends : OkSeq(f[p], out[p], in[p])

OkWire(w, out, in) ==
    /\ w \in [Sockets -> [Ends -> Seq(Message)]]
    /\ \A g \in Sockets, p \in Ends : OkSeq(w[g][p], out[Peer(p)], in[Peer(p)])

Types ==
    /\ isReconnecting \in [Ends -> BOOLEAN]
    /\ incomingAckId \in [Ends -> Nat]
    /\ incomingAckTimeout \in [Ends -> BOOLEAN]
    /\ outgoingAckTimeout \in [Ends -> BOOLEAN]
    /\ paused \in [Ends -> BOOLEAN]
    /\ socket \in [Ends -> Sockets]
    /\ alive \in [Sockets -> BOOLEAN]
    /\ phase \in {"up", "lost", "awaitSign", "signing", "awaitOk", "failed"}
    /\ controlBuffer \in Seq(ControlTypes)
    /\ handshake \in
         [Sockets -> {"none", "waitAuth", "waitType", "handover", "done"}]

\* What one end knows of the other.
Counters ==
    /\ outgoingMsgId \in [Ends -> Nat]
    /\ outgoingAckId \in [Ends -> Nat]
    /\ incomingMsgId \in [Ends -> Nat]
    /\ received \in [Ends -> Seq(Nat)]
    /\ \A p \in Ends :
          /\ outgoingMsgId[p] <= MaxMsgs[p]
          /\ incomingMsgId[p] <= outgoingMsgId[Peer(p)]
          /\ outgoingAckId[p] <= incomingMsgId[Peer(p)]
          /\ received[p] = [n \in 1 .. incomingMsgId[p] |-> n]

\* The copies a sender keeps are those above outgoingAckId.
Consecutive(q, first, last) ==
    /\ Len(q) = last - first
    /\ \A i \in 1 .. Len(q) : q[i].id = first + i

Kept ==
    /\ OkPerEnd(outgoingUnackMsg, outgoingMsgId, incomingMsgId)
    /\ \A p \in Ends :
          Consecutive(outgoingUnackMsg[p], outgoingAckId[p], outgoingMsgId[p])

\* What is buffered by a writer, and what is in flight.
Written == OkPerEnd(writer, outgoingMsgId, incomingMsgId)
InFlight == OkWire(wire, outgoingMsgId, incomingMsgId)

IInv == Types /\ Counters /\ Kept /\ Written /\ InFlight

-----------------------------------------------------------------------------
(* Sequences of messages                                                   *)

\* The other end of the other end is this end.
LEMMA PeerFacts ==
    \A p \in Ends : Peer(p) \in Ends /\ Peer(p) # p /\ Peer(Peer(p)) = p
BY DEF Ends, Peer

\* What an end could send, it can still stand by later.
LEMMA OkLater ==
    ASSUME NEW s, NEW out \in Nat, NEW in \in Nat,
           NEW out2 \in Nat, NEW in2 \in Nat,
           OkSeq(s, out, in), out <= out2, in <= in2
    PROVE  OkSeq(s, out2, in2)
BY DEF OkSeq, Ok, Message

\* An empty sequence of messages is one its sender can stand by.
LEMMA OkEmpty ==
    ASSUME NEW out \in Nat, NEW in \in Nat PROVE OkSeq(<<>>, out, in)
BY DEF OkSeq

\* So are two such sequences, one behind the other,
LEMMA OkConcat ==
    ASSUME NEW out \in Nat, NEW in \in Nat, NEW s, NEW t,
           OkSeq(s, out, in), OkSeq(t, out, in)
    PROVE  OkSeq(s \o t, out, in)
<1>1. /\ s \o t \in Seq(Message)
      /\ Len(s \o t) = Len(s) + Len(t)
  BY DEF OkSeq
<1>2. ASSUME NEW i \in 1 .. Len(s \o t) PROVE Ok((s \o t)[i], out, in)
  <2>1. CASE i <= Len(s)
    <3>1. (s \o t)[i] = s[i] BY <1>1, <2>1 DEF OkSeq
    <3> QED BY <3>1, <1>1, <2>1 DEF OkSeq
  <2>2. CASE i > Len(s)
    <3>1. (s \o t)[i] = t[i - Len(s)] BY <1>1, <2>2 DEF OkSeq
    <3>2. i - Len(s) \in 1 .. Len(t) BY <1>1, <2>2 DEF OkSeq
    <3> QED BY <3>1, <3>2 DEF OkSeq
  <2> QED BY <1>1, <2>1, <2>2 DEF OkSeq
<1> QED BY <1>1, <1>2 DEF OkSeq

\* what is left when the first is read,
LEMMA OkTail ==
    ASSUME NEW out \in Nat, NEW in \in Nat, NEW s,
           OkSeq(s, out, in), s # <<>>
    PROVE  OkSeq(Tail(s), out, in) /\ Ok(Head(s), out, in)
BY DEF OkSeq

\* and a single such message.
LEMMA OkOne ==
    ASSUME NEW out \in Nat, NEW in \in Nat, NEW m, Ok(m, out, in)
    PROVE  OkSeq(<<m>>, out, in)
BY DEF OkSeq, Ok

\* A message outside the acknowledged flow is fine with any honest ack.
LEMMA OkPlain ==
    ASSUME NEW out \in Nat, NEW in \in Nat, NEW a \in 0 .. in,
           NEW t \in PlainTypes \cup ControlTypes
    PROVE  OkSeq(<<Plain(t, a)>>, out, in)
<1>1. Ok(Plain(t, a), out, in)
  BY DEF Ok, Plain, Message, MsgTypes, PlainTypes, ControlTypes
<1> QED BY <1>1, OkOne

\* A counter that is in range is not changed by the width of the field,
LEMMA ModSmall ==
    ASSUME NEW k \in Nat \ {0, 1}, NEW n \in Nat, n < k PROVE n % k = n
OBVIOUS

\* and one that is not stays a number.
LEMMA ModNat ==
    ASSUME NEW k \in Nat \ {0, 1}, NEW n \in Nat PROVE n % k \in Nat
OBVIOUS

\* The 32 bits of the header do not change an id that fits in them.
LEMMA OkHeader ==
    ASSUME NEW out \in Nat, NEW in \in Nat, NEW m,
           Ok(m, out, in), out < IdSpace, in < IdSpace
    PROVE  Ok(ToWire(m), out, in)
<1>1. IdSpace \in Nat \ {0, 1} BY ConstantsAssumption
<1>2. /\ m.type \in MsgTypes /\ m.id \in Nat /\ m.ack \in Nat
      /\ m.data \in Nat /\ m \in Message /\ m.ack <= in
  BY DEF Ok, Message
<1>3. m.id % IdSpace \in Nat BY <1>1, <1>2, ModNat
<1>4. m.ack % IdSpace = m.ack
  <2>1. m.ack < IdSpace BY <1>1, <1>2
  <2> QED BY <1>1, <1>2, <2>1, ModSmall
<1>5. m.type = "Regular" => m.id % IdSpace = m.id
  <2>1. m.type = "Regular" => m.id < IdSpace BY <1>1, <1>2 DEF Ok
  <2> QED BY <1>1, <1>2, <2>1, ModSmall
<1>6. /\ ToWire(m) \in Message
      /\ ToWire(m).type = m.type /\ ToWire(m).data = m.data
      /\ ToWire(m).id = m.id % IdSpace /\ ToWire(m).ack = m.ack % IdSpace
  BY <1>2, <1>3, <1>4 DEF ToWire, Message
<1> QED BY <1>2, <1>4, <1>5, <1>6 DEF Ok

\* Writing messages with ids that fit in the header does not change them.
LEMMA OkToWire ==
    ASSUME NEW out \in Nat, NEW in \in Nat, NEW s,
           OkSeq(s, out, in), out < IdSpace, in < IdSpace
    PROVE  /\ OkSeq(AllToWire(s), out, in)
           /\ Len(AllToWire(s)) = Len(s)
<1>1. ASSUME NEW i \in 1 .. Len(s) PROVE Ok(ToWire(s[i]), out, in)
  BY OkHeader DEF OkSeq
<1>2. Len(AllToWire(s)) = Len(s) /\ DOMAIN AllToWire(s) = 1 .. Len(s)
  BY DEF AllToWire, OkSeq
<1>3. \A i \in 1 .. Len(s) : AllToWire(s)[i] = ToWire(s[i])
  BY DEF AllToWire
<1>4. AllToWire(s) \in Seq(Message)
  BY <1>1 DEF AllToWire, OkSeq, Ok
<1> QED BY <1>1, <1>2, <1>3, <1>4 DEF OkSeq

-----------------------------------------------------------------------------
(* Writers, sockets and acknowledgements                                   *)

\* A sender that has sent or received more still stands by its messages,
LEMMA PerEndLater ==
    ASSUME NEW out \in [Ends -> Nat], NEW in \in [Ends -> Nat],
           NEW out2 \in [Ends -> Nat], NEW in2 \in [Ends -> Nat], NEW f,
           OkPerEnd(f, out, in),
           \A p \in Ends : out[p] <= out2[p] /\ in[p] <= in2[p]
    PROVE  OkPerEnd(f, out2, in2)
BY OkLater DEF OkPerEnd

\* also by those in flight.
LEMMA WireLater ==
    ASSUME NEW out \in [Ends -> Nat], NEW in \in [Ends -> Nat],
           NEW out2 \in [Ends -> Nat], NEW in2 \in [Ends -> Nat], NEW w,
           OkWire(w, out, in),
           \A p \in Ends : out[p] <= out2[p] /\ in[p] <= in2[p]
    PROVE  OkWire(w, out2, in2)
BY OkLater, PeerFacts DEF OkWire

\* Giving one end another honest sequence keeps them all honest.
LEMMA PerEndExcept ==
    ASSUME NEW out \in [Ends -> Nat], NEW in \in [Ends -> Nat], NEW f,
           OkPerEnd(f, out, in), NEW p \in Ends, NEW s,
           OkSeq(s, out[p], in[p])
    PROVE  OkPerEnd([f EXCEPT ![p] = s], out, in)
BY DEF OkPerEnd, OkSeq

\* Replacing one stream of a socket by such a sequence.
LEMMA WireExcept ==
    ASSUME NEW out \in [Ends -> Nat], NEW in \in [Ends -> Nat], NEW w,
           OkWire(w, out, in), NEW g \in Sockets, NEW p \in Ends, NEW s,
           OkSeq(s, out[Peer(p)], in[Peer(p)])
    PROVE  OkWire([w EXCEPT ![g][p] = s], out, in)
BY DEF OkWire, OkSeq

\* Writing such a sequence to a socket.
LEMMA WriteToWire ==
    ASSUME NEW out \in [Ends -> Nat], NEW in \in [Ends -> Nat], NEW w,
           OkWire(w, out, in), NEW g \in Sockets, NEW p \in Ends, NEW s,
           OkSeq(s, out[Peer(p)], in[Peer(p)])
    PROVE  OkWire(WireAfter(w, g, p, s), out, in)
<1>1. OkSeq(w[g][p] \o s, out[Peer(p)], in[Peer(p)])
  BY OkConcat, PeerFacts DEF OkWire
<1>2. OkWire([w EXCEPT ![g][p] = w[g][p] \o s], out, in)
  BY <1>1, WireExcept
<1> QED BY <1>2 DEF WireAfter

\* Under IdsFit every counter fits in the header.
LEMMA CountersFit ==
    ASSUME IdsFit, Counters, NEW p \in Ends
    PROVE  outgoingMsgId[p] < IdSpace /\ incomingMsgId[p] < IdSpace
BY PeerFacts, ConstantsAssumption DEF IdsFit, Counters, Ends

\* Writing such a sequence to a writer.
LEMMA WriterOk ==
    ASSUME IdsFit, Counters, Written, NEW p \in Ends, NEW s,
           OkSeq(s, outgoingMsgId[p], incomingMsgId[p])
    PROVE  OkPerEnd(WriterAfter(p, s), outgoingMsgId, incomingMsgId)
<1>1. /\ outgoingMsgId \in [Ends -> Nat] /\ incomingMsgId \in [Ends -> Nat]
      /\ outgoingMsgId[p] \in Nat /\ incomingMsgId[p] \in Nat
  BY DEF Counters
<1>2. OkSeq(AllToWire(s), outgoingMsgId[p], incomingMsgId[p])
  BY <1>1, CountersFit, OkToWire
<1>3. OkSeq(writer[p] \o AllToWire(s), outgoingMsgId[p], incomingMsgId[p])
  BY <1>1, <1>2, OkConcat DEF Written, OkPerEnd
<1> QED BY <1>1, <1>3, PerEndExcept DEF Written, WriterAfter

\* The loop of _receiveMessage drops exactly the confirmed copies.
LEMMA ConfirmedCount ==
    ASSUME NEW q \in Seq(Message), NEW first \in Nat, NEW last \in Nat,
           Consecutive(q, first, last), NEW ack \in (first + 1) .. last
    PROVE  Confirmed(q, ack) = ack - first
<1> DEFINE Good(k) == /\ \A i \in 1 .. k : q[i].id <= ack
                      /\ k < Len(q) => q[k + 1].id > ack
<1>1. Len(q) = last - first /\ \A i \in 1 .. Len(q) : q[i].id = first + i
  BY DEF Consecutive
<1>2. ack - first \in 0 .. Len(q) /\ Good(ack - first)
  BY <1>1
<1>3. ASSUME NEW k \in 0 .. Len(q), Good(k) PROVE k = ack - first
  <2>1. k <= ack - first
    <3>1. CASE k = 0 BY <3>1
    <3>2. CASE k > 0
      <4>1. k \in 1 .. k /\ k \in 1 .. Len(q) BY <1>3, <3>2
      <4>2. q[k].id <= ack BY <4>1, <1>3
      <4>3. q[k].id = first + k BY <4>1, <1>1
      <4> QED BY <4>2, <4>3
    <3> QED BY <1>3, <3>1, <3>2
  <2>2. ~(k < ack - first) BY <1>1, <1>3
  <2> QED BY <2>1, <2>2
<1>4. Confirmed(q, ack) = CHOOSE k \in 0 .. Len(q) : Good(k)
  BY DEF Confirmed
<1> HIDE DEF Good
<1> QED BY <1>2, <1>3, <1>4

\* Reading a message with an honest ack forgets delivered messages only.
LEMMA AckStep ==
    ASSUME Counters, Kept, NEW p \in Ends, NEW m,
           Ok(m, outgoingMsgId[Peer(p)], incomingMsgId[Peer(p)]),
           ProcessAck(p, m)
    PROVE  /\ outgoingAckId' \in [Ends -> Nat]
           /\ OkPerEnd(outgoingUnackMsg', outgoingMsgId, incomingMsgId)
           /\ \A q \in Ends :
                 /\ outgoingAckId'[q] <= incomingMsgId[Peer(q)]
                 /\ Consecutive(outgoingUnackMsg'[q], outgoingAckId'[q],
                                outgoingMsgId[q])
<1>1. CASE ~(m.ack > outgoingAckId[p])
  BY <1>1 DEF Counters, Kept, ProcessAck
<1>2. CASE m.ack > outgoingAckId[p]
  <2> DEFINE q == outgoingUnackMsg[p]
             k == m.ack - outgoingAckId[p]
             rest == SubSeq(q, k + 1, Len(q))
  <2>1. /\ outgoingMsgId[p] \in Nat /\ outgoingAckId[p] \in Nat
        /\ incomingMsgId[p] \in Nat /\ incomingMsgId[Peer(p)] \in Nat
        /\ incomingMsgId[Peer(p)] <= outgoingMsgId[p]
    BY PeerFacts DEF Counters
  <2>2. m.ack \in Nat /\ m.ack <= incomingMsgId[Peer(p)]
    BY DEF Ok, Message
  <2>3. /\ q \in Seq(Message)
        /\ OkSeq(q, outgoingMsgId[p], incomingMsgId[p])
        /\ Consecutive(q, outgoingAckId[p], outgoingMsgId[p])
    BY DEF Kept, OkPerEnd
  <2>4. Confirmed(q, m.ack) = k
    BY <1>2, <2>1, <2>2, <2>3, ConfirmedCount
  <2>5. /\ outgoingAckId' = [outgoingAckId EXCEPT ![p] = m.ack]
        /\ outgoingUnackMsg' = [outgoingUnackMsg EXCEPT ![p] = rest]
    BY <1>2, <2>4 DEF ProcessAck
  <2>6. /\ k \in 1 .. Len(q) /\ m.ack = outgoingAckId[p] + k
        /\ Len(q) = outgoingMsgId[p] - outgoingAckId[p]
        /\ \A i \in 1 .. Len(q) : q[i].id = outgoingAckId[p] + i
    BY <1>2, <2>1, <2>2, <2>3 DEF Consecutive
  <2> HIDE DEF q, k
  <2>7. /\ rest \in Seq(Message)
        /\ Len(rest) = Len(q) - k
        /\ \A i \in 1 .. Len(rest) : rest[i] = q[i + k]
    <3>1. k + 1 \in Int /\ Len(q) \in Int /\ k \in 1 .. Len(q)
      BY <2>3, <2>6
    <3>2. \A i \in (k + 1) .. Len(q) : q[i] \in Message
      BY <2>3, <3>1
    <3>3. /\ rest \in Seq(Message)
          /\ Len(rest) = IF k + 1 <= Len(q) THEN Len(q) - (k + 1) + 1 ELSE 0
          /\ \A i \in 1 .. Len(q) - (k + 1) + 1 :
                rest[i] = q[(k + 1) + i - 1]
      BY <3>1, <3>2, SubSeqProperties
    <3> HIDE DEF rest
    <3> QED BY <3>1, <3>3
  <2>8. OkSeq(rest, outgoingMsgId[p], incomingMsgId[p])
    BY <2>3, <2>6, <2>7 DEF OkSeq
  <2> HIDE DEF rest
  <2>9. Consecutive(rest, m.ack, outgoingMsgId[p])
    <3>1. ASSUME NEW i \in 1 .. Len(rest) PROVE rest[i].id = m.ack + i
      <4>1. rest[i] = q[i + k] /\ i + k \in 1 .. Len(q) BY <2>6, <2>7
      <4>2. q[i + k].id = outgoingAckId[p] + (i + k) BY <4>1, <2>6
      <4> QED BY <2>1, <2>2, <2>6, <4>1, <4>2
    <3> QED BY <2>1, <2>2, <2>6, <2>7, <3>1 DEF Consecutive
  <2>10. OkPerEnd(outgoingUnackMsg', outgoingMsgId, incomingMsgId)
    BY <2>5, <2>8, PerEndExcept DEF Kept, Counters
  <2> QED BY <2>2, <2>5, <2>9, <2>10 DEF Kept, Counters, OkPerEnd
<1> QED BY <1>1, <1>2

-----------------------------------------------------------------------------
(* Every step preserves the invariant                                      *)

\* A step that leaves the protocols' own fields alone.
LEMMA ProtoSame ==
    ASSUME Counters, Kept, UNCHANGED protoVars
    PROVE  Counters' /\ Kept'
BY DEF Counters, Kept, Consecutive, protoVars, OkPerEnd

\* What p reads is honest, and so is what is left to read.
LEMMA ConsumeOk ==
    ASSUME Types, Counters, InFlight, NEW p \in Ends, Reading(p)
    PROVE  /\ Ok(Incoming(p), outgoingMsgId[Peer(p)], incomingMsgId[Peer(p)])
           /\ Consume(p) => OkWire(wire', outgoingMsgId, incomingMsgId)
<1> DEFINE g == socket[p]
           s == wire[g][p]
<1>1. /\ g \in Sockets /\ Peer(p) \in Ends
      /\ outgoingMsgId \in [Ends -> Nat] /\ incomingMsgId \in [Ends -> Nat]
  BY PeerFacts DEF Types, Counters
<1>2. OkSeq(s, outgoingMsgId[Peer(p)], incomingMsgId[Peer(p)]) /\ s # <<>>
  BY <1>1 DEF InFlight, OkWire, Reading
<1>3. /\ OkSeq(Tail(s), outgoingMsgId[Peer(p)], incomingMsgId[Peer(p)])
      /\ Ok(Head(s), outgoingMsgId[Peer(p)], incomingMsgId[Peer(p)])
  BY <1>1, <1>2, OkTail
<1>4. OkWire([wire EXCEPT ![g][p] = Tail(s)], outgoingMsgId, incomingMsgId)
  BY <1>1, <1>3, WireExcept DEF InFlight
<1> QED BY <1>3, <1>4 DEF Incoming, Consume

\* Nothing has been sent at first.
LEMMA InitStep == Init => IInv
<1> SUFFICES ASSUME Init PROVE IInv OBVIOUS
<1>1. Types
  BY ConstantsAssumption DEF Init, Types, Ends, Sockets
<1>2. Counters
  BY ConstantsAssumption, PeerFacts DEF Init, Counters, Ends
<1>3. Kept
  BY OkEmpty DEF Init, Kept, OkPerEnd, Consecutive
<1>4. Written
  BY OkEmpty DEF Init, Written, OkPerEnd
<1>5. InFlight
  BY OkEmpty, PeerFacts DEF Init, InFlight, OkWire
<1> QED BY <1>1, <1>2, <1>3, <1>4, <1>5 DEF IInv

\* send() keeps the invariant.
LEMMA SendStep ==
    ASSUME IdsFit, IInv, NEW p \in Ends, Send(p) PROVE IInv'
<1> DEFINE myId == outgoingMsgId[p] + 1
           msg == Regular(myId, incomingMsgId[p])
<1> USE DEF IInv
<1>1. /\ outgoingMsgId' = [outgoingMsgId EXCEPT ![p] = myId]
      /\ outgoingUnackMsg' =
            [outgoingUnackMsg EXCEPT ![p] = Append(outgoingUnackMsg[p], msg)]
      /\ writer' = writer \/ writer' = WriterAfter(p, <<msg>>)
      /\ outgoingMsgId[p] < MaxMsgs[p]
      /\ UNCHANGED <<outgoingAckId, incomingMsgId, received, wire>>
  BY DEF Send, AckValue
<1>2. Types'
  BY DEF Send, Types, Counters, ArmsAckCheck, AckValue, loopVars
<1>3. Counters'
  BY <1>1, PeerFacts, ConstantsAssumption DEF Counters, Ends
<1>4. /\ outgoingMsgId \in [Ends -> Nat] /\ incomingMsgId \in [Ends -> Nat]
      /\ outgoingMsgId' \in [Ends -> Nat] /\ outgoingMsgId'[p] = myId
      /\ \A q \in Ends : /\ outgoingMsgId[q] <= outgoingMsgId'[q]
                          /\ incomingMsgId[q] <= incomingMsgId[q]
  BY <1>1, <1>3 DEF Counters
<1>5. OkSeq(<<msg>>, outgoingMsgId'[p], incomingMsgId[p])
  <2>1. Ok(msg, outgoingMsgId'[p], incomingMsgId[p])
    BY <1>4 DEF Ok, Regular, Message, MsgTypes
  <2> QED BY <1>4, <2>1, OkOne
<1> HIDE DEF msg, myId
<1>6. InFlight'
  BY <1>1, <1>4, WireLater DEF InFlight
<1>7. Written'
  <2>1. OkPerEnd(writer, outgoingMsgId', incomingMsgId)
    BY <1>4, PerEndLater DEF Written
  <2>2. CASE writer' = writer BY <1>1, <2>1, <2>2 DEF Written
  <2>3. CASE writer' = WriterAfter(p, <<msg>>)
    <3>1. outgoingMsgId'[p] < IdSpace /\ incomingMsgId[p] < IdSpace
      BY <1>1, <1>3, CountersFit, ConstantsAssumption, <1>4
         DEF Counters, IdsFit, myId, Ends
    <3>2. OkSeq(AllToWire(<<msg>>), outgoingMsgId'[p], incomingMsgId[p])
      BY <1>4, <1>5, <3>1, OkToWire
    <3>3. OkSeq(writer[p] \o AllToWire(<<msg>>), outgoingMsgId'[p],
                incomingMsgId[p])
      BY <1>4, <2>1, <3>2, OkConcat DEF OkPerEnd
    <3>4. OkPerEnd(writer', outgoingMsgId', incomingMsgId)
      BY <1>4, <2>1, <2>3, <3>3, PerEndExcept DEF WriterAfter
    <3> QED BY <1>1, <3>4 DEF Written
  <2> QED BY <1>1, <2>2, <2>3
<1>8. Kept'
  <2> DEFINE q == outgoingUnackMsg[p]
  <2>1. OkPerEnd(outgoingUnackMsg, outgoingMsgId', incomingMsgId)
    BY <1>4, PerEndLater DEF Kept
  <2>2. OkSeq(q, outgoingMsgId'[p], incomingMsgId[p])
    BY <2>1 DEF OkPerEnd
  <2>3. OkSeq(q \o <<msg>>, outgoingMsgId'[p], incomingMsgId[p])
    BY <1>4, <1>5, <2>2, OkConcat
  <2>4. /\ q \o <<msg>> = Append(q, msg) /\ q \in Seq(Message)
        /\ msg \in Message
    <3>1. q \in Seq(Message) BY <2>2 DEF OkSeq
    <3>2. <<msg>> \in Seq(Message) BY <1>5 DEF OkSeq
    <3>3. msg \in Message BY <3>2
    <3> QED BY <3>1, <3>3
  <2>5. OkPerEnd(outgoingUnackMsg', outgoingMsgId', incomingMsgId)
    BY <1>1, <1>4, <2>1, <2>3, <2>4, PerEndExcept
  <2>6. Consecutive(q, outgoingAckId[p], outgoingMsgId[p]) BY DEF Kept
  <2>7. msg.id = outgoingMsgId[p] + 1 BY DEF msg, myId, Regular
  <2> HIDE DEF q
  <2>8. Consecutive(Append(q, msg), outgoingAckId[p], outgoingMsgId'[p])
    <3>1. /\ outgoingMsgId[p] \in Nat /\ outgoingAckId[p] \in Nat
          /\ outgoingMsgId'[p] = outgoingMsgId[p] + 1
      BY <1>4 DEF Counters, myId
    <3> QED BY <2>4, <2>6, <2>7, <3>1 DEF Consecutive
  <2>9. ASSUME NEW r \in Ends, r # p
        PROVE  Consecutive(outgoingUnackMsg[r], outgoingAckId[r],
                           outgoingMsgId'[r])
    BY <1>1, <2>9 DEF Kept, Counters
  <2> QED BY <1>1, <2>5, <2>8, <2>9 DEF Kept, OkPerEnd, q
<1> QED BY <1>2, <1>3, <1>6, <1>7, <1>8

\* Flushing a writer keeps it.
LEMMA FlushStep ==
    ASSUME IInv, NEW p \in Ends, Flush(p) PROVE IInv'
<1> USE DEF IInv
<1>1. /\ outgoingMsgId \in [Ends -> Nat] /\ incomingMsgId \in [Ends -> Nat]
      /\ socket[p] \in Sockets /\ Peer(p) \in Ends /\ Peer(Peer(p)) = p
  BY PeerFacts DEF Counters, Types
<1>2. OkWire(wire', outgoingMsgId, incomingMsgId)
  BY <1>1, WriteToWire DEF Flush, InFlight, Written, OkPerEnd
<1>3. OkPerEnd(writer', outgoingMsgId, incomingMsgId)
  <2>1. OkSeq(<<>>, outgoingMsgId[p], incomingMsgId[p]) BY <1>1, OkEmpty
  <2> QED BY <1>1, <2>1, PerEndExcept DEF Flush, Written
<1>4. Counters' /\ Kept' BY ProtoSame DEF Flush
<1>5. Types' BY DEF Flush, Types, protoVars, loopVars
<1> QED BY <1>2, <1>3, <1>4, <1>5 DEF InFlight, Written, Flush, protoVars

\* AckTimer and KeepAlive write at most one honest acknowledgement.
LEMMA AcknowledgeStep ==
    ASSUME IdsFit, IInv, NEW p \in Ends, AckTimer(p) \/ KeepAlive(p)
    PROVE  IInv'
<1> USE DEF IInv
<1>1. /\ outgoingMsgId \in [Ends -> Nat] /\ incomingMsgId \in [Ends -> Nat]
      /\ outgoingMsgId[p] \in Nat /\ incomingMsgId[p] \in Nat
  BY DEF Counters
<1>2. \E t \in {"Ack", "KeepAlive"} :
        \/ writer' = writer
        \/ writer' = WriterAfter(p, <<Plain(t, incomingMsgId[p])>>)
  BY DEF AckTimer, KeepAlive, AckValue
<1>3. OkPerEnd(writer', outgoingMsgId, incomingMsgId)
  <2>1. PICK t \in {"Ack", "KeepAlive"} :
            \/ writer' = writer
            \/ writer' = WriterAfter(p, <<Plain(t, incomingMsgId[p])>>)
    BY <1>2
  <2>2. OkSeq(<<Plain(t, incomingMsgId[p])>>, outgoingMsgId[p],
              incomingMsgId[p])
    BY <1>1, OkPlain DEF PlainTypes
  <2>3. OkPerEnd(WriterAfter(p, <<Plain(t, incomingMsgId[p])>>),
                 outgoingMsgId, incomingMsgId)
    BY <2>2, WriterOk
  <2> QED BY <2>1, <2>3 DEF Written
<1>4. UNCHANGED <<outgoingUnackMsg, outgoingMsgId, outgoingAckId,
                  incomingMsgId, received, wire>>
  BY DEF AckTimer, KeepAlive
<1>5. Types'
  BY <1>1 DEF AckTimer, KeepAlive, Types, AckValue, loopVars
<1> QED BY <1>3, <1>4, <1>5
        DEF InFlight, Written, Counters, Kept, Consecutive, OkPerEnd

\* Reading a Regular message keeps it.
LEMMA ReceiveRegularStep ==
    ASSUME IdsFit, IInv, NEW p \in Ends, ReceiveRegular(p) PROVE IInv'
<1> DEFINE m == Incoming(p)
<1> USE DEF IInv
<1>1. /\ outgoingMsgId \in [Ends -> Nat] /\ incomingMsgId \in [Ends -> Nat]
      /\ outgoingMsgId[p] \in Nat /\ incomingMsgId[p] \in Nat
      /\ outgoingMsgId' = outgoingMsgId
      /\ Peer(p) \in Ends
  BY PeerFacts DEF Counters, ReceiveRegular
<1>2. /\ Ok(m, outgoingMsgId[Peer(p)], incomingMsgId[Peer(p)])
      /\ OkWire(wire', outgoingMsgId, incomingMsgId)
  BY ConsumeOk DEF ReceiveRegular
<1>3. /\ m.id = m.data /\ m.id \in 1 .. outgoingMsgId[Peer(p)]
      /\ m.ack \in Nat
  BY <1>2 DEF Ok, ReceiveRegular, Message
<1>4. /\ outgoingAckId' \in [Ends -> Nat]
      /\ OkPerEnd(outgoingUnackMsg', outgoingMsgId, incomingMsgId)
      /\ \A q \in Ends :
            /\ outgoingAckId'[q] <= incomingMsgId[Peer(q)]
            /\ Consecutive(outgoingUnackMsg'[q], outgoingAckId'[q],
                           outgoingMsgId[q])
  BY <1>2, AckStep DEF ReceiveRegular
<1>5. \/ /\ m.id = incomingMsgId[p] + 1
         /\ incomingMsgId' = [incomingMsgId EXCEPT ![p] = m.id]
         /\ received' = [received EXCEPT ![p] = Append(received[p], m.data)]
      \/ UNCHANGED <<incomingMsgId, received>>
  BY DEF ReceiveRegular, IsNext
<1> HIDE DEF m
<1>6. Counters'
  <2>1. CASE UNCHANGED <<incomingMsgId, received>>
    BY <1>1, <1>4, <2>1 DEF Counters
  <2>2. CASE /\ m.id = incomingMsgId[p] + 1
             /\ incomingMsgId' = [incomingMsgId EXCEPT ![p] = m.id]
             /\ received' = [received EXCEPT ![p] = Append(received[p], m.data)]
    <3>1. Append(received[p], m.data) = [n \in 1 .. m.id |-> n]
      <4> DEFINE r == received[p]
      <4>1. /\ r \in Seq(Nat) /\ r = [n \in 1 .. incomingMsgId[p] |-> n]
            /\ m.data = incomingMsgId[p] + 1 /\ m.id = m.data
        BY <1>3, <2>2 DEF Counters
      <4> HIDE DEF r
      <4>2. Len(r) = incomingMsgId[p]
        BY <1>1, <4>1
      <4>3. \A n \in 1 .. m.id : Append(r, m.data)[n] = n
        BY <1>1, <4>1, <4>2
      <4>4. Append(r, m.data) = [n \in 1 .. m.id |-> Append(r, m.data)[n]]
        BY <1>1, <4>1, <4>2
      <4> QED BY <4>3, <4>4 DEF r
    <3>2. received' \in [Ends -> Seq(Nat)]
      <4>1. received \in [Ends -> Seq(Nat)] /\ m.data \in Nat
        BY <1>3 DEF Counters
      <4>2. Append(received[p], m.data) \in Seq(Nat) BY <4>1
      <4> QED BY <2>2, <4>1, <4>2
    <3>3. incomingMsgId' \in [Ends -> Nat] BY <1>3, <2>2 DEF Counters
    <3>4. ASSUME NEW q \in Ends
          PROVE  /\ incomingMsgId'[q] <= outgoingMsgId[Peer(q)]
                 /\ outgoingAckId'[q] <= incomingMsgId'[Peer(q)]
                 /\ received'[q] = [n \in 1 .. incomingMsgId'[q] |-> n]
      <4>1. /\ incomingMsgId[q] <= outgoingMsgId[Peer(q)]
            /\ outgoingAckId'[q] <= incomingMsgId[Peer(q)]
            /\ received[q] = [n \in 1 .. incomingMsgId[q] |-> n]
            /\ Peer(q) \in Ends /\ outgoingAckId'[q] \in Nat
            /\ incomingMsgId[Peer(q)] \in Nat
        BY <1>1, <1>4, PeerFacts DEF Counters
      <4>2. /\ incomingMsgId'[p] = m.id
            /\ received'[p] = Append(received[p], m.data)
            /\ \A r \in Ends : r # p => /\ incomingMsgId'[r] = incomingMsgId[r]
                                       /\ received'[r] = received[r]
        BY <1>1, <2>2 DEF Counters
      <4>3. incomingMsgId'[q] <= outgoingMsgId[Peer(q)]
        <5>1. CASE q = p BY <1>3, <4>2, <5>1
        <5>2. CASE q # p BY <4>1, <4>2, <5>2
        <5> QED BY <5>1, <5>2
      <4>4. outgoingAckId'[q] <= incomingMsgId'[Peer(q)]
        BY <1>1, <2>2, <4>1, <4>2
      <4>5. received'[q] = [n \in 1 .. incomingMsgId'[q] |-> n]
        <5>1. CASE q = p BY <3>1, <4>2, <5>1
        <5>2. CASE q # p BY <4>1, <4>2, <5>2
        <5> QED BY <5>1, <5>2
      <4> QED BY <4>3, <4>4, <4>5
    <3> QED BY <1>1, <1>4, <3>2, <3>3, <3>4 DEF Counters
  <2> QED BY <1>5, <2>1, <2>2
<1>7. \A q \in Ends : /\ outgoingMsgId[q] <= outgoingMsgId[q]
                      /\ incomingMsgId[q] <= incomingMsgId'[q]
  <2>1. ASSUME NEW q \in Ends PROVE incomingMsgId[q] <= incomingMsgId'[q]
    <3>1. incomingMsgId[q] \in Nat BY <1>1
    <3>2. \/ incomingMsgId'[q] = incomingMsgId[q]
          \/ incomingMsgId'[q] = incomingMsgId[q] + 1
      BY <1>1, <1>5
    <3> QED BY <3>1, <3>2
  <2>2. \A q \in Ends : outgoingMsgId[q] <= outgoingMsgId[q] BY <1>1
  <2> QED BY <2>1, <2>2
<1>8. incomingMsgId' \in [Ends -> Nat] BY <1>6 DEF Counters
<1>9. InFlight'
  BY <1>1, <1>2, <1>7, <1>8, WireLater DEF InFlight
<1>10. Kept'
  <2>1. OkPerEnd(outgoingUnackMsg', outgoingMsgId, incomingMsgId')
    BY <1>1, <1>4, <1>7, <1>8, PerEndLater
  <2> QED BY <1>1, <1>4, <2>1 DEF Kept
<1>11. Written'
  <2>1. \E ask \in {<<>>, <<Plain("ReplayRequest", 0)>>} :
          writer' = writer \/ writer' = WriterAfter(p, ask)
    BY DEF ReceiveRegular
  <2>2. OkSeq(<<>>, outgoingMsgId[p], incomingMsgId[p])
    BY <1>1, OkEmpty
  <2>3. OkSeq(<<Plain("ReplayRequest", 0)>>, outgoingMsgId[p], incomingMsgId[p])
    BY <1>1, OkPlain DEF PlainTypes
  <2>4. OkPerEnd(writer', outgoingMsgId, incomingMsgId)
    <3>1. OkPerEnd(WriterAfter(p, <<>>), outgoingMsgId, incomingMsgId)
      BY <2>2, WriterOk
    <3>2. OkPerEnd(WriterAfter(p, <<Plain("ReplayRequest", 0)>>),
                   outgoingMsgId, incomingMsgId)
      BY <2>3, WriterOk
    <3> QED BY <2>1, <3>1, <3>2 DEF Written
  <2>5. OkPerEnd(writer', outgoingMsgId, incomingMsgId')
    BY <1>1, <1>7, <1>8, <2>4, PerEndLater
  <2> QED BY <1>1, <2>5 DEF Written
<1>12. Types'
  BY DEF ReceiveRegular, Types, loopVars
<1> QED BY <1>6, <1>9, <1>10, <1>11, <1>12

\* Reading a message with an ack and no data keeps it.
LEMMA ReceivePlainStep ==
    ASSUME IdsFit, IInv, NEW p \in Ends, ReceivePlain(p) PROVE IInv'
<1> USE DEF IInv
<1>1. /\ outgoingMsgId \in [Ends -> Nat] /\ incomingMsgId \in [Ends -> Nat]
      /\ UNCHANGED <<outgoingMsgId, incomingMsgId, received>>
  BY DEF Counters, ReceivePlain
<1>2. /\ Ok(Incoming(p), outgoingMsgId[Peer(p)], incomingMsgId[Peer(p)])
      /\ OkWire(wire', outgoingMsgId, incomingMsgId)
  BY ConsumeOk DEF ReceivePlain
<1>3. /\ outgoingAckId' \in [Ends -> Nat]
      /\ OkPerEnd(outgoingUnackMsg', outgoingMsgId, incomingMsgId)
      /\ \A q \in Ends :
            /\ outgoingAckId'[q] <= incomingMsgId[Peer(q)]
            /\ Consecutive(outgoingUnackMsg'[q], outgoingAckId'[q],
                           outgoingMsgId[q])
  BY <1>2, AckStep DEF ReceivePlain
<1>4. OkPerEnd(writer', outgoingMsgId, incomingMsgId)
  <2>1. OkSeq(outgoingUnackMsg[p], outgoingMsgId[p], incomingMsgId[p])
    BY DEF Kept, OkPerEnd
  <2>2. OkPerEnd(WriterAfter(p, outgoingUnackMsg[p]), outgoingMsgId,
                 incomingMsgId)
    BY <2>1, WriterOk
  <2> QED BY <2>2 DEF ReceivePlain, Written
<1>5. Types'
  BY DEF ReceivePlain, Types, loopVars, ArmsAckCheck, Counters
<1>6. Counters' BY <1>1, <1>3 DEF Counters
<1>7. Kept' BY <1>1, <1>3 DEF Kept
<1> QED BY <1>1, <1>2, <1>4, <1>5, <1>6, <1>7 DEF InFlight, Written

\* Steps that neither write nor read: a timer, a broken socket, a timeout.
LEMMA QuietStep ==
    ASSUME IInv,
           \/ \E p \in Ends : AckCheckTimer(p)
           \/ \E g \in Sockets : Break(g)
           \/ HandshakeTimeout
    PROVE  IInv'
<1>1. UNCHANGED <<outgoingUnackMsg, outgoingMsgId, outgoingAckId,
                  incomingMsgId, received, writer, wire>>
  BY DEF AckCheckTimer, Break, HandshakeTimeout, protoVars, socketVars
<1>2. Types'
  <2>1. CASE \E p \in Ends : AckCheckTimer(p)
    BY <2>1 DEF IInv, AckCheckTimer, Types, socketVars
  <2>2. CASE \E g \in Sockets : Break(g)
    BY <2>2 DEF IInv, Break, Types, protoVars, loopVars
  <2>3. CASE HandshakeTimeout
    BY <2>3 DEF IInv, HandshakeTimeout, Types, protoVars, socketVars
  <2> QED BY <2>1, <2>2, <2>3
<1> QED BY <1>1, <1>2
        DEF IInv, Counters, Kept, Consecutive, Written, InFlight, OkPerEnd,
            OkWire

\* The end of a socket keeps it.
LEMMA SocketClosedStep ==
    ASSUME IInv, NEW p \in Ends, SocketClosed(p) PROVE IInv'
<1> USE DEF IInv
<1>1. /\ outgoingMsgId \in [Ends -> Nat] /\ incomingMsgId \in [Ends -> Nat]
      /\ socket[p] \in Sockets /\ Peer(p) \in Ends
  BY PeerFacts DEF Counters, Types
<1>2. OkWire(wire', outgoingMsgId, incomingMsgId)
  <2>1. OkSeq(<<>>, outgoingMsgId[Peer(p)], incomingMsgId[Peer(p)])
    BY <1>1, OkEmpty
  <2> QED BY <1>1, <2>1, WireExcept DEF SocketClosed, InFlight
<1>3. Counters' /\ Kept' BY ProtoSame DEF SocketClosed
<1>4. Types' BY DEF SocketClosed, Types, protoVars
<1>5. Written' BY DEF SocketClosed, Written, OkPerEnd, protoVars
<1> QED BY <1>2, <1>3, <1>4, <1>5 DEF InFlight, SocketClosed, protoVars

\* What an end has buffered is still honest when the old socket is drained.
LEMMA DrainOk ==
    ASSUME IInv, NEW p \in Ends, NEW w, OkWire(w, outgoingMsgId, incomingMsgId),
           NEW d, d = IF paused[p] THEN <<>> ELSE writer[p]
    PROVE  OkWire(WireAfter(w, socket[p], Peer(p), d),
                  outgoingMsgId, incomingMsgId)
<1>1. /\ outgoingMsgId \in [Ends -> Nat] /\ incomingMsgId \in [Ends -> Nat]
      /\ socket[p] \in Sockets /\ Peer(p) \in Ends /\ Peer(Peer(p)) = p
  BY PeerFacts DEF IInv, Counters, Types
<1>2. OkSeq(<<>>, outgoingMsgId[p], incomingMsgId[p]) BY <1>1, OkEmpty
<1>3. OkSeq(writer[p], outgoingMsgId[p], incomingMsgId[p])
  BY DEF IInv, Written, OkPerEnd
<1>4. OkSeq(d, outgoingMsgId[p], incomingMsgId[p]) BY <1>2, <1>3
<1> QED BY <1>1, <1>4, WriteToWire

\* The steps of a handshake that awaits the sign message.
LEMMA AwaitSignType ==
    \A b : AwaitSign(b) \in {"awaitSign", "signing", "failed"}
BY DEF AwaitSign

\* A new attempt to connect keeps it.
LEMMA BeginReconnectStep ==
    ASSUME IdsFit, IInv, BeginReconnect PROVE IInv'
<1> USE DEF IInv
<1> DEFINE c == "client"
<1>1. /\ outgoingMsgId \in [Ends -> Nat] /\ incomingMsgId \in [Ends -> Nat]
      /\ c \in Ends /\ Peer(c) = "server"
      /\ outgoingMsgId[c] \in Nat /\ incomingMsgId[c] \in Nat
  BY DEF Counters, Ends, Peer
<1>2. UNCHANGED <<outgoingUnackMsg, outgoingMsgId, outgoingAckId,
                  incomingMsgId, received>>
  BY DEF BeginReconnect
<1>3. OkWire(wire', outgoingMsgId, incomingMsgId)
  BY <1>1, DrainOk DEF BeginReconnect, InFlight
<1>4. OkPerEnd(writer', outgoingMsgId, incomingMsgId)
  <2>1. OkSeq(<<Plain("auth", 0)>>, outgoingMsgId[c], incomingMsgId[c])
    <3>1. "auth" \in PlainTypes \cup ControlTypes BY DEF ControlTypes
    <3>2. 0 \in 0 .. incomingMsgId[c] BY <1>1
    <3> HIDE DEF c
    <3> QED BY <1>1, <3>1, <3>2, OkPlain
  <2>2. writer' = [writer EXCEPT ![c] = <<Plain("auth", 0)>>]
    BY DEF BeginReconnect
  <2> QED BY <1>1, <2>1, <2>2, PerEndExcept DEF Written
<1>5. Types'
  <2>1. /\ phase' \in {"awaitSign", "signing", "failed"}
        /\ controlBuffer' = <<>>
    <3>1. controlBuffer' = <<>> BY DEF BeginReconnect, FlushedControl
    <3>2. phase' = AwaitSign(controlBuffer') BY DEF BeginReconnect
    <3> QED BY <3>1, <3>2, AwaitSignType
  <2>2. /\ isReconnecting' \in [Ends -> BOOLEAN]
        /\ paused' \in [Ends -> BOOLEAN]
        /\ UNCHANGED <<incomingAckId, incomingAckTimeout, outgoingAckTimeout>>
    BY DEF BeginReconnect, Types
  <2>3. socket[c] + 1 \in Sockets
    <3>1. socket[c] \in 1 .. MaxSockets /\ MaxSockets \in Nat
      BY <1>1, ConstantsAssumption DEF Types, Sockets
    <3>2. socket[c] < MaxSockets BY DEF BeginReconnect
    <3> HIDE DEF c
    <3> QED BY <3>1, <3>2 DEF Sockets
  <2>4. /\ socket' \in [Ends -> Sockets]
        /\ alive' \in [Sockets -> BOOLEAN]
        /\ handshake' \in
             [Sockets -> {"none", "waitAuth", "waitType", "handover", "done"}]
    BY <2>3 DEF BeginReconnect, Types
  <2> QED BY <2>1, <2>2, <2>4 DEF Types
<1> QED BY <1>2, <1>3, <1>4, <1>5
        DEF Counters, Kept, Consecutive, Written, InFlight, OkPerEnd

\* The client's part of the handshake keeps it.
LEMMA SendConnectionTypeStep ==
    ASSUME IdsFit, IInv, SendConnectionType PROVE IInv'
<1> USE DEF IInv
<1>1. OkPerEnd(writer', outgoingMsgId, incomingMsgId)
  <2>1. "client" \in Ends /\ outgoingMsgId["client"] \in Nat
        /\ incomingMsgId["client"] \in Nat
    BY DEF Ends, Counters
  <2>2. OkSeq(<<Plain("connectionType", 0)>>, outgoingMsgId["client"],
              incomingMsgId["client"])
    BY <2>1, OkPlain DEF ControlTypes
  <2> QED BY <2>1, <2>2, WriterOk DEF SendConnectionType
<1>2. Counters' /\ Kept' BY ProtoSame DEF SendConnectionType
<1>3. Types' BY DEF SendConnectionType, Types, protoVars
<1>4. InFlight' BY DEF SendConnectionType, InFlight, OkWire, protoVars
<1> QED BY <1>1, <1>2, <1>3, <1>4 DEF Written, SendConnectionType, protoVars

\* An ack, the kept copies and a plain message: all honest.
LEMMA ResyncOk ==
    ASSUME IInv, NEW p \in Ends
    PROVE  OkSeq(Resync(p), outgoingMsgId[p], incomingMsgId[p])
<1>1. outgoingMsgId[p] \in Nat /\ incomingMsgId[p] \in Nat
  BY DEF IInv, Counters
<1>2. OkSeq(outgoingUnackMsg[p], outgoingMsgId[p], incomingMsgId[p])
  BY DEF IInv, Kept, OkPerEnd
<1>3. OkSeq(<<Plain("Ack", AckValue(p))>>, outgoingMsgId[p], incomingMsgId[p])
  BY <1>1, OkPlain DEF PlainTypes, AckValue
<1> QED BY <1>1, <1>2, <1>3, OkConcat DEF Resync

\* endAcceptReconnection itself leaves the message counters alone.
LEMMA EndAcceptStep ==
    ASSUME IInv, NEW p \in Ends, EndAcceptReconnection(p)
    PROVE  /\ Counters' /\ Kept'
           /\ isReconnecting' \in [Ends -> BOOLEAN]
           /\ incomingAckId' \in [Ends -> Nat]
           /\ outgoingAckTimeout' \in [Ends -> BOOLEAN]
           /\ UNCHANGED <<outgoingMsgId, incomingMsgId, incomingAckTimeout>>
BY DEF EndAcceptReconnection, IInv, Counters, Kept, Consecutive, OkPerEnd,
       Types, ArmsAckCheck, AckValue

\* Reading the handshake's answer keeps it.
LEMMA ReceiveControlStep ==
    ASSUME IdsFit, IInv, ReceiveControl PROVE IInv'
<1> USE DEF IInv
<1>1. "client" \in Ends BY DEF Ends
<1>2. /\ OkWire(wire', outgoingMsgId, incomingMsgId)
      /\ UNCHANGED <<paused, socket, alive, handshake>>
  BY <1>1, ConsumeOk DEF ReceiveControl
<1>3. CASE /\ phase' = AwaitSign(<<Incoming("client").type>>)
           /\ UNCHANGED <<writer, controlBuffer>>
           /\ UNCHANGED protoVars
  <2>1. Types' BY <1>2, <1>3, AwaitSignType DEF Types, protoVars
  <2>2. Counters' /\ Kept' BY <1>3, ProtoSame
  <2> QED BY <1>2, <1>3, <2>1, <2>2
          DEF Written, OkPerEnd, InFlight, protoVars
<1>4. CASE /\ phase' = "up"
           /\ writer' = WriterAfter("client", Resync("client"))
           /\ EndAcceptReconnection("client")
           /\ UNCHANGED controlBuffer
  <2>1. Types' BY <1>1, <1>2, <1>4, EndAcceptStep DEF Types
  <2>2. Counters' /\ Kept' BY <1>1, <1>4, EndAcceptStep
  <2>3. OkPerEnd(writer', outgoingMsgId, incomingMsgId)
    BY <1>1, <1>4, ResyncOk, WriterOk
  <2> QED BY <1>1, <1>2, <1>4, <2>1, <2>2, <2>3, EndAcceptStep
          DEF Written, InFlight
<1>5. CASE /\ controlBuffer' = Append(controlBuffer, Incoming("client").type)
           /\ UNCHANGED <<phase, writer>>
           /\ UNCHANGED protoVars
  <2>1. controlBuffer' \in Seq(ControlTypes)
    BY <1>5 DEF Types, ReceiveControl
  <2>2. Types' BY <1>2, <1>5, <2>1 DEF Types, protoVars
  <2>3. Counters' /\ Kept' BY <1>5, ProtoSame
  <2> QED BY <1>2, <1>5, <2>2, <2>3
          DEF Written, OkPerEnd, InFlight, protoVars
<1> QED BY <1>3, <1>4, <1>5 DEF ReceiveControl

\* The server ends a handshake: the old socket is drained, the new one gets
\* everything that was kept, and then the farewell.
LEMMA AcceptStep ==
    ASSUME IdsFit, IInv, NEW g \in Sockets, NEW w, NEW farewell,
           OkWire(w, outgoingMsgId, incomingMsgId),
           OkSeq(farewell, outgoingMsgId["server"], incomingMsgId["server"]),
           AcceptReconnection(g, w, farewell),
           UNCHANGED <<phase, controlBuffer>>,
           handshake' = [handshake EXCEPT ![g] = "done"]
    PROVE  IInv'
<1> USE DEF IInv
<1>1. "server" \in Ends /\ Peer("server") = "client" BY DEF Ends, Peer
<1>2. /\ outgoingMsgId["server"] \in Nat /\ incomingMsgId["server"] \in Nat
      /\ outgoingMsgId \in [Ends -> Nat] /\ incomingMsgId \in [Ends -> Nat]
  BY <1>1 DEF Counters
<1>3. EndAcceptReconnection("server") BY DEF AcceptReconnection
<1>4. /\ Counters' /\ Kept'
      /\ UNCHANGED <<outgoingMsgId, incomingMsgId, incomingAckTimeout>>
  BY <1>1, <1>3, EndAcceptStep
<1>5. OkWire(wire', outgoingMsgId, incomingMsgId)
  BY <1>1, DrainOk DEF AcceptReconnection
<1>6. OkPerEnd(writer', outgoingMsgId, incomingMsgId)
  <2> DEFINE all == Resync("server") \o farewell
  <2>1. OkSeq(all, outgoingMsgId["server"], incomingMsgId["server"])
    BY <1>1, <1>2, ResyncOk, OkConcat
  <2>2. writer' = [writer EXCEPT !["server"] = AllToWire(all)]
    BY DEF AcceptReconnection
  <2> HIDE DEF all
  <2>3. OkSeq(AllToWire(all), outgoingMsgId["server"], incomingMsgId["server"])
    BY <1>1, <1>2, <2>1, CountersFit, OkToWire
  <2> QED BY <1>1, <1>2, <2>2, <2>3, PerEndExcept DEF Written
<1>7. Types'
  <2>1. /\ isReconnecting' \in [Ends -> BOOLEAN]
        /\ incomingAckId' \in [Ends -> Nat]
        /\ outgoingAckTimeout' \in [Ends -> BOOLEAN]
    BY <1>1, <1>3, EndAcceptStep
  <2>2. /\ alive' \in [Sockets -> BOOLEAN]
        /\ socket' \in [Ends -> Sockets]
        /\ paused' \in [Ends -> BOOLEAN]
    BY <1>1 DEF AcceptReconnection, Types
  <2> QED BY <1>4, <2>1, <2>2 DEF Types
<1> QED BY <1>4, <1>5, <1>6, <1>7 DEF Written, InFlight

\* The server's part of the handshake keeps it.
LEMMA HandshakeReadStep ==
    ASSUME IdsFit, IInv, NEW g \in Sockets, HandshakeRead(g) PROVE IInv'
<1> USE DEF IInv
<1> DEFINE s == wire[g]["server"]
           rest == [wire EXCEPT ![g]["server"] = Tail(s)]
<1>1. /\ "server" \in Ends /\ "client" \in Ends
      /\ Peer("server") = "client" /\ Peer("client") = "server"
  BY DEF Ends, Peer
<1>2. /\ outgoingMsgId \in [Ends -> Nat] /\ incomingMsgId \in [Ends -> Nat]
      /\ \A p \in Ends : outgoingMsgId[p] \in Nat /\ incomingMsgId[p] \in Nat
  BY DEF Counters
<1>3. OkWire(rest, outgoingMsgId, incomingMsgId)
  <2>1. OkSeq(s, outgoingMsgId["client"], incomingMsgId["client"]) /\ s # <<>>
    BY <1>1 DEF InFlight, OkWire, HandshakeRead
  <2>2. OkSeq(Tail(s), outgoingMsgId["client"], incomingMsgId["client"])
    BY <1>1, <1>2, <2>1, OkTail
  <2> QED BY <1>1, <1>2, <2>2, WireExcept DEF InFlight
<1>4. ASSUME NEW t \in PlainTypes \cup ControlTypes
      PROVE  OkSeq(<<Plain(t, 0)>>, outgoingMsgId["server"],
                   incomingMsgId["server"])
  BY <1>1, <1>2, OkPlain
<1>5. ASSUME NEW r, OkSeq(r, outgoingMsgId["server"], incomingMsgId["server"])
      PROVE  OkWire(WireAfter(rest, g, "client", r),
                    outgoingMsgId, incomingMsgId)
  BY <1>1, <1>2, <1>3, <1>5, WriteToWire
<1> HIDE DEF rest
\* The handshake goes on: something is read and perhaps answered.
<1>6. CASE /\ \/ UNCHANGED handshake
              \/ handshake' = [handshake EXCEPT ![g] = "waitType"]
              \/ handshake' = [handshake EXCEPT ![g] = "handover"]
           /\ OkWire(wire', outgoingMsgId, incomingMsgId)
           /\ UNCHANGED <<writer, paused, socket, alive, phase, controlBuffer>>
           /\ UNCHANGED protoVars
  <2>1. Types' BY <1>6 DEF Types, protoVars
  <2>2. Counters' /\ Kept' BY <1>6, ProtoSame
  <2> QED BY <1>6, <2>1, <2>2 DEF Written, OkPerEnd, InFlight, protoVars
<1>7. CASE /\ handshake' = [handshake EXCEPT ![g] = "waitType"]
           /\ wire' = WireAfter(rest, g, "client", <<Plain("sign", 0)>>)
           /\ UNCHANGED <<writer, paused, socket, alive>>
           /\ UNCHANGED protoVars
  <2>1. OkWire(wire', outgoingMsgId, incomingMsgId)
    BY <1>4, <1>5, <1>7 DEF ControlTypes
  <2> QED BY <1>6, <1>7, <2>1 DEF HandshakeRead
<1>8. CASE /\ handshake' = [handshake EXCEPT ![g] = "handover"]
           /\ wire' = WireAfter(rest, g, "client",
                                <<Plain("Pause", 0), Plain("ok", 0)>>)
           /\ UNCHANGED <<writer, paused, socket, alive>>
           /\ UNCHANGED protoVars
  <2>1. <<Plain("Pause", 0), Plain("ok", 0)>>
            = <<Plain("Pause", 0)>> \o <<Plain("ok", 0)>>
    OBVIOUS
  <2>2. OkSeq(<<Plain("Pause", 0), Plain("ok", 0)>>, outgoingMsgId["server"],
              incomingMsgId["server"])
    BY <1>1, <1>2, <1>4, <2>1, OkConcat DEF ControlTypes, PlainTypes
  <2>3. OkWire(wire', outgoingMsgId, incomingMsgId) BY <1>5, <1>8, <2>2
  <2> QED BY <1>6, <1>8, <2>3 DEF HandshakeRead
<1>9. CASE /\ handshake' = [handshake EXCEPT ![g] = "done"]
           /\ AcceptReconnection(g,
                WireAfter(rest, g, "client", <<Plain("ok", 0)>>), <<>>)
  <2>1. OkSeq(<<>>, outgoingMsgId["server"], incomingMsgId["server"])
    BY <1>1, <1>2, OkEmpty
  <2>2. OkWire(WireAfter(rest, g, "client", <<Plain("ok", 0)>>),
               outgoingMsgId, incomingMsgId)
    BY <1>4, <1>5 DEF ControlTypes
  <2> QED BY <1>9, <2>1, <2>2, AcceptStep DEF HandshakeRead
<1>10. CASE /\ wire' = rest
            /\ UNCHANGED <<writer, paused, socket, alive, handshake>>
            /\ UNCHANGED protoVars
  BY <1>3, <1>6, <1>10 DEF HandshakeRead
<1> QED BY <1>7, <1>8, <1>9, <1>10 DEF HandshakeRead, rest

\* Handing the socket over, and what is lost meanwhile, keeps it.
LEMMA HandoverStep ==
    ASSUME IdsFit, IInv, NEW g \in Sockets, HandoverLoss(g) \/ HandoverDone(g)
    PROVE  IInv'
<1> USE DEF IInv
<1>1. /\ "server" \in Ends /\ "client" \in Ends /\ Peer("server") = "client"
      /\ outgoingMsgId \in [Ends -> Nat] /\ incomingMsgId \in [Ends -> Nat]
      /\ \A p \in Ends : outgoingMsgId[p] \in Nat /\ incomingMsgId[p] \in Nat
  BY DEF Ends, Peer, Counters
<1>2. CASE HandoverLoss(g)
  <2> DEFINE s == wire[g]["server"]
  <2>1. OkSeq(s, outgoingMsgId["client"], incomingMsgId["client"]) /\ s # <<>>
    BY <1>1, <1>2 DEF InFlight, OkWire, HandoverLoss
  <2>2. OkSeq(Tail(s), outgoingMsgId["client"], incomingMsgId["client"])
    BY <1>1, <2>1, OkTail
  <2>3. OkWire(wire', outgoingMsgId, incomingMsgId)
    BY <1>1, <1>2, <2>2, WireExcept DEF InFlight, HandoverLoss
  <2>4. Counters' /\ Kept' BY <1>2, ProtoSame DEF HandoverLoss
  <2>5. Types' BY <1>2 DEF HandoverLoss, Types, protoVars, loopVars
  <2> QED BY <1>2, <2>3, <2>4, <2>5
          DEF Written, OkPerEnd, InFlight, protoVars, HandoverLoss
<1>3. CASE HandoverDone(g)
  <2>1. OkSeq(<<Plain("Resume", 0)>>, outgoingMsgId["server"],
              incomingMsgId["server"])
    BY <1>1, OkPlain DEF PlainTypes
  <2> QED BY <1>3, <2>1, AcceptStep DEF HandoverDone, InFlight
<1> QED BY <1>2, <1>3

-----------------------------------------------------------------------------
(* The theorems                                                            *)

\* Every step keeps it.
LEMMA NextStep == IdsFit /\ IInv /\ [Next]_vars => IInv'
<1> SUFFICES ASSUME IdsFit, IInv, [Next]_vars PROVE IInv' OBVIOUS
<1>1. ASSUME NEW p \in Ends, Send(p) PROVE IInv' BY <1>1, SendStep
<1>2. ASSUME NEW p \in Ends, Flush(p) PROVE IInv' BY <1>2, FlushStep
<1>3. ASSUME NEW p \in Ends, AckTimer(p) \/ KeepAlive(p) PROVE IInv'
  BY <1>3, AcknowledgeStep
<1>4. ASSUME NEW p \in Ends, ReceiveRegular(p) PROVE IInv'
  BY <1>4, ReceiveRegularStep
<1>5. ASSUME NEW p \in Ends, ReceivePlain(p) PROVE IInv'
  BY <1>5, ReceivePlainStep
<1>6. ASSUME NEW p \in Ends, AckCheckTimer(p) PROVE IInv' BY <1>6, QuietStep
<1>7. ASSUME NEW p \in Ends, SocketClosed(p) PROVE IInv'
  BY <1>7, SocketClosedStep
<1>8. CASE BeginReconnect BY <1>8, BeginReconnectStep
<1>9. CASE SendConnectionType BY <1>9, SendConnectionTypeStep
<1>10. CASE HandshakeTimeout BY <1>10, QuietStep
<1>11. CASE ReceiveControl BY <1>11, ReceiveControlStep
<1>12. ASSUME NEW g \in Sockets, Break(g) PROVE IInv' BY <1>12, QuietStep
<1>13. ASSUME NEW g \in Sockets, HandshakeRead(g) PROVE IInv'
  BY <1>13, HandshakeReadStep
<1>14. ASSUME NEW g \in Sockets, HandoverLoss(g) \/ HandoverDone(g) PROVE IInv'
  BY <1>14, HandoverStep
<1>15. CASE UNCHANGED vars
  BY <1>15 DEF IInv, Types, Counters, Kept, Consecutive, Written, InFlight,
               OkPerEnd, OkWire, vars
<1> QED BY <1>1, <1>2, <1>3, <1>4, <1>5, <1>6, <1>7, <1>8, <1>9, <1>10, <1>11,
           <1>12, <1>13, <1>14, <1>15 DEF Next

\* IInv holds in every state of every connection whose ids fit in the header.
THEOREM Invariance == IdsFit => (Spec => []IInv)
<1> SUFFICES ASSUME IdsFit PROVE Spec => []IInv OBVIOUS
<1>1. Init => IInv BY InitStep
<1>2. IInv /\ [Next]_vars => IInv' BY NextStep
<1> QED BY <1>1, <1>2, PTL DEF Spec

\* Every field of both protocols, both writers and every socket keeps its
\* type, whatever the number of messages and of sockets.
THEOREM TypeCorrect == IdsFit => (Spec => []TypeOK)
<1> SUFFICES ASSUME IdsFit PROVE Spec => []TypeOK OBVIOUS
<1>1. IInv => TypeOK
  BY DEF IInv, Types, Counters, Kept, Written, InFlight, OkPerEnd, OkWire,
         TypeOK
<1> QED BY <1>1, Invariance, PTL

\* Any number of lost sockets, overlapping handshakes and retransmissions
\* delivers every message once and in order (onMessage of ipc.net.ts).
THEOREM DeliveredExactlyOnceInOrder == IdsFit => (Spec => []ExactlyOnceInOrder)
<1> SUFFICES ASSUME IdsFit PROVE Spec => []ExactlyOnceInOrder OBVIOUS
<1>1. IInv => ExactlyOnceInOrder BY DEF IInv, Counters, ExactlyOnceInOrder
<1> QED BY <1>1, Invariance, PTL

\* A copy is dropped only after the other application has been given the
\* message (the do/while loop of _receiveMessage).
THEOREM CopiesKeptUntilReceived == IdsFit => (Spec => []KeptUntilReceived)
<1> SUFFICES ASSUME IdsFit PROVE Spec => []KeptUntilReceived OBVIOUS
<1>1. IInv => KeptUntilReceived
  BY DEF IInv, Counters, Kept, Consecutive, KeptUntilReceived
<1> QED BY <1>1, Invariance, PTL

-----------------------------------------------------------------------------
(* The connection is a reliable channel                                    *)

\* ReliableChannel and the protocol name the other end alike.
LEMMA OtherEndIsPeer == \A p \in Ends : Channel!OtherEnd(p) = Peer(p)
BY DEF Channel!OtherEnd, Ends, Peer

\* As many messages have been delivered as the last id says.
LEMMA DeliveredCount ==
    ASSUME Counters, NEW p \in Ends
    PROVE  Len(received[p]) = incomingMsgId[p]
BY DEF Counters

\* An ack is a ChForget of the channel, or changes nothing.
LEMMA AckForgets ==
    ASSUME Counters, NEW p \in Ends, NEW m, m.ack \in Nat,
           m.ack <= incomingMsgId[Peer(p)], ProcessAck(p, m)
    PROVE  \/ UNCHANGED outgoingAckId
           \/ \E n \in (outgoingAckId[p] + 1) ..
                          Len(received[Channel!OtherEnd(p)]) :
                 outgoingAckId' = [outgoingAckId EXCEPT ![p] = n]
<1>1. CASE ~(m.ack > outgoingAckId[p]) BY <1>1 DEF ProcessAck
<1>2. CASE m.ack > outgoingAckId[p]
  <2>1. Len(received[Channel!OtherEnd(p)]) = incomingMsgId[Peer(p)]
    BY OtherEndIsPeer, PeerFacts, DeliveredCount
  <2>2. outgoingAckId[p] \in Nat /\ incomingMsgId[Peer(p)] \in Nat
    BY PeerFacts DEF Counters
  <2>3. m.ack \in (outgoingAckId[p] + 1) ..
                     Len(received[Channel!OtherEnd(p)])
    BY <1>2, <2>1, <2>2
  <2>4. outgoingAckId' = [outgoingAckId EXCEPT ![p] = m.ack]
    BY <1>2 DEF ProcessAck
  <2> QED BY <2>3, <2>4
<1> QED BY <1>1, <1>2

\* Reading a Regular message delivers it, or is invisible.
LEMMA ReceiveRegularImplements ==
    ASSUME IInv, NEW p \in Ends, ReceiveRegular(p)
    PROVE  Channel!ChNext \/ UNCHANGED Channel!chVars
<1> DEFINE m == Incoming(p)
           forget == \E n \in (outgoingAckId[p] + 1) ..
                               Len(received[Channel!OtherEnd(p)]) :
                         outgoingAckId' = [outgoingAckId EXCEPT ![p] = n]
           deliver == /\ Len(received[p]) < outgoingMsgId[Channel!OtherEnd(p)]
                      /\ received' = [received EXCEPT ![p] =
                                        Append(received[p], Len(received[p]) + 1)]
<1>1. /\ m.id = m.data /\ m.id \in 1 .. outgoingMsgId[Peer(p)]
      /\ m.ack \in Nat /\ m.ack <= incomingMsgId[Peer(p)]
  BY ConsumeOk DEF ReceiveRegular, Ok, Message, IInv
<1>2. UNCHANGED outgoingAckId \/ forget
  BY <1>1, AckForgets DEF ReceiveRegular, IInv
<1>3. UNCHANGED received \/ deliver
  <2>1. CASE IsNext(p, m)
    <3>1. /\ m.id = incomingMsgId[p] + 1
          /\ received' = [received EXCEPT ![p] = Append(received[p], m.data)]
      BY <2>1 DEF ReceiveRegular, IsNext
    <3>2. Len(received[p]) = incomingMsgId[p] BY DeliveredCount DEF IInv
    <3>3. /\ incomingMsgId[p] \in Nat /\ outgoingMsgId[Peer(p)] \in Nat
          /\ Channel!OtherEnd(p) = Peer(p)
      BY OtherEndIsPeer, PeerFacts DEF IInv, Counters
    <3>4. m.data = Len(received[p]) + 1 BY <1>1, <3>1, <3>2
    <3>5. Len(received[p]) < outgoingMsgId[Channel!OtherEnd(p)]
      BY <1>1, <3>1, <3>2, <3>3
    <3> QED BY <3>1, <3>4, <3>5
  <2>2. CASE ~IsNext(p, m) BY <2>2 DEF ReceiveRegular
  <2> QED BY <2>1, <2>2
<1>4. UNCHANGED outgoingMsgId BY DEF ReceiveRegular
<1>5. CASE UNCHANGED outgoingAckId /\ UNCHANGED received
  BY <1>4, <1>5 DEF Channel!chVars
<1>6. CASE UNCHANGED outgoingAckId /\ deliver
  BY <1>4, <1>6 DEF Channel!ChNext, Channel!ChDeliver
<1>7. CASE forget /\ UNCHANGED received
  BY <1>4, <1>7 DEF Channel!ChNext, Channel!ChForget
<1>8. CASE forget /\ deliver
  BY <1>4, <1>8 DEF Channel!ChNext, Channel!ChForgetAndDeliver
<1> QED BY <1>2, <1>3, <1>5, <1>6, <1>7, <1>8

\* Reading an Ack releases what was delivered.
LEMMA ReceivePlainImplements ==
    ASSUME IInv, NEW p \in Ends, ReceivePlain(p)
    PROVE  Channel!ChNext \/ UNCHANGED Channel!chVars
<1>1. /\ Incoming(p).ack \in Nat
      /\ Incoming(p).ack <= incomingMsgId[Peer(p)]
  BY ConsumeOk DEF ReceivePlain, Ok, Message, IInv
<1>2. \/ UNCHANGED outgoingAckId
      \/ \E n \in (outgoingAckId[p] + 1) .. Len(received[Channel!OtherEnd(p)]) :
            outgoingAckId' = [outgoingAckId EXCEPT ![p] = n]
  BY <1>1, AckForgets DEF ReceivePlain, IInv
<1>3. UNCHANGED <<outgoingMsgId, received>> BY DEF ReceivePlain
<1> QED BY <1>2, <1>3 DEF Channel!ChNext, Channel!ChForget, Channel!chVars

\* Every step is one of ReliableChannel's, or invisible.
LEMMA NextImplements ==
    ASSUME IInv, [Next]_vars
    PROVE  Channel!ChNext \/ UNCHANGED Channel!chVars
<1>1. ASSUME NEW p \in Ends, Send(p) PROVE Channel!ChNext
  BY <1>1 DEF Send, Channel!ChNext, Channel!ChSend
<1>2. ASSUME NEW p \in Ends, ReceiveRegular(p)
      PROVE  Channel!ChNext \/ UNCHANGED Channel!chVars
  BY <1>2, ReceiveRegularImplements
<1>3. ASSUME NEW p \in Ends, ReceivePlain(p)
      PROVE  Channel!ChNext \/ UNCHANGED Channel!chVars
  BY <1>3, ReceivePlainImplements
<1>4. ASSUME NEW p \in Ends,
             Flush(p) \/ AckTimer(p) \/ KeepAlive(p) \/ AckCheckTimer(p)
                \/ SocketClosed(p)
      PROVE  UNCHANGED Channel!chVars
  BY <1>4 DEF Flush, AckTimer, KeepAlive, AckCheckTimer, SocketClosed,
              protoVars, Channel!chVars
<1>5. CASE BeginReconnect \/ SendConnectionType \/ HandshakeTimeout
           \/ ReceiveControl
  BY <1>5 DEF BeginReconnect, SendConnectionType, HandshakeTimeout,
              ReceiveControl, EndAcceptReconnection, protoVars, Channel!chVars
<1>6. ASSUME NEW g \in Sockets,
             Break(g) \/ HandshakeRead(g) \/ HandoverLoss(g) \/ HandoverDone(g)
      PROVE  UNCHANGED Channel!chVars
  BY <1>6 DEF Break, HandshakeRead, HandoverLoss, HandoverDone,
              AcceptReconnection, EndAcceptReconnection, protoVars,
              Channel!chVars
<1>7. CASE UNCHANGED vars BY <1>7 DEF vars, Channel!chVars
<1> QED BY <1>1, <1>2, <1>3, <1>4, <1>5, <1>6, <1>7 DEF Next

\* Both directions of a persistent connection implement ReliableChannel: no
\* socket, handshake or retransmission is visible to the application.
THEOREM ImplementsChannel == IdsFit => (Spec => ChannelSpec)
<1> SUFFICES ASSUME IdsFit PROVE Spec => ChannelSpec OBVIOUS
<1>1. Init => Channel!ChInit BY DEF Init, Channel!ChInit
<1>2. IInv /\ [Next]_vars => [Channel!ChNext]_(Channel!chVars)
  BY NextImplements
<1>3. Spec => []IInv BY Invariance
<1> QED BY <1>1, <1>2, <1>3, PTL DEF Spec, ChannelSpec, Channel!ChSpec

-----------------------------------------------------------------------------
(* The order of messages                                                   *)

\* Every message of s is of one of the types.
Only(s, types) == \A i \in 1 .. Len(s) : s[i].type \in types

\* At most one signature request is in s.
OneSign(s) ==
    \A i, j \in 1 .. Len(s) : s[i].type = "sign" /\ s[j].type = "sign" => i = j

\* Every "ok" in s comes after a "Pause".
PauseFirst(s) ==
    \A i \in 1 .. Len(s) :
        s[i].type = "ok" => \E j \in 1 .. i - 1 : s[j].type = "Pause"

\* m is the application's message n.
IsRegular(m, n) == m.type = "Regular" /\ m.id = n

\* To one that has received `in' messages, s brings none before those that
\* precede it.
NoGap(s, in) ==
    \A i \in 1 .. Len(s) : s[i].type = "Regular" =>
        \A n \in in + 1 .. s[i].id - 1 :
            \E j \in 1 .. i - 1 : IsRegular(s[j], n)

\* To one that has received `in' messages, s brings all up to `out'.
Complete(s, in, out) ==
    \A n \in in + 1 .. out : \E j \in 1 .. Len(s) : IsRegular(s[j], n)

\* Reading a message leaves those behind it.
LEMMA TailFacts ==
    ASSUME NEW s \in Seq(Message), s # <<>>
    PROVE  /\ Head(s) \in Message /\ Head(s) = s[1] /\ 1 \in 1 .. Len(s)
           /\ Tail(s) \in Seq(Message) /\ Len(Tail(s)) = Len(s) - 1
           /\ \A i \in 1 .. Len(s) - 1 : Tail(s)[i] = s[i + 1]
           /\ Len(s) \in Nat \ {0}
OBVIOUS

\* What follows what.
LEMMA ConcatFacts ==
    ASSUME NEW s \in Seq(Message), NEW t \in Seq(Message)
    PROVE  /\ s \o t \in Seq(Message) /\ Len(s \o t) = Len(s) + Len(t)
           /\ Len(s) \in Nat /\ Len(t) \in Nat
           /\ \A i \in 1 .. Len(s) : (s \o t)[i] = s[i]
           /\ \A i \in 1 .. Len(t) : (s \o t)[Len(s) + i] = t[i]
           /\ \A i \in 1 .. Len(s) + Len(t) :
                 \/ i \in 1 .. Len(s)
                 \/ i - Len(s) \in 1 .. Len(t) /\ (s \o t)[i] = t[i - Len(s)]
OBVIOUS

\* The tail of what is in flight and what is yet to be flushed.
LEMMA TailConcat ==
    ASSUME NEW s \in Seq(Message), NEW t \in Seq(Message), s # <<>>
    PROVE  /\ Tail(s) \o t = Tail(s \o t)
           /\ s \o t # <<>> /\ Head(s \o t) = Head(s)
<1> DEFINE u == Tail(s) \o t
           v == s \o t
<1>1. /\ Len(s) \in Nat \ {0} /\ Len(t) \in Nat
      /\ Tail(s) \in Seq(Message) /\ Len(Tail(s)) = Len(s) - 1
      /\ \A i \in 1 .. Len(s) - 1 : Tail(s)[i] = s[i + 1]
  OBVIOUS
<1>2. v \in Seq(Message) /\ Len(v) = Len(s) + Len(t) /\ v[1] = s[1]
  BY <1>1
<1>3. v # <<>> /\ Head(v) = Head(s)
  BY <1>1, <1>2
<1>4. /\ Tail(v) \in Seq(Message) /\ Len(Tail(v)) = Len(v) - 1
      /\ \A i \in 1 .. Len(v) - 1 : Tail(v)[i] = v[i + 1]
  BY <1>2, <1>3
<1>5. u \in Seq(Message) /\ Len(u) = Len(v) - 1
  BY <1>1, <1>2, ConcatFacts
<1>6. ASSUME NEW i \in 1 .. Len(v) - 1 PROVE u[i] = v[i + 1]
  <2>1. CASE i <= Len(s) - 1
    BY <1>1, <1>2, <2>1
  <2>2. CASE i > Len(s) - 1
    BY <1>1, <1>2, <2>2
  <2> QED
    BY <1>1, <2>1, <2>2
<1> HIDE DEF u, v
<1>7. u = Tail(v)
  BY <1>4, <1>5, <1>6
<1> QED
  BY <1>3, <1>7 DEF u, v

\* Only: the first message, and the others.
LEMMA OnlyTail ==
    ASSUME NEW s \in Seq(Message), s # <<>>, NEW T, Only(s, T)
    PROVE  Head(s).type \in T /\ Only(Tail(s), T)
BY TailFacts DEF Only

\* Two sequences of the same types, one after the other.
LEMMA OnlyConcat ==
    ASSUME NEW s \in Seq(Message), NEW t \in Seq(Message), NEW T,
           Only(s, T), Only(t, T)
    PROVE  Only(s \o t, T)
<1> DEFINE u == s \o t
<1>1. ASSUME NEW i \in 1 .. Len(s) + Len(t) PROVE u[i].type \in T
  <2>1. CASE i \in 1 .. Len(s)
    BY <2>1, ConcatFacts DEF Only
  <2>2. CASE i - Len(s) \in 1 .. Len(t) /\ u[i] = t[i - Len(s)]
    BY <2>2 DEF Only
  <2> QED
    BY <2>1, <2>2, ConcatFacts
<1> QED
  BY <1>1, ConcatFacts DEF Only

\* More types allow as much.
LEMMA OnlyMore ==
    ASSUME NEW s, NEW T, NEW U, Only(s, T), T \subseteq U PROVE Only(s, U)
BY DEF Only

\* No message is of any type.
LEMMA OnlyEmpty == \A T : Only(<<>>, T)
BY DEF Only

\* A single message.
LEMMA OnlyOne ==
    ASSUME NEW m \in Message, NEW T, m.type \in T
    PROVE  <<m>> \in Seq(Message) /\ Only(<<m>>, T)
BY DEF Only

\* A socket that carries nothing.
LEMMA OnlyNothing ==
    ASSUME NEW s \in Seq(Message), Only(s, {}) PROVE s = <<>>
BY DEF Only

\* Only the first sign has a sign behind it.
LEMMA OneSignTail ==
    ASSUME NEW s \in Seq(Message), s # <<>>, NEW T, OneSign(s), Only(s, T)
    PROVE  /\ OneSign(Tail(s))
           /\ Head(s).type = "sign" => Only(Tail(s), T \ {"sign"})
<1>1. /\ \A i \in 1 .. Len(s) - 1 : Tail(s)[i] = s[i + 1]
      /\ \A i \in 1 .. Len(s) - 1 : i + 1 \in 1 .. Len(s) /\ i + 1 # 1
      /\ Len(Tail(s)) = Len(s) - 1 /\ Head(s) = s[1] /\ 1 \in 1 .. Len(s)
  BY TailFacts
<1> DEFINE t == Tail(s)
<1> HIDE DEF t
<1>2. /\ \A i \in 1 .. Len(t) : t[i] = s[i + 1] /\ i + 1 \in 1 .. Len(s)
      /\ \A i \in 1 .. Len(t) : i + 1 # 1
  BY <1>1 DEF t
<1>3. OneSign(t)
  <2> SUFFICES ASSUME NEW i \in 1 .. Len(t), NEW j \in 1 .. Len(t),
                      t[i].type = "sign", t[j].type = "sign"
               PROVE  i = j
    BY DEF OneSign
  <2>1. i + 1 = j + 1
    BY <1>2 DEF OneSign
  <2> QED
    BY <2>1
<1>4. ASSUME Head(s).type = "sign" PROVE Only(t, T \ {"sign"})
  <2> SUFFICES ASSUME NEW i \in 1 .. Len(t)
               PROVE  t[i].type \in T \ {"sign"}
    BY DEF Only
  <2>1. t[i].type \in T
    BY <1>2 DEF Only
  <2>2. t[i].type # "sign"
    BY <1>1, <1>2, <1>4 DEF OneSign
  <2> QED
    BY <2>1, <2>2
<1> QED
  BY <1>3, <1>4 DEF t

\* Nothing that is no signature request makes a second one.
LEMMA OneSignConcat ==
    ASSUME NEW s \in Seq(Message), NEW t \in Seq(Message), NEW T,
           OneSign(s), Only(t, T), "sign" \notin T
    PROVE  OneSign(s \o t)
<1> DEFINE u == s \o t
<1>1. \A i \in 1 .. Len(s) + Len(t) :
          u[i].type = "sign" => i \in 1 .. Len(s) /\ u[i] = s[i]
  BY ConcatFacts DEF Only
<1>2. Len(u) = Len(s) + Len(t)
  BY ConcatFacts
<1> HIDE DEF u
<1>3. OneSign(u)
  BY <1>1, <1>2 DEF OneSign
<1> QED
  BY <1>3 DEF u

\* None or one is not two.
LEMMA OneSignOne ==
    /\ OneSign(<<>>)
    /\ \A m \in Message : OneSign(<<m>>)
BY DEF OneSign

\* A message that is read is an "ok" only if a "Pause" was read before.
LEMMA PauseFirstTail ==
    ASSUME NEW s \in Seq(Message), s # <<>>, PauseFirst(s)
    PROVE  /\ Head(s).type # "ok"
           /\ Head(s).type # "Pause" => PauseFirst(Tail(s))
<1> DEFINE t == Tail(s)
<1>1. /\ \A i \in 1 .. Len(t) : t[i] = s[i + 1] /\ i + 1 \in 1 .. Len(s)
      /\ Head(s) = s[1] /\ 1 \in 1 .. Len(s)
  BY TailFacts
<1> HIDE DEF t
<1>2. Head(s).type # "ok"
  BY <1>1 DEF PauseFirst
<1>3. ASSUME Head(s).type # "Pause" PROVE PauseFirst(t)
  <2> SUFFICES ASSUME NEW i \in 1 .. Len(t), t[i].type = "ok"
               PROVE  \E j \in 1 .. i - 1 : t[j].type = "Pause"
    BY DEF PauseFirst
  <2>1. PICK j \in 1 .. (i + 1) - 1 : s[j].type = "Pause"
    BY <1>1 DEF PauseFirst
  <2>2. j # 1
    BY <1>1, <1>3, <2>1
  <2>3. j - 1 \in 1 .. i - 1 /\ j - 1 \in 1 .. Len(t) /\ (j - 1) + 1 = j
    BY <2>1, <2>2
  <2>4. t[j - 1].type = "Pause"
    BY <1>1, <2>1, <2>3
  <2> QED
    BY <2>3, <2>4
<1> QED
  BY <1>2, <1>3 DEF t

\* What the handshake of another process answers.
LEMMA PauseFirstOk ==
    ASSUME NEW s \in Seq(Message), NEW m \in Message, NEW n \in Message,
           Only(s, {"sign"}), m.type = "Pause"
    PROVE  PauseFirst(s \o <<m, n>>)
<1> DEFINE t == <<m, n>>
<1>1. t \in Seq(Message) /\ Len(t) = 2 /\ t[1] = m
  OBVIOUS
<1> HIDE DEF t
<1> DEFINE u == s \o t
           k == Len(s)
<1>2. /\ k \in Nat /\ Len(u) = k + 2 /\ u[k + 1] = t[1]
      /\ \A i \in 1 .. k : u[i] = s[i]
  <2>1. /\ k \in Nat /\ Len(u) = k + Len(t)
        /\ \A i \in 1 .. k : u[i] = s[i]
        /\ \A i \in 1 .. Len(t) : u[k + i] = t[i]
    BY <1>1, ConcatFacts
  <2> HIDE DEF u, k
  <2> QED
    BY <1>1, <2>1
<1>3. \A i \in 1 .. k : s[i].type # "ok"
  BY DEF Only
<1> HIDE DEF u, k
<1>4. u[k + 1].type = "Pause"
  BY <1>1, <1>2
<1>5. PauseFirst(u)
  <2> SUFFICES ASSUME NEW i \in 1 .. k + 2, u[i].type = "ok"
               PROVE  \E j \in 1 .. i - 1 : u[j].type = "Pause"
    BY <1>2 DEF PauseFirst
  <2>1. i \notin 1 .. k
    BY <1>2, <1>3
  <2>2. i # k + 1
    BY <1>4
  <2>3. k + 1 \in 1 .. i - 1
    BY <1>2, <2>1, <2>2
  <2> QED
    BY <1>4, <2>3
<1> QED
  BY <1>5 DEF u, t

\* The first message of the application that comes is the next or older.
LEMMA NoGapFirst ==
    ASSUME NEW s \in Seq(Message), s # <<>>, NEW in \in Nat, NoGap(s, in),
           Head(s).type = "Regular"
    PROVE  Head(s).id <= in + 1
<1>1. Head(s) = s[1] /\ 1 \in 1 .. Len(s) /\ s[1].id \in Nat
  BY TailFacts DEF Message
<1>2. \A n \in in + 1 .. s[1].id - 1 : FALSE
  BY <1>1 DEF NoGap
<1>3. CASE s[1].id > in + 1
  <2>1. in + 1 \in in + 1 .. s[1].id - 1
    BY <1>1, <1>3
  <2> QED
    BY <2>1, <1>2
<1> QED
  BY <1>1, <1>3

\* Reading a message that is not Regular, or one that is then received, or a
\* duplicate.
LEMMA NoGapTail ==
    ASSUME NEW s \in Seq(Message), s # <<>>, NEW in \in Nat, NEW in2 \in Nat,
           in <= in2, Head(s).type = "Regular" => Head(s).id <= in2
    PROVE  /\ NoGap(s, in) => NoGap(Tail(s), in2)
           /\ \A out \in Nat :
                 Complete(s, in, out) => Complete(Tail(s), in2, out)
<1> DEFINE t == Tail(s)
<1>1. /\ \A i \in 1 .. Len(t) : t[i] = s[i + 1] /\ i + 1 \in 1 .. Len(s)
      /\ Head(s) = s[1] /\ 1 \in 1 .. Len(s) /\ s[1].id \in Nat
      /\ Len(t) = Len(s) - 1 /\ Len(s) \in Nat \ {0}
  <2>1. Len(t) = Len(s) - 1 /\ Len(s) \in Nat \ {0}
    BY TailFacts
  <2>2. Head(s) = s[1] /\ 1 \in 1 .. Len(s) /\ s[1].id \in Nat
    BY TailFacts DEF Message
  <2>3. \A i \in 1 .. Len(s) - 1 : t[i] = s[i + 1]
    BY TailFacts
  <2> HIDE DEF t
  <2> QED
    BY <2>1, <2>2, <2>3
<1>2. ASSUME NEW n \in Int, n > in2 PROVE ~IsRegular(s[1], n)
  BY <1>1, <1>2 DEF IsRegular
<1> HIDE DEF t
<1>3. ASSUME NoGap(s, in) PROVE NoGap(t, in2)
  <2> SUFFICES ASSUME NEW i \in 1 .. Len(t), t[i].type = "Regular",
                      NEW n \in in2 + 1 .. t[i].id - 1
               PROVE  \E j \in 1 .. i - 1 : IsRegular(t[j], n)
    BY DEF NoGap
  <2>1. /\ s[i + 1] = t[i] /\ i + 1 \in 1 .. Len(s)
        /\ n \in in + 1 .. s[i + 1].id - 1
    BY <1>1
  <2>2. PICK j \in 1 .. (i + 1) - 1 : IsRegular(s[j], n)
    BY <1>3, <2>1 DEF NoGap
  <2>3. j # 1
    BY <1>2, <2>2
  <2>4. j - 1 \in 1 .. i - 1 /\ j - 1 \in 1 .. Len(t) /\ (j - 1) + 1 = j
    BY <1>1, <2>2, <2>3
  <2>5. IsRegular(t[j - 1], n)
    BY <1>1, <2>2, <2>4
  <2> QED
    BY <2>4, <2>5
<1>4. ASSUME NEW out \in Nat, Complete(s, in, out)
      PROVE  Complete(t, in2, out)
  <2> SUFFICES ASSUME NEW n \in in2 + 1 .. out
               PROVE  \E j \in 1 .. Len(t) : IsRegular(t[j], n)
    BY DEF Complete
  <2>1. n \in in + 1 .. out
    OBVIOUS
  <2>2. PICK j \in 1 .. Len(s) : IsRegular(s[j], n)
    BY <1>4, <2>1 DEF Complete
  <2>3. j # 1
    BY <1>2, <2>2
  <2>4. j - 1 \in 1 .. Len(t) /\ (j - 1) + 1 = j
    BY <1>1, <2>2, <2>3
  <2>5. IsRegular(t[j - 1], n)
    BY <1>1, <2>2, <2>4
  <2> QED
    BY <2>4, <2>5
<1> QED
  BY <1>3, <1>4 DEF t

\* What comes first cannot miss what comes later; either part can be all.
LEMMA NoGapConcat ==
    ASSUME NEW s \in Seq(Message), NEW t \in Seq(Message), NEW in \in Nat
    PROVE  /\ NoGap(s, in) /\ NoGap(t, in) => NoGap(s \o t, in)
           /\ NoGap(s \o t, in) => NoGap(s, in)
           /\ \A out \in Nat : Complete(s, in, out) \/ Complete(t, in, out)
                                  => Complete(s \o t, in, out)
<1> DEFINE u == s \o t
           k == Len(s)
           l == Len(t)
<1>1. /\ k \in Nat /\ l \in Nat /\ Len(u) = k + l
      /\ \A i \in 1 .. k : u[i] = s[i]
      /\ \A i \in 1 .. l : u[k + i] = t[i]
  BY ConcatFacts
<1> HIDE DEF u
<1>2. ASSUME NoGap(s, in), NoGap(t, in) PROVE NoGap(u, in)
  <2> SUFFICES ASSUME NEW i \in 1 .. k + l, u[i].type = "Regular",
                      NEW n \in in + 1 .. u[i].id - 1
               PROVE  \E j \in 1 .. i - 1 : IsRegular(u[j], n)
    BY <1>1 DEF NoGap
  <2>1. CASE i \in 1 .. k
    <3>1. PICK j \in 1 .. i - 1 : IsRegular(s[j], n)
      BY <1>1, <1>2, <2>1 DEF NoGap
    <3>2. u[j] = s[j]
      BY <1>1, <2>1, <3>1
    <3> QED
      BY <3>1, <3>2
  <2>2. CASE i \notin 1 .. k
    <3>1. i - k \in 1 .. l /\ k + (i - k) = i
      BY <1>1, <2>2
    <3>2. u[i] = t[i - k]
      BY <1>1, <3>1
    <3>3. PICK j \in 1 .. (i - k) - 1 : IsRegular(t[j], n)
      BY <1>2, <3>1, <3>2 DEF NoGap
    <3>4. k + j \in 1 .. i - 1 /\ j \in 1 .. l
      BY <1>1, <3>1, <3>3
    <3>5. u[k + j] = t[j]
      BY <1>1, <3>4
    <3> QED
      BY <3>3, <3>4, <3>5
  <2> QED
    BY <2>1, <2>2
<1>3. ASSUME NoGap(u, in) PROVE NoGap(s, in)
  <2> SUFFICES ASSUME NEW i \in 1 .. k, s[i].type = "Regular",
                      NEW n \in in + 1 .. s[i].id - 1
               PROVE  \E j \in 1 .. i - 1 : IsRegular(s[j], n)
    BY DEF NoGap
  <2>1. u[i] = s[i] /\ i \in 1 .. k + l
    BY <1>1
  <2>2. PICK j \in 1 .. i - 1 : IsRegular(u[j], n)
    BY <1>1, <1>3, <2>1 DEF NoGap
  <2>3. u[j] = s[j]
    BY <1>1, <2>2
  <2> QED
    BY <2>2, <2>3
<1>4. ASSUME NEW out \in Nat, Complete(s, in, out) \/ Complete(t, in, out)
      PROVE  Complete(u, in, out)
  <2> SUFFICES ASSUME NEW n \in in + 1 .. out
               PROVE  \E j \in 1 .. k + l : IsRegular(u[j], n)
    BY <1>1 DEF Complete
  <2>1. CASE Complete(s, in, out)
    <3>1. PICK j \in 1 .. k : IsRegular(s[j], n)
      BY <2>1 DEF Complete
    <3>2. u[j] = s[j] /\ j \in 1 .. k + l
      BY <1>1
    <3> QED
      BY <3>1, <3>2
  <2>2. CASE Complete(t, in, out)
    <3>1. PICK j \in 1 .. l : IsRegular(t[j], n)
      BY <2>2 DEF Complete
    <3>2. u[k + j] = t[j] /\ k + j \in 1 .. k + l
      BY <1>1
    <3> QED
      BY <3>1, <3>2
  <2> QED
    BY <1>4, <2>1, <2>2
<1> HIDE DEF k
<1> QED
  BY <1>2, <1>3, <1>4 DEF u

\* A message that is not Regular is no gap.
LEMMA NoGapOther ==
    ASSUME NEW s \in Seq(Message), NEW T, Only(s, T), "Regular" \notin T,
           NEW in
    PROVE  NoGap(s, in)
BY DEF NoGap, Only

\* send(): the next message follows all those before it.
LEMMA NoGapSend ==
    ASSUME NEW s \in Seq(Message), NEW m \in Message, NEW in \in Nat,
           NEW out \in Nat, NoGap(s, in), Complete(s, in, out),
           m.type = "Regular", m.id = out + 1
    PROVE  NoGap(s \o <<m>>, in) /\ Complete(s \o <<m>>, in, out + 1)
<1> DEFINE t == <<m>>
<1>1. t \in Seq(Message) /\ Len(t) = 1 /\ t[1] = m
  OBVIOUS
<1> HIDE DEF t
<1> DEFINE u == s \o t
           k == Len(s)
<1>2. /\ k \in Nat /\ Len(u) = k + 1
      /\ \A i \in 1 .. k : u[i] = s[i]
      /\ u[k + 1] = m
  <2>1. /\ k \in Nat /\ Len(u) = k + Len(t)
        /\ \A i \in 1 .. k : u[i] = s[i]
        /\ \A i \in 1 .. Len(t) : u[k + i] = t[i]
    BY <1>1, ConcatFacts
  <2> HIDE DEF u, k
  <2> QED
    BY <1>1, <2>1
<1>3. /\ \A n \in in + 1 .. out : \E j \in 1 .. k : IsRegular(s[j], n)
      /\ \A i \in 1 .. k : s[i].type = "Regular" =>
            \A n \in in + 1 .. s[i].id - 1 :
                \E j \in 1 .. i - 1 : IsRegular(s[j], n)
  BY DEF NoGap, Complete
<1> HIDE DEF u, k
<1>4. NoGap(u, in)
  <2> SUFFICES ASSUME NEW i \in 1 .. k + 1, u[i].type = "Regular",
                      NEW n \in in + 1 .. u[i].id - 1
               PROVE  \E j \in 1 .. i - 1 : IsRegular(u[j], n)
    BY <1>2 DEF NoGap
  <2>1. CASE i \in 1 .. k
    <3>1. PICK j \in 1 .. i - 1 : IsRegular(s[j], n)
      BY <1>2, <1>3, <2>1
    <3>2. u[j] = s[j]
      BY <1>2, <2>1, <3>1
    <3> QED
      BY <3>1, <3>2
  <2>2. CASE i \notin 1 .. k
    <3>1. i = k + 1
      BY <1>2, <2>2
    <3>2. n \in in + 1 .. out
      BY <1>2, <3>1
    <3>3. PICK j \in 1 .. k : IsRegular(s[j], n)
      BY <1>3, <3>2
    <3>4. u[j] = s[j] /\ j \in 1 .. i - 1
      BY <1>2, <3>1
    <3> QED
      BY <3>3, <3>4
  <2> QED
    BY <2>1, <2>2
<1>5. Complete(u, in, out + 1)
  <2> SUFFICES ASSUME NEW n \in in + 1 .. out + 1
               PROVE  \E j \in 1 .. k + 1 : IsRegular(u[j], n)
    BY <1>2 DEF Complete
  <2>1. CASE n = out + 1
    <3>1. IsRegular(u[k + 1], n) /\ k + 1 \in 1 .. k + 1
      BY <1>2, <2>1 DEF IsRegular
    <3> QED
      BY <3>1
  <2>2. CASE n # out + 1
    <3>1. PICK j \in 1 .. k : IsRegular(s[j], n)
      BY <1>3, <2>2
    <3>2. u[j] = s[j] /\ j \in 1 .. k + 1
      BY <1>2
    <3> QED
      BY <3>1, <3>2
  <2> QED
    BY <2>1, <2>2
<1> QED
  BY <1>4, <1>5 DEF u, t

\* The copies kept by a sender, all above what was acknowledged.
LEMMA KeptNoGap ==
    ASSUME NEW q \in Seq(Message), NEW first \in Nat, NEW last \in Nat,
           NEW in \in Nat, first <= in,
           Consecutive(q, first, last), Only(q, {"Regular"})
    PROVE  NoGap(q, in) /\ Complete(q, in, last)
<1>1. /\ Len(q) = last - first /\ Len(q) \in Nat
      /\ \A i \in 1 .. Len(q) : q[i].id = first + i /\ q[i].type = "Regular"
  BY DEF Consecutive, Only
<1>2. ASSUME NEW n \in in + 1 .. last
      PROVE  n - first \in 1 .. Len(q) /\ IsRegular(q[n - first], n)
  <2>1. n - first \in 1 .. Len(q)
    BY <1>1
  <2>2. q[n - first].id = first + (n - first)
    BY <1>1, <2>1
  <2> QED
    BY <1>1, <2>1, <2>2 DEF IsRegular
<1>3. Complete(q, in, last)
  BY <1>2 DEF Complete
<1>4. NoGap(q, in)
  <2> SUFFICES ASSUME NEW i \in 1 .. Len(q), NEW n \in in + 1 .. q[i].id - 1
               PROVE  \E j \in 1 .. i - 1 : IsRegular(q[j], n)
    BY DEF NoGap
  <2>1. q[i].id = first + i
    BY <1>1
  <2>2. n \in in + 1 .. last /\ n - first \in 1 .. i - 1
    BY <1>1, <2>1
  <2> QED
    BY <1>2, <2>2
<1> QED
  BY <1>3, <1>4

\* The header keeps types, and ids that fit in it.
LEMMA SameOnWire ==
    ASSUME IdsFit, Counters, NEW p \in Ends, NEW s,
           OkSeq(s, outgoingMsgId[p], incomingMsgId[p])
    PROVE  /\ AllToWire(s) \in Seq(Message)
           /\ \A T : Only(s, T) => Only(AllToWire(s), T)
           /\ \A in : NoGap(s, in) => NoGap(AllToWire(s), in)
           /\ \A in, out : Complete(s, in, out)
                              => Complete(AllToWire(s), in, out)
<1> DEFINE t == AllToWire(s)
<1>1. /\ outgoingMsgId[p] \in Nat /\ incomingMsgId[p] \in Nat
      /\ outgoingMsgId[p] < IdSpace /\ incomingMsgId[p] < IdSpace
  BY CountersFit DEF Counters
<1>2. t \in Seq(Message) /\ Len(t) = Len(s)
  BY <1>1, OkToWire DEF OkSeq
<1>3. ASSUME NEW i \in 1 .. Len(s)
      PROVE  /\ t[i].type = s[i].type
             /\ s[i].type = "Regular" => t[i].id = s[i].id
  <2> DEFINE m == s[i]
  <2>1. /\ m.type \in MsgTypes /\ m.id \in Nat /\ m.ack \in Nat
        /\ m \in Message
        /\ m.type = "Regular" => m.id \in 1 .. outgoingMsgId[p]
    BY DEF OkSeq, Ok, Message
  <2>2. t[i] = ToWire(m)
    BY DEF AllToWire
  <2>3. ToWire(m).type = m.type /\ ToWire(m).id = m.id % IdSpace
    BY <2>1 DEF ToWire, Message
  <2>4. m.type = "Regular" => m.id % IdSpace = m.id
    <3>1. IdSpace \in Nat \ {0, 1}
      BY ConstantsAssumption
    <3>2. m.type = "Regular" => m.id < IdSpace
      BY <1>1, <2>1, <3>1
    <3> QED
      BY <2>1, <3>1, <3>2, ModSmall
  <2> QED
    BY <2>2, <2>3, <2>4
<1> HIDE DEF t
<1>4. \A T : Only(s, T) => Only(t, T)
  BY <1>2, <1>3 DEF Only
<1>5. \A i \in 1 .. Len(s) : \A n : IsRegular(s[i], n) => IsRegular(t[i], n)
  BY <1>3 DEF IsRegular
<1>6. ASSUME NEW in, NoGap(s, in) PROVE NoGap(t, in)
  <2> SUFFICES ASSUME NEW i \in 1 .. Len(s), t[i].type = "Regular",
                      NEW n \in in + 1 .. t[i].id - 1
               PROVE  \E j \in 1 .. i - 1 : IsRegular(t[j], n)
    BY <1>2 DEF NoGap
  <2>1. PICK j \in 1 .. i - 1 : IsRegular(s[j], n)
    BY <1>3, <1>6 DEF NoGap
  <2>2. Len(s) \in Nat
    BY DEF OkSeq
  <2>3. j \in 1 .. Len(s)
    BY <2>1, <2>2
  <2> QED
    BY <1>5, <2>1, <2>3
<1>7. ASSUME NEW in, NEW out, Complete(s, in, out) PROVE Complete(t, in, out)
  BY <1>2, <1>5, <1>7 DEF Complete
<1> QED
  BY <1>2, <1>4, <1>6, <1>7 DEF t

\* What has been received in the meantime is not missing either.
LEMMA NoGapLater ==
    ASSUME NEW s, NEW in \in Nat, NEW in2 \in Nat, in <= in2
    PROVE  /\ NoGap(s, in) => NoGap(s, in2)
           /\ \A out : Complete(s, in, out) => Complete(s, in2, out)
<1>1. \A n, m : n \in in2 + 1 .. m => n \in Int /\ n > in
  OBVIOUS
<1>2. \A m : \A n \in in2 + 1 .. m : n \in in + 1 .. m
  BY <1>1
<1>3. NoGap(s, in) => NoGap(s, in2)
  BY <1>2 DEF NoGap
<1>4. \A out : Complete(s, in, out) => Complete(s, in2, out)
  BY <1>2 DEF Complete
<1> QED
  BY <1>3, <1>4

-----------------------------------------------------------------------------
(* Handshakes and what they let through                                    *)

\* What each end writes: the client never asks for a replay; nor does the
\* server, which begins no handshake either.
FromClient == MsgTypes \ {"ReplayRequest"}
FromServer == MsgTypes \ {"ReplayRequest", "auth", "connectionType"}

\* What the server may have written to a socket whose handshake is at h.
Answered(h) ==
    IF h \in {"none", "waitAuth"} THEN {}
    ELSE IF h = "waitType" THEN {"sign"}
    ELSE IF h = "handover" THEN {"sign", "Pause", "ok"}
    ELSE FromServer

\* And the client: no application message before the handshake is over.
Asked(h) == IF h = "done" THEN FromClient ELSE FromClient \ {"Regular"}

\* What is in flight on socket g is what its handshake lets through.
Line(g) ==
    /\ Only(wire[g]["client"], Answered(handshake[g]))
    /\ Only(wire[g]["server"], Asked(handshake[g]))
    /\ OneSign(wire[g]["client"])

\* The same for all sockets, and what is kept or buffered.
Lines ==
    /\ \A g \in Sockets : Line(g)
    /\ \A p \in Ends : Only(outgoingUnackMsg[p], {"Regular"})
    /\ Only(writer["client"], FromClient)
    /\ Only(writer["server"], FromServer \ ControlTypes)

\* The client's socket is the last one there is.
Newest == socket["client"]

\* Newer sockets are untouched, and the handshake of the newest has begun.
Fresh ==
    /\ \A g \in Sockets : g > Newest =>
          handshake[g] = "none" /\ wire[g]["server"] = <<>>
    /\ handshake[Newest] # "none"

\* Where the client's loop is says where the handshake of its socket can be.
Asking ==
    phase = "awaitSign" =>
        /\ handshake[Newest] \in {"waitAuth", "waitType"}
        /\ Only(writer["client"], FromClient \ {"connectionType"})
        /\ Only(wire[Newest]["server"], FromClient \ {"connectionType"})

\* Past the first answer, the socket has nothing more to sign.
Answering ==
    phase \in {"signing", "awaitOk"} =>
        /\ handshake[Newest] # "waitAuth"
        /\ Only(wire[Newest]["client"], FromServer \ {"sign"})

\* Until the handshake is over the client has nothing to write, or is not
\* allowed to.
Silent ==
    handshake[Newest] # "done" =>
        \/ /\ isReconnecting["client"]
           /\ Only(writer["client"], FromClient \ {"Regular"})
        \/ handshake[Newest] = "handover" /\ paused["client"]

\* While the socket is handed over the client is paused, or will be before
\* it reads the "ok".
Pausing ==
    handshake[Newest] = "handover" =>
        paused["client"] \/ PauseFirst(wire[Newest]["client"])

\* What the client and the server have agreed on.
Dialogue == Fresh /\ Asking /\ Answering /\ Silent /\ Pausing

\* Which end is in a reconnection, by where the client's loop is.
Loop ==
    /\ phase # "failed"
    /\ phase = "up" => ~isReconnecting["client"]
    /\ phase \in {"awaitSign", "signing", "awaitOk"} => isReconnecting["client"]
    /\ ~isReconnecting["server"]
    /\ handshake[socket["server"]] = "done"

\* What p is yet to read on socket g, if it does.
Coming(g, p) ==
    IF alive[g] /\ socket[Peer(p)] = g
    THEN wire[g][p] \o writer[Peer(p)] ELSE wire[g][p]

\* Nothing is missing from what p is yet to read, nor, if its peer writes,
\* at the end of it.
StreamTo(p) ==
    /\ \A g \in Sockets : NoGap(Coming(g, p), incomingMsgId[p])
    /\ LET q == Peer(p)
       IN alive[socket[q]] /\ ~isReconnecting[q] =>
              Complete(Coming(socket[q], p), incomingMsgId[p],
                       outgoingMsgId[q])

\* Both directions.
Streams == \A p \in Ends : StreamTo(p)

\* What IInv does not say of sockets.
Orderly == Lines /\ Dialogue /\ Loop /\ Streams

\* The inductive invariant.
SocketInv == IInv /\ Orderly

\* IInv has the types.
LEMMA TypesKnown == IInv => TypeOK
BY DEF IInv, Types, Counters, Kept, Written, InFlight, OkPerEnd, OkWire,
       TypeOK

\* The two ends by name.
LEMMA TwoEnds ==
    /\ "client" \in Ends /\ "server" \in Ends
    /\ Peer("client") = "server" /\ Peer("server") = "client"
    /\ \A p \in Ends : p = "client" \/ p = "server"
BY DEF Ends, Peer

\* Nothing is in flight at first.
LEMMA InitSockets == Init => SocketInv
<1> SUFFICES ASSUME Init PROVE SocketInv
  OBVIOUS
<1>1. IInv
  BY InitStep
<1>2. \A g \in Sockets, p \in Ends : wire[g][p] = <<>>
  BY DEF Init
<1>3. \A p \in Ends : writer[p] = <<>> /\ outgoingUnackMsg[p] = <<>>
  BY DEF Init
<1>4. Lines
  BY <1>2, <1>3, TwoEnds, OnlyEmpty, OneSignOne DEF Lines, Line
<1>5. 1 \in Sockets
  BY ConstantsAssumption DEF Sockets
<1>6. Dialogue
  BY <1>2, <1>5, TwoEnds
     DEF Init, Dialogue, Fresh, Asking, Answering, Silent, Pausing, Newest,
         Sockets
<1>7. Loop
  BY <1>5, TwoEnds DEF Init, Loop
<1>8. Streams
  <2> SUFFICES ASSUME NEW p \in Ends PROVE StreamTo(p)
    BY DEF Streams
  <2>1. /\ Peer(p) \in Ends /\ socket[Peer(p)] = 1
        /\ outgoingMsgId[Peer(p)] = 0 /\ incomingMsgId[p] = 0
    BY PeerFacts DEF Init
  <2>2. <<>> \o <<>> = <<>>
    OBVIOUS
  <2>3. \A g \in Sockets : Coming(g, p) = <<>>
    BY <1>2, <1>3, <2>1, <2>2 DEF Coming
  <2>4. NoGap(<<>>, 0) /\ Complete(<<>>, 0, 0)
    BY DEF NoGap, Complete
  <2> QED
    BY <1>5, <2>1, <2>3, <2>4 DEF StreamTo
<1> QED
  BY <1>1, <1>4, <1>6, <1>7, <1>8 DEF SocketInv, Orderly

-----------------------------------------------------------------------------
(* What happens to a stream                                                *)

\* Nothing: also when the socket it would have been written to is lost.
LEMMA StreamSame ==
    ASSUME SocketInv, NEW p \in Ends,
           \A g \in Sockets : wire'[g][p] = wire[g][p],
           writer'[Peer(p)] = writer[Peer(p)],
           socket'[Peer(p)] = socket[Peer(p)],
           \A g \in Sockets :
              alive'[g] => alive[g] \/ socket[Peer(p)] # g,
           incomingMsgId'[p] = incomingMsgId[p],
           \/ outgoingMsgId'[Peer(p)] = outgoingMsgId[Peer(p)]
           \/ isReconnecting[Peer(p)],
           isReconnecting'[Peer(p)] = isReconnecting[Peer(p)]
    PROVE  StreamTo(p)'
<1> DEFINE in == incomingMsgId[p]
           q == Peer(p)
           s == writer[q]
<1>1. /\ q \in Ends /\ in \in Nat /\ socket[q] \in Sockets
      /\ s \in Seq(Message)
      /\ \A g \in Sockets : wire[g][p] \in Seq(Message)
  BY TypesKnown, PeerFacts DEF SocketInv, TypeOK
<1>2. StreamTo(p)
  BY DEF SocketInv, Orderly, Streams
<1>3. ASSUME NEW g \in Sockets PROVE NoGap(Coming(g, p)', in)
  <2>1. NoGap(Coming(g, p), in)
    BY <1>2 DEF StreamTo
  <2>2. NoGap(wire[g][p], in)
    BY <1>1, <2>1, NoGapConcat DEF Coming
  <2>3. Coming(g, p)' = Coming(g, p) \/ Coming(g, p)' = wire[g][p]
    BY DEF Coming
  <2> QED
    BY <2>1, <2>2, <2>3
<1>4. alive'[socket[q]] => alive[socket[q]] /\
                           Coming(socket[q], p)' = Coming(socket[q], p)
  BY <1>1 DEF Coming
<1> QED
  BY <1>2, <1>3, <1>4 DEF StreamTo

\* Its first message is read: received, known already, or none of the
\* application's.
LEMMA StreamRead ==
    ASSUME SocketInv, NEW p \in Ends, NEW h \in Sockets, wire[h][p] # <<>>,
           wire'[h][p] = Tail(wire[h][p]),
           \A g \in Sockets \ {h} : wire'[g][p] = wire[g][p],
           writer'[Peer(p)] = writer[Peer(p)],
           socket'[Peer(p)] = socket[Peer(p)],
           \A g \in Sockets :
              alive'[g] => alive[g] \/ socket[Peer(p)] # g,
           incomingMsgId'[p] \in Nat, incomingMsgId[p] <= incomingMsgId'[p],
           Head(wire[h][p]).type = "Regular" =>
              Head(wire[h][p]).id <= incomingMsgId'[p],
           outgoingMsgId'[Peer(p)] = outgoingMsgId[Peer(p)],
           isReconnecting'[Peer(p)] = isReconnecting[Peer(p)]
    PROVE  StreamTo(p)'
<1> DEFINE in == incomingMsgId[p]
           in2 == incomingMsgId'[p]
           q == Peer(p)
           s == writer[q]
           out == outgoingMsgId[q]
<1>1. /\ q \in Ends /\ in \in Nat /\ in2 \in Nat /\ socket[q] \in Sockets
      /\ s \in Seq(Message) /\ out \in Nat /\ in <= in2
      /\ \A g \in Sockets : wire[g][p] \in Seq(Message)
  BY TypesKnown, PeerFacts DEF SocketInv, TypeOK
<1>2. StreamTo(p)
  BY DEF SocketInv, Orderly, Streams
<1>3. ASSUME NEW g \in Sockets
      PROVE  /\ NoGap(Coming(g, p)', in2)
             /\ alive'[g] /\ socket[q] = g /\ Complete(Coming(g, p), in, out)
                   => Complete(Coming(g, p)', in2, out)
  <2>1. NoGap(Coming(g, p), in)
    BY <1>2 DEF StreamTo
  <2>2. NoGap(wire[g][p], in)
    BY <1>1, <2>1, NoGapConcat DEF Coming
  <2> DEFINE t == Coming(g, p)
             w == wire[h][p]
  <2>3. w \in Seq(Message) /\ w # <<>>
    BY <1>1
  <2>4. CASE g = h
    <3>1. /\ t # <<>> /\ t \in Seq(Message) /\ Head(t) = Head(w)
          /\ Coming(g, p)' = Tail(t) \/ Coming(g, p)' = Tail(w)
          /\ alive'[g] /\ socket[q] = g => Coming(g, p)' = Tail(t)
      <4>1. CASE alive[g] /\ socket[q] = g
        <5>1. /\ t = w \o s
              /\ Coming(g, p)' = Tail(w) \o s \/ Coming(g, p)' = Tail(w)
              /\ alive'[g] /\ socket[q] = g => Coming(g, p)' = Tail(w) \o s
          BY <2>4, <4>1 DEF Coming
        <5> HIDE DEF t, w, s
        <5> QED
          BY <1>1, <2>3, <5>1, TailConcat, ConcatFacts
      <4>2. CASE ~(alive[g] /\ socket[q] = g)
        <5>1. t = w /\ Coming(g, p)' = Tail(w)
          BY <2>4, <4>2 DEF Coming
        <5> QED
          BY <2>3, <5>1
      <4> QED
        BY <4>1, <4>2
    <3>2. NoGap(w, in)
      BY <2>2, <2>4
    <3> HIDE DEF t
    <3>3. Head(t).type = "Regular" => Head(t).id <= in2
      BY <3>1
    <3> HIDE DEF in, in2, out
    <3>4. NoGap(Tail(t), in2)
      BY <1>1, <2>1, <3>1, <3>3, NoGapTail DEF t
    <3>5. Complete(t, in, out) => Complete(Tail(t), in2, out)
      BY <1>1, <3>1, <3>3, NoGapTail
    <3>6. NoGap(Tail(w), in2)
      BY <1>1, <2>3, <3>1, <3>2, <3>3, NoGapTail
    <3> QED
      BY <3>1, <3>4, <3>5, <3>6 DEF t
  <2>5. CASE g # h
    <3>1. Coming(g, p)' = t \/ Coming(g, p)' = wire[g][p]
      BY <2>5 DEF Coming
    <3>2. alive'[g] /\ socket[q] = g => Coming(g, p)' = t
      BY <2>5 DEF Coming
    <3>3. NoGap(t, in2) /\ NoGap(wire[g][p], in2)
      BY <1>1, <2>1, <2>2, NoGapLater
    <3>4. Complete(t, in, out) => Complete(t, in2, out)
      BY <1>1, NoGapLater
    <3> QED
      BY <3>1, <3>2, <3>3, <3>4
  <2> QED
    BY <2>4, <2>5
<1>4. alive'[socket[q]] => alive[socket[q]]
  BY <1>1
<1> QED
  BY <1>1, <1>2, <1>3, <1>4 DEF StreamTo

\* Its writer is given messages: all that are missing, or none of them.
LEMMA StreamWrite ==
    ASSUME SocketInv, NEW p \in Ends, NEW m \in Seq(Message),
           \A g \in Sockets : wire'[g][p] = wire[g][p],
           writer'[Peer(p)] = writer[Peer(p)] \o m,
           UNCHANGED <<alive, socket>>,
           incomingMsgId'[p] = incomingMsgId[p],
           outgoingMsgId'[Peer(p)] = outgoingMsgId[Peer(p)],
           NoGap(m, incomingMsgId[p]),
           \/ isReconnecting'[Peer(p)] = isReconnecting[Peer(p)]
           \/ Complete(m, incomingMsgId[p], outgoingMsgId[Peer(p)])
    PROVE  StreamTo(p)'
<1> DEFINE in == incomingMsgId[p]
           q == Peer(p)
           s == writer[q]
           out == outgoingMsgId[q]
<1>1. /\ q \in Ends /\ in \in Nat /\ socket[q] \in Sockets
      /\ s \in Seq(Message) /\ out \in Nat
      /\ \A g \in Sockets : wire[g][p] \in Seq(Message)
  BY TypesKnown, PeerFacts DEF SocketInv, TypeOK
<1>2. StreamTo(p)
  BY DEF SocketInv, Orderly, Streams
<1>3. ASSUME NEW g \in Sockets
      PROVE  /\ NoGap(Coming(g, p)', in)
             /\ alive[g] /\ socket[q] = g /\
                (Complete(Coming(g, p), in, out) \/ Complete(m, in, out))
                   => Complete(Coming(g, p)', in, out)
  <2>1. NoGap(Coming(g, p), in)
    BY <1>2 DEF StreamTo
  <2> DEFINE w == wire[g][p]
  <2>2. w \in Seq(Message)
    BY <1>1
  <2>3. CASE alive[g] /\ socket[q] = g
    <3>1. Coming(g, p) = w \o s /\ Coming(g, p)' = w \o (s \o m)
      BY <2>3 DEF Coming
    <3> HIDE DEF w, s
    <3>2. w \o (s \o m) = (w \o s) \o m /\ w \o s \in Seq(Message)
      BY <1>1, <2>2
    <3> DEFINE v == w \o s
    <3>3. v \in Seq(Message) /\ Coming(g, p) = v /\ Coming(g, p)' = v \o m
      BY <3>1, <3>2
    <3> HIDE DEF v, in, out
    <3>4. NoGap(v \o m, in)
      BY <1>1, <2>1, <3>3, NoGapConcat DEF in
    <3>5. Complete(v, in, out) \/ Complete(m, in, out)
             => Complete(v \o m, in, out)
      BY <1>1, <3>3, NoGapConcat
    <3> QED
      BY <3>3, <3>4, <3>5
  <2>4. CASE ~(alive[g] /\ socket[q] = g)
    <3>1. Coming(g, p)' = Coming(g, p)
      BY <2>4 DEF Coming
    <3> QED
      BY <2>1, <2>4, <3>1
  <2> QED
    BY <2>3, <2>4
<1> QED
  BY <1>1, <1>2, <1>3 DEF StreamTo

\* Its writer is given the next message.
LEMMA StreamSend ==
    ASSUME SocketInv, NEW p \in Ends, NEW m \in Message,
           \A g \in Sockets : wire'[g][p] = wire[g][p],
           writer'[Peer(p)] = writer[Peer(p)] \o <<m>>,
           UNCHANGED <<alive, socket, isReconnecting>>,
           incomingMsgId'[p] = incomingMsgId[p],
           outgoingMsgId'[Peer(p)] = outgoingMsgId[Peer(p)] + 1,
           ~isReconnecting[Peer(p)],
           m.type = "Regular", m.id = outgoingMsgId[Peer(p)] + 1
    PROVE  StreamTo(p)'
<1> DEFINE in == incomingMsgId[p]
           q == Peer(p)
           s == writer[q]
           out == outgoingMsgId[q]
<1>1. /\ q \in Ends /\ in \in Nat /\ socket[q] \in Sockets
      /\ s \in Seq(Message) /\ out \in Nat
      /\ \A g \in Sockets : wire[g][p] \in Seq(Message)
  BY TypesKnown, PeerFacts DEF SocketInv, TypeOK
<1>2. StreamTo(p)
  BY DEF SocketInv, Orderly, Streams
<1>3. <<m>> \in Seq(Message)
  OBVIOUS
<1>4. ASSUME NEW g \in Sockets
      PROVE  /\ NoGap(Coming(g, p)', in)
             /\ alive[g] /\ socket[q] = g
                   => Complete(Coming(g, p)', in, out + 1)
  <2>1. NoGap(Coming(g, p), in)
    BY <1>2 DEF StreamTo
  <2> DEFINE w == wire[g][p]
  <2>2. w \in Seq(Message)
    BY <1>1
  <2>3. CASE alive[g] /\ socket[q] = g
    <3> DEFINE v == w \o s
               u == <<m>>
    <3>1. Coming(g, p) = w \o s /\ Coming(g, p)' = w \o (s \o u)
      BY <2>3 DEF Coming
    <3>2. Complete(Coming(g, p), in, out)
      BY <1>2, <2>3 DEF StreamTo
    <3> HIDE DEF w, s, u
    <3>3. w \o (s \o u) = v \o u /\ v \in Seq(Message)
      BY <1>1, <1>3, <2>2 DEF u
    <3> HIDE DEF v, in, out
    <3>4. NoGap(v, in) /\ Complete(v, in, out)
      BY <2>1, <3>1, <3>2 DEF v
    <3>5. NoGap(v \o u, in) /\ Complete(v \o u, in, out + 1)
      BY <1>1, <3>3, <3>4, NoGapSend DEF u, out
    <3> QED
      BY <3>1, <3>3, <3>5
  <2>4. CASE ~(alive[g] /\ socket[q] = g)
    <3>1. Coming(g, p)' = Coming(g, p)
      BY <2>4 DEF Coming
    <3> QED
      BY <2>1, <2>4, <3>1
  <2> QED
    BY <2>3, <2>4
<1> QED
  BY <1>1, <1>2, <1>4 DEF StreamTo

\* Its writer is flushed.
LEMMA StreamFlush ==
    ASSUME SocketInv, NEW p \in Ends, Flush(Peer(p)) PROVE StreamTo(p)'
<1> DEFINE q == Peer(p)
           s == writer[q]
<1>1. /\ q \in Ends /\ Peer(q) = p /\ socket[q] \in Sockets
      /\ s \in Seq(Message)
      /\ \A g \in Sockets : wire[g] \in [Ends -> Seq(Message)]
      /\ wire \in [Sockets -> [Ends -> Seq(Message)]]
      /\ writer \in [Ends -> Seq(Message)]
  BY TypesKnown, PeerFacts DEF SocketInv, TypeOK
<1>2. /\ UNCHANGED <<alive, socket, incomingMsgId, outgoingMsgId,
                     isReconnecting>>
      /\ wire' = WireAfter(wire, socket[q], p, s)
      /\ writer' = [writer EXCEPT ![q] = <<>>]
  BY <1>1 DEF Flush, protoVars
<1>3. ASSUME NEW g \in Sockets PROVE Coming(g, p)' = Coming(g, p)
  <2> DEFINE w == wire[g][p]
  <2>1. CASE alive[g] /\ socket[q] = g
    <3>1. wire'[g][p] = w \o s /\ writer'[q] = <<>>
      BY <1>1, <1>2, <2>1 DEF WireAfter
    <3>2. Coming(g, p)' = (w \o s) \o <<>> /\ Coming(g, p) = w \o s
      BY <1>2, <2>1, <3>1 DEF Coming
    <3>3. w \in Seq(Message)
      BY <1>1
    <3> HIDE DEF w, s
    <3>4. (w \o s) \o <<>> = w \o s
      BY <1>1, <3>3
    <3> QED
      BY <3>2, <3>4
  <2>2. CASE ~alive[g]
    <3>1. wire'[g][p] = w
      BY <1>1, <1>2, <2>2 DEF WireAfter
    <3> QED
      BY <1>2, <2>2, <3>1 DEF Coming
  <2>3. CASE socket[q] # g
    <3>1. wire'[g][p] = w
      BY <1>1, <1>2, <2>3 DEF WireAfter
    <3> QED
      BY <1>2, <2>3, <3>1 DEF Coming
  <2> QED
    BY <2>1, <2>2, <2>3
<1>4. StreamTo(p)
  BY DEF SocketInv, Orderly, Streams
<1> QED
  BY <1>1, <1>2, <1>3, <1>4 DEF StreamTo

-----------------------------------------------------------------------------
(* Sending                                                                 *)

\* What is written besides the application's messages.
LEMMA WrittenPlain ==
    ASSUME SocketInv, IdsFit, NEW p \in Ends,
           NEW t \in PlainTypes \cup ControlTypes,
           NEW a \in 0 .. incomingMsgId[p]
    PROVE  /\ AllToWire(<<Plain(t, a)>>) \in Seq(Message)
           /\ Only(AllToWire(<<Plain(t, a)>>), {t})
<1> DEFINE m == Plain(t, a)
<1>1. m \in Message /\ m.type = t
  BY TypesKnown
     DEF SocketInv, TypeOK, Plain, Message, MsgTypes, PlainTypes, ControlTypes
<1>2. outgoingMsgId[p] \in Nat /\ incomingMsgId[p] \in Nat
  BY TypesKnown DEF SocketInv, TypeOK
<1>3. OkSeq(<<m>>, outgoingMsgId[p], incomingMsgId[p])
  BY <1>2, OkPlain
<1>4. Only(<<m>>, {t})
  BY <1>1, OnlyOne
<1> HIDE DEF m
<1>5. AllToWire(<<m>>) \in Seq(Message) /\ Only(AllToWire(<<m>>), {t})
  BY <1>3, <1>4, SameOnWire DEF SocketInv, IInv
<1> QED
  BY <1>5 DEF m

\* A message of the application is on the wire as it was given to send().
LEMMA WrittenRegular ==
    ASSUME SocketInv, IdsFit, NEW p \in Ends, Send(p),
           ~isReconnecting[p]
    PROVE  \E m \in Message :
              /\ m.type = "Regular" /\ m.id = outgoingMsgId[p] + 1
              /\ writer' = [writer EXCEPT ![p] = @ \o <<m>>]
<1> DEFINE n == outgoingMsgId[p] + 1
           m == Regular(n, incomingMsgId[p])
<1>1. /\ outgoingMsgId[p] \in Nat /\ incomingMsgId[p] \in Nat
      /\ outgoingMsgId[p] < MaxMsgs[p]
  BY TypesKnown DEF SocketInv, TypeOK, Send
<1>2. /\ m \in Message /\ m.type = "Regular" /\ m.id = n
      /\ m.ack = incomingMsgId[p]
  BY <1>1 DEF Regular, Message, MsgTypes
<1>3. writer' = [writer EXCEPT ![p] = @ \o AllToWire(<<m>>)]
  BY DEF Send, AckValue, WriterAfter, WritesNow
<1>4. n < IdSpace /\ incomingMsgId[p] < IdSpace /\ IdSpace \in Nat \ {0, 1}
  <2>1. MaxMsgs[p] \in Nat /\ MaxMsgs[p] < IdSpace /\ IdSpace \in Nat \ {0, 1}
    BY ConstantsAssumption DEF IdsFit, Ends
  <2>2. incomingMsgId[p] < IdSpace
    BY CountersFit DEF SocketInv, IInv
  <2> QED
    BY <1>1, <2>1, <2>2
<1>5. n % IdSpace = n /\ incomingMsgId[p] % IdSpace = incomingMsgId[p]
  BY <1>1, <1>4, ModSmall
<1> HIDE DEF n
<1>6. ToWire(m) = m
  <2> DEFINE a == incomingMsgId[p]
  <2>1. m = [type |-> "Regular", id |-> n, ack |-> a, data |-> n]
    BY DEF Regular
  <2> HIDE DEF m, a
  <2>2. ToWire(m) = [m EXCEPT !.id = m.id % IdSpace, !.ack = m.ack % IdSpace]
    BY DEF ToWire
  <2>3. m.id % IdSpace = n /\ m.ack % IdSpace = a
    BY <1>5, <2>1 DEF a
  <2>4. ToWire(m) = [m EXCEPT !.id = n, !.ack = a]
    BY <2>2, <2>3
  <2> QED
    BY <2>1, <2>4
<1> HIDE DEF m
<1>7. AllToWire(<<m>>) = <<m>>
  BY <1>6 DEF AllToWire
<1> QED
  BY <1>2, <1>3, <1>7 DEF n

\* Streams lose messages, if anything, and writers are given what they may.
LEMMA LinesKept ==
    ASSUME SocketInv, UNCHANGED handshake,
           \A g \in Sockets, p \in Ends : \A T :
              Only(wire[g][p], T) => Only(wire'[g][p], T),
           \A g \in Sockets :
              OneSign(wire[g]["client"]) => OneSign(wire'[g]["client"]),
           \A p \in Ends : Only(outgoingUnackMsg'[p], {"Regular"}),
           Only(writer'["client"], FromClient),
           Only(writer'["server"], FromServer \ ControlTypes)
    PROVE  Lines'
BY TwoEnds DEF SocketInv, Orderly, Lines, Line

\* The dialogue goes on when streams only lose messages.
LEMMA DialogueKept ==
    ASSUME SocketInv, UNCHANGED <<socket, phase, handshake>>,
           isReconnecting'["client"] = isReconnecting["client"],
           \A g \in Sockets, p \in Ends : \A T :
              Only(wire[g][p], T) => Only(wire'[g][p], T),
           \A g \in Sockets :
              wire[g]["server"] = <<>> => wire'[g]["server"] = <<>>,
           /\ phase = "awaitSign"
           /\ Only(writer["client"], FromClient \ {"connectionType"})
           => Only(writer'["client"], FromClient \ {"connectionType"}),
           /\ isReconnecting["client"]
           /\ Only(writer["client"], FromClient \ {"Regular"})
           => Only(writer'["client"], FromClient \ {"Regular"}),
           handshake[Newest] = "handover" /\ paused["client"]
           => paused'["client"],
           handshake[Newest] = "handover" /\ PauseFirst(wire[Newest]["client"])
           => paused'["client"] \/ PauseFirst(wire'[Newest]["client"])
    PROVE  Dialogue'
<1>1. Newest \in Sockets /\ Newest' = Newest
  BY TypesKnown, TwoEnds DEF SocketInv, TypeOK, Newest
<1>2. Dialogue
  BY DEF SocketInv, Orderly
<1>3. Fresh'
  BY <1>1, <1>2 DEF Dialogue, Fresh
<1>4. Asking'
  BY <1>1, <1>2, TwoEnds DEF Dialogue, Asking
<1>5. Answering'
  BY <1>1, <1>2, TwoEnds DEF Dialogue, Answering
<1>6. Silent'
  BY <1>1, <1>2 DEF Dialogue, Silent
<1>7. Pausing'
  BY <1>1, <1>2 DEF Dialogue, Pausing
<1> QED
  BY <1>3, <1>4, <1>5, <1>6, <1>7 DEF Dialogue

\* And where the loop is, when it does not move.
LEMMA LoopKept ==
    ASSUME SocketInv, UNCHANGED <<socket, phase, handshake, isReconnecting>>
    PROVE  Loop'
BY DEF SocketInv, Orderly, Loop

\* Types of what the steps change.
LEMMA SocketTypes ==
    ASSUME SocketInv
    PROVE  /\ writer \in [Ends -> Seq(Message)]
           /\ wire \in [Sockets -> [Ends -> Seq(Message)]]
           /\ \A g \in Sockets, p \in Ends : wire[g][p] \in Seq(Message)
           /\ \A p \in Ends :
                 /\ writer[p] \in Seq(Message)
                 /\ outgoingUnackMsg[p] \in Seq(Message)
                 /\ socket[p] \in Sockets
                 /\ incomingMsgId[p] \in Nat /\ outgoingMsgId[p] \in Nat
                 /\ outgoingAckId[p] \in Nat
           /\ incomingMsgId \in [Ends -> Nat]
           /\ socket \in [Ends -> Sockets]
           /\ paused \in [Ends -> BOOLEAN]
           /\ isReconnecting \in [Ends -> BOOLEAN]
           /\ alive \in [Sockets -> BOOLEAN]
           /\ Newest \in Sockets
<1>1. /\ TypeOK /\ "client" \in Ends
  BY TypesKnown, TwoEnds DEF SocketInv
<1>2. /\ writer \in [Ends -> Seq(Message)]
      /\ wire \in [Sockets -> [Ends -> Seq(Message)]]
      /\ outgoingUnackMsg \in [Ends -> Seq(Message)]
      /\ incomingMsgId \in [Ends -> Nat]
      /\ outgoingMsgId \in [Ends -> Nat]
      /\ outgoingAckId \in [Ends -> Nat]
      /\ socket \in [Ends -> Sockets]
      /\ paused \in [Ends -> BOOLEAN]
      /\ isReconnecting \in [Ends -> BOOLEAN]
      /\ alive \in [Sockets -> BOOLEAN]
  BY <1>1 DEF TypeOK
<1>3. \A g \in Sockets, p \in Ends : wire[g][p] \in Seq(Message)
  BY <1>2
<1>4. Newest \in Sockets
  BY <1>1, <1>2 DEF Newest
<1>5. \A p \in Ends : /\ writer[p] \in Seq(Message)
                      /\ outgoingUnackMsg[p] \in Seq(Message)
                      /\ socket[p] \in Sockets
                      /\ incomingMsgId[p] \in Nat /\ outgoingMsgId[p] \in Nat
                      /\ outgoingAckId[p] \in Nat
  BY <1>2
<1> QED
  BY <1>2, <1>3, <1>4, <1>5

\* send()
LEMMA SendOrderly ==
    ASSUME IdsFit, SocketInv, NEW p \in Ends, Send(p)
    PROVE  Orderly'
<1>1. /\ UNCHANGED <<isReconnecting, incomingMsgId, paused, socket, wire,
                     alive, phase, controlBuffer, handshake>>
      /\ outgoingMsgId' = [outgoingMsgId EXCEPT ![p] = @ + 1]
      /\ \E m \in Message :
            /\ m.type = "Regular"
            /\ outgoingUnackMsg' = [outgoingUnackMsg EXCEPT ![p] = Append(@, m)]
      /\ isReconnecting[p] => writer' = writer
  <2>1. Regular(outgoingMsgId[p] + 1, incomingMsgId[p]) \in Message
    BY SocketTypes DEF Regular, Message, MsgTypes
  <2>2. Regular(outgoingMsgId[p] + 1, incomingMsgId[p]).type = "Regular"
    BY DEF Regular
  <2>3. /\ UNCHANGED <<isReconnecting, incomingMsgId, paused, socket, wire,
                       alive, phase, controlBuffer, handshake>>
        /\ outgoingMsgId' = [outgoingMsgId EXCEPT ![p] = @ + 1]
        /\ outgoingUnackMsg' =
              [outgoingUnackMsg EXCEPT ![p] =
                  Append(@, Regular(outgoingMsgId[p] + 1, incomingMsgId[p]))]
        /\ isReconnecting[p] => writer' = writer
    BY DEF Send, AckValue, WritesNow, loopVars
  <2> QED
    BY <2>1, <2>2, <2>3
<1>2. \/ isReconnecting[p] /\ writer' = writer
      \/ /\ ~isReconnecting[p]
         /\ \E m \in Message :
               /\ m.type = "Regular" /\ m.id = outgoingMsgId[p] + 1
               /\ writer' = [writer EXCEPT ![p] = @ \o <<m>>]
  BY <1>1, WrittenRegular
<1>3. \A q \in Ends : Only(outgoingUnackMsg'[q], {"Regular"})
  <2>1. PICK m \in Message :
            /\ m.type = "Regular"
            /\ outgoingUnackMsg' = [outgoingUnackMsg EXCEPT ![p] = Append(@, m)]
    BY <1>1
  <2> DEFINE s == outgoingUnackMsg[p]
  <2>2. s \in Seq(Message) /\ Only(s, {"Regular"})
    BY SocketTypes DEF SocketInv, Orderly, Lines
  <2>3. Append(s, m) = s \o <<m>> /\ <<m>> \in Seq(Message)
    BY <2>2
  <2> HIDE DEF s
  <2>4. Only(Append(s, m), {"Regular"})
    BY <2>1, <2>2, <2>3, OnlyOne, OnlyConcat
  <2>5. outgoingUnackMsg \in [Ends -> Seq(Message)]
    BY TypesKnown DEF SocketInv, TypeOK
  <2> QED
    BY <2>1, <2>4, <2>5 DEF s, SocketInv, Orderly, Lines
<1>4. /\ Only(writer'["client"], FromClient)
      /\ Only(writer'["server"], FromServer \ ControlTypes)
  <2>1. CASE writer' = writer
    BY <2>1 DEF SocketInv, Orderly, Lines
  <2>2. CASE \E m \in Message :
                /\ m.type = "Regular" /\ m.id = outgoingMsgId[p] + 1
                /\ writer' = [writer EXCEPT ![p] = @ \o <<m>>]
    <3>1. PICK m \in Message :
              m.type = "Regular" /\ writer' = [writer EXCEPT ![p] = @ \o <<m>>]
      BY <2>2
    <3>2. /\ <<m>> \in Seq(Message)
          /\ Only(<<m>>, FromClient)
          /\ Only(<<m>>, FromServer \ ControlTypes)
      BY <3>1, OnlyOne DEF FromClient, FromServer, MsgTypes, ControlTypes
    <3> DEFINE u == <<m>>
    <3>3. \A q \in Ends : writer'[q] = writer[q] \/
                          writer'[q] = writer[q] \o u
      BY <3>1, SocketTypes
    <3> HIDE DEF u
    <3>4. /\ Only(writer["client"], FromClient)
          /\ Only(writer["server"], FromServer \ ControlTypes)
      BY DEF SocketInv, Orderly, Lines
    <3>5. Only(writer["client"] \o u, FromClient)
      BY <3>2, <3>4, TwoEnds, SocketTypes, OnlyConcat DEF u
    <3>6. Only(writer["server"] \o u, FromServer \ ControlTypes)
      BY <3>2, <3>4, TwoEnds, SocketTypes, OnlyConcat DEF u
    <3> QED
      BY <3>3, <3>4, <3>5, <3>6, TwoEnds
  <2> QED
    BY <1>2, <2>1, <2>2
<1>5. Lines'
  BY <1>1, <1>3, <1>4, LinesKept
<1>6. isReconnecting["client"] => writer'["client"] = writer["client"]
  BY <1>2, TwoEnds, SocketTypes
<1>7. Dialogue'
  <2>1. phase = "awaitSign" => isReconnecting["client"]
    BY DEF SocketInv, Orderly, Loop
  <2> QED
    BY <1>1, <1>6, <2>1, DialogueKept
<1>8. Loop'
  BY <1>1, LoopKept
<1>9. ASSUME NEW r \in Ends PROVE StreamTo(r)'
  <2>1. CASE p = Peer(r) /\ ~isReconnecting[p]
    <3>1. PICK m \in Message :
              /\ m.type = "Regular" /\ m.id = outgoingMsgId[p] + 1
              /\ writer' = [writer EXCEPT ![p] = @ \o <<m>>]
      BY <1>2, <2>1
    <3>2. /\ writer'[p] = writer[p] \o <<m>>
          /\ outgoingMsgId'[p] = outgoingMsgId[p] + 1
      BY <1>1, <3>1, SocketTypes, TypesKnown DEF SocketInv, TypeOK
    <3> QED
      BY <1>1, <2>1, <3>1, <3>2, StreamSend
  <2>2. CASE p = Peer(r) /\ isReconnecting[p]
    BY <1>1, <1>2, <2>2, StreamSame
  <2>3. CASE p # Peer(r)
    <3>1. Peer(r) # p /\ Peer(r) \in Ends
      BY <2>3, PeerFacts
    <3>2. /\ writer'[Peer(r)] = writer[Peer(r)]
          /\ outgoingMsgId'[Peer(r)] = outgoingMsgId[Peer(r)]
      BY <1>1, <1>2, <3>1, SocketTypes, TypesKnown DEF SocketInv, TypeOK
    <3> QED
      BY <1>1, <3>2, StreamSame
  <2> QED
    BY <2>1, <2>2, <2>3
<1> QED
  BY <1>5, <1>7, <1>8, <1>9 DEF Orderly, Streams

\* A writer is given something that is not the application's.
LEMMA WriteOrderly ==
    ASSUME IdsFit, SocketInv, NEW p \in Ends,
           NEW t \in {"Ack", "KeepAlive", "connectionType"},
           t = "connectionType" => p = "client",
           NEW a \in 0 .. incomingMsgId[p],
           writer' = WriterAfter(p, <<Plain(t, a)>>),
           UNCHANGED <<wire, alive, socket, handshake, isReconnecting,
                       paused, incomingMsgId, outgoingMsgId,
                       outgoingUnackMsg>>
    PROVE  /\ Lines' /\ Streams'
           /\ t # "connectionType" /\ phase' = phase => Dialogue'
           /\ phase = "signing" /\ phase' = "awaitOk" => Dialogue'
<1> DEFINE m == AllToWire(<<Plain(t, a)>>)
<1>1. m \in Seq(Message) /\ Only(m, {t})
  BY WrittenPlain DEF PlainTypes, ControlTypes
<1>2. /\ writer'[p] = writer[p] \o m
      /\ \A q \in Ends \ {p} : writer'[q] = writer[q]
  BY SocketTypes DEF WriterAfter
<1> HIDE DEF m
<1>3. ASSUME NEW T, NEW q \in Ends, Only(writer[q], T), q = p => t \in T
      PROVE  Only(writer'[q], T)
  <2>1. CASE q = p
    <3>1. Only(m, T)
      BY <1>1, <1>3, <2>1, OnlyMore
    <3>2. writer[p] \in Seq(Message) /\ Only(writer[p], T)
      BY <1>3, <2>1, SocketTypes
    <3>3. Only(writer[p] \o m, T)
      BY <1>1, <3>1, <3>2, OnlyConcat
    <3> QED
      BY <1>2, <2>1, <3>3
  <2>2. CASE q # p
    BY <1>2, <1>3, <2>2
  <2> QED
    BY <2>1, <2>2
<1>4. /\ t \in FromClient /\ t \in FromClient \ {"Regular"}
      /\ p = "server" => t \in FromServer \ ControlTypes
  BY TwoEnds DEF FromClient, FromServer, MsgTypes, PlainTypes, ControlTypes
<1>5. Lines'
  <2>1. Only(writer'["client"], FromClient)
    BY <1>3, <1>4, TwoEnds DEF SocketInv, Orderly, Lines
  <2>2. Only(writer'["server"], FromServer \ ControlTypes)
    BY <1>3, <1>4, TwoEnds DEF SocketInv, Orderly, Lines
  <2>3. \A q \in Ends : Only(outgoingUnackMsg'[q], {"Regular"})
    BY DEF SocketInv, Orderly, Lines
  <2> QED
    BY <2>1, <2>2, <2>3, LinesKept
<1>6. ASSUME NEW r \in Ends PROVE StreamTo(r)'
  <2>1. CASE p = Peer(r)
    <3>1. NoGap(m, incomingMsgId[r])
      BY <1>1, NoGapOther
    <3> QED
      BY <1>1, <1>2, <2>1, <3>1, StreamWrite
  <2>2. CASE p # Peer(r)
    <3>1. writer'[Peer(r)] = writer[Peer(r)]
      BY <1>2, <2>2, PeerFacts
    <3> QED
      BY <3>1, StreamSame
  <2> QED
    BY <2>1, <2>2
<1>7. Only(writer["client"], FromClient \ {"Regular"})
         => Only(writer'["client"], FromClient \ {"Regular"})
  BY <1>3, <1>4, TwoEnds
<1>8. ASSUME t # "connectionType", phase' = phase PROVE Dialogue'
  <2>1. t \in FromClient \ {"connectionType"}
    BY <1>4, <1>8
  <2>2. Only(writer["client"], FromClient \ {"connectionType"})
           => Only(writer'["client"], FromClient \ {"connectionType"})
    BY <1>3, <2>1, TwoEnds
  <2> QED
    BY <1>7, <1>8, <2>2, DialogueKept
<1>9. ASSUME phase = "signing", phase' = "awaitOk" PROVE Dialogue'
  <2>1. Dialogue /\ Newest' = Newest
    BY DEF SocketInv, Orderly, Newest
  <2>2. Fresh' /\ Pausing'
    BY <2>1 DEF Dialogue, Fresh, Pausing
  <2>3. Asking' /\ Answering'
    BY <1>9, <2>1 DEF Dialogue, Asking, Answering
  <2>4. Silent'
    BY <1>7, <2>1 DEF Dialogue, Silent
  <2> QED
    BY <2>2, <2>3, <2>4 DEF Dialogue
<1> QED
  BY <1>5, <1>6, <1>8, <1>9 DEF Streams

\* The timers that acknowledge.
LEMMA AcknowledgeOrderly ==
    ASSUME IdsFit, SocketInv, NEW p \in Ends, AckTimer(p) \/ KeepAlive(p)
    PROVE  Orderly'
<1>1. /\ UNCHANGED <<wire, alive, socket, handshake, isReconnecting,
                     paused, incomingMsgId, outgoingMsgId, phase,
                     outgoingUnackMsg>>
      /\ \/ writer' = writer
         \/ writer' = WriterAfter(p, <<Plain("Ack", incomingMsgId[p])>>)
         \/ writer' = WriterAfter(p, <<Plain("KeepAlive", incomingMsgId[p])>>)
  BY DEF AckTimer, KeepAlive, AckValue, loopVars
<1>2. incomingMsgId[p] \in 0 .. incomingMsgId[p]
  BY SocketTypes
<1>3. Loop'
  BY <1>1, LoopKept
<1>4. CASE writer' = writer
  <2>1. Lines'
    BY <1>1, <1>4 DEF SocketInv, Orderly, Lines, Line
  <2>2. Dialogue'
    BY <1>1, <1>4, DialogueKept
  <2>3. Streams'
    BY <1>1, <1>4, StreamSame DEF Streams
  <2> QED
    BY <1>3, <2>1, <2>2, <2>3 DEF Orderly
<1>5. CASE writer' = WriterAfter(p, <<Plain("Ack", incomingMsgId[p])>>)
  BY <1>1, <1>2, <1>3, <1>5, WriteOrderly DEF Orderly
<1>6. CASE writer' = WriterAfter(p, <<Plain("KeepAlive", incomingMsgId[p])>>)
  BY <1>1, <1>2, <1>3, <1>6, WriteOrderly DEF Orderly
<1> QED
  BY <1>1, <1>4, <1>5, <1>6

\* The second message of the handshake.
LEMMA SendConnectionTypeOrderly ==
    ASSUME IdsFit, SocketInv, SendConnectionType PROVE Orderly'
<1>1. /\ UNCHANGED <<wire, alive, socket, handshake, isReconnecting,
                     paused, incomingMsgId, outgoingMsgId,
                     outgoingUnackMsg>>
      /\ writer' = WriterAfter("client", <<Plain("connectionType", 0)>>)
      /\ phase = "signing" /\ phase' = "awaitOk"
  BY DEF SendConnectionType, protoVars
<1>2. 0 \in 0 .. incomingMsgId["client"] /\ "client" \in Ends
  BY SocketTypes, TwoEnds
<1>3. Loop'
  BY <1>1 DEF SocketInv, Orderly, Loop
<1>4. Lines' /\ Streams' /\ Dialogue'
  BY <1>1, <1>2, WriteOrderly
<1> QED
  BY <1>3, <1>4 DEF Orderly

\* Timers, and sockets that break or are seen to have broken.
LEMMA QuietOrderly ==
    ASSUME SocketInv, UNCHANGED <<writer, socket, handshake, isReconnecting,
                                  paused, incomingMsgId, outgoingMsgId,
                                  outgoingUnackMsg>>,
           \A g \in Sockets, p \in Ends :
              wire'[g][p] = wire[g][p] \/ (wire'[g][p] = <<>> /\ ~alive[g]),
           \A g \in Sockets : alive'[g] => alive[g],
           phase' = phase \/ phase' = "lost"
    PROVE  Orderly'
<1>1. /\ \A g \in Sockets, p \in Ends : \A T :
             Only(wire[g][p], T) => Only(wire'[g][p], T)
      /\ \A g \in Sockets : OneSign(wire[g]["client"])
                               => OneSign(wire'[g]["client"])
      /\ \A g \in Sockets : PauseFirst(wire[g]["client"])
                               => PauseFirst(wire'[g]["client"])
      /\ \A g \in Sockets : wire[g]["server"] = <<>>
                               => wire'[g]["server"] = <<>>
  <2>1. PauseFirst(<<>>)
    BY DEF PauseFirst
  <2> QED
    BY <2>1, OnlyEmpty, OneSignOne, TwoEnds
<1>2. Lines'
  BY <1>1, LinesKept DEF SocketInv, Orderly, Lines
<1>3. Dialogue'
  <2>1. CASE phase' = phase
    <3>1. Newest \in Sockets
      BY SocketTypes
    <3> QED
      BY <1>1, <2>1, <3>1, DialogueKept
  <2>2. CASE phase' = "lost"
    <3>1. Dialogue /\ Newest' = Newest /\ Newest \in Sockets
      BY SocketTypes DEF SocketInv, Orderly, Newest
    <3> QED
      BY <1>1, <2>2, <3>1
         DEF Dialogue, Fresh, Asking, Answering, Silent, Pausing
  <2> QED
    BY <2>1, <2>2
<1>4. Loop'
  BY DEF SocketInv, Orderly, Loop
<1>5. ASSUME NEW r \in Ends PROVE StreamTo(r)'
  <2> DEFINE in == incomingMsgId[r]
             q == Peer(r)
  <2>1. StreamTo(r) /\ q \in Ends /\ socket[q] \in Sockets
    BY PeerFacts, SocketTypes DEF SocketInv, Orderly, Streams
  <2>2. ASSUME NEW g \in Sockets
        PROVE  /\ NoGap(Coming(g, r)', in)
               /\ alive'[g] => Coming(g, r)' = Coming(g, r)
    <3>1. NoGap(Coming(g, r), in)
      BY <2>1 DEF StreamTo
    <3>2. NoGap(wire[g][r], in)
      BY <2>1, <3>1, NoGapConcat, SocketTypes DEF Coming
    <3>3. NoGap(<<>>, in)
      BY DEF NoGap
    <3>4. CASE alive'[g]
      BY <3>1, <3>4 DEF Coming
    <3>5. CASE ~alive'[g]
      <4>1. Coming(g, r)' = wire[g][r] \/ Coming(g, r)' = <<>>
        BY <3>5 DEF Coming
      <4> QED
        BY <3>2, <3>3, <3>5, <4>1
    <3> QED
      BY <3>4, <3>5
  <2> QED
    BY <2>1, <2>2 DEF StreamTo
<1> QED
  BY <1>2, <1>3, <1>4, <1>5 DEF Orderly, Streams

\* Which steps are quiet in that sense.
LEMMA TimersAndLossesOrderly ==
    ASSUME SocketInv
    PROVE  /\ HandshakeTimeout => Orderly'
           /\ \A p \in Ends : AckCheckTimer(p) \/ SocketClosed(p) => Orderly'
           /\ \A g \in Sockets : Break(g) => Orderly'
<1>1. ASSUME HandshakeTimeout PROVE Orderly'
  BY <1>1, QuietOrderly DEF HandshakeTimeout, protoVars, socketVars
<1>2. ASSUME NEW p \in Ends, AckCheckTimer(p) PROVE Orderly'
  <2>1. phase' = phase \/ phase' = "lost"
    BY <1>2 DEF AckCheckTimer
  <2> QED
    BY <1>2, <2>1, QuietOrderly DEF AckCheckTimer, socketVars
<1>3. ASSUME NEW p \in Ends, SocketClosed(p) PROVE Orderly'
  <2>1. /\ phase' = phase \/ phase' = "lost"
        /\ UNCHANGED <<writer, paused, socket, alive, handshake>>
        /\ UNCHANGED protoVars
        /\ wire' = [wire EXCEPT ![socket[p]][p] = <<>>]
        /\ ~alive[socket[p]]
    BY <1>3 DEF SocketClosed
  <2>2. \A g \in Sockets, q \in Ends :
           wire'[g][q] = wire[g][q] \/ (wire'[g][q] = <<>> /\ ~alive[g])
    BY <2>1, SocketTypes
  <2> QED
    BY <2>1, <2>2, QuietOrderly DEF protoVars
<1>4. ASSUME NEW g \in Sockets, Break(g) PROVE Orderly'
  <2>1. /\ UNCHANGED <<writer, paused, socket, wire>>
        /\ UNCHANGED protoVars /\ UNCHANGED loopVars
        /\ alive' = [alive EXCEPT ![g] = FALSE]
    BY <1>4 DEF Break
  <2>2. \A h \in Sockets : alive'[h] => alive[h]
    BY <2>1, SocketTypes
  <2> QED
    BY <2>1, <2>2, QuietOrderly DEF protoVars, loopVars
<1> QED
  BY <1>1, <1>2, <1>3, <1>4

-----------------------------------------------------------------------------
(* Reading                                                                 *)

\* Reading a message changes one stream, and keeps what is known of it.
LEMMA ReadFacts ==
    ASSUME SocketInv, NEW h \in Sockets, NEW p \in Ends, wire[h][p] # <<>>,
           wire' = [wire EXCEPT ![h][p] = Tail(@)]
    PROVE  /\ wire'[h][p] = Tail(wire[h][p])
           /\ \A g \in Sockets \ {h} : wire'[g][p] = wire[g][p]
           /\ \A g \in Sockets, q \in Ends \ {p} : wire'[g][q] = wire[g][q]
           /\ \A g \in Sockets, q \in Ends : \A T :
                 Only(wire[g][q], T) => Only(wire'[g][q], T)
           /\ \A g \in Sockets :
                 OneSign(wire[g]["client"]) => OneSign(wire'[g]["client"])
           /\ \A g \in Sockets :
                 wire[g]["server"] = <<>> => wire'[g]["server"] = <<>>
           /\ Head(wire[h][p]) \in Message
           /\ Head(wire[h][p]).type = "Regular" =>
                 Head(wire[h][p]).id <= incomingMsgId[p] + 1
           /\ \A T : Only(wire[h][p], T) => Head(wire[h][p]).type \in T
<1> DEFINE s == wire[h][p]
<1>1. s \in Seq(Message) /\ s # <<>> /\ incomingMsgId[p] \in Nat
  BY SocketTypes
<1>2. /\ wire'[h][p] = Tail(s)
      /\ \A g \in Sockets \ {h} : wire'[g][p] = wire[g][p]
      /\ \A g \in Sockets, q \in Ends \ {p} : wire'[g][q] = wire[g][q]
  BY SocketTypes
<1> HIDE DEF s
<1>3. /\ \A T : Only(s, T) => Only(Tail(s), T) /\ Head(s).type \in T
      /\ OneSign(s) => OneSign(Tail(s))
      /\ Head(s) \in Message
  <2>1. \A T : Only(s, T) => Only(Tail(s), T) /\ Head(s).type \in T
    BY <1>1, OnlyTail
  <2>2. Only(s, MsgTypes)
    <3>1. \A i \in 1 .. Len(s) : s[i] \in Message
      BY <1>1
    <3> QED
      BY <3>1 DEF Only, Message
  <2>3. OneSign(s) => OneSign(Tail(s))
    BY <1>1, <2>2, OneSignTail
  <2> QED
    BY <1>1, <2>1, <2>3, TailFacts
<1>4. \A g \in Sockets, q \in Ends :
         \/ g = h /\ q = p
         \/ wire'[g][q] = wire[g][q]
  BY <1>2
<1>5. Head(s).type = "Regular" => Head(s).id <= incomingMsgId[p] + 1
  <2>1. NoGap(Coming(h, p), incomingMsgId[p])
    BY DEF SocketInv, Orderly, Streams, StreamTo
  <2>2. NoGap(s, incomingMsgId[p])
    BY <1>1, <2>1, NoGapConcat, SocketTypes, PeerFacts DEF Coming, s
  <2> QED
    BY <1>1, <2>2, NoGapFirst
<1>6. \A g \in Sockets, q \in Ends : \A T :
         Only(wire[g][q], T) => Only(wire'[g][q], T)
  BY <1>2, <1>3, <1>4 DEF s
<1>7. \A g \in Sockets :
         OneSign(wire[g]["client"]) => OneSign(wire'[g]["client"])
  BY <1>2, <1>3, <1>4, TwoEnds DEF s
<1>8. \A g \in Sockets : wire[g]["server"] = <<>> => wire'[g]["server"] = <<>>
  BY <1>1, <1>4, TwoEnds DEF s
<1> QED
  BY <1>1, <1>2, <1>3, <1>5, <1>6, <1>7, <1>8 DEF s

\* What is kept is always the application's.
LEMMA KeptRegular ==
    ASSUME SocketInv, NEW p \in Ends, NEW m \in Message,
           Ok(m, outgoingMsgId[Peer(p)], incomingMsgId[Peer(p)]),
           ProcessAck(p, m)
    PROVE  \A q \in Ends : Only(outgoingUnackMsg'[q], {"Regular"})
<1>1. \A q \in Ends : Only(outgoingUnackMsg[q], {"Regular"})
  BY DEF SocketInv, Orderly, Lines
<1>2. CASE ~(m.ack > outgoingAckId[p])
  BY <1>1, <1>2 DEF ProcessAck
<1>3. CASE m.ack > outgoingAckId[p]
  <2> DEFINE q == outgoingUnackMsg[p]
             k == m.ack - outgoingAckId[p]
             t == SubSeq(q, k + 1, Len(q))
  <2>1. /\ outgoingMsgId[p] \in Nat /\ outgoingAckId[p] \in Nat
        /\ incomingMsgId[Peer(p)] \in Nat
        /\ incomingMsgId[Peer(p)] <= outgoingMsgId[p]
    BY PeerFacts DEF SocketInv, IInv, Counters
  <2>2. m.ack \in Nat /\ m.ack <= incomingMsgId[Peer(p)]
    BY DEF Ok, Message
  <2>3. /\ q \in Seq(Message)
        /\ Consecutive(q, outgoingAckId[p], outgoingMsgId[p])
    BY DEF SocketInv, IInv, Kept, OkPerEnd
  <2>4. Confirmed(q, m.ack) = k
    BY <1>3, <2>1, <2>2, <2>3, ConfirmedCount
  <2>5. outgoingUnackMsg' = [outgoingUnackMsg EXCEPT ![p] = t]
    BY <1>3, <2>4 DEF ProcessAck
  <2>6. k \in 1 .. Len(q)
    BY <1>3, <2>1, <2>2, <2>3 DEF Consecutive
  <2> HIDE DEF k
  <2>7. Only(t, {"Regular"})
    <3>1. \A i \in 1 .. Len(q) : q[i].type \in {"Regular"}
      BY <1>1 DEF Only
    <3> HIDE DEF q
    <3>2. /\ k + 1 \in Int /\ Len(q) \in Int
          /\ \A i \in (k + 1) .. Len(q) : q[i] \in Message
      BY <2>3, <2>6
    <3>3. /\ Len(t) = IF k + 1 <= Len(q) THEN Len(q) - (k + 1) + 1 ELSE 0
          /\ \A i \in 1 .. Len(q) - (k + 1) + 1 : t[i] = q[(k + 1) + i - 1]
      BY <3>2, SubSeqProperties
    <3> HIDE DEF t
    <3>4. \A i \in 1 .. Len(t) :
             t[i] = q[i + k] /\ i + k \in 1 .. Len(q)
      BY <2>3, <2>6, <3>3
    <3> QED
      BY <3>1, <3>4 DEF Only
  <2> HIDE DEF t
  <2>8. outgoingUnackMsg \in [Ends -> Seq(Message)]
    BY TypesKnown DEF SocketInv, TypeOK
  <2> QED
    BY <1>1, <2>5, <2>7, <2>8
<1> QED
  BY <1>2, <1>3

\* The handshake of another process is followed by nothing but its own
\* messages.
LEMMA NewestLine ==
    ASSUME SocketInv
    PROVE  /\ Only(wire[Newest]["client"], Answered(handshake[Newest]))
           /\ OneSign(wire[Newest]["client"])
           /\ Only(wire[Newest]["server"], Asked(handshake[Newest]))
BY SocketTypes DEF SocketInv, Orderly, Lines, Line

\* A message of the application is read.
LEMMA ReceiveRegularOrderly ==
    ASSUME SocketInv, NEW p \in Ends, ReceiveRegular(p) PROVE Orderly'
<1> DEFINE h == socket[p]
           m == Incoming(p)
<1>1. /\ wire[h][p] # <<>> /\ wire' = [wire EXCEPT ![h][p] = Tail(@)]
      /\ h \in Sockets /\ m = Head(wire[h][p]) /\ m.type = "Regular"
      /\ UNCHANGED <<isReconnecting, outgoingMsgId, paused, socket, alive,
                     phase, controlBuffer, handshake>>
      /\ ProcessAck(p, m)
  BY SocketTypes DEF ReceiveRegular, Reading, Consume, Incoming, loopVars
<1>2. m \in Message /\ m.id \in Nat /\ m.id <= incomingMsgId[p] + 1
  <2>1. m \in Message /\ m.id <= incomingMsgId[p] + 1
    BY <1>1, ReadFacts
  <2> QED
    BY <2>1 DEF Message
<1>3. /\ writer' = writer
      /\ incomingMsgId' \in [Ends -> Nat]
      /\ m.id <= incomingMsgId'[p] /\ incomingMsgId[p] <= incomingMsgId'[p]
      /\ \A q \in Ends \ {p} : incomingMsgId'[q] = incomingMsgId[q]
  <2>1. incomingMsgId \in [Ends -> Nat] /\ incomingMsgId[p] \in Nat
    BY SocketTypes
  <2>2. CASE IsNext(p, m)
    <3>1. /\ incomingMsgId' = [incomingMsgId EXCEPT ![p] = m.id]
          /\ m.id = incomingMsgId[p] + 1 /\ writer' = writer
      BY <2>2 DEF ReceiveRegular, IsNext
    <3> QED
      BY <1>2, <2>1, <3>1
  <2>3. CASE ~IsNext(p, m)
    <3>1. ~(m.id > incomingMsgId[p])
      BY <1>2, <2>1, <2>3 DEF IsNext
    <3>2. incomingMsgId' = incomingMsgId /\ writer' = writer
      BY <2>3, <3>1 DEF ReceiveRegular
    <3> QED
      BY <1>2, <2>1, <3>1, <3>2
  <2> QED
    BY <2>2, <2>3
<1>4. \A q \in Ends : Only(outgoingUnackMsg'[q], {"Regular"})
  <2>1. Ok(m, outgoingMsgId[Peer(p)], incomingMsgId[Peer(p)])
    BY ConsumeOk DEF ReceiveRegular, SocketInv, IInv
  <2> QED
    BY <1>1, <1>2, <2>1, KeptRegular
<1> HIDE DEF m, h
<1>5. Lines'
  BY <1>1, <1>3, <1>4, ReadFacts, LinesKept DEF SocketInv, Orderly, Lines
<1>6. Dialogue'
  <2>1. CASE p = "server"
    <3>1. wire'[Newest]["client"] = wire[Newest]["client"]
      BY <1>1, <2>1, TwoEnds, ReadFacts, SocketTypes
    <3> QED
      BY <1>1, <1>3, <3>1, ReadFacts, DialogueKept
  <2>2. CASE p = "client"
    <3>1. handshake[Newest] # "handover"
      BY <1>1, <2>2, ReadFacts, NewestLine DEF h, Newest, Answered
    <3> QED
      BY <1>1, <1>3, <2>2, <3>1, ReadFacts, DialogueKept
  <2> QED
    BY <2>1, <2>2, TwoEnds
<1>7. Loop'
  BY <1>1, LoopKept
<1>8. ASSUME NEW r \in Ends PROVE StreamTo(r)'
  <2>1. Peer(r) \in Ends
    BY PeerFacts
  <2>2. CASE r = p
    BY <1>1, <1>2, <1>3, <2>1, <2>2, ReadFacts, StreamRead
  <2>3. CASE r # p
    BY <1>1, <1>3, <2>1, <2>3, ReadFacts, StreamSame
  <2> QED
    BY <2>2, <2>3
<1> QED
  BY <1>5, <1>6, <1>7, <1>8 DEF Orderly, Streams

\* An ack, a keep-alive, a pause or a resume is read.
LEMMA ReceivePlainOrderly ==
    ASSUME SocketInv, NEW p \in Ends, ReceivePlain(p) PROVE Orderly'
<1> DEFINE h == socket[p]
           m == Incoming(p)
<1>1. /\ wire[h][p] # <<>> /\ wire' = [wire EXCEPT ![h][p] = Tail(@)]
      /\ h \in Sockets /\ m = Head(wire[h][p]) /\ m.type \in PlainTypes
      /\ UNCHANGED <<isReconnecting, outgoingMsgId, incomingMsgId, socket,
                     alive, phase, controlBuffer, handshake>>
      /\ ProcessAck(p, m)
      /\ paused' = [paused EXCEPT ![p] =
                       m.type = "Pause" \/ (@ /\ m.type # "Resume")]
      /\ m.type # "ReplayRequest" => writer' = writer
  BY SocketTypes DEF ReceivePlain, Reading, Consume, Incoming, loopVars
<1>2. m \in Message /\ m.type # "Regular"
  BY <1>1, ReadFacts DEF PlainTypes
<1>3. m.type # "ReplayRequest"
  <2>1. Only(wire[h]["client"], FromServer)
    <3>1. Answered(handshake[h]) \subseteq FromServer
      BY DEF Answered, FromServer, MsgTypes, PlainTypes, ControlTypes
    <3>2. Only(wire[h]["client"], Answered(handshake[h]))
      BY <1>1 DEF SocketInv, Orderly, Lines, Line
    <3> QED
      BY <3>1, <3>2, OnlyMore
  <2>2. Only(wire[h]["server"], FromClient)
    <3>1. Asked(handshake[h]) \subseteq FromClient
      BY DEF Asked
    <3>2. Only(wire[h]["server"], Asked(handshake[h]))
      BY <1>1 DEF SocketInv, Orderly, Lines, Line
    <3> QED
      BY <3>1, <3>2, OnlyMore
  <2>3. m.type \in FromServer \/ m.type \in FromClient
    BY <1>1, <2>1, <2>2, ReadFacts, TwoEnds
  <2> QED
    BY <2>3 DEF FromServer, FromClient
<1>4. \A q \in Ends : Only(outgoingUnackMsg'[q], {"Regular"})
  <2>1. Ok(m, outgoingMsgId[Peer(p)], incomingMsgId[Peer(p)])
    BY ConsumeOk DEF ReceivePlain, SocketInv, IInv
  <2> QED
    BY <1>1, <1>2, <2>1, KeptRegular
<1> HIDE DEF m, h
<1>5. Lines'
  BY <1>1, <1>3, <1>4, ReadFacts, LinesKept DEF SocketInv, Orderly, Lines
<1>6. Dialogue'
  <2>1. CASE p = "server"
    <3>1. paused'["client"] = paused["client"]
      BY <1>1, <2>1, SocketTypes, TwoEnds
    <3>2. wire'[Newest]["client"] = wire[Newest]["client"]
      BY <1>1, <2>1, TwoEnds, ReadFacts, SocketTypes
    <3>3. UNCHANGED <<writer, socket, phase, handshake, isReconnecting>>
      BY <1>1, <1>3
    <3> QED
      BY <1>1, <3>1, <3>2, <3>3, ReadFacts, DialogueKept
  <2>2. CASE p = "client"
    <3>1. h = Newest /\ h \in Sockets
      BY <1>1, <2>2 DEF h, Newest
    <3>2. ASSUME handshake[Newest] = "handover"
          PROVE  m.type \in {"sign", "Pause", "ok"}
      <4>1. m.type \in Answered("handover")
        BY <1>1, <2>2, <3>1, <3>2, ReadFacts, NewestLine
      <4> QED
        BY <4>1 DEF Answered
    <3>3. ASSUME handshake[Newest] = "handover", paused["client"]
          PROVE  paused'["client"]
      BY <1>1, <2>2, <3>2, <3>3, SocketTypes
    <3>4. ASSUME handshake[Newest] = "handover",
                 PauseFirst(wire[Newest]["client"])
          PROVE  paused'["client"] \/ PauseFirst(wire'[Newest]["client"])
      <4>1. CASE m.type = "Pause"
        BY <1>1, <2>2, <4>1, SocketTypes
      <4>2. CASE m.type # "Pause"
        <5>1. wire[h]["client"] \in Seq(Message)
          BY <1>1, <2>2, SocketTypes
        <5>2. PauseFirst(Tail(wire[h]["client"]))
          BY <1>1, <2>2, <3>1, <3>4, <4>2, <5>1, PauseFirstTail
        <5> QED
          BY <1>1, <2>2, <3>1, <5>2, ReadFacts
      <4> QED
        BY <4>1, <4>2
    <3> QED
      BY <1>1, <1>3, <2>2, <3>3, <3>4, ReadFacts, DialogueKept
  <2> QED
    BY <2>1, <2>2, TwoEnds
<1>7. Loop'
  BY <1>1, LoopKept
<1>8. ASSUME NEW r \in Ends PROVE StreamTo(r)'
  <2>1. Peer(r) \in Ends /\ incomingMsgId[r] \in Nat
    BY PeerFacts, SocketTypes
  <2>2. CASE r = p
    <3>1. UNCHANGED <<writer, socket, alive, isReconnecting, outgoingMsgId,
                      incomingMsgId>>
      BY <1>1, <1>3
    <3>2. /\ wire[h][r] # <<>> /\ wire'[h][r] = Tail(wire[h][r])
          /\ \A g \in Sockets \ {h} : wire'[g][r] = wire[g][r]
          /\ Head(wire[h][r]).type # "Regular"
      BY <1>1, <1>2, <2>2, ReadFacts
    <3> QED
      BY <1>1, <2>1, <3>1, <3>2, StreamRead
  <2>3. CASE r # p
    BY <1>1, <1>3, <2>1, <2>3, ReadFacts, StreamSame
  <2> QED
    BY <2>2, <2>3
<1> QED
  BY <1>5, <1>6, <1>7, <1>8 DEF Orderly, Streams

-----------------------------------------------------------------------------
(* Answers of the handshake                                                *)

\* What endAcceptReconnection writes is all that the other end may miss.
LEMMA ResyncMissing ==
    ASSUME SocketInv, NEW p \in Ends
    PROVE  /\ Resync(p) \in Seq(Message)
           /\ Only(Resync(p), {"Ack", "Regular"})
           /\ NoGap(Resync(p), incomingMsgId[Peer(p)])
           /\ Complete(Resync(p), incomingMsgId[Peer(p)], outgoingMsgId[p])
<1> DEFINE a == <<Plain("Ack", incomingMsgId[p])>>
           k == outgoingUnackMsg[p]
           in == incomingMsgId[Peer(p)]
           out == outgoingMsgId[p]
<1>1. /\ incomingMsgId[p] \in Nat /\ in \in Nat /\ out \in Nat
      /\ outgoingAckId[p] \in Nat /\ k \in Seq(Message)
  BY SocketTypes, PeerFacts
<1>2. a \in Seq(Message) /\ Only(a, {"Ack"})
  <2>1. /\ Plain("Ack", incomingMsgId[p]) \in Message
        /\ Plain("Ack", incomingMsgId[p]).type \in {"Ack"}
    BY <1>1 DEF Plain, Message, MsgTypes, PlainTypes
  <2> QED
    BY <2>1, OnlyOne
<1>3. Only(k, {"Regular"})
  BY DEF SocketInv, Orderly, Lines
<1>4. NoGap(k, in) /\ Complete(k, in, out)
  <2>1. /\ outgoingAckId[p] <= in
        /\ Consecutive(k, outgoingAckId[p], out)
    BY DEF SocketInv, IInv, Counters, Kept
  <2> HIDE DEF k, in, out
  <2> QED
    BY <1>1, <1>3, <2>1, KeptNoGap
<1>5. Resync(p) = a \o k
  BY DEF Resync, AckValue
<1> HIDE DEF a, k
<1>6. NoGap(a, in)
  BY <1>2, NoGapOther
<1>7. /\ NoGap(a \o k, in) /\ Complete(a \o k, in, out)
      /\ a \o k \in Seq(Message)
  BY <1>1, <1>2, <1>4, <1>6, NoGapConcat
<1>8. Only(a \o k, {"Ack", "Regular"})
  <2>1. Only(a, {"Ack", "Regular"}) /\ Only(k, {"Ack", "Regular"})
    BY <1>2, <1>3, OnlyMore
  <2> QED
    BY <1>1, <1>2, <2>1, OnlyConcat
<1> QED
  BY <1>5, <1>7, <1>8

\* And still is on the wire, whatever follows it.
LEMMA ResyncFacts ==
    ASSUME IdsFit, SocketInv, NEW p \in Ends, NEW f,
           OkSeq(f, outgoingMsgId[p], incomingMsgId[p]), Only(f, {"Resume"}),
           NEW w, w = AllToWire(Resync(p) \o f)
    PROVE  /\ w \in Seq(Message)
           /\ Only(w, {"Ack", "Regular", "Resume"})
           /\ NoGap(w, incomingMsgId[Peer(p)])
           /\ Complete(w, incomingMsgId[Peer(p)], outgoingMsgId[p])
<1> DEFINE r == Resync(p)
           in == incomingMsgId[Peer(p)]
           out == outgoingMsgId[p]
           T == {"Ack", "Regular", "Resume"}
           s == r \o f
<1>1. r \in Seq(Message) /\ f \in Seq(Message) /\ in \in Nat /\ out \in Nat
  BY ResyncMissing, SocketTypes, PeerFacts DEF OkSeq
<1>2. Only(r, {"Ack", "Regular"}) /\ NoGap(r, in) /\ Complete(r, in, out)
  BY ResyncMissing
<1>3. OkSeq(r, out, incomingMsgId[p]) /\ Counters
  BY ResyncOk DEF SocketInv, IInv
<1>4. incomingMsgId[p] \in Nat
  BY SocketTypes
<1> HIDE DEF r, in
<1>5. OkSeq(s, out, incomingMsgId[p])
  BY <1>1, <1>3, <1>4, OkConcat
<1>6. NoGap(f, in)
  BY <1>1, NoGapOther
<1>7. NoGap(s, in)
  BY <1>1, <1>2, <1>6, NoGapConcat
<1>8. Complete(s, in, out)
  BY <1>1, <1>2, NoGapConcat
<1>9. Only(s, T)
  <2>1. Only(r, T) /\ Only(f, T)
    BY <1>2, OnlyMore
  <2> HIDE DEF T
  <2> QED
    BY <1>1, <2>1, OnlyConcat
<1>10. w = AllToWire(s)
  BY DEF r
<1> HIDE DEF s, T
<1>11. /\ AllToWire(s) \in Seq(Message)
       /\ Only(AllToWire(s), T)
       /\ NoGap(AllToWire(s), in)
       /\ Complete(AllToWire(s), in, out)
  BY <1>3, <1>5, <1>7, <1>8, <1>9, SameOnWire
<1> QED
  BY <1>10, <1>11 DEF in, T

\* The listener of the first step gets the signature it waits for.
LEMMA ReadSignOrderly ==
    ASSUME SocketInv, ReceiveControl, phase = "awaitSign" PROVE Orderly'
<1> DEFINE h == Newest
           m == Incoming("client")
           s == wire[h]["client"]
<1>1. /\ s # <<>> /\ wire' = [wire EXCEPT ![h]["client"] = Tail(@)]
      /\ h \in Sockets /\ m = Head(s) /\ m.type \in ControlTypes
      /\ phase' = AwaitSign(<<m.type>>)
      /\ UNCHANGED <<writer, controlBuffer, paused, socket, alive, handshake,
                     isReconnecting, outgoingMsgId, incomingMsgId,
                     outgoingUnackMsg>>
  BY SocketTypes
     DEF ReceiveControl, Reading, Consume, Incoming, protoVars, Newest
<1>2. /\ s \in Seq(Message) /\ OneSign(s) /\ Only(s, Answered(handshake[h]))
  BY <1>1, NewestLine, SocketTypes, TwoEnds
<1>3. Dialogue /\ Loop /\ "client" \in Ends /\ isReconnecting["client"]
  BY TwoEnds DEF SocketInv, Orderly, Loop
<1> HIDE DEF s, m, h
<1>4. m.type = "sign" /\ handshake[h] = "waitType"
  <2>1. handshake[h] \in {"waitAuth", "waitType"}
    BY <1>3 DEF Dialogue, Asking, h
  <2>2. m.type \in Answered(handshake[h])
    BY <1>1, <1>2, OnlyTail
  <2> QED
    BY <2>1, <2>2 DEF Answered
<1>5. phase' = "signing"
  BY <1>1, <1>4 DEF AwaitSign
<1>6. wire'[h]["client"] = Tail(s)
  BY <1>1, <1>3, SocketTypes DEF s
<1>7. Only(Tail(s), FromServer \ {"sign"})
  <2>1. Only(s, FromServer)
    BY <1>2, <1>4, OnlyMore
       DEF Answered, FromServer, MsgTypes, ControlTypes
  <2> QED
    BY <1>1, <1>2, <1>4, <2>1, OneSignTail
<1>8. Lines'
  BY <1>1, <1>3, ReadFacts, LinesKept DEF SocketInv, Orderly, Lines, s
<1>9. Dialogue'
  <2>1. Newest' = h /\ Newest = h
    BY <1>1 DEF Newest, h
  <2>2. \A g \in Sockets : wire[g]["server"] = <<>> => wire'[g]["server"] = <<>>
    BY <1>1, <1>3, ReadFacts DEF s
  <2>3. Fresh'
    BY <1>1, <1>3, <2>1, <2>2 DEF Dialogue, Fresh
  <2>4. Asking' /\ Answering' /\ Pausing'
    BY <1>1, <1>4, <1>5, <1>6, <1>7, <2>1 DEF Asking, Answering, Pausing
  <2>5. Silent'
    BY <1>1, <1>3, <2>1 DEF Dialogue, Silent
  <2> QED
    BY <2>3, <2>4, <2>5 DEF Dialogue
<1>10. Loop'
  BY <1>1, <1>3, <1>5 DEF Loop
<1>11. ASSUME NEW r \in Ends PROVE StreamTo(r)'
  <2>1. Peer(r) \in Ends /\ incomingMsgId[r] \in Nat
    BY PeerFacts, SocketTypes
  <2>2. CASE r = "client"
    <3>1. /\ wire[h][r] # <<>> /\ wire'[h][r] = Tail(wire[h][r])
          /\ \A g \in Sockets \ {h} : wire'[g][r] = wire[g][r]
          /\ Head(wire[h][r]).type # "Regular"
      BY <1>1, <1>3, <1>4, <2>2, ReadFacts DEF s
    <3> QED
      BY <1>1, <2>1, <3>1, StreamRead
  <2>3. CASE r # "client"
    BY <1>1, <1>3, <2>1, <2>3, ReadFacts, StreamSame DEF s
  <2> QED
    BY <2>2, <2>3
<1> QED
  BY <1>8, <1>9, <1>10, <1>11 DEF Orderly, Streams

\* The listener of the second step gets its answer: the client is connected,
\* and if the socket is being handed over it has been told not to write.
LEMMA ReadOkOrderly ==
    ASSUME IdsFit, SocketInv, ReceiveControl, phase = "awaitOk"
    PROVE  Orderly'
<1> DEFINE h == Newest
           m == Incoming("client")
           s == wire[h]["client"]
           w == AllToWire(Resync("client"))
<1>1. /\ s # <<>> /\ wire' = [wire EXCEPT ![h]["client"] = Tail(@)]
      /\ h \in Sockets /\ m = Head(s) /\ m.type \in ControlTypes
      /\ phase' = "up"
      /\ writer' = [writer EXCEPT !["client"] = @ \o w]
      /\ isReconnecting' = [isReconnecting EXCEPT !["client"] = FALSE]
      /\ UNCHANGED <<controlBuffer, paused, socket, alive, handshake,
                     outgoingMsgId, incomingMsgId, outgoingUnackMsg>>
  BY SocketTypes
     DEF ReceiveControl, Reading, Consume, Incoming, Newest, WriterAfter,
         EndAcceptReconnection
<1>2. /\ s \in Seq(Message) /\ Only(s, Answered(handshake[h]))
  BY <1>1, NewestLine, SocketTypes, TwoEnds
<1>3. Dialogue /\ Loop /\ "client" \in Ends /\ "server" \in Ends
  BY TwoEnds DEF SocketInv, Orderly, Loop
<1>4. /\ w \in Seq(Message) /\ Only(w, {"Ack", "Regular", "Resume"})
      /\ NoGap(w, incomingMsgId["server"])
      /\ Complete(w, incomingMsgId["server"], outgoingMsgId["client"])
  <2>1. Resync("client") \in Seq(Message)
    BY <1>3, ResyncMissing
  <2>2. Resync("client") \o <<>> = Resync("client")
    BY <2>1
  <2>3. OkSeq(<<>>, outgoingMsgId["client"], incomingMsgId["client"])
    BY <1>3, OkEmpty, SocketTypes
  <2>4. w = AllToWire(Resync("client") \o <<>>)
    BY <2>2
  <2> HIDE DEF w
  <2> QED
    BY <1>3, <2>3, <2>4, ResyncFacts, OnlyEmpty, TwoEnds
<1> HIDE DEF s, m, h, w
<1>5. m.type = "ok" /\ handshake[h] \in {"handover", "done"}
  <2>1. handshake[h] # "waitAuth" /\ Only(s, FromServer \ {"sign"})
    BY <1>3 DEF Dialogue, Answering, h, s
  <2>2. /\ m.type \in Answered(handshake[h])
        /\ m.type \in FromServer \ {"sign"}
    BY <1>1, <1>2, <2>1, OnlyTail
  <2>3. handshake[h] \in {"none", "waitAuth", "waitType", "handover", "done"}
    BY <1>1 DEF SocketInv, IInv, Types
  <2> QED
    BY <1>1, <2>1, <2>2, <2>3 DEF Answered, FromServer, ControlTypes
<1>6. handshake[h] = "handover" => paused["client"]
  <2>1. handshake[h] = "handover" => paused["client"] \/ PauseFirst(s)
    BY <1>3 DEF Dialogue, Pausing, h, s
  <2> QED
    BY <1>1, <1>2, <1>5, <2>1, PauseFirstTail
<1>7. /\ writer'["client"] = writer["client"] \o w
      /\ writer'["server"] = writer["server"]
      /\ ~isReconnecting'["client"]
      /\ isReconnecting'["server"] = isReconnecting["server"]
  BY <1>1, <1>3, SocketTypes
<1>8. Lines'
  <2>1. Only(writer["client"], FromClient) /\ Only(w, FromClient)
    <3>1. {"Ack", "Regular", "Resume"} \subseteq FromClient
      BY DEF FromClient, MsgTypes, PlainTypes
    <3> QED
      BY <1>4, <3>1, OnlyMore DEF SocketInv, Orderly, Lines
  <2>2. Only(writer'["client"], FromClient)
    BY <1>3, <1>4, <1>7, <2>1, SocketTypes, OnlyConcat
  <2>3. /\ Only(writer'["server"], FromServer \ ControlTypes)
        /\ \A p \in Ends : Only(outgoingUnackMsg'[p], {"Regular"})
    BY <1>1, <1>7 DEF SocketInv, Orderly, Lines
  <2> QED
    BY <1>1, <1>3, <2>2, <2>3, ReadFacts, LinesKept DEF s
<1>9. Dialogue'
  <2>1. Newest' = h /\ Newest = h
    BY <1>1 DEF Newest, h
  <2>2. \A g \in Sockets : wire[g]["server"] = <<>> => wire'[g]["server"] = <<>>
    BY <1>1, <1>3, ReadFacts DEF s
  <2>3. Fresh'
    BY <1>1, <1>3, <2>1, <2>2 DEF Dialogue, Fresh
  <2>4. Asking' /\ Answering'
    BY <1>1 DEF Asking, Answering
  <2>5. Silent' /\ Pausing'
    BY <1>1, <1>5, <1>6, <2>1 DEF Silent, Pausing
  <2> QED
    BY <2>3, <2>4, <2>5 DEF Dialogue
<1>10. Loop'
  BY <1>1, <1>3, <1>7 DEF Loop
<1>11. StreamTo("client")'
  <2>1. Peer("client") = "server" /\ incomingMsgId["client"] \in Nat
    BY <1>3, TwoEnds, SocketTypes
  <2>2. /\ wire[h]["client"] # <<>>
        /\ wire'[h]["client"] = Tail(wire[h]["client"])
        /\ \A g \in Sockets \ {h} : wire'[g]["client"] = wire[g]["client"]
        /\ Head(wire[h]["client"]).type # "Regular"
    BY <1>1, <1>3, <1>5, ReadFacts DEF s
  <2>3. UNCHANGED <<socket, alive, incomingMsgId, outgoingMsgId>>
    BY <1>1
  <2>4. /\ incomingMsgId'["client"] \in Nat
        /\ incomingMsgId["client"] <= incomingMsgId'["client"]
    BY <2>1, <2>3
  <2>5. /\ h \in Sockets
        /\ \A g \in Sockets : alive'[g] => alive[g]
    BY <1>1, <2>3
  <2> QED
    BY <1>3, <1>7, <2>1, <2>2, <2>3, <2>4, <2>5, StreamRead
<1>12. StreamTo("server")'
  <2>1. Peer("server") = "client"
    BY TwoEnds
  <2>2. \A g \in Sockets : wire'[g]["server"] = wire[g]["server"]
    BY <1>1, <1>3, ReadFacts DEF s
  <2>3. UNCHANGED <<socket, alive, incomingMsgId, outgoingMsgId>>
    BY <1>1
  <2> QED
    BY <1>3, <1>4, <1>7, <2>1, <2>2, <2>3, StreamWrite
<1> QED
  BY <1>8, <1>9, <1>10, <1>11, <1>12, TwoEnds DEF Orderly, Streams

\* Nobody listens: the message waits.
LEMMA BufferControlOrderly ==
    ASSUME SocketInv, ReceiveControl, phase \notin {"awaitSign", "awaitOk"}
    PROVE  Orderly'
<1> DEFINE h == Newest
           m == Incoming("client")
           s == wire[h]["client"]
<1>1. /\ s # <<>> /\ wire' = [wire EXCEPT ![h]["client"] = Tail(@)]
      /\ h \in Sockets /\ m = Head(s) /\ m.type \in ControlTypes
      /\ UNCHANGED <<phase, writer, paused, socket, alive, handshake,
                     isReconnecting, outgoingMsgId, incomingMsgId,
                     outgoingUnackMsg>>
  BY SocketTypes
     DEF ReceiveControl, Reading, Consume, Incoming, protoVars, Newest
<1>2. s \in Seq(Message) /\ "client" \in Ends
  BY <1>1, SocketTypes, TwoEnds
<1>3. m.type \notin {"Pause", "Regular"}
  BY <1>1 DEF ControlTypes
<1> HIDE DEF s, m, h
<1>4. Lines'
  BY <1>1, <1>2, ReadFacts, LinesKept DEF SocketInv, Orderly, Lines, s
<1>5. Dialogue'
  <2>1. Newest = h /\ wire'[h]["client"] = Tail(s)
    BY <1>1, <1>2, SocketTypes DEF Newest, h, s
  <2>2. PauseFirst(s) => PauseFirst(Tail(s))
    BY <1>1, <1>2, <1>3, PauseFirstTail
  <2>3. PauseFirst(wire[Newest]["client"])
           => PauseFirst(wire'[Newest]["client"])
    BY <2>1, <2>2 DEF s
  <2> QED
    BY <1>1, <1>2, <2>3, ReadFacts, DialogueKept DEF s
<1>6. Loop'
  BY <1>1, LoopKept
<1>7. ASSUME NEW r \in Ends PROVE StreamTo(r)'
  <2>1. Peer(r) \in Ends /\ incomingMsgId[r] \in Nat
    BY PeerFacts, SocketTypes
  <2>2. CASE r = "client"
    <3>1. /\ wire[h][r] # <<>> /\ wire'[h][r] = Tail(wire[h][r])
          /\ \A g \in Sockets \ {h} : wire'[g][r] = wire[g][r]
          /\ Head(wire[h][r]).type # "Regular"
      BY <1>1, <1>2, <1>3, <2>2, ReadFacts DEF s
    <3> QED
      BY <1>1, <2>1, <3>1, StreamRead
  <2>3. CASE r # "client"
    BY <1>1, <1>2, <2>1, <2>3, ReadFacts, StreamSame DEF s
  <2> QED
    BY <2>2, <2>3
<1> QED
  BY <1>4, <1>5, <1>6, <1>7 DEF Orderly, Streams

-----------------------------------------------------------------------------
(* Flushing                                                                *)

\* All the networks there can be.
Wires == [Sockets -> [Ends -> Seq(Message)]]

\* Writing changes one stream, if its socket still carries anything.
LEMMA WireWritten ==
    ASSUME NEW w \in Wires, NEW g \in Sockets, NEW q \in Ends,
           NEW s \in Seq(Message)
    PROVE  /\ WireAfter(w, g, q, s) \in Wires
           /\ \A h \in Sockets, r \in Ends :
                 h # g \/ r # q => WireAfter(w, g, q, s)[h][r] = w[h][r]
           /\ alive[g] => WireAfter(w, g, q, s)[g][q] = w[g][q] \o s
           /\ ~alive[g] => WireAfter(w, g, q, s) = w
<1>1. w[g][q] \o s \in Seq(Message)
  BY ConcatFacts DEF Wires
<1>2. CASE alive[g]
  <2>1. WireAfter(w, g, q, s) = [w EXCEPT ![g][q] = w[g][q] \o s]
    BY <1>2 DEF WireAfter
  <2> QED
    BY <1>1, <1>2, <2>1 DEF Wires
<1>3. CASE ~alive[g]
  BY <1>3 DEF WireAfter
<1> QED
  BY <1>2, <1>3

\* What p writes when its writer is flushed.
Drained(p) == IF paused[p] THEN <<>> ELSE writer[p]

\* It is what the handshake of the socket lets through.
LEMMA DrainedFacts ==
    ASSUME SocketInv
    PROVE  /\ \A p \in Ends : Drained(p) \in Seq(Message)
           /\ Only(Drained("client"), Asked(handshake[Newest]))
           /\ Only(Drained("server"), FromServer \ ControlTypes)
           /\ handshake[socket["server"]] = "done"
<1>1. \A p \in Ends : Drained(p) \in Seq(Message)
  BY SocketTypes DEF Drained
<1>2. /\ Only(writer["client"], FromClient)
      /\ Only(writer["server"], FromServer \ ControlTypes)
      /\ handshake[socket["server"]] = "done"
      /\ Silent
  BY DEF SocketInv, Orderly, Lines, Loop, Dialogue
<1>3. Only(Drained("server"), FromServer \ ControlTypes)
  BY <1>2, OnlyEmpty DEF Drained
<1>4. Only(Drained("client"), Asked(handshake[Newest]))
  BY <1>2, OnlyEmpty DEF Drained, Silent, Asked
<1> QED
  BY <1>1, <1>2, <1>3, <1>4

\* What may travel on socket g, when its handshake is at h.
LineOf(w, g, h) ==
    /\ Only(w[g]["client"], Answered(h))
    /\ Only(w[g]["server"], Asked(h))
    /\ OneSign(w[g]["client"])

\* Flushing to a socket leaves on it what may be there.
LEMMA DrainedLines ==
    ASSUME NEW w \in Wires, NEW hs, \A g \in Sockets : LineOf(w, g, hs[g]),
           NEW p \in Ends, NEW h \in Sockets, NEW s \in Seq(Message),
           p = "client" => Only(s, Asked(hs[h])),
           p = "server" => Only(s, FromServer \ ControlTypes) /\ hs[h] = "done",
           NEW v, v = WireAfter(w, h, Peer(p), s)
    PROVE  v \in Wires /\ \A g \in Sockets : LineOf(v, g, hs[g])
<1>1. /\ Peer(p) \in Ends
      /\ \A g \in Sockets, r \in Ends :
            \/ g = h /\ r = Peer(p)
            \/ v[g][r] = w[g][r]
      /\ \/ v[h][Peer(p)] = w[h][Peer(p)] \o s
         \/ v[h][Peer(p)] = w[h][Peer(p)]
  <2>1. Peer(p) \in Ends
    BY PeerFacts
  <2> DEFINE u == WireAfter(w, h, Peer(p), s)
  <2>2. /\ \A g \in Sockets, r \in Ends :
              g # h \/ r # Peer(p) => u[g][r] = w[g][r]
        /\ alive[h] => u[h][Peer(p)] = w[h][Peer(p)] \o s
        /\ ~alive[h] => u = w
    BY <2>1, WireWritten
  <2>3. v = u
    OBVIOUS
  <2> HIDE DEF u
  <2> QED
    BY <2>1, <2>2, <2>3
<1>2. ASSUME NEW g \in Sockets, g # h PROVE LineOf(v, g, hs[g])
  BY <1>1, <1>2, TwoEnds DEF LineOf
<1>3. LineOf(v, h, hs[h])
  <2> DEFINE x == w[h]["client"]
             y == w[h]["server"]
  <2>1. x \in Seq(Message) /\ y \in Seq(Message)
    BY TwoEnds DEF Wires
  <2>2. Only(x, Answered(hs[h])) /\ Only(y, Asked(hs[h])) /\ OneSign(x)
    BY DEF LineOf
  <2> HIDE DEF x, y
  <2>3. CASE p = "client"
    <3>1. Only(y \o s, Asked(hs[h]))
      BY <2>1, <2>2, <2>3, OnlyConcat
    <3>2. /\ v[h]["client"] = x
          /\ v[h]["server"] = y \/ v[h]["server"] = y \o s
      BY <1>1, <2>3, TwoEnds DEF x, y
    <3> QED
      BY <2>2, <3>1, <3>2 DEF LineOf
  <2>4. CASE p = "server"
    <3>1. /\ Only(s, FromServer) /\ Answered(hs[h]) = FromServer
          /\ "sign" \notin FromServer \ ControlTypes
      BY <2>4, OnlyMore DEF Answered, ControlTypes
    <3>2. Only(x \o s, Answered(hs[h]))
      BY <2>1, <2>2, <3>1, OnlyConcat
    <3>3. OneSign(x \o s)
      BY <2>1, <2>2, <2>4, <3>1, OneSignConcat
    <3>4. /\ v[h]["server"] = y
          /\ v[h]["client"] = x \/ v[h]["client"] = x \o s
      BY <1>1, <2>4, TwoEnds DEF x, y
    <3> QED
      BY <2>2, <3>2, <3>3, <3>4 DEF LineOf
  <2> QED
    BY <2>3, <2>4, TwoEnds
<1>4. v \in Wires
  BY WireWritten, PeerFacts
<1> QED
  BY <1>2, <1>3, <1>4

\* Flushing moves what was buffered into flight.
LEMMA FlushOrderly ==
    ASSUME SocketInv, NEW p \in Ends, Flush(p) PROVE Orderly'
<1> DEFINE h == socket[p]
           s == writer[p]
<1>1. /\ ~paused[p] /\ wire' = WireAfter(wire, h, Peer(p), s)
      /\ writer' = [writer EXCEPT ![p] = <<>>]
      /\ UNCHANGED <<paused, socket, alive, isReconnecting, outgoingUnackMsg,
                     outgoingMsgId, incomingMsgId, phase, handshake>>
  BY DEF Flush, protoVars, loopVars
<1>2. /\ h \in Sockets /\ s \in Seq(Message) /\ Peer(p) \in Ends
      /\ s = Drained(p)
  BY <1>1, SocketTypes, PeerFacts DEF Drained
<1> HIDE DEF h, s
<1>3. /\ \A g \in Sockets, r \in Ends :
            \/ g = h /\ r = Peer(p)
            \/ wire'[g][r] = wire[g][r]
      /\ \/ wire'[h][Peer(p)] = wire[h][Peer(p)] \o s
         \/ wire'[h][Peer(p)] = wire[h][Peer(p)]
  <2>1. /\ wire \in Wires /\ Peer(p) \in Ends
        /\ h \in Sockets /\ s \in Seq(Message)
    BY <1>2, SocketTypes DEF Wires
  <2> DEFINE u == WireAfter(wire, h, Peer(p), s)
  <2>2. /\ \A g \in Sockets, r \in Ends :
              g # h \/ r # Peer(p) => u[g][r] = wire[g][r]
        /\ alive[h] => u[h][Peer(p)] = wire[h][Peer(p)] \o s
        /\ ~alive[h] => u = wire
    BY <2>1, WireWritten
  <2>3. wire' = u
    BY <1>1
  <2> HIDE DEF u
  <2> QED
    BY <2>2, <2>3
<1>4. writer'[p] = <<>> /\ \A r \in Ends \ {p} : writer'[r] = writer[r]
  BY <1>1, SocketTypes
<1>5. \A g \in Sockets : LineOf(wire', g, handshake[g])
  <2>1. \A g \in Sockets : LineOf(wire, g, handshake[g])
    BY DEF SocketInv, Orderly, Lines, Line, LineOf
  <2>2. /\ p = "client" => Only(s, Asked(handshake[h]))
        /\ p = "server" => /\ Only(s, FromServer \ ControlTypes)
                           /\ handshake[h] = "done"
    BY <1>2, DrainedFacts DEF h, Newest
  <2>3. wire \in Wires
    BY SocketTypes DEF Wires
  <2> QED
    BY <1>1, <1>2, <2>1, <2>2, <2>3, DrainedLines
<1>6. \A r \in Ends : \A T : Only(writer[r], T) => Only(writer'[r], T)
  BY <1>4, OnlyEmpty
<1>7. Lines'
  <2>1. /\ Only(writer'["client"], FromClient)
        /\ Only(writer'["server"], FromServer \ ControlTypes)
    BY <1>6, TwoEnds DEF SocketInv, Orderly, Lines
  <2>2. \A g \in Sockets : Line(g)'
    BY <1>1, <1>5 DEF LineOf, Line
  <2> QED
    BY <1>1, <2>1, <2>2 DEF SocketInv, Orderly, Lines
<1>8. Dialogue'
  <2>1. /\ Dialogue /\ Loop /\ Newest' = Newest /\ Newest \in Sockets
        /\ Newest = socket["client"]
    BY <1>1, SocketTypes DEF SocketInv, Orderly, Newest
  <2>2. CASE p = "client"
    <3>1. h = Newest /\ Peer(p) = "server"
      BY <2>1, <2>2, TwoEnds DEF h
    <3>9. ASSUME NEW g \in Sockets, g > Newest PROVE g # Newest
      BY <2>1, <3>9 DEF Sockets
    <3>2. /\ \A g \in Sockets : g > Newest =>
                wire'[g]["server"] = wire[g]["server"]
          /\ \A g \in Sockets : wire'[g]["client"] = wire[g]["client"]
      BY <1>3, <2>1, <3>1, <3>9, TwoEnds
    <3>3. Fresh'
      BY <1>1, <2>1, <3>2 DEF Dialogue, Fresh
    <3>4. ASSUME phase = "awaitSign"
          PROVE  Only(wire'[Newest]["server"], FromClient \ {"connectionType"})
      <4> DEFINE x == wire[Newest]["server"]
                 T == FromClient \ {"connectionType"}
      <4>1. x \in Seq(Message) /\ Only(x, T) /\ Only(s, T)
        BY <2>1, <2>2, <3>4, SocketTypes, TwoEnds DEF Dialogue, Asking, s
      <4> HIDE DEF x, T
      <4>2. Only(x \o s, T)
        BY <1>2, <4>1, OnlyConcat
      <4> QED
        BY <1>3, <3>1, <4>1, <4>2 DEF x, T
    <3>5. Asking'
      BY <1>1, <1>6, <2>1, <3>4, TwoEnds DEF Dialogue, Asking
    <3>6. Answering' /\ Pausing'
      BY <1>1, <2>1, <3>2 DEF Dialogue, Answering, Pausing
    <3>7. Silent'
      BY <1>1, <1>6, <2>1, TwoEnds DEF Dialogue, Silent
    <3> QED
      BY <3>3, <3>5, <3>6, <3>7 DEF Dialogue
  <2>3. CASE p = "server"
    <3>1. /\ Peer(p) = "client" /\ handshake[h] = "done"
          /\ Only(s, FromServer \ ControlTypes)
      BY <1>2, <2>3, DrainedFacts, TwoEnds DEF h
    <3>2. /\ \A g \in Sockets : wire'[g]["server"] = wire[g]["server"]
          /\ writer'["client"] = writer["client"]
      BY <1>3, <1>4, <2>3, <3>1, TwoEnds
    <3>3. Fresh' /\ Asking' /\ Silent'
      BY <1>1, <2>1, <3>2 DEF Dialogue, Fresh, Asking, Silent
    <3>4. ASSUME handshake[Newest] = "handover"
          PROVE  wire'[Newest]["client"] = wire[Newest]["client"]
      BY <1>3, <2>1, <3>1, <3>4, TwoEnds
    <3>5. Pausing'
      BY <1>1, <2>1, <3>4 DEF Dialogue, Pausing
    <3>6. ASSUME phase \in {"signing", "awaitOk"}
          PROVE  Only(wire'[Newest]["client"], FromServer \ {"sign"})
      <4> DEFINE x == wire[Newest]["client"]
                 T == FromServer \ {"sign"}
      <4>1. x \in Seq(Message) /\ Only(x, T)
        BY <2>1, <3>6, SocketTypes, TwoEnds DEF Dialogue, Answering
      <4>2. Only(s, T)
        <5>1. FromServer \ ControlTypes \subseteq T
          BY DEF ControlTypes
        <5> QED
          BY <3>1, <5>1, OnlyMore
      <4> HIDE DEF x, T
      <4>3. Only(x \o s, T)
        BY <1>2, <4>1, <4>2, OnlyConcat
      <4> QED
        BY <1>3, <2>1, <3>1, <4>1, <4>3, TwoEnds DEF x, T
    <3>7. Answering'
      BY <1>1, <2>1, <3>6 DEF Dialogue, Answering
    <3> QED
      BY <3>3, <3>5, <3>7 DEF Dialogue
  <2> QED
    BY <2>2, <2>3, TwoEnds
<1>9. Loop'
  BY <1>1, LoopKept
<1>10. ASSUME NEW r \in Ends PROVE StreamTo(r)'
  <2>1. CASE p = Peer(r)
    BY <2>1, StreamFlush
  <2>2. CASE p # Peer(r)
    <3>1. Peer(r) \in Ends /\ r # Peer(p)
      BY <2>2, PeerFacts
    <3>2. /\ \A g \in Sockets : wire'[g][r] = wire[g][r]
          /\ writer'[Peer(r)] = writer[Peer(r)]
      BY <1>3, <1>4, <2>2, <3>1
    <3> QED
      BY <1>1, <3>2, StreamSame
  <2> QED
    BY <2>1, <2>2
<1> QED
  BY <1>7, <1>8, <1>9, <1>10 DEF Orderly, Streams

-----------------------------------------------------------------------------
(* A new socket                                                            *)

\* The socket a writer leaves, after a last flush, carries a prefix of what
\* was to come on it.
LEMMA DrainedNoGap ==
    ASSUME SocketInv, NEW r \in Ends, NEW t,
           \/ t = wire[socket[Peer(r)]][r]
           \/ /\ alive[socket[Peer(r)]]
              /\ t = wire[socket[Peer(r)]][r] \o Drained(Peer(r))
    PROVE  NoGap(t, incomingMsgId[r])
<1> DEFINE q == Peer(r)
           h == socket[q]
           x == wire[h][r]
           s == writer[q]
           in == incomingMsgId[r]
           c == Coming(h, r)
<1>1. /\ q \in Ends /\ h \in Sockets
      /\ x \in Seq(Message) /\ s \in Seq(Message) /\ in \in Nat
  BY PeerFacts, SocketTypes
<1>2. NoGap(c, in)
  BY <1>1 DEF SocketInv, Orderly, Streams, StreamTo
<1>3. /\ alive[h] => c = x \o s
      /\ ~alive[h] => c = x
  BY DEF Coming
<1>4. Drained(q) = s \/ Drained(q) = <<>>
  BY DEF Drained
<1>5. t = x \/ (alive[h] /\ t = x \o Drained(q))
  OBVIOUS
<1> HIDE DEF x, s, c, h, q, in
<1>6. NoGap(x, in)
  <2>1. CASE alive[h]
    BY <1>1, <1>2, <1>3, <2>1, NoGapConcat
  <2>2. CASE ~alive[h]
    BY <1>2, <1>3, <2>2
  <2> QED
    BY <2>1, <2>2
<1>7. x \o <<>> = x
  BY <1>1
<1>8. t = x \/ t = c
  BY <1>3, <1>4, <1>5, <1>7
<1> QED
  BY <1>2, <1>6, <1>8 DEF in

\* A new socket: nothing but the auth request is written to it.
LEMMA BeginReconnectOrderly ==
    ASSUME SocketInv, BeginReconnect PROVE Orderly'
<1> DEFINE old == socket["client"]
           new == old + 1
           d == Drained("client")
           m == Plain("auth", 0)
<1>1. /\ wire' = WireAfter(wire, old, "server", d)
      /\ alive' = [alive EXCEPT ![old] = FALSE, ![new] = TRUE]
      /\ socket' = [socket EXCEPT !["client"] = new]
      /\ handshake' = [handshake EXCEPT ![new] = "waitAuth"]
      /\ isReconnecting' = [isReconnecting EXCEPT !["client"] = TRUE]
      /\ writer' = [writer EXCEPT !["client"] = <<m>>]
      /\ paused' = [paused EXCEPT !["client"] = FALSE]
      /\ old < MaxSockets
      /\ UNCHANGED <<outgoingUnackMsg, outgoingMsgId, incomingMsgId>>
  BY DEF BeginReconnect, Drained
<1>2. phase' = "awaitSign"
  BY DEF BeginReconnect, FlushedControl, AwaitSign
<1>3. /\ old \in Sockets /\ new \in Sockets /\ new > old /\ new # old
      /\ Newest = old /\ Newest' = new
  <2>1. old \in Sockets
    BY TwoEnds, SocketTypes
  <2>2. new \in Sockets /\ new > old /\ new # old
    BY <1>1, <2>1, ConstantsAssumption DEF Sockets
  <2> QED
    BY <1>1, <2>1, <2>2, TwoEnds, SocketTypes DEF Newest
<1>4. /\ m \in Message /\ m.type = "auth"
      /\ <<m>> \in Seq(Message) /\ Only(<<m>>, {"auth"})
  BY OnlyOne DEF Plain, Message, MsgTypes, ControlTypes
<1>5. d \in Seq(Message) /\ Only(d, Asked(handshake[old]))
  BY <1>3, TwoEnds, DrainedFacts
<1>6. wire \in Wires /\ "client" \in Ends /\ "server" \in Ends
  BY TwoEnds, SocketTypes DEF Wires
<1> HIDE DEF old, new, d, m
<1>7. /\ \A g \in Sockets : wire'[g]["client"] = wire[g]["client"]
      /\ \A g \in Sockets : g # old => wire'[g]["server"] = wire[g]["server"]
      /\ \/ wire'[old]["server"] = wire[old]["server"]
         \/ /\ alive[old]
            /\ wire'[old]["server"] = wire[old]["server"] \o d
      /\ \A g \in Sockets : LineOf(wire', g, handshake[g])
  <2>1. \A g \in Sockets : LineOf(wire, g, handshake[g])
    BY DEF SocketInv, Orderly, Lines, Line, LineOf
  <2> DEFINE u == WireAfter(wire, old, "server", d)
  <2>2. /\ \A h \in Sockets, r \in Ends :
              h # old \/ r # "server" => u[h][r] = wire[h][r]
        /\ alive[old] => u[old]["server"] = wire[old]["server"] \o d
        /\ ~alive[old] => u = wire
    <3>1. /\ wire \in Wires /\ old \in Sockets /\ d \in Seq(Message)
          /\ "server" \in Ends
      BY <1>3, <1>5, <1>6
    <3> QED
      BY <3>1, WireWritten
  <2>3. u = WireAfter(wire, old, Peer("client"), d)
    BY TwoEnds
  <2>4. u = wire'
    BY <1>1
  <2> HIDE DEF u
  <2>5. \A g \in Sockets : LineOf(u, g, handshake[g])
    BY <1>3, <1>5, <1>6, <2>1, <2>3, DrainedLines
  <2>6. \/ u[old]["server"] = wire[old]["server"]
        \/ alive[old] /\ u[old]["server"] = wire[old]["server"] \o d
    BY <2>2
  <2> QED
    BY <1>6, <2>2, <2>4, <2>5, <2>6
<1>8. /\ handshake[new] = "none" /\ handshake'[new] = "waitAuth"
      /\ \A g \in Sockets : g # new => handshake'[g] = handshake[g]
      /\ wire'[new]["server"] = <<>>
      /\ \A g \in Sockets : g > new =>
            handshake[g] = "none" /\ wire'[g]["server"] = <<>>
  <2>1. Fresh
    BY DEF SocketInv, Orderly, Dialogue
  <2>2. handshake[new] = "none" /\ wire[new]["server"] = <<>>
    BY <1>3, <2>1 DEF Fresh
  <2>3. /\ handshake \in [Sockets ->
                {"none", "waitAuth", "waitType", "handover", "done"}]
    BY DEF SocketInv, IInv, Types
  <2>4. ASSUME NEW g \in Sockets, g > new
        PROVE  g > Newest /\ g # old
    BY <1>3, <2>4 DEF Sockets
  <2> QED
    BY <1>1, <1>3, <1>7, <2>1, <2>2, <2>3, <2>4 DEF Fresh
<1>9. /\ writer'["client"] = <<m>> /\ writer'["server"] = writer["server"]
      /\ isReconnecting'["client"]
      /\ isReconnecting'["server"] = isReconnecting["server"]
      /\ socket'["client"] = new /\ socket'["server"] = socket["server"]
  BY <1>1, <1>6, SocketTypes
<1>10. Only(<<m>>, FromClient) /\ Only(<<m>>, FromClient \ {"Regular"})
       /\ Only(<<m>>, FromClient \ {"connectionType"})
  <2>1. /\ {"auth"} \subseteq FromClient
        /\ {"auth"} \subseteq FromClient \ {"Regular"}
        /\ {"auth"} \subseteq FromClient \ {"connectionType"}
    BY DEF FromClient, MsgTypes, ControlTypes
  <2> QED
    BY <1>4, <2>1, OnlyMore
<1>11. Lines'
  <2>1. ASSUME NEW g \in Sockets PROVE LineOf(wire', g, handshake'[g])
    <3>1. CASE g = new
      <4>1. /\ Answered("none") = Answered("waitAuth")
            /\ Asked("none") = Asked("waitAuth")
        BY DEF Answered, Asked
      <4>2. LineOf(wire', new, "none")
        BY <1>3, <1>7, <1>8
      <4> QED
        BY <1>8, <3>1, <4>1, <4>2 DEF LineOf
    <3>2. CASE g # new
      BY <1>7, <1>8, <3>2
    <3> QED
      BY <3>1, <3>2
  <2>2. \A g \in Sockets : Line(g)'
    BY <2>1 DEF LineOf, Line
  <2> QED
    BY <1>1, <1>9, <1>10, <2>2 DEF SocketInv, Orderly, Lines
<1>12. Dialogue'
  <2>1. Fresh'
    <3>1. handshake'[Newest'] # "none"
      BY <1>3, <1>8
    <3>2. ASSUME NEW g \in Sockets, g > Newest'
          PROVE  handshake'[g] = "none" /\ wire'[g]["server"] = <<>>
      <4>1. g > new /\ g # new
        BY <1>3, <3>2 DEF Sockets
      <4> QED
        BY <1>8, <4>1
    <3> QED
      BY <3>1, <3>2 DEF Fresh
  <2>2. Asking'
    BY <1>3, <1>8, <1>9, <1>10, OnlyEmpty DEF Asking
  <2>3. Answering'
    BY <1>2 DEF Answering
  <2>4. Silent' /\ Pausing'
    BY <1>3, <1>8, <1>9, <1>10 DEF Silent, Pausing
  <2> QED
    BY <2>1, <2>2, <2>3, <2>4 DEF Dialogue
<1>13. socket["server"] # new /\ handshake'[socket["server"]] = "done"
  <2>1. handshake[socket["server"]] = "done" /\ socket["server"] \in Sockets
    BY <1>6, SocketTypes DEF SocketInv, Orderly, Loop
  <2> QED
    BY <1>8, <2>1
<1>14. Loop'
  BY <1>2, <1>9, <1>13 DEF SocketInv, Orderly, Loop
<1>15. StreamTo("client")'
  <2>1. Peer("client") = "server" /\ "client" \in Ends
    BY TwoEnds
  <2>2. \A g \in Sockets : alive'[g] => alive[g] \/ socket["server"] # g
    BY <1>1, <1>13, SocketTypes
  <2> QED
    BY <1>1, <1>7, <1>9, <2>1, <2>2, StreamSame
<1>16. StreamTo("server")'
  <2>1. Peer("server") = "client" /\ incomingMsgId["server"] \in Nat
    BY TwoEnds, SocketTypes
  <2>2. \A g \in Sockets : NoGap(Coming(g, "server"),
                                 incomingMsgId["server"])
    BY <1>6 DEF SocketInv, Orderly, Streams, StreamTo
  <2>3. ASSUME NEW g \in Sockets
        PROVE  NoGap(Coming(g, "server")', incomingMsgId["server"])
    <3>1. CASE g = new
      <4>1. Coming(g, "server")' = <<m>> \/ Coming(g, "server")' = <<>>
        <5>1. <<>> \o <<m>> = <<m>>
          BY <1>4
        <5> QED
          BY <1>8, <1>9, <2>1, <3>1, <5>1 DEF Coming
      <4>2. /\ NoGap(<<m>>, incomingMsgId["server"])
            /\ NoGap(<<>>, incomingMsgId["server"])
        <5>1. NoGap(<<>>, incomingMsgId["server"])
          BY DEF NoGap
        <5> QED
          BY <1>4, <5>1, NoGapOther
      <4> QED
        BY <4>1, <4>2
    <3>2. CASE g = old
      <4>1. Coming(g, "server")' = wire'[old]["server"]
        BY <1>3, <1>9, <2>1, <3>2 DEF Coming
      <4>2. old = socket[Peer("server")] /\ d = Drained(Peer("server"))
        BY <2>1 DEF old, d
      <4>3. NoGap(wire'[old]["server"], incomingMsgId["server"])
        BY <1>6, <1>7, <4>2, DrainedNoGap
      <4> QED
        BY <4>1, <4>3
    <3>3. CASE g # new /\ g # old
      <4>1. /\ Coming(g, "server")' = wire[g]["server"]
            /\ Coming(g, "server") = wire[g]["server"]
        BY <1>3, <1>7, <1>9, <2>1, <3>3 DEF Coming, Newest
      <4> QED
        BY <2>2, <4>1
    <3> QED
      BY <3>1, <3>2, <3>3
  <2> QED
    BY <1>1, <1>9, <2>1, <2>3 DEF StreamTo
<1> QED
  BY <1>11, <1>12, <1>14, <1>15, <1>16, TwoEnds DEF Orderly, Streams

-----------------------------------------------------------------------------
(* The server's side of the handshake                                      *)

\* What is read before the handshake is over is none of the application's.
LEMMA EarlyReadFacts ==
    ASSUME SocketInv, NEW g \in Sockets, handshake[g] # "done",
           wire[g]["server"] # <<>>
    PROVE  /\ Head(wire[g]["server"]) \in Message
           /\ Head(wire[g]["server"]).type \in Asked(handshake[g])
           /\ Head(wire[g]["server"]).type # "Regular"
           /\ Only(Tail(wire[g]["server"]), Asked(handshake[g]))
           /\ \A T : Only(wire[g]["server"], T)
                        => Only(Tail(wire[g]["server"]), T)
           /\ socket["server"] # g
<1> DEFINE s == wire[g]["server"]
<1>1. s \in Seq(Message) /\ s # <<>> /\ Only(s, Asked(handshake[g]))
  BY TwoEnds, SocketTypes DEF SocketInv, Orderly, Lines, Line
<1>2. socket["server"] # g
  BY DEF SocketInv, Orderly, Loop
<1> HIDE DEF s
<1>3. /\ Head(s) \in Message /\ Head(s).type \in Asked(handshake[g])
      /\ \A T : Only(s, T) => Only(Tail(s), T)
  BY <1>1, OnlyTail, TailFacts
<1>4. "Regular" \notin Asked(handshake[g])
  BY DEF Asked
<1> QED
  BY <1>1, <1>2, <1>3, <1>4 DEF s

\* A message is read during the handshake, or lost, and nothing is answered.
LEMMA LostOrderly ==
    ASSUME SocketInv, NEW g \in Sockets, handshake[g] # "done",
           wire[g]["server"] # <<>>,
           wire' = [wire EXCEPT ![g]["server"] = Tail(@)],
           UNCHANGED <<writer, paused, socket, alive, isReconnecting,
                       outgoingUnackMsg, outgoingMsgId, incomingMsgId,
                       phase, handshake>>
    PROVE  Orderly'
<1>1. "server" \in Ends /\ "client" \in Ends /\ Newest \in Sockets
  BY TwoEnds, SocketTypes
<1>2. Lines'
  BY <1>1, ReadFacts, LinesKept DEF SocketInv, Orderly, Lines
<1>3. Dialogue'
  <2>1. wire'[Newest]["client"] = wire[Newest]["client"]
    BY <1>1, ReadFacts
  <2> QED
    BY <1>1, <2>1, ReadFacts, DialogueKept
<1>4. Loop'
  BY LoopKept
<1>5. ASSUME NEW r \in Ends PROVE StreamTo(r)'
  <2>1. Peer(r) \in Ends /\ incomingMsgId[r] \in Nat
    BY PeerFacts, SocketTypes
  <2>2. CASE r = "server"
    <3>1. /\ wire[g][r] # <<>> /\ wire'[g][r] = Tail(wire[g][r])
          /\ \A h \in Sockets \ {g} : wire'[h][r] = wire[h][r]
          /\ Head(wire[g][r]).type # "Regular"
      <4>1. Head(wire[g]["server"]).type # "Regular"
        BY EarlyReadFacts
      <4>2. /\ wire'[g]["server"] = Tail(wire[g]["server"])
            /\ \A h \in Sockets \ {g} : wire'[h]["server"] = wire[h]["server"]
        BY <1>1, ReadFacts
      <4> QED
        BY <2>2, <4>1, <4>2
    <3>2. \A h \in Sockets : alive'[h] => alive[h]
      OBVIOUS
    <3>3. incomingMsgId'[r] \in Nat /\ incomingMsgId[r] <= incomingMsgId'[r]
      BY <2>1
    <3> QED
      BY <2>1, <3>1, <3>2, <3>3, StreamRead
  <2>3. CASE r # "server"
    BY <1>1, <2>1, <2>3, ReadFacts, StreamSame
  <2> QED
    BY <2>2, <2>3
<1> QED
  BY <1>2, <1>3, <1>4, <1>5 DEF Orderly, Streams

\* The network when the server has read a message of socket g and answered.
AnsweredWire(g, a) ==
    WireAfter([wire EXCEPT ![g]["server"] = Tail(@)], g, "client", a)

\* It differs on that socket only.
LEMMA AnsweredWireFacts ==
    ASSUME SocketInv, NEW g \in Sockets, wire[g]["server"] # <<>>,
           NEW a \in Seq(Message)
    PROVE  /\ AnsweredWire(g, a) \in Wires
           /\ \A h \in Sockets, r \in Ends :
                 h # g => AnsweredWire(g, a)[h][r] = wire[h][r]
           /\ AnsweredWire(g, a)[g]["server"] = Tail(wire[g]["server"])
           /\ alive[g] => AnsweredWire(g, a)[g]["client"]
                             = wire[g]["client"] \o a
           /\ ~alive[g] => AnsweredWire(g, a)[g]["client"]
                             = wire[g]["client"]
<1> DEFINE rest == [wire EXCEPT ![g]["server"] = Tail(@)]
           v == WireAfter(rest, g, "client", a)
           t == Tail(wire[g]["server"])
<1>1. /\ "server" \in Ends /\ "client" \in Ends
      /\ wire \in [Sockets -> [Ends -> Seq(Message)]]
      /\ t \in Seq(Message)
  <2>1. /\ "server" \in Ends /\ "client" \in Ends
        /\ wire \in [Sockets -> [Ends -> Seq(Message)]]
        /\ wire[g]["server"] \in Seq(Message)
    BY TwoEnds, SocketTypes
  <2> QED
    BY <2>1, TailFacts
<1>2. rest = [wire EXCEPT ![g]["server"] = t]
  OBVIOUS
<1> HIDE DEF t
<1>3. /\ rest \in Wires
      /\ \A h \in Sockets, r \in Ends :
            h # g \/ r # "server" => rest[h][r] = wire[h][r]
      /\ rest[g]["server"] = t
  BY <1>1, <1>2 DEF Wires
<1> HIDE DEF rest
<1>4. rest \in Wires /\ "client" \in Ends
  BY <1>1, <1>3
<1>5. /\ v \in Wires
      /\ \A h \in Sockets, r \in Ends :
            h # g \/ r # "client" => v[h][r] = rest[h][r]
      /\ alive[g] => v[g]["client"] = rest[g]["client"] \o a
      /\ ~alive[g] => v = rest
  BY <1>4, WireWritten
<1>6. AnsweredWire(g, a) = v
  BY DEF AnsweredWire, rest
<1> HIDE DEF v
<1>7. /\ v \in Wires
      /\ \A h \in Sockets, r \in Ends : h # g => v[h][r] = wire[h][r]
      /\ v[g]["server"] = t
      /\ alive[g] => v[g]["client"] = wire[g]["client"] \o a
      /\ ~alive[g] => v[g]["client"] = wire[g]["client"]
  BY <1>1, <1>3, <1>5
<1> QED
  BY <1>6, <1>7 DEF t

\* The two messages that begin a handshake are answered: "sign" to the
\* first; "Pause" and "ok" to the second, when the socket is handed over.
LEMMA AnswerOrderly ==
    ASSUME SocketInv, NEW g \in Sockets, wire[g]["server"] # <<>>,
           NEW a \in Seq(Message), NEW n,
           \/ /\ handshake[g] = "waitAuth" /\ n = "waitType"
              /\ Only(a, {"sign"}) /\ OneSign(a)
           \/ /\ handshake[g] = "waitType" /\ n = "handover"
              /\ Head(wire[g]["server"]).type = "connectionType"
              /\ Only(a, {"Pause", "ok"})
              /\ \A s \in Seq(Message) :
                    Only(s, {"sign"}) => PauseFirst(s \o a),
           wire' = AnsweredWire(g, a),
           handshake' = [handshake EXCEPT ![g] = n],
           UNCHANGED <<writer, paused, socket, alive, isReconnecting,
                       outgoingUnackMsg, outgoingMsgId, incomingMsgId,
                       phase>>
    PROVE  Orderly'
<1> DEFINE x == wire[g]["client"]
           y == wire[g]["server"]
<1>1. /\ "server" \in Ends /\ "client" \in Ends /\ Newest \in Sockets
      /\ x \in Seq(Message) /\ y \in Seq(Message) /\ y # <<>>
      /\ Newest' = Newest
  BY TwoEnds, SocketTypes DEF Newest
<1>2. /\ \A h \in Sockets, r \in Ends : h # g => wire'[h][r] = wire[h][r]
      /\ wire'[g]["server"] = Tail(y)
      /\ alive[g] => wire'[g]["client"] = x \o a
      /\ ~alive[g] => wire'[g]["client"] = x
  BY AnsweredWireFacts
<1>3. /\ Only(x, Answered(handshake[g])) /\ Only(y, Asked(handshake[g]))
      /\ OneSign(x)
  BY DEF SocketInv, Orderly, Lines, Line
<1>4. /\ Head(y).type # "Regular" /\ socket["server"] # g
      /\ Head(y).type \in Asked(handshake[g])
      /\ \A T : Only(y, T) => Only(Tail(y), T) /\ Head(y).type \in T
  <2>1. handshake[g] # "done"
    OBVIOUS
  <2>2. /\ Head(y).type # "Regular" /\ socket["server"] # g
        /\ Head(y).type \in Asked(handshake[g])
    BY <2>1, EarlyReadFacts
  <2> HIDE DEF y
  <2> QED
    BY <1>1, <2>2, OnlyTail
<1>5. /\ handshake'[g] = n
      /\ \A h \in Sockets : h # g => handshake'[h] = handshake[h]
  <2>1. handshake \in [Sockets ->
            {"none", "waitAuth", "waitType", "handover", "done"}]
    BY DEF SocketInv, IInv, Types
  <2> QED
    BY <2>1
<1> HIDE DEF x, y
<1>6. /\ Only(x, {"sign"}) /\ Only(a, {"sign", "Pause", "ok"})
      /\ Only(x, Answered(n)) /\ Only(a, Answered(n))
      /\ OneSign(x \o a)
  <2>1. CASE handshake[g] = "waitAuth" /\ n = "waitType" /\
             Only(a, {"sign"}) /\ OneSign(a)
    <3>1. x = <<>> /\ x \o a = a
      BY <1>1, <1>3, <2>1, OnlyNothing DEF Answered
    <3> QED
      BY <2>1, <3>1, OnlyEmpty, OnlyMore DEF Answered
  <2>2. CASE handshake[g] = "waitType" /\ n = "handover" /\
             Only(a, {"Pause", "ok"})
    <3>1. Only(x, {"sign"})
      BY <1>3, <2>2 DEF Answered
    <3>2. OneSign(x \o a)
      BY <1>1, <1>3, <2>2, OneSignConcat
    <3> QED
      BY <2>2, <3>1, <3>2, OnlyMore DEF Answered
  <2> QED
    BY <2>1, <2>2
<1>7. /\ Only(x \o a, Answered(n))
      /\ Only(x \o a, {"sign", "Pause", "ok"})
      /\ Only(x, {"sign", "Pause", "ok"})
  <2>1. Only(x, {"sign", "Pause", "ok"})
    BY <1>6, OnlyMore
  <2> QED
    BY <1>1, <1>6, <2>1, OnlyConcat
<1>8. Lines'
  <2>1. ASSUME NEW h \in Sockets PROVE Line(h)'
    <3>1. CASE h = g
      <4>1. Asked(n) = Asked(handshake[g])
        BY DEF Asked
      <4> QED
        BY <1>2, <1>3, <1>4, <1>5, <1>6, <1>7, <3>1, <4>1 DEF Line
    <3>2. CASE h # g
      BY <1>1, <1>2, <1>5, <3>2 DEF SocketInv, Orderly, Lines, Line
    <3> QED
      BY <3>1, <3>2
  <2> QED
    BY <2>1 DEF SocketInv, Orderly, Lines
<1>9. Dialogue'
  <2>1. /\ Dialogue /\ Loop /\ handshake[g] # "none" /\ n # "none"
        /\ n # "done" /\ n # "waitAuth" /\ handshake[g] # "handover"
    BY DEF SocketInv, Orderly
  <2>2. Fresh'
    <3>1. ASSUME NEW h \in Sockets, h > Newest
          PROVE  handshake'[h] = "none" /\ wire'[h]["server"] = <<>>
      <4>1. handshake[h] = "none" /\ wire[h]["server"] = <<>>
        BY <2>1, <3>1 DEF Dialogue, Fresh
      <4> QED
        BY <1>1, <1>2, <1>5, <2>1, <4>1
    <3>2. handshake'[Newest] # "none"
      BY <1>1, <1>5, <2>1 DEF Dialogue, Fresh
    <3> QED
      BY <1>1, <3>1, <3>2 DEF Fresh
  <2>3. Asking'
    <3> SUFFICES ASSUME phase = "awaitSign" PROVE Asking'
      BY DEF Asking
    <3> DEFINE T == FromClient \ {"connectionType"}
    <3>1. /\ handshake[Newest] \in {"waitAuth", "waitType"}
          /\ Only(writer["client"], T)
          /\ Only(wire[Newest]["server"], T)
      BY <2>1 DEF Dialogue, Asking
    <3>2. CASE g = Newest
      <4>1. Only(y, T)
        BY <3>1, <3>2 DEF y
      <4>2. Head(y).type # "connectionType" /\ Only(Tail(y), T)
        BY <1>4, <4>1
      <4>3. handshake'[Newest] = "waitType"
        BY <1>5, <3>2, <4>2 DEF y
      <4> QED
        BY <1>1, <1>2, <3>1, <3>2, <4>2, <4>3 DEF Asking
    <3>3. CASE g # Newest
      BY <1>1, <1>2, <1>5, <3>1, <3>3 DEF Asking
    <3> QED
      BY <3>2, <3>3
  <2>4. Answering'
    <3> SUFFICES ASSUME phase \in {"signing", "awaitOk"} PROVE Answering'
      BY DEF Answering
    <3> DEFINE T == FromServer \ {"sign"}
    <3>1. handshake[Newest] # "waitAuth" /\ Only(wire[Newest]["client"], T)
      BY <2>1 DEF Dialogue, Answering
    <3>2. CASE g = Newest
      <4>1. Only(x, T) /\ Only(a, {"Pause", "ok"})
        BY <3>1, <3>2 DEF x
      <4>2. Only(a, T)
        <5>1. {"Pause", "ok"} \subseteq T
          BY DEF FromServer, MsgTypes, PlainTypes, ControlTypes
        <5> QED
          BY <4>1, <5>1, OnlyMore
      <4>3. Only(x \o a, T)
        BY <1>1, <4>1, <4>2, OnlyConcat
      <4> QED
        BY <1>1, <1>2, <1>5, <2>1, <3>2, <4>1, <4>3 DEF Answering
    <3>3. CASE g # Newest
      BY <1>1, <1>2, <1>5, <3>1, <3>3 DEF Answering
    <3> QED
      BY <3>2, <3>3
  <2>5. Silent'
    <3>1. handshake'[Newest] # "done" => handshake[Newest] # "done"
      BY <1>1, <1>5
    <3>2. handshake[Newest] = "handover" => handshake'[Newest] = "handover"
      BY <1>1, <1>5, <2>1
    <3> QED
      BY <1>1, <2>1, <3>1, <3>2 DEF Dialogue, Silent
  <2>6. Pausing'
    <3> SUFFICES ASSUME handshake'[Newest] = "handover"
                 PROVE  paused["client"] \/ PauseFirst(wire'[Newest]["client"])
      BY <1>1 DEF Pausing
    <3>1. CASE g = Newest
      <4>1. PauseFirst(x \o a)
        BY <1>1, <1>5, <1>6, <3>1
      <4>2. PauseFirst(x)
        <5>1. \A i \in 1 .. Len(x) : x[i].type # "ok"
          BY <1>6 DEF Only
        <5> QED
          BY <5>1 DEF PauseFirst
      <4> QED
        BY <1>2, <3>1, <4>1, <4>2
    <3>2. CASE g # Newest
      BY <1>1, <1>2, <1>5, <2>1, <3>2 DEF Dialogue, Pausing
    <3> QED
      BY <3>1, <3>2
  <2> QED
    BY <2>2, <2>3, <2>4, <2>5, <2>6 DEF Dialogue
<1>10. Loop'
  <2>1. handshake'[socket["server"]] = "done"
    BY <1>1, <1>4, <1>5, SocketTypes DEF SocketInv, Orderly, Loop
  <2> QED
    BY <2>1 DEF SocketInv, Orderly, Loop
<1>11. StreamTo("server")'
  <2>1. Peer("server") = "client" /\ incomingMsgId["server"] \in Nat
    BY <1>1, TwoEnds, SocketTypes
  <2>2. /\ wire[g]["server"] # <<>>
        /\ wire'[g]["server"] = Tail(wire[g]["server"])
        /\ \A h \in Sockets \ {g} : wire'[h]["server"] = wire[h]["server"]
        /\ Head(wire[g]["server"]).type # "Regular"
    BY <1>1, <1>2, <1>4 DEF y
  <2>3. \A h \in Sockets : alive'[h] => alive[h]
    OBVIOUS
  <2>4. /\ incomingMsgId'["server"] \in Nat
        /\ incomingMsgId["server"] <= incomingMsgId'["server"]
    BY <2>1
  <2> QED
    BY <1>1, <2>1, <2>2, <2>3, <2>4, StreamRead
<1>12. StreamTo("client")'
  <2> DEFINE in == incomingMsgId["client"]
  <2>1. Peer("client") = "server" /\ in \in Nat
    BY <1>1, TwoEnds, SocketTypes
  <2>2. StreamTo("client")
    BY <1>1 DEF SocketInv, Orderly, Streams
  <2>3. ASSUME NEW h \in Sockets
        PROVE  /\ NoGap(Coming(h, "client")', in)
               /\ h # g => Coming(h, "client")' = Coming(h, "client")
    <3>1. CASE h = g
      <4>1. Coming(h, "client")' = x \/ Coming(h, "client")' = x \o a
        BY <1>2, <1>4, <2>1, <3>1 DEF Coming
      <4>2. NoGap(x, in) /\ NoGap(x \o a, in)
        <5>1. x \o a \in Seq(Message)
          BY <1>1, ConcatFacts
        <5> QED
          BY <1>1, <1>7, <5>1, NoGapOther
      <4> QED
        BY <3>1, <4>1, <4>2
    <3>2. CASE h # g
      <4>1. Coming(h, "client")' = Coming(h, "client")
        BY <1>1, <1>2, <2>1, <3>2 DEF Coming
      <4> QED
        BY <2>2, <4>1 DEF StreamTo
    <3> QED
      BY <3>1, <3>2
  <2>4. Coming(socket["server"], "client")'
            = Coming(socket["server"], "client")
    BY <1>1, <1>4, <2>3, SocketTypes
  <2> QED
    BY <2>1, <2>2, <2>3, <2>4 DEF StreamTo
<1> QED
  BY <1>8, <1>9, <1>10, <1>11, <1>12, TwoEnds DEF Orderly, Streams

\* The server takes the socket of the handshake, and writes to it first all
\* that the client may be missing.  w is the network by then, f what it
\* writes last.
LEMMA AcceptOrderly ==
    ASSUME IdsFit, SocketInv, NEW g \in Sockets, NEW w \in Wires, NEW f,
           OkSeq(f, outgoingMsgId["server"], incomingMsgId["server"]),
           Only(f, {"Resume"}),
           handshake[g] \in {"waitType", "handover"},
           AcceptReconnection(g, w, f),
           UNCHANGED <<phase, controlBuffer>>,
           handshake' = [handshake EXCEPT ![g] = "done"],
           \A h \in Sockets, r \in Ends : h # g => w[h][r] = wire[h][r],
           \/ w[g]["server"] = wire[g]["server"]
           \/ /\ wire[g]["server"] # <<>>
              /\ w[g]["server"] = Tail(wire[g]["server"]),
           Only(w[g]["client"], {"sign", "Pause", "ok"}),
           OneSign(w[g]["client"]),
           phase = "awaitSign" => g # Newest,
           g = Newest /\ phase \in {"signing", "awaitOk"}
              => Only(w[g]["client"], FromServer \ {"sign"})
    PROVE  Orderly'
<1> DEFINE old == socket["server"]
           d == Drained("server")
           m == AllToWire(Resync("server") \o f)
           in == incomingMsgId["client"]
           out == outgoingMsgId["server"]
<1>1. /\ wire' = WireAfter(w, old, "client", d)
      /\ alive' = [alive EXCEPT ![old] = FALSE]
      /\ socket' = [socket EXCEPT !["server"] = g]
      /\ paused' = [paused EXCEPT !["server"] = FALSE]
      /\ writer' = [writer EXCEPT !["server"] = m]
      /\ isReconnecting' = [isReconnecting EXCEPT !["server"] = FALSE]
      /\ UNCHANGED <<outgoingUnackMsg, outgoingMsgId, incomingMsgId>>
  BY DEF AcceptReconnection, EndAcceptReconnection, Drained
<1>2. /\ "server" \in Ends /\ "client" \in Ends /\ old \in Sockets
      /\ Peer("server") = "client" /\ Peer("client") = "server"
      /\ Newest \in Sockets /\ in \in Nat /\ out \in Nat
      /\ incomingMsgId["server"] \in Nat
  BY TwoEnds, SocketTypes
<1>3. /\ m \in Seq(Message) /\ Only(m, {"Ack", "Regular", "Resume"})
      /\ NoGap(m, in) /\ Complete(m, in, out)
  BY <1>2, ResyncFacts
<1>4. /\ d \in Seq(Message) /\ Only(d, FromServer \ ControlTypes)
      /\ handshake[old] = "done" /\ old # g
  BY <1>2, DrainedFacts
<1>5. /\ handshake'[g] = "done"
      /\ \A h \in Sockets : h # g => handshake'[h] = handshake[h]
  BY DEF SocketInv, IInv, Types
<1>6. /\ writer'["server"] = m /\ writer'["client"] = writer["client"]
      /\ socket'["server"] = g /\ socket'["client"] = socket["client"]
      /\ paused'["client"] = paused["client"]
      /\ isReconnecting'["client"] = isReconnecting["client"]
      /\ ~isReconnecting'["server"]
      /\ \A h \in Sockets : alive'[h] <=> alive[h] /\ h # old
      /\ Newest' = Newest
  BY <1>1, <1>2, SocketTypes DEF Newest
<1> HIDE DEF old, d, m, in, out
<1>7. /\ \A h \in Sockets : LineOf(w, h, handshake'[h])
  <2>1. ASSUME NEW h \in Sockets, h # g PROVE LineOf(w, h, handshake'[h])
    BY <1>2, <1>5, <2>1 DEF SocketInv, Orderly, Lines, Line, LineOf
  <2>2. LineOf(w, g, "done")
    <3>1. Only(w[g]["client"], FromServer)
      <4>1. {"sign", "Pause", "ok"} \subseteq FromServer
        BY DEF FromServer, MsgTypes, PlainTypes, ControlTypes
      <4> QED
        BY <4>1, OnlyMore
    <3>2. Only(wire[g]["server"], FromClient)
      <4>1. Only(wire[g]["server"], Asked(handshake[g]))
        BY DEF SocketInv, Orderly, Lines, Line
      <4>2. Asked(handshake[g]) \subseteq FromClient
        BY DEF Asked
      <4> QED
        BY <4>1, <4>2, OnlyMore
    <3> DEFINE y == wire[g]["server"]
    <3>3. y \in Seq(Message)
      BY <1>2, SocketTypes
    <3>4. Only(y, FromClient) /\ (w[g]["server"] = y \/
                                  (y # <<>> /\ w[g]["server"] = Tail(y)))
      BY <3>2
    <3> HIDE DEF y
    <3>6. y # <<>> => Only(Tail(y), FromClient)
      BY <3>3, <3>4, OnlyTail
    <3>5. Only(w[g]["server"], FromClient)
      BY <3>4, <3>6
    <3> QED
      BY <3>1, <3>5 DEF LineOf, Answered, Asked
  <2> QED
    BY <1>5, <2>1, <2>2
<1>8. /\ \A h \in Sockets : LineOf(wire', h, handshake'[h])
      /\ \A h \in Sockets : wire'[h]["server"] = w[h]["server"]
      /\ \A h \in Sockets : h # old => wire'[h]["client"] = w[h]["client"]
      /\ \/ wire'[old]["client"] = w[old]["client"]
         \/ alive[old] /\ wire'[old]["client"] = w[old]["client"] \o d
  <2> DEFINE v == WireAfter(w, old, "client", d)
             hs == handshake'
  <2>1. /\ "client" \in Ends /\ old \in Sockets /\ d \in Seq(Message)
    BY <1>2, <1>4
  <2>2. /\ \A h \in Sockets, r \in Ends :
              h # old \/ r # "client" => v[h][r] = w[h][r]
        /\ alive[old] => v[old]["client"] = w[old]["client"] \o d
        /\ ~alive[old] => v = w
    BY <2>1, WireWritten
  <2>3. /\ \A h \in Sockets : LineOf(w, h, hs[h])
        /\ hs[old] = "done"
        /\ v = WireAfter(w, old, Peer("server"), d)
    BY <1>2, <1>4, <1>5, <1>7
  <2>4. wire' = v
    BY <1>1
  <2> HIDE DEF v, hs
  <2>5. \A h \in Sockets : LineOf(v, h, hs[h])
    BY <1>2, <1>4, <2>3, DrainedLines
  <2>6. /\ \/ v[old]["client"] = w[old]["client"]
           \/ alive[old] /\ v[old]["client"] = w[old]["client"] \o d
    BY <2>2
  <2> QED
    BY <1>2, <2>2, <2>4, <2>5, <2>6 DEF hs
<1>9. Lines'
  <2>1. \A h \in Sockets : Line(h)'
    BY <1>8 DEF LineOf, Line
  <2>2. Only(writer'["server"], FromServer \ ControlTypes)
    <3>1. {"Ack", "Regular", "Resume"} \subseteq FromServer \ ControlTypes
      BY DEF FromServer, MsgTypes, PlainTypes, ControlTypes
    <3> QED
      BY <1>3, <1>6, <3>1, OnlyMore
  <2> QED
    BY <1>1, <1>6, <2>1, <2>2 DEF SocketInv, Orderly, Lines
<1>10. Dialogue'
  <2>1. Dialogue
    BY DEF SocketInv, Orderly
  <2>2. \A h \in Sockets : h # g => /\ wire'[h]["server"] = wire[h]["server"]
                                    /\ handshake'[h] = handshake[h]
    BY <1>2, <1>5, <1>8
  <2>3. Fresh'
    <3>1. ASSUME NEW h \in Sockets, h > Newest
          PROVE  handshake'[h] = "none" /\ wire'[h]["server"] = <<>>
      <4>1. handshake[h] = "none" /\ wire[h]["server"] = <<>>
        BY <2>1, <3>1 DEF Dialogue, Fresh
      <4> QED
        BY <2>2, <4>1
    <3>2. handshake'[Newest] # "none"
      BY <1>2, <1>5, <2>1 DEF Dialogue, Fresh
    <3> QED
      BY <1>6, <3>1, <3>2 DEF Fresh
  <2>4. Asking'
    BY <1>2, <1>6, <2>1, <2>2 DEF Dialogue, Asking
  <2>5. Answering'
    <3> SUFFICES ASSUME phase \in {"signing", "awaitOk"} PROVE Answering'
      BY DEF Answering
    <3> DEFINE T == FromServer \ {"sign"}
               x == w[Newest]["client"]
    <3>1. handshake[Newest] # "waitAuth" /\ Only(wire[Newest]["client"], T)
      BY <2>1 DEF Dialogue, Answering
    <3>2. Only(x, T)
      BY <1>2, <3>1
    <3>3. Only(d, T)
      <4>1. FromServer \ ControlTypes \subseteq T
        BY DEF ControlTypes
      <4> QED
        BY <1>4, <4>1, OnlyMore
    <3>4. x \in Seq(Message)
      BY <1>2 DEF Wires
    <3>5. wire'[Newest]["client"] = x \/ wire'[Newest]["client"] = x \o d
      BY <1>2, <1>8
    <3> HIDE DEF x, T
    <3>6. Only(wire'[Newest]["client"], T)
      BY <1>4, <3>2, <3>3, <3>4, <3>5, OnlyConcat
    <3>7. handshake'[Newest] # "waitAuth"
      BY <1>2, <1>5, <3>1
    <3> QED
      BY <1>6, <3>6, <3>7 DEF Answering, T
  <2>6. handshake'[Newest] # "done" =>
            handshake'[Newest] = handshake[Newest] /\ Newest # g
    BY <1>2, <1>5
  <2>7. Silent'
    BY <1>6, <2>1, <2>6 DEF Dialogue, Silent
  <2>8. Pausing'
    <3> SUFFICES ASSUME handshake'[Newest] = "handover"
                 PROVE  paused["client"] \/ PauseFirst(wire'[Newest]["client"])
      BY <1>6 DEF Pausing
    <3>1. /\ handshake[Newest] = "handover" /\ Newest # g
      BY <2>6
    <3>2. Newest # old
      BY <1>4, <3>1
    <3>3. wire'[Newest]["client"] = wire[Newest]["client"]
      BY <1>2, <1>8, <3>1, <3>2
    <3> QED
      BY <2>1, <3>1, <3>3 DEF Dialogue, Pausing
  <2> QED
    BY <2>3, <2>4, <2>5, <2>7, <2>8 DEF Dialogue
<1>11. Loop'
  BY <1>5, <1>6 DEF SocketInv, Orderly, Loop
<1>12. StreamTo("server")'
  <2>1. /\ writer'[Peer("server")] = writer[Peer("server")]
        /\ socket'[Peer("server")] = socket[Peer("server")]
        /\ \A h \in Sockets : alive'[h] => alive[h]
        /\ outgoingMsgId'[Peer("server")] = outgoingMsgId[Peer("server")]
        /\ isReconnecting'[Peer("server")] = isReconnecting[Peer("server")]
        /\ incomingMsgId'["server"] = incomingMsgId["server"]
    BY <1>1, <1>2, <1>6
  <2>2. CASE w[g]["server"] = wire[g]["server"]
    <3>1. \A h \in Sockets : wire'[h]["server"] = wire[h]["server"]
      BY <1>2, <1>8, <2>2
    <3> QED
      BY <1>2, <2>1, <3>1, StreamSame
  <2>3. CASE wire[g]["server"] # <<>> /\
             w[g]["server"] = Tail(wire[g]["server"])
    <3>1. /\ wire'[g]["server"] = Tail(wire[g]["server"])
          /\ \A h \in Sockets \ {g} : wire'[h]["server"] = wire[h]["server"]
      BY <1>2, <1>8, <2>3
    <3>2. Head(wire[g]["server"]).type # "Regular"
      BY <2>3, EarlyReadFacts
    <3>3. /\ incomingMsgId'["server"] \in Nat
          /\ incomingMsgId["server"] <= incomingMsgId'["server"]
      BY <1>2, <2>1
    <3> QED
      BY <1>2, <2>1, <2>3, <3>1, <3>2, <3>3, StreamRead
  <2> QED
    BY <2>2, <2>3
<1>13. StreamTo("client")'
  <2>1. \A h \in Sockets : NoGap(Coming(h, "client"), in)
    BY <1>2 DEF SocketInv, Orderly, Streams, StreamTo, in
  <2> DEFINE x == w[g]["client"]
  <2>2. /\ x \in Seq(Message) /\ Only(x, {"sign", "Pause", "ok"})
        /\ wire'[g]["client"] = x
    BY <1>2, <1>4, <1>8 DEF Wires
  <2> HIDE DEF x
  <2>3. /\ alive'[g] => Coming(g, "client")' = x \o m
        /\ ~alive'[g] => Coming(g, "client")' = x
    BY <1>2, <1>6, <2>2 DEF Coming
  <2>4. NoGap(x, in) /\ NoGap(x \o m, in)
    <3>1. NoGap(x, in)
      BY <2>2, NoGapOther
    <3> QED
      BY <1>2, <1>3, <2>2, <3>1, NoGapConcat
  <2>5. Complete(x \o m, in, out)
    BY <1>2, <1>3, <2>2, NoGapConcat
  <2>6. ASSUME NEW h \in Sockets PROVE NoGap(Coming(h, "client")', in)
    <3>1. CASE h = g
      BY <2>3, <2>4, <3>1
    <3>2. CASE h = old
      <4>1. Coming(h, "client")' = wire'[old]["client"]
        BY <1>2, <1>4, <1>6, <3>2 DEF Coming
      <4>2. w[old]["client"] = wire[old]["client"]
        BY <1>2, <1>4
      <4>3. NoGap(wire'[old]["client"], in)
        BY <1>2, <1>8, <4>2, DrainedNoGap DEF old, d, in
      <4> QED
        BY <4>1, <4>3
    <3>3. CASE h # g /\ h # old
      <4>1. /\ Coming(h, "client")' = wire[h]["client"]
            /\ Coming(h, "client") = wire[h]["client"]
        BY <1>2, <1>6, <1>8, <3>3 DEF Coming, old
      <4> QED
        BY <2>1, <4>1
    <3> QED
      BY <3>1, <3>2, <3>3
  <2>7. incomingMsgId'["client"] = in /\ outgoingMsgId'["server"] = out
    BY <1>1 DEF in, out
  <2> QED
    BY <1>2, <1>6, <2>3, <2>5, <2>6, <2>7 DEF StreamTo
<1> QED
  BY <1>9, <1>10, <1>11, <1>12, <1>13, TwoEnds DEF Orderly, Streams

\* The messages the server answers with.
LEMMA AnswerTypes ==
    /\ <<Plain("sign", 0)>> \in Seq(Message)
    /\ Only(<<Plain("sign", 0)>>, {"sign"}) /\ OneSign(<<Plain("sign", 0)>>)
    /\ <<Plain("ok", 0)>> \in Seq(Message)
    /\ Only(<<Plain("ok", 0)>>, {"ok"})
    /\ <<Plain("Pause", 0), Plain("ok", 0)>> \in Seq(Message)
    /\ Only(<<Plain("Pause", 0), Plain("ok", 0)>>, {"Pause", "ok"})
    /\ \A s \in Seq(Message) :
          Only(s, {"sign"}) =>
              PauseFirst(s \o <<Plain("Pause", 0), Plain("ok", 0)>>)
<1> DEFINE n == Plain("sign", 0)
           o == Plain("ok", 0)
           q == Plain("Pause", 0)
<1>1. /\ n \in Message /\ n.type = "sign" /\ o \in Message /\ o.type = "ok"
      /\ q \in Message /\ q.type = "Pause"
  BY DEF Plain, Message, MsgTypes, PlainTypes, ControlTypes
<1> HIDE DEF n, o, q
<1>2. /\ <<n>> \in Seq(Message) /\ Only(<<n>>, {"sign"}) /\ OneSign(<<n>>)
  BY <1>1, OnlyOne, OneSignOne
<1>3. <<o>> \in Seq(Message) /\ Only(<<o>>, {"ok"})
  BY <1>1, OnlyOne
<1>4. <<q, o>> \in Seq(Message) /\ Only(<<q, o>>, {"Pause", "ok"})
  BY <1>1 DEF Only
<1>5. ASSUME NEW s \in Seq(Message), Only(s, {"sign"})
      PROVE  PauseFirst(s \o <<q, o>>)
  BY <1>1, <1>5, PauseFirstOk
<1> QED
  BY <1>2, <1>3, <1>4, <1>5 DEF n, o, q

\* Each message the handshake may read.
LEMMA HandshakeReadOrderly ==
    ASSUME IdsFit, SocketInv, NEW g \in Sockets, HandshakeRead(g)
    PROVE  Orderly'
<1> DEFINE y == wire[g]["server"]
           x == wire[g]["client"]
           m == Head(y)
           rest == [wire EXCEPT ![g]["server"] = Tail(@)]
<1>1. /\ handshake[g] \in {"waitAuth", "waitType"} /\ y # <<>>
      /\ UNCHANGED <<phase, controlBuffer>>
  BY DEF HandshakeRead
<1>2. /\ x \in Seq(Message) /\ y \in Seq(Message)
      /\ Only(x, Answered(handshake[g])) /\ OneSign(x)
      /\ "server" \in Ends /\ "client" \in Ends
  BY TwoEnds, SocketTypes DEF SocketInv, Orderly, Lines, Line
<1>3. CASE /\ m.type = "auth" /\ handshake[g] = "waitAuth"
           /\ handshake' = [handshake EXCEPT ![g] = "waitType"]
           /\ wire' = WireAfter(rest, g, "client", <<Plain("sign", 0)>>)
           /\ UNCHANGED <<writer, paused, socket, alive>>
           /\ UNCHANGED protoVars
  <2>1. wire' = AnsweredWire(g, <<Plain("sign", 0)>>)
    BY <1>3 DEF AnsweredWire
  <2>2. UNCHANGED <<writer, paused, socket, alive, isReconnecting,
                    outgoingUnackMsg, outgoingMsgId, incomingMsgId, phase>>
    BY <1>1, <1>3 DEF protoVars
  <2> QED
    BY <1>1, <1>3, <2>1, <2>2, AnswerTypes, AnswerOrderly
<1>4. CASE /\ m.type = "connectionType" /\ handshake[g] = "waitType"
           /\ handshake' = [handshake EXCEPT ![g] = "handover"]
           /\ wire' = WireAfter(rest, g, "client",
                                <<Plain("Pause", 0), Plain("ok", 0)>>)
           /\ UNCHANGED <<writer, paused, socket, alive>>
           /\ UNCHANGED protoVars
  <2>1. wire' = AnsweredWire(g, <<Plain("Pause", 0), Plain("ok", 0)>>)
    BY <1>4 DEF AnsweredWire
  <2>2. UNCHANGED <<writer, paused, socket, alive, isReconnecting,
                    outgoingUnackMsg, outgoingMsgId, incomingMsgId, phase>>
    BY <1>1, <1>4 DEF protoVars
  <2> QED
    BY <1>1, <1>4, <2>1, <2>2, AnswerTypes, AnswerOrderly
<1>5. CASE /\ m.type = "connectionType" /\ handshake[g] = "waitType"
           /\ handshake' = [handshake EXCEPT ![g] = "done"]
           /\ AcceptReconnection(g,
                  WireAfter(rest, g, "client", <<Plain("ok", 0)>>), <<>>)
  <2> DEFINE a == <<Plain("ok", 0)>>
             w == AnsweredWire(g, a)
  <2>1. /\ a \in Seq(Message) /\ Only(a, {"ok"})
    BY AnswerTypes
  <2>2. AcceptReconnection(g, w, <<>>)
    BY <1>5 DEF AnsweredWire
  <2> HIDE DEF a
  <2>3. /\ w \in Wires
        /\ \A h \in Sockets, r \in Ends : h # g => w[h][r] = wire[h][r]
        /\ w[g]["server"] = Tail(wire[g]["server"])
        /\ w[g]["client"] = x \/ w[g]["client"] = x \o a
    BY <1>1, <2>1, AnsweredWireFacts
  <2> HIDE DEF x, w
  <2>4. Only(x, {"sign"}) /\ Only(x, {"sign", "Pause", "ok"})
    BY <1>2, <1>5, OnlyMore DEF Answered
  <2>5. Only(w[g]["client"], {"sign", "Pause", "ok"})
    <3>1. Only(a, {"sign", "Pause", "ok"})
      BY <2>1, OnlyMore
    <3>2. Only(x \o a, {"sign", "Pause", "ok"})
      BY <1>2, <2>1, <2>4, <3>1, OnlyConcat
    <3> QED
      BY <2>3, <2>4, <3>2
  <2>6. OneSign(w[g]["client"])
    <3>1. OneSign(x \o a)
      BY <1>2, <2>1, OneSignConcat
    <3> QED
      BY <1>2, <2>3, <3>1
  <2>7. ASSUME phase = "awaitSign" PROVE g # Newest
    <3>1. Only(wire[Newest]["server"], FromClient \ {"connectionType"})
      BY <2>7 DEF SocketInv, Orderly, Dialogue, Asking
    <3>2. ASSUME Only(y, FromClient \ {"connectionType"})
          PROVE  m.type # "connectionType"
      <4>1. m.type \in FromClient \ {"connectionType"}
        BY <1>1, <1>2, <3>2, OnlyTail
      <4> QED
        BY <4>1
    <3> QED
      BY <1>5, <3>1, <3>2
  <2>8. ASSUME g = Newest, phase \in {"signing", "awaitOk"}
        PROVE  Only(w[g]["client"], FromServer \ {"sign"})
    <3> DEFINE T == FromServer \ {"sign"}
    <3>1. Only(x, T)
      BY <2>8 DEF SocketInv, Orderly, Dialogue, Answering, x
    <3>2. Only(a, T)
      <4>1. {"ok"} \subseteq T
        BY DEF FromServer, MsgTypes, ControlTypes
      <4> QED
        BY <2>1, <4>1, OnlyMore
    <3> HIDE DEF T
    <3>3. Only(x \o a, T)
      BY <1>2, <2>1, <3>1, <3>2, OnlyConcat
    <3> QED
      BY <2>3, <3>1, <3>3 DEF T
  <2>9. OkSeq(<<>>, outgoingMsgId["server"], incomingMsgId["server"])
        /\ Only(<<>>, {"Resume"})
    BY <1>2, SocketTypes, OkEmpty, OnlyEmpty
  <2> QED
    BY <1>1, <1>5, <2>2, <2>3, <2>5, <2>6, <2>7, <2>8, <2>9, AcceptOrderly
<1>6. CASE /\ wire' = rest
           /\ UNCHANGED <<writer, paused, socket, alive, handshake>>
           /\ UNCHANGED protoVars
  <2>1. UNCHANGED <<isReconnecting, outgoingUnackMsg, outgoingMsgId,
                    incomingMsgId>>
    BY <1>6 DEF protoVars
  <2> QED
    BY <1>1, <1>6, <2>1, LostOrderly
<1> QED
  BY <1>3, <1>4, <1>5, <1>6 DEF HandshakeRead

\* The extension host process takes over; and what was lost meanwhile.
LEMMA HandoverOrderly ==
    ASSUME IdsFit, SocketInv, NEW g \in Sockets,
           HandoverLoss(g) \/ HandoverDone(g)
    PROVE  Orderly'
<1>1. CASE HandoverLoss(g)
  <2>1. /\ handshake[g] # "done" /\ wire[g]["server"] # <<>>
        /\ wire' = [wire EXCEPT ![g]["server"] = Tail(@)]
        /\ UNCHANGED <<writer, paused, socket, alive, isReconnecting,
                       outgoingUnackMsg, outgoingMsgId, incomingMsgId,
                       phase, handshake>>
    BY <1>1 DEF HandoverLoss, protoVars, loopVars
  <2> QED
    BY <2>1, LostOrderly
<1>2. CASE HandoverDone(g)
  <2> DEFINE f == <<Plain("Resume", 0)>>
  <2>1. /\ handshake[g] = "handover"
        /\ handshake' = [handshake EXCEPT ![g] = "done"]
        /\ AcceptReconnection(g, wire, f)
        /\ UNCHANGED <<phase, controlBuffer>>
    BY <1>2 DEF HandoverDone
  <2>2. Only(f, {"Resume"})
    <3>1. /\ Plain("Resume", 0) \in Message
          /\ Plain("Resume", 0).type \in {"Resume"}
      BY DEF Plain, Message, MsgTypes, PlainTypes
    <3> QED
      BY <3>1, OnlyOne
  <2>3. OkSeq(f, outgoingMsgId["server"], incomingMsgId["server"])
    <3>1. /\ outgoingMsgId["server"] \in Nat /\ incomingMsgId["server"] \in Nat
          /\ 0 \in 0 .. incomingMsgId["server"]
      BY TwoEnds, SocketTypes
    <3> QED
      BY <3>1, OkPlain DEF PlainTypes
  <2> HIDE DEF f
  <2>4. /\ Only(wire[g]["client"], {"sign", "Pause", "ok"})
        /\ OneSign(wire[g]["client"]) /\ wire \in Wires
    BY <2>1, SocketTypes
       DEF SocketInv, Orderly, Lines, Line, Answered, Wires
  <2>5. phase = "awaitSign" => g # Newest
    BY <2>1 DEF SocketInv, Orderly, Dialogue, Asking
  <2>6. g = Newest /\ phase \in {"signing", "awaitOk"}
           => Only(wire[g]["client"], FromServer \ {"sign"})
    BY DEF SocketInv, Orderly, Dialogue, Answering
  <2> QED
    BY <2>1, <2>2, <2>3, <2>4, <2>5, <2>6, AcceptOrderly
<1> QED
  BY <1>1, <1>2

\* A stuttering step.
LEMMA StutterOrderly ==
    ASSUME SocketInv, UNCHANGED vars PROVE Orderly'
<1>1. UNCHANGED <<isReconnecting, outgoingUnackMsg, outgoingMsgId,
                  incomingMsgId, writer, paused, socket, wire, alive, phase,
                  handshake>>
  BY DEF vars
<1>2. Lines'
  BY <1>1 DEF SocketInv, Orderly, Lines, Line
<1>3. Dialogue'
  BY <1>1, DialogueKept
<1>4. Loop'
  BY <1>1, LoopKept
<1>5. Streams'
  BY <1>1, StreamSame DEF Streams
<1> QED
  BY <1>2, <1>3, <1>4, <1>5 DEF Orderly

\* Every step keeps the sockets in order.
LEMMA SocketStep == IdsFit /\ SocketInv /\ [Next]_vars => SocketInv'
<1> SUFFICES ASSUME IdsFit, SocketInv, [Next]_vars PROVE SocketInv'
  OBVIOUS
<1>1. IInv'
  BY NextStep DEF SocketInv
<1>2. ASSUME NEW p \in Ends,
             \/ Send(p) \/ Flush(p) \/ AckTimer(p) \/ KeepAlive(p)
             \/ ReceiveRegular(p) \/ ReceivePlain(p)
             \/ AckCheckTimer(p) \/ SocketClosed(p)
      PROVE  Orderly'
  BY <1>2, SendOrderly, FlushOrderly, AcknowledgeOrderly,
     ReceiveRegularOrderly, ReceivePlainOrderly, TimersAndLossesOrderly
<1>3. ASSUME BeginReconnect \/ SendConnectionType \/ HandshakeTimeout
      PROVE  Orderly'
  BY <1>3, BeginReconnectOrderly, SendConnectionTypeOrderly,
     TimersAndLossesOrderly
<1>4. ASSUME ReceiveControl PROVE Orderly'
  BY <1>4, ReadSignOrderly, ReadOkOrderly, BufferControlOrderly
<1>5. ASSUME NEW g \in Sockets,
             \/ Break(g) \/ HandshakeRead(g) \/ HandoverLoss(g)
             \/ HandoverDone(g)
      PROVE  Orderly'
  BY <1>5, TimersAndLossesOrderly, HandshakeReadOrderly, HandoverOrderly
<1>6. ASSUME UNCHANGED vars PROVE Orderly'
  BY <1>6, StutterOrderly
<1>7. Orderly'
  BY <1>2, <1>3, <1>4, <1>5, <1>6 DEF Next
<1> QED
  BY <1>1, <1>7 DEF SocketInv

-----------------------------------------------------------------------------
(* What follows                                                            *)

\* The sockets, the handshakes on them and the client's loop fit together,
\* whatever breaks: the inductive invariant of the reconnection.
THEOREM SocketsInOrder == IdsFit => (Spec => []SocketInv)
<1> SUFFICES ASSUME IdsFit PROVE Spec => []SocketInv
  OBVIOUS
<1>1. Init => SocketInv
  BY InitSockets
<1>2. SocketInv /\ [Next]_vars => SocketInv'
  BY SocketStep
<1> QED
  BY <1>1, <1>2, PTL DEF Spec

\* No answer to an abandoned handshake reaches the client's current one: the
\* permanent connection failure of readOneControlMessage never happens.
THEOREM StaleAnswersAreHarmless == IdsFit => (Spec => []StaleAnswerNeverFatal)
<1>1. SocketInv => StaleAnswerNeverFatal
  BY DEF SocketInv, Orderly, Loop, StaleAnswerNeverFatal
<1> QED
  BY <1>1, SocketsInOrder, PTL

\* What the server's handshake reads and loses is never a message of the
\* application: the client writes none before it has read the "ok", and the
\* "Pause" in front of the "ok" holds them back during a handover.
THEOREM HandshakesSwallowNothing ==
    IdsFit => (Spec => []HandshakeSwallowsNothing)
<1>1. ASSUME SocketInv PROVE HandshakeSwallowsNothing
  <2> SUFFICES ASSUME NEW g \in Sockets,
                      handshake[g] \in {"waitAuth", "waitType", "handover"},
                      NEW i \in 1 .. Len(wire[g]["server"])
               PROVE  wire[g]["server"][i].type # "Regular"
    BY DEF HandshakeSwallowsNothing
  <2>1. Only(wire[g]["server"], Asked(handshake[g]))
    BY <1>1 DEF SocketInv, Orderly, Lines, Line
  <2> QED
    BY <2>1 DEF Only, Asked
<1> QED
  BY <1>1, SocketsInOrder, PTL

\* A protocol that reads a message has read all those before it, so that
\* the replay request of onMessage is never written.
THEOREM NoReplayIsNeeded == IdsFit => (Spec => []ReplayNeverNeeded)
<1>1. ASSUME SocketInv PROVE ReplayNeverNeeded
  <2> SUFFICES ASSUME NEW p \in Ends, Reading(p),
                      Incoming(p).type = "Regular"
               PROVE  Incoming(p).id <= incomingMsgId[p] + 1
    BY DEF ReplayNeverNeeded
  <2> DEFINE h == socket[p]
             s == wire[h][p]
             t == writer[Peer(p)]
             in == incomingMsgId[p]
  <2>1. /\ h \in Sockets /\ s \in Seq(Message) /\ t \in Seq(Message)
        /\ in \in Nat /\ s # <<>> /\ Head(s).type = "Regular"
        /\ Incoming(p) = Head(s)
    BY <1>1, SocketTypes, PeerFacts DEF Reading, Incoming
  <2>2. NoGap(Coming(h, p), in)
    BY <1>1, <2>1 DEF SocketInv, Orderly, Streams, StreamTo
  <2>3. Coming(h, p) = s \o t \/ Coming(h, p) = s
    BY DEF Coming
  <2> HIDE DEF h, s, t, in
  <2>4. NoGap(s, in)
    BY <2>1, <2>2, <2>3, NoGapConcat
  <2> QED
    BY <2>1, <2>4, NoGapFirst DEF in
<1> QED
  BY <1>1, SocketsInOrder, PTL

\* A client that takes itself for connected has armed the timer of
\* _recvAckCheck, if anything is unacknowledged.
Watched ==
    phase = "up" /\ outgoingMsgId["client"] > outgoingAckId["client"]
        => outgoingAckTimeout["client"]

\* The steps that leave the client's counters and its timer alone.
LEMMA WatchedSame ==
    ASSUME Watched,
           outgoingMsgId'["client"] = outgoingMsgId["client"],
           outgoingAckId'["client"] = outgoingAckId["client"],
           outgoingAckTimeout'["client"] = outgoingAckTimeout["client"],
           phase' = phase \/ phase' # "up"
    PROVE  Watched'
BY DEF Watched

\* An ack can only confirm more.
LEMMA WatchedAck ==
    ASSUME SocketInv, Watched, NEW p \in Ends,
           Reading(p), ProcessAck(p, Incoming(p)),
           UNCHANGED <<phase, outgoingMsgId>>,
           outgoingAckTimeout["client"] => outgoingAckTimeout'["client"]
    PROVE  Watched'
<1>1. /\ outgoingAckId \in [Ends -> Nat] /\ outgoingMsgId["client"] \in Nat
      /\ "client" \in Ends
  BY TwoEnds, TypesKnown DEF SocketInv, TypeOK
<1>2. outgoingAckId'["client"] = outgoingAckId["client"] \/
      (p = "client" /\ outgoingAckId'["client"] = Incoming(p).ack
         /\ Incoming(p).ack > outgoingAckId["client"])
  BY <1>1 DEF ProcessAck
<1>3. CASE outgoingAckId'["client"] = outgoingAckId["client"]
  BY <1>3 DEF Watched
<1>4. CASE /\ Incoming(p).ack > outgoingAckId["client"]
           /\ outgoingAckId'["client"] = Incoming(p).ack
           /\ p = "client"
  <2>1. Incoming(p).ack \in Nat
    BY ConsumeOk DEF SocketInv, IInv, Ok, Message
  <2> QED
    BY <1>1, <1>4, <2>1 DEF Watched
<1> QED
  BY <1>2, <1>3, <1>4

\* Every step keeps the watch.
LEMMA WatchedStep == SocketInv /\ Watched /\ [Next]_vars => Watched'
<1> SUFFICES ASSUME SocketInv, Watched, [Next]_vars PROVE Watched'
  OBVIOUS
<1>1. /\ "client" \in Ends /\ "server" \in Ends
      /\ outgoingMsgId \in [Ends -> Nat] /\ outgoingAckId \in [Ends -> Nat]
      /\ outgoingAckTimeout \in [Ends -> BOOLEAN]
      /\ phase = "up" => ~isReconnecting["client"]
      /\ \A p \in Ends : p # "client" => p = "server"
  BY TwoEnds, TypesKnown DEF SocketInv, TypeOK, Orderly, Loop
<1>2. ASSUME NEW p \in Ends, Send(p) PROVE Watched'
  <2>1. CASE p = "client"
    <3>1. CASE isReconnecting["client"]
      <4>1. phase' = phase
        BY <1>2 DEF Send, loopVars
      <4> QED
        BY <1>1, <3>1, <4>1 DEF Watched
    <3>2. CASE ~isReconnecting["client"]
      <4>1. /\ ArmsAckCheck("client", outgoingMsgId["client"] + 1,
                            outgoingAckId["client"], FALSE)
            /\ outgoingMsgId' = [outgoingMsgId EXCEPT
                                    !["client"] = outgoingMsgId["client"] + 1]
            /\ outgoingAckId' = outgoingAckId
        BY <1>2, <2>1, <3>2 DEF Send, WritesNow
      <4> QED
        BY <1>1, <4>1 DEF ArmsAckCheck, Watched
    <3> QED
      BY <3>1, <3>2
  <2>2. CASE p # "client"
    <3>1. /\ phase' = phase /\ outgoingAckId' = outgoingAckId
          /\ outgoingMsgId'["client"] = outgoingMsgId["client"]
      BY <1>1, <1>2, <2>2 DEF Send, loopVars
    <3>2. outgoingAckTimeout'["client"] = outgoingAckTimeout["client"]
      BY <1>1, <1>2, <2>2 DEF Send, ArmsAckCheck
    <3> QED
      BY <3>1, <3>2, WatchedSame
  <2> QED
    BY <2>1, <2>2
<1>3. ASSUME NEW p \in Ends, Flush(p) \/ AckTimer(p) \/ KeepAlive(p)
      PROVE  Watched'
  BY <1>3, WatchedSame DEF Flush, AckTimer, KeepAlive, protoVars, loopVars
<1>4. ASSUME NEW p \in Ends, ReceiveRegular(p) PROVE Watched'
  <2>1. /\ Reading(p) /\ ProcessAck(p, Incoming(p))
        /\ UNCHANGED <<phase, outgoingMsgId, outgoingAckTimeout>>
    BY <1>4 DEF ReceiveRegular, loopVars
  <2> QED
    BY <2>1, WatchedAck
<1>5. ASSUME NEW p \in Ends, ReceivePlain(p) PROVE Watched'
  <2>1. /\ Reading(p) /\ ProcessAck(p, Incoming(p))
        /\ UNCHANGED <<phase, outgoingMsgId>>
    BY <1>5 DEF ReceivePlain, loopVars
  <2>2. outgoingAckTimeout["client"] => outgoingAckTimeout'["client"]
    BY <1>1, <1>5 DEF ReceivePlain, ArmsAckCheck
  <2> QED
    BY <2>1, <2>2, WatchedAck
<1>6. ASSUME NEW p \in Ends, AckCheckTimer(p) PROVE Watched'
  <2>1. CASE p = "client"
    <3>1. /\ outgoingMsgId' = outgoingMsgId /\ outgoingAckId' = outgoingAckId
          /\ \/ outgoingMsgId["client"] <= outgoingAckId["client"]
             \/ isReconnecting["client"] /\ phase' = phase
             \/ phase' # "up"
      BY <1>6, <2>1 DEF AckCheckTimer
    <3> QED
      BY <1>1, <3>1 DEF Watched
  <2>2. CASE p # "client"
    <3>1. /\ outgoingMsgId' = outgoingMsgId /\ outgoingAckId' = outgoingAckId
          /\ outgoingAckTimeout'["client"] = outgoingAckTimeout["client"]
          /\ phase' = phase
      BY <1>1, <1>6, <2>2 DEF AckCheckTimer
    <3> QED
      BY <3>1, WatchedSame
  <2> QED
    BY <2>1, <2>2
<1>7. ASSUME NEW p \in Ends, SocketClosed(p) PROVE Watched'
  <2>1. /\ UNCHANGED <<outgoingMsgId, outgoingAckId, outgoingAckTimeout>>
        /\ phase' = phase \/ phase' # "up"
    BY <1>7 DEF SocketClosed, protoVars
  <2> QED
    BY <2>1, WatchedSame
<1>8. ASSUME BeginReconnect \/ SendConnectionType \/ HandshakeTimeout
      PROVE  Watched'
  <2>1. /\ UNCHANGED <<outgoingMsgId, outgoingAckId, outgoingAckTimeout>>
        /\ phase' # "up"
    BY <1>8 DEF BeginReconnect, SendConnectionType, HandshakeTimeout,
                protoVars, AwaitSign
  <2> QED
    BY <2>1, WatchedSame
<1>9. ASSUME ReceiveControl PROVE Watched'
  <2>1. CASE phase = "awaitOk"
    <3>1. /\ ArmsAckCheck("client", outgoingMsgId["client"],
                          outgoingAckId["client"], FALSE)
          /\ UNCHANGED <<outgoingMsgId, outgoingAckId>>
      BY <1>9, <2>1 DEF ReceiveControl, EndAcceptReconnection
    <3> QED
      BY <1>1, <3>1 DEF ArmsAckCheck, Watched
  <2>2. CASE phase # "awaitOk"
    <3>1. /\ UNCHANGED <<outgoingMsgId, outgoingAckId, outgoingAckTimeout>>
          /\ phase' = phase \/ phase' # "up"
      BY <1>9, <2>2 DEF ReceiveControl, protoVars, AwaitSign
    <3> QED
      BY <3>1, WatchedSame
  <2> QED
    BY <2>1, <2>2
<1>10. ASSUME NEW g, NEW w, NEW f, AcceptReconnection(g, w, f),
              phase' = phase
       PROVE  Watched'
  <2>1. /\ UNCHANGED <<outgoingMsgId, outgoingAckId>>
        /\ outgoingAckTimeout'["client"] = outgoingAckTimeout["client"]
    BY <1>1, <1>10
       DEF AcceptReconnection, EndAcceptReconnection, ArmsAckCheck
  <2> QED
    BY <1>10, <2>1, WatchedSame
<1>11. ASSUME NEW g \in Sockets, HandshakeRead(g) PROVE Watched'
  <2>1. \/ /\ UNCHANGED <<outgoingMsgId, outgoingAckId, outgoingAckTimeout>>
           /\ phase' = phase
        \/ \E w, f : AcceptReconnection(g, w, f) /\ phase' = phase
    BY <1>11 DEF HandshakeRead, protoVars
  <2> QED
    BY <1>10, <2>1, WatchedSame
<1>12. ASSUME NEW g \in Sockets,
              Break(g) \/ HandoverLoss(g) \/ HandoverDone(g)
       PROVE  Watched'
  <2>1. \/ /\ UNCHANGED <<outgoingMsgId, outgoingAckId, outgoingAckTimeout>>
           /\ phase' = phase
        \/ \E w, f : AcceptReconnection(g, w, f) /\ phase' = phase
    BY <1>12 DEF Break, HandoverLoss, HandoverDone, protoVars, loopVars
  <2> QED
    BY <1>10, <2>1, WatchedSame
<1>13. ASSUME UNCHANGED vars PROVE Watched'
  BY <1>13, WatchedSame DEF vars
<1> QED
  BY <1>2, <1>3, <1>4, <1>5, <1>6, <1>7, <1>8, <1>9, <1>11, <1>12, <1>13
     DEF Next

\* A client that takes itself for connected is never left mute in a
\* reconnection, and never without the timer that finds out otherwise.
THEOREM ConnectedIsAlwaysWatched == IdsFit => (Spec => []ConnectedIsWatched)
<1> SUFFICES ASSUME IdsFit PROVE Spec => []ConnectedIsWatched
  OBVIOUS
<1>1. Init => Watched
  BY TwoEnds DEF Init, Watched
<1>2. SocketInv /\ Watched /\ [Next]_vars => Watched'
  BY WatchedStep
<1>3. SocketInv /\ Watched => ConnectedIsWatched
  BY DEF SocketInv, Orderly, Loop, Watched, ConnectedIsWatched
<1> QED
  BY <1>1, <1>2, <1>3, SocketsInOrder, PTL DEF Spec
=============================================================================
