-------------------------- MODULE ReliableChannel --------------------------
(***************************************************************************)
(* What PersistentProtocol (src/vs/base/parts/ipc/common/ipc.net.ts)       *)
(* promises to the two ends of a connection, sockets left out: an endless, *)
(* lossless, ordered stream in each direction.  The n-th message an end    *)
(* passes to send() is the number n.                                       *)
(***************************************************************************)
EXTENDS Integers, Sequences

CONSTANT Ends            \* the two ends of the connection

VARIABLES
    sent,       \* sent[p]: how many messages p has passed to send()
    received,   \* received[p]: what p's onMessage event has fired, in order
    forgotten   \* forgotten[p]: how many of its messages p no longer keeps

chVars == <<sent, received, forgotten>>

OtherEnd(p) == CHOOSE q \in Ends : q # p

ChInit ==
    /\ sent = [p \in Ends |-> 0]
    /\ received = [p \in Ends |-> <<>>]
    /\ forgotten = [p \in Ends |-> 0]

ChSend(p) ==
    /\ sent' = [sent EXCEPT ![p] = @ + 1]
    /\ UNCHANGED <<received, forgotten>>

\* The receiver gets exactly the next message it has not seen yet.
ChDeliver(p) ==
    /\ Len(received[p]) < sent[OtherEnd(p)]
    /\ received' = [received EXCEPT ![p] = Append(@, Len(@) + 1)]
    /\ UNCHANGED <<sent, forgotten>>

\* A sender drops copies only of what the other end has received.
ChForget(p) ==
    /\ \E n \in (forgotten[p] + 1) .. Len(received[OtherEnd(p)]) :
          forgotten' = [forgotten EXCEPT ![p] = n]
    /\ UNCHANGED <<sent, received>>

\* An acknowledgement travels on the message it comes with.
ChForgetAndDeliver(p) ==
    /\ \E n \in (forgotten[p] + 1) .. Len(received[OtherEnd(p)]) :
          forgotten' = [forgotten EXCEPT ![p] = n]
    /\ Len(received[p]) < sent[OtherEnd(p)]
    /\ received' = [received EXCEPT ![p] = Append(@, Len(@) + 1)]
    /\ UNCHANGED sent

ChNext ==
    \E p \in Ends :
        ChSend(p) \/ ChDeliver(p) \/ ChForget(p) \/ ChForgetAndDeliver(p)

ChSpec == ChInit /\ [][ChNext]_chVars
=============================================================================
