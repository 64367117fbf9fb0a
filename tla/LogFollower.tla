---------------------------- MODULE LogFollower ----------------------------
(***************************************************************************)
(* What the agent host's state synchronisation                             *)
(* (src/vs/platform/agentHost) promises a client about each channel it     *)
(* subscribes to: the server's history of a channel only grows, and the    *)
(* client's confirmed state is always one the server was in, which only    *)
(* moves forward.  Connections, replays and snapshots are left out.        *)
(***************************************************************************)
EXTENDS Integers, Sequences

CONSTANT Channels

VARIABLES
    history,    \* history[c]: the actions the server has applied to c
    confirmed   \* confirmed[c]: the ones the client has confirmed

fwVars == <<history, confirmed>>

\* t continues s.
Continues(s, t) == Len(s) <= Len(t) /\ SubSeq(t, 1, Len(s)) = s

FwInit ==
    /\ history = [c \in Channels |-> <<>>]
    /\ confirmed = [c \in Channels |-> <<>>]

\* The server applies one more action to a channel.
FwApply(c) ==
    /\ UNCHANGED confirmed
    /\ Len(history'[c]) = Len(history[c]) + 1
    /\ Continues(history[c], history'[c])
    /\ \A d \in Channels \ {c} : history'[d] = history[d]

\* The client catches up, on any of the channels, with the server.
FwCatchUp ==
    /\ UNCHANGED history
    /\ \A c \in Channels :
          /\ Continues(confirmed[c], confirmed'[c])
          /\ Continues(confirmed'[c], history[c])

FwNext == FwCatchUp \/ \E c \in Channels : FwApply(c)

FwSpec == FwInit /\ [][FwNext]_fwVars
=============================================================================
