--------------------------- MODULE AgentHostSync ---------------------------
(***************************************************************************)
(* How a renderer keeps its copies of the agent host's state in step with  *)
(* the host across lost connections: the client's write-ahead              *)
(* subscriptions (common/state/agentSubscription.ts) and reconnection      *)
(* (browser/remoteAgentHostProtocolClient.ts), the server's sequencer      *)
(* (node/agentHostStateManager.ts), connections and replay buffer          *)
(* (node/protocolServerHandler.ts) and dispatch queue                      *)
(* (node/agentService.ts).                                                 *)
(*                                                                         *)
(* One client is subscribed to all channels.  Envelopes are the elements   *)
(* of log, and the serverSeq of an envelope is its index.  The state of a  *)
(* channel is the sequence of envelopes applied to it, whatever the        *)
(* reducers make of them.  A transport is one FIFO stream per direction.   *)
(***************************************************************************)
EXTENDS Integers, Sequences, SequencesExt

CONSTANTS
    Channels,
    Resent,          \* the channels of session and chat subscriptions; the
                     \* others are annotations and changeset subscriptions
    ReplayCapacity,  \* REPLAY_BUFFER_CAPACITY
    Restore,         \* "warm": every resource of a reconnection is in memory
                     \* "cold": some are restored first, "failing": or not
    Async,           \* some actions need an asynchronous prelude
    Forgets,         \* the server may forget a client that is away
    Overtakes,       \* a new transport may be read before an older one
    MaxActions,      \* bound: actions the client dispatches
    MaxEvents,       \* bound: actions the server dispatches
    MaxTransports    \* bound: transports opened (the last one is not lost)

ASSUME ConstantsAssumption ==
    /\ IsFiniteSet(Channels)
    /\ Resent \subseteq Channels
    /\ ReplayCapacity \in Nat \ {0}
    /\ Restore \in {"warm", "cold", "failing"}
    /\ {Async, Forgets, Overtakes} \subseteq BOOLEAN
    /\ {MaxActions, MaxEvents} \subseteq Nat
    /\ MaxTransports \in Nat \ {0}

VARIABLES
    \* the server
    log,            \* every envelope emitted so far
    known,          \* _clients has a record of the client
    forgotten,      \* (history) it has been without one
    connections,    \* the record's connections, in order
    subscriptions,  \* subscriptions[t]: those of the connection on t
    restoring,      \* restoring[t]: the reconnect request being answered
    dispatchQueue,  \* the actions waiting in _clientDispatchQueues
    queueing,       \* _clientDispatchQueues has an entry for the client
    \* the transports
    toServer, toClient, open,
    \* the client
    transport, state, serverSeq, confirmed, pending, failed, outbox, clientSeq

serverVars == <<log, known, forgotten, connections, subscriptions,
                restoring, dispatchQueue, queueing>>
clientVars == <<transport, state, serverSeq, confirmed, pending, failed,
                outbox, clientSeq>>
vars == <<log, known, forgotten, connections, subscriptions, restoring,
          dispatchQueue, queueing, toServer, toClient, open, transport, state,
          serverSeq, confirmed, pending, failed, outbox, clientSeq>>

Transports == 1 .. MaxTransports

Envelope == [channel : Channels, clientSeq : Nat, rejected : BOOLEAN]

Dispatch(c, n) == [kind |-> "dispatch", channel |-> c, clientSeq |-> n]

\* The elements of s that are in S, in order.  (SelectSeq takes an operator,
\* about which nothing can be proved by induction.)
Selected(s, S) ==
    LET selected[i \in 0 .. Len(s)] ==
            IF i = 0 THEN <<>>
            ELSE IF s[i] \in S THEN Append(selected[i - 1], s[i])
            ELSE selected[i - 1]
    IN selected[Len(s)]

Numbers(n) == [i \in 1 .. n |-> i]

\* The server's state of channel c when its sequence number was n.
StateAt(c, n) ==
    LET applied[i \in 0 .. n] ==
            IF i = 0 THEN <<>>
            ELSE IF log[i].channel = c /\ ~log[i].rejected
            THEN Append(applied[i - 1], i)
            ELSE applied[i - 1]
    IN applied[n]

-----------------------------------------------------------------------------
(* The client's subscriptions                                              *)

Without(s, x) == Selected(s, ToSet(s) \ {x})

\* _reconcile: what envelope number n makes of a channel's confirmed state
\* and pending actions.  An action of the server has clientSeq 0.  (A chat also
\* promotes a pending turn start when the server ends that turn: left out.)
ReconcileKeepsPending(view, n) ==
    [view EXCEPT !.confirmed = IF log[n].rejected THEN @ ELSE Append(@, n)]
ReconcileAppliesRejected(view, n) ==
    [confirmed |-> Append(view.confirmed, n),
     pending |-> Without(view.pending, log[n].clientSeq)]
Reconcile(view, n) ==
    [confirmed |-> IF log[n].rejected THEN view.confirmed
                   ELSE Append(view.confirmed, n),
     pending |-> Without(view.pending, log[n].clientSeq)]

View(c) == [confirmed |-> confirmed[c], pending |-> pending[c]]

\* receiveEnvelope, for each envelope of ns in turn.
ViewAfter(c, ns) ==
    LET view[i \in 0 .. Len(ns)] ==
            IF i = 0 THEN View(c)
            ELSE IF log[ns[i]].channel = c THEN Reconcile(view[i - 1], ns[i])
            ELSE view[i - 1]
    IN view[Len(ns)]

ReceiveEnvelopes(ns) ==
    /\ confirmed' = [c \in Channels |-> ViewAfter(c, ns).confirmed]
    /\ pending' = [c \in Channels |-> ViewAfter(c, ns).pending]

-----------------------------------------------------------------------------
(* Messages                                                                *)

\* A write to a transport that is lost vanishes.
SentToServer(t, msgs) ==
    IF open[t] THEN [toServer EXCEPT ![t] = @ \o msgs] ELSE toServer

SentToClient(t, msgs) ==
    IF open[t] THEN [toClient EXCEPT ![t] = @ \o msgs] ELSE toClient

Incoming == Head(toClient[transport])
ClientReads(kind) ==
    /\ toClient[transport] # <<>>
    /\ Incoming.kind = kind
Consumed == [toClient EXCEPT ![transport] = Tail(@)]

\* Unless transports overtake one another, the server is done with the older
\* ones: it has read what they carried or seen them close.
ServerReads(t, kind) ==
    /\ toServer[t] # <<>>
    /\ Head(toServer[t]).kind = kind
    /\ Overtakes \/ \A u \in 1 .. t - 1 : toServer[u] = <<>>

-----------------------------------------------------------------------------
(* The server                                                              *)

\* _broadcastAction: to the latest connection, if it is subscribed.
Recipients(c) ==
    IF connections # <<>> /\ c \in subscriptions[Last(connections)]
    THEN {Last(connections)} ELSE {}

\* _applyAndEmit and rejectClientAction: number the envelope, keep it for
\* replays, broadcast it.  net is what travels to the client.
Emit(net, c, n, rejected) ==
    /\ log' = Append(log, [channel |-> c, clientSeq |-> n,
                           rejected |-> rejected])
    /\ toClient' =
          [t \in Transports |->
             IF t \in Recipients(c) /\ open[t]
             THEN Append(net[t], [kind |-> "action", seq |-> Len(log) + 1])
             ELSE net[t]]

\* dispatchServerAction: a step of an agent, a tool, another client.
ServerAction(c) ==
    /\ Cardinality({i \in DOMAIN log : log[i].clientSeq = 0}) < MaxEvents
    /\ Emit(toClient, c, 0, FALSE)
    /\ UNCHANGED <<known, forgotten, connections, subscriptions, restoring,
                   dispatchQueue, queueing, toServer, open>>
    /\ UNCHANGED clientVars

\* An action is dispatched: applied, or rejected, which happens to
\* session and chat actions only.
DispatchNow(net, m) ==
    \E rejected \in {FALSE, m.channel \in Resent} :
        Emit(net, m.channel, m.clientSeq, rejected)

\* dispatchAction: at once, or through the client's queue when the action
\* needs an asynchronous prelude or the client has an entry in the map of
\* queues.  Nothing removes the entry: when the queue drains, it is compared
\* with a promise that was never put into the map.
ReceiveDispatch(t) ==
    /\ ServerReads(t, "dispatch")
    /\ t \in ToSet(connections)
    /\ LET m == Head(toServer[t])
       IN \/ /\ ~queueing
             /\ DispatchNow(toClient, m)
             /\ UNCHANGED <<dispatchQueue, queueing>>
          \/ \E prelude \in {FALSE, Async} :
             /\ queueing \/ prelude
             /\ dispatchQueue' = Append(dispatchQueue,
                                       [action |-> m, prelude |-> prelude])
             /\ queueing' = TRUE
             /\ UNCHANGED <<log, toClient>>
    /\ toServer' = [toServer EXCEPT ![t] = Tail(@)]
    /\ UNCHANGED <<known, forgotten, connections, subscriptions, restoring,
                   open>>
    /\ UNCHANGED clientVars

\* The first queued action is dispatched, or its prelude fails, which is only
\* logged.
QueueStep ==
    /\ dispatchQueue # <<>>
    /\ dispatchQueue' = Tail(dispatchQueue)
    /\ LET m == Head(dispatchQueue)
       IN \/ DispatchNow(toClient, m.action)
          \/ m.prelude /\ UNCHANGED <<log, toClient>>
    /\ UNCHANGED <<known, forgotten, connections, subscriptions, restoring,
                   queueing, toServer, open>>
    /\ UNCHANGED clientVars

-----------------------------------------------------------------------------
(* Reconnecting, on the server                                             *)

OldestBuffered ==
    IF log = <<>> THEN 0 ELSE Max({1, Len(log) - ReplayCapacity + 1})

\* _handleReconnect: whether the replay buffer still reaches back to what
\* the client has seen.
CanReplayOffByOne(lastSeen) == lastSeen + 2 >= OldestBuffered
CanReplay(lastSeen) == lastSeen >= OldestBuffered

NoJob == [active |-> FALSE, lastSeen |-> 0, canReplay |-> FALSE,
          todo |-> {}, snapshots |-> <<>>]

\* What is replayed to a connection with the given subscriptions.
ReplayedFromNext(lastSeen, subs) ==
    Selected(Numbers(Len(log)),
             {n \in 1 .. Len(log) : /\ n > lastSeen + 1 /\ n >= OldestBuffered
                                    /\ log[n].channel \in subs})
Replayed(lastSeen, subs) ==
    Selected(Numbers(Len(log)),
             {n \in 1 .. Len(log) : /\ n > lastSeen /\ n >= OldestBuffered
                                    /\ log[n].channel \in subs})

\* The end of _restoreReconnectSubscriptions: the answer to the request.
Answer(job, subs) ==
    IF job.canReplay
    THEN [kind |-> "replay", seqs |-> Replayed(job.lastSeen, subs),
          missing |-> Channels \ subs]
    ELSE [kind |-> "snapshot", seqs |-> job.snapshots]

\* _handleReconnect.  With everything in memory the answer is sent before
\* anything else happens.
ReceiveReconnect(t) ==
    /\ ServerReads(t, "reconnect")
    /\ LET lastSeen == Head(toServer[t]).seq
           job == [active |-> TRUE, lastSeen |-> lastSeen,
                   canReplay |-> CanReplay(lastSeen), todo |-> Channels,
                   snapshots |-> <<>>]
           now == [c \in Channels |-> Len(log)]
       IN \/ /\ ~known
             /\ toClient' = SentToClient(t, <<[kind |-> "notFound"]>>)
             /\ UNCHANGED <<connections, subscriptions, restoring>>
          \/ /\ known /\ Restore = "warm"
             /\ connections' = Append(connections, t)
             /\ subscriptions' = [subscriptions EXCEPT ![t] = Channels]
             /\ toClient' = SentToClient(t,
                    <<Answer([job EXCEPT !.snapshots = now], Channels)>>)
             /\ UNCHANGED restoring
          \/ /\ known /\ Restore # "warm"
             /\ connections' = Append(connections, t)
             /\ restoring' = [restoring EXCEPT ![t] = job]
             /\ UNCHANGED <<subscriptions, toClient>>
    /\ toServer' = [toServer EXCEPT ![t] = Tail(@)]
    /\ UNCHANGED <<log, known, forgotten, dispatchQueue, queueing, open>>
    /\ UNCHANGED clientVars

\* One resource of the reconnect request is in memory again and the
\* connection subscribed to it, or it could not be restored.
RestoreChannel(t, c) ==
    /\ c \in restoring[t].todo
    /\ \/ /\ restoring' = [restoring EXCEPT
                 ![t].todo = @ \ {c},
                 ![t].snapshots = [d \in DOMAIN @ \cup {c} |->
                                      IF d = c THEN Len(log) ELSE @[d]]]
          /\ subscriptions' = [subscriptions EXCEPT ![t] = @ \cup {c}]
       \/ /\ Restore = "failing"
          /\ restoring' = [restoring EXCEPT ![t].todo = @ \ {c}]
          /\ UNCHANGED subscriptions
    /\ UNCHANGED <<log, known, forgotten, connections, dispatchQueue, queueing,
                   toServer, toClient, open>>
    /\ UNCHANGED clientVars

AnswerReconnect(t) ==
    /\ restoring[t].active
    /\ restoring[t].todo = {}
    /\ toClient' = SentToClient(t, <<Answer(restoring[t], subscriptions[t])>>)
    /\ restoring' = [restoring EXCEPT ![t] = NoJob]
    /\ UNCHANGED <<log, known, forgotten, connections, subscriptions,
                   dispatchQueue, queueing, toServer, open>>
    /\ UNCHANGED clientVars

\* _handleInitialize of a client the server has forgotten.
ReceiveInitialize(t) ==
    /\ ServerReads(t, "initialize")
    /\ known' = TRUE
    /\ connections' = Append(connections, t)
    /\ subscriptions' = [subscriptions EXCEPT ![t] = Channels]
    /\ toClient' = SentToClient(t,
                        <<[kind |-> "initialized", seq |-> Len(log)]>>)
    /\ toServer' = [toServer EXCEPT ![t] = Tail(@)]
    /\ UNCHANGED <<log, forgotten, restoring, dispatchQueue, queueing, open>>
    /\ UNCHANGED clientVars

\* _releaseClientSubscriptions of the connection on t.
ReleasedEverywhere(t) == [u \in Transports |-> {}]
Released(t) == [subscriptions EXCEPT ![t] = {}]

\* transport.onClose: whatever the transport still carried is gone.
ServerClosed(t) ==
    /\ ~open[t]
    /\ t \in ToSet(connections) \/ toServer[t] # <<>>
    /\ connections' = Without(connections, t)
    /\ subscriptions' = Released(t)
    /\ toServer' = [toServer EXCEPT ![t] = <<>>]
    /\ UNCHANGED <<log, known, forgotten, restoring, dispatchQueue, queueing,
                   toClient, open>>
    /\ UNCHANGED clientVars

\* _pruneClientRecords.
Forget ==
    /\ Forgets /\ known /\ connections = <<>>
    /\ known' = FALSE
    /\ forgotten' = TRUE
    /\ UNCHANGED <<log, connections, subscriptions, restoring, dispatchQueue,
                   queueing, toServer, toClient, open>>
    /\ UNCHANGED clientVars

-----------------------------------------------------------------------------
(* The client                                                              *)

\* dispatch: the action is pending until the server echoes it, and is sent
\* now or queued for the next transport.
ClientDispatch(c) ==
    /\ clientSeq < MaxActions
    /\ clientSeq' = clientSeq + 1
    /\ pending' = [pending EXCEPT ![c] = Append(@, clientSeq')]
    /\ IF state = "connected"
       THEN /\ toServer' = SentToServer(transport, <<Dispatch(c, clientSeq')>>)
            /\ UNCHANGED outbox
       ELSE /\ outbox' = Append(outbox, Dispatch(c, clientSeq'))
            /\ UNCHANGED toServer
    /\ UNCHANGED <<toClient, open, transport, state, serverSeq, confirmed,
                   failed>>
    /\ UNCHANGED serverVars

\* The network drops the transport; each end finds out when it does.
Lose ==
    /\ open[transport]
    /\ transport < MaxTransports
    /\ open' = [open EXCEPT ![transport] = FALSE]
    /\ UNCHANGED <<toServer, toClient>>
    /\ UNCHANGED serverVars
    /\ UNCHANGED clientVars

\* _handleTransportClose: schedule a reconnection, or abort the attempt
\* being made, which schedules the next one.
TransportClosed ==
    /\ ~open[transport]
    /\ state # "waiting"
    /\ state' = "waiting"
    /\ toClient' = [toClient EXCEPT ![transport] = <<>>]
    /\ UNCHANGED <<toServer, open, transport, serverSeq, confirmed, pending,
                   failed, outbox, clientSeq>>
    /\ UNCHANGED serverVars

\* _attemptReconnect: a new transport takes the place of the old one.
AttemptReconnect ==
    /\ state = "waiting"
    /\ transport < MaxTransports
    /\ transport' = transport + 1
    /\ open' = [open EXCEPT ![transport] = FALSE, ![transport'] = TRUE]
    /\ toServer' = [toServer EXCEPT ![transport'] =
                        <<[kind |-> "reconnect", seq |-> serverSeq]>>]
    /\ state' = "reconnecting"
    /\ UNCHANGED <<toClient, serverSeq, confirmed, pending, failed, outbox,
                   clientSeq>>
    /\ UNCHANGED serverVars

\* _serverSeq once the client has seen the envelopes of seqs.
Seen(seqs) == Max({serverSeq} \cup seqs)

\* An envelope arrives.  Nothing compares it with what was applied before.
ReceiveAction ==
    /\ ClientReads("action")
    /\ toClient' = Consumed
    /\ serverSeq' = Seen({Incoming.seq})
    /\ ReceiveEnvelopes(<<Incoming.seq>>)
    /\ UNCHANGED <<toServer, open, transport, state, failed, outbox,
                   clientSeq>>
    /\ UNCHANGED serverVars

\* The pending actions _drainAfterReconnect sends again: those of session
\* and chat subscriptions that are not in the outbox as well.
ResentAlways(c, p) == [i \in 1 .. Len(p) |-> Dispatch(c, p[i])]
ResentActions(c, p) ==
    Selected([i \in 1 .. Len(p) |-> Dispatch(c, p[i])],
             {Dispatch(c, n) : n \in ToSet(p)} \ ToSet(outbox))

\* _drainAfterReconnect: what was pending before, then the outbox.
DrainedOutboxFirst(p) ==
    outbox \o FlattenSeq([i \in 1 .. Len(SetToSeq(Resent)) |->
        LET c == SetToSeq(Resent)[i] IN ResentActions(c, p[c])])
Drained(p) ==
    FlattenSeq([i \in 1 .. Len(SetToSeq(Resent)) |->
        LET c == SetToSeq(Resent)[i] IN ResentActions(c, p[c])]) \o outbox

DrainAfterReconnect ==
    /\ toServer' = SentToServer(transport, Drained(pending'))
    /\ outbox' = <<>>
    /\ state' = "connected"

\* _applyReconnectResult: what was missed goes through the usual path.
ReceiveReplay ==
    /\ ClientReads("replay")
    /\ state = "reconnecting"
    /\ toClient' = Consumed
    /\ LET m == Incoming
       IN /\ serverSeq' = Seen(ToSet(m.seqs))
          /\ confirmed' = [c \in Channels |-> ViewAfter(c, m.seqs).confirmed]
          /\ pending' = [c \in Channels |->
                           IF c \in m.missing \cap Resent THEN <<>>
                           ELSE ViewAfter(c, m.seqs).pending]
          /\ failed' = failed \cup m.missing
    /\ DrainAfterReconnect
    /\ UNCHANGED <<open, transport, clientSeq>>
    /\ UNCHANGED serverVars

\* applyReconnectSnapshot for each snapshot of the answer.
ReceiveSnapshots ==
    /\ ClientReads("snapshot")
    /\ state = "reconnecting"
    /\ toClient' = Consumed
    /\ LET seqs == Incoming.seqs
       IN /\ serverSeq' = Seen({seqs[c] : c \in DOMAIN seqs})
          /\ confirmed' = [c \in Channels |-> IF c \in DOMAIN seqs
                              THEN StateAt(c, seqs[c]) ELSE confirmed[c]]
          /\ pending' = [c \in Channels |-> IF c \in DOMAIN seqs \cap Resent
                              THEN <<>> ELSE pending[c]]
          /\ failed' = failed \ DOMAIN seqs
    /\ DrainAfterReconnect
    /\ UNCHANGED <<open, transport, clientSeq>>
    /\ UNCHANGED serverVars

\* _reconnectOrInitialize: the server forgot the client.
ReceiveNotFound ==
    /\ ClientReads("notFound")
    /\ state = "reconnecting"
    /\ toClient' = Consumed
    /\ state' = "initializing"
    /\ toServer' = SentToServer(transport, <<[kind |-> "initialize"]>>)
    /\ UNCHANGED <<open, transport, serverSeq, confirmed, pending, failed,
                   outbox, clientSeq>>
    /\ UNCHANGED serverVars

\* The snapshots of a fresh initialize leave pending actions alone.
ReceiveInitialized ==
    /\ ClientReads("initialized")
    /\ state = "initializing"
    /\ toClient' = Consumed
    /\ serverSeq' = Incoming.seq
    /\ confirmed' = [c \in Channels |-> StateAt(c, Incoming.seq)]
    /\ failed' = {}
    /\ UNCHANGED pending
    /\ DrainAfterReconnect
    /\ UNCHANGED <<open, transport, clientSeq>>
    /\ UNCHANGED serverVars

-----------------------------------------------------------------------------
Init ==
    /\ log = <<>>
    /\ known = TRUE
    /\ forgotten = FALSE
    /\ connections = <<1>>
    /\ subscriptions = [t \in Transports |-> IF t = 1 THEN Channels ELSE {}]
    /\ restoring = [t \in Transports |-> NoJob]
    /\ dispatchQueue = <<>>
    /\ queueing = FALSE
    /\ toServer = [t \in Transports |-> <<>>]
    /\ toClient = [t \in Transports |-> <<>>]
    /\ open = [t \in Transports |-> t = 1]
    /\ transport = 1
    /\ state = "connected"
    /\ serverSeq = 0
    /\ confirmed = [c \in Channels |-> <<>>]
    /\ pending = [c \in Channels |-> <<>>]
    /\ failed = {}
    /\ outbox = <<>>
    /\ clientSeq = 0

ServerNext ==
    \/ \E c \in Channels : ServerAction(c)
    \/ QueueStep
    \/ Forget
    \/ \E t \in Transports :
          \/ ReceiveDispatch(t) \/ ReceiveReconnect(t) \/ ReceiveInitialize(t)
          \/ AnswerReconnect(t) \/ ServerClosed(t)
          \/ \E c \in Channels : RestoreChannel(t, c)

ClientNext ==
    \/ \E c \in Channels : ClientDispatch(c)
    \/ Lose \/ TransportClosed \/ AttemptReconnect
    \/ ReceiveAction \/ ReceiveReplay \/ ReceiveSnapshots
    \/ ReceiveNotFound \/ ReceiveInitialized

Next == ServerNext \/ ClientNext

Spec == Init /\ [][Next]_vars

\* Transports are read, timers fire, restores end.  Nothing makes the user,
\* the agents or the network do anything, or the server forget.
Fairness ==
    /\ WF_vars(QueueStep)
    /\ \A t \in Transports :
          /\ WF_vars(ReceiveDispatch(t)) /\ WF_vars(ReceiveReconnect(t))
          /\ WF_vars(ReceiveInitialize(t)) /\ WF_vars(AnswerReconnect(t))
          /\ WF_vars(ServerClosed(t))
          /\ \A c \in Channels : WF_vars(RestoreChannel(t, c))
    /\ WF_vars(TransportClosed) /\ WF_vars(AttemptReconnect)
    /\ WF_vars(ReceiveAction) /\ WF_vars(ReceiveReplay)
    /\ WF_vars(ReceiveSnapshots) /\ WF_vars(ReceiveNotFound)
    /\ WF_vars(ReceiveInitialized)

LiveSpec == Spec /\ Fairness

-----------------------------------------------------------------------------
(* Properties                                                              *)

\* The envelopes the client has yet to read that apply to channel c.
InFlight(c) ==
    LET arriving == toClient[transport]
        positions ==
            Selected(Numbers(Len(arriving)),
                     {i \in 1 .. Len(arriving) :
                         /\ arriving[i].kind = "action"
                         /\ log[arriving[i].seq].channel = c
                         /\ ~log[arriving[i].seq].rejected})
    IN [j \in 1 .. Len(positions) |-> arriving[positions[j]].seq]

\* While the client is connected, what it has confirmed plus what is on its
\* way to it is the server's state: reconnecting misses nothing, repeats
\* nothing and leaves no channel behind.
InSync ==
    state = "connected" /\ open[transport] =>
        \A c \in Channels \ failed :
            confirmed[c] \o InFlight(c) = StateAt(c, Len(log))

\* The user never sees an action of their own twice: one that is still
\* shown as pending is not part of the confirmed state yet.  (Except that the
\* snapshots of a fresh initialize, and any snapshot of annotations, leave
\* pending what they contain.)
OwnActionShownOnce ==
    ~forgotten =>
    \A c \in Resent : \A i \in 1 .. Len(confirmed[c]) :
        log[confirmed[c][i]].clientSeq \notin ToSet(pending[c])

\* The server applies an action of the client at most once, however often
\* the client has to send it.  (A replay covers every action that was read,
\* but not those read and still queued, nor what the server has forgotten.)
AppliedAtMostOnce ==
    ~forgotten /\ ~queueing =>
    \A i, j \in 1 .. Len(log) :
        /\ i < j
        /\ log[i].clientSeq # 0
        /\ ~log[i].rejected /\ ~log[j].rejected
        => log[i].clientSeq # log[j].clientSeq

\* The server takes the client's actions on a channel in the order in which
\* the user did them, reconnections notwithstanding.  (The same exceptions.)
ActionsInOrder ==
    ~forgotten /\ ~queueing =>
    \A i, j \in 1 .. Len(log) :
        /\ i < j
        /\ log[i].clientSeq # 0 /\ log[j].clientSeq # 0
        /\ log[i].channel = log[j].channel
        => log[i].clientSeq <= log[j].clientSeq

\* A subscription the client holds to be alive is one that the server serves
\* on the client's connection.
LiveSubscriptionsAreServed ==
    state = "connected" /\ open[transport] =>
        Channels \ failed \subseteq subscriptions[transport]

\* No action stays pending for ever once transports stop being lost: each is
\* echoed, rejected or given up, unless the server has stopped serving its
\* channel.
EveryActionSettles ==
    <>[]open[transport] =>
        \A c \in Channels :
            []<>(pending[c] = <<>> \/ c \notin subscriptions[transport])

-----------------------------------------------------------------------------
(* Refinement                                                              *)

\* However often it reconnects, the client follows the server's history.
Follower == INSTANCE LogFollower
    WITH history <- [c \in Channels |-> StateAt(c, Len(log))]
FollowerSpec == Follower!FwSpec
=============================================================================
