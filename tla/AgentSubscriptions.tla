------------------------- MODULE AgentSubscriptions -------------------------
(***************************************************************************)
(* Who holds a session of the agent host in memory: the client's reference *)
(* counted subscriptions (AgentSubscriptionManager in common/state/        *)
(* agentSubscription.ts), subscribing and unsubscribing on a connection    *)
(* (node/protocolServerHandler.ts), and the set of subscribers by which    *)
(* the service restores, releases and collects a session                   *)
(* (node/agentService.ts).                                                 *)
(*                                                                         *)
(* There is one session.  Its state is the sequence of envelopes applied   *)
(* to it, and the serverSeq of an envelope is its position.  A client has  *)
(* one connection, which may close for good: AgentHostSync is about        *)
(* reconnecting.  What follows an await within one run of the event loop   *)
(* is part of the step that ends the wait.                                 *)
(***************************************************************************)
EXTENDS Integers, Sequences, SequencesExt

CONSTANTS
    Clients,
    Creator,         \* the client that may create the session
    MaxEntries,      \* bound: MaxEntries[c] subscriptions client c makes
    MaxRefs,         \* bound: references a client holds at a time
    MaxTurns         \* bound: turns the users start

ASSUME ConstantsAssumption ==
    /\ Creator \in Clients
    /\ MaxEntries \in [Clients -> Nat \ {0}]
    /\ MaxRefs \in Nat \ {0}
    /\ MaxTurns \in Nat

Ids(c) == 1 .. MaxEntries[c]

VARIABLES
    \* the server
    session,         \* what there is on disk, or in memory only ("draft")
    loaded,          \* the state manager has its state
    serverSeq,       \* envelopes emitted for it
    activeTurn,
    subscribers,     \* _resourceSubscribers
    attached,        \* the clients on whose connection it is subscribed
    connected,       \* the clients whose connection the server believes in
    requests,        \* requests[c]: the entries for which a subscribe of c
                     \* awaits the restored session
    timer,           \* _pendingSessionGc, _pendingSessionRelease
    disposing,       \* a disposeSession is under way
    \* the connections
    toServer, toClient, open,
    \* the clients
    inflightCreate,  \* _inflightCreates of the creator
    unsent,          \* the creator's subscriptions that wait for it
    entry,           \* _subscriptions: the entry of each client, if any
    refs,            \* refs[c][i]: references to entry i not yet disposed
    entries,         \* entries a client has made
    turns,           \* turns the users have started
    \* history
    hasty,           \* the clients that let go during a subscribe
    outlived         \* a turn was active when the release timer fired

clientVars == <<inflightCreate, unsent, entry, refs, entries, turns>>
sessionVars == <<session, loaded, serverSeq, activeTurn, disposing>>
servingVars == <<subscribers, attached, connected, requests, timer>>
historyVars == <<hasty, outlived>>
vars == <<session, loaded, serverSeq, activeTurn, subscribers, attached,
          connected, requests, timer, disposing, toServer, toClient, open,
          inflightCreate, unsent, entry, refs, entries, turns, hasty,
          outlived>>

NoEntry == [id |-> 0]
Held(c) == entry[c] # NoEntry

ToServer(c, msgs) == [toServer EXCEPT ![c] = @ \o msgs]

\* What is sent on a closed connection is lost.
Sent(net, c, m) == IF open[c] THEN [net EXCEPT ![c] = Append(@, m)] ELSE net

ServerReads(c, kind) ==
    /\ c \in connected
    /\ toServer[c] # <<>>
    /\ Head(toServer[c]).kind = kind
    /\ toServer' = [toServer EXCEPT ![c] = Tail(@)]

ClientReads(c, kind) ==
    /\ toClient[c] # <<>>
    /\ Head(toClient[c]).kind = kind
    /\ toClient' = [toClient EXCEPT ![c] = Tail(@)]

Subscribe(i) == [kind |-> "subscribe", id |-> i]
Unsubscribe == [kind |-> "unsubscribe"]

-----------------------------------------------------------------------------
(* The client                                                              *)

\* createSession and trackSessionCreate.
Create ==
    /\ open[Creator]
    /\ session = "unborn"
    /\ ~inflightCreate
    /\ inflightCreate' = TRUE
    /\ toServer' = ToServer(Creator, <<[kind |-> "create"]>>)
    /\ UNCHANGED <<toClient, open, unsent, entry, refs, entries, turns>>
    /\ UNCHANGED <<sessionVars, servingVars, historyVars>>

\* The entry can be shared: a failed one is evicted instead.
Shareable(e) == e # NoEntry /\ e.value # "error"

\* The messages of getSubscription and its disposal of a failed entry.
AcquireMessages(c, i) ==
    (IF Held(c) THEN <<Unsubscribe>> ELSE <<>>)
      \o (IF c = Creator /\ inflightCreate THEN <<>> ELSE <<Subscribe(i)>>)

\* A client knows a session that exists, or that it is creating itself.
Known(c) ==
    \/ session \notin {"unborn", "creating"}
    \/ c = Creator /\ inflightCreate

\* getSubscription: one more reference to the entry, or a new entry, whose
\* subscribe request waits for the creation of the session if need be.
Acquire(c) ==
    /\ open[c]
    /\ Known(c)
    /\ FoldFunction(+, 0, refs[c]) < MaxRefs
    /\ \/ /\ Shareable(entry[c])
          /\ entry' = [entry EXCEPT ![c].refCount = @ + 1]
          /\ refs' = [refs EXCEPT ![c][entry[c].id] = @ + 1]
          /\ UNCHANGED <<toServer, unsent, entries>>
       \/ /\ ~Shareable(entry[c])
          /\ entries[c] < MaxEntries[c]
          /\ entries' = [entries EXCEPT ![c] = @ + 1]
          /\ entry' = [entry EXCEPT ![c] =
                          [id |-> entries'[c], refCount |-> 1,
                           value |-> "pending", view |-> <<>>,
                           buffered |-> <<>>]]
          /\ refs' = [refs EXCEPT ![c][entries'[c]] = 1]
          /\ toServer' = ToServer(c, AcquireMessages(c, entries'[c]))
          /\ unsent' = IF c = Creator /\ inflightCreate
                       THEN Append(unsent, entries'[c]) ELSE unsent
    /\ UNCHANGED <<toClient, open, inflightCreate, turns>>
    /\ UNCHANGED <<sessionVars, servingVars, historyVars>>

\* _releaseSubscription's guard: references to an evicted entry do nothing.
ReleasesAny(c, i) == Held(c)
ReleasesCurrent(c, i) == Held(c) /\ entry[c].id = i

IsLast(e) == e.refCount <= 1

\* A reference to entry i is disposed; the last one takes the entry along.
Release(c, i) ==
    /\ refs[c][i] > 0
    /\ refs' = [refs EXCEPT ![c][i] = @ - 1]
    /\ LET last == ReleasesCurrent(c, i) /\ IsLast(entry[c])
       IN /\ entry' =
               IF last THEN [entry EXCEPT ![c] = NoEntry]
               ELSE IF ReleasesCurrent(c, i)
               THEN [entry EXCEPT ![c].refCount = @ - 1]
               ELSE entry
          /\ toServer' = IF last THEN ToServer(c, <<Unsubscribe>>)
                         ELSE toServer
          /\ hasty' = IF last /\ c = Creator /\ i \in ToSet(unsent)
                      THEN hasty \cup {c} ELSE hasty
    /\ UNCHANGED <<toClient, open, inflightCreate, unsent, entries, turns,
                   outlived>>
    /\ UNCHANGED <<sessionVars, servingVars>>

\* The creation has ended: the subscriptions that waited for it are
\* requested, those released meanwhile included.
ReceiveCreated(c) ==
    /\ ClientReads(c, "created")
    /\ inflightCreate' = FALSE
    /\ unsent' = <<>>
    /\ toServer' = ToServer(c, [k \in 1 .. Len(unsent) |->
                                   Subscribe(unsent[k])])
    /\ UNCHANGED <<open, entry, refs, entries, turns>>
    /\ UNCHANGED <<sessionVars, servingVars, historyVars>>

\* Whether the entry that asked is still the current one.
AnswersAny(c, i) == Held(c)
AnswersCurrent(c, i) == Held(c) /\ entry[c].id = i

\* The envelopes of s that come after m.
After(s, m) ==
    LET kept[k \in 0 .. Len(s)] ==
            IF k = 0 THEN <<>>
            ELSE IF s[k] > m THEN Append(kept[k - 1], s[k])
            ELSE kept[k - 1]
    IN kept[Len(s)]

\* handleSnapshot: the state as of seq, then what came after it.
WithSnapshotUnfiltered(e, seq) ==
    [e EXCEPT !.value = "ready", !.buffered = <<>>,
              !.view = [n \in 1 .. seq |-> n] \o e.buffered]
WithSnapshot(e, seq) ==
    [e EXCEPT !.value = "ready", !.buffered = <<>>,
              !.view = [n \in 1 .. seq |-> n] \o After(e.buffered, seq)]

ReceiveSnapshot(c) ==
    /\ ClientReads(c, "snapshot")
    /\ LET m == Head(toClient[c])
       IN entry' = IF AnswersCurrent(c, m.id)
                   THEN [entry EXCEPT ![c] = WithSnapshot(@, m.seq)]
                   ELSE entry
    /\ UNCHANGED <<toServer, open, inflightCreate, unsent, refs, entries,
                   turns>>
    /\ UNCHANGED <<sessionVars, servingVars, historyVars>>

\* setError.
ReceiveError(c) ==
    /\ ClientReads(c, "error")
    /\ entry' = IF AnswersCurrent(c, Head(toClient[c]).id)
                THEN [entry EXCEPT ![c].value = "error"] ELSE entry
    /\ UNCHANGED <<toServer, open, inflightCreate, unsent, refs, entries,
                   turns>>
    /\ UNCHANGED <<sessionVars, servingVars, historyVars>>

\* receiveEnvelope: applied, or buffered until the snapshot.
ReceiveAction(c) ==
    /\ ClientReads(c, "action")
    /\ LET n == Head(toClient[c]).seq
       IN entry' = IF ~Held(c) THEN entry
                   ELSE IF entry[c].value = "ready"
                   THEN [entry EXCEPT ![c].view = Append(@, n)]
                   ELSE [entry EXCEPT ![c].buffered = Append(@, n)]
    /\ UNCHANGED <<toServer, open, inflightCreate, unsent, refs, entries,
                   turns>>
    /\ UNCHANGED <<sessionVars, servingVars, historyVars>>

\* The user sends a message in a chat that is shown.
StartTurn(c) ==
    /\ Held(c) /\ entry[c].value = "ready"
    /\ turns < MaxTurns
    /\ turns' = turns + 1
    /\ toServer' = ToServer(c, <<[kind |-> "turn"]>>)
    /\ UNCHANGED <<toClient, open, inflightCreate, unsent, entry, refs,
                   entries>>
    /\ UNCHANGED <<sessionVars, servingVars, historyVars>>

\* The connection closes, and with it goes the client.  What it has sent may
\* still arrive.
Close(c) ==
    /\ open[c]
    /\ open' = [open EXCEPT ![c] = FALSE]
    /\ toClient' = [toClient EXCEPT ![c] = <<>>]
    /\ entry' = [entry EXCEPT ![c] = NoEntry]
    /\ refs' = [refs EXCEPT ![c] = [i \in Ids(c) |-> 0]]
    /\ inflightCreate' = (inflightCreate /\ c # Creator)
    /\ unsent' = IF c = Creator THEN <<>> ELSE unsent
    /\ UNCHANGED <<toServer, entries, turns>>
    /\ UNCHANGED <<sessionVars, servingVars, historyVars>>

-----------------------------------------------------------------------------
(* The server                                                              *)

\* An envelope for the session goes to the connections subscribed to it.
Emit ==
    /\ serverSeq' = serverSeq + 1
    /\ toClient' = [c \in Clients |->
          IF c \in attached /\ open[c]
          THEN Append(toClient[c], [kind |-> "action", seq |-> serverSeq'])
          ELSE toClient[c]]

\* createSession begins: the provider is asked.
ReceiveCreate(c) ==
    /\ ServerReads(c, "create")
    /\ session' = "creating"
    /\ UNCHANGED <<loaded, serverSeq, activeTurn, disposing, toClient, open>>
    /\ UNCHANGED <<clientVars, servingVars, historyVars>>

CreateEnds ==
    /\ session = "creating"
    /\ \/ session' = "draft" /\ loaded' = TRUE
       \/ session' = "none" /\ UNCHANGED loaded
    /\ toClient' = Sent(toClient, Creator, [kind |-> "created"])
    /\ UNCHANGED <<serverSeq, activeTurn, disposing, toServer, open>>
    /\ UNCHANGED <<clientVars, servingVars, historyVars>>

\* subscribe: registered at once; the snapshot is there or must be awaited.
ReceiveSubscribe(c) ==
    /\ ServerReads(c, "subscribe")
    /\ subscribers' = subscribers \cup {c}
    /\ timer' = "none"
    /\ outlived' = FALSE
    /\ LET i == Head(toServer[c]).id
       IN IF loaded
          THEN /\ attached' = attached \cup {c}
               /\ toClient' = Sent(toClient, c, [kind |-> "snapshot",
                                         id |-> i, seq |-> serverSeq])
               /\ UNCHANGED requests
          ELSE /\ requests' = [requests EXCEPT ![c] = Append(@, i)]
               /\ UNCHANGED <<attached, toClient>>
    /\ UNCHANGED <<connected, open, hasty>>
    /\ UNCHANGED <<clientVars, sessionVars>>

\* _maybeScheduleSessionGc: only a draft is collected, others are released.
ArmedTimerForLoaded == IF loaded THEN "gc" ELSE "release"
ArmedTimer == IF loaded /\ session = "draft" THEN "gc" ELSE "release"

\* unsubscribe of the service: the last subscriber's leaving arms a timer.
LeftByAll(cs) == {}
Left(cs) == subscribers \ cs
Leave(cs) ==
    /\ subscribers' = Left(cs)
    /\ timer' = IF subscribers = {} \/ subscribers' # {} THEN timer
                ELSE ArmedTimer

NoRequests == [c \in Clients |-> <<>>]
Requesters == {c \in Clients : requests[c] # <<>>}

\* What every waiting request is answered.
Answered(answer) ==
    [c \in Clients |->
        IF open[c]
        THEN toClient[c] \o [k \in 1 .. Len(requests[c]) |->
                                answer[requests[c][k]]]
        ELSE toClient[c]]

\* The restore all requests wait for has ended.  A connection that closed
\* meanwhile is subscribed all the same, but serves nobody.
Restored ==
    /\ Requesters # {}
    /\ session = "used" \/ loaded
    /\ loaded' = TRUE
    /\ attached' = attached \cup (Requesters \cap connected)
    /\ toClient' = Answered([i \in Nat |-> [kind |-> "snapshot", id |-> i,
                                            seq |-> serverSeq]])
    /\ requests' = NoRequests
    /\ UNCHANGED <<session, serverSeq, activeTurn, disposing, subscribers,
                   connected, timer, toServer, open>>
    /\ UNCHANGED <<clientVars, historyVars>>

\* It has failed, as it must for a session that is not there: the
\* registrations are rolled back.
NotRolledBack == {}
RolledBack == Requesters
RestoreFails ==
    /\ Requesters # {}
    /\ ~loaded
    /\ Leave(RolledBack)
    /\ toClient' = Answered([i \in Nat |-> [kind |-> "error", id |-> i]])
    /\ requests' = NoRequests
    /\ UNCHANGED <<attached, connected, toServer, open>>
    /\ UNCHANGED <<clientVars, sessionVars, historyVars>>

\* _removeSubscription: nothing happens while the subscribe is awaited.
ReceiveUnsubscribe(c) ==
    /\ ServerReads(c, "unsubscribe")
    /\ attached' = attached \ {c}
    /\ IF c \in attached THEN Leave({c}) ELSE UNCHANGED <<subscribers, timer>>
    /\ hasty' = IF c \in Requesters THEN hasty \cup {c} ELSE hasty
    /\ UNCHANGED <<connected, requests, toClient, open, outlived>>
    /\ UNCHANGED <<clientVars, sessionVars>>

\* transport.onClose.
ServerClosed(c) ==
    /\ ~open[c]
    /\ c \in connected
    /\ connected' = connected \ {c}
    /\ toServer' = [toServer EXCEPT ![c] = <<>>]
    /\ attached' = attached \ {c}
    /\ IF c \in attached THEN Leave({c}) ELSE UNCHANGED <<subscribers, timer>>
    /\ hasty' = IF c \in Requesters THEN hasty \cup {c} ELSE hasty
    /\ UNCHANGED <<requests, toClient, open, outlived>>
    /\ UNCHANGED <<clientVars, sessionVars>>

\* A turn starts: the session is a draft no more.  Of a session that is gone
\* only the envelope remains.
UsedBy(s) == IF s = "draft" THEN "used" ELSE s
ReceiveTurn(c) ==
    /\ ServerReads(c, "turn")
    /\ activeTurn' = loaded
    /\ session' = IF loaded THEN UsedBy(session) ELSE session
    /\ Emit
    /\ UNCHANGED <<loaded, disposing, open>>
    /\ UNCHANGED <<clientVars, servingVars, historyVars>>

EndTurn ==
    /\ activeTurn
    /\ activeTurn' = FALSE
    /\ Emit
    /\ UNCHANGED <<session, loaded, disposing, toServer, open>>
    /\ UNCHANGED <<clientVars, servingVars, historyVars>>

Collectable == subscribers = {} /\ session # "used"

\* _runSessionGc: the draft is disposed of, which takes a while.
GcFires ==
    /\ timer = "gc"
    /\ timer' = "none"
    /\ disposing' = (disposing \/ Collectable)
    /\ UNCHANGED <<session, loaded, serverSeq, activeTurn, subscribers,
                   attached, connected, requests, toServer, toClient, open>>
    /\ UNCHANGED <<clientVars, historyVars>>

\* The end of disposeSession: whatever the session has become is deleted.
DisposeEnds ==
    /\ disposing
    /\ disposing' = FALSE
    /\ loaded' = FALSE
    /\ session' = "gone"
    /\ activeTurn' = FALSE
    /\ UNCHANGED <<serverSeq, toServer, toClient, open>>
    /\ UNCHANGED <<clientVars, servingVars, historyVars>>

\* _maybeEvictIdleSession.
Evictable == subscribers = {} /\ Requesters = {} /\ loaded
ReleaseFires ==
    /\ timer = "release"
    /\ timer' = "none"
    /\ loaded' = (loaded /\ (activeTurn \/ ~Evictable))
    /\ outlived' = (Evictable /\ activeTurn)
    /\ UNCHANGED <<session, serverSeq, activeTurn, disposing, subscribers,
                   attached, connected, requests, toServer, toClient, open,
                   hasty>>
    /\ UNCHANGED clientVars

-----------------------------------------------------------------------------
\* The session is on disk, or is yet to be created.
Init ==
    /\ session \in {"unborn", "used"}
    /\ loaded = FALSE
    /\ serverSeq = 0
    /\ activeTurn = FALSE
    /\ subscribers = {} /\ attached = {} /\ connected = Clients
    /\ requests = NoRequests
    /\ timer = "none"
    /\ disposing = FALSE
    /\ toServer = [c \in Clients |-> <<>>]
    /\ toClient = [c \in Clients |-> <<>>]
    /\ open = [c \in Clients |-> TRUE]
    /\ inflightCreate = FALSE
    /\ unsent = <<>>
    /\ entry = [c \in Clients |-> NoEntry]
    /\ refs = [c \in Clients |-> [i \in Ids(c) |-> 0]]
    /\ entries = [c \in Clients |-> 0]
    /\ turns = 0
    /\ hasty = {}
    /\ outlived = FALSE

ServerStep ==
    \/ CreateEnds \/ Restored \/ RestoreFails
    \/ GcFires \/ DisposeEnds \/ ReleaseFires
    \/ \E c \in Clients :
          \/ ReceiveCreate(c) \/ ReceiveSubscribe(c) \/ ReceiveUnsubscribe(c)
          \/ ReceiveTurn(c) \/ ServerClosed(c)

ClientStep(c) ==
    \/ ReceiveCreated(c) \/ ReceiveSnapshot(c) \/ ReceiveError(c)
    \/ ReceiveAction(c)

UserStep ==
    \/ Create \/ EndTurn
    \/ \E c \in Clients :
          \/ Acquire(c) \/ StartTurn(c) \/ Close(c)
          \/ \E i \in Ids(c) : Release(c, i)

Next == ServerStep \/ (\E c \in Clients : ClientStep(c)) \/ UserStep

Spec == Init /\ [][Next]_vars

\* Messages are read, timers fire, and what the disk and the providers are
\* asked for is answered.  Nothing makes the users do anything, or a turn end.
Fairness ==
    /\ WF_vars(ServerStep)
    /\ WF_vars(GcFires \/ ReleaseFires)
    /\ WF_vars(Restored \/ RestoreFails) /\ WF_vars(CreateEnds)
    /\ WF_vars(DisposeEnds)
    /\ \A c \in Clients :
          /\ WF_vars(ReceiveCreate(c) \/ ReceiveSubscribe(c)
                        \/ ReceiveUnsubscribe(c) \/ ReceiveTurn(c))
          /\ WF_vars(ServerClosed(c))
          /\ WF_vars(ClientStep(c))

LiveSpec == Spec /\ Fairness

-----------------------------------------------------------------------------
(* Properties                                                              *)

\* Where the envelopes are in a stream to a client.
Envelopes(s) == {k \in DOMAIN s : s[k].kind = "action"}

\* The envelopes in s are, in this order, those from m + 1 to n.
Carries(s, m, n) ==
    /\ {s[k].seq : k \in Envelopes(s)} = m + 1 .. n
    /\ \A k, l \in Envelopes(s) : k < l => s[k].seq < s[l].seq

\* What a client shows, and what is on its way to it, is the session's whole
\* history, nothing missing and nothing twice, however its subscription came
\* about: shared, waited for, asked for again before the first answer.
InSync ==
    \A c \in connected :
        open[c] /\ Held(c) /\ entry[c].value = "ready"
        => LET n == Len(entry[c].view)
           IN /\ entry[c].view = [i \in 1 .. n |-> i]
              /\ n <= serverSeq
              /\ Carries(toClient[c], n, serverSeq)

\* The manager counts the references that are really held: the entry stays
\* as long as somebody holds it and no longer, even when references to a
\* failed predecessor are disposed late.
CountsWhatIsHeld ==
    \A c \in Clients :
        /\ Held(c) => entry[c].refCount = refs[c][entry[c].id]
        /\ ~Held(c) => \A i \in 1 .. entries[c] : i = entries[c] =>
                          refs[c][i] = 0

\* Unless it is deleted, a session that a connection is subscribed to, or
\* is waiting for, is pinned: in memory when subscribed, and never without
\* a subscriber.
SubscribedIsPinned ==
    session # "gone" =>
        /\ attached \cup Requesters \subseteq subscribers
        /\ attached # {} => loaded

\* A subscription that is shown is one the server serves.
ShownIsServed ==
    \A c \in connected :
        open[c] /\ Held(c) /\ entry[c].value = "ready" => c \in attached

\* The client has no subscription and is not asking for one, as far as the
\* server has heard.
LetGo(c) ==
    /\ ~Held(c)
    /\ c = Creator => unsent = <<>>
    /\ c \in connected => open[c] /\ toServer[c] = <<>>
    /\ c \notin Requesters

\* A client that has let go is not a subscriber any more, so that nothing
\* is left behind that would keep the session in memory: only a client that
\* lets go during a subscribe can leave its registration behind.
LeaksOnlyInTheWindow ==
    \A c \in Clients : LetGo(c) => c \notin subscribers \ hasty

\* A session nobody holds any more is released from memory in the end, unless
\* a client let go during a subscribe or a turn outlived the grace time.
ReleasedInTheEnd ==
    <>(subscribers # {}) /\ <>[](\A c \in Clients : LetGo(c))
    => <>[](~loaded \/ hasty # {} \/ outlived)
=============================================================================
