---------------------- MODULE AgentSubscriptionsProofs ----------------------
(***************************************************************************)
(* Proofs about AgentSubscriptions, for any number of clients,             *)
(* subscriptions, references and turns.                                    *)
(*                                                                         *)
(* CountsInv is about each client by itself: its entry is the last one it  *)
(* made, and references are held to entries it has made.  PinnedInv is     *)
(* about the server: a session in memory keeps no request waiting, and     *)
(* until it exists nothing but its creation and retractions is on the way. *)
(*                                                                         *)
(* ServedInv follows a request through the queue of the client, the stream *)
(* to the server, the requests that wait and the stream back: each entry   *)
(* is asked for once and answered once, and no retraction overtakes the    *)
(* request of the current entry.  TidyInv adds that a client which has let *)
(* go has a retraction on its way, last, unless it let go in the window.   *)
(* SyncInv is about the numbers in the stream to a client: what it shows,  *)
(* followed by the envelopes it is about to read, is the whole history.    *)
(***************************************************************************)
EXTENDS AgentSubscriptions, TLAPS, WellFoundedInduction

-----------------------------------------------------------------------------
(* References                                                              *)

IsEntry(e, n) ==
    /\ {"id", "refCount", "value", "view", "buffered"} \subseteq DOMAIN e
    /\ e.id = n /\ e.refCount \in Nat \ {0}

\* What is true of a client with entry e and references r that has made n
\* entries.
Counted(c, e, r, n) ==
    /\ n \in Nat /\ n <= MaxEntries[c]
    /\ r \in [Ids(c) -> Nat]
    /\ \A i \in Ids(c) : i > n => r[i] = 0
    /\ \/ e = NoEntry /\ (n \in Ids(c) => r[n] = 0)
       \/ n \in Ids(c) /\ IsEntry(e, n) /\ r[n] = e.refCount

CountsInv ==
    /\ refs = [c \in Clients |-> refs[c]]
    /\ entry = [c \in Clients |-> entry[c]]
    /\ entries \in [Clients -> Nat]
    /\ \A c \in Clients : Counted(c, entry[c], refs[c], entries[c])

\* An entry is not the lack of one.
LEMMA EntryHeld ==
    ASSUME NEW e, NEW n \in Nat \ {0}, IsEntry(e, n) PROVE e # NoEntry
BY DEF IsEntry, NoEntry

\* A client whose counts change leaves those of the others alone.
LEMMA OneClient ==
    ASSUME CountsInv, NEW c \in Clients,
           NEW e, NEW r, NEW n,
           Counted(c, e, r, n),
           entry' = [entry EXCEPT ![c] = e],
           refs' = [refs EXCEPT ![c] = r],
           entries' = [entries EXCEPT ![c] = n]
    PROVE  CountsInv'
<1>1. /\ refs' = [d \in Clients |-> refs'[d]]
      /\ entry' = [d \in Clients |-> entry'[d]]
      /\ entries' \in [Clients -> Nat]
  BY DEF CountsInv, Counted
<1>2. ASSUME NEW d \in Clients
      PROVE  Counted(d, entry'[d], refs'[d], entries'[d])
  <2>1. CASE d = c
    BY <2>1 DEF CountsInv
  <2>2. CASE d # c
    BY <2>2 DEF CountsInv
  <2> QED
    BY <2>1, <2>2
<1> QED
  BY <1>1, <1>2 DEF CountsInv, Counted, Ids

\* Nobody holds anything at first.
LEMMA CountsInit == Init => CountsInv
BY ConstantsAssumption DEF Init, CountsInv, Counted, Ids, NoEntry

\* getSubscription keeps the counts, shared or new.
LEMMA CountsAcquire ==
    \A c \in Clients : CountsInv /\ Acquire(c) => CountsInv'
<1> SUFFICES ASSUME NEW c \in Clients, CountsInv, Acquire(c)
             PROVE  CountsInv'
  OBVIOUS
<1> DEFINE e == entry[c]
           r == refs[c]
           n == entries[c]
<1>1. Counted(c, e, r, n)
  BY DEF CountsInv
<1>2. MaxEntries[c] \in Nat \ {0}
  BY ConstantsAssumption
<1>3. CASE /\ Shareable(entry[c])
           /\ entry' = [entry EXCEPT ![c].refCount = @ + 1]
           /\ refs' = [refs EXCEPT ![c][entry[c].id] = @ + 1]
           /\ UNCHANGED entries
  <2>1. n \in Ids(c) /\ IsEntry(e, n) /\ r[n] = e.refCount
    <3>1. e # NoEntry
      BY <1>3 DEF Shareable
    <3> QED
      BY <1>1, <3>1 DEF Counted
  <2> DEFINE f == [e EXCEPT !.refCount = @ + 1]
             q == [r EXCEPT ![n] = @ + 1]
  <2>2. entry' = [entry EXCEPT ![c] = f] /\ refs' = [refs EXCEPT ![c] = q]
    BY <1>3, <2>1 DEF IsEntry
  <2>3. entries' = [entries EXCEPT ![c] = n]
    BY <1>3 DEF CountsInv
  <2>4. IsEntry(f, n) /\ f.refCount = e.refCount + 1
    BY <2>1 DEF IsEntry
  <2>5. q \in [Ids(c) -> Nat] /\ q[n] = f.refCount
        /\ \A i \in Ids(c) : i > n => q[i] = 0
    BY <1>1, <2>1, <2>4 DEF Counted, IsEntry, Ids
  <2>6. Counted(c, f, q, n)
    BY <1>1, <2>1, <2>4, <2>5 DEF Counted
  <2> QED
    BY <2>2, <2>3, <2>6, OneClient
<1>4. CASE /\ entries[c] < MaxEntries[c]
           /\ entries' = [entries EXCEPT ![c] = @ + 1]
           /\ entry' = [entry EXCEPT ![c] =
                          [id |-> entries'[c], refCount |-> 1,
                           value |-> "pending", view |-> <<>>,
                           buffered |-> <<>>]]
           /\ refs' = [refs EXCEPT ![c][entries'[c]] = 1]
  <2> DEFINE m == n + 1
             f == [id |-> m, refCount |-> 1, value |-> "pending",
                   view |-> <<>>, buffered |-> <<>>]
             q == [r EXCEPT ![m] = 1]
  <2>1. m \in Nat /\ m \in Ids(c) /\ m <= MaxEntries[c]
    BY <1>1, <1>2, <1>4 DEF Counted, Ids
  <2>2. entries'[c] = m /\ entries' = [entries EXCEPT ![c] = m]
    BY <1>4 DEF CountsInv
  <2>3. entry' = [entry EXCEPT ![c] = f] /\ refs' = [refs EXCEPT ![c] = q]
    <3>1. entry' = [entry EXCEPT ![c] = f]
      BY <1>4, <2>2, Zenon
    <3>2. refs' = [refs EXCEPT ![c] = q]
      BY <1>4, <2>2, Zenon
    <3> QED
      BY <3>1, <3>2
  <2>4. IsEntry(f, m) /\ f.refCount = 1
    BY DEF IsEntry
  <2>5. q \in [Ids(c) -> Nat] /\ q[m] = 1
        /\ \A i \in Ids(c) : i > m => q[i] = 0
    BY <1>1, <1>2, <2>1 DEF Counted, Ids
  <2>6. Counted(c, f, q, m)
    BY <2>1, <2>4, <2>5 DEF Counted
  <2> QED
    BY <2>2, <2>3, <2>6, OneClient
<1> QED
  BY <1>3, <1>4 DEF Acquire

\* Disposing of a reference keeps the counts, of the present entry or of one
\* that was evicted.
LEMMA CountsRelease ==
    \A c \in Clients : \A i \in Ids(c) :
        CountsInv /\ Release(c, i) => CountsInv'
<1> SUFFICES ASSUME NEW c \in Clients, NEW i \in Ids(c),
                    CountsInv, Release(c, i)
             PROVE  CountsInv'
  OBVIOUS
<1> DEFINE e == entry[c]
           r == refs[c]
           n == entries[c]
           q == [r EXCEPT ![i] = @ - 1]
<1>1. Counted(c, e, r, n) /\ n \in Nat /\ MaxEntries[c] \in Nat
  BY ConstantsAssumption DEF CountsInv
<1>2. refs' = [refs EXCEPT ![c] = q] /\ r[i] > 0
  BY DEF Release
<1>3. entries' = [entries EXCEPT ![c] = n]
  BY DEF Release, CountsInv
<1>4. /\ q \in [Ids(c) -> Nat] /\ q[i] = r[i] - 1
      /\ \A k \in Ids(c) : k # i => q[k] = r[k]
      /\ i <= n
      /\ \A k \in Ids(c) : k > n => q[k] = 0
  BY <1>1, <1>2 DEF Counted, Ids
<1>5. CASE ReleasesCurrent(c, i)
  <2>1. i = n /\ n \in Ids(c) /\ IsEntry(e, n) /\ r[n] = e.refCount
    <3>1. e # NoEntry /\ e.id = i
      BY <1>5 DEF ReleasesCurrent, Held
    <3> QED
      BY <1>1, <3>1 DEF Counted, IsEntry
  <2>2. CASE IsLast(e)
    <3>1. entry' = [entry EXCEPT ![c] = NoEntry]
      BY <1>5, <2>2 DEF Release
    <3>2. q[n] = 0
      BY <1>4, <2>1, <2>2 DEF IsLast, IsEntry
    <3>3. Counted(c, NoEntry, q, n)
      BY <1>1, <1>4, <2>1, <3>2 DEF Counted
    <3> QED
      BY <1>2, <1>3, <3>1, <3>3, OneClient
  <2>3. CASE ~IsLast(e)
    <3> DEFINE f == [e EXCEPT !.refCount = @ - 1]
    <3>1. entry' = [entry EXCEPT ![c] = f]
      BY <1>5, <2>3 DEF Release
    <3>2. IsEntry(f, n) /\ f.refCount = e.refCount - 1
      BY <2>1, <2>3 DEF IsEntry, IsLast
    <3>3. q[n] = f.refCount
      BY <1>4, <2>1, <3>2
    <3>4. Counted(c, f, q, n)
      BY <1>1, <1>4, <2>1, <3>2, <3>3 DEF Counted
    <3> QED
      BY <1>2, <1>3, <3>1, <3>4, OneClient
  <2> QED
    BY <2>2, <2>3
<1>6. CASE ~ReleasesCurrent(c, i)
  <2>1. entry' = [entry EXCEPT ![c] = e]
    <3>1. entry' = entry
      BY <1>6 DEF Release
    <3> QED
      BY <3>1 DEF CountsInv
  <2>2. CASE e = NoEntry
    <3>1. n \in Ids(c) => q[n] = 0
      <4> SUFFICES ASSUME n \in Ids(c) PROVE q[n] = 0
        OBVIOUS
      <4>1. ~IsEntry(e, n)
        BY <1>1, <2>2, EntryHeld DEF Ids
      <4>2. r[n] = 0
        BY <1>1, <4>1 DEF Counted
      <4> QED
        BY <1>2, <1>4, <4>2
    <3>2. Counted(c, e, q, n)
      BY <1>1, <1>4, <2>2, <3>1 DEF Counted
    <3> QED
      BY <1>2, <1>3, <2>1, <3>2, OneClient
  <2>3. CASE e # NoEntry
    <3>1. n \in Ids(c) /\ IsEntry(e, n) /\ r[n] = e.refCount
      BY <1>1, <2>3 DEF Counted
    <3>2. i # n
      BY <1>6, <2>3, <3>1 DEF ReleasesCurrent, Held, IsEntry
    <3>3. Counted(c, e, q, n)
      BY <1>1, <1>4, <3>1, <3>2 DEF Counted
    <3> QED
      BY <1>2, <1>3, <2>1, <3>3, OneClient
  <2> QED
    BY <2>2, <2>3
<1> QED
  BY <1>5, <1>6

\* What a client reads changes the value of its entry and no more.
LEMMA CountsRead ==
    ASSUME CountsInv, NEW c \in Clients, NEW f,
           UNCHANGED <<refs, entries>>,
           \/ entry' = entry
           \/ entry' = [entry EXCEPT ![c] = f] /\ entry[c] # NoEntry
              /\ DOMAIN f = DOMAIN entry[c]
              /\ f.id = entry[c].id /\ f.refCount = entry[c].refCount
    PROVE  CountsInv'
<1>1. CASE entry' = entry
  BY <1>1 DEF CountsInv, Counted, Ids, IsEntry
<1>2. CASE entry' # entry
  <2>1. entry' = [entry EXCEPT ![c] = f]
    BY <1>2
  <2> DEFINE r == refs[c]
             n == entries[c]
  <2>2. refs' = [refs EXCEPT ![c] = r]
    BY DEF CountsInv
  <2>3. entries' = [entries EXCEPT ![c] = n]
    BY DEF CountsInv
  <2>4. Counted(c, entry[c], refs[c], entries[c])
    BY DEF CountsInv
  <2>5. Counted(c, f, r, n)
    BY <1>2, <2>4 DEF Counted, IsEntry
  <2> HIDE DEF r, n
  <2> QED
    BY <2>1, <2>2, <2>3, <2>5, OneClient
<1> QED
  BY <1>1, <1>2

\* Snapshots, errors and envelopes leave the counts alone.
LEMMA CountsReceive ==
    \A c \in Clients :
        CountsInv /\ (ReceiveSnapshot(c) \/ ReceiveError(c) \/ ReceiveAction(c))
        => CountsInv'
<1> SUFFICES ASSUME NEW c \in Clients, CountsInv,
                    \/ ReceiveSnapshot(c)
                    \/ ReceiveError(c)
                    \/ ReceiveAction(c)
             PROVE  CountsInv'
  OBVIOUS
<1>1. UNCHANGED <<refs, entries>>
  BY DEF ReceiveSnapshot, ReceiveError, ReceiveAction
<1>2. ASSUME entry[c] # NoEntry
      PROVE  {"id", "refCount", "value", "view", "buffered"}
                 \subseteq DOMAIN entry[c]
  BY <1>2 DEF CountsInv, Counted, IsEntry
<1>3. PICK f : \/ entry' = entry
               \/ entry' = [entry EXCEPT ![c] = f] /\ entry[c] # NoEntry
                  /\ DOMAIN f = DOMAIN entry[c]
                  /\ f.id = entry[c].id /\ f.refCount = entry[c].refCount
  <2>1. CASE ReceiveSnapshot(c)
    <3> DEFINE f == WithSnapshot(entry[c], Head(toClient[c]).seq)
    <3>1. \/ entry' = entry
          \/ entry' = [entry EXCEPT ![c] = f] /\ entry[c] # NoEntry
      BY <2>1 DEF ReceiveSnapshot, AnswersCurrent, Held
    <3>2. entry[c] # NoEntry =>
              /\ DOMAIN f = DOMAIN entry[c]
              /\ f.id = entry[c].id /\ f.refCount = entry[c].refCount
      BY <1>2 DEF WithSnapshot
    <3> QED
      BY <3>1, <3>2
  <2>2. CASE ReceiveError(c)
    <3> DEFINE f == [entry[c] EXCEPT !.value = "error"]
    <3>1. \/ entry' = entry
          \/ entry' = [entry EXCEPT ![c] = f] /\ entry[c] # NoEntry
      BY <2>2 DEF ReceiveError, AnswersCurrent, Held
    <3>2. entry[c] # NoEntry =>
              /\ DOMAIN f = DOMAIN entry[c]
              /\ f.id = entry[c].id /\ f.refCount = entry[c].refCount
      BY <1>2
    <3> QED
      BY <3>1, <3>2
  <2>3. CASE ReceiveAction(c)
    <3> DEFINE n == Head(toClient[c]).seq
               f == [entry[c] EXCEPT !.view = Append(@, n)]
               g == [entry[c] EXCEPT !.buffered = Append(@, n)]
    <3>1. \/ entry' = entry
          \/ entry' = [entry EXCEPT ![c] = f] /\ entry[c] # NoEntry
          \/ entry' = [entry EXCEPT ![c] = g] /\ entry[c] # NoEntry
      BY <2>3 DEF ReceiveAction, Held
    <3>2. entry[c] # NoEntry =>
              /\ DOMAIN f = DOMAIN entry[c]
              /\ f.id = entry[c].id /\ f.refCount = entry[c].refCount
      BY <1>2
    <3>3. entry[c] # NoEntry =>
              /\ DOMAIN g = DOMAIN entry[c]
              /\ g.id = entry[c].id /\ g.refCount = entry[c].refCount
      BY <1>2
    <3> QED
      BY <3>1, <3>2, <3>3
  <2> QED
    BY <2>1, <2>2, <2>3
<1> QED
  BY <1>1, <1>3, CountsRead

\* A client whose connection closes holds nothing.
LEMMA CountsClose == \A c \in Clients : CountsInv /\ Close(c) => CountsInv'
<1> SUFFICES ASSUME NEW c \in Clients, CountsInv, Close(c) PROVE CountsInv'
  OBVIOUS
<1> DEFINE q == [i \in Ids(c) |-> 0]
           n == entries[c]
<1>1. /\ entry' = [entry EXCEPT ![c] = NoEntry]
      /\ refs' = [refs EXCEPT ![c] = q]
      /\ entries' = [entries EXCEPT ![c] = n]
  BY DEF Close, CountsInv
<1>2. Counted(c, NoEntry, q, n)
  BY DEF CountsInv, Counted
<1> QED
  BY <1>1, <1>2, OneClient

\* Every step keeps the counts.
LEMMA CountsNext == CountsInv /\ [Next]_vars => CountsInv'
<1>1. CountsInv /\ UNCHANGED <<entry, refs, entries>> => CountsInv'
  BY DEF CountsInv, Counted, Ids, IsEntry
<1>2. CountsInv /\ UNCHANGED vars => CountsInv'
  BY <1>1 DEF vars
<1>3. CountsInv /\ ServerStep => CountsInv'
  BY <1>1 DEF ServerStep, CreateEnds, Restored, RestoreFails, GcFires,
              DisposeEnds, ReleaseFires, ReceiveCreate, ReceiveSubscribe,
              ReceiveUnsubscribe, ReceiveTurn, ServerClosed, clientVars
<1>4. \A c \in Clients : CountsInv /\ ClientStep(c) => CountsInv'
  BY <1>1, CountsReceive DEF ClientStep, ReceiveCreated
<1>5. CountsInv /\ UserStep => CountsInv'
  BY <1>1, CountsAcquire, CountsRelease, CountsClose
     DEF UserStep, Create, EndTurn, StartTurn, clientVars
<1> QED
  BY <1>2, <1>3, <1>4, <1>5 DEF Next

\* The reference counts of the subscription manager are those of the
\* references held (getSubscription and _releaseSubscription of
\* agentSubscription.ts), however entries fail, are evicted and come back.
THEOREM CountsAreRight == Spec => []CountsWhatIsHeld
<1>1. CountsInv => CountsWhatIsHeld
  <2> SUFFICES ASSUME CountsInv, NEW c \in Clients
               PROVE  /\ Held(c) => entry[c].refCount = refs[c][entry[c].id]
                      /\ ~Held(c) => \A i \in 1 .. entries[c] :
                                        i = entries[c] => refs[c][i] = 0
    BY DEF CountsWhatIsHeld
  <2>1. /\ Counted(c, entry[c], refs[c], entries[c])
        /\ MaxEntries[c] \in Nat
    BY ConstantsAssumption DEF CountsInv
  <2>2. entry[c] # NoEntry => entry[c].refCount = refs[c][entry[c].id]
    BY <2>1 DEF Counted, IsEntry
  <2>3. entry[c] = NoEntry => \A i \in 1 .. entries[c] :
                                i = entries[c] => refs[c][i] = 0
    <3> SUFFICES ASSUME entry[c] = NoEntry, entries[c] \in 1 .. entries[c]
                 PROVE  refs[c][entries[c]] = 0
      OBVIOUS
    <3>1. entries[c] \in Ids(c)
      BY <2>1 DEF Counted, Ids
    <3>2. ~IsEntry(NoEntry, entries[c])
      BY <3>1, <2>1, EntryHeld DEF Counted
    <3> QED
      BY <2>1, <3>1, <3>2 DEF Counted
  <2> QED
    BY <2>2, <2>3 DEF Held
<1> QED
  BY <1>1, CountsInit, CountsNext, PTL DEF Spec

-----------------------------------------------------------------------------
(* Pinned sessions                                                         *)

ServerMessage ==
    [kind : {"create", "unsubscribe", "turn"}]
        \cup [kind : {"subscribe"}, id : Nat]

PinnedTypes ==
    /\ unsent \in Seq(Nat)
    /\ requests \in [Clients -> Seq(Nat)]
    /\ open \in [Clients -> BOOLEAN]
    /\ loaded \in BOOLEAN /\ inflightCreate \in BOOLEAN
    /\ activeTurn \in BOOLEAN /\ disposing \in BOOLEAN

\* Every message of s is of one of the kinds.
All(s, kinds) == \A i \in 1 .. Len(s) : s[i].kind \in kinds
Early == {"create", "unsubscribe"}
Later == {"subscribe", "unsubscribe", "turn"}

Unborn == session \in {"unborn", "creating"}

\* Until the session exists, nobody asks for it, and it is created once.
Messages ==
    /\ toServer \in [Clients -> Seq(ServerMessage)]
    /\ \A c \in Clients :
          /\ Unborn => All(toServer[c], Early)
          /\ \/ All(toServer[c], Later)
             \/ /\ c = Creator /\ session = "unborn"
                /\ toServer[c] # <<>> /\ All(Tail(toServer[c]), Later)

\* Nor is anybody told of it.
Before ==
    Unborn =>
        /\ ~loaded /\ ~activeTurn /\ ~disposing /\ timer = "none"
        /\ requests = NoRequests /\ attached = {}
        /\ toClient = [c \in Clients |-> <<>>]
        /\ \A c \in Clients : Held(c) => entry[c].value # "ready"

\* A creator that has not asked for the session has nothing to do with it,
\* and one that has waits for the end of its creation.
Creation ==
    /\ session = "unborn" /\ open[Creator] /\ ~inflightCreate =>
          toServer[Creator] = <<>> /\ ~Held(Creator)
    /\ session = "creating" /\ open[Creator] => inflightCreate

Pinned ==
    session # "gone" =>
        /\ attached \cup Requesters \subseteq subscribers
        /\ attached # {} => loaded
        /\ loaded => Requesters = {}

PinnedInv ==
    CountsInv /\ PinnedTypes /\ Messages /\ Before /\ Creation /\ Pinned

\* Kinds of messages in sequences that are joined or read.
LEMMA AllJoined ==
    ASSUME NEW s \in Seq(ServerMessage), NEW t \in Seq(ServerMessage),
           NEW kinds, All(s, kinds), All(t, kinds)
    PROVE  All(s \o t, kinds)
BY DEF All

\* The rest of a sequence that is read.
LEMMA AllTail ==
    ASSUME NEW s \in Seq(ServerMessage), s # <<>>, NEW kinds, All(s, kinds)
    PROVE  All(Tail(s), kinds)
BY DEF All

\* What is read.
LEMMA AllHead ==
    ASSUME NEW s \in Seq(ServerMessage), s # <<>>, NEW kinds, All(s, kinds)
    PROVE  Head(s).kind \in kinds
BY DEF All

\* Reading and sending commute.
LEMMA TailJoined ==
    ASSUME NEW s \in Seq(ServerMessage), NEW t \in Seq(ServerMessage), s # <<>>
    PROVE  Tail(s \o t) = Tail(s) \o t
OBVIOUS

\* A stream that is empty has messages of any kind.
LEMMA AllNone == \A kinds : All(<<>>, kinds)
BY DEF All

\* Nobody waits when no request does.
LEMMA NoneWaits ==
    /\ NoRequests \in [Clients -> Seq(Nat)]
    /\ requests = NoRequests => Requesters = {}
    /\ requests' = NoRequests => Requesters' = {}
<1>1. <<>> \in Seq(Nat)
  OBVIOUS
<1> QED
  BY <1>1 DEF NoRequests, Requesters

\* Nothing is on the way at first.
LEMMA PinnedInit == Init => PinnedInv
<1> SUFFICES ASSUME Init PROVE PinnedInv
  OBVIOUS
<1> USE ConstantsAssumption DEF Init
<1>1. CountsInv
  BY CountsInit
<1>2. PinnedTypes
  <2>1. <<>> \in Seq(Nat)
    OBVIOUS
  <2> QED
    BY <2>1, NoneWaits DEF PinnedTypes
<1>3. Messages
  BY AllNone DEF Messages
<1>4. Before /\ Creation
  BY DEF Before, Creation, Unborn, Held, NoEntry
<1>5. Pinned
  BY NoneWaits DEF Pinned
<1> QED
  BY <1>1, <1>2, <1>3, <1>4, <1>5 DEF PinnedInv

\* Sending to the server requests for a session that may exist.
LEMMA MessagesSent ==
    ASSUME Messages, NEW c \in Clients, NEW msgs \in Seq(ServerMessage),
           All(msgs, Later), Unborn => All(msgs, Early),
           toServer' = ToServer(c, msgs), session' = session
    PROVE  Messages'
<1>1. /\ toServer' \in [Clients -> Seq(ServerMessage)]
      /\ toServer[c] \in Seq(ServerMessage)
      /\ toServer'[c] = toServer[c] \o msgs
      /\ \A d \in Clients \ {c} : toServer'[d] = toServer[d]
  BY DEF Messages, ToServer
<1>2. Unborn => All(toServer'[c], Early)
  BY <1>1, AllJoined DEF Messages
<1>3. CASE All(toServer[c], Later)
  <2>1. All(toServer'[c], Later)
    BY <1>1, <1>3, AllJoined
  <2> QED
    BY <1>1, <1>2, <2>1 DEF Messages, Unborn
<1>4. CASE /\ c = Creator /\ session = "unborn"
           /\ toServer[c] # <<>> /\ All(Tail(toServer[c]), Later)
  <2>1. Tail(toServer[c]) \in Seq(ServerMessage) /\ toServer'[c] # <<>>
    BY <1>1, <1>4
  <2>2. Tail(toServer'[c]) = Tail(toServer[c]) \o msgs
    BY <1>1, <1>4, TailJoined
  <2>3. All(Tail(toServer'[c]), Later)
    BY <1>4, <2>1, <2>2, AllJoined
  <2> QED
    BY <1>1, <1>2, <1>4, <2>1, <2>3 DEF Messages, Unborn
<1> QED
  BY <1>3, <1>4 DEF Messages

\* Reading one: what remains has nothing to do with the creation.
LEMMA MessagesRead ==
    ASSUME Messages, NEW c \in Clients, toServer[c] # <<>>,
           toServer' = [toServer EXCEPT ![c] = Tail(@)],
           \/ session' = session
           \/ session' \notin {"unborn"} /\ session = "unborn" /\ c = Creator
           \/ session' \notin {"unborn", "creating"} /\ session # "unborn"
    PROVE  Messages'
<1>1. /\ toServer' \in [Clients -> Seq(ServerMessage)]
      /\ toServer[c] \in Seq(ServerMessage)
      /\ toServer'[c] = Tail(toServer[c])
      /\ \A d \in Clients \ {c} : toServer'[d] = toServer[d]
  BY DEF Messages
<1>2. All(toServer'[c], Later)
  BY <1>1, AllTail DEF Messages
<1>3. Unborn => All(toServer'[c], Early)
  BY <1>1, AllTail DEF Messages
<1> QED
  BY <1>1, <1>2, <1>3 DEF Messages, Unborn

\* The server's streams are left alone.
LEMMA MessagesKept ==
    ASSUME Messages, toServer' = toServer,
           \/ session' = session
           \/ session' \notin {"unborn", "creating"} /\ session # "unborn"
    PROVE  Messages'
BY DEF Messages, Unborn

-----------------------------------------------------------------------------
(* One lemma per step of a client or user                                  *)

\* createSession goes to a server that has heard nothing of it.
LEMMA PinnedCreate == PinnedInv /\ Create => PinnedInv'
<1> SUFFICES ASSUME PinnedInv, Create PROVE PinnedInv'
  OBVIOUS
<1> USE ConstantsAssumption
<1> DEFINE m == [kind |-> "create"]
<1>1. /\ open[Creator] /\ session = "unborn" /\ ~inflightCreate
      /\ inflightCreate' = TRUE /\ toServer' = ToServer(Creator, <<m>>)
      /\ UNCHANGED <<toClient, open, unsent, entry, refs, entries, session,
                     loaded, activeTurn, disposing, subscribers, attached,
                     requests, timer>>
  BY DEF Create, sessionVars, servingVars
<1>2. toServer[Creator] = <<>>
  BY <1>1 DEF PinnedInv, Creation
<1>3. <<m>> \in Seq(ServerMessage) /\ <<>> \o <<m>> = <<m>>
  BY DEF ServerMessage
<1>4. All(<<m>>, Early) /\ All(Tail(<<m>>), Later) /\ <<m>> # <<>>
  BY DEF All, Early
<1> HIDE DEF m
<1>5. /\ toServer' \in [Clients -> Seq(ServerMessage)]
      /\ toServer'[Creator] = <<m>>
      /\ \A d \in Clients \ {Creator} : toServer'[d] = toServer[d]
  BY <1>1, <1>2, <1>3 DEF PinnedInv, Messages, ToServer
<1>6. Messages'
  BY <1>1, <1>4, <1>5 DEF PinnedInv, Messages, Unborn
<1>7. CountsInv'
  BY <1>1 DEF PinnedInv, CountsInv, Counted, Ids, IsEntry
<1>8. PinnedTypes' /\ Before' /\ Creation'
  BY <1>1 DEF PinnedInv, PinnedTypes, Before, Unborn, Creation, Held
<1>9. Pinned'
  BY <1>1 DEF PinnedInv, Pinned, Requesters
<1> QED
  BY <1>6, <1>7, <1>8, <1>9 DEF PinnedInv

\* A subscription is requested only of a session that is there, or when its
\* creation has ended.
LEMMA PinnedAcquire == \A c \in Clients : PinnedInv /\ Acquire(c) => PinnedInv'
<1> SUFFICES ASSUME NEW c \in Clients, PinnedInv, Acquire(c) PROVE PinnedInv'
  OBVIOUS
<1> USE ConstantsAssumption
<1>1. CountsInv'
  BY CountsAcquire DEF PinnedInv
<1>2. /\ open[c] /\ Known(c)
      /\ UNCHANGED <<toClient, open, inflightCreate, session, loaded,
                     activeTurn, disposing, subscribers, attached, requests,
                     timer>>
  BY DEF Acquire, sessionVars, servingVars
<1>3. \/ /\ Shareable(entry[c]) /\ UNCHANGED <<toServer, unsent>>
         /\ entry' = [entry EXCEPT ![c].refCount = @ + 1]
      \/ /\ entries' = [entries EXCEPT ![c] = @ + 1]
         /\ entry' = [entry EXCEPT ![c] =
                          [id |-> entries'[c], refCount |-> 1,
                           value |-> "pending", view |-> <<>>,
                           buffered |-> <<>>]]
         /\ toServer' = ToServer(c, AcquireMessages(c, entries'[c]))
         /\ unsent' = IF c = Creator /\ inflightCreate
                      THEN Append(unsent, entries'[c]) ELSE unsent
  BY DEF Acquire
<1>4. /\ \A d \in Clients \ {c} : entry'[d] = entry[d]
      /\ \/ /\ Shareable(entry[c]) /\ UNCHANGED <<toServer, unsent>>
            /\ entry' = [entry EXCEPT ![c].refCount = @ + 1]
         \/ /\ entries'[c] \in Nat /\ entry'[c].value = "pending"
            /\ toServer' = ToServer(c, AcquireMessages(c, entries'[c]))
            /\ unsent' = IF c = Creator /\ inflightCreate
                         THEN Append(unsent, entries'[c]) ELSE unsent
  <2>1. /\ entry = [d \in Clients |-> entry[d]]
        /\ entries \in [Clients -> Nat]
    BY DEF PinnedInv, CountsInv
  <2>2. \A d \in Clients \ {c} : entry'[d] = entry[d]
    BY <1>3, <2>1
  <2> QED
    BY <1>3, <2>1, <2>2
<1>5. Messages'
  <2>1. CASE UNCHANGED toServer
    BY <1>2, <1>4, <2>1, MessagesKept DEF PinnedInv
  <2>2. CASE /\ entries'[c] \in Nat
             /\ toServer' = ToServer(c, AcquireMessages(c, entries'[c]))
    <3> DEFINE i == entries'[c]
               msgs == AcquireMessages(c, i)
    <3>1. /\ Unsubscribe \in ServerMessage /\ Subscribe(i) \in ServerMessage
          /\ Unsubscribe.kind = "unsubscribe" /\ Subscribe(i).kind = "subscribe"
      BY <2>2 DEF ServerMessage, Unsubscribe, Subscribe
    <3>2. msgs \in Seq(ServerMessage) /\ All(msgs, Later)
      BY <3>1 DEF AcquireMessages, All, Later
    <3>3. Unborn => All(msgs, Early)
      BY <1>2, <1>4, <3>1 DEF AcquireMessages, All, Early, Unborn, Known
    <3> HIDE DEF msgs
    <3>4. toServer' = ToServer(c, msgs)
      BY <2>2 DEF msgs
    <3> QED
      BY <1>2, <1>4, <3>2, <3>3, <3>4, MessagesSent DEF PinnedInv
  <2> QED
    BY <1>2, <1>4, <2>1, <2>2
<1>6. PinnedTypes'
  <2>1. unsent' \in Seq(Nat)
    <3>1. unsent \in Seq(Nat)
      BY DEF PinnedInv, PinnedTypes
    <3>2. PICK n \in Nat : unsent' \in {unsent, Append(unsent, n)}
      BY <1>4
    <3>3. Append(unsent, n) \in Seq(Nat)
      BY <3>1
    <3> QED
      BY <3>1, <3>2, <3>3
  <2> QED
    BY <1>2, <2>1 DEF PinnedInv, PinnedTypes
<1>7. Before'
  <2>1. ASSUME Unborn, Shareable(entry[c]),
               entry' = [entry EXCEPT ![c].refCount = @ + 1]
        PROVE  entry'[c].value # "ready"
    <3>1. entry[c] # NoEntry /\ Counted(c, entry[c], refs[c], entries[c])
      BY <2>1 DEF Shareable, PinnedInv, CountsInv
    <3>2. "value" \in DOMAIN entry[c]
      BY <3>1 DEF Counted, IsEntry
    <3>3. entry'[c] = [entry[c] EXCEPT !.refCount = @ + 1]
      BY <2>1 DEF PinnedInv, CountsInv
    <3>4. entry'[c].value = entry[c].value
      BY <3>2, <3>3
    <3> QED
      BY <2>1, <3>1, <3>4 DEF PinnedInv, Before, Held
  <2>2. Unborn => \A d \in Clients : Held(d)' => entry'[d].value # "ready"
    BY <1>2, <1>4, <2>1 DEF PinnedInv, Before, Held
  <2> QED
    BY <1>2, <1>4, <2>2 DEF PinnedInv, Before, Unborn
<1>8. Creation'
  <2>1. session = "unborn" => c = Creator /\ inflightCreate
    BY <1>2 DEF Known
  <2> QED
    BY <1>2, <1>4, <2>1 DEF PinnedInv, Creation
<1>9. Pinned'
  BY <1>2, <1>4 DEF PinnedInv, Pinned, Requesters
<1> QED
  BY <1>1, <1>5, <1>6, <1>7, <1>8, <1>9 DEF PinnedInv

\* The last reference takes an unsubscribe with it.
LEMMA PinnedRelease ==
    \A c \in Clients : \A i \in Ids(c) :
        PinnedInv /\ Release(c, i) => PinnedInv'
<1> SUFFICES ASSUME NEW c \in Clients, NEW i \in Ids(c),
                    PinnedInv, Release(c, i)
             PROVE  PinnedInv'
  OBVIOUS
<1> USE ConstantsAssumption
<1>1. CountsInv'
  BY CountsRelease DEF PinnedInv
<1>2. /\ UNCHANGED <<toClient, open, inflightCreate, unsent, session, loaded,
                     activeTurn, disposing, subscribers, attached, requests,
                     timer>>
      /\ \/ UNCHANGED <<toServer, entry>>
         \/ /\ Held(c) /\ UNCHANGED toServer
            /\ entry' = [entry EXCEPT ![c].refCount = @ - 1]
         \/ /\ Held(c) /\ entry' = [entry EXCEPT ![c] = NoEntry]
            /\ toServer' = ToServer(c, <<Unsubscribe>>)
  BY DEF Release, ReleasesCurrent, sessionVars, servingVars
<1>3. Messages'
  <2>1. /\ <<Unsubscribe>> \in Seq(ServerMessage)
        /\ All(<<Unsubscribe>>, Early) /\ All(<<Unsubscribe>>, Later)
    BY DEF ServerMessage, Unsubscribe, All, Early, Later
  <2>2. CASE UNCHANGED toServer
    BY <1>2, <2>2, MessagesKept DEF PinnedInv
  <2>3. CASE toServer' = ToServer(c, <<Unsubscribe>>)
    BY <1>2, <2>1, <2>3, MessagesSent DEF PinnedInv
  <2> QED
    BY <1>2, <2>2, <2>3
<1>4. PinnedTypes'
  BY <1>2 DEF PinnedInv, PinnedTypes
<1>5. \A d \in Clients : Held(d)' => Held(d) /\ entry'[d].value = entry[d].value
  <2> SUFFICES ASSUME NEW d \in Clients, entry'[d] # NoEntry
               PROVE  entry[d] # NoEntry /\ entry'[d].value = entry[d].value
    BY DEF Held
  <2>1. CASE UNCHANGED entry
    BY <2>1
  <2>2. CASE Held(c) /\ entry' = [entry EXCEPT ![c].refCount = @ - 1]
    <3>1. CASE d = c
      <4>1. /\ entry[c] # NoEntry
            /\ Counted(c, entry[c], refs[c], entries[c])
        BY <2>2 DEF Held, PinnedInv, CountsInv
      <4>2. "value" \in DOMAIN entry[c]
        BY <4>1 DEF Counted, IsEntry
      <4>3. entry'[c] = [entry[c] EXCEPT !.refCount = @ - 1]
        BY <2>2 DEF PinnedInv, CountsInv
      <4>4. entry'[c].value = entry[c].value
        BY <4>2, <4>3
      <4> QED
        BY <3>1, <4>1, <4>4
    <3>2. CASE d # c
      BY <2>2, <3>2 DEF PinnedInv, CountsInv
    <3> QED
      BY <3>1, <3>2
  <2>3. CASE entry' = [entry EXCEPT ![c] = NoEntry]
    BY <2>3 DEF PinnedInv, CountsInv
  <2> QED
    BY <1>2, <2>1, <2>2, <2>3
<1>6. Before'
  BY <1>2, <1>5 DEF PinnedInv, Before, Unborn
<1>7. Creation'
  <2>1. \/ toServer'[Creator] = toServer[Creator]
        \/ c = Creator /\ Held(c)
    <3>1. CASE UNCHANGED toServer
      BY <3>1
    <3>2. CASE Held(c) /\ toServer' = ToServer(c, <<Unsubscribe>>)
      <4>1. toServer \in [Clients -> Seq(ServerMessage)]
        BY DEF PinnedInv, Messages
      <4>2. c # Creator => toServer'[Creator] = toServer[Creator]
        BY <3>2, <4>1 DEF ToServer
      <4> QED
        BY <3>2, <4>2
    <3> QED
      BY <1>2, <3>1, <3>2
  <2> QED
    BY <1>2, <1>5, <2>1 DEF PinnedInv, Creation
<1>8. Pinned'
  BY <1>2 DEF PinnedInv, Pinned, Requesters
<1> QED
  BY <1>1, <1>3, <1>4, <1>6, <1>7, <1>8 DEF PinnedInv

\* What a client can read is not there before the session.
LEMMA NothingToRead ==
    ASSUME PinnedInv, Unborn, NEW c \in Clients, NEW kind
    PROVE  ~ClientReads(c, kind)
BY DEF PinnedInv, Before, ClientReads

\* The end of the creation lets the waiting requests go.
LEMMA PinnedCreated ==
    \A c \in Clients : PinnedInv /\ ReceiveCreated(c) => PinnedInv'
<1> SUFFICES ASSUME NEW c \in Clients, PinnedInv, ReceiveCreated(c)
             PROVE  PinnedInv'
  OBVIOUS
<1> DEFINE msgs == [k \in 1 .. Len(unsent) |-> Subscribe(unsent[k])]
<1>1. /\ inflightCreate' = FALSE /\ unsent' = <<>>
      /\ toServer' = ToServer(c, msgs)
      /\ UNCHANGED <<open, entry, refs, entries, session, loaded, activeTurn,
                     disposing, subscribers, attached, requests, timer>>
      /\ ClientReads(c, "created")
  BY DEF ReceiveCreated, sessionVars, servingVars
<1>2. ~Unborn
  BY <1>1, NothingToRead
<1>3. msgs \in Seq(ServerMessage) /\ All(msgs, Later)
  <2>1. unsent \in Seq(Nat)
    BY DEF PinnedInv, PinnedTypes
  <2>2. \A k \in 1 .. Len(unsent) : Subscribe(unsent[k]) \in ServerMessage
                                  /\ Subscribe(unsent[k]).kind = "subscribe"
    BY <2>1 DEF Subscribe, ServerMessage
  <2> QED
    BY <2>1, <2>2 DEF All, Later
<1> HIDE DEF msgs
<1>4. Messages'
  BY <1>1, <1>2, <1>3, MessagesSent DEF PinnedInv
<1>5. CountsInv'
  BY <1>1 DEF PinnedInv, CountsInv, Counted, Ids, IsEntry
<1>6. PinnedTypes'
  <2>1. <<>> \in Seq(Nat)
    OBVIOUS
  <2> QED
    BY <1>1, <2>1 DEF PinnedInv, PinnedTypes
<1>7. Before' /\ Creation'
  BY <1>1, <1>2 DEF Before, Creation, Unborn
<1>8. Pinned'
  BY <1>1 DEF PinnedInv, Pinned, Requesters
<1> QED
  BY <1>4, <1>5, <1>6, <1>7, <1>8 DEF PinnedInv

\* Answers and envelopes are about a session that exists.
LEMMA PinnedReceive ==
    \A c \in Clients :
        PinnedInv /\ (ReceiveSnapshot(c) \/ ReceiveError(c) \/ ReceiveAction(c))
        => PinnedInv'
<1> SUFFICES ASSUME NEW c \in Clients, PinnedInv,
                    \/ ReceiveSnapshot(c)
                    \/ ReceiveError(c)
                    \/ ReceiveAction(c)
             PROVE  PinnedInv'
  OBVIOUS
<1>1. /\ UNCHANGED <<toServer, open, inflightCreate, unsent, session, loaded,
                     activeTurn, disposing, subscribers, attached, requests,
                     timer>>
      /\ \E kind : ClientReads(c, kind)
  BY DEF ReceiveSnapshot, ReceiveError, ReceiveAction, sessionVars, servingVars
<1>2. ~Unborn
  BY <1>1, NothingToRead
<1>3. CountsInv'
  BY CountsReceive DEF PinnedInv
<1>4. Messages'
  BY <1>1, MessagesKept DEF PinnedInv
<1>5. PinnedTypes' /\ Before' /\ Creation'
  BY <1>1, <1>2 DEF PinnedInv, PinnedTypes, Before, Creation, Unborn
<1>6. Pinned'
  BY <1>1 DEF PinnedInv, Pinned, Requesters
<1> QED
  BY <1>3, <1>4, <1>5, <1>6 DEF PinnedInv

\* A turn is started in a chat that is shown.
LEMMA PinnedStartTurn ==
    \A c \in Clients : PinnedInv /\ StartTurn(c) => PinnedInv'
<1> SUFFICES ASSUME NEW c \in Clients, PinnedInv, StartTurn(c) PROVE PinnedInv'
  OBVIOUS
<1> DEFINE m == [kind |-> "turn"]
<1>1. /\ Held(c) /\ entry[c].value = "ready"
      /\ toServer' = ToServer(c, <<m>>)
      /\ UNCHANGED <<toClient, open, inflightCreate, unsent, entry, refs,
                     entries, session, loaded, activeTurn, disposing,
                     subscribers, attached, requests, timer>>
  BY DEF StartTurn, sessionVars, servingVars
<1>2. ~Unborn
  BY <1>1 DEF PinnedInv, Before
<1>3. <<m>> \in Seq(ServerMessage) /\ All(<<m>>, Later)
  BY DEF ServerMessage, All, Later
<1> HIDE DEF m
<1>4. Messages'
  BY <1>1, <1>2, <1>3, MessagesSent DEF PinnedInv
<1>5. CountsInv'
  BY <1>1 DEF PinnedInv, CountsInv, Counted, Ids, IsEntry
<1>6. PinnedTypes' /\ Before' /\ Creation'
  BY <1>1, <1>2 DEF PinnedInv, PinnedTypes, Before, Creation, Unborn
<1>7. Pinned'
  BY <1>1 DEF PinnedInv, Pinned, Requesters
<1> QED
  BY <1>4, <1>5, <1>6, <1>7 DEF PinnedInv

\* A connection closes, of the creator's too.
LEMMA PinnedClose == \A c \in Clients : PinnedInv /\ Close(c) => PinnedInv'
<1> SUFFICES ASSUME NEW c \in Clients, PinnedInv, Close(c) PROVE PinnedInv'
  OBVIOUS
<1> USE ConstantsAssumption
<1>1. /\ open' = [open EXCEPT ![c] = FALSE]
      /\ toClient' = [toClient EXCEPT ![c] = <<>>]
      /\ entry' = [entry EXCEPT ![c] = NoEntry]
      /\ inflightCreate' = (inflightCreate /\ c # Creator)
      /\ unsent' = IF c = Creator THEN <<>> ELSE unsent
      /\ UNCHANGED <<toServer, session, loaded, activeTurn, disposing,
                     subscribers, attached, requests, timer>>
  BY DEF Close, sessionVars, servingVars
<1>2. CountsInv'
  BY CountsClose DEF PinnedInv
<1>3. Messages'
  BY <1>1, MessagesKept DEF PinnedInv
<1>4. PinnedTypes'
  <2>1. unsent' \in Seq(Nat)
    BY <1>1 DEF PinnedInv, PinnedTypes
  <2>2. open' \in [Clients -> BOOLEAN] /\ inflightCreate' \in BOOLEAN
    BY <1>1 DEF PinnedInv, PinnedTypes
  <2> QED
    BY <1>1, <2>1, <2>2 DEF PinnedInv, PinnedTypes
<1>5. \A d \in Clients : Held(d)' => Held(d) /\ entry'[d] = entry[d]
  BY <1>1 DEF PinnedInv, CountsInv, Held
<1>6. Before'
  <2>1. Unborn => toClient' = [d \in Clients |-> <<>>]
    BY <1>1 DEF PinnedInv, Before
  <2> QED
    BY <1>1, <1>5, <2>1 DEF PinnedInv, Before, Unborn
<1>7. Creation'
  <2>1. open \in [Clients -> BOOLEAN]
    BY DEF PinnedInv, PinnedTypes
  <2>2. open'[Creator] => c # Creator /\ open[Creator]
    BY <1>1, <2>1
  <2>3. open'[Creator] => inflightCreate' = inflightCreate
    BY <1>1, <2>2 DEF PinnedInv, PinnedTypes
  <2> QED
    BY <1>1, <1>5, <2>2, <2>3 DEF PinnedInv, Creation
<1>8. Pinned'
  BY <1>1 DEF PinnedInv, Pinned, Requesters
<1> QED
  BY <1>2, <1>3, <1>4, <1>6, <1>7, <1>8 DEF PinnedInv

-----------------------------------------------------------------------------
(* One lemma per step of the server                                        *)

\* What the kind of a message says about the session.
LEMMA KindRead ==
    ASSUME PinnedInv, NEW c \in Clients, NEW kind, ServerReads(c, kind)
    PROVE  /\ toServer[c] \in Seq(ServerMessage) /\ toServer[c] # <<>>
           /\ toServer' = [toServer EXCEPT ![c] = Tail(@)]
           /\ kind \in {"subscribe", "turn"} => ~Unborn
           /\ kind = "create" => session = "unborn" /\ c = Creator
           /\ kind = "subscribe" => Head(toServer[c]).id \in Nat
<1>1. /\ toServer[c] \in Seq(ServerMessage) /\ toServer[c] # <<>>
      /\ toServer' = [toServer EXCEPT ![c] = Tail(@)]
      /\ Head(toServer[c]).kind = kind
      /\ Head(toServer[c]) \in ServerMessage
  BY DEF ServerReads, PinnedInv, Messages
<1>2. Unborn => kind \in Early
  BY <1>1, AllHead DEF PinnedInv, Messages
<1>3. kind = "create" => ~All(toServer[c], Later)
  BY <1>1, AllHead DEF Later
<1>4. kind = "create" => session = "unborn" /\ c = Creator
  BY <1>3 DEF PinnedInv, Messages
<1>5. kind = "subscribe" => Head(toServer[c]).id \in Nat
  BY <1>1 DEF ServerMessage
<1> QED
  BY <1>1, <1>2, <1>4, <1>5 DEF Early

\* The provider is asked for a session there was not.
LEMMA PinnedReceiveCreate ==
    \A c \in Clients : PinnedInv /\ ReceiveCreate(c) => PinnedInv'
<1> SUFFICES ASSUME NEW c \in Clients, PinnedInv, ReceiveCreate(c)
             PROVE  PinnedInv'
  OBVIOUS
<1>1. /\ session' = "creating" /\ ServerReads(c, "create")
      /\ UNCHANGED <<toClient, open, inflightCreate, unsent, entry, refs,
                     entries, loaded, activeTurn, disposing, subscribers,
                     attached, requests, timer>>
  BY DEF ReceiveCreate, clientVars, servingVars
<1>2. session = "unborn" /\ c = Creator /\ toServer[Creator] # <<>>
      /\ toServer' = [toServer EXCEPT ![c] = Tail(@)]
  BY <1>1, KindRead
<1>3. Messages'
  BY <1>1, <1>2, MessagesRead DEF PinnedInv
<1>4. CountsInv'
  BY <1>1 DEF PinnedInv, CountsInv, Counted, Ids, IsEntry
<1>5. PinnedTypes' /\ Before'
  BY <1>1, <1>2 DEF PinnedInv, PinnedTypes, Before, Unborn, Held
<1>6. Creation'
  BY <1>1, <1>2 DEF PinnedInv, PinnedTypes, Creation
<1>7. Pinned'
  BY <1>1, <1>2 DEF PinnedInv, Pinned, Requesters
<1> QED
  BY <1>3, <1>4, <1>5, <1>6, <1>7 DEF PinnedInv

\* The creation ends: there is a draft, or no session.
LEMMA PinnedCreateEnds == PinnedInv /\ CreateEnds => PinnedInv'
<1> SUFFICES ASSUME PinnedInv, CreateEnds PROVE PinnedInv'
  OBVIOUS
<1>1. /\ session = "creating" /\ session' \in {"draft", "none"}
      /\ loaded' \in {TRUE, loaded}
      /\ UNCHANGED <<toServer, open, inflightCreate, unsent, entry, refs,
                     entries, activeTurn, disposing, subscribers, attached,
                     requests, timer>>
  BY DEF CreateEnds, clientVars, servingVars
<1>2. Requesters = {} /\ attached = {}
  BY <1>1, NoneWaits DEF PinnedInv, Before, Unborn
<1>3. Messages'
  BY <1>1, MessagesKept DEF PinnedInv
<1>4. CountsInv'
  BY <1>1 DEF PinnedInv, CountsInv, Counted, Ids, IsEntry
<1>5. PinnedTypes' /\ Before' /\ Creation'
  BY <1>1 DEF PinnedInv, PinnedTypes, Before, Unborn, Creation
<1>6. Pinned'
  BY <1>1, <1>2 DEF PinnedInv, Pinned, Requesters
<1> QED
  BY <1>3, <1>4, <1>5, <1>6 DEF PinnedInv

\* Once the session exists, the clients are left alone.
LEMMA PinnedLater ==
    ASSUME PinnedInv, ~Unborn, ~Unborn', UNCHANGED <<clientVars, open>>,
           loaded' \in BOOLEAN, activeTurn' \in BOOLEAN,
           disposing' \in BOOLEAN,
           requests' \in [Clients -> Seq(Nat)],
           Messages', Pinned'
    PROVE  PinnedInv'
<1>1. UNCHANGED <<inflightCreate, unsent, entry, refs, entries, open>>
  BY DEF clientVars
<1>2. CountsInv'
  BY <1>1 DEF PinnedInv, CountsInv, Counted, Ids, IsEntry
<1>3. PinnedTypes'
  BY <1>1 DEF PinnedInv, PinnedTypes
<1>4. Before' /\ Creation'
  BY DEF Before, Creation, Unborn
<1> QED
  BY <1>2, <1>3, <1>4 DEF PinnedInv

\* A subscriber is registered before its request is answered or awaited.
LEMMA PinnedReceiveSubscribe ==
    \A c \in Clients : PinnedInv /\ ReceiveSubscribe(c) => PinnedInv'
<1> SUFFICES ASSUME NEW c \in Clients, PinnedInv, ReceiveSubscribe(c)
             PROVE  PinnedInv'
  OBVIOUS
<1> DEFINE i == Head(toServer[c]).id
<1>1. /\ ServerReads(c, "subscribe") /\ subscribers' = subscribers \cup {c}
      /\ \/ loaded /\ attached' = attached \cup {c} /\ UNCHANGED requests
         \/ /\ ~loaded /\ UNCHANGED attached
            /\ requests' = [requests EXCEPT ![c] = Append(@, i)]
      /\ UNCHANGED <<clientVars, open, session, loaded, activeTurn, disposing>>
  BY DEF ReceiveSubscribe, sessionVars
<1>2. /\ toServer[c] # <<>> /\ toServer' = [toServer EXCEPT ![c] = Tail(@)]
      /\ ~Unborn /\ i \in Nat
  BY <1>1, KindRead
<1> HIDE DEF i
<1>3. Messages'
  BY <1>1, <1>2, MessagesRead DEF PinnedInv
<1>4. requests \in [Clients -> Seq(Nat)]
  BY DEF PinnedInv, PinnedTypes
<1>5. requests' \in [Clients -> Seq(Nat)]
  <2>1. Append(requests[c], i) \in Seq(Nat)
    BY <1>2, <1>4
  <2> QED
    BY <1>1, <1>4, <2>1
<1>6. Pinned'
  <2>1. CASE UNCHANGED requests /\ loaded /\ attached' = attached \cup {c}
    BY <1>1, <2>1 DEF PinnedInv, Pinned, Requesters
  <2>2. CASE /\ requests' = [requests EXCEPT ![c] = Append(@, i)] /\ ~loaded
             /\ UNCHANGED attached
    <3>1. Requesters' \subseteq Requesters \cup {c}
      BY <1>4, <2>2 DEF Requesters
    <3> QED
      BY <1>1, <2>2, <3>1 DEF PinnedInv, Pinned
  <2> QED
    BY <1>1, <2>1, <2>2
<1>7. /\ ~Unborn' /\ loaded' \in BOOLEAN /\ activeTurn' \in BOOLEAN
      /\ disposing' \in BOOLEAN
  BY <1>1, <1>2 DEF Unborn, PinnedInv, PinnedTypes
<1> QED
  BY <1>1, <1>2, <1>3, <1>5, <1>6, <1>7, PinnedLater

\* Who waits for a session has asked for it after it existed.
LEMMA RequestedLater ==
    ASSUME PinnedInv, Requesters # {}
    PROVE  ~Unborn
BY NoneWaits DEF PinnedInv, Before

\* All who waited are subscribed to what is now in memory.
LEMMA PinnedRestored == PinnedInv /\ Restored => PinnedInv'
<1> SUFFICES ASSUME PinnedInv, Restored PROVE PinnedInv'
  OBVIOUS
<1>1. /\ Requesters # {} /\ loaded' = TRUE /\ requests' = NoRequests
      /\ attached' = attached \cup (Requesters \cap connected)
      /\ UNCHANGED <<clientVars, open, session, activeTurn, disposing,
                     subscribers, toServer>>
  BY DEF Restored
<1>2. ~Unborn /\ ~Unborn'
  BY <1>1, RequestedLater DEF Unborn
<1>3. Messages'
  BY <1>1, MessagesKept DEF PinnedInv
<1>4. Pinned'
  BY <1>1, NoneWaits DEF PinnedInv, Pinned
<1>5. /\ loaded' \in BOOLEAN /\ activeTurn' \in BOOLEAN
      /\ disposing' \in BOOLEAN
      /\ requests' \in [Clients -> Seq(Nat)]
  BY <1>1, NoneWaits DEF PinnedInv, PinnedTypes
<1> QED
  BY <1>1, <1>2, <1>3, <1>4, <1>5, PinnedLater

\* The registrations of a restore that failed were of no session in memory.
LEMMA PinnedRestoreFails == PinnedInv /\ RestoreFails => PinnedInv'
<1> SUFFICES ASSUME PinnedInv, RestoreFails PROVE PinnedInv'
  OBVIOUS
<1>1. /\ Requesters # {} /\ ~loaded /\ requests' = NoRequests
      /\ UNCHANGED <<clientVars, open, session, loaded, activeTurn, disposing,
                     attached, toServer>>
  BY DEF RestoreFails, sessionVars
<1>2. ~Unborn /\ ~Unborn'
  BY <1>1, RequestedLater DEF Unborn
<1>3. Messages'
  BY <1>1, MessagesKept DEF PinnedInv
<1>4. Pinned'
  BY <1>1, NoneWaits DEF PinnedInv, Pinned
<1>5. /\ loaded' \in BOOLEAN /\ activeTurn' \in BOOLEAN
      /\ disposing' \in BOOLEAN
      /\ requests' \in [Clients -> Seq(Nat)]
  BY <1>1, NoneWaits DEF PinnedInv, PinnedTypes
<1> QED
  BY <1>1, <1>2, <1>3, <1>4, <1>5, PinnedLater

\* A client leaves alone: nobody waits for what is in memory.
LEMMA PinnedLeaves ==
    ASSUME Pinned, NEW c \in Clients,
           IF c \in attached
           THEN Leave({c}) ELSE UNCHANGED <<subscribers, timer>>,
           attached' = attached \ {c},
           UNCHANGED <<session, loaded, requests>>
    PROVE  Pinned'
<1>1. CASE c \in attached
  <2>1. subscribers' = subscribers \ {c}
    BY <1>1 DEF Leave, Left
  <2> QED
    BY <1>1, <2>1 DEF Pinned, Requesters
<1>2. CASE c \notin attached
  BY <1>2 DEF Pinned, Requesters
<1> QED
  BY <1>1, <1>2

\* Before the session exists, nobody leaves it.
LEMMA PinnedUnbornLeaves ==
    ASSUME PinnedInv, Unborn, NEW c \in Clients,
           IF c \in attached
           THEN Leave({c}) ELSE UNCHANGED <<subscribers, timer>>,
           attached' = attached \ {c},
           UNCHANGED <<clientVars, open, session, loaded, activeTurn,
                       disposing, requests, toClient>>
    PROVE  Before'
<1>1. attached = {} /\ attached' = {} /\ UNCHANGED <<timer, entry>>
  BY DEF PinnedInv, Before, clientVars
<1> QED
  BY <1>1 DEF PinnedInv, Before, Unborn, Held

\* A client unsubscribes.
LEMMA PinnedReceiveUnsubscribe ==
    \A c \in Clients : PinnedInv /\ ReceiveUnsubscribe(c) => PinnedInv'
<1> SUFFICES ASSUME NEW c \in Clients, PinnedInv, ReceiveUnsubscribe(c)
             PROVE  PinnedInv'
  OBVIOUS
<1>1. /\ ServerReads(c, "unsubscribe") /\ attached' = attached \ {c}
      /\ IF c \in attached THEN Leave({c}) ELSE UNCHANGED <<subscribers, timer>>
      /\ UNCHANGED <<clientVars, open, session, loaded, activeTurn, disposing,
                     requests, toClient>>
  BY DEF ReceiveUnsubscribe, sessionVars
<1>2. toServer[c] # <<>> /\ toServer' = [toServer EXCEPT ![c] = Tail(@)]
  BY <1>1, KindRead
<1>3. Messages'
  BY <1>1, <1>2, MessagesRead DEF PinnedInv
<1>4. Pinned'
  BY <1>1, PinnedLeaves DEF PinnedInv
<1>5. UNCHANGED <<inflightCreate, unsent, entry, refs, entries>>
  BY <1>1 DEF clientVars
<1>6. CountsInv' /\ PinnedTypes'
  BY <1>1, <1>5 DEF PinnedInv, CountsInv, Counted, Ids, IsEntry, PinnedTypes
<1>7. Before'
  <2>1. CASE Unborn
    BY <1>1, <2>1, PinnedUnbornLeaves
  <2>2. CASE ~Unborn
    BY <1>1, <2>2 DEF Before, Unborn
  <2> QED
    BY <2>1, <2>2
<1>8. Creation'
  <2>1. session = "unborn" /\ open[Creator] /\ ~inflightCreate => c # Creator
    BY <1>2 DEF PinnedInv, Creation
  <2>2. c # Creator => toServer'[Creator] = toServer[Creator]
    BY <1>2, ConstantsAssumption DEF PinnedInv, Messages
  <2> QED
    BY <1>1, <1>5, <2>1, <2>2 DEF PinnedInv, Creation, Held
<1> QED
  BY <1>3, <1>4, <1>6, <1>7, <1>8 DEF PinnedInv

\* The server learns that a connection has closed.
LEMMA PinnedServerClosed ==
    \A c \in Clients : PinnedInv /\ ServerClosed(c) => PinnedInv'
<1> SUFFICES ASSUME NEW c \in Clients, PinnedInv, ServerClosed(c)
             PROVE  PinnedInv'
  OBVIOUS
<1>1. /\ ~open[c] /\ toServer' = [toServer EXCEPT ![c] = <<>>]
      /\ attached' = attached \ {c}
      /\ IF c \in attached THEN Leave({c}) ELSE UNCHANGED <<subscribers, timer>>
      /\ UNCHANGED <<clientVars, open, session, loaded, activeTurn, disposing,
                     requests, toClient>>
  BY DEF ServerClosed, sessionVars
<1>2. /\ toServer' \in [Clients -> Seq(ServerMessage)] /\ toServer'[c] = <<>>
      /\ \A d \in Clients \ {c} : toServer'[d] = toServer[d]
  <2>1. /\ toServer \in [Clients -> Seq(ServerMessage)]
        /\ <<>> \in Seq(ServerMessage)
    BY DEF PinnedInv, Messages
  <2> QED
    BY <1>1, <2>1
<1>3. Messages'
  BY <1>1, <1>2, AllNone DEF PinnedInv, Messages, Unborn
<1>4. Pinned'
  BY <1>1, PinnedLeaves DEF PinnedInv
<1>5. UNCHANGED <<inflightCreate, unsent, entry, refs, entries>>
  BY <1>1 DEF clientVars
<1>6. CountsInv' /\ PinnedTypes'
  BY <1>1, <1>5 DEF PinnedInv, CountsInv, Counted, Ids, IsEntry, PinnedTypes
<1>7. Before'
  <2>1. CASE Unborn
    BY <1>1, <2>1, PinnedUnbornLeaves
  <2>2. CASE ~Unborn
    BY <1>1, <2>2 DEF Before, Unborn
  <2> QED
    BY <2>1, <2>2
<1>8. Creation'
  BY <1>1, <1>2, <1>5, ConstantsAssumption DEF PinnedInv, Creation, Held
<1> QED
  BY <1>3, <1>4, <1>6, <1>7, <1>8 DEF PinnedInv

\* A turn makes a draft a session that stays.
LEMMA PinnedReceiveTurn ==
    \A c \in Clients : PinnedInv /\ ReceiveTurn(c) => PinnedInv'
<1> SUFFICES ASSUME NEW c \in Clients, PinnedInv, ReceiveTurn(c)
             PROVE  PinnedInv'
  OBVIOUS
<1>1. /\ ServerReads(c, "turn") /\ activeTurn' = loaded
      /\ session' \in {session, UsedBy(session)}
      /\ UNCHANGED <<clientVars, open, loaded, disposing, subscribers,
                     attached, requests>>
  BY DEF ReceiveTurn, servingVars
<1>2. /\ toServer[c] # <<>> /\ toServer' = [toServer EXCEPT ![c] = Tail(@)]
      /\ ~Unborn
  BY <1>1, KindRead
<1>3. ~Unborn' /\ (session' = "gone" <=> session = "gone")
  BY <1>1, <1>2 DEF Unborn, UsedBy
<1>4. Messages'
  BY <1>2, <1>3, MessagesRead DEF PinnedInv, Unborn
<1>5. Pinned'
  BY <1>1, <1>3 DEF PinnedInv, Pinned, Requesters
<1>6. /\ loaded' \in BOOLEAN /\ activeTurn' \in BOOLEAN
      /\ disposing' \in BOOLEAN
      /\ requests' \in [Clients -> Seq(Nat)]
  BY <1>1 DEF PinnedInv, PinnedTypes
<1> QED
  BY <1>1, <1>2, <1>3, <1>4, <1>5, <1>6, PinnedLater

\* A turn ends, a timer fires or the disposal ends: only what nobody is
\* subscribed to leaves the memory, unless it is deleted.
LEMMA PinnedRest ==
    PinnedInv /\ (EndTurn \/ GcFires \/ DisposeEnds \/ ReleaseFires)
    => PinnedInv'
<1> SUFFICES ASSUME PinnedInv,
                    EndTurn \/ GcFires \/ DisposeEnds \/ ReleaseFires
             PROVE  PinnedInv'
  OBVIOUS
<1>1. /\ activeTurn \/ disposing \/ timer # "none"
      /\ \/ session' = session
         \/ session' = "gone"
      /\ UNCHANGED <<clientVars, open, subscribers, attached, requests,
                     toServer>>
  BY DEF EndTurn, GcFires, DisposeEnds, ReleaseFires, servingVars
<1>2. ~Unborn /\ ~Unborn'
  BY <1>1 DEF PinnedInv, Before, Unborn
<1>3. Messages'
  BY <1>1, <1>2, MessagesKept DEF PinnedInv, Unborn
<1>4. /\ loaded' \in BOOLEAN /\ activeTurn' \in BOOLEAN
      /\ disposing' \in BOOLEAN
  BY DEF EndTurn, GcFires, DisposeEnds, ReleaseFires, PinnedInv, PinnedTypes
<1>5. \/ session' = "gone"
      \/ loaded' = loaded
      \/ subscribers = {} /\ Requesters = {}
  BY DEF EndTurn, GcFires, DisposeEnds, ReleaseFires, Evictable, PinnedInv,
         PinnedTypes
<1>6. Pinned'
  BY <1>1, <1>5 DEF PinnedInv, Pinned, Requesters
<1>7. requests' \in [Clients -> Seq(Nat)]
  BY <1>1 DEF PinnedInv, PinnedTypes
<1> QED
  BY <1>1, <1>2, <1>3, <1>4, <1>6, <1>7, PinnedLater

\* Every step keeps what is subscribed pinned.
LEMMA PinnedNext == PinnedInv /\ [Next]_vars => PinnedInv'
<1> SUFFICES ASSUME PinnedInv, [Next]_vars PROVE PinnedInv'
  OBVIOUS
<1>1. CASE ServerStep
  BY <1>1, PinnedCreateEnds, PinnedRestored, PinnedRestoreFails, PinnedRest,
     PinnedReceiveCreate, PinnedReceiveSubscribe, PinnedReceiveUnsubscribe,
     PinnedReceiveTurn, PinnedServerClosed DEF ServerStep
<1>2. CASE \E c \in Clients : ClientStep(c)
  BY <1>2, PinnedCreated, PinnedReceive DEF ClientStep
<1>3. CASE UserStep
  BY <1>3, PinnedCreate, PinnedRest, PinnedAcquire, PinnedStartTurn,
     PinnedClose, PinnedRelease DEF UserStep
<1>4. CASE UNCHANGED vars
  <2>1. UNCHANGED <<toServer, toClient, open, inflightCreate, unsent, entry,
                    refs, entries, session, loaded, activeTurn, disposing,
                    subscribers, attached, requests, timer>>
    BY <1>4 DEF vars
  <2>2. CountsInv'
    BY <2>1 DEF PinnedInv, CountsInv, Counted, Ids, IsEntry
  <2>3. PinnedTypes' /\ Before' /\ Creation' /\ Pinned'
    BY <2>1 DEF PinnedInv, PinnedTypes, Before, Unborn, Creation, Pinned,
                Requesters, Held
  <2>4. Messages'
    BY <2>1, MessagesKept DEF PinnedInv
  <2> QED
    BY <2>2, <2>3, <2>4 DEF PinnedInv
<1> QED
  BY <1>1, <1>2, <1>3, <1>4 DEF Next

\* A session that a connection is subscribed to, or waits for, has that
\* client among its subscribers, and one subscribed to is in memory: neither
\* the release timer nor a failed restore nor another's leaving takes it away
\* (_resourceSubscribers and _maybeEvictIdleSession of agentService.ts).
THEOREM PinnedWhileSubscribed == Spec => []SubscribedIsPinned
<1>1. PinnedInv => SubscribedIsPinned
  BY DEF PinnedInv, Pinned, SubscribedIsPinned
<1> QED
  BY <1>1, PinnedInit, PinnedNext, PTL DEF Spec

-----------------------------------------------------------------------------
(* What is on the way to the server                                        *)

\* Entry i is asked for in s.
Asks(s, i) == \E k \in 1 .. Len(s) : s[k].kind = "subscribe" /\ s[k].id = i

\* No entry is asked for twice.
Once(s) ==
    \A k, l \in 1 .. Len(s) :
        /\ s[k].kind = "subscribe" /\ s[l].kind = "subscribe"
        /\ s[k].id = s[l].id
        => k = l

\* A retraction is on its way.
Retracts(s) == \E k \in 1 .. Len(s) : s[k].kind = "unsubscribe"

\* A retraction follows the request for entry i.
RetractsAfter(s, i) ==
    \E k, l \in 1 .. Len(s) :
        /\ k < l
        /\ s[k].kind = "subscribe" /\ s[k].id = i
        /\ s[l].kind = "unsubscribe"

\* The last word is a retraction.
EndsRetracted(s) ==
    \E k \in 1 .. Len(s) :
        /\ s[k].kind = "unsubscribe"
        /\ \A l \in 1 .. Len(s) : l > k => s[l].kind # "subscribe"

\* What the server has read is not on the way any more.
LEMMA ServerRead ==
    ASSUME NEW s \in Seq(ServerMessage), s # <<>>
    PROVE  LET t == Tail(s)
               m == Head(s)
           IN /\ \A i : Asks(t, i) => Asks(s, i)
              /\ \A i : Asks(s, i) => \/ Asks(t, i)
                                      \/ m.kind = "subscribe" /\ m.id = i
              /\ Once(s) => Once(t)
              /\ Once(s) /\ m.kind = "subscribe" => ~Asks(t, m.id)
              /\ m.kind = "subscribe" => Asks(s, m.id)
              /\ Retracts(t) => Retracts(s)
              /\ m.kind = "unsubscribe" => Retracts(s)
              /\ \A i : RetractsAfter(t, i) => RetractsAfter(s, i)
              /\ m.kind = "subscribe" /\ Retracts(t) => RetractsAfter(s, m.id)
              /\ EndsRetracted(s) =>
                    \/ EndsRetracted(t)
                    \/ m.kind = "unsubscribe" /\ \A i : ~Asks(t, i)
<1> DEFINE t == Tail(s)
           m == Head(s)
           n == Len(s)
<1>1. /\ n \in Nat \ {0} /\ Len(t) = n - 1
      /\ m = s[1] /\ t \in Seq(ServerMessage)
      /\ \A k \in 1 .. n - 1 : t[k] = s[k + 1] /\ k + 1 \in 1 .. n
      /\ \A k \in 1 .. n : k = 1 \/ (k - 1 \in 1 .. n - 1 /\ s[k] = t[k - 1])
      /\ 1 \in 1 .. n
  OBVIOUS
<1> HIDE DEF t, m, n
<1>2. Len(s) = n
  BY DEF n
<1>3. \A i : Asks(t, i) => Asks(s, i)
  BY <1>1, <1>2 DEF Asks
<1>4. \A i : Asks(s, i) => \/ Asks(t, i)
                           \/ m.kind = "subscribe" /\ m.id = i
  <2> SUFFICES ASSUME NEW i, NEW k \in 1 .. n, s[k].kind = "subscribe",
                      s[k].id = i
               PROVE  \/ Asks(t, i)
                      \/ m.kind = "subscribe" /\ m.id = i
    BY <1>2 DEF Asks
  <2>1. CASE k = 1
    BY <1>1, <2>1
  <2>2. CASE k # 1
    <3>1. k - 1 \in 1 .. Len(t) /\ t[k - 1] = s[k]
      BY <1>1, <2>2
    <3> QED
      BY <3>1 DEF Asks
  <2> QED
    BY <2>1, <2>2
<1>5. Once(s) => Once(t)
  <2> SUFFICES ASSUME Once(s), NEW k \in 1 .. Len(t), NEW l \in 1 .. Len(t),
                      t[k].kind = "subscribe", t[l].kind = "subscribe",
                      t[k].id = t[l].id
               PROVE  k = l
    BY DEF Once
  <2>1. k + 1 = l + 1
    BY <1>1, <1>2 DEF Once
  <2> QED
    BY <2>1, <1>1
<1>6. Once(s) /\ m.kind = "subscribe" => ~Asks(t, m.id)
  <2> SUFFICES ASSUME Once(s), m.kind = "subscribe", NEW k \in 1 .. Len(t),
                      t[k].kind = "subscribe", t[k].id = m.id
               PROVE  FALSE
    BY DEF Asks
  <2>1. 1 = k + 1
    BY <1>1, <1>2 DEF Once
  <2> QED
    BY <2>1, <1>1
<1>7. /\ m.kind = "subscribe" => Asks(s, m.id)
      /\ m.kind = "unsubscribe" => Retracts(s)
  BY <1>1, <1>2 DEF Asks, Retracts
<1>8. Retracts(t) => Retracts(s)
  BY <1>1, <1>2 DEF Retracts
<1>9. \A i : RetractsAfter(t, i) => RetractsAfter(s, i)
  <2> SUFFICES ASSUME NEW i, NEW k \in 1 .. Len(t), NEW l \in 1 .. Len(t),
                      k < l, t[k].kind = "subscribe", t[k].id = i,
                      t[l].kind = "unsubscribe"
               PROVE  RetractsAfter(s, i)
    BY DEF RetractsAfter
  <2>1. /\ k + 1 \in 1 .. n /\ l + 1 \in 1 .. n /\ k + 1 < l + 1
        /\ s[k + 1] = t[k] /\ s[l + 1] = t[l]
    BY <1>1
  <2> QED
    BY <2>1, <1>2 DEF RetractsAfter
<1>10. m.kind = "subscribe" /\ Retracts(t) => RetractsAfter(s, m.id)
  <2> SUFFICES ASSUME m.kind = "subscribe", NEW l \in 1 .. Len(t),
                      t[l].kind = "unsubscribe"
               PROVE  RetractsAfter(s, m.id)
    BY DEF Retracts
  <2>1. l + 1 \in 1 .. n /\ 1 < l + 1 /\ s[l + 1] = t[l]
    BY <1>1
  <2> QED
    BY <2>1, <1>1, <1>2 DEF RetractsAfter
<1>11. EndsRetracted(s) => \/ EndsRetracted(t)
                           \/ m.kind = "unsubscribe" /\ \A i : ~Asks(t, i)
  <2> SUFFICES ASSUME NEW k \in 1 .. n, s[k].kind = "unsubscribe",
                      \A l \in 1 .. n : l > k => s[l].kind # "subscribe"
               PROVE  \/ EndsRetracted(t)
                      \/ m.kind = "unsubscribe" /\ \A i : ~Asks(t, i)
    BY <1>2 DEF EndsRetracted
  <2>1. \A l \in 1 .. Len(t) : l + 1 > k => t[l].kind # "subscribe"
    BY <1>1
  <2>2. CASE k = 1
    BY <1>1, <2>1, <2>2 DEF Asks
  <2>3. CASE k # 1
    <3>1. k - 1 \in 1 .. Len(t) /\ t[k - 1].kind = "unsubscribe"
      BY <1>1, <2>3
    <3>2. \A l \in 1 .. Len(t) : l > k - 1 => t[l].kind # "subscribe"
      BY <1>1, <2>1
    <3> QED
      BY <3>1, <3>2 DEF EndsRetracted
  <2> QED
    BY <2>2, <2>3
<1> QED
  BY <1>3, <1>4, <1>5, <1>6, <1>7, <1>8, <1>9, <1>10, <1>11 DEF t, m

\* What a client sends is on the way as well.
LEMMA ServerSent ==
    ASSUME NEW s \in Seq(ServerMessage), NEW m \in Seq(ServerMessage)
    PROVE  LET t == s \o m
           IN /\ \A i : Asks(t, i) <=> Asks(s, i) \/ Asks(m, i)
              /\ /\ Once(s) /\ Once(m)
                 /\ \A i : ~(Asks(s, i) /\ Asks(m, i))
                 => Once(t)
              /\ Retracts(t) <=> Retracts(s) \/ Retracts(m)
              /\ \A i : RetractsAfter(t, i) =>
                    \/ RetractsAfter(s, i) \/ RetractsAfter(m, i)
                    \/ Asks(s, i) /\ Retracts(m)
              /\ EndsRetracted(s) /\ (\A i : ~Asks(m, i)) => EndsRetracted(t)
              /\ EndsRetracted(m) => EndsRetracted(t)
<1> DEFINE t == s \o m
           n == Len(s)
           p == Len(m)
<1>1. /\ n \in Nat /\ p \in Nat /\ Len(t) = n + p
      /\ \A k \in 1 .. n : t[k] = s[k] /\ k \in 1 .. n + p
      /\ \A k \in 1 .. p : t[n + k] = m[k] /\ n + k \in 1 .. n + p
      /\ \A k \in 1 .. n + p :
            \/ k \in 1 .. n /\ t[k] = s[k]
            \/ k - n \in 1 .. p /\ t[k] = m[k - n] /\ k > n
  OBVIOUS
<1> HIDE DEF t, n, p
<1>2. Len(s) = n /\ Len(m) = p
  BY DEF n, p
<1>3. \A i : Asks(t, i) <=> Asks(s, i) \/ Asks(m, i)
  BY <1>1, <1>2 DEF Asks
<1>4. /\ Once(s) /\ Once(m)
      /\ \A i : ~(Asks(s, i) /\ Asks(m, i))
      => Once(t)
  <2> SUFFICES ASSUME Once(s), Once(m),
                      \A i : ~(Asks(s, i) /\ Asks(m, i)),
                      NEW k \in 1 .. n + p, NEW l \in 1 .. n + p,
                      t[k].kind = "subscribe", t[l].kind = "subscribe",
                      t[k].id = t[l].id
               PROVE  k = l
    BY <1>1 DEF Once
  <2>1. CASE k \in 1 .. n /\ l \in 1 .. n
    BY <1>1, <1>2, <2>1 DEF Once
  <2>2. CASE k \notin 1 .. n /\ l \notin 1 .. n
    <3>1. k - n = l - n
      BY <1>1, <1>2, <2>2 DEF Once
    <3> QED
      BY <3>1, <1>1
  <2>3. CASE k \in 1 .. n /\ l \notin 1 .. n
    <3>1. k \in 1 .. n /\ s[k] = t[k] /\ l - n \in 1 .. p /\ m[l - n] = t[l]
      BY <1>1, <2>3
    <3>2. Asks(s, t[k].id) /\ Asks(m, t[k].id)
      BY <1>2, <3>1 DEF Asks
    <3> QED
      BY <3>2
  <2>4. CASE k \notin 1 .. n /\ l \in 1 .. n
    <3>1. l \in 1 .. n /\ s[l] = t[l] /\ k - n \in 1 .. p /\ m[k - n] = t[k]
      BY <1>1, <2>4
    <3>2. Asks(s, t[k].id) /\ Asks(m, t[k].id)
      BY <1>2, <3>1 DEF Asks
    <3> QED
      BY <3>2
  <2> QED
    BY <2>1, <2>2, <2>3, <2>4
<1>5. Retracts(t) <=> Retracts(s) \/ Retracts(m)
  <2>1. ASSUME Retracts(t) PROVE Retracts(s) \/ Retracts(m)
    <3>1. PICK k \in 1 .. n + p : t[k].kind = "unsubscribe"
      BY <1>1, <2>1 DEF Retracts
    <3>2. CASE k \in 1 .. n /\ t[k] = s[k]
      BY <3>1, <3>2, <1>2 DEF Retracts
    <3>3. CASE k - n \in 1 .. p /\ t[k] = m[k - n]
      <4>1. m[k - n].kind = "unsubscribe"
        BY <3>1, <3>3
      <4> QED
        BY <4>1, <3>3, <1>2 DEF Retracts
    <3> QED
      BY <3>2, <3>3, <1>1
  <2>2. ASSUME Retracts(s) PROVE Retracts(t)
    <3>1. PICK k \in 1 .. n : s[k].kind = "unsubscribe"
      BY <1>2, <2>2 DEF Retracts
    <3> QED
      BY <3>1, <1>1 DEF Retracts
  <2>3. ASSUME Retracts(m) PROVE Retracts(t)
    <3>1. PICK k \in 1 .. p : m[k].kind = "unsubscribe"
      BY <1>2, <2>3 DEF Retracts
    <3>2. n + k \in 1 .. Len(t) /\ t[n + k].kind = "unsubscribe"
      BY <3>1, <1>1
    <3> QED
      BY <3>2 DEF Retracts
  <2> QED
    BY <2>1, <2>2, <2>3
<1>6. \A i : RetractsAfter(t, i) => \/ RetractsAfter(s, i)
                                    \/ RetractsAfter(m, i)
                                    \/ Asks(s, i) /\ Retracts(m)
  <2> SUFFICES ASSUME NEW i, NEW k \in 1 .. n + p, NEW l \in 1 .. n + p,
                      k < l, t[k].kind = "subscribe", t[k].id = i,
                      t[l].kind = "unsubscribe"
               PROVE  \/ RetractsAfter(s, i) \/ RetractsAfter(m, i)
                      \/ Asks(s, i) /\ Retracts(m)
    BY <1>1 DEF RetractsAfter
  <2>1. CASE l \in 1 .. n
    <3>1. k \in 1 .. n /\ t[k] = s[k] /\ t[l] = s[l]
      BY <1>1, <2>1
    <3> QED
      BY <3>1, <2>1, <1>2 DEF RetractsAfter
  <2>2. CASE l \notin 1 .. n /\ k \in 1 .. n
    <3>1. Asks(s, i)
      BY <1>1, <1>2, <2>2 DEF Asks
    <3>2. Retracts(m)
      BY <1>1, <1>2, <2>2 DEF Retracts
    <3> QED
      BY <3>1, <3>2
  <2>3. CASE l \notin 1 .. n /\ k \notin 1 .. n
    <3>1. /\ k - n \in 1 .. p /\ l - n \in 1 .. p /\ k - n < l - n
          /\ t[k] = m[k - n] /\ t[l] = m[l - n]
      BY <1>1, <2>3
    <3> QED
      BY <3>1, <1>2 DEF RetractsAfter
  <2> QED
    BY <2>1, <2>2, <2>3
<1>7. EndsRetracted(s) /\ (\A i : ~Asks(m, i)) => EndsRetracted(t)
  <2> SUFFICES ASSUME NEW k \in 1 .. n, s[k].kind = "unsubscribe",
                      \A l \in 1 .. n : l > k => s[l].kind # "subscribe",
                      \A i : ~Asks(m, i)
               PROVE  EndsRetracted(t)
    BY <1>2 DEF EndsRetracted
  <2>1. \A l \in 1 .. p : m[l].kind # "subscribe"
    BY <1>2 DEF Asks
  <2>2. \A l \in 1 .. n + p : l > k => t[l].kind # "subscribe"
    BY <1>1, <2>1
  <2>3. k \in 1 .. n + p /\ t[k].kind = "unsubscribe"
    BY <1>1
  <2> QED
    BY <1>1, <2>2, <2>3 DEF EndsRetracted
<1>8. EndsRetracted(m) => EndsRetracted(t)
  <2> SUFFICES ASSUME NEW k \in 1 .. p, m[k].kind = "unsubscribe",
                      \A l \in 1 .. p : l > k => m[l].kind # "subscribe"
               PROVE  EndsRetracted(t)
    BY <1>2 DEF EndsRetracted
  <2>1. n + k \in 1 .. n + p /\ t[n + k].kind = "unsubscribe"
    BY <1>1
  <2>2. ASSUME NEW l \in 1 .. n + p, l > n + k
        PROVE  t[l].kind # "subscribe"
    <3>1. l - n \in 1 .. p /\ l - n > k /\ t[l] = m[l - n]
      BY <1>1, <2>2
    <3> QED
      BY <3>1
  <2> QED
    BY <1>1, <2>1, <2>2 DEF EndsRetracted
<1> QED
  BY <1>3, <1>4, <1>5, <1>6, <1>7, <1>8 DEF t

\* Nothing is said in an empty stream.
LEMMA ServerSilent ==
    /\ \A i : ~Asks(<<>>, i) /\ ~RetractsAfter(<<>>, i)
    /\ Once(<<>>) /\ ~Retracts(<<>>)
BY DEF Asks, Once, Retracts, RetractsAfter

-----------------------------------------------------------------------------
(* What is on the way to a client                                          *)

\* The messages of a stream to a client.
ClientMessage ==
    [kind : {"created"}] \cup [kind : {"error"}, id : Nat]
        \cup [kind : {"snapshot"}, id : Nat, seq : Nat]
        \cup [kind : {"action"}, seq : Nat]

\* The request for entry i is answered in t.
Answers(t, i) ==
    \E k \in 1 .. Len(t) : t[k].kind \in {"snapshot", "error"} /\ t[k].id = i

\* The answer to the request for entry i is a snapshot.
SnapshotOf(t, i) ==
    \E k \in 1 .. Len(t) : t[k].kind = "snapshot" /\ t[k].id = i

\* The end of the creation is told.
TellsCreated(t) == \E k \in 1 .. Len(t) : t[k].kind = "created"

\* Only the creator is told the end of the creation.
Streams ==
    /\ toClient \in [Clients -> Seq(ClientMessage)]
    /\ serverSeq \in Nat
    /\ \A c \in Clients : TellsCreated(toClient[c]) => c = Creator

\* What a client has read is not on the way any more.
LEMMA ClientRead ==
    ASSUME NEW t \in Seq(ClientMessage), t # <<>>
    PROVE  /\ Tail(t) \in Seq(ClientMessage) /\ Head(t) \in ClientMessage
           /\ \A i : Answers(Tail(t), i) => Answers(t, i)
           /\ \A i : SnapshotOf(Tail(t), i) => SnapshotOf(t, i)
           /\ TellsCreated(Tail(t)) => TellsCreated(t)
           /\ Head(t).kind = "created" => TellsCreated(t)
           /\ Head(t).kind = "snapshot" => SnapshotOf(t, Head(t).id)
           /\ Head(t).kind \in {"snapshot", "error"} => Answers(t, Head(t).id)
<1> DEFINE r == Tail(t)
<1>1. /\ r \in Seq(ClientMessage) /\ Head(t) \in ClientMessage
      /\ Head(t) = t[1] /\ 1 \in 1 .. Len(t)
      /\ \A k \in 1 .. Len(r) : r[k] = t[k + 1] /\ k + 1 \in 1 .. Len(t)
  OBVIOUS
<1> HIDE DEF r
<1>2. \A i : Answers(r, i) => Answers(t, i)
  BY <1>1 DEF Answers
<1>3. \A i : SnapshotOf(r, i) => SnapshotOf(t, i)
  BY <1>1 DEF SnapshotOf
<1>4. TellsCreated(r) => TellsCreated(t)
  BY <1>1 DEF TellsCreated
<1>5. /\ Head(t).kind = "created" => TellsCreated(t)
      /\ Head(t).kind = "snapshot" => SnapshotOf(t, Head(t).id)
      /\ Head(t).kind \in {"snapshot", "error"} => Answers(t, Head(t).id)
  BY <1>1 DEF TellsCreated, SnapshotOf, Answers
<1> QED
  BY <1>1, <1>2, <1>3, <1>4, <1>5 DEF r

\* What a client is told is on the way as well.
LEMMA ClientTold ==
    ASSUME NEW t \in Seq(ClientMessage), NEW m \in Seq(ClientMessage)
    PROVE  /\ t \o m \in Seq(ClientMessage)
           /\ \A i : Answers(t \o m, i) => Answers(t, i) \/ Answers(m, i)
           /\ \A i : SnapshotOf(t \o m, i) =>
                      SnapshotOf(t, i) \/ SnapshotOf(m, i)
           /\ TellsCreated(t \o m) => TellsCreated(t) \/ TellsCreated(m)
<1> DEFINE r == t \o m
<1>1. /\ r \in Seq(ClientMessage)
      /\ \A k \in 1 .. Len(r) :
            \/ k \in 1 .. Len(t) /\ r[k] = t[k]
            \/ k - Len(t) \in 1 .. Len(m) /\ r[k] = m[k - Len(t)]
  OBVIOUS
<1> HIDE DEF r
<1>2. \A i : Answers(r, i) => Answers(t, i) \/ Answers(m, i)
  BY <1>1 DEF Answers
<1>3. \A i : SnapshotOf(r, i) => SnapshotOf(t, i) \/ SnapshotOf(m, i)
  BY <1>1 DEF SnapshotOf
<1>4. TellsCreated(r) => TellsCreated(t) \/ TellsCreated(m)
  BY <1>1 DEF TellsCreated
<1> QED
  BY <1>1, <1>2, <1>3, <1>4 DEF r

\* One message more.
LEMMA ClientToldOne ==
    ASSUME NEW t \in Seq(ClientMessage), NEW m \in ClientMessage
    PROVE  /\ Append(t, m) \in Seq(ClientMessage)
           /\ \A i : Answers(Append(t, m), i) =>
                 \/ Answers(t, i)
                 \/ m.kind \in {"snapshot", "error"} /\ m.id = i
           /\ \A i : SnapshotOf(Append(t, m), i) =>
                 SnapshotOf(t, i) \/ (m.kind = "snapshot" /\ m.id = i)
           /\ TellsCreated(Append(t, m)) =>
                 TellsCreated(t) \/ m.kind = "created"
<1> DEFINE r == Append(t, m)
<1>1. /\ r \in Seq(ClientMessage)
      /\ \A k \in 1 .. Len(r) : \/ k \in 1 .. Len(t) /\ r[k] = t[k]
                                \/ r[k] = m
  OBVIOUS
<1> HIDE DEF r
<1>2. \A i : Answers(r, i) =>
                 \/ Answers(t, i)
                 \/ m.kind \in {"snapshot", "error"} /\ m.id = i
  BY <1>1 DEF Answers
<1>3. \A i : SnapshotOf(r, i) =>
                 SnapshotOf(t, i) \/ (m.kind = "snapshot" /\ m.id = i)
  BY <1>1 DEF SnapshotOf
<1>4. TellsCreated(r) => TellsCreated(t) \/ m.kind = "created"
  BY <1>1 DEF TellsCreated
<1> QED
  BY <1>1, <1>2, <1>3, <1>4 DEF r

\* A client that is told nothing.
LEMMA ClientSilent ==
    /\ \A i : ~Answers(<<>>, i) /\ ~SnapshotOf(<<>>, i)
    /\ ~TellsCreated(<<>>) /\ <<>> \in Seq(ClientMessage)
BY DEF Answers, SnapshotOf, TellsCreated

\* What is sent to a client that is there.
LEMMA OneSent ==
    ASSUME Streams, NEW c \in Clients, NEW m \in ClientMessage,
           toClient' = Sent(toClient, c, m)
    PROVE  /\ toClient' \in [Clients -> Seq(ClientMessage)]
           /\ toClient'[c] \in {toClient[c], Append(toClient[c], m)}
           /\ \A d \in Clients \ {c} : toClient'[d] = toClient[d]
<1>1. Append(toClient[c], m) \in Seq(ClientMessage)
  BY DEF Streams
<1> QED
  BY <1>1 DEF Streams, Sent

\* An envelope tells a client nothing else.
LEMMA EnvelopeSent ==
    ASSUME Streams, Emit
    PROVE  /\ Streams'
           /\ \A d \in Clients :
                 /\ \A i : Answers(toClient'[d], i) => Answers(toClient[d], i)
                 /\ \A i : SnapshotOf(toClient'[d], i)
                              => SnapshotOf(toClient[d], i)
<1> DEFINE m == [kind |-> "action", seq |-> serverSeq']
<1>1. serverSeq' \in Nat /\ m \in ClientMessage /\ m.kind = "action"
  BY DEF Streams, Emit, ClientMessage
<1>2. toClient' = [c \in Clients |-> IF c \in attached /\ open[c]
                                     THEN Append(toClient[c], m)
                                     ELSE toClient[c]]
  BY DEF Emit
<1> HIDE DEF m
<1>3. ASSUME NEW d \in Clients
      PROVE  /\ toClient'[d] \in Seq(ClientMessage)
             /\ \A i : Answers(toClient'[d], i) => Answers(toClient[d], i)
             /\ \A i : SnapshotOf(toClient'[d], i) => SnapshotOf(toClient[d], i)
             /\ TellsCreated(toClient'[d]) => TellsCreated(toClient[d])
  <2>1. toClient[d] \in Seq(ClientMessage)
    BY DEF Streams
  <2>2. toClient'[d] \in {toClient[d], Append(toClient[d], m)}
    BY <1>2
  <2>3. CASE toClient'[d] = toClient[d]
    BY <2>1, <2>3
  <2>4. CASE toClient'[d] = Append(toClient[d], m)
    BY <1>1, <2>1, <2>4, ClientToldOne
  <2> QED
    BY <2>2, <2>3, <2>4
<1>4. toClient' \in [Clients -> Seq(ClientMessage)]
  BY <1>2, <1>3
<1> QED
  BY <1>1, <1>3, <1>4 DEF Streams

\* What the requests that wait are answered.
LEMMA AllAnswered ==
    ASSUME Streams, PinnedTypes, NEW A \in [Nat -> ClientMessage],
           \A i \in Nat : A[i].kind \in {"snapshot", "error"} /\ A[i].id = i,
           toClient' = [c \in Clients |->
              IF open[c]
              THEN toClient[c] \o [k \in 1 .. Len(requests[c]) |->
                                      A[requests[c][k]]]
              ELSE toClient[c]]
    PROVE  /\ toClient' \in [Clients -> Seq(ClientMessage)]
           /\ \A d \in Clients :
                 /\ \A i : Answers(toClient'[d], i) =>
                       \/ Answers(toClient[d], i)
                       \/ \E k \in 1 .. Len(requests[d]) : requests[d][k] = i
                 /\ \A i : SnapshotOf(toClient'[d], i) =>
                       \/ SnapshotOf(toClient[d], i)
                       \/ /\ d \in Requesters
                          /\ \E j \in Nat : A[j].kind = "snapshot"
                 /\ TellsCreated(toClient'[d]) => TellsCreated(toClient[d])
<1>1. ASSUME NEW d \in Clients
      PROVE  /\ toClient'[d] \in Seq(ClientMessage)
             /\ \A i : Answers(toClient'[d], i) =>
                   \/ Answers(toClient[d], i)
                   \/ \E k \in 1 .. Len(requests[d]) : requests[d][k] = i
             /\ \A i : SnapshotOf(toClient'[d], i) =>
                   \/ SnapshotOf(toClient[d], i)
                   \/ /\ d \in Requesters
                      /\ \E j \in Nat : A[j].kind = "snapshot"
             /\ TellsCreated(toClient'[d]) => TellsCreated(toClient[d])
  <2> DEFINE q == requests[d]
             m == [k \in 1 .. Len(q) |-> A[q[k]]]
  <2>1. toClient[d] \in Seq(ClientMessage) /\ q \in Seq(Nat)
    BY DEF Streams, PinnedTypes
  <2>2. /\ m \in Seq(ClientMessage) /\ Len(m) = Len(q)
        /\ \A k \in 1 .. Len(q) : q[k] \in Nat /\ m[k] = A[q[k]]
    BY <2>1
  <2>3. toClient'[d] = toClient[d] \/ toClient'[d] = toClient[d] \o m
    OBVIOUS
  <2>4. q # <<>> => d \in Requesters
    BY DEF Requesters
  <2>5. Len(q) \in Nat /\ (Len(q) # 0 => q # <<>>)
    BY <2>1
  <2> HIDE DEF m
  <2>6. \A i : Answers(m, i) => \E k \in 1 .. Len(q) : q[k] = i
    BY <2>2 DEF Answers
  <2>7. \A i : SnapshotOf(m, i) =>
           /\ \E k \in 1 .. Len(q) : q[k] = i
           /\ \E j \in Nat : A[j].kind = "snapshot"
    BY <2>2 DEF SnapshotOf
  <2>8. ~TellsCreated(m)
    BY <2>2 DEF TellsCreated
  <2>9. \A i : SnapshotOf(m, i) => /\ d \in Requesters
                                   /\ \E j \in Nat : A[j].kind = "snapshot"
    <3>1. \A i : SnapshotOf(m, i) => q # <<>>
      BY <2>5, <2>7
    <3> QED
      BY <2>4, <2>7, <3>1
  <2>10. CASE toClient'[d] = toClient[d]
    BY <2>1, <2>10
  <2>11. CASE toClient'[d] = toClient[d] \o m
    BY <2>1, <2>2, <2>6, <2>8, <2>9, <2>11, ClientTold
  <2> QED
    BY <2>3, <2>10, <2>11
<1>2. toClient' \in [Clients -> Seq(ClientMessage)]
  BY <1>1
<1> QED
  BY <1>1, <1>2

\* The answers of Restored and RestoreFails, told apart by their kind.
SnapshotAnswer == [i \in Nat |-> [kind |-> "snapshot", id |-> i,
                                  seq |-> serverSeq]]
ErrorAnswer == [i \in Nat |-> [kind |-> "error", id |-> i]]

\* Every request is answered with A.
AnsweredWith(A) ==
    toClient' = [c \in Clients |->
        IF open[c]
        THEN toClient[c] \o [k \in 1 .. Len(requests[c]) |->
                                A[requests[c][k]]]
        ELSE toClient[c]]

\* The two ends of a restore send such answers.
LEMMA RestoreAnswers ==
    ASSUME PinnedTypes, Streams
    PROVE  /\ Restored => AnsweredWith(SnapshotAnswer)
           /\ RestoreFails => AnsweredWith(ErrorAnswer)
           /\ SnapshotAnswer \in [Nat -> ClientMessage]
           /\ ErrorAnswer \in [Nat -> ClientMessage]
<1>1. Restored => AnsweredWith(SnapshotAnswer)
  BY DEF Restored, Answered, AnsweredWith, SnapshotAnswer
<1>2. RestoreFails => AnsweredWith(ErrorAnswer)
  BY DEF RestoreFails, Answered, AnsweredWith, ErrorAnswer
<1>3. SnapshotAnswer \in [Nat -> ClientMessage]
  BY DEF Streams, SnapshotAnswer, ClientMessage
<1>4. ErrorAnswer \in [Nat -> ClientMessage]
  BY DEF ErrorAnswer, ClientMessage
<1> QED
  BY <1>1, <1>2, <1>3, <1>4

\* A client reads the next message.
LEMMA StreamsRead ==
    ASSUME Streams, NEW c \in Clients, NEW kind, ClientReads(c, kind),
           serverSeq' = serverSeq
    PROVE  Streams'
<1>1. toClient[c] \in Seq(ClientMessage) /\ toClient[c] # <<>>
      /\ toClient' = [toClient EXCEPT ![c] = Tail(@)]
  BY DEF Streams, ClientReads
<1>2. /\ Tail(toClient[c]) \in Seq(ClientMessage)
      /\ TellsCreated(Tail(toClient[c])) => TellsCreated(toClient[c])
  BY <1>1, ClientRead
<1>3. \A d \in Clients : toClient'[d] = IF d = c THEN Tail(toClient[c])
                                        ELSE toClient[d]
  BY <1>1 DEF Streams
<1> QED
  BY <1>1, <1>2, <1>3 DEF Streams

\* Every step sends messages a client understands, and tells only the creator
\* the end of a creation.
LEMMA StreamsNext == PinnedInv /\ Streams /\ [Next]_vars => Streams'
<1> SUFFICES ASSUME PinnedInv, Streams, [Next]_vars PROVE Streams'
  OBVIOUS
<1> USE ConstantsAssumption
<1>1. CASE UNCHANGED <<toClient, serverSeq>>
  BY <1>1 DEF Streams
<1>2. ASSUME NEW c \in Clients, Close(c) PROVE Streams'
  <2>1. toClient' = [toClient EXCEPT ![c] = <<>>] /\ serverSeq' = serverSeq
    BY <1>2 DEF Close, sessionVars
  <2>2. \A d \in Clients : toClient'[d] = IF d = c THEN <<>> ELSE toClient[d]
    BY <2>1 DEF Streams
  <2> QED
    BY <2>1, <2>2, ClientSilent DEF Streams
<1>3. ASSUME NEW c \in Clients, ClientStep(c) PROVE Streams'
  <2>1. PICK kind : ClientReads(c, kind) /\ serverSeq' = serverSeq
    BY <1>3 DEF ClientStep, ReceiveCreated, ReceiveSnapshot, ReceiveError,
                ReceiveAction, sessionVars
  <2> QED
    BY <2>1, StreamsRead
<1>4. CASE CreateEnds
  <2> DEFINE m == [kind |-> "created"]
  <2>1. toClient' = Sent(toClient, Creator, m) /\ serverSeq' = serverSeq
        /\ m \in ClientMessage /\ m.kind = "created"
    BY <1>4 DEF CreateEnds, ClientMessage
  <2> HIDE DEF m
  <2> QED
    BY <2>1, OneSent DEF Streams
<1>5. ASSUME NEW c \in Clients, ReceiveSubscribe(c) PROVE Streams'
  <2> DEFINE i == Head(toServer[c]).id
             m == [kind |-> "snapshot", id |-> i, seq |-> serverSeq]
  <2>1. i \in Nat
    BY <1>5, KindRead DEF ReceiveSubscribe
  <2>2. toClient' = toClient \/ toClient' = Sent(toClient, c, m)
    BY <1>5 DEF ReceiveSubscribe
  <2>3. serverSeq' = serverSeq
    BY <1>5 DEF ReceiveSubscribe, sessionVars
  <2>4. m \in ClientMessage /\ m.kind = "snapshot"
    BY <2>1 DEF ClientMessage, Streams
  <2> HIDE DEF m, i
  <2>5. CASE toClient' = Sent(toClient, c, m)
    <3>1. toClient[c] \in Seq(ClientMessage)
      BY DEF Streams
    <3>2. TellsCreated(Append(toClient[c], m)) => TellsCreated(toClient[c])
      BY <2>4, <3>1, ClientToldOne
    <3> QED
      BY <2>3, <2>4, <2>5, <3>2, OneSent DEF Streams
  <2> QED
    BY <2>2, <2>3, <2>5 DEF Streams
<1>6. CASE Restored \/ RestoreFails
  <2>1. serverSeq' = serverSeq
    BY <1>6 DEF Restored, RestoreFails, sessionVars
  <2>2. PICK A \in {SnapshotAnswer, ErrorAnswer} : AnsweredWith(A)
    BY <1>6, RestoreAnswers DEF PinnedInv
  <2>3. /\ A \in [Nat -> ClientMessage]
        /\ \A i \in Nat : A[i].kind \in {"snapshot", "error"} /\ A[i].id = i
    <3>1. \A i \in Nat : /\ SnapshotAnswer[i].kind = "snapshot"
                         /\ SnapshotAnswer[i].id = i
      BY DEF SnapshotAnswer
    <3>2. \A i \in Nat : ErrorAnswer[i].kind = "error" /\ ErrorAnswer[i].id = i
      BY DEF ErrorAnswer
    <3>3. A \in [Nat -> ClientMessage]
      BY <2>2, RestoreAnswers DEF PinnedInv
    <3> QED
      BY <2>2, <3>1, <3>2, <3>3
  <2>4. /\ toClient' \in [Clients -> Seq(ClientMessage)]
        /\ \A d \in Clients :
              TellsCreated(toClient'[d]) => TellsCreated(toClient[d])
    BY <2>2, <2>3, AllAnswered DEF PinnedInv, AnsweredWith
  <2> QED
    BY <2>1, <2>4 DEF Streams
<1>7. CASE Emit
  BY <1>7, EnvelopeSent
<1>8. CASE ServerStep
  BY <1>8, <1>1, <1>4, <1>5, <1>6, <1>7
     DEF ServerStep, GcFires, DisposeEnds, ReleaseFires, ReceiveCreate,
         ReceiveUnsubscribe, ReceiveTurn, ServerClosed, sessionVars
<1>9. CASE UserStep
  BY <1>9, <1>1, <1>2, <1>7
     DEF UserStep, Create, EndTurn, Acquire, Release, StartTurn, sessionVars
<1> QED
  BY <1>1, <1>3, <1>8, <1>9 DEF Next, vars

-----------------------------------------------------------------------------
(* What is shown is served                                                 *)

\* Entry i is one of those that wait in u, and none waits there twice.
Listed(u, i) == \E k \in 1 .. Len(u) : u[k] = i
Distinct(u) == \A k, l \in 1 .. Len(u) : u[k] = u[l] => k = l

\* Entry i waits in u or is asked for in s.
Asking(s, u, i) == Asks(s, i) \/ Listed(u, i)

\* Of a client that has made n entries, with what travels to the server in s
\* and to the client in t, the subscriptions that wait for the creation in u
\* and the requests that wait for the session in q: each entry is asked for
\* once, and not answered before the server has heard of it.
Requested(s, t, u, q, n) ==
    /\ \A i : Asking(s, u, i) \/ Listed(q, i) \/ Answers(t, i) => i \in 1 .. n
    /\ Once(s) /\ Distinct(u)
    /\ \A i : ~(Asks(s, i) /\ Listed(u, i))
    /\ \A i : Asking(s, u, i) => ~Listed(q, i) /\ ~Answers(t, i)

\* The entry of a client has no value until it has been asked for, and no
\* retraction is on its way that is not an earlier entry's.
Current(s, u, e) ==
    /\ Asking(s, u, e.id) => e.value = "pending"
    /\ Retracts(s) => Asking(s, u, e.id)
    /\ ~RetractsAfter(s, e.id)

\* The entries of c whose requests are held back until the creation ends.
Waiting(c) == IF c = Creator THEN unsent ELSE <<>>

\* A client that has, or is about to get, a snapshot is subscribed.
Shows(c) ==
    SnapshotOf(toClient[c], entry[c].id) \/ entry[c].value = "ready"

\* What is known of client c, as long as its connection is open.
Serving(c) ==
    /\ Requested(toServer[c], toClient[c], Waiting(c), requests[c],
                 entries[c])
    /\ open[c] => c \in connected
    /\ open[c] /\ Held(c) =>
          /\ Current(toServer[c], Waiting(c), entry[c])
          /\ Shows(c) => c \in attached

\* The inductive invariant of ShownIsServed.
ServedInv ==
    /\ PinnedInv /\ Streams
    /\ connected \subseteq Clients
    /\ \A c \in Clients : Serving(c)

\* The types a client's part has.
LEMMA ServedTypes ==
    ASSUME ServedInv, NEW c \in Clients
    PROVE  /\ toServer[c] \in Seq(ServerMessage)
           /\ toClient[c] \in Seq(ClientMessage)
           /\ Waiting(c) \in Seq(Nat) /\ requests[c] \in Seq(Nat)
           /\ entries[c] \in Nat
           /\ Held(c) => /\ IsEntry(entry[c], entries[c])
                         /\ entry[c].id = entries[c]
           /\ toServer \in [Clients -> Seq(ServerMessage)]
           /\ toClient \in [Clients -> Seq(ClientMessage)]
           /\ requests \in [Clients -> Seq(Nat)]
           /\ entries \in [Clients -> Nat]
           /\ entry = [d \in Clients |-> entry[d]]
           /\ open \in [Clients -> BOOLEAN]
<1>1. <<>> \in Seq(Nat)
  OBVIOUS
<1>2. Held(c) => IsEntry(entry[c], entries[c])
  BY DEF ServedInv, PinnedInv, CountsInv, Counted, Held
<1>3. Held(c) => entry[c].id = entries[c]
  BY <1>2 DEF IsEntry
<1> QED
  BY <1>1, <1>2, <1>3
     DEF ServedInv, PinnedInv, PinnedTypes, Messages, Streams, CountsInv,
         Waiting

\* A client whose requests and answers are the same, or fewer, is served as
\* before.
LEMMA ServingSame ==
    ASSUME NEW d \in Clients, Serving(d),
           \A i : Asks(toServer'[d], i) <=> Asks(toServer[d], i),
           Once(toServer[d]) => Once(toServer'[d]),
           Retracts(toServer'[d]) => Retracts(toServer[d]),
           \A i : RetractsAfter(toServer'[d], i)
                     => RetractsAfter(toServer[d], i),
           \A i : Answers(toClient'[d], i) => Answers(toClient[d], i),
           \A i : SnapshotOf(toClient'[d], i) => SnapshotOf(toClient[d], i),
           Waiting(d)' = Waiting(d), requests'[d] = requests[d],
           entries'[d] = entries[d], open'[d] => open[d],
           d \in connected => d \in connected',
           d \in attached => d \in attached',
           Held(d)' => /\ Held(d) /\ entry'[d].id = entry[d].id
                       /\ entry'[d].value = entry[d].value
    PROVE  Serving(d)'
<1>1. Requested(toServer'[d], toClient'[d], Waiting(d)', requests'[d],
                entries'[d])
  BY DEF Serving, Requested, Asking
<1>2. open'[d] => d \in connected'
  BY DEF Serving
<1>3. ASSUME open'[d], Held(d)'
      PROVE  /\ Current(toServer'[d], Waiting(d)', entry'[d])
             /\ Shows(d)' => d \in attached'
  <2>1. /\ Current(toServer[d], Waiting(d), entry[d])
        /\ Shows(d) => d \in attached
    BY <1>3 DEF Serving
  <2>2. Current(toServer'[d], Waiting(d)', entry'[d])
    BY <1>3, <2>1 DEF Current, Asking
  <2>3. Shows(d)' => Shows(d)
    BY <1>3 DEF Shows
  <2> QED
    BY <2>1, <2>2, <2>3
<1> QED
  BY <1>1, <1>2, <1>3 DEF Serving

\* The other clients.
LEMMA ServingOther ==
    ASSUME NEW d \in Clients, Serving(d),
           toServer'[d] = toServer[d], toClient'[d] = toClient[d],
           Waiting(d)' = Waiting(d), requests'[d] = requests[d],
           entries'[d] = entries[d], open'[d] = open[d],
           entry'[d] = entry[d],
           d \in connected => d \in connected',
           d \in attached => d \in attached'
    PROVE  Serving(d)'
<1>1. Held(d)' => /\ Held(d) /\ entry'[d].id = entry[d].id
                  /\ entry'[d].value = entry[d].value
  BY DEF Held
<1> QED
  BY <1>1, ServingSame

\* Nobody is served at first.
LEMMA ServedInit == Init => ServedInv
<1> SUFFICES ASSUME Init PROVE ServedInv
  OBVIOUS
<1> USE ConstantsAssumption
<1>1. PinnedInv
  BY PinnedInit
<1>2. Streams
  BY ClientSilent DEF Init, Streams
<1>3. ASSUME NEW c \in Clients PROVE Serving(c)
  <2>1. /\ toServer[c] = <<>> /\ toClient[c] = <<>> /\ Waiting(c) = <<>>
        /\ requests[c] = <<>> /\ entry[c] = NoEntry /\ c \in connected
    BY <1>3 DEF Init, Waiting, NoRequests
  <2>2. \A i : ~Listed(<<>>, i)
    BY DEF Listed
  <2>3. Distinct(<<>>)
    BY DEF Distinct
  <2>4. Requested(<<>>, <<>>, <<>>, <<>>, entries[c])
    BY <2>2, <2>3, ServerSilent, ClientSilent DEF Requested, Asking
  <2> QED
    BY <2>1, <2>4 DEF Serving, Held
<1> QED
  BY <1>1, <1>2, <1>3 DEF ServedInv, Init

\* A client says something that is neither a request nor a retraction.
LEMMA ServingSaid ==
    ASSUME ServedInv, NEW c \in Clients, NEW m \in ServerMessage,
           m.kind \in {"create", "turn"},
           toServer' = ToServer(c, <<m>>),
           UNCHANGED <<toClient, unsent, requests, entries, open, entry,
                       connected, attached>>
    PROVE  \A d \in Clients : Serving(d)'
<1> DEFINE s == toServer[c]
<1>1. s \in Seq(ServerMessage) /\ <<m>> \in Seq(ServerMessage)
  BY ServedTypes
<1>2. ~Retracts(<<m>>) /\ \A i : ~Asks(<<m>>, i) /\ ~RetractsAfter(<<m>>, i)
  BY DEF Retracts, Asks, RetractsAfter
<1>3. Once(<<m>>)
  BY DEF Once
<1>4. /\ toServer'[c] = s \o <<m>>
      /\ \A d \in Clients \ {c} : toServer'[d] = toServer[d]
  BY ServedTypes DEF ToServer
<1>5. Serving(c)'
  <2>1. /\ \A i : Asks(s \o <<m>>, i) <=> Asks(s, i)
        /\ Once(s) => Once(s \o <<m>>)
        /\ Retracts(s \o <<m>>) => Retracts(s)
        /\ \A i : RetractsAfter(s \o <<m>>, i) => RetractsAfter(s, i)
    BY <1>1, <1>2, <1>3, ServerSent
  <2>2. Serving(c) /\ Waiting(c)' = Waiting(c)
    BY DEF ServedInv, Waiting
  <2>3. Held(c)' => Held(c) /\ entry'[c] = entry[c]
    BY DEF Held
  <2> QED
    BY <1>4, <2>1, <2>2, <2>3, ServingSame
<1>6. ASSUME NEW d \in Clients \ {c} PROVE Serving(d)'
  BY <1>4, <1>6, ServingOther DEF ServedInv, Waiting
<1> QED
  BY <1>5, <1>6

\* The server reads something that is neither.
LEMMA ServingHeard ==
    ASSUME ServedInv, NEW c \in Clients, NEW kind \in {"create", "turn"},
           ServerReads(c, kind),
           \A d \in Clients :
              /\ \A i : Answers(toClient'[d], i) => Answers(toClient[d], i)
              /\ \A i : SnapshotOf(toClient'[d], i) =>
                         SnapshotOf(toClient[d], i),
           UNCHANGED <<unsent, requests, entries, open, entry, connected,
                       attached>>
    PROVE  \A d \in Clients : Serving(d)'
<1> DEFINE s == toServer[c]
<1>1. s \in Seq(ServerMessage) /\ s # <<>> /\ Head(s).kind = kind
  BY ServedTypes DEF ServerReads
<1>2. /\ toServer'[c] = Tail(s)
      /\ \A d \in Clients \ {c} : toServer'[d] = toServer[d]
  BY ServedTypes DEF ServerReads
<1>3. /\ \A i : Asks(Tail(s), i) <=> Asks(s, i)
      /\ Once(s) => Once(Tail(s))
      /\ Retracts(Tail(s)) => Retracts(s)
      /\ \A i : RetractsAfter(Tail(s), i) => RetractsAfter(s, i)
  BY <1>1, ServerRead
<1> SUFFICES ASSUME NEW d \in Clients PROVE Serving(d)'
  OBVIOUS
<1>4. Serving(d) /\ Waiting(d)' = Waiting(d)
  BY DEF ServedInv, Waiting
<1>5. Held(d)' => Held(d) /\ entry'[d] = entry[d]
  BY DEF Held
<1>6. CASE d = c
  BY <1>2, <1>3, <1>4, <1>5, <1>6, ServingSame
<1>7. CASE d # c
  <2>1. toServer'[d] = toServer[d]
    BY <1>2, <1>7
  <2> QED
    BY <2>1, <1>4, <1>5, ServingSame
<1> QED
  BY <1>6, <1>7

\* A client reads an answer or an envelope.
LEMMA ServingRead ==
    ASSUME ServedInv, NEW c \in Clients, NEW kind, ClientReads(c, kind),
           UNCHANGED <<toServer, unsent, requests, entries, open, connected,
                       attached>>,
           \A d \in Clients \ {c} : entry'[d] = entry[d],
           Held(c)' =>
              /\ Held(c) /\ entry'[c].id = entry[c].id
              /\ \/ entry'[c].value = entry[c].value
                 \/ /\ Answers(toClient[c], entry[c].id)
                    /\ entry'[c].value = "ready" =>
                          SnapshotOf(toClient[c], entry[c].id)
    PROVE  \A d \in Clients : Serving(d)'
<1> DEFINE t == toClient[c]
           s == toServer[c]
<1>1. /\ t \in Seq(ClientMessage) /\ t # <<>>
      /\ toClient'[c] = Tail(t)
      /\ \A d \in Clients \ {c} : toClient'[d] = toClient[d]
  BY ServedTypes DEF ClientReads
<1>2. /\ \A i : Answers(Tail(t), i) => Answers(t, i)
      /\ \A i : SnapshotOf(Tail(t), i) => SnapshotOf(t, i)
  BY <1>1, ClientRead
<1>3. Waiting(c)' = Waiting(c) /\ Serving(c)
  BY DEF Waiting, ServedInv
<1>4. Requested(toServer'[c], toClient'[c], Waiting(c)', requests'[c],
                entries'[c])
  BY <1>1, <1>2, <1>3 DEF Serving, Requested
<1>5. ASSUME open'[c], Held(c)'
      PROVE  /\ Current(toServer'[c], Waiting(c)', entry'[c])
             /\ Shows(c)' => c \in attached'
  <2> DEFINE i == entry[c].id
  <2>1. /\ Current(s, Waiting(c), entry[c]) /\ (Shows(c) => c \in attached)
        /\ Requested(s, t, Waiting(c), requests[c], entries[c])
    BY <1>3, <1>5 DEF Serving
  <2>2. /\ entry'[c].id = i
        /\ \/ entry'[c].value = entry[c].value
           \/ /\ Answers(t, i)
              /\ entry'[c].value = "ready" => SnapshotOf(t, i)
    BY <1>5
  <2>3. Current(s, Waiting(c), entry'[c])
    BY <2>1, <2>2 DEF Current, Requested
  <2>4. Shows(c)' => Shows(c)
    BY <1>1, <1>2, <2>2 DEF Shows
  <2> QED
    BY <1>3, <2>1, <2>3, <2>4
<1>6. Serving(c)'
  BY <1>3, <1>4, <1>5 DEF Serving
<1>7. ASSUME NEW d \in Clients \ {c} PROVE Serving(d)'
  BY <1>1, <1>7, ServingOther DEF ServedInv, Waiting
<1> QED
  BY <1>6, <1>7

\* Answers and envelopes are for the entry that asked.
LEMMA ServingReceive ==
    ASSUME ServedInv, NEW c \in Clients,
           ReceiveSnapshot(c) \/ ReceiveError(c) \/ ReceiveAction(c)
    PROVE  \A d \in Clients : Serving(d)'
<1> DEFINE t == toClient[c]
<1>1. UNCHANGED <<toServer, unsent, requests, entries, open, connected,
                  attached>>
  BY DEF ReceiveSnapshot, ReceiveError, ReceiveAction, servingVars
<1>2. /\ t \in Seq(ClientMessage)
      /\ Held(c) => {"id", "value"} \subseteq DOMAIN entry[c]
      /\ entry = [d \in Clients |-> entry[d]]
  BY ServedTypes DEF IsEntry
<1>3. CASE ReceiveSnapshot(c)
  <2> DEFINE m == Head(t)
             f == WithSnapshot(entry[c], m.seq)
  <2>1. ClientReads(c, "snapshot")
        /\ entry' = IF AnswersCurrent(c, m.id) THEN [entry EXCEPT ![c] = f]
                    ELSE entry
    BY <1>3 DEF ReceiveSnapshot
  <2>2. AnswersCurrent(c, m.id) =>
           /\ Held(c) /\ m.id = entry[c].id
           /\ f.id = entry[c].id /\ f.value = "ready"
    BY <1>2 DEF AnswersCurrent, WithSnapshot
  <2>3. SnapshotOf(t, m.id) /\ Answers(t, m.id)
    BY <1>2, <2>1, ClientRead DEF ClientReads
  <2> HIDE DEF f
  <2>4. \A d \in Clients \ {c} : entry'[d] = entry[d]
    BY <1>2, <2>1
  <2>5. Held(c)' => Held(c) /\ entry'[c].id = entry[c].id
                    /\ (\/ entry'[c].value = entry[c].value
                        \/ Answers(t, entry[c].id)
                           /\ SnapshotOf(t, entry[c].id))
    <3>1. CASE AnswersCurrent(c, m.id)
      <4>1. entry'[c] = f
        BY <1>2, <2>1, <3>1
      <4> QED
        BY <2>2, <2>3, <3>1, <4>1
    <3>2. CASE ~AnswersCurrent(c, m.id)
      BY <2>1, <3>2 DEF Held
    <3> QED
      BY <3>1, <3>2
  <2> QED
    BY <1>1, <2>1, <2>4, <2>5, ServingRead
<1>4. CASE ReceiveError(c)
  <2> DEFINE m == Head(t)
             f == [entry[c] EXCEPT !.value = "error"]
  <2>1. ClientReads(c, "error")
        /\ entry' = IF AnswersCurrent(c, m.id) THEN [entry EXCEPT ![c] = f]
                    ELSE entry
    BY <1>4 DEF ReceiveError
  <2>2. AnswersCurrent(c, m.id) =>
           /\ Held(c) /\ m.id = entry[c].id
           /\ f.id = entry[c].id /\ f.value = "error"
    BY <1>2 DEF AnswersCurrent
  <2>3. Answers(t, m.id)
    BY <1>2, <2>1, ClientRead DEF ClientReads
  <2> HIDE DEF f
  <2>4. \A d \in Clients \ {c} : entry'[d] = entry[d]
    BY <1>2, <2>1
  <2>5. Held(c)' => Held(c) /\ entry'[c].id = entry[c].id
                    /\ (\/ entry'[c].value = entry[c].value
                        \/ Answers(t, entry[c].id)
                           /\ entry'[c].value = "error")
    <3>1. CASE AnswersCurrent(c, m.id)
      <4>1. entry'[c] = f
        BY <1>2, <2>1, <3>1
      <4> QED
        BY <2>2, <2>3, <3>1, <4>1
    <3>2. CASE ~AnswersCurrent(c, m.id)
      BY <2>1, <3>2 DEF Held
    <3> QED
      BY <3>1, <3>2
  <2>6. "error" # "ready"
    OBVIOUS
  <2> QED
    BY <1>1, <2>1, <2>4, <2>5, <2>6, ServingRead
<1>5. CASE ReceiveAction(c)
  <2> DEFINE n == Head(t).seq
             f == [entry[c] EXCEPT !.view = Append(@, n)]
             g == [entry[c] EXCEPT !.buffered = Append(@, n)]
  <2>1. /\ ClientReads(c, "action")
        /\ \/ entry' = entry
           \/ Held(c) /\ entry' = [entry EXCEPT ![c] = f]
           \/ Held(c) /\ entry' = [entry EXCEPT ![c] = g]
    BY <1>5 DEF ReceiveAction
  <2>2. Held(c) => /\ f.id = entry[c].id /\ f.value = entry[c].value
                   /\ g.id = entry[c].id /\ g.value = entry[c].value
    BY <1>2
  <2> HIDE DEF f, g
  <2>3. \A d \in Clients \ {c} : entry'[d] = entry[d]
    BY <1>2, <2>1
  <2>4. entry' = entry \/ (Held(c) /\ entry'[c] = f)
        \/ (Held(c) /\ entry'[c] = g)
    BY <1>2, <2>1
  <2>5. Held(c)' => /\ Held(c) /\ entry'[c].id = entry[c].id
                    /\ entry'[c].value = entry[c].value
    BY <2>2, <2>4 DEF Held
  <2> QED
    BY <1>1, <2>1, <2>3, <2>5, ServingRead
<1> QED
  BY <1>3, <1>4, <1>5

\* What waited for the creation is asked for instead.
LEMMA ServingCreated ==
    ASSUME ServedInv, NEW c \in Clients, ReceiveCreated(c)
    PROVE  \A d \in Clients : Serving(d)'
<1> DEFINE t == toClient[c]
           s == toServer[c]
           u == unsent
           msgs == [k \in 1 .. Len(u) |-> Subscribe(u[k])]
<1>1. /\ ClientReads(c, "created")
      /\ unsent' = <<>> /\ toServer' = ToServer(c, msgs)
      /\ UNCHANGED <<open, entry, entries, requests, connected, attached>>
  BY DEF ReceiveCreated, servingVars
<1>2. /\ t \in Seq(ClientMessage) /\ t # <<>> /\ Head(t).kind = "created"
      /\ toClient'[c] = Tail(t)
      /\ \A d \in Clients \ {c} : toClient'[d] = toClient[d]
      /\ s \in Seq(ServerMessage) /\ toServer'[c] = s \o msgs
      /\ \A d \in Clients \ {c} : toServer'[d] = toServer[d]
  BY <1>1, ServedTypes DEF ClientReads, ToServer
<1>3. /\ TellsCreated(t)
      /\ \A i : Answers(Tail(t), i) => Answers(t, i)
      /\ \A i : SnapshotOf(Tail(t), i) => SnapshotOf(t, i)
  BY <1>2, ClientRead
<1>4. c = Creator /\ Waiting(c) = u /\ Waiting(c)' = <<>>
  BY <1>1, <1>3 DEF ServedInv, Streams, Waiting
<1>5. u \in Seq(Nat)
  BY DEF ServedInv, PinnedInv, PinnedTypes
<1>6. /\ msgs \in Seq(ServerMessage) /\ Len(msgs) = Len(u)
      /\ \A k \in 1 .. Len(u) : /\ msgs[k].kind = "subscribe"
                                /\ msgs[k].id = u[k]
  <2>1. \A k \in 1 .. Len(u) : /\ Subscribe(u[k]) \in ServerMessage
                               /\ Subscribe(u[k]).kind = "subscribe"
                               /\ Subscribe(u[k]).id = u[k]
    BY <1>5 DEF Subscribe, ServerMessage
  <2> QED
    BY <1>5, <2>1
<1> HIDE DEF msgs
<1>7. /\ \A i : Asks(msgs, i) <=> Listed(u, i)
      /\ ~Retracts(msgs) /\ (\A i : ~RetractsAfter(msgs, i))
      /\ Distinct(u) => Once(msgs)
  BY <1>6 DEF Asks, Listed, Retracts, RetractsAfter, Distinct, Once
<1>8. \A i : ~Listed(<<>>, i)
  BY DEF Listed
<1>9. Distinct(<<>>)
  BY DEF Distinct
<1>10. Serving(c)
  BY DEF ServedInv
<1>11. Requested(s, t, u, requests[c], entries[c])
  BY <1>4, <1>10 DEF Serving
<1>12. /\ \A i : Asks(s \o msgs, i) <=> Asking(s, u, i)
       /\ Once(s \o msgs)
       /\ Retracts(s \o msgs) => Retracts(s)
       /\ \A i : RetractsAfter(s \o msgs, i) => RetractsAfter(s, i)
  BY <1>2, <1>6, <1>7, <1>11, ServerSent DEF Asking, Requested
<1>13. Requested(s \o msgs, Tail(t), <<>>, requests[c], entries[c])
  BY <1>3, <1>8, <1>9, <1>11, <1>12 DEF Asking, Requested
<1>14. open[c] /\ Held(c) => Current(s \o msgs, <<>>, entry[c])
  BY <1>4, <1>8, <1>10, <1>12 DEF Serving, Current, Asking
<1>15. Shows(c)' => Shows(c)
  BY <1>1, <1>2, <1>3 DEF Shows
<1>16. Serving(c)'
  BY <1>1, <1>2, <1>4, <1>10, <1>13, <1>14, <1>15 DEF Serving, Held
<1>17. ASSUME NEW d \in Clients \ {c} PROVE Serving(d)'
  <2>1. Waiting(d)' = Waiting(d)
    BY <1>4, <1>17 DEF Waiting
  <2> QED
    BY <1>1, <1>2, <1>17, <2>1, ServingOther DEF ServedInv
<1> QED
  BY <1>16, <1>17

\* A new subscription is the last one, and is asked for once.
LEMMA RequestedNew ==
    ASSUME NEW s \in Seq(ServerMessage), NEW t, NEW u \in Seq(Nat), NEW q,
           NEW n \in Nat, NEW held, NEW waits,
           Requested(s, t, u, q, n)
    PROVE  LET m == n + 1
               msgs == (IF held THEN <<Unsubscribe>> ELSE <<>>)
                          \o (IF waits THEN <<>> ELSE <<Subscribe(m)>>)
               v == IF waits THEN Append(u, m) ELSE u
           IN /\ Requested(s \o msgs, t, v, q, m)
              /\ Asking(s \o msgs, v, m)
              /\ ~RetractsAfter(s \o msgs, m)
              /\ ~Answers(t, m)
<1> DEFINE m == n + 1
           msgs == (IF held THEN <<Unsubscribe>> ELSE <<>>)
                      \o (IF waits THEN <<>> ELSE <<Subscribe(m)>>)
           v == IF waits THEN Append(u, m) ELSE u
<1>1. /\ m \in Nat /\ m \notin 1 .. n /\ m \in 1 .. m
      /\ \A i \in 1 .. n : i \in 1 .. m
  OBVIOUS
<1>2. /\ Unsubscribe \in ServerMessage /\ Unsubscribe.kind = "unsubscribe"
      /\ Subscribe(m) \in ServerMessage /\ Subscribe(m).kind = "subscribe"
      /\ Subscribe(m).id = m
  BY <1>1 DEF Subscribe, Unsubscribe, ServerMessage
<1>3. /\ msgs \in Seq(ServerMessage) /\ Len(msgs) \in 0 .. 2
      /\ \A k \in 1 .. Len(msgs) : msgs[k] \in {Unsubscribe, Subscribe(m)}
      /\ \A k \in 1 .. Len(msgs) : msgs[k] = Subscribe(m) =>
            ~waits /\ k = Len(msgs)
      /\ ~waits => /\ Len(msgs) \in 1 .. Len(msgs)
                   /\ msgs[Len(msgs)] = Subscribe(m)
  <2> DEFINE a == Unsubscribe
             b == Subscribe(m)
  <2>1. a \in ServerMessage /\ b \in ServerMessage /\ a # b
    BY <1>2
  <2> HIDE DEF a, b
  <2>2. CASE held /\ waits
    <3>1. msgs = <<a>>
      BY <2>1, <2>2 DEF a, b
    <3> QED
      BY <2>1, <2>2, <3>1 DEF a, b
  <2>3. CASE held /\ ~waits
    <3>1. msgs = <<a>> \o <<b>>
      BY <2>3 DEF a, b
    <3> DEFINE p == <<a>>
               r == <<b>>
    <3>2. /\ p \in Seq(ServerMessage) /\ Len(p) = 1 /\ p[1] = a
          /\ r \in Seq(ServerMessage) /\ Len(r) = 1 /\ r[1] = b
      BY <2>1
    <3> HIDE DEF msgs, p, r
    <3>3. /\ msgs \in Seq(ServerMessage) /\ Len(msgs) = 2
          /\ msgs[1] = a /\ msgs[2] = b
      BY <3>1, <3>2 DEF p, r
    <3> QED
      BY <2>1, <2>3, <3>3 DEF a, b
  <2>4. CASE ~held /\ waits
    <3>1. msgs = <<>>
      BY <2>1, <2>4 DEF a, b
    <3> QED
      BY <2>1, <2>4, <3>1 DEF a, b
  <2>5. CASE ~held /\ ~waits
    <3>1. msgs = <<b>>
      BY <2>1, <2>5 DEF a, b
    <3> QED
      BY <2>1, <2>5, <3>1 DEF a, b
  <2> QED
    BY <2>2, <2>3, <2>4, <2>5
<1>4. /\ \A i \in 1 .. Len(v) : v[i] = m \/ (i \in 1 .. Len(u) /\ v[i] = u[i])
      /\ \A i \in 1 .. Len(u) : i \in 1 .. Len(v) /\ v[i] = u[i]
      /\ waits => Len(v) = Len(u) + 1 /\ v[Len(v)] = m /\ Len(v) \in 1 .. Len(v)
                  /\ \A i \in 1 .. Len(v) : i = Len(v) \/ i \in 1 .. Len(u)
      /\ ~waits => v = u
      /\ v \in Seq(Nat)
  BY <1>1
<1> HIDE DEF msgs, v, m
<1>5. /\ \A i : Asks(msgs, i) <=> ~waits /\ i = m
      /\ Once(msgs) /\ \A i : ~RetractsAfter(msgs, i)
  <2>1. \A i : Asks(msgs, i) <=> ~waits /\ i = m
    BY <1>2, <1>3 DEF Asks
  <2>2. Once(msgs)
    BY <1>2, <1>3 DEF Once
  <2>3. ASSUME NEW i, RetractsAfter(msgs, i) PROVE FALSE
    <3>1. PICK k \in 1 .. Len(msgs), l \in 1 .. Len(msgs) :
             k < l /\ msgs[k].kind = "subscribe"
      BY <2>3 DEF RetractsAfter
    <3>2. k = Len(msgs)
      BY <1>2, <1>3, <3>1
    <3> QED
      BY <1>3, <3>1, <3>2
  <2> QED
    BY <2>1, <2>2, <2>3
<1>6. \A i : ~waits => (Listed(v, i) <=> Listed(u, i))
  BY <1>4 DEF Listed
<1>7. \A i : waits => (Listed(v, i) <=> Listed(u, i) \/ i = m)
  BY <1>4 DEF Listed
<1>8. ~Asks(s, m) /\ ~Listed(u, m) /\ ~Listed(q, m) /\ ~Answers(t, m)
  BY <1>1 DEF Requested, Asking
<1>9. Distinct(v)
  <2>1. CASE waits
    <3> SUFFICES ASSUME NEW k \in 1 .. Len(v), NEW l \in 1 .. Len(v),
                        v[k] = v[l]
                 PROVE  k = l
      BY DEF Distinct
    <3>1. CASE k \in 1 .. Len(u) /\ l \in 1 .. Len(u)
      BY <1>4, <3>1 DEF Requested, Distinct
    <3>2. CASE k \in 1 .. Len(u) /\ l \notin 1 .. Len(u)
      BY <1>4, <1>8, <2>1, <3>2 DEF Listed
    <3>3. CASE k \notin 1 .. Len(u) /\ l \in 1 .. Len(u)
      BY <1>4, <1>8, <2>1, <3>3 DEF Listed
    <3>4. CASE k \notin 1 .. Len(u) /\ l \notin 1 .. Len(u)
      BY <1>4, <2>1, <3>4
    <3> QED
      BY <3>1, <3>2, <3>3, <3>4
  <2>2. CASE ~waits
    BY <1>4, <2>2 DEF Requested
  <2> QED
    BY <2>1, <2>2
<1>10. /\ \A i : Asks(s \o msgs, i) <=> Asks(s, i) \/ (~waits /\ i = m)
       /\ Once(s \o msgs)
       /\ ~RetractsAfter(s \o msgs, m)
  <2>1. ~RetractsAfter(s, m)
    BY <1>8 DEF Asks, RetractsAfter
  <2>2. Once(s) /\ \A i : ~(Asks(s, i) /\ Asks(msgs, i))
    BY <1>5, <1>8 DEF Requested
  <2> QED
    BY <1>3, <1>5, <1>8, <2>1, <2>2, ServerSent
<1>11. \A i : Asking(s \o msgs, v, i) <=> Asking(s, u, i) \/ i = m
  BY <1>6, <1>7, <1>10 DEF Asking
<1>12. \A i : ~(Asks(s \o msgs, i) /\ Listed(v, i))
  BY <1>6, <1>7, <1>8, <1>10 DEF Requested
<1>13. \A i : Asking(s \o msgs, v, i) => ~Listed(q, i) /\ ~Answers(t, i)
  BY <1>8, <1>11 DEF Requested
<1>14. \A i : Asking(s \o msgs, v, i) \/ Listed(q, i) \/ Answers(t, i)
                 => i \in 1 .. m
  BY <1>1, <1>11 DEF Requested
<1>15. Requested(s \o msgs, t, v, q, m)
  BY <1>9, <1>10, <1>12, <1>13, <1>14 DEF Requested
<1> QED
  BY <1>8, <1>10, <1>11, <1>15 DEF msgs, v, m

\* getSubscription: another reference, or a subscription of its own.
LEMMA ServingAcquire ==
    ASSUME ServedInv, NEW c \in Clients, Acquire(c)
    PROVE  \A d \in Clients : Serving(d)'
<1> DEFINE n == entries[c]
           m == n + 1
<1>1. UNCHANGED <<toClient, open, requests, connected, attached>>
  BY DEF Acquire, servingVars
<1>2. /\ toServer[c] \in Seq(ServerMessage) /\ Waiting(c) \in Seq(Nat)
      /\ toServer \in [Clients -> Seq(ServerMessage)]
      /\ n \in Nat /\ entries \in [Clients -> Nat] /\ Serving(c)
      /\ entry = [d \in Clients |-> entry[d]]
      /\ Held(c) => {"id", "value"} \subseteq DOMAIN entry[c]
  BY ServedTypes DEF IsEntry, ServedInv
<1>3. CASE /\ Shareable(entry[c])
           /\ entry' = [entry EXCEPT ![c].refCount = @ + 1]
           /\ UNCHANGED <<toServer, unsent, entries>>
  <2>1. /\ entry'[c] = [entry[c] EXCEPT !.refCount = @ + 1] /\ Held(c)
        /\ \A d \in Clients \ {c} : entry'[d] = entry[d]
    BY <1>2, <1>3 DEF Shareable, Held
  <2>2. entry'[c].id = entry[c].id /\ entry'[c].value = entry[c].value
    BY <1>2, <2>1
  <2> SUFFICES ASSUME NEW d \in Clients PROVE Serving(d)'
    OBVIOUS
  <2>3. Waiting(d)' = Waiting(d) /\ Serving(d)
    BY <1>3 DEF Waiting, ServedInv
  <2>4. CASE d = c
    BY <1>1, <1>3, <2>1, <2>2, <2>3, <2>4, ServingSame
  <2>5. CASE d # c
    BY <1>1, <1>3, <2>1, <2>3, <2>5, ServingOther
  <2> QED
    BY <2>4, <2>5
<1>4. CASE /\ entries' = [entries EXCEPT ![c] = @ + 1]
           /\ entry' = [entry EXCEPT ![c] =
                          [id |-> entries'[c], refCount |-> 1,
                           value |-> "pending", view |-> <<>>,
                           buffered |-> <<>>]]
           /\ toServer' = ToServer(c, AcquireMessages(c, entries'[c]))
           /\ unsent' = IF c = Creator /\ inflightCreate
                        THEN Append(unsent, entries'[c]) ELSE unsent
  <2> DEFINE held == Held(c)
             waits == c = Creator /\ inflightCreate
             msgs == (IF held THEN <<Unsubscribe>> ELSE <<>>)
                        \o (IF waits THEN <<>> ELSE <<Subscribe(m)>>)
             s == toServer[c]
             v == IF waits THEN Append(Waiting(c), m) ELSE Waiting(c)
  <2>1. entries'[c] = m
    BY <1>2, <1>4
  <2>2. /\ toServer' = ToServer(c, msgs)
        /\ unsent' = IF waits THEN Append(unsent, m) ELSE unsent
    BY <1>4, <2>1 DEF AcquireMessages
  <2>3. /\ toServer'[c] = s \o msgs /\ Waiting(c)' = v
        /\ \A d \in Clients \ {c} : /\ toServer'[d] = toServer[d]
                                    /\ Waiting(d)' = Waiting(d)
                                    /\ entries'[d] = entries[d]
                                    /\ entry'[d] = entry[d]
    <3>1. toServer'[c] = s \o msgs
      BY <1>2, <2>2 DEF ToServer
    <3>2. Waiting(c)' = v
      BY <2>2 DEF Waiting
    <3>3. ASSUME NEW d \in Clients \ {c}
          PROVE  /\ toServer'[d] = toServer[d]
                 /\ entries'[d] = entries[d] /\ entry'[d] = entry[d]
      BY <1>2, <1>4, <2>2 DEF ToServer
    <3>4. ASSUME NEW d \in Clients \ {c} PROVE Waiting(d)' = Waiting(d)
      BY <2>2 DEF Waiting
    <3> QED
      BY <3>1, <3>2, <3>3, <3>4
  <2>4. entry'[c].id = m /\ entry'[c].value = "pending"
    BY <1>2, <1>4, <2>1
  <2>5. Requested(s, toClient[c], Waiting(c), requests[c], n)
    BY <1>2 DEF Serving
  <2>6. /\ Requested(s \o msgs, toClient[c], v, requests[c], m)
        /\ Asking(s \o msgs, v, m)
        /\ ~RetractsAfter(s \o msgs, m)
        /\ ~Answers(toClient[c], m)
    BY <1>2, <2>5, RequestedNew
  <2> HIDE DEF msgs, v, m
  <2>7. Current(s \o msgs, v, entry'[c])
    BY <2>4, <2>6 DEF Current
  <2>8. ~Shows(c)'
    BY <1>1, <2>4, <2>6 DEF Shows, SnapshotOf, Answers
  <2>9. Serving(c)'
    BY <1>1, <1>2, <2>1, <2>3, <2>6, <2>7, <2>8 DEF Serving
  <2>10. ASSUME NEW d \in Clients \ {c} PROVE Serving(d)'
    BY <1>1, <2>3, ServingOther DEF ServedInv
  <2> QED
    BY <2>9, <2>10
<1> QED
  BY <1>3, <1>4 DEF Acquire

\* The last reference is disposed of, or another one.
LEMMA ServingRelease ==
    ASSUME ServedInv, NEW c \in Clients, NEW i \in Ids(c), Release(c, i)
    PROVE  \A d \in Clients : Serving(d)'
<1>1. /\ UNCHANGED <<toClient, open, unsent, entries, requests, connected,
                     attached>>
      /\ \/ UNCHANGED <<toServer, entry>>
         \/ /\ Held(c) /\ UNCHANGED toServer
            /\ entry' = [entry EXCEPT ![c].refCount = @ - 1]
         \/ /\ Held(c) /\ entry' = [entry EXCEPT ![c] = NoEntry]
            /\ toServer' = ToServer(c, <<Unsubscribe>>)
  BY DEF Release, ReleasesCurrent, servingVars
<1>2. /\ toServer[c] \in Seq(ServerMessage)
      /\ toServer \in [Clients -> Seq(ServerMessage)]
      /\ Serving(c)
      /\ entry = [d \in Clients |-> entry[d]]
      /\ Held(c) => {"id", "value"} \subseteq DOMAIN entry[c]
  BY ServedTypes DEF IsEntry, ServedInv
<1>3. \A d \in Clients : Waiting(d)' = Waiting(d) /\ Serving(d)
  BY <1>1 DEF Waiting, ServedInv
<1>4. CASE UNCHANGED <<toServer, entry>>
  BY <1>1, <1>3, <1>4, ServingOther
<1>5. CASE /\ Held(c) /\ UNCHANGED toServer
           /\ entry' = [entry EXCEPT ![c].refCount = @ - 1]
  <2>1. /\ entry'[c] = [entry[c] EXCEPT !.refCount = @ - 1]
        /\ \A d \in Clients \ {c} : entry'[d] = entry[d]
    BY <1>2, <1>5
  <2>2. entry'[c].id = entry[c].id /\ entry'[c].value = entry[c].value
    BY <1>2, <1>5, <2>1
  <2>3. Serving(c)'
    BY <1>1, <1>3, <1>5, <2>2, ServingSame
  <2>4. ASSUME NEW d \in Clients \ {c} PROVE Serving(d)'
    BY <1>1, <1>3, <1>5, <2>1, ServingOther
  <2> QED
    BY <2>3, <2>4
<1>6. CASE /\ Held(c) /\ entry' = [entry EXCEPT ![c] = NoEntry]
           /\ toServer' = ToServer(c, <<Unsubscribe>>)
  <2> DEFINE s == toServer[c]
             msgs == <<Unsubscribe>>
  <2>1. /\ toServer'[c] = s \o msgs /\ ~Held(c)'
        /\ \A d \in Clients \ {c} : /\ toServer'[d] = toServer[d]
                                    /\ entry'[d] = entry[d]
    BY <1>2, <1>6 DEF ToServer, Held
  <2>2. /\ msgs \in Seq(ServerMessage) /\ Once(msgs)
        /\ \A j : ~Asks(msgs, j)
    BY DEF Asks, Once, Unsubscribe, ServerMessage
  <2> HIDE DEF msgs
  <2>3. /\ \A j : Asks(s \o msgs, j) <=> Asks(s, j)
        /\ Once(s) => Once(s \o msgs)
    BY <1>2, <2>2, ServerSent
  <2>4. Requested(s, toClient[c], Waiting(c), requests[c], entries[c])
    BY <1>2 DEF Serving
  <2>5. Requested(s \o msgs, toClient[c], Waiting(c), requests[c], entries[c])
    BY <2>3, <2>4 DEF Requested, Asking
  <2>6. Serving(c)'
    BY <1>1, <1>2, <1>3, <2>1, <2>5 DEF Serving
  <2>7. ASSUME NEW d \in Clients \ {c} PROVE Serving(d)'
    BY <1>1, <1>3, <2>1, ServingOther
  <2> QED
    BY <2>6, <2>7
<1> QED
  BY <1>1, <1>4, <1>5, <1>6

\* Nothing waits, and nothing is told, on a connection that has closed.
LEMMA ServingClose ==
    ASSUME ServedInv, NEW c \in Clients, Close(c)
    PROVE  \A d \in Clients : Serving(d)'
<1>1. /\ open' = [open EXCEPT ![c] = FALSE]
      /\ toClient' = [toClient EXCEPT ![c] = <<>>]
      /\ entry' = [entry EXCEPT ![c] = NoEntry]
      /\ unsent' = IF c = Creator THEN <<>> ELSE unsent
      /\ UNCHANGED <<toServer, entries, requests, connected, attached>>
  BY DEF Close, servingVars
<1>2. /\ ~open'[c] /\ toClient'[c] = <<>> /\ Waiting(c)' = <<>>
      /\ \A d \in Clients \ {c} : /\ open'[d] = open[d]
                                  /\ toClient'[d] = toClient[d]
                                  /\ entry'[d] = entry[d]
                                  /\ Waiting(d)' = Waiting(d)
  <2>1. /\ ~open'[c] /\ toClient'[c] = <<>>
        /\ \A d \in Clients \ {c} : /\ open'[d] = open[d]
                                    /\ toClient'[d] = toClient[d]
                                    /\ entry'[d] = entry[d]
    BY <1>1, ServedTypes
  <2> QED
    BY <1>1, <2>1 DEF Waiting
<1>3. /\ \A i : ~Listed(<<>>, i)
      /\ Distinct(<<>>)
  BY DEF Listed, Distinct
<1>4. Requested(toServer[c], toClient[c], Waiting(c), requests[c], entries[c])
  BY DEF ServedInv, Serving
<1>5. Requested(toServer[c], <<>>, <<>>, requests[c], entries[c])
  BY <1>3, <1>4, ClientSilent DEF Requested, Asking
<1>6. Serving(c)'
  BY <1>1, <1>2, <1>5 DEF Serving
<1>7. ASSUME NEW d \in Clients \ {c} PROVE Serving(d)'
  BY <1>1, <1>2, ServingOther DEF ServedInv
<1> QED
  BY <1>6, <1>7

\* A subscribe is answered, or waits for the session.
LEMMA ServingSubscribe ==
    ASSUME ServedInv, NEW c \in Clients, ReceiveSubscribe(c)
    PROVE  \A d \in Clients : Serving(d)'
<1> DEFINE s == toServer[c]
           t == toClient[c]
           q == requests[c]
           i == Head(s).id
           m == [kind |-> "snapshot", id |-> i, seq |-> serverSeq]
<1>1. /\ ServerReads(c, "subscribe")
      /\ UNCHANGED <<unsent, entry, entries, open, connected>>
      /\ \/ /\ attached' = attached \cup {c} /\ requests' = requests
            /\ toClient' = Sent(toClient, c, m)
         \/ /\ requests' = [requests EXCEPT ![c] = Append(@, i)]
            /\ UNCHANGED <<attached, toClient>>
  BY DEF ReceiveSubscribe, clientVars
<1>2. /\ s \in Seq(ServerMessage) /\ s # <<>> /\ Head(s).kind = "subscribe"
      /\ i \in Nat /\ toServer'[c] = Tail(s)
      /\ \A d \in Clients \ {c} : toServer'[d] = toServer[d]
      /\ t \in Seq(ClientMessage) /\ q \in Seq(Nat)
      /\ requests \in [Clients -> Seq(Nat)]
      /\ serverSeq \in Nat
  <2>1. s \in Seq(ServerMessage) /\ i \in Nat
    BY <1>1, KindRead DEF ServedInv
  <2> QED
    BY <1>1, <2>1, ServedTypes DEF ServerReads, ServedInv, Streams
<1>3. /\ \A j : Asks(Tail(s), j) => Asks(s, j)
      /\ \A j : Asks(s, j) => Asks(Tail(s), j) \/ j = i
      /\ Once(s) => Once(Tail(s)) /\ ~Asks(Tail(s), i)
      /\ Asks(s, i)
      /\ Retracts(Tail(s)) => Retracts(s) /\ RetractsAfter(s, i)
      /\ \A j : RetractsAfter(Tail(s), j) => RetractsAfter(s, j)
  BY <1>2, ServerRead
<1>4. /\ \A d \in Clients : Waiting(d)' = Waiting(d) /\ Serving(d)
      /\ Requested(s, t, Waiting(c), q, entries[c])
  BY <1>1 DEF Waiting, Serving, ServedInv
<1>5. ~Asking(Tail(s), Waiting(c), i) /\ i \in 1 .. entries[c]
  BY <1>3, <1>4 DEF Requested, Asking
<1>6. /\ \A j : Listed(requests'[c], j) => Listed(q, j) \/ j = i
      /\ \A j : Answers(toClient'[c], j) => Answers(t, j) \/ j = i
      /\ \A j : SnapshotOf(toClient'[c], j) =>
            SnapshotOf(t, j) \/ c \in attached'
      /\ attached \subseteq attached'
      /\ \A d \in Clients \ {c} : /\ requests'[d] = requests[d]
                                  /\ toClient'[d] = toClient[d]
  <2>1. CASE /\ attached' = attached \cup {c} /\ requests' = requests
             /\ toClient' = Sent(toClient, c, m)
    <3>1. m \in ClientMessage /\ m.kind = "snapshot" /\ m.id = i
      BY <1>2 DEF ClientMessage
    <3> HIDE DEF m
    <3>2. /\ toClient'[c] \in {t, Append(t, m)}
          /\ \A d \in Clients \ {c} : toClient'[d] = toClient[d]
      BY <2>1, <3>1, OneSent DEF ServedInv
    <3>3. \A j : Answers(Append(t, m), j) => Answers(t, j) \/ j = i
      BY <1>2, <3>1, ClientToldOne
    <3> QED
      BY <2>1, <3>2, <3>3
  <2>2. CASE /\ requests' = [requests EXCEPT ![c] = Append(@, i)]
             /\ UNCHANGED <<attached, toClient>>
    <3>1. requests'[c] = Append(q, i)
          /\ \A d \in Clients \ {c} : requests'[d] = requests[d]
      BY <1>2, <2>2
    <3>2. \A k \in 1 .. Len(Append(q, i)) :
             \/ Append(q, i)[k] = i
             \/ k \in 1 .. Len(q) /\ Append(q, i)[k] = q[k]
      BY <1>2
    <3>3. \A j : Listed(Append(q, i), j) => Listed(q, j) \/ j = i
      BY <3>2 DEF Listed
    <3> QED
      BY <2>2, <3>1, <3>3
  <2> QED
    BY <1>1, <2>1, <2>2
<1> HIDE DEF i, m
<1>7. Requested(Tail(s), toClient'[c], Waiting(c), requests'[c], entries[c])
  BY <1>3, <1>4, <1>5, <1>6 DEF Requested, Asking
<1>8. ASSUME open[c], Held(c)
      PROVE  /\ Current(Tail(s), Waiting(c), entry[c])
             /\ Shows(c)' => c \in attached'
  <2>1. Current(s, Waiting(c), entry[c]) /\ (Shows(c) => c \in attached)
    BY <1>4, <1>8 DEF Serving
  <2>2. Current(Tail(s), Waiting(c), entry[c])
    BY <1>3, <2>1 DEF Current, Asking
  <2>3. Shows(c)' => Shows(c) \/ c \in attached'
    BY <1>1, <1>6 DEF Shows
  <2> QED
    BY <1>6, <2>1, <2>2, <2>3
<1>9. Serving(c)'
  BY <1>1, <1>2, <1>4, <1>7, <1>8 DEF Serving, Held
<1>10. ASSUME NEW d \in Clients \ {c} PROVE Serving(d)'
  BY <1>1, <1>2, <1>4, <1>6, ServingOther
<1> QED
  BY <1>9, <1>10

\* An unsubscribe that arrives is not the present entry's.
LEMMA ServingUnsubscribe ==
    ASSUME ServedInv, NEW c \in Clients, ReceiveUnsubscribe(c)
    PROVE  \A d \in Clients : Serving(d)'
<1> DEFINE s == toServer[c]
<1>1. /\ ServerReads(c, "unsubscribe") /\ attached' = attached \ {c}
      /\ UNCHANGED <<toClient, unsent, entry, entries, open, connected,
                     requests>>
  BY DEF ReceiveUnsubscribe, clientVars
<1>2. /\ s \in Seq(ServerMessage) /\ s # <<>> /\ Head(s).kind = "unsubscribe"
      /\ toServer'[c] = Tail(s)
      /\ \A d \in Clients \ {c} : toServer'[d] = toServer[d]
  BY <1>1, ServedTypes DEF ServerReads
<1>3. /\ \A j : Asks(Tail(s), j) <=> Asks(s, j)
      /\ Once(s) => Once(Tail(s))
      /\ Retracts(s)
      /\ \A j : RetractsAfter(Tail(s), j) => RetractsAfter(s, j)
  BY <1>2, ServerRead
<1>4. /\ \A d \in Clients : Waiting(d)' = Waiting(d) /\ Serving(d)
      /\ Requested(s, toClient[c], Waiting(c), requests[c], entries[c])
  BY <1>1 DEF Waiting, Serving, ServedInv
<1>5. Requested(Tail(s), toClient[c], Waiting(c), requests[c], entries[c])
  BY <1>3, <1>4 DEF Requested, Asking
<1>6. ASSUME open[c], Held(c)
      PROVE  Current(Tail(s), Waiting(c), entry[c]) /\ ~Shows(c)'
  <2>1. Current(s, Waiting(c), entry[c])
    BY <1>4, <1>6 DEF Serving
  <2>2. Asking(s, Waiting(c), entry[c].id)
    BY <1>3, <2>1 DEF Current
  <2>3. entry[c].value = "pending" /\ ~Answers(toClient[c], entry[c].id)
    BY <1>4, <2>1, <2>2 DEF Current, Requested
  <2>4. ~Shows(c)'
    BY <1>1, <2>3 DEF Shows, Answers, SnapshotOf
  <2>5. Current(Tail(s), Waiting(c), entry[c])
    BY <1>3, <2>1, <2>2 DEF Current, Asking
  <2> QED
    BY <2>4, <2>5
<1>7. Serving(c)'
  BY <1>1, <1>2, <1>4, <1>5, <1>6 DEF Serving, Held
<1>8. ASSUME NEW d \in Clients \ {c} PROVE Serving(d)'
  BY <1>1, <1>2, <1>4, ServingOther
<1> QED
  BY <1>7, <1>8

\* The server learns of a connection that closed.
LEMMA ServingClosed ==
    ASSUME ServedInv, NEW c \in Clients, ServerClosed(c)
    PROVE  \A d \in Clients : Serving(d)'
<1>1. /\ ~open[c] /\ attached' = attached \ {c}
      /\ connected' = connected \ {c}
      /\ toServer' = [toServer EXCEPT ![c] = <<>>]
      /\ UNCHANGED <<toClient, unsent, entry, entries, open, requests>>
  BY DEF ServerClosed, clientVars
<1>2. /\ toServer'[c] = <<>>
      /\ \A d \in Clients \ {c} : toServer'[d] = toServer[d]
  BY <1>1, ServedTypes
<1>3. /\ \A d \in Clients : Waiting(d)' = Waiting(d) /\ Serving(d)
      /\ Requested(toServer[c], toClient[c], Waiting(c), requests[c],
                   entries[c])
  BY <1>1 DEF Waiting, Serving, ServedInv
<1>4. Requested(<<>>, toClient[c], Waiting(c), requests[c], entries[c])
  BY <1>3, ServerSilent DEF Requested, Asking
<1>5. Serving(c)'
  BY <1>1, <1>2, <1>3, <1>4 DEF Serving
<1>6. ASSUME NEW d \in Clients \ {c} PROVE Serving(d)'
  BY <1>1, <1>2, <1>3, ServingOther
<1> QED
  BY <1>5, <1>6

\* A restore answers all that wait, and subscribes them if it succeeds.
LEMMA ServingRestore ==
    ASSUME ServedInv, Restored \/ RestoreFails
    PROVE  \A d \in Clients : Serving(d)'
<1>1. /\ UNCHANGED <<toServer, unsent, entry, entries, open, connected>>
      /\ requests' = NoRequests /\ attached \subseteq attached'
  BY DEF Restored, RestoreFails, clientVars
<1>2. ASSUME NEW d \in Clients
      PROVE  /\ \A i : Answers(toClient'[d], i) =>
                   Answers(toClient[d], i) \/ Listed(requests[d], i)
             /\ \A i : SnapshotOf(toClient'[d], i) =>
                   \/ SnapshotOf(toClient[d], i)
                   \/ d \in connected => d \in attached'
  <2>1. CASE Restored
    <3> DEFINE A == SnapshotAnswer
    <3>1. AnsweredWith(A) /\ A \in [Nat -> ClientMessage]
      BY <2>1, RestoreAnswers DEF ServedInv, PinnedInv
    <3>2. \A i \in Nat : A[i].kind \in {"snapshot", "error"} /\ A[i].id = i
      BY DEF SnapshotAnswer
    <3> HIDE DEF A
    <3>3. /\ \A i : Answers(toClient'[d], i) =>
                \/ Answers(toClient[d], i)
                \/ \E k \in 1 .. Len(requests[d]) : requests[d][k] = i
          /\ \A i : SnapshotOf(toClient'[d], i) =>
                SnapshotOf(toClient[d], i) \/ d \in Requesters
      BY <3>1, <3>2, AllAnswered DEF ServedInv, PinnedInv, AnsweredWith
    <3>4. Requesters \cap connected \subseteq attached'
      BY <2>1 DEF Restored
    <3> QED
      BY <3>3, <3>4 DEF Listed
  <2>2. CASE RestoreFails
    <3> DEFINE A == ErrorAnswer
    <3>1. AnsweredWith(A) /\ A \in [Nat -> ClientMessage]
      BY <2>2, RestoreAnswers DEF ServedInv, PinnedInv
    <3>2. /\ \A i \in Nat : A[i].kind = "error"
          /\ \A i \in Nat : A[i].id = i
      BY DEF ErrorAnswer
    <3> HIDE DEF A
    <3>3. \A i \in Nat : A[i].kind \in {"snapshot", "error"} /\ A[i].id = i
      BY <3>2
    <3>4. \A j \in Nat : A[j].kind # "snapshot"
      BY <3>2
    <3>5. /\ \A i : Answers(toClient'[d], i) =>
                \/ Answers(toClient[d], i)
                \/ \E k \in 1 .. Len(requests[d]) : requests[d][k] = i
          /\ \A i : SnapshotOf(toClient'[d], i) => SnapshotOf(toClient[d], i)
      BY <3>1, <3>3, <3>4, AllAnswered DEF ServedInv, PinnedInv, AnsweredWith
    <3> QED
      BY <3>5 DEF Listed
  <2> QED
    BY <2>1, <2>2
<1> SUFFICES ASSUME NEW d \in Clients PROVE Serving(d)'
  OBVIOUS
<1>3. Waiting(d)' = Waiting(d) /\ Serving(d) /\ requests'[d] = <<>>
  BY <1>1 DEF Waiting, ServedInv, NoRequests
<1>4. \A i : ~Listed(<<>>, i)
  BY DEF Listed
<1>5. Requested(toServer[d], toClient[d], Waiting(d), requests[d], entries[d])
  BY <1>3 DEF Serving
<1>6. Requested(toServer[d], toClient'[d], Waiting(d), <<>>, entries[d])
  BY <1>2, <1>4, <1>5 DEF Requested
<1>7. open[d] /\ Held(d) => (Shows(d)' => d \in attached')
  BY <1>1, <1>2, <1>3 DEF Serving, Shows
<1> QED
  BY <1>1, <1>3, <1>6, <1>7 DEF Serving, Held

\* Whatever happens, the clients that show the session stay subscribed to it.
LEMMA ServedNext == ServedInv /\ [Next]_vars => ServedInv'
<1> SUFFICES ASSUME ServedInv, [Next]_vars PROVE ServedInv'
  OBVIOUS
<1> USE ConstantsAssumption
<1>1. PinnedInv' /\ Streams'
  BY PinnedNext, StreamsNext DEF ServedInv
<1>0. connected' \subseteq connected
  BY DEF Next, ServerStep, ClientStep, UserStep, CreateEnds, Restored,
         RestoreFails, GcFires, DisposeEnds, ReleaseFires, ReceiveCreate,
         ReceiveSubscribe, ReceiveUnsubscribe, ReceiveTurn, ServerClosed,
         ReceiveCreated, ReceiveSnapshot, ReceiveError, ReceiveAction, Create,
         EndTurn, Acquire, StartTurn, Close, Release, servingVars, vars
<1> SUFFICES \A d \in Clients : Serving(d)'
  BY <1>0, <1>1 DEF ServedInv
<1>2. ASSUME UNCHANGED <<toServer, toClient, unsent, requests, entries, open,
                         entry, connected, attached>>
      PROVE  \A d \in Clients : Serving(d)'
  BY <1>2, ServingOther DEF ServedInv, Waiting
<1>3. ASSUME Emit, UNCHANGED <<toServer, unsent, requests, entries, open,
                               entry, connected, attached>>
      PROVE  \A d \in Clients : Serving(d)'
  <2> SUFFICES ASSUME NEW d \in Clients PROVE Serving(d)'
    OBVIOUS
  <2>1. /\ \A i : Answers(toClient'[d], i) => Answers(toClient[d], i)
        /\ \A i : SnapshotOf(toClient'[d], i) => SnapshotOf(toClient[d], i)
    BY <1>3, EnvelopeSent DEF ServedInv
  <2>2. Serving(d) /\ Waiting(d)' = Waiting(d)
    BY <1>3 DEF ServedInv, Waiting
  <2>3. Held(d)' => /\ Held(d) /\ entry'[d].id = entry[d].id
                    /\ entry'[d].value = entry[d].value
    BY <1>3 DEF Held
  <2> QED
    BY <1>3, <2>1, <2>2, <2>3, ServingSame
<1>4. CASE CreateEnds
  <2> DEFINE m == [kind |-> "created"]
  <2>1. /\ toClient' = Sent(toClient, Creator, m) /\ m \in ClientMessage
        /\ m.kind = "created"
        /\ UNCHANGED <<toServer, unsent, requests, entries, open, entry,
                       connected, attached>>
    BY <1>4 DEF CreateEnds, ClientMessage, clientVars, servingVars
  <2> HIDE DEF m
  <2>2. ASSUME NEW d \in Clients
        PROVE  /\ \A i : Answers(toClient'[d], i) => Answers(toClient[d], i)
               /\ \A i : SnapshotOf(toClient'[d], i) =>
                          SnapshotOf(toClient[d], i)
    <3> DEFINE t == toClient[d]
    <3>1. toClient'[d] \in {t, Append(t, m)} /\ t \in Seq(ClientMessage)
      BY <2>1, OneSent, ServedTypes DEF ServedInv
    <3>2. /\ \A i : Answers(Append(t, m), i) => Answers(t, i)
          /\ \A i : SnapshotOf(Append(t, m), i) => SnapshotOf(t, i)
      BY <2>1, <3>1, ClientToldOne
    <3> HIDE DEF t
    <3>3. /\ \A i : Answers(toClient'[d], i) => Answers(t, i)
          /\ \A i : SnapshotOf(toClient'[d], i) => SnapshotOf(t, i)
      BY <3>1, <3>2
    <3> QED
      BY <3>3 DEF t
  <2> SUFFICES ASSUME NEW d \in Clients PROVE Serving(d)'
    OBVIOUS
  <2>3. Serving(d) /\ Waiting(d)' = Waiting(d)
    BY <2>1 DEF ServedInv, Waiting
  <2>4. Held(d)' => /\ Held(d) /\ entry'[d].id = entry[d].id
                    /\ entry'[d].value = entry[d].value
    BY <2>1 DEF Held
  <2> QED
    BY <2>1, <2>2, <2>3, <2>4, ServingSame
<1>5. ASSUME NEW c \in Clients, ReceiveCreate(c)
      PROVE  \A d \in Clients : Serving(d)'
  BY <1>5, ServingHeard DEF ReceiveCreate, clientVars, servingVars
<1>6. ASSUME NEW c \in Clients, ReceiveTurn(c)
      PROVE  \A d \in Clients : Serving(d)'
  <2>1. /\ ServerReads(c, "turn") /\ Emit
        /\ UNCHANGED <<unsent, requests, entries, open, entry, connected,
                       attached>>
    BY <1>6 DEF ReceiveTurn, clientVars, servingVars
  <2>2. \A d \in Clients :
           /\ \A i : Answers(toClient'[d], i) => Answers(toClient[d], i)
           /\ \A i : SnapshotOf(toClient'[d], i) => SnapshotOf(toClient[d], i)
    BY <2>1, EnvelopeSent DEF ServedInv
  <2> QED
    BY <2>1, <2>2, ServingHeard
<1>7. CASE ServerStep
  BY <1>2, <1>4, <1>5, <1>6, <1>7, ServingSubscribe, ServingUnsubscribe,
     ServingClosed, ServingRestore
     DEF ServerStep, GcFires, DisposeEnds, ReleaseFires, clientVars,
         servingVars
<1>8. CASE \E c \in Clients : ClientStep(c)
  BY <1>8, ServingCreated, ServingReceive DEF ClientStep
<1>9. CASE Create
  <2> DEFINE m == [kind |-> "create"]
  <2>1. /\ toServer' = ToServer(Creator, <<m>>)
        /\ m \in ServerMessage /\ m.kind \in {"create", "turn"}
        /\ UNCHANGED <<toClient, unsent, requests, entries, open, entry,
                       connected, attached>>
    BY <1>9 DEF Create, ServerMessage, servingVars
  <2> HIDE DEF m
  <2> QED
    BY <2>1, ServingSaid
<1>10. ASSUME NEW c \in Clients, StartTurn(c)
       PROVE  \A d \in Clients : Serving(d)'
  <2> DEFINE m == [kind |-> "turn"]
  <2>1. /\ toServer' = ToServer(c, <<m>>)
        /\ m \in ServerMessage /\ m.kind \in {"create", "turn"}
        /\ UNCHANGED <<toClient, unsent, requests, entries, open, entry,
                       connected, attached>>
    BY <1>10 DEF StartTurn, ServerMessage, servingVars
  <2> HIDE DEF m
  <2> QED
    BY <2>1, ServingSaid
<1>11. CASE EndTurn
  BY <1>3, <1>11 DEF EndTurn, clientVars, servingVars
<1>12. CASE UserStep
  BY <1>9, <1>10, <1>11, <1>12, ServingAcquire, ServingRelease, ServingClose
     DEF UserStep
<1>13. CASE UNCHANGED vars
  BY <1>2, <1>13 DEF vars
<1> QED
  BY <1>7, <1>8, <1>12, <1>13 DEF Next

\* A client that shows the session is subscribed to it on its connection: an
\* unsubscribe that is late, or the answer to an earlier request, never makes
\* a view that nothing updates (handleSnapshot and _removeSubscription).
THEOREM ShownWhatIsServed == Spec => []ShownIsServed
<1>1. ServedInv => ShownIsServed
  BY DEF ServedInv, Serving, Shows, ShownIsServed
<1> QED
  BY <1>1, ServedInit, ServedNext, PTL DEF Spec

-----------------------------------------------------------------------------
(* Registrations that nobody takes back                                    *)

\* The server has client c subscribed, or about to be.
Bound(c) == c \in attached \cup Requesters

\* A registration has its subscription, and a client that has let go has sent
\* the retraction last, or there is nothing to retract.
Tidy(c) ==
    c \notin hasty =>
        /\ c \in subscribers => Bound(c)
        /\ Bound(c) => c \in connected
        /\ open[c] /\ ~Held(c) =>
              \/ EndsRetracted(toServer[c])
              \/ ~Bound(c) /\ \A i : ~Asks(toServer[c], i)

\* What waits for the creation is the entry the creator holds.
Creating ==
    /\ ~inflightCreate => unsent = <<>>
    /\ inflightCreate /\ Creator \notin hasty =>
          unsent = IF Held(Creator) THEN <<entry[Creator].id>> ELSE <<>>

\* The inductive invariant of LeaksOnlyInTheWindow.
TidyInv == ServedInv /\ Creating /\ \A c \in Clients : Tidy(c)

\* A client of which nothing is registered anew, and that takes nothing back.
LEMMA TidyKept ==
    ASSUME NEW d \in Clients, Tidy(d), hasty \subseteq hasty',
           d \in subscribers' => d \in subscribers,
           Bound(d)' <=> Bound(d),
           d \in connected => d \in connected',
           open'[d] /\ ~Held(d)' => open[d] /\ ~Held(d),
           EndsRetracted(toServer[d]) => EndsRetracted(toServer'[d]),
           \A i : Asks(toServer'[d], i) => Asks(toServer[d], i)
    PROVE  Tidy(d)'
BY DEF Tidy

\* The other clients.
LEMMA TidyOther ==
    ASSUME NEW d \in Clients, Tidy(d), hasty \subseteq hasty',
           d \in subscribers' => d \in subscribers,
           d \in attached' <=> d \in attached,
           requests'[d] = requests[d], entry'[d] = entry[d],
           d \in connected => d \in connected',
           open'[d] = open[d], toServer'[d] = toServer[d]
    PROVE  Tidy(d)'
<1>1. (Bound(d)' <=> Bound(d)) /\ (Held(d)' <=> Held(d))
  BY DEF Bound, Requesters, Held
<1> QED
  BY <1>1, TidyKept

\* Nothing is registered at first.
LEMMA TidyInit == Init => TidyInv
BY ServedInit, NoneWaits, ServerSilent, ConstantsAssumption
   DEF Init, TidyInv, Creating, Tidy, Bound, Held

\* The subscriptions stay as they are while the client talks to the server, or
\* reads what it was told.
LEMMA TidyTalk ==
    ASSUME TidyInv, NEW c \in Clients,
           UNCHANGED <<subscribers, attached, requests, connected, open>>,
           hasty \subseteq hasty',
           \A d \in Clients \ {c} : /\ entry'[d] = entry[d]
                                    /\ toServer'[d] = toServer[d],
           ~Held(c)' => \/ /\ ~Held(c)
                           /\ EndsRetracted(toServer[c])
                                 => EndsRetracted(toServer'[c])
                           /\ \A i : Asks(toServer'[c], i)
                                        => Asks(toServer[c], i)
                        \/ EndsRetracted(toServer'[c])
    PROVE  \A d \in Clients : Tidy(d)'
<1>1. \A d \in Clients : Bound(d)' <=> Bound(d)
  BY DEF Bound, Requesters
<1>2. Tidy(c)'
  BY <1>1 DEF TidyInv, Tidy
<1>3. ASSUME NEW d \in Clients \ {c} PROVE Tidy(d)'
  BY TidyOther DEF TidyInv
<1> QED
  BY <1>2, <1>3

\* What the server reads from a client that is neither a request nor a
\* retraction.
LEMMA TidyHeard ==
    ASSUME TidyInv, NEW c \in Clients, NEW kind \in {"create", "turn"},
           ServerReads(c, kind),
           UNCHANGED <<subscribers, attached, requests, connected, open,
                       hasty, entry>>
    PROVE  \A d \in Clients : Tidy(d)'
<1> DEFINE s == toServer[c]
<1>1. /\ s \in Seq(ServerMessage) /\ s # <<>> /\ Head(s).kind = kind
      /\ toServer'[c] = Tail(s)
      /\ \A d \in Clients \ {c} : toServer'[d] = toServer[d]
  BY ServedTypes DEF ServerReads, TidyInv
<1>2. /\ EndsRetracted(s) => EndsRetracted(Tail(s))
      /\ \A i : Asks(Tail(s), i) => Asks(s, i)
  BY <1>1, ServerRead
<1>3. Held(c)' <=> Held(c)
  BY DEF Held
<1> QED
  BY <1>1, <1>2, <1>3, TidyTalk

\* getSubscription makes the creator's first subscription wait, and shares it.
LEMMA TidyAcquire ==
    ASSUME TidyInv, NEW c \in Clients, Acquire(c)
    PROVE  Creating' /\ \A d \in Clients : Tidy(d)'
<1> USE ConstantsAssumption
<1> DEFINE m == entries[c] + 1
<1>1. UNCHANGED <<open, requests, connected, attached, subscribers, hasty,
                  inflightCreate>>
  BY DEF Acquire, servingVars, historyVars
<1>2. /\ toServer \in [Clients -> Seq(ServerMessage)]
      /\ entries \in [Clients -> Nat]
      /\ entry = [d \in Clients |-> entry[d]]
      /\ \A d \in Clients : Held(d) =>
            {"id", "value"} \subseteq DOMAIN entry[d]
  BY ServedTypes DEF TidyInv, IsEntry
<1>3. /\ \A d \in Clients \ {c} : /\ entry'[d] = entry[d]
                                  /\ toServer'[d] = toServer[d]
      /\ Held(c)'
      /\ \/ /\ entry[c] # NoEntry /\ entry'[c].id = entry[c].id
            /\ UNCHANGED unsent
         \/ /\ ~Shareable(entry[c]) /\ entry'[c].id = m
            /\ unsent' = IF c = Creator /\ inflightCreate
                         THEN Append(unsent, m) ELSE unsent
  <2>1. CASE /\ Shareable(entry[c])
             /\ entry' = [entry EXCEPT ![c].refCount = @ + 1]
             /\ UNCHANGED <<toServer, unsent, entries>>
    <3>1. /\ entry'[c] = [entry[c] EXCEPT !.refCount = @ + 1]
          /\ entry[c] # NoEntry
          /\ \A d \in Clients \ {c} : entry'[d] = entry[d]
      BY <1>2, <2>1 DEF Shareable
    <3>2. entry'[c].id = entry[c].id /\ entry[c].id = entries[c]
          /\ IsEntry(entry[c], entries[c]) /\ entries[c] \in Nat
      BY <1>2, <3>1, ServedTypes DEF Held, TidyInv
    <3>3. entries[c] # 0
      BY <3>1 DEF TidyInv, ServedInv, PinnedInv, CountsInv, Counted, Ids
    <3>4. entry'[c] # NoEntry
      BY <3>2, <3>3 DEF NoEntry
    <3> QED
      BY <2>1, <3>1, <3>2, <3>4 DEF Held
  <2>2. CASE /\ ~Shareable(entry[c])
             /\ entries' = [entries EXCEPT ![c] = @ + 1]
             /\ entry' = [entry EXCEPT ![c] =
                          [id |-> entries'[c], refCount |-> 1,
                           value |-> "pending", view |-> <<>>,
                           buffered |-> <<>>]]
             /\ toServer' = ToServer(c, AcquireMessages(c, entries'[c]))
             /\ unsent' = IF c = Creator /\ inflightCreate
                          THEN Append(unsent, entries'[c]) ELSE unsent
    <3>1. entries'[c] = m /\ m \in Nat \ {0}
      BY <1>2, <2>2
    <3>2. entry'[c].id = m
      BY <1>2, <2>2, <3>1
    <3>3. entry'[c] # NoEntry
      BY <3>1, <3>2 DEF NoEntry
    <3>4. \A d \in Clients \ {c} : /\ entry'[d] = entry[d]
                                   /\ toServer'[d] = toServer[d]
      BY <1>2, <2>2 DEF ToServer
    <3> QED
      BY <2>2, <3>1, <3>2, <3>3, <3>4 DEF Held
  <2> QED
    BY <2>1, <2>2 DEF Acquire
<1>4. \A d \in Clients : Tidy(d)'
  BY <1>1, <1>3, TidyTalk
<1>5. Creating'
  <2>1. CASE ~inflightCreate
    BY <1>1, <1>3, <2>1 DEF TidyInv, Creating
  <2>2. CASE inflightCreate /\ c # Creator
    <3>1. Held(Creator)' <=> Held(Creator)
      BY <1>3, <2>2 DEF Held
    <3> QED
      BY <1>1, <1>3, <2>2, <3>1 DEF TidyInv, Creating
  <2>3. CASE inflightCreate /\ c = Creator /\ Creator \notin hasty
    <3>1. unsent = IF Held(c) THEN <<entry[c].id>> ELSE <<>>
      BY <2>3 DEF TidyInv, Creating
    <3>2. open[c]
      BY DEF Acquire
    <3>3. Held(c) => Shareable(entry[c])
      <4> SUFFICES ASSUME Held(c) PROVE Shareable(entry[c])
        OBVIOUS
      <4>1. Current(toServer[c], unsent, entry[c])
        BY <2>3, <3>2 DEF TidyInv, ServedInv, Serving, Waiting
      <4>2. Listed(unsent, entry[c].id)
        <5>1. Len(unsent) = 1 /\ unsent[1] = entry[c].id
          BY <3>1
        <5> QED
          BY <5>1 DEF Listed
      <4>3. entry[c].value = "pending"
        BY <4>1, <4>2 DEF Current, Asking
      <4> QED
        BY <4>3 DEF Shareable, Held
    <3>4. unsent' = <<entry'[c].id>>
      <4>1. CASE Held(c)
        BY <1>3, <3>1, <3>3, <4>1
      <4>2. CASE ~Held(c)
        BY <1>3, <2>3, <3>1, <4>2 DEF Held
      <4> QED
        BY <4>1, <4>2
    <3> QED
      BY <1>1, <1>3, <2>3, <3>4 DEF Creating
  <2>4. CASE inflightCreate /\ c = Creator /\ Creator \in hasty
    BY <1>1, <2>4 DEF Creating
  <2> QED
    BY <2>1, <2>2, <2>3, <2>4
<1> QED
  BY <1>4, <1>5

\* Letting go of the last reference during the creation is hasty.
LEMMA TidyRelease ==
    ASSUME TidyInv, NEW c \in Clients, NEW i \in Ids(c), Release(c, i)
    PROVE  Creating' /\ \A d \in Clients : Tidy(d)'
<1> USE ConstantsAssumption
<1>1. /\ UNCHANGED <<open, requests, connected, attached, subscribers,
                     inflightCreate, unsent>>
      /\ hasty \subseteq hasty'
      /\ \/ UNCHANGED <<toServer, entry>>
         \/ /\ Held(c) /\ UNCHANGED toServer
            /\ entry' = [entry EXCEPT ![c].refCount = @ - 1]
         \/ /\ Held(c) /\ entry' = [entry EXCEPT ![c] = NoEntry]
            /\ toServer' = ToServer(c, <<Unsubscribe>>)
            /\ entry[c].id = i
            /\ c = Creator /\ i \in ToSet(unsent) => c \in hasty'
  BY DEF Release, ReleasesCurrent, servingVars
<1>2. /\ toServer[c] \in Seq(ServerMessage)
      /\ toServer \in [Clients -> Seq(ServerMessage)]
      /\ entry = [d \in Clients |-> entry[d]]
      /\ Held(c) => /\ {"id", "value"} \subseteq DOMAIN entry[c]
                    /\ entry[c].id = entries[c] /\ entries[c] \in Nat
  BY ServedTypes DEF IsEntry, TidyInv
<1>3. CASE UNCHANGED <<toServer, entry>>
  <2>1. \A d \in Clients : Tidy(d)'
    BY <1>1, <1>3, TidyOther DEF TidyInv
  <2>2. Held(Creator)' <=> Held(Creator)
    BY <1>3 DEF Held
  <2>3. Creating'
    BY <1>1, <1>3, <2>2 DEF TidyInv, Creating
  <2> QED
    BY <2>1, <2>3
<1>4. CASE /\ Held(c) /\ UNCHANGED toServer
           /\ entry' = [entry EXCEPT ![c].refCount = @ - 1]
  <2>1. /\ entry'[c] = [entry[c] EXCEPT !.refCount = @ - 1]
        /\ \A d \in Clients \ {c} : entry'[d] = entry[d]
    BY <1>2, <1>4
  <2>2. entry'[c].id = entry[c].id
    BY <1>2, <1>4, <2>1
  <2>3. entries[c] # 0
    BY <1>4 DEF Held, TidyInv, ServedInv, PinnedInv, CountsInv, Counted, Ids
  <2>4. Held(c)'
    BY <1>2, <1>4, <2>2, <2>3 DEF Held, NoEntry
  <2>5. \A d \in Clients : Tidy(d)'
    BY <1>1, <1>4, <2>1, <2>4, TidyTalk
  <2>6. (Held(Creator)' <=> Held(Creator))
        /\ (Held(Creator) => entry'[Creator].id = entry[Creator].id)
    BY <1>4, <2>1, <2>2, <2>4 DEF Held
  <2>7. Creating'
    BY <1>1, <2>6 DEF TidyInv, Creating
  <2> QED
    BY <2>5, <2>7
<1>5. CASE /\ Held(c) /\ entry' = [entry EXCEPT ![c] = NoEntry]
           /\ toServer' = ToServer(c, <<Unsubscribe>>)
           /\ entry[c].id = i
           /\ c = Creator /\ i \in ToSet(unsent) => c \in hasty'
  <2> DEFINE s == toServer[c]
             msgs == <<Unsubscribe>>
  <2>1. /\ toServer'[c] = s \o msgs /\ ~Held(c)'
        /\ \A d \in Clients \ {c} : /\ toServer'[d] = toServer[d]
                                    /\ entry'[d] = entry[d]
    BY <1>2, <1>5 DEF ToServer, Held
  <2>2. msgs \in Seq(ServerMessage) /\ EndsRetracted(msgs)
    BY DEF EndsRetracted, Unsubscribe, ServerMessage
  <2> HIDE DEF msgs
  <2>3. EndsRetracted(toServer'[c])
    BY <1>2, <2>1, <2>2, ServerSent
  <2>4. \A d \in Clients : Tidy(d)'
    BY <1>1, <2>1, <2>3, TidyTalk
  <2>5. Creating'
    <3>1. CASE c = Creator /\ inflightCreate
      <4>1. Creator \notin hasty => unsent = <<i>>
        BY <1>5, <3>1 DEF TidyInv, Creating
      <4>2. unsent = <<i>> => i \in ToSet(unsent)
        BY DEF ToSet
      <4>3. Creator \in hasty'
        BY <1>1, <1>5, <3>1, <4>1, <4>2
      <4> QED
        BY <1>1, <3>1, <4>3 DEF Creating
    <3>2. CASE ~inflightCreate
      BY <1>1, <3>2 DEF TidyInv, Creating
    <3>3. CASE c # Creator
      <4>1. entry'[Creator] = entry[Creator]
        BY <2>1, <3>3
      <4> QED
        BY <1>1, <4>1 DEF TidyInv, Creating, Held
    <3> QED
      BY <3>1, <3>2, <3>3
  <2> QED
    BY <2>4, <2>5
<1> QED
  BY <1>1, <1>3, <1>4, <1>5

\* The creation begins with nothing held, and closing ends it.
LEMMA TidyCreate ==
    ASSUME TidyInv, Create
    PROVE  Creating' /\ \A d \in Clients : Tidy(d)'
<1> USE ConstantsAssumption
<1> DEFINE m == [kind |-> "create"]
           s == toServer[Creator]
<1>1. /\ open[Creator] /\ session = "unborn" /\ ~inflightCreate
      /\ toServer' = ToServer(Creator, <<m>>)
      /\ m \in ServerMessage /\ m.kind = "create"
      /\ UNCHANGED <<subscribers, attached, requests, connected, open, hasty,
                     entry, unsent>>
  BY DEF Create, ServerMessage, servingVars, historyVars
<1>2. /\ s \in Seq(ServerMessage) /\ <<m>> \in Seq(ServerMessage)
      /\ toServer'[Creator] = s \o <<m>>
      /\ \A d \in Clients \ {Creator} : toServer'[d] = toServer[d]
  BY <1>1, ServedTypes DEF ToServer, TidyInv
<1> HIDE DEF m
<1>3. \A i : ~Asks(<<m>>, i)
  BY <1>1 DEF Asks
<1>4. /\ EndsRetracted(s) => EndsRetracted(s \o <<m>>)
      /\ \A i : Asks(s \o <<m>>, i) => Asks(s, i)
  BY <1>2, <1>3, ServerSent
<1>5. Held(Creator)' <=> Held(Creator)
  BY <1>1 DEF Held
<1>6. \A d \in Clients : Tidy(d)'
  BY <1>1, <1>2, <1>4, <1>5, TidyTalk
<1>7. ~Held(Creator) /\ unsent = <<>>
  BY <1>1 DEF TidyInv, Creating, ServedInv, PinnedInv, Creation
<1>8. Creating'
  BY <1>1, <1>5, <1>7 DEF Create, Creating
<1> QED
  BY <1>6, <1>8

\* The end of the creation asks for what is held.
LEMMA TidyCreated ==
    ASSUME TidyInv, NEW c \in Clients, ReceiveCreated(c)
    PROVE  Creating' /\ \A d \in Clients : Tidy(d)'
<1> DEFINE msgs == [k \in 1 .. Len(unsent) |-> Subscribe(unsent[k])]
           s == toServer[c]
<1>1. /\ ClientReads(c, "created") /\ inflightCreate' = FALSE
      /\ unsent' = <<>> /\ toServer' = ToServer(c, msgs)
      /\ UNCHANGED <<subscribers, attached, requests, connected, open, hasty,
                     entry>>
  BY DEF ReceiveCreated, servingVars, historyVars
<1>2. /\ s \in Seq(ServerMessage) /\ toServer'[c] = s \o msgs
      /\ \A d \in Clients \ {c} : toServer'[d] = toServer[d]
  BY <1>1, ServedTypes DEF ToServer, TidyInv
<1>3. Held(c)' <=> Held(c)
  BY <1>1 DEF Held
<1>4. ASSUME ~Held(c), c \notin hasty PROVE toServer'[c] = s
  <2>1. toClient[c] \in Seq(ClientMessage) /\ toClient[c] # <<>>
        /\ Head(toClient[c]).kind = "created"
    BY <1>1, ServedTypes DEF ClientReads, TidyInv
  <2>2. c = Creator
    BY <2>1, ClientRead DEF TidyInv, ServedInv, Streams
  <2>3. unsent = <<>>
    BY <1>4, <2>2 DEF TidyInv, Creating
  <2>4. msgs = <<>>
    BY <2>3
  <2> QED
    BY <1>2, <2>4
<1>5. Creating'
  BY <1>1 DEF Creating
<1>6. \A d \in Clients : Bound(d)' <=> Bound(d)
  BY <1>1 DEF Bound, Requesters
<1>7. Tidy(c)'
  BY <1>1, <1>3, <1>4, <1>6 DEF TidyInv, Tidy
<1>8. ASSUME NEW d \in Clients \ {c} PROVE Tidy(d)'
  BY <1>1, <1>2, TidyOther DEF TidyInv
<1> QED
  BY <1>5, <1>7, <1>8

\* A connection closes.
LEMMA TidyClose ==
    ASSUME TidyInv, NEW c \in Clients, Close(c)
    PROVE  Creating' /\ \A d \in Clients : Tidy(d)'
<1> USE ConstantsAssumption
<1>1. /\ open' = [open EXCEPT ![c] = FALSE]
      /\ entry' = [entry EXCEPT ![c] = NoEntry]
      /\ inflightCreate' = (inflightCreate /\ c # Creator)
      /\ unsent' = IF c = Creator THEN <<>> ELSE unsent
      /\ UNCHANGED <<toServer, subscribers, attached, requests, connected,
                     hasty>>
  BY DEF Close, servingVars, historyVars
<1>2. /\ ~open'[c]
      /\ \A d \in Clients \ {c} : /\ open'[d] = open[d]
                                  /\ entry'[d] = entry[d]
  BY <1>1, ServedTypes DEF TidyInv
<1>3. \A d \in Clients : Bound(d)' <=> Bound(d)
  BY <1>1 DEF Bound, Requesters
<1>4. Tidy(c)'
  BY <1>1, <1>2, <1>3 DEF TidyInv, Tidy
<1>5. ASSUME NEW d \in Clients \ {c} PROVE Tidy(d)'
  BY <1>1, <1>2, TidyOther DEF TidyInv
<1>6. Creating'
  <2>1. CASE c = Creator
    BY <1>1, <2>1 DEF Creating
  <2>2. CASE c # Creator
    <3>1. inflightCreate' = inflightCreate
      BY <1>1, <2>2 DEF TidyInv, ServedInv, PinnedInv, PinnedTypes
    <3>2. entry'[Creator] = entry[Creator]
      BY <1>2, <2>2
    <3> QED
      BY <1>1, <2>2, <3>1, <3>2 DEF TidyInv, Creating, Held
  <2> QED
    BY <2>1, <2>2
<1> QED
  BY <1>4, <1>5, <1>6

\* What the client reads otherwise does not change what it holds.
LEMMA TidyReceive ==
    ASSUME TidyInv, NEW c \in Clients,
           ReceiveSnapshot(c) \/ ReceiveError(c) \/ ReceiveAction(c)
    PROVE  Creating' /\ \A d \in Clients : Tidy(d)'
<1> USE ConstantsAssumption
<1>1. UNCHANGED <<toServer, subscribers, attached, requests, connected, open,
                  hasty, inflightCreate, unsent>>
  BY DEF ReceiveSnapshot, ReceiveError, ReceiveAction, servingVars,
         historyVars
<1>2. /\ entry = [d \in Clients |-> entry[d]]
      /\ Held(c) => /\ IsEntry(entry[c], entries[c])
                    /\ entry[c].id = entries[c] /\ entries[c] \in Nat \ {0}
  <2>1. Held(c) => entries[c] # 0
    BY DEF Held, TidyInv, ServedInv, PinnedInv, CountsInv, Counted, Ids
  <2> QED
    BY <2>1, ServedTypes DEF TidyInv
<1>3. PICK f : \/ entry' = entry
               \/ /\ entry' = [entry EXCEPT ![c] = f] /\ Held(c)
                  /\ f.id = entry[c].id
  <2>1. CASE ReceiveSnapshot(c)
    <3> DEFINE f == WithSnapshot(entry[c], Head(toClient[c]).seq)
    <3>1. Held(c) => f.id = entry[c].id
      BY <1>2 DEF WithSnapshot, IsEntry
    <3> QED
      BY <2>1, <3>1 DEF ReceiveSnapshot, AnswersCurrent
  <2>2. CASE ReceiveError(c)
    <3> DEFINE f == [entry[c] EXCEPT !.value = "error"]
    <3>1. Held(c) => f.id = entry[c].id
      BY <1>2 DEF IsEntry
    <3> QED
      BY <2>2, <3>1 DEF ReceiveError, AnswersCurrent
  <2>3. CASE ReceiveAction(c)
    <3> DEFINE n == Head(toClient[c]).seq
               f == [entry[c] EXCEPT !.view = Append(@, n)]
               g == [entry[c] EXCEPT !.buffered = Append(@, n)]
    <3>1. Held(c) => f.id = entry[c].id /\ g.id = entry[c].id
      BY <1>2 DEF IsEntry
    <3>2. \/ entry' = entry
          \/ entry' = [entry EXCEPT ![c] = f] /\ Held(c)
          \/ entry' = [entry EXCEPT ![c] = g] /\ Held(c)
      BY <2>3 DEF ReceiveAction
    <3> QED
      BY <3>1, <3>2
  <2> QED
    BY <2>1, <2>2, <2>3
<1>4. \A d \in Clients : /\ Held(d)' <=> Held(d)
                         /\ Held(d) => entry'[d].id = entry[d].id
  <2>1. \A d \in Clients \ {c} : entry'[d] = entry[d]
    BY <1>2, <1>3
  <2>2. (Held(c)' <=> Held(c)) /\ (Held(c) => entry'[c].id = entry[c].id)
    <3>1. CASE entry' = entry
      BY <3>1 DEF Held
    <3>2. CASE entry' = [entry EXCEPT ![c] = f] /\ Held(c)
               /\ f.id = entry[c].id
      <4>1. entry'[c] = f
        BY <1>2, <3>2
      <4> QED
        BY <1>2, <3>2, <4>1 DEF Held, NoEntry
    <3> QED
      BY <1>3, <3>1, <3>2
  <2> QED
    BY <2>1, <2>2 DEF Held
<1>5. \A d \in Clients : Bound(d)' <=> Bound(d)
  BY <1>1 DEF Bound, Requesters
<1>6. \A d \in Clients : Tidy(d)'
  BY <1>1, <1>4, <1>5, TidyKept DEF TidyInv
<1>7. Creating'
  BY <1>1, <1>4 DEF TidyInv, Creating
<1> QED
  BY <1>6, <1>7

\* A registration is made for the connection that asks.
LEMMA TidySubscribe ==
    ASSUME TidyInv, NEW c \in Clients, ReceiveSubscribe(c)
    PROVE  \A d \in Clients : Tidy(d)'
<1> DEFINE s == toServer[c]
           i == Head(s).id
<1>1. /\ ServerReads(c, "subscribe") /\ subscribers' = subscribers \cup {c}
      /\ UNCHANGED <<entry, open, connected, hasty>>
      /\ \/ attached' = attached \cup {c} /\ requests' = requests
         \/ /\ requests' = [requests EXCEPT ![c] = Append(@, i)]
            /\ UNCHANGED attached
  BY DEF ReceiveSubscribe, clientVars
<1>2. /\ s \in Seq(ServerMessage) /\ s # <<>> /\ Head(s).kind = "subscribe"
      /\ toServer'[c] = Tail(s) /\ c \in connected
      /\ \A d \in Clients \ {c} : toServer'[d] = toServer[d]
      /\ requests[c] \in Seq(Nat) /\ requests \in [Clients -> Seq(Nat)]
  BY <1>1, ServedTypes DEF ServerReads, TidyInv
<1>3. /\ EndsRetracted(s) => EndsRetracted(Tail(s))
      /\ Asks(s, i)
  BY <1>2, ServerRead
<1>4. i \in Nat
  BY <1>1, KindRead DEF TidyInv, ServedInv
<1> HIDE DEF i
<1>5. /\ Bound(c)'
      /\ \A d \in Clients \ {c} : /\ d \in attached' <=> d \in attached
                                  /\ requests'[d] = requests[d]
  <2>1. CASE attached' = attached \cup {c} /\ requests' = requests
    BY <2>1 DEF Bound
  <2>2. CASE /\ requests' = [requests EXCEPT ![c] = Append(@, i)]
             /\ UNCHANGED attached
    <3>1. requests'[c] = Append(requests[c], i)
      BY <1>2, <2>2
    <3>2. requests'[c] # <<>>
      <4>1. Len(Append(requests[c], i)) = Len(requests[c]) + 1
        BY <1>2, <1>4
      <4>2. Len(requests[c]) \in Nat
        BY <1>2
      <4>3. Len(requests'[c]) # 0
        BY <3>1, <4>1, <4>2
      <4> QED
        BY <4>3
    <3> QED
      BY <1>2, <2>2, <3>2 DEF Bound, Requesters
  <2> QED
    BY <1>1, <2>1, <2>2
<1>6. Held(c)' <=> Held(c)
  BY <1>1 DEF Held
<1>7. Tidy(c)'
  BY <1>1, <1>2, <1>3, <1>5, <1>6 DEF TidyInv, Tidy
<1>8. ASSUME NEW d \in Clients \ {c} PROVE Tidy(d)'
  BY <1>1, <1>2, <1>5, TidyOther DEF TidyInv
<1> QED
  BY <1>7, <1>8

\* A client leaves: its registration goes, unless its subscribe is awaited.
LEMMA TidyLeaves ==
    ASSUME TidyInv, NEW c \in Clients,
           attached' = attached \ {c},
           IF c \in attached
           THEN Leave({c}) ELSE UNCHANGED <<subscribers, timer>>,
           hasty' = IF c \in Requesters THEN hasty \cup {c} ELSE hasty,
           UNCHANGED <<requests, entry, open>>,
           open[c] => c \in connected',
           \A d \in Clients \ {c} : /\ d \in connected => d \in connected'
                                    /\ toServer'[d] = toServer[d],
           open[c] => \/ EndsRetracted(toServer'[c])
                      \/ \A i : ~Asks(toServer'[c], i)
                      \/ /\ ~EndsRetracted(toServer[c])
                         /\ \E i : Asks(toServer[c], i)
    PROVE  \A d \in Clients : Tidy(d)'
<1>1. Tidy(c)'
  <2> SUFFICES ASSUME c \notin hasty'
               PROVE  /\ c \notin subscribers' /\ ~Bound(c)'
                      /\ open[c] /\ ~Held(c) =>
                            \/ EndsRetracted(toServer'[c])
                            \/ \A i : ~Asks(toServer'[c], i)
    <3>1. Held(c)' <=> Held(c)
      BY DEF Held
    <3> QED
      BY <3>1 DEF Tidy
  <2>1. c \notin hasty /\ c \notin Requesters
    OBVIOUS
  <2>2. ~Bound(c)'
    BY <2>1 DEF Bound, Requesters
  <2>3. c \notin subscribers'
    BY <2>1 DEF TidyInv, Tidy, Bound, Leave, Left
  <2>4. open[c] /\ ~Held(c) => \/ EndsRetracted(toServer[c])
                               \/ \A i : ~Asks(toServer[c], i)
    BY <2>1 DEF TidyInv, Tidy
  <2> QED
    BY <2>2, <2>3, <2>4
<1>2. ASSUME NEW d \in Clients \ {c} PROVE Tidy(d)'
  <2>1. d \in subscribers' => d \in subscribers
    BY DEF Leave, Left
  <2> QED
    BY <2>1, TidyOther DEF TidyInv
<1> QED
  BY <1>1, <1>2

\* _removeSubscription, and the end of a connection.
LEMMA TidyUnsubscribe ==
    ASSUME TidyInv, NEW c \in Clients,
           ReceiveUnsubscribe(c) \/ ServerClosed(c)
    PROVE  \A d \in Clients : Tidy(d)'
<1> DEFINE s == toServer[c]
<1>1. CASE ReceiveUnsubscribe(c)
  <2>1. /\ ServerReads(c, "unsubscribe") /\ attached' = attached \ {c}
        /\ IF c \in attached THEN Leave({c})
           ELSE UNCHANGED <<subscribers, timer>>
        /\ hasty' = IF c \in Requesters THEN hasty \cup {c} ELSE hasty
        /\ UNCHANGED <<requests, entry, open, connected>>
    BY <1>1 DEF ReceiveUnsubscribe, clientVars
  <2>2. /\ s \in Seq(ServerMessage) /\ s # <<>>
        /\ Head(s).kind = "unsubscribe"
        /\ toServer'[c] = Tail(s) /\ c \in connected
        /\ \A d \in Clients \ {c} : toServer'[d] = toServer[d]
    BY <2>1, ServedTypes DEF ServerReads, TidyInv
  <2>3. /\ \A i : Asks(s, i) => Asks(Tail(s), i)
        /\ \A i : Asks(Tail(s), i) => Asks(s, i)
        /\ EndsRetracted(s) => \/ EndsRetracted(Tail(s))
                               \/ \A i : ~Asks(Tail(s), i)
    BY <2>2, ServerRead
  <2>4. \/ EndsRetracted(Tail(s))
        \/ \A i : ~Asks(Tail(s), i)
        \/ ~EndsRetracted(s) /\ \E i : Asks(s, i)
    BY <2>3
  <2> QED
    BY <2>1, <2>2, <2>4, TidyLeaves
<1>2. CASE ServerClosed(c)
  <2>1. /\ ~open[c] /\ attached' = attached \ {c}
        /\ IF c \in attached THEN Leave({c})
           ELSE UNCHANGED <<subscribers, timer>>
        /\ hasty' = IF c \in Requesters THEN hasty \cup {c} ELSE hasty
        /\ UNCHANGED <<requests, entry, open>>
        /\ connected' = connected \ {c}
        /\ toServer' = [toServer EXCEPT ![c] = <<>>]
    BY <1>2 DEF ServerClosed, clientVars
  <2>2. \A d \in Clients \ {c} : toServer'[d] = toServer[d]
    BY <2>1, ServedTypes DEF TidyInv
  <2> QED
    BY <2>1, <2>2, TidyLeaves
<1> QED
  BY <1>1, <1>2

\* A restore subscribes those who asked, or takes their registrations back.
LEMMA TidyRestore ==
    ASSUME TidyInv, Restored \/ RestoreFails
    PROVE  \A d \in Clients : Tidy(d)'
<1> SUFFICES ASSUME NEW d \in Clients PROVE Tidy(d)'
  OBVIOUS
<1>1. /\ UNCHANGED <<toServer, entry, open, connected, hasty>>
      /\ requests' = NoRequests
  BY DEF Restored, RestoreFails, clientVars, historyVars
<1>2. Requesters' = {}
  BY <1>1, NoneWaits
<1>3. Held(d)' <=> Held(d)
  BY <1>1 DEF Held
<1>4. Tidy(d)
  BY DEF TidyInv
<1>5. CASE Restored
  <2>1. subscribers' = subscribers
        /\ attached' = attached \cup (Requesters \cap connected)
    BY <1>5 DEF Restored
  <2>2. d \notin hasty => (Bound(d)' <=> Bound(d))
    BY <1>2, <1>4, <2>1 DEF Bound, Tidy
  <2> QED
    BY <1>1, <1>3, <1>4, <2>1, <2>2 DEF Tidy
<1>6. CASE RestoreFails
  <2>1. subscribers' = subscribers \ Requesters /\ attached' = attached
    BY <1>6 DEF RestoreFails, Leave, Left, RolledBack
  <2>2. /\ Bound(d)' <=> d \in attached
        /\ d \in subscribers' => d \in subscribers /\ d \notin Requesters
    BY <1>2, <2>1 DEF Bound
  <2> QED
    BY <1>1, <1>3, <1>4, <2>2 DEF Tidy, Bound
<1> QED
  BY <1>5, <1>6

\* No step leaves a registration behind, outside the window.
LEMMA TidyNext == TidyInv /\ [Next]_vars => TidyInv'
<1> SUFFICES ASSUME TidyInv, [Next]_vars PROVE TidyInv'
  OBVIOUS
<1> USE ConstantsAssumption
<1>1. ServedInv'
  BY ServedNext DEF TidyInv
<1> SUFFICES Creating' /\ \A d \in Clients : Tidy(d)'
  BY <1>1 DEF TidyInv
<1>2. ASSUME UNCHANGED <<inflightCreate, unsent, entry>>, hasty \subseteq hasty'
      PROVE  Creating'
  BY <1>2 DEF TidyInv, Creating, Held
<1>3. ASSUME UNCHANGED <<toServer, requests, open, entry, connected,
                         attached, subscribers, hasty>>
      PROVE  \A d \in Clients : Tidy(d)'
  BY <1>3, TidyOther DEF TidyInv
<1>4. CASE ServerStep
  <2>1. Creating'
    <3>1. UNCHANGED <<inflightCreate, unsent, entry>> /\ hasty \subseteq hasty'
      BY <1>4 DEF ServerStep, CreateEnds, Restored, RestoreFails, GcFires,
                  DisposeEnds, ReleaseFires, ReceiveCreate, ReceiveSubscribe,
                  ReceiveUnsubscribe, ReceiveTurn, ServerClosed, clientVars,
                  historyVars
    <3> QED
      BY <3>1, <1>2
  <2>2. ASSUME CreateEnds \/ GcFires \/ DisposeEnds \/ ReleaseFires
        PROVE  \A d \in Clients : Tidy(d)'
    BY <1>3, <2>2 DEF CreateEnds, GcFires, DisposeEnds, ReleaseFires,
                      clientVars, servingVars, historyVars
  <2>3. ASSUME NEW c \in Clients, ReceiveCreate(c) \/ ReceiveTurn(c)
        PROVE  \A d \in Clients : Tidy(d)'
    BY <2>3, TidyHeard DEF ReceiveCreate, ReceiveTurn, clientVars,
                           servingVars, historyVars
  <2> QED
    BY <1>4, <2>1, <2>2, <2>3, TidyRestore, TidySubscribe, TidyUnsubscribe
       DEF ServerStep
<1>5. CASE \E c \in Clients : ClientStep(c)
  BY <1>5, TidyCreated, TidyReceive DEF ClientStep
<1>6. ASSUME NEW c \in Clients, StartTurn(c)
      PROVE  Creating' /\ \A d \in Clients : Tidy(d)'
  <2>1. /\ Held(c) /\ toServer' = ToServer(c, <<[kind |-> "turn"]>>)
        /\ UNCHANGED <<inflightCreate, unsent, requests, open, entry,
                       connected, attached, subscribers, hasty>>
    BY <1>6 DEF StartTurn, servingVars, historyVars
  <2>2. Held(c)' /\ \A d \in Clients \ {c} : toServer'[d] = toServer[d]
    BY <2>1, ServedTypes DEF ToServer, Held, TidyInv
  <2> QED
    BY <1>2, <2>1, <2>2, TidyTalk
<1>7. CASE EndTurn
  BY <1>2, <1>3, <1>7 DEF EndTurn, clientVars, servingVars, historyVars
<1>8. CASE UserStep
  BY <1>6, <1>7, <1>8, TidyCreate, TidyAcquire, TidyRelease, TidyClose
     DEF UserStep
<1>9. CASE UNCHANGED vars
  BY <1>2, <1>3, <1>9 DEF vars
<1> QED
  BY <1>4, <1>5, <1>8, <1>9 DEF Next

\* Nothing keeps a session in memory for a client that has let go, unless it
\* let go while its subscribe was under way (the rollback of a failed restore
\* in protocolServerHandler.ts and the unsubscribe of the last reference).
THEOREM LeaksAreOfTheWindow == Spec => []LeaksOnlyInTheWindow
<1>1. TidyInv => LeaksOnlyInTheWindow
  <2> SUFFICES ASSUME TidyInv, NEW c \in Clients, LetGo(c),
                      c \in subscribers, c \notin hasty
               PROVE  FALSE
    BY DEF LeaksOnlyInTheWindow
  <2>1. c \in attached /\ c \in connected
    BY DEF TidyInv, Tidy, Bound, LetGo
  <2>2. EndsRetracted(<<>>)
    BY <2>1 DEF TidyInv, Tidy, Bound, LetGo
  <2> QED
    BY <2>2 DEF EndsRetracted
<1> QED
  BY <1>1, TidyInit, TidyNext, PTL DEF Spec

-----------------------------------------------------------------------------
(* What is shown is the session's history                                  *)

\* The messages that say where in the session's history they are.
Numbered == {"action", "snapshot"}

\* In a stream t to a client, of a session with N envelopes, the envelopes come
\* in order, and a snapshot contains those before it.
InOrder(t, N) ==
    /\ \A k \in 1 .. Len(t) : t[k].kind \in Numbered => t[k].seq <= N
    /\ \A k, l \in 1 .. Len(t) :
          k < l /\ t[k].kind = "action" =>
              /\ t[l].kind = "action" => t[k].seq < t[l].seq
              /\ t[l].kind = "snapshot" => t[k].seq <= t[l].seq

\* What comes after position k are the envelopes from m + 1 on.
Delivers(t, k, m, N) ==
    /\ \A l \in k + 1 .. Len(t) :
          t[l].kind = "action" => t[l].seq \in m + 1 .. N
    /\ \A x \in m + 1 .. N : \E l \in k + 1 .. Len(t) :
          t[l].kind = "action" /\ t[l].seq = x

\* Entry e lacks nothing that t does not deliver: a snapshot on its way is
\* followed by all that it does not contain, and contains what is buffered.
Matches(e, t, N) ==
    /\ e.buffered \in Seq(Nat)
    /\ \A j \in 1 .. Len(e.buffered) : e.buffered[j] <= N
    /\ \A j \in 1 .. Len(e.buffered) : \A k \in 1 .. Len(t) :
          t[k].kind \in Numbered => e.buffered[j] <= t[k].seq
    /\ \A k \in 1 .. Len(t) :
          t[k].kind = "snapshot" /\ t[k].id = e.id
          => Delivers(t, k, t[k].seq, N)
    /\ e.value = "ready" =>
          /\ e.buffered = <<>>
          /\ \E n \in 0 .. N : /\ e.view = [i \in 1 .. n |-> i]
                               /\ Delivers(t, 0, n, N)

\* The rest of a stream that is read.
LEMMA ReadOn ==
    ASSUME NEW t \in Seq(ClientMessage), t # <<>>, NEW N \in Nat,
           InOrder(t, N)
    PROVE  LET r == Tail(t)
               h == Head(t)
           IN /\ InOrder(r, N)
              /\ \A m \in Nat : \A k \in 1 .. Len(t) :
                    Delivers(t, k, m, N) => Delivers(r, k - 1, m, N)
              /\ h.kind # "action" => \A m \in Nat :
                    Delivers(t, 0, m, N) => Delivers(r, 0, m, N)
              /\ h.kind = "action" => \A m \in Nat :
                    Delivers(t, 0, m, N) =>
                        /\ h.seq = m + 1 /\ m + 1 <= N
                        /\ Delivers(r, 0, m + 1, N)
<1> DEFINE r == Tail(t)
           h == Head(t)
           p == Len(t)
<1>1. /\ p \in Nat \ {0} /\ Len(r) = p - 1 /\ h = t[1] /\ 1 \in 1 .. p
      /\ \A k \in 1 .. p - 1 : r[k] = t[k + 1] /\ k + 1 \in 1 .. p
      /\ \A k \in 1 .. p : k = 1 \/ (k - 1 \in 1 .. p - 1 /\ t[k] = r[k - 1])
      /\ \A k \in 1 .. p : t[k] \in ClientMessage
  OBVIOUS
<1> HIDE DEF r, h, p
<1>2. Len(t) = p
  BY DEF p
<1>3. \A k \in 1 .. p : t[k].kind \in Numbered => t[k].seq \in Nat
  BY <1>1 DEF ClientMessage, Numbered
<1>4. InOrder(r, N)
  <2>1. ASSUME NEW k \in 1 .. Len(r), r[k].kind \in Numbered
        PROVE  r[k].seq <= N
    BY <1>1, <1>2, <2>1 DEF InOrder
  <2>2. ASSUME NEW k \in 1 .. Len(r), NEW l \in 1 .. Len(r), k < l,
               r[k].kind = "action"
        PROVE  /\ r[l].kind = "action" => r[k].seq < r[l].seq
               /\ r[l].kind = "snapshot" => r[k].seq <= r[l].seq
    <3>1. /\ k + 1 \in 1 .. p /\ l + 1 \in 1 .. p
          /\ r[k] = t[k + 1] /\ r[l] = t[l + 1]
      BY <1>1
    <3>2. k + 1 < l + 1
      BY <2>2
    <3> QED
      BY <1>2, <2>2, <3>1, <3>2 DEF InOrder
  <2> QED
    BY <2>1, <2>2 DEF InOrder
<1>5. ASSUME NEW m \in Nat, NEW k \in 1 .. p, Delivers(t, k, m, N)
      PROVE  Delivers(r, k - 1, m, N)
  <2>1. ASSUME NEW l \in (k - 1) + 1 .. Len(r), r[l].kind = "action"
        PROVE  r[l].seq \in m + 1 .. N
    <3>1. l \in 1 .. p - 1 /\ l + 1 \in k + 1 .. p /\ r[l] = t[l + 1]
      BY <1>1, <2>1
    <3> QED
      BY <1>2, <1>5, <2>1, <3>1 DEF Delivers
  <2>2. ASSUME NEW x \in m + 1 .. N
        PROVE  \E l \in (k - 1) + 1 .. Len(r) :
                  r[l].kind = "action" /\ r[l].seq = x
    <3>1. PICK l \in k + 1 .. p : t[l].kind = "action" /\ t[l].seq = x
      BY <1>2, <1>5 DEF Delivers
    <3>2. l - 1 \in (k - 1) + 1 .. Len(r) /\ r[l - 1] = t[l]
      BY <1>1
    <3> QED
      BY <3>1, <3>2
  <2> QED
    BY <2>1, <2>2 DEF Delivers
<1>6. ASSUME NEW m \in Nat, Delivers(t, 0, m, N), h.kind # "action"
      PROVE  Delivers(r, 0, m, N)
  <2>1. ASSUME NEW l \in 0 + 1 .. Len(r), r[l].kind = "action"
        PROVE  r[l].seq \in m + 1 .. N
    <3>1. l \in 1 .. p - 1 /\ l + 1 \in 0 + 1 .. p /\ r[l] = t[l + 1]
      BY <1>1
    <3> QED
      BY <1>2, <1>6, <2>1, <3>1 DEF Delivers
  <2>2. ASSUME NEW x \in m + 1 .. N
        PROVE  \E l \in 0 + 1 .. Len(r) :
                  r[l].kind = "action" /\ r[l].seq = x
    <3>1. PICK l \in 0 + 1 .. p : t[l].kind = "action" /\ t[l].seq = x
      BY <1>2, <1>6 DEF Delivers
    <3>2. l # 1
      BY <1>1, <1>6, <3>1
    <3>3. l - 1 \in 0 + 1 .. Len(r) /\ r[l - 1] = t[l]
      BY <1>1, <3>2
    <3> QED
      BY <3>1, <3>3
  <2> QED
    BY <2>1, <2>2 DEF Delivers
<1>7. ASSUME NEW m \in Nat, Delivers(t, 0, m, N), h.kind = "action"
      PROVE  /\ h.seq = m + 1 /\ m + 1 <= N
             /\ Delivers(r, 0, m + 1, N)
  <2>1. h.seq \in m + 1 .. N /\ h.seq \in Nat
    <3>1. 1 \in 0 + 1 .. p /\ t[1].kind = "action"
      BY <1>1, <1>7
    <3> QED
      BY <1>1, <1>2, <1>3, <1>7, <3>1 DEF Delivers, Numbered
  <2>2. ASSUME NEW l \in 2 .. p, t[l].kind = "action"
        PROVE  h.seq < t[l].seq /\ t[l].seq \in m + 1 .. N
    <3>1. l \in 1 .. p /\ l \in 0 + 1 .. p /\ 1 < l
      BY <1>1
    <3> QED
      BY <1>1, <1>2, <1>7, <2>2, <3>1 DEF InOrder, Delivers
  <2>3. h.seq = m + 1
    <3>1. m + 1 \in m + 1 .. N
      BY <2>1
    <3>2. PICK l \in 0 + 1 .. p : t[l].kind = "action" /\ t[l].seq = m + 1
      BY <1>2, <1>7, <3>1 DEF Delivers
    <3>3. l = 1 \/ l \in 2 .. p
      BY <1>1
    <3> QED
      BY <1>1, <2>1, <2>2, <3>2, <3>3
  <2>4. ASSUME NEW l \in 0 + 1 .. Len(r), r[l].kind = "action"
        PROVE  r[l].seq \in (m + 1) + 1 .. N
    <3>1. l \in 1 .. p - 1 /\ l + 1 \in 2 .. p /\ r[l] = t[l + 1]
      BY <1>1
    <3> QED
      BY <2>2, <2>3, <2>4, <3>1
  <2>5. ASSUME NEW x \in (m + 1) + 1 .. N
        PROVE  \E l \in 0 + 1 .. Len(r) :
                  r[l].kind = "action" /\ r[l].seq = x
    <3>1. x \in m + 1 .. N
      OBVIOUS
    <3>2. PICK l \in 0 + 1 .. p : t[l].kind = "action" /\ t[l].seq = x
      BY <1>2, <1>7, <3>1 DEF Delivers
    <3>3. l # 1
      BY <1>1, <2>3, <3>2
    <3>4. l - 1 \in 0 + 1 .. Len(r) /\ r[l - 1] = t[l]
      BY <1>1, <3>3
    <3> QED
      BY <3>2, <3>4
  <2> QED
    BY <2>1, <2>3, <2>4, <2>5 DEF Delivers
<1> QED
  BY <1>2, <1>4, <1>5, <1>6, <1>7 DEF r, h

\* A stream to which snapshots of all there is, and other messages that are
\* no envelopes, are added.
Prolongs(r, t, N) ==
    /\ r \in Seq(ClientMessage) /\ Len(t) <= Len(r)
    /\ \A k \in 1 .. Len(t) : r[k] = t[k]
    /\ \A k \in Len(t) + 1 .. Len(r) :
          /\ r[k].kind # "action"
          /\ r[k].kind = "snapshot" => r[k].seq = N

\* It tells no less.
LEMMA ToldMore ==
    ASSUME NEW t \in Seq(ClientMessage), NEW N \in Nat, NEW r,
           Prolongs(r, t, N), InOrder(t, N)
    PROVE  /\ InOrder(r, N)
           /\ \A m \in Nat : \A k \in 0 .. Len(t) :
                 Delivers(t, k, m, N) => Delivers(r, k, m, N)
           /\ \A k \in Len(t) + 1 .. Len(r) : Delivers(r, k, N, N)
<1>1. /\ Len(t) \in Nat /\ Len(r) \in Nat /\ Len(t) <= Len(r)
      /\ \A k \in 1 .. Len(t) : r[k] = t[k] /\ k \in 1 .. Len(r)
      /\ \A k \in Len(t) + 1 .. Len(r) :
            r[k].kind # "action" /\ (r[k].kind = "snapshot" => r[k].seq = N)
      /\ \A k \in 1 .. Len(r) : k \in 1 .. Len(t) \/ k \in Len(t) + 1 .. Len(r)
      /\ \A k \in 1 .. Len(r) : r[k].kind \in Numbered => r[k].seq \in Nat
  BY DEF Prolongs, ClientMessage, Numbered
<1>2. InOrder(r, N)
  <2>1. \A k \in 1 .. Len(r) : r[k].kind \in Numbered => r[k].seq <= N
    BY <1>1 DEF InOrder, Numbered
  <2>2. ASSUME NEW k \in 1 .. Len(r), NEW l \in 1 .. Len(r), k < l,
               r[k].kind = "action"
        PROVE  /\ r[l].kind = "action" => r[k].seq < r[l].seq
               /\ r[l].kind = "snapshot" => r[k].seq <= r[l].seq
    <3>1. k \in 1 .. Len(t) /\ r[k] = t[k]
      BY <1>1, <2>2
    <3>2. CASE l \in 1 .. Len(t)
      BY <1>1, <2>2, <3>1, <3>2 DEF InOrder
    <3>3. CASE l \in Len(t) + 1 .. Len(r)
      <4>1. r[k].seq <= N
        BY <2>1, <2>2 DEF Numbered
      <4> QED
        BY <1>1, <3>3, <4>1
    <3> QED
      BY <1>1, <3>2, <3>3
  <2> QED
    BY <2>1, <2>2 DEF InOrder
<1>3. ASSUME NEW m \in Nat, NEW k \in 0 .. Len(t), Delivers(t, k, m, N)
      PROVE  Delivers(r, k, m, N)
  <2>1. ASSUME NEW l \in k + 1 .. Len(r), r[l].kind = "action"
        PROVE  r[l].seq \in m + 1 .. N
    <3>1. l \in k + 1 .. Len(t) /\ r[l] = t[l]
      BY <1>1, <2>1
    <3> QED
      BY <1>3, <2>1, <3>1 DEF Delivers
  <2>2. ASSUME NEW x \in m + 1 .. N
        PROVE  \E l \in k + 1 .. Len(r) :
                  r[l].kind = "action" /\ r[l].seq = x
    <3>1. PICK l \in k + 1 .. Len(t) : t[l].kind = "action" /\ t[l].seq = x
      BY <1>3 DEF Delivers
    <3>2. l \in k + 1 .. Len(r) /\ r[l] = t[l]
      BY <1>1
    <3> QED
      BY <3>1, <3>2
  <2> QED
    BY <2>1, <2>2 DEF Delivers
<1>4. ASSUME NEW k \in Len(t) + 1 .. Len(r) PROVE Delivers(r, k, N, N)
  BY <1>1, <1>4 DEF Delivers
<1> QED
  BY <1>2, <1>3, <1>4

\* One envelope more.
LEMMA ToldNext ==
    ASSUME NEW t \in Seq(ClientMessage), NEW N \in Nat, NEW a \in ClientMessage,
           a.kind = "action", a.seq = N + 1, InOrder(t, N)
    PROVE  /\ InOrder(Append(t, a), N + 1)
           /\ \A m \in 0 .. N : \A k \in 0 .. Len(t) :
                 Delivers(t, k, m, N) => Delivers(Append(t, a), k, m, N + 1)
<1> DEFINE r == Append(t, a)
           p == Len(t)
<1>1. /\ p \in Nat /\ Len(r) = p + 1 /\ r[p + 1] = a /\ p + 1 \in 1 .. p + 1
      /\ \A k \in 1 .. p : r[k] = t[k] /\ k \in 1 .. p + 1
      /\ \A k \in 1 .. p + 1 : k \in 1 .. p \/ k = p + 1
      /\ \A k \in 1 .. p : t[k] \in ClientMessage
  OBVIOUS
<1> HIDE DEF r, p
<1>2. Len(t) = p
  BY DEF p
<1>3. \A k \in 1 .. p :
         t[k].kind \in Numbered => t[k].seq \in Nat /\ t[k].seq <= N
  BY <1>1, <1>2 DEF InOrder, ClientMessage, Numbered
<1>4. InOrder(r, N + 1)
  <2>1. \A k \in 1 .. Len(r) : r[k].kind \in Numbered => r[k].seq <= N + 1
    BY <1>1, <1>3
  <2>2. ASSUME NEW k \in 1 .. Len(r), NEW l \in 1 .. Len(r), k < l,
               r[k].kind = "action"
        PROVE  /\ r[l].kind = "action" => r[k].seq < r[l].seq
               /\ r[l].kind = "snapshot" => r[k].seq <= r[l].seq
    <3>1. k \in 1 .. p /\ r[k] = t[k]
      BY <1>1, <2>2
    <3>2. CASE l \in 1 .. p
      BY <1>1, <1>2, <2>2, <3>1, <3>2 DEF InOrder
    <3>3. CASE l = p + 1
      <4>1. t[k].seq \in Nat /\ t[k].seq <= N
        BY <1>3, <2>2, <3>1 DEF Numbered
      <4> QED
        BY <1>1, <3>1, <3>3, <4>1
    <3> QED
      BY <1>1, <3>2, <3>3
  <2> QED
    BY <2>1, <2>2 DEF InOrder
<1>5. ASSUME NEW m \in 0 .. N, NEW k \in 0 .. p, Delivers(t, k, m, N)
      PROVE  Delivers(r, k, m, N + 1)
  <2>1. ASSUME NEW l \in k + 1 .. Len(r), r[l].kind = "action"
        PROVE  r[l].seq \in m + 1 .. N + 1
    <3>1. CASE l = p + 1
      BY <1>1, <3>1
    <3>2. CASE l # p + 1
      <4>1. l \in k + 1 .. p /\ r[l] = t[l]
        BY <1>1, <3>2
      <4>2. t[l].seq \in m + 1 .. N
        BY <1>2, <1>5, <2>1, <4>1 DEF Delivers
      <4> QED
        BY <4>1, <4>2
    <3> QED
      BY <3>1, <3>2
  <2>2. ASSUME NEW x \in m + 1 .. N + 1
        PROVE  \E l \in k + 1 .. Len(r) :
                  r[l].kind = "action" /\ r[l].seq = x
    <3>1. CASE x = N + 1
      <4>1. p + 1 \in k + 1 .. Len(r) /\ r[p + 1].kind = "action"
            /\ r[p + 1].seq = x
        BY <1>1, <3>1
      <4> QED
        BY <4>1
    <3>2. CASE x # N + 1
      <4>1. x \in m + 1 .. N
        BY <3>2
      <4>2. PICK l \in k + 1 .. p : t[l].kind = "action" /\ t[l].seq = x
        BY <1>2, <1>5, <4>1 DEF Delivers
      <4>3. l \in k + 1 .. Len(r) /\ r[l] = t[l]
        BY <1>1
      <4> QED
        BY <4>2, <4>3
    <3> QED
      BY <3>1, <3>2
  <2> QED
    BY <2>1, <2>2 DEF Delivers
<1> QED
  BY <1>2, <1>4, <1>5 DEF r

\* Induction over the natural numbers, as a set that is closed under successor.
LEMMA Induction ==
    ASSUME NEW S \in SUBSET Nat, 0 \in S, \A n \in S : n + 1 \in S
    PROVE  S = Nat
<1> SUFFICES ASSUME Nat \ S # {} PROVE FALSE
  OBVIOUS
<1> DEFINE T == Nat \ S
           R == OpToRel(<, Nat)
<1>1. IsWellFoundedOn(R, Nat)
  BY NatLessThanWellFounded
<1>2. R = {ss \in Nat \X Nat : ss[1] < ss[2]}
  BY DEF OpToRel
<1>3. T \in SUBSET Nat /\ T # {}
  OBVIOUS
<1> HIDE DEF R, T
<1>4. \E x \in T : \A y \in T : ~ (<<y, x>> \in R)
  BY <1>1, <1>3, WFMin, Zenon
<1>5. PICK x \in T : \A y \in T : x <= y
  <2>1. \A x, y \in Nat : ~ (<<y, x>> \in R) => x <= y
    BY <1>2
  <2> QED
    BY <1>3, <1>4, <2>1
<1>6. x # 0 /\ x - 1 \in Nat /\ x \in Nat
  BY <1>5 DEF T
<1>7. x - 1 \in S
  BY <1>5, <1>6 DEF T
<1> QED
  BY <1>5, <1>6, <1>7 DEF T

\* Nothing comes after m in a sequence that does not exceed it.
LEMMA AfterNone ==
    ASSUME NEW s \in Seq(Nat), NEW m \in Nat,
           \A i \in 1 .. Len(s) : s[i] <= m
    PROVE  After(s, m) = <<>>
<1> DEFINE G(f) == [k \in 0 .. Len(s) |->
                       IF k = 0 THEN <<>>
                       ELSE IF s[k] > m THEN Append(f[k - 1], s[k])
                       ELSE f[k - 1]]
           kept == CHOOSE f : f = G(f)
<1>1. After(s, m) = kept[Len(s)]
  BY DEF After
<1>2. \E f : f = G(f)
  <2> WITNESS [k \in 0 .. Len(s) |-> <<>>]
  <2>1. \A k \in 1 .. Len(s) : ~ (s[k] > m)
    OBVIOUS
  <2> QED
    BY <2>1
<1>3. kept = G(kept)
  <2> HIDE DEF G
  <2> QED
    BY <1>2
<1> HIDE DEF kept
<1>4. \A k \in 1 .. Len(s) : ~ (s[k] > m)
  OBVIOUS
<1>5. \A k \in 0 .. Len(s) : kept[k] = <<>>
  <2> DEFINE S == {k \in Nat : k <= Len(s) => kept[k] = <<>>}
  <2>1. 0 \in S
    BY <1>3
  <2>2. \A n \in S : n + 1 \in S
    BY <1>3, <1>4
  <2>3. S \in SUBSET Nat
    OBVIOUS
  <2> HIDE DEF S
  <2>4. S = Nat
    BY <2>1, <2>2, <2>3, Induction
  <2> QED
    BY <2>4 DEF S
<1> QED
  BY <1>1, <1>5

\* What a client reads, and does with it, is what it lacked.
LEMMA MatchesRead ==
    ASSUME NEW t \in Seq(ClientMessage), t # <<>>, NEW N \in Nat,
           InOrder(t, N), NEW e, Matches(e, t, N), NEW f, f.id = e.id
    PROVE  LET r == Tail(t)
               h == Head(t)
           IN /\ /\ h.kind # "action"
                 /\ f.buffered = e.buffered /\ f.view = e.view
                 /\ f.value # "ready" \/ f.value = e.value
                 => Matches(f, r, N)
              /\ /\ h.kind = "snapshot" /\ h.id = e.id
                 /\ f.buffered = <<>> /\ f.view = [i \in 1 .. h.seq |-> i]
                 => Matches(f, r, N)
              /\ /\ h.kind = "action" /\ e.value = "ready"
                 /\ f.buffered = e.buffered /\ f.view = Append(e.view, h.seq)
                 => Matches(f, r, N)
              /\ /\ h.kind = "action" /\ f.value # "ready"
                 /\ f.buffered = Append(e.buffered, h.seq)
                 => Matches(f, r, N)
<1> DEFINE r == Tail(t)
           h == Head(t)
           p == Len(t)
           b == e.buffered
<1>1. /\ p \in Nat \ {0} /\ Len(r) = p - 1 /\ h = t[1] /\ 1 \in 1 .. p
      /\ \A k \in 1 .. p - 1 : r[k] = t[k + 1] /\ k + 1 \in 1 .. p
      /\ \A k \in 1 .. p : t[k] \in ClientMessage
  OBVIOUS
<1>2. /\ \A m \in Nat : \A k \in 1 .. p :
            Delivers(t, k, m, N) => Delivers(r, k - 1, m, N)
      /\ h.kind # "action" => \A m \in Nat :
            Delivers(t, 0, m, N) => Delivers(r, 0, m, N)
      /\ h.kind = "action" => \A m \in Nat :
            Delivers(t, 0, m, N) => /\ h.seq = m + 1 /\ m + 1 <= N
                                    /\ Delivers(r, 0, m + 1, N)
  BY ReadOn
<1> HIDE DEF r, h, p
<1>3. Len(t) = p
  BY DEF p
<1>4. \A k \in 1 .. p : t[k].kind \in Numbered =>
         t[k].seq \in Nat /\ t[k].seq <= N
  BY <1>1, <1>3 DEF InOrder, ClientMessage, Numbered
<1>5. /\ b \in Seq(Nat)
      /\ \A j \in 1 .. Len(b) : b[j] \in Nat /\ b[j] <= N
      /\ \A j \in 1 .. Len(b) : \A k \in 1 .. Len(r) :
            r[k].kind \in Numbered => b[j] <= r[k].seq
  BY <1>1, <1>3 DEF Matches
<1>6. \A k \in 1 .. Len(r) : r[k].kind = "snapshot" /\ r[k].id = f.id
                                => Delivers(r, k, r[k].seq, N)
  <2> SUFFICES ASSUME NEW k \in 1 .. Len(r), r[k].kind = "snapshot",
                      r[k].id = f.id
               PROVE  Delivers(r, k, r[k].seq, N)
    OBVIOUS
  <2>1. /\ k + 1 \in 1 .. p /\ r[k] = t[k + 1] /\ (k + 1) - 1 = k
    BY <1>1
  <2>2. Delivers(t, k + 1, t[k + 1].seq, N) /\ t[k + 1].seq \in Nat
    BY <1>3, <1>4, <2>1 DEF Matches, Numbered
  <2>3. Delivers(r, (k + 1) - 1, t[k + 1].seq, N)
    BY <1>2, <2>1, <2>2
  <2> QED
    BY <2>1, <2>3
<1>7. <<>> \in Seq(Nat) /\ Len(<<>>) = 0
  OBVIOUS
<1>8. /\ h.kind # "action"
      /\ f.buffered = e.buffered /\ f.view = e.view
      /\ f.value # "ready" \/ f.value = e.value
      => Matches(f, r, N)
  <2> SUFFICES ASSUME h.kind # "action", f.buffered = b, f.view = e.view,
                      f.value # "ready" \/ f.value = e.value
               PROVE  Matches(f, r, N)
    OBVIOUS
  <2>1. ASSUME f.value = "ready"
        PROVE  /\ b = <<>>
               /\ \E n \in 0 .. N : /\ e.view = [i \in 1 .. n |-> i]
                                    /\ Delivers(r, 0, n, N)
    <3>1. PICK n \in 0 .. N : /\ e.view = [i \in 1 .. n |-> i]
                              /\ Delivers(t, 0, n, N)
      BY <2>1 DEF Matches
    <3>2. Delivers(r, 0, n, N)
      BY <1>2, <3>1
    <3> QED
      BY <2>1, <3>1, <3>2 DEF Matches
  <2> QED
    BY <1>5, <1>6, <2>1 DEF Matches
<1>9. /\ h.kind = "snapshot" /\ h.id = e.id
      /\ f.buffered = <<>> /\ f.view = [i \in 1 .. h.seq |-> i]
      => Matches(f, r, N)
  <2> SUFFICES ASSUME h.kind = "snapshot", h.id = e.id, f.buffered = <<>>,
                      f.view = [i \in 1 .. h.seq |-> i]
               PROVE  Matches(f, r, N)
    OBVIOUS
  <2>1. h.seq \in 0 .. N
    BY <1>1, <1>4 DEF Numbered
  <2>2. Delivers(t, 1, h.seq, N)
    BY <1>1, <1>3 DEF Matches
  <2>3. Delivers(r, 0, h.seq, N)
    BY <1>1, <1>2, <2>1, <2>2
  <2> QED
    BY <1>6, <1>7, <2>1, <2>3 DEF Matches
<1>10. /\ h.kind = "action" /\ e.value = "ready"
       /\ f.buffered = e.buffered /\ f.view = Append(e.view, h.seq)
       => Matches(f, r, N)
  <2> SUFFICES ASSUME h.kind = "action", e.value = "ready", f.buffered = b,
                      f.view = Append(e.view, h.seq)
               PROVE  Matches(f, r, N)
    OBVIOUS
  <2>1. PICK n \in 0 .. N : /\ e.view = [i \in 1 .. n |-> i]
                            /\ Delivers(t, 0, n, N)
    BY DEF Matches
  <2>2. h.seq = n + 1 /\ n + 1 <= N /\ Delivers(r, 0, n + 1, N)
    BY <1>2, <2>1
  <2>3. Append([i \in 1 .. n |-> i], n + 1) = [i \in 1 .. n + 1 |-> i]
    OBVIOUS
  <2>4. n + 1 \in 0 .. N /\ f.view = [i \in 1 .. n + 1 |-> i] /\ b = <<>>
    BY <2>1, <2>2, <2>3 DEF Matches
  <2> QED
    BY <1>5, <1>6, <2>2, <2>4 DEF Matches
<1>11. /\ h.kind = "action" /\ f.value # "ready"
       /\ f.buffered = Append(e.buffered, h.seq)
       => Matches(f, r, N)
  <2> SUFFICES ASSUME h.kind = "action", f.value # "ready",
                      f.buffered = Append(b, h.seq)
               PROVE  Matches(f, r, N)
    OBVIOUS
  <2>1. h.seq \in Nat /\ h.seq <= N
    BY <1>1, <1>4 DEF Numbered
  <2>2. \A k \in 1 .. Len(r) : r[k].kind \in Numbered => h.seq <= r[k].seq
    <3> SUFFICES ASSUME NEW k \in 1 .. Len(r), r[k].kind \in Numbered
                 PROVE  h.seq <= r[k].seq
      OBVIOUS
    <3>1. k + 1 \in 1 .. p /\ r[k] = t[k + 1] /\ 1 < k + 1
      BY <1>1
    <3>2. r[k].seq \in Nat
      BY <1>4, <3>1
    <3> QED
      BY <1>1, <1>3, <2>1, <3>1, <3>2 DEF InOrder, Numbered
  <2> HIDE DEF b
  <2>3. /\ f.buffered \in Seq(Nat)
        /\ \A j \in 1 .. Len(f.buffered) :
              \/ f.buffered[j] = h.seq
              \/ j \in 1 .. Len(b) /\ f.buffered[j] = b[j]
    BY <1>5, <2>1
  <2> QED
    BY <1>5, <1>6, <2>1, <2>2, <2>3 DEF Matches
<1> QED
  BY <1>8, <1>9, <1>10, <1>11 DEF r, h

\* It lacks nothing when more is told that is no envelope.
LEMMA MatchesMore ==
    ASSUME NEW t \in Seq(ClientMessage), NEW N \in Nat, NEW r,
           Prolongs(r, t, N), InOrder(t, N), NEW e, Matches(e, t, N)
    PROVE  Matches(e, r, N)
<1>1. /\ \A m \in Nat : \A k \in 0 .. Len(t) :
            Delivers(t, k, m, N) => Delivers(r, k, m, N)
      /\ \A k \in Len(t) + 1 .. Len(r) : Delivers(r, k, N, N)
  BY ToldMore
<1>2. /\ Len(t) \in Nat /\ Len(r) \in Nat /\ Len(t) <= Len(r)
      /\ \A k \in 1 .. Len(t) : r[k] = t[k] /\ k \in 0 .. Len(t)
      /\ \A k \in Len(t) + 1 .. Len(r) :
            r[k].kind # "action" /\ (r[k].kind = "snapshot" => r[k].seq = N)
      /\ \A k \in 1 .. Len(r) : k \in 1 .. Len(t) \/ k \in Len(t) + 1 .. Len(r)
      /\ \A k \in 1 .. Len(t) : t[k].kind \in Numbered => t[k].seq \in Nat
  BY DEF Prolongs, ClientMessage, Numbered
<1>3. \A j \in 1 .. Len(e.buffered) : \A k \in 1 .. Len(r) :
          r[k].kind \in Numbered => e.buffered[j] <= r[k].seq
  BY <1>2 DEF Matches, Numbered
<1>4. ASSUME NEW k \in 1 .. Len(r), r[k].kind = "snapshot", r[k].id = e.id
      PROVE  Delivers(r, k, r[k].seq, N)
  <2>1. CASE k \in 1 .. Len(t)
    <3>1. Delivers(t, k, t[k].seq, N) /\ t[k].seq \in Nat /\ r[k] = t[k]
      BY <1>2, <1>4, <2>1 DEF Matches, Numbered
    <3> QED
      BY <1>1, <1>2, <2>1, <3>1
  <2>2. CASE k \in Len(t) + 1 .. Len(r)
    BY <1>1, <1>2, <1>4, <2>2
  <2> QED
    BY <1>2, <2>1, <2>2
<1>5. ASSUME e.value = "ready"
      PROVE  \E n \in 0 .. N : /\ e.view = [i \in 1 .. n |-> i]
                               /\ Delivers(r, 0, n, N)
  BY <1>1, <1>2, <1>5 DEF Matches
<1> QED
  BY <1>3, <1>4, <1>5 DEF Matches

\* Nor when it is told the next envelope.
LEMMA MatchesNext ==
    ASSUME NEW t \in Seq(ClientMessage), NEW N \in Nat, NEW a \in ClientMessage,
           a.kind = "action", a.seq = N + 1, InOrder(t, N),
           NEW e, Matches(e, t, N)
    PROVE  Matches(e, Append(t, a), N + 1)
<1> DEFINE r == Append(t, a)
           p == Len(t)
           b == e.buffered
<1>1. /\ p \in Nat /\ Len(r) = p + 1 /\ r[p + 1] = a
      /\ \A k \in 1 .. p : r[k] = t[k] /\ k \in 0 .. p
      /\ \A k \in 1 .. p + 1 : k \in 1 .. p \/ k = p + 1
      /\ \A k \in 1 .. p : t[k] \in ClientMessage
      /\ \A m \in 0 .. N : \A k \in 0 .. p :
            Delivers(t, k, m, N) => Delivers(r, k, m, N + 1)
  BY ToldNext
<1> HIDE DEF r, p
<1>2. Len(t) = p
  BY DEF p
<1>3. \A k \in 1 .. p : t[k].kind \in Numbered => t[k].seq \in 0 .. N
  BY <1>1, <1>2 DEF InOrder, ClientMessage, Numbered
<1>4. /\ b \in Seq(Nat)
      /\ \A j \in 1 .. Len(b) : b[j] \in Nat /\ b[j] <= N /\ b[j] <= N + 1
  BY DEF Matches
<1>5. \A j \in 1 .. Len(b) : \A k \in 1 .. Len(r) :
          r[k].kind \in Numbered => b[j] <= r[k].seq
  BY <1>1, <1>2, <1>4 DEF Matches
<1>6. ASSUME NEW k \in 1 .. Len(r), r[k].kind = "snapshot", r[k].id = e.id
      PROVE  Delivers(r, k, r[k].seq, N + 1)
  <2>1. k \in 1 .. p /\ r[k] = t[k]
    BY <1>1, <1>6
  <2>2. Delivers(t, k, t[k].seq, N) /\ t[k].seq \in 0 .. N
    BY <1>2, <1>3, <1>6, <2>1 DEF Matches, Numbered
  <2> QED
    BY <1>1, <2>1, <2>2
<1>7. ASSUME e.value = "ready"
      PROVE  \E n \in 0 .. N + 1 : /\ e.view = [i \in 1 .. n |-> i]
                                   /\ Delivers(r, 0, n, N + 1)
  <2>1. PICK n \in 0 .. N : /\ e.view = [i \in 1 .. n |-> i]
                            /\ Delivers(t, 0, n, N)
    BY <1>7 DEF Matches
  <2>2. Delivers(r, 0, n, N + 1) /\ n \in 0 .. N + 1
    BY <1>1, <2>1
  <2> QED
    BY <2>1, <2>2
<1>8. Matches(e, r, N + 1)
  BY <1>4, <1>5, <1>6, <1>7 DEF Matches
<1> QED
  BY <1>8 DEF r

\* An entry that has nothing yet lacks nothing when it is told nothing.
LEMMA MatchesUntold ==
    ASSUME NEW t \in Seq(ClientMessage), NEW N \in Nat, InOrder(t, N),
           NEW e, Matches(e, t, N), e.value # "ready", ~SnapshotOf(t, e.id)
    PROVE  Matches(e, t, N + 1)
<1>1. \A j \in 1 .. Len(e.buffered) : e.buffered[j] <= N + 1
  BY DEF Matches
<1> QED
  BY <1>1 DEF Matches, SnapshotOf

\* Envelopes a client is not told are no envelopes out of order.
LEMMA InOrderUntold ==
    ASSUME NEW t \in Seq(ClientMessage), NEW N \in Nat, InOrder(t, N)
    PROVE  InOrder(t, N + 1)
<1>1. \A k \in 1 .. Len(t) : t[k].kind \in Numbered =>
         t[k].seq \in Nat /\ t[k].seq <= N
  BY DEF InOrder, ClientMessage, Numbered
<1> QED
  BY <1>1 DEF InOrder

\* Client c's stream, with what it shows, is the session's history.
Synced(c) ==
    open[c] =>
        /\ InOrder(toClient[c], serverSeq)
        /\ Held(c) => Matches(entry[c], toClient[c], serverSeq)

\* The inductive invariant of InSync.
SyncInv == ServedInv /\ \A c \in Clients : Synced(c)

\* Two entries show the same, and wait for the same.
Alike(f, e) ==
    /\ f.id = e.id /\ f.value = e.value
    /\ f.view = e.view /\ f.buffered = e.buffered

\* A client that is told nothing.
LEMMA SyncedKept ==
    ASSUME NEW d \in Clients, Synced(d),
           toClient'[d] = toClient[d], serverSeq' = serverSeq,
           open'[d] => open[d],
           Held(d)' => Held(d) /\ Alike(entry'[d], entry[d])
    PROVE  Synced(d)'
BY DEF Synced, Alike, Matches

\* A client that is told what is no envelope.
LEMMA SyncedMore ==
    ASSUME SyncInv, NEW d \in Clients,
           Prolongs(toClient'[d], toClient[d], serverSeq),
           serverSeq' = serverSeq, open'[d] = open[d], entry'[d] = entry[d]
    PROVE  Synced(d)'
<1>1. /\ toClient[d] \in Seq(ClientMessage) /\ serverSeq \in Nat
      /\ Synced(d) /\ (Held(d)' <=> Held(d))
  BY ServedTypes DEF SyncInv, ServedInv, Streams, Held
<1>2. open[d] => InOrder(toClient'[d], serverSeq)
  BY <1>1, ToldMore DEF Synced
<1>3. open[d] /\ Held(d) => Matches(entry[d], toClient'[d], serverSeq)
  BY <1>1, MatchesMore DEF Synced
<1> QED
  BY <1>1, <1>2, <1>3 DEF Synced

\* One message that is no envelope.
LEMMA ProlongsOne ==
    ASSUME NEW t \in Seq(ClientMessage), NEW N \in Nat, NEW m \in ClientMessage,
           m.kind # "action", m.kind = "snapshot" => m.seq = N,
           NEW r \in {t, Append(t, m)}
    PROVE  Prolongs(r, t, N)
<1>1. CASE r = t
  BY <1>1 DEF Prolongs
<1>2. CASE r = Append(t, m)
  BY <1>2 DEF Prolongs
<1> QED
  BY <1>1, <1>2

\* The answers of a restore.
LEMMA ProlongsAll ==
    ASSUME NEW t \in Seq(ClientMessage), NEW N \in Nat, NEW q \in Seq(Nat),
           NEW A \in [Nat -> ClientMessage],
           \A i \in Nat : /\ A[i].kind # "action"
                          /\ A[i].kind = "snapshot" => A[i].seq = N
    PROVE  Prolongs(t \o [k \in 1 .. Len(q) |-> A[q[k]]], t, N)
<1> DEFINE m == [k \in 1 .. Len(q) |-> A[q[k]]]
           r == t \o m
<1>1. /\ m \in Seq(ClientMessage) /\ Len(m) = Len(q)
      /\ \A k \in 1 .. Len(m) : /\ m[k].kind # "action"
                                /\ m[k].kind = "snapshot" => m[k].seq = N
  OBVIOUS
<1> HIDE DEF m
<1>2. /\ r \in Seq(ClientMessage) /\ Len(t) <= Len(r)
      /\ \A k \in 1 .. Len(t) : r[k] = t[k]
      /\ \A k \in Len(t) + 1 .. Len(r) :
            k - Len(t) \in 1 .. Len(m) /\ r[k] = m[k - Len(t)]
  BY <1>1
<1> HIDE DEF r
<1>3. Prolongs(r, t, N)
  BY <1>1, <1>2 DEF Prolongs
<1> QED
  BY <1>3 DEF r, m

\* A new envelope reaches all that show the session, or are about to.
LEMMA SyncedEmit ==
    ASSUME SyncInv, Emit, UNCHANGED <<open, entry>>
    PROVE  \A d \in Clients : Synced(d)'
<1> SUFFICES ASSUME NEW d \in Clients, open[d] PROVE Synced(d)'
  BY DEF Synced
<1> DEFINE a == [kind |-> "action", seq |-> serverSeq']
           t == toClient[d]
           N == serverSeq
           e == entry[d]
<1>1. /\ N \in Nat /\ serverSeq' = N + 1 /\ t \in Seq(ClientMessage)
      /\ a \in ClientMessage /\ a.kind = "action" /\ a.seq = N + 1
      /\ toClient'[d] = IF d \in attached THEN Append(t, a) ELSE t
  BY ServedTypes DEF SyncInv, ServedInv, Streams, Emit, ClientMessage
<1> HIDE DEF a
<1>2. /\ InOrder(t, N) /\ (Held(d) => Matches(e, t, N))
      /\ Held(d)' <=> Held(d)
  BY DEF SyncInv, Synced, Held
<1>3. CASE d \in attached
  BY <1>1, <1>2, <1>3, ToldNext, MatchesNext DEF Synced
<1>4. CASE d \notin attached
  <2>1. Held(d) => e.value # "ready" /\ ~SnapshotOf(t, e.id)
    BY <1>4 DEF SyncInv, ServedInv, Serving, Shows
  <2> QED
    BY <1>1, <1>2, <1>4, <2>1, InOrderUntold, MatchesUntold DEF Synced
<1> QED
  BY <1>3, <1>4

\* A client reads its stream, and makes of it what the code makes.
LEMMA SyncedRead ==
    ASSUME SyncInv, NEW c \in Clients, NEW kind, ClientReads(c, kind),
           UNCHANGED <<open, serverSeq>>,
           \A d \in Clients \ {c} : entry'[d] = entry[d],
           Held(c)' =>
              Held(c) /\ (open[c] => Matches(entry'[c], Tail(toClient[c]),
                                             serverSeq))
    PROVE  \A d \in Clients : Synced(d)'
<1> DEFINE t == toClient[c]
<1>1. /\ t \in Seq(ClientMessage) /\ t # <<>> /\ toClient'[c] = Tail(t)
      /\ \A d \in Clients \ {c} : toClient'[d] = toClient[d]
      /\ serverSeq \in Nat
  BY ServedTypes DEF ClientReads, SyncInv, ServedInv, Streams
<1>2. open[c] => InOrder(Tail(t), serverSeq)
  BY <1>1, ReadOn DEF SyncInv, Synced
<1>3. Synced(c)'
  BY <1>1, <1>2 DEF Synced
<1>4. ASSUME NEW d \in Clients \ {c} PROVE Synced(d)'
  BY <1>1, SyncedKept DEF SyncInv, Held, Alike
<1> QED
  BY <1>3, <1>4

\* handleSnapshot, setError and receiveEnvelope.
LEMMA SyncedReceive ==
    ASSUME SyncInv, NEW c \in Clients,
           ReceiveSnapshot(c) \/ ReceiveError(c) \/ ReceiveAction(c)
    PROVE  \A d \in Clients : Synced(d)'
<1> DEFINE t == toClient[c]
           e == entry[c]
           N == serverSeq
           h == Head(t)
           r == Tail(t)
<1>1. /\ UNCHANGED <<open, serverSeq>>
      /\ \E kind : ClientReads(c, kind)
  BY DEF ReceiveSnapshot, ReceiveError, ReceiveAction, sessionVars
<1>2. /\ t \in Seq(ClientMessage) /\ t # <<>>
      /\ N \in Nat /\ h \in ClientMessage
      /\ entry = [d \in Clients |-> entry[d]]
      /\ Held(c) => {"id", "value", "view", "buffered"} \subseteq DOMAIN e
  <2>1. t \in Seq(ClientMessage) /\ t # <<>>
    BY <1>1, ServedTypes DEF ClientReads, SyncInv
  <2>2. h \in ClientMessage
    BY <2>1, ClientRead
  <2> QED
    BY <2>1, <2>2, ServedTypes DEF SyncInv, ServedInv, Streams, IsEntry
<1>3. open[c] => InOrder(t, N) /\ (Held(c) => Matches(e, t, N))
  BY DEF SyncInv, Synced
<1>4. CASE ReceiveSnapshot(c)
  <2> DEFINE f == WithSnapshot(e, h.seq)
  <2>1. /\ h.kind = "snapshot"
        /\ entry' = IF AnswersCurrent(c, h.id) THEN [entry EXCEPT ![c] = f]
                    ELSE entry
    BY <1>4 DEF ReceiveSnapshot, ClientReads
  <2>2. h.seq \in Nat
    BY <1>2, <2>1 DEF ClientMessage
  <2>3. CASE AnswersCurrent(c, h.id)
    <3>1. Held(c) /\ h.id = e.id
      BY <2>3 DEF AnswersCurrent
    <3>2. /\ f.id = e.id /\ f.buffered = <<>>
          /\ f.view = [n \in 1 .. h.seq |-> n] \o After(e.buffered, h.seq)
      BY <1>2, <3>1 DEF WithSnapshot
    <3>3. entry'[c] = f /\ \A d \in Clients \ {c} : entry'[d] = entry[d]
      BY <1>2, <2>1, <2>3
    <3> HIDE DEF f
    <3>4. ASSUME open[c] PROVE Matches(f, r, N)
      <4>1. InOrder(t, N) /\ Matches(e, t, N)
        BY <1>3, <3>1, <3>4
      <4>2. 1 \in 1 .. Len(t) /\ h = t[1]
        BY <1>2
      <4>3. /\ e.buffered \in Seq(Nat)
            /\ \A j \in 1 .. Len(e.buffered) : e.buffered[j] <= h.seq
        BY <2>1, <4>1, <4>2 DEF Matches, Numbered
      <4>4. After(e.buffered, h.seq) = <<>>
        BY <2>2, <4>3, AfterNone
      <4>5. [n \in 1 .. h.seq |-> n] \in Seq(Nat)
        BY <2>2
      <4>6. f.view = [n \in 1 .. h.seq |-> n]
        BY <2>2, <3>2, <4>4, <4>5
      <4> QED
        BY <1>2, <2>1, <3>1, <3>2, <4>1, <4>6, MatchesRead
    <3> QED
      BY <1>1, <3>1, <3>3, <3>4, SyncedRead
  <2>4. CASE ~AnswersCurrent(c, h.id)
    <3>1. entry' = entry
      BY <2>1, <2>4
    <3>2. open[c] /\ Held(c) => Matches(e, r, N)
      BY <1>2, <1>3, <2>1, MatchesRead
    <3> QED
      BY <1>1, <3>1, <3>2, SyncedRead DEF Held
  <2> QED
    BY <2>3, <2>4
<1>5. CASE ReceiveError(c)
  <2> DEFINE f == [e EXCEPT !.value = "error"]
  <2>1. /\ h.kind = "error"
        /\ \/ entry' = entry
           \/ Held(c) /\ entry' = [entry EXCEPT ![c] = f]
    BY <1>5 DEF ReceiveError, ClientReads, AnswersCurrent
  <2>2. Held(c) => /\ f.id = e.id /\ f.value = "error"
                   /\ f.view = e.view /\ f.buffered = e.buffered
    BY <1>2
  <2> HIDE DEF f
  <2>3. CASE entry' = entry
    <3>1. open[c] /\ Held(c) => Matches(e, r, N)
      BY <1>2, <1>3, <2>1, MatchesRead
    <3> QED
      BY <1>1, <2>3, <3>1, SyncedRead DEF Held
  <2>4. CASE Held(c) /\ entry' = [entry EXCEPT ![c] = f]
    <3>1. entry'[c] = f /\ \A d \in Clients \ {c} : entry'[d] = entry[d]
      BY <1>2, <2>4
    <3>2. open[c] => Matches(f, r, N)
      BY <1>2, <1>3, <2>1, <2>2, <2>4, MatchesRead
    <3> QED
      BY <1>1, <2>4, <3>1, <3>2, SyncedRead
  <2> QED
    BY <2>1, <2>3, <2>4
<1>6. CASE ReceiveAction(c)
  <2> DEFINE f == [e EXCEPT !.view = Append(@, h.seq)]
             g == [e EXCEPT !.buffered = Append(@, h.seq)]
  <2>1. /\ h.kind = "action"
        /\ \/ ~Held(c) /\ entry' = entry
           \/ /\ Held(c) /\ e.value = "ready"
              /\ entry' = [entry EXCEPT ![c] = f]
           \/ /\ Held(c) /\ e.value # "ready"
              /\ entry' = [entry EXCEPT ![c] = g]
    BY <1>6 DEF ReceiveAction, ClientReads
  <2>2. Held(c) => /\ f.id = e.id /\ f.value = e.value
                   /\ f.view = Append(e.view, h.seq)
                   /\ f.buffered = e.buffered
                   /\ g.id = e.id /\ g.value = e.value
                   /\ g.buffered = Append(e.buffered, h.seq)
    BY <1>2
  <2> HIDE DEF f, g
  <2>3. CASE ~Held(c) /\ entry' = entry
    BY <1>1, <2>3, SyncedRead DEF Held
  <2>4. CASE /\ Held(c) /\ e.value = "ready"
             /\ entry' = [entry EXCEPT ![c] = f]
    <3>1. entry'[c] = f /\ \A d \in Clients \ {c} : entry'[d] = entry[d]
      BY <1>2, <2>4
    <3>2. open[c] => Matches(f, r, N)
      BY <1>2, <1>3, <2>1, <2>2, <2>4, MatchesRead
    <3> QED
      BY <1>1, <2>4, <3>1, <3>2, SyncedRead
  <2>5. CASE /\ Held(c) /\ e.value # "ready"
             /\ entry' = [entry EXCEPT ![c] = g]
    <3>1. entry'[c] = g /\ \A d \in Clients \ {c} : entry'[d] = entry[d]
      BY <1>2, <2>5
    <3>2. open[c] => Matches(g, r, N)
      BY <1>2, <1>3, <2>1, <2>2, <2>5, MatchesRead
    <3> QED
      BY <1>1, <2>5, <3>1, <3>2, SyncedRead
  <2> QED
    BY <2>1, <2>3, <2>4, <2>5
<1> QED
  BY <1>4, <1>5, <1>6

\* getSubscription: what is shared is shown as it is, and a new entry has
\* nothing to lack yet.
LEMMA SyncedAcquire ==
    ASSUME SyncInv, NEW c \in Clients, Acquire(c)
    PROVE  \A d \in Clients : Synced(d)'
<1> DEFINE m == entries[c] + 1
           t == toClient[c]
           e == entry[c]
           N == serverSeq
<1>1. UNCHANGED <<toClient, open, serverSeq>>
  BY DEF Acquire, sessionVars
<1>2. /\ entries \in [Clients -> Nat]
      /\ entry = [d \in Clients |-> entry[d]]
      /\ Held(c) => {"id", "value", "view", "buffered"} \subseteq DOMAIN e
      /\ t \in Seq(ClientMessage)
  BY ServedTypes DEF SyncInv, IsEntry
<1>3. CASE /\ Shareable(entry[c])
           /\ entry' = [entry EXCEPT ![c].refCount = @ + 1]
  <2>1. /\ entry'[c] = [e EXCEPT !.refCount = @ + 1] /\ Held(c)
        /\ \A d \in Clients \ {c} : entry'[d] = entry[d]
    BY <1>2, <1>3 DEF Shareable, Held
  <2>2. Alike(entry'[c], e)
    BY <1>2, <2>1 DEF Alike
  <2>3. \A d \in Clients : Held(d)' => Held(d) /\ Alike(entry'[d], entry[d])
    BY <2>1, <2>2 DEF Held, Alike
  <2> QED
    BY <1>1, <2>3, SyncedKept DEF SyncInv
<1>4. CASE /\ entries' = [entries EXCEPT ![c] = @ + 1]
           /\ entry' = [entry EXCEPT ![c] =
                          [id |-> entries'[c], refCount |-> 1,
                           value |-> "pending", view |-> <<>>,
                           buffered |-> <<>>]]
  <2>1. entries'[c] = m /\ m \notin 1 .. entries[c]
    BY <1>2, <1>4
  <2>2. /\ entry'[c].id = m /\ entry'[c].value = "pending"
        /\ entry'[c].buffered = <<>>
        /\ \A d \in Clients \ {c} : entry'[d] = entry[d]
    BY <1>2, <1>4, <2>1
  <2>3. ~Answers(t, m)
    <3>1. Requested(toServer[c], t, Waiting(c), requests[c], entries[c])
      BY DEF SyncInv, ServedInv, Serving
    <3> QED
      BY <2>1, <3>1 DEF Requested
  <2>4. Matches(entry'[c], t, N)
    <3>1. <<>> \in Seq(Nat) /\ Len(<<>>) = 0
      OBVIOUS
    <3> QED
      BY <2>2, <2>3, <3>1 DEF Matches, Answers
  <2>5. Synced(c)'
    BY <1>1, <2>4 DEF SyncInv, Synced
  <2>6. ASSUME NEW d \in Clients \ {c} PROVE Synced(d)'
    BY <1>1, <2>2, SyncedKept DEF SyncInv, Held, Alike
  <2> QED
    BY <2>5, <2>6
<1> QED
  BY <1>3, <1>4 DEF Acquire

\* A reference less, or no entry.
LEMMA SyncedRelease ==
    ASSUME SyncInv, NEW c \in Clients, NEW i \in Ids(c), Release(c, i)
    PROVE  \A d \in Clients : Synced(d)'
<1>1. /\ UNCHANGED <<toClient, open, serverSeq>>
      /\ \/ UNCHANGED entry
         \/ Held(c) /\ entry' = [entry EXCEPT ![c].refCount = @ - 1]
         \/ entry' = [entry EXCEPT ![c] = NoEntry]
  BY DEF Release, ReleasesCurrent, sessionVars
<1>2. /\ entry = [d \in Clients |-> entry[d]]
      /\ Held(c) =>
            {"id", "value", "view", "buffered"} \subseteq DOMAIN entry[c]
  BY ServedTypes DEF SyncInv, IsEntry
<1>3. \A d \in Clients : Held(d)' => Held(d) /\ Alike(entry'[d], entry[d])
  <2>1. CASE UNCHANGED entry
    BY <2>1 DEF Held, Alike
  <2>2. CASE Held(c) /\ entry' = [entry EXCEPT ![c].refCount = @ - 1]
    <3>1. /\ entry'[c] = [entry[c] EXCEPT !.refCount = @ - 1]
          /\ \A d \in Clients \ {c} : entry'[d] = entry[d]
      BY <1>2, <2>2
    <3>2. Alike(entry'[c], entry[c])
      BY <1>2, <2>2, <3>1 DEF Alike
    <3> QED
      BY <2>2, <3>1, <3>2 DEF Held, Alike
  <2>3. CASE entry' = [entry EXCEPT ![c] = NoEntry]
    BY <1>2, <2>3 DEF Held, Alike
  <2> QED
    BY <1>1, <2>1, <2>2, <2>3
<1> QED
  BY <1>1, <1>3, SyncedKept DEF SyncInv

\* The answers to those who waited for the session.
LEMMA SyncedRestore ==
    ASSUME SyncInv, Restored \/ RestoreFails
    PROVE  \A d \in Clients : Synced(d)'
<1> SUFFICES ASSUME NEW d \in Clients PROVE Synced(d)'
  OBVIOUS
<1>1. UNCHANGED <<open, entry, serverSeq>>
  BY DEF Restored, RestoreFails, clientVars, sessionVars
<1>2. /\ toClient[d] \in Seq(ClientMessage) /\ requests[d] \in Seq(Nat)
      /\ serverSeq \in Nat
  BY ServedTypes DEF SyncInv, ServedInv, Streams
<1>3. PICK A \in [Nat -> ClientMessage] :
         /\ AnsweredWith(A)
         /\ \A i \in Nat : /\ A[i].kind # "action"
                           /\ A[i].kind = "snapshot" => A[i].seq = serverSeq
  <2>1. \A i \in Nat : /\ SnapshotAnswer[i].kind # "action"
                       /\ SnapshotAnswer[i].seq = serverSeq
    BY DEF SnapshotAnswer
  <2>2. \A i \in Nat : ErrorAnswer[i].kind = "error"
    BY DEF ErrorAnswer
  <2>3. \A i \in Nat : /\ ErrorAnswer[i].kind # "action"
                       /\ ErrorAnswer[i].kind # "snapshot"
    BY <2>2
  <2>4. /\ Restored => AnsweredWith(SnapshotAnswer)
        /\ RestoreFails => AnsweredWith(ErrorAnswer)
        /\ SnapshotAnswer \in [Nat -> ClientMessage]
        /\ ErrorAnswer \in [Nat -> ClientMessage]
    BY RestoreAnswers DEF SyncInv, ServedInv, PinnedInv
  <2> QED
    BY <2>1, <2>3, <2>4
<1> DEFINE t == toClient[d]
           r == t \o [k \in 1 .. Len(requests[d]) |-> A[requests[d][k]]]
<1>4. Prolongs(r, t, serverSeq) /\ Prolongs(t, t, serverSeq)
  <2>1. Prolongs(r, t, serverSeq)
    BY <1>2, <1>3, ProlongsAll
  <2>2. Prolongs(t, t, serverSeq)
    BY <1>2 DEF Prolongs
  <2> QED
    BY <2>1, <2>2
<1>5. toClient'[d] \in {t, r}
  BY <1>3 DEF AnsweredWith
<1> QED
  BY <1>1, <1>4, <1>5, SyncedMore

\* What the clients show, and what is on its way, is all there is.
LEMMA SyncNext == SyncInv /\ [Next]_vars => SyncInv'
<1> SUFFICES ASSUME SyncInv, [Next]_vars PROVE SyncInv'
  OBVIOUS
<1> USE ConstantsAssumption
<1>1. ServedInv'
  BY ServedNext DEF SyncInv
<1> SUFFICES \A d \in Clients : Synced(d)'
  BY <1>1 DEF SyncInv
<1>2. ASSUME UNCHANGED <<toClient, serverSeq, open, entry>>
      PROVE  \A d \in Clients : Synced(d)'
  BY <1>2, SyncedKept DEF SyncInv, Held, Alike
<1>3. ASSUME NEW c \in Clients, NEW m \in ClientMessage,
             toClient' = Sent(toClient, c, m),
             m.kind # "action", m.kind = "snapshot" => m.seq = serverSeq,
             UNCHANGED <<serverSeq, open, entry>>
      PROVE  \A d \in Clients : Synced(d)'
  <2>1. /\ toClient'[c] \in {toClient[c], Append(toClient[c], m)}
        /\ \A d \in Clients \ {c} : toClient'[d] = toClient[d]
        /\ toClient[c] \in Seq(ClientMessage) /\ serverSeq \in Nat
    BY <1>3, OneSent, ServedTypes DEF SyncInv, ServedInv, Streams
  <2>2. Synced(c)'
    BY <1>3, <2>1, ProlongsOne, SyncedMore
  <2>3. ASSUME NEW d \in Clients \ {c} PROVE Synced(d)'
    BY <1>3, <2>1, SyncedKept DEF SyncInv, Held, Alike
  <2> QED
    BY <2>2, <2>3
<1>4. CASE CreateEnds
  <2> DEFINE m == [kind |-> "created"]
  <2>1. /\ toClient' = Sent(toClient, Creator, m) /\ m \in ClientMessage
        /\ m.kind = "created" /\ UNCHANGED <<serverSeq, open, entry>>
    BY <1>4 DEF CreateEnds, ClientMessage, clientVars
  <2> HIDE DEF m
  <2> QED
    BY <1>3, <2>1
<1>5. ASSUME NEW c \in Clients, ReceiveSubscribe(c)
      PROVE  \A d \in Clients : Synced(d)'
  <2> DEFINE i == Head(toServer[c]).id
             m == [kind |-> "snapshot", id |-> i, seq |-> serverSeq]
  <2>1. i \in Nat /\ serverSeq \in Nat
    BY <1>5, KindRead
       DEF ReceiveSubscribe, SyncInv, ServedInv, PinnedInv, Streams
  <2>2. /\ toClient' = toClient \/ toClient' = Sent(toClient, c, m)
        /\ UNCHANGED <<serverSeq, open, entry>>
    BY <1>5 DEF ReceiveSubscribe, clientVars, sessionVars
  <2>3. m \in ClientMessage /\ m.kind = "snapshot" /\ m.seq = serverSeq
    BY <2>1 DEF ClientMessage
  <2> HIDE DEF m
  <2> QED
    BY <1>2, <1>3, <2>2, <2>3
<1>6. ASSUME Emit, UNCHANGED <<open, entry>>
      PROVE  \A d \in Clients : Synced(d)'
  BY <1>6, SyncedEmit
<1>7. CASE ServerStep
  BY <1>2, <1>4, <1>5, <1>6, <1>7, SyncedRestore
     DEF ServerStep, GcFires, DisposeEnds, ReleaseFires, ReceiveCreate,
         ReceiveUnsubscribe, ReceiveTurn, ServerClosed, clientVars,
         sessionVars
<1>8. ASSUME NEW c \in Clients, ReceiveCreated(c)
      PROVE  \A d \in Clients : Synced(d)'
  <2>1. /\ ClientReads(c, "created")
        /\ UNCHANGED <<open, serverSeq, entry>>
    BY <1>8 DEF ReceiveCreated, sessionVars
  <2>2. /\ toClient[c] \in Seq(ClientMessage) /\ toClient[c] # <<>>
        /\ Head(toClient[c]).kind # "action" /\ serverSeq \in Nat
    BY <2>1, ServedTypes DEF ClientReads, SyncInv, ServedInv, Streams
  <2>3. open[c] /\ Held(c) =>
           Matches(entry[c], Tail(toClient[c]), serverSeq)
    BY <2>2, MatchesRead DEF SyncInv, Synced
  <2> QED
    BY <2>1, <2>3, SyncedRead DEF Held
<1>9. CASE \E c \in Clients : ClientStep(c)
  BY <1>8, <1>9, SyncedReceive DEF ClientStep
<1>10. ASSUME NEW c \in Clients, Close(c)
       PROVE  \A d \in Clients : Synced(d)'
  <2>1. /\ ~open'[c] /\ serverSeq' = serverSeq
        /\ \A d \in Clients \ {c} : /\ open'[d] = open[d]
                                    /\ toClient'[d] = toClient[d]
                                    /\ entry'[d] = entry[d]
    BY <1>10, ServedTypes DEF Close, sessionVars, SyncInv
  <2>2. Synced(c)'
    BY <2>1 DEF Synced
  <2>3. ASSUME NEW d \in Clients \ {c} PROVE Synced(d)'
    BY <2>1, SyncedKept DEF SyncInv, Held, Alike
  <2> QED
    BY <2>2, <2>3
<1>11. CASE UserStep
  BY <1>2, <1>6, <1>10, <1>11, SyncedAcquire, SyncedRelease
     DEF UserStep, Create, StartTurn, EndTurn, clientVars, sessionVars
<1>12. CASE UNCHANGED vars
  BY <1>2, <1>12 DEF vars
<1> QED
  BY <1>7, <1>9, <1>11, <1>12 DEF Next

\* What a client shows, together with the envelopes on their way to it, is the
\* session's whole history, nothing missing and nothing twice
\* (handleSnapshot's filter, receiveEnvelope's buffer and the order in which
\* the server registers, answers and emits).
THEOREM ShownIsTheHistory == Spec => []InSync
<1>1. Init => SyncInv
  <2> SUFFICES ASSUME Init, NEW c \in Clients PROVE Synced(c)
    BY ServedInit DEF SyncInv
  <2>1. toClient[c] = <<>> /\ ~Held(c)
    BY DEF Init, Held
  <2>2. InOrder(<<>>, serverSeq)
    BY DEF InOrder
  <2> QED
    BY <2>1, <2>2 DEF Synced
<1>2. SyncInv => InSync
  <2> SUFFICES ASSUME SyncInv, NEW c \in connected, open[c], Held(c),
                      entry[c].value = "ready"
               PROVE  LET n == Len(entry[c].view)
                      IN /\ entry[c].view = [i \in 1 .. n |-> i]
                         /\ n <= serverSeq
                         /\ Carries(toClient[c], n, serverSeq)
    BY DEF InSync
  <2> DEFINE t == toClient[c]
             N == serverSeq
  <2>1. c \in Clients
    BY DEF SyncInv, ServedInv
  <2>2. /\ t \in Seq(ClientMessage) /\ N \in Nat
        /\ InOrder(t, N) /\ Matches(entry[c], t, N)
    BY <2>1, ServedTypes DEF SyncInv, ServedInv, Streams, Synced
  <2>3. PICK n \in 0 .. N : /\ entry[c].view = [i \in 1 .. n |-> i]
                            /\ Delivers(t, 0, n, N)
    BY <2>2 DEF Matches
  <2>4. Len(entry[c].view) = n
    BY <2>3
  <2> HIDE DEF t, N
  <2>5. /\ \A k \in Envelopes(t) : k \in 0 + 1 .. Len(t) /\ t[k].kind = "action"
        /\ \A k \in 0 + 1 .. Len(t) : t[k].kind = "action" => k \in Envelopes(t)
    BY <2>2 DEF Envelopes
  <2>6. {t[k].seq : k \in Envelopes(t)} = n + 1 .. N
    BY <2>3, <2>5 DEF Delivers
  <2>7. \A k, l \in Envelopes(t) : k < l => t[k].seq < t[l].seq
    BY <2>2, <2>5 DEF InOrder
  <2>8. Carries(t, n, N)
    BY <2>6, <2>7 DEF Carries
  <2> QED
    BY <2>3, <2>4, <2>8 DEF t, N
<1> QED
  BY <1>1, <1>2, SyncNext, PTL DEF Spec
=============================================================================
