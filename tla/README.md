# Kronos Code: TLA+ models and proofs

Kronos Code is an AI-centred fork of VS Code. This directory holds TLA+ modules
translated from its TypeScript sources, the TLC configurations that check them
and the TLAPS proofs. Paths are relative to the repository, `vs/` standing for
`src/vs/`. `PROJECT.json` lists the lines each definition models, the runs,
the hazards with the properties that cover them, and the findings.

## 1. The system

The program is a workbench, one process per window, that talks through
asynchronous messages to an extension host, to a remote server and to an agent
host. Most of it is user interface or computation within one call. What is
hard is the state two processes share through messages that can be lost,
repeated or late, and the awaits between which one process does other things.

| Part | State | Operations | What is hard | What makes it correct |
| --- | --- | --- | --- | --- |
| Persistent protocol (`vs/base/parts/ipc/common/ipc.net.ts`) | ids sent and received, ids acknowledged, copies kept, timers, a write buffer | send, receive, acknowledge, keep-alive, replay, begin and end of a reconnection | sockets die, handshakes overlap, sockets move between processes | each message once, in order; copies kept until delivered |
| Remote connections (`vs/platform/remote/common/remoteAgentConnection.ts`, `vs/server/node/`) | one loop per connection, a permanent-failure flag shared by all, grace timers | connect, reconnect, give up, dispose | timeouts racing late answers, failure of one connection seen by others | one loop at a time; resources freed once and not under a live connection |
| Agent host synchronisation (`vs/platform/agentHost/`) | server: numbered actions, replay buffer, clients, dispatch queues; client: confirmed state, pending actions, outbox | dispatch, broadcast, reconnect by replay or snapshots, reconcile | loss at any point, restores that take time or fail, dispatches sent twice | the client follows the server; an action is applied once and settles |
| Agent host subscriptions (same) | reference counts, buffered envelopes, creations under way | acquire, release, subscribe, unsubscribe | an answer that comes after the release | no envelope missed between snapshot and subscription |
| Agent host sessions, agents, tools (same) | turns, tool calls, permissions | side effects of actions | external processes | a turn ends once |
| Moonshot extension: key (`extensions/kronos-moonshot/src/extension.ts`) | one secret, two settings, an environment variable | look up, migrate, set | awaits between read, store and removal; a shared setting | the key is never lost, the saved key is the one used |
| Moonshot extension: chat (same file) | decoder, line buffer, finish reason | stream, cancel | chunks cut anywhere, aborts | what is shown is the answer |
| K2 models, `@kronos` agent (`vs/workbench/contrib/chat/browser/k2/`) | one setting | answer a request | little: the body is one chunk | uses the configured key |
| Window to extension host RPC | pending calls | request, reply, cancel | calls under way when one side goes | used as two FIFO streams |
| Key-value storage (`vs/base/parts/storage/`, `vs/platform/storage/`) | a write-behind cache, what is pending, a delayed and throttled flush, a SQLite table; windows that share the main process's storage | set, delete, flush, close; update, announce | updates under way while more is written, failures, close; writes and announcements that cross | nothing is forgotten, a crash leaves a content that was, all windows agree in the end |
| Text files (`vs/workbench/services/textfile/`, `vs/platform/files/common/fileService.ts`, `vs/workbench/services/workingCopy/common/`) | the model's versions and flags, the save under way and the queued one, reloads, the backup | edit, undo, save, revert, reload, back up, restore | editing during every await, another program's writes, failures, crashes | a clean model is on disk, no foreign text is overwritten, the backup is what would be lost |
| Promise utilities (`vs/base/common/async.ts`) | delayers, throttlers, sequencers | per object | re-entrancy, what a queued promise is told | as used by the parts above |
| Undo and redo across files, settings sync, chat service | | | bookkeeping around providers and files | not modelled |
| Editor core, user interface, Electron main process, command line, bundled extensions, build | | | sequential, or at the border to external programs | not modelled |

The parts interact as follows. The RPC of a remote window and its extension
host runs over two persistent protocols, whose reconnecting loop lives in
`remoteAgentConnection.ts`. The agent host is reached over its own transports
(JSON-RPC on web sockets, without a persistent protocol below), so that it has
its own reconnection. The Moonshot extension reaches secrets and settings
through the window-to-extension-host RPC; the `@kronos` agent reads the same
setting inside the window.

## 2. Modules

| Module | Models | Refines |
| --- | --- | --- |
| `PersistentProtocol` | both ends of a persistent protocol over several sockets, with the client's loop, the server's handshake and the handover to the extension host process | `ReliableChannel` |
| `ReliableChannel` | a lossless ordered stream in each direction whose sender forgets only what was delivered | |
| `PersistentProtocolProofs` | the theorems about `PersistentProtocol` | |
| `AgentHostSync` | an agent host and one client with a fixed set of subscriptions, over a succession of transports | `LogFollower` |
| `LogFollower` | a history that grows per channel, and a reader that is always at an earlier point of it and moves forwards | |
| `AgentHostSyncProofs` | theorems about `AgentHostSync` for every value of its constants, and those that need resources in memory and transports read in turn | |
| `AgentSubscriptions` | several clients of an agent host and one session: reference counts, subscribing, the subscribers that keep the session in memory, release and collection | |
| `AgentSubscriptionsProofs` | the theorems about `AgentSubscriptions` | |
| `Storage` | one key-value storage: cache, flush, database, closing with recovery | |
| `StorageProofs` | the theorems about `Storage` | |
| `SharedStorage` | one key of a storage several windows share through the main process | |
| `SharedStorageProofs` | the theorems about `SharedStorage` | |
| `TextFile` | a file's editor model, its saves, reverts and reloads, the file service's check, the backup and crashes | |
| `TextFileProofs` | the theorems about `TextFile` | |
| `ApiKeys` | the extension, the window's secret storage and settings, and the streams between them | |
| `ApiKeysProofs` | the theorems about `ApiKeys` | |
| `MoonshotChat` | one streamed chat request | |
| `MoonshotChatProofs` | the theorems about `MoonshotChat` | |
| `MC*` | message counts, channels, clients, keys, windows and answers for TLC | |

### PersistentProtocol

Variables carry the names of the TypeScript fields, indexed by end. `writer` is
`ProtocolWriter`'s buffer, `wire[g][p]` what travels to `p` on socket `g`,
`controlBuffer` the buffered control messages of the client, `phase` where the
client's loop is and `handshake[g]` where the server is with socket `g`. Each
action is one synchronous stretch of code: a call of `send`, a timer, the
message at the head of a socket, a step of the handshake. What the code does
before it yields is one action, so `AcceptReconnection` is both
`beginAcceptReconnection` and `endAcceptReconnection`.

Abstracted: bytes and framing (a message is read whole), the content of
messages (the n-th sent carries n), times (a timer may fire as soon as it is
armed), the size threshold of the writer, the `latencyInfo` and
unresponsiveness measurements, authentication itself. Not there: the first
connection, `Protocol`, `disconnect` and `dispose`, grace times and permanent
failure. The keep-alive timeout check (`_keepAliveTimeoutCheck`), which fires
the same event as the acknowledgement watchdog, is left out, since a socket may be
lost at any time anyway; and the await of `createNewMessage` in the handshake
(`remoteAgentConnection.ts:256`) is part of the step before it.

### AgentHostSync

The server's sequence number is the length of `log`; the state of a channel is
the sequence of envelopes applied to it, whatever the reducers make of them,
which distinguishes every lost, repeated or reordered action. `toServer[t]` and
`toClient[t]` are the streams of transport `t`. The answer to a reconnection is
one action when every resource is in memory (`Restore = "warm"`: the code awaits
only resolved promises before it answers) and several otherwise (`restoring[t]`
holds what the awaiting handler holds). `Resent` names the channels whose
pending actions `_drainAfterReconnect` sends again: those of session and chat
subscriptions.

`forgotten` is a history variable: the server has been without its record of the
client, and with it of the actions it has already applied.

Not there: several clients (a server action stands for what others do),
subscribing and unsubscribing (`AgentSubscriptions`), the reducers, the promotion
of a pending turn start, commands other than `initialize` and `reconnect`,
telemetry. The answer to `initialize` is received in one step, with the
re-authentication, the fresh subscriptions, which never fail, and the drain of the
outbox that follow it. Changesets do not come and go, so that actions dropped for an
unknown one (`agentHostStateManager.ts:1450`), and rejected own envelopes that are
applied although they are not pending (`agentSubscription.ts:632`, `743`), do not
occur.

### AgentSubscriptions

The counterpart: connections that stay up or close for good, and subscriptions
that come and go. The server's variables are those of `agentService.ts`
(`subscribers`, `timer` for `_pendingSessionGc` and `_pendingSessionRelease`,
`activeTurn`), of the state manager (`loaded`, `serverSeq`) and of
`protocolServerHandler.ts` (`attached`, `requests`). `requests` are the subscribe
requests that await the restored session; `Restored` answers all of them, which
is what the promises resolved by one restoration do. `session` says what exists
outside of memory: nothing, a draft that is collected when nobody holds it, a
session that was used, or one that is gone. On a client, `entry` is the value of
`_subscriptions` for the session and `refs` the references callers have not
disposed yet, of the present entry and of earlier ones, `inflightCreate` and
`unsent` what waits for a `createSession` under way.

Two history variables mark what the code gives up: `hasty`, the clients that let
go while their subscribe was awaited, and `outlived`, a turn that was active when
the release timer fired (the timer is not set again). The properties that would
not hold for them name them, and section 6 says what happens.

The snapshot of a subscribe and the connection's own subscription are one step.
Left out are the release of active clients on unsubscribing
(`_releaseActiveClientForSession`) and a failing prelude of a dispatch: an action on a
session that is gone is answered by an envelope here and only logged there.

### Storage

`cache`, `inserts` and `deletes` are the fields of `Storage`; a content gives each
key a value or `NoValue`. `timer` is the `ThrottledDelayer`'s timeout, `updates`
the request under way, `queued` the `Throttler`'s queued run, and `closing` how far
`close()` has come and what it waits for. A transaction succeeds, fails, or goes
on after a statement that failed, which is noted in `erroneous`; `CloseDatabase`
then writes the table anew from the cache. `history` and `settled` record the
contents the cache has had and the writes whose update has ended.

Not there: opening with its backup and in-memory fallback, `optimize`, integrity
checks, flushes other than the delayed one.

### SharedStorage

Each window has a `Storage` (`cache`, `pending`, `sending`), whose database is a
channel (`toMain`, `toWindow`); the main process has `main`, announces changes
some time later (`changed`, `Announce`) and knows who listens. Windows are
opened, closed in the order of `close()` and `ApplicationStorageDatabaseClient`,
reloaded, and may die. How updates are delayed and how the main process writes
its own storage to the disk is left to `Storage`. `excused` records that an
announcement met an unsaved value, which it replaces, or that a window died.

### TextFile

A text is a number, positive if it was typed here, negative if another program
wrote it or a write that was cut off left it; texts that differ have different
sizes, because a change that keeps the size is not noticed by the file service.
`buffer`, `undoStack`, `redoStack`, `versionId` and `savedAlt` are the text model
and the version ids by which the editor model knows whether it is saved.
`saving.phase` follows `doSave` through its awaits: delay of the sequentializer,
participants, the check of the file's stat, the write, the stat that ends it.
`Save(request)` is an auto save, the save of all files, the command, which is
forced and so also saves a model that is not dirty, or the overwriting that
resolves a conflict; `queued` remembers which of them waits. `reload` and
`revert` follow the two ways of reading the file, `event` is an unread event of
the watcher. A soft revert reads nothing. `operation` is the backup tracker's
pending operation and `io` what the backup service is writing or deleting, which
may fail (`BackupFails`). `Crash` ends all of it: a file or a backup being written
is old, new or half written, and the model is resolved from what is left. What is
half written is a text like no other.

The check of the file is made as the participants end, a backup starts when its
timer fires, a read takes text and stat together, and the file is never deleted.
`known`, `astray`, `raced` and `missed` are history variables for the properties:
the texts the model was loaded with or saved; what can leave a clean model that is
not on disk; another program's write in the middle of a save; and whether the last
operation of the backup failed.

### ApiKeys

A call of `getApiKey` or of the command is a record that says what it awaits.
The window serves secrets one after the other (`MainThreadSecretState`'s
sequencer) and removals of settings likewise; replies and configuration changes
reach the extension host on one stream, in order, so that `seen` lags behind
`settings`. A read of a secret that cannot be decrypted deletes it and answers
that there is none; a store fails when encryption does; a removal when
`settings.json` cannot be written. History variables: `effective[c]`, the keys that
were in effect since call `c` began to look, and `lost`, that an undecryptable
secret was deleted and none has been stored since. One window is modelled.

### MoonshotChat

The answer is a sequence of events, encoded into tokens that stand for what the
decoder tells apart: line feeds, single-byte characters, the two halves of a
multi-byte one. `ReadChunk(n)` takes any number of tokens, decodes, splits and
shows them as `readSseDeltas` does before its next await. Its loops over bytes,
characters and lines are folds of a step function (`Folded`), from which what they
compute can be proved. Of the API it is assumed that nothing follows the end mark
and that deltas do not give different reasons for stopping (`AnswersAssumption`).

## 3. Runs

| Run | Instance | Shows |
| --- | --- | --- |
| `protocol_messages` | 2 messages one way and 1 the other, 2 sockets, no handover | type invariant, exactly once in order, copies kept, no replay needed, `ReliableChannel` refined |
| `protocol_handover` | 1 message, 3 sockets, handover | no message lost in a handshake, no stale answer fatal, a connected client is watched, everything is acknowledged in the end |
| `sync_reconnect` | a chat and annotations, 2 actions, 1 event, 3 transports, queueing, a forgetful server | the client is in step after replay, snapshot and fresh start; its subscriptions are served; actions are applied at most once and in order, and not shown twice; `LogFollower` refined |
| `sync_liveness` | a chat, 2 actions, 1 event, 3 transports, restores that fail, a forgetful server | every action settles |
| `subs` | 2 clients, one of which comes back, 2 references each, 1 turn | no envelope missing between snapshot and subscription, reference counts, pinned sessions, nothing left behind, released in the end |
| `storage` | 2 keys, 4 writes, failing statements, transactions and recoveries | nothing is forgotten, a crash leaves a content that was, a closed storage is complete, `whenFlushed`, every write settles |
| `storage_close` | 1 key, 2 writes | the smallest instance of the first finding of section 6 |
| `shared` | 2 windows, 2 values, 3 writes, 3 windows opened | all agree when it is quiet, the last write of one window stays, it becomes quiet |
| `textfile` | 2 edits, undos, redos or saves by command, 2 mishaps (writes of another program, failures, of the backup too, crashes); 6.4 million states | a clean model is on disk, only known texts are overwritten, a reload keeps edits, the backup is current |
| `keys` | one `getApiKey`, the command, 2 keys, 1 edit, every initial state, failures, undecryptable secrets and reloads | no key is lost but with an undecryptable secret, reads look atomic, calls end |
| `keys_saved` | the same, smaller | the second finding of section 6 |
| `chat` | answers of two or three events, terminated or not, every way to cut them, every failure and abort | what is shown is a prefix, a completed request is whole, requests end |

Why the bounds are enough. In the protocol every mechanism (partial
acknowledgement, gap and duplicate tests, the retransmission of more than one
copy) needs two messages; an abandoned handshake whose answer comes late while
a third socket is opened needs three sockets. The proofs of section 5 lift the
bounds for the safety properties they cover. In the agent host, three envelopes and a
replay buffer of two make all three answers to a reconnection happen, the
comparison at the end of the buffer included; three transports let one be lost
while the reconnection of another is answered. An action resent on one
transport after its echo was lost on another, twice over, is the longest chain
of causes the client keeps state for. In `keys`, one call against the command
has all pairs of interleaved reads and moves; two calls against each other only
repeat steps that commute.

In `subs`, a client that comes back meets its own earlier timer, its own late
answers and its own failed entry; the other one is there to hold the session
meanwhile. In `storage`, one update under way, one queued and one more write
pending are three requests, the fourth write follows them; keys do not interact,
so that two suffice to tell a partial update from a whole one. In `shared`, two
values, two windows and three writes make an announcement meet its own echo, a
later write and a foreign one. In `textfile`, an edit during a save, an undo back to
the saved version, and an edit with a forced save across its revert are two changes
each; auto saves, reverts and reloads are not counted. A crash and one failure or
foreign write around it are two mishaps. An undo past a version whose save came
late takes four changes: it is beyond the run, but not beyond the proofs, which
lift the bounds of every module with proofs for the properties they are about.

For the properties without a proof, random behaviours of up to 150 steps
(`tlc -simulate -depth 150`) with larger bounds complete the runs: 4 messages of
each end and 6 sockets, with and without handover; 5 actions of the client, 4 of
the server and
7 transports; 3 entries, references and turns of each client. Tens of millions of
states of each violate no safety property.

`CHECK_DEADLOCK FALSE` is set where the system stops because a bound is used up
or because its work is done (a request that has ended).

### Assumptions of the runs

- A transport's bytes are read, or dropped with it, before those of the next
  one (`Overtakes = FALSE` in every run).
- `Async` (asynchronous preludes of dispatches) is on in `sync_reconnect`;
  `Forgets` in both runs of the synchronisation.
- `Restore` is `"warm"` in `sync_reconnect` and `"failing"` in `sync_liveness`.
- The secret storage survives reloads (`Persistent = TRUE`).
- The last socket or transport of a run is not lost.

With other values some properties do not hold. Each of those cases is listed
under `hazards` in `PROJECT.json` with what the model then reaches: envelopes
doubled or skipped around a cold restore, failed preludes that leave an action
pending, overtaking transports, and in-memory secret storage.

## 4. Fairness

Specifications used for liveness add weak fairness only where the event loop of
a process gives it: what has arrived is read, a timer that is armed fires, a
promise whose work is done continues. Nothing is assumed of the user, the
application, the agents or the network.

- `PersistentProtocol!LiveSpec`: writes are flushed, sockets read, closes
  noticed, the loop and both handshakes go on, and the handshake's timeout fires
  when its socket is dead. Neither the keep-alive nor the acknowledgement
  watchdog is fair, so that `EverythingAcknowledged` does not lean on them. Its
  premise is that the client's socket eventually stays alive.
- `AgentHostSync!LiveSpec`: transports are read, closes noticed, the reconnect
  timer fires, restores end one way or the other. `EveryActionSettles` assumes
  that transports eventually stop being lost.
- `AgentSubscriptions!LiveSpec`: each connection is read on each side, closes are
  noticed, timers fire, and the disk and the providers answer. Users need not let
  go and turns need not end: `ReleasedInTheEnd` has their letting go as premise.
- `Storage!LiveSpec`: the timeout fires, an update ends, well or badly, and a
  database that is told to close does.
- `SharedStorage!LiveSpec`: streams are read, delayed flushes and announcements
  take place, a window that is being closed closes. Nothing makes users write.
- `ApiKeys!LiveSpec`: both processes go on. A reload, which ends calls, is not
  assumed.
- `MoonshotChat!LiveSpec`: a request is answered or fails, and a body arrives,
  ends or breaks. The code sets no timeout of its own on `fetch`, so this is an
  assumption on the network; cancellation is not assumed.

## 5. Proofs

`PersistentProtocolProofs` proves, for any number of messages, sockets and
reconnections, with or without handover:

- `TypeCorrect`: `[]TypeOK`;
- `DeliveredExactlyOnceInOrder`: `[]ExactlyOnceInOrder`;
- `CopiesKeptUntilReceived`: `[]KeptUntilReceived`;
- `ImplementsChannel`: the specification implies `ReliableChannel`'s;
- `SocketsInOrder`: `[]SocketInv`, and from it
- `StaleAnswersAreHarmless`: `[]StaleAnswerNeverFatal`;
- `HandshakesSwallowNothing`: `[]HandshakeSwallowsNothing`;
- `NoReplayIsNeeded`: `[]ReplayNeverNeeded`;
- `ConnectedIsAlwaysWatched`: `[]ConnectedIsWatched`.

Two hypotheses are used: `ConstantsAssumption`, the types of the constants, and
`IdsFit`, that no connection sends as many messages as the header has ids
(2^32). Without it an id wraps, is taken for a duplicate, and the stream stalls.

The properties are not inductive: what a receiver accepts depends on what is in
flight on every socket, abandoned ones included. `IInv` strengthens them by
saying of every message, wherever it is (kept, buffered or in flight), that its
sender can stand by it: its ack is no more than the sender has received, and a
Regular message has an id the sender gave out and the datum of that id. That is
enough because both counters only grow: what an end can stand by it can stand by
later (`OkLater`), so an abandoned socket can be forgotten about. Given that,
a message accepted as next has the next datum, and an ack that frees copies is
covered by what the other end received. The proof has one lemma per action
(`SendStep`, `ReceiveRegularStep`, ...), `NextStep` collects them, and
`NextImplements` maps each step to a send, a delivery, a forgetting, both at
once, or a stutter, under `IInv`.

What `IInv` leaves open is the order of things: it allows a socket to carry an
answer to a handshake nobody has begun, or the tenth message without the ninth.
`SocketInv` adds four conjuncts. `Lines`: which types of messages a socket may
carry in each direction at each step of its handshake, and at most one "sign".
`Dialogue`: the newest socket is the one the client uses, its handshake is as far
as the client's loop says, and what is still missing of it is on its way; the
"ok" comes behind a Pause, or the client has read that, so that it writes nothing
during a handover. `Loop`: where the client's loop can be for each state of its
protocol, never "failed". `Streams`: what an end is yet to read, on the wire and in
its peer's writer, has no gap, on abandoned sockets either; and where the peer is
writing it reaches to the last message sent. A new handshake puts everything
unacknowledged behind its answer, so `Streams` survives any loss, and no replay is
requested. `Watched` adds the timer for the last theorem.

`StorageProofs` proves, for any keys, values and number of writes, with failures
or without:

- `NothingForgotten`: `[]StoredOrOnItsWay`;
- `CrashLeavesASnapshot`: `[]DiskIsASnapshot`;
- `ClosedIsComplete`: `[]ClosedIsStored`;
- `ReleasedWhenSettled`: `FlushedMeansSettled`.

The only hypothesis is `ConstantsAssumption` (`NoValue` is no value). The
invariant has four parts besides the types. `OneUpdate`: the throttler runs one
update at a time, and queues only behind one. `Accounted`: the writes up to the
one the running update holds are accounted for, and these are all of them when
nothing is pending; this is what makes releasing the waiters right. `Snapshots`:
without an error, table, update and pending changes make up the cache, and table
and table with update are contents of the history. `ClosingInOrder`: where
`close()` can be for each state of the flush, so that the database is closed only
when nothing is pending or under way. `NextRun` holds what the end of an update
and the delayed flush have in common: the throttler is free and takes what is
pending, or nothing.

`AgentSubscriptionsProofs` proves, for any clients and any number of
subscriptions, references and turns, again from `ConstantsAssumption` alone:

- `CountsAreRight`: `[]CountsWhatIsHeld`;
- `PinnedWhileSubscribed`: `[]SubscribedIsPinned`;
- `ShownWhatIsServed`: `[]ShownIsServed`;
- `LeaksAreOfTheWindow`: `[]LeaksOnlyInTheWindow`;
- `ShownIsTheHistory`: `[]InSync`.

For the first, `CountsInv` says of each client that its entry is the latest it
has made, counts the references to it, and that no references are held to
entries yet to be made; references to evicted entries may remain, and disposing
of them must leave the current one alone. For the second, `PinnedInv` adds that
requests wait only while the session is not in memory (`Pinned`), and what is
known of a session before it exists: a creator that has asked for it once, no
request, no subscriber, no timer (`Messages`, `Before`, `Creation`). Without that
part the end of a creation could put in memory a session that somebody waits to
have restored. `PinnedLater` holds what all steps after the creation share.

The other three follow a request around: from the client's queue into the stream
to the server, among the requests that wait for a restore, and as an answer in the
stream back. `ServedInv` says of each client that every entry is asked for once,
that an answer is for an entry no longer being asked for, and that no retraction
on its way comes after the request of the current entry (`Requested`, `Current`);
so whoever shows a value, or has a snapshot coming, is subscribed. `TidyInv` is the
converse: a registered client that has let go has its retraction on the way as the
last word, unless it let go in the window between the registration and the
subscription. `SyncInv` is about numbers: envelopes in a stream are in order, a
snapshot contains all before it, and what an entry shows, buffers and is about to
read is `1 .. serverSeq` (`Matches`, `Delivers`). Each is preserved by lemmas about
a stream that is read, prolonged or emptied, and one lemma for each action. What a
snapshot leaves of the buffered envelopes is a recursive function (`After`), and
what it computes is proved by induction: the library's rules take an operator,
which the provers cannot instantiate, but `Induction` states one about a set of
numbers closed under successor.

`SharedStorageProofs` proves, for any windows and values, from
`ConstantsAssumption`:

- `WindowsAgree`: `[]Agreement`;
- `TheLastWriteStays`: `[]LastWriteStays`.

`Staged` says what may be on the two streams of a window in each phase of its
life: in particular that a window in use has at most one update under way, on
one stream or, as a reply, on the other. `Informed` makes agreement inductive: when no
announcement is due, the last value a window will be told is the main process's,
or it will be told nothing and has that value or will send its own. It does not
matter that a window's own announcements come back to it, because the last one
wins. The second theorem uses the first: a window begins to write alone when all
is quiet and its cache is right, without which a write that the cache makes
superfluous could be lost. `Followed` then tracks the value written last from
`pending` to the update to `main`, and says that nothing else is announced
behind the reply to that update.

`ApiKeysProofs` proves, for any calls, commands, keys and edits, from
`ConstantsAssumption`:

- `KeysAreReadAtomically`: `ReadsAreAtomic`;
- `TheKeyIsKept`: `KeyKept`, where `Persistent` holds. In-memory secrets are lost
  by a reload, so without it the property is false. The property excepts the
  deletion of an undecryptable secret, which the window does on its own.

For the first, `ReadInv` says of each reply to a `getApiKey`, wherever it is in the
stream, that what the extension host will then know of the settings (`Knows`: its
copy, or the last change before the reply) leads to a key that was in effect. A
reply follows all changes made before it on one FIFO stream; that is the whole
reason why the reads are atomic. For the second, `OneInv` says that each call has
one request, removal or reply under way, and `KeepInv` that removals are covered:
the removals queued, and those that replies still to be read will queue, come
after a key was stored, and if there is none now, and it was not deleted as
undecryptable, a command that has cleared it is behind them. Order matters: a clearing command whose own removal fails is no
longer `Cleared`, but by then every removal ahead of it has been served.

`TextFileProofs` proves all four properties of the module, for any number of
edits, failures, foreign writes and crashes, from no hypothesis:

- `SavedIsOnDisk`: `[]CleanIsOnDisk`;
- `OnlyTheKnownIsOverwritten`: `OverwritesOnlyTheKnown`;
- `ReloadsReplaceOnlyTheKnown`: `ReloadsKeepEdits`;
- `BackupFollows`: `[]BackupIsCurrent`.

The invariants build on each other. `StatsInv`: the stats of the model and of its
backups are not later than the file, equal it when they are as late, and were
taken with the text they describe known; a file that passed the check of a save
is therefore known when it is written. `EditsInv`: a version id stands for one text,
on the undo and the redo stack as on the screen, the saved one for a known text, and
a model that is not dirty shows a known text. `TracksInv`: the tracker is told of
every change of the flag but that of a failing revert, so that when it has nothing
scheduled, the backup will be right once the service is done, or the service has
failed it. `CleanInv`: of a model that is not dirty, what it shows is what is being
written, and if nothing is, it is in the file or the file's text is not one of the
model's own (`CleanOK`); to get through the end of a save, it says the same of the
version being saved (`WrittenOK`). A forced save of a clean model begins with the
text that is in the file, so that it keeps this up by itself; it is a read of the
file that ends in the middle of its write which does not. Texts that another
program, or a write that is cut off, leaves are never known before they are read
(`OldTexts`).

`AgentHostSyncProofs` proves, for any channels, actions, events and transports,
from `ConstantsAssumption`:

- `TypeCorrect`: `[]TypeOK`;
- `SubscriptionsAreServed`: `[]LiveSubscriptionsAreServed`, where
  `Restore # "failing"`;
- `OwnShownOnce`: `[]OwnActionShownOnce`.

`TypeOK` is more than types: no message, snapshot or reconnection being answered
speaks of an envelope that does not exist yet. `Base` adds that the client uses
transports one after the other (`InTurn`). `ServedInv` follows the answers: each is
complete, and while it is on its way the connection is subscribed to all it names;
a reconnection being answered has the snapshots of what was restored so far. That
is false for resources that fail to be restored, because the snapshot answer leaves
them out without a word (section 6), which is why the theorem excludes them.
`OwnInv` says that numbers of actions are among those given out (`Numbered`) and
that, as long as the server has a record of the client, no initialize and no
answer to one is anywhere (`Remembered`); so every answer contains or drops what is
pending. It holds for cold restores and overtaking transports too.

The second part of `AgentHostSyncProofs` proves, where `Warm` holds (`Restore = "warm"` and
`~Overtakes`):

- `InSyncWhenWarm`: `[]InSync`;
- `FollowsWhenWarm`: `FollowerSpec`, the refinement of `LogFollower`;
- `AppliedOnceWhenWarm`: `[]AppliedAtMostOnce`;
- `InOrderWhenWarm`: `[]ActionsInOrder`.

The hypothesis is not a convenience: with `"cold"` restores, and with transports
that overtake, TLC finds a counterexample to each of the four (2 actions, 2 events,
3 transports). During a cold restore an envelope on a channel that is already
restored is sent at once and again in the replay, so that the client applies it
twice; and envelopes that leave the replay buffer after `canReplay` was decided are
missing from the replay, so that an action whose echo was among them is sent, and
applied, again. A transport that overtakes lets actions that were read too late
follow those sent again. `sync_reconnect` makes the same two assumptions (section 3).

`WarmInv` says what the client's transport may carry (`Arriving`): the envelopes
`serverSeq + 1, ...` without a gap (`Live`); an answer that brings the client up to
some envelope, followed by those after it (`Answered`); a refusal (`Unknown`); or
nothing, with the request still to be read (`Asking`). `Confirmed` says that what is
shown is the history up to `serverSeq`, `Attachments` that transports are attached
in order and with all channels. What a replay selects is then exactly the missing
envelopes (`ReplayedAll`), which gives `InSync` and, as histories only grow, the
refinement.

`OrderInv` speaks of a client that the server remembers and whose actions have not
been queued, as the two properties do. It says of every action where it is
(`Kept`, `Queued`): in the outbox and never sent, on the open transport, or taken.
Actions on a transport come after what the server has taken and after those before
them (`OrderedStreams`), and what is pending is either on the transport or in an
envelope the client has yet to see (`Waiting`). The step to get right is the end of
a reconnection: the client sends again what is pending after it has read the
answer, and `Quiet` says that between the answer and its being read no action
reaches the server; so what it sends again was not taken.

The operators of the model are computed by recursive functions, and the provers
cannot apply an induction rule that takes an operator. The first sections of
`AgentHostSyncProofs` therefore state induction about a set closed under successor
(`Induction`), the existence of the sequence of intermediate results
(`IterationExists`), and with these what selecting, flattening, replaying a history
and receiving envelopes compute. `Selected` replaces the standard `SelectSeq`, whose
test is an operator, for the same reason.

`MoonshotChatProofs` proves, for any answers of any number of events and
characters, terminated or not, from `AnswersAssumption`:

- `ChunksDoNotMatter`: what `ReadChunk` computes of any bytes, `ChunkRead`, is what
  taking them one by one computes;
- `ReadByteByByte`: `[]ChatInv`, and from it
- `ShownIsAPrefix`: `[]ShownIsPrefix`;
- `CompletedIsTheWhole`: `[]CompletedIsWhole`.

The code decodes a whole chunk, splits all of it and then shows the lines, keeping
half a character and half a line for the next. `TakeByte` does the same for a
single byte, and `FoldedConcat` says that folding two parts is folding one after the
other; so the cuts disappear (`CharactersTaken`, `BytesTaken`), and `ChatInv` need only
say that what the request holds is what taking the bytes read so far makes of
nothing. What the bytes of an answer amount to is the other half: taking the bytes of
an event and its line feed shows that event (`EventTaken`, with `ContentTaken` and
`DeltaLineRead` for the content and reason of a delta), so taking those of an answer
shows its events (`AnswerTaken`), which is what should be seen (`EventsSeen`). What is
shown only grows and is final after the end mark (`Grown`), which makes it a prefix
in every state between; and the last line of an unterminated answer, with half a
character at its end, is what a line feed would have made of it (`LastShown`).

These are inductions over sequences, `SequenceInduction` being one about a set that
is closed under appending, and the recursive function of `Folded` is again given
its sequence of intermediate results (`FoldExists`). The steps are functions that
return functions, because the provers lose sight of functions of two arguments.

Each inductive invariant was checked by TLC on small instances before it was
proved. Every safety property and every refinement of the passing runs is proved,
under the hypotheses named above. Only model-checked is liveness, which is beyond
the prover: `EverythingAcknowledged`, `EveryActionSettles`, `EveryRequestEnds`,
`EveryCallEnds`, `QuietInTheEnd`, `EverythingSettles` and `ReleasedInTheEnd`; and the
two violations of section 6, which are counterexamples.

## 6. Disagreements between code and documentation

Two are shown by runs that end in a violation:

- `storage_close`: `doClose` promises to close the database "even if there is an
  error flushing", but when its flush is queued behind an update and then fails,
  the promise it waits for never settles, and neither does `close()`.
- `keys_saved`: the command reports a key as saved that a `getApiKey` under way
  then overwrites with the deprecated setting's.

The models show more of the code, without a run of their own: each is excluded
by name from the property it would break, and listed as a hazard.

- Agent host: a subscription that cannot be restored is left out of a snapshot
  answer and the client goes on holding it to be alive. A client's entry in
  `_clientDispatchQueues` is never removed, so that actions queue for ever after
  the first asynchronous one, where the comment says they bypass the queue. A
  server that has forgotten a client, or still has its action in the queue, applies
  an action sent again a second time. Annotations and changesets are not sent
  again, and their snapshots leave the pending ones in place.
- Subscriptions: a client that lets go while the server awaits its subscribe
  stays a subscriber for ever (`hasty`); a draft that another client has begun to
  use between the timer and the disposal is collected; a turn that outlives the
  grace time keeps the session in memory (`outlived`).
- Keys: looking up the Moonshot key removes the setting the `@kronos` agent reads.
  A secret that cannot be decrypted is deleted when it is read (`lost`); a removal
  of a setting that is under way then takes the last copy of the key.
- Storage: `whenFlushed` returns at once when nothing is pending although an
  update is under way; the echo of a window's first write replaces a second one
  that it has not sent yet (`excused`).
- Text files (`astray`, `raced`): an undo to the saved version while another
  version is being written, or after a save of it came too late to move
  `bufferSavedVersionId` (the user had typed on), leaves a model that is clean and
  not on disk. A revert
  that finds a save under way, or is overtaken by typing, reads nothing but marks
  the text as saved; one that fails restores the flags without the backup. A forced
  save of a clean model that begins while the file is being read again, and is
  writing when the read ends, leaves a clean model that shows what was read while
  the file has what was written; the event of that write does not repair it when the
  stat of the save says that the file is the one already seen. A backup or discard
  that fails is logged and not tried again (`missed`): unsaved text stays without a
  backup, or saved text with one, until the next change. A
  write of another program between the check of a save and its last stat is
  overwritten or taken for the model's own.

## 7. Plan

Done, in this order: `PersistentProtocol` with its abstract channel, runs and
proofs; `AgentHostSync` with `LogFollower` and its proofs; `ApiKeys` with its proofs;
`MoonshotChat` with its proofs; `AgentSubscriptions`, `Storage` and `SharedStorage` with their
proofs; `TextFile` with its proofs.

Worth adding, the most important first:

1. `RemoteConnection`: several connections sharing the permanent failure, grace
   times on both sides, disposal at any await, the management connection's two
   timers, the drain before a handover; composed with `ReliableChannel` in place
   of the protocol.
2. The turn life cycle in the chat reducer and its optimistic promotion on the
   client, composed with `AgentHostSync`'s reconciliation.
3. `BufferedEmitter`, `Sequencer` and `Limiter` as small machines with microtasks,
   and `compareAndSwap` of the shared storage.
4. Undo and redo across files; conflicts of settings sync.

Next proofs: which of the properties that need `Warm` survive cold restores for a
client that is not restoring.

## 8. Not modelled

The list of components in `PROJECT.json` gives a reason for each: editor core and
algorithms (sequential, large inputs), user interface, Electron main process,
command line and tunnels (external services), settings sync and the chat service
(large, mostly bookkeeping around providers), undo and redo across files, bundled
extensions, build. Of the parts that are modelled, byte framing, compression,
authentication, telemetry and logging are left out.

## 9. Running

    tlc -workers 2 -config protocol_messages.cfg MCPersistentProtocol
    tlapm PersistentProtocolProofs.tla
    tlapm AgentHostSyncProofs.tla
    tlapm StorageProofs.tla
    tlapm SharedStorageProofs.tla
    tlapm AgentSubscriptionsProofs.tla
    tlapm ApiKeysProofs.tla
    tlapm TextFileProofs.tla
    tlapm MoonshotChatProofs.tla

The other runs are named after their configuration; `PROJECT.json` gives the
module of each.
