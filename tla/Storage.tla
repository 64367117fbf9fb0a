------------------------------ MODULE Storage -------------------------------
(***************************************************************************)
(* The key-value storage behind application, profile and workspace state:  *)
(* the write-behind cache (base/parts/storage/common/storage.ts), the      *)
(* delayed and throttled flush it is written with (ThrottledDelayer of     *)
(* base/common/async.ts) and the SQLite database it is written to          *)
(* (base/parts/storage/node/storage.ts).                                   *)
(*                                                                         *)
(* A content gives every key a value, or NoValue when the key is absent.   *)
(* What follows an await without another event in between is part of the   *)
(* step that ends the wait.                                                *)
(***************************************************************************)
EXTENDS Integers, Sequences, SequencesExt

CONSTANTS
    Keys, Values, NoValue,
    Failing,         \* statements, transactions and recoveries may fail
    MaxWrites        \* bound: changes of the cache

ASSUME ConstantsAssumption ==
    /\ NoValue \notin Values
    /\ Failing \in BOOLEAN
    /\ MaxWrites \in Nat

VARIABLES
    cache,
    inserts,         \* pendingInserts: NoValue for a key that is not in it
    deletes,         \* pendingDeletes
    timer,           \* the delayer's timeout is scheduled
    updates,         \* the requests the database is working on
    queued,          \* the throttler has a queued run
    waiter,          \* writes that a caller of whenFlushed waits for, or 0
    closing,         \* how far close() has come
    disk,            \* the table
    erroneous,       \* isErroneous of the connection
    \* history
    history,         \* every content the cache has had
    settled          \* writes whose update has ended, one way or the other

pendingVars == <<cache, inserts, deletes, history>>
flushVars == <<timer, updates, queued, waiter, settled>>
databaseVars == <<disk, erroneous>>
vars == <<cache, inserts, deletes, timer, updates, queued, waiter, closing,
          disk, erroneous, history, settled>>

Content == [Keys -> Values \cup {NoValue}]
Empty == [k \in Keys |-> NoValue]
Request == [inserts : Content, deletes : SUBSET Keys, writes : Nat]

writes == Len(history) - 1

\* The table after the inserts, then the deletes of a request.
Updated(content, request) ==
    [k \in Keys |-> IF k \in request.deletes THEN NoValue
                    ELSE IF request.inserts[k] # NoValue
                    THEN request.inserts[k]
                    ELSE content[k]]

Pending == [inserts |-> inserts, deletes |-> deletes, writes |-> writes]
HasPending == inserts # Empty \/ deletes # {}

-----------------------------------------------------------------------------
(* Writing                                                                 *)

\* The cache changes, and a flush is due some time after the last change.
Changed(content) ==
    /\ closing = "no"
    /\ writes < MaxWrites
    /\ content # cache
    /\ cache' = content
    /\ history' = Append(history, content)
    /\ timer' = TRUE
    /\ UNCHANGED <<updates, queued, waiter, closing, settled>>
    /\ UNCHANGED databaseVars

DeletesKept(k) == deletes
DeletesAfterSet(k) == deletes \ {k}

Set(k, v) ==
    /\ Changed([cache EXCEPT ![k] = v])
    /\ inserts' = [inserts EXCEPT ![k] = v]
    /\ deletes' = DeletesAfterSet(k)

InsertsAfterDelete(k) == [inserts EXCEPT ![k] = NoValue]

Delete(k) ==
    /\ Changed([cache EXCEPT ![k] = NoValue])
    /\ deletes' = deletes \cup {k}
    /\ inserts' = InsertsAfterDelete(k)

\* flush(), as it is called from outside.
Flush ==
    /\ closing = "no"
    /\ timer' = TRUE
    /\ UNCHANGED <<updates, queued, waiter, settled, closing>>
    /\ UNCHANGED <<pendingVars, databaseVars>>

\* whenFlushed: it returns at once unless something is pending.
WhenFlushed ==
    /\ HasPending
    /\ waiter = 0
    /\ waiter' = writes
    /\ UNCHANGED <<timer, updates, queued, settled, closing>>
    /\ UNCHANGED <<pendingVars, databaseVars>>

-----------------------------------------------------------------------------
(* Flushing                                                                *)

\* flushPending: what is pending is handed to the database, which goes on
\* with the requests of rest.
FlushPending(rest) ==
    /\ updates' = IF HasPending THEN Append(rest, Pending) ELSE rest
    /\ inserts' = Empty
    /\ deletes' = {}
    /\ UNCHANGED <<cache, history>>

\* Throttler.queue: whether a run is active.
NeverBusy == FALSE
Busy == updates # <<>>

\* The delay is over: the flush runs, or is queued behind the active one.  A
\* close() that waits for the delay goes on waiting for that run.
TimerFires ==
    /\ timer
    /\ timer' = FALSE
    /\ \/ /\ Busy
          /\ queued' = TRUE
          /\ UNCHANGED <<pendingVars, updates>>
       \/ /\ ~Busy
          /\ FlushPending(updates)
          /\ UNCHANGED queued
    /\ closing' = IF closing # "delayed" THEN closing
                  ELSE IF Busy THEN "queued"
                  ELSE IF HasPending THEN "running"
                  ELSE "ready"
    /\ UNCHANGED <<waiter, settled>>
    /\ UNCHANGED databaseVars

\* The run that was queued takes place, Throttler.queue's onComplete.
RequeuedNever(rest) == updates' = rest /\ UNCHANGED pendingVars
Requeued(rest) == FlushPending(rest)

\* The end of an update: callers of whenFlushed go on if nothing is pending,
\* and the queued run follows.  What waits for an active run is told how it
\* ended; what waits for a queued one is told only of its success, because
\* queuedPromise is resolved by a then() without a second argument.
ReleasesAll == TRUE
ReleasesWaiters == ~HasPending

Settle(i, ok) ==
    /\ settled' = updates[i].writes
    /\ waiter' = IF ReleasesWaiters THEN 0 ELSE waiter
    /\ LET rest == RemoveAt(updates, i)
       IN \/ queued /\ Requeued(rest)
          \/ ~queued /\ updates' = rest /\ UNCHANGED pendingVars
    /\ queued' = FALSE
    /\ closing' = CASE closing = "running" -> "ready"
                    [] closing = "queued" /\ HasPending -> "requeued"
                    [] closing = "queued" /\ ~HasPending -> "ready"
                    [] closing = "requeued" /\ ok -> "ready"
                    [] closing = "requeued" /\ ~ok -> "hung"
                    [] OTHER -> closing
    /\ UNCHANGED timer

UpdateSucceeds(i) ==
    /\ i \in DOMAIN updates
    /\ disk' = Updated(disk, updates[i])
    /\ Settle(i, TRUE)
    /\ UNCHANGED erroneous

\* What a statement that fails does not do.
Partial(request) ==
    {[request EXCEPT !.inserts = Empty], [request EXCEPT !.deletes = {}],
     [request EXCEPT !.inserts = Empty, !.deletes = {}]}

\* A statement fails: the error is noted, the transaction goes on.
MarkedLate == erroneous
Marked == TRUE
StatementFails(i) ==
    /\ Failing
    /\ i \in DOMAIN updates
    /\ \E part \in Partial(updates[i]) : disk' = Updated(disk, part)
    /\ erroneous' = Marked
    /\ Settle(i, TRUE)

\* The transaction fails.
TransactionFails(i) ==
    /\ Failing
    /\ i \in DOMAIN updates
    /\ erroneous' = TRUE
    /\ Settle(i, FALSE)
    /\ UNCHANGED disk

-----------------------------------------------------------------------------
(* Closing                                                                 *)

\* close(): no more writes, and one more flush as soon as possible.
Close ==
    /\ closing = "no"
    /\ closing' = "delayed"
    /\ timer' = TRUE
    /\ UNCHANGED <<updates, queued, waiter, settled>>
    /\ UNCHANGED <<pendingVars, databaseVars>>

\* The database is closed.  After an error it is deleted and written anew
\* from the cache, which may fail as well.
CloseDatabase ==
    /\ closing = "ready"
    /\ \/ closing' = "closed" /\ disk' = IF erroneous THEN cache ELSE disk
       \/ /\ Failing /\ erroneous
          /\ closing' = "rejected"
          /\ disk' \in {disk, Empty}
    /\ UNCHANGED erroneous
    /\ UNCHANGED <<pendingVars, flushVars>>

-----------------------------------------------------------------------------
\* init() has read the table.
Init ==
    /\ disk \in Content
    /\ cache = disk
    /\ inserts = Empty /\ deletes = {}
    /\ timer = FALSE
    /\ updates = <<>>
    /\ queued = FALSE
    /\ waiter = 0
    /\ closing = "no"
    /\ erroneous = FALSE
    /\ history = <<cache>>
    /\ settled = 0

UpdateEnds ==
    \E i \in DOMAIN updates :
        UpdateSucceeds(i) \/ StatementFails(i) \/ TransactionFails(i)

Next ==
    \/ \E k \in Keys : Delete(k) \/ \E v \in Values : Set(k, v)
    \/ Flush \/ WhenFlushed \/ Close
    \/ TimerFires \/ UpdateEnds \/ CloseDatabase

Spec == Init /\ [][Next]_vars

\* Timeouts fire and the database answers.
LiveSpec ==
    Spec /\ WF_vars(TimerFires) /\ WF_vars(UpdateEnds) /\ WF_vars(CloseDatabase)

-----------------------------------------------------------------------------
(* Properties                                                              *)

TypeOK ==
    /\ {cache, inserts, disk} \subseteq Content
    /\ deletes \subseteq Keys
    /\ \A k \in deletes : inserts[k] = NoValue
    /\ {timer, queued, erroneous} \subseteq BOOLEAN
    /\ updates \in Seq(Request)
    /\ history \in Seq(Content) /\ history # <<>>
    /\ {waiter, settled} \subseteq 0 .. writes
    /\ closing \in {"no", "delayed", "running", "queued", "requeued",
                    "ready", "hung", "closed", "rejected"}

\* The table when the update it is working on will have succeeded.
Underway == IF updates = <<>> THEN disk ELSE Updated(disk, Head(updates))

\* Nothing that was written is forgotten: as long as the database has met no
\* error, the table, the request it is working on and what is pending make
\* up the cache.
StoredOrOnItsWay == ~erroneous => cache = Updated(Underway, Pending)

\* Whenever the process dies, the table is a content the cache really had,
\* and none older than what has been reported as done.
DiskIsASnapshot ==
    ~erroneous => \E n \in settled .. writes : disk = history[n + 1]

\* A storage that was closed has everything, whatever failed before.
ClosedIsStored == closing = "closed" => disk = cache

\* Who waits in whenFlushed goes on when the update that holds the awaited
\* writes has ended, and not when an earlier one has.
FlushedMeansSettled == [][waiter # 0 /\ waiter' = 0 => settled' >= waiter]_vars

\* Every write gets its turn at the database.
EverythingSettles ==
    \A n \in 1 .. MaxWrites : (writes >= n) ~> (settled >= n)

\* The database is always closed, "even if there is an error flushing"
\* (the comment in doClose).
CloseEnds == (closing = "delayed") ~> (closing \in {"closed", "rejected"})
=============================================================================
