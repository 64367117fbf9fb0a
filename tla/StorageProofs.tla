---------------------------- MODULE StorageProofs ----------------------------
(***************************************************************************)
(* Proofs about Storage, for any keys, values and number of writes, with   *)
(* or without failures.                                                    *)
(*                                                                         *)
(* The inductive invariant IInv says that the throttler has one update     *)
(* under way, that the writes up to the one this update holds, or to the   *)
(* last one when nothing is pending, are accounted for, that table, update *)
(* and pending changes make up the cache, and where close() can be while   *)
(* that is so.                                                             *)
(***************************************************************************)
EXTENDS Storage, TLAPS

OneUpdate ==
    /\ Len(updates) <= 1
    /\ queued => updates # <<>>

\* The last write that is not pending.
Taken == IF updates = <<>> THEN settled ELSE updates[1].writes

Accounted ==
    /\ history[Len(history)] = cache
    /\ settled <= Taken /\ Taken <= writes
    /\ ~HasPending => Taken = writes

Snapshots ==
    ~erroneous =>
        /\ cache = Updated(Underway, Pending)
        /\ \E n \in settled .. writes : disk = history[n + 1]
        /\ updates # <<>> => Underway = history[updates[1].writes + 1]

ClosingInOrder ==
    /\ closing \notin {"no", "delayed"} => ~timer
    /\ closing \in {"running", "requeued"} =>
           updates # <<>> /\ ~queued /\ ~HasPending
    /\ closing = "queued" => queued
    /\ closing \in {"ready", "closed"} => updates = <<>> /\ ~HasPending
    /\ closing = "closed" => disk = cache

IInv == TypeOK /\ OneUpdate /\ Accounted /\ Snapshots /\ ClosingInOrder

-----------------------------------------------------------------------------
(* What a request does to a content                                        *)

\* A request leaves a content a content.
LEMMA UpdatedType ==
    ASSUME NEW c \in Content, NEW r \in Request
    PROVE  Updated(c, r) \in Content
BY DEF Updated, Content, Request

\* A request with nothing in it changes nothing.
LEMMA UpdatedByNothing ==
    ASSUME NEW c \in Content, NEW w
    PROVE  Updated(c, [inserts |-> Empty, deletes |-> {}, writes |-> w]) = c
BY DEF Updated, Content, Empty

\* The content without keys is a content.
LEMMA EmptyType == Empty \in Content
BY DEF Empty, Content

\* What is pending can be handed over as a request.
LEMMA PendingType == TypeOK => Pending \in Request
BY DEF TypeOK, Pending, Request, writes

\* The table with the update under way is a content.
LEMMA UnderwayType == TypeOK => Underway \in Content
<1> SUFFICES ASSUME TypeOK PROVE Underway \in Content
  OBVIOUS
<1>1. CASE updates = <<>>
  BY <1>1 DEF TypeOK, Underway
<1>2. CASE updates # <<>>
  <2>1. Head(updates) \in Request
    BY <1>2 DEF TypeOK
  <2> QED
    BY <1>2, <2>1, UpdatedType DEF TypeOK, Underway
<1> QED
  BY <1>1, <1>2

\* The request under way and the last write taken, as the types have them.
LEMMA TakenType ==
    TypeOK => /\ Taken \in Nat
              /\ updates # <<>> => updates[1] \in Request
<1> SUFFICES ASSUME TypeOK
             PROVE  /\ Taken \in Nat
                    /\ updates # <<>> => updates[1] \in Request
  OBVIOUS
<1>1. settled \in Nat /\ updates \in Seq(Request)
  BY DEF TypeOK, writes
<1>2. updates # <<>> => updates[1] \in Request
  BY <1>1
<1>3. updates # <<>> => updates[1].writes \in Nat
  BY <1>2 DEF Request
<1> QED
  BY <1>1, <1>2, <1>3 DEF Taken

\* A content into which one more key is written.
LEMMA OneMoreInsert ==
    ASSUME TypeOK, NEW c \in Content, NEW k \in Keys, NEW v \in Values, NEW w,
           cache = Updated(c, Pending)
    PROVE  [cache EXCEPT ![k] = v] =
               Updated(c, [inserts |-> [inserts EXCEPT ![k] = v],
                           deletes |-> deletes \ {k}, writes |-> w])
BY ConstantsAssumption DEF TypeOK, Updated, Content, Pending

\* The same for a key that is deleted.
LEMMA OneMoreDelete ==
    ASSUME TypeOK, NEW c \in Content, NEW k \in Keys, NEW w,
           cache = Updated(c, Pending)
    PROVE  [cache EXCEPT ![k] = NoValue] =
               Updated(c, [inserts |-> [inserts EXCEPT ![k] = NoValue],
                           deletes |-> deletes \cup {k}, writes |-> w])
BY ConstantsAssumption DEF TypeOK, Updated, Content, Pending

-----------------------------------------------------------------------------
(* One lemma per action                                                    *)

\* What init() has read from the table satisfies the invariant.
LEMMA InitStep == Init => IInv
<1> SUFFICES ASSUME Init PROVE IInv
  OBVIOUS
<1> USE DEF Init
<1>1. TypeOK
  <2>1. <<disk>> \in Seq(Content) /\ <<disk>> # <<>> /\ writes = 0
    BY DEF writes
  <2>2. {timer, queued, erroneous} \subseteq BOOLEAN
    OBVIOUS
  <2>3. /\ {cache, inserts, disk} \subseteq Content
        /\ {waiter, settled} \subseteq 0 .. writes
        /\ updates \in Seq(Request)
    BY <2>1, EmptyType
  <2> QED
    BY <2>1, <2>2, <2>3 DEF TypeOK
<1>2. Updated(Underway, Pending) = disk
  BY UpdatedByNothing DEF Underway, Pending
<1>3. OneUpdate /\ Accounted /\ ClosingInOrder
  BY DEF OneUpdate, Accounted, Taken, ClosingInOrder, writes
<1>4. Snapshots
  BY <1>2 DEF Snapshots, writes
<1> QED
  BY <1>1, <1>3, <1>4 DEF IInv

\* What a change of the cache does, given what it does to what is pending.
LEMMA ChangedStep ==
    ASSUME IInv, NEW content \in Content, Changed(content),
           inserts' \in Content, deletes' \subseteq Keys,
           \A k \in deletes' : inserts'[k] = NoValue,
           HasPending',
           cache = Updated(Underway, Pending) =>
               content = Updated(Underway, Pending')
    PROVE  IInv'
<1> USE DEF Changed, flushVars, databaseVars
<1>1. /\ TypeOK /\ Accounted
      /\ history \in Seq(Content) /\ history # <<>>
      /\ history' = Append(history, content)
  BY DEF IInv, TypeOK
<1>2. /\ writes \in Nat /\ writes' = writes + 1
      /\ \A n \in 0 .. writes : history'[n + 1] = history[n + 1]
      /\ history'[writes' + 1] = content
      /\ history' \in Seq(Content) /\ history' # <<>>
  BY <1>1 DEF writes
<1>3. TypeOK'
  BY <1>1, <1>2 DEF TypeOK
<1>4. OneUpdate'
  BY DEF IInv, OneUpdate
<1>5. /\ Taken' = Taken /\ settled \in Nat
      /\ updates # <<>> => updates[1].writes = Taken
      /\ settled <= Taken /\ Taken <= writes
  BY <1>1, <1>2 DEF Accounted, Taken, TypeOK
<1>6. Taken \in Nat
  BY <1>1, TakenType
<1>7. Accounted'
  <2>1. history'[Len(history')] = cache'
    BY <1>1
  <2> QED
    BY <1>2, <1>5, <1>6, <2>1 DEF Accounted
<1>8. Snapshots'
  <2> SUFFICES ASSUME ~erroneous PROVE Snapshots'
    BY DEF Snapshots
  <2>1. /\ disk' = disk /\ settled' = settled /\ updates' = updates
        /\ Underway' = Underway
    BY DEF Underway, Updated
  <2> HIDE DEF Changed
  <2>2. PICK n \in settled .. writes : disk = history[n + 1]
    BY DEF IInv, Snapshots
  <2>3. n \in settled' .. writes' /\ disk' = history'[n + 1]
    BY <1>2, <1>5, <2>1, <2>2
  <2>4. updates' # <<>> => Underway' = history'[updates'[1].writes + 1]
    BY <1>2, <1>5, <1>6, <2>1 DEF IInv, Snapshots
  <2>5. cache' = Updated(Underway, Pending)'
    BY <2>1 DEF Changed, IInv, Snapshots, Updated
  <2> QED
    BY <2>3, <2>4, <2>5 DEF Snapshots
<1>9. ClosingInOrder'
  BY DEF ClosingInOrder
<1> QED
  BY <1>3, <1>4, <1>7, <1>8, <1>9 DEF IInv

\* set() keeps the invariant.
LEMMA SetStep == \A k \in Keys, v \in Values : IInv /\ Set(k, v) => IInv'
<1> SUFFICES ASSUME NEW k \in Keys, NEW v \in Values, IInv, Set(k, v)
             PROVE  IInv'
  OBVIOUS
<1> USE DEF Set, DeletesAfterSet
<1>1. TypeOK
  BY DEF IInv
<1>2. /\ [cache EXCEPT ![k] = v] \in Content
      /\ inserts' \in Content /\ deletes' \subseteq Keys
      /\ \A l \in deletes' : inserts'[l] = NoValue
  BY <1>1 DEF TypeOK, Content
<1>3. HasPending'
  BY <1>1, ConstantsAssumption DEF HasPending, Empty, TypeOK, Content
<1>4. cache = Updated(Underway, Pending) =>
          [cache EXCEPT ![k] = v] = Updated(Underway, Pending')
  BY <1>1, UnderwayType, OneMoreInsert DEF Pending
<1> QED
  BY <1>2, <1>3, <1>4, ChangedStep

\* delete() keeps the invariant.
LEMMA DeleteStep == \A k \in Keys : IInv /\ Delete(k) => IInv'
<1> SUFFICES ASSUME NEW k \in Keys, IInv, Delete(k)
             PROVE  IInv'
  OBVIOUS
<1> USE DEF Delete, InsertsAfterDelete
<1>1. TypeOK
  BY DEF IInv
<1>2. /\ [cache EXCEPT ![k] = NoValue] \in Content
      /\ inserts' \in Content /\ deletes' \subseteq Keys
      /\ \A l \in deletes' : inserts'[l] = NoValue
  BY <1>1 DEF TypeOK, Content
<1>3. HasPending'
  BY DEF HasPending
<1>4. cache = Updated(Underway, Pending) =>
          [cache EXCEPT ![k] = NoValue] = Updated(Underway, Pending')
  BY <1>1, UnderwayType, OneMoreDelete DEF Pending
<1> QED
  BY <1>2, <1>3, <1>4, ChangedStep

\* A step that changes no more than timer and waiter, and close() from "no"
\* to "delayed".
LEMMA SmallStep ==
    ASSUME IInv, UNCHANGED <<pendingVars, databaseVars>>,
           UNCHANGED <<updates, queued, settled>>,
           timer' \in BOOLEAN, waiter' \in 0 .. writes,
           \/ closing = "no" /\ closing' \in {"no", "delayed"}
           \/ closing' = closing /\ timer' = timer
    PROVE  IInv'
<1> USE DEF pendingVars, databaseVars
<1>1. TypeOK'
  BY DEF IInv, TypeOK, writes
<1>2. OneUpdate' /\ Accounted'
  BY DEF IInv, OneUpdate, Accounted, Taken, HasPending, writes
<1>3. Snapshots'
  BY DEF IInv, Snapshots, Underway, Pending, Updated, writes
<1>4. ClosingInOrder'
  BY DEF IInv, ClosingInOrder, HasPending
<1> QED
  BY <1>1, <1>2, <1>3, <1>4 DEF IInv

\* flush() keeps the invariant.
LEMMA FlushStep == IInv /\ Flush => IInv'
BY SmallStep DEF IInv, TypeOK, Flush

\* whenFlushed() keeps the invariant.
LEMMA WhenFlushedStep == IInv /\ WhenFlushed => IInv'
BY SmallStep DEF IInv, TypeOK, WhenFlushed, writes

\* The beginning of close() keeps the invariant.
LEMMA CloseStep == IInv /\ Close => IInv'
BY SmallStep DEF IInv, TypeOK, Close

\* The database has nothing to do any more, and gets what is pending or not.
LEMMA NextRun ==
    ASSUME IInv,
           \/ FlushPending(<<>>)
           \/ updates' = <<>> /\ UNCHANGED pendingVars,
           settled' = Taken, queued' = FALSE,
           disk' \in Content, erroneous' \in BOOLEAN,
           ~erroneous' => ~erroneous /\ disk' = Underway,
           timer' \in BOOLEAN, waiter' \in 0 .. writes,
           closing' \in {"no", "delayed", "running", "queued", "requeued",
                         "ready", "hung", "closed", "rejected"}
    PROVE  TypeOK' /\ OneUpdate' /\ Accounted' /\ Snapshots'
<1>1. /\ TypeOK /\ Accounted /\ Snapshots
      /\ cache' = cache /\ history' = history /\ writes' = writes
      /\ writes \in Nat /\ history \in Seq(Content)
      /\ history[writes + 1] = cache
  BY DEF IInv, TypeOK, Accounted, FlushPending, pendingVars, writes
<1>2. Taken \in Nat /\ settled <= Taken /\ Taken <= writes
  BY <1>1, TakenType DEF Accounted
<1>3. Pending \in Request /\ Underway \in Content
  BY <1>1, PendingType, UnderwayType
<1>4. CASE updates' = <<>> /\ UNCHANGED <<inserts, deletes>>
  <2>1. TypeOK'
    <3>1. {timer', queued', erroneous'} \subseteq BOOLEAN
      OBVIOUS
    <3>2. {cache', inserts', disk'} \subseteq Content
      BY <1>1, <1>4 DEF TypeOK
    <3>3. updates' \in Seq(Request) /\ {waiter', settled'} \subseteq 0 .. writes'
      BY <1>1, <1>2, <1>4
    <3> QED
      BY <1>1, <1>4, <3>1, <3>2, <3>3 DEF TypeOK
  <2>2. Taken' = Taken /\ HasPending' = HasPending /\ Pending' = Pending
    BY <1>1, <1>4 DEF Taken, HasPending, Pending
  <2>3. OneUpdate' /\ Accounted'
    BY <1>1, <1>2, <1>4, <2>2 DEF OneUpdate, Accounted
  <2>4. ASSUME ~erroneous' PROVE Snapshots'
    <3>1. Underway' = Underway /\ disk' = Underway
      BY <1>4, <2>4 DEF Underway
    <3>2. \E n \in settled' .. writes' : disk' = history'[n + 1]
      BY <1>1, <1>2, <2>4, <3>1 DEF Snapshots, Taken, Underway
    <3>3. cache' = Updated(Underway, Pending)'
      BY <1>1, <2>2, <2>4, <3>1 DEF Snapshots, Updated
    <3> QED
      BY <1>4, <3>2, <3>3 DEF Snapshots
  <2> QED
    BY <2>1, <2>3, <2>4 DEF Snapshots
<1>5. CASE updates' = <<Pending>> /\ inserts' = Empty /\ deletes' = {}
  <2>1. TypeOK'
    <3>1. {timer', queued', erroneous'} \subseteq BOOLEAN
      OBVIOUS
    <3>2. {cache', inserts', disk'} \subseteq Content
      BY <1>1, <1>5, EmptyType DEF TypeOK
    <3>3. updates' \in Seq(Request) /\ {waiter', settled'} \subseteq 0 .. writes'
      BY <1>1, <1>2, <1>3, <1>5
    <3>4. deletes' \subseteq Keys /\ \A k \in deletes' : inserts'[k] = NoValue
      BY <1>5
    <3> QED
      BY <1>1, <3>1, <3>2, <3>3, <3>4 DEF TypeOK
  <2>2. Taken' = writes
    BY <1>5 DEF Taken, Pending
  <2>3. OneUpdate' /\ Accounted'
    BY <1>1, <1>2, <1>5, <2>2 DEF OneUpdate, Accounted
  <2>4. ASSUME ~erroneous' PROVE Snapshots'
    <3>1. Underway' = Updated(Underway, Pending)
      BY <1>5, <2>4 DEF Underway, Updated
    <3>2. Underway' = cache
      BY <1>1, <2>4, <3>1 DEF Snapshots
    <3>3. cache' = Updated(Underway, Pending)'
      <4>1. cache \in Content
        BY <1>1 DEF TypeOK
      <4>2. Pending' = [inserts |-> Empty, deletes |-> {}, writes |-> writes]
        BY <1>1, <1>5 DEF Pending
      <4> QED
        BY <1>1, <3>2, <4>1, <4>2, UpdatedByNothing DEF Updated
    <3>4. \E n \in settled' .. writes' : disk' = history'[n + 1]
      BY <1>1, <1>2, <2>4 DEF Snapshots, Taken, Underway
    <3> QED
      BY <1>1, <1>5, <2>2, <3>2, <3>3, <3>4 DEF Snapshots, Taken
  <2> QED
    BY <2>1, <2>3, <2>4 DEF Snapshots
<1>6. \/ updates' = <<>> /\ UNCHANGED <<inserts, deletes>>
      \/ updates' = <<Pending>> /\ inserts' = Empty /\ deletes' = {}
  <2>1. Append(<<>>, Pending) = <<Pending>>
    OBVIOUS
  <2>2. CASE FlushPending(<<>>) /\ HasPending
    BY <2>1, <2>2 DEF FlushPending
  <2>3. CASE FlushPending(<<>>) /\ ~HasPending
    BY <2>3 DEF FlushPending, HasPending
  <2>4. CASE updates' = <<>> /\ UNCHANGED pendingVars
    BY <2>4 DEF pendingVars
  <2> QED
    BY <2>2, <2>3, <2>4
<1> QED
  BY <1>4, <1>5, <1>6

\* The delayed flush keeps the invariant, run at once or queued.
LEMMA TimerStep == IInv /\ TimerFires => IInv'
<1> SUFFICES ASSUME IInv, TimerFires PROVE IInv'
  OBVIOUS
<1> USE DEF TimerFires, databaseVars
<1>1. TypeOK /\ OneUpdate /\ ClosingInOrder
  BY DEF IInv
<1>2. closing' \in {"no", "delayed", "running", "queued", "requeued",
                     "ready", "hung", "closed", "rejected"}
  BY <1>1 DEF TypeOK
<1>3. waiter' \in 0 .. writes
  BY <1>1 DEF TypeOK
<1>4. CASE updates # <<>>
  <2>1. /\ queued' = TRUE /\ timer' = FALSE
        /\ UNCHANGED <<pendingVars, updates, disk, erroneous, settled, waiter>>
    BY <1>4 DEF Busy
  <2>2. closing' = IF closing # "delayed" THEN closing ELSE "queued"
    BY <1>4 DEF Busy
  <2> HIDE DEF TimerFires
  <2>3. TypeOK'
    BY <1>1, <1>2, <2>1 DEF TypeOK, pendingVars, writes
  <2>4. OneUpdate' /\ Accounted'
    BY <1>1, <1>4, <2>1 DEF IInv, OneUpdate, Accounted, Taken, HasPending,
                            pendingVars, writes
  <2>5. Snapshots'
    BY <2>1 DEF IInv, Snapshots, Underway, Pending, Updated, pendingVars,
                writes
  <2>6. ClosingInOrder'
    BY <1>1, <1>4, <2>1, <2>2 DEF TimerFires, ClosingInOrder, HasPending,
                                  pendingVars
  <2> QED
    BY <2>3, <2>4, <2>5, <2>6 DEF IInv
<1>5. CASE updates = <<>>
  <2>1. /\ FlushPending(<<>>) /\ queued' = queued /\ timer' = FALSE
        /\ UNCHANGED <<disk, erroneous, settled, waiter>>
    BY <1>5 DEF Busy
  <2>2. queued = FALSE /\ erroneous \in BOOLEAN /\ disk \in Content
    BY <1>1, <1>5 DEF TypeOK, OneUpdate
  <2>3. settled' = Taken /\ disk' = Underway
    BY <1>5, <2>1 DEF Taken, Underway
  <2>4. TypeOK' /\ OneUpdate' /\ Accounted' /\ Snapshots'
    <3> HIDE DEF TimerFires
    <3>1. /\ queued' = FALSE /\ timer' \in BOOLEAN
          /\ disk' \in Content /\ erroneous' \in BOOLEAN
          /\ ~erroneous' => ~erroneous
      BY <2>1, <2>2
    <3> QED
      BY <1>2, <1>3, <2>1, <2>3, <3>1, NextRun
  <2>5. ClosingInOrder'
    BY <1>1, <1>5, <2>1, <2>2 DEF ClosingInOrder, FlushPending, HasPending,
                                  Busy
  <2> QED
    BY <2>4, <2>5 DEF IInv
<1> QED
  BY <1>4, <1>5

\* The end of an update, whatever it did to the table.
LEMMA SettleStep ==
    ASSUME IInv, NEW i \in DOMAIN updates, NEW ok \in BOOLEAN, Settle(i, ok),
           disk' \in Content, erroneous' \in BOOLEAN,
           ~erroneous' => ~erroneous /\ disk' = Underway
    PROVE  IInv'
<1> USE DEF Settle, Requeued
<1>1. TypeOK /\ OneUpdate /\ Accounted /\ ClosingInOrder
  BY DEF IInv
<1>2. i = 1 /\ updates # <<>> /\ RemoveAt(updates, i) = <<>>
  BY <1>1 DEF TypeOK, OneUpdate, RemoveAt
<1>3. /\ \/ FlushPending(<<>>)
         \/ updates' = <<>> /\ UNCHANGED pendingVars
      /\ queued => FlushPending(<<>>)
      /\ ~queued => updates' = <<>> /\ UNCHANGED pendingVars
  BY <1>2
<1>4. settled' = Taken /\ queued' = FALSE
  BY <1>2 DEF Taken
<1>5. timer' \in BOOLEAN /\ timer' = timer /\ waiter' \in 0 .. writes
  BY <1>1 DEF TypeOK, writes
<1>6. closing' \in {"no", "delayed", "running", "queued", "requeued",
                     "ready", "hung", "closed", "rejected"}
  BY <1>1 DEF TypeOK
<1>7. TypeOK' /\ OneUpdate' /\ Accounted' /\ Snapshots'
  <2> HIDE DEF Settle, Requeued
  <2> QED
    BY <1>3, <1>4, <1>5, <1>6, NextRun
<1>8. ClosingInOrder'
  <2>1. closing # "closed" /\ closing # "ready"
    BY <1>1, <1>2 DEF ClosingInOrder
  <2>2. closing \in {"no", "delayed"} => closing' = closing
    OBVIOUS
  <2>3. CASE closing \in {"no", "delayed", "hung", "rejected"}
    BY <1>1, <1>5, <2>3 DEF ClosingInOrder
  <2>4. CASE closing \in {"running", "requeued"}
    <3>1. /\ updates' = <<>> /\ ~HasPending' /\ ~timer'
          /\ closing' \in {"ready", "hung"}
      BY <1>1, <1>3, <1>5, <2>4 DEF ClosingInOrder, HasPending, pendingVars
    <3> QED
      BY <3>1 DEF ClosingInOrder
  <2>5. CASE closing = "queued"
    <3>1. queued /\ ~timer
      BY <1>1, <2>5 DEF ClosingInOrder
    <3>2. /\ FlushPending(<<>>) /\ ~timer' /\ ~queued'
          /\ closing' = IF HasPending THEN "requeued" ELSE "ready"
      <4>1. FlushPending(<<>>) /\ ~timer' /\ ~queued'
        BY <1>3, <1>4, <1>5, <3>1
      <4>2. closing' = IF HasPending THEN "requeued" ELSE "ready"
        BY <2>5
      <4> QED
        BY <4>1, <4>2
    <3>3. ~HasPending' /\ (updates' = <<>> <=> ~HasPending)
      BY <3>2 DEF FlushPending, HasPending
    <3> QED
      BY <3>2, <3>3 DEF ClosingInOrder
  <2> QED
    BY <1>1, <2>1, <2>3, <2>4, <2>5 DEF TypeOK
<1> QED
  BY <1>7, <1>8 DEF IInv

\* Updates that succeed, fail in part or fail keep the invariant.
LEMMA UpdateEndsStep == IInv /\ UpdateEnds => IInv'
<1> SUFFICES ASSUME IInv, NEW i \in DOMAIN updates,
                    \/ UpdateSucceeds(i)
                    \/ StatementFails(i)
                    \/ TransactionFails(i)
             PROVE  IInv'
  BY DEF UpdateEnds
<1>1. /\ TypeOK /\ i = 1 /\ updates # <<>>
      /\ disk \in Content /\ erroneous \in BOOLEAN
      /\ updates[i] \in Request
  BY DEF IInv, TypeOK, OneUpdate
<1>2. CASE UpdateSucceeds(i)
  <2>1. /\ disk' = Updated(disk, updates[i])
        /\ erroneous' = erroneous /\ Settle(i, TRUE)
    BY <1>2 DEF UpdateSucceeds
  <2>2. Underway = Updated(disk, updates[i])
    BY <1>1 DEF Underway
  <2>3. disk' \in Content
    BY <1>1, <2>1, UpdatedType
  <2> QED
    BY <1>1, <2>1, <2>2, <2>3, SettleStep
<1>3. CASE StatementFails(i)
  <2>1. PICK part \in Partial(updates[i]) : disk' = Updated(disk, part)
    BY <1>3 DEF StatementFails
  <2>2. part \in Request
    BY <1>1, EmptyType DEF Partial, Request
  <2>3. erroneous' = TRUE /\ Settle(i, TRUE)
    BY <1>3 DEF StatementFails, Marked
  <2> QED
    BY <1>1, <2>1, <2>2, <2>3, UpdatedType, SettleStep
<1>4. CASE TransactionFails(i)
  <2>1. disk' = disk /\ erroneous' = TRUE /\ Settle(i, FALSE)
    BY <1>4 DEF TransactionFails
  <2> QED
    BY <1>1, <2>1, SettleStep
<1> QED
  BY <1>2, <1>3, <1>4

\* Closing the database, with or without recovery, keeps the invariant.
LEMMA CloseDatabaseStep == IInv /\ CloseDatabase => IInv'
<1> SUFFICES ASSUME IInv, CloseDatabase PROVE IInv'
  OBVIOUS
<1>1. /\ UNCHANGED <<pendingVars, flushVars, erroneous>>
      /\ closing = "ready" /\ closing' \in {"closed", "rejected"}
      /\ disk' \in {disk, cache, Empty}
      /\ closing' = "closed" => disk' = IF erroneous THEN cache ELSE disk
      /\ ~erroneous => closing' = "closed"
  BY DEF CloseDatabase
<1>2. TypeOK /\ ClosingInOrder /\ updates = <<>> /\ ~HasPending
  BY <1>1 DEF IInv, ClosingInOrder
<1>3. ~erroneous => disk = cache
  <2>1. Underway = disk
    BY <1>2 DEF Underway
  <2>2. Updated(disk, Pending) = disk
    BY <1>2, UpdatedByNothing DEF TypeOK, Pending, HasPending
  <2> QED
    BY <2>1, <2>2 DEF IInv, Snapshots
<1>4. TypeOK'
  BY <1>1, <1>2, EmptyType DEF TypeOK, pendingVars, flushVars, writes
<1>5. OneUpdate' /\ Accounted'
  BY <1>1 DEF IInv, OneUpdate, Accounted, Taken, HasPending, pendingVars,
              flushVars, writes
<1>6. Snapshots'
  BY <1>1, <1>3 DEF IInv, Snapshots, Underway, Pending, Updated, pendingVars,
                    flushVars, writes
<1>7. ClosingInOrder'
  BY <1>1, <1>2, <1>3 DEF ClosingInOrder, HasPending, pendingVars, flushVars
<1> QED
  BY <1>4, <1>5, <1>6, <1>7 DEF IInv

\* So does a step that changes nothing.
LEMMA StutterStep == IInv /\ UNCHANGED vars => IInv'
BY DEF IInv, TypeOK, OneUpdate, Accounted, Taken, Snapshots, ClosingInOrder,
       Underway, Pending, HasPending, Updated, writes, vars

\* Every step keeps the invariant.
LEMMA NextStep == IInv /\ [Next]_vars => IInv'
BY SetStep, DeleteStep, FlushStep, WhenFlushedStep, CloseStep, TimerStep,
   UpdateEndsStep, CloseDatabaseStep, StutterStep DEF Next

\* The inductive invariant holds in every state of a storage, from its
\* opening to the end of close() (storage.ts and the SQLite database).
THEOREM Invariance == Spec => []IInv
<1>1. Init => IInv
  BY InitStep
<1>2. IInv /\ [Next]_vars => IInv'
  BY NextStep
<1> QED
  BY <1>1, <1>2, PTL DEF Spec

-----------------------------------------------------------------------------
(* The properties                                                          *)

\* Storage.set and delete, flushPending and the database's transactions never
\* lose a write between them: without an error of the database, table, update
\* and pending changes are the cache (storage.ts).
THEOREM NothingForgotten == Spec => []StoredOrOnItsWay
<1>1. IInv => StoredOrOnItsWay
  BY DEF IInv, Snapshots, StoredOrOnItsWay
<1> QED
  BY <1>1, Invariance, PTL

\* A process that dies between any two steps leaves a table that the cache has
\* been, no older than the last update that has ended.
THEOREM CrashLeavesASnapshot == Spec => []DiskIsASnapshot
<1>1. IInv => DiskIsASnapshot
  BY DEF IInv, Snapshots, DiskIsASnapshot
<1> QED
  BY <1>1, Invariance, PTL

\* When close() is done the table is the cache, after whatever failures.
THEOREM ClosedIsComplete == Spec => []ClosedIsStored
<1>1. IInv => ClosedIsStored
  BY DEF IInv, ClosingInOrder, ClosedIsStored
<1> QED
  BY <1>1, Invariance, PTL

\* The callers of whenFlushed are released only by the update that holds the
\* awaited writes or a later one (flushPending's finally).
THEOREM ReleasedWhenSettled == Spec => FlushedMeansSettled
<1>1. IInv /\ [Next]_vars =>
          [waiter # 0 /\ waiter' = 0 => settled' >= waiter]_vars
  <2> SUFFICES ASSUME IInv, Next, waiter # 0, waiter' = 0
               PROVE  settled' >= waiter
    BY DEF vars
  <2>1. UpdateEnds
    BY DEF Next, Set, Delete, Changed, Flush, WhenFlushed, Close, TimerFires,
           CloseDatabase, flushVars
  <2>2. PICK i \in DOMAIN updates : Settle(i, TRUE) \/ Settle(i, FALSE)
    BY <2>1 DEF UpdateEnds, UpdateSucceeds, StatementFails, TransactionFails
  <2>3. i = 1 /\ updates # <<>> /\ waiter \in 0 .. writes
    BY DEF IInv, OneUpdate, TypeOK
  <2>4. ~HasPending /\ settled' = updates[1].writes
    BY <2>2, <2>3 DEF Settle, ReleasesWaiters
  <2>5. settled' = writes
    BY <2>3, <2>4 DEF IInv, Accounted, Taken
  <2> QED
    BY <2>3, <2>5 DEF IInv, TypeOK, writes
<1> QED
  BY <1>1, Invariance, PTL DEF Spec, FlushedMeansSettled

=============================================================================
