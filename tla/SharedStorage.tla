--------------------------- MODULE SharedStorage ----------------------------
(***************************************************************************)
(* One key of the application or profile state as several windows see it:  *)
(* every window has a Storage (base/parts/storage/common/storage.ts) whose *)
(* database is a channel to the main process                               *)
(* (platform/storage/common/storageIpc.ts), which keeps the storage they   *)
(* share and tells all windows of its changes, some time later             *)
(* (platform/storage/electron-main/storageIpc.ts).                         *)
(*                                                                         *)
(* How a Storage delays and throttles its updates, and how the main        *)
(* process writes its own to the disk, is the subject of Storage: here a   *)
(* window with something pending sends it whenever no update is under way. *)
(* A window's connection is one FIFO stream per direction.                 *)
(***************************************************************************)
EXTENDS Integers, FiniteSets, SequencesExt

CONSTANTS
    Windows,
    Values,
    NoValue,         \* the key is absent
    Nothing,         \* nothing is pending
    MaxWrites,       \* bound: changes the users make
    MaxOpens         \* bound: windows opened, or reloaded

ASSUME ConstantsAssumption ==
    /\ NoValue \notin Values
    /\ Nothing \notin Values \cup {NoValue}
    /\ {MaxWrites, MaxOpens} \subseteq Nat

VARIABLES
    \* the windows
    phase,           \* phase[w]: "closed", "loading", "open" or "closing"
    cache,
    pending,         \* pendingInserts, pendingDeletes: what w has not sent
    sending,         \* the windows with an update under way
    \* the connections
    toMain, toWindow,
    \* the main process
    main,            \* the value in the shared storage
    listening,       \* the windows that listen to onDidChangeStorage
    changed,         \* a change has yet to be announced
    \* history
    writes,
    opens,
    writers,         \* the windows that wrote since all was quiet
    written,         \* the value written last
    excused          \* since then an announcement met an unsaved value, or
                     \* a window died with one

windowVars == <<phase, cache, pending, sending>>
mainVars == <<main, listening, changed>>
historyVars == <<writes, opens, writers, written, excused>>
vars == <<phase, cache, pending, sending, toMain, toWindow, main, listening,
          changed, writes, opens, writers, written, excused>>

Value == Values \cup {NoValue}

Unsaved(w) == pending[w] # Nothing \/ w \in sending

\* Nothing is on its way from anywhere to anywhere.
Quiet ==
    /\ ~changed
    /\ \A w \in Windows :
          ~Unsaved(w) /\ toMain[w] = <<>> /\ toWindow[w] = <<>>

MainReads(w, kind) ==
    /\ toMain[w] # <<>>
    /\ Head(toMain[w]).kind = kind
    /\ toMain' = [toMain EXCEPT ![w] = Tail(@)]

WindowReads(w, kind) ==
    /\ toWindow[w] # <<>>
    /\ Head(toWindow[w]).kind = kind
    /\ toWindow' = [toWindow EXCEPT ![w] = Tail(@)]

ToMain(w, m) == [toMain EXCEPT ![w] = Append(@, m)]
ToWindow(w, m) == [toWindow EXCEPT ![w] = Append(@, m)]

-----------------------------------------------------------------------------
(* A window                                                                *)

\* The database client listens for changes, then init() asks for the items.
Open(w) ==
    /\ phase[w] = "closed"
    /\ opens < MaxOpens
    /\ opens' = opens + 1
    /\ phase' = [phase EXCEPT ![w] = "loading"]
    /\ toMain' = ToMain(w, [kind |-> "getItems"])
    /\ UNCHANGED <<cache, pending, sending, toWindow, mainVars>>
    /\ UNCHANGED <<writes, writers, written, excused>>

ReceiveItems(w) ==
    /\ WindowReads(w, "items")
    /\ phase' = [phase EXCEPT ![w] = "open"]
    /\ cache' = [cache EXCEPT ![w] = Head(toWindow[w]).value]
    /\ UNCHANGED <<pending, sending, toMain, mainVars, historyVars>>

\* set and delete.  A value that is in the cache already is not written.
Write(w, v) ==
    /\ phase[w] = "open"
    /\ writes < MaxWrites
    /\ writes' = writes + 1
    /\ written' = v
    /\ writers' = (IF Quiet THEN {} ELSE writers) \cup {w}
    /\ excused' = (excused /\ ~Quiet)
    /\ \/ /\ v = cache[w]
          /\ UNCHANGED <<cache, pending>>
       \/ /\ v # cache[w]
          /\ cache' = [cache EXCEPT ![w] = v]
          /\ pending' = [pending EXCEPT ![w] = v]
    /\ UNCHANGED <<phase, sending, toMain, toWindow, mainVars, opens>>

\* flushPending.
Flush(w) ==
    /\ pending[w] # Nothing
    /\ w \notin sending
    /\ toMain' = ToMain(w, [kind |-> "updateItems", value |-> pending[w]])
    /\ pending' = [pending EXCEPT ![w] = Nothing]
    /\ sending' = sending \cup {w}
    /\ UNCHANGED <<phase, cache, toWindow, mainVars, historyVars>>

ReceiveReply(w) ==
    /\ WindowReads(w, "reply")
    /\ sending' = sending \ {w}
    /\ UNCHANGED <<phase, cache, pending, toMain, mainVars, historyVars>>

\* acceptExternal: the cache takes the value, whatever is pending.  While
\* the window is loading the items will replace it.
Accepts(w) == phase[w] # "closing"
ReceiveChange(w) ==
    /\ WindowReads(w, "change")
    /\ cache' = IF Accepts(w)
                THEN [cache EXCEPT ![w] = Head(toWindow[w]).value]
                ELSE cache
    /\ excused' = (excused \/ (Unsaved(w) /\ cache' # cache))
    /\ UNCHANGED <<phase, pending, sending, toMain, mainVars>>
    /\ UNCHANGED <<writes, opens, writers, written>>

\* The window is closed or reloaded: what is pending is sent and waited for,
\* then the listener goes.
BeginClose(w) ==
    /\ phase[w] = "open"
    /\ phase' = [phase EXCEPT ![w] = "closing"]
    /\ UNCHANGED <<cache, pending, sending, toMain, toWindow, mainVars,
                   historyVars>>

NotListening(w) == listening \ {w}

DoneWhenIdle(w) == w \notin sending
Done(w) == pending[w] = Nothing /\ w \notin sending

EndClose(w) ==
    /\ phase[w] = "closing"
    /\ Done(w)
    /\ phase' = [phase EXCEPT ![w] = "closed"]
    /\ pending' = [pending EXCEPT ![w] = Nothing]
    /\ listening' = NotListening(w)
    /\ toWindow' = [toWindow EXCEPT ![w] = <<>>]
    /\ UNCHANGED <<cache, sending, toMain, main, changed, historyVars>>

\* Without the request for the items, the last that a loading window has made.
Updates(s) ==
    IF s # <<>> /\ Last(s).kind = "getItems" THEN Front(s) ELSE s

\* The window's process dies; the updates it has sent may be lost with it.
Die(w) ==
    /\ phase[w] # "closed"
    /\ phase' = [phase EXCEPT ![w] = "closed"]
    /\ pending' = [pending EXCEPT ![w] = Nothing]
    /\ sending' = sending \ {w}
    /\ listening' = listening \ {w}
    /\ toWindow' = [toWindow EXCEPT ![w] = <<>>]
    /\ toMain' \in {[toMain EXCEPT ![w] = <<>>],
                   [toMain EXCEPT ![w] = Updates(@)]}
    /\ excused' = (excused \/ Unsaved(w))
    /\ UNCHANGED <<cache, main, changed, writes, opens, writers, written>>

-----------------------------------------------------------------------------
(* The main process                                                        *)

\* The first request of a window, which listens from now on.
ReceiveGetItems(w) ==
    /\ MainReads(w, "getItems")
    /\ listening' = listening \cup {w}
    /\ toWindow' = ToWindow(w, [kind |-> "items", value |-> main])
    /\ UNCHANGED <<windowVars, main, changed, historyVars>>

\* A change starts the debounce, or prolongs it.
ChangedOnInsert(v) == changed \/ (v # main /\ v # NoValue)
Changed(v) == changed \/ v # main

AnsweredIfChanged(w, v) == w \in sending /\ v # main
Answered(w, v) == w \in sending

\* updateItems.
ReceiveUpdateItems(w) ==
    /\ MainReads(w, "updateItems")
    /\ LET v == Head(toMain[w]).value
       IN /\ changed' = Changed(v)
          /\ main' = v
          /\ toWindow' = IF Answered(w, v)
                         THEN ToWindow(w, [kind |-> "reply"]) ELSE toWindow
    /\ UNCHANGED <<windowVars, listening, historyVars>>

\* The debounce ends: every listener is told the value there is now, the
\* window the change came from included.
Announce ==
    /\ changed
    /\ changed' = FALSE
    /\ toWindow' =
          [w \in Windows |->
             IF w \in listening
             THEN Append(toWindow[w], [kind |-> "change", value |-> main])
             ELSE toWindow[w]]
    /\ UNCHANGED <<windowVars, toMain, main, listening, historyVars>>

-----------------------------------------------------------------------------
Init ==
    /\ phase = [w \in Windows |-> "closed"]
    /\ main \in Value
    /\ cache = [w \in Windows |-> NoValue]
    /\ pending = [w \in Windows |-> Nothing]
    /\ sending = {}
    /\ toMain = [w \in Windows |-> <<>>]
    /\ toWindow = [w \in Windows |-> <<>>]
    /\ listening = {}
    /\ changed = FALSE
    /\ writes = 0 /\ opens = 0
    /\ writers = {}
    /\ written = main
    /\ excused = FALSE

WindowReceives(w) == ReceiveItems(w) \/ ReceiveReply(w) \/ ReceiveChange(w)
MainReceives(w) == ReceiveGetItems(w) \/ ReceiveUpdateItems(w)

Next ==
    \/ Announce
    \/ \E w \in Windows :
          \/ Open(w) \/ Flush(w) \/ BeginClose(w) \/ EndClose(w) \/ Die(w)
          \/ WindowReceives(w) \/ MainReceives(w)
          \/ \E v \in Value : Write(w, v)

Spec == Init /\ [][Next]_vars

\* Messages arrive, delays end, and a window that is being closed closes.
LiveSpec ==
    /\ Spec
    /\ WF_vars(Announce)
    /\ \A w \in Windows :
          /\ WF_vars(Flush(w)) /\ WF_vars(EndClose(w))
          /\ WF_vars(WindowReceives(w)) /\ WF_vars(MainReceives(w))

-----------------------------------------------------------------------------
(* Properties                                                              *)

\* Once everything is quiet the open windows agree with the main process and
\* so with each other, however their writes and announcements crossed.
Agreement ==
    Quiet => \A w \in Windows : phase[w] = "open" => cache[w] = main

\* When one window alone writes, the value written last is the one that
\* stays, also if the window is then closed or reloaded; unless a value was
\* announced to the window while it had another one to save, or it died.
LastWriteStays ==
    Quiet /\ Cardinality(writers) = 1 /\ ~excused => main = written

\* Whatever the windows do, it becomes quiet in the end.
QuietInTheEnd == []<>Quiet
=============================================================================
