--------------------------- MODULE TextFileProofs ---------------------------
(***************************************************************************)
(* Proofs about TextFile, for any number of edits, of saves, of writes of  *)
(* other programs, of failures and of crashes.                             *)
(*                                                                         *)
(* StatsInv is about the stats the model and its backups keep: none is     *)
(* later than the file, and what it describes is known.  EditsInv is about *)
(* the texts and their version ids: a version id stands for one text, and  *)
(* the saved one for a known text.  TracksInv follows the backup, the      *)
(* service and what is pending.  OldTexts is why a text of another program *)
(* is a new one.  CleanInv compares the file, or the text on its way there *)
(* while a save writes, with the text that is shown.                       *)
(***************************************************************************)
EXTENDS TextFile, SequenceTheorems, TLAPS

-----------------------------------------------------------------------------
(* What is written over                                                    *)

\* A stat of the file, or of what it was before, taken when the texts of kn
\* were known.
Taken(stat, kn, file, race) ==
    /\ stat.mtime \in Nat /\ stat.mtime <= file.mtime
    /\ stat.mtime = file.mtime => stat = file
    /\ race \/ stat.text \in kn

\* A save under way, as far as writing the file is concerned.
IsSave(s) ==
    /\ "phase" \in DOMAIN s
    /\ s.phase \in {"writing", "written"} =>
          {"text", "overwrite", "id"} \subseteq DOMAIN s

IsCopy(b) == b # NoBackup /\ b # Idle /\ b # Removal

\* A copy of the text, made with a stat and known texts of its time.
CopyOK(b) ==
    IsCopy(b) =>
        /\ {"kind", "text", "stat", "known"} \subseteq DOMAIN b
        /\ b.kind = "copy"
        /\ Taken(b.stat, b.known, disk, raced)

StatsInv ==
    /\ disk.mtime \in Nat
    /\ raced \in BOOLEAN /\ IsSave(saving)
    /\ Taken(lastStat, known, disk, raced)
    /\ CopyOK(backup) /\ CopyOK(io)
    /\ backup # Idle /\ backup # Removal /\ io # NoBackup
    /\ saving.phase = "writing" =>
          \/ saving.overwrite \/ raced
          \/ disk.text \in known \cup {saving.text}
    /\ saving.phase = "written" => raced \/ disk.text = saving.text

\* The records of a backup operation are different.
LEMMA BackupKinds ==
    /\ Idle # NoBackup /\ Removal # NoBackup /\ Idle # Removal
    /\ IsCopy(Copy)
BY DEF Idle, NoBackup, Removal, Copy, IsCopy

\* A save that is over, or begins, writes nothing.
LEMMA NothingWritten ==
    ASSUME SaveOver
    PROVE  IsSave(saving') /\ saving'.phase \notin {"writing", "written"}
BY DEF SaveOver, RunsQueued, Started, NoSave, IsSave

\* No more does a save that the user or auto save asks for.
LEMMA NothingWrittenYet ==
    ASSUME IsSave(saving), NEW request, Save(request)
    PROVE  \/ saving' = saving
           \/ /\ IsSave(saving')
              /\ saving'.phase \notin {"writing", "written"}
<1>1. CASE ~Saving
  BY <1>1 DEF Save, Started, IsSave
<1>2. CASE Saving /\ saving.phase = "delayed"
  <2>1. saving' = [saving EXCEPT !.cancelled = TRUE]
    BY <1>2 DEF Save
  <2>2. DOMAIN saving' = DOMAIN saving /\ saving'.phase = "delayed"
    BY <1>2, <2>1 DEF IsSave
  <2> QED
    BY <2>2 DEF IsSave
<1>3. CASE Saving /\ saving.phase # "delayed"
  BY <1>3 DEF Save
<1> QED
  BY <1>1, <1>2, <1>3

\* Steps that neither read nor write the file.
LEMMA StatsKept ==
    ASSUME StatsInv,
           UNCHANGED <<disk, lastStat, known, raced, backup, io>>,
           \/ saving' = saving
           \/ /\ IsSave(saving')
              /\ saving'.phase \notin {"writing", "written"}
    PROVE  StatsInv'
<1>1. CopyOK(backup)' /\ CopyOK(io)'
  BY DEF StatsInv, CopyOK, Taken, IsCopy
<1> QED
  BY <1>1 DEF StatsInv, Taken, Idle, NoBackup, Removal

\* Steps in which the file is written and nothing is read.
LEMMA StatsAged ==
    ASSUME StatsInv, NEW t, disk' = Written(t),
           UNCHANGED <<lastStat, known, backup, io>>,
           raced' \in BOOLEAN, raced => raced', IsSave(saving'),
           saving'.phase # "writing" \/ raced',
           saving'.phase = "written" => raced' \/ t = saving'.text
    PROVE  StatsInv'
<1>1. disk'.mtime = disk.mtime + 1 /\ disk'.text = t /\ disk.mtime \in Nat
  BY DEF Written, StatsInv
<1>2. \A stat, kn :
         Taken(stat, kn, disk, raced) => Taken(stat, kn, disk', raced')
  BY <1>1 DEF Taken, StatsInv
<1>3. CopyOK(backup)' /\ CopyOK(io)'
  BY <1>2 DEF StatsInv, CopyOK, IsCopy
<1> QED
  BY <1>1, <1>2, <1>3 DEF StatsInv, Idle, NoBackup, Removal

\* Steps in which the file is read.
LEMMA StatsRead ==
    ASSUME StatsInv, Load, UNCHANGED <<disk, raced, saving, backup, io>>
    PROVE  StatsInv'
<1>1. lastStat' = disk /\ known' = known \cup {disk.text}
  BY DEF Load, LaterStat, StatsInv, Taken
<1>2. Taken(lastStat', known', disk', raced')
  BY <1>1 DEF StatsInv, Taken
<1>3. CopyOK(backup)' /\ CopyOK(io)'
  BY DEF StatsInv, CopyOK, IsCopy
<1> QED
  BY <1>1, <1>2, <1>3 DEF StatsInv, Taken, Idle, NoBackup, Removal

\* What an operation of the backup leaves when it is done, fails or is cut off:
\* the backup there was, none, or a copy with its text or a part of it.
LEMMA LeftOfTheBackup ==
    ASSUME StatsInv, io # Idle, NEW t, NEW b \in CutOff(t) \cup {AfterIo}
    PROVE  \/ b \in {backup, NoBackup}
           \/ /\ IsCopy(io) /\ IsCopy(b) /\ CopyOK(b)
              /\ b.stat = io.stat /\ b.known = io.known
              /\ b.text \in {io.text, t}
<1>1. CASE io = Removal
  BY <1>1 DEF CutOff, AfterIo
<1>2. CASE io # Removal
  <2>1. /\ IsCopy(io)
        /\ {"kind", "text", "stat", "known"} \subseteq DOMAIN io
        /\ io.kind = "copy" /\ Taken(io.stat, io.known, disk, raced)
    BY <1>2 DEF StatsInv, CopyOK, IsCopy
  <2>2. b \in {backup, NoBackup, io} \/ b = [io EXCEPT !.text = t]
    BY <1>2 DEF CutOff, AfterIo
  <2>3. CASE b = [io EXCEPT !.text = t]
    <3>1. /\ DOMAIN b = DOMAIN io /\ b.kind = "copy" /\ b.text = t
          /\ b.stat = io.stat /\ b.known = io.known
      BY <2>1, <2>3
    <3>2. IsCopy(b)
      BY <3>1 DEF IsCopy, NoBackup, Idle, Removal
    <3> QED
      BY <2>1, <3>1, <3>2 DEF CopyOK
  <2> QED
    BY <2>1, <2>2, <2>3 DEF CopyOK
<1> QED
  BY <1>1, <1>2

\* Every step keeps StatsInv: of reading, writing, failing and crashing.
LEMMA StatsNext ==
    ASSUME StatsInv, [Next]_vars PROVE StatsInv'
<1> USE DEF textVars, flags, saveVars, readVars, fileVars, backupVars, bounds,
            history
<1>1. CASE UNCHANGED vars
  BY <1>1, StatsKept DEF vars
<1>2. CASE Type \/ Undo \/ Redo
  BY <1>2, StatsKept DEF Type, Undo, Redo, GoTo
<1>3. ASSUME NEW request \in Requests, Save(request)
      PROVE  StatsInv'
  <2>1. UNCHANGED <<disk, lastStat, known, raced, backup, io>>
    BY <1>3 DEF Save
  <2> QED
    BY <1>3, <2>1, StatsKept, NothingWrittenYet DEF StatsInv
<1>4. CASE DelayEnds \/ GiveUp
  <2>1. UNCHANGED <<disk, lastStat, known, raced, backup, io>>
    BY <1>4 DEF DelayEnds, GiveUp
  <2>2. CASE SaveOver
    BY <2>1, <2>2, StatsKept, NothingWritten
  <2>3. CASE saving' = [saving EXCEPT !.phase = "participants"]
    <3>1. IsSave(saving') /\ saving'.phase = "participants"
      BY <2>3 DEF StatsInv, IsSave
    <3> QED
      BY <2>1, <3>1, StatsKept
  <2> QED
    BY <1>4, <2>2, <2>3 DEF DelayEnds, GiveUp
<1>5. CASE Revert \/ RevertStarts \/ RevertFails
  BY <1>5, StatsKept DEF Revert, RevertStarts, RevertFails
<1>6. CASE FileChanged \/ ReloadStarts \/ ReloadFails
  BY <1>6, StatsKept DEF FileChanged, ReloadStarts, ReloadFails
<1>7. CASE ParticipantsEnd
  <2>1. UNCHANGED <<disk, lastStat, known, raced, backup, io>>
    BY <1>7 DEF ParticipantsEnd, SaveFails
  <2>2. CASE Conflicts(buffer.text)
    <3>1. SaveOver
      BY <1>7, <2>2 DEF ParticipantsEnd, SaveFails
    <3> QED
      BY <2>1, <3>1, StatsKept, NothingWritten
  <2>3. CASE ~Conflicts(buffer.text)
    <3>1. saving' = [phase |-> "writing", id |-> versionId,
                     text |-> buffer.text, overwrite |-> saving.overwrite]
      BY <1>7, <2>3 DEF ParticipantsEnd
    <3>2. /\ IsSave(saving') /\ saving'.phase = "writing"
          /\ saving'.text = buffer.text
          /\ saving.overwrite => saving'.overwrite
      BY <3>1 DEF IsSave
    <3>3. \/ saving.overwrite \/ raced
          \/ disk.text \in known \cup {buffer.text}
      BY <2>3 DEF Conflicts, StatsInv, Taken
    <3>4. CopyOK(backup)' /\ CopyOK(io)'
      BY <2>1 DEF StatsInv, CopyOK, IsCopy
    <3> QED
      BY <2>1, <3>2, <3>3, <3>4
      DEF StatsInv, Taken, Idle, NoBackup, Removal
  <2> QED
    BY <2>2, <2>3
<1>8. CASE WriteFile
  <2>1. /\ disk' = Written(saving.text) /\ raced' = raced
        /\ saving' = [saving EXCEPT !.phase = "written"]
        /\ UNCHANGED <<lastStat, known, backup, io>>
    BY <1>8 DEF WriteFile
  <2>2. /\ IsSave(saving') /\ saving'.phase = "written"
        /\ saving'.text = saving.text
    BY <1>8, <2>1 DEF WriteFile, StatsInv, IsSave
  <2> QED
    BY <2>1, <2>2, StatsAged DEF StatsInv
<1>9. CASE WriteFails
  <2>1. /\ UNCHANGED <<lastStat, known, raced, backup, io>>
        /\ disk' = disk \/ disk' = Written(Foreign)
    BY <1>9 DEF WriteFails, SaveFails
  <2>2. IsSave(saving') /\ saving'.phase \notin {"writing", "written"}
    BY <1>9, NothingWritten DEF WriteFails, SaveFails
  <2> QED
    BY <2>1, <2>2, StatsKept, StatsAged DEF StatsInv
<1>10. CASE SaveSucceeds
  <2>1. /\ lastStat' = disk /\ known' = known \cup {saving.text}
        /\ saving.phase = "written"
        /\ UNCHANGED <<disk, raced, backup, io>>
    BY <1>10 DEF SaveSucceeds, LaterStat, StatsInv, Taken
  <2>2. IsSave(saving') /\ saving'.phase \notin {"writing", "written"}
    BY <1>10, NothingWritten DEF SaveSucceeds
  <2>3. CopyOK(backup)' /\ CopyOK(io)'
    BY <2>1 DEF StatsInv, CopyOK, IsCopy
  <2> QED
    BY <2>1, <2>2, <2>3 DEF StatsInv, Taken, Idle, NoBackup, Removal
<1>11. CASE ReloadEnds
  <2>1. UNCHANGED <<disk, raced, saving, backup, io>>
    BY <1>11 DEF ReloadEnds
  <2>2. Load \/ UNCHANGED <<lastStat, known>>
    BY <1>11 DEF ReloadEnds, KeepsAll
  <2> QED
    BY <2>1, <2>2, StatsRead, StatsKept
<1>12. CASE RevertEnds
  <2>1. UNCHANGED <<disk, raced, saving, backup, io>>
    BY <1>12 DEF RevertEnds
  <2>2. Load \/ UNCHANGED <<lastStat, known>>
    BY <1>12 DEF RevertEnds, KeepsAll
  <2> QED
    BY <2>1, <2>2, StatsRead, StatsKept
<1>13. CASE BackupStarts \/ BackupEnds \/ BackupFails
  <2>1. UNCHANGED <<disk, lastStat, known, raced, saving>>
    BY <1>13 DEF BackupStarts, BackupEnds, BackupFails
  <2>2. io' \in {io, Idle, Removal, Copy}
    BY <1>13 DEF BackupStarts, BackupEnds, BackupFails
  <2>3. CopyOK(Copy)
    BY DEF CopyOK, Copy, StatsInv
  <2>4. CopyOK(io')
    BY <2>2, <2>3 DEF StatsInv, CopyOK, IsCopy
  <2>5. \/ backup' = backup
        \/ io # Idle /\ backup' \in CutOff(Foreign) \cup {AfterIo}
    BY <1>13 DEF BackupStarts, BackupEnds, BackupFails
  <2>6. \/ backup' \in {backup, NoBackup}
        \/ IsCopy(backup') /\ CopyOK(backup')
    BY <2>5, LeftOfTheBackup
  <2>7. CopyOK(backup') /\ backup' # Idle /\ backup' # Removal
        /\ io' # NoBackup
    BY <2>2, <2>6, BackupKinds DEF StatsInv, IsCopy, CopyOK
  <2>8. CopyOK(backup)' /\ CopyOK(io)'
    BY <2>1, <2>4, <2>7 DEF CopyOK
  <2> QED
    BY <2>1, <2>7, <2>8 DEF StatsInv, Taken
<1>14. CASE WriteOutside
  <2>1. /\ disk' = Written(Foreign)
        /\ raced' = (raced \/ saving.phase \in {"writing", "written"})
        /\ saving' = saving /\ UNCHANGED <<lastStat, known, backup, io>>
    BY <1>14 DEF WriteOutside, Writing
  <2> QED
    BY <2>1, StatsAged DEF StatsInv
<1>15. CASE Crash
  <2>1. disk' = disk \/ disk' = Written(Foreign)
    BY <1>15 DEF Crash, CrashedFile
  <2>2. \/ backup' = backup
        \/ io # Idle /\ backup' \in CutOff(Foreign + 1) \cup {AfterIo}
    BY <1>15 DEF Crash, CrashedBackup
  <2>3. /\ saving'.phase = "none" /\ IsSave(saving') /\ io' = Idle
        /\ raced' = (raced /\ backup' # NoBackup)
    BY <1>15 DEF Crash, NoSave, IsSave
  <2>4. \/ /\ backup' = NoBackup /\ lastStat' = disk'
           /\ known' = {disk'.text}
        \/ /\ backup' # NoBackup
           /\ lastStat' = backup'.stat /\ known' = backup'.known
    BY <1>15 DEF Crash, StatOf
  <2>5. disk'.mtime \in Nat
    BY <2>1 DEF StatsInv, Written
  <2>6. backup' = NoBackup \/ (IsCopy(backup') /\ CopyOK(backup'))
    BY <2>2, LeftOfTheBackup DEF StatsInv, IsCopy
  <2>7. \A stat, kn :
           Taken(stat, kn, disk, raced) => Taken(stat, kn, disk', raced)
    BY <2>1 DEF Taken, StatsInv, Written
  <2>8. CASE backup' = NoBackup
    <3>1. Taken(lastStat', known', disk', raced')
      BY <2>4, <2>5, <2>8 DEF Taken
    <3>2. ~IsCopy(backup') /\ ~IsCopy(io')
      BY <2>3, <2>8 DEF IsCopy
    <3>3. CopyOK(backup)' /\ CopyOK(io)'
      BY <3>2 DEF CopyOK
    <3> QED
      BY <2>3, <2>5, <2>8, <3>1, <3>3, BackupKinds DEF StatsInv
  <2>9. CASE backup' # NoBackup
    <3>1. /\ {"kind", "text", "stat", "known"} \subseteq DOMAIN backup'
          /\ backup'.kind = "copy" /\ IsCopy(backup')
          /\ Taken(backup'.stat, backup'.known, disk', raced)
      BY <2>6, <2>7, <2>9 DEF CopyOK
    <3>2. raced' = raced
      BY <2>3, <2>9 DEF StatsInv
    <3>3. ~IsCopy(io')
      BY <2>3 DEF IsCopy
    <3>4. CopyOK(backup)' /\ CopyOK(io)'
      BY <3>1, <3>2, <3>3 DEF CopyOK
    <3>5. Taken(lastStat', known', disk', raced')
      BY <2>4, <2>9, <3>1, <3>2
    <3> QED
      BY <2>3, <2>5, <3>1, <3>2, <3>4, <3>5, BackupKinds
      DEF StatsInv, IsCopy
  <2> QED
    BY <2>8, <2>9
<1> QED
  BY <1>1, <1>2, <1>3, <1>4, <1>5, <1>6, <1>7, <1>8, <1>9, <1>10, <1>11,
     <1>12, <1>13, <1>14, <1>15
  DEF Next, Saves

\* At the beginning the model has the stat of the file, and knows its text.
LEMMA StatsInit == ASSUME Init PROVE StatsInv
<1>1. disk.mtime \in Nat /\ Taken(lastStat, known, disk, raced)
  BY DEF Init, Taken
<1>2. IsSave(saving) /\ saving.phase = "none"
  BY DEF Init, NoSave, IsSave
<1>3. backup = NoBackup /\ io = Idle /\ raced \in BOOLEAN
  BY DEF Init
<1> QED
  BY <1>1, <1>2, <1>3, BackupKinds DEF StatsInv, IsCopy, CopyOK

\* A save replaces only a text that was known, unless the user wants to
\* overwrite the file, for any writes of other programs, any failures and any
\* crashes with and without a backup.
THEOREM OnlyTheKnownIsOverwritten == Spec => OverwritesOnlyTheKnown
<1>1. Init => StatsInv
  BY StatsInit
<1>2. StatsInv /\ [Next]_vars => StatsInv'
  BY StatsNext
<1>3. StatsInv =>
        [saving.phase = "writing" /\ saving'.phase = "written"
           => \/ saving.overwrite \/ raced
              \/ disk.text \in known \cup {saving.text}]_vars
  BY DEF StatsInv
<1> QED
  BY <1>1, <1>2, <1>3, PTL DEF Spec, OverwritesOnlyTheKnown

-----------------------------------------------------------------------------
(* What is replaced                                                        *)

Entry == [text : Int, alt : Nat \ {0}]

Entries(stack) == {stack[i] : i \in 1 .. Len(stack)}

\* The texts the editor has or can go to.
Shown == {buffer} \cup Entries(undoStack) \cup Entries(redoStack)

TextsOK ==
    /\ changes \in Nat /\ mishaps \in Nat /\ disk.text \in Int
    /\ IsCopy(backup) => backup.text \in Int
    /\ IsCopy(io) => io.text \in Int

\* A version id stands for one text, and ids are given out in order.
ShownOK ==
    /\ versionId \in Nat
    /\ buffer \in Entry
    /\ undoStack \in Seq(Entry) /\ redoStack \in Seq(Entry)
    /\ \A e \in Shown : e.alt <= versionId
    /\ \A e, f \in Shown : e.alt = f.alt => e.text = f.text

\* A save of the current version is writing the text there is.
SavingOK ==
    saving.phase \in {"writing", "written"} =>
        /\ saving.text \in Int
        /\ saving.id \in Nat /\ saving.id <= versionId
        /\ saving.id = versionId => buffer.text = saving.text

\* A reload that is not too late would replace a known text.
ReloadOK ==
    reload.active =>
        /\ reload.version \in Nat /\ reload.version <= versionId
        /\ reload.version = versionId /\ astray = {}
              => buffer.text \in known

\* The version that was saved last has a known text, and so has the model
\* when it is not dirty.
SavedOK ==
    revert = NoRevert /\ astray = {} =>
        /\ savedAlt \in Nat /\ savedAlt <= versionId
        /\ \A e \in Shown : e.alt = savedAlt => e.text \in known
        /\ ~dirty => buffer.text \in known

EditsInv == TextsOK /\ ShownOK /\ SavingOK /\ ReloadOK /\ SavedOK

\* A stack with one more entry.
LEMMA Pushed ==
    ASSUME NEW stack \in Seq(Entry), NEW e \in Entry
    PROVE  /\ Append(stack, e) \in Seq(Entry)
           /\ Entries(Append(stack, e)) = Entries(stack) \cup {e}
<1> DEFINE more == Append(stack, e)
<1>1. /\ more \in Seq(Entry) /\ Len(more) = Len(stack) + 1
      /\ Len(stack) \in Nat /\ more[Len(stack) + 1] = e
      /\ \A i \in 1 .. Len(stack) : more[i] = stack[i]
  OBVIOUS
<1> HIDE DEF more
<1>2. \A i \in 1 .. Len(more) :
         i \in 1 .. Len(stack) \/ i = Len(stack) + 1
  BY <1>1
<1>3. /\ \A i \in 1 .. Len(stack) : i \in 1 .. Len(more)
      /\ Len(stack) + 1 \in 1 .. Len(more)
  BY <1>1
<1>4. Entries(more) = Entries(stack) \cup {e}
  BY <1>1, <1>2, <1>3 DEF Entries
<1> QED
  BY <1>1, <1>4 DEF more

\* A stack without its last entry.
LEMMA Popped ==
    ASSUME NEW stack \in Seq(Entry), stack # <<>>
    PROVE  /\ Front(stack) \in Seq(Entry)
           /\ Entries(Front(stack)) \subseteq Entries(stack)
           /\ Last(stack) \in Entries(stack)
<1> DEFINE n == Len(stack) - 1
           less == SubSeq(stack, 1, n)
<1>1. n \in Nat /\ Len(stack) = n + 1
  OBVIOUS
<1>2. Front(stack) = less /\ Last(stack) = stack[n + 1]
  BY <1>1 DEF Front, Last
<1>3. \A i \in 1 .. n : stack[i] \in Entry
  BY <1>1, ElementOfSeq
<1> HIDE DEF n
<1>4. /\ less \in Seq(Entry)
      /\ Len(less) = IF 1 <= n THEN n - 1 + 1 ELSE 0
      /\ \A i \in 1 .. n - 1 + 1 : less[i] = stack[1 + i - 1]
  BY <1>1, <1>3, SubSeqProperties
<1>5. Len(less) = n /\ \A i \in 1 .. n : less[i] = stack[i]
  <2>1. n - 1 + 1 = n /\ (1 <= n \/ n = 0)
    BY <1>1
  <2>2. \A i \in 1 .. n : stack[1 + i - 1] = stack[i]
    OBVIOUS
  <2> QED
    BY <1>4, <2>1, <2>2
<1>6. \A i \in 1 .. n : i \in 1 .. Len(stack)
  BY <1>1
<1>7. n + 1 \in 1 .. Len(stack)
  BY <1>1
<1> QED
  BY <1>2, <1>4, <1>5, <1>6, <1>7 DEF Entries

\* A stack has entries, and an empty one has none.
LEMMA EntriesOfStack ==
    /\ \A stack \in Seq(Entry) : Entries(stack) \subseteq Entry
    /\ <<>> \in Seq(Entry) /\ Entries(<<>>) = {}
<1>1. \A stack \in Seq(Entry) : Entries(stack) \subseteq Entry
  BY ElementOfSeq DEF Entries
<1>2. <<>> \in Seq(Entry) /\ Len(<<>>) = 0
  BY EmptySeq
<1> QED
  BY <1>1, <1>2 DEF Entries

\* What can be shown has a version id that was given out.
LEMMA ShownIds ==
    ASSUME ShownOK
    PROVE  \A e \in Shown : e \in Entry /\ e.alt \in Nat /\ e.alt <= versionId
<1>1. Shown \subseteq Entry
  BY EntriesOfStack DEF Shown, ShownOK
<1> QED
  BY <1>1 DEF ShownOK, Entry

\* A new text is shown, with the next version id.
LEMMA ShownAnew ==
    ASSUME ShownOK, NEW t \in Int, versionId' = versionId + 1,
           undoStack' = Append(undoStack, buffer), redoStack' = <<>>,
           buffer' = [text |-> t, alt |-> versionId']
    PROVE  /\ ShownOK' /\ Shown' \subseteq Shown \cup {buffer'}
           /\ buffer'.text = t /\ buffer'.alt = versionId + 1
<1>1. /\ undoStack' \in Seq(Entry)
      /\ Entries(undoStack') = Entries(undoStack) \cup {buffer}
  BY Pushed DEF ShownOK
<1>2. redoStack' \in Seq(Entry) /\ Entries(redoStack') = {}
  BY EntriesOfStack
<1>3. /\ versionId \in Nat /\ versionId' \in Nat
      /\ buffer'.text = t /\ buffer'.alt = versionId + 1
  BY DEF ShownOK
<1>4. buffer' \in Entry
  BY <1>3 DEF Entry
<1>5. Shown' \subseteq Shown \cup {buffer'}
  BY <1>1, <1>2 DEF Shown
<1>6. \A e \in Shown : e.alt <= versionId' /\ e.alt # buffer'.alt
  BY <1>3, ShownIds
<1>7. \A e \in Shown' : e.alt <= versionId'
  BY <1>3, <1>5, <1>6
<1>8. \A e, f \in Shown' : e.alt = f.alt => e.text = f.text
  BY <1>5, <1>6 DEF ShownOK
<1> QED
  BY <1>1, <1>2, <1>3, <1>4, <1>5, <1>7, <1>8 DEF ShownOK

\* A text that there was is shown again.
LEMMA ShownAgain ==
    ASSUME ShownOK, Undo \/ Redo PROVE ShownOK' /\ Shown' \subseteq Shown
<1>1. /\ undoStack \in Seq(Entry) /\ redoStack \in Seq(Entry)
      /\ buffer \in Entry /\ versionId \in Nat /\ versionId' = versionId + 1
  BY DEF ShownOK, Undo, Redo, GoTo
<1>2. /\ undoStack' \in Seq(Entry) /\ redoStack' \in Seq(Entry)
      /\ Shown' \subseteq Shown
  <2>1. CASE Undo
    <3>1. /\ undoStack # <<>> /\ undoStack' = Front(undoStack)
          /\ redoStack' = Append(redoStack, buffer)
          /\ buffer' = Last(undoStack)
      BY <2>1 DEF Undo, GoTo
    <3>2. /\ undoStack' \in Seq(Entry)
          /\ Entries(undoStack') \subseteq Entries(undoStack)
          /\ buffer' \in Entries(undoStack)
      BY <1>1, <3>1, Popped
    <3>3. /\ redoStack' \in Seq(Entry)
          /\ Entries(redoStack') = Entries(redoStack) \cup {buffer}
      BY <1>1, <3>1, Pushed
    <3> QED
      BY <3>2, <3>3 DEF Shown
  <2>2. CASE Redo
    <3>1. /\ redoStack # <<>> /\ redoStack' = Front(redoStack)
          /\ undoStack' = Append(undoStack, buffer)
          /\ buffer' = Last(redoStack)
      BY <2>2 DEF Redo, GoTo
    <3>2. /\ redoStack' \in Seq(Entry)
          /\ Entries(redoStack') \subseteq Entries(redoStack)
          /\ buffer' \in Entries(redoStack)
      BY <1>1, <3>1, Popped
    <3>3. /\ undoStack' \in Seq(Entry)
          /\ Entries(undoStack') = Entries(undoStack) \cup {buffer}
      BY <1>1, <3>1, Pushed
    <3> QED
      BY <3>2, <3>3 DEF Shown
  <2> QED
    BY <2>1, <2>2
<1>3. buffer' \in Entry
  BY <1>2, ShownIds DEF Shown
<1>4. versionId' \in Nat /\ \A e \in Shown' : e.alt <= versionId'
  BY <1>1, <1>2, ShownIds
<1>5. \A e, f \in Shown' : e.alt = f.alt => e.text = f.text
  BY <1>2 DEF ShownOK
<1> QED
  BY <1>2, <1>3, <1>4, <1>5 DEF ShownOK

\* Steps that leave the text alone, and know no fewer.
LEMMA EditsKept ==
    ASSUME EditsInv, TextsOK', UNCHANGED textVars,
           known \subseteq known', astray \subseteq astray',
           \/ saving' = saving
           \/ saving'.phase \notin {"writing", "written"},
           reload' = reload \/ reload' = NoReload,
           \/ revert' # NoRevert \/ astray' # {}
           \/ revert' = revert /\ savedAlt' = savedAlt
              /\ (dirty' \/ dirty' = dirty)
    PROVE  EditsInv'
<1> USE DEF textVars
<1>1. ShownOK' /\ Shown' = Shown
  BY DEF EditsInv, ShownOK, Shown
<1>2. SavingOK'
  BY DEF EditsInv, SavingOK
<1>3. astray' = {} => astray = {}
  OBVIOUS
<1>4. ReloadOK'
  BY <1>3 DEF EditsInv, ReloadOK, NoReload
<1>5. SavedOK'
  BY <1>1, <1>3 DEF EditsInv, SavedOK
<1> QED
  BY <1>1, <1>2, <1>4, <1>5 DEF EditsInv

\* Reading the file makes its text the saved one.
LEMMA EditsRead ==
    ASSUME EditsInv, TextsOK', Load, saving' = saving,
           reload' = reload \/ reload' = NoReload
    PROVE  EditsInv'
<1>1. /\ known' = known \cup {disk.text} /\ savedAlt' = buffer'.alt
      /\ dirty' = FALSE /\ disk.text \in Int /\ astray \subseteq astray'
  BY DEF Load, EditsInv, TextsOK
<1>2. /\ ShownOK' /\ buffer'.text = disk.text
      /\ \/ versionId' = versionId /\ buffer' = buffer
         \/ versionId' = versionId + 1
  <2>1. CASE disk.text = buffer.text /\ UNCHANGED textVars
    BY <2>1 DEF textVars, EditsInv, ShownOK, Shown
  <2>2. CASE /\ versionId' = versionId + 1
             /\ undoStack' = Append(undoStack, buffer)
             /\ redoStack' = <<>>
             /\ buffer' = [text |-> disk.text, alt |-> versionId']
    BY <1>1, <2>2, ShownAnew DEF EditsInv
  <2> QED
    BY <2>1, <2>2 DEF Load
<1>3. versionId \in Nat /\ buffer' \in Shown' /\ buffer' \in Entry
      /\ buffer'.alt <= versionId'
  BY <1>2 DEF EditsInv, ShownOK, Shown
<1>4. SavingOK'
  BY <1>2, <1>3 DEF EditsInv, SavingOK
<1>5. ReloadOK'
  BY <1>1, <1>2, <1>3 DEF EditsInv, ReloadOK, NoReload
<1>6. \A e \in Shown' : e.alt = savedAlt' => e.text \in known'
  BY <1>1, <1>2, <1>3 DEF ShownOK
<1>7. SavedOK'
  BY <1>1, <1>2, <1>3, <1>6 DEF SavedOK, Entry
<1> QED
  BY <1>2, <1>4, <1>5, <1>7 DEF EditsInv

\* Every text is a number.
LEMMA TextsNext ==
    ASSUME StatsInv, EditsInv, [Next]_vars PROVE TextsOK'
<1> USE DEF textVars, flags, saveVars, readVars, fileVars, backupVars, bounds,
            history
<1>1. ASSUME disk' = disk, backup' = backup, io' = io,
             changes' \in {changes, changes + 1},
             mishaps' \in {mishaps, mishaps + 1}
      PROVE  TextsOK'
  BY <1>1 DEF EditsInv, TextsOK, IsCopy, NoBackup, Idle, Removal
<1>2. CASE UNCHANGED vars
  BY <1>1, <1>2 DEF vars
<1>3. CASE Type \/ Undo \/ Redo \/ Revert
  BY <1>1, <1>3 DEF Type, Undo, Redo, GoTo, Revert
<1>4. ASSUME NEW request \in Requests, Save(request)
      PROVE  TextsOK'
  BY <1>1, <1>4 DEF Save
<1>5. CASE DelayEnds \/ GiveUp \/ ParticipantsEnd \/ SaveSucceeds
  BY <1>1, <1>5 DEF DelayEnds, GiveUp, ParticipantsEnd, SaveSucceeds, SaveFails
<1>6. CASE FileChanged \/ ReloadStarts \/ ReloadEnds \/ ReloadFails
  BY <1>1, <1>6 DEF FileChanged, ReloadStarts, ReloadEnds, ReloadFails
<1>7. CASE RevertStarts \/ RevertEnds \/ RevertFails
  BY <1>1, <1>7 DEF RevertStarts, RevertEnds, RevertFails
<1>8. mishaps' \in Nat => Foreign \in Int /\ Foreign + 1 \in Int
  BY DEF Foreign
<1>9. CASE WriteFile \/ WriteFails \/ WriteOutside
  <2>1. /\ mishaps' \in {mishaps, mishaps + 1}
        /\ changes' = changes /\ backup' = backup /\ io' = io
    BY <1>9 DEF WriteFile, WriteFails, WriteOutside, SaveFails
  <2>2. \/ disk' = disk
        \/ disk' = Written(saving.text) /\ saving.phase = "writing"
        \/ disk' = Written(Foreign)
    BY <1>9 DEF WriteFile, WriteFails, WriteOutside
  <2>3. mishaps' \in Nat
    BY <2>1 DEF EditsInv, TextsOK
  <2>4. disk'.text \in Int
    BY <1>8, <2>2, <2>3 DEF Written, EditsInv, TextsOK, SavingOK
  <2> QED
    BY <2>1, <2>4 DEF EditsInv, TextsOK, IsCopy, NoBackup, Idle, Removal
<1>10. ASSUME NEW t \in Int, io # Idle, NEW b \in CutOff(t) \cup {AfterIo},
              IsCopy(b)
       PROVE  b.text \in Int
  <2>1. IsCopy(io) => io.text \in Int
    BY DEF EditsInv, TextsOK
  <2>2. ~IsCopy(NoBackup) /\ (IsCopy(backup) => backup.text \in Int)
    BY DEF IsCopy, EditsInv, TextsOK
  <2> QED
    BY <1>10, <2>1, <2>2, LeftOfTheBackup
<1>11. CASE BackupStarts
  <2>1. /\ UNCHANGED <<disk, backup, changes, mishaps>>
        /\ io' = io \/ io' = Removal \/ io' = Copy
    BY <1>11 DEF BackupStarts
  <2>2. Copy.text = buffer.text /\ buffer.text \in Int
    BY DEF Copy, EditsInv, ShownOK, Entry
  <2> QED
    BY <2>1, <2>2 DEF EditsInv, TextsOK, IsCopy, NoBackup, Idle, Removal
<1>12. CASE BackupEnds \/ BackupFails
  <2>1. /\ disk' = disk /\ changes' = changes
        /\ mishaps' \in {mishaps, mishaps + 1}
        /\ io' = Idle /\ io # Idle
        /\ backup' \in CutOff(Foreign) \cup {AfterIo}
    BY <1>12 DEF BackupEnds, BackupFails
  <2>2. mishaps' \in Nat
    BY <2>1 DEF EditsInv, TextsOK
  <2>3. IsCopy(backup') => backup'.text \in Int
    BY <1>8, <1>10, <2>1, <2>2
  <2>4. ~IsCopy(io')
    BY <2>1 DEF IsCopy
  <2> QED
    BY <2>1, <2>2, <2>3, <2>4 DEF EditsInv, TextsOK, IsCopy
<1>13. CASE Crash
  <2>1. /\ mishaps' = mishaps + 1 /\ io' = Idle /\ changes' = changes
        /\ disk' = disk \/ disk' = Written(Foreign)
        /\ \/ backup' = backup
           \/ io # Idle /\ backup' \in CutOff(Foreign + 1) \cup {AfterIo}
    BY <1>13 DEF Crash, CrashedFile, CrashedBackup
  <2>2. mishaps' \in Nat
    BY <2>1 DEF EditsInv, TextsOK
  <2>3. disk'.text \in Int
    BY <1>8, <2>1, <2>2 DEF Written, EditsInv, TextsOK
  <2>4. IsCopy(backup') => backup'.text \in Int
    <3>1. CASE backup' = backup
      BY <3>1 DEF EditsInv, TextsOK, IsCopy
    <3>2. CASE backup' # backup
      BY <1>8, <1>10, <2>1, <2>2, <3>2
    <3> QED
      BY <3>1, <3>2
  <2>5. ~IsCopy(io')
    BY <2>1 DEF IsCopy
  <2> QED
    BY <2>1, <2>2, <2>3, <2>4, <2>5 DEF EditsInv, TextsOK, IsCopy
<1> QED
  BY <1>2, <1>3, <1>4, <1>5, <1>6, <1>7, <1>9, <1>11, <1>12, <1>13
  DEF Next, Saves

\* A new text of the user's own, which is dirty.
LEMMA EditsTyped ==
    ASSUME EditsInv, TextsOK', Type PROVE EditsInv'
<1> USE DEF saveVars, readVars, history
<1>1. /\ versionId' = versionId + 1
      /\ buffer' = [text |-> changes' + 1, alt |-> versionId']
      /\ undoStack' = Append(undoStack, buffer) /\ redoStack' = <<>>
      /\ dirty' = TRUE /\ UNCHANGED <<savedAlt, saving, reload, revert>>
      /\ UNCHANGED <<known, astray>>
  BY DEF Type
<1>2. changes' + 1 \in Int /\ versionId \in Nat
  BY DEF TextsOK, EditsInv, ShownOK
<1>3. /\ ShownOK' /\ Shown' \subseteq Shown \cup {buffer'}
      /\ buffer'.alt = versionId + 1
  <2>1. ShownOK
    BY DEF EditsInv
  <2> HIDE DEF saveVars, readVars, history
  <2> QED
    BY <1>1, <1>2, <2>1, ShownAnew
<1>4. SavingOK'
  BY <1>1, <1>2 DEF EditsInv, SavingOK
<1>5. ReloadOK'
  BY <1>1, <1>2 DEF EditsInv, ReloadOK
<1>6. SavedOK'
  BY <1>1, <1>2, <1>3 DEF EditsInv, SavedOK
<1> QED
  BY <1>3, <1>4, <1>5, <1>6 DEF EditsInv

\* A text shown again, which is known when its version is the saved one.
LEMMA EditsUndone ==
    ASSUME EditsInv, TextsOK', Undo \/ Redo PROVE EditsInv'
<1> USE DEF saveVars, readVars, flags
<1>1. /\ versionId' = versionId + 1
      /\ savedAlt' = savedAlt /\ UNCHANGED <<saving, reload, revert>>
      /\ known' = known /\ astray \subseteq astray'
      /\ ~dirty' => buffer'.alt = savedAlt
  BY DEF Undo, Redo, GoTo, MarkSaved
<1>2. versionId \in Nat
  BY DEF EditsInv, ShownOK
<1>3. ShownOK' /\ Shown' \subseteq Shown
  BY ShownAgain DEF EditsInv
<1>4. SavingOK'
  BY <1>1, <1>2 DEF EditsInv, SavingOK
<1>5. ReloadOK'
  BY <1>1, <1>2 DEF EditsInv, ReloadOK
<1>6. buffer' \in Shown'
  BY DEF Shown
<1>7. SavedOK'
  BY <1>1, <1>2, <1>3, <1>6 DEF EditsInv, SavedOK
<1> QED
  BY <1>3, <1>4, <1>5, <1>7 DEF EditsInv

\* The text there is now is to be written.
LEMMA EditsWritten ==
    ASSUME EditsInv, TextsOK', ParticipantsEnd, ~Conflicts(buffer.text)
    PROVE  EditsInv'
<1> USE DEF textVars, readVars, history
<1>1. /\ UNCHANGED textVars /\ UNCHANGED <<dirty, savedAlt, reload, revert>>
      /\ UNCHANGED <<known, astray>>
      /\ saving' = [phase |-> "writing", id |-> versionId,
                    text |-> buffer.text, overwrite |-> saving.overwrite]
  BY DEF ParticipantsEnd
<1>2. ShownOK' /\ Shown' = Shown
  BY <1>1 DEF EditsInv, ShownOK, Shown
<1>3. SavingOK'
  <2>1. saving'.text = buffer.text /\ saving'.id = versionId
    BY <1>1
  <2> QED
    BY <1>1, <2>1 DEF EditsInv, SavingOK, ShownOK, Entry
<1>4. ReloadOK' /\ SavedOK'
  BY <1>1, <1>2 DEF EditsInv, ReloadOK, SavedOK
<1> QED
  BY <1>2, <1>3, <1>4 DEF EditsInv

\* The text that was written is known, and is the one shown when the version
\* is still the same.
LEMMA EditsSaved ==
    ASSUME EditsInv, TextsOK', SaveSucceeds PROVE EditsInv'
<1> USE DEF textVars, readVars, flags
<1>1. /\ UNCHANGED textVars /\ UNCHANGED <<reload, revert, astray>>
      /\ saving.phase = "written" /\ known' = known \cup {saving.text}
      /\ saving'.phase \notin {"writing", "written"}
  <2>1. SaveOver
    BY DEF SaveSucceeds
  <2> QED
    BY <2>1, NothingWritten DEF SaveSucceeds
<1>2. \/ SameVersion /\ dirty' = FALSE /\ savedAlt' = buffer.alt
      \/ dirty' = dirty /\ savedAlt' = savedAlt
  BY DEF SaveSucceeds, MarkSaved
<1>3. ShownOK' /\ Shown' = Shown /\ buffer \in Shown /\ buffer \in Entry
  BY <1>1 DEF EditsInv, ShownOK, Shown
<1>4. SavingOK' /\ ReloadOK'
  BY <1>1 DEF EditsInv, SavingOK, ReloadOK
<1>5. SavedOK'
  <2>1. CASE SameVersion /\ dirty' = FALSE /\ savedAlt' = buffer.alt
    <3>1. buffer.text \in known'
      BY <1>1, <2>1 DEF SameVersion, EditsInv, SavingOK
    <3>2. \A e \in Shown' : e.alt = savedAlt' => e.text \in known'
      BY <1>3, <2>1, <3>1 DEF EditsInv, ShownOK
    <3> QED
      BY <1>1, <1>3, <2>1, <3>1, <3>2 DEF SavedOK, ShownOK, Entry
  <2>2. CASE dirty' = dirty /\ savedAlt' = savedAlt
    BY <1>1, <1>3, <2>2 DEF EditsInv, SavedOK
  <2> QED
    BY <1>2, <2>1, <2>2
<1> QED
  BY <1>3, <1>4, <1>5 DEF EditsInv

\* A reload begins with a text that is not dirty, so with a known one.
LEMMA EditsToReload ==
    ASSUME EditsInv, TextsOK', ReloadStarts PROVE EditsInv'
<1> USE DEF textVars, flags, saveVars, history
<1>1. /\ UNCHANGED textVars /\ UNCHANGED <<saving, dirty, savedAlt, revert>>
      /\ UNCHANGED <<known, astray>> /\ revert = NoRevert
      /\ \/ reload' = reload
         \/ ~dirty /\ reload'.version = versionId
  BY DEF ReloadStarts
<1>2. ShownOK' /\ Shown' = Shown
  BY <1>1 DEF EditsInv, ShownOK, Shown
<1>3. SavingOK' /\ SavedOK'
  BY <1>1, <1>2 DEF EditsInv, SavingOK, SavedOK
<1>4. ReloadOK'
  BY <1>1 DEF EditsInv, ReloadOK, SavedOK, ShownOK
<1> QED
  BY <1>2, <1>3, <1>4 DEF EditsInv

\* What the model begins with after a crash: the file's text, or a text of
\* the backup that no version id was saved for.
LEMMA EditsRestored ==
    ASSUME EditsInv, TextsOK', Crash, StatsInv' PROVE EditsInv'
<1>1. versionId \in Nat /\ versionId' = versionId + 1
  BY DEF EditsInv, ShownOK, Crash
<1>2. \/ /\ buffer' = [text |-> disk'.text, alt |-> versionId']
         /\ savedAlt' = versionId' /\ known' = {disk'.text}
      \/ /\ backup' # NoBackup /\ dirty' = TRUE /\ savedAlt' = 0
         /\ buffer' = [text |-> backup'.text, alt |-> versionId']
  BY DEF Crash
<1>3. /\ buffer'.text \in Int /\ buffer'.alt = versionId + 1
      /\ buffer' \in Entry
  <2>1. disk'.text \in Int
    BY DEF TextsOK
  <2>2. backup' # NoBackup => backup'.text \in Int
    BY DEF TextsOK, StatsInv, IsCopy
  <2>3. PICK t \in Int : buffer' = [text |-> t, alt |-> versionId']
    BY <1>2, <2>1, <2>2
  <2> QED
    BY <1>1, <2>3 DEF Entry
<1>4. /\ undoStack' \in Seq(Entry) /\ Entries(undoStack') = {}
      /\ redoStack' \in Seq(Entry) /\ Entries(redoStack') = {}
  BY EntriesOfStack DEF Crash
<1>5. Shown' = {buffer'}
  BY <1>4 DEF Shown
<1>6. ShownOK'
  BY <1>1, <1>3, <1>4, <1>5 DEF ShownOK
<1>7. SavingOK' /\ ReloadOK'
  BY DEF Crash, SavingOK, ReloadOK, NoSave, NoReload
<1>8. SavedOK'
  BY <1>1, <1>2, <1>3, <1>5 DEF SavedOK
<1> QED
  BY <1>6, <1>7, <1>8 DEF EditsInv

\* A revert goes on to read the file, or leaves a trace.
LEMMA RevertLeavesATrace ==
    ASSUME Revert \/ RevertStarts
    PROVE  (revert' # NoRevert \/ astray' # {}) /\ astray \subseteq astray'
<1>1. ASSUME NEW was, NEW now, RevertReads(was, now) \/ NothingRead(was, now)
      PROVE  (revert' # NoRevert \/ astray' # {}) /\ astray \subseteq astray'
  BY <1>1 DEF RevertReads, NothingRead, NoRevert
<1>2. CASE Revert
  <2>1. CASE \E was : RevertReads(was, FALSE) \/ NothingRead(was, FALSE)
    BY <1>1, <2>1
  <2>2. CASE /\ astray' = astray
             /\ \E was : revert' = [phase |-> "waiting", was |-> was]
    BY <2>2 DEF NoRevert
  <2> QED
    BY <1>2, <2>1, <2>2 DEF Revert
<1>3. CASE RevertStarts
  BY <1>1, <1>3 DEF RevertStarts
<1> QED
  BY <1>2, <1>3

\* Every step keeps EditsInv: the texts, the version ids and what is known.
LEMMA EditsNext ==
    ASSUME StatsInv, EditsInv, [Next]_vars PROVE EditsInv'
<1> USE DEF textVars, flags, saveVars, readVars, fileVars, backupVars, bounds,
            history
<1>1. TextsOK' /\ StatsInv'
  BY TextsNext, StatsNext
<1>2. ASSUME UNCHANGED textVars, known \subseteq known',
             astray \subseteq astray', saving' = saving,
             reload' = reload \/ reload' = NoReload,
             \/ revert' # NoRevert \/ astray' # {}
             \/ UNCHANGED <<revert, savedAlt, dirty>>
      PROVE  EditsInv'
  BY <1>1, <1>2, EditsKept
<1>3. CASE UNCHANGED vars
  BY <1>2, <1>3 DEF vars
<1>4. CASE Type
  BY <1>1, <1>4, EditsTyped
<1>5. CASE Undo \/ Redo
  BY <1>1, <1>5, EditsUndone
<1>6. ASSUME NEW request \in Requests, Save(request)
      PROVE  EditsInv'
  <2>1. /\ UNCHANGED <<textVars, known, astray, reload, revert>>
        /\ UNCHANGED <<savedAlt, dirty>>
    BY <1>6 DEF Save
  <2>2. \/ saving' = saving
        \/ saving'.phase \notin {"writing", "written"}
    BY <1>6, NothingWrittenYet DEF StatsInv
  <2> QED
    BY <1>1, <2>1, <2>2, EditsKept
<1>7. CASE DelayEnds \/ GiveUp
  <2>1. /\ UNCHANGED <<textVars, known, astray, reload, revert>>
        /\ UNCHANGED <<savedAlt, dirty>>
    BY <1>7 DEF DelayEnds, GiveUp
  <2>2. saving'.phase \notin {"writing", "written"}
    <3>1. CASE SaveOver
      BY <3>1, NothingWritten
    <3>2. CASE saving' = [saving EXCEPT !.phase = "participants"]
      BY <3>2 DEF StatsInv, IsSave
    <3> QED
      BY <1>7, <3>1, <3>2 DEF DelayEnds, GiveUp
  <2> QED
    BY <1>1, <2>1, <2>2, EditsKept
<1>8. ASSUME NEW conflict \in BOOLEAN, SaveFails(conflict) PROVE EditsInv'
  <2>1. /\ UNCHANGED <<textVars, known, astray, reload, revert>>
        /\ savedAlt' = savedAlt /\ dirty' = TRUE
    BY <1>8 DEF SaveFails
  <2>2. saving'.phase \notin {"writing", "written"}
    BY <1>8, NothingWritten DEF SaveFails
  <2> QED
    BY <1>1, <2>1, <2>2, EditsKept
<1>9. CASE ParticipantsEnd
  <2>1. CASE Conflicts(buffer.text)
    BY <1>8, <1>9, <2>1 DEF ParticipantsEnd
  <2>2. CASE ~Conflicts(buffer.text)
    BY <1>1, <1>9, <2>2, EditsWritten
  <2> QED
    BY <2>1, <2>2
<1>10. CASE WriteFails
  BY <1>8, <1>10 DEF WriteFails
<1>11. CASE WriteFile
  <2>1. /\ UNCHANGED textVars /\ UNCHANGED <<known, astray, reload>>
        /\ UNCHANGED <<revert, savedAlt, dirty>>
        /\ saving.phase = "writing"
        /\ saving' = [saving EXCEPT !.phase = "written"]
    BY <1>11 DEF WriteFile
  <2>2. saving'.text = saving.text /\ saving'.id = saving.id
    BY <2>1 DEF StatsInv, IsSave
  <2>3. SavingOK'
    BY <2>1, <2>2 DEF EditsInv, SavingOK
  <2>4. ShownOK' /\ ReloadOK' /\ SavedOK'
    BY <2>1 DEF EditsInv, ShownOK, Shown, ReloadOK, SavedOK
  <2> QED
    BY <1>1, <2>3, <2>4 DEF EditsInv
<1>12. CASE SaveSucceeds
  BY <1>1, <1>12, EditsSaved
<1>13. CASE \/ FileChanged \/ ReloadFails
            \/ BackupStarts \/ BackupEnds \/ BackupFails
  BY <1>2, <1>13 DEF FileChanged, ReloadFails, BackupStarts, BackupEnds,
                     BackupFails
<1>14. CASE WriteOutside
  BY <1>2, <1>14 DEF WriteOutside
<1>15. CASE ReloadStarts
  BY <1>1, <1>15, EditsToReload
<1>16. CASE ReloadEnds
  <2>1. CASE Load
    <3>1. saving' = saving /\ reload' = NoReload
      BY <1>16 DEF ReloadEnds
    <3> QED
      BY <1>1, <2>1, <3>1, EditsRead
  <2>2. CASE KeepsAll /\ astray' = astray
    BY <1>2, <1>16, <2>2 DEF ReloadEnds, KeepsAll
  <2> QED
    BY <1>16, <2>1, <2>2 DEF ReloadEnds
<1>17. CASE Revert
  BY <1>2, <1>17, RevertLeavesATrace DEF Revert
<1>18. CASE RevertStarts
  BY <1>2, <1>18, RevertLeavesATrace DEF RevertStarts
<1>19. CASE RevertEnds
  <2>1. UNCHANGED <<saving, reload>>
    BY <1>19 DEF RevertEnds
  <2>2. CASE Load
    BY <1>1, <2>1, <2>2, EditsRead
  <2>3. CASE KeepsAll /\ astray' = astray \cup {"revert"}
    BY <1>2, <2>1, <2>3 DEF KeepsAll
  <2> QED
    BY <1>19, <2>2, <2>3 DEF RevertEnds
<1>20. CASE RevertFails
  <2>1. astray' # {}
    BY <1>20 DEF RevertFails
  <2> QED
    BY <1>2, <1>20, <2>1 DEF RevertFails
<1>21. CASE Crash
  BY <1>1, <1>21, EditsRestored
<1> QED
  BY <1>3, <1>4, <1>5, <1>6, <1>7, <1>9, <1>10, <1>11, <1>12, <1>13, <1>14,
     <1>15, <1>16, <1>17, <1>18, <1>19, <1>20, <1>21
  DEF Next, Saves

\* At the beginning the file's text is shown, and is known.
LEMMA EditsInit == ASSUME Init PROVE EditsInv
<1>1. /\ undoStack \in Seq(Entry) /\ Entries(undoStack) = {}
      /\ redoStack \in Seq(Entry) /\ Entries(redoStack) = {}
  BY EntriesOfStack DEF Init
<1>2. buffer \in Entry /\ Shown = {buffer}
  BY <1>1 DEF Init, Entry, Shown
<1>3. ShownOK
  BY <1>1, <1>2 DEF Init, ShownOK
<1>4. TextsOK
  BY BackupKinds DEF Init, TextsOK, IsCopy
<1>5. SavingOK /\ ReloadOK
  BY DEF Init, SavingOK, ReloadOK, NoSave, NoReload
<1>6. SavedOK
  BY <1>2 DEF Init, SavedOK
<1> QED
  BY <1>3, <1>4, <1>5, <1>6 DEF EditsInv

\* What was typed while the file was read again is not replaced, for any
\* edits, undos, redos and saves: only a known text is.
LEMMA ReloadsReplaceKnown ==
    ASSUME EditsInv, Next, reload.active, ~reload'.active, astray = {},
           undoStack' = Append(undoStack, buffer)
    PROVE  buffer.text \in known
<1>1. undoStack' # undoStack /\ undoStack' # <<>>
  <2>1. undoStack \in Seq(Entry) /\ buffer \in Entry
    BY DEF EditsInv, ShownOK
  <2> QED
    BY <2>1
<1>2. ~Crash
  BY <1>1 DEF Crash
<1>3. ~ReloadFails
  BY <1>1 DEF ReloadFails, textVars
<1>4. CASE ReloadEnds
  <2>1. StillAt(reload.version)
    BY <1>1, <1>4 DEF ReloadEnds, KeepsAll, textVars
  <2> QED
    BY <2>1 DEF StillAt, EditsInv, ReloadOK
<1>5. CASE reload' = reload
  BY <1>5
<1>6. ReloadStarts => reload' = reload
  BY DEF ReloadStarts
<1>7. ~Crash /\ ~ReloadFails /\ ~ReloadEnds => reload' = reload
  <2> USE DEF readVars
  <2>1. ASSUME NEW request \in Requests, Save(request)
        PROVE  reload' = reload
    BY <2>1 DEF Save
  <2>2. Type \/ Undo \/ Redo \/ Revert \/ WriteOutside => reload' = reload
    BY DEF Type, Undo, Redo, GoTo, Revert, WriteOutside
  <2>3. Saves => reload' = reload
    BY DEF Saves, DelayEnds, GiveUp, ParticipantsEnd, WriteFile, WriteFails,
           SaveSucceeds, SaveFails
  <2>4. FileChanged \/ RevertStarts \/ RevertEnds \/ RevertFails
           => reload' = reload
    BY DEF FileChanged, RevertStarts, RevertEnds, RevertFails
  <2>5. BackupStarts \/ BackupEnds \/ BackupFails => reload' = reload
    BY DEF BackupStarts, BackupEnds, BackupFails
  <2> QED
    BY <1>6, <2>1, <2>2, <2>3, <2>4, <2>5 DEF Next
<1> QED
  BY <1>2, <1>3, <1>4, <1>5, <1>7

\* Reloading a file replaces only a text that was in the file, for any edits,
\* undos, redos and saves while it is read, any writes, failures and crashes.
THEOREM ReloadsReplaceOnlyTheKnown == Spec => ReloadsKeepEdits
<1>1. Init => StatsInv /\ EditsInv
  BY StatsInit, EditsInit
<1>2. StatsInv /\ EditsInv /\ [Next]_vars => StatsInv' /\ EditsInv'
  BY StatsNext, EditsNext
<1>3. EditsInv /\ [Next]_vars =>
        [reload.active /\ ~reload'.active /\ astray = {}
           /\ undoStack' = Append(undoStack, buffer)
           => buffer.text \in known]_vars
  BY ReloadsReplaceKnown
<1> QED
  BY <1>1, <1>2, <1>3, PTL DEF Spec, ReloadsKeepEdits

-----------------------------------------------------------------------------
(* The backup                                                              *)

IsRevert(r) ==
    \/ r = NoRevert
    \/ r.phase \in {"waiting", "reading"} /\ r.was.dirty \in BOOLEAN

FlagsOK == dirty \in BOOLEAN /\ IsRevert(revert)

\* The backup there is once the service is done.
FinalBackup == IF io = Idle THEN backup ELSE AfterIo

FinalIsCurrent ==
    IF dirty THEN FinalBackup # NoBackup /\ FinalBackup.text = buffer.text
    ELSE FinalBackup = NoBackup

\* A revert of a model that was dirty tells the tracker when it is over.
TrackerIsTold ==
    "failed" \notin astray /\ (revert = NoRevert \/ ~revert.was.dirty)

\* The tracker is going to do, or has begun, what the backup lacks, unless its
\* last operation failed.
TracksInv ==
    /\ FlagsOK
    /\ operation = Idle => io = Idle
    /\ TrackerIsTold =>
          /\ operation = Scheduled => dirty
          /\ operation = Discarding => ~dirty
          /\ operation = Running => FinalIsCurrent
          /\ operation = Idle /\ ~missed => FinalIsCurrent

\* What the tracker has pending differs.
LEMMA Operations ==
    /\ Idle \notin {Scheduled, Discarding, Running}
    /\ Scheduled \notin {Discarding, Running} /\ Discarding # Running
    /\ \A r : r.phase \in {"waiting", "reading"} => r # NoRevert
BY DEF Idle, Scheduled, Discarding, Running, NoRevert

\* The tracker is told of a change of dirty, and then has something to do.
LEMMA Told ==
    ASSUME NEW changed \in BOOLEAN, NEW now \in BOOLEAN, TellIf(changed, now)
    PROVE  /\ changed => operation' = IF now THEN Scheduled ELSE Discarding
           /\ ~changed => operation' = operation
BY DEF TellIf, DirtyChanged

\* The flags keep their values, and what a revert is to restore its own.
LEMMA FlagsNext ==
    ASSUME FlagsOK, [Next]_vars PROVE FlagsOK'
<1> USE DEF textVars, flags, saveVars, readVars, fileVars, backupVars, bounds,
            history
<1>1. ASSUME revert' = revert, dirty' \in {dirty, TRUE, FALSE}
      PROVE  FlagsOK'
  BY <1>1 DEF FlagsOK
<1>2. CASE UNCHANGED vars
  BY <1>1, <1>2 DEF vars
<1>3. CASE Type \/ Undo \/ Redo \/ WriteOutside
  BY <1>1, <1>3 DEF Type, Undo, Redo, GoTo, MarkSaved, WriteOutside
<1>4. ASSUME NEW request \in Requests, Save(request)
      PROVE  FlagsOK'
  BY <1>1, <1>4 DEF Save
<1>5. CASE Saves
  BY <1>1, <1>5
  DEF Saves, DelayEnds, GiveUp, ParticipantsEnd, WriteFile, WriteFails,
      SaveSucceeds, SaveFails, MarkSaved
<1>6. CASE FileChanged \/ ReloadStarts \/ ReloadEnds \/ ReloadFails
  BY <1>1, <1>6 DEF FileChanged, ReloadStarts, ReloadEnds, ReloadFails, Load,
                    KeepsAll
<1>7. CASE BackupStarts \/ BackupEnds \/ BackupFails
  BY <1>1, <1>7 DEF BackupStarts, BackupEnds, BackupFails
<1>8. ASSUME NEW was, NEW now, was.dirty \in BOOLEAN, dirty' \in BOOLEAN,
             RevertReads(was, now) \/ NothingRead(was, now)
      PROVE  FlagsOK'
  <2>1. CASE revert' = NoRevert
    BY <1>8, <2>1 DEF FlagsOK, IsRevert
  <2>2. CASE revert' = [phase |-> "reading", version |-> versionId,
                        was |-> was]
    BY <1>8, <2>2 DEF FlagsOK, IsRevert
  <2> QED
    BY <1>8, <2>1, <2>2 DEF RevertReads, NothingRead
<1>9. CASE Revert
  <2> DEFINE was == [dirty |-> dirty, conflict |-> inConflictMode,
                     error |-> inErrorMode, alt |-> savedAlt]
  <2>1. was.dirty \in BOOLEAN /\ dirty' = FALSE
    BY <1>9 DEF Revert, FlagsOK
  <2>2. \/ revert' = [phase |-> "waiting", was |-> was]
        \/ RevertReads(was, FALSE) \/ NothingRead(was, FALSE)
    BY <1>9 DEF Revert
  <2> HIDE DEF was
  <2>3. CASE revert' = [phase |-> "waiting", was |-> was]
    BY <2>1, <2>3 DEF FlagsOK, IsRevert
  <2> QED
    BY <1>8, <2>1, <2>2, <2>3
<1>10. ASSUME revert.phase \in {"waiting", "reading"}
       PROVE  revert.was.dirty \in BOOLEAN
  BY <1>10, Operations DEF FlagsOK, IsRevert, NoRevert
<1>11. CASE RevertStarts
  <2>1. /\ dirty' = dirty /\ RevertReads(revert.was, dirty)
        /\ revert.was.dirty \in BOOLEAN /\ dirty' \in BOOLEAN
    BY <1>10, <1>11 DEF RevertStarts, FlagsOK
  <2> QED
    BY <1>8, <2>1
<1>12. CASE RevertEnds
  BY <1>12 DEF RevertEnds, Load, KeepsAll, FlagsOK, IsRevert
<1>13. CASE RevertFails
  BY <1>10, <1>13 DEF RevertFails, FlagsOK, IsRevert
<1>14. CASE Crash
  BY <1>14 DEF Crash, FlagsOK, IsRevert
<1> QED
  BY <1>2, <1>3, <1>4, <1>5, <1>6, <1>7, <1>9, <1>11, <1>12, <1>13, <1>14
  DEF Next

\* Steps that change neither the text nor what the backup is, or will be.
LEMMA TracksKept ==
    ASSUME TracksInv, FlagsOK',
           UNCHANGED <<operation, io, backup, missed, buffer>>, dirty' = dirty,
           revert' = revert, astray \subseteq astray'
    PROVE  TracksInv'
<1>1. FinalBackup' = FinalBackup
  BY DEF FinalBackup, AfterIo
<1>2. TrackerIsTold' => TrackerIsTold
  BY DEF TrackerIsTold
<1> QED
  BY <1>1, <1>2 DEF TracksInv, FinalIsCurrent

\* A text that becomes dirty is to be backed up, whatever is under way.
LEMMA TracksDirtied ==
    ASSUME TracksInv, FlagsOK', dirty' = TRUE, operation' = Scheduled
    PROVE  TracksInv'
BY Operations DEF TracksInv

\* What was saved or loaded is not dirty, and its backup goes.
LEMMA TracksCleaned ==
    ASSUME TracksInv, FlagsOK', dirty' = FALSE, TellIf(dirty, FALSE),
           UNCHANGED <<io, backup, missed, revert>>, astray \subseteq astray'
    PROVE  TracksInv'
<1>1. IF dirty THEN operation' = Discarding ELSE operation' = operation
  BY Told DEF TracksInv, FlagsOK
<1>2. CASE dirty
  BY <1>1, <1>2, Operations DEF TracksInv
<1>3. CASE ~dirty
  <2>1. FinalBackup' = FinalBackup
    BY DEF FinalBackup, AfterIo
  <2>2. TrackerIsTold' => TrackerIsTold
    BY DEF TrackerIsTold
  <2> QED
    BY <1>1, <1>3, <2>1, <2>2 DEF TracksInv, FinalIsCurrent
<1> QED
  BY <1>2, <1>3

\* A save that fails leaves the text dirty, and tells the tracker if it was not.
LEMMA TracksFailed ==
    ASSUME TracksInv, FlagsOK', NEW conflict \in BOOLEAN, SaveFails(conflict)
    PROVE  TracksInv'
<1>1. /\ dirty' = TRUE
      /\ UNCHANGED <<io, backup, missed, buffer, revert, astray>>
      /\ IF dirty THEN operation' = operation ELSE operation' = Scheduled
  BY Told DEF SaveFails, textVars, readVars, history, TracksInv, FlagsOK
<1>2. CASE dirty
  BY <1>1, <1>2, TracksKept
<1>3. CASE ~dirty
  BY <1>1, <1>3, TracksDirtied
<1> QED
  BY <1>2, <1>3

\* The end of a revert, which tells the tracker if the model was dirty, or has
\* become so or ceased to be.
LEMMA TracksReverted ==
    ASSUME TracksInv, FlagsOK', NEW told \in BOOLEAN, TellIf(told, dirty'),
           ~told /\ "failed" \notin astray =>
              /\ TrackerIsTold /\ (dirty' <=> dirty)
              /\ ~dirty \/ buffer' = buffer,
           UNCHANGED <<io, backup, missed>>, astray \subseteq astray'
    PROVE  TracksInv'
<1>1. /\ told => operation' = IF dirty' THEN Scheduled ELSE Discarding
      /\ ~told => operation' = operation
  BY Told DEF FlagsOK
<1>2. CASE told
  BY <1>1, <1>2, Operations DEF TracksInv
<1>3. CASE ~told
  <2>1. FinalBackup' = FinalBackup
    BY DEF FinalBackup, AfterIo
  <2>2. TrackerIsTold' => "failed" \notin astray
    BY DEF TrackerIsTold
  <2> QED
    BY <1>1, <1>3, <2>1, <2>2 DEF TracksInv, FinalIsCurrent
<1> QED
  BY <1>2, <1>3

\* A revert goes on and tells nobody, or is over and tells the tracker.
LEMMA RevertTells ==
    ASSUME NEW was, NEW now, RevertReads(was, now) \/ NothingRead(was, now)
    PROVE  /\ astray \subseteq astray'
           /\ \/ /\ revert'.was = was /\ revert' # NoRevert
                 /\ operation' = operation
              \/ revert' = NoRevert /\ TellIf(was.dirty, now)
BY DEF RevertReads, NothingRead, NoRevert

\* A revert begins: a model that was dirty is so no longer, and the tracker is
\* to learn of it.
LEMMA TracksRevert ==
    ASSUME TracksInv, FlagsOK', Revert PROVE TracksInv'
<1> DEFINE was == [dirty |-> dirty, conflict |-> inConflictMode,
                   error |-> inErrorMode, alt |-> savedAlt]
<1>1. /\ UNCHANGED <<io, backup, missed, buffer>> /\ dirty' = FALSE
      /\ revert.phase = "none"
  BY DEF Revert, textVars
<1>2. was.dirty \in BOOLEAN /\ (was.dirty <=> dirty)
  BY DEF TracksInv, FlagsOK
<1>3. revert = NoRevert
  BY <1>1 DEF TracksInv, FlagsOK, IsRevert
<1>4. /\ astray \subseteq astray'
      /\ \/ revert'.was = was /\ revert' # NoRevert /\ operation' = operation
         \/ revert' = NoRevert /\ TellIf(was.dirty, FALSE)
  <2>1. \/ RevertReads(was, FALSE) \/ NothingRead(was, FALSE)
        \/ /\ revert' = [phase |-> "waiting", was |-> was]
           /\ UNCHANGED <<operation, astray>>
    BY DEF Revert
  <2> HIDE DEF was
  <2>2. CASE RevertReads(was, FALSE) \/ NothingRead(was, FALSE)
    BY <2>2, RevertTells
  <2>3. CASE /\ revert' = [phase |-> "waiting", was |-> was]
             /\ UNCHANGED <<operation, astray>>
    BY <2>3 DEF NoRevert
  <2> QED
    BY <2>1, <2>2, <2>3
<1> HIDE DEF was
<1>5. "failed" \notin astray => TrackerIsTold
  BY <1>3 DEF TrackerIsTold
<1>6. CASE revert' = NoRevert /\ TellIf(was.dirty, FALSE)
  <2>1. TellIf(was.dirty, dirty')
    BY <1>1, <1>6
  <2> QED
    BY <1>1, <1>2, <1>4, <1>5, <2>1, TracksReverted
<1>7. CASE revert'.was = was /\ revert' # NoRevert /\ operation' = operation
  <2>1. FinalBackup' = FinalBackup
    BY <1>1 DEF FinalBackup, AfterIo
  <2>2. TrackerIsTold' => TrackerIsTold /\ ~dirty
    BY <1>2, <1>4, <1>5, <1>7 DEF TrackerIsTold
  <2> QED
    BY <1>1, <1>7, <2>1, <2>2 DEF TracksInv, FinalIsCurrent
<1> QED
  BY <1>4, <1>6, <1>7

\* The steps of a revert that is under way.
LEMMA TracksReverting ==
    ASSUME TracksInv, FlagsOK', RevertStarts \/ RevertEnds \/ RevertFails
    PROVE  TracksInv'
<1>1. ASSUME revert.phase \in {"waiting", "reading"}
      PROVE  /\ revert.was.dirty \in BOOLEAN /\ dirty \in BOOLEAN
             /\ ~revert.was.dirty /\ "failed" \notin astray => TrackerIsTold
  BY <1>1 DEF TracksInv, FlagsOK, IsRevert, NoRevert, TrackerIsTold
<1>2. CASE RevertStarts
  <2>1. /\ UNCHANGED <<io, backup, missed, buffer, dirty>>
        /\ RevertReads(revert.was, dirty) /\ revert.phase = "waiting"
    BY <1>2 DEF RevertStarts, textVars, flags
  <2>2. /\ revert.was.dirty \in BOOLEAN
        /\ ~revert.was.dirty /\ "failed" \notin astray => TrackerIsTold
    BY <1>1, <2>1
  <2>3. /\ astray \subseteq astray'
        /\ \/ /\ revert'.was = revert.was /\ revert' # NoRevert
              /\ operation' = operation
           \/ revert' = NoRevert /\ TellIf(revert.was.dirty, dirty)
    BY <2>1, RevertTells
  <2>4. CASE revert' = NoRevert /\ TellIf(revert.was.dirty, dirty)
    <3>1. TellIf(revert.was.dirty, dirty')
      BY <2>1, <2>4
    <3> QED
      BY <2>1, <2>2, <2>3, <3>1, TracksReverted
  <2>5. CASE /\ revert'.was = revert.was /\ revert' # NoRevert
             /\ operation' = operation
    <3>1. TrackerIsTold' => TrackerIsTold
      BY <2>3, <2>5 DEF TrackerIsTold
    <3>2. FinalBackup' = FinalBackup
      BY <2>1 DEF FinalBackup, AfterIo
    <3> QED
      BY <2>1, <2>5, <3>1, <3>2 DEF TracksInv, FinalIsCurrent
  <2> QED
    BY <2>3, <2>4, <2>5
<1>3. CASE RevertEnds
  <2> DEFINE told == revert.was.dirty \/ dirty # dirty'
  <2>1. /\ UNCHANGED <<io, backup, missed>> /\ revert.phase = "reading"
        /\ TellIf(told, dirty')
    BY <1>3 DEF RevertEnds
  <2>2. /\ told \in BOOLEAN
        /\ ~told /\ "failed" \notin astray => TrackerIsTold
        /\ ~told => dirty' = dirty
    BY <1>1, <2>1
  <2> HIDE DEF told
  <2>3. astray \subseteq astray' /\ (dirty' => buffer' = buffer)
    BY <1>3 DEF RevertEnds, Load, KeepsAll, textVars
  <2> QED
    BY <2>1, <2>2, <2>3, TracksReverted
<1>4. CASE RevertFails
  <2>1. "failed" \in astray' /\ UNCHANGED <<operation, io>>
    BY <1>4 DEF RevertFails, backupVars
  <2> QED
    BY <2>1 DEF TracksInv, TrackerIsTold
<1> QED
  BY <1>2, <1>3, <1>4

\* The backup service begins, completes or fails to do what was pending.
LEMMA TracksBackedUp ==
    ASSUME StatsInv, TracksInv, FlagsOK',
           BackupStarts \/ BackupEnds \/ BackupFails
    PROVE  TracksInv'
<1> USE DEF textVars, flags, readVars, history
<1>1. UNCHANGED <<buffer, dirty, revert, astray>>
  BY DEF BackupStarts, BackupEnds, BackupFails
<1>2. TrackerIsTold' <=> TrackerIsTold
  BY <1>1 DEF TrackerIsTold
<1>3. CASE BackupStarts
  <2>1. UNCHANGED <<backup, missed>> /\ io = Idle
    BY <1>3 DEF BackupStarts
  <2>2. CASE /\ operation = Scheduled /\ dirty
             /\ io' = Copy /\ operation' = Running
    <3>1. FinalBackup' = Copy
      BY <2>2, BackupKinds DEF FinalBackup, AfterIo, IsCopy
    <3>2. Copy # NoBackup /\ Copy.text = buffer.text
      BY BackupKinds DEF IsCopy, Copy
    <3>3. FinalIsCurrent'
      BY <1>1, <2>2, <3>1, <3>2 DEF FinalIsCurrent
    <3> QED
      BY <2>2, <3>3, Operations DEF TracksInv
  <2>3. CASE operation = Scheduled /\ ~dirty /\ operation' = Idle /\ io' = io
    BY <1>2, <2>1, <2>3 DEF TracksInv
  <2>4. CASE operation = Discarding /\ io' = Removal /\ operation' = Running
    <3>1. FinalBackup' = NoBackup
      BY <2>4, BackupKinds DEF FinalBackup, AfterIo
    <3> QED
      BY <1>1, <1>2, <2>4, <3>1, Operations DEF TracksInv, FinalIsCurrent
  <2> QED
    BY <1>3, <2>2, <2>3, <2>4 DEF BackupStarts
<1>4. CASE BackupEnds \/ BackupFails
  <2>1. /\ io' = Idle
        /\ operation' = IF operation = Running THEN Idle ELSE operation
        /\ operation # Idle
    BY <1>4 DEF BackupEnds, BackupFails, TracksInv
  <2>2. CASE operation # Running
    BY <1>1, <1>2, <2>1, <2>2 DEF TracksInv
  <2>3. CASE operation = Running /\ BackupEnds
    <3>1. FinalBackup' = FinalBackup
      BY <2>3 DEF BackupEnds, FinalBackup
    <3> QED
      BY <1>1, <1>2, <2>1, <2>3, <3>1, Operations
      DEF TracksInv, FinalIsCurrent
  <2>4. CASE operation = Running /\ BackupFails
    <3>1. missed' = TRUE
      BY <2>4 DEF BackupFails
    <3> QED
      BY <2>1, <2>4, <3>1, Operations DEF TracksInv
  <2> QED
    BY <1>4, <2>2, <2>3, <2>4
<1> QED
  BY <1>3, <1>4

\* Every step keeps TracksInv.
LEMMA TracksNext ==
    ASSUME StatsInv, TracksInv, [Next]_vars PROVE TracksInv'
<1> USE DEF textVars, flags, saveVars, readVars, fileVars, backupVars, bounds,
            history
<1>1. FlagsOK' /\ FlagsOK
  BY FlagsNext DEF TracksInv
<1>2. ASSUME UNCHANGED <<operation, io, backup, missed>>,
             UNCHANGED <<buffer, dirty, revert, astray>>
      PROVE  TracksInv'
  BY <1>1, <1>2, TracksKept
<1>3. CASE UNCHANGED vars
  BY <1>2, <1>3 DEF vars
<1>4. CASE Type
  BY <1>1, <1>4, TracksDirtied DEF Type
<1>5. CASE Undo \/ Redo
  <2>1. UNCHANGED <<io, backup, missed, revert>> /\ astray \subseteq astray'
    BY <1>5 DEF Undo, Redo, GoTo
  <2>2. \/ dirty' = FALSE /\ TellIf(dirty, FALSE)
        \/ dirty' = TRUE /\ operation' = Scheduled
    BY <1>5 DEF Undo, Redo, GoTo, MarkSaved
  <2> QED
    BY <1>1, <2>1, <2>2, TracksCleaned, TracksDirtied
<1>6. ASSUME NEW request \in Requests, Save(request)
      PROVE  TracksInv'
  BY <1>2, <1>6 DEF Save
<1>7. CASE DelayEnds \/ GiveUp \/ WriteFile
  BY <1>2, <1>7 DEF DelayEnds, GiveUp, WriteFile
<1>8. CASE ParticipantsEnd
  <2>1. CASE SaveFails(TRUE)
    BY <1>1, <2>1, TracksFailed
  <2>2. CASE ~SaveFails(TRUE)
    BY <1>2, <1>8, <2>2 DEF ParticipantsEnd
  <2> QED
    BY <2>1, <2>2
<1>9. CASE WriteFails
  <2>1. SaveFails(FALSE)
    BY <1>9 DEF WriteFails
  <2> QED
    BY <1>1, <2>1, TracksFailed
<1>10. CASE SaveSucceeds
  <2>1. UNCHANGED <<io, backup, missed, revert, astray, buffer>>
    BY <1>10 DEF SaveSucceeds
  <2>2. CASE dirty' = FALSE /\ TellIf(dirty, FALSE)
    BY <1>1, <2>1, <2>2, TracksCleaned
  <2>3. CASE UNCHANGED <<flags, operation>>
    BY <1>2, <2>1, <2>3
  <2> QED
    BY <1>10, <2>2, <2>3 DEF SaveSucceeds, MarkSaved
<1>11. CASE FileChanged \/ WriteOutside \/ ReloadStarts \/ ReloadFails
  BY <1>2, <1>11 DEF FileChanged, WriteOutside, ReloadStarts, ReloadFails
<1>12. CASE ReloadEnds
  <2>1. /\ UNCHANGED <<io, backup, missed, revert>>
        /\ TellIf(dirty # dirty', FALSE)
    BY <1>12 DEF ReloadEnds
  <2>2. CASE KeepsAll /\ astray' = astray
    <3>1. dirty' = dirty /\ buffer' = buffer
      BY <2>2 DEF KeepsAll
    <3>2. operation' = operation
      BY <2>1, <3>1 DEF TellIf
    <3> QED
      BY <1>2, <2>1, <2>2, <3>1, <3>2
  <2>3. CASE Load
    <3>1. dirty' = FALSE /\ astray \subseteq astray'
      BY <2>3 DEF Load
    <3>2. TellIf(dirty, FALSE)
      BY <1>1, <2>1, <3>1 DEF TellIf, FlagsOK
    <3> QED
      BY <1>1, <2>1, <3>1, <3>2, TracksCleaned
  <2> QED
    BY <1>12, <2>2, <2>3 DEF ReloadEnds
<1>13. CASE Revert
  BY <1>1, <1>13, TracksRevert
<1>14. CASE RevertStarts \/ RevertEnds \/ RevertFails
  BY <1>1, <1>14, TracksReverting
<1>15. CASE BackupStarts \/ BackupEnds \/ BackupFails
  BY <1>1, <1>15, TracksBackedUp
<1>16. CASE Crash
  <2>1. /\ io' = Idle
        /\ \/ backup' = NoBackup /\ dirty' = FALSE /\ operation' = Idle
           \/ dirty' = TRUE /\ operation' = Scheduled
    BY <1>16 DEF Crash
  <2>2. FinalBackup' = backup'
    BY <2>1 DEF FinalBackup
  <2> QED
    BY <1>1, <2>1, <2>2, Operations DEF TracksInv, FinalIsCurrent
<1> QED
  BY <1>3, <1>4, <1>5, <1>6, <1>7, <1>8, <1>9, <1>10, <1>11, <1>12, <1>13,
     <1>14, <1>15, <1>16
  DEF Next, Saves

\* At the beginning nothing is dirty, and there is no backup.
LEMMA TracksInit == ASSUME Init PROVE TracksInv
<1>1. FlagsOK /\ io = Idle
  BY DEF Init, FlagsOK, IsRevert
<1>2. ~dirty /\ operation = Idle /\ FinalBackup = NoBackup
  BY DEF Init, FinalBackup
<1> QED
  BY <1>1, <1>2, Operations DEF TracksInv, FinalIsCurrent

\* Once its operations are done the backup is exactly the text that a crash
\* would lose, unless the last of them failed, for any edits, saves, reverts,
\* reloads, failures and crashes.
THEOREM BackupFollows == Spec => []BackupIsCurrent
<1> DEFINE IInv == StatsInv /\ TracksInv
<1>1. Init => IInv
  BY StatsInit, TracksInit
<1>2. IInv /\ [Next]_vars => IInv'
  BY StatsNext, TracksNext
<1>3. IInv => BackupIsCurrent
  BY DEF TracksInv, TrackerIsTold, FinalIsCurrent, FinalBackup,
         BackupIsCurrent
<1> HIDE DEF IInv
<1> QED
  BY <1>1, <1>2, <1>3, PTL DEF Spec

-----------------------------------------------------------------------------
(* What is on disk                                                         *)

Oldest(n) == -(2 * n)

Old(t, n) == t \in Int /\ Oldest(n) <= t

OldCopy(b, n) ==
    IsCopy(b) => Old(b.text, n) /\ \A t \in b.known : Old(t, n)

\* A text of another program, and what is left of a text by a write that
\* fails, is none of these.
OldTexts ==
    /\ mishaps \in Nat /\ changes \in Nat
    /\ Old(disk.text, mishaps)
    /\ \A t \in known : Old(t, mishaps)
    /\ \A e \in Shown : Old(e.text, mishaps)
    /\ saving.phase \in {"writing", "written"} => Old(saving.text, mishaps)
    /\ OldCopy(backup, mishaps) /\ OldCopy(io, mishaps)

\* A text that was saved is in the file, or there is a new one, as long as the
\* model has the version that was saved.
WrittenOK ==
    saving.phase = "written" /\ saving.id = versionId =>
        \/ disk.text = saving.text
        \/ disk.text \notin known \cup {saving.text}

\* What a model that is not dirty shows is being written, or is in the file
\* unless the file has a new text.
CleanOK ==
    revert = NoRevert /\ ~dirty =>
        /\ saving.phase = "writing" => saving.text = buffer.text
        /\ saving.phase # "writing" /\ disk.text \in Own
              => disk.text = buffer.text

CleanInv == astray = {} => WrittenOK /\ CleanOK

\* The oldest text gets older.
LEMMA OldestAges ==
    ASSUME NEW n \in Nat
    PROVE  /\ Oldest(n) \in Int /\ Oldest(n) <= 0
           /\ Oldest(n + 1) \in Int /\ Oldest(n + 1) < Oldest(n)
BY DEF Oldest

\* A new text is older than none, and what was old stays so.
LEMMA OldAges ==
    ASSUME mishaps \in Nat, mishaps' \in {mishaps, mishaps + 1}
    PROVE  /\ \A t : Old(t, mishaps) => Old(t, mishaps')
           /\ \A b : OldCopy(b, mishaps) => OldCopy(b, mishaps')
           /\ Old(Foreign, mishaps') /\ Old(Foreign + 1, mishaps')
           /\ mishaps' = mishaps + 1 => ~Old(Foreign, mishaps)
<1>1. PICK a \in Int : a = Oldest(mishaps) /\ a <= a
  BY OldestAges
<1>2. PICK b \in Int : /\ b = Oldest(mishaps') /\ b <= a
                       /\ mishaps' = mishaps + 1 => b < a
  BY <1>1, OldestAges
<1>3. Foreign = b
  BY <1>2 DEF Oldest, Foreign
<1>4. \A t \in Int : a <= t => b <= t
  BY <1>2
<1>5. \A t : Old(t, mishaps) => Old(t, mishaps')
  BY <1>1, <1>2, <1>4 DEF Old
<1>6. b <= b /\ b <= b + 1 /\ b + 1 \in Int /\ (b < a => ~(a <= b))
  OBVIOUS
<1>7. /\ Old(Foreign, mishaps') /\ Old(Foreign + 1, mishaps')
      /\ mishaps' = mishaps + 1 => ~Old(Foreign, mishaps)
  BY <1>1, <1>2, <1>3, <1>6 DEF Old
<1> QED
  BY <1>5, <1>7 DEF OldCopy

\* Steps after which there is no text that there was not, but a new one in the
\* file or in the backup.
LEMMA OldKept ==
    ASSUME OldTexts, mishaps' \in {mishaps, mishaps + 1}, changes' \in Nat,
           disk'.text \in {disk.text, Foreign}
              \/ (disk'.text = saving.text /\ saving.phase = "writing"),
           known' \subseteq known \cup {disk.text}
              \/ (saving.phase = "written"
                    /\ known' \subseteq known \cup {saving.text}),
           \A e \in Shown' : \/ e \in Shown \/ e.text = disk.text
                             \/ e.text \in Nat,
           saving'.phase \in {"writing", "written"} =>
              \/ saving.phase \in {"writing", "written"}
                    /\ saving'.text = saving.text
              \/ saving'.text = buffer.text,
           backup' = backup \/ ~IsCopy(backup')
              \/ (/\ IsCopy(io) /\ backup'.known = io.known
                  /\ backup'.text \in {io.text, Foreign}),
           io' = io \/ ~IsCopy(io') \/ io' = Copy
    PROVE  OldTexts'
<1>1. mishaps \in Nat /\ mishaps' \in Nat
  BY DEF OldTexts
<1>2. /\ \A t : Old(t, mishaps) => Old(t, mishaps')
      /\ \A b : OldCopy(b, mishaps) => OldCopy(b, mishaps')
      /\ Old(Foreign, mishaps')
  BY <1>1, OldAges
<1>3. \A t \in Nat : Old(t, mishaps')
  <2>1. PICK a \in Int : a = Oldest(mishaps') /\ a <= 0
    BY <1>1, OldestAges
  <2>2. \A t \in Nat : a <= t
    BY <2>1
  <2> QED
    BY <2>1, <2>2 DEF Old
<1>4. Old(disk'.text, mishaps') /\ \A t \in known' : Old(t, mishaps')
  BY <1>2 DEF OldTexts
<1>5. \A e \in Shown' : Old(e.text, mishaps')
  BY <1>2, <1>3 DEF OldTexts
<1>6. saving'.phase \in {"writing", "written"} => Old(saving'.text, mishaps')
  BY <1>2 DEF OldTexts, Shown
<1>7. OldCopy(backup', mishaps')
  <2>1. CASE backup' = backup \/ ~IsCopy(backup')
    BY <1>2, <2>1 DEF OldTexts, OldCopy
  <2>2. CASE /\ IsCopy(io) /\ backup'.known = io.known
             /\ backup'.text \in {io.text, Foreign}
    <3>1. OldCopy(io, mishaps')
      BY <1>2 DEF OldTexts
    <3> QED
      BY <1>2, <2>2, <3>1 DEF OldCopy
  <2> QED
    BY <2>1, <2>2
<1>8. OldCopy(io', mishaps')
  <2>1. OldCopy(Copy, mishaps)
    BY DEF OldCopy, OldTexts, Copy, Shown
  <2> QED
    BY <1>2, <2>1 DEF OldTexts, OldCopy
<1> QED
  BY <1>1, <1>4, <1>5, <1>6, <1>7, <1>8 DEF OldTexts

\* Reading the file shows its text, and no other that was not shown.
LEMMA ShownAfterLoad ==
    ASSUME EditsInv, Load
    PROVE  \A e \in Shown' : e \in Shown \/ e.text = disk.text
<1>1. CASE disk.text = buffer.text /\ UNCHANGED textVars
  BY <1>1 DEF textVars, Shown
<1>2. CASE /\ versionId' = versionId + 1
           /\ undoStack' = Append(undoStack, buffer)
           /\ redoStack' = <<>>
           /\ buffer' = [text |-> disk.text, alt |-> versionId']
  <2>1. ShownOK /\ disk.text \in Int
    BY DEF EditsInv, TextsOK
  <2>2. Shown' \subseteq Shown \cup {buffer'} /\ buffer'.text = disk.text
    BY <1>2, <2>1, ShownAnew
  <2> QED
    BY <2>2
<1> QED
  BY <1>1, <1>2 DEF Load

\* Every step keeps OldTexts.
LEMMA OldNext ==
    ASSUME StatsInv, EditsInv, OldTexts, [Next]_vars PROVE OldTexts'
<1> USE DEF textVars, flags, saveVars, readVars, fileVars, backupVars, bounds,
            history
<1>1. changes \in Nat /\ mishaps \in Nat /\ \A e \in Shown : e \in Shown
  BY DEF OldTexts
<1>2. UNCHANGED textVars => Shown' = Shown
  BY DEF Shown
<1>3. ASSUME UNCHANGED textVars, UNCHANGED <<known, backup, io>>,
             changes' \in {changes, changes + 1},
             mishaps' \in {mishaps, mishaps + 1},
             disk'.text \in {disk.text, Foreign},
             \/ saving' = saving
             \/ saving'.phase \notin {"writing", "written"}
      PROVE  OldTexts'
  <2>1. changes' \in Nat
    BY <1>1, <1>3
  <2> QED
    BY <1>2, <1>3, <2>1, OldKept
<1>4. CASE UNCHANGED vars
  BY <1>3, <1>4 DEF vars
<1>5. CASE Type
  <2>1. /\ changes' = changes + 1
        /\ UNCHANGED <<mishaps, disk, known, backup, io, saving>>
    BY <1>5 DEF Type
  <2>2. changes' \in Nat /\ changes' + 1 \in Nat /\ changes' + 1 \in Int
    BY <1>1, <2>1
  <2>3. \A e \in Shown' : e \in Shown \/ e.text \in Nat
    <3>1. /\ versionId' = versionId + 1
          /\ undoStack' = Append(undoStack, buffer) /\ redoStack' = <<>>
          /\ buffer' = [text |-> changes' + 1, alt |-> versionId']
      BY <1>5 DEF Type
    <3>2. Shown' \subseteq Shown \cup {buffer'} /\ buffer'.text = changes' + 1
      BY <2>2, <3>1, ShownAnew DEF EditsInv
    <3> QED
      BY <2>2, <3>2
  <2> QED
    BY <2>1, <2>2, <2>3, OldKept
<1>6. CASE Undo \/ Redo
  <2>1. /\ UNCHANGED <<mishaps, disk, known, backup, io, saving>>
        /\ changes' = changes + 1
    BY <1>6 DEF Undo, Redo, GoTo
  <2>2. Shown' \subseteq Shown /\ changes' \in Nat
    BY <1>1, <1>6, <2>1, ShownAgain DEF EditsInv
  <2> QED
    BY <2>1, <2>2, OldKept
<1>7. ASSUME NEW request \in Requests, Save(request)
      PROVE  OldTexts'
  <2>1. /\ UNCHANGED textVars /\ UNCHANGED <<known, backup, io, disk, mishaps>>
        /\ changes' \in {changes, changes + 1}
    BY <1>7 DEF Save
  <2>2. \/ saving' = saving
        \/ saving'.phase \notin {"writing", "written"}
    BY <1>7, NothingWrittenYet DEF StatsInv
  <2> QED
    BY <1>3, <2>1, <2>2
<1>8. CASE DelayEnds \/ GiveUp
  <2>1. /\ UNCHANGED textVars
        /\ UNCHANGED <<known, backup, io, disk, mishaps, changes>>
    BY <1>8 DEF DelayEnds, GiveUp
  <2>2. saving'.phase \notin {"writing", "written"}
    <3>1. CASE SaveOver
      BY <3>1, NothingWritten
    <3>2. CASE saving' = [saving EXCEPT !.phase = "participants"]
      BY <3>2 DEF StatsInv, IsSave
    <3> QED
      BY <1>8, <3>1, <3>2 DEF DelayEnds, GiveUp
  <2> QED
    BY <1>3, <2>1, <2>2
<1>9. CASE ParticipantsEnd
  <2>1. /\ UNCHANGED textVars
        /\ UNCHANGED <<known, backup, io, disk, mishaps, changes>>
    BY <1>9 DEF ParticipantsEnd, SaveFails
  <2>2. CASE Conflicts(buffer.text)
    <3>1. SaveOver
      BY <1>9, <2>2 DEF ParticipantsEnd, SaveFails
    <3> QED
      BY <1>3, <2>1, <3>1, NothingWritten
  <2>3. CASE ~Conflicts(buffer.text)
    <3>1. saving' = [phase |-> "writing", id |-> versionId,
                     text |-> buffer.text, overwrite |-> saving.overwrite]
      BY <1>9, <2>3 DEF ParticipantsEnd
    <3>2. saving'.text = buffer.text
      BY <3>1
    <3> QED
      BY <1>1, <1>2, <2>1, <3>2, OldKept
  <2> QED
    BY <2>2, <2>3
<1>10. CASE WriteFile
  <2>1. /\ UNCHANGED textVars
        /\ UNCHANGED <<known, backup, io, mishaps, changes>>
        /\ saving.phase = "writing" /\ disk'.text = saving.text
        /\ saving' = [saving EXCEPT !.phase = "written"]
    BY <1>10 DEF WriteFile, Written
  <2>2. saving'.text = saving.text
    BY <2>1 DEF StatsInv, IsSave
  <2> QED
    BY <1>1, <1>2, <2>1, <2>2, OldKept
<1>11. CASE WriteFails
  <2>1. /\ UNCHANGED textVars /\ UNCHANGED <<known, backup, io, changes>>
        /\ mishaps' = mishaps + 1 /\ disk'.text \in {disk.text, Foreign}
        /\ SaveOver
    BY <1>11 DEF WriteFails, SaveFails, Written
  <2> QED
    BY <1>3, <2>1, NothingWritten
<1>12. CASE SaveSucceeds
  <2>1. /\ UNCHANGED textVars
        /\ UNCHANGED <<backup, io, disk, mishaps, changes>>
        /\ saving.phase = "written" /\ known' = known \cup {saving.text}
        /\ SaveOver
    BY <1>12 DEF SaveSucceeds
  <2> QED
    BY <1>1, <1>2, <2>1, NothingWritten, OldKept
<1>13. CASE FileChanged \/ ReloadStarts \/ ReloadFails \/ Revert
               \/ RevertStarts \/ RevertFails
  BY <1>3, <1>13 DEF FileChanged, ReloadStarts, ReloadFails, Revert,
                     RevertStarts, RevertFails
<1>14. CASE ReloadEnds \/ RevertEnds
  <2>1. UNCHANGED <<backup, io, disk, saving, mishaps, changes>>
    BY <1>14 DEF ReloadEnds, RevertEnds
  <2>2. CASE Load
    <3>1. known' = known \cup {disk.text}
      BY <2>2 DEF Load
    <3> QED
      BY <1>1, <2>1, <2>2, <3>1, ShownAfterLoad, OldKept
  <2>3. CASE KeepsAll
    BY <1>3, <2>1, <2>3 DEF KeepsAll
  <2> QED
    BY <1>14, <2>2, <2>3 DEF ReloadEnds, RevertEnds
<1>15. CASE BackupStarts
  <2>1. /\ UNCHANGED textVars
        /\ UNCHANGED <<known, disk, saving, backup, mishaps, changes>>
        /\ io' = io \/ io' = Removal \/ io' = Copy
    BY <1>15 DEF BackupStarts
  <2>2. io' = io \/ ~IsCopy(io') \/ io' = Copy
    BY <2>1 DEF IsCopy
  <2> QED
    BY <1>1, <1>2, <2>1, <2>2, OldKept
<1>16. CASE BackupEnds \/ BackupFails
  <2>1. /\ UNCHANGED textVars /\ UNCHANGED <<known, disk, saving, changes>>
        /\ mishaps' \in {mishaps, mishaps + 1}
        /\ io # Idle /\ io' = Idle
        /\ backup' \in CutOff(Foreign) \cup {AfterIo}
    BY <1>16 DEF BackupEnds, BackupFails
  <2>2. \/ backup' = backup \/ ~IsCopy(backup')
        \/ /\ IsCopy(io) /\ backup'.known = io.known
           /\ backup'.text \in {io.text, Foreign}
    <3>1. ~IsCopy(NoBackup)
      BY DEF IsCopy
    <3> QED
      BY <2>1, <3>1, LeftOfTheBackup
  <2>3. ~IsCopy(io')
    BY <2>1 DEF IsCopy
  <2> QED
    BY <1>1, <1>2, <2>1, <2>2, <2>3, OldKept
<1>17. CASE WriteOutside
  BY <1>3, <1>17 DEF WriteOutside, Written
<1>18. CASE Crash
  <2>1. /\ mishaps' = mishaps + 1 /\ changes' = changes
        /\ disk'.text \in {disk.text, Foreign}
        /\ io' = Idle /\ saving'.phase = "none"
        /\ \/ backup' = backup
           \/ io # Idle /\ backup' \in CutOff(Foreign + 1) \cup {AfterIo}
    BY <1>18 DEF Crash, CrashedFile, CrashedBackup, NoSave, Written
  <2>2. /\ \A t : Old(t, mishaps) => Old(t, mishaps')
        /\ \A b : OldCopy(b, mishaps) => OldCopy(b, mishaps')
        /\ Old(Foreign, mishaps') /\ Old(Foreign + 1, mishaps')
    BY <1>1, <2>1, OldAges
  <2>3. Old(disk'.text, mishaps')
    BY <2>1, <2>2 DEF OldTexts
  <2>4. OldCopy(backup', mishaps')
    <3>1. OldCopy(backup, mishaps') /\ OldCopy(io, mishaps')
      BY <2>2 DEF OldTexts
    <3>2. CASE backup' = backup
      BY <3>1, <3>2
    <3>3. CASE /\ io # Idle
               /\ backup' \in CutOff(Foreign + 1) \cup {AfterIo}
      <4>1. \/ backup' \in {backup, NoBackup}
            \/ /\ IsCopy(io) /\ backup'.known = io.known
               /\ backup'.text \in {io.text, Foreign + 1}
        BY <3>3, LeftOfTheBackup
      <4> QED
        BY <2>2, <3>1, <4>1 DEF OldCopy, IsCopy
    <3> QED
      BY <2>1, <3>2, <3>3
  <2>5. OldCopy(io', mishaps')
    BY <2>1 DEF OldCopy, IsCopy
  <2>6. Shown' = {buffer'}
    BY <1>18, EntriesOfStack DEF Crash, Shown
  <2>7. \/ buffer'.text = disk'.text /\ known' = {disk'.text}
        \/ /\ backup' # NoBackup /\ buffer'.text = backup'.text
           /\ known' = backup'.known
    BY <1>18 DEF Crash
  <2>8. backup' # NoBackup => IsCopy(backup')
    <3>1. StatsInv'
      BY StatsNext
    <3> QED
      BY <3>1 DEF StatsInv, IsCopy
  <2>9. Old(buffer'.text, mishaps') /\ \A t \in known' : Old(t, mishaps')
    BY <2>3, <2>4, <2>7, <2>8 DEF OldCopy
  <2>10. mishaps' \in Nat /\ changes' \in Nat
    BY <1>1, <2>1
  <2> QED
    BY <2>1, <2>3, <2>4, <2>5, <2>6, <2>9, <2>10 DEF OldTexts
<1> QED
  BY <1>4, <1>5, <1>6, <1>7, <1>8, <1>9, <1>10, <1>11, <1>12, <1>13, <1>14,
     <1>15, <1>16, <1>17, <1>18
  DEF Next, Saves

\* Steps that leave alone what the model shows, and the text of the file.
LEMMA CleanKept ==
    ASSUME CleanInv, UNCHANGED <<buffer, versionId, known, astray, revert>>,
           dirty' = dirty, disk'.text = disk.text,
           \/ saving' = saving
           \/ /\ saving.phase \notin {"writing", "written"}
              /\ saving'.phase \notin {"writing", "written"}
    PROVE  CleanInv'
<1>1. Own' = Own
  BY DEF Own, Writing
<1> QED
  BY <1>1 DEF CleanInv, WrittenOK, CleanOK

\* A file that was read is shown, also while its own text is being written.
LEMMA CleanRead ==
    ASSUME EditsInv, Load, UNCHANGED <<disk, saving>>
    PROVE  CleanInv'
<1>1. /\ buffer'.text = disk.text
      /\ \/ versionId' = versionId /\ buffer.text = disk.text
         \/ versionId' = versionId + 1
  BY DEF Load, textVars
<1>2. astray' = {} => ~(saving.phase = "writing" /\ saving.text # disk.text)
  BY DEF Load
<1>3. WrittenOK'
  BY <1>1 DEF WrittenOK, EditsInv, SavingOK, ShownOK
<1> QED
  BY <1>1, <1>2, <1>3 DEF CleanInv, CleanOK

\* A save that is over: its text was shown, or the model is dirty.
LEMMA CleanSaved ==
    ASSUME EditsInv, CleanInv, SaveSucceeds PROVE CleanInv'
<1> USE DEF textVars, readVars, flags, fileVars
<1>1. /\ known' = known \cup {saving.text}
      /\ UNCHANGED <<disk, buffer, revert, astray>>
      /\ saving.phase = "written"
  BY DEF SaveSucceeds
<1>2. saving'.phase \notin {"writing", "written"}
  <2>1. SaveOver
    BY DEF SaveSucceeds
  <2> QED
    BY <2>1, NothingWritten
<1>3. Own' = Own /\ Own = known \cup {saving.text}
  BY <1>1, <1>2 DEF Own, Writing
<1>4. ASSUME astray = {} PROVE CleanOK'
  <2>1. CASE SameVersion
    <3>1. buffer.text = saving.text
      BY <1>1, <2>1 DEF SameVersion, EditsInv, SavingOK
    <3>2. disk.text \in Own => disk.text = saving.text
      BY <1>1, <1>3, <1>4, <2>1 DEF CleanInv, WrittenOK, SameVersion
    <3> QED
      BY <1>1, <1>2, <1>3, <3>1, <3>2 DEF CleanOK
  <2>2. CASE ~SameVersion
    <3>1. dirty' = dirty
      BY <2>2 DEF SaveSucceeds
    <3> QED
      BY <1>1, <1>2, <1>3, <1>4, <3>1 DEF CleanInv, CleanOK
  <2> QED
    BY <2>1, <2>2
<1> QED
  BY <1>1, <1>2, <1>4 DEF CleanInv, WrittenOK

\* A save that fails leaves the model dirty.
LEMMA CleanFailed ==
    ASSUME NEW conflict \in BOOLEAN, SaveFails(conflict) PROVE CleanInv'
<1>1. dirty' = TRUE /\ SaveOver
  BY DEF SaveFails
<1>2. saving'.phase \notin {"writing", "written"}
  BY <1>1, NothingWritten
<1> QED
  BY <1>1, <1>2 DEF CleanInv, WrittenOK, CleanOK

\* A text shown again is not dirty only if it is in the file, or on its way
\* there, or the file has a new text.
LEMMA CleanUndone ==
    ASSUME EditsInv, CleanInv, Undo \/ Redo PROVE CleanInv'
<1>1. /\ UNCHANGED <<known, revert, disk, saving>>
      /\ versionId' = versionId + 1 /\ versionId \in Nat
  BY DEF Undo, Redo, GoTo, saveVars, readVars, fileVars, EditsInv, ShownOK
<1>2. WrittenOK'
  BY <1>1 DEF WrittenOK, EditsInv, SavingOK
<1>3. Own' = Own
  BY <1>1 DEF Own, Writing
<1>4. \/ dirty' = TRUE
      \/ astray' = {} =>
            /\ disk.text \notin Own \ {buffer'.text}
            /\ saving.phase = "writing" => saving.text = buffer'.text
  BY DEF Undo, Redo, GoTo
<1> QED
  BY <1>1, <1>2, <1>3, <1>4 DEF CleanInv, CleanOK

\* Every step keeps CleanInv.
LEMMA CleanNext ==
    ASSUME StatsInv, EditsInv, OldTexts, CleanInv, [Next]_vars
    PROVE  CleanInv'
<1> USE DEF textVars, flags, saveVars, readVars, fileVars, backupVars, bounds,
            history
<1>1. ASSUME UNCHANGED <<buffer, versionId, known, astray, revert>>,
             UNCHANGED <<dirty, disk>>,
             \/ saving' = saving
             \/ /\ saving.phase \notin {"writing", "written"}
                /\ saving'.phase \notin {"writing", "written"}
      PROVE  CleanInv'
  BY <1>1, CleanKept
<1>2. CASE UNCHANGED vars
  BY <1>1, <1>2 DEF vars
<1>3. CASE Type
  <2>1. /\ saving' = saving /\ versionId' = versionId + 1 /\ dirty' = TRUE
        /\ versionId \in Nat
    BY <1>3 DEF Type, EditsInv, ShownOK
  <2>2. WrittenOK'
    BY <2>1 DEF WrittenOK, EditsInv, SavingOK
  <2> QED
    BY <2>1, <2>2 DEF CleanInv, CleanOK
<1>4. CASE Undo \/ Redo
  BY <1>4, CleanUndone
<1>5. ASSUME NEW request \in Requests, Save(request)
      PROVE  CleanInv'
  <2>1. /\ UNCHANGED <<buffer, versionId, known, astray, revert>>
        /\ UNCHANGED <<dirty, disk>>
    BY <1>5 DEF Save
  <2>2. \/ saving' = saving
        \/ saving'.phase \notin {"writing", "written"}
    BY <1>5, NothingWrittenYet DEF StatsInv
  <2>3. saving' = saving \/ saving.phase \notin {"writing", "written"}
    BY <1>5 DEF Save, Saving
  <2> QED
    BY <1>1, <2>1, <2>2, <2>3
<1>6. CASE DelayEnds \/ GiveUp
  <2>1. /\ UNCHANGED <<buffer, versionId, known, astray, revert>>
        /\ UNCHANGED <<dirty, disk>>
        /\ saving.phase \notin {"writing", "written"}
    BY <1>6 DEF DelayEnds, GiveUp
  <2>2. saving'.phase \notin {"writing", "written"}
    <3>1. CASE SaveOver
      BY <3>1, NothingWritten
    <3>2. CASE saving' = [saving EXCEPT !.phase = "participants"]
      BY <3>2 DEF StatsInv, IsSave
    <3> QED
      BY <1>6, <3>1, <3>2 DEF DelayEnds, GiveUp
  <2> QED
    BY <1>1, <2>1, <2>2
<1>7. CASE ParticipantsEnd
  <2>1. CASE Conflicts(buffer.text)
    <3>1. SaveFails(TRUE)
      BY <1>7, <2>1 DEF ParticipantsEnd
    <3> QED
      BY <3>1, CleanFailed
  <2>2. CASE ~Conflicts(buffer.text)
    <3>1. /\ saving' = [phase |-> "writing", id |-> versionId,
                        text |-> buffer.text, overwrite |-> saving.overwrite]
          /\ buffer' = buffer
      BY <1>7, <2>2 DEF ParticipantsEnd
    <3>2. saving'.phase = "writing" /\ saving'.text = buffer.text
      BY <3>1
    <3> QED
      BY <3>1, <3>2 DEF CleanInv, WrittenOK, CleanOK
  <2> QED
    BY <2>1, <2>2
<1>8. CASE WriteFile
  <2>1. /\ UNCHANGED <<buffer, versionId, known, astray, revert, dirty>>
        /\ saving.phase = "writing" /\ disk'.text = saving.text
        /\ saving' = [saving EXCEPT !.phase = "written"]
    BY <1>8 DEF WriteFile, Written
  <2>2. saving'.phase = "written" /\ saving'.text = saving.text
    BY <2>1 DEF StatsInv, IsSave
  <2> QED
    BY <2>1, <2>2 DEF CleanInv, WrittenOK, CleanOK
<1>9. CASE WriteFails
  <2>1. SaveFails(FALSE)
    BY <1>9 DEF WriteFails
  <2> QED
    BY <2>1, CleanFailed
<1>10. CASE SaveSucceeds
  BY <1>10, CleanSaved
<1>11. CASE \/ FileChanged \/ ReloadStarts \/ ReloadFails
            \/ BackupStarts \/ BackupEnds \/ BackupFails
  BY <1>1, <1>11 DEF FileChanged, ReloadStarts, ReloadFails, BackupStarts,
                     BackupEnds, BackupFails
<1>12. CASE WriteOutside
  <2>1. /\ UNCHANGED <<buffer, versionId, known, astray, revert>>
        /\ UNCHANGED <<dirty, saving>>
        /\ disk'.text = Foreign /\ mishaps' = mishaps + 1
    BY <1>12 DEF WriteOutside, Written
  <2>2. ~Old(Foreign, mishaps)
    BY <2>1, OldAges DEF OldTexts
  <2>3. Foreign \notin Own
    BY <2>2 DEF OldTexts, Own, Writing
  <2>4. Own' = Own /\ (saving.phase = "written" => saving.text \in Own)
        /\ known \subseteq Own
    BY <2>1 DEF Own, Writing
  <2> QED
    BY <2>1, <2>3, <2>4 DEF CleanInv, WrittenOK, CleanOK
<1>13. CASE ReloadEnds
  <2>1. /\ UNCHANGED <<disk, saving, revert>>
        /\ Load \/ (KeepsAll /\ astray' = astray)
    BY <1>13 DEF ReloadEnds
  <2> QED
    BY <1>1, <2>1, CleanRead DEF KeepsAll
<1>14. CASE RevertEnds
  <2>1. UNCHANGED <<disk, saving>> /\ (Load \/ astray' # {})
    BY <1>14 DEF RevertEnds
  <2> QED
    BY <2>1, CleanRead DEF CleanInv
<1>15. CASE Revert \/ RevertStarts
  <2>1. UNCHANGED <<disk, saving, known, versionId>>
    BY <1>15 DEF Revert, RevertStarts
  <2>2. (revert' # NoRevert \/ astray' # {}) /\ astray \subseteq astray'
    BY <1>15, RevertLeavesATrace
  <2> QED
    BY <2>1, <2>2 DEF CleanInv, WrittenOK, CleanOK
<1>16. CASE RevertFails
  BY <1>16 DEF RevertFails, CleanInv
<1>17. CASE Crash
  <2>1. saving'.phase = "none"
    BY <1>17 DEF Crash, NoSave
  <2>2. buffer' = [text |-> disk'.text, alt |-> versionId'] \/ dirty' = TRUE
    BY <1>17 DEF Crash
  <2> QED
    BY <2>1, <2>2 DEF CleanInv, WrittenOK, CleanOK
<1> QED
  BY <1>2, <1>3, <1>4, <1>5, <1>6, <1>7, <1>8, <1>9, <1>10, <1>11, <1>12,
     <1>13, <1>14, <1>15, <1>16, <1>17
  DEF Next, Saves

\* At the beginning there is one text, which is shown and in the file.
LEMMA CleanInit == ASSUME Init PROVE OldTexts /\ CleanInv
<1>1. Shown = {buffer}
  BY EntriesOfStack DEF Init, Shown
<1>2. OldCopy(backup, mishaps) /\ OldCopy(io, mishaps)
  BY BackupKinds DEF Init, OldCopy, IsCopy
<1>3. saving.phase = "none"
  BY DEF Init, NoSave
<1>4. mishaps = 0 /\ Old(1, mishaps)
  <2>1. Oldest(0) \in Int /\ Oldest(0) <= 0
    BY OldestAges
  <2>2. mishaps = 0 /\ Oldest(0) <= 1
    BY <2>1 DEF Init
  <2> QED
    BY <2>2 DEF Old
<1>5. OldTexts
  BY <1>1, <1>2, <1>3, <1>4 DEF Init, OldTexts
<1> QED
  BY <1>3, <1>5 DEF Init, CleanInv, WrittenOK, CleanOK

\* A model that is not dirty shows what is in the file unless the file has a
\* text it does not know, for any edits, saves, forced or not, reloads, reverts,
\* failures and crashes.
THEOREM SavedIsOnDisk == Spec => []CleanIsOnDisk
<1> DEFINE IInv == StatsInv /\ EditsInv /\ OldTexts /\ CleanInv
<1>1. Init => IInv
  BY StatsInit, EditsInit, CleanInit
<1>2. IInv /\ [Next]_vars => IInv'
  BY StatsNext, EditsNext, OldNext, CleanNext
<1>3. IInv => CleanIsOnDisk
  BY DEF CleanInv, CleanOK, Own, Writing, CleanIsOnDisk
<1> HIDE DEF IInv
<1> QED
  BY <1>1, <1>2, <1>3, PTL DEF Spec

=============================================================================
