------------------------------ MODULE TextFile ------------------------------
(***************************************************************************)
(* A file open in an editor: its model, with saving, reverting and         *)
(* reloading (workbench/services/textfile/common/textFileEditorModel.ts    *)
(* and textFileEditorModelManager.ts), the dirty-write prevention of the   *)
(* file service (platform/files/common/fileService.ts), and the backup of  *)
(* unsaved text that survives a crash                                      *)
(* (workbench/services/workingCopy/common/workingCopyBackupTracker.ts and  *)
(* workingCopyBackupService.ts).                                           *)
(*                                                                         *)
(* A text is a number, a positive one when it was typed here, a negative   *)
(* one when another program or a write that was cut off left it.  Texts    *)
(* that differ have different sizes: a change that keeps the size is not   *)
(* noticed (fileService.ts:506).  A read of the file takes its text and    *)
(* its stat at one time, a save checks the file as its participants end, a *)
(* backup is made of what there is when the backup service turns to it,    *)
(* and the file is not deleted.  A save without participants is one whose  *)
(* participants do nothing.                                                *)
(***************************************************************************)
EXTENDS Integers, Sequences, SequencesExt

CONSTANTS
    MaxChanges,      \* bound: edits, undos, redos and saves by command
    MaxMishaps       \* bound: writes of another program, failures of the
                     \* file system and crashes of the window

ASSUME ConstantsAssumption ==
    {MaxChanges, MaxMishaps} \subseteq Nat

VARIABLES
    \* the model
    buffer,          \* the text shown, and its alternative version id
    undoStack, redoStack, versionId,
    savedAlt,        \* bufferSavedVersionId
    dirty, inConflictMode, inErrorMode,
    lastStat,        \* lastResolvedFileStat
    saving, queued,  \* saveSequentializer
    reloads,         \* reloads in the modelResolveQueue
    reload, revert,  \* the one under way
    \* the file and its watcher
    disk, event,
    \* the backup
    operation,       \* pendingBackupOperations
    io,              \* the operation the backup service is carrying out
    backup,
    undone,          \* lastModelContentChangeFromUndoRedo is set
    changes, mishaps,
    known,           \* (history) texts the model was loaded with or saved
    astray,          \* (history) what may have left the model with a text
                     \* not in the file, and not dirty: "undo", "revert"
                     \* that reads nothing, revert that "failed", a read of
                     \* the file that "crossed" a save
    raced,           \* (history) another program wrote in the middle of a save
    missed           \* (history) the last operation of the backup failed

flags == <<dirty, inConflictMode, inErrorMode, savedAlt>>
textVars == <<buffer, undoStack, redoStack, versionId>>
saveVars == <<saving, queued>>
readVars == <<reloads, reload, revert>>
fileVars == <<disk, event>>
backupVars == <<operation, io, backup>>
bounds == <<undone, changes, mishaps>>
history == <<known, astray, raced, missed>>
vars == <<buffer, undoStack, redoStack, versionId, savedAlt, dirty,
          inConflictMode, inErrorMode, lastStat, saving, queued, reloads,
          reload, revert, disk, event, operation, io, backup, undone,
          changes, mishaps, known, astray, raced, missed>>

NoSave == [phase |-> "none"]
NoQueued == [active |-> FALSE]
NoReload == [active |-> FALSE]
NoRevert == [phase |-> "none"]

Saving == saving.phase # "none"
Writing == saving.phase \in {"writing", "written"}

-----------------------------------------------------------------------------
(* The flags, and the events that keep the backup up to date               *)

Idle == [kind |-> "idle"]
Scheduled == [kind |-> "scheduled"]
Discarding == [kind |-> "discarding"]

\* onDidChangeDirty of the backup tracker, which cancels what is pending.
\* (onDidChangeContent schedules a backup of a model that is dirty.)
KeepsPending(now) ==
    IF operation # Idle THEN operation
    ELSE IF now THEN Scheduled ELSE Discarding
DirtyChanged(now) == IF now THEN Scheduled ELSE Discarding
TellIf(changed, now) ==
    operation' = IF changed THEN DirtyChanged(now) ELSE operation

\* setDirty(false): the model is saved in its current version.
MarkSaved(alt) ==
    /\ dirty' = FALSE /\ inConflictMode' = FALSE /\ inErrorMode' = FALSE
    /\ savedAlt' = alt
    /\ TellIf(dirty, FALSE)

\* updateLastResolvedFileStat: stats do not go back in time.
LaterStat(stat) == IF lastStat.mtime <= stat.mtime THEN stat ELSE lastStat

-----------------------------------------------------------------------------
(* The user                                                                *)

\* Typing, or a save participant that edits.
Type ==
    /\ changes < MaxChanges
    /\ changes' = changes + 1
    /\ versionId' = versionId + 1
    /\ undoStack' = Append(undoStack, buffer)
    /\ redoStack' = <<>>
    /\ buffer' = [text |-> changes' + 1, alt |-> versionId']
    /\ dirty' = TRUE
    /\ operation' = Scheduled
    /\ UNCHANGED <<savedAlt, inConflictMode, inErrorMode, lastStat, mishaps,
                   undone, io, backup>>
    /\ UNCHANGED <<saveVars, readVars, fileVars, history>>

\* The texts the model has loaded or saved, or is saving.
Own == known \cup IF Writing THEN {saving.text} ELSE {}

\* onModelContentChanged of an undo or a redo: the version that was last saved
\* while it was shown is reached again, or the model is dirty.  It is taken for
\* saved also when another text of its own is in the file by now, or is being
\* written.
GoTo(version) ==
    /\ changes < MaxChanges
    /\ changes' = changes + 1
    /\ undone' = TRUE
    /\ versionId' = versionId + 1
    /\ buffer' = version
    /\ \/ /\ version.alt = savedAlt
          /\ MarkSaved(savedAlt)
          /\ astray' = IF \/ disk.text \in Own \ {version.text}
                          \/ saving.phase = "writing"
                               /\ saving.text # version.text
                       THEN astray \cup {"undo"} ELSE astray
       \/ /\ version.alt # savedAlt
          /\ dirty' = TRUE
          /\ operation' = Scheduled
          /\ UNCHANGED <<inConflictMode, inErrorMode, savedAlt, astray>>
    /\ UNCHANGED <<lastStat, mishaps, known, raced, missed, io, backup>>
    /\ UNCHANGED <<saveVars, readVars, fileVars>>

Undo ==
    /\ undoStack # <<>>
    /\ undoStack' = Front(undoStack)
    /\ redoStack' = Append(redoStack, buffer)
    /\ GoTo(Last(undoStack))

Redo ==
    /\ redoStack # <<>>
    /\ redoStack' = Front(redoStack)
    /\ undoStack' = Append(undoStack, buffer)
    /\ GoTo(Last(redoStack))

-----------------------------------------------------------------------------
(* Saving                                                                  *)

\* An auto save, the save of all files, the command to save this one, which is
\* forced, and a save that is to overwrite what caused a conflict.
Requests == {"auto", "plain", "forced", "overwrite"}

\* doSaveSequential: the save participants come first, after a delay when
\* an auto save closely follows an undo.
Started(request) ==
    {[phase |-> phase, id |-> versionId, overwrite |-> request = "overwrite",
      cancelled |-> FALSE] :
        phase \in {"participants"} \cup IF request = "auto" /\ undone
                                         THEN {"delayed"} ELSE {}}

\* save and doSave.  A model that is not dirty is saved when the save is forced.
\* While the participants run, and while the same version is being saved,
\* nothing is done.
Save(request) ==
    /\ request = "auto" => ~inConflictMode /\ ~inErrorMode
    /\ request = "overwrite" => inConflictMode
    /\ dirty \/ request = "forced"
    /\ IF request = "auto" THEN UNCHANGED changes
       ELSE changes < MaxChanges /\ changes' = changes + 1
    /\ \/ /\ ~Saving
          /\ saving' \in Started(request)
          /\ UNCHANGED queued
       \/ /\ Saving /\ saving.phase # "participants"
          /\ saving.id # versionId
          /\ saving' = IF saving.phase = "delayed"
                       THEN [saving EXCEPT !.cancelled = TRUE] ELSE saving
          /\ queued' = [active |-> TRUE, request |-> request]
    /\ UNCHANGED <<lastStat, undone, mishaps, history>>
    /\ UNCHANGED <<textVars, flags, readVars, fileVars, backupVars>>

\* TaskSequentializer.runQueued, when a save is over: doSave again, with the
\* version there is now.  A save that overwrites is forced when the one that
\* met the conflict was.
RunsQueued ==
    \/ /\ queued.active
       /\ dirty' \/ queued.request \in {"forced", "overwrite"}
       /\ saving' \in Started(queued.request)
    \/ /\ queued.active => ~dirty' /\ queued.request # "forced"
       /\ saving' = NoSave

SaveOver ==
    /\ RunsQueued
    /\ queued' = NoQueued

DelayEnds ==
    /\ saving.phase = "delayed"
    /\ \/ /\ ~saving.cancelled
          /\ saving' = [saving EXCEPT !.phase = "participants"]
          /\ UNCHANGED queued
       \/ saving.cancelled /\ UNCHANGED dirty /\ SaveOver
    /\ UNCHANGED <<lastStat, history>>
    /\ UNCHANGED <<textVars, flags, readVars, fileVars, backupVars, bounds>>

\* handleSaveError.
SaveFails(conflict) ==
    /\ dirty' = TRUE /\ inErrorMode' = TRUE
    /\ inConflictMode' = (inConflictMode \/ conflict)
    /\ TellIf(~dirty, TRUE)
    /\ SaveOver
    /\ UNCHANGED <<lastStat, savedAlt, history, io, backup>>
    /\ UNCHANGED <<textVars, readVars, changes, undone>>

\* A participant, or the user, gives the save up.
GiveUp ==
    /\ saving.phase = "participants"
    /\ UNCHANGED dirty
    /\ SaveOver
    /\ UNCHANGED <<lastStat, savedAlt, inConflictMode, inErrorMode>>
    /\ UNCHANGED <<textVars, readVars, fileVars, backupVars, bounds, history>>

\* validateWriteFile: the file has changed since the model took its stat.
NeverConflicts(text) == FALSE
Conflicts(text) ==
    /\ ~saving.overwrite
    /\ lastStat.mtime < disk.mtime
    /\ lastStat.text # disk.text
    /\ text # disk.text

\* The participants are done: what there is now is to be written.
ParticipantsEnd ==
    /\ saving.phase = "participants"
    /\ \/ /\ Conflicts(buffer.text)
          /\ SaveFails(TRUE)
          /\ UNCHANGED <<fileVars, mishaps>>
       \/ /\ ~Conflicts(buffer.text)
          /\ saving' = [phase |-> "writing", id |-> versionId,
                        text |-> buffer.text, overwrite |-> saving.overwrite]
          /\ inErrorMode' = FALSE
          /\ UNCHANGED <<lastStat, queued, dirty, inConflictMode, savedAlt>>
          /\ UNCHANGED <<textVars, readVars, fileVars, backupVars, bounds,
                         history>>

\* A text that nobody here has seen.
Foreign == -(2 * mishaps')

Written(text) == [text |-> text, mtime |-> disk.mtime + 1]

WriteFile ==
    /\ saving.phase = "writing"
    /\ disk' = Written(saving.text)
    /\ event' = TRUE
    /\ saving' = [saving EXCEPT !.phase = "written"]
    /\ UNCHANGED <<queued, lastStat>>
    /\ UNCHANGED <<textVars, flags, readVars, backupVars, bounds, history>>

\* An error of the file system, before or in the middle of the write, or of the
\* stat that follows it.
WriteFails ==
    /\ mishaps < MaxMishaps
    /\ mishaps' = mishaps + 1
    /\ Writing
    /\ SaveFails(FALSE)
    /\ \/ UNCHANGED fileVars
       \/ /\ saving.phase = "writing"
          /\ disk' = Written(Foreign) /\ event' = TRUE

\* handleSaveSuccess.
AnyVersion == TRUE
SameVersion == saving.id = versionId

SaveSucceeds ==
    /\ saving.phase = "written"
    /\ lastStat' = LaterStat(disk)
    /\ known' = known \cup {saving.text}
    /\ \/ SameVersion /\ MarkSaved(buffer.alt)
       \/ ~SameVersion /\ UNCHANGED <<flags, operation>>
    /\ SaveOver
    /\ UNCHANGED <<astray, raced, missed, io, backup>>
    /\ UNCHANGED <<textVars, readVars, fileVars, bounds>>

-----------------------------------------------------------------------------
(* Reading the file again                                                  *)

\* resolveFromContent.  An equal text is no change.  A save that is being
\* written goes on.
Load ==
    /\ lastStat' = LaterStat(disk)
    /\ \/ disk.text = buffer.text /\ UNCHANGED textVars
       \/ /\ disk.text # buffer.text
          /\ versionId' = versionId + 1
          /\ undoStack' = Append(undoStack, buffer)
          /\ redoStack' = <<>>
          /\ buffer' = [text |-> disk.text, alt |-> versionId']
    /\ dirty' = FALSE /\ inConflictMode' = FALSE /\ inErrorMode' = FALSE
    /\ savedAlt' = buffer'.alt
    /\ known' = known \cup {disk.text}
    /\ astray' = IF saving.phase = "writing" /\ saving.text # disk.text
                 THEN astray \cup {"crossed"} ELSE astray

KeepsAll == UNCHANGED <<lastStat, known, textVars, flags>>

\* onDidFilesChange: a model that is not dirty is reloaded; of two reloads
\* the second waits for the first.
FileChanged ==
    /\ event
    /\ event' = FALSE
    /\ reloads' = IF dirty THEN reloads ELSE Min({2, reloads + 1})
    /\ UNCHANGED <<lastStat, reload, revert, disk>>
    /\ UNCHANGED <<textVars, flags, saveVars, backupVars, bounds, history>>

\* reload and resolve.
ReloadStarts ==
    /\ reloads > 0
    /\ ~reload.active
    /\ revert = NoRevert
    /\ \/ (dirty \/ Saving) /\ reloads' = reloads - 1 /\ UNCHANGED reload
       \/ /\ ~dirty /\ ~Saving
          /\ reload' = [active |-> TRUE, version |-> versionId,
                        stat |-> lastStat]
          /\ UNCHANGED reloads
    /\ UNCHANGED <<lastStat, revert>>
    /\ UNCHANGED <<textVars, flags, saveVars, fileVars, backupVars, bounds,
                   history>>

\* The text is taken unless the model has changed meanwhile; a file that is
\* not modified is not read.
LoadsAnyway(version) == TRUE
StillAt(version) == version = versionId

ReloadEnds ==
    /\ reload.active
    /\ reload' = NoReload
    /\ reloads' = reloads - 1
    /\ \/ StillAt(reload.version) /\ disk # reload.stat /\ Load
       \/ /\ ~StillAt(reload.version) \/ disk = reload.stat
          /\ KeepsAll /\ UNCHANGED astray
    /\ TellIf(dirty # dirty', FALSE)
    /\ UNCHANGED <<revert, raced, missed, io, backup>>
    /\ UNCHANGED <<saveVars, fileVars, bounds>>

\* The error is logged.
ReloadFails ==
    /\ mishaps < MaxMishaps
    /\ mishaps' = mishaps + 1
    /\ reload.active
    /\ reload' = NoReload
    /\ reloads' = reloads - 1
    /\ UNCHANGED <<lastStat, revert, changes, undone>>
    /\ UNCHANGED <<textVars, flags, saveVars, fileVars, backupVars, history>>

\* A revert that reads nothing takes the text for saved.
NothingRead(was, now) ==
    /\ revert' = NoRevert
    /\ TellIf(was.dirty, now)
    /\ astray' = astray \cup {"revert"}

\* The read of a revert, which resolve() skips if there has been typing or
\* while a save is under way.
RevertReads(was, now) ==
    \/ /\ ~now /\ ~Saving
       /\ revert' = [phase |-> "reading", version |-> versionId, was |-> was]
       /\ UNCHANGED <<operation, astray>>
    \/ (now \/ Saving) /\ NothingRead(was, now)

\* revert: the flags are cleared first, and nobody is told yet.  A soft revert
\* does not read.
Revert ==
    /\ revert.phase = "none"
    /\ dirty' = FALSE /\ inConflictMode' = FALSE /\ inErrorMode' = FALSE
    /\ savedAlt' = buffer.alt
    /\ LET was == [dirty |-> dirty, conflict |-> inConflictMode,
                   error |-> inErrorMode, alt |-> savedAlt]
       IN \/ /\ reload.active
             /\ revert' = [phase |-> "waiting", was |-> was]
             /\ UNCHANGED <<operation, astray>>
          \/ ~reload.active /\ RevertReads(was, FALSE)
          \/ NothingRead(was, FALSE)
    /\ UNCHANGED <<lastStat, reloads, reload, known, raced, missed, io, backup>>
    /\ UNCHANGED <<textVars, saveVars, fileVars, bounds>>

RevertStarts ==
    /\ revert.phase = "waiting"
    /\ ~reload.active
    /\ RevertReads(revert.was, dirty)
    /\ UNCHANGED <<lastStat, reloads, reload, known, raced, missed, io, backup>>
    /\ UNCHANGED <<textVars, flags, saveVars, fileVars, bounds>>

RevertEnds ==
    /\ revert.phase = "reading"
    /\ revert' = NoRevert
    /\ \/ StillAt(revert.version) /\ Load
       \/ /\ ~StillAt(revert.version)
          /\ KeepsAll
          /\ astray' = astray \cup {"revert"}
    /\ TellIf(revert.was.dirty \/ dirty # dirty', dirty')
    /\ UNCHANGED <<reloads, reload, raced, missed, io, backup>>
    /\ UNCHANGED <<saveVars, fileVars, bounds>>

\* The flags are what they were before the revert, whatever happened since, and
\* nobody is told.
RevertFails ==
    /\ mishaps < MaxMishaps
    /\ mishaps' = mishaps + 1
    /\ revert.phase = "reading"
    /\ revert' = NoRevert
    /\ dirty' = revert.was.dirty
    /\ inConflictMode' = revert.was.conflict
    /\ inErrorMode' = revert.was.error
    /\ savedAlt' = revert.was.alt
    /\ astray' = astray \cup {"failed"}
    /\ UNCHANGED <<lastStat, reloads, reload, known, raced, missed,
                   changes, undone>>
    /\ UNCHANGED <<textVars, saveVars, fileVars, backupVars>>

-----------------------------------------------------------------------------
(* The backup                                                              *)

NoBackup == [kind |-> "none"]
Copy == [kind |-> "copy", text |-> buffer.text, stat |-> lastStat,
         known |-> known]
Removal == [kind |-> "removal"]
Running == [kind |-> "running"]

\* The operation that is pending is due, a backup after its delay, and the
\* backup service is free.  What the service has begun it completes.
BackupStarts ==
    /\ io = Idle
    /\ \/ operation = Scheduled /\ dirty /\ io' = Copy /\ operation' = Running
       \/ operation = Scheduled /\ ~dirty /\ operation' = Idle /\ UNCHANGED io
       \/ operation = Discarding /\ io' = Removal /\ operation' = Running
    /\ UNCHANGED <<lastStat, backup>>
    /\ UNCHANGED <<textVars, flags, saveVars, readVars, fileVars, bounds,
                   history>>

AfterIo == IF io = Removal THEN NoBackup ELSE io

BackupEnds ==
    /\ io # Idle
    /\ io' = Idle
    /\ backup' = AfterIo
    /\ operation' = IF operation = Running THEN Idle ELSE operation
    /\ missed' = (missed /\ operation # Running)
    /\ UNCHANGED <<lastStat, known, astray, raced>>
    /\ UNCHANGED <<textVars, flags, saveVars, readVars, fileVars, bounds>>

\* What is left of the backup when the operation is cut off: a write leaves the
\* one there was, none, or a part.
CutOff(part) ==
    {backup} \cup IF io = Removal THEN {}
                  ELSE {NoBackup, [io EXCEPT !.text = part]}

\* The error is logged, and nothing is tried again.
BackupFails ==
    /\ mishaps < MaxMishaps
    /\ mishaps' = mishaps + 1
    /\ io # Idle
    /\ io' = Idle
    /\ backup' \in CutOff(Foreign)
    /\ operation' = IF operation = Running THEN Idle ELSE operation
    /\ missed' = (missed \/ operation = Running)
    /\ UNCHANGED <<lastStat, known, astray, raced, changes, undone>>
    /\ UNCHANGED <<textVars, flags, saveVars, readVars, fileVars>>

-----------------------------------------------------------------------------
(* The rest of the world                                                   *)

WriteOutside ==
    /\ mishaps < MaxMishaps
    /\ mishaps' = mishaps + 1
    /\ disk' = Written(Foreign)
    /\ event' = TRUE
    /\ raced' = (raced \/ Writing)
    /\ UNCHANGED <<lastStat, changes, undone, known, astray, missed>>
    /\ UNCHANGED <<textVars, flags, saveVars, readVars, backupVars>>

\* What a crash leaves of the file and of the backup.
CrashedFile ==
    {disk} \cup IF saving.phase = "writing" THEN {Written(Foreign)} ELSE {}
CrashedBackup ==
    IF io = Idle THEN {backup} ELSE CutOff(Foreign + 1) \cup {AfterIo}

\* doResolveFromBackup: the stat is the one the text was based on.
StatNow(copy) == disk'
StatOf(copy) == copy.stat

\* The window crashes and is opened again: the model is resolved from the
\* backup, if there is one, or from the file.
Crash ==
    /\ mishaps < MaxMishaps
    /\ mishaps' = mishaps + 1
    /\ disk' \in CrashedFile
    /\ backup' \in CrashedBackup
    /\ versionId' = versionId + 1
    /\ undoStack' = <<>> /\ redoStack' = <<>>
    /\ inConflictMode' = FALSE /\ inErrorMode' = FALSE
    /\ \/ /\ backup' = NoBackup
          /\ buffer' = [text |-> disk'.text, alt |-> versionId']
          /\ dirty' = FALSE /\ savedAlt' = versionId'
          /\ lastStat' = disk' /\ known' = {disk'.text}
          /\ operation' = Idle
       \/ /\ backup' # NoBackup
          /\ buffer' = [text |-> backup'.text, alt |-> versionId']
          /\ dirty' = TRUE /\ savedAlt' = 0
          /\ lastStat' = StatOf(backup') /\ known' = backup'.known
          /\ operation' = Scheduled
    /\ saving' = NoSave /\ queued' = NoQueued
    /\ reloads' = 0 /\ reload' = NoReload /\ revert' = NoRevert
    /\ event' = FALSE
    /\ io' = Idle
    /\ undone' = FALSE
    /\ astray' = {} /\ raced' = (raced /\ backup' # NoBackup)
    /\ missed' = FALSE
    /\ UNCHANGED changes

-----------------------------------------------------------------------------
Init ==
    /\ buffer = [text |-> 1, alt |-> 1]
    /\ undoStack = <<>> /\ redoStack = <<>>
    /\ versionId = 1 /\ savedAlt = 1
    /\ dirty = FALSE /\ inConflictMode = FALSE /\ inErrorMode = FALSE
    /\ disk = [text |-> 1, mtime |-> 1]
    /\ lastStat = disk
    /\ saving = NoSave /\ queued = NoQueued
    /\ reloads = 0 /\ reload = NoReload /\ revert = NoRevert
    /\ event = FALSE
    /\ operation = Idle /\ io = Idle /\ backup = NoBackup
    /\ changes = 0 /\ mishaps = 0
    /\ undone = FALSE
    /\ known = {1}
    /\ astray = {} /\ raced = FALSE /\ missed = FALSE

Saves ==
    DelayEnds \/ GiveUp \/ ParticipantsEnd \/ WriteFile \/ WriteFails
        \/ SaveSucceeds

Next ==
    \/ Type \/ Undo \/ Redo \/ Revert \/ WriteOutside \/ Crash
    \/ \E request \in Requests : Save(request)
    \/ Saves
    \/ FileChanged \/ ReloadStarts \/ ReloadEnds \/ ReloadFails
    \/ RevertStarts \/ RevertEnds \/ RevertFails
    \/ BackupStarts \/ BackupEnds \/ BackupFails

Spec == Init /\ [][Next]_vars

-----------------------------------------------------------------------------
(* Properties                                                              *)

\* A model that is not dirty shows what is in the file, or the file has a text
\* that the model has neither loaded nor saved: never is a text of the user's
\* own taken for saved that is not.  (Except after an undo to the version last
\* saved while another of the model's own texts is in the file or on its way
\* there, after a revert that reads nothing or fails, and after a read of the
\* file that ends in the middle of the write of another text, which a forced
\* save began meanwhile.)
CleanIsOnDisk ==
    ~dirty /\ ~Writing /\ revert = NoRevert /\ astray = {} =>
        buffer.text = disk.text \/ disk.text \notin known

\* A save replaces only what the model was loaded with or saved itself, also
\* when the text was restored from a backup after a crash, unless the user
\* wants to overwrite the file.  (Except when another program writes between
\* the check of a save and the stat it ends with.)
OverwritesOnlyTheKnown ==
    [][saving.phase = "writing" /\ saving'.phase = "written"
         => \/ saving.overwrite \/ raced
            \/ disk.text \in known \cup {saving.text}]_vars

\* Reloading never replaces a text that has not been in the file, whatever was
\* typed while the file was read.  (The exceptions of CleanIsOnDisk.)
ReloadsKeepEdits ==
    [][reload.active /\ ~reload'.active /\ astray = {}
         /\ undoStack' = Append(undoStack, buffer)
         => buffer.text \in known]_vars

\* Once the backup's delay is over and its operations are done, there is a
\* backup of exactly the text that a crash would lose, and none of a text that
\* is saved.  (Except after a revert that failed, and when the last of these
\* operations failed: it is logged and not tried again.)
BackupIsCurrent ==
    operation = Idle /\ io = Idle /\ revert = NoRevert
    /\ "failed" \notin astray /\ ~missed =>
        IF dirty THEN backup # NoBackup /\ backup.text = buffer.text
        ELSE backup = NoBackup
=============================================================================
