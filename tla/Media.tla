------------------------------- MODULE Media -------------------------------
(***************************************************************************)
(* The media of one instance: a file under its directory and a row in the  *)
(* database, written and removed in separate steps by the inbound handlers *)
(* and uploads (Storage.Save), by the cleaner (DeleteExpired) and by the   *)
(* deletion of the instance (DeleteByInstance, then the row whose removal  *)
(* cascades).  Downloads and sends read the row first and the file later.  *)
(*                                                                         *)
(* Source: internal/media/storage.go and cleaner.go,                       *)
(* storage/postgres/media_repo.go, app/inbound.go,                         *)
(* instance/service.go (Delete), httpapi/media.go,                         *)
(* message/senders_media.go.                                               *)
(***************************************************************************)
EXTENDS Integers, FiniteSets, Faults

CONSTANTS
    Media,      \* the media ids: Save draws a new one
    Inbound,    \* those of received messages; the others are uploads
    NoMedia

ASSUME MediaAssumption ==
    /\ Inbound \subseteq Media
    /\ NoMedia \notin Media
    /\ MaxFaults \in Nat

VARIABLES
    there,     \* the row of the instance exists
    file,      \* the file of each media
    row,       \* the row of each media
    save,      \* its Save
    event,     \* the message event of an inbound media
    deletion,  \* the DELETE of the instance
    cleaning,  \* the pass of the cleaner
    reader,    \* a download, or the sender of a media message
    up,        \* the process runs
    purged,    \* history: a deletion of the instance reached its media
    lost,      \* history: media whose INSERT committed and was reported as failed
    raced      \* history: media whose row was inserted after the directory was removed

storeVars   == <<there, file, row>>
historyVars == <<purged, lost, raced>>
vars == <<storeVars, save, event, deletion, cleaning, reader, up, historyVars, faults>>

-----------------------------------------------------------------------------
(* Values                                                                  *)

\* "temp": the temporary file is written; "named": it is renamed and the row
\* comes next; "undo": the row failed; "stuck": a file it could not remove.
Saving == {"temp", "named", "undo"}
Saved  == {"saved", "failed", "stuck", "crashed"}

\* The stages of Service.Delete and DeleteByInstance.
Deletion == [st: {"idle", "list", "files", "rows", "directory", "instance"},
             todo: SUBSET Media,
             failed: BOOLEAN]

\* A pass of the cleaner, and the media whose file it just removed.
Cleaning == [todo: SUBSET Media, current: Media \cup {NoMedia}]

\* "checked": Path returned the path of the file.
Reader == [st: {"idle", "checked", "missing"}, media: Media \cup {NoMedia}]

TypeOK ==
    /\ there \in BOOLEAN
    /\ file \in [Media -> {"none", "temp", "final"}]
    /\ row \in [Media -> {"none", "live", "expired"}]
    /\ save \in [Media -> {"none"} \cup Saving \cup Saved]
    /\ event \in [Media -> {"none", "media", "omitted", "failed"}]
    /\ deletion \in Deletion
    /\ cleaning \in Cleaning
    /\ reader \in Reader
    /\ up \in BOOLEAN
    /\ purged \in BOOLEAN
    /\ lost \in SUBSET Media
    /\ raced \in SUBSET Media
    /\ faults \in 0..MaxFaults

NoDeletion == [st |-> "idle", todo |-> {}, failed |-> FALSE]
NoCleaning == [todo |-> {}, current |-> NoMedia]
NoReader   == [st |-> "idle", media |-> NoMedia]

Init ==
    /\ there = TRUE
    /\ file = [m \in Media |-> "none"]
    /\ row = [m \in Media |-> "none"]
    /\ save = [m \in Media |-> "none"]
    /\ event = [m \in Media |-> "none"]
    /\ deletion = NoDeletion
    /\ cleaning = NoCleaning
    /\ reader = NoReader
    /\ up = TRUE
    /\ purged = FALSE
    /\ lost = {}
    /\ raced = {}
    /\ faults = 0

-----------------------------------------------------------------------------
(* Helpers                                                                 *)

\* ListByInstance and ListExpired.
Rows    == {m \in Media : row[m] # "none"}

\* Mutant: the time of the expiry is not compared.
Expired_All == Rows

Expired == {m \in Media : row[m] = "expired"}

OnlySaves == UNCHANGED <<there, event, deletion, cleaning, reader, up, purged>>

-----------------------------------------------------------------------------
(* Storage.Save                                                            *)

\* The content is there and within the limit: writeMediaFile makes the
\* directory and writes a temporary file in it.
WriteTemp(m) ==
    /\ up
    /\ save[m] = "none"
    /\ save' = [save EXCEPT ![m] = "temp"]
    /\ file' = [file EXCEPT ![m] = "temp"]
    /\ UNCHANGED <<row, lost, raced, faults>> /\ OnlySaves

\* The download failed, the content is empty or too large, or no temporary
\* file can be written.
NotWritten(m) ==
    /\ up
    /\ save[m] = "none"
    /\ Fault
    /\ save' = [save EXCEPT ![m] = "failed"]
    /\ UNCHANGED <<file, row, lost, raced>> /\ OnlySaves

\* The rename fails when the directory is gone.
Rename(m) ==
    /\ up
    /\ save[m] = "temp"
    /\ IF file[m] = "temp"
       THEN file' = [file EXCEPT ![m] = "final"] /\ save' = [save EXCEPT ![m] = "named"]
       ELSE save' = [save EXCEPT ![m] = "failed"] /\ UNCHANGED file
    /\ UNCHANGED <<row, lost, raced, faults>> /\ OnlySaves

\* repo.Create: the foreign key refuses the row of a deleted instance.
Insert(m) ==
    /\ up
    /\ save[m] = "named"
    /\ IF there
       THEN /\ row' = [row EXCEPT ![m] = "live"]
            /\ save' = [save EXCEPT ![m] = "saved"]
            /\ raced' = IF deletion.st = "instance" THEN raced \cup {m} ELSE raced
       ELSE /\ save' = [save EXCEPT ![m] = "undo"]
            /\ UNCHANGED <<row, raced>>
    /\ UNCHANGED <<file, lost, faults>> /\ OnlySaves

\* repo.Create reports an error; the row may be there all the same.
InsertFails(m) ==
    /\ up
    /\ save[m] = "named"
    /\ Fault
    /\ save' = [save EXCEPT ![m] = "undo"]
    /\ \/ there /\ row' = [row EXCEPT ![m] = "live"] /\ lost' = lost \cup {m}
       \/ UNCHANGED <<row, lost>>
    /\ UNCHANGED <<file, raced>> /\ OnlySaves

\* The file is removed again.
Undo(m) ==
    /\ up
    /\ save[m] = "undo"
    /\ save' = [save EXCEPT ![m] = "failed"]
    /\ file' = [file EXCEPT ![m] = "none"]
    /\ UNCHANGED <<row, lost, raced, faults>> /\ OnlySaves

\* It cannot be removed, and the error is ignored.
UndoFails(m) ==
    /\ up
    /\ save[m] = "undo"
    /\ Fault
    /\ save' = [save EXCEPT ![m] = "stuck"]
    /\ UNCHANGED <<file, row, lost, raced>> /\ OnlySaves

\* Mutant: the event does not wait for the save.
Announce_Early(m) ==
    /\ up
    /\ m \in Inbound
    /\ save[m] # "none"
    /\ event[m] = "none"
    /\ event' = [event EXCEPT ![m] = IF save[m] = "saved" THEN "media" ELSE "omitted"]
    /\ UNCHANGED <<storeVars, save, deletion, cleaning, reader, up, historyVars, faults>>

\* handleInbound: the event carries the media or its omission.
Announce(m) ==
    /\ up
    /\ m \in Inbound
    /\ save[m] \in {"saved", "failed", "stuck"}
    /\ event[m] = "none"
    /\ \/ /\ event' = [event EXCEPT ![m] = IF save[m] = "saved" THEN "media" ELSE "omitted"]
          /\ UNCHANGED faults
       \/ /\ Fault
          /\ event' = [event EXCEPT ![m] = "failed"]
    /\ UNCHANGED <<storeVars, save, deletion, cleaning, reader, up, historyVars>>

-----------------------------------------------------------------------------
(* The deletion of the instance                                            *)

OnlyDeletes == UNCHANGED <<save, event, cleaning, reader, up, lost, raced>>

Abandon == deletion' = NoDeletion

\* Delete reads the row and removes the session (module Lifecycle).
Delete ==
    /\ up
    /\ deletion.st = "idle"
    /\ there
    /\ deletion' = [deletion EXCEPT !.st = "list"]
    /\ UNCHANGED <<storeVars, purged, faults>> /\ OnlyDeletes

\* DeleteByInstance: the rows it lists.
List ==
    /\ up
    /\ deletion.st = "list"
    /\ deletion' = [deletion EXCEPT !.st = "files", !.todo = Rows]
    /\ purged' = TRUE
    /\ UNCHANGED <<storeVars, faults>> /\ OnlyDeletes

\* removeFile; a missing file is no error.  All are tried.
RemoveFile(m) ==
    /\ up
    /\ deletion.st = "files"
    /\ m \in deletion.todo
    /\ \/ /\ file' = [file EXCEPT ![m] = "none"]
          /\ deletion' = [deletion EXCEPT !.todo = @ \ {m}]
          /\ UNCHANGED faults
       \/ /\ Fault
          /\ deletion' = [st |-> "files", todo |-> deletion.todo \ {m}, failed |-> TRUE]
          /\ UNCHANGED file
    /\ UNCHANGED <<there, row, purged>> /\ OnlyDeletes

\* A file that could not be removed keeps the rows and the instance.
FilesDone ==
    /\ up
    /\ deletion.st = "files"
    /\ deletion.todo = {}
    /\ IF deletion.failed THEN Abandon ELSE deletion' = [deletion EXCEPT !.st = "rows"]
    /\ UNCHANGED <<storeVars, purged, faults>> /\ OnlyDeletes

\* Every row of the instance, listed or not.
DeleteRows ==
    /\ up
    /\ deletion.st = "rows"
    /\ row' = [m \in Media |-> "none"]
    /\ deletion' = [deletion EXCEPT !.st = "directory"]
    /\ UNCHANGED <<there, file, purged, faults>> /\ OnlyDeletes

\* Mutant: only the files that were listed are removed.
RemoveAll_Listed ==
    /\ up
    /\ deletion.st = "directory"
    /\ deletion' = [deletion EXCEPT !.st = "instance"]
    /\ UNCHANGED <<storeVars, purged, faults>> /\ OnlyDeletes

\* The directory, temporary files and files without a row included.
RemoveAll ==
    /\ up
    /\ deletion.st = "directory"
    /\ file' = [m \in Media |-> "none"]
    /\ deletion' = [deletion EXCEPT !.st = "instance"]
    /\ UNCHANGED <<there, row, purged, faults>> /\ OnlyDeletes

\* repo.Delete: the rows of the media go with the instance.
DeleteInstance ==
    /\ up
    /\ deletion.st = "instance"
    /\ there' = FALSE
    /\ row' = [m \in Media |-> "none"]
    /\ Abandon
    /\ UNCHANGED <<file, purged, faults>> /\ OnlyDeletes

\* A statement fails, or the removal of the directory halfway: DELETE answers
\* an error and may be repeated.
DeletionFails ==
    /\ up
    /\ deletion.st \in {"list", "rows", "directory", "instance"}
    /\ Fault
    /\ Abandon
    /\ \E gone \in IF deletion.st = "directory" THEN SUBSET Media ELSE {{}} :
          file' = [m \in Media |-> IF m \in gone THEN "none" ELSE file[m]]
    /\ UNCHANGED <<there, row, purged>> /\ OnlyDeletes

-----------------------------------------------------------------------------
(* The cleaner                                                             *)

OnlyCleans == UNCHANGED <<there, save, event, deletion, reader, up, historyVars>>

\* The next one, or the end of the pass.
Cleaned(m) == cleaning' = [todo |-> cleaning.todo \ {m}, current |-> NoMedia]

\* DeleteExpired, at boot and then after every interval.
StartPass ==
    /\ up
    /\ cleaning = NoCleaning
    /\ Expired # {}
    /\ cleaning' = [cleaning EXCEPT !.todo = Expired]
    /\ UNCHANGED <<file, row, faults>> /\ OnlyCleans

\* Mutant: a file that is already missing is an error that keeps its row.
CleanFile_Strict(m) ==
    /\ up
    /\ cleaning.current = NoMedia
    /\ m \in cleaning.todo
    /\ IF file[m] = "none"
       THEN Cleaned(m) /\ UNCHANGED file
       ELSE file' = [file EXCEPT ![m] = "none"] /\ cleaning' = [cleaning EXCEPT !.current = m]
    /\ UNCHANGED <<row, faults>> /\ OnlyCleans

\* The file first; a missing file is no error.
CleanFile(m) ==
    /\ up
    /\ cleaning.current = NoMedia
    /\ m \in cleaning.todo
    /\ file' = [file EXCEPT ![m] = "none"]
    /\ cleaning' = [cleaning EXCEPT !.current = m]
    /\ UNCHANGED <<row, faults>> /\ OnlyCleans

\* A file that cannot be removed keeps its row for a later pass.
CleanFileFails(m) ==
    /\ up
    /\ cleaning.current = NoMedia
    /\ m \in cleaning.todo
    /\ Fault
    /\ Cleaned(m)
    /\ UNCHANGED <<file, row>> /\ OnlyCleans

\* The row; one that is already gone is no error.
CleanRow ==
    /\ up
    /\ cleaning.current # NoMedia
    /\ row' = [row EXCEPT ![cleaning.current] = "none"]
    /\ Cleaned(cleaning.current)
    /\ UNCHANGED <<file, faults>> /\ OnlyCleans

CleanRowFails ==
    /\ up
    /\ cleaning.current # NoMedia
    /\ Fault
    /\ Cleaned(cleaning.current)
    /\ UNCHANGED <<file, row>> /\ OnlyCleans

-----------------------------------------------------------------------------
(* Downloads and sends                                                     *)

OnlyReads == UNCHANGED <<storeVars, save, event, deletion, cleaning, up, historyVars, faults>>

\* Path: the row, its expiry, and whether the file is there.
Path(m) ==
    /\ up
    /\ reader.st = "idle"
    /\ row[m] = "live"
    /\ reader' = [st |-> IF file[m] = "final" THEN "checked" ELSE "missing", media |-> m]
    /\ OnlyReads

\* Open, or the upload of the sender: the file may be gone by now.
Open ==
    /\ up
    /\ reader.st = "checked"
    /\ reader' = IF file[reader.media] = "final" THEN NoReader ELSE [reader EXCEPT !.st = "missing"]
    /\ OnlyReads

\* The answer, or the error of the attempt.
Answer ==
    /\ up
    /\ reader.st = "missing"
    /\ reader' = NoReader
    /\ OnlyReads

-----------------------------------------------------------------------------
(* Time and crashes                                                        *)

\* expires_at passes.
Expire(m) ==
    /\ row[m] = "live"
    /\ row' = [row EXCEPT ![m] = "expired"]
    /\ UNCHANGED <<there, file, save, event, deletion, cleaning, reader, up, historyVars, faults>>

\* Files and rows survive.
Crash ==
    /\ up
    /\ Fault
    /\ up' = FALSE
    /\ save' = [m \in Media |-> IF save[m] \in Saving THEN "crashed" ELSE save[m]]
    /\ Abandon
    /\ cleaning' = NoCleaning
    /\ reader' = NoReader
    /\ UNCHANGED <<storeVars, event, historyVars>>

Restart ==
    /\ ~up
    /\ up' = TRUE
    /\ UNCHANGED <<storeVars, save, event, deletion, cleaning, reader, historyVars, faults>>

-----------------------------------------------------------------------------

Clean == StartPass \/ CleanRow \/ \E m \in Media : CleanFile(m)

Next ==
    \/ \E m \in Media :
         \/ WriteTemp(m) \/ NotWritten(m) \/ Rename(m) \/ Insert(m) \/ InsertFails(m)
         \/ Undo(m) \/ UndoFails(m) \/ Announce(m)
         \/ RemoveFile(m) \/ CleanFileFails(m) \/ Path(m) \/ Expire(m)
    \/ Delete \/ List \/ FilesDone \/ DeleteRows \/ RemoveAll \/ DeleteInstance \/ DeletionFails
    \/ Clean \/ CleanRowFails
    \/ Open \/ Answer
    \/ Crash \/ Restart

Spec == Init /\ [][Next]_vars

\* The cleaner runs for as long as the process does, and the process is
\* started again.
Fairness == WF_vars(Clean) /\ WF_vars(Restart)

FairSpec == Spec /\ Fairness

-----------------------------------------------------------------------------
(* Properties                                                              *)

Interrupted(m) == save[m] \in {"crashed", "stuck"}

\* A file that no row references belongs to a save that runs or was
\* interrupted, waits for the deletion that removed its row and may be
\* repeated as long as the instance is there, or to a save whose row was
\* inserted between the removal of the directory and that of the instance
\* (media/storage.go, the comment of Storage: a failed save leaves nothing behind).
OrphanHasCause ==
    \A m \in Media : file[m] # "none" /\ row[m] = "none" /\ save[m] \notin Saving =>
        \/ Interrupted(m)
        \/ there /\ purged
        \/ m \in raced

\* A valid row has its file, unless a deletion reached the media of the
\* instance or the answer of its INSERT was lost; the event of an inbound
\* message omits a stored media only in that last case (app/inbound.go, attachMedia).
ReferencesHold ==
    \A m \in Media :
        /\ row[m] = "live" /\ file[m] # "final" => purged \/ m \in lost
        /\ event[m] = "omitted" /\ row[m] # "none" => m \in lost

\* A download or a send that read a valid row misses the file only when the
\* media expired or was deleted under it, or its file never survived
\* (media/storage.go, Path: the note on its check and use).
MissHasCause ==
    LET m == reader.media IN
    reader.st = "missing" => purged \/ m \in lost \/ row[m] # "live"

\* An expired media is removed at some point, file and row, whatever fails in
\* one pass (media/cleaner.go, Run).
ExpiredIsRemoved ==
    \A m \in Media : row[m] = "expired" ~> row[m] = "none"
=============================================================================
