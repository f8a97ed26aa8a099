-------------------------- MODULE MediaMirrorProofs --------------------------
(***************************************************************************)
(* Proofs about the media of an instance and about the Chatwoot mirror, for*)
(* any number of failures and crashes.                                     *)
(*                                                                         *)
(* Media, for any set of media: a reference to a stored media holds, a file*)
(* without a row and a read that finds no file have a cause.  The stage of a*)
(* Save tells what file and row can be (SaveInv); what the cleaner removes *)
(* has expired for good (CleanInv); a deletion that reached the media is   *)
(* remembered, and one that removed the directory leaves only what is being*)
(* written (PurgeInv).                                                     *)
(*                                                                         *)
(* Mirror, for any streams and number of deliveries: what Chatwoot shows   *)
(* twice, shows after its deletion or never shows has a cause, and the last*)
(* notice is true.  Copies stay in the order of the stream (FifoInv), so an*)
(* event delivered once is out of the process when a later one is settled; *)
(* an event no post of which is loose has one post, known to the database or*)
(* in the hands of the handler (OnePostInv).                               *)
(***************************************************************************)
EXTENDS Media, Mirror, FiniteSetTheorems, WellFoundedInduction, TLAPS

-----------------------------------------------------------------------------
(* PART ONE: the media                                                     *)

\* The stages before the row is inserted: no cleaner or reader knows the media.
Unborn == {"none", "temp", "named"}

\* What the stage of a save says of its file and its row.
SaveInv ==
    \A m \in Media :
        /\ save[m] = "none" => file[m] = "none" /\ row[m] = "none"
        /\ save[m] = "temp" => row[m] = "none" /\ file[m] \in {"none", "temp"}
        /\ save[m] = "named" => row[m] = "none" /\ (file[m] = "final" \/ purged)
        /\ save[m] \in {"undo", "failed", "stuck", "crashed"} /\ row[m] # "none" => m \in lost
        /\ save[m] = "saved" /\ row[m] = "live" => file[m] = "final" \/ purged
        /\ save[m] = "failed" => file[m] = "none"
        /\ event[m] = "omitted" => save[m] \in {"failed", "stuck"}

\* What the cleaner and a reader hold was inserted; the cleaner's has
\* expired, and the file of the row it is about to remove is gone.
CleanInv ==
    /\ \A m \in cleaning.todo : row[m] # "live" /\ save[m] \notin Unborn
    /\ \A m \in Media : cleaning.current = m =>
          row[m] # "live" /\ save[m] \notin Unborn /\ file[m] = "none"
    /\ reader.st # "idle" => reader.media \in Media /\ save[reader.media] \notin Unborn

\* A file nobody is writing any more.
Settled(m) == file[m] # "none" /\ save[m] \notin Saving

\* What a deletion leaves behind.
PurgeInv ==
    /\ deletion.st \notin {"idle", "list"} => purged
    /\ deletion.st # "idle" => there
    /\ \A m \in Media : Settled(m) /\ row[m] = "none" => Interrupted(m) \/ purged
    /\ deletion.st = "instance" \/ ~there =>
          \A m \in Media : Settled(m) => Interrupted(m) \/ m \in raced

IInv == TypeOK /\ SaveInv /\ CleanInv /\ PurgeInv /\ MissHasCause

-----------------------------------------------------------------------------

LEMMA InitInv == Init => IInv
<1> SUFFICES ASSUME Init PROVE IInv
  OBVIOUS
<1>1. NoDeletion \in Deletion /\ NoCleaning \in Cleaning /\ NoReader \in Reader
  BY DEF NoDeletion, NoCleaning, NoReader, Deletion, Cleaning, Reader
<1>6. TypeOK
  <2>1. there \in BOOLEAN /\ up \in BOOLEAN /\ purged \in BOOLEAN
    BY Zenon DEF Init
  <2>2. faults \in 0..MaxFaults
    BY MediaAssumption DEF Init
  <2> QED
    BY <1>1, <2>1, <2>2 DEF Init, TypeOK
<1>2. SaveInv
  BY DEF Init, SaveInv
<1>3. CleanInv
  BY MediaAssumption DEF Init, CleanInv, NoCleaning, NoReader
<1>4. PurgeInv
  BY DEF Init, PurgeInv, NoDeletion, Settled
<1>5. MissHasCause
  BY DEF Init, MissHasCause, NoReader
<1> QED
  BY <1>2, <1>3, <1>4, <1>5, <1>6 DEF IInv

\* The type invariant.
LEMMA TypeStep == IInv /\ [Next]_vars => TypeOK'
<1> SUFFICES ASSUME IInv, [Next]_vars PROVE TypeOK'
  OBVIOUS
<1> USE MediaAssumption DEF IInv, TypeOK, Saving, Saved, Deletion, Cleaning, Reader, Fault,
   Rows, Expired
<1>a. NoDeletion \in Deletion /\ NoCleaning \in Cleaning /\ NoReader \in Reader
  BY DEF NoDeletion, NoCleaning, NoReader
<1>1. ASSUME NEW m \in Media, WriteTemp(m) PROVE TypeOK'
  BY <1>1 DEF WriteTemp, OnlySaves, storeVars
<1>2. ASSUME NEW m \in Media, NotWritten(m) PROVE TypeOK'
  BY <1>2 DEF NotWritten, OnlySaves, storeVars
<1>3. ASSUME NEW m \in Media, Rename(m) PROVE TypeOK'
  BY <1>3 DEF Rename, OnlySaves, storeVars
<1>4. ASSUME NEW m \in Media, Insert(m) PROVE TypeOK'
  BY <1>4 DEF Insert, OnlySaves, storeVars
<1>5. ASSUME NEW m \in Media, InsertFails(m) PROVE TypeOK'
  BY <1>5 DEF InsertFails, OnlySaves, storeVars
<1>6. ASSUME NEW m \in Media, Undo(m) PROVE TypeOK'
  BY <1>6 DEF Undo, OnlySaves, storeVars
<1>7. ASSUME NEW m \in Media, UndoFails(m) PROVE TypeOK'
  BY <1>7 DEF UndoFails, OnlySaves, storeVars
<1>8. ASSUME NEW m \in Media, Announce(m) PROVE TypeOK'
  BY <1>8 DEF Announce, storeVars, historyVars
<1>9. ASSUME NEW m \in Media, RemoveFile(m) PROVE TypeOK'
  <2>1. deletion.todo \ {m} \in SUBSET Media
    OBVIOUS
  <2>2. [st |-> "files", todo |-> deletion.todo \ {m}, failed |-> TRUE] \in Deletion
    BY <2>1, Zenon DEF Deletion
  <2>3. [deletion EXCEPT !.todo = @ \ {m}] \in Deletion
    BY SMT DEF Deletion
  <2>4. deletion' \in Deletion
    BY <1>9, <2>2, <2>3, Zenon DEF RemoveFile
  <2>5. faults' \in 0..MaxFaults
    BY <1>9 DEF RemoveFile
  <2> QED
    BY <1>9, <2>4, <2>5 DEF RemoveFile, OnlyDeletes
<1>10. ASSUME NEW m \in Media, CleanFile(m) PROVE TypeOK'
  BY <1>10 DEF CleanFile, OnlyCleans, historyVars, Cleaned, NoCleaning, Expired
<1>11. ASSUME NEW m \in Media, CleanFileFails(m) PROVE TypeOK'
  BY <1>11 DEF CleanFileFails, OnlyCleans, historyVars, Cleaned, NoCleaning, Expired
<1>12. ASSUME NEW m \in Media, Path(m) PROVE TypeOK'
  BY <1>12 DEF Path, OnlyReads, storeVars, historyVars
<1>13. ASSUME NEW m \in Media, Expire(m) PROVE TypeOK'
  BY <1>13 DEF Expire, historyVars
<1>14. CASE Delete
  BY <1>14 DEF Delete, OnlyDeletes, storeVars, Abandon, NoDeletion
<1>15. CASE List
  BY <1>15 DEF List, OnlyDeletes, storeVars, Abandon, NoDeletion
<1>16. CASE FilesDone
  <2>1. deletion' \in Deletion
    BY <1>16, <1>a DEF FilesDone, Abandon
  <2> QED
    BY <1>16, <2>1 DEF FilesDone, OnlyDeletes, storeVars
<1>17. CASE DeleteRows
  BY <1>17 DEF DeleteRows, OnlyDeletes, storeVars, Abandon, NoDeletion
<1>18. CASE RemoveAll
  BY <1>18 DEF RemoveAll, OnlyDeletes, storeVars, Abandon, NoDeletion
<1>19. CASE DeleteInstance
  BY <1>19 DEF DeleteInstance, OnlyDeletes, storeVars, Abandon, NoDeletion
<1>20. CASE DeletionFails
  BY <1>20 DEF DeletionFails, OnlyDeletes, storeVars, Abandon, NoDeletion
<1>21. CASE StartPass
  BY <1>21 DEF StartPass, OnlyCleans, historyVars, Cleaned, NoCleaning, Expired
<1>22. CASE CleanRow
  BY <1>22 DEF CleanRow, OnlyCleans, historyVars, Cleaned, NoCleaning, Expired
<1>23. CASE CleanRowFails
  BY <1>23 DEF CleanRowFails, OnlyCleans, historyVars, Cleaned, NoCleaning, Expired
<1>24. CASE Open
  BY <1>24 DEF Open, OnlyReads, storeVars, historyVars, NoReader
<1>25. CASE Answer
  BY <1>25 DEF Answer, OnlyReads, storeVars, historyVars, NoReader
<1>26. CASE Crash
  <2>1. save' \in [Media -> {"none"} \cup Saving \cup Saved]
    BY <1>26 DEF Crash
  <2>2. deletion' \in Deletion /\ cleaning' \in Cleaning /\ reader' \in Reader
    BY <1>26, <1>a DEF Crash, Abandon
  <2>3. up' \in BOOLEAN
    BY <1>26, Zenon DEF Crash
  <2>4. faults' \in 0..MaxFaults
    BY <1>26 DEF Crash
  <2> QED
    BY <1>26, <2>1, <2>2, <2>3, <2>4 DEF Crash, storeVars, historyVars
<1>27. CASE Restart
  BY <1>27 DEF Restart, storeVars, historyVars
<1>28. CASE UNCHANGED vars
  BY <1>28 DEF vars, storeVars, historyVars
<1> QED
  BY <1>1, <1>2, <1>3, <1>4, <1>5, <1>6, <1>7, <1>8, <1>9, <1>10, <1>11, <1>12, <1>13, <1>14,
     <1>15, <1>16, <1>17, <1>18, <1>19, <1>20, <1>21, <1>22, <1>23, <1>24, <1>25, <1>26, <1>27,
     <1>28 DEF Next, Clean

\* Saves keep their stages.
LEMMA SaveStep == IInv /\ [Next]_vars => SaveInv'
<1> SUFFICES ASSUME IInv, [Next]_vars PROVE SaveInv'
  OBVIOUS
<1> USE MediaAssumption DEF IInv, TypeOK, SaveInv, CleanInv, PurgeInv, Saving, Saved, Unborn,
   Deletion, Cleaning, Reader, Fault
<1>1. ASSUME NEW m \in Media, WriteTemp(m) PROVE SaveInv'
  BY <1>1 DEF WriteTemp, OnlySaves, storeVars
<1>2. ASSUME NEW m \in Media, NotWritten(m) PROVE SaveInv'
  BY <1>2 DEF NotWritten, OnlySaves, storeVars
<1>3. ASSUME NEW m \in Media, Rename(m) PROVE SaveInv'
  BY <1>3 DEF Rename, OnlySaves, storeVars
<1>4. ASSUME NEW m \in Media, Insert(m) PROVE SaveInv'
  BY <1>4 DEF Insert, OnlySaves, storeVars
<1>5. ASSUME NEW m \in Media, InsertFails(m) PROVE SaveInv'
  BY <1>5 DEF InsertFails, OnlySaves, storeVars
<1>6. ASSUME NEW m \in Media, Undo(m) PROVE SaveInv'
  BY <1>6 DEF Undo, OnlySaves, storeVars
<1>7. ASSUME NEW m \in Media, UndoFails(m) PROVE SaveInv'
  BY <1>7 DEF UndoFails, OnlySaves, storeVars
<1>8. ASSUME NEW m \in Media, Announce(m) PROVE SaveInv'
  BY <1>8 DEF Announce, storeVars, historyVars
<1>9. ASSUME NEW m \in Media, RemoveFile(m) PROVE SaveInv'
  BY <1>9 DEF RemoveFile, OnlyDeletes, storeVars, Abandon, NoDeletion
<1>10. ASSUME NEW m \in Media, CleanFile(m) PROVE SaveInv'
  BY <1>10 DEF CleanFile, OnlyCleans, historyVars, Cleaned, NoCleaning, Expired
<1>11. ASSUME NEW m \in Media, CleanFileFails(m) PROVE SaveInv'
  BY <1>11 DEF CleanFileFails, OnlyCleans, historyVars, Cleaned, NoCleaning, Expired
<1>12. ASSUME NEW m \in Media, Path(m) PROVE SaveInv'
  BY <1>12 DEF Path, OnlyReads, storeVars, historyVars
<1>13. ASSUME NEW m \in Media, Expire(m) PROVE SaveInv'
  BY <1>13 DEF Expire, historyVars
<1>14. CASE Delete
  BY <1>14 DEF Delete, OnlyDeletes, storeVars, Abandon, NoDeletion
<1>15. CASE List
  BY <1>15 DEF List, OnlyDeletes, storeVars, Abandon, NoDeletion
<1>16. CASE FilesDone
  BY <1>16 DEF FilesDone, OnlyDeletes, storeVars, Abandon, NoDeletion
<1>17. CASE DeleteRows
  BY <1>17 DEF DeleteRows, OnlyDeletes, storeVars, Abandon, NoDeletion
<1>18. CASE RemoveAll
  BY <1>18 DEF RemoveAll, OnlyDeletes, storeVars, Abandon, NoDeletion
<1>19. CASE DeleteInstance
  BY <1>19 DEF DeleteInstance, OnlyDeletes, storeVars, Abandon, NoDeletion
<1>20. CASE DeletionFails
  BY <1>20 DEF DeletionFails, OnlyDeletes, storeVars, Abandon, NoDeletion
<1>21. CASE StartPass
  BY <1>21 DEF StartPass, OnlyCleans, historyVars, Cleaned, NoCleaning, Expired
<1>22. CASE CleanRow
  BY <1>22 DEF CleanRow, OnlyCleans, historyVars, Cleaned, NoCleaning, Expired
<1>23. CASE CleanRowFails
  BY <1>23 DEF CleanRowFails, OnlyCleans, historyVars, Cleaned, NoCleaning, Expired
<1>24. CASE Open
  BY <1>24 DEF Open, OnlyReads, storeVars, historyVars, NoReader
<1>25. CASE Answer
  BY <1>25 DEF Answer, OnlyReads, storeVars, historyVars, NoReader
<1>26. CASE Crash
  BY <1>26 DEF Crash, storeVars, historyVars, Abandon, NoDeletion, NoCleaning, NoReader
<1>27. CASE Restart
  BY <1>27 DEF Restart, storeVars, historyVars
<1>28. CASE UNCHANGED vars
  BY <1>28 DEF vars, storeVars, historyVars
<1> QED
  BY <1>1, <1>2, <1>3, <1>4, <1>5, <1>6, <1>7, <1>8, <1>9, <1>10, <1>11, <1>12, <1>13, <1>14,
     <1>15, <1>16, <1>17, <1>18, <1>19, <1>20, <1>21, <1>22, <1>23, <1>24, <1>25, <1>26, <1>27,
     <1>28 DEF Next, Clean

\* The cleaner and a reader keep to media that were inserted.
LEMMA CleanStep == IInv /\ [Next]_vars => CleanInv'
<1> SUFFICES ASSUME IInv, [Next]_vars PROVE CleanInv'
  OBVIOUS
<1> USE MediaAssumption DEF IInv, TypeOK, SaveInv, CleanInv, Saving, Saved, Unborn, Cleaning,
   Reader
<1>1. ASSUME NEW m \in Media, WriteTemp(m) PROVE CleanInv'
  BY <1>1 DEF WriteTemp, OnlySaves, storeVars
<1>2. ASSUME NEW m \in Media, NotWritten(m) PROVE CleanInv'
  BY <1>2 DEF NotWritten, OnlySaves, storeVars
<1>3. ASSUME NEW m \in Media, Rename(m) PROVE CleanInv'
  BY <1>3 DEF Rename, OnlySaves, storeVars
<1>4. ASSUME NEW m \in Media, Insert(m) PROVE CleanInv'
  BY <1>4 DEF Insert, OnlySaves, storeVars
<1>5. ASSUME NEW m \in Media, InsertFails(m) PROVE CleanInv'
  BY <1>5 DEF InsertFails, OnlySaves, storeVars
<1>6. ASSUME NEW m \in Media, Undo(m) PROVE CleanInv'
  BY <1>6 DEF Undo, OnlySaves, storeVars
<1>7. ASSUME NEW m \in Media, UndoFails(m) PROVE CleanInv'
  BY <1>7 DEF UndoFails, OnlySaves, storeVars
<1>8. ASSUME NEW m \in Media, Announce(m) PROVE CleanInv'
  BY <1>8 DEF Announce, storeVars, historyVars
<1>9. ASSUME NEW m \in Media, RemoveFile(m) PROVE CleanInv'
  BY <1>9 DEF RemoveFile, OnlyDeletes, storeVars, Abandon, NoDeletion
<1>10. ASSUME NEW m \in Media, CleanFile(m) PROVE CleanInv'
  BY <1>10 DEF CleanFile, OnlyCleans, historyVars, Cleaned, NoCleaning, Expired
<1>11. ASSUME NEW m \in Media, CleanFileFails(m) PROVE CleanInv'
  BY <1>11 DEF CleanFileFails, OnlyCleans, historyVars, Cleaned, NoCleaning, Expired
<1>12. ASSUME NEW m \in Media, Path(m) PROVE CleanInv'
  BY <1>12 DEF Path, OnlyReads, storeVars, historyVars
<1>13. ASSUME NEW m \in Media, Expire(m) PROVE CleanInv'
  BY <1>13 DEF Expire, historyVars
<1>14. CASE Delete
  BY <1>14 DEF Delete, OnlyDeletes, storeVars, Abandon, NoDeletion
<1>15. CASE List
  BY <1>15 DEF List, OnlyDeletes, storeVars, Abandon, NoDeletion
<1>16. CASE FilesDone
  BY <1>16 DEF FilesDone, OnlyDeletes, storeVars, Abandon, NoDeletion
<1>17. CASE DeleteRows
  BY <1>17 DEF DeleteRows, OnlyDeletes, storeVars, Abandon, NoDeletion
<1>18. CASE RemoveAll
  BY <1>18 DEF RemoveAll, OnlyDeletes, storeVars, Abandon, NoDeletion
<1>19. CASE DeleteInstance
  BY <1>19 DEF DeleteInstance, OnlyDeletes, storeVars, Abandon, NoDeletion
<1>20. CASE DeletionFails
  BY <1>20 DEF DeletionFails, OnlyDeletes, storeVars, Abandon, NoDeletion
<1>21. CASE StartPass
  BY <1>21 DEF StartPass, OnlyCleans, historyVars, Cleaned, NoCleaning, Expired
<1>22. CASE CleanRow
  BY <1>22 DEF CleanRow, OnlyCleans, historyVars, Cleaned, NoCleaning, Expired
<1>23. CASE CleanRowFails
  BY <1>23 DEF CleanRowFails, OnlyCleans, historyVars, Cleaned, NoCleaning, Expired
<1>24. CASE Open
  BY <1>24 DEF Open, OnlyReads, storeVars, historyVars, NoReader
<1>25. CASE Answer
  BY <1>25 DEF Answer, OnlyReads, storeVars, historyVars, NoReader
<1>26. CASE Crash
  BY <1>26 DEF Crash, storeVars, historyVars, Abandon, NoDeletion, NoCleaning, NoReader
<1>27. CASE Restart
  BY <1>27 DEF Restart, storeVars, historyVars
<1>28. CASE UNCHANGED vars
  BY <1>28 DEF vars, storeVars, historyVars
<1> QED
  BY <1>1, <1>2, <1>3, <1>4, <1>5, <1>6, <1>7, <1>8, <1>9, <1>10, <1>11, <1>12, <1>13, <1>14,
     <1>15, <1>16, <1>17, <1>18, <1>19, <1>20, <1>21, <1>22, <1>23, <1>24, <1>25, <1>26, <1>27,
     <1>28 DEF Next, Clean

\* Deletions are remembered.
LEMMA PurgeStep == IInv /\ [Next]_vars => PurgeInv'
<1> SUFFICES ASSUME IInv, [Next]_vars PROVE PurgeInv'
  OBVIOUS
<1> USE MediaAssumption DEF IInv, TypeOK, SaveInv, CleanInv, PurgeInv, Settled, Interrupted,
   Saving, Saved, Unborn, Deletion, Cleaning
<1>1. ASSUME NEW m \in Media, WriteTemp(m) PROVE PurgeInv'
  BY <1>1 DEF WriteTemp, OnlySaves, storeVars
<1>2. ASSUME NEW m \in Media, NotWritten(m) PROVE PurgeInv'
  BY <1>2 DEF NotWritten, OnlySaves, storeVars
<1>3. ASSUME NEW m \in Media, Rename(m) PROVE PurgeInv'
  BY <1>3 DEF Rename, OnlySaves, storeVars
<1>4. ASSUME NEW m \in Media, Insert(m) PROVE PurgeInv'
  BY <1>4 DEF Insert, OnlySaves, storeVars
<1>5. ASSUME NEW m \in Media, InsertFails(m) PROVE PurgeInv'
  BY <1>5 DEF InsertFails, OnlySaves, storeVars
<1>6. ASSUME NEW m \in Media, Undo(m) PROVE PurgeInv'
  BY <1>6 DEF Undo, OnlySaves, storeVars
<1>7. ASSUME NEW m \in Media, UndoFails(m) PROVE PurgeInv'
  BY <1>7 DEF UndoFails, OnlySaves, storeVars
<1>8. ASSUME NEW m \in Media, Announce(m) PROVE PurgeInv'
  BY <1>8 DEF Announce, storeVars, historyVars
<1>9. ASSUME NEW m \in Media, RemoveFile(m) PROVE PurgeInv'
  <2>1. deletion'.st = deletion.st
    BY <1>9 DEF RemoveFile
  <2>2. purged' = purged /\ there' = there /\ row' = row /\ save' = save /\ raced' = raced
    BY <1>9 DEF RemoveFile, OnlyDeletes
  <2>3. \A n \in Media : file'[n] # "none" => file[n] # "none"
    BY <1>9 DEF RemoveFile
  <2> QED
    BY <2>1, <2>2, <2>3
<1>10. ASSUME NEW m \in Media, CleanFile(m) PROVE PurgeInv'
  BY <1>10 DEF CleanFile, OnlyCleans, historyVars, Cleaned, NoCleaning, Expired
<1>11. ASSUME NEW m \in Media, CleanFileFails(m) PROVE PurgeInv'
  BY <1>11 DEF CleanFileFails, OnlyCleans, historyVars, Cleaned, NoCleaning, Expired
<1>12. ASSUME NEW m \in Media, Path(m) PROVE PurgeInv'
  BY <1>12 DEF Path, OnlyReads, storeVars, historyVars
<1>13. ASSUME NEW m \in Media, Expire(m) PROVE PurgeInv'
  BY <1>13 DEF Expire, historyVars
<1>14. CASE Delete
  BY <1>14 DEF Delete, OnlyDeletes, storeVars, Abandon, NoDeletion
<1>15. CASE List
  BY <1>15 DEF List, OnlyDeletes, storeVars, Abandon, NoDeletion
<1>16. CASE FilesDone
  BY <1>16 DEF FilesDone, OnlyDeletes, storeVars, Abandon, NoDeletion
<1>17. CASE DeleteRows
  BY <1>17 DEF DeleteRows, OnlyDeletes, storeVars, Abandon, NoDeletion
<1>18. CASE RemoveAll
  BY <1>18 DEF RemoveAll, OnlyDeletes, storeVars, Abandon, NoDeletion
<1>19. CASE DeleteInstance
  BY <1>19 DEF DeleteInstance, OnlyDeletes, storeVars, Abandon, NoDeletion
<1>20. CASE DeletionFails
  BY <1>20 DEF DeletionFails, OnlyDeletes, storeVars, Abandon, NoDeletion
<1>21. CASE StartPass
  BY <1>21 DEF StartPass, OnlyCleans, historyVars, Cleaned, NoCleaning, Expired
<1>22. CASE CleanRow
  BY <1>22 DEF CleanRow, OnlyCleans, historyVars, Cleaned, NoCleaning, Expired
<1>23. CASE CleanRowFails
  BY <1>23 DEF CleanRowFails, OnlyCleans, historyVars, Cleaned, NoCleaning, Expired
<1>24. CASE Open
  BY <1>24 DEF Open, OnlyReads, storeVars, historyVars, NoReader
<1>25. CASE Answer
  BY <1>25 DEF Answer, OnlyReads, storeVars, historyVars, NoReader
<1>26. CASE Crash
  BY <1>26 DEF Crash, storeVars, historyVars, Abandon, NoDeletion, NoCleaning, NoReader
<1>27. CASE Restart
  BY <1>27 DEF Restart, storeVars, historyVars
<1>28. CASE UNCHANGED vars
  BY <1>28 DEF vars, storeVars, historyVars
<1> QED
  BY <1>1, <1>2, <1>3, <1>4, <1>5, <1>6, <1>7, <1>8, <1>9, <1>10, <1>11, <1>12, <1>13, <1>14,
     <1>15, <1>16, <1>17, <1>18, <1>19, <1>20, <1>21, <1>22, <1>23, <1>24, <1>25, <1>26, <1>27,
     <1>28 DEF Next, Clean

\* A read that found no file keeps its cause.
LEMMA MissStep == IInv /\ [Next]_vars => MissHasCause'
<1> SUFFICES ASSUME IInv, [Next]_vars PROVE MissHasCause'
  OBVIOUS
<1> USE MediaAssumption DEF IInv, TypeOK, SaveInv, CleanInv, PurgeInv, MissHasCause, Saving,
   Saved, Unborn, Reader
<1>1. ASSUME NEW m \in Media, WriteTemp(m) PROVE MissHasCause'
  BY <1>1 DEF WriteTemp, OnlySaves, storeVars
<1>2. ASSUME NEW m \in Media, NotWritten(m) PROVE MissHasCause'
  BY <1>2 DEF NotWritten, OnlySaves, storeVars
<1>3. ASSUME NEW m \in Media, Rename(m) PROVE MissHasCause'
  BY <1>3 DEF Rename, OnlySaves, storeVars
<1>4. ASSUME NEW m \in Media, Insert(m) PROVE MissHasCause'
  BY <1>4 DEF Insert, OnlySaves, storeVars
<1>5. ASSUME NEW m \in Media, InsertFails(m) PROVE MissHasCause'
  BY <1>5 DEF InsertFails, OnlySaves, storeVars
<1>6. ASSUME NEW m \in Media, Undo(m) PROVE MissHasCause'
  BY <1>6 DEF Undo, OnlySaves, storeVars
<1>7. ASSUME NEW m \in Media, UndoFails(m) PROVE MissHasCause'
  BY <1>7 DEF UndoFails, OnlySaves, storeVars
<1>8. ASSUME NEW m \in Media, Announce(m) PROVE MissHasCause'
  BY <1>8 DEF Announce, storeVars, historyVars
<1>9. ASSUME NEW m \in Media, RemoveFile(m) PROVE MissHasCause'
  BY <1>9 DEF RemoveFile, OnlyDeletes, storeVars, Abandon, NoDeletion
<1>10. ASSUME NEW m \in Media, CleanFile(m) PROVE MissHasCause'
  BY <1>10 DEF CleanFile, OnlyCleans, historyVars, Cleaned, NoCleaning, Expired
<1>11. ASSUME NEW m \in Media, CleanFileFails(m) PROVE MissHasCause'
  BY <1>11 DEF CleanFileFails, OnlyCleans, historyVars, Cleaned, NoCleaning, Expired
<1>12. ASSUME NEW m \in Media, Path(m) PROVE MissHasCause'
  BY <1>12 DEF Path, OnlyReads, storeVars, historyVars
<1>13. ASSUME NEW m \in Media, Expire(m) PROVE MissHasCause'
  BY <1>13 DEF Expire, historyVars
<1>14. CASE Delete
  BY <1>14 DEF Delete, OnlyDeletes, storeVars, Abandon, NoDeletion
<1>15. CASE List
  BY <1>15 DEF List, OnlyDeletes, storeVars, Abandon, NoDeletion
<1>16. CASE FilesDone
  BY <1>16 DEF FilesDone, OnlyDeletes, storeVars, Abandon, NoDeletion
<1>17. CASE DeleteRows
  BY <1>17 DEF DeleteRows, OnlyDeletes, storeVars, Abandon, NoDeletion
<1>18. CASE RemoveAll
  BY <1>18 DEF RemoveAll, OnlyDeletes, storeVars, Abandon, NoDeletion
<1>19. CASE DeleteInstance
  BY <1>19 DEF DeleteInstance, OnlyDeletes, storeVars, Abandon, NoDeletion
<1>20. CASE DeletionFails
  BY <1>20 DEF DeletionFails, OnlyDeletes, storeVars, Abandon, NoDeletion
<1>21. CASE StartPass
  BY <1>21 DEF StartPass, OnlyCleans, historyVars, Cleaned, NoCleaning, Expired
<1>22. CASE CleanRow
  BY <1>22 DEF CleanRow, OnlyCleans, historyVars, Cleaned, NoCleaning, Expired
<1>23. CASE CleanRowFails
  BY <1>23 DEF CleanRowFails, OnlyCleans, historyVars, Cleaned, NoCleaning, Expired
<1>24. CASE Open
  BY <1>24 DEF Open, OnlyReads, storeVars, historyVars, NoReader
<1>25. CASE Answer
  BY <1>25 DEF Answer, OnlyReads, storeVars, historyVars, NoReader
<1>26. CASE Crash
  BY <1>26 DEF Crash, storeVars, historyVars, Abandon, NoDeletion, NoCleaning, NoReader
<1>27. CASE Restart
  BY <1>27 DEF Restart, storeVars, historyVars
<1>28. CASE UNCHANGED vars
  BY <1>28 DEF vars, storeVars, historyVars
<1> QED
  BY <1>1, <1>2, <1>3, <1>4, <1>5, <1>6, <1>7, <1>8, <1>9, <1>10, <1>11, <1>12, <1>13, <1>14,
     <1>15, <1>16, <1>17, <1>18, <1>19, <1>20, <1>21, <1>22, <1>23, <1>24, <1>25, <1>26, <1>27,
     <1>28 DEF Next, Clean

LEMMA InvInductive == IInv /\ [Next]_vars => IInv'
  BY TypeStep, SaveStep, CleanStep, PurgeStep, MissStep DEF IInv

LEMMA InvImplies == IInv => ReferencesHold /\ OrphanHasCause
  BY DEF IInv, TypeOK, SaveInv, PurgeInv, ReferencesHold, OrphanHasCause, Settled, Interrupted,
     Saving, Saved

THEOREM Invariance == Spec => []IInv
  BY InitInv, InvInductive, PTL DEF Spec

-----------------------------------------------------------------------------

\* The type invariant of the media of an instance, of the saves, the cleaner,
\* the deletion and the readers that share them.
THEOREM TypeCorrect == Spec => []TypeOK
<1>1. IInv => TypeOK
  BY DEF IInv
<1> QED
  BY <1>1, Invariance, PTL

\* A valid row has its file, and an event omits a stored media, only as
\* ReferencesHold says (Storage.Save, attachMedia).
THEOREM ReferencesAreSound == Spec => []ReferencesHold
  BY InvImplies, Invariance, PTL

\* Files without a row have a cause (Storage.Save, DeleteByInstance).
THEOREM OrphansHaveCause == Spec => []OrphanHasCause
  BY InvImplies, Invariance, PTL

\* A read of a valid row misses its file only with a cause (Path, Open).
THEOREM MissesHaveCause == Spec => []MissHasCause
<1>1. IInv => MissHasCause
  BY DEF IInv
<1> QED
  BY <1>1, Invariance, PTL

-----------------------------------------------------------------------------
(* PART TWO: the mirror                                                    *)

\* A post of the event may be unknown to the database.
Excused(e) == e \in loose \cup down

\* The stages of storeCorrelation: the post is created.
Storing == {"put", "reread", "clean", "reput"}

\* A copy of the event is in the buffer.
Buffered(e) == \E i \in DOMAIN buffer : buffer[i] = e

\* The broker: an event that is not new was delivered, in the order of the
\* stream, and what the process knows of was delivered.
BrokerInv ==
    /\ \A e \in Events :
          /\ status[e] = "new" <=> sent[e] = 0
          /\ status[e] = "due" => sent[e] < MaxDeliver
          /\ status[e] = "dropped" => sent[e] = MaxDeliver
          /\ Buffered(e) \/ h.ev = e \/ e \in seen \/ Posts(e) # {} => sent[e] > 0
    /\ \A e, f \in Events : f < e /\ sent[e] > 0 => sent[f] > 0

\* Of an event delivered once no copy is behind a later event, and none is
\* left once this one or a later event is settled or remembered.
FifoInv ==
    \A e, f \in Events : f <= e /\ sent[f] = 1 =>
        /\ h.ev = e => ~Buffered(f)
        /\ \A i, j \in DOMAIN buffer : i < j /\ buffer[i] = e => buffer[j] # f
        /\ status[e] = "acked" \/ e \in seen => h.ev # f /\ ~Buffered(f)

\* What the stage of the handler says of the post it holds.
HandlerInv ==
    /\ At("idle") <=> h.ev = None
    /\ At("idle") => h.post = None
    /\ At("lookup") => Kind(h.ev) \in {"message", "edit", "delete"}
    /\ h.pc \in Storing => Chat(h.ev)
    /\ h.pc \in Storing \cup {"finish"} /\ Chat(h.ev) => h.post \in Posts(h.ev)
    /\ At("clean") => corr[h.ev] # None
    /\ At("finish") /\ IsNotice(h.ev) => h.post \in Posts(h.ev) /\ h.post = Len(posts)
    /\ h.pc \in {"resolve", "act", "finish"} /\ Kind(h.ev) = "delete" => h.post \in Posts(Of(h.ev))

\* The database names posts of the event.
CorrInv ==
    \A e \in Events : corr[e] \in Posts(e) \cup {None} /\ late[e] \in Posts(e) \cup {None}

\* An event without an excuse has one post, which the database knows or the
\* handler is about to store, and the handler creates none for an event that
\* the database knows.
OnePostInv ==
    \A e \in Events : Chat(e) /\ ~Excused(e) =>
        /\ \A p, q \in Posts(e) : p = q
        /\ \A p \in Posts(e) : p = corr[e] \/ (h.ev = e /\ h.pc \in Storing /\ h.post = p)
        /\ h.ev = e /\ (At("act") \/ (At("resolve") /\ Kind(e) = "edit")) => corr[e] = None

\* A deletion that is remembered, settled or about to be is applied.
RevokeInv ==
    \A d \in Events : Kind(d) = "delete" /\ ~Excused(Of(d)) /\ sent[Of(d)] = 1 =>
        ((status[d] = "acked" /\ d \notin skipped) \/ d \in seen \/ (h.ev = d /\ At("finish"))
            => Shown(Of(d)) = {})

\* A message that is remembered or settled was posted.
PostedInv ==
    \A e \in Events : Kind(e) = "message" =>
        (e \in seen \/ (status[e] = "acked" /\ e \notin skipped) => Posts(e) # {})

NoticePosts == {p \in PostId : IsNotice(posts[p].ev)}

\* The notice the operators read last.
LastNotice(p) == p \in NoticePosts /\ \A q \in NoticePosts : q <= p

\* Handled at its first delivery.
Done(e) == status[e] = "acked" /\ sent[e] = 1 /\ e \notin skipped

\* An event at its first delivery has no post before the handler makes it.
FirstInv ==
    \A e \in Events :
        sent[e] = 1 /\ (Buffered(e) \/ (h.ev = e /\ h.pc \notin Storing \cup {"finish"})) =>
            Posts(e) = {}

\* The stamp is the last notice, unless the one posted last failed after its
\* post or has not been stamped yet.
StampInv ==
    stamp # "none" =>
        \E p \in NoticePosts :
            LET e == posts[p].ev IN
            /\ LastNotice(p)
            /\ \/ Kind(e) = stamp
               \/ status[e] \in {"due", "dropped"}
               \/ sent[e] > 1
               \/ h.ev = e /\ At("finish")

\* Once the notices up to one are all handled at their first delivery, and
\* none of a later one is posted, the last notice tells its status.
NoticeInv ==
    \A n \in Notices :
        (/\ \A e \in Notices : e <= n => Done(e)
         /\ \A p \in NoticePosts : posts[p].ev <= n) =>
            \E p \in NoticePosts : LastNotice(p) /\ Kind(posts[p].ev) = Kind(n)

MirrorInv ==
    /\ MirrorTypeOK
    /\ BrokerInv
    /\ FifoInv
    /\ HandlerInv
    /\ CorrInv
    /\ OnePostInv
    /\ RevokeInv
    /\ PostedInv
    /\ FirstInv
    /\ StampInv
    /\ NoticeInv

-----------------------------------------------------------------------------

\* What Append and Tail do to the places of a sequence.
LEMMA Appended ==
    ASSUME NEW S, NEW b \in Seq(S), NEW x \in S
    PROVE  \A i \in DOMAIN Append(b, x) :
              /\ i \in Nat
              /\ \/ i \in DOMAIN b /\ Append(b, x)[i] = b[i]
                 \/ i = Len(b) + 1 /\ Append(b, x)[i] = x
OBVIOUS

LEMMA TailShifts ==
    ASSUME NEW S, NEW b \in Seq(S), b # <<>>
    PROVE  /\ 1 \in DOMAIN b
           /\ \A i \in DOMAIN Tail(b) :
                 i \in Nat /\ i + 1 \in DOMAIN b /\ Tail(b)[i] = b[i + 1] /\ 1 < i + 1
OBVIOUS

\* The events are numbered, and an edit or a deletion follows its message.
LEMMA StreamFacts ==
    ASSUME MirrorTypeOK
    PROVE  /\ Events \subseteq Nat \ {0}
           /\ \A e \in Events : Kind(e) \in Kinds
           /\ \A e \in Events : Kind(e) \in {"edit", "delete"} =>
                 Of(e) \in Events /\ Of(e) < e /\ Kind(Of(e)) = "message"
<1>1. stream \in Seq(Event) /\ \A e \in DOMAIN stream :
          stream[e].kind \in {"edit", "delete"} =>
                stream[e].of \in 1..(e - 1) /\ stream[stream[e].of].kind = "message"
  BY MirrorAssumption DEF MirrorTypeOK
<1>2. DOMAIN stream = 1..Len(stream) /\ Len(stream) \in Nat
  BY <1>1
<1>3. Events \subseteq Nat \ {0}
  BY <1>2 DEF Events
<1>4. \A e \in Events : stream[e] \in Event
  BY <1>1, <1>2 DEF Events
<1>5. \A e \in Events : Kind(e) \in Kinds
  BY <1>4 DEF Kind, Event
<1>6. ASSUME NEW e \in Events, Kind(e) \in {"edit", "delete"}
      PROVE  Of(e) \in Events /\ Of(e) < e /\ Kind(Of(e)) = "message"
  <2>1. Of(e) \in 1..(e - 1) /\ Kind(Of(e)) = "message"
    BY <1>1, <1>6 DEF Events, Kind, Of
  <2>2. e \in 1..Len(stream)
    BY <1>2 DEF Events
  <2> QED
    BY <1>2, <2>1, <2>2 DEF Events
<1> QED
  BY <1>3, <1>5, <1>6

\* No step changes the stream.
LEMMA StreamKept ==
    ASSUME [MirrorNext]_mirrorVars
    PROVE  stream' = stream
<1> USE DEF KeepBroker, KeepAtStore
<1>1. CASE \E e \in Events : Deliver(e) \/ AckWaitPasses(e) \/ Commit(e)
  BY <1>1 DEF Deliver, AckWaitPasses, Commit
<1>2. CASE Begin
  BY <1>2 DEF Begin, BeginSkips, BeginFails, BeginSeen, BeginEvent, BeginNotice
<1>3. CASE Look
  BY <1>3 DEF Look, LookupMirrored, LookupMessage, LookupUnmappable, LookupOriginal,
              LookupUnanchored, LookupFails
<1>4. CASE Stack
  BY <1>4 DEF Stack, Resolve, ResolveSkips, ResolveFails
<1>5. CASE Act
  BY <1>5 DEF Act, Create, CreateUnanswered, HandleDelete, Read, ActFails
<1>6. CASE Store
  BY <1>6 DEF Store, Put, PutFails, Reread, RereadFails, CleanDuplicate, CleanDuplicateFails,
              Reput, ReputFails
<1>7. CASE Take \/ Finish \/ ThrottlePasses \/ RestartWorker \/ UNCHANGED mirrorVars
  BY <1>7 DEF Take, Finish, ThrottlePasses, RestartWorker, mirrorVars, brokerVars
<1> QED
  BY <1>1, <1>2, <1>3, <1>4, <1>5, <1>6, <1>7 DEF MirrorNext

\* What becomes of the posts.
LEMMA PostsKept ==
    ASSUME UNCHANGED <<stream, posts>>
    PROVE  /\ Events' = Events /\ PostId' = PostId /\ NoticePosts' = NoticePosts
           /\ \A e : Posts(e)' = Posts(e) /\ Shown(e)' = Shown(e)
BY DEF Events, Posts, Shown, PostId, NoticePosts, IsNotice, Kind

\* A post is added at the end.
LEMMA PostAdded ==
    ASSUME MirrorTypeOK, stream' = stream, NEW x \in Events, Post(x)
    PROVE  /\ Len(posts') = Len(posts) + 1
           /\ PostId' = PostId \cup {Len(posts) + 1}
           /\ posts'[Len(posts) + 1].ev = x
           /\ \A p \in PostId : posts'[p] = posts[p]
           /\ NoticePosts' = IF IsNotice(x) THEN NoticePosts \cup {Len(posts) + 1} ELSE NoticePosts
           /\ \A e : e # x => Posts(e)' = Posts(e) /\ Shown(e)' = Shown(e)
           /\ Posts(x)' = Posts(x) \cup {Len(posts) + 1}
<1>1. /\ posts \in Seq([ev: Events, shown: BOOLEAN])
      /\ posts' = Append(posts, [ev |-> x, shown |-> TRUE])
  BY DEF MirrorTypeOK, Post
<1>2. Len(posts) \in Nat /\ Len(posts') = Len(posts) + 1
  BY <1>1
<1>3. PostId' = PostId \cup {Len(posts) + 1} /\ Len(posts) + 1 \notin PostId
  BY <1>2 DEF PostId
<1>4. posts'[Len(posts) + 1] = [ev |-> x, shown |-> TRUE]
  BY <1>1
<1>5. \A p \in PostId : posts'[p] = posts[p]
  BY <1>1, <1>2 DEF PostId
<1>6. ASSUME NEW e, e # x PROVE Posts(e)' = Posts(e) /\ Shown(e)' = Shown(e)
  <2>1. Posts(e)' = Posts(e)
    BY <1>3, <1>4, <1>5, <1>6 DEF Posts
  <2> QED
    BY <2>1, <1>5 DEF Shown, Posts
<1>7. Posts(x)' = Posts(x) \cup {Len(posts) + 1}
  BY <1>3, <1>4, <1>5 DEF Posts
<1>8. NoticePosts' = IF IsNotice(x) THEN NoticePosts \cup {Len(posts) + 1} ELSE NoticePosts
  BY <1>3, <1>4, <1>5 DEF NoticePosts, IsNotice, Kind
<1> QED
  BY <1>2, <1>3, <1>4, <1>5, <1>6, <1>7, <1>8

\* A post is hidden: the others, and whose each is, stay.
LEMMA PostHidden ==
    ASSUME MirrorTypeOK, stream' = stream, NEW x \in PostId, Hide(x)
    PROVE  /\ Len(posts') = Len(posts) /\ PostId' = PostId /\ NoticePosts' = NoticePosts
           /\ \A p \in PostId : posts'[p].ev = posts[p].ev
           /\ \A e : Posts(e)' = Posts(e) /\ Shown(e)' = Shown(e) \ {x}
<1>1. posts \in Seq([ev: Events, shown: BOOLEAN]) /\ posts' = [posts EXCEPT ![x].shown = FALSE]
  BY DEF MirrorTypeOK, Hide
<1>2. Len(posts) \in Nat /\ Len(posts') = Len(posts)
  BY <1>1
<1>3. PostId' = PostId
  BY <1>2 DEF PostId
<1>4. DOMAIN posts = PostId
  BY <1>1 DEF PostId
<1>5. \A p \in PostId : posts'[p].ev = posts[p].ev /\ (p # x => posts'[p] = posts[p])
  BY <1>1, <1>4
<1>6. posts'[x].shown = FALSE
  BY <1>1, <1>4
<1>7. \A e : Posts(e)' = Posts(e)
  BY <1>3, <1>5 DEF Posts
<1>8. \A e : Shown(e)' = Shown(e) \ {x}
  BY <1>7, <1>5, <1>6 DEF Shown, Posts
<1>9. NoticePosts' = NoticePosts
  BY <1>3, <1>5 DEF NoticePosts, IsNotice, Kind
<1> QED
  BY <1>2, <1>3, <1>5, <1>7, <1>8, <1>9

\* A post is of an event.
LEMMA PostFacts ==
    ASSUME MirrorTypeOK
    PROVE  \A p \in PostId : posts[p].ev \in Events
<1> DEFINE PostType == [ev: Events, shown: BOOLEAN]
<1>1. posts \in Seq(PostType)
  BY DEF MirrorTypeOK
<1> HIDE DEF PostType
<1>2. \A p \in 1..Len(posts) : posts[p] \in PostType
  BY <1>1
<1> QED
  BY <1>2 DEF PostType, PostId

-----------------------------------------------------------------------------
(* The shapes of a step                                                    *)

\* The handler goes on with its event.
Inside == h.ev \in Events /\ h'.ev = h.ev /\ UNCHANGED <<status, sent, buffer, seen>>

\* The handler is done with it.
Leaves ==
    /\ h.ev \in Events
    /\ h' = Idle
    /\ UNCHANGED <<sent, buffer>>
    /\ \/ status' = status
       \/ \E s \in {"acked", Again(h.ev)} : Pending(h.ev) /\ status' = [status EXCEPT ![h.ev] = s]
    /\ seen' \in {seen, seen \cup {h.ev}}

Still == UNCHANGED <<h, status, sent, buffer, seen>>

LEMMA Shapes ==
    ASSUME MirrorTypeOK, HandlerInv, [MirrorNext]_mirrorVars
    PROVE  \/ \E e \in Events : Deliver(e)
           \/ \E e \in Events : AckWaitPasses(e)
           \/ Take
           \/ RestartWorker
           \/ Still
           \/ Inside
           \/ Leaves
<1> USE DEF KeepBroker, KeepAtStore, At, Goto, Leaves, Inside, Still
<1>h. h.pc # "idle" => h.ev \in Events
  BY DEF HandlerInv, MirrorTypeOK, Handler
<1>t. \A p : [h EXCEPT !.pc = p].ev = h.ev /\ \A q : [h EXCEPT !.pc = p, !.post = q].ev = h.ev
  BY DEF MirrorTypeOK, Handler
<1>r. /\ Return /\ h.ev \in Events
      /\ UNCHANGED <<sent, buffer>> /\ seen' \in {seen, seen \cup {h.ev}}
      => Leaves
  BY DEF Return, Ack, Reply
<1>q. /\ ReturnError /\ h.ev \in Events
      /\ UNCHANGED <<sent, buffer>> /\ seen' \in {seen, seen \cup {h.ev}}
      => Leaves
  BY DEF ReturnError, Nak, Reply
<1>1. CASE \E e \in Events : Deliver(e) \/ AckWaitPasses(e) \/ Commit(e)
  BY <1>1 DEF Commit
<1>2. CASE Begin
  <2>1. CASE BeginSkips \/ BeginFails \/ BeginSeen
    BY <2>1, <1>h, <1>r, <1>q DEF BeginSkips, BeginFails, BeginSeen
  <2>2. CASE BeginEvent
    BY <2>2, <1>h, <1>t DEF BeginEvent
  <2>3. CASE BeginNotice
    BY <2>3, <1>h, <1>r, <1>t DEF BeginNotice, MarkSeen
  <2> QED
    BY <1>2, <2>1, <2>2, <2>3 DEF Begin
<1>3. CASE Look
  <2>1. CASE LookupMirrored \/ LookupUnmappable \/ LookupUnanchored \/ LookupFails
    BY <2>1, <1>h, <1>r, <1>q
       DEF LookupMirrored, LookupUnmappable, LookupUnanchored, LookupFails, MarkSeen
  <2>2. CASE LookupMessage \/ LookupOriginal
    <3>1. h'.ev = h.ev
      BY <2>2 DEF LookupMessage, LookupOriginal, MirrorTypeOK, Handler
    <3> QED
      BY <2>2, <3>1, <1>h DEF LookupMessage, LookupOriginal
  <2> QED
    BY <1>3, <2>1, <2>2 DEF Look
<1>4. CASE Stack
  BY <1>4, <1>h, <1>t, <1>r, <1>q DEF Stack, Resolve, ResolveSkips, ResolveFails
<1>5. CASE Act
  <2>1. CASE Create
    <3>1. h'.ev = h.ev
      BY <2>1 DEF Create, MirrorTypeOK, Handler
    <3> QED
      BY <2>1, <3>1, <1>h DEF Create
  <2>2. CASE Read \/ HandleDelete
    BY <2>2, <1>h, <1>t, <1>q DEF Read, HandleDelete
  <2>3. CASE CreateUnanswered \/ ActFails
    BY <2>3, <1>h, <1>q DEF CreateUnanswered, ActFails
  <2> QED
    BY <1>5, <2>1, <2>2, <2>3 DEF Act
<1>6. CASE Store
  <2>1. CASE RereadFails
    BY <2>1, <1>h, <1>q DEF RereadFails
  <2>2. CASE \/ Put \/ PutFails \/ Reread \/ CleanDuplicate \/ CleanDuplicateFails
             \/ Reput \/ ReputFails
    BY <2>2, <1>h, <1>t
       DEF Put, PutFails, Reread, CleanDuplicate, CleanDuplicateFails, Reput, ReputFails
  <2> QED
    BY <1>6, <2>1, <2>2 DEF Store
<1>7. CASE Finish
  BY <1>7, <1>h, <1>r DEF Finish, MarkSeen
<1>8. CASE Take \/ ThrottlePasses \/ RestartWorker \/ UNCHANGED mirrorVars
  BY <1>8 DEF ThrottlePasses, mirrorVars, brokerVars
<1> QED
  BY <1>1, <1>2, <1>3, <1>4, <1>5, <1>6, <1>7, <1>8 DEF MirrorNext

\* What a step does to the posts.
LEMMA PostSteps ==
    ASSUME MirrorTypeOK, HandlerInv, [MirrorNext]_mirrorVars
    PROVE  \/ UNCHANGED posts
           \/ (Create \/ CreateUnanswered) /\ h.ev \in Events /\ Post(h.ev)
           \/ (HandleDelete \/ CleanDuplicate) /\ h.post \in PostId /\ Hide(h.post)
<1> USE DEF KeepAtStore, At
<1>h. h.pc # "idle" => h.ev \in Events
  BY DEF HandlerInv, MirrorTypeOK, Handler
<1>1. CASE \E e \in Events : Deliver(e) \/ AckWaitPasses(e) \/ Commit(e)
  BY <1>1 DEF Deliver, AckWaitPasses, Commit
<1>2. CASE Begin
  BY <1>2 DEF Begin, BeginSkips, BeginFails, BeginSeen, BeginEvent, BeginNotice
<1>3. CASE Look
  BY <1>3 DEF Look, LookupMirrored, LookupMessage, LookupUnmappable, LookupOriginal,
              LookupUnanchored, LookupFails
<1>4. CASE Stack
  BY <1>4 DEF Stack, Resolve, ResolveSkips, ResolveFails
<1>5. CASE Act
  <2>1. CASE HandleDelete
    <3>1. h.post \in Posts(Of(h.ev))
      BY <2>1 DEF HandleDelete, HandlerInv
    <3> QED
      BY <2>1, <3>1 DEF HandleDelete, Posts
  <2> QED
    BY <1>5, <2>1, <1>h DEF Act, Create, CreateUnanswered, Read, ActFails
<1>6. CASE Store
  <2>1. CASE CleanDuplicate
    <3>1. h.post \in Posts(h.ev)
      BY <2>1 DEF CleanDuplicate, HandlerInv, Storing
    <3> QED
      BY <2>1, <3>1 DEF CleanDuplicate, Posts
  <2> QED
    BY <1>6, <2>1 DEF Store, Put, PutFails, Reread, RereadFails, CleanDuplicateFails, Reput,
       ReputFails
<1>7. CASE Take \/ Finish \/ ThrottlePasses \/ RestartWorker \/ UNCHANGED mirrorVars
  BY <1>7 DEF Take, Finish, ThrottlePasses, RestartWorker, mirrorVars
<1> QED
  BY <1>1, <1>2, <1>3, <1>4, <1>5, <1>6, <1>7 DEF MirrorNext

\* Posts are added, by the handler of the event, and keep their event.
LEMMA PostsGrow ==
    ASSUME MirrorTypeOK, HandlerInv, [MirrorNext]_mirrorVars
    PROVE  /\ PostId \subseteq PostId'
           /\ \A p \in PostId : posts'[p].ev = posts[p].ev
           /\ NoticePosts \subseteq NoticePosts'
           /\ \A e : Posts(e) \subseteq Posts(e)'
           /\ \A e : e # h.ev => Posts(e)' = Posts(e) /\ Shown(e)' \subseteq Shown(e)
           /\ \A p \in NoticePosts' \ NoticePosts :
                 p = Len(posts) + 1 /\ posts'[p].ev = h.ev /\ IsNotice(h.ev)
<1>s. stream' = stream
  BY StreamKept
<1>1. CASE UNCHANGED posts
  BY <1>1, <1>s, PostsKept
<1>2. CASE (Create \/ CreateUnanswered) /\ h.ev \in Events /\ Post(h.ev)
  BY <1>2, <1>s, PostAdded
<1>3. CASE (HandleDelete \/ CleanDuplicate) /\ h.post \in PostId /\ Hide(h.post)
  BY <1>3, <1>s, PostHidden
<1> QED
  BY <1>1, <1>2, <1>3, PostSteps

-----------------------------------------------------------------------------
(* Type correctness                                                        *)

\* The type of what the broker and the deduplication keep.
LEMMA BrokerType ==
    ASSUME MirrorTypeOK, BrokerInv, HandlerInv, [MirrorNext]_mirrorVars
    PROVE  /\ status' \in [Events -> {"new", "out", "due", "acked", "dropped"}]
           /\ sent' \in [Events -> 0..MaxDeliver]
           /\ buffer' \in Seq(Events)
           /\ seen' \in SUBSET Events
<1> USE MirrorAssumption DEF MirrorTypeOK
<1>a. \A e \in Events : Again(e) \in {"due", "dropped"}
  BY DEF Again
<1>1. ASSUME NEW e \in Events, Deliver(e)
      PROVE  /\ status' \in [Events -> {"new", "out", "due", "acked", "dropped"}]
             /\ sent' \in [Events -> 0..MaxDeliver]
             /\ buffer' \in Seq(Events)
             /\ seen' \in SUBSET Events
  <2>1. sent[e] < MaxDeliver /\ sent[e] \in Nat
    BY <1>1 DEF Deliver, BrokerInv
  <2> QED
    BY <1>1, <2>1 DEF Deliver
<1>2. CASE \E e \in Events : AckWaitPasses(e)
  BY <1>2, <1>a DEF AckWaitPasses
<1>3. CASE Take
  BY <1>3 DEF Take
<1>4. CASE RestartWorker
  BY <1>4 DEF RestartWorker
<1>5. CASE Still
  BY <1>5 DEF Still
<1>6. CASE Inside
  BY <1>6 DEF Inside
<1>7. CASE Leaves
  <2>1. CASE status' = status
    BY <1>7, <2>1 DEF Leaves
  <2>2. ASSUME NEW s \in {"acked", Again(h.ev)}, status' = [status EXCEPT ![h.ev] = s]
        PROVE  status' \in [Events -> {"new", "out", "due", "acked", "dropped"}]
    BY <1>7, <2>2, <1>a DEF Leaves
  <2>3. seen' \in SUBSET Events /\ UNCHANGED <<sent, buffer>>
    BY <1>7 DEF Leaves
  <2> QED
    BY <1>7, <2>1, <2>2, <2>3 DEF Leaves
<1> QED
  BY <1>1, <1>2, <1>3, <1>4, <1>5, <1>6, <1>7, Shapes

\* The type of the posts.
LEMMA PostsType ==
    ASSUME MirrorTypeOK, HandlerInv, [MirrorNext]_mirrorVars
    PROVE  posts' \in Seq([ev: Events, shown: BOOLEAN])
<1> USE DEF MirrorTypeOK
<1>2. CASE h.ev \in Events /\ Post(h.ev)
  BY <1>2 DEF Post
<1>3. CASE h.post \in PostId /\ Hide(h.post)
  <2> DEFINE PostType == [ev: Events, shown: BOOLEAN]
  <2>0. posts \in Seq(PostType)
    OBVIOUS
  <2> HIDE DEF PostType
  <2>5. /\ Len(posts) \in Nat /\ DOMAIN posts = 1..Len(posts)
        /\ \A p \in 1..Len(posts) : posts[p] \in PostType
    BY <2>0
  <2>1. posts[h.post] \in [ev: Events, shown: BOOLEAN] /\ DOMAIN posts = PostId
    BY <1>3, <2>5 DEF PostId, PostType
  <2>2. [posts[h.post] EXCEPT !.shown = FALSE] \in [ev: Events, shown: BOOLEAN]
    BY <2>1
  <2> QED
    BY <1>3, <2>1, <2>2 DEF Hide
<1> QED
  BY <1>2, <1>3, PostSteps

\* The rest changes by actions of the handler and by a late commit.
LEMMA RestType ==
    ASSUME MirrorTypeOK, HandlerInv, CorrInv, [MirrorNext]_mirrorVars
    PROVE  /\ h' \in [ev: Events \cup {None}, pc: Steps, post: PostId' \cup {None}]
           /\ stamp' \in {"none", "connected", "down"}
           /\ fresh' \in BOOLEAN
           /\ imported' \in BOOLEAN
           /\ corr' \in [Events -> PostId' \cup {None}]
           /\ late' \in [Events -> PostId' \cup {None}]
           /\ skipped' \in SUBSET Events
           /\ loose' \in SUBSET Events
           /\ down' \in SUBSET Events
           /\ faults' \in 0..MaxFaults
<1>p. PostId \subseteq PostId'
  BY PostsGrow
<1>h. h \in [ev: Events \cup {None}, pc: Steps, post: PostId' \cup {None}]
  BY <1>p DEF MirrorTypeOK, Handler
<1>c. corr \in [Events -> PostId' \cup {None}] /\ late \in [Events -> PostId' \cup {None}]
  BY <1>p DEF MirrorTypeOK
<1>e. h.pc # "idle" => h.ev \in Events
  BY DEF HandlerInv, MirrorTypeOK, Handler, At
<1>o. /\ stamp \in {"none", "connected", "down"}
      /\ fresh \in BOOLEAN /\ imported \in BOOLEAN
      /\ skipped \in SUBSET Events /\ loose \in SUBSET Events /\ down \in SUBSET Events
      /\ faults \in 0..MaxFaults /\ MaxFaults \in Nat
  BY MirrorAssumption DEF MirrorTypeOK
<1>i. Idle \in [ev: Events \cup {None}, pc: Steps, post: PostId' \cup {None}]
  BY DEF Idle, Steps
<1>g. \A x \in Steps : Goto(x) =>
          h' \in [ev: Events \cup {None}, pc: Steps, post: PostId' \cup {None}]
  BY <1>h DEF Goto
<1>f. Fault \/ NoFault \/ UNCHANGED faults => faults' \in 0..MaxFaults
  BY <1>o DEF Fault, NoFault
<1>r. Return \/ ReturnError =>
          /\ h' \in [ev: Events \cup {None}, pc: Steps, post: PostId' \cup {None}]
          /\ faults' \in 0..MaxFaults
  BY <1>f, <1>i DEF Return, ReturnError
<1> USE DEF noticeVars, corrVars, causeVars, KeepAtStore, At, Steps
<1>1. CASE \E e \in Events : Deliver(e) \/ AckWaitPasses(e)
  BY <1>1, <1>h, <1>c, <1>o, <1>f DEF Deliver, AckWaitPasses
<1>2. CASE \E e \in Events : Commit(e)
  BY <1>2, <1>h, <1>c, <1>o, <1>f DEF Commit
<1>3. CASE Take
  <2>1. Head(buffer) \in Events
    BY <1>3 DEF Take, MirrorTypeOK
  <2> QED
    BY <1>3, <2>1, <1>c, <1>o, <1>f DEF Take
<1>4. CASE Begin
  <2>1. CASE BeginSkips \/ BeginFails \/ BeginSeen
    BY <2>1, <1>c, <1>o, <1>r, <1>e DEF BeginSkips, BeginFails, BeginSeen
  <2>2. CASE BeginEvent
    <3>1. Second \in Steps
      BY DEF Second
    <3> QED
      BY <2>2, <3>1, <1>c, <1>o, <1>g, <1>f DEF BeginEvent
  <2>3. CASE BeginNotice
    <3>1. imported' \in BOOLEAN
      BY <2>3, <1>o, Zenon DEF BeginNotice
    <3>2. /\ h' \in [ev: Events \cup {None}, pc: Steps, post: PostId' \cup {None}]
          /\ faults' \in 0..MaxFaults
      BY <2>3, <1>g, <1>r, <1>f DEF BeginNotice
    <3> QED
      BY <2>3, <3>1, <3>2, <1>c, <1>o DEF BeginNotice
  <2> QED
    BY <1>4, <2>1, <2>2, <2>3 DEF Begin
<1>5. CASE Look
  <2>1. CASE LookupMirrored \/ LookupUnmappable \/ LookupUnanchored \/ LookupFails
    BY <2>1, <1>c, <1>o, <1>r, <1>e
       DEF LookupMirrored, LookupUnmappable, LookupUnanchored, LookupFails
  <2>2. AfterLookup \in Steps
    BY DEF AfterLookup
  <2>3. CASE LookupMessage
    BY <2>2, <2>3, <1>c, <1>o, <1>g, <1>f DEF LookupMessage
  <2>4. CASE LookupOriginal
    <3>1. Kind(h.ev) = "delete" => corr[Of(h.ev)] \in PostId' \cup {None}
      BY <2>4, <1>c, <1>e, StreamFacts DEF LookupOriginal
    <3> QED
      BY <2>2, <2>4, <3>1, <1>h, <1>c, <1>o, <1>f DEF LookupOriginal
  <2> QED
    BY <1>5, <2>1, <2>3, <2>4 DEF Look
<1>6. CASE Stack
  <2>1. AfterResolve \in Steps
    BY DEF AfterResolve
  <2> QED
    BY <1>6, <2>1, <1>c, <1>o, <1>g, <1>r, <1>f, <1>e DEF Stack, Resolve, ResolveSkips, ResolveFails
<1>7. CASE Act
  <2>1. CASE Create
    <3>1. Len(posts) + 1 \in PostId'
      BY <2>1, <1>e, PostAdded, StreamKept DEF Create
    <3> QED
      BY <2>1, <3>1, <1>h, <1>c, <1>o, <1>f DEF Create
  <2>2. CASE CreateUnanswered
    BY <2>2, <1>c, <1>o, <1>r, <1>e DEF CreateUnanswered, Loosen
  <2>3. CASE HandleDelete \/ Read \/ ActFails
    BY <2>3, <1>c, <1>o, <1>r, <1>g, <1>f DEF HandleDelete, Read, ActFails
  <2> QED
    BY <1>7, <2>1, <2>2, <2>3 DEF Act
<1>8. CASE Store
  <2>p. h.post \in PostId' \cup {None}
    BY <1>h
  <2>1. CASE Put \/ Reput
    BY <2>1, <2>p, <1>c, <1>o, <1>g, <1>f DEF Put, Reput, Correlate
  <2>2. CASE PutFails
    BY <2>2, <2>p, <1>c, <1>o, <1>g, <1>f DEF PutFails, Correlate
  <2>3. CASE Reread
    BY <2>3, <1>c, <1>o, <1>g, <1>f DEF Reread, AfterReread
  <2>4. CASE RereadFails
    BY <2>4, <1>c, <1>o, <1>r, <1>e DEF RereadFails
  <2>5. CASE CleanDuplicate \/ CleanDuplicateFails \/ ReputFails
    BY <2>5, <1>c, <1>o, <1>g, <1>f, <1>e
       DEF CleanDuplicate, CleanDuplicateFails, ReputFails, Loosen
  <2> QED
    BY <1>8, <2>1, <2>2, <2>3, <2>4, <2>5 DEF Store
<1>9. CASE Finish
  <2>1. imported' \in BOOLEAN
    BY <1>9, <1>o, Zenon DEF Finish
  <2>2. stamp' \in {"none", "connected", "down"} /\ fresh' \in BOOLEAN
    BY <1>9, <1>o DEF Finish, IsNotice
  <2> QED
    BY <1>9, <2>1, <2>2, <1>c, <1>o, <1>r DEF Finish
<1>10. CASE ThrottlePasses \/ UNCHANGED mirrorVars
  BY <1>10, <1>h, <1>c, <1>o, <1>f DEF ThrottlePasses, mirrorVars
<1>11. CASE RestartWorker
  <2>1. Uncorrelated => h.ev \in Events
    BY <1>e DEF Uncorrelated, HandlerInv
  <2> QED
    BY <1>11, <2>1, <1>i, <1>c, <1>o, <1>f DEF RestartWorker, Loosen
<1> QED
  BY <1>1, <1>2, <1>3, <1>4, <1>5, <1>6, <1>7, <1>8, <1>9, <1>10, <1>11 DEF MirrorNext

\* Every step keeps the types.
LEMMA MirrorTypeStep ==
    ASSUME MirrorTypeOK, BrokerInv, HandlerInv, CorrInv, [MirrorNext]_mirrorVars
    PROVE  MirrorTypeOK'
<1>1. stream' = stream
  BY StreamKept
<1>2. Events' = Events
  BY <1>1 DEF Events
<1> QED
  BY <1>1, <1>2, BrokerType, PostsType, RestType DEF MirrorTypeOK, Handler

-----------------------------------------------------------------------------
(* The broker and the copies                                               *)

\* Each shape of a step keeps what the broker knows.
LEMMA BrokerStep ==
    ASSUME MirrorTypeOK, BrokerInv, HandlerInv, [MirrorNext]_mirrorVars
    PROVE  BrokerInv'
<1> USE MirrorAssumption DEF MirrorTypeOK
<1>s. stream' = stream /\ Events' = Events
  BY StreamKept DEF Events
<1>n. Events \subseteq Nat \ {0}
  BY StreamFacts
<1>t. \A e \in Events : sent[e] \in 0..MaxDeliver
  OBVIOUS
<1>p. \A e : e # h.ev => Posts(e)' = Posts(e)
  BY PostsGrow
<1>1. ASSUME NEW x \in Events, Deliver(x)
      PROVE  BrokerInv'
  <2>1. UNCHANGED <<stream, h, seen, posts>>
    BY <1>1 DEF Deliver
  <2>2. \A e : Posts(e)' = Posts(e)
    BY <2>1, PostsKept
  <2>3. sent' = [sent EXCEPT ![x] = @ + 1] /\ status' = [status EXCEPT ![x] = "out"]
    BY <1>1 DEF Deliver
  <2>4. ASSUME NEW e \in Events, Buffered(e)' PROVE e = x \/ Buffered(e)
    <3>1. buffer' = Append(buffer, x) /\ buffer \in Seq(Events)
      BY <1>1 DEF Deliver
    <3> QED
      BY ONLY <2>4, <3>1, Appended, x \in Events DEF Buffered
  <2>5. \A e \in Events : e < x => sent[e] > 0
    <3>1. CASE status[x] = "due"
      BY <3>1, <1>t DEF BrokerInv
    <3>2. CASE \A f \in Events : f < x => status[f] # "new"
      BY <3>2, <1>t DEF BrokerInv
    <3> QED
      BY <1>1, <3>1, <3>2 DEF Deliver
  <2>6. \A e \in Events : sent'[e] = IF e = x THEN sent[e] + 1 ELSE sent[e]
    BY <2>3
  <2>7. \A e \in Events : /\ status'[e] = "new" <=> sent'[e] = 0
                          /\ status'[e] = "due" => sent'[e] < MaxDeliver
                          /\ status'[e] = "dropped" => sent'[e] = MaxDeliver
    BY <2>3, <1>t DEF BrokerInv
  <2>8. \A e, f \in Events : f < e /\ sent'[e] > 0 => sent'[f] > 0
    <3> SUFFICES ASSUME NEW e \in Events, NEW f \in Events, f < e, sent'[e] > 0
                 PROVE  sent'[f] > 0
      OBVIOUS
    <3>1. sent[f] \in Nat /\ (sent'[f] = sent[f] \/ sent'[f] = sent[f] + 1)
      BY <2>6, <1>t
    <3>2. sent[f] > 0
      BY <2>5, <2>6 DEF BrokerInv
    <3> QED
      BY ONLY <3>1, <3>2
  <2>9. \A e \in Events :
          Buffered(e)' \/ h'.ev = e \/ e \in seen' \/ Posts(e)' # {} => sent'[e] > 0
    <3> SUFFICES ASSUME NEW e \in Events,
                        Buffered(e)' \/ h'.ev = e \/ e \in seen' \/ Posts(e)' # {}
                 PROVE  sent'[e] > 0
      OBVIOUS
    <3>1. sent[e] \in Nat
      BY <1>t
    <3>2. CASE e = x
      BY ONLY <2>6, <3>1, <3>2
    <3>3. CASE e # x
      <4>1. Buffered(e) \/ h.ev = e \/ e \in seen \/ Posts(e) # {}
        BY ONLY <2>1, <2>2, <2>4, <3>3, e \in Events,
                Buffered(e)' \/ h'.ev = e \/ e \in seen' \/ Posts(e)' # {}
      <4>2. sent[e] > 0
        BY <4>1 DEF BrokerInv
      <4> QED
        BY ONLY <2>6, <3>3, <4>2
    <3> QED
      BY <3>2, <3>3
  <2> QED
    BY <2>7, <2>8, <2>9, <1>s DEF BrokerInv
<1>2. ASSUME NEW x \in Events, AckWaitPasses(x)
      PROVE  BrokerInv'
  <2>1. UNCHANGED <<stream, h, seen, posts, sent, buffer>>
    BY <1>2 DEF AckWaitPasses
  <2>2. \A e : Posts(e)' = Posts(e) /\ Buffered(e)' = Buffered(e)
    BY <2>1, PostsKept DEF Buffered
  <2>3. status' = [status EXCEPT ![x] = Again(x)] /\ status[x] = "out"
    BY <1>2 DEF AckWaitPasses
  <2> QED
    BY <1>s, <2>1, <2>2, <2>3, <1>t DEF BrokerInv, Again
<1>3. CASE Take
  <2>1. UNCHANGED <<stream, seen, posts, sent, status>>
    BY <1>3 DEF Take
  <2>2. \A e : Posts(e)' = Posts(e)
    BY <2>1, PostsKept
  <2>3. h'.ev = buffer[1] /\ Buffered(buffer[1])
    BY <1>3 DEF Take, Buffered
  <2>4. ASSUME NEW e, Buffered(e)' PROVE Buffered(e)
    <3>1. buffer' = Tail(buffer) /\ buffer \in Seq(Events) /\ buffer # <<>>
      BY <1>3 DEF Take
    <3>2. PICK i \in DOMAIN buffer' : buffer'[i] = e
      BY <2>4 DEF Buffered
    <3>3. i + 1 \in DOMAIN buffer /\ buffer[i + 1] = e
      BY <3>1, <3>2
    <3> QED
      BY <3>3 DEF Buffered
  <2> QED
    BY <1>s, <2>1, <2>2, <2>3, <2>4 DEF BrokerInv
<1>4. CASE RestartWorker
  <2>1. UNCHANGED <<stream, posts, sent, status>> /\ seen' = {} /\ h'.ev = None /\ buffer' = <<>>
    BY <1>4 DEF RestartWorker, Idle
  <2>2. \A e : Posts(e)' = Posts(e)
    BY <2>1, PostsKept
  <2>3. \A e : ~Buffered(e)'
    BY <2>1 DEF Buffered
  <2> QED
    BY <1>s, <1>n, <2>1, <2>2, <2>3 DEF BrokerInv, None
<1>5. CASE Still \/ Inside
  <2>1. UNCHANGED <<sent, status, seen, buffer>> /\ h'.ev = h.ev
    BY <1>5 DEF Still, Inside
  <2>2. \A e : Buffered(e)' = Buffered(e)
    BY <2>1 DEF Buffered
  <2> QED
    BY <1>s, <1>p, <2>1, <2>2 DEF BrokerInv
<1>6. CASE Leaves
  <2>1. UNCHANGED <<sent, buffer>> /\ h'.ev = None /\ seen' \in {seen, seen \cup {h.ev}}
    BY <1>6 DEF Leaves, Idle
  <2>2. \A e : Buffered(e)' = Buffered(e)
    BY <2>1 DEF Buffered
  <2>3. h.ev \in Events /\ sent[h.ev] > 0 /\ status[h.ev] # "new"
    BY <1>6 DEF BrokerInv, Leaves
  <2>4. \A e \in Events : \/ status'[e] = status[e]
                          \/ e = h.ev /\ status'[e] \in {"acked", Again(e)}
    BY <1>6 DEF Leaves
  <2>5. \A e \in Events : /\ status'[e] = "new" <=> sent'[e] = 0
                          /\ status'[e] = "due" => sent'[e] < MaxDeliver
                          /\ status'[e] = "dropped" => sent'[e] = MaxDeliver
    BY <2>1, <2>3, <2>4, <1>t DEF BrokerInv, Again
  <2>6. \A e \in Events :
          Buffered(e)' \/ h'.ev = e \/ e \in seen' \/ Posts(e)' # {} => sent'[e] > 0
    BY <1>n, <1>p, <2>1, <2>2, <2>3 DEF BrokerInv, None
  <2> QED
    BY <1>s, <2>1, <2>5, <2>6 DEF BrokerInv
<1> QED
  BY <1>1, <1>2, <1>3, <1>4, <1>5, <1>6, Shapes

\* The copies stay in the order of the stream.
LEMMA FifoStep ==
    ASSUME MirrorTypeOK, BrokerInv, FifoInv, HandlerInv, [MirrorNext]_mirrorVars
    PROVE  FifoInv'
<1> USE MirrorAssumption DEF MirrorTypeOK
<1>s. stream' = stream /\ Events' = Events
  BY StreamKept DEF Events
<1>n. Events \subseteq Nat \ {0}
  BY StreamFacts
<1>t. \A e \in Events : sent[e] \in 0..MaxDeliver
  OBVIOUS
<1> SUFFICES ASSUME NEW e \in Events, NEW f \in Events, f <= e, sent'[f] = 1
             PROVE  /\ h'.ev = e => ~Buffered(f)'
                    /\ \A i, j \in DOMAIN buffer' : i < j /\ buffer'[i] = e => buffer'[j] # f
                    /\ status'[e] = "acked" \/ e \in seen' => h'.ev # f /\ ~Buffered(f)'
  BY <1>s DEF FifoInv
<1>1. ASSUME NEW x \in Events, Deliver(x)
      PROVE  /\ h'.ev = e => ~Buffered(f)'
             /\ \A i, j \in DOMAIN buffer' : i < j /\ buffer'[i] = e => buffer'[j] # f
             /\ status'[e] = "acked" \/ e \in seen' => h'.ev # f /\ ~Buffered(f)'
  <2>1. /\ UNCHANGED <<h, seen>> /\ buffer' = Append(buffer, x) /\ buffer \in Seq(Events)
        /\ sent' = [sent EXCEPT ![x] = @ + 1] /\ status' = [status EXCEPT ![x] = "out"]
    BY <1>1 DEF Deliver
  <2>2. CASE f # x
    <3>1. sent[f] = 1
      BY <2>1, <2>2
    <3>2. Buffered(f)' => Buffered(f)
      BY <2>1, <2>2 DEF Buffered
    <3>3. \A i, j \in DOMAIN buffer' : i < j /\ buffer'[i] = e => buffer'[j] # f
      <4> SUFFICES ASSUME NEW i \in DOMAIN buffer', NEW j \in DOMAIN buffer', i < j,
                          buffer'[i] = e, buffer'[j] = f
                   PROVE  FALSE
        OBVIOUS
      <4>1. j \in DOMAIN buffer /\ buffer[j] = f
        BY ONLY <2>1, <2>2, Appended, x \in Events, j \in DOMAIN buffer', buffer'[j] = f
      <4>2. j < Len(buffer) + 1 /\ j \in Nat
        BY ONLY <2>1, <4>1
      <4>3. i \in Nat /\ i # Len(buffer) + 1
        BY ONLY <2>1, <4>2, Appended, x \in Events, i \in DOMAIN buffer', i < j
      <4>4. i \in DOMAIN buffer /\ buffer[i] = e
        BY ONLY <2>1, <4>3, Appended, x \in Events, i \in DOMAIN buffer', buffer'[i] = e
      <4> QED
        BY <3>1, <4>1, <4>4 DEF FifoInv
    <3>4. status'[e] = "acked" => status[e] = "acked"
      BY <2>1
    <3> QED
      BY <2>1, <3>1, <3>2, <3>3, <3>4 DEF FifoInv
  <2>3. CASE f = x
    <3>1. sent[f] = 0
      BY <2>1, <2>3, <1>t
    <3>2. sent[e] = 0
      <4>1. e = f \/ f < e
        BY <1>n
      <4>2. sent[e] > 0 /\ f < e => sent[f] > 0
        BY DEF BrokerInv
      <4> QED
        BY <3>1, <4>1, <4>2, <1>t
    <3>3. h.ev # e /\ ~Buffered(e) /\ e \notin seen /\ status[e] # "acked"
      BY <3>2 DEF BrokerInv
    <3>4. \A i, j \in DOMAIN buffer' : i < j => buffer'[i] # e
      <4>1. \A i \in DOMAIN buffer : buffer[i] # e
        BY <3>3 DEF Buffered
      <4>2. \A j \in DOMAIN buffer' : j \in Nat /\ j <= Len(buffer) + 1
        BY ONLY <2>1, x \in Events
      <4>3. \A i \in DOMAIN buffer' : i \in Nat /\ (i = Len(buffer) + 1 \/ buffer'[i] # e)
        BY ONLY <2>1, <4>1, Appended, x \in Events
      <4>4. Len(buffer) \in Nat
        BY ONLY <2>1
      <4> QED
        BY ONLY <4>2, <4>3, <4>4
    <3>5. status'[e] # "acked"
      BY <2>1, <3>3
    <3> QED
      BY <2>1, <3>3, <3>4, <3>5
  <2> QED
    BY <2>2, <2>3
<1>2. CASE Take
  <2>1. UNCHANGED <<seen, sent, status>>
    BY <1>2 DEF Take
  <2>2. buffer' = Tail(buffer) /\ buffer \in Seq(Events) /\ buffer # <<>> /\ h'.ev = buffer[1]
    BY <1>2 DEF Take
  <2>3. \A i \in DOMAIN buffer' :
            i \in Nat /\ i + 1 \in DOMAIN buffer /\ buffer'[i] = buffer[i + 1] /\ 1 < i + 1
    BY ONLY <2>2, TailShifts
  <2>4. 1 \in DOMAIN buffer
    BY ONLY <2>2, TailShifts
  <2>5. Buffered(f)' => Buffered(f)
    BY <2>3 DEF Buffered
  <2>6. h'.ev = e => ~Buffered(f)'
    <3> SUFFICES ASSUME buffer[1] = e, NEW i \in DOMAIN buffer', buffer'[i] = f
                 PROVE  FALSE
      BY <2>2 DEF Buffered
    <3>1. i + 1 \in DOMAIN buffer /\ buffer[i + 1] = f /\ 1 < i + 1
      BY <2>3
    <3>2. sent[f] = 1
      BY <2>1
    <3> QED
      BY <2>4, <3>1, <3>2 DEF FifoInv
  <2>7. \A i, j \in DOMAIN buffer' : i < j /\ buffer'[i] = e => buffer'[j] # f
    <3> SUFFICES ASSUME NEW i \in DOMAIN buffer', NEW j \in DOMAIN buffer', i < j,
                        buffer'[i] = e, buffer'[j] = f
                 PROVE  FALSE
      OBVIOUS
    <3>1. i + 1 < j + 1
      BY <2>3
    <3> QED
      BY <2>1, <2>3, <3>1 DEF FifoInv
  <2>8. h'.ev = f => Buffered(f)
    BY <2>2, <2>4 DEF Buffered
  <2> QED
    BY <2>1, <2>5, <2>6, <2>7, <2>8 DEF FifoInv
<1>3. CASE RestartWorker
  <2>1. h'.ev = None /\ buffer' = <<>>
    BY <1>3 DEF RestartWorker, Idle
  <2> QED
    BY <1>n, <2>1 DEF Buffered, None
<1>4. CASE Still \/ Inside \/ \E x \in Events : AckWaitPasses(x)
  <2>1. UNCHANGED <<sent, seen, buffer>> /\ h'.ev = h.ev
    BY <1>4 DEF Still, Inside, AckWaitPasses
  <2>2. status'[e] = "acked" => status[e] = "acked"
    BY <1>4 DEF Still, Inside, AckWaitPasses, Again
  <2> QED
    BY <2>1, <2>2 DEF FifoInv, Buffered
<1>5. CASE Leaves
  <2>1. UNCHANGED <<sent, buffer>> /\ h'.ev = None /\ seen' \in {seen, seen \cup {h.ev}}
    BY <1>5 DEF Leaves, Idle
  <2>2. status'[e] = status[e] \/ e = h.ev
    BY <1>5 DEF Leaves
  <2>3. status'[e] = "acked" \/ e \in seen' => h.ev = e \/ status[e] = "acked" \/ e \in seen
    BY <2>1, <2>2
  <2>4. sent[f] = 1 /\ (Buffered(f)' <=> Buffered(f)) /\ None \notin {e, f}
    BY <1>n, <2>1 DEF Buffered, None
  <2>5. \A i, j \in DOMAIN buffer' : i < j /\ buffer'[i] = e => buffer'[j] # f
    BY <2>1, <2>4 DEF FifoInv
  <2>6. status'[e] = "acked" \/ e \in seen' => ~Buffered(f)
    BY <2>3, <2>4 DEF FifoInv
  <2> QED
    BY <2>1, <2>4, <2>5, <2>6
<1> QED
  BY <1>1, <1>2, <1>3, <1>4, <1>5, Shapes

-----------------------------------------------------------------------------
(* The handler and the correlations                                        *)

\* What only grows.
LEMMA Monotone ==
    ASSUME MirrorTypeOK, BrokerInv, HandlerInv, [MirrorNext]_mirrorVars
    PROVE  /\ skipped \subseteq skipped' /\ loose \subseteq loose' /\ down \subseteq down'
           /\ \A e \in Events : sent'[e] >= sent[e] /\ sent[e] \in Nat
<1>1. skipped \subseteq skipped' /\ loose \subseteq loose' /\ down \subseteq down'
  <2> USE DEF causeVars, Loosen, KeepAtStore
  <2>1. CASE \E e \in Events : Deliver(e) \/ AckWaitPasses(e) \/ Commit(e)
    BY <2>1 DEF Deliver, AckWaitPasses, Commit
  <2>2. CASE Begin
    BY <2>2 DEF Begin, BeginSkips, BeginFails, BeginSeen, BeginEvent, BeginNotice
  <2>3. CASE Look
    BY <2>3 DEF Look, LookupMirrored, LookupMessage, LookupUnmappable, LookupOriginal,
                LookupUnanchored, LookupFails
  <2>4. CASE Stack
    BY <2>4 DEF Stack, Resolve, ResolveSkips, ResolveFails
  <2>5. CASE Act
    BY <2>5 DEF Act, Create, CreateUnanswered, HandleDelete, Read, ActFails
  <2>6. CASE Store
    BY <2>6 DEF Store, Put, PutFails, Reread, RereadFails, CleanDuplicate, CleanDuplicateFails,
                Reput, ReputFails
  <2>7. CASE Take \/ Finish \/ ThrottlePasses \/ RestartWorker \/ UNCHANGED mirrorVars
    BY <2>7 DEF Take, Finish, ThrottlePasses, RestartWorker, mirrorVars
  <2> QED
    BY <2>1, <2>2, <2>3, <2>4, <2>5, <2>6, <2>7 DEF MirrorNext
<1>2. \A e \in Events : sent[e] \in Nat
  BY MirrorAssumption DEF MirrorTypeOK
<1>3. sent' = sent \/ \E e \in Events : sent' = [sent EXCEPT ![e] = @ + 1]
  BY Shapes DEF Deliver, AckWaitPasses, Take, RestartWorker, Still, Inside, Leaves
<1>4. ASSUME NEW e \in Events
      PROVE  sent'[e] >= sent[e]
  <2>1. sent'[e] = sent[e] \/ sent'[e] = sent[e] + 1
    BY <1>3 DEF MirrorTypeOK
  <2> QED
    BY ONLY <1>2, <2>1, e \in Events
<1> QED
  BY <1>1, <1>2, <1>4

\* Who writes the correlations.
LEMMA CorrSteps ==
    ASSUME MirrorTypeOK, HandlerInv, [MirrorNext]_mirrorVars
    PROVE  \/ UNCHANGED <<corr, late>>
           \/ \E e \in Events : Commit(e)
           \/ Put \/ PutFails \/ Reput
<1> USE DEF corrVars
<1>1. CASE \E e \in Events : Deliver(e) \/ AckWaitPasses(e)
  BY <1>1 DEF Deliver, AckWaitPasses
<1>2. CASE Begin
  BY <1>2 DEF Begin, BeginSkips, BeginFails, BeginSeen, BeginEvent, BeginNotice
<1>3. CASE Look
  BY <1>3 DEF Look, LookupMirrored, LookupMessage, LookupUnmappable, LookupOriginal,
              LookupUnanchored, LookupFails
<1>4. CASE Stack
  BY <1>4 DEF Stack, Resolve, ResolveSkips, ResolveFails
<1>5. CASE Act
  BY <1>5 DEF Act, Create, CreateUnanswered, HandleDelete, Read, ActFails
<1>6. CASE Reread \/ RereadFails \/ CleanDuplicate \/ CleanDuplicateFails \/ ReputFails
  BY <1>6 DEF Reread, RereadFails, CleanDuplicate, CleanDuplicateFails, ReputFails
<1>7. CASE Take \/ Finish \/ ThrottlePasses \/ RestartWorker \/ UNCHANGED mirrorVars
  BY <1>7 DEF Take, Finish, ThrottlePasses, RestartWorker, mirrorVars
<1> QED
  BY <1>1, <1>2, <1>3, <1>4, <1>5, <1>6, <1>7 DEF MirrorNext, Store

\* What the database names stays a post of the event.
LEMMA CorrStep ==
    ASSUME MirrorTypeOK, HandlerInv, CorrInv, [MirrorNext]_mirrorVars
    PROVE  CorrInv'
<1>s. stream' = stream /\ Events' = Events
  BY StreamKept DEF Events
<1>g. \A e : Posts(e) \subseteq Posts(e)'
  BY PostsGrow
<1>1. CASE UNCHANGED <<corr, late>>
  BY <1>1, <1>s, <1>g DEF CorrInv
<1>2. CASE \E e \in Events : Commit(e)
  BY <1>2, <1>s, <1>g DEF CorrInv, Commit, MirrorTypeOK
<1>3. CASE Put \/ PutFails \/ Reput
  <2>1. h.ev \in Events /\ h.post \in Posts(h.ev)
    BY <1>3 DEF Put, PutFails, Reput, At, HandlerInv, Storing, MirrorTypeOK, Handler
  <2>2. /\ corr' \in {corr, [corr EXCEPT ![h.ev] = h.post]}
        /\ late' \in {late, [late EXCEPT ![h.ev] = h.post]}
    BY <1>3 DEF Put, PutFails, Reput, Correlate, corrVars
  <2> QED
    BY <1>s, <1>g, <2>1, <2>2 DEF CorrInv, MirrorTypeOK
<1> QED
  BY <1>1, <1>2, <1>3, CorrSteps

\* A correlation is never removed.
LEMMA CorrKept ==
    ASSUME MirrorTypeOK, HandlerInv, CorrInv, [MirrorNext]_mirrorVars
    PROVE  \A e \in Events : corr[e] # None => corr'[e] # None
<1>1. CASE UNCHANGED <<corr, late>>
  BY <1>1
<1>2. CASE \E e \in Events : Commit(e)
  BY <1>2 DEF Commit, MirrorTypeOK
<1>3. CASE Put \/ PutFails \/ Reput
  <2>1. h.ev \in Events /\ h.post \in Posts(h.ev)
    BY <1>3 DEF Put, PutFails, Reput, At, HandlerInv, Storing, MirrorTypeOK, Handler
  <2>2. h.post # None
    BY <2>1 DEF Posts, PostId, None
  <2>3. corr' \in {corr, [corr EXCEPT ![h.ev] = h.post]}
    BY <1>3 DEF Put, PutFails, Reput, Correlate, corrVars
  <2> QED
    BY <2>1, <2>2, <2>3 DEF MirrorTypeOK
<1> QED
  BY <1>1, <1>2, <1>3, CorrSteps

\* The handler holds the post its stage says.
LEMMA HandlerStep ==
    ASSUME MirrorTypeOK, HandlerInv, CorrInv, [MirrorNext]_mirrorVars
    PROVE  HandlerInv'
<1>s. stream' = stream /\ Events' = Events
  BY StreamKept DEF Events
<1>n. Events \subseteq Nat \ {0} /\ \A e \in Events : Kind(e) \in Kinds
  BY StreamFacts
<1>k. \A e : /\ Kind(e)' = Kind(e) /\ Of(e)' = Of(e)
             /\ Chat(e)' = Chat(e) /\ IsNotice(e)' = IsNotice(e)
  BY <1>s DEF Kind, Of, Chat, IsNotice
<1>h. h.pc # "idle" => h.ev \in Events
  BY DEF HandlerInv, MirrorTypeOK, Handler, At
<1>r. h \in [ev: Events \cup {None}, pc: Steps, post: PostId \cup {None}]
  BY DEF MirrorTypeOK, Handler
<1>c. \A e \in Events : corr[e] # None => corr'[e] # None
  BY CorrKept
<1>e. \A x : h' = [h EXCEPT !.pc = x] => h'.ev = h.ev /\ h'.post = h.post /\ h'.pc = x
  BY <1>r
<1> USE DEF At
<1>1. CASE h' = Idle
  BY <1>1 DEF HandlerInv, Idle, Storing, None
<1>2. CASE UNCHANGED <<h, posts>>
  <2>1. \A e : Posts(e)' = Posts(e)
    BY <1>2, <1>s, PostsKept
  <2> QED
    BY <1>2, <1>s, <1>k, <1>c, <1>h, <2>1 DEF HandlerInv
<1>3. CASE Take
  <2>1. h'.pc = "begin" /\ h'.ev = buffer[1] /\ buffer[1] \in Events
    BY <1>3 DEF Take, MirrorTypeOK
  <2> QED
    BY <1>n, <2>1 DEF HandlerInv, Storing, None
<1>4. CASE BeginEvent \/ (BeginNotice /\ Goto("resolve"))
  <2>1. h.ev \in Events /\ h'.ev = h.ev /\ h'.pc = IF BeginEvent THEN Second ELSE "resolve"
    BY <1>4, <1>h, <1>e DEF BeginEvent, BeginNotice, Goto
  <2>2. h'.pc = "lookup" => Kind(h.ev) \in {"edit", "delete"}
    BY <2>1 DEF Second
  <2>3. h'.pc = "resolve" => Kind(h.ev) # "delete"
    BY <1>4, <2>1 DEF Second, BeginNotice, IsNotice
  <2>4. h'.pc \in {"lookup", "resolve"}
    BY <2>1 DEF Second
  <2> QED
    BY <1>n, <1>k, <2>1, <2>2, <2>3, <2>4 DEF HandlerInv, Storing, None
<1>5. CASE LookupMessage
  <2>1. h.ev \in Events /\ h'.ev = h.ev /\ h'.pc = "act" /\ Kind(h.ev) = "message"
    BY <1>5, <1>h, <1>e DEF LookupMessage, Goto, AfterLookup
  <2> QED
    BY <1>n, <1>k, <2>1 DEF HandlerInv, Storing, None
<1>6. CASE LookupOriginal
  <2>1. h.ev \in Events /\ h'.ev = h.ev /\ h'.pc = "resolve"
    BY <1>6, <1>h, <1>r DEF LookupOriginal, AfterLookup
  <2>2. Kind(h.ev) = "delete" => h'.post \in Posts(Of(h.ev))
    <3>1. corr[Of(h.ev)] # None
      BY <1>6 DEF LookupOriginal
    <3>2. Kind(h.ev) = "delete" => Of(h.ev) \in Events /\ h'.post = corr[Of(h.ev)]
      BY <1>6, <1>r, <2>1, StreamFacts DEF LookupOriginal
    <3> QED
      BY <3>1, <3>2 DEF CorrInv
  <2>3. \A e : Posts(e)' = Posts(e)
    BY <1>6, <1>s, PostsKept DEF LookupOriginal
  <2> QED
    BY <1>n, <1>k, <2>1, <2>2, <2>3 DEF HandlerInv, Storing, None
<1>7. CASE Resolve
  <2>1. h.ev \in Events /\ h'.ev = h.ev /\ h'.post = h.post /\ h'.pc = AfterResolve
    BY <1>7, <1>h, <1>e DEF Resolve, Goto
  <2>2. \A e : Posts(e)' = Posts(e)
    BY <1>7, <1>s, PostsKept DEF Resolve
  <2>3. Kind(h.ev) = "delete" => h.post \in Posts(Of(h.ev))
    BY <1>7 DEF Resolve, HandlerInv
  <2> QED
    BY <1>n, <1>k, <2>1, <2>2, <2>3 DEF HandlerInv, Storing, None, AfterResolve
<1>8. CASE Create
  <2>1. /\ h.ev \in Events /\ h'.ev = h.ev /\ h'.post = Len(posts) + 1
        /\ h'.pc = IF IsNotice(h.ev) THEN "finish" ELSE "put"
    BY <1>8, <1>h, <1>r DEF Create
  <2>2. Posts(h.ev)' = Posts(h.ev) \cup {Len(posts) + 1} /\ Len(posts') = Len(posts) + 1
    BY <1>8, <1>s, <2>1, PostAdded DEF Create
  <2>3. IsNotice(h.ev) \/ Chat(h.ev)
    BY <1>8, <1>n, <2>1 DEF Create, IsNotice, Chat, Kinds
  <2>4. Kind(h.ev) # "delete"
    BY <1>8 DEF Create
  <2>5. ~(IsNotice(h.ev) /\ Chat(h.ev))
    BY DEF IsNotice, Chat
  <2> QED
    BY <1>n, <1>k, <2>1, <2>2, <2>3, <2>4, <2>5 DEF HandlerInv, Storing, None
<1>9. CASE HandleDelete /\ Goto("finish")
  <2>1. /\ h.ev \in Events /\ h'.ev = h.ev /\ h'.post = h.post /\ h'.pc = "finish"
        /\ Kind(h.ev) = "delete"
    BY <1>9, <1>h, <1>e DEF HandleDelete, Goto
  <2>2. h.post \in Posts(Of(h.ev))
    BY <1>9 DEF HandleDelete, HandlerInv
  <2>3. h.post \in Posts(Of(h.ev))'
    <3>1. PICK m : m = Of(h.ev)
      OBVIOUS
    <3>2. m = Of(h.ev)'
      BY <2>1, <3>1, <1>s DEF Of
    <3> QED
      BY <2>2, <3>1, <3>2, PostsGrow
  <2>4. ~Chat(h.ev) /\ ~IsNotice(h.ev)
    BY <2>1 DEF Chat, IsNotice
  <2> QED
    BY <1>n, <1>k, <2>1, <2>3, <2>4 DEF HandlerInv, Storing, None
<1>10. CASE Read
  <2>1. h.ev \in Events /\ h'.ev = h.ev /\ h'.pc = "finish" /\ Kind(h.ev) = "read"
    BY <1>10, <1>h, <1>e DEF Read, Goto
  <2>2. ~Chat(h.ev) /\ ~IsNotice(h.ev)
    BY <2>1 DEF Chat, IsNotice
  <2> QED
    BY <1>n, <1>k, <2>1, <2>2 DEF HandlerInv, Storing, None
<1>11. CASE Store /\ ~RereadFails
  <2>1. h.ev \in Events /\ h'.ev = h.ev /\ h'.post = h.post /\ h.pc \in Storing
    BY <1>11, <1>h, <1>e DEF Store, Put, PutFails, Reread, CleanDuplicate, CleanDuplicateFails,
       Reput, ReputFails, Goto, Storing
  <2>2. h'.pc \in Storing \cup {"finish"}
    BY <1>11, <1>e DEF Store, Put, PutFails, Reread, AfterReread, CleanDuplicate, CleanDuplicateFails,
       Reput, ReputFails, Goto, Storing
  <2>3. Chat(h.ev) /\ h.post \in Posts(h.ev)
    BY <2>1 DEF HandlerInv
  <2>4. h.post \in Posts(h.ev)'
    <3>1. PICK m : m = h.ev
      OBVIOUS
    <3>2. m = h'.ev
      BY <2>1, <3>1
    <3> QED
      BY <2>3, <3>1, <3>2, PostsGrow
  <2>5. ~IsNotice(h.ev) /\ Kind(h.ev) # "delete"
    BY <2>3 DEF Chat, IsNotice
  <2>6. h'.pc = "clean" => corr'[h.ev] # None
    <3>1. CASE Reread
      BY <3>1, <1>e DEF Reread, AfterReread, Goto, corrVars
    <3> QED
      BY <3>1, <1>11, <1>e DEF Store, Put, PutFails, CleanDuplicate, CleanDuplicateFails,
         Reput, ReputFails, Goto
  <2> QED
    BY <1>n, <1>k, <2>1, <2>2, <2>3, <2>4, <2>5, <2>6 DEF HandlerInv, Storing, None
<1>12. \/ h' = Idle \/ UNCHANGED <<h, posts>> \/ Take \/ BeginEvent
       \/ (BeginNotice /\ Goto("resolve"))
       \/ LookupMessage \/ LookupOriginal \/ Resolve \/ Create \/ (HandleDelete /\ Goto("finish"))
       \/ Read \/ (Store /\ ~RereadFails)
  <2> USE DEF Return, ReturnError
  <2>1. CASE \E e \in Events : Deliver(e) \/ AckWaitPasses(e) \/ Commit(e)
    BY <2>1 DEF Deliver, AckWaitPasses, Commit
  <2>2. CASE Begin
    BY <2>2 DEF Begin, BeginSkips, BeginFails, BeginSeen, BeginNotice
  <2>3. CASE Look
    BY <2>3 DEF Look, LookupMirrored, LookupUnmappable, LookupUnanchored, LookupFails
  <2>4. CASE Stack
    BY <2>4 DEF Stack, ResolveSkips, ResolveFails
  <2>5. CASE Act
    BY <2>5 DEF Act, CreateUnanswered, HandleDelete, ActFails
  <2>6. CASE Store
    BY <2>6 DEF RereadFails
  <2>7. CASE Finish \/ ThrottlePasses \/ RestartWorker \/ UNCHANGED mirrorVars
    BY <2>7 DEF Finish, ThrottlePasses, RestartWorker, mirrorVars
  <2> QED
    BY <2>1, <2>2, <2>3, <2>4, <2>5, <2>6, <2>7 DEF MirrorNext
<1> QED
  BY <1>1, <1>2, <1>3, <1>4, <1>5, <1>6, <1>7, <1>8, <1>9, <1>10, <1>11, <1>12

\* One post for each event that nothing excuses.
LEMMA OnePostStep ==
    ASSUME MirrorTypeOK, BrokerInv, HandlerInv, CorrInv, OnePostInv, [MirrorNext]_mirrorVars
    PROVE  OnePostInv'
<1>s. stream' = stream /\ Events' = Events
  BY StreamKept DEF Events
<1>n. Events \subseteq Nat \ {0}
  BY StreamFacts
<1>k. \A e : Kind(e)' = Kind(e) /\ Chat(e)' = Chat(e)
  BY <1>s DEF Kind, Chat
<1>x. \A e \in Events : ~Excused(e)' => ~Excused(e)
  BY Monotone DEF Excused
<1>h. h.pc # "idle" => h.ev \in Events
  BY DEF HandlerInv, MirrorTypeOK, Handler, At
<1>e. \A x : h' = [h EXCEPT !.pc = x] => h'.ev = h.ev /\ h'.post = h.post /\ h'.pc = x
  BY DEF MirrorTypeOK, Handler
<1> SUFFICES ASSUME NEW e \in Events, Chat(e), ~Excused(e)'
             PROVE  /\ \A p, q \in Posts(e)' : p = q
                    /\ \A p \in Posts(e)' :
                          p = corr'[e] \/ (h'.ev = e /\ h'.pc \in Storing /\ h'.post = p)
                    /\ h'.ev = e /\ (h'.pc = "act" \/ (h'.pc = "resolve" /\ Kind(e) = "edit")) =>
                          corr'[e] = None
  BY <1>s, <1>k DEF OnePostInv, At
<1>i. /\ \A p, q \in Posts(e) : p = q
      /\ \A p \in Posts(e) : p = corr[e] \/ (h.ev = e /\ h.pc \in Storing /\ h.post = p)
      /\ h.ev = e /\ (h.pc = "act" \/ (h.pc = "resolve" /\ Kind(e) = "edit")) => corr[e] = None
  BY <1>x DEF OnePostInv, At
<1>p. None \notin Posts(e)
  BY DEF Posts, PostId, None
<1>m. e # h.ev => Posts(e)' = Posts(e)
  BY PostsGrow
<1>d. ~Create /\ ~CreateUnanswered => Posts(e)' = Posts(e)
  <2>1. CASE UNCHANGED posts
    BY <2>1, <1>s, PostsKept
  <2>2. CASE h.post \in PostId /\ Hide(h.post)
    BY <2>2, <1>s, PostHidden
  <2> QED
    BY <2>1, <2>2, PostSteps
<1> USE DEF At
\* The handler does not move.
<1>1. CASE h' = h /\ UNCHANGED <<corr, late, posts>>
  BY <1>1, <1>i, <1>s, PostsKept
<1>2. CASE \E x \in Events : Commit(x)
  <2>1. h' = h /\ UNCHANGED posts
    BY <1>2 DEF Commit
  <2>2. Posts(e)' = Posts(e)
    BY <2>1, <1>s, PostsKept
  <2>3. corr'[e] = corr[e] \/ (corr'[e] = late[e] /\ late[e] # None)
    <3>1. PICK x \in Events : Commit(x)
      BY <1>2
    <3>0. corr' = [corr EXCEPT ![x] = late[x]] /\ late[x] # None
      BY <3>1 DEF Commit
    <3>2. CASE x = e
      BY <3>0, <3>2 DEF MirrorTypeOK
    <3>3. CASE x # e
      BY <3>0, <3>3 DEF MirrorTypeOK
    <3> QED
      BY <3>2, <3>3
  <2>4. late[e] # None => late[e] \in Posts(e)
    BY DEF CorrInv
  <2>5. CASE corr'[e] = late[e] /\ late[e] # None
    <3>1. h.pc \in Storing \/ corr[e] \in Posts(e) \/ h.ev # e
      BY <1>i, <2>4, <2>5
    <3>2. ~(h.ev = e /\ (h.pc = "act" \/ (h.pc = "resolve" /\ Kind(e) = "edit")))
      BY <1>i, <1>p, <3>1 DEF Storing
    <3> QED
      BY <1>i, <2>1, <2>2, <2>4, <2>5, <3>2
  <2> QED
    BY <1>i, <2>1, <2>2, <2>3, <2>5
\* The handler is not storing, and is not about to create.
<1>3. CASE /\ corr' = corr /\ Posts(e)' = Posts(e)
           /\ h.ev = e => h.pc \notin Storing
           /\ h'.ev = e => h'.pc \notin {"act", "resolve"}
  BY <1>3, <1>i
\* It moves toward the creation.
<1>4. CASE \/ BeginEvent \/ LookupMessage \/ LookupOriginal \/ Resolve
           \/ (BeginNotice /\ Goto("resolve"))
  <2>1. corr' = corr /\ UNCHANGED posts /\ h'.ev = h.ev /\ h.pc \notin Storing
    <3>1. h'.ev = h.ev
      BY <1>4, <1>e DEF BeginEvent, LookupMessage, LookupOriginal, Resolve, Goto, MirrorTypeOK,
         Handler
    <3> QED
      BY <1>4, <3>1 DEF BeginEvent, LookupMessage, LookupOriginal, Resolve, BeginNotice, Storing,
         corrVars
  <2>2. Posts(e)' = Posts(e)
    BY <2>1, <1>s, PostsKept
  <2>3. CASE h.ev # e
    BY <1>i, <2>1, <2>2, <2>3
  <2>4. CASE h.ev = e
    <3>1. Kind(e) \in {"message", "edit"}
      BY DEF Chat
    <3>2. CASE BeginEvent
      <4>1. h'.pc = Second
        BY <3>2, <1>e DEF BeginEvent, Goto
      <4> QED
        BY <1>i, <2>1, <2>2, <2>4, <3>1, <4>1 DEF Second
    <3>3. CASE LookupMessage
      BY <3>3, <1>i, <2>1, <2>2, <2>4 DEF LookupMessage
    <3>4. CASE LookupOriginal
      <4>1. Kind(e) = "edit" /\ corr[e] = None
        BY <3>1, <3>4, <2>4 DEF LookupOriginal
      <4> QED
        BY <1>i, <2>1, <2>2, <2>4, <4>1
    <3>5. CASE Resolve
      <4>1. h'.pc = AfterResolve
        BY <3>5, <1>e DEF Resolve, Goto
      <4>2. Kind(e) = "message" => h'.pc = "lookup"
        BY <4>1, <2>4 DEF AfterResolve
      <4>3. h.pc = "resolve"
        BY <3>5 DEF Resolve
      <4> QED
        BY <1>i, <2>1, <2>2, <2>4, <3>1, <4>2, <4>3
    <3>6. CASE BeginNotice
      BY <3>1, <3>6, <2>4 DEF BeginNotice, IsNotice
    <3> QED
      BY <1>4, <3>2, <3>3, <3>4, <3>5, <3>6
  <2> QED
    BY <2>3, <2>4
\* It creates.
<1>5. CASE CreateUnanswered
  <2>1. h.ev # e
    BY <1>5 DEF CreateUnanswered, Loosen, Excused
  <2> QED
    BY <1>5, <1>m, <1>3, <1>n, <2>1 DEF CreateUnanswered, corrVars, ReturnError, Idle, None, Storing
<1>6. CASE Create
  <2>1. h.ev \in Events /\ h'.ev = h.ev /\ corr' = corr /\ h.pc = "act"
    BY <1>6, <1>h DEF Create, MirrorTypeOK, Handler, corrVars
  <2>2. CASE h.ev # e
    BY <1>m, <1>i, <2>1, <2>2
  <2>3. CASE h.ev = e
    <3>1. Posts(e)' = Posts(e) \cup {Len(posts) + 1}
      BY <1>6, <1>s, <2>3, PostAdded DEF Create
    <3>2. Posts(e) = {} /\ corr[e] = None
      BY <1>i, <1>p, <2>1, <2>3 DEF Storing
    <3>3. ~IsNotice(e)
      BY DEF Chat, IsNotice
    <3>4. h'.pc = "put" /\ h'.post = Len(posts) + 1
      BY <1>6, <2>3, <3>3 DEF Create, MirrorTypeOK, Handler
    <3> QED
      BY <2>1, <2>3, <3>1, <3>2, <3>4 DEF Storing
  <2> QED
    BY <2>2, <2>3
\* It stores the correlation.
<1>7. CASE Store /\ h.ev = e
  <2>1. h.post \in Posts(e) /\ h.pc \in Storing /\ Posts(e)' = Posts(e)
    <3>1. h.pc \in Storing
      BY <1>7 DEF Store, Put, PutFails, Reread, RereadFails, CleanDuplicate, CleanDuplicateFails,
         Reput, ReputFails, Storing
    <3>2. ~Create /\ ~CreateUnanswered
      BY <3>1 DEF Create, CreateUnanswered, Storing
    <3> QED
      BY <1>7, <1>d, <3>1, <3>2 DEF HandlerInv
  <2>2. h.post # None /\ \A p \in Posts(e) : p = h.post
    BY <1>i, <1>p, <2>1
  <2>3. CASE Put \/ Reput
    <3>1. corr'[e] = h.post /\ h'.pc = "finish"
      BY <1>7, <1>e, <2>3 DEF Put, Reput, Correlate, Goto, MirrorTypeOK
    <3> QED
      BY <1>i, <2>1, <2>2, <3>1
  <2>4. CASE PutFails
    <3>1. h'.pc = "reread" /\ h'.ev = e /\ h'.post = h.post
      BY <1>7, <1>e, <2>4 DEF PutFails, Goto
    <3> QED
      BY <1>i, <2>1, <2>2, <3>1 DEF Storing
  <2>5. CASE Reread
    <3>1. /\ h'.ev = e /\ h'.post = h.post /\ corr' = corr
          /\ h'.pc = AfterReread
      BY <1>7, <1>e, <2>5 DEF Reread, Goto, corrVars
    <3>2. h'.pc \in Storing \/ (corr[e] = h.post /\ h'.pc = "finish")
      <4>1. CASE corr[e] = None
        BY <1>7, <2>2, <3>1, <4>1 DEF Storing, AfterReread
      <4>2. CASE corr[e] = h.post /\ corr[e] # None
        BY <1>7, <2>2, <3>1, <4>2 DEF AfterReread
      <4>3. CASE corr[e] # h.post /\ corr[e] # None
        BY <1>7, <2>2, <3>1, <4>3 DEF Storing, AfterReread
      <4> QED
        BY <4>1, <4>2, <4>3
    <3>3. h'.pc \notin {"act", "resolve"}
      BY <3>1 DEF AfterReread
    <3> QED
      BY <1>i, <2>1, <2>2, <3>1, <3>2, <3>3
  <2>6. CASE RereadFails
    <3>1. ~Uncorrelated
      BY <1>7, <2>6 DEF RereadFails, Excused
    <3>2. corr[e] = h.post
      BY <1>7, <2>2, <3>1 DEF Uncorrelated, Chat
    <3>3. corr' = corr /\ h' = Idle
      BY <2>6 DEF RereadFails, corrVars, ReturnError
    <3> QED
      BY <1>i, <1>n, <2>1, <2>2, <3>2, <3>3 DEF Idle, None
  <2>7. CASE CleanDuplicate
    <3>1. corr' = corr /\ corr[e] # None /\ h'.pc = "finish"
      BY <1>7, <1>e, <2>7 DEF CleanDuplicate, HandlerInv, corrVars, Goto
    <3>2. corr[e] \in Posts(e)
      BY <3>1 DEF CorrInv
    <3> QED
      BY <1>i, <2>1, <3>1, <3>2
  <2>8. ~CleanDuplicateFails /\ ~ReputFails
    BY <1>7 DEF CleanDuplicateFails, ReputFails, Loosen, Excused
  <2> QED
    BY <1>7, <2>3, <2>4, <2>5, <2>6, <2>7, <2>8 DEF Store
<1>8. CASE Store /\ h.ev # e
  <2>1. corr'[e] = corr[e]
    BY <1>8 DEF Store, Put, PutFails, Reread, RereadFails, CleanDuplicate, CleanDuplicateFails,
       Reput, ReputFails, Correlate, corrVars, MirrorTypeOK
  <2>2. h'.ev # e
    BY <1>8, <1>e, <1>n DEF Store, Put, PutFails, Reread, RereadFails, CleanDuplicate,
       CleanDuplicateFails, Reput, ReputFails, Goto, ReturnError, Idle, None
  <2> QED
    BY <1>8, <1>i, <1>m, <2>1, <2>2
<1>9. CASE RestartWorker
  <2>1. corr' = corr /\ Posts(e)' = Posts(e) /\ h'.ev # e
    BY <1>9, <1>s, <1>n, PostsKept DEF RestartWorker, Idle, None, corrVars
  <2>2. h.ev = e => ~Uncorrelated
    BY <1>9 DEF RestartWorker, Loosen, Excused
  <2>3. CASE h.ev = e /\ h.pc \in Storing
    <3>1. h.post \in Posts(e) /\ h.post # None
      BY <1>p, <2>3 DEF HandlerInv
    <3>2. corr[e] = h.post
      BY <2>2, <2>3, <3>1 DEF Uncorrelated, Chat
    <3> QED
      BY <1>i, <2>1, <3>1, <3>2
  <2> QED
    BY <1>i, <2>1, <2>3
<1>10. CASE HandleDelete
  <2>1. h.ev # e
    BY <1>10 DEF HandleDelete, Chat
  <2>2. corr' = corr /\ h'.ev # e
    BY <1>10, <1>e, <1>n, <2>1 DEF HandleDelete, corrVars, Goto, ReturnError, Idle, None
  <2> QED
    BY <1>i, <1>m, <2>1, <2>2
<1>11. CASE Take
  <2>1. corr' = corr /\ Posts(e)' = Posts(e) /\ h'.pc = "begin" /\ h.pc = "idle"
    BY <1>11, <1>s, PostsKept DEF Take, corrVars
  <2> QED
    BY <1>3, <2>1 DEF Storing
<1>12. CASE /\ h.pc \notin Storing /\ UNCHANGED <<corr, posts>>
            /\ h' = Idle \/ Goto("finish")
  <2>1. Posts(e)' = Posts(e) /\ h'.pc \in {"idle", "finish"}
    BY <1>12, <1>s, <1>e, PostsKept DEF Idle, Goto
  <2> QED
    BY <1>3, <1>12, <2>1
<1>13. \/ h' = h /\ UNCHANGED <<corr, late, posts>>
       \/ \E x \in Events : Commit(x)
       \/ BeginEvent \/ LookupMessage \/ LookupOriginal \/ Resolve \/ (BeginNotice /\ Goto("resolve"))
       \/ Create \/ CreateUnanswered \/ HandleDelete \/ Store \/ RestartWorker \/ Take
       \/ /\ h.pc \notin Storing /\ UNCHANGED <<corr, posts>>
          /\ h' = Idle \/ Goto("finish")
  <2> USE DEF Return, ReturnError, corrVars, Storing
  <2>1. CASE \E x \in Events : Deliver(x) \/ AckWaitPasses(x) \/ Commit(x)
    BY <2>1 DEF Deliver, AckWaitPasses
  <2>2. CASE Begin
    BY <2>2 DEF Begin, BeginSkips, BeginFails, BeginSeen, BeginNotice
  <2>3. CASE Look
    BY <2>3 DEF Look, LookupMirrored, LookupUnmappable, LookupUnanchored, LookupFails
  <2>4. CASE Stack
    BY <2>4 DEF Stack, ResolveSkips, ResolveFails
  <2>5. CASE Act
    BY <2>5 DEF Act, Read, ActFails
  <2>7. CASE Finish \/ ThrottlePasses \/ UNCHANGED mirrorVars
    BY <2>7 DEF Finish, ThrottlePasses, mirrorVars
  <2> QED
    BY <2>1, <2>2, <2>3, <2>4, <2>5, <2>7 DEF MirrorNext
<1> QED
  BY <1>1, <1>2, <1>4, <1>5, <1>6, <1>7, <1>8, <1>9, <1>10, <1>11, <1>12, <1>13

-----------------------------------------------------------------------------
(* What is settled and what is posted                                      *)

\* The steps that remember an event, or acknowledge one that is not skipped.
LEMMA SettledBy ==
    ASSUME MirrorTypeOK, HandlerInv, [MirrorNext]_mirrorVars, NEW e \in Events,
           \/ status'[e] = "acked" /\ status[e] # "acked" /\ e \notin skipped'
           \/ e \in seen' /\ e \notin seen
    PROVE  /\ h.ev = e /\ h' = Idle
           /\ \/ BeginSeen
              \/ BeginNotice /\ Throttled(Kind(h.ev))
              \/ LookupMirrored
              \/ LookupUnanchored
              \/ Finish
<1>t. status \in [Events -> {"new", "out", "due", "acked", "dropped"}]
  BY DEF MirrorTypeOK
<1>r. h.ev # e /\ (Return \/ ReturnError) => status'[e] = status[e]
  BY <1>t DEF Return, ReturnError, Ack, Nak, Reply
<1>q. ReturnError /\ status'[e] = "acked" => status[e] = "acked"
  BY <1>t DEF ReturnError, Nak, Reply, Again
<1>k. UNCHANGED <<status, seen>> => FALSE
  OBVIOUS
<1> USE DEF KeepAtStore
<1>1. ~ \E x \in Events : Deliver(x) \/ AckWaitPasses(x) \/ Commit(x)
  BY <1>t DEF Deliver, AckWaitPasses, Commit, Again
<1>2. CASE Begin
  <2>1. CASE BeginSkips
    BY <2>1, <1>r DEF BeginSkips
  <2>2. CASE BeginSeen
    BY <2>2, <1>r DEF BeginSeen, Return
  <2>3. CASE BeginFails
    BY <2>3, <1>q DEF BeginFails
  <2>4. CASE BeginEvent
    BY <2>4 DEF BeginEvent
  <2>5. CASE BeginNotice
    <3>1. Throttled(Kind(h.ev)) /\ MarkSeen /\ Return
      BY <1>k, <2>5, Zenon DEF BeginNotice
    <3> QED
      BY <2>5, <3>1, <1>r DEF MarkSeen, Return
  <2> QED
    BY <1>2, <2>1, <2>2, <2>3, <2>4, <2>5 DEF Begin
<1>3. CASE Look
  <2>1. CASE LookupMirrored
    BY <2>1, <1>r DEF LookupMirrored, MarkSeen, Return
  <2>2. CASE LookupMessage \/ LookupOriginal
    BY <2>2 DEF LookupMessage, LookupOriginal
  <2>3. CASE LookupUnmappable
    BY <2>3, <1>r DEF LookupUnmappable
  <2>4. CASE LookupUnanchored
    BY <2>4, <1>r DEF LookupUnanchored, Return
  <2>5. CASE LookupFails
    BY <2>5, <1>q DEF LookupFails
  <2> QED
    BY <1>3, <2>1, <2>2, <2>3, <2>4, <2>5 DEF Look
<1>4. ~Stack
  BY <1>r, <1>q DEF Stack, Resolve, ResolveSkips, ResolveFails
<1>5. ~Act
  BY <1>q DEF Act, Create, CreateUnanswered, HandleDelete, Read, ActFails
<1>6. ~Store
  BY <1>q DEF Store, Put, PutFails, Reread, RereadFails, CleanDuplicate, CleanDuplicateFails,
              Reput, ReputFails
<1>7. CASE Finish
  BY <1>7, <1>r DEF Finish, MarkSeen, Return
<1>8. ~(Take \/ ThrottlePasses \/ RestartWorker \/ UNCHANGED mirrorVars)
  BY DEF Take, ThrottlePasses, RestartWorker, mirrorVars, brokerVars
<1> QED
  BY <1>1, <1>2, <1>3, <1>4, <1>5, <1>6, <1>7, <1>8 DEF MirrorNext

\* How the handler comes to the end, and how it leaves it.
LEMMA AtFinish ==
    ASSUME MirrorTypeOK, HandlerInv, [MirrorNext]_mirrorVars
    PROVE  /\ h'.pc = "finish" /\ h.pc # "finish" =>
                  h'.ev = h.ev /\ (Create \/ HandleDelete \/ Read \/ Store)
           /\ h.pc = "finish" => h' = h \/ Finish \/ RestartWorker
<1>e. \A x : Goto(x) => h'.ev = h.ev /\ h'.pc = x
  BY DEF MirrorTypeOK, Handler, Goto
<1> USE DEF Return, ReturnError, Idle, At
<1>1. CASE \E x \in Events : Deliver(x) \/ AckWaitPasses(x) \/ Commit(x)
  BY <1>1 DEF Deliver, AckWaitPasses, Commit
<1>2. CASE Begin
  <2>1. CASE BeginEvent
    BY <2>1, <1>e DEF BeginEvent, Second
  <2>2. CASE BeginNotice
    BY <2>2, <1>e DEF BeginNotice
  <2> QED
    BY <1>2, <2>1, <2>2 DEF Begin, BeginSkips, BeginFails, BeginSeen
<1>3. CASE Look
  <2>1. CASE LookupOriginal
    <3>1. h'.pc = AfterLookup /\ Kind(h.ev) \in {"edit", "delete"}
      BY <2>1 DEF LookupOriginal, MirrorTypeOK, Handler
    <3> QED
      BY <2>1, <3>1 DEF AfterLookup, LookupOriginal
  <2>2. CASE LookupMessage
    BY <2>2, <1>e DEF LookupMessage, AfterLookup
  <2> QED
    BY <1>3, <2>1, <2>2 DEF Look, LookupMirrored, LookupUnmappable, LookupUnanchored, LookupFails
<1>4. CASE Stack
  BY <1>4, <1>e DEF Stack, Resolve, ResolveSkips, ResolveFails, AfterResolve
<1>5. CASE Act
  <2>1. CASE Create
    <3>1. h'.ev = h.ev /\ h.pc = "act"
      BY <2>1 DEF Create, MirrorTypeOK, Handler
    <3> QED
      BY <2>1, <3>1
  <2>2. CASE HandleDelete \/ Read
    BY <2>2, <1>e DEF HandleDelete, Read
  <2> QED
    BY <1>5, <2>1, <2>2 DEF Act, CreateUnanswered, ActFails
<1>6. CASE Store
  BY <1>6, <1>e DEF Store, Put, PutFails, Reread, RereadFails, CleanDuplicate, CleanDuplicateFails,
     Reput, ReputFails
<1>7. CASE Take \/ Finish \/ ThrottlePasses \/ RestartWorker \/ UNCHANGED mirrorVars
  BY <1>7 DEF Take, Finish, ThrottlePasses, RestartWorker, mirrorVars
<1> QED
  BY <1>1, <1>2, <1>3, <1>4, <1>5, <1>6, <1>7 DEF MirrorNext

\* A message is not remembered or settled before it is posted.
LEMMA PostedStep ==
    ASSUME MirrorTypeOK, BrokerInv, HandlerInv, CorrInv, PostedInv, [MirrorNext]_mirrorVars
    PROVE  PostedInv'
<1>s. stream' = stream /\ Events' = Events
  BY StreamKept DEF Events
<1>k. \A e : Kind(e)' = Kind(e)
  BY <1>s DEF Kind
<1> SUFFICES ASSUME NEW e \in Events, Kind(e) = "message",
                    e \in seen' \/ (status'[e] = "acked" /\ e \notin skipped')
             PROVE  Posts(e)' # {}
  BY <1>s, <1>k DEF PostedInv
<1>g. Posts(e) \subseteq Posts(e)'
  BY PostsGrow
<1>1. CASE e \in seen \/ (status[e] = "acked" /\ e \notin skipped)
  BY <1>1, <1>g DEF PostedInv
<1>2. CASE ~(e \in seen \/ (status[e] = "acked" /\ e \notin skipped))
  <2>1. e \notin skipped' => e \notin skipped
    BY Monotone
  <2>2. /\ h.ev = e
        /\ \/ BeginSeen
           \/ BeginNotice
           \/ LookupMirrored
           \/ LookupUnanchored
           \/ Finish
    BY <1>2, <2>1, SettledBy
  <2>3. ~BeginSeen /\ ~BeginNotice /\ ~LookupUnanchored
    BY <1>2, <2>2 DEF BeginSeen, BeginNotice, IsNotice, LookupUnanchored
  <2>4. CASE LookupMirrored
    BY <1>g, <2>2, <2>4 DEF LookupMirrored, CorrInv
  <2>5. CASE Finish
    BY <1>g, <2>2, <2>5 DEF Finish, HandlerInv, Chat, At
  <2> QED
    BY <2>2, <2>3, <2>4, <2>5
<1> QED
  BY <1>1, <1>2

\* A deletion is settled with its message hidden, and no post of it follows.
LEMMA RevokeStep ==
    ASSUME MirrorTypeOK, BrokerInv, FifoInv, HandlerInv, CorrInv, OnePostInv, RevokeInv,
           [MirrorNext]_mirrorVars
    PROVE  RevokeInv'
<1>s. stream' = stream /\ Events' = Events
  BY StreamKept DEF Events
<1>k. \A e : Kind(e)' = Kind(e) /\ Of(e)' = Of(e)
  BY <1>s DEF Kind, Of
<1> DEFINE Before(d) ==
             (status[d] = "acked" /\ d \notin skipped) \/ d \in seen \/ (h.ev = d /\ At("finish"))
<1> SUFFICES ASSUME NEW d \in Events, Kind(d) = "delete", NEW m \in Events, m = Of(d),
                    ~Excused(m)', sent'[m] = 1, Before(d)'
             PROVE  Shown(m)' = {}
  <2>1. \A d \in Events : Kind(d) = "delete" => Of(d) \in Events
    BY StreamFacts
  <2> QED
    BY <1>s, <1>k, <2>1 DEF RevokeInv
<1>m. m < d /\ Kind(m) = "message" /\ m # d
  BY StreamFacts
<1>x. /\ ~Excused(m) /\ (d \notin skipped' => d \notin skipped)
      /\ sent'[m] >= sent[m] /\ sent[m] \in Nat
  BY Monotone DEF Excused
<1>1. h.ev # m => Shown(m)' \subseteq Shown(m)
  BY PostsGrow
<1>2. Before(d) \/ h.ev = d
  <2>1. h'.pc = "finish" /\ h'.ev = d => h.ev = d
    <3>1. CASE h.pc = "finish"
      <4>1. h'.pc = "finish" => ~Finish /\ ~RestartWorker
        BY DEF Finish, RestartWorker, Return, Idle
      <4> QED
        BY <3>1, <4>1, AtFinish
    <3> QED
      BY <3>1, AtFinish
  <2>2. (status'[d] = "acked" /\ d \notin skipped') \/ d \in seen' => Before(d) \/ h.ev = d
    BY <1>x, SettledBy
  <2> QED
    BY <2>1, <2>2 DEF At
<1>3. sent[m] = 1
  <2>1. sent[d] > 0
    <3>1. status[d] = "acked" => sent[d] # 0 /\ sent[d] \in Nat
      BY MirrorAssumption DEF BrokerInv, MirrorTypeOK
    <3> QED
      BY <1>2, <3>1 DEF BrokerInv
  <2>2. sent[m] > 0
    BY <1>m, <2>1 DEF BrokerInv
  <2> QED
    BY <1>x, <2>2
<1>4. h.ev # m
  <2>n. m <= d
    BY <1>m, StreamFacts
  <2>1. CASE h.ev = d
    BY <1>m, <2>1
  <2>2. CASE status[d] = "acked" \/ d \in seen
    BY <1>3, <2>2, <2>n DEF FifoInv
  <2> QED
    BY <1>2, <2>1, <2>2
<1>5. CASE Before(d)
  BY <1>1, <1>3, <1>4, <1>5, <1>x DEF RevokeInv
<1>6. CASE ~Before(d)
  <2>1. h.ev = d
    BY <1>2, <1>6
  <2>2. CASE h'.pc = "finish"
    <3>1. h.pc # "finish"
      BY <1>6, <2>1 DEF At
    <3>2. Create \/ HandleDelete \/ Read \/ Store
      BY <2>2, <3>1, AtFinish
    <3>3. ~Create /\ ~Read
      BY <2>1 DEF Create, Read
    <3>4. ~Store
      <4>1. Store => h.pc \in Storing
        BY DEF Store, Put, PutFails, Reread, RereadFails, CleanDuplicate, CleanDuplicateFails, Reput,
           ReputFails, Storing, At
      <4> QED
        BY <2>1, <4>1 DEF HandlerInv, Chat
    <3>5. HandleDelete
      BY <3>2, <3>3, <3>4
    <3>6. h.post \in Posts(m) /\ Hide(h.post)
      BY <2>1, <3>5 DEF HandleDelete, HandlerInv, At
    <3>7. Shown(m)' = Shown(m) \ {h.post}
      <4>1. PICK p : p = h.post
        OBVIOUS
      <4>2. p \in PostId /\ Hide(p)
        BY <3>6, <4>1 DEF Posts
      <4> QED
        BY <1>s, <4>1, <4>2, PostHidden
    <3>8. \A p \in Posts(m) : p = h.post
      BY <1>m, <1>x, <3>6 DEF OnePostInv, Chat
    <3> QED
      BY <3>7, <3>8 DEF Shown
  <2>3. CASE h'.pc # "finish"
    <3>1. \/ BeginSeen \/ BeginNotice \/ LookupMirrored \/ LookupUnanchored \/ Finish
      BY <1>6, <1>x, <2>3, SettledBy DEF At
    <3>2. ~BeginSeen /\ ~BeginNotice /\ ~LookupMirrored /\ ~Finish
      BY <1>6, <2>1 DEF BeginSeen, BeginNotice, IsNotice, LookupMirrored, Finish
    <3>3. corr[m] = None
      BY <2>1, <3>1, <3>2 DEF LookupUnanchored
    <3>4. Posts(m) = {}
      BY <1>m, <1>x, <1>4, <3>3 DEF OnePostInv, Chat, Posts, PostId, None
    <3> QED
      BY <1>1, <1>4, <3>4 DEF Shown
  <2> QED
    BY <2>2, <2>3
<1> QED
  BY <1>5, <1>6

-----------------------------------------------------------------------------
(* The notices                                                             *)

\* The first delivery of an event finds no post of it.
LEMMA FirstStep ==
    ASSUME MirrorTypeOK, BrokerInv, FifoInv, HandlerInv, FirstInv, [MirrorNext]_mirrorVars
    PROVE  FirstInv'
<1>s. stream' = stream /\ Events' = Events
  BY StreamKept DEF Events
<1>n. Events \subseteq Nat \ {0}
  BY StreamFacts
<1> USE DEF At
<1> SUFFICES ASSUME NEW e \in Events, sent'[e] = 1,
                    Buffered(e)' \/ (h'.ev = e /\ h'.pc \notin Storing \cup {"finish"})
             PROVE  Posts(e)' = {}
  BY <1>s DEF FirstInv
<1>m. sent'[e] >= sent[e] /\ sent[e] \in Nat
  BY Monotone
<1>p. h.ev # e => Posts(e)' = Posts(e)
  BY PostsGrow
<1>1. CASE sent[e] = 0
  <2>1. Posts(e) = {} /\ h.ev # e
    BY <1>1 DEF BrokerInv
  <2> QED
    BY <1>p, <2>1
<1>2. CASE sent[e] = 1
  <2>1. CASE Buffered(e)
    <3>1. h.ev # e /\ Posts(e) = {}
      BY <1>2, <1>n, <2>1 DEF FifoInv, FirstInv
    <3> QED
      BY <1>p, <3>1
  <2>2. CASE ~Buffered(e)
    <3>1. ~Buffered(e)' /\ ~Take
      <4>1. CASE \E x \in Events : Deliver(x)
        <5>1. PICK x \in Events : Deliver(x)
          BY <4>1
        <5>2. x # e
          BY <1>2, <5>1 DEF Deliver, MirrorTypeOK
        <5>3. buffer' = Append(buffer, x) /\ buffer \in Seq(Events) /\ h' = h
          BY <5>1 DEF Deliver, MirrorTypeOK
        <5>4. ~Buffered(e)'
          BY <2>2, <5>2, <5>3 DEF Buffered
        <5>5. ~Take
          <6>1. buffer' # Tail(buffer) \/ buffer = <<>>
            BY <5>3
          <6> QED
            BY <6>1 DEF Take
        <5> QED
          BY <5>4, <5>5
      <4>2. CASE Take
        <5>1. buffer \in Seq(Events) /\ buffer # <<>> /\ buffer' = Tail(buffer)
          BY <4>2 DEF Take, MirrorTypeOK
        <5>2. h'.ev = buffer[1] /\ 1 \in DOMAIN buffer
          BY <4>2, <5>1 DEF Take
        <5>3. h'.ev # e
          BY <2>2, <5>2 DEF Buffered
        <5>4. \A i \in DOMAIN buffer' : i + 1 \in DOMAIN buffer /\ buffer'[i] = buffer[i + 1]
          BY <5>1
        <5>5. ~Buffered(e)'
          BY <2>2, <5>4 DEF Buffered
        <5> QED
          BY <5>3, <5>5
      <4>3. CASE \/ \E x \in Events : AckWaitPasses(x)
                 \/ RestartWorker \/ Still \/ Inside \/ Leaves
        <5>1. buffer' = buffer \/ (buffer' = <<>> /\ h' = Idle)
          BY <4>3 DEF AckWaitPasses, RestartWorker, Still, Inside, Leaves
        <5>2. ~Buffered(e)'
          BY <2>2, <5>1 DEF Buffered
        <5>3. Take => buffer' # buffer /\ h' # Idle
          <6>1. buffer \in Seq(Events)
            BY DEF MirrorTypeOK
          <6>2. Take => buffer' = Tail(buffer) /\ buffer # <<>> /\ h'.pc = "begin"
            BY DEF Take
          <6>3. buffer # <<>> => Tail(buffer) # buffer
            BY <6>1
          <6> QED
            BY <6>2, <6>3 DEF Idle
        <5> QED
          BY <5>1, <5>2, <5>3
      <4> QED
        BY <4>1, <4>2, <4>3, Shapes
    <3>2. h'.ev = e /\ h'.pc \notin Storing \cup {"finish"} /\ h'.ev # None
      BY <1>n, <3>1 DEF None
    <3>3. h.ev = e
      <4>1. h'.ev = h.ev \/ h' = Idle
        BY <3>1, Shapes DEF Deliver, AckWaitPasses, RestartWorker, Still, Inside, Leaves
      <4> QED
        BY <3>2, <4>1 DEF Idle
    <3>4. h.pc \notin Storing \cup {"finish"}
      <4>1. h.pc = "finish" => h' = h \/ h' = Idle
        BY AtFinish DEF Finish, Return, RestartWorker
      <4>2. h.pc \in Storing => Store \/ h' = h \/ h' = Idle
        <5> USE DEF Storing, KeepAtStore
        <5>1. CASE \E x \in Events : Deliver(x) \/ AckWaitPasses(x) \/ Commit(x)
          BY <5>1 DEF Deliver, AckWaitPasses, Commit
        <5>2. h.pc \in Storing => ~Begin /\ ~Look /\ ~Stack /\ ~Act /\ ~Take /\ ~Finish
          BY DEF Begin, BeginSkips, BeginFails, BeginSeen, BeginEvent, BeginNotice, Look, LookupMirrored,
             LookupMessage, LookupUnmappable, LookupOriginal, LookupUnanchored, LookupFails, Stack,
             Resolve, ResolveSkips, ResolveFails, Act, Create, CreateUnanswered, HandleDelete, Read,
             ActFails, Take, Finish
        <5>3. CASE ThrottlePasses \/ RestartWorker \/ UNCHANGED mirrorVars
          BY <5>3 DEF ThrottlePasses, RestartWorker, mirrorVars
        <5> QED
          BY <5>1, <5>2, <5>3 DEF MirrorNext
      <4>3. Store => h'.pc \in Storing \cup {"finish"} \/ h' = Idle
        <5>e. \A x : Goto(x) => h'.pc = x
          BY DEF MirrorTypeOK, Handler, Goto
        <5> QED
          BY <5>e DEF Store, Put, PutFails, Reread, AfterReread, RereadFails, CleanDuplicate,
             CleanDuplicateFails, Reput, ReputFails, ReturnError, Storing
      <4>4. h' # Idle
        BY <1>n, <3>2 DEF Idle
      <4> QED
        BY <3>2, <4>1, <4>2, <4>3, <4>4
    <3>5. Posts(e) = {}
      BY <1>2, <3>3, <3>4 DEF FirstInv
    <3>6. ~Create /\ ~CreateUnanswered
      <4>1. Create => h'.pc \in Storing \cup {"finish"}
        BY DEF Create, MirrorTypeOK, Handler, Storing
      <4>2. CreateUnanswered => h' = Idle
        BY DEF CreateUnanswered, ReturnError
      <4> QED
        BY <1>n, <3>2, <4>1, <4>2 DEF Idle
    <3>7. Posts(e)' = Posts(e)
      <4>1. CASE UNCHANGED posts
        BY <4>1, <1>s, PostsKept
      <4>2. CASE h.post \in PostId /\ Hide(h.post)
        BY <4>2, <1>s, PostHidden
      <4> QED
        BY <3>6, <4>1, <4>2, PostSteps
    <3> QED
      BY <3>5, <3>7
  <2> QED
    BY <2>1, <2>2
<1> QED
  BY <1>1, <1>2, <1>m

\* Who stamps.
LEMMA StampSteps ==
    ASSUME MirrorTypeOK, HandlerInv, [MirrorNext]_mirrorVars
    PROVE  \/ stamp' = stamp /\ ~(Finish /\ IsNotice(h.ev)) /\ ~RestartWorker
           \/ Finish /\ IsNotice(h.ev) /\ stamp' = Kind(h.ev)
           \/ stamp' = "none"
<1> USE DEF noticeVars, KeepAtStore
<1>1. CASE \E x \in Events : Deliver(x) \/ AckWaitPasses(x) \/ Commit(x)
  BY <1>1 DEF Deliver, AckWaitPasses, Commit, RestartWorker, Finish
<1>2. CASE Begin
  BY <1>2 DEF Begin, BeginSkips, BeginFails, BeginSeen, BeginEvent, BeginNotice, RestartWorker, Finish
<1>3. CASE Look
  BY <1>3 DEF Look, LookupMirrored, LookupMessage, LookupUnmappable, LookupOriginal,
              LookupUnanchored, LookupFails, RestartWorker, Finish
<1>4. CASE Stack
  BY <1>4 DEF Stack, Resolve, ResolveSkips, ResolveFails, RestartWorker, Finish
<1>5. CASE Act
  BY <1>5 DEF Act, Create, CreateUnanswered, HandleDelete, Read, ActFails, RestartWorker, Finish
<1>6. CASE Store
  BY <1>6 DEF Store, Put, PutFails, Reread, RereadFails, CleanDuplicate, CleanDuplicateFails,
              Reput, ReputFails, RestartWorker, Finish
<1>7. CASE Take \/ Finish \/ ThrottlePasses \/ RestartWorker \/ UNCHANGED mirrorVars
  BY <1>7 DEF Take, Finish, ThrottlePasses, RestartWorker, mirrorVars
<1> QED
  BY <1>1, <1>2, <1>3, <1>4, <1>5, <1>6, <1>7 DEF MirrorNext

\* The stamp follows the last notice.
LEMMA StampStep ==
    ASSUME MirrorTypeOK, BrokerInv, FifoInv, HandlerInv, FirstInv, StampInv,
           [MirrorNext]_mirrorVars
    PROVE  StampInv'
<1>s. stream' = stream /\ Events' = Events
  BY StreamKept DEF Events
<1>n. Events \subseteq Nat \ {0}
  BY StreamFacts
<1>k. \A e : Kind(e)' = Kind(e) /\ IsNotice(e)' = IsNotice(e)
  BY <1>s DEF Kind, IsNotice
<1>v. \A p \in PostId : posts[p].ev \in Events
  BY PostFacts
<1>w. \A e \in Events : Posts(e) # {} => sent[e] > 0
  BY DEF BrokerInv
<1>m. \A e \in Events : sent'[e] >= sent[e] /\ sent[e] \in Nat
  BY Monotone
<1>h. h.pc # "idle" => h.ev \in Events
  BY DEF HandlerInv, MirrorTypeOK, Handler, At
<1>t. status \in [Events -> {"new", "out", "due", "acked", "dropped"}]
  BY DEF MirrorTypeOK
<1> USE DEF At
\* The stamp of a notice that was posted.
<1>1. CASE Finish /\ IsNotice(h.ev) /\ stamp' = Kind(h.ev)
  <2>1. h.post \in Posts(h.ev) /\ h.post = Len(posts)
    BY <1>1 DEF Finish, HandlerInv
  <2>2. h.post \in NoticePosts /\ posts[h.post].ev = h.ev
    BY <1>1, <2>1 DEF Posts, NoticePosts
  <2>3. \A q \in NoticePosts : q <= h.post
    BY <2>1 DEF NoticePosts, PostId
  <2>4. UNCHANGED posts
    BY <1>1 DEF Finish
  <2>5. NoticePosts' = NoticePosts
    BY <1>s, <2>4, PostsKept
  <2> QED
    BY <1>1, <1>k, <2>2, <2>3, <2>4, <2>5 DEF StampInv, LastNotice
<1>2. CASE stamp' = "none"
  BY <1>2 DEF StampInv
<1>3. CASE stamp' = stamp /\ ~(Finish /\ IsNotice(h.ev)) /\ ~RestartWorker /\ stamp # "none"
  <2>1. CASE (Create \/ CreateUnanswered) /\ h.ev \in Events /\ Post(h.ev) /\ IsNotice(h.ev)
    <3>1. PICK p : p = Len(posts) + 1
      OBVIOUS
    <3>2. p \in NoticePosts' /\ posts'[p].ev = h.ev /\ NoticePosts' = NoticePosts \cup {p}
      BY <1>s, <2>1, <3>1, PostAdded
    <3>3. \A q \in NoticePosts' : q <= p
      <4>1. Len(posts) \in Nat
        BY DEF MirrorTypeOK
      <4> QED
        BY <3>1, <3>2, <4>1 DEF NoticePosts, PostId
    <3>4. CASE Create
      <4>1. h'.ev = h.ev /\ h'.pc = "finish"
        BY <2>1, <3>4 DEF Create, MirrorTypeOK, Handler
      <4> QED
        BY <3>2, <3>3, <4>1 DEF StampInv, LastNotice
    <3>5. CASE CreateUnanswered
      <4>1. sent[h.ev] > 0 /\ status[h.ev] # "new"
        BY <2>1 DEF BrokerInv
      <4>2. status[h.ev] = "acked" => sent[h.ev] > 1
        <5>1. status[h.ev] = "acked" => sent[h.ev] # 1
          <6>1. \A e \in Nat : e <= e
            OBVIOUS
          <6> QED
            BY <1>n, <2>1, <6>1 DEF FifoInv
        <5> QED
          BY <1>m, <2>1, <4>1, <5>1
      <4>3. status'[h.ev] \in {"due", "dropped"} \/ sent[h.ev] > 1
        BY <1>t, <2>1, <3>5, <4>1, <4>2 DEF CreateUnanswered, ReturnError, Nak, Reply, Again, Pending
      <4>4. sent'[h.ev] = sent[h.ev]
        BY <3>5 DEF CreateUnanswered, KeepBroker
      <4> QED
        BY <3>2, <3>3, <4>3, <4>4 DEF StampInv, LastNotice
    <3> QED
      BY <2>1, <3>4, <3>5
  <2>2. CASE NoticePosts' = NoticePosts
    <3>1. PICK p \in NoticePosts :
            LET e == posts[p].ev IN
            /\ LastNotice(p)
            /\ \/ Kind(e) = stamp
               \/ status[e] \in {"due", "dropped"}
               \/ sent[e] > 1
               \/ h.ev = e /\ h.pc = "finish"
      BY <1>3 DEF StampInv
    <3>2. PICK e \in Events : e = posts[p].ev /\ e = posts'[p].ev
      <4>1. p \in PostId
        BY DEF NoticePosts
      <4> QED
        BY <1>v, <4>1, PostsGrow
    <3>3. IsNotice(e) /\ Posts(e) # {} /\ ~Chat(e)
      BY <3>2 DEF NoticePosts, Posts, IsNotice, Chat
    <3>4. LastNotice(p)'
      BY <2>2, <3>1 DEF LastNotice
    <3> SUFFICES \/ Kind(e) = stamp
                 \/ status'[e] \in {"due", "dropped"}
                 \/ sent'[e] > 1
                 \/ h'.ev = e /\ h'.pc = "finish"
      BY <1>3, <1>k, <2>2, <3>2, <3>4 DEF StampInv
    <3>5. CASE Kind(e) = stamp
      BY <3>5
    <3>6. CASE sent[e] > 1
      <4>1. sent'[e] >= sent[e] /\ sent[e] \in Nat /\ sent'[e] \in Nat
        <5>1. sent'[e] \in 0..MaxDeliver
          BY <1>s, BrokerType
        <5> QED
          BY <1>m, <5>1, MirrorAssumption
      <4> QED
        BY ONLY <3>6, <4>1
    <3>7. CASE h.ev = e /\ h.pc = "finish"
      BY <1>3, <3>3, <3>7, AtFinish
    <3>8. CASE status[e] \in {"due", "dropped"} /\ sent[e] = 1
      <4>1. CASE \E x \in Events : Deliver(x)
        <5>1. PICK x \in Events : Deliver(x)
          BY <4>1
        <5>2. CASE x = e
          BY <3>8, <5>1, <5>2 DEF Deliver, MirrorTypeOK
        <5>3. CASE x # e
          BY <1>t, <3>8, <5>1, <5>3 DEF Deliver
        <5> QED
          BY <5>2, <5>3
      <4>2. CASE \E x \in Events : AckWaitPasses(x)
        BY <1>t, <3>8, <4>2 DEF AckWaitPasses
      <4>3. CASE Take \/ RestartWorker \/ Still \/ Inside
        BY <3>8, <4>3 DEF Take, RestartWorker, Still, Inside
      <4>4. CASE Leaves
        <5>1. CASE h.ev # e
          BY <1>t, <3>8, <4>4, <5>1 DEF Leaves
        <5>2. CASE h.ev = e
          <6>1. h.pc \in Storing \cup {"finish"}
            BY <3>3, <3>8, <5>2 DEF FirstInv
          <6>2. h.pc = "finish"
            BY <3>3, <5>2, <6>1 DEF HandlerInv
          <6>3. h' = h
            BY <1>3, <3>3, <5>2, <6>2, AtFinish
          <6> QED
            BY <5>2, <6>2, <6>3
        <5> QED
          BY <5>1, <5>2
      <4> QED
        BY <4>1, <4>2, <4>3, <4>4, Shapes
    <3>9. sent[e] > 1 \/ sent[e] = 1
      BY <1>m, <1>w, <3>3
    <3> QED
      BY <3>1, <3>2, <3>5, <3>6, <3>7, <3>8, <3>9
  <2>3. \/ (Create \/ CreateUnanswered) /\ h.ev \in Events /\ Post(h.ev) /\ IsNotice(h.ev)
        \/ NoticePosts' = NoticePosts
    <3>1. CASE UNCHANGED posts
      BY <1>s, <3>1, PostsKept
    <3>2. CASE h.post \in PostId /\ Hide(h.post)
      BY <1>s, <3>2, PostHidden
    <3>3. CASE (Create \/ CreateUnanswered) /\ h.ev \in Events /\ Post(h.ev) /\ ~IsNotice(h.ev)
      BY <1>s, <3>3, PostAdded
    <3> QED
      BY <3>1, <3>2, <3>3, PostSteps
  <2> QED
    BY <2>1, <2>2, <2>3
<1> QED
  BY <1>1, <1>2, <1>3, StampSteps

\* The last notice follows the last event handled.
LEMMA NoticeStep ==
    ASSUME MirrorTypeOK, BrokerInv, FifoInv, HandlerInv, FirstInv, StampInv, NoticeInv,
           [MirrorNext]_mirrorVars
    PROVE  NoticeInv'
<1>s. stream' = stream /\ Events' = Events
  BY StreamKept DEF Events
<1>n. Events \subseteq Nat \ {0}
  BY StreamFacts
<1>k. (\A e : Kind(e)' = Kind(e) /\ IsNotice(e)' = IsNotice(e)) /\ Notices' = Notices
  BY <1>s DEF Kind, IsNotice, Notices, Events
<1>v. \A p \in NoticePosts : posts[p].ev \in Notices
  <2>1. \A p \in PostId : posts[p].ev \in Events
    BY PostFacts
  <2> QED
    BY <2>1 DEF NoticePosts, Notices
<1>g. /\ NoticePosts \subseteq NoticePosts'
      /\ \A p \in NoticePosts : posts'[p].ev = posts[p].ev
      /\ \A p \in NoticePosts' \ NoticePosts : posts'[p].ev = h.ev /\ IsNotice(h.ev)
  BY PostsGrow DEF NoticePosts
<1> USE DEF At
<1> SUFFICES ASSUME NEW n \in Notices,
                    \A e \in Notices : e <= n => Done(e)',
                    \A p \in NoticePosts' : posts'[p].ev <= n
             PROVE  \E p \in NoticePosts' : LastNotice(p)' /\ Kind(posts'[p].ev) = Kind(n)
  BY <1>s, <1>k DEF NoticeInv
<1>e. Notices \subseteq Events /\ \A e \in Notices : IsNotice(e)
  BY DEF Notices
<1>d. ASSUME NEW e \in Notices, Done(e)', ~Done(e)
      PROVE  /\ h.ev = e /\ sent[e] = 1
             /\ \/ BeginSeen
                \/ BeginNotice /\ Throttled(Kind(h.ev))
                \/ Finish
  <2>1. status'[e] = "acked" /\ sent'[e] = 1 /\ e \notin skipped'
    BY <1>d DEF Done
  <2>2. sent[e] \in Nat /\ sent'[e] >= sent[e] /\ e \notin skipped
    BY <1>e, <2>1, Monotone
  <2>3. sent[e] # 0
    <3>1. sent[e] = 0 => status[e] = "new" /\ h.ev # e
      BY <1>e DEF BrokerInv
    <3>2. CASE sent[e] = 0
      <4>1. \/ BeginSeen \/ BeginNotice \/ LookupMirrored \/ LookupUnanchored \/ Finish
        BY <1>e, <2>1, <3>1, <3>2, SettledBy
      <4>2. h.ev = e
        BY <1>e, <2>1, <3>1, <3>2, SettledBy
      <4> QED
        BY <3>1, <3>2, <4>2
    <3> QED
      BY <3>2
  <2>4. sent[e] = 1
    BY <2>1, <2>2, <2>3
  <2>5. status[e] # "acked"
    BY <1>d, <2>2, <2>4 DEF Done
  <2>6. /\ h.ev = e
        /\ \/ BeginSeen
           \/ BeginNotice /\ Throttled(Kind(h.ev))
           \/ LookupMirrored
           \/ LookupUnanchored
           \/ Finish
    BY <1>e, <2>1, <2>5, SettledBy
  <2>7. ~LookupMirrored /\ ~LookupUnanchored
    BY <1>e, <2>6 DEF LookupMirrored, LookupUnanchored, IsNotice
  <2> QED
    BY <2>4, <2>6, <2>7
\* What is done is not in the process.
<1>o. ASSUME NEW e \in Notices, NEW f \in Notices, f <= e, Done(e), sent[f] = 1
      PROVE  h.ev # f
  BY <1>e, <1>o DEF FifoInv, Done
<1>1. CASE \A e \in Notices : e <= n => Done(e)
  <2>1. \A p \in NoticePosts : posts[p].ev <= n
    BY <1>g
  <2>2. PICK p \in NoticePosts : LastNotice(p) /\ Kind(posts[p].ev) = Kind(n)
    BY <1>1, <2>1 DEF NoticeInv
  <2>3. NoticePosts' = NoticePosts
    <3>1. ASSUME NEW q \in NoticePosts', q \notin NoticePosts PROVE FALSE
      <4>1. posts'[q].ev = h.ev /\ IsNotice(h.ev) /\ h.ev <= n
        BY <1>g, <3>1
      <4>2. h.ev \in Notices
        BY <4>1, PostSteps, <3>1, <1>s, PostsKept, PostHidden DEF Notices
      <4>3. Done(h.ev)
        BY <1>1, <4>1, <4>2
      <4>4. h.ev <= h.ev
        <5>1. \A e \in Nat : e <= e
          OBVIOUS
        <5> QED
          BY <1>e, <1>n, <4>2, <5>1
      <4> QED
        BY <1>e, <4>2, <4>3, <4>4 DEF FifoInv, Done
    <3> QED
      BY <1>g, <3>1
  <2> QED
    BY <1>g, <2>2, <2>3 DEF LastNotice
<1>2. ASSUME NEW e \in Notices, e <= n, ~Done(e)
      PROVE  \E p \in NoticePosts' : LastNotice(p)' /\ Kind(posts'[p].ev) = Kind(n)
  <2>1. h.ev = e /\ sent[e] = 1
    BY <1>2, <1>d
  <2>2. e = n
    <3>1. n <= n /\ Done(n)'
      BY <1>e, <1>n
    <3>2. CASE Done(n)
      BY <1>o, <1>2, <2>1, <3>2
    <3>3. CASE ~Done(n)
      BY <1>d, <2>1, <3>1, <3>3
    <3> QED
      BY <3>2, <3>3
  <2>3. ~BeginSeen
    <3>1. e <= e /\ e \in Events
      BY <1>e, <1>n
    <3>2. e \in seen => h.ev # e
      BY <2>1, <3>1 DEF FifoInv
    <3> QED
      BY <2>1, <3>2 DEF BeginSeen
  <2>4. CASE Finish
    <3>1. h.post \in Posts(n) /\ h.post = Len(posts)
      BY <1>e, <2>1, <2>2, <2>4 DEF Finish, HandlerInv
    <3>2. h.post \in NoticePosts /\ posts[h.post].ev = n
      BY <1>e, <3>1 DEF Posts, NoticePosts
    <3>3. \A q \in NoticePosts : q <= h.post
      BY <3>1 DEF NoticePosts, PostId
    <3>4. UNCHANGED posts
      BY <2>4 DEF Finish
    <3>5. NoticePosts' = NoticePosts
      BY <1>s, <3>4, PostsKept
    <3> QED
      BY <3>2, <3>3, <3>4, <3>5 DEF LastNotice
  <2>5. CASE BeginNotice /\ Throttled(Kind(h.ev))
    <3>1. stamp = Kind(n) /\ stamp # "none" /\ h.pc = "begin" /\ UNCHANGED posts
      BY <1>e, <2>1, <2>2, <2>5 DEF BeginNotice, Throttled, IsNotice
    <3>2. NoticePosts' = NoticePosts
      BY <1>s, <3>1, PostsKept
    <3>3. PICK p \in NoticePosts :
            LET x == posts[p].ev IN
            /\ LastNotice(p)
            /\ \/ Kind(x) = stamp
               \/ status[x] \in {"due", "dropped"}
               \/ sent[x] > 1
               \/ h.ev = x /\ h.pc = "finish"
      BY <3>1 DEF StampInv
    <3>4. PICK x \in Notices : x = posts[p].ev
      BY <1>v
    <3>5. x <= n
      BY <1>g, <3>2, <3>4
    <3>6. x # n
      <4>1. Posts(n) = {}
        BY <1>e, <2>1, <2>2, <3>1 DEF FirstInv, Storing
      <4>2. p \in Posts(x)
        BY <3>4 DEF Posts, NoticePosts
      <4> QED
        BY <4>1, <4>2
    <3>7. Done(x)
      BY <1>d, <2>1, <2>2, <3>5, <3>6
    <3>8. Kind(x) = Kind(n)
      BY <3>1, <3>3, <3>4, <3>7 DEF Done
    <3> QED
      BY <1>g, <3>2, <3>3, <3>4, <3>8 DEF LastNotice
  <2> QED
    BY <1>2, <1>d, <2>3, <2>4, <2>5
<1> QED
  BY <1>1, <1>2

-----------------------------------------------------------------------------
(* The theorems                                                            *)

\* The invariant holds at the start.
LEMMA MirrorInitInv == MirrorInit => MirrorInv
<1> SUFFICES ASSUME MirrorInit PROVE MirrorInv
  OBVIOUS
<1> USE MirrorAssumption DEF MirrorInit
<1>1. stream \in Seq(Event) /\ Events \subseteq Nat \ {0}
  <2>1. stream \in Seq(Event)
    OBVIOUS
  <2> QED
    BY <2>1 DEF Events
<1>2. MirrorTypeOK
  <2>1. h \in Handler
    BY DEF Idle, Handler, Steps
  <2>2. 0 \in 0..MaxDeliver /\ 0 \in 0..MaxFaults
    OBVIOUS
  <2>3. /\ stream \in Streams
        /\ status \in [Events -> {"new", "out", "due", "acked", "dropped"}]
        /\ buffer \in Seq(Events) /\ posts \in Seq([ev: Events, shown: BOOLEAN])
        /\ seen \in SUBSET Events /\ skipped \in SUBSET Events /\ loose \in SUBSET Events
        /\ down \in SUBSET Events
        /\ stamp \in {"none", "connected", "down"}
    OBVIOUS
  <2>4. sent \in [Events -> 0..MaxDeliver] /\ faults \in 0..MaxFaults
    BY <2>2
  <2>5. corr \in [Events -> PostId \cup {None}] /\ late \in [Events -> PostId \cup {None}]
    OBVIOUS
  <2>6. fresh \in BOOLEAN /\ imported \in BOOLEAN
    BY Zenon
  <2> QED
    BY <2>1, <2>3, <2>4, <2>5, <2>6 DEF MirrorTypeOK
<1>3. (\A e : ~Buffered(e) /\ Posts(e) = {} /\ Shown(e) = {}) /\ NoticePosts = {}
  BY DEF Buffered, Posts, Shown, PostId, NoticePosts
<1>4. h.ev = None /\ h.pc = "idle" /\ h.post = None /\ None \notin Events
  BY <1>1 DEF Idle, None
<1>5. BrokerInv /\ FifoInv
  BY <1>3, <1>4 DEF BrokerInv, FifoInv
<1>6. HandlerInv
  BY <1>4 DEF HandlerInv, At, Storing
<1>7. CorrInv /\ OnePostInv
  BY <1>3, <1>4 DEF CorrInv, OnePostInv, At
<1>8. RevokeInv /\ PostedInv /\ FirstInv /\ StampInv
  BY <1>3, <1>4 DEF RevokeInv, PostedInv, FirstInv, StampInv, At
<1>9. NoticeInv
  <2>1. \A n \in Notices : n <= n /\ ~Done(n)
    BY <1>1 DEF Notices, Done
  <2> QED
    BY <2>1 DEF NoticeInv
<1> QED
  BY <1>2, <1>5, <1>6, <1>7, <1>8, <1>9 DEF MirrorInv

\* Every step keeps the invariant.
LEMMA MirrorStepInv == MirrorInv /\ [MirrorNext]_mirrorVars => MirrorInv'
BY MirrorTypeStep, BrokerStep, FifoStep, HandlerStep, CorrStep, OnePostStep, RevokeStep, PostedStep,
   FirstStep, StampStep, NoticeStep DEF MirrorInv

\* The inductive invariant of the mirror.
THEOREM MirrorInvariant == MirrorSpec => []MirrorInv
BY MirrorInitInv, MirrorStepInv, PTL DEF MirrorSpec

\* Type correctness of the mirror.
THEOREM MirrorTypeCorrect == MirrorSpec => []MirrorTypeOK
<1>1. MirrorInv => MirrorTypeOK
  BY DEF MirrorInv
<1> QED
  BY <1>1, MirrorInvariant, PTL

\* A message or an edit is visible once in Chatwoot unless a post of it
\* escaped the database.  (storeCorrelation, alreadySeen, GetByWAKey)
THEOREM OnlyLoosePostsDuplicate == MirrorSpec => []DuplicatesExcused
<1>1. MirrorInv => DuplicatesExcused
  <2> SUFFICES ASSUME MirrorInv, NEW e \in Events, Chat(e), ~Excused(e)
               PROVE  ~(Cardinality(Shown(e)) > 1)
    BY DEF DuplicatesExcused, Excused
  <2>1. \A p, q \in Shown(e) : p = q
    BY DEF MirrorInv, OnePostInv, Shown
  <2>2. CASE Shown(e) = {}
    BY <2>2, FS_EmptySet
  <2>3. CASE Shown(e) # {}
    <3>1. PICK p : Shown(e) = {p}
      BY <2>1, <2>3
    <3> QED
      BY <3>1, FS_Singleton
  <2> QED
    BY <2>2, <2>3
<1> QED
  BY <1>1, MirrorInvariant, PTL

\* A settled deletion has hidden its message, but for the four causes.
\* (HandleDelete)
THEOREM DeletionsAreApplied == MirrorSpec => []RevokedIsHidden
<1>1. MirrorInv => RevokedIsHidden
  <2> SUFFICES ASSUME MirrorInv, NEW d \in Events, Kind(d) = "delete", status[d] = "acked",
                      d \notin skipped, ~Excused(Of(d)), ~(sent[Of(d)] > 1)
               PROVE  Shown(Of(d)) = {}
    BY DEF RevokedIsHidden, Excused
  <2>1. Of(d) \in Events /\ Of(d) < d
    BY StreamFacts DEF MirrorInv
  <2>2. sent[d] \in Nat /\ sent[Of(d)] \in Nat
    BY <2>1, MirrorAssumption DEF MirrorInv, MirrorTypeOK
  <2>3. sent[d] > 0
    BY <2>2 DEF MirrorInv, BrokerInv
  <2>4. sent[Of(d)] > 0
    BY <2>1, <2>3 DEF MirrorInv, BrokerInv
  <2>5. sent[Of(d)] = 1
    BY <2>2, <2>4
  <2> QED
    BY <2>5 DEF MirrorInv, RevokeInv
<1> QED
  BY <1>1, MirrorInvariant, PTL

\* A message the consumer is done with was posted, skipped or given up after
\* its last delivery.  (handleNATSMessage)
THEOREM MissesAreExplained == MirrorSpec => []MissedHasCause
<1>1. MirrorInv => MissedHasCause
  BY DEF MirrorInv, PostedInv, BrokerInv, MissedHasCause
<1> QED
  BY <1>1, MirrorInvariant, PTL

\* A set of numbers up to a bound has a largest one.
LEMMA LargestExists ==
    ASSUME NEW b \in Nat, NEW S, S \subseteq 1..b, S # {}
    PROVE  \E x \in S : \A y \in S : y <= x
<1> DEFINE R == OpToRel(<, Nat)
           T == {b - x : x \in S}
<1>1. IsWellFoundedOn(R, Nat)
  BY NatLessThanWellFounded
<1>2. T \subseteq Nat /\ T # {}
  <2>1. \A x \in S : b - x \in Nat
    OBVIOUS
  <2> QED
    BY <2>1
<1>0. PICK t \in T : \A u \in T : ~(<<u, t>> \in R)
  <2> HIDE DEF R, T
  <2> QED
    BY <1>1, <1>2, WFMin
<1>3. \A u \in T : ~(u < t)
  BY <1>0, <1>2 DEF OpToRel
<1>4. PICK x \in S : t = b - x
  OBVIOUS
<1>5. ASSUME NEW y \in S PROVE y <= x
  <2>1. b - y \in T /\ b - y \in Nat /\ t \in Nat
    BY <1>2
  <2>2. ~(b - y < t)
    BY <1>3, <2>1
  <2> QED
    BY <1>4, <2>2
<1> QED
  BY <1>5

\* The last notice the operators read tells the status of the last event,
\* when each was handled at its first delivery.  (throttled, stampNotice)
THEOREM NoticesTellTheTruth == MirrorSpec => []LastNoticeTrue
<1>1. MirrorInv => LastNoticeTrue
  <2> SUFFICES ASSUME MirrorInv, Notices # {},
                      \A e \in Notices : status[e] = "acked" /\ sent[e] = 1 /\ e \notin skipped
               PROVE  LET last(S) == CHOOSE x \in S : \A y \in S : y <= x
                      IN  NoticePosts # {} /\ Kind(posts[last(NoticePosts)].ev) = Kind(last(Notices))
    BY DEF LastNoticeTrue, NoticePosts
  <2> DEFINE last(S) == CHOOSE x \in S : \A y \in S : y <= x
  <2>1. stream \in Seq(Event) /\ Len(stream) \in Nat /\ Notices \subseteq 1..Len(stream)
    <3>1. stream \in Seq(Event)
      BY MirrorAssumption DEF MirrorInv, MirrorTypeOK
    <3> QED
      BY <3>1 DEF Notices, Events
  <2>2. \E x \in Notices : \A y \in Notices : y <= x
    BY <2>1, LargestExists
  <2>3. PICK n \in Notices : n = last(Notices) /\ \A y \in Notices : y <= n
    BY <2>2
  <2>4. \A p \in NoticePosts : posts[p].ev <= n
    BY <2>3, PostFacts DEF MirrorInv, NoticePosts, Notices
  <2>5. PICK p \in NoticePosts : LastNotice(p) /\ Kind(posts[p].ev) = Kind(n)
    BY <2>4 DEF MirrorInv, NoticeInv, Done
  <2>6. last(NoticePosts) = p
    <3>1. NoticePosts \subseteq Nat
      BY DEF NoticePosts, PostId
    <3>2. last(NoticePosts) \in NoticePosts /\ \A y \in NoticePosts : y <= last(NoticePosts)
      BY <2>5 DEF LastNotice
    <3>3. p \in NoticePosts /\ \A y \in NoticePosts : y <= p
      BY <2>5 DEF LastNotice
    <3>4. last(NoticePosts) <= p /\ p <= last(NoticePosts)
      BY <3>2, <3>3
    <3>5. last(NoticePosts) \in Nat /\ p \in Nat
      BY <3>1, <3>2, <3>3
    <3> HIDE DEF last
    <3> QED
      BY ONLY <3>4, <3>5
  <2> QED
    BY <2>3, <2>5, <2>6
<1> QED
  BY <1>1, MirrorInvariant, PTL
=============================================================================
