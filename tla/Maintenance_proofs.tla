-------------------------- MODULE Maintenance_proofs --------------------------
(***************************************************************************)
(* Proofs about Maintenance, for any workers, threads, files and contents  *)
(* and any number of restores, backups, failures and kills.  MInv is       *)
(* inductive.  Its heart is CacheInv: a worker whose cached generation is  *)
(* the present one knows the present keys and database, because the        *)
(* generation changes before an exchange of files ends and never comes     *)
(* back; LockInv and HolderInv say who can be where meanwhile, KeysInv and *)
(* BackupInv what the commit point of a restore then does.                 *)
(***************************************************************************)
EXTENDS Maintenance, TLAPS

USE DEF Phases, ReplacePhases, PreparedPhases, CommittedPhases, UndoPhases, UndonePhases

\* SQLite reads a content or, with a foreign WAL, garbage; never "absent".
LEMMA LogicalDbType ==
    ASSUME TypeOK PROVE LogicalDb \in Content \cup {Corrupt}
BY DbAssumption DEF TypeOK, DiskTypeOK, LogicalDb

\* A data directory without a journal satisfies the inductive invariant.
LEMMA InitIInv == Init => IInv
<1> SUFFICES ASSUME Init PROVE IInv
    OBVIOUS
<1> USE DbAssumption, NullAssumption DEF Init
<1>1. TypeOK
    BY DEF TypeOK, DiskTypeOK, MemoryTypeOK, BoundsTypeOK, NoCopies, NoRecords, NoReplacement
<1>2. PhaseInv /\ SavingInv /\ PreparedInv /\ UndoingInv /\ CleanupInv /\ ManifestIsSound
    BY DEF PhaseInv, SavingInv, PreparedInv, UndoingInv, CleanupInv, ManifestIsSound
<1>3. DbInv
    BY DEF DbInv, Effective, Logical, LogicalDb, NoRecords
<1> QED
    BY <1>1, <1>2, <1>3 DEF IInv

\* No step of a request, of replace_files, of a rollback, no failed file
\* operation and no kill breaks the inductive invariant: one step per action,
\* one per conjunct below it where the action touches several.
LEMMA StepIInv == IInv /\ [Next]_vars => IInv'
<1> SUFFICES ASSUME IInv, [Next]_vars PROVE IInv'
    OBVIOUS
<1> USE DbAssumption, NullAssumption, BoundAssumption, LogicalDbType
    DEF IInv, TypeOK, DiskTypeOK, MemoryTypeOK, BoundsTypeOK, PhaseInv, SavingInv, PreparedInv, UndoingInv, CleanupInv, DbInv,
        ManifestIsSound, CopiesComplete, NothingInstalled,
        Effective, Logical, LogicalDb, NoRecords, NoCopies
<1>1. ASSUME NEW f \in Files, NEW c \in Content, WriteFile(f, c) PROVE IInv'
    BY <1>1 DEF WriteFile, Serving, memory
<1>2. ASSUME NEW c \in Content, WriteDb(c) PROVE IInv'
    BY <1>2 DEF WriteDb, Serving, memory
<1>3. ASSUME NEW c \in Content, WriteWal(c) PROVE IInv'
    BY <1>3 DEF WriteWal, Serving, memory
<1>4. ASSUME Checkpoint PROVE IInv'
    BY <1>4 DEF Checkpoint, memory, bounds
<1>5. ASSUME NEW r \in Replacement, Replace(r) PROVE IInv'
    <2>0. LogicalDb \in Content
        BY <1>5 DEF Replace
    <2>disk. DiskTypeOK'
        BY <1>5, <2>0 DEF Replace
    <2>memory. MemoryTypeOK'
        BY <1>5, <2>0 DEF Replace
    <2>bounds. BoundsTypeOK'
        BY <1>5, <2>0 DEF Replace
    <2>1. TypeOK'
        BY <2>disk, <2>memory, <2>bounds
    <2>2. PhaseInv'
        BY <1>5 DEF Replace, Replacement, Touched
    <2>3. SavingInv'
        BY <1>5 DEF Replace, Replacement, Touched
    <2>4. PreparedInv'
        BY <1>5 DEF Replace, Replacement, Touched
    <2>5. UndoingInv'
        BY <1>5 DEF Replace, Replacement, Touched
    <2>6. CleanupInv'
        BY <1>5 DEF Replace, Replacement, Touched
    <2>7. DbInv'
        BY <1>5 DEF Replace, Replacement, Touched
    <2>8. ManifestIsSound'
        BY <1>5 DEF Replace, Replacement, Touched
    <2> QED
        BY <2>1, <2>2, <2>3, <2>4, <2>5, <2>6, <2>7, <2>8
<1>6. ASSUME Refuse PROVE IInv'
    BY <1>6 DEF Refuse, disk
<1>7. ASSUME NEW f \in Files, Save(f) PROVE IInv'
    BY <1>7 DEF Save, SaveCopy, Saved, Goto, bounds, Touched
<1>8. ASSUME NEW f \in Files, Install(f) PROVE IInv'
    BY <1>8 DEF Install, Goto, bounds, Touched, Replacement
<1>9. ASSUME WriteManifest PROVE IInv'
    BY <1>9 DEF WriteManifest, Goto, bounds, Touched, Replacement
<1>10. ASSUME UnlinkWal PROVE IInv'
    BY <1>10 DEF UnlinkWal, Goto, bounds, Touched
<1>11. ASSUME UnlinkShm PROVE IInv'
    BY <1>11 DEF UnlinkShm, Goto, bounds, Touched
<1>12. ASSUME NewGeneration PROVE IInv'
    BY <1>12 DEF NewGeneration, Goto, bounds, Touched
<1>13. ASSUME UnlinkManifest PROVE IInv'
    BY <1>13 DEF UnlinkManifest, bounds, Touched, Replacement
<1>14. ASSUME SyncJournal PROVE IInv'
    BY <1>14 DEF SyncJournal, Goto, bounds, disk
<1>15. ASSUME SaveFails PROVE IInv'
    BY <1>15 DEF SaveFails, SaveCopy, Saved, Unprepared, Fault
<1>16. ASSUME WriteManifestFails PROVE IInv'
    BY <1>16 DEF WriteManifestFails, Unprepared, Fault, Touched, Replacement
<1>17. ASSUME PreparedFails PROVE IInv'
    BY <1>17 DEF PreparedFails, RollBack, Fault, Recorded, Touched, Replacement
<1>18. ASSUME SyncJournalFails PROVE IInv'
    BY <1>18 DEF SyncJournalFails, Fault, disk
<1>19. ASSUME NEW f \in Files, Undo(f) PROVE IInv'
    BY <1>19 DEF Undo, Restored, Goto, bounds, Recorded
<1>20. ASSUME NEW f \in Files, UndoFindsNoCopy(f) PROVE IInv'
    BY <1>20 DEF UndoFindsNoCopy, End, disk, bounds
<1>21. ASSUME UndoWal PROVE IInv'
    BY <1>21 DEF UndoWal, Goto, bounds, Recorded
<1>22. ASSUME UndoShm PROVE IInv'
    BY <1>22 DEF UndoShm, Goto, bounds, Recorded
<1>23. ASSUME UndoGeneration PROVE IInv'
    BY <1>23 DEF UndoGeneration, Goto, bounds, Recorded
<1>24. ASSUME UndoUnlinkManifest PROVE IInv'
    BY <1>24 DEF UndoUnlinkManifest, Goto, bounds, Recorded
<1>25. ASSUME UndoFails PROVE IInv'
    <2>0. ASSUME NEW f \in todo, Restored(f) PROVE live' \in [Files -> Content \cup {Absent}] /\ live'[Db] \in Content
        BY <1>25, <2>0 DEF UndoFails, Restored, Recorded
    <2>live. live' \in [Files -> Content \cup {Absent}] /\ live'[Db] \in Content
        BY <1>25, <2>0 DEF UndoFails
    <2>generation. generation' \in Nat
        BY <1>25 DEF UndoFails
    <2>disk. DiskTypeOK'
        BY <1>25, <2>live, <2>generation DEF UndoFails
    <2>memory. MemoryTypeOK'
        BY <1>25, <2>0 DEF UndoFails, Fault, End
    <2>bounds. BoundsTypeOK'
        BY <1>25, <2>0 DEF UndoFails, Fault, End
    <2>1. TypeOK'
        BY <2>disk, <2>memory, <2>bounds
    <2>2. PhaseInv'
        BY <1>25 DEF UndoFails, Restored, Fault, End, Recorded
    <2>3. SavingInv'
        BY <1>25 DEF UndoFails, Restored, Fault, End, Recorded
    <2>4. PreparedInv'
        BY <1>25 DEF UndoFails, Restored, Fault, End, Recorded
    <2>5. UndoingInv'
        BY <1>25 DEF UndoFails, Restored, Fault, End, Recorded
    <2>6. CleanupInv'
        BY <1>25 DEF UndoFails, Restored, Fault, End, Recorded
    <2>7. DbInv'
        BY <1>25 DEF UndoFails, Restored, Fault, End, Recorded
    <2>8. ManifestIsSound'
        BY <1>25 DEF UndoFails, Restored, Fault, End, Recorded
    <2> QED
        BY <2>1, <2>2, <2>3, <2>4, <2>5, <2>6, <2>7, <2>8
<1>26. ASSUME UndoSync PROVE IInv'
    BY <1>26 DEF UndoSync, Goto, bounds, disk
<1>27. ASSUME RemoveEntry PROVE IInv'
    <2>1. TypeOK'
        BY <1>27 DEF RemoveEntry, Cleaning, memory, bounds
    <2>2. PhaseInv'
        BY <1>27 DEF RemoveEntry, Cleaning, memory, bounds
    <2>3. SavingInv'
        BY <1>27 DEF RemoveEntry, Cleaning, memory, bounds
    <2>4. PreparedInv'
        BY <1>27 DEF RemoveEntry, Cleaning, memory, bounds
    <2>5. UndoingInv'
        BY <1>27 DEF RemoveEntry, Cleaning, memory, bounds
    <2>6. CleanupInv'
        BY <1>27 DEF RemoveEntry, Cleaning, memory, bounds
    <2>7. DbInv'
        BY <1>27 DEF RemoveEntry, Cleaning, memory, bounds
    <2>8. ManifestIsSound'
        BY <1>27 DEF RemoveEntry, Cleaning, memory, bounds
    <2> QED
        BY <2>1, <2>2, <2>3, <2>4, <2>5, <2>6, <2>7, <2>8
<1>28. ASSUME RemoveJournal PROVE IInv'
    BY <1>28 DEF RemoveJournal, Cleaning, End, bounds
<1>29. ASSUME CleanupFails PROVE IInv'
    <2>disk. DiskTypeOK'
        BY <1>29 DEF CleanupFails, Cleaning, Fault, End
    <2>memory. MemoryTypeOK'
        BY <1>29 DEF CleanupFails, Cleaning, Fault, End
    <2>bounds. BoundsTypeOK'
        BY <1>29 DEF CleanupFails, Cleaning, Fault, End
    <2>1. TypeOK'
        BY <2>disk, <2>memory, <2>bounds
    <2>2. PhaseInv'
        BY <1>29 DEF CleanupFails, Cleaning, Fault, End
    <2>3. SavingInv'
        BY <1>29 DEF CleanupFails, Cleaning, Fault, End
    <2>4. PreparedInv'
        BY <1>29 DEF CleanupFails, Cleaning, Fault, End
    <2>5. UndoingInv'
        BY <1>29 DEF CleanupFails, Cleaning, Fault, End
    <2>6. CleanupInv'
        BY <1>29 DEF CleanupFails, Cleaning, Fault, End
    <2>7. DbInv'
        BY <1>29 DEF CleanupFails, Cleaning, Fault, End
    <2>8. ManifestIsSound'
        BY <1>29 DEF CleanupFails, Cleaning, Fault, End
    <2> QED
        BY <2>1, <2>2, <2>3, <2>4, <2>5, <2>6, <2>7, <2>8
<1>30. ASSUME Crash PROVE IInv'
    <2>disk. DiskTypeOK'
        BY <1>30 DEF Crash, Fault
    <2>memory. MemoryTypeOK'
        BY <1>30 DEF Crash, Fault
    <2>bounds. BoundsTypeOK'
        BY <1>30 DEF Crash, Fault
    <2>1. TypeOK'
        BY <2>disk, <2>memory, <2>bounds
    <2>2. PhaseInv'
        BY <1>30 DEF Crash, Fault
    <2>3. SavingInv'
        BY <1>30 DEF Crash, Fault
    <2>4. PreparedInv'
        BY <1>30 DEF Crash, Fault
    <2>5. UndoingInv'
        BY <1>30 DEF Crash, Fault
    <2>6. CleanupInv'
        BY <1>30 DEF Crash, Fault
    <2>7. DbInv'
        BY <1>30 DEF Crash, Fault
    <2>8. ManifestIsSound'
        BY <1>30 DEF Crash, Fault
    <2> QED
        BY <2>1, <2>2, <2>3, <2>4, <2>5, <2>6, <2>7, <2>8
<1>31. ASSUME Startup PROVE IInv'
    BY <1>31 DEF Startup, disk, bounds, Recorded
<1>32. CASE UNCHANGED vars
    BY <1>32 DEF vars, disk, memory, bounds, Touched, Recorded
<1> QED
    BY <1>1, <1>2, <1>3, <1>4, <1>5, <1>6, <1>7, <1>8, <1>9, <1>10, <1>11, <1>12, <1>13, <1>14, <1>15, <1>16, <1>17, <1>18, <1>19, <1>20, <1>21, <1>22, <1>23, <1>24, <1>25, <1>26, <1>27, <1>28, <1>29, <1>30, <1>31, <1>32
       DEF Next, ReplaceStep, UndoStep, CleanupStep, Failure, Requests

-----------------------------------------------------------------------------
(* replace_files implements AtomicStore.                                    *)

\* Before the first replacement the files are what AtomicStore starts with.
LEMMA InitRefines == Init => Abstract!Init
BY DbAssumption, NullAssumption
   DEF Init, Abstract!Init, Effective, Logical, LogicalDb, NoReplacement, Abstract!NoReplacement

\* Removing the manifest is Commit; every other step of replace_files and of
\* recovery leaves unchanged what recovery would leave on disk, or ends a call.
LEMMA StepRefines == IInv /\ [Next]_vars => [Abstract!Next]_(Abstract!vars)
<1> SUFFICES ASSUME IInv, [Next]_vars PROVE [Abstract!Next]_(Abstract!vars)
    OBVIOUS
<1> USE DbAssumption, NullAssumption
    DEF IInv, TypeOK, DiskTypeOK, MemoryTypeOK, PhaseInv, SavingInv, PreparedInv, UndoingInv,
        CleanupInv, DbInv, ManifestIsSound, CopiesComplete, NothingInstalled,
        Effective, Logical, LogicalDb, NoRecords, NoCopies,
        Abstract!vars, Abstract!NoReplacement, NoReplacement
<1>1. ASSUME NEW f \in Files, NEW c \in Content, WriteFile(f, c) PROVE Abstract!Write(f, c)
    <2>1. \A g \in Files : Effective(g)' = IF g = f THEN c ELSE Effective(g)
        BY <1>1 DEF WriteFile, Serving
    <2>2. [g \in Files |-> Effective(g)'] = [[g \in Files |-> Effective(g)] EXCEPT ![f] = c]
        BY <2>1, Zenon
    <2> QED
        BY <1>1, <2>2 DEF WriteFile, Serving, memory, Abstract!Write
<1>2. ASSUME NEW c \in Content, WriteDb(c) PROVE Abstract!Write(Db, c)
    BY <1>2 DEF WriteDb, Serving, memory, Abstract!Write
<1>3. ASSUME NEW c \in Content, WriteWal(c) PROVE Abstract!Write(Db, c)
    <2>1. \A g \in Files : Effective(g)' = IF g = Db THEN c ELSE Effective(g)
        BY <1>3 DEF WriteWal, Serving
    <2>2. [g \in Files |-> Effective(g)'] = [[g \in Files |-> Effective(g)] EXCEPT ![Db] = c]
        BY <2>1, Zenon
    <2> QED
        BY <1>3, <2>2 DEF WriteWal, Serving, memory, Abstract!Write
<1>4. ASSUME Checkpoint PROVE UNCHANGED Abstract!vars
    BY <1>4 DEF Checkpoint, memory, bounds
<1>5. ASSUME NEW r \in Replacement, Replace(r) PROVE Abstract!Begin(r)
    BY <1>5 DEF Replace, Abstract!Begin
<1>6. ASSUME Refuse PROVE Abstract!Raise
    BY <1>6 DEF Refuse, disk, Abstract!Raise
<1>7. ASSUME NEW f \in Files, Save(f) PROVE UNCHANGED Abstract!vars
    BY <1>7 DEF Save, Goto, bounds
<1>8. ASSUME NEW f \in Files, Install(f) PROVE UNCHANGED Abstract!vars
    BY <1>8 DEF Install, Goto, bounds, Touched
<1>9. ASSUME WriteManifest PROVE UNCHANGED Abstract!vars
    BY <1>9 DEF WriteManifest, Goto, bounds, Touched
<1>10. ASSUME UnlinkWal PROVE UNCHANGED Abstract!vars
    BY <1>10 DEF UnlinkWal, Goto, bounds, Touched
<1>11. ASSUME UnlinkShm PROVE UNCHANGED Abstract!vars
    BY <1>11 DEF UnlinkShm, Goto, bounds
<1>12. ASSUME NewGeneration PROVE UNCHANGED Abstract!vars
    BY <1>12 DEF NewGeneration, Goto, bounds
<1>13. ASSUME UnlinkManifest PROVE Abstract!Commit
    BY <1>13 DEF UnlinkManifest, bounds, Touched, Abstract!Commit
<1>14. ASSUME SyncJournal PROVE UNCHANGED Abstract!vars
    BY <1>14 DEF SyncJournal, Goto, bounds, disk
<1>15. ASSUME SaveFails PROVE UNCHANGED Abstract!vars
    BY <1>15 DEF SaveFails, Unprepared, Fault
<1>16. ASSUME WriteManifestFails PROVE UNCHANGED Abstract!vars
    BY <1>16 DEF WriteManifestFails, Unprepared, Fault, Touched
<1>17. ASSUME PreparedFails PROVE UNCHANGED Abstract!vars
    BY <1>17 DEF PreparedFails, RollBack, Fault, Recorded, Touched
<1>18. ASSUME SyncJournalFails PROVE UNCHANGED Abstract!vars
    BY <1>18 DEF SyncJournalFails, Fault, disk
<1>19. ASSUME NEW f \in Files, Undo(f) PROVE UNCHANGED Abstract!vars
    BY <1>19 DEF Undo, Restored, Goto, bounds, Recorded
<1>20. ASSUME NEW f \in Files, UndoFindsNoCopy(f) PROVE Abstract!Raise \/ UNCHANGED Abstract!vars
    BY <1>20 DEF UndoFindsNoCopy, End, disk, bounds, Abstract!Raise
<1>21. ASSUME UndoWal PROVE UNCHANGED Abstract!vars
    BY <1>21 DEF UndoWal, Goto, bounds, Recorded
<1>22. ASSUME UndoShm PROVE UNCHANGED Abstract!vars
    BY <1>22 DEF UndoShm, Goto, bounds
<1>23. ASSUME UndoGeneration PROVE UNCHANGED Abstract!vars
    BY <1>23 DEF UndoGeneration, Goto, bounds
<1>24. ASSUME UndoUnlinkManifest PROVE UNCHANGED Abstract!vars
    BY <1>24 DEF UndoUnlinkManifest, Goto, bounds, Recorded
<1>25. ASSUME UndoFails PROVE Abstract!Raise \/ UNCHANGED Abstract!vars
    BY <1>25 DEF UndoFails, Restored, Fault, End, Recorded, Abstract!Raise
<1>26. ASSUME UndoSync PROVE UNCHANGED Abstract!vars
    BY <1>26 DEF UndoSync, Goto, bounds, disk
<1>27. ASSUME RemoveEntry PROVE UNCHANGED Abstract!vars
    BY <1>27 DEF RemoveEntry, Cleaning, memory, bounds
<1>28. ASSUME RemoveJournal PROVE Abstract!Return \/ Abstract!Raise \/ UNCHANGED Abstract!vars
    BY <1>28 DEF RemoveJournal, Cleaning, End, bounds, Abstract!Return, Abstract!Raise
<1>29. ASSUME CleanupFails PROVE Abstract!Raise \/ UNCHANGED Abstract!vars
    BY <1>29 DEF CleanupFails, Cleaning, Fault, End, Abstract!Raise
<1>30. ASSUME Crash PROVE Abstract!Crash \/ UNCHANGED Abstract!vars
    BY <1>30 DEF Crash, Fault, Abstract!Crash
<1>31. ASSUME Startup PROVE UNCHANGED Abstract!vars
    BY <1>31 DEF Startup, disk, bounds, Recorded
<1>32. CASE UNCHANGED vars
    BY <1>32 DEF vars, disk, memory
<1>33. Replacement \subseteq Abstract!Replacement
    BY DEF Replacement, Abstract!Replacement
<1> QED
    BY <1>1, <1>2, <1>3, <1>4, <1>5, <1>6, <1>7, <1>8, <1>9, <1>10, <1>11, <1>12, <1>13, <1>14, <1>15, <1>16, <1>17, <1>18, <1>19, <1>20, <1>21, <1>22, <1>23, <1>24, <1>25, <1>26, <1>27, <1>28, <1>29, <1>30, <1>31, <1>32, <1>33
       DEF Next, ReplaceStep, UndoStep, CleanupStep, Failure, Requests, Abstract!Next

-----------------------------------------------------------------------------
\* The inductive invariant holds in every reachable state of replace_files,
\* its failures, kills and recoveries.
THEOREM InductiveInvariant == Spec => []IInv
<1>1. Init => IInv
    BY InitIInv
<1>2. IInv /\ [Next]_vars => IInv'
    BY StepIInv
<1> QED
    BY <1>1, <1>2, PTL DEF Spec

\* No step installs what was not saved or handed over, and addressbook.db
\* never disappears.
THEOREM TypeCorrect == Spec => []TypeOK
<1>1. IInv => TypeOK
    BY DEF IInv
<1> QED
    BY <1>1, InductiveInvariant, PTL

\* A manifest on disk can be rolled back, or belongs to a replacement that
\* has installed nothing.
THEOREM SoundManifest == Spec => []ManifestIsSound
<1>1. IInv => ManifestIsSound
    BY DEF IInv
<1> QED
    BY <1>1, InductiveInvariant, PTL

\* While requests may be served, no WAL of an older database lies beside the
\* installed one (line 111).
THEOREM IntactDatabase == Spec => []ServedDatabaseIsIntact
<1>1. IInv => ServedDatabaseIsIntact
    BY DEF IInv, DbInv, ServedDatabaseIsIntact, Effective, Logical
<1> QED
    BY <1>1, InductiveInvariant, PTL

\* replace_files replaces its files in one step or not at all, whatever fails
\* and whenever its process is killed; it returns normally only after the step.
THEOREM AtomicReplacement == Spec => ImplementsAtomicStore
<1>1. Init => Abstract!Init
    BY InitRefines
<1>2. IInv /\ [Next]_vars => [Abstract!Next]_(Abstract!vars)
    BY StepRefines
<1> QED
    BY <1>1, <1>2, InductiveInvariant, PTL DEF Spec, ImplementsAtomicStore, Abstract!Spec

-----------------------------------------------------------------------------
SharedStages == {"admitted", "reload", "mark", "serve", "tail", "archive"}
ExclusiveStages == {"verify", "backup", "replace", "replacing", "reload_keys", "release"}
RecoverStages == {"config_recover", "config_undo", "create_recover", "create_undo"}

\* Who is at a stage holds the lock that goes with it; nobody else does.
LockInv ==
    /\ \A t \in Threads : thread[t] \in SharedStages <=> t \in shared
    /\ \A t \in Threads : thread[t] \in ExclusiveStages <=> exclusive = t
    /\ \A w \in Workers : worker[w] \in RecoverStages <=> exclusive = w
    /\ exclusive # Nobody => shared = {}
    /\ \A t \in Threads : thread[t] # "idle" => worker[WorkerOf[t]] = "up"

\* Files change under the exclusive lock.
HolderInv ==
    pc # "idle" =>
        \/ \E t \in Threads : exclusive = t /\ thread[t] = "replacing"
        \/ \E w \in Workers : exclusive = w /\ worker[w] \in {"config_undo", "create_undo"}

\* A WAL belongs to the main file or was just overtaken by it, and a copy of the
\* database was made with its frames.
WalInv ==
    wal # NoWal =>
        /\ live[Db] \in {wal.base, wal.result}
        /\ record[Db] = "exists" /\ copy[Db] # NoCopy => copy[Db] = wal.result

\* While files are exchanged, and until an unfinished exchange is undone.
Dirty == pc \in PreparedPhases \cup UndoPhases \/ (pc = "idle" /\ manifest)

Fits(w) == cachedKey[w] = KeyOf[live[Config]] /\ pool[w] \in {NoPool, inode}

\* What a worker read in the present generation still holds; an exchange ends
\* with a generation that nobody has.
CacheInv ==
    \A w \in Workers : worker[w] = "up" =>
        /\ cachedGen[w] \in Nat /\ cachedGen[w] <= generation
        /\ cachedGen[w] = generation => pc \notin {"commit", "undo_commit"}
        /\ cachedGen[w] = generation /\ ~Dirty => Fits(w)

ThreadInv ==
    \A t \in Threads :
        /\ thread[t] \in {"reload", "mark", "serve", "archive"} => ~manifest
        /\ thread[t] = "mark" => Fits(WorkerOf[t])
        /\ thread[t] \in {"serve", "archive", "backup", "replace"} =>
               cachedGen[WorkerOf[t]] = generation
        /\ thread[t] \in {"gap", "verify"} =>
               /\ seen[t] \in Nat /\ seen[t] <= generation
               /\ seen[t] = generation => cachedGen[WorkerOf[t]] = generation
        /\ thread[t] = "archive" => draft[t] \in Content /\ KeyOf[draft[t]] = KeyOf[live[Config]]
        /\ thread[t] = "replace" => LogicalDb \in backups

\* The keys fit the database, and what is about to be installed fits as well.
KeysInv ==
    /\ Effective(Config) \in Content
    /\ KeyOf[Effective(Config)] = KeyOf[Effective(Db)]
    /\ op = "replace" /\ ~committed =>
           KeyOf[repl[Db]] = KeyOf[IF repl[Config] = Keep THEN Effective(Config) ELSE repl[Config]]

BackupInv == op = "replace" /\ ~committed => Effective(Db) \in backups

MInv ==
    /\ MaintenanceTypeOK /\ IInv /\ WalInv /\ LockInv /\ HolderInv /\ CacheInv /\ ThreadInv
    /\ KeysInv /\ BackupInv /\ FullBackupsFitTheirKeys
-----------------------------------------------------------------------------
(* What the steps of a call of replace_files or recover_pending_restore do  *)

CallStep == ReplaceStep \/ UndoStep \/ CleanupStep \/ Failure

\* What recovery would leave on disk.
EffectiveKept == [f \in Files |-> Effective(f)]' = [f \in Files |-> Effective(f)]
Commits ==
    /\ op = "replace" /\ ~committed /\ committed'
    /\ \A f \in Files : Effective(f)' = IF repl[f] = Keep THEN Effective(f) ELSE repl[f]

\* A step of a call changes what recovery would leave in one place only.
LEMMA CallEffective ==
    ASSUME IInv, CallStep
    PROVE  EffectiveKept \/ Commits
<1> USE DbAssumption, NullAssumption
    DEF Phases, ReplacePhases, PreparedPhases, CommittedPhases, UndoPhases, UndonePhases,
        IInv, TypeOK, DiskTypeOK, MemoryTypeOK, PhaseInv, SavingInv, PreparedInv, UndoingInv,
        CleanupInv, DbInv, ManifestIsSound, CopiesComplete, NothingInstalled,
        Effective, Logical, LogicalDb, NoRecords, NoCopies, EffectiveKept, Commits
<1>1. ASSUME NEW f \in Files, Save(f) PROVE EffectiveKept
  BY <1>1 DEF Save, Goto, bounds
<1>2. ASSUME NEW f \in Files, Install(f) PROVE EffectiveKept
  BY <1>2 DEF Install, Goto, bounds, Touched
<1>3. ASSUME NEW f \in Files, Undo(f) PROVE EffectiveKept
  BY <1>3 DEF Undo, Restored, Goto, bounds, Recorded
<1>4. ASSUME NEW f \in Files, UndoFindsNoCopy(f) PROVE EffectiveKept
  BY <1>4 DEF UndoFindsNoCopy, End, disk, bounds
<1>5. ASSUME WriteManifest PROVE EffectiveKept
  BY <1>5 DEF WriteManifest, Goto, bounds, Touched
<1>6. ASSUME UnlinkWal PROVE EffectiveKept
  BY <1>6 DEF UnlinkWal, Goto, bounds, Touched
<1>7. ASSUME UnlinkShm PROVE EffectiveKept
  BY <1>7 DEF UnlinkShm, Goto, bounds
<1>8. ASSUME NewGeneration PROVE EffectiveKept
  BY <1>8 DEF NewGeneration, Goto, bounds
<1>9. ASSUME UnlinkManifest PROVE Commits
  BY <1>9 DEF UnlinkManifest, bounds, Touched
<1>10. ASSUME SyncJournal PROVE EffectiveKept
  BY <1>10 DEF SyncJournal, Goto, bounds, disk
<1>11. ASSUME UndoWal PROVE EffectiveKept
  BY <1>11 DEF UndoWal, Goto, bounds, Recorded
<1>12. ASSUME UndoShm PROVE EffectiveKept
  BY <1>12 DEF UndoShm, Goto, bounds
<1>13. ASSUME UndoGeneration PROVE EffectiveKept
  BY <1>13 DEF UndoGeneration, Goto, bounds
<1>14. ASSUME UndoUnlinkManifest PROVE EffectiveKept
  BY <1>14 DEF UndoUnlinkManifest, Goto, bounds, Recorded
<1>15. ASSUME UndoSync PROVE EffectiveKept
  BY <1>15 DEF UndoSync, Goto, bounds, disk
<1>16. ASSUME RemoveEntry PROVE EffectiveKept
  BY <1>16 DEF RemoveEntry, Cleaning, memory, bounds
<1>17. ASSUME RemoveJournal PROVE EffectiveKept
  BY <1>17 DEF RemoveJournal, Cleaning, End, bounds
<1>18. ASSUME SaveFails PROVE EffectiveKept
  BY <1>18 DEF SaveFails, Unprepared, Fault
<1>19. ASSUME WriteManifestFails PROVE EffectiveKept
  BY <1>19 DEF WriteManifestFails, Unprepared, Fault, Touched
<1>20. ASSUME PreparedFails PROVE EffectiveKept
  BY <1>20 DEF PreparedFails, RollBack, Fault, Recorded, Touched
<1>21. ASSUME SyncJournalFails PROVE EffectiveKept
  BY <1>21 DEF SyncJournalFails, Fault, disk
<1>22. ASSUME UndoFails PROVE EffectiveKept
  BY <1>22 DEF UndoFails, Restored, Fault, End, Recorded
<1>23. ASSUME CleanupFails PROVE EffectiveKept
  BY <1>23 DEF CleanupFails, Cleaning, Fault, End
<1>24. ASSUME Crash PROVE EffectiveKept
  BY <1>24 DEF Crash, Fault
<1> QED
  BY <1>1, <1>2, <1>3, <1>4, <1>5, <1>6, <1>7, <1>8, <1>9, <1>10, <1>11, <1>12, <1>13, <1>14,
     <1>15, <1>16, <1>17, <1>18, <1>19, <1>20, <1>21, <1>22, <1>23, <1>24
     DEF CallStep, ReplaceStep, UndoStep, CleanupStep, Failure

\* The phases of a call, the generation, and the files when it ends.
CallPhases ==
    /\ pc # "idle" /\ generation' \in {generation, generation + 1}
    /\ pc' \in {"commit", "undo_commit"} => generation' = generation + 1
    /\ \/ Dirty'
       \/ pc \in {"commit", "undo_commit"}
       \/ ~Dirty /\ live' = live /\ generation' = generation
    /\ op' = "replace" /\ ~committed' => op = "replace" /\ ~committed /\ repl' = repl
    /\ ~committed /\ committed' => op = "replace"

\* Exchanged files stay dirty until a commit, which a new generation precedes.
LEMMA CallMovesOn ==
    ASSUME IInv, CallStep
    PROVE  CallPhases
<1> USE DbAssumption DEF IInv, TypeOK, DiskTypeOK, MemoryTypeOK, PhaseInv, CallPhases, Dirty,
        PreparedPhases, UndoPhases, ReplacePhases, CommittedPhases, UndonePhases, Phases,
        Goto, End, Fault, Unprepared, RollBack, SaveCopy, Saved, Restored, Cleaning,
        Touched, Recorded, disk, memory, bounds
<1>1. ASSUME NEW f \in Files, Save(f) PROVE CallPhases
  BY <1>1 DEF Save
<1>2. ASSUME NEW f \in Files, Install(f) PROVE CallPhases
  BY <1>2 DEF Install
<1>3. ASSUME NEW f \in Files, Undo(f) PROVE CallPhases
  BY <1>3 DEF Undo
<1>4. ASSUME NEW f \in Files, UndoFindsNoCopy(f) PROVE CallPhases
  BY <1>4 DEF UndoFindsNoCopy
<1>5. ASSUME WriteManifest PROVE CallPhases
  BY <1>5 DEF WriteManifest
<1>6. ASSUME UnlinkWal PROVE CallPhases
  BY <1>6 DEF UnlinkWal
<1>7. ASSUME UnlinkShm PROVE CallPhases
  BY <1>7 DEF UnlinkShm
<1>8. ASSUME NewGeneration PROVE CallPhases
  BY <1>8 DEF NewGeneration
<1>9. ASSUME UnlinkManifest PROVE CallPhases
  BY <1>9 DEF UnlinkManifest
<1>10. ASSUME SyncJournal PROVE CallPhases
  BY <1>10 DEF SyncJournal
<1>11. ASSUME UndoWal PROVE CallPhases
  BY <1>11 DEF UndoWal
<1>12. ASSUME UndoShm PROVE CallPhases
  BY <1>12 DEF UndoShm
<1>13. ASSUME UndoGeneration PROVE CallPhases
  BY <1>13 DEF UndoGeneration
<1>14. ASSUME UndoUnlinkManifest PROVE CallPhases
  BY <1>14 DEF UndoUnlinkManifest
<1>15. ASSUME UndoSync PROVE CallPhases
  BY <1>15 DEF UndoSync
<1>16. ASSUME RemoveEntry PROVE CallPhases
  BY <1>16 DEF RemoveEntry
<1>17. ASSUME RemoveJournal PROVE CallPhases
  BY <1>17 DEF RemoveJournal
<1>18. ASSUME SaveFails PROVE CallPhases
  BY <1>18 DEF SaveFails
<1>19. ASSUME WriteManifestFails PROVE CallPhases
  BY <1>19 DEF WriteManifestFails
<1>20. ASSUME PreparedFails PROVE CallPhases
  BY <1>20 DEF PreparedFails
<1>21. ASSUME SyncJournalFails PROVE CallPhases
  BY <1>21 DEF SyncJournalFails
<1>22. ASSUME UndoFails PROVE CallPhases
  BY <1>22 DEF UndoFails
<1>23. ASSUME CleanupFails PROVE CallPhases
  BY <1>23 DEF CleanupFails
<1>24. ASSUME Crash PROVE CallPhases
  BY <1>24 DEF Crash
<1> QED
  BY <1>1, <1>2, <1>3, <1>4, <1>5, <1>6, <1>7, <1>8, <1>9, <1>10, <1>11, <1>12, <1>13, <1>14,
     <1>15, <1>16, <1>17, <1>18, <1>19, <1>20, <1>21, <1>22, <1>23, <1>24 DEF CallStep,
     ReplaceStep, UndoStep, CleanupStep, Failure

\* A step of a call, of recovery or of SQLite leaves no foreign WAL behind.
LEMMA StepWalInv ==
    ASSUME IInv, WalInv, [Next]_vars
    PROVE  WalInv'
<1> USE DbAssumption, NullAssumption
    DEF Phases, ReplacePhases, PreparedPhases, CommittedPhases, UndoPhases, UndonePhases,
        IInv, TypeOK, DiskTypeOK, MemoryTypeOK, PhaseInv, SavingInv, PreparedInv, UndoingInv,
        DbInv, LogicalDb, Effective, Logical, NoRecords, NoCopies, WalInv, Serving,
        Goto, End, Fault, Unprepared, RollBack, SaveCopy, Saved, Restored, Cleaning,
        Touched, Recorded, disk, memory, bounds
<1>1. ASSUME NEW f \in Files, Save(f) PROVE WalInv'
    BY <1>1 DEF Save
<1>2. ASSUME NEW f \in Files, Install(f) PROVE WalInv'
    BY <1>2 DEF Install
<1>3. ASSUME NEW f \in Files, Undo(f) PROVE WalInv'
    BY <1>3 DEF Undo
<1>4. ASSUME NEW f \in Files, UndoFindsNoCopy(f) PROVE WalInv'
    BY <1>4 DEF UndoFindsNoCopy
<1>5. ASSUME WriteManifest PROVE WalInv'
    BY <1>5 DEF WriteManifest
<1>6. ASSUME UnlinkWal PROVE WalInv'
    BY <1>6 DEF UnlinkWal
<1>7. ASSUME UnlinkShm PROVE WalInv'
    BY <1>7 DEF UnlinkShm
<1>8. ASSUME NewGeneration PROVE WalInv'
    BY <1>8 DEF NewGeneration
<1>9. ASSUME UnlinkManifest PROVE WalInv'
    BY <1>9 DEF UnlinkManifest
<1>10. ASSUME SyncJournal PROVE WalInv'
    BY <1>10 DEF SyncJournal
<1>11. ASSUME UndoWal PROVE WalInv'
    BY <1>11 DEF UndoWal
<1>12. ASSUME UndoShm PROVE WalInv'
    BY <1>12 DEF UndoShm
<1>13. ASSUME UndoGeneration PROVE WalInv'
    BY <1>13 DEF UndoGeneration
<1>14. ASSUME UndoUnlinkManifest PROVE WalInv'
    BY <1>14 DEF UndoUnlinkManifest
<1>15. ASSUME UndoSync PROVE WalInv'
    BY <1>15 DEF UndoSync
<1>16. ASSUME RemoveEntry PROVE WalInv'
    BY <1>16 DEF RemoveEntry
<1>17. ASSUME RemoveJournal PROVE WalInv'
    BY <1>17 DEF RemoveJournal
<1>18. ASSUME SaveFails PROVE WalInv'
    BY <1>18 DEF SaveFails
<1>19. ASSUME WriteManifestFails PROVE WalInv'
    BY <1>19 DEF WriteManifestFails
<1>20. ASSUME PreparedFails PROVE WalInv'
    BY <1>20 DEF PreparedFails
<1>21. ASSUME SyncJournalFails PROVE WalInv'
    BY <1>21 DEF SyncJournalFails
<1>22. ASSUME UndoFails PROVE WalInv'
    BY <1>22 DEF UndoFails
<1>23. ASSUME CleanupFails PROVE WalInv'
    BY <1>23 DEF CleanupFails
<1>24. ASSUME Crash PROVE WalInv'
    BY <1>24 DEF Crash
<1>25. ASSUME NEW f \in Files, NEW c \in Content, WriteFile(f, c) PROVE WalInv'
    BY <1>25 DEF WriteFile
<1>26. ASSUME NEW c \in Content, WriteDb(c) PROVE WalInv'
    BY <1>26 DEF WriteDb
<1>27. ASSUME NEW c \in Content, WriteWal(c) PROVE WalInv'
    BY <1>27 DEF WriteWal
<1>28. ASSUME Checkpoint PROVE WalInv'
    BY <1>28 DEF Checkpoint
<1>29. ASSUME NEW r \in Replacement, Replace(r) PROVE WalInv'
    BY <1>29 DEF Replace
<1>30. ASSUME Refuse PROVE WalInv'
    BY <1>30 DEF Refuse
<1>31. ASSUME Startup PROVE WalInv'
    BY <1>31 DEF Startup
<1>32. CASE UNCHANGED vars
    BY <1>32 DEF vars
<1> QED
    BY <1>1, <1>2, <1>3, <1>4, <1>5, <1>6, <1>7, <1>8, <1>9, <1>10, <1>11, <1>12, <1>13, <1>14,
       <1>15, <1>16, <1>17, <1>18, <1>19, <1>20, <1>21, <1>22, <1>23, <1>24, <1>25, <1>26, <1>27,
       <1>28, <1>29, <1>30, <1>31, <1>32
       DEF Next, ReplaceStep, UndoStep, CleanupStep, Failure, Requests
-----------------------------------------------------------------------------
(* What follows from who holds the lock                                     *)

\* Nothing happens to the files while a request holds the lock shared.
LEMMA Reading ==
    ASSUME MInv, NEW t \in Threads, thread[t] \in SharedStages
    PROVE  /\ t \in shared /\ exclusive = Nobody /\ pc = "idle" /\ op = "none"
           /\ worker[WorkerOf[t]] = "up" /\ WorkerOf[t] \in Workers
<1>1. t \in shared /\ exclusive = Nobody
    BY DEF MInv, LockInv, MaintenanceTypeOK
<1>2. Nobody \notin Threads \cup Workers
    BY WorkerAssumption
<1>3. pc = "idle"
    BY <1>1, <1>2 DEF MInv, HolderInv
<1> QED
    BY <1>1, <1>3, WorkerAssumption DEF MInv, IInv, PhaseInv, LockInv, SharedStages

\* Nor while a restoring thread holds it and is not in replace_files.
LEMMA Restoring ==
    ASSUME MInv, NEW t \in Threads, thread[t] \in ExclusiveStages \ {"replacing"}
    PROVE  /\ exclusive = t /\ shared = {} /\ pc = "idle" /\ op = "none"
           /\ worker[WorkerOf[t]] = "up" /\ WorkerOf[t] \in Workers
<1>1. exclusive = t /\ exclusive \notin Workers /\ exclusive # Nobody
    BY WorkerAssumption DEF MInv, LockInv
<1>2. shared = {} /\ pc = "idle"
    BY <1>1 DEF MInv, LockInv, HolderInv
<1> QED
    BY <1>1, <1>2, WorkerAssumption DEF MInv, IInv, PhaseInv, LockInv, ExclusiveStages

\* Nor before a starting worker has looked for a journal.
LEMMA Recovering ==
    ASSUME MInv, NEW w \in Workers, worker[w] \in RecoverStages
    PROVE  /\ exclusive = w /\ shared = {}
           /\ \A t \in Threads : thread[t] \notin SharedStages \cup ExclusiveStages
           /\ \A t \in Threads : WorkerOf[t] = w => thread[t] = "idle"
<1>1. exclusive = w /\ exclusive \notin Threads /\ exclusive # Nobody
    BY WorkerAssumption DEF MInv, LockInv
<1>2. shared = {}
    BY <1>1 DEF MInv, LockInv
<1>3. worker[w] # "up"
    BY DEF RecoverStages
<1> QED
    BY <1>1, <1>2, <1>3 DEF MInv, LockInv

\* Without a manifest the files are what recovery would leave.
LEMMA ServedFiles ==
    ASSUME MInv, ~manifest
    PROVE  /\ Effective(Db) = LogicalDb /\ LogicalDb \in Content
           /\ Effective(Config) = live[Config] /\ live[Config] \in Content
           /\ KeyOf[live[Config]] = KeyOf[LogicalDb]
<1>1. Config # Db
    BY WorkerAssumption
<1>2. Effective(Db) = LogicalDb /\ Effective(Config) = live[Config]
    BY <1>1 DEF Effective, Logical
<1>3. LogicalDb \in Content
    BY <1>2, LogicalDbType DEF MInv, IInv, DbInv
<1> QED
    BY <1>2, <1>3 DEF MInv, KeysInv

\* What a serving worker remembers is true.
LEMMA CurrentCache ==
    ASSUME MInv, NEW t \in Threads, cachedGen[WorkerOf[t]] = generation,
           worker[WorkerOf[t]] = "up", ~manifest, pc = "idle"
    PROVE  Fits(WorkerOf[t])
<1>1. WorkerOf[t] \in Workers
    BY WorkerAssumption
<1>2. ~Dirty
    BY DEF Dirty, PreparedPhases, UndoPhases
<1> QED
    BY <1>1, <1>2 DEF MInv, CacheInv

-----------------------------------------------------------------------------
(* Steps, seen from the files                                               *)

\* The files, and what recovery would make of them, stay as they are.
FilesSame ==
    /\ IInv' /\ WalInv'
    /\ pc' = pc /\ op' = op /\ committed' = committed /\ repl' = repl /\ manifest' = manifest
    /\ journal' = journal /\ live' = live /\ generation' = generation
    /\ LogicalDb' = LogicalDb
    /\ Effective(Db)' = Effective(Db) /\ Effective(Config)' = Effective(Config)

\* A step of the lock's users, or one that fails outside of replace_files.
LEMMA Untouched ==
    ASSUME MInv, UNCHANGED vars \/ (Fault /\ UNCHANGED <<disk, memory>>)
    PROVE  FilesSame
<1>1. UNCHANGED <<disk, memory>>
    BY DEF vars
<1>2. BoundsTypeOK'
    BY DEF vars, bounds, Fault, MInv, IInv, TypeOK, BoundsTypeOK
<1>3. IInv'
    BY <1>1, <1>2 DEF disk, memory, MInv, IInv, TypeOK, DiskTypeOK, MemoryTypeOK, PhaseInv,
        SavingInv, PreparedInv, UndoingInv, CleanupInv, DbInv, ManifestIsSound, CopiesComplete,
        NothingInstalled, Effective, Logical, LogicalDb, Touched, Recorded
<1>4. WalInv'
    BY <1>1 DEF disk, MInv, WalInv
<1> QED
    BY <1>1, <1>3, <1>4 DEF FilesSame, disk, memory, Effective, Logical, LogicalDb

\* Then the keys still fit, and the safety backup is still there.
LEMMA SameFits ==
    ASSUME MInv, FilesSame
    PROVE  KeysInv' /\ Dirty' = Dirty /\ (backups \subseteq backups' => BackupInv')
<1>1. KeysInv'
    BY DEF FilesSame, MInv, KeysInv
<1>2. Dirty' = Dirty
    BY DEF FilesSame, Dirty
<1> QED
    BY <1>1, <1>2 DEF FilesSame, MInv, BackupInv

\* SQLite or a request's commit changes the database in place.
LEMMA ServedChange ==
    ASSUME MInv, NEW c \in Content, WriteDb(c) \/ WriteWal(c) \/ (Checkpoint /\ c = LogicalDb)
    PROVE  /\ IInv' /\ WalInv' /\ LogicalDb' = c
           /\ pc = "idle" /\ ~manifest /\ op = "none"
           /\ UNCHANGED <<pc, op, manifest, generation>> /\ live'[Config] = live[Config]
           /\ Effective(Db)' = c /\ Effective(Config)' = live[Config]
<1>1. [Next]_vars
    BY DEF Next, Requests
<1>2. IInv' /\ WalInv'
    BY <1>1, StepIInv, StepWalInv DEF MInv
<1>3. /\ pc = "idle" /\ ~manifest
      /\ UNCHANGED <<pc, op, manifest, generation>> /\ live'[Config] = live[Config]
    BY WorkerAssumption DEF WriteDb, WriteWal, Checkpoint, Serving, memory, MInv, IInv, TypeOK,
       DiskTypeOK
<1>4. LogicalDb' = c
    BY DbAssumption, NullAssumption
    DEF WriteDb, WriteWal, Checkpoint, LogicalDb, MInv, IInv, TypeOK, DiskTypeOK
<1>5. Effective(Db)' = c /\ Effective(Config)' = live[Config]
    BY <1>3, <1>4, WorkerAssumption DEF Effective, Logical
<1> QED
    BY <1>2, <1>3, <1>4, <1>5 DEF MInv, IInv, PhaseInv

-----------------------------------------------------------------------------
(* Steps, seen from the lock: each action of the workers keeps MInv         *)

\* Whatever the state: the parts that concern the lock and the caches.
AccessInv ==
    /\ MaintenanceTypeOK /\ LockInv /\ HolderInv /\ CacheInv /\ ThreadInv
    /\ FullBackupsFitTheirKeys

\* With the files untouched it is enough to look at those parts.
LEMMA SameFilesStep ==
    ASSUME MInv, FilesSame, backups \subseteq backups', AccessInv'
    PROVE  MInv'
BY SameFits DEF MInv, AccessInv, FilesSame

\* A worker takes the lock for a start, and gives it back with what it read.
LEMMA StepBoot ==
    ASSUME MInv, NEW w \in Workers, Spawn(w) \/ BootLock(w) \/ ConfigLoaded(w) \/ AppCreated(w)
           \/ BootFails(w)
    PROVE  MInv'
<1> USE DEF SharedStages, ExclusiveStages, RecoverStages, Booting, locks,
        MoveWorker, LockExclusive, UnlockExclusive, Recovered
<1>1. CASE Spawn(w)
    <2> USE <1>1 DEF Spawn
    <2>1. FilesSame /\ backups \subseteq backups'
        BY Untouched DEF published
    <2>4. MaintenanceTypeOK'
        BY WorkerAssumption DEF MInv, MaintenanceTypeOK, locks, caches, published, IInv, TypeOK,
           DiskTypeOK
    <2>5. LockInv'
        BY WorkerAssumption DEF MInv, LockInv, MaintenanceTypeOK
    <2>6. HolderInv'
        BY <2>1, WorkerAssumption DEF MInv, HolderInv, FilesSame, MaintenanceTypeOK
    <2>7. CacheInv'
        BY <2>1, SameFits DEF MInv, CacheInv, FilesSame, caches, MaintenanceTypeOK, Fits, IInv,
           TypeOK, DiskTypeOK
    <2>8. ThreadInv'
        BY <2>1, WorkerAssumption DEF MInv, ThreadInv, FilesSame, caches, published,
           MaintenanceTypeOK, LockInv, Fits
    <2>9. FullBackupsFitTheirKeys'
        BY DEF MInv, FullBackupsFitTheirKeys, published
    <2> QED
        BY <2>1, <2>4, <2>5, <2>6, <2>7, <2>8, <2>9, SameFilesStep DEF AccessInv
<1>2. CASE BootLock(w)
    <2> USE <1>2 DEF BootLock
    <2>1. FilesSame /\ backups \subseteq backups'
        BY Untouched DEF published
    <2>4. MaintenanceTypeOK'
        BY WorkerAssumption DEF MInv, MaintenanceTypeOK, locks, caches, published, IInv, TypeOK,
           DiskTypeOK
    <2>5. LockInv'
        BY WorkerAssumption DEF MInv, LockInv, MaintenanceTypeOK
    <2>6. HolderInv'
        BY <2>1, WorkerAssumption DEF MInv, HolderInv, FilesSame, MaintenanceTypeOK
    <2>7. CacheInv'
        BY <2>1, SameFits DEF MInv, CacheInv, FilesSame, caches, MaintenanceTypeOK, Fits, IInv,
           TypeOK, DiskTypeOK
    <2>8. ThreadInv'
        BY <2>1, WorkerAssumption DEF MInv, ThreadInv, FilesSame, caches, published,
           MaintenanceTypeOK, LockInv, Fits
    <2>9. FullBackupsFitTheirKeys'
        BY DEF MInv, FullBackupsFitTheirKeys, published
    <2> QED
        BY <2>1, <2>4, <2>5, <2>6, <2>7, <2>8, <2>9, SameFilesStep DEF AccessInv
<1>3. CASE ConfigLoaded(w)
    <2> USE <1>3 DEF ConfigLoaded
    <2>1. FilesSame /\ backups \subseteq backups'
        BY Untouched DEF published
    <2>2. worker[w] \in RecoverStages /\ exclusive = w
        BY DEF MInv, LockInv
    <2>3. /\ shared = {}
          /\ \A t \in Threads :
                 thread[t] \notin SharedStages \cup ExclusiveStages /\ (WorkerOf[t] = w => thread[t] = "idle")
        BY <2>2, Recovering
    <2>4. MaintenanceTypeOK'
        BY WorkerAssumption, <2>2, <2>3 DEF MInv, MaintenanceTypeOK, locks, caches, published,
           IInv, TypeOK, DiskTypeOK
    <2>5. LockInv'
        BY WorkerAssumption, <2>2, <2>3 DEF MInv, LockInv, MaintenanceTypeOK
    <2>6. HolderInv'
        BY <2>1, WorkerAssumption, <2>2, <2>3 DEF MInv, HolderInv, FilesSame, MaintenanceTypeOK
    <2>7. CacheInv'
        BY <2>1, SameFits, <2>2, <2>3 DEF MInv, CacheInv, FilesSame, caches, MaintenanceTypeOK,
           Fits, IInv, TypeOK, DiskTypeOK
    <2>8. ThreadInv'
        BY <2>1, WorkerAssumption, <2>2, <2>3 DEF MInv, ThreadInv, FilesSame, caches, published,
           MaintenanceTypeOK, LockInv, Fits
    <2>9. FullBackupsFitTheirKeys'
        BY DEF MInv, FullBackupsFitTheirKeys, published
    <2> QED
        BY <2>1, <2>4, <2>5, <2>6, <2>7, <2>8, <2>9, SameFilesStep DEF AccessInv
<1>4. CASE AppCreated(w)
    <2> USE <1>4 DEF AppCreated
    <2>1. FilesSame /\ backups \subseteq backups'
        BY Untouched DEF published
    <2>2. worker[w] \in RecoverStages /\ exclusive = w
        BY DEF MInv, LockInv
    <2>3. /\ shared = {}
          /\ \A t \in Threads :
                 thread[t] \notin SharedStages \cup ExclusiveStages /\ (WorkerOf[t] = w => thread[t] = "idle")
        BY <2>2, Recovering
    <2>4. MaintenanceTypeOK'
        BY WorkerAssumption, <2>2, <2>3 DEF MInv, MaintenanceTypeOK, locks, caches, published,
           IInv, TypeOK, DiskTypeOK
    <2>5. LockInv'
        BY WorkerAssumption, <2>2, <2>3 DEF MInv, LockInv, MaintenanceTypeOK
    <2>6. HolderInv'
        BY <2>1, WorkerAssumption, <2>2, <2>3 DEF MInv, HolderInv, FilesSame, MaintenanceTypeOK
    <2>7. CacheInv'
        BY <2>1, SameFits, <2>2, <2>3 DEF MInv, CacheInv, FilesSame, caches, MaintenanceTypeOK,
           Fits, IInv, TypeOK, DiskTypeOK
    <2>8. ThreadInv'
        BY <2>1, WorkerAssumption, <2>2, <2>3 DEF MInv, ThreadInv, FilesSame, caches, published,
           MaintenanceTypeOK, LockInv, Fits
    <2>9. FullBackupsFitTheirKeys'
        BY DEF MInv, FullBackupsFitTheirKeys, published
    <2> QED
        BY <2>1, <2>4, <2>5, <2>6, <2>7, <2>8, <2>9, SameFilesStep DEF AccessInv
<1>5. CASE BootFails(w)
    <2> USE <1>5 DEF BootFails
    <2>1. FilesSame /\ backups \subseteq backups'
        BY Untouched DEF published
    <2>2. worker[w] \in RecoverStages /\ exclusive = w
        BY DEF MInv, LockInv
    <2>3. /\ shared = {}
          /\ \A t \in Threads :
                 thread[t] \notin SharedStages \cup ExclusiveStages /\ (WorkerOf[t] = w => thread[t] = "idle")
        BY <2>2, Recovering
    <2>4. MaintenanceTypeOK'
        BY WorkerAssumption, <2>2, <2>3 DEF MInv, MaintenanceTypeOK, locks, caches, published,
           IInv, TypeOK, DiskTypeOK
    <2>5. LockInv'
        BY WorkerAssumption, <2>2, <2>3 DEF MInv, LockInv, MaintenanceTypeOK
    <2>6. HolderInv'
        BY <2>1, WorkerAssumption, <2>2, <2>3 DEF MInv, HolderInv, FilesSame, MaintenanceTypeOK
    <2>7. CacheInv'
        BY <2>1, SameFits, <2>2, <2>3 DEF MInv, CacheInv, FilesSame, caches, MaintenanceTypeOK,
           Fits, IInv, TypeOK, DiskTypeOK
    <2>8. ThreadInv'
        BY <2>1, WorkerAssumption, <2>2, <2>3 DEF MInv, ThreadInv, FilesSame, caches, published,
           MaintenanceTypeOK, LockInv, Fits
    <2>9. FullBackupsFitTheirKeys'
        BY DEF MInv, FullBackupsFitTheirKeys, published
    <2> QED
        BY <2>1, <2>4, <2>5, <2>6, <2>7, <2>8, <2>9, SameFilesStep DEF AccessInv
<1> QED
    BY <1>1, <1>2, <1>3, <1>4, <1>5

\* SQLite can read the database at any time, however far a restore has come.
LEMMA ReadableDb ==
    ASSUME MInv PROVE LogicalDb \in Content
BY DbAssumption DEF MInv, IInv, TypeOK, DiskTypeOK, WalInv, LogicalDb

\* A request comes, refreshes what its worker remembers, and goes.
LEMMA StepRequest ==
    ASSUME MInv, NEW t \in Threads,
           Admit(t) \/ Leave(t) \/ Refresh(t) \/ MarkGeneration(t) \/ CreateBackup(t)
           \/ DeleteBackup(t) \/ BeginFullBackup(t) \/ FinishFullBackup(t) \/ BeginRestore(t)
    PROVE  MInv'
<1> USE DEF SharedStages, ExclusiveStages, RecoverStages, locks, caches, published, MoveThread,
        LockShared, LockExclusive, UnlockShared, UnlockExclusive
<1>1. CASE Admit(t)
    <2> USE <1>1 DEF Admit
    <2>1. FilesSame /\ backups \subseteq backups'
        BY Untouched DEF published
    <2>3. worker[WorkerOf[t]] = "up" /\ WorkerOf[t] \in Workers
        BY WorkerAssumption DEF MInv, LockInv
    <2>4. MaintenanceTypeOK'
        BY WorkerAssumption, <2>3 DEF MInv, MaintenanceTypeOK, IInv, TypeOK, DiskTypeOK
    <2>5. LockInv'
        BY WorkerAssumption, <2>3 DEF MInv, LockInv, MaintenanceTypeOK
    <2>6. HolderInv'
        BY <2>1, WorkerAssumption, <2>3 DEF MInv, HolderInv, FilesSame, MaintenanceTypeOK
    <2>7. CacheInv'
        BY <2>1, SameFits, WorkerAssumption, <2>3 DEF MInv, CacheInv, FilesSame, MaintenanceTypeOK,
           Fits, IInv, TypeOK, DiskTypeOK
    <2>8. ThreadInv'
        BY <2>1, WorkerAssumption, <2>3 DEF MInv, ThreadInv, CacheInv, FilesSame,
           MaintenanceTypeOK, LockInv, Fits
    <2>9. FullBackupsFitTheirKeys'
        BY <2>1, <2>3 DEF MInv, FullBackupsFitTheirKeys, ThreadInv
    <2> QED
        BY <2>1, <2>4, <2>5, <2>6, <2>7, <2>8, <2>9, SameFilesStep DEF AccessInv
<1>2. CASE Leave(t)
    <2> USE <1>2 DEF Leave
    <2>1. FilesSame /\ backups \subseteq backups'
        BY Untouched DEF published
    <2>2. thread[t] \in SharedStages
        OBVIOUS
    <2>3. /\ t \in shared /\ exclusive = Nobody /\ pc = "idle" /\ op = "none"
          /\ worker[WorkerOf[t]] = "up" /\ WorkerOf[t] \in Workers
        BY <2>2, Reading
    <2>4. MaintenanceTypeOK'
        BY WorkerAssumption, <2>3 DEF MInv, MaintenanceTypeOK, IInv, TypeOK, DiskTypeOK
    <2>5. LockInv'
        BY WorkerAssumption, <2>3 DEF MInv, LockInv, MaintenanceTypeOK
    <2>6. HolderInv'
        BY <2>1, WorkerAssumption, <2>3 DEF MInv, HolderInv, FilesSame, MaintenanceTypeOK
    <2>7. CacheInv'
        BY <2>1, SameFits, WorkerAssumption, <2>3 DEF MInv, CacheInv, FilesSame, MaintenanceTypeOK,
           Fits, IInv, TypeOK, DiskTypeOK
    <2>8. ThreadInv'
        BY <2>1, WorkerAssumption, <2>3 DEF MInv, ThreadInv, CacheInv, FilesSame,
           MaintenanceTypeOK, LockInv, Fits
    <2>9. FullBackupsFitTheirKeys'
        BY <2>1, <2>3 DEF MInv, FullBackupsFitTheirKeys, ThreadInv
    <2> QED
        BY <2>1, <2>4, <2>5, <2>6, <2>7, <2>8, <2>9, SameFilesStep DEF AccessInv
<1>3. CASE Refresh(t)
    <2> USE <1>3 DEF Refresh
    <2>1. FilesSame /\ backups \subseteq backups'
        BY Untouched DEF published
    <2>2. thread[t] \in SharedStages
        OBVIOUS
    <2>3. /\ t \in shared /\ exclusive = Nobody /\ pc = "idle" /\ op = "none"
          /\ worker[WorkerOf[t]] = "up" /\ WorkerOf[t] \in Workers
        BY <2>2, Reading
    <2>4. MaintenanceTypeOK'
        BY WorkerAssumption, <2>3 DEF MInv, MaintenanceTypeOK, IInv, TypeOK, DiskTypeOK
    <2>5. LockInv'
        BY WorkerAssumption, <2>3 DEF MInv, LockInv, MaintenanceTypeOK
    <2>6. HolderInv'
        BY <2>1, WorkerAssumption, <2>3 DEF MInv, HolderInv, FilesSame, MaintenanceTypeOK
    <2>7. CacheInv'
        BY <2>1, SameFits, WorkerAssumption, <2>3 DEF MInv, CacheInv, FilesSame, MaintenanceTypeOK,
           Fits, IInv, TypeOK, DiskTypeOK
    <2>8. ThreadInv'
        BY <2>1, WorkerAssumption, <2>3 DEF MInv, ThreadInv, CacheInv, FilesSame,
           MaintenanceTypeOK, LockInv, Fits
    <2>9. FullBackupsFitTheirKeys'
        BY <2>1, <2>3 DEF MInv, FullBackupsFitTheirKeys, ThreadInv
    <2> QED
        BY <2>1, <2>4, <2>5, <2>6, <2>7, <2>8, <2>9, SameFilesStep DEF AccessInv
<1>4. CASE MarkGeneration(t)
    <2> USE <1>4 DEF MarkGeneration
    <2>1. FilesSame /\ backups \subseteq backups'
        BY Untouched DEF published
    <2>2. thread[t] \in SharedStages
        OBVIOUS
    <2>3. /\ t \in shared /\ exclusive = Nobody /\ pc = "idle" /\ op = "none"
          /\ worker[WorkerOf[t]] = "up" /\ WorkerOf[t] \in Workers
        BY <2>2, Reading
    <2>a. Fits(WorkerOf[t])
        BY DEF MInv, ThreadInv
    <2>4. MaintenanceTypeOK'
        BY WorkerAssumption, <2>3, <2>a DEF MInv, MaintenanceTypeOK, IInv, TypeOK, DiskTypeOK
    <2>5. LockInv'
        BY WorkerAssumption, <2>3, <2>a DEF MInv, LockInv, MaintenanceTypeOK
    <2>6. HolderInv'
        BY <2>1, WorkerAssumption, <2>3, <2>a DEF MInv, HolderInv, FilesSame, MaintenanceTypeOK
    <2>7. CacheInv'
        BY <2>1, SameFits, WorkerAssumption, <2>3, <2>a DEF MInv, CacheInv, FilesSame,
           MaintenanceTypeOK, Fits, IInv, TypeOK, DiskTypeOK
    <2>8. ThreadInv'
        BY <2>1, WorkerAssumption, <2>3, <2>a DEF MInv, ThreadInv, CacheInv, FilesSame,
           MaintenanceTypeOK, LockInv, Fits
    <2>9. FullBackupsFitTheirKeys'
        BY <2>1, <2>3, <2>a DEF MInv, FullBackupsFitTheirKeys, ThreadInv
    <2> QED
        BY <2>1, <2>4, <2>5, <2>6, <2>7, <2>8, <2>9, SameFilesStep DEF AccessInv
<1>5. CASE CreateBackup(t)
    <2> USE <1>5 DEF CreateBackup
    <2>1. FilesSame /\ backups \subseteq backups'
        BY Untouched DEF published
    <2>2. thread[t] \in SharedStages
        OBVIOUS
    <2>3. /\ t \in shared /\ exclusive = Nobody /\ pc = "idle" /\ op = "none"
          /\ worker[WorkerOf[t]] = "up" /\ WorkerOf[t] \in Workers
        BY <2>2, Reading
    <2>a. LogicalDb \in Content
        BY ReadableDb
    <2>4. MaintenanceTypeOK'
        BY WorkerAssumption, <2>3, <2>a DEF MInv, MaintenanceTypeOK, IInv, TypeOK, DiskTypeOK
    <2>5. LockInv'
        BY WorkerAssumption, <2>3, <2>a DEF MInv, LockInv, MaintenanceTypeOK
    <2>6. HolderInv'
        BY <2>1, WorkerAssumption, <2>3, <2>a DEF MInv, HolderInv, FilesSame, MaintenanceTypeOK
    <2>7. CacheInv'
        BY <2>1, SameFits, WorkerAssumption, <2>3, <2>a DEF MInv, CacheInv, FilesSame,
           MaintenanceTypeOK, Fits, IInv, TypeOK, DiskTypeOK
    <2>8. ThreadInv'
        BY <2>1, WorkerAssumption, <2>3, <2>a DEF MInv, ThreadInv, CacheInv, FilesSame,
           MaintenanceTypeOK, LockInv, Fits
    <2>9. FullBackupsFitTheirKeys'
        BY <2>1, <2>3, <2>a DEF MInv, FullBackupsFitTheirKeys, ThreadInv
    <2> QED
        BY <2>1, <2>4, <2>5, <2>6, <2>7, <2>8, <2>9, SameFilesStep DEF AccessInv
<1>6. CASE DeleteBackup(t)
    <2> USE <1>6 DEF DeleteBackup
    <2>1. FilesSame
        BY Untouched
    <2>2. thread[t] \in SharedStages
        OBVIOUS
    <2>3. /\ t \in shared /\ exclusive = Nobody /\ pc = "idle" /\ op = "none"
          /\ worker[WorkerOf[t]] = "up" /\ WorkerOf[t] \in Workers
        BY <2>2, Reading
    <2>4. MaintenanceTypeOK'
        BY WorkerAssumption, <2>3 DEF MInv, MaintenanceTypeOK, IInv, TypeOK, DiskTypeOK
    <2>5. LockInv'
        BY WorkerAssumption, <2>3 DEF MInv, LockInv, MaintenanceTypeOK
    <2>6. HolderInv'
        BY <2>1, WorkerAssumption, <2>3 DEF MInv, HolderInv, FilesSame, MaintenanceTypeOK
    <2>7. CacheInv'
        BY <2>1, SameFits, WorkerAssumption, <2>3 DEF MInv, CacheInv, FilesSame, MaintenanceTypeOK,
           Fits, IInv, TypeOK, DiskTypeOK
    <2>8. ThreadInv'
        BY <2>1, WorkerAssumption, <2>3 DEF MInv, ThreadInv, CacheInv, FilesSame,
           MaintenanceTypeOK, LockInv, Fits
    <2>9. FullBackupsFitTheirKeys'
        BY <2>1, <2>3 DEF MInv, FullBackupsFitTheirKeys, ThreadInv
    <2>10. KeysInv' /\ BackupInv'
        BY <2>1, <2>3, SameFits DEF FilesSame, BackupInv
    <2> QED
        BY <2>1, <2>4, <2>5, <2>6, <2>7, <2>8, <2>9, <2>10 DEF MInv, FilesSame
<1>7. CASE BeginFullBackup(t)
    <2> USE <1>7 DEF BeginFullBackup
    <2>1. FilesSame /\ backups \subseteq backups'
        BY Untouched DEF published
    <2>2. thread[t] \in SharedStages
        OBVIOUS
    <2>3. /\ t \in shared /\ exclusive = Nobody /\ pc = "idle" /\ op = "none"
          /\ worker[WorkerOf[t]] = "up" /\ WorkerOf[t] \in Workers
        BY <2>2, Reading
    <2>a. ~manifest
        BY DEF MInv, ThreadInv
    <2>b. LogicalDb \in Content /\ live[Config] \in Content /\ KeyOf[live[Config]] = KeyOf[LogicalDb]
        BY <2>a, ServedFiles
    <2>4. MaintenanceTypeOK'
        BY WorkerAssumption, <2>3, NullAssumption, <2>b DEF MInv, MaintenanceTypeOK, IInv, TypeOK,
           DiskTypeOK
    <2>5. LockInv'
        BY WorkerAssumption, <2>3, NullAssumption, <2>b DEF MInv, LockInv, MaintenanceTypeOK
    <2>6. HolderInv'
        BY <2>1, WorkerAssumption, <2>3, NullAssumption, <2>b DEF MInv, HolderInv, FilesSame,
           MaintenanceTypeOK
    <2>7. CacheInv'
        BY <2>1, SameFits, WorkerAssumption, <2>3, NullAssumption, <2>b DEF MInv, CacheInv,
           FilesSame, MaintenanceTypeOK, Fits, IInv, TypeOK, DiskTypeOK
    <2>8. ThreadInv'
        BY <2>1, WorkerAssumption, <2>3, NullAssumption, <2>b DEF MInv, ThreadInv, CacheInv,
           FilesSame, MaintenanceTypeOK, LockInv, Fits
    <2>9. FullBackupsFitTheirKeys'
        BY <2>1, <2>3, NullAssumption, <2>b DEF MInv, FullBackupsFitTheirKeys, ThreadInv
    <2> QED
        BY <2>1, <2>4, <2>5, <2>6, <2>7, <2>8, <2>9, SameFilesStep DEF AccessInv
<1>8. CASE FinishFullBackup(t)
    <2> USE <1>8 DEF FinishFullBackup
    <2>1. FilesSame /\ backups \subseteq backups'
        BY Untouched DEF published
    <2>2. thread[t] \in SharedStages
        OBVIOUS
    <2>3. /\ t \in shared /\ exclusive = Nobody /\ pc = "idle" /\ op = "none"
          /\ worker[WorkerOf[t]] = "up" /\ WorkerOf[t] \in Workers
        BY <2>2, Reading
    <2>a. ~manifest
        BY DEF MInv, ThreadInv
    <2>b. LogicalDb \in Content /\ live[Config] \in Content /\ KeyOf[live[Config]] = KeyOf[LogicalDb]
        BY <2>a, ServedFiles
    <2>c. draft[t] \in Content /\ KeyOf[draft[t]] = KeyOf[live[Config]]
        BY DEF MInv, ThreadInv
    <2>4. MaintenanceTypeOK'
        BY WorkerAssumption, <2>3, <2>b, <2>c DEF MInv, MaintenanceTypeOK, IInv, TypeOK, DiskTypeOK
    <2>5. LockInv'
        BY WorkerAssumption, <2>3, <2>b, <2>c DEF MInv, LockInv, MaintenanceTypeOK
    <2>6. HolderInv'
        BY <2>1, WorkerAssumption, <2>3, <2>b, <2>c DEF MInv, HolderInv, FilesSame,
           MaintenanceTypeOK
    <2>7. CacheInv'
        BY <2>1, SameFits, WorkerAssumption, <2>3, <2>b, <2>c DEF MInv, CacheInv, FilesSame,
           MaintenanceTypeOK, Fits, IInv, TypeOK, DiskTypeOK
    <2>8. ThreadInv'
        BY <2>1, WorkerAssumption, <2>3, <2>b, <2>c DEF MInv, ThreadInv, CacheInv, FilesSame,
           MaintenanceTypeOK, LockInv, Fits
    <2>9. FullBackupsFitTheirKeys'
        BY <2>1, <2>3, <2>b, <2>c DEF MInv, FullBackupsFitTheirKeys, ThreadInv
    <2> QED
        BY <2>1, <2>4, <2>5, <2>6, <2>7, <2>8, <2>9, SameFilesStep DEF AccessInv
<1>9. CASE BeginRestore(t)
    <2> USE <1>9 DEF BeginRestore
    <2>1. FilesSame /\ backups \subseteq backups'
        BY Untouched DEF published
    <2>2. thread[t] \in SharedStages
        OBVIOUS
    <2>3. /\ t \in shared /\ exclusive = Nobody /\ pc = "idle" /\ op = "none"
          /\ worker[WorkerOf[t]] = "up" /\ WorkerOf[t] \in Workers
        BY <2>2, Reading
    <2>4. MaintenanceTypeOK'
        BY WorkerAssumption, <2>3 DEF MInv, MaintenanceTypeOK, IInv, TypeOK, DiskTypeOK
    <2>5. LockInv'
        BY WorkerAssumption, <2>3 DEF MInv, LockInv, MaintenanceTypeOK
    <2>6. HolderInv'
        BY <2>1, WorkerAssumption, <2>3 DEF MInv, HolderInv, FilesSame, MaintenanceTypeOK
    <2>7. CacheInv'
        BY <2>1, SameFits, WorkerAssumption, <2>3 DEF MInv, CacheInv, FilesSame, MaintenanceTypeOK,
           Fits, IInv, TypeOK, DiskTypeOK
    <2>8. ThreadInv'
        BY <2>1, WorkerAssumption, <2>3 DEF MInv, ThreadInv, CacheInv, FilesSame,
           MaintenanceTypeOK, LockInv, Fits
    <2>9. FullBackupsFitTheirKeys'
        BY <2>1, <2>3 DEF MInv, FullBackupsFitTheirKeys, ThreadInv
    <2> QED
        BY <2>1, <2>4, <2>5, <2>6, <2>7, <2>8, <2>9, SameFilesStep DEF AccessInv
<1> QED
    BY <1>1, <1>2, <1>3, <1>4, <1>5, <1>6, <1>7, <1>8, <1>9

\* A restore trades its lock, compares the generation, and gives the lock back.
LEMMA StepRestore ==
    ASSUME MInv, NEW t \in Threads, TryExclusive(t) \/ VerifyGeneration(t) \/ SafetyBackup(t)
           \/ RestoreRejected(t) \/ EndReplace(t) \/ Release(t) \/ Regain(t) \/ ReloadKeys(t)
    PROVE  MInv'
<1> USE DEF SharedStages, ExclusiveStages, RecoverStages, locks, caches, published, MoveThread,
        LockShared, LockExclusive, UnlockShared, UnlockExclusive
<1>1. CASE TryExclusive(t)
    <2> USE <1>1 DEF TryExclusive
    <2>1. FilesSame /\ backups \subseteq backups'
        BY Untouched DEF published
    <2>3. worker[WorkerOf[t]] = "up" /\ WorkerOf[t] \in Workers
        BY WorkerAssumption DEF MInv, LockInv
    <2>4. MaintenanceTypeOK'
        BY WorkerAssumption, <2>3 DEF MInv, MaintenanceTypeOK, IInv, TypeOK, DiskTypeOK
    <2>5. LockInv'
        BY WorkerAssumption, <2>3 DEF MInv, LockInv, MaintenanceTypeOK
    <2>6. HolderInv'
        BY <2>1, WorkerAssumption, <2>3 DEF MInv, HolderInv, FilesSame, MaintenanceTypeOK
    <2>7. CacheInv'
        BY <2>1, SameFits, WorkerAssumption, <2>3 DEF MInv, CacheInv, FilesSame, MaintenanceTypeOK,
           Fits, IInv, TypeOK, DiskTypeOK
    <2>8. ThreadInv'
        BY <2>1, WorkerAssumption, <2>3 DEF MInv, ThreadInv, CacheInv, FilesSame,
           MaintenanceTypeOK, LockInv, Fits
    <2>9. FullBackupsFitTheirKeys'
        BY <2>1, <2>3 DEF MInv, FullBackupsFitTheirKeys, ThreadInv
    <2> QED
        BY <2>1, <2>4, <2>5, <2>6, <2>7, <2>8, <2>9, SameFilesStep DEF AccessInv
<1>2. CASE VerifyGeneration(t)
    <2> USE <1>2 DEF VerifyGeneration
    <2>1. FilesSame /\ backups \subseteq backups'
        BY Untouched DEF published
    <2>2. thread[t] \in ExclusiveStages \ {"replacing"}
        OBVIOUS
    <2>3. /\ exclusive = t /\ shared = {} /\ pc = "idle" /\ op = "none"
          /\ worker[WorkerOf[t]] = "up" /\ WorkerOf[t] \in Workers
        BY <2>2, Restoring
    <2>4. MaintenanceTypeOK'
        BY WorkerAssumption, <2>3 DEF MInv, MaintenanceTypeOK, IInv, TypeOK, DiskTypeOK
    <2>5. LockInv'
        BY WorkerAssumption, <2>3 DEF MInv, LockInv, MaintenanceTypeOK
    <2>6. HolderInv'
        BY <2>1, WorkerAssumption, <2>3 DEF MInv, HolderInv, FilesSame, MaintenanceTypeOK
    <2>7. CacheInv'
        BY <2>1, SameFits, WorkerAssumption, <2>3 DEF MInv, CacheInv, FilesSame, MaintenanceTypeOK,
           Fits, IInv, TypeOK, DiskTypeOK
    <2>8. ThreadInv'
        BY <2>1, WorkerAssumption, <2>3 DEF MInv, ThreadInv, CacheInv, FilesSame,
           MaintenanceTypeOK, LockInv, Fits
    <2>9. FullBackupsFitTheirKeys'
        BY <2>1, <2>3 DEF MInv, FullBackupsFitTheirKeys, ThreadInv
    <2> QED
        BY <2>1, <2>4, <2>5, <2>6, <2>7, <2>8, <2>9, SameFilesStep DEF AccessInv
<1>3. CASE SafetyBackup(t)
    <2> USE <1>3 DEF SafetyBackup
    <2>1. FilesSame /\ backups \subseteq backups'
        BY Untouched DEF published
    <2>2. thread[t] \in ExclusiveStages \ {"replacing"}
        OBVIOUS
    <2>3. /\ exclusive = t /\ shared = {} /\ pc = "idle" /\ op = "none"
          /\ worker[WorkerOf[t]] = "up" /\ WorkerOf[t] \in Workers
        BY <2>2, Restoring
    <2>a. LogicalDb \in Content
        BY ReadableDb
    <2>4. MaintenanceTypeOK'
        BY WorkerAssumption, <2>3, <2>a DEF MInv, MaintenanceTypeOK, IInv, TypeOK, DiskTypeOK
    <2>5. LockInv'
        BY WorkerAssumption, <2>3, <2>a DEF MInv, LockInv, MaintenanceTypeOK
    <2>6. HolderInv'
        BY <2>1, WorkerAssumption, <2>3, <2>a DEF MInv, HolderInv, FilesSame, MaintenanceTypeOK
    <2>7. CacheInv'
        BY <2>1, SameFits, WorkerAssumption, <2>3, <2>a DEF MInv, CacheInv, FilesSame,
           MaintenanceTypeOK, Fits, IInv, TypeOK, DiskTypeOK
    <2>8. ThreadInv'
        BY <2>1, WorkerAssumption, <2>3, <2>a DEF MInv, ThreadInv, CacheInv, FilesSame,
           MaintenanceTypeOK, LockInv, Fits
    <2>9. FullBackupsFitTheirKeys'
        BY <2>1, <2>3, <2>a DEF MInv, FullBackupsFitTheirKeys, ThreadInv
    <2> QED
        BY <2>1, <2>4, <2>5, <2>6, <2>7, <2>8, <2>9, SameFilesStep DEF AccessInv
<1>4. CASE RestoreRejected(t)
    <2> USE <1>4 DEF RestoreRejected
    <2>1. FilesSame /\ backups \subseteq backups'
        BY Untouched DEF published
    <2>2. thread[t] \in ExclusiveStages \ {"replacing"}
        OBVIOUS
    <2>3. /\ exclusive = t /\ shared = {} /\ pc = "idle" /\ op = "none"
          /\ worker[WorkerOf[t]] = "up" /\ WorkerOf[t] \in Workers
        BY <2>2, Restoring
    <2>4. MaintenanceTypeOK'
        BY WorkerAssumption, <2>3 DEF MInv, MaintenanceTypeOK, IInv, TypeOK, DiskTypeOK
    <2>5. LockInv'
        BY WorkerAssumption, <2>3 DEF MInv, LockInv, MaintenanceTypeOK
    <2>6. HolderInv'
        BY <2>1, WorkerAssumption, <2>3 DEF MInv, HolderInv, FilesSame, MaintenanceTypeOK
    <2>7. CacheInv'
        BY <2>1, SameFits, WorkerAssumption, <2>3 DEF MInv, CacheInv, FilesSame, MaintenanceTypeOK,
           Fits, IInv, TypeOK, DiskTypeOK
    <2>8. ThreadInv'
        BY <2>1, WorkerAssumption, <2>3 DEF MInv, ThreadInv, CacheInv, FilesSame,
           MaintenanceTypeOK, LockInv, Fits
    <2>9. FullBackupsFitTheirKeys'
        BY <2>1, <2>3 DEF MInv, FullBackupsFitTheirKeys, ThreadInv
    <2> QED
        BY <2>1, <2>4, <2>5, <2>6, <2>7, <2>8, <2>9, SameFilesStep DEF AccessInv
<1>5. CASE EndReplace(t)
    <2> USE <1>5 DEF EndReplace
    <2>1. FilesSame /\ backups \subseteq backups'
        BY Untouched DEF published
    <2>3. worker[WorkerOf[t]] = "up" /\ WorkerOf[t] \in Workers
        BY WorkerAssumption DEF MInv, LockInv
    <2>4. MaintenanceTypeOK'
        BY WorkerAssumption, <2>3 DEF MInv, MaintenanceTypeOK, IInv, TypeOK, DiskTypeOK
    <2>5. LockInv'
        BY WorkerAssumption, <2>3 DEF MInv, LockInv, MaintenanceTypeOK
    <2>6. HolderInv'
        BY <2>1, WorkerAssumption, <2>3 DEF MInv, HolderInv, FilesSame, MaintenanceTypeOK
    <2>7. CacheInv'
        BY <2>1, SameFits, WorkerAssumption, <2>3 DEF MInv, CacheInv, FilesSame, MaintenanceTypeOK,
           Fits, IInv, TypeOK, DiskTypeOK
    <2>8. ThreadInv'
        BY <2>1, WorkerAssumption, <2>3 DEF MInv, ThreadInv, CacheInv, FilesSame,
           MaintenanceTypeOK, LockInv, Fits
    <2>9. FullBackupsFitTheirKeys'
        BY <2>1, <2>3 DEF MInv, FullBackupsFitTheirKeys, ThreadInv
    <2> QED
        BY <2>1, <2>4, <2>5, <2>6, <2>7, <2>8, <2>9, SameFilesStep DEF AccessInv
<1>6. CASE Release(t)
    <2> USE <1>6 DEF Release
    <2>1. FilesSame /\ backups \subseteq backups'
        BY Untouched DEF published
    <2>2. thread[t] \in ExclusiveStages \ {"replacing"}
        OBVIOUS
    <2>3. /\ exclusive = t /\ shared = {} /\ pc = "idle" /\ op = "none"
          /\ worker[WorkerOf[t]] = "up" /\ WorkerOf[t] \in Workers
        BY <2>2, Restoring
    <2>4. MaintenanceTypeOK'
        BY WorkerAssumption, <2>3 DEF MInv, MaintenanceTypeOK, IInv, TypeOK, DiskTypeOK
    <2>5. LockInv'
        BY WorkerAssumption, <2>3 DEF MInv, LockInv, MaintenanceTypeOK
    <2>6. HolderInv'
        BY <2>1, WorkerAssumption, <2>3 DEF MInv, HolderInv, FilesSame, MaintenanceTypeOK
    <2>7. CacheInv'
        BY <2>1, SameFits, WorkerAssumption, <2>3 DEF MInv, CacheInv, FilesSame, MaintenanceTypeOK,
           Fits, IInv, TypeOK, DiskTypeOK
    <2>8. ThreadInv'
        BY <2>1, WorkerAssumption, <2>3 DEF MInv, ThreadInv, CacheInv, FilesSame,
           MaintenanceTypeOK, LockInv, Fits
    <2>9. FullBackupsFitTheirKeys'
        BY <2>1, <2>3 DEF MInv, FullBackupsFitTheirKeys, ThreadInv
    <2> QED
        BY <2>1, <2>4, <2>5, <2>6, <2>7, <2>8, <2>9, SameFilesStep DEF AccessInv
<1>7. CASE Regain(t)
    <2> USE <1>7 DEF Regain
    <2>1. FilesSame /\ backups \subseteq backups'
        BY Untouched DEF published
    <2>3. worker[WorkerOf[t]] = "up" /\ WorkerOf[t] \in Workers
        BY WorkerAssumption DEF MInv, LockInv
    <2>4. MaintenanceTypeOK'
        BY WorkerAssumption, <2>3 DEF MInv, MaintenanceTypeOK, IInv, TypeOK, DiskTypeOK
    <2>5. LockInv'
        BY WorkerAssumption, <2>3 DEF MInv, LockInv, MaintenanceTypeOK
    <2>6. HolderInv'
        BY <2>1, WorkerAssumption, <2>3 DEF MInv, HolderInv, FilesSame, MaintenanceTypeOK
    <2>7. CacheInv'
        BY <2>1, SameFits, WorkerAssumption, <2>3 DEF MInv, CacheInv, FilesSame, MaintenanceTypeOK,
           Fits, IInv, TypeOK, DiskTypeOK
    <2>8. ThreadInv'
        BY <2>1, WorkerAssumption, <2>3 DEF MInv, ThreadInv, CacheInv, FilesSame,
           MaintenanceTypeOK, LockInv, Fits
    <2>9. FullBackupsFitTheirKeys'
        BY <2>1, <2>3 DEF MInv, FullBackupsFitTheirKeys, ThreadInv
    <2> QED
        BY <2>1, <2>4, <2>5, <2>6, <2>7, <2>8, <2>9, SameFilesStep DEF AccessInv
<1>8. CASE ReloadKeys(t)
    <2> USE <1>8 DEF ReloadKeys
    <2>1. FilesSame /\ backups \subseteq backups'
        BY Untouched DEF published
    <2>3. worker[WorkerOf[t]] = "up" /\ WorkerOf[t] \in Workers
        BY WorkerAssumption DEF MInv, LockInv
    <2>a. pc = "idle"
        BY Reading, Restoring
    <2>4. MaintenanceTypeOK'
        BY WorkerAssumption, <2>3, <2>a DEF MInv, MaintenanceTypeOK, IInv, TypeOK, DiskTypeOK
    <2>5. LockInv'
        BY WorkerAssumption, <2>3, <2>a DEF MInv, LockInv, MaintenanceTypeOK
    <2>6. HolderInv'
        BY <2>1, WorkerAssumption, <2>3, <2>a DEF MInv, HolderInv, FilesSame, MaintenanceTypeOK
    <2>7. CacheInv'
        BY <2>1, SameFits, WorkerAssumption, <2>3, <2>a DEF MInv, CacheInv, FilesSame,
           MaintenanceTypeOK, Fits, IInv, TypeOK, DiskTypeOK
    <2>8. ThreadInv'
        BY <2>1, WorkerAssumption, <2>3, <2>a DEF MInv, ThreadInv, CacheInv, FilesSame,
           MaintenanceTypeOK, LockInv, Fits
    <2>9. FullBackupsFitTheirKeys'
        BY <2>1, <2>3, <2>a DEF MInv, FullBackupsFitTheirKeys, ThreadInv
    <2> QED
        BY <2>1, <2>4, <2>5, <2>6, <2>7, <2>8, <2>9, SameFilesStep DEF AccessInv
<1> QED
    BY <1>1, <1>2, <1>3, <1>4, <1>5, <1>6, <1>7, <1>8
-----------------------------------------------------------------------------
(* Steps that change the files                                              *)

\* A step of replace_files or of recovery, and what it leaves of the caches:
\* a worker that has the present generation afterwards had it before, and the
\* files it read are still there unless the exchange is unfinished.
LEMMA CallChange ==
    ASSUME MInv, CallStep, InodeStep
    PROVE  /\ IInv' /\ WalInv' /\ KeysInv' /\ (backups' = backups => BackupInv')
           /\ pc # "idle" /\ inode' \in Nat /\ generation \in Nat /\ generation' \in Nat
           /\ generation <= generation'
           /\ \A w \in Workers : worker[w] = "up" =>
                  /\ cachedGen[w] = generation' =>
                         cachedGen[w] = generation /\ pc' \notin {"commit", "undo_commit"}
                  /\ cachedGen[w] = generation' /\ ~Dirty' =>
                         Fits(w) /\ live' = live /\ inode' = inode
<1>1. IInv /\ IInv' /\ WalInv'
    <2>1. [Next]_vars
        BY DEF CallStep, Next
    <2> QED
        BY <2>1, StepIInv, StepWalInv DEF MInv
<1>2. CallPhases
    BY <1>1, CallMovesOn
<1>3. EffectiveKept \/ Commits
    BY <1>1, CallEffective
<1>4. \A f \in Files : Commits => Effective(f)' = IF repl[f] = Keep THEN Effective(f) ELSE repl[f]
    BY DEF Commits
<1>5. \A f \in Files : EffectiveKept => Effective(f)' = Effective(f)
    <2> SUFFICES ASSUME NEW f \in Files, EffectiveKept PROVE Effective(f)' = Effective(f)
        OBVIOUS
    <2>1. [g \in Files |-> Effective(g)'][f] = [g \in Files |-> Effective(g)][f]
        BY DEF EffectiveKept
    <2> QED
        BY <2>1
<1>6. Db \in Files /\ Config \in Files
    BY DbAssumption, WorkerAssumption
<1>7. KeysInv' /\ (backups' = backups => BackupInv')
    <2>1. CASE Commits
        <3>1. repl \in Replacement
            BY <1>1, <2>1 DEF IInv, PhaseInv, Commits
        <3>2. /\ Effective(Db)' = repl[Db]
              /\ Effective(Config)' = IF repl[Config] = Keep THEN Effective(Config) ELSE repl[Config]
            BY <1>4, <1>6, <2>1, <3>1 DEF Replacement
        <3>3. Effective(Config)' \in Content
            BY <1>6, <3>1, <3>2 DEF Replacement, MInv, KeysInv
        <3>4. KeyOf[Effective(Config)'] = KeyOf[Effective(Db)']
            BY <2>1, <3>2 DEF Commits, MInv, KeysInv
        <3>5. committed'
            BY <2>1 DEF Commits
        <3> QED
            BY <3>3, <3>4, <3>5 DEF KeysInv, BackupInv
    <2>2. CASE EffectiveKept
        <3>1. Effective(Db)' = Effective(Db) /\ Effective(Config)' = Effective(Config)
            BY <1>5, <1>6, <2>2
        <3>2. op' = "replace" /\ ~committed' => op = "replace" /\ ~committed /\ repl' = repl
            BY <1>2 DEF CallPhases
        <3> QED
            BY <3>1, <3>2 DEF MInv, KeysInv, BackupInv
    <2> QED
        BY <1>3, <2>1, <2>2
<1>8. generation \in Nat /\ generation' \in {generation, generation + 1} /\ pc # "idle"
    BY <1>1, <1>2 DEF IInv, TypeOK, DiskTypeOK, CallPhases
<1>9. inode' \in Nat /\ (inode' = inode \/ pc \in {"install", "undo"})
    BY DEF InodeStep, MInv, MaintenanceTypeOK
<1>10. ASSUME NEW w \in Workers, worker[w] = "up", cachedGen[w] = generation'
       PROVE  cachedGen[w] = generation /\ pc \notin {"commit", "undo_commit"} /\ pc' \notin {"commit", "undo_commit"}
    <2>1. cachedGen[w] \in Nat /\ cachedGen[w] <= generation
        BY <1>10 DEF MInv, CacheInv
    <2>2. cachedGen[w] = generation /\ generation' = generation
        BY <1>8, <1>10, <2>1
    <2> QED
        BY <1>2, <1>8, <1>10, <2>2 DEF MInv, CacheInv, CallPhases
<1>11. ASSUME NEW w \in Workers, worker[w] = "up", cachedGen[w] = generation', ~Dirty'
       PROVE  Fits(w) /\ live' = live /\ inode' = inode
    <2>1. cachedGen[w] = generation /\ pc \notin {"commit", "undo_commit"}
        BY <1>10, <1>11
    <2>2. ~Dirty /\ live' = live
        BY <1>2, <1>11, <2>1 DEF CallPhases
    <2>3. inode' = inode
        BY <1>9, <2>2 DEF Dirty, PreparedPhases, UndoPhases
    <2> QED
        BY <1>11, <2>1, <2>2, <2>3 DEF MInv, CacheInv
<1> QED
    BY <1>1, <1>7, <1>8, <1>9, <1>10, <1>11

\* A step of the call under the exclusive lock.
LEMMA StepFile ==
    ASSUME MInv, FileStep
    PROVE  MInv'
<1>1. CallStep /\ InodeStep
    BY DEF FileStep, CallStep, Failure
<1>2. /\ IInv' /\ WalInv' /\ KeysInv' /\ (backups' = backups => BackupInv')
      /\ pc # "idle" /\ inode' \in Nat /\ generation \in Nat /\ generation' \in Nat
      /\ generation <= generation'
    BY <1>1, CallChange
<1>3. \A w \in Workers : worker[w] = "up" =>
          /\ cachedGen[w] = generation' =>
                 cachedGen[w] = generation /\ pc' \notin {"commit", "undo_commit"}
          /\ cachedGen[w] = generation' /\ ~Dirty' =>
                 Fits(w) /\ live' = live /\ inode' = inode
    BY <1>1, CallChange
<1>4. UNCHANGED <<locks, thread, seen, worker, caches, published>>
    BY DEF FileStep
<1>5. \A t \in Threads : thread[t] \notin SharedStages \cup (ExclusiveStages \ {"replacing"})
    BY <1>2, Reading, Restoring
<1>6. MaintenanceTypeOK'
    BY <1>2, <1>4 DEF locks, caches, published, MInv, MaintenanceTypeOK
<1>7. LockInv' /\ HolderInv'
    BY <1>2, <1>4 DEF locks, MInv, LockInv, HolderInv
<1>8. CacheInv'
    BY <1>2, <1>3, <1>4 DEF caches, MInv, CacheInv, Fits
<1>9. ThreadInv'
    <2> SUFFICES ASSUME NEW t \in Threads, thread[t] = "gap"
                 PROVE  (seen[t] \in Nat /\ seen[t] <= generation /\ (seen[t] = generation => cachedGen[WorkerOf[t]] = generation))'
        BY <1>4, <1>5 DEF ThreadInv, SharedStages, ExclusiveStages
    <2>1. seen[t] \in Nat /\ seen[t] <= generation /\ (seen[t] = generation => cachedGen[WorkerOf[t]] = generation)
        BY DEF MInv, ThreadInv
    <2> QED
        BY <1>2, <1>4, <2>1 DEF caches
<1>10. FullBackupsFitTheirKeys' /\ backups' = backups
    BY <1>4 DEF published, MInv, FullBackupsFitTheirKeys
<1> QED
    BY <1>2, <1>6, <1>7, <1>8, <1>9, <1>10 DEF MInv
\* A worker is killed at any moment, in the middle of a restore or not: its
\* threads and locks are gone, and what the others remember stays true.
LEMMA StepKill ==
    ASSUME MInv, NEW w \in Workers, Kill(w)
    PROVE  MInv'
<1> DEFINE gone == ThreadsOf(w)
<1>1. \A t \in Threads : t \in gone <=> WorkerOf[t] = w
    BY DEF ThreadsOf
<1>2. /\ worker' = [worker EXCEPT ![w] = "down"]
      /\ thread' = [t \in Threads |-> IF WorkerOf[t] = w THEN "idle" ELSE thread[t]]
      /\ seen' = [t \in Threads |-> IF WorkerOf[t] = w THEN NoGeneration ELSE seen[t]]
      /\ draft' = [t \in Threads |-> IF WorkerOf[t] = w THEN Absent ELSE draft[t]]
      /\ shared' = shared \ gone
      /\ exclusive' = IF exclusive \in gone \cup {w} THEN Nobody ELSE exclusive
      /\ cachedKey' = [cachedKey EXCEPT ![w] = NoKey]
      /\ cachedGen' = [cachedGen EXCEPT ![w] = NoGeneration]
      /\ pool' = [pool EXCEPT ![w] = NoPool]
      /\ backups' = backups /\ archives' = archives
      /\ InodeStep
    BY <1>1 DEF Kill, MoveWorker
<1>3. \/ pc # "idle" /\ exclusive \in gone \cup {w} /\ Crash
      \/ (pc = "idle" \/ exclusive \notin gone \cup {w}) /\ Fault /\ UNCHANGED <<disk, memory>>
    BY DEF Kill
<1>4. \A u \in Workers : worker'[u] = "up" => u # w /\ worker[u] = "up"
    BY <1>2 DEF MInv, MaintenanceTypeOK
<1> HIDE DEF gone
<1>5. LockInv'
    <2>1. \A t \in Threads : thread'[t] \in SharedStages <=> t \in shared'
        BY <1>1, <1>2 DEF MInv, LockInv, SharedStages
    <2>2. \A t \in Threads : thread'[t] \in ExclusiveStages <=> exclusive' = t
        BY <1>1, <1>2, WorkerAssumption DEF MInv, LockInv, ExclusiveStages
    <2>3. \A u \in Workers : worker'[u] \in RecoverStages <=> exclusive' = u
        BY <1>1, <1>2, WorkerAssumption DEF MInv, LockInv, MaintenanceTypeOK, RecoverStages,
           ThreadsOf, gone
    <2>4. exclusive' # Nobody => shared' = {}
        BY <1>2 DEF MInv, LockInv
    <2>5. \A t \in Threads : thread'[t] # "idle" => worker'[WorkerOf[t]] = "up"
        BY <1>2, WorkerAssumption DEF MInv, LockInv, MaintenanceTypeOK
    <2> QED
        BY <2>1, <2>2, <2>3, <2>4, <2>5 DEF LockInv
<1>6. CASE pc # "idle" /\ exclusive \in gone \cup {w} /\ Crash
    <2>1. CallStep
        BY <1>6 DEF CallStep, Failure
    <2>2. /\ IInv' /\ WalInv' /\ KeysInv' /\ BackupInv'
          /\ inode' \in Nat /\ generation \in Nat /\ generation' \in Nat /\ generation <= generation'
        BY <1>2, <2>1, CallChange
    <2>3. \A u \in Workers : worker[u] = "up" =>
              /\ cachedGen[u] = generation' =>
                     cachedGen[u] = generation /\ pc' \notin {"commit", "undo_commit"}
              /\ cachedGen[u] = generation' /\ ~Dirty' =>
                     Fits(u) /\ live' = live /\ inode' = inode
        BY <1>2, <2>1, CallChange
    <2>4. \A t \in Threads : thread[t] \notin SharedStages \cup (ExclusiveStages \ {"replacing"})
        BY <1>6, Reading, Restoring
    <2>5. MaintenanceTypeOK'
        BY <1>2, <2>2, WorkerAssumption DEF MInv, MaintenanceTypeOK
    <2>6. HolderInv'
        BY <1>6 DEF Crash, HolderInv
    <2>7. CacheInv'
        BY <1>2, <1>4, <2>2, <2>3 DEF MInv, CacheInv, Fits, MaintenanceTypeOK
    <2>8. ThreadInv'
        <3>1. \A t \in Threads : thread'[t] \in {"idle", "gap", "regain", "replacing"}
            BY <1>2, <2>4 DEF MInv, MaintenanceTypeOK, SharedStages, ExclusiveStages
        <3> SUFFICES ASSUME NEW t \in Threads, thread'[t] = "gap"
                     PROVE  (seen[t] \in Nat /\ seen[t] <= generation /\ (seen[t] = generation => cachedGen[WorkerOf[t]] = generation))'
            BY <3>1 DEF ThreadInv
        <3>2. WorkerOf[t] # w /\ thread[t] = "gap"
            BY <1>2
        <3>3. seen[t] \in Nat /\ seen[t] <= generation /\ (seen[t] = generation => cachedGen[WorkerOf[t]] = generation)
            BY <3>2 DEF MInv, ThreadInv
        <3> QED
            BY <1>2, <2>2, <3>2, <3>3, WorkerAssumption DEF MInv, MaintenanceTypeOK
    <2>9. FullBackupsFitTheirKeys'
        BY <1>2 DEF MInv, FullBackupsFitTheirKeys
    <2> QED
        BY <1>5, <2>2, <2>5, <2>6, <2>7, <2>8, <2>9 DEF MInv
<1>7. CASE (pc = "idle" \/ exclusive \notin gone \cup {w}) /\ Fault /\ UNCHANGED <<disk, memory>>
    <2>1. FilesSame
        BY <1>7, Untouched
    <2>2. inode' = inode
        BY <1>2, <1>7 DEF InodeStep, memory
    <2>3. MaintenanceTypeOK'
        BY <1>2, <2>2, WorkerAssumption DEF MInv, MaintenanceTypeOK
    <2>4. HolderInv'
        <3> SUFFICES ASSUME pc # "idle" PROVE HolderInv'
            BY <2>1 DEF FilesSame, HolderInv
        <3>1. exclusive \notin gone \cup {w} /\ exclusive' = exclusive
            BY <1>2, <1>7
        <3>2. CASE \E t \in Threads : exclusive = t /\ thread[t] = "replacing"
            BY <1>1, <1>2, <3>1, <3>2 DEF HolderInv
        <3>3. CASE \E u \in Workers : exclusive = u /\ worker[u] \in {"config_undo", "create_undo"}
            BY <1>2, <3>1, <3>3 DEF HolderInv, MInv, MaintenanceTypeOK
        <3> QED
            BY <3>2, <3>3 DEF MInv, HolderInv
    <2>5. CacheInv'
        BY <1>2, <1>4, <2>1, <2>2, SameFits DEF MInv, CacheInv, Fits, MaintenanceTypeOK, FilesSame
    <2>6. ThreadInv'
        BY <1>2, <2>1, <2>2, WorkerAssumption DEF MInv, ThreadInv, MaintenanceTypeOK, FilesSame,
           Fits
    <2>7. FullBackupsFitTheirKeys' /\ backups \subseteq backups'
        BY <1>2 DEF MInv, FullBackupsFitTheirKeys
    <2> QED
        BY <1>5, <2>1, <2>3, <2>4, <2>5, <2>6, <2>7, SameFilesStep DEF AccessInv
<1> QED
    BY <1>3, <1>6, <1>7

\* A starting worker looks for a journal and begins to roll it back.
LEMMA StepRecover ==
    ASSUME MInv, NEW w \in Workers, BootRecover(w)
    PROVE  MInv'
<1> USE DEF BootRecover, MoveWorker, Startup, disk, bounds
<1>1. IInv' /\ WalInv'
    <2>1. [Next]_vars
        BY DEF Next
    <2> QED
        BY <2>1, StepIInv, StepWalInv DEF MInv
<1>2. worker[w] \in RecoverStages
    BY DEF RecoverStages
<1>3. /\ exclusive = w /\ shared = {}
      /\ \A t \in Threads : thread[t] \notin SharedStages \cup ExclusiveStages
      /\ \A t \in Threads : WorkerOf[t] = w => thread[t] = "idle"
    BY <1>2, Recovering
<1>4. Effective(Db)' = Effective(Db) /\ Effective(Config)' = Effective(Config) /\ op' = "startup"
    BY DEF Effective, Logical, LogicalDb
<1>5. Dirty' = Dirty
    BY DEF Dirty, PreparedPhases, UndoPhases
<1>6. MaintenanceTypeOK'
    BY DEF MInv, MaintenanceTypeOK, locks, caches, published, Booting
<1>7. LockInv'
    BY <1>2, <1>3 DEF MInv, LockInv, locks, RecoverStages, MaintenanceTypeOK
<1>8. HolderInv'
    BY <1>3 DEF HolderInv, locks, MInv, MaintenanceTypeOK
<1>9. CacheInv'
    BY <1>5 DEF MInv, CacheInv, Fits, caches, MaintenanceTypeOK
<1>10. ThreadInv'
    BY <1>3 DEF MInv, ThreadInv, SharedStages, ExclusiveStages, caches
<1>11. KeysInv' /\ BackupInv'
    BY <1>4 DEF MInv, KeysInv, BackupInv
<1>12. FullBackupsFitTheirKeys'
    BY DEF MInv, FullBackupsFitTheirKeys, published
<1> QED
    BY <1>1, <1>6, <1>7, <1>8, <1>9, <1>10, <1>11, <1>12 DEF MInv

\* replace_files begins, or refuses because a journal is there.
LEMMA StepStartReplace ==
    ASSUME MInv, NEW t \in Threads, StartReplace(t)
    PROVE  MInv'
<1> USE DEF StartReplace, MoveThread
<1>1. thread[t] \in ExclusiveStages \ {"replacing"}
    BY DEF ExclusiveStages
<1>2. /\ exclusive = t /\ shared = {} /\ pc = "idle" /\ op = "none"
      /\ worker[WorkerOf[t]] = "up" /\ WorkerOf[t] \in Workers
    BY <1>1, Restoring
<1>3. \A u \in Threads : thread[u] \notin SharedStages \cup ExclusiveStages \/ u = t
    BY <1>2 DEF MInv, LockInv
<1>4. cachedGen[WorkerOf[t]] = generation /\ LogicalDb \in backups
    BY DEF MInv, ThreadInv
<1>5. UNCHANGED <<live, wal, generation, manifest, record, copy>>
    BY DEF Replace, Refuse, disk
<1>6. IInv' /\ WalInv'
    <2>1. [Next]_vars
        BY DEF Next, Requests
    <2> QED
        BY <2>1, StepIInv, StepWalInv DEF MInv
<1>7. /\ Effective(Db)' = Effective(Db) /\ Effective(Config)' = Effective(Config)
      /\ LogicalDb' = LogicalDb
    BY <1>5 DEF Effective, Logical, LogicalDb
<1>8. MaintenanceTypeOK' /\ LockInv'
    BY <1>2 DEF MInv, MaintenanceTypeOK, LockInv, SharedStages, ExclusiveStages, locks, published
<1>9. HolderInv'
    BY <1>2 DEF HolderInv, locks, MInv, MaintenanceTypeOK
<1>10. ThreadInv'
    BY <1>3, <1>5 DEF MInv, MaintenanceTypeOK, ThreadInv, SharedStages, ExclusiveStages, Fits,
       published
<1>11. FullBackupsFitTheirKeys' /\ backups' = backups
    BY DEF MInv, FullBackupsFitTheirKeys, published
<1>12. ASSUME NEW r \in Replacement, Validated(t, r), Replace(r) PROVE MInv'
    <2>1. ~manifest /\ pc' = "save" /\ op' = "replace" /\ repl' = r /\ ~committed'
        BY <1>12 DEF Replace, MInv, IInv, PhaseInv
    <2>2. ~Dirty /\ ~Dirty'
        BY <1>2, <1>5, <2>1 DEF Dirty, PreparedPhases, UndoPhases
    <2>3. CacheInv'
        BY <1>5, <2>1, <2>2 DEF MInv, CacheInv, Fits, MaintenanceTypeOK
    <2>4. Fits(WorkerOf[t])
        BY <1>2, <1>4, <2>1, CurrentCache
    <2>5. Effective(Config) = live[Config] /\ Effective(Db) = LogicalDb
        BY <2>1, ServedFiles
    <2>6. KeysInv'
        BY <1>7, <1>12, <2>1, <2>4, <2>5 DEF MInv, KeysInv, Fits, Validated
    <2>7. BackupInv'
        BY <1>4, <1>7, <1>11, <2>5 DEF BackupInv
    <2> QED
        BY <1>6, <1>8, <1>9, <1>10, <1>11, <2>3, <2>6, <2>7 DEF MInv
<1>13. ASSUME Refuse PROVE MInv'
    <2>1. FilesSame
        BY <1>6, <1>7, <1>13 DEF Refuse, FilesSame, disk
    <2>2. CacheInv'
        BY <2>1, SameFits DEF MInv, CacheInv, Fits, MaintenanceTypeOK, FilesSame
    <2> QED
        BY <1>8, <1>9, <1>10, <1>11, <2>1, <2>2, SameFilesStep DEF AccessInv
<1> QED
    BY <1>12, <1>13

\* A request writes, or SQLite moves the WAL into the main file.
LEMMA StepServe ==
    ASSUME MInv,
           \/ \E t \in Threads, c \in Content : ServeWrite(t, c)
           \/ Checkpoint /\ UNCHANGED mvars
    PROVE  MInv'
<1>1. UNCHANGED mvars
    BY DEF ServeWrite
<1>2. PICK c \in Content :
          /\ WriteDb(c) \/ WriteWal(c) \/ (Checkpoint /\ c = LogicalDb)
          /\ (\E t \in Threads : thread[t] = "serve" /\ KeyOf[c] = cachedKey[WorkerOf[t]]) \/ c = LogicalDb
    BY ReadableDb DEF ServeWrite
<1>3. /\ IInv' /\ WalInv' /\ LogicalDb' = c
      /\ pc = "idle" /\ ~manifest /\ op = "none"
      /\ UNCHANGED <<pc, op, manifest, generation>> /\ live'[Config] = live[Config]
      /\ Effective(Db)' = c /\ Effective(Config)' = live[Config]
    BY <1>2, ServedChange
<1>4. KeyOf[c] = KeyOf[live[Config]] /\ live[Config] \in Content
    <2>1. KeyOf[live[Config]] = KeyOf[LogicalDb] /\ live[Config] \in Content
        BY <1>3, ServedFiles
    <2>2. ASSUME NEW t \in Threads, thread[t] = "serve" PROVE cachedKey[WorkerOf[t]] = KeyOf[live[Config]]
        <3>1. worker[WorkerOf[t]] = "up" /\ cachedGen[WorkerOf[t]] = generation
            BY <2>2 DEF MInv, LockInv, ThreadInv
        <3> QED
            BY <1>3, <3>1, CurrentCache DEF Fits
    <2> QED
        BY <1>2, <2>1, <2>2
<1>5. KeysInv' /\ BackupInv'
    BY <1>3, <1>4 DEF KeysInv, BackupInv
<1>6. Dirty' = Dirty
    BY <1>3 DEF Dirty
<1>7. MaintenanceTypeOK' /\ LockInv' /\ FullBackupsFitTheirKeys'
    BY <1>1 DEF mvars, locks, caches, published, MInv, MaintenanceTypeOK, LockInv,
       FullBackupsFitTheirKeys
<1>8. HolderInv'
    BY <1>3 DEF HolderInv
<1>9. CacheInv'
    BY <1>1, <1>3, <1>6 DEF mvars, caches, MInv, CacheInv, Fits
<1>10. ThreadInv'
    <2>1. ASSUME NEW t \in Threads, thread[t] = "replace" PROVE c \in backups
        <3>1. exclusive = t /\ t # Nobody
            BY <2>1, WorkerAssumption DEF MInv, LockInv, ExclusiveStages
        <3>2. \A u \in Threads : thread[u] # "serve"
            BY <3>1, Reading DEF SharedStages
        <3> QED
            BY <1>2, <2>1, <3>2 DEF MInv, ThreadInv
    <2> QED
        BY <1>1, <1>3, <2>1 DEF mvars, caches, published, MInv, ThreadInv, Fits
<1> QED
    BY <1>3, <1>5, <1>7, <1>8, <1>9, <1>10 DEF MInv

-----------------------------------------------------------------------------
(* Theorems                                                                 *)

\* A fresh data directory, all workers down.
LEMMA InitMInv == MaintenanceInit => MInv
<1> SUFFICES ASSUME MaintenanceInit PROVE MInv
    OBVIOUS
<1>1. IInv
    BY InitIInv DEF MaintenanceInit
<1>2. /\ pc = "idle" /\ op = "none" /\ ~manifest /\ wal = NoWal
      /\ live[Config] \in Content /\ KeyOf[live[Config]] = KeyOf[live[Db]]
    BY DEF MaintenanceInit, Init
<1>3. Effective(Config) = live[Config] /\ Effective(Db) = live[Db]
    BY <1>2, WorkerAssumption DEF Effective, Logical, LogicalDb
<1>4. MaintenanceTypeOK
    BY WorkerAssumption DEF MaintenanceInit, MaintenanceTypeOK, Booting
<1>5. WalInv /\ KeysInv /\ BackupInv /\ HolderInv
    BY <1>2, <1>3 DEF WalInv, KeysInv, BackupInv, HolderInv
<1>6. LockInv
    BY WorkerAssumption DEF MaintenanceInit, LockInv, SharedStages, ExclusiveStages, RecoverStages
<1>7. CacheInv /\ ThreadInv /\ FullBackupsFitTheirKeys
    BY DEF MaintenanceInit, CacheInv, ThreadInv, FullBackupsFitTheirKeys
<1> QED
    BY <1>1, <1>4, <1>5, <1>6, <1>7 DEF MInv

\* Every step of workers, threads and files keeps MInv.
LEMMA StepMInv == MInv /\ [MaintenanceNext]_allVars => MInv'
<1> SUFFICES ASSUME MInv, [MaintenanceNext]_allVars PROVE MInv'
    OBVIOUS
<1>1. ASSUME NEW w \in Workers, BootStep(w) \/ BootLock(w) \/ Kill(w) PROVE MInv'
    BY <1>1, StepBoot, StepRecover, StepKill DEF BootStep
<1>2. ASSUME NEW t \in Threads, ThreadStep(t) \/ Admit(t) \/ BeginRestore(t) PROVE MInv'
    BY <1>2, StepRequest, StepRestore, StepStartReplace DEF ThreadStep
<1>3. ASSUME NEW t \in Threads, CreateBackup(t) \/ DeleteBackup(t) \/ BeginFullBackup(t) PROVE MInv'
    BY <1>3, StepRequest
<1>4. CASE UNCHANGED allVars
    <2>1. UNCHANGED vars /\ UNCHANGED mvars
        BY <1>4 DEF allVars
    <2>2. FilesSame
        BY <2>1, Untouched
    <2>3. MaintenanceTypeOK' /\ LockInv' /\ FullBackupsFitTheirKeys' /\ backups \subseteq backups'
        BY <2>1 DEF mvars, locks, caches, published, MInv, MaintenanceTypeOK, LockInv,
           FullBackupsFitTheirKeys
    <2>4. HolderInv'
        BY <2>1, <2>2 DEF mvars, locks, FilesSame, MInv, HolderInv
    <2>5. CacheInv' /\ ThreadInv'
        BY <2>1, <2>2, SameFits DEF mvars, caches, published, MInv, CacheInv, ThreadInv, Fits,
           FilesSame
    <2> QED
        BY <2>2, <2>3, <2>4, <2>5, SameFilesStep DEF AccessInv
<1> QED
    BY <1>1, <1>2, <1>3, <1>4, StepServe, StepFile DEF MaintenanceNext

\* What a step of the composition is for the files: a step of RestoreFiles, or
\* none, or a failure that leaves them alone.
LEMMA FilesView ==
    ASSUME [MaintenanceNext]_allVars
    PROVE  \/ CallStep \/ Startup \/ Requests
           \/ UNCHANGED vars
           \/ Fault /\ UNCHANGED <<disk, memory>>
<1>1. ASSUME NEW w \in Workers, BootStep(w) \/ BootLock(w)
      PROVE  Startup \/ UNCHANGED vars \/ (Fault /\ UNCHANGED <<disk, memory>>)
    BY <1>1 DEF BootStep, Spawn, BootLock, BootRecover, ConfigLoaded, AppCreated, BootFails
<1>2. ASSUME NEW w \in Workers, Kill(w)
      PROVE  CallStep \/ (Fault /\ UNCHANGED <<disk, memory>>)
    BY <1>2 DEF Kill, CallStep, Failure
<1>3. ASSUME NEW t \in Threads, ThreadStep(t) PROVE Requests \/ UNCHANGED vars
    BY <1>3 DEF ThreadStep, Leave, Refresh, ReloadKeys, MarkGeneration, TryExclusive,
        VerifyGeneration, SafetyBackup, RestoreRejected, StartReplace, EndReplace, Release,
        Regain, FinishFullBackup, Requests
<1>4. ASSUME NEW t \in Threads, Admit(t) \/ BeginRestore(t) \/ CreateBackup(t) \/ DeleteBackup(t) \/ BeginFullBackup(t)
      PROVE  UNCHANGED vars
    BY <1>4 DEF Admit, BeginRestore, CreateBackup, DeleteBackup, BeginFullBackup
<1>5. ASSUME NEW t \in Threads, NEW c \in Content, ServeWrite(t, c) PROVE Requests
    BY <1>5 DEF ServeWrite, Requests
<1>6. Checkpoint => Requests
    BY DEF Requests
<1>7. FileStep => CallStep
    BY DEF FileStep, CallStep, Failure
<1> QED
    BY <1>1, <1>2, <1>3, <1>4, <1>5, <1>6, <1>7 DEF MaintenanceNext, allVars

\* The invariant that the theorems below rest on.
THEOREM MaintenanceInvariant == MaintenanceSpec => []MInv
BY InitMInv, StepMInv, PTL DEF MaintenanceSpec

\* Locks, stages and caches keep their types, and a full backup is in the
\* making exactly while its thread is at it.
THEOREM MaintenanceTypeCorrect == MaintenanceSpec => []MaintenanceTypeOK
<1>1. MInv => MaintenanceTypeOK
    BY DEF MInv
<1> QED
    BY <1>1, MaintenanceInvariant, PTL

\* No request is served during or after an unfinished restore, or with a key
\* or a connection from before one, whichever threads, workers and kills race.
THEOREM ServedStateCurrent == MaintenanceSpec => []ServedStateIsCurrent
<1>1. MInv => ServedStateIsCurrent
    <2> SUFFICES ASSUME MInv, NEW t \in Threads, thread[t] = "serve"
                 PROVE  ~manifest /\ pc = "idle" /\ Fits(WorkerOf[t])
        BY DEF ServedStateIsCurrent, Fits
    <2>1. ~manifest /\ cachedGen[WorkerOf[t]] = generation
        BY DEF MInv, ThreadInv
    <2>2. pc = "idle" /\ worker[WorkerOf[t]] = "up"
        BY Reading DEF SharedStages
    <2> QED
        BY <2>1, <2>2, CurrentCache
<1> QED
    BY <1>1, MaintenanceInvariant, PTL

\* The users of the served database verify under the keys of config.json after
\* any sequence of restores of either kind, failures, kills and rollbacks.
THEOREM KeysAlwaysFitDatabase == MaintenanceSpec => []KeysFitDatabase
<1>1. MInv => KeysFitDatabase
    BY ServedFiles DEF KeysFitDatabase
<1> QED
    BY <1>1, MaintenanceInvariant, PTL

\* A full backup, made in two steps, has the keys that its database needs.
THEOREM FullBackupsRestorable == MaintenanceSpec => []FullBackupsFitTheirKeys
<1>1. MInv => FullBackupsFitTheirKeys
    BY DEF MInv
<1> QED
    BY <1>1, MaintenanceInvariant, PTL

\* The database that a restore replaces at its commit point is the one its
\* safety backup holds, writes served until the lock was taken included.
THEOREM SafetyBackupComesFirst == MaintenanceSpec => ReplacedDatabaseIsBackedUp
<1>1. MInv /\ [MaintenanceNext]_allVars => [~committed /\ committed' => Effective(Db) \in backups]_allVars
    <2> SUFFICES ASSUME MInv, MaintenanceNext, ~committed, committed' PROVE Effective(Db) \in backups
        BY DEF allVars
    <2>1. CallStep
        BY FilesView DEF Startup, Requests, WriteFile, WriteDb, WriteWal, Checkpoint, Replace,
           Refuse, vars, memory
    <2>2. op = "replace"
        BY <2>1, CallMovesOn DEF MInv, CallPhases
    <2> QED
        BY <2>2 DEF MInv, BackupInv
<1> QED
    BY <1>1, MaintenanceInvariant, PTL DEF MaintenanceSpec, ReplacedDatabaseIsBackedUp

\* What the workers do around replace_files leaves it atomic: the files of the
\* data directory still change all together or not at all.
THEOREM ComposedReplacementIsAtomic == MaintenanceSpec => ImplementsAtomicStore
<1>1. MaintenanceInit => Abstract!Init
    BY InitRefines DEF MaintenanceInit
<1>2. MInv /\ [MaintenanceNext]_allVars => [Abstract!Next]_(Abstract!vars)
    <2> SUFFICES ASSUME MInv, [MaintenanceNext]_allVars PROVE [Abstract!Next]_(Abstract!vars)
        OBVIOUS
    <2>1. CASE CallStep \/ Startup \/ Requests \/ UNCHANGED vars
        <3>1. [Next]_vars
            BY <2>1 DEF CallStep, Next
        <3> QED
            BY <3>1, StepRefines DEF MInv
    <2>2. CASE Fault /\ UNCHANGED <<disk, memory>>
        BY <2>2 DEF disk, memory, Abstract!vars, Effective, Logical, LogicalDb
    <2> QED
        BY <2>1, <2>2, FilesView
<1> QED
    BY <1>1, <1>2, MaintenanceInvariant, PTL DEF MaintenanceSpec, ImplementsAtomicStore,
       Abstract!Spec
=============================================================================
