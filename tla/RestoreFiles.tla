---------------------------- MODULE RestoreFiles ----------------------------
(***************************************************************************)
(* app/restore.py: replace_files installs a set of files with a journal of *)
(* the old ones, recover_pending_restore rolls an unfinished replacement   *)
(* back.  Both run under the exclusive maintenance lock, so one call at a  *)
(* time takes the steps below; each step is one file-system call that      *)
(* reaches the disk, may fail (OSError), and may be the last before the    *)
(* process is killed.  A killed process loses its memory, not what it      *)
(* already wrote (the page cache survives SIGKILL).                        *)
(***************************************************************************)
EXTENDS Naturals

CONSTANTS
    Files,          \* managed paths below DATA_DIR
    Db,             \* addressbook.db, the one file with SQLite sidecars
    Content,        \* the contents a file can have
    Absent,         \* the file does not exist
    Keep,           \* not among the files of this replacement
    NoCopy,         \* no saved copy below .restore-transaction/old
    NoWal,          \* no addressbook.db-wal
    Corrupt,        \* what SQLite reads when a WAL meets a foreign database
    MaxCalls,       \* bound: calls of replace_files
    MaxFaults,      \* bound: failing file operations and kills, together
    MaxWrites       \* bound: file changes made by ordinary requests

ASSUME DbAssumption == Db \in Files
ASSUME NullAssumption ==
    /\ {Absent, Keep, NoCopy, Corrupt} \cap Content = {}
    /\ Absent # Corrupt /\ Absent # NoCopy
    /\ NoWal \notin [base : Content, result : Content]
ASSUME BoundAssumption == MaxCalls \in Nat /\ MaxFaults \in Nat /\ MaxWrites \in Nat

VARIABLES
    \* on disk
    live,           \* the managed files; live[Db] is the main database file
    wal,            \* NoWal, or frames that turn database `base` into `result`
    shm,            \* addressbook.db-shm exists
    generation,     \* .restore-generation: os.urandom(16), here a fresh number
    journal,        \* the directory .restore-transaction exists
    copy,           \* .restore-transaction/old/...
    manifest,       \* .restore-transaction/manifest.json exists
    record,         \* its records: per file untouched, or whether it existed
    \* in the memory of the process that holds the lock
    pc,             \* the next step; "idle": the lock is free
    op,             \* who runs: "replace" (a request), "startup", "none"
    todo,           \* files the current loop has still to visit
    repl,           \* argument `files`
    snapshot,       \* argument `database_snapshot`
    committed,      \* history: this call has removed its manifest
    reply,          \* how the last call of replace_files ended
    \* bounds
    calls, faults, writes

disk == <<live, wal, shm, generation, journal, copy, manifest, record>>
memory == <<pc, op, todo, repl, snapshot, committed, reply>>
bounds == <<calls, faults, writes>>
vars == <<disk, memory, bounds>>

-----------------------------------------------------------------------------
Replacement == {r \in [Files -> Content \cup {Keep}] : r[Db] # Keep}
NoReplacement == [f \in Files |-> Keep]
NoCopies == [f \in Files |-> NoCopy]
NoRecords == [f \in Files |-> "untouched"]

Touched == {f \in Files : repl[f] # Keep}
Recorded == {f \in Files : record[f] # "untouched"}

\* What SQLite reads: WAL frames are replayed over whatever main file is there.
LogicalDb ==
    IF wal = NoWal THEN live[Db]
    ELSE IF live[Db] \in {wal.base, wal.result} THEN wal.result ELSE Corrupt

Logical(f) == IF f = Db THEN LogicalDb ELSE live[f]

\* What file f will hold once recovery has dealt with the journal.
Effective(f) ==
    IF ~manifest \/ record[f] = "untouched" THEN Logical(f)
    ELSE IF record[f] = "created" THEN Absent
    ELSE IF copy[f] # NoCopy THEN copy[f]
    ELSE Logical(f)

ReplacePhases == {"save", "manifest"}
PreparedPhases == {"wal", "shm", "install", "generation", "commit"}
CommittedPhases == {"sync"}
UndoPhases == {"undo", "undo_wal", "undo_shm", "undo_generation", "undo_commit"}
UndonePhases == {"undo_sync", "undo_cleanup"}
Phases == {"idle", "cleanup"} \cup ReplacePhases \cup PreparedPhases
             \cup CommittedPhases \cup UndoPhases \cup UndonePhases

Init ==
    /\ live \in [Files -> Content \cup {Absent}] /\ live[Db] \in Content
    /\ wal = NoWal /\ shm = FALSE /\ generation = 0
    /\ journal = FALSE /\ copy = NoCopies /\ manifest = FALSE /\ record = NoRecords
    /\ pc = "idle" /\ op = "none" /\ todo = {} /\ repl = NoReplacement
    /\ snapshot = Absent /\ committed = FALSE /\ reply = "none"
    /\ calls = 0 /\ faults = 0 /\ writes = 0

-----------------------------------------------------------------------------
(* Ordinary requests: served only while the lock is free for sharing and no *)
(* manifest exists (MaintenanceMiddleware).                                 *)

Serving == pc = "idle" /\ ~manifest /\ writes < MaxWrites

\* Uploaded keys, certificates, config.json, the authentication log.
WriteFile(f, c) ==
    /\ Serving /\ f # Db /\ live[f] # c
    /\ live' = [live EXCEPT ![f] = c]
    /\ writes' = writes + 1
    /\ UNCHANGED <<wal, shm, generation, journal, copy, manifest, record, memory, calls, faults>>

\* SQLite commits a transaction in place (rollback-journal mode).
WriteDb(c) ==
    /\ Serving /\ wal = NoWal /\ live[Db] # c
    /\ live' = [live EXCEPT ![Db] = c]
    /\ writes' = writes + 1
    /\ UNCHANGED <<wal, shm, generation, journal, copy, manifest, record, memory, calls, faults>>

\* SQLite commits a transaction to the WAL (a restored database in WAL mode).
WriteWal(c) ==
    /\ Serving /\ LogicalDb # c
    /\ wal' = [base |-> live[Db], result |-> c]
    /\ shm' = TRUE
    /\ writes' = writes + 1
    /\ UNCHANGED <<live, generation, journal, copy, manifest, record, memory, calls, faults>>

\* The last connection closes: checkpoint, sidecars removed.
Checkpoint ==
    /\ pc = "idle" /\ ~manifest /\ wal # NoWal
    /\ live' = [live EXCEPT ![Db] = LogicalDb]
    /\ wal' = NoWal /\ shm' = FALSE
    /\ UNCHANGED <<generation, journal, copy, manifest, record, memory, bounds>>

-----------------------------------------------------------------------------
(* Moving on, ending and failing.                                           *)

Goto(p, files) ==
    /\ pc' = p /\ todo' = files
    /\ UNCHANGED <<op, repl, snapshot, committed, reply, bounds>>

\* The call ends and the lock is released.  replace_files returns normally only
\* from its finally clause, and only when it has committed.
End(how) ==
    /\ pc' = "idle" /\ op' = "none" /\ todo' = {}
    /\ repl' = NoReplacement /\ snapshot' = Absent /\ committed' = FALSE
    /\ reply' = IF op = "replace" THEN how ELSE reply

Fault == faults < MaxFaults /\ faults' = faults + 1 /\ UNCHANGED <<calls, writes>>

\* except: before the manifest is durable only the finally clause runs; after
\* that recover_pending_restore is called, which finds the manifest or not.
Unprepared ==
    /\ Fault /\ pc' = "cleanup" /\ todo' = {}
    /\ UNCHANGED <<op, repl, snapshot, committed, reply>>
\* Mutant of RollBack: the failure only cleans up, as before the manifest.
CleanUpOnly ==
    /\ Fault /\ pc' = "cleanup" /\ todo' = {}
    /\ UNCHANGED <<op, repl, snapshot, committed, reply>>
RollBack ==
    /\ Fault /\ pc' = "undo" /\ todo' = Recorded
    /\ UNCHANGED <<op, repl, snapshot, committed, reply>>

-----------------------------------------------------------------------------
(* replace_files                                                            *)

Replace(r) ==
    /\ pc = "idle" /\ ~journal /\ calls < MaxCalls
    /\ journal' = TRUE
    /\ pc' = "save" /\ op' = "replace" /\ repl' = r
    /\ todo' = {f \in Files : r[f] # Keep}
    /\ snapshot' = LogicalDb /\ committed' = FALSE /\ reply' = "none"
    /\ calls' = calls + 1
    /\ UNCHANGED <<live, wal, shm, generation, copy, manifest, record, faults, writes>>

\* An unfinished journal, with or without a manifest, refuses a new replacement.
Refuse ==
    /\ pc = "idle" /\ journal /\ calls < MaxCalls
    /\ reply' = "raised"
    /\ calls' = calls + 1
    /\ UNCHANGED <<disk, pc, op, todo, repl, snapshot, committed, faults, writes>>

\* Mutant of Saved: the main file is copied, without the frames of its WAL.
SavedMainFile(f) == live[f]
Saved(f) == IF f = Db THEN snapshot ELSE live[f]

SaveCopy(f) == copy' = IF live[f] = Absent THEN copy ELSE [copy EXCEPT ![f] = Saved(f)]

Save(f) ==
    /\ pc = "save" /\ f \in todo
    /\ record' = [record EXCEPT ![f] = IF live[f] = Absent THEN "created" ELSE "exists"]
    /\ SaveCopy(f)
    /\ Goto(IF todo = {f} THEN "manifest" ELSE "save", todo \ {f})
    /\ UNCHANGED <<live, wal, shm, generation, journal, manifest>>

\* A symbolic link, or a copy that cannot be written (or only not be synced).
SaveFails ==
    /\ pc = "save"
    /\ \/ UNCHANGED copy
       \/ \E f \in todo : SaveCopy(f)
    /\ record' = NoRecords
    /\ Unprepared
    /\ UNCHANGED <<live, wal, shm, generation, journal, manifest>>

WriteManifest ==
    /\ pc = "manifest"
    /\ manifest' = TRUE
    /\ Goto("wal", {})
    /\ UNCHANGED <<live, wal, shm, generation, journal, copy, record>>

\* The manifest may already be in place when syncing its directory fails.
WriteManifestFails ==
    /\ pc = "manifest"
    /\ manifest' \in BOOLEAN
    /\ record' = IF manifest' THEN record ELSE NoRecords
    /\ Unprepared
    /\ UNCHANGED <<live, wal, shm, generation, journal, copy>>

\* Mutant of UnlinkWal: the old WAL is left beside the new database.
KeepWal ==
    /\ pc = "wal"
    /\ Goto("shm", {})
    /\ UNCHANGED <<live, wal, shm, generation, journal, copy, manifest, record>>

UnlinkWal ==
    /\ pc = "wal"
    /\ wal' = NoWal
    /\ Goto("shm", {})
    /\ UNCHANGED <<live, shm, generation, journal, copy, manifest, record>>

UnlinkShm ==
    /\ pc = "shm"
    /\ shm' = FALSE
    /\ Goto("install", Touched)
    /\ UNCHANGED <<live, wal, generation, journal, copy, manifest, record>>

Install(f) ==
    /\ pc = "install" /\ f \in todo
    /\ live' = [live EXCEPT ![f] = repl[f]]
    /\ Goto(IF todo = {f} THEN "generation" ELSE "install", todo \ {f})
    /\ UNCHANGED <<wal, shm, generation, journal, copy, manifest, record>>

NewGeneration ==
    /\ pc = "generation"
    /\ generation' = generation + 1
    /\ Goto("commit", {})
    /\ UNCHANGED <<live, wal, shm, journal, copy, manifest, record>>

UnlinkManifest ==
    /\ pc = "commit"
    /\ manifest' = FALSE /\ record' = NoRecords
    /\ pc' = "sync" /\ committed' = TRUE
    /\ UNCHANGED <<live, wal, shm, generation, journal, copy, op, todo, repl, snapshot, reply, bounds>>

\* Any step after the manifest is durable fails, before or after its effect.
PreparedFails ==
    /\ pc \in PreparedPhases
    /\ \/ UNCHANGED <<live, generation>>
       \/ /\ \E f \in todo : live' = [live EXCEPT ![f] = repl[f]]
          /\ UNCHANGED generation
       \/ pc = "generation" /\ generation' = generation + 1 /\ UNCHANGED live
    /\ RollBack
    /\ UNCHANGED <<wal, shm, journal, copy, manifest, record>>

SyncJournal ==
    /\ pc = "sync"
    /\ Goto("cleanup", {})
    /\ UNCHANGED disk

\* The manifest is gone: recover_pending_restore only removes the journal.
SyncJournalFails ==
    /\ pc = "sync"
    /\ Fault /\ pc' = "undo_cleanup"
    /\ UNCHANGED <<disk, op, todo, repl, snapshot, committed, reply>>

-----------------------------------------------------------------------------
(* recover_pending_restore, from the except clause or at startup            *)

\* Mutant of Startup: the journal is removed without a rollback.
DiscardJournal ==
    /\ pc = "idle" /\ journal
    /\ op' = "startup"
    /\ pc' = "undo_cleanup" /\ todo' = {}
    /\ UNCHANGED <<disk, repl, snapshot, committed, reply, bounds>>

Startup ==
    /\ pc = "idle" /\ journal
    /\ op' = "startup"
    /\ IF manifest THEN pc' = "undo" /\ todo' = Recorded
                   ELSE pc' = "undo_cleanup" /\ todo' = {}
    /\ UNCHANGED <<disk, repl, snapshot, committed, reply, bounds>>

\* The old file comes back from its copy, or a file that did not exist goes.
Restored(f) ==
    /\ record[f] = "exists" => copy[f] # NoCopy
    /\ live' = [live EXCEPT ![f] = IF record[f] = "exists" THEN copy[f] ELSE Absent]

Undo(f) ==
    /\ pc = "undo" /\ f \in todo
    /\ Restored(f)
    /\ Goto(IF todo = {f} THEN "undo_wal" ELSE "undo", todo \ {f})
    /\ UNCHANGED <<wal, shm, generation, journal, copy, manifest, record>>

\* A manifest that outlived some of its copies cannot be rolled back:
\* reading the missing copy raises, and the journal stays.
UndoFindsNoCopy(f) ==
    /\ pc = "undo" /\ f \in todo
    /\ record[f] = "exists" /\ copy[f] = NoCopy
    /\ End("raised")
    /\ UNCHANGED <<disk, bounds>>

\* The records of the sidecars always say "did not exist".
UndoWal ==
    /\ pc = "undo_wal"
    /\ wal' = NoWal
    /\ Goto("undo_shm", {})
    /\ UNCHANGED <<live, shm, generation, journal, copy, manifest, record>>

UndoShm ==
    /\ pc = "undo_shm"
    /\ shm' = FALSE
    /\ Goto("undo_generation", {})
    /\ UNCHANGED <<live, wal, generation, journal, copy, manifest, record>>

UndoGeneration ==
    /\ pc = "undo_generation"
    /\ generation' = generation + 1
    /\ Goto("undo_commit", {})
    /\ UNCHANGED <<live, wal, shm, journal, copy, manifest, record>>

UndoUnlinkManifest ==
    /\ pc = "undo_commit"
    /\ manifest' = FALSE /\ record' = NoRecords
    /\ Goto("undo_sync", {})
    /\ UNCHANGED <<live, wal, shm, generation, journal, copy>>

\* Any step up to here fails, before or after its effect: the journal stays.
UndoFails ==
    /\ pc \in UndoPhases
    /\ \/ UNCHANGED <<live, wal, shm, generation>>
       \/ /\ \E f \in todo : Restored(f)
          /\ UNCHANGED <<wal, shm, generation>>
       \/ pc = "undo_wal" /\ wal' = NoWal /\ UNCHANGED <<live, shm, generation>>
       \/ pc = "undo_shm" /\ shm' = FALSE /\ UNCHANGED <<live, wal, generation>>
       \/ pc = "undo_generation" /\ generation' = generation + 1 /\ UNCHANGED <<live, wal, shm>>
    /\ Fault
    /\ End("raised")
    /\ UNCHANGED <<journal, copy, manifest, record>>

UndoSync ==
    /\ pc = "undo_sync"
    /\ Goto("undo_cleanup", {})
    /\ UNCHANGED disk

-----------------------------------------------------------------------------
(* shutil.rmtree(journal), in the finally clause and after a rollback: one  *)
(* entry at a time, in no particular order.                                 *)

Cleaning == pc \in {"cleanup", "undo_cleanup"}

RemoveEntry ==
    /\ Cleaning
    /\ \/ /\ \E f \in Files : copy[f] # NoCopy /\ copy' = [copy EXCEPT ![f] = NoCopy]
          /\ UNCHANGED <<manifest, record>>
       \/ manifest /\ manifest' = FALSE /\ record' = NoRecords /\ UNCHANGED copy
    /\ UNCHANGED <<live, wal, shm, generation, journal, memory, bounds>>

RemoveJournal ==
    /\ Cleaning /\ ~manifest /\ copy = NoCopies
    /\ journal' = FALSE
    /\ End(IF committed /\ pc = "cleanup" THEN "ok" ELSE "raised")
    /\ UNCHANGED <<live, wal, shm, generation, copy, manifest, record, bounds>>

\* rmtree raises, or the sync before or after it does.
CleanupFails ==
    /\ Cleaning \/ pc = "undo_sync"
    /\ \/ UNCHANGED journal
       \/ pc = "undo_cleanup" /\ copy = NoCopies /\ journal' = FALSE
    /\ Fault
    /\ End("raised")
    /\ UNCHANGED <<live, wal, shm, generation, copy, manifest, record>>

\* SIGKILL: the lock is released, nobody learns how the call ended.
Crash ==
    /\ pc # "idle" /\ Fault
    /\ pc' = "idle" /\ op' = "none" /\ todo' = {}
    /\ repl' = NoReplacement /\ snapshot' = Absent /\ committed' = FALSE
    /\ record' = IF manifest THEN record ELSE NoRecords
    /\ UNCHANGED <<live, wal, shm, generation, journal, copy, manifest, reply>>

-----------------------------------------------------------------------------
ReplaceStep ==
    \/ \E f \in Files : Save(f) \/ Install(f)
    \/ WriteManifest \/ UnlinkWal \/ UnlinkShm \/ NewGeneration
    \/ UnlinkManifest \/ SyncJournal

UndoStep ==
    \/ \E f \in Files : Undo(f) \/ UndoFindsNoCopy(f)
    \/ UndoWal \/ UndoShm \/ UndoGeneration \/ UndoUnlinkManifest \/ UndoSync

CleanupStep == RemoveEntry \/ RemoveJournal

Failure ==
    \/ SaveFails \/ WriteManifestFails \/ PreparedFails \/ SyncJournalFails
    \/ UndoFails \/ CleanupFails \/ Crash

Requests ==
    \/ \E f \in Files, c \in Content : WriteFile(f, c)
    \/ \E c \in Content : WriteDb(c) \/ WriteWal(c)
    \/ Checkpoint
    \/ \E r \in Replacement : Replace(r)
    \/ Refuse

Next == ReplaceStep \/ UndoStep \/ CleanupStep \/ Failure \/ Requests \/ Startup

Spec == Init /\ [][Next]_vars

\* A step under the lock is a file operation that returns, and somebody always
\* restarts the application.  Nothing in the code does that after a call that
\* merely failed, so nothing is proved or checked to hold from it: this fairness
\* only makes the counterexample of InterruptedRestoreIsRecovered stronger.
Fairness ==
    /\ WF_vars(ReplaceStep) /\ WF_vars(UndoStep) /\ WF_vars(CleanupStep)
    /\ WF_vars(Startup)

FairSpec == Spec /\ Fairness

-----------------------------------------------------------------------------
(* Properties                                                               *)

DiskTypeOK ==
    /\ live \in [Files -> Content \cup {Absent}] /\ live[Db] \in Content
    /\ wal \in {NoWal} \cup [base : Content, result : Content]
    /\ shm \in BOOLEAN
    /\ generation \in Nat
    /\ journal \in BOOLEAN
    /\ copy \in [Files -> Content \cup {NoCopy}]
    /\ manifest \in BOOLEAN
    /\ record \in [Files -> {"untouched", "exists", "created"}]

MemoryTypeOK ==
    /\ pc \in Phases
    /\ op \in {"none", "replace", "startup"}
    /\ todo \in SUBSET Files
    /\ repl \in Replacement \cup {NoReplacement}
    /\ snapshot \in Content \cup {Absent}
    /\ committed \in BOOLEAN
    /\ reply \in {"none", "ok", "raised"}

BoundsTypeOK == calls \in Nat /\ faults \in Nat /\ writes \in Nat

TypeOK == DiskTypeOK /\ MemoryTypeOK /\ BoundsTypeOK

\* Every file the manifest says existed still has its copy.
CopiesComplete == \A f \in Files : record[f] = "exists" => copy[f] # NoCopy

\* No managed file has been changed since it was recorded.
NothingInstalled ==
    \A f \in Files :
        /\ record[f] = "exists" /\ copy[f] # NoCopy => copy[f] = Logical(f)
        /\ record[f] = "created" => live[f] = Absent

\* A manifest on disk never asks for what cannot be given back: either all the
\* copies are there, or nothing was installed yet.  The second case is real:
\* rmtree runs over a written manifest when only the sync after it failed.
ManifestIsSound == manifest => CopiesComplete \/ NothingInstalled

\* Whenever requests may be served, SQLite finds a database whose WAL, if any,
\* belongs to it: "never let old WAL frames contaminate the newly installed
\* database" (line 111), over every crash, failure and rollback.
ServedDatabaseIsIntact == ~manifest => LogicalDb # Corrupt

\* replace_files is atomic: what recovery would leave on disk changes in one
\* step to all new files, or never, whatever step fails or is the last before
\* a kill; "ok" is only returned after that step.
Abstract == INSTANCE AtomicStore WITH
    store <- [f \in Files |-> Effective(f)],
    status <- IF op # "replace" THEN "idle" ELSE IF committed THEN "replaced" ELSE "replacing",
    pending <- IF op = "replace" /\ ~committed THEN repl ELSE NoReplacement

ImplementsAtomicStore == Abstract!Spec

\* "Recover interrupted restores at application startup" (release notes of
\* 0.6.3): whatever interrupted a restore, restarts finish with its journal.
InterruptedRestoreIsRecovered == journal ~> ~journal

-----------------------------------------------------------------------------
(* Inductive invariant: what the disk and the call's memory say of each     *)
(* other at every step.                                                     *)

PhaseInv ==
    /\ manifest => journal
    /\ pc # "idle" => journal
    /\ ~journal => copy = NoCopies
    /\ ~manifest /\ pc \notin ReplacePhases => record = NoRecords
    /\ pc = "idle" <=> op = "none"
    /\ pc \in ReplacePhases \cup PreparedPhases \cup CommittedPhases \cup {"cleanup"} => op = "replace"
    /\ pc \in PreparedPhases \cup UndoPhases => manifest
    /\ pc \in ReplacePhases \cup CommittedPhases \cup UndonePhases => ~manifest
    /\ pc \in ReplacePhases \cup PreparedPhases \cup UndoPhases => ~committed
    /\ pc \in CommittedPhases => committed
    /\ committed => op = "replace" /\ ~manifest
    /\ op = "replace" => repl \in Replacement
    /\ pc \notin {"save", "install", "undo"} => todo = {}

\* While the old files are being saved, nothing has been installed, and exactly
\* the files visited so far have a record.
SavingInv ==
    pc \in ReplacePhases =>
        /\ snapshot = LogicalDb
        /\ todo \subseteq Touched
        /\ \A f \in Files : record[f] # "untouched" <=> f \in Touched \ todo
        /\ CopiesComplete
        /\ NothingInstalled

\* Once prepared, every touched file has its record and copy, and the loops
\* leave behind new files and no WAL.
PreparedInv ==
    pc \in PreparedPhases =>
        /\ CopiesComplete
        /\ \A f \in Files : record[f] # "untouched" <=> f \in Touched
        /\ todo \subseteq Touched
        /\ pc # "wal" => wal = NoWal
        /\ pc \in {"install", "generation", "commit"} =>
               \A f \in Touched \ todo : live[f] = repl[f]

\* A rollback leaves behind old files, then no WAL.
UndoingInv ==
    pc \in UndoPhases =>
        /\ todo \subseteq Recorded
        /\ \A f \in Recorded \ todo :
               /\ record[f] = "exists" => copy[f] # NoCopy /\ live[f] = copy[f]
               /\ record[f] = "created" => live[f] = Absent
        /\ pc \in {"undo_shm", "undo_generation", "undo_commit"} => wal = NoWal

CleanupInv == pc = "cleanup" /\ manifest => NothingInstalled

DbInv ==
    /\ record[Db] # "created"
    /\ manifest => record[Db] = "exists"
    /\ Effective(Db) # Corrupt

IInv ==
    /\ TypeOK /\ PhaseInv /\ SavingInv /\ PreparedInv /\ UndoingInv
    /\ CleanupInv /\ DbInv /\ ManifestIsSound
=============================================================================
