----------------------------- MODULE Maintenance -----------------------------
(***************************************************************************)
(* Web workers around app/restore.py.  Every request holds the maintenance *)
(* lock shared until its response is streamed; a restore trades it for the *)
(* exclusive one; a starting worker takes it twice, for config.json and    *)
(* for create_app.  Each worker caches the keys of config.json, the restore *)
(* generation they belong to and open SQLite connections; its threads      *)
(* share these.  RestoreFiles is what happens under the exclusive lock.    *)
(***************************************************************************)
EXTENDS RestoreFiles, FiniteSets

CONSTANTS
    Workers,        \* gunicorn worker processes (HTTP and HTTPS listener)
    Threads,        \* their request threads
    WorkerOf,       \* the worker of a thread
    Config,         \* config.json
    KeyOf,          \* keys in a config.json; keys a database's users verify under
    NoKey, NoGeneration, NoPool, Nobody,
    MaxBackups      \* bound on the backups that administrators ask for

ASSUME WorkerAssumption ==
    /\ WorkerOf \in [Threads -> Workers]
    /\ Config \in Files \ {Db}
    /\ DOMAIN KeyOf = Content
    /\ MaxBackups \in Nat
    /\ Nobody \notin Threads \cup Workers /\ Threads \cap Workers = {}

VARIABLES
    shared,         \* threads that hold .restore.lock shared
    exclusive,      \* the thread or worker that holds it exclusively, or Nobody
    thread,         \* where each thread is in its request
    seen,           \* _exclusive_restore: generation read before unlocking
    worker,         \* where each worker is in its life
    cachedKey,      \* app.config: the keys
    cachedGen,      \* app.extensions["rab_restore_generation"]
    pool,           \* db.engine: which addressbook.db its connections are open on
    inode,          \* which addressbook.db is in the directory now
    backups,        \* databases published in BACKUP_DIR
    draft,          \* the database in the full backup a thread writes, or Absent
    archives        \* full backups published in BACKUP_DIR

locks == <<shared, exclusive>>
caches == <<cachedKey, cachedGen, pool>>
published == <<backups, draft, archives>>
mvars == <<locks, thread, seen, worker, caches, inode, published>>
allVars == <<vars, mvars>>

ThreadsOf(w) == {t \in Threads : WorkerOf[t] = w}
Booting == {"config", "config_recover", "config_undo", "create", "create_recover", "create_undo"}

MaintenanceTypeOK ==
    /\ shared \subseteq Threads
    /\ exclusive \in Threads \cup Workers \cup {Nobody}
    /\ thread \in [Threads -> {"idle", "admitted", "reload", "mark", "serve", "gap", "verify",
                                "backup", "replace", "replacing", "reload_keys", "release",
                                "regain", "tail", "archive"}]
    /\ seen \in [Threads -> Nat \cup {NoGeneration}]
    /\ worker \in [Workers -> Booting \cup {"down", "up"}]
    /\ DOMAIN cachedKey = Workers /\ DOMAIN pool = Workers
    /\ cachedGen \in [Workers -> Nat \cup {NoGeneration}]
    /\ inode \in Nat
    /\ backups \subseteq Content
    /\ draft \in [Threads -> Content \cup {Absent}]
    /\ \A t \in Threads : draft[t] # Absent <=> thread[t] = "archive"
    /\ archives \subseteq [db : Content, config : Content]

MaintenanceInit ==
    /\ Init
    /\ live[Config] \in Content /\ KeyOf[live[Config]] = KeyOf[live[Db]]
    /\ shared = {} /\ exclusive = Nobody
    /\ thread = [t \in Threads |-> "idle"]
    /\ seen = [t \in Threads |-> NoGeneration]
    /\ worker = [w \in Workers |-> "down"]
    /\ cachedKey = [w \in Workers |-> NoKey]
    /\ cachedGen = [w \in Workers |-> NoGeneration]
    /\ pool = [w \in Workers |-> NoPool]
    /\ inode = 0
    /\ backups = {} /\ draft = [t \in Threads |-> Absent] /\ archives = {}

-----------------------------------------------------------------------------
(* flock                                                                    *)

LockShared(t) == exclusive = Nobody /\ shared' = shared \cup {t} /\ UNCHANGED exclusive
LockExclusive(who) == exclusive = Nobody /\ shared = {} /\ exclusive' = who /\ UNCHANGED shared
UnlockShared(t) == shared' = shared \ {t} /\ UNCHANGED exclusive
UnlockExclusive == exclusive' = Nobody /\ UNCHANGED shared

MoveThread(t, to) == thread' = [thread EXCEPT ![t] = to]
MoveWorker(w, to) == worker' = [worker EXCEPT ![w] = to]

-----------------------------------------------------------------------------
(* A worker starts: class Config, then create_app.                          *)

Spawn(w) ==
    /\ worker[w] = "down"
    /\ MoveWorker(w, "config")
    /\ UNCHANGED <<vars, locks, thread, seen, caches, inode, published>>

BootLock(w) ==
    /\ worker[w] \in {"config", "create"}
    /\ LockExclusive(w)
    /\ MoveWorker(w, IF worker[w] = "config" THEN "config_recover" ELSE "create_recover")
    /\ UNCHANGED <<vars, thread, seen, caches, inode, published>>

BootRecover(w) ==
    /\ worker[w] \in {"config_recover", "create_recover"}
    /\ Startup
    /\ MoveWorker(w, IF worker[w] = "config_recover" THEN "config_undo" ELSE "create_undo")
    /\ UNCHANGED <<locks, thread, seen, caches, inode, published>>

\* Mutant of Recovered: the worker goes on although the recovery raised.
RecoveryEnded == pc = "idle"
Recovered == pc = "idle" /\ ~journal

ConfigLoaded(w) ==
    /\ worker[w] \in {"config_recover", "config_undo"} /\ Recovered
    /\ cachedKey' = [cachedKey EXCEPT ![w] = KeyOf[live[Config]]]
    /\ UnlockExclusive
    /\ MoveWorker(w, "create")
    /\ UNCHANGED <<vars, thread, seen, cachedGen, pool, inode, published>>

AppCreated(w) ==
    /\ worker[w] \in {"create_recover", "create_undo"} /\ Recovered
    /\ cachedKey' = [cachedKey EXCEPT ![w] = KeyOf[live[Config]]]
    /\ cachedGen' = [cachedGen EXCEPT ![w] = generation]
    /\ pool' = [pool EXCEPT ![w] = inode]
    /\ UnlockExclusive
    /\ MoveWorker(w, "up")
    /\ UNCHANGED <<vars, thread, seen, inode, published>>

\* Recovery raised (the journal is still there), or another exception.
BootFails(w) ==
    /\ exclusive = w /\ pc = "idle"
    /\ \/ worker[w] \in {"config_undo", "create_undo"} /\ journal /\ UNCHANGED vars
       \/ Fault /\ UNCHANGED <<disk, memory>>
    /\ MoveWorker(w, "down")
    /\ cachedKey' = [cachedKey EXCEPT ![w] = NoKey]
    /\ UnlockExclusive
    /\ UNCHANGED <<thread, seen, cachedGen, pool, inode, published>>

-----------------------------------------------------------------------------
(* A request: MaintenanceMiddleware and _reload_runtime_keys                *)

Admit(t) ==
    /\ thread[t] = "idle" /\ worker[WorkerOf[t]] = "up"
    /\ LockShared(t)
    /\ MoveThread(t, "admitted")
    /\ UNCHANGED <<vars, seen, worker, caches, inode, published>>

Leave(t) ==
    /\ \/ thread[t] = "admitted" /\ manifest        \* 503
       \/ thread[t] \in {"serve", "tail"}
    /\ UnlockShared(t)
    /\ MoveThread(t, "idle")
    /\ seen' = [seen EXCEPT ![t] = NoGeneration]
    /\ UNCHANGED <<vars, worker, caches, inode, published>>

\* Mutant of Refresh: the generation is marked before the keys are read.
RefreshMarkingFirst(t) ==
    /\ thread[t] = "admitted" /\ ~manifest
    /\ MoveThread(t, IF cachedGen[WorkerOf[t]] = generation THEN "serve" ELSE "reload")
    /\ cachedGen' = [cachedGen EXCEPT ![WorkerOf[t]] = generation]
    /\ pool' = [pool EXCEPT ![WorkerOf[t]] =
                    IF cachedGen[WorkerOf[t]] = generation /\ @ = NoPool THEN inode ELSE @]
    /\ UNCHANGED <<vars, locks, seen, worker, cachedKey, inode, published>>

\* The cached generation decides: serve, or read config.json again.
Refresh(t) ==
    /\ thread[t] = "admitted" /\ ~manifest
    /\ MoveThread(t, IF cachedGen[WorkerOf[t]] = generation THEN "serve" ELSE "reload")
    /\ pool' = [pool EXCEPT ![WorkerOf[t]] =
                    IF cachedGen[WorkerOf[t]] = generation /\ @ = NoPool THEN inode ELSE @]
    /\ UNCHANGED <<vars, locks, seen, worker, cachedKey, cachedGen, inode, published>>

\* Dispose the engine and set the keys; the generation is marked last.
ReloadKeys(t) ==
    /\ thread[t] \in {"reload", "reload_keys"}
    /\ cachedKey' = [cachedKey EXCEPT ![WorkerOf[t]] = KeyOf[live[Config]]]
    /\ pool' = [pool EXCEPT ![WorkerOf[t]] = NoPool]
    /\ IF thread[t] = "reload"
          THEN MoveThread(t, "mark") /\ UNCHANGED cachedGen
          ELSE /\ MoveThread(t, "release")
               /\ cachedGen' = [cachedGen EXCEPT ![WorkerOf[t]] = generation]
    /\ UNCHANGED <<vars, locks, seen, worker, inode, published>>

MarkGeneration(t) ==
    /\ thread[t] = "mark"
    /\ cachedGen' = [cachedGen EXCEPT ![WorkerOf[t]] = generation]
    /\ pool' = [pool EXCEPT ![WorkerOf[t]] = IF @ = NoPool THEN inode ELSE @]
    /\ MoveThread(t, "serve")
    /\ UNCHANGED <<vars, locks, seen, worker, cachedKey, inode, published>>

\* Users are signed with the worker's cached keys.
ServeWrite(t, c) ==
    /\ thread[t] = "serve"
    /\ KeyOf[c] = cachedKey[WorkerOf[t]]
    /\ WriteDb(c) \/ WriteWal(c)
    /\ UNCHANGED mvars

-----------------------------------------------------------------------------
(* The other actions of /backup, under the shared lock                      *)

Asked == Cardinality(backups) + Cardinality(archives)
            + Cardinality({t \in Threads : draft[t] # Absent})

\* _sqlite_backup_bytes is one transaction of SQLite, its own WAL included.
CreateBackup(t) ==
    /\ thread[t] = "serve" /\ Asked < MaxBackups
    /\ backups' = backups \cup {LogicalDb}
    /\ UNCHANGED <<vars, locks, thread, seen, worker, caches, inode, draft, archives>>

DeleteBackup(t) ==
    /\ thread[t] = "serve"
    /\ \/ \E c \in backups : backups' = backups \ {c} /\ UNCHANGED archives
       \/ \E a \in archives : archives' = archives \ {a} /\ UNCHANGED backups
    /\ UNCHANGED <<vars, locks, thread, seen, worker, caches, inode, draft>>

\* A full backup takes the database first and config.json later.
BeginFullBackup(t) ==
    /\ thread[t] = "serve" /\ Asked < MaxBackups
    /\ draft' = [draft EXCEPT ![t] = LogicalDb]
    /\ MoveThread(t, "archive")
    /\ UNCHANGED <<vars, locks, seen, worker, caches, inode, backups, archives>>

FinishFullBackup(t) ==
    /\ thread[t] = "archive"
    /\ archives' = archives \cup {[db |-> draft[t], config |-> live[Config]]}
    /\ draft' = [draft EXCEPT ![t] = Absent]
    /\ MoveThread(t, "serve")
    /\ UNCHANGED <<vars, locks, seen, worker, caches, inode, backups>>

-----------------------------------------------------------------------------
(* A restore request: _exclusive_restore and _restore_database_from_file    *)

BeginRestore(t) ==
    /\ thread[t] = "serve" /\ calls < MaxCalls
    /\ seen' = [seen EXCEPT ![t] = cachedGen[WorkerOf[t]]]
    /\ UnlockShared(t)
    /\ MoveThread(t, "gap")
    /\ UNCHANGED <<vars, worker, caches, inode, published>>

\* Mutant of TryExclusive: without LOCK_NB, it waits for the lock.
WaitExclusive(t) ==
    /\ thread[t] = "gap"
    /\ LockExclusive(t) /\ MoveThread(t, "verify")
    /\ UNCHANGED <<vars, seen, worker, caches, inode, published>>

\* Mutant of TryExclusive: requests that read are not waited for.
TryExclusiveOverReaders(t) ==
    /\ thread[t] = "gap"
    /\ IF exclusive = Nobody
       THEN exclusive' = t /\ UNCHANGED shared /\ MoveThread(t, "verify")
       ELSE MoveThread(t, "regain") /\ UNCHANGED locks
    /\ UNCHANGED <<vars, seen, worker, caches, inode, published>>

\* LOCK_EX | LOCK_NB
TryExclusive(t) ==
    /\ thread[t] = "gap"
    /\ \/ LockExclusive(t) /\ MoveThread(t, "verify")
       \/ /\ exclusive # Nobody \/ shared # {}
          /\ MoveThread(t, "regain")
          /\ UNCHANGED locks
    /\ UNCHANGED <<vars, seen, worker, caches, inode, published>>

\* Mutant of VerifyGeneration: the generation is not compared.
TrustGeneration(t) ==
    /\ thread[t] = "verify"
    /\ MoveThread(t, "backup")
    /\ UNCHANGED <<vars, locks, seen, worker, caches, inode, published>>

VerifyGeneration(t) ==
    /\ thread[t] = "verify"
    /\ MoveThread(t, IF seen[t] = generation THEN "backup" ELSE "release")
    /\ UNCHANGED <<vars, locks, seen, worker, caches, inode, published>>

\* Mutants of SafetyBackup: it stores the new database; it copies the main file
\* without its WAL.
BackupOfReplacement(t) ==
    /\ thread[t] = "backup"
    /\ backups' = backups \cup {repl[Db]} /\ UNCHANGED vars /\ MoveThread(t, "replace")
    /\ UNCHANGED <<locks, seen, worker, caches, inode, draft, archives>>
BackupOfMainFile(t) ==
    /\ thread[t] = "backup"
    /\ backups' = backups \cup {live[Db]} /\ UNCHANGED vars /\ MoveThread(t, "replace")
    /\ UNCHANGED <<locks, seen, worker, caches, inode, draft, archives>>

SafetyBackup(t) ==
    /\ thread[t] = "backup"
    /\ backups' = backups \cup {LogicalDb} /\ UNCHANGED vars /\ MoveThread(t, "replace")
    /\ UNCHANGED <<locks, seen, worker, caches, inode, draft, archives>>

\* Wrong password, invalid candidate, or no space for the safety backup.
RestoreRejected(t) ==
    /\ thread[t] \in {"backup", "replace"}
    /\ MoveThread(t, "release")
    /\ UNCHANGED <<vars, locks, seen, worker, caches, inode, published>>

\* _prepare_restore_database: a full backup must match its own config.json, a
\* database alone the keys this worker has in memory.
Validated(t, r) ==
    IF r[Config] = Keep THEN KeyOf[r[Db]] = cachedKey[WorkerOf[t]]
                        ELSE KeyOf[r[Db]] = KeyOf[r[Config]]

StartReplace(t) ==
    /\ thread[t] = "replace"
    /\ \/ \E r \in Replacement : Validated(t, r) /\ Replace(r)
       \/ Refuse
    /\ pool' = [pool EXCEPT ![WorkerOf[t]] = NoPool]
    /\ MoveThread(t, "replacing")
    /\ UNCHANGED <<locks, seen, worker, cachedKey, cachedGen, inode, published>>

EndReplace(t) ==
    /\ thread[t] = "replacing" /\ pc = "idle"
    /\ MoveThread(t, IF reply = "ok" THEN "reload_keys" ELSE "release")
    /\ UNCHANGED <<vars, locks, seen, worker, caches, inode, published>>

\* EX to SH is not atomic: the lock is dropped first, then awaited.
Release(t) ==
    /\ thread[t] = "release"
    /\ UnlockExclusive
    /\ MoveThread(t, "regain")
    /\ UNCHANGED <<vars, seen, worker, caches, inode, published>>

Regain(t) ==
    /\ thread[t] = "regain"
    /\ LockShared(t)
    /\ MoveThread(t, "tail")
    /\ UNCHANGED <<vars, seen, worker, caches, inode, published>>

-----------------------------------------------------------------------------
(* Under the exclusive lock, and kills                                      *)

\* os.replace puts another inode at addressbook.db when its turn is over.
InodeStep ==
    inode' = IF pc \in {"install", "undo"} /\ Db \in todo /\ Db \notin todo' THEN inode + 1 ELSE inode

FileStep ==
    /\ \/ ReplaceStep \/ UndoStep \/ CleanupStep
       \/ SaveFails \/ WriteManifestFails \/ PreparedFails \/ SyncJournalFails
       \/ UndoFails \/ CleanupFails
    /\ InodeStep
    /\ UNCHANGED <<locks, thread, seen, worker, caches, published>>

\* SIGKILL, or gunicorn's timeout: the worker's locks and memory are gone.
Kill(w) ==
    LET gone == ThreadsOf(w) IN
    /\ worker[w] # "down"
    /\ IF pc # "idle" /\ exclusive \in gone \cup {w}
          THEN Crash
          ELSE Fault /\ UNCHANGED <<disk, memory>>
    /\ InodeStep
    /\ MoveWorker(w, "down")
    /\ thread' = [t \in Threads |-> IF t \in gone THEN "idle" ELSE thread[t]]
    /\ seen' = [t \in Threads |-> IF t \in gone THEN NoGeneration ELSE seen[t]]
    /\ shared' = shared \ gone
    /\ exclusive' = IF exclusive \in gone \cup {w} THEN Nobody ELSE exclusive
    /\ cachedKey' = [cachedKey EXCEPT ![w] = NoKey]
    /\ cachedGen' = [cachedGen EXCEPT ![w] = NoGeneration]
    /\ pool' = [pool EXCEPT ![w] = NoPool]
    /\ draft' = [t \in Threads |-> IF t \in gone THEN Absent ELSE draft[t]]
    /\ UNCHANGED <<backups, archives>>

-----------------------------------------------------------------------------
BootStep(w) ==
    Spawn(w) \/ BootRecover(w) \/ ConfigLoaded(w) \/ AppCreated(w) \/ BootFails(w)

ThreadStep(t) ==
    \/ Leave(t) \/ Refresh(t) \/ ReloadKeys(t) \/ MarkGeneration(t)
    \/ TryExclusive(t) \/ VerifyGeneration(t) \/ SafetyBackup(t) \/ RestoreRejected(t)
    \/ StartReplace(t) \/ EndReplace(t) \/ Release(t) \/ Regain(t)
    \/ FinishFullBackup(t)

MaintenanceNext ==
    \/ \E w \in Workers : BootStep(w) \/ BootLock(w) \/ Kill(w)
    \/ \E t \in Threads : ThreadStep(t) \/ Admit(t) \/ BeginRestore(t)
    \/ \E t \in Threads : CreateBackup(t) \/ DeleteBackup(t) \/ BeginFullBackup(t)
    \/ \E t \in Threads, c \in Content : ServeWrite(t, c)
    \/ Checkpoint /\ UNCHANGED mvars
    \/ FileStep

MaintenanceSpec == MaintenanceInit /\ [][MaintenanceNext]_allVars

\* flock ranks nobody: a starting worker that waits for the exclusive lock gets
\* it only if the lock stays free, so overlapping requests can keep it waiting
\* for ever.  The shared lock is only ever waited for while a restore or a
\* starting worker holds the exclusive one, which is what restores in turns do
\* at times and not always.  A worker that ended is started again by gunicorn or
\* by compose.  Requests arrive and restores begin when they like.
MaintenanceFairness ==
    /\ WF_allVars(FileStep)
    /\ \A w \in Workers : WF_allVars(BootStep(w)) /\ WF_allVars(BootLock(w))
    /\ \A t \in Threads : WF_allVars(ThreadStep(t)) /\ SF_allVars(Regain(t))

FairMaintenanceSpec == MaintenanceSpec /\ MaintenanceFairness

-----------------------------------------------------------------------------
(* Properties                                                               *)

\* A request is served under the keys and the database that are on disk now:
\* no unfinished restore, no key or connection from before a restore, although
\* the thread only compared a generation that other threads of its worker set.
ServedStateIsCurrent ==
    \A t \in Threads : thread[t] = "serve" =>
        /\ ~manifest /\ pc = "idle"
        /\ cachedKey[WorkerOf[t]] = KeyOf[live[Config]]
        /\ pool[WorkerOf[t]] \in {NoPool, inode}

\* Whenever requests may be served the users of the database verify under the
\* keys of config.json, over restores of either kind that race each other,
\* fail, or are killed and rolled back.
KeysFitDatabase == ~manifest => KeyOf[live[Config]] = KeyOf[LogicalDb]

\* A full backup is made in two steps while other requests are served, and can
\* be restored only if its database verifies under its own config.json: no
\* restore comes between the two.
FullBackupsFitTheirKeys == \A a \in archives : KeyOf[a.db] = KeyOf[a.config]

\* ADMIN-GUIDE.md:291: "before every restore, the previous database state is
\* saved automatically as a safety backup": the state that is lost at the
\* commit point, including writes served until the lock was taken.
ReplacedDatabaseIsBackedUp ==
    [][~committed /\ committed' => Effective(Db) \in backups]_allVars

\* Every request ends, the ones that lost the race for the exclusive lock and
\* the ones that wait to get the shared lock back included.
RequestsEnd == \A t \in Threads : thread[t] # "idle" ~> thread[t] = "idle"

\* From some time on nobody uses the application.
RequestsPause == <>[](\A t \in Threads : thread[t] = "idle")

\* "Recover interrupted restores at application startup" (release notes of
\* 0.6.3): an interrupted restore that can be rolled back, and a journal that
\* only has to be removed, are gone after finitely many restarts, although the
\* requests of the other worker (answered with 503) overlap the starting worker,
\* if the requests pause in the end.
RestartRecovers ==
    RequestsPause =>
        (pc = "idle" /\ journal /\ (manifest => CopiesComplete)
            /\ \E w \in Workers : worker[w] = "down") ~> ~journal
=============================================================================
