-------------------------------- MODULE Updater --------------------------------
(***************************************************************************)
(* scripts/update.sh installs a newer release over an installation: it     *)
(* stops the service, copies tree and data, unpacks the package, builds,   *)
(* starts, and waits for the health check.  From the copy on, a failing    *)
(* command, ^C or SIGTERM runs rollback_failed_update; SIGKILL or a power  *)
(* cut ends it anywhere, and the administrator rolls back by hand.         *)
(***************************************************************************)
EXTENDS Naturals

CONSTANTS
    Updaters,           \* invocations of update.sh
    Targets,            \* releases there are packages of; 1 is installed
    Absent, Local, None,
    MaxRuns, MaxFaults, MaxKills, MaxWrites     \* bounds

ASSUME UpdaterAssumption ==
    /\ Targets \subseteq Nat \ {0, 1}
    /\ MaxRuns \in Nat /\ MaxFaults \in Nat /\ MaxKills \in Nat /\ MaxWrites \in Nat

VARIABLES
    tree,       \* file of the installation -> release it is of
    data,       \* RAB_DATA_DIR: [format, rows], or None while it is being copied
    image,      \* the tree the Docker image was built from
    trial,      \* is it a release that may still be rolled back
    running,    \* is the service up
    lock,       \* updates/.update.lock
    pc, target, todo, backup,
    manual,     \* the rollback is the administrator's
    before,     \* history: tree and data when the service was stopped
    owed,       \* history: writes accepted by a service that was not on trial
    runs, faults, kills, writes

state == <<tree, data, image, trial, running>>
counters == <<runs, kills, writes>>
vars == <<state, lock, pc, target, todo, backup, manual, before, owed, faults, counters>>

-----------------------------------------------------------------------------
(* Files: "config" holds APP_VERSION, "source" is any other shipped file,  *)
(* "added" and "obsolete" are shipped only after, only in release 1;       *)
(* "override" is docker-compose.override.yml, "env" holds RAB_IMAGE_NAME.  *)

LocalFiles == {"override", "env"}
Files == {"config", "source", "added", "obsolete"} \cup LocalFiles

Package == {"config", "source", "added", "override"}

Releases == Targets \cup {1}
Trees == [Files -> Releases \cup {Absent, Local}]
Datas == [format : Releases, rows : SUBSET (0..MaxWrites)]
Copies == [tree : UNION {[fs -> Releases \cup {Absent, Local}] : fs \in SUBSET Files}, data : Datas]

\* The marks for a missing file, a local file, no holder, no data and no copy.
ASSUME MarksAssumption ==
    /\ {Absent, Local} \cap Releases = {}
    /\ None \notin Updaters \cup Datas \cup Copies

Released(local) ==
    [f \in Files |-> CASE f = "override" -> local [] f = "added" -> Absent [] OTHER -> 1]

CurrentVersion == IF tree["config"] = Absent THEN 0 ELSE tree["config"]

\* A container that starts migrates the data to the format of its release.
Started(i) == [data EXCEPT !.format = IF i["config"] > @ THEN i["config"] ELSE @]

Preparing == {"prompt", "down", "snapshot"}
Guarded == {"unzip", "obsolete", "local", "build", "up", "health"}  \* traps are set
RollingBack == {"rb_down", "rb_files", "rb_rmtree", "rb_copytree", "rb_build", "rb_up"}

Init ==
    /\ \E local \in {Local, Absent} : tree = Released(local)
    /\ data = [format |-> 1, rows |-> {}]
    /\ image = tree /\ trial = FALSE /\ running = TRUE /\ lock = None
    /\ pc = [u \in Updaters |-> "ended"] /\ target = [u \in Updaters |-> 1]
    /\ todo = [u \in Updaters |-> {}] /\ backup = [u \in Updaters |-> None]
    /\ manual = [u \in Updaters |-> FALSE] /\ before = [u \in Updaters |-> None]
    /\ owed = {} /\ runs = 0 /\ faults = 0 /\ kills = 0 /\ writes = 0

-----------------------------------------------------------------------------
(* Control                                                                  *)

Goto(u, next) == pc' = [pc EXCEPT ![u] = next]
Fault == faults < MaxFaults /\ faults' = faults + 1
Same == UNCHANGED <<lock, manual>>

\* The script ends and with it its lock; "stuck" is for the administrator.
End(u, how) ==
    /\ Goto(u, how)
    /\ lock' = IF lock = u THEN None ELSE lock
    /\ manual' = [manual EXCEPT ![u] = FALSE]

\* The command has had its effect, and succeeds or not; set -e and the traps.
Then(u, next) ==
    /\ Same
    /\ \/ Goto(u, next) /\ UNCHANGED faults
       \/ Fault /\ Goto(u, "rb_down")

\* The same inside rollback_failed_update, which has no trap to fall back on.
Undone(u, next) ==
    \/ Goto(u, next) /\ UNCHANGED faults /\ Same
    \/ Fault /\ End(u, "stuck")

\* A command fails before it has any effect, or ^C or SIGTERM comes first.
\* "Vorheriger Stand wiederhergestellt, Start fehlgeschlagen": only a start is left.
Fail(u) ==
    /\ Fault
    /\ \/ pc[u] \in Guarded /\ Goto(u, "rb_down") /\ Same
       \/ pc[u] \in RollingBack \cup {"down"} /\ End(u, "stuck")
    /\ backup' = IF pc[u] \in {"rb_build", "rb_up"} THEN [backup EXCEPT ![u] = None] ELSE backup
    /\ UNCHANGED <<state, target, todo, before, owed, counters>>

Kill(u) ==
    /\ pc[u] \in {"down", "snapshot"} \cup Guarded \cup RollingBack /\ kills < MaxKills
    /\ kills' = kills + 1
    /\ End(u, "stuck")
    /\ UNCHANGED <<state, target, todo, backup, before, owed, faults, runs, writes>>

-----------------------------------------------------------------------------
(* perform_update                                                           *)

\* Before the lock is asked for: is the package newer than what is installed?
Compare(u, t) ==
    /\ pc[u] = "ended" /\ runs < MaxRuns
    /\ t > CurrentVersion
    /\ Goto(u, "lock")
    /\ target' = [target EXCEPT ![u] = t]
    /\ runs' = runs + 1
    /\ UNCHANGED <<state, todo, backup, before, owed, faults, kills, writes>> /\ Same

\* Mutant of Lock: flock without looking at its result.
LockIgnored(u) ==
    /\ pc[u] = "lock"
    /\ Goto(u, "prompt") /\ lock' = u /\ UNCHANGED manual
    /\ UNCHANGED <<state, target, todo, backup, before, owed, faults, counters>>
Lock(u) ==
    /\ pc[u] = "lock"
    /\ \/ lock = None /\ Goto(u, "prompt") /\ lock' = u /\ UNCHANGED manual
       \/ lock # None /\ End(u, "ended")
    /\ UNCHANGED <<state, target, todo, backup, before, owed, faults, counters>>

\* ADMIN-GUIDE.md:26: no second update against a partially restored installation.
\* mktemp -d: the copy will be in a directory of its own.
Prompt(u) ==
    /\ pc[u] = "prompt"
    /\ \/ End(u, "ended") /\ UNCHANGED backup
       \/ /\ \A w \in Updaters : pc[w] # "stuck" /\ ~manual[w]
          /\ Goto(u, "down") /\ Same
          /\ backup' = [backup EXCEPT ![u] = None]
    /\ UNCHANGED <<state, target, todo, before, owed, faults, counters>>

\* Mutant of Down: compose down reaches another container than the one that runs.
DownElsewhere(u) ==
    /\ pc[u] = "down"
    /\ before' = [before EXCEPT ![u] = [tree |-> tree, data |-> data]]
    /\ Goto(u, "snapshot") /\ Same
    /\ UNCHANGED <<state, target, todo, backup, owed, faults, counters>>
Down(u) ==
    /\ pc[u] = "down"
    /\ running' = FALSE
    /\ before' = [before EXCEPT ![u] = [tree |-> tree, data |-> data]]
    /\ Undone(u, "snapshot")
    /\ UNCHANGED <<tree, data, image, trial, target, todo, backup, owed, counters>>

\* Mutant of SnapshotFiles: what the package adds is not recorded.
ExistingFiles(u) == {f \in Files : tree[f] # Absent} \cup LocalFiles
\* Files there are, and files there will be: those are removed again.
SnapshotFiles(u) == {f \in Files : tree[f] # Absent} \cup Package \cup LocalFiles

Snapshot(u) ==
    /\ pc[u] = "snapshot"
    /\ backup' = [backup EXCEPT ![u] =
                     [tree |-> [f \in SnapshotFiles(u) |-> tree[f]], data |-> data]]
    /\ Goto(u, "unzip") /\ Same
    /\ todo' = [todo EXCEPT ![u] = Package]
    /\ UNCHANGED <<state, target, before, owed, faults, counters>>

\* Mutant of SnapshotFails: the script only ends.
SnapshotEnds(u) ==
    /\ pc[u] = "snapshot" /\ Fault
    /\ End(u, "ended")
    /\ UNCHANGED <<state, target, todo, backup, before, owed, counters>>
\* $COMPOSE up -d, of the image there is.
SnapshotFails(u) ==
    /\ pc[u] = "snapshot" /\ Fault
    /\ \/ running' = TRUE /\ data' = Started(image) /\ End(u, "ended")
       \/ UNCHANGED <<running, data>> /\ End(u, "stuck")
    /\ UNCHANGED <<tree, image, trial, target, todo, backup, before, owed, counters>>

Unzip(u) ==
    /\ pc[u] = "unzip"
    /\ \E f \in todo[u] :
          /\ tree' = [tree EXCEPT ![f] = target[u]]
          /\ todo' = [todo EXCEPT ![u] = @ \ {f}]
          /\ Then(u, IF todo[u] = {f} THEN "obsolete" ELSE "unzip")
    /\ UNCHANGED <<data, image, trial, running, target, backup, before, owed, counters>>

RemoveObsolete(u) ==
    /\ pc[u] = "obsolete"
    /\ tree' = [tree EXCEPT !["obsolete"] = Absent]
    /\ Then(u, "local")
    /\ UNCHANGED <<data, image, trial, running, target, todo, backup, before, owed, counters>>

\* copy_if_exists of the local files, maybe_update_image_name.
RestoreLocal(u) ==
    /\ pc[u] = "local"
    /\ LET mine == backup[u].tree["override"]
       IN  tree' = [tree EXCEPT !["override"] = IF mine = Absent THEN @ ELSE mine,
                               !["env"] = target[u]]
    /\ Then(u, "build")
    /\ UNCHANGED <<data, image, trial, running, target, todo, backup, before, owed, counters>>

\* remove_known_containers, then $COMPOSE build --no-cache.
Build(u) ==
    /\ pc[u] = "build"
    /\ running' = FALSE /\ image' = tree /\ trial' = TRUE
    /\ Then(u, "up")
    /\ UNCHANGED <<tree, data, target, todo, backup, before, owed, counters>>

Up(u) ==
    /\ pc[u] = "up"
    /\ running' = TRUE /\ data' = Started(image)
    /\ Then(u, "health")
    /\ UNCHANGED <<tree, image, trial, target, todo, backup, before, owed, counters>>

\* Healthy: the new release is accepted.  Unhealthy or a timeout is Fail.
Healthy(u) ==
    /\ pc[u] = "health"
    /\ End(u, "ended")
    /\ trial' = FALSE /\ owed' = data.rows
    /\ UNCHANGED <<tree, data, image, running, target, todo, backup, before, faults, counters>>

-----------------------------------------------------------------------------
(* rollback_failed_update; the administrator's rollback is the same by hand *)

\* "run python3 /path/to/preupdate/update_transaction.py rollback"
RollBackByHand(u) ==
    /\ pc[u] = "stuck" /\ backup[u] # None
    /\ Goto(u, "rb_down")
    /\ manual' = [manual EXCEPT ![u] = TRUE]
    /\ UNCHANGED <<state, lock, target, todo, backup, before, owed, faults, counters>>

\* Nothing was changed yet, or it is restored: build and start the service.
StartByHand(u) ==
    /\ pc[u] = "stuck" /\ backup[u] = None
    /\ image' = tree /\ trial' = FALSE
    /\ running' = TRUE /\ data' = Started(tree)
    /\ End(u, "ended")
    /\ UNCHANGED <<tree, target, todo, backup, before, owed, faults, counters>>

RollBackDown(u) ==
    /\ pc[u] = "rb_down"
    /\ running' = FALSE
    /\ todo' = [todo EXCEPT ![u] = DOMAIN backup[u].tree]
    /\ Undone(u, "rb_files")
    /\ UNCHANGED <<tree, data, image, trial, target, backup, before, owed, counters>>

\* Mutant of AfterFiles: data and backups are left as they are.
KeepData == "rb_build"
AfterFiles == "rb_rmtree"

RollBackFile(u) ==
    /\ pc[u] = "rb_files"
    /\ \E f \in todo[u] :
          /\ tree' = [tree EXCEPT ![f] = backup[u].tree[f]]
          /\ todo' = [todo EXCEPT ![u] = @ \ {f}]
          /\ Undone(u, IF todo[u] = {f} THEN AfterFiles ELSE "rb_files")
    /\ UNCHANGED <<data, image, trial, running, target, backup, before, owed, counters>>

RemoveData(u) ==
    /\ pc[u] = "rb_rmtree"
    /\ data' = None
    /\ Undone(u, "rb_copytree")
    /\ UNCHANGED <<tree, image, trial, running, target, todo, backup, before, owed, counters>>

CopyData(u) ==
    /\ pc[u] = "rb_copytree"
    /\ data' = backup[u].data
    /\ Undone(u, "rb_build")
    /\ UNCHANGED <<tree, image, trial, running, target, todo, backup, before, owed, counters>>

Restored(u) ==
    /\ Fault /\ End(u, "stuck")
    /\ backup' = [backup EXCEPT ![u] = None]

RollBackBuild(u) ==
    /\ pc[u] = "rb_build"
    /\ image' = tree /\ trial' = FALSE
    /\ \/ Goto(u, "rb_up") /\ UNCHANGED <<faults, backup>> /\ Same
       \/ Restored(u)
    /\ UNCHANGED <<tree, data, running, target, todo, before, owed, counters>>

RollBackUp(u) ==
    /\ pc[u] = "rb_up"
    /\ running' = TRUE /\ data' = Started(image)
    /\ \/ End(u, "ended") /\ UNCHANGED <<faults, backup>>
       \/ Restored(u)
    /\ UNCHANGED <<tree, image, trial, target, todo, before, owed, counters>>

-----------------------------------------------------------------------------
Write ==
    /\ running /\ writes < MaxWrites
    /\ writes' = writes + 1
    /\ data' = [data EXCEPT !.rows = @ \cup {writes}]
    /\ owed' = IF trial THEN owed ELSE owed \cup {writes}
    /\ UNCHANGED <<tree, image, trial, running, pc, target, todo, backup, before, faults, runs, kills>>
    /\ Same

Next ==
    \/ Write
    \/ \E u \in Updaters :
        \/ \E t \in Targets : Compare(u, t)
        \/ Lock(u) \/ Prompt(u) \/ Down(u) \/ Snapshot(u) \/ SnapshotFails(u)
        \/ Unzip(u) \/ RemoveObsolete(u) \/ RestoreLocal(u) \/ Build(u) \/ Up(u) \/ Healthy(u)
        \/ RollBackDown(u) \/ RollBackFile(u) \/ RemoveData(u) \/ CopyData(u)
        \/ RollBackBuild(u) \/ RollBackUp(u)
        \/ RollBackByHand(u) \/ StartByHand(u) \/ Fail(u) \/ Kill(u)

Spec == Init /\ [][Next]_vars

-----------------------------------------------------------------------------
(* Properties                                                               *)

UpdaterTypeOK ==
    /\ tree \in Trees /\ image["config"] \in Releases
    /\ data \in Datas \cup {None}
    /\ pc \in [Updaters -> {"ended", "lock", "stuck"} \cup Preparing \cup Guarded \cup RollingBack]
    /\ \A u \in Updaters : pc[u] \in Preparing \cup Guarded => lock = u

\* What the tree old is after an update to release v.
Updated(old, v) ==
    [f \in Files |->
        CASE f = "obsolete" -> Absent
          [] f = "override" /\ old[f] # Absent -> old[f]
          [] OTHER -> v]

\* update_transaction.py "Snapshot and roll back": an updater that ends, by
\* itself or with the administrator's rollback, has installed all of the new
\* release, or leaves tree and data format as they were when it stopped the
\* service, and every row that was there.
AllOrNothing ==
    [][\A u \in Updaters :
          pc[u] \in Guarded \cup RollingBack /\ pc'[u] = "ended" =>
            \/ tree' = Updated(before[u].tree, target[u]) /\ data'.format = target[u]
            \/ /\ tree' = before[u].tree /\ data'.format = before[u].data.format
               /\ before[u].data.rows \subseteq data'.rows]_vars

\* What serves was built from one release, and it is not older than the
\* release that migrated its data.
RunningFitsData ==
    running => /\ data # None
               /\ \A f \in {"source"} \cup IF image["config"] = 1 THEN {} ELSE {"added"} :
                     image[f] = image["config"]
               /\ data.format <= image["config"]

\* What a release that was not on trial accepted is in the data, or in the
\* copy that the rollback in progress, or the administrator, will put back.
AcceptedWritesSurvive ==
    \/ data # None /\ owed \subseteq data.rows
    \/ \E u \in Updaters :
          /\ pc[u] \in Guarded \cup RollingBack \cup {"stuck"}
          /\ backup[u] # None /\ owed \subseteq backup[u].data.rows

\* The updater never ends with the service down without saying so: it is up
\* unless an update is in progress or left to the administrator.
ServiceIsBack == (\A u \in Updaters : pc[u] \in {"ended", "lock", "prompt"}) => running
=============================================================================
