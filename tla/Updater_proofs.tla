----------------------------- MODULE Updater_proofs -----------------------------
(***************************************************************************)
(* Proofs about Updater, for any updaters, releases, writes, failures and  *)
(* kills.  UInv is inductive: one invocation at a time is beyond its       *)
(* prompt (OneBusy), the installation is whole when none is (RestInv), and *)
(* from the snapshot to its end an invocation has a copy from which the    *)
(* old tree and data come back (CopyInv), however far the new files and    *)
(* the rollback have come (InstallInv, RollBackInv).                       *)
(*                                                                         *)
(* The version is compared before updates/.update.lock is taken, so two    *)
(* invocations for different releases can install the older one over the   *)
(* newer (TLC finds it with Targets = {2, 3}).  What the format of the     *)
(* data has to do with the release is therefore proved under Ordered.      *)
(***************************************************************************)
EXTENDS Updater, Versions, TLAPS

Busy == {"down", "snapshot", "stuck"} \cup Guarded \cup RollingBack

\* Releases are installed in ascending order if nobody else can come between
\* the comparison and the lock, or if everybody installs the same release.
Ordered ==
    \/ \A u, w \in Updaters : u = w
    \/ \A s, t \in Targets : s = t

TypeInv ==
    /\ UpdaterTypeOK
    /\ image \in Trees
    /\ lock \in Updaters \cup {None}
    /\ target \in [Updaters -> Releases]
    /\ \A u \in Updaters : pc[u] \in {"lock"} \cup Preparing \cup Guarded => target[u] \in Targets
    /\ todo \in [Updaters -> SUBSET Files]
    /\ backup \in [Updaters -> Copies \cup {None}]
    /\ DOMAIN before = Updaters
    /\ manual \in [Updaters -> BOOLEAN]
    /\ writes \in Nat /\ running \in BOOLEAN /\ trial \in BOOLEAN

\* One updater at a time goes beyond its prompt, the one that left the rest to
\* the administrator included; by itself it holds the lock.
OneBusy ==
    /\ \A u, w \in Updaters : pc[u] \in Busy /\ pc[w] \in Busy => u = w
    /\ \A u \in Updaters : manual[u] => pc[u] \in RollingBack
    /\ \A u \in Updaters :
          pc[u] \in Preparing \cup Guarded \cup RollingBack /\ ~manual[u] => lock = u

\* One release: the sources fit, and the files it added are there.
Clean(i) ==
    /\ i["config"] \in Releases /\ i["source"] = i["config"]
    /\ i["config"] = 1 \/ i["added"] = i["config"]

\* The installation between two updates.
Settled ==
    /\ Clean(tree)
    /\ data \in Datas /\ owed \subseteq data.rows
    /\ Ordered => data.format = tree["config"]
    /\ running => image = tree /\ ~trial

RestInv == (\A u \in Updaters : pc[u] \notin Busy) => Settled /\ running /\ image = tree /\ ~trial

\* Until the snapshot nothing changes but the service, which goes down.
PreparingInv ==
    \A u \in Updaters :
        /\ pc[u] \in {"down", "snapshot"} => Settled /\ image = tree /\ ~trial /\ backup[u] = None
        /\ pc[u] = "down" => running
        /\ pc[u] = "snapshot" => ~running /\ before[u] = [tree |-> tree, data |-> data]
        /\ pc[u] = "stuck" /\ backup[u] = None => Settled

\* The backup of an invocation holds what the installation was before it.
Copied(u) ==
    LET old == before[u].tree copied == backup[u].tree IN
    /\ before[u] \in [tree : Trees, data : Datas] /\ Clean(old)
    /\ Ordered => before[u].data.format = old["config"]
    /\ backup[u].data = before[u].data /\ owed \subseteq before[u].data.rows
    /\ \A f \in Files :
          IF f \in DOMAIN copied THEN copied[f] = old[f]
          ELSE f = "obsolete" /\ old[f] = Absent /\ tree[f] = Absent
    /\ running => trial /\ data \in Datas /\ Clean(image) /\ (Ordered => data.format <= image["config"])

\* Whoever changes files has a backup.
CopyInv ==
    \A u \in Updaters :
        /\ pc[u] \in Guarded \cup RollingBack => backup[u] # None
        /\ pc[u] \in Guarded \cup RollingBack \cup {"stuck"} /\ backup[u] # None => Copied(u)

\* How far the new release has come.
InstallInv ==
    \A u \in Updaters :
        LET old == before[u].tree IN
        /\ pc[u] \in Guarded \ {"health"} => ~running /\ data = before[u].data
        /\ pc[u] = "unzip" =>
               /\ todo[u] \subseteq Package
               /\ \A f \in Files : tree[f] = IF f \in Package \ todo[u] THEN target[u] ELSE old[f]
        /\ pc[u] = "obsolete" => \A f \in Files : tree[f] = IF f \in Package THEN target[u] ELSE old[f]
        /\ pc[u] = "local" =>
               \A f \in Files : tree[f] = IF f \in Package THEN target[u]
                                          ELSE IF f = "obsolete" THEN Absent ELSE old[f]
        /\ pc[u] \in {"build", "up", "health"} => tree = Updated(old, target[u])
        /\ pc[u] \in {"up", "health"} => image = tree /\ trial
        /\ pc[u] = "health" =>
               /\ running /\ data \in Datas /\ before[u].data.rows \subseteq data.rows
               /\ Ordered => data.format = target[u]

\* How far the old one is back.
RollBackInv ==
    \A u \in Updaters :
        /\ pc[u] \in RollingBack \ {"rb_down"} => ~running
        /\ pc[u] = "rb_files" =>
               /\ todo[u] \subseteq DOMAIN backup[u].tree
               /\ \A f \in DOMAIN backup[u].tree \ todo[u] : tree[f] = before[u].tree[f]
        /\ pc[u] \in {"rb_rmtree", "rb_copytree", "rb_build", "rb_up"} => tree = before[u].tree
        /\ pc[u] \in {"rb_build", "rb_up"} => data = before[u].data
        /\ pc[u] = "rb_up" => image = tree /\ ~trial

\* What is about to be installed is not older than the data.
NotOlder ==
    Ordered => \A u \in Updaters :
        /\ pc[u] \in {"lock", "prompt", "down", "snapshot"} => data = None \/ data.format <= target[u]
        /\ pc[u] \in Guarded => before[u].data.format <= target[u]

UInv ==
    /\ TypeInv /\ OneBusy /\ RestInv /\ PreparingInv /\ CopyInv /\ InstallInv /\ RollBackInv /\ NotOlder

-----------------------------------------------------------------------------
\* Releases can be compared.
LEMMA ReleasesAreNumbers == Releases \subseteq Nat /\ Targets \subseteq Releases
<1>1. Targets \subseteq Nat /\ 1 \in Nat
    BY UpdaterAssumption
<1> QED
    BY <1>1 DEF Releases

\* A container that starts keeps the rows and never takes the format back.
LEMMA StartedData ==
    ASSUME data \in Datas, NEW i, i["config"] \in Releases
    PROVE  /\ Started(i) \in Datas /\ Started(i).rows = data.rows
           /\ Started(i).format = IF i["config"] > data.format THEN i["config"] ELSE data.format
BY DEF Started, Datas

\* Who is beyond its prompt is alone there.
LEMMA Alone ==
    ASSUME UInv, NEW u \in Updaters, pc[u] \in Busy
    PROVE  \A w \in Updaters : w # u => pc[w] \in {"ended", "lock", "prompt"}
BY DEF UInv, OneBusy, TypeInv, UpdaterTypeOK, Busy, Preparing

\* Who waits for the lock while another updater works installs the same release.
LEMMA SameRelease ==
    ASSUME UInv, Ordered, NEW u \in Updaters
    PROVE  \A w \in Updaters : w # u /\ pc[w] \in {"lock", "prompt"} =>
               \A d \in Datas : d.format <= target[w]
<1> SUFFICES ASSUME NEW w \in Updaters, w # u, pc[w] \in {"lock", "prompt"}, NEW d \in Datas
             PROVE  d.format <= target[w]
    OBVIOUS
<1>1. target[w] \in Targets /\ d.format \in Releases
    BY DEF UInv, TypeInv, Preparing, Datas
<1>2. \A s, t \in Targets : s = t
    BY DEF Ordered
<1>3. d.format = target[w] \/ d.format = 1
    BY <1>1, <1>2 DEF Releases
<1>4. target[w] \in Nat \ {0, 1}
    BY <1>1, UpdaterAssumption
<1> QED
    BY <1>3, <1>4

\* Whoever finds the lock taken ends.
LEMMA StepLock ==
    ASSUME UInv, NEW u \in Updaters, Lock(u)
    PROVE  UInv'
<1> USE MarksAssumption, UpdaterAssumption
    DEF Lock, state, counters, Same, Goto, End, Then, Undone, Fault, Restored, Busy, Preparing,
        Guarded, RollingBack, AfterFiles, UInv, TypeInv, UpdaterTypeOK, OneBusy
<1>2. TypeInv'
    <2>1. /\ pc' \in [Updaters -> {"ended", "lock", "stuck"} \cup Preparing \cup Guarded \cup RollingBack]
          /\ lock' \in Updaters \cup {None}
        OBVIOUS
    <2>a. manual' = manual \/ manual' = [manual EXCEPT ![u] = FALSE]
        OBVIOUS
    <2>b. manual \in [Updaters -> BOOLEAN]
        OBVIOUS
    <2>2. manual' \in [Updaters -> BOOLEAN]
        BY ONLY <2>a, <2>b, Zenon
    <2>3. \A w \in Updaters : pc'[w] \in Preparing \cup Guarded => lock' = w /\ target'[w] \in Targets
        OBVIOUS
    <2> QED
        BY <2>2
<1>3. OneBusy'
    OBVIOUS
<1>4. RestInv'
    BY DEF RestInv, Settled
<1>5. PreparingInv'
    BY DEF PreparingInv, Settled
<1>6. CopyInv'
    BY DEF CopyInv, Copied
<1>7. InstallInv'
    BY DEF InstallInv
<1>8. RollBackInv'
    BY DEF RollBackInv
<1>9. NotOlder'
    BY DEF NotOlder
<1> QED
    BY <1>2, <1>4, <1>5, <1>6, <1>7, <1>8, <1>9

\* The administrator agrees or not; nothing else has changed.
LEMMA StepPrompt ==
    ASSUME UInv, NEW u \in Updaters, Prompt(u)
    PROVE  UInv'
<1> USE MarksAssumption, UpdaterAssumption
    DEF Prompt, state, counters, Same, Goto, End, Then, Undone, Fault, Restored, Busy, Preparing,
        Guarded, RollingBack, AfterFiles, UInv, TypeInv, UpdaterTypeOK, OneBusy
<1>2. TypeInv'
    <2>1. backup' \in [Updaters -> Copies \cup {None}]
        OBVIOUS
    <2>2. /\ pc' \in [Updaters -> {"ended", "lock", "stuck"} \cup Preparing \cup Guarded \cup RollingBack]
          /\ lock' \in Updaters \cup {None}
        OBVIOUS
    <2>a. manual' = manual \/ manual' = [manual EXCEPT ![u] = FALSE]
        OBVIOUS
    <2>b. manual \in [Updaters -> BOOLEAN]
        OBVIOUS
    <2>3. manual' \in [Updaters -> BOOLEAN]
        BY ONLY <2>a, <2>b, Zenon
    <2>4. \A w \in Updaters : pc'[w] \in Preparing \cup Guarded => lock' = w /\ target'[w] \in Targets
        OBVIOUS
    <2> QED
        BY <2>3
<1>3. OneBusy'
    OBVIOUS
<1>4. RestInv'
    BY DEF RestInv, Settled
<1>5. PreparingInv'
    BY DEF PreparingInv, RestInv, Settled
<1>6. CopyInv'
    BY DEF CopyInv, Copied
<1>7. InstallInv'
    BY DEF InstallInv
<1>8. RollBackInv'
    BY DEF RollBackInv
<1>9. NotOlder'
    BY DEF NotOlder
<1> QED
    BY <1>2, <1>4, <1>5, <1>6, <1>7, <1>8, <1>9

\* The containers stop.
LEMMA StepDown ==
    ASSUME UInv, NEW u \in Updaters, Down(u)
    PROVE  UInv'
<1> USE MarksAssumption, UpdaterAssumption
    DEF Down, state, counters, Same, Goto, End, Then, Undone, Fault, Restored, Busy, Preparing,
        Guarded, RollingBack, AfterFiles, UInv, TypeInv, UpdaterTypeOK, OneBusy
<1>1. \A w \in Updaters : w # u => pc[w] \in {"ended", "lock", "prompt"}
    OBVIOUS
<1>2. TypeInv'
    <2>1. /\ pc' \in [Updaters -> {"ended", "lock", "stuck"} \cup Preparing \cup Guarded \cup RollingBack]
          /\ lock' \in Updaters \cup {None}
        OBVIOUS
    <2>2. manual' \in [Updaters -> BOOLEAN]
        OBVIOUS
    <2>3. \A w \in Updaters : pc'[w] \in Preparing \cup Guarded => lock' = w /\ target'[w] \in Targets
        OBVIOUS
    <2> QED
        BY <2>1, <2>2, <2>3
<1>3. OneBusy'
    OBVIOUS
<1>4. RestInv'
    BY DEF RestInv
<1>5. PreparingInv'
    BY DEF PreparingInv, Settled
<1>6. CopyInv'
    BY DEF CopyInv, PreparingInv
<1>7. InstallInv'
    BY DEF InstallInv
<1>8. RollBackInv'
    BY DEF RollBackInv
<1>9. NotOlder'
    BY DEF NotOlder
<1> QED
    BY <1>2, <1>4, <1>5, <1>6, <1>7, <1>8, <1>9

\* The copy is complete before it is named as the backup.
LEMMA StepSnapshot ==
    ASSUME UInv, NEW u \in Updaters, Snapshot(u)
    PROVE  UInv'
<1> USE MarksAssumption, UpdaterAssumption
    DEF Snapshot, state, counters, Same, Goto, End, Then, Undone, Fault, Restored, Busy, Preparing,
        Guarded, RollingBack, AfterFiles, UInv, TypeInv, UpdaterTypeOK, OneBusy
<1>1. \A w \in Updaters : w # u => pc[w] \in {"ended", "lock", "prompt"}
    OBVIOUS
<1>c. PICK t : t = [f \in SnapshotFiles(u) |-> tree[f]] /\ backup' = [backup EXCEPT ![u] = [tree |-> t, data |-> data]]
    OBVIOUS
<1>d. DOMAIN t \subseteq Files /\ \A f \in Files : IF f \in DOMAIN t THEN t[f] = tree[f] ELSE f = "obsolete" /\ tree[f] = Absent
    BY <1>c DEF SnapshotFiles, Files, Package, LocalFiles
<1>e. [tree |-> t, data |-> data] \in Copies
    <2>1. t \in [DOMAIN t -> Releases \cup {Absent, Local}]
        BY <1>c, <1>d DEF Trees
    <2>2. data \in Datas
        BY DEF PreparingInv, Settled
    <2> QED
        BY <1>d, <2>1, <2>2 DEF Copies
<1>2. TypeInv'
    <2>1. todo' \in [Updaters -> SUBSET Files]
        BY DEF Files, LocalFiles, Package
    <2>2. backup' \in [Updaters -> Copies \cup {None}]
        BY <1>c, <1>e
    <2>3. /\ pc' \in [Updaters -> {"ended", "lock", "stuck"} \cup Preparing \cup Guarded \cup RollingBack]
          /\ lock' \in Updaters \cup {None}
        OBVIOUS
    <2>4. manual' \in [Updaters -> BOOLEAN]
        OBVIOUS
    <2>5. \A w \in Updaters : pc'[w] \in Preparing \cup Guarded => lock' = w /\ target'[w] \in Targets
        OBVIOUS
    <2> QED
        BY <2>1, <2>2
<1>3. OneBusy'
    OBVIOUS
<1>4. RestInv'
    BY DEF RestInv
<1>5. PreparingInv'
    BY DEF PreparingInv
<1>6. CopyInv'
    <2>1. Settled /\ ~running /\ before[u] = [tree |-> tree, data |-> data]
        BY DEF PreparingInv
    <2>2. backup'[u] # None /\ backup'[u] = [tree |-> t, data |-> data]
        BY <1>c, <1>e
    <2>3. Copied(u)'
        BY <1>d, <2>1, <2>2 DEF Copied, Settled
    <2> QED
        BY <2>2, <2>3 DEF CopyInv
<1>7. InstallInv'
    BY DEF InstallInv, PreparingInv
<1>8. RollBackInv'
    BY DEF RollBackInv
<1>9. NotOlder'
    BY DEF NotOlder, PreparingInv, Settled
<1> QED
    BY <1>2, <1>4, <1>5, <1>6, <1>7, <1>8, <1>9

\* Without a complete copy the update ends as it began.
LEMMA StepSnapshotFails ==
    ASSUME UInv, NEW u \in Updaters, SnapshotFails(u)
    PROVE  UInv'
<1> USE MarksAssumption, UpdaterAssumption
    DEF SnapshotFails, state, counters, Same, Goto, End, Then, Undone, Fault, Restored, Busy, Preparing,
        Guarded, RollingBack, AfterFiles, UInv, TypeInv, UpdaterTypeOK, OneBusy
<1>1. \A w \in Updaters : w # u => pc[w] \in {"ended", "lock", "prompt"}
    OBVIOUS
<1>s. data \in Datas /\ image["config"] \in Releases
    BY DEF PreparingInv, Settled
<1>t. /\ Started(image) \in Datas /\ Started(image).rows = data.rows
      /\ Started(image).format = IF image["config"] > data.format THEN image["config"] ELSE data.format
    BY <1>s, StartedData
<1>2. TypeInv'
    <2>1. data' \in Datas \cup {None}
        BY <1>t
    <2>2. /\ pc' \in [Updaters -> {"ended", "lock", "stuck"} \cup Preparing \cup Guarded \cup RollingBack]
          /\ lock' \in Updaters \cup {None}
        OBVIOUS
    <2>3. manual' \in [Updaters -> BOOLEAN]
        OBVIOUS
    <2>4. \A w \in Updaters : pc'[w] \in Preparing \cup Guarded => lock' = w /\ target'[w] \in Targets
        OBVIOUS
    <2> QED
        BY <2>1, <2>2, <2>3, <2>4
<1>3. OneBusy'
    OBVIOUS
<1>4. RestInv'
    BY <1>t DEF RestInv, Settled, PreparingInv, Datas
<1>5. PreparingInv'
    BY DEF PreparingInv, Settled
<1>6. CopyInv'
    BY DEF CopyInv, PreparingInv
<1>7. InstallInv'
    BY DEF InstallInv
<1>8. RollBackInv'
    BY DEF RollBackInv
<1>9. NotOlder'
    BY <1>t, SameRelease DEF NotOlder
<1> QED
    BY <1>2, <1>4, <1>5, <1>6, <1>7, <1>8, <1>9

\* One more file of the package.
LEMMA StepUnzip ==
    ASSUME UInv, NEW u \in Updaters, Unzip(u)
    PROVE  UInv'
<1> USE MarksAssumption, UpdaterAssumption
    DEF Unzip, state, counters, Same, Goto, End, Then, Undone, Fault, Restored, Busy, Preparing,
        Guarded, RollingBack, AfterFiles, UInv, TypeInv, UpdaterTypeOK, OneBusy
<1>1. \A w \in Updaters : w # u => pc[w] \in {"ended", "lock", "prompt"}
    OBVIOUS
<1>2. TypeInv'
    <2>1. tree' \in Trees
        BY DEF Trees
    <2>2. todo' \in [Updaters -> SUBSET Files]
        OBVIOUS
    <2>3. /\ pc' \in [Updaters -> {"ended", "lock", "stuck"} \cup Preparing \cup Guarded \cup RollingBack]
          /\ lock' \in Updaters \cup {None}
        OBVIOUS
    <2>4. manual' \in [Updaters -> BOOLEAN]
        OBVIOUS
    <2>5. \A w \in Updaters : pc'[w] \in Preparing \cup Guarded => lock' = w /\ target'[w] \in Targets
        OBVIOUS
    <2> QED
        BY <2>1
<1>3. OneBusy'
    OBVIOUS
<1>4. RestInv'
    BY DEF RestInv
<1>5. PreparingInv'
    BY DEF PreparingInv
<1>6. CopyInv'
    BY DEF CopyInv, Copied, InstallInv, Package
<1>7. InstallInv'
    BY DEF InstallInv, Trees
<1>8. RollBackInv'
    BY DEF RollBackInv
<1>9. NotOlder'
    BY DEF NotOlder
<1> QED
    BY <1>2, <1>4, <1>5, <1>6, <1>7, <1>8, <1>9

\* The file that the new release no longer has.
LEMMA StepRemoveObsolete ==
    ASSUME UInv, NEW u \in Updaters, RemoveObsolete(u)
    PROVE  UInv'
<1> USE MarksAssumption, UpdaterAssumption
    DEF RemoveObsolete, state, counters, Same, Goto, End, Then, Undone, Fault, Restored, Busy, Preparing,
        Guarded, RollingBack, AfterFiles, UInv, TypeInv, UpdaterTypeOK, OneBusy
<1>1. \A w \in Updaters : w # u => pc[w] \in {"ended", "lock", "prompt"}
    OBVIOUS
<1>2. TypeInv'
    <2>1. tree' \in Trees
        BY DEF Trees
    <2>2. /\ pc' \in [Updaters -> {"ended", "lock", "stuck"} \cup Preparing \cup Guarded \cup RollingBack]
          /\ lock' \in Updaters \cup {None}
        OBVIOUS
    <2>3. manual' \in [Updaters -> BOOLEAN]
        OBVIOUS
    <2>4. \A w \in Updaters : pc'[w] \in Preparing \cup Guarded => lock' = w /\ target'[w] \in Targets
        OBVIOUS
    <2> QED
        BY <2>1
<1>3. OneBusy'
    OBVIOUS
<1>4. RestInv'
    BY DEF RestInv
<1>5. PreparingInv'
    BY DEF PreparingInv
<1>6. CopyInv'
    BY DEF CopyInv, Copied
<1>7. InstallInv'
    BY DEF InstallInv, Package, Trees
<1>8. RollBackInv'
    BY DEF RollBackInv
<1>9. NotOlder'
    BY DEF NotOlder
<1> QED
    BY <1>2, <1>4, <1>5, <1>6, <1>7, <1>8, <1>9

\* The local settings come back from the copy.
LEMMA StepRestoreLocal ==
    ASSUME UInv, NEW u \in Updaters, RestoreLocal(u)
    PROVE  UInv'
<1> USE MarksAssumption, UpdaterAssumption
    DEF RestoreLocal, state, counters, Same, Goto, End, Then, Undone, Fault, Restored, Busy, Preparing,
        Guarded, RollingBack, AfterFiles, UInv, TypeInv, UpdaterTypeOK, OneBusy
<1>1. \A w \in Updaters : w # u => pc[w] \in {"ended", "lock", "prompt"}
    OBVIOUS
<1>2. TypeInv'
    <2>1. tree' \in Trees
        BY DEF Trees, Files, LocalFiles, CopyInv, Copied
    <2>2. /\ pc' \in [Updaters -> {"ended", "lock", "stuck"} \cup Preparing \cup Guarded \cup RollingBack]
          /\ lock' \in Updaters \cup {None}
        OBVIOUS
    <2>3. manual' \in [Updaters -> BOOLEAN]
        OBVIOUS
    <2>4. \A w \in Updaters : pc'[w] \in Preparing \cup Guarded => lock' = w /\ target'[w] \in Targets
        OBVIOUS
    <2> QED
        BY <2>1
<1>3. OneBusy'
    OBVIOUS
<1>4. RestInv'
    BY DEF RestInv
<1>5. PreparingInv'
    BY DEF PreparingInv
<1>6. CopyInv'
    BY DEF CopyInv, Copied, Trees
<1>7. InstallInv'
    <2>1. Copied(u) /\ "override" \in DOMAIN backup[u].tree
        BY DEF CopyInv, Copied, Files, LocalFiles
    <2>2. backup[u].tree["override"] = before[u].tree["override"]
        BY <2>1 DEF Copied, Files, LocalFiles
    <2>3. tree' \in Trees /\ \A f \in Files : tree'[f] = Updated(before[u].tree, target[u])[f]
        BY <1>2, <2>2 DEF InstallInv, Updated, Files, LocalFiles, Package, Trees
    <2>4. tree' = Updated(before[u].tree, target[u])
        BY <2>3 DEF Trees, Updated
    <2>5. pc'[u] \in {"build", "rb_down"} /\ \A w \in Updaters : w # u => pc'[w] \in {"ended", "lock", "prompt"}
        OBVIOUS
    <2>6. ~running' /\ data' = before'[u].data /\ before' = before /\ target' = target
        BY DEF InstallInv
    <2> QED
        BY <2>4, <2>5 DEF InstallInv
<1>8. RollBackInv'
    BY DEF RollBackInv
<1>9. NotOlder'
    BY DEF NotOlder
<1> QED
    BY <1>2, <1>4, <1>5, <1>6, <1>7, <1>8, <1>9

\* An image of the new files.
LEMMA StepBuild ==
    ASSUME UInv, NEW u \in Updaters, Build(u)
    PROVE  UInv'
<1> USE MarksAssumption, UpdaterAssumption
    DEF Build, state, counters, Same, Goto, End, Then, Undone, Fault, Restored, Busy, Preparing,
        Guarded, RollingBack, AfterFiles, UInv, TypeInv, UpdaterTypeOK, OneBusy
<1>1. \A w \in Updaters : w # u => pc[w] \in {"ended", "lock", "prompt"}
    OBVIOUS
<1>2. TypeInv'
    <2>1. image' \in Trees /\ image'["config"] \in Releases
        BY DEF InstallInv, Updated, Files
    <2>2. /\ pc' \in [Updaters -> {"ended", "lock", "stuck"} \cup Preparing \cup Guarded \cup RollingBack]
          /\ lock' \in Updaters \cup {None}
        OBVIOUS
    <2>3. manual' \in [Updaters -> BOOLEAN]
        OBVIOUS
    <2>4. \A w \in Updaters : pc'[w] \in Preparing \cup Guarded => lock' = w /\ target'[w] \in Targets
        OBVIOUS
    <2> QED
        BY <2>1, <2>2
<1>3. OneBusy'
    OBVIOUS
<1>4. RestInv'
    BY DEF RestInv
<1>5. PreparingInv'
    BY DEF PreparingInv
<1>6. CopyInv'
    BY DEF CopyInv, Copied
<1>7. InstallInv'
    BY DEF InstallInv
<1>8. RollBackInv'
    BY DEF RollBackInv
<1>9. NotOlder'
    BY DEF NotOlder
<1> QED
    BY <1>2, <1>4, <1>5, <1>6, <1>7, <1>8, <1>9

\* The new release starts with the data, on trial.
LEMMA StepUp ==
    ASSUME UInv, NEW u \in Updaters, Up(u)
    PROVE  UInv'
<1> USE MarksAssumption, UpdaterAssumption
    DEF Up, state, counters, Same, Goto, End, Then, Undone, Fault, Restored, Busy, Preparing,
        Guarded, RollingBack, AfterFiles, UInv, TypeInv, UpdaterTypeOK, OneBusy
<1>1. \A w \in Updaters : w # u => pc[w] \in {"ended", "lock", "prompt"}
    OBVIOUS
<1>s. data \in Datas /\ image["config"] \in Releases
    BY DEF CopyInv, Copied, InstallInv
<1>t. /\ Started(image) \in Datas /\ Started(image).rows = data.rows
      /\ Started(image).format = IF image["config"] > data.format THEN image["config"] ELSE data.format
    BY <1>s, StartedData
<1>2. TypeInv'
    <2>1. data' \in Datas \cup {None}
        BY <1>t
    <2>2. /\ pc' \in [Updaters -> {"ended", "lock", "stuck"} \cup Preparing \cup Guarded \cup RollingBack]
          /\ lock' \in Updaters \cup {None}
        OBVIOUS
    <2>3. manual' \in [Updaters -> BOOLEAN]
        OBVIOUS
    <2>4. \A w \in Updaters : pc'[w] \in Preparing \cup Guarded => lock' = w /\ target'[w] \in Targets
        OBVIOUS
    <2> QED
        BY <2>1
<1>3. OneBusy'
    OBVIOUS
<1>4. RestInv'
    BY DEF RestInv
<1>5. PreparingInv'
    BY DEF PreparingInv
<1>6. CopyInv'
    BY <1>t DEF CopyInv, Copied, InstallInv, Clean, Files, Updated, NotOlder
<1>7. InstallInv'
    BY <1>1, <1>s, <1>t DEF InstallInv, CopyInv, Copied, PreparingInv, Updated, Files,
       LocalFiles, Package, Datas, Trees, Releases, NotOlder, Ordered
<1>8. RollBackInv'
    BY DEF RollBackInv
<1>9. NotOlder'
    <2>1. ASSUME NEW w \in Updaters, Ordered, w # u, pc[w] \in {"lock", "prompt"} PROVE data' = None \/ data'.format <= target[w]
        <3>1. data' \in Datas \cup {None}
            BY <1>2
        <3> QED
            BY <2>1, <3>1, SameRelease
    <2> QED
        BY <2>1 DEF NotOlder
<1> QED
    BY <1>2, <1>4, <1>5, <1>6, <1>7, <1>8, <1>9

\* The update has succeeded, and what is accepted from now on counts.
LEMMA StepHealthy ==
    ASSUME UInv, NEW u \in Updaters, Healthy(u)
    PROVE  UInv'
<1> USE MarksAssumption, UpdaterAssumption
    DEF Healthy, state, counters, Same, Goto, End, Then, Undone, Fault, Restored, Busy, Preparing,
        Guarded, RollingBack, AfterFiles, UInv, TypeInv, UpdaterTypeOK, OneBusy
<1>1. \A w \in Updaters : w # u => pc[w] \in {"ended", "lock", "prompt"}
    OBVIOUS
<1>2. TypeInv'
    <2>1. /\ pc' \in [Updaters -> {"ended", "lock", "stuck"} \cup Preparing \cup Guarded \cup RollingBack]
          /\ lock' \in Updaters \cup {None}
        OBVIOUS
    <2>2. manual' \in [Updaters -> BOOLEAN]
        OBVIOUS
    <2>3. \A w \in Updaters : pc'[w] \in Preparing \cup Guarded => lock' = w /\ target'[w] \in Targets
        OBVIOUS
    <2> QED
        OBVIOUS
<1>3. OneBusy'
    OBVIOUS
<1>4. RestInv'
    BY DEF RestInv, Settled, InstallInv, Updated, Clean, Files
<1>5. PreparingInv'
    BY DEF PreparingInv
<1>6. CopyInv'
    BY DEF CopyInv
<1>7. InstallInv'
    BY DEF InstallInv
<1>8. RollBackInv'
    BY DEF RollBackInv
<1>9. NotOlder'
    BY DEF NotOlder
<1> QED
    BY <1>3, <1>4, <1>5, <1>6, <1>7, <1>8, <1>9

\* The trial ends.
LEMMA StepRollBackDown ==
    ASSUME UInv, NEW u \in Updaters, RollBackDown(u)
    PROVE  UInv'
<1> USE MarksAssumption, UpdaterAssumption
    DEF RollBackDown, state, counters, Same, Goto, End, Then, Undone, Fault, Restored, Busy, Preparing,
        Guarded, RollingBack, AfterFiles, UInv, TypeInv, UpdaterTypeOK, OneBusy
<1>1. \A w \in Updaters : w # u => pc[w] \in {"ended", "lock", "prompt"}
    OBVIOUS
<1>2. TypeInv'
    <2>1. todo' \in [Updaters -> SUBSET Files]
        <3>1. Copied(u)
            BY DEF CopyInv
        <3>2. backup[u] \in Copies /\ DOMAIN backup[u].tree \subseteq Files
            BY DEF CopyInv, Copies
        <3> QED
            BY <3>2
    <2>2. /\ pc' \in [Updaters -> {"ended", "lock", "stuck"} \cup Preparing \cup Guarded \cup RollingBack]
          /\ lock' \in Updaters \cup {None}
        OBVIOUS
    <2>3. manual' \in [Updaters -> BOOLEAN]
        OBVIOUS
    <2>4. \A w \in Updaters : pc'[w] \in Preparing \cup Guarded => lock' = w /\ target'[w] \in Targets
        OBVIOUS
    <2> QED
        BY <2>1, <2>2, <2>3, <2>4
<1>3. OneBusy'
    OBVIOUS
<1>4. RestInv'
    BY DEF RestInv
<1>5. PreparingInv'
    BY DEF PreparingInv, CopyInv
<1>6. CopyInv'
    BY DEF CopyInv, Copied
<1>7. InstallInv'
    BY DEF InstallInv
<1>8. RollBackInv'
    BY DEF RollBackInv
<1>9. NotOlder'
    BY DEF NotOlder
<1> QED
    BY <1>2, <1>4, <1>5, <1>6, <1>7, <1>8, <1>9

\* One more file of the copy.
LEMMA StepRollBackFile ==
    ASSUME UInv, NEW u \in Updaters, RollBackFile(u)
    PROVE  UInv'
<1> USE MarksAssumption, UpdaterAssumption
    DEF RollBackFile, state, counters, Same, Goto, End, Then, Undone, Fault, Restored, Busy, Preparing,
        Guarded, RollingBack, AfterFiles, UInv, TypeInv, UpdaterTypeOK, OneBusy
<1>1. \A w \in Updaters : w # u => pc[w] \in {"ended", "lock", "prompt"}
    OBVIOUS
<1>f. PICK f \in todo[u] :
          /\ tree' = [tree EXCEPT ![f] = backup[u].tree[f]]
          /\ todo' = [todo EXCEPT ![u] = @ \ {f}]
          /\ Undone(u, IF todo[u] = {f} THEN AfterFiles ELSE "rb_files")
    OBVIOUS
<1>g. Copied(u) /\ f \in Files /\ todo[u] \subseteq DOMAIN backup[u].tree
    BY DEF CopyInv, RollBackInv
<1>h. backup[u].tree[f] = before[u].tree[f] /\ before[u].tree \in Trees
    BY <1>g DEF Copied
<1>2. TypeInv'
    <2>1. tree' \in Trees
        BY <1>f, <1>h DEF Trees
    <2>2. todo' \in [Updaters -> SUBSET Files]
        OBVIOUS
    <2>3. /\ pc' \in [Updaters -> {"ended", "lock", "stuck"} \cup Preparing \cup Guarded \cup RollingBack]
          /\ lock' \in Updaters \cup {None}
        OBVIOUS
    <2>4. manual' \in [Updaters -> BOOLEAN]
        OBVIOUS
    <2>5. \A w \in Updaters : pc'[w] \in Preparing \cup Guarded => lock' = w /\ target'[w] \in Targets
        OBVIOUS
    <2> QED
        BY <2>1, <2>3, <2>4
<1>3. OneBusy'
    OBVIOUS
<1>4. RestInv'
    BY DEF RestInv
<1>5. PreparingInv'
    BY DEF PreparingInv, CopyInv
<1>6. CopyInv'
    BY <1>g DEF CopyInv, Copied
<1>7. InstallInv'
    BY DEF InstallInv
<1>8. RollBackInv'
    <2>1. todo[u] = {f} => \A g \in Files : tree'[g] = before[u].tree[g]
        BY <1>g DEF RollBackInv, Copied, Trees
    <2>2. todo[u] = {f} => tree' = before[u].tree
        <3>1. tree' \in Trees
            BY <1>2
        <3>2. tree' = [g \in Files |-> tree'[g]] /\ before[u].tree = [g \in Files |-> before[u].tree[g]]
            BY ONLY <1>h, <3>1 DEF Trees
        <3> QED
            BY <2>1, <3>2
    <2> QED
        BY <1>f, <1>h, <2>2 DEF RollBackInv, Trees
<1>9. NotOlder'
    BY DEF NotOlder
<1> QED
    BY <1>2, <1>4, <1>5, <1>6, <1>7, <1>8, <1>9

\* The data of the trial go.
LEMMA StepRemoveData ==
    ASSUME UInv, NEW u \in Updaters, RemoveData(u)
    PROVE  UInv'
<1> USE MarksAssumption, UpdaterAssumption
    DEF RemoveData, state, counters, Same, Goto, End, Then, Undone, Fault, Restored, Busy, Preparing,
        Guarded, RollingBack, AfterFiles, UInv, TypeInv, UpdaterTypeOK, OneBusy
<1>1. \A w \in Updaters : w # u => pc[w] \in {"ended", "lock", "prompt"}
    OBVIOUS
<1>2. TypeInv'
    <2>1. data' \in Datas \cup {None}
        OBVIOUS
    <2>2. /\ pc' \in [Updaters -> {"ended", "lock", "stuck"} \cup Preparing \cup Guarded \cup RollingBack]
          /\ lock' \in Updaters \cup {None}
        OBVIOUS
    <2>3. manual' \in [Updaters -> BOOLEAN]
        OBVIOUS
    <2>4. \A w \in Updaters : pc'[w] \in Preparing \cup Guarded => lock' = w /\ target'[w] \in Targets
        OBVIOUS
    <2> QED
        BY <2>3
<1>3. OneBusy'
    OBVIOUS
<1>4. RestInv'
    BY DEF RestInv
<1>5. PreparingInv'
    BY DEF PreparingInv, CopyInv
<1>6. CopyInv'
    BY DEF CopyInv, Copied, RollBackInv
<1>7. InstallInv'
    BY DEF InstallInv
<1>8. RollBackInv'
    BY DEF RollBackInv
<1>9. NotOlder'
    BY DEF NotOlder
<1> QED
    BY <1>2, <1>4, <1>5, <1>6, <1>7, <1>8, <1>9

\* The data of the copy come.
LEMMA StepCopyData ==
    ASSUME UInv, NEW u \in Updaters, CopyData(u)
    PROVE  UInv'
<1> USE MarksAssumption, UpdaterAssumption
    DEF CopyData, state, counters, Same, Goto, End, Then, Undone, Fault, Restored, Busy, Preparing,
        Guarded, RollingBack, AfterFiles, UInv, TypeInv, UpdaterTypeOK, OneBusy
<1>1. \A w \in Updaters : w # u => pc[w] \in {"ended", "lock", "prompt"}
    OBVIOUS
<1>2. TypeInv'
    <2>1. data' \in Datas \cup {None}
        BY DEF CopyInv, Copied
    <2>2. /\ pc' \in [Updaters -> {"ended", "lock", "stuck"} \cup Preparing \cup Guarded \cup RollingBack]
          /\ lock' \in Updaters \cup {None}
        OBVIOUS
    <2>3. manual' \in [Updaters -> BOOLEAN]
        OBVIOUS
    <2>4. \A w \in Updaters : pc'[w] \in Preparing \cup Guarded => lock' = w /\ target'[w] \in Targets
        OBVIOUS
    <2> QED
        BY <2>1, <2>3
<1>3. OneBusy'
    OBVIOUS
<1>4. RestInv'
    BY DEF RestInv
<1>5. PreparingInv'
    BY DEF PreparingInv, CopyInv
<1>6. CopyInv'
    BY DEF CopyInv, Copied, RollBackInv, NotOlder
<1>7. InstallInv'
    BY DEF InstallInv
<1>8. RollBackInv'
    BY DEF RollBackInv, CopyInv, Copied
<1>9. NotOlder'
    <2>1. ASSUME NEW w \in Updaters, Ordered, w # u, pc[w] \in {"lock", "prompt"} PROVE data' = None \/ data'.format <= target[w]
        <3>1. data' \in Datas \cup {None}
            BY <1>2
        <3> QED
            BY <2>1, <3>1, SameRelease
    <2> QED
        BY <2>1 DEF NotOlder
<1> QED
    BY <1>2, <1>4, <1>5, <1>6, <1>7, <1>8, <1>9

\* An image of the old files.
LEMMA StepRollBackBuild ==
    ASSUME UInv, NEW u \in Updaters, RollBackBuild(u)
    PROVE  UInv'
<1> USE MarksAssumption, UpdaterAssumption
    DEF RollBackBuild, state, counters, Same, Goto, End, Then, Undone, Fault, Restored, Busy, Preparing,
        Guarded, RollingBack, AfterFiles, UInv, TypeInv, UpdaterTypeOK, OneBusy
<1>1. \A w \in Updaters : w # u => pc[w] \in {"ended", "lock", "prompt"}
    OBVIOUS
<1>2. TypeInv'
    <2>1. image' \in Trees /\ image'["config"] \in Releases
        BY DEF Clean, RollBackInv, CopyInv, Copied
    <2>2. backup' \in [Updaters -> Copies \cup {None}]
        OBVIOUS
    <2>3. /\ pc' \in [Updaters -> {"ended", "lock", "stuck"} \cup Preparing \cup Guarded \cup RollingBack]
          /\ lock' \in Updaters \cup {None}
        OBVIOUS
    <2>4. manual' \in [Updaters -> BOOLEAN]
        OBVIOUS
    <2>5. \A w \in Updaters : pc'[w] \in Preparing \cup Guarded => lock' = w /\ target'[w] \in Targets
        OBVIOUS
    <2> QED
        BY <2>1, <2>2, <2>3, <2>4, <2>5
<1>3. OneBusy'
    OBVIOUS
<1>4. RestInv'
    BY DEF RestInv
<1>5. PreparingInv'
    BY DEF PreparingInv, Settled, CopyInv, Copied, RollBackInv
<1>6. CopyInv'
    BY DEF CopyInv, Copied, RollBackInv
<1>7. InstallInv'
    BY DEF InstallInv
<1>8. RollBackInv'
    BY DEF RollBackInv
<1>9. NotOlder'
    BY DEF NotOlder
<1> QED
    BY <1>2, <1>4, <1>5, <1>6, <1>7, <1>8, <1>9

\* The old release serves the old data.
LEMMA StepRollBackUp ==
    ASSUME UInv, NEW u \in Updaters, RollBackUp(u)
    PROVE  UInv'
<1> USE MarksAssumption, UpdaterAssumption
    DEF RollBackUp, state, counters, Same, Goto, End, Then, Undone, Fault, Restored, Busy, Preparing,
        Guarded, RollingBack, AfterFiles, UInv, TypeInv, UpdaterTypeOK, OneBusy
<1>1. \A w \in Updaters : w # u => pc[w] \in {"ended", "lock", "prompt"}
    OBVIOUS
<1>s. data \in Datas /\ image["config"] \in Releases
    BY DEF CopyInv, Copied, RollBackInv
<1>t. /\ Started(image) \in Datas /\ Started(image).rows = data.rows
      /\ Started(image).format = IF image["config"] > data.format THEN image["config"] ELSE data.format
    BY <1>s, StartedData
<1>2. TypeInv'
    <2>1. data' \in Datas \cup {None}
        BY <1>t
    <2>2. backup' \in [Updaters -> Copies \cup {None}]
        OBVIOUS
    <2>3. /\ pc' \in [Updaters -> {"ended", "lock", "stuck"} \cup Preparing \cup Guarded \cup RollingBack]
          /\ lock' \in Updaters \cup {None}
        OBVIOUS
    <2>4. manual' \in [Updaters -> BOOLEAN]
        BY <1>1, <1>t
    <2>5. \A w \in Updaters : pc'[w] \in Preparing \cup Guarded => lock' = w /\ target'[w] \in Targets
        OBVIOUS
    <2> QED
        BY <2>1, <2>4
<1>3. OneBusy'
    OBVIOUS
<1>4. RestInv'
    BY <1>t DEF RestInv, Settled, CopyInv, Copied, RollBackInv
<1>5. PreparingInv'
    BY <1>t DEF PreparingInv, Settled, CopyInv, Copied, RollBackInv
<1>6. CopyInv'
    BY DEF CopyInv
<1>7. InstallInv'
    BY DEF InstallInv
<1>8. RollBackInv'
    BY DEF RollBackInv
<1>9. NotOlder'
    <2>1. ASSUME NEW w \in Updaters, Ordered, w # u, pc[w] \in {"lock", "prompt"} PROVE data' = None \/ data'.format <= target[w]
        <3>1. data' \in Datas \cup {None}
            BY <1>2
        <3> QED
            BY <2>1, <3>1, SameRelease
    <2> QED
        BY <2>1 DEF NotOlder
<1> QED
    BY <1>2, <1>4, <1>5, <1>6, <1>7, <1>8, <1>9

\* The administrator does what the script could not finish.
LEMMA StepRollBackByHand ==
    ASSUME UInv, NEW u \in Updaters, RollBackByHand(u)
    PROVE  UInv'
<1> USE MarksAssumption, UpdaterAssumption
    DEF RollBackByHand, state, counters, Same, Goto, End, Then, Undone, Fault, Restored, Busy, Preparing,
        Guarded, RollingBack, AfterFiles, UInv, TypeInv, UpdaterTypeOK, OneBusy
<1>1. \A w \in Updaters : w # u => pc[w] \in {"ended", "lock", "prompt"}
    OBVIOUS
<1>2. TypeInv'
    <2>1. /\ pc' \in [Updaters -> {"ended", "lock", "stuck"} \cup Preparing \cup Guarded \cup RollingBack]
          /\ lock' \in Updaters \cup {None}
        OBVIOUS
    <2>2. manual' \in [Updaters -> BOOLEAN]
        OBVIOUS
    <2>3. \A w \in Updaters : pc'[w] \in Preparing \cup Guarded => lock' = w /\ target'[w] \in Targets
        OBVIOUS
    <2> QED
        OBVIOUS
<1>3. OneBusy'
    OBVIOUS
<1>4. RestInv'
    BY DEF RestInv
<1>5. PreparingInv'
    BY DEF PreparingInv
<1>6. CopyInv'
    BY DEF CopyInv, Copied
<1>7. InstallInv'
    BY DEF InstallInv
<1>8. RollBackInv'
    BY DEF RollBackInv
<1>9. NotOlder'
    BY DEF NotOlder
<1> QED
    BY <1>4, <1>5, <1>6, <1>7, <1>8, <1>9

\* The administrator starts what was never changed.
LEMMA StepStartByHand ==
    ASSUME UInv, NEW u \in Updaters, StartByHand(u)
    PROVE  UInv'
<1> USE MarksAssumption, UpdaterAssumption
    DEF StartByHand, state, counters, Same, Goto, End, Then, Undone, Fault, Restored, Busy, Preparing,
        Guarded, RollingBack, AfterFiles, UInv, TypeInv, UpdaterTypeOK, OneBusy
<1>1. \A w \in Updaters : w # u => pc[w] \in {"ended", "lock", "prompt"}
    OBVIOUS
<1>s. data \in Datas /\ tree["config"] \in Releases
    BY DEF PreparingInv, Settled, Clean
<1>t. /\ Started(tree) \in Datas /\ Started(tree).rows = data.rows
      /\ Started(tree).format = IF tree["config"] > data.format THEN tree["config"] ELSE data.format
    BY <1>s, StartedData
<1>2. TypeInv'
    <2>1. image' \in Trees /\ image'["config"] \in Releases
        BY <1>s
    <2>2. data' \in Datas \cup {None}
        BY <1>t
    <2>3. /\ pc' \in [Updaters -> {"ended", "lock", "stuck"} \cup Preparing \cup Guarded \cup RollingBack]
          /\ lock' \in Updaters \cup {None}
        OBVIOUS
    <2>4. manual' \in [Updaters -> BOOLEAN]
        OBVIOUS
    <2>5. \A w \in Updaters : pc'[w] \in Preparing \cup Guarded => lock' = w /\ target'[w] \in Targets
        OBVIOUS
    <2> QED
        BY <2>1, <2>2, <2>3, <2>4, <2>5
<1>3. OneBusy'
    OBVIOUS
<1>4. RestInv'
    BY <1>t DEF RestInv, Settled, PreparingInv
<1>5. PreparingInv'
    BY DEF PreparingInv
<1>6. CopyInv'
    BY DEF CopyInv
<1>7. InstallInv'
    BY DEF InstallInv
<1>8. RollBackInv'
    BY DEF RollBackInv
<1>9. NotOlder'
    BY <1>t, SameRelease DEF NotOlder
<1> QED
    BY <1>2, <1>4, <1>5, <1>6, <1>7, <1>8, <1>9

\* A command of the script fails.
LEMMA StepFail ==
    ASSUME UInv, NEW u \in Updaters, Fail(u)
    PROVE  UInv'
<1> USE MarksAssumption, UpdaterAssumption
    DEF Fail, state, counters, Same, Goto, End, Then, Undone, Fault, Restored, Busy, Preparing,
        Guarded, RollingBack, AfterFiles, UInv, TypeInv, UpdaterTypeOK, OneBusy
<1>1. \A w \in Updaters : w # u => pc[w] \in {"ended", "lock", "prompt"}
    OBVIOUS
<1>2. TypeInv'
    <2>1. backup' \in [Updaters -> Copies \cup {None}]
        OBVIOUS
    <2>2. /\ pc' \in [Updaters -> {"ended", "lock", "stuck"} \cup Preparing \cup Guarded \cup RollingBack]
          /\ lock' \in Updaters \cup {None}
        OBVIOUS
    <2>3. manual' \in [Updaters -> BOOLEAN]
        BY <1>1
    <2>4. \A w \in Updaters : pc'[w] \in Preparing \cup Guarded => lock' = w /\ target'[w] \in Targets
        OBVIOUS
    <2> QED
        BY <2>3
<1>3. OneBusy'
    OBVIOUS
<1>4. RestInv'
    BY DEF RestInv
<1>5. PreparingInv'
    BY DEF PreparingInv, Settled, CopyInv, Copied, RollBackInv
<1>6. CopyInv'
    BY DEF CopyInv, Copied, PreparingInv
<1>7. InstallInv'
    BY DEF InstallInv
<1>8. RollBackInv'
    BY DEF RollBackInv
<1>9. NotOlder'
    BY DEF NotOlder
<1> QED
    BY <1>2, <1>4, <1>5, <1>6, <1>7, <1>8, <1>9

\* The script is killed, and its lock is free.
LEMMA StepKill ==
    ASSUME UInv, NEW u \in Updaters, Kill(u)
    PROVE  UInv'
<1> USE MarksAssumption, UpdaterAssumption
    DEF Kill, state, counters, Same, Goto, End, Then, Undone, Fault, Restored, Busy, Preparing,
        Guarded, RollingBack, AfterFiles, UInv, TypeInv, UpdaterTypeOK, OneBusy
<1>1. \A w \in Updaters : w # u => pc[w] \in {"ended", "lock", "prompt"}
    OBVIOUS
<1>2. TypeInv'
    <2>1. /\ pc' \in [Updaters -> {"ended", "lock", "stuck"} \cup Preparing \cup Guarded \cup RollingBack]
          /\ lock' \in Updaters \cup {None}
        OBVIOUS
    <2>2. manual' \in [Updaters -> BOOLEAN]
        OBVIOUS
    <2>3. \A w \in Updaters : pc'[w] \in Preparing \cup Guarded => lock' = w /\ target'[w] \in Targets
        OBVIOUS
    <2> QED
        OBVIOUS
<1>3. OneBusy'
    OBVIOUS
<1>4. RestInv'
    BY DEF RestInv
<1>5. PreparingInv'
    BY DEF PreparingInv, Settled, CopyInv
<1>6. CopyInv'
    BY DEF CopyInv, Copied, PreparingInv
<1>7. InstallInv'
    BY DEF InstallInv
<1>8. RollBackInv'
    BY DEF RollBackInv
<1>9. NotOlder'
    BY DEF NotOlder
<1> QED
    BY <1>4, <1>5, <1>6, <1>7, <1>8, <1>9

\* An invocation compares releases before it asks for the lock.
\* An invocation compares the versions.
LEMMA StepCompare ==
    ASSUME UInv, NEW u \in Updaters, NEW t \in Targets, Compare(u, t)
    PROVE  UInv'
<1> USE DEF Compare, state, Same, Goto
<1>1. /\ pc[u] = "ended" /\ pc' = [pc EXCEPT ![u] = "lock"] /\ target' = [target EXCEPT ![u] = t]
      /\ UNCHANGED <<tree, data, image, trial, running, lock, todo, backup, manual, before, owed, writes>>
    OBVIOUS
<1>2. TypeInv'
    BY DEF UInv, TypeInv, UpdaterTypeOK, Releases, Preparing, Guarded
<1>3. OneBusy' /\ RestInv'
    BY DEF UInv, OneBusy, RestInv, Settled, Busy, Preparing, Guarded, RollingBack
<1>4. PreparingInv' /\ RollBackInv'
    BY DEF UInv, PreparingInv, RollBackInv, Settled, RollingBack
<1>5. CopyInv'
    BY DEF UInv, CopyInv, Copied, Guarded, RollingBack
<1>6. InstallInv'
    BY DEF UInv, InstallInv, Guarded
<1>7. NotOlder'
    <2>1. ASSUME Ordered PROVE data = None \/ data.format <= t
        <3>1. CASE \A w \in Updaters : pc[w] \notin Busy
            <4>1. data.format = tree["config"] /\ tree["config"] \in Releases
                BY <2>1, <3>1 DEF UInv, RestInv, Settled, Clean
            <4>2. t > tree["config"]
                BY <4>1, MarksAssumption DEF CurrentVersion
            <4>3. tree["config"] \in Nat /\ t \in Nat
                BY <4>1, ReleasesAreNumbers
            <4> QED
                BY <4>1, <4>2, <4>3
        <3>2. CASE \E w \in Updaters : pc[w] \in Busy
            <4>1. \A s \in Targets : s = t
                BY <2>1, <3>2 DEF Ordered, Busy, Guarded, RollingBack
            <4>2. data = None \/ data.format \in {1, t}
                BY <4>1 DEF UInv, TypeInv, UpdaterTypeOK, Datas, Releases
            <4> QED
                BY <4>2, UpdaterAssumption
        <3> QED
            BY <3>1, <3>2
    <2> QED
        BY <2>1 DEF UInv, TypeInv, NotOlder, Guarded
<1> QED
    BY <1>2, <1>3, <1>4, <1>5, <1>6, <1>7 DEF UInv

\* A user writes while the service is up.
\* A user writes; on trial nothing is owed.
LEMMA StepWrite ==
    ASSUME UInv, Write
    PROVE  UInv'
<1> USE DEF Write, Same
<1>1. data \in Datas
    <2>1. CASE \A u \in Updaters : pc[u] \notin Busy
        BY <2>1 DEF UInv, RestInv, Settled
    <2>2. ASSUME NEW u \in Updaters, pc[u] \in Busy PROVE data \in Datas
        BY <2>2 DEF UInv, PreparingInv, Settled, CopyInv, Copied, Busy
    <2> QED
        BY <2>1, <2>2
<1>2. /\ data' \in Datas /\ data'.format = data.format /\ data'.rows = data.rows \cup {writes}
      /\ writes' \in Nat
    <2>1. writes \in 0..MaxWrites
        BY UpdaterAssumption DEF UInv, TypeInv
    <2> QED
        BY <1>1, <2>1 DEF Datas
<1>3. owed \subseteq data.rows => owed' \subseteq data'.rows
    OBVIOUS
<1>4. UNCHANGED <<tree, image, trial, running, lock, pc, target, todo, backup, manual, before>>
    OBVIOUS
<1>5. TypeInv' /\ OneBusy'
    BY <1>2 DEF UInv, TypeInv, UpdaterTypeOK, OneBusy
<1>6. RestInv' /\ PreparingInv'
    <2>1. Settled => Settled'
        BY <1>2 DEF Settled
    <2>2. running
        OBVIOUS
    <2>3. RestInv'
        BY <2>1 DEF UInv, RestInv
    <2> QED
        BY <2>1, <2>3 DEF UInv, PreparingInv
<1>7. CopyInv'
    BY <1>2 DEF UInv, CopyInv, Copied
<1>8. InstallInv'
    BY <1>2 DEF UInv, InstallInv
<1>9. RollBackInv'
    BY DEF UInv, RollBackInv, RollingBack
<1>10. NotOlder'
    BY <1>1, MarksAssumption DEF UInv, NotOlder
<1> QED
    BY <1>5, <1>6, <1>7, <1>8, <1>9, <1>10 DEF UInv

-----------------------------------------------------------------------------
(* Theorems                                                                 *)

\* A fresh installation of release 1 that serves.
LEMMA InitUInv == Init => UInv
<1> SUFFICES ASSUME Init PROVE UInv
    OBVIOUS
<1> USE DEF Init
<1>1. tree \in Trees /\ Clean(tree) /\ tree["config"] = 1 /\ image = tree
    BY DEF Released, Trees, Clean, Releases, Files
<1>2. data \in Datas /\ data.format = 1 /\ data.rows = {}
    BY DEF Datas, Releases
<1>3. TypeInv
    BY <1>1, <1>2 DEF TypeInv, UpdaterTypeOK, Releases, Preparing, Guarded
<1>4. OneBusy /\ RestInv
    BY <1>1, <1>2 DEF OneBusy, RestInv, Settled, Busy, Preparing, Guarded, RollingBack
<1>5. PreparingInv /\ CopyInv /\ InstallInv /\ RollBackInv /\ NotOlder
    BY DEF PreparingInv, CopyInv, InstallInv, RollBackInv, NotOlder, Guarded, RollingBack
<1> QED
    BY <1>3, <1>4, <1>5 DEF UInv

\* No step of an updater, of its rollback, of the administrator or of a user,
\* and no failure or kill breaks the invariant.
LEMMA StepUInv == UInv /\ [Next]_vars => UInv'
<1> SUFFICES ASSUME UInv, [Next]_vars PROVE UInv'
    OBVIOUS
<1>1. CASE UNCHANGED vars
    BY <1>1 DEF vars, state, counters, UInv, TypeInv, UpdaterTypeOK, OneBusy, RestInv,
       PreparingInv, Settled, CopyInv, Copied, InstallInv, RollBackInv, NotOlder
<1>2. CASE Next
    BY <1>2, StepWrite, StepCompare, StepLock, StepPrompt, StepDown, StepSnapshot,
       StepSnapshotFails, StepUnzip, StepRemoveObsolete, StepRestoreLocal, StepBuild, StepUp,
       StepHealthy, StepRollBackDown, StepRollBackFile, StepRemoveData, StepCopyData,
       StepRollBackBuild, StepRollBackUp, StepRollBackByHand, StepStartByHand, StepFail,
       StepKill DEF Next
<1> QED
    BY <1>1, <1>2

\* Between any two steps of any invocation the installation is whole, or one
\* invocation or the administrator has the copy to make it whole.
THEOREM UpdaterInvariant == Spec => []UInv
BY InitUInv, StepUInv, PTL DEF Spec

\* The files, the data and the control of every invocation keep their types,
\* and only the holder of updates/.update.lock asks, prepares and installs.
THEOREM UpdaterTypeCorrect == Spec => []UpdaterTypeOK
<1>1. UInv => UpdaterTypeOK
    BY DEF UInv, TypeInv
<1> QED
    BY <1>1, UpdaterInvariant, PTL

\* A row that a release accepted while it was not on trial is never lost,
\* however many updates fail, are killed or are rolled back by hand.
THEOREM NoAcceptedWriteIsLost == Spec => []AcceptedWritesSurvive
<1>1. UInv => AcceptedWritesSurvive
    <2> SUFFICES ASSUME UInv PROVE AcceptedWritesSurvive
        OBVIOUS
    <2>1. CASE \A u \in Updaters : pc[u] \notin Busy
        BY <2>1, MarksAssumption DEF UInv, RestInv, Settled, AcceptedWritesSurvive
    <2>2. ASSUME NEW u \in Updaters, pc[u] \in Busy PROVE AcceptedWritesSurvive
        BY <2>2, MarksAssumption DEF UInv, PreparingInv, Settled, CopyInv, Copied, Busy,
           AcceptedWritesSurvive
    <2> QED
        BY <2>1, <2>2
<1> QED
    BY <1>1, UpdaterInvariant, PTL

\* No invocation ends by itself with the service down: somebody is still at
\* work, or the administrator was told.
THEOREM ServiceComesBack == Spec => []ServiceIsBack
<1>1. UInv => ServiceIsBack
    BY DEF UInv, RestInv, ServiceIsBack, Busy, Guarded, RollingBack
<1> QED
    BY <1>1, UpdaterInvariant, PTL

\* What serves was built from one release that knows the format of the data,
\* unless two invocations can install different releases at the same time.
THEOREM ServiceFitsData == ASSUME Ordered PROVE Spec => []RunningFitsData
<1>1. UInv => RunningFitsData
    <2> SUFFICES ASSUME UInv, running PROVE data \in Datas /\ Clean(image) /\ data.format <= image["config"]
        BY MarksAssumption DEF RunningFitsData, Clean
    <2>1. Settled => data \in Datas /\ Clean(image) /\ data.format = image["config"]
        BY DEF Settled
    <2>2. Clean(image) => image["config"] \in Nat
        BY ReleasesAreNumbers DEF Clean
    <2>3. Settled => data.format <= image["config"]
        BY <2>1, <2>2
    <2>4. CASE \A u \in Updaters : pc[u] \notin Busy
        BY <2>1, <2>3, <2>4 DEF UInv, RestInv
    <2>5. ASSUME NEW u \in Updaters, pc[u] \in Busy
          PROVE  data \in Datas /\ Clean(image) /\ data.format <= image["config"]
        BY <2>1, <2>3, <2>5 DEF UInv, PreparingInv, CopyInv, Copied, Busy
    <2> QED
        BY <2>4, <2>5
<1> QED
    BY <1>1, UpdaterInvariant, PTL

\* Under the same condition an update that ends, by itself or rolled back by
\* hand, has installed all of the new release or left everything as it was.
THEOREM UpdateIsAllOrNothing == ASSUME Ordered PROVE Spec => AllOrNothing
<1>1. UInv /\ [Next]_vars =>
          [\A u \in Updaters :
              pc[u] \in Guarded \cup RollingBack /\ pc'[u] = "ended" =>
                \/ tree' = Updated(before[u].tree, target[u]) /\ data'.format = target[u]
                \/ /\ tree' = before[u].tree /\ data'.format = before[u].data.format
                   /\ before[u].data.rows \subseteq data'.rows]_vars
    <2> SUFFICES ASSUME UInv, Next, NEW u \in Updaters, pc[u] \in Guarded \cup RollingBack, pc'[u] = "ended"
                 PROVE  \/ tree' = Updated(before[u].tree, target[u]) /\ data'.format = target[u]
                        \/ /\ tree' = before[u].tree /\ data'.format = before[u].data.format
                           /\ before[u].data.rows \subseteq data'.rows
        OBVIOUS
    <2>1. Healthy(u) \/ RollBackUp(u)
        BY DEF UInv, TypeInv, UpdaterTypeOK, Next, Write, Compare, Lock, Prompt, Down, Snapshot,
           SnapshotFails, Unzip, RemoveObsolete, RestoreLocal, Build, Up, RollBackDown,
           RollBackFile, AfterFiles, RemoveData, CopyData, RollBackBuild, RollBackByHand,
           StartByHand, Fail, Kill, Goto, End, Then, Undone, Restored, Guarded, RollingBack,
           Healthy, RollBackUp
    <2>2. CASE Healthy(u)
        BY <2>2 DEF Healthy, UInv, InstallInv
    <2>3. CASE RollBackUp(u)
        BY <2>3, StartedData DEF RollBackUp, UInv, RollBackInv, CopyInv, Copied, Clean
    <2> QED
        BY <2>1, <2>2, <2>3
<1> QED
    BY <1>1, UpdaterInvariant, PTL DEF Spec, AllOrNothing

-----------------------------------------------------------------------------
(* Three numbers as digits of a larger base.                                *)
LEMMA Lexicographic ==
    ASSUME NEW h \in {1000, 10000}, NEW t \in Nat,
           NEW a \in Nat, NEW b \in Nat, NEW c \in Nat,
           NEW d \in Nat, NEW e \in Nat, NEW f \in Nat,
           b <= t, e <= t, c <= 99, f <= 99, h = 100 * (t + 1)
    PROVE  h * a + 100 * b + c < h * d + 100 * e + f
             <=> \/ a < d
                 \/ a = d /\ b < e
                 \/ a = d /\ b = e /\ c < f
<1>1. CASE h = 1000
  <2>1. t = 9
    BY <1>1, SMT
  <2> QED BY <1>1, <2>1, SMT
<1>2. CASE h = 10000
  <2>1. t = 99
    BY <1>2, SMT
  <2> QED BY <1>2, <2>1, SMT
<1> QED BY <1>1, <1>2

LEMMA Parts ==
    ASSUME NEW t \in Nat, NEW u \in Nat \X (0..t) \X (0..99)
    PROVE  u[1] \in Nat /\ u[2] \in Nat /\ u[3] \in Nat /\ u[2] <= t /\ u[3] <= 99
  BY SMT

(* The web interface orders releases rightly as long as minor and patch      *)
(* numbers have two digits (_version_number).                                *)
THEOREM WebOrdersReleases ==
    ASSUME NEW u \in Nat \X (0..99) \X (0..99), NEW v \in Nat \X (0..99) \X (0..99)
    PROVE  VersionNumber(u) < VersionNumber(v) <=> Older(u, v)
<1>1. /\ u[1] \in Nat /\ u[2] \in Nat /\ u[3] \in Nat /\ u[2] <= 99 /\ u[3] <= 99
      /\ v[1] \in Nat /\ v[2] \in Nat /\ v[3] \in Nat /\ v[2] <= 99 /\ v[3] <= 99
  BY Parts
<1>2. 10000 = 100 * (99 + 1)
  OBVIOUS
<1>3. 10000 * u[1] + 100 * u[2] + u[3] < 10000 * v[1] + 100 * v[2] + v[3]
        <=> \/ u[1] < v[1]
            \/ u[1] = v[1] /\ u[2] < v[2]
            \/ u[1] = v[1] /\ u[2] = v[2] /\ u[3] < v[3]
  BY <1>1, <1>2, Lexicographic
<1> QED BY <1>3 DEF VersionNumber, Older

(* Numbers of one, one and two digits behind each other.                     *)
LEMMA ScriptDigits ==
    ASSUME NEW v \in Nat \X (0..9) \X (0..99)
    PROVE  ScriptNumber(v) = 1000 * v[1] + 100 * v[2] + v[3]
<1>1. v[1] \in Nat /\ v[2] \in Nat /\ v[3] \in Nat /\ v[2] <= 9 /\ v[3] <= 99
  BY Parts
<1>2. Shift(v[2]) = 10 /\ TwoDigits(v[3]) = 100
  BY <1>1 DEF Shift, TwoDigits
<1>3. ScriptNumber(v) = (v[1] * 10 + v[2]) * 100 + v[3]
  BY <1>2, Zenon DEF ScriptNumber
<1>4. (v[1] * 10 + v[2]) * 100 + v[3] = 1000 * v[1] + 100 * v[2] + v[3]
  BY <1>1, SMT
<1> QED BY <1>3, <1>4

(* The updater does for minor numbers of one digit: with two, they count as  *)
(* ten times the major number they stand behind (extract_version_number).    *)
THEOREM ScriptOrdersReleases ==
    ASSUME NEW u \in Nat \X (0..9) \X (0..99), NEW v \in Nat \X (0..9) \X (0..99)
    PROVE  ScriptNumber(u) < ScriptNumber(v) <=> Older(u, v)
<1>1. /\ u[1] \in Nat /\ u[2] \in Nat /\ u[3] \in Nat /\ u[2] <= 9 /\ u[3] <= 99
      /\ v[1] \in Nat /\ v[2] \in Nat /\ v[3] \in Nat /\ v[2] <= 9 /\ v[3] <= 99
  BY Parts
<1>2. 1000 = 100 * (9 + 1)
  OBVIOUS
<1>3. ScriptNumber(u) = 1000 * u[1] + 100 * u[2] + u[3]
  BY ScriptDigits
<1>4. ScriptNumber(v) = 1000 * v[1] + 100 * v[2] + v[3]
  BY ScriptDigits
<1>5. 1000 * u[1] + 100 * u[2] + u[3] < 1000 * v[1] + 100 * v[2] + v[3]
        <=> \/ u[1] < v[1]
            \/ u[1] = v[1] /\ u[2] < v[2]
            \/ u[1] = v[1] /\ u[2] = v[2] /\ u[3] < v[3]
  BY <1>1, <1>2, Lexicographic
<1> QED BY <1>3, <1>4, <1>5 DEF Older
=============================================================================
