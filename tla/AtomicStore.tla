----------------------------- MODULE AtomicStore -----------------------------
(***************************************************************************)
(* What app/restore.py promises to its callers: the managed files of the   *)
(* data directory change all together or not at all.  A replacement is     *)
(* begun, and takes effect in the single step Commit; until then, and      *)
(* whenever it fails or its process is killed, the files still hold what   *)
(* they held before.  How this is done with a journal is RestoreFiles.     *)
(***************************************************************************)
CONSTANTS
    Files,      \* managed paths below the data directory
    Content,    \* the contents a file can have
    Absent,     \* a file that does not exist
    Keep        \* "not part of this replacement"

VARIABLES
    store,      \* what each file holds, as a reader that starts now sees it
    status,     \* the replacement in progress: none, not yet or already effective
    pending,    \* what the replacement in progress installs
    reply       \* what the last call told its caller

vars == <<store, status, pending, reply>>

Replacement == [Files -> Content \cup {Keep}]
NoReplacement == [f \in Files |-> Keep]

TypeOK ==
    /\ store \in [Files -> Content \cup {Absent}]
    /\ status \in {"idle", "replacing", "replaced"}
    /\ pending \in Replacement
    /\ reply \in {"none", "ok", "raised"}

Init ==
    /\ store \in [Files -> Content \cup {Absent}]
    /\ status = "idle"
    /\ pending = NoReplacement
    /\ reply = "none"

\* A request changes one file while no replacement is in progress.
Write(f, c) ==
    /\ status = "idle"
    /\ store' = [store EXCEPT ![f] = c]
    /\ UNCHANGED <<status, pending, reply>>

Begin(r) ==
    /\ status = "idle"
    /\ status' = "replacing"
    /\ pending' = r
    /\ reply' = "none"
    /\ UNCHANGED store

Commit ==
    /\ status = "replacing"
    /\ status' = "replaced"
    /\ store' = [f \in Files |-> IF pending[f] = Keep THEN store[f] ELSE pending[f]]
    /\ pending' = NoReplacement
    /\ UNCHANGED reply

Return ==
    /\ status = "replaced"
    /\ status' = "idle"
    /\ reply' = "ok"
    /\ UNCHANGED <<store, pending>>

\* The call raises.  Only a raise before Commit leaves the old files; cleaning
\* up after Commit can raise as well, and the caller cannot tell them apart.
Raise ==
    /\ status' = "idle"
    /\ pending' = NoReplacement
    /\ reply' = "raised"
    /\ UNCHANGED store

Crash ==
    /\ status # "idle"
    /\ status' = "idle"
    /\ pending' = NoReplacement
    /\ UNCHANGED <<store, reply>>

Next ==
    \/ \E f \in Files, c \in Content : Write(f, c)
    \/ \E r \in Replacement : Begin(r)
    \/ Commit
    \/ Return
    \/ Raise
    \/ Crash

Spec == Init /\ [][Next]_vars
=============================================================================
