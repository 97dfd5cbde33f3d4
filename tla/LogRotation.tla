------------------------------ MODULE LogRotation ------------------------------
(***************************************************************************)
(* auth.log, appended to by every thread of both worker processes and      *)
(* rotated by whichever of them first notices a new week.  No lock is      *)
(* held: the state file, the test for a free name, the rename and the next *)
(* open are separate file operations.                                      *)
(*                                                                         *)
(* A file is an inode with the set of its lines; a name in `dir' leads to  *)
(* it, and a writer that has opened it keeps it whatever its name becomes. *)
(* Lines are numbered in the order they are written, which is also the     *)
(* order of modification times.                                            *)
(***************************************************************************)
EXTENDS Integers, Sequences, FiniteSets, FiniteSetsExt, Functions

CONSTANTS Writers,
          Keep,     \* AUTH_LOG_ROTATE_KEEP, or 0 where that is negative
          MaxWeek, MaxLines, MaxFaults

ASSUME LogRotationAssumption ==
    /\ {Keep, MaxLines, MaxFaults} \subseteq Nat
    /\ MaxWeek \in Nat \ {0}

Weeks  == 1..MaxWeek
Log    == <<0, 0>>              \* auth.log; <<week, n>> is auth.log.<week>.<n>
Absent == 0                     \* there is no state file
Empty  == -1                    \* it was truncated and is not written yet

VARIABLES dir,      \* names -> inodes
          file,     \* inodes: [lines, mtime]
          state,    \* content of auth.log.rotation
          writer,   \* per thread: what it is doing, with its local variables
          week, faults,
          written,  \* history: the week in which each line was written
          expired,  \* history: inodes that were removed as too old
          overlapped, \* history: two rotations were under way at once
          late      \* history: old files were listed before an append to one of them

vars == <<dir, file, state, writer, week, faults, written, expired, overlapped, late>>

-----------------------------------------------------------------------------
Idle == [pc |-> "idle"]

Rotated == DOMAIN dir \ {Log}

(* Mutant of FreeName: the name of the week is used without looking. *)
WeekName(previous) == <<previous, 0>>

(* The first name for last week's file that is not taken. *)
FreeName(previous) ==
    <<previous, Min({n \in 0..Cardinality(Rotated) : <<previous, n>> \notin DOMAIN dir})>>

(* Mutant of TooOld: one file fewer is kept. *)
TooOldByOne == {n \in Rotated :
              Cardinality({m \in Rotated : file[dir[m]].mtime > file[dir[n]].mtime}) >= Keep - 1}

(* Rotated files beyond the Keep newest. *)
TooOld == {n \in Rotated :
              Cardinality({m \in Rotated : file[dir[m]].mtime > file[dir[n]].mtime}) >= Keep}

(* Between the reading of the state file and its replacement. *)
Rotating(w) == w.pc \in {"exists", "stat", "name", "replace", "truncate", "store"}

(* Two rotations overlap; the second may have computed no more than the     *)
(* date yet, if it was still last week's.                                   *)
Overlap(u, v) == Rotating(u) /\ (Rotating(v) \/ (v.pc = "read" /\ v.bucket # u.bucket))

(* The writer has opened the log before it was renamed, and appends to it yet. *)
Behind(w) == w.pc = "write" /\ \E n \in Rotated : dir[n] = w.inode

Go(w, pc) == writer' = [writer EXCEPT ![w].pc = pc]

-----------------------------------------------------------------------------
Init ==
    /\ dir = << >> /\ file = << >> /\ state = Absent
    /\ writer = [w \in Writers |-> Idle]
    /\ week = 1 /\ faults = 0
    /\ written = << >> /\ expired = {} /\ overlapped = FALSE /\ late = FALSE

(* An event is to be logged; the bucket is computed from the date. *)
Begin(w) ==
    /\ writer[w] = Idle
    /\ Len(written) + Cardinality({v \in Writers : writer[v] # Idle}) + faults < MaxLines
    /\ writer' = [writer EXCEPT ![w] = [pc |-> "read", bucket |-> week]]
    /\ UNCHANGED <<dir, file, state>>

(* previous = state_file.read_text(): nothing, this week, or an older one. *)
ReadState(w) ==
    /\ writer[w].pc = "read"
    /\ LET bucket == writer[w].bucket IN
       writer' = [writer EXCEPT ![w] =
           IF state \in {Absent, Empty} THEN [pc |-> "truncate", bucket |-> bucket, first |-> TRUE]
           ELSE IF state = bucket       THEN [pc |-> "open", bucket |-> bucket]
           ELSE [pc |-> "exists", bucket |-> bucket, previous |-> state, first |-> FALSE]]
    /\ UNCHANGED <<dir, file, state>>

LogExists(w) ==
    /\ writer[w].pc = "exists"
    /\ Go(w, IF Log \in DOMAIN dir THEN "stat" ELSE "truncate")
    /\ UNCHANGED <<dir, file, state>>

(* st_size > 0; a log that was renamed meanwhile raises and ends the rotation. *)
LogSize(w) ==
    /\ writer[w].pc = "stat"
    /\ Go(w, IF Log \notin DOMAIN dir THEN "open"
             ELSE IF file[dir[Log]].lines # {} THEN "name" ELSE "truncate")
    /\ UNCHANGED <<dir, file, state>>

ChooseName(w) ==
    /\ writer[w].pc = "name"
    /\ writer' = [writer EXCEPT ![w] =
           [pc |-> "replace", bucket |-> @.bucket, first |-> FALSE, name |-> FreeName(@.previous)]]
    /\ UNCHANGED <<dir, file, state>>

(* auth_log.replace(rotated): a file of that name is overwritten. *)
Rename(w) ==
    /\ writer[w].pc = "replace"
    /\ IF Log \in DOMAIN dir
       THEN /\ dir' = [n \in (DOMAIN dir \ {Log}) \union {writer[w].name} |->
                          IF n = writer[w].name THEN dir[Log] ELSE dir[n]]
            /\ Go(w, "truncate")
       ELSE Go(w, "open") /\ UNCHANGED dir
    /\ UNCHANGED <<file, state>>

(* state_file.write_text(bucket) empties the file and then writes it. *)
Truncate(w) ==
    /\ writer[w].pc = "truncate"
    /\ state' = Empty
    /\ Go(w, "store")
    /\ UNCHANGED <<dir, file>>

(* Mutant of Store: the rotation that is due next is stored. *)
StoreNextWeek(w) ==
    /\ writer[w].pc = "store"
    /\ state' = writer[w].bucket + 1
    /\ Go(w, IF writer[w].first THEN "open" ELSE "list")
    /\ UNCHANGED <<dir, file>>

Store(w) ==
    /\ writer[w].pc = "store"
    /\ state' = writer[w].bucket
    /\ Go(w, IF writer[w].first THEN "open" ELSE "list")
    /\ UNCHANGED <<dir, file>>

ListOld(w) ==
    /\ writer[w].pc = "list"
    /\ writer' = [writer EXCEPT ![w] = [pc |-> "unlink", bucket |-> @.bucket, old |-> TooOld]]
    /\ UNCHANGED <<dir, file, state>>

UnlinkOld(w) ==
    /\ writer[w].pc = "unlink"
    /\ dir' = Restrict(dir, DOMAIN dir \ writer[w].old)
    /\ Go(w, "open")
    /\ UNCHANGED <<file, state>>

(* auth_log.open("a") creates the file where there is none. *)
Open(w) ==
    /\ writer[w].pc = "open"
    /\ IF Log \in DOMAIN dir
       THEN UNCHANGED <<dir, file>>
       ELSE /\ file' = Append(file, [lines |-> {}, mtime |-> Len(written)])
            /\ dir' = [n \in DOMAIN dir \union {Log} |->
                          IF n = Log THEN Len(file') ELSE dir[n]]
    /\ writer' = [writer EXCEPT ![w] = [pc |-> "write", bucket |-> @.bucket, inode |-> dir'[Log]]]
    /\ UNCHANGED state

WriteLine(w) ==
    LET line == Len(written) + 1 IN
    /\ writer[w].pc = "write"
    /\ file' = [file EXCEPT ![writer[w].inode] =
                    [lines |-> @.lines \union {line}, mtime |-> line]]
    /\ writer' = [writer EXCEPT ![w] = Idle]
    /\ UNCHANGED <<dir, state>>

(* An operation of the rotation raises OSError: the line is appended anyway. *)
RotationFails(w) ==
    /\ writer[w].pc \in {"read", "exists", "stat", "name", "replace", "truncate", "store", "list"}
    /\ Go(w, "open")
    /\ UNCHANGED <<dir, file, state>>

Killed(w) ==
    /\ writer[w] # Idle
    /\ writer' = [writer EXCEPT ![w] = Idle]
    /\ UNCHANGED <<dir, file, state>>

(* Nobody takes a week to write a line. *)
NextWeek ==
    /\ week < MaxWeek
    /\ \A w \in Writers : writer[w] # Idle => writer[w].bucket = week
    /\ week' = week + 1
    /\ UNCHANGED <<dir, file, state, writer, faults, written, expired, overlapped, late>>

Step(w) ==
    \/ Begin(w)
    \/ ReadState(w)
    \/ LogExists(w)
    \/ LogSize(w)
    \/ ChooseName(w)
    \/ Rename(w)
    \/ Truncate(w)
    \/ Store(w)
    \/ ListOld(w)
    \/ UnlinkOld(w)
    \/ Open(w)
    \/ WriteLine(w)

Next ==
    \/ \E w \in Writers :
           /\ \/ Step(w) /\ UNCHANGED faults
              \/ (RotationFails(w) \/ Killed(w)) /\ faults < MaxFaults /\ faults' = faults + 1
           /\ written' = IF writer[w].pc = "write" /\ file' # file
                         THEN Append(written, writer[w].bucket) ELSE written
           /\ expired' = IF writer[w].pc = "unlink"
                         THEN expired \union {dir[n] : n \in DOMAIN dir \ DOMAIN dir'} ELSE expired
           /\ overlapped' = (overlapped \/ \E u, v \in Writers :
                                 u # v /\ Overlap(writer'[u], writer'[v]))
           /\ late' = (late \/ (writer[w].pc = "list" /\ \E v \in Writers : Behind(writer[v])))
           /\ UNCHANGED week
    \/ NextWeek

Spec == Init /\ [][Next]_vars

-----------------------------------------------------------------------------
LogRotationTypeOK ==
    /\ DOMAIN dir \subseteq {Log} \union (Weeks \X Nat)
    /\ \A n \in DOMAIN dir : dir[n] \in DOMAIN file
    /\ \A i \in DOMAIN file :
           file[i].lines \subseteq DOMAIN written /\ file[i].mtime \in 0..Len(written)
    /\ state \in 1..week \union {Absent, Empty}
    /\ written \in Seq(Weeks)
    /\ expired \subseteq DOMAIN file

Present == UNION {file[dir[n]].lines : n \in DOMAIN dir}

(* A line that was written stays in auth.log or in a rotated file until that *)
(* file is removed as too old, whatever appends, failures and kills come in  *)
(* between -- unless two rotations overlap: there is no lock, and the second *)
(* rename can replace the file that the first one made (1246-1250).          *)
NoLineVanishes ==
    ~overlapped =>
        DOMAIN written = Present \union UNION {file[i].lines : i \in expired}

(* No line is written to a renamed log after the first one of a new week. *)
InOrder == \A i, j \in DOMAIN written : i < j => written[i] <= written[j]

(* As long as rotations do not overlap, none fails and no append is late,    *)
(* the lines of this and of the last Keep weeks are all there                *)
(* (ADMIN-GUIDE.md:345): files are removed in the order of their last line.  *)
(* An append is late that follows a line of the next week, or that is still  *)
(* to come when a rotation lists the files by age (1256-1261): it goes to a  *)
(* file that may be removed in the same moment.                              *)
WeeksAreKept ==
    ~overlapped /\ ~late /\ faults = 0 /\ InOrder =>
        \A line \in DOMAIN written : written[line] + Keep >= week => line \in Present

=============================================================================
