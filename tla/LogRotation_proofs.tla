-------------------------- MODULE LogRotation_proofs --------------------------
(***************************************************************************)
(* Proofs about LogRotation, for any number of threads, weeks, lines and   *)
(* faults.  LRInv is inductive.  Its last part, QuietInv, holds as long as *)
(* rotations do not overlap, none fails and no append is late: then the    *)
(* rotated files have the names of different weeks, all before the week of *)
(* the state file, and no file has a line that is younger than its name.   *)
(***************************************************************************)
EXTENDS LogRotation, FiniteSetTheorems, WellFoundedInduction, TLAPS

Stages == {"read", "exists", "stat", "name", "replace", "truncate", "store",
           "list", "unlink", "open", "write"}

At(w, S) == writer[w].pc \in S

Files == [lines : SUBSET Nat, mtime : Nat]

TypeInv ==
    /\ DOMAIN dir \subseteq {Log} \cup ((1..week) \X Nat) /\ IsFiniteSet(DOMAIN dir)
    /\ \A n \in DOMAIN dir : dir[n] \in DOMAIN file
    /\ file \in Seq(Files)
    /\ \A i \in DOMAIN file : file[i].lines \subseteq DOMAIN written /\ file[i].mtime \in 0..Len(written)
    /\ state \in 1..week \cup {Absent, Empty}
    /\ week \in Weeks /\ faults \in Nat
    /\ written \in Seq(1..week)
    /\ expired \subseteq DOMAIN file
    /\ overlapped \in BOOLEAN /\ late \in BOOLEAN

Working(r) ==
    /\ {"pc", "bucket"} \subseteq DOMAIN r /\ r.pc \in Stages
    /\ r.bucket \in 1..week /\ week <= r.bucket + 1
    /\ r.pc \in {"exists", "stat", "name"} => "previous" \in DOMAIN r /\ r.previous \in 1..week
    /\ r.pc = "replace" => "name" \in DOMAIN r /\ r.name \in (1..week) \X Nat
    /\ r.pc = "unlink" => "old" \in DOMAIN r /\ r.old \subseteq (1..week) \X Nat
    /\ r.pc = "write" => "inode" \in DOMAIN r /\ r.inode \in DOMAIN file

WritersInv ==
    /\ writer = [w \in Writers |-> writer[w]]
    /\ \A w \in Writers : writer[w] = Idle \/ Working(writer[w])

\* A file is known by one name at most, and its last line gave it its time.
FilesInv ==
    /\ \A i \in DOMAIN file : file[i].lines # {} =>
           file[i].mtime \in file[i].lines /\ \A l \in file[i].lines : l <= file[i].mtime
    /\ \A m, n \in DOMAIN dir : dir[m] = dir[n] => m = n
    /\ \A n \in DOMAIN dir : dir[n] \notin expired
    /\ \A l \in DOMAIN written : \E i \in DOMAIN file : l \in file[i].lines

\* Unless two rotations overlap, no file is replaced by another.
OneRotates ==
    ~overlapped =>
        /\ \A u, v \in Writers : u # v => ~Overlap(writer[u], writer[v])
        /\ \A i \in DOMAIN file : i \in expired \/ \E n \in DOMAIN dir : dir[n] = i
        /\ \A w \in Writers : At(w, {"replace"}) => writer[w].name \notin DOMAIN dir

Quiet == ~overlapped /\ ~late /\ faults = 0 /\ InOrder

\* The week of the log, which a rotation under way may be about to store.
Upto(x)   == x <= state \/ \E w \in Writers : At(w, {"store"}) /\ x <= writer[w].bucket
Before(x) == x < state \/ \E w \in Writers : At(w, {"truncate", "store"}) /\ x < writer[w].bucket

\* What a rotation has read is still so.
Informed(w) ==
    /\ At(w, {"read"}) => state <= writer[w].bucket
    /\ At(w, {"exists", "stat", "name"}) => writer[w].previous = state /\ state < writer[w].bucket
    /\ At(w, {"replace"}) => writer[w].name[1] = state /\ state < writer[w].bucket
    /\ At(w, {"stat", "name", "replace"}) => Log \in DOMAIN dir
    /\ At(w, {"name", "replace"}) => file[dir[Log]].lines # {}
    /\ At(w, {"truncate"}) => state < writer[w].bucket /\ state # Empty
    /\ At(w, {"store"}) => state = Empty

StateInv ==
    /\ \A w \in Writers : Informed(w)
    /\ state = Empty => \E w \in Writers : At(w, {"store"})
    /\ state = Absent => DOMAIN file = {} /\ \A w \in Writers : At(w, {"idle", "read", "truncate"})

NamesInv ==
    /\ \A n \in Rotated : Before(n[1]) /\ file[dir[n]].lines # {}
    /\ \A m, n \in Rotated : m[1] = n[1] => m = n
    /\ \A n \in Rotated : \A l \in file[dir[n]].lines : written[l] <= n[1]
    /\ Log \in DOMAIN dir => \A l \in file[dir[Log]].lines : Upto(written[l])

\* The line of a writer is no younger than the name of the file it opened.
Appending(w) ==
    /\ At(w, {"list", "unlink", "open", "write"}) => Upto(writer[w].bucket)
    /\ At(w, {"write"}) => /\ \A n \in Rotated : dir[n] = writer[w].inode => writer[w].bucket <= n[1]
                           /\ writer[w].inode \notin expired

\* Removed files, and those about to be, have old lines only and get no more.
Outdated(i) ==
    /\ \A l \in file[i].lines : written[l] + Keep < week
    /\ \A v \in Writers : At(v, {"write"}) => writer[v].inode # i
Removing(w) ==
    At(w, {"unlink"}) => \A n \in writer[w].old : Before(n[1]) /\ (n \in DOMAIN dir => Outdated(dir[n]))

QuietInv ==
    Quiet => /\ StateInv /\ NamesInv
             /\ \A w \in Writers : Appending(w) /\ Removing(w)
             /\ \A i \in expired : Outdated(i)

LRInv == TypeInv /\ WritersInv /\ FilesInv /\ OneRotates /\ QuietInv

\* What Next adds to the step of a thread.
Logged(w) ==
    /\ written' = IF writer[w].pc = "write" /\ file' # file
                  THEN Append(written, writer[w].bucket) ELSE written
    /\ expired' = IF writer[w].pc = "unlink"
                  THEN expired \cup {dir[n] : n \in DOMAIN dir \ DOMAIN dir'} ELSE expired
    /\ overlapped' = (overlapped \/ \E u, v \in Writers : u # v /\ Overlap(writer'[u], writer'[v]))
    /\ late' = (late \/ (writer[w].pc = "list" /\ \E v \in Writers : Behind(writer[v])))
    /\ UNCHANGED week

-----------------------------------------------------------------------------
(* The parts of a step                                                      *)

LEMMA LinesHaveWeeks ==
    ASSUME TypeInv, NEW i \in DOMAIN file, NEW l \in file[i].lines
    PROVE  l \in DOMAIN written /\ l \in Nat /\ written[l] \in 1..week /\ written[l] \in Nat
  <1>1. l \in DOMAIN written /\ written \in Seq(1..week)
    BY DEF TypeInv
  <1>2. DOMAIN written = 1..Len(written) /\ Len(written) \in Nat
    BY <1>1
  <1>3. l \in 1..Len(written)
    BY <1>1, <1>2
  <1> DEFINE S == 1..week
  <1>4. written \in Seq(S)
    BY <1>1
  <1>5. written[l] \in S
    <2> HIDE DEF S
    <2> QED
      BY <1>3, <1>4
  <1> QED
    BY <1>1, <1>3, <1>5

\* A change of pc keeps the other fields.
LEMMA Went ==
    ASSUME LRInv, NEW w \in Writers, writer[w] # Idle, NEW pc, Go(w, pc)
    PROVE  /\ Working(writer[w]) /\ writer' = [v \in Writers |-> writer'[v]]
           /\ \A v \in Writers \ {w} : writer'[v] = writer[v]
           /\ writer'[w].pc = pc /\ writer'[w].bucket = writer[w].bucket
           /\ {"pc", "bucket"} \subseteq DOMAIN writer'[w]
           /\ writer[w].pc \in {"exists", "stat", "name"} =>
                  "previous" \in DOMAIN writer'[w] /\ writer'[w].previous = writer[w].previous
  <1>1. Working(writer[w]) /\ DOMAIN writer = Writers
    BY DEF LRInv, WritersInv
  <1>2. writer' = [writer EXCEPT ![w] = [writer[w] EXCEPT !.pc = pc]]
    BY DEF Go
  <1>3. /\ writer' = [v \in Writers |-> writer'[v]]
        /\ \A v \in Writers \ {w} : writer'[v] = writer[v]
        /\ writer'[w] = [writer[w] EXCEPT !.pc = pc]
    BY <1>1, <1>2
  <1>4. /\ DOMAIN writer'[w] = DOMAIN writer[w] /\ writer'[w].pc = pc
        /\ writer'[w].bucket = writer[w].bucket
        /\ "previous" \in DOMAIN writer[w] => writer'[w].previous = writer[w].previous
    BY <1>1, <1>3 DEF Working
  <1> QED
    BY <1>1, <1>3, <1>4 DEF Working

\* Quiet states come from quiet states.
LEMMA QuietBefore ==
    ASSUME LRInv, NEW w \in Writers, Logged(w), faults' \in {faults, faults + 1}, Quiet'
    PROVE  Quiet /\ faults' = faults
  <1>1. ~overlapped /\ ~late
    BY DEF Logged, Quiet
  <1>2. faults = 0 /\ faults' = faults
    BY DEF Quiet, LRInv, TypeInv
  <1>3. written' = written \/ written' = Append(written, writer[w].bucket)
    BY DEF Logged
  <1>4. /\ DOMAIN written \subseteq DOMAIN written'
        /\ \A i \in DOMAIN written : written'[i] = written[i]
    BY <1>3 DEF LRInv, TypeInv
  <1>5. InOrder
    BY <1>4 DEF Quiet, InOrder
  <1> QED
    BY <1>1, <1>2, <1>5 DEF Quiet

LEMMA OthersWork ==
    ASSUME LRInv, NEW w \in Writers, UNCHANGED week, DOMAIN file \subseteq DOMAIN file',
           writer' = [v \in Writers |-> writer'[v]],
           \A v \in Writers \ {w} : writer'[v] = writer[v],
           writer'[w] = Idle \/ Working(writer[w])'
    PROVE  WritersInv'
  <1>1. \A v \in Writers \ {w} : writer'[v] = Idle \/ Working(writer[v])'
    BY DEF LRInv, WritersInv, Working
  <1> QED
    BY <1>1 DEF WritersInv

\* A step that leaves the files alone.
LEMMA NoFileStep ==
    ASSUME LRInv, NEW w \in Writers, Logged(w), UNCHANGED <<dir, file>>,
           state' \in 1..week \cup {Absent, Empty}, faults' \in {faults, faults + 1},
           writer' = [v \in Writers |-> writer'[v]],
           \A v \in Writers \ {w} : writer'[v] = writer[v],
           writer'[w] = Idle \/ Working(writer[w])',
           ~overlapped' /\ At(w, {"replace"})' => writer'[w].name \notin DOMAIN dir
    PROVE  /\ TypeInv' /\ WritersInv' /\ FilesInv' /\ OneRotates'
           /\ written' = written /\ expired' = expired /\ UNCHANGED week
  <1>1. written' = written /\ expired' = expired /\ UNCHANGED week
    BY DEF Logged
  <1>2. TypeInv'
    <2>1. overlapped' \in BOOLEAN /\ late' \in BOOLEAN /\ faults' \in Nat
      BY DEF Logged, LRInv, TypeInv
    <2> QED
      BY <1>1, <2>1 DEF LRInv, TypeInv
  <1>3. WritersInv'
    BY <1>1, OthersWork
  <1>4. FilesInv'
    BY <1>1 DEF LRInv, FilesInv
  <1>5. OneRotates'
    <2> SUFFICES ASSUME ~overlapped' PROVE OneRotates'
      BY DEF OneRotates
    <2>1. ~overlapped /\ \A u, v \in Writers : u # v => ~Overlap(writer'[u], writer'[v])
      BY DEF Logged
    <2>2. \A v \in Writers : At(v, {"replace"})' => writer'[v].name \notin DOMAIN dir
      BY <2>1 DEF LRInv, OneRotates, At
    <2> QED
      BY <1>1, <2>1, <2>2 DEF LRInv, OneRotates
  <1> QED
    BY <1>1, <1>2, <1>3, <1>4, <1>5

\* If it leaves the state alone too, only its thread matters.
LEMMA LocalStep ==
    ASSUME LRInv, NEW w \in Writers, Logged(w), UNCHANGED <<dir, file, state>>,
           faults' \in {faults, faults + 1},
           writer' = [v \in Writers |-> writer'[v]],
           \A v \in Writers \ {w} : writer'[v] = writer[v],
           writer'[w] = Idle \/ Working(writer[w])',
           ~At(w, {"write"})',
           ~overlapped' /\ At(w, {"replace"})' => writer'[w].name \notin DOMAIN dir,
           Quiet' => /\ ~At(w, {"truncate", "store"})
                     /\ Informed(w)' /\ Appending(w)' /\ Removing(w)'
                     /\ state = Absent => At(w, {"idle", "read", "truncate"})'
    PROVE  LRInv'
  <1>0. state' \in 1..week \cup {Absent, Empty}
    BY DEF LRInv, TypeInv
  <1>1. /\ TypeInv' /\ WritersInv' /\ FilesInv' /\ OneRotates'
        /\ written' = written /\ expired' = expired /\ UNCHANGED week
    BY <1>0, NoFileStep
  <1>6. QuietInv'
    <2> SUFFICES ASSUME Quiet' PROVE QuietInv'
      BY DEF QuietInv
    <2>1. Quiet
      BY QuietBefore
    <2>2. /\ StateInv /\ NamesInv /\ \A v \in Writers : Appending(v) /\ Removing(v)
          /\ \A i \in expired : Outdated(i)
      BY <2>1 DEF LRInv, QuietInv
    <2>3. \A x : (Upto(x) => Upto(x)') /\ (Before(x) => Before(x)')
      BY DEF Upto, Before, At
    <2>4. \A i : Outdated(i) => Outdated(i)'
      BY <1>1 DEF Outdated, At
    <2>5. ASSUME NEW v \in Writers PROVE Informed(v)' /\ Appending(v)' /\ Removing(v)'
      <3>1. CASE v = w
        BY <3>1
      <3>2. CASE v # w
        <4>1. Informed(v)'
          BY <2>2, <3>2 DEF StateInv, Informed, At
        <4>2. Appending(v)'
          BY <1>1, <2>2, <2>3, <3>2 DEF Appending, At, Rotated
        <4>3. Removing(v)'
          BY <2>2, <2>3, <2>4, <3>2 DEF Removing, At
        <4> QED
          BY <4>1, <4>2, <4>3
      <3> QED
        BY <3>1, <3>2
    <2>6. StateInv'
      <3>1. state' = Empty => \E v \in Writers : At(v, {"store"})'
        BY <2>2 DEF StateInv, At
      <3>2. state' = Absent => \A v \in Writers : At(v, {"idle", "read", "truncate"})'
        BY <2>2 DEF StateInv, At
      <3> QED
        BY <2>2, <2>5, <3>1, <3>2 DEF StateInv
    <2>7. NamesInv'
      BY <1>1, <2>2, <2>3 DEF NamesInv, Rotated
    <2> QED
      BY <1>1, <2>2, <2>4, <2>5, <2>6, <2>7 DEF QuietInv
  <1> QED
    BY <1>1, <1>6 DEF LRInv

-----------------------------------------------------------------------------
(* Steps that touch no file                                                 *)

LEMMA StepBegin ==
    ASSUME LRInv, NEW w \in Writers, Begin(w), Logged(w), UNCHANGED faults
    PROVE  LRInv'
  <1> DEFINE r == [pc |-> "read", bucket |-> week]
  <1>0. DOMAIN writer = Writers /\ week \in 1..week /\ state <= week /\ week \in Nat
    BY DEF LRInv, WritersInv, TypeInv, Weeks, Absent, Empty
  <1>1. writer' = [writer EXCEPT ![w] = r] /\ UNCHANGED <<dir, file, state>> /\ writer[w] = Idle
    BY DEF Begin
  <1>2. r.pc = "read" /\ r.bucket = week /\ DOMAIN r = {"pc", "bucket"}
    OBVIOUS
  <1> HIDE DEF r
  <1>3. /\ writer' = [v \in Writers |-> writer'[v]] /\ writer'[w] = r
        /\ \A v \in Writers \ {w} : writer'[v] = writer[v]
    BY <1>0, <1>1
  <1>4. Working(writer[w])'
    BY <1>0, <1>2, <1>3 DEF Working, Stages, Logged
  <1>5. /\ Informed(w)' /\ Appending(w)' /\ Removing(w)'
        /\ ~At(w, {"truncate", "store"}) /\ ~At(w, {"write"})' /\ ~At(w, {"replace"})'
        /\ At(w, {"idle", "read", "truncate"})'
    BY <1>0, <1>1, <1>2, <1>3 DEF Informed, Appending, Removing, At, Idle
  <1> QED
    BY <1>1, <1>3, <1>4, <1>5, LocalStep

LEMMA StepReadState ==
    ASSUME LRInv, NEW w \in Writers, ReadState(w), Logged(w), UNCHANGED faults
    PROVE  LRInv'
  <1> DEFINE b == writer[w].bucket
             r == IF state \in {Absent, Empty} THEN [pc |-> "truncate", bucket |-> b, first |-> TRUE]
                  ELSE IF state = b THEN [pc |-> "open", bucket |-> b]
                  ELSE [pc |-> "exists", bucket |-> b, previous |-> state, first |-> FALSE]
  <1>0. /\ DOMAIN writer = Writers /\ writer[w].pc = "read" /\ b \in 1..week /\ week <= b + 1
        /\ week \in Nat
    BY DEF LRInv, WritersInv, TypeInv, Weeks, ReadState, Working, Idle
  <1>1. writer' = [writer EXCEPT ![w] = r] /\ UNCHANGED <<dir, file, state, week>>
    BY DEF ReadState, Logged
  <1>2. /\ {"pc", "bucket"} \subseteq DOMAIN r /\ r.bucket = b
        /\ r.pc = IF state \in {Absent, Empty} THEN "truncate" ELSE IF state = b THEN "open" ELSE "exists"
        /\ r.pc = "exists" => "previous" \in DOMAIN r /\ r.previous = state /\ state \in 1..week
    BY DEF LRInv, TypeInv
  <1> HIDE DEF r
  <1>3. /\ writer' = [v \in Writers |-> writer'[v]] /\ writer'[w] = r
        /\ \A v \in Writers \ {w} : writer'[v] = writer[v]
    BY <1>0, <1>1
  <1>4. Working(writer[w])'
    BY <1>0, <1>1, <1>2, <1>3 DEF Working, Stages
  <1>5. /\ ~At(w, {"truncate", "store"}) /\ ~At(w, {"write"})' /\ ~At(w, {"replace"})' /\ Removing(w)'
        /\ state = Absent => At(w, {"idle", "read", "truncate"})'
    BY <1>0, <1>2, <1>3 DEF At, Removing
  <1>6. ASSUME Quiet' PROVE Informed(w)' /\ Appending(w)'
    <2>1. Quiet /\ StateInv
      BY <1>6, QuietBefore DEF LRInv, QuietInv
    <2>2. state <= b /\ state \in Int /\ b \in Int
      BY <1>0, <2>1 DEF StateInv, Informed, At, LRInv, TypeInv, Absent, Empty
    <2>3. state # Empty
      <3> SUFFICES ASSUME state = Empty PROVE FALSE
        OBVIOUS
      <3>1. PICK u \in Writers : writer[u].pc = "store"
        BY <2>1 DEF StateInv, At
      <3>2. u # w /\ writer'[u].pc = "store" /\ writer'[w].pc = "truncate"
        BY <1>0, <1>2, <1>3, <3>1
      <3> QED
        BY <1>6, <3>2 DEF Logged, Quiet, Overlap, Rotating
    <2>4. Absent < b /\ Absent \in Int
      BY <1>0 DEF Absent
    <2>5. Informed(w)'
      <3>1. r.pc \in {"truncate", "exists"} => state < b
        BY <1>2, <2>2, <2>3, <2>4
      <3> QED
        BY <1>1, <1>2, <1>3, <2>3, <3>1 DEF Informed, At
    <2>6. Appending(w)'
      <3>1. r.pc = "open" => b <= state
        BY <1>2, <2>2
      <3> QED
        BY <1>1, <1>2, <1>3, <3>1 DEF Appending, At, Upto
    <2> QED
      BY <2>5, <2>6
  <1> QED
    BY <1>1, <1>3, <1>4, <1>5, <1>6, LocalStep

LEMMA StepLogExists ==
    ASSUME LRInv, NEW w \in Writers, LogExists(w), Logged(w), UNCHANGED faults
    PROVE  LRInv'
  <1> DEFINE pc == IF Log \in DOMAIN dir THEN "stat" ELSE "truncate"
  <1>1. /\ writer[w].pc = "exists" /\ writer[w] # Idle /\ Go(w, pc)
        /\ UNCHANGED <<dir, file, state, week>>
    BY DEF LogExists, Idle, Logged
  <1> HIDE DEF pc
  <1>2. /\ Working(writer[w]) /\ writer' = [v \in Writers |-> writer'[v]]
        /\ \A v \in Writers \ {w} : writer'[v] = writer[v]
        /\ writer'[w].pc = pc /\ writer'[w].bucket = writer[w].bucket
        /\ {"pc", "bucket"} \subseteq DOMAIN writer'[w]
        /\ "previous" \in DOMAIN writer'[w] /\ writer'[w].previous = writer[w].previous
    BY <1>1, Went
  <1>3. pc \in {"stat", "truncate"} /\ (pc = "stat" => Log \in DOMAIN dir)
    BY DEF pc
  <1>4. Working(writer[w])'
    BY <1>1, <1>2, <1>3 DEF Working, Stages
  <1>5. /\ ~At(w, {"truncate", "store"}) /\ ~At(w, {"write"})' /\ ~At(w, {"replace"})' /\ Removing(w)'
        /\ Appending(w)'
    BY <1>1, <1>2, <1>3 DEF At, Removing, Appending
  <1>6. ASSUME Quiet' PROVE Informed(w)' /\ state # Absent
    <2>1. Quiet /\ StateInv
      BY <1>6, QuietBefore DEF LRInv, QuietInv
    <2>2. writer[w].previous = state /\ state < writer[w].bucket /\ state # Empty /\ state # Absent
      BY <1>1, <1>2, <2>1 DEF StateInv, Informed, At, Working, Absent, Empty
    <2> QED
      BY <1>1, <1>2, <1>3, <2>2 DEF Informed, At
  <1> QED
    BY <1>1, <1>2, <1>4, <1>5, <1>6, LocalStep

LEMMA StepLogSize ==
    ASSUME LRInv, NEW w \in Writers, LogSize(w), Logged(w), UNCHANGED faults
    PROVE  LRInv'
  <1> DEFINE pc == IF Log \notin DOMAIN dir THEN "open"
                   ELSE IF file[dir[Log]].lines # {} THEN "name" ELSE "truncate"
  <1>1. /\ writer[w].pc = "stat" /\ writer[w] # Idle /\ Go(w, pc)
        /\ UNCHANGED <<dir, file, state, week>>
    BY DEF LogSize, Idle, Logged
  <1> HIDE DEF pc
  <1>2. /\ Working(writer[w]) /\ writer' = [v \in Writers |-> writer'[v]]
        /\ \A v \in Writers \ {w} : writer'[v] = writer[v]
        /\ writer'[w].pc = pc /\ writer'[w].bucket = writer[w].bucket
        /\ {"pc", "bucket"} \subseteq DOMAIN writer'[w]
        /\ "previous" \in DOMAIN writer'[w] /\ writer'[w].previous = writer[w].previous
    BY <1>1, Went
  <1>3. /\ pc \in {"open", "name", "truncate"}
        /\ pc = "name" => Log \in DOMAIN dir /\ file[dir[Log]].lines # {}
        /\ Log \in DOMAIN dir => pc # "open"
    BY DEF pc
  <1>4. Working(writer[w])'
    BY <1>1, <1>2, <1>3 DEF Working, Stages
  <1>5. /\ ~At(w, {"truncate", "store"}) /\ ~At(w, {"write"})' /\ ~At(w, {"replace"})' /\ Removing(w)'
    BY <1>1, <1>2, <1>3 DEF At, Removing
  <1>6. ASSUME Quiet' PROVE Informed(w)' /\ Appending(w)' /\ state # Absent
    <2>1. Quiet /\ StateInv
      BY <1>6, QuietBefore DEF LRInv, QuietInv
    <2>2. /\ writer[w].previous = state /\ state < writer[w].bucket /\ state # Empty /\ state # Absent
          /\ Log \in DOMAIN dir
      BY <1>1, <1>2, <2>1 DEF StateInv, Informed, At, Working, Absent, Empty
    <2> QED
      BY <1>1, <1>2, <1>3, <2>2 DEF Informed, At, Appending
  <1> QED
    BY <1>1, <1>2, <1>4, <1>5, <1>6, LocalStep

\* A set of numbers has a lowest one.
LEMMA LowestExists ==
    ASSUME NEW S \in SUBSET Nat, S # {}
    PROVE  \E x \in S : \A y \in S : x <= y
  <1> DEFINE R == OpToRel(<, Nat)
  <1>1. IsWellFoundedOn(R, Nat)
    BY NatLessThanWellFounded
  <1>2. \A x, y \in Nat : y < x => <<y, x>> \in R
    BY DEF OpToRel
  <1> HIDE DEF R
  <1>3. PICK x \in S : \A y \in S : ~(<<y, x>> \in R)
    BY <1>1, WFMin
  <1>4. ASSUME NEW y \in S PROVE x <= y
    <2>1. x \in Nat /\ y \in Nat /\ ~(y < x)
      BY <1>2, <1>3
    <2> QED
      BY <2>1
  <1> QED
    BY <1>4

\* One of as many names as there are files, and one more, is free.
LEMMA FreeNameIsFree ==
    ASSUME TypeInv, NEW previous \in 1..week
    PROVE  /\ FreeName(previous) \in (1..week) \X Nat /\ FreeName(previous)[1] = previous
           /\ FreeName(previous) \notin DOMAIN dir
  <1> DEFINE c == Cardinality(Rotated)
             free == {n \in 0..c : <<previous, n>> \notin DOMAIN dir}
             place == [n \in 0..c |-> <<previous, n>>]
  <1>0. previous \in Nat \ {0} /\ week \in Nat
    BY DEF TypeInv, Weeks
  <1>1. IsFiniteSet(Rotated) /\ c \in Nat
    <2>1. Rotated \in SUBSET DOMAIN dir /\ IsFiniteSet(DOMAIN dir)
      BY DEF Rotated, TypeInv
    <2> QED
      BY <2>1, FS_Subset, FS_CardinalityType
  <1>2. free # {}
    <2> SUFFICES ASSUME free = {} PROVE FALSE
      OBVIOUS
    <2>1. \A n \in 0..c : <<previous, n>> \in Rotated
      BY <1>0 DEF Rotated, Log
    <2>2. place \in Injection(0..c, Rotated)
      <3> HIDE DEF c
      <3>1. place \in [0..c -> Rotated]
        BY <2>1
      <3>2. \A m, n \in 0..c : place[m] = place[n] => m = n
        OBVIOUS
      <3> HIDE DEF place
      <3> QED
        BY <3>1, <3>2 DEF Injection, IsInjective
    <2>3. IsFiniteSet(0..c) /\ Cardinality(0..c) = c + 1
      <3> HIDE DEF c
      <3> QED
        BY <1>1, FS_Interval
    <2> HIDE DEF place
    <2>4. Cardinality(0..c) <= Cardinality(Rotated)
      BY <1>1, <2>2, FS_Injection
    <2> QED
      BY <1>1, <2>3, <2>4
  <1>3. free \in SUBSET Nat
    BY <1>1
  <1>4. \E x \in free : \A y \in free : x <= y
    <2> HIDE DEF free
    <2> QED
      BY <1>2, <1>3, LowestExists
  <1>5. Min(free) \in free
    <2> HIDE DEF free
    <2> QED
      BY <1>4 DEF Min
  <1>6. FreeName(previous) = <<previous, Min(free)>>
    BY DEF FreeName
  <1>7. Min(free) \in Nat /\ <<previous, Min(free)>> \notin DOMAIN dir
    BY <1>3, <1>5
  <1> HIDE DEF free
  <1> QED
    BY <1>6, <1>7

LEMMA StepChooseName ==
    ASSUME LRInv, NEW w \in Writers, ChooseName(w), Logged(w), UNCHANGED faults
    PROVE  LRInv'
  <1> DEFINE r == [pc |-> "replace", bucket |-> writer[w].bucket, first |-> FALSE,
                   name |-> FreeName(writer[w].previous)]
  <1>0. /\ DOMAIN writer = Writers /\ writer[w].pc = "name" /\ Working(writer[w])
        /\ writer[w].previous \in 1..week
    BY DEF LRInv, WritersInv, ChooseName, Working, Idle
  <1>1. writer' = [writer EXCEPT ![w] = r] /\ UNCHANGED <<dir, file, state, week>>
    BY <1>0 DEF ChooseName, Logged
  <1>2. /\ {"pc", "bucket", "name"} \subseteq DOMAIN r /\ r.bucket = writer[w].bucket /\ r.pc = "replace"
        /\ r.name \in (1..week) \X Nat /\ r.name[1] = writer[w].previous
        /\ r.name \notin DOMAIN dir
    BY <1>0, FreeNameIsFree DEF LRInv
  <1> HIDE DEF r
  <1>3. /\ writer' = [v \in Writers |-> writer'[v]] /\ writer'[w] = r
        /\ \A v \in Writers \ {w} : writer'[v] = writer[v]
    BY <1>0, <1>1
  <1>4. Working(writer[w])'
    BY <1>0, <1>1, <1>2, <1>3 DEF Working, Stages
  <1>5. /\ ~At(w, {"truncate", "store"}) /\ ~At(w, {"write"})' /\ Removing(w)' /\ Appending(w)'
        /\ writer'[w].name \notin DOMAIN dir
    BY <1>0, <1>2, <1>3 DEF At, Removing, Appending
  <1>6. ASSUME Quiet' PROVE Informed(w)' /\ state # Absent
    <2>1. Quiet /\ StateInv
      BY <1>6, QuietBefore DEF LRInv, QuietInv
    <2>2. /\ writer[w].previous = state /\ state < writer[w].bucket /\ state # Absent
          /\ Log \in DOMAIN dir /\ file[dir[Log]].lines # {}
      BY <1>0, <2>1 DEF StateInv, Informed, At, Absent
    <2> QED
      BY <1>1, <1>2, <1>3, <2>2 DEF Informed, At
  <1> QED
    BY <1>1, <1>3, <1>4, <1>5, <1>6, LocalStep

\* A failed rotation and a kill end the quiet.
LEMMA StepRotationFails ==
    ASSUME LRInv, NEW w \in Writers, RotationFails(w), Logged(w), faults' = faults + 1
    PROVE  LRInv'
  <1>1. /\ writer[w] # Idle /\ Go(w, "open") /\ UNCHANGED <<dir, file, state, week>>
    BY DEF RotationFails, Idle, Logged
  <1>2. /\ Working(writer[w]) /\ writer' = [v \in Writers |-> writer'[v]]
        /\ \A v \in Writers \ {w} : writer'[v] = writer[v]
        /\ writer'[w].pc = "open" /\ writer'[w].bucket = writer[w].bucket
        /\ {"pc", "bucket"} \subseteq DOMAIN writer'[w]
    BY <1>1, Went
  <1>3. Working(writer[w])' /\ ~At(w, {"write"})' /\ ~At(w, {"replace"})'
    BY <1>1, <1>2 DEF Working, Stages, At
  <1>4. ~Quiet'
    BY DEF Quiet, LRInv, TypeInv
  <1> QED
    BY <1>1, <1>2, <1>3, <1>4, LocalStep

LEMMA StepKilled ==
    ASSUME LRInv, NEW w \in Writers, Killed(w), Logged(w), faults' = faults + 1
    PROVE  LRInv'
  <1>1. /\ writer' = [v \in Writers |-> writer'[v]] /\ writer'[w] = Idle
        /\ \A v \in Writers \ {w} : writer'[v] = writer[v]
        /\ UNCHANGED <<dir, file, state>>
    BY DEF Killed, LRInv, WritersInv
  <1>2. ~At(w, {"write"})' /\ ~At(w, {"replace"})'
    BY <1>1 DEF At, Idle
  <1>3. ~Quiet'
    BY DEF Quiet, LRInv, TypeInv
  <1> QED
    BY <1>1, <1>2, <1>3, LocalStep

\* A log that was renamed already is not renamed again.
LEMMA StepRenameFails ==
    ASSUME LRInv, NEW w \in Writers, Rename(w), Log \notin DOMAIN dir, Logged(w), UNCHANGED faults
    PROVE  LRInv'
  <1>1. /\ writer[w].pc = "replace" /\ writer[w] # Idle /\ Go(w, "open")
        /\ UNCHANGED <<dir, file, state, week>>
    BY DEF Rename, Idle, Logged
  <1>2. /\ Working(writer[w]) /\ writer' = [v \in Writers |-> writer'[v]]
        /\ \A v \in Writers \ {w} : writer'[v] = writer[v]
        /\ writer'[w].pc = "open" /\ writer'[w].bucket = writer[w].bucket
        /\ {"pc", "bucket"} \subseteq DOMAIN writer'[w]
    BY <1>1, Went
  <1>3. Working(writer[w])' /\ ~At(w, {"write"})' /\ ~At(w, {"replace"})'
    BY <1>1, <1>2 DEF Working, Stages, At
  <1>4. ASSUME Quiet' PROVE FALSE
    <2>1. Quiet /\ StateInv
      BY <1>4, QuietBefore DEF LRInv, QuietInv
    <2> QED
      BY <1>1, <2>1 DEF StateInv, Informed, At
  <1> QED
    BY <1>1, <1>2, <1>3, <1>4, LocalStep

-----------------------------------------------------------------------------
(* The state file                                                           *)

\* While a rotation stores its week, no other is under way.
StateAdvances(w) ==
    /\ \A x \in Nat : (Upto(x) => Upto(x)') /\ (Before(x) => Before(x)')
    /\ state' = Empty => At(w, {"store"})'
    /\ At(w, {"store"})' => state' = Empty
    /\ At(w, {"open", "list"})' => Upto(writer[w].bucket)'
    /\ \A v \in Writers \ {w} : At(v, {"read"}) => state' <= writer[v].bucket

LEMMA StateStep ==
    ASSUME LRInv, NEW w \in Writers, Logged(w), UNCHANGED <<dir, file, faults>>,
           state' \in 1..week \cup {Absent, Empty}, state' # Absent,
           writer' = [v \in Writers |-> writer'[v]],
           \A v \in Writers \ {w} : writer'[v] = writer[v],
           Working(writer[w])',
           At(w, {"truncate", "store"}), At(w, {"store", "open", "list"})',
           Quiet /\ Quiet' => StateAdvances(w)
    PROVE  LRInv'
  <1>1. ~At(w, {"replace"})'
    BY DEF At
  <1>2. /\ TypeInv' /\ WritersInv' /\ FilesInv' /\ OneRotates'
        /\ written' = written /\ expired' = expired /\ UNCHANGED week
    BY <1>1, NoFileStep
  <1>3. QuietInv'
    <2> SUFFICES ASSUME Quiet' PROVE QuietInv'
      BY DEF QuietInv
    <2>1. Quiet
      BY QuietBefore
    <2>2. /\ StateInv /\ NamesInv /\ \A v \in Writers : Appending(v) /\ Removing(v)
          /\ \A i \in expired : Outdated(i)
      BY <2>1 DEF LRInv, QuietInv
    <2>3. StateAdvances(w)
      BY <2>1
    <2>4. \A i : Outdated(i) => Outdated(i)'
      BY <1>2 DEF Outdated, At
    <2>5. \A v \in Writers \ {w} : ~Rotating(writer[v])
      BY <2>1 DEF Quiet, LRInv, OneRotates, Overlap, Rotating, At
    <2>6. ASSUME NEW v \in Writers PROVE Informed(v)' /\ Appending(v)' /\ Removing(v)'
      <3>1. CASE v = w
        BY <2>3, <3>1 DEF StateAdvances, Informed, Appending, Removing, At
      <3>2. CASE v # w
        <4>1. Informed(v)'
          BY <2>3, <2>5, <3>2 DEF StateAdvances, Informed, At, Rotating
        <4>2. Appending(v)'
          <5>1. At(v, {"list", "unlink", "open", "write"}) => writer[v].bucket \in Nat
            BY DEF LRInv, WritersInv, Working, At, Idle
          <5> QED
            BY <1>2, <2>2, <2>3, <3>2, <5>1 DEF StateAdvances, Appending, At, Rotated
        <4>3. Removing(v)'
          <5> SUFFICES ASSUME At(v, {"unlink"}), NEW n \in writer[v].old
                       PROVE  Before(n[1])' /\ (n \in DOMAIN dir => Outdated(dir[n])')
            BY <3>2 DEF Removing, At
          <5>1. n[1] \in Nat
            BY DEF LRInv, WritersInv, Working, At, Idle
          <5> QED
            BY <2>2, <2>3, <2>4, <5>1 DEF StateAdvances, Removing
        <4> QED
          BY <4>1, <4>2, <4>3
      <3> QED
        BY <3>1, <3>2
    <2>7. StateInv'
      BY <2>3, <2>6 DEF StateAdvances, StateInv
    <2>8. NamesInv'
      <3>1. \A n \in Rotated : n[1] \in Nat /\ n \in DOMAIN dir
        BY DEF Rotated, LRInv, TypeInv
      <3>2. \A i \in DOMAIN file : \A l \in file[i].lines : written[l] \in Nat
        BY LinesHaveWeeks DEF LRInv
      <3>3. \A n \in DOMAIN dir : dir[n] \in DOMAIN file
        BY DEF LRInv, TypeInv
      <3> QED
        BY <1>2, <2>2, <2>3, <3>1, <3>2, <3>3 DEF StateAdvances, NamesInv, Rotated
    <2> QED
      BY <1>2, <2>2, <2>4, <2>6, <2>7, <2>8 DEF QuietInv
  <1> QED
    BY <1>2, <1>3 DEF LRInv

LEMMA StepTruncate ==
    ASSUME LRInv, NEW w \in Writers, Truncate(w), Logged(w), UNCHANGED faults
    PROVE  LRInv'
  <1>1. /\ writer[w].pc = "truncate" /\ writer[w] # Idle /\ Go(w, "store") /\ state' = Empty
        /\ UNCHANGED <<dir, file, week>>
    BY DEF Truncate, Idle, Logged
  <1>2. /\ Working(writer[w]) /\ writer' = [v \in Writers |-> writer'[v]]
        /\ \A v \in Writers \ {w} : writer'[v] = writer[v]
        /\ writer'[w].pc = "store" /\ writer'[w].bucket = writer[w].bucket
        /\ {"pc", "bucket"} \subseteq DOMAIN writer'[w]
    BY <1>1, Went
  <1>3. /\ Working(writer[w])' /\ At(w, {"truncate", "store"}) /\ At(w, {"store"})'
        /\ At(w, {"store", "open", "list"})'
        /\ ~At(w, {"open", "list"})'
    BY <1>1, <1>2 DEF Working, Stages, At
  <1>4. ASSUME Quiet
        PROVE  \A x \in Nat : (Upto(x) => Upto(x)') /\ (Before(x) => Before(x)')
    <2>1. /\ state < writer[w].bucket /\ state \in Int /\ writer[w].bucket \in Int
          /\ \A v \in Writers \ {w} : ~Rotating(writer[v])
      BY <1>1, <1>2, <1>4 DEF LRInv, QuietInv, StateInv, Informed, At, TypeInv, Absent, Empty,
                              Working, Quiet, OneRotates, Overlap, Rotating
    <2>2. ASSUME NEW x \in Nat, Upto(x) PROVE Upto(x)'
      <3>1. x <= writer[w].bucket
        BY <1>1, <2>1, <2>2 DEF Upto, At, Rotating
      <3> QED
        BY <1>2, <1>3, <3>1 DEF Upto, At
    <2>3. ASSUME NEW x \in Nat, Before(x) PROVE Before(x)'
      <3>1. x < writer[w].bucket
        BY <1>1, <2>1, <2>3 DEF Before, At, Rotating
      <3> QED
        BY <1>2, <1>3, <3>1 DEF Before, At
    <2> QED
      BY <2>2, <2>3
  <1>5. \A v \in Writers \ {w} : At(v, {"read"}) => state' <= writer[v].bucket
    BY <1>1 DEF LRInv, WritersInv, Working, At, Idle, Empty
  <1>6. state' \in 1..week \cup {Absent, Empty} /\ state' # Absent
    BY <1>1 DEF Absent, Empty
  <1>7. Quiet /\ Quiet' => StateAdvances(w)
    BY <1>1, <1>3, <1>4, <1>5 DEF StateAdvances
  <1>8. UNCHANGED <<dir, file, faults>>
    BY <1>1
  <1> QED
    BY <1>2, <1>3, <1>6, <1>7, <1>8, StateStep

LEMMA StepStore ==
    ASSUME LRInv, NEW w \in Writers, Store(w), Logged(w), UNCHANGED faults
    PROVE  LRInv'
  <1> DEFINE pc == IF writer[w].first THEN "open" ELSE "list"
  <1>1. /\ writer[w].pc = "store" /\ writer[w] # Idle /\ Go(w, pc) /\ state' = writer[w].bucket
        /\ UNCHANGED <<dir, file, week>>
    BY DEF Store, Idle, Logged
  <1>0. pc \in {"open", "list"}
    OBVIOUS
  <1> HIDE DEF pc
  <1>2. /\ Working(writer[w]) /\ writer' = [v \in Writers |-> writer'[v]]
        /\ \A v \in Writers \ {w} : writer'[v] = writer[v]
        /\ writer'[w].pc = pc /\ writer'[w].bucket = writer[w].bucket
        /\ {"pc", "bucket"} \subseteq DOMAIN writer'[w]
    BY <1>1, Went
  <1>3. /\ Working(writer[w])' /\ At(w, {"truncate", "store"}) /\ At(w, {"open", "list"})'
        /\ At(w, {"store", "open", "list"})'
        /\ ~At(w, {"store"})'
    BY <1>0, <1>1, <1>2 DEF Working, Stages, At
  <1>4. /\ state' \in 1..week /\ state' # Absent /\ state' # Empty /\ week \in Nat /\ state' \in Nat
    BY <1>1, <1>2 DEF Working, Absent, Empty, LRInv, TypeInv, Weeks
  <1>5. ASSUME Quiet
        PROVE  /\ \A x \in Nat : (Upto(x) => Upto(x)') /\ (Before(x) => Before(x)')
               /\ Upto(writer[w].bucket)'
               /\ \A v \in Writers \ {w} : At(v, {"read"}) => state' <= writer[v].bucket
    <2>1. state = Empty /\ \A v \in Writers \ {w} : ~Rotating(writer[v])
      BY <1>1, <1>5 DEF LRInv, QuietInv, StateInv, Informed, At, Quiet, OneRotates, Overlap,
         Rotating
    <2>2. ASSUME NEW x \in Nat, Upto(x) PROVE x <= state'
      BY <1>1, <2>1, <2>2 DEF Upto, At, Rotating, Empty
    <2>3. ASSUME NEW x \in Nat, Before(x) PROVE x < state'
      BY <1>1, <2>1, <2>3 DEF Before, At, Rotating, Empty
    <2>4. ASSUME NEW v \in Writers \ {w}, At(v, {"read"}) PROVE state' <= writer[v].bucket
      <3>1. writer[v].bucket = writer[w].bucket
        BY <1>1, <1>5, <2>4 DEF LRInv, OneRotates, Quiet, Overlap, Rotating, At
      <3> QED
        BY <1>1, <1>4, <3>1
    <2> QED
      BY <1>1, <1>2, <1>4, <2>2, <2>3, <2>4 DEF Upto, Before
  <1>7. Quiet /\ Quiet' => StateAdvances(w)
    BY <1>3, <1>4, <1>5 DEF StateAdvances
  <1>8. UNCHANGED <<dir, file, faults>>
    BY <1>1
  <1> QED
    BY <1>2, <1>3, <1>4, <1>7, <1>8, StateStep

-----------------------------------------------------------------------------
(* Old files                                                                *)

\* Keep newer files have names of as many weeks after the last line of this one.
LEMMA OldLines ==
    ASSUME LRInv, Quiet, NEW n \in TooOld, NEW l \in file[dir[n]].lines
    PROVE  written[l] + Keep < week
  <1> DEFINE Newer == {m \in Rotated : file[dir[m]].mtime > file[dir[n]].mtime}
             last == file[dir[n]].mtime
             number == [m \in Newer \cup {n} |-> m[1]]
             first == written[last]
  <1>0. TypeInv /\ FilesInv /\ NamesInv /\ week \in Nat /\ Keep \in Nat
    BY LogRotationAssumption DEF LRInv, QuietInv, TypeInv, Weeks
  <1>1. n \in Rotated /\ Cardinality(Newer) >= Keep
    BY DEF TooOld
  <1>2. ASSUME NEW m \in Rotated
        PROVE  /\ m \in DOMAIN dir /\ dir[m] \in DOMAIN file /\ m[1] \in Nat /\ m[1] < week
               /\ file[dir[m]].mtime \in file[dir[m]].lines
               /\ \A k \in file[dir[m]].lines : k <= file[dir[m]].mtime /\ written[k] <= m[1]
    <2>1. m \in DOMAIN dir /\ dir[m] \in DOMAIN file /\ m[1] \in Nat
      BY <1>0 DEF Rotated, TypeInv
    <2>2. Before(m[1])
      BY <1>0 DEF NamesInv
    <2>3. m[1] < week
      <3>1. state <= week /\ state \in Int
        BY <1>0 DEF TypeInv, Absent, Empty
      <3>2. \A w \in Writers : At(w, {"truncate", "store"}) =>
                writer[w].bucket <= week /\ writer[w].bucket \in Nat
        BY <1>0 DEF LRInv, WritersInv, Working, At, Idle
      <3> QED
        BY <1>0, <2>1, <2>2, <3>1, <3>2 DEF Before
    <2> QED
      BY <1>0, <2>1, <2>3 DEF NamesInv, FilesInv
  <1>3. /\ last \in file[dir[n]].lines /\ last \in DOMAIN written /\ l \in DOMAIN written
        /\ l <= last /\ l \in Nat /\ last \in Nat /\ written[l] \in Nat /\ first \in Nat
    BY <1>0, <1>1, <1>2, LinesHaveWeeks
  <1>4. written[l] <= first
    BY <1>3 DEF Quiet, InOrder
  <1>5. first <= n[1] /\ n[1] \in first..(week - 1)
    BY <1>0, <1>1, <1>2, <1>3
  <1>6. ASSUME NEW m \in Newer PROVE m[1] \in first..(week - 1)
    <2> DEFINE k == file[dir[m]].mtime
    <2>1. k \in file[dir[m]].lines /\ m \in Rotated /\ k > last
      BY <1>2
    <2>2. k \in DOMAIN written /\ k \in Nat /\ written[k] \in Nat
      BY <1>0, <1>2, <2>1, LinesHaveWeeks
    <2>3. first <= written[k]
      BY <1>3, <2>1, <2>2 DEF Quiet, InOrder
    <2>4. written[k] <= m[1] /\ m[1] \in Nat /\ m[1] < week
      BY <1>2, <2>1
    <2> HIDE DEF k, first
    <2> QED
      BY <1>0, <1>3, <2>2, <2>3, <2>4
  <1>7. number \in Injection(Newer \cup {n}, first..(week - 1))
    <2>1. number \in [Newer \cup {n} -> first..(week - 1)]
      BY <1>5, <1>6
    <2>2. \A x, y \in Newer \cup {n} : x[1] = y[1] => x = y
      BY <1>0, <1>1 DEF NamesInv
    <2>3. \A x, y \in Newer \cup {n} : number[x] = number[y] => x = y
      BY <2>2
    <2> HIDE DEF number, Newer, first
    <2> QED
      BY <2>1, <2>3 DEF Injection, IsInjective
  <1>8. IsFiniteSet(Newer) /\ n \notin Newer
    <2>1. Newer \in SUBSET DOMAIN dir /\ IsFiniteSet(DOMAIN dir)
      BY <1>0 DEF TypeInv, Rotated
    <2>2. n \notin Newer
      BY <1>3
    <2> QED
      BY <2>1, <2>2, FS_Subset
  <1>9. /\ IsFiniteSet(first..(week - 1)) /\ Cardinality(first..(week - 1)) = week - first
    <2>1. first <= week - 1 /\ first \in Int /\ week - 1 \in Int
      BY <1>0, <1>3, <1>5
    <2> HIDE DEF first
    <2>2. IsFiniteSet(first..(week - 1)) /\ Cardinality(first..(week - 1)) = (week - 1) - first + 1
      BY <2>1, FS_Interval
    <2> QED
      BY <1>0, <2>1, <2>2
  <1> HIDE DEF Newer, first, number
  <1>10. Cardinality(Newer \cup {n}) <= week - first
    BY <1>7, <1>9, FS_Injection
  <1>11. Cardinality(Newer \cup {n}) = Cardinality(Newer) + 1 /\ Cardinality(Newer) \in Nat
    BY <1>8, FS_AddElement, FS_CardinalityType
  <1> QED
    BY <1>0, <1>1, <1>3, <1>4, <1>10, <1>11

LEMMA StepListOld ==
    ASSUME LRInv, NEW w \in Writers, ListOld(w), Logged(w), UNCHANGED faults
    PROVE  LRInv'
  <1> DEFINE r == [pc |-> "unlink", bucket |-> writer[w].bucket, old |-> TooOld]
  <1>0. DOMAIN writer = Writers /\ writer[w].pc = "list" /\ Working(writer[w])
    BY DEF LRInv, WritersInv, ListOld, Idle
  <1>1. writer' = [writer EXCEPT ![w] = r] /\ UNCHANGED <<dir, file, state, week>>
    BY <1>0 DEF ListOld, Logged
  <1>2. /\ {"pc", "bucket", "old"} \subseteq DOMAIN r /\ r.bucket = writer[w].bucket /\ r.pc = "unlink"
        /\ r.old = TooOld
    OBVIOUS
  <1> HIDE DEF r
  <1>3. /\ writer' = [v \in Writers |-> writer'[v]] /\ writer'[w] = r
        /\ \A v \in Writers \ {w} : writer'[v] = writer[v]
    BY <1>0, <1>1
  <1>4. TooOld \subseteq Rotated /\ TooOld \subseteq (1..week) \X Nat
    BY DEF TooOld, Rotated, LRInv, TypeInv
  <1>5. Working(writer[w])'
    BY <1>0, <1>1, <1>2, <1>3, <1>4 DEF Working, Stages
  <1>6. /\ ~At(w, {"truncate", "store"}) /\ ~At(w, {"write"})' /\ ~At(w, {"replace"})' /\ Informed(w)'
    BY <1>0, <1>2, <1>3 DEF At, Informed
  <1>7. ASSUME Quiet' PROVE Appending(w)' /\ Removing(w)' /\ state # Absent
    <2>1. /\ Quiet /\ StateInv /\ NamesInv /\ Appending(w)
      BY <1>7, QuietBefore DEF LRInv, QuietInv
    <2>2. \A x : (Upto(x) => Upto(x)') /\ (Before(x) => Before(x)')
      BY <1>0, <1>1, <1>3 DEF Upto, Before, At
    <2>3. Appending(w)'
      BY <1>0, <1>2, <1>3, <2>1, <2>2 DEF Appending, At
    <2>4. ASSUME NEW n \in TooOld PROVE Before(n[1])' /\ Outdated(dir[n])'
      <3>1. Before(n[1])
        BY <1>4, <2>1 DEF NamesInv
      <3>2. \A l \in file[dir[n]].lines : written[l] + Keep < week
        BY <2>1, OldLines
      <3>3. \A v \in Writers : At(v, {"write"}) => writer[v].inode # dir[n]
        BY <1>0, <1>4, <1>7 DEF Logged, Quiet, Behind, At
      <3>4. \A v \in Writers : At(v, {"write"})' => writer'[v] = writer[v] /\ At(v, {"write"})
        BY <1>2, <1>3 DEF At
      <3>5. written' = written
        BY <1>1 DEF Logged
      <3> QED
        BY <1>1, <2>2, <3>1, <3>2, <3>3, <3>4, <3>5 DEF Outdated
    <2>5. Removing(w)'
      BY <1>1, <1>2, <1>3, <2>4 DEF Removing
    <2>6. state # Absent
      BY <1>0, <2>1 DEF StateInv, At
    <2> QED
      BY <2>3, <2>5, <2>6
  <1> QED
    BY <1>1, <1>3, <1>5, <1>6, <1>7, LocalStep

-----------------------------------------------------------------------------
(* Steps that change the directory or a file                                *)

\* The log gets the name of its last week, which no other file has.
LEMMA StepRename ==
    ASSUME LRInv, NEW w \in Writers, Rename(w), Log \in DOMAIN dir, Logged(w), UNCHANGED faults
    PROVE  LRInv'
  <1> DEFINE name == writer[w].name
  <1>1. /\ writer[w].pc = "replace" /\ writer[w] # Idle /\ Go(w, "truncate")
        /\ dir' = [n \in (DOMAIN dir \ {Log}) \cup {name} |-> IF n = name THEN dir[Log] ELSE dir[n]]
        /\ UNCHANGED <<file, state, week>>
        /\ written' = written /\ expired' = expired
    BY DEF Rename, Idle, Logged
  <1>2. /\ Working(writer[w]) /\ writer' = [v \in Writers |-> writer'[v]]
        /\ \A v \in Writers \ {w} : writer'[v] = writer[v]
        /\ writer'[w].pc = "truncate" /\ writer'[w].bucket = writer[w].bucket
        /\ {"pc", "bucket"} \subseteq DOMAIN writer'[w]
    BY <1>1, Went
  <1>3. /\ name \in (1..week) \X Nat /\ name # Log /\ week \in Nat
    BY <1>1, <1>2 DEF Working, Log, LRInv, TypeInv, Weeks
  <1> HIDE DEF name
  <1>4. /\ DOMAIN dir' = (DOMAIN dir \ {Log}) \cup {name} /\ dir'[name] = dir[Log]
        /\ \A n \in DOMAIN dir \ {Log, name} : dir'[n] = dir[n]
    BY <1>1
  <1>5. TypeInv'
    <2>1. IsFiniteSet(DOMAIN dir')
      <3>1. IsFiniteSet(DOMAIN dir) /\ DOMAIN dir \ {Log} \in SUBSET DOMAIN dir
        BY DEF LRInv, TypeInv
      <3> QED
        BY <1>4, <3>1, FS_Subset, FS_AddElement
    <2>2. overlapped' \in BOOLEAN /\ late' \in BOOLEAN
      BY DEF Logged, LRInv, TypeInv
    <2>3. \A n \in DOMAIN dir' : dir'[n] \in DOMAIN file
      BY <1>4 DEF LRInv, TypeInv
    <2>4. DOMAIN dir' \subseteq {Log} \cup ((1..week) \X Nat)
      BY <1>3, <1>4 DEF LRInv, TypeInv
    <2> QED
      BY <1>1, <2>1, <2>2, <2>3, <2>4 DEF LRInv, TypeInv
  <1>6. WritersInv'
    <2>1. Working(writer[w])'
      BY <1>1, <1>2 DEF Working, Stages
    <2> QED
      BY <1>1, <1>2, <2>1, OthersWork
  <1>7. FilesInv'
    <2>1. \A m, n \in DOMAIN dir' : dir'[m] = dir'[n] => m = n
      BY <1>4 DEF LRInv, FilesInv
    <2>2. \A n \in DOMAIN dir' : dir'[n] \notin expired
      BY <1>4 DEF LRInv, FilesInv
    <2> QED
      BY <1>1, <2>1, <2>2 DEF LRInv, FilesInv
  <1>8. ASSUME ~overlapped' PROVE /\ name \notin DOMAIN dir
                                  /\ \A v \in Writers \ {w} : ~Rotating(writer[v])
    BY <1>1, <1>8 DEF Logged, LRInv, OneRotates, At, Overlap, Rotating, name
  <1>9. OneRotates'
    <2> SUFFICES ASSUME ~overlapped' PROVE OneRotates'
      BY DEF OneRotates
    <2>1. ~overlapped /\ \A u, v \in Writers : u # v => ~Overlap(writer'[u], writer'[v])
      BY DEF Logged
    <2>2. \A v \in Writers : ~At(v, {"replace"})'
      BY <1>2, <1>8 DEF At, Rotating
    <2>3. \A j \in DOMAIN file : j \in expired \/ \E n \in DOMAIN dir' : dir'[n] = j
      BY <1>4, <1>8, <2>1 DEF LRInv, OneRotates
    <2> QED
      BY <1>1, <2>1, <2>2, <2>3 DEF OneRotates
  <1>10. QuietInv'
    <2> SUFFICES ASSUME Quiet' PROVE QuietInv'
      BY DEF QuietInv
    <2>1. Quiet
      BY QuietBefore
    <2>2. /\ StateInv /\ NamesInv /\ \A v \in Writers : Appending(v) /\ Removing(v)
          /\ \A j \in expired : Outdated(j)
      BY <2>1 DEF LRInv, QuietInv
    <2>3. /\ name \notin DOMAIN dir /\ \A v \in Writers \ {w} : ~Rotating(writer[v])
          /\ \A v \in Writers \ {w} : ~At(v, {"truncate", "store"})
      BY <1>8 DEF Quiet, Rotating, At
    <2>4. /\ name[1] = state /\ state < writer[w].bucket /\ file[dir[Log]].lines # {}
          /\ state # Empty /\ state # Absent
      BY <1>1, <1>3, <2>2 DEF StateInv, Informed, At, name, Absent, Empty
    <2>5. /\ \A x : (Upto(x) => x <= state) /\ (Before(x) => x < state)
          /\ \A x : (Upto(x) => Upto(x)') /\ (Before(x) => Before(x)')
      BY <1>1, <1>2, <2>3 DEF Upto, Before, At
    <2>6. \A j : Outdated(j) => Outdated(j)'
      BY <1>1, <1>2 DEF Outdated, At
    <2>7. \A x : x = state => Before(x)'
      BY <1>1, <1>2, <2>4 DEF Before, At
    <2>8. Rotated' = Rotated \cup {name}
      BY <1>3, <1>4 DEF Rotated
    <2>9. \A n \in Rotated : dir'[n] = dir[n]
      BY <1>4, <2>3 DEF Rotated
    <2>10. ASSUME NEW v \in Writers PROVE Informed(v)' /\ Appending(v)' /\ Removing(v)'
      <3>1. CASE v = w
        BY <1>1, <1>2, <2>4, <3>1 DEF Informed, Appending, Removing, At
      <3>2. CASE v # w
        <4>1. Informed(v)'
          BY <1>1, <1>2, <2>2, <2>3, <3>2 DEF StateInv, Informed, At, Rotating
        <4>2. Appending(v)'
          <5>1. At(v, {"write"}) => writer[v].bucket <= name[1]
            BY <2>2, <2>4, <2>5 DEF Appending, At
          <5> QED
            BY <1>1, <1>2, <1>4, <2>2, <2>5, <2>8, <2>9, <3>2, <5>1 DEF Appending, At
        <4>3. Removing(v)'
          <5> SUFFICES ASSUME At(v, {"unlink"}), NEW n \in writer[v].old
                       PROVE  Before(n[1])' /\ (n \in DOMAIN dir' => Outdated(dir[n])')
            BY <1>2, <3>2 DEF Removing, At
          <5>1. Before(n[1]) /\ (n \in DOMAIN dir => Outdated(dir[n])) /\ n # Log
            BY <2>2 DEF Removing, LRInv, WritersInv, Working, At, Idle, Log
          <5>2. n[1] < state /\ state \in Int
            BY <2>5, <5>1 DEF LRInv, TypeInv, Absent, Empty
          <5>3. n # name
            BY <2>4, <5>2
          <5>4. n \in DOMAIN dir' => n \in DOMAIN dir /\ dir'[n] = dir[n]
            BY <1>4, <5>1, <5>3
          <5>5. ASSUME n \in DOMAIN dir' PROVE Outdated(dir[n])'
            BY <1>1, <1>2, <5>1, <5>4, <5>5 DEF Outdated, At
          <5> QED
            BY <2>5, <5>1, <5>5
        <4> QED
          BY <4>1, <4>2, <4>3
      <3> QED
        BY <3>1, <3>2
    <2>11. StateInv'
      BY <1>1, <2>4, <2>10 DEF StateInv
    <2>12. NamesInv'
      <3>1. ASSUME NEW n \in Rotated' PROVE Before(n[1])' /\ file[dir'[n]].lines # {}
        <4>1. CASE n = name
          BY <1>4, <2>4, <2>7, <4>1
        <4>2. CASE n \in Rotated
          BY <2>2, <2>5, <2>9, <4>2 DEF NamesInv
        <4> QED
          BY <2>8, <4>1, <4>2
      <3>2. \A n \in Rotated : n[1] # name[1]
        <4>1. \A n \in Rotated : n[1] < state /\ n[1] \in Int /\ state \in Int
          BY <2>2, <2>5 DEF NamesInv, Rotated, LRInv, TypeInv, Absent, Empty
        <4> QED
          BY <2>4, <4>1
      <3>3. \A m, n \in Rotated' : m[1] = n[1] => m = n
        BY <2>2, <2>8, <3>2 DEF NamesInv
      <3>4. \A l \in file[dir[Log]].lines : written[l] <= name[1]
        BY <2>2, <2>4, <2>5 DEF NamesInv
      <3>5. \A n \in Rotated' : \A l \in file[dir'[n]].lines : written[l] <= n[1]
        BY <1>4, <2>2, <2>8, <2>9, <3>4 DEF NamesInv
      <3>6. Log \notin DOMAIN dir'
        BY <1>3, <1>4
      <3> QED
        BY <1>1, <3>1, <3>3, <3>5, <3>6 DEF NamesInv
    <2> QED
      BY <1>1, <2>2, <2>6, <2>10, <2>11, <2>12 DEF QuietInv
  <1> QED
    BY <1>5, <1>6, <1>7, <1>9, <1>10 DEF LRInv

LEMMA StepUnlinkOld ==
    ASSUME LRInv, NEW w \in Writers, UnlinkOld(w), Logged(w), UNCHANGED faults
    PROVE  LRInv'
  <1> DEFINE old == writer[w].old
  <1>1. /\ writer[w].pc = "unlink" /\ writer[w] # Idle /\ Go(w, "open")
        /\ dir' = Restrict(dir, DOMAIN dir \ old)
        /\ UNCHANGED <<file, state, week>>
        /\ written' = written /\ expired' = expired \cup {dir[n] : n \in DOMAIN dir \ DOMAIN dir'}
    BY DEF UnlinkOld, Idle, Logged
  <1>2. /\ Working(writer[w]) /\ writer' = [v \in Writers |-> writer'[v]]
        /\ \A v \in Writers \ {w} : writer'[v] = writer[v]
        /\ writer'[w].pc = "open" /\ writer'[w].bucket = writer[w].bucket
        /\ {"pc", "bucket"} \subseteq DOMAIN writer'[w]
    BY <1>1, Went
  <1>3. Log \notin old
    BY <1>1, <1>2 DEF Working, Log
  <1>4. /\ DOMAIN dir' = DOMAIN dir \ old /\ \A n \in DOMAIN dir' : dir'[n] = dir[n]
    BY <1>1 DEF Restrict
  <1> HIDE DEF old
  <1>5. /\ \A j \in expired' : j \in expired \/ \E n \in DOMAIN dir : n \in old /\ dir[n] = j
        /\ \A n \in DOMAIN dir \ DOMAIN dir' : dir[n] \in expired'
        /\ expired \subseteq expired'
    BY <1>1, <1>4
  <1>6. TypeInv'
    <2>1. IsFiniteSet(DOMAIN dir')
      BY <1>4, FS_Subset DEF LRInv, TypeInv
    <2>2. overlapped' \in BOOLEAN /\ late' \in BOOLEAN
      BY DEF Logged, LRInv, TypeInv
    <2>3. expired' \subseteq DOMAIN file /\ \A n \in DOMAIN dir' : dir'[n] \in DOMAIN file
      BY <1>4, <1>5 DEF LRInv, TypeInv
    <2>4. DOMAIN dir' \subseteq {Log} \cup ((1..week) \X Nat)
      BY <1>4 DEF LRInv, TypeInv
    <2> QED
      BY <1>1, <2>1, <2>2, <2>3, <2>4 DEF LRInv, TypeInv
  <1>7. WritersInv'
    <2>1. Working(writer[w])'
      BY <1>1, <1>2 DEF Working, Stages
    <2> QED
      BY <1>1, <1>2, <2>1, OthersWork
  <1>8. FilesInv'
    <2>1. \A n \in DOMAIN dir' : dir'[n] \notin expired'
      BY <1>4, <1>5 DEF LRInv, FilesInv
    <2> QED
      BY <1>1, <1>4, <2>1 DEF LRInv, FilesInv
  <1>9. OneRotates'
    <2> SUFFICES ASSUME ~overlapped' PROVE OneRotates'
      BY DEF OneRotates
    <2>1. ~overlapped /\ \A u, v \in Writers : u # v => ~Overlap(writer'[u], writer'[v])
      BY DEF Logged
    <2>2. \A v \in Writers : At(v, {"replace"})' => writer'[v].name \notin DOMAIN dir'
      BY <1>2, <1>4, <2>1 DEF LRInv, OneRotates, At
    <2>3. \A j \in DOMAIN file : j \in expired' \/ \E n \in DOMAIN dir' : dir'[n] = j
      BY <1>4, <1>5, <2>1 DEF LRInv, OneRotates
    <2> QED
      BY <1>1, <2>1, <2>2, <2>3 DEF OneRotates
  <1>10. QuietInv'
    <2> SUFFICES ASSUME Quiet' PROVE QuietInv'
      BY DEF QuietInv
    <2>1. Quiet
      BY QuietBefore
    <2>2. /\ StateInv /\ NamesInv /\ \A v \in Writers : Appending(v) /\ Removing(v)
          /\ \A j \in expired : Outdated(j)
      BY <2>1 DEF LRInv, QuietInv
    <2>3. \A x : (Upto(x) => Upto(x)') /\ (Before(x) => Before(x)')
      BY <1>1, <1>2 DEF Upto, Before, At
    <2>4. \A j : Outdated(j) => Outdated(j)'
      BY <1>1, <1>2 DEF Outdated, At
    <2>5. \A j \in expired' : Outdated(j)
      BY <1>1, <1>5, <2>2 DEF Removing, At, old
    <2>6. Rotated' \subseteq Rotated /\ \A n \in Rotated' : dir'[n] = dir[n]
      BY <1>4 DEF Rotated
    <2>7. Log \in DOMAIN dir <=> Log \in DOMAIN dir'
      BY <1>3, <1>4
    <2>8. ASSUME NEW v \in Writers PROVE Informed(v)' /\ Appending(v)' /\ Removing(v)'
      <3>1. Informed(v)'
        BY <1>1, <1>2, <1>4, <2>2, <2>7 DEF StateInv, Informed, At
      <3>2. Appending(v)'
        <4>1. At(v, {"write"}) => writer[v].inode \notin expired'
          BY <2>5 DEF Outdated
        <4>2. CASE v = w
          BY <1>1, <1>2, <2>2, <2>3, <4>2 DEF Appending, At
        <4>3. CASE v # w
          BY <1>2, <2>2, <2>3, <2>6, <4>1, <4>3 DEF Appending, At
        <4> QED
          BY <4>2, <4>3
      <3>3. Removing(v)'
        BY <1>1, <1>2, <1>4, <2>2, <2>3, <2>4 DEF Removing, At
      <3> QED
        BY <3>1, <3>2, <3>3
    <2>9. StateInv'
      BY <1>1, <1>2, <2>2, <2>8 DEF StateInv, At
    <2>10. NamesInv'
      BY <1>1, <1>4, <2>2, <2>3, <2>6, <2>7 DEF NamesInv
    <2> QED
      BY <2>4, <2>5, <2>8, <2>9, <2>10 DEF QuietInv
  <1> QED
    BY <1>6, <1>7, <1>8, <1>9, <1>10 DEF LRInv

\* The log that is opened is none of the old files.
LEMMA StepOpen ==
    ASSUME LRInv, NEW w \in Writers, Open(w), Logged(w), UNCHANGED faults
    PROVE  LRInv'
  <1> DEFINE r == [pc |-> "write", bucket |-> writer[w].bucket, inode |-> dir'[Log]]
             new == Len(file) + 1
  <1>0. /\ DOMAIN writer = Writers /\ writer[w].pc = "open" /\ Working(writer[w])
        /\ DOMAIN file = 1..Len(file) /\ Len(file) \in Nat /\ file \in Seq(Files)
        /\ Len(written) \in Nat
    BY DEF LRInv, WritersInv, Open, Idle, TypeInv
  <1>1. /\ writer' = [writer EXCEPT ![w] = r] /\ UNCHANGED <<state, week>>
        /\ written' = written /\ expired' = expired
    BY <1>0 DEF Open, Logged
  <1>2. /\ {"pc", "bucket", "inode"} \subseteq DOMAIN r /\ r.bucket = writer[w].bucket
        /\ r.pc = "write" /\ r.inode = dir'[Log]
    OBVIOUS
  <1> HIDE DEF r
  <1>3. /\ writer' = [v \in Writers |-> writer'[v]] /\ writer'[w] = r
        /\ \A v \in Writers \ {w} : writer'[v] = writer[v]
    BY <1>0, <1>1
  <1>4. /\ DOMAIN dir' = DOMAIN dir \cup {Log} /\ \A n \in DOMAIN dir : dir'[n] = dir[n]
        /\ file' \in Seq(Files) /\ DOMAIN file \subseteq DOMAIN file'
        /\ \A j \in DOMAIN file : file'[j] = file[j]
        /\ \/ Log \in DOMAIN dir /\ UNCHANGED <<dir, file>>
           \/ /\ Log \notin DOMAIN dir /\ dir'[Log] = new /\ new \notin DOMAIN file
              /\ DOMAIN file' = DOMAIN file \cup {new}
              /\ file'[new] = [lines |-> {}, mtime |-> Len(written)]
    <2>1. CASE Log \in DOMAIN dir
      BY <1>0, <2>1 DEF Open
    <2>2. CASE Log \notin DOMAIN dir
      <3> DEFINE e == [lines |-> {}, mtime |-> Len(written)]
      <3>1. file' = Append(file, e) /\ e \in Files
        BY <1>0, <2>2 DEF Open, Files
      <3> HIDE DEF e
      <3>2. /\ file' \in Seq(Files) /\ Len(file') = new /\ DOMAIN file' = 1..new /\ file'[new] = e
            /\ \A j \in 1..Len(file) : file'[j] = file[j]
        BY <1>0, <3>1
      <3>3. dir' = [n \in DOMAIN dir \cup {Log} |-> IF n = Log THEN Len(file') ELSE dir[n]]
        BY <2>2 DEF Open
      <3>4. 1..new = (1..Len(file)) \cup {new} /\ new \notin 1..Len(file)
        BY <1>0
      <3> QED
        BY <1>0, <2>2, <3>2, <3>3, <3>4 DEF e
    <2> QED
      BY <2>1, <2>2
  <1> HIDE DEF new
  <1>5. \A n \in DOMAIN dir' : dir'[n] \in DOMAIN file'
    BY <1>4 DEF LRInv, TypeInv
  <1>6. TypeInv'
    <2>1. IsFiniteSet(DOMAIN dir') /\ DOMAIN dir' \subseteq {Log} \cup ((1..week) \X Nat)
      BY <1>4, FS_AddElement DEF LRInv, TypeInv
    <2>2. overlapped' \in BOOLEAN /\ late' \in BOOLEAN
      BY DEF Logged, LRInv, TypeInv
    <2>3. ASSUME NEW j \in DOMAIN file'
          PROVE  file'[j].lines \subseteq DOMAIN written /\ file'[j].mtime \in 0..Len(written)
      <3>1. CASE j \in DOMAIN file
        <4>1. file[j].lines \subseteq DOMAIN written /\ file[j].mtime \in 0..Len(written)
          BY <3>1 DEF LRInv, TypeInv
        <4> QED
          BY <1>4, <3>1, <4>1
      <3>2. CASE j \notin DOMAIN file
        <4>1. file'[j] = [lines |-> {}, mtime |-> Len(written)]
          BY <1>4, <3>2
        <4> QED
          BY <1>0, <4>1
      <3> QED
        BY <3>1, <3>2
    <2>4. expired \subseteq DOMAIN file'
      BY <1>4 DEF LRInv, TypeInv
    <2> QED
      BY <1>1, <1>4, <1>5, <2>1, <2>2, <2>3, <2>4 DEF LRInv, TypeInv
  <1>7. WritersInv'
    <2>1. Working(writer[w])'
      BY <1>0, <1>1, <1>2, <1>3, <1>4, <1>5 DEF Working, Stages
    <2> QED
      BY <1>1, <1>3, <1>4, <2>1, OthersWork
  <1>8. FilesInv'
    <2>1. \A j \in DOMAIN file' : file'[j].lines # {} =>
              file'[j].mtime \in file'[j].lines /\ \A l \in file'[j].lines : l <= file'[j].mtime
      BY <1>4 DEF LRInv, FilesInv
    <2>2. \A m, n \in DOMAIN dir' : dir'[m] = dir'[n] => m = n
      BY <1>4 DEF LRInv, FilesInv, TypeInv
    <2>3. \A n \in DOMAIN dir' : dir'[n] \notin expired
      BY <1>4 DEF LRInv, FilesInv, TypeInv
    <2>4. \A l \in DOMAIN written : \E j \in DOMAIN file' : l \in file'[j].lines
      BY <1>4 DEF LRInv, FilesInv
    <2> QED
      BY <1>1, <2>1, <2>2, <2>3, <2>4 DEF FilesInv
  <1>9. OneRotates'
    <2> SUFFICES ASSUME ~overlapped' PROVE OneRotates'
      BY DEF OneRotates
    <2>1. ~overlapped /\ \A u, v \in Writers : u # v => ~Overlap(writer'[u], writer'[v])
      BY DEF Logged
    <2>2. ASSUME NEW v \in Writers, At(v, {"replace"})' PROVE writer'[v].name \notin DOMAIN dir'
      <3>1. v # w /\ writer'[v] = writer[v] /\ At(v, {"replace"})
        BY <1>2, <1>3, <2>2 DEF At
      <3>2. writer[v].name \notin DOMAIN dir
        BY <2>1, <3>1 DEF LRInv, OneRotates
      <3>3. writer[v].name # Log
        BY <3>1 DEF LRInv, WritersInv, Working, At, Idle, Log
      <3> QED
        BY <1>4, <3>1, <3>2, <3>3
    <2>3. \A j \in DOMAIN file' : j \in expired \/ \E n \in DOMAIN dir' : dir'[n] = j
      BY <1>4, <2>1 DEF LRInv, OneRotates
    <2> QED
      BY <1>1, <2>1, <2>2, <2>3 DEF OneRotates
  <1>10. QuietInv'
    <2> SUFFICES ASSUME Quiet' PROVE QuietInv'
      BY DEF QuietInv
    <2>1. Quiet
      BY QuietBefore
    <2>2. /\ StateInv /\ NamesInv /\ \A v \in Writers : Appending(v) /\ Removing(v)
          /\ \A j \in expired : Outdated(j)
      BY <2>1 DEF LRInv, QuietInv
    <2>3. \A x : (Upto(x) => Upto(x)') /\ (Before(x) => Before(x)')
      BY <1>0, <1>1, <1>3 DEF Upto, Before, At
    <2>4. /\ Rotated' = Rotated /\ \A n \in Rotated : n \in DOMAIN dir /\ dir'[n] = dir[n] /\ dir[n] # dir'[Log]
      <3>1. Rotated' = Rotated /\ \A n \in Rotated : n \in DOMAIN dir /\ dir'[n] = dir[n]
        BY <1>4 DEF Rotated
      <3>2. \A n \in Rotated : dir'[n] # dir'[Log]
        BY <1>4, <1>8, <3>1 DEF FilesInv, Rotated
      <3> QED
        BY <3>1, <3>2
    <2>5. dir'[Log] \notin expired
      BY <1>1, <1>4, <1>8 DEF FilesInv
    <2>6. ASSUME NEW j \in DOMAIN file, Outdated(j), j # dir'[Log]
          PROVE  Outdated(j)'
      BY <1>0, <1>1, <1>2, <1>3, <1>4, <2>6 DEF Outdated, At
    <2>7. state # Absent
      BY <1>0, <2>2 DEF StateInv, At
    <2>8. ASSUME NEW v \in Writers PROVE Informed(v)' /\ Appending(v)' /\ Removing(v)'
      <3>1. CASE v = w
        <4>1. Upto(writer[w].bucket)
          BY <1>0, <2>2 DEF Appending, At
        <4>2. Appending(w)'
          BY <1>1, <1>2, <1>3, <2>3, <2>4, <2>5, <4>1 DEF Appending, At
        <4> QED
          BY <1>2, <1>3, <3>1, <4>2 DEF Informed, Removing, At
      <3>2. CASE v # w
        <4>1. Informed(v)'
          <5>1. Log \in DOMAIN dir => dir'[Log] = dir[Log] /\ dir[Log] \in DOMAIN file
            BY <1>4 DEF LRInv, TypeInv
          <5> QED
            BY <1>1, <1>3, <1>4, <2>2, <3>2, <5>1 DEF StateInv, Informed, At
        <4>2. Appending(v)'
          BY <1>1, <1>3, <2>2, <2>3, <2>4, <3>2 DEF Appending, At
        <4>3. Removing(v)'
          <5> SUFFICES ASSUME At(v, {"unlink"}), NEW n \in writer[v].old
                       PROVE  Before(n[1])' /\ (n \in DOMAIN dir' => Outdated(dir[n])')
            BY <1>3, <3>2 DEF Removing, At
          <5>1. Before(n[1]) /\ (n \in DOMAIN dir => Outdated(dir[n])) /\ n # Log
            BY <2>2 DEF Removing, LRInv, WritersInv, Working, At, Idle, Log
          <5>2. ASSUME n \in DOMAIN dir' PROVE Outdated(dir[n])'
            <6>1. n \in Rotated /\ Outdated(dir[n]) /\ dir[n] \in DOMAIN file
              BY <1>4, <5>1, <5>2 DEF Rotated, LRInv, TypeInv
            <6> QED
              BY <1>0, <1>1, <1>2, <1>3, <1>4, <2>4, <6>1 DEF Outdated, At
          <5> QED
            BY <2>3, <5>1, <5>2
        <4> QED
          BY <4>1, <4>2, <4>3
      <3> QED
        BY <3>1, <3>2
    <2>9. StateInv'
      BY <1>0, <1>1, <1>3, <2>2, <2>7, <2>8 DEF StateInv, At
    <2>10. NamesInv'
      <3>1. \A n \in Rotated : dir[n] \in DOMAIN file
        BY DEF Rotated, LRInv, TypeInv
      <3>2. \A l \in file'[dir'[Log]].lines : Upto(written[l])'
        <4>1. CASE Log \in DOMAIN dir
          <5>1. file'[dir'[Log]] = file[dir[Log]]
            BY <1>4, <4>1
          <5> QED
            BY <1>1, <2>2, <2>3, <4>1, <5>1 DEF NamesInv
        <4>2. CASE Log \notin DOMAIN dir
          BY <1>4, <4>2
        <4> QED
          BY <4>1, <4>2
      <3> QED
        BY <1>1, <1>4, <2>2, <2>3, <2>4, <3>1, <3>2 DEF NamesInv
    <2>11. \A j \in expired : Outdated(j)'
      BY <2>2, <2>5, <2>6 DEF LRInv, TypeInv
    <2> QED
      BY <1>1, <2>8, <2>9, <2>10, <2>11 DEF QuietInv
  <1> QED
    BY <1>6, <1>7, <1>8, <1>9, <1>10 DEF LRInv

\* The line goes to the file that was opened, whatever its name is now.
LEMMA StepWriteLine ==
    ASSUME LRInv, NEW w \in Writers, WriteLine(w), Logged(w), UNCHANGED faults
    PROVE  LRInv'
  <1> DEFINE line == Len(written) + 1
             inode == writer[w].inode
             new == [lines |-> file[inode].lines \cup {line}, mtime |-> line]
             b == writer[w].bucket
  <1>0. /\ DOMAIN writer = Writers /\ writer[w].pc = "write" /\ Working(writer[w])
        /\ inode \in DOMAIN file /\ b \in 1..week /\ week \in Nat
        /\ DOMAIN file = 1..Len(file) /\ Len(file) \in Nat /\ file \in Seq(Files)
        /\ DOMAIN written = 1..Len(written) /\ Len(written) \in Nat /\ written \in Seq(1..week)
    BY DEF LRInv, WritersInv, WriteLine, Idle, TypeInv, Working, Weeks
  <1>1. file[inode] \in Files /\ file[inode].lines \subseteq DOMAIN written /\ line \notin DOMAIN written
    BY <1>0 DEF LRInv, TypeInv
  <1>2. /\ file' = [file EXCEPT ![inode] = new] /\ writer' = [writer EXCEPT ![w] = Idle]
        /\ UNCHANGED <<dir, state, week>>
    BY <1>0 DEF WriteLine, Logged
  <1>3. new \in Files /\ new # file[inode]
    BY <1>0, <1>1 DEF Files
  <1>4. /\ file' \in Seq(Files) /\ DOMAIN file' = DOMAIN file /\ file'[inode] = new
        /\ \A j \in DOMAIN file \ {inode} : file'[j] = file[j]
    <2> HIDE DEF new, inode
    <2> QED
      BY <1>0, <1>2, <1>3
  <1>5. /\ written' = Append(written, b) /\ expired' = expired
    BY <1>0, <1>3, <1>4 DEF Logged
  <1>6. /\ written' \in Seq(1..week) /\ Len(written') = line /\ DOMAIN written' = DOMAIN written \cup {line}
        /\ written'[line] = b /\ \A l \in DOMAIN written : written'[l] = written[l] /\ l <= line
        /\ line <= line /\ line \notin DOMAIN written
    <2> DEFINE S == 1..week
    <2>1. written \in Seq(S) /\ b \in S
      BY <1>0
    <2> HIDE DEF S, b
    <2>2. /\ written' \in Seq(S) /\ Len(written') = line /\ DOMAIN written' = 1..line
          /\ written'[line] = b /\ \A l \in 1..Len(written) : written'[l] = written[l]
      BY <1>0, <1>5, <2>1
    <2> QED
      BY <1>0, <2>2 DEF S
  <1>7. /\ writer' = [v \in Writers |-> writer'[v]] /\ writer'[w] = Idle
        /\ \A v \in Writers \ {w} : writer'[v] = writer[v]
    BY <1>0, <1>2
  <1>8. new.lines = file[inode].lines \cup {line} /\ new.mtime = line
    OBVIOUS
  <1> HIDE DEF new, line, inode, b
  <1>9. TypeInv'
    <2>1. overlapped' \in BOOLEAN /\ late' \in BOOLEAN
      BY DEF Logged, LRInv, TypeInv
    <2>2. ASSUME NEW j \in DOMAIN file'
          PROVE  file'[j].lines \subseteq DOMAIN written' /\ file'[j].mtime \in 0..Len(written')
      <3>1. CASE j = inode
        BY <1>0, <1>1, <1>4, <1>6, <1>8, <3>1 DEF line
      <3>2. CASE j # inode
        <4>1. file[j].lines \subseteq DOMAIN written /\ file[j].mtime \in 0..Len(written)
          BY <1>4 DEF LRInv, TypeInv
        <4> QED
          BY <1>0, <1>4, <1>6, <3>2, <4>1 DEF line
      <3> QED
        BY <3>1, <3>2
    <2> QED
      BY <1>2, <1>4, <1>5, <1>6, <2>1, <2>2 DEF LRInv, TypeInv
  <1>10. WritersInv'
    BY <1>2, <1>4, <1>7, OthersWork
  <1>11. FilesInv'
    <2>1. ASSUME NEW j \in DOMAIN file', file'[j].lines # {}
          PROVE  file'[j].mtime \in file'[j].lines /\ \A l \in file'[j].lines : l <= file'[j].mtime
      <3>1. CASE j = inode
        <4>1. \A l \in file[inode].lines \cup {line} : l <= line
          BY <1>1, <1>6
        <4> QED
          BY <1>4, <1>8, <3>1, <4>1
      <3>2. CASE j # inode
        BY <1>4, <2>1, <3>2 DEF LRInv, FilesInv
      <3> QED
        BY <3>1, <3>2
    <2>2. \A l \in DOMAIN written' : \E j \in DOMAIN file' : l \in file'[j].lines
      <3>1. \A j \in DOMAIN file : file[j].lines \subseteq file'[j].lines
        BY <1>4, <1>8
      <3>2. \A l \in DOMAIN written : \E j \in DOMAIN file : l \in file[j].lines
        BY DEF LRInv, FilesInv
      <3> QED
        BY <1>0, <1>4, <1>6, <1>8, <3>1, <3>2
    <2> QED
      BY <1>2, <1>5, <2>1, <2>2 DEF LRInv, FilesInv
  <1>12. OneRotates'
    <2> SUFFICES ASSUME ~overlapped' PROVE OneRotates'
      BY DEF OneRotates
    <2>1. ~overlapped /\ \A u, v \in Writers : u # v => ~Overlap(writer'[u], writer'[v])
      BY DEF Logged
    <2>2. \A v \in Writers : At(v, {"replace"})' => writer'[v].name \notin DOMAIN dir'
      BY <1>2, <1>7, <2>1 DEF LRInv, OneRotates, At, Idle
    <2> QED
      BY <1>2, <1>4, <1>5, <2>1, <2>2 DEF LRInv, OneRotates
  <1>13. QuietInv'
    <2> SUFFICES ASSUME Quiet' PROVE QuietInv'
      BY DEF QuietInv
    <2>1. Quiet
      BY QuietBefore
    <2>2. /\ StateInv /\ NamesInv /\ \A v \in Writers : Appending(v) /\ Removing(v)
          /\ \A j \in expired : Outdated(j)
      BY <2>1 DEF LRInv, QuietInv
    <2>3. \A x : (Upto(x) => Upto(x)') /\ (Before(x) => Before(x)')
      BY <1>0, <1>2, <1>7 DEF Upto, Before, At
    <2>4. /\ Upto(b) /\ inode \notin expired
          /\ \A n \in Rotated : dir[n] = inode => b <= n[1]
      BY <1>0, <2>2 DEF Appending, At, b, inode
    <2>5. Rotated' = Rotated /\ \A n \in DOMAIN dir : dir[n] \in DOMAIN file
      BY <1>2 DEF Rotated, LRInv, TypeInv
    <2>6. ASSUME NEW j \in DOMAIN file
          PROVE  /\ file[j].lines \subseteq file'[j].lines /\ file[j].lines \subseteq DOMAIN written
                 /\ \A l \in file'[j].lines :
                        \/ l \in file[j].lines /\ written'[l] = written[l]
                        \/ j = inode /\ l = line /\ written'[l] = b
      <3>1. file[j].lines \subseteq DOMAIN written
        BY DEF LRInv, TypeInv
      <3>2. file'[j].lines = IF j = inode THEN file[j].lines \cup {line} ELSE file[j].lines
        BY <1>4, <1>8
      <3>3. \A l \in file[j].lines : written'[l] = written[l]
        <4>1. \A l \in DOMAIN written : written'[l] = written[l]
          BY <1>6
        <4> QED
          BY <3>1, <4>1
      <3>4. written'[line] = b
        BY <1>6
      <3>5. file[j].lines \subseteq file'[j].lines
        BY <3>2
      <3>6. ASSUME NEW l \in file'[j].lines
            PROVE  \/ l \in file[j].lines /\ written'[l] = written[l]
                   \/ j = inode /\ l = line /\ written'[l] = b
        BY <3>2, <3>3, <3>4
      <3> QED
        BY <3>1, <3>5, <3>6
    <2>7. ASSUME NEW j \in DOMAIN file, Outdated(j), j # inode PROVE Outdated(j)'
      <3>1. \A l \in file'[j].lines : written'[l] + Keep < week
        BY <2>6, <2>7 DEF Outdated
      <3>2. \A v \in Writers : At(v, {"write"})' => At(v, {"write"}) /\ writer'[v] = writer[v]
        BY <1>7 DEF At, Idle
      <3> QED
        BY <1>2, <2>7, <3>1, <3>2 DEF Outdated
    <2>8. ASSUME NEW v \in Writers PROVE Informed(v)' /\ Appending(v)' /\ Removing(v)'
      <3>1. CASE v = w
        BY <1>7, <3>1 DEF Informed, Appending, Removing, At, Idle
      <3>2. CASE v # w
        <4>1. Informed(v)'
          <5>1. Log \in DOMAIN dir /\ file[dir[Log]].lines # {} => file'[dir[Log]].lines # {}
            BY <2>5, <2>6
          <5> QED
            BY <1>2, <1>7, <2>2, <3>2, <5>1 DEF StateInv, Informed, At
        <4>2. Appending(v)'
          BY <1>2, <1>5, <1>7, <2>2, <2>3, <2>5, <3>2 DEF Appending, At
        <4>3. Removing(v)'
          <5> SUFFICES ASSUME At(v, {"unlink"}), NEW n \in writer[v].old
                       PROVE  Before(n[1])' /\ (n \in DOMAIN dir => Outdated(dir[n])')
            BY <1>2, <1>7, <3>2 DEF Removing, At
          <5>1. Before(n[1]) /\ (n \in DOMAIN dir => Outdated(dir[n]))
            BY <2>2 DEF Removing
          <5>2. ASSUME n \in DOMAIN dir PROVE Outdated(dir[n])'
            <6>1. PICK j \in DOMAIN file : j = dir[n]
              BY <2>5, <5>2
            <6>2. Outdated(j)
              BY <5>1, <5>2, <6>1
            <6>3. j # inode
              BY <1>0, <6>2 DEF Outdated, At, inode
            <6>4. Outdated(j)'
              BY <2>7, <6>2, <6>3
            <6> QED
              BY <1>2, <6>1, <6>4 DEF Outdated
          <5> QED
            BY <2>3, <5>1, <5>2
        <4> QED
          BY <4>1, <4>2, <4>3
      <3> QED
        BY <3>1, <3>2
    <2>9. StateInv'
      <3>1. state' = Empty => \E v \in Writers : At(v, {"store"})'
        BY <1>0, <1>2, <1>7, <2>2 DEF StateInv, At
      <3>2. state' # Absent
        BY <1>0, <1>2, <2>2 DEF StateInv, At
      <3> QED
        BY <2>8, <3>1, <3>2 DEF StateInv
    <2>10. NamesInv'
      <3>1. ASSUME NEW n \in Rotated
            PROVE  /\ Before(n[1])' /\ file'[dir[n]].lines # {}
                   /\ \A l \in file'[dir[n]].lines : written'[l] <= n[1]
        <4>1. n \in DOMAIN dir
          BY DEF Rotated
        <4> QED
          BY <2>2, <2>3, <2>4, <2>5, <2>6, <4>1 DEF NamesInv
      <3>2. Log \in DOMAIN dir => \A l \in file'[dir[Log]].lines : Upto(written'[l])
        BY <2>2, <2>4, <2>5, <2>6 DEF NamesInv
      <3>3. \A x : Upto(x) => x <= state' \/ \E v \in Writers : At(v, {"store"})' /\ x <= writer'[v].bucket
        BY <1>0, <1>2, <1>7 DEF Upto, At
      <3>4. Log \in DOMAIN dir => \A l \in file'[dir[Log]].lines :
                written'[l] <= state' \/ \E v \in Writers : At(v, {"store"})' /\ written'[l] <= writer'[v].bucket
        BY <3>2, <3>3
      <3>5. (Log \in DOMAIN dir => \A l \in file[dir[Log]].lines : Upto(written[l]))'
        BY <1>2, <3>4 DEF Upto
      <3> QED
        BY <1>2, <2>2, <2>5, <3>1, <3>5 DEF NamesInv
    <2>11. \A j \in expired : Outdated(j)'
      BY <2>2, <2>4, <2>7 DEF LRInv, TypeInv
    <2> QED
      BY <1>5, <2>8, <2>9, <2>10, <2>11 DEF QuietInv
  <1> QED
    BY <1>9, <1>10, <1>11, <1>12, <1>13 DEF LRInv

-----------------------------------------------------------------------------
(* The calendar, and the theorems                                           *)

LEMMA StepNextWeek ==
    ASSUME LRInv, NextWeek
    PROVE  LRInv'
  <1>1. /\ week < MaxWeek /\ week' = week + 1 /\ week \in Nat \ {0} /\ MaxWeek \in Nat
        /\ \A w \in Writers : writer[w] # Idle => writer[w].bucket = week
        /\ UNCHANGED <<dir, file, state, writer, faults, written, expired, overlapped, late>>
    BY LogRotationAssumption DEF NextWeek, LRInv, TypeInv, Weeks
  <1>2. 1..week \subseteq 1..week'
    BY <1>1
  <1>3. TypeInv'
    <2>1. written \in Seq(1..week')
      <3> DEFINE S == 1..week
                 T == 1..week'
      <3>1. written \in Seq(S) /\ S \subseteq T
        BY <1>2 DEF LRInv, TypeInv
      <3> HIDE DEF S, T
      <3>2. written \in Seq(T)
        BY <3>1
      <3> QED
        BY <3>2 DEF T
    <2>2. week' \in Weeks
      BY <1>1 DEF Weeks
    <2>3. (1..week) \X Nat \subseteq (1..week') \X Nat
      BY <1>2
    <2> QED
      BY <1>1, <1>2, <2>1, <2>2, <2>3 DEF LRInv, TypeInv
  <1>4. WritersInv'
    <2>1. ASSUME NEW w \in Writers, writer[w] # Idle PROVE Working(writer[w])'
      <3>1. Working(writer[w]) /\ writer[w].bucket = week
        BY <1>1, <2>1 DEF LRInv, WritersInv
      <3>2. week' <= writer[w].bucket + 1
        BY <1>1, <3>1
      <3>3. (1..week) \X Nat \subseteq (1..week') \X Nat
        BY <1>2
      <3> QED
        BY <1>1, <1>2, <3>1, <3>2, <3>3 DEF Working
    <2> QED
      BY <1>1, <2>1 DEF LRInv, WritersInv
  <1>5. FilesInv'
    BY <1>1 DEF LRInv, FilesInv
  <1>6. OneRotates'
    BY <1>1 DEF LRInv, OneRotates, At
  <1>7. QuietInv'
    <2> SUFFICES ASSUME Quiet' PROVE QuietInv'
      BY DEF QuietInv
    <2>1. Quiet
      BY <1>1 DEF Quiet, InOrder
    <2>2. /\ StateInv /\ NamesInv /\ \A v \in Writers : Appending(v) /\ Removing(v)
          /\ \A j \in expired : Outdated(j)
      BY <2>1 DEF LRInv, QuietInv
    <2>3. \A x : (Upto(x) => Upto(x)') /\ (Before(x) => Before(x)')
      BY <1>1 DEF Upto, Before, At
    <2>4. ASSUME NEW j \in DOMAIN file, Outdated(j) PROVE Outdated(j)'
      <3>1. \A l \in file[j].lines : written[l] + Keep < week' 
        <4> SUFFICES ASSUME NEW l \in file[j].lines PROVE written[l] + Keep < week'
          OBVIOUS
        <4>1. written[l] \in Nat /\ Keep \in Nat /\ written[l] + Keep < week
          BY <2>4, LinesHaveWeeks, LogRotationAssumption DEF LRInv, Outdated
        <4> QED
          BY <1>1, <4>1
      <3> QED
        BY <1>1, <2>4, <3>1 DEF Outdated, At
    <2>5. StateInv'
      BY <1>1, <2>2 DEF StateInv, Informed, At
    <2>6. NamesInv'
      BY <1>1, <2>2, <2>3 DEF NamesInv, Rotated
    <2>7. ASSUME NEW v \in Writers PROVE Appending(v)' /\ Removing(v)'
      <3>1. Appending(v)'
        BY <1>1, <2>2, <2>3 DEF Appending, At, Rotated
      <3>2. Removing(v)'
        <4> SUFFICES ASSUME At(v, {"unlink"}), NEW n \in writer[v].old
                     PROVE  Before(n[1])' /\ (n \in DOMAIN dir => Outdated(dir[n])')
          BY <1>1 DEF Removing, At
        <4>1. Before(n[1]) /\ (n \in DOMAIN dir => Outdated(dir[n]))
          BY <2>2 DEF Removing
        <4>2. ASSUME n \in DOMAIN dir PROVE Outdated(dir[n])'
          <5>1. PICK j \in DOMAIN file : j = dir[n]
            BY <4>2 DEF LRInv, TypeInv
          <5>2. Outdated(j)'
            BY <2>4, <4>1, <4>2, <5>1
          <5> QED
            BY <1>1, <5>1, <5>2 DEF Outdated
        <4> QED
          BY <2>3, <4>1, <4>2
      <3> QED
        BY <3>1, <3>2
    <2>8. \A j \in expired : Outdated(j)'
      BY <2>2, <2>4 DEF LRInv, TypeInv
    <2> QED
      BY <1>1, <2>5, <2>6, <2>7, <2>8 DEF QuietInv
  <1> QED
    BY <1>3, <1>4, <1>5, <1>6, <1>7 DEF LRInv

LEMMA LRInit == Init => LRInv
  <1> SUFFICES ASSUME Init PROVE LRInv
    OBVIOUS
  <1>1. /\ DOMAIN dir = {} /\ DOMAIN file = {} /\ DOMAIN written = {} /\ file = << >> /\ written = << >>
        /\ state = Absent /\ week = 1 /\ faults = 0 /\ expired = {} /\ ~overlapped /\ ~late
        /\ \A w \in Writers : writer[w] = Idle
    BY DEF Init
  <1>2. TypeInv
    <2>1. IsFiniteSet(DOMAIN dir) /\ file \in Seq(Files)
      BY <1>1, FS_EmptySet
    <2>2. written \in Seq(1..week)
      BY <1>1
    <2>3. week \in Weeks /\ state \in 1..week \cup {Absent, Empty}
      BY <1>1, LogRotationAssumption DEF Weeks
    <2>4. overlapped \in BOOLEAN /\ late \in BOOLEAN
      BY DEF Init
    <2> QED
      BY <1>1, <2>1, <2>2, <2>3, <2>4 DEF TypeInv
  <1>3. WritersInv /\ FilesInv
    BY <1>1 DEF Init, WritersInv, FilesInv
  <1>4. \A w \in Writers : At(w, {"idle"}) /\ ~Rotating(writer[w])
    BY <1>1 DEF At, Idle, Rotating
  <1>5. OneRotates
    BY <1>1, <1>4 DEF OneRotates, Overlap, At
  <1>6. StateInv
    BY <1>1, <1>4 DEF StateInv, Informed, At, Absent, Empty
  <1>7. NamesInv
    BY <1>1 DEF NamesInv, Rotated
  <1>8. \A w \in Writers : Appending(w) /\ Removing(w)
    BY <1>4 DEF Appending, Removing, At
  <1> QED
    BY <1>1, <1>2, <1>3, <1>5, <1>6, <1>7, <1>8 DEF LRInv, QuietInv

LEMMA LRStep == LRInv /\ [Next]_vars => LRInv'
  <1> SUFFICES ASSUME LRInv, [Next]_vars PROVE LRInv'
    OBVIOUS
  <1>1. ASSUME NEW w \in Writers, Step(w), Logged(w), UNCHANGED faults PROVE LRInv'
    <2>1. CASE Begin(w)
      BY <1>1, <2>1, StepBegin
    <2>2. CASE ReadState(w)
      BY <1>1, <2>2, StepReadState
    <2>3. CASE LogExists(w)
      BY <1>1, <2>3, StepLogExists
    <2>4. CASE LogSize(w)
      BY <1>1, <2>4, StepLogSize
    <2>5. CASE ChooseName(w)
      BY <1>1, <2>5, StepChooseName
    <2>6. CASE Rename(w)
      BY <1>1, <2>6, StepRename, StepRenameFails
    <2>7. CASE Truncate(w)
      BY <1>1, <2>7, StepTruncate
    <2>8. CASE Store(w)
      BY <1>1, <2>8, StepStore
    <2>9. CASE ListOld(w)
      BY <1>1, <2>9, StepListOld
    <2>10. CASE UnlinkOld(w)
      BY <1>1, <2>10, StepUnlinkOld
    <2>11. CASE Open(w)
      BY <1>1, <2>11, StepOpen
    <2>12. CASE WriteLine(w)
      BY <1>1, <2>12, StepWriteLine
    <2> QED
      BY <1>1, <2>1, <2>2, <2>3, <2>4, <2>5, <2>6, <2>7, <2>8, <2>9, <2>10, <2>11, <2>12 DEF Step
  <1>2. ASSUME NEW w \in Writers, RotationFails(w) \/ Killed(w), Logged(w), faults' = faults + 1
        PROVE  LRInv'
    BY <1>2, StepRotationFails, StepKilled
  <1>3. CASE NextWeek
    BY <1>3, StepNextWeek
  <1>4. CASE UNCHANGED vars
    <2>1. UNCHANGED <<dir, file, state, writer, week, faults, written, expired, overlapped, late>>
      BY <1>4 DEF vars
    <2>2. TypeInv' /\ WritersInv' /\ FilesInv' /\ OneRotates'
      BY <2>1 DEF LRInv, TypeInv, WritersInv, Working, FilesInv, OneRotates, At
    <2>3. QuietInv'
      BY <2>1 DEF LRInv, QuietInv, Quiet, InOrder, StateInv, Informed, NamesInv, Rotated, Appending,
                  Removing, Outdated, Upto, Before, At
    <2> QED
      BY <2>2, <2>3 DEF LRInv
  <1>5. ASSUME Next
        PROVE  \/ NextWeek
               \/ \E w \in Writers :
                      /\ \/ Step(w) /\ UNCHANGED faults
                         \/ (RotationFails(w) \/ Killed(w)) /\ faults' = faults + 1
                      /\ Logged(w)
    BY <1>5 DEF Next, Logged
  <1> QED
    BY <1>1, <1>2, <1>3, <1>4, <1>5

(* What every step of every thread in _rotate_auth_log_if_needed and          *)
(* _write_auth_log_line (src/app/__init__.py 1210-1290) keeps: LRInv.         *)
THEOREM LogRotationInvariant == Spec => []LRInv
  BY LRInit, LRStep, PTL DEF Spec

(* The log, the rotated files and the state file hold what they should.       *)
THEOREM LogRotationTypeCorrect == Spec => []LogRotationTypeOK
  <1>1. LRInv => LogRotationTypeOK
    <2> SUFFICES ASSUME LRInv PROVE LogRotationTypeOK
      OBVIOUS
    <2>1. 1..week \subseteq Weeks /\ week \in Nat
      BY LogRotationAssumption DEF LRInv, TypeInv, Weeks
    <2>2. DOMAIN dir \subseteq {Log} \cup (Weeks \X Nat)
      BY <2>1 DEF LRInv, TypeInv
    <2>3. written \in Seq(Weeks)
      <3> DEFINE S == 1..week
      <3>1. written \in Seq(S) /\ S \subseteq Weeks
        BY <2>1 DEF LRInv, TypeInv
      <3> HIDE DEF S
      <3> QED
        BY <3>1
    <2> QED
      BY <2>2, <2>3 DEF LogRotationTypeOK, LRInv, TypeInv
  <1> QED
    BY <1>1, LogRotationInvariant, PTL

(* Unless two rotations overlap, the rename (1249) replaces no file, and a    *)
(* line is where it was appended (1285) until that file is unlinked (1263),   *)
(* whatever appends, failures and kills come in between.                      *)
THEOREM LinesStay == Spec => []NoLineVanishes
  <1>1. LRInv => NoLineVanishes
    <2> SUFFICES ASSUME LRInv, ~overlapped
                 PROVE  DOMAIN written = Present \cup UNION {file[j].lines : j \in expired}
      BY DEF NoLineVanishes
    <2>1. \A j \in DOMAIN file : file[j].lines \subseteq DOMAIN written
      BY DEF LRInv, TypeInv
    <2>2. expired \subseteq DOMAIN file /\ \A n \in DOMAIN dir : dir[n] \in DOMAIN file
      BY DEF LRInv, TypeInv
    <2>3. ASSUME NEW l \in DOMAIN written
          PROVE  l \in Present \cup UNION {file[j].lines : j \in expired}
      <3>1. PICK j \in DOMAIN file : l \in file[j].lines
        BY DEF LRInv, FilesInv
      <3>2. j \in expired \/ \E n \in DOMAIN dir : dir[n] = j
        BY DEF LRInv, OneRotates
      <3> QED
        BY <3>1, <3>2 DEF Present
    <2> QED
      BY <2>1, <2>2, <2>3 DEF Present
  <1> QED
    BY <1>1, LogRotationInvariant, PTL

(* ADMIN-GUIDE.md:345 keeps AUTH_LOG_ROTATE_KEEP weeks.  While rotations do   *)
(* not overlap, none fails and no append is late, the names of the rotated    *)
(* files are different weeks (1243), none has a line younger than its name,   *)
(* and so the Keep files that are newer by mtime (1256-1261) stand for Keep   *)
(* weeks since the last line of a file that is removed (OldLines).            *)
THEOREM WeeksStay == Spec => []WeeksAreKept
  <1>1. LRInv /\ NoLineVanishes => WeeksAreKept
    <2> SUFFICES ASSUME LRInv, NoLineVanishes, Quiet, NEW l \in DOMAIN written, written[l] + Keep >= week
                 PROVE  l \in Present
      BY DEF WeeksAreKept, Quiet
    <2>1. l \in Present \cup UNION {file[j].lines : j \in expired}
      BY DEF NoLineVanishes, Quiet
    <2>2. ASSUME NEW j \in expired, l \in file[j].lines PROVE FALSE
      <3>1. written[l] + Keep < week
        BY <2>2 DEF LRInv, QuietInv, Outdated
      <3>2. written[l] \in Nat /\ Keep \in Nat /\ week \in Nat
        BY <2>2, LinesHaveWeeks, LogRotationAssumption DEF LRInv, TypeInv, Weeks
      <3> QED
        BY <3>1, <3>2
    <2> QED
      BY <2>1, <2>2
  <1> QED
    BY <1>1, LogRotationInvariant, LinesStay, PTL

=============================================================================
