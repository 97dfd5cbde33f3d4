---------------------------- MODULE SetupToken_proofs ----------------------------
(***************************************************************************)
(* Proofs about SetupToken, for any number of workers, kills and faults.   *)
(* STInv is inductive.  While no two setup requests have written at once   *)
(* (~raced), one worker at a time writes config.json, and what it writes   *)
(* is built from the file that is still there: so the keys stay, and the   *)
(* token can only be replaced while no worker serves with it.              *)
(***************************************************************************)
EXTENDS SetupToken, FiniteSetTheorems, TLAPS

Committing == {w \in Workers : phase[w] = "commit"}

\* A write at each of its stages; whoever opened a file knows its inode.
Writes == {NoWrite} \cup [stage : {"open"}, text : Text]
              \cup [stage : {"fill", "replace"}, text : Text, inode : 1..Len(file)]

TypeInv ==
    /\ SetupTokenTypeOK
    /\ \A w \in Workers : write[w] \in Writes
    /\ DOMAIN write = Workers /\ DOMAIN memory = Workers
    /\ accounts + Cardinality(Committing) <= 1 + Cardinality(Workers)
    /\ env \in Nat /\ faults \in Nat /\ raced \in BOOLEAN
    /\ config = tmp => tmp = NoFile

\* Who creates or finalizes config.json is alone; who finishes has an account.
LockInv ==
    /\ \A u, w \in Workers : u # w /\ phase[u] \in Exclusive =>
           phase[w] \notin Exclusive \cup Shared
    /\ \A w \in Workers : phase[w] = "finish" => accounts > 0

\* One writer, whose text keeps the keys and has a token if a setup is to come.
WriterInv ==
    /\ \A w \in Workers : write[w] # NoWrite => write[w].text.key # NoKey \/ raced
    /\ \A w \in Workers : write[w] # NoWrite /\ phase[w] \in {"config", "create"} =>
           write[w].text.key # NoKey
    /\ ~raced =>
        /\ \A u, w \in Workers : write[u] # NoWrite /\ write[w] # NoWrite => u = w
        /\ \A w \in Workers : write[w] # NoWrite =>
            /\ config # NoFile => write[w].text.key = OnDisk.key
            /\ write[w].stage \in {"fill", "replace"} => write[w].inode = tmp /\ tmp # NoFile
            /\ write[w].stage = "replace" => file[tmp] = write[w].text
            /\ phase[w] = "finalize" /\ accounts = 0 =>
                  env = NoToken /\ write[w].text.token # NoToken /\ ~write[w].text.completed

\* What the workers remember is in the file, and nobody is about to change it.
AgreeInv ==
    ~raced =>
        /\ config # NoFile => OnDisk.key # NoKey
        /\ \A w \in Workers : phase[w] \in {"finalize", "up", "commit", "finish"} =>
              config # NoFile /\ memory[w].key = OnDisk.key
        /\ \A w \in Workers : phase[w] = "up" /\ accounts = 0 /\ faults = 0 =>
              /\ memory[w].token = TokenOf(OnDisk)
              /\ env = NoToken => /\ OnDisk.token # NoToken /\ ~OnDisk.completed
                                  /\ \A v \in Workers : write[v] = NoWrite

STInv == TypeInv /\ LockInv /\ WriterInv /\ AgreeInv

\* What every step of a worker does besides.
Moved ==
    /\ raced' = (raced \/ Cardinality(Finishing') > 1)
    /\ env' = env /\ faults' \in {faults, faults + 1}

-----------------------------------------------------------------------------
(* Random values                                                            *)

\* There is always a number that is not in use.
LEMMA Fresh ==
    ASSUME NEW S, IsFiniteSet(S), NEW k \in Nat, k > Cardinality(S)
    PROVE  \E n \in 1..k : n \notin S
<1> SUFFICES ASSUME 1..k \subseteq S PROVE FALSE
    OBVIOUS
<1>1. Cardinality(S) \in Nat /\ Cardinality(1..k) <= Cardinality(S)
    BY FS_CardinalityType, FS_Subset
<1>2. Cardinality(1..k) = k
    BY FS_Interval
<1> QED
    BY <1>1, <1>2

\* Files, workers and writes use finitely many values.
LEMMA UsedIsFinite == ASSUME TypeInv PROVE IsFiniteSet(Used)
<1> DEFINE Writing == {v \in Workers : write[v] # NoWrite}
           F == {{file[i].key, file[i].token} : i \in DOMAIN file}
           M == {{memory[w].key, memory[w].token} : w \in Workers}
           W == {{write[w].text.key, write[w].text.token} : w \in Writing}
<1>1. \A a, b : IsFiniteSet({a, b})
    <2> TAKE a, b
    <2>1. IsFiniteSet({a}) /\ IsFiniteSet({b})
        BY FS_Singleton
    <2>2. {a, b} = {a} \cup {b}
        OBVIOUS
    <2> QED
        BY <2>1, <2>2, FS_Union
<1>2. IsFiniteSet(DOMAIN file) /\ IsFiniteSet(Workers) /\ IsFiniteSet(Writing)
    <2>1. DOMAIN file = 1..Len(file) /\ Len(file) \in Nat
        BY DEF TypeInv, SetupTokenTypeOK
    <2>2. IsFiniteSet(1..Len(file))
        BY <2>1, FS_Interval
    <2> QED
        BY <2>1, <2>2, FS_Subset, SetupTokenAssumption
<1>3. IsFiniteSet(F) /\ IsFiniteSet(M) /\ IsFiniteSet(W)
    <2> HIDE DEF Writing
    <2>1. [i \in DOMAIN file |-> {file[i].key, file[i].token}] \in Surjection(DOMAIN file, F)
        BY DEF Surjection
    <2>2. [w \in Workers |-> {memory[w].key, memory[w].token}] \in Surjection(Workers, M)
        BY DEF Surjection
    <2>3. [w \in Writing |-> {write[w].text.key, write[w].text.token}] \in Surjection(Writing, W)
        BY DEF Surjection
    <2> QED
        BY <1>2, <2>1, <2>2, <2>3, FS_Surjection
<1>4. \A S : S \in F \cup M \cup W => IsFiniteSet(S)
    BY <1>1
<1>5. IsFiniteSet(UNION F) /\ IsFiniteSet(UNION M) /\ IsFiniteSet(UNION W)
    BY <1>3, <1>4, FS_UNION
<1>6. Used = ({NoKey, NoToken} \cup {env}) \cup (UNION F) \cup (UNION M) \cup (UNION W)
    BY DEF Used
<1>7. IsFiniteSet({NoKey, NoToken} \cup {env})
    BY <1>1, FS_AddElement
<1>8. \A A, B : IsFiniteSet(A) /\ IsFiniteSet(B) => IsFiniteSet(A \cup B)
    BY FS_Union
<1> HIDE DEF F, M, W
<1> QED
    BY <1>5, <1>6, <1>7, <1>8

\* A new key or token is one.
LEMMA NewValues ==
    ASSUME TypeInv
    PROVE  NewKey \in Nat \ {NoKey} /\ NewToken \in Nat \ {NoToken}
<1>1. IsFiniteSet(Used) /\ Cardinality(Used) \in Nat
    BY UsedIsFinite, FS_CardinalityType
<1>2. PICK k \in 1..(Cardinality(Used) + 1) : k \notin Used
    BY <1>1, Fresh
<1>3. NewKey \in 1..(Cardinality(Used) + 1)
    BY <1>2 DEF NewKey
<1>4. IsFiniteSet(Used \cup {NewKey}) /\ Cardinality(Used \cup {NewKey}) \in Nat
      /\ Cardinality(Used \cup {NewKey}) <= Cardinality(Used) + 1
    BY <1>1, FS_AddElement, FS_CardinalityType
<1>5. PICK m \in 1..(Cardinality(Used) + 2) : m \notin Used \cup {NewKey}
    BY <1>1, <1>4, Fresh
<1>6. NewToken \in 1..(Cardinality(Used) + 2)
    BY <1>5 DEF NewToken
<1> QED
    BY <1>1, <1>3, <1>6 DEF NoKey, NoToken

-----------------------------------------------------------------------------
(* Steps                                                                    *)

\* While nobody has raced, at most one setup request writes.
LEMMA RacedStep ==
    ASSUME TypeInv, ~raced', raced' = (raced \/ Cardinality(Finishing') > 1)
    PROVE  ~raced /\ \A u, w \in Finishing' : u = w
<1>1. IsFiniteSet(Finishing') /\ Cardinality(Finishing') \in Nat
    BY SetupTokenAssumption, FS_Subset, FS_CardinalityType DEF Finishing
<1>2. ASSUME NEW u \in Finishing', NEW w \in Finishing', u # w PROVE FALSE
    <2>1. Cardinality({u} \cup {w}) = 2
        <3>1. IsFiniteSet({u}) /\ Cardinality({u}) = 1 /\ w \notin {u}
            BY <1>2, FS_Singleton
        <3> QED
            BY <3>1, FS_AddElement
    <2>2. {u} \cup {w} \in SUBSET (Finishing')
        BY <1>2
    <2>3. Cardinality({u} \cup {w}) <= Cardinality(Finishing')
        BY <1>1, <2>2, FS_Subset
    <2>4. ~(Cardinality(Finishing') > 1)
        OBVIOUS
    <2> QED
        BY <1>1, <2>1, <2>3, <2>4
<1> QED
    BY <1>1, <1>2 DEF TypeInv

LEMMA OnDiskIsText == ASSUME TypeInv PROVE OnDisk \in Text
<1>1. Empty \in Text
    BY DEF Empty, Text, NoKey, NoToken
<1>2. file \in Seq(Text) /\ config \in 0..Len(file)
    BY DEF TypeInv, SetupTokenTypeOK
<1>3. config # NoFile => file[config] \in Text
    BY <1>2 DEF NoFile
<1> QED
    BY <1>1, <1>3 DEF OnDisk

\* What is written has keys and, for a setup to come, a token.
LEMMA WantedText ==
    ASSUME STInv, NEW w \in Workers, phase[w] \in Exclusive \cup {"finish"}
    PROVE  /\ Wanted(w) \in Text
           /\ OnDisk.key # NoKey => Wanted(w).key = OnDisk.key
           /\ phase[w] \in {"config", "create"} => Wanted(w).key # NoKey
           /\ phase[w] = "finalize" /\ accounts = 0 =>
                 IF env # NoToken THEN Wanted(w) = OnDisk
                 ELSE Wanted(w).token # NoToken /\ ~Wanted(w).completed
           /\ OnDisk.key # NoKey /\ OnDisk.token # NoToken /\ ~OnDisk.completed /\ accounts = 0 =>
                 Wanted(w) = OnDisk
<1>1. TypeInv /\ OnDisk \in Text /\ NewKey \in Nat \ {NoKey} /\ NewToken \in Nat \ {NoToken}
    BY OnDiskIsText, NewValues DEF STInv
<1>2. CASE phase[w] \in {"config", "create"}
    BY <1>1, <1>2 DEF Wanted, Completed, Text, NoToken
<1>3. CASE phase[w] \in {"finalize", "finish"}
    <2>1. accounts \in Nat /\ (phase[w] = "finish" => accounts > 0)
        BY <1>1, SetupTokenAssumption, FS_CardinalityType DEF TypeInv, SetupTokenTypeOK, STInv,
           LockInv
    <2>0. Wanted(w) = Finalized(w, OnDisk) /\ phase[w] \notin {"config", "create"}
        BY <1>3 DEF Wanted
    <2>2. CASE accounts > 0
        <3>1. Wanted(w) = Marked(OnDisk) /\ ~(accounts = 0)
            BY <2>0, <2>1, <2>2 DEF Finalized
        <3>2. Marked(OnDisk) \in Text /\ Marked(OnDisk).key = OnDisk.key
            BY <1>1 DEF Marked, Text, NoToken
        <3> QED
            BY <2>0, <3>1, <3>2
    <2>3. CASE accounts = 0 /\ env # NoToken
        <3>1. Wanted(w) = OnDisk
            BY <2>0, <2>3 DEF Finalized
        <3> QED
            BY <1>1, <2>0, <2>3, <3>1
    <2>4. CASE accounts = 0 /\ env = NoToken
        <3>1. phase[w] = "finalize" /\ Wanted(w) = Ensured(OnDisk)
            BY <1>3, <2>0, <2>1, <2>4 DEF Finalized
        <3>2. OnDisk.token # NoToken /\ ~OnDisk.completed => Ensured(OnDisk) = OnDisk
            BY <1>1 DEF Ensured, Text
        <3>3. Ensured(OnDisk) \in Text /\ Ensured(OnDisk).key = OnDisk.key
              /\ Ensured(OnDisk).token # NoToken /\ Ensured(OnDisk).completed = FALSE
            BY <1>1 DEF Ensured, Text
        <3> QED
            BY <2>4, <3>1, <3>2, <3>3
    <2> QED
        BY <2>1, <2>2, <2>3, <2>4
<1> QED
    BY <1>2, <1>3 DEF Exclusive

\* Accounts stay within their bound if nobody else comes to commit one.
LEMMA CountStep ==
    ASSUME TypeInv, accounts' = accounts, Committing' \subseteq Committing
    PROVE  accounts' + Cardinality(Committing)' <= 1 + Cardinality(Workers)
<1>1. IsFiniteSet(Committing) /\ Cardinality(Committing) \in Nat /\ Cardinality(Workers) \in Nat
    BY SetupTokenAssumption, FS_Subset, FS_CardinalityType DEF Committing
<1>2. Cardinality(Committing') <= Cardinality(Committing) /\ Cardinality(Committing') \in Nat
    BY <1>1, FS_Subset, FS_CardinalityType
<1>3. accounts \in Nat
    BY <1>1 DEF TypeInv, SetupTokenTypeOK
<1> QED
    BY <1>1, <1>2, <1>3 DEF TypeInv

LEMMA MovedTypes ==
    ASSUME TypeInv, Moved
    PROVE  env' \in Nat /\ faults' \in Nat /\ raced' \in BOOLEAN
<1>1. env' \in Nat /\ faults' \in Nat
    BY DEF Moved, TypeInv
<1>2. raced' \in BOOLEAN
    <2>1. raced' = (raced \/ Cardinality(Finishing') > 1)
        BY DEF Moved
    <2> QED
        BY ONLY <2>1, Zenon
<1> QED
    BY <1>1, <1>2

\* A start waits for the lock, with nothing to change.
LEMMA LockStep ==
    ASSUME STInv, NEW w \in Workers, Lock(w), Moved
    PROVE  STInv'
<1> USE DEF Lock, LockIsFree, disk, Exclusive, Shared
<1>1. TypeInv'
    <2>1. Committing' \subseteq Committing
        BY DEF Committing, STInv, TypeInv, SetupTokenTypeOK
    <2>2. SetupTokenTypeOK'
        BY DEF STInv, TypeInv, SetupTokenTypeOK
    <2> QED
        BY <2>1, <2>2, CountStep, MovedTypes DEF STInv, TypeInv, Writes
<1>2. LockInv'
    BY DEF STInv, LockInv, TypeInv, SetupTokenTypeOK
<1>3. WriterInv'
    BY RacedStep DEF STInv, WriterInv, TypeInv, SetupTokenTypeOK, OnDisk, Moved
<1>4. AgreeInv'
    BY RacedStep DEF STInv, AgreeInv, TypeInv, SetupTokenTypeOK, OnDisk, TokenOf, Moved
<1> QED
    BY <1>1, <1>2, <1>3, <1>4 DEF STInv

\* A setup request is admitted; every worker could be in one.
LEMMA SetupStep ==
    ASSUME STInv, NEW w \in Workers, Setup(w), Moved
    PROVE  STInv'
<1> USE DEF Setup, LockIsShared, disk, Exclusive, Shared
<1>1. TypeInv'
    <2>1. Committing' \subseteq Workers /\ Cardinality(Workers) \in Nat
        BY SetupTokenAssumption, FS_CardinalityType DEF Committing
    <2>2. Cardinality(Committing') <= Cardinality(Workers) /\ Cardinality(Committing') \in Nat
        BY <2>1, SetupTokenAssumption, FS_Subset, FS_CardinalityType
    <2>3. accounts' + Cardinality(Committing)' <= 1 + Cardinality(Workers)
        BY <2>1, <2>2
    <2>4. SetupTokenTypeOK'
        BY DEF STInv, TypeInv, SetupTokenTypeOK
    <2> QED
        BY <2>3, <2>4, MovedTypes DEF STInv, TypeInv, Writes
<1>2. LockInv'
    BY DEF STInv, LockInv, TypeInv, SetupTokenTypeOK
<1>3. WriterInv'
    BY RacedStep DEF STInv, WriterInv, TypeInv, SetupTokenTypeOK, OnDisk, Moved
<1>4. AgreeInv'
    BY RacedStep DEF STInv, AgreeInv, TypeInv, SetupTokenTypeOK, OnDisk, TokenOf, Moved
<1> QED
    BY <1>1, <1>2, <1>3, <1>4 DEF STInv

\* One account more, one request fewer that is about to commit one.
LEMMA CommitStep ==
    ASSUME STInv, NEW w \in Workers, Commit(w), Moved
    PROVE  STInv'
<1> USE DEF Commit, disk, Exclusive, Shared
<1>1. accounts \in Nat /\ accounts' \in 0..(1 + Cardinality(Workers))
      /\ accounts' + Cardinality(Committing)' <= 1 + Cardinality(Workers)
    <2>1. /\ IsFiniteSet(Committing) /\ Cardinality(Committing) \in Nat
          /\ Cardinality(Workers) \in Nat
        BY SetupTokenAssumption, FS_Subset, FS_CardinalityType DEF Committing
    <2>2. w \in Committing /\ Committing' = Committing \ {w}
        BY DEF Committing, STInv, TypeInv, SetupTokenTypeOK
    <2>3. Cardinality(Committing') = Cardinality(Committing) - 1
        BY <2>1, <2>2, FS_RemoveElement
    <2>4. Cardinality(Committing) - 1 \in Nat
        BY <2>1, <2>2, <2>3, FS_RemoveElement, FS_CardinalityType
    <2>5. accounts \in Nat /\ accounts + Cardinality(Committing) <= 1 + Cardinality(Workers)
        BY <2>1 DEF STInv, TypeInv, SetupTokenTypeOK
    <2> QED
        BY <2>1, <2>3, <2>4, <2>5
<1>2. TypeInv'
    <2>1. SetupTokenTypeOK'
        BY <1>1 DEF STInv, TypeInv, SetupTokenTypeOK
    <2> QED
        BY <1>1, <2>1, MovedTypes DEF STInv, TypeInv, Writes
<1>3. LockInv'
    BY <1>1 DEF STInv, LockInv, TypeInv, SetupTokenTypeOK
<1>4. WriterInv'
    BY <1>1, RacedStep DEF STInv, WriterInv, LockInv, TypeInv, SetupTokenTypeOK, OnDisk, Moved
<1>5. AgreeInv'
    BY <1>1, RacedStep DEF STInv, AgreeInv, TypeInv, SetupTokenTypeOK, OnDisk, TokenOf, Moved
<1> QED
    BY <1>2, <1>3, <1>4, <1>5 DEF STInv

\* What a killed worker leaves behind is a file of another name.
LEMMA KillStep ==
    ASSUME STInv, NEW w \in Workers, Kill(w), Moved
    PROVE  STInv'
<1> USE DEF Kill, disk, Exclusive, Shared
<1>1. TypeInv'
    <2>1. Committing' \subseteq Committing
        BY DEF Committing, STInv, TypeInv, SetupTokenTypeOK
    <2>2. SetupTokenTypeOK'
        BY DEF STInv, TypeInv, SetupTokenTypeOK, NoWrite, Unset, NoKey, NoToken
    <2> QED
        BY <2>1, <2>2, CountStep, MovedTypes DEF STInv, TypeInv, Writes
<1>2. LockInv'
    BY DEF STInv, LockInv, TypeInv, SetupTokenTypeOK
<1>3. WriterInv'
    BY RacedStep DEF STInv, WriterInv, TypeInv, SetupTokenTypeOK, OnDisk, Moved
<1>4. AgreeInv'
    BY RacedStep DEF STInv, AgreeInv, TypeInv, SetupTokenTypeOK, OnDisk, TokenOf, Moved
<1> QED
    BY <1>1, <1>2, <1>3, <1>4 DEF STInv

\* A start or a request gives up; then workers need not agree on the token.
LEMMA RaisedStep ==
    ASSUME STInv, NEW w \in Workers, Raised(w), Moved, UNCHANGED <<disk, accounts>>,
           phase[w] \in Exclusive \cup {"finish"},
           raced \/ faults' > 0
    PROVE  STInv'
<1> USE DEF Raised, disk, Exclusive, Shared
<1>1. TypeInv'
    <2>1. Committing' \subseteq Committing
        BY DEF Committing, STInv, TypeInv, SetupTokenTypeOK
    <2>2. SetupTokenTypeOK'
        BY DEF STInv, TypeInv, SetupTokenTypeOK, NoWrite, Unset, NoKey, NoToken
    <2> QED
        BY <2>1, <2>2, CountStep, MovedTypes DEF STInv, TypeInv, Writes
<1>2. LockInv'
    BY DEF STInv, LockInv, TypeInv, SetupTokenTypeOK
<1>3. WriterInv'
    BY RacedStep DEF STInv, WriterInv, TypeInv, SetupTokenTypeOK, OnDisk, Moved
<1>4. AgreeInv'
    BY RacedStep, MovedTypes DEF STInv, AgreeInv, TypeInv, SetupTokenTypeOK, OnDisk, TokenOf, Moved
<1> QED
    BY <1>1, <1>2, <1>3, <1>4 DEF STInv

LEMMA WriteFailsStep ==
    ASSUME STInv, NEW w \in Workers, WriteFails(w), Moved, faults' = faults + 1
    PROVE  STInv'
<1>1. phase[w] \in Exclusive \cup {"finish"} /\ faults' > 0
    BY DEF WriteFails, STInv, TypeInv, SetupTokenTypeOK
<1> QED
    BY <1>1, RaisedStep DEF WriteFails

\* A file that was read, or just written, is what a worker keeps.
LEMMA AdvanceTypes ==
    ASSUME TypeInv, NEW w \in Workers, NEW cfg \in Text, Advance(w, cfg),
           phase[w] \in Exclusive \cup {"finish"}, phase[w] = "create" => cfg.key # NoKey
    PROVE  /\ phase' \in [Workers -> Exclusive \cup Shared \cup {"down", "between", "up"}]
           /\ DOMAIN memory' = Workers
           /\ \A v \in Workers :
                 /\ memory'[v] \in [key : Nat, token : Nat]
                 /\ phase'[v] \in {"up", "commit", "finish", "finalize"} => memory'[v].key # NoKey
           /\ \A v \in Workers : v # w => memory'[v] = memory[v] /\ phase'[v] = phase[v]
           /\ Committing' \subseteq Committing
<1> USE DEF Advance, Exclusive, Shared, TypeInv, SetupTokenTypeOK
<1>1. phase' \in [Workers -> Exclusive \cup Shared \cup {"down", "between", "up"}]
    OBVIOUS
<1>2. TokenOf(cfg) \in Nat /\ NoToken \in Nat /\ cfg.key \in Nat
    BY DEF TokenOf, Text, NoToken
<1>3. memory'[w] \in [key : Nat, token : Nat]
      /\ (phase'[w] \in {"up", "commit", "finish", "finalize"} => memory'[w].key # NoKey)
    BY <1>2
<1>4. \A v \in Workers : v # w => memory'[v] = memory[v] /\ phase'[v] = phase[v]
    OBVIOUS
<1>5. Committing' \subseteq Committing
    BY DEF Committing
<1> QED
    BY <1>1, <1>3, <1>4, <1>5

\* The file is as wanted, or it is unreadable after a race, or a write begins.
LEMMA ReadStep ==
    ASSUME STInv, NEW w \in Workers, Read(w), Moved
    PROVE  STInv'
<1>1. /\ phase[w] \in Exclusive \cup {"finish"} /\ write[w] = NoWrite
      /\ UNCHANGED <<disk, accounts>> /\ OnDisk \in Text
    BY OnDiskIsText DEF Read, STInv
<1>2. CASE config # NoFile /\ OnDisk = Empty
    <2>1. Raised(w) /\ raced
        BY <1>2 DEF Read, STInv, AgreeInv, TypeInv, Empty
    <2> QED
        BY <1>1, <2>1, RaisedStep
<1>3. CASE Wanted(w) = OnDisk /\ Advance(w, OnDisk) /\ write' = write
    <2> USE <1>1, <1>3 DEF disk, Exclusive, Shared
    <2>1. phase[w] \in {"config", "create"} => OnDisk.key # NoKey
        BY WantedText
    <2>2. TypeInv'
        <3>1. SetupTokenTypeOK'
            <4>1. \A v \in Workers : write'[v] # NoWrite => phase'[v] \in Exclusive \cup {"finish"}
                BY <2>1, AdvanceTypes DEF STInv, TypeInv, SetupTokenTypeOK
            <4> QED
                BY <2>1, <4>1, AdvanceTypes DEF STInv, TypeInv, SetupTokenTypeOK
        <3> QED
            BY <2>1, <3>1, AdvanceTypes, CountStep, MovedTypes DEF STInv, TypeInv, Writes
    <2>3. LockInv'
        BY DEF STInv, LockInv, TypeInv, SetupTokenTypeOK, Advance
    <2>4. WriterInv'
        BY RacedStep DEF STInv, WriterInv, TypeInv, SetupTokenTypeOK, OnDisk, Moved, Advance
    <2>5. AgreeInv'
        <3> SUFFICES ASSUME ~raced' PROVE AgreeInv'
            BY DEF AgreeInv
        <3>1. ~raced /\ OnDisk' = OnDisk /\ TokenOf(OnDisk)' = TokenOf(OnDisk)
            BY RacedStep DEF STInv, OnDisk, TokenOf, Moved
        <3>2. phase[w] = "create" => config # NoFile /\ memory'[w].key = OnDisk.key
            BY <2>1 DEF OnDisk, Empty, Advance, STInv, TypeInv
        <3>3. phase[w] \in {"finalize", "finish"} => config # NoFile /\ memory'[w].key = OnDisk.key
            BY <3>1 DEF Advance, STInv, TypeInv, AgreeInv
        <3>4. phase'[w] = "up" /\ accounts = 0 =>
                  /\ phase[w] = "finalize" /\ memory'[w].token = TokenOf(OnDisk)
                  /\ \A v \in Workers : write[v] = NoWrite
            BY DEF Advance, STInv, TypeInv, SetupTokenTypeOK, LockInv
        <3>5. phase'[w] = "up" /\ accounts = 0 /\ env = NoToken =>
                  OnDisk.token # NoToken /\ ~OnDisk.completed
            BY <3>4, WantedText
        <3>6. \A v \in Workers : v # w => memory'[v] = memory[v] /\ phase'[v] = phase[v]
            BY <2>1, AdvanceTypes DEF STInv
        <3>7. phase'[w] \in {"finalize", "up", "commit", "finish"} =>
                  phase[w] \in {"create", "finalize", "finish"}
            BY DEF Advance, STInv, TypeInv, SetupTokenTypeOK
        <3> QED
            BY <3>1, <3>2, <3>3, <3>4, <3>5, <3>6, <3>7 DEF STInv, AgreeInv, Moved, TypeInv
    <2> QED
        BY <2>2, <2>3, <2>4, <2>5 DEF STInv
<1>4. CASE /\ write' = [write EXCEPT ![w] = [stage |-> "open", text |-> Wanted(w)]]
           /\ UNCHANGED <<phase, memory>> /\ Wanted(w) # OnDisk
    <2> USE <1>1, <1>4 DEF disk, Exclusive, Shared
    <2>1. Wanted(w) \in Text
        BY WantedText
    <2>2. TypeInv'
        <3>1. write'[w] \in Writes' /\ write'[w] # NoWrite /\ write'[w].text = Wanted(w)
            BY <2>1 DEF STInv, TypeInv, Writes, NoWrite
        <3>2. SetupTokenTypeOK'
            BY <3>1 DEF STInv, TypeInv, SetupTokenTypeOK
        <3>3. Committing' \subseteq Committing
            BY DEF Committing
        <3> QED
            BY <3>1, <3>2, <3>3, CountStep, MovedTypes DEF STInv, TypeInv, Writes
    <2>3. LockInv'
        BY DEF STInv, LockInv
    <2>4. WriterInv'
        BY WantedText, RacedStep
        DEF STInv, WriterInv, TypeInv, LockInv, AgreeInv, SetupTokenTypeOK, OnDisk, Moved, Finishing
    <2>5. AgreeInv'
        BY WantedText, RacedStep
        DEF STInv, AgreeInv, LockInv, TypeInv, SetupTokenTypeOK, OnDisk, TokenOf, Moved
    <2> QED
        BY <2>2, <2>3, <2>4, <2>5 DEF STInv
<1> QED
    BY <1>2, <1>3, <1>4 DEF Read

\* config.json is not the file that is emptied.
LEMMA OpenedFile ==
    ASSUME STInv, NEW w \in Workers, Open(w)
    PROVE  /\ file' \in Seq(Text) /\ Len(file') \in Nat /\ Len(file) <= Len(file')
           /\ tmp' \in 1..Len(file')
           /\ config # tmp' /\ OnDisk' = OnDisk
<1>1. /\ config \in 0..Len(file) /\ tmp \in 0..Len(file) /\ file \in Seq(Text) /\ Len(file) \in Nat
      /\ Empty \in Text /\ config' = config
    BY DEF Open, STInv, TypeInv, SetupTokenTypeOK, Empty, Text, NoKey, NoToken
<1>2. CASE tmp = NoFile
    <2>1. file' = Append(file, Empty) /\ tmp' = Len(file')
        BY <1>2 DEF Open
    <2>2. Len(file') = Len(file) + 1 /\ \A i \in 1..Len(file) : file'[i] = file[i]
        BY <1>1, <2>1
    <2> QED
        BY <1>1, <2>1, <2>2 DEF OnDisk, NoFile
<1>3. CASE tmp # NoFile
    <2>1. file' = [file EXCEPT ![tmp] = Empty] /\ tmp' = tmp
        BY <1>3 DEF Open
    <2>2. config # tmp
        BY <1>3 DEF STInv, TypeInv
    <2>3. file' \in Seq(Text) /\ Len(file') = Len(file)
          /\ (config # NoFile => file'[config] = file[config])
        BY <1>1, <1>3, <2>1, <2>2 DEF NoFile
    <2> QED
        BY <1>1, <1>3, <2>1, <2>2, <2>3 DEF OnDisk, NoFile
<1> QED
    BY <1>2, <1>3

\* Nor is it filled, unless another worker has renamed what this one opened.
LEMMA FilledFile ==
    ASSUME STInv, NEW w \in Workers, Fill(w)
    PROVE  /\ file' \in Seq(Text) /\ Len(file') = Len(file) /\ file'[write[w].inode] = write[w].text
           /\ ~raced => write[w].inode = tmp /\ tmp # NoFile /\ OnDisk' = OnDisk
<1> DEFINE i == write[w].inode
<1>1. /\ write[w].stage = "fill" /\ write[w] # NoWrite /\ write[w].text \in Text
      /\ i \in 1..Len(file) /\ file \in Seq(Text) /\ Len(file) \in Nat
      /\ config \in 0..Len(file) /\ config' = config
    BY DEF Fill, STInv, TypeInv, SetupTokenTypeOK, Writes, NoWrite
<1>2. file' = [file EXCEPT ![i] = write[w].text]
    BY DEF Fill
<1>3. file' \in Seq(Text) /\ Len(file') = Len(file) /\ file'[i] = write[w].text
      /\ (config # NoFile /\ config # i => file'[config] = file[config])
    BY <1>1, <1>2 DEF NoFile
<1>4. ~raced => i = tmp /\ tmp # NoFile
    BY <1>1 DEF STInv, WriterInv
<1>5. tmp # NoFile => config # tmp
    BY DEF STInv, TypeInv
<1> QED
    BY <1>1, <1>3, <1>4, <1>5 DEF OnDisk

\* The rename puts what was written, with the keys there were, in its place.
LEMMA ReplacedFile ==
    ASSUME STInv, NEW w \in Workers, Replace(w), ~raced
    PROVE  tmp # NoFile /\ OnDisk' = write[w].text /\ (config # NoFile => OnDisk'.key = OnDisk.key)
<1>1. write[w].stage = "replace" /\ write[w] # NoWrite
    BY DEF Replace, NoWrite
<1>2. /\ tmp # NoFile /\ file[tmp] = write[w].text
      /\ config # NoFile => write[w].text.key = OnDisk.key
    BY <1>1 DEF STInv, WriterInv, TypeInv
<1>3. config' = tmp /\ file' = file
    BY <1>2 DEF Replace
<1>4. OnDisk' = write[w].text
    BY <1>2, <1>3 DEF OnDisk
<1> QED
    BY <1>2, <1>4

LEMMA OpenStep ==
    ASSUME STInv, NEW w \in Workers, Open(w), Moved
    PROVE  STInv'
<1> USE DEF Exclusive, Shared
<1>1. /\ write[w] \in Writes /\ write[w].stage = "open" /\ write[w] # NoWrite
      /\ write[w].text \in Text /\ UNCHANGED <<config, accounts, phase, memory>>
      /\ config \in 0..Len(file) /\ tmp \in 0..Len(file) /\ file \in Seq(Text) /\ Len(file) \in Nat
    BY DEF Open, STInv, TypeInv, SetupTokenTypeOK, Writes, NoWrite
<1>2. /\ file' \in Seq(Text) /\ Len(file') \in Nat /\ Len(file) <= Len(file')
      /\ tmp' \in 1..Len(file')
      /\ config # tmp' /\ OnDisk' = OnDisk
    BY OpenedFile
<1>3. write'[w] \in Writes' /\ write'[w].text = write[w].text /\ write'[w].stage = "fill"
      /\ write'[w].inode = tmp' /\ DOMAIN write' = Workers
      /\ \A v \in Workers : v # w => write'[v] = write[v]
    BY <1>1, <1>2 DEF Open, Writes, STInv, TypeInv
<1>4. \A v \in Workers : write[v] \in Writes' /\ write'[v] \in Writes'
    BY <1>1, <1>2, <1>3 DEF STInv, TypeInv, Writes
<1>5. TypeInv'
    <2>1. SetupTokenTypeOK'
        BY <1>1, <1>2, <1>3, <1>4 DEF STInv, TypeInv, SetupTokenTypeOK
    <2>2. Committing' \subseteq Committing
        BY <1>1 DEF Committing
    <2> QED
        BY <1>1, <1>2, <1>3, <1>4, <2>1, <2>2, CountStep, MovedTypes DEF STInv, TypeInv
<1>6. LockInv'
    BY <1>1 DEF STInv, LockInv
<1>7. WriterInv'
    BY <1>1, <1>2, <1>3, RacedStep DEF STInv, WriterInv, Moved, NoFile
<1>8. AgreeInv'
    BY <1>1, <1>2, <1>3, RacedStep DEF STInv, AgreeInv, TokenOf, Moved, TypeInv
<1> QED
    BY <1>5, <1>6, <1>7, <1>8 DEF STInv

LEMMA FillStep ==
    ASSUME STInv, NEW w \in Workers, Fill(w), Moved
    PROVE  STInv'
<1> USE DEF Exclusive, Shared
<1> DEFINE i == write[w].inode
<1>1. /\ write[w] \in Writes /\ write[w].stage = "fill" /\ write[w] # NoWrite
      /\ write[w].text \in Text /\ UNCHANGED <<config, tmp, accounts, phase, memory>>
      /\ i \in 1..Len(file) /\ file \in Seq(Text) /\ Len(file) \in Nat
      /\ config \in 0..Len(file) /\ tmp \in 0..Len(file)
    BY DEF Fill, STInv, TypeInv, SetupTokenTypeOK, Writes, NoWrite
<1>3. /\ file' \in Seq(Text) /\ Len(file') = Len(file) /\ file'[i] = write[w].text
      /\ ~raced => i = tmp /\ tmp # NoFile /\ OnDisk' = OnDisk
    BY FilledFile
<1>5. write'[w] \in Writes' /\ write'[w].text = write[w].text /\ write'[w].stage = "replace"
      /\ write'[w].inode = i /\ DOMAIN write' = Workers
      /\ \A v \in Workers : v # w => write'[v] = write[v]
    BY <1>1, <1>3 DEF Fill, Writes, STInv, TypeInv, NoWrite
<1>6. \A v \in Workers : write'[v] \in Writes'
    BY <1>1, <1>3, <1>5 DEF STInv, TypeInv, Writes
<1>7. TypeInv'
    <2>1. SetupTokenTypeOK'
        BY <1>1, <1>3, <1>5, <1>6 DEF STInv, TypeInv, SetupTokenTypeOK
    <2>2. Committing' \subseteq Committing
        BY <1>1 DEF Committing
    <2> QED
        BY <1>1, <1>3, <1>5, <1>6, <2>1, <2>2, CountStep, MovedTypes DEF STInv, TypeInv
<1>8. LockInv'
    BY <1>1 DEF STInv, LockInv
<1>9. WriterInv'
    BY <1>1, <1>3, <1>5, RacedStep DEF STInv, WriterInv, Moved
<1>10. AgreeInv'
    BY <1>1, <1>3, <1>5, RacedStep DEF STInv, AgreeInv, TokenOf, Moved, TypeInv
<1> QED
    BY <1>7, <1>8, <1>9, <1>10 DEF STInv

\* The worker that writes goes on with its text, and the others already had its keys.
LEMMA ReplaceStep ==
    ASSUME STInv, NEW w \in Workers, Replace(w), Moved
    PROVE  STInv'
<1> USE DEF Exclusive, Shared
<1>1. /\ write[w] \in Writes /\ write[w].stage = "replace" /\ write[w] # NoWrite
      /\ write[w].text \in Text /\ phase[w] \in Exclusive \cup {"finish"}
    BY DEF Replace, STInv, TypeInv, SetupTokenTypeOK, Writes, NoWrite
<1>2. CASE tmp = NoFile
    <2>1. Raised(w) /\ UNCHANGED <<disk, accounts>>
        BY <1>2 DEF Replace
    <2>2. raced
        BY <1>1, <1>2 DEF STInv, WriterInv, TypeInv
    <2> QED
        BY <1>1, <2>1, <2>2, RaisedStep
<1>3. CASE tmp # NoFile
    <2>1. /\ config' = tmp /\ tmp' = NoFile /\ file' = file /\ accounts' = accounts
          /\ write' = [write EXCEPT ![w] = NoWrite] /\ Advance(w, write[w].text)
        BY <1>3 DEF Replace
    <2>2. phase[w] \in {"config", "create"} => write[w].text.key # NoKey
        BY <1>1 DEF STInv, WriterInv
    <2>3. TypeInv'
        <3>1. \A v \in Workers : write'[v] # NoWrite => phase'[v] \in Exclusive \cup {"finish"}
            BY <1>1, <2>1, <2>2, AdvanceTypes DEF STInv, TypeInv, SetupTokenTypeOK
        <3>2. SetupTokenTypeOK'
            BY <1>1, <2>1, <2>2, <3>1, AdvanceTypes
            DEF STInv, TypeInv, SetupTokenTypeOK, NoWrite, NoFile
        <3> QED
            BY <1>1, <1>3, <2>1, <2>2, <3>2, AdvanceTypes, CountStep, MovedTypes
            DEF STInv, TypeInv, Writes
    <2>4. LockInv'
        BY <1>1, <2>1 DEF STInv, LockInv, TypeInv, SetupTokenTypeOK, Advance
    <2>5. \A v \in Workers : v # w =>
              memory'[v] = memory[v] /\ phase'[v] = phase[v] /\ write'[v] = write[v]
        BY <1>1, <2>1, <2>2, AdvanceTypes DEF STInv, TypeInv
    <2>6. write'[w] = NoWrite
        BY <2>1 DEF STInv, TypeInv
    <2>7. ~raced' => ~raced /\ \A v \in Workers : write'[v] = NoWrite
        BY <1>1, <2>5, <2>6, RacedStep DEF STInv, WriterInv, Moved
    <2>8. WriterInv'
        BY <2>5, <2>6, <2>7, RacedStep DEF STInv, WriterInv, Moved
    <2>9. AgreeInv'
        <3> SUFFICES ASSUME ~raced' PROVE AgreeInv'
            BY DEF AgreeInv
        <3>1. OnDisk' = write[w].text
            BY <1>3, <2>7, ReplacedFile
        <3>2. config # NoFile => write[w].text.key = OnDisk.key
            BY <2>7, ReplacedFile
        <3>3. write[w].text.key # NoKey
            BY <1>1, <2>7 DEF STInv, WriterInv
        <3>4. phase[w] = "create" => memory'[w].key = write[w].text.key
            BY <2>1 DEF Advance, STInv, TypeInv
        <3>5. phase[w] \in {"finalize", "finish"} => memory'[w].key = write[w].text.key
            BY <2>1, <2>7, <3>2 DEF Advance, STInv, TypeInv, AgreeInv
        <3>6. phase'[w] \in {"finalize", "up", "commit", "finish"} =>
                  phase[w] \in {"create", "finalize", "finish"}
            BY <1>1, <2>1 DEF Advance, STInv, TypeInv, SetupTokenTypeOK
        <3>7. phase'[w] = "up" /\ accounts = 0 =>
                  /\ memory'[w].token = TokenOf(OnDisk)'
                  /\ write[w].text.token # NoToken /\ ~write[w].text.completed
            <4>1. phase'[w] = "up" /\ accounts = 0 => phase[w] = "finalize"
                BY <1>1, <2>1 DEF Advance, STInv, TypeInv, SetupTokenTypeOK, LockInv
            <4>2. phase[w] = "finalize" /\ accounts = 0 =>
                      env = NoToken /\ write[w].text.token # NoToken /\ ~write[w].text.completed
                BY <1>1, <2>7 DEF STInv, WriterInv
            <4> QED
                BY <2>1, <3>1, <4>1, <4>2 DEF Advance, STInv, TypeInv, TokenOf, Moved
        <3>8. ASSUME NEW v \in Workers, v # w, phase[v] \in {"finalize", "up", "commit", "finish"}
              PROVE  memory[v].key = write[w].text.key
            BY <2>7, <3>2, <3>8 DEF STInv, AgreeInv
        <3>9. ASSUME NEW v \in Workers, v # w, phase[v] = "up", accounts = 0, faults = 0
              PROVE  env # NoToken /\ memory[v].token = env
            BY <1>1, <2>7, <3>9 DEF STInv, AgreeInv, TokenOf
        <3> QED
            BY <1>3, <2>1, <2>5, <2>7, <3>1, <3>3, <3>4, <3>5, <3>6, <3>7, <3>8, <3>9
            DEF AgreeInv, Moved, TokenOf, STInv, TypeInv
    <2> QED
        BY <2>3, <2>4, <2>8, <2>9 DEF STInv
<1> QED
    BY <1>2, <1>3

-----------------------------------------------------------------------------
(* Theorems                                                                 *)

\* A new directory, or one with keys.
LEMMA InitSTInv == Init => STInv
<1> SUFFICES ASSUME Init PROVE STInv
    OBVIOUS
<1> USE DEF Init, NoFile, NoToken, NoKey
<1>1. file \in Seq(Text) /\ config \in 0..Len(file) /\ tmp = 0 /\ accounts \in {0, 1}
      /\ (config # 0 => config = 1 /\ file[1].key = 1)
    <2>1. CASE config = 0 /\ file = << >> /\ accounts = 0
        BY <2>1
    <2>2. CASE config = 1 /\ accounts \in {0, 1}
        <3>1. PICK token \in {0, 2}, completed \in BOOLEAN :
                  file = <<[key |-> 1, token |-> token, completed |-> completed]>>
            BY <2>2
        <3>2. [key |-> 1, token |-> token, completed |-> completed] \in Text
            BY DEF Text
        <3> QED
            BY <2>2, <3>1, <3>2
    <2> QED
        BY <2>1, <2>2
<1>2. Cardinality(Committing) = 0 /\ Cardinality(Workers) \in Nat
    <2>1. Committing = {}
        BY DEF Committing
    <2> QED
        BY <2>1, FS_EmptySet, FS_CardinalityType, SetupTokenAssumption
<1>3. TypeInv
    <2>1. SetupTokenTypeOK
        BY <1>1, <1>2 DEF SetupTokenTypeOK, NoWrite, Unset
    <2>2. accounts + Cardinality(Committing) <= 1 + Cardinality(Workers)
        BY <1>1, <1>2
    <2>3. \A w \in Workers : write[w] \in Writes
        BY DEF Writes
    <2>4. env \in Nat /\ faults \in Nat
        OBVIOUS
    <2>5. raced \in BOOLEAN
        BY Zenon
    <2> QED
        BY <1>1, <2>1, <2>2, <2>3, <2>4, <2>5 DEF TypeInv
<1>4. LockInv /\ WriterInv /\ AgreeInv
    BY <1>1 DEF LockInv, WriterInv, AgreeInv, OnDisk, Exclusive, Shared
<1> QED
    BY <1>3, <1>4 DEF STInv

\* No step of a start, of a setup request, of a kill or of a failure breaks it.
LEMMA StepSTInv == STInv /\ [Next]_vars => STInv'
<1> SUFFICES ASSUME STInv, [Next]_vars PROVE STInv'
    OBVIOUS
<1>1. CASE UNCHANGED vars
    BY <1>1 DEF vars, disk, STInv, TypeInv, SetupTokenTypeOK, LockInv, WriterInv, AgreeInv, OnDisk,
       Committing, Writes, TokenOf
<1>2. CASE Next
    <2>1. PICK w \in Workers :
              /\ \/ Step(w) \/ Setup(w) \/ Kill(w)
                 \/ WriteFails(w) /\ faults' = faults + 1
              /\ Moved
        BY <1>2 DEF Next, Moved
    <2> QED
        BY <2>1, LockStep, ReadStep, OpenStep, FillStep, ReplaceStep, CommitStep, SetupStep,
           KillStep,
           WriteFailsStep DEF Step
<1> QED
    BY <1>1, <1>2

\* One writer at a time, and workers that remember what is in the file.
THEOREM SetupTokenInvariant == Spec => []STInv
BY InitSTInv, StepSTInv, PTL DEF Spec

\* Every worker that serves has keys, and no more accounts are made than there
\* are workers to make one at once.
THEOREM SetupTokenTypeCorrect == Spec => []SetupTokenTypeOK
<1>1. STInv => SetupTokenTypeOK
    BY DEF STInv, TypeInv
<1> QED
    BY <1>1, SetupTokenInvariant, PTL

\* Workers that start together end with the keys of config.json, and accept the
\* token that it or the environment names (ensure_setup_token).
THEOREM ServingWorkersAgree == Spec => []WorkersAgree
<1>1. STInv => WorkersAgree
    <2> SUFFICES ASSUME STInv, NEW w \in Workers,
                        phase[w] \in {"finalize", "up", "commit", "finish"}, ~raced
                 PROVE  /\ memory[w].key = OnDisk.key
                        /\ accounts = 0 /\ faults = 0 /\ phase[w] = "up" =>
                               memory[w].token = TokenOf(OnDisk) /\ memory[w].token # NoToken
        BY DEF WorkersAgree
    <2> QED
        BY DEF STInv, AgreeInv, TokenOf
<1> QED
    BY <1>1, SetupTokenInvariant, PTL

\* No restart, kill or failed write takes the keys out of config.json
\* (_write_runtime_config).
THEOREM KeysAlwaysSurvive == Spec => KeysSurvive
<1>1. STInv /\ [Next]_vars => [OnDisk.key # NoKey /\ ~raced' => OnDisk'.key = OnDisk.key]_vars
    <2> SUFFICES ASSUME STInv, Next, OnDisk.key # NoKey, ~raced' PROVE OnDisk'.key = OnDisk.key
        OBVIOUS
    <2>1. ~raced /\ config # NoFile
        BY RacedStep DEF Next, STInv, OnDisk, Empty
    <2>2. PICK w \in Workers :
              \/ Open(w) \/ Fill(w) \/ Replace(w)
              \/ UNCHANGED disk
        BY DEF Next, Step, Lock, Read, Commit, Setup, Kill, WriteFails
    <2>3. CASE UNCHANGED disk
        BY <2>3 DEF disk, OnDisk
    <2> QED
        BY <2>1, <2>2, <2>3, OpenedFile, FilledFile, ReplacedFile
<1> QED
    BY <1>1, SetupTokenInvariant, PTL DEF Spec, KeysSurvive
=============================================================================
