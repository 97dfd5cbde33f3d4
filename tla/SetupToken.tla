------------------------------ MODULE SetupToken ------------------------------
(***************************************************************************)
(* config.json: the keys, which must never change, and the one-time token  *)
(* of the first setup.  Both workers read it at start, twice, under the    *)
(* exclusive maintenance lock, and create what is missing; the end of the  *)
(* first setup rewrites it under the shared lock, which two requests can   *)
(* hold.  Every write goes through the one name config.json.tmp: open      *)
(* (which empties the file of that name), fill, rename.                    *)
(*                                                                         *)
(* A file is an inode: a writer keeps the one it opened whatever becomes   *)
(* of its name.  The three keys of the file are one `key' here.            *)
(***************************************************************************)
EXTENDS Integers, Sequences, FiniteSets

CONSTANTS Workers, MaxKills, MaxFaults

ASSUME SetupTokenAssumption ==
    Workers # {} /\ IsFiniteSet(Workers) /\ MaxKills \in Nat /\ MaxFaults \in Nat

VARIABLES
    config, tmp,    \* the inodes of config.json and config.json.tmp, or NoFile
    file,           \* inodes: their content
    accounts,       \* administrators in the users table
    phase,          \* per worker: where it is in its start or in a setup request
    write,          \* per worker: the write of config.json it is in
    memory,         \* per worker: keys and SETUP_TOKEN in app.config
    env,            \* RAB_SETUP_TOKEN, or NoToken
    kills, faults,
    raced           \* history: two setup requests were writing config.json at once

disk == <<config, tmp, file>>
vars == <<disk, accounts, phase, write, memory, env, kills, faults, raced>>

NoFile  == 0
NoToken == 0
NoKey   == 0
Empty   == [key |-> NoKey, token |-> NoToken, completed |-> FALSE]  \* not JSON
NoWrite == [stage |-> "none"]
Unset   == [key |-> NoKey, token |-> NoToken]

OnDisk == IF config = NoFile THEN Empty ELSE file[config]

Exclusive == {"config", "create", "finalize"}   \* phases under the exclusive lock
Shared    == {"commit", "finish"}               \* and under the shared one

(* Mutant of LockIsFree: starting workers do not wait for each other. *)
LockIsFreeOfRequests == \A w \in Workers : phase[w] \notin Shared

LockIsFree   == \A w \in Workers : phase[w] \notin Exclusive \union Shared
LockIsShared == \A w \in Workers : phase[w] \notin Exclusive

-----------------------------------------------------------------------------
(* Random values are the first ones that are nowhere in use. *)
Used == {NoKey, NoToken, env}
            \union (UNION {{file[i].key, file[i].token} : i \in DOMAIN file})
            \union (UNION {{memory[w].key, memory[w].token} : w \in Workers})
            \union (UNION {{write[w].text.key, write[w].text.token} :
                              w \in {v \in Workers : write[v] # NoWrite}})

NewKey   == CHOOSE n \in 1..(Cardinality(Used) + 1) : n \notin Used
NewToken == CHOOSE n \in 1..(Cardinality(Used) + 2) : n \notin Used \union {NewKey}

(* What each function makes of the config.json it has read. *)

(* Mutant of Completed: keys are expected to be there. *)
CompletedWithToken(cfg) ==
    IF cfg.completed \/ cfg.token # NoToken THEN cfg ELSE [cfg EXCEPT !.token = NewToken]

(* _read_or_create_runtime_config *)
Completed(cfg) ==
    [cfg EXCEPT !.key   = IF @ = NoKey THEN NewKey ELSE @,
                !.token = IF cfg.completed THEN NoToken
                          ELSE IF @ = NoToken THEN NewToken ELSE @]

(* mark_setup_completed *)
Marked(cfg) == [cfg EXCEPT !.token = NoToken, !.completed = TRUE]

(* ensure_setup_token *)
Ensured(cfg) == [cfg EXCEPT !.token = IF @ = NoToken THEN NewToken ELSE @,
                            !.completed = FALSE]

(* Mutant of Finalized: the start does not look for administrators. *)
FinalizedBySetupOnly(w, cfg) ==
    IF phase[w] = "finish" THEN Marked(cfg)
    ELSE IF env # NoToken \/ accounts > 0 THEN cfg ELSE Ensured(cfg)

(* _finalize_setup_token_if_admin_exists *)
Finalized(w, cfg) ==
    IF accounts > 0 THEN Marked(cfg) ELSE IF env # NoToken THEN cfg ELSE Ensured(cfg)

Wanted(w) == IF phase[w] \in {"config", "create"} THEN Completed(OnDisk) ELSE Finalized(w, OnDisk)

TokenOf(cfg) == IF env # NoToken THEN env ELSE cfg.token

(* What follows in a worker that has read or written `cfg'. *)
Advance(w, cfg) ==
    /\ phase' = [phase EXCEPT ![w] =
           CASE @ = "config" -> "between" [] @ = "create" -> "finalize" [] OTHER -> "up"]
    /\ memory' = [memory EXCEPT ![w] =
           CASE phase[w] = "config" -> @
             [] phase[w] = "create" ->
                    [key |-> cfg.key, token |-> IF cfg.completed THEN NoToken ELSE TokenOf(cfg)]
             [] OTHER ->
                    [@ EXCEPT !.token = IF accounts > 0 THEN NoToken ELSE TokenOf(cfg)]]

(* Reading or writing raised: a start without keys fails, while the         *)
(* synchronisation of the token logs the error and goes on.                 *)
Raised(w) ==
    /\ phase' = [phase EXCEPT ![w] = IF @ \in {"config", "create"} THEN "down" ELSE "up"]
    /\ write' = [write EXCEPT ![w] = NoWrite]
    /\ memory' = [memory EXCEPT ![w] = IF phase[w] \in {"config", "create"} THEN Unset ELSE @]

Finishing == {w \in Workers : phase[w] = "finish" /\ write[w] # NoWrite}

-----------------------------------------------------------------------------
(* A new data directory, or that of an earlier release or with a restored   *)
(* or replaced database, with any token and with or without administrators. *)
Init ==
    /\ \/ config = NoFile /\ file = << >> /\ accounts = 0
       \/ /\ config = 1
          /\ \E token \in {NoToken, 2}, completed \in BOOLEAN :
                 file = <<[key |-> 1, token |-> token, completed |-> completed]>>
          /\ accounts \in {0, 1}
    /\ tmp = NoFile
    /\ phase = [w \in Workers |-> "down"]
    /\ write = [w \in Workers |-> NoWrite]
    /\ memory = [w \in Workers |-> Unset]
    /\ env \in {NoToken, 3}
    /\ kills = 0 /\ faults = 0 /\ raced = FALSE

(* The class Config takes the lock for config.json, create_app takes it     *)
(* again; another worker may run in between.                                *)
Lock(w) ==
    /\ phase[w] \in {"down", "between"} /\ LockIsFree
    /\ phase' = [phase EXCEPT ![w] = IF @ = "down" THEN "config" ELSE "create"]
    /\ UNCHANGED <<disk, accounts, write, memory>>

(* The file is read, and either it is as wanted or a write begins. *)
Read(w) ==
    LET read == OnDisk IN
    /\ phase[w] \in Exclusive \union {"finish"} /\ write[w] = NoWrite
    /\ IF config # NoFile /\ read = Empty
       THEN Raised(w)
       ELSE IF Wanted(w) = read
       THEN Advance(w, read) /\ UNCHANGED <<write>>
       ELSE /\ write' = [write EXCEPT ![w] = [stage |-> "open", text |-> Wanted(w)]]
            /\ UNCHANGED <<phase, memory>>
    /\ UNCHANGED <<disk, accounts>>

(* Mutant of Open: config.json itself is opened for writing. *)
OpenInPlace(w) ==
    /\ write[w].stage = "open"
    /\ IF config = NoFile
       THEN file' = Append(file, Empty) /\ tmp' = Len(file') /\ config' = tmp'
       ELSE file' = [file EXCEPT ![config] = Empty] /\ tmp' = config /\ UNCHANGED config
    /\ write' = [write EXCEPT ![w] = [stage |-> "fill", text |-> @.text, inode |-> tmp']]
    /\ UNCHANGED <<accounts, phase, memory>>

(* tmp.open("w") *)
Open(w) ==
    /\ write[w].stage = "open"
    /\ IF tmp = NoFile
       THEN file' = Append(file, Empty) /\ tmp' = Len(file')
       ELSE file' = [file EXCEPT ![tmp] = Empty] /\ UNCHANGED tmp
    /\ write' = [write EXCEPT ![w] = [stage |-> "fill", text |-> @.text, inode |-> tmp']]
    /\ UNCHANGED <<config, accounts, phase, memory>>

(* The buffered text reaches the file when it is closed. *)
Fill(w) ==
    /\ write[w].stage = "fill"
    /\ file' = [file EXCEPT ![write[w].inode] = write[w].text]
    /\ write' = [write EXCEPT ![w].stage = "replace"]
    /\ UNCHANGED <<config, tmp, accounts, phase, memory>>

(* tmp.replace(config_file): whatever has that name now, if anything. *)
Replace(w) ==
    /\ write[w].stage = "replace"
    /\ IF tmp = NoFile
       THEN Raised(w) /\ UNCHANGED disk
       ELSE /\ config' = tmp /\ tmp' = NoFile
            /\ write' = [write EXCEPT ![w] = NoWrite]
            /\ Advance(w, write[w].text)
            /\ UNCHANGED file
    /\ UNCHANGED accounts

(* Any step of the write raises OSError. *)
WriteFails(w) ==
    /\ write[w] # NoWrite
    /\ Raised(w)
    /\ UNCHANGED <<disk, accounts>>

(* POST /setup: nobody has an account yet, and the token of memory came. *)
Setup(w) ==
    /\ phase[w] = "up" /\ LockIsShared
    /\ accounts = 0
    /\ phase' = [phase EXCEPT ![w] = "commit"]
    /\ UNCHANGED <<disk, accounts, write, memory>>

(* The account is committed; another name may have been meanwhile. *)
Commit(w) ==
    /\ phase[w] = "commit"
    /\ accounts' = accounts + 1
    /\ phase' = [phase EXCEPT ![w] = "finish"]
    /\ UNCHANGED <<disk, write, memory>>

Kill(w) ==
    /\ phase[w] # "down"
    /\ phase' = [phase EXCEPT ![w] = "down"]
    /\ write' = [write EXCEPT ![w] = NoWrite]
    /\ memory' = [memory EXCEPT ![w] = Unset]
    /\ UNCHANGED <<disk, accounts>>

Step(w) == Lock(w) \/ Read(w) \/ Open(w) \/ Fill(w) \/ Replace(w) \/ Commit(w)

Next ==
    \E w \in Workers :
        /\ \/ (Step(w) \/ Setup(w)) /\ UNCHANGED <<kills, faults>>
           \/ Kill(w) /\ kills < MaxKills /\ kills' = kills + 1 /\ UNCHANGED faults
           \/ WriteFails(w) /\ faults < MaxFaults /\ faults' = faults + 1 /\ UNCHANGED kills
        /\ raced' = (raced \/ Cardinality(Finishing') > 1)
        /\ UNCHANGED env

(* A worker goes on with what it does, and gunicorn starts it again. *)
Fairness ==
    \A w \in Workers :
        WF_vars(/\ Step(w)
                /\ raced' = (raced \/ Cardinality(Finishing') > 1)
                /\ UNCHANGED <<env, kills, faults>>)

Spec == Init /\ [][Next]_vars /\ Fairness

-----------------------------------------------------------------------------
Text == [key : Nat, token : Nat, completed : BOOLEAN]

SetupTokenTypeOK ==
    /\ file \in Seq(Text) /\ {config, tmp} \subseteq 0..Len(file)
    /\ accounts \in 0..(1 + Cardinality(Workers))
    /\ phase \in [Workers -> Exclusive \union Shared \union {"down", "between", "up"}]
    /\ \A w \in Workers :
           /\ write[w].stage \in {"none", "open", "fill", "replace"}
           /\ write[w] # NoWrite => phase[w] \in Exclusive \union {"finish"}
           /\ memory[w] \in [key : Nat, token : Nat]
           /\ phase[w] \in {"up", "commit", "finish", "finalize"} => memory[w].key # NoKey

(* The keys of config.json never change and the file is never unreadable,    *)
(* whatever is killed or fails while it is written; only when two setup      *)
(* requests write it at once does the shared name config.json.tmp defeat the *)
(* rename (_write_runtime_config).                                           *)
KeysSurvive == [][OnDisk.key # NoKey /\ ~raced' => OnDisk'.key = OnDisk.key]_vars

(* Every worker that serves has the keys that are in the file: workers that  *)
(* start together do not each keep keys of their own.  And "ensure setup     *)
(* remains recoverable when no administrator exists" (ensure_setup_token):   *)
(* the token that the documents tell to read from config.json, or the one of *)
(* the environment, is the one each worker accepts, and it is not empty,     *)
(* unless config.json could not be written.  Only until two setup requests   *)
(* write config.json at once (raced): from then on a worker may find it      *)
(* empty or older than what it has in memory.                                *)
WorkersAgree ==
    \A w \in Workers :
        phase[w] \in {"finalize", "up", "commit", "finish"} /\ ~raced =>
            /\ memory[w].key = OnDisk.key
            /\ accounts = 0 /\ faults = 0 /\ phase[w] = "up" =>
                   memory[w].token = TokenOf(OnDisk) /\ memory[w].token # NoToken

(* Once there is an administrator, the token is deleted from config.json --  *)
(* by the setup request, or by the next start if that was killed -- as long  *)
(* as the file can be written.                                               *)
TokenIsSpent ==
    accounts > 0 ~> \/ OnDisk.completed /\ OnDisk.token = NoToken
                    \/ faults > 0 \/ (raced /\ kills > 0)

=============================================================================
