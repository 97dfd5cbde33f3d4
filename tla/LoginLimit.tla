------------------------------ MODULE LoginLimit ------------------------------
(***************************************************************************)
(* Login protection: failed passwords and second factors are rows of the   *)
(* table auth_events, and an address with too many of them in the last     *)
(* window is refused.  An attempt counts the rows, checks the password and *)
(* records the outcome in three separate steps, so the attempts of other   *)
(* threads come in between; recording prunes the table, and may fail.      *)
(*                                                                         *)
(* `wrong' and `lost' are history: every wrong password or code that was   *)
(* really checked, and those of them that left no row that counts.         *)
(***************************************************************************)
EXTENDS Integers, Sequences, FiniteSets, FiniteSetsExt, Functions

CONSTANTS Threads, Processes, ProcessOf, Addresses,
          LimitSetting, WindowSetting, RetentionSetting, RowsSetting,
          MinLimit, MaxLimit, MinWindow, Day, MinRows, PruneEvery,
          MaxTime, MaxAttempts, MaxFaults

ASSUME LoginLimitAssumption ==
    /\ Threads # {} /\ IsFiniteSet(Threads) /\ ProcessOf \in [Threads -> Processes]
    /\ {LimitSetting, WindowSetting, RetentionSetting, RowsSetting} \subseteq Int
    /\ MinLimit \in Nat \ {0} /\ MaxLimit \in Nat /\ MinLimit <= MaxLimit
    /\ MinWindow \in Nat \ {0} /\ Day \in Nat /\ MinWindow <= Day
    /\ {MinRows, PruneEvery, MaxTime, MaxAttempts, MaxFaults} \subseteq Nat

VARIABLES events,    \* auth_events: ids -> rows
          prunedAt,  \* per process: app.extensions["rab_auth_prune_at"]
          attempt,   \* per thread: the login request it works on
          pending,   \* addresses whose browser has a pending second factor
          now, begun, faults,
          wrong, lost

vars == <<events, prunedAt, attempt, pending, now, begun, faults, wrong, lost>>

-----------------------------------------------------------------------------
(* _get_bruteforce_settings and the floors of the pruning. *)

Clamp(value, low, high) == Min({Max({value, low}), high})

Limit     == Clamp(LimitSetting, MinLimit, MaxLimit)
Window    == Clamp(WindowSetting, MinWindow, Day)
Retention == Max({Day, RetentionSetting})
Rows      == Max({MinRows, RowsSetting})

(* Mutant of Counts: a refused attempt counts as another failure. *)
CountsRefusals(row, ip) ==
    /\ row.type \in {"password_fail", "2fa_fail", "denied"}
    /\ row.ip = ip
    /\ row.at >= now - Window

(* What _is_login_blocked counts: the failures of one address. *)
Counts(row, ip) ==
    /\ row.type \in {"password_fail", "2fa_fail"}
    /\ row.ip = ip
    /\ row.at >= now - Window

(* Mutant of Blocked: one failure more is allowed. *)
BlockedAbove(ip) == Cardinality({i \in DOMAIN events : Counts(events[i], ip)}) > Limit

Blocked(ip) == Cardinality({i \in DOMAIN events : Counts(events[i], ip)}) >= Limit

(* _prune_auth_events_if_needed, both deletions. *)
Recent(rows) == {i \in DOMAIN rows : rows[i].at >= now - Retention}

\* The lowest of these ids, with Rows above them.
Excess(ids) == {i \in ids : Cardinality({j \in ids : j > i}) >= Rows}

Pruned(rows) == Restrict(rows, Recent(rows) \ Excess(Recent(rows)))

(* The failures that only the row limit removes. *)
Displaced(rows) == {rows[i].guess : i \in Excess(Recent(rows))} \ {0}

(* The insertion of a row; SQLite gives it the id after the highest. *)
NewId(rows) == 1 + Max(DOMAIN rows \union {0})
Inserted(rows, row) ==
    [i \in DOMAIN rows \union {NewId(rows)} |-> IF i = NewId(rows) THEN row ELSE rows[i]]

Due(p) == now - prunedAt[p] >= PruneEvery

-----------------------------------------------------------------------------
Idle  == [stage |-> "idle"]
Never == -1

Answered == {"refused", "denied", "failed", "passed"}

Types == {"password_fail", "2fa_fail", "denied", "ok"}

Outcome(a) ==
    CASE a.stage \in {"refused", "denied"} -> "denied"
      [] a.stage = "passed"  -> "ok"
      [] a.stage = "failed"  -> IF a.kind = "password" THEN "password_fail" ELSE "2fa_fail"

(* time.monotonic() is the uptime of the host: the first event prunes.      *)
Init ==
    /\ events = <<>>
    /\ prunedAt = [p \in Processes |-> 0 - PruneEvery]
    /\ attempt = [t \in Threads |-> Idle]
    /\ pending = {}
    /\ now = 0 /\ begun = 0 /\ faults = 0
    /\ wrong = <<>> /\ lost = {}

(* A login form or a second factor arrives and the failures are counted. *)
Begin(t, ip, kind) ==
    /\ attempt[t] = Idle /\ begun < MaxAttempts
    /\ kind = "code" => ip \in pending
    /\ begun' = begun + 1
    /\ attempt' = [attempt EXCEPT ![t] =
           [stage |-> IF Blocked(ip) THEN "refused" ELSE "counted",
            ip |-> ip, kind |-> kind, guess |-> 0]]
    /\ UNCHANGED <<events, prunedAt, pending, now, faults, wrong, lost>>

(* Mutant of CheckWrong: a wrong entry may be corrected in the same attempt. *)
CheckWrongAgain(t) ==
    /\ attempt[t].stage = "counted"
    /\ wrong' = Append(wrong, [ip |-> attempt[t].ip, at |-> now, stamped |-> Never])
    /\ attempt' = [attempt EXCEPT ![t].guess = Len(wrong')]
    /\ UNCHANGED <<events, prunedAt, pending, now, begun, faults, lost>>

(* The password or the code is compared and is wrong. *)
CheckWrong(t) ==
    /\ attempt[t].stage = "counted"
    /\ wrong' = Append(wrong, [ip |-> attempt[t].ip, at |-> now, stamped |-> Never])
    /\ attempt' = [attempt EXCEPT ![t].stage = "failed", ![t].guess = Len(wrong')]
    /\ UNCHANGED <<events, prunedAt, pending, now, begun, faults, lost>>

(* It is right: logged in, or a second factor is asked for next. *)
CheckRight(t) ==
    LET ip == attempt[t].ip IN
    /\ attempt[t].stage = "counted"
    /\ attempt' = [attempt EXCEPT ![t].stage = "passed"]
    /\ IF attempt[t].kind = "password"
       THEN pending' \in {pending, pending \union {ip}}
       ELSE pending' = pending \ {ip}
    /\ UNCHANGED <<events, prunedAt, now, begun, faults, wrong, lost>>

(* The account is disabled or its signature does not verify: nothing that   *)
(* was entered counts.                                                      *)
CheckDenied(t) ==
    LET ip == attempt[t].ip IN
    /\ attempt[t].stage = "counted"
    /\ attempt' = [attempt EXCEPT ![t].stage = "denied"]
    /\ pending' = IF attempt[t].kind = "code" THEN pending \ {ip} ELSE pending
    /\ UNCHANGED <<events, prunedAt, now, begun, faults, wrong, lost>>

(* _record_auth_event: prune when due, insert the row, end the request. *)
Record(t) ==
    LET p    == ProcessOf[t]
        a    == attempt[t]
        rows == IF Due(p) THEN Pruned(events) ELSE events
    IN
    /\ a.stage \in Answered
    /\ events' = Inserted(rows, [type |-> Outcome(a), ip |-> a.ip, at |-> now, guess |-> a.guess])
    /\ lost' = IF Due(p) THEN lost \union Displaced(events) ELSE lost
    /\ prunedAt' = IF Due(p) THEN [prunedAt EXCEPT ![p] = now] ELSE prunedAt
    /\ wrong' = IF a.guess = 0 THEN wrong ELSE [wrong EXCEPT ![a.guess].stamped = now]
    /\ attempt' = [attempt EXCEPT ![t] = Idle]
    /\ UNCHANGED <<pending, now, begun, faults>>

(* SQLite is locked or the disk is full: the exception is swallowed, and    *)
(* the outcome leaves no row.  The pruning may have been committed already, *)
(* and counts as done even if it was not.                                   *)
RecordFails(t) ==
    LET p == ProcessOf[t] IN
    /\ attempt[t].stage \in Answered /\ faults < MaxFaults
    /\ faults' = faults + 1
    /\ prunedAt' = IF Due(p) THEN [prunedAt EXCEPT ![p] = now] ELSE prunedAt
    /\ \E pruning \in {FALSE, Due(p)} :
           IF pruning
           THEN /\ events' = Pruned(events)
                /\ lost' = lost \union Displaced(events) \union ({attempt[t].guess} \ {0})
           ELSE /\ lost' = lost \union ({attempt[t].guess} \ {0})
                /\ UNCHANGED events
    /\ attempt' = [attempt EXCEPT ![t] = Idle]
    /\ UNCHANGED <<pending, now, begun, wrong>>

(* A worker is killed with the requests of its threads, and starts again. *)
Restart(p) ==
    LET mine == {t \in Threads : ProcessOf[t] = p} IN
    /\ faults < MaxFaults /\ \E t \in mine : attempt[t] # Idle
    /\ faults' = faults + 1
    /\ attempt' = [t \in Threads |-> IF t \in mine THEN Idle ELSE attempt[t]]
    /\ lost' = lost \union {attempt[t].guess : t \in {u \in mine : attempt[u].stage = "failed"}}
    /\ prunedAt' = [prunedAt EXCEPT ![p] = 0 - PruneEvery]
    /\ UNCHANGED <<events, pending, now, begun, wrong>>

(* scripts/reset_security_lockout.py forgives what has been recorded. *)
ResetLockout ==
    /\ faults < MaxFaults
    /\ faults' = faults + 1
    /\ events' = Restrict(events, {i \in DOMAIN events : events[i].type = "ok"})
    /\ lost' = lost \union {i \in DOMAIN wrong : wrong[i].stamped # Never}
    /\ UNCHANGED <<prunedAt, attempt, pending, now, begun, wrong>>

Tick ==
    /\ now < MaxTime
    /\ now' = now + 1
    /\ UNCHANGED <<events, prunedAt, attempt, pending, begun, faults, wrong, lost>>

Next ==
    \/ \E t \in Threads :
           \/ \E ip \in Addresses, kind \in {"password", "code"} : Begin(t, ip, kind)
           \/ CheckWrong(t)
           \/ CheckRight(t)
           \/ CheckDenied(t)
           \/ Record(t)
           \/ RecordFails(t)
    \/ \E p \in Processes : Restart(p)
    \/ ResetLockout
    \/ Tick

Spec == Init /\ [][Next]_vars

-----------------------------------------------------------------------------
LoginLimitTypeOK ==
    /\ DOMAIN events \subseteq Nat \ {0} /\ IsFiniteSet(DOMAIN events)
    /\ \A i \in DOMAIN events :
           events[i] \in [type : Types, ip : Addresses, at : 0..now, guess : 0..Len(wrong)]
    /\ \A p \in Processes : prunedAt[p] \in -PruneEvery..now
    /\ \A t \in Threads : attempt[t] = Idle \/
           /\ attempt[t].stage \in Answered \union {"counted"}
           /\ attempt[t].ip \in Addresses
           /\ attempt[t].guess \in 0..Len(wrong)
           /\ attempt[t].guess # 0 <=> attempt[t].stage = "failed"
    /\ pending \subseteq Addresses
    /\ lost \subseteq DOMAIN wrong

(* Wrong passwords and codes of an address that were checked in the window   *)
(* that ends now.                                                            *)
GuessesInWindow(ip) ==
    {i \in DOMAIN wrong : wrong[i].ip = ip /\ wrong[i].at >= now - Window}

(* Within any window no more than LIMIT - 1 wrong passwords or codes of one  *)
(* address are checked, and one more for each thread that had counted before *)
(* the others recorded (1544 records what 1510 counted).  Not included are   *)
(* those that left no row: recording failed, a worker was killed, or the row *)
(* limit removed it.  Pruning by age never forgives any.  Guesses are those  *)
(* at /login and /login/2fa: /reauth (1569-1576), open to a session that is  *)
(* accepted already, asks no limit and its failures ("reauth_fail") count    *)
(* for none.                                                                 *)
GuessesAreLimited ==
    \A ip \in Addresses :
        Cardinality(GuessesInWindow(ip) \ lost) <= Limit - 1 + Cardinality(Threads)

(* An address is refused only for LIMIT wrong passwords or codes of its own  *)
(* that were recorded in the window before: neither other addresses nor the  *)
(* refused attempts themselves lock anybody out (1301).                      *)
RefusedForOwnGuesses ==
    [][\A t \in Threads :
           attempt[t] = Idle /\ attempt'[t] # Idle /\ attempt'[t].stage = "refused" =>
               Limit <= Cardinality({i \in DOMAIN wrong :
                            /\ wrong[i].ip = attempt'[t].ip
                            /\ wrong[i].stamped # Never
                            /\ wrong[i].stamped >= now - Window})]_vars

=============================================================================
