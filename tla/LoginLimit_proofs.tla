--------------------------- MODULE LoginLimit_proofs ---------------------------
(***************************************************************************)
(* Proofs about LoginLimit, for any threads, processes, addresses and      *)
(* settings, and any number of attempts, faults and ticks.  LLInv is       *)
(* inductive.  KeptInv says where a wrong guess is that is not lost: with  *)
(* the thread that made it, or in its row.  So an address that is not      *)
(* blocked has fewer than Limit rows, and each further guess in its window *)
(* belongs to a thread: BoundInv counts the threads that may still guess   *)
(* with those guesses, and their sum never exceeds the bound.              *)
(***************************************************************************)
EXTENDS LoginLimit, FiniteSetTheorems, TLAPS

Failures == {"password_fail", "2fa_fail"}
Attempts == [stage : Answered \cup {"counted"}, ip : Addresses, kind : {"password", "code"},
             guess : 0..Len(wrong)]
Guesses == [ip : Addresses, at : 0..now, stamped : 0..now \cup {Never}]
AuthEvents == [type : Types, ip : Addresses, at : 0..now, guess : 0..Len(wrong)]

\* The wrong guess that a thread has not recorded yet, or 0.
Guess(t) == IF attempt[t] = Idle THEN 0 ELSE attempt[t].guess

TypeInv ==
    /\ DOMAIN events \subseteq Nat \ {0} /\ IsFiniteSet(DOMAIN events)
    /\ \A i \in DOMAIN events : events[i] \in AuthEvents
    /\ prunedAt \in [Processes -> -PruneEvery..now]
    /\ pending \subseteq Addresses
    /\ now \in Nat /\ begun \in Nat /\ faults \in Nat
    /\ wrong \in Seq(Guesses)
    /\ lost \subseteq DOMAIN wrong

AttemptsInv ==
    /\ attempt = [t \in Threads |-> attempt[t]]
    /\ \A t \in Threads : attempt[t] = Idle \/
           /\ attempt[t] \in Attempts
           /\ attempt[t].guess # 0 <=> attempt[t].stage = "failed"

\* A guess that a thread holds is its own and has not been recorded.
GuessesInv ==
    /\ \A t \in Threads : Guess(t) # 0 =>
           wrong[Guess(t)].ip = attempt[t].ip /\ wrong[Guess(t)].stamped = Never
    /\ \A t, u \in Threads : Guess(t) # 0 /\ Guess(t) = Guess(u) => t = u

\* The failures in the table are guesses, each recorded once.
RowsInv ==
    /\ \A i \in DOMAIN events :
           /\ events[i].guess # 0 <=> events[i].type \in Failures
           /\ events[i].guess # 0 =>
                  /\ wrong[events[i].guess].ip = events[i].ip
                  /\ wrong[events[i].guess].stamped = events[i].at
    /\ \A i, j \in DOMAIN events :
           events[i].guess # 0 /\ events[i].guess = events[j].guess => i = j

\* A guess that is young enough and not lost is with its thread or in the table.
Held(g) == \E t \in Threads : Guess(t) = g
Stored(g) == \E i \in DOMAIN events : events[i].guess = g
KeptInv ==
    \A g \in DOMAIN wrong :
        /\ wrong[g].stamped # Never => wrong[g].stamped >= wrong[g].at
        /\ g \notin lost /\ wrong[g].at >= now - Retention => Held(g) \/ Stored(g)

\* The guesses of an address that count, and the threads that may add one.
Guessed(ip) == GuessesInWindow(ip) \ lost
Guessing(ip) == {t \in Threads : attempt[t].stage = "counted" /\ attempt[t].ip = ip}
BoundInv ==
    \A ip \in Addresses :
        Cardinality(Guessed(ip)) + Cardinality(Guessing(ip)) <= Limit - 1 + Cardinality(Threads)

LLInv == TypeInv /\ AttemptsInv /\ GuessesInv /\ RowsInv /\ KeptInv /\ BoundInv

-----------------------------------------------------------------------------
(* The settings                                                             *)

LEMMA MaxOfTwo ==
    ASSUME NEW a \in Int, NEW b \in Int
    PROVE  Max({a, b}) \in {a, b} /\ Max({a, b}) >= a /\ Max({a, b}) >= b
  <1>1. \E x \in {a, b} : \A y \in {a, b} : x >= y
    OBVIOUS
  <1> QED
    BY <1>1 DEF Max

LEMMA MinOfTwo ==
    ASSUME NEW a \in Int, NEW b \in Int
    PROVE  Min({a, b}) \in {a, b} /\ Min({a, b}) <= a /\ Min({a, b}) <= b
  <1>1. \E x \in {a, b} : \A y \in {a, b} : x <= y
    OBVIOUS
  <1> QED
    BY <1>1 DEF Min

\* Whatever is configured, the window is never longer than rows are kept.
LEMMA Settings ==
    /\ Limit \in Nat \ {0} /\ Window \in Nat /\ Retention \in Nat /\ Rows \in Int
    /\ Window <= Retention
  <1>0. /\ LimitSetting \in Int /\ WindowSetting \in Int /\ RetentionSetting \in Int
        /\ RowsSetting \in Int /\ MinLimit \in Int /\ MaxLimit \in Int /\ MinWindow \in Int
        /\ Day \in Int /\ MinRows \in Int
    BY LoginLimitAssumption
  <1>1. Limit \in Nat \ {0}
    <2>1. Max({LimitSetting, MinLimit}) \in Int /\ Max({LimitSetting, MinLimit}) >= MinLimit
      BY <1>0, MaxOfTwo
    <2>2. Limit \in {Max({LimitSetting, MinLimit}), MaxLimit}
      BY <1>0, <2>1, MinOfTwo DEF Limit, Clamp
    <2> QED
      BY <2>1, <2>2, LoginLimitAssumption
  <1>2. Window \in Nat /\ Window <= Day
    <2>1. Max({WindowSetting, MinWindow}) \in Int /\ Max({WindowSetting, MinWindow}) >= MinWindow
      BY <1>0, MaxOfTwo
    <2>2. Window \in {Max({WindowSetting, MinWindow}), Day} /\ Window <= Day
      BY <1>0, <2>1, MinOfTwo DEF Window, Clamp
    <2> QED
      BY <2>1, <2>2, LoginLimitAssumption
  <1>3. Retention \in Nat /\ Day <= Retention
    <2>1. /\ Retention \in {Day, RetentionSetting} /\ Retention >= Day
      BY <1>0, MaxOfTwo DEF Retention
    <2> QED
      BY <1>0, <2>1, LoginLimitAssumption
  <1>4. Rows \in Int
    BY <1>0, MaxOfTwo DEF Rows
  <1> QED
    BY <1>1, <1>2, <1>3, <1>4, LoginLimitAssumption

-----------------------------------------------------------------------------
(* The table                                                                *)

\* A finite set of numbers with an element has a highest one.
LEMMA HighestExists ==
    ASSUME NEW S \in SUBSET Nat, IsFiniteSet(S), S # {}
    PROVE  \E x \in S : \A y \in S : x >= y
  <1> DEFINE Below(x) == {y \in S : y <= x}
             n == Cardinality(S)
             place == [x \in S |-> Cardinality(Below(x))]
  <1>1. n \in Nat \ {0}
    BY FS_CardinalityType, FS_EmptySet
  <1>2. ASSUME NEW x \in S
        PROVE  IsFiniteSet(Below(x)) /\ Cardinality(Below(x)) \in 1..n
    <2>1. Below(x) \in SUBSET S /\ x \in Below(x)
      OBVIOUS
    <2>2. IsFiniteSet(Below(x)) /\ Cardinality(Below(x)) <= n
      BY <2>1, FS_Subset
    <2>3. Cardinality(Below(x)) \in Nat /\ Cardinality(Below(x)) # 0
      BY <2>1, <2>2, FS_CardinalityType, FS_EmptySet
    <2> HIDE DEF Below, n
    <2> QED
      BY <1>1, <2>2, <2>3
  <1>3. ASSUME NEW x \in S, NEW y \in S, Cardinality(Below(x)) = Cardinality(Below(y)), x <= y
        PROVE  x = y
    <2>0. \A z \in S : z <= x => z <= y
      BY <1>3
    <2>1. Below(x) \in SUBSET Below(y)
      BY <2>0
    <2>2. Below(x) = Below(y)
      BY <1>2, <1>3, <2>1, FS_Subset
    <2> QED
      BY <1>3, <2>2
  <1>4. place \in Injection(S, 1..n)
    <2>1. ASSUME NEW x \in S, NEW y \in S, Cardinality(Below(x)) = Cardinality(Below(y))
          PROVE  x = y
      <3>1. x <= y \/ y <= x
        OBVIOUS
      <3> HIDE DEF Below
      <3> QED
        BY <1>3, <2>1, <3>1
    <2> HIDE DEF Below, n
    <2> QED
      BY <1>2, <2>1 DEF Injection, IsInjective
  <1>5. place \in Surjection(S, 1..n)
    <2>1. IsFiniteSet(1..n) /\ Cardinality(1..n) = n
      BY <1>1, FS_Interval
    <2> HIDE DEF place
    <2> QED
      BY <1>4, <2>1, FS_Injection
  <1>6. PICK x \in S : Cardinality(Below(x)) = n
    <2>1. n \in 1..n
      BY <1>1
    <2> HIDE DEF Below, n
    <2> QED
      BY <1>5, <2>1 DEF Surjection
  <1>7. Below(x) = S
    <2>1. Below(x) \in SUBSET S
      OBVIOUS
    <2> QED
      BY <1>6, <2>1, FS_Subset
  <1> QED
    BY <1>7

\* The id of an inserted row is new.
LEMMA NewIdIsNew ==
    ASSUME NEW rows, DOMAIN rows \subseteq Nat \ {0}, IsFiniteSet(DOMAIN rows)
    PROVE  NewId(rows) \in Nat \ {0} /\ NewId(rows) \notin DOMAIN rows
  <1> DEFINE S == DOMAIN rows \cup {0}
  <1>1. S \in SUBSET Nat /\ IsFiniteSet(S) /\ S # {}
    BY FS_AddElement
  <1>2. \E x \in S : \A y \in S : x >= y
    BY <1>1, HighestExists
  <1>3. Max(S) \in S /\ \A y \in S : Max(S) >= y
    BY <1>2 DEF Max
  <1>4. Max(S) \in Nat
    BY <1>1, <1>3
  <1>5. NewId(rows) = 1 + Max(S)
    BY DEF NewId
  <1> HIDE DEF S
  <1>6. DOMAIN rows \subseteq S /\ 1 + Max(S) \notin S
    BY <1>1, <1>3, <1>4 DEF S
  <1> QED
    BY <1>4, <1>5, <1>6

\* Pruning removes rows that are too old, and the guesses of others are displaced.
LEMMA PruningRemoves ==
    ASSUME TypeInv
    PROVE  /\ DOMAIN Pruned(events) \subseteq DOMAIN events
           /\ \A i \in DOMAIN Pruned(events) : Pruned(events)[i] = events[i]
           /\ \A i \in DOMAIN events \ DOMAIN Pruned(events) :
                  events[i].at < now - Retention \/ events[i].guess \in Displaced(events) \cup {0}
  <1>1. Excess(Recent(events)) \subseteq Recent(events) /\ Recent(events) \subseteq DOMAIN events
    BY DEF Excess, Recent
  <1>2. DOMAIN Pruned(events) = Recent(events) \ Excess(Recent(events))
    BY DEF Pruned, Restrict
  <1>3. \A i \in DOMAIN Pruned(events) : Pruned(events)[i] = events[i]
    BY DEF Pruned, Restrict
  <1>4. ASSUME NEW i \in DOMAIN events \ Recent(events)
        PROVE  events[i].at < now - Retention
    <2>1. ~(events[i].at >= now - Retention)
      BY <1>4 DEF Recent
    <2>2. events[i].at \in Int /\ now \in Int
      BY <1>4 DEF TypeInv, AuthEvents
    <2> QED
      BY <2>1, <2>2, Settings
  <1>5. \A i \in Excess(Recent(events)) : events[i].guess \in Displaced(events) \cup {0}
    BY DEF Displaced
  <1> QED
    BY <1>1, <1>2, <1>3, <1>4, <1>5

-----------------------------------------------------------------------------
(* Counting                                                                 *)

LEMMA FinitelyMany ==
    ASSUME TypeInv, NEW ip
    PROVE  /\ IsFiniteSet(Guessed(ip)) /\ Cardinality(Guessed(ip)) \in Nat
           /\ IsFiniteSet(Guessing(ip)) /\ Cardinality(Guessing(ip)) \in Nat
           /\ IsFiniteSet(Threads) /\ Cardinality(Threads) \in Nat \ {0}
  <1>1. IsFiniteSet(DOMAIN wrong)
    <2>1. DOMAIN wrong = 1..Len(wrong) /\ Len(wrong) \in Nat
      BY DEF TypeInv
    <2> QED
      BY <2>1, FS_Interval
  <1>2. Guessed(ip) \in SUBSET DOMAIN wrong /\ Guessing(ip) \in SUBSET Threads
    BY DEF Guessed, GuessesInWindow, Guessing
  <1>3. IsFiniteSet(Threads) /\ Threads # {}
    BY LoginLimitAssumption
  <1> QED
    BY <1>1, <1>2, <1>3, FS_Subset, FS_CardinalityType, FS_EmptySet

\* Steps by which no address has more guesses or guessing threads keep the bound.
LEMMA FewerKeepBound ==
    ASSUME LLInv, TypeInv',
           \A ip \in Addresses : Guessed(ip)' \subseteq Guessed(ip) /\ Guessing(ip)' \subseteq Guessing(ip)
    PROVE  BoundInv'
  <1> SUFFICES ASSUME NEW ip \in Addresses
               PROVE  Cardinality(Guessed(ip)') + Cardinality(Guessing(ip)')
                          <= Limit - 1 + Cardinality(Threads)
    BY DEF BoundInv
  <1>1. /\ IsFiniteSet(Guessed(ip)) /\ Cardinality(Guessed(ip)) \in Nat
        /\ IsFiniteSet(Guessing(ip)) /\ Cardinality(Guessing(ip)) \in Nat
        /\ Cardinality(Threads) \in Nat
    BY FinitelyMany DEF LLInv
  <1>2. /\ Guessed(ip)' \in SUBSET Guessed(ip) /\ Guessing(ip)' \in SUBSET Guessing(ip)
    OBVIOUS
  <1>3. /\ IsFiniteSet(Guessed(ip)') /\ Cardinality(Guessed(ip)') <= Cardinality(Guessed(ip))
        /\ IsFiniteSet(Guessing(ip)') /\ Cardinality(Guessing(ip)') <= Cardinality(Guessing(ip))
    BY <1>1, <1>2, FS_Subset
  <1>4. Cardinality(Guessed(ip)') \in Nat /\ Cardinality(Guessing(ip)') \in Nat
    BY <1>3, FS_CardinalityType
  <1>5. Cardinality(Guessed(ip)) + Cardinality(Guessing(ip)) <= Limit - 1 + Cardinality(Threads)
    BY DEF LLInv, BoundInv
  <1> QED
    BY <1>1, <1>3, <1>4, <1>5, Settings

\* The rows that count, and the threads with a guess of an address.
Counted(ip) == {i \in DOMAIN events : Counts(events[i], ip)}
Holding(ip) == {t \in Threads : Guess(t) # 0 /\ attempt[t].ip = ip}

\* Each guess in the window is with a thread or in a row that counts.
LEMMA GuessesAreFound ==
    ASSUME LLInv, NEW ip \in Addresses
    PROVE  Cardinality(Guessed(ip)) <= Cardinality(Counted(ip)) + Cardinality(Holding(ip))
  <1> DEFINE InTable == {g \in Guessed(ip) : Stored(g)}
             InHand  == {g \in Guessed(ip) : Held(g)}
             row     == [g \in InTable |-> CHOOSE i \in DOMAIN events : events[i].guess = g]
             holder  == [g \in InHand |-> CHOOSE t \in Threads : Guess(t) = g]
  <1>1. ASSUME NEW g \in Guessed(ip)
        PROVE  /\ g \in DOMAIN wrong /\ g \in Nat \ {0} /\ g \notin lost
               /\ wrong[g].ip = ip /\ wrong[g].at >= now - Window
               /\ wrong[g] \in Guesses
    BY DEF Guessed, GuessesInWindow, LLInv, TypeInv
  <1>2. Guessed(ip) = InTable \cup InHand
    <2>1. ASSUME NEW g \in Guessed(ip) PROVE Held(g) \/ Stored(g)
      <3>1. wrong[g].at \in Int /\ now \in Int
        BY <1>1 DEF Guesses, LLInv, TypeInv
      <3>2. wrong[g].at >= now - Retention
        BY <1>1, <3>1, Settings
      <3> QED
        BY <1>1, <3>2 DEF LLInv, KeptInv
    <2> HIDE DEF Guessed
    <2> QED
      BY <2>1
  <1>3. ASSUME NEW g \in InTable
        PROVE  row[g] \in Counted(ip) /\ events[row[g]].guess = g
    <2>1. row[g] \in DOMAIN events /\ events[row[g]].guess = g
      BY DEF Stored
    <2> DEFINE r == events[row[g]]
    <2>2. /\ r.type \in Failures /\ r.ip = ip /\ wrong[g].stamped = r.at /\ r \in AuthEvents
      BY <1>1, <2>1 DEF LLInv, RowsInv, TypeInv
    <2>3. r.at \in Nat /\ r.at # Never
      BY <2>2 DEF AuthEvents, Never
    <2>4. r.at >= wrong[g].at
      BY <1>1, <2>2, <2>3 DEF LLInv, KeptInv
    <2>5. r.at >= now - Window
      <3>1. wrong[g].at \in Int /\ now \in Int
        BY <1>1 DEF Guesses, LLInv, TypeInv
      <3> HIDE DEF r
      <3> QED
        BY <1>1, <2>3, <2>4, <3>1, Settings
    <2> QED
      BY <2>1, <2>2, <2>5 DEF Counted, Counts, Failures
  <1>4. ASSUME NEW g \in InHand
        PROVE  holder[g] \in Holding(ip) /\ Guess(holder[g]) = g
    <2>1. holder[g] \in Threads /\ Guess(holder[g]) = g
      BY DEF Held
    <2> HIDE DEF holder
    <2>2. attempt[holder[g]].ip = ip
      BY <1>1, <2>1 DEF LLInv, GuessesInv
    <2> QED
      BY <1>1, <2>1, <2>2 DEF Holding
  <1>5. row \in Injection(InTable, Counted(ip))
    <2>1. row \in [InTable -> Counted(ip)]
      BY <1>3
    <2>2. \A g, h \in InTable : row[g] = row[h] => g = h
      BY <1>3
    <2> HIDE DEF row, InTable
    <2> QED
      BY <2>1, <2>2 DEF Injection, IsInjective
  <1>6. holder \in Injection(InHand, Holding(ip))
    <2>1. holder \in [InHand -> Holding(ip)]
      BY <1>4
    <2>2. \A g, h \in InHand : holder[g] = holder[h] => g = h
      BY <1>4
    <2> HIDE DEF holder, InHand
    <2> QED
      BY <2>1, <2>2 DEF Injection, IsInjective
  <1>7. IsFiniteSet(Counted(ip)) /\ IsFiniteSet(Holding(ip))
    <2>1. Counted(ip) \in SUBSET DOMAIN events /\ Holding(ip) \in SUBSET Threads
      BY DEF Counted, Holding
    <2>2. IsFiniteSet(DOMAIN events) /\ IsFiniteSet(Threads)
      BY LoginLimitAssumption DEF LLInv, TypeInv
    <2> QED
      BY <2>1, <2>2, FS_Subset
  <1> HIDE DEF row, holder, InTable, InHand
  <1>8. /\ IsFiniteSet(InTable) /\ Cardinality(InTable) <= Cardinality(Counted(ip))
        /\ IsFiniteSet(InHand) /\ Cardinality(InHand) <= Cardinality(Holding(ip))
    BY <1>5, <1>6, <1>7, FS_Injection
  <1>9. Cardinality(Guessed(ip)) <= Cardinality(InTable) + Cardinality(InHand)
    <2>1. /\ Cardinality(InTable \cup InHand) = Cardinality(InTable) + Cardinality(InHand)
                                                   - Cardinality(InTable \cap InHand)
          /\ IsFiniteSet(InTable \cap InHand)
      BY <1>8, FS_Union, FS_Intersection
    <2>2. /\ Cardinality(InTable \cap InHand) \in Nat
          /\ Cardinality(InTable) \in Nat /\ Cardinality(InHand) \in Nat
      BY <1>8, <2>1, FS_CardinalityType
    <2> QED
      BY <1>2, <2>1, <2>2
  <1>10. /\ Cardinality(InTable) \in Nat /\ Cardinality(InHand) \in Nat
         /\ Cardinality(Counted(ip)) \in Nat /\ Cardinality(Holding(ip)) \in Nat
         /\ Cardinality(Guessed(ip)) \in Nat
    BY <1>7, <1>8, FS_CardinalityType, FinitelyMany DEF LLInv
  <1> QED
    BY <1>8, <1>9, <1>10

\* Each row that counts is a guess of its own.
LEMMA RowsAreGuesses ==
    ASSUME LLInv, NEW ip \in Addresses
    PROVE  LET own == {i \in DOMAIN wrong : /\ wrong[i].ip = ip /\ wrong[i].stamped # Never
                                            /\ wrong[i].stamped >= now - Window}
           IN  Cardinality(Counted(ip)) <= Cardinality(own) /\ Cardinality(own) \in Nat
  <1> DEFINE own == {i \in DOMAIN wrong : /\ wrong[i].ip = ip /\ wrong[i].stamped # Never
                                          /\ wrong[i].stamped >= now - Window}
             guess == [i \in Counted(ip) |-> events[i].guess]
  <1>1. ASSUME NEW i \in Counted(ip)
        PROVE  i \in DOMAIN events /\ events[i].guess # 0 /\ events[i].guess \in own
    <2>1. /\ i \in DOMAIN events /\ events[i].type \in Failures /\ events[i].ip = ip
          /\ events[i].at >= now - Window /\ events[i] \in AuthEvents
      BY DEF Counted, Counts, Failures, LLInv, TypeInv
    <2>2. /\ events[i].guess # 0 /\ wrong[events[i].guess].ip = ip
          /\ wrong[events[i].guess].stamped = events[i].at
      BY <2>1 DEF LLInv, RowsInv
    <2>3. events[i].guess \in 1..Len(wrong) /\ events[i].at # Never
      BY <2>1, <2>2 DEF AuthEvents, Never, LLInv, TypeInv
    <2>4. DOMAIN wrong = 1..Len(wrong)
      BY DEF LLInv, TypeInv
    <2> QED
      BY <2>1, <2>2, <2>3, <2>4
  <1>2. guess \in Injection(Counted(ip), own)
    <2>1. guess \in [Counted(ip) -> own]
      BY <1>1
    <2>2. \A i, j \in Counted(ip) : guess[i] = guess[j] => i = j
      BY <1>1 DEF LLInv, RowsInv
    <2> HIDE DEF guess, own
    <2> QED
      BY <2>1, <2>2 DEF Injection, IsInjective
  <1>3. IsFiniteSet(own)
    <2>1. own \in SUBSET DOMAIN wrong /\ DOMAIN wrong = 1..Len(wrong) /\ Len(wrong) \in Nat
      BY DEF LLInv, TypeInv
    <2>2. IsFiniteSet(DOMAIN wrong)
      BY <2>1, FS_Interval
    <2> HIDE DEF own
    <2> QED
      BY <2>1, <2>2, FS_Subset
  <1> HIDE DEF own, guess
  <1>4. Cardinality(Counted(ip)) <= Cardinality(own) /\ Cardinality(own) \in Nat
    BY <1>2, <1>3, FS_Injection, FS_CardinalityType
  <1> QED
    BY <1>4 DEF own

-----------------------------------------------------------------------------
(* The steps of an attempt                                                  *)

\* An address that is not blocked may try once more.
LEMMA StepBegin ==
    ASSUME LLInv, NEW t \in Threads, NEW ip \in Addresses, NEW kind \in {"password", "code"},
           Begin(t, ip, kind)
    PROVE  LLInv'
  <1> DEFINE new == [stage |-> IF Blocked(ip) THEN "refused" ELSE "counted",
                     ip |-> ip, kind |-> kind, guess |-> 0]
  <1>1. /\ attempt[t] = Idle /\ attempt' = [attempt EXCEPT ![t] = new] /\ begun' = begun + 1
        /\ UNCHANGED <<events, prunedAt, pending, now, faults, wrong, lost>>
    BY DEF Begin
  <1>2. TypeInv'
    BY <1>1 DEF LLInv, TypeInv, AuthEvents, Guesses
  <1>3. new \in Attempts /\ new.guess = 0 /\ new.stage \in {"refused", "counted"} /\ new # Idle
    BY DEF Attempts, Answered, Idle, LLInv, TypeInv
  <1>4. DOMAIN attempt = Threads
    BY DEF LLInv, AttemptsInv
  <1> HIDE DEF new
  <1>5. /\ attempt' = [u \in Threads |-> attempt'[u]] /\ attempt'[t] = new
        /\ \A u \in Threads \ {t} : attempt'[u] = attempt[u]
    BY <1>1, <1>4
  <1>6. AttemptsInv'
    BY <1>1, <1>3, <1>5 DEF LLInv, AttemptsInv, Attempts
  <1>7. \A u \in Threads : Guess(u)' = Guess(u) /\ (Guess(u) # 0 => attempt'[u] = attempt[u])
    BY <1>1, <1>3, <1>5 DEF Guess
  <1>8. GuessesInv'
    BY <1>1, <1>7 DEF LLInv, GuessesInv
  <1>9. RowsInv'
    BY <1>1 DEF LLInv, RowsInv
  <1>10. KeptInv'
    BY <1>1, <1>7 DEF LLInv, KeptInv, Held, Stored
  <1>11. BoundInv'
    <2> SUFFICES ASSUME NEW a \in Addresses
                 PROVE  Cardinality(Guessed(a)') + Cardinality(Guessing(a)')
                            <= Limit - 1 + Cardinality(Threads)
      BY DEF BoundInv
    <2>1. Guessed(a)' = Guessed(a)
      BY <1>1 DEF Guessed, GuessesInWindow
    <2>2. CASE a = ip /\ ~Blocked(ip)
      <3>1. Holding(a) \cap Guessing(a)' = {}
        <4> SUFFICES ASSUME NEW u \in Holding(a), u \in Guessing(a)' PROVE FALSE
          OBVIOUS
        <4>1. u \in Threads /\ Guess(u) # 0 /\ attempt'[u] = attempt[u]
          BY <1>7 DEF Holding
        <4>2. attempt[u] # Idle /\ attempt[u].guess # 0 /\ attempt[u].stage = "counted"
          BY <4>1 DEF Guess, Guessing
        <4> QED
          BY <4>1, <4>2 DEF LLInv, AttemptsInv
      <3>2. Holding(a) \in SUBSET Threads /\ Guessing(a)' \in SUBSET Threads
        BY DEF Holding, Guessing
      <3>3. /\ IsFiniteSet(Threads) /\ Cardinality(Threads) \in Nat /\ Cardinality(Guessed(a)) \in Nat
        BY FinitelyMany DEF LLInv
      <3>4. /\ IsFiniteSet(Holding(a)) /\ IsFiniteSet(Guessing(a)')
            /\ Holding(a) \cup Guessing(a)' \in SUBSET Threads
        BY <3>2, <3>3, FS_Subset
      <3>5. /\ Cardinality(Holding(a) \cup Guessing(a)')
                   = Cardinality(Holding(a)) + Cardinality(Guessing(a)') - Cardinality({})
            /\ Cardinality(Holding(a) \cup Guessing(a)') <= Cardinality(Threads)
            /\ Cardinality(Holding(a)) \in Nat /\ Cardinality(Guessing(a)') \in Nat
            /\ Cardinality({}) = 0
        BY <3>1, <3>3, <3>4, FS_Union, FS_Subset, FS_CardinalityType, FS_EmptySet
      <3>6. Cardinality(Counted(a)) < Limit /\ Cardinality(Counted(a)) \in Nat
        <4>1. Cardinality(Counted(a)) \in Nat
          <5>1. Counted(a) \in SUBSET DOMAIN events /\ IsFiniteSet(DOMAIN events)
            BY DEF Counted, LLInv, TypeInv
          <5> QED
            BY <5>1, FS_Subset, FS_CardinalityType
        <4>2. ~(Cardinality(Counted(a)) >= Limit)
          BY <2>2 DEF Blocked, Counted
        <4> QED
          BY <4>1, <4>2, Settings
      <3>7. Cardinality(Guessed(a)) <= Cardinality(Counted(a)) + Cardinality(Holding(a))
        BY GuessesAreFound
      <3> QED
        BY <2>1, <3>3, <3>5, <3>6, <3>7, Settings
    <2>3. CASE ~(a = ip /\ ~Blocked(ip))
      <3>1. Guessing(a)' = Guessing(a)
        <4>1. t \notin Guessing(a) /\ t \notin Guessing(a)'
          BY <1>1, <1>5, <2>3 DEF Guessing, Idle, new
        <4> QED
          BY <1>5, <4>1 DEF Guessing
      <3> QED
        BY <2>1, <3>1 DEF LLInv, BoundInv
    <2> QED
      BY <2>2, <2>3
  <1> QED
    BY <1>2, <1>6, <1>8, <1>9, <1>10, <1>11 DEF LLInv

\* An attempt whose stage and guess are set.
LEMMA FailedWith ==
    ASSUME NEW r, NEW g, NEW S, NEW A, NEW K, NEW G, r \in [stage : S, ip : A, kind : K, guess : G]
    PROVE  [r EXCEPT !.stage = "failed", !.guess = g]
               = [stage |-> "failed", ip |-> r.ip, kind |-> r.kind, guess |-> g]
  <1> DEFINE one == [r EXCEPT !.stage = "failed"]
  <1>1. r = [stage |-> r.stage, ip |-> r.ip, kind |-> r.kind, guess |-> r.guess]
    OBVIOUS
  <1>2. one = [stage |-> "failed", ip |-> r.ip, kind |-> r.kind, guess |-> r.guess]
    BY <1>1
  <1>3. [r EXCEPT !.stage = "failed", !.guess = g] = [one EXCEPT !.guess = g]
    BY Zenon
  <1> HIDE DEF one
  <1> QED
    BY <1>2, <1>3

\* A wrong guess counts instead of the thread that may make it.
LEMMA StepCheckWrong ==
    ASSUME LLInv, NEW t \in Threads, CheckWrong(t)
    PROVE  LLInv'
  <1> DEFINE g == Len(wrong) + 1
             new == [attempt[t] EXCEPT !.stage = "failed", !.guess = g]
             ip == attempt[t].ip
             made == [ip |-> ip, at |-> now, stamped |-> Never]
  <1>0. /\ DOMAIN attempt = Threads /\ DOMAIN wrong = 1..Len(wrong) /\ Len(wrong) \in Nat
        /\ wrong \in Seq(Guesses) /\ now \in Nat
    BY DEF LLInv, AttemptsInv, TypeInv
  <1>1. /\ attempt[t].stage = "counted" /\ wrong' = Append(wrong, made)
        /\ UNCHANGED <<events, prunedAt, pending, now, begun, faults, lost>>
    BY DEF CheckWrong
  <1>2. attempt[t] \in Attempts /\ ip \in Addresses /\ made \in Guesses
    BY <1>0, <1>1 DEF LLInv, AttemptsInv, Attempts, Idle, Guesses
  <1>3. /\ wrong' \in Seq(Guesses) /\ Len(wrong') = g /\ DOMAIN wrong' = 1..g
        /\ wrong'[g] = made /\ \A i \in DOMAIN wrong : wrong'[i] = wrong[i] /\ i # g /\ i \in 1..g
    BY <1>0, <1>1, <1>2
  <1>4. /\ attempt' = [attempt EXCEPT ![t] = new]
    BY <1>0, <1>1, <1>2, <1>3 DEF CheckWrong, Attempts
  <1>5. /\ new.stage = "failed" /\ new.guess = g /\ new.ip = ip /\ new # Idle
        /\ new \in [stage : Answered \cup {"counted"}, ip : Addresses, kind : {"password", "code"},
                    guess : 0..g]
    <2>1. new = [stage |-> "failed", ip |-> ip, kind |-> attempt[t].kind, guess |-> g]
      BY <1>2, FailedWith DEF Attempts
    <2>2. attempt[t].kind \in {"password", "code"} /\ "failed" \in Answered /\ g \in 0..g /\ "failed" # "idle"
      BY <1>0, <1>2 DEF Attempts, Answered
    <2> HIDE DEF new, g, ip
    <2> QED
      BY <1>2, <2>1, <2>2 DEF Idle
  <1> HIDE DEF new, made
  <1>6. /\ attempt' = [u \in Threads |-> attempt'[u]] /\ attempt'[t] = new
        /\ \A u \in Threads \ {t} : attempt'[u] = attempt[u]
    BY <1>0, <1>4
  <1>7. TypeInv'
    <2>1. \A i \in DOMAIN events : events[i] \in AuthEvents'
      BY <1>0, <1>1, <1>3 DEF LLInv, TypeInv, AuthEvents
    <2>2. Guesses' = Guesses
      BY <1>1 DEF Guesses
    <2>3. lost \subseteq DOMAIN wrong'
      BY <1>0, <1>3 DEF LLInv, TypeInv
    <2> QED
      BY <1>1, <1>3, <2>1, <2>2, <2>3 DEF LLInv, TypeInv
  <1>8. AttemptsInv'
    <2>1. Attempts' = [stage : Answered \cup {"counted"}, ip : Addresses, kind : {"password", "code"},
                       guess : 0..g]
      BY <1>3 DEF Attempts
    <2>2. Attempts \subseteq Attempts'
      <3>1. 0..Len(wrong) \subseteq 0..g
        BY <1>0
      <3> HIDE DEF g
      <3> QED
        BY <2>1, <3>1 DEF Attempts
    <2> QED
      BY <1>0, <1>5, <1>6, <2>1, <2>2 DEF LLInv, AttemptsInv
  <1>9. /\ Guess(t) = 0 /\ Guess(t)' = g
        /\ \A u \in Threads \ {t} : Guess(u)' = Guess(u) /\ Guess(u) \in 0..Len(wrong)
    BY <1>0, <1>1, <1>5, <1>6 DEF Guess, LLInv, AttemptsInv, Attempts, Idle
  <1>10. GuessesInv'
    <2>1. wrong'[g].ip = attempt'[t].ip /\ wrong'[g].stamped = Never
      BY <1>3, <1>5, <1>6 DEF made
    <2>2. ASSUME NEW u \in Threads \ {t}, Guess(u) # 0
          PROVE  wrong'[Guess(u)].ip = attempt'[u].ip /\ wrong'[Guess(u)].stamped = Never /\ Guess(u) # g
      <3>1. Guess(u) \in DOMAIN wrong
        BY <1>0, <1>9, <2>2
      <3> QED
        BY <1>3, <1>6, <2>2, <3>1 DEF LLInv, GuessesInv
    <2> QED
      BY <1>9, <2>1, <2>2 DEF LLInv, GuessesInv
  <1>11. RowsInv'
    <2>1. ASSUME NEW i \in DOMAIN events, events[i].guess # 0 PROVE events[i].guess \in DOMAIN wrong
      BY <1>0, <2>1 DEF LLInv, TypeInv, AuthEvents
    <2> QED
      BY <1>1, <1>3, <2>1 DEF LLInv, RowsInv
  <1>12. KeptInv'
    <2>1. (\E u \in Threads : Guess(u)' = g) /\ wrong'[g].stamped = Never
      BY <1>3, <1>9 DEF made
    <2>2. ASSUME NEW i \in DOMAIN wrong
          PROVE  /\ wrong'[i] = wrong[i] /\ (Held(i) => \E u \in Threads : Guess(u)' = i)
                 /\ (Stored(i) => \E j \in DOMAIN events' : events'[j].guess = i)
      <3>1. wrong'[i] = wrong[i] /\ i # 0
        BY <1>0, <1>3
      <3> QED
        BY <1>1, <1>9, <3>1 DEF Held, Stored
    <2>3. DOMAIN wrong' = DOMAIN wrong \cup {g}
      BY <1>0, <1>3
    <2> HIDE DEF g
    <2>4. ASSUME NEW i \in DOMAIN wrong'
          PROVE  /\ wrong'[i].stamped # Never => wrong'[i].stamped >= wrong'[i].at
                 /\ i \notin lost' /\ wrong'[i].at >= now' - Retention =>
                        \/ \E u \in Threads : Guess(u)' = i
                        \/ \E j \in DOMAIN events' : events'[j].guess = i
      <3>1. CASE i = g
        BY <2>1, <3>1
      <3>2. CASE i \in DOMAIN wrong
        BY <1>1, <2>2, <3>2 DEF LLInv, KeptInv
      <3> QED
        BY <2>3, <3>1, <3>2
    <2> QED
      BY <2>4 DEF KeptInv, Held, Stored
  <1>13. BoundInv'
    <2> SUFFICES ASSUME NEW a \in Addresses
                 PROVE  Cardinality(Guessed(a)') + Cardinality(Guessing(a)')
                            <= Limit - 1 + Cardinality(Threads)
      BY DEF BoundInv
    <2>1. Guessed(a)' \subseteq IF a = ip THEN Guessed(a) \cup {g} ELSE Guessed(a)
      <3> SUFFICES ASSUME NEW i \in Guessed(a)'
                   PROVE  i \in Guessed(a) \/ (i = g /\ a = ip)
        OBVIOUS
      <3>1. i \in 1..g /\ i \notin lost /\ wrong'[i].ip = a /\ wrong'[i].at >= now - Window
        BY <1>1, <1>3 DEF Guessed, GuessesInWindow
      <3>2. CASE i = g
        BY <1>3, <3>1, <3>2 DEF made
      <3>3. CASE i # g
        <4>1. i \in DOMAIN wrong /\ wrong'[i] = wrong[i]
          BY <1>0, <1>3, <3>1, <3>3
        <4> QED
          BY <3>1, <4>1 DEF Guessed, GuessesInWindow
      <3> QED
        BY <3>2, <3>3
    <2>2. Guessing(a)' = Guessing(a) \ {t} /\ (a = ip => t \in Guessing(a))
      BY <1>1, <1>5, <1>6 DEF Guessing
    <2>3. /\ IsFiniteSet(Guessed(a)) /\ Cardinality(Guessed(a)) \in Nat
          /\ IsFiniteSet(Guessing(a)) /\ Cardinality(Guessing(a)) \in Nat
          /\ Cardinality(Threads) \in Nat
          /\ Cardinality(Guessed(a)) + Cardinality(Guessing(a)) <= Limit - 1 + Cardinality(Threads)
      BY FinitelyMany DEF LLInv, BoundInv
    <2> HIDE DEF g, ip
    <2>4. CASE a = ip
      <3>1. /\ IsFiniteSet(Guessed(a) \cup {g})
            /\ Cardinality(Guessed(a) \cup {g}) \in {Cardinality(Guessed(a)), Cardinality(Guessed(a)) + 1}
        BY <2>3, FS_AddElement
      <3>2. Cardinality(Guessed(a)') <= Cardinality(Guessed(a) \cup {g}) /\ Cardinality(Guessed(a)') \in Nat
        BY <2>1, <2>4, <3>1, FS_Subset, FS_CardinalityType
      <3>3. Cardinality(Guessing(a)') = Cardinality(Guessing(a)) - 1
        BY <2>2, <2>3, <2>4, FS_RemoveElement
      <3> QED
        BY <2>3, <3>1, <3>2, <3>3, Settings
    <2>5. CASE a # ip
      <3>1. Cardinality(Guessed(a)') <= Cardinality(Guessed(a)) /\ Cardinality(Guessed(a)') \in Nat
        BY <2>1, <2>3, <2>5, FS_Subset, FS_CardinalityType
      <3>2. Guessing(a)' \in SUBSET Guessing(a)
        BY <2>2
      <3>3. Cardinality(Guessing(a)') <= Cardinality(Guessing(a)) /\ Cardinality(Guessing(a)') \in Nat
        BY <2>3, <3>2, FS_Subset, FS_CardinalityType
      <3> QED
        BY <2>3, <3>1, <3>3, Settings
    <2> QED
      BY <2>4, <2>5
  <1> QED
    BY <1>7, <1>8, <1>10, <1>11, <1>12, <1>13 DEF LLInv

\* A right password or an account that does not count: the thread guesses no more.
LEMMA StepCheckRight ==
    ASSUME LLInv, NEW t \in Threads, CheckRight(t) \/ CheckDenied(t)
    PROVE  LLInv'
  <1>0. DOMAIN attempt = Threads
    BY DEF LLInv, AttemptsInv
  <1>1. /\ attempt[t].stage = "counted" /\ pending' \subseteq Addresses
        /\ UNCHANGED <<events, prunedAt, now, begun, faults, wrong, lost>>
    <2>1. attempt[t].stage = "counted"
      BY DEF CheckRight, CheckDenied
    <2>2. attempt[t].ip \in Addresses /\ pending \subseteq Addresses
      BY <2>1 DEF LLInv, AttemptsInv, Attempts, Idle, TypeInv
    <2> QED
      BY <2>1, <2>2 DEF CheckRight, CheckDenied
  <1>2. attempt[t] \in Attempts /\ attempt[t].guess = 0
    BY <1>1 DEF LLInv, AttemptsInv, Idle
  <1>3. PICK s \in {"passed", "denied"} : attempt' = [attempt EXCEPT ![t].stage = s]
    BY DEF CheckRight, CheckDenied
  <1> DEFINE new == [attempt[t] EXCEPT !.stage = s]
  <1>4. attempt' = [attempt EXCEPT ![t] = new]
    BY <1>3
  <1>5. new \in Attempts /\ new.stage = s /\ new.guess = 0 /\ new # Idle
    <2>1. attempt[t] = [stage |-> attempt[t].stage, ip |-> attempt[t].ip,
                        kind |-> attempt[t].kind, guess |-> attempt[t].guess]
      BY <1>2 DEF Attempts
    <2>2. new = [stage |-> s, ip |-> attempt[t].ip, kind |-> attempt[t].kind, guess |-> attempt[t].guess]
      BY <2>1
    <2>3. /\ attempt[t].ip \in Addresses /\ attempt[t].kind \in {"password", "code"}
          /\ attempt[t].guess \in 0..Len(wrong) /\ s \in Answered /\ s # "idle"
      BY <1>2 DEF Attempts, Answered
    <2> HIDE DEF new
    <2> QED
      BY <1>2, <2>2, <2>3 DEF Attempts, Idle
  <1> HIDE DEF new
  <1>6. /\ attempt' = [u \in Threads |-> attempt'[u]] /\ attempt'[t] = new
        /\ \A u \in Threads \ {t} : attempt'[u] = attempt[u]
    BY <1>0, <1>4
  <1>7. TypeInv'
    BY <1>1 DEF LLInv, TypeInv, AuthEvents, Guesses
  <1>8. AttemptsInv'
    BY <1>1, <1>5, <1>6 DEF LLInv, AttemptsInv, Attempts
  <1>9. \A u \in Threads : Guess(u)' = Guess(u) /\ (Guess(u) # 0 => attempt'[u] = attempt[u])
    BY <1>2, <1>5, <1>6 DEF Guess
  <1>10. GuessesInv'
    BY <1>1, <1>9 DEF LLInv, GuessesInv
  <1>11. RowsInv'
    BY <1>1 DEF LLInv, RowsInv
  <1>12. KeptInv'
    BY <1>1, <1>9 DEF LLInv, KeptInv, Held, Stored
  <1>13. BoundInv'
    <2>1. ASSUME NEW ip \in Addresses
          PROVE  Guessed(ip)' \subseteq Guessed(ip) /\ Guessing(ip)' \subseteq Guessing(ip)
      <3>1. Guessed(ip)' = Guessed(ip)
        BY <1>1 DEF Guessed, GuessesInWindow
      <3>2. t \notin Guessing(ip)'
        BY <1>5, <1>6 DEF Guessing
      <3>3. Guessing(ip)' \subseteq Guessing(ip)
        BY <1>6, <3>2 DEF Guessing
      <3> QED
        BY <3>1, <3>3
    <2> QED
      BY <1>7, <2>1, FewerKeepBound
  <1> QED
    BY <1>7, <1>8, <1>10, <1>11, <1>12, <1>13 DEF LLInv

-----------------------------------------------------------------------------
(* The end of attempts                                                      *)

\* Some threads end their attempts, whatever is written meanwhile.
Ends(E) == attempt' = [t \in Threads |-> IF t \in E THEN Idle ELSE attempt[t]]

LEMMA Ended ==
    ASSUME LLInv, NEW E \in SUBSET Threads, Ends(E), Len(wrong') = Len(wrong)
    PROVE  /\ AttemptsInv'
           /\ \A t \in Threads : /\ Guess(t)' = IF t \in E THEN 0 ELSE Guess(t)
                                 /\ t \notin E => attempt'[t] = attempt[t]
           /\ \A ip : Guessing(ip)' \subseteq Guessing(ip)
  <1>1. /\ \A t \in E : attempt'[t] = Idle
        /\ \A t \in Threads \ E : attempt'[t] = attempt[t]
        /\ attempt' = [t \in Threads |-> attempt'[t]]
    BY DEF Ends
  <1>2. AttemptsInv'
    BY <1>1 DEF LLInv, AttemptsInv, Attempts
  <1>3. \A t \in Threads : Guess(t)' = IF t \in E THEN 0 ELSE Guess(t)
    BY <1>1 DEF Guess
  <1>4. \A ip : Guessing(ip)' \subseteq Guessing(ip)
    BY <1>1 DEF Guessing, Idle
  <1> QED
    BY <1>1, <1>2, <1>3, <1>4

\* Rows and attempts may go if their guesses are old or lost.
LEMMA RowsGo ==
    ASSUME LLInv, TypeInv', NEW E \in SUBSET Threads, Ends(E), UNCHANGED <<now, wrong>>,
           DOMAIN events' \subseteq DOMAIN events, \A i \in DOMAIN events' : events'[i] = events[i],
           lost \subseteq lost',
           \A t \in E : Guess(t) \in lost' \cup {0},
           \A i \in DOMAIN events \ DOMAIN events' :
               events[i].at < now - Retention \/ events[i].guess \in lost' \cup {0}
    PROVE  LLInv'
  <1>1. /\ AttemptsInv'
        /\ \A t \in Threads : /\ Guess(t)' = IF t \in E THEN 0 ELSE Guess(t)
                              /\ t \notin E => attempt'[t] = attempt[t]
        /\ \A ip : Guessing(ip)' \subseteq Guessing(ip)
    BY Ended
  <1>2. GuessesInv'
    BY <1>1 DEF LLInv, GuessesInv
  <1>3. RowsInv'
    BY DEF LLInv, RowsInv
  <1>4. KeptInv'
    <2> SUFFICES ASSUME NEW g \in DOMAIN wrong, g \notin lost', wrong[g].at >= now - Retention
                 PROVE  Held(g)' \/ Stored(g)'
      BY DEF LLInv, KeptInv
    <2>0. g # 0 /\ wrong[g] \in Guesses /\ now \in Int
      BY DEF LLInv, TypeInv
    <2>1. CASE Held(g)
      BY <1>1, <2>0, <2>1 DEF Held
    <2>2. CASE Stored(g)
      <3>1. PICK i \in DOMAIN events : events[i].guess = g
        BY <2>2 DEF Stored
      <3>2. wrong[g].stamped = events[i].at /\ events[i] \in AuthEvents
        BY <2>0, <3>1 DEF LLInv, RowsInv, TypeInv
      <3>3. events[i].at \in Nat /\ events[i].at >= wrong[g].at
        BY <3>2 DEF LLInv, KeptInv, AuthEvents, Never
      <3>4. ~(events[i].at < now - Retention)
        BY <2>0, <3>3, Settings DEF Guesses
      <3>5. i \in DOMAIN events'
        BY <2>0, <3>1, <3>4
      <3> QED
        BY <3>1, <3>5 DEF Stored
    <2> QED
      BY <2>1, <2>2 DEF LLInv, KeptInv
  <1>5. BoundInv'
    <2>1. \A ip : Guessed(ip)' \subseteq Guessed(ip)
      BY DEF Guessed, GuessesInWindow
    <2> QED
      BY <1>1, <2>1, FewerKeepBound
  <1> QED
    BY <1>1, <1>2, <1>3, <1>4, <1>5 DEF LLInv

LEMMA DisplacedAreGuesses ==
    ASSUME TypeInv PROVE Displaced(events) \subseteq DOMAIN wrong
  <1>1. \A i \in Excess(Recent(events)) : i \in DOMAIN events
    BY DEF Excess, Recent
  <1>2. \A i \in DOMAIN events : events[i].guess \in {0} \cup DOMAIN wrong
    BY DEF TypeInv, AuthEvents
  <1> QED
    BY <1>1, <1>2 DEF Displaced

LEMMA HeldAreGuesses ==
    ASSUME LLInv, NEW t \in Threads PROVE Guess(t) \in {0} \cup DOMAIN wrong
  BY DEF LLInv, TypeInv, AttemptsInv, Attempts, Guess

\* The pruning of a process is noted by its clock.
LEMMA PrunedNow ==
    ASSUME TypeInv, NEW p \in Processes, UNCHANGED now,
           prunedAt' = (IF Due(p) THEN [prunedAt EXCEPT ![p] = now] ELSE prunedAt)
    PROVE  prunedAt' \in [Processes -> -PruneEvery..now']
  <1>1. now \in -PruneEvery..now
    BY LoginLimitAssumption DEF TypeInv
  <1> QED
    BY <1>1 DEF TypeInv

\* The outcome is recorded: the guess leaves the thread and is in its row.
LEMMA StepRecord ==
    ASSUME LLInv, NEW t \in Threads, Record(t)
    PROVE  LLInv'
  <1> DEFINE p == ProcessOf[t]
             a == attempt[t]
             g == a.guess
             rows == IF Due(p) THEN Pruned(events) ELSE events
             row == [type |-> Outcome(a), ip |-> a.ip, at |-> now, guess |-> g]
             id == NewId(rows)
  <1>0. /\ wrong \in Seq(Guesses) /\ DOMAIN wrong = 1..Len(wrong) /\ Len(wrong) \in Nat /\ now \in Nat
        /\ DOMAIN attempt = Threads /\ p \in Processes
    BY LoginLimitAssumption DEF LLInv, TypeInv, AttemptsInv
  <1>1. /\ a.stage \in Answered /\ events' = Inserted(rows, row)
        /\ lost' = (IF Due(p) THEN lost \cup Displaced(events) ELSE lost)
        /\ prunedAt' = (IF Due(p) THEN [prunedAt EXCEPT ![p] = now] ELSE prunedAt)
        /\ wrong' = (IF g = 0 THEN wrong ELSE [wrong EXCEPT ![g].stamped = now])
        /\ attempt' = [attempt EXCEPT ![t] = Idle]
        /\ UNCHANGED <<pending, now, begun, faults>>
    BY DEF Record
  <1>2. /\ a \in Attempts /\ a # Idle /\ a.stage \in Answered /\ (g # 0 <=> a.stage = "failed")
        /\ g \in 0..Len(wrong) /\ a.ip \in Addresses /\ a.kind \in {"password", "code"}
        /\ Guess(t) = g
    BY <1>1 DEF LLInv, AttemptsInv, Attempts, Answered, Idle, Guess
  <1>3. /\ row.guess = g /\ row.ip = a.ip /\ row.at = now /\ row.type \in Types
        /\ (row.type \in Failures <=> g # 0)
        /\ row = [type |-> row.type, ip |-> a.ip, at |-> now, guess |-> g]
    <2>1. CASE a.stage = "failed"
      <3>1. Outcome(a) \in {"password_fail", "2fa_fail"}
        BY <2>1, Zenon DEF Outcome
      <3> QED
        BY <1>2, <2>1, <3>1 DEF Types, Failures
    <2>2. CASE a.stage = "passed"
      <3>1. Outcome(a) = "ok"
        BY <2>2, Zenon DEF Outcome
      <3> QED
        BY <1>2, <2>2, <3>1 DEF Types, Failures
    <2>3. CASE a.stage \in {"refused", "denied"}
      <3>1. Outcome(a) = "denied"
        BY <2>3 DEF Outcome
      <3> QED
        BY <1>2, <2>3, <3>1 DEF Types, Failures
    <2> QED
      BY <1>2, <2>1, <2>2, <2>3 DEF Answered
  <1>4. /\ DOMAIN rows \subseteq DOMAIN events /\ \A i \in DOMAIN rows : rows[i] = events[i]
        /\ \A i \in DOMAIN events \ DOMAIN rows :
               events[i].at < now - Retention \/ events[i].guess \in lost' \cup {0}
    BY <1>1, PruningRemoves DEF LLInv
  <1>5. id \in Nat \ {0} /\ id \notin DOMAIN rows
    <2>1. DOMAIN rows \subseteq Nat \ {0} /\ IsFiniteSet(DOMAIN rows)
      BY <1>4, FS_Subset DEF LLInv, TypeInv
    <2> HIDE DEF rows
    <2> QED
      BY <2>1, NewIdIsNew
  <1>6. lost \subseteq lost' /\ lost' \subseteq DOMAIN wrong
    BY <1>1, DisplacedAreGuesses DEF LLInv, TypeInv
  <1>7. prunedAt' \in [Processes -> -PruneEvery..now']
    BY <1>0, <1>1, PrunedNow DEF LLInv
  <1>8. /\ events' = [i \in DOMAIN rows \cup {id} |-> IF i = id THEN row ELSE rows[i]]
    BY <1>1 DEF Inserted
  <1> HIDE DEF rows, row, id, p
  <1>9. /\ DOMAIN events' = DOMAIN rows \cup {id} /\ events'[id] = row
        /\ \A i \in DOMAIN rows : events'[i] = events[i]
    BY <1>4, <1>5, <1>8
  <1>10. /\ wrong' \in Seq(Guesses) /\ Len(wrong') = Len(wrong) /\ DOMAIN wrong' = DOMAIN wrong
         /\ \A i \in DOMAIN wrong \ {g} : wrong'[i] = wrong[i]
         /\ \A i \in DOMAIN wrong : wrong'[i].ip = wrong[i].ip /\ wrong'[i].at = wrong[i].at
         /\ g # 0 => wrong'[g].stamped = now
    <2>1. CASE g = 0
      BY <1>0, <1>1, <2>1
    <2>2. CASE g # 0
      <3> DEFINE made == [wrong[g] EXCEPT !.stamped = now]
      <3>1. g \in DOMAIN wrong /\ wrong[g] \in Guesses
        BY <1>0, <1>2, <2>2
      <3>2. made.ip = wrong[g].ip /\ made.at = wrong[g].at /\ made.stamped = now /\ made \in Guesses
        BY <1>0, <3>1 DEF Guesses
      <3>3. wrong' = [wrong EXCEPT ![g] = made]
        BY <1>1, <2>2
      <3> HIDE DEF made, g
      <3>4. wrong' \in Seq(Guesses) /\ Len(wrong') = Len(wrong)
        BY <1>0, <3>1, <3>2, <3>3
      <3> QED
        BY <1>0, <3>1, <3>2, <3>3, <3>4
    <2> QED
      BY <2>1, <2>2
  <1>11. Ends({t})
    BY <1>0, <1>1 DEF Ends
  <1>12. /\ AttemptsInv'
         /\ \A u \in Threads : /\ Guess(u)' = IF u = t THEN 0 ELSE Guess(u)
                               /\ u # t => attempt'[u] = attempt[u]
         /\ \A ip : Guessing(ip)' \subseteq Guessing(ip)
    BY <1>10, <1>11, Ended
  <1>13. TypeInv'
    <2>1. DOMAIN events' \subseteq Nat \ {0} /\ IsFiniteSet(DOMAIN events')
      <3>1. IsFiniteSet(DOMAIN rows) /\ DOMAIN rows \subseteq Nat \ {0}
        BY <1>4, FS_Subset DEF LLInv, TypeInv
      <3> QED
        BY <1>5, <1>9, <3>1, FS_AddElement
    <2>2. AuthEvents' = AuthEvents /\ Guesses' = Guesses
      BY <1>1, <1>10 DEF AuthEvents, Guesses
    <2>3. row \in AuthEvents
      BY <1>0, <1>2, <1>3 DEF AuthEvents
    <2>4. \A i \in DOMAIN events' : events'[i] \in AuthEvents'
      BY <1>4, <1>9, <2>2, <2>3 DEF LLInv, TypeInv
    <2> QED
      BY <1>1, <1>6, <1>7, <1>10, <2>1, <2>2, <2>4 DEF LLInv, TypeInv
  <1>14. GuessesInv'
    <2>1. ASSUME NEW u \in Threads, u # t, Guess(u) # 0
          PROVE  Guess(u) \in DOMAIN wrong /\ Guess(u) # g
      <3>1. Guess(u) \in DOMAIN wrong
        BY <2>1, HeldAreGuesses
      <3>2. Guess(u) # g
        BY <1>2, <2>1 DEF LLInv, GuessesInv
      <3> QED
        BY <3>1, <3>2
    <2> HIDE DEF g
    <2> QED
      BY <1>10, <1>12, <2>1 DEF LLInv, GuessesInv
  <1>15. ASSUME NEW i \in DOMAIN events, events[i].guess # 0
         PROVE  events[i].guess # g /\ events[i].guess \in DOMAIN wrong
    <2>1. wrong[events[i].guess].stamped = events[i].at /\ events[i].at # Never
      BY <1>15 DEF LLInv, RowsInv, TypeInv, AuthEvents, Never
    <2>2. events[i].guess # g
      BY <1>2, <1>15, <2>1 DEF LLInv, GuessesInv
    <2>3. events[i].guess \in DOMAIN wrong
      BY <1>0, <1>15 DEF LLInv, TypeInv, AuthEvents
    <2> QED
      BY <2>2, <2>3
  <1>16. RowsInv'
    <2>1. ASSUME NEW i \in DOMAIN events'
          PROVE  /\ events'[i].guess # 0 <=> events'[i].type \in Failures
                 /\ events'[i].guess # 0 =>
                        /\ wrong'[events'[i].guess].ip = events'[i].ip
                        /\ wrong'[events'[i].guess].stamped = events'[i].at
      <3>1. CASE i = id
        <4>1. g # 0 => wrong[g].ip = a.ip /\ g \in DOMAIN wrong
          BY <1>0, <1>2 DEF LLInv, GuessesInv
        <4> HIDE DEF g, a
        <4> QED
          BY <1>3, <1>9, <1>10, <3>1, <4>1
      <3>2. CASE i \in DOMAIN rows
        <4>1. i \in DOMAIN events /\ events'[i] = events[i]
          BY <1>4, <1>9, <3>2
        <4> HIDE DEF g, a
        <4> QED
          BY <1>10, <1>15, <4>1 DEF LLInv, RowsInv
      <3> QED
        BY <1>9, <3>1, <3>2
    <2>2. ASSUME NEW i \in DOMAIN events', NEW j \in DOMAIN events',
                 events'[i].guess # 0, events'[i].guess = events'[j].guess
          PROVE  i = j
      <3> HIDE DEF g, a
      <3> QED
        BY <1>3, <1>4, <1>9, <1>15, <2>2 DEF LLInv, RowsInv
    <2> QED
      BY <2>1, <2>2 DEF RowsInv
  <1>17. KeptInv'
    <2> SUFFICES ASSUME NEW i \in DOMAIN wrong'
                 PROVE  /\ wrong'[i].stamped # Never => wrong'[i].stamped >= wrong'[i].at
                        /\ i \notin lost' /\ wrong'[i].at >= now - Retention => Held(i)' \/ Stored(i)'
      BY <1>1 DEF KeptInv
    <2>0. i \in DOMAIN wrong /\ wrong[i] \in Guesses /\ i # 0
      BY <1>0, <1>10
    <2>1. CASE i = g
      <3>1. Stored(i)'
        BY <1>3, <1>9, <2>1 DEF Stored
      <3>2. wrong[i].at \in Int /\ wrong[i].at <= now
        BY <2>0 DEF Guesses
      <3>3. wrong'[i].stamped = now /\ wrong'[i].at = wrong[i].at
        BY <1>10, <2>0, <2>1
      <3> QED
        BY <1>0, <3>1, <3>2, <3>3
    <2>2. CASE i # g
      <3>1. wrong'[i] = wrong[i]
        BY <1>10, <2>0, <2>2
      <3>2. Held(i) => Held(i)'
        BY <1>2, <1>12, <2>2 DEF Held
      <3>3. ASSUME Stored(i), i \notin lost', wrong[i].at >= now - Retention PROVE Stored(i)'
        <4>1. PICK j \in DOMAIN events : events[j].guess = i
          BY <3>3 DEF Stored
        <4>2. wrong[i].stamped = events[j].at /\ events[j] \in AuthEvents
          BY <2>0, <4>1 DEF LLInv, RowsInv, TypeInv
        <4>3. events[j].at \in Nat /\ events[j].at >= wrong[i].at
          BY <2>0, <4>2 DEF LLInv, KeptInv, AuthEvents, Never
        <4>4. ~(events[j].at < now - Retention)
          BY <1>0, <2>0, <3>3, <4>3, Settings DEF Guesses
        <4>5. j \in DOMAIN rows
          BY <1>4, <2>0, <3>3, <4>1, <4>4
        <4> QED
          BY <1>9, <4>1, <4>5 DEF Stored
      <3> QED
        BY <1>6, <2>0, <3>1, <3>2, <3>3 DEF LLInv, KeptInv
    <2> QED
      BY <2>1, <2>2
  <1>18. BoundInv'
    <2>1. \A ip : Guessed(ip)' \subseteq Guessed(ip)
      BY <1>1, <1>6, <1>10 DEF Guessed, GuessesInWindow
    <2> QED
      BY <1>12, <1>13, <2>1, FewerKeepBound
  <1> QED
    BY <1>12, <1>13, <1>14, <1>16, <1>17, <1>18 DEF LLInv

\* The outcome leaves no row, and a wrong guess is lost.
LEMMA StepRecordFails ==
    ASSUME LLInv, NEW t \in Threads, RecordFails(t)
    PROVE  LLInv'
  <1> DEFINE p == ProcessOf[t]
             own == {attempt[t].guess} \ {0}
  <1>0. DOMAIN attempt = Threads /\ p \in Processes
    BY LoginLimitAssumption DEF LLInv, AttemptsInv
  <1>1. /\ attempt[t].stage \in Answered
        /\ prunedAt' = (IF Due(p) THEN [prunedAt EXCEPT ![p] = now] ELSE prunedAt)
        /\ attempt' = [attempt EXCEPT ![t] = Idle]
        /\ faults' = faults + 1
        /\ UNCHANGED <<pending, now, begun, wrong>>
        /\ \/ events' = Pruned(events) /\ lost' = lost \cup Displaced(events) \cup own
           \/ events' = events /\ lost' = lost \cup own
    BY DEF RecordFails
  <1>2. Guess(t) = attempt[t].guess
    BY <1>1 DEF Guess, Idle, Answered
  <1>3. own \subseteq DOMAIN wrong /\ Guess(t) \in own \cup {0}
    BY <1>2, HeldAreGuesses
  <1> HIDE DEF own
  <1>4. Ends({t})
    BY <1>0, <1>1 DEF Ends
  <1>5. lost \subseteq lost' /\ own \subseteq lost' /\ lost' \subseteq DOMAIN wrong
    BY <1>1, <1>3, DisplacedAreGuesses DEF LLInv, TypeInv
  <1>6. /\ DOMAIN events' \subseteq DOMAIN events
        /\ \A i \in DOMAIN events' : events'[i] = events[i]
        /\ \A i \in DOMAIN events \ DOMAIN events' :
               events[i].at < now - Retention \/ events[i].guess \in lost' \cup {0}
    BY <1>1, PruningRemoves DEF LLInv
  <1>7. TypeInv'
    <2>1. prunedAt' \in [Processes -> -PruneEvery..now']
      BY <1>0, <1>1, PrunedNow DEF LLInv
    <2>2. IsFiniteSet(DOMAIN events')
      BY <1>6, FS_Subset DEF LLInv, TypeInv
    <2>3. AuthEvents' = AuthEvents /\ Guesses' = Guesses
      BY <1>1 DEF AuthEvents, Guesses
    <2> QED
      BY <1>1, <1>5, <1>6, <2>1, <2>2, <2>3 DEF LLInv, TypeInv
  <1> QED
    BY <1>1, <1>3, <1>4, <1>5, <1>6, <1>7, RowsGo

\* The guesses of a killed worker's threads are lost.
LEMMA StepRestart ==
    ASSUME LLInv, NEW p \in Processes, Restart(p)
    PROVE  LLInv'
  <1> DEFINE mine == {t \in Threads : ProcessOf[t] = p}
             dropped == {attempt[t].guess : t \in {u \in mine : attempt[u].stage = "failed"}}
  <1>1. /\ attempt' = [t \in Threads |-> IF t \in mine THEN Idle ELSE attempt[t]]
        /\ lost' = lost \cup dropped
        /\ prunedAt' = [prunedAt EXCEPT ![p] = 0 - PruneEvery]
        /\ faults' = faults + 1
        /\ UNCHANGED <<events, pending, now, begun, wrong>>
    BY DEF Restart
  <1>2. \A t \in mine : Guess(t) \in dropped \cup {0}
    BY DEF LLInv, AttemptsInv, Guess
  <1>3. dropped \subseteq DOMAIN wrong
    <2>1. ASSUME NEW t \in Threads, attempt[t].stage = "failed"
          PROVE  attempt[t].guess \in DOMAIN wrong
      BY <2>1, HeldAreGuesses DEF LLInv, AttemptsInv, Guess, Idle
    <2> QED
      BY <2>1
  <1>4. mine \in SUBSET Threads
    OBVIOUS
  <1> HIDE DEF mine, dropped
  <1>5. TypeInv'
    <2>1. 0 - PruneEvery \in -PruneEvery..now /\ prunedAt' \in [Processes -> -PruneEvery..now']
      BY <1>1, LoginLimitAssumption DEF LLInv, TypeInv
    <2>2. AuthEvents' = AuthEvents /\ Guesses' = Guesses
      BY <1>1 DEF AuthEvents, Guesses
    <2> QED
      BY <1>1, <1>3, <2>1, <2>2 DEF LLInv, TypeInv
  <1> QED
    BY <1>1, <1>2, <1>4, <1>5, RowsGo DEF Ends

\* The rows that are forgiven are lost; nothing is taken from a thread.
LEMMA StepResetLockout ==
    ASSUME LLInv, ResetLockout
    PROVE  LLInv'
  <1> DEFINE kept == {i \in DOMAIN events : events[i].type = "ok"}
             forgiven == {i \in DOMAIN wrong : wrong[i].stamped # Never}
  <1>1. /\ events' = Restrict(events, kept)
        /\ lost' = lost \cup forgiven
        /\ faults' = faults + 1
        /\ UNCHANGED <<prunedAt, attempt, pending, now, begun, wrong>>
    BY DEF ResetLockout
  <1>2. DOMAIN events' = kept /\ \A i \in kept : events'[i] = events[i]
    BY <1>1 DEF Restrict
  <1>3. \A i \in DOMAIN events \ kept : events[i].guess \in forgiven \cup {0}
    <2>1. ASSUME NEW i \in DOMAIN events, events[i].guess # 0
          PROVE  events[i].guess \in forgiven
      <3>1. events[i] \in AuthEvents /\ wrong[events[i].guess].stamped = events[i].at
        BY <2>1 DEF LLInv, RowsInv, TypeInv
      <3>2. events[i].guess \in 1..Len(wrong) /\ events[i].at # Never
        BY <2>1, <3>1 DEF AuthEvents, Never, LLInv, TypeInv
      <3> QED
        BY <3>1, <3>2 DEF LLInv, TypeInv
    <2> QED
      BY <2>1
  <1>4. kept \subseteq DOMAIN events /\ forgiven \subseteq DOMAIN wrong
    OBVIOUS
  <1> HIDE DEF kept, forgiven
  <1>5. TypeInv'
    <2>1. IsFiniteSet(DOMAIN events')
      BY <1>2, <1>4, FS_Subset DEF LLInv, TypeInv
    <2>2. AuthEvents' = AuthEvents /\ Guesses' = Guesses
      BY <1>1 DEF AuthEvents, Guesses
    <2> QED
      BY <1>1, <1>2, <1>4, <2>1, <2>2 DEF LLInv, TypeInv
  <1>6. Ends({})
    BY <1>1 DEF Ends, LLInv, AttemptsInv
  <1> QED
    BY <1>1, <1>2, <1>3, <1>4, <1>5, <1>6, RowsGo

\* Time passes: fewer guesses are in the window, and fewer must be kept.
LEMMA StepTick ==
    ASSUME LLInv, Tick
    PROVE  LLInv'
  <1>1. /\ now \in Nat /\ now' = now + 1
        /\ UNCHANGED <<events, prunedAt, attempt, pending, begun, faults, wrong, lost>>
    BY DEF LLInv, TypeInv, Tick
  <1>2. TypeInv'
    <2>1. 0..now \subseteq 0..now' /\ -PruneEvery..now \subseteq -PruneEvery..now'
      BY <1>1, LoginLimitAssumption
    <2>2. AuthEvents \subseteq AuthEvents'
      BY <1>1, <2>1 DEF AuthEvents
    <2>3. Guesses \subseteq Guesses'
      BY <1>1, <2>1 DEF Guesses
    <2>4. wrong' \in Seq(Guesses')
      BY <1>1, <2>3 DEF LLInv, TypeInv
    <2>5. prunedAt' \in [Processes -> -PruneEvery..now']
      BY <1>1, <2>1 DEF LLInv, TypeInv
    <2> QED
      BY <1>1, <2>2, <2>4, <2>5 DEF LLInv, TypeInv
  <1>3. AttemptsInv'
    BY <1>1 DEF LLInv, AttemptsInv, Attempts
  <1>4. GuessesInv'
    BY <1>1 DEF LLInv, GuessesInv, Guess
  <1>5. RowsInv'
    BY <1>1 DEF LLInv, RowsInv
  <1>6. ASSUME NEW g \in DOMAIN wrong, NEW d \in Nat, wrong[g].at >= now' - d
        PROVE  wrong[g].at >= now - d
    <2>1. wrong[g].at \in Int
      <3>1. wrong[g] \in Guesses
        BY DEF LLInv, TypeInv
      <3> QED
        BY <3>1 DEF Guesses
    <2> QED
      BY <1>1, <1>6, <2>1
  <1>7. KeptInv'
    <2> SUFFICES ASSUME NEW g \in DOMAIN wrong, g \notin lost, wrong[g].at >= now' - Retention
                 PROVE  Held(g) \/ Stored(g)
      BY <1>1 DEF LLInv, KeptInv, Held, Stored, Guess
    <2> QED
      BY <1>6, Settings DEF LLInv, KeptInv
  <1>8. BoundInv'
    <2>1. \A ip : Guessed(ip)' \subseteq Guessed(ip) /\ Guessing(ip)' \subseteq Guessing(ip)
      BY <1>1, <1>6, Settings DEF Guessed, GuessesInWindow, Guessing
    <2> QED
      BY <1>2, <2>1, FewerKeepBound
  <1> QED
    BY <1>2, <1>3, <1>4, <1>5, <1>7, <1>8 DEF LLInv

-----------------------------------------------------------------------------
(* The theorems                                                             *)

LEMMA LLInit == Init => LLInv
  <1> SUFFICES ASSUME Init PROVE LLInv
    OBVIOUS
  <1>1. TypeInv
    <2>1. events = [i \in {} |-> 0] /\ DOMAIN events = {} /\ IsFiniteSet({})
      BY FS_EmptySet DEF Init
    <2>2. prunedAt \in [Processes -> -PruneEvery..now]
      BY LoginLimitAssumption DEF Init
    <2> QED
      BY <2>1, <2>2 DEF Init, TypeInv
  <1>2. AttemptsInv /\ \A t \in Threads : Guess(t) = 0
    BY DEF Init, AttemptsInv, Guess
  <1>3. GuessesInv /\ RowsInv /\ KeptInv
    BY <1>2 DEF Init, GuessesInv, RowsInv, KeptInv
  <1>4. BoundInv
    <2>1. \A ip : Guessed(ip) = {} /\ Guessing(ip) = {}
      BY DEF Init, Guessed, GuessesInWindow, Guessing, Idle
    <2>2. Cardinality({}) = 0
      BY FS_EmptySet
    <2>3. Cardinality(Threads) \in Nat
      BY <1>1, FinitelyMany
    <2>4. 0 + 0 <= Limit - 1 + Cardinality(Threads)
      BY <2>3, Settings
    <2> QED
      BY <2>1, <2>2, <2>4, Zenon DEF BoundInv
  <1> QED
    BY <1>1, <1>2, <1>3, <1>4 DEF LLInv

LEMMA LLStep == LLInv /\ [Next]_vars => LLInv'
  <1> SUFFICES ASSUME LLInv, [Next]_vars PROVE LLInv'
    OBVIOUS
  <1>1. ASSUME NEW t \in Threads, NEW ip \in Addresses, NEW kind \in {"password", "code"},
               Begin(t, ip, kind)
        PROVE  LLInv'
    BY <1>1, StepBegin
  <1>2. ASSUME NEW t \in Threads, CheckWrong(t) PROVE LLInv'
    BY <1>2, StepCheckWrong
  <1>3. ASSUME NEW t \in Threads, CheckRight(t) \/ CheckDenied(t) PROVE LLInv'
    BY <1>3, StepCheckRight
  <1>4. ASSUME NEW t \in Threads, Record(t) PROVE LLInv'
    BY <1>4, StepRecord
  <1>5. ASSUME NEW t \in Threads, RecordFails(t) PROVE LLInv'
    BY <1>5, StepRecordFails
  <1>6. ASSUME NEW p \in Processes, Restart(p) PROVE LLInv'
    BY <1>6, StepRestart
  <1>7. CASE ResetLockout
    BY <1>7, StepResetLockout
  <1>8. CASE Tick
    BY <1>8, StepTick
  <1>9. CASE UNCHANGED vars
    BY <1>9 DEF vars, LLInv, TypeInv, AttemptsInv, GuessesInv, RowsInv, KeptInv, BoundInv,
                AuthEvents, Guesses, Attempts, Guess, Held, Stored, Guessed, GuessesInWindow, Guessing
  <1> QED
    BY <1>1, <1>2, <1>3, <1>4, <1>5, <1>6, <1>7, <1>8, <1>9 DEF Next

(* What the two login forms (src/app/__init__.py 1502-1546, 1687-1712) and    *)
(* _record_auth_event (1187-1205) keep true between all their steps: LLInv.   *)
THEOREM LoginLimitInvariant == Spec => []LLInv
  BY LLInit, LLStep, PTL DEF Spec

(* The table, the clocks of the prunings and the attempts hold what they      *)
(* should, and only a failed attempt has a guess to record.                   *)
THEOREM LoginLimitTypeCorrect == Spec => []LoginLimitTypeOK
  <1>1. LLInv => LoginLimitTypeOK
    <2> SUFFICES ASSUME LLInv PROVE LoginLimitTypeOK
      OBVIOUS
    <2>1. \A i \in DOMAIN events :
             events[i] \in [type : Types, ip : Addresses, at : 0..now, guess : 0..Len(wrong)]
      BY DEF LLInv, TypeInv, AuthEvents
    <2>2. \A t \in Threads : attempt[t] = Idle \/
             /\ attempt[t].stage \in Answered \cup {"counted"}
             /\ attempt[t].ip \in Addresses
             /\ attempt[t].guess \in 0..Len(wrong)
             /\ attempt[t].guess # 0 <=> attempt[t].stage = "failed"
      BY DEF LLInv, AttemptsInv, Attempts
    <2>3. \A p \in Processes : prunedAt[p] \in -PruneEvery..now
      BY DEF LLInv, TypeInv
    <2> QED
      BY <2>1, <2>2, <2>3 DEF LoginLimitTypeOK, LLInv, TypeInv
  <1> QED
    BY <1>1, LoginLimitInvariant, PTL

(* Between the count of _is_login_blocked (1510, 1689) and the record of a    *)
(* failure (1544, 1710) other threads may count the same rows: their number   *)
(* is all that the limit can be exceeded by, for any limit, window,           *)
(* retention and number of threads, as pruning by age keeps each row of the   *)
(* window (Settings).                                                         *)
THEOREM GuessesStayLimited == Spec => []GuessesAreLimited
  <1>1. LLInv => GuessesAreLimited
    <2> SUFFICES ASSUME LLInv, NEW ip \in Addresses
                 PROVE  Cardinality(GuessesInWindow(ip) \ lost) <= Limit - 1 + Cardinality(Threads)
      BY DEF GuessesAreLimited
    <2>1. Cardinality(Guessed(ip)) + Cardinality(Guessing(ip)) <= Limit - 1 + Cardinality(Threads)
      BY DEF LLInv, BoundInv
    <2>2. /\ Cardinality(Guessed(ip)) \in Nat /\ Cardinality(Guessing(ip)) \in Nat
          /\ Cardinality(Threads) \in Nat
      BY FinitelyMany DEF LLInv
    <2> QED
      BY <2>1, <2>2, Settings DEF Guessed
  <1> QED
    BY <1>1, LoginLimitInvariant, PTL

\* Only the beginning of an attempt refuses, and it has counted the rows.
LEMMA RefusalCounted ==
    ASSUME LLInv, Next, NEW t \in Threads,
           attempt[t] = Idle, attempt'[t] # Idle, attempt'[t].stage = "refused"
    PROVE  Blocked(attempt'[t].ip) /\ attempt'[t].ip \in Addresses
  <1>0. DOMAIN attempt = Threads
    BY DEF LLInv, AttemptsInv
  <1>1. ASSUME NEW u \in Threads, NEW ip \in Addresses, NEW kind \in {"password", "code"},
               Begin(u, ip, kind)
        PROVE  Blocked(attempt'[t].ip) /\ attempt'[t].ip \in Addresses
    <2> DEFINE new == [stage |-> IF Blocked(ip) THEN "refused" ELSE "counted",
                       ip |-> ip, kind |-> kind, guess |-> 0]
    <2>1. attempt' = [attempt EXCEPT ![u] = new]
      BY <1>1 DEF Begin
    <2>2. u = t /\ attempt'[t] = new
      BY <1>0, <2>1
    <2>3. new.ip = ip /\ (new.stage = "refused" => Blocked(ip))
      OBVIOUS
    <2> HIDE DEF new
    <2> QED
      BY <2>2, <2>3
  <1>2. ASSUME NEW u \in Threads,
               \/ CheckWrong(u) \/ CheckRight(u) \/ CheckDenied(u) \/ Record(u) \/ RecordFails(u)
        PROVE  FALSE
    <2>1. attempt[u].stage \in Answered \cup {"counted"}
      BY <1>2 DEF CheckWrong, CheckRight, CheckDenied, Record, RecordFails
    <2>2. u # t
      BY <2>1 DEF Idle, Answered
    <2>3. attempt'[t] = attempt[t]
      BY <1>0, <1>2, <2>2 DEF CheckWrong, CheckRight, CheckDenied, Record, RecordFails
    <2> QED
      BY <2>3
  <1>3. ASSUME NEW p \in Processes, Restart(p) PROVE FALSE
    BY <1>3 DEF Restart
  <1>4. ResetLockout \/ Tick => FALSE
    BY DEF ResetLockout, Tick
  <1> QED
    BY <1>1, <1>2, <1>3, <1>4 DEF Next

(* _is_login_blocked (1295) counts failures, each of which is a wrong entry   *)
(* of that address: refusals feed no lockout, and no row counts for another   *)
(* address or twice, whatever the threads, restarts and prunings between.     *)
THEOREM RefusalsAreDeserved == Spec => RefusedForOwnGuesses
  <1> DEFINE Own(ip) == {i \in DOMAIN wrong : /\ wrong[i].ip = ip
                                              /\ wrong[i].stamped # Never
                                              /\ wrong[i].stamped >= now - Window}
             Deserved == \A t \in Threads :
                 attempt[t] = Idle /\ attempt'[t] # Idle /\ attempt'[t].stage = "refused" =>
                     Limit <= Cardinality(Own(attempt'[t].ip))
  <1>1. ASSUME LLInv, Next PROVE Deserved
    <2> SUFFICES ASSUME NEW t \in Threads, attempt[t] = Idle, attempt'[t] # Idle,
                        attempt'[t].stage = "refused"
                 PROVE  Limit <= Cardinality(Own(attempt'[t].ip))
      OBVIOUS
    <2>1. PICK ip \in Addresses : ip = attempt'[t].ip /\ Blocked(ip)
      BY <1>1, RefusalCounted
    <2>2. Limit <= Cardinality(Counted(ip)) /\ Cardinality(Counted(ip)) \in Nat
      <3>1. Cardinality(Counted(ip)) >= Limit
        BY <2>1 DEF Blocked, Counted
      <3>2. Counted(ip) \in SUBSET DOMAIN events /\ IsFiniteSet(DOMAIN events)
        BY <1>1 DEF Counted, LLInv, TypeInv
      <3>3. Cardinality(Counted(ip)) \in Nat
        BY <3>2, FS_Subset, FS_CardinalityType
      <3> QED
        BY <3>1, <3>3, Settings
    <2>3. Cardinality(Counted(ip)) <= Cardinality(Own(ip)) /\ Cardinality(Own(ip)) \in Nat
      BY <1>1, RowsAreGuesses
    <2> HIDE DEF Own
    <2> QED
      BY <2>1, <2>2, <2>3, Settings
  <1>2. ASSUME LLInv, [Next]_vars PROVE [Deserved]_vars
    BY <1>1, <1>2
  <1> QED
    BY <1>2, LoginLimitInvariant, PTL DEF Spec, RefusedForOwnGuesses

=============================================================================
