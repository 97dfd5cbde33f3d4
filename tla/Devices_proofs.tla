---------------------------- MODULE Devices_proofs ----------------------------
(* Proofs about Devices, for any number of devices, groups, ids, queries    *)
(* and requests.                                                            *)
EXTENDS Devices, HbbsCodec, FiniteSetTheorems, TLAPS

\* What was deleted or blocked, and not released, is on the blocklist.
BlocklistInv == device = [d \in DeviceIds |-> device[d]] /\ barred \subseteq blocked

\* A step that adds no device to those there are.
AddsNone == \A d \in DeviceIds \ Existing : device'[d] = NoDevice

LEMMA BlocklistStep ==
    ASSUME BlocklistInv, Next
    PROVE  BlocklistInv'
  <1>1. CASE DeviceRequest
    BY <1>1 DEF DeviceRequest, OpenForm, SubmitForm, DeleteDevice, ToggleOnline, Block, BlocklistInv
  <1>2. CASE GroupRequest
    BY <1>2 DEF GroupRequest, CreateGroup, RenameGroup, DeleteGroup, BlocklistInv
  <1>3. CASE ImportRequest
    <2> PICK p \in Peers :
            \/ BlockPeer(p) \/ ReleasePeer(p)
            \/ \E n \in GroupNames \cup {NoGroup}, online \in BOOLEAN : ImportCsv(p, n, online)
            \/ \E n \in GroupNames, update \in BOOLEAN : ImportPeer(p, n, update)
      BY <1>3 DEF ImportRequest, ImportUploaded, ImportFetched, ImportMounted, FormGroupNames
    <2>1. CASE BlockPeer(p) \/ ReleasePeer(p)
      BY <2>1 DEF BlockPeer, ReleasePeer, Block, BlocklistInv
    <2>2. CASE \E n \in GroupNames \cup {NoGroup}, online \in BOOLEAN : ImportCsv(p, n, online)
      BY <2>2 DEF ImportCsv, Insert, BlocklistInv
    <2>3. CASE \E n \in GroupNames, update \in BOOLEAN : ImportPeer(p, n, update)
      BY <2>3 DEF ImportPeer, Insert, UpdateFrom, BlocklistInv
    <2> QED
      BY <2>1, <2>2, <2>3
  <1>4. CASE LiveStatus
    BY <1>4 DEF LiveStatus, AutoCheck, BeginQuery, HbbsAnswers, HbbsFails, CommitQuery, BlocklistInv
  <1>5. CASE IntervalPasses
    BY <1>5 DEF IntervalPasses, BlocklistInv
  <1> QED
    BY <1>1, <1>2, <1>3, <1>4, <1>5 DEF Next

\* An import adds at most the id it names, and only if that is not blocked.
LEMMA ImportsAreFiltered ==
    ASSUME BlocklistInv, ImportRequest, NEW d \in DeviceIds \ Existing, device'[d] # NoDevice
    PROVE  device'[d].peer \notin blocked
  <1> PICK p \in Peers :
          \/ BlockPeer(p) \/ ReleasePeer(p)
          \/ \E n \in GroupNames \cup {NoGroup}, online \in BOOLEAN : ImportCsv(p, n, online)
          \/ \E n \in GroupNames, update \in BOOLEAN : ImportPeer(p, n, update)
    BY DEF ImportRequest, ImportUploaded, ImportFetched, ImportMounted, FormGroupNames
  <1>1. device[d] = NoDevice
    BY DEF Existing
  <1>2. ASSUME NEW g, NEW o, Insert(p, g, o), p \notin blocked
        PROVE  device'[d].peer \notin blocked
    <2>1. device'[d] = Row(p, g, o)
      BY <1>1, <1>2 DEF Insert, BlocklistInv
    <2> QED
      BY <1>2, <2>1 DEF Row
  <1>3. ASSUME NEW g, UpdateFrom(p, g) PROVE FALSE
    <2>1. PICK e \in Existing :
              device' = [device EXCEPT ![e].group = IF @ \in Groups THEN @ ELSE g]
      BY <1>3 DEF UpdateFrom
    <2> QED
      BY <1>1, <2>1 DEF BlocklistInv, Existing
  <1>4. device' # device
    BY <1>1
  <1>5. ~BlockPeer(p) /\ ~ReleasePeer(p)
    BY <1>4 DEF BlockPeer, ReleasePeer
  <1>6. CASE \E n \in GroupNames \cup {NoGroup}, online \in BOOLEAN : ImportCsv(p, n, online)
    BY <1>2, <1>4, <1>6 DEF ImportCsv
  <1>7. CASE \E n \in GroupNames, update \in BOOLEAN : ImportPeer(p, n, update)
    BY <1>2, <1>3, <1>4, <1>7 DEF ImportPeer
  <1> QED
    BY <1>5, <1>6, <1>7

LEMMA OthersAddNone ==
    ASSUME BlocklistInv, (DeviceRequest /\ form' = form) \/ GroupRequest \/ LiveStatus \/ IntervalPasses
    PROVE  AddsNone
  <1>1. CASE DeviceRequest /\ form' = form
    <2>1. ASSUME NEW e \in DeviceIds, DeleteDevice(e) PROVE AddsNone
      BY <2>1 DEF DeleteDevice, BlocklistInv, AddsNone, Existing
    <2>2. ASSUME NEW e \in DeviceIds, ToggleOnline(e) PROVE AddsNone
      <3>1. e \in Existing /\ \A d \in DeviceIds \ {e} : device'[d] = device[d]
        BY <2>2 DEF ToggleOnline, BlocklistInv
      <3> QED
        BY <3>1 DEF AddsNone, Existing
    <2>3. ASSUME NEW p \in Peers, NEW o \in BOOLEAN, SubmitForm(p, o) PROVE FALSE
      BY <1>1, <2>3 DEF SubmitForm
    <2> QED
      BY <1>1, <2>1, <2>2, <2>3 DEF DeviceRequest, OpenForm, AddsNone, Existing
  <1>2. CASE GroupRequest
    BY <1>2 DEF GroupRequest, CreateGroup, RenameGroup, DeleteGroup, AddsNone, Existing
  <1>3. CASE LiveStatus
    BY <1>3 DEF LiveStatus, AutoCheck, BeginQuery, HbbsAnswers, HbbsFails, CommitQuery,
       AddsNone, Existing
  <1>4. CASE IntervalPasses
    BY <1>4 DEF IntervalPasses, AddsNone, Existing
  <1> QED
    BY <1>1, <1>2, <1>3, <1>4

\* A deleted or blocked id does not come back by an import until it is released,
\* whatever else administrators, duplicates and live queries do
\* (lines 2176-2197, 2314-2400, 3055-3119; ADMIN-GUIDE.md:213).
THEOREM DeletedAreNotImported == Spec => DeletedStaysOut
  <1> DEFINE Stays == form' = form => \A d \in DeviceIds \ Existing :
                          device'[d] # NoDevice => device'[d].peer \notin barred
  <1>1. Init => BlocklistInv
    <2> SUFFICES ASSUME Init PROVE BlocklistInv
      OBVIOUS
    <2>1. PICK k \in 0 .. 3 : \E row \in [1 .. k -> Rows] :
              device = [d \in DeviceIds |-> IF d <= k THEN row[d] ELSE NoDevice]
      BY Zenon DEF Init
    <2>2. device = [d \in DeviceIds |-> device[d]]
      BY <2>1
    <2> QED
      BY <2>2 DEF Init, BlocklistInv
  <1>2. BlocklistInv /\ [Next]_vars => BlocklistInv'
    BY BlocklistStep DEF vars, BlocklistInv
  <1>3. BlocklistInv /\ [Next]_vars => [Stays]_vars
    <2> SUFFICES ASSUME BlocklistInv, Next PROVE Stays
      OBVIOUS
    <2>1. CASE ImportRequest
      BY <2>1, ImportsAreFiltered DEF BlocklistInv
    <2>2. CASE ~ImportRequest
      BY <2>2, OthersAddNone DEF Next, AddsNone
    <2> QED
      BY <2>1, <2>2
  <1> QED
    BY <1>1, <1>2, <1>3, PTL DEF Spec, DeletedStaysOut

-----------------------------------------------------------------------------
(* The live status query                                                    *)

DevicesInv == device \in [DeviceIds -> DeviceRows \cup {NoDevice}] /\ IsFiniteSet(Existing)

GroupsInv ==
    /\ group \in [GroupIds -> GroupNames \cup {NoGroup}]
    /\ \A g \in Groups : Named(group[g]) = {g}

RestInv ==
    /\ form # NoForm => form.group \in GroupIds \cup {Ungrouped}
    /\ blocked \subseteq Peers /\ due \in BOOLEAN /\ requests \in 0 .. MaxRequests

\* The batches asked so far are the first ids, and what they said is recorded.
\* A device that nobody touched since is as it was loaded.
QueryOK(r, table) ==
    /\ r \in LiveQueries
    /\ r.asked <= Len(r.ids)
    /\ \A j, k \in DOMAIN r.ids : r.ids[j] = r.ids[k] => j = k
    /\ DOMAIN r.online = {r.ids[k] : k \in 1 .. r.asked}
    /\ r.present = {p \in DOMAIN r.online : r.online[p]}
    /\ \A d \in DeviceIds : r.loaded[d] # NoDevice => \E k \in DOMAIN r.ids : r.loaded[d].peer = r.ids[k]
    /\ \A d \in DeviceIds \ r.touched : r.loaded[d] = Loaded(table[d])

QueriesInv ==
    /\ query = [q \in Queries |-> query[q]]
    /\ \A q \in Queries : query[q] # Idle => QueryOK(query[q], device)

StatusInv == DevicesInv /\ GroupsInv /\ RestInv /\ QueriesInv

\* Nobody changed an id or a status but those of the devices in ids.
SameBut(ids) == \A d \in DeviceIds \ ids : Loaded(device'[d]) = Loaded(device[d])

-----------------------------------------------------------------------------
(* The ids that a query asks for                                            *)

\* Every number up to the size of a set of numbers is the place of one of them.
LEMMA Places ==
    ASSUME NEW S \in SUBSET Nat, IsFiniteSet(S)
    PROVE  /\ Cardinality(S) \in Nat
           /\ \A k \in 1 .. Cardinality(S) :
                  Kth(S, k) \in S /\ Cardinality({e \in S : e <= Kth(S, k)}) = k
           /\ \A d \in S : \E k \in 1 .. Cardinality(S) : Kth(S, k) = d
  <1> DEFINE UpTo(d) == {e \in S : e <= d}
             n == Cardinality(S)
             place == [d \in S |-> Cardinality(UpTo(d))]
  <1>1. n \in Nat
    BY FS_CardinalityType
  <1>2. ASSUME NEW d \in S
        PROVE  IsFiniteSet(UpTo(d)) /\ Cardinality(UpTo(d)) \in 1 .. n
    <2>1. UpTo(d) \in SUBSET S /\ d \in UpTo(d)
      OBVIOUS
    <2>2. IsFiniteSet(UpTo(d)) /\ Cardinality(UpTo(d)) <= n
      BY <2>1, FS_Subset
    <2>3. Cardinality(UpTo(d)) \in Nat /\ Cardinality(UpTo(d)) # 0
      BY <2>1, <2>2, FS_CardinalityType, FS_EmptySet
    <2> HIDE DEF UpTo, n
    <2> QED
      BY <1>1, <2>2, <2>3
  <1>3. ASSUME NEW d \in S, NEW e \in S, Cardinality(UpTo(d)) = Cardinality(UpTo(e)), d <= e
        PROVE  d = e
    <2>1. \A x \in S : x <= d => x <= e
      BY <1>3
    <2>2. UpTo(d) \in SUBSET UpTo(e)
      BY <2>1
    <2>3. UpTo(d) = UpTo(e)
      BY <1>2, <1>3, <2>2, FS_Subset
    <2>4. e \in UpTo(d)
      BY <2>3
    <2> QED
      BY <1>3, <2>4
  <1>4. ASSUME NEW d \in S, NEW e \in S, Cardinality(UpTo(d)) = Cardinality(UpTo(e))
        PROVE  d = e
    <2>1. d <= e \/ e <= d
      OBVIOUS
    <2> HIDE DEF UpTo
    <2> QED
      BY <1>3, <1>4, <2>1
  <1>5. place \in Injection(S, 1 .. n)
    <2> HIDE DEF UpTo, n
    <2> QED
      BY <1>2, <1>4 DEF Injection, IsInjective
  <1>6. place \in Surjection(S, 1 .. n)
    <2>1. IsFiniteSet(1 .. n) /\ Cardinality(1 .. n) = n
      BY <1>1, FS_Interval
    <2> HIDE DEF place
    <2> QED
      BY <1>5, <2>1, FS_Injection
  <1>7. ASSUME NEW k \in 1 .. n PROVE Kth(S, k) \in S /\ Cardinality(UpTo(Kth(S, k))) = k
    <2>1. \E d \in S : Cardinality(UpTo(d)) = k
      <3> HIDE DEF UpTo, n
      <3> QED
        BY <1>6 DEF Surjection
    <2> QED
      BY <2>1 DEF Kth
  <1>8. ASSUME NEW d \in S PROVE \E k \in 1 .. n : Kth(S, k) = d
    <2>1. Cardinality(UpTo(d)) \in 1 .. n
      BY <1>2
    <2>2. Kth(S, Cardinality(UpTo(d))) = d
      BY <1>4, <1>7, <2>1
    <2> QED
      BY <2>1, <2>2
  <1> QED
    BY <1>1, <1>7, <1>8

\* A set of numbers with an element has a first one.
LEMMA FirstExists ==
    ASSUME NEW S \in SUBSET Nat, IsFiniteSet(S), S # {}
    PROVE  \E d \in S : \A e \in S : d <= e
  <1> DEFINE d == Kth(S, 1)
             low == {e \in S : e <= d}
  <1>1. 1 \in 1 .. Cardinality(S)
    BY Places, FS_EmptySet
  <1>2. d \in S /\ Cardinality(low) = 1
    BY <1>1, Places
  <1>3. PICK x : low = {x}
    BY <1>2, FS_Subset, FS_Singleton
  <1> HIDE DEF d
  <1>4. d \in Nat /\ d \in low
    BY <1>2
  <1>5. ASSUME NEW e \in S PROVE d <= e
    <2>1. e \in Nat /\ (e <= d => e = d)
      BY <1>3, <1>4
    <2> QED
      BY <1>4, <2>1
  <1> QED
    BY <1>2, <1>5

\* A query asks once for every id that a device has.
LEMMA RequestedIds ==
    ASSUME DevicesInv
    PROVE  /\ Requested \in Seq(Peers)
           /\ \A j, k \in DOMAIN Requested : Requested[j] = Requested[k] => j = k
           /\ \A d \in Existing : \E k \in DOMAIN Requested : device[d].peer = Requested[k]
  <1> DEFINE n == Cardinality(Firsts)
  <1>1. Existing \in SUBSET Nat /\ Firsts \in SUBSET Existing
    BY DevicesAssumption DEF Existing, Firsts
  <1>2. IsFiniteSet(Firsts)
    BY <1>1, FS_Subset DEF DevicesInv
  <1>3. /\ n \in Nat
        /\ \A k \in 1 .. n : Kth(Firsts, k) \in Firsts /\ Cardinality({e \in Firsts : e <= Kth(Firsts, k)}) = k
        /\ \A d \in Firsts : \E k \in 1 .. n : Kth(Firsts, k) = d
    BY <1>1, <1>2, Places
  <1>4. ASSUME NEW d \in Existing PROVE device[d].peer \in Peers
    BY DEF DevicesInv, Existing, DeviceRows
  <1>5. Requested = [k \in 1 .. n |-> device[Kth(Firsts, k)].peer]
    BY DEF Requested
  <1> HIDE DEF n
  <1>6. Requested \in Seq(Peers) /\ DOMAIN Requested = 1 .. n
    <2>1. \A k \in 1 .. n : device[Kth(Firsts, k)].peer \in Peers
      BY <1>1, <1>3, <1>4
    <2> QED
      BY <1>3, <1>5, <2>1
  <1>7. ASSUME NEW j \in 1 .. n, NEW k \in 1 .. n, Requested[j] = Requested[k]
        PROVE  j = k
    <2>1. device[Kth(Firsts, j)].peer = device[Kth(Firsts, k)].peer
      BY <1>5, <1>7
    <2>2. Kth(Firsts, j) \in Nat /\ Kth(Firsts, k) \in Nat
      BY <1>1, <1>3
    <2>3. Kth(Firsts, j) <= Kth(Firsts, k) /\ Kth(Firsts, k) <= Kth(Firsts, j)
      BY <1>1, <1>3, <2>1 DEF Firsts
    <2>4. Kth(Firsts, j) = Kth(Firsts, k)
      BY <2>2, <2>3
    <2> QED
      BY <1>3, <2>4
  <1>8. ASSUME NEW d \in Existing
        PROVE  \E k \in 1 .. n : device[d].peer = Requested[k]
    <2> DEFINE same == {e \in Existing : device[e].peer = device[d].peer}
    <2>1. same \in SUBSET Nat /\ same # {} /\ IsFiniteSet(same)
      BY <1>1, FS_Subset DEF DevicesInv
    <2>2. PICK f \in same : \A e \in same : f <= e
      BY <2>1, FirstExists
    <2>3. f \in Firsts
      BY <2>2 DEF Firsts
    <2>4. PICK k \in 1 .. n : Kth(Firsts, k) = f
      BY <1>3, <2>3
    <2> QED
      BY <1>5, <2>2, <2>4
  <1> QED
    BY <1>6, <1>7, <1>8

\* Bit and byte of an id in hbbs' answer are those the client looks at.
LEMMA AnswersAreDecoded ==
    ASSUME NEW ids \in Seq(Peers), NEW present \in SUBSET ToSet(ids)
    PROVE  Decoded(ids, Answer(ids, present)) = present
  <1> DEFINE n == Len(ids)
             states == Answer(ids, present)
             bytes == (n + Bits - 1) \div Bits
             Said(j) == j \div Bits < Len(states) /\ (Bits - 1) - (j % Bits) \in states[j \div Bits + 1]
  <1>1. n \in Nat /\ bytes \in Nat /\ DOMAIN ids = 1 .. n
    BY DEF Bits
  <1>2. states = [k \in 1 .. bytes |->
            {b \in 0 .. Bits - 1 : LET i == (k - 1) * Bits + (Bits - 1 - b) IN i < n /\ ids[i + 1] \in present}]
    BY DEF Answer
  <1>3. Len(states) = bytes
    BY <1>1, <1>2
  <1>4. ASSUME NEW j \in 0 .. n - 1 PROVE Said(j) <=> ids[j + 1] \in present
    <2> DEFINE k == j \div Bits + 1
               b == (Bits - 1) - (j % Bits)
    <2>1. k \in 1 .. bytes /\ b \in 0 .. Bits - 1 /\ j \div Bits < bytes
      BY <1>1 DEF Bits
    <2>2. (k - 1) * Bits + (Bits - 1 - b) = j
      BY <1>1 DEF Bits
    <2> HIDE DEF k, b, bytes, states
    <2>3. b \in states[k] <=> ids[j + 1] \in present
      BY <1>1, <1>2, <2>1, <2>2
    <2> USE DEF k, b
    <2> QED
      BY <1>3, <2>1, <2>3
  <1>5. Decoded(ids, states) = {ids[j + 1] : j \in {i \in 0 .. n - 1 : Said(i)}}
    BY DEF Decoded
  <1> HIDE DEF Said, states
  <1>6. Decoded(ids, states) = {ids[j + 1] : j \in {i \in 0 .. n - 1 : ids[i + 1] \in present}}
    BY <1>4, <1>5
  <1>7. ASSUME NEW p \in present PROVE \E j \in 0 .. n - 1 : p = ids[j + 1] /\ ids[j + 1] \in present
    <2>1. PICK i \in 1 .. n : ids[i] = p
      BY <1>1 DEF ToSet
    <2>2. i - 1 \in 0 .. n - 1 /\ (i - 1) + 1 = i
      BY <1>1
    <2> QED
      BY <2>1, <2>2
  <1>8. Decoded(ids, states) = present
    BY <1>6, <1>7
  <1> QED
    BY <1>8 DEF states

-----------------------------------------------------------------------------
(* What a step leaves of a query                                            *)

\* A query is a record, and its fields have their types; and the other way round.
LEMMA QueryFields ==
    ASSUME NEW r \in LiveQueries
    PROVE  /\ r = [ids |-> r.ids, asked |-> r.asked, online |-> r.online, present |-> r.present,
                   touched |-> r.touched, loaded |-> r.loaded]
           /\ r.ids \in Seq(Peers) /\ r.asked \in Nat
           /\ r.online \in [DOMAIN r.online -> BOOLEAN] /\ DOMAIN r.online \subseteq Peers
           /\ r.present \subseteq Peers /\ r.touched \subseteq DeviceIds
           /\ r.loaded \in [DeviceIds -> [peer : Peers, online : BOOLEAN] \cup {NoDevice}]
  <1>1. PICK ps \in SUBSET Peers : r.online \in [ps -> BOOLEAN]
    BY DEF LiveQueries
  <1> QED
    BY <1>1 DEF LiveQueries

LEMMA QueryMade ==
    ASSUME NEW ids \in Seq(Peers), NEW asked \in Nat, NEW ps \in SUBSET Peers, NEW online \in [ps -> BOOLEAN],
           NEW present \in SUBSET Peers, NEW touched \in SUBSET DeviceIds,
           NEW loaded \in [DeviceIds -> [peer : Peers, online : BOOLEAN] \cup {NoDevice}]
    PROVE  [ids |-> ids, asked |-> asked, online |-> online, present |-> present,
            touched |-> touched, loaded |-> loaded] \in LiveQueries
  BY DEF LiveQueries

\* What an answer to a batch makes of a query.
LEMMA QueryAdvanced ==
    ASSUME NEW r \in LiveQueries, NEW asked, NEW present, NEW online
    PROVE  [r EXCEPT !.asked = asked, !.present = @ \cup present, !.online = online] =
           [ids |-> r.ids, asked |-> asked, online |-> online, present |-> r.present \cup present,
            touched |-> r.touched, loaded |-> r.loaded]
  <1> DEFINE s == [r EXCEPT !.asked = asked, !.present = @ \cup present, !.online = online]
  <1>1. r = [ids |-> r.ids, asked |-> r.asked, online |-> r.online, present |-> r.present,
             touched |-> r.touched, loaded |-> r.loaded]
    BY QueryFields
  <1>2. DOMAIN s = {"ids", "asked", "online", "present", "touched", "loaded"}
    BY <1>1
  <1>3. /\ s.ids = r.ids /\ s.asked = asked /\ s.online = online
        /\ s.present = r.present \cup present /\ s.touched = r.touched /\ s.loaded = r.loaded
    BY <1>1
  <1>4. s = [field \in DOMAIN s |-> s[field]]
    OBVIOUS
  <1> HIDE DEF s
  <1>5. s = [ids |-> r.ids, asked |-> asked, online |-> online, present |-> r.present \cup present,
             touched |-> r.touched, loaded |-> r.loaded]
    BY <1>2, <1>3, <1>4
  <1> QED
    BY <1>5 DEF s

\* A query that notes which devices were changed is right about the others.
LEMMA TouchedOK ==
    ASSUME NEW r, NEW before, NEW after, QueryOK(r, before), NEW ids \in SUBSET DeviceIds,
           \A d \in DeviceIds \ ids : Loaded(after[d]) = Loaded(before[d])
    PROVE  /\ QueryOK([r EXCEPT !.touched = @ \cup ids], after)
           /\ [r EXCEPT !.touched = @ \cup ids] # Idle
  <1> DEFINE s == [r EXCEPT !.touched = @ \cup ids]
  <1>1. r \in LiveQueries
    BY DEF QueryOK
  <1>2. /\ s = [ids |-> r.ids, asked |-> r.asked, online |-> r.online, present |-> r.present,
                touched |-> r.touched \cup ids, loaded |-> r.loaded]
        /\ s \in LiveQueries
    <2>1. r = [ids |-> r.ids, asked |-> r.asked, online |-> r.online, present |-> r.present,
               touched |-> r.touched, loaded |-> r.loaded]
      BY <1>1, QueryFields
    <2>2. s = [ids |-> r.ids, asked |-> r.asked, online |-> r.online, present |-> r.present,
               touched |-> r.touched \cup ids, loaded |-> r.loaded]
      BY <2>1
    <2>3. r.touched \cup ids \in SUBSET DeviceIds
      BY <1>1, QueryFields
    <2> HIDE DEF s
    <2> QED
      BY <1>1, <2>2, <2>3, QueryFields, QueryMade
  <1>3. s # Idle
    BY <1>2, MarksAssumption
  <1>4. /\ s.ids = r.ids /\ s.asked = r.asked /\ s.online = r.online /\ s.present = r.present
        /\ s.touched = r.touched \cup ids /\ s.loaded = r.loaded
    BY <1>2
  <1> HIDE DEF s
  <1>5. QueryOK(s, after)
    BY <1>2, <1>4 DEF QueryOK
  <1> QED
    BY <1>3, <1>5 DEF s

\* A step that touches what it changes, or changes nothing that a query loaded.
LEMMA TouchKeepsQueries ==
    ASSUME QueriesInv, NEW ids \in SUBSET DeviceIds, Touch(ids), SameBut(ids)
    PROVE  QueriesInv'
  <1>1. ASSUME NEW q \in Queries, query'[q] # Idle PROVE QueryOK(query'[q], device')
    <2>1. query[q] # Idle /\ query'[q] = [query[q] EXCEPT !.touched = @ \cup ids]
      BY <1>1 DEF Touch
    <2>2. QueryOK(query[q], device)
      BY <2>1 DEF QueriesInv
    <2> QED
      BY <2>1, <2>2, TouchedOK DEF SameBut
  <1>2. query' = [q \in Queries |-> query'[q]]
    BY DEF Touch
  <1> QED
    BY <1>1, <1>2 DEF QueriesInv

LEMMA OthersKeepQueries ==
    ASSUME QueriesInv, query' = query, SameBut({})
    PROVE  QueriesInv'
  <1>1. ASSUME NEW q \in Queries, query[q] # Idle PROVE QueryOK(query[q], device')
    BY <1>1 DEF QueriesInv, QueryOK, SameBut
  <1> QED
    BY <1>1 DEF QueriesInv

\* A query that begins has loaded the devices there are and knows nothing yet.
LEMMA StartedOK ==
    ASSUME DevicesInv, QueriesInv, NEW q \in Queries, BeginQuery(q), Existing # {}
    PROVE  QueryOK(query'[q], device') /\ \A p \in Queries \ {q} : query'[p] = query[p]
  <1> DEFINE held == [d \in DeviceIds |-> Loaded(device[d])]
             r == [ids |-> Requested, asked |-> 0, online |-> << >>, present |-> {}, touched |-> {},
                   loaded |-> held]
  <1>1. query'[q] = r /\ device' = device /\ \A p \in Queries \ {q} : query'[p] = query[p]
    <2>1. query' = [query EXCEPT ![q] = r] /\ device' = device
      BY DEF BeginQuery
    <2>2. query = [p \in Queries |-> query[p]]
      BY DEF QueriesInv
    <2> HIDE DEF r
    <2> QED
      BY <2>1, <2>2
  <1>2. ASSUME NEW d \in DeviceIds
        PROVE  /\ Loaded(device[d]) \in [peer : Peers, online : BOOLEAN] \cup {NoDevice}
               /\ Loaded(device[d]) # NoDevice => d \in Existing /\ Loaded(device[d]).peer = device[d].peer
    BY DEF DevicesInv, DeviceRows, Loaded, Existing
  <1>3. << >> \in [{} -> BOOLEAN] /\ DOMAIN << >> = {}
    OBVIOUS
  <1>4. r \in LiveQueries
    <2>1. held \in [DeviceIds -> [peer : Peers, online : BOOLEAN] \cup {NoDevice}]
      BY <1>2
    <2> HIDE DEF held
    <2> QED
      BY <1>3, <2>1, RequestedIds, QueryMade
  <1>5. Requested \in Seq(Peers) /\ 0 <= Len(Requested)
    BY RequestedIds
  <1>6. ASSUME NEW d \in DeviceIds, held[d] # NoDevice
        PROVE  \E k \in DOMAIN Requested : held[d].peer = Requested[k]
    BY <1>2, <1>6, RequestedIds
  <1>7. /\ r.ids = Requested /\ r.asked = 0 /\ r.online = << >> /\ r.present = {}
        /\ r.touched = {} /\ r.loaded = held
    OBVIOUS
  <1>8. \A d \in DeviceIds : held[d] = Loaded(device[d])
    OBVIOUS
  <1> HIDE DEF r, held
  <1> QED
    BY <1>1, <1>3, <1>4, <1>5, <1>6, <1>7, <1>8, RequestedIds DEF QueryOK

\* An answer extends what is known by the ids of one batch, none of which was in an
\* earlier one, and adds no more to what hbbs said than the client decodes.
LEMMA AnsweredOK ==
    ASSUME QueriesInv, NEW q \in Queries, HbbsAnswers(q)
    PROVE  QueryOK(query'[q], device') /\ \A p \in Queries \ {q} : query'[p] = query[p]
  <1> DEFINE r == query[q]
             last == Min({r.asked + BatchSize, Len(r.ids)})
             batch == SubSeq(r.ids, r.asked + 1, last)
  <1>1. PICK present \in SUBSET ToSet(batch) :
            query' = [query EXCEPT ![q] =
                [r EXCEPT !.asked = last, !.present = @ \cup present,
                          !.online = Merged(r, batch, Answer(batch, present))]]
    BY DEF HbbsAnswers
  <1> DEFINE online == [p \in DOMAIN r.online \cup ToSet(batch) |->
                           IF p \in ToSet(batch) THEN p \in present ELSE r.online[p]]
             s == [ids |-> r.ids, asked |-> last, online |-> online, present |-> r.present \cup present,
                   touched |-> r.touched, loaded |-> r.loaded]
  <1>2. QueryOK(r, device) /\ r.asked # Len(r.ids) /\ device' = device
    BY DEF HbbsAnswers, QueriesInv, Complete
  <1>3. r \in LiveQueries
    BY <1>2 DEF QueryOK
  <1>4. r.ids \in Seq(Peers) /\ r.asked \in 0 .. Len(r.ids) /\ Len(r.ids) \in Nat
    BY <1>2, <1>3, QueryFields DEF QueryOK
  <1>5. last \in Nat /\ r.asked < last /\ last <= Len(r.ids)
    <2>1. PICK m \in {r.asked + BatchSize, Len(r.ids)} : \A x \in {r.asked + BatchSize, Len(r.ids)} : m <= x
      BY <1>4, DevicesAssumption
    <2>2. /\ last \in {r.asked + BatchSize, Len(r.ids)}
          /\ \A x \in {r.asked + BatchSize, Len(r.ids)} : last <= x
      BY <2>1 DEF Min
    <2> HIDE DEF last
    <2> QED
      BY <1>2, <1>4, <2>2, DevicesAssumption
  <1>6. batch \in Seq(Peers) /\ ToSet(batch) = {r.ids[k] : k \in r.asked + 1 .. last}
    <2> HIDE DEF last
    <2>1. batch \in Seq(Peers) /\ DOMAIN batch = 1 .. last - r.asked
          /\ \A i \in 1 .. last - r.asked : batch[i] = r.ids[r.asked + i]
      BY <1>4, <1>5
    <2>2. ASSUME NEW k \in r.asked + 1 .. last PROVE \E i \in DOMAIN batch : batch[i] = r.ids[k]
      <3>1. k - r.asked \in 1 .. last - r.asked /\ r.asked + (k - r.asked) = k
        BY <1>4, <1>5
      <3> QED
        BY <2>1, <3>1
    <2>3. ASSUME NEW i \in DOMAIN batch PROVE \E k \in r.asked + 1 .. last : batch[i] = r.ids[k]
      <3>1. i \in 1 .. last - r.asked /\ batch[i] = r.ids[r.asked + i]
        BY <2>1, <2>3
      <3>2. r.asked + i \in r.asked + 1 .. last
        BY <1>4, <1>5, <3>1
      <3> QED
        BY <3>1, <3>2
    <2> HIDE DEF batch
    <2>4. ToSet(batch) = {batch[i] : i \in DOMAIN batch}
      BY DEF ToSet
    <2> QED
      BY <2>1, <2>2, <2>3, <2>4
  <1>7. Merged(r, batch, Answer(batch, present)) = online
    BY <1>6, AnswersAreDecoded DEF Merged
  <1>8. query'[q] = s /\ \A p \in Queries \ {q} : query'[p] = query[p]
    <2>1. [r EXCEPT !.asked = last, !.present = @ \cup present, !.online = online] = s
      BY <1>3, QueryAdvanced
    <2>2. query' = [query EXCEPT ![q] = s] /\ query = [p \in Queries |-> query[p]]
      BY <1>1, <1>7, <2>1 DEF QueriesInv
    <2> HIDE DEF s
    <2> QED
      BY <2>2
  <1> HIDE DEF last, batch, r
  <1>9. ToSet(batch) \subseteq Peers
    <2>1. \A i \in DOMAIN batch : batch[i] \in Peers
      BY <1>6
    <2> QED
      BY <2>1 DEF ToSet
  <1>10. s \in LiveQueries
    <2>1. r.online \in [DOMAIN r.online -> BOOLEAN] /\ DOMAIN r.online \subseteq Peers
      BY <1>3, QueryFields
    <2>2. ASSUME NEW p \in DOMAIN r.online \cup ToSet(batch)
          PROVE  (IF p \in ToSet(batch) THEN p \in present ELSE r.online[p]) \in BOOLEAN
      <3>1. CASE p \in ToSet(batch)
        BY ONLY <3>1
      <3>2. CASE p \notin ToSet(batch)
        BY ONLY <2>1, <2>2, <3>2
      <3> QED
        BY ONLY <3>1, <3>2
    <2>3. online \in [DOMAIN r.online \cup ToSet(batch) -> BOOLEAN]
      BY ONLY <2>2
    <2>4. DOMAIN r.online \cup ToSet(batch) \in SUBSET Peers
      BY <1>9, <2>1
    <2>5. r.present \cup present \in SUBSET Peers
      BY <1>3, <1>9, QueryFields
    <2> HIDE DEF online
    <2> QED
      BY <1>3, <1>5, <2>3, <2>4, <2>5, QueryFields, QueryMade
  <1>11. DOMAIN online = {r.ids[k] : k \in 1 .. last}
    <2>1. DOMAIN r.online = {r.ids[k] : k \in 1 .. r.asked}
      BY <1>2 DEF QueryOK
    <2>2. 1 .. last = (1 .. r.asked) \cup (r.asked + 1 .. last)
      BY <1>4, <1>5
    <2>3. DOMAIN online = DOMAIN r.online \cup ToSet(batch)
      OBVIOUS
    <2> QED
      BY <1>6, <2>1, <2>2, <2>3
  <1>12. DOMAIN r.online \cap ToSet(batch) = {}
    <2> SUFFICES ASSUME NEW p \in DOMAIN r.online, p \in ToSet(batch) PROVE FALSE
      OBVIOUS
    <2>1. PICK j \in 1 .. r.asked : p = r.ids[j]
      BY <1>2 DEF QueryOK
    <2>2. PICK k \in r.asked + 1 .. last : p = r.ids[k]
      BY <1>6
    <2>3. j \in DOMAIN r.ids /\ k \in DOMAIN r.ids /\ j # k
      BY <1>4, <1>5
    <2> QED
      BY <1>2, <2>1, <2>2, <2>3 DEF QueryOK
  <1>13. r.present \cup present = {p \in DOMAIN online : online[p]}
    <2>1. r.present = {p \in DOMAIN r.online : r.online[p]}
      BY <1>2 DEF QueryOK
    <2> QED
      BY <1>12, <2>1
  <1>14. /\ s.ids = r.ids /\ s.asked = last /\ s.online = online /\ s.present = r.present \cup present
         /\ s.touched = r.touched /\ s.loaded = r.loaded
    OBVIOUS
  <1> HIDE DEF s, online
  <1>15. QueryOK(s, device)
    BY <1>2, <1>5, <1>10, <1>11, <1>13, <1>14 DEF QueryOK
  <1> QED
    BY <1>2, <1>8, <1>15

-----------------------------------------------------------------------------
(* What a step leaves of the tables                                         *)

\* Rows are records; writing one column leaves the others.
LEMMA RowFields ==
    ASSUME NEW row \in DeviceRows
    PROVE  /\ row = Row(row.peer, row.group, row.online) /\ row # NoDevice
           /\ row.peer \in Peers /\ row.group \in GroupIds \cup {Ungrouped} /\ row.online \in BOOLEAN
           /\ \A g : [row EXCEPT !.group = g] = Row(row.peer, g, row.online)
           /\ \A o : [row EXCEPT !.online = o] = Row(row.peer, row.group, o)
  BY MarksAssumption DEF DeviceRows, Row

LEMMA RowMade ==
    ASSUME NEW p \in Peers, NEW g \in GroupIds \cup {Ungrouped}, NEW o \in BOOLEAN
    PROVE  Row(p, g, o) \in DeviceRows /\ Row(p, g, o) # NoDevice
           /\ Loaded(Row(p, g, o)) = [peer |-> p, online |-> o]
  <1>1. Row(p, g, o) \in DeviceRows
    BY DEF DeviceRows, Row
  <1> QED
    BY <1>1, MarksAssumption DEF Loaded, Row

LEMMA ExistingRow ==
    ASSUME DevicesInv, NEW d \in Existing
    PROVE  device[d] \in DeviceRows /\ d \in DeviceIds
  BY DEF DevicesInv, Existing

LEMMA NothingWritten ==
    ASSUME DevicesInv, device' = device
    PROVE  DevicesInv' /\ SameBut({})
  BY DEF DevicesInv, Existing, SameBut

\* Some rows are written, at most one of them where there was none.
LEMMA RowsWritten ==
    ASSUME DevicesInv, NEW d, NEW ids \in SUBSET (Existing \cup {d}),
           device' = [e \in DeviceIds |-> device'[e]],
           \A e \in ids \cap DeviceIds : device'[e] \in DeviceRows \cup {NoDevice},
           \A e \in DeviceIds \ ids : device'[e] = device[e]
    PROVE  DevicesInv' /\ SameBut(ids)
  <1>1. device' \in [DeviceIds -> DeviceRows \cup {NoDevice}]
    BY DEF DevicesInv
  <1>2. Existing' \in SUBSET (Existing \cup {d})
    BY DEF Existing
  <1>3. IsFiniteSet(Existing \cup {d})
    BY FS_AddElement DEF DevicesInv
  <1>4. IsFiniteSet(Existing')
    BY <1>2, <1>3, FS_Subset
  <1> QED
    BY <1>1, <1>4 DEF DevicesInv, SameBut

LEMMA RowWrittenAt ==
    ASSUME DevicesInv, NEW d \in DeviceIds, NEW row \in DeviceRows \cup {NoDevice},
           device' = [device EXCEPT ![d] = row]
    PROVE  DevicesInv' /\ SameBut({d})
  <1>1. /\ device' = [e \in DeviceIds |-> device'[e]] /\ device'[d] = row
        /\ \A e \in DeviceIds \ {d} : device'[e] = device[e]
    BY DEF DevicesInv
  <1>2. {d} \in SUBSET (Existing \cup {d})
    OBVIOUS
  <1>3. \A e \in {d} \cap DeviceIds : device'[e] \in DeviceRows \cup {NoDevice}
    BY <1>1
  <1> QED
    BY <1>1, <1>2, <1>3, RowsWritten

\* A group gets a name that no other has.
LEMMA GroupWritten ==
    ASSUME GroupsInv, NEW g \in GroupIds, NEW n \in GroupNames, Named(n) \subseteq {g},
           group' = [group EXCEPT ![g] = n]
    PROVE  GroupsInv' /\ Groups' = Groups \cup {g}
  <1>1. group' \in [GroupIds -> GroupNames \cup {NoGroup}]
    BY DEF GroupsInv
  <1>2. group'[g] = n /\ \A h \in GroupIds \ {g} : group'[h] = group[h]
    BY DEF GroupsInv
  <1>3. Groups' = Groups \cup {g}
    BY <1>2, DevicesAssumption DEF Groups
  <1>4. \A h \in Groups \ {g} : group[h] # n
    BY DEF Named
  <1>5. ASSUME NEW h \in Groups', NEW i \in Groups', group'[i] = group'[h] PROVE i = h
    <2>1. \A x, y \in Groups : group[x] = group[y] => x = y
      BY DEF GroupsInv, Named
    <2> QED
      BY <1>2, <1>3, <1>4, <1>5, <2>1 DEF Groups
  <1>6. \A h \in Groups' : {i \in Groups' : group'[i] = group'[h]} = {h}
    BY <1>5
  <1> QED
    BY <1>1, <1>3, <1>6 DEF GroupsInv, Named

\* A get-or-create finds the only group of that name or makes it.
LEMMA GroupGot ==
    ASSUME GroupsInv, NEW n \in GroupNames, GetOrCreate(n)
    PROVE  GroupsInv' /\ GroupFor(n) \in GroupIds
  <1>1. GroupFor(n) \in GroupIds /\ group' = [group EXCEPT ![GroupFor(n)] = n]
    BY DEF GetOrCreate
  <1>2. Named(n) \subseteq {GroupFor(n)}
    <2>1. CASE Named(n) = {}
      BY <2>1
    <2>2. CASE Named(n) # {}
      <3>1. GroupFor(n) \in Named(n)
        BY <2>2 DEF GroupFor
      <3> QED
        BY <3>1 DEF GroupsInv, Named
    <2> QED
      BY <2>1, <2>2
  <1> QED
    BY <1>1, <1>2, GroupWritten

LEMMA GroupsKept ==
    ASSUME GroupsInv, group' = group
    PROVE  GroupsInv'
  BY DEF GroupsInv, Groups, Named

\* Form, blocklist, interval and the count of requests, which no proof step is about.
LEMMA RestKept ==
    ASSUME RestInv, form' \in {form, NoForm} \/ form'.group \in GroupIds \cup {Ungrouped},
           blocked' = blocked \/ \E p \in Peers : blocked' \subseteq blocked \cup {p},
           due' = due \/ Recorded, requests' = requests \/ Request
    PROVE  RestInv'
  <1>1. form' # NoForm => form'.group \in GroupIds \cup {Ungrouped}
    BY DEF RestInv
  <1>2. blocked' \subseteq Peers
    BY DEF RestInv
  <1>3. due' \in BOOLEAN
    BY DEF RestInv, Recorded
  <1>4. requests' \in 0 .. MaxRequests
    BY DevicesAssumption DEF RestInv, Request
  <1> QED
    BY <1>1, <1>2, <1>3, <1>4 DEF RestInv

-----------------------------------------------------------------------------
(* Every step keeps StatusInv                                               *)

LEMMA DeviceRequestKeepsStatus ==
    ASSUME StatusInv, DeviceRequest
    PROVE  StatusInv'
  <1> USE DEF StatusInv
  <1>1. ASSUME NEW d, NEW g \in GroupIds \cup {Ungrouped}, OpenForm(d, g)
        PROVE  StatusInv'
    <2>1. DevicesInv' /\ QueriesInv'
      BY <1>1, NothingWritten, OthersKeepQueries DEF OpenForm
    <2>2. form'.group = g
      BY <1>1 DEF OpenForm
    <2> QED
      BY <1>1, <2>1, <2>2, GroupsKept, RestKept DEF OpenForm
  <1>2. ASSUME NEW p \in Peers, NEW o \in BOOLEAN, SubmitForm(p, o)
        PROVE  StatusInv'
    <2> DEFINE d == IF form.device = 0 THEN NextAfter(Existing) ELSE form.device
    <2>1. DevicesInv' /\ QueriesInv'
      <3>1. CASE device' = device /\ query' = query
        BY <3>1, NothingWritten, OthersKeepQueries
      <3>2. CASE d \in DeviceIds /\ device' = [device EXCEPT ![d] = Row(p, form.group, o)] /\ Touch({d})
        <4>1. form.group \in GroupIds \cup {Ungrouped}
          BY <1>2 DEF SubmitForm, RestInv
        <4>2. Row(p, form.group, o) \in DeviceRows
          BY <4>1, RowMade
        <4> HIDE DEF d
        <4> QED
          BY <3>2, <4>2, RowWrittenAt, TouchKeepsQueries
      <3> QED
        BY <1>2, <3>1, <3>2 DEF SubmitForm
    <2> HIDE DEF d
    <2> QED
      BY <1>2, <2>1, GroupsKept, RestKept DEF SubmitForm
  <1>3. ASSUME NEW d \in DeviceIds, DeleteDevice(d)
        PROVE  StatusInv'
    <2>1. DevicesInv' /\ QueriesInv'
      BY <1>3, RowWrittenAt, TouchKeepsQueries DEF DeleteDevice
    <2>2. device[d].peer \in Peers
      BY <1>3, ExistingRow, RowFields DEF DeleteDevice
    <2> QED
      BY <1>3, <2>1, <2>2, GroupsKept, RestKept DEF DeleteDevice, Block
  <1>4. ASSUME NEW d \in DeviceIds, ToggleOnline(d)
        PROVE  StatusInv'
    <2> DEFINE row == device[d]
    <2>1. row \in DeviceRows /\ device' = [device EXCEPT ![d] = [row EXCEPT !.online = ~row.online]]
      BY <1>4, ExistingRow DEF ToggleOnline
    <2>2. [row EXCEPT !.online = ~row.online] = Row(row.peer, row.group, ~row.online)
      BY <2>1, RowFields
    <2>3. (~row.online) \in BOOLEAN
      OBVIOUS
    <2>4. Row(row.peer, row.group, ~row.online) \in DeviceRows
      BY <2>1, <2>3, RowFields, RowMade
    <2>5. DevicesInv' /\ QueriesInv'
      BY <1>4, <2>1, <2>2, <2>4, RowWrittenAt, TouchKeepsQueries DEF ToggleOnline
    <2> QED
      BY <1>4, <2>5, GroupsKept, RestKept DEF ToggleOnline
  <1> QED
    BY <1>1, <1>2, <1>3, <1>4 DEF DeviceRequest

LEMMA GroupRequestKeepsStatus ==
    ASSUME StatusInv, GroupRequest
    PROVE  StatusInv'
  <1> USE DEF StatusInv
  <1>1. ASSUME NEW n \in GroupNames, CreateGroup(n) PROVE StatusInv'
    <2>1. DevicesInv' /\ QueriesInv'
      BY <1>1, NothingWritten, OthersKeepQueries DEF CreateGroup
    <2>2. GroupsInv'
      BY <1>1, GroupWritten DEF CreateGroup
    <2> QED
      BY <1>1, <2>1, <2>2, RestKept DEF CreateGroup
  <1>2. ASSUME NEW n \in GroupNames, NEW g \in GroupIds, RenameGroup(g, n) PROVE StatusInv'
    <2>1. DevicesInv' /\ QueriesInv'
      BY <1>2, NothingWritten, OthersKeepQueries DEF RenameGroup
    <2>2. GroupsInv'
      BY <1>2, GroupWritten DEF RenameGroup
    <2> QED
      BY <1>2, <2>1, <2>2, RestKept DEF RenameGroup
  <1>3. ASSUME NEW g \in GroupIds, DeleteGroup(g) PROVE StatusInv'
    <2> DEFINE members == {d \in Existing : device[d].group = g}
    <2>1. device' = [d \in DeviceIds |-> IF d \in members THEN [device[d] EXCEPT !.group = Ungrouped]
                                         ELSE device[d]]
      BY <1>3 DEF DeleteGroup
    <2>2. ASSUME NEW d \in members
          PROVE  device'[d] \in DeviceRows /\ Loaded(device'[d]) = Loaded(device[d])
      <3>1. device[d] \in DeviceRows /\ device'[d] = [device[d] EXCEPT !.group = Ungrouped]
        BY <2>1, ExistingRow
      <3>2. /\ device[d].peer \in Peers /\ device[d].online \in BOOLEAN /\ device[d] # NoDevice
            /\ device'[d] = Row(device[d].peer, Ungrouped, device[d].online)
        BY <3>1, RowFields
      <3> QED
        BY <3>2, RowMade DEF Loaded
    <2>3. \A d \in DeviceIds \ members : device'[d] = device[d]
      BY <2>1
    <2>4. DevicesInv'
      BY <2>1, <2>2, <2>3, RowsWritten
    <2>5. SameBut({})
      BY <2>2, <2>3 DEF SameBut
    <2>6. QueriesInv'
      BY <1>3, <2>5, OthersKeepQueries DEF DeleteGroup
    <2>7. GroupsInv'
      BY <1>3, DevicesAssumption DEF DeleteGroup, GroupsInv, Groups, Named
    <2> QED
      BY <1>3, <2>4, <2>6, <2>7, RestKept DEF DeleteGroup
  <1> QED
    BY <1>1, <1>2, <1>3 DEF GroupRequest

LEMMA InsertKeepsStatus ==
    ASSUME DevicesInv, QueriesInv, NEW p \in Peers, NEW g \in GroupIds \cup {Ungrouped}, NEW o \in BOOLEAN,
           Insert(p, g, o)
    PROVE  DevicesInv' /\ QueriesInv'
  <1>1. Row(p, g, o) \in DeviceRows
    BY RowMade
  <1> DEFINE d == NextAfter(Existing)
  <1>2. d \in DeviceIds /\ device' = [device EXCEPT ![d] = Row(p, g, o)] /\ Touch({d})
    BY DEF Insert
  <1> HIDE DEF d
  <1> QED
    BY <1>1, <1>2, RowWrittenAt, TouchKeepsQueries

LEMMA UpdateKeepsStatus ==
    ASSUME DevicesInv, QueriesInv, NEW p, NEW g \in GroupIds, UpdateFrom(p, g)
    PROVE  DevicesInv' /\ QueriesInv'
  <1>1. PICK d \in Existing :
            /\ device' = [device EXCEPT ![d].group = IF @ \in Groups THEN @ ELSE g]
            /\ Touch({d})
    BY DEF UpdateFrom
  <1> DEFINE row == device[d]
             h == IF row.group \in Groups THEN row.group ELSE g
  <1>2. row \in DeviceRows /\ d \in DeviceIds
    BY ExistingRow
  <1>3. h \in GroupIds \cup {Ungrouped}
    BY <1>2, RowFields
  <1>4. device' = [device EXCEPT ![d] = [row EXCEPT !.group = h]]
    BY <1>1
  <1> HIDE DEF row, h
  <1>5. [row EXCEPT !.group = h] \in DeviceRows
    <2>1. [row EXCEPT !.group = h] = Row(row.peer, h, row.online)
      BY <1>2, RowFields
    <2> QED
      BY <1>2, <1>3, <2>1, RowFields, RowMade
  <1> QED
    BY <1>1, <1>2, <1>4, <1>5, RowWrittenAt, TouchKeepsQueries

LEMMA ImportRequestKeepsStatus ==
    ASSUME StatusInv, ImportRequest
    PROVE  StatusInv'
  <1> USE DEF StatusInv
  <1> PICK p \in Peers :
          \/ BlockPeer(p) \/ ReleasePeer(p)
          \/ \E n \in GroupNames \cup {NoGroup}, online \in BOOLEAN : ImportCsv(p, n, online)
          \/ \E n \in GroupNames, update \in BOOLEAN : ImportPeer(p, n, update)
    BY DEF ImportRequest, ImportUploaded, ImportFetched, ImportMounted, FormGroupNames
  <1>1. CASE BlockPeer(p) \/ ReleasePeer(p)
    <2>1. DevicesInv' /\ QueriesInv' /\ GroupsInv'
      BY <1>1, NothingWritten, OthersKeepQueries, GroupsKept DEF BlockPeer, ReleasePeer
    <2> QED
      BY <1>1, <2>1, RestKept DEF BlockPeer, ReleasePeer, Block
  <1>2. ASSUME NEW n \in GroupNames \cup {NoGroup}, NEW o \in BOOLEAN, ImportCsv(p, n, o)
        PROVE  StatusInv'
    <2>1. CASE p \in blocked
      BY <1>2, <2>1, NothingWritten, OthersKeepQueries, GroupsKept, RestKept DEF ImportCsv
    <2>2. CASE p \notin blocked /\ n = NoGroup
      BY <1>2, <2>2, InsertKeepsStatus, GroupsKept, RestKept DEF ImportCsv
    <2>3. CASE p \notin blocked /\ n \in GroupNames
      <3>1. GetOrCreate(n) /\ Insert(p, GroupFor(n), o)
        BY <1>2, <2>3, DevicesAssumption DEF ImportCsv
      <3> QED
        BY <1>2, <2>3, <3>1, GroupGot, InsertKeepsStatus, RestKept DEF ImportCsv
    <2> QED
      BY <2>1, <2>2, <2>3
  <1>3. ASSUME NEW n \in GroupNames, NEW u \in BOOLEAN, ImportPeer(p, n, u)
        PROVE  StatusInv'
    <2>1. GroupsInv' /\ GroupFor(n) \in GroupIds
      BY <1>3, GroupGot DEF ImportPeer
    <2>2. \/ device' = device /\ query' = query
          \/ Insert(p, GroupFor(n), FALSE) \/ UpdateFrom(p, GroupFor(n))
      BY <1>3 DEF ImportPeer
    <2>3. DevicesInv' /\ QueriesInv'
      BY <2>1, <2>2, NothingWritten, OthersKeepQueries, InsertKeepsStatus, UpdateKeepsStatus
    <2> QED
      BY <1>3, <2>1, <2>3, RestKept DEF ImportPeer
  <1> QED
    BY <1>1, <1>2, <1>3

\* What a commit writes, and what it leaves of a device.
LEMMA CommitWrites ==
    ASSUME DevicesInv, NEW r, QueryOK(r, device), r.asked = Len(r.ids), NEW d \in Changed(r) \cap Existing
    PROVE  /\ Written(r, d) = Row(device[d].peer, device[d].group, r.online[r.loaded[d].peer])
           /\ Written(r, d) \in DeviceRows
  <1> DEFINE o == r.online[r.loaded[d].peer]
  <1>1. device[d] \in DeviceRows
    BY ExistingRow
  <1>2. o \in BOOLEAN
    <2>1. r.online \in [DOMAIN r.online -> BOOLEAN] /\ r.loaded[d].peer \in DOMAIN r.online
      BY QueryFields DEF QueryOK, Changed
    <2> QED
      BY <2>1
  <1>3. Written(r, d) = Row(device[d].peer, device[d].group, o)
    BY <1>1, RowFields DEF Written
  <1> HIDE DEF o
  <1>4. Row(device[d].peer, device[d].group, o) \in DeviceRows
    BY <1>1, <1>2, RowFields, RowMade
  <1> QED
    BY <1>3, <1>4 DEF o

LEMMA LiveStatusKeepsStatus ==
    ASSUME StatusInv, LiveStatus
    PROVE  StatusInv'
  <1> USE DEF StatusInv
  <1> PICK q \in Queries : BeginQuery(q) \/ HbbsAnswers(q) \/ HbbsFails(q) \/ CommitQuery(q)
    BY DEF LiveStatus, AutoCheck
  <1>1. query = [p \in Queries |-> query[p]]
    BY DEF QueriesInv
  <1>2. ASSUME device' = device, query' = [p \in Queries |-> query'[p]],
               \A p \in Queries \ {q} : query'[p] = query[p],
               query'[q] = Idle \/ QueryOK(query'[q], device')
        PROVE  DevicesInv' /\ QueriesInv'
    BY <1>2, NothingWritten DEF QueriesInv
  <1>3. CASE BeginQuery(q)
    <2>1. DevicesInv' /\ QueriesInv'
      <3>1. CASE query' = query
        BY <1>3, <3>1, NothingWritten, OthersKeepQueries DEF BeginQuery
      <3>2. CASE Existing # {}
        <4>1. query' = [p \in Queries |-> query'[p]]
          BY <1>1, <1>3, <3>2 DEF BeginQuery
        <4> QED
          BY <1>2, <1>3, <3>2, <4>1, StartedOK DEF BeginQuery
      <3> QED
        BY <1>3, <3>1, <3>2 DEF BeginQuery
    <2>2. due' = due \/ Recorded
      BY <1>3 DEF BeginQuery
    <2> QED
      BY <1>3, <2>1, <2>2, GroupsKept, RestKept DEF BeginQuery
  <1>4. CASE HbbsAnswers(q)
    <2>1. query' = [p \in Queries |-> query'[p]]
      BY <1>1, <1>4 DEF HbbsAnswers
    <2> QED
      BY <1>2, <1>4, <2>1, AnsweredOK, GroupsKept, RestKept DEF HbbsAnswers
  <1>5. CASE HbbsFails(q)
    <2>1. query' = [query EXCEPT ![q] = Idle]
      BY <1>5 DEF HbbsFails
    <2>2. /\ query' = [p \in Queries |-> query'[p]] /\ query'[q] = Idle
          /\ \A p \in Queries \ {q} : query'[p] = query[p]
      BY <1>1, <2>1
    <2> QED
      BY <1>2, <1>5, <2>2, GroupsKept, RestKept DEF HbbsFails
  <1>6. CASE CommitQuery(q)
    <2> DEFINE r == query[q]
               ids == Changed(r)
    <2>1. QueryOK(r, device) /\ r.asked = Len(r.ids)
      BY <1>6 DEF CommitQuery, Complete, QueriesInv
    <2>2. CASE ids \subseteq Existing
      <3>1. /\ device' = [d \in DeviceIds |-> IF d \in ids THEN Written(r, d) ELSE device[d]]
            /\ query' = [p \in Queries |-> IF p = q \/ query[p] = Idle THEN Idle
                                           ELSE [query[p] EXCEPT !.touched = @ \cup ids]]
        BY <1>6, <2>2 DEF CommitQuery
      <3>2. ids \in SUBSET DeviceIds
        BY DEF Changed
      <3> HIDE DEF ids
      <3>3. \A d \in ids : device'[d] \in DeviceRows
        BY <2>1, <2>2, <3>1, <3>2, CommitWrites DEF ids
      <3>4. DevicesInv' /\ SameBut(ids)
        <4>1. \A d \in DeviceIds \ ids : device'[d] = device[d]
          BY <3>1
        <4> QED
          BY <2>2, <3>1, <3>3, <4>1, RowsWritten
      <3>5. ASSUME NEW p \in Queries, query'[p] # Idle PROVE QueryOK(query'[p], device')
        <4>1. query[p] # Idle /\ query'[p] = [query[p] EXCEPT !.touched = @ \cup ids]
          BY <3>1, <3>5
        <4>2. QueryOK(query[p], device)
          BY <4>1 DEF QueriesInv
        <4> QED
          BY <3>2, <3>4, <4>1, <4>2, TouchedOK DEF SameBut
      <3>6. QueriesInv'
        BY <3>1, <3>5 DEF QueriesInv
      <3>7. due' = due \/ Recorded
        BY <1>6 DEF CommitQuery
      <3> QED
        BY <1>6, <3>4, <3>6, <3>7, GroupsKept, RestKept DEF CommitQuery
    <2>3. CASE ~(ids \subseteq Existing)
      <3>1. query' = [query EXCEPT ![q] = Idle] /\ device' = device /\ due' = due
        BY <1>6, <2>3 DEF CommitQuery
      <3>2. /\ query' = [p \in Queries |-> query'[p]] /\ query'[q] = Idle
            /\ \A p \in Queries \ {q} : query'[p] = query[p]
        BY <1>1, <3>1
      <3> QED
        BY <1>2, <1>6, <3>1, <3>2, GroupsKept, RestKept DEF CommitQuery
    <2> QED
      BY <2>2, <2>3
  <1> QED
    BY <1>3, <1>4, <1>5, <1>6

LEMMA StatusInit == Init => StatusInv
  <1> SUFFICES ASSUME Init PROVE StatusInv
    OBVIOUS
  <1>1. PICK n \in GroupNames \cup {NoGroup} : group = [g \in GroupIds |-> IF g = 1 THEN n ELSE NoGroup]
    BY Zenon DEF Init
  <1>2. GroupsInv
    BY <1>1 DEF GroupsInv, Groups, Named
  <1>3. PICK k \in 0 .. 3 : \E row \in [1 .. k -> Rows] :
            device = [d \in DeviceIds |-> IF d <= k THEN row[d] ELSE NoDevice]
    BY Zenon DEF Init
  <1>4. PICK row \in [1 .. k -> Rows] :
            device = [d \in DeviceIds |-> IF d <= k THEN row[d] ELSE NoDevice]
    BY <1>3
  <1>5. Rows \subseteq DeviceRows
    <2> SUFFICES ASSUME NEW p \in Peers, NEW o \in BOOLEAN, NEW g \in Groups \cup {Ungrouped}
                 PROVE  Row(p, g, o) \in DeviceRows
      BY DEF Rows
    <2> QED
      BY RowMade DEF Groups
  <1>6. ASSUME NEW d \in DeviceIds
        PROVE  device[d] \in DeviceRows \cup {NoDevice} /\ (device[d] # NoDevice => d \in 1 .. k)
    <2>1. d \in Nat \ {0}
      BY DevicesAssumption
    <2>2. CASE d <= k
      BY <1>4, <1>5, <2>1, <2>2
    <2>3. CASE ~(d <= k)
      BY <1>4, <2>3
    <2> QED
      BY <2>2, <2>3, <2>1
  <1>7. DevicesInv
    <2>1. Existing \in SUBSET (1 .. k)
      BY <1>6 DEF Existing
    <2>2. IsFiniteSet(1 .. k)
      BY FS_Interval
    <2>3. IsFiniteSet(Existing)
      BY <2>1, <2>2, FS_Subset
    <2> QED
      BY <1>4, <1>6, <2>3 DEF DevicesInv
  <1>8. RestInv /\ QueriesInv
    BY DevicesAssumption DEF Init, RestInv, QueriesInv
  <1> QED
    BY <1>2, <1>7, <1>8 DEF StatusInv

LEMMA StatusStep == StatusInv /\ [Next]_vars => StatusInv'
  <1> SUFFICES ASSUME StatusInv, [Next]_vars PROVE StatusInv'
    OBVIOUS
  <1>1. CASE UNCHANGED vars \/ IntervalPasses
    <2>1. /\ device' = device /\ query' = query /\ group' = group /\ form' = form /\ blocked' = blocked
          /\ requests' = requests /\ (due' = due \/ due' = TRUE)
      BY <1>1 DEF vars, IntervalPasses
    <2>2. RestInv'
      BY <2>1 DEF StatusInv, RestInv
    <2> QED
      BY <2>1, <2>2, NothingWritten, OthersKeepQueries, GroupsKept DEF StatusInv
  <1> QED
    BY <1>1, DeviceRequestKeepsStatus, GroupRequestKeepsStatus, ImportRequestKeepsStatus,
       LiveStatusKeepsStatus DEF Next

\* Tables and queries keep their types, no two groups get one name, and a query asks for
\* no id twice (lines 3897-3905, 5101-5113).
THEOREM DevicesTypeCorrect == Spec => []DevicesTypeOK
  <1>1. StatusInv => DevicesTypeOK
    <2> SUFFICES ASSUME StatusInv PROVE DevicesTypeOK
      OBVIOUS
    <2>1. ASSUME NEW q \in Queries, query[q] # Idle
          PROVE  /\ query[q] \in LiveQueries /\ query[q].asked \in 0 .. Len(query[q].ids)
                 /\ \A j, k \in DOMAIN query[q].ids : query[q].ids[j] = query[q].ids[k] => j = k
      <3>1. QueryOK(query[q], device)
        BY <2>1 DEF StatusInv, QueriesInv
      <3>2. query[q].ids \in Seq(Peers) /\ query[q].asked \in Nat
        BY <3>1, QueryFields DEF QueryOK
      <3> QED
        BY <3>1, <3>2 DEF QueryOK
    <2>2. query \in [Queries -> LiveQueries \cup {Idle}]
      BY <2>1 DEF StatusInv, QueriesInv
    <2> QED
      BY <2>1, <2>2 DEF StatusInv, DevicesInv, GroupsInv, RestInv, DevicesTypeOK, Groups
  <1> QED
    BY <1>1, StatusInit, StatusStep, PTL DEF Spec

\* Only a query that fails or commits becomes idle.
LEMMA OnlyTheseEnd ==
    ASSUME StatusInv, Next, NEW q \in Queries, query[q] # Idle, query'[q] = Idle
    PROVE  HbbsFails(q) \/ CommitQuery(q)
  <1>1. QueryOK(query[q], device) /\ query = [p \in Queries |-> query[p]]
    BY DEF StatusInv, QueriesInv
  <1>2. ASSUME NEW ids \in SUBSET DeviceIds, Touch(ids) PROVE FALSE
    <2>1. query'[q] = [query[q] EXCEPT !.touched = @ \cup ids]
      BY <1>2 DEF Touch
    <2> QED
      BY <1>1, <2>1, TouchedOK
  <1>3. query' # query
    OBVIOUS
  <1>4. ~DeviceRequest
    <2>1. ASSUME NEW p, NEW o, SubmitForm(p, o) PROVE FALSE
      <3> DEFINE d == IF form.device = 0 THEN NextAfter(Existing) ELSE form.device
      <3>1. d \in DeviceIds /\ Touch({d})
        BY <1>3, <2>1 DEF SubmitForm
      <3> HIDE DEF d
      <3> QED
        BY <1>2, <3>1
    <2>2. ASSUME NEW d \in DeviceIds, DeleteDevice(d) \/ ToggleOnline(d) PROVE FALSE
      BY <1>2, <2>2 DEF DeleteDevice, ToggleOnline
    <2> QED
      BY <1>3, <2>1, <2>2 DEF DeviceRequest, OpenForm
  <1>5. ~GroupRequest
    BY <1>3 DEF GroupRequest, CreateGroup, RenameGroup, DeleteGroup
  <1>6. ~ImportRequest
    <2>1. ASSUME NEW p, NEW g, NEW o, Insert(p, g, o) PROVE FALSE
      <3> DEFINE d == NextAfter(Existing)
      <3>1. d \in DeviceIds /\ Touch({d})
        BY <2>1 DEF Insert
      <3> HIDE DEF d
      <3> QED
        BY <1>2, <3>1
    <2>2. ASSUME NEW p, NEW g, UpdateFrom(p, g) PROVE FALSE
      BY <1>2, <2>2 DEF UpdateFrom, Existing
    <2>3. ASSUME NEW p, NEW n, NEW o, ImportCsv(p, n, o) PROVE FALSE
      BY <1>3, <2>1, <2>3 DEF ImportCsv
    <2>4. ASSUME NEW p, NEW n, NEW u, ImportPeer(p, n, u) PROVE FALSE
      BY <1>3, <2>1, <2>2, <2>4 DEF ImportPeer
    <2> QED
      BY <1>3, <2>3, <2>4
         DEF ImportRequest, BlockPeer, ReleasePeer, ImportUploaded, ImportFetched, ImportMounted
  <1>7. ~IntervalPasses
    BY <1>3 DEF IntervalPasses
  <1>8. PICK p \in Queries : BeginQuery(p) \/ HbbsAnswers(p) \/ HbbsFails(p) \/ CommitQuery(p)
    BY <1>4, <1>5, <1>6, <1>7 DEF Next, LiveStatus, AutoCheck
  <1>9. ~BeginQuery(p)
    <2>1. ASSUME BeginQuery(p) PROVE p # q /\ query'[q] = query[q]
      BY <1>1, <1>3, <2>1 DEF BeginQuery
    <2> QED
      BY <2>1
  <1>10. ~HbbsAnswers(p)
    <2>1. ASSUME HbbsAnswers(p) PROVE FALSE
      <3>1. QueryOK(query'[p], device') /\ \A x \in Queries \ {p} : query'[x] = query[x]
        BY <2>1, AnsweredOK DEF StatusInv
      <3>2. p = q
        BY <3>1
      <3> QED
        BY <3>1, <3>2, MarksAssumption DEF QueryOK
    <2> QED
      BY <2>1
  <1>11. ASSUME p # q, HbbsFails(p) PROVE FALSE
    BY <1>1, <1>11 DEF HbbsFails
  <1>12. ASSUME p # q, CommitQuery(p) PROVE FALSE
    <2> DEFINE ids == Changed(query[p])
    <2>1. ids \in SUBSET DeviceIds
      BY DEF Changed
    <2>2. query'[q] = [query[q] EXCEPT !.touched = @ \cup ids] \/ query'[q] = query[q]
      BY <1>1, <1>12 DEF CommitQuery
    <2> HIDE DEF ids
    <2> QED
      BY <1>1, <2>1, <2>2, TouchedOK
  <1> QED
    BY <1>8, <1>9, <1>10, <1>11, <1>12

\* A commit gives every device that nobody touched meanwhile the state hbbs sent for its
\* id, in whichever batch, byte and bit, for any batch size, any number of devices and of
\* queries that run at once (lines 3892-3936, rustdesk_live.py 22-117).
THEOREM StatusFromHbbs == Spec => StatusIsWhatHbbsSaid
  <1> DEFINE Said == \A q \in Queries :
          query[q] # Idle /\ Complete(q) /\ query'[q] = Idle =>
              LET r == query[q]
                  loaded == {d \in DeviceIds : r.loaded[d] # NoDevice}
              IN  loaded \subseteq Existing =>
                      \A d \in loaded \ r.touched : device'[d].online = (device[d].peer \in r.present)
  <1>1. StatusInv /\ [Next]_vars => [Said]_vars
    <2> SUFFICES ASSUME StatusInv, Next, NEW q \in Queries, query[q] # Idle, Complete(q), query'[q] = Idle,
                        \A d \in DeviceIds : query[q].loaded[d] # NoDevice => d \in Existing,
                        NEW d \in DeviceIds, query[q].loaded[d] # NoDevice, d \notin query[q].touched
                 PROVE  device'[d].online = (device[d].peer \in query[q].present)
      OBVIOUS
    <2> DEFINE r == query[q]
    <2>1. CommitQuery(q)
      BY OnlyTheseEnd DEF HbbsFails
    <2>2. QueryOK(r, device) /\ r.asked = Len(r.ids)
      BY DEF StatusInv, QueriesInv, Complete
    <2>3. Changed(r) \subseteq Existing
      BY DEF Changed
    <2>4. device'[d] = IF d \in Changed(r) THEN Written(r, d) ELSE device[d]
      BY <2>1, <2>3 DEF CommitQuery
    <2> HIDE DEF r
    <2>5. r.loaded[d] = [peer |-> device[d].peer, online |-> device[d].online] /\ d \in Existing
      BY <2>2 DEF QueryOK, Loaded, Existing, r
    <2>6. device[d].peer \in DOMAIN r.online
      <3>1. r.ids \in Seq(Peers)
        BY <2>2, QueryFields DEF QueryOK
      <3>2. PICK k \in DOMAIN r.ids : r.loaded[d].peer = r.ids[k]
        BY <2>2 DEF QueryOK, r
      <3>3. k \in 1 .. r.asked
        BY <2>2, <3>1, <3>2
      <3> QED
        BY <2>2, <2>5, <3>2, <3>3 DEF QueryOK
    <2>7. r.online[device[d].peer] = (device[d].peer \in r.present)
      <3>1. r.online \in [DOMAIN r.online -> BOOLEAN] /\ r.present = {p \in DOMAIN r.online : r.online[p]}
        BY <2>2, QueryFields DEF QueryOK
      <3>2. r.online[device[d].peer] \in BOOLEAN
        BY <2>6, <3>1
      <3> QED
        BY <2>6, <3>1, <3>2
    <2>8. device'[d].online = r.online[device[d].peer]
      <3>1. CASE d \in Changed(r)
        <4>1. device'[d] = Row(device[d].peer, device[d].group, r.online[device[d].peer])
          BY <2>2, <2>4, <2>5, <3>1, CommitWrites DEF StatusInv
        <4> QED
          BY <4>1 DEF Row
      <3>2. CASE d \notin Changed(r)
        BY <2>4, <2>5, <2>6, <3>2 DEF Changed, r
      <3> QED
        BY <3>1, <3>2
    <2> QED
      BY <2>7, <2>8 DEF r
  <1> QED
    BY <1>1, StatusInit, StatusStep, PTL DEF Spec, StatusIsWhatHbbsSaid

\* A live query that ends neither deletes nor revives a device, and leaves the id and
\* the group that an administrator may have changed while it ran (lines 3924-3936).
THEOREM EditsAreKept == Spec => EditsSurviveQueries
  <1> DEFINE Kept == \A q \in Queries :
          query[q] # Idle /\ query'[q] = Idle =>
              \A d \in DeviceIds :
                  /\ device'[d] = NoDevice <=> device[d] = NoDevice
                  /\ d \in Existing => /\ device'[d].peer = device[d].peer
                                       /\ device'[d].group = device[d].group
  <1>1. StatusInv /\ [Next]_vars => [Kept]_vars
    <2> SUFFICES ASSUME StatusInv, Next, NEW q \in Queries, query[q] # Idle, query'[q] = Idle,
                        NEW d \in DeviceIds
                 PROVE  /\ device'[d] = NoDevice <=> device[d] = NoDevice
                        /\ d \in Existing => /\ device'[d].peer = device[d].peer
                                             /\ device'[d].group = device[d].group
      OBVIOUS
    <2> DEFINE r == query[q]
    <2>1. CASE device'[d] = device[d]
      BY <2>1
    <2>2. CASE CommitQuery(q) /\ d \in Changed(r) /\ Changed(r) \subseteq Existing
      <3>1. device'[d] = Written(r, d)
        BY <2>2 DEF CommitQuery
      <3>2. QueryOK(r, device) /\ r.asked = Len(r.ids)
        BY <2>2 DEF StatusInv, QueriesInv, CommitQuery, Complete
      <3> HIDE DEF r
      <3>3. device'[d] = Row(device[d].peer, device[d].group, r.online[r.loaded[d].peer])
            /\ device'[d] \in DeviceRows /\ device[d] # NoDevice
        BY <2>2, <3>1, <3>2, CommitWrites DEF StatusInv, Existing
      <3> QED
        BY <3>3, MarksAssumption DEF Row
    <2>3. device'[d] = device[d] \/ (CommitQuery(q) /\ d \in Changed(r) /\ Changed(r) \subseteq Existing)
      BY OnlyTheseEnd DEF HbbsFails, CommitQuery
    <2> QED
      BY <2>1, <2>2, <2>3
  <1> QED
    BY <1>1, StatusInit, StatusStep, PTL DEF Spec, EditsSurviveQueries

-----------------------------------------------------------------------------
(* Which devices a step may put into another group, or into none that is    *)
(* there                                                                    *)

FiledRight(d) ==
    /\ Dangling(d)' /\ ~Dangling(d) => Saved(d) /\ form.group \notin Groups \cup {Ungrouped}
    /\ d \in Existing \cap Existing' /\ device[d].group \in Groups
       /\ device'[d].group # device[d].group => Saved(d) \/ device[d].group \notin Groups'

\* A set of numbers with an element has a last one, so the next id is a new one.
LEMMA LastExists ==
    ASSUME NEW S \in SUBSET Nat, IsFiniteSet(S), S # {}
    PROVE  \E d \in S : \A e \in S : e <= d
  <1> DEFINE n == Cardinality(S)
             d == Kth(S, n)
             low == {e \in S : e <= d}
  <1>1. n \in 1 .. n
    BY Places, FS_EmptySet
  <1>2. d \in S /\ Cardinality(low) = n
    BY <1>1, Places
  <1>3. low \in SUBSET S
    OBVIOUS
  <1>4. low = S
    <2> HIDE DEF d, low
    <2> QED
      BY <1>2, <1>3, FS_Subset
  <1> QED
    BY <1>2, <1>4

LEMMA NextIsNew ==
    ASSUME DevicesInv
    PROVE  NextAfter(Existing) \notin Existing
  <1>1. Existing \in SUBSET Nat
    BY DevicesAssumption DEF Existing
  <1>2. CASE Existing # {}
    <2>1. PICK d \in Existing : \A e \in Existing : e <= d
      BY <1>1, <1>2, LastExists DEF DevicesInv
    <2>2. \A e \in Existing : d >= e
      BY <1>1, <2>1
    <2>3. Max(Existing) \in Existing /\ \A e \in Existing : Max(Existing) >= e
      BY <2>2 DEF Max
    <2>4. NextAfter(Existing) = Max(Existing) + 1
      BY <1>2 DEF NextAfter
    <2>5. ASSUME NEW m \in Existing, \A e \in Existing : m >= e PROVE m + 1 \notin Existing
      BY <1>1, <2>5
    <2> QED
      BY <2>3, <2>4, <2>5
  <1> QED
    BY <1>2

\* No group goes, and the device is as it was, gone, in its group, or filed in a
\* group that exists after it was in none.
LEMMA StaysFiled ==
    ASSUME NEW d \in DeviceIds, Groups \subseteq Groups',
           \/ device'[d] \in {device[d], NoDevice}
           \/ d \in Existing /\ device'[d].group = device[d].group
           \/ /\ device'[d].group \in Groups' \cup {Ungrouped}
              /\ d \in Existing => device[d].group \notin Groups
    PROVE  FiledRight(d)
  BY DEF FiledRight, Dangling, Existing

LEMMA SameGroups ==
    ASSUME group' = group
    PROVE  Groups' = Groups
  BY DEF Groups

LEMMA DeviceRequestFiles ==
    ASSUME StatusInv, DeviceRequest, NEW d \in DeviceIds
    PROVE  FiledRight(d)
  <1>1. Groups' = Groups /\ device = [e \in DeviceIds |-> device[e]]
    BY SameGroups DEF DeviceRequest, OpenForm, SubmitForm, DeleteDevice, ToggleOnline,
       StatusInv, DevicesInv
  <1>2. ASSUME NEW p \in Peers, NEW o \in BOOLEAN, SubmitForm(p, o) PROVE FiledRight(d)
    <2> DEFINE x == IF form.device = 0 THEN NextAfter(Existing) ELSE form.device
    <2>1. device' = device \/ (x \in DeviceIds /\ device' = [device EXCEPT ![x] = Row(p, form.group, o)])
      BY <1>2 DEF SubmitForm
    <2>2. CASE device'[d] = device[d]
      BY <1>1, <2>2, StaysFiled
    <2>3. CASE d = x /\ device'[d] = Row(p, form.group, o)
      <3>1. Saved(d)
        BY <1>2, <2>3 DEF SubmitForm, Saved
      <3>2. device'[d].group = form.group
        BY <2>3 DEF Row
      <3> QED
        BY <1>1, <3>1, <3>2 DEF FiledRight, Dangling
    <2> HIDE DEF x
    <2> QED
      BY <1>1, <2>1, <2>2, <2>3
  <1>3. ASSUME NEW e \in DeviceIds, DeleteDevice(e) PROVE FiledRight(d)
    <2>1. device'[d] \in {device[d], NoDevice}
      BY <1>1, <1>3 DEF DeleteDevice
    <2> QED
      BY <1>1, <2>1, StaysFiled
  <1>4. ASSUME NEW e \in DeviceIds, ToggleOnline(e) PROVE FiledRight(d)
    <2>1. device'[d] = device[d] \/ (d = e /\ d \in Existing /\ device'[d] = [device[d] EXCEPT !.online = ~@])
      BY <1>1, <1>4 DEF ToggleOnline
    <2>2. d \in Existing => \A o : [device[d] EXCEPT !.online = o].group = device[d].group
      BY ExistingRow, RowFields DEF StatusInv, Row
    <2> QED
      BY <1>1, <2>1, <2>2, StaysFiled
  <1>5. CASE device' = device
    BY <1>1, <1>5, StaysFiled
  <1> QED
    BY <1>2, <1>3, <1>4, <1>5 DEF DeviceRequest, OpenForm

LEMMA GroupRequestFiles ==
    ASSUME StatusInv, GroupRequest, NEW d \in DeviceIds
    PROVE  FiledRight(d)
  <1>1. ASSUME NEW n \in GroupNames, NEW g \in GroupIds,
               group' = [group EXCEPT ![g] = n], device' = device
        PROVE  FiledRight(d)
    <2>1. Groups \subseteq Groups'
      BY <1>1, DevicesAssumption DEF StatusInv, GroupsInv, Groups
    <2> QED
      BY <1>1, <2>1, StaysFiled
  <1>2. ASSUME NEW n \in GroupNames, CreateGroup(n) PROVE FiledRight(d)
    BY <1>1, <1>2 DEF CreateGroup
  <1>3. ASSUME NEW n \in GroupNames, NEW g \in GroupIds, RenameGroup(g, n) PROVE FiledRight(d)
    BY <1>1, <1>3 DEF RenameGroup
  <1>4. ASSUME NEW g \in GroupIds, DeleteGroup(g) PROVE FiledRight(d)
    <2>1. Groups' = Groups \ {g}
      BY <1>4 DEF DeleteGroup, StatusInv, GroupsInv, Groups
    <2>2. CASE d \in Existing /\ device[d].group = g
      <3>1. device'[d] = [device[d] EXCEPT !.group = Ungrouped]
        BY <1>4, <2>2 DEF DeleteGroup
      <3>2. device'[d].group = Ungrouped
        BY <2>2, <3>1, ExistingRow, RowFields DEF StatusInv, Row
      <3> QED
        BY <2>1, <2>2, <3>2 DEF FiledRight, Dangling
    <2>3. CASE ~(d \in Existing /\ device[d].group = g)
      <3>1. device'[d] = device[d]
        BY <1>4, <2>3 DEF DeleteGroup
      <3> QED
        BY <2>1, <2>3, <3>1 DEF FiledRight, Dangling, Existing
    <2> QED
      BY <2>2, <2>3
  <1> QED
    BY <1>2, <1>3, <1>4 DEF GroupRequest

LEMMA InsertFiles ==
    ASSUME StatusInv, Groups \subseteq Groups', NEW p, NEW o, NEW g \in Groups' \cup {Ungrouped},
           Insert(p, g, o), NEW d \in DeviceIds
    PROVE  FiledRight(d)
  <1> DEFINE x == NextAfter(Existing)
  <1>1. x \notin Existing
    BY NextIsNew DEF StatusInv
  <1>2. device' = [device EXCEPT ![x] = Row(p, g, o)] /\ Row(p, g, o).group = g
    BY DEF Insert, Row
  <1> HIDE DEF x
  <1>3. device'[d] = device[d] \/ (d = x /\ device'[d].group = g)
    BY <1>2 DEF StatusInv, DevicesInv
  <1> QED
    BY <1>1, <1>3, StaysFiled

LEMMA UpdateFiles ==
    ASSUME StatusInv, Groups \subseteq Groups', NEW p, NEW g \in Groups',
           UpdateFrom(p, g), NEW d \in DeviceIds
    PROVE  FiledRight(d)
  <1>1. PICK e \in Existing :
            device' = [device EXCEPT ![e].group = IF @ \in Groups THEN @ ELSE g]
    BY DEF UpdateFrom
  <1> DEFINE h == IF device[e].group \in Groups THEN device[e].group ELSE g
  <1>2. d # e => device'[d] = device[d]
    BY <1>1 DEF StatusInv, DevicesInv
  <1>3. device'[e] = [device[e] EXCEPT !.group = h]
    BY <1>1 DEF StatusInv, DevicesInv, Existing
  <1>4. device'[e].group = h
    BY <1>3, ExistingRow, RowFields DEF StatusInv, Row
  <1> QED
    BY <1>2, <1>4, StaysFiled

LEMMA ImportRequestFiles ==
    ASSUME StatusInv, ImportRequest, NEW d \in DeviceIds
    PROVE  FiledRight(d)
  <1> PICK p \in Peers :
          \/ BlockPeer(p) \/ ReleasePeer(p)
          \/ \E n \in GroupNames \cup {NoGroup}, online \in BOOLEAN : ImportCsv(p, n, online)
          \/ \E n \in GroupNames, update \in BOOLEAN : ImportPeer(p, n, update)
    BY DEF ImportRequest, ImportUploaded, ImportFetched, ImportMounted, FormGroupNames
  <1>1. ASSUME UNCHANGED device, Groups \subseteq Groups' PROVE FiledRight(d)
    BY <1>1, StaysFiled
  <1>2. ASSUME NEW n \in GroupNames, GetOrCreate(n)
        PROVE  Groups \subseteq Groups' /\ GroupFor(n) \in Groups'
    <2>1. GroupFor(n) \in GroupIds /\ group' = [group EXCEPT ![GroupFor(n)] = n]
      BY <1>2 DEF GetOrCreate
    <2> QED
      BY <2>1, DevicesAssumption DEF StatusInv, GroupsInv, Groups
  <1>3. ASSUME NEW n \in GroupNames \cup {NoGroup}, NEW o \in BOOLEAN, ImportCsv(p, n, o)
        PROVE  FiledRight(d)
    <2>1. CASE p \in blocked
      BY <1>1, <1>3, <2>1, SameGroups DEF ImportCsv
    <2>2. CASE p \notin blocked /\ n = NoGroup
      <3>1. Insert(p, Ungrouped, o) /\ group' = group
        BY <1>3, <2>2 DEF ImportCsv
      <3> QED
        BY <3>1, SameGroups, InsertFiles
    <2>3. CASE p \notin blocked /\ n \in GroupNames
      <3>1. GetOrCreate(n) /\ Insert(p, GroupFor(n), o)
        BY <1>3, <2>3, DevicesAssumption DEF ImportCsv
      <3> QED
        BY <1>2, <2>3, <3>1, InsertFiles
    <2> QED
      BY <2>1, <2>2, <2>3
  <1>4. ASSUME NEW n \in GroupNames, NEW u \in BOOLEAN, ImportPeer(p, n, u)
        PROVE  FiledRight(d)
    <2>1. Groups \subseteq Groups' /\ GroupFor(n) \in Groups'
      BY <1>2, <1>4 DEF ImportPeer
    <2>2. device' = device \/ Insert(p, GroupFor(n), FALSE) \/ UpdateFrom(p, GroupFor(n))
      BY <1>4 DEF ImportPeer
    <2> QED
      BY <1>1, <2>1, <2>2, InsertFiles, UpdateFiles
  <1>5. CASE BlockPeer(p) \/ ReleasePeer(p)
    BY <1>1, <1>5, SameGroups DEF BlockPeer, ReleasePeer
  <1> QED
    BY <1>3, <1>4, <1>5

LEMMA LiveStatusFiles ==
    ASSUME StatusInv, LiveStatus, NEW d \in DeviceIds
    PROVE  FiledRight(d)
  <1> PICK q \in Queries :
          BeginQuery(q) \/ HbbsAnswers(q) \/ HbbsFails(q) \/ CommitQuery(q)
    BY DEF LiveStatus, AutoCheck
  <1>1. Groups' = Groups
    BY SameGroups DEF BeginQuery, HbbsAnswers, HbbsFails, CommitQuery
  <1>2. device'[d] = device[d] \/ (d \in Existing /\ device'[d] = Written(query[q], d))
    BY DEF BeginQuery, HbbsAnswers, HbbsFails, CommitQuery
  <1>3. d \in Existing => Written(query[q], d).group = device[d].group
    BY ExistingRow, RowFields DEF StatusInv, Written, Row
  <1> QED
    BY <1>1, <1>2, <1>3, StaysFiled

\* Deleting a group, imports and live queries never make a device refer to a group
\* that is gone, and no import or live query moves a device out of its group: only
\* a form does, and it leaves a reference to nothing only if its group was deleted
\* after it was opened (lines 2298-2312, 2314-2367, 3055-3119, 3892-3945, 4494).
THEOREM ReferencesAreKept == Spec => OnlyFormsMisfile
  <1> DEFINE Right == \A d \in DeviceIds : FiledRight(d)
  <1>1. StatusInv /\ [Next]_vars => [Right]_vars
    <2> SUFFICES ASSUME StatusInv, Next, NEW d \in DeviceIds PROVE FiledRight(d)
      OBVIOUS
    <2>1. CASE IntervalPasses
      BY <2>1, SameGroups, StaysFiled DEF IntervalPasses
    <2> QED
      BY <2>1, DeviceRequestFiles, GroupRequestFiles, ImportRequestFiles, LiveStatusFiles DEF Next
  <1> QED
    BY <1>1, StatusInit, StatusStep, PTL DEF Spec, OnlyFormsMisfile, FiledRight

-----------------------------------------------------------------------------
(* The last byte of a number and the rest of it.                            *)
LEMMA Divided ==
    ASSUME NEW x \in Nat, NEW m \in Nat, x < 256 * m
    PROVE  /\ x \div 256 \in Nat /\ x \div 256 < m
           /\ x % 256 \in 0..255
           /\ x = 256 * (x \div 256) + (x % 256)
  BY SMT

(* Division by 2^16 and 2^24 is division by 256, again and again.           *)
LEMMA DividedTwice ==
    ASSUME NEW x \in Nat
    PROVE  /\ x \div 65536 = (x \div 256) \div 256
           /\ x \div 16777216 = ((x \div 256) \div 256) \div 256
  BY SMT

LEMMA ByteIsItself ==
    ASSUME NEW x \in Nat, x < 256
    PROVE  x % 256 = x
  BY SMT

(* The bytes of numbers of two, three and four bytes add up to the number.  *)
LEMMA TwoBytes ==
    ASSUME NEW x \in Nat, x < 65536
    PROVE  x = (x % 256) + 256 * ((x \div 256) % 256)
<1>1. /\ x \div 256 \in Nat /\ x \div 256 < 256
      /\ x = 256 * (x \div 256) + (x % 256)
  BY 65536 = 256 * 256, Divided
<1>2. (x \div 256) % 256 = x \div 256
  BY <1>1, ByteIsItself
<1> QED BY <1>1, <1>2, SMT

LEMMA ThreeBytes ==
    ASSUME NEW x \in Nat, x < 16777216
    PROVE  x = (x % 256) + 256 * ((x \div 256) % 256) + 65536 * ((x \div 65536) % 256)
<1> DEFINE y == x \div 256
<1>1. y \in Nat /\ y < 65536 /\ x % 256 \in 0..255 /\ x = 256 * y + (x % 256)
  BY 16777216 = 256 * 65536, Divided
<1>2. y = (y % 256) + 256 * ((y \div 256) % 256)
  BY <1>1, TwoBytes
<1>3. x \div 65536 = y \div 256
  BY DividedTwice
<1>4. y % 256 \in Nat /\ (y \div 256) % 256 \in Nat
  BY <1>1, SMT
<1> HIDE DEF y
<1>5. x = (x % 256) + 256 * (y % 256) + 65536 * ((y \div 256) % 256)
  BY <1>1, <1>2, <1>4, SMT
<1> QED BY <1>5, <1>3 DEF y

LEMMA FourBytes ==
    ASSUME NEW x \in Nat, x < 4294967296
    PROVE  x = (x % 256) + 256 * ((x \div 256) % 256) + 65536 * ((x \div 65536) % 256)
                 + 16777216 * ((x \div 16777216) % 256)
<1> DEFINE y == x \div 256
<1>1. y \in Nat /\ y < 16777216 /\ x % 256 \in 0..255 /\ x = 256 * y + (x % 256)
  BY 4294967296 = 256 * 16777216, Divided
<1>2. y = (y % 256) + 256 * ((y \div 256) % 256) + 65536 * ((y \div 65536) % 256)
  BY <1>1, ThreeBytes
<1>3. /\ x \div 65536 = y \div 256
      /\ x \div 16777216 = y \div 65536
  BY <1>1, DividedTwice
<1>4. y % 256 \in Nat /\ (y \div 256) % 256 \in Nat /\ (y \div 65536) % 256 \in Nat
  BY <1>1, SMT
<1> HIDE DEF y
<1>5. x = (x % 256) + 256 * (y % 256) + 65536 * ((y \div 256) % 256)
            + 16777216 * ((y \div 65536) % 256)
  BY <1>1, <1>2, <1>4, SMT
<1> QED BY <1>5, <1>3 DEF y

-----------------------------------------------------------------------------
(* The header as a number: the length above two bits for its own size.      *)
Encoded(n) == 4 * n + HeaderSize(n) - 1

LEMMA Sizes ==
    ASSUME NEW n \in Nat, n <= MaxPayload
    PROVE  /\ Encoded(n) \in Nat
           /\ \/ HeaderSize(n) = 1 /\ Encoded(n) < 256
              \/ HeaderSize(n) = 2 /\ Encoded(n) < 65536
              \/ HeaderSize(n) = 3 /\ Encoded(n) < 16777216
              \/ HeaderSize(n) = 4 /\ Encoded(n) < 4294967296
<1>1. MaxPayload = 1073741823
  BY SMT DEF MaxPayload
<1> QED BY <1>1, SMT DEF Encoded, HeaderSize

LEMMA Unpacked ==
    ASSUME NEW n \in Nat, NEW k \in 1..4
    PROVE  /\ (4 * n + k - 1) \div 4 = n
           /\ (4 * n + k - 1) % 4 = k - 1
  BY SMT

LEMMA WeightIs == Weight[1] = 1 /\ Weight[2] = 256 /\ Weight[3] = 65536 /\ Weight[4] = 16777216
  BY DEF Weight

LEMMA HeaderBytes ==
    ASSUME NEW n \in Nat, HeaderSize(n) \in 1..4
    PROVE  /\ Len(Header(n)) = HeaderSize(n)
           /\ \A i \in 1..HeaderSize(n) : Header(n)[i] = (Encoded(n) \div Weight[i]) % 256
  BY DEF Header, Encoded

(* The first byte has the size in its two low bits.                         *)
LEMMA LowBits ==
    ASSUME NEW x \in Nat
    PROVE  /\ x \div 1 = x
           /\ (x % 256) % 4 = x % 4
  BY SMT

(* The header of a length, read low byte first, is the number it was made of. *)
LEMMA WholeHeader ==
    ASSUME NEW n \in Nat, n <= MaxPayload
    PROVE  /\ Len(Header(n)) = HeaderSize(n)
           /\ Header(n)[1] = Encoded(n) % 256
           /\ LittleEndian(Header(n)) = Encoded(n)
<1> DEFINE x == Encoded(n)
           k == HeaderSize(n)
           h == Header(n)
<1>1. x \in Nat /\ k \in 1..4 /\ x \div 1 = x
  BY Sizes, LowBits
<1>2. Len(h) = k /\ \A i \in 1..k : h[i] = (x \div Weight[i]) % 256
  BY <1>1, HeaderBytes
<1>3. /\ h[1] = x % 256
      /\ k > 1 => h[2] = (x \div 256) % 256
      /\ k > 2 => h[3] = (x \div 65536) % 256
      /\ k > 3 => h[4] = (x \div 16777216) % 256
  <2> HIDE DEF x, k, h
  <2> QED BY <1>1, <1>2, WeightIs
<1> SUFFICES LittleEndian(h) = x
  BY <1>2, <1>3
<1>4. CASE k = 1 /\ x < 256
  <2>1. h[1] = x
    BY <1>1, <1>3, <1>4, ByteIsItself
  <2> QED BY <1>1, <1>2, <1>4, <2>1 DEF LittleEndian
<1>5. CASE k = 2 /\ x < 65536
  <2>1. x = (x % 256) + 256 * ((x \div 256) % 256)
    BY <1>1, <1>5, TwoBytes
  <2>2. LittleEndian(h) = h[1] + 256 * h[2] + 0 + 0
    BY <1>2, <1>5 DEF LittleEndian
  <2>3. LittleEndian(h) = (x % 256) + 256 * ((x \div 256) % 256) + 0 + 0
    BY <2>2, <1>3, <1>5
  <2> HIDE DEF x, k, h
  <2> QED BY <1>1, <2>1, <2>3, SMT
<1>6. CASE k = 3 /\ x < 16777216
  <2>1. x = (x % 256) + 256 * ((x \div 256) % 256) + 65536 * ((x \div 65536) % 256)
    BY <1>1, <1>6, ThreeBytes
  <2>2. LittleEndian(h) = h[1] + 256 * h[2] + 65536 * h[3] + 0
    BY <1>2, <1>6 DEF LittleEndian
  <2>3. LittleEndian(h) =
            (x % 256) + 256 * ((x \div 256) % 256) + 65536 * ((x \div 65536) % 256) + 0
    BY <2>2, <1>3, <1>6
  <2> HIDE DEF x, k, h
  <2> QED BY <1>1, <2>1, <2>3, SMT
<1>7. CASE k = 4 /\ x < 4294967296
  <2>1. x = (x % 256) + 256 * ((x \div 256) % 256) + 65536 * ((x \div 65536) % 256)
              + 16777216 * ((x \div 16777216) % 256)
    BY <1>1, <1>7, FourBytes
  <2>2. LittleEndian(h) = h[1] + 256 * h[2] + 65536 * h[3] + 16777216 * h[4]
    BY <1>2, <1>7 DEF LittleEndian
  <2> QED BY <2>1, <2>2, <1>3, <1>7
<1> QED BY <1>4, <1>5, <1>6, <1>7, Sizes

(* Every length that the client can send is read back from its header, and  *)
(* the first byte says how many bytes the header has (_encode_frame,         *)
(* _read_frame): whoever reads frames as the client does finds the payload.  *)
THEOREM HeaderIsRead ==
    ASSUME NEW n \in Nat, n <= MaxPayload
    PROVE  /\ HeadLength(Header(n)[1]) = Len(Header(n))
           /\ PayloadLength(Header(n)) = n
<1>1. /\ Encoded(n) \in Nat /\ HeaderSize(n) \in 1..4
  BY Sizes
<1>2. /\ Encoded(n) \div 4 = n
      /\ Encoded(n) % 4 = HeaderSize(n) - 1
  BY <1>1, Unpacked DEF Encoded
<1>3. (Encoded(n) % 256) % 4 = HeaderSize(n) - 1
  BY <1>1, <1>2, LowBits
<1>4. HeadLength(Header(n)[1]) = Len(Header(n))
  <2>1. HeadLength(Header(n)[1]) = (HeaderSize(n) - 1) + 1
    BY <1>3, WholeHeader DEF HeadLength
  <2> QED BY <1>1, <2>1, WholeHeader
<1>5. PayloadLength(Header(n)) = n
  BY <1>2, WholeHeader DEF PayloadLength
<1> QED BY <1>4, <1>5
=============================================================================
