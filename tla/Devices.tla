------------------------------- MODULE Devices -------------------------------
(***************************************************************************)
(* Groups, devices, the import blocklist and the hbbs live status          *)
(* (app/__init__.py, app/rustdesk_live.py).  A request that only talks to  *)
(* SQLite is one action: its windows are milliseconds.  Two things take    *)
(* long and are several actions, with anything in between: a device form   *)
(* that is open in a browser, and a live query, which loads the devices,   *)
(* asks hbbs batch by batch and writes what changed at the end.            *)
(***************************************************************************)
EXTENDS SequencesExt

CONSTANTS
    DeviceIds, GroupIds,    \* ids SQLite may hand out: 1..n
    Peers,                  \* RustDesk ids, stripped and cut to 80 characters
    GroupNames,
    Queries,                \* requests that can run a live query
    BatchSize,              \* setting hbbs_batch_size
    NoDevice, NoGroup, NoForm, Idle,
    MaxRequests             \* bound: requests of administrators

ASSUME DevicesAssumption ==
    /\ DeviceIds \subseteq Nat \ {0} /\ GroupIds \subseteq Nat \ {0}
    /\ NoGroup \notin GroupNames
    /\ BatchSize \in Nat \ {0} /\ MaxRequests \in Nat

Ungrouped == 0
Row(peer, g, online) == [peer |-> peer, group |-> g, online |-> online]

DeviceRows == [peer : Peers, group : GroupIds \cup {Ungrouped}, online : BOOLEAN]
LiveQueries ==
    [ids : Seq(Peers), asked : Nat, online : UNION {[ps -> BOOLEAN] : ps \in SUBSET Peers},
     present : SUBSET Peers, touched : SUBSET DeviceIds,
     loaded : [DeviceIds -> [peer : Peers, online : BOOLEAN] \cup {NoDevice}]]

ASSUME MarksAssumption == NoDevice \notin DeviceRows /\ Idle \notin LiveQueries

VARIABLES
    device,         \* table devices: id -> row or NoDevice
    group,          \* table groups: id -> name or NoGroup
    blocked,        \* table import_blocklist
    form,           \* the device form open in a browser
    query,          \* live queries that are running
    due,            \* the last recorded check is at least an interval ago
    barred,         \* history: ids deleted or blocked and not released since
    requests        \* requests so far

vars == <<device, group, blocked, form, query, due, barred, requests>>

Existing == {d \in DeviceIds : device[d] # NoDevice}
Groups == {g \in GroupIds : group[g] # NoGroup}
Named(n) == {g \in Groups : group[g] = n}

\* No AUTOINCREMENT: the largest id plus one, so the newest id is used again.
NextAfter(ids) == IF ids = {} THEN 1 ELSE Max(ids) + 1

Request == requests < MaxRequests /\ requests' = requests + 1

\* History: somebody else changed these devices while a query is running.
Touch(ids) ==
    query' = [q \in Queries |-> IF query[q] = Idle THEN Idle
                                ELSE [query[q] EXCEPT !.touched = @ \cup ids]]

\* _add_import_blocklist_entry: one entry per id, renewed if it is there.
Block(p) == blocked' = blocked \cup {p} /\ barred' = barred \cup {p}

\* _record_status_check, after success and after failure.
Recorded == due' = FALSE

-----------------------------------------------------------------------------
(* Devices                                                                  *)

\* The form offers the groups there are when it is rendered.
OpenForm(d, g) ==
    /\ d \in Existing \cup {0} /\ g \in Groups \cup {Ungrouped}
    /\ form' = [device |-> d, group |-> g]
    /\ Request
    /\ UNCHANGED <<device, group, blocked, query, due, barred>>

\* _fill_device_from_form takes the group id of the form as it comes: the group
\* may have been deleted since, and its id may be another group's by now.
SubmitForm(peer, online) ==
    /\ form # NoForm
    /\ LET d == IF form.device = 0 THEN NextAfter(Existing) ELSE form.device IN
       IF form.device # 0 /\ form.device \notin Existing
       THEN UNCHANGED <<device, query>>                                    \* 404
       ELSE /\ d \in DeviceIds
            /\ device' = [device EXCEPT ![d] = Row(peer, form.group, online)]
            /\ Touch({d})
    /\ form' = NoForm
    /\ Request
    /\ UNCHANGED <<group, blocked, due, barred>>

\* Mutant of DeleteDevice: the id is not blocked while a duplicate is left.
DeleteBlockingLast(d) ==
    /\ d \in Existing
    /\ blocked' = blocked \cup ({device[d].peer} \ {device[e].peer : e \in Existing \ {d}})
    /\ barred' = barred \cup {device[d].peer}
    /\ device' = [device EXCEPT ![d] = NoDevice]
    /\ Touch({d})
    /\ Request
    /\ UNCHANGED <<group, form, due>>

DeleteDevice(d) ==
    /\ d \in Existing
    /\ Block(device[d].peer)
    /\ device' = [device EXCEPT ![d] = NoDevice]
    /\ Touch({d})
    /\ Request
    /\ UNCHANGED <<group, form, due>>

ToggleOnline(d) ==
    /\ d \in Existing
    /\ device' = [device EXCEPT ![d].online = ~@]
    /\ Touch({d})
    /\ Request
    /\ UNCHANGED <<group, blocked, form, due, barred>>

-----------------------------------------------------------------------------
(* Groups                                                                   *)

CreateGroup(n) ==
    /\ Named(n) = {} /\ NextAfter(Groups) \in GroupIds
    /\ group' = [group EXCEPT ![NextAfter(Groups)] = n]
    /\ Request
    /\ UNCHANGED <<device, blocked, form, query, due, barred>>

RenameGroup(g, n) ==
    /\ g \in Groups /\ Named(n) \subseteq {g}
    /\ group' = [group EXCEPT ![g] = n]
    /\ Request
    /\ UNCHANGED <<device, blocked, form, query, due, barred>>

\* Mutant of DeleteGroup: deleted by a statement that bypasses the ORM.
DeleteGroupOnly(g) ==
    /\ g \in Groups
    /\ group' = [group EXCEPT ![g] = NoGroup]
    /\ Request
    /\ UNCHANGED <<device, blocked, form, query, due, barred>>

DeleteGroup(g) ==
    /\ g \in Groups
    /\ LET members == {d \in Existing : device[d].group = g} IN
       device' = [d \in DeviceIds |-> IF d \in members
                                      THEN [device[d] EXCEPT !.group = Ungrouped] ELSE device[d]]
    /\ group' = [group EXCEPT ![g] = NoGroup]
    /\ Request
    /\ UNCHANGED <<blocked, form, query, due, barred>>

-----------------------------------------------------------------------------
(* Blocklist and imports.  Nothing comes between the rows of one import, so *)
(* a file with several rows is the sequence of its one-row imports.         *)

BlockPeer(p) ==
    /\ \A d \in Existing : device[d].peer # p
    /\ Block(p)
    /\ Request
    /\ UNCHANGED <<device, group, form, query, due>>

ReleasePeer(p) ==
    /\ p \in blocked
    /\ blocked' = blocked \ {p} /\ barred' = barred \ {p}
    /\ Request
    /\ UNCHANGED <<device, group, form, query, due>>

\* Mutant of GroupFor: a new group for every import.
GroupAnew(n) == NextAfter(Groups)
\* _get_or_create_group: the group of that name, or a new one.
GroupFor(n) == IF Named(n) # {} THEN CHOOSE g \in Named(n) : TRUE ELSE NextAfter(Groups)
GetOrCreate(n) == GroupFor(n) \in GroupIds /\ group' = [group EXCEPT ![GroupFor(n)] = n]

Insert(p, g, online) ==
    LET d == NextAfter(Existing) IN
    /\ d \in DeviceIds
    /\ device' = [device EXCEPT ![d] = Row(p, g, online)]
    /\ Touch({d})

\* A CSV row: there may be a device with that id already; n may be no group.
ImportCsv(p, n, online) ==
    /\ IF p \in blocked THEN UNCHANGED <<device, group, query>>
       ELSE IF n = NoGroup THEN Insert(p, Ungrouped, online) /\ UNCHANGED group
       ELSE GetOrCreate(n) /\ Insert(p, GroupFor(n), online)
    /\ Request
    /\ UNCHANGED <<blocked, form, due, barred>>

\* first() without an order: any device of that id.  A group that is gone loads
\* as None, and the device gets the group of the import.
UpdateFrom(p, g) == \E d \in Existing :
    /\ device[d].peer = p
    /\ device' = [device EXCEPT ![d].group = IF @ \in Groups THEN @ ELSE g]
    /\ Touch({d})

\* A peer of hbbs' database, uploaded, mounted or fetched.  The group is made
\* and committed even if the peer is blocked or skipped.
ImportPeer(p, n, update) ==
    /\ GetOrCreate(n)
    /\ IF p \in blocked THEN UNCHANGED <<device, query>>
       ELSE IF \A d \in Existing : device[d].peer # p THEN Insert(p, GroupFor(n), FALSE)
       ELSE IF update THEN UpdateFrom(p, GroupFor(n))
       ELSE UNCHANGED <<device, query>>
    /\ Request
    /\ UNCHANGED <<blocked, form, due, barred>>

\* _resolve_group_name_from_form: the name of a group there is, a new name or
\* the default.
FormGroupNames == GroupNames

ImportUploaded(p) == \E n \in FormGroupNames, update \in BOOLEAN : ImportPeer(p, n, update)
\* A copy fetched by SSH.  The name was resolved before: by now it may be no
\* group's any more, and a new group is made.
ImportFetched(p) == \E n \in FormGroupNames, update \in BOOLEAN : ImportPeer(p, n, update)
\* RUSTDESK_SERVER_DB
ImportMounted(p) == \E n \in FormGroupNames : ImportPeer(p, n, TRUE)

-----------------------------------------------------------------------------
(* hbbs: states has a bit per requested id, the highest bit of a byte first *)

Bits == 8

\* What hbbs answers; a byte is the set of its bits that are 1.
Answer(ids, present) ==
    [k \in 1 .. (Len(ids) + Bits - 1) \div Bits |->
        {b \in 0 .. Bits - 1 : LET i == (k - 1) * Bits + (Bits - 1 - b) IN
                               i < Len(ids) /\ ids[i + 1] \in present}]

\* query_hbbs_online_status: the ids whose bit is set; missing bytes are 0.
Decoded(ids, states) ==
    {ids[i + 1] : i \in {j \in 0 .. Len(ids) - 1 :
        j \div Bits < Len(states) /\ (Bits - 1) - (j % Bits) \in states[j \div Bits + 1]}}

\* The first device that has each id, and the k-th number of a set.
Firsts == {d \in Existing : \A e \in Existing : device[e].peer = device[d].peer => d <= e}
Kth(S, k) == CHOOSE d \in S : Cardinality({e \in S : e <= d}) = k

\* The ids in the order of the first device that has each of them.
Requested == [k \in 1 .. Cardinality(Firsts) |-> device[Kth(Firsts, k)].peer]

\* What the session holds of a device: the columns that the query reads.
Loaded(row) ==
    IF row = NoDevice THEN NoDevice ELSE [peer |-> row.peer, online |-> row.online]

\* Without any device the query fails and only the check is recorded.
BeginQuery(q) ==
    /\ query[q] = Idle
    /\ IF Existing = {} THEN Recorded /\ UNCHANGED query
       ELSE /\ query' = [query EXCEPT ![q] =
                   [ids |-> Requested, asked |-> 0, online |-> <<>>, present |-> {}, touched |-> {},
                    loaded |-> [d \in DeviceIds |-> Loaded(device[d])]]]
            /\ UNCHANGED due
    /\ Request
    /\ UNCHANGED <<device, group, blocked, form, barred>>

\* Mutant of Merged: the answer to the last batch replaces the others.
LastBatch(r, batch, states) == [p \in ToSet(batch) |-> p \in Decoded(batch, states)]
\* online_states: what the batches so far said of each id.
Merged(r, batch, states) ==
    [p \in DOMAIN r.online \cup ToSet(batch) |->
        IF p \in ToSet(batch) THEN p \in Decoded(batch, states) ELSE r.online[p]]

\* The browsers' timers ask for it; the check is skipped until it is due.
AutoCheck(q) == due /\ BeginQuery(q)

Complete(q) == query[q].asked = Len(query[q].ids)

HbbsAnswers(q) ==
    /\ query[q] # Idle /\ ~Complete(q)
    /\ LET r == query[q]
           last == Min({r.asked + BatchSize, Len(r.ids)})
           batch == SubSeq(r.ids, r.asked + 1, last)
       IN  \E present \in SUBSET ToSet(batch) :
              query' = [query EXCEPT ![q] =
                  [r EXCEPT !.asked = last, !.present = @ \cup present,
                            !.online = Merged(r, batch, Answer(batch, present))]]
    /\ UNCHANGED <<device, group, blocked, form, due, barred, requests>>

\* Time-out, refused, closed or malformed: nothing is written but the check.
HbbsFails(q) ==
    /\ query[q] # Idle /\ ~Complete(q)
    /\ query' = [query EXCEPT ![q] = Idle]
    /\ Recorded
    /\ UNCHANGED <<device, group, blocked, form, barred, requests>>

\* The devices as loaded that get another status.
Changed(r) == {d \in DeviceIds :
    /\ r.loaded[d] # NoDevice /\ r.loaded[d].peer \in DOMAIN r.online
    /\ r.loaded[d].online # r.online[r.loaded[d].peer]}

\* Mutant of Written: the whole row as it was loaded.
WrittenWhole(r, d) == [device[d] EXCEPT !.peer = r.loaded[d].peer,
                                        !.online = r.online[r.loaded[d].peer]]
\* UPDATE devices SET online: the other columns were not changed.
Written(r, d) == [device[d] EXCEPT !.online = r.online[r.loaded[d].peer]]

\* A device to be written that is gone makes the whole commit fail
\* (StaleDataError), and not even the check is recorded.
CommitQuery(q) ==
    /\ query[q] # Idle /\ Complete(q)
    /\ LET r == query[q]
           ids == Changed(r)
       IN  IF ids \subseteq Existing
           THEN /\ device' = [d \in DeviceIds |-> IF d \in ids THEN Written(r, d) ELSE device[d]]
                /\ Recorded
                /\ query' = [p \in Queries |->
                       IF p = q \/ query[p] = Idle THEN Idle
                       ELSE [query[p] EXCEPT !.touched = @ \cup ids]]
           ELSE query' = [query EXCEPT ![q] = Idle] /\ UNCHANGED <<device, due>>
    /\ UNCHANGED <<group, blocked, form, barred, requests>>

IntervalPasses ==
    /\ ~due /\ due' = TRUE
    /\ UNCHANGED <<device, group, blocked, form, query, barred, requests>>

-----------------------------------------------------------------------------
Rows == {Row(p, g, o) : p \in Peers, g \in Groups \cup {Ungrouped}, o \in BOOLEAN}

\* An address book with up to three devices of the first ids and one group.
Init ==
    /\ \E n \in GroupNames \cup {NoGroup} : group = [g \in GroupIds |-> IF g = 1 THEN n ELSE NoGroup]
    /\ \E k \in 0 .. 3 : \E row \in [1 .. k -> Rows] :
          /\ 1 .. k \subseteq DeviceIds
          /\ device = [d \in DeviceIds |-> IF d <= k THEN row[d] ELSE NoDevice]
    /\ blocked = {} /\ barred = {}
    /\ form = NoForm
    /\ query = [q \in Queries |-> Idle]
    /\ due = TRUE
    /\ requests = 0

DeviceRequest ==
    \/ \E d \in DeviceIds \cup {0}, g \in GroupIds \cup {Ungrouped} : OpenForm(d, g)
    \/ \E p \in Peers, online \in BOOLEAN : SubmitForm(p, online)
    \/ \E d \in DeviceIds : DeleteDevice(d) \/ ToggleOnline(d)

GroupRequest ==
    \/ \E n \in GroupNames : CreateGroup(n) \/ \E g \in GroupIds : RenameGroup(g, n)
    \/ \E g \in GroupIds : DeleteGroup(g)

ImportRequest == \E p \in Peers :
    \/ BlockPeer(p) \/ ReleasePeer(p)
    \/ \E n \in GroupNames \cup {NoGroup}, online \in BOOLEAN : ImportCsv(p, n, online)
    \/ ImportUploaded(p) \/ ImportFetched(p) \/ ImportMounted(p)

LiveStatus == \E q \in Queries :
    \/ BeginQuery(q) \/ AutoCheck(q)
    \/ HbbsAnswers(q) \/ HbbsFails(q) \/ CommitQuery(q)

Next == DeviceRequest \/ GroupRequest \/ ImportRequest \/ LiveStatus \/ IntervalPasses

Spec == Init /\ [][Next]_vars

-----------------------------------------------------------------------------
(* Properties                                                               *)

DevicesTypeOK ==
    /\ device \in [DeviceIds -> DeviceRows \cup {NoDevice}]
    /\ \A g \in Groups : group[g] \in GroupNames /\ Named(group[g]) = {g}
    /\ blocked \subseteq Peers /\ due \in BOOLEAN /\ requests \in 0 .. MaxRequests
    /\ query \in [Queries -> LiveQueries \cup {Idle}]
    /\ \A q \in Queries : query[q] # Idle =>
          /\ query[q].asked \in 0 .. Len(query[q].ids)
          /\ \A j, k \in DOMAIN query[q].ids : query[q].ids[j] = query[q].ids[k] => j = k

\* No device refers to a group that is gone: what _validate_addressbook_sqlite
\* demands of a database before it restores it (line 3811;
\* tests/test_restore_and_import.py:74 test_schema_rejects_orphan_group).  It is
\* no property of this system: a form that is older than the deletion of its
\* group stores the id that is gone (line 4494).
GroupReferencesExist == \A d \in Existing : device[d].group \in Groups \cup {Ungrouped}

Dangling(d) == d \in Existing /\ device[d].group \notin Groups \cup {Ungrouped}
Saved(d) == form # NoForm /\ form' = NoForm /\ form.device \in {0, d}

\* Foreign keys are not enforced, so every statement has to keep the references
\* itself.  Only saving a form that is older than the deletion of its group makes
\* a device refer to a group that is gone: deleting a group, imports and live
\* queries never do.  And a device leaves a group that exists only by its own
\* form or because the group goes, never by an import or a live query.
OnlyFormsMisfile == [][\A d \in DeviceIds :
    /\ Dangling(d)' /\ ~Dangling(d) =>
          Saved(d) /\ form.group \notin Groups \cup {Ungrouped}
    /\ d \in Existing \cap Existing' /\ device[d].group \in Groups
       /\ device'[d].group # device[d].group =>
          Saved(d) \/ device[d].group \notin Groups']_vars

\* ADMIN-GUIDE.md:213: a deleted or blocked id does not come back by an import,
\* however many devices had it, until an administrator releases it.
DeletedStaysOut == [][
    form' = form => \A d \in DeviceIds \ Existing :
        device'[d] # NoDevice => device'[d].peer \notin barred]_vars

\* A live query that can be written sets every device nobody touched since it
\* was loaded to what hbbs said of its id, in whichever batch, byte and bit.
StatusIsWhatHbbsSaid == [][\A q \in Queries :
    query[q] # Idle /\ Complete(q) /\ query'[q] = Idle =>
        LET r == query[q]
            loaded == {d \in DeviceIds : r.loaded[d] # NoDevice}
        IN  loaded \subseteq Existing =>
                \A d \in loaded \ r.touched : device'[d].online = (device[d].peer \in r.present)]_vars

\* What administrators did while a query was running survives its commit:
\* deleted devices stay deleted, edited ones keep their id and their group.
EditsSurviveQueries == [][\A q \in Queries :
    query[q] # Idle /\ query'[q] = Idle =>
        \A d \in DeviceIds :
            /\ device'[d] = NoDevice <=> device[d] = NoDevice
            /\ d \in Existing => /\ device'[d].peer = device[d].peer
                                 /\ device'[d].group = device[d].group]_vars
=============================================================================
