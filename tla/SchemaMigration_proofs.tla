------------------------- MODULE SchemaMigration_proofs -------------------------
(***************************************************************************)
(* However often a migration is killed and repeated, it signs no row that  *)
(* the older release could not vouch for (IInv); one that is not killed    *)
(* turns the table of any release into the one it is meant to be (MInv).   *)
(***************************************************************************)
EXTENDS SchemaMigration, TLAPS

Roles == {"admin", "user"}
Signatures == [format : 0..2, role : Roles]
Row == [role : Roles, language : {"de", "en"}, signature : {NoSignature} \cup Signatures]

RowType == row \in [Users -> Row] /\ original.row \in [Users -> Row]

\* Every start knows that a column of the older release is not new, and so
\* none takes a missing signature for one that was never there.
FoundInv ==
    /\ original.columns \subseteq columns
    /\ phase # "down" => original.columns \subseteq found
    /\ "signature" \in original.columns => "initialize_missing" \notin flags

\* Where the older release had no roles, its signatures are of no known format.
OldSignatures ==
    "signature" \in original.columns /\ "role" \notin original.columns =>
        \A u \in Users : original.row[u].signature \in
            {NoSignature} \cup [format : {0}, role : Roles]

\* A row that was not good keeps its signature, and the role that it could cover.
BadRowsInv ==
    \A u \in Users : ~WasGood(u) =>
        /\ row[u].signature = original.row[u].signature
        /\ "role" \in original.columns => row[u].role = original.row[u].role

IInv == RowType /\ FoundInv /\ OldSignatures /\ BadRowsInv

-----------------------------------------------------------------------------
\* What it takes to verify: Sign writes the role into the signature.
LEMMA SignedRow ==
    ASSUME NEW r \in Row, NEW f \in {1, Current}
    PROVE  /\ Sign(r, f) \in Row
           /\ Verifies(r, f) <=> r.signature = [format |-> f, role |-> r.role]
  BY DEF Sign, Verifies, Row, Signatures, Current

\* A row that was not good does not verify.
LEMMA BadRowsFail ==
    ASSUME IInv, NEW u \in Users, ~WasGood(u), NEW f \in {1, Current}
    PROVE  ~Verifies(row[u], f)
<1>1. row[u] \in Row /\ original.row[u] \in Row
  BY DEF IInv, RowType
<1>2. /\ Verifies(row[u], f) <=> row[u].signature = [format |-> f, role |-> row[u].role]
      /\ Verifies(original.row[u], f) <=>
            original.row[u].signature = [format |-> f, role |-> original.row[u].role]
  BY <1>1, SignedRow
<1>3. ~Verifies(original.row[u], f) /\ "signature" \in original.columns
  BY DEF WasGood
<1>4. row[u].signature = original.row[u].signature
  BY DEF IInv, BadRowsInv
<1>5. CASE "role" \in original.columns
  BY <1>2, <1>3, <1>4, <1>5 DEF IInv, BadRowsInv
<1>6. CASE "role" \notin original.columns
  <2>1. original.row[u].signature \in {NoSignature} \cup [format : {0}, role : Roles]
    BY <1>3, <1>6 DEF IInv, OldSignatures
  <2>2. row[u].role \in Roles
    BY <1>1 DEF Row
  <2>3. [format |-> f, role |-> row[u].role] \in Signatures
    BY <2>2 DEF Signatures, Current
  <2>4. NoSignature \notin Signatures
    BY NoSignatureAssumption DEF Signatures, Roles
  <2>5. [format |-> f, role |-> row[u].role] \notin [format : {0}, role : Roles]
    BY DEF Current
  <2> QED
    BY <1>2, <1>4, <2>1, <2>3, <2>4, <2>5
<1> QED
  BY <1>5, <1>6

-----------------------------------------------------------------------------
LEMMA InitIInv == Init => IInv
<1> SUFFICES ASSUME Init PROVE IInv
  OBVIOUS
<1>1. original \in Releases
  BY DEF Init
<1>2. original.row \in [Users -> Row]
  BY <1>1 DEF Releases, Released, Row, Signatures, Roles, Default, Current
<1>3. OldSignatures
  BY <1>1 DEF OldSignatures, Releases, Released, AllColumns, Roles, ToSet, Order
<1>4. FoundInv
  BY DEF Init, FoundInv
<1>5. row = original.row
  BY DEF Init
<1> QED
  BY <1>2, <1>3, <1>4, <1>5 DEF IInv, RowType, BadRowsInv

LEMMA StepIInv == IInv /\ [Next]_vars => IInv'
<1> SUFFICES ASSUME IInv, [Next]_vars PROVE IInv'
  OBVIOUS
<1>o. original' = original
  BY DEF Next, vars, Begin, AddColumn, Convert, EnsureSignatures, Killed, Restarted
<1>s. OldSignatures' /\ (original.row \in [Users -> Row])' /\ \A u \in Users : WasGood(u)' <=> WasGood(u)
  BY <1>o DEF IInv, RowType, OldSignatures, WasGood, Verifies, Sign
<1>1. CASE UNCHANGED row /\ (Begin \/ Killed \/ Restarted \/ UNCHANGED vars)
  <2>1. FoundInv'
    BY <1>1, <1>o DEF IInv, FoundInv, Begin, Killed, Restarted, vars
  <2>2. RowType' /\ BadRowsInv'
    BY <1>1, <1>o, <1>s DEF IInv, RowType, BadRowsInv
  <2> QED
    BY <2>1, <2>2, <1>s DEF IInv
<1>2. ASSUME NEW i \in 1..Len(Order), AddColumn(i) PROVE IInv'
  <2>1. Order[i] \in {"signature", "role", "language", "version"}
    BY DEF Order
  <2>2. Order[i] \notin original.columns
    BY <1>2 DEF AddColumn, IInv, FoundInv
  <2>3. FoundInv'
    BY <1>2, <1>o DEF AddColumn, IInv, FoundInv
  <2>4. row' \in [Users -> Row]
    BY <1>2, <2>1 DEF AddColumn, IInv, RowType, Row, Default, Roles
  <2>5. ASSUME NEW u \in Users, ~WasGood(u)
        PROVE  /\ row'[u].signature = original.row[u].signature
               /\ "role" \in original.columns => row'[u].role = original.row[u].role
    <3>1. row[u] \in Row
      BY DEF IInv, RowType
    <3>2. "signature" \in original.columns
      BY <2>5 DEF WasGood
    <3>3. row'[u].signature = row[u].signature
      BY <1>2, <2>1, <2>2, <3>1, <3>2 DEF AddColumn, Row, Default
    <3>4. "role" \in original.columns => row'[u].role = row[u].role
      BY <1>2, <2>1, <2>2, <3>1 DEF AddColumn, Row, Default
    <3> QED
      BY <2>5, <3>3, <3>4 DEF IInv, BadRowsInv
  <2> QED
    BY <2>3, <2>4, <2>5, <1>s, <1>o DEF IInv, RowType, BadRowsInv
<1>3. CASE Convert
  <2>1. original.columns \subseteq found
    BY <1>3 DEF Convert, IInv, FoundInv
  <2>2. FoundInv'
    BY <1>3, <1>o, <2>1 DEF Convert, IInv, FoundInv
  <2>3. \A r \in Row : /\ Converted(r) \in Row
                       /\ Converted(r).signature = r.signature
                       /\ "role" \in found => Converted(r).role = r.role
    BY DEF Converted, Row, Roles, Setting
  <2>4. row' = [u \in Users |-> Converted(row[u])]
    BY <1>3 DEF Convert
  <2>5. row' \in [Users -> Row]
    BY <2>3, <2>4 DEF IInv, RowType
  <2>6. BadRowsInv'
    BY <2>1, <2>3, <2>4, <1>o, <1>s DEF IInv, RowType, BadRowsInv
  <2> QED
    BY <2>2, <2>5, <2>6, <1>s DEF IInv, RowType
<1>4. CASE EnsureSignatures
  <2>1. FoundInv'
    BY <1>4, <1>o DEF EnsureSignatures, IInv, FoundInv
  <2>2. row' = [u \in Users |-> Resealed(row[u])]
    BY <1>4 DEF EnsureSignatures
  <2>3. row' \in [Users -> Row]
    BY <2>2, SignedRow DEF IInv, RowType, Resealed
  <2>4. ASSUME NEW u \in Users, ~WasGood(u) PROVE Resealed(row[u]) = row[u]
    <3>1. "signature" \in original.columns
      BY <2>4 DEF WasGood
    <3>2. "initialize_missing" \notin flags
      BY <3>1 DEF IInv, FoundInv
    <3>3. ~Verifies(row[u], 1)
      BY <2>4, BadRowsFail
    <3> QED
      BY <3>2, <3>3 DEF Resealed
  <2>5. BadRowsInv'
    BY <2>2, <2>4, <1>o, <1>s DEF IInv, RowType, BadRowsInv
  <2> QED
    BY <2>1, <2>3, <2>5, <1>s DEF IInv, RowType
<1> QED
  BY <1>1, <1>2, <1>3, <1>4 DEF Next, vars, Begin, Killed, Restarted

\* A row that the older release could not vouch for never verifies afterwards
\* (_ensure_user_security_signatures, lines 1045-1070), for any users and any
\* number of kills.
THEOREM NothingInvalid == Spec => []NothingInvalidIsSigned
<1>1. IInv => NothingInvalidIsSigned
  BY BadRowsFail DEF NothingInvalidIsSigned
<1> QED
  BY InitIInv, StepIInv, <1>1, PTL DEF Spec

-----------------------------------------------------------------------------
(* A migration that was not killed                                          *)

\* The columns the migration adds.
LEMMA TheColumns ==
    /\ AllColumns = {"signature", "role", "language", "version"}
    /\ \A i \in 1..Len(Order) : Order[i] \in AllColumns
<1>1. Order \in Seq({"signature", "role", "language", "version"}) /\ Len(Order) = 4
  BY DEF Order
<1> QED
  BY <1>1 DEF AllColumns, ToSet, Order

\* The control of create_app and the columns.
ControlInv ==
    /\ original \in Releases
    /\ original.columns \subseteq columns /\ columns \subseteq AllColumns /\ found \subseteq columns
    /\ signatureVersion \in {0, Current}
    /\ flags \subseteq {"initialize_missing", "reseal_all"}
    /\ phase \in {"down", "columns", "sign", "up"}
    /\ kills \in 0..MaxKills

\* Columns are added with what the older release meant by their absence.
Untouched ==
    /\ row = original.row /\ signatureVersion = original.version
    /\ \/ phase = "down" /\ columns = original.columns
       \/ phase = "columns" /\ found = original.columns

\* The converted rows are committed, and memory says which of them to sign.
HalfDone ==
    /\ phase = "sign" /\ columns = AllColumns /\ signatureVersion = Current
    /\ found = original.columns
    /\ row = [u \in Users |-> Converted(original.row[u])]
    /\ flags = (IF "signature" \in found THEN {} ELSE {"initialize_missing"})
                 \cup IF AllColumns \ found \subseteq {"signature"} /\ original.version >= Current
                      THEN {} ELSE {"reseal_all"}

\* After the migration, and at every later start.
Done ==
    /\ columns = AllColumns /\ signatureVersion = Current
    /\ row = [u \in Users |-> Migrated(u)]
    /\ phase \in {"columns", "sign"} => found = AllColumns
    /\ phase = "sign" => flags = {}

CompleteInv == kills = 0 => Untouched \/ HalfDone \/ Done

MInv == IInv /\ ControlInv /\ CompleteInv

\* The table of a released version: its columns, its signatures and the values
\* that stand for columns it does not have.
LEMMA ReleasedTable ==
    ASSUME original \in Releases
    PROVE  /\ original.columns \subseteq AllColumns
           /\ original.version \in {0, Current}
           /\ original.row \in [Users -> Row]
           /\ \A u \in Users, c \in DOMAIN Default :
                 c \notin original.columns => original.row[u][c] = Default[c]
           /\ \/ original.columns = {}
              \/ /\ original.columns = {"signature"} /\ original.version = 0
                 /\ \A u \in Users : original.row[u].signature \in
                        {NoSignature} \cup [format : {0}, role : Roles]
              \/ /\ original.columns \in {{"signature", "role"}, {"signature", "role", "language"}}
                 /\ original.version = 0
                 /\ \A u \in Users : original.row[u].signature \in
                        {NoSignature} \cup [format : {1}, role : Roles]
              \/ /\ original.columns = AllColumns /\ original.version = Current
                 /\ \A u \in Users : original.row[u].signature \in
                        {NoSignature} \cup [format : {Current}, role : Roles]
<1> USE TheColumns
<1>1. \A c, f : original \in Released(c, f) =>
          /\ original.columns = c /\ original.version = (IF f = Current THEN Current ELSE 0)
          /\ original.row \in [Users ->
                [role : IF "role" \in c THEN {"admin", "user"} ELSE {Default.role},
                 language : IF "language" \in c THEN {"de", "en"} ELSE {Default.language},
                 signature : {NoSignature} \cup
                     IF "signature" \in c THEN [format : {f}, role : {"admin", "user"}] ELSE {}]]
  BY DEF Released
<1>2. /\ Default.role = "user" /\ Default.language = "de" /\ Default.signature = NoSignature
      /\ DOMAIN Default = {"role", "language", "signature"}
  BY DEF Default
<1>3. CASE original \in Released({}, 0)
  BY <1>1, <1>2, <1>3 DEF Row, Roles, Current
<1>4. CASE original \in Released({"signature"}, 0)
  BY <1>1, <1>2, <1>4 DEF Row, Roles, Signatures, Current
<1>5. CASE original \in Released({"signature", "role"}, 1)
  BY <1>1, <1>2, <1>5 DEF Row, Roles, Signatures, Current
<1>6. CASE original \in Released({"signature", "role", "language"}, 1)
  BY <1>1, <1>2, <1>6 DEF Row, Roles, Signatures, Current
<1>7. CASE original \in Released(AllColumns, Current)
  BY <1>1, <1>2, <1>7 DEF Row, Roles, Signatures, Current
<1> QED
  BY <1>3, <1>4, <1>5, <1>6, <1>7 DEF Releases

\* What adding the columns, converting and signing make of a row, is Migrated.
LEMMA ConvertedRow ==
    ASSUME NEW r \in Row
    PROVE  /\ Converted(r) \in Row /\ Converted(r).signature = r.signature
           /\ Converted(r).role = (IF "role" \in found THEN r.role ELSE "admin")
           /\ Converted(r).language = (IF "language" \in found THEN r.language ELSE Setting)
           /\ found = AllColumns => Converted(r) = r
  BY TheColumns DEF Converted, Row, Roles, Setting

LEMMA MigratedRow ==
    ASSUME original.row \in [Users -> Row], NEW u \in Users, found = original.columns
    PROVE  Migrated(u) = IF WasGood(u) THEN Sign(Converted(original.row[u]), Current)
                         ELSE Converted(original.row[u])
  BY DEF Migrated, Converted

\* A row whose signature fits is signed with that signature.
LEMMA SignedAlready ==
    ASSUME NEW r \in Row, Verifies(r, Current)
    PROVE  Sign(r, Current) = r
  BY DEF Verifies, Sign, Row

\* The flags of a migration that was not killed name the rows that were good.
LEMMA ResealedIsMigrated ==
    ASSUME MInv, HalfDone, NEW u \in Users
    PROVE  Resealed(row[u]) = Migrated(u)
<1> DEFINE old == original.row[u]
           new == Converted(old)
<1>1. old \in Row /\ original.row \in [Users -> Row] /\ row[u] = new /\ found = original.columns
  BY DEF MInv, IInv, RowType, HalfDone
<1>2. /\ new \in Row /\ new.signature = old.signature
      /\ new.role = (IF "role" \in found THEN old.role ELSE "admin")
  BY <1>1, ConvertedRow
<1>3. Migrated(u) = IF WasGood(u) THEN Sign(new, Current) ELSE new
  BY <1>1, MigratedRow
<1>4. \A f \in {1, Current} :
          /\ Verifies(new, f) <=> new.signature = [format |-> f, role |-> new.role]
          /\ Verifies(old, f) <=> old.signature = [format |-> f, role |-> old.role]
  BY <1>1, <1>2, SignedRow
<1>n. /\ \A f \in {1, Current}, r \in Roles : NoSignature # [format |-> f, role |-> r]
      /\ old.role \in Roles /\ new.role \in Roles
  BY <1>1, <1>2, NoSignatureAssumption DEF Row, Roles, Current
<1>5. flags = (IF "signature" \in found THEN {} ELSE {"initialize_missing"})
                 \cup IF AllColumns \ found \subseteq {"signature"} /\ original.version >= Current
                      THEN {} ELSE {"reseal_all"}
  BY DEF HalfDone
<1> HIDE DEF old, new
<1>6. CASE original.columns = {}
  <2>1. "initialize_missing" \in flags /\ WasGood(u)
    BY <1>1, <1>5, <1>6 DEF WasGood
  <2>2. new.signature = NoSignature
    BY <1>2, <1>6, ReleasedTable, <1>1 DEF Default, MInv, ControlInv, old
  <2> QED
    BY <1>1, <1>3, <2>1, <2>2 DEF Resealed
<1>7. CASE /\ original.columns = {"signature"} /\ original.version = 0
           /\ old.signature \in {NoSignature} \cup [format : {0}, role : Roles]
  <2>1. ~Verifies(new, 1) /\ ~Verifies(old, 1) /\ ~Verifies(old, Current)
    BY <1>2, <1>4, <1>n, <1>7 DEF Current
  <2>2. ~WasGood(u) /\ "initialize_missing" \notin flags
    BY <1>1, <1>5, <1>7, <2>1 DEF WasGood, old
  <2> QED
    BY <1>1, <1>3, <2>1, <2>2 DEF Resealed
<1>8. CASE /\ original.columns \in {{"signature", "role"}, {"signature", "role", "language"}}
           /\ original.version = 0
           /\ old.signature \in {NoSignature} \cup [format : {1}, role : Roles]
  <2>1. (Verifies(new, 1) <=> Verifies(old, 1)) /\ ~Verifies(old, Current)
    BY <1>1, <1>2, <1>4, <1>n, <1>8 DEF Current
  <2>2. (WasGood(u) <=> Verifies(old, 1)) /\ flags = {"reseal_all"}
    BY <1>1, <1>5, <1>8, <2>1, TheColumns DEF WasGood, old, Current
  <2> QED
    BY <1>1, <1>3, <2>1, <2>2 DEF Resealed
<1>9. CASE /\ original.columns = AllColumns /\ original.version = Current
           /\ old.signature \in {NoSignature} \cup [format : {Current}, role : Roles]
  <2>1. new = old /\ flags = {}
    BY <1>1, <1>5, <1>9, ConvertedRow, TheColumns DEF new, Current
  <2>2. ~Verifies(old, 1)
    BY <1>4, <1>n, <1>9 DEF Current
  <2>3. WasGood(u) <=> Verifies(old, Current)
    BY <1>9, <2>2, TheColumns DEF WasGood, old
  <2>4. Migrated(u) = old
    BY <1>1, <1>3, <2>1, <2>3, SignedAlready
  <2> QED
    BY <1>1, <2>1, <2>4 DEF Resealed
<1> QED
  BY <1>6, <1>7, <1>8, <1>9, ReleasedTable DEF MInv, ControlInv, old

\* The table as the older release left it.
LEMMA InitMInv == Init => MInv
<1> SUFFICES ASSUME Init PROVE MInv
  OBVIOUS
<1>1. ControlInv
  BY ReleasedTable, MigrationAssumption DEF Init, ControlInv
<1>2. CompleteInv
  BY DEF Init, CompleteInv, Untouched
<1> QED
  BY <1>1, <1>2, InitIInv DEF MInv

\* Nothing is found that is not there, and the version of the format is never taken back.
LEMMA ControlStep == MInv /\ [Next]_vars => ControlInv'
<1> SUFFICES ASSUME MInv, [Next]_vars PROVE ControlInv'
  OBVIOUS
<1> USE DEF MInv, ControlInv
<1>1. CASE UNCHANGED vars \/ Begin \/ EnsureSignatures \/ Restarted \/ Killed
  BY <1>1, MigrationAssumption DEF vars, Begin, EnsureSignatures, Restarted, Killed
<1>2. ASSUME NEW i \in 1..Len(Order), AddColumn(i) PROVE ControlInv'
  BY <1>2, TheColumns DEF AddColumn
<1>3. CASE Convert
  BY <1>3 DEF Convert, NewVersion, Current
<1> QED
  BY <1>1, <1>2, <1>3 DEF Next

\* Only a kill leaves the path from the old table to the new one.
LEMMA CompleteStep == MInv /\ [Next]_vars => CompleteInv'
<1> SUFFICES ASSUME MInv, [Next]_vars, kills' = 0 PROVE (Untouched \/ HalfDone \/ Done)'
  BY DEF CompleteInv
<1>o. original' = original /\ kills = 0 /\ \A u \in Users : Migrated(u)' = Migrated(u)
  <2>1. original' = original
    BY DEF Next, vars, Begin, AddColumn, Convert, EnsureSignatures, Killed, Restarted
  <2>2. kills \in Nat /\ (kills' = kills \/ kills' = kills + 1)
    BY MigrationAssumption
    DEF Next, vars, Begin, AddColumn, Convert, EnsureSignatures, Killed, Restarted, MInv, ControlInv
  <2>3. \A u \in Users : Migrated(u)' = Migrated(u)
    BY <2>1 DEF Migrated, WasGood, Verifies, Sign
  <2> QED
    BY <2>1, <2>2, <2>3
<1>i. Untouched \/ HalfDone \/ Done
  BY <1>o DEF MInv, CompleteInv
<1>1. CASE UNCHANGED vars
  BY <1>1, <1>o, <1>i DEF vars, Untouched, HalfDone, Done, Converted
<1>2. CASE Begin \/ Restarted
  BY <1>2, <1>o, <1>i DEF Begin, Restarted, Untouched, HalfDone, Done
<1>3. ASSUME NEW i \in 1..Len(Order), AddColumn(i) PROVE (Untouched \/ HalfDone \/ Done)'
  <2>1. Untouched /\ phase = "columns" /\ Order[i] \notin original.columns /\ Order[i] \in AllColumns
    BY <1>3, <1>i, TheColumns DEF AddColumn, Untouched, HalfDone, Done, MInv, ControlInv
  <2>2. ASSUME NEW u \in Users
        PROVE  (IF Order[i] \in DOMAIN Default
                THEN [row[u] EXCEPT ![Order[i]] = Default[Order[i]]] ELSE row[u]) = original.row[u]
    <3>1. row[u] = original.row[u] /\ row[u] \in Row
      BY <2>1 DEF Untouched, MInv, IInv, RowType
    <3>2. Order[i] \in DOMAIN Default => row[u][Order[i]] = Default[Order[i]]
      BY <2>1, <3>1, ReleasedTable DEF MInv, ControlInv
    <3>3. [row[u] EXCEPT ![Order[i]] = row[u][Order[i]]] = row[u]
      BY <3>1 DEF Row
    <3> QED
      BY <3>1, <3>2, <3>3
  <2>3. row' = [u \in Users |-> original.row[u]]
    BY <1>3, <2>2 DEF AddColumn
  <2>4. row' = original.row
    BY <2>3 DEF MInv, IInv, RowType
  <2> QED
    BY <1>3, <1>o, <2>1, <2>4 DEF AddColumn, Untouched
<1>4. CASE Convert
  <2> USE <1>4 DEF Convert
  <2>1. row \in [Users -> Row] /\ found' = found
    BY DEF MInv, IInv, RowType
  <2>2. CASE Untouched
    <3>1. signatureVersion' = Current /\ (signatureVersion >= Current <=> original.version >= Current)
      BY <2>2 DEF Untouched, NewVersion, MInv, ControlInv, Current
    <3>2. row' = [u \in Users |-> Converted(original.row[u])]'
      BY <2>1, <2>2, <1>o DEF Untouched, Converted
    <3> QED
      BY <1>o, <2>1, <2>2, <3>1, <3>2 DEF Untouched, HalfDone
  <2>3. CASE Done
    <3>1. found = AllColumns /\ signatureVersion' = Current /\ flags' = {}
      BY <2>3, TheColumns DEF Done, NewVersion, Current
    <3>2. row' = row
      BY <2>1, <3>1, ConvertedRow
    <3> QED
      BY <1>o, <2>1, <2>3, <3>1, <3>2 DEF Done
  <2> QED
    BY <1>i, <2>2, <2>3 DEF HalfDone
<1>5. CASE EnsureSignatures
  <2> USE <1>5 DEF EnsureSignatures
  <2>1. CASE HalfDone
    <3>1. row' = [u \in Users |-> Migrated(u)]
      BY <2>1, ResealedIsMigrated
    <3> QED
      BY <1>o, <2>1, <3>1 DEF HalfDone, Done
  <2>2. CASE Done
    <3>1. row' = row
      BY <2>2 DEF Done, Resealed
    <3> QED
      BY <1>o, <2>2, <3>1 DEF Done
  <2> QED
    BY <1>i, <2>1, <2>2 DEF Untouched
<1> QED
  BY <1>1, <1>2, <1>3, <1>4, <1>5, <1>o DEF Next, Killed, MInv, ControlInv

LEMMA StepMInv == MInv /\ [Next]_vars => MInv'
  BY StepIInv, ControlStep, CompleteStep DEF MInv

\* The columns that are added, the signature format and the control of
\* create_app keep their types, through any kills.
THEOREM SchemaTypeCorrect == Spec => []SchemaTypeOK
<1>1. MInv => SchemaTypeOK
  BY TheColumns DEF MInv, ControlInv, IInv, RowType, Row, Roles, SchemaTypeOK
<1> QED
  BY InitMInv, StepMInv, <1>1, PTL DEF Spec

\* A migration of any released table that was not killed makes of every user
\* what it is meant to make, and no later start changes that
\* (_migrate_schema and _ensure_user_security_signatures).
THEOREM MigrationCompletes == Spec => []MigrationIsComplete
<1>1. MInv => MigrationIsComplete
  BY DEF MInv, CompleteInv, Untouched, HalfDone, Done, MigrationIsComplete
<1> QED
  BY InitMInv, StepMInv, <1>1, PTL DEF Spec
=============================================================================
