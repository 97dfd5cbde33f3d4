---------------------------- MODULE SchemaMigration ----------------------------
(***************************************************************************)
(* create_app brings the users table of an older release up to date, under *)
(* the exclusive maintenance lock: _migrate_schema adds missing columns    *)
(* and converts the rows, _ensure_user_security_signatures signs them.     *)
(* pysqlite begins a transaction at the first UPDATE, so each ALTER TABLE  *)
(* commits by itself, the conversion is one transaction and the signing a  *)
(* second one; what has to be signed is only remembered in memory.  The    *)
(* process may be killed between any two of these, and is started again.   *)
(***************************************************************************)
EXTENDS Naturals, Sequences, SequencesExt

CONSTANTS
    Users,
    NoSignature,
    MaxKills            \* bound: kills before create_app has ended

ASSUME MigrationAssumption == MaxKills \in Nat
ASSUME NoSignatureAssumption ==
    NoSignature \notin [format : 0..2, role : {"admin", "user"}]

VARIABLES
    columns,            \* of the users table, those the migration is about
    row,                \* user -> role, preferred_language, security_signature
    signatureVersion,   \* setting security_signature_version; 0: not stored
    found,              \* memory: columns found by PRAGMA table_info
    flags,              \* memory: _SECURITY_SIGNATURE_INITIALIZE_MISSING, _RESEAL_ALL
    phase,              \* where create_app is
    original,           \* history: the table as the older release left it
    kills

vars == <<columns, row, signatureVersion, found, flags, phase, original, kills>>

-----------------------------------------------------------------------------
(* Columns in the order of their ALTER TABLE; "version" is session_version. *)

Order == <<"signature", "role", "language", "version">>
AllColumns == ToSet(Order)
Current == 2
Setting == "en"         \* settings.language, used for everyone before 0.5.26

Default == [role |-> "user", language |-> "de", signature |-> NoSignature]

\* The role stands for everything both formats sign.
Sign(r, format) == [r EXCEPT !.signature = [format |-> format, role |-> r.role]]
Verifies(r, format) == r.signature = Sign(r, format).signature

Released(cols, format) ==
    [columns : {cols}, version : {IF format = Current THEN Current ELSE 0},
     row : [Users ->
         [role : IF "role" \in cols THEN {"admin", "user"} ELSE {Default.role},
          language : IF "language" \in cols THEN {"de", "en"} ELSE {Default.language},
          signature : {NoSignature} \cup
              IF "signature" \in cols THEN [format : {format}, role : {"admin", "user"}] ELSE {}]]]

\* Before 0.5.2, 0.5.2 to 0.5.24, 0.5.25, 0.5.26, 0.5.27 and later; in a signed
\* table a signature may be missing or not fit the row.
Releases ==
    Released({}, 0) \cup Released({"signature"}, 0)
      \cup Released({"signature", "role"}, 1)
      \cup Released({"signature", "role", "language"}, 1)
      \cup Released(AllColumns, Current)

Init ==
    /\ original \in Releases
    /\ columns = original.columns /\ row = original.row
    /\ signatureVersion = original.version
    /\ found = {} /\ flags = {} /\ phase = "down" /\ kills = 0

-----------------------------------------------------------------------------
Begin ==
    /\ phase = "down"
    /\ found' = columns
    /\ phase' = "columns"
    /\ UNCHANGED <<columns, row, signatureVersion, flags, original, kills>>

\* ALTER TABLE users ADD COLUMN ... DEFAULT ...: committed at once.
AddColumn(i) ==
    /\ phase = "columns"
    /\ Order[i] \notin columns /\ \A j \in 1..(i - 1) : Order[j] \in columns
    /\ columns' = columns \cup {Order[i]}
    /\ row' = [u \in Users |->
                  IF Order[i] \in DOMAIN Default
                  THEN [row[u] EXCEPT ![Order[i]] = Default[Order[i]]] ELSE row[u]]
    /\ UNCHANGED <<signatureVersion, found, flags, phase, original, kills>>

\* Mutant of Converted: every start makes everyone an administrator.
ConvertedAlways(r) ==
    [r EXCEPT !.role = "admin",
              !.language = IF "language" \in found THEN @ ELSE Setting]
\* "Every installation before 0.5.25 had exactly one effective administrator."
Converted(r) ==
    [r EXCEPT !.role = IF "role" \in found THEN @ ELSE "admin",
              !.language = IF "language" \in found THEN @ ELSE Setting]

\* Mutant of NewVersion: the setting counts migrations.
NextVersion == IF signatureVersion < Current THEN signatureVersion + 1 ELSE signatureVersion
NewVersion == IF signatureVersion < Current THEN Current ELSE signatureVersion

\* The UPDATEs, the stored signature version and the commit at the end of with.
Convert ==
    /\ phase = "columns" /\ columns = AllColumns
    /\ row' = [u \in Users |-> Converted(row[u])]
    /\ flags' = (IF "signature" \in found THEN {} ELSE {"initialize_missing"})
                  \cup IF AllColumns \ found \subseteq {"signature"} /\ signatureVersion >= Current
                       THEN {} ELSE {"reseal_all"}
    /\ signatureVersion' = NewVersion
    /\ phase' = "sign"
    /\ UNCHANGED <<columns, found, original, kills>>

\* Mutant of Resealed: a missing signature is taken for a new user's.
ResealedMissing(r) ==
    IF \/ r.signature = NoSignature /\ flags # {}
       \/ "reseal_all" \in flags /\ Verifies(r, 1)
    THEN Sign(r, Current) ELSE r
\* Only what was never signed, or carries a valid old signature, is signed.
Resealed(r) ==
    IF \/ r.signature = NoSignature /\ "initialize_missing" \in flags
       \/ "reseal_all" \in flags /\ Verifies(r, 1)
    THEN Sign(r, Current) ELSE r

EnsureSignatures ==
    /\ phase = "sign"
    /\ row' = [u \in Users |-> Resealed(row[u])]
    /\ phase' = "up"
    /\ UNCHANGED <<columns, signatureVersion, found, flags, original, kills>>

\* Also any error that ends create_app; the container is started again.
Killed ==
    /\ phase \in {"columns", "sign"} /\ kills < MaxKills
    /\ kills' = kills + 1
    /\ phase' = "down" /\ found' = {} /\ flags' = {}
    /\ UNCHANGED <<columns, row, signatureVersion, original>>

Restarted ==
    /\ phase = "up"
    /\ phase' = "down" /\ found' = {} /\ flags' = {}
    /\ UNCHANGED <<columns, row, signatureVersion, original, kills>>

Next ==
    \/ Begin \/ Convert \/ EnsureSignatures \/ Killed \/ Restarted
    \/ \E i \in 1..Len(Order) : AddColumn(i)

Spec == Init /\ [][Next]_vars

-----------------------------------------------------------------------------
(* Properties                                                               *)

SchemaTypeOK ==
    /\ columns \subseteq AllColumns /\ original.columns \subseteq columns
    /\ \A u \in Users : row[u].role \in {"admin", "user"} /\ row[u].language \in {"de", "en"}
    /\ signatureVersion \in {0, Current}
    /\ found \subseteq columns
    /\ flags \subseteq {"initialize_missing", "reseal_all"}
    /\ phase \in {"down", "columns", "sign", "up"}
    /\ kills \in 0..MaxKills

\* The old release could vouch for this user.
WasGood(u) ==
    \/ "signature" \notin original.columns
    \/ Verifies(original.row[u], 1) \/ Verifies(original.row[u], Current)

\* SECURITY-REPORT.md:32: signatures "are migrated only after successful
\* validation of the old signature format": however often the migration is
\* killed and repeated, a row that did not verify before never does after.
NothingInvalidIsSigned == \A u \in Users : Verifies(row[u], Current) => WasGood(u)

\* What the migration is meant to make of a user, in one step.
Migrated(u) ==
    LET old == original.row[u]
        new == [old EXCEPT
                  !.role = IF "role" \in original.columns THEN @ ELSE "admin",
                  !.language = IF "language" \in original.columns THEN @ ELSE Setting]
    IN  IF WasGood(u) THEN Sign(new, Current) ELSE new

\* A migration that was not killed gives that result, and no later start
\* changes it again.
MigrationIsComplete ==
    phase = "up" /\ kills = 0 => \A u \in Users : row[u] = Migrated(u)

\* SECURITY-REPORT.md:51: assignments of users whose old identity was validated
\* "are then protected by the new signature format": such a user verifies when
\* the application is up, also after a migration that was interrupted.
GoodUsersAreMigrated ==
    phase = "up" => \A u \in Users : WasGood(u) => Verifies(row[u], Current)
=============================================================================
