------------------------------- MODULE Accounts -------------------------------
(***************************************************************************)
(* User accounts, their HMAC signatures and session versions, and the      *)
(* requests that change them (app/__init__.py).  A request reads users when *)
(* it starts, decides, and writes later: SQLAlchemy keeps the row it loaded *)
(* until a commit, and an UPDATE names only the columns the request        *)
(* changed.  pysqlite opens no transaction before the first write, so      *)
(* requests of other threads commit in between.  Handlers is the set of    *)
(* concurrent request threads.  Whether a request committed although what  *)
(* it went by had changed meanwhile is kept in a history, overtaken.       *)
(***************************************************************************)
EXTENDS Naturals, FiniteSets

CONSTANTS
    Handlers,       \* request threads
    Browsers,       \* clients; each holds one session cookie
    Ids,            \* user ids SQLite may hand out: 1..n
    Groups,         \* group ids
    Administrators, \* how many local administrators there may be at the start
    CodeNames,      \* distinguishes the recovery codes generated together
    NoUser, NoCookie, NoCode, Idle,
    MaxRequests,    \* bound: requests begun
    MaxBeside       \* bound: requests begun beside another one

ASSUME AccountsAssumption ==
    Ids \subseteq Nat \ {0} /\ Administrators \subseteq Nat
    /\ MaxRequests \in Nat /\ MaxBeside \in Nat

Roles == {"admin", "user"}
Providers == {"local", "oidc"}
Factors == {"off", "prepared", "on"}
AllCodes == (0..MaxRequests) \X CodeNames

\* What the signature covers.
Payloads ==
    [role : Roles, active : BOOLEAN, provider : Providers, password : Nat, factor : Factors,
     codes : SUBSET AllCodes, version : Nat \ {0}, groups : SUBSET Groups]

Rows ==
    [role : Roles, active : BOOLEAN, provider : Providers, password : Nat, factor : Factors,
     codes : SUBSET AllCodes, version : Nat \ {0}, groups : SUBSET Groups,
     signature : Payloads, account : Nat]

ASSUME NoUserAssumption == NoUser \notin Rows

VARIABLES
    user,           \* table users, with user_groups as a column: id -> row or NoUser
    groups,         \* table groups
    cookie,         \* Flask's session, signed and kept by the browser
    request,        \* what each handler is doing, with the row it has loaded
    spent,          \* history: recovery codes that were accepted and taken off the row
    replayed,       \* history: codes accepted after they had been spent
    overtaken,      \* history: a request committed on what had changed since it read it
    setups,         \* history: administrators created by /setup
    accounts,       \* history: accounts ever created; numbers them
    beside,         \* requests begun while another one was under way
    clock           \* requests begun; the source of fresh secrets

histories == <<spent, replayed, overtaken, setups, accounts>>
vars == <<user, groups, cookie, request, spent, replayed, overtaken, setups, accounts, beside, clock>>

-----------------------------------------------------------------------------
(* Rows and signatures                                                      *)

\* _security_signature_payload; the HMAC itself is injective.
Payload(row) ==
    [role |-> row.role, active |-> row.active, provider |-> row.provider,
     password |-> row.password, factor |-> row.factor, codes |-> row.codes,
     version |-> row.version, groups |-> row.groups]
Sign(row) == [row EXCEPT !.signature = Payload(row)]
Verifies(row) == row.signature = Payload(row)
Bump(row) == [row EXCEPT !.version = @ + 1]

\* Mutant of Resealed: the version stays.
SignedOnly(row) == Sign(row)
\* _commit_user_security_change: the signature covers the new version.
Resealed(row) == Sign(Bump(row))

\* A new row; `account` is history: it tells apart users that share an id.
NewRow(role, active, provider, password, members) ==
    Sign([role |-> role, active |-> active, provider |-> provider, password |-> password,
          factor |-> "off", codes |-> {}, version |-> 1, groups |-> members,
          signature |-> <<>>, account |-> 0])

Exists(i) == user[i] # NoUser
Existing == {i \in Ids : Exists(i)}

\* User.groups joins user_groups with groups: a membership in a group that is
\* gone (no foreign keys are enforced) is not seen.
Row(i) == [user[i] EXCEPT !.groups = @ \cap groups]
Members(g) == {i \in Existing : g \in user[i].groups}

IsLocalAdmin(row) == row.role = "admin" /\ row.active /\ row.provider = "local"
LocalAdmins == {i \in Existing : IsLocalAdmin(user[i])}

\* A secret or a list of codes that nothing else has.
Fresh == clock + 1
FreshCodes == {Fresh} \X CodeNames

\* UPDATE users names only the columns that differ from the loaded row; of
\* user_groups it deletes and inserts the difference.
Updated(row, loaded, new) ==
    [c \in DOMAIN row |->
        IF c = "groups" THEN (row[c] \ (loaded[c] \ new[c])) \cup (new[c] \ loaded[c])
        ELSE IF new[c] = loaded[c] THEN row[c] ELSE new[c]]

\* A row that is gone raises StaleDataError, a membership that is there already
\* IntegrityError: the transaction is rolled back.
Updatable(i, loaded, new) ==
    /\ Exists(i)
    /\ loaded.groups \ new.groups \subseteq user[i].groups
    /\ (new.groups \ loaded.groups) \cap user[i].groups = {}

-----------------------------------------------------------------------------
(* Sessions                                                                 *)

Session(i, version, account) ==
    [kind |-> "session", id |-> i, version |-> version, account |-> account, revoked |-> FALSE]
Pending(i) == [kind |-> "pending", id |-> i]
IsSession(s) == s # NoCookie /\ s.kind = "session"
IsPending(s) == s # NoCookie /\ s.kind = "pending"

\* app_before_request: the user is active, its signature and version fit.
Accepted(s) ==
    /\ IsSession(s) /\ Exists(s.id)
    /\ user[s.id].active /\ Verifies(Row(s.id))
    /\ user[s.id].version = s.version

\* load_user finds nobody: the visitor is anonymous, whatever the cookie says.
Anonymous(s) == ~(IsSession(s) /\ Exists(s.id))

Admitted(b, role) ==
    Accepted(cookie[b]) /\ (role = "admin" => user[cookie[b].id].role = "admin")

\* History: a change of these accounts is meant to end their other sessions.
Revoke(changed, keep) ==
    cookie' = [b \in Browsers |->
        IF b # keep /\ IsSession(cookie[b]) /\ cookie[b].account \in changed
           THEN [cookie[b] EXCEPT !.revoked = TRUE] ELSE cookie[b]]

-----------------------------------------------------------------------------
(* Requests: Begin puts what a request has read into its record.            *)

Request(op, stage, b, i, loaded, new, code) ==
    [op |-> op, stage |-> stage, browser |-> b, id |-> i, session |-> cookie[b],
     loaded |-> loaded, new |-> new, code |-> code, others |-> FALSE, number |-> Fresh]

\* A thread that is free takes a request; others may be under way.
Take(h) ==
    /\ request[h] = Idle /\ clock < MaxRequests
    /\ beside' = beside + IF \A g \in Handlers : request[g] = Idle THEN 0 ELSE 1
    /\ beside' <= MaxBeside
    /\ clock' = clock + 1

Begin(h, r) ==
    /\ Take(h)
    /\ request' = [request EXCEPT ![h] = r]
    /\ UNCHANGED <<user, groups, cookie, histories>>

Answer(h, b, s) ==
    /\ Take(h)
    /\ cookie' = [cookie EXCEPT ![b] = s]
    /\ UNCHANGED <<user, groups, request, histories>>

At(h, stage) == request[h] # Idle /\ request[h].stage = stage
Go(h, stage) == request' = [request EXCEPT ![h].stage = stage]
Finish(h) == request' = [request EXCEPT ![h] = Idle]

\* The row is still what the request has loaded.
AsLoaded(r) == Exists(r.id) /\ Row(r.id) = r.loaded

\* Whether a request would take away a local administrator.
TakesAdmin(r) == IsLocalAdmin(r.loaded) /\ (r.op = "delete" \/ ~IsLocalAdmin(r.new))

\* history: the request commits although what it went by is no longer so.
Commits(asRead) == overtaken' = (overtaken \/ ~asRead)

\* history: a recovery code is accepted, and taken off the row or not.
Accept(code, taken) ==
    /\ spent' = IF taken /\ code # NoCode THEN spent \cup {code} ELSE spent
    /\ replayed' = replayed \cup ({code} \cap spent)

\* A cookie that is no longer good is cleared, and the visitor may log in.
Rejected(h, b) ==
    /\ ~Anonymous(cookie[b]) /\ ~Accepted(cookie[b])
    /\ Answer(h, b, NoCookie)

Logout(h, b) == Accepted(cookie[b]) /\ Answer(h, b, NoCookie)

Setup(h, b) ==
    /\ Existing = {}
    /\ Begin(h, Request("setup", "insert", b, 0, NoUser,
                        NewRow("admin", TRUE, "local", Fresh, {}), NoCode))

\* The password is checked against the row as it is now; it may be changed
\* before last_login_at is committed and the session starts.
Login(h, b, i) ==
    /\ Anonymous(cookie[b]) /\ Exists(i)
    /\ user[i].provider = "local" /\ user[i].active /\ Verifies(Row(i))
    /\ IF user[i].factor = "on"
          THEN Answer(h, b, Pending(i))
          ELSE Begin(h, Request("login", "commit", b, i, Row(i), Sign(Row(i)), NoCode))

\* oidc_callback: a known identity, or a new one where auto_provision is on.
OidcLogin(h, b) ==
    /\ Anonymous(cookie[b]) /\ Existing # {}
    /\ \/ \E i \in Existing :
             /\ user[i].provider = "oidc" /\ user[i].active /\ Verifies(Row(i))
             /\ Begin(h, Request("login", "commit", b, i, Row(i), Sign(Row(i)), NoCode))
       \/ Begin(h, Request("provision", "insert", b, 0, NoUser,
                           NewRow("user", TRUE, "oidc", 0, {}), NoCode))

\* Mutant of SecondFactor: the recovery code is checked and stays.
SecondFactorKeepsCode(h, b, code) ==
    /\ IsPending(cookie[b])
    /\ LET i == cookie[b].id IN
       /\ Exists(i)
       /\ user[i].active /\ user[i].factor = "on" /\ Verifies(Row(i))
       /\ code \in user[i].codes \cup {NoCode}
       /\ Begin(h, Request("second", "commit", b, i, Row(i), Sign(Row(i)), code))
\* login_2fa with a TOTP code (NoCode here) or a recovery code, which is removed.
SecondFactor(h, b, code) ==
    /\ IsPending(cookie[b])
    /\ LET i == cookie[b].id IN
       /\ Exists(i)
       /\ user[i].active /\ user[i].factor = "on" /\ Verifies(Row(i))
       /\ code \in user[i].codes \cup {NoCode}
       /\ Begin(h, Request("second", "commit", b, i, Row(i),
                           Sign([Row(i) EXCEPT !.codes = @ \ {code}]), code))

\* login_2fa drops a pending login whose user cannot use it any more.
PendingDropped(h, b) ==
    /\ IsPending(cookie[b])
    /\ LET i == cookie[b].id IN
       ~(Exists(i) /\ user[i].active /\ user[i].factor = "on" /\ Verifies(Row(i)))
    /\ Answer(h, b, NoCookie)

-----------------------------------------------------------------------------
(* /account; /settings repeats these for administrators.  current_user was  *)
(* loaded by app_before_request and is written back as it was then.         *)

Own(b) == Row(cookie[b].id)

\* /reauth looks a recovery code up and leaves it (consume_recovery=False).  What
\* it renews, the time of the last authentication, is left out, and so is all
\* that needs no code.
Reauth(h, b, code) ==
    /\ Accepted(cookie[b]) /\ Own(b).provider = "local" /\ Own(b).factor = "on"
    /\ code \in Own(b).codes
    /\ Begin(h, Request("reauth", "accept", b, cookie[b].id, Own(b), Own(b), code))

\* A local user's own change: the session is kept, the others are revoked.
ChangeAccount(h, b, code, new) ==
    /\ Accepted(cookie[b]) /\ Own(b).provider = "local"
    /\ code \in Own(b).codes \cup {NoCode}
    /\ Begin(h, Request("account", "commit", b, cookie[b].id, Own(b), Resealed(new), code))

ChangePassword(h, b) == ChangeAccount(h, b, NoCode, [Own(b) EXCEPT !.password = Fresh])

TotpPrepare(h, b) ==
    ChangeAccount(h, b, NoCode, [Own(b) EXCEPT !.factor = "prepared", !.codes = {}])

TotpEnable(h, b) ==
    /\ Accepted(cookie[b]) /\ Own(b).factor # "off"
    /\ ChangeAccount(h, b, NoCode, [Own(b) EXCEPT !.factor = "on", !.codes = FreshCodes])

TotpDisable(h, b, code) ==
    /\ Accepted(cookie[b]) /\ Own(b).factor # "off"
    /\ ChangeAccount(h, b, code, [Own(b) EXCEPT !.factor = "off", !.codes = {}])

RegenerateCodes(h, b, code) ==
    /\ Accepted(cookie[b]) /\ Own(b).factor = "on"
    /\ ChangeAccount(h, b, code, [Own(b) EXCEPT !.codes = FreshCodes])

TotpCancel(h, b) ==
    /\ Accepted(cookie[b]) /\ Own(b).factor # "on"
    /\ ChangeAccount(h, b, NoCode, [Own(b) EXCEPT !.factor = "off", !.codes = {}])

-----------------------------------------------------------------------------
(* /users: an administrator creates, edits and deletes.                     *)

\* The groups of the form that exist (_groups_from_form).
CreateUser(h, b, role, active, provider, members) ==
    /\ Admitted(b, "admin") /\ members \subseteq groups
    /\ Begin(h, Request("create", "insert", b, 0, NoUser,
                        NewRow(role, active, provider,
                               IF provider = "local" THEN Fresh ELSE 0, members), NoCode))

\* The target is read after current_user was, unless it is current_user.
BeginManage(h, b, op, i) ==
    /\ op \in {"edit", "delete"} /\ Admitted(b, "admin")
    /\ Begin(h, Request(op, IF i = cookie[b].id THEN "decide" ELSE "load", b, i,
                        IF i = cookie[b].id THEN Own(b) ELSE NoUser, NoUser, NoCode))

Load(h) ==
    /\ At(h, "load")
    /\ LET i == request[h].id IN
       request' = [request EXCEPT ![h] =
           IF Exists(i) THEN [@ EXCEPT !.stage = "decide", !.loaded = Row(i)] ELSE Idle]
    /\ UNCHANGED <<user, groups, cookie, histories, beside, clock>>

\* Mutant of WouldBeLast: administrators who sign in by OIDC count too.
WouldBeLastAdmin(i, loaded) ==
    IsLocalAdmin(loaded) /\ {j \in Existing \ {i} : user[j].role = "admin" /\ user[j].active} = {}
\* _active_local_admin_count counts the rows as they are now.
WouldBeLast(i, loaded) == IsLocalAdmin(loaded) /\ LocalAdmins \ {i} = {}

Refuse(h) == Finish(h)

\* Mutant of Edited: a new provider leaves the second factor behind.
EditedKeepingFactor(row, role, active, provider, password, members) ==
    [row EXCEPT !.role = role, !.active = active, !.provider = provider, !.groups = members,
                !.factor = IF provider = row.provider THEN @ ELSE "off",
                !.password = IF password # 0 THEN password
                             ELSE IF provider = "oidc" THEN 0 ELSE @]
\* What user_edit makes of the row; a new provider drops the second factor.
Edited(row, role, active, provider, password, members) ==
    LET kept == IF provider = row.provider THEN row
                ELSE [row EXCEPT !.factor = "off", !.codes = {},
                                 !.password = IF provider = "oidc" THEN 0 ELSE @]
    IN  [kept EXCEPT !.role = role, !.active = active, !.provider = provider,
                     !.groups = members, !.password = IF password = 0 THEN @ ELSE password]

Edit(h, role, active, provider, renew, members) ==
    /\ At(h, "decide") /\ request[h].op = "edit" /\ members \subseteq groups
    /\ LET r == request[h]
           own == r.id = r.session.id
           password == IF renew THEN r.number ELSE 0
           removes == ~(role = "admin" /\ active /\ provider = "local")
       IN  IF \/ own /\ (~active \/ role # "admin")
              \/ removes /\ WouldBeLast(r.id, r.loaded)
              \/ provider = "local" /\ r.loaded.provider # "local" /\ password = 0
           THEN Refuse(h)
           ELSE request' = [request EXCEPT ![h].stage = "commit",
                   ![h].others = LocalAdmins \ {r.id} # {},
                   ![h].new = Resealed(Edited(r.loaded, role, active, provider, password, members))]
    /\ UNCHANGED <<user, groups, cookie, histories, beside, clock>>

Delete(h) ==
    /\ At(h, "decide") /\ request[h].op = "delete"
    /\ LET r == request[h] IN
       IF r.id = r.session.id \/ WouldBeLast(r.id, r.loaded) THEN Refuse(h)
       ELSE request' = [request EXCEPT ![h].stage = "delete",
                                       ![h].others = LocalAdmins \ {r.id} # {}]
    /\ UNCHANGED <<user, groups, cookie, histories, beside, clock>>

\* /groups: a new group (its name, colour and icon are in Devices).
CreateGroup(h, b, g) ==
    /\ Admitted(b, "admin") /\ g \notin groups
    /\ Take(h)
    /\ groups' = groups \cup {g}
    /\ UNCHANGED <<user, cookie, request, histories>>

\* group_delete has the group and current_user.
BeginDeleteGroup(h, b, g) ==
    /\ Admitted(b, "admin") /\ g \in groups
    /\ Begin(h, Request("group", "clear", b, g, Own(b), NoUser, NoCode))

-----------------------------------------------------------------------------
(* db.session.commit()                                                      *)

\* INSERT: SQLite hands out the largest id plus one (no AUTOINCREMENT).
IsNextId(i) == i - 1 \in Existing \cup {0} /\ \A j \in Existing : j < i

CommitInsert(h) ==
    /\ At(h, "insert")
    /\ LET r == request[h] IN
       /\ Commits(r.new.groups \subseteq groups /\ (r.op = "setup" => Existing = {}))
       /\ accounts' = accounts + 1
       /\ setups' = setups + IF r.op = "setup" THEN 1 ELSE 0
       /\ \E i \in Ids :
             /\ IsNextId(i)
             /\ user' = [user EXCEPT ![i] = [r.new EXCEPT !.account = accounts + 1]]
             /\ IF r.op = "create" THEN Finish(h)
                ELSE request' = [request EXCEPT ![h].stage = "start", ![h].id = i,
                                                ![h].loaded = user'[i]]
    /\ UNCHANGED <<groups, cookie, spent, replayed, beside, clock>>

CommitUpdate(h) ==
    /\ At(h, "commit")
    /\ LET r == request[h] IN
       IF Updatable(r.id, r.loaded, r.new)
       THEN /\ user' = [user EXCEPT ![r.id] = Updated(@, r.loaded, r.new)]
            /\ Accept(r.code, TRUE)
            /\ Commits(r.new = r.loaded \/
                       /\ AsLoaded(r) /\ r.new.groups \subseteq groups
                       /\ TakesAdmin(r) => r.others = (LocalAdmins \ {r.id} # {}))
            /\ IF r.op \in {"account", "edit"}
                  THEN Revoke({user[r.id].account}, IF r.op = "account" THEN r.browser ELSE NoCookie)
                  ELSE UNCHANGED cookie
            /\ CASE r.op = "edit" -> Finish(h)
                 [] r.op = "account" -> Go(h, "keep")
                 [] OTHER -> Go(h, "start")
       ELSE Finish(h) /\ UNCHANGED <<user, spent, replayed, overtaken, cookie>>
    /\ UNCHANGED <<groups, setups, accounts, beside, clock>>

\* The code was looked up in the row that app_before_request had loaded.
AcceptReauth(h) ==
    /\ At(h, "accept")
    /\ Accept(request[h].code, FALSE)
    /\ Commits(AsLoaded(request[h]))
    /\ Finish(h)
    /\ UNCHANGED <<user, groups, cookie, setups, accounts, beside, clock>>

\* Mutant of Cleared: only the version changes.
ClearedUnsigned(row, g) == Bump([row EXCEPT !.groups = @ \ {g}])
\* What group_delete makes of a member.
Cleared(row, g) == Resealed([row EXCEPT !.groups = @ \ {g}])

\* Every member is signed again in the transaction that deletes the group.  It
\* is open since the devices were updated, before the members were read; only
\* current_user stays as it was loaded.
CommitDeleteGroup(h) ==
    /\ At(h, "clear")
    /\ LET r == request[h]
           g == r.id
           Loaded(i) == IF i = r.session.id THEN r.loaded ELSE Row(i)
           New(i) == Updated(user[i], Loaded(i), Cleared(Loaded(i), g))
       IN  /\ Commits(\A i \in Members(g) : Loaded(i) = Row(i))
           /\ user' = [i \in Ids |-> IF i \in Members(g)
                                      THEN [New(i) EXCEPT !.groups = @ \ {g}] ELSE user[i]]
           /\ groups' = groups \ {g}
           /\ Revoke({user[i].account : i \in Members(g)}, NoCookie)
    /\ Finish(h)
    /\ UNCHANGED <<spent, replayed, setups, accounts, beside, clock>>

CommitDelete(h) ==
    /\ At(h, "delete")
    /\ LET r == request[h] IN
       /\ Commits(/\ AsLoaded(r)
                  /\ TakesAdmin(r) => r.others = (LocalAdmins \ {r.id} # {}))
       /\ user' = [user EXCEPT ![r.id] = NoUser]
    /\ Finish(h)
    /\ UNCHANGED <<groups, cookie, spent, replayed, setups, accounts, beside, clock>>

\* The commit expired the row: the version that goes into the cookie is read again.
StartSession(h) ==
    /\ At(h, "start")
    /\ LET r == request[h] IN
       cookie' = IF Exists(r.id) /\ user[r.id].active
                 THEN [cookie EXCEPT ![r.browser] =
                           Session(r.id, user[r.id].version, r.loaded.account)]
                 ELSE cookie
    /\ Finish(h)
    /\ UNCHANGED <<user, groups, histories, beside, clock>>

\* The session goes on, though another change may have ended it since the commit.
KeepSession(h) ==
    /\ At(h, "keep")
    /\ LET r == request[h]
           s == cookie[r.browser]
           ended == IsSession(s) /\ s.account = r.session.account /\ s.revoked
       IN  /\ Commits(Exists(r.id) => user[r.id].version = r.new.version)
           /\ cookie' = IF Exists(r.id)
                        THEN [cookie EXCEPT ![r.browser] =
                                 [Session(r.id, user[r.id].version, r.session.account)
                                     EXCEPT !.revoked = ended]]
                        ELSE cookie
    /\ Finish(h)
    /\ UNCHANGED <<user, groups, spent, replayed, setups, accounts, beside, clock>>

-----------------------------------------------------------------------------
\* An administrator there is already; the first one has a second factor.
Founder(i) ==
    LET row == [NewRow("admin", TRUE, "local", 0, {}) EXCEPT !.account = i]
    IN  IF i = 1 THEN Sign([row EXCEPT !.factor = "on", !.codes = {0} \X CodeNames]) ELSE row

\* A fresh installation, or one with local administrators.
Init ==
    /\ \E n \in Administrators :
          /\ 1..n \subseteq Ids
          /\ user = [i \in Ids |-> IF i \in 1..n THEN Founder(i) ELSE NoUser]
          /\ accounts = n
          /\ setups = IF n = 0 THEN 0 ELSE 1
    /\ groups = Groups
    /\ cookie = [b \in Browsers |-> NoCookie]
    /\ request = [h \in Handlers |-> Idle]
    /\ spent = {} /\ replayed = {} /\ overtaken = FALSE
    /\ beside = 0 /\ clock = 0

Visit(h, b) ==
    \/ Rejected(h, b) \/ Logout(h, b) \/ Setup(h, b) \/ OidcLogin(h, b) \/ PendingDropped(h, b)
    \/ \E i \in Ids : Login(h, b, i)
    \/ \E code \in AllCodes \cup {NoCode} : SecondFactor(h, b, code)

ManageOwn(h, b) ==
    \/ ChangePassword(h, b) \/ TotpPrepare(h, b) \/ TotpEnable(h, b) \/ TotpCancel(h, b)
    \/ \E code \in AllCodes \cup {NoCode} :
          TotpDisable(h, b, code) \/ RegenerateCodes(h, b, code) \/ Reauth(h, b, code)

Manage(h, b) ==
    \/ \E role \in Roles, active \in BOOLEAN, provider \in Providers, members \in SUBSET groups :
          CreateUser(h, b, role, active, provider, members)
    \/ \E g \in Groups : CreateGroup(h, b, g) \/ BeginDeleteGroup(h, b, g)
    \/ \E op \in {"edit", "delete"}, i \in Ids : BeginManage(h, b, op, i)

Proceed(h) ==
    \/ Load(h) \/ Delete(h) \/ CommitInsert(h) \/ CommitUpdate(h) \/ CommitDelete(h)
    \/ CommitDeleteGroup(h) \/ AcceptReauth(h) \/ StartSession(h) \/ KeepSession(h)
    \/ \E role \in Roles, active \in BOOLEAN, provider \in Providers, renew \in BOOLEAN,
         members \in SUBSET groups : Edit(h, role, active, provider, renew, members)

Next == \E h \in Handlers : Proceed(h) \/ \E b \in Browsers : Visit(h, b) \/ ManageOwn(h, b) \/ Manage(h, b)

Spec == Init /\ [][Next]_vars

-----------------------------------------------------------------------------
(* Properties                                                               *)

AccountsTypeOK ==
    /\ user \in [Ids -> Rows \cup {NoUser}]
    /\ \A h \in Handlers : request[h] # Idle =>
           request[h].stage \in {"insert", "load", "decide", "commit", "accept", "delete", "clear",
                                 "start", "keep"}
    /\ groups \subseteq Groups /\ setups <= accounts /\ clock \in 0..MaxRequests
    /\ ~overtaken => \A i \in Existing : user[i].codes # {} => user[i].factor = "on"

(* Requests overlap.  As long as none has committed although the row it had *)
(* loaded, the groups it gives or the administrators it had counted changed *)
(* meanwhile, the following hold; without that condition TLC refutes each.  *)

\* Every user in the table verifies under the signing key: an administrator or
\* user who only used the application is never told that "the security data of
\* this account were changed" (line 1528) and locked out.
SignaturesVerify == ~overtaken => \A i \in Existing : Verifies(Row(i))

\* ADMIN-GUIDE.md:155: "The current administrator and the last active local
\* administrator are protected from accidental removal, deactivation or demotion."
LocalAdminRemains == ~overtaken => (accounts > 0 => LocalAdmins # {})

\* SECURITY-REPORT.md:33: "Security-relevant account changes revoke existing
\* sessions": a session that a change revoked is never accepted again for its
\* account, whatever is changed afterwards and whichever answer comes late.
ChangesRevokeSessions ==
    ~overtaken => \A b \in Browsers :
        Accepted(cookie[b]) /\ cookie[b].account = user[cookie[b].id].account => ~cookie[b].revoked

\* A recovery code that a login or a change of the second factor has taken off
\* the row is never accepted again, at /reauth neither (line 4086; the 0.5.0
\* release notes call the codes "einmalig nutzbar").
CodesUsedOnce == ~overtaken => replayed = {}

\* An accepted session belongs to the account that signed in, over deletions
\* and new accounts.
SessionsBelongToTheirAccount ==
    \A b \in Browsers : Accepted(cookie[b]) => cookie[b].account = user[cookie[b].id].account

\* The setup token is "one-time" (ADMIN-GUIDE.md:113): /setup makes one administrator.
OneAdminBySetup == setups <= 1
=============================================================================
