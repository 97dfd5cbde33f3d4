---------------------------- MODULE Accounts_proofs ----------------------------
(***************************************************************************)
(* What the account rules guarantee for any users, groups, browsers and    *)
(* any number of requests and request threads that overlap in any way.     *)
(* SafeInv holds as long as no request has committed on what had changed   *)
(* since it read it; TypeInv always.  What is known of a request under way *)
(* speaks of the row it has loaded, not of the table: others may have      *)
(* changed that since.  The commits compare the two.                       *)
(***************************************************************************)
EXTENDS Accounts, TLAPS

Sessions == [kind : {"session"}, id : Ids, version : Nat, account : Nat, revoked : BOOLEAN]
Pendings == [kind : {"pending"}, id : Ids]
Cookies == {NoCookie} \cup Sessions \cup Pendings

IsRequest(r) ==
    r = [op |-> r.op, stage |-> r.stage, browser |-> r.browser, id |-> r.id,
         session |-> r.session, loaded |-> r.loaded, new |-> r.new, code |-> r.code,
         others |-> r.others, number |-> r.number]

Stages == {"insert", "load", "decide", "commit", "accept", "delete", "clear", "start", "keep"}

RequestType(r) ==
    /\ IsRequest(r) /\ r.browser \in Browsers /\ r.stage \in Stages
    /\ r.stage \notin {"insert", "clear"} => r.id \in Ids
    /\ r.stage \in {"decide", "commit", "accept", "delete", "clear"} => r.loaded \in Rows
    /\ r.stage \in {"insert", "commit"} => r.new \in Rows
    /\ r.stage = "start" => r.loaded.account \in Nat
    /\ r.stage = "keep" \/ r.op = "account" => r.session.account \in Nat

TypeInv ==
    /\ user \in [Ids -> Rows \cup {NoUser}] /\ groups \subseteq Groups
    /\ accounts \in Nat /\ setups \in Nat /\ setups <= accounts
    /\ clock \in 0..MaxRequests /\ overtaken \in BOOLEAN
    /\ cookie \in [Browsers -> Cookies]
    /\ request = [h \in Handlers |-> request[h]]
    /\ \A h \in Handlers : request[h] # Idle =>
           RequestType(request[h]) /\ request[h].number \in 1..clock

-----------------------------------------------------------------------------
(* As long as nothing was overtaken                                         *)

\* Users verify, and share neither a history nor recovery codes.
UsersInv ==
    /\ \A i \in Existing :
           /\ Verifies(user[i]) /\ user[i].groups \subseteq groups /\ user[i].account <= accounts
           /\ user[i].codes # {} => user[i].factor = "on"
    /\ \A i, j \in Existing : i # j =>
           user[i].account # user[j].account /\ user[i].codes \cap user[j].codes = {}

AdminInv == (accounts > 0 => LocalAdmins # {}) /\ (accounts = 0 => Existing = {})

\* No session is newer than its user, and a revoked one is older.
SessionsInv ==
    \A b \in Browsers : IsSession(cookie[b]) =>
        /\ cookie[b].account <= accounts
        /\ Exists(cookie[b].id) /\ user[cookie[b].id].account = cookie[b].account =>
               /\ cookie[b].version <= user[cookie[b].id].version
               /\ cookie[b].revoked => cookie[b].version < user[cookie[b].id].version

\* The codes that users have, or had and spent.
Held == spent \cup UNION {user[i].codes : i \in Existing}

\* A code that was spent is nobody's, and none is newer than the last request.
CodesInv ==
    /\ Held \subseteq AllCodes /\ \A c \in Held : c[1] <= clock
    /\ \A i \in Existing : user[i].codes \cap spent = {}
    /\ NoCode \notin spent /\ replayed = {}

CommitOK(r) ==
    /\ Verifies(r.new) /\ r.new.account = r.loaded.account /\ r.loaded.account \in 0..accounts
    /\ r.new.codes # {} => r.new.factor = "on"
    /\ r.loaded.version <= r.new.version
    /\ r.op \in {"account", "edit"} => r.loaded.version < r.new.version
    /\ r.op # "delete" /\ (TakesAdmin(r) => r.others = TRUE)
    /\ r.new.codes \subseteq r.loaded.codes \cup ({r.number} \X CodeNames)
    /\ r.code # NoCode => r.code \in r.loaded.codes \ r.new.codes

InsertOK(r) ==
    /\ Verifies(r.new) /\ r.new.codes = {}
    /\ IF r.op = "setup" THEN IsLocalAdmin(r.new) ELSE accounts > 0

RequestOK(r) ==
    /\ r.stage = "insert" => InsertOK(r)
    /\ r.stage \in {"load", "decide"} => r.op \in {"edit", "delete"} /\ r.code = NoCode
    /\ r.stage = "decide" =>
           /\ r.loaded.account \in 0..accounts
           /\ r.loaded.codes # {} => r.loaded.factor = "on"
    /\ r.stage = "commit" => CommitOK(r)
    /\ r.stage = "accept" => r.code \in r.loaded.codes
    /\ r.stage = "delete" => r.op = "delete" /\ (IsLocalAdmin(r.loaded) => r.others = TRUE)
    /\ r.stage = "start" => r.loaded.account \in 0..accounts
    /\ r.stage = "keep" => r.op = "account"
    /\ r.op = "account" => r.session.account \in 0..accounts

\* The codes that a request may still store are its own.
Unused(n) == \A c \in Held : c[1] # n

\* The version a change of one's own account goes by.
Basis(r) == IF r.stage = "commit" THEN r.loaded.version ELSE r.new.version

\* The session of the browser that changes its own account was not ended by
\* another change, unless the table is newer than what the request goes by.
KeepOK(r) ==
    (/\ r.op = "account" /\ r.stage \in {"commit", "keep"}
     /\ Exists(r.id) /\ user[r.id].account = r.session.account) =>
        /\ Basis(r) \in Nat /\ Basis(r) <= user[r.id].version
        /\ IsSession(cookie[r.browser]) /\ cookie[r.browser].account = r.session.account
               /\ cookie[r.browser].revoked => Basis(r) < user[r.id].version

SafeRequest(r) ==
    /\ RequestOK(r) /\ KeepOK(r)
    /\ r.stage \in {"load", "decide", "commit"} => Unused(r.number)

RequestInv ==
    /\ \A h \in Handlers : request[h] # Idle => SafeRequest(request[h])
    /\ \A g, h \in Handlers : g # h /\ request[g] # Idle /\ request[h] # Idle =>
           request[g].number # request[h].number

SafeInv == UsersInv /\ AdminInv /\ SessionsInv /\ CodesInv /\ RequestInv

IInv == TypeInv /\ (~overtaken => SafeInv)

-----------------------------------------------------------------------------
(* Rows                                                                     *)

LEMMA SignedRow ==
    ASSUME NEW r \in Rows
    PROVE  /\ Sign(r) \in Rows /\ Verifies(Sign(r))
           /\ Sign(r) = [r EXCEPT !.signature = Sign(r).signature]
  BY DEF Sign, Verifies, Payload, Rows, Payloads

\* The columns a request does not want to change when it bumps and signs.
Kept(r, s) ==
    /\ r.role = s.role /\ r.active = s.active /\ r.provider = s.provider
    /\ r.factor = s.factor /\ r.codes = s.codes /\ r.groups = s.groups /\ r.account = s.account

LEMMA ResealedRow ==
    ASSUME NEW r \in Rows
    PROVE  /\ Resealed(r) \in Rows /\ Verifies(Resealed(r))
           /\ Resealed(r).version = r.version + 1 /\ Kept(Resealed(r), r)
<1>1. Bump(r) \in Rows /\ Bump(r).version = r.version + 1 /\ Kept(Bump(r), r)
  BY DEF Bump, Rows, Kept
<1> QED
  BY <1>1, SignedRow DEF Resealed, Rows, Kept

LEMMA UpdatedIsNew ==
    ASSUME NEW r \in Rows, NEW n \in Rows
    PROVE  Updated(r, r, n) = n
  BY DEF Updated, Rows

LEMMA NewRowSigned ==
    ASSUME NEW role, NEW active, NEW provider, NEW password, NEW members, NEW p
    PROVE  [[role |-> role, active |-> active, provider |-> provider, password |-> password,
             factor |-> "off", codes |-> {}, version |-> 1, groups |-> members,
             signature |-> <<>>, account |-> 0] EXCEPT !.signature = p] =
           [role |-> role, active |-> active, provider |-> provider, password |-> password,
            factor |-> "off", codes |-> {}, version |-> 1, groups |-> members,
            signature |-> p, account |-> 0]
  OBVIOUS

LEMMA NewRowOK ==
    ASSUME NEW role \in Roles, NEW active \in BOOLEAN, NEW provider \in Providers,
           NEW password \in Nat, NEW members \in SUBSET Groups
    PROVE  LET r == NewRow(role, active, provider, password, members)
           IN  /\ r \in Rows /\ Verifies(r) /\ r.groups = members /\ r.codes = {}
               /\ role = "admin" /\ active = TRUE /\ provider = "local" => IsLocalAdmin(r)
<1> DEFINE p == [role |-> role, active |-> active, provider |-> provider, password |-> password,
                 factor |-> "off", codes |-> {}, version |-> 1, groups |-> members]
           r == NewRow(role, active, provider, password, members)
<1>1. p \in Payloads
  BY DEF Payloads, Factors
<1>2. r = [role |-> role, active |-> active, provider |-> provider, password |-> password,
           factor |-> "off", codes |-> {}, version |-> 1, groups |-> members,
           signature |-> p, account |-> 0]
  <2> DEFINE s == [role |-> role, active |-> active, provider |-> provider, password |-> password,
                   factor |-> "off", codes |-> {}, version |-> 1, groups |-> members,
                   signature |-> <<>>, account |-> 0]
  <2>1. Payload(s) = p
    BY DEF Payload
  <2>2. r = [s EXCEPT !.signature = p]
    BY <2>1 DEF NewRow, Sign
  <2> QED
    BY <2>2, NewRowSigned
<1>3. r \in Rows
  BY <1>1, <1>2 DEF Rows, Factors
<1>4. Payload(r) = p
  BY <1>2 DEF Payload
<1> QED
  BY <1>2, <1>3, <1>4 DEF Verifies, IsLocalAdmin

LEMMA UpdatedIsTyped ==
    ASSUME NEW r \in Rows, NEW l \in Rows, NEW n \in Rows
    PROVE  Updated(r, l, n) \in Rows
<1> DEFINE u == Updated(r, l, n)
<1>1. u.groups \in SUBSET Groups
  BY DEF Updated, Rows
<1>2. /\ u.role \in Roles /\ u.active \in BOOLEAN /\ u.provider \in Providers /\ u.password \in Nat
      /\ u.factor \in Factors /\ u.codes \in SUBSET AllCodes /\ u.version \in Nat \ {0}
      /\ u.signature \in Payloads /\ u.account \in Nat
  BY DEF Updated, Rows
<1> DEFINE w == [role |-> u.role, active |-> u.active, provider |-> u.provider,
                 password |-> u.password, factor |-> u.factor, codes |-> u.codes,
                 version |-> u.version, groups |-> u.groups, signature |-> u.signature,
                 account |-> u.account]
<1>3. w \in Rows
  <2> HIDE DEF u
  <2> QED
    BY <1>1, <1>2 DEF Rows
<1>4. DOMAIN w = DOMAIN r /\ DOMAIN u = DOMAIN r
  BY DEF Updated, Rows
<1>5. \A c \in DOMAIN w : u[c] = w[c]
  <2> HIDE DEF u
  <2> QED
    OBVIOUS
<1>6. u = [c \in DOMAIN r |-> u[c]] /\ w = [c \in DOMAIN r |-> w[c]]
  <2>1. u = [c \in DOMAIN r |-> u[c]]
    BY DEF Updated
  <2>2. w = [c \in DOMAIN w |-> w[c]]
    OBVIOUS
  <2> QED
    BY <1>4, <2>1, <2>2
<1> HIDE DEF u, w
<1>7. \A c \in DOMAIN r : u[c] = w[c]
  BY <1>4, <1>5
<1>8. [c \in DOMAIN r |-> u[c]] = [c \in DOMAIN r |-> w[c]]
  BY <1>7
<1>9. u = w
  BY <1>6, <1>8
<1> QED
  BY <1>3, <1>9 DEF u

LEMMA UpdatedByNothing ==
    ASSUME NEW r \in Rows, NEW l \in Rows
    PROVE  Updated(r, l, l) = r
  BY DEF Updated, Rows

LEMMA UsersAreRows == ASSUME TypeInv, NEW i \in Existing PROVE i \in Ids /\ user[i] \in Rows
  BY DEF TypeInv, Existing, Exists

\* What the application loads: the row without memberships that lead nowhere.
LEMMA RowIsTyped ==
    ASSUME TypeInv, NEW i \in Existing
    PROVE  /\ Row(i) \in Rows /\ Row(i).account = user[i].account
           /\ UsersInv => Row(i) = user[i]
<1>1. user[i] \in Rows
  BY UsersAreRows
<1>2. UsersInv => user[i].groups \cap groups = user[i].groups
  BY DEF UsersInv
<1> QED
  BY <1>1, <1>2 DEF Row, Rows

-----------------------------------------------------------------------------
(* Steps                                                                    *)

\* The types after a step of one handler, whose request becomes r.
LEMMA TypeKept ==
    ASSUME TypeInv, NEW h \in Handlers, NEW r, request' = [request EXCEPT ![h] = r],
           r # Idle => RequestType(r) /\ r.number \in 1..clock',
           user' \in [Ids -> Rows \cup {NoUser}], groups' \subseteq Groups,
           accounts' \in Nat, setups' \in Nat, setups' <= accounts',
           clock' \in clock..MaxRequests, overtaken' \in BOOLEAN,
           cookie' \in [Browsers -> Cookies]
    PROVE  TypeInv'
<1>1. clock \in Nat /\ clock' \in Nat /\ clock <= clock' /\ clock' <= MaxRequests /\ MaxRequests \in Nat
  BY AccountsAssumption DEF TypeInv
<1>2. request' = [g \in Handlers |-> request'[g]] /\ request'[h] = r
      /\ \A g \in Handlers \ {h} : request'[g] = request[g]
  BY DEF TypeInv
<1>3. ASSUME NEW g \in Handlers, request'[g] # Idle
      PROVE  RequestType(request'[g]) /\ request'[g].number \in 1..clock'
  <2>1. CASE g = h
    BY <1>2, <1>3, <2>1
  <2>2. CASE g # h
    <3>1. RequestType(request[g]) /\ request[g].number \in 1..clock /\ request'[g] = request[g]
      BY <1>2, <1>3, <2>2 DEF TypeInv
    <3> QED
      BY <1>1, <3>1
  <2> QED
    BY <2>1, <2>2
<1>4. \A g \in Handlers : request'[g] # Idle =>
         RequestType(request'[g]) /\ request'[g].number \in 1..clock'
  BY <1>3
<1>5. (\A g \in Handlers : request[g] # Idle =>
         RequestType(request[g]) /\ request[g].number \in 1..clock)'
  BY <1>4 DEF RequestType
<1>6. clock' \in 0..MaxRequests
  BY <1>1
<1> QED
  BY <1>2, <1>5, <1>6 DEF TypeInv

\* What is known of a request under way depends on few variables.
LEMMA RequestKept ==
    ASSUME accounts \in Nat, accounts' \in Nat, accounts <= accounts', NEW r, RequestOK(r)
    PROVE  RequestOK(r)'
  BY DEF RequestOK, InsertOK, CommitOK

\* Every other request may go on as before.
LEMMA RequestsKept ==
    ASSUME TypeInv, SafeInv, NEW h \in Handlers, NEW r, request' = [request EXCEPT ![h] = r],
           r # Idle => SafeRequest(r)',
           r # Idle => \A g \in Handlers \ {h} : request[g] # Idle => request[g].number # r.number,
           \A g \in Handlers \ {h} : request[g] # Idle /\ SafeRequest(request[g])
                                     => \A q : q = request[g] => SafeRequest(q)'
    PROVE  RequestInv'
<1>1. request'[h] = r /\ \A g \in Handlers \ {h} : request'[g] = request[g]
  BY DEF TypeInv
<1>2. ASSUME NEW g \in Handlers, NEW q, q = request'[g], q # Idle
      PROVE  SafeRequest(q)'
  <2>1. CASE g = h
    BY <1>1, <1>2, <2>1
  <2>2. CASE g # h
    BY <1>1, <1>2, <2>2 DEF SafeInv, RequestInv
  <2> QED
    BY <2>1, <2>2
<1>3. \A g \in Handlers : request'[g] # Idle => SafeRequest(request[g])'
  <2> SUFFICES ASSUME NEW g \in Handlers, request'[g] # Idle
               PROVE  SafeRequest(request[g])'
    OBVIOUS
  <2>1. PICK q : q = request'[g]
    OBVIOUS
  <2>2. SafeRequest(q)'
    BY <1>2, <2>1
  <2> QED
    BY <2>1, <2>2 DEF SafeRequest, RequestOK, InsertOK, CommitOK, KeepOK, Unused, Basis, TakesAdmin
<1>4. \A f, g \in Handlers : f # g /\ request'[f] # Idle /\ request'[g] # Idle =>
         request'[f].number # request'[g].number
  BY <1>1 DEF SafeInv, RequestInv
<1> QED
  BY <1>3, <1>4 DEF RequestInv

\* The numbers of requests stay apart.
NumberOK(h, r) ==
    \/ request[h] # Idle /\ r.number = request[h].number
    \/ clock' = clock + 1 /\ r.number = clock'

LEMMA NumbersApart ==
    ASSUME TypeInv, SafeInv, NEW h \in Handlers, NEW r, NumberOK(h, r)
    PROVE  \A g \in Handlers \ {h} : request[g] # Idle => request[g].number # r.number
<1> SUFFICES ASSUME NEW g \in Handlers \ {h}, request[g] # Idle
             PROVE  request[g].number # r.number
  OBVIOUS
<1>1. request[g].number \in 1..clock /\ clock \in Nat
  BY DEF TypeInv
<1>2. request[h] # Idle => request[g].number # request[h].number
  BY DEF SafeInv, RequestInv
<1> QED
  BY <1>1, <1>2 DEF NumberOK

\* A step that touches nothing but the request of one handler, the clock, and
\* groups that nobody can be in yet.
LEMMA QuietStep ==
    ASSUME IInv, NEW h \in Handlers, NEW r, request' = [request EXCEPT ![h] = r],
           UNCHANGED <<user, cookie, spent, setups, accounts>>,
           groups \subseteq groups', groups' \subseteq Groups, clock' \in clock..MaxRequests,
           overtaken' \in BOOLEAN, overtaken => overtaken', ~overtaken' => replayed' = replayed,
           r # Idle => RequestType(r) /\ r.number \in 1..clock' /\ NumberOK(h, r),
           r # Idle /\ ~overtaken' => SafeRequest(r)
    PROVE  IInv'
<1>1. TypeInv'
  BY TypeKept DEF IInv, TypeInv
<1>2. ASSUME ~overtaken' PROVE SafeInv'
  <2>1. SafeInv /\ TypeInv /\ clock \in Nat /\ clock <= clock' /\ clock' \in Nat /\ accounts \in Nat
    BY <1>2, AccountsAssumption DEF IInv, TypeInv
  <2>2. Existing' = Existing /\ LocalAdmins' = LocalAdmins /\ Held' = Held
    BY DEF Existing, Exists, LocalAdmins, Held
  <2>3. UsersInv' /\ AdminInv' /\ SessionsInv'
    BY <2>1, <2>2 DEF SafeInv, UsersInv, AdminInv, SessionsInv, Verifies, Payload, Exists
  <2>4. CodesInv'
    <3>1. \A c \in Held : c[1] \in Nat /\ c[1] <= clock
      BY <2>1, AccountsAssumption DEF SafeInv, CodesInv, AllCodes
    <3>2. \A c \in Held : c[1] <= clock'
      BY <2>1, <3>1
    <3> QED
      BY <1>2, <2>1, <2>2, <3>2 DEF SafeInv, CodesInv
  <2>5. \A q : SafeRequest(q) => SafeRequest(q)'
    <3> SUFFICES ASSUME NEW q, SafeRequest(q) PROVE SafeRequest(q)'
      OBVIOUS
    <3>1. RequestOK(q)'
      BY <2>1, RequestKept DEF SafeRequest
    <3>2. KeepOK(q)' /\ (Unused(q.number) => Unused(q.number)')
      BY <2>2 DEF SafeRequest, KeepOK, Unused, Exists, Basis
    <3> QED
      BY <3>1, <3>2 DEF SafeRequest
  <2>6. RequestInv'
    BY <1>2, <2>1, <2>5, NumbersApart, RequestsKept
  <2> QED
    BY <2>3, <2>4, <2>6 DEF SafeInv
<1> QED
  BY <1>1, <1>2 DEF IInv

\* A step that touches nothing but one browser's session and ends a request.
LEMMA CookieStep ==
    ASSUME IInv, NEW h \in Handlers, NEW b \in Browsers, NEW s,
           UNCHANGED <<user, groups, spent, replayed, setups, accounts>>,
           clock' \in clock..MaxRequests, request' = [request EXCEPT ![h] = Idle],
           overtaken' \in BOOLEAN, overtaken => overtaken',
           cookie' = [cookie EXCEPT ![b] = s], s \in Cookies,
           ~overtaken' /\ IsSession(s) =>
               /\ s.account <= accounts
               /\ Exists(s.id) /\ user[s.id].account = s.account =>
                      ~s.revoked /\ s.version <= user[s.id].version
               /\ s.revoked => /\ IsSession(cookie[b]) /\ cookie[b].revoked
                               /\ cookie[b].account = s.account
    PROVE  IInv'
<1>1. TypeInv'
  <2>1. cookie' \in [Browsers -> Cookies]
    BY DEF IInv, TypeInv
  <2> QED
    BY <2>1, TypeKept DEF IInv, TypeInv
<1>2. ASSUME ~overtaken' PROVE SafeInv'
  <2>1. SafeInv /\ TypeInv /\ clock \in Nat /\ clock <= clock' /\ clock' \in Nat /\ accounts \in Nat
    BY <1>2, AccountsAssumption DEF IInv, TypeInv
  <2>2. Existing' = Existing /\ LocalAdmins' = LocalAdmins /\ Held' = Held
    BY DEF Existing, Exists, LocalAdmins, Held
  <2>3. UsersInv' /\ AdminInv'
    BY <2>1, <2>2 DEF SafeInv, UsersInv, AdminInv, Verifies, Payload, Exists
  <2>4. CodesInv'
    <3>1. \A c \in Held : c[1] \in Nat /\ c[1] <= clock
      BY <2>1, AccountsAssumption DEF SafeInv, CodesInv, AllCodes
    <3>2. \A c \in Held : c[1] <= clock'
      BY <2>1, <3>1
    <3> QED
      BY <1>2, <2>1, <2>2, <3>2 DEF SafeInv, CodesInv
  <2>5. cookie'[b] = s /\ \A c \in Browsers \ {b} : cookie'[c] = cookie[c]
    BY <2>1 DEF TypeInv
  <2>6. SessionsInv'
    <3> SUFFICES ASSUME NEW c \in Browsers, IsSession(cookie'[c])
                 PROVE  /\ cookie'[c].account <= accounts
                        /\ Exists(cookie'[c].id) /\ user[cookie'[c].id].account = cookie'[c].account =>
                              /\ cookie'[c].version <= user[cookie'[c].id].version
                              /\ cookie'[c].revoked => cookie'[c].version < user[cookie'[c].id].version
      BY DEF SessionsInv, IsSession, Exists
    <3>1. CASE c # b
      BY <2>1, <2>5, <3>1 DEF SafeInv, SessionsInv
    <3>2. CASE c = b
      BY <1>2, <2>5, <3>2
    <3> QED
      BY <3>1, <3>2
  <2>7. \A q : q # Idle /\ SafeRequest(q) => SafeRequest(q)'
    <3> SUFFICES ASSUME NEW q, SafeRequest(q) PROVE SafeRequest(q)'
      OBVIOUS
    <3>1. RequestOK(q)'
      BY <2>1, RequestKept DEF SafeRequest
    <3>2. Unused(q.number) => Unused(q.number)'
      BY <2>2 DEF Unused
    <3>3. KeepOK(q)'
      <4> SUFFICES ASSUME q.op = "account", q.stage \in {"commit", "keep"}, Exists(q.id),
                          user[q.id].account = q.session.account
                   PROVE  /\ Basis(q) \in Nat /\ Basis(q) <= user[q.id].version
                          /\ IsSession(cookie'[q.browser])
                                 /\ cookie'[q.browser].account = q.session.account
                                 /\ cookie'[q.browser].revoked => Basis(q) < user[q.id].version
        BY DEF KeepOK, Exists, Basis, IsSession
      <4>1. /\ Basis(q) \in Nat /\ Basis(q) <= user[q.id].version
            /\ IsSession(cookie[q.browser]) /\ cookie[q.browser].account = q.session.account
                   /\ cookie[q.browser].revoked => Basis(q) < user[q.id].version
        BY DEF SafeRequest, KeepOK
      <4>2. CASE q.browser = b
        BY <1>2, <2>5, <4>1, <4>2
      <4>3. CASE q.browser # b
        <5>1. cookie'[q.browser] = cookie[q.browser]
          BY <4>3
        <5> QED
          BY <4>1, <5>1
      <4> QED
        BY <4>2, <4>3
    <3> QED
      BY <3>1, <3>2, <3>3 DEF SafeRequest
  <2>8. RequestInv'
    BY <2>1, <2>7, RequestsKept
  <2> QED
    BY <2>3, <2>4, <2>6, <2>8 DEF SafeInv
<1> QED
  BY <1>1, <1>2 DEF IInv

-----------------------------------------------------------------------------
(* Requests that begin                                                      *)

LEMMA BeginStep ==
    ASSUME IInv, NEW h \in Handlers, NEW r, Begin(h, r), RequestType(r), r.number = Fresh,
           ~overtaken => RequestOK(r) /\ KeepOK(r)
    PROVE  IInv'
<1>1. /\ clock \in Nat /\ clock' = clock + 1 /\ clock' \in clock..MaxRequests
      /\ r.number \in 1..clock' /\ r.number = clock'
  BY AccountsAssumption DEF Begin, Take, Fresh, IInv, TypeInv
<1>2. UNCHANGED <<user, groups, cookie, spent, replayed, overtaken, setups, accounts>>
      /\ request' = [request EXCEPT ![h] = r]
  BY DEF Begin, histories
<1>3. overtaken \in BOOLEAN /\ groups \subseteq Groups
  BY DEF IInv, TypeInv
<1>4. ~overtaken => SafeRequest(r)
  <2> SUFFICES ASSUME ~overtaken PROVE Unused(r.number)
    BY DEF SafeRequest
  <2>1. \A c \in Held : c[1] \in Nat /\ c[1] <= clock
    BY AccountsAssumption DEF IInv, SafeInv, CodesInv, AllCodes
  <2> QED
    BY <1>1, <2>1 DEF Unused
<1>5. NumberOK(h, r)
  BY <1>1 DEF NumberOK
<1> QED
  BY <1>1, <1>2, <1>3, <1>4, <1>5, QuietStep

\* An account that is to be made.
LEMMA InsertStep ==
    ASSUME IInv, NEW h \in Handlers, NEW b \in Browsers, NEW op \in {"setup", "provision", "create"},
           NEW role \in Roles, NEW active \in BOOLEAN, NEW provider \in Providers,
           NEW password \in Nat, NEW members \in SUBSET groups,
           IF op = "setup" THEN role = "admin" /\ active = TRUE /\ provider = "local"
           ELSE Existing # {},
           Begin(h, Request(op, "insert", b, 0, NoUser,
                            NewRow(role, active, provider, password, members), NoCode))
    PROVE  IInv'
<1> DEFINE new == NewRow(role, active, provider, password, members)
           r == Request(op, "insert", b, 0, NoUser, new, NoCode)
<1>1. /\ new \in Rows /\ Verifies(new) /\ new.codes = {}
      /\ op = "setup" => IsLocalAdmin(new)
  <2>1. members \in SUBSET Groups
    BY DEF IInv, TypeInv
  <2> QED
    BY <2>1, NewRowOK
<1>2. Begin(h, r)
  OBVIOUS
<1> HIDE DEF new
<1>3. /\ IsRequest(r) /\ r.stage = "insert" /\ r.op = op /\ r.new = new /\ r.browser = b
      /\ r.number = Fresh
  BY DEF Request, IsRequest
<1> HIDE DEF r
<1>4. RequestType(r)
  BY <1>1, <1>3 DEF RequestType, Stages
<1>5. ~overtaken => RequestOK(r) /\ KeepOK(r)
  <2> SUFFICES ASSUME ~overtaken PROVE InsertOK(r)
    BY <1>3 DEF RequestOK, KeepOK
  <2>1. op # "setup" => accounts > 0
    BY DEF IInv, TypeInv, SafeInv, AdminInv
  <2> QED
    BY <1>1, <1>3, <2>1 DEF InsertOK
<1> QED
  BY <1>2, <1>3, <1>4, <1>5, BeginStep

\* Who is admitted exists, and goes by the row as it is.
LEMMA AdmittedExists ==
    ASSUME IInv, NEW b \in Browsers, Accepted(cookie[b])
    PROVE  /\ cookie[b].id \in Existing /\ cookie[b].id \in Ids /\ cookie[b].account \in Nat
           /\ Own(b) \in Rows /\ Own(b).version \in Nat
           /\ Own(b).account = user[cookie[b].id].account
           /\ ~overtaken => /\ Own(b) = user[cookie[b].id] /\ cookie[b].account \in 0..accounts
                            /\ Own(b).account \in 0..accounts
                            /\ cookie[b].account = Own(b).account => ~cookie[b].revoked
<1>1. cookie[b] \in Sessions /\ accounts \in Nat
  BY DEF IInv, TypeInv, Accepted, IsSession, Pendings, Cookies
<1>2. cookie[b].id \in Existing /\ cookie[b].id \in Ids /\ cookie[b].account \in Nat
  BY <1>1 DEF Sessions, Existing, Accepted
<1>3. /\ Own(b) \in Rows /\ Own(b).account = user[cookie[b].id].account
      /\ UsersInv => Own(b) = user[cookie[b].id]
  BY <1>2, RowIsTyped DEF Own, IInv
<1>4. Own(b).version \in Nat /\ Own(b).account \in Nat
  BY <1>3 DEF Rows
<1>5. ASSUME ~overtaken
      PROVE  /\ Own(b) = user[cookie[b].id] /\ cookie[b].account \in 0..accounts
             /\ Own(b).account \in 0..accounts
             /\ cookie[b].account = Own(b).account => ~cookie[b].revoked
  <2>1. UsersInv /\ SessionsInv
    BY <1>5 DEF IInv, SafeInv
  <2>2. Own(b) = user[cookie[b].id] /\ Own(b).account <= accounts /\ cookie[b].account <= accounts
    BY <1>2, <1>3, <2>1 DEF UsersInv, SessionsInv, Accepted
  <2>3. cookie[b].account = Own(b).account => ~cookie[b].revoked
    <3>1. cookie[b].version = Own(b).version
      BY <2>2 DEF Accepted
    <3> QED
      BY <1>2, <1>3, <1>4, <2>1, <3>1 DEF SessionsInv, Accepted
  <2> QED
    BY <1>1, <1>2, <1>4, <2>2, <2>3
<1> QED
  BY <1>2, <1>3, <1>4, <1>5

\* A login, with or without a second factor: the row is written back as it is
\* but for the recovery code.
LEMMA SignInStep ==
    ASSUME IInv, NEW h \in Handlers, NEW b \in Browsers, NEW i \in Existing,
           NEW op \in {"login", "second"}, NEW code, NEW new,
           new = Row(i) \/ new = [Row(i) EXCEPT !.codes = @ \ {code}],
           code # NoCode => code \in user[i].codes /\ code \notin new.codes,
           user[i].factor = "on" \/ new = Row(i),
           Begin(h, Request(op, "commit", b, i, Row(i), Sign(new), code))
    PROVE  IInv'
<1> DEFINE r == Request(op, "commit", b, i, Row(i), Sign(new), code)
<1>1. Row(i) \in Rows /\ (UsersInv => Row(i) = user[i]) /\ Row(i).account = user[i].account
      /\ i \in Ids
  BY RowIsTyped, UsersAreRows DEF IInv
<1>2. /\ new \in Rows /\ new.role = Row(i).role /\ new.active = Row(i).active
      /\ new.provider = Row(i).provider /\ new.groups = Row(i).groups
      /\ new.account = Row(i).account /\ new.version = Row(i).version
      /\ new.factor = Row(i).factor /\ new.codes \subseteq Row(i).codes
  BY <1>1 DEF Rows
<1>3. /\ Sign(new) \in Rows /\ Verifies(Sign(new)) /\ Kept(Sign(new), new)
      /\ Sign(new).version = new.version
  BY <1>2, SignedRow DEF Rows, Kept
<1>4. /\ r.id = i /\ r.stage = "commit" /\ r.op = op /\ r.loaded = Row(i) /\ IsRequest(r)
      /\ r.new = Sign(new) /\ r.code = code /\ r.browser = b /\ r.number = Fresh
  BY DEF Request, IsRequest
<1>5. Begin(h, r)
  OBVIOUS
<1> HIDE DEF r
<1>6. RequestType(r)
  BY <1>1, <1>3, <1>4 DEF RequestType, Stages
<1>7. ASSUME ~overtaken PROVE CommitOK(r)
  <2>1. UsersInv /\ accounts \in Nat /\ Row(i) = user[i]
    BY <1>1, <1>7 DEF IInv, TypeInv, SafeInv
  <2>2. user[i].version \in Nat /\ user[i].account \in 0..accounts
        /\ (user[i].codes # {} => user[i].factor = "on")
    BY <1>1, <2>1 DEF UsersInv, Rows
  <2>3. ~TakesAdmin(r)
    BY <1>2, <1>3, <1>4 DEF TakesAdmin, IsLocalAdmin, Kept
  <2> QED
    BY <1>2, <1>3, <1>4, <2>1, <2>2, <2>3 DEF CommitOK, Kept
<1>8. ~overtaken => RequestOK(r) /\ KeepOK(r)
  BY <1>4, <1>7 DEF RequestOK, KeepOK
<1> QED
  BY <1>4, <1>5, <1>6, <1>8, BeginStep

\* A change of one's own account; whoever changes it is revoked elsewhere.
LEMMA ChangeStep ==
    ASSUME IInv, NEW h \in Handlers, NEW b \in Browsers, NEW code, NEW new,
           ChangeAccount(h, b, code, new), new \in Rows, new.version = Own(b).version,
           new.role = Own(b).role, new.active = Own(b).active,
           new.provider = Own(b).provider, new.account = Own(b).account,
           ~overtaken /\ new.codes # {} => new.factor = "on",
           new.codes \subseteq Own(b).codes \cup FreshCodes,
           ~overtaken /\ code # NoCode => code \notin new.codes
    PROVE  IInv'
<1> DEFINE i == cookie[b].id
           r == Request("account", "commit", b, i, Own(b), Resealed(new), code)
<1>1. Accepted(cookie[b]) /\ code \in Own(b).codes \cup {NoCode} /\ Begin(h, r)
  BY DEF ChangeAccount
<1>2. /\ i \in Existing /\ i \in Ids /\ cookie[b].account \in Nat
      /\ Own(b) \in Rows /\ Own(b).version \in Nat
      /\ ~overtaken => /\ Own(b) = user[i] /\ cookie[b].account \in 0..accounts
                       /\ Own(b).account \in 0..accounts
                       /\ cookie[b].account = Own(b).account => ~cookie[b].revoked
  BY <1>1, AdmittedExists
<1>3. /\ Resealed(new) \in Rows /\ Verifies(Resealed(new))
      /\ Resealed(new).version = new.version + 1 /\ Kept(Resealed(new), new)
  BY ResealedRow
<1>4. /\ r.id = i /\ r.stage = "commit" /\ r.op = "account" /\ r.loaded = Own(b) /\ IsRequest(r)
      /\ r.new = Resealed(new) /\ r.code = code /\ r.browser = b /\ r.number = Fresh
      /\ r.session = cookie[b]
  BY DEF Request, IsRequest
<1> HIDE DEF r, i
<1>5. RequestType(r)
  BY <1>2, <1>3, <1>4 DEF RequestType, Stages
<1>6. ASSUME ~overtaken PROVE CommitOK(r) /\ KeepOK(r)
  <2>1. ~TakesAdmin(r)
    BY <1>3, <1>4 DEF TakesAdmin, IsLocalAdmin, Kept
  <2>2. CommitOK(r)
    BY <1>1, <1>2, <1>3, <1>4, <1>6, <2>1 DEF CommitOK, Kept, FreshCodes
  <2>3. KeepOK(r)
    BY <1>2, <1>4, <1>6 DEF KeepOK, Basis
  <2> QED
    BY <2>2, <2>3
<1>7. ~overtaken => RequestOK(r) /\ KeepOK(r)
  BY <1>2, <1>4, <1>6 DEF RequestOK
<1> QED
  BY <1>1, <1>4, <1>5, <1>7, BeginStep

\* /reauth looks a code up that the row has.
LEMMA ReauthStep ==
    ASSUME IInv, NEW h \in Handlers, NEW b \in Browsers, NEW code, Reauth(h, b, code)
    PROVE  IInv'
<1> DEFINE r == Request("reauth", "accept", b, cookie[b].id, Own(b), Own(b), code)
<1>1. cookie[b].id \in Ids /\ Own(b) \in Rows /\ code \in Own(b).codes
  BY AdmittedExists DEF Reauth
<1>2. /\ r.id = cookie[b].id /\ r.stage = "accept" /\ r.op = "reauth" /\ r.loaded = Own(b)
      /\ IsRequest(r) /\ r.code = code /\ r.browser = b /\ r.number = Fresh
  BY DEF Request, IsRequest
<1>3. Begin(h, r)
  BY DEF Reauth
<1> HIDE DEF r
<1>4. RequestType(r)
  BY <1>1, <1>2 DEF RequestType, Stages
<1>5. ~overtaken => RequestOK(r) /\ KeepOK(r)
  BY <1>1, <1>2 DEF RequestOK, KeepOK
<1> QED
  BY <1>2, <1>3, <1>4, <1>5, BeginStep

\* What the operations of /account make of one's row.
LEMMA ManageOwnStep ==
    ASSUME IInv, NEW h \in Handlers, NEW b \in Browsers, ManageOwn(h, b)
    PROVE  IInv'
<1>0. CASE \E code : Reauth(h, b, code)
  BY <1>0, ReauthStep
<1> SUFFICES ASSUME ~\E code : Reauth(h, b, code) PROVE IInv'
  BY <1>0
<1> DEFINE own == Own(b)
<1>1. Accepted(cookie[b]) /\ clock < MaxRequests
  BY DEF ManageOwn, ChangePassword, TotpPrepare, TotpEnable, TotpCancel, TotpDisable,
         RegenerateCodes, ChangeAccount, Begin, Take
<1>2. own \in Rows /\ (~overtaken => own = user[cookie[b].id]) /\ cookie[b].id \in Existing
  BY <1>1, AdmittedExists
<1>3. ~overtaken /\ own.codes # {} => own.factor = "on"
  BY <1>2 DEF IInv, SafeInv, UsersInv
<1>4. Fresh \in 1..MaxRequests /\ FreshCodes \subseteq AllCodes
  BY <1>1, AccountsAssumption DEF Fresh, FreshCodes, AllCodes, IInv, TypeInv
<1>5. ~overtaken => \A c \in own.codes : c \notin FreshCodes
  <2> SUFFICES ASSUME ~overtaken, NEW c \in own.codes, c \in FreshCodes PROVE FALSE
    OBVIOUS
  <2>1. c \in Held
    BY <1>2 DEF Held
  <2>2. c[1] <= clock /\ clock \in Nat /\ c[1] = clock + 1
    BY <2>1 DEF IInv, SafeInv, CodesInv, TypeInv, FreshCodes, Fresh
  <2> QED
    BY <2>2
<1> HIDE DEF own
<1>6. CASE ChangePassword(h, b)
  <2> DEFINE new == [own EXCEPT !.password = Fresh]
  <2>1. /\ new \in Rows /\ new.version = own.version /\ new.role = own.role
        /\ new.active = own.active /\ new.provider = own.provider /\ new.groups = own.groups
        /\ new.account = own.account /\ new.codes = own.codes /\ new.factor = own.factor
    BY <1>2, <1>4 DEF Rows
  <2>2. ChangeAccount(h, b, NoCode, new)
    BY <1>6 DEF ChangePassword, own
  <2> HIDE DEF new
  <2> QED
    BY <1>3, <2>1, <2>2, ChangeStep DEF own
<1>7. ASSUME NEW factor \in Factors, NEW codes \in SUBSET AllCodes, NEW code, NEW new,
             new = [own EXCEPT !.factor = factor, !.codes = codes],
             ChangeAccount(h, b, code, new),
             codes \subseteq FreshCodes, codes # {} => factor = "on"
      PROVE  IInv'
  <2>1. /\ new \in Rows /\ new.version = own.version /\ new.role = own.role
        /\ new.active = own.active /\ new.provider = own.provider /\ new.groups = own.groups
        /\ new.account = own.account /\ new.codes = codes /\ new.factor = factor
    BY <1>2, <1>7 DEF Rows
  <2>2. ~overtaken /\ code # NoCode => code \notin codes
    BY <1>5, <1>7 DEF ChangeAccount, own
  <2> QED
    BY <1>7, <2>1, <2>2, ChangeStep DEF own
<1>8. ASSUME NEW factor \in Factors, NEW code, NEW codes, codes = {},
             ChangeAccount(h, b, code, [own EXCEPT !.factor = factor, !.codes = codes])
      PROVE  IInv'
  <2> DEFINE new == [own EXCEPT !.factor = factor, !.codes = codes]
  <2>1. codes \in SUBSET AllCodes /\ codes \subseteq FreshCodes /\ (codes # {} => factor = "on")
    BY <1>8
  <2>2. new = [own EXCEPT !.factor = factor, !.codes = codes] /\ ChangeAccount(h, b, code, new)
    BY <1>8
  <2> HIDE DEF new
  <2> QED
    BY <1>7, <2>1, <2>2
<1>9. CASE TotpPrepare(h, b)
  BY <1>8, <1>9 DEF TotpPrepare, Factors, own
<1>10. CASE TotpCancel(h, b)
  BY <1>8, <1>10 DEF TotpCancel, Factors, own
<1>11. CASE \E code \in AllCodes \cup {NoCode} : TotpDisable(h, b, code)
  BY <1>8, <1>11 DEF TotpDisable, Factors, own
<1>12. CASE \E code \in AllCodes \cup {NoCode} : RegenerateCodes(h, b, code)
  <2> PICK code : RegenerateCodes(h, b, code)
    BY <1>12
  <2>1. [own EXCEPT !.codes = FreshCodes] = [own EXCEPT !.factor = "on", !.codes = FreshCodes]
    BY <1>2 DEF Rows, RegenerateCodes, own
  <2> QED
    BY <1>4, <1>7, <2>1 DEF RegenerateCodes, Factors, own
<1>13. CASE TotpEnable(h, b)
  BY <1>4, <1>7, <1>13 DEF TotpEnable, Factors, own
<1> QED
  BY <1>6, <1>9, <1>10, <1>11, <1>12, <1>13 DEF ManageOwn

LEMMA BeginManageStep ==
    ASSUME IInv, NEW h \in Handlers, NEW b \in Browsers,
           NEW op, NEW i \in Ids, BeginManage(h, b, op, i)
    PROVE  IInv'
<1> DEFINE own == i = cookie[b].id
           stage == IF own THEN "decide" ELSE "load"
           loaded == IF own THEN Own(b) ELSE NoUser
           r == Request(op, stage, b, i, loaded, NoUser, NoCode)
<1>1. own => loaded \in Rows
             /\ (~overtaken => loaded = user[i] /\ i \in Existing /\ loaded.account \in 0..accounts)
  BY AdmittedExists DEF BeginManage, Admitted
<1>2. /\ r.id = i /\ r.stage = stage /\ r.op = op /\ r.loaded = loaded /\ r.code = NoCode
      /\ IsRequest(r) /\ r.browser = b /\ r.number = Fresh
  BY DEF Request, IsRequest
<1>3. op \in {"edit", "delete"}
  BY DEF BeginManage
<1>4. Begin(h, r)
  BY DEF BeginManage
<1>5. stage = IF own THEN "decide" ELSE "load"
  OBVIOUS
<1> HIDE DEF stage, loaded, own, r
<1>6. RequestType(r)
  BY <1>1, <1>2, <1>3, <1>5 DEF RequestType, Stages
<1>7. ~overtaken => RequestOK(r) /\ KeepOK(r)
  <2> SUFFICES ASSUME ~overtaken PROVE RequestOK(r) /\ KeepOK(r)
    OBVIOUS
  <2>1. own /\ loaded.codes # {} => loaded.factor = "on"
    BY <1>1 DEF IInv, SafeInv, UsersInv
  <2> QED
    BY <1>1, <1>2, <1>3, <1>5, <2>1 DEF RequestOK, KeepOK
<1> QED
  BY <1>2, <1>4, <1>6, <1>7, BeginStep

LEMMA BeginDeleteGroupStep ==
    ASSUME IInv, NEW h \in Handlers, NEW b \in Browsers, NEW g, BeginDeleteGroup(h, b, g)
    PROVE  IInv'
<1> DEFINE r == Request("group", "clear", b, g, Own(b), NoUser, NoCode)
<1>1. Own(b) \in Rows
  BY AdmittedExists DEF BeginDeleteGroup, Admitted
<1>2. /\ r.id = g /\ r.stage = "clear" /\ r.op = "group" /\ r.loaded = Own(b)
      /\ IsRequest(r) /\ r.browser = b /\ r.number = Fresh
  BY DEF Request, IsRequest
<1>3. Begin(h, r)
  BY DEF BeginDeleteGroup
<1> HIDE DEF r
<1>4. RequestType(r)
  BY <1>1, <1>2 DEF RequestType, Stages
<1>5. ~overtaken => RequestOK(r) /\ KeepOK(r)
  BY <1>2 DEF RequestOK, KeepOK
<1> QED
  BY <1>2, <1>3, <1>4, <1>5, BeginStep

\* The pages a visitor reaches without being logged in, and the logout.
LEMMA VisitStep ==
    ASSUME IInv, NEW h \in Handlers, NEW b \in Browsers, Visit(h, b)
    PROVE  IInv'
<1>1. ASSUME NEW s, Answer(h, b, s), s \in {NoCookie} \cup Pendings
      PROVE  IInv'
  <2>1. request' = [request EXCEPT ![h] = Idle]
    BY <1>1 DEF Answer, Take, IInv, TypeInv
  <2>2. clock' \in clock..MaxRequests /\ overtaken \in BOOLEAN
    BY <1>1, AccountsAssumption DEF Answer, Take, IInv, TypeInv
  <2>3. ~IsSession(s) /\ s \in Cookies
    BY <1>1 DEF IsSession, Pendings, Cookies
  <2> QED
    BY <1>1, <2>1, <2>2, <2>3, CookieStep DEF Answer, histories
<1>2. CASE Rejected(h, b) \/ Logout(h, b) \/ PendingDropped(h, b)
  BY <1>1, <1>2 DEF Rejected, Logout, PendingDropped
<1>3. CASE Setup(h, b)
  <2>1. "admin" \in Roles /\ "local" \in Providers /\ TRUE \in BOOLEAN /\ Fresh \in Nat
        /\ {} \in SUBSET groups
    BY DEF Roles, Providers, Fresh, IInv, TypeInv
  <2> QED
    BY <1>3, <2>1, InsertStep DEF Setup
<1>4. CASE OidcLogin(h, b)
  <2>1. ASSUME NEW i \in Existing,
               Begin(h, Request("login", "commit", b, i, Row(i), Sign(Row(i)), NoCode))
        PROVE  IInv'
    BY <2>1, SignInStep
  <2>2. ASSUME Begin(h, Request("provision", "insert", b, 0, NoUser,
                                NewRow("user", TRUE, "oidc", 0, {}), NoCode))
        PROVE  IInv'
    <3>1. "user" \in Roles /\ "oidc" \in Providers /\ TRUE \in BOOLEAN /\ 0 \in Nat
          /\ {} \in SUBSET groups /\ Existing # {} /\ "provision" \in {"setup", "provision", "create"}
      BY <1>4 DEF Roles, Providers, OidcLogin
    <3> QED
      BY <2>2, <3>1, InsertStep
  <2> QED
    BY <1>4, <2>1, <2>2 DEF OidcLogin
<1>5. CASE \E i \in Ids : Login(h, b, i)
  <2> PICK i \in Ids : Login(h, b, i)
    BY <1>5
  <2>1. i \in Existing
    BY DEF Login, Existing
  <2>2. CASE user[i].factor = "on"
    <3>1. Pending(i) \in Pendings
      BY DEF Pending, Pendings
    <3> QED
      BY <1>1, <2>2, <3>1 DEF Login
  <2>3. CASE user[i].factor # "on"
    BY <2>1, <2>3, SignInStep DEF Login
  <2> QED
    BY <2>2, <2>3
<1>6. CASE \E code \in AllCodes \cup {NoCode} : SecondFactor(h, b, code)
  <2> PICK code : SecondFactor(h, b, code)
    BY <1>6
  <2> DEFINE i == cookie[b].id
             new == [Row(i) EXCEPT !.codes = @ \ {code}]
  <2>1. i \in Existing
    BY DEF SecondFactor, IsPending, IInv, TypeInv, Sessions, Pendings, Cookies, Existing
  <2>2. Row(i) \in Rows
    BY <2>1, RowIsTyped DEF IInv
  <2>3. code \notin new.codes
    BY <2>2 DEF Rows
  <2>4. /\ user[i].factor = "on" /\ code \in user[i].codes \cup {NoCode}
        /\ Begin(h, Request("second", "commit", b, i, Row(i), Sign(new), code))
    BY DEF SecondFactor
  <2>5. new = [Row(i) EXCEPT !.codes = @ \ {code}]
    OBVIOUS
  <2> HIDE DEF i, new
  <2> QED
    BY <2>1, <2>3, <2>4, <2>5, SignInStep
<1> QED
  BY <1>2, <1>3, <1>4, <1>5, <1>6 DEF Visit

LEMMA CreateGroupStep ==
    ASSUME IInv, NEW h \in Handlers, NEW b, NEW g \in Groups, CreateGroup(h, b, g)
    PROVE  IInv'
<1> DEFINE r == request[h]
<1>1. clock' \in clock..MaxRequests /\ overtaken \in BOOLEAN /\ r = Idle
  BY AccountsAssumption DEF CreateGroup, Take, IInv, TypeInv
<1>2. request' = [request EXCEPT ![h] = r]
  BY DEF CreateGroup, IInv, TypeInv
<1>3. groups \subseteq groups' /\ groups' \subseteq Groups
  BY DEF CreateGroup, IInv, TypeInv
<1> HIDE DEF r
<1> QED
  BY <1>1, <1>2, <1>3, QuietStep DEF CreateGroup, histories

LEMMA ManageStep ==
    ASSUME IInv, NEW h \in Handlers, NEW b \in Browsers, Manage(h, b)
    PROVE  IInv'
<1>1. ASSUME NEW role \in Roles, NEW active \in BOOLEAN, NEW provider \in Providers,
             NEW members \in SUBSET groups, CreateUser(h, b, role, active, provider, members)
      PROVE  IInv'
  <2> DEFINE password == IF provider = "local" THEN Fresh ELSE 0
  <2>1. Existing # {}
    BY <1>1, AdmittedExists DEF CreateUser, Admitted
  <2>2. password \in Nat
    BY DEF Fresh, IInv, TypeInv
  <2>3. Begin(h, Request("create", "insert", b, 0, NoUser,
                         NewRow(role, active, provider, password, members), NoCode))
    BY <1>1 DEF CreateUser
  <2> HIDE DEF password
  <2> QED
    BY <2>1, <2>2, <2>3, InsertStep
<1> QED
  BY <1>1, CreateGroupStep, BeginDeleteGroupStep, BeginManageStep DEF Manage

-----------------------------------------------------------------------------
(* Requests that read and decide                                            *)

\* What a request that is under way may assume.
LEMMA UnderWay ==
    ASSUME IInv, NEW h \in Handlers, request[h] # Idle
    PROVE  /\ RequestType(request[h]) /\ request[h].number \in 1..clock
           /\ IsRequest(request[h]) /\ (~overtaken => SafeRequest(request[h]))
           /\ clock \in Nat /\ clock \in clock..MaxRequests /\ overtaken \in BOOLEAN
           /\ groups \subseteq Groups /\ accounts \in Nat
  BY AccountsAssumption DEF IInv, TypeInv, SafeInv, RequestInv, RequestType

\* The request ends, or goes on with r.
LEMMA DecideStep ==
    ASSUME IInv, NEW h \in Handlers, request[h] # Idle,
           request[h].stage \in {"load", "decide"},
           UNCHANGED <<user, groups, cookie, histories, beside, clock>>,
           NEW r, request' = [request EXCEPT ![h] = r],
           r # Idle => /\ RequestType(r) /\ r.number = request[h].number
                       /\ r.op = request[h].op
                       /\ ~overtaken => RequestOK(r)
    PROVE  IInv'
<1>1. /\ request[h].number \in 1..clock /\ clock \in clock..MaxRequests /\ overtaken \in BOOLEAN
      /\ (~overtaken => SafeRequest(request[h])) /\ groups \subseteq Groups
  BY UnderWay
<1>2. r # Idle => NumberOK(h, r) /\ r.number \in 1..clock
  BY <1>1 DEF NumberOK
<1>3. r # Idle /\ ~overtaken => SafeRequest(r)
  BY <1>1 DEF SafeRequest, RequestOK, KeepOK
<1> QED
  BY <1>1, <1>2, <1>3, QuietStep DEF histories

LEMMA LoadStep ==
    ASSUME IInv, NEW h \in Handlers, Load(h)
    PROVE  IInv'
<1> DEFINE q == request[h]
           r == IF Exists(q.id) THEN [q EXCEPT !.stage = "decide", !.loaded = Row(q.id)] ELSE Idle
<1>1. q # Idle /\ q.stage = "load" /\ IsRequest(q) /\ RequestType(q) /\ (~overtaken => SafeRequest(q))
  BY UnderWay DEF Load, At
<1>2. q.id \in Ids /\ (~overtaken => q.op \in {"edit", "delete"} /\ q.code = NoCode)
  BY <1>1 DEF SafeRequest, RequestOK, RequestType
<1>3. request' = [request EXCEPT ![h] = r] /\ UNCHANGED <<user, groups, cookie, histories, beside, clock>>
  BY DEF Load
<1>4. CASE Exists(q.id)
  <2>1. q.id \in Existing
    BY <1>2, <1>4 DEF Existing
  <2>2. Row(q.id) \in Rows /\ (UsersInv => Row(q.id) = user[q.id])
    BY <2>1, RowIsTyped DEF IInv
  <2>3. /\ r.stage = "decide" /\ r.loaded = Row(q.id) /\ r.id = q.id /\ r.op = q.op
        /\ r.code = q.code /\ r.number = q.number /\ r.browser = q.browser /\ IsRequest(r)
        /\ r.session = q.session
    BY <1>1, <1>4 DEF IsRequest
  <2> HIDE DEF r
  <2>4. RequestType(r)
    BY <1>1, <1>2, <2>2, <2>3 DEF RequestType, Stages
  <2>5. ASSUME ~overtaken PROVE RequestOK(r)
    <3>1. UsersInv /\ accounts \in Nat
      BY <2>5 DEF IInv, SafeInv, TypeInv
    <3>2. user[q.id].account \in 0..accounts /\ (user[q.id].codes # {} => user[q.id].factor = "on")
      BY <2>1, <2>2, <3>1 DEF UsersInv, Rows
    <3> QED
      BY <1>2, <2>2, <2>3, <2>5, <3>1, <3>2 DEF RequestOK
  <2> QED
    BY <1>1, <1>3, <2>3, <2>4, <2>5, DecideStep
<1>5. CASE ~Exists(q.id)
  <2>1. r = Idle
    BY <1>5
  <2> HIDE DEF r
  <2> QED
    BY <1>1, <1>3, <2>1, DecideStep
<1> QED
  BY <1>4, <1>5

Decided(q, stage, others, new, r) ==
    r = [q EXCEPT !.stage = stage, !.others = others, !.new = new]

LEMMA DecidedRecord ==
    ASSUME NEW q, IsRequest(q), NEW stage, NEW others, NEW new, NEW r,
           Decided(q, stage, others, new, r)
    PROVE  /\ IsRequest(r) /\ r.stage = stage /\ r.others = others /\ r.new = new
           /\ r.op = q.op /\ r.browser = q.browser /\ r.id = q.id /\ r.session = q.session
           /\ r.loaded = q.loaded /\ r.code = q.code /\ r.number = q.number
  BY DEF IsRequest, Decided

LEMMA DeleteStep ==
    ASSUME IInv, NEW h \in Handlers, Delete(h)
    PROVE  IInv'
<1> DEFINE q == request[h]
           others == LocalAdmins \ {q.id} # {}
<1>1. /\ q # Idle /\ q.stage = "decide" /\ q.op = "delete" /\ IsRequest(q) /\ RequestType(q)
      /\ (~overtaken => SafeRequest(q))
      /\ UNCHANGED <<user, groups, cookie, histories, beside, clock>>
  BY UnderWay DEF Delete, At
<1>2. CASE request' = [request EXCEPT ![h] = Idle]
  BY <1>1, <1>2, DecideStep
<1>3. CASE /\ request' = [request EXCEPT ![h].stage = "delete", ![h].others = others]
           /\ ~WouldBeLast(q.id, q.loaded)
  <2> DEFINE r == [q EXCEPT !.stage = "delete", !.others = others, !.new = q.new]
  <2>1. request' = [request EXCEPT ![h] = r]
    <3>1. r = [q EXCEPT !.stage = "delete", !.others = others]
      BY <1>1 DEF IsRequest
    <3> QED
      BY <1>3, <3>1
  <2>2. IsLocalAdmin(q.loaded) => others = TRUE
    <3> SUFFICES ASSUME IsLocalAdmin(q.loaded) PROVE others
      OBVIOUS
    <3> QED
      BY <1>3 DEF WouldBeLast
  <2> HIDE DEF others
  <2>3. /\ r.stage = "delete" /\ r.id = q.id /\ r.op = q.op /\ r.loaded = q.loaded
        /\ r.number = q.number /\ r.browser = q.browser /\ IsRequest(r) /\ r.others = others
        /\ r.session = q.session
    <3>1. Decided(q, "delete", others, q.new, r)
      BY DEF Decided
    <3> HIDE DEF r
    <3> QED
      BY <1>1, <3>1, DecidedRecord
  <2> HIDE DEF r
  <2>4. RequestType(r)
    BY <1>1, <2>3 DEF RequestType, Stages
  <2>5. ~overtaken => RequestOK(r)
    BY <1>1, <2>2, <2>3 DEF RequestOK, SafeRequest
  <2> QED
    BY <1>1, <2>1, <2>3, <2>4, <2>5, DecideStep
<1> QED
  BY <1>2, <1>3 DEF Delete, Refuse, Finish

\* What an edit makes of a row: a factor goes with its codes.
LEMMA EditedRow ==
    ASSUME NEW row \in Rows, NEW role \in Roles, NEW active \in BOOLEAN,
           NEW provider \in Providers, NEW password \in Nat, NEW members \in SUBSET Groups
    PROVE  LET new == Edited(row, role, active, provider, password, members)
           IN  /\ new \in Rows /\ new.version = row.version /\ new.account = row.account
               /\ new.role = role /\ new.active = active /\ new.provider = provider
               /\ new.groups = members /\ new.codes \subseteq row.codes
               /\ (row.codes # {} => row.factor = "on") => (new.codes # {} => new.factor = "on")
<1> DEFINE kept == IF provider = row.provider THEN row
                   ELSE [row EXCEPT !.factor = "off", !.codes = {},
                                    !.password = IF provider = "oidc" THEN 0 ELSE @]
           new == [kept EXCEPT !.role = role, !.active = active, !.provider = provider,
                       !.groups = members, !.password = IF password = 0 THEN @ ELSE password]
<1>1. /\ kept \in Rows /\ kept.version = row.version /\ kept.account = row.account
      /\ kept.codes \subseteq row.codes
      /\ (row.codes # {} => row.factor = "on") => (kept.codes # {} => kept.factor = "on")
  BY DEF Rows, Factors
<1> HIDE DEF kept
<1>2. /\ new \in Rows /\ new.version = kept.version /\ new.account = kept.account
      /\ new.role = role /\ new.active = active /\ new.provider = provider
      /\ new.groups = members /\ new.codes = kept.codes /\ new.factor = kept.factor
  BY <1>1 DEF Rows
<1>3. Edited(row, role, active, provider, password, members) = new
  BY DEF Edited, kept
<1> HIDE DEF new
<1> QED
  BY <1>1, <1>2, <1>3

LEMMA EditStep ==
    ASSUME IInv, NEW h \in Handlers, NEW role \in Roles, NEW active \in BOOLEAN,
           NEW provider \in Providers, NEW renew \in BOOLEAN, NEW members \in SUBSET groups,
           Edit(h, role, active, provider, renew, members)
    PROVE  IInv'
<1> DEFINE q == request[h]
           password == IF renew THEN q.number ELSE 0
           edited == Edited(q.loaded, role, active, provider, password, members)
           new == Resealed(edited)
           others == LocalAdmins \ {q.id} # {}
           removes == ~(role = "admin" /\ active /\ provider = "local")
<1>1. /\ q # Idle /\ q.stage = "decide" /\ q.op = "edit" /\ IsRequest(q) /\ RequestType(q)
      /\ (~overtaken => SafeRequest(q)) /\ q.number \in Nat /\ q.loaded \in Rows
      /\ UNCHANGED <<user, groups, cookie, histories, beside, clock>>
  <2>1. q # Idle /\ q.stage = "decide" /\ q.op = "edit"
        /\ UNCHANGED <<user, groups, cookie, histories, beside, clock>>
    BY DEF Edit, At
  <2>2. /\ IsRequest(q) /\ RequestType(q) /\ (~overtaken => SafeRequest(q))
        /\ q.number \in 1..clock /\ clock \in Nat
    BY <2>1, UnderWay
  <2> QED
    BY <2>1, <2>2 DEF RequestType
<1>2. CASE request' = [request EXCEPT ![h] = Idle]
  BY <1>1, <1>2, DecideStep
<1>3. CASE /\ request' = [request EXCEPT ![h].stage = "commit", ![h].others = others, ![h].new = new]
           /\ ~(removes /\ WouldBeLast(q.id, q.loaded))
  <2>1. password \in Nat /\ members \in SUBSET Groups
    BY <1>1 DEF IInv, TypeInv
  <2> HIDE DEF password
  <2>2. /\ edited \in Rows /\ edited.version = q.loaded.version
        /\ edited.account = q.loaded.account /\ edited.role = role /\ edited.active = active
        /\ edited.provider = provider /\ edited.codes \subseteq q.loaded.codes
        /\ (q.loaded.codes # {} => q.loaded.factor = "on")
              => (edited.codes # {} => edited.factor = "on")
    BY <1>1, <2>1, EditedRow
  <2> HIDE DEF edited
  <2>3. /\ new \in Rows /\ Verifies(new) /\ new.version = edited.version + 1 /\ Kept(new, edited)
    BY <2>2, ResealedRow
  <2>4. IsLocalAdmin(q.loaded) /\ ~IsLocalAdmin(new) => others = TRUE
    <3> SUFFICES ASSUME IsLocalAdmin(q.loaded), ~IsLocalAdmin(new) PROVE others
      OBVIOUS
    <3>1. removes
      BY <2>2, <2>3 DEF IsLocalAdmin, Kept
    <3> QED
      BY <1>3, <3>1 DEF WouldBeLast
  <2> DEFINE r == [q EXCEPT !.stage = "commit", !.others = others, !.new = new]
  <2>5. request' = [request EXCEPT ![h] = r]
    BY <1>3
  <2> HIDE DEF new, others
  <2>6. /\ r.stage = "commit" /\ r.id = q.id /\ r.op = "edit" /\ r.loaded = q.loaded
        /\ r.number = q.number /\ r.browser = q.browser /\ IsRequest(r) /\ r.others = others
        /\ r.session = q.session /\ r.new = new /\ r.code = q.code
    <3>1. Decided(q, "commit", others, new, r)
      BY DEF Decided
    <3> HIDE DEF r
    <3> QED
      BY <1>1, <3>1, DecidedRecord
  <2> HIDE DEF r
  <2>7. RequestType(r)
    BY <1>1, <2>3, <2>6 DEF RequestType, Stages
  <2>8. ASSUME ~overtaken PROVE RequestOK(r)
    <3>1. /\ q.loaded.account \in 0..accounts /\ q.code = NoCode
          /\ (q.loaded.codes # {} => q.loaded.factor = "on") /\ q.loaded.version \in Nat
      BY <1>1, <2>8 DEF SafeRequest, RequestOK, Rows
    <3>2. TakesAdmin(r) => r.others = TRUE
      BY <2>4, <2>6 DEF TakesAdmin
    <3>3. CommitOK(r)
      BY <2>2, <2>3, <2>6, <3>1, <3>2 DEF CommitOK, Kept
    <3> QED
      BY <2>6, <3>3 DEF RequestOK
  <2> QED
    BY <1>1, <2>5, <2>6, <2>7, <2>8, DecideStep
<1>4. \/ request' = [request EXCEPT ![h] = Idle]
      \/ /\ request' = [request EXCEPT ![h].stage = "commit", ![h].others = others, ![h].new = new]
         /\ ~(removes /\ WouldBeLast(q.id, q.loaded))
  BY DEF Edit, Refuse, Finish
<1> QED
  BY <1>2, <1>3, <1>4

\* The row still has the code that was looked up, so nobody has spent it.
LEMMA AcceptReauthStep ==
    ASSUME IInv, NEW h \in Handlers, AcceptReauth(h)
    PROVE  IInv'
<1> DEFINE q == request[h]
<1>1. /\ q # Idle /\ q.stage = "accept" /\ RequestType(q) /\ (~overtaken => SafeRequest(q))
      /\ clock \in clock..MaxRequests /\ overtaken \in BOOLEAN /\ groups \subseteq Groups
      /\ q.id \in Ids
  BY UnderWay DEF AcceptReauth, At, RequestType
<1>2. /\ request' = [request EXCEPT ![h] = Idle]
      /\ UNCHANGED <<user, groups, cookie, spent, setups, accounts, clock>>
      /\ replayed' = replayed \cup ({q.code} \cap spent)
      /\ overtaken' = (overtaken \/ ~AsLoaded(q))
  BY DEF AcceptReauth, Finish, Accept, Commits
<1>3. overtaken' \in BOOLEAN /\ (overtaken => overtaken')
  BY <1>1, <1>2
<1>4. ASSUME ~overtaken' PROVE replayed' = replayed
  <2>1. ~overtaken /\ AsLoaded(q)
    BY <1>2, <1>4
  <2>2. q.id \in Existing /\ user[q.id] = q.loaded
    BY <1>1, <2>1, RowIsTyped DEF AsLoaded, Existing, IInv, SafeInv
  <2>3. q.code \notin spent
    BY <1>1, <2>1, <2>2 DEF SafeRequest, RequestOK, IInv, SafeInv, CodesInv
  <2> QED
    BY <1>2, <2>3
<1> QED
  BY <1>1, <1>2, <1>3, <1>4, QuietStep

-----------------------------------------------------------------------------
(* Commits                                                                  *)

\* Sessions stay as they are, but that those of some accounts are revoked.
SessionsKept(revoked) ==
    \A b \in Browsers : IsSession(cookie'[b]) =>
        /\ IsSession(cookie[b]) /\ cookie'[b].id = cookie[b].id
        /\ cookie'[b].version = cookie[b].version /\ cookie'[b].account = cookie[b].account
        /\ cookie'[b].revoked => cookie[b].revoked \/ cookie[b].account \in revoked

LEMMA RevokeKeeps ==
    ASSUME TypeInv, NEW S, NEW k, Revoke(S, k)
    PROVE  /\ cookie' \in [Browsers -> Cookies] /\ SessionsKept(S)
           /\ k \in Browsers => cookie'[k] = cookie[k]
<1>1. \A b \in Browsers : IsSession(cookie[b]) => cookie[b] \in Sessions
  BY DEF TypeInv, IsSession, Pendings, Cookies
<1> SUFFICES ASSUME NEW b \in Browsers
             PROVE  /\ cookie'[b] \in Cookies
                    /\ IsSession(cookie'[b]) =>
                         /\ IsSession(cookie[b]) /\ cookie'[b].id = cookie[b].id
                         /\ cookie'[b].version = cookie[b].version
                         /\ cookie'[b].account = cookie[b].account
                         /\ cookie'[b].revoked => cookie[b].revoked \/ cookie[b].account \in S
  BY DEF Revoke, SessionsKept
<1>2. CASE b # k /\ IsSession(cookie[b]) /\ cookie[b].account \in S
  <2>1. cookie[b] \in Sessions /\ cookie'[b] = [cookie[b] EXCEPT !.revoked = TRUE]
    BY <1>1, <1>2 DEF Revoke
  <2> QED
    BY <1>2, <2>1 DEF Sessions, Cookies
<1>3. CASE ~(b # k /\ IsSession(cookie[b]) /\ cookie[b].account \in S)
  <2>1. cookie'[b] = cookie[b]
    BY <1>3 DEF Revoke
  <2> QED
    BY <2>1 DEF TypeInv
<1> QED
  BY <1>2, <1>3

\* A table in which every user that was there kept its account and is no older,
\* and every revoked account got a new version.
NoOlder(revoked) ==
    \A j \in Existing' :
       \/ user'[j].account > accounts
       \/ /\ j \in Existing /\ user'[j].account = user[j].account
          /\ user[j].version <= user'[j].version
          /\ user[j].account \in revoked => user[j].version < user'[j].version

LEMMA Renewed ==
    ASSUME TypeInv, TypeInv', NEW S, NoOlder(S), NEW j \in Ids, user'[j] # NoUser,
           user'[j].account <= accounts
    PROVE  /\ j \in Existing /\ user'[j].account = user[j].account
           /\ user[j].version \in Nat /\ user'[j].version \in Nat
           /\ user[j].version <= user'[j].version
           /\ user[j].account \in S => user[j].version < user'[j].version
<1>1. j \in Existing' /\ user'[j] \in Rows /\ accounts \in Nat
  BY DEF Existing, Exists, TypeInv
<1>2. /\ j \in Existing /\ user'[j].account = user[j].account
      /\ user[j].version <= user'[j].version
      /\ user[j].account \in S => user[j].version < user'[j].version
  BY <1>1 DEF NoOlder, Rows
<1> QED
  BY <1>1, <1>2, UsersAreRows DEF Rows

LEMMA SessionsStayOld ==
    ASSUME TypeInv, TypeInv', SessionsInv, NEW S, SessionsKept(S), NoOlder(S), accounts <= accounts'
    PROVE  SessionsInv'
<1> SUFFICES ASSUME NEW b \in Browsers, IsSession(cookie'[b])
             PROVE  /\ cookie'[b].account <= accounts'
                    /\ user'[cookie'[b].id] # NoUser /\ user'[cookie'[b].id].account = cookie'[b].account =>
                          /\ cookie'[b].version <= user'[cookie'[b].id].version
                          /\ cookie'[b].revoked => cookie'[b].version < user'[cookie'[b].id].version
  BY DEF SessionsInv, IsSession, Exists
<1>1. /\ IsSession(cookie[b]) /\ cookie'[b].id = cookie[b].id
      /\ cookie'[b].version = cookie[b].version /\ cookie'[b].account = cookie[b].account
      /\ cookie'[b].revoked => cookie[b].revoked \/ cookie[b].account \in S
  BY DEF SessionsKept
<1>2. cookie[b] \in Sessions /\ accounts \in Nat /\ accounts' \in Nat
  BY <1>1 DEF TypeInv, IsSession, Pendings, Cookies
<1>3. cookie[b].account <= accounts
  BY <1>1 DEF SessionsInv
<1>4. ASSUME user'[cookie[b].id] # NoUser, user'[cookie[b].id].account = cookie[b].account
      PROVE  /\ cookie[b].version <= user'[cookie[b].id].version
             /\ cookie[b].revoked \/ cookie[b].account \in S =>
                   cookie[b].version < user'[cookie[b].id].version
  <2> DEFINE j == cookie[b].id
  <2>1. j \in Ids /\ cookie[b].version \in Nat
    BY <1>2 DEF Sessions
  <2>2. /\ j \in Existing /\ user'[j].account = user[j].account
        /\ user[j].version \in Nat /\ user'[j].version \in Nat
        /\ user[j].version <= user'[j].version
        /\ user[j].account \in S => user[j].version < user'[j].version
    BY <1>3, <1>4, <2>1, Renewed
  <2>3. /\ cookie[b].version <= user[j].version
        /\ cookie[b].revoked => cookie[b].version < user[j].version
    BY <1>1, <1>4, <2>2 DEF SessionsInv, Existing
  <2> QED
    BY <1>4, <2>1, <2>2, <2>3
<1> QED
  BY <1>1, <1>2, <1>3, <1>4 DEF Sessions

LEMMA OwnChangesKept ==
    ASSUME TypeInv, TypeInv', NEW S, SessionsKept(S), NoOlder(S),
           NEW q, RequestType(q), RequestOK(q), KeepOK(q)
    PROVE  KeepOK(q)'
<1> SUFFICES ASSUME q.op = "account", q.stage \in {"commit", "keep"}, user'[q.id] # NoUser,
                    user'[q.id].account = q.session.account
             PROVE  /\ Basis(q) \in Nat /\ Basis(q) <= user'[q.id].version
                    /\ IsSession(cookie'[q.browser]) /\ cookie'[q.browser].account = q.session.account
                           /\ cookie'[q.browser].revoked => Basis(q) < user'[q.id].version
  BY DEF KeepOK, Exists, Basis, IsSession
<1> DEFINE j == q.id
           b == q.browser
<1>1. j \in Ids /\ b \in Browsers /\ q.session.account <= accounts
  BY DEF RequestType, RequestOK, TypeInv
<1>2. /\ j \in Existing /\ user'[j].account = user[j].account
      /\ user[j].version \in Nat /\ user'[j].version \in Nat
      /\ user[j].version <= user'[j].version
      /\ user[j].account \in S => user[j].version < user'[j].version
  BY <1>1, Renewed
<1>3. /\ Basis(q) \in Nat /\ Basis(q) <= user[j].version
      /\ IsSession(cookie[b]) /\ cookie[b].account = q.session.account /\ cookie[b].revoked =>
             Basis(q) < user[j].version
  BY <1>2 DEF KeepOK, Existing
<1>4. ASSUME IsSession(cookie'[b]), cookie'[b].account = q.session.account, cookie'[b].revoked
      PROVE  Basis(q) < user'[j].version
  <2>1. /\ IsSession(cookie[b]) /\ cookie[b].account = q.session.account
        /\ cookie[b].revoked \/ cookie[b].account \in S
    BY <1>1, <1>4 DEF SessionsKept
  <2>2. CASE cookie[b].revoked
    <3>1. Basis(q) < user[j].version
      BY <1>3, <2>1, <2>2, Zenon
    <3> QED
      BY <1>2, <1>3, <3>1
  <2>3. CASE cookie[b].account \in S
    <3>1. user[j].version < user'[j].version
      BY <1>2, <2>1, <2>3
    <3> QED
      BY <1>2, <1>3, <3>1
  <2> QED
    BY <2>1, <2>2, <2>3
<1> QED
  BY <1>2, <1>3, <1>4

\* What a commit leaves of sessions and of requests under way.
LEMMA TableStep ==
    ASSUME TypeInv, SafeInv, TypeInv', NEW h \in Handlers, request[h] # Idle,
           NEW r, request' = [request EXCEPT ![h] = r],
           r # Idle => r.number = request[h].number /\ SafeRequest(r)',
           accounts <= accounts', NEW S, SessionsKept(S), NoOlder(S),
           \A c \in Held' : c \in Held \/ c[1] = request[h].number
    PROVE  SessionsInv' /\ RequestInv'
<1>1. SessionsInv'
  BY SessionsStayOld DEF SafeInv
<1>2. ASSUME NEW g \in Handlers \ {h}, request[g] # Idle, SafeRequest(request[g]),
             NEW q, q = request[g]
      PROVE  SafeRequest(q)'
  <2>1. RequestType(q) /\ RequestOK(q) /\ KeepOK(q)
        /\ (q.stage \in {"load", "decide", "commit"} => Unused(q.number))
    BY <1>2 DEF TypeInv, SafeRequest
  <2>2. RequestOK(q)'
    <3>1. accounts \in Nat /\ accounts' \in Nat
      BY DEF TypeInv
    <3> QED
      BY <2>1, <3>1, RequestKept
  <2>3. KeepOK(q)'
    BY <2>1, OwnChangesKept
  <2>4. Unused(q.number) => Unused(q.number)'
    <3>1. q.number # request[h].number
      BY <1>2 DEF SafeInv, RequestInv
    <3> QED
      BY <3>1 DEF Unused
  <2> QED
    BY <2>1, <2>2, <2>3, <2>4 DEF SafeRequest
<1>3. r # Idle => \A g \in Handlers \ {h} : request[g] # Idle => request[g].number # r.number
  BY DEF SafeInv, RequestInv
<1> QED
  BY <1>1, <1>2, <1>3, RequestsKept

\* One user is replaced: no local administrator is lost unless another is left.
LEMMA AdminsKept ==
    ASSUME TypeInv, AdminInv, NEW i \in Existing, NEW n \in Rows, user' = [user EXCEPT ![i] = n],
           accounts' = accounts,
           IsLocalAdmin(user[i]) => IsLocalAdmin(n) \/ LocalAdmins \ {i} # {}
    PROVE  AdminInv'
<1>1. user \in [Ids -> Rows \cup {NoUser}] /\ i \in Ids /\ n # NoUser
  BY NoUserAssumption DEF TypeInv, Existing
<1>2. Existing' = Existing
  BY <1>1 DEF Existing, Exists
<1>3. LocalAdmins # {} => LocalAdmins' # {}
  <2>1. SUFFICES ASSUME NEW j \in LocalAdmins PROVE LocalAdmins' # {}
    OBVIOUS
  <2>2. \A a \in LocalAdmins \ {i} : a \in LocalAdmins'
    BY <1>1, <1>2 DEF LocalAdmins, Existing
  <2>3. IsLocalAdmin(n) => i \in LocalAdmins'
    BY <1>1, <1>2 DEF LocalAdmins
  <2> QED
    BY <2>1, <2>2, <2>3 DEF LocalAdmins
<1> QED
  BY <1>2, <1>3 DEF AdminInv

LEMMA CommitUpdateStep ==
    ASSUME IInv, NEW h \in Handlers, CommitUpdate(h)
    PROVE  IInv'
<1> DEFINE q == request[h]
           i == q.id
           n == q.new
           S == IF q.op \in {"account", "edit"} THEN {user[i].account} ELSE {}
           k == IF q.op = "account" THEN q.browser ELSE NoCookie
           asRead == \/ n = q.loaded
                     \/ /\ AsLoaded(q) /\ n.groups \subseteq groups
                        /\ TakesAdmin(q) => q.others = (LocalAdmins \ {i} # {})
<1>1. /\ q # Idle /\ q.stage = "commit" /\ IsRequest(q) /\ RequestType(q) /\ q.number \in 1..clock
      /\ clock \in Nat /\ clock \in clock..MaxRequests /\ overtaken \in BOOLEAN
      /\ groups \subseteq Groups /\ (~overtaken => SafeRequest(q))
  BY UnderWay DEF CommitUpdate, At
<1>2. i \in Ids /\ n \in Rows /\ q.loaded \in Rows /\ q.browser \in Browsers /\ TypeInv
      /\ q.loaded.account \in Nat /\ UNCHANGED <<groups, setups, accounts, beside, clock>>
  BY <1>1 DEF RequestType, Rows, IInv, CommitUpdate
<1>3. CASE ~Updatable(q.id, q.loaded, q.new)
  <2>1. /\ request' = [request EXCEPT ![h] = Idle]
        /\ UNCHANGED <<user, spent, replayed, overtaken, cookie>>
    BY <1>3 DEF CommitUpdate, Finish
  <2> QED
    BY <1>1, <1>2, <2>1, QuietStep
<1>4. CASE Updatable(q.id, q.loaded, q.new)
  <2>1. /\ user' = [user EXCEPT ![i] = Updated(user[i], q.loaded, n)]
        /\ spent' = IF q.code # NoCode THEN spent \cup {q.code} ELSE spent
        /\ replayed' = replayed \cup ({q.code} \cap spent)
        /\ overtaken' = (overtaken \/ ~asRead)
        /\ IF q.op \in {"account", "edit"} THEN Revoke({user[i].account}, k) ELSE cookie' = cookie
    BY <1>4 DEF CommitUpdate, Accept, Commits
  <2>2. i \in Existing /\ user[i] \in Rows /\ Updated(user[i], q.loaded, n) \in Rows
    BY <1>2, <1>4, UsersAreRows, UpdatedIsTyped DEF Updatable, Existing
  <2>3. overtaken' \in BOOLEAN /\ (~overtaken' => ~overtaken /\ asRead)
    BY <1>1, <2>1
  <2>4. /\ cookie' \in [Browsers -> Cookies] /\ SessionsKept(S)
        /\ q.op \notin {"account", "edit"} => cookie' = cookie
        /\ q.op = "account" => cookie'[q.browser] = cookie[q.browser]
    <3>1. CASE q.op \in {"account", "edit"}
      <4>1. Revoke(S, k)
        BY <2>1, <3>1
      <4> QED
        BY <1>2, <3>1, <4>1, RevokeKeeps
    <3>2. CASE q.op \notin {"account", "edit"}
      BY <1>2, <2>1, <3>2 DEF SessionsKept, TypeInv
    <3> QED
      BY <3>1, <3>2
  <2>5. PICK r : r = request'[h]
    OBVIOUS
  <2>6. /\ request' = [request EXCEPT ![h] = r]
        /\ r # Idle =>
             /\ IsRequest(r) /\ r.browser = q.browser /\ r.id = i /\ r.number = q.number
             /\ r.loaded = q.loaded /\ r.session = q.session /\ r.op = q.op /\ r.new = n
             /\ \/ r.stage = "keep" /\ q.op = "account"
                \/ r.stage = "start" /\ q.op # "account"
    <3>1. CASE q.op = "edit"
      <4>1. request' = [request EXCEPT ![h] = Idle]
        BY <1>4, <3>1 DEF CommitUpdate, Finish
      <4>2. r = Idle
        BY <1>2, <2>5, <4>1 DEF TypeInv
      <4> QED
        BY <4>1, <4>2
    <3>2. CASE q.op # "edit"
      <4> DEFINE stage == IF q.op = "account" THEN "keep" ELSE "start"
      <4>1. request' = [request EXCEPT ![h] = [q EXCEPT !.stage = stage]]
        BY <1>4, <3>2 DEF CommitUpdate, Go
      <4> HIDE DEF stage
      <4>2. r = [q EXCEPT !.stage = stage]
        BY <1>2, <2>5, <4>1 DEF TypeInv
      <4>3. request' = [request EXCEPT ![h] = r]
        BY <4>1, <4>2
      <4> QED
        BY <1>1, <4>2, <4>3 DEF IsRequest, stage
    <3> QED
      BY <3>1, <3>2
  <2>7. r # Idle => RequestType(r) /\ r.number \in 1..clock' /\ NumberOK(h, r)
    <3>1. q.op = "account" => q.session.account \in Nat
      BY <1>1 DEF RequestType
    <3> QED
      BY <1>1, <1>2, <2>6, <3>1 DEF RequestType, Stages, NumberOK
  <2>8. TypeInv'
    <3>1. user' \in [Ids -> Rows \cup {NoUser}]
      BY <1>2, <2>1, <2>2 DEF TypeInv
    <3>2. accounts \in Nat /\ setups \in Nat /\ setups <= accounts
      BY <1>2 DEF TypeInv
    <3> QED
      BY <1>1, <1>2, <2>3, <2>4, <2>6, <2>7, <3>1, <3>2, TypeKept
  <2>9. CASE overtaken'
    BY <2>8, <2>9 DEF IInv
  <2>10. ASSUME ~overtaken'
         PROVE  /\ SafeInv /\ CommitOK(q) /\ KeepOK(q) /\ Unused(q.number)
                /\ Row(i) = user[i] /\ accounts \in Nat
    BY <1>1, <1>2, <2>2, <2>3, <2>10, RowIsTyped DEF IInv, SafeRequest, RequestOK, SafeInv, TypeInv
  <2>11. CASE ~overtaken' /\ n = q.loaded
    <3>1. q.op \notin {"account", "edit"} /\ q.code = NoCode
      <4>1. n.version \in Nat
        BY <1>2 DEF Rows
      <4> QED
        BY <2>10, <2>11, <4>1 DEF CommitOK
    <3>2. user' = user
      <4>1. Updated(user[i], q.loaded, n) = user[i]
        BY <1>2, <2>2, <2>11, UpdatedByNothing
      <4> QED
        BY <1>2, <2>1, <4>1 DEF TypeInv
    <3>3. spent' = spent /\ replayed' = replayed /\ cookie' = cookie
      BY <2>1, <2>10, <2>11, <3>1 DEF SafeInv, CodesInv
    <3>4. r # Idle => SafeRequest(r)
      <4> SUFFICES ASSUME r # Idle PROVE SafeRequest(r)
        OBVIOUS
      <4>1. r.stage = "start" /\ r.op \notin {"account"} /\ r.loaded.account \in 0..accounts
        BY <2>6, <2>10, <2>11, <3>1 DEF CommitOK
      <4> QED
        BY <4>1 DEF SafeRequest, RequestOK, KeepOK
    <3> QED
      BY <1>1, <1>2, <2>3, <2>6, <2>7, <2>11, <3>2, <3>3, <3>4, QuietStep
  <2>12. CASE ~overtaken' /\ n # q.loaded
    <3>1. /\ user[i] = q.loaded /\ n.groups \subseteq groups
          /\ TakesAdmin(q) => LocalAdmins \ {i} # {}
      BY <2>3, <2>10, <2>12, Zenon DEF AsLoaded, CommitOK
    <3>2. user' = [user EXCEPT ![i] = n]
      BY <1>2, <2>1, <3>1, UpdatedIsNew
    <3>3. Existing' = Existing /\ user'[i] = n /\ \A j \in Existing \ {i} : user'[j] = user[j]
      BY <1>2, <2>2, <3>2, NoUserAssumption DEF Existing, Exists, TypeInv
    <3>4. /\ UsersInv /\ AdminInv /\ CodesInv
          /\ Verifies(n) /\ n.account = user[i].account /\ (n.codes # {} => n.factor = "on")
          /\ n.codes \subseteq user[i].codes \cup ({q.number} \X CodeNames)
          /\ q.code # NoCode => q.code \in user[i].codes \ n.codes
      BY <2>10, <2>12, <3>1 DEF SafeInv, CommitOK
    <3>5. \A c \in n.codes : c \in user[i].codes \/ (c \notin Held /\ c[1] = q.number)
      BY <2>10, <2>12, <3>4 DEF Unused
    <3>6. \A j \in Existing \ {i} : user[j].codes \cap n.codes = {} /\ user[j].codes \cap user[i].codes = {}
      <4> SUFFICES ASSUME NEW j \in Existing \ {i}
                   PROVE  user[j].codes \cap n.codes = {} /\ user[j].codes \cap user[i].codes = {}
        OBVIOUS
      <4>1. user[j].codes \cap user[i].codes = {}
        BY <2>2, <3>4 DEF UsersInv
      <4>2. \A c \in user[j].codes : c \in Held
        BY DEF Held
      <4> QED
        BY <3>5, <4>1, <4>2
    <3>7. UsersInv'
      <4>1. \A j \in Existing' :
               /\ Verifies(user'[j]) /\ user'[j].groups \subseteq groups /\ user'[j].account <= accounts
               /\ user'[j].codes # {} => user'[j].factor = "on"
        BY <2>2, <3>1, <3>3, <3>4 DEF UsersInv
      <4>2. \A j, l \in Existing' : j # l =>
               user'[j].account # user'[l].account /\ user'[j].codes \cap user'[l].codes = {}
        BY <2>2, <3>3, <3>4, <3>6 DEF UsersInv
      <4> QED
        BY <1>2, <4>1, <4>2 DEF UsersInv, Verifies, Payload
    <3>8. AdminInv'
      <4>1. IsLocalAdmin(user[i]) => IsLocalAdmin(n) \/ LocalAdmins \ {i} # {}
        BY <3>1 DEF TakesAdmin
      <4> QED
        BY <1>2, <2>2, <3>2, <3>4, <4>1, AdminsKept
    <3>9. \A c \in Held' : c \in Held \/ (c \in n.codes /\ c[1] = q.number)
      <4> SUFFICES ASSUME NEW c \in Held' PROVE c \in Held \/ (c \in n.codes /\ c[1] = q.number)
        OBVIOUS
      <4>1. CASE c \in spent'
        <5>1. c \in spent \/ c \in user[i].codes
          BY <2>1, <3>4, <4>1
        <5> QED
          BY <2>2, <5>1 DEF Held
      <4>2. ASSUME NEW j \in Existing, c \in user'[j].codes
            PROVE  c \in Held \/ (c \in n.codes /\ c[1] = q.number)
        <5>1. CASE j = i
          BY <2>2, <3>3, <3>5, <4>2, <5>1 DEF Held
        <5>2. CASE j # i
          BY <3>3, <4>2, <5>2 DEF Held
        <5> QED
          BY <5>1, <5>2
      <4> QED
        BY <3>3, <4>1, <4>2 DEF Held
    <3>10. CodesInv'
      <4>1. Held' \subseteq AllCodes
        BY <1>2, <3>4, <3>9 DEF CodesInv, Rows
      <4>2. \A c \in Held' : c[1] <= clock'
        BY <1>1, <1>2, <3>4, <3>9 DEF CodesInv
      <4>3. \A j \in Existing' : user'[j].codes \cap spent' = {}
        <5> SUFFICES ASSUME NEW j \in Existing, NEW c \in user'[j].codes, c \in spent'
                     PROVE  FALSE
          BY <3>3
        <5>1. c \in spent \/ (q.code # NoCode /\ c = q.code)
          BY <2>1
        <5>2. CASE j = i
          <6>1. c \in n.codes
            BY <3>3, <5>2
          <6>2. c \in spent
            BY <3>4, <5>1, <6>1
          <6>3. c \in user[i].codes
            BY <3>5, <6>1, <6>2 DEF Held
          <6> QED
            BY <2>2, <3>4, <6>2, <6>3 DEF CodesInv
        <5>3. CASE j # i
          <6>1. c \in user[j].codes
            BY <3>3, <5>3
          <6>2. c \in spent
            BY <3>4, <3>6, <5>1, <5>3, <6>1
          <6> QED
            BY <3>4, <6>1, <6>2 DEF CodesInv
        <5> QED
          BY <5>2, <5>3
      <4>4. NoCode \notin spent' /\ replayed' = {}
        <5>1. q.code \notin spent
          BY <2>2, <3>4 DEF CodesInv
        <5> QED
          BY <2>1, <3>4, <5>1 DEF CodesInv
      <4> QED
        BY <4>1, <4>2, <4>3, <4>4 DEF CodesInv
    <3>11. NoOlder(S)
      <4> SUFFICES ASSUME NEW j \in Existing
                   PROVE  /\ user'[j].account = user[j].account
                          /\ user[j].version <= user'[j].version
                          /\ user[j].account \in S => user[j].version < user'[j].version
        BY <3>3 DEF NoOlder
      <4>1. CASE j = i
        <5>1. /\ user[i].version <= n.version
              /\ q.op \in {"account", "edit"} => user[i].version < n.version
          BY <2>10, <2>12, <3>1 DEF CommitOK
        <5> QED
          BY <3>3, <3>4, <4>1, <5>1
      <4>2. CASE j # i
        <5>1. user'[j] = user[j] /\ user[j].version \in Nat /\ user[j].account # user[i].account
          BY <1>2, <2>2, <3>3, <3>4, <4>2, UsersAreRows DEF Rows, UsersInv
        <5> QED
          BY <5>1
      <4> QED
        BY <4>1, <4>2
    <3>12. r # Idle => SafeRequest(r)'
      <4> SUFFICES ASSUME r # Idle PROVE SafeRequest(r)'
        OBVIOUS
      <4>1. CASE r.stage = "start" /\ q.op # "account"
        <5>1. r.op # "account" /\ r.loaded.account \in 0..accounts
          BY <2>6, <2>10, <2>12, <4>1 DEF CommitOK
        <5> QED
          BY <1>2, <4>1, <5>1 DEF SafeRequest, RequestOK, KeepOK
      <4>2. CASE r.stage = "keep" /\ q.op = "account"
        <5>1. q.session.account \in 0..accounts
          BY <1>1, <2>3, <2>12, <4>2 DEF SafeRequest, RequestOK
        <5>2. RequestOK(r)'
          BY <1>2, <2>6, <4>2, <5>1 DEF RequestOK
        <5>3. KeepOK(r)'
          <6>1. /\ r.id = i /\ r.browser = q.browser /\ r.session = q.session /\ r.new = n
                /\ cookie'[q.browser] = cookie[q.browser] /\ user'[i] = n /\ n.version \in Nat
            BY <1>2, <2>4, <2>6, <3>3, <4>2 DEF Rows
          <6>2. ASSUME n.account = q.session.account, IsSession(cookie[q.browser]),
                       cookie[q.browser].account = q.session.account
                PROVE  ~cookie[q.browser].revoked
            <7>1. Exists(q.id) /\ user[q.id].account = q.session.account
              BY <2>2, <3>4, <6>2 DEF Existing
            <7>2. cookie[q.browser].revoked => q.loaded.version < user[q.id].version
              BY <1>1, <2>10, <2>12, <4>2, <6>2, <7>1 DEF KeepOK, Basis
            <7>3. q.loaded.version = user[q.id].version /\ q.loaded.version \in Nat
              BY <1>2, <3>1 DEF Rows
            <7> QED
              BY <7>2, <7>3
          <6> QED
            BY <4>2, <6>1, <6>2 DEF KeepOK, Basis, IsSession
        <5> QED
          BY <4>2, <5>2, <5>3 DEF SafeRequest
      <4> QED
        BY <2>6, <4>1, <4>2
    <3>13. SessionsInv' /\ RequestInv'
      <4>1. accounts <= accounts' /\ (\A c \in Held' : c \in Held \/ c[1] = q.number)
            /\ (r # Idle => r.number = q.number /\ SafeRequest(r)') /\ SafeInv
        BY <1>2, <2>6, <2>10, <2>12, <3>9, <3>12
      <4> HIDE DEF S
      <4> QED
        BY <1>1, <1>2, <2>4, <2>6, <2>8, <3>11, <4>1, TableStep
    <3> QED
      BY <2>8, <3>7, <3>8, <3>10, <3>13 DEF IInv, SafeInv
  <2> QED
    BY <2>9, <2>11, <2>12
<1> QED
  BY <1>3, <1>4

LEMMA StartSessionStep ==
    ASSUME IInv, NEW h \in Handlers, StartSession(h)
    PROVE  IInv'
<1> DEFINE q == request[h]
           s == Session(q.id, user[q.id].version, q.loaded.account)
<1>1. /\ q # Idle /\ q.stage = "start" /\ RequestType(q) /\ (~overtaken => SafeRequest(q))
      /\ clock \in clock..MaxRequests /\ overtaken \in BOOLEAN /\ groups \subseteq Groups
  BY UnderWay DEF StartSession, At
<1>2. /\ q.id \in Ids /\ q.browser \in Browsers /\ q.loaded.account \in Nat
      /\ (~overtaken => q.loaded.account <= accounts)
  BY <1>1 DEF RequestType, SafeRequest, RequestOK
<1>3. /\ request' = [request EXCEPT ![h] = Idle]
      /\ UNCHANGED <<user, groups, spent, replayed, overtaken, setups, accounts, clock>>
      /\ \/ cookie' = cookie
         \/ Exists(q.id) /\ cookie' = [cookie EXCEPT ![q.browser] = s]
  BY DEF StartSession, Finish, histories
<1>4. CASE cookie' = cookie
  BY <1>1, <1>3, <1>4, QuietStep
<1>5. CASE Exists(q.id) /\ cookie' = [cookie EXCEPT ![q.browser] = s]
  <2>1. user[q.id].version \in Nat
    BY <1>2, <1>5, UsersAreRows DEF Existing, Rows, IInv
  <2>2. /\ s \in Sessions /\ ~s.revoked /\ s.account = q.loaded.account
        /\ s.version = user[s.id].version /\ s.version <= user[s.id].version
    BY <1>2, <2>1 DEF Session, Sessions
  <2>3. s \in Cookies
    BY <2>2 DEF Cookies
  <2> HIDE DEF s
  <2> QED
    BY <1>1, <1>2, <1>3, <1>5, <2>2, <2>3, CookieStep
<1> QED
  BY <1>3, <1>4, <1>5

LEMMA KeepSessionStep ==
    ASSUME IInv, NEW h \in Handlers, KeepSession(h)
    PROVE  IInv'
<1> DEFINE q == request[h]
           c == cookie[q.browser]
           ended == IsSession(c) /\ c.account = q.session.account /\ c.revoked
           s == [Session(q.id, user[q.id].version, q.session.account) EXCEPT !.revoked = ended]
<1>1. /\ q # Idle /\ q.stage = "keep" /\ RequestType(q) /\ (~overtaken => SafeRequest(q))
      /\ clock \in clock..MaxRequests /\ overtaken \in BOOLEAN /\ groups \subseteq Groups
  BY UnderWay DEF KeepSession, At
<1>2. /\ q.id \in Ids /\ q.browser \in Browsers /\ q.session.account \in Nat
      /\ (~overtaken => q.session.account <= accounts /\ q.op = "account")
  BY <1>1 DEF RequestType, SafeRequest, RequestOK
<1>3. /\ request' = [request EXCEPT ![h] = Idle]
      /\ UNCHANGED <<user, groups, spent, replayed, setups, accounts, clock>>
      /\ overtaken' = (overtaken \/ ~(Exists(q.id) => user[q.id].version = q.new.version))
      /\ \/ cookie' = cookie
         \/ Exists(q.id) /\ cookie' = [cookie EXCEPT ![q.browser] = s]
  BY DEF KeepSession, Finish, Commits
<1>4. overtaken' \in BOOLEAN /\ (overtaken => overtaken')
  BY <1>1, <1>3
<1>5. CASE cookie' = cookie
  BY <1>1, <1>3, <1>4, <1>5, QuietStep
<1>6. CASE Exists(q.id) /\ cookie' = [cookie EXCEPT ![q.browser] = s]
  <2>1. user[q.id].version \in Nat
    BY <1>2, <1>6, UsersAreRows DEF Existing, Rows, IInv
  <2>2. ended \in BOOLEAN
    OBVIOUS
  <2>3. ended => IsSession(c) /\ c.account = q.session.account /\ c.revoked
    OBVIOUS
  <2>4. ~overtaken' /\ user[q.id].account = q.session.account => ~ended
    <3> SUFFICES ASSUME ~overtaken', user[q.id].account = q.session.account, ended PROVE FALSE
      OBVIOUS
    <3>1. ~overtaken /\ user[q.id].version = q.new.version
      BY <1>3, <1>6
    <3>2. q.new.version < user[q.id].version
      BY <1>1, <1>2, <1>6, <2>3, <3>1 DEF SafeRequest, KeepOK, Basis
    <3> QED
      BY <2>1, <3>1, <3>2
  <2> HIDE DEF ended
  <2>5. s = [kind |-> "session", id |-> q.id, version |-> user[q.id].version,
             account |-> q.session.account, revoked |-> ended]
    BY DEF Session
  <2>6. /\ s \in Sessions /\ s.account = q.session.account /\ s.id = q.id
        /\ s.version = user[q.id].version /\ (s.revoked <=> ended)
        /\ s.version <= user[q.id].version
    BY <1>2, <2>1, <2>2, <2>5 DEF Sessions
  <2>7. s \in Cookies
    BY <2>6 DEF Cookies
  <2>8. cookie' = [cookie EXCEPT ![q.browser] = s]
    BY <1>6
  <2> HIDE DEF s
  <2>9. ~overtaken' /\ IsSession(s) =>
            /\ s.account <= accounts
            /\ Exists(s.id) /\ user[s.id].account = s.account =>
                   ~s.revoked /\ s.version <= user[s.id].version
            /\ s.revoked => /\ IsSession(c) /\ c.revoked
                            /\ c.account = s.account
    BY <1>2, <1>3, <2>3, <2>4, <2>6
  <2> QED
    BY <1>1, <1>2, <1>3, <1>4, <2>7, <2>8, <2>9, CookieStep
<1> QED
  BY <1>3, <1>5, <1>6

LEMMA CommitDeleteStep ==
    ASSUME IInv, NEW h \in Handlers, CommitDelete(h)
    PROVE  IInv'
<1> DEFINE q == request[h]
           i == q.id
<1>1. /\ q # Idle /\ q.stage = "delete" /\ RequestType(q) /\ (~overtaken => SafeRequest(q))
      /\ clock \in clock..MaxRequests /\ overtaken \in BOOLEAN /\ groups \subseteq Groups
      /\ i \in Ids /\ TypeInv
  BY UnderWay DEF CommitDelete, At, RequestType, IInv
<1>2. /\ user' = [user EXCEPT ![i] = NoUser] /\ request' = [request EXCEPT ![h] = Idle]
      /\ UNCHANGED <<groups, cookie, spent, replayed, setups, accounts, clock>>
      /\ overtaken' = (overtaken \/ ~(/\ AsLoaded(q)
                                      /\ TakesAdmin(q) => q.others = (LocalAdmins \ {i} # {})))
  BY DEF CommitDelete, Finish, Commits
<1>3. overtaken' \in BOOLEAN
  BY <1>1, <1>2
<1>4. user \in [Ids -> Rows \cup {NoUser}] /\ cookie \in [Browsers -> Cookies] /\ accounts \in Nat
      /\ setups \in Nat /\ setups <= accounts
  BY <1>1 DEF TypeInv
<1>5. TypeInv'
  <2>1. user' \in [Ids -> Rows \cup {NoUser}]
    BY <1>2, <1>4
  <2> QED
    BY <1>1, <1>2, <1>3, <1>4, <2>1, TypeKept
<1>6. ASSUME ~overtaken' PROVE SafeInv'
  <2>1. ~overtaken /\ AsLoaded(q) /\ SafeRequest(q) /\ SafeInv
        /\ (TakesAdmin(q) => q.others = (LocalAdmins \ {i} # {}))
    BY <1>1, <1>2, <1>6 DEF IInv
  <2>2. i \in Existing /\ user[i] = q.loaded
    BY <1>1, <2>1, RowIsTyped DEF AsLoaded, Existing, SafeInv
  <2>3. IsLocalAdmin(user[i]) => LocalAdmins \ {i} # {}
    BY <1>1, <2>1, <2>2, Zenon DEF SafeRequest, RequestOK, TakesAdmin
  <2>4. Existing' = Existing \ {i} /\ \A j \in Existing' : user'[j] = user[j]
    BY <1>1, <1>2, <1>4 DEF Existing, Exists
  <2>5. UsersInv'
    BY <1>2, <2>1, <2>4 DEF SafeInv, UsersInv, Verifies, Payload
  <2>6. AdminInv'
    <3>1. accounts # 0 /\ LocalAdmins # {}
      BY <1>4, <2>1, <2>2 DEF SafeInv, AdminInv
    <3>2. \A a \in LocalAdmins \ {i} : a \in LocalAdmins'
      BY <2>4 DEF LocalAdmins
    <3>3. LocalAdmins \ {i} # {}
      BY <2>2, <2>3, <3>1 DEF LocalAdmins
    <3> QED
      BY <1>2, <3>1, <3>2, <3>3 DEF AdminInv
  <2>7. \A c \in Held' : c \in Held
    BY <1>2, <2>4 DEF Held
  <2>8. CodesInv'
    BY <1>2, <2>1, <2>4, <2>7 DEF SafeInv, CodesInv
  <2>9. NoOlder({}) /\ SessionsKept({})
    <3>1. \A j \in Existing : user[j].version \in Nat
      BY <1>1, UsersAreRows DEF Rows
    <3> QED
      BY <1>2, <2>4, <3>1 DEF NoOlder, SessionsKept
  <2>10. SessionsInv' /\ RequestInv'
    <3>1. accounts <= accounts' /\ \A c \in Held' : c \in Held \/ c[1] = q.number
      BY <1>2, <1>4, <2>7
    <3> QED
      BY <1>1, <1>2, <1>5, <2>1, <2>9, <3>1, TableStep
  <2> QED
    BY <2>5, <2>6, <2>8, <2>10 DEF SafeInv
<1> QED
  BY <1>5, <1>6 DEF IInv

LEMMA CommitInsertStep ==
    ASSUME IInv, NEW h \in Handlers, CommitInsert(h)
    PROVE  IInv'
<1> DEFINE q == request[h]
           n == [q.new EXCEPT !.account = accounts + 1]
<1>1. /\ q # Idle /\ q.stage = "insert" /\ IsRequest(q) /\ RequestType(q) /\ q.number \in 1..clock
      /\ clock \in clock..MaxRequests /\ overtaken \in BOOLEAN /\ groups \subseteq Groups
      /\ (~overtaken => SafeRequest(q)) /\ q.new \in Rows /\ TypeInv
  BY UnderWay DEF CommitInsert, At, RequestType, IInv
<1>2. accounts \in Nat /\ setups \in Nat /\ setups <= accounts
      /\ user \in [Ids -> Rows \cup {NoUser}] /\ cookie \in [Browsers -> Cookies]
  BY <1>1 DEF TypeInv
<1>3. PICK i \in Ids :
         /\ IsNextId(i) /\ user' = [user EXCEPT ![i] = n]
         /\ IF q.op = "create" THEN request' = [request EXCEPT ![h] = Idle]
            ELSE request' = [request EXCEPT ![h].stage = "start", ![h].id = i, ![h].loaded = user'[i]]
  BY DEF CommitInsert, Finish
<1>4. /\ accounts' = accounts + 1 /\ setups' = setups + IF q.op = "setup" THEN 1 ELSE 0
      /\ UNCHANGED <<groups, cookie, spent, replayed, clock>>
      /\ overtaken' = (overtaken \/ ~(/\ q.new.groups \subseteq groups
                                      /\ q.op = "setup" => Existing = {}))
  BY DEF CommitInsert, Commits
<1>5. setups' \in Nat /\ setups' <= accounts' /\ accounts' \in Nat /\ accounts <= accounts'
      /\ overtaken' \in BOOLEAN
  BY <1>1, <1>2, <1>4
<1>6. /\ n \in Rows /\ n # NoUser /\ n.account = accounts + 1 /\ n.groups = q.new.groups
      /\ n.codes = q.new.codes /\ (Verifies(q.new) => Verifies(n))
      /\ (IsLocalAdmin(q.new) => IsLocalAdmin(n))
  <2>1. /\ n \in Rows /\ n.account = accounts + 1 /\ n.groups = q.new.groups
        /\ n.codes = q.new.codes /\ n.role = q.new.role /\ n.active = q.new.active
        /\ n.provider = q.new.provider /\ n.password = q.new.password /\ n.factor = q.new.factor
        /\ n.version = q.new.version /\ n.signature = q.new.signature
    BY <1>1, <1>2 DEF Rows
  <2> HIDE DEF n
  <2> QED
    BY <2>1, NoUserAssumption DEF Verifies, Payload, IsLocalAdmin
<1> HIDE DEF n
<1>7. i \notin Existing
  <2>1. i \in Nat /\ \A j \in Existing : j < i
    BY <1>3, AccountsAssumption DEF IsNextId
  <2> QED
    BY <2>1
<1>8. /\ Existing' = Existing \cup {i} /\ user'[i] = n
      /\ \A j \in Existing : user'[j] = user[j] /\ j # i
  BY <1>2, <1>3, <1>6, <1>7 DEF Existing, Exists
<1>9. PICK r : r = request'[h]
  OBVIOUS
<1>10. /\ request' = [request EXCEPT ![h] = r]
       /\ r # Idle => /\ IsRequest(r) /\ r.browser = q.browser /\ r.id = i /\ r.number = q.number
                      /\ r.loaded = n /\ r.stage = "start" /\ r.op = q.op /\ r.session = q.session
  <2>1. CASE request' = [request EXCEPT ![h] = Idle]
    <3>1. r = Idle
      BY <1>1, <1>9, <2>1 DEF TypeInv
    <3> QED
      BY <2>1, <3>1
  <2>2. CASE request' = [request EXCEPT ![h].stage = "start", ![h].id = i, ![h].loaded = user'[i]]
    <3>1. r = [q EXCEPT !.stage = "start", !.id = i, !.loaded = n]
      BY <1>1, <1>8, <1>9, <2>2 DEF TypeInv
    <3>2. request' = [request EXCEPT ![h] = r]
      BY <1>8, <2>2, <3>1
    <3> QED
      BY <1>1, <3>1, <3>2 DEF IsRequest
  <2> QED
    BY <1>3, <2>1, <2>2
<1>11. r # Idle => RequestType(r) /\ r.number \in 1..clock'
  <2>1. q.op = "account" => q.session.account \in Nat
    BY <1>1 DEF RequestType
  <2> QED
    BY <1>1, <1>2, <1>4, <1>6, <1>10, <2>1 DEF RequestType, Stages
<1>12. TypeInv'
  <2>1. user' \in [Ids -> Rows \cup {NoUser}]
    BY <1>2, <1>3, <1>6
  <2> QED
    BY <1>1, <1>2, <1>4, <1>5, <1>10, <1>11, <2>1, TypeKept
<1>13. ASSUME ~overtaken' PROVE SafeInv'
  <2>1. ~overtaken /\ q.new.groups \subseteq groups /\ SafeRequest(q) /\ SafeInv
        /\ (q.op = "setup" => Existing = {})
    BY <1>1, <1>4, <1>13 DEF IInv
  <2>2. /\ Verifies(n) /\ n.groups \subseteq groups /\ n.codes = {}
        /\ IF q.op = "setup" THEN IsLocalAdmin(n) ELSE accounts > 0
    BY <1>1, <1>6, <2>1 DEF SafeRequest, RequestOK, InsertOK
  <2>3. \A j \in Existing : user[j].account <= accounts /\ user[j].account \in Nat
                            /\ user[j].version \in Nat
    BY <1>1, <2>1, UsersAreRows DEF SafeInv, UsersInv, Rows
  <2>4. UsersInv'
    <3>1. \A j \in Existing' : /\ Verifies(user'[j]) /\ user'[j].groups \subseteq groups
                               /\ user'[j].account <= accounts + 1
                               /\ user'[j].codes # {} => user'[j].factor = "on"
      BY <1>2, <1>6, <1>8, <2>1, <2>2, <2>3 DEF SafeInv, UsersInv
    <3>2. \A j, k \in Existing' : j # k =>
             user'[j].account # user'[k].account /\ user'[j].codes \cap user'[k].codes = {}
      BY <1>2, <1>6, <1>8, <2>1, <2>2, <2>3 DEF SafeInv, UsersInv
    <3> QED
      BY <1>4, <3>1, <3>2 DEF UsersInv, Verifies, Payload
  <2>5. AdminInv'
    <3>1. \A a \in LocalAdmins : a \in LocalAdmins'
      BY <1>8 DEF LocalAdmins
    <3>2. IsLocalAdmin(n) => i \in LocalAdmins'
      BY <1>8 DEF LocalAdmins
    <3> QED
      BY <1>2, <1>4, <2>1, <2>2, <3>1, <3>2 DEF SafeInv, AdminInv
  <2>6. \A c \in Held' : c \in Held
    BY <1>4, <1>8, <2>2 DEF Held
  <2>7. CodesInv'
    <3>1. \A j \in Existing' : user'[j].codes \cap spent = {}
      BY <1>8, <2>1, <2>2 DEF SafeInv, CodesInv
    <3> QED
      BY <1>4, <2>1, <2>6, <3>1 DEF SafeInv, CodesInv
  <2>8. NoOlder({}) /\ SessionsKept({})
    BY <1>2, <1>4, <1>6, <1>8, <2>3 DEF NoOlder, SessionsKept
  <2>9. r # Idle => SafeRequest(r)'
    <3> SUFFICES ASSUME r # Idle PROVE SafeRequest(r)'
      OBVIOUS
    <3>1. r.stage = "start" /\ r.loaded.account \in 0..accounts' /\ r.op = q.op
      BY <1>2, <1>4, <1>6, <1>10
    <3>2. q.op = "account" => q.session.account \in 0..accounts'
      BY <1>2, <1>4, <2>1 DEF SafeRequest, RequestOK
    <3> QED
      BY <1>10, <3>1, <3>2 DEF SafeRequest, RequestOK, KeepOK
  <2>10. SessionsInv' /\ RequestInv'
    <3>1. (\A c \in Held' : c \in Held \/ c[1] = q.number)
          /\ (r # Idle => r.number = q.number /\ SafeRequest(r)')
      BY <1>10, <2>6, <2>9
    <3> QED
      BY <1>1, <1>5, <1>10, <1>12, <2>1, <2>8, <3>1, TableStep
  <2> QED
    BY <2>4, <2>5, <2>7, <2>10 DEF SafeInv
<1> QED
  BY <1>12, <1>13 DEF IInv

LEMMA ClearedRow ==
    ASSUME NEW r \in Rows, NEW g
    PROVE  LET n == Cleared(r, g)
           IN  /\ n \in Rows /\ Verifies(n) /\ n.groups = r.groups \ {g}
               /\ n.version = r.version + 1 /\ n.account = r.account /\ n.codes = r.codes
               /\ n.factor = r.factor /\ n.role = r.role /\ n.active = r.active
               /\ n.provider = r.provider
<1> DEFINE s == [r EXCEPT !.groups = @ \ {g}]
<1>1. /\ s \in Rows /\ s.groups = r.groups \ {g} /\ s.version = r.version
      /\ s.account = r.account /\ s.codes = r.codes /\ s.factor = r.factor /\ s.role = r.role
      /\ s.active = r.active /\ s.provider = r.provider
  BY DEF Rows
<1> HIDE DEF s
<1>2. /\ Resealed(s) \in Rows /\ Verifies(Resealed(s))
      /\ Resealed(s).version = s.version + 1 /\ Kept(Resealed(s), s)
  BY <1>1, ResealedRow
<1>3. Cleared(r, g) = Resealed(s)
  BY DEF Cleared, s
<1> QED
  BY <1>1, <1>2, <1>3 DEF Kept

LEMMA UngroupedRow ==
    ASSUME NEW r \in Rows, NEW g
    PROVE  LET n == [r EXCEPT !.groups = @ \ {g}]
           IN  n \in Rows /\ (g \notin r.groups => n = r)
  BY DEF Rows

LEMMA CommitDeleteGroupStep ==
    ASSUME IInv, NEW h \in Handlers, CommitDeleteGroup(h)
    PROVE  IInv'
<1> DEFINE q == request[h]
           g == q.id
           loaded(i) == IF i = q.session.id THEN q.loaded ELSE Row(i)
           n(i) == Cleared(loaded(i), g)
           new(i) == [Updated(user[i], loaded(i), n(i)) EXCEPT !.groups = @ \ {g}]
           gone == {user[i].account : i \in Members(g)}
<1>1. /\ q # Idle /\ q.stage = "clear" /\ RequestType(q) /\ (~overtaken => SafeRequest(q))
      /\ clock \in clock..MaxRequests /\ overtaken \in BOOLEAN /\ groups \subseteq Groups
      /\ q.loaded \in Rows /\ TypeInv
  BY UnderWay DEF CommitDeleteGroup, At, RequestType, IInv
<1>2. /\ request' = [request EXCEPT ![h] = Idle]
      /\ UNCHANGED <<spent, replayed, setups, accounts, clock>>
      /\ user' = [i \in Ids |-> IF i \in Members(g) THEN new(i) ELSE user[i]]
      /\ groups' = groups \ {g} /\ Revoke(gone, NoCookie)
      /\ overtaken' = (overtaken \/ ~(\A i \in Members(g) : loaded(i) = Row(i)))
  BY DEF CommitDeleteGroup, Finish, Commits
<1>3. overtaken' \in BOOLEAN
  BY <1>1, <1>2
<1>4. user \in [Ids -> Rows \cup {NoUser}] /\ accounts \in Nat /\ setups \in Nat
      /\ setups <= accounts /\ NoUser \notin Rows
  BY <1>1, NoUserAssumption DEF TypeInv
<1>5. \A i \in Members(g) : i \in Existing /\ i \in Ids /\ user[i] \in Rows /\ g \in user[i].groups
  BY <1>1, UsersAreRows DEF Members
<1>6. \A i \in Members(g) : loaded(i) \in Rows
  BY <1>1, <1>5, RowIsTyped
<1>7. \A i \in Members(g) :
         /\ n(i) \in Rows /\ Verifies(n(i)) /\ n(i).groups = loaded(i).groups \ {g}
         /\ n(i).version = loaded(i).version + 1 /\ n(i).account = loaded(i).account
         /\ n(i).codes = loaded(i).codes /\ n(i).factor = loaded(i).factor
         /\ n(i).role = loaded(i).role /\ n(i).active = loaded(i).active
         /\ n(i).provider = loaded(i).provider
  BY <1>6, ClearedRow
<1>8. \A i \in Members(g) : new(i) \in Rows
  <2> TAKE i \in Members(g)
  <2>1. Updated(user[i], loaded(i), n(i)) \in Rows
    <3> HIDE DEF n, loaded
    <3> QED
      BY <1>5, <1>6, <1>7, UpdatedIsTyped
  <2> QED
    BY <2>1, UngroupedRow
<1>9. cookie' \in [Browsers -> Cookies] /\ SessionsKept(gone)
  <2> HIDE DEF gone
  <2> QED
    BY <1>1, <1>2, RevokeKeeps
<1>10. TypeInv'
  <2>1. user' \in [Ids -> Rows \cup {NoUser}]
    <3> HIDE DEF new
    <3> QED
      BY <1>2, <1>4, <1>8
  <2>2. groups' \subseteq Groups
    BY <1>1, <1>2
  <2> QED
    BY <1>1, <1>2, <1>3, <1>4, <1>9, <2>1, <2>2, TypeKept
<1>11. ASSUME ~overtaken' PROVE SafeInv'
  <2>1. ~overtaken /\ SafeInv /\ UsersInv /\ \A i \in Members(g) : loaded(i) = Row(i)
    BY <1>2, <1>11 DEF IInv, SafeInv
  <2>2. \A i \in Members(g) : loaded(i) = user[i] /\ new(i) = n(i)
    <3> TAKE i \in Members(g)
    <3>1. loaded(i) = user[i]
      BY <1>1, <1>5, <2>1, RowIsTyped
    <3>2. n(i) \in Rows /\ g \notin n(i).groups
      BY <1>7
    <3> HIDE DEF n, loaded
    <3>3. Updated(user[i], loaded(i), n(i)) = n(i)
      BY <1>5, <3>1, <3>2, UpdatedIsNew
    <3>4. [n(i) EXCEPT !.groups = @ \ {g}] = n(i)
      BY <3>2, UngroupedRow
    <3> QED
      BY <3>1, <3>3, <3>4
  <2>3. /\ Existing' = Existing
        /\ \A i \in Existing : user'[i] = IF i \in Members(g) THEN n(i) ELSE user[i]
    <3> HIDE DEF n
    <3>1. user' = [i \in Ids |-> IF i \in Members(g) THEN n(i) ELSE user[i]]
      <4> HIDE DEF new
      <4> QED
        BY <1>2, <2>2
    <3>2. \A i \in Members(g) : n(i) # NoUser
      BY <1>4, <1>7
    <3> QED
      BY <1>4, <1>5, <3>1, <3>2 DEF Existing, Exists
  <2>4. \A i \in Existing :
           /\ user'[i] \in Rows /\ Verifies(user'[i]) /\ user'[i].groups = user[i].groups \ {g}
           /\ user[i].version <= user'[i].version /\ user'[i].account = user[i].account
           /\ i \in Members(g) => user[i].version < user'[i].version
           /\ user'[i].codes = user[i].codes /\ user'[i].factor = user[i].factor
           /\ user'[i].role = user[i].role /\ user'[i].active = user[i].active
           /\ user'[i].provider = user[i].provider
    <3> TAKE i \in Existing
    <3>1. user[i] \in Rows /\ Verifies(user[i]) /\ user[i].version \in Nat
      BY <1>1, <2>1, UsersAreRows DEF UsersInv, Rows
    <3>2. CASE i \in Members(g)
      <4>1. loaded(i) = user[i]
        BY <2>2, <3>2
      <4> HIDE DEF loaded, n
      <4> QED
        BY <1>7, <2>3, <3>1, <3>2, <4>1
    <3>3. CASE i \notin Members(g)
      <4>1. user[i].groups \ {g} = user[i].groups
        BY <3>3 DEF Members
      <4> QED
        BY <2>3, <3>1, <3>3, <4>1
    <3> QED
      BY <3>2, <3>3
  <2> HIDE DEF n, new, loaded
  <2>5. UsersInv'
    <3>1. \A i \in Existing : user'[i].groups \subseteq groups' /\ user'[i].account <= accounts
      BY <1>2, <2>1, <2>4 DEF UsersInv
    <3>2. \A i, j \in Existing : i # j =>
             user'[i].account # user'[j].account /\ user'[i].codes \cap user'[j].codes = {}
      BY <2>1, <2>4 DEF UsersInv
    <3>3. \A i \in Existing : user'[i].codes # {} => user'[i].factor = "on"
      BY <2>1, <2>4 DEF UsersInv
    <3>4. accounts' = accounts /\ \A i \in Existing : user'[i].signature = Payload(user'[i])
      BY <1>2, <2>4 DEF Verifies
    <3>5. \A i \in Existing' : (Verifies(user[i]))'
      BY <2>3, <3>4 DEF Verifies, Payload
    <3> QED
      BY <2>3, <3>1, <3>2, <3>3, <3>4, <3>5 DEF UsersInv
  <2>6. AdminInv'
    <3>1. LocalAdmins' = LocalAdmins
      BY <2>3, <2>4 DEF LocalAdmins, IsLocalAdmin
    <3> QED
      BY <1>2, <2>1, <2>3, <3>1 DEF SafeInv, AdminInv
  <2>7. \A c \in Held' : c \in Held
    BY <1>2, <2>3, <2>4 DEF Held
  <2>8. CodesInv'
    BY <1>2, <2>1, <2>3, <2>4, <2>7 DEF SafeInv, CodesInv
  <2>9. NoOlder(gone)
    <3>1. \A j \in Existing : user[j].account \in gone => j \in Members(g)
      BY <1>5, <2>1 DEF UsersInv
    <3> QED
      BY <2>3, <2>4, <3>1 DEF NoOlder
  <2>10. SessionsInv' /\ RequestInv'
    <3>1. accounts <= accounts' /\ \A c \in Held' : c \in Held \/ c[1] = q.number
      BY <1>2, <1>4, <2>7
    <3> HIDE DEF gone
    <3> QED
      BY <1>1, <1>2, <1>9, <1>10, <2>1, <2>9, <3>1, TableStep
  <2> QED
    BY <2>5, <2>6, <2>8, <2>10 DEF SafeInv
<1> QED
  BY <1>10, <1>11 DEF IInv

-----------------------------------------------------------------------------
(* The theorems                                                             *)

LEMMA FounderRow ==
    ASSUME NEW i \in Nat
    PROVE  /\ Founder(i) \in Rows /\ Verifies(Founder(i)) /\ Founder(i).groups = {}
           /\ Founder(i).account = i /\ IsLocalAdmin(Founder(i))
           /\ Founder(i).codes # {} => Founder(i).factor = "on"
           /\ Founder(i).codes = IF i = 1 THEN {0} \X CodeNames ELSE {}
<1> DEFINE a == NewRow("admin", TRUE, "local", 0, {})
           row == [a EXCEPT !.account = i]
           on == [row EXCEPT !.factor = "on", !.codes = {0} \X CodeNames]
<1>1. /\ a \in Rows /\ Verifies(a) /\ a.groups = {} /\ a.codes = {} /\ IsLocalAdmin(a)
  <2>1. "admin" \in Roles /\ "local" \in Providers /\ 0 \in Nat /\ {} \in SUBSET Groups
    BY DEF Roles, Providers
  <2>2. a \in Rows /\ Verifies(a)
    BY <2>1, NewRowOK
  <2>3. a.groups = {}
    BY DEF NewRow, Sign
  <2>4. a.codes = {}
    BY <2>1, NewRowOK
  <2>5. IsLocalAdmin(a)
    BY <2>1, NewRowOK
  <2> QED
    BY <2>2, <2>3, <2>4, <2>5
<1> HIDE DEF a
<1>2. /\ row \in Rows /\ row.account = i /\ row.signature = a.signature
      /\ row.groups = a.groups /\ row.codes = a.codes /\ row.role = a.role
      /\ row.active = a.active /\ row.provider = a.provider /\ row.password = a.password
      /\ row.factor = a.factor /\ row.version = a.version
  BY <1>1 DEF Rows
<1> HIDE DEF row
<1>3. Verifies(row) /\ IsLocalAdmin(row) /\ row.codes = {} /\ row.groups = {}
  BY <1>1, <1>2 DEF Verifies, Payload, IsLocalAdmin
<1>4. {0} \X CodeNames \subseteq AllCodes
  BY AccountsAssumption DEF AllCodes
<1>5. /\ on \in Rows /\ on.account = i /\ on.groups = {} /\ on.codes = {0} \X CodeNames
      /\ on.factor = "on" /\ IsLocalAdmin(on)
  BY <1>2, <1>3, <1>4 DEF Rows, Factors, IsLocalAdmin
<1>6. Founder(i) = IF i = 1 THEN Sign(on) ELSE row
  BY DEF Founder, row, a
<1> HIDE DEF on
<1>7. /\ Sign(on) \in Rows /\ Verifies(Sign(on)) /\ Sign(on).account = i /\ Sign(on).groups = {}
      /\ Sign(on).codes = {0} \X CodeNames /\ Sign(on).factor = "on" /\ IsLocalAdmin(Sign(on))
  BY <1>5, SignedRow DEF Rows, IsLocalAdmin
<1> QED
  BY <1>2, <1>3, <1>6, <1>7

LEMMA InitIInv == Init => IInv
<1> SUFFICES ASSUME Init PROVE IInv
  OBVIOUS
<1>1. PICK n \in Administrators :
         /\ 1..n \subseteq Ids
         /\ user = [i \in Ids |-> IF i \in 1..n THEN Founder(i) ELSE NoUser]
         /\ accounts = n /\ setups = IF n = 0 THEN 0 ELSE 1
  BY DEF Init
<1>2. n \in Nat
  BY AccountsAssumption
<1>3. \A i \in 1..n :
         /\ i \in Nat /\ i <= n /\ Founder(i) \in Rows /\ Verifies(Founder(i))
         /\ Founder(i).groups = {} /\ Founder(i).account = i /\ IsLocalAdmin(Founder(i))
         /\ Founder(i).codes # {} => Founder(i).factor = "on"
         /\ Founder(i).codes = IF i = 1 THEN {0} \X CodeNames ELSE {}
  BY <1>2, FounderRow
<1>4. Existing = 1..n /\ \A i \in Existing : user[i] = Founder(i)
  BY <1>1, <1>3, NoUserAssumption DEF Existing, Exists
<1>5. groups = Groups /\ cookie = [b \in Browsers |-> NoCookie]
      /\ request = [h \in Handlers |-> Idle] /\ spent = {} /\ replayed = {}
      /\ overtaken = FALSE /\ clock = 0
  BY DEF Init
<1>6. TypeInv
  <2>1. user \in [Ids -> Rows \cup {NoUser}]
    BY <1>1, <1>3
  <2>2. cookie \in [Browsers -> Cookies]
    BY <1>5 DEF Cookies
  <2>3. accounts \in Nat /\ setups \in Nat /\ setups <= accounts /\ clock \in 0..MaxRequests
    BY <1>1, <1>2, <1>5, AccountsAssumption
  <2> QED
    BY <1>5, <2>1, <2>2, <2>3 DEF TypeInv
<1>7. UsersInv
  <2>1. \A i \in Existing :
           /\ Verifies(user[i]) /\ user[i].groups \subseteq groups /\ user[i].account <= accounts
           /\ user[i].codes # {} => user[i].factor = "on"
    BY <1>1, <1>3, <1>4
  <2>2. \A i, j \in Existing : i # j =>
           user[i].account # user[j].account /\ user[i].codes \cap user[j].codes = {}
    BY <1>3, <1>4
  <2> QED
    BY <2>1, <2>2 DEF UsersInv
<1>8. AdminInv
  <2>1. n > 0 => 1 \in LocalAdmins
    BY <1>2, <1>3, <1>4 DEF LocalAdmins
  <2> QED
    BY <1>1, <1>2, <1>4, <2>1 DEF AdminInv
<1>9. SessionsInv /\ RequestInv
  BY <1>5 DEF SessionsInv, RequestInv, IsSession
<1>10. CodesInv
  <2>1. Held \subseteq {0} \X CodeNames
    BY <1>3, <1>4, <1>5 DEF Held
  <2>2. {0} \X CodeNames \subseteq AllCodes
    BY AccountsAssumption DEF AllCodes
  <2> QED
    BY <1>5, <2>1, <2>2 DEF CodesInv
<1> QED
  BY <1>6, <1>7, <1>8, <1>9, <1>10 DEF IInv, SafeInv

LEMMA NextIInv ==
    ASSUME IInv, [Next]_vars
    PROVE  IInv'
<1>1. CASE UNCHANGED vars
  BY <1>1 DEF vars, IInv, TypeInv, SafeInv, UsersInv, AdminInv, LocalAdmins, SessionsInv, CodesInv,
              Held, RequestInv, SafeRequest, RequestOK, InsertOK, CommitOK, KeepOK, Unused, Basis,
              TakesAdmin, Existing, Exists, Verifies, RequestType
<1>2. ASSUME NEW h \in Handlers, Proceed(h)
      PROVE  IInv'
  BY <1>2, LoadStep, DeleteStep, EditStep, AcceptReauthStep, CommitInsertStep, CommitUpdateStep,
     CommitDeleteStep, CommitDeleteGroupStep, StartSessionStep, KeepSessionStep DEF Proceed
<1>3. ASSUME NEW h \in Handlers, NEW b \in Browsers,
             Visit(h, b) \/ ManageOwn(h, b) \/ Manage(h, b)
      PROVE  IInv'
  BY <1>3, VisitStep, ManageOwnStep, ManageStep
<1> QED
  BY <1>1, <1>2, <1>3 DEF Next

LEMMA SpecIInv == Spec => []IInv
<1>1. IInv /\ [Next]_vars => IInv'
  BY NextIInv
<1> QED
  BY InitIInv, <1>1, PTL DEF Spec

LEMMA IInvImplies ==
    IInv => /\ AccountsTypeOK /\ SignaturesVerify /\ LocalAdminRemains
            /\ ChangesRevokeSessions /\ CodesUsedOnce
<1> SUFFICES ASSUME IInv
             PROVE  /\ AccountsTypeOK /\ SignaturesVerify /\ LocalAdminRemains
                    /\ ChangesRevokeSessions /\ CodesUsedOnce
  OBVIOUS
<1>1. AccountsTypeOK
  <2>1. \A h \in Handlers : request[h] # Idle => request[h].stage \in Stages
    BY DEF IInv, TypeInv, RequestType
  <2>2. ~overtaken => \A i \in Existing : user[i].codes # {} => user[i].factor = "on"
    BY DEF IInv, SafeInv, UsersInv
  <2> QED
    BY <2>1, <2>2 DEF AccountsTypeOK, IInv, TypeInv, Stages
<1>2. SignaturesVerify
  BY RowIsTyped DEF SignaturesVerify, IInv, SafeInv, UsersInv
<1>3. ChangesRevokeSessions
  <2> SUFFICES ASSUME ~overtaken, NEW b \in Browsers, Accepted(cookie[b]),
                      cookie[b].account = user[cookie[b].id].account, cookie[b].revoked
               PROVE  FALSE
    BY DEF ChangesRevokeSessions
  <2> QED
    BY AdmittedExists
<1>4. LocalAdminRemains /\ CodesUsedOnce
  BY DEF LocalAdminRemains, CodesUsedOnce, IInv, SafeInv, AdminInv, CodesInv
<1> QED
  BY <1>1, <1>2, <1>3, <1>4

\* However requests overlap, every row and every request is what the code may
\* write; and unless one committed on what had changed since it read it, only a
\* user whose second factor is on has recovery codes.
THEOREM AccountsTypeCorrect == Spec => []AccountsTypeOK
  BY SpecIInv, IInvImplies, PTL

\* Unless a request committed on what had changed since it read it, every user
\* verifies under the signing key, however logins, edits, deletions and group
\* changes of any number of threads overlap: nobody who only used the
\* application is locked out as "changed".
THEOREM SignaturesAlwaysVerify == Spec => []SignaturesVerify
  BY SpecIInv, IInvImplies, PTL

\* Unless a request committed on what had changed since it read it, an active
\* local administrator is left, whatever administrators do to each other and to
\* themselves, and at whatever time.
THEOREM LocalAdminAlwaysRemains == Spec => []LocalAdminRemains
  BY SpecIInv, IInvImplies, PTL

\* Unless a request committed on what had changed since it read it, a session
\* that a change of its account revoked is never accepted again for that account,
\* though the change's own answer may come after other changes.
THEOREM RevokedSessionsStayRevoked == Spec => []ChangesRevokeSessions
  BY SpecIInv, IInvImplies, PTL

\* Unless a request committed on what had changed since it read it, a recovery
\* code that was spent is never accepted again, at /reauth neither.
THEOREM CodesAreUsedOnce == Spec => []CodesUsedOnce
  BY SpecIInv, IInvImplies, PTL
=============================================================================
