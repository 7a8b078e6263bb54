------------------------------ MODULE Accounts ------------------------------
(***************************************************************************)
(* Accounts and identities: app/services/auth.py and                       *)
(* app/repositories/auth.py.  A member signs up with an email address and  *)
(* a username, or logs in with an identity at Kakao or Google; the first   *)
(* login of an identity finds or creates its account.                      *)
(*                                                                         *)
(* account and social are the committed tables.  A request is a            *)
(* transaction: job[r] what it asks, user[r] the account it found, draft[r]*)
(* that row as the session has it, holder[r] who has the address it asks   *)
(* for according to its snapshot.                                          *)
(***************************************************************************)
EXTENDS Naturals

CONSTANTS Members, Emails, Names, Requests,
          Kakao, Google,   \* the identities at each provider
          Isolations,      \* levels the database may give its transactions
          Null

Identities == Kakao \cup Google

ASSUME SeparateAssumption == Emails \cap Identities = {} /\ Kakao \cap Google = {}
ASSUME NullAssumption == Null \notin Members \cup Emails \cup Names \cup Identities

VARIABLES account, social, pc, job, user, draft, holder,
          isolation        \* the level that the database is configured with

tables == <<account, social>>
vars == <<tables, pc, job, user, draft, holder, isolation>>

------------------------------------------------------------------------------
(* "<provider>_<id>@oauth.sportspassport.kr" stands for the identity itself. *)
Placeholder(i) == i
Addresses == Emails \cup Identities

Account == [email : Addresses, username : Names \cup {Null}, password : BOOLEAN,
            kakao : Emails \cup {Null}]

ASSUME RowAssumption == Null \notin Account

Jobs == [op : {"signup"}, email : Emails, name : Names]
          \cup [op : {"oauth"}, identity : Identities, email : Emails \cup {Null}]
          \cup [op : {"profile"}, user : Members, name : Names]

Registered == {u \in Members : account[u] # Null}
Holder(e) == IF \E u \in Registered : account[u].email = e
             THEN CHOOSE u \in Registered : account[u].email = e
             ELSE Null
Taken(n) == \E u \in Registered : account[u].username = n

(* The address a first login is registered with. *)
LoginEmail(j) == IF j.email = Null THEN Placeholder(j.identity) ELSE j.email

Init ==
    /\ account = [u \in Members |-> Null]
    /\ social = [i \in Identities |-> Null]
    /\ pc = [r \in Requests |-> "idle"]
    /\ job = [r \in Requests |-> Null]
    /\ user = [r \in Requests |-> Null]
    /\ draft = [r \in Requests |-> Null]
    /\ holder = [r \in Requests |-> Null]
    /\ isolation \in Isolations

------------------------------------------------------------------------------
(* The row lock of find_user_by_id(lock=True) is kept until the end. *)
RowFree(u, r) ==
    \A q \in Requests \ {r} :
       pc[q] \in {"find", "replace", "locked", "name"} => user[q] # u

Goto(r, from, to) ==
    pc[r] = from /\ pc' = [pc EXCEPT ![r] = to] /\ UNCHANGED isolation

End(r) ==
    /\ pc' = [pc EXCEPT ![r] = "idle"]
    /\ job' = [job EXCEPT ![r] = Null]
    /\ user' = [user EXCEPT ![r] = Null]
    /\ draft' = [draft EXCEPT ![r] = Null]
    /\ holder' = [holder EXCEPT ![r] = Null]
    /\ UNCHANGED isolation

Start(r, j, u, h, to) ==
    /\ Goto(r, "idle", to)
    /\ job' = [job EXCEPT ![r] = j]
    /\ user' = [user EXCEPT ![r] = u]
    /\ draft' = [draft EXCEPT ![r] = IF u = Null THEN Null ELSE account[u]]
    /\ holder' = [holder EXCEPT ![r] = h]
    /\ UNCHANGED tables

(* REPEATABLE READ keeps the snapshot of the first non-locking read. *)
View(r) == IF isolation = "REPEATABLE READ" THEN holder[r] ELSE Holder(job[r].email)

------------------------------------------------------------------------------
(* signup *)

LookSignup(r, j) ==
    /\ j.op = "signup"
    /\ Holder(j.email) = Null /\ ~Taken(j.name)
    /\ Start(r, j, Null, Null, "create")

(* create_user; a unique key taken in the meantime is answered with 400. *)
CreateAccount(r) ==
    /\ pc[r] = "create"
    /\ Holder(job[r].email) = Null /\ ~Taken(job[r].name)
    /\ \E u \in Members \ Registered :
          account' = [account EXCEPT ![u] = [email |-> job[r].email, username |-> job[r].name,
                                             password |-> TRUE, kakao |-> Null]]
    /\ UNCHANGED social
    /\ End(r)

RefuseSignup(r) ==
    /\ pc[r] = "create"
    /\ Holder(job[r].email) # Null \/ Taken(job[r].name)
    /\ End(r)
    /\ UNCHANGED tables

------------------------------------------------------------------------------
(* oauth_login *)

Upgradable(j, row) ==
    /\ j.identity \in Kakao /\ j.email # Null
    /\ row.email = Placeholder(j.identity)

LookSocial(r, j) ==
    /\ j.op = "oauth"
    /\ LET u == social[j.identity]
           h == Holder(LoginEmail(j))
       IN \/ u = Null /\ Start(r, j, h, h, "register")
          \/ u # Null /\ Upgradable(j, account[u]) /\ Start(r, j, u, h, "lock")
          \/ u # Null /\ ~Upgradable(j, account[u]) /\ Start(r, j, u, h, "sync")

(* _sync_kakao_email: the contact the provider verified, if the row that was *)
(* read shows another one.                                                   *)
Synced(r, row) ==
    IF job[r].identity \in Kakao /\ draft[r].kakao # job[r].email
    THEN [row EXCEPT !.kakao = job[r].email]
    ELSE row

(* Mutant: the new account is kept although its identity is taken. *)
RegisterKeeps(r) ==
    LET i == job[r].identity
        e == LoginEmail(job[r])
    IN /\ pc[r] = "register" /\ user[r] = Null
       /\ Holder(e) = Null
       /\ \E u \in Members \ Registered :
             /\ account' = [account EXCEPT ![u] =
                               [email |-> e, username |-> Null, password |-> FALSE,
                                kakao |-> IF i \in Kakao THEN job[r].email ELSE Null]]
             /\ social' = [social EXCEPT ![i] = IF @ = Null THEN u ELSE @]
       /\ End(r)

(* A first login without an account: the user, then its social account. *)
Register(r) ==
    LET i == job[r].identity
        e == LoginEmail(job[r])
    IN /\ pc[r] = "register" /\ user[r] = Null
       /\ Holder(e) = Null /\ social[i] = Null
       /\ \E u \in Members \ Registered :
             /\ account' = [account EXCEPT ![u] =
                               [email |-> e, username |-> Null, password |-> FALSE,
                                kakao |-> IF i \in Kakao THEN job[r].email ELSE Null]]
             /\ social' = [social EXCEPT ![i] = u]
       /\ End(r)

(* Mutant: linking replaces an identity's social account. *)
LinkReplaces(r) ==
    /\ pc[r] = "register" /\ user[r] # Null
    /\ RowFree(user[r], r)
    /\ social' = [social EXCEPT ![job[r].identity] = user[r]]
    /\ account' = [account EXCEPT ![user[r]] = Synced(r, @)]
    /\ End(r)

(* A first login with the address of an account is linked to it. *)
Link(r) ==
    /\ pc[r] = "register" /\ user[r] # Null
    /\ social[job[r].identity] = Null
    /\ RowFree(user[r], r)
    /\ social' = [social EXCEPT ![job[r].identity] = user[r]]
    /\ account' = [account EXCEPT ![user[r]] = Synced(r, @)]
    /\ End(r)

(* A duplicate key that nothing catches: the login fails and may be repeated. *)
FailRegister(r) ==
    /\ pc[r] = "register"
    /\ \/ social[job[r].identity] # Null
       \/ user[r] = Null /\ Holder(LoginEmail(job[r])) # Null
    /\ End(r)
    /\ UNCHANGED tables

(* Mutant: the address is judged by the row that was read before the lock. *)
LockUnread(r) ==
    /\ Goto(r, "lock", "find")
    /\ RowFree(user[r], r)
    /\ UNCHANGED <<tables, job, user, draft, holder>>

(* replace_placeholder_email reads the row again under its lock. *)
LockAccount(r) ==
    /\ RowFree(user[r], r)
    /\ Goto(r, "lock", IF account[user[r]].email = Placeholder(job[r].identity)
                       THEN "find" ELSE "locked")
    /\ draft' = [draft EXCEPT ![r] = account[user[r]]]
    /\ UNCHANGED <<tables, job, user, holder>>

(* An address somebody has is left alone. *)
FindEmail(r) ==
    /\ Goto(r, "find", IF View(r) = Null THEN "replace" ELSE "locked")
    /\ UNCHANGED <<tables, job, user, draft, holder>>

ReplaceEmail(r) ==
    /\ pc[r] = "replace"
    /\ Holder(job[r].email) = Null
    /\ account' = [account EXCEPT ![user[r]] = Synced(r, [@ EXCEPT !.email = job[r].email])]
    /\ UNCHANGED social
    /\ End(r)

(* "A concurrent signup may claim the email after the lookup": only the       *)
(* update is rolled back, to a savepoint, if the address is now found taken.  *)
KeepEmail(r) ==
    /\ Goto(r, "replace", "locked")
    /\ Holder(job[r].email) # Null
    /\ View(r) # Null
    /\ UNCHANGED <<tables, job, user, draft, holder>>

(* The lookup after the conflict does not see who caused it: the error is *)
(* raised again, and the login fails.                                     *)
FailReplace(r) ==
    /\ pc[r] = "replace"
    /\ Holder(job[r].email) # Null
    /\ View(r) = Null
    /\ End(r)
    /\ UNCHANGED tables

Sync(r) ==
    /\ pc[r] \in {"sync", "locked"}
    /\ RowFree(user[r], r)
    /\ account' = [account EXCEPT ![user[r]] = Synced(r, @)]
    /\ UNCHANGED social
    /\ End(r)

------------------------------------------------------------------------------
(* update_profile with a username *)

Nameable(j, row) == row # Null /\ row.username \in {Null, j.name}

LookName(r, j) ==
    /\ j.op = "profile"
    /\ RowFree(j.user, r)
    /\ Nameable(j, account[j.user])
    /\ account[j.user].username = Null => ~Taken(j.name)
    /\ Start(r, j, j.user, Null, "name")

(* The name is among the values only if the row had none. *)
WriteName(r) ==
    /\ pc[r] = "name"
    /\ \/ draft[r].username = Null /\ ~Taken(job[r].name)
          /\ account' = [account EXCEPT ![user[r]].username = job[r].name]
       \/ draft[r].username # Null /\ UNCHANGED account
    /\ UNCHANGED social
    /\ End(r)

RefuseName(r) ==
    /\ pc[r] = "name"
    /\ draft[r].username = Null /\ Taken(job[r].name)
    /\ End(r)
    /\ UNCHANGED tables

------------------------------------------------------------------------------
(* A crash, a dropped connection, a lock wait timeout: the session rolls back. *)
Abort(r) == pc[r] # "idle" /\ End(r) /\ UNCHANGED tables

Arrive(r) == \E j \in Jobs : LookSignup(r, j) \/ LookSocial(r, j) \/ LookName(r, j)

Handle(r) == \/ CreateAccount(r) \/ RefuseSignup(r)
             \/ Register(r) \/ Link(r) \/ FailRegister(r)
             \/ LockAccount(r) \/ FindEmail(r) \/ ReplaceEmail(r) \/ KeepEmail(r)
             \/ FailReplace(r) \/ Sync(r) \/ WriteName(r) \/ RefuseName(r)

Next == \E r \in Requests : Arrive(r) \/ Handle(r) \/ Abort(r)

Spec == Init /\ [][Next]_vars

------------------------------------------------------------------------------
TypeOK ==
    /\ account \in [Members -> Account \cup {Null}]
    /\ social \in [Identities -> Members \cup {Null}]
    /\ pc \in [Requests -> {"idle", "create", "register", "lock", "find", "replace",
                            "locked", "sync", "name"}]
    /\ job \in [Requests -> Jobs \cup {Null}]
    /\ user \in [Requests -> Members \cup {Null}]
    /\ draft \in [Requests -> Account \cup {Null}]
    /\ holder \in [Requests -> Members \cup {Null}]
    /\ isolation \in Isolations

(* Every account can be logged in to: it has a password or an identity.  Two *)
(* first logins of one identity never leave an account nobody owns, and a    *)
(* placeholder address is always that of the identity's own account.         *)
EveryAccountReachable ==
    \A u \in Registered :
       /\ account[u].password \/ \E i \in Identities : social[i] = u
       /\ \A i \in Identities : account[u].email = Placeholder(i) => social[i] = u

(* "never silently merge accounts": the account of an identity never changes, *)
(* whatever address the provider reports and whoever has it.                  *)
IdentityKept ==
    [][\A i \in Identities : social[i] # Null => social'[i] = social[i]]_vars

(* "Real account emails are not overwritten": an address changes once at      *)
(* most, from the placeholder of the account's own Kakao identity to one that *)
(* nobody else has, also if two logins report different addresses.            *)
EstablishedEmailKept ==
    [][\A u \in Registered :
          account'[u].email # account[u].email =>
             /\ \E i \in Kakao : account[u].email = Placeholder(i) /\ social[i] = u
             /\ \A v \in Registered : account[v].email # account'[u].email]_vars

(* "Username can only be set once and cannot be cleared", also by two requests *)
(* of its owner at the same time.                                              *)
UsernameOnce ==
    [][\A u \in Registered :
          account[u].username # Null => account'[u].username = account[u].username]_vars
=============================================================================
