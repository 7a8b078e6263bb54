--------------------------- MODULE Accounts_proofs ---------------------------
(***************************************************************************)
(* Proofs about Accounts for every set of members, addresses, names,       *)
(* identities and requests, and for every isolation level.                 *)
(***************************************************************************)
EXTENDS Accounts, TLAPS

Step(r) == Arrive(r) \/ Handle(r) \/ Abort(r)

LockPlaces == {"find", "replace", "locked", "name"}
SocialPlaces == {"register", "lock", "find", "replace", "locked", "sync"}

(* What a request was asked for fits the place it has reached. *)
JobInv ==
    \A r \in Requests :
        /\ pc[r] # "idle" => job[r] \in Jobs
        /\ pc[r] = "create" => job[r].op = "signup"
        /\ pc[r] \in SocialPlaces => job[r].op = "oauth"
        /\ pc[r] = "name" => job[r].op = "profile"

(* The account a request has found stays registered. *)
RowInv ==
    \A r \in Requests :
        /\ user[r] # Null => user[r] \in Registered /\ draft[r] \in Account
        /\ pc[r] \notin {"idle", "create", "register"} => user[r] # Null

(* An identity belongs to an account that exists. *)
SocialInv == \A i \in Identities : social[i] # Null => social[i] \in Registered

(* A row lock has one holder. *)
MutexInv ==
    \A q, r \in Requests :
        pc[q] \in LockPlaces /\ pc[r] \in LockPlaces /\ user[q] = user[r] => q = r

(* An address is being replaced in the account of its Kakao identity, and    *)
(* under the lock it is still the placeholder ...                            *)
UpgradeInv ==
    \A r \in Requests :
        /\ pc[r] \in {"lock", "find", "replace"} =>
              /\ job[r].identity \in Kakao /\ job[r].email # Null
              /\ social[job[r].identity] = user[r]
        /\ pc[r] \in {"find", "replace"} =>
              account[user[r]].email = Placeholder(job[r].identity)

(* ... and the username under the lock is still the one that was read. *)
NameInv ==
    \A r \in Requests :
        pc[r] = "name" => account[user[r]].username = draft[r].username

IInv == /\ TypeOK /\ JobInv /\ RowInv /\ SocialInv /\ MutexInv /\ UpgradeInv /\ NameInv
        /\ EveryAccountReachable

(* What the action properties say of a step. *)
IdentityStep == \A i \in Identities : social[i] # Null => social'[i] = social[i]
EmailStep ==
    \A u \in Registered :
        account'[u].email # account[u].email =>
           /\ \E i \in Kakao : account[u].email = Placeholder(i) /\ social[i] = u
           /\ \A v \in Registered : account[v].email # account'[u].email
NameStep ==
    \A u \in Registered :
        account[u].username # Null => account'[u].username = account[u].username
Safe == IInv' /\ IdentityStep /\ EmailStep /\ NameStep

------------------------------------------------------------------------------
LEMMA JobParts ==
  ASSUME NEW j \in Jobs
  PROVE  /\ j.op = "signup" => j.email \in Emails /\ j.name \in Names
         /\ j.op = "oauth" => j.identity \in Identities /\ j.email \in Emails \cup {Null}
         /\ j.op = "profile" => j.user \in Members /\ j.name \in Names
  BY DEF Jobs

LEMMA HolderType == \A e : Holder(e) \in Members \cup {Null}
<1>1. TAKE e
<1>2. CASE \E u \in Registered : account[u].email = e
  BY <1>2 DEF Holder, Registered
<1>3. CASE ~\E u \in Registered : account[u].email = e
  BY <1>3 DEF Holder
<1>4. QED BY <1>2, <1>3

LEMMA HolderRegistered == \A e : Holder(e) # Null => Holder(e) \in Registered
<1>1. TAKE e
<1>2. CASE \E u \in Registered : account[u].email = e
  BY <1>2 DEF Holder
<1>3. CASE ~\E u \in Registered : account[u].email = e
  BY <1>3 DEF Holder
<1>4. QED BY <1>2, <1>3

(* Nobody has an address without a holder. *)
LEMMA NoHolder ==
  ASSUME NEW e, Holder(e) = Null
  PROVE  \A u \in Registered : account[u].email # e
<1>1. SUFFICES ASSUME \E u \in Registered : account[u].email = e PROVE FALSE
  OBVIOUS
<1>2. Holder(e) \in Registered
  BY <1>1 DEF Holder
<1>3. QED BY <1>2, NullAssumption DEF Registered

(* The row the synchronization of the Kakao contact writes differs from the *)
(* one it is given in that contact only.                                    *)
LEMMA SyncedRow ==
  ASSUME NEW r \in Requests, NEW row \in Account,
         job[r].email \in Emails \cup {Null}
  PROVE  /\ Synced(r, row) \in Account
         /\ Synced(r, row).email = row.email
         /\ Synced(r, row).username = row.username
         /\ Synced(r, row).password = row.password
  BY DEF Synced, Account

------------------------------------------------------------------------------
LEMMA InitInv == Init => IInv
<1> SUFFICES ASSUME Init PROVE IInv
  OBVIOUS
<1>1. Registered = {}
  BY DEF Init, Registered
<1>2. TypeOK
  BY DEF Init, TypeOK
<1>3. JobInv /\ RowInv /\ SocialInv /\ MutexInv /\ UpgradeInv /\ NameInv
  BY DEF Init, JobInv, RowInv, SocialInv, MutexInv, UpgradeInv, NameInv, SocialPlaces, LockPlaces
<1>4. EveryAccountReachable
  BY <1>1 DEF EveryAccountReachable
<1>5. QED BY <1>2, <1>3, <1>4 DEF IInv

(* What a request may do to the tables when it ends: no account disappears,   *)
(* and rows that others have locked keep their address and username.          *)
Respects(r) ==
    /\ account' \in [Members -> Account \cup {Null}]
    /\ social' \in [Identities -> Members \cup {Null}]
    /\ \A u \in Registered : account'[u] # Null
    /\ \A q \in Requests \ {r} : pc[q] \in LockPlaces =>
          /\ account'[user[q]].email = account[user[q]].email
          /\ account'[user[q]].username = account[user[q]].username
    /\ IdentityStep
    /\ SocialInv'

LEMMA EndKeeps ==
  ASSUME IInv, NEW r \in Requests, End(r), Respects(r), EveryAccountReachable'
  PROVE  IInv'
<1> USE DEF IInv
<1>1. /\ \A q \in Requests : pc'[q] = IF q = r THEN "idle" ELSE pc[q]
      /\ \A q \in Requests : q # r => /\ job'[q] = job[q] /\ user'[q] = user[q]
                                      /\ draft'[q] = draft[q]
      /\ user'[r] = Null
  BY DEF End, TypeOK
<1>2. TypeOK'
  BY DEF TypeOK, End, Respects
<1>3. JobInv'
  BY <1>1 DEF JobInv, SocialPlaces
<1>4. \A u \in Registered : u \in Registered'
  BY DEF Respects, Registered
<1>5. RowInv'
  BY <1>1, <1>4 DEF RowInv
<1>6. MutexInv'
  BY <1>1 DEF MutexInv, LockPlaces
<1>7. UpgradeInv'
  <2> SUFFICES ASSUME NEW q \in Requests, pc'[q] \in {"lock", "find", "replace"}
               PROVE  /\ job'[q].identity \in Kakao /\ job'[q].email # Null
                      /\ social'[job'[q].identity] = user'[q]
                      /\ pc'[q] \in {"find", "replace"} =>
                            account'[user'[q]].email = Placeholder(job'[q].identity)
    BY DEF UpgradeInv
  <2>1. q # r /\ pc[q] = pc'[q]
    BY <1>1
  <2>2. job[q].identity \in Kakao /\ job[q].email # Null /\ social[job[q].identity] = user[q]
    BY <2>1 DEF UpgradeInv
  <2>3. user[q] # Null
    BY <2>1 DEF RowInv
  <2>4. social'[job[q].identity] = user[q]
    BY <2>2, <2>3 DEF Respects, IdentityStep, Identities
  <2>5. pc[q] \in {"find", "replace"} => account'[user[q]].email = Placeholder(job[q].identity)
    BY <2>1 DEF UpgradeInv, Respects, LockPlaces
  <2>6. QED BY <1>1, <2>1, <2>2, <2>4, <2>5
<1>8. NameInv'
  BY <1>1 DEF NameInv, Respects, LockPlaces
<1>9. QED BY <1>2, <1>3, <1>5, <1>6, <1>7, <1>8 DEF Respects

(* A request that ends without a trace: refusals, failures and crashes. *)
LEMMA NothingWritten ==
  ASSUME IInv, NEW r \in Requests, End(r), UNCHANGED tables
  PROVE  Safe
<1>1. Respects(r)
  BY DEF Respects, tables, IInv, TypeOK, Registered, SocialInv, IdentityStep
<1>2. EveryAccountReachable'
  BY DEF EveryAccountReachable, tables, IInv, Registered
<1>3. QED BY <1>1, <1>2, EndKeeps DEF Safe, tables, IdentityStep, EmailStep, NameStep

(* A request that goes on: the tables stay and it has all it needs to know. *)
GoesOn(r, to, j, u, row, h) ==
    /\ UNCHANGED <<tables, isolation>>
    /\ pc' = [pc EXCEPT ![r] = to] /\ job' = [job EXCEPT ![r] = j]
    /\ user' = [user EXCEPT ![r] = u] /\ draft' = [draft EXCEPT ![r] = row]
    /\ holder' = [holder EXCEPT ![r] = h]
    /\ to \in {"create", "register", "lock", "find", "replace", "locked", "sync", "name"}
    /\ j \in Jobs /\ h \in Members \cup {Null}
    /\ to = "create" => j.op = "signup"
    /\ to \in SocialPlaces => j.op = "oauth"
    /\ to = "name" => j.op = "profile"
    /\ \/ u = Null /\ row = Null /\ to \in {"create", "register"}
       \/ u \in Registered /\ row \in Account
    /\ to \in LockPlaces => IF pc[r] \in LockPlaces THEN u = user[r] ELSE RowFree(u, r)
    /\ to \in {"lock", "find", "replace"} =>
          j.identity \in Kakao /\ j.email # Null /\ social[j.identity] = u
    /\ to \in {"find", "replace"} => account[u].email = Placeholder(j.identity)
    /\ to = "name" => account[u].username = row.username

LEMMA GoesOnSafe ==
  ASSUME IInv, NEW r \in Requests, NEW to, NEW j, NEW u, NEW row, NEW h,
         GoesOn(r, to, j, u, row, h)
  PROVE  Safe
<1> USE DEF IInv
<1>1. /\ pc'[r] = to /\ job'[r] = j /\ user'[r] = u /\ draft'[r] = row
      /\ \A q \in Requests : q # r => /\ pc'[q] = pc[q] /\ job'[q] = job[q]
                                      /\ user'[q] = user[q] /\ draft'[q] = draft[q]
  BY DEF GoesOn, TypeOK
<1>2. TypeOK'
  BY DEF TypeOK, GoesOn, tables, Registered
<1>3. JobInv'
  BY <1>1 DEF GoesOn, JobInv, SocialPlaces
<1>4. RowInv'
  BY <1>1, NullAssumption DEF GoesOn, RowInv, tables, Registered
<1>5. MutexInv'
  <2> SUFFICES ASSUME NEW q \in Requests, q # r, pc'[q] \in LockPlaces,
                      pc'[r] \in LockPlaces, user'[q] = user'[r]
               PROVE  FALSE
    BY <1>1 DEF MutexInv
  <2>1. CASE pc[r] \in LockPlaces
    BY <2>1, <1>1 DEF GoesOn, MutexInv
  <2>2. CASE pc[r] \notin LockPlaces
    BY <2>2, <1>1 DEF GoesOn, RowFree, LockPlaces
  <2>3. QED BY <2>1, <2>2
<1>6. UpgradeInv'
  BY <1>1 DEF GoesOn, UpgradeInv, tables
<1>7. NameInv'
  BY <1>1 DEF GoesOn, NameInv, tables
<1>8. EveryAccountReachable'
  BY DEF GoesOn, EveryAccountReachable, tables, Registered
<1>9. SocialInv'
  BY DEF GoesOn, SocialInv, tables, Registered
<1>10. QED
  BY <1>2, <1>3, <1>4, <1>5, <1>6, <1>7, <1>8, <1>9
     DEF GoesOn, Safe, tables, IdentityStep, EmailStep, NameStep

(* A request that writes one row, and perhaps the social account of one        *)
(* identity that had none, and ends: the row is new, or nobody else has locked *)
(* it, and it is as the properties want it.                                    *)
WritesRow(r, u, row) ==
    /\ End(r) /\ u \in Members /\ row \in Account
    /\ account' = [account EXCEPT ![u] = row]
    /\ \/ social' = social
       \/ \E i \in Identities : social[i] = Null /\ social' = [social EXCEPT ![i] = u]
    /\ u \in Registered => \A q \in Requests \ {r} : pc[q] \in LockPlaces => user[q] # u
    /\ row.password \/ \E i \in Identities : social'[i] = u
    /\ \A i \in Identities : row.email = Placeholder(i) => social'[i] = u
    /\ u \in Registered /\ row.email # account[u].email =>
          /\ \E i \in Kakao : account[u].email = Placeholder(i) /\ social[i] = u
          /\ \A v \in Registered : account[v].email # row.email
    /\ u \in Registered /\ account[u].username # Null => row.username = account[u].username

LEMMA WritesRowSafe ==
  ASSUME IInv, NEW r \in Requests, NEW u, NEW row, WritesRow(r, u, row)
  PROVE  Safe
<1> USE DEF IInv
<1>1. /\ account' \in [Members -> Account \cup {Null}]
      /\ social' \in [Identities -> Members \cup {Null}]
      /\ account'[u] = row /\ \A w \in Members : w # u => account'[w] = account[w]
  BY DEF WritesRow, TypeOK
<1>2. row # Null
  BY RowAssumption DEF WritesRow
<1>3. IdentityStep
  BY <1>1 DEF WritesRow, IdentityStep, TypeOK
<1>4. SocialInv'
  BY <1>1, <1>2 DEF WritesRow, SocialInv, Registered, TypeOK
<1>5. \A q \in Requests \ {r} : pc[q] \in LockPlaces => user[q] \in Registered /\ user[q] # u
  BY DEF WritesRow, RowInv, LockPlaces
<1>6. Respects(r)
  BY <1>1, <1>2, <1>3, <1>4, <1>5 DEF WritesRow, Respects, Registered
<1>7. EveryAccountReachable'
  BY <1>1, <1>2, <1>3, NullAssumption DEF WritesRow, EveryAccountReachable, Registered, IdentityStep
<1>8. EmailStep
  BY <1>1 DEF WritesRow, EmailStep, Registered
<1>9. NameStep
  BY <1>1 DEF WritesRow, NameStep, Registered
<1>10. QED BY <1>3, <1>6, <1>7, <1>8, <1>9, EndKeeps DEF WritesRow, Safe
------------------------------------------------------------------------------
(* One step of each action. *)

LEMMA SignupLooks ==
  ASSUME IInv, NEW r \in Requests, NEW j \in Jobs, LookSignup(r, j)
  PROVE  Safe
<1>1. Goto(r, "idle", "create") /\ j.op = "signup" /\ UNCHANGED tables
  BY DEF LookSignup, Start
<1>2. /\ job' = [job EXCEPT ![r] = j] /\ user' = [user EXCEPT ![r] = Null]
      /\ draft' = [draft EXCEPT ![r] = Null] /\ holder' = [holder EXCEPT ![r] = Null]
  BY DEF LookSignup, Start
<1>3. GoesOn(r, "create", j, Null, Null, Null)
  BY <1>1, <1>2 DEF GoesOn, Goto, SocialPlaces, LockPlaces
<1>4. QED BY <1>3, GoesOnSafe

LEMMA SocialLooks ==
  ASSUME IInv, NEW r \in Requests, NEW j \in Jobs, LookSocial(r, j)
  PROVE  Safe
<1> DEFINE i == j.identity
           h == Holder(LoginEmail(j))
           u == social[i]
<1>1. j.op = "oauth" /\ i \in Identities
  BY JobParts DEF LookSocial
<1>2. u \in Members \cup {Null} /\ (u # Null => u \in Registered)
  BY <1>1 DEF IInv, TypeOK, SocialInv
<1>3. h \in Members \cup {Null} /\ (h # Null => h \in Registered)
  BY HolderType, HolderRegistered
<1>4. \A v \in Registered : account[v] \in Account
  BY DEF IInv, TypeOK, Registered
<1>5. CASE u = Null /\ Start(r, j, h, h, "register")
  <2> DEFINE row == IF h = Null THEN Null ELSE account[h]
  <2>1. row \in Account \cup {Null} /\ (h # Null => row \in Account)
    BY <1>3, <1>4
  <2>2. /\ UNCHANGED tables /\ Goto(r, "idle", "register")
        /\ job' = [job EXCEPT ![r] = j] /\ user' = [user EXCEPT ![r] = h]
        /\ draft' = [draft EXCEPT ![r] = row] /\ holder' = [holder EXCEPT ![r] = h]
    BY <1>5 DEF Start
  <2>3. h = Null => row = Null
    OBVIOUS
  <2> HIDE DEF h, row
  <2>4. GoesOn(r, "register", j, h, row, h)
    BY <1>1, <1>3, <2>1, <2>2, <2>3 DEF GoesOn, Goto, LockPlaces
  <2>5. QED BY <2>4, GoesOnSafe
<1>6. ASSUME u # Null, NEW to \in {"lock", "sync"}, Start(r, j, u, h, to),
             to = "lock" => Upgradable(j, account[u])
      PROVE  Safe
  <2>1. account[u] \in Account
    BY <1>2, <1>4, <1>6
  <2>2. /\ UNCHANGED tables /\ Goto(r, "idle", to)
        /\ job' = [job EXCEPT ![r] = j] /\ user' = [user EXCEPT ![r] = u]
        /\ draft' = [draft EXCEPT ![r] = account[u]] /\ holder' = [holder EXCEPT ![r] = h]
    BY <1>6 DEF Start
  <2>3. to = "lock" => i \in Kakao /\ j.email # Null /\ social[i] = u
    BY <1>6 DEF Upgradable
  <2> HIDE DEF h
  <2>4. GoesOn(r, to, j, u, account[u], h)
    BY <1>1, <1>2, <1>3, <1>6, <2>1, <2>2, <2>3 DEF GoesOn, Goto, LockPlaces
  <2>5. QED BY <2>4, GoesOnSafe
<1>7. QED BY <1>5, <1>6 DEF LookSocial

LEMMA NameLooks ==
  ASSUME IInv, NEW r \in Requests, NEW j \in Jobs, LookName(r, j)
  PROVE  Safe
<1> DEFINE u == j.user
<1>1. j.op = "profile" /\ u \in Members /\ account[u] # Null /\ RowFree(u, r)
  BY JobParts DEF LookName, Nameable
<1>2. u # Null /\ u \in Registered /\ account[u] \in Account
  BY <1>1, NullAssumption DEF IInv, TypeOK, Registered
<1>3. /\ UNCHANGED tables /\ Goto(r, "idle", "name")
      /\ job' = [job EXCEPT ![r] = j] /\ user' = [user EXCEPT ![r] = u]
      /\ draft' = [draft EXCEPT ![r] = account[u]] /\ holder' = [holder EXCEPT ![r] = Null]
  BY <1>2 DEF LookName, Start
<1>4. pc[r] \notin LockPlaces
  BY <1>3 DEF Goto, LockPlaces
<1>5. GoesOn(r, "name", j, u, account[u], Null)
  BY <1>1, <1>2, <1>3, <1>4 DEF GoesOn, Goto, SocialPlaces, LockPlaces
<1>6. QED BY <1>5, GoesOnSafe

(* The steps of a login between its lookups and its last write. *)
LEMMA UpgradeGoesOn ==
  ASSUME IInv, NEW r \in Requests, LockAccount(r) \/ FindEmail(r) \/ KeepEmail(r)
  PROVE  Safe
<1> DEFINE j == job[r]
           u == user[r]
           row == draft'[r]
<1>1. /\ pc[r] \in {"lock", "find", "replace"} /\ UNCHANGED <<tables, job, user, holder>>
      /\ \/ draft' = draft
         \/ draft' = [draft EXCEPT ![r] = account[u]]
  BY DEF LockAccount, FindEmail, KeepEmail, Goto
<1>2. j \in Jobs /\ j.op = "oauth"
  BY <1>1 DEF IInv, JobInv, SocialPlaces
<1>3. u \in Members /\ u # Null /\ u \in Registered /\ account[u] \in Account
  BY <1>1 DEF IInv, RowInv, TypeOK, Registered
<1>4. row \in Account /\ draft' = [draft EXCEPT ![r] = row]
  BY <1>1, <1>3 DEF IInv, TypeOK, RowInv
<1>5. j.identity \in Kakao /\ j.email # Null /\ social[j.identity] = u
  BY <1>1 DEF IInv, UpgradeInv
<1>6. PICK to \in {"find", "replace", "locked"} :
         /\ Goto(r, pc[r], to)
         /\ pc[r] \notin LockPlaces => RowFree(u, r)
         /\ to \in {"find", "replace"} => account[u].email = Placeholder(j.identity)
  <2>1. CASE LockAccount(r)
    <3>1. RowFree(u, r) /\ pc[r] = "lock"
      BY <2>1 DEF LockAccount, Goto
    <3>2. CASE account[u].email = Placeholder(j.identity)
      <4>1. Goto(r, pc[r], "find")
        BY <2>1, <3>2 DEF LockAccount, Goto
      <4>2. QED BY <3>1, <3>2, <4>1
    <3>3. CASE account[u].email # Placeholder(j.identity)
      <4>1. Goto(r, pc[r], "locked")
        BY <2>1, <3>3 DEF LockAccount, Goto
      <4>2. QED BY <3>1, <4>1
    <3>4. QED BY <3>2, <3>3
  <2>2. CASE FindEmail(r)
    <3>1. pc[r] = "find" /\ account[u].email = Placeholder(j.identity)
      BY <2>2 DEF FindEmail, Goto, IInv, UpgradeInv
    <3>2. Goto(r, pc[r], "replace") \/ Goto(r, pc[r], "locked")
      BY <2>2 DEF FindEmail, Goto
    <3>3. QED BY <3>1, <3>2 DEF LockPlaces
  <2>3. CASE KeepEmail(r)
    BY <2>3 DEF KeepEmail, Goto, LockPlaces
  <2>4. QED BY <2>1, <2>2, <2>3
<1>7. /\ job' = [job EXCEPT ![r] = j] /\ user' = [user EXCEPT ![r] = u]
      /\ holder' = [holder EXCEPT ![r] = holder[r]] /\ holder[r] \in Members \cup {Null}
  BY <1>1 DEF IInv, TypeOK
<1>8. UNCHANGED <<tables, isolation>>
  BY <1>1 DEF LockAccount, FindEmail, KeepEmail, Goto
<1>9. pc[r] \in LockPlaces => u = user[r]
  OBVIOUS
<1> HIDE DEF j, u, row
<1>10. GoesOn(r, to, j, u, row, holder[r])
  BY <1>2, <1>3, <1>4, <1>5, <1>6, <1>7, <1>8, <1>9 DEF GoesOn, Goto, SocialPlaces
<1>11. QED BY <1>10, GoesOnSafe

(* A new row is written by signup and by a first login. *)
LEMMA CreateSafe ==
  ASSUME IInv, NEW r \in Requests, CreateAccount(r)
  PROVE  Safe
<1>1. job[r] \in Jobs /\ job[r].op = "signup"
  BY DEF CreateAccount, IInv, JobInv
<1>2. job[r].email \in Emails /\ job[r].name \in Names
  BY <1>1, JobParts
<1> DEFINE row == [email |-> job[r].email, username |-> job[r].name,
                   password |-> TRUE, kakao |-> Null]
<1>3. row \in Account /\ row.password
  BY <1>2 DEF Account, Addresses
<1>4. PICK u \in Members \ Registered : account' = [account EXCEPT ![u] = row]
  BY DEF CreateAccount
<1>5. \A i \in Identities : row.email # Placeholder(i)
  BY <1>2, SeparateAssumption DEF Placeholder
<1>6. End(r) /\ social' = social
  BY DEF CreateAccount
<1> HIDE DEF row
<1>7. WritesRow(r, u, row)
  BY <1>3, <1>4, <1>5, <1>6 DEF WritesRow
<1>8. QED BY <1>7, WritesRowSafe

LEMMA RegisterSafe ==
  ASSUME IInv, NEW r \in Requests, Register(r)
  PROVE  Safe
<1> DEFINE i == job[r].identity
           e == LoginEmail(job[r])
           row == [email |-> e, username |-> Null, password |-> FALSE,
                   kakao |-> IF i \in Kakao THEN job[r].email ELSE Null]
<1>1. job[r] \in Jobs /\ job[r].op = "oauth"
  BY DEF Register, IInv, JobInv, SocialPlaces
<1>2. i \in Identities /\ job[r].email \in Emails \cup {Null}
  BY <1>1, JobParts
<1>3. e \in Emails \/ e = i
  BY <1>2 DEF LoginEmail, Placeholder
<1>4. row \in Account
  BY <1>2, <1>3 DEF Account, Addresses
<1>5. PICK u \in Members \ Registered :
         account' = [account EXCEPT ![u] = row] /\ social' = [social EXCEPT ![i] = u]
  BY DEF Register
<1>6. End(r) /\ social[i] = Null
  BY DEF Register
<1>7. social'[i] = u
  BY <1>2, <1>5 DEF IInv, TypeOK
<1>8. \A k \in Identities : row.email = Placeholder(k) => social'[k] = u
  BY <1>2, <1>3, <1>7, SeparateAssumption DEF Placeholder
<1> HIDE DEF i, row
<1>9. WritesRow(r, u, row)
  BY <1>2, <1>4, <1>5, <1>6, <1>7, <1>8 DEF WritesRow
<1>10. QED BY <1>9, WritesRowSafe

(* The row a login found or locked keeps its address, username and password *)
(* when the contact is synchronized.                                        *)
LEMMA LinkSafe ==
  ASSUME IInv, NEW r \in Requests, Link(r)
  PROVE  Safe
<1> DEFINE i == job[r].identity
           u == user[r]
           row == Synced(r, account[u])
<1>1. job[r] \in Jobs /\ job[r].op = "oauth"
  BY DEF Link, IInv, JobInv, SocialPlaces
<1>2. i \in Identities /\ job[r].email \in Emails \cup {Null}
  BY <1>1, JobParts
<1>3. u \in Members /\ u \in Registered /\ account[u] \in Account
  BY DEF Link, IInv, RowInv, TypeOK, Registered
<1>4. /\ row \in Account /\ row.email = account[u].email
      /\ row.username = account[u].username
  BY <1>2, <1>3, SyncedRow
<1>5. /\ account' = [account EXCEPT ![u] = row] /\ End(r)
      /\ social[i] = Null /\ social' = [social EXCEPT ![i] = u] /\ RowFree(u, r)
  BY DEF Link
<1>6. social'[i] = u /\ \A k \in Identities : social[k] # Null => social'[k] = social[k]
  BY <1>2, <1>5 DEF IInv, TypeOK
<1>7. \A k \in Identities : row.email = Placeholder(k) => social'[k] = u
  <2>1. TAKE k \in Identities
  <2>2. HAVE row.email = Placeholder(k)
  <2>3. social[k] = u
    BY <1>3, <1>4, <2>2 DEF IInv, EveryAccountReachable
  <2>4. u # Null
    BY <1>3, NullAssumption
  <2>5. QED BY <1>6, <2>3, <2>4
<1>8. \A q \in Requests \ {r} : pc[q] \in LockPlaces => user[q] # u
  BY <1>5 DEF RowFree, LockPlaces
<1> HIDE DEF i, u, row
<1>9. WritesRow(r, u, row)
  BY <1>2, <1>3, <1>4, <1>5, <1>6, <1>7, <1>8 DEF WritesRow
<1>10. QED BY <1>9, WritesRowSafe

LEMMA SyncSafe ==
  ASSUME IInv, NEW r \in Requests, Sync(r)
  PROVE  Safe
<1> DEFINE u == user[r]
           row == Synced(r, account[u])
<1>1. job[r] \in Jobs /\ job[r].op = "oauth"
  BY DEF Sync, IInv, JobInv, SocialPlaces
<1>2. job[r].email \in Emails \cup {Null}
  BY <1>1, JobParts
<1>3. u \in Members /\ u \in Registered /\ account[u] \in Account
  BY DEF Sync, IInv, RowInv, TypeOK, Registered
<1>4. /\ row \in Account /\ row.email = account[u].email
      /\ row.username = account[u].username /\ row.password = account[u].password
  BY <1>2, <1>3, SyncedRow
<1>5. account' = [account EXCEPT ![u] = row] /\ End(r) /\ social' = social /\ RowFree(u, r)
  BY DEF Sync
<1>6. /\ row.password \/ \E k \in Identities : social'[k] = u
      /\ \A k \in Identities : row.email = Placeholder(k) => social'[k] = u
  BY <1>3, <1>4, <1>5 DEF IInv, EveryAccountReachable
<1>7. \A q \in Requests \ {r} : pc[q] \in LockPlaces => user[q] # u
  BY <1>5 DEF RowFree, LockPlaces
<1> HIDE DEF u, row
<1>8. WritesRow(r, u, row)
  BY <1>3, <1>4, <1>5, <1>6, <1>7 DEF WritesRow
<1>9. QED BY <1>8, WritesRowSafe

(* The placeholder is replaced by an address nobody has, under the row lock. *)
LEMMA ReplaceSafe ==
  ASSUME IInv, NEW r \in Requests, ReplaceEmail(r)
  PROVE  Safe
<1> DEFINE u == user[r]
           old == [account[u] EXCEPT !.email = job[r].email]
           row == Synced(r, old)
<1>1. job[r] \in Jobs /\ job[r].op = "oauth" /\ pc[r] = "replace"
  BY DEF ReplaceEmail, IInv, JobInv, SocialPlaces
<1>2. /\ job[r].email \in Emails /\ job[r].identity \in Kakao
      /\ social[job[r].identity] = u /\ account[u].email = Placeholder(job[r].identity)
  BY <1>1, JobParts DEF IInv, UpgradeInv
<1>3. u \in Members /\ u \in Registered /\ account[u] \in Account
  BY <1>1 DEF IInv, RowInv, TypeOK, Registered
<1>4. /\ old \in Account /\ old.email = job[r].email
      /\ old.username = account[u].username
  BY <1>2, <1>3 DEF Account, Addresses
<1>5. /\ row \in Account /\ row.email = job[r].email
      /\ row.username = account[u].username
  BY <1>2, <1>4, SyncedRow
<1>6. account' = [account EXCEPT ![u] = row] /\ End(r) /\ social' = social
  BY DEF ReplaceEmail
<1>7. social'[job[r].identity] = u /\ job[r].identity \in Identities
  BY <1>2, <1>6 DEF Identities
<1>8. \A k \in Identities : row.email # Placeholder(k)
  BY <1>2, <1>5, SeparateAssumption DEF Placeholder
<1>9. \A v \in Registered : account[v].email # row.email
  BY <1>5, NoHolder DEF ReplaceEmail
<1>10. \A q \in Requests \ {r} : pc[q] \in LockPlaces => user[q] # u
  BY <1>1 DEF IInv, MutexInv, LockPlaces
<1> HIDE DEF u, old, row
<1>11. WritesRow(r, u, row)
  BY <1>2, <1>3, <1>5, <1>6, <1>7, <1>8, <1>9, <1>10 DEF WritesRow
<1>12. QED BY <1>11, WritesRowSafe

(* A username is written into a row that still has none. *)
LEMMA WriteNameSafe ==
  ASSUME IInv, NEW r \in Requests, WriteName(r)
  PROVE  Safe
<1> DEFINE u == user[r]
           row == [account[u] EXCEPT !.username = job[r].name]
<1>1. pc[r] = "name" /\ End(r) /\ social' = social
  BY DEF WriteName
<1>2. u \in Members /\ u \in Registered /\ account[u] \in Account
  BY <1>1 DEF IInv, RowInv, TypeOK, Registered
<1>3. CASE account' = account
  BY <1>1, <1>3, NothingWritten DEF tables
<1>4. CASE draft[r].username = Null /\ account' = [account EXCEPT ![u].username = job[r].name]
  <2>1. job[r] \in Jobs /\ job[r].op = "profile"
    BY <1>1 DEF IInv, JobInv
  <2>2. job[r].name \in Names
    BY <2>1, JobParts
  <2>3. row \in Account /\ row.email = account[u].email /\ row.password = account[u].password
    BY <1>2, <2>2 DEF Account
  <2>4. account' = [account EXCEPT ![u] = row]
    BY <1>4
  <2>5. account[u].username = Null
    BY <1>1, <1>4 DEF IInv, NameInv
  <2>6. /\ row.password \/ \E k \in Identities : social'[k] = u
        /\ \A k \in Identities : row.email = Placeholder(k) => social'[k] = u
    BY <1>1, <1>2, <2>3 DEF IInv, EveryAccountReachable
  <2>7. \A q \in Requests \ {r} : pc[q] \in LockPlaces => user[q] # u
    BY <1>1 DEF IInv, MutexInv, LockPlaces
  <2> HIDE DEF u, row
  <2>8. WritesRow(r, u, row)
    BY <1>1, <1>2, <2>3, <2>4, <2>5, <2>6, <2>7 DEF WritesRow
  <2>9. QED BY <2>8, WritesRowSafe
<1>5. QED BY <1>3, <1>4 DEF WriteName

------------------------------------------------------------------------------
LEMMA StepSafe ==
  ASSUME IInv, NEW r \in Requests, Step(r)
  PROVE  Safe
<1>1. CASE Arrive(r)
  BY <1>1, SignupLooks, SocialLooks, NameLooks DEF Arrive
<1>2. CASE RefuseSignup(r) \/ FailRegister(r) \/ FailReplace(r) \/ RefuseName(r) \/ Abort(r)
  BY <1>2, NothingWritten DEF RefuseSignup, FailRegister, FailReplace, RefuseName, Abort
<1>3. CASE LockAccount(r) \/ FindEmail(r) \/ KeepEmail(r)
  BY <1>3, UpgradeGoesOn
<1>4. CASE CreateAccount(r) \/ Register(r) \/ Link(r)
  BY <1>4, CreateSafe, RegisterSafe, LinkSafe
<1>5. CASE Sync(r) \/ ReplaceEmail(r) \/ WriteName(r)
  BY <1>5, SyncSafe, ReplaceSafe, WriteNameSafe
<1>6. QED BY <1>1, <1>2, <1>3, <1>4, <1>5 DEF Step, Handle

LEMMA NextSafe == IInv /\ [Next]_vars => IInv' /\ [IdentityStep /\ EmailStep /\ NameStep]_vars
<1> SUFFICES ASSUME IInv, [Next]_vars
             PROVE  IInv' /\ [IdentityStep /\ EmailStep /\ NameStep]_vars
  OBVIOUS
<1>1. CASE Next
  <2>1. PICK r \in Requests : Step(r)
    BY <1>1 DEF Next, Step
  <2>2. QED BY <2>1, StepSafe DEF Safe
<1>2. CASE UNCHANGED vars
  BY <1>2 DEF vars, tables, IInv, TypeOK, JobInv, RowInv, SocialInv, MutexInv, UpgradeInv,
     NameInv, EveryAccountReachable, Registered
<1>3. QED BY <1>1, <1>2

THEOREM Invariance == Spec => []IInv
<1>1. IInv /\ [Next]_vars => IInv'
  BY NextSafe
<1>2. QED BY <1>1, InitInv, PTL DEF Spec

(* The tables and the requests always have the shape the code gives them. *)
THEOREM AccountsTypeCorrect == Spec => []TypeOK
<1>1. IInv => TypeOK
  BY DEF IInv
<1>2. QED BY <1>1, Invariance, PTL

(* No account is ever without a way to log in, and no placeholder address is *)
(* anybody's but its identity's account.                                     *)
THEOREM AccountsStayReachable == Spec => []EveryAccountReachable
<1>1. IInv => EveryAccountReachable
  BY DEF IInv
<1>2. QED BY <1>1, Invariance, PTL

(* The account of an identity never changes: logins never merge accounts. *)
THEOREM IdentitiesKept == Spec => IdentityKept
<1>1. IInv /\ [Next]_vars =>
         [\A i \in Identities : social[i] # Null => social'[i] = social[i]]_vars
  BY NextSafe DEF IdentityStep
<1>2. QED BY <1>1, Invariance, PTL DEF Spec, IdentityKept

(* An address that is not a placeholder is never written over. *)
THEOREM EstablishedEmailsKept == Spec => EstablishedEmailKept
<1>1. IInv /\ [Next]_vars => [EmailStep]_vars
  BY NextSafe
<1>2. IInv /\ [Next]_vars =>
         [\A u \in Registered :
            account'[u].email # account[u].email =>
               /\ \E i \in Kakao : account[u].email = Placeholder(i) /\ social[i] = u
               /\ \A v \in Registered : account[v].email # account'[u].email]_vars
  BY <1>1 DEF EmailStep
<1>3. QED BY <1>2, Invariance, PTL DEF Spec, EstablishedEmailKept

(* A username is set once, whatever requests of its owner overlap. *)
THEOREM UsernamesSetOnce == Spec => UsernameOnce
<1>1. IInv /\ [Next]_vars =>
         [\A u \in Registered :
            account[u].username # Null => account'[u].username = account[u].username]_vars
  BY NextSafe DEF NameStep
<1>2. QED BY <1>1, Invariance, PTL DEF Spec, UsernameOnce
==============================================================================
