---------------------------- MODULE MCAccess_proofs ----------------------------
(***************************************************************************)
(* Proofs about the recovery codes, the administrators' codes, the         *)
(* forecast and the request limit, for every number of requests, browsers, *)
(* codes, places and clients: a section for each, and at its end the       *)
(* theorems about MCAccess, where the other parts only stutter.            *)
(***************************************************************************)
EXTENDS MCAccess, FiniteSetTheorems, SequenceTheorems, WellFoundedInduction, TLAPS

(* A behaviour of MCAccess is one of each part. *)
LEMMA PartsSpec ==
  AccessSpec => Reset!Spec /\ Otp!OtpSpec /\ Forecast!WeatherSpec /\ LimiterSpec
<1>1. AccessInit => Reset!Init /\ Otp!OtpInit /\ Forecast!WeatherInit /\ LimiterInit
  BY DEF AccessInit
<1>2. [AccessNext]_accessVars => [Reset!Next]_(Reset!vars)
  BY DEF AccessNext, accessVars, resetVars, Reset!vars, Reset!tables
<1>3. [AccessNext]_accessVars => [Otp!OtpNext]_(Otp!otpVars)
  BY DEF AccessNext, accessVars, otpVars, Otp!otpVars
<1>4. [AccessNext]_accessVars => [Forecast!WeatherNext]_(Forecast!weatherVars)
  BY DEF AccessNext, accessVars, weatherVars, Forecast!weatherVars
<1>5. [AccessNext]_accessVars => [LimiterNext]_limiterVars
  BY DEF AccessNext, accessVars, limiterVars
<1>6. QED
  BY <1>1, <1>2, <1>3, <1>4, <1>5, PTL
     DEF AccessSpec, Reset!Spec, Otp!OtpSpec, Forecast!WeatherSpec, LimiterSpec

------------------------------------------------------------------------------
(* Recovery codes *)

Requesting == {"insert", "mail", "failed", "sent"}

(* The UPDATE of one request keeps the others out: two requests are between   *)
(* their UPDATE and their commit only as long as there is no row to lock.     *)
ResetLocks ==
    /\ \A q, r \in ResetRequests :
          reset_pc[r] \in {"mail", "failed", "sent"} /\ reset_pc[q] \in Requesting => q = r
    /\ \A q, r \in ResetRequests :
          reset_pc[q] = "insert" /\ reset_pc[r] = "insert" /\ q # r => Reset!Rows = {}

(* What a request is about to commit: its code is newer than every row and,   *)
(* once the mail is sent, delivered; and it retires every code that is valid. *)
ResetWork ==
    \A r \in ResetRequests :
        /\ reset_pc[r] \in {"insert", "mail", "sent"} => reset_retired[r] = Reset!Unused
        /\ reset_pc[r] \in {"mail", "sent"} =>
              /\ reset_mine[r] \in Reset!Codes /\ reset_mine[r] < reset_next
              /\ \A c \in Reset!Rows : c < reset_mine[r]
        /\ reset_pc[r] = "sent" => reset_mine[r] \in reset_delivered
        /\ reset_pc[r] = "failed" =>
              reset_mine[r] = Reset!NoCode /\ reset_retired[r] = {}
        /\ reset_pc[r] = "hash" => reset_mine[r] \in Reset!Rows

ResetInv ==
    /\ Reset!TypeOK /\ ResetLocks /\ ResetWork
    /\ \A c \in Reset!Rows : c < reset_next
    /\ \A c, d \in Reset!Unused : c = d
    /\ Reset!Unused \subseteq reset_delivered

LEMMA ResetInit == Reset!Init => ResetInv
  BY ResetAssumption
     DEF Reset!Init, ResetInv, Reset!TypeOK, ResetLocks, ResetWork, Requesting,
         Reset!Rows, Reset!Unused, Reset!Codes, Reset!NoCode

ResetStep(r) ==
    \/ Reset!Retire(r) \/ Reset!InsertCode(r) \/ Reset!DeadlockVictim(r)
    \/ Reset!MailSent(r) \/ Reset!MailFailed(r) \/ Reset!CommitRequest(r)
    \/ Reset!ResetPassword(r) \/ Reset!Abort(r)
    \/ \E c \in Reset!Codes : Reset!ReadCode(r, c)

LEMMA ResetEnd ==
  ASSUME Reset!TypeOK, NEW r \in ResetRequests, Reset!End(r)
  PROVE  /\ reset_pc'[r] = "idle"
         /\ \A q \in ResetRequests \ {r} :
               /\ reset_pc'[q] = reset_pc[q] /\ reset_mine'[q] = reset_mine[q]
               /\ reset_retired'[q] = reset_retired[q]
         /\ reset_pc' \in [ResetRequests ->
                              {"idle", "insert", "mail", "failed", "sent", "hash"}]
         /\ reset_mine' \in [ResetRequests -> Reset!Codes \cup {Reset!NoCode}]
         /\ reset_retired' \in [ResetRequests -> SUBSET Reset!Codes]
  BY DEF Reset!End, Reset!TypeOK

(* A request that leaves the table alone. *)
LEMMA ResetQuiet ==
  ASSUME ResetInv, NEW r \in ResetRequests,
         Reset!Retire(r) \/ Reset!InsertCode(r) \/ Reset!MailSent(r) \/ Reset!MailFailed(r)
         \/ (\E c \in Reset!Codes : Reset!ReadCode(r, c))
  PROVE  ResetInv'
<1> USE DEF ResetInv, Reset!tables
<1>1. reset_code' = reset_code /\ Reset!Rows' = Reset!Rows /\ Reset!Unused' = Reset!Unused
  BY DEF Reset!Retire, Reset!InsertCode, Reset!MailSent, Reset!MailFailed, Reset!ReadCode,
     Reset!Rows, Reset!Unused
<1>2. CASE Reset!Retire(r)
  <2>1. Reset!TypeOK'
    BY <1>2 DEF Reset!Retire, Reset!Goto, Reset!TypeOK, Reset!Unused
  <2>2. ResetLocks'
    BY <1>1, <1>2 DEF Reset!Retire, Reset!Goto, Reset!TypeOK, ResetLocks, Requesting, Reset!Others
  <2>3. ResetWork'
    BY <1>1, <1>2 DEF Reset!Retire, Reset!Goto, Reset!TypeOK, ResetWork
  <2>4. QED BY <1>1, <1>2, <2>1, <2>2, <2>3 DEF Reset!Retire
<1>3. CASE Reset!InsertCode(r)
  <2>1. reset_next \in Reset!Codes /\ reset_next \in Nat /\ reset_next' = reset_next + 1
    BY <1>3, ResetAssumption DEF Reset!InsertCode, Reset!TypeOK, Reset!Codes
  <2>2. Reset!TypeOK'
    BY <1>3, <2>1, ResetAssumption
       DEF Reset!InsertCode, Reset!Goto, Reset!TypeOK, Reset!Codes
  <2>3. ResetLocks'
    BY <1>1, <1>3 DEF Reset!InsertCode, Reset!Goto, Reset!TypeOK, ResetLocks, Requesting,
       Reset!Others
  <2>4. ResetWork'
    BY <1>1, <1>3, <2>1 DEF Reset!InsertCode, Reset!Goto, Reset!TypeOK, ResetWork,
       Reset!Codes, Reset!Others
  <2>5. \A c \in Reset!Rows : c < reset_next'
    BY <2>1 DEF Reset!Rows, Reset!Codes
  <2>6. QED BY <1>1, <1>3, <2>2, <2>3, <2>4, <2>5 DEF Reset!InsertCode
<1>4. CASE Reset!MailSent(r)
  <2>1. Reset!TypeOK' /\ ResetLocks'
    BY <1>1, <1>4 DEF Reset!MailSent, Reset!Goto, Reset!TypeOK, ResetLocks, ResetWork, Requesting
  <2>2. ResetWork'
    BY <1>1, <1>4 DEF Reset!MailSent, Reset!Goto, Reset!TypeOK, ResetWork
  <2>3. QED BY <1>1, <1>4, <2>1, <2>2 DEF Reset!MailSent
<1>5. CASE Reset!MailFailed(r)
  <2>1. Reset!TypeOK' /\ ResetLocks'
    BY <1>1, <1>5 DEF Reset!MailFailed, Reset!Goto, Reset!TypeOK, ResetLocks, Requesting
  <2>2. ResetWork'
    BY <1>1, <1>5 DEF Reset!MailFailed, Reset!Goto, Reset!TypeOK, ResetWork
  <2>3. QED BY <1>1, <1>5, <2>1, <2>2 DEF Reset!MailFailed
<1>6. ASSUME NEW c \in Reset!Codes, Reset!ReadCode(r, c) PROVE ResetInv'
  <2>1. Reset!TypeOK' /\ ResetLocks'
    BY <1>1, <1>6 DEF Reset!ReadCode, Reset!Goto, Reset!TypeOK, ResetLocks, Requesting
  <2>2. ResetWork'
    BY <1>1, <1>6 DEF Reset!ReadCode, Reset!Goto, Reset!TypeOK, ResetWork, Reset!Unused,
       Reset!Rows
  <2>3. QED BY <1>1, <1>6, <2>1, <2>2 DEF Reset!ReadCode
<1>7. QED BY <1>2, <1>3, <1>4, <1>5, <1>6

(* What a commit leaves valid: the new code alone, or what was valid before. *)
LEMMA ResetCommit ==
  ASSUME ResetInv, NEW r \in ResetRequests, Reset!CommitRequest(r)
  PROVE  /\ reset_pc[r] = "sent" =>
               /\ Reset!Unused' = {reset_mine[r]}
               /\ Reset!Rows' = Reset!Rows \cup {reset_mine[r]}
         /\ reset_pc[r] = "failed" => reset_code' = reset_code
<1> USE DEF ResetInv, Reset!CommitRequest
<1>1. ASSUME reset_pc[r] = "sent"
      PROVE  /\ Reset!Unused' = {reset_mine[r]}
             /\ Reset!Rows' = Reset!Rows \cup {reset_mine[r]}
  <2>1. reset_mine[r] \in Reset!Codes /\ reset_retired[r] = Reset!Unused
    BY <1>1 DEF ResetWork
  <2>2. \A c \in Reset!Codes :
           reset_code'[c] = IF c = reset_mine[r] THEN "unused"
                            ELSE IF c \in Reset!Unused THEN "used" ELSE reset_code[c]
    BY <2>1
  <2>3. QED BY <2>1, <2>2 DEF Reset!Unused, Reset!Rows
<1>2. ASSUME reset_pc[r] = "failed" PROVE reset_code' = reset_code
  <2>1. reset_mine[r] = 0 /\ reset_retired[r] = {}
    BY <1>2 DEF ResetWork, Reset!NoCode
  <2>2. \A c \in Reset!Codes : reset_code'[c] = reset_code[c]
    BY <2>1, ResetAssumption DEF Reset!Codes
  <2>3. QED BY <2>2 DEF Reset!TypeOK
<1>3. QED BY <1>1, <1>2

LEMMA ResetEnds ==
  ASSUME ResetInv, NEW r \in ResetRequests,
         Reset!CommitRequest(r) \/ Reset!ResetPassword(r)
         \/ Reset!DeadlockVictim(r) \/ Reset!Abort(r)
  PROVE  ResetInv'
<1> USE DEF ResetInv, Reset!tables
<1>1. Reset!End(r)
  BY DEF Reset!CommitRequest, Reset!ResetPassword, Reset!DeadlockVictim, Reset!Abort
<1>2. CASE reset_code' = reset_code
  <2>1. UNCHANGED <<reset_expired, reset_delivered, reset_next>>
    BY DEF Reset!CommitRequest, Reset!ResetPassword, Reset!DeadlockVictim, Reset!Abort
  <2>2. Reset!TypeOK' /\ Reset!Rows' = Reset!Rows /\ Reset!Unused' = Reset!Unused
    BY <1>1, <1>2, <2>1, ResetEnd DEF Reset!TypeOK, Reset!Rows, Reset!Unused
  <2>3. ResetLocks' /\ ResetWork'
    BY <1>1, <2>1, <2>2, ResetEnd DEF ResetLocks, ResetWork, Requesting
  <2>4. QED BY <2>1, <2>2, <2>3
<1>3. CASE Reset!CommitRequest(r) /\ reset_pc[r] = "sent"
  <2> DEFINE c == reset_mine[r]
  <2>1. /\ Reset!Unused' = {c} /\ Reset!Rows' = Reset!Rows \cup {c}
        /\ c \in Reset!Codes /\ c < reset_next /\ c \in reset_delivered
    BY <1>3, ResetCommit DEF ResetWork
  <2>2. UNCHANGED <<reset_expired, reset_delivered, reset_next>>
    BY <1>3 DEF Reset!CommitRequest
  <2>3. reset_code' \in [Reset!Codes -> {"none", "unused", "used"}]
    BY <1>3 DEF Reset!CommitRequest, Reset!TypeOK
  <2>4. Reset!TypeOK'
    BY <1>1, <2>2, <2>3, ResetEnd DEF Reset!TypeOK
  \* nobody else is between its UPDATE and its commit
  <2>5. \A q \in ResetRequests \ {r} : reset_pc[q] \notin Requesting
    BY <1>3 DEF ResetLocks
  <2>6. ResetLocks' /\ ResetWork'
    BY <1>1, <2>1, <2>5, ResetEnd DEF ResetLocks, ResetWork, Requesting
  <2>7. QED BY <2>1, <2>2, <2>4, <2>6
<1>4. CASE Reset!ResetPassword(r)
  <2>1. reset_mine[r] \in Reset!Rows
    BY <1>4 DEF Reset!ResetPassword, ResetWork
  <2>2. Reset!Unused' \subseteq Reset!Unused /\ Reset!Rows' = Reset!Rows
    BY <1>4, <2>1 DEF Reset!ResetPassword, Reset!TypeOK, Reset!Unused, Reset!Rows
  <2>3. UNCHANGED <<reset_expired, reset_delivered, reset_next>>
    BY <1>4 DEF Reset!ResetPassword
  <2>4. reset_code' \in [Reset!Codes -> {"none", "unused", "used"}]
    BY <1>4 DEF Reset!ResetPassword, Reset!TypeOK
  <2>5. Reset!TypeOK'
    BY <1>1, <2>3, <2>4, ResetEnd DEF Reset!TypeOK
  <2>6. \A q \in ResetRequests \ {r} : reset_pc[q] \notin Requesting
    BY <1>4 DEF Reset!ResetPassword, Reset!Others, Requesting
  <2>7. ResetLocks' /\ ResetWork'
    BY <1>1, <2>2, <2>6, ResetEnd DEF ResetLocks, ResetWork, Requesting
  <2>8. QED BY <2>2, <2>3, <2>5, <2>7
<1>5. QED
  BY <1>2, <1>3, <1>4, ResetCommit
     DEF Reset!CommitRequest, Reset!DeadlockVictim, Reset!Abort

LEMMA ResetInductive == Reset!Spec => []ResetInv
<1>1. ResetInv /\ [Reset!Next]_(Reset!vars) => ResetInv'
  <2> SUFFICES ASSUME ResetInv, [Reset!Next]_(Reset!vars) PROVE ResetInv'
    OBVIOUS
  <2>1. CASE \E r \in ResetRequests : ResetStep(r)
    BY <2>1, ResetQuiet, ResetEnds DEF ResetStep
  <2>2. CASE \E c \in Reset!Codes : Reset!Expire(c)
    BY <2>2 DEF Reset!Expire, Reset!tables, ResetInv, Reset!TypeOK, ResetLocks, ResetWork,
       Reset!Rows, Reset!Unused
  <2>3. CASE UNCHANGED Reset!vars
    BY <2>3 DEF Reset!vars, Reset!tables, ResetInv, Reset!TypeOK, ResetLocks, ResetWork,
       Reset!Rows, Reset!Unused
  <2>4. QED BY <2>1, <2>2, <2>3 DEF Reset!Next, ResetStep
<1>2. QED BY <1>1, ResetInit, PTL DEF Reset!Spec

LEMMA SameCardinality == \A S : Reset!Cardinality(S) = Cardinality(S)
  BY DEF Cardinality, Reset!Cardinality

(* However many recoveries of one account run at the same time and whichever *)
(* mails fail, one code is valid, and the member has it.                     *)
THEOREM OneCodeIsValid == AccessSpec => []OneValidCode
<1>1. ASSUME ResetInv PROVE OneValidCode
  <2>1. Reset!Unused = {} \/ \E c : Reset!Unused = {c}
    BY <1>1 DEF ResetInv
  <2>2. Cardinality(Reset!Unused) = 0 \/ Cardinality(Reset!Unused) = 1
    BY <2>1, FS_EmptySet, FS_Singleton
  <2>3. QED BY <1>1, <2>2, SameCardinality DEF OneValidCode, Reset!OneValidCode, ResetInv
<1>2. QED BY <1>1, PartsSpec, ResetInductive, PTL

(* A code in the mailbox stays valid until it is used or a newer one is there. *)
THEOREM DeliveredCodesKept == AccessSpec => DeliveredKept
<1>1. ASSUME ResetInv, [Reset!Next]_(Reset!vars), NEW c \in Reset!Unused, reset_code'[c] # "unused"
      PROVE  \/ \E r \in ResetRequests : Reset!ResetPassword(r) /\ reset_mine[r] = c
             \/ \E d \in reset_delivered : d > c /\ reset_code'[d] = "unused"
  <2>1. c \in Reset!Codes /\ c \in Reset!Rows /\ reset_code'[c] # reset_code[c]
    BY <1>1 DEF Reset!Unused, Reset!Rows
  <2>2. ASSUME NEW r \in ResetRequests, Reset!ResetPassword(r) PROVE reset_mine[r] = c
    BY <1>1, <2>1, <2>2 DEF Reset!ResetPassword, ResetInv, Reset!TypeOK
  <2>3. ASSUME NEW r \in ResetRequests, Reset!CommitRequest(r)
        PROVE  \E d \in reset_delivered : d > c /\ reset_code'[d] = "unused"
    <3>1. reset_pc[r] = "sent"
      BY <1>1, <2>1, <2>3, ResetCommit DEF Reset!CommitRequest
    <3>2. /\ reset_mine[r] \in reset_delivered /\ c < reset_mine[r]
          /\ reset_mine[r] \in Reset!Codes
      BY <1>1, <2>1, <3>1 DEF ResetInv, ResetWork
    <3>3. reset_code'[reset_mine[r]] = "unused"
      BY <2>3, <3>2 DEF Reset!CommitRequest
    <3>4. reset_mine[r] > c
      BY <2>1, <3>2, ResetAssumption DEF Reset!Codes
    <3>5. QED BY <3>2, <3>3, <3>4
  <2>4. ASSUME NEW r \in ResetRequests, ResetStep(r),
               ~Reset!ResetPassword(r), ~Reset!CommitRequest(r)
        PROVE  reset_code' = reset_code
    BY <2>4 DEF ResetStep, Reset!Retire, Reset!InsertCode, Reset!DeadlockVictim,
       Reset!MailSent, Reset!MailFailed, Reset!ReadCode, Reset!Abort, Reset!tables
  <2>5. ASSUME UNCHANGED Reset!vars \/ (\E d \in Reset!Codes : Reset!Expire(d))
        PROVE  reset_code' = reset_code
    BY <2>5 DEF Reset!vars, Reset!tables, Reset!Expire
  <2>6. QED BY <1>1, <2>1, <2>2, <2>3, <2>4, <2>5 DEF Reset!Next, ResetStep
<1>2. ResetInv /\ [Reset!Next]_(Reset!vars) =>
        [\A c \in Reset!Unused :
            reset_code'[c] # "unused" =>
               \/ \E r \in ResetRequests : Reset!ResetPassword(r) /\ reset_mine[r] = c
               \/ \E d \in reset_delivered : d > c /\ reset_code'[d] = "unused"]_(Reset!vars)
  BY <1>1
<1>3. Reset!Spec => Reset!DeliveredKept
  BY <1>2, ResetInductive, PTL DEF Reset!Spec, Reset!DeliveredKept
<1>4. QED BY <1>3, PartsSpec, PTL DEF DeliveredKept

------------------------------------------------------------------------------
(* Administrators' codes *)

OtpLogins == [code : LoginCodes, last : LoginCodes \cup {Null}]

OtpType ==
    /\ drawn \in Nat
    /\ pending \in LoginCodes \cup {Null}
    /\ attempts \in [LoginCodes -> 0..OTP_MAX_ATTEMPTS]
    /\ mailing \in [Browsers -> OtpLogins \cup {Null}]
    /\ signed \subseteq LoginCodes

(* A code has one place: in one login whose mail is being sent, pending, or *)
(* among those that have signed somebody in.                                *)
OtpPlaces ==
    /\ pending \notin signed
    /\ \A b \in Browsers : mailing[b] # Null =>
          /\ mailing[b].code # pending /\ mailing[b].code \notin signed
          /\ \A d \in Browsers :
                mailing[d] # Null /\ mailing[d].code = mailing[b].code => d = b
    /\ \A c \in LoginCodes :
          c = pending \/ c \in signed \/ (\E b \in Browsers : mailing[b] # Null /\ mailing[b].code = c)
             => c <= drawn

OtpInv == OtpType /\ OtpPlaces

LEMMA OtpInit == Otp!OtpInit => OtpInv
  BY OtpAssumption DEF Otp!OtpInit, OtpInv, OtpType, OtpPlaces

OtpStep(b) ==
    \/ Otp!AwaitLast(b) \/ Otp!DrawCode(b) \/ Otp!StoreCode(b) \/ Otp!MailFails(b)
    \/ Otp!VerifyClosed(b) \/ Otp!VerifyWrong(b) \/ Otp!VerifyRight(b) \/ Otp!logout(b)

LEMMA OtpStepKeeps ==
  ASSUME OtpInv, NEW b \in Browsers, OtpStep(b)
  PROVE  OtpInv'
<1> USE OtpAssumption DEF OtpInv
<1>1. CASE Otp!AwaitLast(b)
  BY <1>1 DEF Otp!AwaitLast, OtpType, OtpPlaces
<1>2. CASE Otp!DrawCode(b)
  <2> DEFINE login == [code |-> drawn + 1, last |-> IF Otp!Alive(pending) THEN pending ELSE Null]
  <2>1. drawn + 1 \in LoginCodes /\ drawn \in Nat
    BY <1>2 DEF Otp!DrawCode, OtpType
  <2>2. login \in OtpLogins /\ login.code = drawn + 1 /\ drawn' = drawn + 1
        /\ UNCHANGED <<pending, attempts, signed>>
        /\ mailing' = [mailing EXCEPT ![b] = login]
    BY <1>2 DEF Otp!DrawCode, OtpType, OtpLogins
  <2> HIDE DEF login
  <2>3. OtpType'
    BY <2>2 DEF OtpType
  <2>4. \A c \in LoginCodes : c \in Nat
    OBVIOUS
  <2>5. drawn + 1 # pending /\ drawn + 1 \notin signed
    <3>1. ~(drawn + 1 <= drawn)
      BY <2>1
    <3>2. QED BY <2>1, <3>1 DEF OtpPlaces
  <2>6. ASSUME NEW d \in Browsers, mailing[d] # Null PROVE mailing[d].code # drawn + 1
    <3>1. ~(drawn + 1 <= drawn)
      BY <2>1
    <3>2. QED BY <2>1, <2>6, <3>1 DEF OtpPlaces
  <2>7. \A d \in Browsers : mailing'[d] = IF d = b THEN login ELSE mailing[d]
    BY <2>2 DEF OtpType
  <2>8. ASSUME NEW d \in Browsers, mailing'[d] # Null
        PROVE  /\ mailing'[d].code # pending' /\ mailing'[d].code \notin signed'
               /\ \A e \in Browsers :
                     mailing'[e] # Null /\ mailing'[e].code = mailing'[d].code => e = d
    BY <2>2, <2>5, <2>6, <2>7, <2>8 DEF OtpPlaces
  <2>9. ASSUME NEW c \in LoginCodes,
               c = pending' \/ c \in signed'
                 \/ (\E d \in Browsers : mailing'[d] # Null /\ mailing'[d].code = c)
        PROVE  c <= drawn'
    <3>1. c <= drawn \/ c = drawn + 1
      BY <2>2, <2>7, <2>9 DEF OtpPlaces
    <3>2. QED BY <2>2, <2>4, <3>1 DEF OtpType
  <2>10. OtpPlaces'
    BY <2>2, <2>8, <2>9 DEF OtpPlaces
  <2>11. QED BY <2>3, <2>10
<1>3. CASE Otp!StoreCode(b)
  <2>1. mailing[b] \in OtpLogins /\ mailing[b].code \in LoginCodes
        /\ mailing[b].last \in LoginCodes \cup {Null}
    BY <1>3 DEF Otp!StoreCode, OtpType, OtpLogins
  <2>2. OtpType'
    <3>1. (IF mailing[b].last # Null THEN attempts[mailing[b].last] ELSE 0)
             \in 0..OTP_MAX_ATTEMPTS
      <4>1. 0 \in 0..OTP_MAX_ATTEMPTS
        OBVIOUS
      <4>2. CASE mailing[b].last # Null
        BY <2>1, <4>2 DEF OtpType
      <4>3. QED BY <4>1, <4>2
    <3>2. QED BY <1>3, <2>1, <3>1 DEF Otp!StoreCode, OtpType
  <2>3. OtpPlaces'
    BY <1>3, <2>1 DEF Otp!StoreCode, OtpType, OtpPlaces
  <2>4. QED BY <2>2, <2>3
<1>4. CASE Otp!MailFails(b)
  BY <1>4 DEF Otp!MailFails, OtpType, OtpPlaces
<1>5. CASE Otp!VerifyClosed(b) \/ Otp!logout(b)
  BY <1>5 DEF Otp!VerifyClosed, Otp!logout, OtpType, OtpPlaces, OtpLogins
<1>6. CASE Otp!VerifyWrong(b) \/ Otp!VerifyRight(b)
  <2>1. pending \in LoginCodes /\ attempts[pending] < OTP_MAX_ATTEMPTS
    BY <1>6 DEF Otp!VerifyWrong, Otp!VerifyRight, Otp!Closed, Otp!Alive, OtpType
  <2>2. attempts' \in [LoginCodes -> 0..OTP_MAX_ATTEMPTS]
    BY <1>6, <2>1 DEF Otp!VerifyWrong, Otp!VerifyRight, OtpType
  <2>3. OtpType'
    BY <1>6, <2>1, <2>2 DEF Otp!VerifyWrong, Otp!VerifyRight, OtpType
  <2>4. CASE Otp!VerifyWrong(b)
    BY <2>3, <2>4 DEF Otp!VerifyWrong, OtpPlaces
  <2>5. CASE Otp!VerifyRight(b)
    <3>1. UNCHANGED <<mailing, drawn>> /\ pending' = Null /\ signed' = signed \cup {pending}
      BY <2>5 DEF Otp!VerifyRight
    <3>2. pending' \notin signed'
      BY <2>1, <3>1 DEF OtpType
    <3>3. ASSUME NEW d \in Browsers, mailing[d] # Null
          PROVE  mailing[d].code # pending' /\ mailing[d].code \notin signed'
      <4>1. mailing[d].code \in LoginCodes
        BY <3>3 DEF OtpType, OtpLogins
      <4>2. QED BY <3>1, <3>3, <4>1 DEF OtpPlaces
    <3>4. OtpPlaces'
      BY <2>1, <3>1, <3>2, <3>3 DEF OtpPlaces
    <3>5. QED BY <2>3, <3>4
  <2>6. QED BY <1>6, <2>3, <2>4, <2>5
<1>7. QED BY <1>1, <1>2, <1>3, <1>4, <1>5, <1>6 DEF OtpStep

LEMMA OtpInductive == Otp!OtpSpec => []OtpInv
<1>1. OtpInv /\ [Otp!OtpNext]_(Otp!otpVars) => OtpInv'
  <2> SUFFICES ASSUME OtpInv, [Otp!OtpNext]_(Otp!otpVars) PROVE OtpInv'
    OBVIOUS
  <2>1. CASE \E b \in Browsers : OtpStep(b)
    BY <2>1, OtpStepKeeps
  <2>2. CASE Otp!Minute
    BY <2>2 DEF Otp!Minute, OtpInv, OtpType, OtpPlaces
  <2>3. CASE UNCHANGED Otp!otpVars
    BY <2>3 DEF Otp!otpVars, OtpInv, OtpType, OtpPlaces
  <2>4. QED BY <2>1, <2>2, <2>3 DEF Otp!OtpNext, OtpStep
<1>2. QED BY <1>1, OtpInit, PTL DEF Otp!OtpSpec

(* A code signs one session in, only while it is the pending one, in time and *)
(* before its attempts are used up, and it never becomes pending again.       *)
THEOREM OneLogin == AccessSpec => OneLoginPerCode
<1>1. ASSUME OtpInv, NEW b \in Browsers, OtpStep(b)
      PROVE  /\ \A c \in signed' \ signed :
                  c = pending /\ age[c] < OTP_EXPIRES_IN /\ attempts[c] < OTP_MAX_ATTEMPTS
             /\ pending' # pending => pending' \notin signed'
             /\ \A c \in signed : attempts'[c] = attempts[c]
  <2> USE OtpAssumption DEF OtpInv
  <2>1. CASE Otp!AwaitLast(b) \/ Otp!DrawCode(b) \/ Otp!MailFails(b)
             \/ Otp!VerifyClosed(b) \/ Otp!logout(b)
    BY <1>1, <2>1 DEF Otp!AwaitLast, Otp!DrawCode, Otp!MailFails, Otp!VerifyClosed,
       Otp!logout, OtpType
  <2>2. CASE Otp!StoreCode(b)
    <3>1. mailing[b].code \notin signed
      BY <1>1, <2>2 DEF Otp!StoreCode, OtpPlaces
    <3>2. QED BY <1>1, <2>2, <3>1 DEF Otp!StoreCode, OtpType
  <2>3. CASE Otp!VerifyWrong(b) \/ Otp!VerifyRight(b)
    <3>1. /\ pending \in LoginCodes /\ pending \notin signed
          /\ age[pending] < OTP_EXPIRES_IN /\ attempts[pending] < OTP_MAX_ATTEMPTS
      BY <1>1, <2>3 DEF Otp!VerifyWrong, Otp!VerifyRight, Otp!Closed, Otp!Alive, OtpType, OtpPlaces
    <3>2. QED BY <1>1, <2>3, <3>1 DEF Otp!VerifyWrong, Otp!VerifyRight, OtpType
  <2>4. QED BY <1>1, <2>1, <2>2, <2>3 DEF OtpStep
<1>2. ASSUME OtpInv, OtpInv', [Otp!OtpNext]_(Otp!otpVars)
      PROVE  /\ \A c \in signed' \ signed :
                  c = pending /\ age[c] < OTP_EXPIRES_IN /\ attempts[c] < OTP_MAX_ATTEMPTS
             /\ pending' # pending => pending' \notin signed'
             /\ \A c \in LoginCodes : attempts'[c] <= OTP_MAX_ATTEMPTS
             /\ \A c \in signed : attempts'[c] = attempts[c]
  <2>1. \A c \in LoginCodes : attempts'[c] <= OTP_MAX_ATTEMPTS
    BY <1>2, OtpAssumption DEF OtpInv, OtpType
  <2>2. CASE Otp!Minute \/ UNCHANGED Otp!otpVars
    BY <2>1, <2>2 DEF Otp!Minute, Otp!otpVars
  <2>3. CASE \E b \in Browsers : OtpStep(b)
    BY <1>1, <1>2, <2>1, <2>3
  <2>4. QED BY <1>2, <2>2, <2>3 DEF Otp!OtpNext, OtpStep
<1>3. OtpInv /\ OtpInv' /\ [Otp!OtpNext]_(Otp!otpVars) =>
        [/\ \A c \in signed' \ signed :
               c = pending /\ age[c] < OTP_EXPIRES_IN /\ attempts[c] < OTP_MAX_ATTEMPTS
         /\ pending' # pending => pending' \notin signed'
         /\ \A c \in LoginCodes : attempts'[c] <= OTP_MAX_ATTEMPTS
         /\ \A c \in signed : attempts'[c] = attempts[c]]_(Otp!otpVars)
  BY <1>2
<1>4. Otp!OtpSpec => Otp!OneLoginPerCode
  BY <1>3, OtpInductive, PTL DEF Otp!OtpSpec, Otp!OneLoginPerCode
<1>5. QED BY <1>4, PartsSpec, PTL DEF OneLoginPerCode
------------------------------------------------------------------------------
(* The forecast *)

(* An entry of a cache is of the minutes before its end: the first provider's *)
(* slot is of the hour that follows, the other's of the quarter it was in.    *)
WeatherInv ==
    /\ now \in Int
    /\ \A k \in DOMAIN weather_cache :
          LET e == weather_cache[k] IN
             /\ e.until \in Int /\ e.slot \in Int
             /\ e.until - 30 <= now
             /\ e.until - 30 <= e.slot /\ e.slot <= e.until + 30
    /\ \A p \in DOMAIN fallback_cache :
          LET e == fallback_cache[p] IN
             /\ e.until \in Int /\ e.slot \in Int
             /\ e.until - 15 <= now
             /\ e.until - 30 <= e.slot /\ e.slot <= e.until - 15
    /\ answer # Null =>
          /\ answer.at \in Int /\ answer.slot \in Int
          /\ answer.at - 30 <= answer.slot /\ answer.slot <= answer.at + 60

LEMMA WeatherInit == Forecast!WeatherInit => WeatherInv
  BY WeatherAssumption DEF Forecast!WeatherInit, Forecast!Empty, WeatherInv

LEMMA Remainders ==
  ASSUME NEW t \in Int
  PROVE  t % 60 \in 0..59 /\ t % 15 \in 0..14
  OBVIOUS

LEMMA UpcomingBounds ==
  ASSUME now \in Int
  PROVE  Forecast!Upcoming \in Int /\ now <= Forecast!Upcoming /\ Forecast!Upcoming <= now + 60
  BY Remainders DEF Forecast!Upcoming, Forecast!Hour

LEMMA WeatherStepKeeps ==
  ASSUME WeatherInv, [Forecast!WeatherNext]_(Forecast!weatherVars)
  PROVE  WeatherInv'
<1>1. ASSUME NEW p \in Spots, Forecast!FallbackHit(p) PROVE WeatherInv'
  <2>1. p \in DOMAIN fallback_cache /\ fallback_cache[p].until > now
        /\ answer' = [place |-> p, at |-> now, slot |-> fallback_cache[p].slot, source |-> "open_meteo"]
    BY <1>1 DEF Forecast!FallbackHit, Forecast!Live, Forecast!Entry, Forecast!Say
  <2>2. UNCHANGED <<now, weather_cache, fallback_cache>>
    BY <1>1 DEF Forecast!FallbackHit
  <2>3. QED BY <2>1, <2>2 DEF WeatherInv
<1>2. ASSUME NEW p \in Spots, Forecast!CacheHit(p) PROVE WeatherInv'
  <2> DEFINE k == Forecast!Key(p)
  <2>1. k \in DOMAIN weather_cache /\ weather_cache[k].until > now
        /\ answer' = [place |-> p, at |-> now, slot |-> weather_cache[k].slot, source |-> "kma"]
    BY <1>2 DEF Forecast!CacheHit, Forecast!Live, Forecast!Entry, Forecast!Say
  <2>2. UNCHANGED <<now, weather_cache, fallback_cache>>
    BY <1>2 DEF Forecast!CacheHit
  <2> HIDE DEF k
  <2>3. QED BY <2>1, <2>2 DEF WeatherInv
<1>3. ASSUME NEW p \in Spots, Forecast!AskProvider(p) PROVE WeatherInv'
  <2> DEFINE k == Forecast!Key(p)
             e == [until |-> now + 30, slot |-> Forecast!Upcoming]
  <2>1. /\ weather_cache' = Forecast!Put(weather_cache, k, e)
        /\ answer' = [place |-> p, at |-> now, slot |-> Forecast!Upcoming, source |-> "kma"]
        /\ UNCHANGED <<now, fallback_cache>>
    BY <1>3 DEF Forecast!AskProvider, Forecast!Say
  <2> HIDE DEF k, e
  <2>2. /\ DOMAIN weather_cache' = DOMAIN weather_cache \cup {k}
        /\ \A i \in DOMAIN weather_cache \cup {k} :
              weather_cache'[i] = IF i = k THEN e ELSE weather_cache[i]
    BY <2>1 DEF Forecast!Put
  <2>3. QED BY <2>1, <2>2, UpcomingBounds DEF WeatherInv, e
<1>4. ASSUME NEW p \in Spots, Forecast!AskOther(p) PROVE WeatherInv'
  <2> DEFINE time == now - (now % 15)
             e == [until |-> now + 15, slot |-> time]
  <2>1. now \in Int /\ time \in Int /\ now - 14 <= time /\ time <= now
    BY Remainders DEF WeatherInv
  <2>2. PICK kept \in {Forecast!Empty, fallback_cache} :
           fallback_cache' = Forecast!Put(kept, p, e)
    BY <1>4 DEF Forecast!AskOther
  <2>3. /\ answer' = [place |-> p, at |-> now, slot |-> time, source |-> "open_meteo"]
        /\ UNCHANGED <<now, weather_cache>>
    BY <1>4 DEF Forecast!AskOther, Forecast!Say
  <2> HIDE DEF time, e
  <2>4. \A i \in DOMAIN kept : i \in DOMAIN fallback_cache /\ kept[i] = fallback_cache[i]
    BY <2>2 DEF Forecast!Empty
  <2>5. /\ DOMAIN fallback_cache' = DOMAIN kept \cup {p}
        /\ \A i \in DOMAIN kept \cup {p} :
              fallback_cache'[i] = IF i = p THEN e ELSE kept[i]
    BY <2>2 DEF Forecast!Put
  <2>6. QED BY <2>1, <2>3, <2>4, <2>5 DEF WeatherInv, e
<1>5. ASSUME NEW p \in Spots, Forecast!NoForecast(p) PROVE WeatherInv'
  BY <1>5 DEF Forecast!NoForecast, WeatherInv
<1>6. CASE Forecast!Elapse
  BY <1>6, WeatherAssumption DEF Forecast!Elapse, WeatherInv
<1>7. CASE UNCHANGED Forecast!weatherVars
  BY <1>7 DEF Forecast!weatherVars, WeatherInv
<1>8. QED
  BY <1>1, <1>2, <1>3, <1>4, <1>5, <1>6, <1>7 DEF Forecast!WeatherNext

LEMMA WeatherInductive == Forecast!WeatherSpec => []WeatherInv
  BY WeatherInit, WeatherStepKeeps, PTL DEF Forecast!WeatherSpec

(* A set of hours that is not empty has a last one. *)
LEMMA LastHour ==
  ASSUME NEW S \in SUBSET (0..23), S # {}
  PROVE  \E h \in S : \A i \in S : i <= h
<1> SUFFICES ASSUME \A h \in S : \E i \in S : ~(i <= h)
             PROVE  FALSE
  OBVIOUS
<1> DEFINE Above == {k \in Int : \A i \in S : i <= k}
<1>1. 23 \in Above
  OBVIOUS
<1>2. \A k \in Int : k \in Above => k - 1 \in Above
  OBVIOUS
<1>3. -1 \notin Above
  <2>1. PICK i \in S : TRUE
    OBVIOUS
  <2>2. QED BY <2>1
<1> HIDE DEF Above
<1>4. \A k \in Int : k \in Above => k - 2 \in Above
  BY <1>2
<1>5. \A k \in Int : k \in Above => k - 4 \in Above
  BY <1>4
<1>6. \A k \in Int : k \in Above => k - 8 \in Above
  BY <1>5
<1>7. QED BY <1>1, <1>3, <1>6

(* The minutes of a day, split into days, hours and the rest. *)
LEMMA DayAndHour ==
  ASSUME NEW t \in Int
  PROVE  /\ t \div 1440 \in Int /\ t % 1440 \in 0..1439
         /\ t % 1440 = t - 1440 * (t \div 1440)
         /\ (t % 1440) \div 60 \in 0..23
         /\ 60 * ((t % 1440) \div 60) <= t % 1440
         /\ t % 1440 < 60 * ((t % 1440) \div 60) + 60
<1>1. ASSUME NEW m \in 0..1439
      PROVE  m \div 60 \in 0..23 /\ 60 * (m \div 60) <= m /\ m < 60 * (m \div 60) + 60
  OBVIOUS
<1>2. t \div 1440 \in Int /\ t % 1440 \in 0..1439
  OBVIOUS
<1>3. t % 1440 = t - 1440 * (t \div 1440)
  OBVIOUS
<1>4. QED BY <1>1, <1>2, <1>3

(* base_datetime is the last of the base times that have been out for ten *)
(* minutes, of any day.                                                   *)
LEMMA BaseIsTheLast ==
  ASSUME NEW t \in Int
  PROVE  /\ Forecast!base_datetime(t) \in Int
         /\ Forecast!base_datetime(t) + 10 <= t
         /\ \A h \in BaseHours, d \in Int :
               d * 1440 + h * 60 + 10 <= t => d * 1440 + h * 60 <= Forecast!base_datetime(t)
<1> DEFINE a == t - 10
           q == a \div 1440
           m == a % 1440
           last == m \div 60
           hours == {h \in BaseHours : h <= last}
           base == Forecast!base_datetime(t)
<1>1. /\ a \in Int /\ q \in Int /\ m \in 0..1439 /\ m = a - 1440 * q
      /\ last \in 0..23 /\ 60 * last <= m /\ m < 60 * last + 60
  BY DayAndHour
<1>2. base = IF hours # {} THEN q * 1440 + 60 * (CHOOSE h \in hours : \A i \in hours : i <= h)
             ELSE (q - 1) * 1440 + 23 * 60
  BY DEF Forecast!base_datetime, Forecast!Day, Forecast!Hour
<1>3. BaseHours \subseteq 0..23
  BY WeatherAssumption
<1> HIDE DEF q, m, last, base
<1>4. CASE hours = {}
  <2>1. base \in Int /\ base = (q - 1) * 1440 + 1380
    BY <1>1, <1>2, <1>4
  <2>2. ASSUME NEW h \in BaseHours, NEW d \in Int, d * 1440 + h * 60 + 10 <= t
        PROVE  d * 1440 + h * 60 <= base
    <3>1. h \in 0..23 /\ h > last
      BY <1>1, <1>3, <1>4
    <3>2. d <= q - 1
      BY <1>1, <2>2, <3>1
    <3>3. QED BY <1>1, <2>1, <3>1, <3>2
  <2>3. QED BY <1>1, <2>1, <2>2 DEF base
<1>5. CASE hours # {}
  <2> DEFINE top == CHOOSE h \in hours : \A i \in hours : i <= h
  <2>1. top \in hours /\ \A i \in hours : i <= top
    <3>1. hours \in SUBSET (0..23)
      BY <1>3
    <3>2. \E h \in hours : \A i \in hours : i <= h
      BY <1>5, <3>1, LastHour
    <3>3. QED BY <3>2
  <2>2. base = q * 1440 + 60 * top
    BY <1>2, <1>5
  <2> HIDE DEF top
  <2>3. top \in 0..23 /\ top <= last
    BY <1>3, <2>1
  <2>4. base \in Int /\ base + 10 <= t
    BY <1>1, <2>2, <2>3
  <2>5. ASSUME NEW h \in BaseHours, NEW d \in Int, d * 1440 + h * 60 + 10 <= t
        PROVE  d * 1440 + h * 60 <= base
    <3>1. h \in 0..23
      BY <1>3
    <3>2. d <= q
      BY <1>1, <2>5, <3>1
    <3>3. CASE d = q
      <4>1. h <= last
        BY <1>1, <2>5, <3>1, <3>3
      <4>2. h <= top
        BY <2>1, <4>1
      <4>3. QED BY <1>1, <2>2, <2>3, <3>1, <3>3, <4>2
    <3>4. CASE d < q
      BY <1>1, <2>2, <2>3, <3>1, <3>4
    <3>5. QED BY <1>1, <3>2, <3>3, <3>4
  <2>6. QED BY <2>4, <2>5 DEF base
<1>6. QED BY <1>4, <1>5

(* Whatever the caches hold, whichever provider fails and whatever the time *)
(* it begins, a forecast that is given is current, and the one asked for is *)
(* the last that is out.                                                    *)
THEOREM ForecastStaysCurrent == AccessSpec => []ForecastIsCurrent
<1>1. ASSUME WeatherInv PROVE ForecastIsCurrent
  <2>1. now \in Int /\ now \div 1440 \in Int
    BY <1>1, DayAndHour DEF WeatherInv
  <2>2. answer # Null => answer.at - 30 <= answer.slot /\ answer.slot <= answer.at + 60
    BY <1>1 DEF WeatherInv
  <2>3. /\ Forecast!base_datetime(now) + 10 <= now
        /\ \A h \in BaseHours, d \in -1..1 :
              (now \div 1440 + d) * 1440 + h * 60 + 10 <= now
                 => (now \div 1440 + d) * 1440 + h * 60 <= Forecast!base_datetime(now)
    <3>1. Forecast!base_datetime(now) + 10 <= now
      BY <2>1, BaseIsTheLast
    <3>2. ASSUME NEW h \in BaseHours, NEW d \in -1..1,
                 (now \div 1440 + d) * 1440 + h * 60 + 10 <= now
          PROVE  (now \div 1440 + d) * 1440 + h * 60 <= Forecast!base_datetime(now)
      <4> DEFINE day == now \div 1440 + d
      <4>1. day \in Int
        BY <2>1
      <4> HIDE DEF day
      <4>2. day * 1440 + h * 60 + 10 <= now
        BY <3>2 DEF day
      <4>3. day * 1440 + h * 60 <= Forecast!base_datetime(now)
        BY <2>1, <4>1, <4>2, BaseIsTheLast
      <4>4. QED BY <4>3 DEF day
    <3>3. QED BY <3>1, <3>2
  <2>4. Forecast!Day = 1440 /\ Forecast!Hour = 60
    BY DEF Forecast!Day, Forecast!Hour
  <2>5. QED BY <2>2, <2>3, <2>4 DEF ForecastIsCurrent, Forecast!ForecastIsCurrent
<1>2. QED BY <1>1, PartsSpec, WeatherInductive, PTL
------------------------------------------------------------------------------
(* The request limit *)

Entry == [key : Keys, count : 1..limit, left : 0..window]

(* The table holds one entry of a client, and whoever stands behind another has *)
(* called since the other did.                                                  *)
TableInv ==
    /\ buckets \in Seq(Entry) /\ Len(buckets) <= capacity
    /\ \A i, j \in DOMAIN buckets : buckets[i].key = buckets[j].key => i = j
    /\ \A i, j \in DOMAIN buckets : i < j => buckets[j].key \in later[buckets[i].key]

Calls(s) ==
    /\ s \in Seq(0..(window - 1))
    /\ \A i, j \in DOMAIN s : i < j => s[i] >= s[j]

(* The calls an entry counts are the last ones, its first began the window, and *)
(* what is left of the window before it is less than a limit.                   *)
Within(b, s) ==
    IF b.left = 0 THEN Len(s) < limit
    ELSE /\ b.count <= Len(s) /\ Len(s) - b.count < limit
         /\ s[Len(s) - b.count + 1] = window - b.left

AgesInv ==
    /\ ages = [k \in Keys |-> ages[k]] /\ \A k \in Keys : Calls(ages[k])
    /\ \A i \in DOMAIN buckets : Within(buckets[i], ages[buckets[i].key])
    /\ \A k \in Keys : Entered(k) = {} => ages[k] = <<>>

LaterInv == later \in [Keys -> SUBSET Keys] /\ \A k \in Keys : IsFiniteSet(later[k])

LimiterInv == TableInv /\ AgesInv /\ LaterInv

LEMMA LimiterInitially == LimiterInit => LimiterInv
<1> SUFFICES ASSUME LimiterInit PROVE LimiterInv
  OBVIOUS
<1>1. buckets = <<>> /\ ages = [k \in Keys |-> <<>>] /\ later = [k \in Keys |-> {}]
  BY DEF LimiterInit
<1>2. TableInv
  BY <1>1, LimiterAssumption DEF TableInv
<1>3. AgesInv
  BY <1>1 DEF AgesInv, Calls
<1>4. LaterInv
  BY <1>1, FS_EmptySet DEF LaterInv
<1>5. QED BY <1>2, <1>3, <1>4 DEF LimiterInv

(* A sequence without one of its elements. *)
LEMMA WithoutOne ==
  ASSUME NEW S, NEW s \in Seq(S), NEW at \in 1..Len(s)
  PROVE  /\ RemoveAt(s, at) \in Seq(S) /\ Len(RemoveAt(s, at)) = Len(s) - 1
         /\ \A i \in 1..(Len(s) - 1) :
               RemoveAt(s, at)[i] = IF i < at THEN s[i] ELSE s[i + 1]
<1> DEFINE front == SubSeq(s, 1, at - 1)
           back == SubSeq(s, at + 1, Len(s))
<1>1. Len(s) \in Nat /\ at \in Nat /\ \A i \in 1..Len(s) : s[i] \in S
  OBVIOUS
<1>2. front \in Seq(S) /\ Len(front) = at - 1 /\ \A i \in 1..(at - 1) : front[i] = s[i]
  <2>1. 1 \in Int /\ at - 1 \in Int /\ \A i \in 1..(at - 1) : s[i] \in S
    BY <1>1
  <2> HIDE DEF front
  <2>2. /\ front \in Seq(S)
        /\ Len(front) = IF 1 <= at - 1 THEN at - 1 - 1 + 1 ELSE 0
        /\ \A i \in 1..(at - 1 - 1 + 1) : front[i] = s[1 + i - 1]
    BY <2>1, SubSeqProperties DEF front
  <2>3. QED BY <1>1, <2>2
<1>3. /\ back \in Seq(S) /\ Len(back) = Len(s) - at
      /\ \A i \in 1..(Len(s) - at) : back[i] = s[at + i]
  <2>1. at + 1 \in Int /\ Len(s) \in Int /\ \A i \in (at + 1)..Len(s) : s[i] \in S
    BY <1>1
  <2> HIDE DEF back
  <2>2. /\ back \in Seq(S)
        /\ Len(back) = IF at + 1 <= Len(s) THEN Len(s) - (at + 1) + 1 ELSE 0
        /\ \A i \in 1..(Len(s) - (at + 1) + 1) : back[i] = s[at + 1 + i - 1]
    BY <2>1, SubSeqProperties DEF back
  <2>3. QED BY <1>1, <2>2
<1>4. RemoveAt(s, at) = front \o back
  BY DEF RemoveAt
<1> HIDE DEF front, back
<1>5. /\ front \o back \in Seq(S) /\ Len(front \o back) = Len(front) + Len(back)
      /\ \A i \in 1..(Len(front) + Len(back)) :
            (front \o back)[i] = IF i <= Len(front) THEN front[i] ELSE back[i - Len(front)]
  BY <1>2, <1>3, ConcatProperties
<1>6. ASSUME NEW i \in 1..(Len(s) - 1)
      PROVE  RemoveAt(s, at)[i] = IF i < at THEN s[i] ELSE s[i + 1]
  <2>1. CASE i < at
    BY <1>1, <1>2, <1>3, <1>4, <1>5, <2>1
  <2>2. CASE ~(i < at)
    <3>1. (front \o back)[i] = back[i - (at - 1)]
      BY <1>1, <1>2, <1>3, <1>5, <2>2
    <3>2. i - (at - 1) \in 1..(Len(s) - at) /\ at + (i - (at - 1)) = i + 1
      BY <1>1, <2>2
    <3>3. QED BY <1>3, <1>4, <2>2, <3>1, <3>2
  <2>3. QED BY <2>1, <2>2
<1>7. QED BY <1>1, <1>2, <1>3, <1>4, <1>5, <1>6

(* The table without the entry of a client keeps the others in their order. *)
LEMMA RemovedIs ==
  ASSUME TableInv, NEW k \in Keys
  PROVE  /\ Removed(k) \in Seq(Entry)
         /\ Entered(k) = {} => Removed(k) = buckets
         /\ Entered(k) # {} => Len(Removed(k)) = Len(buckets) - 1
         /\ \A i \in DOMAIN Removed(k) : Removed(k)[i].key # k
         /\ \A i \in DOMAIN Removed(k) : \E m \in DOMAIN buckets : Removed(k)[i] = buckets[m]
         /\ \A i, j \in DOMAIN Removed(k) : i < j =>
               \E m, n \in DOMAIN buckets :
                  m < n /\ Removed(k)[i] = buckets[m] /\ Removed(k)[j] = buckets[n]
         /\ \A m \in DOMAIN buckets : buckets[m].key # k =>
               \E i \in DOMAIN Removed(k) : Removed(k)[i] = buckets[m]
<1>1. CASE Entered(k) = {}
  BY <1>1 DEF Removed, Entered, TableInv
<1>2. CASE Entered(k) # {}
  <2> DEFINE at == CHOOSE i \in Entered(k) : TRUE
             rest == Removed(k)
  <2>1. at \in DOMAIN buckets /\ buckets[at].key = k
    BY <1>2 DEF Entered
  <2>2. rest = SubSeq(buckets, 1, at - 1) \o SubSeq(buckets, at + 1, Len(buckets))
    BY <1>2 DEF Removed, RemoveAt
  <2> HIDE DEF at, rest
  <2>3. buckets \in Seq(Entry) /\ at \in 1..Len(buckets)
    BY <2>1 DEF TableInv
  <2>4. rest \in Seq(Entry) /\ Len(rest) = Len(buckets) - 1
    BY <2>2, <2>3, WithoutOne DEF RemoveAt
  <2>5. \A i \in 1..Len(rest) : rest[i] = IF i < at THEN buckets[i] ELSE buckets[i + 1]
    BY <2>2, <2>3, <2>4, WithoutOne DEF RemoveAt
  <2>6. \A m \in DOMAIN buckets : buckets[m].key = k => m = at
    BY <2>1 DEF TableInv
  <2>7. DOMAIN rest = 1..Len(rest) /\ DOMAIN buckets = 1..Len(buckets) /\ Len(buckets) \in Nat
    BY <2>3, <2>4
  <2>8. ASSUME NEW i \in DOMAIN rest
        PROVE  \E m \in DOMAIN buckets : rest[i] = buckets[m] /\ m # at
    <3>1. CASE i < at
      <4>1. i \in DOMAIN buckets /\ rest[i] = buckets[i] /\ i # at
        BY <2>3, <2>4, <2>5, <2>7, <2>8, <3>1
      <4>2. QED BY <4>1
    <3>2. CASE ~(i < at)
      <4>1. i + 1 \in DOMAIN buckets /\ i + 1 # at
        BY <2>3, <2>4, <2>7, <2>8, <3>2
      <4>2. rest[i] = buckets[i + 1]
        BY <2>5, <2>7, <3>2
      <4>3. QED BY <4>1, <4>2
    <3>3. QED BY <3>1, <3>2
  <2>9. \A i \in DOMAIN rest : rest[i].key # k
    BY <2>6, <2>8
  <2>10. ASSUME NEW i \in DOMAIN rest, NEW j \in DOMAIN rest, i < j
         PROVE  \E m, n \in DOMAIN buckets : m < n /\ rest[i] = buckets[m] /\ rest[j] = buckets[n]
    <3>1. CASE j < at
      BY <2>3, <2>4, <2>5, <2>7, <2>10, <3>1
    <3>2. CASE i < at /\ ~(j < at)
      <4>1. i \in DOMAIN buckets /\ j + 1 \in DOMAIN buckets /\ i < j + 1
        BY <2>3, <2>4, <2>7, <2>10
      <4>2. rest[i] = buckets[i] /\ rest[j] = buckets[j + 1]
        BY <2>5, <2>7, <3>2
      <4>3. QED BY <4>1, <4>2
    <3>3. CASE ~(i < at) /\ ~(j < at)
      <4>1. i + 1 \in DOMAIN buckets /\ j + 1 \in DOMAIN buckets /\ i + 1 < j + 1
        BY <2>3, <2>4, <2>7, <2>10
      <4>2. rest[i] = buckets[i + 1] /\ rest[j] = buckets[j + 1]
        BY <2>5, <2>7, <3>3
      <4>3. QED BY <4>1, <4>2
    <3>4. QED BY <2>3, <2>4, <2>7, <2>10, <3>1, <3>2, <3>3
  <2>11. ASSUME NEW m \in DOMAIN buckets, buckets[m].key # k
         PROVE  \E i \in DOMAIN rest : rest[i] = buckets[m]
    <3>1. m # at
      BY <2>1, <2>11
    <3>2. CASE m < at
      BY <2>3, <2>4, <2>5, <2>7, <3>2
    <3>3. CASE at < m
      <4>1. m - 1 \in DOMAIN rest /\ ~(m - 1 < at)
        BY <2>3, <2>4, <2>7, <3>3
      <4>2. rest[m - 1] = buckets[m - 1 + 1] /\ m - 1 + 1 = m
        BY <2>3, <2>5, <2>7, <4>1
      <4>3. QED BY <4>1, <4>2
    <3>4. QED BY <2>3, <2>7, <3>1, <3>2, <3>3
  <2>12. \A i \in DOMAIN rest : \E m \in DOMAIN buckets : rest[i] = buckets[m]
    BY <2>8
  <2>13. QED BY <1>2, <2>4, <2>9, <2>10, <2>11, <2>12 DEF rest
<1>3. QED BY <1>1, <1>2

(* A client's entry at the end of a table without it. *)
LEMMA AppendedIs ==
  ASSUME NEW t \in Seq(Entry), NEW b \in Entry, NEW table, table = Append(t, b)
  PROVE  /\ table \in Seq(Entry) /\ Len(table) = Len(t) + 1
         /\ \A i \in DOMAIN t : i \in DOMAIN table /\ table[i] = t[i] /\ i < Len(table)
         /\ Len(table) \in DOMAIN table /\ table[Len(table)] = b
         /\ \A i \in DOMAIN table : i \in DOMAIN t \/ i = Len(table)
  OBVIOUS

(* A part of the table, in its order and without a client. *)
PartWithout(t, k) ==
    /\ t \in Seq(Entry)
    /\ \A i \in DOMAIN t : t[i].key # k
    /\ \A i \in DOMAIN t : \E m \in DOMAIN buckets : t[i] = buckets[m]
    /\ \A i, j \in DOMAIN t : i < j =>
          \E m, n \in DOMAIN buckets : m < n /\ t[i] = buckets[m] /\ t[j] = buckets[n]

LEMMA RemovedIsPart ==
  ASSUME TableInv, NEW k \in Keys
  PROVE  /\ PartWithout(Removed(k), k)
         /\ Entered(k) # {} => Len(Removed(k)) < capacity
         /\ Len(Removed(k)) <= capacity
<1>1. PartWithout(Removed(k), k)
  BY RemovedIs DEF PartWithout
<1>2. Len(buckets) \in Nat /\ Len(buckets) <= capacity /\ capacity \in Nat
  BY LimiterAssumption DEF TableInv
<1>3. Entered(k) # {} => Len(Removed(k)) = Len(buckets) - 1
  BY RemovedIs
<1>4. Entered(k) = {} => Removed(k) = buckets
  BY RemovedIs
<1>5. QED BY <1>1, <1>2, <1>3, <1>4

LEMMA RoomIs ==
  ASSUME TableInv, NEW k \in Keys
  PROVE  /\ PartWithout(Room(Removed(k)), k) /\ Len(Room(Removed(k))) < capacity
         /\ Room(Removed(k)) # Removed(k) =>
               /\ Len(Removed(k)) = capacity
               /\ \A j \in DOMAIN Removed(k) : j > 1 =>
                     \E i \in DOMAIN Room(Removed(k)) : Room(Removed(k))[i] = Removed(k)[j]
<1> DEFINE r == Removed(k)
<1>1. PartWithout(r, k) /\ Len(r) <= capacity /\ r \in Seq(Entry) /\ Len(r) \in Nat
  BY RemovedIsPart DEF PartWithout
<1>2. capacity \in Nat \ {0}
  BY LimiterAssumption
<1> HIDE DEF r
<1>3. CASE ~(Len(r) >= capacity)
  BY <1>1, <1>2, <1>3 DEF Room, r
<1>4. CASE Len(r) >= capacity
  <2> DEFINE t == Tail(r)
  <2>1. Room(r) = t
    BY <1>4 DEF Room
  <2>2. Len(r) = capacity /\ r # <<>>
    BY <1>1, <1>2, <1>4
  <2>3. t \in Seq(Entry) /\ Len(t) = Len(r) - 1 /\ \A i \in 1..Len(t) : t[i] = r[i + 1]
    BY <1>1, <2>2, HeadTailProperties
  <2> HIDE DEF t
  <2>4. DOMAIN t = 1..(Len(r) - 1) /\ DOMAIN r = 1..Len(r)
    BY <1>1, <2>3
  <2>5. \A i \in DOMAIN t : i + 1 \in DOMAIN r /\ t[i] = r[i + 1]
    BY <1>1, <2>3, <2>4
  <2>6. \A i \in DOMAIN t : t[i].key # k /\ \E m \in DOMAIN buckets : t[i] = buckets[m]
    BY <1>1, <2>5 DEF PartWithout
  <2>7. ASSUME NEW i \in DOMAIN t, NEW j \in DOMAIN t, i < j
        PROVE  \E m, n \in DOMAIN buckets : m < n /\ t[i] = buckets[m] /\ t[j] = buckets[n]
    <3>1. i + 1 \in DOMAIN r /\ j + 1 \in DOMAIN r /\ i + 1 < j + 1
      BY <1>1, <2>4, <2>7
    <3>2. \E m, n \in DOMAIN buckets : m < n /\ r[i + 1] = buckets[m] /\ r[j + 1] = buckets[n]
      BY <1>1, <3>1 DEF PartWithout
    <3>3. QED BY <2>5, <2>7, <3>2
  <2>8. ASSUME NEW j \in DOMAIN r, j > 1 PROVE \E i \in DOMAIN t : t[i] = r[j]
    <3>1. j - 1 \in DOMAIN t /\ j - 1 + 1 = j
      BY <1>1, <2>4, <2>8
    <3>2. QED BY <2>5, <3>1
  <2>9. PartWithout(t, k)
    BY <2>3, <2>6, <2>7 DEF PartWithout
  <2>10. Len(t) < capacity
    BY <1>1, <1>2, <2>2, <2>3
  <2>11. QED BY <2>1, <2>2, <2>8, <2>9, <2>10 DEF r
<1>5. QED BY <1>1, <1>2, <1>3, <1>4

(* A call puts its client's entry behind the others, who now have its call later *)
(* than their own.                                                               *)
LEMMA MovedTable ==
  ASSUME LimiterInv, NEW k \in Keys, NEW t, PartWithout(t, k), Len(t) < capacity,
         NEW b \in Entry, b.key = k, buckets' = Append(t, b),
         later' = [i \in Keys |-> IF i = k THEN {} ELSE later[i] \cup {k}]
  PROVE  TableInv' /\ LaterInv'
<1>1. t \in Seq(Entry) /\ Len(t) \in Nat /\ DOMAIN t = 1..Len(t) /\ capacity \in Nat
  BY LimiterAssumption DEF PartWithout
<1>2. /\ buckets' \in Seq(Entry) /\ Len(buckets') = Len(t) + 1
      /\ \A i \in DOMAIN t : i \in DOMAIN buckets' /\ buckets'[i] = t[i]
      /\ Len(buckets') \in DOMAIN buckets' /\ buckets'[Len(buckets')] = b
      /\ \A i \in DOMAIN buckets' : i \in DOMAIN t \/ i = Len(buckets')
  BY <1>1, AppendedIs
<1>3. \A i \in DOMAIN t : t[i].key # k /\ t[i].key \in Keys
  <2>1. \A i \in DOMAIN t : t[i] \in Entry
    BY <1>1
  <2>2. \A e \in Entry : e.key \in Keys
    BY DEF Entry
  <2>3. QED BY <2>1, <2>2 DEF PartWithout
<1>4. \A i, j \in DOMAIN t : i < j =>
         \E m, n \in DOMAIN buckets : m < n /\ t[i] = buckets[m] /\ t[j] = buckets[n]
  BY DEF PartWithout
<1>5. \A i, j \in DOMAIN t : i < j =>
         t[i].key # t[j].key /\ t[j].key \in later[t[i].key]
  <2> SUFFICES ASSUME NEW i \in DOMAIN t, NEW j \in DOMAIN t, i < j
               PROVE  t[i].key # t[j].key /\ t[j].key \in later[t[i].key]
    OBVIOUS
  <2>1. PICK m \in DOMAIN buckets, n \in DOMAIN buckets :
           m < n /\ t[i] = buckets[m] /\ t[j] = buckets[n]
    BY <1>4
  <2>2. DOMAIN buckets = 1..Len(buckets) /\ m # n
    BY <2>1 DEF LimiterInv, TableInv
  <2>3. QED BY <2>1, <2>2 DEF LimiterInv, TableInv
<1>6. \A i, j \in DOMAIN buckets' : buckets'[i].key = buckets'[j].key => i = j
  <2> SUFFICES ASSUME NEW i \in DOMAIN buckets', NEW j \in DOMAIN buckets', i < j
               PROVE  buckets'[i].key # buckets'[j].key
    BY <1>1, <1>2
  <2>1. i \in DOMAIN t
    BY <1>1, <1>2
  <2>2. CASE j \in DOMAIN t
    BY <1>2, <1>5, <2>1, <2>2
  <2>3. CASE j = Len(buckets')
    BY <1>2, <1>3, <2>1, <2>3
  <2>4. QED BY <1>2, <2>2, <2>3
<1>7. ASSUME NEW i \in DOMAIN buckets', NEW j \in DOMAIN buckets', i < j
      PROVE  buckets'[j].key \in later'[buckets'[i].key]
  <2>1. i \in DOMAIN t
    BY <1>1, <1>2, <1>7
  <2>2. later'[buckets'[i].key] = later[t[i].key] \cup {k}
    BY <1>2, <1>3, <2>1
  <2>3. CASE j \in DOMAIN t
    BY <1>2, <1>5, <1>7, <2>1, <2>2, <2>3
  <2>4. CASE j = Len(buckets')
    BY <1>2, <2>2, <2>4
  <2>5. QED BY <1>2, <2>3, <2>4
<1>8. TableInv'
  <2>1. Len(buckets') <= capacity
    BY <1>1, <1>2
  <2>2. QED BY <1>2, <1>6, <1>7, <2>1 DEF TableInv
<1>9. LaterInv'
  <2>1. \A i \in Keys : later[i] \in SUBSET Keys /\ IsFiniteSet(later[i])
    BY DEF LimiterInv, LaterInv
  <2>2. later' \in [Keys -> SUBSET Keys]
    BY <2>1
  <2>3. \A i \in Keys : IsFiniteSet(later'[i])
    BY <2>1, FS_AddElement, FS_EmptySet
  <2>4. QED BY <2>2, <2>3 DEF LaterInv
<1>10. QED BY <1>8, <1>9

(* Whoever has an entry that stands is in the table. *)
LEMMA CurrentIs ==
  ASSUME TableInv, NEW k \in Keys
  PROVE  /\ \A b \in Current(k) :
               /\ b \in Entry /\ b.key = k /\ b.left > 0
               /\ \E m \in DOMAIN buckets : buckets[m] = b
         /\ \A m \in DOMAIN buckets : buckets[m].key = k /\ buckets[m].left > 0
               => buckets[m] \in Current(k)
         /\ Current(k) # {} => Entered(k) # {}
  BY DEF Current, Entered, ToSet, TableInv

(* A refused call leaves the windows as they are. *)
LEMMA RefuseKeeps ==
  ASSUME LimiterInv, NEW k \in Keys, Refuse(k),
         later' = [i \in Keys |-> IF i = k THEN {} ELSE later[i] \cup {k}]
  PROVE  LimiterInv'
<1> DEFINE b == Refused(k)
           t == Removed(k)
<1>1. TableInv /\ AgesInv
  BY DEF LimiterInv
<1>2. Current(k) # {} /\ b \in Current(k)
  BY DEF Refuse, Refused
<1>3. buckets' = Append(t, b) /\ ages' = ages
  BY DEF Refuse
<1> HIDE DEF b, t
<1>4. b \in Entry /\ b.key = k /\ \E m \in DOMAIN buckets : buckets[m] = b
  BY <1>1, <1>2, CurrentIs
<1>5. PartWithout(t, k) /\ Len(t) < capacity
  BY <1>1, <1>2, CurrentIs, RemovedIsPart DEF t
<1>6. TableInv' /\ LaterInv'
  BY <1>3, <1>4, <1>5, MovedTable
<1>7. t \in Seq(Entry)
  BY <1>5 DEF PartWithout
<1>8. /\ \A i \in DOMAIN t : i \in DOMAIN buckets' /\ buckets'[i] = t[i]
      /\ Len(buckets') \in DOMAIN buckets' /\ buckets'[Len(buckets')] = b
      /\ \A i \in DOMAIN buckets' : i \in DOMAIN t \/ i = Len(buckets')
  BY <1>3, <1>4, <1>7, AppendedIs
<1>9. \A i \in DOMAIN buckets' : \E m \in DOMAIN buckets : buckets'[i] = buckets[m]
  BY <1>4, <1>5, <1>8 DEF PartWithout
<1>10. \A i \in DOMAIN buckets' : Within(buckets'[i], ages[buckets'[i].key])
  <2>1. \A i \in DOMAIN buckets : Within(buckets[i], ages[buckets[i].key])
    BY <1>1 DEF AgesInv
  <2>2. QED BY <1>9, <2>1
<1>11. ASSUME NEW q \in Keys, Entered(q)' = {} PROVE ages[q] = <<>>
  <2>1. q # k
    BY <1>4, <1>8, <1>11 DEF Entered
  <2>2. Entered(q) = {}
    <3>1. ASSUME NEW m \in DOMAIN buckets, buckets[m].key = q PROVE FALSE
      <4>1. PICK i \in DOMAIN t : t[i] = buckets[m]
        BY <1>1, <2>1, <3>1, RemovedIs DEF t
      <4>2. i \in DOMAIN buckets' /\ buckets'[i].key = q
        BY <1>8, <3>1, <4>1
      <4>3. QED BY <1>11, <4>2 DEF Entered
    <3>2. QED BY <3>1 DEF Entered
  <2>3. QED BY <1>1, <2>2 DEF AgesInv
<1>12. AgesInv'
  BY <1>1, <1>3, <1>10, <1>11 DEF AgesInv, Entered
<1>13. QED BY <1>6, <1>12 DEF LimiterInv

(* The calls of a window, with one more. *)
LEMMA CallsAppend ==
  ASSUME NEW s, Calls(s)
  PROVE  /\ Calls(Append(s, 0)) /\ Len(Append(s, 0)) = Len(s) + 1 /\ Len(s) \in Nat
         /\ \A i \in 1..Len(s) : Append(s, 0)[i] = s[i]
         /\ Append(s, 0)[Len(s) + 1] = 0
<1>1. s \in Seq(0..(window - 1)) /\ 0 \in 0..(window - 1) /\ Len(s) \in Nat
  BY LimiterAssumption DEF Calls
<1>2. /\ Append(s, 0) \in Seq(0..(window - 1)) /\ Len(Append(s, 0)) = Len(s) + 1
      /\ \A i \in 1..Len(s) : Append(s, 0)[i] = s[i]
      /\ Append(s, 0)[Len(s) + 1] = 0
  BY <1>1, AppendProperties
<1>3. DOMAIN Append(s, 0) = 1..(Len(s) + 1) /\ DOMAIN s = 1..Len(s)
  BY <1>1, <1>2
<1>4. \A i \in 1..Len(s) : s[i] \in 0..(window - 1)
  BY <1>1, ElementOfSeq
<1>5. ASSUME NEW i \in DOMAIN Append(s, 0), NEW j \in DOMAIN Append(s, 0), i < j
      PROVE  Append(s, 0)[i] >= Append(s, 0)[j]
  <2>1. i \in 1..Len(s) /\ (j \in 1..Len(s) \/ j = Len(s) + 1)
    BY <1>1, <1>3, <1>5
  <2>2. CASE j \in 1..Len(s)
    BY <1>2, <1>3, <1>5, <2>1, <2>2 DEF Calls
  <2>3. CASE j = Len(s) + 1
    BY <1>2, <1>4, <2>1, <2>3
  <2>4. QED BY <2>1, <2>2, <2>3
<1>6. QED BY <1>1, <1>2, <1>5 DEF Calls

(* The new entry counts the last calls, the new one among them. *)
LEMMA CountedWithin ==
  ASSUME LimiterInv, NEW k \in Keys, \A b \in Current(k) : b.count < limit
  PROVE  /\ Counted(k) \in Entry /\ Counted(k).key = k
         /\ Within(Counted(k), Append(ages[k], 0))
<1> DEFINE s == ages[k]
           e == Counted(k)
<1>1. TableInv /\ AgesInv /\ Calls(s)
  BY DEF LimiterInv, AgesInv
<1>2. limit \in Nat \ {0} /\ window \in Nat \ {0}
  BY LimiterAssumption
<1> HIDE DEF s
<1>3. /\ Len(Append(s, 0)) = Len(s) + 1 /\ Len(s) \in Nat
      /\ \A i \in 1..Len(s) : Append(s, 0)[i] = s[i]
      /\ Append(s, 0)[Len(s) + 1] = 0
  BY <1>1, CallsAppend
<1>4. CASE Current(k) = {}
  <2>1. e.key = k /\ e.count = 1 /\ e.left = window /\ e \in Entry
    BY <1>2, <1>4 DEF Counted, Entry
  <2>2. Len(s) < limit
    <3>1. CASE Entered(k) = {}
      BY <1>1, <1>2, <3>1 DEF AgesInv, s
    <3>2. CASE Entered(k) # {}
      <4>1. PICK m \in DOMAIN buckets : buckets[m].key = k
        BY <3>2 DEF Entered
      <4>2. buckets[m] \in Entry /\ ~(buckets[m].left > 0)
        BY <1>1, <1>4, <4>1, CurrentIs DEF TableInv
      <4>3. buckets[m].left = 0
        BY <4>2 DEF Entry
      <4>4. Within(buckets[m], s)
        BY <1>1, <4>1 DEF AgesInv, s
      <4>5. QED BY <4>3, <4>4 DEF Within
    <3>3. QED BY <3>1, <3>2
  <2> HIDE DEF e
  <2>3. Len(s) + 1 - 1 + 1 = Len(s) + 1
    BY <1>3
  <2>4. Within(e, Append(s, 0))
    BY <1>2, <1>3, <2>1, <2>2, <2>3 DEF Within
  <2>5. QED BY <2>1, <2>4 DEF e, s
<1>5. CASE Current(k) # {}
  <2> DEFINE b == CHOOSE x \in Current(k) : TRUE
  <2>1. b \in Current(k) /\ e = [b EXCEPT !.count = @ + 1]
    BY <1>5 DEF Counted
  <2> HIDE DEF b, e
  <2>2. b \in Entry /\ b.key = k /\ b.left > 0 /\ b.count < limit
    BY <1>1, <2>1, CurrentIs
  <2>3. PICK m \in DOMAIN buckets : buckets[m] = b
    BY <1>1, <2>1, CurrentIs
  <2>4. Within(b, s)
    BY <1>1, <2>2, <2>3 DEF AgesInv, s
  <2>5. b.count \in 1..limit /\ b.left \in 0..window
    BY <2>2 DEF Entry
  <2>6. e.key = k /\ e.count = b.count + 1 /\ e.left = b.left
    BY <2>1, <2>2 DEF Entry
  <2>7. e \in Entry
    <3>1. b.count + 1 \in 1..limit
      BY <1>2, <2>2, <2>5
    <3>2. QED BY <2>1, <2>2, <3>1 DEF Entry
  <2>8. b.count <= Len(s) /\ Len(s) - b.count < limit /\ s[Len(s) - b.count + 1] = window - b.left
    BY <2>2, <2>4, <2>5 DEF Within
  <2>9. /\ Len(s) + 1 - (b.count + 1) + 1 = Len(s) - b.count + 1
        /\ Len(s) - b.count + 1 \in 1..Len(s)
        /\ b.count + 1 <= Len(s) + 1 /\ Len(s) + 1 - (b.count + 1) < limit
    BY <1>2, <1>3, <2>5, <2>8
  <2>10. Within(e, Append(s, 0))
    BY <1>3, <2>2, <2>5, <2>6, <2>8, <2>9 DEF Within
  <2>11. QED BY <2>6, <2>7, <2>10 DEF e, s
<1>6. QED BY <1>4, <1>5

(* An answered call counts, and takes the windows of the dropped with it. *)
LEMMA AllowKeeps ==
  ASSUME LimiterInv, NEW k \in Keys, Allow(k),
         later' = [i \in Keys |-> IF i = k THEN {} ELSE later[i] \cup {k}]
  PROVE  LimiterInv'
<1> DEFINE b == Counted(k)
           r == Removed(k)
           t == Room(r)
<1>1. TableInv /\ AgesInv
  BY DEF LimiterInv
<1>2. /\ buckets' = Append(t, b)
      /\ ages' = [i \in Keys |-> IF i = k THEN Append(ages[i], 0)
                                 ELSE IF i \in Dropped(k) THEN <<>> ELSE ages[i]]
  BY DEF Allow
<1>3. b \in Entry /\ b.key = k /\ Within(b, Append(ages[k], 0))
  BY CountedWithin DEF Allow
<1>4. PartWithout(t, k) /\ Len(t) < capacity /\ PartWithout(r, k)
  BY <1>1, RoomIs, RemovedIsPart
<1>5. Dropped(k) = {c.key : c \in ToSet(r) \ ToSet(t)}
  BY DEF Dropped
<1>6. \A m \in DOMAIN buckets : buckets[m].key # k => \E i \in DOMAIN r : r[i] = buckets[m]
  BY <1>1, RemovedIs
<1> HIDE DEF b, t, r
<1>7. TableInv' /\ LaterInv'
  BY <1>2, <1>3, <1>4, MovedTable
<1>8. /\ \A i \in DOMAIN t : i \in DOMAIN buckets' /\ buckets'[i] = t[i]
      /\ Len(buckets') \in DOMAIN buckets' /\ buckets'[Len(buckets')] = b
      /\ \A i \in DOMAIN buckets' : i \in DOMAIN t \/ i = Len(buckets')
  BY <1>2, <1>3, <1>4, AppendedIs DEF PartWithout
<1>9. ASSUME NEW i \in DOMAIN t
      PROVE  t[i].key \in Keys \ {k} /\ Within(t[i], ages'[t[i].key])
  <2>1. PICK m \in DOMAIN buckets : t[i] = buckets[m]
    BY <1>4 DEF PartWithout
  <2>2. t[i].key \in Keys \ {k}
    <3>1. t[i] \in Entry /\ t[i].key # k
      BY <1>4 DEF PartWithout
    <3>2. QED BY <3>1 DEF Entry
  <2>3. t[i].key \notin Dropped(k)
    <3>1. ASSUME NEW j \in DOMAIN r, r[j] \notin ToSet(t) PROVE r[j].key # t[i].key
      <4>1. PICK n \in DOMAIN buckets : r[j] = buckets[n]
        BY <1>4 DEF PartWithout
      <4>2. m # n
        BY <2>1, <3>1, <4>1 DEF ToSet
      <4>3. QED BY <1>1, <2>1, <4>1, <4>2 DEF TableInv
    <3>2. QED BY <1>5, <3>1 DEF ToSet
  <2>4. ages'[t[i].key] = ages[t[i].key]
    BY <1>2, <2>2, <2>3
  <2>5. QED BY <1>1, <2>1, <2>2, <2>4 DEF AgesInv
<1>10. \A i \in DOMAIN buckets' : Within(buckets'[i], ages'[buckets'[i].key])
  <2>1. ages'[k] = Append(ages[k], 0)
    BY <1>2
  <2>2. QED BY <1>3, <1>8, <1>9, <2>1
<1>11. ASSUME NEW q \in Keys, Entered(q)' = {} PROVE ages'[q] = <<>>
  <2>1. q # k
    BY <1>3, <1>8, <1>11 DEF Entered
  <2>2. ASSUME NEW i \in DOMAIN t PROVE t[i].key # q
    BY <1>8, <1>11, <2>2 DEF Entered
  <2>3. CASE Entered(q) = {}
    BY <1>1, <1>2, <2>1, <2>3 DEF AgesInv
  <2>4. CASE Entered(q) # {}
    <3>1. PICK m \in DOMAIN buckets : buckets[m].key = q
      BY <2>4 DEF Entered
    <3>2. PICK j \in DOMAIN r : r[j] = buckets[m]
      BY <1>6, <2>1, <3>1
    <3>3. r[j] \in ToSet(r) \ ToSet(t) /\ r[j].key = q
      BY <2>2, <3>1, <3>2 DEF ToSet
    <3>4. q \in Dropped(k)
      BY <1>5, <3>3
    <3>5. QED BY <1>2, <2>1, <3>4
  <2>5. QED BY <2>3, <2>4
<1>12. \A q \in Keys : Calls(ages'[q])
  <2>1. \A q \in Keys : Calls(ages[q]) /\ Calls(Append(ages[q], 0))
    BY <1>1, CallsAppend DEF AgesInv
  <2>2. Calls(<<>>)
    BY DEF Calls
  <2>3. QED BY <1>2, <2>1, <2>2
<1>13. ages' = [q \in Keys |-> ages'[q]]
  BY <1>2
<1>14. AgesInv'
  BY <1>10, <1>11, <1>12, <1>13 DEF AgesInv
<1>15. QED BY <1>7, <1>14 DEF LimiterInv

(* A set of numbers has a least one. *)
LEMMA LeastOf ==
  ASSUME NEW R, R # {}, R \in SUBSET Nat
  PROVE  Min(R) \in R /\ \A m \in R : Min(R) <= m
<1> DEFINE less == {ss \in Nat \X Nat : ss[1] < ss[2]}
<1>1. IsWellFoundedOn(less, Nat)
  BY NatLessThanWellFounded DEF OpToRel
<1>2. \E n \in R : \A m \in R : <<m, n>> \notin less
  <2> HIDE DEF less
  <2>1. QED BY <1>1, WFMin
<1>3. \E n \in R : \A m \in R : n <= m
  <2>1. PICK n \in R : \A m \in R : <<m, n>> \notin less
    BY <1>2
  <2>2. ASSUME NEW m \in R PROVE n <= m
    <3>1. m \in Nat /\ n \in Nat /\ <<m, n>> \in Nat \X Nat
      OBVIOUS
    <3>2. ~(m < n)
      BY <2>1, <3>1
    <3>3. QED BY <3>1, <3>2
  <2>3. QED BY <2>2
<1>4. QED BY <1>3 DEF Min

(* As time passes the first calls leave, and the others age. *)
LEMMA OlderIs ==
  ASSUME NEW s, Calls(s)
  PROVE  /\ Calls(Older(s))
         /\ \E gone \in 0..Len(s) :
               /\ Len(Older(s)) = Len(s) - gone
               /\ \A i \in 1..Len(s) : i > gone <=> s[i] + 1 < window
               /\ \A i \in 1..(Len(s) - gone) : Older(s)[i] = s[i + gone] + 1
<1> DEFINE kept == {i \in DOMAIN s : s[i] + 1 < window}
           gone == IF kept = {} THEN Len(s) ELSE Min(kept) - 1
<1>1. s \in Seq(0..(window - 1)) /\ Len(s) \in Nat /\ DOMAIN s = 1..Len(s) /\ window \in Nat \ {0}
  BY LimiterAssumption DEF Calls
<1>2. \A i \in 1..Len(s) : s[i] \in 0..(window - 1)
  BY <1>1, ElementOfSeq
<1>3. Older(s) = [i \in 1..(Len(s) - gone) |-> s[i + gone] + 1]
  BY DEF Older
<1>4. gone \in 0..Len(s) /\ \A i \in 1..Len(s) : i > gone <=> s[i] + 1 < window
  <2>1. CASE kept = {}
    BY <1>1, <2>1
  <2>2. CASE kept # {}
    <3>1. kept \in SUBSET Nat
      BY <1>1
    <3>2. Min(kept) \in kept /\ \A m \in kept : Min(kept) <= m
      <4> HIDE DEF kept
      <4>1. QED BY <2>2, <3>1, LeastOf
    <3>3. Min(kept) \in 1..Len(s) /\ s[Min(kept)] + 1 < window /\ gone = Min(kept) - 1
      BY <1>1, <2>2, <3>2
    <3>4. \A i \in 1..Len(s) : s[i] + 1 < window => Min(kept) <= i
      BY <1>1, <3>2
    <3> HIDE DEF kept, gone
    <3> DEFINE least == Min(kept)
    <3> HIDE DEF least
    <3>5. least \in 1..Len(s) /\ s[least] + 1 < window /\ gone = least - 1
      BY <3>3 DEF least
    <3>6. ASSUME NEW i \in 1..Len(s), i >= least PROVE s[i] + 1 < window
      <4>1. CASE i = least
        BY <3>5, <4>1
      <4>2. CASE i # least
        <5>1. s[least] >= s[i]
          <6>1. least \in DOMAIN s /\ i \in DOMAIN s /\ least < i
            BY <1>1, <3>5, <3>6, <4>2
          <6>2. QED BY <6>1 DEF Calls
        <5>2. QED BY <1>1, <1>2, <3>5, <5>1
      <4>3. QED BY <4>1, <4>2
    <3>7. \A i \in 1..Len(s) : s[i] + 1 < window => least <= i
      BY <3>4 DEF least
    <3>8. QED BY <1>1, <3>5, <3>6, <3>7
  <2>3. QED BY <2>1, <2>2
<1> HIDE DEF gone, kept
<1> DEFINE o == Older(s)
<1>5. Len(s) - gone \in Nat /\ gone \in Nat
  BY <1>1, <1>4
<1>6. \A i \in 1..(Len(s) - gone) : i + gone \in 1..Len(s) /\ s[i + gone] + 1 \in 0..(window - 1)
  <2>1. ASSUME NEW i \in 1..(Len(s) - gone)
        PROVE  i + gone \in 1..Len(s) /\ s[i + gone] + 1 \in 0..(window - 1)
    <3>1. i + gone \in 1..Len(s) /\ i + gone > gone
      BY <1>1, <1>5
    <3>2. s[i + gone] + 1 < window /\ s[i + gone] \in 0..(window - 1)
      BY <1>2, <1>4, <3>1
    <3>3. QED BY <1>1, <3>1, <3>2
  <2>2. QED BY <2>1
<1>7. o \in Seq(0..(window - 1)) /\ Len(o) = Len(s) - gone /\ DOMAIN o = 1..(Len(s) - gone)
  <2>1. o \in [1..(Len(s) - gone) -> 0..(window - 1)]
    BY <1>3, <1>6
  <2> HIDE DEF o
  <2>2. o \in Seq(0..(window - 1))
    BY <1>5, <2>1, SeqDef
  <2>3. DOMAIN o = 1..(Len(s) - gone) /\ DOMAIN o = 1..Len(o) /\ Len(o) \in Nat
    BY <2>1, <2>2
  <2>4. QED BY <1>5, <2>2, <2>3
<1>8. \A i \in 1..(Len(s) - gone) : o[i] = s[i + gone] + 1
  BY <1>3
<1> HIDE DEF o
<1>9. ASSUME NEW i \in DOMAIN o, NEW j \in DOMAIN o, i < j PROVE o[i] >= o[j]
  <2>1. i + gone \in DOMAIN s /\ j + gone \in DOMAIN s /\ i + gone < j + gone
    <3>1. i \in 1..(Len(s) - gone) /\ j \in 1..(Len(s) - gone)
      BY <1>7
    <3>2. i + gone \in 1..Len(s) /\ j + gone \in 1..Len(s)
      BY <1>6, <3>1
    <3>3. QED BY <1>1, <1>5, <1>9, <3>1, <3>2
  <2>2. s[i + gone] >= s[j + gone]
    BY <2>1 DEF Calls
  <2>3. s[i + gone] \in Int /\ s[j + gone] \in Int
    BY <1>1, <1>2, <2>1
  <2>4. QED BY <1>7, <1>8, <1>9, <2>2, <2>3
<1>10. Calls(o)
  BY <1>7, <1>9 DEF Calls
<1>11. QED BY <1>4, <1>7, <1>8, <1>10 DEF o

LEMMA TickKeeps ==
  ASSUME LimiterInv, Tick
  PROVE  LimiterInv'
<1>1. TableInv /\ AgesInv /\ LaterInv
  BY DEF LimiterInv
<1>2. /\ buckets' = [i \in DOMAIN buckets |->
                       [buckets[i] EXCEPT !.left = IF @ > 0 THEN @ - 1 ELSE 0]]
      /\ ages' = [k \in Keys |-> Older(ages[k])] /\ later' = later
  BY DEF Tick
<1>3. /\ buckets \in Seq(Entry) /\ DOMAIN buckets = 1..Len(buckets) /\ Len(buckets) \in Nat
      /\ \A i \in DOMAIN buckets : buckets[i] \in Entry
  BY <1>1 DEF TableInv
<1>4. limit \in Nat \ {0} /\ window \in Nat \ {0}
  BY LimiterAssumption
<1>5. ASSUME NEW i \in DOMAIN buckets
      PROVE  /\ buckets'[i].key = buckets[i].key /\ buckets'[i].count = buckets[i].count
             /\ buckets'[i].left = IF buckets[i].left > 0 THEN buckets[i].left - 1 ELSE 0
             /\ buckets'[i] \in Entry
  <2>1. buckets[i] \in Entry /\ buckets[i].left \in 0..window
    BY <1>3 DEF Entry
  <2>2. buckets'[i] = [buckets[i] EXCEPT !.left = IF @ > 0 THEN @ - 1 ELSE 0]
    BY <1>2
  <2>3. (IF buckets[i].left > 0 THEN buckets[i].left - 1 ELSE 0) \in 0..window
    BY <1>4, <2>1
  <2>4. QED BY <2>1, <2>2, <2>3 DEF Entry
<1>6. DOMAIN buckets' = DOMAIN buckets
  BY <1>2
<1>7. buckets' \in Seq(Entry) /\ Len(buckets') = Len(buckets)
  <2>1. buckets' \in [1..Len(buckets) -> Entry]
    BY <1>2, <1>3, <1>5
  <2>2. buckets' \in Seq(Entry)
    BY <1>3, <2>1, SeqDef
  <2>3. DOMAIN buckets' = 1..Len(buckets') /\ Len(buckets') \in Nat
    BY <2>2
  <2>4. QED BY <1>3, <1>6, <2>2, <2>3
<1>8. TableInv'
  <2>1. Len(buckets') <= capacity
    BY <1>1, <1>7 DEF TableInv
  <2>2. ASSUME NEW i \in DOMAIN buckets', NEW j \in DOMAIN buckets'
        PROVE  /\ buckets'[i].key = buckets'[j].key => i = j
               /\ i < j => buckets'[j].key \in later'[buckets'[i].key]
    <3>1. i \in DOMAIN buckets /\ j \in DOMAIN buckets
      BY <1>6
    <3>2. buckets'[i].key = buckets[i].key /\ buckets'[j].key = buckets[j].key
      BY <1>5, <3>1
    <3>3. QED BY <1>1, <1>2, <3>1, <3>2 DEF TableInv
  <2>3. QED BY <1>7, <2>1, <2>2 DEF TableInv
<1>9. LaterInv'
  BY <1>1, <1>2 DEF LaterInv
<1>10. \A k \in Keys : Calls(ages'[k])
  BY <1>1, <1>2, OlderIs DEF AgesInv
<1>11. ASSUME NEW i \in DOMAIN buckets
       PROVE  Within(buckets'[i], ages'[buckets'[i].key])
  <2> DEFINE b == buckets[i]
             s == ages[buckets[i].key]
  <2>1. b.key \in Keys /\ b.count \in 1..limit /\ b.left \in 0..window
    BY <1>3 DEF Entry
  <2>2. Calls(s) /\ Within(b, s) /\ ages'[buckets'[i].key] = Older(s)
    BY <1>1, <1>2, <1>5, <2>1 DEF AgesInv
  <2>3. PICK gone \in 0..Len(s) :
           /\ Len(Older(s)) = Len(s) - gone
           /\ \A j \in 1..Len(s) : j > gone <=> s[j] + 1 < window
           /\ \A j \in 1..(Len(s) - gone) : Older(s)[j] = s[j + gone] + 1
    BY <2>2, OlderIs
  <2>4. Len(s) \in Nat
    BY <2>2 DEF Calls
  <2>5. /\ buckets'[i].count = b.count
        /\ buckets'[i].left = IF b.left > 0 THEN b.left - 1 ELSE 0
    BY <1>5
  <2> HIDE DEF b, s
  <2>6. CASE b.left = 0
    <3>1. Len(s) < limit /\ buckets'[i].left = 0
      BY <2>2, <2>5, <2>6 DEF Within
    <3>2. QED BY <1>4, <2>2, <2>3, <2>4, <3>1 DEF Within
  <2>7. CASE b.left > 0
    <3> DEFINE at == Len(s) - b.count + 1
    <3>1. b.count <= Len(s) /\ Len(s) - b.count < limit /\ s[at] = window - b.left
      BY <2>1, <2>2, <2>7 DEF Within
    <3>2. at \in 1..Len(s) /\ buckets'[i].left = b.left - 1
      BY <2>1, <2>4, <2>5, <2>7, <3>1
    <3>3. at > gone <=> window - b.left + 1 < window
      BY <2>3, <3>1, <3>2
    <3>4. CASE b.left = 1
      <4>1. ~(at > gone)
        BY <1>4, <3>3, <3>4
      <4>2. Len(s) - gone < limit
        BY <1>4, <2>1, <2>3, <2>4, <4>1
      <4>3. QED BY <2>2, <2>3, <3>2, <3>4, <4>2 DEF Within
    <3>5. CASE b.left > 1
      <4>1. at > gone
        BY <1>4, <2>1, <3>3, <3>5
      <4> DEFINE p == Len(s) - gone - b.count + 1
      <4>2. p \in 1..(Len(s) - gone) /\ p + gone = at /\ b.count <= Len(s) - gone
        BY <1>4, <2>1, <2>3, <2>4, <4>1
      <4>3. Len(s) - gone - b.count < limit
        BY <1>4, <2>1, <2>3, <2>4, <3>1
      <4>4. Older(s)[p] = window - b.left + 1
        <5> HIDE DEF p, at
        <5>1. QED BY <2>3, <3>1, <4>2
      <4>5. Older(s)[p] = window - (b.left - 1)
        BY <1>4, <2>1, <4>4
      <4>6. b.left - 1 # 0
        BY <2>1, <3>5
      <4>7. QED BY <2>2, <2>3, <2>5, <3>2, <4>2, <4>3, <4>5, <4>6 DEF Within
    <3>6. QED BY <2>1, <2>7, <3>4, <3>5
  <2>8. QED BY <2>1, <2>6, <2>7
<1>12. ASSUME NEW q \in Keys, Entered(q)' = {} PROVE ages'[q] = <<>>
  <2>1. Entered(q) = {}
    BY <1>5, <1>6, <1>12 DEF Entered
  <2>2. ages[q] = <<>> /\ Calls(ages[q]) /\ Len(ages[q]) = 0
    BY <1>1, <2>1 DEF AgesInv
  <2>3. Len(Older(ages[q])) = 0 /\ Calls(Older(ages[q]))
    BY <2>2, OlderIs
  <2>4. Older(ages[q]) = <<>>
    BY <2>3, EmptySeq DEF Calls
  <2>5. QED BY <1>2, <2>4
<1>13. AgesInv'
  <2>1. ages' = [k \in Keys |-> ages'[k]]
    BY <1>2
  <2>2. QED BY <1>6, <1>10, <1>11, <1>12, <2>1 DEF AgesInv
<1>14. QED BY <1>8, <1>9, <1>13 DEF LimiterInv

LEMMA LimiterKeeps == LimiterInv /\ [LimiterNext]_limiterVars => LimiterInv'
<1> SUFFICES ASSUME LimiterInv, [LimiterNext]_limiterVars PROVE LimiterInv'
  OBVIOUS
<1>1. CASE Tick
  BY <1>1, TickKeeps
<1>2. ASSUME NEW k \in Keys, allow(k) PROVE LimiterInv'
  BY <1>2, RefuseKeeps, AllowKeeps DEF allow
<1>3. CASE UNCHANGED limiterVars
  BY <1>3 DEF limiterVars, LimiterInv, TableInv, AgesInv, LaterInv, Entered
<1>4. QED BY <1>1, <1>2, <1>3 DEF LimiterNext

LEMMA LimiterInductive == LimiterSpec => []LimiterInv
  BY LimiterInitially, LimiterKeeps, PTL DEF LimiterSpec

(* The table never outgrows its capacity, and a client that stays in it gets *)
(* fewer than two limits of answers in any window, for every number of       *)
(* clients, limit, window and capacity.                                      *)
THEOREM WindowsHold == AccessSpec => []WindowBound
<1>1. ASSUME LimiterInv PROVE WindowBound
  <2>1. limit \in Nat \ {0} /\ TableInv /\ AgesInv
    BY <1>1, LimiterAssumption DEF LimiterInv
  <2>2. ASSUME NEW k \in Keys PROVE Len(ages[k]) < 2 * limit
    <3>1. Len(ages[k]) \in Nat
      BY <2>1 DEF AgesInv, Calls
    <3>2. CASE Entered(k) = {}
      BY <2>1, <3>2 DEF AgesInv
    <3>3. CASE Entered(k) # {}
      <4>1. PICK m \in DOMAIN buckets : buckets[m].key = k
        BY <3>3 DEF Entered
      <4>2. Within(buckets[m], ages[k]) /\ buckets[m].count \in 1..limit
        <5>1. buckets[m] \in Entry
          BY <2>1, <4>1 DEF TableInv
        <5>2. QED BY <2>1, <4>1, <5>1 DEF AgesInv, Entry
      <4>3. Len(ages[k]) < limit \/ Len(ages[k]) - buckets[m].count < limit
        BY <4>2 DEF Within
      <4>4. QED BY <2>1, <3>1, <4>2, <4>3
    <3>4. QED BY <3>2, <3>3
  <2>3. QED BY <2>1, <2>2 DEF WindowBound, TableInv
<1>2. QED BY <1>1, PartsSpec, LimiterInductive, PTL

(* A refusal means that the window before it is full. *)
LEMMA RefusedInFullWindow ==
  ASSUME LimiterInv, NEW k \in Keys, allow(k), ages'[k] = ages[k]
  PROVE  Len(ages[k]) >= limit
<1>1. TableInv /\ AgesInv /\ limit \in Nat
  BY LimiterAssumption DEF LimiterInv
<1>2. ~Allow(k)
  <2>1. ASSUME Allow(k) PROVE FALSE
    <3>1. ages'[k] = Append(ages[k], 0)
      BY <2>1 DEF Allow
    <3>2. Len(ages'[k]) = Len(ages[k]) + 1 /\ Len(ages[k]) \in Nat
      BY <1>1, <3>1, CallsAppend DEF AgesInv
    <3>3. QED BY <3>2
  <2>2. QED BY <2>1
<1>3. PICK b \in Current(k) : b.count >= limit
  BY <1>2 DEF allow, Refuse
<1>4. b \in Entry /\ b.key = k /\ b.left > 0 /\ \E m \in DOMAIN buckets : buckets[m] = b
  BY <1>1, CurrentIs
<1>5. Within(b, ages[k]) /\ b.left # 0 /\ b.count \in Nat
  BY <1>1, <1>4 DEF AgesInv, Entry
<1>6. Len(ages[k]) \in Nat
  BY <1>1 DEF AgesInv, Calls
<1>7. QED BY <1>1, <1>3, <1>5, <1>6 DEF Within

(* Whoever is dropped stood first in a full table, and everyone behind has *)
(* called since.                                                           *)
LEMMA DroppedAfterOthers ==
  ASSUME LimiterInv, NEW k \in Keys, NEW i \in Keys \ {k}, Allow(k), i \in Dropped(k)
  PROVE  Cardinality(later[i] \cup {k}) >= capacity
<1> DEFINE r == Removed(k)
           t == Room(r)
           others == later[i] \cup {k}
           at == [j \in 1..capacity |-> IF j = 1 THEN k ELSE r[j].key]
<1>1. TableInv /\ LaterInv /\ capacity \in Nat \ {0}
  BY LimiterAssumption DEF LimiterInv
<1>2. PICK c \in ToSet(r) : c \notin ToSet(t) /\ c.key = i
  BY DEF Dropped
<1>3. t # r
  BY <1>2
<1>4. /\ PartWithout(r, k) /\ Len(r) = capacity
      /\ \A j \in DOMAIN r : j > 1 => \E m \in DOMAIN t : t[m] = r[j]
  BY <1>1, <1>3, RoomIs, RemovedIsPart
<1> HIDE DEF r, t
<1>5. DOMAIN r = 1..capacity
  BY <1>1, <1>4 DEF PartWithout
<1>6. r[1].key = i
  <2>1. PICK j \in DOMAIN r : r[j] = c
    BY <1>2 DEF ToSet
  <2>2. ~(j > 1)
    BY <1>2, <1>4, <2>1 DEF ToSet
  <2>3. j = 1
    BY <1>5, <2>2
  <2>4. QED BY <1>2, <2>1, <2>3
<1>7. ASSUME NEW j \in 1..capacity, NEW n \in 1..capacity, j < n
      PROVE  r[j].key # r[n].key /\ r[n].key \in later[r[j].key]
  <2>1. PICK l \in DOMAIN buckets, m \in DOMAIN buckets :
           l < m /\ r[j] = buckets[l] /\ r[n] = buckets[m]
    BY <1>4, <1>5, <1>7 DEF PartWithout
  <2>2. DOMAIN buckets = 1..Len(buckets) /\ l # m
    BY <1>1, <2>1 DEF TableInv
  <2>3. QED BY <1>1, <2>1, <2>2 DEF TableInv
<1>8. \A j \in 1..capacity : r[j].key # k
  BY <1>4, <1>5 DEF PartWithout
<1>9. \A j \in 1..capacity : at[j] \in others
  <2>1. ASSUME NEW j \in 1..capacity, j # 1 PROVE r[j].key \in later[i]
    <3>1. 1 \in 1..capacity /\ 1 < j
      BY <1>1, <2>1
    <3>2. QED BY <1>6, <1>7, <3>1
  <2>2. QED BY <2>1
<1>10. ASSUME NEW j \in 1..capacity, NEW n \in 1..capacity, at[j] = at[n] PROVE j = n
  <2>1. CASE j = 1 \/ n = 1
    BY <1>8, <1>10, <2>1
  <2>2. CASE j # 1 /\ n # 1
    <3>1. r[j].key = r[n].key
      BY <1>10, <2>2
    <3>2. ~(j < n) /\ ~(n < j)
      BY <1>7, <3>1
    <3>3. QED BY <1>1, <3>2
  <2>3. QED BY <2>1, <2>2
<1>11. at \in Injection(1..capacity, others)
  <2> DEFINE f == at
  <2>1. f \in [1..capacity -> others]
    BY <1>9
  <2>2. QED BY <1>10, <2>1 DEF Injection, IsInjective
<1>12. IsFiniteSet(others)
  BY <1>1, FS_AddElement DEF LaterInv
<1>13. Cardinality(1..capacity) = capacity
  BY <1>1, FS_Interval
<1> HIDE DEF at, others
<1>14. Cardinality(1..capacity) <= Cardinality(others)
  BY <1>11, <1>12, FS_Injection
<1>15. Cardinality(others) \in Nat
  BY <1>12, FS_CardinalityType
<1>16. QED BY <1>1, <1>13, <1>14, <1>15 DEF others

(* A call is refused only to a client with a full window, and a client loses *)
(* its window only after capacity others have called.                        *)
THEOREM NobodyIsStarved == AccessSpec => NobodyStarved
<1>1. ASSUME LimiterInv
      PROVE  \A k \in Keys :
                /\ allow(k) /\ ages'[k] = ages[k] => Len(ages[k]) >= limit
                /\ \A i \in Keys \ {k} : allow(k) /\ ages[i] # <<>> /\ ages'[i] = <<>>
                      => Cardinality(later[i] \cup {k}) >= capacity
  <2>1. ASSUME NEW k \in Keys, allow(k), NEW i \in Keys \ {k},
               ages[i] # <<>>, ages'[i] = <<>>
        PROVE  Cardinality(later[i] \cup {k}) >= capacity
    <3>1. Allow(k)
      BY <2>1 DEF allow, Refuse
    <3>2. i \in Dropped(k)
      BY <2>1, <3>1 DEF Allow
    <3>3. QED BY <1>1, <3>1, <3>2, DroppedAfterOthers
  <2>2. QED BY <1>1, <2>1, RefusedInFullWindow
<1>2. QED BY <1>1, PartsSpec, LimiterInductive, PTL DEF NobodyStarved
===============================================================================
