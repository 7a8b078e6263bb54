---------------------------- MODULE PasswordReset ----------------------------
(***************************************************************************)
(* The recovery codes of one account with a password (accounts share       *)
(* nothing here): request_password_reset and confirm_password_reset of     *)
(* app/services/auth.py, on rows of password_reset_codes.                  *)
(*                                                                         *)
(* code is the committed table.  A request is a transaction: mine[r] the   *)
(* code it inserts or confirms, retired[r] the rows its UPDATE marked used.*)
(* An UPDATE by user locks all rows of the account and the gap for new     *)
(* ones until the transaction ends; gap locks do not exclude each other.   *)
(***************************************************************************)
EXTENDS Naturals, FiniteSets

CONSTANTS Requests,
          MaxCodes     \* bound: codes that are ever inserted

VARIABLES code,        \* the rows: none yet, unused or used
          expired,     \* codes older than ten minutes
          delivered,   \* codes in the mailbox of the member
          next,        \* the auto-increment counter
          pc, mine, retired

tables == <<code, next>>
vars == <<tables, expired, delivered, pc, mine, retired>>

Codes == 1..MaxCodes
NoCode == 0
Unused == {c \in Codes : code[c] = "unused"}
Rows == {c \in Codes : code[c] # "none"}

Init ==
    /\ code = [c \in Codes |-> "none"]
    /\ expired = {} /\ delivered = {} /\ next = 1
    /\ pc = [r \in Requests |-> "idle"]
    /\ mine = [r \in Requests |-> NoCode]
    /\ retired = [r \in Requests |-> {}]

Goto(r, from, to) == pc[r] = from /\ pc' = [pc EXCEPT ![r] = to]

End(r) == /\ pc' = [pc EXCEPT ![r] = "idle"]
          /\ mine' = [mine EXCEPT ![r] = NoCode]
          /\ retired' = [retired EXCEPT ![r] = {}]

Others(r, places) == {q \in Requests \ {r} : pc[q] \in places}

------------------------------------------------------------------------------
(* request_password_reset *)

(* Mutant: the UPDATE locks only the rows it changes. *)
RetireUnlocked(r) ==
    /\ Goto(r, "idle", "insert")
    /\ \A q \in Others(r, {"insert", "mail", "failed", "sent"}) : retired[q] \cap Unused = {}
    /\ retired' = [retired EXCEPT ![r] = Unused]
    /\ UNCHANGED <<tables, expired, delivered, mine>>

(* The UPDATE waits for another request's rows; without any it locks a gap. *)
Retire(r) ==
    /\ Goto(r, "idle", "insert")
    /\ Others(r, {"mail", "failed", "sent"}) = {}
    /\ Rows = {} \/ Others(r, {"insert"}) = {}
    /\ retired' = [retired EXCEPT ![r] = Unused]
    /\ UNCHANGED <<tables, expired, delivered, mine>>

(* The new row waits for other requests' gap locks. *)
InsertCode(r) ==
    /\ next <= MaxCodes
    /\ Goto(r, "insert", "mail")
    /\ Others(r, {"insert", "mail", "failed", "sent"}) = {}
    /\ mine' = [mine EXCEPT ![r] = next]
    /\ next' = next + 1
    /\ UNCHANGED <<code, expired, delivered, retired>>

(* Each of two requests waits for the gap of the other: one is rolled back. *)
DeadlockVictim(r) ==
    /\ pc[r] = "insert" /\ Others(r, {"insert"}) # {}
    /\ End(r)
    /\ UNCHANGED <<tables, expired, delivered>>

MailSent(r) ==
    /\ Goto(r, "mail", "sent")
    /\ delivered' = delivered \cup {mine[r]}
    /\ UNCHANGED <<tables, expired, mine, retired>>

(* Mutant: the transaction goes on although the mail was not sent. *)
MailFailedOn(r) ==
    /\ Goto(r, "mail", "sent")
    /\ UNCHANGED <<tables, expired, delivered, mine, retired>>

(* The savepoint is rolled back; the locks stay until the commit. *)
MailFailed(r) ==
    /\ Goto(r, "mail", "failed")
    /\ mine' = [mine EXCEPT ![r] = NoCode]
    /\ retired' = [retired EXCEPT ![r] = {}]
    /\ UNCHANGED <<tables, expired, delivered>>

CommitRequest(r) ==
    /\ pc[r] \in {"sent", "failed"}
    /\ code' = [c \in Codes |-> IF c = mine[r] THEN "unused"
                                ELSE IF c \in retired[r] THEN "used"
                                ELSE code[c]]
    /\ End(r)
    /\ UNCHANGED <<expired, delivered, next>>

------------------------------------------------------------------------------
(* confirm_password_reset *)

(* active_reset_code, an ordinary read: the newest unused code, which the *)
(* member must know and which must not have expired.                      *)
ReadCode(r, c) ==
    /\ Goto(r, "idle", "hash")
    /\ c \in Unused /\ \A d \in Unused : d <= c
    /\ c \in delivered \ expired
    /\ mine' = [mine EXCEPT ![r] = c]
    /\ UNCHANGED <<tables, expired, delivered, retired>>

(* The new password is hashed in a thread; then both rows are written. *)
ResetPassword(r) ==
    /\ pc[r] = "hash"
    /\ Others(r, {"insert", "mail", "failed", "sent"}) = {}
    /\ code' = [code EXCEPT ![mine[r]] = "used"]
    /\ End(r)
    /\ UNCHANGED <<expired, delivered, next>>

------------------------------------------------------------------------------
(* A crash or an error: the session rolls back, a mail that is sent stays sent. *)
Abort(r) == pc[r] # "idle" /\ End(r) /\ UNCHANGED <<tables, expired, delivered>>

Expire(c) ==
    /\ c \in Unused \ expired
    /\ expired' = expired \cup {c}
    /\ UNCHANGED <<tables, delivered, pc, mine, retired>>

Next == \/ \E r \in Requests :
              \/ Retire(r) \/ InsertCode(r) \/ DeadlockVictim(r) \/ MailSent(r)
              \/ MailFailed(r) \/ CommitRequest(r) \/ ResetPassword(r) \/ Abort(r)
              \/ \E c \in Codes : ReadCode(r, c)
        \/ \E c \in Codes : Expire(c)

Spec == Init /\ [][Next]_vars

------------------------------------------------------------------------------
TypeOK ==
    /\ code \in [Codes -> {"none", "unused", "used"}]
    /\ expired \subseteq Codes /\ delivered \subseteq Codes
    /\ next \in 1..(MaxCodes + 1)
    /\ pc \in [Requests -> {"idle", "insert", "mail", "failed", "sent", "hash"}]
    /\ mine \in [Requests -> Codes \cup {NoCode}]
    /\ retired \in [Requests -> SUBSET Codes]

(* One code is valid at a time, and it is one the member has received, however *)
(* many requests run at the same time and whichever mails fail.                *)
OneValidCode == Cardinality(Unused) <= 1 /\ Unused \subseteq delivered

(* "Keep an already-delivered code usable if a resend fails": a code is used up *)
(* only by a confirmation with it or by a newer code that has been delivered.   *)
DeliveredKept ==
    [][\A c \in Unused :
          code'[c] # "unused" =>
             \/ \E r \in Requests : ResetPassword(r) /\ mine[r] = c
             \/ \E d \in delivered : d > c /\ code'[d] = "unused"]_vars
==============================================================================
