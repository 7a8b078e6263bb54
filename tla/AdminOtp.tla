------------------------------- MODULE AdminOtp -------------------------------
(***************************************************************************)
(* The two steps of an administrator's login (AdminAuth of app/admin.py):  *)
(* a password, then a code sent by mail.  One administrator with several   *)
(* browsers.  The codes of a process are kept in memory; the mail is sent  *)
(* in a thread, and other requests are handled meanwhile.                  *)
(*                                                                         *)
(* Codes are numbered as they are drawn.  pending is the entry of the      *)
(* table, age and attempts the fields of a code's object, which lives on   *)
(* in a login that has read it.  A unit of time is OTP_RESEND_AFTER.       *)
(***************************************************************************)
EXTENDS Naturals, FiniteSets

CONSTANTS Browsers,
          Codes,             \* bound: 1..n, the codes drawn
          OTP_EXPIRES_IN, OTP_MAX_ATTEMPTS,
          Null

VARIABLES pending, drawn, age, attempts,
          waiting,           \* browsers whose session waits for a code
          mailing,           \* browser -> the login that sends its mail
          signed             \* codes that have signed somebody in

otpVars == <<pending, drawn, age, attempts, waiting, mailing, signed>>

OtpInit ==
    /\ pending = Null /\ drawn = 0
    /\ age = [c \in Codes |-> 0] /\ attempts = [c \in Codes |-> 0]
    /\ waiting = {} /\ signed = {}
    /\ mailing = [b \in Browsers |-> Null]

Alive(c) == c # Null /\ age[c] < OTP_EXPIRES_IN

(* Within a minute of the last code no other is sent. *)
AwaitLast(b) ==
    /\ b \notin waiting /\ mailing[b] = Null
    /\ Alive(pending) /\ attempts[pending] < OTP_MAX_ATTEMPTS /\ age[pending] < 1
    /\ waiting' = waiting \cup {b}
    /\ UNCHANGED <<pending, drawn, age, attempts, mailing, signed>>

(* The code that was pending is read before the mail is sent. *)
DrawCode(b) ==
    /\ b \notin waiting /\ mailing[b] = Null
    /\ drawn + 1 \in Codes
    /\ Alive(pending) => attempts[pending] < OTP_MAX_ATTEMPTS /\ age[pending] >= 1
    /\ drawn' = drawn + 1
    /\ mailing' = [mailing EXCEPT ![b] =
                     [code |-> drawn + 1, last |-> IF Alive(pending) THEN pending ELSE Null]]
    /\ UNCHANGED <<pending, age, attempts, waiting, signed>>

StoreCode(b) ==
    /\ mailing[b] # Null
    /\ pending' = mailing[b].code
    /\ attempts' = [attempts EXCEPT ![mailing[b].code] =
                      IF mailing[b].last # Null THEN attempts[mailing[b].last] ELSE 0]
    /\ waiting' = waiting \cup {b}
    /\ mailing' = [mailing EXCEPT ![b] = Null]
    /\ UNCHANGED <<drawn, age, signed>>

(* The mail fails: 500, and the code before stays. *)
MailFails(b) ==
    /\ mailing[b] # Null
    /\ mailing' = [mailing EXCEPT ![b] = Null]
    /\ UNCHANGED <<pending, drawn, age, attempts, waiting, signed>>

(* _verify_code *)
Closed == Alive(pending) => attempts[pending] >= OTP_MAX_ATTEMPTS

VerifyClosed(b) ==
    /\ b \in waiting /\ Closed
    /\ pending' = Null
    /\ waiting' = waiting \ {b}
    /\ UNCHANGED <<drawn, age, attempts, mailing, signed>>

VerifyWrong(b) ==
    /\ b \in waiting /\ ~Closed
    /\ attempts' = [attempts EXCEPT ![pending] = @ + 1]
    /\ UNCHANGED <<pending, drawn, age, waiting, mailing, signed>>

(* Mutant: the session is signed in, and the code stays. *)
VerifyRightKept(b) ==
    /\ b \in waiting /\ ~Closed
    /\ attempts' = [attempts EXCEPT ![pending] = @ + 1]
    /\ signed' = signed \cup {pending}
    /\ waiting' = waiting \ {b}
    /\ UNCHANGED <<pending, drawn, age, mailing>>

VerifyRight(b) ==
    /\ b \in waiting /\ ~Closed
    /\ attempts' = [attempts EXCEPT ![pending] = @ + 1]
    /\ signed' = signed \cup {pending}
    /\ pending' = Null
    /\ waiting' = waiting \ {b}
    /\ UNCHANGED <<drawn, age, mailing>>

(* A logout ends the login of every browser that waits for the code. *)
logout(b) ==
    /\ pending' = IF b \in waiting THEN Null ELSE pending
    /\ waiting' = waiting \ {b}
    /\ UNCHANGED <<drawn, age, attempts, mailing, signed>>

(* Time passes for the codes that were drawn. *)
Minute ==
    /\ \E c \in 1..drawn : age[c] < OTP_EXPIRES_IN
    /\ age' = [c \in Codes |-> IF c <= drawn /\ age[c] < OTP_EXPIRES_IN THEN age[c] + 1 ELSE age[c]]
    /\ UNCHANGED <<pending, drawn, attempts, waiting, mailing, signed>>

OtpNext == \/ \E b \in Browsers : \/ AwaitLast(b) \/ DrawCode(b) \/ StoreCode(b) \/ MailFails(b)
                                  \/ VerifyClosed(b) \/ VerifyWrong(b) \/ VerifyRight(b)
                                  \/ logout(b)
           \/ Minute

OtpSpec == OtpInit /\ [][OtpNext]_otpVars

------------------------------------------------------------------------------
(* However logins, resent codes and slow mails interleave, a code signs one    *)
(* session in, only while it is the pending one, within ten minutes of the     *)
(* password that asked for it, and after at most OTP_MAX_ATTEMPTS - 1 others;  *)
(* once it has, or is replaced, it never becomes the pending one again.        *)
OneLoginPerCode ==
    [][/\ \A c \in signed' \ signed :
             c = pending /\ age[c] < OTP_EXPIRES_IN /\ attempts[c] < OTP_MAX_ATTEMPTS
       /\ pending' # pending => pending' \notin signed'
       /\ \A c \in Codes : attempts'[c] <= OTP_MAX_ATTEMPTS
       /\ \A c \in signed : attempts'[c] = attempts[c]]_otpVars
==============================================================================
