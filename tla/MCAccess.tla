------------------------------- MODULE MCAccess -------------------------------
(***************************************************************************)
(* What members and administrators reach before any mission: sign-up,      *)
(* login and profile (Accounts), the reset of a password, the              *)
(* administrators' code, the request limit and the forecast.  They share   *)
(* no row and no variable, so a behaviour is one of one of them: `part`    *)
(* says which, and the others stay as they began.                          *)
(***************************************************************************)
EXTENDS Accounts, RateLimiter, TLC

CONSTANTS p1, p2,          \* two spots of one cell
          ResetRequests, MaxCodes,
          Browsers, LoginCodes, OTP_EXPIRES_IN, OTP_MAX_ATTEMPTS,
          Spots, Cell, BaseHours, Starts, Minutes, Step, MaxFallbacks

(* The bounds are numbers, codes and hours too, and Null is no code. *)
ASSUME ResetAssumption == MaxCodes \in Nat
ASSUME OtpAssumption == OTP_MAX_ATTEMPTS \in Nat /\ LoginCodes \subseteq Nat /\ Null \notin LoginCodes
ASSUME WeatherAssumption ==
    Starts \subseteq Int /\ Step \in Nat /\ BaseHours \subseteq 0..23

VARIABLES part,
          reset_code, reset_expired, reset_delivered, reset_next, reset_pc,
          reset_mine, reset_retired,
          pending, drawn, age, attempts, waiting, mailing, signed,
          start, now, weather_cache, fallback_cache, answer

Otp == INSTANCE AdminOtp WITH Codes <- LoginCodes
Forecast == INSTANCE Weather
Reset == INSTANCE PasswordReset WITH
    Requests <- ResetRequests, code <- reset_code, expired <- reset_expired,
    delivered <- reset_delivered, next <- reset_next, pc <- reset_pc,
    mine <- reset_mine, retired <- reset_retired

OneCell == [p \in {p1, p2} |-> "cell"]

resetVars == <<reset_code, reset_expired, reset_delivered, reset_next, reset_pc,
               reset_mine, reset_retired>>
otpVars == <<pending, drawn, age, attempts, waiting, mailing, signed>>
weatherVars == <<start, now, weather_cache, fallback_cache, answer>>
accessVars == <<part, vars, resetVars, otpVars, limiterVars, weatherVars>>

AccessInit ==
    /\ part \in {"accounts", "reset", "otp", "limiter", "weather"}
    /\ Init /\ Reset!Init /\ Otp!OtpInit /\ LimiterInit /\ Forecast!WeatherInit
    /\ part # "accounts" => isolation = "REPEATABLE READ"
    /\ part # "weather" => start = CHOOSE s \in Starts : TRUE

AccessNext ==
    /\ part' = part
    /\ \/ part = "accounts" /\ Next
          /\ UNCHANGED <<resetVars, otpVars, limiterVars, weatherVars>>
       \/ part = "reset" /\ Reset!Next
          /\ UNCHANGED <<vars, otpVars, limiterVars, weatherVars>>
       \/ part = "otp" /\ Otp!OtpNext
          /\ UNCHANGED <<vars, resetVars, limiterVars, weatherVars>>
       \/ part = "limiter" /\ LimiterNext
          /\ UNCHANGED <<vars, resetVars, otpVars, weatherVars>>
       \/ part = "weather" /\ Forecast!WeatherNext
          /\ UNCHANGED <<vars, resetVars, otpVars, limiterVars>>

AccessSpec == AccessInit /\ [][AccessNext]_accessVars

(* PasswordReset: the code that may be used is never older than another.    *)
OneValidCode == Reset!OneValidCode
(* PasswordReset: a code in the mailbox is not taken back by a failed mail. *)
DeliveredKept == Reset!DeliveredKept

(* AdminOtp: one code signs in at most once, and while it is pending.       *)
OneLoginPerCode == Otp!OneLoginPerCode
(* Weather: what is answered is no older than the forecast then published.  *)
ForecastIsCurrent == Forecast!ForecastIsCurrent

Symmetry == Permutations(Members) \cup Permutations(Requests)
              \cup Permutations(Emails) \cup Permutations(Names)
===============================================================================
