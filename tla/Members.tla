-------------------------------- MODULE Members --------------------------------
(***************************************************************************)
(* A member's own rows: the saved places and the reward claims of          *)
(* services/me.py and repositories/me.py, and the passports of             *)
(* services/passport.py, whose collected badges make a reward eligible.    *)
(*                                                                         *)
(* A request is a transaction of two steps: what it reads comes from its   *)
(* snapshot, except the row an administrator locks; what it writes meets   *)
(* the rows and the unique keys of the moment.  Several requests of one    *)
(* member run at the same time.                                            *)
(***************************************************************************)
EXTENDS Integers, FiniteSets

CONSTANTS Users, Passports, Activities, Requests,
          Milestones, Required,   \* RewardMilestone, REWARD_BADGES
          Status,                 \* RewardClaimStatus, bounded to those told apart
          MaxSaves,               \* bound: rows of saved_activities ever made
          Null

VARIABLES owner,     \* passport -> its user, Null before and after it exists
          badges,    \* passport -> how many badges it has collected
          claims,    \* <<user, milestone>> -> its row, the unique key
          places,    \* activity -> "shown", "hidden" or "gone"
          saved,     \* <<user, activity>> -> the id of its row, 0 for none
          made,      \* ids of saved_activities given out
          request

membersVars == <<owner, badges, claims, places, saved, made, request>>

MembersInit ==
    /\ owner \in [Passports -> Users \cup {Null}]
    /\ \A p, q \in Passports : owner[p] = owner[q] /\ owner[p] # Null => p = q
    /\ badges = [p \in Passports |-> 0]
    /\ claims = [k \in Users \X Milestones |-> Null]
    /\ places = [a \in Activities |-> "shown"]
    /\ saved = [k \in Users \X Activities |-> 0]
    /\ made = 0
    /\ request = [r \in Requests |-> Null]

------------------------------------------------------------------------------
Has(u) == {p \in Passports : owner[p] = u}
badge_count(u) == IF Has(u) = {} THEN 0 ELSE badges[CHOOSE p \in Has(u) : TRUE]

Begin(r, call) == request[r] = Null /\ request' = [request EXCEPT ![r] = call]
Serves(r, op) == request[r] # Null /\ request[r].op = op
End(r) == request' = [request EXCEPT ![r] = Null]

(* MeService.claim_reward *)
ClaimRead(r, u, m) ==
    /\ badge_count(u) >= Required[m] /\ claims[u, m] = Null
    /\ Begin(r, [op |-> "claim", key |-> <<u, m>>])
    /\ UNCHANGED <<owner, badges, claims, places, saved, made>>

ClaimWrite(r) ==
    /\ Serves(r, "claim") /\ End(r)
    /\ claims' = IF claims[request[r].key] = Null
                 THEN [claims EXCEPT ![request[r].key] = [status |-> "requested", fulfilled |-> FALSE]]
                 ELSE claims        \* 409: the unique key
    /\ UNCHANGED <<owner, badges, places, saved, made>>

(* MeService.update_reward_claim: the row stays locked until the commit. *)
PatchRead(r, u, m) ==
    /\ claims[u, m] # Null
    /\ \A q \in Requests : Serves(q, "patch") => request[q].key # <<u, m>>
    /\ Begin(r, [op |-> "patch", key |-> <<u, m>>, row |-> claims[u, m]])
    /\ UNCHANGED <<owner, badges, claims, places, saved, made>>

(* The columns that differ from what was read are written. *)
PatchWrite(r, status) ==
    /\ Serves(r, "patch") /\ End(r)
    /\ LET read == request[r].row
           current == claims[request[r].key]
           time == status = "completed"
       IN claims' = [claims EXCEPT ![request[r].key] =
                       [status |-> IF read.status = status THEN current.status ELSE status,
                        fulfilled |-> IF read.fulfilled = time THEN current.fulfilled ELSE time]]
    /\ UNCHANGED <<owner, badges, places, saved, made>>

(* MeService.rewards *)
rewards(u) == {m \in Milestones : badge_count(u) >= Required[m] \/ claims[u, m] # Null}

------------------------------------------------------------------------------
(* MeService.save_activity *)
SaveRead(r, u, a) ==
    /\ places[a] = "shown" /\ saved[u, a] = 0
    /\ Begin(r, [op |-> "save", key |-> <<u, a>>])
    /\ UNCHANGED <<owner, badges, claims, places, saved, made>>

(* 409 also when the place is gone: the foreign key raises the same error. *)
SaveWrite(r) ==
    /\ Serves(r, "save") /\ End(r) /\ made < MaxSaves
    /\ made' = made + 1
    /\ saved' = IF saved[request[r].key] = 0 /\ places[request[r].key[2]] # "gone"
                THEN [saved EXCEPT ![request[r].key] = made + 1] ELSE saved
    /\ UNCHANGED <<owner, badges, claims, places>>

RemoveRead(r, u, a) ==
    /\ saved[u, a] # 0
    /\ Begin(r, [op |-> "remove", key |-> <<u, a>>, id |-> saved[u, a]])
    /\ UNCHANGED <<owner, badges, claims, places, saved, made>>

(* Mutant: whatever row the member has for the place is deleted. *)
RemoveWriteAny(r) ==
    /\ Serves(r, "remove") /\ End(r)
    /\ saved' = [saved EXCEPT ![request[r].key] = 0]
    /\ UNCHANGED <<owner, badges, claims, places, made>>

(* The row that was read is deleted by its id, which may be gone by now. *)
RemoveWrite(r) ==
    /\ Serves(r, "remove") /\ End(r)
    /\ saved' = [saved EXCEPT ![request[r].key] = IF @ = request[r].id THEN 0 ELSE @]
    /\ UNCHANGED <<owner, badges, claims, places, made>>

saved_activities(u) == {a \in Activities : saved[u, a] # 0 /\ places[a] = "shown"}

------------------------------------------------------------------------------
(* PassportService *)
CreateRead(r, u) ==
    /\ Has(u) = {}
    /\ Begin(r, [op |-> "create", user |-> u])
    /\ UNCHANGED <<owner, badges, claims, places, saved, made>>

CreateWrite(r, p) ==
    /\ Serves(r, "create") /\ End(r) /\ owner[p] = Null
    /\ owner' = IF Has(request[r].user) = {} THEN [owner EXCEPT ![p] = request[r].user] ELSE owner
    /\ UNCHANGED <<badges, claims, places, saved, made>>

MoveRead(r, p, u) ==
    /\ owner[p] # Null /\ Has(u) \subseteq {p}
    /\ Begin(r, [op |-> "move", passport |-> p, user |-> u, from |-> owner[p]])
    /\ UNCHANGED <<owner, badges, claims, places, saved, made>>

(* The unique key, or a passport deleted meanwhile: 500, nothing is written. *)
MoveWrite(r) ==
    /\ Serves(r, "move") /\ End(r)
    /\ LET call == request[r]
       IN owner' = IF /\ call.from # call.user
                      /\ owner[call.passport] # Null /\ Has(call.user) = {}
                   THEN [owner EXCEPT ![call.passport] = call.user] ELSE owner
    /\ UNCHANGED <<badges, claims, places, saved, made>>

RemovePassport(p) ==
    /\ owner[p] # Null
    /\ owner' = [owner EXCEPT ![p] = Null]
    /\ badges' = [badges EXCEPT ![p] = 0]
    /\ UNCHANGED <<claims, places, saved, made, request>>

------------------------------------------------------------------------------
(* What approvals and administrators do to badges, the job to places. *)
AwardOrRevoke(p) ==
    /\ owner[p] # Null
    /\ \E n \in {badges[p] - 1, badges[p] + 1} :
          /\ 0 <= n /\ \E m \in Milestones : n <= Required[m]
          /\ badges' = [badges EXCEPT ![p] = n]
    /\ UNCHANGED <<owner, claims, places, saved, made, request>>

ChangePlace(a) ==
    /\ places[a] # "gone"
    /\ \E state \in {"shown", "hidden", "gone"} \ {places[a]} :
          /\ places' = [places EXCEPT ![a] = state]
          /\ saved' = [k \in DOMAIN saved |-> IF state = "gone" /\ k[2] = a THEN 0 ELSE saved[k]]
    /\ UNCHANGED <<owner, badges, claims, made, request>>

MembersNext ==
    \/ \E r \in Requests :
         \/ \E u \in Users, m \in Milestones : ClaimRead(r, u, m) \/ PatchRead(r, u, m)
         \/ ClaimWrite(r)
         \/ \E status \in Status : PatchWrite(r, status)
         \/ \E u \in Users, a \in Activities : SaveRead(r, u, a) \/ RemoveRead(r, u, a)
         \/ SaveWrite(r) \/ RemoveWrite(r)
         \/ \E u \in Users : CreateRead(r, u) \/ \E p \in Passports : MoveRead(r, p, u)
         \/ \E p \in Passports : CreateWrite(r, p)
         \/ MoveWrite(r)
    \/ \E p \in Passports : RemovePassport(p) \/ AwardOrRevoke(p)
    \/ \E a \in Activities : ChangePlace(a)

MembersSpec == MembersInit /\ [][MembersNext]_membersVars

------------------------------------------------------------------------------
(* Whatever else happens, of other requests of the member, of administrators *)
(* and of the job: a reward that was claimed stays claimed and listed, though *)
(* its badges are taken back or its passport is moved or deleted; it has a     *)
(* time of fulfilment exactly when it is completed; and a saved place is lost  *)
(* only with the place or by a removal that read that very row.                *)
NothingTakenBack ==
    [][/\ \A k \in Users \X Milestones :
            /\ claims[k] # Null => claims'[k] # Null /\ k[2] \in rewards(k[1])'
            /\ claims'[k] # Null => claims'[k].fulfilled = (claims'[k].status = "completed")
       /\ \A k \in Users \X Activities : saved'[k] # saved[k] /\ saved[k] # 0 =>
            \/ places'[k[2]] = "gone"
            \/ \E r \in Requests : Serves(r, "remove") /\ request[r].id = saved[k]
                                   /\ request'[r] = Null]_membersVars

==============================================================================
