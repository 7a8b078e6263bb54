------------------------------ MODULE TeeReward ------------------------------
(***************************************************************************)
(* The passport tee reward: app/services/passport_reward.py over           *)
(* app/repositories/passport_reward.py and the two tables of               *)
(* app/models/passport_reward.py.  One campaign row is the lock that       *)
(* serializes the allocation of a bounded number of places; a claim row    *)
(* belongs to a member, carries the number of its place and is later       *)
(* moved along the fulfilment statuses by administrators.                  *)
(*                                                                         *)
(* claimed_count, is_open, claims, accounts and stamps are the committed   *)
(* tables.  A request is a transaction: draft[r] is the row it has read    *)
(* for update or inserted and not committed, pc[r] the place in its        *)
(* handler.  FOR UPDATE row locks are held until commit or rollback.       *)
(***************************************************************************)
EXTENDS Naturals

CONSTANTS Members,        \* everybody who may ever hold an account
          Requests,       \* concurrent HTTP requests (reused after they end)
          Quantity,       \* campaign.quantity
          RequiredStamps, \* campaign.required_stamps
          MaxStamps,      \* bound: distinct stamps a member can collect
          Times,          \* values datetime.now() may return
          Null            \* SQL NULL, a free lock, no draft

ASSUME QuantityAssumption == Quantity \in Nat
ASSUME StampsAssumption == RequiredStamps \in Nat /\ MaxStamps \in Nat
ASSUME NullAssumption == Null \notin Requests \cup Times

VARIABLES
    claimed_count, is_open,        \* the campaign row
    claims,                        \* rows of passport_tee_claims
    accounts,                      \* members whose users row exists
    stamps,                        \* distinct stamps collected, per member
    pc, actor, draft,              \* the requests
    campaign_lock, claim_lock,     \* holders of the row locks
    confirmed,                     \* history: places reported with a 2xx answer
    voided                         \* history: places whose row a deletion removed

tables == <<claimed_count, is_open, claims, accounts, stamps>>
history == <<confirmed, voided>>
vars == <<tables, pc, actor, draft, campaign_lock, claim_lock, history>>

------------------------------------------------------------------------------
(* TeeClaimStatus in declaration order, which is the order update() compares *)
Rank == [requested |-> 1, preparing |-> 2, shipped |-> 3, completed |-> 4]
Status == DOMAIN Rank

Claim == [member : Members, no : 1..Quantity, status : Status,
          fulfilled_at : Times \cup {Null}]
Place == [member : Members, no : 1..Quantity]

PlaceOf(c) == [member |-> c.member, no |-> c.no]
PlacesOf(rows) == {PlaceOf(c) : c \in rows}
AllPlaces == PlacesOf(claims) \cup voided     \* allocated in the campaign's life
ClaimOf(m) == {c \in claims : c.member = m}

Init ==
    /\ claimed_count = 0 /\ is_open = TRUE /\ claims = {}
    /\ accounts = Members
    /\ stamps = [m \in Members |-> 0]
    /\ pc = [r \in Requests |-> "idle"]
    /\ actor = [r \in Requests |-> Null]
    /\ draft = [r \in Requests |-> Null]
    /\ campaign_lock = Null
    /\ claim_lock = [m \in Members |-> Null]
    /\ confirmed = {} /\ voided = {}

------------------------------------------------------------------------------
(* Ends of a transaction: every lock of the request is released and nothing *)
(* of its draft survives unless the caller's action wrote it to the tables. *)
End(r, next) ==
    /\ pc' = [pc EXCEPT ![r] = next]
    /\ draft' = [draft EXCEPT ![r] = Null]
    /\ campaign_lock' = IF campaign_lock = r THEN Null ELSE campaign_lock
    /\ claim_lock' = [m \in Members |-> IF claim_lock[m] = r THEN Null
                                        ELSE claim_lock[m]]
    /\ actor' = [actor EXCEPT ![r] = IF next = "idle" THEN Null ELSE @]

Goto(r, from, to) == pc[r] = from /\ pc' = [pc EXCEPT ![r] = to]

(* The foreign key to users, the two unique keys and the capacity check. *)
Insertable(row) ==
    /\ row.member \in accounts
    /\ \A c \in claims : c.member # row.member /\ c.no # row.no
    /\ row.no <= Quantity

------------------------------------------------------------------------------
(* POST /me/passport-rewards/tee/claim *)

(* A signed token outlives its account, so any member may send a request. *)
Post(r, m) ==
    /\ Goto(r, "idle", "campaign")
    /\ actor' = [actor EXCEPT ![r] = m]
    /\ UNCHANGED <<tables, draft, campaign_lock, claim_lock, history>>

(* Mutant: the campaign row is read without FOR UPDATE. *)
ReadCampaign(r) ==
    /\ Goto(r, "campaign", "own_claim")
    /\ UNCHANGED <<tables, actor, draft, campaign_lock, claim_lock, history>>

LockCampaign(r) ==
    /\ Goto(r, "campaign", "own_claim")
    /\ campaign_lock = Null
    /\ campaign_lock' = r
    /\ UNCHANGED <<tables, actor, draft, claim_lock, history>>

(* own_claim(lock=True) finds a row: the retry is answered with it. *)
ReturnExisting(r) ==
    /\ pc[r] = "own_claim"
    /\ ClaimOf(actor[r]) # {}
    /\ claim_lock[actor[r]] = Null
    /\ confirmed' = confirmed \cup PlacesOf(ClaimOf(actor[r]))
    /\ End(r, "idle")
    /\ UNCHANGED <<tables, voided>>

FirstClaim(r) ==
    /\ Goto(r, "own_claim", "count")
    /\ ClaimOf(actor[r]) = {}
    /\ is_open
    /\ UNCHANGED <<tables, actor, draft, campaign_lock, claim_lock, history>>

(* The 409 answers: reward_closed, not_eligible, sold_out. *)
Refuse(r) ==
    /\ \/ pc[r] = "own_claim" /\ ClaimOf(actor[r]) = {} /\ ~is_open
       \/ pc[r] = "count" /\ stamps[actor[r]] < RequiredStamps
       \/ pc[r] = "count" /\ claimed_count >= Quantity
    /\ End(r, "idle")
    /\ UNCHANGED <<tables, history>>

(* stamp_count is the transaction's first non-locking read: it sees the *)
(* tables as they are now, under the campaign lock.                     *)
Qualify(r) ==
    /\ Goto(r, "count", "create")
    /\ stamps[actor[r]] >= RequiredStamps
    /\ claimed_count < Quantity
    /\ UNCHANGED <<tables, actor, draft, campaign_lock, claim_lock, history>>

NewClaim(r) == [member |-> actor[r], no |-> claimed_count + 1,
                status |-> "requested", fulfilled_at |-> Null]

Create(r) ==
    /\ Goto(r, "create", "commit")
    /\ Insertable(NewClaim(r))
    /\ draft' = [draft EXCEPT ![r] = NewClaim(r)]
    /\ UNCHANGED <<tables, actor, campaign_lock, claim_lock, history>>

(* IntegrityError: the transaction is rolled back before own_claim is reread. *)
CreateFails(r) ==
    /\ pc[r] = "create"
    /\ ~Insertable(NewClaim(r))
    /\ End(r, "reread")
    /\ UNCHANGED <<tables, history>>

(* The row found is answered; finding none is the 409 claim_conflict. *)
Reread(r) ==
    /\ pc[r] = "reread"
    /\ confirmed' = confirmed \cup PlacesOf(ClaimOf(actor[r]))
    /\ End(r, "idle")
    /\ UNCHANGED <<tables, voided>>

(* Mutant: the row is inserted and the counter forgotten. *)
AppliedUncounted(r) ==
    /\ claims' = claims \cup {draft[r]}
    /\ UNCHANGED <<claimed_count, is_open, accounts, stamps>>

Applied(r) ==
    /\ claims' = claims \cup {draft[r]}
    /\ claimed_count' = draft[r].no
    /\ UNCHANGED <<is_open, accounts, stamps>>

(* Mutant: the answer is sent first, whatever becomes of the commit. *)
AnswerThenCommit(r) ==
    /\ pc[r] = "commit"
    /\ Applied(r) \/ UNCHANGED tables
    /\ confirmed' = confirmed \cup {PlaceOf(draft[r])}
    /\ End(r, "idle")
    /\ UNCHANGED voided

(* The explicit commit() precedes the answer. *)
Commit(r) ==
    /\ pc[r] = "commit"
    /\ Applied(r)
    /\ confirmed' = confirmed \cup {PlaceOf(draft[r])}
    /\ End(r, "idle")
    /\ UNCHANGED voided

(* 503: the connection fails during commit(), whose outcome stays unknown to *)
(* the handler; also a committed answer that never reaches the browser.      *)
CommitUnknown(r) ==
    /\ pc[r] = "commit"
    /\ Applied(r) \/ UNCHANGED tables
    /\ End(r, "idle")
    /\ UNCHANGED history

------------------------------------------------------------------------------
(* PATCH /admin/passport-tee-claims/{claim_id} *)

(* Mutant: the claim is read without FOR UPDATE. *)
PatchRead(r, c) ==
    /\ Goto(r, "idle", "patch")
    /\ actor' = [actor EXCEPT ![r] = c.member]
    /\ draft' = [draft EXCEPT ![r] = c]
    /\ UNCHANGED <<tables, campaign_lock, claim_lock, history>>

PatchLock(r, c) ==
    /\ claim_lock[c.member] = Null
    /\ Goto(r, "idle", "patch")
    /\ actor' = [actor EXCEPT ![r] = c.member]
    /\ draft' = [draft EXCEPT ![r] = c]
    /\ claim_lock' = [claim_lock EXCEPT ![c.member] = r]
    /\ UNCHANGED <<tables, campaign_lock, history>>

Updated(c, status, now) ==
    [c EXCEPT !.status = status,
              !.fulfilled_at = IF status = "completed" /\ @ = Null THEN now ELSE @]

PatchCommit(r, status, now) ==
    /\ pc[r] = "patch"
    /\ Rank[status] >= Rank[draft[r].status]
    /\ claims' = {c \in claims : PlaceOf(c) # PlaceOf(draft[r])}
                   \cup {Updated(draft[r], status, now)}
    /\ End(r, "idle")
    /\ UNCHANGED <<claimed_count, is_open, accounts, stamps, history>>

PatchRefuse(r, status) ==
    /\ pc[r] = "patch"
    /\ Rank[status] < Rank[draft[r].status]
    /\ End(r, "idle")
    /\ UNCHANGED <<tables, history>>

(* A crash, a dropped connection, a lock wait timeout: get_session rolls back. *)
Abort(r) ==
    /\ pc[r] # "idle"
    /\ End(r, "idle")
    /\ UNCHANGED <<tables, history>>

------------------------------------------------------------------------------
(* The rest of the system *)

(* The operator opens or closes applications by hand: an UPDATE of the row. *)
Toggle ==
    /\ campaign_lock = Null
    /\ is_open' = ~is_open
    /\ UNCHANGED <<claimed_count, claims, accounts, stamps, pc, actor, draft,
                   campaign_lock, claim_lock, history>>

(* Reviews and administrators add collected stamps; administrators remove some. *)
Collect(m) ==
    /\ m \in accounts
    /\ \E n \in 0..MaxStamps \ {stamps[m]} : stamps' = [stamps EXCEPT ![m] = n]
    /\ UNCHANGED <<claimed_count, is_open, claims, accounts, pc, actor, draft,
                   campaign_lock, claim_lock, history>>

(* Mutant: the claim is deleted and the account kept, so it may claim again. *)
DeleteClaimOnly(m) ==
    /\ m \in accounts
    /\ claim_lock[m] = Null
    /\ \A r \in Requests : pc[r] = "commit" => actor[r] # m
    /\ claims' = claims \ ClaimOf(m)
    /\ voided' = voided \cup PlacesOf(ClaimOf(m))
    /\ UNCHANGED <<accounts, stamps, claimed_count, is_open, pc, actor, draft,
                   campaign_lock, claim_lock, confirmed>>

(* Deleting a users row cascades to the claim and the passport.  It waits for *)
(* the claim row's lock and for the share lock an uncommitted insert holds.   *)
DeleteAccount(m) ==
    /\ m \in accounts
    /\ claim_lock[m] = Null
    /\ \A r \in Requests : pc[r] = "commit" => actor[r] # m
    /\ accounts' = accounts \ {m}
    /\ stamps' = [stamps EXCEPT ![m] = 0]
    /\ claims' = claims \ ClaimOf(m)
    /\ voided' = voided \cup PlacesOf(ClaimOf(m))
    /\ UNCHANGED <<claimed_count, is_open, pc, actor, draft, campaign_lock,
                   claim_lock, confirmed>>

------------------------------------------------------------------------------
Handle(r) ==
    \/ LockCampaign(r) \/ ReturnExisting(r) \/ FirstClaim(r) \/ Refuse(r)
    \/ Qualify(r) \/ Create(r) \/ CreateFails(r) \/ Reread(r)
    \/ Commit(r) \/ CommitUnknown(r)
    \/ \E s \in Status, now \in Times : PatchCommit(r, s, now)
    \/ \E s \in Status : PatchRefuse(r, s)

Arrive(r) == (\E m \in Members : Post(r, m)) \/ (\E c \in claims : PatchLock(r, c))

World == Toggle \/ (\E m \in Members : Collect(m) \/ DeleteAccount(m))

Next == World \/ (\E r \in Requests : Handle(r) \/ Arrive(r) \/ Abort(r))

Spec == Init /\ [][Next]_vars

------------------------------------------------------------------------------
TypeOK ==
    /\ claimed_count \in 0..Quantity
    /\ is_open \in BOOLEAN
    /\ claims \subseteq Claim
    /\ accounts \subseteq Members
    /\ stamps \in [Members -> 0..MaxStamps]
    /\ pc \in [Requests -> {"idle", "campaign", "own_claim", "count", "create",
                            "reread", "commit", "patch"}]
    /\ actor \in [Requests -> Members \cup {Null}]
    /\ draft \in [Requests -> Claim \cup {Null}]
    /\ campaign_lock \in Requests \cup {Null}
    /\ claim_lock \in [Members -> Requests \cup {Null}]
    /\ confirmed \subseteq Place
    /\ voided \subseteq Place

(* The places allocated over the campaign's life, deleted accounts included, *)
(* are numbered 1..claimed_count without a gap or a repetition, so the count *)
(* in the campaign row is exact and at most Quantity places are ever given   *)
(* ("capped at 100 lifetime slots").                                         *)
PlacesNumbered ==
    /\ {p.no : p \in AllPlaces} = 1..claimed_count
    /\ \A p, q \in AllPlaces : p.no = q.no => p = q

(* A member holds at most one place, however many requests were sent, retried *)
(* or answered with an unknown outcome.                                       *)
OnePlacePerMember == \A p, q \in AllPlaces : p.member = q.member => p = q

(* A place reported to the browser stays that member's place for as long as   *)
(* the account exists: nothing is reported before it is persisted.            *)
ConfirmedIsDurable ==
    \A p \in confirmed : p.member \in accounts => p \in PlacesOf(claims)

(* A completed claim, and only a claim that was completed, has a fulfilment   *)
(* time: the status and the time are never written apart.                     *)
FulfilledIffCompleted ==
    \A c \in claims : c.status = "completed" <=> c.fulfilled_at # Null

(* Closing the campaign is immediate: no place is allocated by a step taken   *)
(* while it is closed, not even by a request that saw it open.                *)
NoPlaceWhenClosed ==
    [][PlacesOf(claims') \subseteq PlacesOf(claims) \/ is_open]_vars

(* A claim's status never moves backwards and its fulfilment time, once set,  *)
(* is never rewritten, whatever administrators patch at the same time.        *)
FulfilmentForward ==
    [][\A c \in claims, d \in claims' :
          PlaceOf(c) = PlaceOf(d) =>
             /\ Rank[c.status] <= Rank[d.status]
             /\ c.fulfilled_at # Null => d.fulfilled_at = c.fulfilled_at]_vars

(* Requests, locks and transactions implement the plain allocation of places. *)
Allocation == INSTANCE TeeAllocation WITH taken <- claimed_count, places <- AllPlaces
ImplementsAllocation == Allocation!Spec
==============================================================================
