--------------------------- MODULE TeeReward_proofs ---------------------------
(***************************************************************************)
(* Proofs about TeeReward for every set of members and requests and every  *)
(* Quantity, RequiredStamps and MaxStamps.                                 *)
(***************************************************************************)
EXTENDS TeeReward, TLAPS

(* Who holds which row lock is exactly what the places in the handlers say. *)
LockInv ==
    /\ \A r \in Requests :
          campaign_lock = r <=> pc[r] \in {"own_claim", "count", "create", "commit"}
    /\ \A r \in Requests, m \in Members :
          claim_lock[m] = r <=> pc[r] = "patch" /\ actor[r] = m

(* What a request has established about the tables still holds: the locks it *)
(* took since then have kept every other transaction away.                   *)
RequestInv ==
    \A r \in Requests :
        /\ pc[r] # "idle" => actor[r] \in Members
        /\ pc[r] \in {"count", "create", "commit"} => ClaimOf(actor[r]) = {} /\ is_open
        /\ pc[r] \in {"create", "commit"} => claimed_count < Quantity
        /\ pc[r] = "commit" => actor[r] \in accounts /\ draft[r] = NewClaim(r)
        /\ pc[r] = "patch" => draft[r] \in claims /\ draft[r].member = actor[r]

(* Live claims belong to live accounts, withdrawn places to deleted ones, and *)
(* only allocated places were ever reported.                                  *)
AccountInv ==
    /\ \A c \in claims : c.member \in accounts
    /\ \A p \in voided : p.member \notin accounts
    /\ confirmed \subseteq AllPlaces

RowInv == \A c, d \in claims : c.member = d.member => c = d

(* PlacesNumbered, with the equality of sets spelled out. *)
Numbered ==
    /\ \A p \in AllPlaces : p.no \in 1..claimed_count
    /\ \A n \in 1..claimed_count : \E p \in AllPlaces : p.no = n
    /\ \A p, q \in AllPlaces : p.no = q.no => p = q

IInv == /\ TypeOK /\ LockInv /\ RequestInv /\ AccountInv /\ RowInv
        /\ Numbered /\ OnePlacePerMember /\ FulfilledIffCompleted

------------------------------------------------------------------------------
LEMMA RankType == Rank \in [Status -> 1..4] /\ \A s \in Status : Rank[s] \in Nat
  BY DEF Rank, Status

LEMMA StatusSet == Status = {"requested", "preparing", "shipped", "completed"}
  BY DEF Rank, Status

(* Every value the specification writes has its type. *)
LEMMA TypeInit == Init => TypeOK
  BY QuantityAssumption, StampsAssumption DEF Init, TypeOK

LEMMA EndType ==
  ASSUME TypeOK, NEW r \in Requests, NEW next, End(r, next),
         next \in {"idle", "reread"}
  PROVE  /\ pc' \in [Requests -> {"idle", "campaign", "own_claim", "count", "create",
                                  "reread", "commit", "patch"}]
         /\ actor' \in [Requests -> Members \cup {Null}]
         /\ draft' \in [Requests -> Claim \cup {Null}]
         /\ campaign_lock' \in Requests \cup {Null}
         /\ claim_lock' \in [Members -> Requests \cup {Null}]
  BY DEF TypeOK, End

LEMMA PlacesType ==
  ASSUME NEW rows \in SUBSET Claim PROVE PlacesOf(rows) \subseteq Place
  BY DEF PlacesOf, PlaceOf, Claim, Place

LEMMA NewClaimType ==
  ASSUME TypeOK, NEW r \in Requests, actor[r] \in Members, NewClaim(r).no <= Quantity
  PROVE  NewClaim(r) \in Claim
  BY StatusSet, QuantityAssumption DEF TypeOK, NewClaim, Claim

LEMMA UpdatedType ==
  ASSUME NEW c \in Claim, NEW s \in Status, NEW now \in Times
  PROVE  Updated(c, s, now) \in Claim /\ PlaceOf(Updated(c, s, now)) = PlaceOf(c)
  BY DEF Updated, Claim, PlaceOf

LEMMA DraftType ==
  ASSUME TypeOK, NEW r \in Requests, NewClaim(r).no <= Quantity,
         actor[r] \in Members
  PROVE  NewClaim(r) \in Claim
  BY NewClaimType

(* TypeOK is inductive given that a draft about to be written is a claim. *)
LEMMA TypeNext ==
  ASSUME TypeOK, LockInv, RequestInv, [Next]_vars
  PROVE  TypeOK'
<1>1. CASE UNCHANGED vars
  BY <1>1 DEF vars, tables, history, TypeOK
<1>2. CASE World
  <2>1. CASE Toggle
    BY <2>1 DEF Toggle, TypeOK, history
  <2>2. ASSUME NEW m \in Members, Collect(m) PROVE TypeOK'
    BY <2>2 DEF Collect, TypeOK, history
  <2>3. ASSUME NEW m \in Members, DeleteAccount(m) PROVE TypeOK'
    <3>1. PlacesOf(ClaimOf(m)) \subseteq Place
      BY PlacesType DEF TypeOK, ClaimOf
    <3>2. stamps' \in [Members -> 0..MaxStamps]
      BY <2>3, StampsAssumption DEF DeleteAccount, TypeOK
    <3>3. QED BY <2>3, <3>1, <3>2 DEF DeleteAccount, TypeOK
  <2>4. QED BY <1>2, <2>1, <2>2, <2>3 DEF World
<1>3. ASSUME NEW r \in Requests, Arrive(r) PROVE TypeOK'
  <2>1. ASSUME NEW m \in Members, Post(r, m) PROVE TypeOK'
    BY <2>1 DEF Post, Goto, TypeOK, tables, history
  <2>2. ASSUME NEW c \in claims, PatchLock(r, c) PROVE TypeOK'
    <3>1. c \in Claim /\ c.member \in Members
      BY DEF TypeOK, Claim
    <3>2. QED BY <2>2, <3>1 DEF PatchLock, Goto, TypeOK, tables, history
  <2>3. QED BY <1>3, <2>1, <2>2 DEF Arrive
<1>4. ASSUME NEW r \in Requests, Abort(r) PROVE TypeOK'
  BY <1>4, EndType DEF Abort, TypeOK, tables, history
<1>5. ASSUME NEW r \in Requests, Handle(r) PROVE TypeOK'
  <2>0. PlacesOf(ClaimOf(actor[r])) \subseteq Place
    BY PlacesType DEF TypeOK, ClaimOf
  <2>1. CASE LockCampaign(r)
    BY <2>1 DEF LockCampaign, Goto, TypeOK, tables, history
  <2>2. CASE ReturnExisting(r)
    BY <2>0, <2>2, EndType DEF ReturnExisting, TypeOK, tables
  <2>3. CASE FirstClaim(r)
    BY <2>3 DEF FirstClaim, Goto, TypeOK, tables, history
  <2>4. CASE Refuse(r)
    BY <2>4, EndType DEF Refuse, TypeOK, tables, history
  <2>5. CASE Qualify(r)
    BY <2>5 DEF Qualify, Goto, TypeOK, tables, history
  <2>6. CASE Create(r)
    <3>1. NewClaim(r) \in Claim
      BY <2>6, DraftType DEF Create, Goto, Insertable, RequestInv
    <3>2. QED BY <2>6, <3>1 DEF Create, Goto, TypeOK, tables, history
  <2>7. CASE CreateFails(r)
    BY <2>7, EndType DEF CreateFails, TypeOK, tables, history
  <2>8. CASE Reread(r)
    BY <2>0, <2>8, EndType DEF Reread, TypeOK, tables
  <2>9. ASSUME pc[r] = "commit"
        PROVE  /\ draft[r] \in Claim /\ PlaceOf(draft[r]) \in Place
               /\ draft[r].no \in 0..Quantity
    <3>1. draft[r] = NewClaim(r) /\ actor[r] \in Members /\ claimed_count < Quantity
      BY <2>9 DEF RequestInv
    <3>2. NewClaim(r).no = claimed_count + 1 /\ claimed_count + 1 <= Quantity
      BY <3>1, QuantityAssumption DEF NewClaim, TypeOK
    <3>3. draft[r] \in Claim
      BY <3>1, <3>2, DraftType
    <3>4. QED BY <3>3, QuantityAssumption DEF Claim, PlaceOf, Place
  <2>10. CASE Commit(r)
    BY <2>9, <2>10, EndType DEF Commit, Applied, TypeOK
  <2>11. CASE CommitUnknown(r)
    BY <2>9, <2>11, EndType DEF CommitUnknown, Applied, TypeOK, tables, history
  <2>12. ASSUME NEW s \in Status, NEW now \in Times, PatchCommit(r, s, now)
         PROVE  TypeOK'
    <3>1. draft[r] \in Claim
      BY <2>12 DEF PatchCommit, RequestInv, TypeOK
    <3>2. Updated(draft[r], s, now) \in Claim
      BY <3>1, UpdatedType
    <3>3. QED BY <2>12, <3>2, EndType DEF PatchCommit, TypeOK, history
  <2>13. ASSUME NEW s \in Status, PatchRefuse(r, s) PROVE TypeOK'
    BY <2>13, EndType DEF PatchRefuse, TypeOK, tables, history
  <2>14. QED
    BY <1>5, <2>1, <2>2, <2>3, <2>4, <2>5, <2>6, <2>7, <2>8, <2>10, <2>11, <2>12,
       <2>13 DEF Handle
<1>6. QED BY <1>1, <1>2, <1>3, <1>4, <1>5 DEF Next

------------------------------------------------------------------------------
(* The locks and the places in the handlers move together. *)
LEMMA EndLocks ==
  ASSUME TypeOK, LockInv, NEW r \in Requests, NEW next \in {"idle", "reread"},
         End(r, next)
  PROVE  LockInv'
  BY NullAssumption DEF TypeOK, LockInv, End

LEMMA LockNext ==
  ASSUME TypeOK, LockInv, [Next]_vars
  PROVE  LockInv'
<1>1. CASE UNCHANGED vars
  BY <1>1 DEF vars, LockInv
<1>2. CASE World
  BY <1>2 DEF World, Toggle, Collect, DeleteAccount, LockInv, history
<1>3. ASSUME NEW r \in Requests, Arrive(r) PROVE LockInv'
  <2>1. ASSUME NEW m \in Members, Post(r, m) PROVE LockInv'
    BY <2>1 DEF Post, Goto, TypeOK, LockInv
  <2>2. ASSUME NEW c \in claims, PatchLock(r, c) PROVE LockInv'
    <3>1. c.member \in Members
      BY DEF TypeOK, Claim
    <3>2. QED BY <2>2, <3>1, NullAssumption DEF PatchLock, Goto, TypeOK, LockInv
  <2>3. QED BY <1>3, <2>1, <2>2 DEF Arrive
<1>4. ASSUME NEW r \in Requests, Abort(r) PROVE LockInv'
  BY <1>4, EndLocks DEF Abort
<1>5. ASSUME NEW r \in Requests, Handle(r) PROVE LockInv'
  <2>1. CASE LockCampaign(r)
    BY <2>1, NullAssumption DEF LockCampaign, Goto, TypeOK, LockInv
  <2>2. CASE FirstClaim(r)
    BY <2>2 DEF FirstClaim, Goto, TypeOK, LockInv
  <2>3. CASE Qualify(r)
    BY <2>3 DEF Qualify, Goto, TypeOK, LockInv
  <2>4. CASE Create(r)
    BY <2>4 DEF Create, Goto, TypeOK, LockInv
  <2>5. CASE \E next \in {"idle", "reread"} : End(r, next)
    BY <2>5, EndLocks
  <2>6. QED
    BY <1>5, <2>1, <2>2, <2>3, <2>4, <2>5 DEF Handle, ReturnExisting, Refuse,
       CreateFails, Reread, Commit, CommitUnknown, PatchCommit, PatchRefuse
<1>6. QED BY <1>1, <1>2, <1>3, <1>4, <1>5 DEF Next

------------------------------------------------------------------------------
(* What the three steps that write claim rows do to the allocated places. *)
LEMMA CommitEffect ==
  ASSUME IInv, NEW r \in Requests, pc[r] = "commit", Applied(r), voided' = voided
  PROVE  /\ draft[r] = NewClaim(r) /\ draft[r] \in Claim
         /\ AllPlaces' = AllPlaces \cup {PlaceOf(draft[r])}
         /\ claimed_count' = claimed_count + 1
         /\ claimed_count < Quantity
         /\ \A c \in claims : c.member # actor[r]
         /\ \A p \in AllPlaces : p.member # actor[r]
<1>1. /\ draft[r] = NewClaim(r) /\ claimed_count < Quantity
      /\ actor[r] \in accounts /\ actor[r] \in Members /\ ClaimOf(actor[r]) = {}
  BY DEF IInv, RequestInv
<1>2. NewClaim(r).no <= Quantity
  BY <1>1, QuantityAssumption DEF NewClaim, IInv, TypeOK
<1>3. draft[r] \in Claim
  BY <1>1, <1>2, DraftType DEF IInv
<1>4. \A c \in claims : c.member # actor[r]
  BY <1>1 DEF ClaimOf
<1>5. \A p \in AllPlaces : p.member # actor[r]
  BY <1>1, <1>4 DEF AllPlaces, PlacesOf, PlaceOf, IInv, AccountInv
<1>6. AllPlaces' = AllPlaces \cup {PlaceOf(draft[r])}
  BY DEF Applied, AllPlaces, PlacesOf, PlaceOf
<1>7. claimed_count' = claimed_count + 1
  BY <1>1 DEF Applied, NewClaim
<1>8. QED BY <1>1, <1>3, <1>4, <1>5, <1>6, <1>7

LEMMA PatchEffect ==
  ASSUME IInv, NEW r \in Requests, NEW s \in Status, NEW now \in Times,
         PatchCommit(r, s, now)
  PROVE  /\ draft[r] \in claims /\ draft[r] \in Claim
         /\ \A c \in claims : PlaceOf(c) = PlaceOf(draft[r]) => c = draft[r]
         /\ PlaceOf(Updated(draft[r], s, now)) = PlaceOf(draft[r])
         /\ claims' = (claims \ {draft[r]}) \cup {Updated(draft[r], s, now)}
         /\ PlacesOf(claims)' = PlacesOf(claims)
<1>1. draft[r] \in claims /\ draft[r] \in Claim
  BY DEF PatchCommit, IInv, RequestInv, TypeOK
<1>2. \A c \in claims : PlaceOf(c) = PlaceOf(draft[r]) => c = draft[r]
  BY <1>1 DEF PlaceOf, IInv, RowInv
<1>3. PlaceOf(Updated(draft[r], s, now)) = PlaceOf(draft[r])
  BY <1>1, UpdatedType
<1>4. claims' = (claims \ {draft[r]}) \cup {Updated(draft[r], s, now)}
  BY <1>1, <1>2 DEF PatchCommit
<1>5. PlacesOf(claims)' = PlacesOf(claims)
  BY <1>1, <1>3, <1>4 DEF PlacesOf
<1>6. QED BY <1>1, <1>2, <1>3, <1>4, <1>5

LEMMA DeleteEffect ==
  ASSUME NEW m \in Members, DeleteAccount(m)
  PROVE  AllPlaces' = AllPlaces
  BY DEF DeleteAccount, AllPlaces, PlacesOf, ClaimOf

------------------------------------------------------------------------------
(* A request that holds the campaign lock is the only one past it. *)
LEMMA OneHolder ==
  ASSUME LockInv, NEW q \in Requests, NEW r \in Requests,
         pc[q] \in {"own_claim", "count", "create", "commit"},
         pc[r] \in {"own_claim", "count", "create", "commit"}
  PROVE  q = r
  BY DEF LockInv

LEMMA EndRequest ==
  ASSUME TypeOK, RequestInv, NEW r \in Requests, NEW next \in {"idle", "reread"},
         pc[r] # "idle", End(r, next), UNCHANGED tables
  PROVE  RequestInv'
  BY DEF TypeOK, RequestInv, End, tables, NewClaim, ClaimOf

LEMMA RequestNext ==
  ASSUME IInv, [Next]_vars
  PROVE  RequestInv'
<1> USE DEF IInv
<1>1. CASE UNCHANGED vars
  BY <1>1 DEF vars, tables, RequestInv, NewClaim, ClaimOf
<1>2. CASE World
  <2>1. CASE Toggle
    BY <2>1, NullAssumption DEF Toggle, RequestInv, NewClaim, ClaimOf, LockInv
  <2>2. ASSUME NEW m \in Members, Collect(m) PROVE RequestInv'
    BY <2>2 DEF Collect, RequestInv, NewClaim, ClaimOf
  <2>3. ASSUME NEW m \in Members, DeleteAccount(m) PROVE RequestInv'
    <3>1. \A r \in Requests : pc[r] = "patch" => actor[r] # m
      BY <2>3, NullAssumption DEF DeleteAccount, LockInv
    <3>2. QED BY <2>3, <3>1 DEF DeleteAccount, RequestInv, NewClaim, ClaimOf
  <2>4. QED BY <1>2, <2>1, <2>2, <2>3 DEF World
<1>3. ASSUME NEW r \in Requests, Arrive(r) PROVE RequestInv'
  <2>1. ASSUME NEW m \in Members, Post(r, m) PROVE RequestInv'
    BY <2>1 DEF Post, Goto, TypeOK, RequestInv, NewClaim, ClaimOf, tables
  <2>2. ASSUME NEW c \in claims, PatchLock(r, c) PROVE RequestInv'
    <3>1. c.member \in Members
      BY DEF TypeOK, Claim
    <3>2. QED
      BY <2>2, <3>1 DEF PatchLock, Goto, TypeOK, RequestInv, NewClaim, ClaimOf, tables
  <2>3. QED BY <1>3, <2>1, <2>2 DEF Arrive
<1>4. ASSUME NEW r \in Requests, Abort(r) PROVE RequestInv'
  BY <1>4, EndRequest DEF Abort
<1>5. ASSUME NEW r \in Requests, pc[r] = "commit", Applied(r), End(r, "idle"),
             voided' = voided
      PROVE  RequestInv'
  <2>1. \A q \in Requests \ {r} : pc[q] \notin {"count", "create", "commit"}
    BY <1>5, OneHolder
  <2>2. pc' = [pc EXCEPT ![r] = "idle"] /\ actor' = [actor EXCEPT ![r] = Null]
        /\ draft' = [draft EXCEPT ![r] = Null] /\ claims \subseteq claims'
    BY <1>5 DEF End, Applied
  <2>3. QED BY <2>1, <2>2 DEF TypeOK, RequestInv
<1>6. ASSUME NEW r \in Requests, NEW s \in Status, NEW now \in Times,
             PatchCommit(r, s, now)
      PROVE  RequestInv'
  <2>1. /\ pc' = [pc EXCEPT ![r] = "idle"] /\ actor' = [actor EXCEPT ![r] = Null]
        /\ draft' = [draft EXCEPT ![r] = Null]
        /\ UNCHANGED <<claimed_count, is_open, accounts>> /\ pc[r] = "patch"
    BY <1>6 DEF End, PatchCommit
  <2>2. \A q \in Requests \ {r} : pc[q] = "patch" => draft[q] \in claims'
    <3>1. ASSUME NEW q \in Requests, q # r, pc[q] = "patch" PROVE actor[q] # actor[r]
      BY <3>1, <2>1 DEF LockInv, RequestInv
    <3>2. QED BY <3>1, <2>1, <1>6, PatchEffect DEF RequestInv
  <2>3. \A m : ClaimOf(m) = {} => ClaimOf(m)' = {}
    <3>1. Updated(draft[r], s, now).member = draft[r].member
      BY <1>6, PatchEffect DEF PlaceOf
    <3>2. QED BY <3>1, <1>6, PatchEffect DEF ClaimOf
  <2>4. QED BY <2>1, <2>2, <2>3 DEF TypeOK, RequestInv, NewClaim
<1>7. ASSUME NEW r \in Requests, Handle(r) PROVE RequestInv'
  <2>1. CASE LockCampaign(r)
    BY <2>1 DEF LockCampaign, Goto, TypeOK, RequestInv, NewClaim, ClaimOf, tables
  <2>2. CASE ReturnExisting(r)
    BY <2>2, EndRequest DEF ReturnExisting
  <2>3. CASE FirstClaim(r)
    BY <2>3 DEF FirstClaim, Goto, TypeOK, RequestInv, NewClaim, ClaimOf, tables
  <2>4. CASE Refuse(r)
    BY <2>4, EndRequest DEF Refuse
  <2>5. CASE Qualify(r)
    BY <2>5 DEF Qualify, Goto, TypeOK, RequestInv, NewClaim, ClaimOf, tables
  <2>6. CASE Create(r)
    <3>1. actor[r] \in accounts
      BY <2>6 DEF Create, Insertable, NewClaim
    <3>2. QED
      BY <2>6, <3>1 DEF Create, Goto, TypeOK, RequestInv, NewClaim, ClaimOf, tables
  <2>7. CASE CreateFails(r)
    BY <2>7, EndRequest DEF CreateFails
  <2>8. CASE Reread(r)
    BY <2>8, EndRequest DEF Reread
  <2>9. CASE Commit(r)
    BY <2>9, <1>5 DEF Commit
  <2>10. CASE CommitUnknown(r)
    BY <2>10, <1>5, EndRequest DEF CommitUnknown, history
  <2>11. ASSUME NEW s \in Status, PatchRefuse(r, s) PROVE RequestInv'
    BY <2>11, EndRequest DEF PatchRefuse
  <2>12. QED
    BY <1>7, <1>6, <2>1, <2>2, <2>3, <2>4, <2>5, <2>6, <2>7, <2>8, <2>9, <2>10, <2>11
       DEF Handle
<1>8. QED BY <1>1, <1>2, <1>3, <1>4, <1>7 DEF Next

------------------------------------------------------------------------------
(* Rows and history: what depends on claims, accounts, voided and confirmed. *)
TableInv == AccountInv /\ RowInv /\ Numbered /\ OnePlacePerMember
            /\ FulfilledIffCompleted

LEMMA TableSame ==
  ASSUME TableInv, UNCHANGED <<claims, accounts, claimed_count, voided>>,
         confirmed' \subseteq AllPlaces
  PROVE  TableInv'
  BY DEF TableInv, AccountInv, RowInv, Numbered, OnePlacePerMember,
         FulfilledIffCompleted, AllPlaces, PlacesOf

LEMMA TableCommit ==
  ASSUME IInv, NEW r \in Requests, pc[r] = "commit", Applied(r), voided' = voided,
         confirmed' \subseteq confirmed \cup {PlaceOf(draft[r])}
  PROVE  TableInv'
<1>1. /\ draft[r] = NewClaim(r) /\ draft[r] \in Claim
      /\ AllPlaces' = AllPlaces \cup {PlaceOf(draft[r])}
      /\ claimed_count' = claimed_count + 1
      /\ \A c \in claims : c.member # actor[r]
      /\ \A p \in AllPlaces : p.member # actor[r]
      /\ claimed_count < Quantity
  BY CommitEffect
<1>2. PlaceOf(draft[r]) = [member |-> actor[r], no |-> claimed_count + 1]
  BY <1>1 DEF PlaceOf, NewClaim
<1>3. /\ claims' = claims \cup {draft[r]} /\ accounts' = accounts
      /\ actor[r] \in accounts
  BY DEF Applied, IInv, RequestInv
<1>4. AccountInv'
  BY <1>1, <1>3 DEF AccountInv, IInv, NewClaim
<1>5. RowInv'
  BY <1>1, <1>3 DEF RowInv, IInv, NewClaim
<1>6. claimed_count \in Nat
  BY QuantityAssumption DEF IInv, TypeOK
<1>7. Numbered'
  <2>1. \A p \in AllPlaces : p.no \in 1..claimed_count
    BY DEF IInv, Numbered
  <2>2. \A p \in AllPlaces' : p.no \in 1..claimed_count'
    BY <1>1, <1>2, <1>6, <2>1
  <2>3. \A n \in 1..claimed_count' : \E p \in AllPlaces' : p.no = n
    BY <1>1, <1>2, <1>6 DEF IInv, Numbered
  <2>4. \A p, q \in AllPlaces' : p.no = q.no => p = q
    <3>1. \A p \in AllPlaces : p.no # claimed_count + 1
      BY <2>1, <1>6
    <3>2. QED BY <1>1, <1>2, <3>1 DEF IInv, Numbered
  <2>5. QED BY <2>2, <2>3, <2>4 DEF Numbered
<1>8. OnePlacePerMember'
  BY <1>1, <1>2 DEF IInv, OnePlacePerMember
<1>9. FulfilledIffCompleted'
  BY <1>1, <1>3 DEF FulfilledIffCompleted, IInv, NewClaim
<1>10. QED BY <1>4, <1>5, <1>7, <1>8, <1>9 DEF TableInv

LEMMA TablePatch ==
  ASSUME IInv, NEW r \in Requests, NEW s \in Status, NEW now \in Times,
         PatchCommit(r, s, now)
  PROVE  TableInv'
<1>1. /\ draft[r] \in claims /\ draft[r] \in Claim
      /\ PlaceOf(Updated(draft[r], s, now)) = PlaceOf(draft[r])
      /\ claims' = (claims \ {draft[r]}) \cup {Updated(draft[r], s, now)}
      /\ PlacesOf(claims)' = PlacesOf(claims)
  BY PatchEffect
<1>2. UNCHANGED <<accounts, claimed_count, voided, confirmed>> /\ AllPlaces' = AllPlaces
  BY <1>1 DEF PatchCommit, history, AllPlaces
<1>3. Updated(draft[r], s, now).member = draft[r].member
  BY <1>1 DEF PlaceOf
<1>4. AccountInv' /\ RowInv'
  BY <1>1, <1>2, <1>3 DEF AccountInv, RowInv, IInv
<1>5. Numbered' /\ OnePlacePerMember'
  BY <1>2 DEF Numbered, OnePlacePerMember, IInv
<1>6. FulfilledIffCompleted'
  <2> DEFINE u == Updated(draft[r], s, now)
  <2>1. /\ u.status = s
        /\ u.fulfilled_at = IF s = "completed" /\ draft[r].fulfilled_at = Null
                            THEN now ELSE draft[r].fulfilled_at
    BY <1>1 DEF Updated, Claim
  <2>2. Rank[s] >= Rank[draft[r].status]
    BY DEF PatchCommit
  <2>3. draft[r].status = "completed" => s = "completed"
    BY <2>2, StatusSet DEF Rank
  <2>4. draft[r].status = "completed" <=> draft[r].fulfilled_at # Null
    BY <1>1 DEF IInv, FulfilledIffCompleted
  <2>5. u.status = "completed" <=> u.fulfilled_at # Null
    BY <2>1, <2>3, <2>4, NullAssumption
  <2>6. QED BY <1>1, <2>5 DEF FulfilledIffCompleted, IInv
<1>7. QED BY <1>4, <1>5, <1>6 DEF TableInv

LEMMA TableDelete ==
  ASSUME IInv, NEW m \in Members, DeleteAccount(m)
  PROVE  TableInv'
<1>1. AllPlaces' = AllPlaces
  BY DeleteEffect
<1>2. /\ claims' = {c \in claims : c.member # m} /\ accounts' = accounts \ {m}
      /\ voided' = voided \cup PlacesOf(ClaimOf(m)) /\ confirmed' = confirmed
      /\ claimed_count' = claimed_count
  BY DEF DeleteAccount, ClaimOf
<1>3. \A p \in PlacesOf(ClaimOf(m)) : p.member = m
  BY DEF PlacesOf, PlaceOf, ClaimOf
<1>4. AccountInv' /\ RowInv' /\ FulfilledIffCompleted'
  BY <1>1, <1>2, <1>3 DEF AccountInv, RowInv, FulfilledIffCompleted, IInv
<1>5. Numbered' /\ OnePlacePerMember'
  BY <1>1, <1>2 DEF Numbered, OnePlacePerMember, IInv
<1>6. QED BY <1>4, <1>5 DEF TableInv

LEMMA TableNext ==
  ASSUME IInv, [Next]_vars
  PROVE  TableInv'
<1>1. TableInv
  BY DEF IInv, TableInv
<1>2. confirmed \subseteq AllPlaces
  BY DEF IInv, AccountInv
<1>3. CASE UNCHANGED <<claims, accounts, claimed_count, voided, confirmed>>
  BY <1>1, <1>2, <1>3, TableSame
<1>4. ASSUME NEW r \in Requests, Handle(r) PROVE TableInv'
  <2>1. CASE ReturnExisting(r) \/ Reread(r)
    BY <1>1, <1>2, <2>1, TableSame DEF ReturnExisting, Reread, tables, AllPlaces,
       PlacesOf, ClaimOf
  <2>2. CASE Commit(r)
    BY <2>2, TableCommit DEF Commit
  <2>3. CASE CommitUnknown(r)
    BY <1>3, <2>3, TableCommit DEF CommitUnknown, tables, history
  <2>4. ASSUME NEW s \in Status, NEW now \in Times, PatchCommit(r, s, now)
        PROVE  TableInv'
    BY <2>4, TablePatch
  <2>5. QED
    BY <1>3, <1>4, <2>1, <2>2, <2>3, <2>4 DEF Handle, LockCampaign, FirstClaim, Refuse,
       Qualify, Create, CreateFails, PatchRefuse, tables, history
<1>5. QED
  BY <1>3, <1>4, TableDelete DEF Next, World, Arrive, Toggle, Collect, Post, PatchLock,
     Abort, tables, history, vars

LEMMA InitInv == Init => IInv
<1> SUFFICES ASSUME Init PROVE IInv
  OBVIOUS
<1>1. TypeOK
  BY TypeInit
<1>2. LockInv /\ RequestInv
  BY NullAssumption DEF Init, LockInv, RequestInv
<1>3. AllPlaces = {}
  BY DEF Init, AllPlaces, PlacesOf
<1>4. QED
  BY <1>1, <1>2, <1>3 DEF Init, IInv, AccountInv, RowInv, Numbered, OnePlacePerMember,
     FulfilledIffCompleted

(* The inductive invariant: the tables are consistent, every request holds the *)
(* locks its place in the handler requires, and what it read under them holds. *)
THEOREM Inductive == Spec => []IInv
<1>1. Init => IInv
  BY InitInv
<1>2. IInv /\ [Next]_vars => IInv'
  BY TypeNext, LockNext, RequestNext, TableNext DEF IInv, TableInv
<1>3. QED BY <1>1, <1>2, PTL DEF Spec

(* Type correctness of every variable. *)
THEOREM TypeCorrect == Spec => []TypeOK
  BY Inductive, PTL DEF IInv

(* For every Quantity, the places ever allocated are numbered 1..claimed_count *)
(* without gap or repetition and never exceed the campaign's quantity.         *)
THEOREM PlacesAreNumbered == Spec => [](PlacesNumbered /\ claimed_count <= Quantity)
<1>1. IInv => PlacesNumbered /\ claimed_count <= Quantity
  <2>1. Numbered => PlacesNumbered
    BY DEF Numbered, PlacesNumbered
  <2>2. TypeOK => claimed_count <= Quantity
    BY QuantityAssumption DEF TypeOK
  <2>3. QED BY <2>1, <2>2 DEF IInv
<1>2. QED BY <1>1, Inductive, PTL

(* No interleaving of requests, retries, crashes and deletions gives a member a *)
(* second place.                                                                *)
THEOREM OnePlaceEach == Spec => []OnePlacePerMember
  BY Inductive, PTL DEF IInv

(* A place reported to the member is the member's as long as the account exists. *)
THEOREM ConfirmationIsDurable == Spec => []ConfirmedIsDurable
<1>1. IInv => ConfirmedIsDurable
  BY DEF IInv, AccountInv, ConfirmedIsDurable, AllPlaces
<1>2. QED BY <1>1, Inductive, PTL

(* A fulfilment time is recorded exactly on the completed claims. *)
THEOREM FulfilmentRecorded == Spec => []FulfilledIffCompleted
  BY Inductive, PTL DEF IInv

------------------------------------------------------------------------------
LEMMA ForwardStep ==
  ASSUME IInv, [Next]_vars, NEW c \in claims, NEW d \in claims', PlaceOf(c) = PlaceOf(d)
  PROVE  /\ Rank[c.status] <= Rank[d.status]
         /\ c.fulfilled_at # Null => d.fulfilled_at = c.fulfilled_at
<1> DEFINE Goal == /\ Rank[c.status] <= Rank[d.status]
                   /\ c.fulfilled_at # Null => d.fulfilled_at = c.fulfilled_at
<1>1. c = d => Goal
  BY RankType DEF IInv, TypeOK, Claim
<1>2. \A e \in claims : PlaceOf(c) = PlaceOf(e) => c = e
  BY DEF IInv, RowInv, PlaceOf
<1>3. CASE claims' \subseteq claims
  BY <1>1, <1>2, <1>3
<1>4. ASSUME NEW r \in Requests, pc[r] = "commit", Applied(r), voided' = voided
      PROVE  Goal
  <2>0. draft[r] = NewClaim(r) /\ c.member # actor[r]
    BY <1>4, CommitEffect
  <2>1. claims' = claims \cup {draft[r]} /\ c.member # draft[r].member
    BY <1>4, <2>0 DEF Applied, NewClaim
  <2>2. d # draft[r]
    BY <2>1 DEF PlaceOf
  <2>3. QED BY <1>1, <1>2, <2>1, <2>2
<1>5. ASSUME NEW r \in Requests, NEW s \in Status, NEW now \in Times,
             PatchCommit(r, s, now)
      PROVE  Goal
  <2> DEFINE u == Updated(draft[r], s, now)
  <2>1. /\ draft[r] \in claims /\ draft[r] \in Claim
        /\ PlaceOf(u) = PlaceOf(draft[r])
        /\ claims' = (claims \ {draft[r]}) \cup {u}
    BY <1>5, PatchEffect
  <2>2. CASE d \in claims
    BY <1>1, <1>2, <2>2
  <2>3. CASE d = u
    <3>1. c = draft[r]
      BY <1>2, <2>1, <2>3
    <3>2. /\ u.status = s
          /\ u.fulfilled_at = IF s = "completed" /\ draft[r].fulfilled_at = Null
                              THEN now ELSE draft[r].fulfilled_at
      BY <2>1 DEF Updated, Claim
    <3>3. Rank[draft[r].status] <= Rank[s]
      BY <1>5, <2>1, RankType DEF PatchCommit, Claim
    <3>4. QED BY <2>3, <3>1, <3>2, <3>3
  <2>4. QED BY <2>1, <2>2, <2>3
<1>6. Goal
  BY <1>3, <1>4, <1>5 DEF Next, World, Handle, Arrive, Toggle, Collect, DeleteAccount,
     Post, PatchLock, Abort, LockCampaign, ReturnExisting, FirstClaim, Refuse, Qualify,
     Create, CreateFails, Reread, Commit, CommitUnknown, PatchRefuse, tables, history, vars
<1>7. QED BY <1>6

(* Fulfilment never moves backwards and never loses or rewrites its time. *)
THEOREM FulfilmentNeverBackwards == Spec => FulfilmentForward
<1>1. IInv /\ [Next]_vars =>
        [\A c \in claims, d \in claims' :
            PlaceOf(c) = PlaceOf(d) =>
               /\ Rank[c.status] <= Rank[d.status]
               /\ c.fulfilled_at # Null => d.fulfilled_at = c.fulfilled_at]_vars
  BY ForwardStep
<1>2. QED BY <1>1, Inductive, PTL DEF Spec, FulfilmentForward

LEMMA ClosedStep ==
  ASSUME IInv, [Next]_vars
  PROVE  PlacesOf(claims') \subseteq PlacesOf(claims) \/ is_open
<1>1. CASE claims' \subseteq claims
  BY <1>1 DEF PlacesOf
<1>2. ASSUME NEW r \in Requests, pc[r] = "commit" PROVE is_open
  BY <1>2 DEF IInv, RequestInv
<1>3. ASSUME NEW r \in Requests, NEW s \in Status, NEW now \in Times,
             PatchCommit(r, s, now)
      PROVE  PlacesOf(claims') = PlacesOf(claims)
  <2>1. PlacesOf(claims') = PlacesOf(claims)'
    BY DEF PlacesOf, PlaceOf
  <2>2. QED BY <1>3, <2>1, PatchEffect
<1>4. QED
  BY <1>1, <1>2, <1>3 DEF Next, World, Handle, Arrive, Toggle, Collect, DeleteAccount,
     Post, PatchLock, Abort, LockCampaign, ReturnExisting, FirstClaim, Refuse, Qualify,
     Create, CreateFails, Reread, Commit, CommitUnknown, PatchRefuse, tables, history, vars

(* A closed campaign allocates nothing, not even to a request under way. *)
THEOREM ClosedMeansClosed == Spec => NoPlaceWhenClosed
<1>1. IInv /\ [Next]_vars =>
        [PlacesOf(claims') \subseteq PlacesOf(claims) \/ is_open]_vars
  BY ClosedStep
<1>2. QED BY <1>1, Inductive, PTL DEF Spec, NoPlaceWhenClosed

------------------------------------------------------------------------------
LEMMA AllocationInit == Init => Allocation!Init
  BY DEF Init, Allocation!Init, AllPlaces, PlacesOf

LEMMA AllocationStep ==
  ASSUME IInv, [Next]_vars
  PROVE  [Allocation!Next]_(Allocation!vars)
<1> USE DEF Allocation!vars
<1>1. CASE UNCHANGED <<claims, voided, claimed_count>>
  BY <1>1 DEF AllPlaces, PlacesOf
<1>2. ASSUME NEW m \in Members, DeleteAccount(m) PROVE UNCHANGED Allocation!vars
  BY <1>2, DeleteEffect DEF DeleteAccount
<1>3. ASSUME NEW r \in Requests, pc[r] = "commit", Applied(r), voided' = voided
      PROVE  Allocation!Next
  <2>1. /\ draft[r] = NewClaim(r)
        /\ AllPlaces' = AllPlaces \cup {PlaceOf(draft[r])}
        /\ claimed_count' = claimed_count + 1 /\ claimed_count < Quantity
        /\ \A p \in AllPlaces : p.member # actor[r]
    BY <1>3, CommitEffect
  <2>2. PlaceOf(draft[r]) = [member |-> actor[r], no |-> claimed_count + 1]
    BY <2>1 DEF PlaceOf, NewClaim
  <2>3. actor[r] \in Members
    BY <1>3 DEF IInv, RequestInv
  <2>4. QED BY <2>1, <2>2, <2>3 DEF Allocation!Next, Allocation!Allocate
<1>4. ASSUME NEW r \in Requests, NEW s \in Status, NEW now \in Times,
             PatchCommit(r, s, now)
      PROVE  UNCHANGED Allocation!vars
  BY <1>4, PatchEffect DEF PatchCommit, AllPlaces, history
<1>5. QED
  BY <1>1, <1>2, <1>3, <1>4 DEF Next, World, Handle, Arrive, Toggle, Collect,
     Post, PatchLock, Abort, LockCampaign, ReturnExisting, FirstClaim, Refuse, Qualify,
     Create, CreateFails, Reread, Commit, CommitUnknown, PatchRefuse, tables, history, vars

(* The transactional implementation implements the plain allocation of places. *)
THEOREM Refinement == Spec => ImplementsAllocation
<1>1. Init => Allocation!Init
  BY AllocationInit
<1>2. IInv /\ [Next]_vars => [Allocation!Next]_(Allocation!vars)
  BY AllocationStep
<1>3. QED
  BY <1>1, <1>2, Inductive, PTL DEF Spec, ImplementsAllocation, Allocation!Spec
==============================================================================
