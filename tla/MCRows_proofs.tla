---------------------------- MODULE MCRows_proofs ----------------------------
(***************************************************************************)
(* Proofs about a member's claims and saved places, the row of a place,    *)
(* the revisions that rewrite missions, the stamp catalogue with its       *)
(* pages, and the recommended course, for every number of members,         *)
(* passports, requests, places, entries and missions.  There is a section  *)
(* for each, which ends in theorems about MCRows, where the other parts    *)
(* only stutter.                                                           *)
(***************************************************************************)
EXTENDS MCRows, FiniteSetTheorems, SequenceTheorems, WellFoundedInduction, TLAPS

(* A behaviour of MCRows is one of each part. *)
LEMMA RowsParts ==
    RowsSpec => /\ Spec /\ Member!MembersSpec /\ Book!CatalogueSpec
                /\ OneItem!Spec /\ Release!MigrationSpec
<1> DEFINE all == <<part, vars, memberVars, bookVars, itemVars, releaseVars>>
<1>1. RowsInit => Init /\ Member!MembersInit /\ Book!CatalogueInit /\ OneItem!Init /\ Release!MigrationInit
  BY DEF RowsInit
<1>2. [RowsNext]_all => [Member!MembersNext]_(Member!membersVars)
  BY DEF RowsNext, memberVars, Member!membersVars
<1>3. [RowsNext]_all => [OneItem!Next]_(OneItem!placeVars)
  BY DEF RowsNext, itemVars, OneItem!placeVars
<1>4. [RowsNext]_all => [Release!MigrationNext]_(Release!migrationVars)
  BY DEF RowsNext, releaseVars, Release!migrationVars
<1>5. [RowsNext]_all => [Book!CatalogueNext]_(Book!catalogueVars)
  BY DEF RowsNext, bookVars, Book!catalogueVars
<1>6. [RowsNext]_all => [Next]_vars
  BY DEF RowsNext
<1>7. QED
  BY <1>1, <1>2, <1>3, <1>4, <1>5, <1>6, PTL
     DEF RowsSpec, Spec, Member!MembersSpec, Book!CatalogueSpec, OneItem!Spec, Release!MigrationSpec

------------------------------------------------------------------------------
(* A member's claims and saved places *)

Claim == [status : ClaimStatus \cup {"requested"}, fulfilled : BOOLEAN]
Keys == Users \X Milestones
(* What a request has read is still so where its write relies on it: the row  *)
(* of a claim that an administrator has locked.                               *)
ClaimRequests ==
    \A r \in Requests :
        /\ Member!Serves(r, "claim") => request[r].key \in Keys
        /\ Member!Serves(r, "patch") =>
              /\ request[r].key \in Keys
              /\ claims[request[r].key] # Null
              /\ request[r].row = claims[request[r].key]
              /\ \A q \in Requests :
                    Member!Serves(q, "patch") /\ request[q].key = request[r].key => q = r

(* A claim has a time of fulfilment exactly when it is completed. *)
Claimed(table) ==
    /\ table \in [Keys -> Claim \cup {Null}]
    /\ \A k \in Keys : table[k] # Null => (table[k].fulfilled <=> table[k].status = "completed")

ClaimInv ==
    /\ Claimed(claims)
    /\ DOMAIN request = Requests
    /\ ClaimRequests

LEMMA ClaimInit == Member!MembersInit => ClaimInv
<1> SUFFICES ASSUME Member!MembersInit PROVE ClaimInv
  OBVIOUS
<1>1. Claimed(claims)
  BY DEF Member!MembersInit, Claimed, Keys
<1>2. DOMAIN request = Requests /\ ClaimRequests
  BY DEF Member!MembersInit, ClaimRequests, Member!Serves
<1>3. QED BY <1>1, <1>2 DEF ClaimInv

(* Requests that neither claim nor patch, and what others do. *)
LEMMA ClaimsAlone ==
  ASSUME ClaimInv, UNCHANGED claims, DOMAIN request' = Requests,
         \A r \in Requests : request'[r] = request[r] \/ request'[r] = Null
                             \/ (request'[r].op # "claim" /\ request'[r].op # "patch")
  PROVE  ClaimInv'
<1>1. \A r \in Requests :
         /\ Member!Serves(r, "claim")' => Member!Serves(r, "claim") /\ request'[r] = request[r]
         /\ Member!Serves(r, "patch")' => Member!Serves(r, "patch") /\ request'[r] = request[r]
  BY DEF Member!Serves
<1>2. ClaimRequests'
  BY <1>1 DEF ClaimInv, ClaimRequests
<1>3. QED BY <1>2 DEF ClaimInv

LEMMA ClaimStepKeeps ==
  ASSUME ClaimInv, [Member!MembersNext]_(Member!membersVars)
  PROVE  ClaimInv'
<1> USE DEF Member!Begin, Member!End
<1>1. ASSUME NEW r \in Requests, NEW u \in Users, NEW m \in Milestones, Member!ClaimRead(r, u, m)
      PROVE  ClaimInv'
  <2>1. /\ UNCHANGED claims /\ DOMAIN request' = Requests
        /\ \A q \in Requests : request'[q] = IF q = r THEN [op |-> "claim", key |-> <<u, m>>]
                                             ELSE request[q]
    BY <1>1 DEF Member!ClaimRead, ClaimInv
  <2>2. \A q \in Requests :
           /\ Member!Serves(q, "patch")' => Member!Serves(q, "patch") /\ request'[q] = request[q]
           /\ Member!Serves(q, "claim")' => request'[q].key \in Keys
    BY <1>1, <2>1 DEF Member!Serves, ClaimInv, ClaimRequests, Keys
  <2>3. ClaimRequests'
    BY <2>1, <2>2 DEF ClaimInv, ClaimRequests
  <2>4. QED BY <2>1, <2>3 DEF ClaimInv
<1>2. ASSUME NEW r \in Requests, NEW u \in Users, NEW m \in Milestones, Member!PatchRead(r, u, m)
      PROVE  ClaimInv'
  <2> DEFINE call == [op |-> "patch", key |-> <<u, m>>, row |-> claims[<<u, m>>]]
  <2>1. /\ UNCHANGED claims /\ DOMAIN request' = Requests
        /\ \A q \in Requests : request'[q] = IF q = r THEN call ELSE request[q]
        /\ claims[<<u, m>>] # Null /\ <<u, m>> \in Keys
        /\ \A q \in Requests : Member!Serves(q, "patch") => request[q].key # <<u, m>>
    BY <1>2 DEF Member!PatchRead, ClaimInv, Keys
  <2>2. call.op = "patch" /\ call.key = <<u, m>> /\ call.row = claims[<<u, m>>]
    OBVIOUS
  <2> HIDE DEF call
  <2>3. \A q \in Requests \ {r} :
           /\ Member!Serves(q, "claim")' <=> Member!Serves(q, "claim")
           /\ Member!Serves(q, "patch")' <=> Member!Serves(q, "patch")
           /\ request'[q] = request[q]
    BY <2>1 DEF Member!Serves
  <2>4. ~Member!Serves(r, "claim")' /\ request'[r] = call
    BY <2>1, <2>2 DEF Member!Serves
  <2>5. ClaimRequests'
    BY <2>1, <2>2, <2>3, <2>4 DEF ClaimInv, ClaimRequests
  <2>6. QED BY <2>1, <2>5 DEF ClaimInv
<1>3. ASSUME NEW r \in Requests, Member!ClaimWrite(r)
      PROVE  ClaimInv'
  <2> DEFINE k == request[r].key
             new == [status |-> "requested", fulfilled |-> FALSE]
  <2>1. /\ k \in Keys /\ Member!Serves(r, "claim")
        /\ claims' = IF claims[k] = Null THEN [claims EXCEPT ![k] = new] ELSE claims
        /\ request' = [request EXCEPT ![r] = Null]
    BY <1>3 DEF Member!ClaimWrite, ClaimInv, ClaimRequests
  <2>2. new \in Claim /\ new.fulfilled = FALSE /\ new.status = "requested"
    BY DEF Claim
  <2> HIDE DEF k, new
  <2>3. \A q \in Requests : Member!Serves(q, "claim")' \/ Member!Serves(q, "patch")' =>
           request'[q] = request[q] /\ q # r
    BY <2>1 DEF Member!Serves, ClaimInv
  <2>4. CASE claims[k] = Null
    <3>1. claims' = [claims EXCEPT ![k] = new]
      BY <2>1, <2>4
    <3>2. ClaimRequests'
      BY <2>1, <2>3, <2>4, <3>1 DEF ClaimInv, ClaimRequests, Member!Serves
    <3>3. Claimed(claims')
      BY <2>1, <2>2, <3>1 DEF ClaimInv, Claimed
    <3>4. QED BY <2>1, <3>2, <3>3 DEF ClaimInv
  <2>5. CASE claims[k] # Null
    BY <2>1, <2>3, <2>5, ClaimsAlone DEF ClaimInv
  <2>6. QED BY <2>4, <2>5
<1>4. ASSUME NEW r \in Requests, NEW status \in ClaimStatus, Member!PatchWrite(r, status)
      PROVE  ClaimInv'
  <2> DEFINE k == request[r].key
             new == [status |-> status, fulfilled |-> status = "completed"]
  <2>1. /\ k \in Keys /\ claims[k] # Null /\ claims[k] \in Claim
        /\ request[r].row = claims[k] /\ Member!Serves(r, "patch")
    BY <1>4 DEF Member!PatchWrite, ClaimInv, ClaimRequests, Claimed
  <2>2. claims' = [claims EXCEPT ![k] = new] /\ request' = [request EXCEPT ![r] = Null]
    <3> DEFINE read == claims[k]
               time == status = "completed"
               put == [status |-> IF read.status = status THEN read.status ELSE status,
                       fulfilled |-> IF read.fulfilled = time THEN read.fulfilled ELSE time]
    <3>1. claims' = [claims EXCEPT ![k] = put] /\ request' = [request EXCEPT ![r] = Null]
      BY <1>4, <2>1 DEF Member!PatchWrite
    <3>2. put = new
      OBVIOUS
    <3>3. QED BY <3>1, <3>2
  <2>3. new \in Claim /\ (new.fulfilled <=> new.status = "completed")
    BY DEF Claim
  <2> HIDE DEF k, new
  <2>4. \A q \in Requests : Member!Serves(q, "claim")' \/ Member!Serves(q, "patch")' =>
           request'[q] = request[q] /\ q # r
    BY <2>2 DEF Member!Serves, ClaimInv
  <2>5. \A q \in Requests : Member!Serves(q, "patch")' =>
           Member!Serves(q, "patch") /\ request[q].key # k
    BY <2>1, <2>4 DEF Member!Serves, ClaimInv, ClaimRequests, k
  <2>6. \A i \in Keys : claims'[i] = IF i = k THEN new ELSE claims[i]
    BY <2>1, <2>2 DEF ClaimInv, Claimed
  <2>7. ClaimRequests'
    BY <2>2, <2>4, <2>5, <2>6 DEF ClaimInv, ClaimRequests, Member!Serves
  <2>8. Claimed(claims')
    BY <2>1, <2>2, <2>3 DEF ClaimInv, Claimed
  <2>9. QED BY <2>2, <2>7, <2>8 DEF ClaimInv
<1>5. ASSUME NEW r \in Requests, NEW u \in Users,
             \/ \E a \in Activities : Member!SaveRead(r, u, a) \/ Member!RemoveRead(r, u, a)
             \/ Member!CreateRead(r, u)
             \/ \E p \in Passports : Member!MoveRead(r, p, u)
      PROVE  ClaimInv'
  <2>1. PICK call : /\ call.op # "claim" /\ call.op # "patch"
                    /\ request' = [request EXCEPT ![r] = call] /\ UNCHANGED claims
    BY <1>5 DEF Member!SaveRead, Member!RemoveRead, Member!CreateRead, Member!MoveRead
  <2>2. QED BY <2>1, ClaimsAlone DEF ClaimInv
<1>6. ASSUME NEW r \in Requests,
             \/ Member!SaveWrite(r) \/ Member!RemoveWrite(r) \/ Member!MoveWrite(r)
             \/ \E p \in Passports : Member!CreateWrite(r, p)
      PROVE  ClaimInv'
  BY <1>6, ClaimsAlone
     DEF Member!SaveWrite, Member!RemoveWrite, Member!MoveWrite, Member!CreateWrite, ClaimInv
<1>7. ASSUME \/ \E p \in Passports : Member!RemovePassport(p) \/ Member!AwardOrRevoke(p)
             \/ \E a \in Activities : Member!ChangePlace(a)
             \/ UNCHANGED Member!membersVars
      PROVE  ClaimInv'
  <2>1. UNCHANGED <<claims, request>>
    BY <1>7 DEF Member!RemovePassport, Member!AwardOrRevoke, Member!ChangePlace, Member!membersVars
  <2>2. QED BY <2>1, ClaimsAlone DEF ClaimInv
<1>8. QED
  BY <1>1, <1>2, <1>3, <1>4, <1>5, <1>6, <1>7 DEF Member!MembersNext
LEMMA ClaimInductive == Member!MembersSpec => []ClaimInv
  BY ClaimInit, ClaimStepKeeps, PTL DEF Member!MembersSpec
(* A claim that is there stays there. *)
LEMMA ClaimsStay ==
  ASSUME ClaimInv, [Member!MembersNext]_(Member!membersVars),
         NEW k \in Keys, claims[k] # Null
  PROVE  claims'[k] # Null
<1>1. ASSUME NEW r \in Requests, Member!ClaimWrite(r)
      PROVE  claims'[k] # Null
  <2> DEFINE key == request[r].key
             new == [status |-> "requested", fulfilled |-> FALSE]
  <2>1. claims' = IF claims[key] = Null THEN [claims EXCEPT ![key] = new] ELSE claims
    BY <1>1 DEF Member!ClaimWrite
  <2> HIDE DEF key, new
  <2>2. QED BY <2>1 DEF ClaimInv, Claimed
<1>2. ASSUME NEW r \in Requests, NEW status \in ClaimStatus, Member!PatchWrite(r, status)
      PROVE  claims'[k] # Null
  <2> DEFINE key == request[r].key
             read == request[r].row
             time == status = "completed"
             new == [status |-> IF read.status = status THEN claims[key].status ELSE status,
                     fulfilled |-> IF read.fulfilled = time THEN claims[key].fulfilled ELSE time]
  <2>1. claims' = [claims EXCEPT ![key] = new]
    BY <1>2 DEF Member!PatchWrite
  <2>2. claims[key] \in Claim
    BY <1>2 DEF Member!PatchWrite, ClaimInv, ClaimRequests, Claimed
  <2>3. new \in Claim
    BY <2>2 DEF Claim
  <2>4. new # Null
    BY <2>3, ClaimAssumption DEF Claim
  <2> HIDE DEF key, new
  <2>5. QED BY <2>1, <2>4 DEF ClaimInv, Claimed
<1>3. CASE UNCHANGED claims
  BY <1>3
<1>4. QED
  BY <1>1, <1>2, <1>3
     DEF Member!MembersNext, Member!ClaimRead, Member!PatchRead, Member!SaveRead,
         Member!RemoveRead, Member!SaveWrite, Member!RemoveWrite, Member!CreateRead,
         Member!MoveRead, Member!CreateWrite, Member!MoveWrite, Member!RemovePassport,
         Member!AwardOrRevoke, Member!ChangePlace, Member!membersVars

SavedInv == DOMAIN saved = Users \X Activities /\ DOMAIN places = Activities

LEMMA SavedInductive == Member!MembersSpec => []SavedInv
<1>1. Member!MembersInit => SavedInv
  BY DEF Member!MembersInit, SavedInv
<1>2. SavedInv /\ [Member!MembersNext]_(Member!membersVars) => SavedInv'
  BY DEF SavedInv, Member!MembersNext, Member!ClaimRead, Member!PatchRead, Member!ClaimWrite,
         Member!PatchWrite, Member!SaveRead, Member!RemoveRead, Member!SaveWrite,
         Member!RemoveWrite, Member!CreateRead, Member!MoveRead, Member!CreateWrite,
         Member!MoveWrite, Member!RemovePassport, Member!AwardOrRevoke, Member!ChangePlace,
         Member!membersVars
<1>3. QED BY <1>1, <1>2, PTL DEF Member!MembersSpec

(* A saved place is lost with the place, or to a removal that read its row. *)
LEMMA SavedStay ==
  ASSUME ClaimInv, SavedInv, [Member!MembersNext]_(Member!membersVars),
         NEW k \in Users \X Activities, saved'[k] # saved[k], saved[k] # 0
  PROVE  \/ places'[k[2]] = "gone"
         \/ \E r \in Requests : Member!Serves(r, "remove") /\ request[r].id = saved[k]
                                /\ request'[r] = Null
<1>1. ASSUME NEW r \in Requests, Member!SaveWrite(r)
      PROVE  FALSE
  <2> DEFINE key == request[r].key
  <2>1. saved' = saved \/ (saved[key] = 0 /\ saved' = [saved EXCEPT ![key] = saves + 1])
    BY <1>1 DEF Member!SaveWrite
  <2> HIDE DEF key
  <2>2. QED BY <2>1 DEF SavedInv
<1>2. ASSUME NEW r \in Requests, Member!RemoveWrite(r)
      PROVE  Member!Serves(r, "remove") /\ request[r].id = saved[k] /\ request'[r] = Null
  <2> DEFINE key == request[r].key
             id == request[r].id
  <2>1. /\ Member!Serves(r, "remove") /\ request' = [request EXCEPT ![r] = Null]
        /\ saved' = [saved EXCEPT ![key] = IF saved[key] = id THEN 0 ELSE saved[key]]
    BY <1>2 DEF Member!RemoveWrite, Member!End
  <2> HIDE DEF key, id
  <2>2. id = saved[k]
    BY <2>1 DEF SavedInv
  <2>3. request'[r] = Null
    BY <2>1 DEF ClaimInv
  <2>4. QED BY <2>1, <2>2, <2>3 DEF id
<1>3. ASSUME NEW a \in Activities, Member!ChangePlace(a)
      PROVE  places'[k[2]] = "gone"
  <2>1. PICK state : /\ places' = [places EXCEPT ![a] = state]
                     /\ saved' = [i \in DOMAIN saved |->
                                    IF state = "gone" /\ i[2] = a THEN 0 ELSE saved[i]]
    BY <1>3 DEF Member!ChangePlace
  <2>2. state = "gone" /\ k[2] = a
    BY <2>1 DEF SavedInv
  <2>3. QED BY <2>1, <2>2 DEF SavedInv
<1>4. CASE UNCHANGED saved
  BY <1>4
<1>5. QED
  BY <1>1, <1>2, <1>3, <1>4
     DEF Member!MembersNext, Member!ClaimRead, Member!PatchRead, Member!SaveRead,
         Member!RemoveRead, Member!ClaimWrite, Member!PatchWrite, Member!CreateRead,
         Member!MoveRead, Member!CreateWrite, Member!MoveWrite, Member!RemovePassport,
         Member!AwardOrRevoke, Member!membersVars

(* However many requests of a member, edits of administrators and changes of   *)
(* the job overlap, a claim stays and stays listed, its time of fulfilment     *)
(* agrees with its status, and a saved place is taken away by nothing but the  *)
(* place's end or a removal of that very row.                                  *)
THEOREM ClaimsAndSavesStand == RowsSpec => NothingTakenBack
<1> DEFINE Unreverted ==
      /\ \A k \in Users \X Milestones :
           /\ claims[k] # Null => claims'[k] # Null /\ k[2] \in Member!rewards(k[1])'
           /\ claims'[k] # Null => claims'[k].fulfilled = (claims'[k].status = "completed")
      /\ \A k \in Users \X Activities : saved'[k] # saved[k] /\ saved[k] # 0 =>
           \/ places'[k[2]] = "gone"
           \/ \E r \in Requests : Member!Serves(r, "remove") /\ request[r].id = saved[k]
                                  /\ request'[r] = Null
<1>1. ASSUME ClaimInv, ClaimInv', SavedInv, [Member!MembersNext]_(Member!membersVars)
      PROVE  Unreverted
  <2>1. ASSUME NEW k \in Users \X Milestones, claims[k] # Null
        PROVE  claims'[k] # Null /\ k[2] \in Member!rewards(k[1])'
    <3>1. claims'[k] # Null
      BY <1>1, <2>1, ClaimsStay DEF Keys
    <3>2. k = <<k[1], k[2]>> /\ k[2] \in Milestones
      OBVIOUS
    <3>3. QED BY <3>1, <3>2 DEF Member!rewards
  <2>2. ASSUME NEW k \in Users \X Milestones, claims'[k] # Null
        PROVE  claims'[k].fulfilled = (claims'[k].status = "completed")
    <3>1. /\ claims'[k].fulfilled <=> claims'[k].status = "completed"
          /\ claims'[k].fulfilled \in BOOLEAN
      BY <1>1, <2>2 DEF ClaimInv, Claimed, Keys, Claim
    <3>2. QED BY <3>1
  <2>3. \A k \in Users \X Activities : saved'[k] # saved[k] /\ saved[k] # 0 =>
           \/ places'[k[2]] = "gone"
           \/ \E r \in Requests : Member!Serves(r, "remove") /\ request[r].id = saved[k]
                                  /\ request'[r] = Null
    BY <1>1, SavedStay
  <2>4. QED BY <2>1, <2>2, <2>3
<1>2. Member!MembersSpec => Member!NothingTakenBack
  <2>1. ClaimInv /\ ClaimInv' /\ SavedInv /\ [Member!MembersNext]_(Member!membersVars)
          => [Unreverted]_(Member!membersVars)
    BY <1>1
  <2>2. QED
    BY <2>1, ClaimInductive, SavedInductive, PTL DEF Member!MembersSpec, Member!NothingTakenBack
<1>3. QED BY <1>2, RowsParts, PTL DEF NothingTakenBack
------------------------------------------------------------------------------
(* The row of a place *)

Columns == {"category", "sport", "summary", "image", "url", "metadata"}
Notes == {"routes", "failed", "notes", "caption"}

(* A row is a record of these columns, and none of them is Null. *)
Row(r) ==
    /\ r = [c \in Columns |-> r[c]]
    /\ r.metadata = [c \in Notes |-> r.metadata[c]]
    /\ r.metadata.notes \in BOOLEAN /\ r.metadata.caption \in BOOLEAN

RowsAreNotNull == \A f : [c \in Columns |-> f[c]] # Null

(* What an item says of its row: routes and the summary of them agree, an item *)
(* of type 15 is an event, a lookup that fails tells no routes, and the notes  *)
(* and the caption are not the provider's.                                     *)
LEMMA ItemRow ==
  ASSUME NEW u, NEW f \in BOOLEAN, NEW g \in BOOLEAN
  PROVE  LET v == OneItem!tourism_item(u, f, g)
         IN  /\ Row(v)
             /\ v.summary[1] = v.metadata.routes
             /\ v.metadata.failed => v.metadata.routes = Null /\ u.type # "15"
             /\ v.category = "event" <=> u.type = "15"
             /\ v.metadata.notes = FALSE /\ v.metadata.caption = FALSE
<1> DEFINE found == IF OneItem!AskedForRoutes(u) /\ ~f THEN OneItem!Routes(u) ELSE Null
           detail == OneItem!AskedForDetail(u, found) /\ ~g
           overview == IF detail /\ OneItem!mountain_candidate(u) THEN u.overview ELSE Null
           sport == OneItem!Sport(u, found, overview)
           category == IF sport # Null THEN "sports" ELSE IF u.type = "15" THEN "event" ELSE "tour"
           summary == <<found, IF found = Null /\ sport = "hiking" THEN overview ELSE Null>>
           url == u.official \/ (detail /\ u.homepage)
           failed == OneItem!AskedForRoutes(u) /\ f
           metadata == [routes |-> found, failed |-> failed, notes |-> FALSE, caption |-> FALSE]
           v == OneItem!tourism_item(u, f, g)
<1>1. v = [category |-> category, sport |-> sport, summary |-> summary, image |-> u.image,
           url |-> url, metadata |-> metadata]
  BY DEF OneItem!tourism_item
<1>2. failed => found = Null /\ u.type # "15"
  BY DEF OneItem!AskedForRoutes
<1>3. category = "event" <=> u.type = "15"
  BY DEF OneItem!Sport
<1>4. summary[1] = found
  OBVIOUS
<1> HIDE DEF found, detail, overview, sport, category, summary, url, failed, v
<1>5. metadata = [c \in Notes |-> metadata[c]]
  BY DEF Notes
<1>6. /\ metadata.routes = found /\ metadata.failed = failed
      /\ metadata.notes = FALSE /\ metadata.caption = FALSE
  OBVIOUS
<1> HIDE DEF metadata
<1>7. v = [c \in Columns |-> v[c]]
  BY <1>1 DEF Columns
<1>8. v.metadata = metadata /\ v.category = category /\ v.summary = summary
  BY <1>1
<1>9. Row(v)
  BY <1>5, <1>6, <1>7, <1>8 DEF Row
<1>10. QED BY <1>2, <1>3, <1>4, <1>6, <1>8, <1>9 DEF v

(* What a refresh writes over a row r that has been read: v is what the item *)
(* says, n what is made of it.                                               *)
Fresh(v) ==
    /\ Row(v) /\ ~v.metadata.notes /\ ~v.metadata.caption
    /\ v.category = "event" => ~v.metadata.failed

Refreshed(r, v, n) ==
    /\ Row(n)
    /\ v.metadata.failed /\ r.metadata.routes # Null =>
          n.metadata.routes = r.metadata.routes /\ n.summary = r.summary
    /\ ~(v.metadata.failed /\ r.metadata.routes # Null) =>
          n.metadata.routes = v.metadata.routes /\ n.summary = v.summary
    /\ n.image = v.image
    /\ v.category = "event" => (r.metadata.notes => n.metadata.notes)
    /\ ~r.metadata.notes => ~n.metadata.notes
    /\ n.category = "event" => v.category = "event" \/ r.category = "event"
    /\ n.metadata.caption => r.metadata.caption /\ r.image = v.image

LEMMA SyncedRow ==
  ASSUME NEW r, NEW v, Row(r), Fresh(v), r # Null
  PROVE  Refreshed(r, v, OneItem!Synced(r, v))
<1> DEFINE k == OneItem!KeptRoutes(r, v)
           n == OneItem!Synced(r, v)
           kept == v.metadata.failed /\ r.metadata.routes # Null
           more == k.category = "event" /\ r.metadata.notes
<1>1. /\ Row(k)
      /\ kept => /\ k.metadata.routes = r.metadata.routes /\ k.summary = r.summary
                 /\ k.category = r.category
      /\ ~kept => /\ k.metadata.routes = v.metadata.routes /\ k.summary = v.summary
                  /\ k.category = v.category
      /\ k.image = v.image
      /\ k.metadata.notes = FALSE /\ k.metadata.caption = FALSE
  <2>1. CASE kept
    <3>1. k = [v EXCEPT !.sport = r.sport, !.category = r.category, !.summary = r.summary,
                        !.metadata.routes = r.metadata.routes]
      BY <2>1 DEF OneItem!KeptRoutes
    <3> DEFINE m == [v.metadata EXCEPT !.routes = r.metadata.routes]
    <3>2. /\ m = [c \in Notes |-> m[c]]
          /\ m.routes = r.metadata.routes /\ m.notes = FALSE /\ m.caption = FALSE
      BY DEF Row, Notes, Fresh
    <3>3. k = [v EXCEPT !.sport = r.sport, !.category = r.category, !.summary = r.summary,
                        !.metadata = m]
      BY <3>1
    <3> HIDE DEF m
    <3>4. k = [c \in Columns |-> k[c]]
      BY <3>3 DEF Row, Columns, Fresh
    <3>5. /\ k.metadata = m /\ k.category = r.category /\ k.summary = r.summary
          /\ k.image = v.image
      BY <3>3 DEF Row, Columns, Fresh
    <3>6. QED BY <2>1, <3>2, <3>4, <3>5 DEF Row
  <2>2. CASE ~kept
    <3>1. k = v
      BY <2>2 DEF OneItem!KeptRoutes
    <3>2. v.metadata.notes = FALSE /\ v.metadata.caption = FALSE /\ Row(v)
      BY DEF Fresh, Row
    <3>3. QED BY <2>2, <3>1, <3>2
  <2>3. QED BY <2>1, <2>2
<1>2. n = IF more THEN [k EXCEPT !.metadata.notes = TRUE,
                                 !.metadata.caption = r.metadata.caption /\ r.image = k.image]
          ELSE k
  BY DEF OneItem!Synced, OneItem!KeptNotes
<1> HIDE DEF k, n
<1>3. CASE more
  <2>1. n = [k EXCEPT !.metadata.notes = TRUE,
                      !.metadata.caption = r.metadata.caption /\ r.image = k.image]
    BY <1>2, <1>3
  <2>2. /\ Row(n) /\ n.metadata.routes = k.metadata.routes /\ n.summary = k.summary
        /\ n.image = k.image /\ n.category = k.category
        /\ n.metadata.notes = TRUE
        /\ n.metadata.caption = (r.metadata.caption /\ r.image = k.image)
    BY <1>1, <2>1 DEF Row, Columns, Notes
  <2>3. n.metadata.caption => r.metadata.caption /\ r.image = v.image
    BY <1>1, <2>2
  <2>4. n.category = "event" => v.category = "event" \/ r.category = "event"
    BY <1>1, <2>2
  <2>5. Refreshed(r, v, n)
    BY <1>1, <1>3, <2>2, <2>3, <2>4 DEF Refreshed
  <2>6. QED BY <2>5 DEF n
<1>4. CASE ~more
  <2>1. n = k
    BY <1>2, <1>4
  <2>2. v.category = "event" => k.category = "event"
    BY <1>1 DEF Fresh
  <2>3. n.category = "event" => v.category = "event" \/ r.category = "event"
    BY <1>1, <2>1
  <2>4. v.category = "event" => ~r.metadata.notes
    BY <1>4, <2>2
  <2>5. ~n.metadata.notes /\ ~n.metadata.caption
    BY <1>1, <2>1
  <2>6. Refreshed(r, v, n)
    BY <1>1, <2>1, <2>3, <2>4, <2>5 DEF Refreshed
  <2>7. QED BY <2>6 DEF n
<1>5. QED BY <1>3, <1>4

(* What the row holds, and what is still so of the row that a run has read. *)
PlaceInv ==
    /\ row # Null =>
          /\ Row(row) /\ row.metadata.routes = told /\ row.summary[1] = told
          /\ row.category = "event" \/ row.metadata.notes => item.type = "15"
    /\ row = Null => told = Null /\ patch = Null
    /\ run # Null =>
          /\ run.read = Null <=> row = Null
          /\ row # Null => /\ Row(run.read)
                           /\ run.read.metadata = row.metadata /\ run.read.summary = row.summary
                           /\ run.read.category = "event" => item.type = "15"
    /\ patch # Null => Row(patch.read) /\ patch.body \in Patches

(* A step keeps the guidance and the notes. *)
Keeps ==
    /\ row' # Null => row'.metadata.routes = told' /\ row'.summary[1] = told'
    /\ row # Null =>
         /\ row.metadata.notes => row'.metadata.notes
         /\ row'.metadata.caption /\ row'.image # row.image => patch # Null /\ patch' = Null
         /\ row'.metadata.caption /\ ~row.metadata.caption => row'.image = Poster

(* The columns of a row after those that differ from what was read are written. *)
LEMMA WrittenRow ==
  ASSUME NEW read, NEW new, Row(row), Row(new),
         RowsAreNotNull, new.metadata = read.metadata \/ row.metadata = read.metadata
  PROVE  LET w == OneItem!Written(read, new)
         IN  /\ Row(w) /\ w # Null
             /\ \A c \in Columns : w[c] = IF new[c] = read[c] THEN row[c] ELSE new[c]
<1> DEFINE w == OneItem!Written(read, new)
<1>1. DOMAIN new = Columns
  BY DEF Row
<1>2. w = [c \in Columns |-> IF new[c] = read[c] THEN row[c] ELSE new[c]]
  BY <1>1 DEF OneItem!Written
<1>3. w = [c \in Columns |-> w[c]]
  BY <1>2
<1>4. \A c \in Columns : w[c] = IF new[c] = read[c] THEN row[c] ELSE new[c]
  BY <1>2
<1> HIDE DEF w
<1>5. w.metadata = row.metadata \/ w.metadata = new.metadata
  BY <1>4 DEF Columns
<1>6. Row(w)
  BY <1>3, <1>5 DEF Row
<1>7. w # Null
  BY <1>3 DEF RowsAreNotNull
<1>8. QED BY <1>4, <1>6, <1>7 DEF w

LEMMA RunWrites ==
  ASSUME PlaceInv, RowsAreNotNull, OneItem!WriteRow
  PROVE  PlaceInv' /\ Keeps
<1>1. PICK f \in BOOLEAN, g \in BOOLEAN :
         LET values == OneItem!tourism_item(item, f, g)
             new == OneItem!Synced(run.read, values)
         IN /\ row' = IF run.read = Null THEN new ELSE OneItem!Written(run.read, new)
            /\ told' = IF values.metadata.failed THEN told ELSE values.metadata.routes
  BY DEF OneItem!WriteRow
<1> DEFINE v == OneItem!tourism_item(item, f, g)
           read == run.read
           new == OneItem!Synced(read, v)
<1>2. /\ row' = IF read = Null THEN new ELSE OneItem!Written(read, new)
      /\ told' = IF v.metadata.failed THEN told ELSE v.metadata.routes
  BY <1>1
<1>3. /\ Row(v)
      /\ v.summary[1] = v.metadata.routes
      /\ v.metadata.failed => v.metadata.routes = Null /\ item.type # "15"
      /\ v.category = "event" <=> item.type = "15"
      /\ v.metadata.notes = FALSE /\ v.metadata.caption = FALSE
  BY ItemRow
<1>4. run # Null /\ run' = Null /\ UNCHANGED <<item, patch>>
  BY DEF OneItem!WriteRow
<1>5. new = OneItem!Synced(read, v)
  OBVIOUS
<1> HIDE DEF v, read, new
<1>6. CASE read = Null
  <2>1. row = Null /\ told = Null /\ patch = Null
    BY <1>4, <1>6 DEF PlaceInv, read
  <2>2. new = v
    BY <1>5, <1>6 DEF OneItem!Synced, OneItem!KeptRoutes, OneItem!KeptNotes
  <2>3. row' = v /\ v # Null
    BY <1>2, <1>3, <1>6, <2>2 DEF Row, RowsAreNotNull
  <2>4. v.metadata.routes = told'
    BY <1>2, <1>3, <2>1
  <2>5. QED BY <1>3, <1>4, <2>1, <2>3, <2>4 DEF PlaceInv, Keeps
<1>7. CASE read # Null
  <2>1. /\ row # Null /\ Row(row) /\ Row(read)
        /\ read.metadata = row.metadata /\ read.summary = row.summary
        /\ row.metadata.routes = told /\ row.summary[1] = told
        /\ read.category = "event" \/ row.category = "event" \/ row.metadata.notes
              => item.type = "15"
    BY <1>4, <1>7 DEF PlaceInv, read
  <2>2. Refreshed(read, v, new)
    <3>1. Fresh(v)
      BY <1>3 DEF Fresh
    <3>2. QED BY <1>5, <1>7, <2>1, <3>1, SyncedRow
  \* the routes and the summary are those of the last lookup that worked
  <2>3. new.metadata.routes = told' /\ new.summary[1] = told'
    BY <1>2, <1>3, <2>1, <2>2 DEF Refreshed
  <2>4. /\ Row(row') /\ row' # Null
        /\ \A c \in Columns : row'[c] = IF new[c] = read[c] THEN row[c] ELSE new[c]
    BY <1>2, <1>7, <2>1, <2>2, WrittenRow DEF Refreshed
  <2>5. row'.metadata = new.metadata /\ row'.summary = new.summary
    BY <2>1, <2>4 DEF Columns, Refreshed
  <2>6. row'.category = "event" => item.type = "15"
    BY <1>3, <2>1, <2>2, <2>4 DEF Columns, Refreshed
  <2>7. row'.metadata.notes => item.type = "15"
    BY <2>1, <2>2, <2>5 DEF Refreshed
  <2>8. PlaceInv'
    BY <1>4, <2>3, <2>4, <2>5, <2>6, <2>7 DEF PlaceInv
  <2>9. row.metadata.notes => row'.metadata.notes
    BY <1>3, <2>1, <2>2, <2>5 DEF Refreshed
  <2>10. row'.metadata.caption => row.metadata.caption /\ row'.image = row.image
    BY <2>1, <2>2, <2>4, <2>5 DEF Columns, Refreshed
  <2>11. QED BY <2>3, <2>5, <2>8, <2>9, <2>10 DEF Keeps
<1>8. QED BY <1>6, <1>7

LEMMA PatchWrites ==
  ASSUME PlaceInv, RowsAreNotNull, OneItem!WritePatch
  PROVE  PlaceInv' /\ Keeps
<1> DEFINE read == patch.read
           edit == patch.body
           new == OneItem!Patched(read, edit)
<1>1. /\ patch # Null /\ patch' = Null /\ UNCHANGED <<item, told, run>>
      /\ row' = OneItem!Written(read, new) \/ row' = row
  BY DEF OneItem!WritePatch
<1>2. /\ row # Null /\ Row(row) /\ Row(read) /\ edit \in Patches
      /\ row.metadata.routes = told /\ row.summary[1] = told
      /\ row.category = "event" \/ row.metadata.notes => item.type = "15"
  BY <1>1 DEF PlaceInv
<1>3. /\ new = [c \in Columns |-> new[c]]
      /\ \A c \in Columns : new[c] = IF c \in DOMAIN edit THEN edit[c] ELSE read[c]
  <2>1. DOMAIN read = Columns
    BY <1>2 DEF Row
  <2>2. new = [c \in Columns |-> IF c \in DOMAIN edit THEN edit[c] ELSE read[c]]
    BY <2>1 DEF OneItem!Patched
  <2>3. QED BY <2>2
<1> HIDE DEF new, read, edit
<1>4. /\ "metadata" \notin DOMAIN edit /\ "summary" \notin DOMAIN edit
      /\ "category" \in DOMAIN edit => edit.category # "event"
  BY <1>2, PatchAssumption
<1>5. new.metadata = read.metadata /\ new.summary = read.summary
  BY <1>3, <1>4 DEF Columns
<1>6. Row(new)
  BY <1>2, <1>3, <1>5 DEF Row
<1>7. CASE row' = OneItem!Written(read, new)
  <2>1. /\ Row(row') /\ row' # Null
        /\ \A c \in Columns : row'[c] = IF new[c] = read[c] THEN row[c] ELSE new[c]
    BY <1>2, <1>5, <1>6, <1>7, WrittenRow
  <2>2. row'.metadata = row.metadata /\ row'.summary = row.summary
    BY <1>5, <2>1 DEF Columns
  <2>3. row'.category = "event" => row.category = "event"
    BY <1>3, <1>4, <2>1 DEF Columns
  <2>4. PlaceInv'
    BY <1>1, <1>2, <2>1, <2>2, <2>3 DEF PlaceInv
  <2>5. QED BY <1>1, <1>2, <2>2, <2>4 DEF Keeps
<1>8. CASE row' = row
  BY <1>1, <1>2, <1>8 DEF PlaceInv, Keeps
<1>9. QED BY <1>1, <1>7, <1>8

LEMMA PlaceStep ==
  ASSUME PlaceInv, RowsAreNotNull, [OneItem!Next]_(OneItem!placeVars)
  PROVE  PlaceInv' /\ (Keeps \/ UNCHANGED OneItem!placeVars)
<1>1. CASE OneItem!StartRun \/ OneItem!FailRun
  BY <1>1 DEF OneItem!StartRun, OneItem!FailRun, PlaceInv, Keeps
<1>2. CASE OneItem!Curate
  <2> DEFINE m == [row.metadata EXCEPT !.notes = TRUE,
                     !.caption = row.image = Poster \/ row.metadata.caption]
  <2>1. /\ run = Null /\ row # Null /\ row.category = "event" /\ UNCHANGED <<item, told, run, patch>>
        /\ row' = [row EXCEPT !.metadata = m]
    BY <1>2 DEF OneItem!Curate
  <2>2. Row(row) /\ row.metadata.routes = told /\ row.summary[1] = told /\ item.type = "15"
    BY <2>1 DEF PlaceInv
  <2>3. /\ m = [c \in Notes |-> m[c]]
        /\ m.routes = told /\ m.notes = TRUE
        /\ m.caption = (row.image = Poster \/ row.metadata.caption)
    BY <2>2 DEF Row, Notes
  <2> HIDE DEF m
  <2>4. row' = [c \in Columns |-> row'[c]]
    BY <2>1, <2>2 DEF Row, Columns
  <2>5. row'.metadata = m /\ row'.image = row.image /\ row'.summary = row.summary
    BY <2>1, <2>2 DEF Row, Columns
  <2>6. Row(row') /\ row' # Null
    BY <2>2, <2>3, <2>4, <2>5 DEF Row, RowsAreNotNull
  <2>7. PlaceInv'
    <3>1. run' = Null /\ (patch' # Null => Row(patch'.read) /\ patch'.body \in Patches)
      BY <2>1 DEF PlaceInv
    <3>2. row'.metadata.routes = told' /\ row'.summary[1] = told' /\ item'.type = "15"
      BY <2>1, <2>2, <2>3, <2>5
    <3>3. row' # Null => /\ Row(row') /\ row'.metadata.routes = told' /\ row'.summary[1] = told'
                         /\ row'.category = "event" \/ row'.metadata.notes => item'.type = "15"
      BY <2>6, <3>2
    <3>4. QED BY <2>1, <2>6, <3>3 DEF PlaceInv
  <2>8. QED BY <2>1, <2>2, <2>3, <2>5, <2>7 DEF Keeps
<1>3. ASSUME NEW b \in Patches, OneItem!ReadPatch(b) PROVE PlaceInv' /\ Keeps
  BY <1>3 DEF OneItem!ReadPatch, PlaceInv, Keeps
<1>4. CASE OneItem!Modify
  BY <1>4 DEF OneItem!Modify, PlaceInv, Keeps
<1>5. CASE UNCHANGED OneItem!placeVars
  BY <1>5 DEF OneItem!placeVars, PlaceInv
<1>6. QED
  BY <1>1, <1>2, <1>3, <1>4, <1>5, RunWrites, PatchWrites DEF OneItem!Next

LEMMA PlaceInductive == ASSUME RowsAreNotNull PROVE OneItem!Spec => []PlaceInv
<1>1. OneItem!Init => PlaceInv
  BY DEF OneItem!Init, PlaceInv
<1>2. QED BY <1>1, PlaceStep, PTL DEF OneItem!Spec

(* Whatever lookups fail, however runs, releases and edits overlap: the row   *)
(* holds what the last lookup that worked has told, an event its organizer's  *)
(* notes, and no run leaves a caption at a picture it is not of.              *)
THEOREM GuidanceAndNotesStand ==
  ASSUME RowsAreNotNull
  PROVE  RowsSpec => NothingErased
<1>1. PlaceInv /\ [OneItem!Next]_(OneItem!placeVars) => [Keeps]_(OneItem!placeVars)
  BY PlaceStep
<1>2. OneItem!Spec => OneItem!NothingErased
  BY <1>1, PlaceInductive, PTL DEF OneItem!Spec, OneItem!NothingErased, Keeps
<1>3. QED BY <1>2, RowsParts, PTL DEF NothingErased
------------------------------------------------------------------------------
(* The revisions *)

Mission(c) == c = [f \in {"published", "closed"} |-> c[f]]

(* A closed certification is of a version that 0050 made, and 0050 is not taken *)
(* back: there is none before it.                                               *)
ClosureInv ==
    /\ version \in Release!Revisions
    /\ courses = [t \in DOMAIN courses |-> courses[t]]
    /\ \A t \in DOMAIN courses :
          Mission(courses[t]) /\ (courses[t].closed => version >= 50)

Closing ==
    \A t \in DOMAIN courses : courses[t].closed =>
        t \in DOMAIN courses' /\ (courses'[t].closed \/ (version = 50 /\ version' = 51))

LEMMA RevisionsAre == Release!Revisions \subseteq Int /\ \A n \in Release!Revisions : n < 50 \/ n \in {50, 51, 52}
  BY DEF Release!Revisions

(* New missions are open. *)
LEMMA MissionsAdded ==
  ASSUME ClosureInv, NEW titles, courses' = Release!WithCourses(titles),
         version' \in Release!Revisions, version' >= version
  PROVE  ClosureInv' /\ Closing
<1>1. /\ courses' = [t \in DOMAIN courses' |-> courses'[t]]
      /\ DOMAIN courses' = DOMAIN courses \cup titles
      /\ \A t \in DOMAIN courses' : courses'[t] = IF t \in DOMAIN courses THEN courses[t]
                                   ELSE [published |-> TRUE, closed |-> FALSE]
  BY DEF Release!WithCourses
<1>2. Mission([published |-> TRUE, closed |-> FALSE])
  BY DEF Mission
<1>3. ASSUME NEW t \in DOMAIN courses' PROVE Mission(courses'[t]) /\ (courses'[t].closed => version' >= 50)
  <2>1. CASE t \in DOMAIN courses
    BY <1>1, <2>1, RevisionsAre DEF ClosureInv
  <2>2. CASE t \notin DOMAIN courses
    BY <1>1, <1>2, <1>3, <2>2
  <2>3. QED BY <2>1, <2>2
<1>4. QED BY <1>1, <1>3 DEF ClosureInv, Closing

(* Before 0050 nothing is closed, whatever missions are left. *)
LEMMA MissionsOpen ==
  ASSUME ClosureInv, version < 50, version' \in Release!Revisions,
         courses' = [t \in DOMAIN courses' |-> courses'[t]],
         DOMAIN courses' \subseteq DOMAIN courses,
         \A t \in DOMAIN courses' : Mission(courses'[t]) /\ courses'[t].closed = courses[t].closed
  PROVE  ClosureInv' /\ Closing
<1>1. \A t \in DOMAIN courses : ~courses[t].closed
  BY RevisionsAre DEF ClosureInv
<1>2. QED BY <1>1 DEF ClosureInv, Closing

LEMMA MissionsSame ==
  ASSUME ClosureInv, UNCHANGED courses, version' \in Release!Revisions,
         version' >= version \/ version' >= 50 \/ version < 50
  PROVE  ClosureInv' /\ Closing
  BY RevisionsAre DEF ClosureInv, Closing

LEMMA ClosureStep ==
  ASSUME ClosureInv, [Release!MigrationNext]_(Release!migrationVars)
  PROVE  ClosureInv' /\ (Closing \/ UNCHANGED Release!migrationVars)
<1> USE DEF Release!Passed
<1>1. CASE Release!Up13 \/ Release!Up15 \/ Release!Up33 \/ Release!Up44
           \/ \E s \in 1..MaxStamps : Release!AddToOwnMission(s)
  <2>1. PICK titles : courses' = Release!WithCourses(titles)
    BY <1>1 DEF Release!Up13, Release!Up15, Release!Up33, Release!Up44, Release!AddMissions,
       Release!AddToOwnMission
  <2>2. version' \in Release!Revisions /\ version' >= version
    BY <1>1 DEF Release!Up13, Release!Up15, Release!Up33, Release!Up44, Release!AddToOwnMission,
       Release!Revisions
  <2>3. QED BY <2>1, <2>2, MissionsAdded
<1>2. CASE Release!Down13 \/ Release!Down15
  <2>1. PICK titles : courses' = [t \in titles |-> courses[t]] /\ titles \subseteq DOMAIN courses
    BY <1>2 DEF Release!Down13, Release!Down15, Release!Restrict
  <2>2. version < 50 /\ version' \in Release!Revisions
    BY <1>2 DEF Release!Down13, Release!Down15, Release!Revisions
  <2>3. \A t \in DOMAIN courses' : Mission(courses'[t]) /\ courses'[t].closed = courses[t].closed
    BY <2>1 DEF ClosureInv
  <2>4. QED BY <2>1, <2>2, <2>3, MissionsOpen
<1>3. CASE Release!Down33 \/ Release!Down44
  <2>1. PICK missions :
           courses' = [t \in DOMAIN courses |->
                         [courses[t] EXCEPT !.published = courses[t].published /\ t \notin missions]]
    BY <1>3 DEF Release!Down33, Release!Down44, Release!Unpublish
  <2>2. version < 50 /\ version' \in Release!Revisions
    BY <1>3 DEF Release!Down33, Release!Down44, Release!Revisions
  <2>3. \A t \in DOMAIN courses' : Mission(courses'[t]) /\ courses'[t].closed = courses[t].closed
    BY <2>1 DEF ClosureInv, Mission
  <2>4. QED BY <2>1, <2>2, <2>3, MissionsOpen
<1>4. CASE Release!Up17 \/ Release!Down17 \/ Release!Up38 \/ Release!Down38
           \/ Release!Down51 \/ Release!Up52
  BY <1>4, MissionsSame
     DEF Release!Up17, Release!Down17, Release!Up38, Release!Down38, Release!Down51,
         Release!Up52, Release!Revisions
<1>5. CASE Release!Up50
  <2>1. /\ version = 44 /\ version' = 50
        /\ courses' = [t \in DOMAIN courses |->
              IF t = "marathon" /\ \E s \in Release!At("marathon") : <<t, s>> \in links
              THEN [courses[t] EXCEPT !.closed = TRUE] ELSE courses[t]]
    BY <1>5 DEF Release!Up50, Release!SetClosed
  <2>2. version' \in Release!Revisions
    BY <2>1 DEF Release!Revisions
  <2>3. \A t \in DOMAIN courses : courses'[t] = [courses[t] EXCEPT !.closed = TRUE]
                                  \/ courses'[t] = courses[t]
    BY <2>1
  <2>4. \A t \in DOMAIN courses : Mission(courses'[t]) /\ (courses[t].closed => courses'[t].closed)
    BY <2>3 DEF ClosureInv, Mission
  <2>5. DOMAIN courses' = DOMAIN courses /\ courses' = [t \in DOMAIN courses' |-> courses'[t]]
    BY <2>1
  <2>6. ClosureInv'
    <3>1. version' >= 50
      BY <2>1
    <3>2. \A t \in DOMAIN courses' : Mission(courses'[t])
      BY <2>4, <2>5
    <3>3. QED BY <2>2, <2>5, <3>1, <3>2 DEF ClosureInv
  <2>7. Closing
    BY <2>1, <2>4, <2>5 DEF Closing
  <2>8. QED BY <2>6, <2>7
<1>6. CASE Release!Up51
  <2>1. /\ version = 50 /\ version' = 51
        /\ courses' = [t \in DOMAIN courses |->
              IF t = "marathon" /\ \E s \in Release!At("marathon") : <<t, s>> \in links
              THEN [courses[t] EXCEPT !.closed = FALSE] ELSE courses[t]]
    BY <1>6 DEF Release!Up51, Release!SetClosed
  <2>2. version' \in Release!Revisions
    BY <2>1 DEF Release!Revisions
  <2>3. \A t \in DOMAIN courses : courses'[t] = [courses[t] EXCEPT !.closed = FALSE]
                                  \/ courses'[t] = courses[t]
    BY <2>1
  <2>4. \A t \in DOMAIN courses : Mission(courses'[t])
    BY <2>3 DEF ClosureInv, Mission
  <2>5. DOMAIN courses' = DOMAIN courses /\ courses' = [t \in DOMAIN courses' |-> courses'[t]]
    BY <2>1
  <2>6. ClosureInv'
    <3>1. version' >= 50
      BY <2>1
    <3>2. \A t \in DOMAIN courses' : Mission(courses'[t])
      BY <2>4, <2>5
    <3>3. QED BY <2>2, <2>5, <3>1, <3>2 DEF ClosureInv
  <2>7. Closing
    BY <2>1, <2>4, <2>5 DEF Closing
  <2>8. QED BY <2>6, <2>7
<1>7. ASSUME Release!Down50 PROVE FALSE
  BY <1>7 DEF Release!Down50, Release!Irreversible
<1>8. ASSUME \/ Release!SeedCatalog \/ Release!AddEventStamp
             \/ \E s \in 1..MaxStamps, m \in Explorers : Release!Submit(m, s) \/ Release!Approve(m, s)
             \/ \E k \in Release!ExplorerKeys : Release!RegisterExplorer(k)
             \/ \E m \in Explorers : Release!EarnExplorer(m)
             \/ UNCHANGED Release!migrationVars
      PROVE  ClosureInv' /\ (Closing \/ UNCHANGED Release!migrationVars)
  <2>1. UNCHANGED <<version, courses>>
    BY <1>8 DEF Release!SeedCatalog, Release!AddEventStamp, Release!Submit, Release!Approve,
       Release!RegisterExplorer, Release!EarnExplorer, Release!migrationVars
  <2>2. QED BY <2>1, MissionsSame, RevisionsAre DEF ClosureInv
<1>9. QED
  BY <1>1, <1>2, <1>3, <1>4, <1>5, <1>6, <1>7, <1>8
     DEF Release!MigrationNext, Release!Upgrade, Release!Downgrade, Release!Service

LEMMA ClosureInductive == Release!MigrationSpec => []ClosureInv
<1>1. Release!MigrationInit => ClosureInv
  BY DEF Release!MigrationInit, ClosureInv, Release!Revisions
<1>2. QED BY <1>1, ClosureStep, PTL DEF Release!MigrationSpec

(* Whatever upgrades and downgrades are run, and whatever the service does    *)
(* between them, a closed certification is opened by 0051 and nothing else.   *)
THEOREM ClosedUntil0051 == RowsSpec => ClosureStands
<1>1. ClosureInv /\ [Release!MigrationNext]_(Release!migrationVars)
        => [Closing]_(Release!migrationVars)
  BY ClosureStep
<1>2. Release!MigrationSpec => Release!ClosureStands
  BY <1>1, ClosureInductive, PTL DEF Release!MigrationSpec, Release!ClosureStands, Closing
<1>3. QED BY <1>2, RowsParts, PTL DEF ClosureStands
------------------------------------------------------------------------------
(* What members have *)

(* The rows of stamps: those at the marathon's place are its own, and an entry *)
(* has one.                                                                    *)
StampRows(table) ==
    /\ table = [s \in DOMAIN table |-> table[s]]
    /\ DOMAIN table \subseteq 1..MaxStamps
    /\ \A s \in DOMAIN table :
          /\ DOMAIN table[s] = {"place", "entry"}
          /\ table[s].entry \in Release!Entries \cup {Null}
          /\ table[s].place = "marathon" => table[s].entry \in {Null, "marathon"}
    /\ \A s, r \in DOMAIN table :
          table[s].entry = table[r].entry /\ table[s].entry # Null => s = r

(* A mission of the revisions is of the stamp of its entry, the marathon's of *)
(* the stamps at its place.                                                   *)
LinkRows(pairs, table) == \A l \in pairs :
    /\ l = <<l[1], l[2]>> /\ l[2] \in DOMAIN table
    /\ l[1] \in Release!Entries \ {"marathon"} => table[l[2]].entry = l[1]
    /\ l[1] = "marathon" => table[l[2]].place = "marathon"

MemberRows ==
    /\ \A e \in earned : e[2] # Null
    /\ \A p \in proofs \cup collected : p = <<p[1], p[2]>>

MissionInv ==
    /\ version \in Release!Revisions
    /\ version = 12 => "marathon" \notin DOMAIN courses
    /\ StampRows(stamps) /\ LinkRows(links, stamps)
    /\ \A l \in links : l[1] \in DOMAIN courses
    /\ MemberRows

(* What an upgrade may not take from a member. *)
ProgressKept == \A m \in Explorers :
    /\ Release!Completed(m) \subseteq Release!Completed(m)'
    /\ Release!HoldsExplorer(m) => Release!HoldsExplorer(m)'
    /\ {p \in proofs : p[1] = m} = {} <=> {p \in proofs' : p[1] = m} = {}

LEMMA NamesDiffer ==
    /\ "marathon" \in Release!Entries /\ "museum" \in Release!Entries
    /\ PhotoMissions \subseteq Release!Entries \ {"marathon", "museum"}
    /\ BadgeMissions \subseteq Release!Entries \ {"marathon", "museum"}
    /\ "own" \notin Release!Entries /\ Null \notin Release!Entries
  BY MissionsAssumption DEF Release!Entries

LEMMA MissionInitially == Release!MigrationInit => MissionInv
<1> SUFFICES ASSUME Release!MigrationInit PROVE MissionInv
  OBVIOUS
<1>1. version = 12 /\ DOMAIN stamps = {} /\ DOMAIN courses = {} /\ links = {} /\ earned = {}
      /\ proofs = {} /\ collected = {} /\ stamps = [s \in {} |-> Null]
  BY DEF Release!MigrationInit
<1>2. StampRows(stamps)
  BY <1>1 DEF StampRows
<1>3. LinkRows(links, stamps) /\ MemberRows
  BY <1>1 DEF LinkRows, MemberRows
<1>4. QED BY <1>1, <1>2, <1>3 DEF MissionInv, Release!Revisions

(* A new stamp is no other's. *)
LEMMA StampMade ==
  ASSUME StampRows(stamps), Release!Free # {}, NEW place, NEW entry \in Release!Entries \cup {Null},
         place = "marathon" => entry \in {Null, "marathon"},
         entry # Null => Release!OfEntry(entry) = {},
         NEW table, table = Release!WithStamp(Release!NewStamp, place, entry)
  PROVE  /\ StampRows(table)
         /\ Release!NewStamp \notin DOMAIN stamps
         /\ DOMAIN table = DOMAIN stamps \cup {Release!NewStamp}
         /\ \A s \in DOMAIN stamps : table[s] = stamps[s]
         /\ table[Release!NewStamp].place = place /\ table[Release!NewStamp].entry = entry
<1> DEFINE new == Release!NewStamp
<1>1. new \in 1..MaxStamps /\ new \notin DOMAIN stamps
  BY DEF Release!NewStamp, Release!Free
<1> HIDE DEF new
<1>2. table = [i \in DOMAIN stamps \cup {new} |->
                  IF i = new THEN [place |-> place, entry |-> entry] ELSE stamps[i]]
  BY DEF Release!WithStamp, new
<1>3. /\ DOMAIN table = DOMAIN stamps \cup {new}
      /\ table = [s \in DOMAIN table |-> table[s]]
      /\ \A s \in DOMAIN stamps : table[s] = stamps[s]
      /\ table[new].place = place /\ table[new].entry = entry
      /\ DOMAIN table[new] = {"place", "entry"}
  BY <1>1, <1>2
<1>4. \A s \in DOMAIN stamps : entry # Null => stamps[s].entry # entry
  BY DEF Release!OfEntry
<1>5. StampRows(table)
  <2>1. DOMAIN table \subseteq 1..MaxStamps
    BY <1>1, <1>3 DEF StampRows
  <2>2. ASSUME NEW s \in DOMAIN table
        PROVE  /\ DOMAIN table[s] = {"place", "entry"}
               /\ table[s].entry \in Release!Entries \cup {Null}
               /\ table[s].place = "marathon" => table[s].entry \in {Null, "marathon"}
    BY <1>3 DEF StampRows
  <2>3. ASSUME NEW s \in DOMAIN table, NEW r \in DOMAIN table,
               table[s].entry = table[r].entry, table[s].entry # Null
        PROVE  s = r
    BY <1>3, <1>4, <2>3 DEF StampRows
  <2>4. QED BY <1>3, <2>1, <2>2, <2>3 DEF StampRows
<1>6. QED BY <1>1, <1>3, <1>5 DEF new

(* The rows of a table whose stamps moved, but not to the marathon's place, or *)
(* which has lost some.                                                        *)
LEMMA StampsMoved ==
  ASSUME StampRows(stamps), NEW table,
         table = [s \in DOMAIN table |-> table[s]], DOMAIN table \subseteq DOMAIN stamps,
         \A s \in DOMAIN table :
            /\ table[s].entry = stamps[s].entry /\ DOMAIN table[s] = {"place", "entry"}
            /\ table[s].place \in {stamps[s].place, table[s].entry}
            /\ table[s].place = "marathon" => table[s].entry \in {Null, "marathon"}
  PROVE  StampRows(table)
  BY DEF StampRows

(* A mission stays completed while its stamps are the ones that are collected. *)
LEMMA StaysCompleted ==
  ASSUME NEW m, NEW t \in Release!Completed(m), t \in DOMAIN courses',
         \E l \in links' : l[1] = t,
         \A l \in links' : l[1] = t => <<m, l[2]>> \in collected'
  PROVE  t \in Release!Completed(m)'
  BY DEF Release!Completed

(* Proofs and badges as they were, and the links of a mission that were there. *)
LEMMA OthersKept ==
  ASSUME UNCHANGED <<proofs, collected, explorer, earned>>,
         DOMAIN courses \subseteq DOMAIN courses',
         \A m \in Explorers : \A t \in Release!Completed(m) :
            /\ \A l \in links : l[1] = t => l \in links'
            /\ \A l \in links' : l[1] = t => <<m, l[2]>> \in collected
  PROVE  ProgressKept
<1> SUFFICES ASSUME NEW m \in Explorers
             PROVE  /\ Release!Completed(m) \subseteq Release!Completed(m)'
                    /\ Release!HoldsExplorer(m) => Release!HoldsExplorer(m)'
  BY DEF ProgressKept
<1>1. ASSUME NEW t \in Release!Completed(m) PROVE t \in Release!Completed(m)'
  <2>1. t \in DOMAIN courses /\ \E l \in links : l[1] = t
    BY <1>1 DEF Release!Completed
  <2>2. QED BY <1>1, <2>1, StaysCompleted
<1>2. Release!HoldsExplorer(m) => Release!HoldsExplorer(m)'
  BY DEF Release!HoldsExplorer
<1>3. QED BY <1>1, <1>2

LEMMA MarathonMade ==
  ASSUME MissionInv, Release!Up13
  PROVE  MissionInv' /\ ProgressKept
<1>1. /\ version = 12 /\ version' = 13
      /\ courses' = Release!WithCourses({"marathon"})
      /\ UNCHANGED <<proofs, collected, explorer, earned>>
  BY DEF Release!Up13, Release!Passed
<1>2. links' = links \cup {<<"marathon", s>> : s \in {i \in DOMAIN stamps' : stamps'[i].place = "marathon"}}
  BY DEF Release!Up13
<1>3. DOMAIN courses' = DOMAIN courses \cup {"marathon"}
  BY <1>1 DEF Release!WithCourses
<1>4. /\ StampRows(stamps') /\ DOMAIN stamps \subseteq DOMAIN stamps'
      /\ \A s \in DOMAIN stamps : stamps'[s] = stamps[s]
  <2>1. CASE stamps' = stamps
    BY <2>1 DEF MissionInv
  <2>2. CASE Release!Free # {} /\ stamps' = Release!WithStamp(Release!NewStamp, "marathon", Null)
    BY <2>2, StampMade DEF MissionInv
  <2>3. QED BY <2>1, <2>2 DEF Release!Up13
<1>5. LinkRows(links', stamps')
  <2>1. \A l \in links : l[2] \in DOMAIN stamps' /\ stamps'[l[2]] = stamps[l[2]]
    BY <1>4 DEF MissionInv, LinkRows
  <2>2. ASSUME NEW l \in links
        PROVE  /\ l = <<l[1], l[2]>> /\ l[2] \in DOMAIN stamps'
               /\ l[1] \in Release!Entries \ {"marathon"} => stamps'[l[2]].entry = l[1]
               /\ l[1] = "marathon" => stamps'[l[2]].place = "marathon"
    BY <2>1 DEF MissionInv, LinkRows
  <2>3. ASSUME NEW s \in DOMAIN stamps', stamps'[s].place = "marathon", NEW l, l = <<"marathon", s>>
        PROVE  /\ l = <<l[1], l[2]>> /\ l[2] \in DOMAIN stamps'
               /\ l[1] \in Release!Entries \ {"marathon"} => stamps'[l[2]].entry = l[1]
               /\ l[1] = "marathon" => stamps'[l[2]].place = "marathon"
    BY <2>3
  <2>4. QED BY <1>2, <2>2, <2>3 DEF LinkRows
<1>6. \A l \in links' : l[1] \in DOMAIN courses'
  BY <1>2, <1>3 DEF MissionInv
<1>7. MissionInv'
  BY <1>1, <1>4, <1>5, <1>6 DEF MissionInv, MemberRows, Release!Revisions
<1>8. ProgressKept
  <2>1. "marathon" \notin DOMAIN courses
    BY <1>1 DEF MissionInv
  <2>2. ASSUME NEW m \in Explorers, NEW t \in Release!Completed(m)
        PROVE  /\ \A l \in links : l[1] = t => l \in links'
               /\ \A l \in links' : l[1] = t => <<m, l[2]>> \in collected
    <3>1. t # "marathon" /\ \A l \in links : l[1] = t => <<m, l[2]>> \in collected
      BY <2>1, <2>2 DEF Release!Completed
    <3>2. QED BY <1>2, <3>1
  <2>3. QED BY <1>1, <1>3, <2>2, OthersKept
<1>9. QED BY <1>7, <1>8

(* The links that a revision makes for missions whose entries' stamps there are, *)
(* wherever it moves them.                                                       *)
LEMMA MissionsMade ==
  ASSUME MissionInv, NEW missions, missions \subseteq Release!Entries \ {"marathon"},
         version' \in Release!Revisions, version' # 12,
         UNCHANGED <<proofs, collected, explorer, earned>>,
         courses' = Release!WithCourses(missions),
         StampRows(stamps'), DOMAIN stamps \subseteq DOMAIN stamps',
         \A s \in DOMAIN stamps :
            /\ stamps'[s].entry = stamps[s].entry
            /\ stamps[s].place = "marathon" => stamps'[s].place = "marathon",
         \A l \in links' : l \in links \/ \E s \in DOMAIN stamps' :
            /\ stamps'[s].entry \in missions
            /\ l = <<stamps'[s].entry, s>>,
         links \subseteq links'
  PROVE  MissionInv' /\ ProgressKept
<1>1. DOMAIN courses' = DOMAIN courses \cup missions
  BY DEF Release!WithCourses
<1>2. ASSUME NEW l \in links'
      PROVE  /\ l = <<l[1], l[2]>> /\ l[2] \in DOMAIN stamps'
             /\ l[1] \in Release!Entries \ {"marathon"} => stamps'[l[2]].entry = l[1]
             /\ l[1] = "marathon" => stamps'[l[2]].place = "marathon"
             /\ l[1] \in DOMAIN courses'
  <2>1. CASE l \in links
    <3>1. l[2] \in DOMAIN stamps
      BY <2>1 DEF MissionInv, LinkRows
    <3>2. QED BY <1>1, <2>1, <3>1 DEF MissionInv, LinkRows
  <2>2. ASSUME NEW s \in DOMAIN stamps', stamps'[s].entry \in missions, l = <<stamps'[s].entry, s>>
        PROVE  /\ l = <<l[1], l[2]>> /\ l[2] \in DOMAIN stamps'
               /\ l[1] \in Release!Entries \ {"marathon"} => stamps'[l[2]].entry = l[1]
               /\ l[1] = "marathon" => stamps'[l[2]].place = "marathon"
               /\ l[1] \in DOMAIN courses'
    BY <1>1, <2>2
  <2>3. QED BY <2>1, <2>2
<1>3. LinkRows(links', stamps') /\ \A l \in links' : l[1] \in DOMAIN courses'
  BY <1>2 DEF LinkRows
<1>4. MissionInv'
  BY <1>3 DEF MissionInv, MemberRows
<1>5. ASSUME NEW m \in Explorers, NEW t \in Release!Completed(m)
      PROVE  /\ \A l \in links : l[1] = t => l \in links'
             /\ \A l \in links' : l[1] = t => <<m, l[2]>> \in collected
  <2>1. \A l \in links : l[1] = t => <<m, l[2]>> \in collected
    BY <1>5 DEF Release!Completed
  <2>2. PICK k \in links : k[1] = t
    BY <1>5 DEF Release!Completed
  <2>3. ASSUME NEW s \in DOMAIN stamps', stamps'[s].entry \in missions, stamps'[s].entry = t
        PROVE  <<m, s>> \in collected
    <3>1. k[2] \in DOMAIN stamps' /\ stamps'[k[2]].entry = t
      BY <1>2, <2>2, <2>3
    <3>2. t # Null
      BY <2>3, NamesDiffer
    <3>3. s = k[2]
      BY <2>3, <3>1, <3>2 DEF StampRows
    <3>4. QED BY <2>1, <2>2, <3>3
  <2>4. ASSUME NEW l \in links', l[1] = t PROVE <<m, l[2]>> \in collected
    BY <2>1, <2>3, <2>4
  <2>5. QED BY <2>4
<1>6. ProgressKept
  BY <1>1, <1>5, OthersKept
<1>7. QED BY <1>4, <1>6

LEMMA MuseumMade ==
  ASSUME MissionInv, Release!Up15
  PROVE  MissionInv' /\ ProgressKept
<1>1. /\ version' = 15 /\ courses' = Release!WithCourses({"museum"})
      /\ UNCHANGED <<proofs, collected, explorer, earned>>
      /\ links' = links \cup {<<"museum", s>> : s \in {i \in DOMAIN stamps' : stamps'[i].entry = "museum"}}
  BY DEF Release!Up15, Release!Passed
<1>2. /\ StampRows(stamps') /\ DOMAIN stamps \subseteq DOMAIN stamps'
      /\ \A s \in DOMAIN stamps :
            /\ stamps'[s].entry = stamps[s].entry
            /\ stamps[s].place = "marathon" => stamps'[s].place = "marathon"
  <2>1. ASSUME NEW s \in Release!OfEntry("museum"), stamps' = Release!Moved(s, "museum")
        PROVE  /\ StampRows(stamps') /\ DOMAIN stamps \subseteq DOMAIN stamps'
               /\ \A r \in DOMAIN stamps :
                     /\ stamps'[r].entry = stamps[r].entry
                     /\ stamps[r].place = "marathon" => stamps'[r].place = "marathon"
    <3>1. s \in DOMAIN stamps /\ stamps[s].entry = "museum"
      BY DEF Release!OfEntry
    <3>2. StampRows(stamps)
      BY DEF MissionInv
    <3>3. stamps' = [stamps EXCEPT ![s].place = "museum"]
      BY <2>1 DEF Release!Moved
    <3>4. DOMAIN stamps' = DOMAIN stamps /\ stamps' = [r \in DOMAIN stamps' |-> stamps'[r]]
          /\ \A r \in DOMAIN stamps \ {s} : stamps'[r] = stamps[r]
      BY <3>2, <3>3 DEF StampRows
    <3>5. DOMAIN stamps'[s] = {"place", "entry"}
          /\ stamps'[s].place = "museum" /\ stamps'[s].entry = "museum"
      BY <3>1, <3>2, <3>3 DEF StampRows
    <3>6. "museum" \notin {Null, "marathon"}
      BY MissionsAssumption
    <3>7. stamps[s].place # "marathon"
      BY <3>1, <3>2, <3>6 DEF StampRows
    <3>8. \A r \in DOMAIN stamps' :
             /\ stamps'[r].entry = stamps[r].entry /\ DOMAIN stamps'[r] = {"place", "entry"}
             /\ stamps'[r].place \in {stamps[r].place, stamps'[r].entry}
             /\ stamps'[r].place = "marathon" => stamps'[r].entry \in {Null, "marathon"}
      BY <3>1, <3>2, <3>4, <3>5, <3>6 DEF StampRows
    <3>9. StampRows(stamps')
      BY <3>2, <3>4, <3>8, StampsMoved
    <3>10. QED BY <3>4, <3>7, <3>8, <3>9
  <2>2. ASSUME Release!OfEntry("museum") = {}, Release!Free # {},
               stamps' = Release!WithStamp(Release!NewStamp, "museum", "museum")
        PROVE  /\ StampRows(stamps') /\ DOMAIN stamps \subseteq DOMAIN stamps'
               /\ \A s \in DOMAIN stamps : stamps'[s] = stamps[s]
    BY <2>2, StampMade, NamesDiffer DEF MissionInv
  <2>3. QED BY <2>1, <2>2 DEF Release!Up15
<1>3. {"museum"} \subseteq Release!Entries \ {"marathon"}
  BY NamesDiffer
<1>4. \A l \in links' : l \in links \/ \E s \in DOMAIN stamps' :
         /\ stamps'[s].entry \in {"museum"}
         /\ l = <<stamps'[s].entry, s>>
  BY <1>1
<1>5. version' \in Release!Revisions /\ version' # 12 /\ links \subseteq links'
  BY <1>1 DEF Release!Revisions
<1>6. QED BY <1>1, <1>2, <1>3, <1>4, <1>5, MissionsMade

LEMMA PhotosMade ==
  ASSUME MissionInv, NEW missions \in {PhotoMissions, BadgeMissions}, Release!AddMissions(missions),
         version' \in Release!Revisions, version' # 12
  PROVE  MissionInv' /\ ProgressKept
<1>1. /\ stamps' = [s \in DOMAIN stamps |-> IF stamps[s].entry \in missions
                      THEN [stamps[s] EXCEPT !.place = stamps[s].entry] ELSE stamps[s]]
      /\ courses' = Release!WithCourses(missions)
      /\ links' = links \cup
            {<<stamps[s].entry, s>> : s \in {i \in DOMAIN stamps : stamps[i].entry \in missions}}
      /\ UNCHANGED <<proofs, collected, explorer, earned>>
  BY DEF Release!AddMissions
<1>2. missions \subseteq Release!Entries \ {"marathon", "museum"} /\ Null \notin missions
  BY NamesDiffer
<1>3. StampRows(stamps)
  BY DEF MissionInv
<1>4. DOMAIN stamps' = DOMAIN stamps /\ stamps' = [s \in DOMAIN stamps' |-> stamps'[s]]
  BY <1>1
<1>5. ASSUME NEW s \in DOMAIN stamps
      PROVE  /\ stamps'[s].entry = stamps[s].entry /\ DOMAIN stamps'[s] = {"place", "entry"}
             /\ stamps'[s].place \in {stamps[s].place, stamps'[s].entry}
             /\ stamps'[s].place = "marathon" => stamps'[s].entry \in {Null, "marathon"}
             /\ stamps[s].place = "marathon" => stamps'[s].place = "marathon"
  <2>1. DOMAIN stamps[s] = {"place", "entry"}
        /\ (stamps[s].place = "marathon" => stamps[s].entry \in {Null, "marathon"})
    BY <1>3 DEF StampRows
  <2>2. CASE stamps[s].entry \in missions
    <3>1. stamps'[s] = [stamps[s] EXCEPT !.place = stamps[s].entry]
      BY <1>1, <2>2
    <3>2. stamps'[s].place = stamps[s].entry /\ stamps'[s].entry = stamps[s].entry
          /\ DOMAIN stamps'[s] = {"place", "entry"}
      BY <2>1, <3>1
    <3>3. stamps[s].entry # "marathon" /\ stamps[s].entry # Null
      BY <1>2, <2>2
    <3>4. QED BY <2>1, <3>2, <3>3
  <2>3. CASE stamps[s].entry \notin missions
    BY <1>1, <2>1, <2>3
  <2>4. QED BY <2>2, <2>3
<1>6. StampRows(stamps')
  BY <1>3, <1>4, <1>5, StampsMoved
<1>7. \A l \in links' : l \in links \/ \E s \in DOMAIN stamps' :
         /\ stamps'[s].entry \in missions
         /\ l = <<stamps'[s].entry, s>>
  BY <1>1, <1>4, <1>5
<1>8. missions \subseteq Release!Entries \ {"marathon"} /\ links \subseteq links'
  BY <1>1, <1>2
<1>9. QED BY <1>1, <1>4, <1>5, <1>6, <1>7, <1>8, MissionsMade

(* The Explorer badge keeps its id under its new key. *)
LEMMA BadgeRenamed ==
  ASSUME MissionInv, Release!Up38
  PROVE  MissionInv' /\ ProgressKept
<1>1. /\ version' = 38 /\ explorer' = Release!Explorer38
      /\ UNCHANGED <<stamps, courses, links, proofs, collected, earned>>
  BY DEF Release!Up38, Release!Passed
<1>2. MissionInv'
  BY <1>1 DEF MissionInv, MemberRows, Release!Revisions
<1>3. ASSUME NEW m \in Explorers
      PROVE  /\ Release!Completed(m) = Release!Completed(m)'
             /\ Release!HoldsExplorer(m) => Release!HoldsExplorer(m)'
  <2>1. Release!Completed(m) = Release!Completed(m)'
    BY <1>1 DEF Release!Completed
  <2>2. ASSUME Release!HoldsExplorer(m) PROVE <<m, explorer'["three_missions"]>> \in earned
    <3>1. \A k \in {"three_missions", "three_regions"} : <<m, explorer[k]>> \in earned => explorer[k] # Null
      BY DEF MissionInv, MemberRows
    <3>2. explorer'["three_missions"] =
             IF Release!Renamed THEN explorer["three_regions"]
             ELSE IF explorer["three_missions"] = Null THEN 2 ELSE explorer["three_missions"]
      BY <1>1 DEF Release!Explorer38
    <3>3. QED BY <2>2, <3>1, <3>2 DEF Release!HoldsExplorer, Release!Renamed
  <2>3. QED BY <1>1, <2>1, <2>2 DEF Release!HoldsExplorer
<1>4. ProgressKept
  BY <1>1, <1>3 DEF ProgressKept
<1>5. QED BY <1>2, <1>4

(* What members have of the place's own stamps becomes the catalogue's. *)
LEMMA OwnStampsMerged ==
  ASSUME MissionInv, Release!Passed(15, 17), NEW c \in DOMAIN stamps, Release!Merge17(c),
         UNCHANGED <<courses, explorer, earned>>
  PROVE  MissionInv' /\ ProgressKept
<1> DEFINE old == Release!EventOwn(stamps)
<1>1. /\ c \in DOMAIN stamps /\ stamps[c].entry = "marathon"
      /\ proofs' = Release!Canonical(proofs, c) /\ collected' = Release!Canonical(collected, c)
      /\ stamps' = [s \in DOMAIN stamps \ old |-> Release!Moved(c, "marathon")[s]]
      /\ links' = {l \in links : l[1] # "marathon" /\ l[2] \notin old}
                     \cup {<<t, c>> : t \in {"marathon"} \cap DOMAIN courses}
  BY DEF Release!Merge17, Release!OfEntry, Release!MoveProgress, Release!Restrict
<1>2. StampRows(stamps) /\ LinkRows(links, stamps) /\ MemberRows
      /\ \A l \in links : l[1] \in DOMAIN courses
  BY DEF MissionInv
<1>3. \A s : s \in old <=> s \in DOMAIN stamps /\ stamps[s].place = "marathon" /\ stamps[s].entry = Null
  BY DEF Release!EventOwn
<1>4. \A pairs : \A x : x \in Release!Canonical(pairs, c) <=>
         \E r \in pairs : x = IF r[2] \in old THEN <<r[1], c>> ELSE r
  BY DEF Release!Canonical
<1> HIDE DEF old
<1>5. "marathon" # Null /\ c \notin old
  BY <1>1, <1>3, MissionsAssumption
<1>6. /\ DOMAIN stamps' = DOMAIN stamps \ old /\ stamps' = [s \in DOMAIN stamps' |-> stamps'[s]]
      /\ \A s \in DOMAIN stamps' \ {c} : stamps'[s] = stamps[s]
      /\ c \in DOMAIN stamps' /\ stamps'[c].place = "marathon" /\ stamps'[c].entry = "marathon"
      /\ DOMAIN stamps'[c] = {"place", "entry"}
  <2>1. DOMAIN stamps[c] = {"place", "entry"}
    BY <1>2 DEF StampRows
  <2>2. stamps'[c] = [stamps[c] EXCEPT !.place = "marathon"]
    BY <1>1, <1>5 DEF Release!Moved
  <2>3. QED BY <1>1, <1>5, <2>1, <2>2 DEF Release!Moved
<1>7. StampRows(stamps')
  <2>1. \A s \in DOMAIN stamps' :
           /\ stamps'[s].entry = stamps[s].entry /\ DOMAIN stamps'[s] = {"place", "entry"}
           /\ stamps'[s].place \in {stamps[s].place, stamps'[s].entry}
           /\ stamps'[s].place = "marathon" => stamps'[s].entry \in {Null, "marathon"}
    BY <1>1, <1>2, <1>6 DEF StampRows
  <2>2. QED BY <1>2, <1>6, <2>1, StampsMoved
<1>8. LinkRows(links', stamps') /\ \A l \in links' : l[1] \in DOMAIN courses'
  <2>1. ASSUME NEW l \in links, l[1] # "marathon", l[2] \notin old
        PROVE  /\ l = <<l[1], l[2]>> /\ l[2] \in DOMAIN stamps'
               /\ l[1] \in Release!Entries \ {"marathon"} => stamps'[l[2]].entry = l[1]
               /\ l[1] \in DOMAIN courses'
    <3>1. l[2] \in DOMAIN stamps' /\ stamps'[l[2]].entry = stamps[l[2]].entry
      BY <1>1, <1>2, <1>6, <2>1 DEF LinkRows
    <3>2. QED BY <1>2, <2>1, <3>1 DEF LinkRows
  <2>2. ASSUME NEW l, l = <<"marathon", c>>, "marathon" \in DOMAIN courses
        PROVE  /\ l = <<l[1], l[2]>> /\ l[2] \in DOMAIN stamps'
               /\ l[1] = "marathon" /\ stamps'[l[2]].place = "marathon"
               /\ l[1] \in DOMAIN courses'
    BY <1>6, <2>2
  <2>3. QED BY <1>1, <2>1, <2>2 DEF LinkRows
<1>9. MemberRows'
  <2>1. ASSUME NEW pairs, \A p \in pairs : p = <<p[1], p[2]>>
        PROVE  \A x \in Release!Canonical(pairs, c) : x = <<x[1], x[2]>>
    BY <1>4, <2>1
  <2>2. QED BY <1>1, <1>2, <2>1 DEF MemberRows
<1>10. MissionInv'
  BY <1>7, <1>8, <1>9 DEF MissionInv, Release!Passed, Release!Revisions
<1>11. ASSUME NEW m \in Explorers, NEW t \in Release!Completed(m)
       PROVE  t \in Release!Completed(m)'
  <2>1. t \in DOMAIN courses' /\ t \in Release!Entries
        /\ \A l \in links : l[1] = t => <<m, l[2]>> \in collected
    BY <1>11 DEF Release!Completed
  <2>2. PICK k \in links : k[1] = t
    BY <1>11 DEF Release!Completed
  <2>3. k[2] \in DOMAIN stamps /\ <<m, k[2]>> \in collected
    BY <1>2, <2>1, <2>2 DEF LinkRows
  <2>4. CASE t = "marathon"
    <3>1. stamps[k[2]].place = "marathon"
      BY <1>2, <2>2, <2>4 DEF LinkRows
    <3>2. stamps[k[2]].entry \in {Null, "marathon"}
      BY <1>2, <2>3, <3>1 DEF StampRows
    <3>3. k[2] \in old \/ k[2] = c
      BY <1>1, <1>2, <1>3, <1>5, <2>3, <3>1, <3>2 DEF StampRows
    <3>4. <<m, c>> \in collected'
      BY <1>1, <1>4, <1>5, <2>3, <3>3
    <3>5. /\ <<t, c>> \in links'
          /\ \A l \in links' : l[1] = t => l[2] = c
      BY <1>1, <2>1, <2>4
    <3>6. QED BY <1>11, <2>1, <3>4, <3>5, StaysCompleted
  <2>5. CASE t # "marathon"
    <3>1. ASSUME NEW l \in links, l[1] = t PROVE l[2] \notin old
      <4>1. stamps[l[2]].entry = t
        BY <1>2, <2>1, <2>5, <3>1 DEF LinkRows
      <4>2. QED BY <1>3, <2>1, <4>1, NamesDiffer
    <3>2. k \in links'
      BY <1>1, <2>2, <2>5, <3>1
    <3>3. ASSUME NEW l \in links', l[1] = t PROVE <<m, l[2]>> \in collected'
      <4>1. l \in links
        BY <1>1, <2>5, <3>3
      <4>2. <<m, l[2]>> \in collected /\ l[2] \notin old
        BY <2>1, <3>1, <3>3, <4>1
      <4>3. QED BY <1>1, <1>4, <4>2
    <3>4. QED BY <1>11, <2>1, <2>2, <3>2, <3>3, StaysCompleted
  <2>6. QED BY <2>4, <2>5
<1>12. ASSUME NEW m \in Explorers
       PROVE  {p \in proofs : p[1] = m} = {} <=> {p \in proofs' : p[1] = m} = {}
  <2>1. ASSUME NEW p \in proofs, p[1] = m PROVE \E q \in proofs' : q[1] = m
    <3>1. CASE p[2] \in old
      <4>1. <<p[1], c>> \in proofs'
        BY <1>1, <1>4, <2>1, <3>1
      <4>2. <<p[1], c>>[1] = m
        BY <2>1
      <4>3. QED BY <4>1, <4>2
    <3>2. CASE p[2] \notin old
      BY <1>1, <1>4, <2>1, <3>2
    <3>3. QED BY <3>1, <3>2
  <2>2. ASSUME NEW q \in proofs', q[1] = m PROVE \E p \in proofs : p[1] = m
    <3>1. PICK r \in proofs : q = IF r[2] \in old THEN <<r[1], c>> ELSE r
      BY <1>1, <1>4, <2>2
    <3>2. r[1] = m
      BY <2>2, <3>1
    <3>3. QED BY <3>2
  <2>3. QED BY <2>1, <2>2
<1>13. \A m : Release!HoldsExplorer(m) => Release!HoldsExplorer(m)'
  BY DEF Release!HoldsExplorer
<1>14. ProgressKept
  BY <1>11, <1>12, <1>13 DEF ProgressKept
<1>15. QED BY <1>10, <1>14

(* The place's own stamp becomes the catalogue's. *)
LEMMA OwnStampPromoted ==
  ASSUME MissionInv, Release!Passed(15, 17), Release!Promote17, UNCHANGED <<courses, explorer, earned>>
  PROVE  MissionInv' /\ ProgressKept
<1> DEFINE own == Release!EventOwn(stamps)
<1>1. /\ Release!OfEntry("marathon") = {} /\ Release!Cardinality(own) <= 1
      /\ stamps' = [s \in DOMAIN stamps |-> IF s \in own
                       THEN [stamps[s] EXCEPT !.entry = "marathon"] ELSE stamps[s]]
      /\ links' = {l \in links : l[1] # "marathon"}
                     \cup {<<t, s>> : t \in {"marathon"} \cap DOMAIN courses, s \in own}
      /\ UNCHANGED <<proofs, collected>>
  BY DEF Release!Promote17
<1>2. StampRows(stamps) /\ LinkRows(links, stamps) /\ MemberRows
      /\ \A l \in links : l[1] \in DOMAIN courses
  BY DEF MissionInv
<1>3. \A s : s \in own <=> s \in DOMAIN stamps /\ stamps[s].place = "marathon" /\ stamps[s].entry = Null
  BY DEF Release!EventOwn
<1>4. \A s \in DOMAIN stamps : stamps[s].entry # "marathon"
  BY <1>1 DEF Release!OfEntry
<1> HIDE DEF own
<1>5. ASSUME NEW s \in own, NEW r \in own PROVE s = r
  <2>1. own \subseteq 1..MaxStamps /\ 1 \in Int /\ MaxStamps \in Int
    BY <1>2, <1>3, MissionsAssumption DEF StampRows
  <2>2. IsFiniteSet(own)
    BY <2>1, FS_Interval, FS_Subset
  <2>3. Cardinality(own) <= 1
    BY <1>1 DEF Release!Cardinality, Cardinality
  <2>4. SUFFICES ASSUME s # r PROVE FALSE
    OBVIOUS
  <2>5. {s, r} \in SUBSET own /\ {s, r} = {s} \cup {r} /\ r \notin {s}
    BY <2>4
  <2>6. IsFiniteSet({s}) /\ Cardinality({s}) = 1
    BY FS_Singleton
  <2>7. Cardinality({s, r}) = 2
    BY <2>5, <2>6, FS_AddElement
  <2>8. Cardinality({s, r}) <= Cardinality(own) /\ Cardinality(own) \in Nat
    BY <2>2, <2>5, FS_Subset, FS_CardinalityType
  <2>9. QED BY <2>3, <2>7, <2>8
<1>6. DOMAIN stamps' = DOMAIN stamps /\ stamps' = [s \in DOMAIN stamps' |-> stamps'[s]]
      /\ \A s \in DOMAIN stamps \ own : stamps'[s] = stamps[s]
  BY <1>1
<1>7. ASSUME NEW s \in own
      PROVE  stamps'[s].entry = "marathon" /\ stamps'[s].place = "marathon"
             /\ DOMAIN stamps'[s] = {"place", "entry"}
  <2>1. DOMAIN stamps[s] = {"place", "entry"} /\ stamps[s].place = "marathon"
    BY <1>2, <1>3 DEF StampRows
  <2>2. stamps'[s] = [stamps[s] EXCEPT !.entry = "marathon"]
    BY <1>1, <1>3
  <2>3. QED BY <2>1, <2>2
<1>8. StampRows(stamps')
  <2>1. ASSUME NEW s \in DOMAIN stamps'
        PROVE  /\ DOMAIN stamps'[s] = {"place", "entry"}
               /\ stamps'[s].entry \in Release!Entries \cup {Null}
               /\ stamps'[s].place = "marathon" => stamps'[s].entry \in {Null, "marathon"}
    BY <1>2, <1>6, <1>7, NamesDiffer DEF StampRows
  <2>2. ASSUME NEW s \in DOMAIN stamps', NEW r \in DOMAIN stamps',
               stamps'[s].entry = stamps'[r].entry, stamps'[s].entry # Null
        PROVE  s = r
    <3>1. CASE s \in own /\ r \in own
      BY <1>5, <3>1
    <3>2. CASE s \notin own /\ r \notin own
      BY <1>2, <1>6, <2>2, <3>2 DEF StampRows
    <3>3. CASE s \in own /\ r \notin own
      BY <1>4, <1>6, <1>7, <2>2, <3>3
    <3>4. CASE s \notin own /\ r \in own
      BY <1>4, <1>6, <1>7, <2>2, <3>4
    <3>5. QED BY <3>1, <3>2, <3>3, <3>4
  <2>3. DOMAIN stamps' \subseteq 1..MaxStamps
    BY <1>2, <1>6 DEF StampRows
  <2>4. QED BY <1>6, <2>1, <2>2, <2>3 DEF StampRows
<1>9. LinkRows(links', stamps') /\ \A l \in links' : l[1] \in DOMAIN courses'
  <2>1. ASSUME NEW l \in links, l[1] # "marathon"
        PROVE  /\ l = <<l[1], l[2]>> /\ l[2] \in DOMAIN stamps'
               /\ l[1] \in Release!Entries \ {"marathon"} => stamps'[l[2]].entry = l[1]
               /\ l[1] \in DOMAIN courses'
    <3>1. l[2] \in DOMAIN stamps /\ l = <<l[1], l[2]>> /\ l[1] \in DOMAIN courses
      BY <1>2, <2>1 DEF LinkRows
    <3>2. ASSUME l[1] \in Release!Entries PROVE l[2] \notin own /\ stamps[l[2]].entry = l[1]
      BY <1>2, <1>3, <2>1, <3>2, NamesDiffer DEF LinkRows
    <3>3. QED BY <1>6, <3>1, <3>2
  <2>2. ASSUME NEW s \in own, "marathon" \in DOMAIN courses, NEW l, l = <<"marathon", s>>
        PROVE  /\ l = <<l[1], l[2]>> /\ l[2] \in DOMAIN stamps'
               /\ l[1] = "marathon" /\ stamps'[l[2]].place = "marathon"
               /\ l[1] \in DOMAIN courses'
    BY <1>3, <1>6, <1>7, <2>2
  <2>3. QED BY <1>1, <2>1, <2>2 DEF LinkRows
<1>10. MissionInv'
  BY <1>1, <1>2, <1>8, <1>9 DEF MissionInv, MemberRows, Release!Passed, Release!Revisions
<1>11. ASSUME NEW m \in Explorers, NEW t \in Release!Completed(m)
       PROVE  t \in Release!Completed(m)'
  <2>1. t \in DOMAIN courses' /\ t \in Release!Entries
        /\ \A l \in links : l[1] = t => <<m, l[2]>> \in collected
    BY <1>11 DEF Release!Completed
  <2>2. PICK k \in links : k[1] = t
    BY <1>11 DEF Release!Completed
  <2>3. CASE t = "marathon"
    <3>1. k[2] \in DOMAIN stamps /\ stamps[k[2]].place = "marathon"
      BY <1>2, <2>2, <2>3 DEF LinkRows
    <3>2. k[2] \in own
      BY <1>2, <1>3, <1>4, <3>1 DEF StampRows
    <3>3. <<t, k[2]>> \in links'
      BY <1>1, <2>1, <2>3, <3>2
    <3>4. \A l \in links' : l[1] = t => l[2] = k[2]
      BY <1>1, <1>5, <2>3, <3>2
    <3>5. QED BY <1>1, <1>11, <2>1, <2>2, <3>3, <3>4, StaysCompleted
  <2>4. CASE t # "marathon"
    BY <1>1, <1>11, <2>1, <2>2, <2>4, StaysCompleted
  <2>5. QED BY <2>3, <2>4
<1>12. \A m : Release!HoldsExplorer(m) => Release!HoldsExplorer(m)'
  BY DEF Release!HoldsExplorer
<1>13. ProgressKept
  BY <1>1, <1>11, <1>12 DEF ProgressKept
<1>14. QED BY <1>10, <1>13

(* The service writes members' rows, and adds stamps and missions of its own. *)
LEMMA ServiceKeeps ==
  ASSUME MissionInv, Release!Service
  PROVE  MissionInv' /\ UNCHANGED version
<1>1. StampRows(stamps) /\ LinkRows(links, stamps) /\ MemberRows
      /\ \A l \in links : l[1] \in DOMAIN courses
  BY DEF MissionInv
<1>2. CASE Release!SeedCatalog
  <2> DEFINE ids == CHOOSE f \in Injection(Release!Lacking, Release!Free) : TRUE
             set == Range(ids)
             for(s) == CHOOSE e \in Release!Lacking : ids[e] = s
  <2>1. ids \in Injection(Release!Lacking, Release!Free)
    BY <1>2 DEF Release!SeedCatalog, Release!Injection, Injection, Release!IsInjective, IsInjective
  <2>2. /\ stamps' = [s \in DOMAIN stamps \cup set |->
                        IF s \in set THEN [place |-> "elsewhere", entry |-> for(s)] ELSE stamps[s]]
        /\ UNCHANGED <<version, courses, links, proofs, collected, earned>>
    BY <1>2 DEF Release!SeedCatalog, Release!Injection, Injection, Release!IsInjective, IsInjective,
                Release!Range, Range
  <2>3. set \subseteq 1..MaxStamps /\ set \cap DOMAIN stamps = {}
    BY <2>1 DEF Injection, Range, Release!Free
  <2>4. \A s \in set : for(s) \in Release!Lacking /\ ids[for(s)] = s
    BY <2>1 DEF Injection, Range
  <2>5. \A e \in Release!Lacking : e \in Release!Entries /\ \A s \in DOMAIN stamps : stamps[s].entry # e
    BY DEF Release!Lacking, Release!OfEntry
  <2> HIDE DEF set, for, ids
  <2>6. /\ DOMAIN stamps' = DOMAIN stamps \cup set /\ stamps' = [s \in DOMAIN stamps' |-> stamps'[s]]
        /\ \A s \in DOMAIN stamps : stamps'[s] = stamps[s]
        /\ \A s \in set : /\ stamps'[s].place = "elsewhere" /\ stamps'[s].entry = for(s)
                          /\ DOMAIN stamps'[s] = {"place", "entry"}
    BY <2>2, <2>3
  <2>7. StampRows(stamps')
    <3>1. DOMAIN stamps' \subseteq 1..MaxStamps
      BY <1>1, <2>3, <2>6 DEF StampRows
    <3>2. ASSUME NEW s \in DOMAIN stamps'
          PROVE  /\ DOMAIN stamps'[s] = {"place", "entry"}
                 /\ stamps'[s].entry \in Release!Entries \cup {Null}
                 /\ stamps'[s].place = "marathon" => stamps'[s].entry \in {Null, "marathon"}
      BY <1>1, <2>4, <2>5, <2>6 DEF StampRows
    <3>3. ASSUME NEW s \in DOMAIN stamps', NEW r \in DOMAIN stamps',
                 stamps'[s].entry = stamps'[r].entry, stamps'[s].entry # Null
          PROVE  s = r
      <4>1. CASE s \in set /\ r \in set
        BY <2>4, <2>6, <3>3, <4>1
      <4>2. CASE s \in DOMAIN stamps /\ r \in DOMAIN stamps
        BY <1>1, <2>6, <3>3, <4>2 DEF StampRows
      <4>3. CASE s \in set /\ r \in DOMAIN stamps
        BY <2>4, <2>5, <2>6, <3>3, <4>3
      <4>4. CASE s \in DOMAIN stamps /\ r \in set
        BY <2>4, <2>5, <2>6, <3>3, <4>4
      <4>5. QED BY <2>6, <4>1, <4>2, <4>3, <4>4
    <3>4. QED BY <2>6, <3>1, <3>2, <3>3 DEF StampRows
  <2>8. LinkRows(links', stamps')
    BY <1>1, <2>2, <2>6 DEF LinkRows
  <2>9. QED BY <1>1, <2>2, <2>7, <2>8 DEF MissionInv, MemberRows
<1>3. CASE Release!AddEventStamp
  <2>1. /\ Release!Free # {} /\ stamps' = Release!WithStamp(Release!NewStamp, "marathon", Null)
        /\ UNCHANGED <<version, courses, links, proofs, collected, earned>>
    BY <1>3 DEF Release!AddEventStamp
  <2>2. StampRows(stamps') /\ DOMAIN stamps \subseteq DOMAIN stamps'
        /\ \A s \in DOMAIN stamps : stamps'[s] = stamps[s]
    BY <1>1, <2>1, StampMade
  <2>3. LinkRows(links', stamps')
    BY <1>1, <2>1, <2>2 DEF LinkRows
  <2>4. QED BY <1>1, <2>1, <2>2, <2>3 DEF MissionInv, MemberRows
<1>4. ASSUME NEW s, Release!AddToOwnMission(s) PROVE MissionInv' /\ UNCHANGED version
  <2>1. /\ version = 17 /\ s \in DOMAIN stamps /\ links' = links \cup {<<"own", s>>}
        /\ courses' = Release!WithCourses({"own"})
        /\ UNCHANGED <<version, stamps, proofs, collected, earned>>
    BY <1>4 DEF Release!AddToOwnMission
  <2>2. DOMAIN courses' = DOMAIN courses \cup {"own"}
    BY <2>1 DEF Release!WithCourses
  <2>3. LinkRows(links', stamps')
    <3>1. \A l : l = <<"own", s>> =>
             /\ l = <<l[1], l[2]>> /\ l[2] \in DOMAIN stamps
             /\ l[1] \notin Release!Entries /\ l[1] # "marathon"
      BY <2>1, NamesDiffer
    <3>2. QED BY <1>1, <2>1, <3>1 DEF LinkRows
  <2>4. \A l \in links' : l[1] \in DOMAIN courses'
    BY <1>1, <2>1, <2>2
  <2>5. QED BY <1>1, <2>1, <2>3, <2>4 DEF MissionInv, MemberRows
<1>5. ASSUME NEW m, NEW s, Release!Submit(m, s) \/ Release!Approve(m, s)
      PROVE  MissionInv' /\ UNCHANGED version
  <2>1. /\ UNCHANGED <<version, stamps, courses, links, earned>>
        /\ proofs' \cup collected' \subseteq proofs \cup collected \cup {<<m, s>>}
    BY <1>5 DEF Release!Submit, Release!Approve
  <2>2. MemberRows'
    BY <1>1, <2>1 DEF MemberRows
  <2>3. QED BY <1>1, <2>1, <2>2 DEF MissionInv
<1>6. ASSUME NEW k, Release!RegisterExplorer(k) PROVE MissionInv' /\ UNCHANGED version
  BY <1>6 DEF Release!RegisterExplorer, MissionInv, MemberRows
<1>7. ASSUME NEW m, Release!EarnExplorer(m) PROVE MissionInv' /\ UNCHANGED version
  <2>1. PICK k : explorer[k] # Null /\ earned' = earned \cup {<<m, explorer[k]>>}
    BY <1>7 DEF Release!EarnExplorer
  <2>2. UNCHANGED <<version, stamps, courses, links, proofs, collected>>
    BY <1>7 DEF Release!EarnExplorer
  <2>3. MemberRows'
    BY <1>1, <2>1, <2>2 DEF MemberRows
  <2>4. QED BY <1>1, <2>2, <2>3 DEF MissionInv
<1>8. QED BY <1>2, <1>3, <1>4, <1>5, <1>6, <1>7 DEF Release!Service

LEMMA DowngradeKeeps ==
  ASSUME MissionInv, Release!Downgrade
  PROVE  MissionInv' /\ ~(version' > version)
<1>1. StampRows(stamps) /\ LinkRows(links, stamps) /\ MemberRows
      /\ \A l \in links : l[1] \in DOMAIN courses
  BY DEF MissionInv
<1>2. CASE Release!Down13
  <2> DEFINE own == Release!EventOwn(stamps)
  <2>1. /\ version = 13 /\ version' = 12 /\ UNCHANGED earned
        /\ courses' = [t \in DOMAIN courses \ {"marathon"} |-> courses[t]]
        /\ links' = {l \in links : l[1] # "marathon" /\ l[2] \notin own}
        /\ stamps' = [s \in DOMAIN stamps \ own |-> stamps[s]]
        /\ proofs' \subseteq proofs /\ collected' \subseteq collected
    BY <1>2 DEF Release!Down13, Release!Passed, Release!WithoutStamps, Release!Restrict
  <2> HIDE DEF own
  <2>2. StampRows(stamps')
    BY <1>1, <2>1 DEF StampRows
  <2>3. LinkRows(links', stamps')
    BY <1>1, <2>1 DEF LinkRows
  <2>4. \A l \in links' : l[1] \in DOMAIN courses'
    BY <1>1, <2>1
  <2>5. MemberRows'
    BY <1>1, <2>1 DEF MemberRows
  <2>6. QED BY <2>1, <2>2, <2>3, <2>4, <2>5 DEF MissionInv, Release!Revisions
<1>3. CASE Release!Down15
  <2>1. /\ version = 15 /\ version' = 13 /\ UNCHANGED <<stamps, proofs, collected, earned>>
        /\ courses' = [t \in DOMAIN courses \ {"museum"} |-> courses[t]]
        /\ links' = {l \in links : l[1] # "museum"}
    BY <1>3 DEF Release!Down15, Release!Passed, Release!Restrict
  <2>2. LinkRows(links', stamps')
    BY <1>1, <2>1 DEF LinkRows
  <2>3. \A l \in links' : l[1] \in DOMAIN courses'
    BY <1>1, <2>1
  <2>4. QED BY <1>1, <2>1, <2>2, <2>3 DEF MissionInv, MemberRows, Release!Revisions
<1>4. CASE Release!Down17 \/ Release!Down33 \/ Release!Down38 \/ Release!Down44 \/ Release!Down50
           \/ Release!Down51
  <2>1. /\ \/ version = 17 /\ version' = 15
           \/ version = 33 /\ version' = 17
           \/ version = 38 /\ version' = 33
           \/ version = 44 /\ version' = 38
           \/ version = 50 /\ version' = 44
           \/ version = 51 /\ version' = 50
        /\ UNCHANGED <<stamps, links, proofs, collected, earned>>
        /\ DOMAIN courses' = DOMAIN courses
    BY <1>4 DEF Release!Down17, Release!Down33, Release!Down38, Release!Down44, Release!Down50,
       Release!Down51, Release!Passed, Release!Unpublish
  <2>2. version' \in Release!Revisions /\ version' # 12 /\ ~(version' > version)
    BY <2>1 DEF Release!Revisions
  <2>3. QED BY <1>1, <2>1, <2>2 DEF MissionInv, MemberRows
<1>5. QED BY <1>2, <1>3, <1>4 DEF Release!Downgrade

LEMMA UpgradeKeeps ==
  ASSUME MissionInv, Release!Upgrade
  PROVE  MissionInv' /\ ProgressKept
<1>1. CASE Release!Up17
  <2>1. Release!Passed(15, 17) /\ UNCHANGED <<courses, explorer, earned>>
    BY <1>1 DEF Release!Up17
  <2>2. Release!Promote17 \/ \E c \in DOMAIN stamps : Release!Merge17(c)
    BY <1>1 DEF Release!Up17
  <2>3. QED BY <2>1, <2>2, OwnStampPromoted, OwnStampsMerged
<1>2. CASE Release!Up33 \/ Release!Up44
  <2>1. /\ version' \in {33, 44}
        /\ \E missions \in {PhotoMissions, BadgeMissions} : Release!AddMissions(missions)
    BY <1>2 DEF Release!Up33, Release!Up44, Release!Passed
  <2>2. version' \in Release!Revisions /\ version' # 12
    BY <2>1 DEF Release!Revisions
  <2>3. QED BY <2>1, <2>2, PhotosMade
<1>3. CASE Release!Up50 \/ Release!Up51 \/ Release!Up52
  <2>1. /\ version' \in {50, 51, 52}
        /\ UNCHANGED <<stamps, links, proofs, collected, explorer, earned>>
        /\ DOMAIN courses' = DOMAIN courses
    BY <1>3 DEF Release!Up50, Release!Up51, Release!Up52, Release!Passed, Release!SetClosed
  <2>2. MissionInv'
    BY <2>1 DEF MissionInv, MemberRows, Release!Revisions
  <2>3. ASSUME NEW m \in Explorers
        PROVE  /\ Release!Completed(m) = Release!Completed(m)'
               /\ Release!HoldsExplorer(m) => Release!HoldsExplorer(m)'
    BY <2>1 DEF Release!Completed, Release!HoldsExplorer
  <2>4. QED BY <2>1, <2>2, <2>3 DEF ProgressKept
<1>4. QED BY <1>1, <1>2, <1>3, MarathonMade, MuseumMade, BadgeRenamed DEF Release!Upgrade

LEMMA MissionStep ==
  ASSUME MissionInv, [Release!MigrationNext]_(Release!migrationVars)
  PROVE  MissionInv' /\ (version' > version => ProgressKept)
<1>1. version \in Int
  BY DEF MissionInv, Release!Revisions
<1>2. CASE UNCHANGED Release!migrationVars
  BY <1>1, <1>2 DEF MissionInv, MemberRows, Release!migrationVars
<1>3. CASE Release!Service
  BY <1>1, <1>3, ServiceKeeps
<1>4. QED BY <1>2, <1>3, UpgradeKeeps, DowngradeKeeps DEF Release!MigrationNext

(* Whatever revisions are run up and down, and whatever the service does      *)
(* between them, no upgrade takes a completed mission, the Explorer badge or   *)
(* the last proof from a member.                                               *)
THEOREM ProgressSurvives == RowsSpec => UpgradesKeepProgress
<1>1. MissionInv /\ [Release!MigrationNext]_(Release!migrationVars)
        => MissionInv' /\ [version' > version => ProgressKept]_(Release!migrationVars)
  BY MissionStep
<1>2. Release!MigrationSpec => [][version' > version => ProgressKept]_(Release!migrationVars)
  BY <1>1, MissionInitially, PTL DEF Release!MigrationSpec
<1>3. QED BY <1>2, RowsParts, PTL DEF UpgradesKeepProgress, Release!UpgradesKeepProgress, ProgressKept

------------------------------------------------------------------------------
(* The catalogue of stamps and its pages *)

StampsOf(e) == Book!StampsOf(e, catalogue)
PlacesOf(e) == Book!PlacesOf(e, activities)

(* Ids are numbered as they are given and not given again. *)
NumbersInv ==
    /\ numbered = [places |-> numbered.places, stamps |-> numbered.stamps]
    /\ numbered.places \in Nat /\ numbered.stamps \in Nat
    /\ activities = [a \in DOMAIN activities |-> activities[a]]
    /\ \A a \in DOMAIN activities :
          /\ a \in 1..numbered.places
          /\ activities[a].entry \in CatalogueIds /\ DOMAIN activities[a] = {"entry", "visible"}

(* A stamp has a place, and an entry no more than one stamp. *)
StampInv ==
    /\ DOMAIN catalogue \subseteq 1..numbered.stamps
    /\ \A i \in DOMAIN catalogue :
          /\ catalogue[i].activity \in DOMAIN activities
          /\ catalogue[i].entry \in CatalogueIds \cup {Null}
    /\ \A i, j \in DOMAIN catalogue :
          catalogue[i].entry = catalogue[j].entry /\ catalogue[i].entry \in CatalogueIds => i = j

(* An entry has one place, and its stamp is of that place. *)
OneEach(e) ==
    /\ \A a, b \in PlacesOf(e) : a = b
    /\ \A i \in StampsOf(e) : activities[catalogue[i].activity].entry = e

(* What a seeding found of an entry is still so, unless its place was deleted *)
(* meanwhile or another seeding has made its place and its stamp: then the    *)
(* key of the stamps refuses it.                                              *)
StillSo(e, found) ==
    IF found = Null THEN PlacesOf(e) = {} \/ StampsOf(e) # {}
    ELSE /\ found \in 1..numbered.places
         /\ found \in DOMAIN activities => activities[found].entry = e

FoundInv ==
    /\ seeding = [s \in Users |-> seeding[s]]
    /\ \A s \in Users : seeding[s] # Null =>
         /\ DOMAIN seeding[s] \subseteq CatalogueIds
         /\ \A e \in DOMAIN seeding[s] \ disturbed : StillSo(e, seeding[s][e])

SettledInv == \A e \in CatalogueIds \ disturbed : OneEach(e)

(* The stops of a course are stamps that exist. *)
StopsInv ==
    /\ published = [c \in Courses |-> published[c]]
    /\ \A c \in Courses : /\ published[c] = [published |-> published[c].published, stops |-> published[c].stops]
                          /\ published[c].stops \subseteq DOMAIN catalogue

CatalogueInv == NumbersInv /\ StampInv /\ SettledInv /\ FoundInv /\ StopsInv

LEMMA CatalogueNulls == Null \notin Nat /\ Null \notin CatalogueIds /\ CatalogueIds \subseteq Nat
  BY EntriesAssumption

LEMMA CardinalityIs == \A S : Book!Cardinality(S) = Cardinality(S)
  BY DEF Book!Cardinality, Cardinality

LEMMA CatalogueInitially == Book!CatalogueInit => CatalogueInv
<1> SUFFICES ASSUME Book!CatalogueInit PROVE CatalogueInv
  OBVIOUS
<1>1. DOMAIN activities = {} /\ DOMAIN catalogue = {}
  BY DEF Book!CatalogueInit
<1>2. NumbersInv
  BY <1>1 DEF Book!CatalogueInit, NumbersInv
<1>3. StampInv
  BY <1>1 DEF StampInv
<1>4. SettledInv
  BY <1>1 DEF SettledInv, OneEach, PlacesOf, StampsOf, Book!PlacesOf, Book!StampsOf
<1>5. FoundInv
  BY DEF Book!CatalogueInit, FoundInv
<1>6. StopsInv
  BY DEF Book!CatalogueInit, StopsInv
<1>7. QED BY <1>2, <1>3, <1>4, <1>5, <1>6 DEF CatalogueInv

------------------------------------------------------------------------------
(* Rows are numbered in the order of their entries, and no two alike. *)
LEMMA RankIs ==
  ASSUME NEW S, IsFiniteSet(S), S \subseteq Nat, NEW e \in S
  PROVE  /\ Book!Rank(e, S) \in 1..Cardinality(S)
         /\ \A f \in S : Book!Rank(f, S) = Book!Rank(e, S) => f = e
<1> DEFINE upto(x) == {g \in S : g <= x}
<1>1. \A x : Book!Rank(x, S) = Cardinality(upto(x))
  BY CardinalityIs DEF Book!Rank
<1>2. \A x : /\ IsFiniteSet(upto(x)) /\ Cardinality(upto(x)) \in Nat
             /\ Cardinality(upto(x)) <= Cardinality(S)
  <2> SUFFICES ASSUME NEW x
               PROVE  /\ IsFiniteSet(upto(x)) /\ Cardinality(upto(x)) \in Nat
                      /\ Cardinality(upto(x)) <= Cardinality(S)
    OBVIOUS
  <2>1. upto(x) \in SUBSET S
    OBVIOUS
  <2> HIDE DEF upto
  <2>2. QED BY <2>1, FS_Subset, FS_CardinalityType
<1>3. \A x \in S : Cardinality(upto(x)) # 0
  <2>1. \A x \in S : x \in upto(x)
    OBVIOUS
  <2> HIDE DEF upto
  <2>2. QED BY <1>2, <2>1, FS_EmptySet
<1>4. ASSUME NEW x \in S, NEW y \in S, x < y PROVE Cardinality(upto(x)) # Cardinality(upto(y))
  <2>1. \A g \in S : g \in Nat
    OBVIOUS
  <2>2. y \in upto(y) /\ y \notin upto(x)
    BY <1>4, <2>1
  <2>3. ASSUME NEW g \in upto(x) PROVE g \in upto(y)
    BY <1>4, <2>1
  <2> HIDE DEF upto
  <2>4. upto(x) \subseteq upto(y)
    BY <2>3
  <2>5. QED BY <1>2, <2>2, <2>4, FS_Subset
<1> HIDE DEF upto
<1>5. Cardinality(S) \in Nat
  BY FS_CardinalityType
<1>6. Book!Rank(e, S) \in 1..Cardinality(S)
  BY <1>1, <1>2, <1>3, <1>5
<1>7. ASSUME NEW f \in S, Book!Rank(f, S) = Book!Rank(e, S) PROVE f = e
  <2>1. ~(f < e) /\ ~(e < f)
    BY <1>1, <1>4, <1>7
  <2>2. f \in Nat /\ e \in Nat
    OBVIOUS
  <2>3. QED BY <2>1, <2>2
<1>8. QED BY <1>6, <1>7
StampFor(s, e) == numbered.stamps + Book!Rank(e, Book!Missing(s))

(* What a seeding has read is of entries of the catalogue, and its new rows have *)
(* numbers of their own.                                                         *)
LEMMA SeedNumbers ==
  ASSUME CatalogueInv, NEW s \in Users, seeding[s] # Null
  PROVE  /\ Book!Placeless(s) \subseteq Book!Missing(s) /\ Book!Missing(s) \subseteq CatalogueIds
         /\ Cardinality(Book!Placeless(s)) \in Nat /\ Cardinality(Book!Missing(s)) \in Nat
         /\ \A e \in Book!Placeless(s) :
               /\ Book!PlaceFor(s, e)
                    \in (numbered.places + 1)..(numbered.places + Cardinality(Book!Placeless(s)))
               /\ \A f \in Book!Placeless(s) : Book!PlaceFor(s, e) = Book!PlaceFor(s, f) => e = f
         /\ \A e \in Book!Missing(s) :
               /\ StampFor(s, e)
                    \in (numbered.stamps + 1)..(numbered.stamps + Cardinality(Book!Missing(s)))
               /\ \A f \in Book!Missing(s) : StampFor(s, e) = StampFor(s, f) => e = f
<1> DEFINE lacking == Book!Placeless(s)
           absent == Book!Missing(s)
<1>1. lacking \subseteq absent
  BY DEF Book!Placeless
<1>2. absent \subseteq CatalogueIds
  BY DEF Book!Missing, CatalogueInv, FoundInv
<1>3. IsFiniteSet(absent) /\ IsFiniteSet(lacking) /\ absent \subseteq Nat /\ lacking \subseteq Nat
  <2> HIDE DEF lacking, absent
  <2>1. IsFiniteSet(absent)
    BY <1>2, EntriesAssumption, FS_Subset
  <2>2. IsFiniteSet(lacking)
    BY <1>1, <2>1, FS_Subset
  <2>3. QED BY <1>1, <1>2, <2>1, <2>2, EntriesAssumption
<1>4. \A e \in lacking : Book!PlaceFor(s, e) = numbered.places + Book!Rank(e, lacking)
  BY DEF Book!PlaceFor
<1>5. \A e \in absent : StampFor(s, e) = numbered.stamps + Book!Rank(e, absent)
  BY DEF StampFor
<1>6. numbered.places \in Nat /\ numbered.stamps \in Nat
  BY DEF CatalogueInv, NumbersInv
<1> HIDE DEF lacking, absent
<1>7. Cardinality(lacking) \in Nat /\ Cardinality(absent) \in Nat
  BY <1>3, FS_CardinalityType
<1>8. \A e \in lacking : /\ Book!Rank(e, lacking) \in 1..Cardinality(lacking)
                         /\ \A f \in lacking : Book!Rank(f, lacking) = Book!Rank(e, lacking) => f = e
  BY <1>3, RankIs
<1>9. \A e \in absent : /\ Book!Rank(e, absent) \in 1..Cardinality(absent)
                        /\ \A f \in absent : Book!Rank(f, absent) = Book!Rank(e, absent) => f = e
  BY <1>3, RankIs
<1>10. ASSUME NEW e \in lacking
       PROVE  /\ Book!PlaceFor(s, e) \in (numbered.places + 1)..(numbered.places + Cardinality(lacking))
              /\ \A f \in lacking : Book!PlaceFor(s, e) = Book!PlaceFor(s, f) => e = f
  <2>1. \A f \in lacking : Book!Rank(f, lacking) \in Nat
    BY <1>7, <1>8
  <2>2. QED BY <1>4, <1>6, <1>7, <1>8, <2>1
<1>11. ASSUME NEW e \in absent
       PROVE  /\ StampFor(s, e) \in (numbered.stamps + 1)..(numbered.stamps + Cardinality(absent))
              /\ \A f \in absent : StampFor(s, e) = StampFor(s, f) => e = f
  <2>1. \A f \in absent : Book!Rank(f, absent) \in Nat
    BY <1>7, <1>9
  <2>2. QED BY <1>5, <1>6, <1>7, <1>9, <2>1
<1>12. QED BY <1>1, <1>2, <1>7, <1>10, <1>11 DEF lacking, absent

(* The rows after a seeding: those there were, and the new ones. *)
LEMMA SeedRows ==
  ASSUME CatalogueInv, NEW s \in Users, Book!SeedWrite(s)
  PROVE  /\ numbered' = [places |-> numbered.places + Cardinality(Book!Placeless(s)),
                         stamps |-> numbered.stamps + Cardinality(Book!Missing(s))]
         /\ DOMAIN activities' = DOMAIN activities \cup {Book!PlaceFor(s, e) : e \in Book!Placeless(s)}
         /\ activities' = [a \in DOMAIN activities' |-> activities'[a]]
         /\ \A a \in DOMAIN activities : activities'[a] = activities[a]
         /\ \A e \in Book!Placeless(s) :
               /\ activities'[Book!PlaceFor(s, e)].entry = e
               /\ DOMAIN activities'[Book!PlaceFor(s, e)] = {"entry", "visible"}
         /\ DOMAIN catalogue' = DOMAIN catalogue \cup {StampFor(s, e) : e \in Book!Missing(s)}
         /\ \A i \in DOMAIN catalogue : catalogue'[i] = catalogue[i]
         /\ \A e \in Book!Missing(s) :
               /\ catalogue'[StampFor(s, e)].activity = Book!PlaceFor(s, e)
               /\ catalogue'[StampFor(s, e)].entry = e
<1> DEFINE lacking == Book!Placeless(s)
           absent == Book!Missing(s)
           nb == numbered
<1>1. seeding[s] # Null
  BY DEF Book!SeedWrite
<1>2. numbered' = [places |-> nb.places + Cardinality(lacking), stamps |-> nb.stamps + Cardinality(absent)]
  BY CardinalityIs DEF Book!SeedWrite
<1>3. nb.places \in Nat /\ nb.stamps \in Nat
  BY DEF CatalogueInv, NumbersInv
<1>4. \A a \in DOMAIN activities : a \in 1..nb.places
  BY DEF CatalogueInv, NumbersInv
<1>5. \A i \in DOMAIN catalogue : i \in 1..nb.stamps
  BY DEF CatalogueInv, StampInv
<1> DEFINE opened == [a \in {Book!PlaceFor(s, e) : e \in lacking} |->
                        [entry |-> CHOOSE e \in lacking : Book!PlaceFor(s, e) = a, visible |-> TRUE]]
           issued == [i \in {StampFor(s, e) : e \in absent} |->
                        [activity |-> Book!PlaceFor(s, CHOOSE f \in absent : StampFor(s, f) = i),
                         entry |-> CHOOSE f \in absent : StampFor(s, f) = i]]
<1>6. activities' = Book!With(activities, opened)
  BY DEF Book!SeedWrite, Book!NewPlaces
<1>7. catalogue' = Book!With(catalogue, issued)
  BY DEF Book!SeedWrite, Book!NewStamps, StampFor
<1>8. \A a \in DOMAIN activities : a \notin DOMAIN opened
  BY <1>1, <1>3, <1>4, SeedNumbers
<1>9. \A i \in DOMAIN catalogue : i \notin DOMAIN issued
  BY <1>1, <1>3, <1>5, SeedNumbers
<1>10. ASSUME NEW e \in lacking
       PROVE  /\ opened[Book!PlaceFor(s, e)].entry = e
              /\ DOMAIN opened[Book!PlaceFor(s, e)] = {"entry", "visible"}
  <2>1. (CHOOSE f \in lacking : Book!PlaceFor(s, f) = Book!PlaceFor(s, e)) = e
    BY <1>1, SeedNumbers
  <2>2. QED BY <2>1
<1>11. ASSUME NEW e \in absent
       PROVE  issued[StampFor(s, e)].activity = Book!PlaceFor(s, e) /\ issued[StampFor(s, e)].entry = e
  <2>1. (CHOOSE f \in absent : StampFor(s, f) = StampFor(s, e)) = e
    BY <1>1, SeedNumbers
  <2>2. QED BY <2>1
<1>12. DOMAIN opened = {Book!PlaceFor(s, e) : e \in lacking}
  OBVIOUS
<1>13. DOMAIN issued = {StampFor(s, e) : e \in absent}
  OBVIOUS
<1> HIDE DEF opened, issued
<1>14. /\ DOMAIN activities' = DOMAIN activities \cup DOMAIN opened
       /\ activities' = [a \in DOMAIN activities' |-> activities'[a]]
  BY <1>6 DEF Book!With
<1>15. /\ \A a \in DOMAIN activities : activities'[a] = activities[a]
       /\ \A a \in DOMAIN opened : activities'[a] = opened[a]
  BY <1>6, <1>8 DEF Book!With
<1>16. /\ DOMAIN catalogue' = DOMAIN catalogue \cup DOMAIN issued
       /\ \A i \in DOMAIN catalogue : catalogue'[i] = catalogue[i]
       /\ \A i \in DOMAIN issued : catalogue'[i] = issued[i]
  BY <1>7, <1>9 DEF Book!With
<1>17. QED BY <1>2, <1>10, <1>11, <1>12, <1>13, <1>14, <1>15, <1>16
(* A seeding that is allowed leaves one place and one stamp for each entry. *)
LEMMA SeedWriteKeeps ==
  ASSUME CatalogueInv, NEW s \in Users, Book!SeedWrite(s)
  PROVE  CatalogueInv'
<1> DEFINE lacking == Book!Placeless(s)
           absent == Book!Missing(s)
<1>0. /\ seeding[s] # Null /\ Book!SeedAllowed(s)
      /\ seeding' = [seeding EXCEPT ![s] = Null]
      /\ published' = published /\ disturbed' = disturbed
  BY DEF Book!SeedWrite
<1>1. /\ lacking \subseteq absent /\ absent \subseteq CatalogueIds
      /\ Cardinality(lacking) \in Nat /\ Cardinality(absent) \in Nat
  BY <1>0, SeedNumbers
<1>2. \A e \in lacking :
         /\ Book!PlaceFor(s, e) \in (numbered.places + 1)..(numbered.places + Cardinality(lacking))
         /\ \A f \in lacking : Book!PlaceFor(s, e) = Book!PlaceFor(s, f) => e = f
  BY <1>0, SeedNumbers
<1>3. \A e \in absent :
         /\ StampFor(s, e) \in (numbered.stamps + 1)..(numbered.stamps + Cardinality(absent))
         /\ \A f \in absent : StampFor(s, e) = StampFor(s, f) => e = f
  BY <1>0, SeedNumbers
<1>4. numbered' = [places |-> numbered.places + Cardinality(lacking),
                   stamps |-> numbered.stamps + Cardinality(absent)]
  BY SeedRows
<1>5. /\ DOMAIN activities' = DOMAIN activities \cup {Book!PlaceFor(s, e) : e \in lacking}
      /\ activities' = [a \in DOMAIN activities' |-> activities'[a]]
      /\ \A a \in DOMAIN activities : activities'[a] = activities[a]
      /\ \A e \in lacking : /\ activities'[Book!PlaceFor(s, e)].entry = e
                           /\ DOMAIN activities'[Book!PlaceFor(s, e)] = {"entry", "visible"}
  BY SeedRows
<1>6. /\ DOMAIN catalogue' = DOMAIN catalogue \cup {StampFor(s, e) : e \in absent}
      /\ \A i \in DOMAIN catalogue : catalogue'[i] = catalogue[i]
      /\ \A e \in absent : /\ catalogue'[StampFor(s, e)].activity = Book!PlaceFor(s, e)
                          /\ catalogue'[StampFor(s, e)].entry = e
  BY SeedRows
<1>7. \A e \in absent : StampsOf(e) = {} /\ (e \notin lacking => seeding[s][e] \in DOMAIN activities)
  BY <1>0 DEF Book!SeedAllowed, StampsOf
<1>8. \A e \in absent \ disturbed : StillSo(e, seeding[s][e])
  BY <1>0 DEF CatalogueInv, FoundInv, Book!Missing
<1>9. \A e \in lacking : seeding[s][e] = Null
  BY DEF Book!Placeless
<1>10. \A e \in absent \ lacking : seeding[s][e] # Null /\ Book!PlaceFor(s, e) = seeding[s][e]
  BY DEF Book!Placeless, Book!PlaceFor
<1>11. NumbersInv /\ StampInv /\ SettledInv /\ FoundInv /\ StopsInv
  BY DEF CatalogueInv
<1> HIDE DEF lacking, absent
<1>12. NumbersInv'
  <2>1. /\ numbered' = [places |-> numbered'.places, stamps |-> numbered'.stamps]
        /\ numbered'.places \in Nat /\ numbered'.stamps \in Nat
        /\ numbered'.places = numbered.places + Cardinality(lacking)
    BY <1>1, <1>4, <1>11 DEF NumbersInv
  <2>2. ASSUME NEW a \in DOMAIN activities
        PROVE  /\ a \in 1..numbered'.places /\ activities'[a].entry \in CatalogueIds
               /\ DOMAIN activities'[a] = {"entry", "visible"}
    BY <1>1, <1>5, <1>11, <2>1 DEF NumbersInv
  <2>3. ASSUME NEW e \in lacking
        PROVE  /\ Book!PlaceFor(s, e) \in 1..numbered'.places
               /\ activities'[Book!PlaceFor(s, e)].entry \in CatalogueIds
               /\ DOMAIN activities'[Book!PlaceFor(s, e)] = {"entry", "visible"}
    BY <1>1, <1>2, <1>5, <1>11, <2>1 DEF NumbersInv
  <2>4. QED BY <1>5, <2>1, <2>2, <2>3 DEF NumbersInv
<1>13. \A i \in DOMAIN catalogue : \A e \in absent : catalogue[i].entry # e
  BY <1>7 DEF StampsOf, Book!StampsOf
<1>14. StampInv'
  <2>1. numbered'.stamps = numbered.stamps + Cardinality(absent) /\ numbered.stamps \in Nat
    BY <1>4, <1>11 DEF NumbersInv
  <2>2. DOMAIN catalogue' \subseteq 1..numbered'.stamps
    <3>1. \A i \in DOMAIN catalogue : i \in 1..numbered'.stamps
      BY <1>1, <1>11, <2>1 DEF StampInv
    <3>2. \A e \in absent : StampFor(s, e) \in 1..numbered'.stamps
      BY <1>1, <1>3, <2>1
    <3>3. QED BY <1>6, <3>1, <3>2
  <2>3. ASSUME NEW i \in DOMAIN catalogue
        PROVE  catalogue'[i].activity \in DOMAIN activities' /\ catalogue'[i].entry \in CatalogueIds \cup {Null}
    BY <1>5, <1>6, <1>11 DEF StampInv
  <2>4. ASSUME NEW e \in absent
        PROVE  /\ catalogue'[StampFor(s, e)].activity \in DOMAIN activities'
               /\ catalogue'[StampFor(s, e)].entry \in CatalogueIds \cup {Null}
    <3>1. catalogue'[StampFor(s, e)].activity = Book!PlaceFor(s, e) /\ catalogue'[StampFor(s, e)].entry = e
      BY <1>6
    <3>2. CASE e \in lacking
      BY <1>1, <1>5, <3>1, <3>2
    <3>3. CASE e \notin lacking
      BY <1>1, <1>5, <1>7, <1>10, <3>1, <3>3
    <3>4. QED BY <3>2, <3>3
  <2>5. ASSUME NEW i \in DOMAIN catalogue', NEW j \in DOMAIN catalogue',
               catalogue'[i].entry = catalogue'[j].entry, catalogue'[i].entry \in CatalogueIds
        PROVE  i = j
    <3>1. CASE i \in DOMAIN catalogue /\ j \in DOMAIN catalogue
      BY <1>6, <1>11, <2>5, <3>1 DEF StampInv
    <3>2. CASE i \in DOMAIN catalogue /\ j \notin DOMAIN catalogue
      BY <1>6, <1>13, <2>5, <3>2
    <3>3. CASE i \notin DOMAIN catalogue /\ j \in DOMAIN catalogue
      BY <1>6, <1>13, <2>5, <3>3
    <3>4. CASE i \notin DOMAIN catalogue /\ j \notin DOMAIN catalogue
      BY <1>6, <2>5, <3>4
    <3>5. QED BY <3>1, <3>2, <3>3, <3>4
  <2>6. QED BY <1>6, <2>2, <2>3, <2>4, <2>5 DEF StampInv
<1>15. \A e : /\ PlacesOf(e) \subseteq PlacesOf(e)'
              /\ PlacesOf(e)' \subseteq PlacesOf(e) \cup {Book!PlaceFor(s, f) : f \in {g \in lacking : g = e}}
  BY <1>5 DEF PlacesOf, Book!PlacesOf
<1>16. \A e : /\ StampsOf(e) \subseteq StampsOf(e)'
              /\ StampsOf(e)' \subseteq StampsOf(e) \cup {StampFor(s, f) : f \in {g \in absent : g = e}}
              /\ e \in absent => StampsOf(e)' # {}
  BY <1>6 DEF StampsOf, Book!StampsOf
<1>17. \A e \in lacking \ disturbed : PlacesOf(e) = {}
  BY <1>1, <1>7, <1>8, <1>9 DEF StillSo
<1>18. SettledInv'
  <2> SUFFICES ASSUME NEW e \in CatalogueIds, e \notin disturbed PROVE OneEach(e)'
    BY <1>0 DEF SettledInv
  <2>1. OneEach(e)
    BY <1>11 DEF SettledInv
  <2>2. \A a, b \in PlacesOf(e)' : a = b
    <3>1. CASE e \in lacking
      BY <1>15, <1>17, <3>1
    <3>2. CASE e \notin lacking
      BY <1>15, <2>1, <3>2 DEF OneEach
    <3>3. QED BY <3>1, <3>2
  <2>3. ASSUME NEW i \in StampsOf(e)' PROVE activities'[catalogue'[i].activity].entry = e
    <3>1. CASE i \in StampsOf(e)
      <4>1. i \in DOMAIN catalogue /\ catalogue[i].activity \in DOMAIN activities
        BY <1>11, <3>1 DEF StampsOf, Book!StampsOf, StampInv
      <4>2. QED BY <1>5, <1>6, <2>1, <3>1, <4>1 DEF OneEach
    <3>2. CASE e \in absent /\ i = StampFor(s, e) /\ e \in lacking
      BY <1>5, <1>6, <3>2
    <3>3. CASE e \in absent /\ i = StampFor(s, e) /\ e \notin lacking
      <4>1. StillSo(e, seeding[s][e]) /\ seeding[s][e] # Null /\ seeding[s][e] \in DOMAIN activities
        BY <1>7, <1>8, <1>10, <3>3
      <4>2. activities[seeding[s][e]].entry = e
        BY <4>1 DEF StillSo
      <4>3. QED BY <1>5, <1>6, <1>10, <3>3, <4>1, <4>2
    <3>4. QED BY <1>16, <3>1, <3>2, <3>3
  <2>4. QED BY <2>2, <2>3 DEF OneEach
<1>19. FoundInv'
  <2>1. seeding' = [t \in Users |-> seeding'[t]]
    BY <1>0, <1>11 DEF FoundInv
  <2>2. \A t \in Users : seeding'[t] # Null => t # s /\ seeding'[t] = seeding[t]
    BY <1>0, <1>11 DEF FoundInv
  <2>3. ASSUME NEW t \in Users, seeding[t] # Null, NEW e \in DOMAIN seeding[t], e \notin disturbed,
               NEW found \in {seeding[t][e]}
        PROVE  StillSo(e, found)'
    <3>1. StillSo(e, found) /\ e \in CatalogueIds
      BY <1>11, <2>3 DEF FoundInv
    <3>2. CASE found = Null
      <4>1. CASE e \in absent
        BY <1>16, <3>2, <4>1 DEF StillSo
      <4>2. CASE e \notin absent
        BY <1>1, <1>15, <1>16, <3>1, <3>2, <4>2 DEF StillSo
      <4>3. QED BY <4>1, <4>2
    <3>3. CASE found # Null
      <4>1. found \in 1..numbered.places /\ (found \in DOMAIN activities => activities[found].entry = e)
        BY <3>1, <3>3 DEF StillSo
      <4>2. numbered.places \in Nat /\ numbered'.places = numbered.places + Cardinality(lacking)
        BY <1>4, <1>11 DEF NumbersInv
      <4>3. found \notin {Book!PlaceFor(s, f) : f \in lacking}
        BY <1>1, <1>2, <4>1, <4>2
      <4>4. found \in 1..numbered'.places
        BY <1>1, <4>1, <4>2
      <4>5. found \in DOMAIN activities' => activities'[found].entry = e
        BY <1>5, <4>1, <4>3
      <4>6. QED BY <3>3, <4>4, <4>5 DEF StillSo
    <3>4. QED BY <3>2, <3>3
  <2>4. ASSUME NEW t \in Users, seeding'[t] # Null
        PROVE  /\ DOMAIN seeding'[t] \subseteq CatalogueIds
               /\ \A e \in DOMAIN seeding'[t] \ disturbed' : StillSo(e, seeding[t][e])'
    <3>1. seeding'[t] = seeding[t] /\ seeding[t] # Null
      BY <2>2, <2>4
    <3>2. DOMAIN seeding[t] \subseteq CatalogueIds
      BY <1>11, <3>1 DEF FoundInv
    <3>3. ASSUME NEW e \in DOMAIN seeding[t], e \notin disturbed PROVE StillSo(e, seeding[t][e])'
      BY <2>3, <3>1, <3>3
    <3>4. QED BY <1>0, <3>1, <3>2, <3>3
  <2>5. QED BY <2>1, <2>4 DEF FoundInv
<1>20. StopsInv'
  BY <1>0, <1>6, <1>11 DEF StopsInv
<1>21. QED BY <1>12, <1>14, <1>18, <1>19, <1>20 DEF CatalogueInv
LEMMA SeedReadKeeps ==
  ASSUME CatalogueInv, NEW s \in Users, Book!SeedRead(s)
  PROVE  CatalogueInv'
<1>1. /\ seeding' = [seeding EXCEPT ![s] = Book!Findings]
      /\ UNCHANGED <<activities, catalogue, published, numbered, disturbed>>
  BY DEF Book!SeedRead
<1>2. NumbersInv /\ StampInv /\ SettledInv /\ FoundInv /\ StopsInv
  BY DEF CatalogueInv
<1>3. DOMAIN Book!Findings \subseteq CatalogueIds
  BY DEF Book!Findings
<1>4. ASSUME NEW e \in DOMAIN Book!Findings, e \notin disturbed PROVE StillSo(e, Book!Findings[e])
  <2>1. OneEach(e)
    BY <1>2, <1>3, <1>4 DEF SettledInv
  <2>2. CASE PlacesOf(e) = {}
    <3>1. Book!Findings[e] = Null
      BY <2>2 DEF Book!Findings, PlacesOf
    <3>2. QED BY <2>2, <3>1 DEF StillSo
  <2>3. ASSUME NEW a \in PlacesOf(e) PROVE StillSo(e, Book!Findings[e])
    <3>1. a \in DOMAIN activities /\ activities[a].entry = e
      BY <2>3 DEF PlacesOf, Book!PlacesOf
    <3>2. a \in 1..numbered.places /\ numbered.places \in Nat
      BY <1>2, <3>1 DEF NumbersInv
    <3>3. PlacesOf(e) = {a}
      BY <2>1, <2>3 DEF OneEach
    <3>4. Book!Max({a}) = a
      BY <3>2 DEF Book!Max
    <3>5. Book!Findings[e] = a
      BY <3>3, <3>4 DEF Book!Findings, PlacesOf
    <3>6. a # Null
      BY <3>2, CatalogueNulls
    <3>7. QED BY <3>1, <3>2, <3>5, <3>6 DEF StillSo
  <2>4. QED BY <2>2, <2>3
<1>5. NumbersInv' /\ StampInv' /\ SettledInv' /\ StopsInv'
  BY <1>1, <1>2 DEF NumbersInv, StampInv, SettledInv, StopsInv, OneEach,
                    PlacesOf, StampsOf, Book!PlacesOf, Book!StampsOf
<1>6. \A e, found : StillSo(e, found) => StillSo(e, found)'
  BY <1>1 DEF StillSo, PlacesOf, StampsOf, Book!PlacesOf, Book!StampsOf
<1>7. FoundInv'
  <2>1. /\ seeding' = [t \in Users |-> seeding'[t]]
        /\ seeding'[s] = Book!Findings
        /\ \A t \in Users \ {s} : seeding'[t] = seeding[t]
    BY <1>1, <1>2 DEF FoundInv
  <2>2. ASSUME NEW t \in Users, seeding'[t] # Null
        PROVE  /\ DOMAIN seeding'[t] \subseteq CatalogueIds
               /\ \A e \in DOMAIN seeding'[t] \ disturbed : StillSo(e, seeding'[t][e])
    <3>1. CASE t = s
      BY <1>3, <1>4, <2>1, <3>1
    <3>2. CASE t # s
      BY <1>2, <2>1, <2>2, <3>2 DEF FoundInv
    <3>3. QED BY <3>1, <3>2
  <2>3. ASSUME NEW t \in Users, seeding'[t] # Null, NEW e \in DOMAIN seeding'[t], e \notin disturbed'
        PROVE  StillSo(e, seeding[t][e])'
    <3>1. StillSo(e, seeding'[t][e])
      BY <1>1, <2>2, <2>3
    <3>2. QED
      BY <1>1, <3>1 DEF StillSo, PlacesOf, StampsOf, Book!PlacesOf, Book!StampsOf
  <2>4. QED BY <2>1, <2>2, <2>3 DEF FoundInv
<1>8. QED BY <1>5, <1>7 DEF CatalogueInv

LEMMA SeedFailKeeps ==
  ASSUME CatalogueInv, NEW s \in Users, Book!SeedFail(s)
  PROVE  CatalogueInv'
<1>1. /\ seeding' = [seeding EXCEPT ![s] = Null]
      /\ UNCHANGED <<activities, catalogue, published, numbered, disturbed>>
  BY DEF Book!SeedFail
<1>2. NumbersInv /\ StampInv /\ SettledInv /\ FoundInv /\ StopsInv
  BY DEF CatalogueInv
<1>3. NumbersInv' /\ StampInv' /\ SettledInv' /\ StopsInv'
  BY <1>1, <1>2 DEF NumbersInv, StampInv, SettledInv, StopsInv, OneEach,
                    PlacesOf, StampsOf, Book!PlacesOf, Book!StampsOf
<1>4. FoundInv'
  <2>1. /\ seeding' = [t \in Users |-> seeding'[t]]
        /\ \A t \in Users : seeding'[t] # Null => seeding'[t] = seeding[t]
    BY <1>1, <1>2 DEF FoundInv
  <2>2. ASSUME NEW t \in Users, seeding'[t] # Null, NEW e \in DOMAIN seeding'[t] \ disturbed'
        PROVE  StillSo(e, seeding[t][e])'
    <3>1. StillSo(e, seeding[t][e]) /\ seeding'[t] = seeding[t]
      BY <1>1, <1>2, <2>1, <2>2 DEF FoundInv
    <3>2. QED
      BY <1>1, <3>1 DEF StillSo, PlacesOf, StampsOf, Book!PlacesOf, Book!StampsOf
  <2>3. ASSUME NEW t \in Users, seeding'[t] # Null PROVE DOMAIN seeding'[t] \subseteq CatalogueIds
    BY <1>2, <2>1, <2>3 DEF FoundInv
  <2>4. QED BY <2>1, <2>2, <2>3 DEF FoundInv
<1>5. QED BY <1>3, <1>4 DEF CatalogueInv

LEMMA AddStampKeeps ==
  ASSUME CatalogueInv, NEW a \in 1..MaxPlaces, Book!AddStamp(a)
  PROVE  CatalogueInv'
<1> DEFINE i == numbered.stamps + 1
<1>1. /\ a \in DOMAIN activities
      /\ numbered' = [numbered EXCEPT !.stamps = @ + 1]
      /\ UNCHANGED <<activities, published, seeding, disturbed>>
  BY DEF Book!AddStamp
<1>2. NumbersInv /\ StampInv /\ SettledInv /\ FoundInv /\ StopsInv
  BY DEF CatalogueInv
<1>3. numbered.stamps \in Nat /\ numbered'.stamps = i /\ numbered'.places = numbered.places
      /\ numbered' = [places |-> numbered'.places, stamps |-> numbered'.stamps]
  BY <1>1, <1>2 DEF NumbersInv
<1>4. i \notin DOMAIN catalogue
  BY <1>2, <1>3 DEF StampInv
<1>5. /\ DOMAIN catalogue' = DOMAIN catalogue \cup {i}
      /\ \A j \in DOMAIN catalogue : catalogue'[j] = catalogue[j]
      /\ catalogue'[i].activity = a /\ catalogue'[i].entry = Null
  <2> DEFINE new == [j \in {i} |-> [activity |-> a, entry |-> Null]]
  <2>1. catalogue' = Book!With(catalogue, new)
    BY DEF Book!AddStamp
  <2>2. DOMAIN new = {i} /\ new[i].activity = a /\ new[i].entry = Null
    OBVIOUS
  <2> HIDE DEF new, i
  <2>3. QED BY <1>4, <2>1, <2>2 DEF Book!With
<1> HIDE DEF i
<1>6. NumbersInv'
  BY <1>1, <1>2, <1>3 DEF NumbersInv, i
<1>7. StampInv'
  <2>1. DOMAIN catalogue' \subseteq 1..numbered'.stamps
    BY <1>2, <1>3, <1>5 DEF StampInv, i
  <2>2. \A j \in DOMAIN catalogue' : /\ catalogue'[j].activity \in DOMAIN activities'
                                     /\ catalogue'[j].entry \in CatalogueIds \cup {Null}
    BY <1>1, <1>2, <1>5 DEF StampInv
  <2>3. \A j, k \in DOMAIN catalogue' :
           catalogue'[j].entry = catalogue'[k].entry /\ catalogue'[j].entry \in CatalogueIds => j = k
    BY <1>2, <1>5, CatalogueNulls DEF StampInv
  <2>4. QED BY <2>1, <2>2, <2>3 DEF StampInv
<1>8. \A e \in CatalogueIds : StampsOf(e)' = StampsOf(e) /\ PlacesOf(e)' = PlacesOf(e)
  BY <1>1, <1>5, CatalogueNulls DEF StampsOf, PlacesOf, Book!StampsOf, Book!PlacesOf
<1>9. SettledInv'
  <2> SUFFICES ASSUME NEW e \in CatalogueIds, e \notin disturbed PROVE OneEach(e)'
    BY <1>1 DEF SettledInv
  <2>1. OneEach(e)
    BY <1>2 DEF SettledInv
  <2>2. \A j \in StampsOf(e) : j \in DOMAIN catalogue
    BY DEF StampsOf, Book!StampsOf
  <2>3. QED BY <1>1, <1>5, <1>8, <2>1, <2>2 DEF OneEach
<1>10. FoundInv'
  <2>1. ASSUME NEW e \in CatalogueIds, NEW found, StillSo(e, found) PROVE StillSo(e, found)'
    BY <1>1, <1>3, <1>8, <2>1 DEF StillSo
  <2>2. QED BY <1>1, <1>2, <2>1 DEF FoundInv
<1>11. StopsInv'
  BY <1>1, <1>2, <1>5 DEF StopsInv
<1>12. QED BY <1>6, <1>7, <1>9, <1>10, <1>11 DEF CatalogueInv
(* What goes with the rows of stamps. *)
LEMMA CascadeIs ==
  ASSUME CatalogueInv, NEW gone, Book!Cascade(gone)
  PROVE  /\ DOMAIN catalogue' = DOMAIN catalogue \ gone
         /\ \A i \in DOMAIN catalogue' : catalogue'[i] = catalogue[i]
         /\ StopsInv'
<1>1. DOMAIN catalogue' = DOMAIN catalogue \ gone
      /\ \A i \in DOMAIN catalogue' : catalogue'[i] = catalogue[i]
  BY DEF Book!Cascade
<1>2. StopsInv
  BY DEF CatalogueInv
<1>3. published' = [c \in Courses |-> [published[c] EXCEPT !.stops = @ \ gone]]
  BY DEF Book!Cascade
<1>4. ASSUME NEW c \in Courses
      PROVE  /\ published'[c] = [published |-> published'[c].published, stops |-> published'[c].stops]
             /\ published'[c].stops \subseteq DOMAIN catalogue'
  <2>1. published[c] = [published |-> published[c].published, stops |-> published[c].stops]
    BY <1>2 DEF StopsInv
  <2>2. published[c].stops \subseteq DOMAIN catalogue
    BY <1>2 DEF StopsInv
  <2>3. published'[c] = [published |-> published[c].published, stops |-> published[c].stops \ gone]
    BY <1>3, <2>1
  <2>4. QED BY <1>1, <2>2, <2>3
<1>5. QED BY <1>1, <1>3, <1>4 DEF StopsInv

LEMMA RemoveStampKeeps ==
  ASSUME CatalogueInv, NEW i, Book!RemoveStamp(i)
  PROVE  CatalogueInv'
<1>1. /\ i \in DOMAIN catalogue /\ Book!Cascade({i})
      /\ UNCHANGED <<activities, numbered, seeding>>
      /\ disturbed \subseteq disturbed'
      /\ (\E s \in Users : seeding[s] # Null) => catalogue[i].entry \in disturbed'
  BY DEF Book!RemoveStamp
<1>2. NumbersInv /\ StampInv /\ SettledInv /\ FoundInv /\ StopsInv
  BY DEF CatalogueInv
<1>3. /\ DOMAIN catalogue' = DOMAIN catalogue \ {i}
      /\ \A j \in DOMAIN catalogue' : catalogue'[j] = catalogue[j]
      /\ StopsInv'
  BY <1>1, CascadeIs
<1>4. NumbersInv'
  BY <1>1, <1>2 DEF NumbersInv
<1>5. StampInv'
  BY <1>1, <1>2, <1>3 DEF StampInv
<1>6. \A e : /\ PlacesOf(e)' = PlacesOf(e) /\ StampsOf(e)' \subseteq StampsOf(e)
             /\ catalogue[i].entry # e => StampsOf(e)' = StampsOf(e)
  BY <1>1, <1>3 DEF StampsOf, PlacesOf, Book!StampsOf, Book!PlacesOf
<1>7. SettledInv'
  <2> SUFFICES ASSUME NEW e \in CatalogueIds, e \notin disturbed PROVE OneEach(e)'
    BY <1>1 DEF SettledInv
  <2>1. OneEach(e)
    BY <1>2 DEF SettledInv
  <2>2. \A j \in StampsOf(e)' : j \in DOMAIN catalogue'
    BY DEF StampsOf, Book!StampsOf
  <2>3. QED BY <1>1, <1>3, <1>6, <2>1, <2>2 DEF OneEach
<1>8. FoundInv'
  <2>1. ASSUME NEW s \in Users, seeding[s] # Null, NEW e \in CatalogueIds, e \notin disturbed',
               NEW found, StillSo(e, found)
        PROVE  StillSo(e, found)'
    <3>1. catalogue[i].entry # e
      BY <1>1, <2>1
    <3>2. QED BY <1>1, <1>6, <2>1, <3>1 DEF StillSo
  <2>2. QED BY <1>1, <1>2, <2>1 DEF FoundInv
<1>9. QED BY <1>3, <1>4, <1>5, <1>7, <1>8 DEF CatalogueInv

LEMMA RemoveActivityKeeps ==
  ASSUME CatalogueInv, NEW a, Book!RemoveActivity(a)
  PROVE  CatalogueInv'
<1> DEFINE gone == {i \in DOMAIN catalogue : catalogue[i].activity = a}
<1>1. /\ a \in DOMAIN activities /\ Book!Cascade(gone)
      /\ activities' = [b \in DOMAIN activities \ {a} |-> activities[b]]
      /\ UNCHANGED <<numbered, seeding, disturbed>>
  BY DEF Book!RemoveActivity
<1>2. NumbersInv /\ StampInv /\ SettledInv /\ FoundInv /\ StopsInv
  BY DEF CatalogueInv
<1>3. /\ DOMAIN catalogue' = DOMAIN catalogue \ gone
      /\ \A i \in DOMAIN catalogue' : catalogue'[i] = catalogue[i]
      /\ StopsInv'
  BY <1>1, CascadeIs
<1>4. /\ DOMAIN activities' = DOMAIN activities \ {a}
      /\ \A b \in DOMAIN activities' : activities'[b] = activities[b]
  BY <1>1
<1>5. NumbersInv'
  BY <1>1, <1>2, <1>4 DEF NumbersInv
<1>6. \A i \in DOMAIN catalogue' : i \in DOMAIN catalogue /\ catalogue[i].activity # a
  BY <1>3
<1>7. StampInv'
  BY <1>1, <1>2, <1>3, <1>4, <1>6 DEF StampInv
<1>8. \A e : /\ PlacesOf(e)' = PlacesOf(e) \ {a}
             /\ StampsOf(e)' = StampsOf(e) \ gone
  BY <1>3, <1>4 DEF StampsOf, PlacesOf, Book!StampsOf, Book!PlacesOf
<1>9. \A e : \A i \in StampsOf(e) : i \in DOMAIN catalogue
  BY DEF StampsOf, Book!StampsOf
<1>10. SettledInv'
  <2> SUFFICES ASSUME NEW e \in CatalogueIds, e \notin disturbed PROVE OneEach(e)'
    BY <1>1 DEF SettledInv
  <2>1. OneEach(e)
    BY <1>2 DEF SettledInv
  <2>2. ASSUME NEW i \in StampsOf(e)' PROVE activities'[catalogue'[i].activity].entry = e
    <3>1. i \in StampsOf(e) /\ i \in DOMAIN catalogue'
      BY <1>3, <1>8, <1>9, <2>2
    <3>2. catalogue'[i] = catalogue[i] /\ catalogue[i].activity \in DOMAIN activities'
      BY <1>2, <1>3, <1>4, <1>6, <3>1 DEF StampInv
    <3>3. QED BY <1>4, <2>1, <3>1, <3>2 DEF OneEach
  <2>3. \A b, d \in PlacesOf(e)' : b = d
    BY <1>8, <2>1 DEF OneEach
  <2>4. QED BY <2>2, <2>3 DEF OneEach
<1>11. FoundInv'
  <2>1. ASSUME NEW e \in CatalogueIds, e \notin disturbed, NEW found, StillSo(e, found)
        PROVE  StillSo(e, found)'
    <3>1. CASE found # Null
      BY <1>1, <1>4, <2>1, <3>1 DEF StillSo
    <3>2. CASE found = Null /\ PlacesOf(e) = {}
      BY <1>8, <3>2 DEF StillSo
    <3>3. CASE found = Null /\ StampsOf(e) # {} /\ StampsOf(e) \cap gone = {}
      BY <1>8, <3>3 DEF StillSo
    <3>4. ASSUME NEW i \in StampsOf(e) \cap gone, found = Null PROVE StillSo(e, found)'
      <4>1. OneEach(e)
        BY <1>2, <2>1 DEF SettledInv
      <4>2. activities[a].entry = e
        BY <3>4, <4>1 DEF OneEach
      <4>3. a \in PlacesOf(e)
        BY <1>1, <4>2 DEF PlacesOf, Book!PlacesOf
      <4>4. PlacesOf(e)' = {}
        BY <1>8, <4>1, <4>3 DEF OneEach
      <4>5. QED BY <3>4, <4>4 DEF StillSo
    <3>5. QED BY <2>1, <3>1, <3>2, <3>3, <3>4 DEF StillSo
  <2>2. QED BY <1>1, <1>2, <2>1 DEF FoundInv
<1>12. QED BY <1>3, <1>5, <1>7, <1>10, <1>11 DEF CatalogueInv

LEMMA ToggleKeeps ==
  ASSUME CatalogueInv, NEW a, Book!Toggle(a)
  PROVE  CatalogueInv'
<1>1. /\ a \in DOMAIN activities
      /\ activities' = [activities EXCEPT ![a].visible = ~@]
      /\ UNCHANGED <<catalogue, published, numbered, seeding, disturbed>>
  BY DEF Book!Toggle
<1>2. NumbersInv /\ StampInv /\ SettledInv /\ FoundInv /\ StopsInv
  BY DEF CatalogueInv
<1>3. /\ DOMAIN activities' = DOMAIN activities
      /\ activities' = [b \in DOMAIN activities' |-> activities'[b]]
      /\ \A b \in DOMAIN activities : /\ activities'[b].entry = activities[b].entry
                                       /\ DOMAIN activities'[b] = DOMAIN activities[b]
  <2>1. /\ DOMAIN activities' = DOMAIN activities
        /\ activities' = [b \in DOMAIN activities' |-> activities'[b]]
        /\ \A b \in DOMAIN activities \ {a} : activities'[b] = activities[b]
    BY <1>1, <1>2 DEF NumbersInv
  <2>2. DOMAIN activities[a] = {"entry", "visible"}
    BY <1>1, <1>2 DEF NumbersInv
  <2>3. PICK v : activities'[a] = [activities[a] EXCEPT !.visible = v]
    BY <1>1, <1>2 DEF NumbersInv
  <2>4. activities'[a].entry = activities[a].entry /\ DOMAIN activities'[a] = DOMAIN activities[a]
    BY <2>2, <2>3
  <2>5. QED BY <2>1, <2>4
<1>4. NumbersInv'
  BY <1>1, <1>2, <1>3 DEF NumbersInv
<1>5. StampInv' /\ StopsInv'
  BY <1>1, <1>2, <1>3 DEF StampInv, StopsInv
<1>6. \A e : PlacesOf(e)' = PlacesOf(e) /\ StampsOf(e)' = StampsOf(e)
  BY <1>1, <1>3 DEF PlacesOf, StampsOf, Book!PlacesOf, Book!StampsOf
<1>7. \A e : \A i \in StampsOf(e) : catalogue[i].activity \in DOMAIN activities
  BY <1>2 DEF StampInv, StampsOf, Book!StampsOf
<1>8. SettledInv'
  BY <1>1, <1>2, <1>3, <1>6, <1>7 DEF SettledInv, OneEach
<1>9. FoundInv'
  <2>1. ASSUME NEW e, NEW found, StillSo(e, found) PROVE StillSo(e, found)'
    BY <1>1, <1>3, <1>6, <2>1 DEF StillSo
  <2>2. QED BY <1>1, <1>2, <2>1 DEF FoundInv
<1>10. QED BY <1>4, <1>5, <1>8, <1>9 DEF CatalogueInv

LEMMA EditCourseKeeps ==
  ASSUME CatalogueInv, NEW c \in Courses, Book!EditCourse(c)
  PROVE  CatalogueInv'
<1>1. UNCHANGED <<activities, catalogue, numbered, seeding, disturbed>>
  BY DEF Book!EditCourse
<1>2. NumbersInv /\ StampInv /\ SettledInv /\ FoundInv /\ StopsInv
  BY DEF CatalogueInv
<1>3. NumbersInv' /\ StampInv' /\ SettledInv'
  BY <1>1, <1>2 DEF NumbersInv, StampInv, SettledInv, OneEach,
                    PlacesOf, StampsOf, Book!PlacesOf, Book!StampsOf
<1>4. FoundInv'
  BY <1>1, <1>2 DEF FoundInv, StillSo, PlacesOf, StampsOf, Book!PlacesOf, Book!StampsOf
<1>5. published[c] = [published |-> published[c].published, stops |-> published[c].stops]
      /\ published[c].stops \subseteq DOMAIN catalogue
  BY <1>2 DEF StopsInv
<1>6. StopsInv'
  <2>1. CASE published' = [published EXCEPT ![c].published = ~@]
    BY <1>1, <1>2, <1>5, <2>1 DEF StopsInv
  <2>2. ASSUME NEW i \in DOMAIN catalogue,
               published' = [published EXCEPT ![c].stops = IF i \in @ THEN @ \ {i} ELSE @ \cup {i}]
        PROVE  StopsInv'
    BY <1>1, <1>2, <1>5, <2>2 DEF StopsInv
  <2>3. QED BY <2>1, <2>2 DEF Book!EditCourse
<1>7. QED BY <1>3, <1>4, <1>6 DEF CatalogueInv

LEMMA CatalogueStep == CatalogueInv /\ [Book!CatalogueNext]_(Book!catalogueVars) => CatalogueInv'
<1> SUFFICES ASSUME CatalogueInv, [Book!CatalogueNext]_(Book!catalogueVars) PROVE CatalogueInv'
  OBVIOUS
<1>1. ASSUME UNCHANGED <<activities, catalogue, published, numbered, seeding, disturbed>>
      PROVE  CatalogueInv'
  <2>1. NumbersInv' /\ StampInv' /\ SettledInv' /\ StopsInv'
    BY <1>1 DEF CatalogueInv, NumbersInv, StampInv, SettledInv, StopsInv, OneEach,
                PlacesOf, StampsOf, Book!PlacesOf, Book!StampsOf
  <2>2. FoundInv'
    BY <1>1 DEF CatalogueInv, FoundInv, StillSo, PlacesOf, StampsOf, Book!PlacesOf, Book!StampsOf
  <2>3. QED BY <2>1, <2>2 DEF CatalogueInv
<1>2. CASE UNCHANGED Book!catalogueVars
  BY <1>1, <1>2 DEF Book!catalogueVars
<1>3. ASSUME NEW i, Book!Collect(i) PROVE CatalogueInv'
  BY <1>1, <1>3 DEF Book!Collect
<1>4. CASE Book!CatalogueNext
  BY <1>3, <1>4, SeedReadKeeps, SeedWriteKeeps, SeedFailKeeps, AddStampKeeps, RemoveStampKeeps,
     RemoveActivityKeeps, ToggleKeeps, EditCourseKeeps DEF Book!CatalogueNext
<1>5. QED BY <1>2, <1>4

LEMMA CatalogueInductive == Book!CatalogueSpec => []CatalogueInv
  BY CatalogueInitially, CatalogueStep, PTL DEF Book!CatalogueSpec
(* However many seedings overlap, with one another and with places deleted,   *)
(* an entry has at most one place and its stamp is of it, unless its stamp    *)
(* was deleted while a seeding ran.                                           *)
THEOREM OnePlaceEach == RowsSpec => []SeededOnce
<1>1. CatalogueInv => Book!SeededOnce
  <2> SUFFICES ASSUME CatalogueInv, NEW e \in CatalogueIds, e \notin disturbed
               PROVE  /\ Book!Cardinality(PlacesOf(e)) <= 1
                      /\ \A i \in StampsOf(e) : PlacesOf(e) = {catalogue[i].activity}
    BY DEF Book!SeededOnce, PlacesOf, StampsOf
  <2>1. OneEach(e)
    BY DEF CatalogueInv, SettledInv
  <2>2. Cardinality(PlacesOf(e)) <= 1
    <3>1. CASE PlacesOf(e) = {}
      BY <3>1, FS_EmptySet
    <3>2. ASSUME NEW a \in PlacesOf(e) PROVE Cardinality(PlacesOf(e)) <= 1
      <4>1. PlacesOf(e) = {a}
        BY <2>1, <3>2 DEF OneEach
      <4>2. QED BY <4>1, FS_Singleton
    <3>3. QED BY <3>1, <3>2
  <2>3. ASSUME NEW i \in StampsOf(e) PROVE PlacesOf(e) = {catalogue[i].activity}
    <3>1. catalogue[i].activity \in DOMAIN activities
      BY <2>3 DEF StampsOf, Book!StampsOf, CatalogueInv, StampInv
    <3>2. catalogue[i].activity \in PlacesOf(e)
      BY <2>1, <2>3, <3>1 DEF OneEach, PlacesOf, Book!PlacesOf
    <3>3. QED BY <2>1, <3>2 DEF OneEach
  <2>4. QED BY <2>2, <2>3, CardinalityIs
<1>2. QED BY <1>1, CatalogueInductive, RowsParts, PTL DEF SeededOnce

------------------------------------------------------------------------------
(* The book has a row for each entry: the row of its stamp, or of none. *)
RowOf == [e \in CatalogueIds |->
             <<e, IF StampsOf(e) = {} THEN Null ELSE CHOOSE i \in StampsOf(e) : TRUE>>]

LEMMA RowOfEachEntry ==
  ASSUME CatalogueInv
  PROVE  /\ IsFiniteSet(Book!Book)
         /\ Cardinality(Book!Book) = Cardinality(CatalogueIds)
<1>1. StampInv /\ NumbersInv
  BY DEF CatalogueInv
<1>2. Null \notin DOMAIN catalogue
  BY <1>1, CatalogueNulls DEF StampInv
<1>3. \A e \in CatalogueIds : \A i, j \in StampsOf(e) : i = j
  BY <1>1 DEF StampInv, StampsOf, Book!StampsOf
<1>4. ASSUME NEW e \in CatalogueIds PROVE RowOf[e] \in Book!Book /\ RowOf[e][1] = e
  <2>1. CASE StampsOf(e) = {}
    BY <2>1 DEF RowOf, Book!Book, StampsOf
  <2>2. ASSUME NEW i \in StampsOf(e) PROVE RowOf[e] \in Book!Book /\ RowOf[e][1] = e
    <3>1. RowOf[e] = <<e, i>>
      BY <1>3, <2>2 DEF RowOf
    <3>2. i \in DOMAIN catalogue /\ catalogue[i].entry = e
      BY <2>2 DEF StampsOf, Book!StampsOf
    <3>3. QED BY <1>2, <3>1, <3>2 DEF Book!Book
  <2>3. QED BY <2>1, <2>2
<1>5. ASSUME NEW line \in Book!Book PROVE line[1] \in CatalogueIds /\ RowOf[line[1]] = line
  <2>1. PICK e \in CatalogueIds, i \in DOMAIN catalogue \cup {Null} : line = <<e, i>>
    BY <1>5 DEF Book!Book
  <2>2. CASE i = Null
    <3>1. StampsOf(e) = {}
      BY <1>5, <2>1, <2>2 DEF Book!Book, StampsOf
    <3>2. QED BY <2>1, <2>2, <3>1 DEF RowOf
  <2>3. CASE i # Null
    <3>1. i \in StampsOf(e)
      BY <1>5, <2>1, <2>3 DEF Book!Book, StampsOf, Book!StampsOf
    <3>2. QED BY <1>3, <2>1, <3>1 DEF RowOf
  <2>4. QED BY <2>2, <2>3
<1>6. RowOf \in [CatalogueIds -> Book!Book]
  BY <1>4 DEF RowOf
<1>7. ExistsBijection(CatalogueIds, Book!Book)
  <2> HIDE DEF RowOf
  <2>1. RowOf \in Bijection(CatalogueIds, Book!Book)
    BY <1>4, <1>5, <1>6 DEF Bijection, Injection, Surjection, IsInjective
  <2>2. QED BY <2>1 DEF ExistsBijection
<1>8. QED BY <1>7, FS_Bijection, EntriesAssumption
(* A row of the book has one of three states. *)
LEMMA SummaryAddsUp ==
  ASSUME IsFiniteSet(Book!Book)
  PROVE  Book!Summary["collected"] + Book!Summary["available"] + Book!Summary["locked"]
            = Cardinality(Book!Book)
<1> DEFINE At(status) == {line \in Book!Book : Book!Status(line[2]) = status}
           gathered == At("collected")
           ready == At("available")
           shut == At("locked")
<1>1. \A status \in {"collected", "available", "locked"} : Book!Summary[status] = Cardinality(At(status))
  BY CardinalityIs DEF Book!Summary
<1>2. /\ Book!Summary["collected"] = Cardinality(gathered)
      /\ Book!Summary["available"] = Cardinality(ready)
      /\ Book!Summary["locked"] = Cardinality(shut)
  BY <1>1
<1>3. gathered \in SUBSET Book!Book /\ ready \in SUBSET Book!Book /\ shut \in SUBSET Book!Book
  OBVIOUS
<1>4. \A line \in Book!Book : Book!Status(line[2]) \in {"collected", "available", "locked"}
  BY DEF Book!Status
<1>5. Book!Book = (gathered \cup ready) \cup shut
  BY <1>4
<1>6. gathered \cap ready = {} /\ (gathered \cup ready) \cap shut = {}
  OBVIOUS
<1> HIDE DEF gathered, ready, shut
<1>7. IsFiniteSet(gathered) /\ IsFiniteSet(ready) /\ IsFiniteSet(shut)
  BY <1>3, FS_Subset
<1>8. Cardinality(gathered) \in Nat /\ Cardinality(ready) \in Nat /\ Cardinality(shut) \in Nat
  BY <1>7, FS_CardinalityType
<1>9. /\ IsFiniteSet(gathered \cup ready)
      /\ Cardinality(gathered \cup ready) = Cardinality(gathered) + Cardinality(ready) - Cardinality({})
  BY <1>6, <1>7, FS_Union
<1>10. Cardinality((gathered \cup ready) \cup shut)
         = Cardinality(gathered \cup ready) + Cardinality(shut) - Cardinality({})
  BY <1>6, <1>7, <1>9, FS_Union
<1>11. Cardinality({}) = 0
  BY FS_EmptySet
<1>12. QED BY <1>2, <1>5, <1>8, <1>9, <1>10, <1>11

(* A mission that the count calls completed has all its stamps collected. *)
LEMMA CompletedIs ==
  ASSUME CatalogueInv, NEW c \in Courses, Book!Completed(c), NEW i \in published[c].stops
  PROVE  i \in owned
<1> DEFINE halts == published[c].stops
<1>1. halts \subseteq DOMAIN catalogue /\ DOMAIN catalogue \subseteq 1..numbered.stamps
      /\ numbered.stamps \in Nat
  BY DEF CatalogueInv, StopsInv, StampInv, NumbersInv
<1>2. Cardinality(halts \cap owned) = Cardinality(halts)
  BY CardinalityIs DEF Book!Completed
<1> HIDE DEF halts
<1>3. 0 \in Int /\ 1 \in Int /\ numbered.stamps \in Int
  BY <1>1
<1>4. IsFiniteSet(1..numbered.stamps)
  BY <1>3, FS_Interval
<1>5. IsFiniteSet(halts)
  BY <1>1, <1>4, FS_Subset
<1>6. halts = halts \cap owned
  BY <1>2, <1>5, FS_Subset
<1>7. QED BY <1>6 DEF halts

(* The pages agree: the book has a row for each entry and its counts add up,  *)
(* what it offers is what the list offers, and a completed mission's stamps    *)
(* are collected ones.                                                         *)
THEOREM PagesSayTheSame == RowsSpec => []PagesAgree
<1>1. ASSUME CatalogueInv PROVE Book!PagesAgree
  <2>1. Book!Cardinality(Book!Book) = Book!Cardinality(CatalogueIds) /\ IsFiniteSet(Book!Book)
    BY <1>1, RowOfEachEntry, CardinalityIs
  <2>2. Book!Summary["collected"] + Book!Summary["available"] + Book!Summary["locked"]
          = Book!Cardinality(CatalogueIds)
    BY <2>1, SummaryAddsUp, CardinalityIs
  <2>3. ASSUME NEW line \in Book!Book, Book!Status(line[2]) = "available",
               NEW a \in {catalogue[line[2]].activity}
        PROVE  /\ Book!published_courses(line[2]) # {}
               /\ activities[a].visible /\ Book!Offered(a) /\ Book!has_mission(a)
    <3>1. Book!Available(line[2])
      BY <2>3 DEF Book!Status
    <3>2. PICK c \in Courses : line[2] \in published[c].stops /\ Book!Open(c)
      BY <3>1 DEF Book!Available
    <3>3. line[2] \in DOMAIN catalogue /\ line[2] # Null
      BY <1>1, <3>1, <3>2 DEF CatalogueInv, StopsInv, Book!Available
    <3>4. c \in Book!published_courses(line[2])
      BY <3>2, <3>3 DEF Book!published_courses
    <3>5. activities[a].visible
      BY <2>3, <3>2 DEF Book!Open, Book!VisibleCourse
    <3>6. Book!Offered(a)
      BY <2>3, <3>3, <3>4 DEF Book!Offered
    <3>7. Book!has_mission(a)
      BY <2>3, <3>2, <3>3 DEF Book!has_mission, Book!Open
    <3>8. QED BY <3>4, <3>5, <3>6, <3>7
  <2>4. ASSUME NEW line \in Book!Book, Book!Status(line[2]) = "locked"
        PROVE  Book!published_courses(line[2]) = {}
    <3>1. ~Book!Available(line[2])
      BY <2>4 DEF Book!Status
    <3>2. QED BY <3>1 DEF Book!Available, Book!published_courses
  <2>5. ASSUME NEW c \in Book!mission_progress, Book!Completed(c), NEW i \in published[c].stops
        PROVE  Book!Status(i) = "collected"
    <3>1. c \in Courses
      BY <2>5 DEF Book!mission_progress
    <3>2. i \in owned
      BY <1>1, <2>5, <3>1, CompletedIs
    <3>3. QED BY <3>2 DEF Book!Status
  <2>6. QED BY <2>1, <2>2, <2>3, <2>4, <2>5 DEF Book!PagesAgree
<1>2. QED BY <1>1, CatalogueInductive, RowsParts, PTL DEF PagesAgree

------------------------------------------------------------------------------
(* Numbers, orders and sequences *)

(* A set of numbers has a least one. *)
LEMMA LeastOf ==
  ASSUME NEW R, R # {}, R \in SUBSET Nat
  PROVE  \E n \in R : \A m \in R : n <= m
<1> DEFINE less == {ss \in Nat \X Nat : ss[1] < ss[2]}
<1>1. IsWellFoundedOn(less, Nat)
  BY NatLessThanWellFounded DEF OpToRel
<1>2. \E n \in R : \A m \in R : <<m, n>> \notin less
  <2> HIDE DEF less
  <2>1. QED BY <1>1, WFMin
<1>3. PICK n \in R : \A m \in R : <<m, n>> \notin less
  BY <1>2
<1>4. ASSUME NEW m \in R PROVE n <= m
  <2>1. m \in Nat /\ n \in Nat /\ <<m, n>> \in Nat \X Nat
    OBVIOUS
  <2>2. ~(m < n)
    BY <1>3, <2>1
  <2>3. QED BY <2>1, <2>2
<1>5. QED BY <1>4

(* A set of numbers that has 0, and the next of each, has them all. *)
LEMMA Counting ==
  ASSUME NEW A, 0 \in A, \A n \in Nat : n \in A => n + 1 \in A
  PROVE  \A n \in Nat : n \in A
<1> SUFFICES ASSUME Nat \ A # {} PROVE FALSE
  OBVIOUS
<1>1. PICK n \in Nat \ A : \A m \in Nat \ A : n <= m
  BY LeastOf
<1>2. n # 0 /\ n - 1 \in Nat /\ n - 1 + 1 = n
  BY <1>1
<1>3. n - 1 \in A
  BY <1>1, <1>2
<1>4. QED BY <1>1, <1>2, <1>3

LEMMA UpTo ==
  ASSUME NEW m \in Nat
  PROVE  IsFiniteSet(1..m) /\ Cardinality(1..m) = m
<1>1. 1 \in Int /\ m \in Int
  OBVIOUS
<1>2. IsFiniteSet(1..m) /\ Cardinality(1..m) = IF 1 > m THEN 0 ELSE m - 1 + 1
  BY <1>1, FS_Interval
<1>3. QED BY <1>2

(* Tuples of one length are in a strict order that is total. *)
LEMMA LessIsOrder ==
  ASSUME NEW n \in Nat, NEW u \in [1..n -> Int], NEW v \in [1..n -> Int], NEW w \in [1..n -> Int]
  PROVE  /\ ~Less(u, u)
         /\ Less(u, v) /\ Less(v, w) => Less(u, w)
         /\ u # v => Less(u, v) \/ Less(v, u)
<1>1. ~Less(u, u)
  BY DEF Less
<1>2. ASSUME Less(u, v), Less(v, w) PROVE Less(u, w)
  <2>1. PICK i \in 1..n : u[i] < v[i] /\ \A j \in 1..(i - 1) : u[j] = v[j]
    BY <1>2 DEF Less
  <2>2. PICK k \in 1..n : v[k] < w[k] /\ \A j \in 1..(k - 1) : v[j] = w[j]
    BY <1>2 DEF Less
  <2>3. CASE i <= k
    <3>1. u[i] < w[i]
      BY <2>1, <2>2, <2>3
    <3>2. \A j \in 1..(i - 1) : u[j] = w[j]
      BY <2>1, <2>2, <2>3
    <3>3. QED BY <3>1, <3>2 DEF Less
  <2>4. CASE k < i
    <3>1. u[k] < w[k]
      BY <2>1, <2>2, <2>4
    <3>2. \A j \in 1..(k - 1) : u[j] = w[j]
      BY <2>1, <2>2, <2>4
    <3>3. QED BY <3>1, <3>2 DEF Less
  <2>5. QED BY <2>3, <2>4
<1>3. ASSUME u # v PROVE Less(u, v) \/ Less(v, u)
  <2> DEFINE differ == {i \in 1..n : u[i] # v[i]}
  <2>1. differ # {} /\ differ \in SUBSET Nat
    <3>1. u = [i \in 1..n |-> u[i]] /\ v = [i \in 1..n |-> v[i]]
      OBVIOUS
    <3>2. \E i \in 1..n : u[i] # v[i]
      BY <1>3, <3>1
    <3>3. differ # {}
      BY <3>2
    <3>4. differ \in SUBSET Nat
      OBVIOUS
    <3>5. QED BY <3>3, <3>4
  <2>2. PICK i \in differ : \A m \in differ : i <= m
    <3> HIDE DEF differ
    <3>1. QED BY <2>1, LeastOf
  <2>3. i \in 1..n /\ u[i] # v[i] /\ u[i] \in Int /\ v[i] \in Int
    BY <2>2
  <2>4. \A j \in 1..(i - 1) : u[j] = v[j]
    BY <2>2, <2>3
  <2>5. CASE u[i] < v[i]
    BY <2>3, <2>4, <2>5 DEF Less
  <2>6. CASE v[i] < u[i]
    BY <2>3, <2>4, <2>6 DEF Less
  <2>7. QED BY <2>3, <2>5, <2>6
<1>4. QED BY <1>1, <1>2, <1>3

(* A finite set of members with different keys, in the order of the keys. *)
LEMMA SortedIs ==
  ASSUME NEW S, IsFiniteSet(S), NEW n \in Nat, NEW key,
         \A p \in S : key[p] \in [1..n -> Int],
         \A p, q \in S : key[p] = key[q] => p = q
  PROVE  /\ Sorted(S, key) \in Seq(S) /\ Len(Sorted(S, key)) = Cardinality(S)
         /\ \A p \in S : \E i \in 1..Cardinality(S) : Sorted(S, key)[i] = p
         /\ \A i, j \in 1..Cardinality(S) :
               i < j => Less(key[Sorted(S, key)[i]], key[Sorted(S, key)[j]])
<1> DEFINE below(p) == {q \in S : Less(key[q], key[p])}
           c == Cardinality(S)
           rank == [p \in S |-> Cardinality(below(p))]
           sorted == Sorted(S, key)
<1>1. c \in Nat
  BY FS_CardinalityType
<1>2. \A p \in S : IsFiniteSet(below(p)) /\ Cardinality(below(p)) \in Nat
  <2>1. ASSUME NEW p \in S PROVE IsFiniteSet(below(p)) /\ Cardinality(below(p)) \in Nat
    <3>1. below(p) \in SUBSET S
      OBVIOUS
    <3> HIDE DEF below
    <3>2. QED BY <3>1, FS_Subset, FS_CardinalityType
  <2>2. QED BY <2>1
<1>3. ASSUME NEW p \in S, NEW q \in S, Less(key[p], key[q])
      PROVE  Cardinality(below(p)) < Cardinality(below(q))
  <2>1. below(p) \in SUBSET below(q)
    BY <1>3, LessIsOrder
  <2>2. p \in below(q) /\ p \notin below(p)
    BY <1>3, LessIsOrder
  <2>3. IsFiniteSet(below(q)) /\ Cardinality(below(q)) \in Nat /\ Cardinality(below(p)) \in Nat
    BY <1>2
  <2> HIDE DEF below
  <2>4. Cardinality(below(p)) <= Cardinality(below(q)) /\ Cardinality(below(p)) # Cardinality(below(q))
    BY <2>1, <2>2, <2>3, FS_Subset
  <2>5. QED BY <2>3, <2>4
<1>4. \A p, q \in S : p # q => Less(key[p], key[q]) \/ Less(key[q], key[p])
  BY LessIsOrder
<1>5. rank \in Injection(S, 0..(c - 1))
  <2>1. ASSUME NEW p \in S PROVE Cardinality(below(p)) \in 0..(c - 1)
    <3>1. below(p) \in SUBSET S /\ p \notin below(p)
      BY LessIsOrder
    <3> HIDE DEF below
    <3>2. Cardinality(below(p)) <= c /\ Cardinality(below(p)) # c
      BY <3>1, FS_Subset
    <3>3. QED BY <1>1, <1>2, <3>2
  <2>2. \A p, q \in S : Cardinality(below(p)) = Cardinality(below(q)) => p = q
    <3> HIDE DEF below
    <3>1. QED BY <1>2, <1>3, <1>4
  <2> HIDE DEF below
  <2>3. QED BY <2>1, <2>2 DEF Injection, IsInjective
<1>6. rank \in Surjection(S, 0..(c - 1))
  <2>1. IsFiniteSet(0..(c - 1)) /\ Cardinality(0..(c - 1)) = c
    <3>1. 0 \in Int /\ c - 1 \in Int
      BY <1>1
    <3> HIDE DEF c
    <3>2. QED BY <1>1, <3>1, FS_Interval
  <2> HIDE DEF rank
  <2>2. QED BY <1>5, <2>1, FS_Injection
<1>7. \A i \in 1..c : \E p \in S : Cardinality(below(p)) = i - 1
  <2>1. ASSUME NEW i \in 1..c PROVE \E p \in S : Cardinality(below(p)) = i - 1
    <3>1. i - 1 \in 0..(c - 1)
      BY <1>1
    <3>2. PICK p \in S : rank[p] = i - 1
      <4> HIDE DEF rank
      <4>1. QED BY <1>6, <3>1 DEF Surjection
    <3>3. QED BY <3>2
  <2>2. QED BY <2>1
<1>8. sorted = [i \in 1..c |-> CHOOSE p \in S : Cardinality(below(p)) = i - 1]
  BY DEF Sorted
<1> HIDE DEF below, sorted, rank, c
<1>9. \A i \in 1..c : sorted[i] \in S /\ Cardinality(below(sorted[i])) = i - 1
  BY <1>7, <1>8
<1>10. sorted \in Seq(S) /\ Len(sorted) = c
  <2>1. sorted \in [1..c -> S]
    BY <1>8, <1>9
  <2>2. sorted \in Seq(S)
    BY <1>1, <2>1, SeqDef
  <2>3. DOMAIN sorted = 1..c /\ DOMAIN sorted = 1..Len(sorted) /\ Len(sorted) \in Nat
    BY <2>1, <2>2
  <2>4. QED BY <1>1, <2>2, <2>3
<1>11. ASSUME NEW p \in S PROVE \E i \in 1..c : sorted[i] = p
  <2>1. rank[p] \in 0..(c - 1) /\ rank[p] = Cardinality(below(p))
    BY <1>5 DEF Injection, rank
  <2>2. rank[p] + 1 \in 1..c /\ rank[p] + 1 - 1 = rank[p]
    BY <1>1, <2>1
  <2>3. Cardinality(below(sorted[rank[p] + 1])) = Cardinality(below(p)) /\ sorted[rank[p] + 1] \in S
    BY <1>9, <2>1, <2>2
  <2>4. sorted[rank[p] + 1] = p
    BY <1>2, <1>3, <1>4, <2>3
  <2>5. QED BY <2>2, <2>4
<1>12. ASSUME NEW i \in 1..c, NEW j \in 1..c, i < j
       PROVE  Less(key[sorted[i]], key[sorted[j]])
  <2>1. sorted[i] \in S /\ sorted[j] \in S /\ Cardinality(below(sorted[i])) < Cardinality(below(sorted[j]))
    BY <1>1, <1>9, <1>12
  <2>2. ~Less(key[sorted[j]], key[sorted[i]]) /\ sorted[i] # sorted[j]
    BY <1>2, <1>3, <2>1
  <2>3. QED BY <1>4, <2>1, <2>2
<1>13. QED BY <1>10, <1>11, <1>12 DEF sorted, c


(* The members of a sequence that are in a set, in their order. *)
LEMMA AmongIs ==
  ASSUME NEW T, NEW s \in Seq(T), NEW S
  PROVE  /\ Among(s, S) \in Seq(T \cap S) /\ Len(Among(s, S)) <= Len(s)
         /\ \A n \in DOMAIN Among(s, S) : Among(s, S)[n] \in S
                                          /\ \E i \in DOMAIN s : Among(s, S)[n] = s[i]
         /\ \A i \in DOMAIN s : s[i] \in S =>
               \E n \in DOMAIN Among(s, S) : Among(s, S)[n] = s[i]
         /\ s # <<>> /\ s[1] \in S => Among(s, S) # <<>> /\ Among(s, S)[1] = s[1]
<1> DEFINE I == {i \in DOMAIN s : s[i] \in S}
           key == [i \in DOMAIN s |-> <<i>>]
           at == Sorted(I, key)
           c == Cardinality(I)
<1>1. DOMAIN s = 1..Len(s) /\ Len(s) \in Nat /\ I \in SUBSET (1..Len(s))
  OBVIOUS
<1>2. IsFiniteSet(I) /\ c \in Nat /\ c <= Len(s)
  <2> HIDE DEF I
  <2>1. IsFiniteSet(1..Len(s)) /\ Cardinality(1..Len(s)) = Len(s)
    BY <1>1, UpTo
  <2>2. IsFiniteSet(I) /\ Cardinality(I) <= Cardinality(1..Len(s))
    BY <1>1, <2>1, FS_Subset
  <2>3. QED BY <2>1, <2>2, FS_CardinalityType
<1>3. \A i \in I : key[i] \in [1..1 -> Int] /\ key[i][1] = i
  BY <1>1
<1>4. \A i, j \in I : key[i] = key[j] => i = j
  BY <1>3
<1>5. Among(s, S) = [n \in DOMAIN at |-> s[at[n]]]
  BY DEF Among
<1> HIDE DEF I, key
<1>6. /\ at \in Seq(I) /\ Len(at) = c
      /\ \A p \in I : \E i \in 1..c : at[i] = p
      /\ \A i, j \in 1..c : i < j => Less(key[at[i]], key[at[j]])
  BY <1>2, <1>3, <1>4, SortedIs
<1> DEFINE a == Among(s, S)
<1> HIDE DEF at, c, a
<1>7. DOMAIN at = 1..c /\ \A n \in 1..c : at[n] \in I
  BY <1>2, <1>6
<1>8. \A n \in 1..c : a[n] = s[at[n]] /\ at[n] \in DOMAIN s /\ a[n] \in S /\ a[n] \in T
  <2>1. \A i \in I : i \in DOMAIN s /\ s[i] \in S /\ s[i] \in T
    BY <1>1, ElementOfSeq DEF I
  <2>2. QED BY <1>5, <1>7, <2>1 DEF a
<1>9. a \in Seq(T \cap S) /\ Len(a) = c /\ DOMAIN a = 1..c
  <2>1. a \in [1..c -> T \cap S]
    BY <1>5, <1>7, <1>8 DEF a
  <2>2. a \in Seq(T \cap S)
    BY <1>2, <2>1, SeqDef
  <2>3. DOMAIN a = 1..c /\ DOMAIN a = 1..Len(a) /\ Len(a) \in Nat
    BY <2>1, <2>2
  <2>4. QED BY <1>2, <2>2, <2>3
<1>10. ASSUME NEW i \in DOMAIN s, s[i] \in S PROVE \E n \in DOMAIN a : a[n] = s[i]
  <2>1. i \in I
    BY <1>10 DEF I
  <2>2. PICK n \in 1..c : at[n] = i
    BY <1>6, <2>1
  <2>3. QED BY <1>8, <1>9, <2>2
<1>11. ASSUME s # <<>>, s[1] \in S PROVE a # <<>> /\ a[1] = s[1]
  <2>1. 1 \in I
    BY <1>1, <1>11 DEF I
  <2>2. PICK n \in 1..c : at[n] = 1
    BY <1>6, <2>1
  <2>3. n = 1
    <3>1. ASSUME 1 < n PROVE FALSE
      <4>1. 1 \in 1..c /\ Less(key[at[1]], key[1])
        BY <1>2, <1>6, <2>2, <3>1
      <4>2. at[1] \in I
        BY <1>7, <4>1
      <4>3. at[1] \in 1..Len(s)
        BY <1>1, <4>2
      <4>4. key[1] \in [1..1 -> Int] /\ key[1][1] = 1 /\ key[at[1]] \in [1..1 -> Int] /\ key[at[1]][1] = at[1]
        BY <1>3, <2>1, <4>2
      <4>5. \E i \in 1..1 : key[at[1]][i] < key[1][i]
        BY <4>1, <4>4 DEF Less
      <4>6. at[1] < 1
        BY <4>4, <4>5
      <4>7. QED BY <1>1, <4>3, <4>6
    <3>2. QED BY <1>2, <3>1
  <2>4. QED BY <1>2, <1>8, <1>9, <2>2, <2>3
<1>12. QED BY <1>2, <1>8, <1>9, <1>10, <1>11 DEF a

(* The sums of the first numbers of a sequence. *)
SumsOf(s, f) == f = [i \in 0..Len(s) |-> IF i = 0 THEN 0 ELSE f[i - 1] + s[i]]

LEMMA SumsExist ==
  ASSUME NEW s \in Seq(Int)
  PROVE  \E f : SumsOf(s, f)
<1> DEFINE A == {n \in Nat : \E f : f = [i \in 0..n |-> IF i = 0 THEN 0 ELSE f[i - 1] + s[i]]}
<1>1. 0 \in A
  <2> DEFINE f == [i \in 0..0 |-> 0]
  <2>1. f = [i \in 0..0 |-> IF i = 0 THEN 0 ELSE f[i - 1] + s[i]]
    OBVIOUS
  <2> HIDE DEF f
  <2>2. QED BY <2>1
<1>2. ASSUME NEW n \in Nat, n \in A PROVE n + 1 \in A
  <2>1. PICK f : f = [i \in 0..n |-> IF i = 0 THEN 0 ELSE f[i - 1] + s[i]]
    BY <1>2
  <2> DEFINE g == [i \in 0..(n + 1) |-> IF i = n + 1 THEN f[n] + s[n + 1] ELSE f[i]]
  <2>2. \A i \in 0..(n + 1) : g[i] = IF i = 0 THEN 0 ELSE g[i - 1] + s[i]
    <3>1. ASSUME NEW i \in 0..(n + 1) PROVE g[i] = IF i = 0 THEN 0 ELSE g[i - 1] + s[i]
      <4>1. CASE i = n + 1
        BY <4>1
      <4>2. CASE i # n + 1
        <5>1. i \in 0..n /\ g[i] = f[i]
          BY <4>2
        <5>2. f[i] = IF i = 0 THEN 0 ELSE f[i - 1] + s[i]
          BY <2>1, <5>1
        <5>3. i # 0 => g[i - 1] = f[i - 1]
          BY <5>1
        <5>4. QED BY <5>1, <5>2, <5>3
      <4>3. QED BY <4>1, <4>2
    <3>2. QED BY <3>1
  <2>3. g = [i \in 0..(n + 1) |-> g[i]]
    OBVIOUS
  <2> HIDE DEF g
  <2>4. g = [i \in 0..(n + 1) |-> IF i = 0 THEN 0 ELSE g[i - 1] + s[i]]
    BY <2>2, <2>3
  <2>5. \E h : h = [i \in 0..(n + 1) |-> IF i = 0 THEN 0 ELSE h[i - 1] + s[i]]
    BY <2>4
  <2>6. n + 1 \in Nat
    OBVIOUS
  <2>7. QED BY <2>5, <2>6
<1> HIDE DEF A
<1>3. \A n \in Nat : n \in A
  BY <1>1, <1>2, Counting
<1>4. Len(s) \in A
  BY <1>3
<1>5. QED BY <1>4 DEF A, SumsOf

LEMMA SumUnfolds ==
  ASSUME NEW s \in Seq(Int)
  PROVE  \E f : SumsOf(s, f) /\ Sum(s) = f[Len(s)]
  BY SumsExist DEF SumsOf, Sum

(* Sums of numbers are numbers, and grow one by one. *)
LEMMA SumIs ==
  ASSUME NEW s \in Seq(Int), NEW f, SumsOf(s, f)
  PROVE  /\ \A i \in 0..Len(s) : f[i] \in Int
         /\ (\A i \in 1..Len(s) : s[i] >= 0) => \A i \in 0..Len(s) : f[i] >= 0
<1>1. Len(s) \in Nat /\ \A i \in 1..Len(s) : s[i] \in Int
  BY ElementOfSeq
<1>2. \A i \in 0..Len(s) : f[i] = IF i = 0 THEN 0 ELSE f[i - 1] + s[i]
  BY DEF SumsOf
<1> DEFINE A == {n \in Nat : n \in 0..Len(s) => f[n] \in Int}
<1>3. 0 \in A
  BY <1>1, <1>2
<1>4. ASSUME NEW n \in Nat, n \in A PROVE n + 1 \in A
  <2>1. ASSUME n + 1 \in 0..Len(s) PROVE f[n + 1] \in Int
    <3>1. n \in 0..Len(s) /\ n + 1 \in 1..Len(s) /\ n + 1 - 1 = n
      BY <1>1, <2>1
    <3>2. f[n + 1] = f[n] + s[n + 1] /\ f[n] \in Int /\ s[n + 1] \in Int
      BY <1>1, <1>2, <1>4, <2>1, <3>1
    <3>3. QED BY <3>2
  <2>2. QED BY <2>1
<1> HIDE DEF A
<1>5. \A n \in Nat : n \in A
  BY <1>3, <1>4, Counting
<1>6. \A i \in 0..Len(s) : f[i] \in Int
  BY <1>1, <1>5 DEF A
<1>7. ASSUME \A i \in 1..Len(s) : s[i] >= 0 PROVE \A i \in 0..Len(s) : f[i] >= 0
  <2> DEFINE B == {n \in Nat : n \in 0..Len(s) => f[n] >= 0}
  <2>1. 0 \in B
    BY <1>1, <1>2
  <2>2. ASSUME NEW n \in Nat, n \in B PROVE n + 1 \in B
    <3>1. ASSUME n + 1 \in 0..Len(s) PROVE f[n + 1] >= 0
      <4>1. n \in 0..Len(s) /\ n + 1 \in 1..Len(s) /\ n + 1 - 1 = n
        BY <1>1, <3>1
      <4>2. f[n + 1] = f[n] + s[n + 1] /\ f[n] >= 0 /\ s[n + 1] >= 0
        BY <1>2, <1>7, <2>2, <3>1, <4>1
      <4>3. QED BY <1>1, <1>6, <4>1, <4>2
    <3>2. QED BY <3>1
  <2> HIDE DEF B
  <2>3. \A n \in Nat : n \in B
    BY <2>1, <2>2, Counting
  <2>4. QED BY <1>1, <2>3 DEF B
<1>8. QED BY <1>6, <1>7

LEMMA SumOfNothing == Sum(<<>>) = 0
<1>1. <<>> \in Seq(Int) /\ Len(<<>>) = 0
  OBVIOUS
<1>2. PICK f : SumsOf(<<>>, f) /\ Sum(<<>>) = f[0]
  BY <1>1, SumUnfolds
<1>3. QED BY <1>1, <1>2 DEF SumsOf

(* The sum of a longer sequence. *)
LEMMA SumOfMore ==
  ASSUME NEW s \in Seq(Int), NEW t \in Seq(Int), Len(t) = Len(s) + 1,
         \A i \in 1..Len(s) : t[i] = s[i]
  PROVE  Sum(t) = Sum(s) + t[Len(t)] /\ Sum(s) \in Int
<1>1. Len(s) \in Nat /\ Len(t) \in Nat
  OBVIOUS
<1>2. PICK f : SumsOf(s, f) /\ Sum(s) = f[Len(s)]
  BY SumUnfolds
<1>3. PICK g : SumsOf(t, g) /\ Sum(t) = g[Len(t)]
  BY SumUnfolds
<1>4. /\ \A i \in 0..Len(s) : f[i] = IF i = 0 THEN 0 ELSE f[i - 1] + s[i]
      /\ \A i \in 0..Len(t) : g[i] = IF i = 0 THEN 0 ELSE g[i - 1] + t[i]
  BY <1>2, <1>3 DEF SumsOf
<1> DEFINE A == {n \in Nat : n \in 0..Len(s) => f[n] = g[n]}
<1>5. 0 \in A
  BY <1>1, <1>4
<1>6. ASSUME NEW n \in Nat, n \in A PROVE n + 1 \in A
  <2>1. ASSUME n + 1 \in 0..Len(s) PROVE f[n + 1] = g[n + 1]
    <3>1. /\ n \in 0..Len(s) /\ n + 1 \in 0..Len(t) /\ n + 1 \in 1..Len(s)
          /\ n + 1 - 1 = n /\ n + 1 # 0
      BY <1>1, <2>1
    <3>2. f[n + 1] = f[n] + s[n + 1] /\ g[n + 1] = g[n] + t[n + 1] /\ f[n] = g[n]
      BY <1>4, <1>6, <2>1, <3>1
    <3>3. QED BY <3>1, <3>2
  <2>2. QED BY <2>1
<1> HIDE DEF A
<1>7. \A n \in Nat : n \in A
  BY <1>5, <1>6, Counting
<1>8. f[Len(s)] = g[Len(s)]
  BY <1>1, <1>7 DEF A
<1>9. g[Len(t)] = g[Len(s)] + t[Len(t)]
  <2>1. Len(t) \in 0..Len(t) /\ Len(t) # 0 /\ Len(t) - 1 = Len(s)
    BY <1>1
  <2>2. QED BY <1>4, <2>1
<1>10. Sum(s) \in Int
  BY <1>1, <1>2, SumIs
<1>11. QED BY <1>2, <1>3, <1>8, <1>9, <1>10

LEMMA SumNotNegative ==
  ASSUME NEW s \in Seq(Int), \A i \in 1..Len(s) : s[i] >= 0
  PROVE  Sum(s) >= 0 /\ Sum(s) \in Int
<1>1. PICK f : SumsOf(s, f) /\ Sum(s) = f[Len(s)]
  BY SumUnfolds
<1>2. Len(s) \in 0..Len(s)
  OBVIOUS
<1>3. QED BY <1>1, <1>2, SumIs

LEMMA FirstIs ==
  ASSUME NEW T, NEW s \in Seq(T), NEW n \in Nat
  PROVE  /\ First(s, n) \in Seq(T) /\ Len(First(s, n)) = IF n < Len(s) THEN n ELSE Len(s)
         /\ \A i \in 1..Len(First(s, n)) : First(s, n)[i] = s[i]
<1> DEFINE m == IF n < Len(s) THEN n ELSE Len(s)
<1>1. Len(s) \in Nat /\ m \in Int /\ m >= 0 /\ m <= Len(s) /\ 1 \in Int
  OBVIOUS
<1>2. \A i \in 1..Len(s) : s[i] \in T
  BY ElementOfSeq
<1>3. First(s, n) = SubSeq(s, 1, m)
  BY DEF First
<1> HIDE DEF m
<1>4. \A i \in 1..m : s[i] \in T
  BY <1>1, <1>2
<1>5. /\ SubSeq(s, 1, m) \in Seq(T) /\ Len(SubSeq(s, 1, m)) = (IF 1 <= m THEN m - 1 + 1 ELSE 0)
      /\ \A i \in 1..(m - 1 + 1) : SubSeq(s, 1, m)[i] = s[1 + i - 1]
  BY <1>1, <1>4, SubSeqProperties
<1>6. Len(First(s, n)) = m
  BY <1>1, <1>3, <1>5
<1>7. \A i \in 1..m : First(s, n)[i] = s[i]
  BY <1>1, <1>3, <1>5
<1>8. QED BY <1>3, <1>5, <1>6, <1>7 DEF m

LEMMA ToSetOfConcat ==
  ASSUME NEW T, NEW s \in Seq(T), NEW t \in Seq(T)
  PROVE  s \o t \in Seq(T) /\ ToSet(s \o t) = ToSet(s) \cup ToSet(t)
<1>1. /\ s \o t \in Seq(T) /\ Len(s \o t) = Len(s) + Len(t)
      /\ \A i \in 1..(Len(s) + Len(t)) :
            (s \o t)[i] = IF i <= Len(s) THEN s[i] ELSE t[i - Len(s)]
  BY ConcatProperties
<1> DEFINE st == s \o t
<1> HIDE DEF st
<1>2. /\ DOMAIN s = 1..Len(s) /\ DOMAIN t = 1..Len(t) /\ DOMAIN st = 1..(Len(s) + Len(t))
      /\ Len(s) \in Nat /\ Len(t) \in Nat
  BY <1>1 DEF st
<1>3. ASSUME NEW i \in DOMAIN st PROVE st[i] \in ToSet(s) \cup ToSet(t)
  <2>1. CASE i <= Len(s)
    BY <1>1, <1>2, <2>1 DEF ToSet, st
  <2>2. CASE ~(i <= Len(s))
    <3>1. i - Len(s) \in DOMAIN t /\ st[i] = t[i - Len(s)]
      BY <1>1, <1>2, <2>2 DEF st
    <3>2. QED BY <3>1 DEF ToSet
  <2>3. QED BY <2>1, <2>2
<1>4. ASSUME NEW i \in DOMAIN s PROVE s[i] \in ToSet(st)
  <2>1. i \in DOMAIN st /\ st[i] = s[i]
    BY <1>1, <1>2 DEF st
  <2>2. QED BY <2>1 DEF ToSet
<1>5. ASSUME NEW i \in DOMAIN t PROVE t[i] \in ToSet(st)
  <2>1. i + Len(s) \in DOMAIN st /\ ~(i + Len(s) <= Len(s)) /\ i + Len(s) - Len(s) = i
    BY <1>2
  <2>2. st[i + Len(s)] = t[i]
    BY <1>1, <1>2, <2>1 DEF st
  <2>3. QED BY <2>1, <2>2 DEF ToSet
<1>6. ToSet(st) = ToSet(s) \cup ToSet(t)
  BY <1>3, <1>4, <1>5 DEF ToSet
<1>7. QED BY <1>1, <1>6 DEF st

LEMMA ToSetOfFirst ==
  ASSUME NEW T, NEW s \in Seq(T), NEW n \in Nat
  PROVE  ToSet(First(s, n)) \subseteq ToSet(s)
<1>1. First(s, n) \in Seq(T) /\ Len(First(s, n)) <= Len(s) /\ Len(s) \in Nat
  BY FirstIs
<1>2. DOMAIN First(s, n) = 1..Len(First(s, n)) /\ DOMAIN s = 1..Len(s) /\ Len(First(s, n)) \in Nat
  BY <1>1
<1>3. \A i \in DOMAIN First(s, n) : i \in DOMAIN s /\ First(s, n)[i] = s[i]
  BY <1>1, <1>2, FirstIs
<1>4. QED BY <1>3 DEF ToSet

LEMMA SeqOfToSet ==
  ASSUME NEW T, NEW s \in Seq(T), NEW U, ToSet(s) \subseteq U
  PROVE  s \in Seq(U)
<1>1. DOMAIN s = 1..Len(s) /\ Len(s) \in Nat
  OBVIOUS
<1>2. \A i \in 1..Len(s) : s[i] \in U
  BY <1>1 DEF ToSet
<1>3. s \in [1..Len(s) -> U]
  BY <1>1, <1>2
<1>4. QED BY <1>1, <1>3, SeqDef

------------------------------------------------------------------------------
(* A recommended course *)

LEMMA MinutesIs == \A p \in Places : Minutes(p) \in Nat
<1> SUFFICES ASSUME NEW p \in Places PROVE Minutes(p) \in Nat
  OBVIOUS
<1>1. p.duration \in Int \cup {Null, Unreadable} /\ p.category \in {"tour", "sports", "event"}
  BY PlacesAssumption
<1>2. DefaultMinutes(p) \in Nat
  BY <1>1 DEF DefaultMinutes
<1>3. QED BY <1>1, <1>2 DEF Minutes

LEMMA TravelIs ==
  ASSUME NEW p \in Places, NEW q \in Places, InReach(p, q)
  PROVE  Distance(p, q) \in Nat /\ TravelMinutes(p, q) \in Nat
<1>1. Distance(p, q) # Null
  BY DEF InReach
<1>2. p.x \in Int \cup {Null} /\ q.x \in Int \cup {Null} /\ Null \notin Int
  BY PlacesAssumption
<1>3. Distance(p, q) \in Nat
  BY <1>1, <1>2 DEF Distance
<1>4. (Distance(p, q) * 3 + 19) \div 20 \in Nat
  BY <1>3
<1>5. QED BY <1>3, <1>4 DEF TravelMinutes

Along(s) == \A i \in 2..Len(s) : InReach(s[i - 1], s[i])

(* What is done on a course takes no longer than the course. *)
LEMMA TotalIs ==
  ASSUME NEW s \in Seq(Places), Along(s)
  PROVE  Total(s) \in Int /\ Stays(s) \in Int /\ Legs(s) \in Int /\ Stays(s) <= Total(s)
<1> DEFINE stay == [i \in DOMAIN s |-> Minutes(s[i])]
           leg == [i \in DOMAIN s |-> IF i = 1 THEN 0 ELSE TravelMinutes(s[i - 1], s[i])]
<1>1. Len(s) \in Nat /\ DOMAIN s = 1..Len(s) /\ \A i \in 1..Len(s) : s[i] \in Places
  BY ElementOfSeq
<1>2. \A i \in 1..Len(s) : stay[i] \in Nat
  BY <1>1, MinutesIs
<1>3. ASSUME NEW i \in 1..Len(s) PROVE leg[i] \in Nat
  <2>1. CASE i = 1
    BY <1>1, <2>1
  <2>2. CASE i # 1
    <3>1. i \in 2..Len(s) /\ i - 1 \in 1..Len(s)
      BY <1>1, <2>2
    <3>2. TravelMinutes(s[i - 1], s[i]) \in Nat
      BY <1>1, <3>1, TravelIs DEF Along
    <3>3. QED BY <1>1, <2>2, <3>2
  <2>3. QED BY <2>1, <2>2
<1>4. stay \in Seq(Int) /\ Len(stay) = Len(s)
  <2>1. stay \in [1..Len(s) -> Int]
    BY <1>1, <1>2
  <2>2. stay \in Seq(Int)
    BY <1>1, <2>1, SeqDef
  <2>3. DOMAIN stay = 1..Len(s) /\ DOMAIN stay = 1..Len(stay) /\ Len(stay) \in Nat
    BY <2>1, <2>2
  <2>4. QED BY <1>1, <2>2, <2>3
<1>5. leg \in Seq(Int) /\ Len(leg) = Len(s)
  <2>1. leg \in [1..Len(s) -> Int]
    <3>1. leg = [i \in 1..Len(s) |-> leg[i]]
      BY <1>1
    <3> HIDE DEF leg
    <3>2. QED BY <1>3, <3>1
  <2> HIDE DEF leg
  <2>2. leg \in Seq(Int)
    BY <1>1, <2>1, SeqDef
  <2>3. DOMAIN leg = 1..Len(s) /\ DOMAIN leg = 1..Len(leg) /\ Len(leg) \in Nat
    BY <2>1, <2>2
  <2>4. QED BY <1>1, <2>2, <2>3
<1>6. Total(s) = Sum(stay) + Sum(leg) /\ Stays(s) = Sum(stay) /\ Legs(s) = Sum(leg)
  BY DEF Total, Stays, Legs
<1> HIDE DEF stay, leg
<1>7. Sum(stay) \in Int /\ Sum(leg) \in Int /\ Sum(leg) >= 0
  <2>1. \A i \in 1..Len(stay) : stay[i] >= 0
    BY <1>2, <1>4
  <2>2. \A i \in 1..Len(leg) : leg[i] >= 0
    BY <1>3, <1>5
  <2>3. QED BY <1>4, <1>5, <2>1, <2>2, SumNotNegative
<1>8. QED BY <1>6, <1>7

LEMMA TotalOfOne == \A p \in Places : Total(<<p>>) = Minutes(p)
<1> SUFFICES ASSUME NEW p \in Places PROVE Total(<<p>>) = Minutes(p)
  OBVIOUS
<1>1. DOMAIN <<p>> = 1..1 /\ <<p>>[1] = p
  OBVIOUS
<1>2. [i \in DOMAIN <<p>> |-> Minutes(<<p>>[i])] = <<Minutes(p)>>
  BY <1>1
<1>3. [i \in DOMAIN <<p>> |-> IF i = 1 THEN 0 ELSE TravelMinutes(<<p>>[i - 1], <<p>>[i])] = <<0>>
  BY <1>1
<1>4. \A n \in Int : Sum(<<n>>) = n
  <2>1. ASSUME NEW n \in Int PROVE Sum(<<n>>) = n
    <3>1. <<>> \in Seq(Int) /\ <<n>> \in Seq(Int) /\ Len(<<n>>) = Len(<<>>) + 1 /\ <<n>>[Len(<<n>>)] = n
      OBVIOUS
    <3>2. \A i \in 1..Len(<<>>) : <<n>>[i] = <<>>[i]
      OBVIOUS
    <3>3. Sum(<<n>>) = Sum(<<>>) + n
      BY <3>1, <3>2, SumOfMore
    <3>4. QED BY <3>3, SumOfNothing
  <2>2. QED BY <2>1
<1>5. Minutes(p) \in Int
  BY MinutesIs
<1>6. Total(<<p>>) = Sum(<<Minutes(p)>>) + Sum(<<0>>)
  BY <1>2, <1>3 DEF Total, Stays, Legs
<1>7. QED BY <1>4, <1>5, <1>6

(* What the request leaves out is on no course. *)
Wanted(b) == {p \in Places : p.id \notin b.visited}

Course(s, b) ==
    /\ s \in Seq(Wanted(b)) /\ Along(s)
    /\ \A i, j \in DOMAIN s : i # j => s[i].id # s[j].id
    /\ s # <<>> => Total(s) <= b.minutes

LEMMA CourseOfNone == \A b : Course(<<>>, b)
  BY DEF Course, Along

LEMMA CourseOfOne ==
  ASSUME NEW b, NEW p \in Wanted(b), Minutes(p) <= b.minutes
  PROVE  Course(<<p>>, b)
<1>1. <<p>> \in Seq(Wanted(b)) /\ Len(<<p>>) = 1 /\ DOMAIN <<p>> = {1}
  OBVIOUS
<1>2. Total(<<p>>) <= b.minutes
  BY TotalOfOne DEF Wanted
<1>3. QED BY <1>1, <1>2 DEF Course, Along

LEMMA CourseGrows ==
  ASSUME NEW b, NEW s, Course(s, b), NEW p \in Wanted(b), p.id \notin Seen(s), Fits(s, p, b)
  PROVE  /\ Course(Append(s, p), b) /\ Append(s, p) # <<>> /\ Len(Append(s, p)) = Len(s) + 1
         /\ \A i \in 1..Len(s) : Append(s, p)[i] = s[i]
         /\ Append(s, p)[Len(s) + 1] = p
<1> DEFINE t == Append(s, p)
<1>1. s \in Seq(Wanted(b)) /\ Len(s) \in Nat /\ DOMAIN s = 1..Len(s)
  BY DEF Course
<1>2. /\ t \in Seq(Wanted(b)) /\ t # <<>> /\ Len(t) = Len(s) + 1
      /\ \A i \in 1..Len(s) : t[i] = s[i]
      /\ t[Len(s) + 1] = p
  BY <1>1, AppendProperties
<1> HIDE DEF t
<1>3. DOMAIN t = 1..(Len(s) + 1)
  BY <1>2
<1>4. ASSUME NEW i \in 2..Len(t) PROVE InReach(t[i - 1], t[i])
  <2>1. CASE i <= Len(s)
    <3>1. i \in 2..Len(s) /\ i \in 1..Len(s) /\ i - 1 \in 1..Len(s)
      BY <1>1, <1>4, <2>1
    <3>2. QED BY <1>2, <3>1 DEF Course, Along
  <2>2. CASE i = Len(s) + 1
    <3>1. s # <<>> /\ Len(s) \in 1..Len(s) /\ i - 1 = Len(s)
      BY <1>1, <1>4, <2>2
    <3>2. InReach(s[Len(s)], p)
      BY <3>1 DEF Fits, Reachable, Last
    <3>3. QED BY <1>2, <2>2, <3>1, <3>2
  <2>3. QED BY <1>1, <1>2, <1>4, <2>1, <2>2
<1>5. ASSUME NEW i \in DOMAIN t, NEW j \in DOMAIN t, i < j PROVE t[i].id # t[j].id
  <2>1. i \in 1..Len(s) /\ (j \in 1..Len(s) \/ j = Len(s) + 1)
    BY <1>1, <1>3, <1>5
  <2>2. CASE j \in 1..Len(s)
    BY <1>1, <1>2, <1>5, <2>1, <2>2 DEF Course
  <2>3. CASE j = Len(s) + 1
    BY <1>1, <1>2, <2>1, <2>3 DEF Seen
  <2>4. QED BY <2>1, <2>2, <2>3
<1>6. \A i, j \in DOMAIN t : i # j => t[i].id # t[j].id
  <2>1. \A i, j \in DOMAIN t : i # j => i < j \/ j < i
    BY <1>1, <1>3
  <2>2. QED BY <1>5, <2>1
<1>7. Total(t) <= b.minutes
  BY DEF Fits, t
<1>8. Course(t, b)
  BY <1>2, <1>4, <1>6, <1>7 DEF Course, Along
<1>9. QED BY <1>2, <1>8 DEF t


Sports(b) == {p \in Places : SportsAnchor(p, b.sport)}
Active == {p \in Places : role(p) = "activity"}

(* The members of a sequence that are in a set, in short. *)
LEMMA AmongOf ==
  ASSUME NEW T, NEW s \in Seq(T), NEW S
  PROVE  /\ Among(s, S) \in Seq(T)
         /\ \A n \in DOMAIN Among(s, S) : Among(s, S)[n] \in S /\ Among(s, S)[n] \in ToSet(s)
         /\ \A i \in DOMAIN s : s[i] \in S => s[i] \in ToSet(Among(s, S))
         /\ s # <<>> /\ s[1] \in S => Among(s, S) # <<>> /\ Among(s, S)[1] = s[1]
<1> DEFINE a == Among(s, S)
<1>1. /\ a \in Seq(T \cap S) /\ Len(a) <= Len(s)
      /\ \A n \in DOMAIN a : a[n] \in S /\ \E i \in DOMAIN s : a[n] = s[i]
      /\ \A i \in DOMAIN s : s[i] \in S => \E n \in DOMAIN a : a[n] = s[i]
      /\ s # <<>> /\ s[1] \in S => a # <<>> /\ a[1] = s[1]
  BY AmongIs
<1> HIDE DEF a
<1>2. a \in Seq(T)
  BY <1>1
<1>3. QED BY <1>1, <1>2 DEF ToSet, a

(* What _main_id finds is a stop of the course and of the sport that was asked for. *)
LEMMA MainIs ==
  ASSUME NEW b, NEW s \in Seq(Places), \E i \in DOMAIN s : SportsAnchor(s[i], b.sport)
  PROVE  \E p \in ToSet(s) : p.id = MainId(s, b) /\ SportsAnchor(p, b.sport)
<1> DEFINE anchors == Anchors(s, b)
           active == Among(anchors, Active)
<1>1. anchors = Among(s, Sports(b))
  BY DEF Anchors, Sports
<1>2. MainId(s, b) = IF active # <<>> THEN active[1].id
                        ELSE IF anchors # <<>> THEN anchors[1].id ELSE Null
  BY DEF MainId, Active
<1> HIDE DEF anchors
<1>3. /\ anchors \in Seq(Places)
      /\ \A n \in DOMAIN anchors : anchors[n] \in Sports(b) /\ anchors[n] \in ToSet(s)
      /\ \A i \in DOMAIN s : s[i] \in Sports(b) => s[i] \in ToSet(anchors)
  BY <1>1, AmongOf
<1>4. active \in Seq(Places) /\ \A n \in DOMAIN active : active[n] \in ToSet(anchors)
  BY <1>3, AmongOf
<1> HIDE DEF active
<1>5. anchors # <<>>
  <2>1. PICK i \in DOMAIN s : s[i] \in Sports(b)
    BY ElementOfSeq DEF Sports
  <2>2. s[i] \in ToSet(anchors)
    BY <1>3, <2>1
  <2>3. QED BY <2>2 DEF ToSet
<1>6. PICK n \in DOMAIN anchors : MainId(s, b) = anchors[n].id
  <2>1. CASE active # <<>>
    <3>1. 1 \in DOMAIN active /\ MainId(s, b) = active[1].id
      BY <1>2, <1>4, <2>1
    <3>2. QED BY <1>4, <3>1 DEF ToSet
  <2>2. CASE active = <<>>
    <3>1. 1 \in DOMAIN anchors
      BY <1>3, <1>5
    <3>2. QED BY <1>2, <1>5, <2>2, <3>1
  <2>3. QED BY <2>1, <2>2
<1>7. anchors[n] \in ToSet(s) /\ anchors[n] \in Sports(b)
  BY <1>3
<1>8. QED BY <1>6, <1>7 DEF Sports

(* The place the fallback began with is what _main_id finds when no other stop is *)
(* an activity.                                                                   *)
LEMMA MainIsTheFirst ==
  ASSUME NEW b, NEW s \in Seq(Places), s # <<>>, SportsAnchor(s[1], b.sport),
         \A i \in 2..Len(s) : role(s[i]) # "activity"
  PROVE  MainId(s, b) = s[1].id
<1> DEFINE anchors == Anchors(s, b)
           active == Among(anchors, Active)
<1>1. anchors = Among(s, Sports(b))
  BY DEF Anchors, Sports
<1>2. MainId(s, b) = IF active # <<>> THEN active[1].id
                        ELSE IF anchors # <<>> THEN anchors[1].id ELSE Null
  BY DEF MainId, Active
<1>3. DOMAIN s = 1..Len(s) /\ Len(s) \in Nat /\ s[1] \in Sports(b)
  <2>1. DOMAIN s = 1..Len(s) /\ Len(s) \in Nat /\ 1 \in 1..Len(s)
    OBVIOUS
  <2>2. QED BY <2>1, ElementOfSeq DEF Sports
<1> HIDE DEF anchors
<1>4. /\ anchors \in Seq(Places)
      /\ \A n \in DOMAIN anchors : anchors[n] \in ToSet(s)
      /\ anchors # <<>> /\ anchors[1] = s[1]
  BY <1>1, <1>3, AmongOf
<1>5. active \in Seq(Places)
      /\ \A n \in DOMAIN active : active[n] \in Active /\ active[n] \in ToSet(anchors)
  BY <1>4, AmongOf
<1> HIDE DEF active
<1>6. CASE active = <<>>
  BY <1>2, <1>4, <1>6
<1>7. CASE active # <<>>
  <2>1. 1 \in DOMAIN active /\ MainId(s, b) = active[1].id
    BY <1>2, <1>5, <1>7
  <2>2. role(active[1]) = "activity" /\ active[1] \in ToSet(anchors)
    BY <1>5, <2>1 DEF Active
  <2>3. active[1] \in ToSet(s)
    BY <1>4, <2>2 DEF ToSet
  <2>4. PICK i \in DOMAIN s : active[1] = s[i]
    BY <2>3 DEF ToSet
  <2>5. i = 1
    BY <1>3, <2>2, <2>4
  <2>6. QED BY <2>1, <2>4, <2>5
<1>8. QED BY <1>6, <1>7

(* A course of one place has one place of its purpose. *)
LEMMA OnePlaceIsValid ==
  ASSUME NEW p
  PROVE  ValidRoles(<<p>>, p.id)
<1>1. ASSUME NEW purpose
      PROVE  Cardinality({i \in DOMAIN <<p>> : Purpose(<<p>>[i], p.id) = purpose}) \in {0, 1}
  <2> DEFINE of == {i \in DOMAIN <<p>> : Purpose(<<p>>[i], p.id) = purpose}
  <2>1. of = {} \/ of = {1}
    OBVIOUS
  <2> HIDE DEF of
  <2>2. Cardinality(of) \in {0, 1}
    BY <2>1, FS_EmptySet, FS_Singleton
  <2>3. QED BY <2>2 DEF of
<1>2. \A n : n \in {0, 1} => n <= 1 /\ n <= 2
  OBVIOUS
<1>3. QED BY <1>1, <1>2 DEF ValidRoles

FallbackCourse(s, b) ==
    /\ Course(s, b) /\ Len(s) <= MaxStops
    /\ s # <<>> => /\ SportsAnchor(s[1], b.sport)
                   /\ \A i \in 2..Len(s) : role(s[i]) # "activity"
                   /\ ValidRoles(s, s[1].id)

------------------------------------------------------------------------------
(* What the query gives, and the sample *)

LEMMA WithoutIs ==
  ASSUME NEW T, NEW s \in Seq(T), NEW t
  PROVE  Without(s, t) \in Seq(T)
  BY AmongOf DEF Without

LEMMA FiniteSets ==
  ASSUME NEW S, S \subseteq Places
  PROVE  IsFiniteSet(S)
  BY PlacesAssumption, FS_Subset

(* Rows of places by the order of the query. *)
LEMMA RankedIs ==
  ASSUME NEW S, S \subseteq Places, NEW b
  PROVE  Sorted(S, [p \in S |-> Rank(b, p)]) \in Seq(S)
<1> DEFINE key == [p \in S |-> Rank(b, p)]
<1>1. IsFiniteSet(S)
  BY FiniteSets
<1>2. \A p \in S : key[p] \in [1..4 -> Int] /\ key[p][4] = p.id
  <2>1. ASSUME NEW p \in S PROVE Rank(b, p) \in [1..4 -> Int] /\ Rank(b, p)[4] = p.id
    <3>1. p.id \in Int
      BY PlacesAssumption
    <3>2. QED BY <3>1 DEF Rank
  <2>2. QED BY <2>1
<1>3. \A p, q \in S : key[p] = key[q] => p = q
  <2> HIDE DEF key
  <2>1. QED BY <1>2, PlacesAssumption
<1> HIDE DEF key
<1>4. Sorted(S, key) \in Seq(S)
  BY <1>1, <1>2, <1>3, SortedIs
<1>5. QED BY <1>4 DEF key

LEMMA EligibleIs == \A b : Eligible(b) \subseteq Places /\ \A p \in Eligible(b) : p.id \notin b.visited
  BY DEF Eligible

LEMMA QueryIs ==
  ASSUME NEW b
  PROVE  Query(b) \in Seq(Eligible(b))
<1> DEFINE E == Eligible(b)
           ranked(S) == Sorted(S, [p \in S |-> Rank(b, p)])
           of(types) == {p \in E : p.content \in types /\ p.category # "sports"}
           n == IF b.mission THEN Primary + Foods + Sights ELSE Primary
           primary == First(ranked(E), n)
           food == First(ranked(of({"39"})), Foods)
           sights == First(ranked(of({"12", "14"})), Sights)
           fed == primary \o Without(food, primary)
<1>1. Query(b) = IF b.mission THEN primary ELSE fed \o Without(sights, fed)
  BY DEF Query
<1>2. ASSUME NEW S, S \subseteq E, NEW m \in Nat PROVE First(ranked(S), m) \in Seq(E)
  <2>1. S \subseteq Places
    BY <1>2, EligibleIs
  <2>2. ranked(S) \in Seq(S)
    BY <2>1, RankedIs
  <2> HIDE DEF ranked, E
  <2>3. ranked(S) \in Seq(E)
    BY <1>2, <2>2
  <2>4. QED BY <2>3, FirstIs
<1>3. primary \in Seq(E) /\ food \in Seq(E) /\ sights \in Seq(E)
  <2>1. n \in Nat /\ Foods \in Nat /\ Sights \in Nat
    BY SampleAssumption
  <2>2. of({"39"}) \subseteq E /\ of({"12", "14"}) \subseteq E
    OBVIOUS
  <2> HIDE DEF ranked, of, E, n
  <2>3. QED BY <1>2, <2>1, <2>2
<1> HIDE DEF primary, food, sights, E
<1>4. fed \in Seq(E)
  BY <1>3, WithoutIs, ToSetOfConcat
<1> HIDE DEF fed
<1>5. fed \o Without(sights, fed) \in Seq(E)
  BY <1>3, <1>4, WithoutIs, ToSetOfConcat
<1>6. QED BY <1>1, <1>3, <1>5 DEF E

Startable(b) == {p \in Wanted(b) : Minutes(p) <= b.minutes}

LEMMA FeasibleIs ==
  ASSUME NEW b
  PROVE  Feasible(Query(b), b) \in Seq(Startable(b))
<1> DEFINE S == {p \in Places : Recommendable(p) /\ Minutes(p) <= b.minutes}
           a == Among(Query(b), S)
<1>1. Query(b) \in Seq(Eligible(b))
  BY QueryIs
<1>2. Feasible(Query(b), b) = a
  BY DEF Feasible
<1>3. a \in Seq(Eligible(b) \cap S)
  <2> HIDE DEF S
  <2>1. QED BY <1>1, AmongIs
<1>4. Eligible(b) \cap S \subseteq Startable(b)
  BY EligibleIs DEF Startable, Wanted
<1> HIDE DEF a, S
<1>5. QED BY <1>2, <1>3, <1>4

LEMMA RelevanceIs == \A p, theme : ThemeRelevance(p, theme) \in {0, 1, 2}
  BY DEF ThemeRelevance

(* The best anchor is one of the rows. *)
LEMMA AnchorIs ==
  ASSUME NEW T, NEW rows \in Seq(T), NEW b
  PROVE  Anchor(rows, b) = Null \/ Anchor(rows, b) \in ToSet(rows)
<1> DEFINE anchors == Anchors(rows, b)
           near(i) == Cluster(rows, anchors[i])
           themes(i) == [m \in DOMAIN near(i) |-> ThemeRelevance(near(i)[m], b.theme)]
           score(i) == Len(near(i)) + 2 * Sum(themes(i))
           ranks == [i \in DOMAIN anchors |-> <<-score(i), i>>]
<1>1. Anchor(rows, b) = IF anchors = <<>> THEN Null ELSE anchors[Sorted(DOMAIN anchors, ranks)[1]]
  BY DEF Anchor
<1>2. /\ anchors \in Seq(T)
      /\ \A n \in DOMAIN anchors : anchors[n] \in ToSet(rows)
  BY AmongOf DEF Anchors
<1>3. \A i \in DOMAIN anchors : score(i) \in Int
  <2>1. ASSUME NEW i \in DOMAIN anchors PROVE score(i) \in Int
    <3> HIDE DEF anchors
    <3>1. near(i) \in Seq(T)
      BY AmongOf DEF Cluster
    <3> HIDE DEF near
    <3>2. Len(near(i)) \in Nat /\ DOMAIN near(i) = 1..Len(near(i))
      BY <3>1
    <3>3. themes(i) \in [1..Len(near(i)) -> Int]
      BY <3>2, RelevanceIs
    <3>4. themes(i) \in Seq(Int)
      BY <3>2, <3>3, SeqDef
    <3> HIDE DEF themes
    <3>5. Sum(themes(i)) \in Int
      <4>1. PICK f : SumsOf(themes(i), f) /\ Sum(themes(i)) = f[Len(themes(i))]
        BY <3>4, SumUnfolds
      <4>2. Len(themes(i)) \in 0..Len(themes(i))
        BY <3>4
      <4>3. QED BY <3>4, <4>1, <4>2, SumIs
    <3>6. QED BY <3>2, <3>5
  <2>2. QED BY <2>1
<1> HIDE DEF score, anchors
<1>4. DOMAIN anchors = 1..Len(anchors) /\ Len(anchors) \in Nat
  BY <1>2
<1>5. \A i \in DOMAIN anchors : ranks[i] \in [1..2 -> Int] /\ ranks[i][2] = i
  BY <1>3, <1>4
<1>6. \A i, j \in DOMAIN anchors : ranks[i] = ranks[j] => i = j
  BY <1>5
<1>7. IsFiniteSet(DOMAIN anchors) /\ Cardinality(DOMAIN anchors) = Len(anchors)
  BY <1>4, UpTo
<1> HIDE DEF ranks
<1>8. Sorted(DOMAIN anchors, ranks) \in Seq(DOMAIN anchors)
      /\ Len(Sorted(DOMAIN anchors, ranks)) = Cardinality(DOMAIN anchors)
  BY <1>5, <1>6, <1>7, SortedIs
<1>9. ASSUME anchors # <<>> PROVE Sorted(DOMAIN anchors, ranks)[1] \in DOMAIN anchors
  <2>1. Len(anchors) # 0
    BY <1>2, <1>9
  <2>2. 1 \in 1..Len(Sorted(DOMAIN anchors, ranks))
    BY <1>4, <1>7, <1>8, <2>1
  <2>3. QED BY <1>8, <2>2, ElementOfSeq
<1>10. QED BY <1>1, <1>2, <1>9

LEMMA ReserveIs ==
  ASSUME NEW T, NEW s \in Seq(T), NEW anchor, NEW n \in Nat
  PROVE  /\ \A purpose : OfPurpose(s, anchor, purpose) \in Seq(T)
         /\ Reserve(s, anchor, n) \in Seq(T)
<1>1. \A purpose : OfPurpose(s, anchor, purpose) \in Seq(T)
  BY AmongOf DEF OfPurpose
<1>2. \A purpose : First(OfPurpose(s, anchor, purpose), n) \in Seq(T)
  BY <1>1, FirstIs
<1>3. QED BY <1>1, <1>2, ToSetOfConcat DEF Reserve

(* Whether there are places of a purpose beside the anchor. *)
LEMMA PurposeIs ==
  ASSUME NEW s \in Seq(Places), NEW anchor, NEW purpose
  PROVE  /\ OfPurpose(s, anchor, purpose) # <<>>
              <=> \E p \in ToSet(s) : role(p) = purpose /\ p.id # anchor.id
         /\ OfPurpose(s, anchor, purpose) # <<>> =>
              LET p == OfPurpose(s, anchor, purpose)[1]
              IN p \in ToSet(s) /\ role(p) = purpose /\ p.id # anchor.id
<1> DEFINE S == {p \in Places : role(p) = purpose /\ p.id # anchor.id}
           a == Among(s, S)
<1>1. /\ a \in Seq(Places)
      /\ \A n \in DOMAIN a : a[n] \in S /\ a[n] \in ToSet(s)
      /\ \A i \in DOMAIN s : s[i] \in S => s[i] \in ToSet(a)
  <2> HIDE DEF S
  <2>1. QED BY AmongOf
<1>2. OfPurpose(s, anchor, purpose) = a
  BY DEF OfPurpose
<1> HIDE DEF a
<1>3. ASSUME a # <<>>
      PROVE  a[1] \in ToSet(s) /\ role(a[1]) = purpose /\ a[1].id # anchor.id
  <2>1. 1 \in DOMAIN a
    BY <1>1, <1>3
  <2>2. QED BY <1>1, <2>1
<1>4. ASSUME NEW p \in ToSet(s), role(p) = purpose, p.id # anchor.id PROVE a # <<>>
  <2>1. PICK i \in DOMAIN s : s[i] = p
    BY DEF ToSet
  <2>2. p \in Places
    BY <2>1, ElementOfSeq
  <2>3. p \in ToSet(a)
    BY <1>1, <1>4, <2>1, <2>2
  <2>4. QED BY <2>3 DEF ToSet
<1>5. QED BY <1>2, <1>3, <1>4

(* Where the first of three short sequences are when they are joined. *)
Joined(m, r, v) == m \o r \o v

LEMMA ThreeParts ==
  ASSUME NEW T, NEW m \in Seq(T), NEW r \in Seq(T), NEW v \in Seq(T),
         Len(m) <= 2, Len(r) <= 2, Len(v) <= 2
  PROVE  /\ m # <<>> => \E k \in 1..5 : k \in DOMAIN Joined(m, r, v) /\ Joined(m, r, v)[k] = m[1]
         /\ r # <<>> => \E k \in 1..5 : k \in DOMAIN Joined(m, r, v) /\ Joined(m, r, v)[k] = r[1]
         /\ v # <<>> => \E k \in 1..5 : k \in DOMAIN Joined(m, r, v) /\ Joined(m, r, v)[k] = v[1]
<1> DEFINE mr == m \o r
           c == mr \o v
<1>1. /\ mr \in Seq(T) /\ Len(mr) = Len(m) + Len(r)
      /\ \A i \in 1..(Len(m) + Len(r)) : mr[i] = IF i <= Len(m) THEN m[i] ELSE r[i - Len(m)]
  BY ConcatProperties
<1> HIDE DEF mr
<1>2. /\ c \in Seq(T) /\ Len(c) = Len(mr) + Len(v)
      /\ \A i \in 1..(Len(mr) + Len(v)) : c[i] = IF i <= Len(mr) THEN mr[i] ELSE v[i - Len(mr)]
  BY <1>1, ConcatProperties
<1> HIDE DEF c
<1>3. DOMAIN c = 1..(Len(m) + Len(r) + Len(v)) /\ Len(m) \in Nat /\ Len(r) \in Nat /\ Len(v) \in Nat
  BY <1>1, <1>2
<1>4. \A w \in {m, r, v} : w # <<>> => Len(w) >= 1
  OBVIOUS
<1>5. m # <<>> => 1 \in DOMAIN c /\ c[1] = m[1]
  BY <1>1, <1>2, <1>3, <1>4
<1>6. r # <<>> => Len(m) + 1 \in DOMAIN c /\ c[Len(m) + 1] = r[1]
  BY <1>1, <1>2, <1>3, <1>4
<1>7. ASSUME v # <<>>
      PROVE  Len(mr) + 1 \in DOMAIN c /\ c[Len(mr) + 1] = v[1] /\ Len(mr) + 1 <= 5
  <2>1. Len(mr) \in Nat /\ Len(mr) <= 4 /\ Len(v) >= 1
    BY <1>1, <1>3, <1>4, <1>7
  <2>2. Len(mr) + 1 \in 1..(Len(mr) + Len(v)) /\ ~(Len(mr) + 1 <= Len(mr)) /\ Len(mr) + 1 - Len(mr) = 1
    BY <1>3, <2>1
  <2>3. c[Len(mr) + 1] = v[1]
    BY <1>2, <2>2
  <2>4. DOMAIN c = 1..(Len(mr) + Len(v))
    BY <1>2
  <2>5. QED BY <2>1, <2>2, <2>3, <2>4
<1>8. 1 \in 1..5 /\ Len(m) + 1 \in 1..5 /\ (v # <<>> => Len(mr) + 1 \in 1..5)
  <2>1. Len(m) + 1 \in 1..5
    BY <1>3
  <2>2. Len(mr) \in Nat
    BY <1>1
  <2>3. QED BY <1>7, <2>1, <2>2
<1>9. /\ m # <<>> => \E k \in 1..5 : k \in DOMAIN c /\ c[k] = m[1]
      /\ r # <<>> => \E k \in 1..5 : k \in DOMAIN c /\ c[k] = r[1]
      /\ v # <<>> => \E k \in 1..5 : k \in DOMAIN c /\ c[k] = v[1]
  BY <1>5, <1>6, <1>7, <1>8
<1>10. QED BY <1>9 DEF c, mr, Joined

(* The first place of each purpose is among those that are reserved, and early. *)
LEMMA Reserved ==
  ASSUME NEW s \in Seq(Places), NEW anchor, NEW n \in 1..2, NEW purpose \in Supports,
         HasFood(s), OfPurpose(s, anchor, purpose) # <<>>
  PROVE  \E k \in DOMAIN Reserve(s, anchor, n) :
            k <= 5 /\ Reserve(s, anchor, n)[k] = OfPurpose(s, anchor, purpose)[1]
<1> DEFINE of(q) == OfPurpose(s, anchor, q)
           f(q) == First(of(q), n)
<1>1. Reserve(s, anchor, n) = f("meal") \o f("rest") \o f("sightseeing")
  BY DEF Reserve
<1>2. \A q : of(q) \in Seq(Places)
  BY ReserveIs
<1>3. n \in Nat /\ n >= 1 /\ n <= 2
  OBVIOUS
<1> HIDE DEF of
<1>4. ASSUME NEW q
      PROVE  f(q) \in Seq(Places) /\ Len(f(q)) <= 2 /\ (of(q) # <<>> => f(q) # <<>> /\ f(q)[1] = of(q)[1])
  <2>1. /\ f(q) \in Seq(Places) /\ Len(f(q)) = (IF n < Len(of(q)) THEN n ELSE Len(of(q)))
        /\ \A i \in 1..Len(f(q)) : f(q)[i] = of(q)[i]
    BY <1>2, <1>3, FirstIs
  <2>2. of(q) \in Seq(Places)
    BY <1>2
  <2> DEFINE g == f(q)
             o == of(q)
  <2> HIDE DEF g, o
  <2>3. /\ g \in Seq(Places) /\ Len(g) = (IF n < Len(o) THEN n ELSE Len(o))
        /\ \A i \in 1..Len(g) : g[i] = o[i]
    BY <2>1 DEF g, o
  <2>4. o \in Seq(Places)
    BY <2>2 DEF o
  <2>5. Len(g) <= 2 /\ (o # <<>> => Len(g) >= 1)
    BY <1>3, <2>3, <2>4
  <2>6. o # <<>> => g # <<>> /\ g[1] = o[1]
    BY <2>3, <2>5
  <2>7. QED BY <2>3, <2>5, <2>6 DEF g, o
<1> HIDE DEF f
<1> DEFINE m == f("meal")
           r == f("rest")
           v == f("sightseeing")
<1>5. /\ m \in Seq(Places) /\ r \in Seq(Places) /\ v \in Seq(Places)
      /\ Len(m) <= 2 /\ Len(r) <= 2 /\ Len(v) <= 2
  BY <1>4
<1>6. f(purpose) \in {m, r, v} /\ f(purpose) # <<>> /\ f(purpose)[1] = of(purpose)[1]
  BY <1>4 DEF Supports, of
<1> DEFINE w == f(purpose)
<1> HIDE DEF m, r, v, w
<1>7. /\ m # <<>> => \E k \in 1..5 : k \in DOMAIN Joined(m, r, v) /\ Joined(m, r, v)[k] = m[1]
      /\ r # <<>> => \E k \in 1..5 : k \in DOMAIN Joined(m, r, v) /\ Joined(m, r, v)[k] = r[1]
      /\ v # <<>> => \E k \in 1..5 : k \in DOMAIN Joined(m, r, v) /\ Joined(m, r, v)[k] = v[1]
  BY <1>5, ThreeParts
<1>8. w \in {m, r, v} /\ w # <<>> /\ w[1] = of(purpose)[1]
  BY <1>6 DEF w
<1>9. PICK k \in 1..5 : k \in DOMAIN Joined(m, r, v) /\ Joined(m, r, v)[k] = w[1]
  BY <1>7, <1>8
<1>10. Reserve(s, anchor, n) = Joined(m, r, v)
  BY <1>1 DEF m, r, v, Joined
<1>11. QED BY <1>8, <1>9, <1>10 DEF of

LEMMA DistanceToSelf == \A p : InReach(p, p)
<1>1. 0 # Null
  BY PlacesAssumption
<1>2. QED BY <1>1 DEF InReach, Distance, MaxLeg

(* What lies around an anchor, the nearest of the theme first. *)
LEMMA ClosestIs ==
  ASSUME NEW S, S \subseteq Places, NEW anchor \in Places, NEW b, \A p \in S : InReach(anchor, p)
  PROVE  LET s == Sorted(S, [p \in S |-> Closeness(anchor, b, p)])
         IN s \in Seq(S) /\ ToSet(s) = S
<1> DEFINE key == [p \in S |-> Closeness(anchor, b, p)]
           s == Sorted(S, key)
<1>1. IsFiniteSet(S)
  BY FiniteSets
<1>2. \A p \in S : key[p] \in [1..4 -> Int] /\ key[p][4] = p.id
  <2>1. ASSUME NEW p \in S
        PROVE  Closeness(anchor, b, p) \in [1..4 -> Int] /\ Closeness(anchor, b, p)[4] = p.id
    <3>1. p.id \in Int
      BY PlacesAssumption
    <3>2. Distance(anchor, p) \in Nat
      BY TravelIs
    <3>3. -ThemeRelevance(p, b.theme) \in Int
      BY RelevanceIs
    <3>4. QED BY <3>1, <3>2, <3>3 DEF Closeness
  <2>2. QED BY <2>1
<1>3. \A p, q \in S : key[p] = key[q] => p = q
  <2> HIDE DEF key
  <2>1. QED BY <1>2, PlacesAssumption
<1> HIDE DEF key
<1>4. /\ s \in Seq(S) /\ Len(s) = Cardinality(S)
      /\ \A p \in S : \E i \in 1..Cardinality(S) : s[i] = p
      /\ \A i, j \in 1..Cardinality(S) : i < j => Less(key[s[i]], key[s[j]])
  BY <1>1, <1>2, <1>3, SortedIs
<1> HIDE DEF s
<1>5. DOMAIN s = 1..Cardinality(S)
  BY <1>4
<1>6. ToSet(s) = S
  BY <1>4, <1>5, ElementOfSeq DEF ToSet
<1>7. QED BY <1>4, <1>6 DEF s, key

(* What is reserved comes before the cut. *)
LEMMA BeforeTheCut ==
  ASSUME NEW T, NEW a \in T, NEW u \in Seq(T), NEW w \in Seq(T),
         NEW first, first = First(Joined(<<a>>, u, w), MaxCoherent)
  PROVE  /\ first \in Seq(T) /\ first # <<>> /\ first[1] = a
         /\ \A k \in 1..5 : k \in DOMAIN u => u[k] \in ToSet(first)
<1> DEFINE au == <<a>> \o u
           all == au \o w
           f == First(all, MaxCoherent)
<1>0. MaxCoherent \in Nat /\ MaxCoherent >= 6
  BY SampleAssumption
<1>1. <<a>> \in Seq(T) /\ Len(<<a>>) = 1 /\ <<a>>[1] = a /\ Len(u) \in Nat /\ Len(w) \in Nat
  OBVIOUS
<1>2. /\ au \in Seq(T) /\ Len(au) = Len(<<a>>) + Len(u)
      /\ \A i \in 1..(Len(<<a>>) + Len(u)) : au[i] = IF i <= Len(<<a>>) THEN <<a>>[i] ELSE u[i - Len(<<a>>)]
  BY <1>1, ConcatProperties
<1> HIDE DEF au
<1>3. /\ all \in Seq(T) /\ Len(all) = Len(au) + Len(w)
      /\ \A i \in 1..(Len(au) + Len(w)) : all[i] = IF i <= Len(au) THEN au[i] ELSE w[i - Len(au)]
  <2>1. au \in Seq(T)
    BY <1>2
  <2>2. QED BY <2>1, ConcatProperties
<1> HIDE DEF all
<1>4. /\ f \in Seq(T) /\ Len(f) = IF MaxCoherent < Len(all) THEN MaxCoherent ELSE Len(all)
      /\ \A i \in 1..Len(f) : f[i] = all[i]
  BY <1>0, <1>3, FirstIs
<1> HIDE DEF f
<1>5. Len(au) = 1 + Len(u) /\ Len(all) = 1 + Len(u) + Len(w) /\ Len(f) >= 1 /\ DOMAIN f = 1..Len(f)
  BY <1>0, <1>1, <1>2, <1>3, <1>4
<1>6. f[1] = a
  <2>1. 1 \in 1..Len(f) /\ 1 \in 1..(Len(au) + Len(w)) /\ 1 <= Len(au) /\ 1 \in 1..(Len(<<a>>) + Len(u))
    BY <1>1, <1>4, <1>5
  <2>2. f[1] = au[1]
    BY <1>3, <1>4, <2>1
  <2>3. au[1] = <<a>>[1]
    BY <1>1, <1>2, <2>1
  <2>4. QED BY <1>1, <2>2, <2>3
<1>7. ASSUME NEW k \in 1..5, k \in DOMAIN u PROVE u[k] \in ToSet(f)
  <2>1. k \in 1..Len(u)
    BY <1>7
  <2>2. /\ k + 1 \in 1..(Len(<<a>>) + Len(u)) /\ ~(k + 1 <= Len(<<a>>)) /\ k + 1 - Len(<<a>>) = k
        /\ k + 1 \in 1..(Len(au) + Len(w)) /\ k + 1 <= Len(au)
    BY <1>1, <1>5, <2>1
  <2>3. k + 1 \in 1..Len(f)
    <3>1. k + 1 <= MaxCoherent /\ k + 1 <= Len(all) /\ Len(all) \in Nat
      BY <1>0, <1>1, <1>5, <2>1
    <3>2. QED BY <1>4, <1>5, <3>1
  <2>4. au[k + 1] = u[k]
    BY <1>2, <2>2
  <2>5. all[k + 1] = au[k + 1]
    BY <1>3, <2>2
  <2>6. f[k + 1] = u[k]
    BY <1>4, <2>3, <2>4, <2>5
  <2>7. QED BY <1>5, <2>3, <2>6 DEF ToSet
<1>8. f # <<>>
  BY <1>5
<1>9. QED BY <1>4, <1>6, <1>7, <1>8 DEF f, all, au, Joined

LEMMA FoodIs ==
  ASSUME NEW s \in Seq(Places)
  PROVE  HasFood(s) <=> \E p \in ToSet(s) : role(p) \in {"meal", "rest"}
  BY DEF HasFood, ToSet

LEMMA NearbyIs ==
  ASSUME NEW T, T \subseteq Places, NEW rows \in Seq(T), NEW b, NEW anchor \in ToSet(rows)
  PROVE  LET near == Nearby(rows, b, anchor)
             around == Cluster(rows, anchor)
         IN /\ near \in Seq(T) /\ near # <<>> /\ near[1] = anchor
            /\ HasFood(around) =>
                  /\ HasFood(near)
                  /\ \A purpose \in Supports :
                        OfPurpose(around, anchor, purpose) # <<>> => OfPurpose(near, anchor, purpose) # <<>>
<1> DEFINE around == Cluster(rows, anchor)
           S == ToSet(around)
           sorted == Sorted(S, [p \in S |-> Closeness(anchor, b, p)])
           kept == Reserve(sorted, anchor, 2)
           w == Without(sorted, <<anchor>> \o kept)
           near == Nearby(rows, b, anchor)
<1>1. anchor \in T /\ anchor \in Places
  BY ElementOfSeq DEF ToSet
<1>2. around \in Seq(T) /\ S \subseteq T /\ \A p \in S : InReach(anchor, p)
  <2> DEFINE R == {p \in Places : InReach(anchor, p)}
             a == Among(rows, R)
  <2>1. around = a
    BY DEF Cluster
  <2>2. a \in Seq(T) /\ \A n \in DOMAIN a : a[n] \in R /\ a[n] \in ToSet(rows)
    <3> HIDE DEF R
    <3>1. QED BY AmongOf
  <2> HIDE DEF a
  <2>3. \A n \in DOMAIN a : a[n] \in T
    BY <2>2, ElementOfSeq
  <2> HIDE DEF around
  <2>4. QED BY <2>1, <2>2, <2>3 DEF ToSet
<1> HIDE DEF around
<1>3. sorted \in Seq(S) /\ ToSet(sorted) = S
  <2> HIDE DEF S
  <2>1. S \subseteq Places
    BY <1>2
  <2>2. QED BY <1>1, <1>2, <2>1, ClosestIs
<1>4. near = First(Joined(<<anchor>>, kept, w), MaxCoherent)
  BY DEF Nearby, around, Joined
<1> HIDE DEF sorted, S
<1>5. sorted \in Seq(T) /\ sorted \in Seq(Places)
  BY <1>2, <1>3
<1>6. kept \in Seq(T)
  BY <1>5, ReserveIs
<1>7. w \in Seq(T)
  <2> HIDE DEF kept
  <2>1. QED BY <1>5, WithoutIs
<1> HIDE DEF kept, w, near
<1>8. /\ near \in Seq(T) /\ near # <<>> /\ near[1] = anchor
      /\ \A k \in 1..5 : k \in DOMAIN kept => kept[k] \in ToSet(near)
  <2>1. anchor \in T
    BY <1>1
  <2>2. QED BY <1>4, <1>6, <1>7, <2>1, BeforeTheCut
<1>9. near \in Seq(Places) /\ around \in Seq(Places) /\ anchor \in ToSet(near)
  <2>1. 1 \in DOMAIN near
    BY <1>8
  <2>2. QED BY <1>2, <1>8, <2>1 DEF ToSet
<1>10. ASSUME HasFood(around), NEW purpose \in Supports,
              NEW p \in S, role(p) = purpose, p.id # anchor.id
       PROVE  \E q \in ToSet(near) : role(q) = purpose /\ q.id # anchor.id
  <2>1. HasFood(sorted)
    BY <1>3, <1>5, <1>9, <1>10, FoodIs DEF S
  <2>2. OfPurpose(sorted, anchor, purpose) # <<>>
    BY <1>3, <1>5, <1>10, PurposeIs
  <2>3. 2 \in 1..2
    OBVIOUS
  <2>4. PICK k \in DOMAIN kept : k <= 5 /\ kept[k] = OfPurpose(sorted, anchor, purpose)[1]
    BY <1>5, <2>1, <2>2, <2>3, Reserved DEF kept
  <2>5. k \in 1..5
    BY <1>6, <2>4
  <2>6. kept[k] \in ToSet(near)
    BY <1>8, <2>5
  <2>7. role(kept[k]) = purpose /\ kept[k].id # anchor.id
    BY <1>5, <2>2, <2>4, PurposeIs
  <2>8. QED BY <2>6, <2>7
<1>11. ASSUME HasFood(around) PROVE HasFood(near)
  <2>1. PICK p \in S : role(p) \in {"meal", "rest"}
    BY <1>9, <1>11, FoodIs DEF S
  <2>2. CASE p.id = anchor.id
    <3>1. p = anchor
      BY <1>1, <1>2, <2>1, <2>2, PlacesAssumption
    <3>2. QED BY <1>9, <2>1, <3>1, FoodIs
  <2>3. CASE p.id # anchor.id
    <3>1. role(p) \in Supports
      BY <2>1 DEF Supports
    <3>2. \E q \in ToSet(near) : role(q) = role(p)
      BY <1>10, <1>11, <2>1, <2>3, <3>1
    <3>3. QED BY <1>9, <2>1, <3>2, FoodIs
  <2>4. QED BY <2>2, <2>3
<1>12. ASSUME HasFood(around), NEW purpose \in Supports, OfPurpose(around, anchor, purpose) # <<>>
       PROVE  OfPurpose(near, anchor, purpose) # <<>>
  <2>1. PICK p \in S : role(p) = purpose /\ p.id # anchor.id
    BY <1>9, <1>12, PurposeIs DEF S
  <2>2. \E q \in ToSet(near) : role(q) = purpose /\ q.id # anchor.id
    BY <1>10, <1>12, <2>1
  <2>3. QED BY <1>9, <2>2, PurposeIs
<1>13. QED BY <1>8, <1>11, <1>12 DEF near, around

(* A sample has the anchor and a place of each purpose that there is. *)
LEMMA SamplesIs ==
  ASSUME NEW T, T \subseteq Places, NEW near \in Seq(T), near # <<>>, NEW b,
         NEW sample \in Samples(near, b, near[1])
  PROVE  /\ sample \in Seq(T) /\ sample # <<>> /\ sample[1] = near[1]
         /\ HasFood(near) => \A purpose \in Supports :
               OfPurpose(near, near[1], purpose) # <<>> => OfPurpose(sample, near[1], purpose) # <<>>
<1> DEFINE anchor == near[1]
<1>1. CASE sample = near
  BY <1>1
<1>2. CASE \E S : Kept(near, anchor) \subseteq S /\ sample = Among(near, {p \in ToSet(near) : p.id \in S})
  <2>1. PICK S : Kept(near, anchor) \subseteq S /\ sample = Among(near, {p \in ToSet(near) : p.id \in S})
    BY <1>2
  <2> DEFINE U == {p \in ToSet(near) : p.id \in S}
  <2>2. 1 \in DOMAIN near /\ anchor \in ToSet(near) /\ anchor.id \in S
    <3>1. 1 \in DOMAIN near
      OBVIOUS
    <3>2. anchor.id \in Kept(near, anchor)
      BY DEF Kept
    <3>3. QED BY <2>1, <3>1, <3>2 DEF ToSet
  <2>3. near[1] \in U /\ sample = Among(near, U)
    BY <2>1, <2>2
  <2> HIDE DEF U
  <2>4. /\ sample \in Seq(T) /\ sample # <<>> /\ sample[1] = anchor
        /\ \A i \in DOMAIN near : near[i] \in U => near[i] \in ToSet(sample)
    BY <2>3, AmongOf
  <2>5. near \in Seq(Places) /\ sample \in Seq(Places)
    BY <2>4
  <2>6. ASSUME HasFood(near), NEW purpose \in Supports, OfPurpose(near, anchor, purpose) # <<>>
        PROVE  OfPurpose(sample, anchor, purpose) # <<>>
    <3> DEFINE p == OfPurpose(near, anchor, purpose)[1]
               kept == Reserve(near, anchor, 1)
    <3>1. p \in ToSet(near) /\ role(p) = purpose /\ p.id # anchor.id
      BY <2>5, <2>6, PurposeIs
    <3>2. 1 \in 1..2
      OBVIOUS
    <3>3. PICK k \in DOMAIN kept : kept[k] = p
      BY <2>5, <2>6, <3>2, Reserved
    <3> HIDE DEF p, kept
    <3>4. p.id \in Seen(kept)
      BY <3>3 DEF Seen
    <3>5. p.id \in S
      BY <2>1, <3>4 DEF Kept, kept
    <3>6. p \in U
      BY <3>1, <3>5 DEF U
    <3>7. p \in ToSet(sample)
      BY <2>4, <3>1, <3>6 DEF ToSet
    <3>8. QED BY <2>5, <3>1, <3>7, PurposeIs
  <2>7. QED BY <2>4, <2>6
<1>3. QED BY <1>1, <1>2 DEF Samples

(* A purpose that is reserved and lies around the anchor is still in the sample. *)
KeepsPurposes(sample, rows) ==
    sample # <<>> =>
        LET near == Cluster(rows, sample[1])
        IN HasFood(near) => \A purpose \in Supports :
              OfPurpose(near, sample[1], purpose) # <<>>
                 => OfPurpose(sample, sample[1], purpose) # <<>>

LEMMA CandidatesAre ==
  ASSUME NEW b, NEW sample \in CoherentCandidates(Query(b), b)
  PROVE  sample \in Seq(Startable(b)) /\ KeepsPurposes(sample, Feasible(Query(b), b))
<1> DEFINE fits == Feasible(Query(b), b)
           anchor == Anchor(fits, b)
           T == Startable(b)
           near == Nearby(fits, b, anchor)
           around == Cluster(fits, anchor)
<1>1. fits \in Seq(T) /\ T \subseteq Places
  BY FeasibleIs DEF Startable, Wanted
<1>2. sample \in IF anchor = Null THEN {<<>>} ELSE Samples(near, b, anchor)
  BY DEF CoherentCandidates
<1> HIDE DEF fits, T
<1>3. anchor = Null \/ anchor \in ToSet(fits)
  BY <1>1, AnchorIs
<1>4. CASE anchor = Null
  BY <1>2, <1>4 DEF KeepsPurposes, T
<1>5. CASE anchor # Null
  <2>1. anchor \in ToSet(fits) /\ sample \in Samples(near, b, anchor)
    BY <1>2, <1>3, <1>5
  <2> HIDE DEF anchor
  <2>2. /\ near \in Seq(T) /\ near # <<>> /\ near[1] = anchor
        /\ HasFood(around) =>
              /\ HasFood(near)
              /\ \A purpose \in Supports :
                    OfPurpose(around, anchor, purpose) # <<>> => OfPurpose(near, anchor, purpose) # <<>>
    BY <1>1, <2>1, NearbyIs
  <2> HIDE DEF near, around
  <2>3. sample \in Samples(near, b, near[1])
    BY <2>1, <2>2
  <2>4. /\ sample \in Seq(T) /\ sample # <<>> /\ sample[1] = near[1]
        /\ HasFood(near) => \A purpose \in Supports :
               OfPurpose(near, near[1], purpose) # <<>> => OfPurpose(sample, near[1], purpose) # <<>>
    BY <1>1, <2>2, <2>3, SamplesIs
  <2>5. sample[1] = anchor
    BY <2>2, <2>4
  <2>6. KeepsPurposes(sample, fits)
    BY <2>2, <2>4, <2>5 DEF KeepsPurposes, around
  <2>7. QED BY <2>4, <2>6 DEF fits, T
<1>6. QED BY <1>4, <1>5

LEMMA QueryKept ==
  ASSUME UNCHANGED <<shown, stamped, body>>
  PROVE  Query(body)' = Query(body)
  BY DEF Query, Eligible

Starts(b) == {p \in Startable(b) : SportsAnchor(p, b.sport)}

LEMMA StartsAre ==
  ASSUME NEW b, NEW s \in Seq(Startable(b))
  PROVE  Anchors(s, b) \in Seq(Starts(b))
<1> DEFINE a == Among(s, Sports(b))
<1>1. Anchors(s, b) = a
  BY DEF Anchors, Sports
<1>2. a \in Seq(Startable(b) \cap Sports(b))
  BY AmongIs
<1>3. Startable(b) \cap Sports(b) \subseteq Starts(b)
  BY DEF Starts, Sports
<1> HIDE DEF a
<1>4. QED BY <1>1, <1>2, <1>3

LEMMA RouteBegins ==
  ASSUME NEW b, NEW p \in Starts(b)
  PROVE  FallbackCourse(<<p>>, b)
<1>1. p \in Wanted(b) /\ Minutes(p) <= b.minutes /\ SportsAnchor(p, b.sport)
  BY DEF Starts, Startable
<1>2. Course(<<p>>, b)
  BY <1>1, CourseOfOne
<1>3. Len(<<p>>) = 1 /\ <<p>>[1] = p
  OBVIOUS
<1>4. ValidRoles(<<p>>, <<p>>[1].id)
  BY <1>3, OnePlaceIsValid
<1>5. QED BY <1>1, <1>2, <1>3, <1>4 DEF FallbackCourse, MaxStops

(* The best route is one of the routes. *)
Routes(s, b) == s \in Seq(Seq(Wanted(b))) /\ \A i \in DOMAIN s : FallbackCourse(s[i], b) /\ s[i] # <<>>

LEMMA WorthIs ==
  ASSUME NEW s \in Seq(Places), Along(s), NEW i \in Int
  PROVE  Worth(s) \o <<i>> \in [1..4 -> Int] /\ (Worth(s) \o <<i>>)[4] = i
<1> DEFINE purposes == Purposes(s, s[1].id)
<1>1. Legs(s) \in Int
  BY TotalIs
<1>2. Len(s) \in Nat
  OBVIOUS
<1>3. Cardinality(purposes) \in Nat
  <2>1. purposes \subseteq {"activity", "meal", "rest", "sightseeing"}
    BY DEF Purposes, Purpose, role
  <2>2. IsFiniteSet({"activity", "meal", "rest", "sightseeing"})
    <3>1. IsFiniteSet({}) /\ IsFiniteSet({"activity"})
      BY FS_EmptySet, FS_Singleton
    <3>2. IsFiniteSet({"activity"} \cup {"meal"})
      BY <3>1, FS_AddElement
    <3>3. IsFiniteSet(({"activity"} \cup {"meal"}) \cup {"rest"})
      BY <3>2, FS_AddElement
    <3>4. IsFiniteSet((({"activity"} \cup {"meal"}) \cup {"rest"}) \cup {"sightseeing"})
      BY <3>3, FS_AddElement
    <3>5. {"activity", "meal", "rest", "sightseeing"} = (({"activity"} \cup {"meal"}) \cup {"rest"}) \cup {"sightseeing"}
      OBVIOUS
    <3>6. QED BY <3>4, <3>5
  <2> HIDE DEF purposes
  <2>3. QED BY <2>1, <2>2, FS_Subset, FS_CardinalityType
<1>4. Worth(s) = <<-Cardinality(purposes), -Len(s), Legs(s)>>
  BY DEF Worth
<1> HIDE DEF purposes
<1> DEFINE x == -Cardinality(purposes)
           y == -Len(s)
           z == Legs(s)
<1>5. x \in Int /\ y \in Int /\ z \in Int
  BY <1>1, <1>2, <1>3
<1> HIDE DEF x, y, z
<1>6. /\ <<x, y, z>> \in Seq(Int) /\ Len(<<x, y, z>>) = 3
      /\ <<i>> \in Seq(Int) /\ Len(<<i>>) = 1 /\ <<i>>[1] = i
  BY <1>5
<1> DEFINE u == <<x, y, z>>
           w == <<i>>
           uw == u \o w
<1>7. u \in Seq(Int) /\ Len(u) = 3 /\ w \in Seq(Int) /\ Len(w) = 1 /\ w[1] = i
  BY <1>6
<1>8. Worth(s) \o <<i>> = uw
  BY <1>4 DEF x, y, z
<1> HIDE DEF u, w
<1>9. /\ uw \in Seq(Int) /\ Len(uw) = Len(u) + Len(w)
      /\ \A k \in 1..(Len(u) + Len(w)) : uw[k] = IF k <= Len(u) THEN u[k] ELSE w[k - Len(u)]
  BY <1>7, ConcatProperties
<1> HIDE DEF uw
<1>10. Len(uw) = 4 /\ uw[4] = i
  BY <1>7, <1>9
<1>11. uw \in [1..4 -> Int]
  BY <1>9, <1>10, LenProperties
<1>12. QED BY <1>8, <1>10, <1>11

LEMMA BestRouteIs ==
  ASSUME NEW b, Routes(routes, b)
  PROVE  FallbackCourse(BestRoute, b)
<1> DEFINE ranks == [i \in DOMAIN routes |-> Worth(routes[i]) \o <<i>>]
           sorted == Sorted(DOMAIN routes, ranks)
<1>1. BestRoute = IF routes = <<>> THEN <<>> ELSE routes[sorted[1]]
  BY DEF BestRoute
<1>2. DOMAIN routes = 1..Len(routes) /\ Len(routes) \in Nat
  BY DEF Routes
<1>3. \A i \in DOMAIN routes : ranks[i] \in [1..4 -> Int] /\ ranks[i][4] = i
  <2>1. ASSUME NEW i \in DOMAIN routes
        PROVE  Worth(routes[i]) \o <<i>> \in [1..4 -> Int] /\ (Worth(routes[i]) \o <<i>>)[4] = i
    <3>1. routes[i] \in Seq(Places) /\ Along(routes[i])
      BY DEF Routes, FallbackCourse, Course, Wanted
    <3>2. i \in Int
      BY <1>2
    <3>3. QED BY <3>1, <3>2, WorthIs
  <2>2. QED BY <2>1
<1>4. IsFiniteSet(DOMAIN routes) /\ Cardinality(DOMAIN routes) = Len(routes)
  BY <1>2, UpTo
<1> HIDE DEF ranks
<1>5. \A i, j \in DOMAIN routes : ranks[i] = ranks[j] => i = j
  BY <1>3
<1>6. sorted \in Seq(DOMAIN routes) /\ Len(sorted) = Cardinality(DOMAIN routes)
  <2> DEFINE D == DOMAIN routes
  <2>1. \A i \in D : ranks[i] \in [1..4 -> Int]
    BY <1>3
  <2>2. IsFiniteSet(D) /\ \A i, j \in D : ranks[i] = ranks[j] => i = j
    BY <1>4, <1>5
  <2>3. sorted = Sorted(D, ranks)
    OBVIOUS
  <2> HIDE DEF D, sorted
  <2>4. Sorted(D, ranks) \in Seq(D) /\ Len(Sorted(D, ranks)) = Cardinality(D)
    BY <2>1, <2>2, SortedIs
  <2>5. QED BY <2>3, <2>4 DEF D
<1> HIDE DEF sorted
<1>7. CASE routes = <<>>
  BY <1>1, <1>7, CourseOfNone DEF FallbackCourse, MaxStops
<1>8. CASE routes # <<>>
  <2>1. Len(routes) # 0
    BY <1>8 DEF Routes
  <2>2. 1 \in 1..Len(sorted)
    BY <1>2, <1>4, <1>6, <2>1
  <2>3. sorted[1] \in DOMAIN routes
    BY <1>6, <2>2, ElementOfSeq
  <2>4. QED BY <1>1, <1>8, <2>3 DEF Routes
<1>9. QED BY <1>7, <1>8

------------------------------------------------------------------------------
(* The search and the answer *)

(* What every answer is. *)
Answered(r, b) ==
    /\ Course(r.stops, b) /\ Len(r.stops) <= MaxStops /\ r.total = Total(r.stops)
    /\ r.stops # <<>> => /\ ValidRoles(r.stops, r.main)
                         /\ \E p \in ToSet(r.stops) : p.id = r.main /\ SportsAnchor(p, b.sport)
                         /\ ~r.used_ai => r.main = r.stops[1].id

LEMMA FallbackAnswers ==
  ASSUME NEW b, NEW s, FallbackCourse(s, b), NEW r,
         r = [stops |-> s, used_ai |-> FALSE, main |-> MainId(s, b), total |-> Total(s)]
  PROVE  Answered(r, b)
<1>1. r.stops = s /\ r.main = MainId(s, b) /\ r.total = Total(s)
  OBVIOUS
<1>2. Course(s, b) /\ Len(s) <= MaxStops /\ s \in Seq(Places)
  BY DEF FallbackCourse, Course, Wanted
<1>3. ASSUME s # <<>>
      PROVE  /\ ValidRoles(s, MainId(s, b)) /\ MainId(s, b) = s[1].id
             /\ \E p \in ToSet(s) : p.id = MainId(s, b) /\ SportsAnchor(p, b.sport)
  <2>1. /\ SportsAnchor(s[1], b.sport) /\ ValidRoles(s, s[1].id)
        /\ \A i \in 2..Len(s) : role(s[i]) # "activity"
    BY <1>3 DEF FallbackCourse
  <2>2. MainId(s, b) = s[1].id
    BY <1>2, <1>3, <2>1, MainIsTheFirst
  <2>3. s[1] \in ToSet(s)
    <3>1. 1 \in DOMAIN s
      BY <1>2, <1>3
    <3>2. QED BY <3>1 DEF ToSet
  <2>4. QED BY <2>1, <2>2, <2>3
<1>4. QED BY <1>1, <1>2, <1>3 DEF Answered

LEMMA ModelAnswers ==
  ASSUME NEW s, Course(s, body), Accepted(s), NEW r,
         r = [stops |-> s, used_ai |-> TRUE, main |-> MainId(s, body), total |-> Total(s)]
  PROVE  Answered(r, body)
<1>1. r.stops = s /\ r.main = MainId(s, body) /\ r.total = Total(s)
  OBVIOUS
<1>2. r.used_ai
  OBVIOUS
<1>3. s \in Seq(Places)
  BY DEF Course, Wanted
<1>4. /\ Len(s) <= MaxStops /\ ValidRoles(s, MainId(s, body))
      /\ \E i \in DOMAIN s : SportsAnchor(s[i], body.sport)
  BY DEF Accepted
<1>5. \E p \in ToSet(s) : p.id = MainId(s, body) /\ SportsAnchor(p, body.sport)
  BY <1>3, <1>4, MainIs
<1>6. QED BY <1>1, <1>2, <1>4, <1>5 DEF Answered

(* What the search has found so far. *)
Searched ==
    /\ body \in Bodies
    /\ candidates \in Seq(Startable(body)) /\ starts \in Seq(Starts(body))
    /\ FallbackCourse(route, body) /\ Routes(routes, body) /\ FallbackCourse(fallback, body)
    /\ Course(stops, body)
    /\ route # <<>> => starts # <<>> /\ pc # "query"

RecommendInv ==
    /\ Searched
    /\ SampleKeepsPurposes
    /\ result # Null \/ pc = "answered" => Answered(result, body)
    /\ mission # Null => pc = "done" /\ MissionIsTheCourse

LEMMA RecommendStarts == Init => RecommendInv
<1> SUFFICES ASSUME Init PROVE RecommendInv
  OBVIOUS
<1>1. FallbackCourse(<<>>, body) /\ Course(<<>>, body)
  BY CourseOfNone DEF FallbackCourse, MaxStops
<1>2. Searched
  BY <1>1 DEF Init, Searched, Routes
<1>3. QED BY <1>2 DEF Init, RecommendInv, SampleKeepsPurposes

(* While the sample is used, nothing of what it was drawn from changes. *)
LEMMA SampleKept ==
  ASSUME SampleKeepsPurposes,
         pc' # "plan" \/ UNCHANGED <<shown, stamped, body, pc, candidates>>
  PROVE  SampleKeepsPurposes'
<1>1. CASE pc' # "plan"
  BY <1>1 DEF SampleKeepsPurposes
<1>2. CASE UNCHANGED <<shown, stamped, body, pc, candidates>>
  <2>1. Query(body)' = Query(body)
    BY <1>2, QueryKept
  <2>2. SampleKeepsPurposes <=>
           (pc = "plan" => KeepsPurposes(candidates, Feasible(Query(body), body)))
    BY DEF SampleKeepsPurposes, KeepsPurposes
  <2>3. SampleKeepsPurposes' <=>
           (pc' = "plan" => KeepsPurposes(candidates', Feasible(Query(body)', body')))
    BY DEF SampleKeepsPurposes, KeepsPurposes
  <2>4. QED BY <1>2, <2>1, <2>2, <2>3
<1>3. QED BY <1>1, <1>2

LEMMA ChooseStep == ASSUME RecommendInv, Choose PROVE RecommendInv'
<1>1. candidates' \in CoherentCandidates(Query(body), body) /\ pc = "query" /\ pc' = "plan"
      /\ starts' = Anchors(candidates', body)
      /\ UNCHANGED <<shown, stamped, body, route, routes, fallback, stops, result, mission>>
  BY DEF Choose
<1>2. candidates' \in Seq(Startable(body)) /\ KeepsPurposes(candidates', Feasible(Query(body), body))
  BY <1>1, CandidatesAre
<1>3. starts' \in Seq(Starts(body))
  BY <1>1, <1>2, StartsAre
<1>4. Searched'
  BY <1>1, <1>2, <1>3 DEF RecommendInv, Searched
<1>5. SampleKeepsPurposes'
  <2>1. Query(body)' = Query(body)
    BY <1>1, QueryKept
  <2>2. SampleKeepsPurposes' <=>
           (pc' = "plan" => KeepsPurposes(candidates', Feasible(Query(body)', body')))
    BY DEF SampleKeepsPurposes, KeepsPurposes
  <2>3. QED BY <1>1, <1>2, <2>1, <2>2
<1>6. (result # Null \/ pc = "answered" => Answered(result, body))'
  BY <1>1 DEF RecommendInv
<1>7. mission' = Null
  BY <1>1 DEF RecommendInv
<1>8. QED BY <1>4, <1>5, <1>6, <1>7 DEF RecommendInv

(* Steps that answer nothing and make no mission. *)
LEMMA SearchGoesOn ==
  ASSUME RecommendInv, Searched', UNCHANGED <<shown, stamped, body, candidates, result, mission>>,
         pc' = pc \/ (pc = "plan" /\ pc' = "ask")
  PROVE  RecommendInv'
<1>1. SampleKeepsPurposes'
  BY SampleKept DEF RecommendInv
<1>2. (result # Null \/ pc = "answered" => Answered(result, body))'
  BY DEF RecommendInv
<1>3. mission' # Null => pc' = "done" /\ MissionIsTheCourse'
  BY DEF RecommendInv, MissionIsTheCourse
<1>4. QED BY <1>1, <1>2, <1>3 DEF RecommendInv

LEMMA BeginRouteStep == ASSUME RecommendInv, BeginRoute PROVE RecommendInv'
<1>1. Head(starts) \in Starts(body) /\ route' = <<Head(starts)>>
  BY HeadTailProperties DEF BeginRoute, RecommendInv, Searched
<1>2. FallbackCourse(route', body)
  BY <1>1, RouteBegins
<1>3. UNCHANGED <<shown, stamped, body, pc, candidates, starts, routes, fallback, stops, result, mission>>
  BY DEF BeginRoute
<1>4. Searched'
  BY <1>2, <1>3 DEF RecommendInv, Searched, BeginRoute
<1>5. QED BY <1>3, <1>4, SearchGoesOn

LEMMA GrowRouteStep == ASSUME RecommendInv, GrowRoute PROVE RecommendInv'
<1>1. PICK p \in NextStops : route' = Append(route, p)
  BY DEF GrowRoute
<1>2. UNCHANGED <<shown, stamped, body, pc, candidates, starts, routes, fallback, stops, result, mission>>
      /\ route # <<>> /\ Len(route) < MaxStops
  BY DEF GrowRoute
<1>3. /\ p \in ToSet(candidates) /\ p.id \notin Seen(route) /\ role(p) # "activity"
      /\ ValidRoles(Append(route, p), route[1].id) /\ Fits(route, p, body)
  BY DEF NextStops
<1>4. p \in Wanted(body)
  BY <1>3, ElementOfSeq DEF ToSet, RecommendInv, Searched, Startable
<1>5. FallbackCourse(route, body) /\ Course(route, body) /\ route \in Seq(Wanted(body))
  BY DEF RecommendInv, Searched, FallbackCourse, Course
<1>6. /\ Course(route', body) /\ route' # <<>> /\ Len(route') = Len(route) + 1
      /\ \A i \in 1..Len(route) : route'[i] = route[i]
      /\ route'[Len(route) + 1] = p
  BY <1>1, <1>3, <1>4, <1>5, CourseGrows
<1>7. Len(route) \in Nat /\ Len(route) >= 1
  BY <1>2, <1>5
<1>8. route'[1] = route[1]
  BY <1>6, <1>7
<1>9. \A i \in 2..Len(route') : role(route'[i]) # "activity"
  <2>1. ASSUME NEW i \in 2..Len(route') PROVE role(route'[i]) # "activity"
    <3>1. i \in 2..Len(route) \/ i = Len(route) + 1
      BY <1>6, <1>7
    <3>2. CASE i \in 2..Len(route)
      <4>1. i \in 1..Len(route) /\ role(route[i]) # "activity"
        BY <1>2, <1>5, <1>7, <3>2 DEF FallbackCourse
      <4>2. QED BY <1>6, <4>1
    <3>3. CASE i = Len(route) + 1
      BY <1>3, <1>6, <3>3
    <3>4. QED BY <3>1, <3>2, <3>3
  <2>2. QED BY <2>1
<1>10. FallbackCourse(route', body)
  <2>1. SportsAnchor(route[1], body.sport)
    BY <1>2, <1>5 DEF FallbackCourse
  <2>2. ValidRoles(route', route'[1].id)
    BY <1>1, <1>3, <1>8
  <2>3. Len(route') <= MaxStops
    BY <1>2, <1>6, <1>7 DEF MaxStops
  <2>4. QED BY <1>6, <1>8, <1>9, <2>1, <2>2, <2>3 DEF FallbackCourse
<1>11. Searched'
  BY <1>2, <1>10 DEF RecommendInv, Searched
<1>12. QED BY <1>2, <1>11, SearchGoesOn

LEMMA EndRouteStep == ASSUME RecommendInv, EndRoute PROVE RecommendInv'
<1>1. UNCHANGED <<shown, stamped, body, pc, candidates, fallback, stops, result, mission>>
      /\ routes' = Append(routes, route) /\ starts' = Tail(starts) /\ route' = <<>> /\ route # <<>>
  BY DEF EndRoute
<1>2. FallbackCourse(route, body) /\ route \in Seq(Wanted(body)) /\ Routes(routes, body)
  BY DEF RecommendInv, Searched, FallbackCourse, Course
<1>3. Routes(routes', body)
  <2>1. routes \in Seq(Seq(Wanted(body))) /\ \A i \in DOMAIN routes : FallbackCourse(routes[i], body) /\ routes[i] # <<>>
    BY <1>2 DEF Routes
  <2>2. /\ routes' \in Seq(Seq(Wanted(body))) /\ Len(routes') = Len(routes) + 1
        /\ \A i \in 1..Len(routes) : routes'[i] = routes[i]
        /\ routes'[Len(routes) + 1] = route
    BY <1>1, <1>2, <2>1, AppendProperties
  <2>3. DOMAIN routes = 1..Len(routes) /\ DOMAIN routes' = 1..Len(routes') /\ Len(routes) \in Nat
    BY <2>1, <2>2, LenProperties
  <2>4. /\ \A i \in DOMAIN routes' : i \in DOMAIN routes \/ i = Len(routes) + 1
        /\ \A i \in DOMAIN routes : routes'[i] = routes[i]
    BY <2>2, <2>3
  <2>5. QED BY <1>1, <1>2, <2>1, <2>2, <2>4 DEF Routes
<1>4. starts' \in Seq(Starts(body))
  <2>1. starts \in Seq(Starts(body))
    BY DEF RecommendInv, Searched
  <2>2. starts # <<>>
    BY <1>1 DEF RecommendInv, Searched
  <2>3. QED BY <1>1, <2>1, <2>2, HeadTailProperties
<1>5. FallbackCourse(route', body)
  BY <1>1, CourseOfNone DEF FallbackCourse, MaxStops
<1>6. Searched'
  BY <1>1, <1>3, <1>4, <1>5 DEF RecommendInv, Searched
<1>7. QED BY <1>1, <1>6, SearchGoesOn

LEMMA PlanStep == ASSUME RecommendInv, Plan PROVE RecommendInv'
<1>1. /\ fallback' = BestRoute
      /\ UNCHANGED <<shown, stamped, body, candidates, starts, route, routes, stops, mission>>
      /\ (pc = "plan" /\ pc' = "ask" /\ UNCHANGED result)
            \/ (pc = "plan" /\ pc' = "answered" /\ Answer(BestRoute, FALSE))
  BY DEF Plan
<1>2. FallbackCourse(BestRoute, body)
  BY BestRouteIs DEF RecommendInv, Searched
<1>3. Searched'
  BY <1>1, <1>2 DEF RecommendInv, Searched
<1>4. CASE pc' = "ask" /\ UNCHANGED result
  BY <1>1, <1>3, <1>4, SearchGoesOn
<1>5. CASE pc' = "answered" /\ Answer(BestRoute, FALSE)
  <2>1. Answered(result', body)
    BY <1>2, <1>5, FallbackAnswers DEF Answer
  <2>2. SampleKeepsPurposes'
    BY <1>5, SampleKept DEF RecommendInv
  <2>3. mission' = Null
    BY <1>1 DEF RecommendInv
  <2>4. QED BY <1>1, <1>3, <2>1, <2>2, <2>3 DEF RecommendInv
<1>6. QED BY <1>1, <1>4, <1>5

LEMMA TakeStopStep == ASSUME RecommendInv, NEW p, TakeStop(p) PROVE RecommendInv'
<1>1. /\ UNCHANGED <<shown, stamped, body, pc, candidates, starts, route, routes, fallback, result, mission>>
      /\ stops' = Append(stops, p) /\ Fits(stops, p, body)
      /\ p \in ToSet(candidates) /\ p.id \notin Seen(stops)
  BY DEF TakeStop, Untaken
<1>2. p \in Wanted(body)
  BY <1>1, ElementOfSeq DEF ToSet, RecommendInv, Searched, Startable
<1>3. Course(stops', body)
  <2>1. Course(stops, body)
    BY DEF RecommendInv, Searched
  <2>2. QED BY <1>1, <1>2, <2>1, CourseGrows
<1>4. Searched'
  BY <1>1, <1>3 DEF RecommendInv, Searched
<1>5. QED BY <1>1, <1>4, SearchGoesOn

(* The course is answered once. *)
LEMMA AnswerStep ==
  ASSUME RecommendInv, pc = "ask", pc' = "answered", Answered(result', body),
         UNCHANGED <<shown, stamped, body, candidates, starts, route, routes, fallback, stops, mission>>
  PROVE  RecommendInv'
<1>1. Searched'
  BY DEF RecommendInv, Searched
<1>2. SampleKeepsPurposes'
  BY SampleKept DEF RecommendInv
<1>3. mission' = Null
  BY DEF RecommendInv
<1>4. QED BY <1>1, <1>2, <1>3 DEF RecommendInv

LEMMA AnswerSteps == ASSUME RecommendInv, AnswerByModel \/ AnswerByFallback PROVE RecommendInv'
<1>1. pc = "ask" /\ pc' = "answered"
      /\ UNCHANGED <<shown, stamped, body, candidates, starts, route, routes, fallback, stops, mission>>
  BY DEF AnswerByModel, AnswerByFallback
<1>2. CASE AnswerByModel
  <2>1. Accepted(stops) /\ Answer(stops, TRUE)
    BY <1>2 DEF AnswerByModel
  <2>2. Course(stops, body)
    BY DEF RecommendInv, Searched
  <2>3. Answered(result', body)
    BY <2>1, <2>2, ModelAnswers DEF Answer
  <2>4. QED BY <1>1, <2>3, AnswerStep
<1>3. CASE AnswerByFallback
  <2>1. Answer(fallback, FALSE)
    BY <1>3 DEF AnswerByFallback
  <2>2. FallbackCourse(fallback, body)
    BY DEF RecommendInv, Searched
  <2>3. Answered(result', body)
    BY <2>1, <2>2, FallbackAnswers DEF Answer
  <2>4. QED BY <1>1, <2>3, AnswerStep
<1>4. QED BY <1>2, <1>3

LEMMA FailStep == ASSUME RecommendInv, NoChoice \/ NoMission PROVE RecommendInv'
<1>1. /\ pc \in {"ask", "answered"} /\ pc' = "failed"
      /\ UNCHANGED <<shown, stamped, body, candidates, starts, route, routes, fallback, stops,
                     result, mission>>
  BY DEF NoChoice, NoMission
<1>2. Searched'
  BY <1>1 DEF RecommendInv, Searched
<1>3. SampleKeepsPurposes'
  BY <1>1, SampleKept DEF RecommendInv
<1>4. mission' = Null
  BY <1>1 DEF RecommendInv
<1>5. (result # Null \/ pc = "answered" => Answered(result, body))'
  BY <1>1 DEF RecommendInv
<1>6. QED BY <1>2, <1>3, <1>4, <1>5 DEF RecommendInv

LEMMA DisappearStep == ASSUME RecommendInv, NEW p, Disappear(p) PROVE RecommendInv'
<1>1. /\ pc = "answered" /\ pc' = "answered"
      /\ UNCHANGED <<body, candidates, starts, route, routes, fallback, stops, result, mission>>
  BY DEF Disappear
<1>2. Searched'
  BY <1>1 DEF RecommendInv, Searched
<1>3. SampleKeepsPurposes'
  BY <1>1, SampleKept DEF RecommendInv
<1>4. mission' = Null
  BY <1>1 DEF RecommendInv
<1>5. (result # Null \/ pc = "answered" => Answered(result, body))'
  BY <1>1 DEF RecommendInv
<1>6. QED BY <1>2, <1>3, <1>4, <1>5 DEF RecommendInv

LEMMA CreateMissionStep == ASSUME RecommendInv, CreateMission PROVE RecommendInv'
<1>1. /\ pc = "answered" /\ pc' = "done" /\ result.stops # <<>>
      /\ Seen(result.stops) \subseteq shown \cap stamped
      /\ UNCHANGED <<shown, stamped, body, candidates, starts, route, routes, fallback, stops,
                     result>>
  BY DEF CreateMission
<1>2. Searched'
  BY <1>1 DEF RecommendInv, Searched
<1>3. SampleKeepsPurposes'
  BY <1>1, SampleKept DEF RecommendInv
<1>4. Answered(result, body)
  BY <1>1 DEF RecommendInv
<1>5. Stays(result.stops) <= body.minutes
  <2>1. /\ result.stops \in Seq(Places) /\ Along(result.stops)
        /\ Total(result.stops) <= body.minutes
    BY <1>1, <1>4 DEF Answered, Course, Wanted
  <2>2. body.minutes \in Int
    BY BodiesAssumption DEF RecommendInv, Searched
  <2>3. QED BY <2>1, <2>2, TotalIs
<1>6. \A p \in ToSet(result.stops) : p.id \in shown \cap stamped
  BY <1>1 DEF ToSet, Seen
<1>7. mission' = [stamps |-> Ids(result.stops), minutes |-> Stays(result.stops),
                  complete |-> \A p \in ToSet(result.stops) : p.id \in shown \cap stamped]
  BY DEF CreateMission
<1>8. mission'.stamps = Ids(result.stops) /\ mission'.minutes = Stays(result.stops)
  BY <1>7
<1>9. mission'.complete
  <2>1. mission'.complete = (\A p \in ToSet(result.stops) : p.id \in shown \cap stamped)
    BY <1>7
  <2>2. QED BY <1>6, <2>1
<1>10. MissionIsTheCourse'
  BY <1>1, <1>5, <1>8, <1>9 DEF MissionIsTheCourse
<1>11. QED BY <1>1, <1>2, <1>3, <1>4, <1>10 DEF RecommendInv

LEMMA RecommendStep == RecommendInv /\ [Next]_vars => RecommendInv'
<1> SUFFICES ASSUME RecommendInv, [Next]_vars PROVE RecommendInv'
  OBVIOUS
<1>1. CASE UNCHANGED vars
  BY <1>1, SearchGoesOn DEF vars, RecommendInv, Searched
<1>2. CASE Choose
  BY <1>2, ChooseStep
<1>3. CASE BeginRoute \/ GrowRoute \/ EndRoute
  BY <1>3, BeginRouteStep, GrowRouteStep, EndRouteStep
<1>4. CASE Plan
  BY <1>4, PlanStep
<1>5. CASE \E p \in Places : TakeStop(p) \/ Disappear(p)
  BY <1>5, TakeStopStep, DisappearStep
<1>6. CASE AnswerByModel \/ AnswerByFallback
  BY <1>6, AnswerSteps
<1>7. CASE NoChoice \/ NoMission
  BY <1>7, FailStep
<1>8. CASE CreateMission
  BY <1>8, CreateMissionStep
<1>9. QED BY <1>1, <1>2, <1>3, <1>4, <1>5, <1>6, <1>7, <1>8 DEF Next

LEMMA CourseHolds == RecommendInv => CourseFitsTheDay
<1> SUFFICES ASSUME RecommendInv, result # Null, result.stops # <<>> PROVE CourseFitsTheDay
  BY DEF CourseFitsTheDay
<1>1. Answered(result, body) /\ Course(result.stops, body)
  BY DEF RecommendInv, Answered
<1>2. \A i \in DOMAIN result.stops : result.stops[i] \in Wanted(body)
  BY <1>1, ElementOfSeq DEF Course
<1>3. QED BY <1>1, <1>2 DEF CourseFitsTheDay, Answered, Course, Along, Wanted

(* A course fits in the time that was given, each leg can be travelled, no place *)
(* comes twice and none was asked to be left out (_fallback, _ai_stops).         *)
THEOREM CoursesFit == RowsSpec => []CourseFitsTheDay
<1>1. Spec => []RecommendInv
  BY RecommendStarts, RecommendStep, PTL DEF Spec
<1>2. QED BY <1>1, RowsParts, CourseHolds, PTL

LEMMA MainHolds == RecommendInv => OneMainExperience
  BY DEF RecommendInv, Answered, OneMainExperience

(* A course has at most one stop of each purpose, two sights, and its main stop  *)
(* is of the sport that was asked for: the one the fallback began with and the   *)
(* one _main_id finds in it are the same.                                        *)
THEOREM MainIsOne == RowsSpec => []OneMainExperience
<1>1. Spec => []RecommendInv
  BY RecommendStarts, RecommendStep, PTL DEF Spec
<1>2. QED BY <1>1, RowsParts, MainHolds, PTL

(* _coherent_candidates: the cut and the sample lose no purpose that the query   *)
(* found around the anchor.                                                      *)
THEOREM PurposesKept == RowsSpec => []SampleKeepsPurposes
<1>1. Spec => []RecommendInv
  BY RecommendStarts, RecommendStep, PTL DEF Spec
<1>2. RecommendInv => SampleKeepsPurposes
  BY DEF RecommendInv
<1>3. QED BY <1>1, <1>2, RowsParts, PTL

LEMMA MissionHolds == RecommendInv => MissionIsTheCourse
  BY DEF RecommendInv, MissionIsTheCourse

(* create_generated_mission: all the stops in their order, or none.              *)
THEOREM MissionsAreCourses == RowsSpec => []MissionIsTheCourse
<1>1. Spec => []RecommendInv
  BY RecommendStarts, RecommendStep, PTL DEF Spec
<1>2. QED BY <1>1, RowsParts, MissionHolds, PTL
===============================================================================
