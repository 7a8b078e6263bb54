------------------------- MODULE MCProofsPosts_proofs -------------------------
(***************************************************************************)
(* Proofs about the badge rules, for every table of labels and missions    *)
(* and every set of rows; about ProofReview, which awards by them, for     *)
(* every set of passports, courses, badges and requests, and for both      *)
(* isolation levels; and, at the end, the theorems of Feed_proofs for the  *)
(* behaviours in which the other sides of the row are left alone.          *)
(***************************************************************************)
EXTENDS MCProofsPosts, FiniteSetTheorems, TLAPS

(* The badge rules and their loop *)
LEMMA GroupGrows ==
  ASSUME NEW F, NEW G, F \subseteq G, NEW metric \in Metrics
  PROVE  Group(F, metric) \subseteq Group(G, metric)
<1>1. CoursesOf(F) \subseteq CoursesOf(G)
  BY DEF CoursesOf
<1>2. ASSUME NEW sports PROVE CoursesIn(F, sports) \subseteq CoursesIn(G, sports)
  BY DEF CoursesIn, CoursesOf
<1>3. ASSUME NEW s PROVE CoursesAt(F, s) \subseteq CoursesAt(G, s)
  BY DEF CoursesAt, CoursesOf
<1>4. CoursesOf({f \in F : f.mountain}) \subseteq CoursesOf({f \in G : f.mountain})
  BY DEF CoursesOf
<1>5. QED BY <1>1, <1>2, <1>3, <1>4 DEF Group, Metrics

LEMMA ThresholdDomain ==
  /\ DOMAIN Threshold =
       {"first_mission", "first_mountain", "three_missions", "three_sports",
        "trekking_three", "first_marine", "first_inland_water", "first_snow",
        "first_cycling", "first_running"}
  /\ \A rule \in DOMAIN Threshold :
       Threshold[rule].metric \in Metrics /\ Threshold[rule].minimum \in Nat
  BY DEF Threshold, Metrics

(* More facts earn more: a rule never stops holding when a mission is added.  *)
(* Only the sets that are counted have to be finite.                          *)
THEOREM EarnedGrows ==
  ASSUME NEW F, NEW G, F \subseteq G,
         \A metric \in Metrics : IsFiniteSet(Group(G, metric))
  PROVE  EarnedBadgeRules(F) \subseteq EarnedBadgeRules(G)
<1>1. SpecialRules(F) \subseteq SpecialRules(G)
  BY DEF SpecialRules
<1>2. ASSUME NEW metric \in Metrics
      PROVE  /\ BadgeProgress(F)[metric] \in Nat /\ BadgeProgress(G)[metric] \in Nat
             /\ BadgeProgress(F)[metric] <= BadgeProgress(G)[metric]
  <2>1. Group(F, metric) \in SUBSET Group(G, metric)
    BY GroupGrows
  <2>2. IsFiniteSet(Group(F, metric))
        /\ Cardinality(Group(F, metric)) <= Cardinality(Group(G, metric))
    BY <2>1, FS_Subset
  <2>3. Cardinality(Group(F, metric)) \in Nat /\ Cardinality(Group(G, metric)) \in Nat
    BY <2>2, FS_CardinalityType
  <2>4. QED BY <2>2, <2>3 DEF BadgeProgress
<1>3. ASSUME NEW rule \in DOMAIN Threshold,
             BadgeProgress(F)[Threshold[rule].metric] >= Threshold[rule].minimum
      PROVE  BadgeProgress(G)[Threshold[rule].metric] >= Threshold[rule].minimum
  <2>1. Threshold[rule].metric \in Metrics /\ Threshold[rule].minimum \in Nat
    BY ThresholdDomain
  <2>2. QED BY <1>2, <1>3, <2>1
<1>4. QED BY <1>1, <1>3 DEF EarnedBadgeRules

(* A member completes finitely many missions: each set counted is finite. *)
LEMMA GroupIsFinite ==
  ASSUME NEW F, IsFiniteSet(F), NEW metric \in Metrics
  PROVE  IsFiniteSet(Group(F, metric))
<1> DEFINE sports == {MissionSport(f).sport : f \in F}
<1>1. IsFiniteSet(CoursesOf(F))
  <2>1. [f \in F |-> f.course] \in Surjection(F, CoursesOf(F))
    BY DEF Surjection, CoursesOf
  <2>2. QED BY <2>1, FS_Surjection
<1>2. IsFiniteSet(sports)
  <2>1. [f \in F |-> MissionSport(f).sport] \in Surjection(F, sports)
    BY DEF Surjection
  <2> HIDE DEF sports
  <2>2. QED BY <2>1, FS_Surjection
<1>3. Group(F, metric) \in SUBSET CoursesOf(F) \/ Group(F, metric) \in SUBSET sports
  <2>1. ASSUME NEW s PROVE CoursesIn(F, s) \subseteq CoursesOf(F)
    BY DEF CoursesIn, CoursesOf
  <2>2. ASSUME NEW s PROVE CoursesAt(F, s) \subseteq CoursesOf(F)
    BY DEF CoursesAt, CoursesOf
  <2>3. CoursesOf({f \in F : f.mountain}) \subseteq CoursesOf(F)
    BY DEF CoursesOf
  <2>4. QED BY <2>1, <2>2, <2>3 DEF Group, Metrics
<1> HIDE DEF sports
<1>4. QED BY <1>1, <1>2, <1>3, FS_Subset

------------------------------------------------------------------------------
(* The loop: its groups are the defined ones, and finite. *)
LoopInv == /\ LoopMatchesDefinition
           /\ \A metric \in Metrics : IsFiniteSet(groups[metric])

LEMMA LoopInit == TallyInit => LoopInv
<1> SUFFICES ASSUME TallyInit PROVE LoopInv
  OBVIOUS
<1>1. ASSUME NEW metric \in Metrics PROVE Group({}, metric) = {}
  BY DEF Group, CoursesOf, CoursesIn, CoursesAt, Metrics
<1>2. QED BY <1>1, FS_EmptySet DEF TallyInit, LoopInv, LoopMatchesDefinition

(* One row: what it adds to a group is what the loop adds. *)
LEMMA RowAdded ==
  ASSUME NEW F, NEW fact, NEW metric \in Metrics
  PROVE  Group(F \cup {fact}, metric) =
           Group(F, metric) \cup
             (IF metric = "sports" THEN {MissionSport(fact).sport} \ {None}
              ELSE {c \in {fact.course} : Joins(fact, metric)})
<1> DEFINE G == F \cup {fact}
<1>1. CoursesOf(G) = CoursesOf(F) \cup {fact.course}
  BY DEF CoursesOf
<1>2. CoursesOf({f \in G : f.mountain}) =
        CoursesOf({f \in F : f.mountain}) \cup {c \in {fact.course} : fact.mountain}
  BY DEF CoursesOf
<1>3. ASSUME NEW sports
      PROVE  CoursesIn(G, sports) = CoursesIn(F, sports) \cup
               {c \in {fact.course} : MissionSport(fact).sport \in sports}
  BY DEF CoursesIn, CoursesOf
<1>4. ASSUME NEW s
      PROVE  CoursesAt(G, s) = CoursesAt(F, s) \cup
               {c \in {fact.course} : MissionSport(fact).setting = s}
  BY DEF CoursesAt, CoursesOf
<1>5. {MissionSport(f).sport : f \in G} =
        {MissionSport(f).sport : f \in F} \cup {MissionSport(fact).sport}
  OBVIOUS
<1> HIDE DEF G
<1>6. CASE metric = "missions"
  BY <1>1, <1>6 DEF Group, Joins, G
<1>7. CASE metric = "mountains"
  BY <1>2, <1>7 DEF Group, Joins, G
<1>8. CASE metric = "snow"
  BY <1>3, <1>8 DEF Group, Joins, G
<1>9. CASE metric = "marine"
  BY <1>4, <1>9 DEF Group, Joins, G
<1>10. CASE metric = "inland_water"
  BY <1>4, <1>10 DEF Group, Joins, G
<1>11. CASE metric = "sports"
  BY <1>5, <1>11 DEF Group, G
<1>12. CASE metric \in {"trekking", "cycling", "running"}
  BY <1>3, <1>12 DEF Group, Joins, G
<1>13. QED
  BY <1>6, <1>7, <1>8, <1>9, <1>10, <1>11, <1>12 DEF Metrics

LEMMA LoopStep == LoopInv /\ [TallyNext]_tallyVars => LoopInv'
<1> SUFFICES ASSUME LoopInv, [TallyNext]_tallyVars PROVE LoopInv'
  OBVIOUS
<1>1. CASE UNCHANGED tallyVars
  BY <1>1 DEF LoopInv, LoopMatchesDefinition, tallyVars
<1>2. CASE TallyNext
  <2>1. PICK fact \in Facts : Read(fact)
    BY <1>2 DEF TallyNext
  <2> DEFINE Added(metric) ==
        IF metric = "sports" THEN {MissionSport(fact).sport} \ {None}
        ELSE {c \in {fact.course} : Joins(fact, metric)}
  <2>2. groups' = [metric \in Metrics |-> groups[metric] \cup Added(metric)]
        /\ rows' = rows \cup {fact}
    BY <2>1 DEF Read
  <2>3. ASSUME NEW metric \in Metrics
        PROVE  groups'[metric] = Group(rows', metric)
    BY <2>2, <2>3, RowAdded DEF LoopInv, LoopMatchesDefinition
  <2>4. ASSUME NEW metric \in Metrics PROVE IsFiniteSet(groups'[metric])
    <3>1. \E x : Added(metric) \in SUBSET {x}
      OBVIOUS
    <3>2. PICK x : Added(metric) \in SUBSET {x}
      BY <3>1
    <3>3. IsFiniteSet(groups[metric] \cup {x})
      BY FS_AddElement DEF LoopInv
    <3>4. groups'[metric] \in SUBSET (groups[metric] \cup {x})
      BY <2>2, <3>2
    <3>5. QED BY <3>3, <3>4, FS_Subset
  <2>5. LoopMatchesDefinition'
    BY <2>2, <2>3 DEF LoopMatchesDefinition
  <2>6. QED BY <2>4, <2>5 DEF LoopInv
<1>3. QED BY <1>1, <1>2

THEOREM LoopInductive == TallySpec => []LoopInv
<1>1. QED BY LoopInit, LoopStep, PTL DEF TallySpec

(* The loop of badge_progress computes the groups BadgeRules defines, whatever *)
(* the order of the rows.                                                      *)
THEOREM LoopIsExact == TallySpec => []LoopMatchesDefinition
<1>1. LoopInv => LoopMatchesDefinition
  BY DEF LoopInv
<1>2. QED BY <1>1, LoopInductive, PTL

LEMMA FiniteGroups ==
  ASSUME LoopInv
  PROVE  \A metric \in Metrics : IsFiniteSet(Group(rows, metric))
  BY DEF LoopInv, LoopMatchesDefinition

(* No badge rule is lost when another row is read. *)
THEOREM NothingLost == TallySpec => RulesNeverLost
<1>1. LoopInv /\ LoopInv' /\ [TallyNext]_tallyVars
        => [EarnedBadgeRules(rows) \subseteq EarnedBadgeRules(rows')]_tallyVars
  <2> SUFFICES ASSUME LoopInv, LoopInv', TallyNext
               PROVE  EarnedBadgeRules(rows) \subseteq EarnedBadgeRules(rows')
    OBVIOUS
  <2>1. rows \subseteq rows'
    BY DEF TallyNext, Read
  <2>2. \A metric \in Metrics : IsFiniteSet(Group(rows', metric))
    BY DEF LoopInv, LoopMatchesDefinition
  <2>3. QED BY <2>1, <2>2, EarnedGrows
<1>2. QED BY <1>1, LoopInductive, PTL DEF TallySpec, RulesNeverLost

(* Three trekking missions are three missions. *)
THEOREM TrekkingCountsMissions == TallySpec => []ThreeTakesThreeMissions
<1>1. ASSUME LoopInv PROVE ThreeTakesThreeMissions
  <2> DEFINE trekking == Group(rows, "trekking")
             missions == Group(rows, "missions")
  <2>1. trekking \in SUBSET missions
    BY DEF Group, CoursesIn, CoursesOf
  <2>2. IsFiniteSet(missions)
    BY FiniteGroups, <1>1 DEF Metrics
  <2>3. Cardinality(trekking) <= Cardinality(missions)
        /\ Cardinality(trekking) \in Nat /\ Cardinality(missions) \in Nat
    BY <2>1, <2>2, FS_Subset, FS_CardinalityType
  <2> HIDE DEF trekking, missions
  <2>4. BadgeProgress(rows)["trekking"] = Cardinality(trekking)
        /\ BadgeProgress(rows)["missions"] = Cardinality(missions)
    BY DEF BadgeProgress, Metrics, trekking, missions
  <2>5. "trekking_three" \in EarnedBadgeRules(rows) => Cardinality(trekking) >= 3
    <3>1. "trekking_three" \notin SpecialRules(rows)
      BY SpecialAssumption DEF SpecialRules, Threshold
    <3>2. QED BY <2>4, <3>1 DEF EarnedBadgeRules, Threshold
  <2>6. Cardinality(missions) >= 3 =>
          {"first_mission", "three_missions"} \subseteq EarnedBadgeRules(rows)
    BY <2>3, <2>4 DEF EarnedBadgeRules, Threshold
  <2>7. QED BY <2>3, <2>5, <2>6 DEF ThreeTakesThreeMissions
<1>2. QED BY <1>1, LoopInductive, PTL

-------------------------------------------------------------------------------
(* Proofs, reviews and awards *)
Step(r) == Handle(r) \/ Arrive(r) \/ Abort(r)

SubmitPlaces == {"relock", "recheck", "insert"}
ReviewPlaces == {"passport", "reject", "collect", "stamp", "award", "commit"}

(* What a request works on. *)
TargetInv ==
    \A r \in Requests :
        /\ pc[r] = "cascade" => target[r] \in Passports
        /\ pc[r] \in SubmitPlaces \cup ReviewPlaces => target[r] \in Proofs

(* A row lock has one holder. *)
MutexInv ==
    /\ \A q, r \in Requests, p \in Passports :
          HoldsPassport(q, p) /\ HoldsPassport(r, p) => q = r
    /\ \A q, r \in Requests, k \in Proofs :
          HoldsProof(q, k) /\ HoldsProof(r, k) => q = r

(* A proof under review is pending; one being submitted is not there yet, and *)
(* no other request submits it.                                               *)
StatusInv ==
    \A r \in Requests :
        /\ pc[r] \in ReviewPlaces => status[target[r]] = "pending"
        /\ pc[r] \in SubmitPlaces =>
              /\ status[target[r]] = "absent"
              /\ \A q \in Requests :
                    pc[q] \in SubmitPlaces /\ target[q] = target[r] => q = r

Kept == collected \cup revoked

(* What an approval has read under the passport's lock is still true, except *)
(* for rows an administrator has taken out since ...                         *)
Current(r, p) ==
    /\ View(r).approved = WithStatus(p, "approved")
    /\ \A x \in View(r).items : <<p, x>> \in Kept

(* ... and what it writes covers the stamp and every badge it completes.     *)
Covered(r, p) == <<p, StampOf(target[r])>> \in Kept \cup draft[r]
Complete(r, p) ==
    \A x \in Earned(WithStatus(p, "approved") \cup {StampOf(target[r])}) :
        <<p, x>> \in Kept \cup draft[r]

ApprovalInv ==
    \A r \in Requests, p \in Passports :
        p = PassportOf(target[r]) =>
            /\ pc[r] \in {"stamp", "award", "commit"} => Current(r, p)
            /\ pc[r] \in {"award", "commit"} => Covered(r, p)
            /\ pc[r] = "commit" => Complete(r, p)

BadgeInv ==
    \A p \in passports : \A x \in Earned(WithStatus(p, "approved")) : <<p, x>> \in Kept

IInv == /\ TypeOK /\ TargetInv /\ MutexInv /\ StatusInv
        /\ ApprovalInv /\ ApprovedIsCollected /\ BadgeInv

------------------------------------------------------------------------------
LEMMA ProofParts ==
  ASSUME NEW k \in Proofs
  PROVE  PassportOf(k) \in Passports /\ StampOf(k) \in Stamps
  BY DEF Proofs, PassportOf, StampOf

LEMMA RowParts ==
  ASSUME NEW row \in Rows
  PROVE  row[1] \in Passports /\ row[2] \in Items /\ row = <<row[1], row[2]>>
  BY DEF Rows

LEMMA ItemsOfRows ==
  ASSUME NEW table \in SUBSET Rows, NEW p, NEW x
  PROVE  x \in ItemsOf(p, table) <=> <<p, x>> \in table
<1>1. ASSUME x \in ItemsOf(p, table) PROVE <<p, x>> \in table
  <2>1. PICK row \in table : row[1] = p /\ x = row[2]
    BY <1>1 DEF ItemsOf
  <2>2. QED BY <2>1, RowParts
<1>2. ASSUME <<p, x>> \in table PROVE x \in ItemsOf(p, table)
  BY <1>2 DEF ItemsOf
<1>3. QED BY <1>1, <1>2

(* Without a completed mission every metric is 0 and no minimum is met. *)
LEMMA NothingEarned == EarnedBadgeRules({}) = {}
<1>1. ASSUME NEW metric \in Metrics PROVE Group({}, metric) = {}
  BY DEF Group, CoursesOf, CoursesIn, CoursesAt, Metrics
<1>2. \A metric \in Metrics : BadgeProgress({})[metric] = 0
  BY <1>1, FS_EmptySet DEF BadgeProgress
<1>3. \A rule \in DOMAIN Threshold :
        Threshold[rule].metric \in Metrics /\ Threshold[rule].minimum \in {1, 3}
  BY DEF Threshold, Metrics
<1>4. SpecialRules({}) = {}
  BY DEF SpecialRules
<1>5. QED BY <1>2, <1>3, <1>4 DEF EarnedBadgeRules

LEMMA EarnedBadges == \A approved : Earned(approved) \subseteq Badges
  BY DEF Earned

LEMMA StoreType ==
  ASSUME collected \subseteq Rows, offered \subseteq Stamps, NEW p
  PROVE  Store(p) \in Snapshots
<1>1. \A s : WithStatus(p, s) \subseteq Stamps
  BY ProofParts DEF WithStatus, ProofsOf
<1>2. ItemsOf(p, collected) \subseteq Items
  BY RowParts DEF ItemsOf
<1>3. QED BY <1>1, <1>2 DEF Store, Snapshots

(* What a request inserts are rows of its passport. *)
LEMMA NewRowsType ==
  ASSUME NEW r \in Requests, target[r] \in Proofs
  PROVE  NewStamp(r) \subseteq Rows /\ NewBadges(r) \subseteq Rows
<1>1. PassportOf(target[r]) \in Passports /\ StampOf(target[r]) \in Items
  BY ProofParts DEF Items
<1>2. NewStamp(r) \subseteq Rows
  BY <1>1 DEF NewStamp, RowsOf, Rows
<1>3. NewBadges(r) \subseteq {PassportOf(target[r])} \X Badges
  BY EarnedBadges DEF NewBadges, RowsOf
<1>4. QED BY <1>1, <1>2, <1>3 DEF Rows, Items

------------------------------------------------------------------------------
LEMMA TypeInit == Init => TypeOK /\ TargetInv
  BY DEF Init, TypeOK, TargetInv, SubmitPlaces, ReviewPlaces

LEMMA EndType ==
  ASSUME TypeOK, TargetInv, NEW r \in Requests, End(r)
  PROVE  /\ pc' \in [Requests -> {"idle", "relock", "recheck", "insert", "passport",
                       "reject", "collect", "stamp", "award", "commit", "cascade"}]
         /\ target' \in [Requests -> Proofs \cup Passports \cup {Null}]
         /\ snap' \in [Requests -> Snapshots \cup {Null}]
         /\ draft' \in [Requests -> SUBSET Rows]
         /\ TargetInv'
<1>1. \A q \in Requests : pc'[q] = IF q = r THEN "idle" ELSE pc[q]
  BY DEF End, TypeOK
<1>2. \A q \in Requests : q # r => target'[q] = target[q]
  BY DEF End, TypeOK
<1>3. TargetInv'
  BY <1>1, <1>2 DEF TargetInv, SubmitPlaces, ReviewPlaces
<1>4. QED BY <1>3 DEF End, TypeOK

LEMMA StepType ==
  ASSUME TypeOK, TargetInv, NEW r \in Requests, Step(r)
  PROVE  TypeOK' /\ TargetInv'
<1> USE DEF SubmitPlaces, ReviewPlaces
<1>1. ASSUME NEW k \in Proofs, Submit(r, k) PROVE TypeOK' /\ TargetInv'
  <2>1. Snapshot(PassportOf(k)) \in Snapshots \cup {Null}
    BY StoreType DEF Snapshot, TypeOK
  <2>2. TypeOK'
    BY <1>1, <2>1 DEF Submit, Goto, TypeOK, tables, history
  <2>3. TargetInv'
    BY <1>1 DEF Submit, Goto, TypeOK, TargetInv
  <2>4. QED BY <2>2, <2>3
<1>2. ASSUME SubmitLock(r) \/ Recheck(r) \/ ApproveLock(r)
      PROVE  TypeOK' /\ TargetInv'
  BY <1>2 DEF SubmitLock, Recheck, ApproveLock, Goto, TypeOK, TargetInv, tables, history
<1>3. ASSUME NEW k \in Proofs, ReviewLock(r, k) PROVE TypeOK' /\ TargetInv'
  BY <1>3 DEF ReviewLock, Goto, TypeOK, TargetInv, tables, history
<1>4. ASSUME NEW p \in Passports, DeletePassport(r, p) PROVE TypeOK' /\ TargetInv'
  BY <1>4 DEF DeletePassport, Goto, TypeOK, TargetInv, tables, history
<1>5. ASSUME CheckCollected(r) PROVE TypeOK' /\ TargetInv'
  <2>1. Snapshot(PassportOf(target[r])) \in Snapshots \cup {Null}
    BY StoreType DEF Snapshot, TypeOK
  <2>2. QED
    BY <1>5, <2>1 DEF CheckCollected, Goto, TypeOK, TargetInv, tables, history
<1>6. ASSUME CollectStamp(r) \/ AwardBadges(r) PROVE TypeOK' /\ TargetInv'
  <2>1. target[r] \in Proofs
    BY <1>6 DEF TargetInv, CollectStamp, AwardBadges, Goto
  <2>2. NewStamp(r) \in SUBSET Rows /\ NewBadges(r) \in SUBSET Rows
    BY <2>1, NewRowsType
  <2>3. draft' \in [Requests -> SUBSET Rows]
    BY <1>6, <2>2 DEF CollectStamp, AwardBadges, TypeOK
  <2>4. QED
    BY <1>6, <2>3 DEF CollectStamp, AwardBadges, Goto, TypeOK, TargetInv, tables, history
<1>7. ASSUME Refuse(r) \/ Collide(r) \/ DeadlockVictim(r) \/ Abort(r)
      PROVE  TypeOK' /\ TargetInv'
  <2>1. End(r) /\ UNCHANGED <<tables, history>>
    BY <1>7 DEF Refuse, Collide, DeadlockVictim, Abort
  <2>2. QED BY <2>1, EndType DEF TypeOK, tables, history
<1>8. ASSUME Insert(r) \/ Reject(r) PROVE TypeOK' /\ TargetInv'
  <2>1. End(r) /\ UNCHANGED <<passports, collected, offered, history>>
    BY <1>8 DEF Insert, Reject
  <2>2. status' \in [Proofs -> {"absent", "pending", "approved", "rejected"}]
    BY <1>8 DEF Insert, Reject, TypeOK
  <2>3. QED BY <2>1, <2>2, EndType DEF TypeOK, history
<1>9. ASSUME Commit(r) PROVE TypeOK' /\ TargetInv'
  <2>1. End(r) /\ UNCHANGED <<passports, offered, history>>
    BY <1>9 DEF Commit
  <2>2. status' \in [Proofs -> {"absent", "pending", "approved", "rejected"}]
        /\ collected' \subseteq Rows
    BY <1>9 DEF Commit, TypeOK
  <2>3. QED BY <2>1, <2>2, EndType DEF TypeOK, history
<1>10. ASSUME Cascade(r) PROVE TypeOK' /\ TargetInv'
  <2>1. End(r) /\ UNCHANGED <<offered, history>>
    BY <1>10 DEF Cascade
  <2>2. status' \in [Proofs -> {"absent", "pending", "approved", "rejected"}]
        /\ collected' \subseteq Rows /\ passports' \subseteq Passports
    BY <1>10 DEF Cascade, TypeOK
  <2>3. QED BY <2>1, <2>2, EndType DEF TypeOK, history
<1>11. QED
  BY <1>1, <1>2, <1>3, <1>4, <1>5, <1>6, <1>7, <1>8, <1>9, <1>10
     DEF Step, Handle, Arrive

(* The rest of the system leaves the requests alone. *)
LEMMA WorldType ==
  ASSUME TypeOK, World
  PROVE  /\ TypeOK'
         /\ UNCHANGED <<passports, status, pc, target, snap, draft>>
         /\ collected \subseteq collected' \cup revoked' /\ revoked \subseteq revoked'
<1>1. ASSUME NEW p \in Passports, NEW x \in Items, Grant(p, x)
      PROVE  /\ TypeOK'
             /\ UNCHANGED <<passports, status, pc, target, snap, draft, revoked>>
             /\ collected \subseteq collected'
  BY <1>1 DEF Grant, TypeOK, Rows
<1>2. ASSUME NEW row \in collected, Revoke(row)
      PROVE  /\ TypeOK'
             /\ UNCHANGED <<passports, status, pc, target, snap, draft>>
             /\ collected \subseteq collected' \cup revoked' /\ revoked \subseteq revoked'
  BY <1>2 DEF Revoke, TypeOK
<1>3. ASSUME NEW row \in collected, NEW p \in Passports, NEW x \in Items, Move(row, p, x)
      PROVE  /\ TypeOK'
             /\ UNCHANGED <<passports, status, pc, target, snap, draft>>
             /\ collected \subseteq collected' \cup revoked' /\ revoked \subseteq revoked'
  <2>1. <<p, x>> \in Rows
    BY DEF Rows
  <2>2. QED BY <1>3, <2>1 DEF Move, TypeOK
<1>4. ASSUME NEW s \in Stamps, Offer(s)
      PROVE  /\ TypeOK'
             /\ UNCHANGED <<passports, status, pc, target, snap, draft, collected, revoked>>
  BY <1>4 DEF Offer, TypeOK, history
<1>5. QED BY <1>1, <1>2, <1>3, <1>4 DEF World

THEOREM Types == Spec => [](TypeOK /\ TargetInv)
<1>1. TypeOK /\ TargetInv /\ [Next]_vars => TypeOK' /\ TargetInv'
  <2> SUFFICES ASSUME TypeOK, TargetInv, [Next]_vars PROVE TypeOK' /\ TargetInv'
    OBVIOUS
  <2>1. CASE World
    BY <2>1, WorldType DEF TargetInv
  <2>2. CASE \E r \in Requests : Step(r)
    BY <2>2, StepType
  <2>3. CASE UNCHANGED vars
    BY <2>3 DEF vars, tables, history, TypeOK, TargetInv
  <2>4. QED BY <2>1, <2>2, <2>3 DEF Next, Step
<1>2. QED BY <1>1, TypeInit, PTL DEF Spec

(* Every value has its type. *)
THEOREM TypeCorrect == Spec => []TypeOK
BY Types, PTL

------------------------------------------------------------------------------
(* A step of one request, as the others and the locks see it. *)

LEMMA Frame ==
  ASSUME TypeOK, NEW r \in Requests, Step(r)
  PROVE  /\ \A q \in Requests \ {r} :
               /\ pc'[q] = pc[q] /\ target'[q] = target[q]
               /\ snap'[q] = snap[q] /\ draft'[q] = draft[q]
         /\ UNCHANGED history
<1>1. ASSUME End(r) PROVE \A q \in Requests \ {r} :
               /\ pc'[q] = pc[q] /\ target'[q] = target[q]
               /\ snap'[q] = snap[q] /\ draft'[q] = draft[q]
  BY <1>1 DEF End, TypeOK
<1>2. CASE Insert(r) \/ Refuse(r) \/ Reject(r) \/ Collide(r) \/ Commit(r)
             \/ Cascade(r) \/ DeadlockVictim(r) \/ Abort(r)
  BY <1>1, <1>2 DEF Insert, Refuse, Reject, Collide, Commit, Cascade, DeadlockVictim,
     Abort, history
<1>3. CASE SubmitLock(r) \/ Recheck(r) \/ ApproveLock(r) \/ CheckCollected(r)
             \/ CollectStamp(r) \/ AwardBadges(r)
  BY <1>3 DEF SubmitLock, Recheck, ApproveLock, CheckCollected, CollectStamp,
     AwardBadges, Goto, TypeOK
<1>4. CASE Arrive(r)
  BY <1>4 DEF Arrive, Submit, ReviewLock, DeletePassport, Goto, TypeOK
<1>5. QED BY <1>2, <1>3, <1>4 DEF Step, Handle

LEMMA EndReleases ==
  ASSUME TypeOK, NEW r \in Requests, End(r)
  PROVE  /\ pc'[r] = "idle"
         /\ \A p : ~HoldsPassport(r, p)'
         /\ \A k : ~HoldsProof(r, k)'
<1>1. pc'[r] = "idle"
  BY DEF End, TypeOK
<1>2. QED BY <1>1 DEF HoldsPassport, HoldsProof

(* A request comes to hold a row only when nobody holds it. *)
LEMMA StepLocks ==
  ASSUME TypeOK, NEW r \in Requests, Step(r)
  PROVE  /\ \A p \in Passports :
               HoldsPassport(r, p)' => HoldsPassport(r, p) \/ PassportFree(p)
         /\ \A k \in Proofs : HoldsProof(r, k)' => HoldsProof(r, k) \/ ProofFree(k)
<1>1. CASE Insert(r) \/ Refuse(r) \/ Reject(r) \/ Collide(r) \/ Commit(r)
             \/ Cascade(r) \/ DeadlockVictim(r) \/ Abort(r)
  BY <1>1, EndReleases DEF Insert, Refuse, Reject, Collide, Commit, Cascade,
     DeadlockVictim, Abort
<1>2. CASE SubmitLock(r) \/ Recheck(r) \/ ApproveLock(r)
  BY <1>2 DEF SubmitLock, Recheck, ApproveLock, Goto, TypeOK, HoldsPassport, HoldsProof
<1>3. CASE CheckCollected(r) \/ CollectStamp(r) \/ AwardBadges(r)
  BY <1>3 DEF CheckCollected, CollectStamp, AwardBadges, Goto, TypeOK,
     HoldsPassport, HoldsProof
<1>4. CASE Arrive(r)
  BY <1>4 DEF Arrive, Submit, ReviewLock, DeletePassport, Goto, TypeOK,
     HoldsPassport, HoldsProof
<1>5. QED BY <1>1, <1>2, <1>3, <1>4 DEF Step, Handle

LEMMA MutexStep ==
  ASSUME TypeOK, MutexInv, NEW r \in Requests, Step(r)
  PROVE  MutexInv'
<1>1. \A q \in Requests \ {r}, p \in Passports : HoldsPassport(q, p)' => HoldsPassport(q, p)
  BY Frame DEF HoldsPassport
<1>2. \A q \in Requests \ {r}, k \in Proofs : HoldsProof(q, k)' => HoldsProof(q, k)
  BY Frame DEF HoldsProof
<1>3. ASSUME NEW q \in Requests, NEW t \in Requests, NEW p \in Passports,
             HoldsPassport(q, p)', HoldsPassport(t, p)'
      PROVE  q = t
  BY <1>1, <1>3, StepLocks DEF MutexInv, PassportFree
<1>4. ASSUME NEW q \in Requests, NEW t \in Requests, NEW k \in Proofs,
             HoldsProof(q, k)', HoldsProof(t, k)'
      PROVE  q = t
  BY <1>2, <1>4, StepLocks DEF MutexInv, ProofFree
<1>5. QED BY <1>3, <1>4 DEF MutexInv

------------------------------------------------------------------------------
(* The statuses *)

(* Who may change the status of a proof, and how. *)
LEMMA StatusMoves ==
  ASSUME TypeOK, TargetInv, NEW r \in Requests, Step(r), NEW k \in Proofs
  PROVE  \/ status'[k] = status[k]
         \/ pc[r] = "insert" /\ k = target[r] /\ status'[k] = "pending"
         \/ pc[r] = "reject" /\ k = target[r] /\ status'[k] = "rejected"
         \/ Commit(r) /\ k = target[r] /\ status'[k] = "approved"
         \/ /\ Cascade(r) /\ PassportOf(k) = target[r] /\ ProofFree(k)
            /\ status'[k] = "absent" /\ PassportOf(k) \notin passports'
<1>1. CASE Insert(r) \/ Reject(r) \/ Commit(r)
  BY <1>1 DEF Insert, Reject, Commit, TypeOK, TargetInv, SubmitPlaces, ReviewPlaces
<1>2. CASE Cascade(r)
  BY <1>2 DEF Cascade, TypeOK, ProofsOf
<1>3. CASE UNCHANGED status
  BY <1>3
<1>4. QED
  BY <1>1, <1>2, <1>3 DEF Step, Handle, Arrive, Abort, SubmitLock, Recheck, Refuse,
     ApproveLock, CheckCollected, CollectStamp, AwardBadges, Collide, DeadlockVictim,
     Submit, ReviewLock, DeletePassport, tables

(* How a request came to its place. *)
LEMMA Places ==
  ASSUME TypeOK, NEW r \in Requests, Step(r)
  PROVE  /\ pc'[r] \in SubmitPlaces =>
              \/ pc[r] \in SubmitPlaces /\ target'[r] = target[r] /\ UNCHANGED status
              \/ \E k \in Proofs : Submit(r, k)
         /\ pc'[r] \in ReviewPlaces =>
              \/ pc[r] \in ReviewPlaces /\ target'[r] = target[r] /\ UNCHANGED status
              \/ \E k \in Proofs : ReviewLock(r, k)
<1> USE DEF SubmitPlaces, ReviewPlaces
<1>1. CASE Insert(r) \/ Refuse(r) \/ Reject(r) \/ Collide(r) \/ Commit(r)
             \/ Cascade(r) \/ DeadlockVictim(r) \/ Abort(r)
  BY <1>1, EndReleases DEF Insert, Refuse, Reject, Collide, Commit, Cascade,
     DeadlockVictim, Abort
<1>2. CASE SubmitLock(r) \/ Recheck(r) \/ ApproveLock(r) \/ CheckCollected(r)
             \/ CollectStamp(r) \/ AwardBadges(r)
  BY <1>2 DEF SubmitLock, Recheck, ApproveLock, CheckCollected, CollectStamp,
     AwardBadges, Goto, TypeOK, tables
<1>3. ASSUME NEW k \in Proofs, Submit(r, k) PROVE pc'[r] = "relock"
  BY <1>3 DEF Submit, Goto, TypeOK
<1>4. ASSUME NEW k \in Proofs, ReviewLock(r, k) PROVE pc'[r] \in {"passport", "reject"}
  BY <1>4 DEF ReviewLock, Goto, TypeOK
<1>5. ASSUME NEW p \in Passports, DeletePassport(r, p) PROVE pc'[r] = "cascade"
  BY <1>5 DEF DeletePassport, Goto, TypeOK
<1>6. QED BY <1>1, <1>2, <1>3, <1>4, <1>5 DEF Step, Handle, Arrive

LEMMA ReviewHolds ==
  ASSUME NEW r \in Requests
  PROVE  pc[r] \in ReviewPlaces <=> HoldsProof(r, target[r])
  BY DEF ReviewPlaces, HoldsProof

LEMMA StatusStep ==
  ASSUME TypeOK, TargetInv, MutexInv, StatusInv, NEW r \in Requests, Step(r)
  PROVE  StatusInv'
<1> DEFINE Good(q) ==
       /\ pc'[q] \in ReviewPlaces => status'[target'[q]] = "pending"
       /\ pc'[q] \in SubmitPlaces =>
             /\ status'[target'[q]] = "absent"
             /\ \A t \in Requests :
                   pc'[t] \in SubmitPlaces /\ target'[t] = target'[q] => t = q
<1>1. ASSUME NEW q \in Requests \ {r}, pc'[q] \in ReviewPlaces
      PROVE  status'[target'[q]] = "pending"
  <2> DEFINE k == target[q]
  <2>1. pc[q] \in ReviewPlaces /\ target'[q] = k /\ k \in Proofs
    BY <1>1, Frame DEF TargetInv
  <2>2. status[k] = "pending"
    BY <2>1 DEF StatusInv
  <2>3. HoldsProof(q, k) /\ ~ProofFree(k) /\ ~HoldsProof(r, k)
    BY <2>1, ReviewHolds DEF MutexInv, ProofFree
  <2>4. ~(pc[r] \in {"reject", "commit"} /\ target[r] = k)
    BY <2>3 DEF HoldsProof
  <2>5. ~(pc[r] = "insert" /\ target[r] = k)
    BY <2>2 DEF StatusInv, SubmitPlaces
  <2>6. QED BY <2>1, <2>2, <2>3, <2>4, <2>5, StatusMoves DEF Commit
<1>2. ASSUME NEW q \in Requests \ {r}, pc'[q] \in SubmitPlaces
      PROVE  status'[target'[q]] = "absent"
  <2> DEFINE k == target[q]
  <2>1. pc[q] \in SubmitPlaces /\ target'[q] = k /\ k \in Proofs
    BY <1>2, Frame DEF TargetInv
  <2>2. status[k] = "absent" /\ ~(pc[r] \in SubmitPlaces /\ target[r] = k)
    BY <2>1 DEF StatusInv
  <2>3. ~(pc[r] \in ReviewPlaces /\ target[r] = k)
    BY <2>2 DEF StatusInv
  <2>4. QED BY <2>1, <2>2, <2>3, StatusMoves DEF Commit, SubmitPlaces, ReviewPlaces
<1>3. CASE \E k \in Proofs : Submit(r, k)
  <2>1. PICK k \in Proofs : Submit(r, k)
    BY <1>3
  <2>2. pc'[r] = "relock" /\ target'[r] = k /\ status'[k] = "absent"
        /\ \A t \in Requests : target[t] # k
    BY <2>1 DEF Submit, Goto, TypeOK, tables
  <2>3. \A q \in Requests : Good(q)
    BY <1>1, <1>2, <2>2, Frame DEF StatusInv, SubmitPlaces, ReviewPlaces
  <2>4. QED BY <2>3 DEF StatusInv
<1>4. CASE \E k \in Proofs : ReviewLock(r, k)
  <2>1. PICK k \in Proofs : ReviewLock(r, k)
    BY <1>4
  <2>2. pc'[r] \in {"passport", "reject"} /\ target'[r] = k /\ status'[k] = "pending"
    BY <2>1 DEF ReviewLock, Goto, TypeOK, tables
  <2>3. \A q \in Requests : Good(q)
    BY <1>1, <1>2, <2>2, Frame DEF StatusInv, SubmitPlaces, ReviewPlaces
  <2>4. QED BY <2>3 DEF StatusInv
<1>5. CASE ~(\E k \in Proofs : Submit(r, k) \/ ReviewLock(r, k))
  <2>1. \A q \in Requests : Good(q)
    BY <1>1, <1>2, <1>5, Frame, Places DEF StatusInv
  <2>2. QED BY <2>1 DEF StatusInv
<1>6. QED BY <1>3, <1>4, <1>5

------------------------------------------------------------------------------
(* The approval *)

LEMMA ApprovedSame ==
  ASSUME NEW p, \A k \in ProofsOf(p) : status'[k] = "approved" <=> status[k] = "approved"
  PROVE  WithStatus(p, "approved")' = WithStatus(p, "approved")
  BY DEF WithStatus, ProofsOf

(* What a request's step does to the approvals and the rows of a passport.  *)
LEMMA ApprovalMoves ==
  ASSUME TypeOK, TargetInv, StatusInv, NEW r \in Requests, Step(r),
         NEW p \in Passports,
         ~(Commit(r) /\ PassportOf(target[r]) = p), ~(Cascade(r) /\ target[r] = p)
  PROVE  /\ WithStatus(p, "approved")' = WithStatus(p, "approved")
         /\ \A x : <<p, x>> \in Kept => <<p, x>> \in Kept'
<1>1. WithStatus(p, "approved")' = WithStatus(p, "approved")
  <2>1. ASSUME NEW k \in ProofsOf(p)
        PROVE  status'[k] = "approved" <=> status[k] = "approved"
    <3>1. k \in Proofs /\ PassportOf(k) = p
      BY DEF ProofsOf
    <3>2. pc[r] = "insert" => status[target[r]] = "absent"
      BY DEF StatusInv, SubmitPlaces
    <3>3. pc[r] = "reject" => status[target[r]] = "pending"
      BY DEF StatusInv, ReviewPlaces
    <3>4. QED BY <3>1, <3>2, <3>3, StatusMoves
  <2>2. QED BY <2>1, ApprovedSame
<1>2. ASSUME NEW x, <<p, x>> \in Kept PROVE <<p, x>> \in Kept'
  <2>1. CASE Cascade(r)
    BY <1>2, <2>1 DEF Cascade, Kept, history
  <2>2. CASE Commit(r)
    BY <1>2, <2>2 DEF Commit, Kept, history
  <2>3. CASE UNCHANGED <<collected, revoked>>
    BY <1>2, <2>3 DEF Kept
  <2>4. QED
    BY <2>1, <2>2, <2>3 DEF Step, Handle, Arrive, Abort, SubmitLock, Recheck, Insert,
       Refuse, Reject, ApproveLock, CheckCollected, CollectStamp, AwardBadges, Collide,
       DeadlockVictim, Submit, ReviewLock, DeletePassport, tables, history
<1>3. QED BY <1>1, <1>2

(* A commit adds its stamp to the approvals and its draft to the rows. *)
LEMMA CommitMoves ==
  ASSUME TypeOK, TargetInv, NEW r \in Requests, Commit(r),
         NEW p, p = PassportOf(target[r])
  PROVE  /\ target[r] \in Proofs
         /\ WithStatus(p, "approved")' = WithStatus(p, "approved") \cup {StampOf(target[r])}
         /\ Kept' = Kept \cup draft[r]
<1>1. target[r] \in Proofs
  BY DEF Commit, TargetInv, ReviewPlaces
<1>2. \A k \in Proofs : status'[k] = IF k = target[r] THEN "approved" ELSE status[k]
  BY <1>1 DEF Commit, TypeOK
<1>3. Kept' = Kept \cup draft[r]
  BY DEF Commit, Kept, history
<1>4. QED BY <1>1, <1>2, <1>3 DEF WithStatus, ProofsOf

(* While a request holds a passport, no other changes what it has read. *)
LEMMA Protected ==
  ASSUME TypeOK, TargetInv, MutexInv, StatusInv, NEW r \in Requests, Step(r),
         NEW q \in Requests, q # r, pc[q] \in {"stamp", "award", "commit"},
         NEW p, p = PassportOf(target[q])
  PROVE  /\ WithStatus(p, "approved")' = WithStatus(p, "approved")
         /\ \A x : <<p, x>> \in Kept => <<p, x>> \in Kept'
<1>1. p \in Passports
  BY ProofParts DEF TargetInv, ReviewPlaces
<1>2. HoldsPassport(q, p)
  BY DEF HoldsPassport
<1>3. ~HoldsPassport(r, p)
  BY <1>1, <1>2 DEF MutexInv
<1>4. ~(Commit(r) /\ PassportOf(target[r]) = p) /\ ~(Cascade(r) /\ target[r] = p)
  BY <1>3 DEF HoldsPassport, Commit, Cascade
<1>5. QED BY <1>1, <1>4, ApprovalMoves

LEMMA CurrentStays ==
  ASSUME collected' \subseteq Rows, NEW q, NEW p, p = PassportOf(target[q]),
         snap'[q] = snap[q], target'[q] = target[q], Current(q, p),
         WithStatus(p, "approved")' = WithStatus(p, "approved"),
         \A x : <<p, x>> \in Kept => <<p, x>> \in Kept'
  PROVE  Current(q, p)'
<1>1. CASE snap[q] = Null
  <2>1. View(q)' = Store(p)'
    BY <1>1 DEF View
  <2>2. Store(p)'.approved = WithStatus(p, "approved")'
        /\ Store(p)'.items = ItemsOf(p, collected')
    BY DEF Store, ItemsOf
  <2>3. \A x \in ItemsOf(p, collected') : <<p, x>> \in collected'
    BY ItemsOfRows
  <2>4. QED BY <2>1, <2>2, <2>3 DEF Current, Kept
<1>2. CASE snap[q] # Null
  <2>1. View(q)' = View(q)
    BY <1>2 DEF View
  <2>2. QED BY <2>1 DEF Current
<1>3. QED BY <1>1, <1>2

(* The three steps of an approval establish the three facts in turn. *)

LEMMA CheckedIsCurrent ==
  ASSUME TypeOK, NEW r \in Requests, CheckCollected(r), NEW p, p = PassportOf(target[r])
  PROVE  Current(r, p)'
<1>1. Store(p)' = Store(p) /\ target'[r] = target[r]
      /\ snap'[r] = Snapshot(p) /\ Kept' = Kept
      /\ WithStatus(p, "approved")' = WithStatus(p, "approved")
  BY DEF CheckCollected, TypeOK, tables, history, Store, WithStatus, ItemsOf, Kept
<1>2. View(r)' = Store(p)
  BY <1>1 DEF View, Snapshot
<1>3. Store(p).approved = WithStatus(p, "approved")
      /\ Store(p).items = ItemsOf(p, collected)
  BY DEF Store
<1>4. \A x \in ItemsOf(p, collected) : <<p, x>> \in Kept
  BY ItemsOfRows DEF TypeOK, Kept
<1>5. QED BY <1>1, <1>2, <1>3, <1>4 DEF Current

LEMMA CollectedIsCovered ==
  ASSUME TypeOK, NEW r \in Requests, CollectStamp(r), NEW p, p = PassportOf(target[r]),
         Current(r, p)
  PROVE  Covered(r, p)'
<1>1. target'[r] = target[r] /\ draft'[r] = NewStamp(r) /\ Kept' = Kept
  BY DEF CollectStamp, TypeOK, tables, history, Kept
<1>2. CASE StampOf(target[r]) \in View(r).items
  BY <1>1, <1>2 DEF Covered, Current
<1>3. CASE StampOf(target[r]) \notin View(r).items
  <2>1. <<p, StampOf(target[r])>> \in NewStamp(r)
    BY <1>3 DEF NewStamp, RowsOf
  <2>2. QED BY <1>1, <2>1 DEF Covered
<1>4. QED BY <1>2, <1>3

LEMMA AwardedIsComplete ==
  ASSUME TypeOK, NEW r \in Requests, AwardBadges(r), NEW p, p = PassportOf(target[r]),
         Current(r, p), Covered(r, p)
  PROVE  Covered(r, p)' /\ Complete(r, p)'
<1>1. /\ target'[r] = target[r] /\ draft'[r] = draft[r] \cup NewBadges(r)
      /\ Kept' = Kept /\ WithStatus(p, "approved")' = WithStatus(p, "approved")
  BY DEF AwardBadges, TypeOK, tables, history, Kept, WithStatus
<1> DEFINE approved == WithStatus(p, "approved") \cup {StampOf(target[r])}
<1>2. NewBadges(r) = {p} \X (Earned(approved) \ View(r).items)
  BY DEF NewBadges, RowsOf, Current
<1>3. \A x \in Earned(approved) : <<p, x>> \in Kept \cup NewBadges(r)
  BY <1>2 DEF Current
<1>4. Complete(r, p)' <=>
        \A x \in Earned(approved) : <<p, x>> \in Kept' \cup draft'[r]
  BY <1>1 DEF Complete
<1>5. QED BY <1>1, <1>3, <1>4 DEF Covered

LEMMA ApprovalStep ==
  ASSUME TypeOK, TargetInv, MutexInv, StatusInv, ApprovalInv, TypeOK',
         NEW r \in Requests, Step(r)
  PROVE  ApprovalInv'
<1> DEFINE Good(q, p) ==
       p = PassportOf(target'[q]) =>
            /\ pc'[q] \in {"stamp", "award", "commit"} => Current(q, p)'
            /\ pc'[q] \in {"award", "commit"} => Covered(q, p)'
            /\ pc'[q] = "commit" => Complete(q, p)'
<1>1. ASSUME NEW q \in Requests, q # r, NEW p \in Passports PROVE Good(q, p)
  <2> SUFFICES ASSUME p = PassportOf(target'[q]), pc'[q] \in {"stamp", "award", "commit"}
               PROVE  Good(q, p)
    OBVIOUS
  <2>1. /\ pc[q] = pc'[q] /\ target[q] = target'[q] /\ p = PassportOf(target[q])
        /\ snap[q] = snap'[q] /\ draft[q] = draft'[q]
    BY <1>1, Frame
  <2>2. WithStatus(p, "approved")' = WithStatus(p, "approved")
        /\ \A x : <<p, x>> \in Kept => <<p, x>> \in Kept'
    BY <1>1, <2>1, Protected
  <2>3. Current(q, p)
    BY <2>1 DEF ApprovalInv
  <2>4. Current(q, p)'
    BY <2>1, <2>2, <2>3, CurrentStays DEF TypeOK
  <2>5. pc[q] \in {"award", "commit"} => Covered(q, p)'
    BY <2>1, <2>2 DEF ApprovalInv, Covered
  <2>6. ASSUME pc[q] = "commit" PROVE Complete(q, p)'
    <3>1. Complete(q, p)
      BY <2>1, <2>6 DEF ApprovalInv
    <3>2. QED BY <2>1, <2>2, <3>1 DEF Complete
  <2>7. QED BY <2>1, <2>4, <2>5, <2>6
<1>2. ASSUME NEW p \in Passports PROVE Good(r, p)
  <2>1. CASE CheckCollected(r)
    <3>1. target'[r] = target[r] /\ pc'[r] = "stamp"
      BY <2>1 DEF CheckCollected, Goto, TypeOK
    <3>2. QED BY <2>1, <3>1, CheckedIsCurrent
  <2>2. CASE CollectStamp(r)
    <3>1. /\ target'[r] = target[r] /\ pc[r] = "stamp" /\ pc'[r] = "award"
          /\ snap'[r] = snap[r] /\ Kept' = Kept
          /\ WithStatus(p, "approved")' = WithStatus(p, "approved")
      BY <2>2 DEF CollectStamp, Goto, TypeOK, tables, history, Kept, WithStatus
    <3>2. p = PassportOf(target[r]) => Current(r, p)
      BY <3>1 DEF ApprovalInv
    <3>3. p = PassportOf(target[r]) => Current(r, p)'
      BY <3>1, <3>2, CurrentStays DEF TypeOK
    <3>4. QED BY <2>2, <3>1, <3>2, <3>3, CollectedIsCovered
  <2>3. CASE AwardBadges(r)
    <3>1. /\ target'[r] = target[r] /\ pc[r] = "award" /\ pc'[r] = "commit"
          /\ snap'[r] = snap[r] /\ Kept' = Kept
          /\ WithStatus(p, "approved")' = WithStatus(p, "approved")
      BY <2>3 DEF AwardBadges, Goto, TypeOK, tables, history, Kept, WithStatus
    <3>2. p = PassportOf(target[r]) => Current(r, p) /\ Covered(r, p)
      BY <3>1 DEF ApprovalInv
    <3>3. p = PassportOf(target[r]) => Current(r, p)'
      BY <3>1, <3>2, CurrentStays DEF TypeOK
    <3>4. QED BY <2>3, <3>1, <3>2, <3>3, AwardedIsComplete
  <2>4. CASE Insert(r) \/ Refuse(r) \/ Reject(r) \/ Collide(r) \/ Commit(r)
               \/ Cascade(r) \/ DeadlockVictim(r) \/ Abort(r)
    BY <2>4, EndReleases DEF Insert, Refuse, Reject, Collide, Commit, Cascade,
       DeadlockVictim, Abort
  <2>5. CASE SubmitLock(r) \/ Recheck(r) \/ ApproveLock(r) \/ Arrive(r)
    <3>1. pc'[r] \notin {"stamp", "award", "commit"}
      BY <2>5 DEF SubmitLock, Recheck, ApproveLock, Arrive, Submit, ReviewLock,
         DeletePassport, Goto, TypeOK
    <3>2. QED BY <3>1
  <2>6. QED BY <2>1, <2>2, <2>3, <2>4, <2>5 DEF Step, Handle
<1>3. \A q \in Requests, p \in Passports : Good(q, p)
  BY <1>1, <1>2
<1>4. QED BY <1>3 DEF ApprovalInv

(* An approved proof is collected, and no badge it completes is lost. *)
LEMMA AwardsStep ==
  ASSUME TypeOK, TargetInv, MutexInv, StatusInv, ApprovalInv,
         ApprovedIsCollected, BadgeInv, TypeOK', NEW r \in Requests, Step(r)
  PROVE  ApprovedIsCollected' /\ BadgeInv'
<1>1. ASSUME NEW k \in Proofs, status'[k] = "approved"
      PROVE  <<PassportOf(k), StampOf(k)>> \in Kept'
  <2>1. CASE Commit(r) /\ k = target[r]
    <3> DEFINE p == PassportOf(k)
    <3>1. p \in Passports /\ pc[r] = "commit"
      BY <2>1, ProofParts DEF Commit
    <3>2. Covered(r, p)
      BY <2>1, <3>1 DEF ApprovalInv
    <3>3. QED BY <2>1, <3>2, CommitMoves DEF Covered
  <2>2. CASE ~(Commit(r) /\ k = target[r])
    <3>1. status[k] = "approved"
      BY <1>1, <2>2, StatusMoves
    <3>2. <<PassportOf(k), StampOf(k)>> \in Kept
      BY <3>1 DEF ApprovedIsCollected, Kept
    <3>3. CASE Commit(r)
      BY <3>2, <3>3, CommitMoves
    <3>4. CASE ~Commit(r)
      <4>1. ~(Cascade(r) /\ target[r] = PassportOf(k))
        BY <1>1 DEF Cascade, TypeOK
      <4>2. QED BY <3>2, <3>4, <4>1, ApprovalMoves, ProofParts
    <3>5. QED BY <3>3, <3>4
  <2>3. QED BY <2>1, <2>2
<1>2. ASSUME NEW p \in passports', NEW x \in Earned(WithStatus(p, "approved")')
      PROVE  <<p, x>> \in Kept'
  <2>1. p \in passports /\ p \in Passports
    BY <1>2 DEF TypeOK, Step, Handle, Arrive, Abort, SubmitLock, Recheck, Insert, Refuse,
       Reject, ApproveLock, CheckCollected, CollectStamp, AwardBadges, Collide, Commit,
       Cascade, DeadlockVictim, Submit, ReviewLock, DeletePassport, tables
  <2>2. ~(Cascade(r) /\ target[r] = p)
    BY <1>2 DEF Cascade
  <2>3. CASE Commit(r) /\ p = PassportOf(target[r])
    <3>1. Complete(r, p)
      BY <2>1, <2>3 DEF ApprovalInv, Commit
    <3>2. QED BY <1>2, <2>3, <3>1, CommitMoves DEF Complete
  <2>4. CASE ~(Commit(r) /\ p = PassportOf(target[r]))
    <3>1. WithStatus(p, "approved")' = WithStatus(p, "approved")
          /\ \A y : <<p, y>> \in Kept => <<p, y>> \in Kept'
      BY <2>1, <2>2, <2>4, ApprovalMoves
    <3>2. QED BY <1>2, <2>1, <3>1 DEF BadgeInv
  <2>5. QED BY <2>3, <2>4
<1>3. ApprovedIsCollected'
  BY <1>1 DEF ApprovedIsCollected, Kept
<1>4. BadgeInv'
  BY <1>2 DEF BadgeInv
<1>5. QED BY <1>3, <1>4

------------------------------------------------------------------------------
LEMMA InvInit == Init => IInv
<1> SUFFICES ASSUME Init PROVE IInv
  OBVIOUS
<1>1. \A q \in Requests : pc[q] = "idle"
  BY DEF Init
<1>2. ASSUME NEW p PROVE WithStatus(p, "approved") = {}
  BY DEF Init, WithStatus, ProofsOf
<1>3. MutexInv /\ StatusInv /\ ApprovalInv
  BY <1>1 DEF MutexInv, HoldsPassport, HoldsProof, StatusInv, SubmitPlaces, ReviewPlaces,
     ApprovalInv
<1>4. ApprovedIsCollected
  BY DEF Init, ApprovedIsCollected
<1>5. ASSUME NEW x PROVE x \notin Earned({})
  \* a course without stamps is not a mission, so nothing is completed at first
  <2>1. CompletedCourses({}) = {}
    BY DEF CompletedCourses
  <2>2. MissionFacts({}) = {}
    BY <2>1 DEF MissionFacts
  <2>3. EarnedBadgeRules({}) = {}
    BY NothingEarned
  <2>4. QED BY <2>2, <2>3 DEF Earned
<1>6. BadgeInv
  BY <1>2, <1>5 DEF BadgeInv
<1>7. QED BY <1>3, <1>4, <1>6, TypeInit DEF IInv

(* Administrators add and remove rows: they disturb no lock and no status, and *)
(* what they take out stays accounted for in revoked.                          *)
LEMMA InvWorld ==
  ASSUME IInv, World
  PROVE  IInv'
<1>1. TypeOK' /\ UNCHANGED <<passports, status, pc, target, snap, draft>>
      /\ \A row : row \in Kept => row \in Kept'
  BY WorldType DEF IInv, Kept
<1>2. TargetInv' /\ MutexInv' /\ StatusInv'
  BY <1>1 DEF IInv, TargetInv, MutexInv, HoldsPassport, HoldsProof, StatusInv
<1>3. ASSUME NEW p PROVE WithStatus(p, "approved")' = WithStatus(p, "approved")
  BY <1>1 DEF WithStatus
<1>4. ASSUME NEW q \in Requests, NEW p \in Passports, p = PassportOf(target[q])
      PROVE  /\ Current(q, p) => Current(q, p)'
             /\ Covered(q, p) => Covered(q, p)'
             /\ Complete(q, p) => Complete(q, p)'
  <2>1. Current(q, p) => Current(q, p)'
    BY <1>1, <1>3, <1>4, CurrentStays DEF TypeOK
  <2>2. Covered(q, p) => Covered(q, p)'
    BY <1>1 DEF Covered
  <2>3. ASSUME Complete(q, p) PROVE Complete(q, p)'
    BY <1>1, <1>3, <2>3 DEF Complete
  <2>4. QED BY <2>1, <2>2, <2>3
<1>5. ApprovalInv'
  BY <1>1, <1>4 DEF IInv, ApprovalInv
<1>6. ApprovedIsCollected'
  BY <1>1 DEF IInv, ApprovedIsCollected, Kept
<1>7. BadgeInv'
  BY <1>1, <1>3 DEF IInv, BadgeInv
<1>8. QED BY <1>1, <1>2, <1>5, <1>6, <1>7 DEF IInv

LEMMA InvStep == IInv /\ [Next]_vars => IInv'
<1> SUFFICES ASSUME IInv, [Next]_vars PROVE IInv'
  OBVIOUS
<1>1. CASE World
  BY <1>1, InvWorld
<1>2. ASSUME NEW r \in Requests, Step(r) PROVE IInv'
  <2>1. TypeOK' /\ TargetInv' /\ MutexInv' /\ StatusInv'
    BY <1>2, StepType, MutexStep, StatusStep DEF IInv
  <2>2. ApprovalInv' /\ ApprovedIsCollected' /\ BadgeInv'
    BY <1>2, <2>1, ApprovalStep, AwardsStep DEF IInv
  <2>3. QED BY <2>1, <2>2 DEF IInv
<1>3. CASE UNCHANGED vars
  <2> USE <1>3 DEF vars, tables, history
  <2>1. TypeOK' /\ TargetInv' /\ MutexInv' /\ StatusInv'
    BY DEF IInv, TypeOK, TargetInv, MutexInv, HoldsPassport, HoldsProof, StatusInv
  <2>2. ASSUME NEW p PROVE WithStatus(p, "approved")' = WithStatus(p, "approved")
    BY DEF WithStatus
  <2>3. ASSUME NEW q \in Requests, NEW p \in Passports, p = PassportOf(target[q])
        PROVE  /\ Current(q, p) => Current(q, p)'
               /\ Covered(q, p) => Covered(q, p)'
               /\ Complete(q, p) => Complete(q, p)'
    BY <2>1, <2>2, <2>3, CurrentStays DEF TypeOK, Covered, Complete, Kept
  <2>4. ApprovalInv'
    BY <2>3 DEF IInv, ApprovalInv
  <2>5. ApprovedIsCollected' /\ BadgeInv'
    BY <2>2 DEF IInv, ApprovedIsCollected, BadgeInv, Kept
  <2>6. QED BY <2>1, <2>4, <2>5 DEF IInv
<1>4. QED BY <1>1, <1>2, <1>3 DEF Next, Step

(* The inductive invariant. *)
THEOREM Inductive == Spec => []IInv
BY InvInit, InvStep, PTL DEF Spec

(* Every approved proof's stamp is in the passport. *)
THEOREM StampsCollected == Spec => []ApprovedIsCollected
<1>1. IInv => ApprovedIsCollected
  BY DEF IInv
<1>2. QED BY <1>1, Inductive, PTL

(* Concurrent approvals never lose a badge: the passport's row lock makes the *)
(* second of two approvals see the first.                                     *)
THEOREM NoBadgeLost == Spec => []NoLostBadge
<1>1. ASSUME IInv PROVE NoLostBadge
  <2>1. collected \cup revoked \in SUBSET Rows
    BY <1>1 DEF IInv, TypeOK
  <2>2. ASSUME NEW p \in passports, NEW x \in Earned(WithStatus(p, "approved"))
        PROVE  x \in ItemsOf(p, collected \cup revoked)
    <3>1. <<p, x>> \in collected \cup revoked
      BY <1>1 DEF IInv, BadgeInv, Kept
    <3>2. QED BY <2>1, <3>1, ItemsOfRows
  <2>3. QED BY <2>2 DEF NoLostBadge
<1>2. QED BY <1>1, Inductive, PTL

(* A verdict is final: the proof's row lock admits one reviewer. *)
THEOREM VerdictsAreFinal == Spec => ReviewedOnce
<1>1. ASSUME IInv, [Next]_vars, NEW k \in Proofs,
             status[k] \in {"approved", "rejected"}, PassportOf(k) \in passports'
      PROVE  status'[k] = status[k]
  <2>1. CASE World
    BY <1>1, <2>1, WorldType DEF IInv
  <2>2. ASSUME NEW r \in Requests, Step(r) PROVE status'[k] = status[k]
    <3>1. ~(pc[r] \in {"insert", "reject", "commit"} /\ k = target[r])
      BY <1>1 DEF IInv, StatusInv, SubmitPlaces, ReviewPlaces
    <3>2. QED BY <1>1, <2>2, <3>1, StatusMoves DEF IInv, Commit
  <2>3. CASE UNCHANGED vars
    BY <2>3 DEF vars, tables
  <2>4. QED BY <1>1, <2>1, <2>2, <2>3 DEF Next, Step
<1>2. IInv /\ [Next]_vars =>
        [\A k \in Proofs :
            status[k] \in {"approved", "rejected"} /\ PassportOf(k) \in passports'
              => status'[k] = status[k]]_vars
  BY <1>1
<1>3. QED BY <1>2, Inductive, PTL DEF Spec, ReviewedOnce

------------------------------------------------------------------------------
(* With snapshots per statement the locked check of a submission is exact. *)

PendingInv ==
    /\ \A r \in Requests : snap[r] = Null
    /\ \A r \in Requests : pc[r] = "insert" =>
          \A k \in Proofs : /\ status[k] = "pending"
                            /\ PassportOf(k) = PassportOf(target[r])
                            => StampOf(k) # StampOf(target[r])
    /\ OnePendingProof

(* Only Insert makes a proof pending, and it holds the passport. *)
LEMMA PendingStep ==
  ASSUME IInv, PendingInv, Isolation = "READ COMMITTED", NEW r \in Requests, Step(r)
  PROVE  PendingInv'
<1> USE DEF IInv
<1>1. ASSUME NEW q \in Requests PROVE snap'[q] = Null
  <2>1. Snapshot(PassportOf(target[r])) = Null
        /\ \A k : Snapshot(PassportOf(k)) = Null
    BY DEF Snapshot
  <2>2. CASE Insert(r) \/ Refuse(r) \/ Reject(r) \/ Collide(r) \/ Commit(r)
               \/ Cascade(r) \/ DeadlockVictim(r) \/ Abort(r)
    <3>1. End(r)
      BY <2>2 DEF Insert, Refuse, Reject, Collide, Commit, Cascade, DeadlockVictim, Abort
    <3>2. QED BY <3>1 DEF End, TypeOK, PendingInv
  <2>3. CASE SubmitLock(r) \/ Recheck(r) \/ ApproveLock(r) \/ CollectStamp(r)
               \/ AwardBadges(r) \/ CheckCollected(r)
    BY <2>1, <2>3 DEF SubmitLock, Recheck, ApproveLock, CollectStamp, AwardBadges,
       CheckCollected, TypeOK, PendingInv
  <2>4. CASE Arrive(r)
    <3>1. ASSUME NEW k \in Proofs, Submit(r, k) PROVE snap'[q] = Null
      BY <2>1, <3>1 DEF Submit, TypeOK, PendingInv
    <3>2. ASSUME UNCHANGED snap PROVE snap'[q] = Null
      BY <3>2 DEF PendingInv
    <3>3. QED BY <2>4, <3>1, <3>2 DEF Arrive, ReviewLock, DeletePassport
  <2>5. QED BY <2>2, <2>3, <2>4 DEF Step, Handle
<1>2. ASSUME NEW k \in Proofs, status'[k] = "pending", status[k] # "pending"
      PROVE  pc[r] = "insert" /\ k = target[r] /\ PassportOf(k) \in Passports
  BY <1>2, StatusMoves, ProofParts
<1>3. ASSUME NEW q \in Requests, pc'[q] = "insert", NEW k \in Proofs,
             status'[k] = "pending", PassportOf(k) = PassportOf(target'[q])
      PROVE  StampOf(k) # StampOf(target'[q])
  <2>1. CASE q = r
    <3>1. Recheck(r)
      <4>1. CASE Insert(r) \/ Refuse(r) \/ Reject(r) \/ Collide(r) \/ Commit(r)
                   \/ Cascade(r) \/ DeadlockVictim(r) \/ Abort(r)
        BY <1>3, <2>1, <4>1, EndReleases DEF Insert, Refuse, Reject, Collide, Commit,
           Cascade, DeadlockVictim, Abort
      <4>2. CASE SubmitLock(r) \/ ApproveLock(r) \/ CollectStamp(r)
                   \/ AwardBadges(r) \/ CheckCollected(r)
        BY <1>3, <2>1, <4>2 DEF SubmitLock, ApproveLock, CollectStamp, AwardBadges,
           CheckCollected, Goto, TypeOK
      <4>3. CASE Arrive(r)
        BY <1>3, <2>1, <4>3 DEF Arrive, Submit, ReviewLock, DeletePassport, Goto, TypeOK
      <4>4. QED BY <4>1, <4>2, <4>3 DEF Step, Handle
    <3>2. target'[r] = target[r] /\ status' = status
      BY <3>1 DEF Recheck, tables
    <3>3. View(r).pending = WithStatus(PassportOf(target[r]), "pending")
      BY DEF View, Store, PendingInv
    <3>4. StampOf(target[r]) \notin WithStatus(PassportOf(target[r]), "pending")
      BY <3>1, <3>3 DEF Recheck
    <3>5. QED BY <1>3, <2>1, <3>2, <3>4 DEF WithStatus, ProofsOf
  <2>2. CASE q # r
    <3>1. pc[q] = "insert" /\ target'[q] = target[q]
      BY <1>3, <2>2, Frame
    <3>2. CASE status[k] = "pending"
      BY <1>3, <3>1, <3>2 DEF PendingInv
    <3>3. CASE status[k] # "pending"
      <4>1. HoldsPassport(r, PassportOf(k)) /\ HoldsPassport(q, PassportOf(k))
        BY <1>2, <1>3, <3>1, <3>3 DEF HoldsPassport
      <4>2. QED BY <1>2, <1>3, <2>2, <3>3, <4>1 DEF MutexInv
    <3>4. QED BY <3>2, <3>3
  <2>3. QED BY <2>1, <2>2
<1>4. ASSUME NEW j \in Proofs, NEW k \in Proofs,
             status'[j] = "pending", status'[k] = "pending",
             PassportOf(j) = PassportOf(k), StampOf(j) = StampOf(k)
      PROVE  j = k
  <2>1. CASE status[j] = "pending" /\ status[k] = "pending"
    BY <1>4, <2>1 DEF PendingInv, OnePendingProof
  <2>2. CASE status[j] = "pending" /\ status[k] # "pending"
    BY <1>2, <1>4, <2>2 DEF PendingInv
  <2>3. CASE status[j] # "pending" /\ status[k] = "pending"
    BY <1>2, <1>4, <2>3 DEF PendingInv
  <2>4. CASE status[j] # "pending" /\ status[k] # "pending"
    BY <1>2, <1>4, <2>4
  <2>5. QED BY <2>1, <2>2, <2>3, <2>4
<1>5. QED BY <1>1, <1>3, <1>4 DEF PendingInv, OnePendingProof

(* Under READ COMMITTED a passport never has two proofs of a stamp waiting.   *)
(* Under REPEATABLE READ it may: the locked check reads an old snapshot.      *)
THEOREM OnePendingUnderReadCommitted ==
  ASSUME Isolation = "READ COMMITTED"
  PROVE  Spec => []OnePendingProof
<1>1. Init => PendingInv
  BY DEF Init, PendingInv, OnePendingProof
<1>2. IInv /\ PendingInv /\ [Next]_vars => PendingInv'
  <2> SUFFICES ASSUME IInv, PendingInv, [Next]_vars PROVE PendingInv'
    OBVIOUS
  <2>1. CASE World
    BY <2>1, WorldType DEF IInv, PendingInv, OnePendingProof
  <2>2. CASE \E r \in Requests : Step(r)
    BY <2>2, PendingStep
  <2>3. CASE UNCHANGED vars
    BY <2>3 DEF vars, tables, PendingInv, OnePendingProof
  <2>4. QED BY <2>1, <2>2, <2>3 DEF Next, Step
<1>3. PendingInv => OnePendingProof
  BY DEF PendingInv
<1>4. QED BY <1>1, <1>2, <1>3, Inductive, PTL DEF Spec

------------------------------------------------------------------------------
(* Badges are earned: what an approval is about to insert is what the approved *)
(* proofs of its passport earn together with its own.                          *)

DraftEarned(r) ==
    \A row \in draft[r] : row[2] \in Badges =>
        /\ row[1] = PassportOf(target[r])
        /\ row[2] \in Earned(WithStatus(row[1], "approved") \cup {StampOf(target[r])})

EarnedInv ==
    /\ NoUnearnedBadge
    /\ \A r \in Requests : pc[r] \in {"award", "commit"} => DraftEarned(r)

(* One more approved proof never takes a badge away. *)
LEMMA MoreProofsEarnMore ==
  ASSUME NEW A, NEW B, A \subseteq B
  PROVE  Earned(A) \subseteq Earned(B)
<1>1. MissionFacts(A) \subseteq MissionFacts(B)
  <2>1. CompletedCourses(A) \subseteq CompletedCourses(B)
    BY DEF CompletedCourses
  <2>2. QED BY <2>1 DEF MissionFacts
<1>2. IsFiniteSet(MissionFacts(B))
  <2>1. MissionFacts(B) \in SUBSET UNION {CourseFacts[c] : c \in Courses}
    BY DEF MissionFacts, CompletedCourses
  <2>2. QED BY <2>1, FactsAssumption, FS_Subset
<1>3. \A metric \in Metrics : IsFiniteSet(Group(MissionFacts(B), metric))
  BY <1>2, GroupIsFinite
<1>4. QED BY <1>1, <1>3, EarnedGrows DEF Earned

LEMMA CollectedStays ==
  ASSUME TypeOK, NEW r \in Requests, Step(r), ~Commit(r), ~Cascade(r)
  PROVE  UNCHANGED collected
BY DEF Step, Handle, Arrive, Abort, SubmitLock, Recheck, Insert, Refuse, Reject,
   ApproveLock, CheckCollected, CollectStamp, AwardBadges, Collide, DeadlockVictim,
   Submit, ReviewLock, DeletePassport, tables

LEMMA EarnedStep ==
  ASSUME IInv, EarnedInv, NEW r \in Requests, Step(r)
  PROVE  EarnedInv'
<1> USE DEF IInv
<1>1. ASSUME NEW row \in collected', row[2] \in Badges, row \notin by_admin'
      PROVE  row[2] \in Earned(WithStatus(row[1], "approved")')
  <2> DEFINE p == row[1]
  <2>1. row \notin by_admin
    BY <1>1, Frame DEF history
  <2>2. CASE row \in collected
    <3>1. p \in Passports
      BY <2>2, RowParts DEF TypeOK
    <3>2. row[2] \in Earned(WithStatus(p, "approved"))
      BY <1>1, <2>1, <2>2 DEF EarnedInv, NoUnearnedBadge
    <3>3. CASE Commit(r) /\ PassportOf(target[r]) = p
      BY <3>2, <3>3, CommitMoves, MoreProofsEarnMore
    <3>4. CASE ~(Commit(r) /\ PassportOf(target[r]) = p)
      <4>1. ~(Cascade(r) /\ target[r] = p)
        BY <1>1 DEF Cascade
      <4>2. QED BY <3>1, <3>2, <3>4, <4>1, ApprovalMoves
    <3>5. QED BY <3>3, <3>4
  <2>3. CASE row \notin collected
    <3>1. Commit(r) /\ row \in draft[r]
      BY <1>1, <2>3, CollectedStays DEF Cascade, Commit
    <3>2. p = PassportOf(target[r])
          /\ row[2] \in Earned(WithStatus(p, "approved") \cup {StampOf(target[r])})
      BY <1>1, <3>1 DEF EarnedInv, DraftEarned, Commit
    <3>3. QED BY <3>1, <3>2, CommitMoves
  <2>4. QED BY <2>2, <2>3
<1>2. ASSUME NEW q \in Requests, q # r, pc'[q] \in {"award", "commit"}
      PROVE  DraftEarned(q)'
  <2> DEFINE p == PassportOf(target[q])
  <2>1. /\ pc[q] = pc'[q] /\ target'[q] = target[q] /\ draft'[q] = draft[q]
    BY <1>2, Frame
  <2>2. DraftEarned(q)
    BY <1>2, <2>1 DEF EarnedInv
  <2>3. WithStatus(p, "approved")' = WithStatus(p, "approved")
    BY <1>2, <2>1, Protected
  <2>4. QED BY <2>1, <2>2, <2>3 DEF DraftEarned
<1>3. ASSUME pc'[r] \in {"award", "commit"} PROVE DraftEarned(r)'
  <2> DEFINE p == PassportOf(target[r])
  <2>1. CASE CollectStamp(r)
    \* the row of a stamp is no badge's
    <3>1. draft'[r] = NewStamp(r) /\ target[r] \in Proofs
      BY <2>1 DEF CollectStamp, Goto, TypeOK, TargetInv, ReviewPlaces
    <3>2. \A row \in draft'[r] : row[2] \notin Badges
      BY <3>1, ProofParts, KindsAssumption DEF NewStamp, RowsOf
    <3>3. QED BY <3>2 DEF DraftEarned
  <2>2. CASE AwardBadges(r)
    <3>1. /\ target'[r] = target[r] /\ draft'[r] = draft[r] \cup NewBadges(r)
          /\ WithStatus(p, "approved")' = WithStatus(p, "approved")
          /\ pc[r] = "award" /\ target[r] \in Proofs
      BY <2>2 DEF AwardBadges, Goto, TypeOK, TargetInv, ReviewPlaces, tables, WithStatus
    <3>2. DraftEarned(r)
      BY <3>1 DEF EarnedInv
    <3>3. View(r).approved = WithStatus(p, "approved")
      BY <3>1, ProofParts DEF ApprovalInv, Current
    <3>4. ASSUME NEW row \in NewBadges(r)
          PROVE  row[1] = p
                 /\ row[2] \in Earned(WithStatus(p, "approved") \cup {StampOf(target[r])})
      BY <3>3 DEF NewBadges, RowsOf
    <3>5. QED BY <3>1, <3>2, <3>4 DEF DraftEarned
  <2>3. CASE ~CollectStamp(r) /\ ~AwardBadges(r)
    <3>1. CASE Insert(r) \/ Refuse(r) \/ Reject(r) \/ Collide(r) \/ Commit(r)
                 \/ Cascade(r) \/ DeadlockVictim(r) \/ Abort(r)
      BY <1>3, <3>1, EndReleases DEF Insert, Refuse, Reject, Collide, Commit, Cascade,
         DeadlockVictim, Abort
    <3>2. CASE SubmitLock(r) \/ Recheck(r) \/ ApproveLock(r) \/ CheckCollected(r)
                 \/ Arrive(r)
      BY <1>3, <3>2 DEF SubmitLock, Recheck, ApproveLock, CheckCollected, Arrive, Submit,
         ReviewLock, DeletePassport, Goto, TypeOK
    <3>3. QED BY <2>3, <3>1, <3>2 DEF Step, Handle
  <2>4. QED BY <2>1, <2>2, <2>3
<1>4. NoUnearnedBadge'
  BY <1>1 DEF NoUnearnedBadge, WithStatus
<1>5. QED BY <1>2, <1>3, <1>4 DEF EarnedInv

(* What an administrator puts is on record as such. *)
LEMMA EarnedWorld ==
  ASSUME IInv, EarnedInv, World
  PROVE  EarnedInv'
<1>1. UNCHANGED <<status, pc, target, draft>>
  BY WorldType DEF IInv
<1>2. ASSUME NEW p PROVE WithStatus(p, "approved")' = WithStatus(p, "approved")
  BY <1>1 DEF WithStatus
<1>3. by_admin \subseteq by_admin' /\ collected' \subseteq collected \cup by_admin'
  BY DEF World, Grant, Revoke, Move, Offer, history
<1>4. NoUnearnedBadge'
  BY <1>2, <1>3 DEF EarnedInv, NoUnearnedBadge
<1>5. \A r \in Requests : DraftEarned(r) => DraftEarned(r)'
  BY <1>1, <1>2 DEF DraftEarned
<1>6. QED BY <1>1, <1>4, <1>5 DEF EarnedInv

(* Every badge in a passport is earned by its approved proofs or was put there *)
(* by an administrator: a collected stamp an administrator issued earns none,  *)
(* and no interleaving of approvals, deletions and edits lets one through.     *)
THEOREM BadgesAreEarned == Spec => []NoUnearnedBadge
<1>1. Init => EarnedInv
  BY DEF Init, EarnedInv, NoUnearnedBadge
<1>2. IInv /\ EarnedInv /\ [Next]_vars => EarnedInv'
  <2> SUFFICES ASSUME IInv, EarnedInv, [Next]_vars PROVE EarnedInv'
    OBVIOUS
  <2>1. CASE World
    BY <2>1, EarnedWorld
  <2>2. CASE \E r \in Requests : Step(r)
    BY <2>2, EarnedStep
  <2>3. CASE UNCHANGED vars
    <3>1. \A p : WithStatus(p, "approved")' = WithStatus(p, "approved")
      BY <2>3 DEF vars, tables, WithStatus
    <3>2. QED
      BY <2>3, <3>1 DEF vars, tables, history, EarnedInv, DraftEarned, NoUnearnedBadge
  <2>4. QED BY <2>1, <2>2, <2>3 DEF Next, Step
<1>3. EarnedInv => NoUnearnedBadge
  BY DEF EarnedInv
<1>4. QED BY <1>1, <1>2, <1>3, Inductive, PTL DEF Spec

-------------------------------------------------------------------------------
(* The posts *)

Proved == INSTANCE Feed_proofs WITH
    Requests <- FeedRequests, pc <- feed_pc, draft <- feed_draft, snap <- feed_snap

LEMMA FeedAssumptions == Proved!IsolationAssumption /\ Proved!NullAssumption
  BY IsolationAssumption, CaptionsAssumption
     DEF Levels, Proved!Levels, Proved!IsolationAssumption, Proved!NullAssumption

(* The feed of MCProofsPosts and the one of Feed_proofs are one system. *)
LEMMA SameInit == Community!Init => Proved!Init
  BY DEF Community!Init, Proved!Init, Community!Row, Proved!Row

LEMMA SameNext == Community!Next => Proved!Next
  BY DEF Community!Next, Proved!Next, Community!Handle, Proved!Handle, Community!Write,
     Proved!Write, Community!LockActor, Proved!LockActor, Community!Skip,
     Proved!Skip, Community!Check, Proved!Check, Community!Insert, Proved!Insert,
     Community!Delete, Proved!Delete, Community!DeadlockVictim,
     Proved!DeadlockVictim, Community!ListComments, Proved!ListComments,
     Community!Arrive, Proved!Arrive, Community!Jobs, Proved!Jobs,
     Community!LockOwned, Proved!LockOwned, Community!Look, Proved!Look,
     Community!LookComments, Proved!LookComments, Community!Abort, Proved!Abort,
     Community!Show, Proved!Show, Community!tables, Proved!tables, Community!End,
     Proved!End, Community!Goto, Proved!Goto, Community!UserFree, Proved!UserFree,
     Community!PostFree, Proved!PostFree, Community!Accepts, Proved!Accepts,
     Community!Edited, Proved!Edited, Community!Row, Proved!Row, Community!Kind,
     Proved!Kind, Community!Target, Proved!Target, Community!Actor, Proved!Actor,
     Community!Marks, Proved!Marks, Community!Seen, Proved!Seen, Community!Public,
     Proved!Public, Community!Snapshot, Proved!Snapshot, Community!View,
     Proved!View, Community!WaitsFor, Proved!WaitsFor, Community!ReferencesFree,
     Proved!ReferencesFree, Community!Collision, Proved!Collision

(* Every behaviour is one of the feed's: the other sides are stutters of it. *)
LEMMA FeedSide == SidesSpec => Proved!Spec
<1>1. SidesInit => Proved!Init
  BY SameInit DEF SidesInit
<1>2. [SidesNext]_<<part, vars, feedVars, tallyVars>> => [Proved!Next]_(Proved!vars)
  BY SameNext DEF SidesNext, feedVars, Proved!vars, Proved!tables
<1>3. QED BY <1>1, <1>2, PTL DEF SidesSpec, Proved!Spec

(* Nothing an owner's request has read before the deletion brings the post back. *)
THEOREM DeletionStands == SidesSpec => DeletedForGood
<1>1. Proved!DeletedForGood => DeletedForGood
  BY DEF DeletedForGood, Community!DeletedForGood, Proved!DeletedForGood, Community!vars, Proved!vars,
     Community!tables, Proved!tables
<1>2. QED BY <1>1, FeedSide, FeedAssumptions, Proved!DeletionIsFinal, PTL

(* The verdict's columns and the feed's are written apart, and no write is lost. *)
THEOREM VerdictsAndEditsApart == SidesSpec => CertificationApart
<1>1. Proved!CertificationApart => CertificationApart
  BY DEF CertificationApart, Community!CertificationApart, Proved!CertificationApart, Community!vars,
     Proved!vars, Community!tables, Proved!tables, Community!Write, Proved!Write,
     Community!End, Proved!End, Community!Edited, Proved!Edited
<1>2. QED BY <1>1, FeedSide, FeedAssumptions, Proved!ColumnsKeptApart, PTL

(* Under the default isolation comments are listed of public posts only. *)
THEOREM CommentsOfPublicPosts ==
  ASSUME Isolation = "REPEATABLE READ"
  PROVE  SidesSpec => []PrivateUnread
<1>1. Proved!PrivateUnread => PrivateUnread
  BY DEF PrivateUnread, Community!PrivateUnread, Proved!PrivateUnread, Community!View, Proved!View,
     Community!Seen, Proved!Seen, Community!Public, Proved!Public, Community!Kind,
     Proved!Kind, Community!Target, Proved!Target
<1>2. SidesSpec => []Proved!PrivateUnread
  BY FeedSide, FeedAssumptions, Proved!CommentsWerePublic, PTL
<1>3. QED BY <1>1, <1>2, PTL
===============================================================================
