----------------------------- MODULE ProofReview -----------------------------
(***************************************************************************)
(* From a photo proof to a badge: app/services/stamp_submission.py over    *)
(* app/repositories/stamp_submission.py, with the administrators' pages    *)
(* for collected stamps and badges (app/services/collected.py) and the     *)
(* deletion of passports working on the same rows.                         *)
(*                                                                         *)
(* passports, status, collected and offered are the committed tables.  A   *)
(* request is a transaction: draft[r] is what it has inserted and not      *)
(* committed, snap[r] the snapshot its non-locking reads see.  The row     *)
(* locks it holds follow from its place in the handler: see Locks.         *)
(***************************************************************************)
EXTENDS BadgeRules

CONSTANTS Passports,
          Courses,       \* the published courses
          StampsOf,      \* CourseStamp: course -> its stamps
          CourseFacts,   \* course -> its rows for the badge rules
          Badges,        \* the rule_keys of the badges table
          Tries,         \* bound: proofs ever sent for one stamp of a passport
          MaxEdits,      \* bound: rows administrators put or remove
          Requests,
          Isolation,     \* the isolation level of the database's transactions
          Null

Stamps == UNION {StampsOf[c] : c \in Courses}
Items == Stamps \cup Badges         \* what a passport collects
Kinds == {Stamps, Badges}
Proofs == Passports \X Stamps \X Tries
Levels == {"REPEATABLE READ", "READ COMMITTED"}

ASSUME IsolationAssumption == Isolation \in Levels
ASSUME KindsAssumption == Stamps \cap Badges = {}
ASSUME FactsAssumption == IsFiniteSet(UNION {CourseFacts[c] : c \in Courses})
ASSUME NullAssumption == Null \notin Requests \cup Proofs \cup Passports

VARIABLES
    passports,          \* the rows that exist
    status,             \* of each submission; "absent" before it is inserted
    collected,          \* collected_stamps and collected_badges: <<passport, item>>
    offered,            \* stamps of a visible activity on an open course
    pc, target, snap, draft,   \* the requests
    by_admin, revoked   \* history: rows an administrator put, and removed

tables == <<passports, status, collected, offered>>
history == <<by_admin, revoked>>
vars == <<tables, pc, target, snap, draft, history>>

------------------------------------------------------------------------------
PassportOf(k) == k[1]
StampOf(k) == k[2]
ProofsOf(p) == {k \in Proofs : PassportOf(k) = p}
WithStatus(p, s) == {StampOf(k) : k \in {j \in ProofsOf(p) : status[j] = s}}
ItemsOf(p, rows) == {row[2] : row \in {c \in rows : c[1] = p}}

(* What non-locking reads about one passport can see. *)
Store(p) == [offered |-> offered,
             pending |-> WithStatus(p, "pending"),
             approved |-> WithStatus(p, "approved"),
             items |-> ItemsOf(p, collected)]

(* REPEATABLE READ keeps the first non-locking read's snapshot to the end. *)
Snapshot(p) == IF Isolation = "REPEATABLE READ" THEN Store(p) ELSE Null
View(r) == IF snap[r] = Null THEN Store(PassportOf(target[r])) ELSE snap[r]

(* completed_mission_facts: every stamp approved, none on another course. *)
CompletedCourses(approved) ==
    {c \in Courses : /\ StampsOf[c] # {}
                     /\ StampsOf[c] \subseteq approved
                     /\ \A d \in Courses \ {c} : StampsOf[c] \cap StampsOf[d] = {}}
MissionFacts(approved) == UNION {CourseFacts[c] : c \in CompletedCourses(approved)}
Earned(approved) == Badges \cap EarnedBadgeRules(MissionFacts(approved))

Init ==
    /\ passports = Passports
    /\ status = [k \in Proofs |-> "absent"]
    /\ collected = {}
    /\ offered = Stamps
    /\ pc = [r \in Requests |-> "idle"]
    /\ target = [r \in Requests |-> Null]
    /\ snap = [r \in Requests |-> Null]
    /\ draft = [r \in Requests |-> {}]
    /\ by_admin = {} /\ revoked = {}

------------------------------------------------------------------------------
(* Locks.  A row lock is held from the statement that takes it to the end of *)
(* the transaction.  A request that inserts rows of a passport, or deletes   *)
(* it, needs its row: the foreign key of an insert takes it in share mode.   *)
HoldsPassport(r, p) ==
    \/ pc[r] \in {"recheck", "insert", "collect", "stamp", "award", "commit"}
          /\ PassportOf(target[r]) = p
    \/ pc[r] = "cascade" /\ target[r] = p
HoldsProof(r, k) ==
    pc[r] \in {"passport", "reject", "collect", "stamp", "award", "commit"} /\ target[r] = k

PassportFree(p) == \A r \in Requests : ~HoldsPassport(r, p)
ProofFree(k) == \A r \in Requests : ~HoldsProof(r, k)

Goto(r, from, to) == pc[r] = from /\ pc' = [pc EXCEPT ![r] = to]

End(r) ==
    /\ pc' = [pc EXCEPT ![r] = "idle"]
    /\ target' = [target EXCEPT ![r] = Null]
    /\ snap' = [snap EXCEPT ![r] = Null]
    /\ draft' = [draft EXCEPT ![r] = {}]

------------------------------------------------------------------------------
(* POST /stamp-submissions *)

(* _target without a lock; the snapshot dates from here.  k stands for the *)
(* id the row will get, so no two requests have the same one.              *)
Submit(r, k) ==
    LET seen == Store(PassportOf(k)) IN
    /\ Goto(r, "idle", "relock")
    /\ PassportOf(k) \in passports
    /\ StampOf(k) \in seen.offered \ (seen.items \cup seen.pending)
    /\ status[k] = "absent"
    /\ \A q \in Requests : target[q] # k
    /\ target' = [target EXCEPT ![r] = k]
    /\ snap' = [snap EXCEPT ![r] = Snapshot(PassportOf(k))]
    /\ UNCHANGED <<tables, draft, history>>

(* After the uploaded objects were validated: _target(lock=True). *)
SubmitLock(r) ==
    /\ Goto(r, "relock", "recheck")
    /\ PassportOf(target[r]) \in passports
    /\ PassportFree(PassportOf(target[r]))
    /\ UNCHANGED <<tables, target, snap, draft, history>>

Recheck(r) ==
    /\ Goto(r, "recheck", "insert")
    /\ StampOf(target[r]) \in View(r).offered \ (View(r).items \cup View(r).pending)
    /\ UNCHANGED <<tables, target, snap, draft, history>>

Insert(r) ==
    /\ pc[r] = "insert"
    /\ status' = [status EXCEPT ![target[r]] = "pending"]
    /\ End(r)
    /\ UNCHANGED <<passports, collected, offered, history>>

(* 404 and 409 *)
Refuse(r) ==
    /\ \/ pc[r] = "relock" /\ PassportOf(target[r]) \notin passports
       \/ /\ pc[r] = "recheck"
          /\ StampOf(target[r])
               \notin View(r).offered \ (View(r).items \cup View(r).pending)
    /\ End(r)
    /\ UNCHANGED <<tables, history>>

------------------------------------------------------------------------------
(* review(), from the API and from the administrators' page *)

(* Mutant: the proof is read without FOR UPDATE. *)
ReviewRead(r, k) ==
    /\ status[k] = "pending"
    /\ Goto(r, "idle", "passport") \/ Goto(r, "idle", "reject")
    /\ target' = [target EXCEPT ![r] = k]
    /\ UNCHANGED <<tables, snap, draft, history>>

(* get() FOR UPDATE; a proof that is not pending is answered 409 at once. *)
ReviewLock(r, k) ==
    /\ status[k] = "pending"
    /\ ProofFree(k)
    /\ Goto(r, "idle", "passport") \/ Goto(r, "idle", "reject")
    /\ target' = [target EXCEPT ![r] = k]
    /\ UNCHANGED <<tables, snap, draft, history>>

Reject(r) ==
    /\ pc[r] = "reject"
    /\ status' = [status EXCEPT ![target[r]] = "rejected"]
    /\ End(r)
    /\ UNCHANGED <<passports, collected, offered, history>>

(* Mutant: the passport is read without FOR UPDATE. *)
ApproveRead(r) ==
    /\ Goto(r, "passport", "collect")
    /\ UNCHANGED <<tables, target, snap, draft, history>>

ApproveLock(r) ==
    /\ Goto(r, "passport", "collect")
    /\ PassportFree(PassportOf(target[r]))
    /\ UNCHANGED <<tables, target, snap, draft, history>>

(* collected() is the transaction's first non-locking read. *)
CheckCollected(r) ==
    /\ Goto(r, "collect", "stamp")
    /\ snap' = [snap EXCEPT ![r] = Snapshot(PassportOf(target[r]))]
    /\ UNCHANGED <<tables, target, draft, history>>

RowsOf(r, items) == {PassportOf(target[r])} \X items
NewStamp(r) == RowsOf(r, {StampOf(target[r])} \ View(r).items)

(* Mutant: badges are counted from the stamps in the passport. *)
NewBadgesOfStamps(r) ==
    LET stamps == (View(r).items \cap Stamps) \cup {StampOf(target[r])}
    IN RowsOf(r, Earned(stamps) \ View(r).items)

(* completed_mission_facts and award_badges, own proof included. *)
NewBadges(r) ==
    LET approved == View(r).approved \cup {StampOf(target[r])}
    IN RowsOf(r, Earned(approved) \ View(r).items)

(* The flush of the collected stamp and of the new status of the proof. *)
CollectStamp(r) ==
    /\ Goto(r, "stamp", "award")
    /\ NewStamp(r) \cap collected = {}
    /\ draft' = [draft EXCEPT ![r] = NewStamp(r)]
    /\ UNCHANGED <<tables, target, snap, history>>

AwardBadges(r) ==
    /\ Goto(r, "award", "commit")
    /\ NewBadges(r) \cap collected = {}
    /\ draft' = [draft EXCEPT ![r] = @ \cup NewBadges(r)]
    /\ UNCHANGED <<tables, target, snap, history>>

(* A duplicate key is an error nothing catches: 500, and all is rolled back. *)
Collision(r) == \/ pc[r] = "stamp" /\ NewStamp(r) \cap collected # {}
                \/ pc[r] = "award" /\ NewBadges(r) \cap collected # {}
Collide(r) == Collision(r) /\ End(r) /\ UNCHANGED <<tables, history>>

(* Mutant: the stamp is left out when a badge is awarded with it. *)
CommitBadgesOnly(r) ==
    /\ pc[r] = "commit"
    /\ status' = [status EXCEPT ![target[r]] = "approved"]
    /\ collected' = collected \cup {row \in draft[r] : row[2] \in Badges}
    /\ End(r)
    /\ UNCHANGED <<passports, offered, history>>

Commit(r) ==
    /\ pc[r] = "commit"
    /\ status' = [status EXCEPT ![target[r]] = "approved"]
    /\ collected' = collected \cup draft[r]
    /\ End(r)
    /\ UNCHANGED <<passports, offered, history>>

------------------------------------------------------------------------------
(* DELETE /passports/{id}: the row first, then what refers to it, so against  *)
(* a review the locks are taken in the opposite order.                        *)
DeletePassport(r, p) ==
    /\ Goto(r, "idle", "cascade")
    /\ p \in passports
    /\ PassportFree(p)
    /\ target' = [target EXCEPT ![r] = p]
    /\ UNCHANGED <<tables, snap, draft, history>>

Cascade(r) ==
    LET p == target[r] IN
    /\ pc[r] = "cascade"
    /\ \A k \in ProofsOf(p) : ProofFree(k)
    /\ passports' = passports \ {p}
    /\ status' = [k \in Proofs |-> IF PassportOf(k) = p THEN "absent" ELSE status[k]]
    /\ collected' = {row \in collected : row[1] # p}
    /\ End(r)
    /\ UNCHANGED <<offered, history>>

(* Mutant: the deadlock stays undetected. *)
NoVictim(r) == FALSE /\ UNCHANGED vars

(* InnoDB rolls one transaction of a cycle of waits back. *)
DeadlockVictim(r) ==
    /\ \E q \in Requests :
          \/ pc[r] = "passport" /\ pc[q] = "cascade" /\ PassportOf(target[r]) = target[q]
          \/ pc[q] = "passport" /\ pc[r] = "cascade" /\ PassportOf(target[q]) = target[r]
    /\ End(r)
    /\ UNCHANGED <<tables, history>>

(* A crash, a dropped connection, a lock wait timeout: the session rolls back. *)
Abort(r) ==
    /\ pc[r] # "idle"
    /\ End(r)
    /\ UNCHANGED <<tables, history>>

------------------------------------------------------------------------------
(* Administrators' pages for collected stamps and badges: one row, committed. *)

MoreEdits == Cardinality(by_admin) + Cardinality(revoked) < MaxEdits

Grant(p, x) ==
    /\ MoreEdits
    /\ p \in passports /\ PassportFree(p)
    /\ <<p, x>> \notin collected
    /\ collected' = collected \cup {<<p, x>>}
    /\ by_admin' = by_admin \cup {<<p, x>>}
    /\ UNCHANGED <<passports, status, offered, pc, target, snap, draft, revoked>>

Revoke(row) ==
    /\ MoreEdits
    /\ row \in collected
    /\ collected' = collected \ {row}
    /\ revoked' = revoked \cup {row}
    /\ UNCHANGED <<passports, status, offered, pc, target, snap, draft, by_admin>>

(* The foreign keys are checked for the columns that change, so a row moved   *)
(* within its passport does not wait for it, only for an uncommitted equal.   *)
Move(row, p, x) ==
    /\ MoreEdits
    /\ row \in collected
    /\ \E kind \in Kinds : {row[2], x} \subseteq kind
    /\ <<p, x>> \notin collected
    /\ p \in passports
    /\ p # row[1] => PassportFree(p)
    /\ \A r \in Requests : <<p, x>> \notin draft[r]
    /\ collected' = (collected \ {row}) \cup {<<p, x>>}
    /\ by_admin' = by_admin \cup {<<p, x>>}
    /\ revoked' = revoked \cup {row}
    /\ UNCHANGED <<passports, status, offered, pc, target, snap, draft>>

(* A course is closed or reopened, an activity hidden or shown again. *)
Offer(s) ==
    /\ offered' = IF s \in offered THEN offered \ {s} ELSE offered \cup {s}
    /\ UNCHANGED <<passports, status, collected, pc, target, snap, draft, history>>

------------------------------------------------------------------------------
Handle(r) ==
    \/ SubmitLock(r) \/ Recheck(r) \/ Insert(r) \/ Refuse(r)
    \/ Reject(r) \/ ApproveLock(r) \/ CheckCollected(r) \/ CollectStamp(r)
    \/ AwardBadges(r) \/ Collide(r) \/ Commit(r)
    \/ Cascade(r) \/ DeadlockVictim(r)

Arrive(r) == \/ \E k \in Proofs : Submit(r, k) \/ ReviewLock(r, k)
             \/ \E p \in Passports : DeletePassport(r, p)

World == \/ \E p \in Passports, x \in Items : Grant(p, x)
         \/ \E row \in collected : Revoke(row)
         \/ \E row \in collected, p \in Passports, x \in Items : Move(row, p, x)
         \/ \E s \in Stamps : Offer(s)

Next == World \/ \E r \in Requests : Handle(r) \/ Arrive(r) \/ Abort(r)

Spec == Init /\ [][Next]_vars

(* The server runs the handlers it has started, and a lock that becomes free *)
(* again and again is granted to a request that keeps waiting for it.        *)
FairSpec == Spec /\ \A r \in Requests : SF_vars(Handle(r))

------------------------------------------------------------------------------
Snapshots == [offered : SUBSET Stamps, pending : SUBSET Stamps,
              approved : SUBSET Stamps, items : SUBSET Items]
Rows == Passports \X Items

TypeOK ==
    /\ passports \subseteq Passports
    /\ status \in [Proofs -> {"absent", "pending", "approved", "rejected"}]
    /\ collected \subseteq Rows
    /\ offered \subseteq Stamps
    /\ pc \in [Requests -> {"idle", "relock", "recheck", "insert", "passport", "reject",
                            "collect", "stamp", "award", "commit", "cascade"}]
    /\ target \in [Requests -> Proofs \cup Passports \cup {Null}]
    /\ snap \in [Requests -> Snapshots \cup {Null}]
    /\ draft \in [Requests -> SUBSET Rows]
    /\ by_admin \subseteq Rows
    /\ revoked \subseteq Rows

(* A stamp whose proof was approved is in the passport, unless an             *)
(* administrator took it out.                                                 *)
ApprovedIsCollected ==
    \A k \in Proofs : status[k] = "approved"
        => <<PassportOf(k), StampOf(k)>> \in collected \cup revoked

(* Every badge the approved proofs of a passport earn has been awarded, also  *)
(* when its last two proofs are approved at the same time by two reviewers.   *)
NoLostBadge ==
    \A p \in passports :
        Earned(WithStatus(p, "approved")) \subseteq ItemsOf(p, collected \cup revoked)

(* Only approved proofs earn a badge: "Collected stamps can be admin-issued   *)
(* and are not proof of completing a mission".                                *)
NoUnearnedBadge ==
    \A row \in collected : row[2] \in Badges =>
        row \in by_admin \/ row[2] \in Earned(WithStatus(row[1], "approved"))

(* A passport never has two proofs of one stamp waiting for review            *)
(* ("A proof is already pending.").                                           *)
OnePendingProof ==
    \A j, k \in Proofs :
        /\ status[j] = "pending" /\ status[k] = "pending"
        /\ PassportOf(j) = PassportOf(k) /\ StampOf(j) = StampOf(k)
        => j = k

(* A reviewed proof keeps its verdict for as long as the passport exists: of  *)
(* two reviewers who decide differently at the same time, one is refused.     *)
ReviewedOnce ==
    [][\A k \in Proofs :
          status[k] \in {"approved", "rejected"} /\ PassportOf(k) \in passports'
              => status'[k] = status[k]]_vars

(* Every request ends, although reviews and deletions lock in opposite order. *)
EveryRequestEnds == \A r \in Requests : pc[r] # "idle" ~> pc[r] = "idle"
==============================================================================
