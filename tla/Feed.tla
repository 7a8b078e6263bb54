-------------------------------- MODULE Feed --------------------------------
(***************************************************************************)
(* The community feed: the second half of app/services/stamp_submission.py *)
(* and app/repositories/stamp_submission.py.  Owners share, hide and       *)
(* delete the posts their approved proofs become; members like, comment    *)
(* and follow.                                                             *)
(*                                                                         *)
(* post, shown and marks are the committed tables.  A request is a         *)
(* transaction: job[r] what it asks, draft[r] the row it read for update,  *)
(* snap[r] the snapshot its non-locking reads see.                         *)
(***************************************************************************)
EXTENDS Naturals

CONSTANTS Users, Posts, Captions, Requests,
          Isolation,     \* the isolation level of the database's transactions
          Null

Levels == {"REPEATABLE READ", "READ COMMITTED"}
ASSUME IsolationAssumption == Isolation \in Levels
ASSUME NullAssumption == Null \notin Captions \cup [public : BOOLEAN, marked : BOOLEAN]

VARIABLES post,      \* the submissions: status and feed columns
          shown,     \* posts whose activity is visible
          marks,     \* feed_likes, feed_comments and user_follows
          pc, job, draft, snap

tables == <<post, shown, marks>>
vars == <<tables, pc, job, draft, snap>>

------------------------------------------------------------------------------
Row == [status : {"pending", "approved", "rejected"}, shared : BOOLEAN,
        deleted : BOOLEAN, caption : Captions]

Marks == ({"like", "comment"} \X Posts \X Users)
           \cup {m \in {"follow"} \X Users \X Users : m[2] # m[3]}
Kind(m) == m[1]
Target(m) == m[2]
Actor(m) == m[3]

Jobs == [op : {"patch"}, post : Posts, share : BOOLEAN, caption : Captions \cup {Null}]
          \cup [op : {"remove"}, post : Posts]
          \cup [op : {"review"}, post : Posts, status : {"approved", "rejected"}]
          \cup [op : {"mark"}, mark : Marks, on : BOOLEAN]
          \cup [op : {"read"}, post : Posts]

(* visible_feed_item *)
Public(p) == /\ post[p].status = "approved" /\ post[p].shared
             /\ ~post[p].deleted /\ p \in shown

(* What the non-locking reads of a request can see. *)
Seen(j) ==
    IF j.op = "mark"
    THEN [public |-> Kind(j.mark) = "follow" \/ Public(Target(j.mark)),
          marked |-> j.mark \in marks]
    ELSE [public |-> Public(j.post), marked |-> FALSE]

(* Mutant: every statement sees the tables as they are. *)
SnapshotNone(j) == Null

(* Mutant: whether the pair exists is read before the actor is locked. *)
SnapshotFirst(j) == Seen(j)

(* REPEATABLE READ keeps the first non-locking read's snapshot to the end. *)
Snapshot(j) == IF Isolation = "REPEATABLE READ" THEN Seen(j) ELSE Null
View(r) == IF snap[r] = Null THEN Seen(job[r]) ELSE snap[r]

Init ==
    /\ post \in [Posts -> {row \in Row : row.status = "pending" /\ ~row.deleted}]
    /\ shown = Posts
    /\ marks = {}
    /\ pc = [r \in Requests |-> "idle"]
    /\ job = [r \in Requests |-> Null]
    /\ draft = [r \in Requests |-> Null]
    /\ snap = [r \in Requests |-> Null]

------------------------------------------------------------------------------
(* Locks follow from the place in the handler. *)
PostFree(p) == \A r \in Requests : pc[r] = "owned" => job[r].post # p
UserFree(u) ==
    \A r \in Requests : pc[r] \in {"check", "write"} => Actor(job[r].mark) # u

End(r) ==
    /\ pc' = [pc EXCEPT ![r] = "idle"]
    /\ job' = [job EXCEPT ![r] = Null]
    /\ draft' = [draft EXCEPT ![r] = Null]
    /\ snap' = [snap EXCEPT ![r] = Null]

Goto(r, from, to) == pc[r] = from /\ pc' = [pc EXCEPT ![r] = to]

------------------------------------------------------------------------------
(* The owner's PATCH and DELETE, and the review of the same row *)

Accepts(j, row) == CASE j.op = "patch"  -> ~row.deleted
                     [] j.op = "review" -> row.status = "pending"
                     [] j.op = "remove" -> TRUE

(* Mutant: the row is read without FOR UPDATE. *)
ReadOwned(r, j) ==
    /\ j.op \in {"patch", "remove", "review"}
    /\ Accepts(j, post[j.post])
    /\ Goto(r, "idle", "owned")
    /\ job' = [job EXCEPT ![r] = j]
    /\ draft' = [draft EXCEPT ![r] = post[j.post]]
    /\ UNCHANGED <<tables, snap>>

(* get_owned and get read FOR UPDATE; a refused request ends at once. *)
LockOwned(r, j) ==
    /\ j.op \in {"patch", "remove", "review"}
    /\ PostFree(j.post)
    /\ Accepts(j, post[j.post])
    /\ Goto(r, "idle", "owned")
    /\ job' = [job EXCEPT ![r] = j]
    /\ draft' = [draft EXCEPT ![r] = post[j.post]]
    /\ UNCHANGED <<tables, snap>>

(* update_feed_visibility, delete_from_feed, approve and reject *)
Edited(j, row) ==
    CASE j.op = "patch" ->
            [row EXCEPT !.shared = j.share,
                        !.caption = IF j.caption = Null THEN @ ELSE j.caption]
      [] j.op = "remove" -> [row EXCEPT !.shared = FALSE, !.deleted = TRUE]
      [] j.op = "review" -> [row EXCEPT !.status = j.status]

Write(r) ==
    /\ pc[r] = "owned"
    /\ post' = [post EXCEPT ![job[r].post] = Edited(job[r], draft[r])]
    /\ End(r)
    /\ UNCHANGED <<shown, marks>>

------------------------------------------------------------------------------
(* Likes, comments and follows *)

(* The first read: the post is visible, or the other member exists. *)
Look(r, j) ==
    /\ j.op = "mark"
    /\ Seen(j).public
    /\ \/ j.on /\ Kind(j.mark) = "comment" /\ Goto(r, "idle", "write")
       \/ ~j.on /\ Kind(j.mark) = "like" /\ Goto(r, "idle", "delete")
       \/ Kind(j.mark) = "follow" /\ Goto(r, "idle", "lock")
       \/ j.on /\ Kind(j.mark) = "like" /\ Goto(r, "idle", "lock")
    /\ job' = [job EXCEPT ![r] = j]
    /\ snap' = [snap EXCEPT ![r] = Snapshot(j)]
    /\ UNCHANGED <<tables, draft>>

(* Mutant: the actor's row is read without FOR UPDATE. *)
ReadActor(r) ==
    /\ Goto(r, "lock", "check")
    /\ UNCHANGED <<tables, job, draft, snap>>

(* "Serialize actions by actor so repeated/concurrent requests remain *)
(* idempotent": the actor's users row FOR UPDATE.                     *)
LockActor(r) ==
    /\ Goto(r, "lock", "check")
    /\ UserFree(Actor(job[r].mark))
    /\ UNCHANGED <<tables, job, draft, snap>>

(* Nothing is to be done for what is so already. *)
Skip(r) ==
    /\ pc[r] = "check"
    /\ View(r).marked = job[r].on
    /\ End(r)
    /\ UNCHANGED tables

Check(r) ==
    /\ Goto(r, "check", IF job[r].on THEN "write" ELSE "delete")
    /\ View(r).marked # job[r].on
    /\ UNCHANGED <<tables, job, draft, snap>>

(* The rows an insert refers to are locked in share mode: the post, or the *)
(* member who is followed.                                                 *)
ReferencesFree(m) == IF Kind(m) = "follow" THEN UserFree(Target(m)) ELSE PostFree(Target(m))

Collision(r) == pc[r] = "write" /\ Kind(job[r].mark) # "comment" /\ job[r].mark \in marks

(* A duplicate key is an error nothing catches: 500, and the row there was stays. *)
Insert(r) ==
    /\ pc[r] = "write"
    /\ Collision(r) \/ ReferencesFree(job[r].mark)
    /\ marks' = marks \cup {job[r].mark}
    /\ End(r)
    /\ UNCHANGED <<post, shown>>

(* A row that is gone already is not missed. *)
Delete(r) ==
    /\ pc[r] = "delete"
    /\ marks' = marks \ {job[r].mark}
    /\ End(r)
    /\ UNCHANGED <<post, shown>>

(* Mutant: the deadlock stays undetected. *)
NoVictim(r) == FALSE /\ UNCHANGED vars

(* Members follow each other at the same time: each holds its own row and   *)
(* waits for the next one's.  InnoDB rolls one request of a cycle back.     *)
WaitsFor(r, q) ==
    /\ pc[r] = "write" /\ pc[q] = "write"
    /\ Kind(job[r].mark) = "follow" /\ Kind(job[q].mark) = "follow"
    /\ Target(job[r].mark) = Actor(job[q].mark)

DeadlockVictim(r) ==
    /\ \E cycle \in SUBSET Requests :
          /\ r \in cycle
          /\ \A q \in cycle : /\ \E p \in cycle : WaitsFor(q, p)
                              /\ \E p \in cycle : WaitsFor(p, q)
    /\ End(r)
    /\ UNCHANGED tables

------------------------------------------------------------------------------
(* GET comments: visible_feed_item, then the rows. *)
LookComments(r, j) ==
    /\ j.op = "read"
    /\ Seen(j).public
    /\ Goto(r, "idle", "list")
    /\ job' = [job EXCEPT ![r] = j]
    /\ snap' = [snap EXCEPT ![r] = Snapshot(j)]
    /\ UNCHANGED <<tables, draft>>

ListComments(r) == pc[r] = "list" /\ End(r) /\ UNCHANGED tables

(* A crash, a dropped connection, a lock wait timeout: the session rolls back. *)
Abort(r) == pc[r] # "idle" /\ End(r) /\ UNCHANGED tables

(* Synchronization and administrators hide activities and show them again. *)
Show(p) ==
    /\ shown' = IF p \in shown THEN shown \ {p} ELSE shown \cup {p}
    /\ UNCHANGED <<post, marks, pc, job, draft, snap>>

------------------------------------------------------------------------------
Handle(r) == \/ Write(r) \/ LockActor(r) \/ Skip(r) \/ Check(r) \/ Insert(r)
             \/ Delete(r) \/ DeadlockVictim(r) \/ ListComments(r)

Arrive(r) == \E j \in Jobs : LockOwned(r, j) \/ Look(r, j) \/ LookComments(r, j)

Next == \/ \E r \in Requests : Handle(r) \/ Arrive(r) \/ Abort(r)
        \/ \E p \in Posts : Show(p)

Spec == Init /\ [][Next]_vars

(* The server runs the handlers it has started, and a lock that becomes free *)
(* again and again is granted to a request that keeps waiting for it.        *)
FairSpec == Spec /\ \A r \in Requests : SF_vars(Handle(r))

------------------------------------------------------------------------------
TypeOK ==
    /\ post \in [Posts -> Row]
    /\ shown \subseteq Posts
    /\ marks \subseteq Marks
    /\ pc \in [Requests -> {"idle", "owned", "lock", "check", "write", "delete", "list"}]
    /\ job \in [Requests -> Jobs \cup {Null}]
    /\ draft \in [Requests -> Row \cup {Null}]
    /\ snap \in [Requests -> [public : BOOLEAN, marked : BOOLEAN] \cup {Null}]

(* "Deleted posts cannot be republished using visibility PATCH", not even by *)
(* a PATCH that read the post before it was deleted.                         *)
DeletedForGood ==
    [][\A p \in Posts : post[p].deleted => post'[p].deleted /\ ~post'[p].shared]_vars

(* Certification and feed are independent: a verdict is never undone by an    *)
(* owner's edit of the same row, nor an edit by a verdict; and a              *)
(* "visibility-only PATCH retains the caption", also one that somebody else   *)
(* has just written.                                                          *)
CertificationApart ==
    [][/\ \A p \in Posts :
             /\ post[p].status # "pending" => post'[p].status = post[p].status
             /\ post'[p].status # post[p].status
                  => post'[p] = [post[p] EXCEPT !.status = post'[p].status]
       /\ \A r \in Requests :
             Write(r) /\ (job[r].op = "patch" => job[r].caption = Null)
                => post'[job[r].post].caption = post[job[r].post].caption]_vars

(* Comments are listed only as of a state in which the post was public: "other *)
(* users cannot retrieve private/deleted detail, comments, likes".             *)
PrivateUnread == \A r \in Requests : pc[r] = "list" => View(r).public

(* A follow or a like that is repeated, or sent twice at the same time, never *)
(* fails on a duplicate key ("repeated/concurrent requests remain             *)
(* idempotent").                                                              *)
RepeatsSucceed == \A r \in Requests : ~Collision(r)

(* When a follow or an unfollow ends without an error, the pair is as it was   *)
(* asked for, in the order in which the actor's requests got the lock.         *)
TakesEffect ==
    [][\A r \in Requests :
          Skip(r) \/ Insert(r) \/ Delete(r) => (job[r].mark \in marks') = job[r].on]_vars

(* Every request ends, also of two members who follow each other. *)
EveryRequestEnds == \A r \in Requests : pc[r] # "idle" ~> pc[r] = "idle"
==============================================================================
