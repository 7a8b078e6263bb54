----------------------------- MODULE Feed_proofs -----------------------------
(***************************************************************************)
(* Proofs about Feed for every set of members, posts, captions and         *)
(* requests.  What the lock on a post guarantees holds under both          *)
(* isolation levels; what the lock on an actor guarantees only when each   *)
(* statement reads the tables as they are, and what a reader of comments   *)
(* is shown only when a transaction keeps its snapshot.                    *)
(***************************************************************************)
EXTENDS Feed, TLAPS

Step(r) == Handle(r) \/ Arrive(r) \/ Abort(r)

(* What a request is doing at each place of the handlers. *)
OwnedJobs == {j \in Jobs : j.op \in {"patch", "remove", "review"}}
MarkJobs == {j \in Jobs : j.op = "mark"}
ReadJobs == {j \in Jobs : j.op = "read"}
MarkPlaces == {"lock", "check", "write", "delete"}

JobInv ==
    \A r \in Requests :
        /\ pc[r] = "owned" => job[r] \in OwnedJobs /\ draft[r] \in Row
        /\ pc[r] \in MarkPlaces =>
              /\ job[r] \in MarkJobs
              /\ pc[r] \in {"lock", "check"} => Kind(job[r].mark) # "comment"
              /\ pc[r] = "write" => job[r].on
              /\ pc[r] = "delete" => ~job[r].on
        /\ pc[r] = "list" => job[r] \in ReadJobs

(* A post's row lock has one holder, and what it has read is still there. *)
PostInv ==
    /\ \A q, r \in Requests :
          pc[q] = "owned" /\ pc[r] = "owned" /\ job[q].post = job[r].post => q = r
    /\ \A r \in Requests : pc[r] = "owned" =>
          draft[r] = post[job[r].post] /\ Accepts(job[r], draft[r])
    /\ \A p \in Posts : post[p].deleted => ~post[p].shared

IInv == TypeOK /\ JobInv /\ PostInv

------------------------------------------------------------------------------
LEMMA JobParts ==
  /\ \A j \in OwnedJobs : j.post \in Posts
  /\ \A j \in MarkJobs : j.mark \in Marks /\ j.on \in BOOLEAN
  /\ \A j \in ReadJobs : j.post \in Posts
  BY DEF OwnedJobs, MarkJobs, ReadJobs, Jobs

LEMMA SeenType ==
  ASSUME NEW j
  PROVE  /\ Seen(j) \in [public : BOOLEAN, marked : BOOLEAN]
         /\ Snapshot(j) \in [public : BOOLEAN, marked : BOOLEAN] \cup {Null}
<1>1. Public(j.post) \in BOOLEAN /\ Public(Target(j.mark)) \in BOOLEAN
  BY DEF Public
<1>2. Seen(j) \in [public : BOOLEAN, marked : BOOLEAN]
  BY <1>1 DEF Seen
<1>3. QED BY <1>2 DEF Snapshot

LEMMA EditedType ==
  ASSUME NEW j \in OwnedJobs, NEW row \in Row
  PROVE  Edited(j, row) \in Row
<1>1. CASE j.op = "patch"
  <2>1. j.share \in BOOLEAN /\ j.caption \in Captions \cup {Null}
    BY <1>1 DEF OwnedJobs, Jobs
  <2>2. QED BY <1>1, <2>1 DEF Edited, Row
<1>2. CASE j.op = "remove"
  BY <1>2 DEF Edited, Row
<1>3. CASE j.op = "review"
  <2>1. j.status \in {"approved", "rejected"}
    BY <1>3 DEF OwnedJobs, Jobs
  <2>2. QED BY <1>3, <2>1 DEF Edited, Row
<1>4. QED BY <1>1, <1>2, <1>3 DEF OwnedJobs

LEMMA InvInit == Init => IInv
  BY DEF Init, IInv, TypeOK, JobInv, PostInv, MarkPlaces

LEMMA EndFrame ==
  ASSUME TypeOK, NEW r \in Requests, End(r)
  PROVE  /\ pc'[r] = "idle" /\ snap'[r] = Null
         /\ \A q \in Requests \ {r} :
               /\ pc'[q] = pc[q] /\ job'[q] = job[q]
               /\ draft'[q] = draft[q] /\ snap'[q] = snap[q]
         /\ pc' \in [Requests -> {"idle", "owned", "lock", "check", "write", "delete", "list"}]
         /\ job' \in [Requests -> Jobs \cup {Null}]
         /\ draft' \in [Requests -> Row \cup {Null}]
         /\ snap' \in [Requests -> [public : BOOLEAN, marked : BOOLEAN] \cup {Null}]
  BY DEF End, TypeOK

(* Ending a request and writing no post keeps the invariant. *)
LEMMA EndKeeps ==
  ASSUME IInv, NEW r \in Requests, End(r), UNCHANGED <<post, shown>>, marks' \subseteq Marks
  PROVE  IInv'
<1>1. TypeOK'
  BY EndFrame DEF IInv, TypeOK
<1>2. JobInv'
  BY EndFrame DEF IInv, JobInv, MarkPlaces
<1>3. PostInv'
  BY EndFrame DEF IInv, PostInv
<1>4. QED BY <1>1, <1>2, <1>3 DEF IInv

(* The writer of a post holds it alone, so it changes the row it has read. *)
LEMMA WriteKeeps ==
  ASSUME IInv, NEW r \in Requests, Write(r)
  PROVE  IInv'
<1> DEFINE p == job[r].post
<1>1. job[r] \in OwnedJobs /\ draft[r] \in Row /\ p \in Posts /\ pc[r] = "owned"
  BY JobParts DEF Write, IInv, JobInv
<1>2. /\ post' = [post EXCEPT ![p] = Edited(job[r], draft[r])]
      /\ Edited(job[r], draft[r]) \in Row /\ End(r) /\ UNCHANGED <<shown, marks>>
  BY <1>1, EditedType DEF Write
<1> HIDE DEF p
<1>3. TypeOK'
  BY <1>2, EndFrame DEF IInv, TypeOK
<1>4. JobInv'
  BY <1>2, EndFrame DEF IInv, JobInv, MarkPlaces
<1>5. ASSUME NEW q \in Requests, pc'[q] = "owned"
      PROVE  /\ draft'[q] = post'[job'[q].post] /\ Accepts(job'[q], draft'[q])
             /\ \A t \in Requests : pc'[t] = "owned" /\ job'[t].post = job'[q].post => t = q
  <2>1. q # r /\ pc[q] = "owned" /\ job'[q] = job[q] /\ draft'[q] = draft[q]
    BY <1>2, <1>5, EndFrame DEF IInv
  <2>2. job[q].post # p /\ job[q].post \in Posts
    BY <1>1, <2>1, JobParts DEF IInv, PostInv, JobInv, p
  <2>3. QED BY <1>2, <2>1, <2>2, EndFrame DEF IInv, PostInv, TypeOK
<1>6. post'[p].deleted => ~post'[p].shared
  <2>1. draft[r] = post[p] /\ (draft[r].deleted => ~draft[r].shared)
    BY <1>1 DEF IInv, PostInv, p
  <2>2. post'[p] = Edited(job[r], draft[r])
    BY <1>1, <1>2 DEF IInv, TypeOK, p
  <2>3. CASE job[r].op = "patch"
    <3>1. ~draft[r].deleted
      BY <1>1, <2>3 DEF IInv, PostInv, Accepts
    <3>2. QED BY <1>1, <2>2, <2>3, <3>1 DEF Edited, Row
  <2>4. CASE job[r].op = "remove"
    BY <1>1, <2>2, <2>4 DEF Edited, Row
  <2>5. CASE job[r].op = "review"
    BY <1>1, <2>1, <2>2, <2>5 DEF Edited, Row
  <2>6. QED BY <1>1, <2>3, <2>4, <2>5 DEF OwnedJobs
<1>7. \A o \in Posts : post'[o].deleted => ~post'[o].shared
  BY <1>2, <1>6 DEF IInv, PostInv, TypeOK
<1>8. QED BY <1>3, <1>4, <1>5, <1>7 DEF IInv, PostInv

LEMMA LockKeeps ==
  ASSUME IInv, NEW r \in Requests, NEW j \in Jobs, LockOwned(r, j)
  PROVE  IInv'
<1>1. j \in OwnedJobs /\ j.post \in Posts /\ post[j.post] \in Row
  BY JobParts DEF LockOwned, OwnedJobs, IInv, TypeOK
<1>2. /\ pc' = [pc EXCEPT ![r] = "owned"] /\ job' = [job EXCEPT ![r] = j]
      /\ draft' = [draft EXCEPT ![r] = post[j.post]]
      /\ UNCHANGED <<post, shown, marks, snap>>
  BY DEF LockOwned, Goto, tables
<1>3. TypeOK'
  BY <1>1, <1>2 DEF IInv, TypeOK
<1>4. JobInv'
  BY <1>1, <1>2 DEF IInv, TypeOK, JobInv, MarkPlaces
<1>5. PostInv'
  BY <1>1, <1>2 DEF IInv, TypeOK, PostInv, PostFree, LockOwned
<1>6. QED BY <1>3, <1>4, <1>5 DEF IInv

LEMMA LookKeeps ==
  ASSUME IInv, NEW r \in Requests, NEW j \in Jobs, Look(r, j) \/ LookComments(r, j)
  PROVE  IInv'
<1>1. PICK to \in {"lock", "write", "delete", "list"} :
        /\ pc[r] = "idle" /\ pc' = [pc EXCEPT ![r] = to]
        /\ to \in MarkPlaces =>
              /\ j \in MarkJobs
              /\ to = "lock" => Kind(j.mark) # "comment"
              /\ to = "write" => j.on
              /\ to = "delete" => ~j.on
        /\ to = "list" => j \in ReadJobs
  BY DEF Look, LookComments, Goto, MarkJobs, ReadJobs, MarkPlaces
<1>2. /\ job' = [job EXCEPT ![r] = j] /\ snap' = [snap EXCEPT ![r] = Snapshot(j)]
      /\ UNCHANGED <<post, shown, marks, draft>>
  BY DEF Look, LookComments, tables
<1>3. TypeOK'
  BY <1>1, <1>2, SeenType DEF IInv, TypeOK
<1>4. JobInv'
  BY <1>1, <1>2 DEF IInv, TypeOK, JobInv, MarkPlaces
<1>5. PostInv'
  BY <1>1, <1>2 DEF IInv, TypeOK, PostInv
<1>6. QED BY <1>3, <1>4, <1>5 DEF IInv

LEMMA ActorKeeps ==
  ASSUME IInv, NEW r \in Requests, LockActor(r) \/ Check(r)
  PROVE  IInv'
<1>1. PICK to \in {"check", "write", "delete"} :
        /\ pc[r] \in {"lock", "check"} /\ pc' = [pc EXCEPT ![r] = to]
        /\ to = "write" => job[r].on
        /\ to = "delete" => ~job[r].on
  BY DEF LockActor, Check, Goto
<1>2. UNCHANGED <<post, shown, marks, job, draft, snap>>
  BY DEF LockActor, Check, tables
<1>3. TypeOK'
  BY <1>1, <1>2 DEF IInv, TypeOK
<1>4. JobInv'
  BY <1>1, <1>2 DEF IInv, TypeOK, JobInv, MarkPlaces
<1>5. PostInv'
  BY <1>1, <1>2 DEF IInv, TypeOK, PostInv
<1>6. QED BY <1>3, <1>4, <1>5 DEF IInv

LEMMA InvStep == IInv /\ [Next]_vars => IInv'
<1> SUFFICES ASSUME IInv, [Next]_vars PROVE IInv'
  OBVIOUS
<1>1. ASSUME NEW r \in Requests, Step(r) PROVE IInv'
  <2>1. CASE Skip(r) \/ DeadlockVictim(r) \/ ListComments(r) \/ Abort(r)
    BY <1>1, <2>1, EndKeeps
       DEF Skip, DeadlockVictim, ListComments, Abort, tables, IInv, TypeOK
  <2>2. CASE Insert(r)
    <3>1. job[r].mark \in Marks
      BY <2>2, JobParts DEF Insert, IInv, JobInv, MarkPlaces
    <3>2. QED BY <2>2, <3>1, EndKeeps DEF Insert, IInv, TypeOK
  <2>3. CASE Delete(r)
    BY <2>3, EndKeeps DEF Delete, IInv, TypeOK
  <2>4. QED
    BY <1>1, <2>1, <2>2, <2>3, WriteKeeps, LockKeeps, LookKeeps, ActorKeeps
       DEF Step, Handle, Arrive
<1>2. CASE \E p \in Posts : Show(p)
  BY <1>2 DEF Show, IInv, TypeOK, JobInv, PostInv
<1>3. CASE UNCHANGED vars
  BY <1>3 DEF vars, tables, IInv, TypeOK, JobInv, PostInv
<1>4. QED BY <1>1, <1>2, <1>3 DEF Next, Step

(* The inductive invariant. *)
THEOREM Inductive == Spec => []IInv
BY InvInit, InvStep, PTL DEF Spec

(* Every value has its type. *)
THEOREM TypeCorrect == Spec => []TypeOK
<1>1. IInv => TypeOK
  BY DEF IInv
<1>2. QED BY <1>1, Inductive, PTL

------------------------------------------------------------------------------
(* The lock on the post *)

LEMMA OtherPosts ==
  ASSUME IInv, [Next]_vars
  PROVE  \A p \in Posts :
            \/ post'[p] = post[p]
            \/ \E r \in Requests :
                  /\ Write(r) /\ job[r].post = p /\ job[r] \in OwnedJobs
                  /\ post[p] \in Row /\ draft[r] = post[p] /\ Accepts(job[r], post[p])
                  /\ post'[p] = Edited(job[r], post[p])
<1>1. ASSUME NEW r \in Requests, Write(r), NEW p \in Posts, post'[p] # post[p]
      PROVE  /\ job[r].post = p /\ job[r] \in OwnedJobs
             /\ post[p] \in Row /\ draft[r] = post[p] /\ Accepts(job[r], post[p])
             /\ post'[p] = Edited(job[r], post[p])
  BY <1>1 DEF Write, IInv, TypeOK, JobInv, PostInv
<1>2. ASSUME NEW r \in Requests, Step(r), ~Write(r) PROVE post' = post
  BY <1>2 DEF Step, Handle, Arrive, Abort, LockActor, Skip, Check, Insert, Delete,
     DeadlockVictim, ListComments, LockOwned, Look, LookComments, tables
<1>3. ASSUME NEW p \in Posts, Show(p) PROVE post' = post
  BY <1>3 DEF Show
<1>4. ASSUME UNCHANGED vars PROVE post' = post
  BY <1>4 DEF vars, tables
<1>5. QED BY <1>1, <1>2, <1>3, <1>4 DEF Next, Step

(* A deleted post is never shared again, whatever its owner's other requests *)
(* have read before the deletion.                                            *)
THEOREM DeletionIsFinal == Spec => DeletedForGood
<1>1. ASSUME IInv, [Next]_vars, NEW p \in Posts, post[p].deleted
      PROVE  post'[p].deleted /\ ~post'[p].shared
  <2>1. CASE post'[p] = post[p]
    BY <1>1, <2>1 DEF IInv, PostInv
  <2>2. CASE post'[p] # post[p]
    <3>1. PICK r \in Requests :
             /\ job[r] \in OwnedJobs /\ post[p] \in Row /\ Accepts(job[r], post[p])
             /\ post'[p] = Edited(job[r], post[p])
      BY <1>1, <2>2, OtherPosts
    <3>2. job[r].op \in {"remove", "review"}
      BY <1>1, <3>1 DEF Accepts, OwnedJobs
    <3>3. ~post[p].shared
      BY <1>1 DEF IInv, PostInv
    <3>4. QED BY <1>1, <3>1, <3>2, <3>3 DEF Edited, Row
  <2>3. QED BY <2>1, <2>2
<1>2. IInv /\ [Next]_vars =>
        [\A p \in Posts : post[p].deleted => post'[p].deleted /\ ~post'[p].shared]_vars
  BY <1>1
<1>3. QED BY <1>2, Inductive, PTL DEF Spec, DeletedForGood

(* Verdicts and the owner's edits of one row keep out of each other's columns, *)
(* and nobody's write is lost to a concurrent one.                             *)
THEOREM ColumnsKeptApart == Spec => CertificationApart
<1>1. ASSUME IInv, [Next]_vars, NEW p \in Posts
      PROVE  /\ post[p].status # "pending" => post'[p].status = post[p].status
             /\ post'[p].status # post[p].status
                  => post'[p] = [post[p] EXCEPT !.status = post'[p].status]
  <2>1. CASE post'[p] = post[p]
    BY <2>1
  <2>2. CASE post'[p] # post[p]
    <3>1. PICK r \in Requests :
             /\ job[r] \in OwnedJobs /\ post[p] \in Row /\ Accepts(job[r], post[p])
             /\ post'[p] = Edited(job[r], post[p])
      BY <1>1, <2>2, OtherPosts
    <3>2. CASE job[r].op = "patch"
      BY <3>1, <3>2 DEF Edited, Row
    <3>3. CASE job[r].op = "remove"
      BY <3>1, <3>3 DEF Edited, Row
    <3>4. CASE job[r].op = "review"
      BY <3>1, <3>4 DEF Edited, Row, Accepts
    <3>5. QED BY <3>1, <3>2, <3>3, <3>4 DEF OwnedJobs
  <2>3. QED BY <2>1, <2>2
<1>2. ASSUME IInv, NEW r \in Requests, Write(r), job[r].op = "patch" => job[r].caption = Null
      PROVE  post'[job[r].post].caption = post[job[r].post].caption
  <2> DEFINE p == job[r].post
  <2>1. /\ job[r] \in OwnedJobs /\ p \in Posts /\ post[p] \in Row
        /\ post'[p] = Edited(job[r], post[p])
    BY <1>2, JobParts DEF Write, IInv, TypeOK, JobInv, PostInv
  <2> HIDE DEF p
  <2>2. ASSUME job[r].op = "patch" PROVE post'[p].caption = post[p].caption
    <3>1. Edited(job[r], post[p]).caption = post[p].caption
      BY <1>2, <2>1, <2>2 DEF Edited, Row
    <3>2. QED BY <2>1, <3>1
  <2>3. ASSUME job[r].op # "patch" PROVE post'[p].caption = post[p].caption
    <3>1. Edited(job[r], post[p]).caption = post[p].caption
      BY <2>1, <2>3 DEF Edited, Row, OwnedJobs
    <3>2. QED BY <2>1, <3>1
  <2>4. QED BY <2>2, <2>3 DEF p
<1>3. IInv /\ [Next]_vars =>
        [/\ \A p \in Posts :
               /\ post[p].status # "pending" => post'[p].status = post[p].status
               /\ post'[p].status # post[p].status
                    => post'[p] = [post[p] EXCEPT !.status = post'[p].status]
         /\ \A r \in Requests :
               Write(r) /\ (job[r].op = "patch" => job[r].caption = Null)
                  => post'[job[r].post].caption = post[job[r].post].caption]_vars
  BY <1>1, <1>2
<1>4. QED BY <1>3, Inductive, PTL DEF Spec, CertificationApart

------------------------------------------------------------------------------
(* The lock on the actor *)

HoldsActor(r) == pc[r] \in {"check", "write"} /\ Kind(job[r].mark) # "comment"

(* With statements that see the tables as they are, the check under the lock *)
(* is still true when the row is inserted.                                   *)
ActorInv ==
    /\ \A r \in Requests : snap[r] = Null
    /\ \A q, r \in Requests :
          HoldsActor(q) /\ HoldsActor(r) /\ Actor(job[q].mark) = Actor(job[r].mark) => q = r
    /\ \A r \in Requests :
          HoldsActor(r) /\ pc[r] = "write" => job[r].mark \notin marks

LEMMA SeesTheTables ==
  ASSUME ActorInv, NEW r \in Requests, job[r] \in MarkJobs
  PROVE  View(r).marked = (job[r].mark \in marks)
  BY DEF ActorInv, View, Seen, MarkJobs

(* Who else may have come to hold an actor, or put a pair. *)
LEMMA ActorFrame ==
  ASSUME IInv, Isolation = "READ COMMITTED", ActorInv, NEW r \in Requests, Step(r)
  PROVE  /\ snap'[r] = Null
         /\ \A q \in Requests \ {r} :
               pc'[q] = pc[q] /\ job'[q] = job[q] /\ snap'[q] = snap[q]
         /\ HoldsActor(r)' =>
               /\ job'[r] = job[r] /\ Kind(job[r].mark) # "comment"
               /\ \/ pc[r] = "lock" /\ pc'[r] = "check" /\ UserFree(Actor(job[r].mark))
                  \/ pc[r] = "check" /\ pc'[r] = "write" /\ job[r].mark \notin marks
         /\ \/ marks' \subseteq marks
            \/ pc[r] = "write" /\ marks' = marks \cup {job[r].mark} /\ pc'[r] = "idle"
<1> USE DEF IInv
<1>1. CASE Write(r) \/ Skip(r) \/ Insert(r) \/ Delete(r) \/ DeadlockVictim(r)
             \/ ListComments(r) \/ Abort(r)
  <2>1. End(r)
    BY <1>1 DEF Write, Skip, Insert, Delete, DeadlockVictim, ListComments, Abort
  <2>2. \/ marks' \subseteq marks
        \/ pc[r] = "write" /\ marks' = marks \cup {job[r].mark}
    BY <1>1 DEF Write, Skip, Insert, Delete, DeadlockVictim, ListComments, Abort, tables
  <2>3. QED BY <2>1, <2>2, EndFrame DEF HoldsActor
<1>2. CASE LockActor(r)
  BY <1>2 DEF LockActor, Goto, TypeOK, HoldsActor, ActorInv, tables
<1>3. CASE Check(r)
  <2>1. job[r] \in MarkJobs /\ job[r].on \in BOOLEAN
    BY <1>3, JobParts DEF Check, Goto, JobInv, MarkPlaces
  <2>2. View(r).marked = (job[r].mark \in marks)
    BY <2>1, SeesTheTables
  <2>3. QED
    BY <1>3, <2>1, <2>2 DEF Check, Goto, TypeOK, HoldsActor, ActorInv, tables
<1>4. CASE Arrive(r)
  <2>1. Snapshot(job'[r]) = Null
    BY DEF Snapshot
  <2>2. ASSUME NEW j \in Jobs, LockOwned(r, j)
        PROVE  pc'[r] = "owned" /\ snap'[r] = Null
    BY <2>2 DEF LockOwned, Goto, TypeOK, ActorInv
  <2>3. ASSUME NEW j \in Jobs, Look(r, j) \/ LookComments(r, j)
        PROVE  ~HoldsActor(r)' /\ snap'[r] = Null
    <3>1. Snapshot(j) = Null
      BY DEF Snapshot
    <3>2. QED BY <2>3, <3>1 DEF Look, LookComments, Goto, TypeOK, HoldsActor
  <2>4. marks' = marks /\ \A q \in Requests \ {r} :
               pc'[q] = pc[q] /\ job'[q] = job[q] /\ snap'[q] = snap[q]
    BY <1>4 DEF Arrive, LockOwned, Look, LookComments, Goto, TypeOK, tables
  <2>5. QED BY <1>4, <2>2, <2>3, <2>4 DEF Arrive, HoldsActor
<1>5. QED BY <1>1, <1>2, <1>3, <1>4 DEF Step, Handle

LEMMA ActorStep ==
  ASSUME IInv, Isolation = "READ COMMITTED", ActorInv, [Next]_vars
  PROVE  ActorInv'
<1>1. ASSUME NEW r \in Requests, Step(r) PROVE ActorInv'
  <2>1. \A q \in Requests \ {r} : HoldsActor(q)' <=> HoldsActor(q)
    BY <1>1, ActorFrame DEF HoldsActor
  <2>2. ASSUME NEW q \in Requests \ {r}, HoldsActor(q), HoldsActor(r)'
        PROVE  Actor(job'[q].mark) # Actor(job'[r].mark)
    <3>1. job'[q] = job[q] /\ job'[r] = job[r]
      BY <1>1, <2>2, ActorFrame
    <3>2. CASE HoldsActor(r)
      BY <2>2, <3>1, <3>2 DEF ActorInv
    <3>3. CASE ~HoldsActor(r)
      <4>1. UserFree(Actor(job[r].mark))
        BY <1>1, <2>2, <3>3, ActorFrame DEF HoldsActor
      <4>2. QED BY <2>2, <3>1, <4>1 DEF UserFree, HoldsActor
    <3>4. QED BY <3>2, <3>3
  <2>3. ASSUME NEW q \in Requests, HoldsActor(q)', pc'[q] = "write"
        PROVE  job'[q].mark \notin marks'
    <3>1. CASE q = r
      <4>1. job[r].mark \notin marks /\ marks' \subseteq marks /\ job'[r] = job[r]
        BY <1>1, <2>3, <3>1, ActorFrame
      <4>2. QED BY <3>1, <4>1
    <3>2. CASE q # r
      <4>1. HoldsActor(q) /\ pc[q] = "write" /\ job'[q] = job[q]
        BY <1>1, <2>1, <2>3, <3>2, ActorFrame
      <4>2. job[q].mark \notin marks
        BY <4>1 DEF ActorInv
      <4>3. pc[r] = "write" => job[r].mark # job[q].mark
        BY <3>2, <4>1 DEF ActorInv, HoldsActor
      <4>4. QED BY <1>1, <4>1, <4>2, <4>3, ActorFrame
    <3>3. QED BY <3>1, <3>2
  <2>4. \A q \in Requests : snap'[q] = Null
    BY <1>1, ActorFrame DEF ActorInv
  <2>5. \A q, t \in Requests :
          HoldsActor(q)' /\ HoldsActor(t)' /\ Actor(job'[q].mark) = Actor(job'[t].mark)
            => q = t
    <3>1. ASSUME NEW q \in Requests \ {r}, NEW t \in Requests \ {r},
                 HoldsActor(q)', HoldsActor(t)', Actor(job'[q].mark) = Actor(job'[t].mark)
          PROVE  q = t
      <4>1. job'[q] = job[q] /\ job'[t] = job[t]
        BY <1>1, ActorFrame
      <4>2. QED BY <2>1, <3>1, <4>1 DEF ActorInv
    <3>2. QED BY <2>1, <2>2, <3>1
  <2>6. QED BY <2>3, <2>4, <2>5 DEF ActorInv
<1>2. CASE \E p \in Posts : Show(p)
  BY <1>2 DEF Show, ActorInv, HoldsActor
<1>3. CASE UNCHANGED vars
  BY <1>3 DEF vars, tables, ActorInv, HoldsActor
<1>4. QED BY <1>1, <1>2, <1>3 DEF Next, Step

LEMMA ActorInductive ==
  ASSUME Isolation = "READ COMMITTED"
  PROVE  Spec => []ActorInv
<1>1. Init => ActorInv
  BY DEF Init, ActorInv, HoldsActor
<1>2. IInv /\ ActorInv /\ [Next]_vars => ActorInv'
  BY ActorStep
<1>3. QED BY <1>1, <1>2, Inductive, PTL DEF Spec

(* Under READ COMMITTED no repeated or concurrent like or follow fails on a *)
(* duplicate key.                                                           *)
THEOREM NoDuplicateKey ==
  ASSUME Isolation = "READ COMMITTED"
  PROVE  Spec => []RepeatsSucceed
<1>1. ActorInv => RepeatsSucceed
  BY DEF ActorInv, RepeatsSucceed, Collision, HoldsActor
<1>2. QED BY <1>1, ActorInductive, PTL

LEMMA AbsentIsOff ==
  ASSUME NEW m, NEW S, NEW on \in BOOLEAN, m \notin S, ~on
  PROVE  (m \in S) = on
  OBVIOUS

(* Under READ COMMITTED a like or a follow that ends without an error leaves *)
(* the pair as it was asked for.                                             *)
THEOREM AskedIsDone ==
  ASSUME Isolation = "READ COMMITTED"
  PROVE  Spec => TakesEffect
<1>1. ASSUME IInv, ActorInv, NEW r \in Requests, Skip(r) \/ Insert(r) \/ Delete(r)
      PROVE  (job[r].mark \in marks') = job[r].on
  <2>1. job[r] \in MarkJobs /\ job[r].on \in BOOLEAN
        /\ (pc[r] = "write" => job[r].on) /\ (pc[r] = "delete" => ~job[r].on)
    BY <1>1, JobParts DEF Skip, Insert, Delete, IInv, JobInv, MarkPlaces
  <2>2. CASE Skip(r)
    BY <1>1, <2>1, <2>2, SeesTheTables DEF Skip, tables
  <2>3. CASE Insert(r)
    BY <2>1, <2>3 DEF Insert
  <2>4. CASE Delete(r)
    <3>1. job[r].mark \notin marks'
      BY <2>4 DEF Delete
    <3>2. ~job[r].on /\ job[r].on \in BOOLEAN
      BY <2>1, <2>4 DEF Delete
    <3>3. QED BY <3>1, <3>2, AbsentIsOff
  <2>5. QED BY <1>1, <2>2, <2>3, <2>4
<1>2. IInv /\ ActorInv /\ [Next]_vars =>
        [\A r \in Requests :
           Skip(r) \/ Insert(r) \/ Delete(r) => (job[r].mark \in marks') = job[r].on]_vars
  BY <1>1
<1>3. QED BY <1>2, Inductive, ActorInductive, PTL DEF Spec, TakesEffect

------------------------------------------------------------------------------
(* The snapshot of a reader *)

ListInv == \A r \in Requests : pc[r] = "list" => snap[r] # Null /\ snap[r].public

(* Under REPEATABLE READ comments are only listed as of a snapshot in which *)
(* their post was public.                                                   *)
THEOREM CommentsWerePublic ==
  ASSUME Isolation = "REPEATABLE READ"
  PROVE  Spec => []PrivateUnread
<1>1. Init => ListInv
  BY DEF Init, ListInv
<1>2. IInv /\ ListInv /\ [Next]_vars => ListInv'
  <2> SUFFICES ASSUME IInv, ListInv, [Next]_vars PROVE ListInv'
    OBVIOUS
  <2> USE DEF IInv
  <2>1. ASSUME NEW r \in Requests, Step(r) PROVE ListInv'
    <3>1. CASE Write(r) \/ Skip(r) \/ Insert(r) \/ Delete(r) \/ DeadlockVictim(r)
                 \/ ListComments(r) \/ Abort(r)
      <4>1. End(r)
        BY <3>1 DEF Write, Skip, Insert, Delete, DeadlockVictim, ListComments, Abort
      <4>2. QED BY <4>1, EndFrame DEF ListInv
    <3>2. CASE LockActor(r) \/ Check(r)
      BY <3>2 DEF LockActor, Check, Goto, TypeOK, ListInv
    <3>3. ASSUME NEW j \in Jobs, LockOwned(r, j) \/ Look(r, j) PROVE ListInv'
      BY <3>3 DEF LockOwned, Look, Goto, TypeOK, ListInv
    <3>4. ASSUME NEW j \in Jobs, LookComments(r, j) PROVE ListInv'
      <4>1. Snapshot(j) \in [public : BOOLEAN, marked : BOOLEAN] /\ Snapshot(j).public
        <5>1. Seen(j).public /\ Snapshot(j) = Seen(j)
          BY <3>4 DEF LookComments, Snapshot
        <5>2. QED BY <5>1, SeenType
      <4>2. Snapshot(j) # Null
        BY <4>1, NullAssumption
      <4>3. QED BY <3>4, <4>1, <4>2 DEF LookComments, Goto, TypeOK, ListInv
    <3>5. QED BY <2>1, <3>1, <3>2, <3>3, <3>4 DEF Step, Handle, Arrive
  <2>2. CASE \E p \in Posts : Show(p)
    BY <2>2 DEF Show, ListInv
  <2>3. CASE UNCHANGED vars
    BY <2>3 DEF vars, ListInv
  <2>4. QED BY <2>1, <2>2, <2>3 DEF Next, Step
<1>3. ListInv => PrivateUnread
  BY DEF ListInv, PrivateUnread, View
<1>4. QED BY <1>1, <1>2, <1>3, Inductive, PTL DEF Spec
==============================================================================
