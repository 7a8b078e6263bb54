------------------------- MODULE TourismSync_proofs -------------------------
(***************************************************************************)
(* Proofs about TourismSync for every set of places, festivals and runs,   *)
(* and every number of days: however runs overlap, fail and catch up, the  *)
(* recorded date is never ahead of the rows.                               *)
(***************************************************************************)
EXTENDS TourismSync, TLAPS

(* What a run may be at.  A run of single days has something to continue. *)
RunInv ==
    \A r \in Runs : pc[r] # "idle" =>
        /\ day[r] \in 1..(today - 1)
        /\ Full(r) => day[r] = today - 1
        /\ ~Full(r) => goal[r] = today - 1

(* A list is still what the provider shows, but for what was modified since  *)
(* the day began; such a change is of a day that is not synchronized yet.    *)
ListInv ==
    \A r \in Runs : pc[r] = "apply" =>
        /\ list[r] \in [Items -> States \cup {Null}]
        /\ \A i \in Items : upstream[i].modified < today =>
              list[r][i] = IF Listed(r, i) THEN upstream[i].state ELSE Null

Mirrored(i) == Visible(i) <=> upstream[i].state = "shown"

(* The days before the one a run is at are done.  It is not enough that they *)
(* are recorded: another run that is behind sets the date back meanwhile.    *)
DoneInv ==
    \A r \in Runs : pc[r] # "idle" /\ ~Full(r) =>
        \A i \in Places : upstream[i].modified < day[r] => Mirrored(i)

IInv == TypeOK /\ RunInv /\ ListInv /\ DoneInv /\ CaughtUp

------------------------------------------------------------------------------
LEMMA ItemsAre == Places \subseteq Items /\ \A i \in Places : i \notin Festivals
  BY KindsAssumption DEF Items

LEMMA TodayIsNat == ASSUME TypeOK PROVE today \in Nat /\ today >= 2 /\ last \in Nat /\ last < today
  BY MaxDayAssumption DEF TypeOK

(* What Apply writes is of the type of a table. *)
LEMMA WrittenIsTable ==
  ASSUME TypeOK, NEW r \in Runs, list[r] \in [Items -> States \cup {Null}]
  PROVE  Written(r) \in [Items -> Row \cup {Null}]
<1> SUFFICES ASSUME NEW i \in Items
             PROVE  (IF i \in Hidden(r) /\ Upserted(r, i) # Null
                     THEN [Upserted(r, i) EXCEPT !.visible = FALSE]
                     ELSE Upserted(r, i)) \in Row \cup {Null}
  BY DEF Written
<1>1. row[i] \in Row \cup {Null}
  BY DEF TypeOK
<1>2. Known \in Row
  BY DEF Known, Row
<1>3. row[i] # Null => row[i].visible \in BOOLEAN
  BY <1>1 DEF Row
<1>4. FestivalRow(r, i) \in Row
  BY <1>3 DEF FestivalRow, Row
<1>5. row[i] # Null => [row[i] EXCEPT !.active = FALSE] \in Row
  BY <1>1 DEF Row
<1>6. Upserted(r, i) \in Row \cup {Null}
  BY <1>1, <1>2, <1>4, <1>5 DEF Upserted
<1>7. Upserted(r, i) # Null => [Upserted(r, i) EXCEPT !.visible = FALSE] \in Row
  BY <1>6 DEF Row
<1>8. QED BY <1>6, <1>7

(* A place of the list is written as the provider shows it; a place that is  *)
(* not in the whole list is retired, and one that is not in the changes of a *)
(* day is left alone.                                                        *)
LEMMA PlaceWritten ==
  ASSUME TypeOK, ListInv, NEW r \in Runs, pc[r] = "apply", NEW i \in Places, row' = Written(r),
         UNCHANGED upstream, upstream[i].modified < today
  PROVE  /\ Full(r) \/ upstream[i].modified = day[r] => Mirrored(i)'
         /\ ~Full(r) /\ upstream[i].modified # day[r] => row'[i] = row[i]
<1>1. i \in Items /\ i \notin Festivals /\ i \notin ListedFestivals(r)
  BY ItemsAre DEF ListedFestivals
<1>2. /\ list[r][i] = IF Listed(r, i) THEN upstream[i].state ELSE Null
      /\ upstream[i].state \in States
  BY <1>1 DEF ListInv, TypeOK, Upstream
<1>3. row[i] \in Row \cup {Null}
  BY <1>1 DEF TypeOK
<1>4. row'[i] = IF i \in Hidden(r) /\ Upserted(r, i) # Null
                THEN [Upserted(r, i) EXCEPT !.visible = FALSE] ELSE Upserted(r, i)
  BY <1>1 DEF Written
<1>5. Upserted(r, i) = IF list[r][i] = "shown" THEN Known
                       ELSE IF Full(r) /\ row[i] # Null THEN [row[i] EXCEPT !.active = FALSE]
                       ELSE row[i]
  BY <1>1 DEF Upserted, NewPlaces
<1>6. i \in Hidden(r) <=> list[r][i] \in {"hidden", "outside"}
  BY <1>1 DEF Hidden
<1>7. CASE list[r][i] = "shown"
  <2> Known # Null /\ Known.active /\ Known.visible
    <3>1. Known \in [active : BOOLEAN, visible : BOOLEAN]
      BY DEF Known
    <3>2. QED BY <3>1, NullAssumption DEF Known
  <2>1. row'[i] = Known
    BY <1>4, <1>5, <1>6, <1>7
  <2>2. Visible(i)'
    BY <2>1 DEF Visible
  <2>3. upstream'[i].state = "shown" /\ Listed(r, i)
    BY <1>2, <1>7, NullAssumption
  <2>4. QED BY <2>2, <2>3 DEF Mirrored, Listed
<1>8. CASE list[r][i] \in {"hidden", "outside"}
  <2>1. Upserted(r, i) \in Row \cup {Null}
    BY <1>3, <1>5, <1>8 DEF Row
  <2>2. ~Visible(i)'
    <3>1. CASE Upserted(r, i) = Null
      BY <1>4, <3>1 DEF Visible
    <3>2. CASE Upserted(r, i) # Null
      BY <1>4, <1>6, <1>8, <2>1, <3>2 DEF Visible, Row
    <3>3. QED BY <3>1, <3>2
  <2>3. upstream'[i].state # "shown" /\ Listed(r, i)
    BY <1>2, <1>8, NullAssumption
  <2>4. QED BY <2>2, <2>3 DEF Mirrored, Listed
<1>9. CASE list[r][i] = Null
  <2>1. ~Listed(r, i)
    BY <1>2, <1>9, NullAssumption DEF States
  <2>2. row'[i] = IF Full(r) /\ row[i] # Null THEN [row[i] EXCEPT !.active = FALSE] ELSE row[i]
    BY <1>4, <1>5, <1>6, <1>9, NullAssumption
  <2>3. CASE Full(r)
    <3>1. upstream'[i].state = "outside"
      BY <2>1, <2>3 DEF Listed
    <3>2. ~Visible(i)'
      BY <1>3, <2>2, <2>3 DEF Visible, Row
    <3>3. QED BY <2>3, <3>1, <3>2 DEF Mirrored
  <2>4. CASE ~Full(r)
    BY <2>1, <2>2, <2>4 DEF Listed
  <2>5. QED BY <2>3, <2>4
<1>10. QED BY <1>2, <1>7, <1>8, <1>9 DEF States
------------------------------------------------------------------------------
(* Types and the runs' days *)

LEMMA Initially == Init => IInv
<1> SUFFICES ASSUME Init PROVE IInv
  OBVIOUS
<1>1. today = 2 /\ MaxDay >= 2 /\ MaxDay \in Nat
  BY MaxDayAssumption DEF Init
<1>2. upstream \in [Items -> Upstream]
  BY <1>1 DEF Init, Upstream
<1>3. row \in [Items -> Row \cup {Null}]
  <2>1. Known \in Row
    BY DEF Known, Row
  <2>2. {Null, Known} \subseteq Row \cup {Null}
    BY <2>1
  <2>3. QED BY <2>2 DEF Init
<1>4. TypeOK
  BY <1>1, <1>2, <1>3 DEF Init, TypeOK, Never
<1>5. QED
  BY <1>4 DEF Init, IInv, RunInv, ListInv, DoneInv, CaughtUp, Settled

(* The run is over, or at its next day. *)
LEMMA EndRunTypes ==
  ASSUME TypeOK, NEW r \in Runs, EndRun(r)
  PROVE  /\ pc' \in [Runs -> {"idle", "fetch", "apply"}] /\ pc'[r] = "idle"
         /\ day' \in [Runs -> 0..(today - 1)]
         /\ goal' \in [Runs -> 0..(today - 1)]
         /\ list' \in [Runs -> [Items -> States \cup {Null}] \cup {Null}]
         /\ \A q \in Runs \ {r} : UNCHANGED <<pc[q], day[q], goal[q], list[q]>>
  BY TodayIsNat DEF EndRun, TypeOK, Never

(* A step that ends a run and writes nothing. *)
LEMMA Ends ==
  ASSUME IInv, NEW r \in Runs, EndRun(r), UNCHANGED <<db, upstream, today>>
  PROVE  IInv'
<1> USE DEF IInv
<1>1. TypeOK'
  BY EndRunTypes DEF TypeOK, db
<1>2. RunInv'
  BY EndRunTypes DEF RunInv, Full
<1>3. ListInv'
  BY EndRunTypes DEF ListInv, Full, Listed
<1>4. DoneInv'
  BY EndRunTypes DEF DoneInv, Full, Mirrored, Visible, db
<1>5. CaughtUp'
  BY DEF CaughtUp, Settled, Visible, db
<1>6. QED BY <1>1, <1>2, <1>3, <1>4, <1>5

LEMMA Starts ==
  ASSUME IInv, NEW r \in Runs, StartRun(r)
  PROVE  IInv'
<1> USE DEF IInv
<1>1. /\ today \in Nat /\ today >= 2 /\ last \in Nat /\ last < today
      /\ FirstDay \in 1..(today - 1)
      /\ UNCHANGED <<db, upstream, today, list>>
      /\ pc[r] = "idle"
      /\ last = Never => FirstDay = today - 1
      /\ last # Never => FirstDay = last + 1
  BY TodayIsNat DEF StartRun, FirstDay, Never
<1>2. /\ pc' \in [Runs -> {"idle", "fetch", "apply"}] /\ pc'[r] = "fetch"
      /\ day' \in [Runs -> 0..(today - 1)] /\ day'[r] = FirstDay
      /\ goal' \in [Runs -> 0..(today - 1)]
      /\ goal'[r] = IF last = Never THEN Never ELSE today - 1
      /\ \A q \in Runs \ {r} : UNCHANGED <<pc[q], day[q], goal[q]>>
  BY <1>1 DEF StartRun, TypeOK, Never
<1>3. TypeOK'
  BY <1>1, <1>2 DEF TypeOK, db
<1>4. RunInv'
  BY <1>1, <1>2 DEF RunInv, Full, Never
<1>5. ListInv'
  BY <1>1, <1>2 DEF ListInv, Full, Listed
<1>6. DoneInv'
  <2>1. ASSUME last # Never, NEW i \in Places, upstream[i].modified < last + 1
        PROVE  Mirrored(i)
    <3>1. upstream[i].modified \in Nat
      BY ItemsAre, MaxDayAssumption DEF TypeOK, Upstream
    <3>2. QED BY <1>1, <2>1, <3>1 DEF CaughtUp, Settled, Mirrored
  <2>2. \A i \in Places : Mirrored(i)' <=> Mirrored(i)
    BY <1>1 DEF Mirrored, Visible, db
  <2>3. ASSUME NEW q \in Runs, (pc[q] # "idle" /\ ~Full(q))', NEW i \in Places,
               (upstream[i].modified < day[q])'
        PROVE  Mirrored(i)
    <3>1. CASE q = r
      BY <1>1, <1>2, <2>1, <2>3, <3>1 DEF Full
    <3>2. CASE q # r
      BY <1>1, <1>2, <2>3, <3>2 DEF DoneInv, Full
    <3>3. QED BY <3>1, <3>2
  <2>4. QED BY <2>2, <2>3 DEF DoneInv
<1>7. CaughtUp'
  BY <1>1 DEF CaughtUp, Settled, Visible, db
<1>8. QED BY <1>3, <1>4, <1>5, <1>6, <1>7

LEMMA Fetches ==
  ASSUME IInv, NEW r \in Runs, Fetch(r)
  PROVE  IInv'
<1> USE DEF IInv
<1> DEFINE fetched == [i \in Items |-> IF Listed(r, i) THEN upstream[i].state ELSE Null]
<1>1. /\ UNCHANGED <<db, upstream, today, day, goal>> /\ pc[r] = "fetch"
      /\ pc' \in [Runs -> {"idle", "fetch", "apply"}] /\ pc'[r] = "apply"
      /\ list' = [list EXCEPT ![r] = fetched]
      /\ \A q \in Runs \ {r} : UNCHANGED <<pc[q], list[q]>>
  BY DEF Fetch, TypeOK
<1>2. fetched \in [Items -> States \cup {Null}]
  BY DEF TypeOK, Upstream
<1> HIDE DEF fetched
<1>3. list' \in [Runs -> [Items -> States \cup {Null}] \cup {Null}] /\ list'[r] = fetched
  BY <1>1, <1>2 DEF TypeOK
<1>4. TypeOK'
  BY <1>1, <1>3 DEF TypeOK, db
<1>5. RunInv'
  BY <1>1 DEF RunInv, Full
<1>6. ListInv'
  <2>1. \A i \in Items : fetched[i] = IF Listed(r, i) THEN upstream[i].state ELSE Null
    BY DEF fetched
  <2>2. \A q \in Runs, i \in Items : Listed(q, i)' = Listed(q, i)
    BY <1>1 DEF Listed, Full
  <2>3. QED BY <1>1, <1>2, <1>3, <2>1, <2>2 DEF ListInv
<1>7. DoneInv'
  BY <1>1 DEF DoneInv, Full, Mirrored, Visible, db
<1>8. CaughtUp'
  BY <1>1 DEF CaughtUp, Settled, Visible, db
<1>9. QED BY <1>4, <1>5, <1>6, <1>7, <1>8
------------------------------------------------------------------------------
(* A day is written and recorded. *)

(* Nothing that was done is undone, and everything up to the day is done. *)
LEMMA AppliedDays ==
  ASSUME IInv, NEW r \in Runs, Apply(r), NEW i \in Places
  PROVE  /\ upstream[i].modified <= day[r] => Mirrored(i)'
         /\ upstream[i].modified < today /\ Mirrored(i) => Mirrored(i)'
<1> USE DEF IInv
<1>1. /\ pc[r] = "apply" /\ row' = Written(r) /\ UNCHANGED upstream
      /\ today \in Nat /\ upstream[i].modified \in Nat
      /\ day[r] \in 1..(today - 1)
  BY TodayIsNat, ItemsAre, MaxDayAssumption DEF Apply, RunInv, TypeOK, Upstream
<1>2. ASSUME upstream[i].modified < today
      PROVE  /\ Full(r) \/ upstream[i].modified = day[r] => Mirrored(i)'
             /\ ~Full(r) /\ upstream[i].modified # day[r] => row'[i] = row[i]
  BY <1>1, <1>2, PlaceWritten
<1>3. row'[i] = row[i] => (Mirrored(i)' <=> Mirrored(i))
  BY <1>1 DEF Mirrored, Visible
<1>4. ~Full(r) /\ upstream[i].modified < day[r] => Mirrored(i)
  BY <1>1 DEF DoneInv
<1>5. upstream[i].modified <= day[r] => upstream[i].modified < today
  BY <1>1
<1>6. QED BY <1>1, <1>2, <1>3, <1>4, <1>5

LEMMA Applies ==
  ASSUME IInv, NEW r \in Runs, Apply(r)
  PROVE  IInv'
<1> USE DEF IInv
<1>1. /\ pc[r] = "apply" /\ row' = Written(r) /\ last' = day[r] /\ UNCHANGED <<upstream, today>>
      /\ today \in Nat /\ today >= 2
      /\ day[r] \in 1..(today - 1)
      /\ Full(r) => goal[r] = 0
      /\ ~Full(r) => goal[r] = today - 1
      /\ list[r] \in [Items -> States \cup {Null}]
  BY TodayIsNat DEF Apply, RunInv, ListInv, Full, Never
<1>2. \A i \in Places : upstream[i].modified \in Nat
  <2>1. \A i \in Items : upstream[i] \in Upstream
    BY DEF TypeOK
  <2>2. \A i \in Items : upstream[i].modified \in 1..MaxDay
    BY <2>1 DEF Upstream
  <2>3. 1..MaxDay \subseteq Nat
    BY MaxDayAssumption
  <2>4. QED BY <2>2, <2>3, ItemsAre
<1>3. row' \in [Items -> Row \cup {Null}]
  BY <1>1, WrittenIsTable
<1>4. \A i \in Places : Mirrored(i)' <=> (Visible(i)' <=> upstream[i].state = "shown")
  BY <1>1 DEF Mirrored
<1>5. CaughtUp'
  <2>1. ASSUME NEW i \in Places, Settled(i)' PROVE Mirrored(i)'
    BY <1>1, <2>1, AppliedDays DEF Settled
  <2>2. QED BY <2>1 DEF CaughtUp, Mirrored
<1>6. ASSUME NEW q \in Runs \ {r}, pc[q] # "idle", ~Full(q), NEW i \in Places,
             upstream[i].modified < day[q]
      PROVE  Mirrored(i)'
  <2>1. Mirrored(i) /\ day[q] \in 1..(today - 1)
    BY <1>6 DEF DoneInv, RunInv
  <2>2. upstream[i].modified < today
    BY <1>1, <1>2, <1>6, <2>1
  <2>3. QED BY <2>1, <2>2, AppliedDays
<1>7. CASE EndRun(r)
  <2>1. TypeOK'
    BY <1>1, <1>3, <1>7, EndRunTypes DEF TypeOK
  <2>2. RunInv'
    BY <1>1, <1>7, EndRunTypes DEF RunInv, Full
  <2>3. ListInv'
    BY <1>1, <1>7, EndRunTypes DEF ListInv, Full, Listed
  <2>4. DoneInv'
    BY <1>1, <1>6, <1>7, EndRunTypes DEF DoneInv, Full
  <2>5. QED BY <1>5, <2>1, <2>2, <2>3, <2>4
<1>8. CASE day[r] < goal[r] /\ NextDay(r)
  <2>1. ~Full(r) /\ goal[r] = today - 1 /\ day[r] + 1 \in 1..(today - 1)
    BY <1>1, <1>8
  <2>2. /\ pc' \in [Runs -> {"idle", "fetch", "apply"}] /\ pc'[r] = "fetch"
        /\ day' \in [Runs -> 0..(today - 1)] /\ day'[r] = day[r] + 1
        /\ list' \in [Runs -> [Items -> States \cup {Null}] \cup {Null}]
        /\ UNCHANGED goal
        /\ \A q \in Runs \ {r} : UNCHANGED <<pc[q], day[q], list[q]>>
    BY <1>1, <1>8, <2>1 DEF NextDay, TypeOK
  <2>3. TypeOK'
    BY <1>1, <1>3, <2>2 DEF TypeOK
  <2>4. RunInv'
    BY <1>1, <2>1, <2>2 DEF RunInv, Full
  <2>5. ListInv'
    BY <1>1, <2>2 DEF ListInv, Full, Listed
  <2>6. DoneInv'
    <3>1. ASSUME NEW i \in Places, upstream[i].modified < day[r] + 1 PROVE Mirrored(i)'
      BY <1>1, <1>2, <3>1, AppliedDays
    <3>2. ASSUME NEW q \in Runs, (pc[q] # "idle" /\ ~Full(q))', NEW i \in Places,
                 (upstream[i].modified < day[q])'
          PROVE  Mirrored(i)'
      <4>1. CASE q = r
        BY <1>1, <2>2, <3>1, <3>2, <4>1
      <4>2. CASE q # r
        BY <1>1, <1>6, <2>2, <3>2, <4>2 DEF Full
      <4>3. QED BY <4>1, <4>2
    <3>3. QED BY <3>2 DEF DoneInv
  <2>7. QED BY <1>5, <2>3, <2>4, <2>5, <2>6
<1>9. QED BY <1>7, <1>8 DEF Apply

------------------------------------------------------------------------------
(* The provider and the clock *)

(* What is modified now is modified today, and today is not settled. *)
LEMMA Modifies ==
  ASSUME IInv, NEW i \in Items, NEW s \in States, Modify(i, s)
  PROVE  IInv'
<1> USE DEF IInv
<1>1. /\ today \in Nat /\ today \in 1..MaxDay /\ last \in Nat /\ last < today
      /\ UNCHANGED <<db, today, pc, day, goal, list>>
      /\ upstream' \in [Items -> Upstream]
      /\ upstream'[i].modified = today
      /\ \A j \in Items \ {i} : upstream'[j] = upstream[j]
  <2>1. [state |-> s, modified |-> today] \in Upstream
    BY TodayIsNat, MaxDayAssumption DEF TypeOK, Upstream
  <2>2. QED BY <2>1, TodayIsNat, MaxDayAssumption DEF Modify, TypeOK
<1>2. TypeOK'
  BY <1>1 DEF TypeOK, db
<1>3. RunInv'
  BY <1>1 DEF RunInv, Full
<1>4. ListInv'
  <2>1. ASSUME NEW q \in Runs, pc[q] = "apply", NEW j \in Items, upstream'[j].modified < today
        PROVE  list[q][j] = IF Listed(q, j)' THEN upstream'[j].state ELSE Null
    BY <1>1, <2>1 DEF ListInv, Listed, Full
  <2>2. QED BY <1>1, <2>1 DEF ListInv
<1>5. \A j \in Places \ {i} : /\ j \in Items /\ upstream'[j] = upstream[j]
                              /\ Mirrored(j)' <=> Mirrored(j)
  BY <1>1, ItemsAre DEF Mirrored, Visible, db
<1>6. DoneInv'
  <2>1. ASSUME NEW q \in Runs, pc[q] # "idle", ~Full(q), NEW j \in Places,
               upstream'[j].modified < day[q]
        PROVE  Mirrored(j)'
    <3>1. day[q] \in 1..(today - 1)
      BY <2>1 DEF RunInv
    <3>2. j # i
      BY <1>1, <2>1, <3>1
    <3>3. QED BY <1>5, <2>1, <3>2 DEF DoneInv
  <2>2. QED BY <1>1, <2>1 DEF DoneInv, Full
<1>7. CaughtUp'
  <2>1. ASSUME NEW j \in Places, Settled(j)' PROVE Mirrored(j)'
    <3>1. j # i
      BY <1>1, <2>1 DEF Settled, db
    <3>2. Mirrored(j)
      BY <1>1, <1>5, <2>1, <3>1 DEF CaughtUp, Settled, Mirrored, db
    <3>3. QED BY <1>5, <3>1, <3>2
  <2>2. QED BY <2>1 DEF CaughtUp, Mirrored
<1>8. QED BY <1>2, <1>3, <1>4, <1>6, <1>7

(* No run sees the day change. *)
LEMMA Dawns == ASSUME IInv, NewDay PROVE IInv'
<1> USE DEF IInv
<1>1. /\ UNCHANGED <<db, upstream, pc, day, goal, list>>
      /\ \A r \in Runs : pc[r] = "idle"
      /\ today \in Nat /\ today' \in 2..MaxDay /\ today' = today + 1
  BY TodayIsNat, MaxDayAssumption DEF NewDay
<1>2. TypeOK'
  BY <1>1 DEF TypeOK, db
<1>3. RunInv' /\ ListInv' /\ DoneInv'
  BY <1>1 DEF RunInv, ListInv, DoneInv
<1>4. CaughtUp'
  BY <1>1 DEF CaughtUp, Settled, Visible, db
<1>5. QED BY <1>2, <1>3, <1>4

LEMMA Stutters == ASSUME IInv, UNCHANGED vars PROVE IInv'
<1> USE DEF IInv
<1>1. TypeOK' /\ CaughtUp'
  BY DEF vars, db, TypeOK, CaughtUp, Settled, Visible
<1>2. RunInv' /\ ListInv'
  BY DEF vars, db, RunInv, ListInv, Listed, Full
<1>3. DoneInv'
  BY DEF vars, db, DoneInv, Mirrored, Visible, Full
<1>4. QED BY <1>1, <1>2, <1>3

LEMMA Inductive == Spec => []IInv
<1>1. IInv /\ [Next]_vars => IInv'
  <2> SUFFICES ASSUME IInv, [Next]_vars PROVE IInv'
    OBVIOUS
  <2>1. ASSUME NEW r \in Runs, Refuse(r) \/ Fail(r) PROVE IInv'
    BY <2>1, Ends DEF Refuse, Fail
  <2>2. QED BY <2>1, Starts, Fetches, Applies, Modifies, Dawns, Stutters DEF Next
<1>2. QED BY <1>1, Initially, PTL DEF Spec

(* Every variable keeps its type; the recorded date is before today. *)
THEOREM TypeCorrect == Spec => []TypeOK
<1>1. IInv => TypeOK
  BY DEF IInv
<1>2. QED BY <1>1, Inductive, PTL

(* "Failed dates are processed again, in order": whatever runs fail, overlap *)
(* or fall behind, the places show what the provider shows, for everything   *)
(* modified up to the recorded date.                                         *)
THEOREM NoDaySkipped == Spec => []CaughtUp
<1>1. IInv => CaughtUp
  BY DEF IInv
<1>2. QED BY <1>1, Inductive, PTL
==============================================================================
