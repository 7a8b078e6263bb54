----------------------------- MODULE TourismSync -----------------------------
(***************************************************************************)
(* The daily synchronization of activities with the tourism API: run and   *)
(* _tourapi_day of app/jobs/sync_tourism.py, the repository's _sync_items, *)
(* hide_upstream_ids, record_sync and record_sync_error.  Runs are started *)
(* by the timer and by administrators, also at the same time.              *)
(*                                                                         *)
(* upstream is the provider's catalogue; row the activities with source    *)
(* "tourapi"; last the date of sync_state, Never before the first success. *)
(* A run is at day[r] with the days up to goal[r] to do; list[r] is what   *)
(* it has fetched for that day.  Days are numbered from 1.                 *)
(***************************************************************************)
EXTENDS Naturals

CONSTANTS Places, Festivals, Runs,
          MaxDay,      \* bound: the last day that dawns
          Null

ASSUME MaxDayAssumption == MaxDay \in Nat \ {0, 1}
ASSUME KindsAssumption == Places \cap Festivals = {}
ASSUME NullAssumption == Null \notin {"shown", "hidden", "outside"} /\ Null \notin [active : BOOLEAN, visible : BOOLEAN]

VARIABLES upstream, row, last, today, pc, day, goal, list

db == <<row, last>>
vars == <<db, upstream, today, pc, day, goal, list>>

------------------------------------------------------------------------------
Items == Places \cup Festivals
Never == 0

(* showflag 1 in Gangwon, showflag 0 in Gangwon, or in another province *)
States == {"shown", "hidden", "outside"}
Upstream == [state : States, modified : 1..MaxDay]
Row == [active : BOOLEAN, visible : BOOLEAN]
Known == [active |-> TRUE, visible |-> TRUE]

Visible(i) == row[i] # Null /\ row[i].active /\ row[i].visible

Init ==
    /\ today = 2
    /\ upstream \in [Items -> [state : States, modified : {1}]]
    /\ row \in [Items -> {Null, Known}]
    /\ last = Never
    /\ pc = [r \in Runs |-> "idle"]
    /\ day = [r \in Runs |-> Never]
    /\ goal = [r \in Runs |-> Never]
    /\ list = [r \in Runs |-> Null]

------------------------------------------------------------------------------
Full(r) == goal[r] = Never

(* Mutant: a run starts with yesterday, whatever was missed. *)
FirstYesterday == today - 1

(* The day after the last success; yesterday for the first time. *)
FirstDay == IF last = Never THEN today - 1 ELSE last + 1

(* Mutant: the range of days leaves out its end. *)
StartShort(r) ==
    /\ pc[r] = "idle"
    /\ FirstDay < today - 1
    /\ pc' = [pc EXCEPT ![r] = "fetch"]
    /\ day' = [day EXCEPT ![r] = FirstDay]
    /\ goal' = [goal EXCEPT ![r] = IF last = Never THEN Never ELSE today - 2]
    /\ UNCHANGED <<db, upstream, today, list>>

(* A goal of Never marks the first run, which takes the whole catalogue. *)
StartRun(r) ==
    /\ pc[r] = "idle"
    /\ FirstDay <= today - 1
    /\ pc' = [pc EXCEPT ![r] = "fetch"]
    /\ day' = [day EXCEPT ![r] = FirstDay]
    /\ goal' = [goal EXCEPT ![r] = IF last = Never THEN Never ELSE today - 1]
    /\ UNCHANGED <<db, upstream, today, list>>

(* areaBasedSyncList2, by area or by date of modification *)
Listed(r, i) == IF Full(r) THEN upstream[i].state # "outside"
                           ELSE upstream[i].modified = day[r]

Fetch(r) ==
    /\ pc[r] = "fetch"
    /\ pc' = [pc EXCEPT ![r] = "apply"]
    /\ list' = [list EXCEPT ![r] =
                  [i \in Items |-> IF Listed(r, i) THEN upstream[i].state ELSE Null]]
    /\ UNCHANGED <<db, upstream, today, day, goal>>

------------------------------------------------------------------------------
NewPlaces(r) == {i \in Places : list[r][i] = "shown"}

Hidden(r) == {i \in Items : list[r][i] \in {"hidden", "outside"}}

(* searchFestival2 is asked for the first and for yesterday's changes only. *)
ListedFestivals(r) ==
    IF Full(r) \/ day[r] = today - 1
    THEN {f \in Festivals : upstream[f].state = "shown"}
    ELSE {}

(* A festival without a flag in the list of changes keeps its visibility. *)
FestivalRow(r, f) ==
    [active |-> TRUE,
     visible |-> IF list[r][f] # Null THEN list[r][f] # "hidden"
                 ELSE row[f] = Null \/ row[f].visible]

Upserted(r, i) ==
    IF i \in NewPlaces(r) THEN Known
    ELSE IF i \in ListedFestivals(r) THEN FestivalRow(r, i)
    ELSE IF Full(r) /\ row[i] # Null THEN [row[i] EXCEPT !.active = FALSE]
    ELSE row[i]

Written(r) ==
    [i \in Items |->
       IF i \in Hidden(r) /\ Upserted(r, i) # Null
       THEN [Upserted(r, i) EXCEPT !.visible = FALSE]
       ELSE Upserted(r, i)]

EndRun(r) ==
    /\ pc' = [pc EXCEPT ![r] = "idle"]
    /\ day' = [day EXCEPT ![r] = Never]
    /\ goal' = [goal EXCEPT ![r] = Never]
    /\ list' = [list EXCEPT ![r] = Null]

NextDay(r) ==
    /\ pc' = [pc EXCEPT ![r] = "fetch"]
    /\ day' = [day EXCEPT ![r] = @ + 1]
    /\ list' = [list EXCEPT ![r] = Null]
    /\ UNCHANGED goal

(* The rows and the date are committed together. *)
Apply(r) ==
    /\ pc[r] = "apply"
    /\ Full(r) => NewPlaces(r) # {}
    /\ row' = Written(r)
    /\ last' = day[r]
    /\ IF day[r] < goal[r] THEN NextDay(r) ELSE EndRun(r)
    /\ UNCHANGED <<upstream, today>>

(* "No visible Gangwon places in tourism snapshot" *)
Refuse(r) ==
    /\ pc[r] = "apply"
    /\ Full(r) /\ NewPlaces(r) = {}
    /\ EndRun(r)
    /\ UNCHANGED <<db, upstream, today>>

(* A request, a list or a statement fails, or the process ends: the nested  *)
(* transaction is rolled back and the days that are left wait for a run.    *)
Fail(r) ==
    /\ pc[r] # "idle"
    /\ EndRun(r)
    /\ UNCHANGED <<db, upstream, today>>

------------------------------------------------------------------------------
(* The provider *)
Modify(i, s) ==
    /\ upstream[i].state # s
    /\ upstream' = [upstream EXCEPT ![i] = [state |-> s, modified |-> today]]
    /\ UNCHANGED <<db, today, pc, day, goal, list>>

(* Runs begin after 8 o'clock and do not last into the next day. *)
NewDay ==
    /\ today < MaxDay
    /\ \A r \in Runs : pc[r] = "idle"
    /\ today' = today + 1
    /\ UNCHANGED <<db, upstream, pc, day, goal, list>>

Next == \/ \E r \in Runs : StartRun(r) \/ Fetch(r) \/ Apply(r) \/ Refuse(r) \/ Fail(r)
        \/ \E i \in Items, s \in States : Modify(i, s)
        \/ NewDay

Spec == Init /\ [][Next]_vars

(* The timer starts a run every day, and the provider does not fail for ever. *)
FairSpec == Spec /\ \A r \in Runs : WF_vars(StartRun(r)) /\ SF_vars(Fetch(r))
                                      /\ SF_vars(Apply(r)) /\ WF_vars(Refuse(r))

------------------------------------------------------------------------------
TypeOK ==
    /\ upstream \in [Items -> Upstream]
    /\ row \in [Items -> Row \cup {Null}]
    /\ last \in 0..(today - 1)
    /\ today \in 2..MaxDay
    /\ pc \in [Runs -> {"idle", "fetch", "apply"}]
    /\ day \in [Runs -> 0..(today - 1)]
    /\ goal \in [Runs -> 0..(today - 1)]
    /\ list \in [Runs -> [Items -> States \cup {Null}] \cup {Null}]

Settled(i) == last # Never /\ upstream[i].modified <= last

(* "Failed dates are processed again, in order": once a date is recorded, the *)
(* members see exactly the places that the provider shows, for everything     *)
(* modified up to that date, whatever runs failed or ran at the same time.    *)
CaughtUp == \A i \in Places : Settled(i) => (Visible(i) <=> upstream[i].state = "shown")

(* The same for festivals: a change of a recorded date has been applied. *)
FestivalsCaughtUp ==
    \A f \in Festivals : Settled(f) /\ upstream[f].state = "shown" => Visible(f)

(* After any failures the synchronization reaches yesterday again, if the *)
(* province keeps a place to show (a first list without one is refused).  *)
CatchesUp ==
    <>[](\E i \in Places : upstream[i].state = "shown") => []<>(last = today - 1)
==============================================================================
