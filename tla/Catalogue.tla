------------------------------- MODULE Catalogue -------------------------------
(***************************************************************************)
(* The stamp catalogue: StampRepository.seed_catalog, by which an          *)
(* administrator gives every entry of the catalogue a place and a stamp,   *)
(* and three pages a member sees of them, written as separate queries: the *)
(* stamp book, the progress of the missions and the list of places.        *)
(*                                                                         *)
(* A seeding reads in the snapshot of its transaction and writes in one.   *)
(* The key (source, external_id) of a place does not hold for a source     *)
(* that is NULL, the key stamp_catalog_id of a stamp does.  Rows are        *)
(* numbered by AUTO_INCREMENT.                                             *)
(***************************************************************************)
EXTENDS Integers, FiniteSets, FiniteSetsExt

CONSTANTS Entries,     \* 1..n, the ids of the catalogue
          Courses, Seeders,
          MaxPlaces, MaxStamps,   \* bounds: rows ever made
          Null

VARIABLES activities,  \* id -> the entry it is named for, and whether it is visible
          stamps,      \* id -> its place and its entry
          courses,     \* course -> published, and the stamps of its course_stamps
          collected,   \* the stamps of the member
          made,        \* how many places and stamps have been numbered
          seeding,     \* what a seeding has read
          disturbed    \* entries whose stamp was deleted while a seeding ran (no column)

catalogueVars == <<activities, stamps, courses, collected, made, seeding, disturbed>>

CatalogueInit ==
    /\ activities = [i \in {} |-> Null] /\ stamps = [i \in {} |-> Null]
    /\ courses = [c \in Courses |-> [published |-> FALSE, stops |-> {}]]
    /\ collected = {}
    /\ made = [places |-> 0, stamps |-> 0]
    /\ seeding = [s \in Seeders |-> Null]
    /\ disturbed = {}

------------------------------------------------------------------------------
StampsOf(e, table) == {s \in DOMAIN table : table[s].entry = e}
PlacesOf(e, table) == {a \in DOMAIN table : table[a].entry = e}

(* What a seeding finds: the entries that have no stamp, each with its place, *)
(* or Null.  The last of several places of a name is kept by the dictionary.  *)
Findings ==
    [e \in {f \in Entries : StampsOf(f, stamps) = {}} |->
        IF PlacesOf(e, activities) = {} THEN Null ELSE Max(PlacesOf(e, activities))]

SeedRead(s) ==
    /\ seeding[s] = Null
    /\ seeding' = [seeding EXCEPT ![s] = Findings]
    /\ UNCHANGED <<activities, stamps, courses, collected, made, disturbed>>

Missing(s) == DOMAIN seeding[s]
Placeless(s) == {e \in Missing(s) : seeding[s][e] = Null}
Rank(e, set) == Cardinality({f \in set : f <= e})
PlaceFor(s, e) == IF e \in Placeless(s) THEN made.places + Rank(e, Placeless(s)) ELSE seeding[s][e]

(* No other stamp of the entry by now, and a place that is still there. *)
SeedAllowed(s) == \A e \in Missing(s) :
    /\ StampsOf(e, stamps) = {}
    /\ e \notin Placeless(s) => seeding[s][e] \in DOMAIN activities

NewPlaces(s) == [a \in {PlaceFor(s, e) : e \in Placeless(s)} |->
                    [entry |-> CHOOSE e \in Placeless(s) : PlaceFor(s, e) = a, visible |-> TRUE]]
NewStamps(s) == [i \in {made.stamps + Rank(e, Missing(s)) : e \in Missing(s)} |->
                    LET e == CHOOSE f \in Missing(s) : made.stamps + Rank(f, Missing(s)) = i
                    IN [activity |-> PlaceFor(s, e), entry |-> e]]
With(table, rows) == [i \in DOMAIN table \cup DOMAIN rows |->
                         IF i \in DOMAIN rows THEN rows[i] ELSE table[i]]

SeedWrite(s) ==
    /\ seeding[s] # Null /\ SeedAllowed(s)
    /\ made.places + Cardinality(Placeless(s)) <= MaxPlaces
    /\ made.stamps + Cardinality(Missing(s)) <= MaxStamps
    /\ activities' = With(activities, NewPlaces(s))
    /\ stamps' = With(stamps, NewStamps(s))
    /\ made' = [places |-> made.places + Cardinality(Placeless(s)),
                stamps |-> made.stamps + Cardinality(Missing(s))]
    /\ seeding' = [seeding EXCEPT ![s] = Null]
    /\ UNCHANGED <<courses, collected, disturbed>>

(* Mutant: the new places are committed before their stamps are refused. *)
SeedFailKept(s) ==
    /\ seeding[s] # Null /\ ~SeedAllowed(s)
    /\ made.places + Cardinality(Placeless(s)) <= MaxPlaces
    /\ activities' = With(activities, NewPlaces(s))
    /\ made' = [made EXCEPT !.places = @ + Cardinality(Placeless(s))]
    /\ seeding' = [seeding EXCEPT ![s] = Null]
    /\ UNCHANGED <<stamps, courses, collected, disturbed>>

(* The key of the stamps, or a place deleted meanwhile: everything is rolled back. *)
SeedFail(s) ==
    /\ seeding[s] # Null /\ ~SeedAllowed(s)
    /\ seeding' = [seeding EXCEPT ![s] = Null]
    /\ UNCHANGED <<activities, stamps, courses, collected, made, disturbed>>

------------------------------------------------------------------------------
(* A stamp without an entry, made by an administrator. *)
AddStamp(a) ==
    /\ a \in DOMAIN activities /\ made.stamps < MaxStamps
    /\ made' = [made EXCEPT !.stamps = @ + 1]
    /\ stamps' = With(stamps, [i \in {made.stamps + 1} |-> [activity |-> a, entry |-> Null]])
    /\ UNCHANGED <<activities, courses, collected, seeding, disturbed>>

(* ON DELETE CASCADE of the stops and of the collected stamps. *)
Cascade(gone) ==
    /\ stamps' = [i \in DOMAIN stamps \ gone |-> stamps[i]]
    /\ courses' = [c \in Courses |-> [courses[c] EXCEPT !.stops = @ \ gone]]
    /\ collected' = collected \ gone

RemoveStamp(i) ==
    /\ i \in DOMAIN stamps /\ Cascade({i})
    /\ disturbed' = IF \E s \in Seeders : seeding[s] # Null
                    THEN disturbed \cup {stamps[i].entry} ELSE disturbed
    /\ UNCHANGED <<activities, made, seeding>>

(* DELETE of a place the API can see. *)
RemoveActivity(a) ==
    /\ a \in DOMAIN activities /\ activities[a].visible
    /\ activities' = [i \in DOMAIN activities \ {a} |-> activities[i]]
    /\ Cascade({i \in DOMAIN stamps : stamps[i].activity = a})
    /\ UNCHANGED <<made, seeding, disturbed>>

Toggle(a) ==
    /\ a \in DOMAIN activities
    /\ activities' = [activities EXCEPT ![a].visible = ~@]
    /\ UNCHANGED <<stamps, courses, collected, made, seeding, disturbed>>

EditCourse(c) ==
    /\ \/ courses' = [courses EXCEPT ![c].published = ~@]
       \/ \E i \in DOMAIN stamps :
             courses' = [courses EXCEPT ![c].stops = IF i \in @ THEN @ \ {i} ELSE @ \cup {i}]
    /\ UNCHANGED <<activities, stamps, collected, made, seeding, disturbed>>

Collect(i) ==
    /\ i \in DOMAIN stamps \ collected
    /\ collected' = collected \cup {i}
    /\ UNCHANGED <<activities, stamps, courses, made, seeding, disturbed>>

CatalogueNext ==
    \/ \E s \in Seeders : SeedRead(s) \/ SeedWrite(s) \/ SeedFail(s)
    \/ \E a \in 1..MaxPlaces : AddStamp(a) \/ RemoveActivity(a) \/ Toggle(a)
    \/ \E i \in 1..MaxStamps : RemoveStamp(i) \/ Collect(i)
    \/ \E c \in Courses : EditCourse(c)

CatalogueSpec == CatalogueInit /\ [][CatalogueNext]_catalogueVars

------------------------------------------------------------------------------
(* The pages of the member. *)
VisibleCourse(c) == \A i \in courses[c].stops : activities[stamps[i].activity].visible
Open(c) == courses[c].published /\ VisibleCourse(c)

(* StampbookRepository._catalog_status: a row for every entry and stamp of it. *)
Book == {row \in Entries \X (DOMAIN stamps \cup {Null}) :
            IF row[2] = Null THEN StampsOf(row[1], stamps) = {} ELSE stamps[row[2]].entry = row[1]}

(* Mutant: a course with a hidden stop makes its stamps available. *)
AvailableHidden(i) == i # Null /\ \E c \in Courses : i \in courses[c].stops /\ courses[c].published

Available(i) == i # Null /\ \E c \in Courses : i \in courses[c].stops /\ Open(c)
Status(i) == IF i \in collected THEN "collected" ELSE IF Available(i) THEN "available" ELSE "locked"

(* The courses the book lists with a stamp, from a join of its own. *)
published_courses(i) == {c \in Courses : i # Null /\ i \in courses[c].stops /\ Open(c)}

Summary == [status \in {"collected", "available", "locked"} |->
               Cardinality({row \in Book : Status(row[2]) = status})]

(* PassportRepository.mission_progress *)
mission_progress == {c \in Courses : courses[c].published}
Completed(c) == courses[c].stops # {}
                /\ Cardinality(courses[c].stops \cap collected) = Cardinality(courses[c].stops)

(* ActivityRepository.explore: the filter mission, and the mark has_mission *)
(* of an item, which does not ask whether the course is visible.  The list  *)
(* leaves out places that have ended, or are outside or spelled twice       *)
(* (SourceSync!Available); places of the catalogue are none of these.       *)
Offered(a) == \E i \in DOMAIN stamps : stamps[i].activity = a /\ published_courses(i) # {}
has_mission(a) == \E i \in DOMAIN stamps, c \in Courses :
                     stamps[i].activity = a /\ i \in courses[c].stops /\ courses[c].published

(* However many seedings overlap, with one another and with places deleted, *)
(* an entry has at most one place, and its stamp is of that place: the      *)
(* second seeding of an entry fails as a whole.  Only a seeding that read   *)
(* before the entry had a place, and writes after its stamp was deleted     *)
(* again, makes a second place: no key of the tables forbids that.          *)
SeededOnce == \A e \in Entries \ disturbed :
    /\ Cardinality(PlacesOf(e, activities)) <= 1
    /\ \A i \in StampsOf(e, stamps) : PlacesOf(e, activities) = {stamps[i].activity}

(* The pages agree: the book has one row for an entry and its counts add up; *)
(* it lists a course with every available and with no locked stamp, whose    *)
(* place the list then shows with a mission; and the stamps of a completed   *)
(* mission are collected ones.                                               *)
PagesAgree ==
    /\ Cardinality(Book) = Cardinality(Entries)
    /\ Summary["collected"] + Summary["available"] + Summary["locked"] = Cardinality(Entries)
    /\ \A row \in Book :
         /\ Status(row[2]) = "available" =>
               /\ published_courses(row[2]) # {}
               /\ \A a \in {stamps[row[2]].activity} :
                     activities[a].visible /\ Offered(a) /\ has_mission(a)
         /\ Status(row[2]) = "locked" => published_courses(row[2]) = {}
    /\ \A c \in mission_progress : Completed(c) =>
         \A i \in courses[c].stops : Status(i) = "collected"
==============================================================================
