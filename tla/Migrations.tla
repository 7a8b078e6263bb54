------------------------------ MODULE Migrations ------------------------------
(***************************************************************************)
(* The revisions of alembic/versions that rewrite missions, and what they  *)
(* do to the stamps, proofs and badges members have by then.  `version` is *)
(* the number of the last revision applied; revisions that leave this data *)
(* alone are passed over.  An upgrade or a downgrade of one revision is a  *)
(* transaction: one that raises changes nothing, so it is no step here.    *)
(* Between two revisions the service runs: members send proofs, reviewers  *)
(* approve them and administrators edit rows.                              *)
(*                                                                         *)
(* A mission is a course, named by its title, and its course_stamps.  The  *)
(* catalogue entry, the place and the title of a mission share a name:     *)
(* "marathon" (Hongcheon ATHLETICS), "museum" (Pyeongchang OLYMPIC), those *)
(* of PhotoMissions (0033) and those of BadgeMissions (0044).              *)
(***************************************************************************)
EXTENDS Integers, FiniteSets, Functions

CONSTANTS Members,
          PhotoMissions, BadgeMissions,   \* the MISSIONS of 0033 and of 0044
          MaxStamps,                      \* bound: the stamps there are at once
          MaxProofs,                      \* bound: the proofs there are at once
          Null

VARIABLES version,
          stamps,     \* id -> the place, and the catalogue entry or Null
          courses,    \* title -> published and closed
          links,      \* course_stamps: <<title, stamp>>
          proofs,     \* stamp_submissions: <<member, stamp>>
          collected,  \* collected_stamps: <<member, stamp>>
          badges,     \* rule_key -> the id of the badge, Null when there is none
          earned      \* collected_badges: <<member, badge>>

migrationVars == <<version, stamps, courses, links, proofs, collected, badges, earned>>

Entries == {"marathon", "museum"} \cup PhotoMissions \cup BadgeMissions
Revisions == {12, 13, 15, 17, 33, 38, 44, 50, 51, 52}
ExplorerKeys == {"three_regions", "three_missions"}

MigrationInit ==
    /\ version = 12
    /\ stamps = [s \in {} |-> Null] /\ courses = [t \in {} |-> Null]
    /\ links = {} /\ proofs = {} /\ collected = {}
    /\ badges = [k \in ExplorerKeys |-> Null] /\ earned = {}

------------------------------------------------------------------------------
Free == (1..MaxStamps) \ DOMAIN stamps
NewStamp == CHOOSE s \in Free : TRUE
At(place) == {s \in DOMAIN stamps : stamps[s].place = place}
OfEntry(e) == {s \in DOMAIN stamps : stamps[s].entry = e}
EventOwn(table) == {s \in DOMAIN table : table[s].place = "marathon" /\ table[s].entry = Null}
Moved(s, place) == [stamps EXCEPT ![s].place = place]
WithStamp(s, place, entry) == [i \in DOMAIN stamps \cup {s} |->
    IF i = s THEN [place |-> place, entry |-> entry] ELSE stamps[i]]
WithCourses(titles) == [t \in DOMAIN courses \cup titles |->
    IF t \in DOMAIN courses THEN courses[t] ELSE [published |-> TRUE, closed |-> FALSE]]

(* ON DELETE CASCADE *)
WithoutStamps(gone) ==
    /\ stamps' = Restrict(stamps, DOMAIN stamps \ gone)
    /\ proofs' = {p \in proofs : p[2] \notin gone}
    /\ collected' = {c \in collected : c[2] \notin gone}

Passed(from, to) == version = from /\ version' = to

------------------------------------------------------------------------------
(* 0013: a stamp at the marathon's place unless it has one, and a mission. *)
Up13 ==
    /\ Passed(12, 13)
    /\ IF At("marathon") # {} THEN stamps' = stamps
       ELSE Free # {} /\ stamps' = WithStamp(NewStamp, "marathon", Null)
    /\ courses' = WithCourses({"marathon"})
    /\ links' = links \cup {<<"marathon", s>> : s \in {i \in DOMAIN stamps' : stamps'[i].place = "marathon"}}
    /\ UNCHANGED <<proofs, collected, badges, earned>>

Down13 ==
    /\ Passed(13, 12)
    /\ courses' = Restrict(courses, DOMAIN courses \ {"marathon"})
    /\ links' = {l \in links : l[1] # "marathon" /\ l[2] \notin EventOwn(stamps)}
    /\ WithoutStamps(EventOwn(stamps))
    /\ UNCHANGED <<badges, earned>>

(* 0015: the Olympic stamp goes to the museum, or is made there. *)
Up15 ==
    /\ Passed(13, 15)
    /\ IF OfEntry("museum") # {} THEN \E s \in OfEntry("museum") : stamps' = Moved(s, "museum")
       ELSE Free # {} /\ stamps' = WithStamp(NewStamp, "museum", "museum")
    /\ courses' = WithCourses({"museum"})
    /\ links' = links \cup {<<"museum", s>> : s \in {i \in DOMAIN stamps' : stamps'[i].entry = "museum"}}
    /\ UNCHANGED <<proofs, collected, badges, earned>>

Down15 ==
    /\ Passed(15, 13)
    /\ courses' = Restrict(courses, DOMAIN courses \ {"museum"})
    /\ links' = {l \in links : l[1] # "museum"}
    /\ UNCHANGED <<stamps, proofs, collected, badges, earned>>

(* 0017, the catalogue has the athletics stamp c: it goes to the marathon's *)
(* place, and what members have of the place's own stamps becomes c's.      *)
Canonical(rows, c) == {IF r[2] \in EventOwn(stamps) THEN <<r[1], c>> ELSE r : r \in rows}
(* Mutant: the old rows are deleted and the copies are forgotten. *)
MoveProgressOfProofs(c) ==
    /\ proofs' = Canonical(proofs, c)
    /\ collected' = {r \in collected : r[2] \notin EventOwn(stamps)}

MoveProgress(c) ==
    /\ proofs' = Canonical(proofs, c)
    /\ collected' = Canonical(collected, c)

Merge17(c) ==
    /\ c \in OfEntry("marathon")
    /\ MoveProgress(c)
    /\ stamps' = Restrict(Moved(c, "marathon"), DOMAIN stamps \ EventOwn(stamps))
    /\ links' = {l \in links : l[1] # "marathon" /\ l[2] \notin EventOwn(stamps)}
                \cup {<<t, c>> : t \in {"marathon"} \cap DOMAIN courses}

(* 0017 without it: the place's own stamp becomes the catalogue's.  Two of *)
(* them would share the unique key: the revision raises.                   *)
Promote17 ==
    /\ OfEntry("marathon") = {} /\ Cardinality(EventOwn(stamps)) <= 1
    /\ stamps' = [s \in DOMAIN stamps |-> IF s \in EventOwn(stamps)
                     THEN [stamps[s] EXCEPT !.entry = "marathon"] ELSE stamps[s]]
    /\ links' = {l \in links : l[1] # "marathon"}
                \cup {<<t, s>> : t \in {"marathon"} \cap DOMAIN courses, s \in EventOwn(stamps)}
    /\ UNCHANGED <<proofs, collected>>

Up17 ==
    /\ Passed(15, 17)
    /\ Promote17 \/ \E c \in DOMAIN stamps : Merge17(c)
    /\ UNCHANGED <<courses, badges, earned>>

Down17 == Passed(17, 15) /\ UNCHANGED <<stamps, courses, links, proofs, collected, badges, earned>>

(* 0033 and 0044: each mission takes the stamp of its entry, which must be *)
(* there and in no other mission, to its place.  The missions differ in    *)
(* their entries: looking all of them up first (0044) or one by one (0033, *)
(* whose transaction a later one undoes) is the same.                      *)
Taken(m) == \E l \in links : stamps[l[2]].entry = m /\ l[1] # m
AddMissions(missions) ==
    /\ \A m \in missions : OfEntry(m) # {} /\ ~Taken(m)
    /\ stamps' = [s \in DOMAIN stamps |-> IF stamps[s].entry \in missions
                     THEN [stamps[s] EXCEPT !.place = stamps[s].entry] ELSE stamps[s]]
    /\ courses' = WithCourses(missions)
    /\ links' = links \cup {<<stamps[s].entry, s>> : s \in {i \in DOMAIN stamps : stamps[i].entry \in missions}}
    /\ UNCHANGED <<proofs, collected, badges, earned>>

Unpublish(missions) ==
    /\ courses' = [t \in DOMAIN courses |->
                      [courses[t] EXCEPT !.published = @ /\ t \notin missions]]
    /\ UNCHANGED <<stamps, links, proofs, collected, badges, earned>>

Up33 == Passed(17, 33) /\ AddMissions(PhotoMissions)
Down33 == Passed(33, 17) /\ Unpublish(PhotoMissions)
Up44 == Passed(38, 44) /\ AddMissions(BadgeMissions)
Down44 == Passed(44, 38) /\ Unpublish(BadgeMissions)

(* 0038: the Explorer badge gets its new key and keeps its id, unless both *)
(* keys have a badge; a key that has none gets one.                        *)
Renamed == badges["three_regions"] # Null /\ badges["three_missions"] = Null
Explorer38 == [three_regions |-> IF Renamed THEN Null ELSE badges["three_regions"],
               three_missions |-> IF Renamed THEN badges["three_regions"]
                                  ELSE IF badges["three_missions"] = Null THEN 2
                                  ELSE badges["three_missions"]]
Up38 ==
    /\ Passed(33, 38)
    /\ badges' = Explorer38
    /\ UNCHANGED <<stamps, courses, links, proofs, collected, earned>>

Down38 == Passed(38, 33) /\ UNCHANGED <<stamps, courses, links, proofs, collected, badges, earned>>

(* 0050 and 0051: the marathon's certification ends, and is taken up again. *)
SetClosed(closed) ==
    /\ courses' = [t \in DOMAIN courses |->
                      IF t = "marathon" /\ \E s \in At("marathon") : <<t, s>> \in links
                      THEN [courses[t] EXCEPT !.closed = closed] ELSE courses[t]]
    /\ UNCHANGED <<stamps, links, proofs, collected, badges, earned>>

Up50 == Passed(44, 50) /\ SetClosed(TRUE)
Up51 == Passed(50, 51) /\ SetClosed(FALSE)
Down51 == Passed(51, 50) /\ UNCHANGED <<stamps, courses, links, proofs, collected, badges, earned>>
(* 0052 makes the tables of the tee campaign. *)
Up52 == Passed(51, 52) /\ UNCHANGED <<stamps, courses, links, proofs, collected, badges, earned>>

(* Mutant: the revision that closes can be taken back by dropping the column. *)
IrreversibleButTables == {52}

(* 0050 and 0052 raise. *)
Irreversible == {50, 52}

Down50 ==
    /\ 50 \notin Irreversible /\ Passed(50, 44)
    /\ courses' = [t \in DOMAIN courses |-> [courses[t] EXCEPT !.closed = FALSE]]
    /\ UNCHANGED <<stamps, links, proofs, collected, badges, earned>>

------------------------------------------------------------------------------
(* The service between two revisions. *)
Submit(m, s) ==
    /\ s \in DOMAIN stamps /\ <<m, s>> \notin collected \cup proofs
    /\ \E t \in DOMAIN courses : <<t, s>> \in links /\ courses[t].published /\ ~courses[t].closed
    /\ Cardinality(proofs) < MaxProofs
    /\ proofs' = proofs \cup {<<m, s>>}
    /\ UNCHANGED <<version, stamps, courses, links, collected, badges, earned>>

Approve(m, s) ==
    /\ <<m, s>> \in proofs
    /\ collected' = collected \cup {<<m, s>>}
    /\ UNCHANGED <<version, stamps, courses, links, proofs, badges, earned>>

(* seed_catalog gives every entry without one a stamp; which id is whose is *)
(* of no consequence.                                                       *)
Lacking == {e \in Entries : OfEntry(e) = {}}
SeedCatalog ==
    /\ Lacking # {} /\ Injection(Lacking, Free) # {}
    /\ LET ids == CHOOSE f \in Injection(Lacking, Free) : TRUE
       IN  stamps' = [s \in DOMAIN stamps \cup Range(ids) |-> IF s \in Range(ids)
                         THEN [place |-> "elsewhere", entry |-> CHOOSE e \in Lacking : ids[e] = s]
                         ELSE stamps[s]]
    /\ UNCHANGED <<version, courses, links, proofs, collected, badges, earned>>

(* StampAdmin: a stamp at the marathon's place (bounds: while a revision   *)
(* that asks for such stamps may come, and when the place has none).       *)
AddEventStamp ==
    /\ version <= 15 /\ At("marathon") = {} /\ Free # {} /\ stamps' = WithStamp(NewStamp, "marathon", Null)
    /\ UNCHANGED <<version, courses, links, proofs, collected, badges, earned>>

(* CourseStampAdmin: a mission of the administrator's own takes a stamp   *)
(* (bounds: one does, before the revisions that look for such a mission).  *)
AddToOwnMission(s) ==
    /\ version = 17 /\ s \in DOMAIN stamps /\ "own" \notin DOMAIN courses
    /\ links' = links \cup {<<"own", s>>}
    /\ courses' = WithCourses({"own"})
    /\ UNCHANGED <<version, stamps, proofs, collected, badges, earned>>

(* BadgeAdmin and CollectedBadgeAdmin, before the catalogue of 0038 (bound: *)
(* since 0033; no earlier revision reads badges).                          *)
RegisterExplorer(k) ==
    /\ version = 33 /\ badges[k] = Null
    /\ badges' = [badges EXCEPT ![k] = IF k = "three_regions" THEN 1 ELSE 2]
    /\ UNCHANGED <<version, stamps, courses, links, proofs, collected, earned>>

EarnExplorer(m) ==
    /\ version = 33 /\ \E k \in ExplorerKeys : badges[k] # Null /\ earned' = earned \cup {<<m, badges[k]>>}
    /\ UNCHANGED <<version, stamps, courses, links, proofs, collected, badges>>

Upgrade == Up13 \/ Up15 \/ Up17 \/ Up33 \/ Up38 \/ Up44 \/ Up50 \/ Up51 \/ Up52
Downgrade == Down13 \/ Down15 \/ Down17 \/ Down33 \/ Down38 \/ Down44 \/ Down50 \/ Down51
Service ==
    \/ SeedCatalog \/ AddEventStamp
    \/ \E s \in 1..MaxStamps : AddToOwnMission(s) \/ \E m \in Members : Submit(m, s) \/ Approve(m, s)
    \/ \E k \in ExplorerKeys : RegisterExplorer(k)
    \/ \E m \in Members : EarnExplorer(m)

MigrationNext == Upgrade \/ Downgrade \/ Service
MigrationSpec == MigrationInit /\ [][MigrationNext]_migrationVars

------------------------------------------------------------------------------
Completed(m) == {t \in DOMAIN courses \cap Entries : {l \in links : l[1] = t} # {} /\
                    \A l \in links : l[1] = t => <<m, l[2]>> \in collected}
HoldsExplorer(m) ==
    \/ <<m, badges["three_missions"]>> \in earned
    \/ badges["three_missions"] = Null /\ <<m, badges["three_regions"]>> \in earned

(* No upgrade takes a mission of the revisions away from a member who had  *)
(* completed it, nor the Explorer badge, nor the last proof that was sent. *)
(* An administrator's own mission is left out: 0017 deletes the event's    *)
(* own stamp, and the cascade takes it out of that mission too.            *)
UpgradesKeepProgress == [][version' > version =>
    \A m \in Members :
        /\ Completed(m) \subseteq Completed(m)'
        /\ HoldsExplorer(m) => HoldsExplorer(m)'
        /\ {p \in proofs : p[1] = m} = {} <=> {p \in proofs' : p[1] = m} = {}]_migrationVars

(* A certification that 0050 closed is opened by 0051 and by no sequence of *)
(* downgrades and upgrades around it.                                      *)
ClosureStands == [][\A t \in DOMAIN courses : courses[t].closed =>
    t \in DOMAIN courses' /\ (courses'[t].closed \/ (version = 50 /\ version' = 51))]_migrationVars
===============================================================================
