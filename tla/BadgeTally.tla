------------------------------ MODULE BadgeTally ------------------------------
(***************************************************************************)
(* The loop of badge_progress (app/services/badge_rules.py): the rows come *)
(* in the order the database chooses (the query has no ORDER BY), several  *)
(* per course, and each adds its course to the groups the chain of ifs     *)
(* selects.  BadgeRules says what the groups are without the loop.         *)
(***************************************************************************)
EXTENDS BadgeRules

CONSTANT Facts       \* the rows of the completed missions

VARIABLES rows,      \* rows already read
          groups     \* metric -> members of its set

tallyVars == <<rows, groups>>

TallyInit == rows = {} /\ groups = [metric \in Metrics |-> {}]

(* Mutant: the environment is looked at only when the sport is not a group. *)
JoinsElif(fact, metric) ==
    LET played == MissionSport(fact)
    IN \/ metric = "missions"
       \/ metric = "mountains" /\ fact.mountain
       \/ metric \in {"trekking", "cycling", "running"} /\ metric = played.sport
       \/ metric = "snow" /\ played.sport \in {"ski", "snowboard"}
       \/ metric = "marine" /\ played.setting = "marine"
            /\ played.sport \notin {"surfing", "trekking", "cycling", "running"}
       \/ metric = "inland_water" /\ played.setting = "inland"

(* The groups of courses a row's course joins. *)
Joins(fact, metric) ==
    LET played == MissionSport(fact)
    IN \/ metric = "missions"
       \/ metric = "mountains" /\ fact.mountain
       \/ metric \in {"trekking", "cycling", "running"} /\ metric = played.sport
       \/ metric = "snow" /\ played.sport \in {"ski", "snowboard"}
       \/ metric = "marine" /\ played.setting = "marine"
       \/ metric = "inland_water" /\ played.setting = "inland"

Read(fact) ==
    /\ rows' = rows \cup {fact}
    /\ groups' = [metric \in Metrics |->
          IF metric = "sports"
          THEN groups[metric] \cup ({MissionSport(fact).sport} \ {None})
          ELSE groups[metric] \cup {c \in {fact.course} : Joins(fact, metric)}]

TallyNext == \E fact \in Facts \ rows : Read(fact)

TallySpec == TallyInit /\ [][TallyNext]_tallyVars

------------------------------------------------------------------------------
(* After any prefix of the rows, in any order, the loop has built exactly the *)
(* sets BadgeRules defines from the set of rows read so far.                  *)
LoopMatchesDefinition == groups = [metric \in Metrics |-> Group(rows, metric)]

(* One more completed mission never takes a badge away.  award_badges relies  *)
(* on it: badges are only ever added, so a rule that could be lost would      *)
(* leave a member with a badge the same facts no longer earn.                 *)
RulesNeverLost == [][EarnedBadgeRules(rows) \subseteq EarnedBadgeRules(rows')]_tallyVars

(* The counts of the badges for one sport or environment are of missions, not *)
(* of rows: a course with several stamps never counts twice towards three.    *)
ThreeTakesThreeMissions ==
    "trekking_three" \in EarnedBadgeRules(rows)
        => {"first_mission", "three_missions"} \subseteq EarnedBadgeRules(rows)
==============================================================================
