------------------------------ MODULE BadgeRules ------------------------------
(***************************************************************************)
(* app/services/badge_rules.py: which badges a member has earned, computed *)
(* from the facts of the missions whose proofs were all approved.  A fact  *)
(* is one row of completed_mission_facts, one per stamp of the course.     *)
(* The sport labels and the identities of the missions are data.           *)
(***************************************************************************)
EXTENDS Naturals, FiniteSets

CONSTANTS SportAliases,     \* SPORT_ALIASES: sport -> set of labels
          OlympicLabels,    \* labels of an Olympic legacy course
          VerifiedMissions, \* VERIFIED_MISSION_SPORTS: identity -> sport and setting
          SpecialMissions,  \* SPECIAL_BADGE_MISSIONS: identity -> rule
          None

(* No alias belongs to two sports, so the inverted dictionary loses none. *)
ASSUME AliasAssumption ==
    \A s, t \in DOMAIN SportAliases :
        s # t => SportAliases[s] \cap SportAliases[t] = {}

(* normalize_sport: the sport a label is an alias of. *)
NormalizeSport(label) ==
    LET sports == {s \in DOMAIN SportAliases : label \in SportAliases[s]}
    IN IF sports = {} THEN None ELSE CHOOSE s \in sports : TRUE

Experience(sport, setting) == [sport |-> sport, setting |-> setting]

(* A generic label does not establish the environment; two sports do. *)
Setting(sport) == CASE sport = "surfing" -> "marine"
                    [] sport = "rafting" -> "inland"
                    [] OTHER -> None

MissionSport(fact) ==
    IF fact.identity \in DOMAIN VerifiedMissions
    THEN VerifiedMissions[fact.identity]
    ELSE IF fact.course_sport \in OlympicLabels
    THEN Experience(None, None)
    ELSE LET course == NormalizeSport(fact.course_sport)
             sport == IF course # None THEN course
                      ELSE NormalizeSport(fact.activity_sport)
         IN Experience(sport, Setting(sport))

------------------------------------------------------------------------------
(* The groups of badge_progress: what each metric counts. *)
CoursesOf(facts) == {f.course : f \in facts}

CoursesIn(facts, sports) ==
    CoursesOf({f \in facts : MissionSport(f).sport \in sports})
CoursesAt(facts, setting) ==
    CoursesOf({f \in facts : MissionSport(f).setting = setting})

Metrics == {"missions", "mountains", "trekking", "cycling", "running", "snow",
            "marine", "inland_water", "sports"}

Group(facts, metric) ==
    CASE metric = "missions"     -> CoursesOf(facts)
      [] metric = "mountains"    -> CoursesOf({f \in facts : f.mountain})
      [] metric = "snow"         -> CoursesIn(facts, {"ski", "snowboard"})
      [] metric = "marine"       -> CoursesAt(facts, "marine")
      [] metric = "inland_water" -> CoursesAt(facts, "inland")
      [] metric = "sports"       -> {MissionSport(f).sport : f \in facts} \ {None}
      [] OTHER                   -> CoursesIn(facts, {metric})

BadgeProgress(facts) == [metric \in Metrics |-> Cardinality(Group(facts, metric))]

------------------------------------------------------------------------------
Threshold == [first_mission      |-> [metric |-> "missions", minimum |-> 1],
              first_mountain     |-> [metric |-> "mountains", minimum |-> 1],
              three_missions     |-> [metric |-> "missions", minimum |-> 3],
              three_sports       |-> [metric |-> "sports", minimum |-> 3],
              trekking_three     |-> [metric |-> "trekking", minimum |-> 3],
              first_marine       |-> [metric |-> "marine", minimum |-> 1],
              first_inland_water |-> [metric |-> "inland_water", minimum |-> 1],
              first_snow         |-> [metric |-> "snow", minimum |-> 1],
              first_cycling      |-> [metric |-> "cycling", minimum |-> 1],
              first_running      |-> [metric |-> "running", minimum |-> 1]]

(* The special badges are not among those with a threshold. *)
ASSUME SpecialAssumption ==
    \A i \in DOMAIN SpecialMissions : SpecialMissions[i] \notin DOMAIN Threshold

SpecialRules(facts) ==
    {SpecialMissions[f.identity] :
        f \in {g \in facts : g.identity \in DOMAIN SpecialMissions}}

(* Mutant: the minimum is met only by the exact number. *)
EarnedExactly(facts) ==
    {rule \in DOMAIN Threshold :
        BadgeProgress(facts)[Threshold[rule].metric] = Threshold[rule].minimum}
    \cup SpecialRules(facts)

EarnedBadgeRules(facts) ==
    {rule \in DOMAIN Threshold :
        BadgeProgress(facts)[Threshold[rule].metric] >= Threshold[rule].minimum}
    \cup SpecialRules(facts)

Rules == DOMAIN Threshold \cup {SpecialMissions[i] : i \in DOMAIN SpecialMissions}
==============================================================================
