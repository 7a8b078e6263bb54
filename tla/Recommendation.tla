---------------------------- MODULE Recommendation ----------------------------
(***************************************************************************)
(* app/services/recommendation.py: a course of one sports experience and   *)
(* its neighbourhood, for a member's request or as an administrator's      *)
(* mission.  The repository's query gives candidates, a sample of them     *)
(* near one anchor is kept, a fallback course is planned, and a language   *)
(* model may replace it by one that passes the same rules.                 *)
(*                                                                         *)
(* A place is a record; x is where it lies on a road, in km, or Null.      *)
(* Distances are in tenths of a km, so that the road factors 1.3 and 1.6   *)
(* are the integers 13 and 16.                                             *)
(***************************************************************************)
EXTENDS Integers, FiniteSets, SequencesExt

CONSTANTS Places,        \* the rows of activities, as the service reads them
          Worlds,        \* the sets of places that may be visible at first
          Bodies,        \* [sigun, sport, theme, minutes, mission, visited]
          SportGroups,   \* SPORT_GROUPS: requested sport -> names of it
          SportAliases,  \* the aliases of normalize_sport: sport -> labels
          Primary, Foods, Sights,  \* the shares of the query's limit of 60
          MaxCoherent, MaxAI, MinTheme,   \* 30, 10 and 3
          Unreadable, Null

MaxLeg == 400
MaxStops == 5

(* Sampling ends: the anchor, a place of each purpose and the themed ones fit; *)
(* and what is reserved of each purpose lies before the cut.                   *)
ASSUME SampleAssumption ==
    /\ Primary \in Nat /\ Foods \in Nat /\ Sights \in Nat
    /\ MinTheme \in Nat /\ MaxAI \in Nat /\ MaxCoherent \in Nat
    /\ 4 + MinTheme <= MaxAI /\ MaxAI <= MaxCoherent /\ 6 <= MaxCoherent

(* Rows have ids of their own; what is not known of them is no number. *)
ASSUME PlacesAssumption ==
    /\ IsFiniteSet(Places) /\ Null \notin Int /\ Unreadable \notin Int
    /\ \A p \in Places : /\ p.id \in Int /\ p.x \in Int \cup {Null}
                          /\ p.duration \in Int \cup {Null, Unreadable}
                          /\ p.category \in {"tour", "sports", "event"}
    /\ \A p, q \in Places : p.id = q.id => p = q

ASSUME BodiesAssumption == \A b \in Bodies : b.minutes \in Int

VARIABLES shown,       \* places that are visible
          stamped,     \* places that have a stamp
          body, pc, candidates,
          starts, route, routes, fallback,   \* the search of the fallback
          stops,                             \* what the model's answer gave so far
          result, mission

vars == <<shown, stamped, body, pc, candidates, starts, route, routes, fallback,
          stops, result, mission>>

(* Tuples in the order in which Python compares them. *)
Less(v, w) == \E i \in DOMAIN v : v[i] < w[i] /\ \A j \in 1..(i - 1) : v[j] = w[j]

(* The members of a set by their keys, which differ. *)
Sorted(S, key) ==
    [n \in 1..Cardinality(S) |->
        CHOOSE p \in S : Cardinality({q \in S : Less(key[q], key[p])}) = n - 1]

(* The members of a sequence that are in a set. *)
Among(s, S) ==
    LET at == Sorted({i \in DOMAIN s : s[i] \in S}, [i \in DOMAIN s |-> <<i>>])
    IN [n \in DOMAIN at |-> s[at[n]]]

Seen(s) == {s[i].id : i \in DOMAIN s}
Ids(s) == [i \in DOMAIN s |-> s[i].id]
First(s, n) == SubSeq(s, 1, IF n < Len(s) THEN n ELSE Len(s))
Without(s, t) == Among(s, {p \in ToSet(s) : p.id \notin Seen(t)})

(* The sum of a sequence of numbers. *)
Sum(s) == LET upTo[i \in 0..Len(s)] == IF i = 0 THEN 0 ELSE upTo[i - 1] + s[i]
          IN upTo[Len(s)]

------------------------------------------------------------------------------
(* Places: their purpose, length, distance and theme *)

role(p) ==
    IF p.content = "39" THEN (IF p.cafe THEN "rest" ELSE "meal")
    ELSE IF p.category = "sports" \/ p.sport \in {"golf", "surfing", "marine", "ski", "rafting"}
    THEN "activity" ELSE "sightseeing"

SportNames(sport) == IF sport \in DOMAIN SportGroups THEN SportGroups[sport] ELSE {sport}
Normalized(label) == {s \in DOMAIN SportAliases : label \in SportAliases[s]}

SportsAnchor(p, sport) ==
    IF sport # Null
    THEN p.sport \in SportNames(sport) \/ Normalized(p.sport) \cap Normalized(sport) # {}
    ELSE \/ p.category = "sports"
         \/ Normalized(p.sport) # {}
         \/ p.sport \in SportNames("olympic_legacy") \cup SportNames("marine")

(* What the place's own data says, at least 1; else the default of its kind; *)
(* 60 when the data cannot be read.                                          *)
DefaultMinutes(p) ==
    CASE role(p) = "meal" -> 60
      [] role(p) = "rest" -> 30
      [] role(p) = "activity" /\ p.sport = "golf" -> 240
      [] role(p) = "activity" /\ p.sport \in {"marine", "surfing"} -> 120
      [] OTHER -> [tour |-> 45, sports |-> 90, event |-> 60][p.category]

Minutes(p) == CASE p.duration = Null -> DefaultMinutes(p)
                [] p.duration = Unreadable -> 60
                [] OTHER -> IF p.duration < 1 THEN 1 ELSE p.duration

Mountainous(p) == p.sport \in {"hiking", "mountain", "ski"}

Distance(p, q) ==
    IF p.id = q.id THEN 0
    ELSE IF p.x # Null /\ q.x # Null
    THEN (IF p.x < q.x THEN q.x - p.x ELSE p.x - q.x)
           * (IF Mountainous(p) \/ Mountainous(q) THEN 16 ELSE 13)
    ELSE IF p.sigun # Null /\ p.sigun = q.sigun THEN 100 ELSE Null

InReach(p, q) == Distance(p, q) # Null /\ Distance(p, q) <= MaxLeg

Reachable(p, q) == InReach(p, q)

(* 40 km an hour, at least ten minutes, rounded up. *)
TravelMinutes(p, q) ==
    LET minutes == (Distance(p, q) * 3 + 19) \div 20
    IN CASE Distance(p, q) = 0 -> 0
         [] minutes < 10 -> 10
         [] OTHER -> minutes

ThemeRelevance(p, theme) ==
    IF theme \in p.missions THEN 2
    ELSE IF (theme = "thrill" /\ p.category = "sports") \/ theme \in p.keywords THEN 1 ELSE 0

(* Lodging and shops never, undated festivals neither. *)
Recommendable(p) == p.content \notin {"32", "38"} /\ (p.content = "15" => p.dated)

------------------------------------------------------------------------------
(* recommendation_candidates: three queries, their rows united in order *)

Eligible(b) ==
    {p \in Places : /\ p.id \in shown
                    /\ b.sigun # Null => p.sigun = b.sigun
                    /\ b.mission => p.id \in stamped
                    /\ p.id \notin b.visited}

Rank(b, p) == << IF b.sport = Null \/ p.sport \in SportNames(b.sport) THEN 0 ELSE 1,
                 IF p.category = "sports" THEN 0 ELSE 1,
                 IF b.theme \in p.missions THEN 0 ELSE 1,
                 p.id >>

Query(b) ==
    LET ranked(S) == Sorted(S, [p \in S |-> Rank(b, p)])
        support(types, n) ==
            First(ranked({p \in Eligible(b) : p.content \in types /\ p.category # "sports"}), n)
        primary == First(ranked(Eligible(b)), IF b.mission THEN Primary + Foods + Sights ELSE Primary)
        food == support({"39"}, Foods)
        sights == support({"12", "14"}, Sights)
    IN IF b.mission THEN primary
       ELSE LET fed == primary \o Without(food, primary)
            IN fed \o Without(sights, fed)

------------------------------------------------------------------------------
(* _coherent_candidates: what lies around the best anchor, then a sample *)

Feasible(rows, b) ==
    Among(rows, {p \in Places : Recommendable(p) /\ Minutes(p) <= b.minutes})

Cluster(rows, anchor) == Among(rows, {p \in Places : InReach(anchor, p)})

Anchors(rows, b) == Among(rows, {p \in Places : SportsAnchor(p, b.sport)})

Anchor(rows, b) ==
    LET anchors == Anchors(rows, b)
        score(i) == LET near == Cluster(rows, anchors[i])
                    IN Len(near)
                       + 2 * Sum([n \in DOMAIN near |-> ThemeRelevance(near[n], b.theme)])
        ranks == [i \in DOMAIN anchors |-> <<-score(i), i>>]
    IN IF anchors = <<>> THEN Null ELSE anchors[Sorted(DOMAIN anchors, ranks)[1]]

Closeness(anchor, b, p) == << IF p.id = anchor.id THEN 0 ELSE 1,
                              -ThemeRelevance(p, b.theme), Distance(anchor, p), p.id >>

Supports == {"meal", "rest", "sightseeing"}
HasFood(s) == \E i \in DOMAIN s : role(s[i]) \in {"meal", "rest"}
OfPurpose(s, anchor, purpose) ==
    Among(s, {p \in Places : role(p) = purpose /\ p.id # anchor.id})

(* The first n of every purpose. *)
Reserve(s, anchor, n) ==
    IF HasFood(s)
    THEN First(OfPurpose(s, anchor, "meal"), n) \o First(OfPurpose(s, anchor, "rest"), n)
            \o First(OfPurpose(s, anchor, "sightseeing"), n)
    ELSE <<>>

Nearby(rows, b, anchor) ==
    LET near == ToSet(Cluster(rows, anchor))
        sorted == Sorted(near, [p \in near |-> Closeness(anchor, b, p)])
        reserved == <<anchor>> \o Reserve(sorted, anchor, 2)
    IN First(reserved \o Without(sorted, reserved), MaxCoherent)

(* Mutant: the sample is drawn by theme alone. *)
KeptThemed(near, anchor) == {anchor.id}

(* What every sample keeps: the anchor and one place of each purpose. *)
Kept(near, anchor) == {anchor.id} \cup Seen(Reserve(near, anchor, 1))

(* The draws are weighted, but each remaining place has a weight: any set of *)
(* the right size with what is kept and enough of the theme can come out.    *)
Samples(near, b, anchor) ==
    LET themed(S) == {i \in S : \E p \in ToSet(near) : p.id = i /\ ThemeRelevance(p, b.theme) > 0}
        pool == themed(Seen(near) \ Kept(near, anchor))
        wanted == Cardinality(pool) + Cardinality(themed({anchor.id}))
        target == IF wanted < MinTheme THEN wanted ELSE MinTheme
        chosen == {S \in kSubset(MaxAI, Seen(near)) :
                      Kept(near, anchor) \subseteq S /\ Cardinality(themed(S)) >= target}
    IN IF Len(near) <= MaxAI THEN {near}
       ELSE {Among(near, {p \in ToSet(near) : p.id \in S}) : S \in chosen}

CoherentCandidates(rows, b) ==
    LET fits == Feasible(rows, b)
        anchor == Anchor(fits, b)
    IN IF anchor = Null THEN {<<>>} ELSE Samples(Nearby(fits, b, anchor), b, anchor)

------------------------------------------------------------------------------
(* The rules of a course: its places as a sequence of records *)

Purpose(p, main) == IF p.id = main THEN "activity" ELSE role(p)
Purposes(s, main) == {Purpose(s[i], main) : i \in DOMAIN s}

ValidRoles(s, main) ==
    \A purpose \in {"activity", "meal", "rest", "sightseeing"} :
        Cardinality({i \in DOMAIN s : Purpose(s[i], main) = purpose})
            <= (IF purpose = "sightseeing" THEN 2 ELSE 1)

(* _main_id: an anchor that is an activity, else any anchor. *)
MainId(s, b) ==
    LET anchors == Anchors(s, b)
        activities == Among(anchors, {p \in Places : role(p) = "activity"})
    IN IF activities # <<>> THEN activities[1].id
       ELSE IF anchors # <<>> THEN anchors[1].id ELSE Null

(* Minutes of the places and of the legs between them. *)
Stays(s) == Sum([i \in DOMAIN s |-> Minutes(s[i])])
Legs(s) == Sum([i \in DOMAIN s |-> IF i = 1 THEN 0 ELSE TravelMinutes(s[i - 1], s[i])])
Total(s) == Stays(s) + Legs(s)

(* _segment within the time that is left *)
Fits(s, p, b) == /\ s # <<>> => Reachable(Last(s), p)
                 /\ Total(Append(s, p)) <= b.minutes

------------------------------------------------------------------------------
(* The handler, from the query on.  Only the database changes meanwhile. *)

Init ==
    /\ shown \in Worlds
    /\ stamped \in {{p.id : p \in Places}}
    /\ body \in Bodies
    /\ pc = "query"
    /\ candidates = <<>> /\ starts = <<>> /\ route = <<>> /\ fallback = <<>> /\ stops = <<>>
    /\ routes = <<>>
    /\ result = Null /\ mission = Null

(* recommendation_candidates and _coherent_candidates *)
Choose ==
    /\ pc = "query"
    /\ candidates' \in CoherentCandidates(Query(body), body)
    /\ starts' = Anchors(candidates', body)
    /\ pc' = "plan"
    /\ UNCHANGED <<shown, stamped, body, route, routes, fallback, stops, result, mission>>

(* _fallback grows one route from each start. *)
BeginRoute ==
    /\ pc = "plan" /\ route = <<>> /\ starts # <<>>
    /\ route' = <<Head(starts)>>
    /\ UNCHANGED <<shown, stamped, body, pc, candidates, starts, routes, fallback, stops,
                   result, mission>>

(* Mutant: food and sights are added however many there are. *)
NextStopsAnyRole ==
    {p \in ToSet(candidates) : /\ p.id \notin Seen(route) /\ role(p) # "activity"
                               /\ Fits(route, p, body)}

NextStops ==
    {p \in ToSet(candidates) : /\ p.id \notin Seen(route) /\ role(p) # "activity"
                               /\ ValidRoles(Append(route, p), route[1].id)
                               /\ Fits(route, p, body)}

Preference(p) == << IF role(p) \in Purposes(route, route[1].id) THEN 1 ELSE 0,
                    -ThemeRelevance(p, body.theme), Distance(Last(route), p), p.id >>

GrowRoute ==
    /\ pc = "plan" /\ route # <<>> /\ Len(route) < MaxStops
    /\ \E p \in NextStops :
          /\ \A q \in NextStops \ {p} : Less(Preference(p), Preference(q))
          /\ route' = Append(route, p)
    /\ UNCHANGED <<shown, stamped, body, pc, candidates, starts, routes, fallback, stops,
                   result, mission>>

EndRoute ==
    /\ pc = "plan" /\ route # <<>>
    /\ Len(route) = MaxStops \/ NextStops = {}
    /\ routes' = Append(routes, route)
    /\ starts' = Tail(starts)
    /\ route' = <<>>
    /\ UNCHANGED <<shown, stamped, body, pc, candidates, fallback, stops, result, mission>>

(* The most purposes, then the most places, then the least travel. *)
Worth(s) == <<-Cardinality(Purposes(s, s[1].id)), -Len(s), Legs(s)>>

BestRoute ==
    LET ranks == [i \in DOMAIN routes |-> Worth(routes[i]) \o <<i>>]
    IN IF routes = <<>> THEN <<>> ELSE routes[Sorted(DOMAIN routes, ranks)[1]]

(* _result *)
Answer(s, ai) ==
    result' = [stops |-> s, used_ai |-> ai, main |-> MainId(s, body), total |-> Total(s)]

(* Without an API key, or with nothing to choose from, the fallback is the answer. *)
Plan ==
    /\ pc = "plan" /\ route = <<>> /\ starts = <<>>
    /\ fallback' = BestRoute
    /\ \/ pc' = "ask" /\ candidates # <<>> /\ UNCHANGED result
       \/ pc' = "answered" /\ Answer(BestRoute, FALSE)
    /\ UNCHANGED <<shown, stamped, body, candidates, starts, route, routes, stops, mission>>


(* _ai_stops takes the model's stops one by one: an ID it was not given, one *)
(* it gave before, a leg out of reach or an empty reason end it, and what no  *)
(* longer fits in the time is left out.                                       *)
Untaken == {p \in ToSet(candidates) : p.id \notin Seen(stops)}

(* Mutant: the time of the legs is not counted. *)
TakeStopStayOnly(p) ==
    /\ pc = "ask"
    /\ p \in Untaken
    /\ stops # <<>> => Reachable(Last(stops), p)
    /\ Stays(Append(stops, p)) <= body.minutes
    /\ stops' = Append(stops, p)
    /\ UNCHANGED <<shown, stamped, body, pc, candidates, starts, route, routes, fallback,
                   result, mission>>

TakeStop(p) ==
    /\ pc = "ask"
    /\ p \in Untaken
    /\ Fits(stops, p, body)
    /\ stops' = Append(stops, p)
    /\ UNCHANGED <<shown, stamped, body, pc, candidates, starts, route, routes, fallback,
                   result, mission>>

(* The checks after the last stop. *)
Accepted(s) ==
    /\ s # <<>>
    /\ \E i \in DOMAIN s : SportsAnchor(s[i], body.sport)
    /\ Len(s) <= MaxStops
    /\ ValidRoles(s, MainId(s, body))
    /\ Purposes(fallback, MainId(fallback, body)) \subseteq Purposes(s, MainId(s, body))

AnswerByModel ==
    /\ pc = "ask"
    /\ Accepted(stops)
    /\ Answer(stops, TRUE)
    /\ pc' = "answered"
    /\ UNCHANGED <<shown, stamped, body, candidates, starts, route, routes, fallback, stops,
                   mission>>

(* A timeout, an error of the provider, an answer that is not of the form asked *)
(* for or breaks a rule: the fallback, whatever the model gave before.          *)
AnswerByFallback ==
    /\ pc = "ask"
    /\ Answer(fallback, FALSE)
    /\ pc' = "answered"
    /\ UNCHANGED <<shown, stamped, body, candidates, starts, route, routes, fallback, stops,
                   mission>>

(* An answer without choices is an IndexError, which is not among the errors *)
(* that are caught: 500.                                                     *)
NoChoice ==
    /\ pc = "ask" /\ stops = <<>>
    /\ pc' = "failed"
    /\ UNCHANGED <<shown, stamped, body, candidates, starts, route, routes, fallback, stops,
                   result, mission>>

(* Mutant: the mission is made of the stops that still have a stamp. *)
CreateMissionPartly ==
    /\ pc = "answered" /\ body.mission
    /\ LET kept == Among(result.stops, {p \in Places : p.id \in shown \cap stamped})
       IN mission' = [stamps |-> Ids(kept), minutes |-> Stays(kept),
                      complete |-> \A p \in ToSet(kept) : p.id \in shown \cap stamped]
    /\ pc' = "done"
    /\ UNCHANGED <<shown, stamped, body, candidates, starts, route, routes, fallback, stops,
                   result>>

(* create_generated_mission reads the stamps after the model has answered: all *)
(* stops, or 409.                                                              *)
CreateMission ==
    /\ pc = "answered" /\ body.mission
    /\ result.stops # <<>> /\ Seen(result.stops) \subseteq shown \cap stamped
    /\ mission' = [stamps |-> Ids(result.stops), minutes |-> Stays(result.stops),
                   complete |-> \A p \in ToSet(result.stops) : p.id \in shown \cap stamped]
    /\ pc' = "done"
    /\ UNCHANGED <<shown, stamped, body, candidates, starts, route, routes, fallback, stops,
                   result>>

NoMission ==
    /\ pc = "answered" /\ body.mission
    /\ result.stops = <<>> \/ ~(Seen(result.stops) \subseteq shown \cap stamped)
    /\ pc' = "failed"
    /\ UNCHANGED <<shown, stamped, body, candidates, starts, route, routes, fallback, stops,
                   result, mission>>

(* While the model is asked, synchronization hides places and administrators *)
(* delete stamps; other places than the course's make no difference.         *)
Disappear(p) ==
    /\ pc = "answered" /\ body.mission /\ p \in ToSet(result.stops)
    /\ \/ p.id \in shown /\ shown' = shown \ {p.id} /\ UNCHANGED stamped
       \/ p.id \in stamped /\ stamped' = stamped \ {p.id} /\ UNCHANGED shown
    /\ UNCHANGED <<body, pc, candidates, starts, route, routes, fallback, stops, result, mission>>

Next == \/ Choose \/ BeginRoute \/ GrowRoute \/ EndRoute \/ Plan
        \/ \E p \in Places : TakeStop(p) \/ Disappear(p)
        \/ AnswerByModel \/ AnswerByFallback \/ NoChoice
        \/ CreateMission \/ NoMission

Spec == Init /\ [][Next]_vars

------------------------------------------------------------------------------
(* What a member is told to do fits in the time that was given, each leg can be  *)
(* travelled, no place comes twice, and all are places of the request's query    *)
(* ("여유 시간의 총량을 지킵니다").                                               *)
CourseFitsTheDay ==
    result # Null /\ result.stops # <<>> =>
        LET s == result.stops
        IN /\ Len(s) <= MaxStops
           /\ result.total = Total(s) /\ Total(s) <= body.minutes
           /\ \A i \in 2..Len(s) : InReach(s[i - 1], s[i])
           /\ \A i, j \in DOMAIN s : i # j => s[i].id # s[j].id
           /\ \A i \in DOMAIN s : s[i] \in Places /\ s[i].id \notin body.visited

(* "ONE main sports experience, one meal, one rest/cafe and up to two nearby     *)
(* sightseeing stops": also when the place the fallback began with and the one   *)
(* _main_id finds in the result are found by different rules.                    *)
OneMainExperience ==
    result # Null /\ result.stops # <<>> =>
        /\ ValidRoles(result.stops, result.main)
        /\ \E p \in ToSet(result.stops) : p.id = result.main /\ SportsAnchor(p, body.sport)
        /\ ~result.used_ai => result.main = result.stops[1].id

(* "Keep food/rest visible even when a district has dozens of similar sports     *)
(* businesses": a purpose for which the query reserves rows and which lies       *)
(* around the anchor is still there in the sample.                               *)
SampleKeepsPurposes ==
    pc = "plan" /\ candidates # <<>> =>
        LET near == Cluster(Feasible(Query(body), body), candidates[1])
        IN HasFood(near) => \A purpose \in Supports :
              OfPurpose(near, candidates[1], purpose) # <<>>
                 => OfPurpose(candidates, candidates[1], purpose) # <<>>

(* A generated mission consists of all the stops of the course, in its order,    *)
(* and each had a stamp and was visible when the mission was made.               *)
MissionIsTheCourse ==
    mission # Null => /\ mission.stamps = Ids(result.stops)
                      /\ mission.minutes <= body.minutes
                      /\ mission.complete
==============================================================================
