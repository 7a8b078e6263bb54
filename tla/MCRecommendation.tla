--------------------------- MODULE MCRecommendation ---------------------------
EXTENDS Recommendation

Place(id, category, sport, content, x) ==
    [id |-> id, category |-> category, sport |-> sport, content |-> content, x |-> x,
     cafe |-> FALSE, dated |-> FALSE, duration |-> Null, sigun |-> "yangyang",
     missions |-> {}, keywords |-> {}]

MCPlaces ==
    {Place(1, "sports", "surfing", "", 0),
     [Place(2, "sports", "surf", "28", 3) EXCEPT !.missions = {"healing"}, !.duration = 60],
     Place(3, "tour", "", "39", 6),
     [Place(4, "tour", "", "39", 9) EXCEPT !.cafe = TRUE, !.keywords = {"healing"}],
     [Place(5, "tour", "", "12", 12) EXCEPT !.keywords = {"healing"}, !.duration = 20],
     [Place(6, "event", "", "14", 25) EXCEPT !.duration = 0],
     [Place(7, "tour", "hiking", "12", -20) EXCEPT !.duration = 30],
     [Place(8, "tour", "", "12", Null) EXCEPT !.duration = Unreadable],
     Place(9, "tour", "", "32", 1)}

MCWorlds == {1..9} \cup {(1..9) \ S : S \in {{1}, {3, 4}, {5, 6}, {4, 6}, {2, 8}, {1, 2, 3}}}
Body(sport, minutes, generated, visited) ==
    [sigun |-> Null, sport |-> sport, theme |-> "healing", minutes |-> minutes,
     mission |-> generated, visited |-> visited]
MCBodies == {Body(sport, minutes, FALSE, {}) : sport \in {Null, "marine", "hiking"},
                                               minutes \in {150, 240}}
              \cup {Body("marine", 200, TRUE, {}), Body("marine", 240, FALSE, {1})}
MCSportGroups == [marine |-> {"marine", "surfing", "surf"}, hiking |-> {"hiking"},
                  olympic_legacy |-> {"olympic"}]
MCSportAliases == [surfing |-> {"surfing", "surf"}, trekking |-> {"hiking"}]
==============================================================================
