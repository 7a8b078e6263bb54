---------------------------- MODULE MCSourceSync ----------------------------
EXTENDS SourceSync

Gangneung == [province |-> "gangwon", district |-> "gangneung", number |-> TRUE]
Line(source, name, image) ==
    [source |-> source, code |-> name, name |-> name, kind |-> "leisure", sigun |-> "gangneung",
     address |-> Gangneung, image |-> image, point |-> Null]

MCLines == << Line("tourapi", "beach", TRUE), Line("gangwon_marine", "beach", FALSE),
              Line("gangwon_marine", "pier", FALSE), Line("gangwon_marine", "surf beach", FALSE),
              Line("gangwon_marine_facility", "beach", TRUE),
              [Line("gangwon_marine_facility", "peak", TRUE) EXCEPT !.kind = "food"] >>
MCVerifiedNames == {{"beach", "surf beach"}}
MCDistricts == {"gangneung"}
MCOrder == <<"gangwon_marine", "gangwon_marine_facility">>
MCPriority == [tourapi |-> 0, gangwon_marine |-> 3, gangwon_marine_facility |-> 2, mountain100 |-> 99]
MCPublishable == [gangwon_marine |-> {{2, 3}, {3}}, gangwon_marine_facility |-> {{5, 6}}]
(* The instance of SnapshotReturns for the place with three rows. *)
BeachReturns == Returns(2, "gangwon_marine")
Live == Spec /\ Fairness
=============================================================================
