---------------------------- MODULE MCProofReview ----------------------------
(* Small worlds for ProofReview: one course of two stamps, whose badges come *)
(* with the second approval, and one course of one stamp.                    *)
EXTENDS ProofReview, TLC

CONSTANTS none, s1, s2

Aliases == [ski |-> {"ski"}, trekking |-> {"walking"}]
Olympic == {"olympic"}
NoVerified == <<>>
NoSpecial == <<>>

Row(course, sport) == [course |-> course, identity |-> "plain", course_sport |-> sport,
                       activity_sport |-> "", mountain |-> FALSE]

PairStamps == "c1" :> {s1, s2}
PairFacts == "c1" :> {Row("c1", "ski")}

SingleStamps == "c1" :> {s1}
SingleFacts == "c1" :> {Row("c1", "ski")}

Symmetry == Permutations(Requests) \cup Permutations(Tries) \cup Permutations(Passports)
==============================================================================
