----------------------------- MODULE PlaceWorlds -----------------------------
(* What the provider may say of one item, and what an administrator may send *)
(* to PATCH, in the small instances of PlaceRows: a hiking place with and    *)
(* without a guide, an excluded one, a sports venue whose name says another  *)
(* sport than its code, and an event with and without a picture.             *)
CONSTANTS other,     \* a picture that is not the organizer's
          Poster, Null

Item(type, code, guide, overview, image) ==
    [type |-> type, title |-> "san", code |-> code, gangwon |-> TRUE, address |-> TRUE,
     excluded |-> FALSE, byCode |-> Null, byWord |-> Null, byGroup |-> Null, olympic |-> FALSE,
     official |-> FALSE, homepage |-> TRUE, guide |-> guide, overview |-> overview,
     image |-> image]
G(n, trail) == [text |-> n, trail |-> trail]

SmallUpstream ==
    {Item("12", code, guide, overview, other) : code \in {"natural", "other"},
         guide \in {Null, G(1, TRUE), G(2, FALSE)}, overview \in {Null, "trail"}}
    \cup {[Item("12", "other", G(2, trail), Null, other) EXCEPT !.excluded = TRUE] : trail \in BOOLEAN}
    \cup {[Item("28", "other", Null, Null, other) EXCEPT !.byCode = code, !.byWord = word,
             !.olympic = TRUE, !.excluded = excluded] :
             code \in {Null, "golf"}, word \in {"ski"}, excluded \in BOOLEAN}
    \cup {Item("15", "other", Null, Null, image) : image \in {Null, Poster, other}}
SmallPatches == {[category |-> "sports", sport |-> "ski"], [category |-> "tour", sport |-> Null],
             [image |-> other]}
==============================================================================
