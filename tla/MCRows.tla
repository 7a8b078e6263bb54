-------------------------------- MODULE MCRows --------------------------------
(***************************************************************************)
(* Modules that share no row with each other in their small instances: the *)
(* recommended course, which becomes a mission (Recommendation); a         *)
(* member's claims, saved places and passport (Members); the stamp         *)
(* catalogue and its pages (Catalogue); one place's row between the        *)
(* provider and the administrators (PlaceRows); and the revisions that     *)
(* rewrite missions (Migrations).  A behaviour is one of one of them:      *)
(* `part` says which.                                                      *)
(***************************************************************************)
EXTENDS MCRecommendation, TLC

CONSTANTS Users, Passports, Requests, Activities, Milestones, Required, ClaimStatus, MaxSaves,
          CatalogueIds, Courses, MaxPlaces, MaxCatalogueStamps,
          Items, Patches, Poster, other,
          Explorers, PhotoMissions, BadgeMissions, MaxStamps, MaxProofs

(* The edits of a place that are looked at leave its summary and its metadata *)
(* alone, which an administrator may rewrite as well, and make no event of it. *)
ASSUME PatchAssumption ==
    \A b \in Patches : DOMAIN b \subseteq {"category", "sport", "image", "url"}
                        /\ ("category" \in DOMAIN b => b.category # "event")
(* The entries of the catalogue are numbered. *)
ASSUME EntriesAssumption ==
    IsFiniteSet(CatalogueIds) /\ CatalogueIds \subseteq Nat /\ Null \notin Nat
(* The missions of the revisions have names of their own. *)
ASSUME MissionsAssumption ==
    /\ MaxStamps \in Nat
    /\ (PhotoMissions \cup BadgeMissions) \cap {"marathon", "museum", "own", Null} = {}
    /\ Null \notin {"marathon", "museum"}
(* A claim is not Null. *)
ASSUME ClaimAssumption == Null \notin [status : ClaimStatus \cup {"requested"}, fulfilled : BOOLEAN]

VARIABLES part,
          owner, badges, claims, saved, saves, places, request,
          activities, catalogue, published, owned, numbered, seeding, disturbed,
          item, row, told, run, patch,
          version, stamps, courses, links, proofs, collected, explorer, earned

Member == INSTANCE Members WITH
    Status <- ClaimStatus, made <- saves
Book == INSTANCE Catalogue WITH
    Entries <- CatalogueIds, Seeders <- Users, MaxStamps <- MaxCatalogueStamps,
    stamps <- catalogue, courses <- published,
    collected <- owned, made <- numbered
OneItem == INSTANCE PlaceRows WITH Upstream <- Items, Bodies <- Patches
Release == INSTANCE Migrations WITH Members <- Explorers, badges <- explorer

memberVars == <<owner, badges, claims, places, saved, saves, request>>
bookVars == <<activities, catalogue, published, owned, numbered, seeding, disturbed>>
itemVars == <<item, row, told, run, patch>>
releaseVars == <<version, stamps, courses, links, proofs, collected, explorer, earned>>

RowsInit ==
    /\ part \in {"course", "member", "book", "item", "release"}
    /\ Init /\ Member!MembersInit /\ Book!CatalogueInit /\ OneItem!Init /\ Release!MigrationInit
    /\ part # "course" => shown = CHOOSE w \in Worlds : TRUE
    /\ part # "course" => body = CHOOSE b \in Bodies : TRUE
    /\ part # "member" => owner = [p \in Passports |-> Null]
    /\ part # "item" => item = CHOOSE i \in Items : TRUE

RowsNext ==
    /\ part' = part
    /\ \/ part = "course" /\ Next /\ UNCHANGED <<memberVars, bookVars, itemVars, releaseVars>>
       \/ part = "member" /\ Member!MembersNext
          /\ UNCHANGED <<vars, bookVars, itemVars, releaseVars>>
       \/ part = "book" /\ Book!CatalogueNext
          /\ UNCHANGED <<vars, memberVars, itemVars, releaseVars>>
       \/ part = "item" /\ OneItem!Next
          /\ UNCHANGED <<vars, memberVars, bookVars, releaseVars>>
       \/ part = "release" /\ Release!MigrationNext
          /\ UNCHANGED <<vars, memberVars, bookVars, itemVars>>

RowsSpec == RowsInit /\ [][RowsNext]_<<part, vars, memberVars, bookVars, itemVars, releaseVars>>

(* Members: a claim, a saved place or a passport is not taken back by a     *)
(* request that was decided before it.                                      *)
NothingTakenBack == Member!NothingTakenBack
(* Catalogue: an entry has one stamp, and no place is made for nothing. *)
SeededOnce == Book!SeededOnce
(* Catalogue: the stamp book, the missions and the places say the same. *)
PagesAgree == Book!PagesAgree
(* PlaceRows: a row keeps the routes of the last lookup that worked, the    *)
(* organizer's notes and the caption of its picture.                        *)
NothingErased == OneItem!NothingErased
(* Migrations: an upgrade takes no mission, badge or proof from a member. *)
UpgradesKeepProgress == Release!UpgradesKeepProgress
(* Migrations: a closed certification is opened by 0051 alone. *)
ClosureStands == Release!ClosureStands

Worlds0 == INSTANCE PlaceWorlds
SmallItems == Worlds0!SmallUpstream
SmallPatches == Worlds0!SmallPatches
OneBadge == [m \in Milestones |-> 1]

RowsSymmetry == Permutations(Users) \cup Permutations(Passports) \cup Permutations(Requests)
===============================================================================
