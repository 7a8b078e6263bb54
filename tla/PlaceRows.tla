------------------------------- MODULE PlaceRows -------------------------------
(***************************************************************************)
(* One item of the tourism API and its row of activities: how tourism_item *)
(* (app/jobs/sync_tourism.py) classifies it with the lookups of its hiking *)
(* guidance and details, what _sync_items keeps of the row it had, what an *)
(* organizer's annotations (alembic 0039, 0049) add, and the edits of      *)
(* administrators (ActivityService.update).                                *)
(*                                                                         *)
(* A run reads the row when it starts and writes it after the requests;    *)
(* like an edit, it writes only the columns that it changed.               *)
(***************************************************************************)
EXTENDS Naturals

CONSTANTS Upstream,  \* what the provider may say of the item
          Bodies,    \* the bodies of PATCH: functions from some columns to values
          Poster,    \* the organizer's picture of an event
          Null

VARIABLES item, row,
          told,      \* the routes that the last lookup that worked has told
          run, patch

placeVars == <<item, row, told, run, patch>>

------------------------------------------------------------------------------
(* The classification.  title is "" or "san", "peak", "other" by the words *)
(* in it, code a class of cat3; byCode, byWord, byGroup what the tables of *)
(* leisure sports tell.                                                    *)

NaturalCode(u) == u.code \in {"mountain", "park", "natural"}

mountain_candidate(u) ==
    /\ u.type = "12" /\ u.title # "" /\ u.gangwon /\ ~u.excluded
    /\ NaturalCode(u) \/ u.title \in {"san", "peak"}

gangwon_mountain_place(u, routes, overview) ==
    /\ mountain_candidate(u)
    /\ \/ u.code = "mountain"
       \/ u.code = "park" /\ u.title = "san"
       \/ routes # Null
       \/ NaturalCode(u) /\ overview = "hiking"
       \/ NaturalCode(u) /\ overview = "trail" /\ u.title \in {"san", "peak"}

LeportsSport(u) ==
    CASE u.type # "28" \/ u.excluded -> Null
      [] u.type = "28" /\ ~u.excluded /\ u.byCode # Null -> u.byCode
      [] u.type = "28" /\ ~u.excluded /\ u.byCode = Null /\ u.byWord # Null -> u.byWord
      [] OTHER -> IF u.byGroup # Null THEN u.byGroup ELSE "athletics"

tourism_sport(u, routes, overview) ==
    IF gangwon_mountain_place(u, routes, overview) \/ (routes # Null /\ u.title # "" /\ u.address)
    THEN "hiking" ELSE LeportsSport(u)

(* _fill_hiking_routes asks for these, and takes only guidance that says so. *)
AskedForRoutes(u) ==
    /\ u.type = "12" /\ u.address
    /\ mountain_candidate(u) \/ u.code = "mountain" \/ u.title = "san"

Routes(u) == IF u.guide # Null /\ (u.guide.trail \/ mountain_candidate(u)) THEN u.guide ELSE Null

(* tourism_item, for a place or a festival, with what the lookups found.  The *)
(* details are asked for if the place is a sports place without an official   *)
(* address, or may be a mountain.                                             *)
Sport(u, routes, overview) ==
    IF u.type = "15" THEN Null
    ELSE IF tourism_sport(u, routes, overview) = Null /\ u.olympic
    THEN "olympic_legacy" ELSE tourism_sport(u, routes, overview)

AskedForDetail(u, routes) ==
    ~u.official /\ (Sport(u, routes, Null) # Null \/ mountain_candidate(u))

tourism_item(u, routesFail, detailFail) ==
    LET routes == IF AskedForRoutes(u) /\ ~routesFail THEN Routes(u) ELSE Null
        detail == AskedForDetail(u, routes) /\ ~detailFail
        overview == IF detail /\ mountain_candidate(u) THEN u.overview ELSE Null
        sport == Sport(u, routes, overview)
    IN [category |-> IF sport # Null THEN "sports" ELSE IF u.type = "15" THEN "event" ELSE "tour",
        sport |-> sport,
        summary |-> <<routes, IF routes = Null /\ sport = "hiking" THEN overview ELSE Null>>,
        image |-> u.image,
        url |-> u.official \/ (detail /\ u.homepage),
        metadata |-> [routes |-> routes, failed |-> AskedForRoutes(u) /\ routesFail,
                      notes |-> FALSE, caption |-> FALSE]]

------------------------------------------------------------------------------
(* _sync_items: the values that are written over the row r *)

(* Mutant: what a failed lookup did not tell is written all the same. *)
KeptRoutesNever(r, values) == values

(* A failed lookup keeps verified routes and what was derived from them. *)
KeptRoutes(r, values) ==
    IF r # Null /\ values.metadata.failed /\ r.metadata.routes # Null
    THEN [values EXCEPT !.sport = r.sport, !.category = r.category, !.summary = r.summary,
                        !.metadata.routes = r.metadata.routes]
    ELSE values

(* An event keeps the organizer's notes, and the caption of its picture. *)
KeptNotes(r, values) ==
    IF r # Null /\ values.category = "event" /\ r.metadata.notes
    THEN [values EXCEPT !.metadata.notes = TRUE,
                        !.metadata.caption = r.metadata.caption /\ r.image = values.image]
    ELSE values

Synced(r, values) == KeptNotes(r, KeptRoutes(r, values))

(* The columns that differ from what was read are written. *)
Written(read, new) == [c \in DOMAIN new |-> IF new[c] = read[c] THEN row[c] ELSE new[c]]

Init ==
    /\ item \in Upstream
    /\ row = Null /\ told = Null
    /\ run = Null /\ patch = Null

(* The snapshot of the run's transaction dates from before its requests. *)
StartRun ==
    /\ run = Null
    /\ run' = [read |-> row]
    /\ UNCHANGED <<item, row, told, patch>>

WriteRow ==
    /\ run # Null
    /\ \E routesFail, detailFail \in BOOLEAN :
          LET values == tourism_item(item, routesFail, detailFail)
              new == Synced(run.read, values)
          IN /\ row' = IF run.read = Null THEN new ELSE Written(run.read, new)
             /\ told' = IF values.metadata.failed THEN told ELSE values.metadata.routes
    /\ run' = Null
    /\ UNCHANGED <<item, patch>>

(* A request or a statement fails: rolled back. *)
FailRun ==
    /\ run # Null
    /\ run' = Null
    /\ UNCHANGED <<item, row, told, patch>>

------------------------------------------------------------------------------
(* _upsert_event: an event that the API has gets the organizer's notes, and *)
(* the caption if the picture is the organizer's.  A release is not made    *)
(* during a run.                                                            *)
Curate ==
    /\ run = Null /\ row # Null /\ row.category = "event"
    /\ row' = [row EXCEPT !.metadata.notes = TRUE,
                          !.metadata.caption = row.image = Poster \/ row.metadata.caption]
    /\ UNCHANGED <<item, told, run, patch>>

(* PATCH: read, check, write. *)
ReadPatch(b) ==
    /\ patch = Null /\ row # Null
    /\ patch' = [read |-> row, body |-> b]
    /\ UNCHANGED <<item, row, told, run>>

Patched(read, b) == [c \in DOMAIN read |-> IF c \in DOMAIN b THEN b[c] ELSE read[c]]
Consistent(r) == r.category = "sports" <=> r.sport # Null

(* 400 unless the sport and the category that it read agree with the body. *)
WritePatch ==
    /\ patch # Null
    /\ LET new == Patched(patch.read, patch.body)
       IN row' = IF Consistent(new) THEN Written(patch.read, new) ELSE row
    /\ patch' = Null
    /\ UNCHANGED <<item, told, run>>

(* The provider changes the item, but not its type.  That no edit is under way *)
(* is no loss: edits do not look at the item.                                  *)
Modify ==
    /\ patch = Null
    /\ item' \in {u \in Upstream \ {item} : u.type = item.type}
    /\ UNCHANGED <<row, told, run, patch>>

Next == \/ StartRun \/ WriteRow \/ FailRun \/ Curate
        \/ \E b \in Bodies : ReadPatch(b)
        \/ WritePatch \/ Modify

Spec == Init /\ [][Next]_placeVars

------------------------------------------------------------------------------
(* "A transient detail lookup failure must not erase verified API routes" and   *)
(* "refreshing upstream fields must not erase these annotations": whatever       *)
(* edits of other columns, runs and failures come, the row holds what the last   *)
(* lookup that worked has told, in its routes and its summary; an event keeps    *)
(* the organizer's notes; and a run never leaves the caption of a picture with   *)
(* another one.                                                                  *)
NothingErased ==
    [][/\ row' # Null => row'.metadata.routes = told' /\ row'.summary[1] = told'
       /\ row # Null =>
            /\ row.metadata.notes => row'.metadata.notes
            /\ row'.metadata.caption /\ row'.image # row.image => patch # Null /\ patch' = Null
            /\ row'.metadata.caption /\ ~row.metadata.caption => row'.image = Poster]_placeVars

(* "sport_name is only allowed for sports activities" *)
SportOfSports == row # Null => Consistent(row)
==============================================================================
