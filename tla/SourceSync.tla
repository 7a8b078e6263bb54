------------------------------ MODULE SourceSync ------------------------------
(***************************************************************************)
(* The part of TourismSync.run (app/jobs/sync_tourism.py) after the days   *)
(* of the tourism API: the snapshots of the other sources, the retired     *)
(* mountain list, and the removal of duplicates, one run at a time.        *)
(*                                                                         *)
(* Lines are the lines of all files and the items of the API, Ids the rows *)
(* of activities made of them, all of the category sports.  A row exists   *)
(* once it was in a list: known.  file[s] is what source s publishes;      *)
(* accepted[s], which no table keeps, the last list of s that was taken    *)
(* over.                                                                   *)
(***************************************************************************)
EXTENDS Integers, FiniteSets, Sequences

CONSTANTS Lines,      \* number -> [source, code, name, kind, sigun, address, image, point]
          Districts,  \* GANGWON_DISTRICTS
          Order,      \* the sources with files, in the order of the run
          Priority,   \* SOURCE_PRIORITY: source -> number, 99 if it has none
          VerifiedNames, \* VERIFIED_PLACE_NAMES: sets of spellings of one name
          Publishable, \* the files a source may publish
          Stampable,  \* bound: the rows that may get a stamp
          Null

VARIABLES known, active, shown, count, file, stamped, at, got, accepted

sourceVars == <<known, active, shown, count, file, stamped, at, got, accepted>>

Ids == DOMAIN Lines
Files == {Order[k] : k \in DOMAIN Order}
OfSource(s) == {i \in Ids : Lines[i].source = s}
Visible == known \cap active \cap shown

(* The tourism API and the retired list of mountains have no files.  Without *)
(* a priority a source ranks at 99.                                          *)
ASSUME LinesAssumption ==
    Ids \subseteq Nat /\ \A i \in Ids : Priority[Lines[i].source] \in Nat
ASSUME OrderAssumption ==
    /\ Len(Order) \in Nat /\ DOMAIN Order = 1..Len(Order)
    /\ "tourapi" \notin Files /\ "mountain100" \notin Files
ASSUME FilesAssumption == \A s \in Files : Publishable[s] \subseteq SUBSET OfSource(s)
ASSUME NullAssumption == Null \notin Nat

------------------------------------------------------------------------------
(* What the converters make of a line.  An address is Null or a record of a  *)
(* province (Null if none is written), a district and whether it has a number. *)

(* Goseong is a district of two provinces. *)
gangwon_address_status(address) ==
    CASE address.province # Null -> address.province = "gangwon"
      [] address.province = Null /\ address.district \in {Null, "goseong"} -> Null
      [] OTHER -> address.district \in Districts

in_gangwon(l) ==
    IF l.address = Null \/ gangwon_address_status(l.address) = Null
    THEN l.point = "gangwon" ELSE gangwon_address_status(l.address)

(* The file of facilities has other trades, that of routes other provinces. *)
InScope(l) ==
    /\ l.source = "durunubi" => in_gangwon(l)
    /\ l.source = "gangwon_marine_facility" => l.kind = "leisure"

(* Most files have no identifiers: a hash of the columns that tell rows apart. *)
external_id(l) ==
    CASE l.source = "gangwon_ski_golf" -> <<l.name, l.address, l.kind>>
      [] l.source = "gangwon_marine" -> <<l.name, l.address>>
      [] l.source = "gangwon_marine_facility" -> <<l.code, l.name, l.address>>
      [] l.source = "gangwon_oxygen_road" -> <<l.sigun, l.name>>
      [] OTHER -> <<l.code>>

duplicate_area(l) ==
    CASE l.sigun # Null -> l.sigun
      [] l.sigun = Null /\ l.address # Null -> l.address.district
      [] OTHER -> Null

(* The steps of a run: the tourism API, the files, mountain100, duplicates. *)
Retire == Len(Order) + 1
Search == Len(Order) + 2
HideThem == Len(Order) + 3
Idle == -1

Init ==
    /\ known = OfSource("mountain100") /\ active = Ids /\ shown = Ids
    /\ count = [s \in Files |-> Null]
    /\ file = [s \in Files |-> OfSource(s)]
    /\ stamped = {}
    /\ at = Idle
    /\ got = Null
    /\ accepted = [s \in Files |-> {}]

------------------------------------------------------------------------------
(* A timer or an administrator starts a run. *)
StartRun ==
    /\ at = Idle
    /\ at' = 0
    /\ UNCHANGED <<known, active, shown, count, file, stamped, got, accepted>>

(* A day of the tourism API, which TourismSync describes: what it lists is   *)
(* written and becomes active again, or is hidden.  When it fails, the files *)
(* are read all the same.                                                    *)
TourDay ==
    /\ at = 0
    /\ \E written, hidden \in SUBSET OfSource("tourapi") :
          /\ written \cap hidden = {}
          /\ known' = known \cup written
          /\ active' = active \cup written
          /\ shown' = (shown \ hidden) \cup written
    /\ at' = 1
    /\ UNCHANGED <<count, file, stamped, got, accepted>>

Local(rows) == {i \in rows : InScope(Lines[i])}

(* _get, _download, each tried three times.  The file, in the order of Ids,  *)
(* comes whole or is cut off, and once in a while has a line twice.          *)
Fetch ==
    /\ at \in DOMAIN Order /\ got = Null
    /\ \E end \in Ids, twice \in BOOLEAN :
          got' = [rows |-> Local({i \in file[Order[at]] : i <= end}), twice |-> twice]
    /\ UNCHANGED <<known, active, shown, count, file, stamped, at, accepted>>

(* Lines that come twice are dropped from one of the files only. *)
Identified(s) ==
    /\ got.twice => s = "gangwon_marine"
    /\ \A i \in got.rows : Lines[i].name # Null /\ external_id(Lines[i]) # <<Null>>
    /\ \A i, j \in got.rows : external_id(Lines[i]) = external_id(Lines[j]) => i = j

Acceptable(s) ==
    /\ got.rows # {} /\ Identified(s)
    /\ count[s] # Null => 2 * Cardinality(got.rows) >= count[s]

(* sync_source and record_sync in one nested transaction, then a commit *)
TakeOver ==
    /\ at \in DOMAIN Order /\ got # Null
    /\ LET s == Order[at]
       IN /\ Acceptable(s)
          /\ known' = known \cup got.rows
          /\ active' = (active \ OfSource(s)) \cup got.rows
          /\ count' = [count EXCEPT ![s] = Cardinality(got.rows)]
          /\ accepted' = [accepted EXCEPT ![s] = got.rows]
    /\ at' = at + 1 /\ got' = Null
    /\ UNCHANGED <<shown, file, stamped>>

(* record_sync_error: the request, a check or a statement failed.  The next *)
(* source is tried all the same.                                            *)
Reject ==
    /\ at \in DOMAIN Order
    /\ at' = at + 1 /\ got' = Null
    /\ UNCHANGED <<known, active, shown, count, file, stamped, accepted>>

(* The list of mountains is gone: an empty list of it is taken over, or the *)
(* statement fails.                                                         *)
RetireMountains ==
    /\ at = Retire
    /\ active' \in {active, active \ OfSource("mountain100")}
    /\ at' = Search
    /\ UNCHANGED <<known, shown, count, file, stamped, got, accepted>>

------------------------------------------------------------------------------
(* duplicate_activity_ids: rows of one place have one name and one area. *)
SamePlace(i, j) ==
    LET area(k) == duplicate_area(Lines[k])
    IN /\ Lines[i].name # Null /\ Lines[i].name = Lines[j].name
       /\ area(i) # Null /\ area(i) = area(j)

Less(a, b) == \E n \in DOMAIN a : a[n] < b[n] /\ \A m \in 1..(n - 1) : a[m] = b[m]

Before(i, j) ==
    LET key(k) == << Priority[Lines[k].source], IF Lines[k].image THEN 0 ELSE 1,
                     IF Lines[k].point # Null THEN 0 ELSE 1, k >>
    IN Less(key(i), key(j))

(* The best row of a place survives, and every row that has a stamp. *)
Duplicates(rows, protected) ==
    {i \in rows \ protected :
        \E j \in rows \ {i} : SamePlace(i, j) /\ (j \in protected \/ Before(j, i))}

(* Mutant: rows that nobody sees take part. *)
CandidatesAll == known

(* Rows of the category sports, which all Ids are. *)
Candidates == Visible

(* sports_dedup_candidates and the choice *)
SearchDuplicates ==
    /\ at = Search
    /\ got' = [rows |-> Duplicates(Candidates, stamped), protected |-> stamped]
    /\ at' = HideThem
    /\ UNCHANGED <<known, active, shown, count, file, stamped, accepted>>

(* deactivate_activity_ids, record_sync and the commit *)
HideDuplicates ==
    /\ at = HideThem
    /\ active' = active \ got.rows
    /\ at' = Idle /\ got' = Null
    /\ UNCHANGED <<known, shown, count, file, stamped, accepted>>

(* A statement of the last step fails, or the process ends, anywhere. *)
GiveUp ==
    /\ at # Idle
    /\ at' = Idle /\ got' = Null
    /\ UNCHANGED <<known, active, shown, count, file, stamped, accepted>>

------------------------------------------------------------------------------
(* A source publishes another file; an administrator makes a stamp. *)
Publish(s) ==
    /\ at = Idle
    /\ \E S \in Publishable[s] : S # file[s] /\ file' = [file EXCEPT ![s] = S]
    /\ UNCHANGED <<known, active, shown, count, stamped, at, got, accepted>>

MakeStamp(i) ==
    /\ i \in (known \cap Stampable) \ stamped
    /\ at \in {Idle, HideThem}
    /\ stamped' = stamped \cup {i}
    /\ UNCHANGED <<known, active, shown, count, file, at, got, accepted>>

Run == \/ StartRun \/ TourDay \/ Fetch \/ TakeOver \/ Reject \/ RetireMountains
       \/ SearchDuplicates \/ HideDuplicates \/ GiveUp

Next == \/ Run
        \/ \E s \in Files : Publish(s)
        \/ \E i \in Ids : MakeStamp(i)

Spec == Init /\ [][Next]_sourceVars

Whole(s) == got' # Null /\ got' = [rows |-> Local(file[s]), twice |-> FALSE]
TakesWhole(s) == TakeOver /\ got.rows = Local(file[s])

(* The timer keeps starting runs, requests and statements end, the process   *)
(* does not end at the same place in every run, and neither a source nor a   *)
(* statement fails for ever.                                                 *)
Fairness ==
    /\ WF_sourceVars(Run) /\ SF_sourceVars(TourDay)
    /\ \A k \in DOMAIN Order : /\ SF_sourceVars(at = k /\ (TakeOver \/ Reject))
                               /\ SF_sourceVars(at = k /\ Fetch /\ Whole(Order[k]))
                               /\ SF_sourceVars(at = k /\ TakesWhole(Order[k]))
    /\ SF_sourceVars(RetireMountains)
    /\ SF_sourceVars(SearchDuplicates) /\ SF_sourceVars(HideDuplicates)

------------------------------------------------------------------------------
(* What the lists show of the visible rows.  Outside: _discovery_quality,    *)
(* another province is written or the district is none of Gangwon's.         *)
Outside(l) == \/ l.address # Null /\ l.address.province \notin {Null, "gangwon"}
              \/ l.sigun # Null /\ l.sigun \notin Districts

name_key(name) == IF \E names \in VerifiedNames : name \in names
                  THEN CHOOSE names \in VerifiedNames : name \in names ELSE {name}
_address_key(a) == IF a = Null THEN Null
                   ELSE [a EXCEPT !.province = IF @ = "gangwon" THEN Null ELSE @]

SpelledAlike(i, j) ==
    /\ name_key(Lines[i].name) = name_key(Lines[j].name)
    /\ Lines[i].sigun # Null /\ Lines[i].sigun = Lines[j].sigun
    /\ _address_key(Lines[i].address) = _address_key(Lines[j].address)

(* Mutant: of two rows of equal rank each is preferred to the other. *)
PreferredEqual(i, j) ==
    LET key(k) == << IF k \in stamped THEN 0 ELSE 1,
                     IF Lines[k].source = "gangwon_marine_facility" THEN 0 ELSE 1 >>
    IN ~Less(key(j), key(i))

Preferred(i, j) ==
    LET key(k) == << IF k \in stamped THEN 0 ELSE 1,
                     IF Lines[k].source = "gangwon_marine_facility" THEN 0 ELSE 1, k >>
    IN Less(key(i), key(j))

SpelledTwice(i) ==
    /\ Lines[i].name \in UNION VerifiedNames
    /\ Lines[i].address # Null /\ Lines[i].address.number
    /\ \E j \in Visible \ {i} : SpelledAlike(i, j) /\ Preferred(j, i)

(* ActivityRepository._available *)
Available == {i \in Visible : ~Outside(Lines[i]) /\ ~SpelledTwice(i)}

------------------------------------------------------------------------------
SourceTypeOK ==
    /\ known \subseteq Ids /\ active \subseteq Ids /\ shown \subseteq Ids
    /\ stamped \subseteq known
    /\ at \in {Idle} \cup 0..HideThem
    /\ \A s \in Files : /\ file[s] \subseteq OfSource(s) /\ accepted[s] \subseteq known
                        /\ count[s] = (IF accepted[s] = {} THEN Null ELSE Cardinality(accepted[s]))

(* Why a visible row may stop being visible in a step. *)
LeftTheFile(i) ==
    \E s \in Files : /\ Lines[i].source = s
                     /\ i \in accepted[s] /\ i \notin accepted'[s]
                     /\ 2 * Cardinality(accepted'[s]) >= Cardinality(accepted[s])

WasDuplicate(i) ==
    /\ at = HideThem
    /\ i \notin got.protected
    /\ \E j \in Visible' : SamePlace(i, j)

(* "Other sources are reconciled only when a verified full list was received": *)
(* a sports place is taken from the members only by the tourism API, by a list *)
(* of its own source that kept at least half of the one before, whatever       *)
(* failed between them, with the retired mountains, or as a duplicate without  *)
(* a stamp of a place that they do see.                                        *)
NothingVanishes ==
    [][\A i \in Visible \ Visible' :
          \/ Lines[i].source = "tourapi" /\ at = 0
          \/ Lines[i].source = "mountain100"
          \/ LeftTheFile(i)
          \/ WasDuplicate(i)]_sourceVars

Refused(s) == count[s] # Null /\ 2 * Cardinality(Local(file[s])) < count[s]

(* A place hidden as a duplicate returns when the row that was kept for it is *)
(* gone: while its source lists it, and the list is not refused as too short, *)
(* run after run ends with the place in the lists, by one row or another.  A  *)
(* place with a row of the same name and area outside of Gangwon may hide.    *)
Same(i, j) == j = i \/ SamePlace(i, j) \/ SpelledAlike(i, j)
Returns(i, s) ==
    (\A j \in Ids : Same(i, j) => ~Outside(Lines[j])) =>
    (<>[](i \in Local(file[s]) /\ ~Refused(s)) => []<>(at = Idle /\ \E j \in Available : Same(i, j)))

SnapshotReturns == \A s \in Files : \A i \in OfSource(s) : Returns(i, s)
==============================================================================
