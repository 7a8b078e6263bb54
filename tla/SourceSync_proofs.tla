-------------------------- MODULE SourceSync_proofs --------------------------
(***************************************************************************)
(* Proofs about SourceSync for every table of lines, every sequence of     *)
(* sources and everything they publish.                                    *)
(***************************************************************************)
EXTENDS SourceSync, FiniteSetTheorems, WellFoundedInduction, TLAPS

(* Of rows that are ranked by numbers one ranks first. *)
LEMMA LeastBy ==
  ASSUME NEW C, C # {}, NEW rank, \A k \in C : rank[k] \in Nat
  PROVE  \E m \in C : \A k \in C : rank[m] <= rank[k]
<1> DEFINE R == {rank[k] : k \in C}
<1>1. R # {} /\ R \in SUBSET Nat
  OBVIOUS
<1> HIDE DEF R
<1> DEFINE less == {ss \in Nat \X Nat : ss[1] < ss[2]}
<1>2. IsWellFoundedOn(less, Nat)
  BY NatLessThanWellFounded DEF OpToRel
<1>3. \E n \in R : \A m \in R : <<m, n>> \notin less
  <2> HIDE DEF less
  <2>1. R \subseteq Nat
    BY <1>1
  <2>2. QED BY <1>1, <1>2, <2>1, WFMin
<1>4. \E n \in R : \A m \in R : n <= m
  <2>1. PICK n \in R : \A m \in R : <<m, n>> \notin less
    BY <1>3
  <2>2. ASSUME NEW m \in R PROVE n <= m
    <3>1. m \in Nat /\ n \in Nat /\ <<m, n>> \in Nat \X Nat
      BY <1>1
    <3>2. ~(m < n)
      BY <2>1, <3>1
    <3>3. QED BY <3>1, <3>2
  <2>3. QED BY <2>2
<1>5. QED BY <1>4 DEF R

(* What the order of duplicate_activity_ids compares, one after the other. *)
Imaged == [k \in Ids |-> IF Lines[k].image THEN 0 ELSE 1]
Located == [k \in Ids |-> IF Lines[k].point # Null THEN 0 ELSE 1]
Ranked == [k \in Ids |-> Priority[Lines[k].source]]

LEMMA BeforeIs ==
  ASSUME NEW i \in Ids, NEW j \in Ids, Before(i, j)
  PROVE  \/ Ranked[i] < Ranked[j]
         \/ Ranked[i] = Ranked[j] /\ Imaged[i] < Imaged[j]
         \/ Ranked[i] = Ranked[j] /\ Imaged[i] = Imaged[j] /\ Located[i] < Located[j]
         \/ Ranked[i] = Ranked[j] /\ Imaged[i] = Imaged[j] /\ Located[i] = Located[j] /\ i < j
<1> DEFINE key(k) == <<Ranked[k], Imaged[k], Located[k], k>>
<1>1. key(i) = << Priority[Lines[i].source], IF Lines[i].image THEN 0 ELSE 1,
                  IF Lines[i].point # Null THEN 0 ELSE 1, i >>
  BY DEF Ranked, Imaged, Located
<1>2. key(j) = << Priority[Lines[j].source], IF Lines[j].image THEN 0 ELSE 1,
                  IF Lines[j].point # Null THEN 0 ELSE 1, j >>
  BY DEF Ranked, Imaged, Located
<1>3. Less(key(i), key(j))
  BY <1>1, <1>2 DEF Before
<1>4. PICK n \in 1..4 : key(i)[n] < key(j)[n] /\ \A m \in 1..(n - 1) : key(i)[m] = key(j)[m]
  BY <1>3 DEF Less
<1>5. CASE n = 1
  BY <1>4, <1>5
<1>6. CASE n = 2
  <2>1. key(i)[1] = key(j)[1]
    BY <1>4, <1>6
  <2>2. QED BY <1>4, <1>6, <2>1
<1>7. CASE n = 3
  <2>1. key(i)[1] = key(j)[1] /\ key(i)[2] = key(j)[2]
    BY <1>4, <1>7
  <2>2. QED BY <1>4, <1>7, <2>1
<1>8. CASE n = 4
  <2>1. key(i)[1] = key(j)[1] /\ key(i)[2] = key(j)[2] /\ key(i)[3] = key(j)[3]
    BY <1>4, <1>8
  <2>2. QED BY <1>4, <1>8, <2>1
<1>9. QED BY <1>5, <1>6, <1>7, <1>8

(* Of any rows one comes before the others. *)
LEMMA BestOf ==
  ASSUME NEW C, C \subseteq Ids, C # {}
  PROVE  \E m \in C : \A k \in C : ~Before(k, m)
<1>1. \A k \in C : Ranked[k] \in Nat /\ Imaged[k] \in Nat /\ Located[k] \in Nat /\ k \in Nat
  BY LinesAssumption DEF Ranked, Imaged, Located
<1>2. PICK a \in C : \A k \in C : Ranked[a] <= Ranked[k]
  BY <1>1, LeastBy
<1> DEFINE A == {k \in C : Ranked[k] = Ranked[a]}
<1>3. \E m \in A : \A k \in A : Imaged[m] <= Imaged[k]
  <2>1. a \in A /\ \A k \in A : Imaged[k] \in Nat
    BY <1>1
  <2> HIDE DEF A
  <2>2. QED BY <2>1, LeastBy
<1>4. PICK b \in A : \A k \in A : Imaged[b] <= Imaged[k]
  BY <1>3
<1> DEFINE B == {k \in A : Imaged[k] = Imaged[b]}
<1>5. \E m \in B : \A k \in B : Located[m] <= Located[k]
  <2>1. b \in B /\ \A k \in B : Located[k] \in Nat
    BY <1>1
  <2> HIDE DEF B
  <2>2. QED BY <2>1, LeastBy
<1>6. PICK c \in B : \A k \in B : Located[c] <= Located[k]
  BY <1>5
<1> DEFINE D == {k \in B : Located[k] = Located[c]}
           number == [k \in Ids |-> k]
<1>7. \E m \in D : \A k \in D : number[m] <= number[k]
  <2>1. c \in D /\ \A k \in D : number[k] \in Nat
    BY <1>1
  <2> HIDE DEF D, number
  <2>2. QED BY <2>1, LeastBy
<1>8. PICK d \in D : \A k \in D : d <= k
  BY <1>7
<1>9. ASSUME NEW k \in C, Before(k, d) PROVE FALSE
  <2>1. k \in Ids /\ d \in C /\ d \in Ids
    OBVIOUS
  <2>2. ~(Ranked[k] < Ranked[d])
    BY <1>1, <1>2
  <2>3. ~(Ranked[k] = Ranked[d] /\ Imaged[k] < Imaged[d])
    BY <1>1, <1>4
  <2>4. ~(Ranked[k] = Ranked[d] /\ Imaged[k] = Imaged[d] /\ Located[k] < Located[d])
    BY <1>1, <1>6
  <2>5. ~(Ranked[k] = Ranked[d] /\ Imaged[k] = Imaged[d] /\ Located[k] = Located[d] /\ k < d)
    BY <1>1, <1>8
  <2>6. QED BY <1>9, <2>1, <2>2, <2>3, <2>4, <2>5, BeforeIs
<1>10. QED BY <1>9

------------------------------------------------------------------------------
(* A row is a duplicate of one that is not, and nothing with a stamp is. *)
LEMMA DuplicateOfASurvivor ==
  ASSUME NEW rows, rows \subseteq Ids, NEW protected, NEW i \in Duplicates(rows, protected)
  PROVE  i \notin protected /\ \E j \in rows \ Duplicates(rows, protected) : SamePlace(i, j)
<1> DEFINE C == {j \in rows : SamePlace(i, j)}
<1>1. PICK j \in rows \ {i} : SamePlace(i, j)
  BY DEF Duplicates
<1>2. i \notin protected
  BY DEF Duplicates
<1>3. CASE \E k \in C : k \in protected
  BY <1>2, <1>3 DEF Duplicates
<1>4. CASE \A k \in C : k \notin protected
  <2>1. C \subseteq Ids /\ C # {}
    BY <1>1
  <2> HIDE DEF C
  <2>2. PICK m \in C : \A k \in C : ~Before(k, m)
    BY <2>1, BestOf
  <2>3. ASSUME m \in Duplicates(rows, protected) PROVE FALSE
    <3>1. PICK k \in rows \ {m} : SamePlace(m, k) /\ (k \in protected \/ Before(k, m))
      BY <2>3 DEF Duplicates
    <3>2. SamePlace(i, k)
      BY <2>2, <3>1 DEF SamePlace, C
    <3>3. QED BY <1>4, <2>2, <3>1, <3>2 DEF C
  <2>4. QED BY <1>2, <2>2, <2>3 DEF C
<1>5. QED BY <1>3, <1>4
------------------------------------------------------------------------------
(* A step that reads nothing from a file has nothing in hand; what is in hand *)
(* of a file are lines of its source.                                         *)
HandInv ==
    /\ at \in {Idle, 0, Retire, Search} => got = Null
    /\ at \in DOMAIN Order /\ got # Null =>
          got.rows \subseteq OfSource(Order[at]) /\ IsFiniteSet(got.rows)

(* Rows of a source that members may see are of its last list. *)
ListedInv ==
    /\ known \subseteq Ids
    /\ accepted = [s \in Files |-> accepted[s]]
    /\ \A s \in Files :
          /\ file[s] \subseteq OfSource(s)
          /\ known \cap active \cap OfSource(s) \subseteq accepted[s]

(* The size of the last list is the one that the next is compared with. *)
CountInv ==
    /\ count = [s \in Files |-> count[s]]
    /\ \A s \in Files : accepted[s] # {} => count[s] # Null /\ count[s] = Cardinality(accepted[s])

(* The duplicates in hand are those of what the members see: a stamp made *)
(* meanwhile changes neither.                                             *)
ChosenInv == at = HideThem => got.rows = Duplicates(Visible, got.protected)

IInv ==
    /\ at \in {Idle} \cup 0..HideThem /\ file = [s \in Files |-> file[s]]
    /\ HandInv /\ ListedInv /\ CountInv /\ ChosenInv

Why(i) == \/ Lines[i].source = "tourapi" /\ at = 0
          \/ Lines[i].source = "mountain100"
          \/ LeftTheFile(i)
          \/ WasDuplicate(i)

LEMMA Steps ==
  /\ Len(Order) \in Nat /\ DOMAIN Order = 1..Len(Order)
  /\ Retire = Len(Order) + 1 /\ Search = Len(Order) + 2 /\ HideThem = Len(Order) + 3
  /\ Idle = 0 - 1
  BY OrderAssumption DEF Retire, Search, HideThem, Idle

LEMMA SourcesAre ==
  /\ \A k \in DOMAIN Order : Order[k] \in Files
  /\ \A s \in Files : s # "tourapi" /\ s # "mountain100"
  /\ \A s : OfSource(s) \subseteq Ids
  /\ \A s, t : s # t => OfSource(s) \cap OfSource(t) = {}
  BY OrderAssumption DEF Files, OfSource

LEMMA Initially == Init => IInv
<1> SUFFICES ASSUME Init PROVE IInv
  OBVIOUS
<1>1. HandInv /\ ChosenInv /\ at = Idle /\ at \in {Idle} \cup 0..HideThem
  BY Steps DEF Init, HandInv, ChosenInv
<1>2. ListedInv
  BY SourcesAre DEF Init, ListedInv
<1>3. CountInv
  BY DEF Init, CountInv
<1>4. QED BY <1>1, <1>2, <1>3 DEF Init, IInv

(* Steps that leave the rows alone *)
LEMMA RowsStay ==
  ASSUME IInv, UNCHANGED <<known, active, shown, count, accepted>>,
         at' \in {Idle} \cup 0..HideThem, file' = [s \in Files |-> file'[s]],
         \A s \in Files : file'[s] \subseteq OfSource(s),
         HandInv', ChosenInv'
  PROVE  IInv' /\ Visible' = Visible
  BY DEF IInv, ListedInv, CountInv, Visible

LEMMA Quiet ==
  ASSUME IInv, StartRun \/ Reject \/ GiveUp \/ (\E s \in Files : Publish(s))
               \/ (\E i \in Ids : MakeStamp(i)) \/ UNCHANGED sourceVars
  PROVE  IInv' /\ Visible' = Visible
<1> USE DEF IInv
<1>1. CASE StartRun
  <2>1. /\ at = Idle /\ at' = 0 /\ got' = Null
        /\ UNCHANGED <<known, active, shown, count, file, accepted>>
    BY <1>1 DEF StartRun, HandInv
  <2>2. HandInv' /\ ChosenInv' /\ at' \in 0..HideThem
    BY <2>1, Steps DEF HandInv, ChosenInv
  <2>3. QED BY <2>1, <2>2, RowsStay DEF ListedInv
<1>2. CASE Reject
  <2>1. /\ at \in 1..Len(Order) /\ at' = at + 1 /\ got' = Null
        /\ UNCHANGED <<known, active, shown, count, file, accepted>>
    BY <1>2, Steps DEF Reject
  <2>2. HandInv' /\ ChosenInv' /\ at' \in 0..HideThem
    BY <2>1, Steps DEF HandInv, ChosenInv
  <2>3. QED BY <2>1, <2>2, RowsStay DEF ListedInv
<1>3. CASE GiveUp
  <2>1. /\ at' = Idle /\ got' = Null
        /\ UNCHANGED <<known, active, shown, count, file, accepted>>
    BY <1>3 DEF GiveUp
  <2>2. HandInv' /\ ChosenInv'
    BY <2>1, Steps DEF HandInv, ChosenInv
  <2>3. QED BY <2>1, <2>2, RowsStay DEF ListedInv
<1>4. ASSUME NEW s \in Files, Publish(s) PROVE IInv' /\ Visible' = Visible
  <2>1. PICK S \in Publishable[s] : file' = [file EXCEPT ![s] = S]
    BY <1>4 DEF Publish
  <2>2. at = Idle /\ UNCHANGED <<known, active, shown, count, at, got, accepted>>
    BY <1>4 DEF Publish
  <2>3. HandInv' /\ ChosenInv'
    BY <2>2, Steps DEF HandInv, ChosenInv
  <2>4. S \subseteq OfSource(s)
    BY FilesAssumption
  <2>5. file' = [t \in Files |-> file'[t]] /\ \A t \in Files : file'[t] \subseteq OfSource(t)
    BY <2>1, <2>4 DEF ListedInv
  <2>6. QED BY <2>2, <2>3, <2>5, RowsStay
<1>5. ASSUME NEW i \in Ids, MakeStamp(i) PROVE IInv' /\ Visible' = Visible
  <2>1. UNCHANGED <<known, active, shown, count, file, at, got, accepted>>
    BY <1>5 DEF MakeStamp
  <2>2. HandInv' /\ ChosenInv'
    BY <2>1 DEF HandInv, ChosenInv, Visible
  <2>3. QED BY <2>1, <2>2, RowsStay DEF ListedInv
<1>6. CASE UNCHANGED sourceVars
  <2>1. UNCHANGED <<known, active, shown, count, file, at, got, accepted>>
    BY <1>6 DEF sourceVars
  <2>2. HandInv' /\ ChosenInv'
    BY <2>1 DEF HandInv, ChosenInv, Visible
  <2>3. QED BY <2>1, <2>2, RowsStay DEF ListedInv
<1>7. QED BY <1>1, <1>2, <1>3, <1>4, <1>5, <1>6
------------------------------------------------------------------------------
(* The steps that write *)

LEMMA Days ==
  ASSUME IInv, TourDay
  PROVE  IInv' /\ \A i \in Visible \ Visible' : Why(i)
<1> USE DEF IInv
<1>1. PICK written \in SUBSET OfSource("tourapi"), hidden \in SUBSET OfSource("tourapi") :
         /\ known' = known \cup written
         /\ active' = active \cup written
         /\ shown' = (shown \ hidden) \cup written
  BY DEF TourDay
<1>2. /\ at = 0 /\ at' = 1 /\ got' = Null /\ UNCHANGED <<count, file, stamped, accepted>>
  BY DEF TourDay, HandInv
<1>3. HandInv' /\ ChosenInv' /\ at' \in 0..HideThem
  BY <1>2, Steps DEF HandInv, ChosenInv
<1>4. ListedInv'
  BY <1>1, <1>2, SourcesAre DEF ListedInv
<1>5. CountInv'
  BY <1>2 DEF CountInv
<1>6. ASSUME NEW i \in Visible \ Visible' PROVE Why(i)
  <2>1. i \in hidden
    BY <1>1, <1>6 DEF Visible
  <2>2. QED BY <1>2, <2>1 DEF Why, OfSource
<1>7. QED BY <1>2, <1>3, <1>4, <1>5, <1>6

LEMMA Fetches ==
  ASSUME IInv, Fetch
  PROVE  IInv' /\ Visible' = Visible
<1> USE DEF IInv
<1>1. PICK end \in Ids, twice \in BOOLEAN :
         got' = [rows |-> Local({i \in file[Order[at]] : i <= end}), twice |-> twice]
  BY DEF Fetch
<1>2. /\ at \in DOMAIN Order
      /\ UNCHANGED <<known, active, shown, count, file, stamped, at, accepted>>
  BY DEF Fetch
<1>3. got'.rows \subseteq OfSource(Order[at])
  BY <1>1, <1>2, SourcesAre DEF ListedInv, Local
<1>4. IsFiniteSet(got'.rows)
  <2>1. end \in Nat /\ got'.rows \subseteq 0..end
    <3>1. got'.rows \subseteq Ids /\ Ids \subseteq Nat
      BY <1>3, SourcesAre, LinesAssumption
    <3>2. \A i \in got'.rows : i <= end
      BY <1>1 DEF Local
    <3>3. QED BY <3>1, <3>2
  <2>2. IsFiniteSet(0..end)
    <3>1. 0 \in Int /\ end \in Int
      BY <2>1
    <3>2. QED BY <3>1, FS_Interval
  <2>3. QED BY <2>1, <2>2, FS_Subset
<1>5. HandInv' /\ ChosenInv'
  BY <1>2, <1>3, <1>4, Steps DEF HandInv, ChosenInv
<1>6. QED BY <1>2, <1>5, RowsStay DEF ListedInv

(* A row leaves with the list of its source only, and the list kept half. *)
LEMMA Lists ==
  ASSUME IInv, TakeOver
  PROVE  IInv' /\ \A i \in Visible \ Visible' : Why(i)
<1> USE DEF IInv
<1> DEFINE s == Order[at]
<1>1. /\ at \in 1..Len(Order) /\ at' = at + 1 /\ got # Null /\ got' = Null
      /\ s \in Files /\ Acceptable(s)
      /\ known' = known \cup got.rows
      /\ active' = (active \ OfSource(s)) \cup got.rows
      /\ count' = [count EXCEPT ![s] = Cardinality(got.rows)]
      /\ accepted' = [accepted EXCEPT ![s] = got.rows]
      /\ UNCHANGED <<shown, file, stamped>>
  BY Steps, SourcesAre DEF TakeOver
<1>2. got.rows \subseteq OfSource(s) /\ IsFiniteSet(got.rows)
  BY <1>1, Steps DEF HandInv
<1> HIDE DEF s
<1>3. HandInv' /\ ChosenInv' /\ at' \in 0..HideThem
  BY <1>1, Steps DEF HandInv, ChosenInv
<1>4. ListedInv'
  <2>1. accepted' = [t \in Files |-> accepted'[t]] /\ accepted'[s] = got.rows
        /\ \A t \in Files \ {s} : accepted'[t] = accepted[t]
    BY <1>1 DEF ListedInv
  <2>2. known' \cap active' \cap OfSource(s) \subseteq accepted'[s]
    BY <1>1, <2>1
  <2>3. ASSUME NEW t \in Files \ {s}
        PROVE  known' \cap active' \cap OfSource(t) \subseteq accepted'[t]
    <3>1. OfSource(t) \cap OfSource(s) = {}
      BY SourcesAre
    <3>2. QED BY <1>1, <1>2, <2>1, <3>1 DEF ListedInv
  <2>4. known' \subseteq Ids
    BY <1>1, <1>2, SourcesAre DEF ListedInv
  <2>5. QED BY <1>1, <2>1, <2>2, <2>3, <2>4 DEF ListedInv
<1>5. CountInv'
  <2>1. Cardinality(got.rows) # Null
    BY <1>2, FS_CardinalityType, NullAssumption
  <2>2. QED BY <1>1, <2>1 DEF CountInv, ListedInv
<1>6. ASSUME NEW i \in Visible \ Visible' PROVE Why(i)
  <2>1. i \in known /\ i \in active /\ i \in OfSource(s) /\ i \notin got.rows
    BY <1>1, <1>6 DEF Visible
  <2>2. i \in accepted[s] /\ accepted'[s] = got.rows /\ Lines[i].source = s
    BY <1>1, <2>1 DEF ListedInv, OfSource
  <2>3. count[s] # Null /\ count[s] = Cardinality(accepted[s])
    BY <1>1, <2>2 DEF CountInv
  <2>4. 2 * Cardinality(got.rows) >= Cardinality(accepted[s])
    BY <1>1, <2>3 DEF Acceptable
  <2>5. QED BY <1>1, <2>1, <2>2, <2>4 DEF Why, LeftTheFile
<1>7. QED BY <1>1, <1>3, <1>4, <1>5, <1>6

LEMMA Mountains ==
  ASSUME IInv, RetireMountains
  PROVE  IInv' /\ \A i \in Visible \ Visible' : Why(i)
<1> USE DEF IInv
<1>1. /\ at = Retire /\ at' = Search /\ got' = Null
      /\ active' \subseteq active /\ active \ active' \subseteq OfSource("mountain100")
      /\ UNCHANGED <<known, shown, count, file, stamped, accepted>>
  BY DEF RetireMountains, HandInv
<1>2. HandInv' /\ ChosenInv' /\ at' \in 0..HideThem
  BY <1>1, Steps DEF HandInv, ChosenInv
<1>3. ListedInv' /\ CountInv'
  BY <1>1 DEF ListedInv, CountInv
<1>4. \A i \in Visible \ Visible' : Why(i)
  BY <1>1 DEF Visible, Why, OfSource
<1>5. QED BY <1>1, <1>2, <1>3, <1>4

LEMMA Searches ==
  ASSUME IInv, SearchDuplicates
  PROVE  IInv' /\ Visible' = Visible
<1> USE DEF IInv
<1>1. /\ at = Search /\ at' = HideThem
      /\ got'.rows = Duplicates(Visible, stamped) /\ got'.protected = stamped
      /\ UNCHANGED <<known, active, shown, count, file, stamped, accepted>>
  BY DEF SearchDuplicates, Candidates
<1>2. Visible' = Visible
  BY <1>1 DEF Visible
<1>3. HandInv' /\ at' \in 0..HideThem
  BY <1>1, Steps DEF HandInv
<1>4. ChosenInv'
  BY <1>1, <1>2 DEF ChosenInv
<1>5. QED BY <1>1, <1>3, <1>4, RowsStay DEF ListedInv

(* What is hidden is a duplicate of a row that stays. *)
LEMMA Hides ==
  ASSUME IInv, HideDuplicates
  PROVE  IInv' /\ \A i \in Visible \ Visible' : Why(i)
<1> USE DEF IInv
<1>1. /\ at = HideThem /\ at' = Idle /\ got' = Null
      /\ active' = active \ got.rows
      /\ UNCHANGED <<known, shown, count, file, stamped, accepted>>
  BY DEF HideDuplicates
<1>2. HandInv' /\ ChosenInv'
  BY <1>1, Steps DEF HandInv, ChosenInv
<1>3. ListedInv' /\ CountInv'
  BY <1>1 DEF ListedInv, CountInv
<1>4. Visible' = Visible \ got.rows /\ got.rows = Duplicates(Visible, got.protected)
  BY <1>1 DEF Visible, ChosenInv
<1>5. ASSUME NEW i \in Visible \ Visible' PROVE Why(i)
  <2>1. i \in Duplicates(Visible, got.protected) /\ Visible \subseteq Ids
    BY <1>4, <1>5 DEF ListedInv, Visible
  <2>2. i \notin got.protected
        /\ \E j \in Visible \ Duplicates(Visible, got.protected) : SamePlace(i, j)
    BY <2>1, DuplicateOfASurvivor
  <2>3. QED BY <1>1, <1>4, <2>2 DEF Why, WasDuplicate
<1>6. QED BY <1>1, <1>2, <1>3, <1>5

LEMMA StepIs ==
  ASSUME IInv, [Next]_sourceVars
  PROVE  IInv' /\ \A i \in Visible \ Visible' : Why(i)
BY Days, Fetches, Lists, Mountains, Searches, Hides, Quiet DEF Next, Run

LEMMA Inductive == Spec => []IInv
<1>1. IInv /\ [Next]_sourceVars => IInv'
  BY StepIs
<1>2. QED BY <1>1, Initially, PTL DEF Spec

(* "Other sources are reconciled only when a verified full list was received":  *)
(* for every set of files, however they shrink, are cut off or fail to arrive,  *)
(* a place goes by its own source's list or as a duplicate of one that is seen. *)
THEOREM NothingVanishesUnnamed == Spec => NothingVanishes
<1> DEFINE Named == \A i \in Visible \ Visible' : Why(i)
<1>1. IInv /\ [Next]_sourceVars => [Named]_sourceVars
  BY StepIs
<1>2. [Named]_sourceVars => [\A i \in Visible \ Visible' :
          \/ Lines[i].source = "tourapi" /\ at = 0
          \/ Lines[i].source = "mountain100"
          \/ LeftTheFile(i)
          \/ WasDuplicate(i)]_sourceVars
  BY DEF Why
<1> HIDE DEF Named
<1>3. QED BY <1>1, <1>2, Inductive, PTL DEF Spec, NothingVanishes
==============================================================================
