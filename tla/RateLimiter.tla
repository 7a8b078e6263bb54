----------------------------- MODULE RateLimiter -----------------------------
(***************************************************************************)
(* RateLimiter.allow (app/deps/rate_limit.py), the table of a process that *)
(* says which calls of which client are answered.  buckets is the ordered  *)
(* dictionary, the oldest entry first; instead of the end of its window an *)
(* entry has the time that is left of it.                                  *)
(*                                                                         *)
(* Two histories no code keeps: ages[k] tells how long ago the calls of k  *)
(* since its last eviction were allowed, within one window; later[k] which *)
(* other clients have called since k did.                                  *)
(***************************************************************************)
EXTENDS Integers, FiniteSets, SequencesExt

CONSTANTS Keys, limit, window, capacity

ASSUME LimiterAssumption == limit \in Nat \ {0} /\ window \in Nat \ {0} /\ capacity \in Nat \ {0}

VARIABLES buckets, ages, later

limiterVars == <<buckets, ages, later>>

LimiterInit ==
    /\ buckets = <<>>
    /\ ages = [k \in Keys |-> <<>>]
    /\ later = [k \in Keys |-> {}]

------------------------------------------------------------------------------
(* Mutant: an entry keeps its place in the order. *)
RemovedAtEnd(k) == IF buckets # <<>> /\ Last(buckets).key = k THEN Front(buckets) ELSE buckets

(* self.buckets.pop(key, None) *)
Entered(k) == {i \in DOMAIN buckets : buckets[i].key = k}
Removed(k) == IF Entered(k) = {} THEN buckets
              ELSE RemoveAt(buckets, CHOOSE i \in Entered(k) : TRUE)
Current(k) == {b \in ToSet(buckets) : b.key = k /\ b.left > 0}

(* A refused call leaves the entry as it is, and moves it to the end. *)
Refused(k) == CHOOSE b \in Current(k) : TRUE

Refuse(k) ==
    /\ \E b \in Current(k) : b.count >= limit
    /\ buckets' = Append(Removed(k), Refused(k))
    /\ UNCHANGED ages

Counted(k) ==
    IF Current(k) = {} THEN [key |-> k, count |-> 1, left |-> window]
    ELSE [(CHOOSE b \in Current(k) : TRUE) EXCEPT !.count = @ + 1]

(* Mutant: only an entry whose window has ended is dropped. *)
RoomOfEnded(s) == IF Len(s) >= capacity /\ s[1].left = 0 THEN Tail(s) ELSE s

(* A full table drops its oldest entry, whether its window has ended or not. *)
Room(s) == IF Len(s) >= capacity THEN Tail(s) ELSE s
Dropped(k) == {b.key : b \in ToSet(Removed(k)) \ ToSet(Room(Removed(k)))}

Allow(k) ==
    /\ \A b \in Current(k) : b.count < limit
    /\ buckets' = Append(Room(Removed(k)), Counted(k))
    /\ ages' = [i \in Keys |-> IF i = k THEN Append(ages[i], 0)
                               ELSE IF i \in Dropped(k) THEN <<>> ELSE ages[i]]

allow(k) ==
    /\ Refuse(k) \/ Allow(k)
    /\ later' = [i \in Keys |-> IF i = k THEN {} ELSE later[i] \cup {k}]

(* Calls are in the order in which they were allowed: the first ones leave. *)
Older(s) ==
    LET kept == {i \in DOMAIN s : s[i] + 1 < window}
        gone == IF kept = {} THEN Len(s) ELSE Min(kept) - 1
    IN [i \in 1..(Len(s) - gone) |-> s[i + gone] + 1]

(* A unit of time passes. *)
Tick ==
    /\ buckets # <<>>
    /\ buckets' = [i \in DOMAIN buckets |->
                      [buckets[i] EXCEPT !.left = IF @ > 0 THEN @ - 1 ELSE 0]]
    /\ ages' = [k \in Keys |-> Older(ages[k])]
    /\ UNCHANGED later

LimiterNext == Tick \/ \E k \in Keys : allow(k)

LimiterSpec == LimiterInit /\ [][LimiterNext]_limiterVars

------------------------------------------------------------------------------
(* The table never holds more clients than it may, and a client that was not *)
(* dropped from it gets fewer than 2 * limit answers in any span of a window *)
(* (two windows that touch), at whatever times it calls.                     *)
WindowBound ==
    /\ Len(buckets) <= capacity
    /\ \A k \in Keys : Len(ages[k]) < 2 * limit

(* A call is refused only to a client whose limit of answers lies within the *)
(* last window, refused calls do not prolong the refusal, and a client is     *)
(* dropped only when capacity others have called since it did.               *)
NobodyStarved ==
    [][\A k \in Keys :
         /\ allow(k) /\ ages'[k] = ages[k] => Len(ages[k]) >= limit
         /\ \A i \in Keys \ {k} : allow(k) /\ ages[i] # <<>> /\ ages'[i] = <<>>
               => Cardinality(later[i] \cup {k}) >= capacity]_limiterVars
==============================================================================
