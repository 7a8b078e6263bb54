-------------------------------- MODULE Weather --------------------------------
(***************************************************************************)
(* WeatherService (app/services/weather.py): the forecast of the Korean    *)
(* weather service for the grid cell of a place, cached for half an hour,  *)
(* and that of another provider when it fails, cached for a quarter.       *)
(*                                                                         *)
(* Time is in minutes since a midnight; requests take no time.             *)
(***************************************************************************)
EXTENDS Integers, FiniteSets

CONSTANTS Spots, Cell,      \* rounded coordinates, and their cell of the grid
          BaseHours,        \* BASE_TIMES
          Starts, Minutes,  \* bounds: when it begins, and how many minutes are seen
          Step,             \* bound: the minutes between two looks at the clock
          MaxFallbacks,     \* 512
          Null

VARIABLES start, now,
          weather_cache,    \* <<cell, base>> -> the end of an entry and its slot
          fallback_cache,   \* spot -> the end of an entry and its time
          answer

weatherVars == <<start, now, weather_cache, fallback_cache, answer>>

Hour == 60
Day == 24 * Hour

(* Mutant: a forecast is asked for at the very hour of its base time. *)
base_datetime_early(time) ==
    LET hours == {h \in BaseHours : h <= (time % Day) \div Hour}
    IN IF hours # {} THEN (time \div Day) * Day + Hour * (CHOOSE h \in hours : \A i \in hours : i <= h)
       ELSE (time \div Day - 1) * Day + 23 * Hour

(* The last base time, or 23 o'clock of the day before, ten minutes after it. *)
base_datetime(time) ==
    LET available == time - 10
        hours == {h \in BaseHours : h <= (available % Day) \div Hour}
    IN IF hours # {} THEN (available \div Day) * Day + Hour * (CHOOSE h \in hours : \A i \in hours : i <= h)
       ELSE (available \div Day - 1) * Day + 23 * Hour

Entry(cache, k) == IF k \in DOMAIN cache THEN {cache[k]} ELSE {}
Live(cache, k) == {e \in Entry(cache, k) : e.until > now}
Put(cache, k, e) == [i \in DOMAIN cache \cup {k} |-> IF i = k THEN e ELSE cache[i]]
Empty == [i \in {} |-> Null]

WeatherInit ==
    /\ start \in Starts /\ now = start
    /\ weather_cache = Empty /\ fallback_cache = Empty
    /\ answer = Null

Key(p) == <<Cell[p], base_datetime(now)>>
Say(p, slot, source) == answer' = [place |-> p, at |-> now, slot |-> slot, source |-> source]

FallbackHit(p) ==
    /\ \E e \in Live(fallback_cache, p) : Say(p, e.slot, "open_meteo")
    /\ UNCHANGED <<start, now, weather_cache, fallback_cache>>

Asks(p) == Live(fallback_cache, p) = {}

CacheHit(p) ==
    /\ Asks(p)
    /\ \E e \in Live(weather_cache, Key(p)) : Say(p, e.slot, "kma")
    /\ UNCHANGED <<start, now, weather_cache, fallback_cache>>

(* The hours after the base time; the first that is not over. *)
Upcoming == LET over == now % Hour IN IF over = 0 THEN now ELSE now - over + Hour

AskProvider(p) ==
    /\ Asks(p) /\ Live(weather_cache, Key(p)) = {}
    /\ weather_cache' = Put(weather_cache, Key(p), [until |-> now + 30, slot |-> Upcoming])
    /\ Say(p, Upcoming, "kma")
    /\ UNCHANGED <<start, now, fallback_cache>>

(* No key, an error of the request or a list without a later hour; the answer *)
(* of the other provider is for the last quarter of an hour.                  *)
AskOther(p) ==
    /\ Asks(p) /\ Live(weather_cache, Key(p)) = {}
    /\ LET kept == IF Cardinality(DOMAIN fallback_cache) >= MaxFallbacks THEN Empty
                   ELSE fallback_cache
           time == now - (now % 15)
       IN /\ fallback_cache' = Put(kept, p, [until |-> now + 15, slot |-> time])
          /\ Say(p, time, "open_meteo")
    /\ UNCHANGED <<start, now, weather_cache>>

(* Both fail: 502; or an item of the first cannot be read: 500. *)
NoForecast(p) ==
    /\ Asks(p) /\ Live(weather_cache, Key(p)) = {}
    /\ answer' = Null
    /\ UNCHANGED <<start, now, weather_cache, fallback_cache>>

Elapse ==
    /\ now + Step <= start + Minutes
    /\ now' = now + Step
    /\ UNCHANGED <<start, weather_cache, fallback_cache, answer>>

WeatherNext == \/ \E p \in Spots : \/ FallbackHit(p) \/ CacheHit(p) \/ AskProvider(p)
                                   \/ AskOther(p) \/ NoForecast(p)
               \/ Elapse

WeatherSpec == WeatherInit /\ [][WeatherNext]_weatherVars

------------------------------------------------------------------------------
(* Whatever the two caches hold and whichever provider fails, a forecast that is *)
(* given is of an hour at most half an hour ago and at most an hour ahead; and   *)
(* the forecast asked for is the last one that has been out for ten minutes.     *)
ForecastIsCurrent ==
    /\ answer # Null => /\ answer.at - 30 <= answer.slot /\ answer.slot <= answer.at + Hour
    /\ LET base == base_datetime(now)
       IN /\ base + 10 <= now
          /\ \A h \in BaseHours, d \in -1..1 :
                LET other == (now \div Day + d) * Day + h * Hour
                IN other + 10 <= now => other <= base
==============================================================================
