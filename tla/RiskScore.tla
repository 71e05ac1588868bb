----------------------------- MODULE RiskScore -----------------------------
(***************************************************************************)
(* The risk heuristic: six factors in percent, their weights in percent,   *)
(* and the weather observation they are read from.  Pure operators; a      *)
(* factor is rounded down where the program keeps a float.                 *)
(***************************************************************************)
EXTENDS Integers, FiniteSets, FiniteSetsExt

CONSTANTS
    Buffer,          \* exposure_buffer_meters
    SearchRadius,    \* weather_search_radius_meters
    FireLimit,       \* fire_freshness_seconds
    WeatherLimit,    \* weather_freshness_seconds
    FullPopulation,  \* population_saturation
    FullFacilities,  \* critical_facility_saturation_count
    FullWind         \* wind_speed_saturation_mps

ASSUME RiskAssumption ==
    {Buffer, SearchRadius, FireLimit, WeatherLimit, FullPopulation, FullFacilities,
     FullWind} \subseteq Nat \ {0}

Factors == {"proximity", "population", "critical_facilities", "wind_alignment",
            "detection_confidence", "source_freshness"}
Weight == [proximity |-> 30, population |-> 25, critical_facilities |-> 20,
           wind_alignment |-> 15, detection_confidence |-> 5, source_freshness |-> 5]

Clamp(percent) == Max({0, Min({100, percent})})

\* Places are on a line: an asset is east (90) or west (270) of the fire.
Gap(one, other) == IF one >= other THEN one - other ELSE other - one
Bearing(from, to) == IF to > from THEN 90 ELSE 270

Exposed(assets, place) == {a \in assets : Gap(a.x, place) <= Buffer}

\* The newest observation in reach, then the nearest, then by identity.
NoWeather == [id |-> 0, x |-> 0, at |-> 0, speed |-> 0, from |-> 0]

SelectWeather(observations, place, reference) ==
    LET reach == {w \in observations : w.at <= reference /\ Gap(w.x, place) <= SearchRadius}
        newest == {w \in reach : \A v \in reach : v.at <= w.at}
        near == {w \in newest : \A v \in newest : Gap(w.x, place) <= Gap(v.x, place)}
    IN IF reach = {} THEN NoWeather
       ELSE CHOOSE w \in near : \A v \in near : w.id <= v.id

\* (1 + cos angle) / 2 for the angles that occur here.
Alignment(spread, bearing) ==
    IF spread = bearing THEN 100
    ELSE IF (spread - bearing) % 180 = 0 THEN 0 ELSE 50

WindAlignment(weather, exposed, place) ==
    LET spread == (weather.from + 180) % 360
        along(a) == IF a.x = place THEN 100 ELSE Alignment(spread, Bearing(place, a.x))
    IN IF weather = NoWeather \/ exposed = {} THEN 0
       ELSE (Max({along(a) : a \in exposed}) * Min({weather.speed, FullWind})) \div FullWind

FreshnessFactor(age, limit) == Clamp(100 - (100 * age) \div limit)

\* Only detections up to the reference count; an active incident without
\* one fails the run (and the evaluation of this operator).
RiskFactors(detections, weather, exposed, place, reference) ==
    LET current == {d \in detections : d.at <= reference} IN
    [proximity |->
        IF exposed = {} THEN 0
        ELSE Clamp(100 - (100 * Min({Gap(a.x, place) : a \in exposed})) \div Buffer),
     population |->
        Clamp((100 * MapThenSumSet(LAMBDA a : a.population, {a \in exposed : a.kind = "community"}))
              \div FullPopulation),
     critical_facilities |->
        Clamp((100 * Cardinality({a \in exposed : a.kind \in {"hospital", "fire_station", "shelter"}}))
              \div FullFacilities),
     wind_alignment |-> WindAlignment(weather, exposed, place),
     detection_confidence |->
        MapThenSumSet(LAMBDA d : d.confidence, current) \div Cardinality(current),
     source_freshness |->
        Min({FreshnessFactor(reference - Max({d.at : d \in current}), FireLimit),
             IF weather = NoWeather THEN 0
             ELSE FreshnessFactor(reference - weather.at, WeatherLimit)})]

Score(factors) == MapThenSumSet(LAMBDA f : Weight[f] * factors[f], Factors) \div 100
=============================================================================
