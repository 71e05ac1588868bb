---------------------------- MODULE SourceFeeds ----------------------------
(***************************************************************************)
(* What an adapter makes of one response: the FIRMS table (one reading or  *)
(* one failure per row), the NWS observation (one reading or one failure   *)
(* in all) and the replay package.  No state: module Ingestion feeds these *)
(* batches to the service.                                                 *)
(*                                                                         *)
(* A field is kept as far as the parsers tell values apart.  Positions are *)
(* in units of 10^-6 degree and times in half seconds, finer than the      *)
(* identities, which round to 10^-5 degree and, for NWS, to a second.      *)
(***************************************************************************)
EXTENDS Integers, Sequences, FiniteSets

Field(kind) == [kind |-> kind, n |-> 0]
Blank == Field("blank")        \* missing, null or white space
Text == Field("text")          \* not of the expected form
Infinite == Field("infinite")  \* float() gives inf or nan
Naive == Field("naive")        \* a time without an offset
Extreme == Field("extreme")    \* a time whose UTC value Python cannot hold
Number(n) == [kind |-> "number", n |-> n]

IsNumber(field) == field.kind = "number"

Degree == 1000000
Rounded(position) == (position + 5) \div 10
Second(time) == time \div 2

\* NormalizedObservation's own ranges.
InRange(lon, lat) ==
    /\ lon \in -180 * Degree .. 180 * Degree
    /\ lat \in -90 * Degree .. 90 * Degree

\* What an adapter returns: its readings by the place they stand at in the
\* response, and how many failures.  raised: an exception the adapter does not
\* turn into a failure.
Batch(observations, failures) ==
    [observations |-> observations, failures |-> failures, raised |-> FALSE]
EmptyBatch == Batch(<<>>, 0)
OneFailure == Batch(<<>>, 1)
RaisedBatch == [EmptyBatch EXCEPT !.raised = TRUE]

-----------------------------------------------------------------------------
(* FIRMS *)

Confidences == {1, 2, 3}  \* l, n, h

\* sensor stands for the satellite and instrument, whatever their case.
FirmsRowValid(row) ==
    /\ row.shape = "columns"
    /\ \A field \in {"lon", "lat", "at", "sensor"} : IsNumber(row[field])
    /\ row.confidence.n \in Confidences
    /\ row.brightness = Blank \/ IsNumber(row.brightness)
    /\ InRange(row.lon.n, row.lat.n)

FirmsReading(row) ==
    [source |-> "nasa_firms", kind |-> "fire",
     id |-> <<row.sensor.n, row.at.n, Rounded(row.lat.n), Rounded(row.lon.n)>>,
     at |-> row.at.n, lon |-> row.lon.n, lat |-> row.lat.n,
     value |-> row.confidence.n]

\* Faulty: a row that does not parse ends the table.
FirmsBatchCut(body) ==
    LET given == {i \in DOMAIN body.rows :
                    /\ body.rows[i].shape # "blank"
                    /\ \A j \in 1 .. i - 1 : body.rows[j].shape # "malformed"}
        valid == {i \in given : FirmsRowValid(body.rows[i])}
    IN Batch([i \in valid |-> FirmsReading(body.rows[i])], Cardinality(given \ valid))

\* An empty response is an empty batch; a header that is no CSV loses the
\* whole table to one failure; blank rows are skipped.
FirmsBatch(body) ==
    LET given == {i \in DOMAIN body.rows : body.rows[i].shape # "blank"}
        valid == {i \in given : FirmsRowValid(body.rows[i])}
    IN CASE body.header = "none" -> EmptyBatch
         [] body.header = "malformed" -> OneFailure
         [] OTHER -> Batch([i \in valid |-> FirmsReading(body.rows[i])],
                           Cardinality(given \ valid))

-----------------------------------------------------------------------------
(* NWS *)

HasValue(measurement) == measurement.shape = "object" /\ IsNumber(measurement.value)

Measured(measurement, unit) == HasValue(measurement) /\ measurement.unit = unit

\* m/s in units of 0.1: kilometres per hour are divided by 3.6.
WindSpeed(measurement) ==
    IF measurement.unit = "km_h-1" THEN (10 * measurement.value.n) \div 36
    ELSE measurement.value.n

\* WeatherObservation's own ranges.
WindInRange(speed, direction) == WindSpeed(speed) >= 0 /\ direction.value.n \in 0..359

\* Absent, or without a value, or a measurement like the others.
OptionalMeasured(measurement, unit) ==
    \/ measurement.shape = "missing"
    \/ measurement.shape = "object" /\ measurement.value = Blank
    \/ Measured(measurement, unit)

Located(body) == body.geometry = "Point" /\ IsNumber(body.lon) /\ IsNumber(body.lat)

NwsValid(body) ==
    /\ Located(body)
    /\ InRange(body.lon.n, body.lat.n)
    /\ HasValue(body.speed) /\ body.speed.unit \in {"km_h-1", "m_s-1"}
    /\ Measured(body.direction, "degree")
    /\ WindInRange(body.speed, body.direction)
    /\ OptionalMeasured(body.temperature, "degC")

NwsReading(body) ==
    [source |-> "nws", kind |-> "weather",
     id |-> <<Second(body.at.n), Rounded(body.lat.n), Rounded(body.lon.n)>>,
     at |-> body.at.n, lon |-> body.lon.n, lat |-> body.lat.n,
     value |-> WindSpeed(body.speed)]

\* The time is read first: one that Python cannot turn into UTC raises
\* OverflowError, which the adapter does not catch.
NwsBatch(body) ==
    IF body.shape # "object" THEN OneFailure
    ELSE CASE body.at = Extreme -> RaisedBatch
           [] IsNumber(body.at) /\ NwsValid(body) -> Batch(<<NwsReading(body)>>, 0)
           [] OTHER -> OneFailure

-----------------------------------------------------------------------------
(* Replay *)

\* Every observation of the package, with the package's end as reference.
ReplayBatch(body) == Batch(body.observations, 0)

BatchOf(body) ==
    CASE body.feed = "firms" -> FirmsBatch(body)
      [] body.feed = "nws" -> NwsBatch(body)
      [] OTHER -> ReplayBatch(body)

\* The responses a source's adapter is handed: a table, whose header decides how
\* it is read, a document, or the replay package, whose readings were validated
\* when it was loaded (NormalizedObservation) and whose period is over.
Indexed(seq) == Len(seq) \in Nat /\ DOMAIN seq = 1 .. Len(seq)
FirmsBody(body) ==
    /\ body.feed = "firms"
    /\ body.header \in {"none", "malformed", "columns"}
    /\ Indexed(body.rows)
NwsBody(body) == body.feed = "nws"
ReplayBody(body) ==
    /\ body.feed = "replay"
    /\ body.end \in Int /\ body.end <= 0
    /\ Indexed(body.observations)
    /\ \A i \in DOMAIN body.observations :
          InRange(body.observations[i].lon, body.observations[i].lat)

\* What a response offers: the rows that must be accounted for.
Offered(body) ==
    CASE body.feed = "replay" -> Len(body.observations)
      [] body.feed = "nws" -> 1
      [] body.feed = "firms" /\ body.header = "none" -> 0
      [] body.feed = "firms" /\ body.header = "malformed" -> 1
      [] body.feed = "firms" /\ body.header = "columns" ->
            Cardinality({i \in DOMAIN body.rows : body.rows[i].shape # "blank"})
=============================================================================
