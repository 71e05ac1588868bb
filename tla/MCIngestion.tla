---------------------------- MODULE MCIngestion ----------------------------
(* An instance of Ingestion: few responses, each hitting another branch. *)
EXTENDS Ingestion

Row(shape, at, lon) ==
    [shape |-> shape, at |-> at, lon |-> lon, lat |-> Number(90 * Degree),
     sensor |-> Number(1), confidence |-> Number(1), brightness |-> Blank]
Fire(at, lon) == Row("columns", Number(at), Number(lon))
Table(header, rows) == [feed |-> "firms", header |-> header, rows |-> rows]

\* Two rows of one identity, a new one, one out of range, one that is no CSV.
TableA == Table("columns", <<Fire(1, 12), Row("malformed", Blank, Blank), Fire(1, 14)>>)
TableB == Table("columns", <<Fire(1, 12), Row("blank", Blank, Blank), Fire(2, 18),
                             Fire(1, 180 * Degree + 1)>>)
TableC == Table("columns",
    <<Row("extra", Number(1), Number(1)), Row("columns", Text, Number(1)),
      [Fire(1, 12) EXCEPT !.confidence = Text], [Fire(1, 12) EXCEPT !.brightness = Infinite]>>)

Reading(value, unit) == [shape |-> "object", value |-> Number(value), unit |-> unit]
Station(at) ==
    [feed |-> "nws", shape |-> "object", at |-> at, geometry |-> "Point",
     lon |-> Number(-5), lat |-> Number(5), speed |-> Reading(36, "km_h-1"),
     direction |-> Reading(359, "degree"), temperature |-> [shape |-> "missing"]]

FirmsSmall == {TableA, TableB}
FirmsTables == FirmsSmall \cup {TableC, Table("none", <<>>), Table("malformed", <<Fire(1, 1)>>)}
StationBodies ==
    {Station(Number(1)), Station(Number(2)), Station(Extreme), Station(Naive),
     [Station(Number(3)) EXCEPT !.speed = Reading(-1, "m_s-1")],
     [Station(Number(3)) EXCEPT !.direction = Reading(360, "degree")],
     [Station(Number(3)) EXCEPT !.temperature = Reading(20, "degF")],
     [feed |-> "nws", shape |-> "scalar"]}
Package ==
    [feed |-> "replay", end |-> 0,
     observations |-> <<[FirmsReading(Fire(0, 12)) EXCEPT !.source = "recorded"],
                        [FirmsReading(Fire(0, 12)) EXCEPT !.source = "recorded"]>>]

\* One worker has a loop for each live source; another polls one of them, and
\* a replay is loaded.
Loops == {"firms loop", "nws loop", "other firms loop", "replay"}
LoopSource == [r \in Loops |-> CASE r = "nws loop" -> "nws"
                                 [] r = "replay"   -> "replay"
                                 [] OTHER          -> "nasa_firms"]
LoopProcess == [r \in Loops |-> IF r \in {"firms loop", "nws loop"} THEN "worker" ELSE r]
AllResponses == [s \in {"nasa_firms", "nws", "replay"} |->
                    CASE s = "nws"    -> StationBodies
                      [] s = "replay" -> {Package}
                      [] OTHER        -> FirmsTables]

-----------------------------------------------------------------------------
(* What a behaviour does of it. *)

VARIABLE script

\* One worker, failing statements, lost commits and crashes.
Worker == [ loops |-> {"firms loop", "nws loop"},
            bodies |-> FirmsSmall \cup {Station(Number(1)), Station(Extreme)},
            tries |-> 2, clock |-> 2, runs |-> 2, faults |-> 1, setbacks |-> 0 ]

\* The same with every kind of response and without faults.
Feeds == [Worker EXCEPT !.bodies = FirmsTables \cup StationBodies, !.clock = 0, !.faults = 0]

\* Two workers on one source, a replay, and a clock set back.
Pair == [ loops |-> {"firms loop", "other firms loop", "replay"},
          bodies |-> FirmsSmall \cup {Package},
          tries |-> 0, clock |-> 1, runs |-> 3, faults |-> 0, setbacks |-> 1 ]

\* The same with a fault.
FaultyPair == [Pair EXCEPT !.runs = 2, !.faults = 1]

WithinScript ==
    /\ \A r \in Runners :
          /\ run[r].pc # "idle" => r \in script.loops
          /\ run[r].body \in script.bodies \cup {NoBody}
          /\ run[r].tries <= script.tries
    /\ clock <= script.clock
    /\ runs <= script.runs
    /\ faults <= script.faults
    /\ setbacks <= script.setbacks

Scripted == UNCHANGED script /\ WithinScript'

PlayInit == Init /\ script \in {Worker, Feeds, Pair, FaultyPair}

\* The disjuncts of Next, each as far as the script goes.
PlayNext ==
    \/ \E r \in Runners :
          \/ Start(r) /\ Scripted
          \/ Answer(r) /\ Scripted
          \/ Retry(r) /\ Scripted
          \/ Refuse(r) /\ Scripted
          \/ Acquire(r) /\ Scripted
          \/ Store(r) /\ Scripted
          \/ Resolve(r) /\ Scripted
          \/ Refresh(r) /\ Scripted
          \/ Commit(r) /\ Scripted
          \/ LoseCommit(r) /\ Scripted
          \/ Abort(r) /\ Scripted
          \/ RecordFailure(r) /\ Scripted
          \/ LoseFailure(r) /\ Scripted
          \/ Crash(ProcessOf[r]) /\ Scripted
    \/ Tick /\ Scripted
    \/ SetBack /\ Scripted

Play == PlayInit /\ [][PlayNext]_<<vars, script>> /\ Fairness
=============================================================================
