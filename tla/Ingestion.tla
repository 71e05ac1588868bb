----------------------------- MODULE Ingestion -----------------------------
(***************************************************************************)
(* The ingestion worker: loops that poll a source, and the service's run   *)
(* as one transaction under the incident refresh lock -- store what is     *)
(* new, quarantine what is bad, choose the reference time, derive the      *)
(* current detections, report -- or, after any failure, as a second        *)
(* transaction that records it.                                            *)
(***************************************************************************)
EXTENDS SourceFeeds, FiniteSetsExt

CONSTANTS
    Runners,       \* polling loops
    SourceOf,      \* SourceOf[r]: the source r polls
    ProcessOf,     \* ProcessOf[r]: the worker process r runs in
    Responses,     \* Responses[s]: responses source s may give
    MaxTries,      \* RetryPolicy.max_attempts
    WindowLength,  \* clustering's temporal window
    StaleAfter,    \* the freshness limit of the live sources
    MaxClock,      \* bound: the time
    MaxRuns,       \* bound: runs begun
    MaxFaults,     \* bound: failing statements, lost commits and crashes
    MaxSetbacks    \* bound: how often the clock is set back

ASSUME IngestionAssumption ==
    /\ SourceOf \in [Runners -> {"nasa_firms", "nws", "replay"}]
    /\ ProcessOf \in [Runners -> {ProcessOf[r] : r \in Runners}]
    /\ MaxTries \in Nat \ {0}
    /\ \A r \in Runners : \A body \in Responses[SourceOf[r]] :
          /\ SourceOf[r] = "nasa_firms" => FirmsBody(body)
          /\ SourceOf[r] = "nws" => NwsBody(body)
          /\ SourceOf[r] = "replay" => ReplayBody(body)
    /\ {WindowLength, StaleAfter, MaxClock, MaxRuns, MaxFaults, MaxSetbacks} \subseteq Nat

VARIABLES
    clock,        \* the wall clock
    store,        \* source_observations
    quarantine,   \* rows of quarantined_observations
    status,       \* source_statuses by source
    derived,      \* the detections the incidents were last derived from
    run,          \* run[r]: what loop r is doing
    accepted,     \* history: observations reported as accepted
    landed,       \* history: when a run of the source last committed
    runs, faults, setbacks

vars == <<clock, store, quarantine, status, derived, run, accepted, landed,
          runs, faults, setbacks>>

Sources == {SourceOf[r] : r \in Runners}
Times == 0..MaxClock
Never == -1

NoBody == [feed |-> "none"]
Resting == [pc |-> "idle", tries |-> 0, attempted |-> 0, at |-> 0, body |-> NoBody,
            kept |-> {}, current |-> {}]

NoRow == [outcome |-> "none", attempted |-> Never, success |-> Never,
          accepted |-> 0, deduplicated |-> 0, quarantined |-> 0]

\* Program counters inside the transaction, which holds the refresh lock.
InTransaction == {"locked", "stored", "resolved", "refreshed"}

LockFree == \A r \in Runners : run[r].pc \notin InTransaction

Go(r, pc) == run' = [run EXCEPT ![r].pc = pc]
Rest(r) == run' = [run EXCEPT ![r] = Resting]
Fault == faults < MaxFaults /\ faults' = faults + 1

Database == <<store, quarantine, status, derived, accepted, landed>>

Init ==
    /\ clock = 0
    /\ store = {}
    /\ quarantine = 0
    /\ status = [s \in Sources |-> NoRow]
    /\ derived = [at |-> Never, detections |-> {}]
    /\ run = [r \in Runners |-> Resting]
    /\ accepted = 0
    /\ landed = [s \in Sources |-> Never]
    /\ runs = 0 /\ faults = 0 /\ setbacks = 0

-----------------------------------------------------------------------------
(* Fetching *)

Start(r) ==
    /\ run[r].pc = "idle"
    /\ runs < MaxRuns
    /\ runs' = runs + 1
    /\ run' = [run EXCEPT ![r].pc = "fetching", ![r].attempted = clock, ![r].at = clock]
    /\ UNCHANGED <<Database, clock, faults, setbacks>>

\* The source answers; a batch that cannot be built is a failed fetch.
Answer(r) ==
    /\ run[r].pc = "fetching"
    /\ \E body \in Responses[SourceOf[r]] :
          run' = [run EXCEPT ![r].pc = IF BatchOf(body).raised THEN "failed" ELSE "waiting",
                             ![r].body = body]
    /\ UNCHANGED <<Database, clock, runs, faults, setbacks>>

\* Faulty: the attempts are not counted.
RetryForever(r) ==
    /\ run[r].pc = "fetching"
    /\ SourceOf[r] # "replay"
    /\ run' = [run EXCEPT ![r].tries = (@ + 1) % MaxTries]
    /\ UNCHANGED <<Database, clock, runs, faults, setbacks>>

\* A status or a transport error worth another try, until the last one.
Retry(r) ==
    /\ run[r].pc = "fetching"
    /\ SourceOf[r] # "replay"
    /\ run' = [run EXCEPT ![r].tries = @ + 1,
                          ![r].pc = IF run[r].tries + 1 = MaxTries THEN "failed" ELSE @]
    /\ UNCHANGED <<Database, clock, runs, faults, setbacks>>

\* Any other status or transport error.
Refuse(r) ==
    /\ run[r].pc = "fetching"
    /\ SourceOf[r] # "replay"
    /\ Go(r, "failed")
    /\ UNCHANGED <<Database, clock, runs, faults, setbacks>>

-----------------------------------------------------------------------------
(* The run's transaction *)

\* Faulty: the lock is not taken.
AcquireNothing(r) ==
    /\ run[r].pc = "waiting"
    /\ Go(r, "locked")
    /\ UNCHANGED <<Database, clock, runs, faults, setbacks>>

Acquire(r) ==
    /\ run[r].pc = "waiting"
    /\ LockFree
    /\ Go(r, "locked")
    /\ UNCHANGED <<Database, clock, runs, faults, setbacks>>

Identity(reading) == <<reading.source, reading.id>>

\* One row per identity, the batch's first; a stored one is left as it is.
Inserted(batch) ==
    LET rows == DOMAIN batch.observations
        identity(i) == Identity(batch.observations[i])
        new == {i \in rows : \A reading \in store : Identity(reading) # identity(i)}
    IN {batch.observations[i] : i \in {k \in new :
            \A j \in rows : j < k => identity(j) # identity(k)}}

Store(r) ==
    /\ run[r].pc = "locked"
    /\ run' = [run EXCEPT ![r].pc = "stored", ![r].kept = Inserted(BatchOf(run[r].body))]
    /\ UNCHANGED <<Database, clock, runs, faults, setbacks>>

\* Faulty: only attempts are looked at, and failures rewrite those.
OperationalReferenceAttempts(r) ==
    Max({run[r].attempted} \cup {status[s].attempted : s \in Sources})

\* The package's end, or the latest time any status row knows.
OperationalReference(r) ==
    IF run[r].body.feed = "replay" THEN run[r].body.end
    ELSE Max({run[r].attempted}
             \cup UNION {{status[s].attempted, status[s].success} : s \in Sources})

Resolve(r) ==
    /\ run[r].pc = "stored"
    /\ run' = [run EXCEPT ![r].pc = "resolved", ![r].at = OperationalReference(r)]
    /\ UNCHANGED <<Database, clock, runs, faults, setbacks>>

\* Fires of the window that ends at the reference, both ends included.
CurrentDetections(readings, at) ==
    {reading \in readings : reading.kind = "fire" /\ reading.at \in (at - WindowLength)..at}

Refresh(r) ==
    /\ run[r].pc = "resolved"
    /\ run' = [run EXCEPT ![r].pc = "refreshed",
                          ![r].current = CurrentDetections(store \cup run[r].kept, run[r].at)]
    /\ UNCHANGED <<Database, clock, runs, faults, setbacks>>

\* write_quarantine: a row for each failure, each time it is fetched.
Quarantined(r) == BatchOf(run[r].body).failures

\* The row of _record_source_success.
Success(r) ==
    [outcome |-> "success", attempted |-> run[r].at, success |-> run[r].at,
     accepted |-> Cardinality(run[r].kept),
     deduplicated |-> Cardinality(DOMAIN BatchOf(run[r].body).observations) - Cardinality(run[r].kept),
     quarantined |-> Quarantined(r)]

\* Everything the transaction wrote becomes visible at once.
Apply(r) ==
    /\ run[r].pc = "refreshed"
    /\ store' = store \cup run[r].kept
    /\ quarantine' = quarantine + Quarantined(r)
    /\ status' = [status EXCEPT ![SourceOf[r]] = Success(r)]
    /\ derived' = [at |-> run[r].at, detections |-> run[r].current]
    /\ accepted' = accepted + Cardinality(run[r].kept)
    /\ landed' = [landed EXCEPT ![SourceOf[r]] = clock]
    /\ UNCHANGED <<clock, runs, setbacks>>

Commit(r) ==
    /\ Apply(r)
    /\ Rest(r)
    /\ UNCHANGED faults

\* The commit took effect and its answer was lost: the run has failed.
LoseCommit(r) ==
    /\ Apply(r)
    /\ Go(r, "failed")
    /\ Fault

\* A statement fails; the transaction is rolled back and frees the lock.
Abort(r) ==
    /\ run[r].pc \in InTransaction
    /\ Fault
    /\ Go(r, "failed")
    /\ UNCHANGED <<Database, clock, runs, setbacks>>

-----------------------------------------------------------------------------
(* The second transaction, after a failed fetch or run *)

\* The row of _record_source_failure: last_success_at stays as it was.
Failure(r) ==
    [NoRow EXCEPT !.outcome = "failed", !.attempted = run[r].at,
                  !.success = status[SourceOf[r]].success]

\* It takes the lock, writes one row and commits.
RecordFailure(r) ==
    /\ run[r].pc = "failed"
    /\ LockFree
    /\ status' = [status EXCEPT ![SourceOf[r]] = Failure(r)]
    /\ Rest(r)
    /\ UNCHANGED <<clock, store, quarantine, derived, accepted, landed, runs, faults, setbacks>>

\* It fails too; the worker swallows the error and sleeps.
LoseFailure(r) ==
    /\ run[r].pc = "failed"
    /\ Fault
    /\ Rest(r)
    /\ UNCHANGED <<Database, clock, runs, setbacks>>

-----------------------------------------------------------------------------
(* The environment *)

\* A worker process dies with all its loops.
Crash(p) ==
    /\ \E r \in Runners : ProcessOf[r] = p /\ run[r].pc # "idle"
    /\ Fault
    /\ run' = [r \in Runners |-> IF ProcessOf[r] = p THEN Resting ELSE run[r]]
    /\ UNCHANGED <<Database, clock, runs, setbacks>>

Tick ==
    /\ clock < MaxClock
    /\ clock' = clock + 1
    /\ UNCHANGED <<Database, run, runs, faults, setbacks>>

SetBack ==
    /\ setbacks < MaxSetbacks
    /\ clock > 0
    /\ clock' = clock - 1
    /\ setbacks' = setbacks + 1
    /\ UNCHANGED <<Database, run, runs, faults>>

RunStep(r) ==
    \/ Start(r) \/ Answer(r) \/ Retry(r) \/ Refuse(r)
    \/ Acquire(r) \/ Store(r) \/ Resolve(r) \/ Refresh(r)
    \/ Commit(r) \/ LoseCommit(r) \/ Abort(r) \/ RecordFailure(r) \/ LoseFailure(r)

Next ==
    \/ \E r \in Runners : RunStep(r)
    \/ \E r \in Runners : Crash(ProcessOf[r])
    \/ Tick \/ SetBack

Spec == Init /\ [][Next]_vars

\* A request answers or times out, a transaction goes on or fails, and
\* PostgreSQL grants the advisory lock in the order it was asked for.
Fairness ==
    \A r \in Runners :
        /\ WF_vars(\/ Answer(r) \/ Retry(r) \/ Refuse(r)
                   \/ Store(r) \/ Resolve(r) \/ Refresh(r) \/ Commit(r))
        /\ SF_vars(Acquire(r) \/ RecordFailure(r))

FairSpec == Spec /\ Fairness

-----------------------------------------------------------------------------
(* What the status endpoint shows *)

\* Only the live sources have a policy.
Freshness(s) ==
    IF status[s].success = Never \/ s = "replay" THEN "unavailable"
    ELSE IF status[s].outcome = "success" /\ clock - status[s].success <= StaleAfter
         THEN "fresh" ELSE "stale"

-----------------------------------------------------------------------------
(* Properties *)

\* What a source may hand over in one of its responses.
Readings ==
    UNION {UNION {{BatchOf(body).observations[i] : i \in DOMAIN BatchOf(body).observations} :
                     body \in Responses[SourceOf[r]]} : r \in Runners}

StatusRow ==
    [ outcome : {"none", "success", "failed"}, attempted : Int, success : Int,
      accepted : Nat, deduplicated : Nat, quarantined : Nat ]

Run ==
    [ pc : InTransaction \cup {"idle", "fetching", "waiting", "failed"},
      tries : Nat, attempted : Times, at : Int,
      body : {NoBody} \cup UNION {Responses[SourceOf[r]] : r \in Runners},
      kept : SUBSET Readings, current : SUBSET Readings ]

\* Every variable has its type; readings come from the sources' responses
\* (source_observations, source_statuses, IngestionService.run_source).
TypeOK ==
    /\ clock \in Times
    /\ store \in SUBSET Readings /\ IsFiniteSet(store)
    /\ quarantine \in Nat
    /\ status \in [Sources -> StatusRow]
    /\ derived \in [at : Int, detections : SUBSET Readings]
    /\ run \in [Runners -> Run]
    /\ accepted \in Nat
    /\ landed \in [Sources -> Times \cup {Never}]
    /\ runs \in Nat /\ faults \in Nat /\ setbacks \in Nat

\* A stored reading is in range and its identity is its alone, whatever a
\* response repeats and two workers store (NormalizedObservation and the unique
\* constraint of source_observations, which upsert_many leaves to the database).
OneRowPerIdentity ==
    /\ \A reading \in store : InRange(reading.lon, reading.lat)
    /\ \A one, other \in store : Identity(one) = Identity(other) => one = other

\* However many workers poll a source, whatever they repeat, lose or crash
\* on, the accepted counts of the committed runs add up to the readings
\* stored: a reading is accepted once (ObservationRepository.upsert_many).
AcceptedOnce == accepted = Cardinality(store)

\* The incidents are always those of every committed reading at the last
\* reference time: no run derives them from readings that have been added
\* to since (the refresh lock held from the first write to the commit).
DerivedMatchesStore ==
    derived.at # Never => derived.detections = CurrentDetections(store, derived.at)

\* What a run reports covers its response: each row that is not blank is
\* accepted, deduplicated or quarantined (FirmsAdapter.fetch,
\* NwsAdapter.fetch, IngestionService.run_source).
EveryRowCounted ==
    [][\A r \in Runners :
          run[r].pc = "refreshed" /\ status'[SourceOf[r]] # status[SourceOf[r]] =>
              LET row == status'[SourceOf[r]]
              IN row.accepted + row.deduplicated + row.quarantined = Offered(run[r].body)]_vars

\* Across the live sources, each run that commits takes a reference at or after
\* every one before it, although attempts commit out of order, failures rewrite
\* the last attempt and the clock may be set back (_resolve_operational_reference).
LatestSuccess == Max({status[s].success : s \in Sources \ {"replay"}})
LiveRefreshForward ==
    [][\A s \in Sources \ {"replay"} :
          status'[s].success # status[s].success => status'[s].success >= LatestSuccess]_vars

\* A source shown as fresh has committed a run within its limit of now,
\* while the clock was never set back and replays end in the past
\* (_source_freshness over the references the runs chose).
FreshIsRecent ==
    setbacks = 0 => \A s \in Sources : Freshness(s) = "fresh" => clock - landed[s] <= StaleAfter

\* The last attempt shown of a live source that one loop polls never goes back
\* (run_forever polls a source again only when its run has ended).
Lone(s) == \A one, other \in Runners : {SourceOf[one], SourceOf[other]} = {s} => one = other
AttemptsForward ==
    [][setbacks = 0 => \A s \in Sources \ {"replay"} :
          Lone(s) => status'[s].attempted >= status[s].attempted]_vars

\* The tables are true of what was fetched: counts, incidents and freshness.
StoreSound ==
    /\ TypeOK /\ OneRowPerIdentity /\ AcceptedOnce
    /\ DerivedMatchesStore /\ FreshIsRecent

\* Neither the reference of live runs nor the attempts shown go back.
NothingGoesBack == LiveRefreshForward /\ AttemptsForward

\* Every run ends, whatever the source answers and whatever fails
\* (fetch_with_retry gives up, every failure frees the lock).  Runs begun are
\* bounded here, so each ends just if all are over at some time.
RunsEnd == (\E r \in Runners : run[r].pc # "idle") ~> (\A r \in Runners : run[r].pc = "idle")
=============================================================================
