---------------------------- MODULE IngestionProofs ----------------------------
(***************************************************************************)
(* What the worker's tables and status rows promise, for every set of      *)
(* loops, processes and responses, every bound, and any number of failing  *)
(* statements, lost commits and crashes; and what the refreshes derive     *)
(* from them, for every history of readings.                               *)
(***************************************************************************)
EXTENDS Ingestion, MCIncidents, FiniteSetTheorems, WellFoundedInduction, TLAPS

-----------------------------------------------------------------------------
(* The invariant.                                                          *)

\* From the answer to the commit a run works on a batch of its own source.
Answered == InTransaction \cup {"waiting"}
BodyFits(r, u) ==
    u.pc \in Answered => u.body \in Responses[SourceOf[r]] /\ ~BatchOf(u.body).raised

\* What a run has written is still what it should write.
KeptFits(u) ==
    u.pc \in {"stored", "resolved", "refreshed"} => u.kept = Inserted(BatchOf(u.body))

\* A live run's reference is not before what any status row knows.
ReferenceFits(r, u) ==
    u.pc \in {"resolved", "refreshed"} /\ SourceOf[r] # "replay" =>
        \A s \in Sources : u.at >= status[s].attempted /\ u.at >= status[s].success

\* What it derived are the detections of what will be committed.
DerivedFits(u) ==
    u.pc = "refreshed" => u.current = CurrentDetections(store \cup u.kept, u.at)

\* The loop that alone polls a source has not fallen behind its status row.
LoneAhead(r, u) ==
    u.pc # "idle" /\ SourceOf[r] # "replay" /\ Lone(SourceOf[r]) =>
        u.at >= status[SourceOf[r]].attempted

\* Run r may stand at u.
RunFits(r, u) ==
    /\ BodyFits(r, u)
    /\ KeptFits(u)
    /\ ReferenceFits(r, u)
    /\ DerivedFits(u)
    /\ u.at <= MaxClock
    /\ setbacks = 0 => u.attempted <= clock /\ u.at <= clock /\ LoneAhead(r, u)

\* No row knows a time that is still to come, unless the clock was set back, and
\* a live source has committed at or after the reference it shows.
StatusFits(s) ==
    /\ status[s].attempted <= MaxClock /\ status[s].success <= MaxClock
    /\ setbacks = 0 =>
          /\ status[s].attempted <= clock /\ status[s].success <= clock
          /\ s = "replay" \/ status[s].success <= landed[s]

\* Who is in a transaction holds the refresh lock.
LockHeldByOne ==
    \A r, o \in Runners : run[r].pc \in InTransaction /\ run[o].pc \in InTransaction => r = o

Inv ==
    /\ TypeOK
    /\ OneRowPerIdentity
    /\ AcceptedOnce
    /\ DerivedMatchesStore
    /\ LockHeldByOne
    /\ \A r \in Runners : RunFits(r, run[r])
    /\ \A s \in Sources : StatusFits(s)

-----------------------------------------------------------------------------
(* Numbers and batches.                                                    *)

\* A nonempty set of integers below a bound has a greatest, and Max picks it.
LEMMA MaxIs ==
    ASSUME NEW S, S \subseteq Int, S # {}, NEW b \in Int, \A x \in S : x <= b
    PROVE  Max(S) \in S /\ \A y \in S : Max(S) >= y
<1> DEFINE R == OpToRel(<, Nat)
           D == {b - i : i \in S}
<1>1. D \subseteq Nat /\ D # {}
  OBVIOUS
<1>2. IsWellFoundedOn(R, Nat)
  BY NatLessThanWellFounded
<1>3. PICK d \in D : \A e \in D : ~(<<e, d>> \in R)
  <2> HIDE DEF D, R
  <2>1. QED
    BY <1>1, <1>2, WFMin
<1>4. \A e \in D : ~(e < d)
  BY <1>1, <1>3 DEF OpToRel
<1>5. PICK i \in S : d = b - i
  OBVIOUS
<1>6. ASSUME NEW j \in S PROVE i >= j
  <2>1. b - j \in D
    OBVIOUS
  <2>2. ~(b - j < b - i)
    BY <1>4, <1>5, <2>1
  <2>3. j \in Int /\ i \in Int
    OBVIOUS
  <2>4. QED
    BY <2>2, <2>3
<1>7. \E x \in S : \A y \in S : x >= y
  BY <1>6
<1>8. QED
  BY <1>7 DEF Max

\* Which response comes from which source.
LEMMA BodiesAre ==
    ASSUME NEW r \in Runners, NEW body \in Responses[SourceOf[r]]
    PROVE  \/ SourceOf[r] = "nasa_firms" /\ FirmsBody(body)
           \/ SourceOf[r] = "nws" /\ NwsBody(body)
           \/ SourceOf[r] = "replay" /\ ReplayBody(body)
<1>1. SourceOf[r] \in {"nasa_firms", "nws", "replay"}
  BY IngestionAssumption
<1>2. QED
  BY <1>1, IngestionAssumption

\* What an adapter returns: finitely many readings, in range and at places of
\* the response, and as many readings and failures as the response offers.
BatchFits(batch, offered) ==
    /\ IsFiniteSet(DOMAIN batch.observations)
    /\ DOMAIN batch.observations \subseteq Int
    /\ batch.failures \in Nat
    /\ \A i \in DOMAIN batch.observations :
          InRange(batch.observations[i].lon, batch.observations[i].lat)
    /\ ~batch.raised => Cardinality(DOMAIN batch.observations) + batch.failures = offered

\* Batches without readings.
LEMMA EmptyFits == BatchFits(Batch(<<>>, 0), 0) /\ BatchFits(Batch(<<>>, 1), 1)
<1>1. DOMAIN <<>> = {}
  OBVIOUS
<1>2. IsFiniteSet({}) /\ Cardinality({}) = 0
  BY FS_EmptySet
<1>3. QED
  BY <1>1, <1>2 DEF BatchFits, Batch

\* The table, row by row (FirmsAdapter.fetch).
LEMMA FirmsFits ==
    ASSUME NEW body, FirmsBody(body)
    PROVE  BatchFits(BatchOf(body), Offered(body))
<1> DEFINE given == {i \in DOMAIN body.rows : body.rows[i].shape # "blank"}
           valid == {i \in given : FirmsRowValid(body.rows[i])}
           readings == [i \in valid |-> FirmsReading(body.rows[i])]
<1>1. BatchOf(body) = FirmsBatch(body)
  BY DEF FirmsBody, BatchOf
<1>2. CASE body.header = "none"
  <2>1. FirmsBatch(body) = Batch(<<>>, 0) /\ Offered(body) = 0
    BY <1>2 DEF FirmsBody, FirmsBatch, EmptyBatch, Offered
  <2>2. QED
    BY <1>1, <2>1, EmptyFits
<1>3. CASE body.header = "malformed"
  <2>1. FirmsBatch(body) = Batch(<<>>, 1) /\ Offered(body) = 1
    BY <1>3 DEF FirmsBody, FirmsBatch, OneFailure, Offered
  <2>2. QED
    BY <1>1, <2>1, EmptyFits
<1>4. CASE body.header = "columns"
  <2>1. /\ FirmsBatch(body) = Batch(readings, Cardinality(given \ valid))
        /\ Offered(body) = Cardinality(given)
    BY <1>4 DEF FirmsBody, FirmsBatch, Offered
  <2>2. IsFiniteSet(DOMAIN body.rows) /\ DOMAIN body.rows \subseteq Int
    <3> DEFINE n == Len(body.rows)
    <3>1. n \in Nat /\ DOMAIN body.rows = 1 .. n
      BY DEF FirmsBody, Indexed
    <3> HIDE DEF n
    <3>2. QED
      BY <3>1, FS_Interval
  <2>3. /\ IsFiniteSet(given) /\ IsFiniteSet(valid) /\ IsFiniteSet(given \ valid)
        /\ valid \subseteq Int
    BY <2>2, FS_Subset
  <2>4. Cardinality(valid) + Cardinality(given \ valid) = Cardinality(given)
    <3>1. valid \subseteq given
      OBVIOUS
    <3> HIDE DEF given, valid
    <3>2. given \cap valid = valid
      BY <3>1
    <3>3. Cardinality(given \ valid) = Cardinality(given) - Cardinality(given \cap valid)
      BY <2>3, FS_Difference
    <3>4. Cardinality(valid) \in Nat /\ Cardinality(given) \in Nat
      BY <2>3, FS_CardinalityType
    <3>5. QED
      BY <3>2, <3>3, <3>4
  <2>5. ASSUME NEW i \in valid
        PROVE  InRange(readings[i].lon, readings[i].lat)
    BY DEF FirmsRowValid, FirmsReading
  <2>6. Cardinality(given \ valid) \in Nat
    BY <2>3, FS_CardinalityType
  <2>7. DOMAIN readings = valid
    OBVIOUS
  <2> HIDE DEF given, valid, readings
  <2>8. BatchFits(Batch(readings, Cardinality(given \ valid)), Cardinality(given))
    BY <2>3, <2>4, <2>5, <2>6, <2>7 DEF BatchFits, Batch
  <2>9. QED
    BY <1>1, <2>1, <2>8
<1>5. QED
  BY <1>2, <1>3, <1>4 DEF FirmsBody

\* The document (NwsAdapter.fetch).
LEMMA NwsFits ==
    ASSUME NEW body, NwsBody(body)
    PROVE  BatchFits(BatchOf(body), Offered(body))
<1>1. BatchOf(body) = NwsBatch(body) /\ Offered(body) = 1
  <2>1. body.feed = "nws"
    BY DEF NwsBody
  <2>2. BatchOf(body) = NwsBatch(body)
    BY <2>1 DEF BatchOf
  <2>3. Offered(body) = 1
    BY <2>1 DEF Offered
  <2>4. QED
    BY <2>2, <2>3
<1>2. CASE NwsBatch(body) = OneFailure
  BY <1>1, <1>2, EmptyFits DEF OneFailure
<1>3. CASE NwsBatch(body) = RaisedBatch
  BY <1>1, <1>3, FS_EmptySet DEF RaisedBatch, EmptyBatch, Batch, BatchFits
<1>4. CASE NwsBatch(body) = Batch(<<NwsReading(body)>>, 0) /\ NwsValid(body)
  <2>1. DOMAIN <<NwsReading(body)>> = {1}
    OBVIOUS
  <2>2. IsFiniteSet({1}) /\ Cardinality({1}) = 1
    BY FS_Singleton
  <2>3. InRange(NwsReading(body).lon, NwsReading(body).lat)
    BY <1>4 DEF NwsValid, NwsReading
  <2>4. QED
    BY <1>1, <1>4, <2>1, <2>2, <2>3 DEF Batch, BatchFits
<1>5. QED
  BY <1>2, <1>3, <1>4 DEF NwsBatch

\* The package (the replay adapter).
LEMMA ReplayFits ==
    ASSUME NEW body, ReplayBody(body)
    PROVE  BatchFits(BatchOf(body), Offered(body))
<1> DEFINE n == Len(body.observations)
<1>1. BatchOf(body) = Batch(body.observations, 0) /\ Offered(body) = n
  <2>1. body.feed = "replay"
    BY DEF ReplayBody
  <2>2. BatchOf(body) = Batch(body.observations, 0)
    BY <2>1 DEF BatchOf, ReplayBatch
  <2>3. Offered(body) = n
    BY <2>1 DEF Offered
  <2>4. QED
    BY <2>2, <2>3
<1>2. n \in Nat /\ DOMAIN body.observations = 1 .. n
  BY DEF ReplayBody, Indexed
<1> HIDE DEF n
<1>3. IsFiniteSet(1 .. n) /\ Cardinality(1 .. n) = n
  BY <1>2, FS_Interval
<1>4. QED
  BY <1>1, <1>2, <1>3 DEF BatchFits, Batch, ReplayBody, n

\* Every response that may come.
LEMMA BatchIs ==
    ASSUME NEW r \in Runners, NEW body \in Responses[SourceOf[r]]
    PROVE  BatchFits(BatchOf(body), Offered(body))
BY BodiesAre, FirmsFits, NwsFits, ReplayFits

\* Every reading of a response is one that sources may hand over.
LEMMA BatchReadings ==
    ASSUME NEW r \in Runners, NEW body \in Responses[SourceOf[r]],
           NEW i \in DOMAIN BatchOf(body).observations
    PROVE  BatchOf(body).observations[i] \in Readings
BY DEF Readings

\* What a run inserts: readings of its batch, no more than there are, each in
\* range, no two of one identity and none of an identity that is stored.
LEMMA InsertedIs ==
    ASSUME NEW r \in Runners, NEW body \in Responses[SourceOf[r]]
    PROVE  LET kept == Inserted(BatchOf(body)) IN
           /\ kept \in SUBSET Readings
           /\ IsFiniteSet(kept)
           /\ Cardinality(kept) <= Cardinality(DOMAIN BatchOf(body).observations)
           /\ \A reading \in kept : InRange(reading.lon, reading.lat)
           /\ \A one, other \in kept : Identity(one) = Identity(other) => one = other
           /\ \A one \in kept, other \in store : Identity(one) # Identity(other)
<1> DEFINE obs == BatchOf(body).observations
           rows == DOMAIN obs
           new == {i \in rows : \A reading \in store : Identity(reading) # Identity(obs[i])}
           first == {k \in new : \A j \in rows : j < k => Identity(obs[j]) # Identity(obs[k])}
           kept == {obs[i] : i \in first}
<1>1. Inserted(BatchOf(body)) = kept
  BY DEF Inserted
<1>2. IsFiniteSet(rows) /\ rows \subseteq Int /\ \A i \in rows : InRange(obs[i].lon, obs[i].lat)
  BY BatchIs DEF BatchFits
<1>3. \A i \in rows : obs[i] \in Readings
  BY BatchReadings
<1>4. /\ IsFiniteSet(first) /\ Cardinality(first) <= Cardinality(rows)
      /\ Cardinality(first) \in Nat /\ Cardinality(rows) \in Nat
  <2>1. first \in SUBSET rows
    OBVIOUS
  <2> HIDE DEF first, rows
  <2>2. IsFiniteSet(first) /\ Cardinality(first) <= Cardinality(rows)
    BY <1>2, <2>1, FS_Subset
  <2>3. QED
    BY <1>2, <2>2, FS_CardinalityType
<1>5. IsFiniteSet(kept) /\ Cardinality(kept) <= Cardinality(first) /\ Cardinality(kept) \in Nat
  <2> DEFINE f == [i \in first |-> obs[i]]
  <2>1. f \in Surjection(first, kept)
    <3> HIDE DEF first, obs
    <3>1. QED
      BY DEF Surjection
  <2> HIDE DEF f, first, kept
  <2>2. IsFiniteSet(kept) /\ Cardinality(kept) <= Cardinality(first)
    BY <1>4, <2>1, FS_Surjection
  <2>3. QED
    BY <2>2, FS_CardinalityType
<1>6. \A i, j \in first : Identity(obs[i]) = Identity(obs[j]) => i = j
  <2>1. ASSUME NEW i \in first, NEW j \in first, Identity(obs[i]) = Identity(obs[j]), i # j
        PROVE  FALSE
    <3>1. i \in rows /\ j \in rows /\ i \in Int /\ j \in Int
      BY <1>2
    <3>2. ~(i < j) /\ ~(j < i)
      BY <2>1, <3>1
    <3>3. QED
      BY <2>1, <3>1, <3>2
  <2>2. QED
    BY <2>1
<1>7. Cardinality(kept) <= Cardinality(rows)
  <2> HIDE DEF kept, first, rows
  <2>1. QED
    BY <1>4, <1>5
<1>8. kept \in SUBSET Readings /\ \A reading \in kept : InRange(reading.lon, reading.lat)
  BY <1>2, <1>3
<1>9. \A one, other \in kept : Identity(one) = Identity(other) => one = other
  BY <1>6
<1>10. \A one \in kept, other \in store : Identity(one) # Identity(other)
  OBVIOUS
<1> HIDE DEF kept
<1>11. QED
  BY <1>1, <1>5, <1>7, <1>8, <1>9, <1>10

-----------------------------------------------------------------------------
(* Steps of one run.                                                       *)

\* Where a run may stand depends on the tables, the clock and the setbacks only.
LEMMA FitsSame ==
    ASSUME UNCHANGED <<Database, clock, setbacks>>, NEW r \in Runners, NEW u, RunFits(r, u)
    PROVE  RunFits(r, u)'
BY DEF Database, RunFits, BodyFits, KeptFits, ReferenceFits, DerivedFits, LoneAhead, Inserted

\* A step that writes no table keeps the invariant if every run fits where it
\* stands then and the lock stays with one of them.
LEMMA QuietStep ==
    ASSUME Inv, UNCHANGED <<Database, clock, setbacks>>, runs' \in Nat, faults' \in Nat,
           run' \in [Runners -> Run],
           \A r \in Runners : RunFits(r, run'[r]),
           \A r, o \in Runners :
              run'[r].pc \in InTransaction /\ run'[o].pc \in InTransaction => r = o
    PROVE  Inv'
<1>1. TypeOK'
  BY DEF Inv, TypeOK, Database
<1>2. \A r \in Runners : RunFits(r, run[r])'
  <2>1. ASSUME NEW r \in Runners PROVE RunFits(r, run[r])'
    <3>1. PICK u : u = run'[r]
      OBVIOUS
    <3>2. RunFits(r, u)'
      BY <3>1, FitsSame
    <3>3. QED
      BY <3>1, <3>2
         DEF RunFits, BodyFits, KeptFits, ReferenceFits, DerivedFits, LoneAhead
  <2>2. QED
    BY <2>1
<1>3. (\A s \in Sources : StatusFits(s))'
  BY DEF Inv, StatusFits, Database
<1>4. (OneRowPerIdentity /\ AcceptedOnce /\ DerivedMatchesStore)'
  BY DEF Inv, OneRowPerIdentity, AcceptedOnce, DerivedMatchesStore, Database
<1>5. LockHeldByOne'
  BY DEF LockHeldByOne
<1>6. QED
  BY <1>1, <1>2, <1>3, <1>4, <1>5 DEF Inv

\* One run moves; it takes the lock only when it had it or nobody has it.
LEMMA OneMoves ==
    ASSUME Inv, UNCHANGED <<Database, clock, setbacks>>, runs' \in Nat, faults' \in Nat,
           NEW r \in Runners, NEW u \in Run, run' = [run EXCEPT ![r] = u],
           RunFits(r, u),
           u.pc \in InTransaction => run[r].pc \in InTransaction \/ LockFree
    PROVE  Inv'
<1>1. /\ run \in [Runners -> Run] /\ run'[r] = u
      /\ \A o \in Runners : o # r => run'[o] = run[o]
  BY DEF Inv, TypeOK
<1>2. run' \in [Runners -> Run]
  BY <1>1
<1>3. \A o \in Runners : RunFits(o, run'[o])
  BY <1>1 DEF Inv
<1>4. \A p, o \in Runners :
         run'[p].pc \in InTransaction /\ run'[o].pc \in InTransaction => p = o
  BY <1>1 DEF Inv, LockHeldByOne, LockFree
<1>5. QED
  BY <1>2, <1>3, <1>4, QuietStep

\* The types of one run, field by field.
LEMMA RunIs ==
    ASSUME Inv, NEW r \in Runners
    PROVE  /\ run[r] \in Run /\ RunFits(r, run[r])
           /\ run[r].attempted \in Times /\ run[r].at \in Int
           /\ run[r].kept \in SUBSET Readings /\ run[r].current \in SUBSET Readings
           /\ SourceOf[r] \in Sources /\ status[SourceOf[r]] \in StatusRow
           /\ clock \in Times /\ 0 <= clock /\ clock <= MaxClock /\ MaxClock \in Nat
           /\ \A s \in Sources : status[s].attempted \in Int /\ status[s].success \in Int
<1>1. run[r] \in Run /\ RunFits(r, run[r]) /\ SourceOf[r] \in Sources
  BY DEF Inv, TypeOK, Sources
<1>2. clock \in Times /\ 0 <= clock /\ clock <= MaxClock /\ MaxClock \in Nat
  BY IngestionAssumption DEF Inv, TypeOK, Times
<1>3. \A s \in Sources :
         status[s] \in StatusRow /\ status[s].attempted \in Int /\ status[s].success \in Int
  BY DEF Inv, TypeOK, StatusRow
<1>4. QED
  BY <1>1, <1>2, <1>3 DEF Run

\* A poll begins now, which is not before anything its status row knows.
LEMMA StartInv ==
    ASSUME Inv, NEW r \in Runners, Start(r)
    PROVE  Inv'
<1> DEFINE u == [run[r] EXCEPT !.pc = "fetching", !.attempted = clock, !.at = clock]
<1>1. u \in Run /\ u.pc = "fetching" /\ u.attempted = clock /\ u.at = clock
  <2>1. run[r] \in Run /\ clock \in Times /\ clock \in Int
    BY RunIs DEF Times
  <2>2. QED
    BY <2>1 DEF Run
<1>2. run' = [run EXCEPT ![r] = u] /\ UNCHANGED <<Database, clock, setbacks>>
      /\ runs' \in Nat /\ faults' \in Nat
  <2>1. run' = [run EXCEPT ![r] = u]
    BY RunIs DEF Start, Inv, TypeOK
  <2> HIDE DEF u
  <2>2. UNCHANGED <<Database, clock, setbacks>> /\ runs' \in Nat /\ faults' \in Nat
    BY DEF Start, Inv, TypeOK
  <2>3. QED
    BY <2>1, <2>2
<1>3. RunFits(r, u)
  <2> HIDE DEF u
  <2>1. clock <= MaxClock /\ clock \in Int
    BY RunIs DEF Times
  <2>2. setbacks = 0 => \A s \in Sources : status[s].attempted <= clock
    BY DEF Inv, StatusFits
  <2>3. SourceOf[r] \in Sources /\ \A s \in Sources : status[s].attempted \in Int
    BY RunIs
  <2>4. QED
    BY <1>1, <2>1, <2>2, <2>3
       DEF RunFits, BodyFits, KeptFits, ReferenceFits, DerivedFits, LoneAhead,
           Answered, InTransaction
<1> HIDE DEF u
<1>4. QED
  BY <1>1, <1>2, <1>3, OneMoves DEF InTransaction

\* A run that keeps its times and is not, or not yet, in its transaction.
LEMMA OutsideFits ==
    ASSUME Inv, NEW r \in Runners, NEW u,
           u.pc \in {"fetching", "waiting", "failed"},
           u.pc = "waiting" => u.body \in Responses[SourceOf[r]] /\ ~BatchOf(u.body).raised,
           u.at = run[r].at, u.attempted = run[r].attempted,
           run[r].pc # "idle"
    PROVE  RunFits(r, u)
BY RunIs
   DEF RunFits, BodyFits, KeptFits, ReferenceFits, DerivedFits, LoneAhead, Answered, InTransaction

\* The source answers, tries again or gives up.
LEMMA FetchInv ==
    ASSUME Inv, NEW r \in Runners, Answer(r) \/ Retry(r) \/ Refuse(r)
    PROVE  Inv'
<1>1. /\ run[r].pc = "fetching" /\ UNCHANGED <<Database, clock, setbacks>>
      /\ runs' \in Nat /\ faults' \in Nat /\ run[r] \in Run
  BY RunIs DEF Answer, Retry, Refuse, Inv, TypeOK
<1>2. ASSUME NEW u \in Run, run' = [run EXCEPT ![r] = u],
             u.pc \in {"fetching", "waiting", "failed"},
             u.pc = "waiting" => u.body \in Responses[SourceOf[r]] /\ ~BatchOf(u.body).raised,
             u.at = run[r].at, u.attempted = run[r].attempted
      PROVE  Inv'
  <2>1. RunFits(r, u)
    BY <1>1, <1>2, OutsideFits
  <2>2. QED
    BY <1>1, <1>2, <2>1, OneMoves DEF InTransaction
<1>3. CASE Answer(r)
  <2>1. PICK body \in Responses[SourceOf[r]] :
           run' = [run EXCEPT ![r].pc = IF BatchOf(body).raised THEN "failed" ELSE "waiting",
                              ![r].body = body]
    BY <1>3 DEF Answer
  <2> DEFINE pc == IF BatchOf(body).raised THEN "failed" ELSE "waiting"
             u == [run[r] EXCEPT !.pc = pc, !.body = body]
  <2>2. pc \in {"failed", "waiting"} /\ (pc = "waiting" => ~BatchOf(body).raised)
    OBVIOUS
  <2>3. run' = [run EXCEPT ![r] = u]
    BY <2>1
  <2> HIDE DEF pc
  <2>4. u \in Run /\ u.pc = pc /\ u.body = body /\ u.at = run[r].at
        /\ u.attempted = run[r].attempted
    BY <1>1, <2>2 DEF Run
  <2> HIDE DEF u
  <2>5. QED
    BY <1>2, <2>2, <2>3, <2>4
<1>4. CASE Retry(r)
  <2> DEFINE pc == IF run[r].tries + 1 = MaxTries THEN "failed" ELSE run[r].pc
             tries == run[r].tries + 1
             u == [run[r] EXCEPT !.tries = tries, !.pc = pc]
  <2>1. run' = [run EXCEPT ![r] = u]
    BY <1>4 DEF Retry
  <2>2. pc \in {"failed", "fetching"} /\ tries \in Nat
    BY <1>1 DEF Run
  <2> HIDE DEF pc, tries
  <2>3. u \in Run /\ u.pc = pc /\ u.at = run[r].at /\ u.attempted = run[r].attempted
    BY <1>1, <2>2 DEF Run
  <2> HIDE DEF u
  <2>4. QED
    BY <1>2, <2>1, <2>2, <2>3
<1>5. CASE Refuse(r)
  <2> DEFINE u == [run[r] EXCEPT !.pc = "failed"]
  <2>1. run' = [run EXCEPT ![r] = u]
    BY <1>5 DEF Refuse, Go
  <2>2. u \in Run /\ u.pc = "failed" /\ u.at = run[r].at /\ u.attempted = run[r].attempted
    BY <1>1 DEF Run
  <2> HIDE DEF u
  <2>3. QED
    BY <1>2, <2>1, <2>2
<1>6. QED
  BY <1>3, <1>4, <1>5

\* A run takes the refresh lock.
LEMMA AcquireInv ==
    ASSUME Inv, NEW r \in Runners, Acquire(r)
    PROVE  Inv'
<1> DEFINE u == [run[r] EXCEPT !.pc = "locked"]
<1>1. /\ u \in Run /\ u.pc = "locked" /\ u.at = run[r].at /\ u.attempted = run[r].attempted
      /\ u.body = run[r].body
  BY RunIs DEF Run, InTransaction
<1>2. run' = [run EXCEPT ![r] = u] /\ UNCHANGED <<Database, clock, setbacks>>
      /\ runs' \in Nat /\ faults' \in Nat
  BY DEF Acquire, Go, Inv, TypeOK
<1> HIDE DEF u
<1>3. RunFits(r, u)
  <2>1. run[r].pc = "waiting"
    BY DEF Acquire
  <2>2. QED
    BY <1>1, <2>1, RunIs
       DEF RunFits, BodyFits, KeptFits, ReferenceFits, DerivedFits, LoneAhead,
           Answered, InTransaction
<1>4. QED
  BY <1>1, <1>2, <1>3, OneMoves DEF Acquire

\* It inserts what is new (ObservationRepository.upsert_many).
LEMMA StoreInv ==
    ASSUME Inv, NEW r \in Runners, Store(r)
    PROVE  Inv'
<1> DEFINE kept == Inserted(BatchOf(run[r].body))
           u == [run[r] EXCEPT !.pc = "stored", !.kept = kept]
<1>1. run[r].pc = "locked" /\ run[r].body \in Responses[SourceOf[r]]
      /\ ~BatchOf(run[r].body).raised
  BY RunIs DEF Store, RunFits, BodyFits, Answered, InTransaction
<1>2. kept \in SUBSET Readings
  BY <1>1, InsertedIs
<1>3. run' = [run EXCEPT ![r] = u] /\ UNCHANGED <<Database, clock, setbacks>>
      /\ runs' \in Nat /\ faults' \in Nat
  BY DEF Store, Inv, TypeOK
<1> HIDE DEF kept
<1>4. /\ u \in Run /\ u.pc = "stored" /\ u.at = run[r].at /\ u.attempted = run[r].attempted
      /\ u.body = run[r].body /\ u.kept = kept
  BY <1>2, RunIs DEF Run, InTransaction
<1> HIDE DEF u
<1>5. RunFits(r, u)
  BY <1>1, <1>4, RunIs
     DEF RunFits, BodyFits, KeptFits, ReferenceFits, DerivedFits, LoneAhead, kept
<1>6. QED
  BY <1>1, <1>3, <1>4, <1>5, OneMoves DEF InTransaction

\* The reference a run takes: not beyond the clock's bound, nor ahead of a clock
\* never set back; a live one not before what any status row knows.
LEMMA ReferenceIs ==
    ASSUME Inv, NEW r \in Runners, run[r].pc = "stored"
    PROVE  LET at == OperationalReference(r) IN
           /\ at \in Int /\ at <= MaxClock
           /\ setbacks = 0 => at <= clock
           /\ SourceOf[r] # "replay" =>
                 \A s \in Sources : at >= status[s].attempted /\ at >= status[s].success
<1>1. run[r].body \in Responses[SourceOf[r]]
  BY RunIs DEF RunFits, BodyFits, Answered, InTransaction
<1>2. 0 <= clock /\ clock \in Int /\ clock <= MaxClock /\ MaxClock \in Int
  BY RunIs DEF Times
<1>3. CASE SourceOf[r] = "replay"
  <2>1. ReplayBody(run[r].body)
    BY <1>1, <1>3, BodiesAre
  <2>2. OperationalReference(r) = run[r].body.end
        /\ run[r].body.end \in Int /\ run[r].body.end <= 0
    BY <2>1 DEF OperationalReference, ReplayBody
  <2>3. QED
    BY <1>2, <1>3, <2>2
<1>4. CASE SourceOf[r] # "replay"
  <2> DEFINE S == {run[r].attempted}
                   \cup UNION {{status[s].attempted, status[s].success} : s \in Sources}
  <2>1. run[r].body.feed # "replay"
    BY <1>1, <1>4, BodiesAre DEF FirmsBody, NwsBody
  <2>2. OperationalReference(r) = Max(S)
    BY <2>1 DEF OperationalReference
  <2>3. run[r].attempted \in Int /\ run[r].attempted <= MaxClock
    BY RunIs, IngestionAssumption DEF Times
  <2>4. \A s \in Sources : /\ status[s].attempted \in Int /\ status[s].success \in Int
                           /\ status[s].attempted <= MaxClock /\ status[s].success <= MaxClock
    BY RunIs DEF Inv, StatusFits
  <2>5. S \subseteq Int /\ S # {} /\ \A x \in S : x <= MaxClock
    BY <2>3, <2>4
  <2>6. setbacks = 0 => \A x \in S : x <= clock
    BY RunIs DEF Inv, StatusFits, RunFits
  <2>7. \A s \in Sources : status[s].attempted \in S /\ status[s].success \in S
    OBVIOUS
  <2> HIDE DEF S
  <2>8. Max(S) \in S /\ \A y \in S : Max(S) >= y
    BY <1>2, <2>5, MaxIs
  <2>9. QED
    BY <2>2, <2>5, <2>6, <2>7, <2>8
<1>5. QED
  BY <1>3, <1>4

\* It takes its reference (_resolve_operational_reference).
LEMMA ResolveInv ==
    ASSUME Inv, NEW r \in Runners, Resolve(r)
    PROVE  Inv'
<1> DEFINE at == OperationalReference(r)
           u == [run[r] EXCEPT !.pc = "resolved", !.at = at]
<1>1. run[r].pc = "stored" /\ run' = [run EXCEPT ![r] = u]
      /\ UNCHANGED <<Database, clock, setbacks>> /\ runs' \in Nat /\ faults' \in Nat
  BY DEF Resolve, Inv, TypeOK
<1>2. /\ at \in Int /\ at <= MaxClock
      /\ setbacks = 0 => at <= clock
      /\ SourceOf[r] # "replay" =>
            \A s \in Sources : at >= status[s].attempted /\ at >= status[s].success
  BY <1>1, ReferenceIs
<1> HIDE DEF at
<1>3. /\ u \in Run /\ u.pc = "resolved" /\ u.at = at /\ u.attempted = run[r].attempted
      /\ u.body = run[r].body /\ u.kept = run[r].kept
  BY <1>2, RunIs DEF Run, InTransaction
<1> HIDE DEF u
<1>4. RunFits(r, u)
  BY <1>1, <1>2, <1>3, RunIs
     DEF RunFits, BodyFits, KeptFits, ReferenceFits, DerivedFits, LoneAhead,
         Answered, InTransaction
<1>5. QED
  BY <1>1, <1>3, <1>4, OneMoves DEF InTransaction

\* It derives the incidents from what will be committed (IncidentRefresh).
LEMMA RefreshInv ==
    ASSUME Inv, NEW r \in Runners, Refresh(r)
    PROVE  Inv'
<1> DEFINE current == CurrentDetections(store \cup run[r].kept, run[r].at)
           u == [run[r] EXCEPT !.pc = "refreshed", !.current = current]
<1>1. run[r].pc = "resolved" /\ run' = [run EXCEPT ![r] = u]
      /\ UNCHANGED <<Database, clock, setbacks>> /\ runs' \in Nat /\ faults' \in Nat
  BY DEF Refresh, Inv, TypeOK
<1>2. current \in SUBSET Readings
  BY RunIs DEF CurrentDetections, Inv, TypeOK
<1>3. current = CurrentDetections(store \cup run[r].kept, run[r].at)
  OBVIOUS
<1> HIDE DEF current
<1>4. /\ u \in Run /\ u.pc = "refreshed" /\ u.at = run[r].at /\ u.attempted = run[r].attempted
      /\ u.body = run[r].body /\ u.kept = run[r].kept /\ u.current = current
  BY <1>2, RunIs DEF Run, InTransaction
<1> HIDE DEF u
<1>5. RunFits(r, u)
  BY <1>1, <1>3, <1>4, RunIs
     DEF RunFits, BodyFits, KeptFits, ReferenceFits, DerivedFits, LoneAhead,
         Answered, InTransaction
<1>6. QED
  BY <1>1, <1>4, <1>5, OneMoves DEF InTransaction

\* A statement fails.
LEMMA AbortInv ==
    ASSUME Inv, NEW r \in Runners, Abort(r)
    PROVE  Inv'
<1> DEFINE u == [run[r] EXCEPT !.pc = "failed"]
<1>1. run[r].pc \in InTransaction /\ run' = [run EXCEPT ![r] = u]
      /\ UNCHANGED <<Database, clock, setbacks>> /\ runs' \in Nat /\ faults' \in Nat
  BY DEF Abort, Go, Fault, Inv, TypeOK
<1>2. u \in Run /\ u.pc = "failed" /\ u.at = run[r].at /\ u.attempted = run[r].attempted
  BY RunIs DEF Run
<1> HIDE DEF u
<1>3. RunFits(r, u)
  BY <1>1, <1>2, OutsideFits DEF InTransaction
<1>4. QED
  BY <1>1, <1>2, <1>3, OneMoves DEF InTransaction

\* A loop at rest fits anywhere.
LEMMA RestingFits ==
    ASSUME Inv, NEW r \in Runners
    PROVE  Resting \in Run /\ RunFits(r, Resting) /\ Resting.pc = "idle"
<1>1. clock \in Int /\ 0 <= clock /\ MaxClock \in Nat
  BY RunIs DEF Times
<1>2. QED
  BY <1>1
     DEF Resting, Run, Times, NoBody, RunFits, BodyFits, KeptFits, ReferenceFits, DerivedFits,
         LoneAhead, Answered, InTransaction

\* The failure is not even recorded.
LEMMA LoseFailureInv ==
    ASSUME Inv, NEW r \in Runners, LoseFailure(r)
    PROVE  Inv'
<1>1. run' = [run EXCEPT ![r] = Resting] /\ UNCHANGED <<Database, clock, setbacks>>
      /\ runs' \in Nat /\ faults' \in Nat
  BY DEF LoseFailure, Rest, Fault, Inv, TypeOK
<1>2. QED
  BY <1>1, RestingFits, OneMoves DEF InTransaction

\* A process dies with its loops.
LEMMA CrashInv ==
    ASSUME Inv, NEW p, Crash(p)
    PROVE  Inv'
<1>1. /\ run' = [r \in Runners |-> IF ProcessOf[r] = p THEN Resting ELSE run[r]]
      /\ UNCHANGED <<Database, clock, setbacks>> /\ runs' \in Nat /\ faults' \in Nat
  BY DEF Crash, Fault, Inv, TypeOK
<1>2. \A r \in Runners : /\ run'[r] = run[r] \/ run'[r] = Resting
                         /\ run'[r] \in Run /\ RunFits(r, run'[r])
  BY <1>1, RestingFits, RunIs
<1>3. run' \in [Runners -> Run]
  BY <1>1, <1>2
<1>4. \A r, o \in Runners :
         run'[r].pc \in InTransaction /\ run'[o].pc \in InTransaction => r = o
  <2>1. \A r \in Runners : run'[r].pc \in InTransaction => run[r].pc \in InTransaction
    BY <1>2, RestingFits DEF InTransaction
  <2>2. QED
    BY <2>1 DEF Inv, LockHeldByOne
<1>5. QED
  BY <1>1, <1>2, <1>3, <1>4, QuietStep

-----------------------------------------------------------------------------
(* Steps that write the tables.                                            *)

\* The run that held the lock, or had failed, writes its source's status row and
\* leaves its transaction; then every loop fits where it stands.
LEMMA RowWritten ==
    ASSUME Inv, UNCHANGED <<clock, setbacks>>,
           NEW r \in Runners, NEW u \in Run, run' = [run EXCEPT ![r] = u],
           \/ u = Resting
           \/ /\ u.pc = "failed" /\ u.at = run[r].at /\ u.attempted = run[r].attempted
              /\ status'[SourceOf[r]].attempted = run[r].at,
           \A o \in Runners : o # r => run[o].pc \notin InTransaction,
           \A s \in Sources : s # SourceOf[r] => status'[s] = status[s]
    PROVE  /\ run' \in [Runners -> Run]
           /\ \A o \in Runners : RunFits(o, run[o])'
           /\ LockHeldByOne'
<1>1. /\ run \in [Runners -> Run] /\ run'[r] = u
      /\ \A o \in Runners : o # r => run'[o] = run[o]
  BY DEF Inv, TypeOK
<1>2. u.pc \in {"idle", "failed"} /\ u.at \in Int /\ u.pc \notin InTransaction
      /\ u.pc \notin Answered
  BY DEF Resting, Run, InTransaction, Answered
<1>3. ASSUME NEW o \in Runners PROVE RunFits(o, run[o])'
  <2>1. CASE o = r
    <3>1. u.at <= MaxClock /\ (setbacks = 0 => u.attempted <= clock /\ u.at <= clock)
      BY RunIs, RestingFits DEF RunFits
    <3>2. LoneAhead(r, u)'
      BY <1>2, RunIs DEF LoneAhead, Resting
    <3>3. QED
      BY <1>1, <1>2, <2>1, <3>1, <3>2
         DEF RunFits, BodyFits, KeptFits, ReferenceFits, DerivedFits, LoneAhead,
             InTransaction
  <2>2. CASE o # r
    <3>1. run'[o] = run[o] /\ run[o].pc \notin InTransaction /\ RunFits(o, run[o])
      BY <1>1, <2>2 DEF Inv
    <3>2. LoneAhead(o, run[o]) => LoneAhead(o, run[o])'
      <4>1. Lone(SourceOf[o]) => SourceOf[o] # SourceOf[r]
        BY <2>2 DEF Lone
      <4>2. SourceOf[o] \in Sources
        BY DEF Sources
      <4>3. QED
        BY <3>1, <4>1, <4>2 DEF LoneAhead
    <3>3. QED
      BY <3>1, <3>2
         DEF RunFits, BodyFits, KeptFits, ReferenceFits, DerivedFits, InTransaction
  <2>3. QED
    BY <2>1, <2>2
<1>4. LockHeldByOne'
  BY <1>1, <1>2 DEF LockHeldByOne
<1>5. run' \in [Runners -> Run]
  BY <1>1
<1>6. QED
  BY <1>3, <1>4, <1>5

\* What a run about to commit has: readings counted, of its batch, and a
\* status row of the right type.
LEMMA CommitIs ==
    ASSUME Inv, NEW r \in Runners, run[r].pc = "refreshed"
    PROVE  /\ run[r].kept = Inserted(BatchOf(run[r].body))
           /\ run[r].body \in Responses[SourceOf[r]] /\ ~BatchOf(run[r].body).raised
           /\ Success(r) \in StatusRow
           /\ Cardinality(run[r].kept) \in Nat
           /\ Quarantined(r) \in Nat
           /\ Success(r).attempted = run[r].at /\ Success(r).success = run[r].at
           /\ Success(r).accepted + Success(r).deduplicated + Success(r).quarantined
                = Offered(run[r].body)
<1> DEFINE body == run[r].body
           rows == DOMAIN BatchOf(body).observations
           kept == run[r].kept
<1>1. kept = Inserted(BatchOf(body)) /\ body \in Responses[SourceOf[r]] /\ ~BatchOf(body).raised
  BY RunIs DEF RunFits, KeptFits, BodyFits, Answered, InTransaction
<1>2. IsFiniteSet(kept) /\ Cardinality(kept) <= Cardinality(rows)
  BY <1>1, InsertedIs
<1>3. IsFiniteSet(rows) /\ Quarantined(r) \in Nat
      /\ Cardinality(rows) + Quarantined(r) = Offered(body)
  BY <1>1, BatchIs DEF BatchFits, Quarantined
<1>4. run[r].at \in Int
  BY RunIs
<1> DEFINE k == Cardinality(kept)
           n == Cardinality(rows)
<1>5. k \in Nat /\ n \in Nat /\ k <= n
  BY <1>2, <1>3, FS_CardinalityType
<1>6. Success(r) = [outcome |-> "success", attempted |-> run[r].at, success |-> run[r].at,
                    accepted |-> k, deduplicated |-> n - k, quarantined |-> Quarantined(r)]
  BY DEF Success
<1>7. n + Quarantined(r) = Offered(body)
  BY <1>3
<1> HIDE DEF k, n
<1>8. n - k \in Nat
  BY <1>5
<1>9. Success(r) \in StatusRow
  BY <1>3, <1>4, <1>5, <1>6, <1>8 DEF StatusRow
<1>10. k + (n - k) + Quarantined(r) = n + Quarantined(r)
  BY <1>3, <1>5
<1>11. QED
  BY <1>1, <1>3, <1>5, <1>6, <1>7, <1>9, <1>10 DEF k

\* A run commits, whether the worker hears of it or not.
LEMMA ApplyInv ==
    ASSUME Inv, NEW r \in Runners, Commit(r) \/ LoseCommit(r)
    PROVE  Inv'
<1>1. run[r].pc = "refreshed" /\ UNCHANGED <<clock, setbacks>> /\ runs' \in Nat
      /\ faults' \in Nat /\ setbacks' \in Nat /\ Apply(r)
  BY DEF Commit, LoseCommit, Apply, Fault, Inv, TypeOK
<1>2. /\ store' = store \cup run[r].kept
      /\ quarantine' = quarantine + Quarantined(r)
      /\ status' = [status EXCEPT ![SourceOf[r]] = Success(r)]
      /\ derived' = [at |-> run[r].at, detections |-> run[r].current]
      /\ accepted' = accepted + Cardinality(run[r].kept)
      /\ landed' = [landed EXCEPT ![SourceOf[r]] = clock]
  BY <1>1 DEF Apply
<1> DEFINE row == Success(r)
           kept == run[r].kept
           n == Cardinality(kept)
           q == Quarantined(r)
<1>3. /\ kept = Inserted(BatchOf(run[r].body))
      /\ run[r].body \in Responses[SourceOf[r]]
      /\ row \in StatusRow /\ n \in Nat /\ q \in Nat
      /\ row.attempted = run[r].at /\ row.success = run[r].at
  BY <1>1, CommitIs
<1>4. /\ kept \in SUBSET Readings /\ IsFiniteSet(kept)
      /\ \A reading \in kept : InRange(reading.lon, reading.lat)
      /\ \A one, other \in kept : Identity(one) = Identity(other) => one = other
      /\ \A one \in kept, other \in store : Identity(one) # Identity(other)
  BY <1>3, InsertedIs
<1> HIDE DEF row, n, q
<1>5. /\ status' = [status EXCEPT ![SourceOf[r]] = row]
      /\ quarantine' = quarantine + q /\ accepted' = accepted + n
      /\ SourceOf[r] \in Sources /\ status \in [Sources -> StatusRow]
  BY <1>2, RunIs DEF row, n, q, Inv, TypeOK
<1>6. /\ status' \in [Sources -> StatusRow] /\ status'[SourceOf[r]] = row
      /\ \A s \in Sources : s # SourceOf[r] => status'[s] = status[s]
  BY <1>3, <1>5
<1>7. PICK u \in Run :
         /\ run' = [run EXCEPT ![r] = u]
         /\ \/ u = Resting
            \/ u.pc = "failed" /\ u.at = run[r].at /\ u.attempted = run[r].attempted
  <2>1. CASE Commit(r)
    BY <2>1, RestingFits DEF Commit, Rest
  <2>2. CASE LoseCommit(r)
    <3> DEFINE v == [run[r] EXCEPT !.pc = "failed"]
    <3>1. run' = [run EXCEPT ![r] = v]
      BY <2>2 DEF LoseCommit, Go
    <3>2. v \in Run /\ v.pc = "failed" /\ v.at = run[r].at /\ v.attempted = run[r].attempted
      BY RunIs DEF Run
    <3> HIDE DEF v
    <3>3. QED
      BY <3>1, <3>2
  <2>3. QED
    BY <2>1, <2>2
<1>8. \A o \in Runners : o # r => run[o].pc \notin InTransaction
  BY <1>1 DEF Inv, LockHeldByOne, InTransaction
<1>9. status'[SourceOf[r]].attempted = run[r].at
  BY <1>3, <1>6
<1>10. /\ run' \in [Runners -> Run]
       /\ \A o \in Runners : RunFits(o, run[o])'
       /\ LockHeldByOne'
  BY <1>1, <1>6, <1>7, <1>8, <1>9, RowWritten
<1>11. IsFiniteSet(store) /\ store \in SUBSET Readings /\ accepted = Cardinality(store)
       /\ quarantine \in Nat /\ accepted \in Nat
  BY DEF Inv, TypeOK, AcceptedOnce
<1>12. IsFiniteSet(store') /\ Cardinality(store') = accepted + n
  <2>1. store \cap kept = {}
    BY <1>4
  <2>2. Cardinality({}) = 0
    BY FS_EmptySet
  <2>3. /\ IsFiniteSet(store \cup kept)
        /\ Cardinality(store \cup kept)
             = Cardinality(store) + Cardinality(kept) - Cardinality(store \cap kept)
    BY <1>4, <1>11, FS_Union
  <2>4. Cardinality(store \cap kept) = 0
    BY <2>1, <2>2
  <2>5. Cardinality(store \cup kept) = accepted + n - 0
    BY <1>11, <2>3, <2>4 DEF n
  <2>6. accepted + n - 0 = accepted + n
    BY <1>3, <1>11
  <2>7. store' = store \cup kept
    BY <1>2
  <2>8. QED
    BY <2>3, <2>5, <2>6, <2>7
<1>13. derived' \in [at : Int, detections : SUBSET Readings]
  BY <1>2, RunIs
<1>14. landed' \in [Sources -> Times \cup {Never}] /\ landed'[SourceOf[r]] = clock
       /\ \A s \in Sources : s # SourceOf[r] => landed'[s] = landed[s]
  BY <1>2, RunIs DEF Inv, TypeOK
<1>15. TypeOK'
  <2>1. (clock \in Times)'
    BY <1>1, RunIs
  <2>2. store' \in SUBSET Readings
    BY <1>2, <1>4, <1>11
  <2>3. quarantine' \in Nat /\ accepted' \in Nat
    BY <1>3, <1>5, <1>11
  <2>4. QED
    BY <1>1, <1>6, <1>10, <1>12, <1>13, <1>14, <2>1, <2>2, <2>3 DEF TypeOK
<1>16. OneRowPerIdentity'
  BY <1>2, <1>4 DEF OneRowPerIdentity, Inv
<1>17. AcceptedOnce'
  BY <1>5, <1>12 DEF AcceptedOnce
<1>18. DerivedMatchesStore'
  <2>1. run[r].current = CurrentDetections(store', run[r].at)
    BY <1>1, <1>2, RunIs DEF RunFits, DerivedFits
  <2>2. QED
    BY <1>2, <2>1 DEF DerivedMatchesStore, CurrentDetections
<1>19. ASSUME NEW s \in Sources PROVE StatusFits(s)'
  <2>1. CASE s = SourceOf[r]
    <3>1. run[r].at <= MaxClock /\ (setbacks = 0 => run[r].at <= clock)
      BY RunIs DEF RunFits
    <3>2. QED
      BY <1>1, <1>3, <1>6, <1>14, <2>1, <3>1 DEF StatusFits
  <2>2. CASE s # SourceOf[r]
    <3>1. status'[s] = status[s] /\ landed'[s] = landed[s]
      BY <1>6, <1>14, <2>2
    <3>2. QED
      BY <1>1, <3>1 DEF Inv, StatusFits
  <2>3. QED
    BY <2>1, <2>2
<1>20. QED
  BY <1>10, <1>15, <1>16, <1>17, <1>18, <1>19 DEF Inv

\* A failure is recorded; the row keeps the last success it knew.
LEMMA RecordFailureInv ==
    ASSUME Inv, NEW r \in Runners, RecordFailure(r)
    PROVE  Inv'
<1> DEFINE row == Failure(r)
<1>1. /\ run[r].pc = "failed" /\ LockFree /\ run' = [run EXCEPT ![r] = Resting]
      /\ status' = [status EXCEPT ![SourceOf[r]] = row]
      /\ UNCHANGED <<clock, store, quarantine, derived, accepted, landed, runs, faults, setbacks>>
  BY DEF RecordFailure, Rest
<1>2. /\ row \in StatusRow /\ row.attempted = run[r].at
      /\ row.success = status[SourceOf[r]].success
  <2>1. status[SourceOf[r]].success \in Int /\ run[r].at \in Int
    BY RunIs
  <2>2. QED
    BY <2>1 DEF Failure, NoRow, StatusRow, Never
<1> HIDE DEF row
<1>3. /\ status' \in [Sources -> StatusRow] /\ status'[SourceOf[r]] = row
      /\ \A s \in Sources : s # SourceOf[r] => status'[s] = status[s]
  BY <1>1, <1>2, RunIs DEF Inv, TypeOK
<1>4. /\ run' \in [Runners -> Run]
      /\ \A o \in Runners : RunFits(o, run[o])'
      /\ LockHeldByOne'
  <2>1. Resting \in Run /\ \A o \in Runners : run[o].pc \notin InTransaction
    BY <1>1, RestingFits DEF LockFree
  <2>2. QED
    BY <1>1, <1>3, <2>1, RowWritten
<1>5. TypeOK'
  BY <1>1, <1>3, <1>4 DEF TypeOK, Inv
<1>6. (OneRowPerIdentity /\ AcceptedOnce /\ DerivedMatchesStore)'
  BY <1>1 DEF Inv, OneRowPerIdentity, AcceptedOnce, DerivedMatchesStore
<1>7. ASSUME NEW s \in Sources PROVE StatusFits(s)'
  <2>1. CASE s = SourceOf[r]
    <3>1. run[r].at <= MaxClock /\ (setbacks = 0 => run[r].at <= clock)
      BY RunIs DEF RunFits
    <3>2. StatusFits(s)
      BY DEF Inv
    <3>3. QED
      BY <1>1, <1>2, <1>3, <2>1, <3>1, <3>2 DEF StatusFits
  <2>2. CASE s # SourceOf[r]
    BY <1>1, <1>3, <2>2 DEF Inv, StatusFits
  <2>3. QED
    BY <2>1, <2>2
<1>8. QED
  BY <1>4, <1>5, <1>6, <1>7 DEF Inv

\* Time goes on, or the clock is set back, which is counted.
LEMMA ClockInv ==
    ASSUME Inv, Tick \/ SetBack
    PROVE  Inv'
<1>1. /\ UNCHANGED <<Database, run, runs, faults>>
      /\ clock' \in Times /\ setbacks' \in Nat
      /\ setbacks' = 0 => setbacks = 0 /\ clock' = clock + 1
  BY IngestionAssumption DEF Tick, SetBack, Inv, TypeOK, Times
<1>2. TypeOK'
  BY <1>1 DEF Inv, TypeOK, Database
<1>3. (OneRowPerIdentity /\ AcceptedOnce /\ DerivedMatchesStore /\ LockHeldByOne)'
  BY <1>1 DEF Inv, OneRowPerIdentity, AcceptedOnce, DerivedMatchesStore, LockHeldByOne, Database
<1>4. clock \in Int
  BY RunIs DEF Inv, TypeOK, Times
<1>5. ASSUME NEW r \in Runners PROVE RunFits(r, run[r])'
  <2>1. run[r].attempted \in Int /\ run[r].at \in Int /\ RunFits(r, run[r])
    BY RunIs DEF Times
  <2>2. BodyFits(r, run[r])' /\ KeptFits(run[r])' /\ ReferenceFits(r, run[r])'
        /\ DerivedFits(run[r])'
    BY <1>1, <2>1
       DEF RunFits, BodyFits, KeptFits, ReferenceFits, DerivedFits, Inserted, Database
  <2>3. LoneAhead(r, run[r]) => LoneAhead(r, run[r])'
    BY <1>1 DEF LoneAhead, Database
  <2>4. QED
    BY <1>1, <1>4, <2>1, <2>2, <2>3 DEF RunFits
<1>6. ASSUME NEW s \in Sources PROVE StatusFits(s)'
  <2>1. status[s].attempted \in Int /\ status[s].success \in Int /\ StatusFits(s)
    BY DEF Inv, TypeOK, StatusRow
  <2>2. status' = status /\ landed' = landed
    BY <1>1 DEF Database
  <2>3. QED
    BY <1>1, <1>4, <2>1, <2>2 DEF StatusFits
<1>7. QED
  BY <1>2, <1>3, <1>5, <1>6 DEF Inv

-----------------------------------------------------------------------------
(* The theorems.                                                           *)

\* Nothing is stored, known or running at the start.
LEMMA InitInv == Init => Inv
<1> SUFFICES ASSUME Init PROVE Inv
  OBVIOUS
<1>1. MaxClock \in Nat /\ clock = 0 /\ store = {} /\ setbacks = 0
  BY IngestionAssumption DEF Init
<1>2. IsFiniteSet({}) /\ Cardinality({}) = 0
  BY FS_EmptySet
<1>3. NoRow \in StatusRow /\ NoRow.attempted = Never /\ NoRow.success = Never
  BY DEF NoRow, StatusRow, Never
<1>4. Resting \in Run /\ Resting.pc = "idle" /\ Resting.at = 0 /\ Resting.attempted = 0
  BY <1>1 DEF Resting, Run, Times, NoBody
<1>5. \A s \in Sources : status[s] = NoRow
  BY DEF Init
<1>6. \A r \in Runners : run[r] = Resting
  BY DEF Init
<1>7. run \in [Runners -> Run]
  BY <1>4 DEF Init
<1>8. status \in [Sources -> StatusRow]
  BY <1>3 DEF Init
<1>9. TypeOK
  <2>1. derived \in [at : Int, detections : SUBSET Readings]
    BY DEF Init, Never
  <2>2. landed \in [Sources -> Times \cup {Never}]
    BY DEF Init
  <2>3. QED
    BY <1>1, <1>2, <1>7, <1>8, <2>1, <2>2 DEF Init, TypeOK, Times
<1>10. OneRowPerIdentity /\ AcceptedOnce /\ DerivedMatchesStore
  BY <1>1, <1>2 DEF Init, OneRowPerIdentity, AcceptedOnce, DerivedMatchesStore
<1>11. LockHeldByOne
  BY <1>4, <1>6 DEF LockHeldByOne, InTransaction
<1>12. \A r \in Runners : RunFits(r, run[r])
  BY <1>1, <1>4, <1>6
     DEF RunFits, BodyFits, KeptFits, ReferenceFits, DerivedFits, LoneAhead,
         Answered, InTransaction
<1>13. \A s \in Sources : StatusFits(s)
  <2>1. \A s \in Sources : landed[s] = Never
    BY DEF Init
  <2>2. QED
    BY <1>1, <1>3, <1>5, <2>1 DEF StatusFits, Never
<1>14. QED
  BY <1>9, <1>10, <1>11, <1>12, <1>13 DEF Inv

\* Every step of the loops, the processes and the clock keeps the invariant.
LEMMA StepInv == Inv /\ [Next]_vars => Inv'
<1> SUFFICES ASSUME Inv, [Next]_vars PROVE Inv'
  OBVIOUS
<1>1. ASSUME NEW r \in Runners, RunStep(r) PROVE Inv'
  <2>1. CASE Start(r)
    BY <2>1, StartInv
  <2>2. CASE Answer(r) \/ Retry(r) \/ Refuse(r)
    BY <2>2, FetchInv
  <2>3. CASE Acquire(r)
    BY <2>3, AcquireInv
  <2>4. CASE Store(r)
    BY <2>4, StoreInv
  <2>5. CASE Resolve(r)
    BY <2>5, ResolveInv
  <2>6. CASE Refresh(r)
    BY <2>6, RefreshInv
  <2>7. CASE Commit(r) \/ LoseCommit(r)
    BY <2>7, ApplyInv
  <2>8. CASE Abort(r)
    BY <2>8, AbortInv
  <2>9. CASE RecordFailure(r)
    BY <2>9, RecordFailureInv
  <2>10. CASE LoseFailure(r)
    BY <2>10, LoseFailureInv
  <2>11. QED
    BY <1>1, <2>1, <2>2, <2>3, <2>4, <2>5, <2>6, <2>7, <2>8, <2>9, <2>10 DEF RunStep
<1>2. ASSUME NEW r \in Runners, Crash(ProcessOf[r]) PROVE Inv'
  BY <1>2, CrashInv
<1>3. CASE Tick \/ SetBack
  BY <1>3, ClockInv
<1>4. CASE UNCHANGED vars
  <2>1. /\ UNCHANGED <<Database, clock, setbacks>> /\ run' = run
        /\ runs' \in Nat /\ faults' \in Nat
    BY <1>4 DEF vars, Database, Inv, TypeOK
  <2>2. run' \in [Runners -> Run] /\ \A r \in Runners : RunFits(r, run'[r])
    BY <2>1 DEF Inv, TypeOK
  <2>3. \A r, o \in Runners :
           run'[r].pc \in InTransaction /\ run'[o].pc \in InTransaction => r = o
    BY <2>1 DEF Inv, LockHeldByOne
  <2>4. QED
    BY <2>1, <2>2, <2>3, QuietStep
<1>5. QED
  BY <1>1, <1>2, <1>3, <1>4 DEF Next

\* The invariant holds of every run of the worker.
LEMMA InvHolds == Spec => []Inv
BY InitInv, StepInv, PTL DEF Spec

\* Who may change the status row of a source: a run of it that commits, or one
\* that records its failure while nobody is in a transaction.
LEMMA RowChanges ==
    ASSUME Inv, [Next]_vars, NEW s \in Sources, status'[s] # status[s]
    PROVE  \E r \in Runners :
             /\ SourceOf[r] = s
             /\ \/ run[r].pc = "refreshed" /\ status'[s] = Success(r)
                \/ run[r].pc = "failed" /\ LockFree /\ status'[s] = Failure(r)
<1>1. status \in [Sources -> StatusRow]
  BY DEF Inv, TypeOK
<1>2. PICK r \in Runners : Commit(r) \/ LoseCommit(r) \/ RecordFailure(r)
  BY Zenon
     DEF Next, RunStep, Start, Answer, Retry, Refuse, Acquire, Store, Resolve, Refresh,
         Abort, LoseFailure, Crash, Tick, SetBack, vars, Database
<1>3. CASE Commit(r) \/ LoseCommit(r)
  <2>1. run[r].pc = "refreshed" /\ status' = [status EXCEPT ![SourceOf[r]] = Success(r)]
    BY <1>3 DEF Commit, LoseCommit, Apply
  <2>2. QED
    BY <1>1, <2>1
<1>4. CASE RecordFailure(r)
  <2>1. /\ run[r].pc = "failed" /\ LockFree
        /\ status' = [status EXCEPT ![SourceOf[r]] = Failure(r)]
    BY <1>4 DEF RecordFailure
  <2>2. QED
    BY <1>1, <2>1
<1>5. QED
  BY <1>2, <1>3, <1>4

\* Every reading is stored once and counted once, the incidents are those of
\* what is stored, and a source shown as fresh is: whatever the sources repeat,
\* the workers interleave, lose or crash on (IngestionService.run_source,
\* ObservationRepository.upsert_many, _source_freshness).
THEOREM StoreStaysSound == Spec => []StoreSound
<1>1. Inv => StoreSound
  <2> SUFFICES ASSUME Inv PROVE StoreSound
    OBVIOUS
  <2>1. ASSUME setbacks = 0, NEW s \in Sources, Freshness(s) = "fresh"
        PROVE  clock - landed[s] <= StaleAfter
    <3>1. s # "replay" /\ clock - status[s].success <= StaleAfter
      BY <2>1 DEF Freshness
    <3>2. status[s].success <= landed[s]
      BY <2>1, <3>1 DEF Inv, StatusFits
    <3>3. landed[s] \in Int /\ status[s].success \in Int /\ clock \in Int /\ StaleAfter \in Int
      BY IngestionAssumption DEF Inv, TypeOK, StatusRow, Times, Never
    <3>4. QED
      BY <3>1, <3>2, <3>3
  <2>2. FreshIsRecent
    BY <2>1 DEF FreshIsRecent
  <2>3. QED
    BY <2>2 DEF Inv, StoreSound
<1>2. QED
  BY <1>1, InvHolds, PTL

\* The counts a committed run shows cover the response it was given, row by row
\* (IngestionService.run_source, FirmsAdapter.fetch, NwsAdapter.fetch).
THEOREM EveryRowIsCounted == Spec => EveryRowCounted
<1>1. ASSUME Inv, [Next]_vars, NEW r \in Runners,
             run[r].pc = "refreshed", status'[SourceOf[r]] # status[SourceOf[r]]
      PROVE  LET row == status'[SourceOf[r]]
             IN row.accepted + row.deduplicated + row.quarantined = Offered(run[r].body)
  <2>1. PICK o \in Runners :
           /\ SourceOf[o] = SourceOf[r]
           /\ \/ run[o].pc = "refreshed" /\ status'[SourceOf[r]] = Success(o)
              \/ run[o].pc = "failed" /\ LockFree
    BY <1>1, RowChanges DEF Sources
  <2>2. run[r].pc \in InTransaction
    BY <1>1 DEF InTransaction
  <2>3. o = r /\ status'[SourceOf[r]] = Success(r)
    BY <1>1, <2>1, <2>2 DEF Inv, LockHeldByOne, LockFree, InTransaction
  <2>4. QED
    BY <1>1, <2>3, CommitIs
<1>2. Inv /\ [Next]_vars =>
        [\A r \in Runners :
            run[r].pc = "refreshed" /\ status'[SourceOf[r]] # status[SourceOf[r]] =>
              LET row == status'[SourceOf[r]]
              IN row.accepted + row.deduplicated + row.quarantined = Offered(run[r].body)]_vars
  BY <1>1
<1>3. QED
  BY <1>2, InvHolds, PTL DEF Spec, EveryRowCounted

\* A live run that commits takes a reference at or after every one shown, and the
\* last attempt of a live source that one loop polls stays behind its next one,
\* failed or not (_resolve_operational_reference, _record_source_failure).
THEOREM ReferencesGoForward == Spec => NothingGoesBack
<1>1. ASSUME Inv, [Next]_vars, NEW s \in Sources \ {"replay"},
             status'[s].success # status[s].success
      PROVE  status'[s].success >= LatestSuccess
  <2> DEFINE S == {status[o].success : o \in Sources \ {"replay"}}
  <2>1. PICK r \in Runners :
           /\ SourceOf[r] = s
           /\ \/ run[r].pc = "refreshed" /\ status'[s] = Success(r)
              \/ status'[s] = Failure(r)
    BY <1>1, RowChanges
  <2>2. run[r].pc = "refreshed" /\ status'[s].success = run[r].at
    BY <1>1, <2>1, CommitIs DEF Failure, NoRow
  <2>3. \A o \in Sources : run[r].at >= status[o].success
    BY <1>1, <2>1, <2>2, RunIs DEF RunFits, ReferenceFits
  <2>4. S \subseteq Int /\ S # {} /\ MaxClock \in Int /\ \A x \in S : x <= MaxClock
    BY <1>1, RunIs, <2>1 DEF Inv, StatusFits
  <2>5. Max(S) \in S
    <3> HIDE DEF S
    <3>1. QED
      BY <2>4, MaxIs
  <2>6. QED
    BY <2>2, <2>3, <2>5 DEF LatestSuccess
<1>2. ASSUME Inv, [Next]_vars, setbacks = 0, NEW s \in Sources \ {"replay"}, Lone(s)
      PROVE  status'[s].attempted >= status[s].attempted
  <2>1. CASE status'[s] = status[s]
    BY <1>2, <2>1 DEF Inv, TypeOK, StatusRow
  <2>2. CASE status'[s] # status[s]
    <3>1. PICK r \in Runners :
             /\ SourceOf[r] = s
             /\ \/ run[r].pc = "refreshed" /\ status'[s] = Success(r)
                \/ run[r].pc = "failed" /\ status'[s] = Failure(r)
      BY <1>2, <2>2, RowChanges
    <3>2. status'[s].attempted = run[r].at
      BY <1>2, <3>1, CommitIs DEF Failure, NoRow
    <3>3. LoneAhead(r, run[r])
      BY <1>2, RunIs DEF RunFits
    <3>4. QED
      BY <1>2, <3>1, <3>2, <3>3 DEF LoneAhead
  <2>3. QED
    BY <2>1, <2>2
<1>3. Inv /\ [Next]_vars =>
        [\A s \in Sources \ {"replay"} :
            status'[s].success # status[s].success => status'[s].success >= LatestSuccess]_vars
  BY <1>1
<1>4. Inv /\ [Next]_vars =>
        [setbacks = 0 => \A s \in Sources \ {"replay"} :
            Lone(s) => status'[s].attempted >= status[s].attempted]_vars
  BY <1>2
<1>5. Spec => LiveRefreshForward
  BY <1>3, InvHolds, PTL DEF Spec, LiveRefreshForward
<1>6. Spec => AttemptsForward
  BY <1>4, InvHolds, PTL DEF Spec, AttemptsForward
<1>7. QED
  BY <1>5, <1>6 DEF NothingGoesBack

-----------------------------------------------------------------------------
(* Incidents.  A refresh partitions the current detections; each incident  *)
(* gets what the clusters it continues hold.                               *)

\* A nonempty set of integers above a bound has a least, and Min picks it.
LEMMA MinIs ==
    ASSUME NEW S, S \subseteq Int, S # {}, NEW b \in Int, \A x \in S : b <= x
    PROVE  Min(S) \in S /\ \A y \in S : Min(S) <= y
<1> DEFINE T == {0 - x : x \in S}
           m == Max(T)
<1>1. T \subseteq Int /\ T # {} /\ 0 - b \in Int /\ \A x \in T : x <= 0 - b
  <2>1. \A x \in S : x \in Int /\ 0 - x \in Int /\ 0 - x <= 0 - b
    <3> SUFFICES ASSUME NEW x \in S PROVE x \in Int /\ 0 - x \in Int /\ 0 - x <= 0 - b
      OBVIOUS
    <3>1. x \in Int /\ b <= x
      OBVIOUS
    <3>2. QED
      BY <3>1
  <2>2. T \subseteq Int /\ T # {} /\ 0 - b \in Int
    <3>1. T \subseteq Int
      BY <2>1
    <3>2. PICK x : x \in S
      OBVIOUS
    <3>3. 0 - x \in T
      BY <3>2
    <3>4. QED
      BY <3>1, <3>3
  <2>3. ASSUME NEW x \in T PROVE x <= 0 - b
    <3>1. PICK y \in S : x = 0 - y
      OBVIOUS
    <3>2. QED
      BY <2>1, <3>1
  <2>4. QED
    BY <2>2, <2>3
<1> HIDE DEF T
<1>2. m \in T /\ \A y \in T : m >= y
  BY <1>1, MaxIs
<1> HIDE DEF m
<1>3. PICK x \in S : m = 0 - x
  BY <1>2 DEF T
<1>4. \A y \in S : x <= y
  <2> SUFFICES ASSUME NEW y \in S PROVE x <= y
    OBVIOUS
  <2>1. 0 - y \in T /\ x \in Int /\ y \in Int
    BY DEF T
  <2>2. QED
    BY <1>2, <1>3, <2>1
<1>5. QED
  BY <1>4 DEF Min

\* Clusters are nonempty, disjoint, and hold what is clustered.
LEMMA ClustersPartition ==
    ASSUME NEW D
    PROVE  /\ UNION Clusters(D) = Clustered(D)
           /\ \A C \in Clusters(D) : C # {}
           /\ \A C, E \in Clusters(D) : C # E => C \cap E = {}
<1> DEFINE S == Clustered(D)
           leader == [d \in S |-> LeaderOf(d, D)]
           group(c) == {d \in S : leader[d] = c}
<1>1. Clusters(D) = {group(c) : c \in {leader[d] : d \in S}}
  BY DEF Clusters
<1> HIDE DEF S, leader
<1>2. \A C \in Clusters(D) : \E e \in S : C = {d \in S : leader[d] = leader[e]}
  BY <1>1
<1>3. \A e \in S : {d \in S : leader[d] = leader[e]} \in Clusters(D)
  BY <1>1
<1>4. UNION Clusters(D) = S
  <2>1. \A C \in Clusters(D) : C \subseteq S
    BY <1>2
  <2>2. \A e \in S : \E C \in Clusters(D) : e \in C
    BY <1>3
  <2>3. QED
    BY <2>1, <2>2
<1>5. \A C \in Clusters(D) : C # {}
  BY <1>2
<1>6. ASSUME NEW C \in Clusters(D), NEW E \in Clusters(D), C # E PROVE C \cap E = {}
  <2>1. PICK e \in S : C = {d \in S : leader[d] = leader[e]}
    BY <1>2
  <2>2. PICK f \in S : E = {d \in S : leader[d] = leader[f]}
    BY <1>2
  <2>3. QED
    BY <1>6, <2>1, <2>2
<1>7. QED
  BY <1>4, <1>5, <1>6 DEF S

\* The rows of an incident.
RowFits(row) ==
    /\ row = [ status |-> row.status, x |-> row.x, first |-> row.first, last |-> row.last,
               score |-> row.score ]
    /\ row.status \in {"none", "active", "inactive"}
    /\ row.first \in Int /\ row.last \in Int

RowsFit == \A i \in IncidentIds : RowFits(incident[i])

\* A history so far.
HistoryFits(readings) == readings = {} \/ \E h \in Histories : readings \subseteq h

\* The times of a cluster.
LEMMA ClusterTimes ==
    ASSUME NEW readings, NEW at \in Int, NEW C \in Clusters(CurrentFires(readings, at))
    PROVE  Earliest(C) \in Int /\ Latest(C) \in Int /\ C \subseteq readings
<1> DEFINE D == CurrentFires(readings, at)
           low == at - TemporalWindow
<1>1. C # {} /\ C \subseteq Clustered(D)
  BY ClustersPartition
<1>2. C \subseteq D
  BY <1>1 DEF Clustered
<1>3. \A d \in D : d \in readings /\ d.at \in low .. at
  BY DEF CurrentFires, Fires
<1>4. low \in Int
  BY ClusteringAssumption
<1> HIDE DEF D, low
<1> DEFINE times == {d.at : d \in C}
<1>5. times \subseteq Int /\ times # {} /\ \A x \in times : low <= x /\ x <= at
  BY <1>1, <1>2, <1>3, <1>4
<1> HIDE DEF times
<1>6. Min(times) \in times
  BY <1>4, <1>5, MinIs
<1>7. Max(times) \in times
  BY <1>5, MaxIs
<1>8. QED
  BY <1>2, <1>3, <1>5, <1>6, <1>7 DEF Earliest, Latest, times

\* Of two numbers.
LEMMA MinMaxOfTwo ==
    ASSUME NEW a \in Int, NEW b \in Int
    PROVE  /\ Min({a, b}) \in Int /\ Min({a, b}) <= a
           /\ Max({a, b}) \in Int /\ Max({a, b}) >= a
<1> DEFINE S == {a, b}
<1>1. /\ S \subseteq Int /\ S # {} /\ a \in S
      /\ \E l \in Int : \A x \in S : l <= x
      /\ \E h \in Int : \A x \in S : x <= h
  <2>1. CASE a <= b
    BY <2>1
  <2>2. CASE b <= a
    BY <2>2
  <2>3. QED
    BY <2>1, <2>2
<1> HIDE DEF S
<1>2. Min(S) \in S /\ \A y \in S : Min(S) <= y
  BY <1>1, MinIs
<1>3. Max(S) \in S /\ \A y \in S : Max(S) >= y
  BY <1>1, MaxIs
<1>4. QED
  BY <1>1, <1>2, <1>3 DEF S

\* A continued incident is active and only widens its times.
LEMMA ContinuedFits ==
    ASSUME NEW row, RowFits(row), NEW C, Earliest(C) \in Int, Latest(C) \in Int,
           NEW after, after = Continued(row, C)
    PROVE  /\ RowFits(after) /\ after.status = "active"
           /\ after.first <= row.first /\ after.last >= row.last
<1>1. PICK first, latest : first = Min({row.first, Earliest(C)})
                           /\ latest = Max({row.last, Latest(C)})
  OBVIOUS
<1>2. first \in Int /\ first <= row.first /\ latest \in Int /\ latest >= row.last
  BY <1>1, MinMaxOfTwo DEF RowFits
<1>3. row = [ status |-> row.status, x |-> row.x, first |-> row.first, last |-> row.last,
              score |-> row.score ]
  BY DEF RowFits
<1> DEFINE u == [ status |-> "active", x |-> Centroid(C), first |-> first, last |-> latest,
                  score |-> row.score ]
<1>4. after = u
  BY <1>1, <1>3 DEF Continued
<1>5. QED
  BY <1>2, <1>4 DEF RowFits

\* A created incident is active.
LEMMA CreatedFits ==
    ASSUME NEW C, Earliest(C) \in Int, Latest(C) \in Int, NEW after, after = Created(C)
    PROVE  RowFits(after) /\ after.status = "active"
BY DEF Created, None, RowFits

\* One left behind is not active, and stays what it was else.
LEMMA InactiveFits ==
    ASSUME NEW row, RowFits(row), NEW after, after = Inactive(row)
    PROVE  /\ RowFits(after) /\ after.status # "active"
           /\ row.status # "none" => after.status # "none"
           /\ after.first = row.first /\ after.last = row.last
<1>1. CASE row.status = "none"
  BY <1>1 DEF Inactive
<1>2. CASE row.status # "none"
  <2>1. after = [row EXCEPT !.status = "inactive"]
    BY <1>2 DEF Inactive
  <2>2. row = [ status |-> row.status, x |-> row.x, first |-> row.first, last |-> row.last,
                score |-> row.score ]
    BY DEF RowFits
  <2>3. after = [ status |-> "inactive", x |-> row.x, first |-> row.first, last |-> row.last,
                  score |-> row.score ]
    BY <2>1, <2>2
  <2>4. QED
    BY <2>3 DEF RowFits
<1>3. QED
  BY <1>1, <1>2

\* What a refresh computes consists of.
LEMMA OutcomeIs ==
    ASSUME NEW readings, NEW known, NEW at, NEW outcome \in Outcomes(readings, known, at),
           NEW clusters, clusters = Clusters(CurrentFires(readings, at))
    PROVE  \E home \in [clusters -> IncidentIds] :
              /\ home \in Homes(clusters)
              /\ outcome.rows = RefreshedRows(clusters, home)
              /\ outcome.members = RefreshedMembers(clusters, home)
              /\ DOMAIN outcome.states = {i \in IncidentIds : outcome.rows[i].status = "active"}
              /\ \A i \in DOMAIN outcome.states : outcome.states[i] =
                    Described(outcome.rows[i], outcome.members[i], readings, known, at)
<1>1. PICK home \in Homes(clusters) :
         LET rows == RefreshedRows(clusters, home)
             ids == RefreshedMembers(clusters, home)
             active == {i \in IncidentIds : rows[i].status = "active"}
         IN outcome = [rows |-> rows, members |-> ids,
                states |-> [i \in active |-> Described(rows[i], ids[i], readings, known, at)]]
  BY DEF Outcomes
<1>2. home \in [clusters -> IncidentIds]
  BY DEF Homes
<1> DEFINE rows == RefreshedRows(clusters, home)
           ids == RefreshedMembers(clusters, home)
           active == {i \in IncidentIds : rows[i].status = "active"}
           states == [i \in active |-> Described(rows[i], ids[i], readings, known, at)]
<1>3. outcome.rows = rows /\ outcome.members = ids /\ outcome.states = states
  BY <1>1
<1> HIDE DEF rows, ids
<1>4. QED
  BY <1>2, <1>3 DEF rows, ids

\* What a refresh makes of the rows.
LEMMA RefreshedRowsFit ==
    ASSUME RowsFit, NEW readings, NEW at \in Int,
           NEW clusters, clusters = Clusters(CurrentFires(readings, at)),
           NEW home \in [clusters -> IncidentIds],
           NEW rows, rows = RefreshedRows(clusters, home), NEW i \in IncidentIds
    PROVE  /\ RowFits(rows[i])
           /\ rows[i].status = "active" <=> \E C \in clusters : home[C] = i
           /\ i \in Known => /\ rows[i].status # "none"
                             /\ rows[i].first <= incident[i].first
                             /\ rows[i].last >= incident[i].last
<1> DEFINE own == {C \in clusters : home[C] = i}
           D == CHOOSE C \in own : TRUE
<1>1. RowFits(incident[i])
  BY DEF RowsFit
<1>2. rows[i] = IF own = {} THEN Inactive(incident[i])
                ELSE IF i \in Known THEN Continued(incident[i], D) ELSE Created(D)
  BY DEF RefreshedRows
<1>3. incident[i].first <= incident[i].first /\ incident[i].last >= incident[i].last
  BY <1>1 DEF RowFits
<1>4. i \in Known => incident[i].status # "none"
  BY DEF Known
<1>5. CASE own = {}
  <2>1. rows[i] = Inactive(incident[i])
    BY <1>2, <1>5
  <2>2. /\ RowFits(rows[i]) /\ rows[i].status # "active"
        /\ incident[i].status # "none" => rows[i].status # "none"
        /\ rows[i].first = incident[i].first /\ rows[i].last = incident[i].last
    <3>1. PICK row, after : row = incident[i] /\ after = rows[i]
      OBVIOUS
    <3>2. QED
      BY <1>1, <2>1, <3>1, InactiveFits
  <2>3. QED
    BY <1>3, <1>4, <1>5, <2>2
<1>6. CASE own # {}
  <2>1. D \in own
    BY <1>6
  <2>2. D \in clusters /\ home[D] = i
    BY <2>1
  <2>3. PICK C : C = D
    OBVIOUS
  <2>4. Earliest(C) \in Int /\ Latest(C) \in Int
    BY <2>2, <2>3, ClusterTimes
  <2>5. PICK row, after : row = incident[i] /\ after = rows[i]
    OBVIOUS
  <2> HIDE DEF D
  <2>6. CASE i \in Known
    <3>1. after = Continued(row, C)
      BY <1>2, <1>6, <2>3, <2>5, <2>6
    <3>2. /\ RowFits(after) /\ after.status = "active"
          /\ after.first <= row.first /\ after.last >= row.last
      BY <1>1, <2>4, <2>5, <3>1, ContinuedFits
    <3>3. QED
      BY <2>2, <2>5, <3>2
  <2>7. CASE i \notin Known
    <3>1. after = Created(C)
      BY <1>2, <1>6, <2>3, <2>5, <2>7
    <3>2. RowFits(after) /\ after.status = "active"
      BY <2>4, <3>1, CreatedFits
    <3>3. QED
      BY <2>2, <2>5, <2>7, <3>2
  <2>8. QED
    BY <2>6, <2>7
<1>7. QED
  BY <1>5, <1>6

\* What a refresh makes of the members: of each detection clustered, one incident's.
LEMMA RefreshedMembersFit ==
    ASSUME NEW readings, HistoryFits(readings), NEW at \in Int,
           NEW D, D = CurrentFires(readings, at), NEW clusters, clusters = Clusters(D),
           NEW home \in [clusters -> IncidentIds],
           NEW ids, ids = RefreshedMembers(clusters, home)
    PROVE  /\ \A i, j \in IncidentIds : i # j => ids[i] \cap ids[j] = {}
           /\ \A i \in IncidentIds : ids[i] # {} <=> \E C \in clusters : home[C] = i
           /\ UNION {ids[i] : i \in IncidentIds} = Ids(Clustered(D))
<1>1. \A i \in IncidentIds : ids[i] = UNION {Ids(C) : C \in {E \in clusters : home[E] = i}}
  BY DEF RefreshedMembers
<1>2. \A i \in IncidentIds : \A n : n \in ids[i] <=>
         \E C \in clusters : home[C] = i /\ \E d \in C : n = d.id
  BY <1>1 DEF Ids
<1>3. /\ UNION clusters = Clustered(D)
      /\ \A C \in clusters : C # {}
      /\ \A C, E \in clusters : C # E => C \cap E = {}
  BY ClustersPartition
<1>4. Clustered(D) \subseteq readings
  BY DEF Clustered, CurrentFires, Fires
<1>5. \A r, q \in readings : r.id = q.id => r = q
  BY IncidentsAssumption DEF HistoryFits
<1>6. ASSUME NEW i \in IncidentIds, NEW j \in IncidentIds, i # j
      PROVE  ids[i] \cap ids[j] = {}
  <2> SUFFICES ASSUME NEW n \in ids[i], n \in ids[j] PROVE FALSE
    OBVIOUS
  <2>1. PICK C \in clusters : \E d \in C : home[C] = i /\ n = d.id
    BY <1>2
  <2>2. PICK E \in clusters : \E e \in E : home[E] = j /\ n = e.id
    BY <1>2
  <2>3. PICK d \in C : home[C] = i /\ n = d.id
    BY <2>1
  <2>4. PICK e \in E : home[E] = j /\ n = e.id
    BY <2>2
  <2>5. d \in readings /\ e \in readings
    BY <1>3, <1>4
  <2>6. d = e
    BY <1>5, <2>3, <2>4, <2>5
  <2>7. C = E
    BY <1>3, <2>6
  <2>8. QED
    BY <1>6, <2>3, <2>4, <2>7
<1>7. ASSUME NEW i \in IncidentIds
      PROVE  ids[i] # {} <=> \E C \in clusters : home[C] = i
  <2>1. ASSUME NEW C \in clusters, home[C] = i PROVE ids[i] # {}
    <3>1. PICK d \in C : TRUE
      BY <1>3
    <3>2. d.id \in ids[i]
      BY <1>2, <2>1
    <3>3. QED
      BY <3>2
  <2>2. QED
    BY <1>2, <2>1
<1>8. \A n : (\E i \in IncidentIds : n \in ids[i]) <=> n \in Ids(Clustered(D))
  <2>1. ASSUME NEW n, NEW i \in IncidentIds, n \in ids[i] PROVE n \in Ids(Clustered(D))
    <3>1. PICK C \in clusters : \E d \in C : n = d.id
      BY <1>2, <2>1
    <3>2. PICK d \in C : n = d.id
      BY <3>1
    <3>3. d \in Clustered(D)
      BY <1>3
    <3>4. QED
      BY <3>2, <3>3 DEF Ids
  <2>2. ASSUME NEW n \in Ids(Clustered(D)) PROVE \E i \in IncidentIds : n \in ids[i]
    <3>1. PICK d \in Clustered(D) : n = d.id
      BY DEF Ids
    <3>2. PICK C \in clusters : d \in C
      BY <1>3
    <3>3. home[C] \in IncidentIds /\ n \in ids[home[C]]
      BY <1>2, <3>1, <3>2
    <3>4. QED
      BY <3>3
  <2>3. QED
    BY <2>1, <2>2
<1>9. QED
  BY <1>6, <1>7, <1>8

IncidentsInv == HistoryFits(stored) /\ RowsFit /\ EachDetectionOnce

\* What every refresh leaves, and a seeding too.
LEMMA AdoptedFits ==
    ASSUME RowsFit, NEW readings, HistoryFits(readings), NEW known, NEW at \in 0 .. MaxTime,
           NEW outcome \in Outcomes(readings, known, at),
           NEW states, DOMAIN states = DOMAIN outcome.states,
           Adopt(outcome, states), stored' = readings, last' = at
    PROVE  /\ IncidentsInv'
           /\ \A i \in Known : /\ incident'[i].status # "none"
                               /\ incident'[i].first <= incident[i].first
                               /\ incident'[i].last >= incident[i].last
           /\ Active' = DOMAIN states
           /\ \A i \in DOMAIN states : /\ incident'[i].x = outcome.rows[i].x
                                      /\ incident'[i].first = outcome.rows[i].first
                                      /\ incident'[i].last = outcome.rows[i].last
<1> DEFINE D == CurrentFires(readings, at)
           clusters == Clusters(D)
           rows == outcome.rows
           ids == outcome.members
<1>1. PICK home \in [clusters -> IncidentIds] :
         /\ rows = RefreshedRows(clusters, home) /\ ids = RefreshedMembers(clusters, home)
         /\ DOMAIN outcome.states = {i \in IncidentIds : rows[i].status = "active"}
  BY OutcomeIs
<1>2. at \in Int /\ at # Unrefreshed
  BY IncidentsAssumption DEF Unrefreshed
<1>3. \A i \in IncidentIds :
         /\ RowFits(rows[i])
         /\ rows[i].status = "active" <=> \E C \in clusters : home[C] = i
         /\ i \in Known => /\ rows[i].status # "none"
                           /\ rows[i].first <= incident[i].first
                           /\ rows[i].last >= incident[i].last
  <2>1. PICK all, made : all = clusters /\ made = rows
    OBVIOUS
  <2>2. QED
    BY <1>1, <1>2, <2>1, RefreshedRowsFit
<1>4. /\ \A i, j \in IncidentIds : i # j => ids[i] \cap ids[j] = {}
      /\ \A i \in IncidentIds : ids[i] # {} <=> \E C \in clusters : home[C] = i
      /\ UNION {ids[i] : i \in IncidentIds} = Ids(Clustered(D))
  <2>1. PICK fires, all, made : fires = D /\ all = clusters /\ made = ids
    OBVIOUS
  <2>2. QED
    BY <1>1, <1>2, <2>1, RefreshedMembersFit
<1> HIDE DEF D, clusters, rows, ids
<1>5. /\ incident' = [i \in IncidentIds |-> IF i \in DOMAIN states
                          THEN [rows[i] EXCEPT !.score = states[i].score] ELSE rows[i]]
      /\ members' = ids
  BY DEF Adopt, rows, ids
<1>6. ASSUME NEW i \in IncidentIds
      PROVE  /\ RowFits(incident'[i]) /\ incident'[i].status = rows[i].status
             /\ incident'[i].first = rows[i].first /\ incident'[i].last = rows[i].last
             /\ incident'[i].x = rows[i].x
  <2> DEFINE row == rows[i]
             score == states[i].score
             u == [ status |-> row.status, x |-> row.x, first |-> row.first, last |-> row.last,
                    score |-> score ]
  <2>1. row = [ status |-> row.status, x |-> row.x, first |-> row.first, last |-> row.last,
                score |-> row.score ]
    BY <1>3 DEF RowFits
  <2>2. row.status \in {"none", "active", "inactive"} /\ row.first \in Int /\ row.last \in Int
    BY <1>3 DEF RowFits
  <2>3. incident'[i] = IF i \in DOMAIN states THEN [row EXCEPT !.score = score] ELSE row
    BY <1>5
  <2> HIDE DEF row, score
  <2>4. [row EXCEPT !.score = score] = u
    BY <2>1
  <2>5. RowFits(u) /\ RowFits(row)
    BY <2>1, <2>2 DEF RowFits
  <2>6. QED
    BY <2>3, <2>4, <2>5 DEF row
<1>7. RowsFit' /\ HistoryFits(stored)'
  BY <1>6 DEF RowsFit, HistoryFits
<1>8. Active' = {i \in IncidentIds : rows[i].status = "active"}
  BY <1>6 DEF Active
<1>9. EachDetectionOnce'
  <2>1. \A i, j \in IncidentIds : i # j => members'[i] \cap members'[j] = {}
    BY <1>4, <1>5
  <2>2. \A i \in IncidentIds : i \in Active' <=> members'[i] # {}
    BY <1>3, <1>4, <1>5, <1>8
  <2>3. UNION {members'[i] : i \in IncidentIds} = Ids(Clustered(CurrentFires(stored', last')))
    BY <1>4, <1>5 DEF D
  <2>4. last' # Unrefreshed
    BY <1>2
  <2>5. QED
    BY <2>1, <2>2, <2>3, <2>4 DEF EachDetectionOnce
<1>10. (\A i \in Known : i \in IncidentIds) /\ DOMAIN states \subseteq IncidentIds
  BY <1>1, <1>8 DEF Known, rows
<1>11. QED
  BY <1>1, <1>3, <1>5, <1>6, <1>7, <1>8, <1>9, <1>10 DEF IncidentsInv, rows

\* Where the readings of a step come from.
LEMMA ReadingsFit ==
    ASSUME NEW new \in Arriving
    PROVE  HistoryFits(stored \cup new)
BY DEF Arriving, HistoryFits

\* A refresh or a seeding: the readings and assets it is over, what it computes and records.
StepFrom(readings, known, states, at, outcome) ==
    /\ at \in 0 .. MaxTime /\ outcome \in Outcomes(readings, known, at)
    /\ HistoryFits(readings) /\ DOMAIN states = DOMAIN outcome.states
    /\ Adopt(outcome, states) /\ stored' = readings /\ last' = at /\ assets' = known
    /\ \/ states = outcome.states
       \/ /\ ProtectedTablesEmpty
          /\ \E p \in Packages : states = Named(outcome.states, p.name)

\* A step is a refresh of what is stored then.
LEMMA StepIsRefresh ==
    ASSUME IncidentsNext
    PROVE  \E readings, known, states, at, outcome :
              StepFrom(readings, known, states, at, outcome)
<1>1. CASE LiveRun
  <2>1. PICK new \in Arriving, at \in 0 .. MaxTime :
           /\ stored' = stored \cup new /\ RefreshFrom(stored \cup new, at) /\ last' = at
           /\ assets' = assets
    BY <1>1 DEF LiveRun
  <2>2. PICK readings, known : readings = stored \cup new /\ known = assets
    OBVIOUS
  <2>3. PICK outcome \in Outcomes(readings, known, at) : Adopt(outcome, outcome.states)
    BY <2>1, <2>2 DEF RefreshFrom
  <2>4. PICK states : states = outcome.states
    OBVIOUS
  <2>5. HistoryFits(readings)
    BY <2>2, ReadingsFit
  <2>6. StepFrom(readings, known, states, at, outcome)
    BY <2>1, <2>2, <2>3, <2>4, <2>5 DEF StepFrom
  <2>7. QED
    BY <2>6
<1>2. CASE ReplayRun
  <2>1. PICK p \in Packages :
           /\ p.readings \ stored \in Arriving
           /\ stored' = stored \cup p.readings /\ RefreshFrom(stored \cup p.readings, p.end)
           /\ last' = p.end /\ assets' = assets
    BY <1>2 DEF ReplayRun
  <2>2. PICK readings, known, at : /\ readings = stored \cup p.readings /\ known = assets
                                   /\ at = p.end
    OBVIOUS
  <2>3. PICK outcome \in Outcomes(readings, known, at) : Adopt(outcome, outcome.states)
    BY <2>1, <2>2 DEF RefreshFrom
  <2>4. PICK states : states = outcome.states
    OBVIOUS
  <2>5. readings = stored \cup (p.readings \ stored)
    BY <2>2
  <2>6. HistoryFits(readings)
    BY <2>1, <2>5, ReadingsFit
  <2>7. at \in 0 .. MaxTime
    BY <2>2, IncidentsAssumption
  <2>8. StepFrom(readings, known, states, at, outcome)
    BY <2>1, <2>2, <2>3, <2>4, <2>6, <2>7 DEF StepFrom
  <2>9. QED
    BY <2>8
<1>3. CASE \E p \in Packages : Seed(p)
  <2>1. PICK p \in Packages : Seed(p)
    BY <1>3
  <2>2. PICK outcome \in Outcomes(p.readings, Assets, p.end) :
           Adopt(outcome, Named(outcome.states, p.name))
    BY <2>1 DEF Seed
  <2>3. /\ ProtectedTablesEmpty /\ stored' = p.readings /\ last' = p.end /\ assets' = Assets
    BY <2>1 DEF Seed
  <2>4. PICK states : states = Named(outcome.states, p.name)
    OBVIOUS
  <2>5. DOMAIN states = DOMAIN outcome.states
    BY <2>4 DEF Named
  <2>6. HistoryFits(p.readings) /\ p.end \in 0 .. MaxTime
    BY IncidentsAssumption DEF HistoryFits
  <2>7. StepFrom(p.readings, Assets, states, p.end, outcome)
    BY <2>2, <2>3, <2>4, <2>5, <2>6 DEF StepFrom
  <2>8. QED
    BY <2>7
<1>4. QED
  BY <1>1, <1>2, <1>3 DEF IncidentsNext

\* Nothing is known at first.
LEMMA IncidentsInitially == IncidentsInit => IncidentsInv
<1> SUFFICES ASSUME IncidentsInit PROVE IncidentsInv
  OBVIOUS
<1>1. RowsFit
  BY DEF IncidentsInit, RowsFit, RowFits, None
<1>2. Active = {}
  BY DEF IncidentsInit, Active, None
<1>3. \A i \in IncidentIds : members[i] = {}
  BY DEF IncidentsInit
<1>4. UNION {members[i] : i \in IncidentIds} = {}
  BY <1>3
<1>5. HistoryFits(stored) /\ last = Unrefreshed
  BY DEF IncidentsInit, HistoryFits
<1>6. QED
  BY <1>1, <1>2, <1>3, <1>4, <1>5 DEF IncidentsInv, EachDetectionOnce

\* Each step leaves the invariant.
LEMMA IncidentsStep ==
    ASSUME IncidentsInv, [IncidentsNext]_incidentVars
    PROVE  IncidentsInv'
<1>1. CASE IncidentsNext
  <2>1. RowsFit
    BY DEF IncidentsInv
  <2>2. QED
    BY <1>1, <2>1, StepIsRefresh, AdoptedFits DEF StepFrom
<1>2. CASE UNCHANGED incidentVars
  BY <1>2 DEF incidentVars, IncidentsInv, RowsFit, HistoryFits, EachDetectionOnce, Active
<1>3. QED
  BY <1>1, <1>2

\* A clustered detection belongs to one active incident, noise and expired detections to none
\* (refresh_incidents, cluster_detections), whatever arrives, expires, splits or merges.
THEOREM DetectionsBelongOnce == IncidentsSpec => []EachDetectionOnce
<1>1. IncidentsInv => EachDetectionOnce
  BY DEF IncidentsInv
<1>2. QED
  BY <1>1, IncidentsInitially, IncidentsStep, PTL DEF IncidentsSpec

-----------------------------------------------------------------------------
(* Snapshots.  A chain only grows by what the refresh describes, under the *)
(* name the chain bears; only a seeding of an empty database gives one.    *)

\* The observed times of an incident only widen, and it never disappears
\* (refresh_incidents), also when it is left behind and continued again.
THEOREM TimesOnlyWiden == IncidentsSpec => TimesWiden
<1>1. IncidentsInv /\ [IncidentsNext]_incidentVars =>
         [\A i \in Known : /\ incident'[i].status # "none"
                           /\ incident'[i].first <= incident[i].first
                           /\ incident'[i].last >= incident[i].last]_incidentVars
  <2> SUFFICES ASSUME IncidentsInv, IncidentsNext
               PROVE  \A i \in Known : /\ incident'[i].status # "none"
                                       /\ incident'[i].first <= incident[i].first
                                       /\ incident'[i].last >= incident[i].last
    OBVIOUS
  <2>1. RowsFit
    BY DEF IncidentsInv
  <2>2. QED
    BY <2>1, StepIsRefresh, AdoptedFits DEF StepFrom
<1>2. QED
  BY <1>1, IncidentsInitially, IncidentsStep, PTL DEF IncidentsSpec, TimesWiden

IsChain(chain) == \E S : chain \in Seq(S)

\* All snapshots of a chain bear one name.
OneName(chain) == \A k \in 2 .. Len(chain) : chain[k].name = chain[k - 1].name
Bears(chain) == \E k \in DOMAIN chain : chain[k].name # ""

\* What a snapshot says under a name.
Says(described, shown) == [shown EXCEPT !.name = ""] = described
Under(described, n) == [described EXCEPT !.name = n]

\* Appending to a chain.
LEMMA AppendIs ==
    ASSUME NEW chain, IsChain(chain), NEW x
    PROVE  /\ IsChain(Append(chain, x)) /\ Append(chain, x) # <<>>
           /\ Len(chain) \in Nat /\ Len(Append(chain, x)) = Len(chain) + 1
           /\ DOMAIN chain = 1 .. Len(chain)
           /\ DOMAIN Append(chain, x) = 1 .. Len(chain) + 1
           /\ Append(chain, x)[Len(chain) + 1] = x
           /\ \A k \in 1 .. Len(chain) : Append(chain, x)[k] = chain[k]
           /\ chain # <<>> => Len(chain) > 0
<1>1. PICK S : chain \in Seq(S)
  BY DEF IsChain
<1> DEFINE T == S \cup {x}
<1>2. chain \in Seq(T) /\ x \in T
  BY <1>1
<1> HIDE DEF T
<1>3. Append(chain, x) \in Seq(T)
  BY <1>2
<1>4. IsChain(Append(chain, x))
  BY <1>3 DEF IsChain
<1>5. /\ Len(chain) \in Nat /\ Len(Append(chain, x)) = Len(chain) + 1
      /\ DOMAIN chain = 1 .. Len(chain)
      /\ DOMAIN Append(chain, x) = 1 .. Len(chain) + 1
      /\ Append(chain, x)[Len(chain) + 1] = x
      /\ \A k \in 1 .. Len(chain) : Append(chain, x)[k] = chain[k]
  BY <1>2
<1>6. chain # <<>> => Len(chain) > 0
  BY <1>2
<1>7. Append(chain, x) # <<>>
  BY <1>3, <1>5
<1>8. QED
  BY <1>4, <1>5, <1>6, <1>7

\* A record with a name, and its name changed.
IsRow(d) == d = [k \in DOMAIN d |-> d[k]] /\ "name" \in DOMAIN d

\* The last name counts, and a row's own changes nothing.
LEMMA RenamedIs ==
    ASSUME NEW d, IsRow(d), NEW n, NEW m
    PROVE  /\ [d EXCEPT !.name = n].name = n
           /\ [[d EXCEPT !.name = n] EXCEPT !.name = m] = [d EXCEPT !.name = m]
BY DEF IsRow

\* A snapshot without a name is such a record.
LEMMA UnnamedIs ==
    ASSUME NEW i, NEW q, NEW x, NEW first, NEW latest, NEW w, NEW e, NEW f, NEW v, NEW d,
           d = [ captured |-> i, detections |-> q, x |-> x, first |-> first, last |-> latest,
                 weather |-> w, exposed |-> e, factors |-> f, score |-> v, name |-> "" ]
    PROVE  IsRow(d) /\ d.name = ""
<1>1. IsRow(d)
  BY DEF IsRow
<1>2. d.name = ""
  OBVIOUS
<1>3. QED
  BY <1>1, <1>2

\* What a refresh describes.
LEMMA DescribedIs ==
    ASSUME NEW row, NEW ids, NEW readings, NEW known, NEW at,
           NEW d, d = Described(row, ids, readings, known, at)
    PROVE  IsRow(d) /\ Says(d, d)
<1>1. PICK i, q, x, first, latest, w, e, f, v :
         d = [ captured |-> i, detections |-> q, x |-> x, first |-> first, last |-> latest,
               weather |-> w, exposed |-> e, factors |-> f, score |-> v, name |-> "" ]
  BY DEF Described
<1>2. IsRow(d) /\ d.name = ""
  BY <1>1, UnnamedIs
<1>3. [d EXCEPT !.name = d.name] = d
  BY <1>2 DEF IsRow
<1>4. QED
  BY <1>2, <1>3 DEF Says

\* It says the same under any name.
LEMMA SaysUnderAnyName ==
    ASSUME NEW d, IsRow(d), Says(d, d), NEW n
    PROVE  Under(d, n).name = n /\ Says(d, Under(d, n))
<1>1. /\ [d EXCEPT !.name = n].name = n
      /\ [[d EXCEPT !.name = n] EXCEPT !.name = ""] = [d EXCEPT !.name = ""]
  BY RenamedIs
<1>2. QED
  BY <1>1 DEF Says, Under

\* What a chain becomes.
LEMMA ExtendedIs ==
    ASSUME NEW chain, IsChain(chain), OneName(chain), NEW state,
           NEW after, after = Extended(chain, state),
           NEW d, IsRow(d), Says(d, d), NEW n, state = Under(d, n)
    PROVE  /\ IsChain(after) /\ OneName(after) /\ Says(d, Last(after))
           /\ Bears(after) => Bears(chain) \/ (chain = <<>> /\ n # "")
<1> DEFINE was == Last(chain).name
           named == IF chain = <<>> THEN state ELSE [state EXCEPT !.name = was]
<1>1. Says(d, named) /\ named.name = (IF chain = <<>> THEN n ELSE was)
  <2>1. PICK w : w = was
    OBVIOUS
  <2>2. Says(d, state) /\ state.name = n
    BY SaysUnderAnyName
  <2>3. [state EXCEPT !.name = w] = Under(d, w)
    BY RenamedIs DEF Under
  <2>4. Says(d, Under(d, w)) /\ Under(d, w).name = w
    BY SaysUnderAnyName
  <2> HIDE DEF was
  <2>5. CASE chain = <<>>
    <3>1. named = state
      BY <2>5
    <3> HIDE DEF named
    <3>2. QED
      BY <2>2, <2>5, <3>1
  <2>6. CASE chain # <<>>
    <3>1. named = Under(d, w)
      BY <2>1, <2>3, <2>6
    <3> HIDE DEF named
    <3>2. QED
      BY <2>1, <2>4, <2>6, <3>1
  <2>7. QED
    BY <2>5, <2>6
<1>2. after = IF chain # <<>> /\ Last(chain) = named THEN chain ELSE Append(chain, named)
  BY DEF Extended
<1>3. chain # <<>> => Len(chain) > 0 /\ Len(chain) \in Nat /\ was = chain[Len(chain)].name
                      /\ DOMAIN chain = 1 .. Len(chain)
  BY AppendIs DEF Last
<1>4. chain = <<>> => Len(chain) = 0
  OBVIOUS
<1> HIDE DEF named, was
<1>5. CASE chain # <<>> /\ Last(chain) = named
  BY <1>1, <1>2, <1>5
<1>6. CASE ~(chain # <<>> /\ Last(chain) = named)
  <2>1. after = Append(chain, named)
    BY <1>2, <1>6
  <2> DEFINE l == Len(chain)
  <2>2. /\ IsChain(after) /\ Last(after) = named /\ l \in Nat
        /\ Len(after) = l + 1 /\ DOMAIN chain = 1 .. l /\ DOMAIN after = 1 .. l + 1
        /\ after[l + 1] = named /\ \A k \in 1 .. l : after[k] = chain[k]
    <3>1. IsChain(after)
      BY <2>1, AppendIs
    <3>2. Len(chain) \in Nat /\ Len(after) = Len(chain) + 1
      BY <2>1, AppendIs
    <3>3. DOMAIN chain = 1 .. Len(chain) /\ DOMAIN after = 1 .. Len(chain) + 1
      BY <2>1, AppendIs
    <3>4. after[Len(chain) + 1] = named
      BY <2>1, AppendIs
    <3>5. \A k \in 1 .. Len(chain) : after[k] = chain[k]
      BY <2>1, AppendIs
    <3>6. Last(after) = named
      BY <3>4, <3>2 DEF Last
    <3>7. QED
      BY <3>1, <3>3, <3>4, <3>5, <3>2, <3>6
  <2>3. \A k \in 2 .. l : chain[k].name = chain[k - 1].name
    BY DEF OneName
  <2>4. (chain # <<>> => l > 0 /\ was = chain[l].name) /\ (chain = <<>> => l = 0)
    BY <1>3, <1>4
  <2> DEFINE m == Len(after)
  <2>5. m = l + 1
    BY <2>2
  <2> HIDE DEF l, m
  <2>6. ASSUME NEW k \in 2 .. m PROVE after[k].name = after[k - 1].name
    <3>1. CASE k \in 2 .. l
      <4>1. k \in 1 .. l /\ k - 1 \in 1 .. l
        BY <2>2, <3>1
      <4>2. QED
        BY <2>2, <2>3, <3>1, <4>1
    <3>2. CASE k = l + 1
      <4>1. l \in 1 .. l /\ k - 1 = l /\ chain # <<>>
        BY <2>2, <2>4, <3>2
      <4>2. QED
        BY <1>1, <2>2, <2>4, <3>2, <4>1
    <3>3. QED
      BY <2>2, <2>5, <3>1, <3>2
  <2>7. OneName(after)
    BY <2>6 DEF OneName, m
  <2>8. ASSUME NEW k \in DOMAIN after, after[k].name # ""
        PROVE  Bears(chain) \/ (chain = <<>> /\ n # "")
    <3>1. CASE k \in 1 .. l
      BY <2>2, <2>8, <3>1 DEF Bears
    <3>2. CASE k = l + 1 /\ chain # <<>>
      <4>1. l \in 1 .. l
        BY <2>2, <2>4, <3>2
      <4>2. after[k] = named /\ named.name = was /\ was = chain[l].name
        BY <1>1, <2>2, <2>4, <3>2
      <4>3. chain[l].name # ""
        BY <2>8, <4>2
      <4>4. QED
        BY <2>2, <4>1, <4>3 DEF Bears
    <3>3. CASE k = l + 1 /\ chain = <<>>
      BY <1>1, <2>2, <2>8, <3>3
    <3>4. k \in 1 .. l \/ k = l + 1
      BY <2>2
    <3>5. QED
      BY <3>1, <3>2, <3>3, <3>4
  <2>9. QED
    BY <1>1, <2>2, <2>7, <2>8 DEF Bears
<1>7. QED
  BY <1>5, <1>6

\* What a chain is before a refresh, and after.
ChainFits(i) == IsChain(snapshots[i]) /\ OneName(snapshots[i])

ChainsInv ==
    /\ \A i \in IncidentIds : ChainFits(i)
    /\ \A i \in IncidentIds : i \notin Known => snapshots[i] = <<>>
    /\ \A i, j \in IncidentIds : Bears(snapshots[i]) /\ Bears(snapshots[j]) => i = j
    /\ SnapshotCurrent

\* What a refresh or a seeding records under a name.
StateIs(state, outcome, i, readings, known, at, n) ==
    state = Under(Described(outcome.rows[i], outcome.members[i], readings, known, at), n)

\* A refresh records under no name, a seeding names one.
RecordedFrom(outcome, states) ==
    \/ states = outcome.states
    \/ \E p \in Packages : states = Named(outcome.states, p.name)

\* What is recorded, under which names.
NamesFit(outcome, states, readings, known, at, name) ==
    /\ \A i \in DOMAIN outcome.states :
          StateIs(states[i], outcome, i, readings, known, at, name[i])
    /\ states = outcome.states => \A i \in DOMAIN outcome.states : name[i] = ""
    /\ \A i, j \in DOMAIN outcome.states : name[i] # "" /\ name[j] # "" => i = j

\* Only the incident a seeding picks gets a name, and a refresh gives none.
LEMMA StatesAre ==
    ASSUME NEW readings, NEW known, NEW at, NEW outcome \in Outcomes(readings, known, at),
           NEW states, RecordedFrom(outcome, states)
    PROVE  \E name : NamesFit(outcome, states, readings, known, at, name)
<1> DEFINE D == DOMAIN outcome.states
           d(i) == Described(outcome.rows[i], outcome.members[i], readings, known, at)
<1>1. \A i \in D : outcome.states[i] = d(i)
  BY OutcomeIs
<1>2. \A i \in D : [d(i) EXCEPT !.name = ""] = d(i)
  <2> SUFFICES ASSUME NEW i \in D PROVE Says(d(i), d(i))
    BY DEF Says
  <2>1. PICK row, ids, e : /\ row = outcome.rows[i] /\ ids = outcome.members[i]
                           /\ e = Described(row, ids, readings, known, at)
    OBVIOUS
  <2>2. e = Described(row, ids, readings, known, at) /\ e = d(i)
    BY <2>1
  <2> HIDE DEF d, D
  <2>3. Says(e, e)
    BY <2>2, DescribedIs
  <2>4. QED
    BY <2>2, <2>3
<1>3. CASE states = outcome.states
  <2> DEFINE name == [i \in D |-> ""]
  <2>1. \A i \in D : name[i] = ""
    OBVIOUS
  <2>2. \A i \in D : StateIs(states[i], outcome, i, readings, known, at, name[i])
    BY <1>1, <1>2, <1>3, <2>1 DEF StateIs, Under
  <2> HIDE DEF name
  <2>3. NamesFit(outcome, states, readings, known, at, name)
    BY <2>1, <2>2 DEF NamesFit
  <2>4. QED
    BY <2>3
<1>4. CASE states # outcome.states /\ \E p \in Packages : states = Named(outcome.states, p.name)
  <2>1. PICK p \in Packages : states = Named(outcome.states, p.name)
    BY <1>4
  <2>2. PICK picked : states = [outcome.states EXCEPT ![picked].name = p.name]
    BY <2>1 DEF Named
  <2> DEFINE name == [i \in D |-> IF i = picked THEN p.name ELSE ""]
  <2>4. ASSUME NEW i \in D PROVE states[i] = [d(i) EXCEPT !.name = name[i]]
    <3>1. CASE i = picked
      <4>1. states[i] = [outcome.states[i] EXCEPT !.name = p.name]
        BY <2>2, <3>1
      <4>2. QED
        BY <1>1, <3>1, <4>1
    <3>2. CASE i # picked
      <4>1. states[i] = outcome.states[i]
        BY <2>2, <3>2
      <4>2. QED
        BY <1>1, <1>2, <3>2, <4>1
    <3>3. QED
      BY <3>1, <3>2
  <2>5. \A i \in D : StateIs(states[i], outcome, i, readings, known, at, name[i])
    BY <2>4 DEF StateIs, Under
  <2>6. \A i, j \in D : name[i] # "" /\ name[j] # "" => i = j
    OBVIOUS
  <2> HIDE DEF name
  <2>7. NamesFit(outcome, states, readings, known, at, name)
    BY <1>4, <2>5, <2>6 DEF NamesFit
  <2>8. QED
    BY <2>7
<1>5. QED
  BY <1>3, <1>4 DEF RecordedFrom

\* What a refresh or a seeding leaves of the chains.
LEMMA AdoptedChains ==
    ASSUME IncidentsInv, ChainsInv, NEW readings, NEW known, NEW at, NEW outcome, NEW states,
           StepFrom(readings, known, states, at, outcome)
    PROVE  ChainsInv'
<1> DEFINE D == DOMAIN outcome.states
           d(i) == Described(outcome.rows[i], outcome.members[i], readings, known, at)
<1>0. /\ at \in 0 .. MaxTime /\ outcome \in Outcomes(readings, known, at)
      /\ HistoryFits(readings) /\ DOMAIN states = D
      /\ Adopt(outcome, states) /\ stored' = readings /\ last' = at /\ assets' = known
      /\ \/ states = outcome.states
         \/ /\ ProtectedTablesEmpty
            /\ \E p \in Packages : states = Named(outcome.states, p.name)
  BY DEF StepFrom
<1>1. /\ \A i \in Known : incident'[i].status # "none"
      /\ Active' = D
      /\ \A i \in D : /\ incident'[i].x = outcome.rows[i].x
                      /\ incident'[i].first = outcome.rows[i].first
                      /\ incident'[i].last = outcome.rows[i].last
  BY <1>0, AdoptedFits DEF IncidentsInv
<1>2. /\ members' = outcome.members
      /\ snapshots' = [i \in IncidentIds |->
                         IF i \in D THEN Extended(snapshots[i], states[i]) ELSE snapshots[i]]
  BY <1>0 DEF Adopt
<1>3. D \subseteq IncidentIds /\ Active' \subseteq Known'
  BY <1>1 DEF Active, Known
<1>4. PICK name : /\ \A i \in D : states[i] = Under(d(i), name[i])
                  /\ states = outcome.states => \A i \in D : name[i] = ""
                  /\ \A i, j \in D : name[i] # "" /\ name[j] # "" => i = j
  <2>1. RecordedFrom(outcome, states)
    BY <1>0 DEF RecordedFrom
  <2>2. PICK name : NamesFit(outcome, states, readings, known, at, name)
    BY <1>0, <2>1, StatesAre
  <2>3. QED
    BY <2>2 DEF NamesFit, StateIs
<1>5. /\ \A i \in IncidentIds : ChainFits(i)
      /\ \A i \in IncidentIds : i \notin Known => snapshots[i] = <<>>
      /\ \A i, j \in IncidentIds : Bears(snapshots[i]) /\ Bears(snapshots[j]) => i = j
  BY DEF ChainsInv
<1>6. ASSUME NEW i \in D
      PROVE  /\ ChainFits(i)' /\ Says(d(i), Last(snapshots'[i]))
             /\ Bears(snapshots'[i]) =>
                   Bears(snapshots[i]) \/ (snapshots[i] = <<>> /\ name[i] # "")
  <2>1. PICK chain, row, ids, state, n :
           /\ chain = snapshots[i] /\ row = outcome.rows[i] /\ ids = outcome.members[i]
           /\ state = states[i] /\ n = name[i]
    OBVIOUS
  <2>2. PICK e, after : /\ e = Described(row, ids, readings, known, at)
                        /\ after = Extended(chain, state)
    OBVIOUS
  <2>3. state = Under(e, n)
    BY <1>4, <2>1, <2>2
  <2>4. IsChain(chain) /\ OneName(chain)
    BY <1>3, <1>5, <2>1 DEF ChainFits
  <2>5. /\ IsChain(after) /\ OneName(after) /\ Says(e, Last(after))
        /\ Bears(after) => Bears(chain) \/ (chain = <<>> /\ n # "")
    <3> HIDE DEF D, d
    <3>1. IsRow(e) /\ Says(e, e)
      BY <2>2, DescribedIs
    <3>2. after = Extended(chain, state)
      BY <2>2
    <3>3. IsChain(after) /\ OneName(after)
      BY <2>3, <2>4, <3>1, <3>2, ExtendedIs
    <3>4. Says(e, Last(after))
      BY <2>3, <2>4, <3>1, <3>2, ExtendedIs
    <3>5. Bears(after) => Bears(chain) \/ (chain = <<>> /\ n # "")
      BY <2>3, <2>4, <3>1, <3>2, ExtendedIs
    <3>6. QED
      BY <3>3, <3>4, <3>5
  <2>6. snapshots'[i] = after
    BY <1>2, <1>3, <2>1, <2>2
  <2>7. QED
    BY <2>1, <2>2, <2>5, <2>6 DEF ChainFits
<1>7. ASSUME NEW i \in IncidentIds, i \notin D PROVE snapshots'[i] = snapshots[i]
  BY <1>2, <1>7
<1>8. \A i \in IncidentIds : ChainFits(i)'
  BY <1>5, <1>6, <1>7 DEF ChainFits
<1>9. \A i \in IncidentIds : i \notin Known' => snapshots'[i] = <<>>
  <2> SUFFICES ASSUME NEW i \in IncidentIds, i \notin Known' PROVE snapshots'[i] = <<>>
    OBVIOUS
  <2>1. i \notin D
    BY <1>1, <1>3
  <2>2. i \notin Known
    BY <1>1 DEF Known
  <2>3. QED
    BY <1>5, <1>7, <2>1, <2>2
<1>10. \A i, j \in IncidentIds : Bears(snapshots'[i]) /\ Bears(snapshots'[j]) => i = j
  <2>1. CASE states = outcome.states
    <3>1. \A i \in IncidentIds : Bears(snapshots'[i]) => Bears(snapshots[i])
      BY <1>4, <1>6, <1>7, <2>1
    <3>2. QED
      BY <1>5, <3>1
  <2>2. CASE states # outcome.states
    <3>1. Known = {}
      BY <1>0, <2>2 DEF ProtectedTablesEmpty
    <3>2. \A i \in IncidentIds : snapshots[i] = <<>> /\ ~Bears(snapshots[i])
      <4>1. ~Bears(<<>>)
        BY DEF Bears
      <4>2. QED
        BY <1>5, <3>1, <4>1
    <3>3. \A i \in IncidentIds : Bears(snapshots'[i]) => i \in D /\ name[i] # ""
      BY <1>6, <1>7, <3>2
    <3>4. QED
      BY <1>4, <3>3
  <2>3. QED
    BY <2>1, <2>2
<1>11. SnapshotCurrent'
  <2>1. ASSUME NEW i \in Active'
        PROVE  Says(Described(incident'[i], members'[i], stored', assets', last'),
                    Last(snapshots'[i]))
    <3>1. i \in D
      BY <1>1, <2>1
    <3>2. PICK row, after : row = outcome.rows[i] /\ after = incident'[i]
      OBVIOUS
    <3>3. after.x = row.x /\ after.first = row.first /\ after.last = row.last
      BY <1>1, <3>1, <3>2
    <3>4. \A ids : Described(after, ids, readings, known, at)
                      = Described(row, ids, readings, known, at)
      BY <3>3 DEF Described
    <3>5. Described(incident'[i], members'[i], stored', assets', last') = d(i)
      BY <1>0, <1>2, <3>2, <3>4
    <3>6. QED
      BY <1>6, <3>1, <3>5
  <2>2. \A i \in Active' : Listed'[i] = Last(snapshots'[i])
    BY DEF Listed
  <2>3. QED
    BY <2>1, <2>2 DEF SnapshotCurrent, Says
<1>12. QED
  BY <1>8, <1>9, <1>10, <1>11 DEF ChainsInv

\* No chain at first.
LEMMA ChainsInitially == IncidentsInit => ChainsInv
<1> SUFFICES ASSUME IncidentsInit PROVE ChainsInv
  OBVIOUS
<1>1. \A i \in IncidentIds : snapshots[i] = <<>>
  BY DEF IncidentsInit
<1>2. IsChain(<<>>) /\ OneName(<<>>) /\ ~Bears(<<>>)
  BY DEF IsChain, OneName, Bears
<1>3. Active = {}
  BY DEF IncidentsInit, Active, None
<1>4. QED
  BY <1>1, <1>2, <1>3 DEF ChainsInv, ChainFits, SnapshotCurrent

\* Each step leaves the chains sound.
LEMMA ChainsStep ==
    ASSUME IncidentsInv, ChainsInv, [IncidentsNext]_incidentVars
    PROVE  ChainsInv'
<1>1. CASE IncidentsNext
  <2>1. PICK readings, known, states, at, outcome :
           StepFrom(readings, known, states, at, outcome)
    BY <1>1, StepIsRefresh
  <2>2. QED
    BY <2>1, AdoptedChains DEF StepFrom
<1>2. CASE UNCHANGED incidentVars
  BY <1>2 DEF incidentVars, ChainsInv, ChainFits, SnapshotCurrent, Active, Known, Listed
<1>3. QED
  BY <1>1, <1>2

\* What the API lists of an active incident is what a refresh over the stored readings and
\* assets would say (_reuse_or_create_snapshot, list_incidents), whichever was reused.
THEOREM SnapshotsStayCurrent == IncidentsSpec => []SnapshotCurrent
<1>1. IncidentsInv /\ ChainsInv => SnapshotCurrent
  BY DEF ChainsInv
<1>2. QED
  BY <1>1, IncidentsInitially, IncidentsStep, ChainsInitially, ChainsStep, PTL DEF IncidentsSpec

\* Only a seeding of an empty database names an incident.
LEMMA NamesFollow ==
    ASSUME ChainsInv
    PROVE  NameKept
<1>1. \A i \in IncidentIds : \A k \in 2 .. Len(snapshots[i]) :
         snapshots[i][k].name = snapshots[i][k - 1].name
  BY DEF ChainsInv, ChainFits, OneName
<1> DEFINE B == {i \in IncidentIds : \E k \in DOMAIN snapshots[i] : snapshots[i][k].name # ""}
<1>2. \A i, j \in B : i = j
  BY DEF ChainsInv, Bears
<1> HIDE DEF B
<1>3. Cardinality(B) <= 1
  <2>1. CASE B = {}
    BY <2>1, FS_EmptySet, SMT
  <2>2. CASE B # {}
    <3>1. PICK i : B = {i}
      BY <1>2, <2>2
    <3>2. Cardinality({i}) = 1
      BY FS_Singleton
    <3>3. QED
      BY <3>1, <3>2
  <2>3. QED
    BY <2>1, <2>2
<1>4. QED
  BY <1>1, <1>3 DEF NameKept, B

\* One incident at most bears the name its package was seeded under, and keeps it in every
\* snapshot (seed_replay_package, _reuse_or_create_snapshot).
THEOREM NamesAreKept == IncidentsSpec => []NameKept
<1>1. IncidentsInv /\ ChainsInv => NameKept
  BY NamesFollow
<1>2. QED
  BY <1>1, IncidentsInitially, IncidentsStep, ChainsInitially, ChainsStep, PTL DEF IncidentsSpec

-----------------------------------------------------------------------------
(* Folds over finite sets.  An induction is a least set that fails.        *)

\* A nonempty set of naturals has a least.
LEMMA LeastOf ==
    ASSUME NEW N, N \subseteq Nat, N # {}
    PROVE  \E n \in N : \A m \in N : n <= m
<1> DEFINE R == OpToRel(<, Nat)
<1>1. IsWellFoundedOn(R, Nat)
  BY NatLessThanWellFounded
<1>2. PICK n \in N : \A m \in N : ~(<<m, n>> \in R)
  <2> HIDE DEF R
  <2>1. QED
    BY <1>1, WFMin
<1>3. \A m \in N : ~(m < n)
  BY <1>2 DEF OpToRel
<1>4. QED
  BY <1>3

\* What holds of a finite set when it holds of all its smaller subsets holds of it.
\* Bad is the set of those it does not hold of.
LEMMA SmallestOf ==
    ASSUME NEW Bad, Bad # {}, \A s \in Bad : IsFiniteSet(s)
    PROVE  \E s \in Bad : \A x \in s : s \ {x} \notin Bad
<1> DEFINE N == {Cardinality(s) : s \in Bad}
<1>1. N \subseteq Nat /\ N # {}
  BY FS_CardinalityType
<1> HIDE DEF N
<1>2. PICK n \in N : \A m \in N : n <= m
  BY <1>1, LeastOf
<1>3. PICK s \in Bad : n = Cardinality(s)
  BY <1>2 DEF N
<1>4. ASSUME NEW x \in s, s \ {x} \in Bad PROVE FALSE
  <2>1. IsFiniteSet(s) /\ Cardinality(s) \in Nat
    BY FS_CardinalityType
  <2>2. Cardinality(s \ {x}) = Cardinality(s) - 1
    BY <2>1, FS_RemoveElement
  <2>3. Cardinality(s \ {x}) \in N
    BY <1>4 DEF N
  <2> DEFINE c == Cardinality(s)
             d == Cardinality(s \ {x})
  <2>4. c \in Nat /\ d = c - 1 /\ c <= d
    BY <1>2, <1>3, <2>1, <2>2, <2>3
  <2> HIDE DEF c, d
  <2>5. QED
    BY <2>4
<1>5. QED
  BY <1>4

\* pick names an element of each nonempty subset of S.
Picks(pick, S) == \A s \in SUBSET S : s # {} => pick[s] \in s

\* f folds step over each subset of S, as MapThenFoldSet does.
IsFold(step, base, pick, f, S) ==
    f = [s \in SUBSET S |-> IF s = {} THEN base
                            ELSE step[<<pick[s], f[s \ {pick[s]}]>>]]

FoldOf(step, base, pick, S) == (CHOOSE f : IsFold(step, base, pick, f, S))[S]

\* Two folds agree where both are defined.
LEMMA FoldsAgree ==
    ASSUME NEW step, NEW base, NEW pick, NEW A, NEW B, NEW f, NEW g,
           IsFold(step, base, pick, f, A), IsFold(step, base, pick, g, B),
           NEW t, t \subseteq A, t \subseteq B, IsFiniteSet(t), Picks(pick, t)
    PROVE  f[t] = g[t]
<1> DEFINE Bad == {s \in SUBSET t : f[s] # g[s]}
<1> SUFFICES ASSUME Bad # {} PROVE FALSE
  OBVIOUS
<1>1. \A s \in Bad : IsFiniteSet(s)
  BY FS_Subset
<1>2. PICK s \in Bad : \A x \in s : s \ {x} \notin Bad
  <2> HIDE DEF Bad
  <2>1. QED
    BY <1>1, SmallestOf
<1>3. /\ f[s] = IF s = {} THEN base ELSE step[<<pick[s], f[s \ {pick[s]}]>>]
      /\ g[s] = IF s = {} THEN base ELSE step[<<pick[s], g[s \ {pick[s]}]>>]
  BY DEF IsFold
<1>4. s # {}
  BY <1>3
<1>5. pick[s] \in s
  BY <1>4 DEF Picks
<1>6. f[s \ {pick[s]}] = g[s \ {pick[s]}]
  BY <1>2, <1>5
<1>7. QED
  BY <1>3, <1>6

\* A fold of a set folds its subsets.
LEMMA FoldBelow ==
    ASSUME NEW step, NEW base, NEW pick, NEW A, NEW f, IsFold(step, base, pick, f, A),
           NEW B, B \subseteq A
    PROVE  IsFold(step, base, pick, [s \in SUBSET B |-> f[s]], B)
<1> DEFINE g == [s \in SUBSET B |-> f[s]]
<1>1. ASSUME NEW s \in SUBSET B
      PROVE g[s] = IF s = {} THEN base ELSE step[<<pick[s], g[s \ {pick[s]}]>>]
  <2>1. f[s] = IF s = {} THEN base ELSE step[<<pick[s], f[s \ {pick[s]}]>>]
    BY DEF IsFold
  <2>2. QED
    BY <2>1
<1>2. QED
  BY <1>1 DEF IsFold

\* Every finite set has one.
LEMMA FoldExists ==
    ASSUME NEW step, NEW base, NEW pick, NEW S, IsFiniteSet(S), Picks(pick, S)
    PROVE  IsFold(step, base, pick, CHOOSE f : IsFold(step, base, pick, f, S), S)
<1> DEFINE Bad == {s \in SUBSET S : ~\E f : IsFold(step, base, pick, f, s)}
           fold(s) == CHOOSE f : IsFold(step, base, pick, f, s)
<1>1. Bad = {}
  <2> SUFFICES ASSUME Bad # {} PROVE FALSE
    OBVIOUS
  <2>1. \A s \in Bad : IsFiniteSet(s)
    BY FS_Subset
  <2>2. PICK t \in Bad : \A x \in t : t \ {x} \notin Bad
    <3> HIDE DEF Bad
    <3>1. QED
      BY <2>1, SmallestOf
  <2>3. \A x \in t : \E f : IsFold(step, base, pick, f, t \ {x})
    BY <2>2
  <2> DEFINE smaller == {s \in SUBSET t : s # t}
             value(s) == IF s = {} THEN base
                         ELSE step[<<pick[s], fold(s \ {pick[s]})[s \ {pick[s]}]>>]
             h == [s \in SUBSET t |-> value(s)]
  <2>4. \A s \in smaller : IsFold(step, base, pick, fold(s), s)
    <3> SUFFICES ASSUME NEW s \in smaller PROVE \E f : IsFold(step, base, pick, f, s)
      OBVIOUS
    <3>1. PICK x \in t : s \subseteq t \ {x}
      OBVIOUS
    <3>2. PICK f : IsFold(step, base, pick, f, t \ {x})
      BY <2>3
    <3>3. IsFold(step, base, pick, [r \in SUBSET s |-> f[r]], s)
      BY <3>1, <3>2, FoldBelow
    <3>4. QED
      BY <3>3
  <2> HIDE DEF fold
  <2>5. \A s \in SUBSET t : s # {} => pick[s] \in s
    BY DEF Picks
  <2>6. \A s \in smaller : h[s] = fold(s)[s]
    <3> SUFFICES ASSUME NEW s \in smaller PROVE value(s) = fold(s)[s]
      OBVIOUS
    <3>1. fold(s)[s] = IF s = {} THEN base
                       ELSE step[<<pick[s], fold(s)[s \ {pick[s]}]>>]
      BY <2>4 DEF IsFold
    <3>2. CASE s = {}
      BY <3>1, <3>2
    <3>3. CASE s # {}
      <4>1. PICK r : r = s \ {pick[s]}
        OBVIOUS
      <4>2. r \in smaller /\ IsFiniteSet(r) /\ r \subseteq s
        BY <2>1, <4>1, FS_Subset
      <4>3. PICK f, g : f = fold(s) /\ g = fold(r)
        OBVIOUS
      <4>4. IsFold(step, base, pick, f, s) /\ IsFold(step, base, pick, g, r) /\ Picks(pick, r)
        BY <2>4, <2>5, <4>2, <4>3 DEF Picks
      <4>5. f[r] = g[r]
        BY <4>2, <4>4, FoldsAgree
      <4>6. QED
        BY <3>1, <3>3, <4>1, <4>3, <4>5
    <3>4. QED
      BY <3>2, <3>3
  <2>7. ASSUME NEW s \in SUBSET t, s # {}
        PROVE  s \ {pick[s]} \in smaller
    BY <2>5, <2>7
  <2>8. ASSUME NEW s \in SUBSET t
        PROVE  h[s] = IF s = {} THEN base ELSE step[<<pick[s], h[s \ {pick[s]}]>>]
    BY <2>6, <2>7
  <2>9. IsFold(step, base, pick, h, t)
    BY <2>8 DEF IsFold
  <2>10. QED
    BY <2>9
<1>2. \E f : IsFold(step, base, pick, f, S)
  BY <1>1
<1>3. QED
  BY <1>2

\* A set that has both values of a fold's kind as its steps' results.
Closed(step, base, S, T) == base \in T /\ \A x \in S, y \in T : step[<<x, y>>] \in T

\* f takes the steps wherever what it has so far is of the kind T.
Steps(step, base, pick, f, S, T) ==
    \A s \in SUBSET S : (\A x \in s : f[s \ {x}] \in T) =>
        f[s] = IF s = {} THEN base ELSE step[<<pick[s], f[s \ {pick[s]}]>>]

\* What every step keeps, a fold is.
LEMMA FoldType ==
    ASSUME NEW step, NEW base, NEW pick, NEW S, IsFiniteSet(S), Picks(pick, S),
           NEW T, Closed(step, base, S, T),
           NEW f, Steps(step, base, pick, f, S, T)
    PROVE  \A s \in SUBSET S : f[s] \in T
<1> DEFINE Bad == {s \in SUBSET S : f[s] \notin T}
<1> SUFFICES ASSUME Bad # {} PROVE FALSE
  OBVIOUS
<1>1. \A s \in Bad : IsFiniteSet(s)
  BY FS_Subset
<1>2. PICK s \in Bad : \A x \in s : s \ {x} \notin Bad
  <2> HIDE DEF Bad
  <2>1. QED
    BY <1>1, SmallestOf
<1>3. \A x \in s : f[s \ {x}] \in T
  BY <1>2
<1>4. f[s] = IF s = {} THEN base ELSE step[<<pick[s], f[s \ {pick[s]}]>>]
  BY <1>3 DEF Steps
<1>5. s # {} => pick[s] \in s
  BY DEF Picks
<1>6. QED
  BY <1>3, <1>4, <1>5 DEF Closed

\* A finite set in a total, transitive order has a first element.
LEMMA FirstElement ==
    ASSUME NEW S, IsFiniteSet(S), S # {}, NEW R,
           \A x, y \in S : x # y => <<x, y>> \in R \/ <<y, x>> \in R,
           \A x, y, z \in S : <<x, y>> \in R /\ <<y, z>> \in R => <<x, z>> \in R
    PROVE  \E x \in S : \A y \in S : y = x \/ <<x, y>> \in R
<1> DEFINE Bad == {s \in SUBSET S : s # {} /\ ~\E x \in s : \A y \in s : y = x \/ <<x, y>> \in R}
<1> SUFFICES ASSUME Bad # {} PROVE FALSE
  OBVIOUS
<1>1. PICK s \in Bad : \A x \in s : s \ {x} \notin Bad
  <2>1. \A s \in Bad : IsFiniteSet(s)
    BY FS_Subset
  <2> HIDE DEF Bad
  <2>2. QED
    BY <2>1, SmallestOf
<1>2. PICK x : x \in s
  OBVIOUS
<1>3. CASE s = {x}
  BY <1>3
<1>4. CASE s # {x}
  <2>1. s \ {x} # {}
    BY <1>2, <1>4
  <2>2. PICK m \in s \ {x} : \A y \in s \ {x} : y = m \/ <<m, y>> \in R
    BY <1>1, <1>2, <2>1
  <2>3. m \in S /\ x \in S /\ m # x /\ m \in s
    BY <1>2
  <2>4. CASE <<m, x>> \in R
    <3>1. \A y \in s : y = m \/ <<m, y>> \in R
      BY <2>2, <2>4
    <3>2. QED
      BY <2>3, <3>1
  <2>5. CASE <<x, m>> \in R
    <3>1. \A y \in s : y = x \/ <<x, y>> \in R
      BY <2>2, <2>3, <2>5
    <3>2. QED
      BY <1>2, <3>1
  <2>6. QED
    BY <2>3, <2>4, <2>5
<1>5. QED
  BY <1>3, <1>4

\* What a finite set maps onto is finite.
LEMMA ImageFinite ==
    ASSUME NEW S, IsFiniteSet(S), NEW T, NEW f, \A t \in T : \E s \in S : f[s] = t
    PROVE  IsFiniteSet(T)
<1> DEFINE D == {s \in S : f[s] \in T}
           g == [s \in D |-> f[s]]
<1>1. IsFiniteSet(D)
  BY FS_Subset
<1>2. g \in Surjection(D, T)
  <2>1. g \in [D -> T]
    OBVIOUS
  <2>2. \A t \in T : \E s \in D : g[s] = t
    OBVIOUS
  <2> HIDE DEF g, D
  <2>3. QED
    BY <2>1, <2>2 DEF Surjection
<1> HIDE DEF g, D
<1>3. QED
  BY <1>1, <1>2, FS_Surjection

\* Some integers have a greatest and a least.
LEMMA ExtremesOf ==
    ASSUME NEW S, IsFiniteSet(S), S # {}, S \subseteq Int
    PROVE  /\ Max(S) \in S /\ \A y \in S : Max(S) >= y
           /\ Min(S) \in S /\ \A y \in S : Min(S) <= y
<1>1. \E x \in S : \A y \in S : x >= y
  <2> DEFINE R == {y \in S \X S : y[1] > y[2]}
  <2>1. \A x, y \in S : <<x, y>> \in R <=> x > y
    OBVIOUS
  <2> HIDE DEF R
  <2>2. \A x, y \in S : x # y => <<x, y>> \in R \/ <<y, x>> \in R
    BY <2>1
  <2>3. \A x, y, z \in S : <<x, y>> \in R /\ <<y, z>> \in R => <<x, z>> \in R
    BY <2>1
  <2>4. PICK x \in S : \A y \in S : y = x \/ <<x, y>> \in R
    BY <2>2, <2>3, FirstElement
  <2>5. \A y \in S : y = x \/ x > y
    BY <2>1, <2>4
  <2>6. \A y \in S : x >= y
    BY <2>5
  <2>7. QED
    BY <2>6
<1>2. \E x \in S : \A y \in S : x <= y
  <2> DEFINE R == {y \in S \X S : y[1] < y[2]}
  <2>1. \A x, y \in S : <<x, y>> \in R <=> x < y
    OBVIOUS
  <2> HIDE DEF R
  <2>2. \A x, y \in S : x # y => <<x, y>> \in R \/ <<y, x>> \in R
    BY <2>1
  <2>3. \A x, y, z \in S : <<x, y>> \in R /\ <<y, z>> \in R => <<x, z>> \in R
    BY <2>1
  <2>4. PICK x \in S : \A y \in S : y = x \/ <<x, y>> \in R
    BY <2>2, <2>3, FirstElement
  <2>5. \A y \in S : y = x \/ x < y
    BY <2>1, <2>4
  <2>6. \A y \in S : x <= y
    BY <2>5
  <2>7. QED
    BY <2>6
<1>3. QED
  BY <1>1, <1>2 DEF Max, Min

-----------------------------------------------------------------------------
(* Sums of integers.                                                       *)

\* f adds up w over each subset of S, as MapThenSumSet does.
AddsUp(w, f, S) ==
    f = [s \in SUBSET S |-> IF s = {} THEN 0
                            ELSE w[CHOOSE x \in s : TRUE] + f[s \ {CHOOSE x \in s : TRUE}]]

Weighs(w, S) == IsFiniteSet(S) /\ \A x \in S : w[x] \in Int

\* Such a function there is.
LEMMA SumExists ==
    ASSUME NEW w, NEW S, Weighs(w, S)
    PROVE  \E f : AddsUp(w, f, S)
<1> DEFINE pick == [s \in SUBSET S |-> CHOOSE x \in s : TRUE]
           step == [z \in S \X Int |-> w[z[1]] + z[2]]
<1>1. Picks(pick, S) /\ \A s \in SUBSET S : pick[s] = CHOOSE x \in s : TRUE
  BY DEF Picks
<1>2. \A x \in S, y \in Int : step[<<x, y>>] = w[x] + y
  OBVIOUS
<1>3. IsFiniteSet(S) /\ Closed(step, 0, S, Int)
  BY <1>2 DEF Closed, Weighs
<1> HIDE DEF pick, step
<1>4. PICK f : IsFold(step, 0, pick, f, S)
  BY <1>1, <1>3, FoldExists
<1>5. Steps(step, 0, pick, f, S, Int)
  BY <1>4 DEF IsFold, Steps
<1>6. \A s \in SUBSET S : f[s] \in Int
  BY <1>1, <1>3, <1>5, FoldType
<1>7. ASSUME NEW s \in SUBSET S
      PROVE  f[s] = IF s = {} THEN 0
                    ELSE w[CHOOSE x \in s : TRUE] + f[s \ {CHOOSE x \in s : TRUE}]
  <2>1. s # {} => pick[s] \in s
    BY <1>1 DEF Picks
  <2>2. f[s] = IF s = {} THEN 0 ELSE step[<<pick[s], f[s \ {pick[s]}]>>]
    BY <1>4 DEF IsFold
  <2>3. s # {} => step[<<pick[s], f[s \ {pick[s]}]>>] = w[pick[s]] + f[s \ {pick[s]}]
    BY <1>2, <1>6, <2>1
  <2>4. pick[s] = CHOOSE x \in s : TRUE
    BY <1>1
  <2>5. QED
    BY <2>2, <2>3, <2>4
<1>8. f = [s \in SUBSET S |-> f[s]]
  BY <1>4 DEF IsFold
<1>9. AddsUp(w, f, S)
  BY <1>7, <1>8 DEF AddsUp
<1>10. QED
  BY <1>9

\* A sum is an integer,
LEMMA SumIs ==
    ASSUME NEW w, NEW S, Weighs(w, S), NEW f, AddsUp(w, f, S)
    PROVE  \A s \in SUBSET S : f[s] \in Int
<1> DEFINE Bad == {s \in SUBSET S : f[s] \notin Int}
<1> SUFFICES ASSUME Bad # {} PROVE FALSE
  OBVIOUS
<1>1. \A s \in Bad : IsFiniteSet(s)
  BY FS_Subset DEF Weighs
<1>2. PICK s \in Bad : \A x \in s : s \ {x} \notin Bad
  <2> HIDE DEF Bad
  <2>1. QED
    BY <1>1, SmallestOf
<1>3. PICK x : x = CHOOSE y \in s : TRUE
  OBVIOUS
<1>4. f[s] = IF s = {} THEN 0 ELSE w[x] + f[s \ {x}]
  BY <1>3 DEF AddsUp
<1>5. CASE s = {}
  BY <1>4, <1>5
<1>6. CASE s # {}
  <2>1. x \in s
    BY <1>3, <1>6
  <2>2. f[s \ {x}] \in Int /\ w[x] \in Int
    BY <1>2, <2>1 DEF Weighs
  <2>3. QED
    BY <1>4, <1>6, <2>2
<1>7. QED
  BY <1>5, <1>6

\* no more than what allows for each of its parts.
LEMMA SumAtMost ==
    ASSUME NEW w, NEW S, Weighs(w, S), NEW f, AddsUp(w, f, S), \A x \in S : w[x] \in Nat,
           NEW most, \A s \in SUBSET S : most[s] \in Nat,
           \A s \in SUBSET S : \A x \in s : w[x] + most[s \ {x}] <= most[s]
    PROVE  \A s \in SUBSET S : f[s] \in Nat /\ f[s] <= most[s]
<1> DEFINE Bad == {s \in SUBSET S : ~(f[s] \in Nat /\ f[s] <= most[s])}
<1> SUFFICES ASSUME Bad # {} PROVE FALSE
  OBVIOUS
<1>1. \A s \in Bad : IsFiniteSet(s)
  BY FS_Subset DEF Weighs
<1>2. PICK s \in Bad : \A x \in s : s \ {x} \notin Bad
  <2> HIDE DEF Bad
  <2>1. QED
    BY <1>1, SmallestOf
<1>3. PICK x : x = CHOOSE y \in s : TRUE
  OBVIOUS
<1>4. f[s] = IF s = {} THEN 0 ELSE w[x] + f[s \ {x}]
  BY <1>3 DEF AddsUp
<1>5. CASE s = {}
  BY <1>4, <1>5
<1>6. CASE s # {}
  <2>1. x \in s
    BY <1>3, <1>6
  <2>2. f[s \ {x}] \in Nat /\ f[s \ {x}] <= most[s \ {x}] /\ w[x] \in Nat
    BY <1>2, <2>1
  <2>3. w[x] + most[s \ {x}] <= most[s] /\ most[s] \in Nat /\ most[s \ {x}] \in Nat
    BY <2>1
  <2>4. QED
    BY <1>4, <1>6, <2>2, <2>3
<1>7. QED
  BY <1>5, <1>6

\* What is summed in a refresh: places,
LEMMA PlacesSum ==
    ASSUME NEW S, IsFiniteSet(S), \A d \in S : d.x \in Int
    PROVE  MapThenSumSet(LAMBDA d : d.x, S) \in Int
<1> DEFINE fits(f) == f = [s \in SUBSET S |-> IF s = {} THEN 0
                             ELSE (CHOOSE x \in s : TRUE).x
                                    + f[s \ {CHOOSE x \in s : TRUE}]]
           w == [d \in S |-> d.x]
           total == MapThenSumSet(LAMBDA d : d.x, S)
<1>1. total = (CHOOSE f : fits(f))[S]
  BY DEF MapThenSumSet, MapThenFoldSet
<1> HIDE DEF total
<1>2. \A x \in S : w[x] = x.x
  OBVIOUS
<1>3. Weighs(w, S)
  BY <1>2 DEF Weighs
<1> HIDE DEF w
<1>4. ASSUME NEW f PROVE fits(f) <=> AddsUp(w, f, S)
  <2>1. \A s \in SUBSET S : s # {} => w[CHOOSE x \in s : TRUE] = (CHOOSE x \in s : TRUE).x
    BY <1>2
  <2>2. QED
    BY <2>1 DEF AddsUp
<1> HIDE DEF fits
<1>5. fits(CHOOSE f : fits(f))
  BY <1>3, <1>4, SumExists
<1>6. PICK g : AddsUp(w, g, S) /\ total = g[S]
  BY <1>1, <1>4, <1>5
<1>7. total \in Int
  BY <1>3, <1>6, SumIs
<1>8. QED
  BY <1>7 DEF total

\* populations,
LEMMA PopulationsSum ==
    ASSUME NEW S, IsFiniteSet(S), \A d \in S : d.population \in Nat
    PROVE  MapThenSumSet(LAMBDA d : d.population, S) \in Int
<1> DEFINE fits(f) == f = [s \in SUBSET S |-> IF s = {} THEN 0
                             ELSE (CHOOSE x \in s : TRUE).population
                                    + f[s \ {CHOOSE x \in s : TRUE}]]
           w == [d \in S |-> d.population]
           total == MapThenSumSet(LAMBDA d : d.population, S)
<1>1. total = (CHOOSE f : fits(f))[S]
  BY DEF MapThenSumSet, MapThenFoldSet
<1> HIDE DEF total
<1>2. \A x \in S : w[x] = x.population
  OBVIOUS
<1>3. Weighs(w, S)
  BY <1>2 DEF Weighs
<1> HIDE DEF w
<1>4. ASSUME NEW f PROVE fits(f) <=> AddsUp(w, f, S)
  <2>1. \A s \in SUBSET S : s # {} => w[CHOOSE x \in s : TRUE] = (CHOOSE x \in s : TRUE).population
    BY <1>2
  <2>2. QED
    BY <2>1 DEF AddsUp
<1> HIDE DEF fits
<1>5. fits(CHOOSE f : fits(f))
  BY <1>3, <1>4, SumExists
<1>6. PICK g : AddsUp(w, g, S) /\ total = g[S]
  BY <1>1, <1>4, <1>5
<1>7. total \in Int
  BY <1>3, <1>6, SumIs
<1>8. QED
  BY <1>7 DEF total

\* and percentages.
LEMMA PercentagesSum ==
    ASSUME NEW S, IsFiniteSet(S), \A d \in S : d.confidence \in 0 .. 100,
           NEW n, n = Cardinality(S)
    PROVE  LET total == MapThenSumSet(LAMBDA d : d.confidence, S)
           IN total \in Nat /\ total <= 100 * n
<1> DEFINE fits(f) == f = [s \in SUBSET S |-> IF s = {} THEN 0
                             ELSE (CHOOSE x \in s : TRUE).confidence
                                    + f[s \ {CHOOSE x \in s : TRUE}]]
           w == [d \in S |-> d.confidence]
           total == MapThenSumSet(LAMBDA d : d.confidence, S)
<1>1. total = (CHOOSE f : fits(f))[S]
  BY DEF MapThenSumSet, MapThenFoldSet
<1> HIDE DEF total
<1>2. \A x \in S : w[x] = x.confidence
  OBVIOUS
<1>3. Weighs(w, S)
  BY <1>2 DEF Weighs
<1> HIDE DEF w
<1>4. ASSUME NEW f PROVE fits(f) <=> AddsUp(w, f, S)
  <2>1. \A s \in SUBSET S : s # {} => w[CHOOSE x \in s : TRUE] = (CHOOSE x \in s : TRUE).confidence
    BY <1>2
  <2>2. QED
    BY <2>1 DEF AddsUp
<1> HIDE DEF fits
<1>5. fits(CHOOSE f : fits(f))
  BY <1>3, <1>4, SumExists
<1>6. PICK g : AddsUp(w, g, S) /\ total = g[S]
  BY <1>1, <1>4, <1>5
<1> DEFINE most == [s \in SUBSET S |-> 100 * Cardinality(s)]
<1>7. \A s \in SUBSET S : Cardinality(s) \in Nat /\ most[s] = 100 * Cardinality(s)
  BY FS_Subset, FS_CardinalityType
<1>8. ASSUME NEW s \in SUBSET S PROVE most[s] \in Nat
  <2>1. PICK k : k = Cardinality(s)
    OBVIOUS
  <2>2. k \in Nat /\ most[s] = 100 * k
    BY <1>7, <2>1
  <2>3. QED
    BY <2>2
<1>9. ASSUME NEW s \in SUBSET S, NEW x \in s PROVE w[x] + most[s \ {x}] <= most[s]
  <2>1. PICK k, l : k = Cardinality(s) /\ l = Cardinality(s \ {x})
    OBVIOUS
  <2>2. l = k - 1 /\ k \in Nat
    BY <1>7, <2>1, FS_Subset, FS_RemoveElement
  <2>3. most[s] = 100 * k /\ most[s \ {x}] = 100 * l
    BY <1>7, <2>1
  <2>4. w[x] \in 0 .. 100
    BY <1>2
  <2>5. QED
    BY <2>2, <2>3, <2>4
<1>10. \A x \in S : w[x] \in Nat
  BY <1>2
<1> HIDE DEF most
<1>11. g[S] \in Nat /\ g[S] <= most[S]
  BY <1>3, <1>6, <1>8, <1>9, <1>10, SumAtMost
<1>12. QED
  BY <1>6, <1>7, <1>11 DEF total

\* The weights of the six factors are a whole, so the score is a percentage.
LEMMA ScoreIs ==
    ASSUME NEW factors, \A f \in Factors : factors[f] \in 0 .. 100
    PROVE  Score(factors) \in 0 .. 100
<1> DEFINE fits(g) == g = [s \in SUBSET Factors |-> IF s = {} THEN 0
                             ELSE Weight[CHOOSE x \in s : TRUE] * factors[CHOOSE x \in s : TRUE]
                                    + g[s \ {CHOOSE x \in s : TRUE}]]
           w == [f \in Factors |-> Weight[f] * factors[f]]
           total == MapThenSumSet(LAMBDA f : Weight[f] * factors[f], Factors)
           part(s, f, k) == IF f \in s THEN k ELSE 0
           whole(s) == part(s, "proximity", 30) + part(s, "population", 25)
                          + part(s, "critical_facilities", 20) + part(s, "wind_alignment", 15)
                          + part(s, "detection_confidence", 5) + part(s, "source_freshness", 5)
           most == [s \in SUBSET Factors |-> 100 * whole(s)]
<1>1. total = (CHOOSE f : fits(f))[Factors]
  BY DEF MapThenSumSet, MapThenFoldSet
<1> HIDE DEF total
<1>2. \A x \in Factors : w[x] = Weight[x] * factors[x]
  OBVIOUS
<1>3. ASSUME NEW x \in Factors PROVE w[x] \in Nat /\ w[x] <= 100 * Weight[x] /\ Weight[x] \in Nat
  <2>1. PICK m, n : m = Weight[x] /\ n = factors[x]
    OBVIOUS
  <2>2. m \in {30, 25, 20, 15, 5} /\ n \in 0 .. 100
    BY <2>1 DEF Factors, Weight
  <2>3. m * n \in Nat /\ m * n <= 100 * m
    BY <2>2
  <2>4. QED
    BY <1>2, <2>1, <2>2, <2>3
<1>4. IsFiniteSet(Factors)
  <2>1. PICK A : A = {"proximity"}
    OBVIOUS
  <2>2. PICK B : B = A \cup {"population"}
    OBVIOUS
  <2>3. PICK C : C = B \cup {"critical_facilities"}
    OBVIOUS
  <2>4. PICK D : D = C \cup {"wind_alignment"}
    OBVIOUS
  <2>5. PICK E : E = D \cup {"detection_confidence"}
    OBVIOUS
  <2>6. IsFiniteSet(E)
    <3>1. IsFiniteSet(A)
      BY <2>1, FS_Singleton
    <3>2. IsFiniteSet(B)
      BY <2>2, <3>1, FS_AddElement
    <3>3. IsFiniteSet(C)
      BY <2>3, <3>2, FS_AddElement
    <3>4. IsFiniteSet(D)
      BY <2>4, <3>3, FS_AddElement
    <3>5. QED
      BY <2>5, <3>4, FS_AddElement
  <2>7. Factors = E \cup {"source_freshness"}
    BY <2>1, <2>2, <2>3, <2>4, <2>5 DEF Factors
  <2>8. QED
    BY <2>6, <2>7, FS_AddElement
<1>5. Weighs(w, Factors)
  BY <1>3, <1>4 DEF Weighs
<1> HIDE DEF w
<1>6. ASSUME NEW g PROVE fits(g) <=> AddsUp(w, g, Factors)
  <2>1. \A s \in SUBSET Factors : s # {} =>
           w[CHOOSE x \in s : TRUE] = Weight[CHOOSE x \in s : TRUE] * factors[CHOOSE x \in s : TRUE]
    BY <1>2
  <2>2. QED
    BY <2>1 DEF AddsUp
<1> HIDE DEF fits
<1>7. fits(CHOOSE f : fits(f))
  BY <1>5, <1>6, SumExists
<1>8. PICK g : AddsUp(w, g, Factors) /\ total = g[Factors]
  BY <1>1, <1>6, <1>7
<1>9. \A s \in SUBSET Factors : most[s] \in Nat
  OBVIOUS
<1>10. ASSUME NEW s \in SUBSET Factors, NEW x \in s PROVE w[x] + most[s \ {x}] <= most[s]
  <2>1. whole(s) = Weight[x] + whole(s \ {x})
    <3>1. x \in Factors
      OBVIOUS
    <3>2. QED
      BY <3>1 DEF Factors, Weight
  <2>2. most[s] = 100 * whole(s) /\ most[s \ {x}] = 100 * whole(s \ {x})
    OBVIOUS
  <2>3. whole(s) \in Nat /\ whole(s \ {x}) \in Nat
    OBVIOUS
  <2> HIDE DEF whole, most
  <2>4. QED
    BY <1>3, <2>1, <2>2, <2>3
<1>11. most[Factors] = 10000
  BY DEF Factors
<1> HIDE DEF most
<1>12. g[Factors] \in Nat /\ g[Factors] <= 10000
  <2>1. \A s \in SUBSET Factors : g[s] \in Nat /\ g[s] <= most[s]
    <3>1. \A x \in Factors : w[x] \in Nat
      BY <1>3
    <3>2. AddsUp(w, g, Factors)
      BY <1>8
    <3>3. QED
      BY <1>5, <1>9, <1>10, <3>1, <3>2, SumAtMost
  <2>2. QED
    BY <1>11, <2>1
<1>13. total \div 100 \in 0 .. 100
  BY <1>8, <1>12
<1>14. QED
  BY <1>13 DEF Score, total

\* Of some things with a number each, one has the least.
LEMMA LeastBy ==
    ASSUME NEW S, IsFiniteSet(S), S # {}, NEW f, \A x \in S : f[x] \in Int
    PROVE  \E x \in S : \A y \in S : f[x] <= f[y]
<1> DEFINE T == {f[x] : x \in S}
<1>1. T \subseteq Int /\ T # {}
  OBVIOUS
<1>2. \A t \in T : \E x \in S : f[x] = t
  OBVIOUS
<1> HIDE DEF T
<1>3. IsFiniteSet(T)
  BY <1>2, ImageFinite
<1>4. Min(T) \in T /\ \A t \in T : Min(T) <= t
  BY <1>1, <1>3, ExtremesOf
<1>5. PICK x \in S : f[x] = Min(T)
  BY <1>2, <1>4
<1>6. \A y \in S : f[y] \in T
  BY DEF T
<1>7. QED
  BY <1>4, <1>5, <1>6

-----------------------------------------------------------------------------
(* The weather a snapshot is scored with, and its factors.                 *)

\* A distance on the line is a natural number.
LEMMA GapIs ==
    ASSUME NEW x \in Int, NEW y \in Int
    PROVE  Gap(x, y) \in Nat
  BY DEF Gap

Winds(ws) == IsFiniteSet(ws) /\ ws \subseteq WeatherRows

InReach(w, place, reference) == w.at <= reference /\ Gap(w.x, place) <= SearchRadius

\* The newest in reach is selected; none only if there is none in reach.
IsNewest(w, ws, place, reference) ==
    /\ w \in ws /\ InReach(w, place, reference)
    /\ \A v \in ws : InReach(v, place, reference) => v.at <= w.at

\* The weather selected for a place is the newest row in reach, and none only if none is.
LEMMA SelectedIs ==
    ASSUME NEW ws, Winds(ws), NEW place \in Int, NEW reference \in Int,
           NEW w, w = SelectWeather(ws, place, reference)
    PROVE  \/ w = NoWeather /\ \A v \in ws : ~InReach(v, place, reference)
           \/ IsNewest(w, ws, place, reference)
<1> DEFINE reach == {v \in ws : v.at <= reference /\ Gap(v.x, place) <= SearchRadius}
           newest == {v \in reach : \A u \in reach : u.at <= v.at}
           near == {v \in newest : \A u \in newest : Gap(v.x, place) <= Gap(u.x, place)}
           picked == CHOOSE v \in near : \A u \in near : v.id <= u.id
<1>1. w = IF reach = {} THEN NoWeather ELSE picked
  BY DEF SelectWeather
<1>2. \A v \in ws : v \in reach <=> InReach(v, place, reference)
  BY DEF InReach
<1>3. CASE reach = {}
  BY <1>1, <1>2, <1>3
<1>4. CASE reach # {}
  <2>1. IsFiniteSet(reach) /\ IsFiniteSet(newest) /\ IsFiniteSet(near)
    BY FS_Subset DEF Winds
  <2>2. \A v \in reach : v.at \in Int /\ v.x \in Int /\ v.id \in Int
    BY DEF Winds, WeatherRows
  <2>3. \E v \in reach : \A u \in reach : u.at <= v.at
    <3> HIDE DEF reach
    <3> DEFINE f == [v \in reach |-> 0 - v.at]
    <3>1. \A v \in reach : f[v] = 0 - v.at /\ f[v] \in Int
      BY <2>2
    <3> HIDE DEF f
    <3>2. PICK v \in reach : \A u \in reach : f[v] <= f[u]
      BY <1>4, <2>1, <3>1, LeastBy
    <3>3. \A u \in reach : u.at <= v.at
      BY <2>2, <3>1, <3>2
    <3>4. QED
      BY <3>3
  <2>4. newest # {} /\ newest \subseteq reach
    BY <2>3
  <2> HIDE DEF reach, newest, near
  <2>5. \E v \in newest : \A u \in newest : Gap(v.x, place) <= Gap(u.x, place)
    <3> DEFINE f == [v \in newest |-> Gap(v.x, place)]
    <3>1. ASSUME NEW v \in newest PROVE f[v] = Gap(v.x, place) /\ f[v] \in Int
      <4>1. PICK x : x = v.x
        OBVIOUS
      <4>2. x \in Int
        BY <2>2, <2>4, <4>1
      <4>3. Gap(x, place) \in Int
        BY <4>2, GapIs
      <4>4. QED
        BY <4>1, <4>3
    <3> HIDE DEF f
    <3>2. PICK v \in newest : \A u \in newest : f[v] <= f[u]
      BY <2>1, <2>4, <3>1, LeastBy
    <3>3. QED
      BY <3>1, <3>2
  <2>6. near # {} /\ near \subseteq newest
    BY <2>5 DEF near
  <2>7. \E v \in near : \A u \in near : v.id <= u.id
    <3> DEFINE f == [v \in near |-> v.id]
    <3>1. \A v \in near : f[v] = v.id /\ f[v] \in Int
      BY <2>2, <2>4, <2>6
    <3> HIDE DEF f
    <3>2. PICK v \in near : \A u \in near : f[v] <= f[u]
      BY <2>1, <2>6, <3>1, LeastBy
    <3>3. QED
      BY <3>1, <3>2
  <2>8. picked \in near
    BY <2>7
  <2> HIDE DEF picked
  <2>9. w \in newest /\ w \in reach
    BY <1>1, <1>4, <2>4, <2>6, <2>8
  <2>10. \A u \in reach : u.at <= w.at
    BY <2>9 DEF newest
  <2>11. w \in ws
    BY <2>9 DEF reach
  <2>12. QED
    BY <1>2, <2>9, <2>10, <2>11 DEF IsNewest
<1>5. QED
  BY <1>3, <1>4

\* A percentage is cut to one.
LEMMA ClampIs ==
    ASSUME NEW percent \in Int
    PROVE  Clamp(percent) \in 0 .. 100
<1>1. PICK low : low = Min({100, percent})
  OBVIOUS
<1>2. low \in Int /\ low <= 100
  <2>1. \E x \in {100, percent} : \A y \in {100, percent} : x <= y
    OBVIOUS
  <2>2. low \in {100, percent} /\ low <= 100
    BY <1>1, <2>1 DEF Min
  <2>3. QED
    BY <2>2
<1>3. \E x \in {0, low} : \A y \in {0, low} : x >= y
  BY <1>2
<1>4. Max({0, low}) \in {0, low} /\ Max({0, low}) >= 0
  BY <1>2, <1>3 DEF Max
<1>5. QED
  BY <1>1, <1>2, <1>4 DEF Clamp

\* Sources get older.
LEMMA FreshnessIs ==
    ASSUME NEW age \in Int, NEW limit \in Nat \ {0}
    PROVE  FreshnessFactor(age, limit) \in 0 .. 100
<1>1. PICK x : x = (100 * age) \div limit
  OBVIOUS
<1>2. x \in Int
  BY <1>1
<1>3. 100 - x \in Int
  BY <1>2
<1>4. QED
  BY <1>1, <1>3, ClampIs DEF FreshnessFactor

\* How the wind stands to what is exposed, in the quarters it comes from.
LEMMA AlongIs ==
    ASSUME NEW w, w.from \in {0, 90, 180, 270}, NEW place \in Int, NEW x \in Int,
           NEW along, along = IF x = place THEN 100
                              ELSE Alignment((w.from + 180) % 360, Bearing(place, x))
    PROVE  along \in {0, 50, 100} /\ (along > 0 <=> BlowsTo(w, place, x))
<1>1. CASE x = place
  BY <1>1 DEF BlowsTo
<1>2. CASE x > place
  <2>1. Bearing(place, x) = 90
    BY <1>2 DEF Bearing
  <2>2. along = Alignment((w.from + 180) % 360, 90)
    BY <1>2, <2>1
  <2>3. along = IF w.from = 270 THEN 100 ELSE IF w.from = 90 THEN 0 ELSE 50
    BY <2>2 DEF Alignment
  <2>4. BlowsTo(w, place, x) <=> w.from # 90
    BY <1>2 DEF BlowsTo
  <2>5. QED
    BY <2>3, <2>4
<1>3. CASE x < place
  <2>1. Bearing(place, x) = 270
    BY <1>3 DEF Bearing
  <2>2. along = Alignment((w.from + 180) % 360, 270)
    BY <1>3, <2>1
  <2>3. along = IF w.from = 90 THEN 100 ELSE IF w.from = 270 THEN 0 ELSE 50
    BY <2>2 DEF Alignment
  <2>4. BlowsTo(w, place, x) <=> w.from # 270
    BY <1>3 DEF BlowsTo
  <2>5. QED
    BY <2>3, <2>4
<1>4. QED
  BY <1>1, <1>2, <1>3

\* The factor shows any wind that blows to something exposed.
LEMMA WindShows ==
    ASSUME NEW w, w.speed \in Nat, w.from \in {0, 90, 180, 270}, NEW place \in Int,
           NEW exposed, \A a \in exposed : a.x \in Int,
           NEW factor, factor = WindAlignment(w, exposed, place)
    PROVE  /\ factor \in 0 .. 100
           /\ factor > 0 <=> /\ w # NoWeather /\ w.speed > 0
                             /\ \E a \in exposed : BlowsTo(w, place, a.x)
<1> DEFINE spread == (w.from + 180) % 360
           along(a) == IF a.x = place THEN 100 ELSE Alignment(spread, Bearing(place, a.x))
           S == {along(a) : a \in exposed}
<1>1. CASE w = NoWeather \/ exposed = {}
  BY <1>1 DEF WindAlignment
<1>2. CASE ~(w = NoWeather \/ exposed = {})
  <2>1. PICK m, k, n : m = Max(S) /\ k = Min({w.speed, FullWind}) /\ n = m * k
    OBVIOUS
  <2>2. factor = n \div FullWind
    BY <1>2, <2>1 DEF WindAlignment
  <2>3. \A a \in exposed : along(a) \in {0, 50, 100} /\ (along(a) > 0 <=> BlowsTo(w, place, a.x))
    <3> SUFFICES ASSUME NEW a \in exposed
                 PROVE  along(a) \in {0, 50, 100} /\ (along(a) > 0 <=> BlowsTo(w, place, a.x))
      OBVIOUS
    <3>1. PICK x, value : x = a.x /\ value = along(a)
      OBVIOUS
    <3>2. x \in Int /\ value = IF x = place THEN 100
                               ELSE Alignment((w.from + 180) % 360, Bearing(place, x))
      BY <3>1
    <3>3. value \in {0, 50, 100} /\ (value > 0 <=> BlowsTo(w, place, x))
      BY <3>2, AlongIs
    <3>4. QED
      BY <3>1, <3>3
  <2> HIDE DEF along
  <2>4. S \subseteq {0, 50, 100} /\ S # {} /\ S \subseteq Int /\ \A s \in S : s <= 100
    BY <1>2, <2>3
  <2>5. (\E s \in S : s > 0) <=> \E a \in exposed : BlowsTo(w, place, a.x)
    BY <2>3
  <2> HIDE DEF S
  <2>6. m \in S /\ \A s \in S : m >= s
    <3>1. PICK T, top : T = S /\ top = 100
      OBVIOUS
    <3>2. top \in Int /\ T \subseteq Int /\ T # {} /\ \A s \in T : s <= top
      BY <2>4, <3>1
    <3>3. Max(T) \in T /\ \A s \in T : Max(T) >= s
      BY <3>2, MaxIs
    <3>4. QED
      BY <2>1, <3>1, <3>3
  <2>7. m \in {0, 50, 100} /\ (m > 0 <=> \E a \in exposed : BlowsTo(w, place, a.x))
    BY <2>4, <2>5, <2>6
  <2>8. FullWind \in Nat \ {0} /\ FullWind <= 50
    BY RiskAssumption, IncidentsAssumption
  <2>9. k \in Nat /\ k <= FullWind /\ (k = w.speed \/ k = FullWind)
    <3>1. PICK v : v = w.speed
      OBVIOUS
    <3>2. {v, FullWind} \subseteq Int /\ \A x \in {v, FullWind} : 0 <= x
      BY <2>8, <3>1
    <3>3. Min({v, FullWind}) \in {v, FullWind} /\ \A y \in {v, FullWind} : Min({v, FullWind}) <= y
      <4>1. PICK T : T = {v, FullWind}
        OBVIOUS
      <4>2. Min(T) \in T /\ \A y \in T : Min(T) <= y
        BY <3>2, <4>1, MinIs
      <4>3. QED
        BY <4>1, <4>2
    <3>4. QED
      BY <2>1, <2>8, <3>1, <3>3
  <2>10. CASE m = 0 \/ w.speed = 0
    <3>1. n = 0
      <4>1. CASE m = 0
        BY <2>1, <2>9, <4>1
      <4>2. CASE w.speed = 0
        <5>1. k = 0
          <6>1. k <= w.speed
            <7>1. PICK v : v = w.speed
              OBVIOUS
            <7>2. \E x \in {v, FullWind} : \A y \in {v, FullWind} : x <= y
              BY <2>8, <7>1
            <7>3. Min({v, FullWind}) <= v
              BY <7>2 DEF Min
            <7>4. QED
              BY <2>1, <7>1, <7>3
          <6>2. QED
            BY <2>9, <4>2, <6>1
        <5>2. QED
          BY <2>1, <2>7, <5>1
      <4>3. QED
        BY <2>10, <4>1, <4>2
    <3>2. factor = 0
      BY <2>2, <2>8, <3>1
    <3>3. QED
      BY <2>7, <2>10, <3>2
  <2>11. CASE m # 0 /\ w.speed # 0
    <3>1. m \in {50, 100} /\ k \in Nat \ {0}
      BY <2>7, <2>8, <2>9, <2>11
    <3>2. n \in Nat /\ n <= 100 * FullWind /\ n >= FullWind
      <4>1. n >= 50 * k /\ n <= 100 * k /\ n \in Nat
        BY <2>1, <3>1
      <4>2. 50 * k >= FullWind /\ 100 * k <= 100 * FullWind
        BY <2>8, <2>9, <3>1
      <4>3. QED
        BY <2>8, <3>1, <4>1, <4>2
    <3>3. factor \in 1 .. 100
      BY <2>2, <2>8, <3>2
    <3>4. QED
      BY <1>2, <2>7, <2>11, <3>3
  <2>12. QED
    BY <2>10, <2>11
<1>3. QED
  BY <1>1, <1>2

\* What a snapshot's factors are read from.
IsScene(detections, weather, exposed, place, reference) ==
    /\ IsFiniteSet(detections) /\ detections \subseteq FireRows
    /\ \E d \in detections : d.at <= reference
    /\ weather.at \in Int /\ weather.speed \in Nat /\ weather.from \in {0, 90, 180, 270}
    /\ IsFiniteSet(exposed)
    /\ \A a \in exposed : a.x \in Int /\ (a.kind = "community" => a.population \in Nat)
    /\ place \in Int /\ reference \in Int

\* The factors are percentages.
LEMMA FactorsAre ==
    ASSUME NEW detections, NEW weather, NEW exposed, NEW place, NEW reference,
           IsScene(detections, weather, exposed, place, reference),
           NEW k, k = RiskFactors(detections, weather, exposed, place, reference)
    PROVE  \A f \in Factors : k[f] \in 0 .. 100
<1> DEFINE current == {d \in detections : d.at <= reference}
           gaps == {Gap(a.x, place) : a \in exposed}
           towns == {a \in exposed : a.kind = "community"}
           people == MapThenSumSet(LAMBDA a : a.population, towns)
           places == {a \in exposed : a.kind \in {"hospital", "fire_station", "shelter"}}
           sure == MapThenSumSet(LAMBDA d : d.confidence, current)
           times == {d.at : d \in current}
           ages == {FreshnessFactor(reference - Max(times), FireLimit),
                    IF weather = NoWeather THEN 0
                    ELSE FreshnessFactor(reference - weather.at, WeatherLimit)}
<1>1. /\ k["proximity"] = IF exposed = {} THEN 0
                          ELSE Clamp(100 - (100 * Min(gaps)) \div Buffer)
      /\ k["population"] = Clamp((100 * people) \div FullPopulation)
      /\ k["critical_facilities"] = Clamp((100 * Cardinality(places)) \div FullFacilities)
      /\ k["wind_alignment"] = WindAlignment(weather, exposed, place)
      /\ k["detection_confidence"] = sure \div Cardinality(current)
      /\ k["source_freshness"] = Min(ages)
  BY DEF RiskFactors
<1>2. /\ IsFiniteSet(current) /\ current # {} /\ IsFiniteSet(towns) /\ IsFiniteSet(places)
  BY FS_Subset DEF IsScene
<1>3. \A d \in current : d.confidence \in 0 .. 100 /\ d.at \in Int
  BY DEF IsScene, FireRows
<1>4. IsFiniteSet(gaps) /\ gaps \subseteq Int /\ (exposed # {} => gaps # {})
  <2>1. gaps \subseteq Int
    <3>1. \A a \in exposed : a.x \in Int
      BY DEF IsScene
    <3>2. place \in Int
      BY DEF IsScene
    <3>3. \A a \in exposed : Gap(a.x, place) \in Int
      BY <3>1, <3>2 DEF Gap
    <3>4. QED
      BY <3>3
  <2>2. exposed # {} => gaps # {}
    OBVIOUS
  <2>3. PICK f, S : f = [a \in exposed |-> Gap(a.x, place)] /\ S = exposed
    OBVIOUS
  <2>4. \A g \in gaps : \E a \in S : f[a] = g
    BY <2>3
  <2> HIDE DEF gaps
  <2>5. IsFiniteSet(S)
    BY <2>3 DEF IsScene
  <2>6. IsFiniteSet(gaps)
    BY <2>4, <2>5, ImageFinite
  <2>7. QED
    BY <2>1, <2>2, <2>6
<1>5. people \in Int
  BY <1>2, PopulationsSum DEF IsScene
<1>6. IsFiniteSet(times) /\ times # {} /\ times \subseteq Int
  <2>1. times # {} /\ times \subseteq Int
    BY <1>2, <1>3
  <2>2. PICK f, S : f = [d \in current |-> d.at] /\ S = current
    OBVIOUS
  <2>3. \A t \in times : \E d \in S : f[d] = t
    BY <2>2
  <2> HIDE DEF times
  <2>4. IsFiniteSet(times)
    BY <1>2, <2>2, <2>3, ImageFinite
  <2>5. QED
    BY <2>1, <2>4
<1>7. PICK n : n = Cardinality(current)
  OBVIOUS
<1>8. sure \in Nat /\ sure <= 100 * n
  <2> HIDE DEF current
  <2>1. QED
    BY <1>2, <1>3, <1>7, PercentagesSum
<1>9. n \in Nat \ {0}
  BY <1>2, <1>7, FS_CardinalityType, FS_EmptySet
<1> HIDE DEF gaps, people, places, sure, times
<1>10. /\ Buffer \in Nat \ {0} /\ FullPopulation \in Nat \ {0} /\ FullFacilities \in Nat \ {0}
       /\ FireLimit \in Nat \ {0} /\ WeatherLimit \in Nat \ {0}
  BY RiskAssumption
<1>11. k["proximity"] \in 0 .. 100
  <2>1. CASE exposed = {}
    BY <1>1, <2>1
  <2>2. CASE exposed # {}
    <3>1. PICK g : g = Min(gaps)
      OBVIOUS
    <3>2. g \in Int
      BY <1>4, <2>2, <3>1, ExtremesOf
    <3>3. 100 - (100 * g) \div Buffer \in Int
      BY <1>10, <3>2
    <3>4. QED
      BY <1>1, <2>2, <3>1, <3>3, ClampIs
  <2>3. QED
    BY <2>1, <2>2
<1>12. k["population"] \in 0 .. 100
  <2>1. (100 * people) \div FullPopulation \in Int
    BY <1>5, <1>10
  <2>2. QED
    BY <1>1, <2>1, ClampIs
<1>13. k["critical_facilities"] \in 0 .. 100
  <2>1. PICK m : m = Cardinality(places)
    OBVIOUS
  <2>2. m \in Nat
    BY <1>2, <2>1, FS_CardinalityType
  <2>3. (100 * m) \div FullFacilities \in Int
    BY <1>10, <2>2
  <2>4. QED
    BY <1>1, <2>1, <2>3, ClampIs
<1>14. k["wind_alignment"] \in 0 .. 100
  <2>1. PICK factor : factor = WindAlignment(weather, exposed, place)
    OBVIOUS
  <2>2. factor \in 0 .. 100
    BY <2>1, WindShows DEF IsScene
  <2>3. QED
    BY <1>1, <2>1, <2>2
<1>15. k["detection_confidence"] \in 0 .. 100
  <2>1. sure \div n \in 0 .. 100
    BY <1>8, <1>9
  <2>2. QED
    BY <1>1, <1>7, <2>1
<1>16. k["source_freshness"] \in 0 .. 100
  <2>1. PICK m : m = Max(times)
    OBVIOUS
  <2>2. m \in Int
    BY <1>6, <2>1, ExtremesOf
  <2>3. reference - m \in Int /\ reference - weather.at \in Int
    BY <2>2 DEF IsScene
  <2>4. PICK one, other : /\ one = FreshnessFactor(reference - m, FireLimit)
                          /\ other = IF weather = NoWeather THEN 0
                                     ELSE FreshnessFactor(reference - weather.at, WeatherLimit)
    OBVIOUS
  <2>5. one \in 0 .. 100 /\ other \in 0 .. 100 /\ ages = {one, other}
    <3>1. \A age \in Int, limit \in Nat \ {0} : FreshnessFactor(age, limit) \in 0 .. 100
      BY FreshnessIs
    <3>2. one \in 0 .. 100
      BY <1>10, <2>3, <2>4, <3>1
    <3>3. FreshnessFactor(reference - weather.at, WeatherLimit) \in 0 .. 100
      BY <1>10, <2>3, <3>1
    <3>4. other \in 0 .. 100
      BY <2>4, <3>3
    <3>5. ages = {one, other}
      BY <2>1, <2>4
    <3>6. QED
      BY <3>2, <3>4, <3>5
  <2>6. \E x \in ages : \A y \in ages : x <= y
    BY <2>5
  <2>7. Min(ages) \in {one, other}
    BY <2>5, <2>6 DEF Min
  <2> HIDE DEF ages
  <2>8. QED
    BY <1>1, <2>5, <2>7
<1>17. QED
  BY <1>11, <1>12, <1>13, <1>14, <1>15, <1>16 DEF Factors

-----------------------------------------------------------------------------
(* What a refresh reads: rows of a history, places and scores.             *)

\* What a history holds.
LEMMA HistoryIs ==
    ASSUME NEW readings, HistoryFits(readings)
    PROVE  /\ IsFiniteSet(readings) /\ IsFiniteSet(Fires(readings)) /\ Winds(Weather(readings))
           /\ Fires(readings) \subseteq FireRows
           /\ \A r, q \in readings : r.id = q.id => r = q
<1>1. IsFiniteSet(readings) /\ readings \subseteq FireRows \cup WeatherRows
  BY IncidentsAssumption, FS_Subset, FS_EmptySet DEF HistoryFits
<1>2. \A r, q \in readings : r.id = q.id => r = q
  BY IncidentsAssumption DEF HistoryFits
<1>3. Fires(readings) \subseteq readings /\ Weather(readings) \subseteq readings
  BY DEF Fires, Weather
<1>4. IsFiniteSet(Fires(readings)) /\ IsFiniteSet(Weather(readings))
  BY <1>1, <1>3, FS_Subset
<1>5. Fires(readings) \subseteq FireRows
  BY <1>1 DEF Fires, WeatherRows
<1>6. Weather(readings) \subseteq WeatherRows
  BY <1>1 DEF Weather, FireRows
<1>7. QED
  BY <1>1, <1>2, <1>4, <1>5, <1>6 DEF Winds

\* A cluster is a finite set of fires, none of them to come.
LEMMA ClusterIs ==
    ASSUME NEW readings, HistoryFits(readings), NEW at \in Int,
           NEW C \in Clusters(CurrentFires(readings, at))
    PROVE  /\ C \subseteq Fires(readings) /\ IsFiniteSet(C) /\ C # {}
           /\ \A d \in C : d.x \in Int /\ d.at \in Int /\ d.id \in Nat /\ d.at <= at
           /\ Centroid(C) \in Int
<1>1. C # {} /\ C \subseteq Clustered(CurrentFires(readings, at))
  BY ClustersPartition
<1>2. C \subseteq CurrentFires(readings, at)
  BY <1>1 DEF Clustered
<1>3. C \subseteq Fires(readings)
  BY <1>2 DEF CurrentFires
<1>4. IsFiniteSet(C) /\ C \subseteq FireRows
  BY <1>3, HistoryIs, FS_Subset
<1>5. \A d \in C : d.x \in Int /\ d.at \in Int /\ d.id \in Nat
  BY <1>4 DEF FireRows
<1>6. ASSUME NEW d \in C PROVE d.at <= at
  <2>1. PICK low, when : low = at - TemporalWindow /\ when = d.at
    OBVIOUS
  <2>2. low \in Int /\ when \in low .. at
    BY <1>2, <2>1, ClusteringAssumption DEF CurrentFires
  <2>3. QED
    BY <2>1, <2>2
<1>7. Centroid(C) \in Int
  <2>1. PICK n, total : n = Cardinality(C) /\ total = MapThenSumSet(LAMBDA d : d.x, C)
    OBVIOUS
  <2>2. n \in Nat \ {0}
    BY <1>1, <1>4, <2>1, FS_CardinalityType, FS_EmptySet
  <2>3. total \in Int
    BY <1>4, <1>5, <2>1, PlacesSum
  <2>4. (Scale * total) \div n \in Int
    BY <2>2, <2>3 DEF Scale
  <2>5. QED
    BY <2>1, <2>4 DEF Centroid
<1>8. QED
  BY <1>1, <1>3, <1>4, <1>5, <1>6, <1>7

\* A database has the assets it was seeded with, or none.
AssetsFit(known) == known \in {{}, Assets}

\* What the factors are read from is a scene once a member has been observed.
LEMMA SceneIs ==
    ASSUME NEW readings, HistoryFits(readings), NEW known, AssetsFit(known),
           NEW at \in Int, NEW place \in Int, NEW ids,
           \E d \in Fires(readings) : d.id \in ids /\ d.at <= at
    PROVE  IsScene(MembersAmong(readings, ids), SelectWeather(Weather(readings), place, at),
                   Exposed(known, place), place, at)
<1>1. PICK found, weather, exposed : /\ found = MembersAmong(readings, ids)
                                     /\ weather = SelectWeather(Weather(readings), place, at)
                                     /\ exposed = Exposed(known, place)
  OBVIOUS
<1>2. found \subseteq Fires(readings) /\ IsFiniteSet(found) /\ found \subseteq FireRows
  <2>1. found \subseteq Fires(readings)
    BY <1>1 DEF MembersAmong
  <2>2. IsFiniteSet(Fires(readings)) /\ Fires(readings) \subseteq FireRows
    BY HistoryIs
  <2>3. QED
    BY <2>1, <2>2, FS_Subset
<1>3. \E d \in found : d.at <= at
  BY <1>1 DEF MembersAmong
<1>4. weather.at \in Int /\ weather.speed \in Nat /\ weather.from \in {0, 90, 180, 270}
  <2>1. PICK ws : ws = Weather(readings)
    OBVIOUS
  <2>2. Winds(ws) /\ weather = SelectWeather(ws, place, at)
    BY <1>1, <2>1, HistoryIs
  <2>3. weather = NoWeather \/ IsNewest(weather, ws, place, at)
    BY <2>2, SelectedIs
  <2>4. CASE weather = NoWeather
    BY <2>4 DEF NoWeather
  <2>5. CASE IsNewest(weather, ws, place, at)
    BY <2>2, <2>5 DEF IsNewest, Winds, WeatherRows
  <2>6. QED
    BY <2>3, <2>4, <2>5
<1>5. IsFiniteSet(known) /\ known \subseteq Assets
  BY IncidentsAssumption, FS_EmptySet DEF AssetsFit
<1>6. exposed \subseteq known
  BY <1>1 DEF Exposed
<1>7. IsFiniteSet(exposed)
  BY <1>5, <1>6, FS_Subset
<1>8. \A a \in exposed : a.x \in Int /\ (a.kind = "community" => a.population \in Nat)
  BY <1>5, <1>6, IncidentsAssumption
<1>9. IsScene(found, weather, exposed, place, at)
  BY <1>2, <1>3, <1>4, <1>7, <1>8 DEF IsScene
<1>10. QED
  BY <1>1, <1>9

\* So the score a refresh describes is a percentage.
LEMMA DescribedScore ==
    ASSUME NEW readings, HistoryFits(readings), NEW known, AssetsFit(known),
           NEW at \in Int, NEW row, row.x \in Int, NEW ids,
           \E d \in Fires(readings) : d.id \in ids /\ d.at <= at,
           NEW said, said = Described(row, ids, readings, known, at)
    PROVE  said.score \in 0 .. 100
<1>1. PICK place : place = row.x
  OBVIOUS
<1>2. PICK found, weather, exposed : /\ found = MembersAmong(readings, ids)
                                     /\ weather = SelectWeather(Weather(readings), place, at)
                                     /\ exposed = Exposed(known, place)
  OBVIOUS
<1>3. PICK factors : factors = RiskFactors(found, weather, exposed, place, at)
  OBVIOUS
<1>4. IsScene(found, weather, exposed, place, at)
  BY <1>1, <1>2, SceneIs
<1>5. \A f \in Factors : factors[f] \in 0 .. 100
  BY <1>3, <1>4, FactorsAre
<1>6. Score(factors) \in 0 .. 100
  BY <1>5, ScoreIs
<1>7. said.score = Score(factors)
  BY <1>1, <1>2, <1>3 DEF Described
<1>8. QED
  BY <1>6, <1>7

\* A row's place and its score.
PlaceFits(row) == row.x \in Int /\ row.score \in 0 .. 100

\* A matched incident is where its cluster is.
LEMMA ContinuedIs ==
    ASSUME NEW row,
           row = [ status |-> row.status, x |-> row.x, first |-> row.first, last |-> row.last,
                   score |-> row.score ],
           NEW C, NEW after, after = Continued(row, C)
    PROVE  after.x = Centroid(C) /\ after.score = row.score
<1>1. PICK first, latest : first = Min({row.first, Earliest(C)})
                           /\ latest = Max({row.last, Latest(C)})
  OBVIOUS
<1> DEFINE u == [ status |-> "active", x |-> Centroid(C), first |-> first, last |-> latest,
                  score |-> row.score ]
<1>2. after = u
  BY <1>1 DEF Continued
<1>3. QED
  BY <1>2

\* A refresh moves an incident to a centroid and leaves its score to the snapshot.
LEMMA RefreshedPlaces ==
    ASSUME RowsFit, NEW readings, HistoryFits(readings), NEW at \in Int,
           NEW clusters, clusters = Clusters(CurrentFires(readings, at)),
           NEW home \in [clusters -> IncidentIds],
           NEW rows, rows = RefreshedRows(clusters, home), NEW i \in IncidentIds,
           PlaceFits(incident[i])
    PROVE  PlaceFits(rows[i])
<1> DEFINE own == {C \in clusters : home[C] = i}
           D == CHOOSE C \in own : TRUE
<1>1. PICK row : row = incident[i]
  OBVIOUS
<1>2. row = [ status |-> row.status, x |-> row.x, first |-> row.first, last |-> row.last,
              score |-> row.score ]
  BY <1>1 DEF RowsFit, RowFits
<1>3. rows[i] = IF own = {} THEN Inactive(row)
                ELSE IF i \in Known THEN Continued(row, D) ELSE Created(D)
  BY <1>1 DEF RefreshedRows
<1>4. CASE own = {}
  <2>1. Inactive(row).x = row.x /\ Inactive(row).score = row.score
    BY <1>2 DEF Inactive
  <2>2. QED
    BY <1>1, <1>3, <1>4, <2>1 DEF PlaceFits
<1>5. CASE own # {}
  <2>1. D \in clusters
    BY <1>5
  <2>2. PICK C : C = D
    OBVIOUS
  <2>3. Centroid(C) \in Int
    BY <2>1, <2>2, ClusterIs
  <2> HIDE DEF D
  <2>4. CASE i \in Known
    <3>1. rows[i] = Continued(row, C)
      BY <1>3, <1>5, <2>2, <2>4
    <3>2. PICK after : after = Continued(row, C)
      OBVIOUS
    <3>3. after.x = Centroid(C) /\ after.score = row.score
      BY <1>2, <3>2, ContinuedIs
    <3>4. QED
      BY <1>1, <2>3, <3>1, <3>2, <3>3 DEF PlaceFits
  <2>5. CASE i \notin Known
    <3>1. rows[i] = Created(C)
      BY <1>3, <1>5, <2>2, <2>5
    <3>2. Created(C).x = Centroid(C) /\ Created(C).score = 0
      BY DEF Created, None
    <3>3. QED
      BY <2>3, <3>1, <3>2 DEF PlaceFits
  <2>6. QED
    BY <2>4, <2>5
<1>6. QED
  BY <1>4, <1>5

\* A longer chain is longer by one.
LEMMA ExtendedLength ==
    ASSUME NEW chain, IsChain(chain), NEW state, NEW after, after = Extended(chain, state),
           NEW n, n = Len(chain), NEW m, m = Len(after)
    PROVE  n \in Nat /\ m \in {n, n + 1}
<1>1. PICK named : after = IF chain # <<>> /\ Last(chain) = named THEN chain
                           ELSE Append(chain, named)
  BY DEF Extended
<1>2. Len(chain) \in Nat /\ Len(Append(chain, named)) = Len(chain) + 1
  BY AppendIs
<1>3. QED
  BY <1>1, <1>2

\* A name changes nothing else that is recorded.
LEMMA UnderKeeps ==
    ASSUME NEW row, NEW ids, NEW readings, NEW known, NEW at,
           NEW d, d = Described(row, ids, readings, known, at), NEW n
    PROVE  Under(d, n).score = d.score /\ Under(d, n).captured = at
<1>1. PICK i, q, x, first, latest, w, e, f, v :
         d = [ captured |-> i, detections |-> q, x |-> x, first |-> first, last |-> latest,
               weather |-> w, exposed |-> e, factors |-> f, score |-> v, name |-> "" ]
  BY DEF Described
<1>2. Under(d, n).score = d.score
  BY <1>1 DEF Under
<1>3. Under(d, n).captured = d.captured
  BY <1>1 DEF Under
<1>4. d.captured = at
  BY DEF Described
<1>5. QED
  BY <1>2, <1>3, <1>4

\* What is kept of places, scores, times and versions.
ShownInv ==
    /\ AssetsFit(assets)
    /\ last \in -1 .. MaxTime /\ floor \in -1 .. MaxTime
    /\ \A i \in IncidentIds : PlaceFits(incident[i]) /\ Len(snapshots[i]) \in 0 .. MaxVersion

\* What a step leaves of the assets and the times, and when it may be taken.
LEMMA StepKinds ==
    ASSUME IncidentsNext, AssetsFit(assets), floor \in -1 .. MaxTime
    PROVE  /\ AssetsFit(assets')
           /\ floor' \in -1 .. MaxTime
           /\ Bounded \/ Known = {}
<1>1. CASE LiveRun
  BY <1>1, IncidentsAssumption DEF LiveRun
<1>2. CASE ReplayRun
  <2>1. PICK p \in Packages : floor' = Max({floor, p.end})
    BY <1>2 DEF ReplayRun
  <2>2. PICK end : end = p.end
    OBVIOUS
  <2>3. end \in 0 .. MaxTime /\ MaxTime \in Nat
    BY <2>2, IncidentsAssumption
  <2>4. \E m \in {floor, end} : \A y \in {floor, end} : m >= y
    BY <2>3
  <2>5. Max({floor, end}) \in {floor, end}
    BY <2>4 DEF Max
  <2>6. floor' \in -1 .. MaxTime
    BY <2>1, <2>2, <2>3, <2>5
  <2>7. QED
    BY <1>2, <2>6 DEF ReplayRun
<1>3. CASE \E p \in Packages : Seed(p)
  <2>1. PICK p \in Packages : Seed(p)
    BY <1>3
  <2>2. PICK end : end = p.end
    OBVIOUS
  <2>3. end \in 0 .. MaxTime /\ MaxTime \in Nat
    BY <2>2, IncidentsAssumption
  <2>4. assets' = Assets /\ floor' = end /\ Known = {}
    BY <2>1, <2>2 DEF Seed, ProtectedTablesEmpty
  <2>5. QED
    BY <2>3, <2>4 DEF AssetsFit
<1>4. QED
  BY <1>1, <1>2, <1>3 DEF IncidentsNext

\* Nothing is shown at first.
LEMMA ShownInitially == IncidentsInit => ShownInv
<1> SUFFICES ASSUME IncidentsInit PROVE ShownInv
  OBVIOUS
<1>1. \A i \in IncidentIds : incident[i].x = 0 /\ incident[i].score = 0 /\ Len(snapshots[i]) = 0
  BY DEF IncidentsInit, None
<1>2. last = -1 /\ floor = -1 /\ AssetsFit(assets)
  BY DEF IncidentsInit, Unrefreshed, AssetsFit
<1>3. MaxTime \in Nat /\ MaxVersion \in Nat
  BY IncidentsAssumption
<1>4. \A i \in IncidentIds : PlaceFits(incident[i]) /\ Len(snapshots[i]) \in 0 .. MaxVersion
  BY <1>1, <1>3 DEF PlaceFits
<1>5. last \in -1 .. MaxTime /\ floor \in -1 .. MaxTime
  BY <1>2, <1>3
<1>6. QED
  BY <1>2, <1>4, <1>5 DEF ShownInv

\* Each refresh leaves percentages, places and chains within the bound.
LEMMA AdoptedShown ==
    ASSUME IncidentsInv, ChainsInv, ShownInv, IncidentsNext,
           NEW readings, NEW known, NEW at, NEW outcome, NEW states,
           StepFrom(readings, known, states, at, outcome)
    PROVE  ShownInv'
<1> DEFINE D == DOMAIN outcome.states
           clusters == Clusters(CurrentFires(readings, at))
           rows == outcome.rows
           ids == outcome.members
<1>1. /\ at \in 0 .. MaxTime /\ outcome \in Outcomes(readings, known, at)
      /\ HistoryFits(readings) /\ DOMAIN states = D
      /\ Adopt(outcome, states) /\ last' = at /\ assets' = known
      /\ RecordedFrom(outcome, states)
  BY DEF StepFrom, RecordedFrom
<1>2. at \in Int /\ MaxTime \in Nat
  BY <1>1, IncidentsAssumption
<1>3. AssetsFit(known) /\ floor' \in -1 .. MaxTime /\ (Bounded \/ Known = {})
  BY <1>1, StepKinds DEF ShownInv
<1>4. PICK home \in [clusters -> IncidentIds] :
         /\ rows = RefreshedRows(clusters, home) /\ ids = RefreshedMembers(clusters, home)
         /\ D = {i \in IncidentIds : rows[i].status = "active"}
  BY <1>1, OutcomeIs
<1>5. ASSUME NEW i \in IncidentIds
      PROVE  /\ RowFits(rows[i]) /\ PlaceFits(rows[i])
             /\ i \in D => \E C \in clusters : home[C] = i
  <2>1. PICK all, made : all = clusters /\ made = rows
    OBVIOUS
  <2>2. RowsFit /\ PlaceFits(incident[i])
    BY DEF IncidentsInv, ShownInv
  <2>3. made = RefreshedRows(all, home) /\ home \in [all -> IncidentIds]
        /\ all = Clusters(CurrentFires(readings, at))
    BY <1>4, <2>1
  <2> HIDE DEF D, clusters, rows, ids
  <2>4. /\ RowFits(made[i])
        /\ made[i].status = "active" <=> \E C \in all : home[C] = i
    BY <1>2, <2>2, <2>3, RefreshedRowsFit
  <2>5. PlaceFits(made[i])
    BY <1>1, <1>2, <2>2, <2>3, RefreshedPlaces
  <2>6. QED
    BY <1>4, <2>1, <2>4, <2>5
<1>6. ASSUME NEW i \in D PROVE states[i].score \in 0 .. 100
  <2>1. PICK name : NamesFit(outcome, states, readings, known, at, name)
    BY <1>1, StatesAre
  <2>2. PICK row, own, said, n : /\ row = rows[i] /\ own = ids[i] /\ n = name[i]
                                 /\ said = Described(row, own, readings, known, at)
    OBVIOUS
  <2>3. states[i] = Under(said, n)
    BY <2>1, <2>2 DEF NamesFit, StateIs
  <2>4. PICK C \in clusters : home[C] = i
    BY <1>4, <1>5
  <2>5. \E d \in Fires(readings) : d.id \in own /\ d.at <= at
    <3>1. /\ C \subseteq Fires(readings) /\ C # {} /\ \A d \in C : d.at <= at
      BY <1>1, <1>2, ClusterIs
    <3>2. PICK d \in C : TRUE
      BY <3>1
    <3>3. own = UNION {Ids(E) : E \in {F \in clusters : home[F] = i}}
      BY <1>4, <2>2 DEF RefreshedMembers
    <3> HIDE DEF D, clusters, rows, ids
    <3>4. d.id \in Ids(C) /\ Ids(C) \in {Ids(E) : E \in {F \in clusters : home[F] = i}}
      BY <2>4 DEF Ids
    <3>5. d.id \in own
      BY <3>3, <3>4
    <3>6. QED
      BY <3>1, <3>5
  <2>6. row.x \in Int
    BY <1>4, <1>5, <2>2 DEF PlaceFits
  <2> HIDE DEF D, clusters, rows, ids
  <2>7. said.score \in 0 .. 100
    BY <1>1, <1>2, <1>3, <2>2, <2>5, <2>6, DescribedScore
  <2>8. states[i].score = said.score
    BY <2>2, <2>3, UnderKeeps
  <2>9. QED
    BY <2>7, <2>8
<1>7. /\ incident' = [i \in IncidentIds |-> IF i \in D
                          THEN [rows[i] EXCEPT !.score = states[i].score] ELSE rows[i]]
      /\ snapshots' = [i \in IncidentIds |->
                         IF i \in D THEN Extended(snapshots[i], states[i]) ELSE snapshots[i]]
  BY <1>1 DEF Adopt
<1> HIDE DEF D, clusters, rows, ids
<1>8. ASSUME NEW i \in IncidentIds PROVE PlaceFits(incident'[i])
  <2>1. PICK row, score : row = rows[i] /\ score = states[i].score
    OBVIOUS
  <2>2. row = [ status |-> row.status, x |-> row.x, first |-> row.first, last |-> row.last,
                score |-> row.score ]
    BY <1>5, <2>1 DEF RowFits
  <2>3. incident'[i] = IF i \in D THEN [row EXCEPT !.score = score] ELSE row
    BY <1>7, <2>1
  <2>4. PlaceFits(row)
    BY <1>5, <2>1
  <2>5. CASE i \in D
    <3>1. score \in 0 .. 100
      BY <1>6, <2>1, <2>5
    <3>2. [row EXCEPT !.score = score].x = row.x /\ [row EXCEPT !.score = score].score = score
      BY <2>2
    <3>3. QED
      BY <2>3, <2>4, <2>5, <3>1, <3>2 DEF PlaceFits
  <2>6. QED
    BY <2>3, <2>4, <2>5
<1>9. ASSUME NEW i \in IncidentIds PROVE Len(snapshots'[i]) \in 0 .. MaxVersion
  <2>1. PICK chain, n : chain = snapshots[i] /\ n = Len(chain)
    OBVIOUS
  <2>2. IsChain(chain) /\ n \in 0 .. MaxVersion /\ (i \notin Known => chain = <<>>)
    BY <2>1 DEF ChainsInv, ChainFits, ShownInv
  <2>3. CASE i \notin D
    BY <1>7, <2>1, <2>2, <2>3
  <2>4. CASE i \in D
    <3>1. PICK state, after, m : /\ state = states[i] /\ after = Extended(chain, state)
                                 /\ m = Len(after)
      OBVIOUS
    <3>2. m \in {n, n + 1}
      BY <2>1, <2>2, <3>1, ExtendedLength
    <3>3. n < MaxVersion
      <4>1. CASE Bounded
        BY <2>1, <4>1 DEF Bounded
      <4>2. CASE Known = {}
        <5>1. n = 0
          BY <2>1, <2>2, <4>2
        <5>2. QED
          BY <5>1, IncidentsAssumption
      <4>3. QED
        BY <1>3, <4>1, <4>2
    <3>4. snapshots'[i] = after
      BY <1>7, <2>1, <2>4, <3>1
    <3>5. m \in 0 .. MaxVersion
      BY <2>2, <3>2, <3>3, IncidentsAssumption
    <3>6. QED
      BY <3>1, <3>4, <3>5
  <2>5. QED
    BY <2>3, <2>4
<1>10. last' \in -1 .. MaxTime
  BY <1>1, <1>2
<1>11. QED
  BY <1>1, <1>3, <1>8, <1>9, <1>10 DEF ShownInv

\* Every refresh leaves its chains described from what it read.
LEMMA ShownStep ==
    ASSUME IncidentsInv, ChainsInv, ShownInv, [IncidentsNext]_incidentVars
    PROVE  ShownInv'
<1>1. CASE IncidentsNext
  <2>1. PICK readings, known, states, at, outcome :
           StepFrom(readings, known, states, at, outcome)
    BY <1>1, StepIsRefresh
  <2>2. QED
    BY <1>1, <2>1, AdoptedShown
<1>2. CASE UNCHANGED incidentVars
  BY <1>2 DEF incidentVars, ShownInv
<1>3. QED
  BY <1>1, <1>2

\* So the variables have their types.
LEMMA ShownTypes ==
    ASSUME IncidentsInv, ChainsInv, ShownInv
    PROVE  IncidentsTypeOK
<1>1. stored \subseteq AllReadings
  BY DEF IncidentsInv, HistoryFits, AllReadings
<1>2. ASSUME NEW i \in IncidentIds PROVE members[i] \subseteq Ids(AllReadings)
  <2>1. members[i] \subseteq UNION {members[j] : j \in IncidentIds}
    OBVIOUS
  <2>2. Clustered(CurrentFires(stored, last)) \subseteq AllReadings
    BY <1>1 DEF Clustered, CurrentFires, Fires
  <2>3. Ids(Clustered(CurrentFires(stored, last))) \subseteq Ids(AllReadings)
    BY <2>2 DEF Ids
  <2>4. QED
    BY <2>1, <2>3 DEF IncidentsInv, EachDetectionOnce
<1>3. \A i \in IncidentIds : /\ incident[i].status \in {"none", "active", "inactive"}
                             /\ incident[i].score \in 0 .. 100
                             /\ Len(snapshots[i]) \in 0 .. MaxVersion
  BY DEF IncidentsInv, RowsFit, RowFits, ShownInv, PlaceFits
<1>4. assets \in {{}, Assets} /\ last \in -1 .. MaxTime /\ floor \in -1 .. MaxTime
  BY DEF ShownInv, AssetsFit
<1>5. QED
  BY <1>1, <1>2, <1>3, <1>4 DEF IncidentsTypeOK

\* What the latest snapshot of an active incident says of weather and wind.
LEMMA ListedSays ==
    ASSUME ChainsInv, NEW i \in Active, NEW shown, shown = Listed[i],
           NEW w, w = SelectWeather(Weather(stored), incident[i].x, last),
           NEW exposed, exposed = Exposed(assets, incident[i].x)
    PROVE  /\ shown.weather = w.id
           /\ shown.exposed = {a.id : a \in exposed}
           /\ shown.factors.wind_alignment = WindAlignment(w, exposed, incident[i].x)
<1>1. PICK row, ids : row = incident[i] /\ ids = members[i]
  OBVIOUS
<1>2. PICK found, wind : /\ found = MembersAmong(stored, ids)
                         /\ wind = WindAlignment(w, exposed, incident[i].x)
  OBVIOUS
<1>3. PICK factors : factors = RiskFactors(found, w, exposed, row.x, last)
  OBVIOUS
<1>4. factors.wind_alignment = wind
  BY <1>1, <1>2, <1>3 DEF RiskFactors
<1>5. PICK said : said = Described(row, ids, stored, assets, last)
  OBVIOUS
<1>6. said.weather = w.id /\ said.exposed = {a.id : a \in exposed} /\ said.factors = factors
  BY <1>1, <1>2, <1>3, <1>5 DEF Described
<1>7. [shown EXCEPT !.name = ""] = said
  BY <1>1, <1>5 DEF ChainsInv, SnapshotCurrent
<1>8. {"weather", "exposed", "factors"} \subseteq DOMAIN said
  BY <1>5 DEF Described
<1>9. /\ shown.weather = said.weather /\ shown.exposed = said.exposed
      /\ shown.factors = said.factors
  BY <1>7, <1>8
<1>10. QED
  BY <1>2, <1>4, <1>6, <1>9

\* An active incident has been refreshed and is somewhere.
LEMMA ActiveIs ==
    ASSUME IncidentsInv, ShownInv, NEW i \in Active
    PROVE  incident[i].x \in Int /\ last \in Int /\ i \in IncidentIds
<1>1. i \in IncidentIds
  BY DEF Active
<1>2. MaxTime \in Int
  BY IncidentsAssumption
<1>3. QED
  BY <1>1, <1>2 DEF ShownInv, PlaceFits

\* The newest weather in reach is what the latest snapshot is scored with.
LEMMA ShownWeather ==
    ASSUME IncidentsInv, ChainsInv, ShownInv
    PROVE  NewestWeather
<1> SUFFICES ASSUME NEW i \in Active, NEW w \in Weather(stored),
                    w.at <= last, Gap(w.x, incident[i].x) <= SearchRadius
             PROVE  \E v \in Weather(stored) : /\ v.id = Listed[i].weather
                                               /\ w.at <= v.at /\ v.at <= last
  BY DEF NewestWeather
<1>1. PICK place, ws, shown, v, exposed :
         /\ place = incident[i].x /\ ws = Weather(stored) /\ shown = Listed[i]
         /\ v = SelectWeather(ws, place, last) /\ exposed = Exposed(assets, place)
  OBVIOUS
<1>2. place \in Int /\ last \in Int
  BY <1>1, ActiveIs
<1>3. Winds(ws)
  BY <1>1, HistoryIs DEF IncidentsInv
<1>4. \/ v = NoWeather /\ \A u \in ws : ~InReach(u, place, last)
      \/ IsNewest(v, ws, place, last)
  BY <1>1, <1>2, <1>3, SelectedIs
<1>5. w \in ws /\ InReach(w, place, last)
  BY <1>1 DEF InReach
<1>6. v \in ws /\ w.at <= v.at /\ v.at <= last
  BY <1>4, <1>5 DEF IsNewest, InReach
<1>7. shown.weather = v.id
  BY <1>1, ListedSays
<1>8. QED
  BY <1>1, <1>6, <1>7

\* Its wind counts exactly when it blows to something exposed.
LEMMA ShownWind ==
    ASSUME IncidentsInv, ChainsInv, ShownInv
    PROVE  WindMeansDownwind
<1> SUFFICES ASSUME NEW i \in Active, NEW shown, shown = Listed[i]
             PROVE  shown.factors.wind_alignment > 0 <=>
                       \E w \in Weather(stored), a \in assets :
                          /\ w.id = shown.weather /\ w.speed > 0
                          /\ a.id \in shown.exposed
                          /\ BlowsTo(w, incident[i].x, a.x)
  BY DEF WindMeansDownwind
<1>1. PICK place, ws, v, exposed, factor :
         /\ place = incident[i].x /\ ws = Weather(stored)
         /\ v = SelectWeather(ws, place, last) /\ exposed = Exposed(assets, place)
         /\ factor = WindAlignment(v, exposed, place)
  OBVIOUS
<1>2. place \in Int /\ last \in Int
  BY <1>1, ActiveIs
<1>3. Winds(ws) /\ ws \subseteq stored /\ \A r, q \in stored : r.id = q.id => r = q
  BY <1>1, HistoryIs DEF IncidentsInv, Weather
<1>4. v = NoWeather \/ v \in ws
  BY <1>1, <1>2, <1>3, SelectedIs DEF IsNewest
<1>5. ws \subseteq WeatherRows
  BY <1>3 DEF Winds
<1>6. v.speed \in Nat /\ v.from \in {0, 90, 180, 270}
  BY <1>4, <1>5 DEF NoWeather, WeatherRows
<1>7. exposed \subseteq assets /\ assets \subseteq Assets
  BY <1>1 DEF Exposed, ShownInv, AssetsFit
<1>8. /\ \A a \in exposed : a.x \in Int
      /\ \A a, b \in assets : a.id = b.id => a = b
  BY <1>7, IncidentsAssumption
<1>9. factor > 0 <=> v # NoWeather /\ v.speed > 0 /\ \E a \in exposed : BlowsTo(v, place, a.x)
  BY <1>1, <1>2, <1>6, <1>8, WindShows
<1>10. /\ shown.weather = v.id /\ shown.exposed = {a.id : a \in exposed}
       /\ shown.factors.wind_alignment = factor
  BY <1>1, ListedSays
<1>11. ASSUME factor > 0
       PROVE  \E w \in ws, a \in assets : /\ w.id = shown.weather /\ w.speed > 0
                                          /\ a.id \in shown.exposed /\ BlowsTo(w, place, a.x)
  <2>1. v \in ws /\ v.speed > 0
    BY <1>4, <1>9, <1>11
  <2>2. PICK a \in exposed : BlowsTo(v, place, a.x)
    BY <1>9, <1>11
  <2>3. a \in assets /\ a.id \in shown.exposed
    BY <1>7, <1>10
  <2>4. QED
    BY <1>10, <2>1, <2>2, <2>3
<1>12. ASSUME NEW w \in ws, NEW a \in assets, w.id = shown.weather, w.speed > 0,
              a.id \in shown.exposed, BlowsTo(w, place, a.x)
       PROVE  factor > 0
  <2>1. w.id # 0
    BY <1>5 DEF WeatherRows
  <2>2. v # NoWeather
    BY <1>10, <1>12, <2>1 DEF NoWeather
  <2>3. v = w
    BY <1>3, <1>4, <1>10, <1>12, <2>2
  <2>4. a \in exposed
    <3>1. PICK b \in exposed : b.id = a.id
      BY <1>10, <1>12
    <3>2. QED
      BY <1>7, <1>8, <3>1
  <2>5. QED
    BY <1>9, <1>12, <2>2, <2>3, <2>4
<1>13. QED
  BY <1>1, <1>10, <1>11, <1>12

-----------------------------------------------------------------------------
(* Frames.  Without replays the reference never goes back, so the versions *)
(* of an incident are the order of their times.                            *)

\* A chain whose times do not go back, none after t.
Ordered(chain, t) ==
    /\ \A k \in 1 .. Len(chain) : chain[k].captured \in Int /\ chain[k].captured <= t
    /\ \A j, k \in 1 .. Len(chain) : j <= k => chain[j].captured <= chain[k].captured

\* It stays one when it grows at a time that is not earlier.
LEMMA ExtendedOrdered ==
    ASSUME NEW chain, IsChain(chain), NEW t \in Int, Ordered(chain, t),
           NEW at \in Int, t <= at \/ chain = <<>>,
           NEW row, NEW ids, NEW readings, NEW known, NEW n, NEW state,
           state = Under(Described(row, ids, readings, known, at), n),
           NEW after, after = Extended(chain, state)
    PROVE  Ordered(after, at)
<1>1. PICK d : d = Described(row, ids, readings, known, at)
  OBVIOUS
<1>2. /\ \A m : Under(d, m).captured = at
      /\ \A m : [Under(d, n) EXCEPT !.name = m] = Under(d, m)
  <2>1. \A m : Under(d, m).captured = at
    BY <1>1, UnderKeeps
  <2>2. IsRow(d)
    BY <1>1, DescribedIs
  <2>3. \A m : [Under(d, n) EXCEPT !.name = m] = Under(d, m)
    BY <2>2, RenamedIs DEF Under
  <2>4. QED
    BY <2>1, <2>3
<1>3. PICK named : /\ named.captured = at
                   /\ after = IF chain # <<>> /\ Last(chain) = named THEN chain
                              ELSE Append(chain, named)
  <2>1. PICK named : /\ named = IF chain = <<>> THEN state
                                ELSE [state EXCEPT !.name = Last(chain).name]
                     /\ after = IF chain # <<>> /\ Last(chain) = named THEN chain
                                ELSE Append(chain, named)
    BY DEF Extended
  <2>2. named.captured = at
    BY <1>1, <1>2, <2>1
  <2>3. QED
    BY <2>1, <2>2
<1>4. PICK l : l = Len(chain)
  OBVIOUS
<1>5. l \in Nat /\ (chain = <<>> => l = 0)
  BY <1>4, AppendIs
<1>6. CASE after = chain /\ chain # <<>>
  BY <1>6 DEF Ordered
<1>7. CASE after = Append(chain, named)
  <2>1. /\ Len(after) = l + 1 /\ after[l + 1] = named
        /\ \A k \in 1 .. l : after[k] = chain[k]
    BY <1>4, <1>7, AppendIs
  <2>2. \A k \in 1 .. l : chain[k].captured \in Int /\ chain[k].captured <= at
    BY <1>4, <1>5 DEF Ordered
  <2>3. \A j, k \in 1 .. l : j <= k => chain[j].captured <= chain[k].captured
    BY <1>4 DEF Ordered
  <2>4. \A k \in 1 .. l + 1 : k \in 1 .. l \/ k = l + 1
    BY <1>5
  <2>5. \A k \in 1 .. l + 1 : after[k].captured \in Int /\ after[k].captured <= at
    BY <1>3, <2>1, <2>2, <2>4
  <2>6. ASSUME NEW j \in 1 .. l + 1, NEW k \in 1 .. l + 1, j <= k
        PROVE  after[j].captured <= after[k].captured
    <3>1. CASE k \in 1 .. l
      <4>1. j \in 1 .. l
        BY <1>5, <2>6, <3>1
      <4>2. QED
        BY <2>1, <2>3, <2>6, <3>1, <4>1
    <3>2. CASE k = l + 1
      BY <1>3, <2>1, <2>5, <3>2
    <3>3. QED
      BY <2>4, <3>1, <3>2
  <2>7. QED
    BY <2>1, <2>5, <2>6 DEF Ordered
<1>8. QED
  BY <1>3, <1>6, <1>7

\* While no replay runs.
FramesInv ==
    script.live = TRUE =>
        /\ floor = last
        /\ \A i \in IncidentIds : Ordered(snapshots[i], last)

\* A step of a live script goes forward, or seeds an empty database.
LEMMA LiveStep ==
    ASSUME PlayNext, script.live = TRUE, floor = last
    PROVE  /\ script' = script /\ floor' = last'
           /\ last' >= last \/ Known = {}
<1>1. PICK l : l = script.live
  OBVIOUS
<1>2. CASE LiveRun /\ Scripted
  BY <1>2 DEF LiveRun, Scripted
<1>3. CASE \E p \in Packages : Seed(p) /\ Scripted
  BY <1>3 DEF Seed, Scripted, ProtectedTablesEmpty
<1>4. QED
  BY <1>2, <1>3 DEF PlayNext

\* A scripted behaviour is one of the specification, and starts in order.
LEMMA PlayIsIncidents ==
    /\ PlayInit => IncidentsInit /\ FramesInv
    /\ [PlayNext]_<<incidentVars, script>> => [IncidentsNext]_incidentVars
<1>1. ASSUME PlayInit PROVE IncidentsInit /\ FramesInv
  <2>1. IncidentsInit
    BY <1>1 DEF PlayInit
  <2>2. floor = last /\ \A i \in IncidentIds : Len(snapshots[i]) = 0
    BY <2>1 DEF IncidentsInit
  <2>3. \A i \in IncidentIds : Ordered(snapshots[i], last)
    BY <2>2 DEF Ordered
  <2>4. QED
    BY <2>1, <2>2, <2>3 DEF FramesInv
<1>2. PlayNext => IncidentsNext
  BY DEF PlayNext, IncidentsNext
<1>3. QED
  BY <1>1, <1>2

\* A live run captures its frames no earlier than those before.
LEMMA FramesStep ==
    ASSUME IncidentsInv, ChainsInv, ShownInv, FramesInv, [PlayNext]_<<incidentVars, script>>
    PROVE  FramesInv'
<1>1. CASE PlayNext
  <2> SUFFICES ASSUME (script.live = TRUE)'
               PROVE  floor' = last' /\ \A i \in IncidentIds : Ordered(snapshots'[i], last')
    BY DEF FramesInv
  <2>1. script' = script
    BY <1>1 DEF PlayNext, Scripted
  <2>2. script.live = TRUE /\ floor = last /\ \A i \in IncidentIds : Ordered(snapshots[i], last)
    BY <2>1 DEF FramesInv
  <2>3. floor' = last' /\ (last' >= last \/ Known = {})
    BY <1>1, <2>2, LiveStep
  <2>4. IncidentsNext
    BY <1>1 DEF PlayNext, IncidentsNext
  <2>5. PICK readings, known, states, at, outcome :
           StepFrom(readings, known, states, at, outcome)
    BY <2>4, StepIsRefresh
  <2>6. /\ at \in 0 .. MaxTime /\ outcome \in Outcomes(readings, known, at)
        /\ DOMAIN states = DOMAIN outcome.states
        /\ Adopt(outcome, states) /\ last' = at /\ RecordedFrom(outcome, states)
    BY <2>5 DEF StepFrom, RecordedFrom
  <2>7. at \in Int /\ last \in Int /\ MaxTime \in Nat
    BY <2>6, IncidentsAssumption DEF ShownInv
  <2>8. PICK name : NamesFit(outcome, states, readings, known, at, name)
    BY <2>6, StatesAre
  <2>9. ASSUME NEW i \in IncidentIds PROVE Ordered(snapshots'[i], at)
    <3>1. PICK chain : chain = snapshots[i]
      OBVIOUS
    <3>2. IsChain(chain) /\ Ordered(chain, last) /\ (last <= at \/ chain = <<>>)
      BY <2>2, <2>3, <2>6, <2>7, <3>1 DEF ChainsInv, ChainFits
    <3>3. CASE i \in DOMAIN states
      <4>1. PICK row, ids, state, n, after :
               /\ row = outcome.rows[i] /\ ids = outcome.members[i] /\ state = states[i]
               /\ n = name[i] /\ after = Extended(chain, state)
        OBVIOUS
      <4>2. state = Under(Described(row, ids, readings, known, at), n)
        BY <2>6, <2>8, <3>3, <4>1 DEF NamesFit, StateIs
      <4>3. Ordered(after, at)
        BY <2>7, <3>2, <4>1, <4>2, ExtendedOrdered
      <4>4. snapshots'[i] = after
        BY <2>6, <3>1, <3>3, <4>1 DEF Adopt
      <4>5. QED
        BY <4>3, <4>4
    <3>4. CASE i \notin DOMAIN states
      <4>1. snapshots'[i] = chain
        BY <2>6, <3>1, <3>4 DEF Adopt
      <4>2. CASE last <= at
        <5>1. PICK l : l = Len(chain)
          OBVIOUS
        <5>2. \A k \in 1 .. l : chain[k].captured \in Int /\ chain[k].captured <= at
          BY <2>7, <3>2, <4>2, <5>1 DEF Ordered
        <5>3. QED
          BY <3>2, <4>1, <5>1, <5>2 DEF Ordered
      <4>3. CASE chain = <<>>
        <5>1. Len(chain) = 0
          BY <4>3
        <5>2. QED
          BY <4>1, <5>1 DEF Ordered
      <4>4. QED
        BY <3>2, <4>2, <4>3
    <3>5. QED
      BY <3>3, <3>4
  <2>10. QED
    BY <2>3, <2>6, <2>9
<1>2. CASE UNCHANGED <<incidentVars, script>>
  BY <1>2 DEF incidentVars, FramesInv
<1>3. QED
  BY <1>1, <1>2

\* In such a chain the k-th frame is version k.
LEMMA OrderedTimeline ==
    ASSUME NEW i \in IncidentIds, IsChain(snapshots[i]), NEW t, Ordered(snapshots[i], t)
    PROVE  \A k \in DOMAIN snapshots[i] : Timeline(i)[k] = k
<1>1. PICK chain, l : chain = snapshots[i] /\ l = Len(chain)
  OBVIOUS
<1>2. l \in Nat /\ DOMAIN chain = 1 .. l
  BY <1>1, AppendIs
<1> DEFINE earlier(k) == {j \in DOMAIN chain :
                             \/ chain[j].captured < chain[k].captured
                             \/ chain[j].captured = chain[k].captured /\ j < k}
<1>3. \A k \in DOMAIN chain :
         Timeline(i)[k] = CHOOSE m \in DOMAIN chain : Cardinality(earlier(m)) = k - 1
  BY <1>1 DEF Timeline
<1>4. /\ \A k \in 1 .. l : chain[k].captured \in Int
      /\ \A j, k \in 1 .. l : j <= k => chain[j].captured <= chain[k].captured
  BY <1>1 DEF Ordered
<1>5. ASSUME NEW m \in 1 .. l PROVE Cardinality(earlier(m)) = m - 1
  <2>1. ASSUME NEW j \in 1 .. l PROVE j \in earlier(m) <=> j < m
    <3>1. CASE j < m
      BY <1>2, <1>4, <3>1
    <3>2. CASE m <= j
      BY <1>2, <1>4, <3>2
    <3>3. QED
      BY <1>2, <3>1, <3>2
  <2>2. earlier(m) \subseteq 1 .. l
    BY <1>2
  <2> HIDE DEF earlier
  <2>3. earlier(m) = 1 .. (m - 1)
    <3>1. \A j : j \in 1 .. (m - 1) <=> j \in 1 .. l /\ j < m
      BY <1>2
    <3>2. \A j : j \in earlier(m) <=> j \in 1 .. (m - 1)
      BY <2>1, <2>2, <3>1
    <3>3. QED
      BY <3>2
  <2>4. PICK a, b : a = 1 /\ b = m - 1
    OBVIOUS
  <2>5. a \in Int /\ b \in Int /\ b - a + 1 = m - 1 /\ (a > b => m - 1 = 0)
    BY <1>2, <2>4
  <2>6. Cardinality(a .. b) = IF a > b THEN 0 ELSE b - a + 1
    BY <2>5, FS_Interval
  <2>7. QED
    BY <2>3, <2>4, <2>5, <2>6
<1> HIDE DEF earlier
<1>6. ASSUME NEW k \in DOMAIN chain PROVE Timeline(i)[k] = k
  <2>1. Timeline(i)[k] = CHOOSE m \in DOMAIN chain : Cardinality(earlier(m)) = k - 1
    BY <1>3
  <2>2. k \in DOMAIN chain /\ Cardinality(earlier(k)) = k - 1
    BY <1>2, <1>5
  <2>3. PICK n : n = CHOOSE m \in DOMAIN chain : Cardinality(earlier(m)) = k - 1
    OBVIOUS
  <2>4. n \in DOMAIN chain /\ Cardinality(earlier(n)) = k - 1
    BY <2>2, <2>3
  <2>5. n - 1 = k - 1 /\ n \in Int /\ k \in Int
    BY <1>2, <1>5, <2>4
  <2>6. n = k
    BY <2>5
  <2>7. QED
    BY <2>1, <2>3, <2>6
<1>7. QED
  BY <1>1, <1>6

\* What readers are shown of an incident is true, for every history of readings, every set of
\* assets and packages and every bound: its latest snapshot is what a refresh over the stored
\* readings would say (_reuse_or_create_snapshot), scored within 0 to 100 (score_incident),
\* with the newest weather in reach (_select_weather) and a wind that counts only if it blows
\* to something exposed (_direction_alignment); a name is kept, and without replays the frames
\* come in the order of their versions (get_timeline).
THEOREM ReadersSeeTheTruth == Play => []ShownTrue
<1>1. IncidentsInv /\ ChainsInv => NameKept
  BY NamesFollow
<1>2. ASSUME IncidentsInv, ChainsInv, ShownInv, FramesInv PROVE LiveTimelineInOrder
  <2> SUFFICES ASSUME script.live PROVE TimelineInOrder
    BY DEF LiveTimelineInOrder
  <2>1. \A i \in IncidentIds : IsChain(snapshots[i])
    BY <1>2 DEF ChainsInv, ChainFits
  <2>2. script.live = TRUE
    OBVIOUS
  <2>3. \A i \in IncidentIds : Ordered(snapshots[i], last)
    BY <1>2, <2>2 DEF FramesInv
  <2>4. QED
    BY <2>1, <2>3, OrderedTimeline DEF TimelineInOrder
<1>3. IncidentsInv /\ ChainsInv /\ ShownInv /\ FramesInv => ShownTrue
  <2> SUFFICES ASSUME IncidentsInv, ChainsInv, ShownInv, FramesInv PROVE ShownTrue
    OBVIOUS
  <2>1. IncidentsTypeOK
    BY ShownTypes
  <2>2. SnapshotCurrent
    BY DEF ChainsInv
  <2>3. NewestWeather /\ WindMeansDownwind
    BY ShownWeather, ShownWind
  <2>4. QED
    BY <1>1, <1>2, <2>1, <2>2, <2>3 DEF ShownTrue
<1>4. QED
  BY <1>3, PlayIsIncidents, IncidentsInitially, IncidentsStep, ChainsInitially, ChainsStep,
     ShownInitially, ShownStep, FramesStep, PTL DEF Play

-----------------------------------------------------------------------------
(* Matching.  The sort key orders the candidates totally, a candidate's    *)
(* rank is how many precede it, and what was taken first is not farther.   *)

\* The first of five numbers that differs decides.
IsKey(a) == \A i \in 1 .. 5 : a[i] \in Int
LexBefore(a, b) == \E i \in 1 .. 5 : a[i] < b[i] /\ \A j \in 1 .. (i - 1) : a[j] = b[j]

\* Keys that differ are ordered one way or the other.
LEMMA LexTotal ==
    ASSUME NEW a, NEW b, IsKey(a), IsKey(b), \E i \in 1 .. 5 : a[i] # b[i]
    PROVE  LexBefore(a, b) \/ LexBefore(b, a)
<1> DEFINE N == {i \in 1 .. 5 : a[i] # b[i]}
<1>1. N \subseteq Nat /\ N # {}
  OBVIOUS
<1> HIDE DEF N
<1>2. PICK i \in N : \A j \in N : i <= j
  BY <1>1, LeastOf
<1>3. i \in 1 .. 5 /\ a[i] # b[i]
  BY DEF N
<1>4. ASSUME NEW j \in 1 .. (i - 1) PROVE a[j] = b[j]
  <2>1. j \in 1 .. 5 /\ ~(i <= j)
    BY <1>3
  <2>2. j \notin N
    BY <1>2, <2>1
  <2>3. QED
    BY <2>1, <2>2 DEF N
<1>5. a[i] < b[i] \/ b[i] < a[i]
  BY <1>3 DEF IsKey
<1>6. QED
  BY <1>3, <1>4, <1>5 DEF LexBefore

\* The order of keys is strict and transitive.
LEMMA LexOrder ==
    ASSUME NEW a, NEW b, NEW c, IsKey(a), IsKey(b), IsKey(c)
    PROVE  ~LexBefore(a, a) /\ (LexBefore(a, b) /\ LexBefore(b, c) => LexBefore(a, c))
<1>1. ~LexBefore(a, a)
  BY DEF LexBefore, IsKey
<1>2. ASSUME LexBefore(a, b), LexBefore(b, c) PROVE LexBefore(a, c)
  <2>1. PICK i \in 1 .. 5 : a[i] < b[i] /\ \A k \in 1 .. (i - 1) : a[k] = b[k]
    BY <1>2 DEF LexBefore
  <2>2. PICK j \in 1 .. 5 : b[j] < c[j] /\ \A k \in 1 .. (j - 1) : b[k] = c[k]
    BY <1>2 DEF LexBefore
  <2>3. a[i] \in Int /\ b[i] \in Int /\ c[i] \in Int /\ a[j] \in Int /\ b[j] \in Int /\ c[j] \in Int
    BY DEF IsKey
  <2>4. CASE i < j
    <3>1. b[i] = c[i]
      BY <2>2, <2>4
    <3>2. a[i] < c[i]
      BY <2>1, <3>1
    <3>3. \A k \in 1 .. (i - 1) : a[k] = c[k]
      BY <2>1, <2>2, <2>4
    <3>4. QED
      BY <3>2, <3>3 DEF LexBefore
  <2>5. CASE i = j
    <3>1. a[i] < c[i]
      BY <2>1, <2>2, <2>3, <2>5
    <3>2. \A k \in 1 .. (i - 1) : a[k] = c[k]
      BY <2>1, <2>2, <2>5
    <3>3. QED
      BY <3>1, <3>2 DEF LexBefore
  <2>6. CASE j < i
    <3>1. a[j] = b[j]
      BY <2>1, <2>6
    <3>2. a[j] < c[j]
      BY <2>2, <3>1
    <3>3. \A k \in 1 .. (j - 1) : a[k] = c[k]
      BY <2>1, <2>2, <2>6
    <3>4. QED
      BY <3>2, <3>3 DEF LexBefore
  <2>7. QED
    BY <2>4, <2>5, <2>6
<1>3. QED
  BY <1>1, <1>2

\* How many precede an element of a finite total order is its place in it.
StrictOrder(S, R) ==
    /\ \A x \in S : <<x, x>> \notin R
    /\ \A x, y \in S : x # y => <<x, y>> \in R \/ <<y, x>> \in R
    /\ \A x, y, z \in S : <<x, y>> \in R /\ <<y, z>> \in R => <<x, z>> \in R

\* In a strict order each member has a rank of its own, how many precede it.
LEMMA RanksAre ==
    ASSUME NEW S, IsFiniteSet(S), NEW R, StrictOrder(S, R), NEW n, n = Cardinality(S),
           NEW before, before = [p \in S |-> Cardinality({q \in S : <<q, p>> \in R})]
    PROVE  /\ n \in Nat
           /\ \A p \in S : before[p] \in 0 .. (n - 1)
           /\ \A p, q \in S : <<p, q>> \in R => before[p] < before[q]
           /\ \A p, q \in S : before[p] = before[q] => p = q
           /\ \A k \in 1 .. n : \E p \in S : before[p] = k - 1
<1> DEFINE under(p) == {q \in S : <<q, p>> \in R}
<1>1. n \in Nat
  BY FS_CardinalityType
<1>2. \A p \in S : before[p] = Cardinality(under(p))
  OBVIOUS
<1>3. \A p \in S : IsFiniteSet(under(p)) /\ Cardinality(under(p)) \in Nat
  <2> SUFFICES ASSUME NEW p \in S PROVE IsFiniteSet(under(p)) /\ Cardinality(under(p)) \in Nat
    OBVIOUS
  <2>1. under(p) \in SUBSET S
    OBVIOUS
  <2> HIDE DEF under
  <2>2. QED
    BY <2>1, FS_Subset, FS_CardinalityType
<1>4. ASSUME NEW p \in S PROVE before[p] \in 0 .. (n - 1)
  <2>1. under(p) \subseteq S /\ p \notin under(p)
    BY DEF StrictOrder
  <2> HIDE DEF under
  <2>2. PICK T : T = S \ {p}
    OBVIOUS
  <2>3. IsFiniteSet(T) /\ Cardinality(T) = n - 1
    BY <2>2, FS_RemoveElement
  <2>4. under(p) \in SUBSET T
    BY <2>1, <2>2
  <2>5. Cardinality(under(p)) <= Cardinality(T)
    BY <2>3, <2>4, FS_Subset
  <2>6. PICK c : c = Cardinality(under(p))
    OBVIOUS
  <2>7. c \in Nat /\ c <= n - 1
    BY <1>3, <2>3, <2>5, <2>6
  <2>8. QED
    BY <1>1, <1>2, <2>6, <2>7
<1>5. ASSUME NEW p \in S, NEW q \in S, <<p, q>> \in R PROVE before[p] < before[q]
  <2>1. under(p) \subseteq under(q) /\ p \in under(q) /\ p \notin under(p)
    BY <1>5 DEF StrictOrder
  <2> HIDE DEF under
  <2>2. PICK T : T = under(p) \cup {p}
    OBVIOUS
  <2>3. T \in SUBSET under(q)
    BY <2>1, <2>2
  <2>4. PICK a, b : a = Cardinality(under(p)) /\ b = Cardinality(under(q))
    OBVIOUS
  <2>5. a \in Nat /\ b \in Nat
    BY <1>3, <2>4
  <2>6. Cardinality(T) = a + 1
    BY <1>3, <2>1, <2>2, <2>4, FS_AddElement
  <2>7. Cardinality(T) <= b
    BY <1>3, <2>3, <2>4, FS_Subset
  <2>8. QED
    BY <1>2, <2>4, <2>5, <2>6, <2>7
<1>6. ASSUME NEW p \in S, NEW q \in S, before[p] = before[q] PROVE p = q
  <2>1. before[p] \in Int /\ before[q] \in Int
    BY <1>4
  <2>2. ~(before[p] < before[q]) /\ ~(before[q] < before[p])
    BY <1>6, <2>1
  <2>3. QED
    BY <1>5, <2>2 DEF StrictOrder
<1>7. ASSUME NEW k \in 1 .. n PROVE \E p \in S : before[p] = k - 1
  <2>1. PICK T, a, b : a = 0 /\ b = n - 1 /\ T = a .. b
    OBVIOUS
  <2>2. a \in Int /\ b \in Int /\ (a > b => n = 0) /\ b - a + 1 = n
    BY <1>1, <2>1
  <2>3. IsFiniteSet(a .. b) /\ Cardinality(a .. b) = IF a > b THEN 0 ELSE b - a + 1
    BY <2>2, FS_Interval
  <2>4. IsFiniteSet(T) /\ Cardinality(T) = n
    BY <2>1, <2>2, <2>3
  <2>5. before \in [S -> T]
    BY <1>4, <2>1
  <2>6. before \in Injection(S, T)
    BY <1>6, <2>5 DEF Injection, IsInjective
  <2>7. before \in Surjection(S, T)
    BY <2>4, <2>6, FS_Injection
  <2>8. k - 1 \in T
    BY <1>1, <2>1
  <2>9. QED
    BY <2>7, <2>8 DEF Surjection
<1>8. QED
  BY <1>1, <1>4, <1>5, <1>6, <1>7

\* What can be matched: disjoint nonempty clusters, incidents with keys and places.
Matchable(clusters, incidents) ==
    /\ IsFiniteSet(clusters) /\ IsFiniteSet(incidents)
    /\ \A C \in clusters : /\ IsFiniteSet(Ids(C)) /\ Ids(C) # {} /\ Ids(C) \subseteq Nat
                           /\ Centroid(C) \in Int
    /\ \A C, E \in clusters : C # E => Ids(C) \cap Ids(E) = {}
    /\ \A p \in incidents : p.id \in Int /\ p.x \in Int
    /\ \A p, q \in incidents : p.id = q.id => p = q

Pairs(clusters, incidents) == [cluster : clusters, incident : incidents]

\* There are finitely many candidates, all of them pairs.
LEMMA CandidatesFinite ==
    ASSUME NEW clusters, NEW incidents, Matchable(clusters, incidents)
    PROVE  IsFiniteSet(Candidates(clusters, incidents))
<1> DEFINE T == Pairs(clusters, incidents)
           S == clusters \X incidents
           f == [z \in S |-> [cluster |-> z[1], incident |-> z[2]]]
<1>1. IsFiniteSet(S)
  BY FS_Product DEF Matchable
<1>2. \A t \in T : \E s \in S : f[s] = t
  <2> SUFFICES ASSUME NEW t \in T PROVE \E s \in S : f[s] = t
    OBVIOUS
  <2>1. PICK C \in clusters, i \in incidents : t = [cluster |-> C, incident |-> i]
    BY DEF Pairs
  <2>2. <<C, i>> \in S /\ f[<<C, i>>] = [cluster |-> C, incident |-> i]
    OBVIOUS
  <2>3. QED
    BY <2>1, <2>2
<1> HIDE DEF S, T, f
<1>3. IsFiniteSet(T)
  BY <1>1, <1>2, ImageFinite
<1>4. Candidates(clusters, incidents) \subseteq T
  BY DEF Candidates, T, Pairs
<1>5. QED
  BY <1>3, <1>4, FS_Subset

\* The parts of a candidate's key.
LEMMA KeyIs ==
    ASSUME NEW clusters, NEW incidents, Matchable(clusters, incidents),
           NEW p \in Pairs(clusters, incidents), NEW key, key = Key(p)
    PROVE  /\ IsKey(key)
           /\ Overlap(p.cluster, p.incident) \in Nat
           /\ Distance(p.cluster, p.incident) \in Int
           /\ key[1] = IF Overlap(p.cluster, p.incident) > 0 THEN 0 ELSE 1
           /\ key[2] = -Overlap(p.cluster, p.incident)
           /\ key[3] = Distance(p.cluster, p.incident)
           /\ key[4] = p.incident.id /\ key[5] = Min(Ids(p.cluster))
<1>1. PICK C, i : C = p.cluster /\ i = p.incident
  OBVIOUS
<1>2. C \in clusters /\ i \in incidents
  BY <1>1 DEF Pairs
<1>3. PICK overlap, distance, first :
         overlap = Overlap(C, i) /\ distance = Distance(C, i) /\ first = Min(Ids(C))
  OBVIOUS
<1>4. overlap \in Nat
  <2>1. PICK both : both = Ids(C) \cap i.members
    OBVIOUS
  <2>2. both \in SUBSET Ids(C) /\ IsFiniteSet(Ids(C))
    BY <1>2, <2>1 DEF Matchable
  <2>3. IsFiniteSet(both)
    BY <2>2, FS_Subset
  <2>4. QED
    BY <1>3, <2>1, <2>3, FS_CardinalityType DEF Overlap
<1>5. distance \in Int
  <2>1. PICK a, b : a = Centroid(C) - i.x /\ b = i.x - Centroid(C)
    OBVIOUS
  <2>2. a \in Int /\ b \in Int
    BY <1>2, <2>1 DEF Matchable
  <2>3. Max({a, b}) \in Int
    BY <2>2, MinMaxOfTwo
  <2>4. QED
    BY <1>3, <2>1, <2>3 DEF Distance
<1>6. first \in Int
  <2>1. PICK S : S = Ids(C)
    OBVIOUS
  <2>2. IsFiniteSet(S) /\ S # {} /\ S \subseteq Int
    BY <1>2, <2>1 DEF Matchable
  <2>3. Min(S) \in S
    BY <2>2, ExtremesOf
  <2>4. QED
    BY <1>3, <2>1, <2>2, <2>3
<1>7. PICK one, two, four : /\ one = IF overlap > 0 THEN 0 ELSE 1
                            /\ two = -overlap /\ four = i.id
  OBVIOUS
<1>8. one \in Int /\ two \in Int /\ four \in Int
  BY <1>2, <1>4, <1>7 DEF Matchable
<1>9. key = <<one, two, distance, four, first>>
  BY <1>1, <1>3, <1>7 DEF Key
<1>10. key[1] = one /\ key[2] = two /\ key[3] = distance /\ key[4] = four /\ key[5] = first
  BY <1>9
<1>11. IsKey(key)
  <2>1. \A k \in 1 .. 5 : k = 1 \/ k = 2 \/ k = 3 \/ k = 4 \/ k = 5
    OBVIOUS
  <2>2. QED
    BY <1>5, <1>6, <1>8, <1>10, <2>1 DEF IsKey
<1>12. QED
  BY <1>1, <1>3, <1>4, <1>5, <1>7, <1>10, <1>11

\* Preceding compares the keys.
LEMMA PrecedingIs ==
    ASSUME NEW p, NEW q
    PROVE  Preceding(p, q) <=> LexBefore(Key(p), Key(q))
<1>1. DOMAIN Key(p) = 1 .. 5
  BY DEF Key
<1>2. QED
  BY <1>1 DEF Preceding, LexBefore

\* It orders the candidates totally.
LEMMA CandidatesOrdered ==
    ASSUME NEW clusters, NEW incidents, Matchable(clusters, incidents),
           NEW S, S = Candidates(clusters, incidents),
           NEW R, R = {z \in S \X S : Preceding(z[1], z[2])}
    PROVE  StrictOrder(S, R) /\ \A p, q \in S : <<p, q>> \in R <=> Preceding(p, q)
<1>1. S \subseteq Pairs(clusters, incidents)
  BY DEF Candidates, Pairs
<1>2. \A p, q \in S : <<p, q>> \in R <=> Preceding(p, q)
  OBVIOUS
<1>3. \A p \in S : IsKey(Key(p))
  BY <1>1, KeyIs
<1>4. ASSUME NEW p \in S PROVE <<p, p>> \notin R
  <2>1. PICK a : a = Key(p)
    OBVIOUS
  <2>2. ~LexBefore(a, a)
    BY <1>3, <2>1, LexOrder
  <2>3. QED
    BY <1>2, <2>1, <2>2, PrecedingIs
<1>5. ASSUME NEW p \in S, NEW q \in S, p # q PROVE <<p, q>> \in R \/ <<q, p>> \in R
  <2>1. PICK a, b : a = Key(p) /\ b = Key(q)
    OBVIOUS
  <2>2. IsKey(a) /\ IsKey(b)
    BY <1>3, <2>1
  <2>3. p \in Pairs(clusters, incidents) /\ q \in Pairs(clusters, incidents)
    BY <1>1
  <2>4. /\ p.cluster \in clusters /\ p.incident \in incidents
        /\ q.cluster \in clusters /\ q.incident \in incidents
        /\ p.cluster # q.cluster \/ p.incident # q.incident
    BY <1>5, <2>3 DEF Pairs
  <2>5. /\ a[4] = p.incident.id /\ a[5] = Min(Ids(p.cluster))
        /\ b[4] = q.incident.id /\ b[5] = Min(Ids(q.cluster))
    BY <2>1, <2>3, KeyIs
  <2>6. \E k \in 1 .. 5 : a[k] # b[k]
    <3>1. CASE p.incident # q.incident
      <4>1. a[4] # b[4]
        BY <2>4, <2>5, <3>1 DEF Matchable
      <4>2. QED
        BY <4>1
    <3>2. CASE p.cluster # q.cluster
      <4>1. PICK T, U : T = Ids(p.cluster) /\ U = Ids(q.cluster)
        OBVIOUS
      <4>2. /\ IsFiniteSet(T) /\ T # {} /\ T \subseteq Int
            /\ IsFiniteSet(U) /\ U # {} /\ U \subseteq Int /\ T \cap U = {}
        BY <2>4, <3>2, <4>1 DEF Matchable
      <4>3. Min(T) \in T /\ Min(U) \in U
        BY <4>2, ExtremesOf
      <4>4. a[5] # b[5]
        BY <2>5, <4>1, <4>2, <4>3
      <4>5. QED
        BY <4>4
    <3>3. QED
      BY <2>4, <3>1, <3>2
  <2>7. LexBefore(a, b) \/ LexBefore(b, a)
    BY <2>2, <2>6, LexTotal
  <2>8. QED
    BY <1>2, <2>1, <2>7, PrecedingIs
<1>6. ASSUME NEW p \in S, NEW q \in S, NEW r \in S, <<p, q>> \in R, <<q, r>> \in R
      PROVE  <<p, r>> \in R
  <2>1. PICK a, b, c : a = Key(p) /\ b = Key(q) /\ c = Key(r)
    OBVIOUS
  <2>2. IsKey(a) /\ IsKey(b) /\ IsKey(c)
    BY <1>3, <2>1
  <2>3. LexBefore(a, b) /\ LexBefore(b, c)
    BY <1>2, <1>6, <2>1, PrecedingIs
  <2>4. LexBefore(a, c)
    BY <2>2, <2>3, LexOrder
  <2>5. QED
    BY <1>2, <2>1, <2>4, PrecedingIs
<1>7. QED
  BY <1>2, <1>4, <1>5, <1>6 DEF StrictOrder

\* The candidates in their order.
LEMMA InOrderIs ==
    ASSUME NEW clusters, NEW incidents, Matchable(clusters, incidents),
           NEW S, S = Candidates(clusters, incidents), NEW seq, seq = InOrder(S),
           NEW n, n = Cardinality(S)
    PROVE  /\ n \in Nat /\ DOMAIN seq = 1 .. n
           /\ \A k \in 1 .. n : seq[k] \in S
           /\ \A p \in S : \E k \in 1 .. n : seq[k] = p
           /\ \A j, k \in 1 .. n : j < k => ~Preceding(seq[k], seq[j])
<1>1. PICK R : R = {z \in S \X S : Preceding(z[1], z[2])}
  OBVIOUS
<1>2. StrictOrder(S, R) /\ \A p, q \in S : <<p, q>> \in R <=> Preceding(p, q)
  BY <1>1, CandidatesOrdered
<1>3. IsFiniteSet(S)
  BY CandidatesFinite
<1>4. PICK before : before = [p \in S |-> Cardinality({q \in S : Preceding(q, p)})]
  OBVIOUS
<1>5. before = [p \in S |-> Cardinality({q \in S : <<q, p>> \in R})]
  <2>1. \A p \in S : {q \in S : Preceding(q, p)} = {q \in S : <<q, p>> \in R}
    BY <1>2
  <2>2. QED
    BY <1>4, <2>1
<1>6. /\ n \in Nat
      /\ \A p \in S : before[p] \in 0 .. (n - 1)
      /\ \A p, q \in S : <<p, q>> \in R => before[p] < before[q]
      /\ \A p, q \in S : before[p] = before[q] => p = q
      /\ \A k \in 1 .. n : \E p \in S : before[p] = k - 1
  BY <1>2, <1>3, <1>5, RanksAre
<1>7. seq = [k \in 1 .. n |-> CHOOSE p \in S : before[p] = k - 1]
  BY <1>4 DEF InOrder
<1>8. \A k \in 1 .. n : seq[k] \in S /\ before[seq[k]] = k - 1
  BY <1>6, <1>7
<1>9. ASSUME NEW p \in S PROVE \E k \in 1 .. n : seq[k] = p
  <2>1. PICK k : k = before[p] + 1
    OBVIOUS
  <2>2. k \in 1 .. n /\ before[p] = k - 1
    BY <1>6, <2>1
  <2>3. seq[k] = p
    BY <1>6, <1>8, <2>2
  <2>4. QED
    BY <2>2, <2>3
<1>10. ASSUME NEW j \in 1 .. n, NEW k \in 1 .. n, j < k PROVE ~Preceding(seq[k], seq[j])
  <2>1. ~(before[seq[k]] < before[seq[j]])
    BY <1>8, <1>10
  <2>2. QED
    BY <1>2, <1>6, <1>8, <2>1
<1>11. QED
  BY <1>6, <1>7, <1>8, <1>9, <1>10

\* A nearer pair comes earlier.
LEMMA CloserPrecedes ==
    ASSUME NEW clusters, NEW incidents, Matchable(clusters, incidents),
           NEW p \in Pairs(clusters, incidents), NEW q \in Pairs(clusters, incidents), Closer(p, q)
    PROVE  Preceding(p, q)
<1>1. PICK a, b : a = Key(p) /\ b = Key(q)
  OBVIOUS
<1>2. PICK m, n, d, e :
         /\ m = Overlap(p.cluster, p.incident) /\ n = Overlap(q.cluster, q.incident)
         /\ d = Distance(p.cluster, p.incident) /\ e = Distance(q.cluster, q.incident)
  OBVIOUS
<1>3. /\ m \in Nat /\ n \in Nat /\ d \in Int /\ e \in Int
      /\ a[1] = (IF m > 0 THEN 0 ELSE 1) /\ a[2] = -m /\ a[3] = d
      /\ b[1] = (IF n > 0 THEN 0 ELSE 1) /\ b[2] = -n /\ b[3] = e
  BY <1>1, <1>2, KeyIs
<1>4. m - n > 0 \/ (m - n = 0 /\ d < e)
  BY <1>2 DEF Closer
<1>5. CASE m - n > 0 /\ n = 0
  <2>1. a[1] < b[1] /\ \A j \in 1 .. (1 - 1) : a[j] = b[j]
    BY <1>3, <1>5
  <2>2. LexBefore(a, b)
    BY <2>1 DEF LexBefore
  <2>3. QED
    BY <1>1, <2>2, PrecedingIs
<1>6. CASE m - n > 0 /\ n > 0
  <2>1. a[2] < b[2] /\ a[1] = b[1]
    BY <1>3, <1>6
  <2>2. \A j \in 1 .. (2 - 1) : j = 1
    OBVIOUS
  <2>3. LexBefore(a, b)
    BY <2>1, <2>2 DEF LexBefore
  <2>4. QED
    BY <1>1, <2>3, PrecedingIs
<1>7. CASE m - n = 0 /\ d < e
  <2>1. m = n
    BY <1>3, <1>7
  <2>2. a[3] < b[3] /\ a[1] = b[1] /\ a[2] = b[2]
    BY <1>3, <1>7, <2>1
  <2>3. \A j \in 1 .. (3 - 1) : j = 1 \/ j = 2
    OBVIOUS
  <2>4. LexBefore(a, b)
    BY <2>2, <2>3 DEF LexBefore
  <2>5. QED
    BY <1>1, <2>4, PrecedingIs
<1>8. QED
  BY <1>3, <1>4, <1>5, <1>6, <1>7

\* What is taken of the candidates, one after the other.
Meets(p, q) == p.cluster = q.cluster \/ p.incident = q.incident

Take(taken, p) ==
    IF \E q \in taken : q.cluster = p.cluster \/ q.incident = p.incident
    THEN taken ELSE taken \cup {p}

Taking(seq, f, S) ==
    f = [s \in SUBSET S |-> IF s = {} THEN {} ELSE Take(f[s \ {Max(s)}], seq[Max(s)])]

\* Such a function there is.
LEMMA TakingExists ==
    ASSUME NEW S, IsFiniteSet(S), S \subseteq Int, NEW seq
    PROVE  \E f : Taking(seq, f, S)
<1> DEFINE T == SUBSET {seq[k] : k \in S}
           pick == [s \in SUBSET S |-> Max(s)]
           step == [z \in S \X T |-> Take(z[2], seq[z[1]])]
<1>1. Picks(pick, S) /\ \A s \in SUBSET S : pick[s] = Max(s)
  <2>1. ASSUME NEW s \in SUBSET S, s # {} PROVE Max(s) \in s
    <3>1. IsFiniteSet(s) /\ s \subseteq Int
      BY FS_Subset
    <3>2. QED
      BY <2>1, <3>1, ExtremesOf
  <2>2. QED
    BY <2>1 DEF Picks
<1>2. \A x \in S, y \in T : step[<<x, y>>] = Take(y, seq[x])
  OBVIOUS
<1>3. \A x \in S, y \in T : Take(y, seq[x]) \in T
  BY DEF Take
<1>4. {} \in T
  OBVIOUS
<1> HIDE DEF T
<1>5. Closed(step, {}, S, T)
  BY <1>2, <1>3, <1>4 DEF Closed
<1> HIDE DEF pick, step
<1>6. PICK f : IsFold(step, {}, pick, f, S)
  <2>1. PICK base : base = {}
    OBVIOUS
  <2>2. \E f : IsFold(step, base, pick, f, S)
    BY <1>1, FoldExists
  <2>3. QED
    BY <2>1, <2>2
<1>7. \A s \in SUBSET S : f[s] \in T
  <2>1. PICK base : base = {}
    OBVIOUS
  <2>2. Steps(step, base, pick, f, S, T)
    BY <1>6, <2>1 DEF IsFold, Steps
  <2>3. Closed(step, base, S, T)
    BY <1>5, <2>1
  <2>4. QED
    BY <1>1, <2>2, <2>3, FoldType
<1>8. ASSUME NEW s \in SUBSET S
      PROVE  f[s] = IF s = {} THEN {} ELSE Take(f[s \ {Max(s)}], seq[Max(s)])
  <2>1. s # {} => Max(s) \in s
    BY <1>1 DEF Picks
  <2>2. f[s] = IF s = {} THEN {} ELSE step[<<Max(s), f[s \ {Max(s)}]>>]
    BY <1>1, <1>6 DEF IsFold
  <2>3. PICK m : m = Max(s)
    OBVIOUS
  <2>4. s # {} => m \in S /\ f[s \ {m}] \in T
    BY <1>7, <2>1, <2>3
  <2>5. QED
    BY <1>2, <2>2, <2>3, <2>4
<1>9. f = [s \in SUBSET S |-> f[s]]
  BY <1>6 DEF IsFold
<1>10. Taking(seq, f, S)
  BY <1>8, <1>9 DEF Taking
<1>11. QED
  BY <1>10

\* m is what of the pairs at places s is taken: no two meet, and each that is not meets an
\* earlier one that is.
Taken(seq, s, m) ==
    /\ m \subseteq {seq[k] : k \in s}
    /\ \A p, q \in m : p # q => ~Meets(p, q)
    /\ \A k \in s : \/ seq[k] \in m
                    \/ \E j \in s : j < k /\ seq[j] \in m /\ Meets(seq[j], seq[k])

\* Trying one candidate more keeps what was taken maximal and free of conflicts.
LEMMA TakenStep ==
    ASSUME NEW seq, NEW s, s \subseteq Int, NEW x \in s, \A y \in s : y <= x,
           NEW m, Taken(seq, s \ {x}, m), NEW after, after = Take(m, seq[x])
    PROVE  Taken(seq, s, after)
<1>1. /\ m \subseteq {seq[k] : k \in s \ {x}}
      /\ \A p, q \in m : p # q => ~Meets(p, q)
      /\ \A k \in s \ {x} : \/ seq[k] \in m
                            \/ \E j \in s \ {x} : j < k /\ seq[j] \in m /\ Meets(seq[j], seq[k])
  BY DEF Taken
<1>2. \A y \in s \ {x} : y < x
  OBVIOUS
<1>3. CASE \E q \in m : Meets(q, seq[x])
  <2>1. after = m
    BY <1>3 DEF Take, Meets
  <2>2. PICK q \in m : Meets(q, seq[x])
    BY <1>3
  <2>3. PICK j \in s \ {x} : q = seq[j]
    BY <1>1
  <2>4. j < x /\ seq[j] \in m /\ Meets(seq[j], seq[x])
    BY <1>2, <2>2, <2>3
  <2>5. after \subseteq {seq[k] : k \in s}
    BY <1>1, <2>1
  <2>6. \A k \in s : \/ seq[k] \in after
                     \/ \E i \in s : i < k /\ seq[i] \in after /\ Meets(seq[i], seq[k])
    <3> SUFFICES ASSUME NEW k \in s
                 PROVE  \/ seq[k] \in after
                        \/ \E i \in s : i < k /\ seq[i] \in after /\ Meets(seq[i], seq[k])
      OBVIOUS
    <3>1. CASE k = x
      BY <2>1, <2>3, <2>4, <3>1
    <3>2. CASE k # x
      BY <1>1, <2>1, <3>2
    <3>3. QED
      BY <3>1, <3>2
  <2>7. QED
    BY <1>1, <2>1, <2>5, <2>6 DEF Taken
<1>4. CASE ~\E q \in m : Meets(q, seq[x])
  <2>1. PICK p : p = seq[x]
    OBVIOUS
  <2>2. after = m \cup {p} /\ \A q \in m : ~Meets(q, p) /\ ~Meets(p, q)
    BY <1>4, <2>1 DEF Take, Meets
  <2>3. after \subseteq {seq[k] : k \in s}
    BY <1>1, <2>1, <2>2
  <2>4. \A q, r \in after : q # r => ~Meets(q, r)
    BY <1>1, <2>2
  <2>5. \A k \in s : \/ seq[k] \in after
                     \/ \E i \in s : i < k /\ seq[i] \in after /\ Meets(seq[i], seq[k])
    <3> SUFFICES ASSUME NEW k \in s
                 PROVE  \/ seq[k] \in after
                        \/ \E i \in s : i < k /\ seq[i] \in after /\ Meets(seq[i], seq[k])
      OBVIOUS
    <3>1. CASE k = x
      BY <2>1, <2>2, <3>1
    <3>2. CASE k # x
      BY <1>1, <2>2, <3>2
    <3>3. QED
      BY <3>1, <3>2
  <2>6. QED
    BY <2>3, <2>4, <2>5 DEF Taken
<1>5. QED
  BY <1>3, <1>4

\* Each partial matching of the fold is maximal among the candidates tried.
LEMMA TakingIs ==
    ASSUME NEW S, IsFiniteSet(S), S \subseteq Int, NEW seq, NEW f, Taking(seq, f, S)
    PROVE  \A s \in SUBSET S : Taken(seq, s, f[s])
<1> DEFINE Bad == {s \in SUBSET S : ~Taken(seq, s, f[s])}
<1> SUFFICES ASSUME Bad # {} PROVE FALSE
  OBVIOUS
<1>1. \A s \in Bad : IsFiniteSet(s)
  BY FS_Subset
<1>2. PICK s \in Bad : \A x \in s : s \ {x} \notin Bad
  <2> HIDE DEF Bad
  <2>1. QED
    BY <1>1, SmallestOf
<1>3. PICK x : x = Max(s)
  OBVIOUS
<1>4. f[s] = IF s = {} THEN {} ELSE Take(f[s \ {x}], seq[x])
  BY <1>3 DEF Taking
<1>5. CASE s = {}
  <2>1. f[s] = {}
    BY <1>4, <1>5
  <2>2. Taken(seq, s, f[s])
    BY <1>5, <2>1 DEF Taken
  <2>3. QED
    BY <2>2
<1>6. CASE s # {}
  <2>1. IsFiniteSet(s) /\ s \subseteq Int
    BY <1>1
  <2>2. x \in s /\ \A y \in s : x >= y
    BY <1>3, <1>6, <2>1, ExtremesOf
  <2>3. PICK m, after : m = f[s \ {x}] /\ after = f[s]
    OBVIOUS
  <2>4. Taken(seq, s \ {x}, m) /\ after = Take(m, seq[x])
    BY <1>2, <1>4, <1>6, <2>2, <2>3
  <2>5. x \in Int /\ \A y \in s : y <= x
    BY <2>1, <2>2
  <2>6. Taken(seq, s, after)
    BY <2>1, <2>2, <2>4, <2>5, TakenStep
  <2>7. QED
    BY <2>3, <2>6
<1>7. QED
  BY <1>5, <1>6

\* The matching is what of all candidates in their order is taken,
LEMMA MatchIs ==
    ASSUME NEW clusters, NEW incidents, Matchable(clusters, incidents),
           NEW seq, seq = InOrder(Candidates(clusters, incidents)),
           NEW S, S = DOMAIN seq
    PROVE  Taken(seq, S, Match(clusters, incidents))
<1> DEFINE fits(f) == f = [s \in SUBSET S |->
                             IF s = {} THEN {}
                             ELSE IF \E q \in f[s \ {Max(s)}] :
                                        \/ q.cluster = seq[Max(s)].cluster
                                        \/ q.incident = seq[Max(s)].incident
                                  THEN f[s \ {Max(s)}] ELSE f[s \ {Max(s)}] \cup {seq[Max(s)]}]
           match == Match(clusters, incidents)
<1>1. match = (CHOOSE f : fits(f))[S]
  BY DEF Match, FoldLeft, MapThenFoldSet
<1>2. \A f : fits(f) <=> Taking(seq, f, S)
  BY DEF Taking, Take
<1> HIDE DEF fits, match
<1>3. PICK cs, n : cs = Candidates(clusters, incidents) /\ n = Cardinality(cs)
  OBVIOUS
<1>4. n \in Nat /\ S = 1 .. n
  BY <1>3, InOrderIs
<1>5. PICK a, b : a = 1 /\ b = n
  OBVIOUS
<1>6. IsFiniteSet(S) /\ S \subseteq Int
  BY <1>4, <1>5, FS_Interval
<1>7. \E f : Taking(seq, f, S)
  BY <1>6, TakingExists
<1>8. PICK f : Taking(seq, f, S) /\ match = f[S]
  BY <1>1, <1>2, <1>7
<1>9. Taken(seq, S, f[S])
  BY <1>6, <1>8, TakingIs
<1>10. QED
  BY <1>8, <1>9 DEF match

\* so it is stable.
LEMMA MatchIsStable ==
    ASSUME NEW clusters, NEW incidents, Matchable(clusters, incidents),
           NEW matching, matching = Match(clusters, incidents)
    PROVE  matching \subseteq Candidates(clusters, incidents)
           /\ Stable(matching, clusters, incidents)
<1>1. PICK cs, seq, n : /\ cs = Candidates(clusters, incidents) /\ seq = InOrder(cs)
                        /\ n = Cardinality(cs)
  OBVIOUS
<1>2. /\ n \in Nat /\ DOMAIN seq = 1 .. n
      /\ \A k \in 1 .. n : seq[k] \in cs
      /\ \A p \in cs : \E k \in 1 .. n : seq[k] = p
      /\ \A j, k \in 1 .. n : j < k => ~Preceding(seq[k], seq[j])
  BY <1>1, InOrderIs
<1>3. Taken(seq, 1 .. n, matching)
  BY <1>1, <1>2, MatchIs
<1>4. matching \subseteq cs
  BY <1>2, <1>3 DEF Taken
<1>5. \A p, q \in matching : p # q => p.cluster # q.cluster /\ p.incident # q.incident
  BY <1>3 DEF Taken, Meets
<1>6. ASSUME NEW p \in cs \ matching
      PROVE  \E q \in matching : /\ q.cluster = p.cluster \/ q.incident = p.incident
                                 /\ ~Closer(p, q)
  <2>1. PICK k \in 1 .. n : seq[k] = p
    BY <1>2
  <2>2. PICK j \in 1 .. n : j < k /\ seq[j] \in matching /\ Meets(seq[j], seq[k])
    BY <1>3, <2>1 DEF Taken
  <2>3. PICK q : q = seq[j]
    OBVIOUS
  <2>4. q \in matching /\ (q.cluster = p.cluster \/ q.incident = p.incident)
    BY <2>1, <2>2, <2>3 DEF Meets
  <2>5. ~Preceding(p, q)
    BY <1>2, <2>1, <2>2, <2>3
  <2>6. p \in Pairs(clusters, incidents) /\ q \in Pairs(clusters, incidents)
    BY <1>1, <1>4, <2>4 DEF Candidates, Pairs
  <2>7. ~Closer(p, q)
    BY <2>5, <2>6, CloserPrecedes
  <2>8. QED
    BY <2>4, <2>7
<1>7. QED
  BY <1>1, <1>4, <1>5, <1>6 DEF Stable

-----------------------------------------------------------------------------
(* Continuing.  A refresh matches its clusters with the known incidents,   *)
(* so what an incident holds then is what the matching gave it.            *)

\* The clusters of a refresh can be matched with what is known.
LEMMA RefreshMatchable ==
    ASSUME ShownInv, NEW readings, HistoryFits(readings), NEW at \in Int,
           NEW clusters, clusters = Clusters(CurrentFires(readings, at))
    PROVE  Matchable(clusters, Existing)
<1>1. PICK D : D = CurrentFires(readings, at)
  OBVIOUS
<1>2. /\ UNION clusters = Clustered(D) /\ \A C \in clusters : C # {}
      /\ \A C, E \in clusters : C # E => C \cap E = {}
  BY <1>1, ClustersPartition
<1>3. IsFiniteSet(readings) /\ \A r, q \in readings : r.id = q.id => r = q
  BY HistoryIs
<1>4. Clustered(D) \subseteq readings
  BY <1>1 DEF Clustered, CurrentFires, Fires
<1>5. IsFiniteSet(clusters)
  <2>1. PICK S : S = Clustered(D)
    OBVIOUS
  <2>2. IsFiniteSet(S)
    BY <1>3, <1>4, <2>1, FS_Subset
  <2>3. IsFiniteSet(SUBSET S)
    BY <2>2, FS_SUBSET
  <2>4. clusters \in SUBSET (SUBSET S)
    BY <1>2, <2>1
  <2>5. QED
    BY <2>3, <2>4, FS_Subset
<1>6. IsFiniteSet(Existing)
  <2>1. PICK S, T, f : /\ S = Known /\ T = Existing
                       /\ f = [i \in S |-> [id |-> i, x |-> incident[i].x, members |-> members[i]]]
    OBVIOUS
  <2>2. \A t \in T : \E s \in S : f[s] = t
    BY <2>1 DEF Existing
  <2>3. S \in SUBSET IncidentIds
    BY <2>1 DEF Known
  <2>4. IsFiniteSet(S)
    BY <2>3, FS_Subset, IncidentsAssumption
  <2>5. IsFiniteSet(T)
    BY <2>2, <2>4, ImageFinite
  <2>6. QED
    BY <2>1, <2>5
<1>7. ASSUME NEW C \in clusters
      PROVE  /\ IsFiniteSet(Ids(C)) /\ Ids(C) # {} /\ Ids(C) \subseteq Nat
             /\ Centroid(C) \in Int
  <2>1. /\ IsFiniteSet(C) /\ C # {} /\ Centroid(C) \in Int
        /\ \A d \in C : d.id \in Nat
    BY ClusterIs
  <2>2. PICK T, f : T = Ids(C) /\ f = [d \in C |-> d.id]
    OBVIOUS
  <2>3. \A t \in T : \E d \in C : f[d] = t
    BY <2>2 DEF Ids
  <2>4. IsFiniteSet(T)
    BY <2>1, <2>3, ImageFinite
  <2>5. Ids(C) # {} /\ Ids(C) \subseteq Nat
    BY <2>1 DEF Ids
  <2>6. QED
    BY <2>1, <2>2, <2>4, <2>5
<1>8. ASSUME NEW C \in clusters, NEW E \in clusters, C # E PROVE Ids(C) \cap Ids(E) = {}
  <2> SUFFICES ASSUME NEW n \in Ids(C), n \in Ids(E) PROVE FALSE
    OBVIOUS
  <2>1. PICK d \in C : n = d.id
    BY DEF Ids
  <2>2. PICK e \in E : n = e.id
    BY DEF Ids
  <2>3. d \in readings /\ e \in readings
    BY <1>2, <1>4
  <2>4. d = e
    BY <1>3, <2>1, <2>2, <2>3
  <2>5. QED
    BY <1>2, <1>8, <2>4
<1>9. \A p \in Existing : p.id \in Int /\ p.x \in Int
  BY IncidentsAssumption DEF Existing, Known, ShownInv, PlaceFits
<1>10. \A p, q \in Existing : p.id = q.id => p = q
  BY DEF Existing
<1>11. QED
  BY <1>5, <1>6, <1>7, <1>8, <1>9, <1>10 DEF Matchable

\* Each cluster has an incident of its own, a known one only if it was matched with it.
LEMMA HomesAre ==
    ASSUME NEW clusters, Matchable(clusters, Existing), NEW home \in Homes(clusters),
           NEW matching, matching = Match(clusters, Existing)
    PROVE  /\ home \in [clusters -> IncidentIds]
           /\ \A p \in matching : /\ p \in Pairs(clusters, Existing)
                                  /\ home[p.cluster] = p.incident.id
           /\ \A C, E \in clusters : home[C] = home[E] => C = E
           /\ \A C \in clusters : home[C] \in Known => \E p \in matching : p.cluster = C
<1> DEFINE matched == {p.cluster : p \in matching}
<1>1. /\ home \in [clusters -> IncidentIds]
      /\ \A p \in matching : home[p.cluster] = p.incident.id
      /\ \A C \in clusters \ matched : home[C] \notin Known
      /\ \A C, D \in clusters \ matched : C # D => home[C] # home[D]
  BY DEF Homes
<1>2. matching \subseteq Candidates(clusters, Existing) /\ Stable(matching, clusters, Existing)
  BY MatchIsStable
<1>3. \A p \in matching : p \in Pairs(clusters, Existing)
  BY <1>2 DEF Candidates, Pairs
<1>4. \A p, q \in matching : p # q => p.incident # q.incident
  BY <1>2 DEF Stable
<1>5. \A p \in matching : /\ p.cluster \in clusters /\ p.incident \in Existing
                          /\ p.incident.id \in Known
  BY <1>3 DEF Pairs, Existing
<1>6. \A C \in matched : \E p \in matching : C = p.cluster
  OBVIOUS
<1>7. \A p \in matching : p.cluster \in matched
  OBVIOUS
<1> HIDE DEF matched
<1>8. ASSUME NEW C \in clusters, NEW E \in clusters, home[C] = home[E] PROVE C = E
  <2>1. CASE C \in matched /\ E \in matched
    <3>1. PICK p \in matching : C = p.cluster
      BY <1>6, <2>1
    <3>2. PICK q \in matching : E = q.cluster
      BY <1>6, <2>1
    <3>3. p.incident.id = q.incident.id
      BY <1>1, <1>8, <3>1, <3>2
    <3>4. p.incident = q.incident
      BY <1>5, <3>3 DEF Matchable
    <3>5. QED
      BY <1>4, <3>1, <3>2, <3>4
  <2>2. CASE C \in matched /\ E \notin matched
    BY <1>1, <1>5, <1>6, <1>8, <2>2
  <2>3. CASE C \notin matched /\ E \in matched
    BY <1>1, <1>5, <1>6, <1>8, <2>3
  <2>4. CASE C \notin matched /\ E \notin matched
    BY <1>1, <1>8, <2>4
  <2>5. QED
    BY <2>1, <2>2, <2>3, <2>4
<1>9. \A C \in clusters : home[C] \in Known => \E p \in matching : p.cluster = C
  BY <1>1, <1>6
<1>10. QED
  BY <1>1, <1>3, <1>8, <1>9

\* An incident's members are those of its cluster, the others have none.
LEMMA MembersAre ==
    ASSUME NEW clusters, NEW home, \A C, E \in clusters : home[C] = home[E] => C = E,
           \A C \in clusters : home[C] \in IncidentIds,
           NEW ids, ids = RefreshedMembers(clusters, home)
    PROVE  /\ \A C \in clusters : ids[home[C]] = Ids(C)
           /\ \A i \in IncidentIds : (\A C \in clusters : home[C] # i) => ids[i] = {}
<1>1. \A i \in IncidentIds : ids[i] = UNION {Ids(C) : C \in {D \in clusters : home[D] = i}}
  BY DEF RefreshedMembers
<1>2. ASSUME NEW C \in clusters PROVE ids[home[C]] = Ids(C)
  <2>1. {D \in clusters : home[D] = home[C]} = {C}
    OBVIOUS
  <2>2. ids[home[C]] = UNION {Ids(E) : E \in {C}}
    BY <1>1, <2>1
  <2>3. QED
    BY <2>2
<1>3. ASSUME NEW i \in IncidentIds, \A C \in clusters : home[C] # i PROVE ids[i] = {}
  <2>1. {D \in clusters : home[D] = i} = {}
    BY <1>3
  <2>2. ids[i] = UNION {Ids(C) : C \in {}}
    BY <1>1, <2>1
  <2>3. QED
    BY <2>2
<1>4. QED
  BY <1>2, <1>3

\* What was kept is what was matched.
LEMMA KeptIs ==
    ASSUME NEW clusters, Matchable(clusters, Existing), NEW home \in Homes(clusters),
           NEW ids, ids = RefreshedMembers(clusters, home)
    PROVE  {p \in Pairs(clusters, Existing) : ids[p.incident.id] = Ids(p.cluster)}
              = Match(clusters, Existing)
<1>1. PICK matching : matching = Match(clusters, Existing)
  OBVIOUS
<1>2. /\ home \in [clusters -> IncidentIds]
      /\ \A p \in matching : /\ p \in Pairs(clusters, Existing)
                             /\ home[p.cluster] = p.incident.id
      /\ \A C, E \in clusters : home[C] = home[E] => C = E
      /\ \A C \in clusters : home[C] \in Known => \E p \in matching : p.cluster = C
  BY <1>1, HomesAre
<1>3. /\ \A C \in clusters : home[C] \in IncidentIds /\ ids[home[C]] = Ids(C)
      /\ \A i \in IncidentIds : (\A C \in clusters : home[C] # i) => ids[i] = {}
  BY <1>2, MembersAre
<1>4. \A p \in Pairs(clusters, Existing) :
         /\ p.cluster \in clusters /\ p.incident \in Existing /\ p.incident.id \in Known
         /\ p = [cluster |-> p.cluster, incident |-> p.incident]
  BY DEF Pairs, Existing
<1>5. ASSUME NEW p \in matching PROVE ids[p.incident.id] = Ids(p.cluster)
  BY <1>2, <1>3, <1>4
<1>6. ASSUME NEW p \in Pairs(clusters, Existing), ids[p.incident.id] = Ids(p.cluster)
      PROVE  p \in matching
  <2>1. PICK C, i : C = p.cluster /\ i = p.incident.id
    OBVIOUS
  <2>2. C \in clusters /\ i \in Known /\ i \in IncidentIds /\ ids[i] = Ids(C) /\ Ids(C) # {}
    BY <1>4, <1>6, <2>1 DEF Known, Matchable
  <2>3. PICK E \in clusters : home[E] = i
    BY <1>3, <2>2
  <2>4. Ids(E) = Ids(C)
    BY <1>3, <2>2, <2>3
  <2>5. E = C
    BY <2>2, <2>4 DEF Matchable
  <2>6. PICK q \in matching : q.cluster = C
    BY <1>2, <2>2, <2>3, <2>5
  <2>7. q.incident.id = i /\ q \in Pairs(clusters, Existing)
    BY <1>2, <2>3, <2>5, <2>6
  <2>8. q.incident = p.incident
    BY <1>4, <2>1, <2>7 DEF Matchable
  <2>9. p = q
    BY <1>4, <2>1, <2>6, <2>7, <2>8
  <2>10. QED
    BY <2>9
<1>7. QED
  BY <1>1, <1>2, <1>5, <1>6

\* So each refresh continues stably.
LEMMA ContinuesStep ==
    ASSUME IncidentsInv, ShownInv, IncidentsNext
    PROVE  LET clusters == Clusters(CurrentFires(stored', last'))
               before == {[id |-> i, x |-> incident[i].x, members |-> members[i]] : i \in Known}
               kept == {p \in [cluster : clusters, incident : before] :
                           members'[p.incident.id] = Ids(p.cluster)}
           IN Stable(kept, clusters, before)
<1>1. PICK readings, known, states, at, outcome :
         StepFrom(readings, known, states, at, outcome)
  BY StepIsRefresh
<1>2. /\ at \in 0 .. MaxTime /\ outcome \in Outcomes(readings, known, at)
      /\ HistoryFits(readings) /\ Adopt(outcome, states) /\ stored' = readings /\ last' = at
  BY <1>1 DEF StepFrom
<1>3. at \in Int
  BY <1>2, IncidentsAssumption
<1>4. PICK clusters : clusters = Clusters(CurrentFires(readings, at))
  OBVIOUS
<1>5. PICK home \in Homes(clusters) : outcome.members = RefreshedMembers(clusters, home)
  BY <1>2, <1>4, OutcomeIs
<1>6. Matchable(clusters, Existing)
  BY <1>2, <1>3, <1>4, RefreshMatchable
<1>7. PICK ids : ids = members'
  OBVIOUS
<1>8. ids = RefreshedMembers(clusters, home)
  BY <1>2, <1>5, <1>7 DEF Adopt
<1>9. {p \in Pairs(clusters, Existing) : ids[p.incident.id] = Ids(p.cluster)}
         = Match(clusters, Existing)
  BY <1>6, <1>8, KeptIs
<1>10. Stable(Match(clusters, Existing), clusters, Existing)
  BY <1>6, MatchIsStable
<1>11. Stable({p \in Pairs(clusters, Existing) : ids[p.incident.id] = Ids(p.cluster)},
              clusters, Existing)
  BY <1>9, <1>10
<1>12. QED
  BY <1>2, <1>4, <1>7, <1>11 DEF Existing, Pairs

\* A refresh hands no incident over and shortens none, for every history of readings and every
\* set of incidents: it continues one cluster each, and no cluster and incident are closer
\* than what either was given (_match_existing_incidents); no incident disappears and its
\* observed times only widen (refresh_incidents).
THEOREM RefreshesContinue == IncidentsSpec => IncidentsContinue
<1>1. IncidentsInv /\ ShownInv /\ [IncidentsNext]_incidentVars =>
         [LET clusters == Clusters(CurrentFires(stored', last'))
              before == {[id |-> i, x |-> incident[i].x, members |-> members[i]] : i \in Known}
              kept == {p \in [cluster : clusters, incident : before] :
                          members'[p.incident.id] = Ids(p.cluster)}
          IN Stable(kept, clusters, before)]_incidentVars
  BY ContinuesStep
<1>2. IncidentsSpec => ContinuesStably
  BY <1>1, IncidentsInitially, IncidentsStep, ChainsInitially, ChainsStep, ShownInitially,
     ShownStep, PTL DEF IncidentsSpec, ContinuesStably
<1>3. QED
  BY <1>2, TimesOnlyWiden DEF IncidentsContinue

-----------------------------------------------------------------------------
(* Repeating.  After a refresh each cluster stands for one incident, so    *)
(* the same refresh again gives each incident what it has.                 *)

\* The least and the greatest of two.
LEMMA OfTwo ==
    ASSUME NEW a \in Int, NEW b \in Int
    PROVE  /\ Min({a, b}) <= b /\ (a <= b => Min({a, b}) = a)
           /\ Max({a, b}) >= b /\ (a >= b => Max({a, b}) = a)
<1>1. \E x \in {a, b} : \A y \in {a, b} : x <= y
  OBVIOUS
<1>2. Min({a, b}) \in {a, b} /\ \A y \in {a, b} : Min({a, b}) <= y
  BY <1>1 DEF Min
<1>3. \E x \in {a, b} : \A y \in {a, b} : x >= y
  OBVIOUS
<1>4. Max({a, b}) \in {a, b} /\ \A y \in {a, b} : Max({a, b}) >= y
  BY <1>3 DEF Max
<1>5. QED
  BY <1>2, <1>4

\* A row that covers a cluster.
Covers(row, C) ==
    row.x = Centroid(C) /\ row.first <= Earliest(C) /\ row.last >= Latest(C)

\* A matched incident covers its cluster, and one that does already is not changed.
LEMMA ContinuedCovers ==
    ASSUME NEW row, RowFits(row), NEW C, Earliest(C) \in Int, Latest(C) \in Int,
           NEW after, after = Continued(row, C)
    PROVE  Covers(after, C) /\ (row.status = "active" /\ Covers(row, C) => after = row)
<1>1. PICK first, latest : first = Min({row.first, Earliest(C)})
                           /\ latest = Max({row.last, Latest(C)})
  OBVIOUS
<1>2. /\ first <= Earliest(C) /\ (row.first <= Earliest(C) => first = row.first)
      /\ latest >= Latest(C) /\ (row.last >= Latest(C) => latest = row.last)
  BY <1>1, OfTwo DEF RowFits
<1>3. row = [ status |-> row.status, x |-> row.x, first |-> row.first, last |-> row.last,
              score |-> row.score ]
  BY DEF RowFits
<1> DEFINE u == [ status |-> "active", x |-> Centroid(C), first |-> first, last |-> latest,
                  score |-> row.score ]
<1>4. after = u
  BY <1>1, <1>3 DEF Continued
<1>5. Covers(u, C)
  BY <1>2 DEF Covers
<1>6. ASSUME row.status = "active", Covers(row, C) PROVE u = row
  <2>1. first = row.first /\ latest = row.last /\ Centroid(C) = row.x
    BY <1>2, <1>6 DEF Covers
  <2>2. QED
    BY <1>3, <1>6, <2>1
<1>7. QED
  BY <1>4, <1>5, <1>6

\* So does a created one.
LEMMA CreatedCovers ==
    ASSUME NEW C, Earliest(C) \in Int, Latest(C) \in Int, NEW after, after = Created(C)
    PROVE  Covers(after, C)
<1>1. after.x = Centroid(C) /\ after.first = Earliest(C) /\ after.last = Latest(C)
  BY DEF Created, None
<1>2. QED
  BY <1>1 DEF Covers

\* One that is not active stays as it is without a cluster.
LEMMA InactiveStays ==
    ASSUME NEW row, RowFits(row), row.status # "active"
    PROVE  Inactive(row) = row
<1>1. CASE row.status = "none"
  BY <1>1 DEF Inactive
<1>2. CASE row.status # "none"
  <2>1. row.status = "inactive"
    BY <1>2 DEF RowFits
  <2>2. row = [ status |-> row.status, x |-> row.x, first |-> row.first, last |-> row.last,
                score |-> row.score ]
    BY DEF RowFits
  <2>3. [row EXCEPT !.status = "inactive"] = row
    BY <2>1, <2>2
  <2>4. QED
    BY <1>2, <2>3 DEF Inactive
<1>3. QED
  BY <1>1, <1>2

\* What each row becomes when no two clusters have one incident.
LEMMA RowsAre ==
    ASSUME NEW clusters, NEW home \in [clusters -> IncidentIds],
           \A C, E \in clusters : home[C] = home[E] => C = E,
           NEW rows, rows = RefreshedRows(clusters, home), NEW i \in IncidentIds
    PROVE  /\ \A C \in clusters : home[C] = i =>
                 rows[i] = IF i \in Known THEN Continued(incident[i], C) ELSE Created(C)
           /\ (\A C \in clusters : home[C] # i) => rows[i] = Inactive(incident[i])
<1> DEFINE own == {C \in clusters : home[C] = i}
<1>1. rows[i] = IF own = {} THEN Inactive(incident[i])
                ELSE LET C == CHOOSE D \in own : TRUE
                     IN IF i \in Known THEN Continued(incident[i], C) ELSE Created(C)
  BY DEF RefreshedRows
<1>2. ASSUME NEW C \in clusters, home[C] = i
      PROVE  rows[i] = IF i \in Known THEN Continued(incident[i], C) ELSE Created(C)
  <2>1. own = {C}
    BY <1>2
  <2> HIDE DEF own
  <2>2. (CHOOSE D \in own : TRUE) = C /\ own # {}
    BY <2>1
  <2>3. QED
    BY <1>1, <2>2
<1>3. ASSUME \A C \in clusters : home[C] # i PROVE rows[i] = Inactive(incident[i])
  <2>1. own = {}
    BY <1>3
  <2>2. QED
    BY <1>1, <2>1
<1>4. QED
  BY <1>2, <1>3

\* The last snapshot of a chain says what was described, under some name.
LEMMA ExtendedLast ==
    ASSUME NEW chain, IsChain(chain), NEW d, IsRow(d), NEW n, NEW state, state = Under(d, n),
           NEW after, after = Extended(chain, state)
    PROVE  after # <<>> /\ IsRow(Last(after))
<1>1. \A m : [state EXCEPT !.name = m] = Under(d, m)
  BY RenamedIs DEF Under
<1>2. PICK m, named :
         /\ named = Under(d, m)
         /\ after = IF chain # <<>> /\ Last(chain) = named THEN chain ELSE Append(chain, named)
  <2>1. PICK named : /\ named = IF chain = <<>> THEN state
                                ELSE [state EXCEPT !.name = Last(chain).name]
                     /\ after = IF chain # <<>> /\ Last(chain) = named THEN chain
                                ELSE Append(chain, named)
    BY DEF Extended
  <2>2. \E m : named = Under(d, m)
    BY <1>1, <2>1
  <2>3. QED
    BY <2>1, <2>2
<1>3. IsRow(named)
  <2>1. named = [d EXCEPT !.name = m]
    BY <1>2 DEF Under
  <2>2. QED
    BY <2>1 DEF IsRow
<1>4. CASE after = chain /\ chain # <<>> /\ Last(chain) = named
  BY <1>3, <1>4
<1>5. CASE after = Append(chain, named)
  <2>1. PICK l : l = Len(chain)
    OBVIOUS
  <2>2. l \in Nat /\ Len(after) = l + 1 /\ after[l + 1] = named /\ after # <<>>
    BY <1>5, <2>1, AppendIs
  <2>3. Last(after) = named
    BY <2>2 DEF Last
  <2>4. QED
    BY <1>3, <2>2, <2>3
<1>6. QED
  BY <1>2, <1>4, <1>5

\* A chain is not extended by what its last snapshot says.
LEMMA ExtendedStays ==
    ASSUME NEW chain, chain # <<>>, IsRow(Last(chain)), NEW state,
           state = [Last(chain) EXCEPT !.name = ""]
    PROVE  Extended(chain, state) = chain
<1>1. PICK s : s = Last(chain)
  OBVIOUS
<1>2. [state EXCEPT !.name = s.name] = [s EXCEPT !.name = s.name]
  BY <1>1, RenamedIs
<1>3. [s EXCEPT !.name = s.name] = s
  BY <1>1 DEF IsRow
<1>4. QED
  BY <1>1, <1>2, <1>3 DEF Extended

\* An incident stands for a cluster.
StandsFor(i, C) == members[i] = Ids(C) /\ Covers(incident[i], C)

\* After a refresh the active incidents stand for its clusters.
Settled(clusters) ==
    /\ \A C \in clusters : \E i \in Active : StandsFor(i, C)
    /\ \A i \in Active : \E C \in clusters : StandsFor(i, C)

\* The score of an active incident is that of its description.
Scored(i) ==
    incident[i].score = Described(incident[i], members[i], stored, assets, last).score

SettledInv ==
    /\ incident = [i \in IncidentIds |-> incident[i]]
    /\ members = [i \in IncidentIds |-> members[i]]
    /\ snapshots = [i \in IncidentIds |-> snapshots[i]]
    /\ \A i \in Active : snapshots[i] # <<>> /\ IsRow(Last(snapshots[i])) /\ Scored(i)
    /\ last # Unrefreshed => Settled(Clusters(CurrentFires(stored, last)))

\* Before the first refresh nothing is active.
LEMMA SettledInitially == IncidentsInit => SettledInv
<1> SUFFICES ASSUME IncidentsInit PROVE SettledInv
  OBVIOUS
<1>1. Active = {}
  BY DEF IncidentsInit, Active, None
<1>2. QED
  BY <1>1 DEF IncidentsInit, SettledInv

\* What a refresh makes of rows and members, cluster by cluster.
LEMMA RefreshIs ==
    ASSUME IncidentsInv, ShownInv, NEW readings, NEW known, NEW states, NEW at, NEW outcome,
           StepFrom(readings, known, states, at, outcome),
           NEW clusters, clusters = Clusters(CurrentFires(readings, at))
    PROVE  \E home \in Homes(clusters) :
              /\ home \in [clusters -> IncidentIds]
              /\ \A C, E \in clusters : home[C] = home[E] => C = E
              /\ \A p \in Match(clusters, Existing) : home[p.cluster] = p.incident.id
              /\ \A i \in Active' : \E C \in clusters : home[C] = i
              /\ \A C \in clusters : /\ home[C] \in Active'
                                     /\ members'[home[C]] = Ids(C)
                                     /\ Covers(outcome.rows[home[C]], C)
                                     /\ outcome.rows[home[C]] =
                                           IF home[C] \in Known
                                           THEN Continued(incident[home[C]], C) ELSE Created(C)
              /\ \A i \in IncidentIds \ Active' : /\ members'[i] = {}
                                                  /\ outcome.rows[i] = Inactive(incident[i])
<1>1. /\ at \in 0 .. MaxTime /\ outcome \in Outcomes(readings, known, at)
      /\ HistoryFits(readings) /\ DOMAIN states = DOMAIN outcome.states
      /\ Adopt(outcome, states) /\ stored' = readings /\ last' = at
  BY DEF StepFrom
<1>2. at \in Int /\ RowsFit
  BY <1>1, IncidentsAssumption DEF IncidentsInv
<1>3. PICK home \in [clusters -> IncidentIds] :
         /\ home \in Homes(clusters)
         /\ outcome.rows = RefreshedRows(clusters, home)
         /\ outcome.members = RefreshedMembers(clusters, home)
  BY <1>1, OutcomeIs
<1>4. Matchable(clusters, Existing)
  BY <1>1, <1>2, RefreshMatchable
<1>5. PICK matching : matching = Match(clusters, Existing)
  OBVIOUS
<1>6. /\ \A p \in matching : home[p.cluster] = p.incident.id
      /\ \A C, E \in clusters : home[C] = home[E] => C = E
  BY <1>3, <1>4, <1>5, HomesAre
<1>7. PICK rows, ids : rows = outcome.rows /\ ids = outcome.members
  OBVIOUS
<1>8. /\ \A C \in clusters : ids[home[C]] = Ids(C)
      /\ \A i \in IncidentIds : (\A C \in clusters : home[C] # i) => ids[i] = {}
  BY <1>3, <1>6, <1>7, MembersAre
<1>9. ASSUME NEW i \in IncidentIds
      PROVE  /\ rows[i].status = "active" <=> \E C \in clusters : home[C] = i
             /\ \A C \in clusters : home[C] = i =>
                   rows[i] = IF i \in Known THEN Continued(incident[i], C) ELSE Created(C)
             /\ (\A C \in clusters : home[C] # i) => rows[i] = Inactive(incident[i])
  BY <1>2, <1>3, <1>6, <1>7, RefreshedRowsFit, RowsAre
<1>10. Active' = {i \in IncidentIds : rows[i].status = "active"}
  <2>1. Active' = DOMAIN states
    BY <1>1, <1>2, AdoptedFits
  <2>2. DOMAIN outcome.states = {i \in IncidentIds : outcome.rows[i].status = "active"}
    BY <1>1, OutcomeIs
  <2>3. QED
    BY <1>1, <1>7, <2>1, <2>2
<1>11. ASSUME NEW C \in clusters PROVE Covers(rows[home[C]], C)
  <2>1. PICK i, row, after : i = home[C] /\ row = incident[i] /\ after = rows[i]
    OBVIOUS
  <2>2. i \in IncidentIds /\ RowFits(row)
    BY <1>2, <1>3, <2>1 DEF RowsFit
  <2>3. Earliest(C) \in Int /\ Latest(C) \in Int
    BY <1>2, ClusterTimes
  <2>4. after = IF i \in Known THEN Continued(row, C) ELSE Created(C)
    BY <1>9, <2>1, <2>2
  <2>5. CASE i \in Known
    <3>1. Covers(after, C)
      BY <2>2, <2>3, <2>4, <2>5, ContinuedCovers
    <3>2. QED
      BY <2>1, <3>1
  <2>6. CASE i \notin Known
    <3>1. Covers(after, C)
      BY <2>3, <2>4, <2>6, CreatedCovers
    <3>2. QED
      BY <2>1, <3>1
  <2>7. QED
    BY <2>5, <2>6
<1>12. members' = ids
  BY <1>1, <1>7 DEF Adopt
<1>13. \A C \in clusters : home[C] \in IncidentIds
  BY <1>3
<1>14. \A C \in clusters : home[C] \in Active'
  BY <1>9, <1>10, <1>13
<1>15. \A C \in clusters : rows[home[C]] =
          IF home[C] \in Known THEN Continued(incident[home[C]], C) ELSE Created(C)
  BY <1>9, <1>13
<1>16. \A i \in Active' : \E C \in clusters : home[C] = i
  BY <1>9, <1>10
<1>17. \A i \in IncidentIds \ Active' : ids[i] = {} /\ rows[i] = Inactive(incident[i])
  BY <1>8, <1>9, <1>10
<1>18. \A C \in clusters : ids[home[C]] = Ids(C) /\ Covers(rows[home[C]], C)
  BY <1>8, <1>11
<1>19. QED
  BY <1>3, <1>5, <1>6, <1>7, <1>12, <1>14, <1>15, <1>16, <1>17, <1>18

\* What an active incident's row becomes: the outcome's, with the score described from it.
AdoptedAs(outcome, states, i) ==
    /\ incident'[i] = [outcome.rows[i] EXCEPT !.score = states[i].score]
    /\ incident'[i].x = outcome.rows[i].x
    /\ incident'[i].first = outcome.rows[i].first
    /\ incident'[i].last = outcome.rows[i].last
    /\ incident'[i].score = states[i].score
    /\ states[i].score =
          Described(incident'[i], members'[i], stored', assets', last').score
    /\ snapshots'[i] # <<>> /\ IsRow(Last(snapshots'[i]))

\* Every active incident is adopted so.
LEMMA AdoptedRow ==
    ASSUME IncidentsInv, ChainsInv, NEW readings, NEW known, NEW states, NEW at, NEW outcome,
           StepFrom(readings, known, states, at, outcome), NEW i \in Active'
    PROVE  AdoptedAs(outcome, states, i)
<1>1. /\ at \in 0 .. MaxTime /\ outcome \in Outcomes(readings, known, at)
      /\ HistoryFits(readings) /\ DOMAIN states = DOMAIN outcome.states
      /\ Adopt(outcome, states) /\ stored' = readings /\ last' = at /\ assets' = known
      /\ RecordedFrom(outcome, states)
  BY DEF StepFrom, RecordedFrom
<1>2. RowsFit /\ at \in Int
  BY <1>1, IncidentsAssumption DEF IncidentsInv
<1>3. i \in DOMAIN states /\ i \in IncidentIds
  <2>1. Active' = DOMAIN states
    BY <1>1, <1>2, AdoptedFits
  <2>2. QED
    BY <2>1 DEF Active
<1>4. /\ incident'[i].x = outcome.rows[i].x /\ incident'[i].first = outcome.rows[i].first
      /\ incident'[i].last = outcome.rows[i].last
  BY <1>1, <1>2, <1>3, AdoptedFits
<1>5. /\ incident'[i] = [outcome.rows[i] EXCEPT !.score = states[i].score]
      /\ members'[i] = outcome.members[i]
      /\ snapshots'[i] = Extended(snapshots[i], states[i])
  BY <1>1, <1>3 DEF Adopt
<1>6. PICK name : NamesFit(outcome, states, readings, known, at, name)
  BY <1>1, StatesAre
<1>7. PICK row, ids, after, n, d, state :
         /\ row = outcome.rows[i] /\ ids = outcome.members[i] /\ after = incident'[i]
         /\ n = name[i] /\ d = Described(row, ids, readings, known, at) /\ state = states[i]
  OBVIOUS
<1>8. state = Under(d, n) /\ IsRow(d)
  <2>1. state = Under(d, n)
    BY <1>1, <1>3, <1>6, <1>7 DEF NamesFit, StateIs
  <2>2. IsRow(d)
    BY <1>7, DescribedIs
  <2>3. QED
    BY <2>1, <2>2
<1>9. state.score = d.score
  BY <1>7, <1>8, UnderKeeps
<1>10. Described(after, ids, readings, known, at) = d
  <2>1. after.x = row.x /\ after.first = row.first /\ after.last = row.last
    BY <1>4, <1>7
  <2>2. \A s : Described(after, s, readings, known, at) = Described(row, s, readings, known, at)
    BY <2>1 DEF Described
  <2>3. QED
    BY <1>7, <2>2
<1>11. incident'[i].score = states[i].score
  <2>1. PICK home \in [Clusters(CurrentFires(readings, at)) -> IncidentIds] :
           outcome.rows = RefreshedRows(Clusters(CurrentFires(readings, at)), home)
    BY <1>1, OutcomeIs
  <2>2. RowFits(row)
    BY <1>2, <1>3, <1>7, <2>1, RefreshedRowsFit
  <2>3. row = [ status |-> row.status, x |-> row.x, first |-> row.first, last |-> row.last,
                score |-> row.score ]
    BY <2>2 DEF RowFits
  <2>4. \A v : [row EXCEPT !.score = v].score = v
    BY <2>3
  <2>5. QED
    BY <1>5, <1>7, <2>4
<1>12. snapshots'[i] # <<>> /\ IsRow(Last(snapshots'[i]))
  <2>1. PICK chain, longer : chain = snapshots[i] /\ longer = Extended(chain, state)
    OBVIOUS
  <2>2. IsChain(chain)
    BY <1>3, <2>1 DEF ChainsInv, ChainFits
  <2>3. longer # <<>> /\ IsRow(Last(longer))
    BY <1>8, <2>1, <2>2, ExtendedLast
  <2>4. QED
    BY <1>5, <1>7, <2>1, <2>3
<1>13. QED
  BY <1>1, <1>4, <1>5, <1>7, <1>9, <1>10, <1>11, <1>12 DEF AdoptedAs

\* Every refresh leaves one active incident to each of its clusters.
LEMMA SettledStep ==
    ASSUME IncidentsInv, ChainsInv, ShownInv, SettledInv, [IncidentsNext]_incidentVars
    PROVE  SettledInv'
<1>1. CASE IncidentsNext
  <2>1. PICK readings, known, states, at, outcome :
           StepFrom(readings, known, states, at, outcome)
    BY <1>1, StepIsRefresh
  <2>2. Adopt(outcome, states) /\ stored' = readings /\ last' = at
        /\ outcome \in Outcomes(readings, known, at)
    BY <2>1 DEF StepFrom
  <2>3. PICK clusters : clusters = Clusters(CurrentFires(readings, at))
    OBVIOUS
  <2>4. PICK home \in Homes(clusters) :
           /\ \A i \in Active' : \E C \in clusters : home[C] = i
           /\ \A C \in clusters : /\ home[C] \in Active'
                                  /\ members'[home[C]] = Ids(C)
                                  /\ Covers(outcome.rows[home[C]], C)
    BY <2>1, <2>3, RefreshIs
  <2>5. \A i \in Active' : /\ incident'[i].x = outcome.rows[i].x
                           /\ incident'[i].first = outcome.rows[i].first
                           /\ incident'[i].last = outcome.rows[i].last
                           /\ snapshots'[i] # <<>> /\ IsRow(Last(snapshots'[i]))
                           /\ Scored(i)'
    <3> TAKE i \in Active'
    <3>1. AdoptedAs(outcome, states, i)
      BY <2>1, AdoptedRow
    <3>2. /\ incident'[i].x = outcome.rows[i].x
          /\ incident'[i].first = outcome.rows[i].first
          /\ incident'[i].last = outcome.rows[i].last
      BY <3>1 DEF AdoptedAs
    <3>3. snapshots'[i] # <<>> /\ IsRow(Last(snapshots'[i]))
      BY <3>1 DEF AdoptedAs
    <3>4. incident'[i].score = states[i].score
      BY <3>1 DEF AdoptedAs
    <3>5. states[i].score =
             Described(incident'[i], members'[i], stored', assets', last').score
      BY <3>1 DEF AdoptedAs
    <3>6. Scored(i)'
      BY <3>4, <3>5 DEF Scored
    <3>7. QED
      BY <3>2, <3>3, <3>6
  <2>6. ASSUME NEW C \in clusters PROVE StandsFor(home[C], C)'
    <3>1. PICK i : i = home[C]
      OBVIOUS
    <3>2. i \in Active' /\ members'[i] = Ids(C) /\ Covers(outcome.rows[i], C)
      BY <2>4, <3>1
    <3>3. Covers(incident'[i], C)
      BY <2>5, <3>2 DEF Covers
    <3>4. QED
      BY <3>1, <3>2, <3>3 DEF StandsFor
  <2>7. \A C \in clusters : \E i \in Active' : StandsFor(i, C)'
    BY <2>4, <2>6
  <2>8. \A i \in Active' : \E C \in clusters : StandsFor(i, C)'
    BY <2>4, <2>6
  <2>9. Settled(Clusters(CurrentFires(stored, last)))'
    BY <2>2, <2>3, <2>7, <2>8 DEF Settled
  <2>10. incident' = [i \in IncidentIds |-> incident'[i]]
    BY <2>2 DEF Adopt
  <2>11. snapshots' = [i \in IncidentIds |-> snapshots'[i]]
    BY <2>2 DEF Adopt
  <2>12. members' = [i \in IncidentIds |-> members'[i]]
    <3>1. PICK all, homes : outcome.members = RefreshedMembers(all, homes)
      BY <2>2, OutcomeIs
    <3>2. members' = RefreshedMembers(all, homes)
      BY <2>2, <3>1 DEF Adopt
    <3>3. QED
      BY <3>2 DEF RefreshedMembers
  <2>13. QED
    BY <2>5, <2>9, <2>10, <2>11, <2>12 DEF SettledInv
<1>2. CASE UNCHANGED incidentVars
  BY <1>2 DEF incidentVars, SettledInv, Settled, StandsFor, Scored, Active
<1>3. QED
  BY <1>1, <1>2

\* The matching gives each cluster the incident that stands for it.
LEMMA SettledMatch ==
    ASSUME IncidentsInv, ShownInv, NEW clusters, Matchable(clusters, Existing),
           Settled(clusters), NEW C \in clusters, NEW i \in Active, StandsFor(i, C)
    PROVE  \E p \in Match(clusters, Existing) : p.cluster = C /\ p.incident.id = i
<1>1. PICK matching : matching = Match(clusters, Existing)
  OBVIOUS
<1>2. matching \subseteq Candidates(clusters, Existing) /\ Stable(matching, clusters, Existing)
  BY <1>1, MatchIsStable
<1>3. PICK row : row = [id |-> i, x |-> incident[i].x, members |-> members[i]]
  OBVIOUS
<1>4. i \in Known
  BY DEF Active, Known
<1>5. row \in Existing /\ row.id = i /\ row.members = Ids(C)
  BY <1>3, <1>4 DEF Existing, StandsFor
<1>6. PICK p : p = [cluster |-> C, incident |-> row]
  OBVIOUS
<1>7. p \in Pairs(clusters, Existing) /\ p.cluster = C /\ p.incident = row
  BY <1>5, <1>6 DEF Pairs
<1>8. PICK m : m = Overlap(C, row)
  OBVIOUS
<1>9. m \in Nat \ {0}
  <2>1. PICK both : both = Ids(C) \cap row.members
    OBVIOUS
  <2>2. both = Ids(C) /\ IsFiniteSet(both) /\ both # {}
    BY <1>5, <2>1 DEF Matchable
  <2>3. m = Cardinality(both)
    BY <1>8, <2>1 DEF Overlap
  <2>4. QED
    BY <2>2, <2>3, FS_CardinalityType, FS_EmptySet
<1>10. p \in Candidates(clusters, Existing)
  BY <1>7, <1>8, <1>9 DEF Candidates, Pairs
<1>11. ASSUME NEW q \in Pairs(clusters, Existing), q # p, Meets(q, p)
       PROVE  Overlap(q.cluster, q.incident) = 0
  <2>1. PICK E, other : E = q.cluster /\ other = q.incident
    OBVIOUS
  <2>2. E \in clusters /\ other \in Existing /\ q = [cluster |-> E, incident |-> other]
    BY <2>1 DEF Pairs
  <2>3. PICK j \in Known : other = [id |-> j, x |-> incident[j].x, members |-> members[j]]
    BY <2>2 DEF Existing
  <2>4. other.members = members[j] /\ j \in IncidentIds /\ i \in IncidentIds
    BY <2>3, <1>4 DEF Known
  <2>5. Ids(E) \cap members[j] = {}
    <3>1. CASE E = C
      <4>1. other # row
        BY <1>6, <1>11, <2>2, <3>1
      <4>2. j # i
        BY <1>3, <2>3, <4>1
      <4>3. members[i] \cap members[j] = {}
        BY <2>4, <4>2 DEF IncidentsInv, EachDetectionOnce
      <4>4. QED
        BY <3>1, <4>3 DEF StandsFor
    <3>2. CASE E # C
      <4>1. other = row
        BY <1>7, <1>11, <2>1, <3>2 DEF Meets
      <4>2. j = i
        BY <1>5, <2>3, <4>1
      <4>3. Ids(E) \cap Ids(C) = {}
        BY <2>2, <3>2 DEF Matchable
      <4>4. QED
        BY <4>2, <4>3 DEF StandsFor
    <3>3. QED
      BY <3>1, <3>2
  <2>6. Overlap(E, other) = Cardinality({})
    BY <2>4, <2>5 DEF Overlap
  <2>7. QED
    BY <2>1, <2>6, FS_EmptySet
<1>12. p \in matching
  <2> SUFFICES ASSUME p \notin matching PROVE FALSE
    OBVIOUS
  <2>1. PICK q \in matching : Meets(q, p) /\ ~Closer(p, q)
    BY <1>2, <1>10 DEF Stable, Meets
  <2>2. q \in Pairs(clusters, Existing) /\ q # p
    BY <1>2, <2>1 DEF Candidates, Pairs
  <2>3. Overlap(q.cluster, q.incident) = 0 /\ Overlap(p.cluster, p.incident) = m
    BY <1>7, <1>8, <1>11, <2>1, <2>2
  <2>4. Closer(p, q)
    BY <1>9, <2>3 DEF Closer
  <2>5. QED
    BY <2>1, <2>4
<1>13. QED
  BY <1>1, <1>5, <1>7, <1>12

\* The same refresh again changes nothing.
LEMMA RepeatStays ==
    ASSUME IncidentsInv, ChainsInv, ShownInv, SettledInv, IncidentsNext,
           stored' = stored, assets' = assets, last' = last
    PROVE  UNCHANGED <<incident, members, snapshots>>
<1>1. PICK readings, known, states, at, outcome :
         StepFrom(readings, known, states, at, outcome)
  BY StepIsRefresh
<1>2. /\ at \in 0 .. MaxTime /\ outcome \in Outcomes(readings, known, at)
      /\ HistoryFits(readings) /\ Adopt(outcome, states)
      /\ readings = stored /\ at = last /\ known = assets
      /\ states = outcome.states \/ ProtectedTablesEmpty
  BY <1>1 DEF StepFrom
<1>3. last \in Int /\ last # Unrefreshed /\ at \in Int
  BY <1>2, IncidentsAssumption DEF Unrefreshed
<1>4. PICK clusters : clusters = Clusters(CurrentFires(readings, at))
  OBVIOUS
<1>5. Settled(clusters)
  BY <1>2, <1>3, <1>4 DEF SettledInv
<1>6. Matchable(clusters, Existing)
  BY <1>2, <1>3, <1>4, RefreshMatchable
<1>7. PICK home \in Homes(clusters) :
         /\ home \in [clusters -> IncidentIds]
         /\ \A p \in Match(clusters, Existing) : home[p.cluster] = p.incident.id
         /\ \A i \in Active' : \E C \in clusters : home[C] = i
         /\ \A C \in clusters : /\ home[C] \in Active'
                                /\ members'[home[C]] = Ids(C)
                                /\ outcome.rows[home[C]] =
                                      IF home[C] \in Known
                                      THEN Continued(incident[home[C]], C) ELSE Created(C)
         /\ \A i \in IncidentIds \ Active' : /\ members'[i] = {}
                                             /\ outcome.rows[i] = Inactive(incident[i])
  BY <1>1, <1>4, RefreshIs
<1>8. ASSUME NEW C \in clusters, NEW i \in Active, StandsFor(i, C) PROVE home[C] = i
  <2>1. PICK p \in Match(clusters, Existing) : p.cluster = C /\ p.incident.id = i
    BY <1>5, <1>6, <1>8, SettledMatch
  <2>2. QED
    BY <1>7, <2>1
<1>9. Active' = Active
  <2>1. \A i \in Active : \E C \in clusters : StandsFor(i, C)
    BY <1>5 DEF Settled
  <2>2. \A C \in clusters : \E i \in Active : StandsFor(i, C)
    BY <1>5 DEF Settled
  <2>3. \A i \in Active : i \in Active'
    BY <1>7, <1>8, <2>1
  <2>4. \A i \in Active' : i \in Active
    BY <1>7, <1>8, <2>2
  <2>5. QED
    BY <2>3, <2>4
<1>10. RowsFit
  BY DEF IncidentsInv
<1>11. ASSUME NEW i \in Active
       PROVE  /\ members'[i] = members[i] /\ incident'[i] = incident[i]
              /\ snapshots'[i] = snapshots[i]
  <2>1. PICK C \in clusters : StandsFor(i, C)
    BY <1>5 DEF Settled
  <2>2. home[C] = i /\ i \in Known /\ i \in IncidentIds /\ incident[i].status = "active"
    BY <1>8, <2>1 DEF Active, Known
  <2>3. members'[i] = members[i]
    BY <1>7, <2>1, <2>2 DEF StandsFor
  <2>4. PICK row, after : row = incident[i] /\ after = outcome.rows[i]
    OBVIOUS
  <2>5. after = Continued(row, C)
    BY <1>7, <2>2, <2>4
  <2>6. Earliest(C) \in Int /\ Latest(C) \in Int
    BY <1>3, <1>4, ClusterTimes
  <2>7. RowFits(row) /\ row.status = "active" /\ Covers(row, C)
    BY <1>10, <2>1, <2>2, <2>4 DEF RowsFit, StandsFor
  <2>8. after = row
    BY <2>5, <2>6, <2>7, ContinuedCovers
  <2>9. AdoptedAs(outcome, states, i)
    <3>1. i \in Active'
      BY <1>9
    <3>2. QED
      BY <1>1, <3>1, AdoptedRow
  <2>10. incident'[i] = [row EXCEPT !.score = states[i].score]
    BY <2>4, <2>8, <2>9 DEF AdoptedAs
  <2>11. states[i].score =
            Described(incident'[i], members'[i], stored', assets', last').score
    BY <2>9 DEF AdoptedAs
  <2>12. PICK d : d = Described(row, members[i], stored, assets, last)
    OBVIOUS
  <2>13. states[i].score = d.score
    <3>1. /\ incident'[i].x = row.x /\ incident'[i].first = row.first
          /\ incident'[i].last = row.last
      BY <2>4, <2>8, <2>9 DEF AdoptedAs
    <3>2. \A s, r, k, t : Described(incident'[i], s, r, k, t) = Described(row, s, r, k, t)
      BY <3>1 DEF Described
    <3>3. Described(incident'[i], members'[i], stored', assets', last') = d
      BY <2>3, <2>12, <3>2
    <3>4. QED
      BY <2>11, <3>3
  <2>14. row.score = d.score
    BY <2>4, <2>12 DEF SettledInv, Scored
  <2>15. incident'[i] = row
    <3>1. row = [ status |-> row.status, x |-> row.x, first |-> row.first, last |-> row.last,
                  score |-> row.score ]
      BY <2>7 DEF RowFits
    <3>2. [row EXCEPT !.score = row.score] = row
      BY <3>1
    <3>3. QED
      BY <2>10, <2>13, <2>14, <3>2
  <2>16. snapshots'[i] = snapshots[i]
    <3>1. ~ProtectedTablesEmpty
      BY <2>2 DEF ProtectedTablesEmpty
    <3>2. states = outcome.states
      BY <1>2, <3>1
    <3>3. /\ DOMAIN outcome.states = {j \in IncidentIds : outcome.rows[j].status = "active"}
          /\ \A j \in DOMAIN outcome.states : outcome.states[j] =
                Described(outcome.rows[j], outcome.members[j], readings, known, at)
      <4>1. outcome \in Outcomes(readings, known, at)
        BY <1>2
      <4>2. PICK all : all = Clusters(CurrentFires(readings, at))
        OBVIOUS
      <4>3. PICK h \in [all -> IncidentIds] :
               /\ DOMAIN outcome.states =
                     {j \in IncidentIds : outcome.rows[j].status = "active"}
               /\ \A j \in DOMAIN outcome.states : outcome.states[j] =
                     Described(outcome.rows[j], outcome.members[j], readings, known, at)
        BY <4>1, <4>2, OutcomeIs
      <4>4. QED
        BY <4>3
    <3>4. /\ i \in DOMAIN outcome.states /\ outcome.members = members'
          /\ outcome.states[i] =
                Described(outcome.rows[i], outcome.members[i], readings, known, at)
      <4>1. outcome.rows[i].status = "active"
        BY <2>2, <2>4, <2>8
      <4>2. i \in DOMAIN outcome.states
        BY <2>2, <3>3, <4>1
      <4>3. outcome.members = members'
        BY <1>2 DEF Adopt
      <4>4. QED
        BY <3>3, <4>2, <4>3
    <3>5. states[i] = d
      BY <1>2, <2>3, <2>4, <2>8, <2>12, <3>2, <3>4
    <3>6. PICK chain : chain = snapshots[i]
      OBVIOUS
    <3>7. chain # <<>> /\ IsRow(Last(chain))
      BY <3>6 DEF SettledInv
    <3>8. d = [Last(chain) EXCEPT !.name = ""]
      <4>1. Listed[i] = Last(chain)
        BY <3>6 DEF Listed
      <4>2. QED
        BY <2>4, <2>12, <4>1 DEF ChainsInv, SnapshotCurrent
    <3>9. Extended(chain, d) = chain
      BY <3>7, <3>8, ExtendedStays
    <3>10. snapshots'[i] = Extended(snapshots[i], states[i])
      BY <1>2, <2>2, <3>2, <3>4 DEF Adopt
    <3>11. QED
      BY <3>5, <3>6, <3>9, <3>10
  <2>17. QED
    BY <2>3, <2>4, <2>15, <2>16
<1>12. ASSUME NEW i \in IncidentIds, i \notin Active
       PROVE  /\ members'[i] = members[i] /\ incident'[i] = incident[i]
              /\ snapshots'[i] = snapshots[i]
  <2>1. i \in IncidentIds \ Active' /\ incident[i].status # "active"
    BY <1>9, <1>12 DEF Active
  <2>2. members'[i] = members[i]
    BY <1>7, <1>12, <2>1 DEF IncidentsInv, EachDetectionOnce
  <2>3. outcome.rows[i] = incident[i]
    BY <1>7, <1>10, <2>1, InactiveStays DEF RowsFit
  <2>4. i \notin DOMAIN states
    <3>1. Active' = DOMAIN states
      BY <1>1, <1>2, <1>10, AdoptedFits DEF StepFrom
    <3>2. QED
      BY <1>9, <1>12, <3>1
  <2>5. incident'[i] = outcome.rows[i] /\ snapshots'[i] = snapshots[i]
    BY <1>2, <2>4 DEF Adopt
  <2>6. QED
    BY <2>2, <2>3, <2>5
<1>13. SettledInv'
  BY SettledStep
<1>14. incident' = incident
  <2>1. incident' = [i \in IncidentIds |-> incident'[i]]
    BY <1>13 DEF SettledInv
  <2>2. \A i \in IncidentIds : incident'[i] = incident[i]
    BY <1>11, <1>12
  <2>3. QED
    BY <2>1, <2>2 DEF SettledInv
<1>15. members' = members
  <2>1. members' = [i \in IncidentIds |-> members'[i]]
    BY <1>13 DEF SettledInv
  <2>2. \A i \in IncidentIds : members'[i] = members[i]
    BY <1>11, <1>12
  <2>3. QED
    BY <2>1, <2>2 DEF SettledInv
<1>16. snapshots' = snapshots
  <2>1. snapshots' = [i \in IncidentIds |-> snapshots'[i]]
    BY <1>13 DEF SettledInv
  <2>2. \A i \in IncidentIds : snapshots'[i] = snapshots[i]
    BY <1>11, <1>12
  <2>3. QED
    BY <2>1, <2>2 DEF SettledInv
<1>17. QED
  BY <1>14, <1>15, <1>16

\* A refresh at the same reference over the same readings and assets changes nothing, whatever
\* was stored and matched before: no incident changes hands, no row is touched and no snapshot
\* is added (refresh_incidents, _match_existing_incidents, _reuse_or_create_snapshot).
THEOREM RefreshesAreIdempotent == IncidentsSpec => RepeatIsIdle
<1>1. ASSUME IncidentsInv, ChainsInv, ShownInv, SettledInv, [IncidentsNext]_incidentVars
      PROVE  [stored' = stored /\ assets' = assets /\ last' = last =>
                 UNCHANGED <<incident, members, snapshots>>]_incidentVars
  BY <1>1, RepeatStays
<1>2. QED
  BY <1>1, IncidentsInitially, IncidentsStep, ChainsInitially, ChainsStep, ShownInitially,
     ShownStep, SettledInitially, SettledStep, PTL DEF IncidentsSpec, RepeatIsIdle
=============================================================================
