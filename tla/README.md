# A verification project for WildfireOps

WildfireOps is a FastAPI service over PostgreSQL/PostGIS, an ingestion worker
and a React client. The worker polls fire and weather feeds and derives
incidents and their snapshots. Operators use the result in two ways. In *live
planning* they pin a scenario to an incident snapshot, have a recommendation
computed and decide on it, while the worker keeps taking new snapshots. In a
*decision exercise* they play a fixed three-checkpoint session: choose an
objective, generate a plan, advance, override, approve.

This directory holds TLA+ models of the parts of the program in which
transactions, retries, messages, files and operators meet, and of the
algorithms whose results they exchange; TLC runs on small instances; and TLAPS
proofs. `PROJECT.json` maps each definition to the source lines it models.
Paths below are relative to `backend/src/wildfireops/` unless they start with
`frontend/` (for `frontend/src/`) or `docs/`.

## 1. Inventory

| Component | State | Operations | What makes it correct |
|---|---|---|---|
| Exercise session service (`application/exercises.py`) | session row (version, checkpoint, objective, status, consequences), audit events | create, select-objective, advance, approve-plan; session, audit, debrief reads | one serial history per session; offered actions are accepted ones; approval only of the validated override; read-only after expiry |
| Exercise planning (`application/exercise_planning.py`) | plan runs, `lastPlanId` | generate-plan, apply-override, stateless sandbox plan, start-up validation | planned on the row that is committed; overrides freeze their inputs and never get stuck; stored reasons and changes are true |
| Exercise persistence (`persistence/exercises.py`, `exercise_models.py`) | tables, `FOR UPDATE` row lock | lock, save, latest/list queries | latest plan per checkpoint and per session agree where the code needs it |
| Idempotency (`persistence/scenarios.py`) | `idempotency_keys` rows | claim (waits for an uncommitted holder), complete | a request under one key takes effect once |
| Exercise API (`api/routes/exercises.py`, `api/errors.py`) | none | routes; 409 bodies with the current session | every call ends; bodies are consistent enough to act on |
| Transaction scopes (`application/commands.py`, `api/dependencies.py`) | one transaction per call | begin, commit before the response is sent, roll back | no lock outlives its call |
| Scenarios (`decision/scenarios.py`, `persistence/scenarios.py`) | scenarios, immutable versions with overlays | create, add version | a version extends the latest one; overlays name known resources and roads |
| Recommendations (`decision/recommendations.py`, `persistence/recommendations.py`) | recommendations with input digest | generate | computed only from current inputs; reasons for what is not covered are true |
| Decisions (`decision/commands.py`, `persistence/decisions.py`) | terminal decisions, active assignments, audit events | approve, edit, reject | one decision per recommendation; no unit sent twice; nothing sent on overtaken inputs; an edit obeys the solver's rules |
| Sources (`sources/firms.py`, `nws.py`, `http.py`) | none | turn a response into a batch, quarantined rows or a failure | every row is accounted for; no reading out of range |
| Ingestion (`ingestion/service.py`, `ingestion/worker.py`) and observation store | observations, quarantine, source status | poll, retry, store, resolve a reference time, refresh, record failure | a reading is accepted once; incidents are derived from all that is committed; freshness is not overstated |
| Incident matching and refresh (`persistence/incidents.py`, `exposures.py`, `geospatial/clustering.py`) | incidents, members, snapshots | cluster, match, create, close, snapshot or reuse one | each cluster goes to one incident, whatever the order; the latest snapshot is what the readings say |
| Risk (`decision/risk.py`) | none | score, factors | factors present exactly for what was observed |
| Notifications and event relay (`persistence/notifications.py`, `api/postgres_events.py`, `api/event_bus.py`) | bounded queue per subscriber, listener connection | notify on commit, publish, resync, stream | a subscriber that misses an event is told to resynchronise, and a screen that lags is told to ask again |
| Road graph (`geospatial/road_graph.py`, `replay/manifest.py`) | graph file, manifest, journal, route cache | build and publish, recover, load, route | a pinned graph is the file that was built, whatever is killed; a cached route is the route |
| Task and allocation optimizers (`decision/task_optimizer.py`, `decision/optimizer.py`, `task_explanations.py`) | none | solve with CP-SAT, canonical order, explain | capacities, locks and eligibility respected; explanations agree with the answer |
| Read API (`persistence/read_queries.py`) | none | incident list, timeline, detail, source freshness | reads what is current |
| Exercise client (`frontend/api/exerciseHooks.ts`, `idempotency.ts`, `frontend/exercise/`) | idempotency intent, query cache, stored session id | send, settle, adopt, refetch, restart | one key per intent while the outcome is unknown |
| Monitor client (`frontend/monitor/`, `frontend/features/scenarios/`, `frontend/api/hooks.ts`) | event stream, caches, planning session, stale latch | refetch, plan, save a branch, latch | a plan once seen overtaken stays marked; late answers do not mix sessions |
| Replay data, configuration, migrations, panels | fixed files, settings | validate, load, seed, render | — |

**How they interact.** The server's parts meet in PostgreSQL. An exercise call
and another one meet on an idempotency key and on the session row. Planning
calls and ingestion runs meet on the incident refresh advisory lock, on the
scenario, incident, recommendation and resource rows, and on keys. The worker
reaches API clients through `pg_notify`, one listener connection, a bounded
queue per subscriber and an event stream. The clients reach the API through
calls that may be lost on either way and are then resent under the same key.
The graph build meets other writers of a replay package on a lock file and the
loader on the file system.

The hard behaviours are listed with their lines under "hazards" in
`PROJECT.json`: seconds of solver time between reading and writing a row, two
readings of the clock, two-statement reads without a lock, concurrent retries,
lock orders over five kinds of locks, inputs overtaken between two checks, runs
that commit out of the order of their attempts, lost notifications, kills
between two file operations, answers that arrive after the page moved on.

## 2. Modules

| Module | Role |
|---|---|
| `ExerciseRules` | pure operators: what each exercise command refuses (in the handler's order), what it writes, what a projection offers |
| `ExerciseWorkflow` | abstract specification: the rules applied one whole command at a time |
| `ExerciseSessions` | the service: calls, keys, row lock, expiry, retries, drops, torn reads; implements `ExerciseWorkflow` |
| `TaskAllocation`, `TaskExplanations` | pure operators: eligibility, locks, the plans the solver may answer; binding constraints, reasons and changes |
| `ExercisePlanning` | the exercise with the data of its plans; implements `ExerciseWorkflow` |
| `Dispatch` | abstract specification of live planning: scenarios, snapshots, recommendations and decisions as atomic steps |
| `DispatchService` | the same as transactions that take locks statement by statement; implements `Dispatch` |
| `LivePlanning` | the same with overlays, weather, risk, cached routes and solved plans; implements `Dispatch` |
| `SourceFeeds` | pure operators: what an adapter makes of a response |
| `Ingestion` | runs of the worker as transactions, with failures, crashes and two processes |
| `IncidentMatching`, `RiskScore` | pure operators: clusters, which incident each continues; weather chosen, factors and score |
| `Incidents` | refreshes one after another: incidents, members, snapshots, seeding, replays |
| `ChangeFeed` | abstract specification: a change is on the screen or owed to the client, with the two exceptions of section 4 |
| `EventRelay` | notification, listener, queues, streams and queries in between; implements `ChangeFeed` |
| `PackageRelease` | abstract specification: a package shows no graph, the graph attached, or files that others tampered with |
| `GraphPublication` | the build, file operation by file operation, with kills and crashes; implements `PackageRelease` |
| `RoadNetwork` | pure operators: the least open route |
| `RoadRouting` | pure operators: the heap search that computes it, turn by turn |
| `IdempotencyIntent` | pure operators: the browser's memory of a command in doubt |
| `ExerciseClient`, `PlanningSession` | the exercise tab and the planning workspace of the monitor |
| `ExerciseWorkflowProofs`, `ExerciseSessionsProofs` | theorems about the exercise: rules, workflow, concurrent service |
| `PlanningProofs` | theorems about planning with its data, `ExercisePlanning` and `LivePlanning` |
| `DispatchServiceProofs` | theorems about `Dispatch` and about the transactions that implement it |
| `EventRelayProofs`, `GraphPublicationProofs`, `IngestionProofs` | theorems about the events, the files, the worker and the incidents it derives |
| `ClientProofs` | theorems about the exercise tab and the planning session |
| `MC…` | request sets, readings, road networks and scripts of the runs |

Six refinements tie levels together: `ExerciseSessions` and `ExercisePlanning` each
implement `ExerciseWorkflow` (one for concurrency, one for data),
`DispatchService` and `LivePlanning` each implement `Dispatch` (same split),
`EventRelay` implements `ChangeFeed`, and `GraphPublication` implements
`PackageRelease`. An operator marked "Faulty" is a deliberately broken
variant of the definition that follows it: a dropped row lock, a swapped order,
an unscoped key. Each property a run checks is shown to fail under at least one.

### Exercise

The variables of `ExerciseSessions` are the tables: `session` (one row of
`exercise_sessions`), `plans` (`exercise_plan_runs` in insertion order),
`events` (`exercise_events`, indexed by resulting version), `claims`
(`idempotency_keys`, by scope and key). `late` says whether the clock has
reached `expires_at`, and `calls` holds what each HTTP call is doing.

A call goes through the statements of its transaction that other calls can
tell apart:

1. `SendCommand` — the client sends, or resends, a request.
2. `Claim`, `Replay`, `RefuseKeyReuse` — the insert into `idempotency_keys`. It
   waits while another transaction holds the key uncommitted (`KeyFree`).
3. `Lock` — `lock_session`, then the checks of `lock_command`: expired, not
   active, wrong version.
4. `Refuse` or `Commit` — the handler on the row it loaded. `Commit` writes plan
   run, row, event, response and claim together. The response snapshot reads the
   clock again, and so does the model.
5. `ReadSession`, `ReadPlans` — the two statements of a GET, and of the body of
   a 409.

`Drop` is a lost connection or a crash at any point of it; it rolls back. A
crash of the whole API is several of them. Plan contents are reduced to
what later commands look at: checkpoint, objective, corridor state, solved or
not, whether a crew clears the corridor, whether it is an override. The solver
may return any outcome that its statuses allow.

### Planning data

`TaskAllocation` states the problem both optimizers solve: which pairs of
resource and task are eligible, when locks are refused, and which plans each
solver status allows (a best one, any feasible one, none). The search of CP-SAT is
external. `TaskExplanations` translates the binding constraints, the reasons for
uncovered tasks and the changes against the previous plan.

`ExercisePlanning` materialises the checkpoints of a definition, routes over
`RoadNetwork`, solves and explains; `session` and `runs` move by
`ExerciseRules`, and `Abstract` maps the runs to those of `ExerciseWorkflow`.
`ValidRuntime` is the validation at start-up: `Init` chooses only definitions that
pass it, so `OverrideNeverStuck` says that the validation is strong enough.
`preview` is one sandbox response; which `session.version` a sandbox request
names changes nothing in its answer and is left out.

### Live planning

`DispatchService` gives each request its list of lock groups in statement order
(`Locks`). `Acquire` takes the next group when nobody holds any of it, `Pass`
or `Refuse` runs the checks that follow that statement, and the `Store`
actions write and commit. So a check and the write it
protects are separate steps, with everything other transactions may do
between them.

| Request | Locks, in order |
|---|---|
| create a scenario | key, incident row |
| add a version | key, scenario row |
| generate a recommendation | key, refresh lock, scenario row |
| approve or edit | key, recommendation row, refresh lock, scenario row, resource rows |
| reject | key, recommendation row |
| ingestion run | refresh lock, incident row |

`release` stands for the graph, risk and allocation versions deployed; `Redeploy`
restarts the API with another one and kills its calls. Snapshots are
numbers; the input digest of a recommendation is the triple of scenario version,
snapshot and release. An overlay is the set of units it makes unavailable. Road
closures, weather and routes are data: where a check on them may refuse, the
model may refuse (`DataRefusals`).

`LivePlanning` has that data and no locks. A version overlays closed roads,
winds and units on its pinned snapshot; `Recommend` scores the risk under the
overlay (`RiskScore`), routes over the open roads, builds the allocation request,
takes any answer of the solver and derives the binding constraints, each route asked of the
graph's cache (`Searched`), which outlives the recommendation; `Decide`
approves, rejects or edits it. Mapped to the units alone, it implements
`Dispatch`, which is what justifies the `DataRefusals` of the level above. One
release runs here.

### Ingestion and incidents

`Ingestion` follows `run_source`: fetch with retries, then one transaction under
the advisory lock (`Acquire`, `Store`, `Resolve`, `Refresh`, `Commit`), and after
any failure a second one (`RecordFailure`). `Abort` fails any statement;
`LoseCommit` commits and loses the acknowledgement, after which the code records a
failure for what is stored; `Crash` stops a process with its transactions. A
response is a member of a set with one row of each kind the parsers tell apart
(`SourceFeeds`): in range, at and past the boundary, blank, text, infinite,
naive and extreme times, duplicates by rounding.

`Ingestion` shows that refreshes are serialized and see every committed reading.
`Incidents` therefore makes a run one step and looks inside the refresh: DBSCAN
over space and time, expiry, matching by distance with ties by id, closing,
snapshots stored or reused, and the weather and exposure each is scored with.
Detections lie on a line: the projection to metres is external and keeps
distances, and a line already has fires that spread, split, merge and tie.

### Events

`EventRelay` has versions of three kinds of topics, each with a query of its own: the
incident list, each incident (its detail, or its timeline) and the source statuses. An ingestion
(`CommitIngestion(A, C)`) leaves the incidents `A` active, those in `C` with a new snapshot, and
notifies as the code does: of every active incident, then of the source. The list shows
active incidents only, so closing one changes it as well. A failed run (`RecordFailure`) changes and tells of the
source statuses alone. The model follows a notification over the
listener's connection to the queue of each subscriber, its event stream and the
queries the browser then repeats (`Asks`: an incident's event stands for the incident and the list). The
queries are TanStack Query's: asked again, one that is under way is cancelled if it has data already and
joined if it has none (`Joins`); one off screen is only asked for when it is put on screen again (`Select`,
which aborts those that leave; their data never counts as fresh). `joined` is a history variable: the first answers that
had been read when the browser was told to ask for them. The listener registers in three steps
(`Connect`, `Listen`, `Register`), each of which may find the connection gone; a
payload may be undecodable; a full queue collapses to `resync-required`; streams
are cut; the API restarts; requests fail. `ImplementsFeed` maps all of it to
`ChangeFeed`: a client whose screen is behind is owed the change by something still under way, or its
query has visibly failed, or it is one of the two exceptions. Cached data of queries off screen is never
collected in the model, where the browser does so after minutes.

### Road graph

`GraphPublication` makes each file operation of the build a step of its own:
journal linked, graph linked, manifest replaced, journal moved, each with its
fsync. `dir` is the directory as processes see it, `disk` the states it may come
back with after `MachineCrash`, entry by entry. A kill leaves the directory as it
is and frees the lock; `Recover` is what the next build does first. The other writer of the manifest
replaces it under the lock in one step (`WriteAtomic`, `replay/manifest.py:235`) and syncs it in another
(`SyncWrite`, `:241`), with nothing synced before; in between it may be killed or fail (`WriterDies`) and the
machine may crash. `kept` holds the revisions whose write returned. `Stage` includes the fsync of
the staged file. A link of the graph that fails, whatever for, takes the journal back. Not in the model: the exchange of a whole package directory,
other bounding boxes, edits of the journal by hand, and manifest edits that
bypass the lock.

`RoadRouting` is the heap search: pop the least label, settle its node or drop it,
push a label for each open edge. `LivePlanning` routes by it through the cache
of the graph, and `CachedRoutesHold` compares every cached route with
`RoadNetwork`'s definition of the least one (minutes, then edges, then edge ids).
`ExercisePlanning` uses that definition directly. Minutes are whole ticks, so
rounding of float sums is not in the model.

### Clients

`IdempotencyIntent` is the browser's memory of a command: signature, key, attempt.
`ExerciseClient` composes it with the query cache, the stored session id and a
server reduced to what a tab can observe (a version per session, the response
stored per key). Requests are served in any order, answers are lost
(`Lose`), cut so that a success cannot be read (`Garble`) or so that a conflict brings no session to adopt
(`CutRefusal`), a request outlives a reload, a query answers
late and overwrites the cache, a duplicate of the tab works on the session (the id is in sessionStorage, which a
duplicated tab takes along), a button is pressed again before it is drawn disabled (`pressed`). An answer and the render
that follows it are one step. Expiry is not here; a restart is reached over the
debrief or a session that fails to load.

`PlanningSession` is the planning workspace: `snap` and `stored` on the
server; `shown`, `fetch`, `token` for the incident on screen; `plan` and `gen`
for the session and its generation; `intents`, `observed`, `requests` for its three mutations.
`owed` stands for what `EventRelay` shows (`NoSilentLag`): a committed snapshot of an incident whose detail is on
screen is followed by an event or a refetch. The model starts with the newest detail on screen: a first answer
that was overtaken before it was shown (`joined`, section 4) is not in it. `gen` is one counter for all sessions, where
the code keeps one per mount. The decision form and the map selection are not in it.

## 3. Runs

All runs use TLC; every bound is a named constant, an explicit request set or a
*script*. Several `MC` modules have a variable `script`, chosen in the initial
state and never changed, that bounds what a behaviour may ask for: one run
then covers several small instances, each rich in one direction, where
one instance rich in all of them would be out of reach.

| Run | Question and bounds | States |
|---|---|---|
| `exercise_sessions` | the concurrent exercise: two calls, four keys; script *Opening* has two operators race at the first checkpoint, *Closing* goes on to the override and the approval | 190,000 |
| `exercise_retry` | is a retry always answered with the stored response? No, see section 4 | found at once |
| `exercise_planning` | whole guided exercises in two towns with every solver status; sandbox plans under every control of `SandboxControls` | 12,000 |
| `dispatch_service` | two calls and one or two ingestion loops over one unit; scripts *Loops*, *Planning*, *Staleness* (two releases), *Overlaid* (a version without the unit), *Conflict* (two recommendations) | 600,000 |
| `dispatch_live` | two calls and a loop contending for every lock: each task ends | 28,000 |
| `live_planning` | three nodes, five roads (two parallel, one tie), three units; script *Racing* has two scenarios and two snapshots, *WhatIf* every closure, wind, unit and limit | 43,000 |
| `ingestion` | scripts *Worker* (two loops, faults and crashes), *Feeds* (every kind of response), *Pair* and *FaultyPair* (two workers on one source, a replay, a clock set back) | 84,000 |
| `incidents` | scripts *Line* (live runs alone: six fires in two groups that a late one joins and its expiry parts) and *Wind* (seeding, replays, weather and assets) | 7,800 |
| `event_relay` | one client whose screen has the list or the sources, one incident put on screen or taken off three times, a queue of two, three versions, one fault | 600,000 |
| `graph_publication` | two builders, two outputs, three faults, two manifest revisions, one file of others | 470,000 |
| `exercise_client` | scripts *Troubled* (four attempts, three mishaps) and *Patient* (eight attempts, a cut success); a cut refusal is a mishap | 377,000 |
| `planning_session` | two snapshots, two sessions, four attempts, two mishaps | 304,000 |

**Why the bounds suffice.** *Exercise:* ten versions reach the approval and leave room
for each detour at each checkpoint: replanning, a changed objective, a plan without a
solution. *Locks:* conflicts in the code are between two transactions at a time: a lock
has one holder, a check compares with one row. Two calls and a source already give
three parties, enough for a waiter, a holder and the one who overtakes both. One
unit is the worst case for conflicts over units. `dispatch_service` has one scenario; that no unit is sent twice
from two scenarios is checked in *Racing* of `live_planning`, and proved for any number (`NothingIsSentTwice`). The script *Loops* has two
sources since two ingestion runs are what could store one snapshot number twice.
Calls are symmetric and declared so in `dispatch_service`, which checks no liveness. *Ingestion:* three runs
give one that is overtaken, one that overtakes it and one that reads what they
left; one fault suffices since every fault ends its run. *Incidents:* two clusters and
three ids are enough for a tie, a split and an incident left behind. *Events:*
each subscriber has a queue and a stream of its own and shares only the listener, so
one client is enough, and each query a state of its own, so the list and the sources are put on its screen one at a
time, each beside an incident; three versions leave room for a change that is lost, one that is told of and one that
overtakes its answer, and for an incident that closes and comes back; a queue of two overflows at the third message. Any one fault: a connection, a stream, a
process, a request or an undecodable payload; `NothingLagsSilently` is for any number of each. *Publication:* four
staged files and three faults cover a fault in the build, one in its recovery and
one in the recovery of that, or a killed build, a write over what it left and a crash before that is
synced; two revisions are one that a crash takes and one that returned, or one lost to another. *Routing:* the ring has two parallel roads, a tie, a
loop of two roads and, once closed, an unreachable node. *Planning data:* the towns have a
task nobody can do, a resource two tasks want, and penalties on either side of
travel costs; `IntMax` is set to where the instance's sums end, so that an overflow
could happen; `Limits` lie on both sides of the routes. *Clients:* `MaxMishaps` is one
budget for lost calls, cut refusals, reloads, a duplicated tab and failed queries, so *Troubled* allows any three of
them in a row; *Patient* has attempts enough for every command, with one mishap and one cut answer on the way.

### The properties

Several properties are conjunctions of named parts, each of which its module
states and explains by itself; the run checks the conjunction.

*Exercise service* (`exercise_sessions`). `AuditTrail`: events form one chain
ending in the committed row. `ExactlyOnce`: retries and crashes. `OffersHonoured`: a
torn read is harmless while its version is current. `ExpiredIsFinal`.
`ImplementsWorkflow` ties it together: the concurrent service refines the
serial one. `EveryCallEnds` is its liveness.

*Planning data* (`exercise_planning`).

| Property | Parts | What it says |
|---|---|---|
| `ValidationSound` | `LocksHeard`, `ValuesFit` | locks are refused exactly when no plan honours them, though the code decides it by counting deficits; no sum leaves the solver's integers |
| `ExplanationsTrue` | `ReasonsSound`, `EvidenceAgrees`, `TradeoffReal`, `ChangesReproduce` | the reasons are derived after the search by code that does not see it, and still are true of it; the stored changes turn one run into the next |
| `OverrideSound` | `OverrideNeverStuck`, `OverrideCosts` | the start-up validation leaves an override to choose, which costs something against its frozen input |
| `WorkflowSound` | `ApprovedPlanIsFinal`, `CheckpointsEarned`, `PlanningInputHolds`, `LatestPlanIsCurrent`, `OffersMatchRules` | the session row agrees with the plans it came by; two different "latest plan" queries may be mixed; the projection offers what the handlers accept, and nothing else |
| `OverrideFreezesInputs` | | from a validated override only its approval leads on |

*Live planning* (`dispatch_service`, `dispatch_live`, `live_planning`).

| Property | Parts | What it says |
|---|---|---|
| `LockingSound` | `TasksFit`, `LocksExclusive`, `ChecksStillHold`, `NoCircularWait` | no lock is held twice; at each step of a transaction, every check it made would come out the same again; nobody waits in a circle |
| `DispatchSound`, `SupersededIsFinal` | `NoDoubleDispatch`, `DispatchWithinPlan` | stated by `Dispatch`, checked on `DispatchService` through its mapping; `ImplementsDispatch` carries them to `LivePlanning` |
| `ExactlyOnce` | | as above, over four kinds of commands |
| `PlansSound` | `LimitsExplained`, `RestrictionCosts`, `EditsArePlans` | reasons are true; a harder version never looks better; the rules of an edit, written a second time in the decision service, are those of the solver |
| `CachedRoutesHold` | | a route out of the graph's cache is the least one under these closures |
| `EveryTaskEnds` | | nobody waits for ever |

*Ingestion and incidents* (`ingestion`, `incidents`).

| Property | Parts | What it says |
|---|---|---|
| `StoreSound` | `OneRowPerIdentity`, `AcceptedOnce`, `DerivedMatchesStore`, `FreshIsRecent` | each reading stored and counted once, incidents of all that is stored; holds through runs that commit in another order than they were attempted, and crashes; freshness needs a clock that is never set back |
| `NothingGoesBack` | `LiveRefreshForward`, `AttemptsForward` | neither the reference of live runs nor the attempts shown go back (the second with one loop per source, as deployed, and such a clock) |
| `EveryRowCounted` | | what an adapter is given it stores or quarantines |
| `RunsEnd` | | every run ends, whatever the source answers |
| `EachDetectionOnce`, `IncidentsContinue`, `RepeatIsIdle` | `ContinuesStably`, `TimesWiden` | matching: each detection in one incident, each incident continued by the cluster it should be, nothing written by a repetition |
| `ShownTrue` | `SnapshotCurrent`, `NewestWeather`, `WindMeansDownwind`, `NameKept`, `LiveTimelineInOrder` | what readers are shown (a replay may be older than what is there, so the timeline is in order only without one) |

*Events and files* (`event_relay`, `graph_publication`).

| Property | Parts | What it says |
|---|---|---|
| `RelaySound` | `NoSilentLag`, `MarkerEndsQueue`, `OvertakenAnswersOwed` | a screen that lags is owed the change, but for the two exceptions; a full queue ends in its marker; an answer that was overtaken on its way is not what the change rests on |
| `ImplementsFeed` | | only the newest version settles what is owed to a client (or its first answer, or the list when no incident is active), and no answer takes a screen back |
| `EveryChangeShown` | | in the end the change is on the screen, unless its query failed, is off screen, or is one of the exceptions |
| `FilesSound` | `CrashLeavesAPast`, `ReturnedWritesStay`, `NeverStranded`, `RefusalRestores` | after a crash graph files, journal and pin are as they were together at one moment, never a mixture; a revision whose write returned is there; no build can fail for ever on a file no manifest pins; a refusal leaves nothing |
| `NothingLost` | `WorkKept`, `ForeignKept` | nobody's files or revisions are lost to another's work |
| `EventuallyPinned` | | an interrupted build is finished or taken back |

`write_atomic` replaces the manifest over whatever a killed build left unsynced, so a crash before its
fsync can bring the manifest of one moment beside the files of another: the revisions it carries
may be older or newer, and one that was visible may go. That is why `CrashLeavesAPast` speaks of the
pin and not of the revisions, and why `WorkKept` excepts a crash. `ReturnedWritesStay` says what is left of it.

`NeverStranded` and `EventuallyPinned` say nothing once others have put a
file of their own at an output, where the build refuses by design, nor `EventuallyPinned` once
the manifest was rewritten beside an interrupted build, where the recovery does.

*Clients* (`exercise_client`, `planning_session`).

| Property | Parts | What it says |
|---|---|---|
| `ClientSound` | `OncePerAim` | one thing the operator wants happens at most once, under loss, reload, double click and a duplicated tab, as long as each answer arrives whole or not at all |
| `OperatorFinishes` | | an operator who keeps trying reaches the approval |
| `SessionSound`, `StaleStaysMarked` | `StalenessOwed`, `SessionCoherent`, `OneScenarioPerSession` | what may be acted on is current or about to be marked, a mark stays, and a session holds one scenario |

### Fairness

Each `FairSpec` assumes only what the code's scheduling gives.

- *Transactions* (`ExerciseSessions`, `DispatchService`, `Ingestion`): weak fairness of
  the steps of a transaction that waits for nothing, strong fairness of acquiring
  a lock, because PostgreSQL queues waiters and grants a lock that is
  released again and again to each of them in turn. In `Ingestion` a request is also answered or times
  out. Nothing is assumed of clients, polls, drops or faults.
- `EventRelay`: the relay's loop reconnects, drains and cleans up (`RelayStep`); browsers reopen a cut
  stream, as `EventSource` does, and handle its events (`StreamStep(c)`); each query is read and answered
  (`QueryStep(c, t)`). Nobody has to commit, to select an incident or to press a button;
  `EveryChangeShown` excludes a query that ended in an error, since the client does not retry queries.
- `GraphPublication`: an interrupted build is run again for its output, and a run, or a write, goes on
  unless killed. Faults are finitely many.
- `ExerciseClient`: requests are served and answered, queries end, and the
  operator keeps pressing what is offered, or starts anew where nothing could be loaded.

## 4. Disagreements with the documentation

*A retry can fail (`exercise_retry`).* `lock_command` checks the clock when it
admits a command (`application/exercises.py:594`); the stored response reads it
again (`application/exercises.py:534`, `application/exercise_planning.py:1048`). If the
session expires between the two, the response says `expired` beside an
after-state that says `active`. The first call succeeds; each identical retry
fails `_validate_replay_snapshot` and ends in a server error. The design document
says: "Reused idempotency keys with identical requests replay the original
response"
(`docs/superpowers/specs/2026-07-24-park-fire-decision-exercise-design.md:606`).

The following six were met while modelling and are in the models, where the properties that
do hold are stated around them; no run is devoted to them.

*A 409 can show two versions at once.* Its body is read by two
statements without a lock (`api/errors.py:135`); a commit between them pairs
the row of one version with the plans of the next. The same document (line 610)
promises "current session state and allowed actions". `OffersHonoured` shows what
still holds: such a body never offers a refused command at a current version.

*A cut success gives up the key.* A 2xx whose body
cannot be read becomes an `invalid_response` error (`frontend/api/exerciseClient.ts:228`), which
`isRetryable` (`frontend/api/exerciseHooks.ts:188`) takes for a final refusal. The
key is dropped although the command was executed, and the unchanged retry mints a
new one: after create-session, a second session. The repository's `README.md:106-108` says:
"Idempotency keys are caller-owned and canonicalised — an unchanged retry reuses
its key; a changed body mints a new one."

*A late answer undoes a restart.* "Start a new exercise"
clears the stored session and resets the mutation
(`frontend/exercise/ExerciseWorkspace.tsx:242`), but the hook's own handlers
(`frontend/api/exerciseHooks.ts:105` and `:114`) still adopt the session of a command answered
afterwards. The old exercise is back, and stored, although the page said "a new run
starts from the first checkpoint." (`ExerciseWorkspace.tsx:314`).

*A late answer takes back a branch.* A create
pressed twice before the button is drawn disabled sends two calls under one key. Once
the second has settled and a branch was saved, the first one's answer passes
`isActiveSession`, which compares the session's generation only, and sets the
latest version back to the baseline
(`frontend/features/scenarios/useScenarioPlanning.ts:261`). The repository's `README.md:114`
says: "Late responses are refused so they cannot resurrect a superseded plan."

*Closing the last incident tells nobody.* `refresh_incidents` closes what no cluster
continues (`persistence/incidents.py:133`), and snapshots are made of active incidents only
(`persistence/exposures.py:150`), so only those are notified of (`persistence/notifications.py:34`). As long as one
incident is active, its event has every browser repeat the list as well. When the last one closes, the list becomes empty
(`persistence/read_queries.py:109`) and the only event is the source's, which repeats the source statuses
(`frontend/api/hooks.ts:291`). The monitor shows the closed incident until something else has it ask.
The design document says: "Updated incident identifiers are emitted through the API's
server-sent-event channel. The frontend refetches the affected incident"
(`docs/superpowers/specs/2026-07-16-wildfireops-design.md:273-274`). `Unannounced` is this exception.

*An event can meet a first answer that was already read.* On an event the browser
invalidates its queries (`frontend/api/hooks.ts:239`). A query under way that has no data yet is not cancelled but joined; if the API
had read its answer before the commit, that answer is shown, counts as valid, and nobody asks again. The same holds when the stream opens while the first
queries are under way. The document promises the refetch in the line above. `joined` is this exception: it
ends with the next event, reconnection or visit. `Joins` is external (TanStack Query v5, whose source is not in the repository).

Behaviour met on the way that no document promises otherwise, and that no
property is about:

- A failure after a lost commit shows a source as failed whose readings are stored.
- Two worker processes on one source overwrite each other's status row in any order.
- Rows once quarantined are quarantined again at each poll that repeats them.
- An NWS time that Python cannot hold in UTC fails the whole fetch, where other bad fields quarantine the reading.
- A community without a population fails the refresh of every incident.
- `get_incident` shows a closed incident by its last snapshot, whose state is active.
- `add_version` accepts two winds, or a wind over a snapshot without weather;
  such a version can be saved and never planned.
- A listener connection that dies without a close is polled as open for ever.
- A manifest rewritten between a crash and the recovery makes the recovery refuse for
  good, by design; `EventuallyPinned` excepts it.
- A create whose answer is lost, followed by a reload, leaves a session nobody refers to.
- A decision answered while its panel is closed is offered again, and refused by the server.

## 5. Proofs

TLAPS proves the following for every value of the constants that satisfies the
named assumptions: any number of calls, sources, clients, builders or loops, any
requests and responses, any bound. TLC evaluates each assumption on the instance of a
run. In the table a theorem stands beside the property it states; the runs
check the same property on an instance.

| Module | Theorem | What is proved |
|---|---|---|
| `ExerciseSessionsProofs` | `Invariance`, `TypeCorrectness` | `Spec => []IInv`, `[]TypeOK` |
| | `AuditTrailKept`, `ExactlyOnceKept` | `AuditTrail`, `ExactlyOnce` |
| | `LockedRowCurrent`, `ClaimsAlwaysAnswered` | the row a transaction works on is the committed one; no claim without its event |
| | `ExpiryFinal`, `Refinement`, `OffersAreHonoured` | `ExpiredIsFinal`, `ImplementsWorkflow`, `OffersHonoured` |
| `ExerciseWorkflowProofs` | `OperatorCanTrustSession`, `OverrideIsFrozen` | `WorkflowSound` and `OverrideFreezesInputs` of the abstract workflow |
| `PlanningProofs` | `PlanningIsWorkflow` | `ImplementsWorkflow` with computed plans |
| | `PlanningKeepsPromises`, `OverrideIsFrozen` | `WorkflowSound`, `OverrideFreezesInputs` |
| | `ValidationIsSound`, `ExplanationsAreTrue`, `OverridesAreSound` | `ValidationSound`, `ExplanationsTrue`, `OverrideSound` |
| | `LivePlanningIsDispatch` | `ImplementsDispatch` with computed plans |
| | `PlansAreSound` | `PlansSound`: `LimitsExplained`, `RestrictionCosts` and `EditsArePlans` |
| | `SearchFindsRoutes` | `ShortestRoute = Route`: the heap search of `RoadRouting` finds the least open path of `RoadNetwork`, or that there is none |
| | `CacheKeepsRoutes` | `CachedRoutesHold` |
| `DispatchServiceProofs` | `PromisesKept`, `OvertakenStaysFinal` | the promises of `Dispatch` itself |
| | `LocksDoTheirWork`, `NothingIsSentTwice`, `KeysTakeEffectOnce` | `LockingSound`, `DispatchSound`, `ExactlyOnce` |
| | `TransactionsAreAtomic`, `OvertakenNeverSentOut` | `ImplementsDispatch`, `SupersededIsFinal` |
| `EventRelayProofs` | `NothingLagsSilently`, `FeedImplemented` | `RelaySound`, `ImplementsFeed` |
| `GraphPublicationProofs` | `PackageStaysUsable`, `OthersKeepTheirs`, `ReleaseImplemented` | `FilesSound`, `NothingLost`, `ImplementsRelease` |
| `IngestionProofs` | `StoreStaysSound`, `EveryRowIsCounted`, `ReferencesGoForward` | `StoreSound`, `EveryRowCounted`, `NothingGoesBack` |
| | `DetectionsBelongOnce` | `EachDetectionOnce` |
| | `TimesOnlyWiden`, `RefreshesContinue` | `TimesWiden`, and with the matching `IncidentsContinue` |
| | `RefreshesAreIdempotent` | `RepeatIsIdle` |
| | `ReadersSeeTheTruth` | `ShownTrue`, of the scripted behaviours; its parts `SnapshotCurrent` and `NameKept` of any (`SnapshotsStayCurrent`, `NamesAreKept`) |
| `ClientProofs` | `ClientKeepsPromises` | `ClientSound` |
| | `PlanningSessionIsSound`, `StaleIsForGood` | `SessionSound`, `StaleStaysMarked` |

`ExerciseWorkflowProofs` begins with the lemmas about the rule operators that the
exercise modules share: types of refusals, of what an accepted command writes, of projections.

### Assumptions

| Name | Says |
|---|---|
| `CallsAssumption` | exercise requests are well formed, the followed session's creation key is a key, the bound is a number |
| `ObjectiveAssumption` | there are objectives, and NULL is none |
| `PlanningAssumption` (of `ExercisePlanning`) | definitions are what the models of `replay/exercise.py` let through (29-30, 59-105, 283-310): finitely many resources and tasks, positive needs, capacities and deadlines; each objective has natural weights, the sandbox's factors are positive and "standard" is one of its presets, its controls name an objective |
| `RoadAssumption` | the road graph is finite, its edges join its nodes, minutes are natural |
| `IntMaxAssumption` | the largest sum is a natural number |
| `RequestsAssumption` | planning requests are well formed (their routes validate them), calls are no sources, the stranger's unit is none, there is a key |
| `LiveAssumption` | there are snapshots, each of them what the readers in `decision/recommendations.py` let through (`IsSnapshot`: finitely many units, observations and assets, positive capacities and needs, a direction in degrees; anything else fails the request); an overlay is what `domain/scenarios.py` lets through (`IsOverlay`); limits are not negative, the graph has a node; bounds are numbers |
| `RelayAssumption` | finitely many incidents, queues hold at least one message, markers are no topics |
| `PublicationAssumption` | the values for "no file", "foreign" and "free" are no outputs, digests or builders |
| `IngestionAssumption` | a response has the form its adapter is handed (`FirmsBody`, `NwsBody`, `ReplayBody`); a replay package was validated when loaded and its period is over at time 0; a fetch is tried at least once |
| `IncidentsAssumption` | a history is finitely many rows of the table (`FireRows`, `WeatherRows`: confidence is a percentage, wind comes along the line or across it), the id of a reading is its key; assets are finitely many, their ids keys, a community has a population; a package's readings are part of a history and its end a time; incident ids are finitely many; bounds are numbers, one snapshot at least; the full wind is at most 50, so that the least wind across is still a percent (the code computes with fractions) |
| `ClusteringAssumption` | the window and the other parameters are positive |
| `ClientAssumption` | there are commands, "create" and "none" are none of them, bounds are numbers |
| `PlanningAssumption` (of `PlanningSession`) | the bounds are positive |

That of `RiskScore` bounds the numbers of operators that no proof looks into.

### The arguments

*Exercise service.* None of the safety invariants is inductive alone.
`AuditTrail` survives `Commit` only because the row the transaction loaded is
still the committed one (`LockedRowIsCurrent`), which needs that only one call
holds the row. `ExactlyOnce` survives because a claimed key has no committed
row, and no other call holds it (`HoldersExclusive`). Typing of the writes needs
what the clients can have sent, and that only the creation finds an empty
history (`Origins`). `IInv` is the conjunction; the step proof goes action by
action and, under each, conjunct by conjunct. For the refinement, `Create` and
`Commit` map to a step of `ExerciseWorkflow` and every other action to a
stutter. `OffersHonoured` needs a second invariant about reads: whatever a call
has read of the row is of a version that was committed, and if that version is
still the committed one then so is what it read (`ReadsFit`); the torn body then
offers by a row and plans of one version, or of an overtaken one.

*Workflow.* `WInv` adds to the promises what history makes true: plans are stored
in the order of the checkpoints (`InOrder`), those of a checkpoint were solved for
the road state it still has (`CorridorHolds`), and an override is the last plan of
all (`OverrideIsLast`). That is why the two "latest plan" queries agree although
they look at different sets.

*Planning data.* Each run of `ExercisePlanning` maps to a plan of the workflow,
and what the solver may return maps to the workflow's outcomes, so the
workflow's invariant is inherited. `OverrideNeverStuck` holds because the start-up
validation tries every combination of objective and road state that a session
at the last checkpoint can be in.

*Exercise plans.* A second invariant of `ExercisePlanning` says what is stored and shown
(`RunsInv`): each run answers the request of its own input, which the validation
accepted, and carries the changes against the run before it; a sandbox response
is refused exactly when its request is. Everything else is about one
request (`IsRequest`). Sums and folds over finite sets are reasoned about by a smallest set that fails
(`SmallestOf`), which replaces induction. So `ReasonsSound` needs only that capacity grows with
the resources (`CapacityGrows`) and that everybody who may go can be sent (`CoverableIs`).
For `TradeoffReal` the table kept resource by resource holds, for each capacity
supplied, the least cost of a set that supplies it (`TableFits`); a cover cheaper than the
penalty would make a better plan (`CoverOneTask`). For `LocksHeard` the deficits reached are
exactly those that sets of free resources leave (`ReachedAreBrought`), though the code helps only tasks that
still lack something; a set that leaves none is a plan together with the locks (`HelpIsPlan`), and a plan's own
resources leave none (`PlanIsHelp`). `OverrideCosts` compares plans of one
input: with a lock there are fewer (`PlanUnderFewer`).

*Live planning.* `LivePlanning` maps to `Dispatch` through the units alone: a version to
those it withdraws, a plan to those it sends. Each operation is then the operation of the
same name. What is at stake is that a unit the version withdraws is never sent: by the solver, because
it is not eligible (`EligibleUnits`, `AnswersAre`); by an edit, because the handler checks it
again (`EditsAre`, `AvailableUnits`). `LiveInv` adds that versions name units that
some snapshot knows, and recommendations versions that there are. The cache answers
as searched (`CachedAsSearched`) because the key carries the closures; and what
is searched is the least route (`SearchFindsRoutes`).

*Live plans.* `PlansSound` is about the problem a recommendation's version poses
*now*; the answer was computed when it was stored. `PlansInv` says that the two
are the same: versions and snapshots never change, and the cache answers what a search
would (`AnswerFits`, `AnswerStays`). So each part is about one problem. The limits are true
because capacity grows with the units and nobody is locked (`LimitsAreTrue`). For `RestrictionCosts`, fewer open
roads make no route faster (`FewerClosed`), so the other version's problem is `Tighter`: what it
lets go it lets go no faster, and the rest is equal (`HarderIsTighter`). Each of its plans
is then a plan of the first that costs no more (`TighterCosts`), and both answers are the least.

*The road search.* A node is settled when its best label has left the heap. The invariant of
the loop (`Searching`): every label of the heap and every best label is an open path to its node
(`KnowsBest`); the edges out of settled nodes are taken into account (`EdgesTaken`); the best path to a
settled node is at most any open path to it (`SettledLeast`). Any path to a node that is not settled
first leaves the settled ones at a label of the heap that is no longer than it (`QueueMeets`), so the least label,
unless it is outdated, is least of all (`FreshLeast`). That needs an order of paths which an edge more
keeps and only increases: minutes, then the number of edges, then the edges (`SoonerExtends`,
`PrefixSooner`). A heap that runs empty has met every place there is a path to (`EmptyAnswers`). Each turn leaves
less work, the labels in the heap and the edges not yet taken (`Work`, `TurnIs`), so one turn for each edge
and one more are enough; `Turns` allows more. The best paths are at most as long as there are settled nodes
(`ShortPaths`), which is why `Route` may look at paths of fewer edges than nodes alone.

*Dispatch transactions.* Every request takes its locks in an order that one rank over
all locks increases along (key, recommendation row, refresh lock, scenario row, incident row, resource rows);
a circle of waiters would have to descend. `ChecksStillHold` is an invariant because each
fact that was checked under a lock is changed only by a holder of it: the proof goes over the pairs of a
check and a writing action. With it, each `Store` action is the
atomic operation of `Dispatch`, and all else stutters, except the restart. `ExactlyOnce` needs that claims and rows
correspond one to one (`OneToOne`) and that a transaction past
its claim has a key nobody else has (`Answered`).

*Events.* `RelaySound` is inductive as stated: for each way a change can be lost
(connection, queue, stream, query), what else is then owed to the client. A commit is told of
to whom it changes (`Announced` covers `Changed`) but for the list when nobody is left on it; a step that
asks again leaves what it asks for under way, or joined (`QueriesGoOn`). The
refinement maps what is coming to a client (`Coming`) to what `ChangeFeed` owes; only an answer ends it,
and `OvertakenAnswersOwed` says that one that ends it is the newest version or an exception.

*Publication.* Apart from the revisions of the manifest, at most one entry of the directory is unsynced at a time
(`OneUnsynced`): a build syncs each of its changes before the next, and a write that comes in between leaves graph files, journal
and pin alone, since it carries the pin it has read. So a crash leaves those as they once were. A
revision is in `kept` only after a sync, and every unsynced state since has it (`KeepsWrites`). What is linked
and not pinned is named by the journal, in every state a crash may leave
(`Consistent`); and for each phase of a build the invariant lists what its process
knows of the directory (`Follows`, `Unspoilt`). Files that others put there void
only the parts about files (`meddled = 0`).

*Ingestion.* `AcceptedOnce` and `DerivedMatchesStore` are promises about what a run
computed several statements before it commits. The invariant says what each run
knows: what it wrote is still what it should write to this store (`KeptFits`), what it
derived are the detections of what will be committed (`DerivedFits`), its
reference is not before any status row (`ReferenceFits`). These survive the steps of others because nobody
else writes while the lock is held (`LockHeldByOne`). No time shown lies ahead of the clock unless
that was set back (`StatusFits`), which gives `FreshIsRecent`; and a loop that alone polls its source
is never behind its row (`LoneAhead`), which gives `AttemptsForward`. `EveryRowCounted` rests on a lemma for each
adapter (`FirmsFits`, `NwsFits`, `ReplayFits`).

*Incidents.* Detections are grouped by the leader they reach, so clusters are disjoint whatever
the search finds (`ClustersPartition`), and every cluster gets one incident, matched or fresh; since
ids are keys, no two incidents share a member (`RefreshedMembersFit`). That needs nothing of
the matching. What an incident was before matters for the times only (`RowsFit`). A chain
of snapshots ends in what the refresh described, under the name the chain bears
(`ExtendedIs`): the comparison ignores nothing but the version, so reusing one never shows
an old state. Names come from seeding alone, which needs that nothing is known, and
of what is not known there are no snapshots (`ChainsInv`).

*Matching.* The sort key is a strict total order of the candidates because clusters are disjoint and
ids are keys (`KeyIs`, `CandidatesOrdered`), so a candidate's place in the order is the number of those that precede
it (`RanksAre`, `InOrderIs`). The greedy fold takes no two that meet, and
what it leaves meets one taken earlier (`TakenStep`, `TakingIs`); a pair that is `Closer` comes
earlier (`CloserPrecedes`): so no pair is left that both sides would prefer (`MatchIsStable`). An incident
then holds the cluster the matching gave it (`KeptIs`). For a repetition, `SettledInv` says that after a refresh
each cluster has one active incident with its members and its centroid and with times that cover it. Such a pair
overlaps most of all that either side could have, and is at distance zero, so it is matched again
(`SettledMatch`); times, score and snapshot then come out as they are (`ContinuedCovers`, `ExtendedStays`).

*What is shown.* The score is a percentage because each factor is one and the weights add up to a hundred
(`FactorsAre`, `ScoreIs`); the weather selected is the newest row in reach (`SelectedIs`); some exposed asset
has the wind's way exactly when the alignment is not zero (`WindShows`). `FramesInv`: as long as nothing but
live runs happens the reference never goes back, so versions are captured in their order (`OrderedTimeline`).

*Exercise tab.* `OncePerAim` relates what the server stored to what the operator
wanted when pressing, which no part of the code keeps. The invariant carries it
through the key: all calls and rows of one aim have one key and one signature, and as
long as the aim is open the hook holds that key (`AimsFit`). A command
refused as overtaken was sent for a version the session has left
(`CallFits`), and one the screen offers is not ahead of the server
(`ScreenFits`). All of this is claimed while no success was cut (`garbled = 0`): such an answer gives up the
key although the command took effect.

*Planning session.* A key stands for one command of one session, whatever is
repeated (`KeysFit`, `KeyKept`), so what is stored under it is what was asked (`Origin`); items are numbered as they come
(`AcceptedFits`), so two with one number are the same. A session keeps its create key until it
is told of the scenario (`OneCreate`); a late answer acts only if its session is still the one on
screen (`PlanFits`). `StalenessOwed` needs that a screen
behind the server has an event or a fetch coming (`NewsComes`), and the latch that a mismatch was latched when drawn (`StaleIsLatched`).

### Left to TLC

- Liveness (`EveryCallEnds`, `EveryTaskEnds`, `RunsEnd`, `EveryChangeShown`,
  `EventuallyPinned`, `OperatorFinishes`): it rests on fairness and `ENABLED`, out of the prover's reach.

Every other property of a passing run is stated by a theorem.

## 6. Not modelled, and why

- The search of CP-SAT, and float rounding: external, or numbers without
  protocol. Models take any answer the solver's statuses allow, and exact sums.
- PostGIS, shapely and projections; OSM parsing. Positions lie on a line.
- A redeployment between two commands of one exercise. The definition is a constant, so an override or a plan that finds another
  definition, graph or algorithm than its session (`application/exercise_planning.py:872`, refused as a conflict) is no state of `ExercisePlanning`;
  releases are in `DispatchService`. `ExplanationsTrue` compares two runs without their wind and without
  changes to the units themselves (`decision/task_explanations.py:72`): no guided plan reads the wind, and a
  checkpoint's units come from the constant definition.
- Repetition at a later reference: `RepeatIsIdle` is about a refresh repeated at the same one. A later reference is part of the
  snapshot (`persistence/exposures.py:197`), so a poll that moves it stores a new snapshot and overtakes every plan, by design.
- Parsers and validation of the replay package and of the exercise definition, and
  the offline build of the package's data: they run once over fixed files and
  either raise or return. The modules take what they return as constants.
- Definition digests, callsigns, display names, notes, wording of errors and explanations.
- Validation of headers and bodies that answers before a transaction begins.
- Coefficients of a plan request that are out of range end in an error with nothing stored; that is no action.
- The decision form and map selection of the monitor; panels, rendering.
- Foreign key share locks that nobody can wait for (see the head of `DispatchService`).
- Migrations (the constraints they create are in the actions that rely on them),
  settings, logging.

## 7. Plan

1. The decision form beside `PlanningSession`, with the decision route's replies.
2. The loader of replay packages against `GraphPublication`'s crash states.
