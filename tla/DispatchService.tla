---------------------------- MODULE DispatchService ----------------------------
(***************************************************************************)
(* Live planning as it runs: HTTP calls of the API and ingestion runs of   *)
(* the worker, each one database transaction, that meet on row locks and   *)
(* on the incident refresh advisory lock.                                  *)
(*                                                                         *)
(* A transaction takes its locks in the order of its statements, looks at  *)
(* what each of them protects, and may be refused there; a refusal, a lost *)
(* connection or a restart of the API rolls it back, the idempotency claim *)
(* included.  What it writes at the end it computes from what it loaded.   *)
(*                                                                         *)
(* Left out: locks that cannot be waited for.  Foreign keys take a key     *)
(* share lock on rows that nobody locks for update (versions, snapshots,   *)
(* keys), or whose update lock is only taken under the refresh lock that   *)
(* the inserting transaction holds too (resource units).                   *)
(*                                                                         *)
(* An operator marked "Faulty" is a deliberately broken variant of the     *)
(* definition that follows it, kept to show that the properties notice.    *)
(***************************************************************************)
EXTENDS Integers, Sequences, FiniteSets

CONSTANTS
    Calls,            \* slots for HTTP calls in flight
    Sources,          \* observation sources, each polled by one ingestion loop
    Keys,             \* Idempotency-Key values
    Requests,         \* the requests clients may send, and send again
    Resources, UnknownResource, Releases, FirstRelease,
    MaxSnapshot, MaxScenarios, MaxVersions, MaxRecommendations

VARIABLES
    snapshot, release, scenarios, recommendations, decisions,
    claims,           \* committed idempotency rows
    tasks             \* what each call slot and each source is doing

stored == <<snapshot, scenarios, recommendations, decisions, claims>>
vars == <<stored, release, tasks>>

D == INSTANCE Dispatch

Parties == Calls \cup Sources

\* Planning commands, and the run of a source.  An edit or a replacing version
\* names resource units; a version that inherits repeats the last overlay.
Actions == [ create   |-> {"pin"},
             version  |-> {"replace", "inherit"},
             generate |-> {"solve"},
             decide   |-> {"approve", "edit", "reject"},
             ingest   |-> {"poll"} ]

Kinds == DOMAIN Actions

\* The target of a request: nothing for a creation, the scenario of a new
\* version, the scenario and version of a recommendation, the recommendation of
\* a decision.
Request ==
    [ kind : Kinds, target : Seq(Nat), action : UNION {Actions[k] : k \in Kinds},
      units : SUBSET (Resources \cup {UnknownResource}), key : Keys ]

ASSUME RequestsAssumption ==
    /\ Calls \cap Sources = {}
    /\ UnknownResource \notin Resources
    /\ Requests \subseteq Request
    /\ \A q \in Requests :
          /\ q.kind # "ingest"
          /\ q.action \in Actions[q.kind]
          /\ Len(q.target) = CASE q.kind = "create"   -> 0
                               [] q.kind = "generate" -> 2
                               [] OTHER               -> 1
    /\ Keys # {}
    /\ FirstRelease \in Releases
    /\ {MaxSnapshot, MaxScenarios, MaxVersions, MaxRecommendations} \subseteq Nat

AnyKey == CHOOSE key \in Keys : TRUE

Poll == [kind |-> "ingest", target |-> <<>>, action |-> "poll", units |-> {}, key |-> AnyKey]

Stages == {"idle", "acquiring", "looking", "ready", "answered"}

Codes == {"none", "ok", "idempotency_conflict", "scenario_invalid", "scenario_stale",
          "already_decided", "recommendation_stale", "not_actionable",
          "decision_invalid", "resource_assigned", "inputs_invalid"}

\* held counts the locks of its plan that a task has taken; loaded is the
\* scenario version and the snapshot version it read under them.
Task ==
    [ stage : Stages, request : Request, held : 0 .. 5,
      loaded : [version : Nat, snapshot : Nat], code : Codes, response : Seq(Nat) ]

Idle ==
    [ stage |-> "idle", request |-> Poll, held |-> 0,
      loaded |-> [version |-> 0, snapshot |-> 0], code |-> "none", response |-> <<>> ]

Claim == [request : Request, response : Seq(Nat)]

TypeOK ==
    /\ D!TypeOK
    /\ claims \in SUBSET Claim
    /\ tasks \in [Parties -> Task]

Init ==
    /\ D!Init
    /\ claims = {}
    /\ tasks = [p \in Parties |-> Idle]

-----------------------------------------------------------------------------
(* The locks of a transaction, in the order its statements take them.      *)

SameKey(q, o) == q.kind = o.kind /\ q.target = o.target /\ q.key = o.key

KeyLock(q) == <<"key", q.kind, q.target, q.key>>

\* The assignments a decision activates.
Assigned(q) ==
    CASE q.action = "reject"  -> {}
      [] q.action = "approve" -> recommendations[q.target[1]].proposed
      [] q.action = "edit"    -> q.units

\* Faulty: approvals do not wait for ingestion.
DecisionLocksNoRefresh(q) ==
    LET rec == recommendations[q.target[1]]
        own == << {KeyLock(q)}, {<<"recommendation", q.target[1]>>} >>
    IN  IF q.action = "reject" THEN own
        ELSE own \o << {}, {<<"scenario", rec.scenario>>},
                       {<<"resource", u>> : u \in Assigned(q)} >>

DecisionLocks(q) ==
    LET rec == recommendations[q.target[1]]
        own == << {KeyLock(q)}, {<<"recommendation", q.target[1]>>} >>
    IN  IF q.action = "reject" THEN own
        ELSE own \o << {<<"refresh">>}, {<<"scenario", rec.scenario>>},
                       {<<"resource", u>> : u \in Assigned(q)} >>

\* Faulty: a new version waits for ingestion too, once it has its scenario.
LocksScenarioFirst(q) ==
    CASE q.kind = "create"   -> << {KeyLock(q)}, {<<"incident">>} >>
      [] q.kind = "version"  -> << {KeyLock(q)}, {<<"scenario", q.target[1]>>}, {<<"refresh">>} >>
      [] q.kind = "generate" -> << {KeyLock(q)}, {<<"refresh">>}, {<<"scenario", q.target[1]>>} >>
      [] q.kind = "decide"   -> DecisionLocks(q)
      [] q.kind = "ingest"   -> << {<<"refresh">>}, {<<"incident">>} >>

\* Faulty: a new version does not lock its scenario.
LocksNoScenario(q) ==
    CASE q.kind = "create"   -> << {KeyLock(q)}, {<<"incident">>} >>
      [] q.kind = "version"  -> << {KeyLock(q)}, {} >>
      [] q.kind = "generate" -> << {KeyLock(q)}, {<<"refresh">>}, {<<"scenario", q.target[1]>>} >>
      [] q.kind = "decide"   -> DecisionLocks(q)
      [] q.kind = "ingest"   -> << {<<"refresh">>}, {<<"incident">>} >>

Locks(q) ==
    CASE q.kind = "create"   -> << {KeyLock(q)}, {<<"incident">>} >>
      [] q.kind = "version"  -> << {KeyLock(q)}, {<<"scenario", q.target[1]>>} >>
      [] q.kind = "generate" -> << {KeyLock(q)}, {<<"refresh">>}, {<<"scenario", q.target[1]>>} >>
      [] q.kind = "decide"   -> DecisionLocks(q)
      [] q.kind = "ingest"   -> << {<<"refresh">>}, {<<"incident">>} >>

Held(p) == UNION {Locks(tasks[p].request)[i] : i \in 1 .. tasks[p].held}

Wanted(p) ==
    IF tasks[p].stage = "acquiring"
    THEN Locks(tasks[p].request)[tasks[p].held + 1]
    ELSE {}

WaitsFor(p, o) == o # p /\ Wanted(p) \cap Held(o) # {}

-----------------------------------------------------------------------------
(* What a transaction refuses, at the lock it has just taken.              *)

ScenarioRefusal(q) ==
    IF snapshot = 0 THEN "scenario_invalid" ELSE "none"

VersionRefusal(q) ==
    IF q.units \subseteq Resources THEN "none" ELSE "scenario_invalid"

RecommendationRefusal(q, held) ==
    IF held = 3 /\ ~D!CurrentVersion(q.target[1], q.target[2])
    THEN "scenario_stale"
    ELSE "none"

DecisionRefusal(q, held) ==
    LET rec == recommendations[q.target[1]] IN
    CASE held = 2 ->
            IF D!Decided(q.target[1]) THEN "already_decided"
            ELSE IF q.action = "reject" /\ q.units # {} THEN "decision_invalid"
            ELSE "none"
      [] held = 3 -> IF rec.release # release THEN "recommendation_stale" ELSE "none"
      [] held = 4 ->
            IF ~D!Current(rec) THEN "recommendation_stale"
            ELSE IF ~rec.solved THEN "not_actionable"
            ELSE IF \/ q.action = "approve" /\ q.units # {}
                    \/ q.action = "edit" /\ q.units = {}
                    \/ ~(q.units \subseteq D!Available(rec.scenario, rec.version))
                 THEN "decision_invalid"
            ELSE "none"
      [] held = 5 -> IF Assigned(q) \cap D!Dispatched # {} THEN "resource_assigned" ELSE "none"
      [] OTHER -> "none"

Refusal(q, held) ==
    CASE q.kind = "create" /\ held = 2  -> ScenarioRefusal(q)
      [] q.kind = "version" /\ held = 2 -> VersionRefusal(q)
      [] q.kind = "generate"            -> RecommendationRefusal(q, held)
      [] q.kind = "decide"              -> DecisionRefusal(q, held)
      [] OTHER                          -> "none"

\* Checks on data the model leaves out may refuse too: closures outside the
\* graph, inputs no plan can be computed from, routes and capacities of an edit.
DataRefusals(q, held) ==
    CASE q.kind = "version" /\ held = 2 -> {"scenario_invalid"}
      [] q.kind = "generate" /\ held = 3 -> {"inputs_invalid"}
      [] q.kind = "decide" /\ q.action = "edit" /\ held = 4 -> {"decision_invalid"}
      [] OTHER -> {}

-----------------------------------------------------------------------------
(* Clients, sources and restarts.                                          *)

TargetExists(q) ==
    CASE q.kind = "create"   -> TRUE
      [] q.kind = "version"  -> q.target[1] \in 1 .. Len(scenarios)
      [] q.kind = "generate" ->
            /\ q.target[1] \in 1 .. Len(scenarios)
            /\ q.target[2] \in 1 .. Len(scenarios[q.target[1]].overlays)
      [] q.kind = "decide"   -> q.target[1] \in 1 .. Len(recommendations)

Begin(p, q) ==
    /\ tasks[p].stage = "idle"
    /\ tasks' = [tasks EXCEPT ![p] = [Idle EXCEPT !.stage = "acquiring", !.request = q]]
    /\ UNCHANGED <<stored, release>>

Send(r, q) == TargetExists(q) /\ Begin(r, q)

\* The poll interval of a source has passed, and it has fetched a batch.
Ingest(w) == Begin(w, Poll)

Finish(p) ==
    /\ tasks[p].stage = "answered"
    /\ tasks' = [tasks EXCEPT ![p] = Idle]
    /\ UNCHANGED <<stored, release>>

\* The connection, the worker or its transaction dies.
Drop(p) ==
    /\ tasks[p].stage \in {"acquiring", "looking", "ready"}
    /\ tasks' = [tasks EXCEPT ![p] = Idle]
    /\ UNCHANGED <<stored, release>>

\* The API restarts with another release; its calls die with it.
Redeploy ==
    /\ release' \in Releases \ {release}
    /\ tasks' = [p \in Parties |-> IF p \in Calls THEN Idle ELSE tasks[p]]
    /\ UNCHANGED stored

-----------------------------------------------------------------------------
(* The steps of a transaction.                                             *)

Acquire(p) ==
    /\ tasks[p].stage = "acquiring"
    /\ \A o \in Parties : ~WaitsFor(p, o)
    /\ tasks' = [tasks EXCEPT ![p].stage = "looking", ![p].held = @ + 1]
    /\ UNCHANGED <<stored, release>>

Answer(p, code, response) ==
    tasks' = [tasks EXCEPT ![p].stage = "answered", ![p].held = 0,
                           ![p].code = code, ![p].response = response]

\* Faulty: the request hash leaves out the units of an edit or an overlay.
SameAction(q, o) == q.action = o.action

SameRequest(q, o) == q.action = o.action /\ q.units = o.units

\* The key was committed before: the stored response is read again.
Replay(p) ==
    LET q == tasks[p].request IN
    /\ tasks[p].stage = "looking"
    /\ tasks[p].held = 1
    /\ q.kind # "ingest"
    /\ \E claim \in claims :
          /\ SameKey(claim.request, q)
          /\ IF SameRequest(claim.request, q)
             THEN Answer(p, "ok", claim.response)
             ELSE Answer(p, "idempotency_conflict", <<>>)
    /\ UNCHANGED <<stored, release>>

Claimed(p) ==
    /\ tasks[p].held = 1
    /\ tasks[p].request.kind # "ingest"
    /\ \E claim \in claims : SameKey(claim.request, tasks[p].request)

Refuse(p) ==
    LET q == tasks[p].request
        held == tasks[p].held
    IN
    /\ tasks[p].stage = "looking"
    /\ ~Claimed(p)
    /\ \E code \in {Refusal(q, held)} \cup DataRefusals(q, held) :
          code # "none" /\ Answer(p, code, <<>>)
    /\ UNCHANGED <<stored, release>>

\* What the statements after a lock read: the latest version of the scenario
\* just locked, and the incident's latest snapshot.
Load(q, held, loaded) ==
    CASE q.kind = "version" /\ held = 2 ->
            [loaded EXCEPT !.version = Len(scenarios[q.target[1]].overlays)]
      [] q.kind \in {"create", "ingest"} /\ held = 2 ->
            [loaded EXCEPT !.snapshot = snapshot]
      [] OTHER -> loaded

Pass(p) ==
    LET q == tasks[p].request
        held == tasks[p].held
    IN
    /\ tasks[p].stage = "looking"
    /\ ~Claimed(p)
    /\ Refusal(q, held) = "none"
    /\ tasks' = [tasks EXCEPT
          ![p].stage = IF held = Len(Locks(q)) THEN "ready" ELSE "acquiring",
          ![p].loaded = Load(q, held, @)]
    /\ UNCHANGED <<stored, release>>

\* What every command ends with: its response under its key.
Complete(p, response) ==
    /\ claims' = claims \cup {[request |-> tasks[p].request, response |-> response]}
    /\ Answer(p, "ok", response)

Ready(p, kind) == tasks[p].stage = "ready" /\ tasks[p].request.kind = kind

StoreScenario(p) ==
    /\ Ready(p, "create")
    /\ Len(scenarios) < MaxScenarios
    /\ scenarios' = Append(scenarios,
          [pinned |-> tasks[p].loaded.snapshot, overlays |-> <<{}>>])
    /\ Complete(p, <<Len(scenarios) + 1, 1>>)
    /\ UNCHANGED <<snapshot, release, recommendations, decisions>>

StoreVersion(p) ==
    LET q == tasks[p].request
        s == q.target[1]
        previous == tasks[p].loaded.version
        overlay == IF q.action = "replace" THEN q.units
                   ELSE scenarios[s].overlays[previous]
    IN
    /\ Ready(p, "version")
    /\ previous < MaxVersions
    /\ scenarios' = [scenarios EXCEPT
          ![s].overlays = Append(SubSeq(@, 1, previous), overlay)]
    /\ Complete(p, <<s, previous + 1>>)
    /\ UNCHANGED <<snapshot, release, recommendations, decisions>>

StoreRecommendation(p, plan) ==
    LET s == tasks[p].request.target[1]
        v == tasks[p].request.target[2]
    IN
    /\ Ready(p, "generate")
    /\ Len(recommendations) < MaxRecommendations
    /\ recommendations' = Append(recommendations,
          [ scenario |-> s, version |-> v, snapshot |-> scenarios[s].pinned,
            release |-> release, solved |-> plan.solved, proposed |-> plan.proposed ])
    /\ Complete(p, <<Len(recommendations) + 1>>)
    /\ UNCHANGED <<snapshot, release, scenarios, decisions>>

StoreDecision(p) ==
    LET q == tasks[p].request IN
    /\ Ready(p, "decide")
    /\ decisions' = Append(decisions,
          [recommendation |-> q.target[1], action |-> q.action, assigned |-> Assigned(q)])
    /\ Complete(p, <<Len(decisions) + 1>>)
    /\ UNCHANGED <<snapshot, release, scenarios, recommendations>>

\* The refreshed incident differs from its last snapshot.
StoreSnapshot(p) ==
    /\ Ready(p, "ingest")
    /\ tasks[p].loaded.snapshot < MaxSnapshot
    /\ snapshot' = tasks[p].loaded.snapshot + 1
    /\ tasks' = [tasks EXCEPT ![p] = Idle]
    /\ UNCHANGED <<release, scenarios, recommendations, decisions, claims>>

\* It does not differ: the latest snapshot is used again.
ReuseSnapshot(p) ==
    /\ Ready(p, "ingest")
    /\ tasks' = [tasks EXCEPT ![p] = Idle]
    /\ UNCHANGED <<stored, release>>

-----------------------------------------------------------------------------

\* The solver may have answered with any plan over the units it was given.
RecommendIn(p) ==
    /\ Ready(p, "generate")
    /\ \E plan \in D!Proposals(tasks[p].request.target[1], tasks[p].request.target[2]) :
          StoreRecommendation(p, plan)

Proceed(p) ==
    \/ Replay(p)
    \/ Refuse(p)
    \/ Pass(p)
    \/ StoreScenario(p)
    \/ StoreVersion(p)
    \/ RecommendIn(p)
    \/ StoreDecision(p)
    \/ StoreSnapshot(p)
    \/ ReuseSnapshot(p)

Next ==
    \/ Redeploy
    \/ \E r \in Calls, q \in Requests : Send(r, q)
    \/ \E w \in Sources : Ingest(w)
    \/ \E p \in Parties : Finish(p) \/ Drop(p) \/ Acquire(p) \/ Proceed(p)

Spec == Init /\ [][Next]_vars

\* PostgreSQL grants locks in the order they were asked for (strong fairness of
\* a wait that keeps ending); a transaction that waits for nothing goes on.
Fairness == \A p \in Parties : SF_vars(Acquire(p)) /\ WF_vars(Proceed(p))

FairSpec == Spec /\ Fairness

-----------------------------------------------------------------------------
(* Safety.                                                                 *)

\* Locks under which a transaction has looked and gone on.
Passed(p) == IF tasks[p].stage = "looking" THEN tasks[p].held - 1 ELSE tasks[p].held

\* A task works on what its party may do, on a target that exists, and has taken
\* the locks that its stage says.
TasksFit ==
    \A p \in Parties :
        LET t == tasks[p]
            n == Len(Locks(t.request))
        IN
        /\ t.stage = "idle" => t = Idle
        /\ t.stage # "idle" => IF p \in Sources THEN t.request = Poll
                               ELSE t.request \in Requests /\ TargetExists(t.request)
        /\ t.stage = "acquiring" => t.held < n
        /\ t.stage = "looking" => t.held \in 1 .. n
        /\ t.stage = "ready" => t.held = n
        /\ t.stage = "answered" => t.held = 0

\* No lock is held twice.
LocksExclusive ==
    \A p, o \in Parties : p # o => Held(p) \cap Held(o) = {}

\* What a transaction checked and loaded is still so at each of its later steps,
\* and when it writes, seconds of solver time and several statements later:
\* whatever it would look at again, it would find as it was.
ChecksStillHold ==
    \A p \in Parties :
        LET q == tasks[p].request IN
        /\ \A i \in 1 .. Passed(p) :
              /\ Refusal(q, i) = "none"
              /\ Load(q, i, tasks[p].loaded) = tasks[p].loaded
        /\ \A claim \in claims :
              Passed(p) > 0 /\ q.kind # "ingest" => ~SameKey(claim.request, q)

\* The results that requests under keys have produced.
Results ==
    {<<"create", <<>>, <<s, 1>>>> : s \in 1 .. Len(scenarios)} \cup
    (UNION {{<<"version", <<s>>, <<s, v>>>> : v \in 2 .. Len(scenarios[s].overlays)} :
               s \in 1 .. Len(scenarios)}) \cup
    {<<"generate", <<recommendations[i].scenario, recommendations[i].version>>, <<i>>>> :
        i \in 1 .. Len(recommendations)} \cup
    {<<"decide", <<decisions[d].recommendation>>, <<d>>>> : d \in 1 .. Len(decisions)}

Result(claim) == <<claim.request.kind, claim.request.target, claim.response>>

\* However often and however concurrently a request is sent under its key, it
\* takes effect once: keys and results correspond one to one, and every success
\* reported is the result of that very request, made for the same units.
ExactlyOnce ==
    /\ {Result(claim) : claim \in claims} = Results
    /\ \A c, d \in claims :
          Result(c) = Result(d) \/ SameKey(c.request, d.request) => c = d
    /\ \A r \in Calls : tasks[r].code = "ok" =>
          [request |-> tasks[r].request, response |-> tasks[r].response] \in claims

\* No set of transactions waits in a circle, so PostgreSQL never has to break a
\* deadlock by aborting one: in every group somebody waits for nobody in it.
NoCircularWait ==
    \A group \in (SUBSET {p \in Parties : tasks[p].stage = "acquiring"}) \ {{}} :
        \E p \in group : \A o \in group : ~WaitsFor(p, o)

\* Concurrent transactions, retries, ingestion and restarts add up to whole
\* operations, each one applied to the inputs that are current at that moment.
ImplementsDispatch == D!Spec

\* So what Dispatch promises holds of the service: no two decisions send out the
\* same resource, and a resource is sent out only if the scenario version planned
\* with it;
DispatchSound == D!NoDoubleDispatch /\ D!DispatchWithinPlan

\* and an overtaken recommendation never sends out anything again.
SupersededIsFinal == D!SupersededIsFinal

\* The locks do what they are for: checks hold until the writes they protect, and
\* nobody waits in a circle for them.
LockingSound == TypeOK /\ TasksFit /\ LocksExclusive /\ ChecksStillHold /\ NoCircularWait

(* Liveness.                                                               *)

\* Under FairSpec nobody waits for ever for a lock: a call is answered and an
\* ingestion run ends, unless it is cut off first.
EveryTaskEnds ==
    \A p \in Parties : tasks[p].stage = "acquiring" ~> tasks[p].stage \in {"answered", "idle"}
===============================================================================
