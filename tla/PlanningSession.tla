-------------------------- MODULE PlanningSession --------------------------
(***************************************************************************)
(* The monitor's planning session on one incident: the incident detail on  *)
(* screen, the freshness token the event stream advances, and the          *)
(* scenario, its versions and recommendations with the marks that tell     *)
(* whether they may still be acted on.  The server is reduced to the       *)
(* latest snapshot, what it stored under each key, and its refusal         *)
(* "scenario_stale" of anything built on an older snapshot.                *)
(*                                                                         *)
(* Every command may be overtaken by a new snapshot, by its event, by the  *)
(* refetched detail, by "Start over", by the detail failing to load (which *)
(* takes the session off the screen), by a replay, and by itself pressed   *)
(* twice.                                                                  *)
(***************************************************************************)
EXTENDS IdempotencyIntent, FiniteSets

CONSTANTS
    MaxSnap, \* bound: snapshots of the incident
    MaxGen,  \* bound: planning sessions
    MaxSent, \* bound: commands sent
    MaxSlips \* bound: lost answers, failed fetches, reopened streams, double clicks

ASSUME PlanningAssumption ==
    {MaxSnap, MaxGen, MaxSent, MaxSlips} \subseteq Nat \ {0}

Kinds == {"create", "derive", "generate"}
\* A request's number is also the key it would make for itself.
Numbers == 1..MaxSent

\* A stored version or recommendation ("of" is the version it plans).
NoItem == [id |-> 0, scenario |-> 0, of |-> 0, snap |-> 0]
Items == [id : 0..MaxSent, scenario : 0..MaxSent, of : 0..MaxSent, snap : 0..MaxSnap]

\* The state of the hook that a reset clears; token 0 is null.
NoPlan == [base |-> NoItem, latest |-> NoItem, baseRec |-> NoItem,
           lastVersion |-> NoItem, lastRec |-> NoItem, latched |-> FALSE, token |-> 0]

VARIABLES
    snap,      \* server: latest snapshot of the incident
    stored,    \* server: the item stored under each key
    owed,      \* an event is on its way to the browser
    shown,     \* incident.snapshotId on screen
    fetch,     \* the query of the incident detail
    token,     \* planningFreshnessToken
    replaying, \* planningDisabled
    mounted,   \* the planning workspace is on screen
    gen,       \* sessionGeneration
    plan,      \* the planning session
    intents,   \* the IdempotencyIntent of each mutation
    observed,  \* observed[k]: the attempt mutation k observes, 0 after reset
    clicked,   \* the attempt sent last, until the page draws again
    requests,  \* commands on the wire
    sent,      \* commands sent so far
    slips

database == <<snap, stored>>
feed == <<owed, shown, fetch, token>>
session == <<mounted, gen, plan>>
hooks == <<intents, observed, requests, sent>>
planningVars == <<database, feed, replaying, session, hooks, clicked, slips>>

\* The incident is on screen with its newest snapshot: a first answer that was
\* overtaken before it was shown is left to EventRelay.
PlanningInit ==
    /\ snap = 1
    /\ stored = {}
    /\ owed = FALSE
    /\ shown = 1
    /\ fetch = [state |-> "idle", snap |-> 0]
    /\ token = 1
    /\ replaying = FALSE
    /\ mounted = TRUE
    /\ gen = 1
    /\ plan = NoPlan
    /\ intents = [k \in Kinds |-> NoIntent]
    /\ observed = [k \in Kinds |-> 0]
    /\ clicked = 0
    /\ requests = {}
    /\ sent = 0
    /\ slips = 0

Slip == slips < MaxSlips /\ slips' = slips + 1

Planned == {plan.base, plan.latest, plan.baseRec, plan.lastRec} \ {NoItem}

\* snapshotMismatch or freshnessMismatch.
Mismatch(p, onScreen, t) ==
    \/ \E i \in {p.base, p.latest, p.baseRec, p.lastRec} \ {NoItem} : i.snap # onScreen
    \/ p.token # 0 /\ p.token # t

\* Faulty: only the mismatches of the moment count.
StaleByProps == Mismatch(plan, shown, token)

\* sessionStale.
Stale == Mismatch(plan, shown, token) \/ plan.latched

\* The effect after a render latches what the render found.
Rendered(p) == [p EXCEPT !.latched = @ \/ Mismatch(p, shown', token')]

InFlight(k) == \E c \in requests : c.kind = k /\ c.attempt = observed[k] /\ c.heard

\* The dock disables its buttons while a command is pending.
Busy == InFlight("create") \/ InFlight("generate") \/ InFlight("derive")

-----------------------------------------------------------------------------
(* Commands *)

\* A mutation begins; its signature names what it acts on.
Sent(kind, version, baseline, id) ==
    [kind |-> kind, attempt |-> id, version |-> version, baseline |-> baseline,
     key |-> Begin(intents[kind], <<kind, version.id>>, id).key,
     gen |-> gen, token |-> token, heard |-> TRUE, reply |-> "none", item |-> NoItem]

Mutate(kind, version, baseline, rest) ==
    LET id == sent + 1
    IN  /\ id \in Numbers
        /\ sent' = id
        /\ requests' = rest \cup {Sent(kind, version, baseline, id)}
        /\ intents' = [intents EXCEPT ![kind] = Begin(@, <<kind, version.id>>, id)]
        /\ observed' = [observed EXCEPT ![kind] = id]

\* The dock offers commands on the latest frame of a session that is current,
\* when nothing is pending; a second click comes before the page is drawn.
Actionable == mounted /\ ~replaying /\ ~Stale

Click(kind, version, baseline) ==
    /\ Actionable
    /\ \/ ~Busy /\ UNCHANGED slips
       \/ /\ \E c \in requests : c.attempt = clicked /\ c.kind = kind
          /\ Slip
    /\ Mutate(kind, version, baseline, requests)
    /\ clicked' = sent'
    /\ UNCHANGED <<database, feed, replaying, session>>

\* "Create the baseline plan"
Bootstrap == plan.base = NoItem /\ Click("create", NoItem, TRUE)

\* canStartGeneration, on the policy of the last render.
CanStart(version) == ~replaying /\ version.snap = shown

\* "Generate the plan" for the latest version, baseline or branch.
Generate ==
    /\ plan.base # NoItem
    /\ plan.lastVersion # plan.latest
    /\ CanStart(plan.latest)
    /\ Click("generate", plan.latest, plan.latest = plan.base)

\* saveVersion, from the scenario popover.
SaveVersion == plan.latest # NoItem /\ Click("derive", plan.latest, FALSE)

\* resetPlanning, "Start over".
Reset ==
    /\ mounted /\ Stale /\ ~replaying
    /\ gen < MaxGen
    /\ gen' = gen + 1
    /\ plan' = NoPlan
    /\ intents' = [k \in Kinds |-> NoIntent]
    /\ observed' = [k \in Kinds |-> 0]
    /\ clicked' = 0
    /\ UNCHANGED <<database, feed, replaying, mounted, requests, sent, slips>>

-----------------------------------------------------------------------------
(* The server *)

\* What a request makes of the database: what is stored under its key, a
\* refusal, or a new item on the latest snapshot.
Made(c) ==
    LET id == Cardinality(stored) + 1
    IN  CASE c.kind = "create" -> [id |-> id, scenario |-> id, of |-> 0, snap |-> snap]
          [] c.kind = "derive" ->
               [id |-> id, scenario |-> c.version.scenario, of |-> 0, snap |-> snap]
          [] OTHER ->
               [id |-> id, scenario |-> c.version.scenario, of |-> c.version.id, snap |-> snap]

Handle(c) ==
    LET mine == {r \in stored : r.key = c.key}
        refused == mine = {} /\ c.kind # "create" /\ c.version.snap # snap
        item == IF mine # {} THEN (CHOOSE r \in mine : TRUE).item ELSE Made(c)
        done == IF refused THEN [c EXCEPT !.reply = "scenario_stale"]
                ELSE [c EXCEPT !.reply = "ok", !.item = item]
    IN  /\ c.reply = "none"
        /\ requests' = (requests \ {c}) \cup (IF c.heard THEN {done} ELSE {})
        /\ stored' = IF refused \/ mine # {} THEN stored
                     ELSE stored \cup {[key |-> c.key, item |-> item, gen |-> c.gen]}
        /\ clicked' = 0
        /\ UNCHANGED <<snap, feed, replaying, session, intents, observed, sent, slips>>

\* An ingestion run stores a new snapshot and notifies.
Commit ==
    /\ snap < MaxSnap
    /\ snap' = snap + 1
    /\ owed' = TRUE
    /\ clicked' = 0
    /\ UNCHANGED <<stored, shown, fetch, token, replaying, session, hooks, slips>>

-----------------------------------------------------------------------------
(* Answers *)

\* Faulty: any answer that finds the workspace on screen settles.
ActiveIfMounted(c) == mounted

\* isActiveSession
Active(c) == mounted /\ c.gen = gen

\* The token moved since the generation was asked for.
Overtaken(c) == c.kind = "generate" /\ c.token # token

\* What a success makes of the planning session.
Settled(c) ==
    CASE c.kind = "create" ->
           [plan EXCEPT !.token = token, !.base = c.item, !.latest = c.item,
                        !.latched = @ \/ c.item.snap # shown]
      [] c.kind = "derive" -> [plan EXCEPT !.latest = c.item]
      [] OTHER ->
           [plan EXCEPT !.baseRec = IF c.baseline THEN c.item ELSE @,
                        !.lastVersion = c.version, !.lastRec = c.item,
                        !.latched = @ \/ c.version.snap # shown \/ c.item.snap # shown
                                      \/ Overtaken(c)]

\* A created baseline is planned at once where the policy still allows it.
Continues(c) == c.kind = "create" /\ CanStart(c.item)

Succeed(c) ==
    LET ended == Settle(intents[c.kind], c.attempt, FALSE)
    IN  /\ c.heard /\ c.reply = "ok"
        /\ UNCHANGED <<database, feed, replaying, mounted, gen, slips>>
        /\ plan' = IF Active(c) THEN Rendered(Settled(c)) ELSE plan
        /\ IF Active(c) /\ Continues(c)
             THEN /\ sent + 1 \in Numbers
                  /\ sent' = sent + 1
                  /\ requests' = (requests \ {c}) \cup {Sent("generate", c.item, TRUE, sent')}
                  /\ intents' = [intents EXCEPT !["create"] = ended,
                       !["generate"] = Begin(@, <<"generate", c.item.id>>, sent')]
                  /\ observed' = [observed EXCEPT !["generate"] = sent']
             ELSE /\ requests' = requests \ {c}
                  /\ intents' = [intents EXCEPT ![c.kind] = ended]
                  /\ UNCHANGED <<observed, sent>>
        /\ clicked' = 0

\* A refusal latches; a failure latches a generation that was overtaken.
Fail(c, retain, refused) ==
    /\ intents' = [intents EXCEPT ![c.kind] = Settle(@, c.attempt, retain)]
    /\ plan' = IF Active(c)
               THEN [plan EXCEPT !.latched = @ \/ refused \/ Overtaken(c)]
               ELSE plan
    /\ clicked' = 0
    /\ UNCHANGED <<database, feed, replaying, mounted, gen, observed, sent>>

Refuse(c) ==
    /\ c.heard /\ c.reply = "scenario_stale"
    /\ requests' = requests \ {c}
    /\ Fail(c, FALSE, TRUE)
    /\ UNCHANGED slips

\* A network error, 408, 429 or 5xx: the request may still be on its way.
LoseAnswer(c) ==
    /\ c.heard
    /\ Slip
    /\ \/ requests' = requests \ {c}
       \/ /\ c.reply = "none"
          /\ requests' = (requests \ {c}) \cup {[c EXCEPT !.heard = FALSE]}
    /\ Fail(c, TRUE, FALSE)

-----------------------------------------------------------------------------
(* The incident detail and the event stream *)

Drawn == clicked' = 0 /\ UNCHANGED <<database, replaying>>

\* Invalidating the query cancels a fetch under way and asks again.
Refetch == [state |-> "asked", snap |-> 0]

\* An incident-updated event, or the marker that stands in for it.
Event ==
    /\ owed
    /\ owed' = FALSE
    /\ token' = token + 1
    /\ fetch' = Refetch
    /\ UNCHANGED <<shown, mounted, gen, hooks, slips>>
    /\ plan' = Rendered(plan)
    /\ Drawn

\* The stream reopens and every query is repeated.
Reopen ==
    /\ Slip
    /\ token' = token + 1
    /\ fetch' = Refetch
    /\ UNCHANGED <<owed, shown, mounted, gen, hooks>>
    /\ plan' = Rendered(plan)
    /\ Drawn

ReadDetail ==
    /\ fetch.state = "asked"
    /\ fetch' = [state |-> "read", snap |-> snap]
    /\ Drawn
    /\ UNCHANGED <<owed, shown, token, session, hooks, slips>>

\* The detail arrives, and brings the workspace back where it had failed.
ShowDetail ==
    /\ fetch.state = "read"
    /\ fetch' = [state |-> "idle", snap |-> 0]
    /\ shown' = fetch.snap
    /\ mounted' = TRUE
    /\ UNCHANGED <<owed, token, gen, hooks, slips>>
    /\ plan' = Rendered(plan)
    /\ Drawn

\* A detail that fails takes the workspace off the screen: the hook unmounts
\* and what it remembered is gone.
FailDetail ==
    /\ fetch.state \in {"asked", "read"}
    /\ Slip
    /\ gen < MaxGen
    /\ fetch' = [state |-> "failed", snap |-> 0]
    /\ mounted' = FALSE
    /\ gen' = gen + 1
    /\ plan' = NoPlan
    /\ intents' = [k \in Kinds |-> NoIntent]
    /\ observed' = [k \in Kinds |-> 0]
    /\ UNCHANGED <<owed, shown, token, requests, sent>>
    /\ Drawn

\* "Retry incident details"
RetryDetail ==
    /\ fetch.state = "failed"
    /\ fetch' = Refetch
    /\ Drawn
    /\ UNCHANGED <<owed, shown, token, session, hooks, slips>>

\* The replay clock leaves the latest frame, or returns to it.
Replay ==
    /\ replaying' = ~replaying
    /\ clicked' = 0
    /\ UNCHANGED <<database, feed, session, hooks, slips>>

PlanningNext ==
    \/ Bootstrap \/ Generate \/ SaveVersion \/ Reset
    \/ \E c \in requests : Handle(c) \/ Succeed(c) \/ Refuse(c) \/ LoseAnswer(c)
    \/ Commit \/ Event \/ Reopen \/ ReadDetail \/ ShowDetail \/ FailDetail \/ RetryDetail
    \/ Replay

PlanningSpec == PlanningInit /\ [][PlanningNext]_planningVars

-----------------------------------------------------------------------------

PlanningTypeOK ==
    /\ snap \in 1..MaxSnap /\ shown \in 1..MaxSnap
    /\ fetch \in [state : {"idle", "asked", "read", "failed"}, snap : 0..MaxSnap]
    /\ gen \in 1..MaxGen /\ sent \in 0..MaxSent
    /\ {plan.base, plan.latest, plan.baseRec, plan.lastVersion, plan.lastRec} \subseteq Items
    /\ plan.token \in 0..token /\ plan.latched \in BOOLEAN
    /\ \A k \in Kinds : observed[k] \in 0..MaxSent
    /\ \A r \in stored : r.key \in Numbers /\ r.item \in Items
    /\ ~mounted => plan = NoPlan

\* A session once marked stale stays so until it is started over, whatever
\* arrives later (README.md:112: "marked stale and stays stale even if the
\* underlying props revert").
StaleStaysMarked == [][gen' = gen /\ Stale => Stale']_planningVars

\* A session shown as current although the server has a newer snapshot than
\* what it holds is owed the news: an event, or a fetch that will tell.
StalenessOwed ==
    mounted /\ ~Stale /\ (\E i \in Planned : i.snap < snap) =>
        owed \/ fetch.state = "asked" \/ (fetch.state = "read" /\ fetch.snap = snap)

\* Whatever answers late, a session holds one scenario: its baseline, a
\* version of it, and plans of those versions (README.md:114: late responses
\* "cannot resurrect a superseded plan").
SessionCoherent ==
    /\ plan.base = NoItem => Planned = {}
    /\ \A i \in Planned : i.scenario = plan.base.scenario
    /\ plan.baseRec # NoItem => plan.baseRec.of = plan.base.id
    /\ plan.lastRec.of = plan.lastVersion.id

\* Retries and double clicks of one session create one scenario.
OneScenarioPerSession ==
    \A r, q \in stored :
        r.gen = q.gen /\ r.item.id = r.item.scenario /\ q.item.id = q.item.scenario => r = q

\* What may be acted on is of one scenario, and current or about to be marked.
SessionSound == PlanningTypeOK /\ StalenessOwed /\ SessionCoherent /\ OneScenarioPerSession
=============================================================================
