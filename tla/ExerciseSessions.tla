--------------------------- MODULE ExerciseSessions ---------------------------
(***************************************************************************)
(* The exercise service as it runs: HTTP calls in flight, each one database *)
(* transaction, on one session row, its plan runs, its audit events and    *)
(* the idempotency keys.                                                   *)
(*                                                                         *)
(* A command's transaction claims its key, locks the session row, reads    *)
(* the clock and the row, and only then plans and writes; what it writes   *)
(* it computes from the row it loaded under the lock.  A refusal or a lost *)
(* connection rolls the whole transaction back, the claim included.  A GET *)
(* and the body of a 409 read the row and the plan runs in two statements, *)
(* without a lock, each statement seeing what was committed when it ran    *)
(* (READ COMMITTED).                                                       *)
(*                                                                         *)
(* The session followed is the one created under CreateKey; creations      *)
(* under other keys make other rows and touch nothing here.  The unique    *)
(* constraint on (session, resulting version) is left out: it would only   *)
(* turn a lost update into an error, and the audit trail proves that the   *)
(* row lock already excludes one.                                          *)
(***************************************************************************)
EXTENDS ExerciseRules

CONSTANTS
    Calls,        \* slots for HTTP calls in flight
    Keys,         \* Idempotency-Key values
    CreateKey,    \* the key of the creation whose session is followed
    Requests,     \* the command requests clients may send, and send again
    MaxVersion    \* bound: no request is for a version this high

ASSUME CallsAssumption ==
    /\ CreateKey \in Keys
    /\ MaxVersion \in Nat
    /\ \A q \in Requests :
          /\ q.cmd \in Commands
          /\ q.payload \in PayloadsOf(q.cmd)
          /\ q.expected \in 1 .. MaxVersion - 1
          /\ q.key \in Keys

VARIABLES
    session,  \* the committed session row
    plans,    \* committed plan runs, in insertion order
    events,   \* committed audit events, by resulting version
    claims,   \* idempotency rows: the event a key answers with, 0 if unclaimed
    late,     \* whether the clock has reached expires_at
    calls     \* what each call slot is doing

vars == <<session, plans, events, claims, late, calls>>
committed == <<session, plans, events, claims>>

Kinds == Commands \cup {"create"}

\* Where a call is: claimed means it holds an uncommitted idempotency row,
\* locked that it also holds the session row; querying and listing are the two
\* statements of a projection read.
Stages == {"idle", "sent", "claimed", "locked", "querying", "listing", "answered"}

Codes == {"none", "ok", "command_invalid", "transition_invalid", "version_conflict",
          "session_expired", "idempotency_conflict", "internal_error"}

\* What a response or a stored event shows of the session.
View ==
    [ session : Session,
      actions : SUBSET (Commands \cup {"start-new-exercise", "view-debrief"}),
      plan    : Nat ]

\* An audit event, with the claim it completes, the request it answers, the
\* number of plan runs it left behind and the response it stores.
Event ==
    [ cmd : Kinds, key : Keys, payload : Payloads, expected : Nat,
      before : Session, after : Session, runs : Nat, response : View ]

Call ==
    [ stage : Stages, cmd : Kinds \cup {"get"}, key : Keys, payload : Payloads,
      expected : Nat, loaded : Session, wasLate : BOOLEAN, runs : Nat,
      code : Codes, event : Nat ]

\* A call slot that holds nothing.
Idle ==
    [ stage |-> "idle", cmd |-> "get", key |-> CreateKey, payload |-> "well-formed",
      expected |-> 0, loaded |-> NoSession, wasLate |-> FALSE, runs |-> 0,
      code |-> "none", event |-> 0 ]

TypeOK ==
    /\ session \in Session
    /\ plans \in Seq(Plan)
    /\ events \in Seq(Event)
    /\ claims \in [Kinds \X Keys -> Nat]
    /\ late \in BOOLEAN
    /\ calls \in [Calls -> Call]

Init ==
    /\ session = NoSession
    /\ plans = <<>>
    /\ events = <<>>
    /\ claims = [k \in Kinds \X Keys |-> 0]
    /\ late = FALSE
    /\ calls = [r \in Calls |-> Idle]

-----------------------------------------------------------------------------
(* Clients.  A client may send any of its requests once it can have seen    *)
(* the version it expects, and send it again whether or not it was         *)
(* answered; two requests may share a key.                                 *)

SendCreate(r) ==
    /\ calls[r].stage = "idle"
    /\ calls' = [calls EXCEPT ![r] = [Idle EXCEPT !.stage = "sent", !.cmd = "create"]]
    /\ UNCHANGED <<committed, late>>

SendCommand(r, q) ==
    /\ calls[r].stage = "idle"
    /\ q.expected <= session.version
    /\ calls' = [calls EXCEPT ![r] =
                    [Idle EXCEPT !.stage = "sent", !.cmd = q.cmd, !.payload = q.payload,
                                 !.expected = q.expected, !.key = q.key]]
    /\ UNCHANGED <<committed, late>>

SendGet(r) ==
    /\ calls[r].stage = "idle"
    /\ session # NoSession
    /\ calls' = [calls EXCEPT ![r] = [Idle EXCEPT !.stage = "querying", !.code = "ok"]]
    /\ UNCHANGED <<committed, late>>

\* The client has the response, or it never will: the slot is free again.
Finish(r) ==
    /\ calls[r].stage = "answered"
    /\ calls' = [calls EXCEPT ![r] = Idle]
    /\ UNCHANGED <<committed, late>>

\* The connection or the API process dies under the call.
Drop(r) ==
    /\ calls[r].stage \notin {"idle", "answered"}
    /\ calls' = [calls EXCEPT ![r] = Idle]
    /\ UNCHANGED <<committed, late>>

\* expires_at passes.
Expire ==
    /\ session # NoSession
    /\ ~late
    /\ late' = TRUE
    /\ UNCHANGED <<committed, calls>>

-----------------------------------------------------------------------------
(* The idempotency claim.                                                  *)

ScopedKey(r) == <<calls[r].cmd, calls[r].key>>

\* The INSERT waits for a transaction that holds the same key uncommitted.
KeyFree(r) ==
    \A o \in Calls \ {r} :
        calls[o].stage \in {"claimed", "locked"} => ScopedKey(o) # ScopedKey(r)

\* No committed row under the key: the insert succeeds.
Claim(r) ==
    /\ calls[r].stage = "sent"
    /\ KeyFree(r)
    /\ claims[ScopedKey(r)] = 0
    /\ calls' = [calls EXCEPT ![r].stage = "claimed"]
    /\ UNCHANGED <<committed, late>>

\* Faulty: the request hash leaves out the expected version.
SamePayload(r, event) == event.payload = calls[r].payload

SameRequest(r, event) ==
    event.payload = calls[r].payload /\ event.expected = calls[r].expected

RefuseKeyReuse(r) ==
    /\ calls[r].stage = "sent"
    /\ KeyFree(r)
    /\ claims[ScopedKey(r)] # 0
    /\ ~SameRequest(r, events[claims[ScopedKey(r)]])
    /\ calls' = [calls EXCEPT ![r].stage = "answered", ![r].code = "idempotency_conflict"]
    /\ UNCHANGED <<committed, late>>

\* A stored response is replayed only if it fits the state stored beside it
\* and, for a planning command, the plan run it answered with.
Replayable(event) ==
    /\ event.response.session = event.after
    /\ event.response.actions \in ActionOptions(event.after)
    /\ event.cmd \in PlanCommands =>
          IF plans[event.runs].solved
          THEN event.response.plan = event.runs
          ELSE /\ "generate-plan" \in event.response.actions
               /\ event.response.plan = LatestSolved(SubSeq(plans, 1, event.runs - 1))

\* The key is committed for the same request.  The event, its plan run and the
\* runs before it are immutable, so the reads that follow the claim are one step.
Replay(r) ==
    /\ calls[r].stage = "sent"
    /\ KeyFree(r)
    /\ claims[ScopedKey(r)] # 0
    /\ LET event == events[claims[ScopedKey(r)]] IN
          /\ SameRequest(r, event)
          /\ calls' = [calls EXCEPT
                ![r].stage = "answered",
                ![r].event = claims[ScopedKey(r)],
                ![r].code = IF Replayable(event) THEN "ok" ELSE "internal_error"]
    /\ UNCHANGED <<committed, late>>

-----------------------------------------------------------------------------
(* Creating the session.                                                   *)

Create(r) ==
    /\ calls[r].stage = "claimed"
    /\ calls[r].cmd = "create"
    /\ LET event ==
             [ cmd |-> "create", key |-> calls[r].key, payload |-> calls[r].payload,
               expected |-> 0, before |-> NoSession, after |-> NewSession, runs |-> 0,
               response |-> Projection(NewSession, <<>>, FALSE) ]
       IN  events' = <<event>>
    /\ session' = NewSession
    /\ plans' = <<>>
    /\ claims' = [claims EXCEPT ![ScopedKey(r)] = 1]
    /\ calls' = [calls EXCEPT ![r].stage = "answered", ![r].code = "ok", ![r].event = 1]
    /\ UNCHANGED late

-----------------------------------------------------------------------------
(* The command transaction.                                                *)

\* Faulty: a plain SELECT, which waits for nobody.
NoRowLock(r) == TRUE

\* SELECT ... FOR UPDATE waits for the transaction that holds the row.
RowFree(r) == \A o \in Calls \ {r} : calls[o].stage # "locked"

\* Faulty: an expired session still takes commands.
LockRefusalIgnoringExpiry(r) ==
    IF session.status # "active" THEN "transition_invalid"
    ELSE IF session.version # calls[r].expected THEN "version_conflict"
    ELSE "none"

\* Faulty: last writer wins.
LockRefusalAnyVersion(r) ==
    IF late THEN "session_expired"
    ELSE IF session.status # "active" THEN "transition_invalid"
    ELSE "none"

LockRefusal(r) ==
    IF late THEN "session_expired"
    ELSE IF session.status # "active" THEN "transition_invalid"
    ELSE IF session.version # calls[r].expected THEN "version_conflict"
    ELSE "none"

\* Faulty: the handler reports the refusal but never ends its transaction.
RefusedUnended(r, code) == calls' = [calls EXCEPT ![r].code = code]

\* A refusal rolls back.  For an out-of-order or stale command the error handler
\* then reads the current session for the body of the 409.
Refused(r, code) ==
    calls' = [calls EXCEPT
        ![r].code = code,
        ![r].loaded = NoSession,
        ![r].stage = IF code \in {"transition_invalid", "version_conflict"}
                     THEN "querying" ELSE "answered"]

Lock(r) ==
    /\ calls[r].stage = "claimed"
    /\ calls[r].cmd \in Commands
    /\ RowFree(r)
    /\ IF LockRefusal(r) = "none"
       THEN calls' = [calls EXCEPT ![r].stage = "locked", ![r].loaded = session]
       ELSE Refused(r, LockRefusal(r))
    /\ UNCHANGED <<committed, late>>

Refuse(r, outcome) ==
    LET c == calls[r]
        code == Refusal(c.cmd, c.loaded, plans, c.payload, outcome)
    IN
    /\ c.stage = "locked"
    /\ code # "none"
    /\ Refused(r, code)
    /\ UNCHANGED <<committed, late>>

\* Accepted: plan run, session row, response snapshot (with a second reading of
\* the clock), event and completed claim, committed together.
Commit(r, outcome) ==
    LET c      == calls[r]
        after  == SessionAfter(c.cmd, c.loaded, plans, c.payload)
        runs   == PlansAfter(c.cmd, c.loaded, plans, outcome)
        event  == [ cmd |-> c.cmd, key |-> c.key, payload |-> c.payload,
                    expected |-> c.expected, before |-> c.loaded, after |-> after,
                    runs |-> Len(runs), response |-> Projection(after, runs, late) ]
    IN
    /\ c.stage = "locked"
    /\ Refusal(c.cmd, c.loaded, plans, c.payload, outcome) = "none"
    /\ session' = after
    /\ plans' = runs
    /\ events' = Append(events, event)
    /\ claims' = [claims EXCEPT ![ScopedKey(r)] = Len(events) + 1]
    /\ calls' = [calls EXCEPT ![r].stage = "answered", ![r].code = "ok",
                              ![r].event = Len(events) + 1]
    /\ UNCHANGED late

-----------------------------------------------------------------------------
(* Reading a projection: the session row and the clock, then the plan runs. *)

ReadSession(r) ==
    /\ calls[r].stage = "querying"
    /\ calls' = [calls EXCEPT ![r].stage = "listing", ![r].loaded = session,
                              ![r].wasLate = late]
    /\ UNCHANGED <<committed, late>>

ReadPlans(r) ==
    /\ calls[r].stage = "listing"
    /\ calls' = [calls EXCEPT ![r].stage = "answered", ![r].runs = Len(plans)]
    /\ UNCHANGED <<committed, late>>

-----------------------------------------------------------------------------

ClientNext ==
    \/ Expire
    \/ \E r \in Calls :
          \/ SendCreate(r)
          \/ \E q \in Requests : SendCommand(r, q)
          \/ SendGet(r)
          \/ Finish(r)
          \/ Drop(r)

Execute(r) ==
    \E outcome \in OutcomesOf(calls[r].cmd, calls[r].loaded) :
        Refuse(r, outcome) \/ Commit(r, outcome)

\* A waiter gets its key or its row when the holder ends.
Acquire(r) == Claim(r) \/ RefuseKeyReuse(r) \/ Replay(r) \/ Lock(r)

Proceed(r) == Create(r) \/ Execute(r) \/ ReadSession(r) \/ ReadPlans(r)

Next == ClientNext \/ \E r \in Calls : Acquire(r) \/ Proceed(r)

Spec == Init /\ [][Next]_vars

\* PostgreSQL queues lock waiters, so a wait that keeps ending is not endless
\* (strong fairness); a transaction that waits for nothing goes on (weak).
\* Clients owe nothing.
Fairness == \A r \in Calls : SF_vars(Acquire(r)) /\ WF_vars(Proceed(r))

FairSpec == Spec /\ Fairness

-----------------------------------------------------------------------------
(* Safety.                                                                 *)

\* The audit log is the session's whole history: one event per version, each
\* starting from the state the one before left, the last one ending in the
\* committed row.  No interleaving of calls loses, forks or skips an update.
AuditTrail ==
    /\ Len(events) = session.version
    /\ \A v \in 1 .. Len(events) :
          /\ events[v].expected = v - 1
          /\ events[v].before = IF v = 1 THEN NoSession ELSE events[v - 1].after
          /\ events[v].after.version = v
    /\ session.version > 0 => session = events[session.version].after

\* However often and however concurrently a client sends a request under one
\* key, the service carries it out at most once, and every success it reports
\* is the event of that very request.
ExactlyOnce ==
    /\ \A v, w \in 1 .. Len(events) :
          events[v].cmd = events[w].cmd /\ events[v].key = events[w].key => v = w
    /\ \A r \in Calls :
          calls[r].event # 0 =>
              /\ calls[r].event \in 1 .. Len(events)
              /\ LET event == events[calls[r].event] IN
                    /\ event.cmd = calls[r].cmd
                    /\ event.key = calls[r].key
                    /\ event.payload = calls[r].payload
                    /\ event.expected = calls[r].expected

\* What a transaction loaded under the row lock is still the committed row when
\* it plans and writes, seconds of solver time later.
LockedRowIsCurrent ==
    \A r \in Calls : calls[r].stage = "locked" =>
        /\ calls[r].loaded = session
        /\ calls[r].expected = session.version
        /\ session.status = "active"

\* Every committed event is found again under the key that asked for it, and a
\* claim never answers with somebody else's event: a crash between any two
\* steps leaves neither a claim without its event nor an event without its claim.
ClaimsAnswered ==
    /\ \A k \in Kinds \X Keys : claims[k] # 0 =>
          /\ claims[k] \in 1 .. Len(events)
          /\ k = <<events[claims[k]].cmd, events[claims[k]].key>>
    /\ \A v \in 1 .. Len(events) : claims[<<events[v].cmd, events[v].key>>] = v

\* Among the calls in flight one at most holds the row, and one at most each
\* key; a key is held only while it is unclaimed.
HoldersExclusive ==
    \A r \in Calls : calls[r].stage \in {"claimed", "locked"} =>
        /\ claims[ScopedKey(r)] = 0
        /\ \A o \in Calls \ {r} :
              /\ calls[o].stage \in {"claimed", "locked"} => ScopedKey(o) # ScopedKey(r)
              /\ calls[o].stage = "locked" => calls[r].stage # "locked"

\* What the clients sent, and where the history starts.
Origins ==
    /\ \A r \in Calls :
          /\ calls[r].cmd = "create" => calls[r].key = CreateKey /\ calls[r].expected = 0
          /\ calls[r].cmd \in Commands =>
                /\ calls[r].payload \in PayloadsOf(calls[r].cmd)
                /\ calls[r].expected \in 1 .. MaxVersion - 1
          /\ calls[r].stage \in {"sent", "claimed"} => calls[r].cmd \in Kinds
          /\ calls[r].stage = "locked" => calls[r].cmd \in Commands
    /\ events # <<>> => events[1].cmd = "create" /\ events[1].key = CreateKey
    /\ events = <<>> => session = NoSession /\ plans = <<>> /\ ~late

\* The inductive invariant of the proofs.
IInv ==
    /\ TypeOK
    /\ AuditTrail
    /\ ExactlyOnce
    /\ LockedRowIsCurrent
    /\ ClaimsAnswered
    /\ HoldersExclusive
    /\ Origins

\* The view a GET, or the body of a 409, carried away.
ReadView(r) ==
    Projection(calls[r].loaded, SubSeq(plans, 1, calls[r].runs), calls[r].wasLate)

HasReadView(r) ==
    /\ calls[r].stage = "answered"
    /\ calls[r].loaded # NoSession
    /\ calls[r].event = 0

\* A projection may be torn between two versions, and is harmless: as long as
\* the version it shows is current, every command it offers is one the
\* service accepts (for some payload and solver outcome).
OffersHonoured ==
    \A r \in Calls :
        /\ HasReadView(r)
        /\ calls[r].loaded.version = session.version
        /\ session.status = "active"
        => \A cmd \in ReadView(r).actions \cap Commands :
              \E payload \in PayloadsOf(cmd), outcome \in OutcomesOf(cmd, session) :
                  Refusal(cmd, session, plans, payload, outcome) = "none"

\* The expiry has passed and no transaction is left that was admitted before it.
ReadOnly == late /\ \A r \in Calls : calls[r].stage # "locked"

\* From then on the exercise is read-only for ever: nothing is written, and no
\* transaction is admitted that could write.
ExpiredIsFinal == [][ReadOnly => UNCHANGED committed /\ ReadOnly']_vars

\* Concurrent transactions, retries and rollbacks add up to whole commands
\* applied one at a time to the state they were decided on.
Workflow == INSTANCE ExerciseWorkflow
ImplementsWorkflow == Workflow!Spec

(* Liveness.                                                               *)

\* No call waits for ever on a key or a row: under FairSpec each one sent is
\* answered, unless its connection dies first.
EveryCallEnds ==
    \A r \in Calls : calls[r].stage = "sent" ~> calls[r].stage \in {"answered", "idle"}

-----------------------------------------------------------------------------
(* What the design document says, and the code does not do.                *)

\* "Reused idempotency keys with identical requests replay the original
\* response": no identical request is answered with a server error.
RetriesReplay == \A r \in Calls : calls[r].code # "internal_error"
===============================================================================
