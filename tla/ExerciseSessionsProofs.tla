------------------------ MODULE ExerciseSessionsProofs ------------------------
(***************************************************************************)
(* The exercise service keeps its invariants for every number of calls,    *)
(* every set of keys and requests and every bound on the version.          *)
(***************************************************************************)
EXTENDS ExerciseSessions, TLAPS

W == INSTANCE ExerciseWorkflowProofs

\* The data and the rules of the workflow are those of the service.
LEMMA SameRules ==
    /\ W!Session = Session /\ W!Plan = Plan /\ W!Commands = Commands /\ W!Outcome = Outcome
    /\ \A runs : W!LatestSolved(runs) = LatestSolved(runs)
    /\ \A cmd, s, runs, payload, outcome :
          W!Refusal(cmd, s, runs, payload, outcome) = Refusal(cmd, s, runs, payload, outcome)
    /\ \A cmd, s, runs, payload :
          W!SessionAfter(cmd, s, runs, payload) = SessionAfter(cmd, s, runs, payload)
    /\ \A cmd, s, runs, outcome :
          W!PlansAfter(cmd, s, runs, outcome) = PlansAfter(cmd, s, runs, outcome)
<1>1. W!Session = Session /\ W!Plan = Plan
  BY DEF W!Session, Session, W!Plan, Plan, W!FinalCheckpoint, FinalCheckpoint
<1>2. W!Commands = Commands /\ W!Outcome = Outcome
  BY DEF W!Commands, Commands, W!PlanCommands, PlanCommands, W!Outcome, Outcome
<1>3. \A runs : W!LatestSolved(runs) = LatestSolved(runs)
  BY DEF W!LatestSolved, LatestSolved, W!LastIndex, LastIndex
<1>4. \A cmd, s, runs, payload, outcome :
         W!Refusal(cmd, s, runs, payload, outcome) = Refusal(cmd, s, runs, payload, outcome)
  BY DEF W!Refusal, Refusal, W!SelectRefusal, SelectRefusal, W!AdvanceRefusal, AdvanceRefusal,
         W!GenerateRefusal, GenerateRefusal, W!OverrideRefusal, OverrideRefusal,
         W!ApproveRefusal, ApproveRefusal, W!LatestAt, LatestAt, W!LastIndex, LastIndex,
         W!LatestOverridden, LatestOverridden, W!Actionable, Actionable,
         W!FinalCheckpoint, FinalCheckpoint
<1>5. \A cmd, s, runs, payload :
         W!SessionAfter(cmd, s, runs, payload) = SessionAfter(cmd, s, runs, payload)
  BY DEF W!SessionAfter, SessionAfter, W!Advanced, Advanced, W!LatestAt, LatestAt,
         W!LastIndex, LastIndex
<1>6. \A cmd, s, runs, outcome :
         W!PlansAfter(cmd, s, runs, outcome) = PlansAfter(cmd, s, runs, outcome)
  BY DEF W!PlansAfter, PlansAfter, W!PlanFor, PlanFor, W!PlanCommands, PlanCommands
<1>7. QED
  BY <1>1, <1>2, <1>3, <1>4, <1>5, <1>6

\* A projection of a well-formed session is a well-formed view.
LEMMA ProjectionType ==
    ASSUME NEW s \in Session, NEW runs \in Seq(Plan), NEW b \in BOOLEAN
    PROVE  Projection(s, runs, b) \in View
<1>1. Projected(s, b) \in Session
  BY DEF Projected, Session
<1>2. \A t : AllowedActions(t, runs)
                \in SUBSET (Commands \cup {"start-new-exercise", "view-debrief"})
  BY DEF AllowedActions, Commands, PlanCommands
<1>3. LatestSolved(runs) \in Nat
  BY W!LatestSolvedType, ObjectiveAssumption, SameRules
<1>4. QED
  BY <1>1, <1>2, <1>3 DEF Projection, View

\* The missing row and the new one are rows.
LEMMA NoSessionType == NoSession \in Session /\ NewSession \in Session
<1>1. NoSession \in Session
  BY DEF NoSession, Session, FinalCheckpoint
<1>2. NewSession \in Session
  BY <1>1 DEF NewSession, Session
<1>3. QED
  BY <1>1, <1>2

\* A call that has not been made yet is a call.
LEMMA IdleType == Idle \in Call
<1>1. "idle" \in Stages /\ "none" \in Codes
  BY DEF Stages, Codes
<1>2. CreateKey \in Keys
  BY CallsAssumption
<1>3. "well-formed" \in Payloads
  BY DEF Payloads
<1>4. NoSession \in Session
  BY NoSessionType
<1>5. QED
  BY <1>1, <1>2, <1>3, <1>4 DEF Idle, Call

\* What call slot r may turn into in a step that commits nothing.
Admissible(r, c) ==
    /\ c \in Call
    /\ c.event # 0 =>
          /\ c.event \in 1 .. Len(events)
          /\ events[c.event].cmd = c.cmd
          /\ events[c.event].key = c.key
          /\ events[c.event].payload = c.payload
          /\ events[c.event].expected = c.expected
    /\ c.stage = "locked" =>
          /\ c.cmd \in Commands
          /\ c.loaded = session
          /\ c.expected = session.version
          /\ session.status = "active"
          /\ \A o \in Calls \ {r} : calls[o].stage # "locked"
    /\ c.stage \in {"sent", "claimed"} => c.cmd \in Kinds
    /\ c.stage \in {"claimed", "locked"} =>
          /\ claims[<<c.cmd, c.key>>] = 0
          /\ \A o \in Calls \ {r} :
                calls[o].stage \in {"claimed", "locked"} =>
                    <<calls[o].cmd, calls[o].key>> # <<c.cmd, c.key>>
    /\ c.cmd = "create" => c.key = CreateKey /\ c.expected = 0
    /\ c.cmd \in Commands =>
          /\ c.payload \in PayloadsOf(c.cmd)
          /\ c.expected \in 1 .. MaxVersion - 1

\* The invariant survives every admissible step that commits nothing.
LEMMA QuietStep ==
    ASSUME IInv, NEW r \in Calls, NEW c, Admissible(r, c),
           calls' = [calls EXCEPT ![r] = c],
           UNCHANGED committed, late' = late
    PROVE  IInv'
<1> USE DEF committed
<1>0. /\ c \in Call
      /\ calls \in [Calls -> Call]
      /\ calls'[r] = c
      /\ \A o \in Calls \ {r} : calls'[o] = calls[o]
  BY DEF IInv, TypeOK, Admissible
<1>1. TypeOK'
  BY <1>0 DEF IInv, TypeOK
<1>2. AuditTrail'
  BY DEF IInv, AuditTrail
<1>3. ExactlyOnce'
  <2>1. (\A v, w \in 1 .. Len(events) :
            events[v].cmd = events[w].cmd /\ events[v].key = events[w].key => v = w)'
    BY DEF IInv, ExactlyOnce
  <2>2. ASSUME NEW o \in Calls, calls'[o].event # 0
        PROVE  /\ calls'[o].event \in 1 .. Len(events)
               /\ events[calls'[o].event].cmd = calls'[o].cmd
               /\ events[calls'[o].event].key = calls'[o].key
               /\ events[calls'[o].event].payload = calls'[o].payload
               /\ events[calls'[o].event].expected = calls'[o].expected
    <3>1. CASE o = r
      BY <3>1, <2>2, <1>0 DEF Admissible
    <3>2. CASE o # r
      <4>1. calls'[o] = calls[o]
        BY <3>2, <1>0
      <4>2. QED
        BY <4>1, <2>2 DEF IInv, ExactlyOnce
    <3>3. QED
      BY <3>1, <3>2
  <2>3. QED
    BY <2>1, <2>2 DEF ExactlyOnce
<1>4. LockedRowIsCurrent'
  BY <1>0 DEF IInv, LockedRowIsCurrent, Admissible
<1>5. ClaimsAnswered'
  BY DEF IInv, ClaimsAnswered
<1>6. HoldersExclusive'
  BY <1>0 DEF IInv, HoldersExclusive, ScopedKey, Admissible
<1>7. Origins'
  BY <1>0 DEF IInv, Origins, Admissible
<1>8. QED
  BY <1>1, <1>2, <1>3, <1>4, <1>5, <1>6, <1>7 DEF IInv

\* The invariant holds of an empty database.
LEMMA InitIInv == Init => IInv
<1> SUFFICES ASSUME Init PROVE IInv
  OBVIOUS
<1>1. TypeOK
  <2>1. session \in Session
    BY NoSessionType DEF Init
  <2>2. plans \in Seq(Plan) /\ events \in Seq(Event)
    BY DEF Init
  <2>3. claims \in [Kinds \X Keys -> Nat]
    BY DEF Init
  <2>4. late \in BOOLEAN
    BY DEF Init
  <2>5. calls \in [Calls -> Call]
    BY IdleType DEF Init
  <2>6. QED
    BY <2>1, <2>2, <2>3, <2>4, <2>5 DEF TypeOK
<1>2. \A r \in Calls : calls[r] = Idle
  BY DEF Init
<1>3. session.version = 0 /\ events = <<>> /\ Len(events) = 0
  BY DEF Init, NoSession
<1>4. AuditTrail /\ ExactlyOnce /\ ClaimsAnswered
  BY <1>2, <1>3 DEF Init, AuditTrail, ExactlyOnce, ClaimsAnswered, Idle
<1>5. LockedRowIsCurrent /\ HoldersExclusive
  BY <1>2 DEF LockedRowIsCurrent, HoldersExclusive, Idle
<1>6. Origins
  BY <1>2, <1>3 DEF Init, Origins, Idle, Commands, PlanCommands
<1>7. QED
  BY <1>1, <1>4, <1>5, <1>6 DEF IInv

\* A freed slot.
LEMMA FreedStep ==
    ASSUME IInv, NEW r \in Calls, calls' = [calls EXCEPT ![r] = Idle],
           UNCHANGED committed, late' = late
    PROVE  IInv'
<1>1. Admissible(r, Idle)
  BY IdleType DEF Admissible, Idle, Commands, PlanCommands
<1>2. QED
  BY <1>1, QuietStep

\* A slot that a client fills with a new call.
LEMMA SendStep ==
    ASSUME IInv, NEW r \in Calls, SendCreate(r) \/ SendGet(r) \/ \E q \in Requests : SendCommand(r, q)
    PROVE  IInv'
<1>1. CASE SendCreate(r)
  <2> DEFINE c == [Idle EXCEPT !.stage = "sent", !.cmd = "create"]
  <2>1. c \in Call
    BY IdleType DEF Call, Stages, Kinds
  <2>2. /\ c.stage = "sent" /\ c.cmd = "create" /\ c.event = 0 /\ c.key = CreateKey
        /\ c.expected = 0
    BY DEF Idle
  <2>3. calls' = [calls EXCEPT ![r] = c] /\ UNCHANGED committed /\ late' = late
    BY <1>1 DEF SendCreate
  <2> HIDE DEF c
  <2>4. Admissible(r, c)
    BY <2>1, <2>2 DEF Admissible, Kinds, Commands, PlanCommands
  <2>5. QED
    BY <2>3, <2>4, QuietStep
<1>2. CASE SendGet(r)
  <2> DEFINE c == [Idle EXCEPT !.stage = "querying", !.code = "ok"]
  <2>1. c \in Call
    BY IdleType DEF Call, Stages, Codes
  <2>2. c.stage = "querying" /\ c.cmd = "get" /\ c.event = 0
    BY DEF Idle
  <2>3. calls' = [calls EXCEPT ![r] = c] /\ UNCHANGED committed /\ late' = late
    BY <1>2 DEF SendGet
  <2> HIDE DEF c
  <2>4. Admissible(r, c)
    BY <2>1, <2>2 DEF Admissible, Commands, PlanCommands
  <2>5. QED
    BY <2>3, <2>4, QuietStep
<1>3. CASE \E q \in Requests : SendCommand(r, q)
  <2> PICK q \in Requests : SendCommand(r, q)
    BY <1>3
  <2> DEFINE c == [Idle EXCEPT !.stage = "sent", !.cmd = q.cmd, !.payload = q.payload,
                               !.expected = q.expected, !.key = q.key]
  <2>1. /\ q.cmd \in Commands
        /\ q.payload \in PayloadsOf(q.cmd)
        /\ q.expected \in 1 .. MaxVersion - 1
        /\ q.key \in Keys
        /\ MaxVersion \in Nat
    BY CallsAssumption
  <2>2. q.payload \in Payloads
    BY <2>1 DEF PayloadsOf, Payloads
  <2>3. q.cmd \in Kinds /\ q.expected \in Nat
    BY <2>1 DEF Kinds
  <2>4. c \in Call
    BY <2>1, <2>2, <2>3, IdleType DEF Call, Stages
  <2>5. /\ c.stage = "sent" /\ c.cmd = q.cmd /\ c.event = 0
        /\ c.payload = q.payload /\ c.expected = q.expected
    BY DEF Idle
  <2>6. calls' = [calls EXCEPT ![r] = c] /\ UNCHANGED committed /\ late' = late
    BY DEF SendCommand
  <2> HIDE DEF c
  <2>7. Admissible(r, c)
    BY <2>1, <2>3, <2>4, <2>5 DEF Admissible, Commands, PlanCommands
  <2>8. QED
    BY <2>6, <2>7, QuietStep
<1>4. QED
  BY <1>1, <1>2, <1>3

\* What the invariant says of one call.
LEMMA CallFacts ==
    ASSUME IInv, NEW r \in Calls
    PROVE  /\ calls[r] \in Call
           /\ calls[r].event # 0 =>
                 /\ calls[r].event \in 1 .. Len(events)
                 /\ events[calls[r].event].cmd = calls[r].cmd
                 /\ events[calls[r].event].key = calls[r].key
                 /\ events[calls[r].event].payload = calls[r].payload
                 /\ events[calls[r].event].expected = calls[r].expected
           /\ calls[r].cmd = "create" => calls[r].key = CreateKey /\ calls[r].expected = 0
           /\ calls[r].cmd \in Commands =>
                 /\ calls[r].payload \in PayloadsOf(calls[r].cmd)
                 /\ calls[r].expected \in 1 .. MaxVersion - 1
           /\ calls[r].stage \in {"sent", "claimed"} => calls[r].cmd \in Kinds
           /\ calls[r].stage = "locked" => calls[r].cmd \in Commands
           /\ calls[r].stage \in {"claimed", "locked"} => calls[r].cmd \in Kinds
<1>1. calls[r] \in Call
  BY DEF IInv, TypeOK
<1>2. calls[r].event # 0 =>
         /\ calls[r].event \in 1 .. Len(events)
         /\ events[calls[r].event].cmd = calls[r].cmd
         /\ events[calls[r].event].key = calls[r].key
         /\ events[calls[r].event].payload = calls[r].payload
         /\ events[calls[r].event].expected = calls[r].expected
  BY DEF IInv, ExactlyOnce
<1>3. QED
  BY <1>1, <1>2 DEF IInv, Origins, Kinds

\* A step that only reports: the call keeps its request and holds nothing.
LEMMA ReportStep ==
    ASSUME IInv, NEW r \in Calls, NEW c \in Call,
           c.stage \in {"querying", "listing", "answered"},
           c.cmd = calls[r].cmd, c.key = calls[r].key,
           c.payload = calls[r].payload, c.expected = calls[r].expected,
           \/ c.event = calls[r].event
           \/ /\ c.event \in 1 .. Len(events)
              /\ events[c.event].cmd = c.cmd
              /\ events[c.event].key = c.key
              /\ events[c.event].payload = c.payload
              /\ events[c.event].expected = c.expected,
           calls' = [calls EXCEPT ![r] = c], UNCHANGED committed, late' = late
    PROVE  IInv'
<1>1. Admissible(r, c)
  BY CallFacts DEF Admissible
<1>2. QED
  BY <1>1, QuietStep

\* A refusal, whatever its code.
LEMMA RefusedStep ==
    ASSUME IInv, NEW r \in Calls, NEW code \in Codes, Refused(r, code),
           UNCHANGED committed, late' = late
    PROVE  IInv'
<1> DEFINE stage == IF code \in {"transition_invalid", "version_conflict"}
                    THEN "querying" ELSE "answered"
           c == [calls[r] EXCEPT !.code = code, !.loaded = NoSession, !.stage = stage]
<1>1. calls[r] \in Call /\ calls \in [Calls -> Call]
  BY DEF IInv, TypeOK
<1>2. calls' = [calls EXCEPT ![r] = c]
  BY <1>1 DEF Refused
<1>3. stage \in {"querying", "answered"} /\ stage \in Stages
  BY DEF Stages
<1> HIDE DEF stage
<1>4. c \in Call
  BY <1>1, <1>3, NoSessionType DEF Call
<1>5. /\ c.stage = stage /\ c.event = calls[r].event
      /\ c.cmd = calls[r].cmd /\ c.key = calls[r].key
      /\ c.payload = calls[r].payload /\ c.expected = calls[r].expected
  BY <1>1 DEF Call
<1> HIDE DEF c
<1>6. QED
  BY <1>2, <1>3, <1>4, <1>5, ReportStep

\* Claiming a key that nobody holds and nobody has claimed.
LEMMA ClaimStep ==
    ASSUME IInv, NEW r \in Calls, Claim(r)
    PROVE  IInv'
<1> DEFINE c == [calls[r] EXCEPT !.stage = "claimed"]
<1>1. calls[r] \in Call /\ calls \in [Calls -> Call]
  BY DEF IInv, TypeOK
<1>2. calls' = [calls EXCEPT ![r] = c] /\ UNCHANGED committed /\ late' = late
  BY <1>1 DEF Claim
<1>3. c \in Call
  BY <1>1 DEF Call, Stages
<1>4. /\ c.stage = "claimed" /\ c.event = calls[r].event
      /\ c.cmd = calls[r].cmd /\ c.key = calls[r].key
      /\ c.payload = calls[r].payload /\ c.expected = calls[r].expected
  BY <1>1 DEF Call
<1>5. /\ calls[r].stage = "sent"
      /\ claims[<<c.cmd, c.key>>] = 0
      /\ \A o \in Calls \ {r} :
            calls[o].stage \in {"claimed", "locked"} =>
                <<calls[o].cmd, calls[o].key>> # <<c.cmd, c.key>>
  BY <1>4 DEF Claim, KeyFree, ScopedKey
<1> HIDE DEF c
<1>6. Admissible(r, c)
  BY <1>3, <1>4, <1>5, CallFacts DEF Admissible
<1>7. QED
  BY <1>2, <1>6, QuietStep

\* A key already claimed answers its call without a write.
LEMMA KeyAnsweredStep ==
    ASSUME IInv, NEW r \in Calls, RefuseKeyReuse(r) \/ Replay(r)
    PROVE  IInv'
<1>1. calls[r] \in Call /\ calls \in [Calls -> Call]
  BY DEF IInv, TypeOK
<1>2. CASE RefuseKeyReuse(r)
  <2> DEFINE c == [calls[r] EXCEPT !.stage = "answered", !.code = "idempotency_conflict"]
  <2>1. calls' = [calls EXCEPT ![r] = c] /\ UNCHANGED committed /\ late' = late
    BY <1>1, <1>2 DEF RefuseKeyReuse
  <2>2. c \in Call
    BY <1>1 DEF Call, Stages, Codes
  <2>3. /\ c.stage = "answered" /\ c.event = calls[r].event
        /\ c.cmd = calls[r].cmd /\ c.key = calls[r].key
        /\ c.payload = calls[r].payload /\ c.expected = calls[r].expected
    BY <1>1 DEF Call
  <2> HIDE DEF c
  <2>4. QED
    BY <2>1, <2>2, <2>3, ReportStep
<1>3. CASE Replay(r)
  <2> DEFINE e == claims[ScopedKey(r)]
             code == IF Replayable(events[e]) THEN "ok" ELSE "internal_error"
             c == [calls[r] EXCEPT !.stage = "answered", !.event = e, !.code = code]
  <2>1. calls' = [calls EXCEPT ![r] = c] /\ UNCHANGED committed /\ late' = late
    BY <1>1, <1>3 DEF Replay
  <2>2. calls[r].stage = "sent" /\ e # 0 /\ SameRequest(r, events[e])
    BY <1>3 DEF Replay
  <2>3. calls[r].cmd \in Kinds /\ calls[r].key \in Keys
    BY <1>1, <2>2, CallFacts DEF Call
  <2>4. /\ e \in 1 .. Len(events)
        /\ events[e].cmd = calls[r].cmd
        /\ events[e].key = calls[r].key
    BY <2>2, <2>3 DEF IInv, ClaimsAnswered, ScopedKey
  <2>5. code \in Codes
    BY DEF Codes
  <2>6. e \in Nat
    BY <2>4
  <2> HIDE DEF e, code
  <2>7. c \in Call
    BY <1>1, <2>5, <2>6 DEF Call, Stages
  <2>8. /\ c.stage = "answered" /\ c.event = e
        /\ c.cmd = calls[r].cmd /\ c.key = calls[r].key
        /\ c.payload = calls[r].payload /\ c.expected = calls[r].expected
    BY <1>1 DEF Call
  <2> HIDE DEF c
  <2>9. QED
    BY <2>1, <2>2, <2>4, <2>7, <2>8, ReportStep DEF SameRequest
<1>4. QED
  BY <1>2, <1>3

\* Taking the row lock: nobody else holds the row, and it is as expected.
LEMMA LockStep ==
    ASSUME IInv, NEW r \in Calls, Lock(r)
    PROVE  IInv'
<1>1. calls[r] \in Call /\ calls \in [Calls -> Call] /\ session \in Session
  BY DEF IInv, TypeOK
<1>2. CASE LockRefusal(r) = "none"
  <2> DEFINE c == [calls[r] EXCEPT !.stage = "locked", !.loaded = session]
  <2>1. calls' = [calls EXCEPT ![r] = c] /\ UNCHANGED committed /\ late' = late
    BY <1>1, <1>2 DEF Lock
  <2>2. c \in Call
    BY <1>1 DEF Call, Stages
  <2>3. /\ c.stage = "locked" /\ c.loaded = session /\ c.event = calls[r].event
        /\ c.cmd = calls[r].cmd /\ c.key = calls[r].key
        /\ c.payload = calls[r].payload /\ c.expected = calls[r].expected
    BY <1>1 DEF Call
  <2>4. /\ calls[r].stage = "claimed" /\ calls[r].cmd \in Commands
        /\ calls[r].expected = session.version /\ session.status = "active"
        /\ \A o \in Calls \ {r} : calls[o].stage # "locked"
    BY <1>2 DEF Lock, LockRefusal, RowFree
  <2>5. /\ claims[<<c.cmd, c.key>>] = 0
        /\ \A o \in Calls \ {r} :
              calls[o].stage \in {"claimed", "locked"} =>
                  <<calls[o].cmd, calls[o].key>> # <<c.cmd, c.key>>
    BY <2>3, <2>4 DEF IInv, HoldersExclusive, ScopedKey
  <2> HIDE DEF c
  <2>6. Admissible(r, c)
    BY <2>2, <2>3, <2>4, <2>5, CallFacts DEF Admissible
  <2>7. QED
    BY <2>1, <2>6, QuietStep
<1>3. CASE LockRefusal(r) # "none"
  <2>1. LockRefusal(r) \in Codes
    BY DEF LockRefusal, Codes
  <2>2. Refused(r, LockRefusal(r)) /\ UNCHANGED committed /\ late' = late
    BY <1>3 DEF Lock
  <2>3. QED
    BY <2>1, <2>2, RefusedStep
<1>4. QED
  BY <1>2, <1>3

\* A refused command reports its code and writes nothing.
LEMMA RefuseStep ==
    ASSUME IInv, NEW r \in Calls, NEW outcome, Refuse(r, outcome)
    PROVE  IInv'
<1> DEFINE code == Refusal(calls[r].cmd, calls[r].loaded, plans, calls[r].payload, outcome)
<1>1. calls[r].cmd \in Commands
  BY CallFacts DEF Refuse
<1>2. code \in Codes
  BY <1>1 DEF Refusal, Commands, PlanCommands, SelectRefusal, AdvanceRefusal,
              GenerateRefusal, OverrideRefusal, ApproveRefusal, Codes
<1>3. Refused(r, code) /\ UNCHANGED committed /\ late' = late
  BY DEF Refuse
<1> HIDE DEF code
<1>4. QED
  BY <1>2, <1>3, RefusedStep

\* The two statements of a read take no lock and write nothing.
LEMMA ReadStep ==
    ASSUME IInv, NEW r \in Calls, ReadSession(r) \/ ReadPlans(r)
    PROVE  IInv'
<1>1. /\ calls[r] \in Call /\ calls \in [Calls -> Call]
      /\ session \in Session /\ late \in BOOLEAN /\ Len(plans) \in Nat
  BY DEF IInv, TypeOK
<1>2. CASE ReadSession(r)
  <2> DEFINE c == [calls[r] EXCEPT !.stage = "listing", !.loaded = session, !.wasLate = late]
  <2>1. calls' = [calls EXCEPT ![r] = c] /\ UNCHANGED committed /\ late' = late
    BY <1>1, <1>2 DEF ReadSession
  <2>2. c \in Call
    BY <1>1 DEF Call, Stages
  <2>3. /\ c.stage = "listing" /\ c.event = calls[r].event
        /\ c.cmd = calls[r].cmd /\ c.key = calls[r].key
        /\ c.payload = calls[r].payload /\ c.expected = calls[r].expected
    BY <1>1 DEF Call
  <2> HIDE DEF c
  <2>4. QED
    BY <2>1, <2>2, <2>3, ReportStep
<1>3. CASE ReadPlans(r)
  <2> DEFINE n == Len(plans)
             c == [calls[r] EXCEPT !.stage = "answered", !.runs = n]
  <2>1. calls' = [calls EXCEPT ![r] = c] /\ UNCHANGED committed /\ late' = late
    BY <1>1, <1>3 DEF ReadPlans
  <2>2. n \in Nat
    BY <1>1
  <2> HIDE DEF n
  <2>3. c \in Call
    BY <1>1, <2>2 DEF Call, Stages
  <2>4. /\ c.stage = "answered" /\ c.event = calls[r].event
        /\ c.cmd = calls[r].cmd /\ c.key = calls[r].key
        /\ c.payload = calls[r].payload /\ c.expected = calls[r].expected
    BY <1>1 DEF Call
  <2> HIDE DEF c
  <2>5. QED
    BY <2>1, <2>3, <2>4, ReportStep
<1>4. QED
  BY <1>2, <1>3

\* A step that commits event e for the call r, the only writer, and answers it.
LEMMA WriteStep ==
    ASSUME IInv, NEW r \in Calls, NEW e \in Event, NEW c \in Call,
           calls[r].stage \in {"claimed", "locked"},
           \A o \in Calls \ {r} : calls[o].stage # "locked",
           e.cmd = calls[r].cmd, e.key = calls[r].key,
           e.payload = calls[r].payload, e.expected = calls[r].expected,
           e.expected = session.version, e.before = session,
           e.after.version = session.version + 1,
           events = <<>> => e.cmd = "create",
           session' = e.after, plans' \in Seq(Plan), events' = Append(events, e),
           claims' = [claims EXCEPT ![ScopedKey(r)] = Len(events) + 1],
           c.stage = "answered", c.event = Len(events) + 1,
           c.cmd = calls[r].cmd, c.key = calls[r].key,
           c.payload = calls[r].payload, c.expected = calls[r].expected,
           calls' = [calls EXCEPT ![r] = c], late' = late
    PROVE  IInv'
<1> DEFINE n == Len(events)
<1>0. /\ calls \in [Calls -> Call] /\ events \in Seq(Event) /\ n \in Nat
      /\ claims \in [Kinds \X Keys -> Nat] /\ late \in BOOLEAN /\ session \in Session
      /\ n = session.version
  BY DEF IInv, TypeOK, AuditTrail
<1>1. /\ Len(events') = n + 1
      /\ events'[n + 1] = e
      /\ \A v \in 1 .. n : events'[v] = events[v]
      /\ 1 .. Len(events') = (1 .. n) \cup {n + 1}
      /\ events' \in Seq(Event)
  BY <1>0
<1>2. calls'[r] = c /\ \A o \in Calls \ {r} : calls'[o] = calls[o]
  BY <1>0
<1>3. ScopedKey(r) \in Kinds \X Keys /\ ScopedKey(r) = <<e.cmd, e.key>>
  BY <1>0, CallFacts DEF ScopedKey, Call
<1>4. claims[ScopedKey(r)] = 0
  BY DEF IInv, HoldersExclusive
<1>5. /\ claims'[ScopedKey(r)] = n + 1
      /\ \A k \in Kinds \X Keys : k # ScopedKey(r) => claims'[k] = claims[k]
  BY <1>0, <1>3
<1>6. \A v \in 1 .. n : <<events[v].cmd, events[v].key>> # ScopedKey(r)
  BY <1>4 DEF IInv, ClaimsAnswered
<1>7. \A v \in 1 .. n : <<events[v].cmd, events[v].key>> \in Kinds \X Keys
  <2>1. ASSUME NEW v \in 1 .. n
        PROVE  events[v].cmd \in Kinds /\ events[v].key \in Keys
    <3>1. events[v] \in Event
      BY <1>0
    <3>2. QED
      BY <3>1 DEF Event
  <2>2. QED
    BY <2>1
<1>8. TypeOK'
  <2>1. session' \in Session
    BY DEF Event
  <2>2. claims' \in [Kinds \X Keys -> Nat]
    <3> DEFINE scoped == Kinds \X Keys
               m == n + 1
    <3>1. claims \in [scoped -> Nat] /\ m \in Nat
      BY <1>0
    <3>2. claims' = [claims EXCEPT ![ScopedKey(r)] = m]
      OBVIOUS
    <3> HIDE DEF scoped, m
    <3>3. claims' \in [scoped -> Nat]
      BY <3>1, <3>2
    <3>4. QED
      BY <3>3 DEF scoped
  <2>3. calls' \in [Calls -> Call]
    BY <1>0
  <2>4. QED
    BY <1>0, <1>1, <2>1, <2>2, <2>3 DEF TypeOK
<1>9. AuditTrail'
  <2>1. Len(events') = session'.version
    BY <1>0, <1>1
  <2>2. session'.version > 0 => session' = events'[session'.version].after
    BY <1>0, <1>1
  <2>3. ASSUME NEW v \in 1 .. Len(events')
        PROVE  /\ events'[v].expected = v - 1
               /\ events'[v].before = IF v = 1 THEN NoSession ELSE events'[v - 1].after
               /\ events'[v].after.version = v
    <3>1. CASE v \in 1 .. n
      <4>1. /\ events[v].expected = v - 1
            /\ events[v].before = IF v = 1 THEN NoSession ELSE events[v - 1].after
            /\ events[v].after.version = v
        BY <3>1 DEF IInv, AuditTrail
      <4>2. v # 1 => v - 1 \in 1 .. n
        BY <3>1, <1>0
      <4>3. QED
        BY <4>1, <4>2, <3>1, <1>1
    <3>2. CASE v = n + 1
      <4>1. n = 0 => session = NoSession
        BY <1>0 DEF IInv, Origins
      <4>2. n # 0 => session = events[n].after /\ events'[n] = events[n]
        BY <1>0, <1>1 DEF IInv, AuditTrail
      <4>3. QED
        BY <4>1, <4>2, <3>2, <1>0, <1>1
    <3>3. QED
      BY <3>1, <3>2, <1>1
  <2>4. QED
    BY <2>1, <2>2, <2>3 DEF AuditTrail
<1>10. ExactlyOnce'
  <2>1. ASSUME NEW v \in 1 .. Len(events'), NEW w \in 1 .. Len(events'),
               events'[v].cmd = events'[w].cmd, events'[v].key = events'[w].key
        PROVE  v = w
    <3>1. CASE v \in 1 .. n /\ w \in 1 .. n
      BY <3>1, <2>1, <1>1 DEF IInv, ExactlyOnce
    <3>2. CASE v = n + 1 /\ w \in 1 .. n
      BY <3>2, <2>1, <1>1, <1>3, <1>6
    <3>3. CASE v \in 1 .. n /\ w = n + 1
      BY <3>3, <2>1, <1>1, <1>3, <1>6
    <3>4. QED
      BY <3>1, <3>2, <3>3, <1>1
  <2>2. ASSUME NEW o \in Calls, calls'[o].event # 0
        PROVE  /\ calls'[o].event \in 1 .. Len(events')
               /\ events'[calls'[o].event].cmd = calls'[o].cmd
               /\ events'[calls'[o].event].key = calls'[o].key
               /\ events'[calls'[o].event].payload = calls'[o].payload
               /\ events'[calls'[o].event].expected = calls'[o].expected
    <3>1. CASE o = r
      BY <3>1, <1>0, <1>1, <1>2
    <3>2. CASE o # r
      <4>1. calls'[o] = calls[o]
        BY <3>2, <1>2
      <4>2. QED
        BY <4>1, <2>2, <1>1, CallFacts
    <3>3. QED
      BY <3>1, <3>2
  <2>3. QED
    BY <2>1, <2>2 DEF ExactlyOnce
<1>11. LockedRowIsCurrent'
  BY <1>2 DEF LockedRowIsCurrent
<1>12. ClaimsAnswered'
  <2>1. ASSUME NEW k \in Kinds \X Keys, claims'[k] # 0
        PROVE  /\ claims'[k] \in 1 .. Len(events')
               /\ k = <<events'[claims'[k]].cmd, events'[claims'[k]].key>>
    <3>1. CASE k = ScopedKey(r)
      BY <3>1, <1>0, <1>1, <1>3, <1>5
    <3>2. CASE k # ScopedKey(r)
      <4>1. claims'[k] = claims[k]
        BY <3>2, <1>5
      <4>2. claims[k] \in 1 .. n /\ k = <<events[claims[k]].cmd, events[claims[k]].key>>
        BY <4>1, <2>1 DEF IInv, ClaimsAnswered
      <4>3. QED
        BY <4>1, <4>2, <1>1
    <3>3. QED
      BY <3>1, <3>2
  <2>2. ASSUME NEW v \in 1 .. Len(events')
        PROVE  claims'[<<events'[v].cmd, events'[v].key>>] = v
    <3>1. CASE v \in 1 .. n
      <4>1. claims[<<events[v].cmd, events[v].key>>] = v
        BY <3>1 DEF IInv, ClaimsAnswered
      <4>2. QED
        BY <4>1, <3>1, <1>1, <1>5, <1>6, <1>7
    <3>2. CASE v = n + 1
      BY <3>2, <1>1, <1>3, <1>5
    <3>3. QED
      BY <3>1, <3>2, <1>1
  <2>3. QED
    BY <2>1, <2>2 DEF ClaimsAnswered
<1>13. HoldersExclusive'
  <2>1. ASSUME NEW o \in Calls, calls'[o].stage \in {"claimed", "locked"}
        PROVE  /\ o # r /\ calls'[o] = calls[o]
               /\ <<calls[o].cmd, calls[o].key>> # ScopedKey(r)
               /\ <<calls[o].cmd, calls[o].key>> \in Kinds \X Keys
    <3>1. o # r /\ calls'[o] = calls[o]
      BY <2>1, <1>2
    <3>2. <<calls[o].cmd, calls[o].key>> # ScopedKey(r)
      BY <2>1, <3>1 DEF IInv, HoldersExclusive, ScopedKey
    <3>3. <<calls[o].cmd, calls[o].key>> \in Kinds \X Keys
      BY <2>1, <3>1, CallFacts DEF Call
    <3>4. QED
      BY <3>1, <3>2, <3>3
  <2>2. QED
    BY <2>1, <1>2, <1>5 DEF IInv, HoldersExclusive, ScopedKey
<1>14. Origins'
  <2>1. ASSUME NEW o \in Calls
        PROVE  /\ calls'[o].cmd = calls[o].cmd
               /\ calls'[o].key = calls[o].key
               /\ calls'[o].payload = calls[o].payload
               /\ calls'[o].expected = calls[o].expected
               /\ calls'[o].stage = calls[o].stage \/ calls'[o].stage = "answered"
    BY <1>2
  <2>2. events'[1].cmd = "create" /\ events'[1].key = CreateKey
    <3>1. CASE events = <<>>
      BY <3>1, <1>1, CallFacts
    <3>2. CASE events # <<>>
      <4>1. 1 \in 1 .. n
        BY <3>2, <1>0
      <4>2. QED
        BY <4>1, <3>2, <1>1 DEF IInv, Origins
    <3>3. QED
      BY <3>1, <3>2
  <2>3. events' # <<>>
    BY <1>0, <1>1
  <2>4. QED
    BY <2>1, <2>2, <2>3 DEF IInv, Origins
<1>15. QED
  BY <1>8, <1>9, <1>10, <1>11, <1>12, <1>13, <1>14 DEF IInv

\* A claimed creation finds no session: had there been one, its event would
\* answer for the very key that the creation has just claimed.
LEMMA CreateFindsNothing ==
    ASSUME IInv, NEW r \in Calls, Create(r)
    PROVE  events = <<>>
<1>1. /\ calls[r].key = CreateKey /\ events \in Seq(Event)
      /\ calls[r].stage = "claimed" /\ calls[r].cmd = "create"
  BY CallFacts DEF Create, IInv, TypeOK
<1>2. claims[<<"create", CreateKey>>] = 0
  BY <1>1 DEF IInv, HoldersExclusive, ScopedKey
<1>3. SUFFICES ASSUME events # <<>> PROVE FALSE
  OBVIOUS
<1>4. 1 \in 1 .. Len(events)
  BY <1>1, <1>3
<1>5. events[1].cmd = "create" /\ events[1].key = CreateKey
  BY <1>3 DEF IInv, Origins
<1>6. claims[<<events[1].cmd, events[1].key>>] = 1
  BY <1>4 DEF IInv, ClaimsAnswered
<1>7. QED
  BY <1>2, <1>5, <1>6

\* The creation is the first event, and finds no other.
LEMMA CreateStep ==
    ASSUME IInv, NEW r \in Calls, Create(r)
    PROVE  IInv'
<1> DEFINE e == [ cmd |-> "create", key |-> calls[r].key, payload |-> calls[r].payload,
                  expected |-> 0, before |-> NoSession, after |-> NewSession, runs |-> 0,
                  response |-> Projection(NewSession, <<>>, FALSE) ]
           c == [calls[r] EXCEPT !.stage = "answered", !.code = "ok", !.event = 1]
<1>1. /\ calls[r] \in Call /\ calls \in [Calls -> Call] /\ events \in Seq(Event)
      /\ calls[r].key = CreateKey /\ calls[r].expected = 0
      /\ calls[r].stage = "claimed" /\ calls[r].cmd = "create"
  BY CallFacts DEF Create, IInv, TypeOK
<1>3. events = <<>>
  BY CreateFindsNothing
<1>4. Len(events) = 0 /\ session = NoSession /\ session.version = 0
  BY <1>3 DEF IInv, Origins, NoSession
<1>5. \A o \in Calls \ {r} : calls[o].stage # "locked"
  <2>1. SUFFICES ASSUME NEW o \in Calls, calls[o].stage = "locked" PROVE FALSE
    OBVIOUS
  <2>2. calls[o].expected \in 1 .. MaxVersion - 1
    BY <2>1, CallFacts
  <2>3. calls[o].expected = 0
    BY <2>1, <1>4 DEF IInv, LockedRowIsCurrent
  <2>4. QED
    BY <2>2, <2>3, CallsAssumption
<1>6. e \in Event
  <2>1. Projection(NewSession, <<>>, FALSE) \in View
    <3>1. <<>> \in Seq(Plan) /\ FALSE \in BOOLEAN /\ NewSession \in Session
      BY NoSessionType
    <3>2. QED
      BY <3>1, ProjectionType, Zenon
  <2>2. "create" \in Kinds
    BY DEF Kinds
  <2>3. calls[r].key \in Keys /\ calls[r].payload \in Payloads
    BY <1>1 DEF Call
  <2>4. QED
    BY <2>1, <2>2, <2>3, NoSessionType DEF Event
<1>7. c \in Call
  BY <1>1 DEF Call, Stages, Codes
<1>8. /\ session' = e.after /\ plans' \in Seq(Plan) /\ events' = Append(events, e)
      /\ claims' = [claims EXCEPT ![ScopedKey(r)] = Len(events) + 1]
      /\ calls' = [calls EXCEPT ![r] = c] /\ late' = late
  <2>1. session' = e.after /\ late' = late
    BY DEF Create
  <2>2. plans' \in Seq(Plan)
    BY DEF Create
  <2>3. events' = Append(events, e)
    <3>1. events' = <<e>>
      BY DEF Create
    <3> HIDE DEF e
    <3>2. QED
      BY <3>1, <1>3
  <2>4. claims' = [claims EXCEPT ![ScopedKey(r)] = Len(events) + 1]
    BY <1>4 DEF Create
  <2>5. calls' = [calls EXCEPT ![r] = c]
    BY <1>1 DEF Create
  <2>6. QED
    BY <2>1, <2>2, <2>3, <2>4, <2>5
<1>9. /\ e.cmd = calls[r].cmd /\ e.key = calls[r].key
      /\ e.payload = calls[r].payload /\ e.expected = calls[r].expected
      /\ e.cmd = "create" /\ e.expected = session.version /\ e.before = session
      /\ e.after.version = session.version + 1
  BY <1>1, <1>4 DEF NewSession, NoSession
<1>10. /\ c.stage = "answered" /\ c.event = Len(events) + 1
       /\ c.cmd = calls[r].cmd /\ c.key = calls[r].key
       /\ c.payload = calls[r].payload /\ c.expected = calls[r].expected
  BY <1>1, <1>4 DEF Call
<1> HIDE DEF e, c
<1>11. calls[r].stage \in {"claimed", "locked"}
  BY <1>1
<1>12. QED
  BY <1>5, <1>6, <1>7, <1>8, <1>9, <1>10, <1>11, WriteStep

\* An accepted command starts from the row it locked, which is the committed one.
LEMMA CommitStep ==
    ASSUME IInv, NEW r \in Calls, NEW outcome \in Outcome, Commit(r, outcome)
    PROVE  IInv'
<1> DEFINE cmd == calls[r].cmd
           after == SessionAfter(cmd, calls[r].loaded, plans, calls[r].payload)
           runs == PlansAfter(cmd, calls[r].loaded, plans, outcome)
           e == [ cmd |-> cmd, key |-> calls[r].key, payload |-> calls[r].payload,
                  expected |-> calls[r].expected, before |-> calls[r].loaded,
                  after |-> after, runs |-> Len(runs),
                  response |-> Projection(after, runs, late) ]
           n == Len(events) + 1
           c == [calls[r] EXCEPT !.stage = "answered", !.code = "ok", !.event = n]
<1>1. /\ calls[r] \in Call /\ calls \in [Calls -> Call] /\ events \in Seq(Event)
      /\ session \in Session /\ plans \in Seq(Plan) /\ late \in BOOLEAN
      /\ calls[r].stage = "locked"
  BY DEF Commit, IInv, TypeOK
<1>2. /\ calls[r].loaded = session /\ calls[r].expected = session.version
      /\ cmd \in Commands /\ calls[r].expected \in 1 .. MaxVersion - 1
  BY <1>1, CallFacts DEF IInv, LockedRowIsCurrent
<1>3. Refusal(cmd, session, plans, calls[r].payload, outcome) = "none"
  BY <1>2 DEF Commit
<1>4. after \in Session /\ after.version = session.version + 1
  BY <1>1, <1>2, <1>3, W!SessionAfterType, ObjectiveAssumption, SameRules
<1>5. runs \in Seq(Plan)
  BY <1>1, <1>2, <1>3, W!PlansAfterType, ObjectiveAssumption, SameRules
<1>6. n \in Nat
  BY <1>1
<1>7. /\ session' = after /\ plans' = runs /\ events' = Append(events, e)
      /\ claims' = [claims EXCEPT ![ScopedKey(r)] = Len(events) + 1]
      /\ calls' = [calls EXCEPT ![r] = c] /\ late' = late
  BY <1>1 DEF Commit
<1> HIDE DEF after, runs
<1>8. e \in Event
  <2>1. Projection(after, runs, late) \in View
    BY <1>1, <1>4, <1>5, ProjectionType
  <2>2. cmd \in Kinds /\ Len(runs) \in Nat
    BY <1>2, <1>5 DEF Kinds
  <2>3. calls[r].key \in Keys /\ calls[r].payload \in Payloads /\ calls[r].expected \in Nat
    BY <1>1 DEF Call
  <2>4. QED
    BY <2>1, <2>2, <2>3, <1>1, <1>2, <1>4 DEF Event
<1>9. events # <<>>
  <2>1. Len(events) # 0
    BY <1>1, <1>2, CallsAssumption DEF IInv, AuditTrail
  <2>2. QED
    BY <1>1, <2>1
<1>10. \A o \in Calls \ {r} : calls[o].stage # "locked"
  BY <1>1 DEF IInv, HoldersExclusive
<1>11. /\ e.cmd = calls[r].cmd /\ e.key = calls[r].key
       /\ e.payload = calls[r].payload /\ e.expected = calls[r].expected
       /\ e.expected = session.version /\ e.before = session
       /\ e.after = after
  BY <1>2
<1> HIDE DEF e, n
<1>12. c \in Call
  BY <1>1, <1>6 DEF Call, Stages, Codes
<1>13. /\ c.stage = "answered" /\ c.event = n
       /\ c.cmd = calls[r].cmd /\ c.key = calls[r].key
       /\ c.payload = calls[r].payload /\ c.expected = calls[r].expected
  BY <1>1 DEF Call
<1> HIDE DEF c
<1>14. c.event = Len(events) + 1
  BY <1>13 DEF n
<1>15. e.after.version = session.version + 1 /\ session' = e.after /\ plans' \in Seq(Plan)
  BY <1>4, <1>5, <1>7, <1>11
<1>16. calls[r].stage \in {"claimed", "locked"}
  BY <1>1
<1>17. QED
  BY <1>7, <1>8, <1>9, <1>10, <1>11, <1>12, <1>13, <1>14, <1>15, <1>16, WriteStep

\* Every step of the service, and every step that leaves it alone, keeps IInv.
LEMMA NextIInv == IInv /\ [Next]_vars => IInv'
<1> SUFFICES ASSUME IInv, [Next]_vars PROVE IInv'
  OBVIOUS
<1>1. CASE UNCHANGED vars
  <2>1. (TypeOK /\ AuditTrail /\ ExactlyOnce)'
    BY <1>1 DEF vars, IInv, TypeOK, AuditTrail, ExactlyOnce
  <2>2. (LockedRowIsCurrent /\ ClaimsAnswered)'
    BY <1>1 DEF vars, IInv, LockedRowIsCurrent, ClaimsAnswered
  <2>3. (HoldersExclusive /\ Origins)'
    BY <1>1 DEF vars, IInv, HoldersExclusive, Origins, ScopedKey
  <2>4. QED
    BY <2>1, <2>2, <2>3 DEF IInv
<1>2. CASE Expire
  <2>1. UNCHANGED <<session, plans, events, claims, calls>> /\ late' \in BOOLEAN
    BY <1>2 DEF Expire, committed
  <2>2. TypeOK'
    BY <2>1 DEF IInv, TypeOK
  <2>3. (AuditTrail /\ ExactlyOnce /\ LockedRowIsCurrent /\ ClaimsAnswered)'
    BY <2>1 DEF IInv, AuditTrail, ExactlyOnce, LockedRowIsCurrent, ClaimsAnswered
  <2>4. events # <<>>
    BY <1>2 DEF Expire, IInv, AuditTrail, Origins
  <2>5. (HoldersExclusive /\ Origins)'
    BY <2>1, <2>4 DEF IInv, HoldersExclusive, Origins, ScopedKey
  <2>6. QED
    BY <2>2, <2>3, <2>5 DEF IInv
<1>3. ASSUME NEW r \in Calls,
             SendCreate(r) \/ (\E q \in Requests : SendCommand(r, q)) \/ SendGet(r)
      PROVE  IInv'
  BY <1>3, SendStep
<1>4. ASSUME NEW r \in Calls, Finish(r) \/ Drop(r)
      PROVE  IInv'
  BY <1>4, FreedStep DEF Finish, Drop
<1>5. ASSUME NEW r \in Calls, Acquire(r)
      PROVE  IInv'
  BY <1>5, ClaimStep, KeyAnsweredStep, LockStep DEF Acquire
<1>6. ASSUME NEW r \in Calls, Execute(r)
      PROVE  IInv'
  <2>1. PICK outcome \in OutcomesOf(calls[r].cmd, calls[r].loaded) :
             Refuse(r, outcome) \/ Commit(r, outcome)
    BY <1>6 DEF Execute
  <2>2. outcome \in Outcome
    <3>1. Unsolved \in Outcome
      BY DEF Outcome, Unsolved
    <3>2. QED
      BY <3>1 DEF OutcomesOf
  <2>3. QED
    BY <2>1, <2>2, RefuseStep, CommitStep
<1>7. ASSUME NEW r \in Calls, Proceed(r)
      PROVE  IInv'
  BY <1>6, <1>7, CreateStep, ReadStep DEF Proceed
<1>8. QED
  BY <1>1, <1>2, <1>3, <1>4, <1>5, <1>7 DEF Next, ClientNext

-------------------------------------------------------------------------------
(* The results.                                                              *)

\* The conjunction IInv of the type invariant and the safety invariants is
\* inductive: it holds in every reachable state of the service.
THEOREM Invariance == Spec => []IInv
<1>1. Init => IInv
  BY InitIInv
<1>2. IInv /\ [Next]_vars => IInv'
  BY NextIInv
<1>3. QED
  BY <1>1, <1>2, PTL DEF Spec

\* The type invariant alone.
THEOREM TypeCorrectness == Spec => []TypeOK
BY Invariance, PTL DEF IInv

\* No interleaving of the service's transactions loses, forks or skips an
\* update of the session row.
THEOREM AuditTrailKept == Spec => []AuditTrail
BY Invariance, PTL DEF IInv

\* No request is carried out twice under one key, and every reported success
\* is the event of that request.
THEOREM ExactlyOnceKept == Spec => []ExactlyOnce
BY Invariance, PTL DEF IInv

\* The row a transaction plans on is the committed one until it ends.
THEOREM LockedRowCurrent == Spec => []LockedRowIsCurrent
BY Invariance, PTL DEF IInv

\* Claims and events are committed together or not at all.
THEOREM ClaimsAlwaysAnswered == Spec => []ClaimsAnswered
BY Invariance, PTL DEF IInv

\* Past the expiry, once the transactions admitted before it have ended, the row,
\* its plans, events and claims never change and no command is admitted again.
THEOREM ExpiryFinal == Spec => ExpiredIsFinal
<1>1. IInv /\ [Next]_vars => [ReadOnly => UNCHANGED committed /\ ReadOnly']_vars
  <2> SUFFICES ASSUME IInv, Next, ReadOnly
               PROVE  UNCHANGED committed /\ ReadOnly'
    OBVIOUS
  <2>0. late /\ calls \in [Calls -> Call] /\ \A r \in Calls : calls[r].stage # "locked"
    BY DEF ReadOnly, IInv, TypeOK
  <2>1. ASSUME ClientNext PROVE UNCHANGED committed /\ ReadOnly'
    <3>1. ~Expire
      BY <2>0 DEF Expire
    <3>2. PICK r \in Calls : \/ SendCreate(r)
                            \/ (\E q \in Requests : SendCommand(r, q))
                            \/ SendGet(r) \/ Finish(r) \/ Drop(r)
      BY <2>1, <3>1 DEF ClientNext
    <3>3. UNCHANGED <<committed, late>>
      BY <3>2 DEF SendCreate, SendCommand, SendGet, Finish, Drop
    <3>4. PICK c : c.stage # "locked" /\ calls' = [calls EXCEPT ![r] = c]
      <4>1. CASE SendCreate(r) \/ SendGet(r) \/ Finish(r) \/ Drop(r)
        BY <4>1 DEF SendCreate, SendGet, Finish, Drop, Idle
      <4>2. CASE \E q \in Requests : SendCommand(r, q)
        BY <4>2 DEF SendCommand, Idle
      <4>3. QED
        BY <3>2, <4>1, <4>2
    <3>5. QED
      BY <2>0, <3>3, <3>4 DEF ReadOnly
  <2>2. ASSUME NEW r \in Calls, Acquire(r) PROVE UNCHANGED committed /\ ReadOnly'
    <3>1. LockRefusal(r) = "session_expired"
      BY <2>0 DEF LockRefusal
    <3>2. UNCHANGED <<committed, late>>
      BY <2>2 DEF Acquire, Claim, RefuseKeyReuse, Replay, Lock
    <3>3. CASE Claim(r)
      BY <2>0, <3>2, <3>3 DEF Claim, Call, ReadOnly
    <3>4. CASE RefuseKeyReuse(r)
      BY <2>0, <3>2, <3>4 DEF RefuseKeyReuse, Call, ReadOnly
    <3>5. CASE Replay(r)
      BY <2>0, <3>2, <3>5 DEF Replay, Call, ReadOnly
    <3>6. CASE Lock(r)
      BY <2>0, <3>1, <3>2, <3>6 DEF Lock, Refused, Call, ReadOnly
    <3>7. QED
      BY <2>2, <3>3, <3>4, <3>5, <3>6 DEF Acquire
  <2>3. ASSUME NEW r \in Calls, Create(r) PROVE FALSE
    <3>1. events = <<>>
      BY <2>3, CreateFindsNothing
    <3>2. QED
      BY <2>0, <3>1 DEF IInv, Origins
  <2>4. ASSUME NEW r \in Calls, Proceed(r) PROVE UNCHANGED committed /\ ReadOnly'
    <3>1. ReadSession(r) \/ ReadPlans(r)
      BY <2>0, <2>3, <2>4 DEF Proceed, Execute, Refuse, Commit
    <3>2. UNCHANGED <<committed, late>>
      BY <3>1 DEF ReadSession, ReadPlans
    <3>3. CASE ReadSession(r)
      BY <2>0, <3>2, <3>3 DEF ReadSession, Call, ReadOnly
    <3>4. CASE ReadPlans(r)
      BY <2>0, <3>2, <3>4 DEF ReadPlans, Call, ReadOnly
    <3>5. QED
      BY <3>1, <3>3, <3>4
  <2>5. QED
    BY <2>1, <2>2, <2>4 DEF Next
<1>2. QED
  BY <1>1, Invariance, PTL DEF Spec, ExpiredIsFinal

-------------------------------------------------------------------------------
(* The refinement.  The abstract specification carries its own copy of the   *)
(* rules; they are the same operators.                                       *)

\* ExerciseWorkflow's copy of the queries on plans.
LEMMA SameQueries ==
    ASSUME NEW runs, NEW k
    PROVE  /\ Workflow!LatestAt(runs, k) = LatestAt(runs, k)
           /\ Workflow!LatestOverridden(runs) = LatestOverridden(runs)
<1>1. ASSUME NEW S PROVE Workflow!LastIndex(S) = LastIndex(S)
  BY DEF Workflow!LastIndex, LastIndex
<1>2. QED
  BY <1>1 DEF Workflow!LatestAt, LatestAt, Workflow!LatestOverridden, LatestOverridden

\* Its copy of the constants.
LEMMA SameConstants ==
    /\ Workflow!Commands = Commands
    /\ Workflow!PlanCommands = PlanCommands
    /\ Workflow!FinalCheckpoint = FinalCheckpoint
    /\ Workflow!NoSession = NoSession
    /\ Workflow!NewSession = NewSession
<1>1. Workflow!NoSession = NoSession
  BY DEF Workflow!NoSession, NoSession
<1>2. Workflow!NewSession = NewSession
  BY <1>1 DEF Workflow!NewSession, NewSession
<1>3. QED
  BY <1>1, <1>2 DEF Workflow!Commands, Commands, Workflow!PlanCommands, PlanCommands,
                    Workflow!FinalCheckpoint, FinalCheckpoint

\* Its copy of the checks.
LEMMA SameRefusal ==
    ASSUME NEW cmd \in Commands, NEW s, NEW runs, NEW payload, NEW outcome
    PROVE  Workflow!Refusal(cmd, s, runs, payload, outcome)
             = Refusal(cmd, s, runs, payload, outcome)
<1>1. \A p, t : Workflow!Actionable(p, t) = Actionable(p, t)
  BY DEF Workflow!Actionable, Actionable
<1>2. Workflow!SelectRefusal(s, runs, payload) = SelectRefusal(s, runs, payload)
  BY SameQueries DEF Workflow!SelectRefusal, SelectRefusal
<1>3. Workflow!AdvanceRefusal(s, runs) = AdvanceRefusal(s, runs)
  BY <1>1, SameQueries, SameConstants DEF Workflow!AdvanceRefusal, AdvanceRefusal
<1>4. Workflow!GenerateRefusal(s, runs) = GenerateRefusal(s, runs)
  BY SameQueries, SameConstants DEF Workflow!GenerateRefusal, GenerateRefusal
<1>5. Workflow!OverrideRefusal(s, runs, payload, outcome)
        = OverrideRefusal(s, runs, payload, outcome)
  BY SameQueries, SameConstants DEF Workflow!OverrideRefusal, OverrideRefusal
<1>6. Workflow!ApproveRefusal(s, runs, payload) = ApproveRefusal(s, runs, payload)
  BY SameQueries, SameConstants DEF Workflow!ApproveRefusal, ApproveRefusal
<1>7. QED
  BY <1>2, <1>3, <1>4, <1>5, <1>6
     DEF Workflow!Refusal, Refusal, Commands, PlanCommands

\* Its copy of what commands write.
LEMMA SameEffects ==
    ASSUME NEW cmd \in Commands, NEW s, NEW runs, NEW payload, NEW outcome
    PROVE  /\ Workflow!SessionAfter(cmd, s, runs, payload) = SessionAfter(cmd, s, runs, payload)
           /\ Workflow!PlansAfter(cmd, s, runs, outcome) = PlansAfter(cmd, s, runs, outcome)
<1>1. Workflow!Advanced(s, runs) = Advanced(s, runs)
  BY SameQueries DEF Workflow!Advanced, Advanced
<1>2. Workflow!SessionAfter(cmd, s, runs, payload) = SessionAfter(cmd, s, runs, payload)
  BY <1>1 DEF Workflow!SessionAfter, SessionAfter, Commands, PlanCommands
<1>3. Workflow!PlanFor(cmd, s, outcome) = PlanFor(cmd, s, outcome)
  BY DEF Workflow!PlanFor, PlanFor
<1>4. QED
  BY <1>2, <1>3, SameConstants DEF Workflow!PlansAfter, PlansAfter

\* Its copy of what commands may carry.
LEMMA SameInputs ==
    ASSUME NEW cmd, NEW s
    PROVE  /\ Workflow!PayloadsOf(cmd) = PayloadsOf(cmd)
           /\ Workflow!OutcomesOf(cmd, s) = OutcomesOf(cmd, s)
<1>1. Workflow!PayloadsOf(cmd) = PayloadsOf(cmd)
  BY DEF Workflow!PayloadsOf, PayloadsOf
<1>2. Workflow!Outcome = Outcome /\ Workflow!Unsolved = Unsolved
  BY DEF Workflow!Outcome, Outcome, Workflow!Unsolved, Unsolved
<1>3. QED
  BY <1>1, <1>2, SameConstants DEF Workflow!OutcomesOf, OutcomesOf

\* A commit is one abstract command, applied to the state it was decided on.
LEMMA CommitIsCommand ==
    ASSUME IInv, NEW r \in Calls,
           NEW outcome \in OutcomesOf(calls[r].cmd, calls[r].loaded), Commit(r, outcome)
    PROVE  Workflow!Next
<1> DEFINE cmd == calls[r].cmd
           payload == calls[r].payload
<1>1. calls[r].stage = "locked"
  BY DEF Commit
<1>2. /\ cmd \in Commands /\ payload \in PayloadsOf(cmd)
      /\ calls[r].expected \in 1 .. MaxVersion - 1
      /\ calls[r].loaded = session /\ calls[r].expected = session.version
      /\ session.status = "active"
  BY <1>1, CallFacts DEF IInv, LockedRowIsCurrent
<1>3. /\ Refusal(cmd, session, plans, payload, outcome) = "none"
      /\ session' = SessionAfter(cmd, session, plans, payload)
      /\ plans' = PlansAfter(cmd, session, plans, outcome)
  BY <1>2 DEF Commit
<1> HIDE DEF cmd, payload
<1>4. Workflow!Command(cmd, payload, outcome)
  BY <1>2, <1>3, SameRefusal, SameEffects DEF Workflow!Command
<1>5. /\ cmd \in Workflow!Commands /\ payload \in Workflow!PayloadsOf(cmd)
      /\ outcome \in Workflow!OutcomesOf(cmd, session)
  BY <1>2, SameInputs, SameConstants DEF cmd
<1>6. QED
  BY <1>4, <1>5 DEF Workflow!Next

\* Every step of the service is a step of the abstract workflow or invisible to it.
LEMMA StepSimulation == IInv /\ [Next]_vars => [Workflow!Next]_(Workflow!vars)
<1> SUFFICES ASSUME IInv, [Next]_vars
             PROVE  Workflow!Next \/ UNCHANGED <<session, plans>>
  BY DEF Workflow!vars
<1>1. CASE UNCHANGED vars
  BY <1>1 DEF vars
<1>2. CASE ClientNext
  BY <1>2 DEF ClientNext, Expire, SendCreate, SendCommand, SendGet, Finish, Drop, committed
<1>3. ASSUME NEW r \in Calls, Acquire(r) PROVE UNCHANGED <<session, plans>>
  BY <1>3 DEF Acquire, Claim, RefuseKeyReuse, Replay, Lock, committed
<1>4. ASSUME NEW r \in Calls, Create(r) PROVE Workflow!Next
  <2>1. session = NoSession /\ plans = <<>>
    BY <1>4, CreateFindsNothing DEF IInv, Origins
  <2>2. session' = NewSession /\ plans' = <<>>
    BY <1>4 DEF Create
  <2>3. Workflow!Create
    BY <2>1, <2>2, SameConstants DEF Workflow!Create
  <2>4. QED
    BY <2>3 DEF Workflow!Next
<1>5. ASSUME NEW r \in Calls, Execute(r) PROVE Workflow!Next \/ UNCHANGED <<session, plans>>
  <2>1. PICK outcome \in OutcomesOf(calls[r].cmd, calls[r].loaded) :
             Refuse(r, outcome) \/ Commit(r, outcome)
    BY <1>5 DEF Execute
  <2>2. CASE Refuse(r, outcome)
    BY <2>2 DEF Refuse, committed
  <2>3. CASE Commit(r, outcome)
    BY <2>3, CommitIsCommand
  <2>4. QED
    BY <2>1, <2>2, <2>3
<1>6. ASSUME NEW r \in Calls, ReadSession(r) \/ ReadPlans(r)
      PROVE  UNCHANGED <<session, plans>>
  BY <1>6 DEF ReadSession, ReadPlans, committed
<1>7. QED
  BY <1>1, <1>2, <1>3, <1>4, <1>5, <1>6 DEF Next, Proceed

\* Concurrent transactions, retries, refusals and rollbacks add up to whole
\* commands applied one at a time.
THEOREM Refinement == Spec => ImplementsWorkflow
<1>1. Init => Workflow!Init
  BY SameConstants DEF Init, Workflow!Init
<1>2. IInv /\ [Next]_vars => [Workflow!Next]_(Workflow!vars)
  BY StepSimulation
<1>3. QED
  BY <1>1, <1>2, Invariance, PTL DEF Spec, ImplementsWorkflow, Workflow!Spec

-------------------------------------------------------------------------------
(* What a read carried away.                                                 *)

\* A view read without a commit is of a version that was, and if that version
\* is still the current one, it is the whole truth: row and plans.
ReadFits(c) ==
    /\ c.stage \in {"sent", "claimed"} => c.loaded = NoSession
    /\ c.stage \in {"listing", "answered"} /\ c.event = 0 /\ c.loaded # NoSession =>
          /\ c.loaded.version <= session.version
          /\ c.loaded.version = session.version =>
                /\ c.loaded = session
                /\ c.stage = "answered" => c.runs = Len(plans)

ReadsFit == \A r \in Calls : ReadFits(calls[r])

\* A step that commits nothing disturbs no view but the one it makes.
LEMMA ReadsQuiet ==
    ASSUME IInv, ReadsFit, NEW r \in Calls, NEW c, ReadFits(c),
           calls' = [calls EXCEPT ![r] = c], UNCHANGED committed
    PROVE  ReadsFit'
<1>1. calls \in [Calls -> Call] /\ session' = session /\ plans' = plans
  BY DEF IInv, TypeOK, committed
<1>2. \A o \in Calls : calls'[o] = IF o = r THEN c ELSE calls[o]
  BY <1>1
<1>3. QED
  BY <1>1, <1>2 DEF ReadsFit, ReadFits

\* A commit overtakes every view read before it.
LEMMA ReadsOvertaken ==
    ASSUME IInv, ReadsFit, NEW r \in Calls, NEW c, c.stage = "answered", c.event # 0,
           calls' = [calls EXCEPT ![r] = c],
           session'.version = session.version + 1
    PROVE  ReadsFit'
<1> DEFINE v == session.version
<1>1. calls \in [Calls -> Call] /\ v \in Nat /\ session'.version = v + 1
  BY DEF IInv, TypeOK, Session
<1>2. \A o \in Calls : calls'[o] = IF o = r THEN c ELSE calls[o]
  BY <1>1
<1>3. \A o \in Calls : calls[o].loaded.version \in Nat
  BY <1>1 DEF Call, Session
<1> HIDE DEF v
<1>4. \A o \in Calls : /\ calls[o].loaded.version <= v =>
                             /\ calls[o].loaded.version <= v + 1
                             /\ calls[o].loaded.version # v + 1
  BY <1>1, <1>3
<1> SUFFICES ASSUME NEW o \in Calls PROVE ReadFits(calls[o])'
  BY DEF ReadsFit
<1>5. CASE o = r
  BY <1>2, <1>5 DEF ReadFits
<1>6. CASE o # r
  <2>1. calls'[o] = calls[o] /\ ReadFits(calls[o])
    BY <1>2, <1>6 DEF ReadsFit
  <2>2. calls[o].stage \in {"listing", "answered"} /\ calls[o].event = 0
           /\ calls[o].loaded # NoSession
        => calls[o].loaded.version <= v
    BY <2>1 DEF ReadFits, v
  <2>3. QED
    BY <1>1, <1>4, <2>1, <2>2 DEF ReadFits
<1>7. QED
  BY <1>5, <1>6

\* A refused call shows nothing it read before the refusal.
LEMMA ReadsRefused ==
    ASSUME IInv, ReadsFit, NEW r \in Calls, NEW code, Refused(r, code), UNCHANGED committed
    PROVE  ReadsFit'
<1> DEFINE stage == IF code \in {"transition_invalid", "version_conflict"}
                    THEN "querying" ELSE "answered"
           c == [calls[r] EXCEPT !.code = code, !.loaded = NoSession, !.stage = stage]
<1>1. calls[r] \in Call /\ calls \in [Calls -> Call]
  BY DEF IInv, TypeOK
<1>2. calls' = [calls EXCEPT ![r] = c]
  BY <1>1 DEF Refused
<1>3. stage \in {"querying", "answered"}
  OBVIOUS
<1> HIDE DEF stage
<1>4. c.loaded = NoSession /\ c.stage = stage
  BY <1>1 DEF Call
<1> HIDE DEF c
<1>5. ReadFits(c)
  BY <1>3, <1>4 DEF ReadFits
<1>6. QED
  BY <1>2, <1>5, ReadsQuiet

\* Every step keeps what the reads carried away true.
LEMMA ReadsFitStep == IInv /\ ReadsFit /\ [Next]_vars => ReadsFit'
<1> SUFFICES ASSUME IInv, ReadsFit, [Next]_vars PROVE ReadsFit'
  OBVIOUS
<1>0. /\ calls \in [Calls -> Call] /\ session \in Session /\ plans \in Seq(Plan)
      /\ \A r \in Calls : calls[r] \in Call
  BY DEF IInv, TypeOK
<1>1. CASE UNCHANGED vars
  BY <1>1 DEF vars, ReadsFit, ReadFits
<1>2. CASE Expire
  BY <1>2 DEF Expire, committed, ReadsFit, ReadFits
<1>3. ASSUME NEW r \in Calls, SendCreate(r) \/ SendGet(r) \/ \E q \in Requests : SendCommand(r, q)
      PROVE  ReadsFit'
  <2>1. PICK c : /\ calls' = [calls EXCEPT ![r] = c] /\ UNCHANGED committed
                 /\ c.loaded = NoSession /\ c.event = 0
    <3>1. CASE SendCreate(r)
      <4> DEFINE c == [Idle EXCEPT !.stage = "sent", !.cmd = "create"]
      <4>1. calls' = [calls EXCEPT ![r] = c] /\ UNCHANGED committed
        BY <3>1 DEF SendCreate
      <4>2. c.loaded = NoSession /\ c.event = 0
        BY DEF Idle
      <4> HIDE DEF c
      <4>3. QED
        BY <4>1, <4>2
    <3>2. CASE SendGet(r)
      <4> DEFINE c == [Idle EXCEPT !.stage = "querying", !.code = "ok"]
      <4>1. calls' = [calls EXCEPT ![r] = c] /\ UNCHANGED committed
        BY <3>2 DEF SendGet
      <4>2. c.loaded = NoSession /\ c.event = 0
        BY DEF Idle
      <4> HIDE DEF c
      <4>3. QED
        BY <4>1, <4>2
    <3>3. ASSUME NEW q \in Requests, SendCommand(r, q)
          PROVE  \E c : /\ calls' = [calls EXCEPT ![r] = c] /\ UNCHANGED committed
                        /\ c.loaded = NoSession /\ c.event = 0
      <4> DEFINE c == [Idle EXCEPT !.stage = "sent", !.cmd = q.cmd, !.payload = q.payload,
                                   !.expected = q.expected, !.key = q.key]
      <4>1. calls' = [calls EXCEPT ![r] = c] /\ UNCHANGED committed
        BY <3>3 DEF SendCommand
      <4>2. c.loaded = NoSession /\ c.event = 0
        BY DEF Idle
      <4>3. QED
        BY <4>1, <4>2
    <3>4. QED
      BY <1>3, <3>1, <3>2, <3>3
  <2>2. ReadFits(c)
    BY <2>1 DEF ReadFits
  <2>3. QED
    BY <2>1, <2>2, ReadsQuiet
<1>4. ASSUME NEW r \in Calls, Finish(r) \/ Drop(r) PROVE ReadsFit'
  <2>1. calls' = [calls EXCEPT ![r] = Idle] /\ UNCHANGED committed
    BY <1>4 DEF Finish, Drop
  <2>2. ReadFits(Idle)
    BY DEF ReadFits, Idle
  <2>3. QED
    BY <2>1, <2>2, ReadsQuiet
<1>5. ASSUME NEW r \in Calls, Claim(r) \/ RefuseKeyReuse(r) PROVE ReadsFit'
  <2>1. calls[r].loaded = NoSession
    BY <1>5 DEF Claim, RefuseKeyReuse, ReadsFit, ReadFits
  <2>2. PICK stage, code : /\ calls' = [calls EXCEPT ![r] =
                                          [calls[r] EXCEPT !.stage = stage, !.code = code]]
    <3>1. CASE Claim(r)
      <4>1. [calls[r] EXCEPT !.stage = "claimed"]
              = [calls[r] EXCEPT !.stage = "claimed", !.code = calls[r].code]
        BY <1>0 DEF Call
      <4>2. calls' = [calls EXCEPT ![r] = [calls[r] EXCEPT !.stage = "claimed"]]
        BY <1>0, <3>1 DEF Claim
      <4>3. QED
        BY <4>1, <4>2
    <3>2. CASE RefuseKeyReuse(r)
      <4>1. calls' = [calls EXCEPT ![r] =
               [calls[r] EXCEPT !.stage = "answered", !.code = "idempotency_conflict"]]
        BY <1>0, <3>2 DEF RefuseKeyReuse
      <4>2. QED
        BY <4>1
    <3>3. QED
      BY <1>5, <3>1, <3>2
  <2> DEFINE c == [calls[r] EXCEPT !.stage = stage, !.code = code]
  <2>3. c.loaded = NoSession
    BY <1>0, <2>1 DEF Call
  <2> HIDE DEF c
  <2>4. ReadFits(c)
    BY <2>3 DEF ReadFits
  <2>5. UNCHANGED committed
    BY <1>5 DEF Claim, RefuseKeyReuse
  <2>6. QED
    BY <2>2, <2>4, <2>5, ReadsQuiet DEF c
<1>6. ASSUME NEW r \in Calls, Replay(r) PROVE ReadsFit'
  <2> DEFINE e == claims[ScopedKey(r)]
             code == IF Replayable(events[e]) THEN "ok" ELSE "internal_error"
             c == [calls[r] EXCEPT !.stage = "answered", !.event = e, !.code = code]
  <2>1. calls' = [calls EXCEPT ![r] = c]
    BY <1>0, <1>6 DEF Replay
  <2>2. e # 0 /\ UNCHANGED committed
    BY <1>6 DEF Replay
  <2> HIDE DEF e, code
  <2>3. c.stage = "answered" /\ c.event = e
    BY <1>0 DEF Call
  <2> HIDE DEF c
  <2>4. ReadFits(c)
    BY <2>2, <2>3 DEF ReadFits
  <2>5. QED
    BY <2>1, <2>2, <2>4, ReadsQuiet
<1>7. ASSUME NEW r \in Calls, Lock(r) PROVE ReadsFit'
  <2>1. UNCHANGED committed
    BY <1>7 DEF Lock
  <2>2. CASE LockRefusal(r) = "none"
    <3> DEFINE c == [calls[r] EXCEPT !.stage = "locked", !.loaded = session]
    <3>1. calls' = [calls EXCEPT ![r] = c]
      BY <1>0, <1>7, <2>2 DEF Lock
    <3>2. c.stage = "locked"
      BY <1>0 DEF Call
    <3> HIDE DEF c
    <3>3. ReadFits(c)
      BY <3>2 DEF ReadFits
    <3>4. QED
      BY <2>1, <3>1, <3>3, ReadsQuiet
  <2>3. CASE LockRefusal(r) # "none"
    BY <1>7, <2>1, <2>3, ReadsRefused DEF Lock
  <2>4. QED
    BY <2>2, <2>3
<1>8. ASSUME NEW r \in Calls, Create(r) PROVE ReadsFit'
  <2> DEFINE c == [calls[r] EXCEPT !.stage = "answered", !.code = "ok", !.event = 1]
  <2>1. calls' = [calls EXCEPT ![r] = c]
    BY <1>0, <1>8 DEF Create
  <2>2. c.stage = "answered" /\ c.event # 0
    BY <1>0 DEF Call
  <2>3. session = NoSession /\ session' = NewSession
    BY <1>8, CreateFindsNothing DEF IInv, Origins, Create
  <2>4. session'.version = session.version + 1
    BY <2>3 DEF NewSession, NoSession
  <2> HIDE DEF c
  <2>5. QED
    BY <2>1, <2>2, <2>4, ReadsOvertaken
<1>9. ASSUME NEW r \in Calls, Execute(r) PROVE ReadsFit'
  <2>1. PICK outcome \in OutcomesOf(calls[r].cmd, calls[r].loaded) :
             Refuse(r, outcome) \/ Commit(r, outcome)
    BY <1>9 DEF Execute
  <2>2. CASE Refuse(r, outcome)
    <3>1. PICK code : Refused(r, code) /\ UNCHANGED committed
      BY <2>2 DEF Refuse
    <3>2. QED
      BY <3>1, ReadsRefused
  <2>3. CASE Commit(r, outcome)
    <3> DEFINE n == Len(events) + 1
               c == [calls[r] EXCEPT !.stage = "answered", !.code = "ok", !.event = n]
    <3>1. calls' = [calls EXCEPT ![r] = c]
      BY <1>0, <2>3 DEF Commit
    <3>2. n # 0
      BY DEF IInv, TypeOK
    <3> HIDE DEF n
    <3>3. c.stage = "answered" /\ c.event # 0
      BY <1>0, <3>2 DEF Call
    <3>4. calls[r].stage = "locked"
      BY <2>3 DEF Commit
    <3>5. calls[r].loaded = session /\ calls[r].cmd \in Commands
      BY <3>4, CallFacts DEF IInv, LockedRowIsCurrent
    <3>6. /\ Refusal(calls[r].cmd, session, plans, calls[r].payload, outcome) = "none"
          /\ session' = SessionAfter(calls[r].cmd, session, plans, calls[r].payload)
      BY <2>3, <3>5 DEF Commit
    <3>7. session'.version = session.version + 1
      BY <1>0, <3>5, <3>6, W!SessionAfterType, ObjectiveAssumption, SameRules
    <3> HIDE DEF c
    <3>8. QED
      BY <3>1, <3>3, <3>7, ReadsOvertaken
  <2>4. QED
    BY <2>1, <2>2, <2>3
<1>10. ASSUME NEW r \in Calls, ReadSession(r) PROVE ReadsFit'
  <2> DEFINE c == [calls[r] EXCEPT !.stage = "listing", !.loaded = session, !.wasLate = late]
  <2>1. calls' = [calls EXCEPT ![r] = c] /\ UNCHANGED committed
    BY <1>0, <1>10 DEF ReadSession
  <2>2. c.stage = "listing" /\ c.loaded = session
    BY <1>0 DEF Call
  <2>3. session.version \in Nat
    BY <1>0 DEF Session
  <2> HIDE DEF c
  <2>4. ReadFits(c)
    BY <2>2, <2>3 DEF ReadFits
  <2>5. QED
    BY <2>1, <2>4, ReadsQuiet
<1>11. ASSUME NEW r \in Calls, ReadPlans(r) PROVE ReadsFit'
  <2> DEFINE n == Len(plans)
             c == [calls[r] EXCEPT !.stage = "answered", !.runs = n]
  <2>1. calls' = [calls EXCEPT ![r] = c] /\ UNCHANGED committed /\ calls[r].stage = "listing"
    BY <1>0, <1>11 DEF ReadPlans
  <2>2. /\ c.stage = "answered" /\ c.loaded = calls[r].loaded /\ c.event = calls[r].event
        /\ c.runs = n
    BY <1>0 DEF Call
  <2> HIDE DEF c
  <2>3. ReadFits(c)
    BY <2>1, <2>2 DEF ReadsFit, ReadFits
  <2>4. QED
    BY <2>1, <2>3, ReadsQuiet
<1>12. QED
  BY <1>1, <1>2, <1>3, <1>4, <1>5, <1>6, <1>7, <1>8, <1>9, <1>10, <1>11
     DEF Next, ClientNext, Acquire, Proceed

-------------------------------------------------------------------------------
(* What the workflow promises holds of the service.                          *)

\* The proofs about the workflow are about the specification implemented here.
LEMMA SameWorkflow ==
    /\ Workflow!Init => W!Init
    /\ [Workflow!Next]_(Workflow!vars) => [W!Next]_(W!vars)
<1>1. Workflow!NoSession = W!NoSession
  BY DEF Workflow!NoSession, W!NoSession
<1>2. Workflow!Init => W!Init
  BY <1>1 DEF Workflow!Init, W!Init
<1>3. Workflow!Next => W!Next
  BY DEF Workflow!Next, W!Next, Workflow!Create, W!Create, Workflow!NoSession, W!NoSession,
         Workflow!NewSession, W!NewSession, Workflow!Commands, W!Commands,
         Workflow!PlanCommands, W!PlanCommands, Workflow!PayloadsOf, W!PayloadsOf,
         Workflow!OutcomesOf, W!OutcomesOf, Workflow!Outcome, W!Outcome,
         Workflow!Unsolved, W!Unsolved, Workflow!Command, W!Command,
         Workflow!Refusal, W!Refusal, Workflow!SelectRefusal, W!SelectRefusal,
         Workflow!AdvanceRefusal, W!AdvanceRefusal, Workflow!GenerateRefusal, W!GenerateRefusal,
         Workflow!OverrideRefusal, W!OverrideRefusal, Workflow!ApproveRefusal, W!ApproveRefusal,
         Workflow!LatestAt, W!LatestAt, Workflow!LastIndex, W!LastIndex,
         Workflow!LatestOverridden, W!LatestOverridden, Workflow!Actionable, W!Actionable,
         Workflow!FinalCheckpoint, W!FinalCheckpoint,
         Workflow!SessionAfter, W!SessionAfter, Workflow!Advanced, W!Advanced,
         Workflow!PlansAfter, W!PlansAfter, Workflow!PlanFor, W!PlanFor
<1>4. QED
  BY <1>2, <1>3 DEF Workflow!vars, W!vars

\* The workflow's promises, for the session and the plans of the service.
LEMMA WorkflowPromises == Spec => []W!WorkflowSound
<1>1. Spec => W!Spec
  BY Refinement, SameWorkflow, PTL DEF ImplementsWorkflow, Workflow!Spec, W!Spec
<1>2. W!Init => W!WInv
  BY W!WInitInv, ObjectiveAssumption
<1>3. W!WInv /\ [W!Next]_(W!vars) => W!WInv'
  BY W!WStepInv, ObjectiveAssumption
<1>4. W!WInv => W!WorkflowSound
  BY W!InvIsEnough, ObjectiveAssumption
<1>5. QED
  BY <1>1, <1>2, <1>3, <1>4, PTL DEF W!Spec

\* What the workflow offers it accepts, in the terms of the service.
LEMMA OffersAccepted ==
    ASSUME W!WorkflowSound, session.version > 0, session.status = "active",
           NEW cmd \in AllowedActions(session, plans)
    PROVE  \E payload \in PayloadsOf(cmd), outcome \in OutcomesOf(cmd, session) :
              Refusal(cmd, session, plans, payload, outcome) = "none"
<1>1. W!OffersMatchRules
  BY DEF W!WorkflowSound
<1>2. cmd \in W!AllowedActions(session, plans)
  BY DEF W!AllowedActions, AllowedActions, W!LatestOverridden, LatestOverridden,
         W!Actionable, Actionable, W!FinalCheckpoint, FinalCheckpoint
<1>3. \E payload \in W!PayloadsOf(cmd), outcome \in W!OutcomesOf(cmd, session) :
         W!Refusal(cmd, session, plans, payload, outcome) = "none"
  BY <1>1, <1>2 DEF W!OffersMatchRules
<1>4. QED
  BY <1>3
     DEF W!PayloadsOf, PayloadsOf, W!OutcomesOf, OutcomesOf, W!Outcome, Outcome,
         W!Unsolved, Unsolved, W!PlanCommands, PlanCommands,
         W!Refusal, Refusal, W!SelectRefusal, SelectRefusal, W!AdvanceRefusal, AdvanceRefusal,
         W!GenerateRefusal, GenerateRefusal, W!OverrideRefusal, OverrideRefusal,
         W!ApproveRefusal, ApproveRefusal, W!LatestAt, LatestAt, W!LastIndex, LastIndex,
         W!LatestOverridden, LatestOverridden, W!Actionable, Actionable,
         W!FinalCheckpoint, FinalCheckpoint

\* A view of the current version offers what the rules offer on it.
LEMMA ReadIsCurrent ==
    ASSUME IInv, ReadsFit, NEW r \in Calls, HasReadView(r),
           calls[r].loaded.version = session.version, session.status = "active"
    PROVE  /\ session.version > 0
           /\ ReadView(r).actions \cap Commands \subseteq AllowedActions(session, plans)
<1>1. /\ calls[r].loaded = session /\ calls[r].runs = Len(plans) /\ session # NoSession
      /\ plans \in Seq(Plan) /\ session \in Session
  BY DEF HasReadView, ReadsFit, ReadFits, IInv, TypeOK
<1>2. session.version > 0
  <2>1. Len(events) = session.version /\ events \in Seq(Event) /\ events # <<>>
    BY <1>1 DEF IInv, TypeOK, AuditTrail, Origins
  <2>2. QED
    BY <2>1
<1>3. SubSeq(plans, 1, Len(plans)) = plans
  BY <1>1
<1>4. ReadView(r).actions = AllowedActions(Projected(session, calls[r].wasLate), plans)
  BY <1>1, <1>3 DEF ReadView, Projection
<1>5. CASE calls[r].wasLate
  <2>1. Projected(session, calls[r].wasLate).status = "expired"
    BY <1>1, <1>5 DEF Projected, Session
  <2>2. ReadView(r).actions = {"start-new-exercise"}
    BY <1>4, <2>1 DEF AllowedActions
  <2>3. QED
    BY <1>2, <2>2 DEF Commands, PlanCommands
<1>6. CASE ~calls[r].wasLate
  <2>1. Projected(session, calls[r].wasLate) = session
    BY <1>6 DEF Projected
  <2>2. QED
    BY <1>2, <1>4, <2>1
<1>7. QED
  BY <1>5, <1>6

\* A GET, or the body of a 409, may be read between two commands, and yet every
\* command it offers is accepted while its version is current (exercises.py: the
\* statements of a projection, allowed_actions and the checks of each handler).
THEOREM OffersAreHonoured == Spec => []OffersHonoured
<1>1. Init => ReadsFit
  <2> SUFFICES ASSUME Init, NEW r \in Calls PROVE ReadFits(calls[r])
    BY DEF ReadsFit
  <2>1. calls[r] = Idle
    BY DEF Init
  <2>2. QED
    BY <2>1 DEF ReadFits, Idle
<1>2. IInv /\ ReadsFit /\ [Next]_vars => ReadsFit'
  BY ReadsFitStep
<1>3. IInv /\ ReadsFit /\ W!WorkflowSound => OffersHonoured
  BY ReadIsCurrent, OffersAccepted DEF OffersHonoured
<1>4. QED
  BY <1>1, <1>2, <1>3, Invariance, WorkflowPromises, PTL DEF Spec
===============================================================================
