-------------------------- MODULE MCExerciseSessions --------------------------
(***************************************************************************)
(* Small instances of ExerciseSessions: what the clients may send.         *)
(***************************************************************************)
EXTENDS ExerciseSessions, TLC

CONSTANTS
    fastest, coverage, k1, k2, k3, k4, c1, c2,
    Scripts    \* what the client behind each call may ask for, in each behaviour

Ask(cmd, payload, expected, key) ==
    [cmd |-> cmd, payload |-> payload, expected |-> expected, key |-> key]

Plainly(cmd, expected, key) == Ask(cmd, "well-formed", expected, key)

\* Two operators at the first checkpoint: stale versions, shared keys, a bad
\* payload, a plan and an advance out of order, one key for plans at two versions.
OpeningRequests ==
    { Ask("select-objective", fastest, 1, k1),
      Ask("select-objective", coverage, 1, k1),
      Ask("select-objective", coverage, 1, k2),
      Ask("select-objective", "unsupported", 1, k2),
      Plainly("generate-plan", 1, k3),
      Plainly("generate-plan", 2, k1),
      Plainly("generate-plan", 3, k1),
      Plainly("generate-plan", 3, k2),
      Plainly("advance", 3, k1) }

\* One exercise to its end, with the detours of the last checkpoint: a plan
\* asked for twice, an override under way when the objective is changed, an
\* approval sent too early and twice.
ClosingRequests ==
    { Ask("select-objective", fastest, 1, k1),
      Plainly("generate-plan", 2, k1),
      Plainly("advance", 3, k1),
      Plainly("generate-plan", 4, k2),
      Plainly("advance", 5, k2),
      Plainly("generate-plan", 6, k3),
      Plainly("apply-override", 7, k1),
      Ask("select-objective", coverage, 7, k2),
      Plainly("generate-plan", 8, k4),
      Plainly("approve-plan", 8, k1),
      Plainly("approve-plan", 8, k2) }

\* One operator, whose session may expire at any moment.
RetriedRequests ==
    { Ask("select-objective", fastest, 1, k1),
      Plainly("generate-plan", 2, k1) }

-----------------------------------------------------------------------------
(* A behaviour follows one script: the operator plays on, and a colleague   *)
(* at another screen looks, retries and joins the races.                   *)

VARIABLE script

Look == Plainly("get", 0, CreateKey)
Begin == Plainly("create", 0, CreateKey)

Opening ==
    c1 :> {Begin} \cup OpeningRequests @@
    c2 :> {Begin, Look} \cup {q \in OpeningRequests : q.key = k1 /\ q.expected # 2}

Closing ==
    c1 :> {Begin} \cup {q \in ClosingRequests : q.cmd # "approve-plan" \/ q.key = k1} @@
    c2 :> {Look} \cup {q \in ClosingRequests : q.expected = 8 /\ q.key # k1}

PlayedRequests == OpeningRequests \cup ClosingRequests
PlayedScripts == {Opening, Closing}

RetriedScripts == {c1 :> {Begin} \cup RetriedRequests}

Asked(call) == Ask(call.cmd, call.payload, call.expected, call.key)

Scripted ==
    /\ UNCHANGED script
    /\ \A r \in Calls : calls'[r].stage # "idle" => Asked(calls'[r]) \in script[r]

PlayInit == Init /\ script \in Scripts

\* The disjuncts of Next, each as far as the script goes.
PlayNext ==
    \/ Expire /\ Scripted
    \/ \E r \in Calls :
          \/ SendCreate(r) /\ Scripted
          \/ \E q \in Requests : SendCommand(r, q) /\ Scripted
          \/ SendGet(r) /\ Scripted
          \/ Finish(r) /\ Scripted
          \/ Drop(r) /\ Scripted
          \/ Claim(r) /\ Scripted
          \/ RefuseKeyReuse(r) /\ Scripted
          \/ Replay(r) /\ Scripted
          \/ Lock(r) /\ Scripted
          \/ Create(r) /\ Scripted
          \/ \E outcome \in OutcomesOf(calls[r].cmd, calls[r].loaded) :
                \/ Refuse(r, outcome) /\ Scripted
                \/ Commit(r, outcome) /\ Scripted
          \/ ReadSession(r) /\ Scripted
          \/ ReadPlans(r) /\ Scripted

Play == PlayInit /\ [][PlayNext]_<<vars, script>> /\ Fairness
=============================================================================
