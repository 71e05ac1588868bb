--------------------------- MODULE ExerciseClient ---------------------------
(***************************************************************************)
(* One browser tab running the guided exercise: the stored session id, the *)
(* query that holds the session, the one mutation that sends every command *)
(* and the idempotency key it keeps.  The server is reduced to what the    *)
(* tab can observe: a version per session and the response stored under    *)
(* each key.                                                               *)
(*                                                                         *)
(* Requests are served in any order, answers are lost or cut, a request    *)
(* outlives the tab that sent it, a query answers late, a duplicate of the *)
(* tab works on the same session, and a button is pressed twice before it  *)
(* is drawn disabled.                                                      *)
(***************************************************************************)
EXTENDS IdempotencyIntent, FiniteSets

CONSTANTS
    Commands,    \* commands on a session, names
    MaxVersion,  \* bound: the version at which the exercise is completed
    MaxSessions, \* bound: sessions the server creates
    MaxAttempts, \* bound: commands sent
    MaxMishaps,  \* bound: lost answers, cut refusals, failed queries, reloads,
                 \* reconnects, double clicks and steps of the other tab
    MaxGarbled,  \* bound: 2xx answers whose body is cut
    MaxRestarts  \* bound: restarts

Create == "create-session"
Sessions == 1..MaxSessions
Attempts == 1..MaxAttempts

ASSUME ClientAssumption ==
    /\ MaxVersion \in Nat \ {0} /\ MaxSessions \in Nat \ {0} /\ MaxAttempts \in Nat
    /\ MaxMishaps \in Nat /\ MaxGarbled \in Nat /\ MaxRestarts \in Nat
    /\ Commands # {} /\ {Create, "none"} \cap Commands = {}

VARIABLES
    version,  \* server: version[s], 0 before s is created
    receipts, \* server: the response stored under each key
    sid,      \* sessionId, in the state and in sessionStorage; 0 is null
    view,     \* view[s]: version of s in the query cache, 0 for no data
    get,      \* the query of the session, when it is fetching
    intent,   \* the IdempotencyIntent of the command hook
    latest,   \* attempt the mutation observes, 0 after reset
    pressed,  \* the command pressed last, until the tab draws again
    calls,    \* commands on the wire
    attempts, \* commands sent so far
    aim,      \* what the operator wants and has not been told of yet
    retired,  \* sessions left by "Start a new exercise"
    mishaps, garbled

server == <<version, receipts>>
screen == <<sid, view, get>>
budget == <<mishaps, garbled>>
vars == <<server, screen, intent, latest, pressed, calls, attempts, aim, retired, budget>>

NoGet == [state |-> "idle", session |-> 0, version |-> 0]
AskFor(s) == [state |-> "asked", session |-> s, version |-> 0]

\* "heard": the tab still waits for the answer.
CallType ==
    [attempt : Attempts, key : Attempts, name : Commands \cup {Create},
     session : 0..MaxSessions, expected : 0..MaxVersion, aim : 0..MaxAttempts,
     heard : BOOLEAN, reply : {"none", "ok", "refused"},
     toSession : 0..MaxSessions, toVersion : 0..MaxVersion]

\* What a command is kept under: its name, session and version.
Signatures == {<<>>} \cup ((Commands \cup {Create}) \X (0..MaxSessions) \X (0..MaxVersion))

Init ==
    /\ version = [s \in Sessions |-> 0]
    /\ receipts = {}
    /\ sid = 0
    /\ view = [s \in Sessions |-> 0]
    /\ get = NoGet
    /\ intent = NoIntent
    /\ latest = 0
    /\ pressed = "none"
    /\ calls = {}
    /\ attempts = 0
    /\ aim = [signature |-> <<>>, id |-> 0]
    /\ retired = {}
    /\ mishaps = 0
    /\ garbled = 0

Mishap == /\ mishaps < MaxMishaps
          /\ mishaps' = mishaps + 1
          /\ UNCHANGED garbled

Completed(s) == view[s] = MaxVersion

\* The session query ended in an error and holds no data.
LoadFailed == sid # 0 /\ view[sid] = 0 /\ get.state = "idle"

-----------------------------------------------------------------------------
(* The command hook *)

Pending == \E c \in calls : c.attempt = latest /\ c.heard

\* The buttons on screen.
Offered == IF sid = 0 THEN {Create}
           ELSE IF view[sid] = 0 \/ Completed(sid) THEN {}
           ELSE Commands

\* mutate: the version comes from the session the hook holds.
Send(name) ==
    LET expected == IF sid = 0 THEN 0 ELSE view[sid]
        signature == <<name, sid, expected>>
        id == attempts + 1
        begun == Begin(intent, signature, id)
        want == IF aim.signature = signature THEN aim.id ELSE id
    IN  /\ attempts < MaxAttempts
        /\ attempts' = id
        /\ intent' = begun
        /\ latest' = id
        /\ pressed' = name
        /\ aim' = [signature |-> signature, id |-> want]
        /\ calls' = calls \cup
             {[attempt |-> id, key |-> begun.key, name |-> name, session |-> sid,
               expected |-> expected, aim |-> want, heard |-> TRUE, reply |-> "none",
               toSession |-> 0, toVersion |-> 0]}
        /\ UNCHANGED <<server, screen, retired>>

Press(name) ==
    /\ name \in Offered
    /\ ~Pending
    /\ Send(name)
    /\ UNCHANGED budget

\* A second click before the button is drawn disabled.
PressAgain(name) ==
    /\ Pending
    /\ name = pressed
    /\ Send(name)
    /\ Mishap

\* The attempt settles; the operator knows the outcome or does not.
Close(c, retain, told) ==
    /\ intent' = Settle(intent, c.attempt, retain)
    /\ aim' = IF told /\ c.aim = aim.id THEN [aim EXCEPT !.signature = <<>>] ELSE aim
    /\ pressed' = "none"
    /\ UNCHANGED <<server, latest, attempts, retired>>

\* Faulty: a refusal tells the operator and leaves the session as it was.
AdoptAnswered(c) ==
    IF c.reply = "ok"
    THEN /\ sid' = c.toSession
         /\ view' = [view EXCEPT ![c.toSession] = c.toVersion]
         /\ get' = IF sid' # sid THEN AskFor(sid') ELSE get
    ELSE UNCHANGED screen

\* adoptSession and setQueryData, with the session a success or a 409
\* carries; a new id mounts a query whose data counts as stale.
Adopt(c) ==
    /\ sid' = c.toSession
    /\ view' = [view EXCEPT ![c.toSession] = c.toVersion]
    /\ get' = IF sid' # sid THEN AskFor(sid') ELSE get

Answer(c) ==
    /\ c.heard /\ c.reply # "none"
    /\ calls' = calls \ {c}
    /\ Close(c, FALSE, TRUE)
    /\ Adopt(c)
    /\ UNCHANGED budget

\* A network error, 408, 429 or 5xx: the request may still be on its way.
Lose(c) ==
    /\ c.heard
    /\ Mishap
    /\ \/ calls' = calls \ {c}
       \/ /\ c.reply = "none"
          /\ calls' = (calls \ {c}) \cup {[c EXCEPT !.heard = FALSE]}
    /\ Close(c, TRUE, FALSE)
    /\ UNCHANGED screen

\* A success whose body cannot be read: invalid_response is not retryable.
Garble(c) ==
    /\ c.heard /\ c.reply = "ok"
    /\ garbled < MaxGarbled
    /\ garbled' = garbled + 1
    /\ calls' = calls \ {c}
    /\ Close(c, FALSE, FALSE)
    /\ UNCHANGED <<screen, mishaps>>

\* A 409 whose body cannot be read: an error that is not retryable, and no
\* session to adopt.
CutRefusal(c) ==
    /\ c.heard /\ c.reply = "refused"
    /\ Mishap
    /\ calls' = calls \ {c}
    /\ Close(c, FALSE, TRUE)
    /\ UNCHANGED screen

-----------------------------------------------------------------------------
(* The server *)

\* What a served call finds: its stored response, a session to create, the
\* version it expects, or a conflict that carries the current session.
Effect(c) ==
    LET stored == {r \in receipts : r.key = c.key}
        new == Cardinality({s \in Sessions : version[s] > 0}) + 1
    IN  IF stored # {}
        THEN LET r == CHOOSE r \in stored : TRUE IN <<"replay", r.session, r.version>>
        ELSE IF c.name = Create THEN <<"ok", new, 1>>
        ELSE IF c.expected = version[c.session] /\ c.expected < MaxVersion
        THEN <<"ok", c.session, c.expected + 1>>
        ELSE <<"refused", c.session, version[c.session]>>

Serve(c) ==
    LET e == Effect(c)
        done == [c EXCEPT !.reply = IF e[1] = "refused" THEN "refused" ELSE "ok",
                          !.toSession = e[2], !.toVersion = e[3]]
    IN  /\ c.reply = "none"
        /\ e[2] \in Sessions
        /\ calls' = (calls \ {c}) \cup (IF c.heard THEN {done} ELSE {})
        /\ IF e[1] = "ok"
             THEN /\ version' = [version EXCEPT ![e[2]] = e[3]]
                  /\ receipts' = receipts \cup
                       {[key |-> c.key, session |-> e[2], version |-> e[3], aim |-> c.aim]}
             ELSE UNCHANGED server
        /\ pressed' = "none"
        /\ UNCHANGED <<screen, intent, latest, attempts, aim, retired, budget>>

\* A duplicate of the tab, which took its sessionStorage along: it moves the
\* session on with commands of its own.
OtherTab ==
    /\ sid # 0 /\ version[sid] \in 1..(MaxVersion - 1)
    /\ Mishap
    /\ version' = [version EXCEPT ![sid] = @ + 1]
    /\ pressed' = "none"
    /\ UNCHANGED <<receipts, screen, intent, latest, calls, attempts, aim, retired>>

-----------------------------------------------------------------------------
(* The session query *)

Fetching ==
    /\ pressed' = "none"
    /\ UNCHANGED <<server, sid, intent, latest, calls, attempts, aim, retired>>

Read ==
    /\ get.state = "asked"
    /\ get' = [get EXCEPT !.state = "read", !.version = version[get.session]]
    /\ Fetching
    /\ UNCHANGED <<view, budget>>

\* The fetched session replaces what the cache holds, newer or not.
Show ==
    /\ get.state = "read"
    /\ view' = [view EXCEPT ![get.session] = get.version]
    /\ get' = NoGet
    /\ Fetching
    /\ UNCHANGED budget

FailGet ==
    /\ get.state \in {"asked", "read"}
    /\ get' = NoGet
    /\ Mishap
    /\ Fetching
    /\ UNCHANGED view

\* The network comes back, which repeats the queries on screen.
Reconnect ==
    /\ sid # 0 /\ get.state = "idle"
    /\ get' = AskFor(sid)
    /\ Mishap
    /\ Fetching
    /\ UNCHANGED view

-----------------------------------------------------------------------------
(* The tab *)

\* What command.reset() leaves of the intent.
Discard == NoIntent

\* "Start a new exercise", on the debrief and when no session could be loaded.
Restart ==
    /\ LoadFailed \/ (sid # 0 /\ Completed(sid))
    /\ Cardinality(retired) < MaxRestarts
    /\ sid' = 0
    /\ retired' = retired \cup {sid}
    /\ get' = NoGet
    /\ intent' = Discard
    /\ latest' = 0
    /\ aim' = [aim EXCEPT !.signature = <<>>]
    /\ pressed' = "none"
    /\ UNCHANGED <<server, view, calls, attempts, budget>>

\* The page is loaded again: only sessionStorage and what is on the wire remain.
Reload ==
    /\ Mishap
    /\ view' = [s \in Sessions |-> 0]
    /\ get' = IF sid = 0 THEN NoGet ELSE AskFor(sid)
    /\ intent' = NoIntent
    /\ latest' = 0
    /\ aim' = [aim EXCEPT !.signature = <<>>]
    /\ calls' = {[c EXCEPT !.heard = FALSE] : c \in {d \in calls : d.reply = "none"}}
    /\ pressed' = "none"
    /\ UNCHANGED <<server, sid, attempts, retired>>

Next ==
    \/ \E name \in Commands \cup {Create} : Press(name) \/ PressAgain(name)
    \/ \E c \in calls : Answer(c) \/ Lose(c) \/ CutRefusal(c) \/ Garble(c) \/ Serve(c)
    \/ OtherTab
    \/ Read \/ Show \/ FailGet \/ Reconnect
    \/ Restart \/ Reload

Spec == Init /\ [][Next]_vars

-----------------------------------------------------------------------------

TypeOK ==
    /\ version \in [Sessions -> 0..MaxVersion]
    /\ receipts \subseteq [key : Attempts, session : Sessions, version : 1..MaxVersion,
                           aim : Attempts]
    /\ sid \in 0..MaxSessions
    /\ view \in [Sessions -> 0..MaxVersion]
    /\ get \in [state : {"idle", "asked", "read"}, session : 0..MaxSessions,
                version : 0..MaxVersion]
    /\ intent \in [signature : Signatures, key : 0..MaxAttempts, attempt : 0..MaxAttempts]
    /\ aim \in [signature : Signatures, id : 0..MaxAttempts]
    /\ latest \in 0..MaxAttempts /\ attempts \in 0..MaxAttempts
    /\ intent.attempt \in {0, latest}
    /\ pressed \in Commands \cup {Create, "none"}
    /\ calls \subseteq CallType
    /\ retired \subseteq Sessions
    /\ mishaps \in 0..MaxMishaps /\ garbled \in 0..MaxGarbled

\* Whatever is lost, repeated or answered out of order, one thing the operator
\* wants happens at most once, and repeating it is never refused because it
\* already happened ("deterministic under double-clicks and retries",
\* exerciseHooks.ts:79).  A success whose body is cut gives up its key.
OncePerAim ==
    garbled = 0 =>
    /\ \A r, q \in receipts : r.aim = q.aim => r = q
    /\ \A c \in calls : c.reply = "refused" => ~\E r \in receipts : r.aim = c.aim

-----------------------------------------------------------------------------
(* Liveness: requests are served and answered, queries end, and an operator *)
(* keeps pressing what is offered, or starts anew when nothing was loaded.  *)

Fairness ==
    /\ WF_vars(\E c \in calls : Serve(c))
    /\ WF_vars(\E c \in calls : Answer(c))
    /\ WF_vars(Read) /\ WF_vars(Show)
    /\ WF_vars(\E name \in Commands \cup {Create} : Press(name))
    /\ WF_vars(LoadFailed /\ Restart)

FairSpec == Spec /\ Fairness

Finished == sid # 0 /\ Completed(sid)

\* The tab's keys and commands stay in step with the server.
ClientSound == TypeOK /\ OncePerAim
=============================================================================
