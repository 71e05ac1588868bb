---------------------------- MODULE ClientProofs ----------------------------
(***************************************************************************)
(* The browser keeps its promises to the operator.  The exercise tab sends *)
(* what is wanted at most once, for every set of commands and every bound  *)
(* on sessions, versions, attempts and mishaps.  The monitor's planning    *)
(* session shows one scenario and never a stale one unmarked, for every    *)
(* bound on snapshots, sessions, commands and slips.  The two pages share  *)
(* nothing but IdempotencyIntent.                                          *)
(***************************************************************************)
EXTENDS ExerciseClient, PlanningSession, FiniteSetTheorems, TLAPS

-----------------------------------------------------------------------------
(* The exercise tab: the invariant.                                        *)

Signature(c) == <<c.name, c.session, c.expected>>

\* What a call on the wire knows of the server stays true as versions grow.
CallFits(c) ==
    /\ c.attempt <= attempts /\ c.aim \in 1..attempts
    /\ c.name # Create =>
          /\ c.session \in Sessions
          /\ c.expected \in 1..(MaxVersion - 1) /\ c.expected <= version[c.session]
    /\ c.reply # "none" =>
          c.toSession \in Sessions /\ c.toVersion <= version[c.toSession]
    /\ c.reply = "refused" => c.name # Create /\ c.expected < version[c.session]

\* Sessions are created one after the other.
ServerFits ==
    /\ \E n \in 0..MaxSessions : \A s \in Sessions : version[s] > 0 <=> s <= n
    /\ \A r \in receipts : r.version <= version[r.session] /\ r.aim <= attempts

\* The screen never shows more than the server has.
ScreenFits ==
    /\ \A s \in Sessions : view[s] <= version[s]
    /\ get.state # "idle" =>
          get.session \in Sessions /\ get.version <= version[get.session]
    /\ pressed # "none" => pressed \in Offered

\* Keys, attempts and aims are numbers of attempts made.
IntentFits ==
    /\ intent.signature # <<>> => intent.key \in 1..attempts
    /\ aim.signature # <<>> => aim.id \in 1..attempts
    /\ latest <= attempts

\* One aim has one key and one signature; while the operator still wants it,
\* the hook holds that key, unless an answer that can no longer be read took it.
AimsFit ==
    /\ \A c, d \in calls : c.aim = d.aim => c.key = d.key /\ Signature(c) = Signature(d)
    /\ \A c \in calls, r \in receipts : c.aim = r.aim => c.key = r.key
    /\ \A c \in calls : c.attempt = intent.attempt => c.aim = aim.id
    /\ aim.signature # <<>> =>
          /\ intent.signature = aim.signature
          /\ \A c \in calls :
                c.aim = aim.id => c.key = intent.key /\ Signature(c) = aim.signature
          /\ \A r \in receipts : r.aim = aim.id => r.key = intent.key
    /\ \A r, q \in receipts : r.aim = q.aim => r = q
    /\ \A c \in calls : c.reply = "refused" => ~\E r \in receipts : r.aim = c.aim

Inv ==
    /\ TypeOK
    /\ \A c \in calls : CallFits(c)
    /\ ServerFits /\ ScreenFits /\ IntentFits
    /\ garbled = 0 => AimsFit

-----------------------------------------------------------------------------
(* Steps that send and serve nothing.                                      *)

\* The bounds are numbers.
LEMMA BoundsAre ==
    /\ MaxVersion \in Nat \ {0} /\ MaxSessions \in Nat \ {0} /\ MaxAttempts \in Nat
    /\ MaxMishaps \in Nat /\ MaxGarbled \in Nat
    /\ Create \notin Commands /\ "none" \notin Commands /\ Create # "none"
BY ClientAssumption DEF Create

\* The types of a call, field by field.
LEMMA CallIs ==
    ASSUME TypeOK, NEW c \in calls
    PROVE  /\ c \in CallType
           /\ c.attempt \in Attempts /\ c.key \in Attempts /\ c.name \in Commands \cup {Create}
           /\ c.session \in 0..MaxSessions /\ c.expected \in 0..MaxVersion
           /\ c.aim \in 0..MaxAttempts /\ c.heard \in BOOLEAN
           /\ c.reply \in {"none", "ok", "refused"}
           /\ c.toSession \in 0..MaxSessions /\ c.toVersion \in 0..MaxVersion
<1>1. c \in CallType
  BY DEF TypeOK
<1>2. QED
  BY <1>1 DEF CallType

\* What is on the wire was, though the tab may have stopped listening to it.
FewerCalls == \A c \in calls' : \E d \in calls : c \in {d, [d EXCEPT !.heard = FALSE]}

\* Every such call is like one that was there.
LEMMA FewerIs ==
    ASSUME TypeOK, FewerCalls, NEW c \in calls'
    PROVE  \E d \in calls :
              /\ c \in CallType
              /\ c.attempt = d.attempt /\ c.key = d.key /\ c.name = d.name
              /\ c.session = d.session /\ c.expected = d.expected /\ c.aim = d.aim
              /\ c.reply = d.reply /\ c.toSession = d.toSession /\ c.toVersion = d.toVersion
<1>1. PICK d \in calls : c = d \/ c = [d EXCEPT !.heard = FALSE]
  BY DEF FewerCalls
<1>2. d \in CallType
  BY DEF TypeOK
<1>3. CASE c = d
  BY <1>2, <1>3
<1>4. CASE c = [d EXCEPT !.heard = FALSE]
  BY <1>2, <1>4 DEF CallType
<1>5. QED
  BY <1>1, <1>3, <1>4

\* What the hook and the operator hold is kept, or given up together.
IntentKept ==
    /\ aim' \in [signature : Signatures, id : 0..MaxAttempts] /\ aim'.id = aim.id
    /\ intent' \in [signature : Signatures, key : 0..MaxAttempts, attempt : 0..MaxAttempts]
    /\ intent'.attempt \in {0, intent.attempt}
    /\ intent'.signature # <<>> => intent'.key = intent.key /\ intent.signature # <<>>
    /\ aim'.signature \in {<<>>, aim.signature}
    /\ garbled' = 0 /\ garbled = 0 /\ AimsFit /\ aim'.signature # <<>> =>
          intent'.signature = intent.signature /\ intent'.key = intent.key

\* A step that sends and serves nothing keeps what its screen does not touch.
LEMMA QuietStep ==
    ASSUME Inv, FewerCalls, IntentKept, UNCHANGED <<receipts, attempts>>,
           version' \in [Sessions -> 0..MaxVersion],
           \A s \in Sessions :
              version[s] <= version'[s] /\ (version[s] > 0 <=> version'[s] > 0),
           latest' \in {0, latest}, intent'.attempt \in {0, latest'},
           sid' \in 0..MaxSessions, view' \in [Sessions -> 0..MaxVersion],
           get' \in [state : {"idle", "asked", "read"}, session : 0..MaxSessions,
                     version : 0..MaxVersion],
           \A s \in Sessions : view'[s] <= version'[s],
           get'.state # "idle" =>
              get'.session \in Sessions /\ get'.version <= version'[get'.session],
           pressed' = "none", retired' \subseteq Sessions,
           mishaps' \in 0..MaxMishaps,
           garbled' = garbled \/ garbled' \in 1..MaxGarbled
    PROVE  Inv'
<1>1. TypeOK
  BY DEF Inv
<1>2. \A c \in calls' : c \in CallType
  BY <1>1, FewerIs
<1>3. garbled' \in 0..MaxGarbled
  BY <1>1, BoundsAre DEF TypeOK
<1>4. latest' \in 0..MaxAttempts
  BY <1>1, BoundsAre DEF TypeOK
<1>5. TypeOK'
  BY <1>1, <1>2, <1>3, <1>4 DEF TypeOK, IntentKept
<1>6. ASSUME NEW c \in calls' PROVE CallFits(c)'
  <2>1. PICK d \in calls :
           /\ c.attempt = d.attempt /\ c.key = d.key /\ c.name = d.name
           /\ c.session = d.session /\ c.expected = d.expected /\ c.aim = d.aim
           /\ c.reply = d.reply /\ c.toSession = d.toSession /\ c.toVersion = d.toVersion
    BY <1>1, FewerIs
  <2>2. CallFits(d) /\ d.toVersion \in Int /\ d.expected \in Int
    BY <1>1, CallIs DEF Inv
  <2>3. version \in [Sessions -> 0..MaxVersion]
    BY <1>1 DEF TypeOK
  <2>4. QED
    BY <2>1, <2>2, <2>3, BoundsAre DEF CallFits
<1>7. ServerFits'
  <2>1. \A r \in receipts : r.version \in Int /\ r.session \in Sessions
    BY <1>1 DEF TypeOK
  <2>2. version \in [Sessions -> 0..MaxVersion]
    BY <1>1 DEF TypeOK
  <2>3. \A r \in receipts : r.version <= version'[r.session] /\ r.aim <= attempts
    BY <2>1, <2>2, BoundsAre DEF Inv, ServerFits
  <2>4. PICK n \in 0..MaxSessions : \A s \in Sessions : version[s] > 0 <=> s <= n
    BY DEF Inv, ServerFits
  <2>5. \A s \in Sessions : version'[s] > 0 <=> s <= n
    BY <2>4
  <2>6. QED
    BY <2>3, <2>5 DEF ServerFits
<1>8. ScreenFits'
  BY DEF ScreenFits
<1>9. IntentFits'
  <2>1. aim'.signature # <<>> => aim.signature # <<>>
    BY DEF IntentKept
  <2>2. attempts \in Nat /\ latest \in Nat
    BY <1>1, BoundsAre DEF TypeOK
  <2>3. QED
    BY <2>1, <2>2 DEF Inv, IntentFits, IntentKept
<1>10. ASSUME garbled' = 0 PROVE AimsFit'
  <2>1. garbled = 0 /\ AimsFit
    BY <1>10, <1>1, BoundsAre DEF Inv
  <2>2. \A c \in calls' : \E d \in calls :
           /\ c.attempt = d.attempt /\ c.key = d.key /\ c.aim = d.aim /\ c.reply = d.reply
           /\ Signature(c) = Signature(d) /\ d.attempt # 0
    <3>1. \A d \in calls : d.attempt # 0
      BY <1>1, CallIs, BoundsAre DEF Attempts
    <3>2. QED
      BY <1>1, <3>1, FewerIs DEF Signature
  <2>3. \A c, d \in calls' : c.aim = d.aim => c.key = d.key /\ Signature(c) = Signature(d)
    BY <2>1, <2>2 DEF AimsFit
  <2>4. \A c \in calls', r \in receipts : c.aim = r.aim => c.key = r.key
    BY <2>1, <2>2 DEF AimsFit
  <2>5. \A c \in calls' : c.attempt = intent'.attempt => c.aim = aim'.id
    BY <2>1, <2>2 DEF AimsFit, IntentKept
  <2>6. ASSUME aim'.signature # <<>>
        PROVE  /\ intent'.signature = aim'.signature
               /\ \A c \in calls' :
                     c.aim = aim'.id => c.key = intent'.key /\ Signature(c) = aim'.signature
               /\ \A r \in receipts : r.aim = aim'.id => r.key = intent'.key
    <3>1. /\ aim'.id = aim.id /\ aim'.signature = aim.signature
          /\ intent'.signature = intent.signature /\ intent'.key = intent.key
      BY <1>10, <2>1, <2>6 DEF IntentKept
    <3>2. QED
      BY <2>1, <2>2, <2>6, <3>1 DEF AimsFit
  <2>7. \A c \in calls' : c.reply = "refused" => ~\E r \in receipts : r.aim = c.aim
    BY <2>1, <2>2 DEF AimsFit
  <2>8. \A r, q \in receipts : r.aim = q.aim => r = q
    BY <2>1 DEF AimsFit
  <2>9. \A c : Signature(c)' = Signature(c)
    BY DEF Signature
  <2>10. QED
    BY <2>3, <2>4, <2>5, <2>6, <2>7, <2>8, <2>9 DEF AimsFit, Signature
<1>11. QED
  BY <1>5, <1>6, <1>7, <1>8, <1>9, <1>10 DEF Inv

\* An attempt that settles keeps what the hook and the operator hold, or gives
\* it up on both sides.
LEMMA CloseKeeps ==
    ASSUME Inv, NEW c \in calls, NEW retain \in BOOLEAN, NEW told \in BOOLEAN,
           Close(c, retain, told), told \/ retain \/ garbled' > 0
    PROVE  /\ IntentKept
           /\ intent'.attempt \in {0, intent.attempt}
<1>1. TypeOK
  BY DEF Inv
<1>2. /\ intent \in [signature : Signatures, key : 0..MaxAttempts, attempt : 0..MaxAttempts]
      /\ aim \in [signature : Signatures, id : 0..MaxAttempts] /\ <<>> \in Signatures
      /\ 0 \in 0..MaxAttempts
  BY <1>1, BoundsAre DEF TypeOK, Signatures
<1>3. aim' \in {aim, [aim EXCEPT !.signature = <<>>]}
  BY DEF Close
<1>4. /\ aim' \in [signature : Signatures, id : 0..MaxAttempts] /\ aim'.id = aim.id
      /\ aim'.signature \in {<<>>, aim.signature}
  BY <1>2, <1>3
<1>5. intent' \in {intent, [intent EXCEPT !.attempt = 0], NoIntent}
  BY DEF Close, Settle
<1>6. /\ intent' \in [signature : Signatures, key : 0..MaxAttempts, attempt : 0..MaxAttempts]
      /\ intent'.attempt \in {0, intent.attempt}
      /\ intent'.signature # <<>> => intent'.key = intent.key /\ intent.signature # <<>>
  BY <1>2, <1>5 DEF NoIntent
<1>7. ASSUME garbled' = 0, AimsFit, aim'.signature # <<>>
      PROVE  intent'.signature = intent.signature /\ intent'.key = intent.key
  <2>1. CASE intent.attempt # c.attempt
    BY <2>1 DEF Close, Settle
  <2>2. CASE intent.attempt = c.attempt /\ retain
    <3>1. intent' = [intent EXCEPT !.attempt = 0]
      BY <2>2 DEF Close, Settle
    <3>2. QED
      BY <1>2, <3>1
  <2>3. CASE intent.attempt = c.attempt /\ ~retain
    <3>1. told /\ c.aim = aim.id
      BY <1>7, <2>3 DEF AimsFit
    <3>2. aim' = [aim EXCEPT !.signature = <<>>]
      BY <3>1 DEF Close
    <3>3. QED
      BY <1>2, <1>7, <3>2
  <2>4. QED
    BY <2>1, <2>2, <2>3
<1>8. QED
  BY <1>4, <1>6, <1>7 DEF IntentKept

\* What the tab leaves alone while a request is under way.
LEMMA TypesKept ==
    ASSUME Inv
    PROVE  /\ version \in [Sessions -> 0..MaxVersion] /\ view \in [Sessions -> 0..MaxVersion]
           /\ get \in [state : {"idle", "asked", "read"}, session : 0..MaxSessions,
                       version : 0..MaxVersion]
           /\ sid \in 0..MaxSessions /\ retired \subseteq Sessions
           /\ latest \in {0, latest} /\ intent.attempt \in {0, latest}
           /\ mishaps \in 0..MaxMishaps /\ garbled \in 0..MaxGarbled
           /\ \A s \in Sessions : version[s] \in 0..MaxVersion /\ version[s] <= version[s]
           /\ \A s \in Sessions : view[s] <= version[s]
           /\ get.state # "idle" =>
                 get.session \in Sessions /\ get.version <= version[get.session]
<1>1. TypeOK /\ ScreenFits
  BY DEF Inv
<1>2. version \in [Sessions -> 0..MaxVersion]
  BY <1>1 DEF TypeOK
<1>3. \A s \in Sessions : version[s] \in 0..MaxVersion /\ version[s] <= version[s]
  BY <1>2, BoundsAre
<1>4. QED
  BY <1>1, <1>3 DEF TypeOK, ScreenFits

\* An answer is heard: its session is adopted, newer or not than the screen.
LEMMA AnswerInv ==
    ASSUME Inv, NEW c \in calls, Answer(c)
    PROVE  Inv'
<1>1. FewerCalls
  BY DEF Answer, FewerCalls
<1>2. /\ IntentKept /\ intent'.attempt \in {0, intent.attempt}
  BY CloseKeeps DEF Answer
<1>3. /\ UNCHANGED <<version, receipts, attempts, latest, retired, mishaps, garbled>>
      /\ pressed' = "none"
  BY DEF Answer, Close, server, budget
<1>4. c.toSession \in Sessions /\ c.toVersion <= version[c.toSession]
      /\ c.toVersion \in 0..MaxVersion
  <2>1. CallFits(c) /\ TypeOK
    BY DEF Inv
  <2>2. QED
    BY <2>1, CallIs DEF Answer, CallFits
<1>5. /\ sid' = c.toSession /\ view' = [view EXCEPT ![c.toSession] = c.toVersion]
      /\ get' = IF sid' # sid THEN AskFor(sid') ELSE get
  BY DEF Answer, Adopt
<1>6. sid' \in 0..MaxSessions /\ view' \in [Sessions -> 0..MaxVersion]
  BY <1>4, <1>5, TypesKept, BoundsAre DEF Sessions
<1>7. \A s \in Sessions : view'[s] <= version'[s]
  BY <1>3, <1>4, <1>5, TypesKept
<1>8. /\ get' \in [state : {"idle", "asked", "read"}, session : 0..MaxSessions,
                   version : 0..MaxVersion]
      /\ get'.state # "idle" =>
            get'.session \in Sessions /\ get'.version <= version'[get'.session]
  <2>1. CASE sid' = sid
    BY <1>3, <1>5, <2>1, TypesKept
  <2>2. CASE sid' # sid
    <3>1. get' = [state |-> "asked", session |-> c.toSession, version |-> 0]
      BY <1>5, <2>2 DEF AskFor
    <3>2. 0 \in 0..MaxVersion /\ 0 <= version[c.toSession] /\ c.toSession \in 0..MaxSessions
      BY <1>4, TypesKept, BoundsAre DEF Sessions
    <3>3. QED
      BY <1>3, <1>4, <3>1, <3>2
  <2>3. QED
    BY <2>1, <2>2
<1>9. QED
  BY <1>1, <1>2, <1>3, <1>6, <1>7, <1>8, TypesKept, QuietStep

\* An answer that is lost, or cut: the screen stays.
LEMMA UnheardInv ==
    ASSUME Inv, NEW c \in calls, Lose(c) \/ CutRefusal(c) \/ Garble(c)
    PROVE  Inv'
<1>1. FewerCalls
  BY DEF Lose, CutRefusal, Garble, FewerCalls
<1>2. /\ mishaps' \in 0..MaxMishaps
      /\ garbled' = garbled \/ garbled' \in 1..MaxGarbled
  <2>1. CASE Lose(c) \/ CutRefusal(c)
    <3>1. mishaps < MaxMishaps /\ mishaps' = mishaps + 1 /\ garbled' = garbled
      BY <2>1 DEF Lose, CutRefusal, Mishap
    <3>2. QED
      BY <3>1, TypesKept, BoundsAre
  <2>2. CASE Garble(c)
    BY <2>2, TypesKept, BoundsAre DEF Garble
  <2>3. QED
    BY <2>1, <2>2
<1>3. IntentKept /\ intent'.attempt \in {0, intent.attempt}
  <2>1. CASE Lose(c) \/ CutRefusal(c)
    BY <2>1, CloseKeeps DEF Lose, CutRefusal
  <2>2. CASE Garble(c)
    <3>1. garbled' = garbled + 1 /\ garbled \in 0..MaxGarbled
      BY <2>2, TypesKept DEF Garble
    <3>2. garbled' > 0
      BY <3>1, BoundsAre
    <3>3. Close(c, FALSE, FALSE)
      BY <2>2 DEF Garble
    <3>4. QED
      BY <3>2, <3>3, CloseKeeps
  <2>3. QED
    BY <2>1, <2>2
<1>4. /\ UNCHANGED <<version, receipts, attempts, latest, retired, sid, view, get>>
      /\ pressed' = "none"
  BY DEF Lose, CutRefusal, Garble, Close, server, screen
<1>5. QED
  BY <1>1, <1>2, <1>3, <1>4, TypesKept, QuietStep

\* What neither settles nor resets an attempt keeps the hook as it is.
LEMMA HookKept ==
    ASSUME Inv, UNCHANGED <<intent, aim, calls>>
    PROVE  IntentKept /\ FewerCalls
<1>1. /\ intent \in [signature : Signatures, key : 0..MaxAttempts, attempt : 0..MaxAttempts]
      /\ aim \in [signature : Signatures, id : 0..MaxAttempts]
  BY DEF Inv, TypeOK
<1>2. QED
  BY <1>1 DEF IntentKept, FewerCalls

\* The other tab moves the session on.
LEMMA OtherTabInv ==
    ASSUME Inv, OtherTab
    PROVE  Inv'
<1>1. IntentKept /\ FewerCalls
  BY HookKept DEF OtherTab
<1>2. /\ UNCHANGED <<receipts, attempts, latest, intent, retired, sid, view, get, garbled>>
      /\ pressed' = "none" /\ mishaps' \in 0..MaxMishaps
  BY TypesKept, BoundsAre DEF OtherTab, screen, Mishap
<1>3. /\ sid \in Sessions /\ version[sid] \in 1..(MaxVersion - 1)
      /\ version' = [version EXCEPT ![sid] = version[sid] + 1]
  BY TypesKept, BoundsAre DEF OtherTab, Sessions
<1>4. version' \in [Sessions -> 0..MaxVersion]
  <2>1. version[sid] + 1 \in 0..MaxVersion
    BY <1>3, BoundsAre
  <2>2. QED
    BY <1>3, <2>1, TypesKept
<1>5. ASSUME NEW s \in Sessions
      PROVE  version[s] <= version'[s] /\ (version[s] > 0 <=> version'[s] > 0)
  <2>1. CASE s = sid
    BY <1>3, <2>1, TypesKept, BoundsAre
  <2>2. CASE s # sid
    BY <1>3, <2>2, TypesKept, BoundsAre
  <2>3. QED
    BY <2>1, <2>2
<1>6. \A s \in Sessions : view[s] <= version'[s]
  BY <1>4, <1>5, TypesKept, BoundsAre
<1>7. get.state # "idle" =>
         get.session \in Sessions /\ get.version <= version'[get.session]
  BY <1>4, <1>5, TypesKept, BoundsAre
<1>8. QED
  BY <1>1, <1>2, <1>4, <1>5, <1>6, <1>7, TypesKept, QuietStep

\* The query reads, shows, fails or is asked again.
LEMMA QueryInv ==
    ASSUME Inv, Read \/ Show \/ FailGet \/ Reconnect
    PROVE  Inv'
<1>1. Fetching /\ UNCHANGED garbled /\ mishaps' \in 0..MaxMishaps
  BY TypesKept, BoundsAre DEF Read, Show, FailGet, Reconnect, Mishap, budget
<1>2. IntentKept /\ FewerCalls
  BY <1>1, HookKept DEF Fetching
<1>3. /\ UNCHANGED <<version, receipts, attempts, latest, intent, retired, sid>>
      /\ pressed' = "none"
  BY <1>1 DEF Fetching, server
<1>4. /\ 0 \in 0..MaxVersion /\ 0 \in 0..MaxSessions
      /\ \A s \in Sessions : s \in 0..MaxSessions
  BY BoundsAre DEF Sessions
<1>5. /\ view' \in [Sessions -> 0..MaxVersion]
      /\ \A s \in Sessions : view'[s] <= version[s]
  <2>1. CASE Show
    <3>1. get.session \in Sessions /\ get.version <= version[get.session]
          /\ get.version \in 0..MaxVersion
      BY <2>1, TypesKept DEF Show
    <3>2. QED
      BY <2>1, <3>1, TypesKept DEF Show
  <2>2. CASE Read \/ FailGet \/ Reconnect
    BY <2>2, TypesKept DEF Read, FailGet, Reconnect
  <2>3. QED
    BY <2>1, <2>2
<1>6. /\ get' \in [state : {"idle", "asked", "read"}, session : 0..MaxSessions,
                   version : 0..MaxVersion]
      /\ get'.state # "idle" =>
            get'.session \in Sessions /\ get'.version <= version[get'.session]
  <2>1. CASE Read
    <3>1. get.session \in Sessions
      BY <2>1, TypesKept DEF Read
    <3>2. get' = [get EXCEPT !.state = "read", !.version = version[get.session]]
      BY <2>1 DEF Read
    <3>3. QED
      BY <3>1, <3>2, TypesKept
  <2>2. CASE Show \/ FailGet
    BY <1>4, <2>2 DEF Show, FailGet, NoGet
  <2>3. CASE Reconnect
    <3>1. sid \in Sessions /\ 0 <= version[sid]
      BY <2>3, TypesKept, BoundsAre DEF Reconnect, Sessions
    <3>2. QED
      BY <1>4, <2>3, <3>1 DEF Reconnect, AskFor
  <2>4. QED
    BY <2>1, <2>2, <2>3
<1>7. QED
  BY <1>1, <1>2, <1>3, <1>5, <1>6, TypesKept, QuietStep

\* A new exercise, or the page loaded again: the hook and the operator start anew.
LEMMA AnewInv ==
    ASSUME Inv, Restart \/ Reload
    PROVE  Inv'
<1>1. /\ aim' = [aim EXCEPT !.signature = <<>>] /\ intent' = NoIntent /\ latest' = 0
      /\ pressed' = "none" /\ UNCHANGED <<version, receipts, attempts, garbled>>
      /\ mishaps' \in 0..MaxMishaps
  BY TypesKept, BoundsAre DEF Restart, Reload, Discard, Mishap, server, budget
<1>2. IntentKept
  <2>1. /\ aim \in [signature : Signatures, id : 0..MaxAttempts] /\ <<>> \in Signatures
        /\ 0 \in 0..MaxAttempts
    BY BoundsAre DEF Inv, TypeOK, Signatures
  <2>2. QED
    BY <1>1, <2>1 DEF IntentKept, NoIntent
<1>3. FewerCalls
  BY DEF Restart, Reload, FewerCalls
<1>4. /\ 0 \in 0..MaxVersion /\ 0 \in 0..MaxSessions
      /\ sid # 0 => sid \in Sessions
  BY TypesKept, BoundsAre DEF Sessions
<1>5. sid' \in 0..MaxSessions /\ retired' \subseteq Sessions
  <2>1. CASE Restart
    <3>1. sid # 0
      BY <2>1 DEF Restart, LoadFailed
    <3>2. QED
      BY <1>4, <2>1, <3>1, TypesKept DEF Restart
  <2>2. CASE Reload
    BY <2>2, TypesKept DEF Reload
  <2>3. QED
    BY <2>1, <2>2
<1>6. /\ view' \in [Sessions -> 0..MaxVersion]
      /\ \A s \in Sessions : view'[s] <= version[s]
  <2>1. \A s \in Sessions : 0 <= version[s]
    BY TypesKept, BoundsAre
  <2>2. QED
    BY <1>4, <2>1, TypesKept DEF Restart, Reload
<1>7. /\ get' \in [state : {"idle", "asked", "read"}, session : 0..MaxSessions,
                   version : 0..MaxVersion]
      /\ get'.state # "idle" =>
            get'.session \in Sessions /\ get'.version <= version[get'.session]
  <2>1. CASE get' = NoGet
    BY <1>4, <2>1 DEF NoGet
  <2>2. CASE get' = AskFor(sid) /\ sid # 0
    <3>1. 0 <= version[sid]
      BY <1>4, <2>2, TypesKept, BoundsAre
    <3>2. QED
      BY <1>4, <2>2, <3>1, TypesKept DEF AskFor
  <2>3. QED
    BY <2>1, <2>2 DEF Restart, Reload
<1>8. intent'.attempt \in {0, latest'} /\ latest' \in {0, latest}
  BY <1>1 DEF NoIntent
<1>9. QED
  BY <1>1, <1>2, <1>3, <1>5, <1>6, <1>7, <1>8, TypesKept, QuietStep


-----------------------------------------------------------------------------
(* A command is sent.                                                      *)

\* What is offered fits what is on screen, and on the server.
LEMMA OfferedFits ==
    ASSUME Inv, NEW name \in Offered
    PROVE  \/ sid = 0 /\ name = Create
           \/ /\ name \in Commands /\ name # Create /\ sid \in Sessions
              /\ view[sid] \in 1..(MaxVersion - 1) /\ view[sid] <= version[sid]
<1>1. CASE sid = 0
  BY <1>1 DEF Offered
<1>2. CASE sid # 0
  <2>1. sid \in Sessions
    BY <1>2, TypesKept, BoundsAre DEF Sessions
  <2>2. name \in Commands /\ view[sid] # 0 /\ view[sid] # MaxVersion
    BY <1>2 DEF Offered, Completed
  <2>3. QED
    BY <2>1, <2>2, TypesKept, BoundsAre
<1>3. QED
  BY <1>1, <1>2

\* Sent under the key of what is still wanted, or as something new.
LEMMA SendInv ==
    ASSUME Inv, NEW name \in Offered, Send(name),
           mishaps' \in 0..MaxMishaps, garbled' = garbled
    PROVE  Inv'
<1> DEFINE expected == IF sid = 0 THEN 0 ELSE view[sid]
           signature == <<name, sid, expected>>
           id == attempts + 1
           key == IF intent.signature = signature THEN intent.key ELSE id
           want == IF aim.signature = signature THEN aim.id ELSE id
           new == [attempt |-> id, key |-> key, name |-> name, session |-> sid,
                   expected |-> expected, aim |-> want, heard |-> TRUE, reply |-> "none",
                   toSession |-> 0, toVersion |-> 0]
<1>1. TypeOK
  BY DEF Inv
<1>2. attempts \in Nat /\ id \in Attempts /\ id > attempts
  BY <1>1, BoundsAre DEF TypeOK, Send, Attempts
<1>3. /\ expected \in 0..MaxVersion /\ sid \in 0..MaxSessions
      /\ name \in Commands \cup {Create}
  BY OfferedFits, TypesKept, BoundsAre
<1>4. signature \in Signatures /\ signature # <<>>
  BY <1>3 DEF Signatures
<1>5. /\ key \in 1..id /\ want \in 1..id
      /\ aim.signature = signature => want = aim.id /\ want \in 1..attempts
      /\ aim.signature # signature => want = id
  <2> HIDE DEF signature
  <2>1. attempts \in 1..id \cup {0} /\ id \in 1..id
        /\ \A k \in 1..attempts : k \in 1..id
    BY <1>2
  <2>2. /\ intent.signature = signature => intent.key \in 1..attempts
        /\ aim.signature = signature => aim.id \in 1..attempts
    BY <1>4 DEF Inv, IntentFits
  <2> HIDE DEF id
  <2>3. QED
    BY <2>1, <2>2
<1>6. key \in Attempts /\ want \in 0..MaxAttempts /\ key \in 0..MaxAttempts /\ id \in 0..MaxAttempts
  BY <1>2, <1>5, BoundsAre DEF Attempts
<1>7. /\ attempts' = id /\ latest' = id /\ pressed' = name
      /\ aim' = [signature |-> signature, id |-> want]
      /\ UNCHANGED <<version, receipts, sid, view, get, retired>>
  BY DEF Send, server, screen
<1>8. intent' = [signature |-> signature, key |-> key, attempt |-> id]
  BY DEF Send, Begin
<1>9. calls' = calls \cup {new}
  BY DEF Send, Begin
<1>10. /\ new \in CallType /\ new.key = key /\ new.aim = want /\ new.reply = "none"
       /\ new.attempt = id /\ new.name = name /\ new.session = sid
       /\ new.expected = expected /\ Signature(new) = signature
  BY <1>2, <1>3, <1>6, BoundsAre DEF CallType, Signature
<1> HIDE DEF expected, signature, id, key, want, new
<1>11. TypeOK'
  <2>1. calls' \subseteq CallType
    BY <1>1, <1>9, <1>10 DEF TypeOK
  <2>2. aim' \in [signature : Signatures, id : 0..MaxAttempts]
    BY <1>4, <1>6, <1>7
  <2>3. /\ intent' \in [signature : Signatures, key : 0..MaxAttempts, attempt : 0..MaxAttempts]
        /\ intent'.attempt = latest'
    BY <1>4, <1>6, <1>7, <1>8
  <2>4. QED
    BY <1>1, <1>3, <1>6, <1>7, <2>1, <2>2, <2>3 DEF TypeOK
<1>12. ASSUME NEW c \in calls' PROVE CallFits(c)'
  <2>1. CASE c \in calls
    <3>1. CallFits(c) /\ c.attempt \in Nat
      BY <1>1, <2>1, CallIs, BoundsAre DEF Inv, Attempts
    <3>2. c.attempt <= attempts' /\ c.aim \in 1..attempts'
      BY <1>2, <1>7, <3>1 DEF CallFits, id
    <3>3. QED
      BY <1>7, <3>1, <3>2 DEF CallFits
  <2>2. CASE c = new
    <3>1. c.attempt <= attempts' /\ c.aim \in 1..attempts'
      BY <1>2, <1>5, <1>7, <1>10, <2>2 DEF id
    <3>2. ASSUME c.name # Create
          PROVE  c.session \in Sessions /\ c.expected \in 1..(MaxVersion - 1)
                 /\ c.expected <= version[c.session]
      BY <1>10, <2>2, <3>2, OfferedFits, BoundsAre DEF expected, Sessions
    <3>3. QED
      BY <1>7, <1>10, <2>2, <3>1, <3>2 DEF CallFits
  <2>3. QED
    BY <1>9, <2>1, <2>2
<1>13. ServerFits'
  <2>1. \A r \in receipts : r.aim \in Nat
    BY <1>1 DEF TypeOK, Attempts
  <2>2. \A r \in receipts : r.aim <= attempts'
    BY <1>2, <1>7, <2>1 DEF Inv, ServerFits, id
  <2>3. QED
    BY <1>7, <2>2 DEF Inv, ServerFits
<1>14. ScreenFits'
  <2>1. Offered' = Offered
    BY <1>7 DEF Offered, Completed
  <2>2. QED
    BY <1>7, <2>1 DEF Inv, ScreenFits
<1>15. IntentFits'
  <2>1. intent'.key \in 1..attempts' /\ aim'.id \in 1..attempts'
    BY <1>5, <1>7, <1>8
  <2>2. latest' <= attempts'
    BY <1>2, <1>7 DEF id
  <2>3. QED
    BY <2>1, <2>2 DEF IntentFits
<1>16. ASSUME garbled = 0 PROVE AimsFit'
  <2>1. AimsFit
    BY <1>16 DEF Inv
  <2>2. \A c \in calls : c.aim <= attempts /\ c.attempt <= attempts /\ c.aim \in Nat
                         /\ c.attempt \in Nat
    BY <1>1, CallIs, BoundsAre DEF Inv, CallFits, Attempts
  <2>3. \A r \in receipts : r.aim <= attempts /\ r.aim \in Nat
    BY <1>1, BoundsAre DEF Inv, ServerFits, TypeOK, Attempts
  <2>4. \A c \in calls : c.aim = want => c.key = key /\ Signature(c) = signature
    <3>1. CASE aim.signature = signature
      BY <1>4, <1>5, <2>1, <3>1 DEF AimsFit, key
    <3>2. CASE aim.signature # signature
      BY <1>2, <1>5, <2>2, <3>2
    <3>3. QED
      BY <3>1, <3>2
  <2>5. \A r \in receipts : r.aim = want => r.key = key
    <3>1. CASE aim.signature = signature
      BY <1>4, <1>5, <2>1, <3>1 DEF AimsFit, key
    <3>2. CASE aim.signature # signature
      BY <1>2, <1>5, <2>3, <3>2
    <3>3. QED
      BY <3>1, <3>2
  <2>6. \A c, d \in calls' : c.aim = d.aim => c.key = d.key /\ Signature(c) = Signature(d)
    BY <1>9, <1>10, <2>1, <2>4 DEF AimsFit
  <2>7. \A c \in calls', r \in receipts : c.aim = r.aim => c.key = r.key
    BY <1>9, <1>10, <2>1, <2>5 DEF AimsFit
  <2>8. \A c \in calls' : c.attempt = intent'.attempt => c.aim = aim'.id
    <3>1. \A c \in calls : c.attempt # id
      BY <1>2, <2>2
    <3>2. QED
      BY <1>7, <1>8, <1>9, <1>10, <3>1
  <2>9. /\ intent'.signature = aim'.signature
        /\ \A c \in calls' :
              c.aim = aim'.id => c.key = intent'.key /\ Signature(c) = aim'.signature
        /\ \A r \in receipts : r.aim = aim'.id => r.key = intent'.key
    BY <1>7, <1>8, <1>9, <1>10, <2>4, <2>5
  <2>10. \A c \in calls' : c.reply = "refused" => ~\E r \in receipts : r.aim = c.aim
    BY <1>9, <1>10, <2>1 DEF AimsFit
  <2>11. \A r, q \in receipts : r.aim = q.aim => r = q
    BY <2>1 DEF AimsFit
  <2>12. QED
    BY <1>7, <2>6, <2>7, <2>8, <2>9, <2>10, <2>11 DEF AimsFit, Signature
<1>17. QED
  BY <1>11, <1>12, <1>13, <1>14, <1>15, <1>16 DEF Inv

-----------------------------------------------------------------------------
(* A command is served.                                                    *)

\* A new session follows the ones there are.
LEMMA NextSession ==
    ASSUME Inv, NEW n \in 0..MaxSessions, \A s \in Sessions : version[s] > 0 <=> s <= n
    PROVE  Cardinality({s \in Sessions : version[s] > 0}) = n
<1>1. MaxSessions \in Nat
  BY BoundsAre
<1>2. {s \in Sessions : version[s] > 0} = 1..n
  BY <1>1 DEF Sessions
<1> DEFINE k == Cardinality(1..n)
<1>3. k = IF 1 > n THEN 0 ELSE n - 1 + 1
  BY <1>1, FS_Interval
<1> HIDE DEF k
<1>4. k = n
  BY <1>1, <1>3
<1>5. QED
  BY <1>2, <1>4 DEF k

\* The four outcomes, with what each says of the receipts and of the version.
LEMMA Outcomes ==
    ASSUME Inv, NEW c \in calls
    PROVE  \/ \E r \in receipts :
                 r.key = c.key /\ Effect(c) = <<"replay", r.session, r.version>>
           \/ /\ \A r \in receipts : r.key # c.key
              /\ \/ /\ c.name = Create
                    /\ \E n \in 0..MaxSessions :
                          /\ \A s \in Sessions : version[s] > 0 <=> s <= n
                          /\ Effect(c) = <<"ok", n + 1, 1>>
                 \/ /\ c.name # Create /\ c.expected = version[c.session]
                    /\ Effect(c) = <<"ok", c.session, c.expected + 1>>
                 \/ /\ c.name # Create /\ c.expected < version[c.session]
                    /\ Effect(c) = <<"refused", c.session, version[c.session]>>
<1> DEFINE mine == {r \in receipts : r.key = c.key}
           r0 == CHOOSE r \in mine : TRUE
           made == Cardinality({s \in Sessions : version[s] > 0})
<1>1. Effect(c) = IF mine # {} THEN <<"replay", r0.session, r0.version>>
                  ELSE IF c.name = Create THEN <<"ok", made + 1, 1>>
                  ELSE IF c.expected = version[c.session] /\ c.expected < MaxVersion
                  THEN <<"ok", c.session, c.expected + 1>>
                  ELSE <<"refused", c.session, version[c.session]>>
  BY DEF Effect
<1>2. mine # {} => r0 \in mine
  OBVIOUS
<1>3. mine = {} => \A r \in receipts : r.key # c.key
  OBVIOUS
<1>4. \E n \in 0..MaxSessions : (\A s \in Sessions : version[s] > 0 <=> s <= n) /\ made = n
  <2>1. PICK n \in 0..MaxSessions : \A s \in Sessions : version[s] > 0 <=> s <= n
    BY DEF Inv, ServerFits
  <2>2. QED
    BY <2>1, NextSession
<1>5. c.name # Create =>
         /\ c.expected = version[c.session] => c.expected < MaxVersion
         /\ c.expected # version[c.session] => c.expected < version[c.session]
  <2>1. CallFits(c)
    BY DEF Inv
  <2>2. c.name # Create => /\ version[c.session] \in Int /\ c.expected \in 1..(MaxVersion - 1)
                           /\ c.expected <= version[c.session]
    BY <2>1, TypesKept, BoundsAre DEF CallFits
  <2>3. QED
    BY <2>2, BoundsAre
<1>6. CASE mine # {}
  <2>1. Effect(c) = <<"replay", r0.session, r0.version>>
    BY <1>1, <1>6
  <2>2. QED
    BY <1>2, <1>6, <2>1
<1>7. CASE mine = {}
  <2> HIDE DEF mine, made
  <2>1. CASE c.name = Create
    BY <1>1, <1>3, <1>4, <1>7, <2>1
  <2>2. CASE c.name # Create
    BY <1>1, <1>3, <1>5, <1>7, <2>2
  <2>3. QED
    BY <2>1, <2>2
<1>8. QED
  BY <1>6, <1>7


\* A served call keeps the invariant, replayed, done or refused.
LEMMA ServeInv ==
    ASSUME Inv, NEW c \in calls, Serve(c)
    PROVE  Inv'
<1> DEFINE e == Effect(c)
           done == [c EXCEPT !.reply = IF e[1] = "refused" THEN "refused" ELSE "ok",
                             !.toSession = e[2], !.toVersion = e[3]]
           made == [key |-> c.key, session |-> e[2], version |-> e[3], aim |-> c.aim]
<1>1. TypeOK /\ CallFits(c)
  BY DEF Inv
<1>2. /\ c.reply = "none" /\ e[2] \in Sessions /\ pressed' = "none"
      /\ UNCHANGED <<sid, view, get, intent, latest, attempts, aim, retired, mishaps, garbled>>
      /\ calls' = (calls \ {c}) \cup (IF c.heard THEN {done} ELSE {})
      /\ IF e[1] = "ok"
           THEN /\ version' = [version EXCEPT ![e[2]] = e[3]]
                /\ receipts' = receipts \cup {made}
           ELSE UNCHANGED <<version, receipts>>
  BY DEF Serve, screen, budget, server
<1>3. \/ \E r \in receipts : r.key = c.key /\ e = <<"replay", r.session, r.version>>
      \/ /\ \A r \in receipts : r.key # c.key
         /\ \/ /\ c.name = Create
               /\ \E n \in 0..MaxSessions :
                     /\ \A s \in Sessions : version[s] > 0 <=> s <= n
                     /\ e = <<"ok", n + 1, 1>>
            \/ /\ c.name # Create /\ c.expected = version[c.session]
               /\ e = <<"ok", c.session, c.expected + 1>>
            \/ /\ c.name # Create /\ c.expected < version[c.session]
               /\ e = <<"refused", c.session, version[c.session]>>
  BY Outcomes
<1> HIDE DEF e
<1>4. /\ c \in CallType /\ c.key \in Attempts /\ c.aim \in Attempts
      /\ c.session \in 0..MaxSessions /\ c.expected \in 0..MaxVersion
  <2>1. c.aim \in 1..attempts /\ attempts \in 0..MaxAttempts
    BY <1>1 DEF CallFits, TypeOK
  <2>2. QED
    BY <1>1, <2>1, CallIs, BoundsAre DEF Attempts
<1>5. /\ version \in [Sessions -> 0..MaxVersion] /\ e[2] \in Sessions
      /\ e[1] \in {"replay", "ok", "refused"}
      /\ e[1] # "ok" => e[3] <= version[e[2]] /\ e[3] \in 0..MaxVersion
      /\ e[1] = "ok" => /\ e[3] \in 1..MaxVersion /\ version[e[2]] < e[3]
  <2>1. CASE \E r \in receipts : r.key = c.key /\ e = <<"replay", r.session, r.version>>
    <3>1. PICK r \in receipts : e = <<"replay", r.session, r.version>>
      BY <2>1
    <3>2. r.version <= version[r.session] /\ r.version \in 1..MaxVersion
      BY <1>1 DEF Inv, ServerFits, TypeOK
    <3>3. QED
      BY <1>2, <3>1, <3>2, TypesKept, BoundsAre
  <2>2. CASE \E n \in 0..MaxSessions :
                /\ \A s \in Sessions : version[s] > 0 <=> s <= n
                /\ e = <<"ok", n + 1, 1>>
    <3>1. PICK n \in 0..MaxSessions : /\ \A s \in Sessions : version[s] > 0 <=> s <= n
                                      /\ e = <<"ok", n + 1, 1>>
      BY <2>2
    <3>2. n + 1 \in Sessions /\ ~(n + 1 <= n)
      BY <1>2, <3>1, BoundsAre
    <3>3. version[n + 1] = 0
      BY <3>1, <3>2, TypesKept, BoundsAre
    <3>4. QED
      BY <3>1, <3>2, <3>3, TypesKept, BoundsAre
  <2>3. CASE /\ c.name # Create /\ c.expected = version[c.session]
             /\ e = <<"ok", c.session, c.expected + 1>>
    <3>1. c.session \in Sessions /\ c.expected \in 1..(MaxVersion - 1)
      BY <1>1, <2>3 DEF CallFits
    <3>2. QED
      BY <2>3, <3>1, TypesKept, BoundsAre
  <2>4. CASE /\ c.name # Create /\ c.expected < version[c.session]
             /\ e = <<"refused", c.session, version[c.session]>>
    <3>1. c.session \in Sessions
      BY <1>1, <2>4 DEF CallFits
    <3>2. QED
      BY <2>4, <3>1, TypesKept, BoundsAre
  <2>5. QED
    BY <1>3, <2>1, <2>2, <2>3, <2>4
<1>6. /\ version' \in [Sessions -> 0..MaxVersion]
      /\ \A s \in Sessions : version[s] <= version'[s]
      /\ e[3] <= version'[e[2]]
  <2>1. CASE e[1] = "ok"
    <3>1. e[3] \in 0..MaxVersion /\ e[3] \in Int
      BY <1>5, <2>1, BoundsAre
    <3>2. version' = [version EXCEPT ![e[2]] = e[3]]
      BY <1>2, <2>1
    <3>3. version' \in [Sessions -> 0..MaxVersion]
      BY <1>5, <3>1, <3>2
    <3>4. ASSUME NEW s \in Sessions PROVE version[s] <= version'[s]
      <4>1. CASE s = e[2]
        BY <1>5, <2>1, <3>1, <3>2, <4>1, TypesKept, BoundsAre
      <4>2. CASE s # e[2]
        BY <1>5, <3>2, <4>2, TypesKept, BoundsAre
      <4>3. QED
        BY <4>1, <4>2
    <3>5. e[3] <= version'[e[2]]
      BY <1>5, <3>1, <3>2
    <3>6. QED
      BY <3>3, <3>4, <3>5
  <2>2. CASE e[1] # "ok"
    BY <1>2, <1>5, <2>2, TypesKept
  <2>3. QED
    BY <2>1, <2>2
<1>7. /\ done \in CallType
      /\ done.attempt = c.attempt /\ done.key = c.key /\ done.name = c.name
      /\ done.session = c.session /\ done.expected = c.expected /\ done.aim = c.aim
      /\ done.reply = (IF e[1] = "refused" THEN "refused" ELSE "ok")
      /\ done.toSession = e[2] /\ done.toVersion = e[3]
  <2>1. e[3] \in 0..MaxVersion /\ e[2] \in 0..MaxSessions
    BY <1>5, BoundsAre DEF Sessions
  <2>2. QED
    BY <1>4, <2>1 DEF CallType
<1>8. /\ made.key = c.key /\ made.aim = c.aim /\ made.session = e[2] /\ made.version = e[3]
      /\ e[1] = "ok" => made \in [key : Attempts, session : Sessions, version : 1..MaxVersion,
                                  aim : Attempts]
  BY <1>4, <1>5
<1> HIDE DEF done, made
<1>9. \A d \in calls' : d \in calls \/ d = done
  BY <1>2
<1>10. \A r \in receipts' : r \in receipts \/ (e[1] = "ok" /\ r = made)
  BY <1>2
<1>11. TypeOK'
  <2>1. calls' \subseteq CallType
    BY <1>1, <1>7, <1>9 DEF TypeOK
  <2>2. receipts' \subseteq [key : Attempts, session : Sessions, version : 1..MaxVersion,
                             aim : Attempts]
    BY <1>1, <1>8, <1>10 DEF TypeOK
  <2>3. QED
    BY <1>1, <1>2, <1>6, <2>1, <2>2 DEF TypeOK
<1>12. ASSUME NEW d \in calls' PROVE CallFits(d)'
  <2>1. CASE d \in calls
    <3>1. CallFits(d) /\ d.toVersion \in Int /\ d.expected \in Int
      BY <1>1, <2>1, CallIs DEF Inv
    <3>2. QED
      BY <1>2, <1>6, <3>1, TypesKept, BoundsAre DEF CallFits
  <2>2. CASE d = done
    <3>1. /\ d.attempt <= attempts' /\ d.aim \in 1..attempts'
          /\ d.name # Create =>
                /\ d.session \in Sessions
                /\ d.expected \in 1..(MaxVersion - 1) /\ d.expected <= version'[d.session]
      BY <1>1, <1>2, <1>6, <1>7, <2>2, TypesKept, BoundsAre DEF CallFits
    <3>2. d.toSession \in Sessions /\ d.toVersion <= version'[d.toSession]
      BY <1>5, <1>6, <1>7, <2>2
    <3>3. ASSUME d.reply = "refused"
          PROVE  d.name # Create /\ d.expected < version'[d.session]
      <4>1. e[1] = "refused"
        BY <1>7, <2>2, <3>3
      <4>2. c.name # Create /\ c.expected < version[c.session]
        BY <1>3, <4>1
      <4>3. version' = version
        BY <1>2, <4>1
      <4>4. QED
        BY <1>7, <2>2, <4>2, <4>3
    <3>4. QED
      BY <3>1, <3>2, <3>3 DEF CallFits
  <2>3. QED
    BY <1>9, <2>1, <2>2
<1>13. ServerFits'
  <2>1. \E n \in 0..MaxSessions : \A s \in Sessions : version'[s] > 0 <=> s <= n
    <3>1. CASE e[1] # "ok"
      BY <1>2, <3>1 DEF Inv, ServerFits
    <3>2. CASE e[1] = "ok" /\ c.name = Create
      <4>1. PICK n \in 0..MaxSessions : /\ \A s \in Sessions : version[s] > 0 <=> s <= n
                                        /\ e = <<"ok", n + 1, 1>>
        BY <1>3, <3>2
      <4>2. version' = [version EXCEPT ![n + 1] = 1] /\ n + 1 \in Sessions
        BY <1>2, <3>2, <4>1
      <4>3. n + 1 \in 0..MaxSessions
        BY <4>2, BoundsAre DEF Sessions
      <4>4. ASSUME NEW s \in Sessions PROVE version'[s] > 0 <=> s <= n + 1
        <5>1. CASE s = n + 1
          BY <4>2, <5>1, TypesKept, BoundsAre DEF Sessions
        <5>2. CASE s # n + 1
          <6>1. version'[s] = version[s]
            BY <4>2, <5>2, TypesKept
          <6>2. s <= n + 1 <=> s <= n
            BY <5>2, BoundsAre DEF Sessions
          <6>3. QED
            BY <4>1, <6>1, <6>2
        <5>3. QED
          BY <5>1, <5>2
      <4>5. QED
        BY <4>3, <4>4
    <3>3. CASE e[1] = "ok" /\ c.name # Create
      <4>1. PICK n \in 0..MaxSessions : \A s \in Sessions : version[s] > 0 <=> s <= n
        BY DEF Inv, ServerFits
      <4>2. e = <<"ok", c.session, c.expected + 1>> /\ c.expected = version[c.session]
        BY <1>3, <3>3
      <4>3. c.session \in Sessions /\ c.expected \in 1..(MaxVersion - 1)
        BY <1>1, <3>3 DEF CallFits
      <4>4. version' = [version EXCEPT ![c.session] = c.expected + 1]
        BY <1>2, <3>3, <4>2
      <4>5. \A s \in Sessions : version'[s] > 0 <=> version[s] > 0
        BY <4>2, <4>3, <4>4, TypesKept, BoundsAre
      <4>6. QED
        BY <4>1, <4>5
    <3>4. QED
      BY <3>1, <3>2, <3>3
  <2>2. ASSUME NEW r \in receipts' PROVE r.version <= version'[r.session] /\ r.aim <= attempts'
    <3>1. CASE r \in receipts
      <4>1. r.version <= version[r.session] /\ r.aim <= attempts
        BY <3>1 DEF Inv, ServerFits
      <4>2. r.version \in Int /\ r.session \in Sessions
        BY <1>1, <3>1 DEF TypeOK
      <4>3. QED
        BY <1>2, <1>6, <4>1, <4>2, TypesKept, BoundsAre
    <3>2. CASE r = made
      <4>1. c.aim <= attempts
        BY <1>1 DEF CallFits, TypeOK
      <4>2. QED
        BY <1>2, <1>6, <1>8, <3>2, <4>1
    <3>3. QED
      BY <1>10, <3>1, <3>2
  <2>3. QED
    BY <2>1, <2>2 DEF ServerFits
<1>14. ScreenFits'
  <2>1. \A s \in Sessions : view[s] <= version'[s]
    BY <1>6, TypesKept, BoundsAre
  <2>2. get.state # "idle" =>
           get.session \in Sessions /\ get.version <= version'[get.session]
    BY <1>6, TypesKept, BoundsAre
  <2>3. QED
    BY <1>2, <2>1, <2>2 DEF ScreenFits
<1>15. IntentFits'
  BY <1>2 DEF Inv, IntentFits
<1>16. ASSUME garbled = 0 PROVE AimsFit'
  <2>1. AimsFit
    BY <1>16 DEF Inv
  <2>2. /\ Signature(done) = Signature(c)
        /\ \A d : Signature(d)' = Signature(d)
    BY <1>7 DEF Signature
  <2>3. ASSUME \A r \in receipts : r.key # c.key
        PROVE  \A r \in receipts : r.aim # c.aim
    BY <2>1, <2>3 DEF AimsFit
  <2>4. e[1] \in {"ok", "refused"} => \A r \in receipts : r.key # c.key
    BY <1>3
  <2>5. \A c1, d \in calls' : c1.aim = d.aim => c1.key = d.key /\ Signature(c1) = Signature(d)
    BY <1>7, <1>9, <2>1, <2>2 DEF AimsFit
  <2>6. \A d \in calls', r \in receipts' : d.aim = r.aim => d.key = r.key
    <3>1. \A d \in calls' : \E d1 \in calls : d.aim = d1.aim /\ d.key = d1.key
      BY <1>7, <1>9
    <3>2. \A d \in calls, r \in receipts' : d.aim = r.aim => d.key = r.key
      BY <1>8, <1>10, <2>1 DEF AimsFit
    <3>3. QED
      BY <3>1, <3>2
  <2>7. \A d \in calls' : d.attempt = intent'.attempt => d.aim = aim'.id
    BY <1>2, <1>7, <1>9, <2>1 DEF AimsFit
  <2>8. ASSUME aim'.signature # <<>>
        PROVE  /\ intent'.signature = aim'.signature
               /\ \A d \in calls' :
                     d.aim = aim'.id => d.key = intent'.key /\ Signature(d) = aim'.signature
               /\ \A r \in receipts' : r.aim = aim'.id => r.key = intent'.key
    <3>1. /\ intent.signature = aim.signature
          /\ \A d \in calls :
                d.aim = aim.id => d.key = intent.key /\ Signature(d) = aim.signature
          /\ \A r \in receipts : r.aim = aim.id => r.key = intent.key
      BY <1>2, <2>1, <2>8 DEF AimsFit
    <3>2. QED
      BY <1>2, <1>7, <1>8, <1>9, <1>10, <2>2, <3>1
  <2>9. \A r, q \in receipts' : r.aim = q.aim => r = q
    <3>1. \A r, q \in receipts : r.aim = q.aim => r = q
      BY <2>1 DEF AimsFit
    <3>2. e[1] = "ok" => \A r \in receipts : r.aim # made.aim
      BY <1>8, <2>3, <2>4
    <3>3. QED
      BY <1>10, <3>1, <3>2
  <2>10. ASSUME NEW d \in calls', d.reply = "refused", NEW r \in receipts', r.aim = d.aim
         PROVE  FALSE
    <3>1. CASE e[1] = "ok"
      <4>1. d \in calls
        BY <1>7, <1>9, <2>10, <3>1
      <4>2. r = made
        BY <1>10, <2>1, <2>10, <4>1 DEF AimsFit
      <4>3. Signature(d) = Signature(c)
        BY <1>8, <2>1, <2>10, <4>1, <4>2 DEF AimsFit
      <4>4. d.name = c.name /\ d.session = c.session /\ d.expected = c.expected
        BY <4>3 DEF Signature
      <4>5. d.name # Create /\ d.expected < version[d.session] /\ d.session \in Sessions
        BY <2>10, <4>1 DEF Inv, CallFits
      <4>6. c.expected = version[c.session]
        BY <1>3, <3>1, <4>4, <4>5
      <4>7. QED
        BY <4>4, <4>5, <4>6, TypesKept, BoundsAre
    <3>2. CASE e[1] # "ok"
      <4>1. r \in receipts
        BY <1>10, <3>2
      <4>2. CASE d \in calls
        BY <2>1, <2>10, <4>1, <4>2 DEF AimsFit
      <4>3. CASE d = done
        <5>1. e[1] = "refused"
          BY <1>7, <2>10, <4>3
        <5>2. QED
          BY <1>7, <2>3, <2>4, <2>10, <4>1, <4>3, <5>1
      <4>4. QED
        BY <1>9, <4>2, <4>3
    <3>3. QED
      BY <3>1, <3>2
  <2>11. QED
    BY <2>2, <2>5, <2>6, <2>7, <2>8, <2>9, <2>10 DEF AimsFit
<1>17. QED
  BY <1>2, <1>11, <1>12, <1>13, <1>14, <1>15, <1>16 DEF Inv

-----------------------------------------------------------------------------
(* Every run of the tab.                                                   *)

\* Nothing was sent, and there is no session.
LEMMA InitInv ==
    ASSUME Init
    PROVE  Inv
<1>1. /\ 0 \in 0..MaxVersion /\ 0 \in 0..MaxSessions /\ 0 \in 0..MaxAttempts
      /\ 0 \in 0..MaxMishaps /\ 0 \in 0..MaxGarbled
  BY BoundsAre
<1>2. TypeOK
  BY <1>1 DEF Init, TypeOK, Signatures, NoIntent, NoGet
<1>3. ServerFits
  <2>1. \A s \in Sessions : version[s] > 0 <=> s <= 0
    BY BoundsAre DEF Init, Sessions
  <2>2. QED
    BY <1>1, <2>1 DEF Init, ServerFits
<1>4. ScreenFits /\ IntentFits
  BY BoundsAre DEF Init, ScreenFits, IntentFits, NoGet, NoIntent, Sessions
<1>5. AimsFit
  BY DEF Init, AimsFit
<1>6. QED
  BY <1>2, <1>3, <1>4, <1>5 DEF Init, Inv

\* A button that is pressed again was offered.
LEMMA PressInv ==
    ASSUME Inv, NEW name \in Commands \cup {Create}, Press(name) \/ PressAgain(name)
    PROVE  Inv'
<1>1. name \in Offered
  <2>1. name # "none"
    BY BoundsAre
  <2>2. QED
    BY <2>1 DEF Press, PressAgain, Inv, ScreenFits
<1>2. Send(name) /\ mishaps' \in 0..MaxMishaps /\ garbled' = garbled
  <2>1. mishaps' \in 0..MaxMishaps /\ garbled' = garbled
    BY TypesKept, BoundsAre DEF Press, PressAgain, budget, Mishap
  <2>2. Send(name)
    BY DEF Press, PressAgain
  <2>3. QED
    BY <2>1, <2>2
<1>3. QED
  BY <1>1, <1>2, SendInv

\* Every step of the tab, of its server and of the other tab.
LEMMA StepInv ==
    ASSUME Inv, [Next]_vars
    PROVE  Inv'
<1>1. CASE \E name \in Commands \cup {Create} : Press(name) \/ PressAgain(name)
  BY <1>1, PressInv
<1>2. CASE \E c \in calls : Answer(c)
  BY <1>2, AnswerInv
<1>3. CASE \E c \in calls : Lose(c) \/ CutRefusal(c) \/ Garble(c)
  BY <1>3, UnheardInv
<1>4. CASE \E c \in calls : Serve(c)
  BY <1>4, ServeInv
<1>5. CASE OtherTab
  BY <1>5, OtherTabInv
<1>6. CASE Read \/ Show \/ FailGet \/ Reconnect
  BY <1>6, QueryInv
<1>7. CASE Restart \/ Reload
  BY <1>7, AnewInv
<1>8. CASE UNCHANGED vars
  <2>1. UNCHANGED <<version, receipts, sid, view, get, intent, latest, pressed, calls,
                    attempts, aim, retired, mishaps, garbled>>
    BY <1>8 DEF vars, server, screen, budget
  <2>2. TypeOK'
    BY <2>1 DEF Inv, TypeOK
  <2>3. \A c \in calls' : CallFits(c)'
    BY <2>1 DEF Inv, CallFits
  <2>4. ServerFits' /\ IntentFits'
    BY <2>1 DEF Inv, ServerFits, IntentFits
  <2>5. ScreenFits'
    BY <2>1 DEF Inv, ScreenFits, Offered, Completed
  <2>6. garbled' = 0 => AimsFit'
    BY <2>1 DEF Inv, AimsFit, Signature
  <2>7. QED
    BY <2>2, <2>3, <2>4, <2>5, <2>6 DEF Inv
<1>9. QED
  BY <1>1, <1>2, <1>3, <1>4, <1>5, <1>6, <1>7, <1>8 DEF Next

\* Whatever is lost, repeated, answered late or out of order, done by another
\* tab or by a page that was left, what the operator wants once is done at most
\* once, and asking for it again is never refused because it was done
\* (exerciseHooks.ts:79, idempotencyIntent.ts).
THEOREM ClientKeepsPromises == Spec => []ClientSound
<1>1. Inv => ClientSound
  BY DEF Inv, ClientSound, OncePerAim, AimsFit
<1>2. QED
  BY InitInv, StepInv, <1>1, PTL DEF Spec

-----------------------------------------------------------------------------
(* The planning session: the invariant.                                    *)

PlanningBounds ==
    /\ MaxSnap \in Nat \ {0} /\ MaxGen \in Nat \ {0}
    /\ MaxSent \in Nat \ {0} /\ MaxSlips \in Nat \ {0}

RequestType ==
    [kind : Kinds, attempt : Numbers, version : Items, baseline : BOOLEAN, key : Numbers,
     gen : 1..MaxGen, token : Nat, heard : BOOLEAN, reply : {"none", "ok", "scenario_stale"},
     item : Items]

StoredType == [key : Numbers, item : Items, gen : 1..MaxGen]

HookType ==
    [signature : {<<>>} \cup (Kinds \X (0..MaxSent)), key : 0..MaxSent,
     attempt : 0..MaxSent]

PlanType ==
    [base : Items, latest : Items, baseRec : Items, lastVersion : Items, lastRec : Items,
     latched : BOOLEAN, token : Nat]

\* The types of the parts that TypeOK takes for granted.
PlanningTyped ==
    /\ PlanningTypeOK
    /\ plan \in PlanType /\ token \in Nat \ {0}
    /\ requests \subseteq RequestType /\ stored \subseteq StoredType
    /\ intents \in [Kinds -> HookType] /\ observed \in [Kinds -> 0..MaxSent]
    /\ {mounted, owed, replaying} \subseteq BOOLEAN

\* What is stale on screen was latched when it was drawn.
StaleIsLatched == Mismatch(plan, shown, token) => plan.latched

\* A screen behind the server is owed the news.
NewsComes ==
    /\ fetch.state = "failed" => ~mounted
    /\ fetch.state = "read" => fetch.snap # 0 /\ (fetch.snap # snap => owed)
    /\ mounted /\ shown # snap =>
          owed \/ fetch.state = "asked" \/ (fetch.state = "read" /\ fetch.snap = snap)

\* Stored under one key once, numbered as they came, a scenario before its parts.
StoredFits ==
    /\ \A r, q \in stored : r.key = q.key \/ r.item.id = q.item.id => r = q
    /\ \A r \in stored :
          /\ r.item.id \in 1..Cardinality(stored) /\ r.item.scenario \in 1..r.item.id
          /\ r.key <= sent /\ r.gen <= gen

Known == {NoItem} \cup {r.item : r \in stored}

\* What a command of kind k on version v stores.
Origin(item, k, v) ==
    IF k = "create" THEN item.id = item.scenario
    ELSE /\ item.id # item.scenario /\ item.scenario = v.scenario
         /\ k = "generate" => item.of = v.id

RequestFits(c) ==
    /\ c.key <= sent /\ c.attempt <= sent /\ c.gen <= gen
    /\ c.gen = gen => mounted
    /\ c.attempt = intents[c.kind].attempt => c.gen = gen
    /\ c.version \in Known /\ (c.kind = "create" <=> c.version = NoItem)
    /\ c.reply = "scenario_stale" => c.kind # "create"
    /\ c.reply = "ok" => \E r \in stored : r.key = c.key /\ r.item = c.item

\* A key stands for one command of one session.
KeysFit ==
    /\ \A c, d \in requests :
          c.key = d.key => c.kind = d.kind /\ c.version = d.version /\ c.gen = d.gen
    /\ \A c \in requests, r \in stored :
          c.key = r.key => r.gen = c.gen /\ Origin(r.item, c.kind, c.version)

\* A key that is kept stands for the command it is kept for.
KeyKept(k) ==
    intents[k].signature # <<>> =>
    /\ intents[k].key \in 1..sent
    /\ \A j \in Kinds \ {k} : intents[j].signature # <<>> => intents[j].key # intents[k].key
    /\ \E v \in Known :
          /\ intents[k].signature = <<k, v.id>> /\ (k = "create" <=> v = NoItem)
          /\ \A c \in requests : c.key = intents[k].key =>
                c.kind = k /\ c.version = v /\ c.gen = gen
          /\ \A r \in stored : r.key = intents[k].key =>
                r.gen = gen /\ Origin(r.item, k, v)

IsScenario(item) == item.id = item.scenario

\* A session creates one scenario, under one key that it keeps until it is told.
OneCreate ==
    /\ \A c, d \in requests :
          c.kind = "create" /\ d.kind = "create" /\ c.gen = d.gen => c.key = d.key
    /\ \A c \in requests, r \in stored :
          c.kind = "create" /\ IsScenario(r.item) /\ c.gen = r.gen => c.key = r.key
    /\ OneScenarioPerSession
    /\ plan.base = NoItem =>
          /\ \A c \in requests : c.kind = "create" /\ c.gen = gen =>
                intents["create"].signature # <<>> /\ c.key = intents["create"].key
          /\ \A r \in stored : IsScenario(r.item) /\ r.gen = gen =>
                intents["create"].signature # <<>> /\ r.key = intents["create"].key

\* The session on screen and the commands that act on it.
PlanFits ==
    /\ {plan.base, plan.latest, plan.baseRec, plan.lastVersion, plan.lastRec} \subseteq Known
    /\ plan.base = NoItem <=> plan.latest = NoItem
    /\ plan.base # NoItem => \E r \in stored :
          r.item = plan.base /\ r.gen = gen /\ IsScenario(r.item)
    /\ SessionCoherent
    /\ \A c \in requests : c.gen = gen /\ c.kind # "create" =>
          /\ plan.base # NoItem /\ c.version.scenario = plan.base.scenario
          /\ c.baseline => c.version.id = plan.base.id

PlanningInv ==
    /\ PlanningBounds /\ PlanningTyped
    /\ StaleIsLatched /\ NewsComes
    /\ StoredFits
    /\ \A c \in requests : RequestFits(c)
    /\ KeysFit /\ \A k \in Kinds : KeyKept(k)
    /\ OneCreate
    /\ PlanFits

-----------------------------------------------------------------------------
(* What the types give.                                                    *)

\* The bounds, and what is at hand in a state of the invariant.
LEMMA PlanningTypes ==
    ASSUME PlanningInv
    PROVE  /\ MaxSnap \in Nat \ {0} /\ MaxGen \in Nat \ {0} /\ MaxSent \in Nat \ {0}
           /\ plan \in PlanType /\ NoPlan \in PlanType /\ NoItem \in Items
           /\ token \in Nat \ {0} /\ plan.token \in 0..token
           /\ snap \in 1..MaxSnap /\ shown \in 1..MaxSnap
           /\ fetch \in [state : {"idle", "asked", "read", "failed"}, snap : 0..MaxSnap]
           /\ gen \in 1..MaxGen /\ sent \in 0..MaxSent /\ sent \in Nat
           /\ requests \subseteq RequestType /\ stored \subseteq StoredType
           /\ intents \in [Kinds -> HookType] /\ observed \in [Kinds -> 0..MaxSent]
           /\ {mounted, owed, replaying} \subseteq BOOLEAN /\ (~mounted => plan = NoPlan)
<1>1. PlanningTyped /\ MaxSnap \in Nat \ {0} /\ MaxGen \in Nat \ {0} /\ MaxSent \in Nat \ {0}
  BY DEF PlanningInv, PlanningBounds
<1>2. NoItem \in Items
  BY <1>1 DEF NoItem, Items
<1>3. NoPlan \in PlanType
  BY <1>2 DEF NoPlan, PlanType
<1>4. QED
  BY <1>1, <1>2, <1>3 DEF PlanningTyped, PlanningTypeOK

\* The fields of the planning session.
LEMMA PlanFields ==
    ASSUME NEW p \in PlanType
    PROVE  /\ p.base \in Items /\ p.latest \in Items /\ p.baseRec \in Items
           /\ p.lastVersion \in Items /\ p.lastRec \in Items
           /\ p.latched \in BOOLEAN /\ p.token \in Nat
BY DEF PlanType

\* Two sessions that differ in their marks only.
SamePlan(p, q) ==
    /\ p.base = q.base /\ p.latest = q.latest /\ p.baseRec = q.baseRec
    /\ p.lastVersion = q.lastVersion /\ p.lastRec = q.lastRec /\ p.token = q.token

\* What is drawn is what was there, marked when it does not match the screen.
LEMMA RenderedIs ==
    ASSUME NEW p \in PlanType, plan' = Rendered(p)
    PROVE  /\ plan' \in PlanType /\ SamePlan(plan', p)
           /\ p.latched => plan'.latched
           /\ StaleIsLatched'
           /\ ~Mismatch(p, shown', token') => plan'.latched = p.latched
<1> DEFINE m == p.latched \/ Mismatch(p, shown', token')
<1>1. m \in BOOLEAN
  BY Zenon
<1>2. plan' = [p EXCEPT !.latched = m]
  BY DEF Rendered
<1>3. p.latched => m
  OBVIOUS
<1>4. Mismatch(p, shown', token') => m
  OBVIOUS
<1>5. ~Mismatch(p, shown', token') => m = p.latched
  BY PlanFields
<1> HIDE DEF m
<1>6. plan' \in PlanType /\ plan'.latched = m /\ SamePlan(plan', p)
  BY <1>1, <1>2 DEF PlanType, SamePlan
<1>7. Mismatch(plan', shown', token') <=> Mismatch(p, shown', token')
  BY <1>6 DEF Mismatch, SamePlan
<1>8. QED
  BY <1>3, <1>4, <1>5, <1>6, <1>7 DEF StaleIsLatched

\* A new session matches every screen.
LEMMA NoPlanMatches ==
    ASSUME NEW s, NEW t
    PROVE  ~Mismatch(NoPlan, s, t)
BY DEF Mismatch, NoPlan

\* A session that is not on screen stays empty.
LEMMA NoPlanStays ==
    ASSUME NoPlan \in PlanType, plan' = Rendered(NoPlan)
    PROVE  plan' = NoPlan
<1>1. SamePlan(plan', NoPlan) /\ plan' \in PlanType /\ plan'.latched = NoPlan.latched
  <2>1. ~Mismatch(NoPlan, shown', token')
    BY NoPlanMatches
  <2>2. QED
    BY <2>1, RenderedIs
<1>2. QED
  BY <1>1 DEF SamePlan, PlanType, NoPlan

-----------------------------------------------------------------------------
(* Steps that send and serve nothing.                                      *)

\* What is on the wire was, though the page may have stopped listening to it.
FewerRequests == \A c \in requests' : \E d \in requests : c \in {d, [d EXCEPT !.heard = FALSE]}

\* Every such call is like one that was there.
LEMMA FewerRequestsAre ==
    ASSUME PlanningInv, FewerRequests, NEW c \in requests'
    PROVE  \E d \in requests :
              /\ c \in RequestType /\ d \in RequestType
              /\ c.kind = d.kind /\ c.attempt = d.attempt /\ c.version = d.version
              /\ c.baseline = d.baseline /\ c.key = d.key /\ c.gen = d.gen
              /\ c.reply = d.reply /\ c.item = d.item
<1>1. PICK d \in requests : c = d \/ c = [d EXCEPT !.heard = FALSE]
  BY DEF FewerRequests
<1>2. d \in RequestType
  BY PlanningTypes
<1>3. CASE c = d
  BY <1>2, <1>3
<1>4. CASE c = [d EXCEPT !.heard = FALSE]
  BY <1>2, <1>4 DEF RequestType
<1>5. QED
  BY <1>1, <1>3, <1>4

\* A hook keeps its key or gives it up, and waits for no other attempt.
HookStays(k) ==
    /\ intents'[k] \in HookType
    /\ intents'[k].attempt \in {0, intents[k].attempt}
    /\ intents'[k].signature # <<>> =>
          /\ intents'[k].signature = intents[k].signature /\ intents[k].signature # <<>>
          /\ intents'[k].key = intents[k].key

\* The key of a scenario is kept until the scenario is there.
CreateKept ==
    plan'.base = NoItem =>
        /\ plan.base = NoItem
        /\ intents'["create"].signature = intents["create"].signature
        /\ intents'["create"].key = intents["create"].key

\* What the server, the wire and the hooks agree on.
Agreed ==
    /\ StoredFits /\ \A c \in requests : RequestFits(c)
    /\ KeysFit /\ \A k \in Kinds : KeyKept(k)
    /\ OneCreate

\* A step that sends and serves nothing keeps what is agreed on.
LEMMA AgreedKept ==
    ASSUME PlanningInv, FewerRequests, \A k \in Kinds : HookStays(k), CreateKept,
           UNCHANGED <<stored, sent, gen>>, mounted => mounted'
    PROVE  Agreed'
<1>1. /\ StoredFits /\ \A c \in requests : RequestFits(c)
      /\ KeysFit /\ \A k \in Kinds : KeyKept(k)
      /\ OneCreate
  BY DEF PlanningInv
<1>2. \A c \in requests' : \E d \in requests :
         /\ c \in RequestType /\ d \in RequestType
         /\ c.kind = d.kind /\ c.attempt = d.attempt /\ c.version = d.version
         /\ c.baseline = d.baseline /\ c.key = d.key /\ c.gen = d.gen
         /\ c.reply = d.reply /\ c.item = d.item
  BY FewerRequestsAre
<1>3. Known' = Known
  BY DEF Known
<1>4. StoredFits'
  BY <1>1 DEF StoredFits
<1>5. ASSUME NEW c \in requests' PROVE RequestFits(c)'
  <2>1. PICK d \in requests :
           /\ c \in RequestType /\ d \in RequestType
           /\ c.kind = d.kind /\ c.attempt = d.attempt /\ c.version = d.version
           /\ c.baseline = d.baseline /\ c.key = d.key /\ c.gen = d.gen
           /\ c.reply = d.reply /\ c.item = d.item
    BY <1>2
  <2>2. RequestFits(d)
    BY <1>1
  <2>3. c.attempt # 0 /\ c.kind \in Kinds
    BY <2>1, PlanningTypes DEF RequestType, Numbers
  <2>4. c.attempt = intents'[c.kind].attempt => c.gen = gen
    BY <2>1, <2>2, <2>3 DEF HookStays, RequestFits
  <2>5. QED
    BY <1>3, <2>1, <2>2, <2>4 DEF RequestFits
<1>6. KeysFit'
  BY <1>1, <1>2 DEF KeysFit
<1>7. ASSUME NEW k \in Kinds PROVE KeyKept(k)'
  <2>1. SUFFICES ASSUME intents'[k].signature # <<>>
                 PROVE  KeyKept(k)'
    BY DEF KeyKept
  <2>2. /\ intents'[k].signature = intents[k].signature /\ intents[k].signature # <<>>
        /\ intents'[k].key = intents[k].key
    BY <2>1 DEF HookStays
  <2>3. KeyKept(k)
    BY <1>1
  <2>4. PICK v \in Known :
           /\ intents[k].signature = <<k, v.id>> /\ (k = "create" <=> v = NoItem)
           /\ \A c \in requests : c.key = intents[k].key =>
                 c.kind = k /\ c.version = v /\ c.gen = gen
           /\ \A r \in stored : r.key = intents[k].key =>
                 r.gen = gen /\ Origin(r.item, k, v)
    BY <2>2, <2>3 DEF KeyKept
  <2>5. \A j \in Kinds \ {k} : intents'[j].signature # <<>> => intents'[j].key # intents'[k].key
    BY <2>2, <2>3 DEF HookStays, KeyKept
  <2>6. \A c \in requests' : c.key = intents[k].key => c.kind = k /\ c.version = v /\ c.gen = gen
    BY <1>2, <2>4
  <2>7. intents'[k].key \in 1..sent'
    BY <2>2, <2>3 DEF KeyKept
  <2>8. QED
    BY <1>3, <2>2, <2>4, <2>5, <2>6, <2>7 DEF KeyKept
<1>8. OneCreate'
  <2>1. OneScenarioPerSession'
    BY <1>1 DEF OneCreate, OneScenarioPerSession
  <2>2. \A c, d \in requests' :
           c.kind = "create" /\ d.kind = "create" /\ c.gen = d.gen => c.key = d.key
    BY <1>1, <1>2 DEF OneCreate
  <2>3. \A c \in requests', r \in stored :
           c.kind = "create" /\ IsScenario(r.item) /\ c.gen = r.gen => c.key = r.key
    BY <1>1, <1>2 DEF OneCreate
  <2>4. ASSUME plan'.base = NoItem
        PROVE  /\ \A c \in requests' : c.kind = "create" /\ c.gen = gen =>
                     intents'["create"].signature # <<>> /\ c.key = intents'["create"].key
               /\ \A r \in stored : IsScenario(r.item) /\ r.gen = gen =>
                     intents'["create"].signature # <<>> /\ r.key = intents'["create"].key
    BY <1>1, <1>2, <2>4 DEF OneCreate, CreateKept
  <2>5. QED
    BY <2>1, <2>2, <2>3, <2>4 DEF OneCreate, IsScenario
<1>9. QED
  BY <1>4, <1>5, <1>6, <1>7, <1>8 DEF Agreed

\* The session on screen stays as it is, but for its marks.
LEMMA PlanFitsKept ==
    ASSUME PlanningInv, FewerRequests, UNCHANGED <<stored, gen>>, SamePlan(plan', plan)
    PROVE  PlanFits'
<1>1. PlanFits
  BY DEF PlanningInv
<1>2. Known' = Known /\ \A i : IsScenario(i)' = IsScenario(i)
  BY DEF Known, IsScenario
<1>3. SessionCoherent'
  BY <1>1 DEF PlanFits, SessionCoherent, Planned, SamePlan
<1>4. \A c \in requests' : c.gen = gen /\ c.kind # "create" =>
         /\ plan.base # NoItem /\ c.version.scenario = plan.base.scenario
         /\ c.baseline => c.version.id = plan.base.id
  BY <1>1, FewerRequestsAre DEF PlanFits
<1>5. QED
  BY <1>1, <1>2, <1>3, <1>4 DEF PlanFits, SamePlan, IsScenario

\* Hooks that are not touched.
LEMMA HooksSame ==
    ASSUME PlanningInv, UNCHANGED intents
    PROVE  \A k \in Kinds : HookStays(k)
<1>1. intents \in [Kinds -> HookType]
  BY PlanningTypes
<1>2. QED
  BY <1>1 DEF HookStays

\* Fewer calls are typed as they were.
LEMMA RequestsTyped ==
    ASSUME PlanningInv, FewerRequests
    PROVE  requests' \subseteq RequestType
BY FewerRequestsAre

\* The parts of the invariant, together.
LEMMA Together ==
    ASSUME PlanningInv, Agreed', PlanFits', PlanningTyped', StaleIsLatched', NewsComes'
    PROVE  PlanningInv'
BY DEF PlanningInv, Agreed, PlanningBounds

\* A snapshot is stored, a query asked or read, the replay moved: no command
\* and no planning session is touched.
LEMMA WorldInv ==
    ASSUME PlanningInv, Commit \/ ReadDetail \/ RetryDetail \/ Replay
    PROVE  PlanningInv'
<1>1. /\ UNCHANGED <<stored, shown, token, mounted, gen, plan, intents, observed, requests, sent>>
      /\ snap' \in {snap, snap + 1} /\ replaying' \in {replaying, ~replaying}
      /\ owed' \in {owed, TRUE}
  BY DEF Commit, ReadDetail, RetryDetail, Replay, Drawn, database, feed, session, hooks
<1>2. FewerRequests /\ CreateKept /\ \A k \in Kinds : HookStays(k)
  BY <1>1, HooksSame DEF FewerRequests, CreateKept
<1>3. Agreed'
  BY <1>1, <1>2, AgreedKept
<1>4. SamePlan(plan', plan)
  BY <1>1 DEF SamePlan
<1>5. PlanFits'
  BY <1>1, <1>2, <1>4, PlanFitsKept
<1>6. /\ snap' \in 1..MaxSnap
      /\ fetch' \in [state : {"idle", "asked", "read", "failed"}, snap : 0..MaxSnap]
      /\ NewsComes'
  <2>1. CASE Commit
    <3>1. snap' = snap + 1 /\ owed' = TRUE /\ fetch' = fetch /\ snap < MaxSnap
      BY <2>1 DEF Commit
    <3>2. snap' \in 1..MaxSnap
      BY <3>1, PlanningTypes
    <3>3. QED
      BY <1>1, <3>1, <3>2, PlanningTypes DEF PlanningInv, NewsComes
  <2>2. CASE ReadDetail
    <3>1. fetch' = [state |-> "read", snap |-> snap] /\ snap' = snap /\ owed' = owed
      BY <2>2 DEF ReadDetail, Drawn, database
    <3>2. QED
      BY <1>1, <3>1, PlanningTypes DEF PlanningInv, NewsComes
  <2>3. CASE RetryDetail
    <3>1. fetch' = [state |-> "asked", snap |-> 0] /\ snap' = snap /\ owed' = owed
      BY <2>3 DEF RetryDetail, Drawn, database, Refetch
    <3>2. QED
      BY <1>1, <3>1, PlanningTypes DEF PlanningInv, NewsComes
  <2>4. CASE Replay
    <3>1. fetch' = fetch /\ snap' = snap /\ owed' = owed
      BY <2>4 DEF Replay, database, feed
    <3>2. QED
      BY <1>1, <3>1, PlanningTypes DEF PlanningInv, NewsComes
  <2>5. QED
    BY <2>1, <2>2, <2>3, <2>4
<1>7. {mounted, owed', replaying'} \subseteq BOOLEAN
  BY <1>1, PlanningTypes
<1>8. PlanningTyped'
  BY <1>1, <1>6, <1>7 DEF PlanningInv, PlanningTyped, PlanningTypeOK
<1>9. StaleIsLatched'
  BY <1>1 DEF PlanningInv, StaleIsLatched, Mismatch
<1>10. QED
  BY <1>3, <1>5, <1>6, <1>8, <1>9, Together

\* News reaches the screen, which is drawn again.
LEMMA NewsInv ==
    ASSUME PlanningInv, Event \/ Reopen \/ ShowDetail
    PROVE  PlanningInv'
<1>1. /\ UNCHANGED <<snap, stored, replaying, gen, intents, observed, requests, sent>>
      /\ plan' = Rendered(plan) /\ mounted' \in {mounted, TRUE} /\ owed' \in {owed, FALSE}
      /\ token' \in {token, token + 1}
  BY DEF Event, Reopen, ShowDetail, Drawn, database, hooks
<1>2. /\ plan' \in PlanType /\ SamePlan(plan', plan) /\ StaleIsLatched'
  BY <1>1, PlanningTypes, RenderedIs
<1>3. FewerRequests /\ CreateKept /\ \A k \in Kinds : HookStays(k)
  <2>1. FewerRequests
    BY <1>1 DEF FewerRequests
  <2>2. CreateKept
    BY <1>1, <1>2 DEF CreateKept, SamePlan
  <2>3. \A k \in Kinds : HookStays(k)
    BY <1>1, HooksSame
  <2>4. QED
    BY <2>1, <2>2, <2>3
<1>4. Agreed'
  <2>1. mounted => mounted'
    BY DEF Event, Reopen, ShowDetail
  <2>2. QED
    BY <1>1, <1>3, <2>1, AgreedKept
<1>5. PlanFits'
  BY <1>1, <1>2, <1>3, PlanFitsKept
<1>6. /\ shown' \in 1..MaxSnap
      /\ fetch' \in [state : {"idle", "asked", "read", "failed"}, snap : 0..MaxSnap]
      /\ NewsComes'
  <2>1. CASE Event \/ Reopen
    <3>1. fetch' = [state |-> "asked", snap |-> 0] /\ shown' = shown
      BY <2>1 DEF Event, Reopen, Refetch
    <3>2. QED
      BY <3>1, PlanningTypes DEF NewsComes
  <2>2. CASE ShowDetail
    <3>1. /\ fetch.state = "read" /\ fetch' = [state |-> "idle", snap |-> 0]
          /\ shown' = fetch.snap /\ owed' = owed
      BY <2>2 DEF ShowDetail
    <3>2. fetch.snap # snap => owed
      BY <3>1 DEF PlanningInv, NewsComes
    <3>3. fetch.snap \in 1..MaxSnap
      <4>1. fetch.snap \in 0..MaxSnap /\ fetch.snap # 0
        BY <3>1, PlanningTypes DEF PlanningInv, NewsComes
      <4>2. QED
        BY <4>1, PlanningTypes
    <3>4. QED
      BY <1>1, <3>1, <3>2, <3>3, PlanningTypes DEF NewsComes
  <2>3. QED
    BY <2>1, <2>2
<1>7. ~mounted' => plan' = NoPlan
  <2>1. CASE mounted
    BY <1>1, <2>1
  <2>2. CASE ~mounted
    BY <1>1, <2>2, PlanningTypes, NoPlanStays
  <2>3. QED
    BY <2>1, <2>2
<1>8. token' \in Nat \ {0} /\ plan'.token \in 0..token'
  BY <1>1, <1>2, PlanningTypes DEF SamePlan
<1>9. {mounted', owed', replaying} \subseteq BOOLEAN
  BY <1>1, PlanningTypes
<1>10. PlanningTyped'
  <2>1. /\ {plan'.base, plan'.latest, plan'.baseRec, plan'.lastVersion, plan'.lastRec}
            \subseteq Items
        /\ plan'.latched \in BOOLEAN
    BY <1>2 DEF PlanType
  <2>2. QED
    BY <1>1, <1>2, <1>6, <1>7, <1>8, <1>9, <2>1 DEF PlanningInv, PlanningTyped, PlanningTypeOK
<1>11. QED
  BY <1>2, <1>4, <1>5, <1>6, <1>10, Together

\* A session starts over, or the workspace leaves the screen with all it held.
LEMMA AfreshInv ==
    ASSUME PlanningInv, Reset \/ FailDetail
    PROVE  PlanningInv'
<1>1. /\ UNCHANGED <<snap, stored, owed, shown, token, replaying, requests, sent>>
      /\ gen' = gen + 1 /\ gen < MaxGen /\ plan' = NoPlan
      /\ intents' = [k \in Kinds |-> NoIntent] /\ observed' = [k \in Kinds |-> 0]
  BY DEF Reset, FailDetail, Drawn, database, feed
<1>2. /\ StoredFits /\ \A c \in requests : RequestFits(c)
      /\ KeysFit /\ OneCreate
  BY DEF PlanningInv
<1>3. Known' = Known
  BY <1>1 DEF Known
<1>4. gen' \in 1..MaxGen /\ \A g \in 1..MaxGen : g <= gen => g <= gen' /\ g # gen'
  BY <1>1, PlanningTypes
<1>5. \A c \in requests : c.gen \in 1..MaxGen /\ c.gen <= gen /\ c.attempt # 0 /\ c.kind \in Kinds
  BY <1>2, PlanningTypes DEF RequestType, RequestFits, Numbers
<1>6. \A r \in stored : r.gen \in 1..MaxGen /\ r.gen <= gen
  BY <1>2, PlanningTypes DEF StoredType, StoredFits
<1>7. StoredFits'
  BY <1>1, <1>2, <1>4, <1>6 DEF StoredFits
<1>8. ASSUME NEW c \in requests PROVE RequestFits(c)'
  <2>1. RequestFits(c) /\ c.gen <= gen' /\ c.gen # gen' /\ c.attempt # 0 /\ c.kind \in Kinds
    BY <1>2, <1>4, <1>5
  <2>2. intents'[c.kind].attempt = 0
    BY <1>1, <2>1 DEF NoIntent
  <2>3. QED
    BY <1>1, <1>3, <2>1, <2>2 DEF RequestFits
<1>9. KeysFit'
  BY <1>1, <1>2 DEF KeysFit, Origin
<1>10. \A k \in Kinds : KeyKept(k)'
  BY <1>1 DEF KeyKept, NoIntent
<1>11. OneCreate'
  <2>1. \A c \in requests : c.gen # gen'
    BY <1>4, <1>5
  <2>2. \A r \in stored : r.gen # gen'
    BY <1>4, <1>6
  <2>3. QED
    BY <1>1, <1>2, <2>1, <2>2 DEF OneCreate, IsScenario, OneScenarioPerSession
<1>12. PlanFits'
  <2>1. \A c \in requests : c.gen # gen'
    BY <1>4, <1>5
  <2>2. SessionCoherent'
    <3>1. /\ plan'.base = NoItem /\ plan'.latest = NoItem /\ plan'.baseRec = NoItem
          /\ plan'.lastRec = NoItem /\ plan'.lastVersion = NoItem
      BY <1>1 DEF NoPlan
    <3>2. Planned' = {}
      BY <3>1 DEF Planned
    <3>3. NoItem.of = NoItem.id
      BY DEF NoItem
    <3>4. QED
      BY <3>1, <3>2, <3>3 DEF SessionCoherent
  <2>3. QED
    BY <1>1, <2>1, <2>2 DEF PlanFits, Known, NoPlan
<1>13. /\ fetch' \in [state : {"idle", "asked", "read", "failed"}, snap : 0..MaxSnap]
       /\ NewsComes' /\ mounted' \in BOOLEAN
  <2>1. CASE Reset
    <3>1. fetch' = fetch /\ mounted' = mounted
      BY <2>1 DEF Reset, feed
    <3>2. QED
      BY <1>1, <3>1, PlanningTypes DEF PlanningInv, NewsComes
  <2>2. CASE FailDetail
    <3>1. fetch' = [state |-> "failed", snap |-> 0] /\ mounted' = FALSE
      BY <2>2 DEF FailDetail
    <3>2. fetch'.state = "failed" /\ ~mounted'
      BY <3>1
    <3>3. NewsComes'
      BY <3>2 DEF NewsComes
    <3>4. fetch' \in [state : {"idle", "asked", "read", "failed"}, snap : 0..MaxSnap]
      BY <3>1, PlanningTypes
    <3>5. QED
      BY <3>1, <3>3, <3>4
  <2>3. QED
    BY <2>1, <2>2
<1>14. PlanningTyped'
  <2>1. /\ {NoPlan.base, NoPlan.latest, NoPlan.baseRec, NoPlan.lastVersion, NoPlan.lastRec}
            \subseteq Items
        /\ NoPlan.latched \in BOOLEAN /\ NoPlan.token \in 0..token
    BY PlanningTypes DEF NoPlan
  <2>2. intents' \in [Kinds -> HookType] /\ observed' \in [Kinds -> 0..MaxSent]
        /\ \A k \in Kinds : observed'[k] \in 0..MaxSent
    BY <1>1, PlanningTypes DEF NoIntent, HookType
  <2>3. {mounted', owed, replaying} \subseteq BOOLEAN
    BY <1>13, PlanningTypes
  <2>4. QED
    BY <1>1, <1>4, <1>13, <2>1, <2>2, <2>3, PlanningTypes
       DEF PlanningInv, PlanningTyped, PlanningTypeOK
<1>15. StaleIsLatched'
  BY <1>1, NoPlanMatches DEF StaleIsLatched
<1>16. QED
  BY <1>7, <1>8, <1>9, <1>10, <1>11, <1>12, <1>13, <1>14, <1>15, <1>1, Together DEF Agreed

\* An attempt that settles gives up the key, or waits no more.
LEMMA SettleIs ==
    ASSUME MaxSent \in Nat \ {0}, NEW i \in HookType, NEW a, NEW retain \in BOOLEAN
    PROVE  /\ Settle(i, a, retain) \in HookType
           /\ Settle(i, a, retain).attempt \in {0, i.attempt}
           /\ Settle(i, a, retain).signature # <<>> =>
                 Settle(i, a, retain).signature = i.signature /\ Settle(i, a, retain).key = i.key
           /\ retain => /\ Settle(i, a, retain).signature = i.signature
                        /\ Settle(i, a, retain).key = i.key
           /\ i.attempt # a => Settle(i, a, retain) = i
<1>1. Settle(i, a, retain) \in {i, [i EXCEPT !.attempt = 0], NoIntent}
  BY DEF Settle
<1>2. [i EXCEPT !.attempt = 0] \in HookType /\ NoIntent \in HookType
  <2>1. 0 \in 0..MaxSent
    OBVIOUS
  <2>2. QED
    BY <2>1 DEF HookType, NoIntent
<1>3. /\ [i EXCEPT !.attempt = 0].signature = i.signature /\ [i EXCEPT !.attempt = 0].key = i.key
      /\ [i EXCEPT !.attempt = 0].attempt = 0
  BY DEF HookType
<1>4. retain => Settle(i, a, retain) \in {i, [i EXCEPT !.attempt = 0]}
  BY DEF Settle
<1>5. i.attempt # a => Settle(i, a, retain) = i
  BY DEF Settle
<1>6. NoIntent.signature = <<>> /\ NoIntent.attempt = 0
  BY DEF NoIntent
<1> HIDE DEF NoIntent
<1>7. QED
  BY <1>1, <1>2, <1>3, <1>4, <1>5, <1>6

\* A refusal or a lost answer marks the session and, lost, keeps the key.
LEMMA FailInv ==
    ASSUME PlanningInv, NEW c \in requests, Refuse(c) \/ LoseAnswer(c)
    PROVE  PlanningInv'
<1>1. \E retain, refused \in BOOLEAN :
         Fail(c, retain, refused) /\ (retain \/ c.reply = "scenario_stale")
  BY DEF Refuse, LoseAnswer
<1>2. PICK retain \in BOOLEAN, refused \in BOOLEAN :
         Fail(c, retain, refused) /\ (retain \/ c.reply = "scenario_stale")
  BY <1>1
<1>3. FewerRequests
  BY DEF Refuse, LoseAnswer, FewerRequests
<1>4. c \in RequestType /\ c.kind \in Kinds /\ RequestFits(c)
  BY PlanningTypes DEF RequestType, PlanningInv
<1>5. /\ UNCHANGED <<snap, stored, owed, shown, fetch, token, replaying, mounted, gen, observed,
                     sent>>
      /\ intents' = [intents EXCEPT ![c.kind] = Settle(intents[c.kind], c.attempt, retain)]
      /\ plan' = IF Active(c) THEN [plan EXCEPT !.latched = @ \/ refused \/ Overtaken(c)] ELSE plan
  BY <1>2 DEF Fail, database, feed
<1>6. /\ plan' \in PlanType /\ SamePlan(plan', plan) /\ (plan.latched => plan'.latched)
      /\ (~mounted => plan' = NoPlan)
  <2>1. CASE Active(c)
    <3> DEFINE m == plan.latched \/ refused \/ Overtaken(c)
    <3>1. m \in BOOLEAN /\ (plan.latched => m)
      BY Zenon
    <3>2. plan' = [plan EXCEPT !.latched = m]
      BY <1>5, <2>1
    <3> HIDE DEF m
    <3>3. plan' \in PlanType /\ SamePlan(plan', plan) /\ plan'.latched = m
      BY <3>1, <3>2, PlanningTypes DEF PlanType, SamePlan
    <3>4. mounted
      BY <2>1 DEF Active
    <3>5. QED
      BY <3>1, <3>3, <3>4
  <2>2. CASE ~Active(c)
    BY <1>5, <2>2, PlanningTypes DEF SamePlan
  <2>3. QED
    BY <2>1, <2>2
<1>7. /\ intents \in [Kinds -> HookType] /\ intents[c.kind] \in HookType
      /\ MaxSent \in Nat \ {0}
  BY <1>4, PlanningTypes
<1>8. ASSUME NEW k \in Kinds PROVE HookStays(k)
  <2>1. CASE k = c.kind
    <3>1. intents'[k] = Settle(intents[k], c.attempt, retain)
      BY <1>5, <1>7, <2>1
    <3>2. QED
      BY <1>7, <2>1, <3>1, SettleIs DEF HookStays
  <2>2. CASE k # c.kind
    BY <1>5, <1>7, <2>2 DEF HookStays
  <2>3. QED
    BY <2>1, <2>2
<1>9. CreateKept
  <2>1. c.kind = "create" => retain
    BY <1>2, <1>4 DEF RequestFits
  <2>2. /\ intents'["create"].signature = intents["create"].signature
        /\ intents'["create"].key = intents["create"].key
    <3>1. CASE c.kind = "create"
      <4>1. intents'["create"] = Settle(intents["create"], c.attempt, retain)
        BY <1>4, <1>5, <1>7, <3>1
      <4>2. retain /\ intents["create"] \in HookType
        BY <1>7, <2>1, <3>1
      <4>3. /\ Settle(intents["create"], c.attempt, retain).signature = intents["create"].signature
            /\ Settle(intents["create"], c.attempt, retain).key = intents["create"].key
        BY <1>7, <4>2, SettleIs
      <4>4. QED
        BY <4>1, <4>3
    <3>2. CASE c.kind # "create"
      BY <1>5, <1>7, <3>2 DEF Kinds
    <3>3. QED
      BY <3>1, <3>2
  <2>3. QED
    BY <1>6, <2>2 DEF CreateKept, SamePlan
<1>10. Agreed'
  BY <1>3, <1>5, <1>8, <1>9, AgreedKept
<1>11. PlanFits'
  BY <1>3, <1>5, <1>6, PlanFitsKept
<1>12. StaleIsLatched'
  <2>1. Mismatch(plan', shown', token') => Mismatch(plan, shown, token)
    BY <1>5, <1>6 DEF Mismatch, SamePlan
  <2>2. QED
    BY <1>6, <2>1 DEF PlanningInv, StaleIsLatched
<1>13. NewsComes'
  BY <1>5 DEF PlanningInv, NewsComes
<1>14. PlanningTyped'
  <2>1. requests' \subseteq RequestType
    BY <1>3, RequestsTyped
  <2>2. intents' \in [Kinds -> HookType]
    <3>1. Settle(intents[c.kind], c.attempt, retain) \in HookType
      BY <1>7, SettleIs
    <3>2. QED
      BY <1>5, <1>7, <3>1
  <2>3. /\ {plan'.base, plan'.latest, plan'.baseRec, plan'.lastVersion, plan'.lastRec}
            \subseteq Items
        /\ plan'.latched \in BOOLEAN
    BY <1>6 DEF PlanType
  <2>4. plan'.token \in 0..token
    BY <1>6, PlanningTypes DEF SamePlan
  <2>5. QED
    BY <1>5, <1>6, <2>1, <2>2, <2>3, <2>4 DEF PlanningInv, PlanningTyped, PlanningTypeOK
<1>15. QED
  BY <1>10, <1>11, <1>12, <1>13, <1>14, Together

-----------------------------------------------------------------------------
(* A command is sent.                                                      *)

\* An item is known by its number.
LEMMA KnownById ==
    ASSUME PlanningInv
    PROVE  /\ Known \subseteq Items /\ NoItem \in Known
           /\ \A v, w \in Known : v.id = w.id => v = w
           /\ \A v \in Known : v # NoItem => v.id # 0 /\ v \in {r.item : r \in stored}
<1>1. stored \subseteq StoredType /\ StoredFits /\ NoItem \in Items
  BY PlanningTypes DEF PlanningInv
<1>2. \A r \in stored : r.item \in Items /\ r.item.id # 0
  BY <1>1 DEF StoredType, StoredFits
<1>3. NoItem.id = 0
  BY DEF NoItem
<1>4. \A r, q \in stored : r.item.id = q.item.id => r.item = q.item
  BY <1>1 DEF StoredFits
<1>5. QED
  BY <1>1, <1>2, <1>3, <1>4 DEF Known

\* The steps that send: a command of kind k on v, while hooks and calls besides
\* settle or leave.
Sends(k, v, b) ==
    /\ mounted /\ sent + 1 \in Numbers /\ sent' = sent + 1
    /\ v \in Known /\ b \in BOOLEAN /\ (k = "create" <=> v = NoItem)
    /\ k = "create" => plan.base = NoItem
    /\ \E rest \in SUBSET requests : requests' = rest \cup {Sent(k, v, b, sent + 1)}
    /\ intents'[k] = Begin(intents[k], <<k, v.id>>, sent + 1)
    /\ \A j \in Kinds \ {k} : HookStays(j)
    /\ k # "create" => CreateKept
    /\ plan'.base = NoItem => plan.base = NoItem
    /\ UNCHANGED <<stored, gen, mounted>>

\* The call that is sent, under the key its hook keeps.
LEMMA SentIs ==
    ASSUME PlanningInv, NEW k \in Kinds, NEW v, NEW b, Sends(k, v, b)
    PROVE  \E new \in RequestType :
              /\ new = Sent(k, v, b, sent + 1)
              /\ new.kind = k /\ new.version = v /\ new.baseline = b /\ new.gen = gen
              /\ new.attempt = sent + 1 /\ new.reply = "none"
              /\ new.key = intents'[k].key /\ new.key \in 1..(sent + 1)
              /\ intents'[k] \in HookType /\ intents'[k].attempt = sent + 1
              /\ intents'[k].signature = <<k, v.id>> /\ intents'[k].signature # <<>>
              /\ \/ intents[k].signature = <<k, v.id>> /\ new.key = intents[k].key
                 \/ intents[k].signature # <<k, v.id>> /\ new.key = sent + 1
<1> DEFINE sig == <<k, v.id>>
           id == sent + 1
           key == IF intents[k].signature = sig THEN intents[k].key ELSE id
           new == [kind |-> k, attempt |-> id, version |-> v, baseline |-> b, key |-> key,
                   gen |-> gen, token |-> token, heard |-> TRUE, reply |-> "none",
                   item |-> NoItem]
<1>1. /\ sent \in Nat /\ id \in Numbers /\ v \in Items /\ b \in BOOLEAN /\ NoItem \in Items
      /\ gen \in 1..MaxGen /\ token \in Nat /\ MaxSent \in Nat \ {0}
  BY PlanningTypes, KnownById DEF Sends
<1>2. sig # <<>> /\ sig \in Kinds \X (0..MaxSent)
  BY <1>1 DEF Items
<1>3. intents[k].signature = sig => intents[k].key \in 1..sent
  BY <1>2 DEF PlanningInv, KeyKept
<1>4. key \in 1..id /\ key \in Numbers /\ key \in 0..MaxSent /\ id \in 0..MaxSent
  <2>1. CASE intents[k].signature = sig
    <3>1. intents[k].key \in 1..sent
      BY <1>3, <2>1
    <3>2. intents[k].key \in 1..id /\ intents[k].key \in Numbers
          /\ intents[k].key \in 0..MaxSent /\ id \in 0..MaxSent
      BY <1>1, <3>1 DEF Numbers
    <3>3. QED
      BY <2>1, <3>2
  <2>2. CASE intents[k].signature # sig
    BY <1>1, <2>2 DEF Numbers
  <2>3. QED
    BY <2>1, <2>2
<1>5. Sent(k, v, b, id) = new
  BY DEF Sent, Begin
<1>6. intents'[k] = [signature |-> sig, key |-> key, attempt |-> id]
  BY DEF Sends, Begin
<1>7. \/ intents[k].signature = sig /\ key = intents[k].key
      \/ intents[k].signature # sig /\ key = id
  OBVIOUS
<1> HIDE DEF sig, id, key
<1>8. /\ new \in RequestType /\ new.kind = k /\ new.version = v /\ new.baseline = b /\ new.gen = gen
      /\ new.attempt = id /\ new.reply = "none" /\ new.key = key
  BY <1>1, <1>4 DEF RequestType
<1>9. intents'[k] \in HookType
  BY <1>2, <1>4, <1>6 DEF HookType
<1> HIDE DEF new
<1>10. /\ intents'[k].signature = sig /\ intents'[k].key = key /\ intents'[k].attempt = id
  BY <1>6
<1>11. QED
  BY <1>2, <1>4, <1>5, <1>7, <1>8, <1>9, <1>10 DEF sig, id

\* In short: the call is typed, and so is what its hook keeps.
LEMMA SentFits ==
    ASSUME PlanningInv, NEW k \in Kinds, NEW v, NEW b, Sends(k, v, b)
    PROVE  \E new \in RequestType :
              /\ new = Sent(k, v, b, sent + 1) /\ new.version = v
              /\ intents'[k] \in HookType
BY SentIs

\* A step that sends keeps what server, wire and hooks agree on.
LEMMA SendAgreed ==
    ASSUME PlanningInv, NEW k \in Kinds, NEW v, NEW b, Sends(k, v, b)
    PROVE  Agreed' /\ requests' \subseteq RequestType
<1>1. /\ StoredFits /\ \A c \in requests : RequestFits(c)
      /\ KeysFit /\ \A j \in Kinds : KeyKept(j)
      /\ OneCreate
  BY DEF PlanningInv
<1>2. PICK new \in RequestType :
         /\ new = Sent(k, v, b, sent + 1)
         /\ new.kind = k /\ new.version = v /\ new.baseline = b /\ new.gen = gen
         /\ new.attempt = sent + 1 /\ new.reply = "none"
         /\ new.key = intents'[k].key /\ new.key \in 1..(sent + 1)
         /\ intents'[k] \in HookType /\ intents'[k].attempt = sent + 1
         /\ intents'[k].signature = <<k, v.id>> /\ intents'[k].signature # <<>>
         /\ \/ intents[k].signature = <<k, v.id>> /\ new.key = intents[k].key
            \/ intents[k].signature # <<k, v.id>> /\ new.key = sent + 1
  BY SentIs
<1>3. PICK rest \in SUBSET requests : requests' = rest \cup {new}
  BY <1>2 DEF Sends
<1>4. /\ sent' = sent + 1 /\ sent \in Nat
      /\ UNCHANGED <<stored, gen, mounted>> /\ Known' = Known
      /\ mounted /\ v \in Known /\ (k = "create" <=> v = NoItem)
  BY PlanningTypes DEF Sends, Known
<1>5. \A c \in requests : /\ c \in RequestType /\ c.attempt \in Nat /\ c.key \in Nat
                          /\ c.attempt <= sent /\ c.key <= sent /\ c.kind \in Kinds
  BY <1>1, PlanningTypes DEF RequestType, Numbers, RequestFits
<1>6. \A r \in stored : r.key \in Nat /\ r.key <= sent
  BY <1>1, PlanningTypes DEF StoredType, Numbers, StoredFits
<1>7. /\ \A c \in requests : c.key = new.key => c.kind = k /\ c.version = v /\ c.gen = gen
      /\ \A r \in stored : r.key = new.key => r.gen = gen /\ Origin(r.item, k, v)
      /\ \A j \in Kinds \ {k} : intents[j].signature # <<>> => intents[j].key # new.key
  <2>1. CASE intents[k].signature = <<k, v.id>> /\ new.key = intents[k].key
    <3>1. KeyKept(k) /\ intents[k].signature # <<>>
      BY <1>1, <1>2, <2>1
    <3>2. PICK w \in Known :
             /\ intents[k].signature = <<k, w.id>>
             /\ \A c \in requests : c.key = intents[k].key =>
                   c.kind = k /\ c.version = w /\ c.gen = gen
             /\ \A r \in stored : r.key = intents[k].key =>
                   r.gen = gen /\ Origin(r.item, k, w)
      BY <3>1 DEF KeyKept
    <3>3. w = v
      BY <1>4, <2>1, <3>2, KnownById
    <3>4. \A j \in Kinds \ {k} : intents[j].signature # <<>> => intents[j].key # intents[k].key
      BY <3>1 DEF KeyKept
    <3>5. QED
      BY <2>1, <3>2, <3>3, <3>4
  <2>2. CASE new.key = sent + 1
    <3>1. \A j \in Kinds : intents[j].signature # <<>> => intents[j].key \in 1..sent
      BY <1>1 DEF KeyKept
    <3>2. QED
      BY <1>4, <1>5, <1>6, <2>2, <3>1
  <2>3. QED
    BY <1>2, <2>1, <2>2
<1>8. StoredFits'
  BY <1>1, <1>4, <1>6 DEF StoredFits
<1>9. ASSUME NEW c \in requests' PROVE RequestFits(c)'
  <2>1. CASE c \in requests
    <3>1. RequestFits(c) /\ c.attempt <= sent' /\ c.key <= sent' /\ c.kind \in Kinds
      BY <1>1, <1>4, <1>5, <2>1
    <3>2. c.attempt = intents'[c.kind].attempt => c.gen = gen
      <4>1. CASE c.kind = k
        BY <1>2, <1>4, <1>5, <2>1, <4>1
      <4>2. CASE c.kind # k
        <5>1. intents'[c.kind].attempt \in {0, intents[c.kind].attempt}
          BY <3>1, <4>2 DEF Sends, HookStays
        <5>2. c.attempt # 0
          BY <1>5, <2>1 DEF RequestType, Numbers
        <5>3. QED
          BY <3>1, <5>1, <5>2 DEF RequestFits
      <4>3. QED
        BY <4>1, <4>2
    <3>3. QED
      BY <1>4, <3>1, <3>2 DEF RequestFits
  <2>2. CASE c = new
    <3>1. c.attempt <= sent' /\ c.key <= sent'
      BY <1>2, <1>4, <2>2
    <3>2. gen \in Nat /\ c.gen <= gen
      BY <1>2, <2>2, PlanningTypes
    <3>3. QED
      BY <1>2, <1>4, <2>2, <3>1, <3>2 DEF RequestFits
  <2>3. QED
    BY <1>3, <2>1, <2>2
<1>10. KeysFit'
  <2>1. \A c, d \in requests' :
           c.key = d.key => c.kind = d.kind /\ c.version = d.version /\ c.gen = d.gen
    BY <1>1, <1>2, <1>3, <1>7 DEF KeysFit
  <2>2. \A c \in requests', r \in stored :
           c.key = r.key => r.gen = c.gen /\ Origin(r.item, c.kind, c.version)
    BY <1>1, <1>2, <1>3, <1>7 DEF KeysFit
  <2>3. QED
    BY <1>4, <2>1, <2>2 DEF KeysFit, Origin
<1>11. ASSUME NEW j \in Kinds PROVE KeyKept(j)'
  <2>1. CASE j = k
    <3>1. intents'[k].key \in 1..sent'
      BY <1>2, <1>4
    <3>2. \A i \in Kinds \ {k} : intents'[i].signature # <<>> => intents'[i].key # intents'[k].key
      BY <1>2, <1>7 DEF Sends, HookStays
    <3>3. \A c \in requests' : c.key = intents'[k].key => c.kind = k /\ c.version = v /\ c.gen = gen
      BY <1>2, <1>3, <1>7
    <3>4. \A r \in stored : r.key = intents'[k].key => r.gen = gen /\ Origin(r.item, k, v)
      BY <1>2, <1>7
    <3>5. QED
      BY <1>2, <1>4, <2>1, <3>1, <3>2, <3>3, <3>4 DEF KeyKept, Origin
  <2>2. CASE j # k
    <3>1. SUFFICES ASSUME intents'[j].signature # <<>>
                   PROVE  KeyKept(j)'
      BY DEF KeyKept
    <3>2. /\ intents'[j].signature = intents[j].signature /\ intents[j].signature # <<>>
          /\ intents'[j].key = intents[j].key
      BY <2>2, <3>1 DEF Sends, HookStays
    <3>3. KeyKept(j)
      BY <1>1
    <3>4. PICK w \in Known :
             /\ intents[j].signature = <<j, w.id>> /\ (j = "create" <=> w = NoItem)
             /\ \A c \in requests : c.key = intents[j].key =>
                   c.kind = j /\ c.version = w /\ c.gen = gen
             /\ \A r \in stored : r.key = intents[j].key =>
                   r.gen = gen /\ Origin(r.item, j, w)
      BY <3>2, <3>3 DEF KeyKept
    <3>5. intents'[j].key \in 1..sent' /\ intents[j].key # new.key
      BY <1>4, <1>7, <2>2, <3>2, <3>3 DEF KeyKept
    <3>6. \A i \in Kinds \ {j} : intents'[i].signature # <<>> => intents'[i].key # intents'[j].key
      BY <1>2, <1>7, <2>2, <3>2, <3>3 DEF Sends, HookStays, KeyKept
    <3>7. \A c \in requests' : c.key = intents[j].key => c.kind = j /\ c.version = w /\ c.gen = gen
      BY <1>3, <3>4, <3>5
    <3>8. QED
      BY <1>4, <3>2, <3>4, <3>5, <3>6, <3>7 DEF KeyKept, Origin
  <2>3. QED
    BY <2>1, <2>2
<1>12. OneCreate'
  <2>1. ASSUME k = "create"
        PROVE  /\ \A c \in requests : c.kind = "create" /\ c.gen = gen => c.key = new.key
               /\ \A r \in stored : IsScenario(r.item) /\ r.gen = gen => r.key = new.key
    <3>1. plan.base = NoItem
      BY <2>1 DEF Sends
    <3>2. ASSUME intents[k].signature # <<>> PROVE new.key = intents[k].key
      <4>1. PICK w \in Known : intents[k].signature = <<k, w.id>> /\ (k = "create" <=> w = NoItem)
        BY <1>1, <3>2 DEF KeyKept
      <4>2. w = v
        BY <1>4, <2>1, <4>1
      <4>3. QED
        BY <1>2, <4>1, <4>2
    <3>3. QED
      BY <1>1, <2>1, <3>1, <3>2 DEF OneCreate
  <2>2. OneScenarioPerSession'
    BY <1>1, <1>4 DEF OneCreate, OneScenarioPerSession
  <2>3. \A c, d \in requests' :
           c.kind = "create" /\ d.kind = "create" /\ c.gen = d.gen => c.key = d.key
    BY <1>1, <1>2, <1>3, <2>1 DEF OneCreate
  <2>4. \A c \in requests', r \in stored :
           c.kind = "create" /\ IsScenario(r.item) /\ c.gen = r.gen => c.key = r.key
    BY <1>1, <1>2, <1>3, <2>1 DEF OneCreate
  <2>5. ASSUME plan'.base = NoItem
        PROVE  /\ \A c \in requests' : c.kind = "create" /\ c.gen = gen =>
                     intents'["create"].signature # <<>> /\ c.key = intents'["create"].key
               /\ \A r \in stored : IsScenario(r.item) /\ r.gen = gen =>
                     intents'["create"].signature # <<>> /\ r.key = intents'["create"].key
    <3>1. CASE k = "create"
      BY <1>2, <1>3, <2>1, <3>1
    <3>2. CASE k # "create"
      <4>1. /\ plan.base = NoItem
            /\ intents'["create"].signature = intents["create"].signature
            /\ intents'["create"].key = intents["create"].key
        BY <2>5, <3>2 DEF Sends, CreateKept
      <4>2. QED
        BY <1>1, <1>2, <1>3, <3>2, <4>1 DEF OneCreate
    <3>3. QED
      BY <3>1, <3>2
  <2>6. QED
    BY <1>4, <2>2, <2>3, <2>4, <2>5 DEF OneCreate, IsScenario
<1>13. requests' \subseteq RequestType
  BY <1>2, <1>3, <1>5
<1>14. QED
  BY <1>8, <1>9, <1>10, <1>11, <1>12, <1>13 DEF Agreed

\* A click on the dock or in the scenario popover, or a second one.
LEMMA ClickKeeps ==
    ASSUME PlanningInv, NEW k \in Kinds, NEW v \in Known, NEW b \in BOOLEAN, Click(k, v, b),
           k = "create" <=> v = NoItem, k = "create" <=> plan.base = NoItem,
           k # "create" => v.scenario = plan.base.scenario /\ (b => v.id = plan.base.id)
    PROVE  PlanningInv'
<1>1. /\ UNCHANGED <<snap, stored, owed, shown, fetch, token, replaying, mounted, gen, plan>>
      /\ mounted /\ sent + 1 \in Numbers /\ sent' = sent + 1
      /\ requests' = requests \cup {Sent(k, v, b, sent + 1)}
      /\ intents' = [intents EXCEPT ![k] = Begin(intents[k], <<k, v.id>>, sent + 1)]
      /\ observed' = [observed EXCEPT ![k] = sent + 1]
  BY DEF Click, Mutate, Actionable, database, feed, session
<1>2. intents \in [Kinds -> HookType] /\ observed \in [Kinds -> 0..MaxSent]
  BY PlanningTypes
<1>3. \A j \in Kinds \ {k} : HookStays(j)
  BY <1>1, <1>2 DEF HookStays
<1>4. k # "create" => CreateKept
  <2>1. k # "create" => intents'["create"] = intents["create"]
    BY <1>1, <1>2 DEF Kinds
  <2>2. QED
    BY <1>1, <2>1 DEF CreateKept
<1>5. Sends(k, v, b)
  <2>1. intents'[k] = Begin(intents[k], <<k, v.id>>, sent + 1)
    BY <1>1, <1>2
  <2>2. \E rest \in SUBSET requests : requests' = rest \cup {Sent(k, v, b, sent + 1)}
    BY <1>1
  <2>3. QED
    BY <1>1, <1>3, <1>4, <2>1, <2>2 DEF Sends
<1>6. Agreed' /\ requests' \subseteq RequestType
  BY <1>5, SendAgreed
<1>7. PICK new \in RequestType :
         /\ new = Sent(k, v, b, sent + 1)
         /\ new.kind = k /\ new.version = v /\ new.baseline = b /\ new.gen = gen
         /\ intents'[k] \in HookType
  BY <1>5, SentIs
<1>8. PlanFits'
  <2>1. PlanFits /\ Known' = Known
    BY <1>1 DEF PlanningInv, Known
  <2>2. SessionCoherent'
    BY <1>1, <2>1 DEF PlanFits, SessionCoherent, Planned
  <2>3. ASSUME NEW c \in requests', c.gen = gen, c.kind # "create"
        PROVE  /\ plan.base # NoItem /\ c.version.scenario = plan.base.scenario
               /\ c.baseline => c.version.id = plan.base.id
    <3>1. CASE c \in requests
      BY <2>1, <2>3, <3>1 DEF PlanFits
    <3>2. CASE c = new
      BY <1>7, <2>3, <3>2
    <3>3. QED
      BY <1>1, <1>7, <3>1, <3>2
  <2>4. QED
    BY <1>1, <2>1, <2>2, <2>3 DEF PlanFits, IsScenario
<1>9. PlanningTyped'
  <2>1. intents' \in [Kinds -> HookType]
    <3>1. intents'[k] \in HookType
      BY <1>7
    <3>2. intents'[k] = Begin(intents[k], <<k, v.id>>, sent + 1)
      BY <1>1, <1>2
    <3>3. QED
      BY <1>1, <1>2, <3>1, <3>2
  <2>2. sent' \in 0..MaxSent /\ sent' \in Nat
    BY <1>1, PlanningTypes DEF Numbers
  <2>3. observed' \in [Kinds -> 0..MaxSent] /\ \A j \in Kinds : observed'[j] \in 0..MaxSent
    BY <1>1, <1>2, <2>2
  <2>4. QED
    BY <1>1, <1>6, <2>1, <2>2, <2>3 DEF PlanningInv, PlanningTyped, PlanningTypeOK
<1>10. StaleIsLatched' /\ NewsComes'
  <2>1. Mismatch(plan', shown', token') <=> Mismatch(plan, shown, token)
    BY <1>1 DEF Mismatch
  <2>2. QED
    BY <1>1, <2>1 DEF PlanningInv, StaleIsLatched, NewsComes
<1>11. QED
  BY <1>6, <1>8, <1>9, <1>10, Together

\* What the dock offers acts on the scenario of the session.
LEMMA ClickInv ==
    ASSUME PlanningInv, Bootstrap \/ Generate \/ SaveVersion
    PROVE  PlanningInv'
<1>1. PlanFits
  BY DEF PlanningInv
<1>2. NoItem \in Known /\ plan.latest \in Known
  BY <1>1, KnownById DEF PlanFits
<1>3. plan.latest # NoItem => plan.base # NoItem /\ plan.latest.scenario = plan.base.scenario
  BY <1>1 DEF PlanFits, SessionCoherent, Planned
<1>4. CASE Bootstrap
  <2>1. plan.base = NoItem /\ Click("create", NoItem, TRUE)
    BY <1>4 DEF Bootstrap
  <2>2. QED
    BY <1>2, <2>1, ClickKeeps DEF Kinds
<1>5. CASE Generate
  <2>1. plan.base # NoItem /\ plan.latest # NoItem
    BY <1>1, <1>5 DEF Generate, PlanFits
  <2> DEFINE b == plan.latest = plan.base
  <2>2. b \in BOOLEAN /\ (b => plan.latest.id = plan.base.id)
    BY Zenon
  <2>3. Click("generate", plan.latest, b)
    BY <1>5 DEF Generate
  <2> HIDE DEF b
  <2>4. QED
    BY <1>2, <1>3, <2>1, <2>2, <2>3, ClickKeeps DEF Kinds
<1>6. CASE SaveVersion
  <2>1. plan.latest # NoItem /\ Click("derive", plan.latest, FALSE)
    BY <1>6 DEF SaveVersion
  <2>2. QED
    BY <1>2, <1>3, <2>1, ClickKeeps DEF Kinds
<1>7. QED
  BY <1>4, <1>5, <1>6

-----------------------------------------------------------------------------
(* A command is served.                                                    *)

\* Under each key once: there are no more items than attempts.
LEMMA FewStored ==
    ASSUME MaxSent \in Nat \ {0}, NEW R, \A r \in R : r.key \in Numbers,
           \A r, q \in R : r.key = q.key => r = q
    PROVE  IsFiniteSet(R) /\ Cardinality(R) \in Nat /\ Cardinality(R) <= MaxSent
<1> DEFINE f == [r \in R |-> r.key]
<1>1. IsFiniteSet(Numbers)
  BY FS_Interval DEF Numbers
<1>2. Cardinality(Numbers) = MaxSent
  <2> DEFINE n == Cardinality(1..MaxSent)
  <2>1. n = IF 1 > MaxSent THEN 0 ELSE MaxSent - 1 + 1
    BY FS_Interval
  <2> HIDE DEF n
  <2>2. n = MaxSent
    BY <2>1
  <2>3. QED
    BY <2>2 DEF n, Numbers
<1>3. f \in Injection(R, Numbers)
  BY DEF Injection, IsInjective
<1>4. IsFiniteSet(R) /\ Cardinality(R) <= Cardinality(Numbers)
  BY <1>1, <1>3, FS_Injection
<1>5. Cardinality(R) \in Nat
  BY <1>4, FS_CardinalityType
<1>6. QED
  BY <1>2, <1>4, <1>5

\* What the server makes of a call: what it had, a refusal, or a new item.
LEMMA HandleIs ==
    ASSUME PlanningInv, NEW c \in requests, Handle(c)
    PROVE  \E done \in RequestType :
              /\ \A d \in requests' : d \in requests \/ d = done
              /\ done.kind = c.kind /\ done.attempt = c.attempt /\ done.version = c.version
              /\ done.baseline = c.baseline /\ done.key = c.key /\ done.gen = c.gen
              /\ \/ /\ stored' = stored
                    /\ \/ done.reply = "scenario_stale" /\ c.kind # "create"
                       \/ done.reply = "ok" /\ \E r \in stored : r.key = c.key /\ r.item = done.item
                 \/ /\ \A r \in stored : r.key # c.key
                    /\ stored' = stored \cup {[key |-> c.key, item |-> Made(c), gen |-> c.gen]}
                    /\ done.reply = "ok" /\ done.item = Made(c)
<1> DEFINE mine == {r \in stored : r.key = c.key}
           refused == mine = {} /\ c.kind # "create" /\ c.version.snap # snap
           item == IF mine # {} THEN (CHOOSE r \in mine : TRUE).item ELSE Made(c)
           done == IF refused THEN [c EXCEPT !.reply = "scenario_stale"]
                   ELSE [c EXCEPT !.reply = "ok", !.item = item]
<1>1. /\ requests' = (requests \ {c}) \cup (IF c.heard THEN {done} ELSE {})
      /\ stored' = IF refused \/ mine # {} THEN stored
                     ELSE stored \cup {[key |-> c.key, item |-> item, gen |-> c.gen]}
  BY DEF Handle
<1>2. c \in RequestType /\ stored \subseteq StoredType
  BY PlanningTypes
<1>3. \A d \in requests' : d \in requests \/ d = done
  BY <1>1
<1>4. CASE refused
  <2>1. done = [c EXCEPT !.reply = "scenario_stale"]
    BY <1>4
  <2>2. stored' = stored /\ c.kind # "create"
    BY <1>1, <1>4
  <2> HIDE DEF done
  <2>3. /\ done \in RequestType /\ done.reply = "scenario_stale"
        /\ done.kind = c.kind /\ done.attempt = c.attempt /\ done.version = c.version
        /\ done.baseline = c.baseline /\ done.key = c.key /\ done.gen = c.gen
    BY <1>2, <2>1 DEF RequestType
  <2>4. QED
    BY <1>3, <2>2, <2>3
<1>5. CASE ~refused /\ mine # {}
  <2>1. PICK r \in stored : r.key = c.key /\ r.item = item
    BY <1>5
  <2>2. done = [c EXCEPT !.reply = "ok", !.item = item] /\ stored' = stored
    BY <1>1, <1>5
  <2>3. item \in Items
    BY <1>2, <2>1 DEF StoredType
  <2> HIDE DEF done, item
  <2>4. /\ done \in RequestType /\ done.reply = "ok" /\ done.item = item
        /\ done.kind = c.kind /\ done.attempt = c.attempt /\ done.version = c.version
        /\ done.baseline = c.baseline /\ done.key = c.key /\ done.gen = c.gen
    BY <1>2, <2>2, <2>3 DEF RequestType
  <2>5. QED
    BY <1>3, <2>1, <2>2, <2>4
<1>6. CASE ~refused /\ mine = {}
  <2>1. item = Made(c) /\ \A r \in stored : r.key # c.key
    BY <1>6
  <2>2. /\ done = [c EXCEPT !.reply = "ok", !.item = Made(c)]
        /\ stored' = stored \cup {[key |-> c.key, item |-> Made(c), gen |-> c.gen]}
    BY <1>1, <1>6, <2>1
  <2>3. Made(c) \in Items
    <3>1. /\ Cardinality(stored) + 1 \in 0..MaxSent /\ snap \in 0..MaxSnap
          /\ c.version \in Items /\ 0 \in 0..MaxSent
      <4>1. [key |-> c.key, item |-> NoItem, gen |-> c.gen].key = c.key
        OBVIOUS
      <4> DEFINE new == [key |-> c.key, item |-> NoItem, gen |-> c.gen]
                 R == stored \cup {new}
      <4>2. new.key = c.key /\ c.key \in Numbers
        BY <1>2 DEF RequestType
      <4> HIDE DEF new
      <4>3. /\ \A r \in stored : r.key \in Numbers
            /\ \A r, q \in stored : r.key = q.key => r = q
        BY <1>2 DEF StoredType, PlanningInv, StoredFits
      <4>4. /\ \A r \in R : r.key \in Numbers
            /\ \A r, q \in R : r.key = q.key => r = q
        BY <2>1, <4>2, <4>3
      <4>5. MaxSent \in Nat \ {0} /\ MaxSnap \in Nat \ {0} /\ snap \in 1..MaxSnap
        BY PlanningTypes
      <4>6. Cardinality(R) <= MaxSent
        BY <4>4, <4>5, FewStored
      <4>7. IsFiniteSet(stored) /\ Cardinality(stored) \in Nat
        BY <4>3, <4>5, FewStored
      <4>8. new \notin stored
        BY <2>1, <4>2
      <4>9. Cardinality(R) = Cardinality(stored) + 1
        BY <4>7, <4>8, FS_AddElement
      <4>10. c.version \in Items
        BY <1>2 DEF RequestType
      <4> HIDE DEF R
      <4> DEFINE n == Cardinality(stored)
      <4>11. n \in Nat /\ n + 1 <= MaxSent
        BY <4>6, <4>7, <4>9
      <4> HIDE DEF n
      <4>12. n + 1 \in 0..MaxSent /\ snap \in 0..MaxSnap /\ 0 \in 0..MaxSent
        BY <4>5, <4>11
      <4>13. QED
        BY <4>10, <4>12 DEF n
    <3> DEFINE id == Cardinality(stored) + 1
    <3>2. Made(c) = CASE c.kind = "create" -> [id |-> id, scenario |-> id, of |-> 0, snap |-> snap]
                      [] c.kind = "derive" ->
                         [id |-> id, scenario |-> c.version.scenario, of |-> 0, snap |-> snap]
                      [] OTHER ->
                         [id |-> id, scenario |-> c.version.scenario, of |-> c.version.id,
                          snap |-> snap]
      BY DEF Made
    <3> HIDE DEF id
    <3>3. id \in 0..MaxSent /\ c.version.scenario \in 0..MaxSent
          /\ c.version.id \in 0..MaxSent
      BY <3>1 DEF id, Items
    <3>4. CASE c.kind = "create"
      BY <3>1, <3>2, <3>3, <3>4 DEF Items
    <3>5. CASE c.kind = "derive"
      BY <3>1, <3>2, <3>3, <3>5 DEF Items
    <3>6. CASE c.kind # "create" /\ c.kind # "derive"
      BY <3>1, <3>2, <3>3, <3>6 DEF Items
    <3>7. QED
      BY <3>4, <3>5, <3>6
  <2> HIDE DEF done, item
  <2>4. /\ done \in RequestType /\ done.reply = "ok" /\ done.item = Made(c)
        /\ done.kind = c.kind /\ done.attempt = c.attempt /\ done.version = c.version
        /\ done.baseline = c.baseline /\ done.key = c.key /\ done.gen = c.gen
    BY <1>2, <2>2, <2>3 DEF RequestType
  <2>5. QED
    BY <1>3, <2>1, <2>2, <2>4
<1>7. QED
  BY <1>4, <1>5, <1>6

\* A new item is the next one, of the scenario it was asked for.
LEMMA MadeIs ==
    ASSUME PlanningInv, NEW c \in requests
    PROVE  /\ Cardinality(stored) \in Nat /\ IsFiniteSet(stored)
           /\ Made(c).id = Cardinality(stored) + 1
           /\ Made(c).scenario \in 1..Made(c).id
           /\ Origin(Made(c), c.kind, c.version)
           /\ IsScenario(Made(c)) <=> c.kind = "create"
<1> DEFINE n == Cardinality(stored)
<1>1. n \in Nat /\ IsFiniteSet(stored)
  <2>1. /\ \A r \in stored : r.key \in Numbers
        /\ \A r, q \in stored : r.key = q.key => r = q
    BY PlanningTypes DEF StoredType, PlanningInv, StoredFits
  <2>2. QED
    BY <2>1, PlanningTypes, FewStored
<1>2. Made(c) =
                CASE c.kind = "create" -> [id |-> n + 1, scenario |-> n + 1, of |-> 0, snap |-> snap]
                  [] c.kind = "derive" ->
                     [id |-> n + 1, scenario |-> c.version.scenario, of |-> 0, snap |-> snap]
                  [] OTHER ->
                     [id |-> n + 1, scenario |-> c.version.scenario, of |-> c.version.id,
                      snap |-> snap]
  BY DEF Made
<1>3. c.kind # "create" => c.version.scenario \in 1..n
  <2>1. RequestFits(c) /\ StoredFits
    BY DEF PlanningInv
  <2>2. SUFFICES ASSUME c.kind # "create"
                 PROVE  c.version.scenario \in 1..n
    OBVIOUS
  <2>3. PICK r \in stored : c.version = r.item
    BY <2>1, <2>2, KnownById DEF RequestFits
  <2>4. r.item.id \in 1..n /\ r.item.scenario \in 1..r.item.id
    BY <2>1 DEF StoredFits
  <2> HIDE DEF n
  <2>5. QED
    BY <1>1, <2>3, <2>4
<1> HIDE DEF n
<1>4. /\ Made(c).id = n + 1
      /\ c.kind = "create" => Made(c).scenario = n + 1
      /\ c.kind # "create" => Made(c).scenario = c.version.scenario
      /\ c.kind = "generate" => Made(c).of = c.version.id
  <2>1. CASE c.kind = "create"
    BY <1>2, <2>1
  <2>2. CASE c.kind = "derive"
    BY <1>2, <2>2
  <2>3. CASE c.kind # "create" /\ c.kind # "derive"
    BY <1>2, <2>3
  <2>4. QED
    BY <2>1, <2>2, <2>3
<1>5. Made(c).scenario \in 1..Made(c).id /\ (Made(c).id = Made(c).scenario <=> c.kind = "create")
  BY <1>1, <1>3, <1>4
<1>6. Origin(Made(c), c.kind, c.version)
  BY <1>4, <1>5 DEF Origin
<1>7. QED
  BY <1>1, <1>4, <1>5, <1>6 DEF n, IsScenario

\* A served call keeps the invariant, whoever still waits for it.
LEMMA HandleInv ==
    ASSUME PlanningInv, NEW c \in requests, Handle(c)
    PROVE  PlanningInv'
<1>1. PICK done \in RequestType :
         /\ \A d \in requests' : d \in requests \/ d = done
         /\ done.kind = c.kind /\ done.attempt = c.attempt /\ done.version = c.version
         /\ done.baseline = c.baseline /\ done.key = c.key /\ done.gen = c.gen
         /\ \/ /\ stored' = stored
               /\ \/ done.reply = "scenario_stale" /\ c.kind # "create"
                  \/ done.reply = "ok" /\ \E r \in stored : r.key = c.key /\ r.item = done.item
            \/ /\ \A r \in stored : r.key # c.key
               /\ stored' = stored \cup {[key |-> c.key, item |-> Made(c), gen |-> c.gen]}
               /\ done.reply = "ok" /\ done.item = Made(c)
  BY HandleIs
<1>2. UNCHANGED <<snap, owed, shown, fetch, token, replaying, mounted, gen, plan, intents, observed,
                  sent>>
  BY DEF Handle, feed, session
<1>3. /\ StoredFits /\ \A d \in requests : RequestFits(d)
      /\ KeysFit /\ \A k \in Kinds : KeyKept(k)
      /\ OneCreate /\ PlanFits
  BY DEF PlanningInv
<1> DEFINE new == [key |-> c.key, item |-> Made(c), gen |-> c.gen]
<1>4. /\ new.key = c.key /\ new.item = Made(c) /\ new.gen = c.gen
  OBVIOUS
<1> HIDE DEF new
<1>5. \/ stored' = stored
      \/ stored' = stored \cup {new} /\ \A r \in stored : r.key # c.key
  BY <1>1 DEF new
<1>6. \A d \in requests' : \E e \in requests :
         /\ d \in RequestType /\ d.kind = e.kind /\ d.attempt = e.attempt /\ d.version = e.version
         /\ d.baseline = e.baseline /\ d.key = e.key /\ d.gen = e.gen
  <2>1. requests \subseteq RequestType
    BY PlanningTypes
  <2>2. QED
    BY <1>1, <2>1
<1>7. stored \subseteq stored' /\ Known \subseteq Known'
  BY <1>5 DEF Known
<1>8. /\ stored' \subseteq StoredType /\ requests' \subseteq RequestType
  <2>1. c \in RequestType /\ stored \subseteq StoredType
    BY PlanningTypes
  <2>2. CASE stored' = stored
    BY <1>6, <2>1, <2>2
  <2>3. CASE stored' # stored
    <3>1. done.item = Made(c) /\ done.item \in Items
      BY <1>1, <2>3 DEF RequestType
    <3>2. new \in StoredType
      BY <2>1, <3>1 DEF new, RequestType, StoredType
    <3>3. QED
      BY <1>5, <1>6, <2>1, <3>2
  <2>4. QED
    BY <2>2, <2>3
<1>9. StoredFits'
  <2>1. CASE stored' = stored
    BY <1>2, <1>3, <2>1 DEF StoredFits
  <2>2. CASE stored' = stored \cup {new} /\ \A r \in stored : r.key # c.key
    <3> DEFINE n == Cardinality(stored)
    <3>1. n \in Nat /\ new.item.id = n + 1 /\ new.item.scenario \in 1..(n + 1)
      BY <1>4, MadeIs
    <3>2. Cardinality(stored') = n + 1
      <4>1. new \notin stored
        BY <1>4, <2>2
      <4>2. QED
        BY <2>2, <4>1, MadeIs, FS_AddElement
    <3>3. \A r \in stored : /\ r.item.id \in 1..n /\ r.item.scenario \in 1..r.item.id
                            /\ r.key <= sent /\ r.gen <= gen
      BY <1>3 DEF StoredFits
    <3> HIDE DEF n
    <3>4. \A r \in stored : r.item.id \in 1..(n + 1) /\ r.item.id # n + 1
      BY <3>1, <3>3
    <3>5. c.key <= sent /\ c.gen <= gen
      BY <1>3 DEF RequestFits
    <3>6. new.item.id \in 1..(n + 1) /\ new.item.scenario \in 1..new.item.id
      BY <3>1
    <3>7. \A r, q \in stored' : r.key = q.key \/ r.item.id = q.item.id => r = q
      BY <1>3, <1>4, <2>2, <3>1, <3>4 DEF StoredFits
    <3>8. \A r \in stored' : /\ r.item.id \in 1..(n + 1) /\ r.item.scenario \in 1..r.item.id
                             /\ r.key <= sent /\ r.gen <= gen
      BY <1>4, <2>2, <3>3, <3>4, <3>5, <3>6
    <3>9. QED
      BY <1>2, <3>2, <3>7, <3>8 DEF StoredFits
  <2>3. QED
    BY <1>5, <2>1, <2>2
<1>10. ASSUME NEW d \in requests' PROVE RequestFits(d)'
  <2>1. PICK e \in requests :
           /\ d.kind = e.kind /\ d.attempt = e.attempt /\ d.version = e.version
           /\ d.baseline = e.baseline /\ d.key = e.key /\ d.gen = e.gen
    BY <1>6
  <2>2. RequestFits(e)
    BY <1>3
  <2>3. d.reply = "scenario_stale" => d.kind # "create"
    BY <1>1, <1>3 DEF RequestFits
  <2>4. d.reply = "ok" => \E r \in stored' : r.key = d.key /\ r.item = d.item
    <3>1. CASE d \in requests
      BY <1>3, <1>7, <3>1 DEF RequestFits
    <3>2. CASE d = done
      BY <1>1, <1>4, <1>5, <1>7, <3>2 DEF new
    <3>3. QED
      BY <1>1, <3>1, <3>2
  <2>5. QED
    BY <1>2, <1>7, <2>1, <2>2, <2>3, <2>4 DEF RequestFits
<1>11. KeysFit'
  <2>1. \A d, e \in requests' :
           d.key = e.key => d.kind = e.kind /\ d.version = e.version /\ d.gen = e.gen
    BY <1>3, <1>6 DEF KeysFit
  <2>2. \A d \in requests, r \in stored' :
           d.key = r.key => r.gen = d.gen /\ Origin(r.item, d.kind, d.version)
    <3>1. \A d \in requests : d.key = c.key =>
             new.gen = d.gen /\ Origin(new.item, d.kind, d.version)
      BY <1>3, <1>4, MadeIs DEF KeysFit
    <3>2. QED
      BY <1>3, <1>4, <1>5, <3>1 DEF KeysFit
  <2>3. \A d \in requests', r \in stored' :
           d.key = r.key => r.gen = d.gen /\ Origin(r.item, d.kind, d.version)
    BY <1>6, <2>2
  <2>4. QED
    BY <2>1, <2>3 DEF KeysFit, Origin
<1>12. ASSUME NEW k \in Kinds PROVE KeyKept(k)'
  <2>1. SUFFICES ASSUME intents[k].signature # <<>>
                 PROVE  KeyKept(k)'
    BY <1>2 DEF KeyKept
  <2>2. KeyKept(k)
    BY <1>3
  <2>3. PICK v \in Known :
           /\ intents[k].signature = <<k, v.id>> /\ (k = "create" <=> v = NoItem)
           /\ \A d \in requests : d.key = intents[k].key =>
                 d.kind = k /\ d.version = v /\ d.gen = gen
           /\ \A r \in stored : r.key = intents[k].key =>
                 r.gen = gen /\ Origin(r.item, k, v)
    BY <2>1, <2>2 DEF KeyKept
  <2>4. \A d \in requests' : d.key = intents[k].key => d.kind = k /\ d.version = v /\ d.gen = gen
    BY <1>6, <2>3
  <2>5. \A r \in stored' : r.key = intents[k].key => r.gen = gen /\ Origin(r.item, k, v)
    <3>1. c.key = intents[k].key => new.gen = gen /\ Origin(new.item, k, v)
      BY <1>4, <2>3, MadeIs
    <3>2. QED
      BY <1>4, <1>5, <2>3, <3>1
  <2>6. QED
    BY <1>2, <1>7, <2>1, <2>2, <2>3, <2>4, <2>5 DEF KeyKept, Origin
<1>13. OneCreate'
  <2>1. IsScenario(new.item) <=> c.kind = "create"
    BY <1>4, MadeIs
  <2>2. \A d, e \in requests' :
           d.kind = "create" /\ e.kind = "create" /\ d.gen = e.gen => d.key = e.key
    BY <1>3, <1>6 DEF OneCreate
  <2>3. \A d \in requests, r \in stored' :
           d.kind = "create" /\ IsScenario(r.item) /\ d.gen = r.gen => d.key = r.key
    BY <1>3, <1>4, <1>5, <2>1 DEF OneCreate
  <2>4. \A d \in requests', r \in stored' :
           d.kind = "create" /\ IsScenario(r.item) /\ d.gen = r.gen => d.key = r.key
    BY <1>6, <2>3
  <2>5. \A r, q \in stored' : r.gen = q.gen /\ IsScenario(r.item) /\ IsScenario(q.item) => r = q
    <3>1. \A r, q \in stored : r.gen = q.gen /\ IsScenario(r.item) /\ IsScenario(q.item) => r = q
      BY <1>3 DEF OneCreate, OneScenarioPerSession, IsScenario
    <3>2. (\A r \in stored : r.key # c.key) =>
             \A r \in stored : ~(r.gen = new.gen /\ IsScenario(r.item) /\ IsScenario(new.item))
      BY <1>3, <1>4, <2>1 DEF OneCreate
    <3>3. QED
      BY <1>5, <3>1, <3>2
  <2>6. ASSUME plan.base = NoItem
        PROVE  /\ \A d \in requests' : d.kind = "create" /\ d.gen = gen =>
                     intents["create"].signature # <<>> /\ d.key = intents["create"].key
               /\ \A r \in stored' : IsScenario(r.item) /\ r.gen = gen =>
                     intents["create"].signature # <<>> /\ r.key = intents["create"].key
    <3>1. \A d \in requests : d.kind = "create" /\ d.gen = gen =>
             intents["create"].signature # <<>> /\ d.key = intents["create"].key
      BY <1>3, <2>6 DEF OneCreate
    <3>2. \A r \in stored : IsScenario(r.item) /\ r.gen = gen =>
             intents["create"].signature # <<>> /\ r.key = intents["create"].key
      BY <1>3, <2>6 DEF OneCreate
    <3>3. QED
      BY <1>4, <1>5, <1>6, <2>1, <3>1, <3>2
  <2>7. QED
    BY <1>2, <2>2, <2>4, <2>5, <2>6 DEF OneCreate, OneScenarioPerSession, IsScenario
<1>14. PlanFits'
  <2>1. SessionCoherent'
    BY <1>2, <1>3 DEF PlanFits, SessionCoherent, Planned
  <2>2. \A d \in requests' : d.gen = gen /\ d.kind # "create" =>
           /\ plan.base # NoItem /\ d.version.scenario = plan.base.scenario
           /\ d.baseline => d.version.id = plan.base.id
    BY <1>3, <1>6 DEF PlanFits
  <2>3. QED
    BY <1>2, <1>3, <1>7, <2>1, <2>2 DEF PlanFits, IsScenario
<1>15. PlanningTyped'
  <2>1. \A r \in stored' : r.key \in Numbers /\ r.item \in Items
    BY <1>8 DEF StoredType
  <2>2. QED
    BY <1>2, <1>8, <2>1 DEF PlanningInv, PlanningTyped, PlanningTypeOK
<1>16. StaleIsLatched' /\ NewsComes'
  <2>1. Mismatch(plan', shown', token') <=> Mismatch(plan, shown, token)
    BY <1>2 DEF Mismatch
  <2>2. QED
    BY <1>2, <2>1 DEF PlanningInv, StaleIsLatched, NewsComes
<1>17. QED
  BY <1>9, <1>10, <1>11, <1>12, <1>13, <1>14, <1>15, <1>16, Together DEF Agreed

-----------------------------------------------------------------------------
(* An answer is heard.                                                     *)

\* What a success brings, and what the session becomes with it.
LEMMA SettledIs ==
    ASSUME PlanningInv, NEW c \in requests, c.reply = "ok", Active(c)
    PROVE  /\ mounted /\ c.gen = gen /\ c.kind \in Kinds /\ c \in RequestType
           /\ c.item \in Known /\ c.item # NoItem /\ c.version \in Known
           /\ Origin(c.item, c.kind, c.version)
           /\ c.kind = "create" =>
                 /\ plan.base # NoItem => plan.base = c.item
                 /\ \E r \in stored : r.item = c.item /\ r.gen = gen /\ IsScenario(r.item)
           /\ Settled(c) \in PlanType /\ Settled(c).token \in 0..token
           /\ plan.latched => Settled(c).latched
           /\ Settled(c).base = (IF c.kind = "create" THEN c.item ELSE plan.base)
           /\ Settled(c).latest = (IF c.kind = "generate" THEN plan.latest ELSE c.item)
           /\ Settled(c).baseRec =
                 (IF c.kind = "generate" /\ c.baseline THEN c.item ELSE plan.baseRec)
           /\ Settled(c).lastVersion = (IF c.kind = "generate" THEN c.version ELSE plan.lastVersion)
           /\ Settled(c).lastRec = (IF c.kind = "generate" THEN c.item ELSE plan.lastRec)
<1>1. /\ c \in RequestType /\ plan \in PlanType /\ token \in Nat \ {0} /\ plan.token \in 0..token
      /\ RequestFits(c) /\ KeysFit /\ OneCreate /\ PlanFits /\ StoredFits
  BY PlanningTypes DEF PlanningInv
<1>2. /\ c.kind \in Kinds /\ c.item \in Items /\ c.version \in Items /\ c.baseline \in BOOLEAN
  BY <1>1 DEF RequestType
<1>3. mounted /\ c.gen = gen
  BY DEF Active
<1>4. PICK r \in stored : r.key = c.key /\ r.item = c.item
  BY <1>1 DEF RequestFits
<1>5. r.gen = gen /\ Origin(c.item, c.kind, c.version)
  BY <1>1, <1>3, <1>4 DEF KeysFit
<1>6. c.item \in Known /\ c.item # NoItem /\ c.version \in Known
  <2>1. r.item.id # 0
    BY <1>1 DEF StoredFits
  <2>2. QED
    BY <1>1, <1>4, <2>1 DEF Known, NoItem, RequestFits
<1>7. ASSUME c.kind = "create"
      PROVE  /\ plan.base # NoItem => plan.base = c.item
             /\ \E q \in stored : q.item = c.item /\ q.gen = gen /\ IsScenario(q.item)
  <2>1. IsScenario(c.item)
    BY <1>5, <1>7 DEF Origin, IsScenario
  <2>2. ASSUME plan.base # NoItem PROVE plan.base = c.item
    <3>1. PICK q \in stored : q.item = plan.base /\ q.gen = gen /\ IsScenario(q.item)
      BY <1>1, <2>2 DEF PlanFits
    <3>2. r = q
      BY <1>1, <1>4, <1>5, <2>1, <3>1 DEF OneCreate, OneScenarioPerSession, IsScenario
    <3>3. QED
      BY <1>4, <3>1, <3>2
  <2>3. QED
    BY <1>4, <1>5, <2>1, <2>2
<1>8. CASE c.kind = "create"
  <2> DEFINE m == plan.latched \/ c.item.snap # shown
             p == [plan EXCEPT !.token = token, !.base = c.item, !.latest = c.item, !.latched = m]
  <2>1. m \in BOOLEAN /\ (plan.latched => m)
    BY Zenon
  <2>2. Settled(c) = p
    BY <1>8 DEF Settled
  <2> HIDE DEF m
  <2>3. /\ p \in PlanType /\ p.token = token /\ p.latched = m /\ p.base = c.item
        /\ p.latest = c.item /\ p.baseRec = plan.baseRec /\ p.lastVersion = plan.lastVersion
        /\ p.lastRec = plan.lastRec
    BY <1>1, <1>2, <2>1 DEF PlanType
  <2> HIDE DEF p
  <2>4. Settled(c).token \in 0..token
    BY <1>1, <2>2, <2>3
  <2>5. c.kind # "generate"
    BY <1>8
  <2>6. QED
    BY <1>1, <1>2, <1>3, <1>5, <1>6, <1>7, <1>8, <2>1, <2>2, <2>3, <2>4, <2>5
<1>9. CASE c.kind = "derive"
  <2> DEFINE p == [plan EXCEPT !.latest = c.item]
  <2>1. Settled(c) = p
    BY <1>9 DEF Settled
  <2>2. /\ p \in PlanType /\ p.token = plan.token /\ p.latched = plan.latched /\ p.base = plan.base
        /\ p.latest = c.item /\ p.baseRec = plan.baseRec /\ p.lastVersion = plan.lastVersion
        /\ p.lastRec = plan.lastRec
    BY <1>1, <1>2 DEF PlanType
  <2> HIDE DEF p
  <2>3. c.kind # "generate" /\ c.kind # "create"
    BY <1>9
  <2>4. QED
    BY <1>1, <1>2, <1>3, <1>5, <1>6, <2>1, <2>2, <2>3
<1>10. CASE c.kind = "generate"
  <2> DEFINE m == plan.latched \/ c.version.snap # shown \/ c.item.snap # shown \/ Overtaken(c)
             rec == IF c.baseline THEN c.item ELSE plan.baseRec
             p == [plan EXCEPT !.baseRec = rec, !.lastVersion = c.version, !.lastRec = c.item,
                               !.latched = m]
  <2>1. m \in BOOLEAN /\ (plan.latched => m)
    BY Zenon
  <2>2. Settled(c) = p
    BY <1>10 DEF Settled
  <2>3. rec \in Items /\ rec = (IF c.kind = "generate" /\ c.baseline THEN c.item ELSE plan.baseRec)
    BY <1>1, <1>2, <1>10 DEF PlanType
  <2> HIDE DEF m, rec
  <2>4. /\ p \in PlanType /\ p.token = plan.token /\ p.latched = m /\ p.base = plan.base
        /\ p.latest = plan.latest /\ p.baseRec = rec /\ p.lastVersion = c.version
        /\ p.lastRec = c.item
    BY <1>1, <1>2, <2>1, <2>3 DEF PlanType
  <2> HIDE DEF p
  <2>5. c.kind # "create"
    BY <1>10
  <2>6. QED
    BY <1>1, <1>2, <1>3, <1>5, <1>6, <1>10, <2>1, <2>2, <2>3, <2>4, <2>5
<1>11. QED
  BY <1>2, <1>8, <1>9, <1>10 DEF Kinds

\* The answer fits the session that it settles.
LEMMA SettledFits ==
    ASSUME PlanningInv, NEW c \in requests, c.reply = "ok", Active(c), SamePlan(plan', Settled(c)),
           UNCHANGED <<stored, gen>>,
           \A d \in requests' : \/ \E e \in requests : /\ d.kind = e.kind /\ d.version = e.version
                                                       /\ d.baseline = e.baseline /\ d.gen = e.gen
                                \/ c.kind = "create" /\ d.version = c.item
    PROVE  PlanFits'
<1>1. /\ c.kind \in Kinds /\ c.item \in Known /\ c.item # NoItem /\ c.version \in Known
      /\ c.gen = gen /\ Origin(c.item, c.kind, c.version)
      /\ c.kind = "create" =>
            /\ plan.base # NoItem => plan.base = c.item
            /\ \E r \in stored : r.item = c.item /\ r.gen = gen /\ IsScenario(r.item)
      /\ plan'.base = (IF c.kind = "create" THEN c.item ELSE plan.base)
      /\ plan'.latest = (IF c.kind = "generate" THEN plan.latest ELSE c.item)
      /\ plan'.baseRec = (IF c.kind = "generate" /\ c.baseline THEN c.item ELSE plan.baseRec)
      /\ plan'.lastVersion = (IF c.kind = "generate" THEN c.version ELSE plan.lastVersion)
      /\ plan'.lastRec = (IF c.kind = "generate" THEN c.item ELSE plan.lastRec)
  BY SettledIs DEF SamePlan
<1>2. PlanFits /\ Known' = Known
  BY DEF PlanningInv, Known
<1>3. c.kind # "create" => /\ plan.base # NoItem /\ c.version.scenario = plan.base.scenario
                           /\ c.baseline => c.version.id = plan.base.id
  BY <1>1, <1>2 DEF PlanFits
<1>4. c.kind # "create" => /\ c.item.scenario = plan.base.scenario
                           /\ c.kind = "generate" => c.item.of = c.version.id
  BY <1>1, <1>3 DEF Origin
<1>5. plan.base = NoItem => plan.latest = NoItem /\ plan.baseRec = NoItem /\ plan.lastRec = NoItem
  BY <1>2 DEF PlanFits, SessionCoherent, Planned
<1>6. \A i \in {plan.latest, plan.baseRec, plan.lastRec} \ {NoItem} :
         i.scenario = plan.base.scenario
  BY <1>2 DEF PlanFits, SessionCoherent, Planned
<1>7. plan'.base # NoItem /\ (plan.base # NoItem => plan'.base = plan.base)
  BY <1>1, <1>3
<1>8. \A i \in {plan'.latest, plan'.baseRec, plan'.lastRec} \ {NoItem} :
         i.scenario = plan'.base.scenario
  <2>1. CASE c.kind = "create" /\ plan.base = NoItem
    BY <1>1, <1>5, <2>1
  <2>2. CASE plan.base # NoItem
    BY <1>1, <1>4, <1>6, <1>7, <2>2
  <2>3. QED
    BY <1>3, <2>1, <2>2
<1>9. plan'.baseRec # NoItem => plan'.baseRec.of = plan'.base.id
  <2>1. CASE c.kind = "generate" /\ c.baseline
    BY <1>1, <1>3, <1>4, <2>1
  <2>2. CASE ~(c.kind = "generate" /\ c.baseline)
    BY <1>1, <1>2, <1>5, <1>7, <2>2 DEF PlanFits, SessionCoherent
  <2>3. QED
    BY <2>1, <2>2
<1>10. plan'.lastRec.of = plan'.lastVersion.id
  BY <1>1, <1>2, <1>4 DEF PlanFits, SessionCoherent
<1>11. SessionCoherent'
  BY <1>7, <1>8, <1>9, <1>10 DEF SessionCoherent, Planned
<1>12. {plan'.base, plan'.latest, plan'.baseRec, plan'.lastVersion, plan'.lastRec} \subseteq Known
  BY <1>1, <1>2 DEF PlanFits
<1>13. plan'.latest # NoItem
  BY <1>1, <1>2, <1>3 DEF PlanFits
<1>14. \E r \in stored : r.item = plan'.base /\ r.gen = gen /\ IsScenario(r.item)
  BY <1>1, <1>2, <1>3 DEF PlanFits
<1>15. ASSUME NEW d \in requests', d.gen = gen, d.kind # "create"
       PROVE  /\ plan'.base # NoItem /\ d.version.scenario = plan'.base.scenario
              /\ d.baseline => d.version.id = plan'.base.id
  <2>1. CASE \E e \in requests : /\ d.kind = e.kind /\ d.version = e.version
                                 /\ d.baseline = e.baseline /\ d.gen = e.gen
    BY <1>2, <1>7, <1>15, <2>1 DEF PlanFits
  <2>2. CASE c.kind = "create" /\ d.version = c.item
    BY <1>1, <1>7, <2>2
  <2>3. QED
    BY <2>1, <2>2
<1>16. QED
  BY <1>2, <1>7, <1>11, <1>12, <1>13, <1>14, <1>15 DEF PlanFits, IsScenario

\* An answer is heard by the session that asked, or by a later one.
LEMMA SucceedInv ==
    ASSUME PlanningInv, NEW c \in requests, Succeed(c)
    PROVE  PlanningInv'
<1> DEFINE ended == Settle(intents[c.kind], c.attempt, FALSE)
           id == sent + 1
<1>1. /\ c.heard /\ c.reply = "ok"
      /\ UNCHANGED <<snap, stored, owed, shown, fetch, token, replaying, mounted, gen>>
      /\ plan' = IF Active(c) THEN Rendered(Settled(c)) ELSE plan
      /\ IF Active(c) /\ Continues(c)
           THEN /\ id \in Numbers /\ sent' = id
                /\ requests' = (requests \ {c}) \cup {Sent("generate", c.item, TRUE, id)}
                /\ intents' = [intents EXCEPT !["create"] = ended,
                     !["generate"] = Begin(intents["generate"], <<"generate", c.item.id>>, id)]
                /\ observed' = [observed EXCEPT !["generate"] = id]
           ELSE /\ requests' = requests \ {c}
                /\ intents' = [intents EXCEPT ![c.kind] = ended]
                /\ UNCHANGED <<observed, sent>>
  BY DEF Succeed, database, feed
<1>2. /\ c \in RequestType /\ c.kind \in Kinds /\ RequestFits(c) /\ MaxSent \in Nat \ {0}
      /\ intents \in [Kinds -> HookType] /\ intents[c.kind] \in HookType
      /\ observed \in [Kinds -> 0..MaxSent] /\ plan \in PlanType /\ gen \in Nat
  BY PlanningTypes DEF RequestType, PlanningInv
<1>3. /\ ended \in HookType /\ ended.attempt \in {0, intents[c.kind].attempt}
      /\ ended.signature # <<>> =>
            /\ ended.signature = intents[c.kind].signature
            /\ ended.key = intents[c.kind].key
      /\ intents[c.kind].attempt # c.attempt => ended = intents[c.kind]
  BY <1>2, SettleIs
<1> HIDE DEF ended
<1>4. NewsComes'
  BY <1>1 DEF PlanningInv, NewsComes
<1>5. CASE ~Active(c)
  <2>1. c.gen # gen
    BY <1>2, <1>5 DEF Active, RequestFits
  <2>2. ended = intents[c.kind]
    BY <1>2, <1>3, <2>1 DEF RequestFits
  <2>3. plan' = plan /\ intents' = intents /\ requests' = requests \ {c}
            /\ UNCHANGED <<observed, sent>>
    BY <1>1, <1>2, <1>5, <2>2
  <2>4. FewerRequests /\ CreateKept /\ SamePlan(plan', plan) /\ \A k \in Kinds : HookStays(k)
    BY <2>3, HooksSame DEF FewerRequests, CreateKept, SamePlan
  <2>5. Agreed'
    BY <1>1, <2>3, <2>4, AgreedKept
  <2>6. PlanFits'
    BY <1>1, <2>4, PlanFitsKept
  <2>7. PlanningTyped'
    <3>1. requests' \subseteq RequestType
      BY <2>4, RequestsTyped
    <3>2. QED
      BY <1>1, <2>3, <3>1 DEF PlanningInv, PlanningTyped, PlanningTypeOK
  <2>8. StaleIsLatched'
    <3>1. Mismatch(plan', shown', token') <=> Mismatch(plan, shown, token)
      BY <1>1, <2>3 DEF Mismatch
    <3>2. QED
      BY <2>3, <3>1 DEF PlanningInv, StaleIsLatched
  <2>9. QED
    BY <1>4, <2>5, <2>6, <2>7, <2>8, Together
<1>6. CASE Active(c)
  <2>1. plan' = Rendered(Settled(c)) /\ Settled(c) \in PlanType
    BY <1>1, <1>6, SettledIs
  <2>2. plan' \in PlanType /\ SamePlan(plan', Settled(c)) /\ StaleIsLatched'
    BY <2>1, RenderedIs
  <2>3. /\ mounted /\ c.item \in Known /\ c.item # NoItem
        /\ plan'.base = (IF c.kind = "create" THEN c.item ELSE plan.base)
        /\ plan'.token \in 0..token
    BY <1>1, <1>6, <2>2, SettledIs DEF SamePlan
  <2>4. c.kind # "create" => plan.base # NoItem
    BY <1>6 DEF Active, PlanningInv, PlanFits
  <2>5. plan'.base # NoItem
    BY <2>3, <2>4
  <2>6. CreateKept
    BY <2>5 DEF CreateKept
  <2>7. /\ {plan'.base, plan'.latest, plan'.baseRec, plan'.lastVersion, plan'.lastRec}
            \subseteq Items
        /\ plan'.latched \in BOOLEAN
    BY <2>2 DEF PlanType
  <2>8. CASE ~Continues(c)
    <3>1. requests' = requests \ {c} /\ intents' = [intents EXCEPT ![c.kind] = ended]
          /\ UNCHANGED <<observed, sent>>
      BY <1>1, <2>8
    <3>2. FewerRequests
      BY <3>1 DEF FewerRequests
    <3>3. ASSUME NEW k \in Kinds PROVE HookStays(k)
      <4>1. CASE k = c.kind
        BY <1>2, <1>3, <3>1, <4>1 DEF HookStays
      <4>2. CASE k # c.kind
        BY <1>2, <3>1, <4>2 DEF HookStays
      <4>3. QED
        BY <4>1, <4>2
    <3>4. Agreed'
      BY <1>1, <2>6, <3>1, <3>2, <3>3, AgreedKept
    <3>5. PlanFits'
      BY <1>1, <1>6, <2>2, <3>1, SettledFits
    <3>6. PlanningTyped'
      <4>1. requests' \subseteq RequestType
        BY <3>2, RequestsTyped
      <4>2. intents' \in [Kinds -> HookType]
        BY <1>2, <1>3, <3>1
      <4>3. QED
        BY <1>1, <2>2, <2>3, <2>7, <3>1, <4>1, <4>2 DEF PlanningInv, PlanningTyped, PlanningTypeOK
    <3>7. QED
      BY <1>4, <2>2, <3>4, <3>5, <3>6, Together
  <2>9. CASE Continues(c)
    <3>1. c.kind = "create"
      BY <2>9 DEF Continues
    <3>2. /\ id \in Numbers /\ sent' = id
          /\ requests' = (requests \ {c}) \cup {Sent("generate", c.item, TRUE, id)}
          /\ intents' = [intents EXCEPT !["create"] = ended,
               !["generate"] = Begin(intents["generate"], <<"generate", c.item.id>>, id)]
          /\ observed' = [observed EXCEPT !["generate"] = id]
      BY <1>1, <1>6, <2>9
    <3>3. /\ intents'["create"] = ended /\ intents'["derive"] = intents["derive"]
          /\ intents'["generate"] = Begin(intents["generate"], <<"generate", c.item.id>>, id)
      BY <1>2, <3>2 DEF Kinds
    <3>4. \A k \in Kinds \ {"generate"} : HookStays(k)
      <4>1. HookStays("create")
        BY <1>3, <3>1, <3>3 DEF HookStays
      <4>2. HookStays("derive")
        BY <1>2, <3>3 DEF HookStays, Kinds
      <4>3. QED
        BY <4>1, <4>2 DEF Kinds
    <3>5. Sends("generate", c.item, TRUE)
      <4>1. \E rest \in SUBSET requests : requests' = rest \cup {Sent("generate", c.item, TRUE, id)}
        BY <3>2
      <4>2. "generate" # "create" /\ TRUE \in BOOLEAN
        OBVIOUS
      <4>3. plan'.base = NoItem => plan.base = NoItem
        BY <2>5
      <4>4. QED
        BY <1>1, <2>3, <2>6, <3>2, <3>3, <3>4, <4>1, <4>2, <4>3 DEF Sends
    <3>6. "generate" \in Kinds
      BY DEF Kinds
    <3>7. Agreed' /\ requests' \subseteq RequestType
      BY <3>5, <3>6, SendAgreed
    <3>8. PICK new \in RequestType :
             /\ new = Sent("generate", c.item, TRUE, sent + 1) /\ new.version = c.item
             /\ intents'["generate"] \in HookType
      BY <3>5, <3>6, SentFits
    <3>9. PlanFits'
      <4>1. \A d \in requests' : \/ \E e \in requests : /\ d.kind = e.kind /\ d.version = e.version
                                                        /\ d.baseline = e.baseline /\ d.gen = e.gen
                                 \/ c.kind = "create" /\ d.version = c.item
        BY <3>1, <3>2, <3>8
      <4>2. QED
        BY <1>1, <1>6, <2>2, <4>1, SettledFits
    <3>10. PlanningTyped'
      <4>1. intents' \in [Kinds -> HookType]
        <5>1. Begin(intents["generate"], <<"generate", c.item.id>>, id) \in HookType
          BY <3>3, <3>8
        <5>2. QED
          BY <1>2, <1>3, <3>1, <3>2, <5>1
      <4>2. sent' \in 0..MaxSent /\ id \in 0..MaxSent
        BY <1>2, <3>2, PlanningTypes DEF Numbers
      <4>3. observed' \in [Kinds -> 0..MaxSent] /\ \A k \in Kinds : observed'[k] \in 0..MaxSent
        BY <1>2, <3>2, <4>2
      <4>4. QED
        BY <1>1, <2>2, <2>3, <2>7, <3>7, <4>1, <4>2, <4>3
           DEF PlanningInv, PlanningTyped, PlanningTypeOK
    <3>11. QED
      BY <1>4, <2>2, <3>7, <3>9, <3>10, Together
  <2>10. QED
    BY <2>8, <2>9
<1>7. QED
  BY <1>5, <1>6

-----------------------------------------------------------------------------
(* Every run of the planning session.                                      *)

\* The first snapshot is on screen, and nothing was asked.
LEMMA PlanningInitInv ==
    ASSUME PlanningInit
    PROVE  PlanningInv
<1>1. PlanningBounds
  BY PlanningAssumption DEF PlanningBounds
<1>2. NoItem \in Items /\ NoPlan \in PlanType
  <2>1. NoItem \in Items
    BY <1>1 DEF PlanningBounds, NoItem, Items
  <2>2. QED
    BY <2>1 DEF NoPlan, PlanType
<1>3. /\ plan.base = NoItem /\ plan.latest = NoItem /\ plan.baseRec = NoItem
      /\ plan.lastVersion = NoItem /\ plan.lastRec = NoItem /\ plan.latched = FALSE
      /\ plan.token = 0
  BY DEF PlanningInit, NoPlan
<1>4. PlanningTyped
  <2>1. /\ snap \in 1..MaxSnap /\ shown \in 1..MaxSnap /\ gen \in 1..MaxGen
        /\ sent \in 0..MaxSent /\ 0 \in 0..MaxSent
        /\ token \in Nat \ {0} /\ plan.token \in 0..token
        /\ fetch \in [state : {"idle", "asked", "read", "failed"}, snap : 0..MaxSnap]
    BY <1>1, <1>3 DEF PlanningInit, PlanningBounds
  <2>2. /\ intents \in [Kinds -> HookType] /\ observed \in [Kinds -> 0..MaxSent]
        /\ \A k \in Kinds : observed[k] \in 0..MaxSent
    BY <2>1 DEF PlanningInit, NoIntent, HookType
  <2>3. {mounted, owed, replaying} \subseteq BOOLEAN /\ requests = {} /\ stored = {}
        /\ plan = NoPlan
    BY DEF PlanningInit
  <2>4. plan.latched \in BOOLEAN
    BY <1>3
  <2>5. QED
    BY <1>2, <1>3, <2>1, <2>2, <2>3, <2>4 DEF PlanningTyped, PlanningTypeOK
<1>5. StaleIsLatched
  BY NoPlanMatches DEF PlanningInit, StaleIsLatched
<1>6. NewsComes
  BY DEF PlanningInit, NewsComes
<1>7. StoredFits /\ KeysFit /\ \A c \in requests : RequestFits(c)
  BY DEF PlanningInit, StoredFits, KeysFit
<1>8. \A k \in Kinds : KeyKept(k)
  BY DEF PlanningInit, KeyKept, NoIntent
<1>9. OneCreate
  BY DEF PlanningInit, OneCreate, OneScenarioPerSession
<1>10. PlanFits
  <2>1. Planned = {} /\ NoItem.of = NoItem.id
    BY <1>3 DEF Planned, NoItem
  <2>2. requests = {}
    BY DEF PlanningInit
  <2>3. QED
    BY <1>3, <2>1, <2>2 DEF PlanFits, Known, SessionCoherent
<1>11. QED
  BY <1>1, <1>4, <1>5, <1>6, <1>7, <1>8, <1>9, <1>10 DEF PlanningInv

\* Every step of the page, of the server and of the stream.
LEMMA PlanningStep ==
    ASSUME PlanningInv, [PlanningNext]_planningVars
    PROVE  PlanningInv'
<1>1. CASE Bootstrap \/ Generate \/ SaveVersion
  BY <1>1, ClickInv
<1>2. CASE Reset \/ FailDetail
  BY <1>2, AfreshInv
<1>3. CASE \E c \in requests : Handle(c)
  BY <1>3, HandleInv
<1>4. CASE \E c \in requests : Succeed(c)
  BY <1>4, SucceedInv
<1>5. CASE \E c \in requests : Refuse(c) \/ LoseAnswer(c)
  BY <1>5, FailInv
<1>6. CASE Commit \/ ReadDetail \/ RetryDetail \/ Replay
  BY <1>6, WorldInv
<1>7. CASE Event \/ Reopen \/ ShowDetail
  BY <1>7, NewsInv
<1>8. CASE UNCHANGED planningVars
  <2>1. UNCHANGED <<snap, stored, owed, shown, fetch, token, replaying, mounted, gen, plan,
                    intents, observed, clicked, requests, sent, slips>>
    BY <1>8 DEF planningVars, database, feed, session, hooks
  <2>2. FewerRequests /\ CreateKept /\ SamePlan(plan', plan) /\ \A k \in Kinds : HookStays(k)
    BY <2>1, HooksSame DEF FewerRequests, CreateKept, SamePlan
  <2>3. Agreed'
    BY <2>1, <2>2, AgreedKept
  <2>4. PlanFits'
    BY <2>1, <2>2, PlanFitsKept
  <2>5. PlanningTyped' /\ NewsComes'
    BY <2>1 DEF PlanningInv, PlanningTyped, PlanningTypeOK, NewsComes
  <2>6. StaleIsLatched'
    <3>1. Mismatch(plan', shown', token') <=> Mismatch(plan, shown, token)
      BY <2>1 DEF Mismatch
    <3>2. QED
      BY <2>1, <3>1 DEF PlanningInv, StaleIsLatched
  <2>7. QED
    BY <2>3, <2>4, <2>5, <2>6, Together
<1>9. QED
  BY <1>1, <1>2, <1>3, <1>4, <1>5, <1>6, <1>7, <1>8 DEF PlanningNext

\* What the invariant says of what may be acted on.
LEMMA PlanningSound ==
    ASSUME PlanningInv
    PROVE  SessionSound
<1>1. PlanningTypeOK /\ SessionCoherent /\ OneScenarioPerSession
  BY DEF PlanningInv, PlanningTyped, PlanFits, OneCreate
<1>2. StalenessOwed
  <2>1. SUFFICES ASSUME mounted, ~Stale, NEW i \in Planned, i.snap < snap
                 PROVE  \/ owed \/ fetch.state = "asked"
                        \/ (fetch.state = "read" /\ fetch.snap = snap)
    BY DEF StalenessOwed
  <2>2. i.snap = shown
    BY <2>1 DEF Stale, Mismatch, Planned
  <2>3. shown # snap
    BY <2>1, <2>2, PlanningTypes
  <2>4. QED
    BY <2>1, <2>3 DEF PlanningInv, NewsComes
<1>3. QED
  BY <1>1, <1>2 DEF SessionSound

\* The mark of a session outlives every step that keeps the session.
LEMMA MarkKept ==
    ASSUME PlanningInv, [PlanningNext]_planningVars, gen' = gen, plan.latched
    PROVE  plan'.latched
<1>1. PlanningInv /\ [PlanningNext]_planningVars /\ gen' = gen /\ plan.latched
  OBVIOUS
<1>2. gen \in Nat
  BY PlanningTypes
<1>3. CASE \E c \in requests : Succeed(c)
  <2>1. PICK c \in requests : Succeed(c)
    BY <1>3
  <2>2. CASE Active(c)
    <3>1. plan' = Rendered(Settled(c)) /\ Settled(c) \in PlanType /\ Settled(c).latched
      BY <1>1, <2>1, <2>2, SettledIs DEF Succeed
    <3>2. QED
      BY <3>1, RenderedIs
  <2>3. CASE ~Active(c)
    BY <1>1, <2>1, <2>3 DEF Succeed
  <2>4. QED
    BY <2>2, <2>3
<1>4. CASE \E c \in requests : Refuse(c) \/ LoseAnswer(c)
  <2>1. PICK c \in requests, retain \in BOOLEAN, refused \in BOOLEAN : Fail(c, retain, refused)
    BY <1>4 DEF Refuse, LoseAnswer
  <2>2. CASE Active(c)
    <3> DEFINE m == plan.latched \/ refused \/ Overtaken(c)
    <3>1. plan' = [plan EXCEPT !.latched = m] /\ m
      BY <1>1, <2>1, <2>2 DEF Fail
    <3> HIDE DEF m
    <3>2. QED
      BY <3>1, PlanningTypes DEF PlanType
  <2>3. CASE ~Active(c)
    BY <1>1, <2>1, <2>3 DEF Fail
  <2>4. QED
    BY <2>2, <2>3
<1>5. CASE Event \/ Reopen \/ ShowDetail
  <2>1. plan' = Rendered(plan)
    BY <1>5 DEF Event, Reopen, ShowDetail
  <2>2. QED
    BY <1>1, <2>1, PlanningTypes, RenderedIs
<1>6. CASE Reset \/ FailDetail
  BY <1>1, <1>2, <1>6 DEF Reset, FailDetail
<1>7. CASE \/ Bootstrap \/ Generate \/ SaveVersion \/ Commit \/ ReadDetail \/ RetryDetail \/ Replay
           \/ UNCHANGED planningVars \/ \E c \in requests : Handle(c)
  <2>1. plan' = plan
    BY <1>7 DEF Bootstrap, Generate, SaveVersion, Click, Commit, ReadDetail, RetryDetail, Replay,
       Handle, Drawn, planningVars, session
  <2>2. QED
    BY <1>1, <2>1
<1>8. QED
  BY <1>1, <1>3, <1>4, <1>5, <1>6, <1>7 DEF PlanningNext

\* A session that may be acted on is of one scenario, and current or about to
\* be marked, whatever overtakes its commands.
THEOREM PlanningSessionIsSound == PlanningSpec => []SessionSound
<1>1. PlanningInit => PlanningInv
  BY PlanningInitInv
<1>2. PlanningInv /\ [PlanningNext]_planningVars => PlanningInv'
  BY PlanningStep
<1>3. PlanningInv => SessionSound
  BY PlanningSound
<1>4. QED
  BY <1>1, <1>2, <1>3, PTL DEF PlanningSpec

\* A mark is never taken back within a session.
THEOREM StaleIsForGood == PlanningSpec => StaleStaysMarked
<1>1. PlanningInit => PlanningInv
  BY PlanningInitInv
<1>2. PlanningInv /\ [PlanningNext]_planningVars => PlanningInv'
  BY PlanningStep
<1>3. PlanningInv /\ [PlanningNext]_planningVars => [gen' = gen /\ Stale => Stale']_planningVars
  BY MarkKept DEF PlanningInv, StaleIsLatched, Stale
<1>4. QED
  BY <1>1, <1>2, <1>3, PTL DEF PlanningSpec, StaleStaysMarked

=============================================================================
