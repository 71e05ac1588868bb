----------------------------- MODULE ChangeFeed -----------------------------
(***************************************************************************)
(* What the monitor is promised about the data it shows: a committed       *)
(* change is either on the screen or still owed to the client, and nothing *)
(* but showing it takes it out of what is owed.  Two things are not        *)
(* promised: that a first answer is the newest, and that a client hears    *)
(* of the list becoming empty.  The database, the PostgreSQL channel, the  *)
(* API process and the browser are one step away from each other here;     *)
(* EventRelay says what happens in between.                                *)
(***************************************************************************)
EXTENDS Naturals

CONSTANTS
    Incidents,  \* incidents with a snapshot
    List,       \* the list of the active ones
    Source,     \* the source statuses
    Clients,    \* browsers with the monitor open
    MaxVersion  \* bound: committed versions of a topic

VARIABLES
    committed,  \* committed[t]: version of topic t in the database
    active,     \* the incidents on the list
    shown,      \* shown[c][t]: version of t that c holds, NoData at first
    owed        \* owed[c]: topics c will be told of, or is asking for

vars == <<committed, active, shown, owed>>

Topics == Incidents \cup {List, Source}
NoData == 0
Versions == 1..MaxVersion

Init ==
    /\ committed = [t \in Topics |-> 1]
    /\ active \in SUBSET Incidents
    /\ shown = [c \in Clients |-> [t \in Topics |-> NoData]]
    /\ owed \in [Clients -> SUBSET Topics]

\* A transaction changes the topics T and tells every client of the topics W.
Commit(T, W) ==
    /\ \A t \in T : committed[t] < MaxVersion
    /\ committed' = [t \in Topics |-> committed[t] + (IF t \in T THEN 1 ELSE 0)]
    /\ owed' = [c \in Clients |-> owed[c] \cup W]
    /\ UNCHANGED shown

\* Ingestion leaves the incidents A active, those in C with a new snapshot: who
\* is active is told of, and the list with them.
Ingest(A, C) ==
    /\ Commit(C \cup {Source} \cup (IF C # {} \/ A # active THEN {List} ELSE {}),
              A \cup {Source} \cup (IF A # {} THEN {List} ELSE {}))
    /\ active' = A

\* Ingestion fails and says so.
Fail == Commit({Source}, {Source}) /\ UNCHANGED active

\* A client is owed more than it was: a connection is lost, a hint is lost,
\* and everything is asked for again.
Warn ==
    /\ owed' \in [Clients -> SUBSET Topics]
    /\ \A c \in Clients : owed[c] \subseteq owed'[c]
    /\ UNCHANGED <<committed, active, shown>>

\* What an answer with version v settles.
Settles(c, t, v) ==
    v = committed[t] \/ shown[c][t] = NoData \/ (t = List /\ active = {})

\* An answer reaches the screen.  It may settle the debt when it is the newest
\* version, the first answer, or a list nobody is on any more.
Show(c, t) ==
    \E v \in Versions :
        /\ shown[c][t] <= v /\ v <= committed[t]
        /\ shown' = [shown EXCEPT ![c][t] = v]
        /\ owed' = owed \/ (Settles(c, t, v) /\ owed' = [owed EXCEPT ![c] = @ \ {t}])
        /\ UNCHANGED <<committed, active>>

Next ==
    \/ \E A \in SUBSET Incidents : \E C \in SUBSET A : Ingest(A, C)
    \/ Fail
    \/ Warn
    \/ \E c \in Clients, t \in Topics : Show(c, t)

Spec == Init /\ [][Next]_vars

TypeOK ==
    /\ committed \in [Topics -> Versions]
    /\ active \subseteq Incidents
    /\ shown \in [Clients -> [Topics -> Versions \cup {NoData}]]
    /\ owed \in [Clients -> SUBSET Topics]

=============================================================================
