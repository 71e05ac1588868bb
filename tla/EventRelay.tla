----------------------------- MODULE EventRelay -----------------------------
(***************************************************************************)
(* How a committed change reaches a browser: pg_notify inside the          *)
(* ingestion transaction, the relay task that LISTENs in the API process,  *)
(* the bounded queue of each subscriber, the event stream and the queries  *)
(* the browser repeats when told to.                                       *)
(*                                                                         *)
(* Notifications are lost whenever the relay is not listening, a queue is  *)
(* full or a stream is cut.  The marker "resync-required" and the refetch  *)
(* on (re)opening a stream stand in for everything that was lost.  Two     *)
(* changes are not covered: the closing of the last active incident, which *)
(* no event tells of, and one that meets a first answer already read.      *)
(***************************************************************************)
EXTENDS Naturals, Sequences, FiniteSets, Functions

CONSTANTS
    Incidents,  \* incidents with a snapshot
    List,       \* the topic of the incident list
    Source,     \* the topic of the source statuses
    Clients,    \* subscribers of the event stream
    Screens,    \* which of List and Source a client may have on screen
    QueueSize,  \* EventBus(queue_size)
    MaxVersion, \* bound: versions of a topic
    MaxChoices, \* bound: incidents put on screen
    MaxFaults   \* bound: connections, streams, processes and requests that fail

\* What a query asks for; an incident stands for its detail or its timeline.
Topics == Incidents \cup {List, Source}

NoData == 0
Versions == 1..MaxVersion

\* What a transaction notifies of.
Payloads == Incidents \cup {Source}

Resync == "resync-required"
Garbage == "garbage"     \* a payload decode_notification rejects

\* A query has no observer on screen, holds its last answer, has been asked, is
\* answered but not shown yet, or ended in an error.
Off == [state |-> "off", version |-> 0]
Idle == [state |-> "idle", version |-> 0]
Asked == [state |-> "asked", version |-> 0]
ReadAt(v) == [state |-> "read", version |-> v]
Failed == [state |-> "failed", version |-> 0]
Fetches == {Off, Idle, Asked, Failed} \cup {ReadAt(v) : v \in Versions}

ASSUME RelayAssumption ==
    /\ IsFiniteSet(Incidents)
    /\ Screens \subseteq SUBSET {List, Source}
    /\ QueueSize \in Nat \ {0}
    /\ MaxVersion \in Nat \ {0}
    /\ MaxChoices \in Nat
    /\ MaxFaults \in Nat
    /\ List \notin Incidents
    /\ Source \notin Incidents \cup {List}
    /\ {Resync, Garbage} \cap Topics = {}

VARIABLES
    committed,  \* committed[t]: version of t in the database
    active,     \* incidents with status "active" in the database
    conn,       \* the relay's connection
    wire,       \* notifications on their way to the relay
    stream,     \* stream[c]: the client's event stream
    queue,      \* queue[c]: the EventQueue of its subscription
    view,       \* view[c][t]: the version c holds, NoData before the first answer
    fetch,      \* fetch[c][t]: the client's query for t
    joined,     \* history: joined[c] are topics whose first answer was already
                \* read when c was told to ask for them
    choices,    \* incidents put on screen so far
    faults      \* faults so far

database == <<committed, active>>
browser == <<view, fetch, joined, choices>>
vars == <<committed, active, conn, wire, stream, queue, view, fetch, joined, choices, faults>>

\* "connected": open, LISTEN not executed; "registering": LISTEN in effect,
\* the callback not registered; "broken": closed, the poll has not noticed.
Phases == {"down", "connected", "registering", "listening", "broken"}
Streams == {"closed", "opening", "open", "cut"}

Subscribed(c) == stream[c] \in {"opening", "open"}

\* The monitor mounts: what its screen shows is asked for, no incident is
\* selected yet.
Init ==
    /\ committed = [t \in Topics |-> 1]
    /\ active \in SUBSET Incidents
    /\ conn = "down"
    /\ wire = <<>>
    /\ stream = [c \in Clients |-> "closed"]
    /\ queue = [c \in Clients |-> <<>>]
    /\ view = [c \in Clients |-> [t \in Topics |-> NoData]]
    /\ \E shows \in [Clients -> Screens] :
         fetch = [c \in Clients |-> [t \in Topics |-> IF t \in shows[c] THEN Asked ELSE Off]]
    /\ joined = [c \in Clients |-> {}]
    /\ choices = 0
    /\ faults = 0

-----------------------------------------------------------------------------
(* The event bus *)

\* An event joins a queue, vanishes behind a marker, or a full queue
\* collapses to one marker.
Offer(q, e) ==
    IF Resync \in Range(q) THEN q
    ELSE IF Len(q) < QueueSize THEN Append(q, e)
    ELSE <<Resync>>

\* Every subscription of the moment is offered the event.
Publish(e) ==
    queue' = [c \in Clients |-> IF Subscribed(c) THEN Offer(queue[c], e) ELSE queue[c]]

-----------------------------------------------------------------------------
(* The database *)

\* The orders in which one transaction may notify of its incidents.
Orders(I) == {s \in [1..Cardinality(I) -> I] : Range(s) = I}

\* pg_notify hands the payloads over at commit, to sessions that LISTEN then.
Notify(s) == wire' = IF conn \in {"registering", "listening"} THEN wire \o s ELSE wire

Bump(T) ==
    /\ \A t \in T : committed[t] < MaxVersion
    /\ committed' = [t \in Topics |-> committed[t] + (IF t \in T THEN 1 ELSE 0)]

\* An ingestion transaction commits: A are the incidents it leaves active, C
\* those with a new snapshot.  It notifies of every active incident, then of
\* its source; the list shows active incidents only.
CommitIngestion(A, C) ==
    /\ Bump(C \cup {Source} \cup (IF C # {} \/ A # active THEN {List} ELSE {}))
    /\ active' = A
    /\ \E s \in Orders(A) : Notify(Append(s, Source))
    /\ UNCHANGED <<conn, stream, queue, browser, faults>>

\* A failed run records its failure and notifies of its source.
RecordFailure ==
    /\ Bump({Source})
    /\ Notify(<<Source>>)
    /\ UNCHANGED <<active, conn, stream, queue, browser, faults>>

\* Another session notifies the channel of something this API cannot decode.
NotifyGarbage ==
    /\ faults < MaxFaults
    /\ faults' = faults + 1
    /\ Notify(<<Garbage>>)
    /\ UNCHANGED <<database, conn, stream, queue, browser>>

-----------------------------------------------------------------------------
(* The relay task *)

\* The retry loop opens a connection.
Connect ==
    /\ conn = "down"
    /\ conn' = "connected"
    /\ UNCHANGED <<database, wire, stream, queue, browser, faults>>

\* PostgreSQL executes the LISTEN of add_listener.
Listen ==
    /\ conn = "connected"
    /\ conn' = "registering"
    /\ UNCHANGED <<database, wire, stream, queue, browser, faults>>

\* Faulty: the relay only starts to listen, and trusts the next events.
RegisterQuietly ==
    /\ conn = "registering"
    /\ conn' = "listening"
    /\ UNCHANGED <<database, wire, stream, queue, browser, faults>>

\* add_listener returns, the callback is registered and the marker published.
Register ==
    /\ conn = "registering"
    /\ conn' = "listening"
    /\ Publish(Resync)
    /\ UNCHANGED <<database, wire, stream, browser, faults>>

\* What decode_notification lets through.
Decodable(e) == e # Garbage

\* A notification arrives: published when decodable, dropped when not, and
\* lost when no callback is registered yet.
Receive ==
    /\ conn \in {"registering", "listening"}
    /\ wire # <<>>
    /\ wire' = Tail(wire)
    /\ IF conn = "listening" /\ Decodable(Head(wire))
         THEN Publish(Head(wire))
         ELSE UNCHANGED queue
    /\ UNCHANGED <<database, conn, stream, browser, faults>>

\* The connection closes and loses what was on the wire.
Break ==
    /\ conn \in {"connected", "registering", "listening"}
    /\ faults < MaxFaults
    /\ faults' = faults + 1
    /\ conn' = "broken"
    /\ wire' = <<>>
    /\ UNCHANGED <<database, stream, queue, browser>>

\* The poll (or the failing await) notices, cleans up and sleeps.
Cleanup ==
    /\ conn = "broken"
    /\ conn' = "down"
    /\ UNCHANGED <<database, wire, stream, queue, browser, faults>>

\* The API process restarts: relay, subscriptions and streams end with it.
Restart ==
    /\ faults < MaxFaults
    /\ faults' = faults + 1
    /\ conn' = "down"
    /\ wire' = <<>>
    /\ stream' = [c \in Clients |-> IF Subscribed(c) THEN "cut" ELSE stream[c]]
    /\ queue' = [c \in Clients |-> <<>>]
    /\ UNCHANGED <<database, browser>>

-----------------------------------------------------------------------------
(* The event stream and the browser *)

\* The browser asks for the stream; stream_events subscribes.
OpenStream(c) ==
    /\ stream[c] = "closed"
    /\ stream' = [stream EXCEPT ![c] = "opening"]
    /\ queue' = [queue EXCEPT ![c] = <<>>]
    /\ UNCHANGED <<database, conn, wire, browser, faults>>

\* Faulty: an opened stream is trusted to tell of every change.
HandleOpenTrusting(c) ==
    /\ stream[c] = "opening"
    /\ stream' = [stream EXCEPT ![c] = "open"]
    /\ UNCHANGED <<database, conn, wire, queue, browser, faults>>

\* What the browser asks for again on an event: an event of an incident also
\* stands for the list, a marker for everything.
Asks(e) ==
    CASE e = Resync -> Topics
      [] e \in Incidents -> {e, List}
      [] OTHER -> {e}

UnderWay(c, t) == fetch[c][t].state \in {"asked", "read"}

\* invalidateQueries cancels a query it finds under way and asks again, but
\* joins it when the query has no data yet; one off screen is not asked.
Joins(c, t) == UnderWay(c, t) /\ view[c][t] = NoData

AskAgain(c, T) ==
    /\ fetch' = [fetch EXCEPT ![c] = [t \in Topics |->
         IF t \in T /\ fetch[c][t] # Off /\ ~Joins(c, t) THEN Asked ELSE fetch[c][t]]]
    /\ joined' = [joined EXCEPT ![c] =
         (@ \ T) \cup {t \in T : Joins(c, t) /\ fetch[c][t] # Asked}]

\* handleOpen: every query of incidents and sources is repeated.
HandleOpen(c) ==
    /\ stream[c] = "opening"
    /\ stream' = [stream EXCEPT ![c] = "open"]
    /\ AskAgain(c, Topics)
    /\ UNCHANGED <<database, conn, wire, queue, view, choices, faults>>

\* Faulty: an event joins whatever query it finds under way.
HandleEventUnlessBusy(c) ==
    /\ stream[c] = "open"
    /\ queue[c] # <<>>
    /\ queue' = [queue EXCEPT ![c] = Tail(@)]
    /\ AskAgain(c, {t \in Asks(Head(queue[c])) : ~UnderWay(c, t)})
    /\ UNCHANGED <<database, conn, wire, stream, view, choices, faults>>

\* The stream yields an event: its queries are repeated.
HandleEvent(c) ==
    /\ stream[c] = "open"
    /\ queue[c] # <<>>
    /\ queue' = [queue EXCEPT ![c] = Tail(@)]
    /\ AskAgain(c, Asks(Head(queue[c])))
    /\ UNCHANGED <<database, conn, wire, stream, view, choices, faults>>

\* A stream is cut: the subscription ends, the browser has yet to notice.
CutStream(c) ==
    /\ Subscribed(c)
    /\ faults < MaxFaults
    /\ faults' = faults + 1
    /\ stream' = [stream EXCEPT ![c] = "cut"]
    /\ queue' = [queue EXCEPT ![c] = <<>>]
    /\ UNCHANGED <<database, conn, wire, browser>>

\* The EventSource notices and will reconnect.
NoticeCut(c) ==
    /\ stream[c] = "cut"
    /\ stream' = [stream EXCEPT ![c] = "closed"]
    /\ UNCHANGED <<database, conn, wire, queue, browser, faults>>

\* Once there is a list, an incident of it is put on screen, or none: I has at
\* most one member.  Queries that mount are asked for whatever they hold; those
\* that leave are aborted and keep what they hold.
Select(c, I) ==
    /\ view[c][List] # NoData
    /\ choices < MaxChoices
    /\ choices' = choices + 1
    /\ \A i, j \in I : i = j
    /\ \E i \in Incidents : (i \in I) # (fetch[c][i] # Off)
    /\ fetch' = [fetch EXCEPT ![c] = [t \in Topics |->
         IF t \notin Incidents \/ (t \in I /\ fetch[c][t] # Off) THEN fetch[c][t]
         ELSE IF t \in I THEN Asked ELSE Off]]
    /\ joined' = [joined EXCEPT ![c] = @ \ {t \in Incidents : fetch'[c][t] # fetch[c][t]}]
    /\ UNCHANGED <<database, conn, wire, stream, queue, view, faults>>

\* The API reads the committed version for a query.
Read(c, t) ==
    /\ fetch[c][t] = Asked
    /\ fetch' = [fetch EXCEPT ![c][t] = ReadAt(committed[t])]
    /\ UNCHANGED <<database, conn, wire, stream, queue, view, joined, choices, faults>>

\* The answer arrives and is shown.
Answer(c, t) ==
    /\ fetch[c][t].state = "read"
    /\ view' = [view EXCEPT ![c][t] = fetch[c][t].version]
    /\ fetch' = [fetch EXCEPT ![c][t] = Idle]
    /\ UNCHANGED <<database, conn, wire, stream, queue, joined, choices, faults>>

\* The request fails: no retry, the query is in error until asked again.
FailFetch(c, t) ==
    /\ UnderWay(c, t)
    /\ faults < MaxFaults
    /\ faults' = faults + 1
    /\ fetch' = [fetch EXCEPT ![c][t] = Failed]
    /\ UNCHANGED <<database, conn, wire, stream, queue, view, joined, choices>>

\* The operator presses the retry button of a query in error.
RetryFetch(c, t) ==
    /\ fetch[c][t] = Failed
    /\ t # Source
    /\ fetch' = [fetch EXCEPT ![c][t] = Asked]
    /\ joined' = [joined EXCEPT ![c] = @ \ {t}]
    /\ UNCHANGED <<database, conn, wire, stream, queue, view, choices, faults>>

-----------------------------------------------------------------------------
RelayStep == Connect \/ Listen \/ Register \/ Receive \/ Cleanup

StreamStep(c) == OpenStream(c) \/ HandleOpen(c) \/ HandleEvent(c) \/ NoticeCut(c)

QueryStep(c, t) == Read(c, t) \/ Answer(c, t)

Next ==
    \/ \E A \in SUBSET Incidents : \E C \in SUBSET A : CommitIngestion(A, C)
    \/ RecordFailure
    \/ NotifyGarbage
    \/ RelayStep
    \/ Break
    \/ Restart
    \/ \E c \in Clients :
         \/ StreamStep(c)
         \/ CutStream(c)
         \/ \E I \in SUBSET Incidents : Select(c, I)
         \/ \E t \in Topics : QueryStep(c, t) \/ FailFetch(c, t) \/ RetryFetch(c, t)

Spec == Init /\ [][Next]_vars

\* The relay task, the event streams and the queries keep going once
\* connections hold; nobody has to commit, to select an incident or to press a
\* button.
Fairness ==
    /\ WF_vars(RelayStep)
    /\ \A c \in Clients :
         /\ WF_vars(StreamStep(c))
         /\ \A t \in Topics : WF_vars(QueryStep(c, t))

FairSpec == Spec /\ Fairness

-----------------------------------------------------------------------------
(* Properties *)

\* Whether client c is still told of topic t: on reopening the stream, by the
\* marker of a new connection, or by what is on the channel or in its queue.
Told(c, t) ==
    \/ stream[c] # "open"
    \/ conn # "listening"
    \/ \E e \in Range(wire) \cup Range(queue[c]) : t \in Asks(e)

\* Whether client c still learns of topic t from something under way, or when
\* t comes back on screen.
Coming(c, t) == Told(c, t) \/ fetch[c][t] # Idle

\* What nobody tells a client of: that the list is empty.
Unannounced(t) == t = List /\ active = {}

Feed == INSTANCE ChangeFeed WITH
    shown <- view,
    owed <- [c \in Clients |-> {t \in Topics : Coming(c, t)}]

TypeOK ==
    /\ Feed!TypeOK
    /\ conn \in Phases
    /\ wire \in Seq(Payloads \cup {Garbage})
    /\ stream \in [Clients -> Streams]
    /\ queue \in [Clients -> Seq(Payloads \cup {Resync})]
    /\ fetch \in [Clients -> [Topics -> Fetches]]
    /\ joined \in [Clients -> SUBSET Topics]
    /\ choices \in 0..MaxChoices
    /\ faults \in 0..MaxFaults

\* A screen that lags behind the database has an event, a marker, a reopening
\* or a query of its own under way, whatever was lost on the channel, in a
\* full queue or with a stream.  The two exceptions are all there is: the list
\* when no incident is active any more, and a first answer that had been read
\* when the browser was told to ask again (the query is joined, not repeated).
NoSilentLag ==
    \A c \in Clients, t \in Topics :
        view[c][t] # committed[t] =>
            Coming(c, t) \/ Unannounced(t) \/ t \in joined[c]

\* The channel, the bus and the browser together implement the promise: only
\* an answer with the newest version ends the debt to a client, but for its
\* first answer and an empty list, and no answer takes a screen back.
ImplementsFeed == Feed!Spec

\* A queue never outgrows its size, and a marker is the last thing in it: what
\* the marker replaces is never queued behind it.
MarkerEndsQueue ==
    \A c \in Clients :
        /\ Len(queue[c]) <= QueueSize
        /\ \A i \in DOMAIN queue[c] : queue[c][i] = Resync => i = Len(queue[c])

\* Once connections hold and nobody commits any more (both are bounded), what is
\* on screen is the newest version, unless its query ended in an error or it is
\* one of the two exceptions of NoSilentLag.
EveryChangeShown ==
    <>[](\A c \in Clients, t \in Topics :
            \/ view[c][t] = committed[t]
            \/ fetch[c][t] \in {Failed, Off}
            \/ Unannounced(t)
            \/ t \in joined[c])

\* No query takes a screen back; and an answer under way that has been
\* overtaken does not stand for the change that overtook it: something else on
\* the channel, in the queue or at the stream still does (the refetch on an
\* event cancels the query it finds under way), but for the two exceptions.
OvertakenAnswersOwed ==
    \A c \in Clients, t \in Topics :
        /\ view[c][t] <= committed[t]
        /\ fetch[c][t].state = "read" =>
              /\ fetch[c][t].version \in view[c][t] .. committed[t]
              /\ fetch[c][t].version # committed[t] =>
                    \/ Told(c, t)
                    \/ Unannounced(t)
                    \/ t \in joined[c] /\ view[c][t] = NoData

\* Nothing is forgotten on the way, and queues stay bounded.
RelaySound == TypeOK /\ NoSilentLag /\ MarkerEndsQueue /\ OvertakenAnswersOwed
=============================================================================
