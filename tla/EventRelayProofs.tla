-------------------------- MODULE EventRelayProofs --------------------------
(***************************************************************************)
(* The event relay forgets no change and implements ChangeFeed, for every  *)
(* finite set of incidents, every set of clients, every size of the queues *)
(* and any number of commits and faults.                                   *)
(***************************************************************************)
EXTENDS EventRelay, SequenceTheorems, FiniteSetTheorems, TLAPS

-----------------------------------------------------------------------------
(* Sequences and the bus.                                                  *)

\* What a sequence holds after an element joined its end.
LEMMA RangeAppend ==
    ASSUME NEW S, NEW s \in Seq(S), NEW e \in S
    PROVE  /\ Append(s, e) \in Seq(S)
           /\ Range(Append(s, e)) = Range(s) \cup {e}
<1>1. /\ Append(s, e) \in Seq(S)
      /\ Len(Append(s, e)) = Len(s) + 1
      /\ \A i \in 1 .. Len(s) : Append(s, e)[i] = s[i]
      /\ Append(s, e)[Len(s) + 1] = e
  BY AppendProperties
<1>2. /\ Len(s) \in Nat
      /\ DOMAIN s = 1 .. Len(s)
      /\ DOMAIN Append(s, e) = 1 .. Len(s) + 1
  BY <1>1, LenProperties
<1>3. Range(Append(s, e)) = Range(s) \cup {e}
  BY <1>1, <1>2 DEF Range
<1>4. QED
  BY <1>1, <1>3

\* What a sequence holds after another was appended.
LEMMA RangeConcat ==
    ASSUME NEW S, NEW s \in Seq(S), NEW t \in Seq(S)
    PROVE  /\ s \o t \in Seq(S)
           /\ Range(s \o t) = Range(s) \cup Range(t)
<1>1. /\ s \o t \in Seq(S)
      /\ Len(s \o t) = Len(s) + Len(t)
      /\ \A i \in 1 .. Len(s) + Len(t) :
            (s \o t)[i] = IF i <= Len(s) THEN s[i] ELSE t[i - Len(s)]
  BY ConcatProperties
<1>2. /\ Len(s) \in Nat /\ Len(t) \in Nat
      /\ DOMAIN s = 1 .. Len(s)
      /\ DOMAIN t = 1 .. Len(t)
      /\ DOMAIN (s \o t) = 1 .. Len(s) + Len(t)
  BY <1>1, LenProperties
<1>3. ASSUME NEW x \in Range(s \o t) PROVE x \in Range(s) \cup Range(t)
  <2>1. PICK i \in 1 .. Len(s) + Len(t) : x = (s \o t)[i]
    BY <1>2 DEF Range
  <2>2. CASE i <= Len(s)
    BY <1>1, <1>2, <2>1, <2>2 DEF Range
  <2>3. CASE ~(i <= Len(s))
    <3>1. i - Len(s) \in 1 .. Len(t) /\ x = t[i - Len(s)]
      BY <1>1, <1>2, <2>1, <2>3
    <3>2. QED
      BY <1>2, <3>1 DEF Range
  <2>4. QED
    BY <2>2, <2>3
<1>4. ASSUME NEW x \in Range(s) PROVE x \in Range(s \o t)
  <2>1. PICK i \in 1 .. Len(s) : x = s[i]
    BY <1>2 DEF Range
  <2>2. i \in 1 .. Len(s) + Len(t) /\ x = (s \o t)[i]
    BY <1>1, <1>2, <2>1
  <2>3. QED
    BY <1>2, <2>2 DEF Range
<1>5. ASSUME NEW x \in Range(t) PROVE x \in Range(s \o t)
  <2>1. PICK i \in 1 .. Len(t) : x = t[i]
    BY <1>2 DEF Range
  <2>2. i + Len(s) \in 1 .. Len(s) + Len(t) /\ x = (s \o t)[i + Len(s)]
    BY <1>1, <1>2, <2>1
  <2>3. QED
    BY <1>2, <2>2 DEF Range
<1>6. QED
  BY <1>1, <1>3, <1>4, <1>5

\* Taking the first element loses nothing else.
LEMMA RangeTail ==
    ASSUME NEW S, NEW s \in Seq(S), s # <<>>
    PROVE  /\ Head(s) \in S
           /\ Tail(s) \in Seq(S)
           /\ Len(Tail(s)) = Len(s) - 1
           /\ \A i \in 1 .. Len(s) - 1 : Tail(s)[i] = s[i + 1]
           /\ Range(s) = {Head(s)} \cup Range(Tail(s))
<1>1. /\ Head(s) \in S
      /\ Tail(s) \in Seq(S)
      /\ Len(Tail(s)) = Len(s) - 1
      /\ \A i \in 1 .. Len(Tail(s)) : Tail(s)[i] = s[i + 1]
  BY HeadTailProperties
<1>2. /\ Len(s) \in Nat
      /\ DOMAIN s = 1 .. Len(s)
      /\ DOMAIN Tail(s) = 1 .. Len(s) - 1
  BY <1>1, LenProperties
<1>3. Len(s) >= 1 /\ Head(s) = s[1]
  BY <1>2, EmptySeq
<1>4. ASSUME NEW x \in Range(s) PROVE x \in {Head(s)} \cup Range(Tail(s))
  <2>1. PICK i \in 1 .. Len(s) : x = s[i]
    BY <1>2 DEF Range
  <2>2. CASE i = 1
    BY <1>3, <2>1, <2>2
  <2>3. CASE i # 1
    <3>1. i - 1 \in 1 .. Len(s) - 1 /\ Tail(s)[i - 1] = x
      BY <1>1, <1>2, <2>1, <2>3
    <3>2. QED
      BY <1>2, <3>1 DEF Range
  <2>4. QED
    BY <2>2, <2>3
<1>5. Head(s) \in Range(s)
  BY <1>2, <1>3 DEF Range
<1>6. ASSUME NEW x \in Range(Tail(s)) PROVE x \in Range(s)
  <2>1. PICK i \in 1 .. Len(s) - 1 : x = Tail(s)[i]
    BY <1>2 DEF Range
  <2>2. i + 1 \in 1 .. Len(s) /\ x = s[i + 1]
    BY <1>1, <1>2, <2>1
  <2>3. QED
    BY <1>2, <2>2 DEF Range
<1>7. QED
  BY <1>1, <1>4, <1>5, <1>6

\* What a queue that respects its limits is after an event was offered to it:
\* it respects them still, tells of the event, and of all it told of before.
LEMMA OfferProperties ==
    ASSUME NEW q \in Seq(Payloads \cup {Resync}), NEW e \in Payloads \cup {Resync},
           Len(q) <= QueueSize,
           \A i \in DOMAIN q : q[i] = Resync => i = Len(q)
    PROVE  /\ Offer(q, e) \in Seq(Payloads \cup {Resync})
           /\ Len(Offer(q, e)) <= QueueSize
           /\ \A i \in DOMAIN Offer(q, e) : Offer(q, e)[i] = Resync => i = Len(Offer(q, e))
           /\ {e, Resync} \cap Range(Offer(q, e)) # {}
           /\ \A t : {t, Resync} \cap Range(q) # {} => {t, Resync} \cap Range(Offer(q, e)) # {}
<1>1. QueueSize \in Nat \ {0}
  BY RelayAssumption
<1>2. CASE Resync \in Range(q)
  BY <1>2 DEF Offer
<1>3. CASE Resync \notin Range(q) /\ Len(q) < QueueSize
  <2>1. Offer(q, e) = Append(q, e)
    BY <1>3 DEF Offer
  <2>2. /\ Append(q, e) \in Seq(Payloads \cup {Resync})
        /\ Len(Append(q, e)) = Len(q) + 1
        /\ \A i \in 1 .. Len(q) : Append(q, e)[i] = q[i]
    BY AppendProperties
  <2>3. /\ Len(q) \in Nat
        /\ DOMAIN q = 1 .. Len(q)
        /\ DOMAIN Append(q, e) = 1 .. Len(q) + 1
    BY <2>2, LenProperties
  <2>4. Range(Append(q, e)) = Range(q) \cup {e}
    BY RangeAppend
  <2>5. \A i \in 1 .. Len(q) : q[i] # Resync
    BY <1>3, <2>3 DEF Range
  <2>6. QED
    BY <1>1, <1>3, <2>1, <2>2, <2>3, <2>4, <2>5
<1>4. CASE Resync \notin Range(q) /\ ~(Len(q) < QueueSize)
  <2>1. Offer(q, e) = <<Resync>>
    BY <1>4 DEF Offer
  <2>2. /\ <<Resync>> \in Seq(Payloads \cup {Resync})
        /\ Len(<<Resync>>) = 1
        /\ DOMAIN <<Resync>> = 1 .. 1
        /\ <<Resync>>[1] = Resync
    OBVIOUS
  <2>3. Range(<<Resync>>) = {Resync}
    BY <2>2 DEF Range
  <2>4. QED
    BY <1>1, <2>1, <2>2, <2>3
<1>5. QED
  BY <1>2, <1>3, <1>4

\* What the browser asks for again on an event.
LEMMA AsksIs ==
    /\ Asks(Resync) = Topics
    /\ \A e \in Incidents : Asks(e) = {e, List}
    /\ Asks(Source) = {Source} /\ Asks(Garbage) = {Garbage}
    /\ \A e \in Payloads \cup {Resync} : Asks(e) \subseteq Topics
<1>1. /\ Resync \notin Incidents /\ Source \notin Incidents /\ Source # Resync
      /\ Garbage \notin Incidents /\ Garbage # Resync
  <2>1. Resync # Garbage
    BY DEF Resync, Garbage
  <2>2. QED
    BY <2>1, RelayAssumption DEF Topics
<1>2. Asks(Resync) = Topics
  BY <1>1 DEF Asks
<1>3. \A e \in Incidents : Asks(e) = {e, List}
  BY <1>1 DEF Asks
<1>4. Asks(Source) = {Source} /\ Asks(Garbage) = {Garbage}
  BY <1>1 DEF Asks
<1>5. QED
  BY <1>2, <1>3, <1>4 DEF Payloads, Topics

-----------------------------------------------------------------------------
(* The invariant.                                                          *)

\* RelaySound without the mapping to ChangeFeed.
Types ==
    /\ committed \in [Topics -> Versions]
    /\ active \subseteq Incidents
    /\ view \in [Clients -> [Topics -> Versions \cup {NoData}]]
    /\ conn \in Phases
    /\ wire \in Seq(Payloads \cup {Garbage})
    /\ stream \in [Clients -> Streams]
    /\ queue \in [Clients -> Seq(Payloads \cup {Resync})]
    /\ fetch \in [Clients -> [Topics -> Fetches]]
    /\ joined \in [Clients -> SUBSET Topics]
    /\ choices \in 0..MaxChoices
    /\ faults \in 0..MaxFaults

\* The mapping adds nothing to the types.
LEMMA Unmapped == (TypeOK <=> Types) /\ (TypeOK' <=> Types')
BY DEF TypeOK, Types, Feed!TypeOK, Feed!Topics, Feed!Versions, Feed!NoData, Topics, Versions,
       NoData

\* Nothing is known and everything on screen is asked for.
LEMMA InitSound == Init => RelaySound
<1> SUFFICES ASSUME Init PROVE RelaySound
  OBVIOUS
<1> USE RelayAssumption DEF Init
<1>1. PICK shows \in [Clients -> Screens] :
         fetch = [c \in Clients |-> [t \in Topics |-> IF t \in shows[c] THEN Asked ELSE Off]]
  OBVIOUS
<1>2. Asked \in Fetches /\ Off \in Fetches /\ Asked # Idle /\ Off # Idle
      /\ Asked.state # "read" /\ Off.state # "read"
  BY DEF Fetches, Asked, Off, Idle
<1>3. \A c \in Clients, t \in Topics : fetch[c][t] \in {Asked, Off}
  BY <1>1
<1>4. Types
  <2>1. 1 \in Versions /\ "down" \in Phases /\ "closed" \in Streams
    BY DEF Versions, Phases, Streams
  <2>2. <<>> \in Seq(Payloads \cup {Garbage}) /\ <<>> \in Seq(Payloads \cup {Resync})
    OBVIOUS
  <2>3. fetch \in [Clients -> [Topics -> Fetches]]
    BY <1>1, <1>2
  <2>4. view \in [Clients -> [Topics -> Versions \cup {NoData}]]
    OBVIOUS
  <2>5. QED
    BY <2>1, <2>2, <2>3, <2>4 DEF Types
<1>5. NoSilentLag
  BY <1>2, <1>3 DEF NoSilentLag, Coming
<1>6. MarkerEndsQueue
  BY DEF MarkerEndsQueue
<1>7. OvertakenAnswersOwed
  BY <1>2, <1>3 DEF OvertakenAnswersOwed, NoData
<1>8. QED
  BY <1>4, <1>5, <1>6, <1>7, Unmapped DEF RelaySound

\* The queries of a client go on as they were, but for those that are asked,
\* left, answered for the moment or failed, and first answers that are joined.
FetchGoesOn(d, t) ==
    \/ fetch'[d][t] \in {Off, Asked, Failed, ReadAt(committed[t])}
    \/ /\ fetch'[d][t] = fetch[d][t]
       /\ Told(d, t) => Told(d, t)'
       /\ t \in joined[d] => t \in joined'[d]
    \/ fetch'[d][t] = fetch[d][t] /\ UnderWay(d, t) /\ t \in joined'[d] /\ view[d][t] = NoData

QueriesGoOn == \A d \in Clients, t \in Topics : FetchGoesOn(d, t)

StillComing == \A d \in Clients, t \in Topics : Coming(d, t) => Coming(d, t)'

\* A step in which the queries go on, and neither the database nor a screen
\* changes, keeps the invariant and the debt to each client.
LEMMA ScreenStep ==
    ASSUME RelaySound, Types', MarkerEndsQueue', UNCHANGED <<database, view>>, QueriesGoOn
    PROVE  RelaySound' /\ StillComing
<1>1. Types /\ NoSilentLag /\ OvertakenAnswersOwed
  BY Unmapped DEF RelaySound
<1>2. UNCHANGED <<committed, active, view>>
  BY DEF database
<1>3. /\ Off # Idle /\ Asked # Idle /\ Failed # Idle /\ \A v : ReadAt(v) # Idle
      /\ Off.state # "read" /\ Asked.state # "read" /\ Failed.state # "read"
      /\ \A v : ReadAt(v).version = v
      /\ Idle.state \notin {"asked", "read"}
  BY DEF Off, Asked, Failed, Idle, ReadAt
<1>4. ASSUME NEW d \in Clients, NEW t \in Topics
      PROVE  Coming(d, t) => Coming(d, t)'
  BY <1>3 DEF QueriesGoOn, FetchGoesOn, Coming, UnderWay
<1>5. ASSUME NEW d \in Clients, NEW t \in Topics, view'[d][t] # committed'[t]
      PROVE  Coming(d, t)' \/ Unannounced(t)' \/ t \in joined'[d]
  <2>1. Coming(d, t) \/ Unannounced(t) \/ t \in joined[d]
    BY <1>1, <1>2, <1>5 DEF NoSilentLag
  <2>2. Unannounced(t) => Unannounced(t)'
    BY <1>2 DEF Unannounced
  <2>3. t \in joined[d] => Coming(d, t)' \/ t \in joined'[d]
    BY <1>3 DEF QueriesGoOn, FetchGoesOn, Coming
  <2>4. QED
    BY <1>4, <2>1, <2>2, <2>3
<1>6. ASSUME NEW d \in Clients, NEW t \in Topics
      PROVE  /\ view'[d][t] <= committed'[t]
             /\ fetch'[d][t].state = "read" =>
                  /\ fetch'[d][t].version \in view'[d][t] .. committed'[t]
                  /\ fetch'[d][t].version # committed'[t] =>
                        \/ Told(d, t)'
                        \/ Unannounced(t)'
                        \/ t \in joined'[d] /\ view'[d][t] = NoData
  <2>1. /\ view[d][t] <= committed[t]
        /\ fetch[d][t].state = "read" =>
              /\ fetch[d][t].version \in view[d][t] .. committed[t]
              /\ fetch[d][t].version # committed[t] =>
                    Told(d, t) \/ Unannounced(t) \/ (t \in joined[d] /\ view[d][t] = NoData)
    BY <1>1 DEF OvertakenAnswersOwed
  <2>2. Unannounced(t) => Unannounced(t)'
    BY <1>2 DEF Unannounced
  <2>3. committed[t] \in Nat /\ view[d][t] \in Nat
    BY <1>1, RelayAssumption DEF Types, Versions, NoData
  <2>4. CASE fetch'[d][t] \in {Off, Asked, Failed, ReadAt(committed[t])}
    BY <1>2, <1>3, <2>1, <2>3, <2>4
  <2>5. CASE fetch'[d][t] = fetch[d][t]
    BY <1>2, <1>3, <2>1, <2>2, <2>5 DEF QueriesGoOn, FetchGoesOn
  <2>6. QED
    BY <2>4, <2>5 DEF QueriesGoOn, FetchGoesOn
<1>7. NoSilentLag' /\ OvertakenAnswersOwed'
  BY <1>5, <1>6 DEF NoSilentLag, OvertakenAnswersOwed
<1>8. QED
  BY <1>4, <1>7, Unmapped DEF RelaySound, StillComing

StillTold == \A c \in Clients, t \in Topics : Told(c, t) => Told(c, t)'

\* A step that moves the relay or the streams, and neither the database nor a
\* browser, does so when whoever was told of a topic still is.
LEMMA HintStep ==
    ASSUME RelaySound, Types', MarkerEndsQueue', UNCHANGED <<database, browser>>, StillTold
    PROVE  RelaySound' /\ StillComing
<1>1. UNCHANGED <<database, view>> /\ UNCHANGED <<fetch, joined>>
  BY DEF browser
<1>2. QueriesGoOn
  BY <1>1 DEF QueriesGoOn, FetchGoesOn, StillTold
<1>3. QED
  BY <1>1, <1>2, ScreenStep

\* An event published to whoever is subscribed: queues keep their limits, each
\* subscriber is told of the event, and of all it was told of before.
LEMMA PublishProperties ==
    ASSUME Types, MarkerEndsQueue, NEW e \in Payloads \cup {Resync}, Publish(e)
    PROVE  /\ queue' \in [Clients -> Seq(Payloads \cup {Resync})]
           /\ MarkerEndsQueue'
           /\ \A c \in Clients :
                 /\ Subscribed(c) => {e, Resync} \cap Range(queue'[c]) # {}
                 /\ \A x : {x, Resync} \cap Range(queue[c]) # {}
                              => {x, Resync} \cap Range(queue'[c]) # {}
<1>1. ASSUME NEW c \in Clients
      PROVE  /\ queue[c] \in Seq(Payloads \cup {Resync})
             /\ Len(queue[c]) <= QueueSize
             /\ \A i \in DOMAIN queue[c] : queue[c][i] = Resync => i = Len(queue[c])
             /\ queue'[c] = IF Subscribed(c) THEN Offer(queue[c], e) ELSE queue[c]
  BY DEF Types, MarkerEndsQueue, Publish
<1>2. ASSUME NEW c \in Clients
      PROVE  /\ queue'[c] \in Seq(Payloads \cup {Resync})
             /\ Len(queue'[c]) <= QueueSize
             /\ \A i \in DOMAIN queue'[c] : queue'[c][i] = Resync => i = Len(queue'[c])
             /\ Subscribed(c) => {e, Resync} \cap Range(queue'[c]) # {}
             /\ \A x : {x, Resync} \cap Range(queue[c]) # {}
                          => {x, Resync} \cap Range(queue'[c]) # {}
  <2>1. CASE Subscribed(c)
    <3>1. /\ Offer(queue[c], e) \in Seq(Payloads \cup {Resync})
          /\ Len(Offer(queue[c], e)) <= QueueSize
          /\ \A i \in DOMAIN Offer(queue[c], e) :
                Offer(queue[c], e)[i] = Resync => i = Len(Offer(queue[c], e))
          /\ {e, Resync} \cap Range(Offer(queue[c], e)) # {}
          /\ \A x : {x, Resync} \cap Range(queue[c]) # {}
                       => {x, Resync} \cap Range(Offer(queue[c], e)) # {}
      BY <1>1, OfferProperties
    <3>2. queue'[c] = Offer(queue[c], e)
      BY <1>1, <2>1
    <3>3. QED
      BY <3>1, <3>2
  <2>2. CASE ~Subscribed(c)
    BY <1>1, <2>2
  <2>3. QED
    BY <2>1, <2>2
<1>3. queue' = [c \in Clients |-> queue'[c]]
  BY DEF Publish
<1>4. queue' \in [Clients -> Seq(Payloads \cup {Resync})]
  BY <1>2, <1>3
<1>5. MarkerEndsQueue'
  BY <1>2 DEF MarkerEndsQueue
<1>6. QED
  BY <1>2, <1>4, <1>5

\* What a queue told of before, it still tells of when each of its events is
\* in it or has been replaced by a marker.
LEMMA MarkerTells ==
    ASSUME NEW q, NEW r, NEW t \in Topics,
           \A x : {x, Resync} \cap Range(q) # {} => {x, Resync} \cap Range(r) # {},
           \E e \in Range(q) : t \in Asks(e)
    PROVE  \E e \in Range(r) : t \in Asks(e)
<1>1. PICK e \in Range(q) : t \in Asks(e)
  OBVIOUS
<1>2. e \in Range(r) \/ Resync \in Range(r)
  OBVIOUS
<1>3. QED
  BY <1>1, <1>2, AsksIs

\* A listener that registers again tells every subscriber to resynchronise.
LEMMA RegisterSound == ASSUME RelaySound, Register PROVE RelaySound' /\ StillComing
<1>1. Types /\ MarkerEndsQueue
  BY Unmapped DEF RelaySound
<1>2. Resync \in Payloads \cup {Resync} /\ Publish(Resync)
  BY DEF Register
<1>3. /\ queue' \in [Clients -> Seq(Payloads \cup {Resync})]
      /\ MarkerEndsQueue'
      /\ \A c \in Clients :
            /\ Subscribed(c) => {Resync} \cap Range(queue'[c]) # {}
            /\ \A x : {x, Resync} \cap Range(queue[c]) # {}
                         => {x, Resync} \cap Range(queue'[c]) # {}
  BY <1>1, <1>2, PublishProperties
<1>4. Types'
  BY <1>1, <1>3 DEF Types, Register, Phases, database, browser
<1>5. StillTold
  <2>1. ASSUME NEW c \in Clients, NEW t \in Topics, stream'[c] = "open"
        PROVE  \E e \in Range(queue'[c]) : t \in Asks(e)
    BY <1>3, <2>1, AsksIs DEF Register, Subscribed
  <2>2. QED
    BY <2>1 DEF StillTold, Told
<1>6. UNCHANGED <<database, browser>>
  BY DEF Register
<1>7. QED
  BY <1>3, <1>4, <1>5, <1>6, HintStep

\* A payload that leaves the wire is in the queues, or was undecodable.
LEMMA ReceiveSound == ASSUME RelaySound, Receive PROVE RelaySound' /\ StillComing
<1>1. Types /\ MarkerEndsQueue
  BY Unmapped DEF RelaySound
<1>2. /\ wire \in Seq(Payloads \cup {Garbage})
      /\ wire # <<>>
      /\ wire' = Tail(wire)
      /\ UNCHANGED <<database, browser>> /\ UNCHANGED <<conn, stream, faults>>
  BY <1>1 DEF Types, Receive
<1>3. /\ Head(wire) \in Payloads \cup {Garbage}
      /\ wire' \in Seq(Payloads \cup {Garbage})
      /\ Range(wire) = {Head(wire)} \cup Range(wire')
  BY <1>2, RangeTail
<1>4. CASE conn = "listening" /\ Decodable(Head(wire))
  <2>1. Head(wire) \in Payloads /\ Publish(Head(wire))
    BY <1>3, <1>4 DEF Receive, Decodable
  <2>2. /\ queue' \in [Clients -> Seq(Payloads \cup {Resync})]
        /\ MarkerEndsQueue'
        /\ \A c \in Clients :
              /\ Subscribed(c) => {Head(wire), Resync} \cap Range(queue'[c]) # {}
              /\ \A x : {x, Resync} \cap Range(queue[c]) # {}
                           => {x, Resync} \cap Range(queue'[c]) # {}
    BY <1>1, <2>1, PublishProperties
  <2>3. Types'
    BY <1>1, <1>2, <1>3, <2>2 DEF Types, database, browser
  <2>4. ASSUME NEW c \in Clients, NEW t \in Topics, stream'[c] = "open",
               NEW e \in Range(wire) \cup Range(queue[c]), t \in Asks(e)
        PROVE  \E x \in Range(wire') \cup Range(queue'[c]) : t \in Asks(x)
    <3>1. CASE e \in Range(wire')
      BY <2>4, <3>1
    <3>2. CASE e = Head(wire)
      <4>1. e \in Range(queue'[c]) \/ Resync \in Range(queue'[c])
        BY <1>2, <2>2, <2>4, <3>2 DEF Subscribed
      <4>2. QED
        BY <2>4, <4>1, AsksIs
    <3>3. CASE e \in Range(queue[c])
      <4>1. \E x \in Range(queue'[c]) : t \in Asks(x)
        BY <2>2, <2>4, <3>3, MarkerTells
      <4>2. QED
        BY <4>1
    <3>4. QED
      BY <1>3, <3>1, <3>2, <3>3
  <2>5. StillTold
    BY <1>2, <2>4 DEF StillTold, Told
  <2>6. QED
    BY <1>2, <2>2, <2>3, <2>5, HintStep
<1>5. CASE ~(conn = "listening" /\ Decodable(Head(wire)))
  <2>1. queue' = queue
    BY <1>5 DEF Receive
  <2>2. Types' /\ MarkerEndsQueue'
    BY <1>1, <1>2, <1>3, <2>1 DEF Types, MarkerEndsQueue, database, browser
  <2>3. \A t \in Topics : conn = "listening" => t \notin Asks(Head(wire))
    BY <1>5, AsksIs, RelayAssumption DEF Decodable
  <2>4. StillTold
    BY <1>2, <1>3, <2>1, <2>3 DEF StillTold, Told
  <2>5. QED
    BY <1>2, <2>2, <2>4, HintStep
<1>6. QED
  BY <1>4, <1>5

\* The steps of the connection, and the streams that end or begin.
LEMMA ConnectionSound ==
    ASSUME RelaySound, Connect \/ Listen \/ Break \/ Cleanup \/ Restart
    PROVE  RelaySound' /\ StillComing
<1>1. Types /\ MarkerEndsQueue
  BY Unmapped DEF RelaySound
<1>2. <<>> \in Seq(Payloads \cup {Garbage}) /\ <<>> \in Seq(Payloads \cup {Resync})
  OBVIOUS
<1>3. MaxFaults \in Nat
  BY RelayAssumption
<1>4. Types'
  <2>1. CASE Connect \/ Listen \/ Cleanup
    BY <1>1, <2>1 DEF Types, Connect, Listen, Cleanup, Phases, database, browser
  <2>2. CASE Break
    BY <1>1, <1>2, <1>3, <2>2 DEF Types, Break, Phases, database, browser
  <2>3. CASE Restart
    BY <1>1, <1>2, <1>3, <2>3 DEF Types, Restart, Phases, Streams, database, browser
  <2>4. QED
    BY <2>1, <2>2, <2>3
<1>5. MarkerEndsQueue'
  <2>1. CASE Restart
    BY <2>1, RelayAssumption DEF MarkerEndsQueue, Restart
  <2>2. CASE Connect \/ Listen \/ Break \/ Cleanup
    BY <1>1, <2>2 DEF MarkerEndsQueue, Connect, Listen, Break, Cleanup
  <2>3. QED
    BY <2>1, <2>2
<1>6. conn' # "listening"
  BY DEF Connect, Listen, Break, Cleanup, Restart
<1>7. StillTold
  BY <1>6 DEF StillTold, Told
<1>8. UNCHANGED <<database, browser>>
  BY DEF Connect, Listen, Break, Cleanup, Restart
<1>9. QED
  BY <1>4, <1>5, <1>7, <1>8, HintStep

\* A stream that opens or breaks makes the browser refetch everything.
LEMMA StreamSound ==
    ASSUME RelaySound, NEW c \in Clients, OpenStream(c) \/ NoticeCut(c) \/ CutStream(c)
    PROVE  RelaySound' /\ StillComing
<1>1. Types /\ MarkerEndsQueue
  BY Unmapped DEF RelaySound
<1>2. <<>> \in Seq(Payloads \cup {Resync})
  OBVIOUS
<1>3. Types'
  <2>1. CASE OpenStream(c)
    BY <1>1, <1>2, <2>1 DEF Types, OpenStream, Streams, database, browser
  <2>2. CASE NoticeCut(c)
    BY <1>1, <2>2 DEF Types, NoticeCut, Streams, database, browser
  <2>3. CASE CutStream(c)
    BY <1>1, <1>2, <2>3, RelayAssumption DEF Types, CutStream, Streams, database, browser
  <2>4. QED
    BY <2>1, <2>2, <2>3
<1>4. \A d \in Clients : queue'[d] = queue[d] \/ queue'[d] = <<>>
  BY <1>1 DEF Types, OpenStream, NoticeCut, CutStream
<1>5. MarkerEndsQueue'
  BY <1>1, <1>4, RelayAssumption DEF MarkerEndsQueue
<1>6. /\ stream'[c] # "open"
      /\ \A d \in Clients \ {c} : stream'[d] = stream[d] /\ queue'[d] = queue[d]
      /\ UNCHANGED <<database, browser>> /\ UNCHANGED <<conn, wire>>
  BY <1>1 DEF Types, OpenStream, NoticeCut, CutStream
<1>7. StillTold
  BY <1>6 DEF StillTold, Told
<1>8. QED
  BY <1>3, <1>5, <1>6, <1>7, HintStep

\* What is asked for again: on screen and not joined, it is asked; a first
\* answer that had been read is remembered as joined.
LEMMA AskAgainProperties ==
    ASSUME Types, NEW c \in Clients, NEW T \in SUBSET Topics, AskAgain(c, T)
    PROVE  /\ fetch' \in [Clients -> [Topics -> Fetches]]
           /\ joined' \in [Clients -> SUBSET Topics]
           /\ \A d \in Clients \ {c} : fetch'[d] = fetch[d] /\ joined'[d] = joined[d]
           /\ \A t \in T : \/ fetch'[c][t] \in {Off, Asked}
                           \/ /\ fetch'[c][t] = fetch[c][t] /\ UnderWay(c, t)
                              /\ t \in joined'[c] /\ view[c][t] = NoData
           /\ \A t \in Topics \ T : /\ fetch'[c][t] = fetch[c][t]
                                    /\ t \in joined[c] => t \in joined'[c]
<1>1. PICK f : f = [t \in Topics |->
               IF t \in T /\ fetch[c][t] # Off /\ ~Joins(c, t) THEN Asked ELSE fetch[c][t]]
  OBVIOUS
<1>2. PICK J : J = (joined[c] \ T) \cup {t \in T : Joins(c, t) /\ fetch[c][t] # Asked}
  OBVIOUS
<1>3. /\ fetch \in [Clients -> [Topics -> Fetches]] /\ fetch[c] \in [Topics -> Fetches]
      /\ joined \in [Clients -> SUBSET Topics] /\ joined[c] \in SUBSET Topics
      /\ Asked \in Fetches
  BY DEF Types, Fetches
<1>4. fetch' = [fetch EXCEPT ![c] = f] /\ joined' = [joined EXCEPT ![c] = J]
  BY <1>1, <1>2, <1>3 DEF AskAgain
<1>5. f \in [Topics -> Fetches] /\ J \in SUBSET Topics
  BY <1>1, <1>2, <1>3
<1>6. /\ fetch' \in [Clients -> [Topics -> Fetches]] /\ joined' \in [Clients -> SUBSET Topics]
      /\ fetch'[c] = f /\ joined'[c] = J
      /\ \A d \in Clients \ {c} : fetch'[d] = fetch[d] /\ joined'[d] = joined[d]
  BY <1>3, <1>4, <1>5
<1>7. ASSUME NEW t \in T
      PROVE  \/ fetch'[c][t] \in {Off, Asked}
             \/ /\ fetch'[c][t] = fetch[c][t] /\ UnderWay(c, t)
                /\ t \in joined'[c] /\ view[c][t] = NoData
  <2>1. fetch'[c][t] = IF fetch[c][t] # Off /\ ~Joins(c, t) THEN Asked ELSE fetch[c][t]
    BY <1>1, <1>6
  <2>2. Joins(c, t) /\ fetch[c][t] # Asked => t \in joined'[c]
    BY <1>2, <1>6
  <2>3. QED
    BY <2>1, <2>2 DEF Joins
<1>8. ASSUME NEW t \in Topics \ T
      PROVE  fetch'[c][t] = fetch[c][t] /\ (t \in joined[c] => t \in joined'[c])
  BY <1>1, <1>2, <1>6
<1>9. QED
  BY <1>6, <1>7, <1>8

\* Opening a stream asks for everything on screen.
LEMMA HandleOpenSound ==
    ASSUME RelaySound, NEW c \in Clients, HandleOpen(c)
    PROVE  RelaySound' /\ StillComing
<1>1. Types /\ MarkerEndsQueue
  BY Unmapped DEF RelaySound
<1>2. AskAgain(c, Topics) /\ UNCHANGED <<database, view>>
      /\ UNCHANGED <<conn, wire, queue, choices, faults>>
  BY DEF HandleOpen
<1>3. Topics \in SUBSET Topics
  OBVIOUS
<1>4. /\ fetch' \in [Clients -> [Topics -> Fetches]] /\ joined' \in [Clients -> SUBSET Topics]
      /\ \A d \in Clients \ {c} : fetch'[d] = fetch[d] /\ joined'[d] = joined[d]
      /\ \A t \in Topics : \/ fetch'[c][t] \in {Off, Asked}
                           \/ /\ fetch'[c][t] = fetch[c][t] /\ UnderWay(c, t)
                              /\ t \in joined'[c] /\ view[c][t] = NoData
  BY <1>1, <1>2, <1>3, AskAgainProperties
<1>5. Types'
  BY <1>1, <1>2, <1>4 DEF Types, HandleOpen, Streams, database
<1>6. MarkerEndsQueue'
  BY <1>1, <1>2 DEF MarkerEndsQueue
<1>7. \A d \in Clients \ {c} : stream'[d] = stream[d]
  BY <1>1 DEF HandleOpen, Types
<1>8. \A d \in Clients \ {c}, t \in Topics : Told(d, t) => Told(d, t)'
  BY <1>2, <1>7 DEF Told
<1>9. QueriesGoOn
  BY <1>4, <1>8 DEF QueriesGoOn, FetchGoesOn
<1>10. QED
  BY <1>2, <1>5, <1>6, <1>9, ScreenStep

\* An event taken from the queue becomes queries asked anew.
LEMMA HandleEventSound ==
    ASSUME RelaySound, NEW c \in Clients, HandleEvent(c)
    PROVE  RelaySound' /\ StillComing
<1>1. Types /\ MarkerEndsQueue
  BY Unmapped DEF RelaySound
<1>2. PICK T : T = Asks(Head(queue[c]))
  OBVIOUS
<1>3. /\ queue[c] \in Seq(Payloads \cup {Resync})
      /\ queue[c] # <<>>
      /\ queue'[c] = Tail(queue[c])
      /\ \A d \in Clients \ {c} : queue'[d] = queue[d]
      /\ AskAgain(c, T)
      /\ UNCHANGED <<database, view>> /\ UNCHANGED <<conn, wire, stream, choices, faults>>
  BY <1>1, <1>2 DEF Types, HandleEvent
<1>4. /\ queue'[c] \in Seq(Payloads \cup {Resync})
      /\ Head(queue[c]) \in Payloads \cup {Resync}
      /\ Len(queue'[c]) = Len(queue[c]) - 1
      /\ \A i \in 1 .. Len(queue[c]) - 1 : queue'[c][i] = queue[c][i + 1]
      /\ Range(queue[c]) = {Head(queue[c])} \cup Range(queue'[c])
  BY <1>3, RangeTail
<1>5. T \in SUBSET Topics
  BY <1>2, <1>4, AsksIs
<1>6. /\ fetch' \in [Clients -> [Topics -> Fetches]] /\ joined' \in [Clients -> SUBSET Topics]
      /\ \A d \in Clients \ {c} : fetch'[d] = fetch[d] /\ joined'[d] = joined[d]
      /\ \A t \in T : \/ fetch'[c][t] \in {Off, Asked}
                      \/ /\ fetch'[c][t] = fetch[c][t] /\ UnderWay(c, t)
                         /\ t \in joined'[c] /\ view[c][t] = NoData
      /\ \A t \in Topics \ T : /\ fetch'[c][t] = fetch[c][t]
                               /\ t \in joined[c] => t \in joined'[c]
  BY <1>1, <1>3, <1>5, AskAgainProperties
<1>7. Types'
  <2>1. queue' \in [Clients -> Seq(Payloads \cup {Resync})]
    BY <1>1, <1>4 DEF Types, HandleEvent
  <2>2. QED
    BY <1>1, <1>3, <1>6, <2>1 DEF Types, database
<1>8. MarkerEndsQueue'
  <2>1. /\ Len(queue[c]) \in Nat /\ Len(queue[c]) <= QueueSize
        /\ DOMAIN queue[c] = 1 .. Len(queue[c])
        /\ DOMAIN queue'[c] = 1 .. Len(queue[c]) - 1
        /\ \A i \in 1 .. Len(queue[c]) : queue[c][i] = Resync => i = Len(queue[c])
    BY <1>1, <1>3, <1>4, LenProperties DEF MarkerEndsQueue
  <2>2. Len(queue'[c]) <= QueueSize
    BY <1>4, <2>1, RelayAssumption
  <2>3. ASSUME NEW i \in 1 .. Len(queue[c]) - 1, queue'[c][i] = Resync
        PROVE  i = Len(queue'[c])
    <3>1. i + 1 \in 1 .. Len(queue[c]) /\ queue[c][i + 1] = Resync
      BY <1>4, <2>1, <2>3
    <3>2. QED
      BY <1>4, <2>1, <3>1
  <2>4. QED
    BY <1>1, <1>3, <2>1, <2>2, <2>3 DEF MarkerEndsQueue
<1>9. ASSUME NEW d \in Clients, NEW t \in Topics, d # c \/ t \notin T
      PROVE  Told(d, t) => Told(d, t)'
  <2>1. CASE d = c
    BY <1>2, <1>3, <1>4, <1>9, <2>1 DEF Told
  <2>2. CASE d # c
    BY <1>3, <2>2 DEF Told
  <2>3. QED
    BY <2>1, <2>2
<1>10. ASSUME NEW d \in Clients, NEW t \in Topics PROVE FetchGoesOn(d, t)
  BY <1>6, <1>9 DEF FetchGoesOn
<1>11. QED
  BY <1>3, <1>7, <1>8, <1>10, ScreenStep DEF QueriesGoOn

\* A query is read, fails or is asked again: only its own topic is concerned.
LEMMA QuerySound ==
    ASSUME RelaySound, NEW c \in Clients, NEW t \in Topics,
           Read(c, t) \/ FailFetch(c, t) \/ RetryFetch(c, t)
    PROVE  RelaySound' /\ StillComing
<1>1. Types /\ MarkerEndsQueue
  BY Unmapped DEF RelaySound
<1>2. committed[t] \in Versions /\ MaxFaults \in Nat
  BY <1>1, RelayAssumption DEF Types
<1>3. PICK f \in {ReadAt(committed[t]), Failed, Asked} :
         /\ fetch' = [fetch EXCEPT ![c][t] = f]
         /\ joined' \in {joined, [joined EXCEPT ![c] = @ \ {t}]}
         /\ UNCHANGED <<database, view>> /\ UNCHANGED <<conn, wire, stream, queue, choices>>
  BY DEF Read, FailFetch, RetryFetch
<1>4. f \in Fetches
  BY <1>2 DEF Fetches
<1>5. Types'
  <2>1. fetch' \in [Clients -> [Topics -> Fetches]]
    BY <1>1, <1>3, <1>4 DEF Types
  <2>2. joined' \in [Clients -> SUBSET Topics]
    BY <1>1, <1>3 DEF Types
  <2>3. faults' \in 0..MaxFaults
    BY <1>1, <1>2 DEF Types, Read, FailFetch, RetryFetch
  <2>4. QED
    BY <1>1, <1>3, <2>1, <2>2, <2>3 DEF Types, database
<1>6. MarkerEndsQueue'
  BY <1>1, <1>3 DEF MarkerEndsQueue
<1>7. ASSUME NEW d \in Clients, NEW u \in Topics
      PROVE  FetchGoesOn(d, u)
  <2>1. Told(d, u) => Told(d, u)'
    BY <1>3 DEF Told
  <2>2. fetch'[d][u] = IF d = c /\ u = t THEN f ELSE fetch[d][u]
    BY <1>1, <1>3 DEF Types
  <2>3. ~(d = c /\ u = t) /\ u \in joined[d] => u \in joined'[d]
    BY <1>1, <1>3 DEF Types
  <2>4. QED
    BY <1>3, <2>1, <2>2, <2>3 DEF FetchGoesOn
<1>8. QED
  BY <1>3, <1>5, <1>6, <1>7, ScreenStep DEF QueriesGoOn

\* What comes on screen is asked for, what leaves it will be when it is back.
LEMMA SelectSound ==
    ASSUME RelaySound, NEW c \in Clients, NEW I \in SUBSET Incidents, Select(c, I)
    PROVE  RelaySound' /\ StillComing
<1>1. Types /\ MarkerEndsQueue
  BY Unmapped DEF RelaySound
<1>2. PICK f : f = [t \in Topics |->
               IF t \notin Incidents \/ (t \in I /\ fetch[c][t] # Off) THEN fetch[c][t]
               ELSE IF t \in I THEN Asked ELSE Off]
  OBVIOUS
<1>3. /\ fetch \in [Clients -> [Topics -> Fetches]] /\ fetch[c] \in [Topics -> Fetches]
      /\ joined \in [Clients -> SUBSET Topics] /\ joined[c] \in SUBSET Topics
      /\ Asked \in Fetches /\ Off \in Fetches
  BY <1>1 DEF Types, Fetches
<1>4. f \in [Topics -> Fetches] /\ \A t \in Topics : f[t] \in {fetch[c][t], Asked, Off}
  BY <1>2, <1>3
<1>5. fetch' = [fetch EXCEPT ![c] = f]
  BY <1>2 DEF Select
<1>6. /\ fetch' \in [Clients -> [Topics -> Fetches]] /\ fetch'[c] = f
      /\ \A d \in Clients \ {c} : fetch'[d] = fetch[d]
  BY <1>3, <1>4, <1>5
<1>7. /\ joined' \in [Clients -> SUBSET Topics]
      /\ \A d \in Clients \ {c} : joined'[d] = joined[d]
      /\ \A t \in joined[c] : f[t] = fetch[c][t] => t \in joined'[c]
  BY <1>3, <1>6 DEF Select
<1>8. UNCHANGED <<database, view>> /\ UNCHANGED <<conn, wire, stream, queue, faults>>
  BY DEF Select
<1>9. choices' \in 0..MaxChoices
  BY <1>1, RelayAssumption DEF Types, Select
<1>10. Types' /\ MarkerEndsQueue'
  BY <1>1, <1>6, <1>7, <1>8, <1>9 DEF Types, MarkerEndsQueue, database
<1>11. ASSUME NEW d \in Clients, NEW t \in Topics
       PROVE  FetchGoesOn(d, t)
  <2>1. Told(d, t) => Told(d, t)'
    BY <1>8 DEF Told
  <2>2. QED
    BY <1>4, <1>6, <1>7, <2>1 DEF FetchGoesOn
<1>12. QED
  BY <1>8, <1>10, <1>11, ScreenStep DEF QueriesGoOn

\* An answer that was overtaken leaves the client with something else to tell
\* it, but for a first answer and an empty list.
LEMMA AnswerSound ==
    ASSUME RelaySound, NEW c \in Clients, NEW t \in Topics, Answer(c, t)
    PROVE  RelaySound'
<1>1. Types /\ MarkerEndsQueue /\ NoSilentLag /\ OvertakenAnswersOwed
  BY Unmapped DEF RelaySound
<1>2. /\ fetch[c][t].state = "read"
      /\ view' = [view EXCEPT ![c][t] = fetch[c][t].version]
      /\ fetch' = [fetch EXCEPT ![c][t] = Idle]
      /\ UNCHANGED <<committed, active, conn, wire, stream, queue, joined, choices, faults>>
  BY DEF Answer, database
<1>3. /\ fetch[c][t].version \in view[c][t] .. committed[t]
      /\ fetch[c][t].version # committed[t] =>
            Told(c, t) \/ Unannounced(t) \/ t \in joined[c]
  BY <1>1, <1>2 DEF OvertakenAnswersOwed
<1>4. /\ committed[t] \in Versions /\ view[c][t] \in Nat /\ MaxVersion \in Nat
      /\ Idle \in Fetches /\ Idle.state # "read"
      /\ Failed.state # "read" /\ Off.state # "read" /\ Asked.state # "read"
  BY <1>1, RelayAssumption DEF Types, Idle, Fetches, Failed, Off, Asked, NoData, Versions
<1>5. fetch[c][t].version \in Versions /\ fetch[c][t].version <= committed[t]
  <2>1. fetch[c][t] \in Fetches
    BY <1>1 DEF Types
  <2>2. PICK v \in Versions : fetch[c][t] = ReadAt(v)
    BY <1>2, <1>4, <2>1 DEF Fetches
  <2>3. QED
    BY <1>3, <1>4, <2>2 DEF ReadAt, Versions
<1>6. Types'
  BY <1>1, <1>2, <1>4, <1>5 DEF Types
<1>7. MarkerEndsQueue'
  BY <1>1, <1>2 DEF MarkerEndsQueue
<1>8. ASSUME NEW d \in Clients, NEW u \in Topics
      PROVE  /\ Told(d, u) <=> Told(d, u)'
             /\ Unannounced(u) <=> Unannounced(u)'
             /\ fetch'[d][u] = IF d = c /\ u = t THEN Idle ELSE fetch[d][u]
             /\ view'[d][u] = IF d = c /\ u = t THEN fetch[c][t].version ELSE view[d][u]
  BY <1>1, <1>2 DEF Told, Types, Unannounced
<1>9. NoSilentLag'
  BY <1>1, <1>2, <1>3, <1>8 DEF NoSilentLag, Coming
<1>10. OvertakenAnswersOwed'
  BY <1>1, <1>2, <1>4, <1>5, <1>8 DEF OvertakenAnswersOwed
<1>11. QED
  BY <1>6, <1>7, <1>9, <1>10, Unmapped DEF RelaySound

-----------------------------------------------------------------------------
(* What a transaction notifies of.                                         *)

\* The payloads of an ingestion name its active incidents and the source.
LEMMA OrdersRange ==
    ASSUME NEW A \in SUBSET Incidents, NEW s \in Orders(A)
    PROVE  /\ Append(s, Source) \in Seq(Payloads)
           /\ Range(Append(s, Source)) = A \cup {Source}
<1>1. IsFiniteSet(A)
  BY RelayAssumption, FS_Subset
<1>2. Cardinality(A) \in Nat
  BY <1>1, FS_CardinalityType
<1>3. s \in [1 .. Cardinality(A) -> A] /\ Range(s) = A
  BY DEF Orders
<1>4. s \in Seq(Payloads) /\ Source \in Payloads
  BY <1>2, <1>3 DEF Payloads
<1>5. QED
  BY <1>3, <1>4, RangeAppend

\* A notification reaches the channel whenever the relay listens; while it does
\* not, the marker of the next connection stands in for it.
LEMMA NotifyTells ==
    ASSUME Types, NEW s \in Seq(Payloads \cup {Garbage}), Notify(s),
           UNCHANGED <<conn, stream, queue>>
    PROVE  /\ wire' \in Seq(Payloads \cup {Garbage})
           /\ \A c \in Clients, t \in Topics :
                 Told(c, t)' <=> Told(c, t) \/ \E e \in Range(s) : t \in Asks(e)
<1>1. wire \o s \in Seq(Payloads \cup {Garbage}) /\ Range(wire \o s) = Range(wire) \cup Range(s)
  BY RangeConcat DEF Types
<1>2. wire' \in Seq(Payloads \cup {Garbage})
  BY <1>1 DEF Notify, Types
<1>3. CASE conn = "listening"
  <2>1. Range(wire') = Range(wire) \cup Range(s)
    BY <1>1, <1>3 DEF Notify
  <2>2. QED
    BY <1>2, <2>1 DEF Told
<1>4. CASE conn # "listening"
  BY <1>2, <1>4 DEF Told
<1>5. QED
  BY <1>3, <1>4

\* An undecodable payload takes nothing away.
LEMMA NotifyGarbageSound == ASSUME RelaySound, NotifyGarbage PROVE RelaySound' /\ StillComing
<1>1. Types /\ MarkerEndsQueue
  BY Unmapped DEF RelaySound
<1>2. <<Garbage>> \in Seq(Payloads \cup {Garbage}) /\ Notify(<<Garbage>>)
  BY DEF NotifyGarbage
<1>3. UNCHANGED <<conn, stream, queue>> /\ UNCHANGED <<database, browser>>
  BY DEF NotifyGarbage
<1>4. wire' \in Seq(Payloads \cup {Garbage}) /\ StillTold
  BY <1>1, <1>2, <1>3, NotifyTells DEF StillTold
<1>5. Types'
  BY <1>1, <1>3, <1>4, RelayAssumption DEF Types, NotifyGarbage, database, browser
<1>6. MarkerEndsQueue'
  BY <1>1, <1>3 DEF MarkerEndsQueue
<1>7. QED
  BY <1>3, <1>4, <1>5, <1>6, HintStep

\* A transaction that tells of all it changes, the empty list excepted, keeps
\* the invariant: T is what it changes, W what it tells of.
LEMMA BumpSound ==
    ASSUME RelaySound, NEW T \in SUBSET Topics, NEW W, Bump(T), active' \subseteq Incidents,
           wire' \in Seq(Payloads \cup {Garbage}),
           UNCHANGED <<conn, stream, queue, browser, faults>>,
           \A c \in Clients, t \in Topics : Told(c, t)' <=> Told(c, t) \/ t \in W,
           \A t \in T : t \in W \/ Unannounced(t)',
           \A t \in Topics : Unannounced(t) => t \in W \/ Unannounced(t)'
    PROVE  RelaySound'
<1>1. Types /\ MarkerEndsQueue /\ NoSilentLag /\ OvertakenAnswersOwed
  BY Unmapped DEF RelaySound
<1>2. /\ \A t \in T : committed[t] < MaxVersion /\ committed'[t] = committed[t] + 1
      /\ \A t \in Topics \ T : committed'[t] = committed[t]
      /\ committed' = [t \in Topics |-> committed'[t]]
  BY <1>1 DEF Bump, Types, Versions
<1>3. MaxVersion \in Nat /\ \A t \in Topics : committed[t] \in 1..MaxVersion
  BY <1>1, RelayAssumption DEF Types, Versions
<1>4. committed' \in [Topics -> Versions]
  BY <1>2, <1>3 DEF Versions
<1>5. UNCHANGED <<conn, stream, queue, view, fetch, joined, choices, faults>>
  BY DEF browser
<1>6. Types'
  BY <1>1, <1>4, <1>5 DEF Types
<1>7. MarkerEndsQueue'
  BY <1>1, <1>5 DEF MarkerEndsQueue
<1>8. NoSilentLag'
  <2> SUFFICES ASSUME NEW c \in Clients, NEW t \in Topics, view'[c][t] # committed'[t]
               PROVE  Coming(c, t)' \/ Unannounced(t)' \/ t \in joined'[c]
    BY DEF NoSilentLag
  <2>1. CASE t \in T
    BY <2>1 DEF Coming
  <2>2. CASE t \notin T
    <3>1. Coming(c, t) \/ Unannounced(t) \/ t \in joined[c]
      BY <1>1, <1>2, <1>5, <2>2 DEF NoSilentLag
    <3>2. Coming(c, t) => Coming(c, t)'
      BY <1>5 DEF Coming
    <3>3. Unannounced(t) => Coming(c, t)' \/ Unannounced(t)'
      BY DEF Coming
    <3>4. QED
      BY <1>5, <3>1, <3>2, <3>3
  <2>3. QED
    BY <2>1, <2>2
<1>9. OvertakenAnswersOwed'
  <2> SUFFICES ASSUME NEW c \in Clients, NEW t \in Topics
               PROVE  /\ view[c][t] <= committed'[t]
                      /\ fetch[c][t].state = "read" =>
                            /\ fetch[c][t].version \in view[c][t] .. committed'[t]
                            /\ fetch[c][t].version # committed'[t] =>
                                  \/ Told(c, t)'
                                  \/ Unannounced(t)'
                                  \/ t \in joined[c] /\ view[c][t] = NoData
    BY <1>5 DEF OvertakenAnswersOwed
  <2>1. /\ committed[t] \in Nat /\ view[c][t] \in Nat
        /\ \/ committed'[t] = committed[t] + 1 /\ (t \in W \/ Unannounced(t)')
           \/ committed'[t] = committed[t]
    BY <1>1, <1>2, <1>3 DEF Types, Versions, NoData
  <2>2. /\ view[c][t] <= committed[t]
        /\ fetch[c][t].state = "read" =>
              /\ fetch[c][t].version \in view[c][t] .. committed[t]
              /\ fetch[c][t].version # committed[t] =>
                    Told(c, t) \/ Unannounced(t) \/ (t \in joined[c] /\ view[c][t] = NoData)
    BY <1>1 DEF OvertakenAnswersOwed
  <2>3. Told(c, t) \/ t \in W => Told(c, t)'
    OBVIOUS
  <2>4. Unannounced(t) => Told(c, t)' \/ Unannounced(t)'
    OBVIOUS
  <2>5. QED
    BY <2>1, <2>2, <2>3, <2>4
<1>10. QED
  BY <1>6, <1>7, <1>8, <1>9, Unmapped DEF RelaySound

\* What an ingestion changes and what it tells of.
Changed(A, C) == C \cup {Source} \cup (IF C # {} \/ A # active THEN {List} ELSE {})
Announced(A) == A \cup {Source} \cup (IF A # {} THEN {List} ELSE {})

\* An ingestion tells of its active incidents, of the list when there are any,
\* and of its source.
LEMMA IngestionTells ==
    ASSUME Types, NEW A \in SUBSET Incidents, NEW C \in SUBSET A, CommitIngestion(A, C)
    PROVE  /\ wire' \in Seq(Payloads \cup {Garbage})
           /\ \A c \in Clients, t \in Topics : Told(c, t)' <=> Told(c, t) \/ t \in Announced(A)
<1>1. PICK s \in Orders(A) : Notify(Append(s, Source))
  BY DEF CommitIngestion
<1>2. PICK p : p = Append(s, Source)
  OBVIOUS
<1>3. p \in Seq(Payloads) /\ Range(p) = A \cup {Source}
  BY <1>2, OrdersRange
<1>4. p \in Seq(Payloads \cup {Garbage}) /\ Notify(p)
  BY <1>1, <1>2, <1>3, SeqMonotonic, Payloads \subseteq Payloads \cup {Garbage}
<1>5. UNCHANGED <<conn, stream, queue>>
  BY DEF CommitIngestion
<1>6. /\ wire' \in Seq(Payloads \cup {Garbage})
      /\ \A c \in Clients, t \in Topics :
            Told(c, t)' <=> Told(c, t) \/ \E e \in Range(p) : t \in Asks(e)
  BY <1>4, <1>5, NotifyTells
<1>7. \A t : (\E e \in Range(p) : t \in Asks(e)) <=> t \in Announced(A)
  BY <1>3, AsksIs DEF Announced
<1>8. QED
  BY <1>6, <1>7

\* An ingestion notifies whoever will not find out otherwise, unless it closes
\* the last incident.
LEMMA IngestionSound ==
    ASSUME RelaySound, NEW A \in SUBSET Incidents, NEW C \in SUBSET A, CommitIngestion(A, C)
    PROVE  RelaySound'
<1>1. Types
  BY Unmapped DEF RelaySound
<1>2. PICK T : T = Changed(A, C)
  OBVIOUS
<1>3. PICK W : W = Announced(A)
  OBVIOUS
<1>4. /\ wire' \in Seq(Payloads \cup {Garbage})
      /\ \A c \in Clients, t \in Topics : Told(c, t)' <=> Told(c, t) \/ t \in W
  BY <1>1, <1>3, IngestionTells
<1>5. /\ Bump(T) /\ active' = A
      /\ UNCHANGED <<conn, stream, queue, browser, faults>>
  BY <1>2 DEF CommitIngestion, Changed
<1>6. T \in SUBSET Topics
  BY <1>2 DEF Changed, Topics
<1>7. List \in W \/ Unannounced(List)'
  BY <1>3, <1>5 DEF Announced, Unannounced
<1>8. \A t \in T : t \in W \/ Unannounced(t)'
  BY <1>2, <1>3, <1>7 DEF Changed, Announced
<1>9. \A t \in Topics : Unannounced(t) => t \in W \/ Unannounced(t)'
  BY <1>7 DEF Unannounced
<1>10. QED
  BY <1>4, <1>5, <1>6, <1>8, <1>9, BumpSound

\* A failed run tells of its source.
LEMMA FailureTells ==
    ASSUME Types, RecordFailure
    PROVE  /\ wire' \in Seq(Payloads \cup {Garbage})
           /\ \A c \in Clients, t \in Topics : Told(c, t)' <=> Told(c, t) \/ t \in {Source}
<1>1. <<Source>> \in Seq(Payloads \cup {Garbage})
  BY DEF Payloads
<1>2. Range(<<Source>>) = {Source}
  BY DEF Range
<1>3. Notify(<<Source>>) /\ UNCHANGED <<conn, stream, queue>>
  BY DEF RecordFailure
<1>4. /\ wire' \in Seq(Payloads \cup {Garbage})
      /\ \A c \in Clients, t \in Topics :
            Told(c, t)' <=> Told(c, t) \/ \E e \in Range(<<Source>>) : t \in Asks(e)
  BY <1>1, <1>3, NotifyTells
<1>5. QED
  BY <1>2, <1>4, AsksIs

\* A recorded failure notifies of the only thing it changes.
LEMMA FailureSound == ASSUME RelaySound, RecordFailure PROVE RelaySound'
<1>1. Types
  BY Unmapped DEF RelaySound
<1>2. PICK T : T = {Source}
  OBVIOUS
<1>3. /\ wire' \in Seq(Payloads \cup {Garbage})
      /\ \A c \in Clients, t \in Topics : Told(c, t)' <=> Told(c, t) \/ t \in T
  BY <1>1, <1>2, FailureTells
<1>4. /\ Bump(T) /\ active' \subseteq Incidents /\ active' = active
      /\ UNCHANGED <<conn, stream, queue, browser, faults>>
  BY <1>1, <1>2 DEF RecordFailure, Types
<1>5. T \in SUBSET Topics
  BY <1>2 DEF Topics
<1>6. \A t \in Topics : Unannounced(t) => t \in T \/ Unannounced(t)'
  BY <1>4 DEF Unannounced
<1>7. QED
  BY <1>3, <1>4, <1>5, <1>6, BumpSound

\* Steps that leave the database and what screens show alone.
Relaying ==
    \/ NotifyGarbage \/ RelayStep \/ Break \/ Restart
    \/ \E c \in Clients :
         \/ StreamStep(c) \/ CutStream(c)
         \/ \E I \in SUBSET Incidents : Select(c, I)
         \/ \E t \in Topics : Read(c, t) \/ FailFetch(c, t) \/ RetryFetch(c, t)

\* They keep the invariant, and whatever a client is owed.
LEMMA RelayingSound ==
    ASSUME RelaySound, Relaying
    PROVE  RelaySound' /\ StillComing
<1>1. CASE NotifyGarbage
  BY <1>1, NotifyGarbageSound
<1>2. CASE Connect \/ Listen \/ Break \/ Cleanup \/ Restart
  BY <1>2, ConnectionSound
<1>3. CASE Register
  BY <1>3, RegisterSound
<1>4. CASE Receive
  BY <1>4, ReceiveSound
<1>5. ASSUME NEW c \in Clients, OpenStream(c) \/ NoticeCut(c) \/ CutStream(c)
      PROVE  RelaySound' /\ StillComing
  BY <1>5, StreamSound
<1>6. ASSUME NEW c \in Clients, HandleOpen(c) PROVE RelaySound' /\ StillComing
  BY <1>6, HandleOpenSound
<1>7. ASSUME NEW c \in Clients, HandleEvent(c) PROVE RelaySound' /\ StillComing
  BY <1>7, HandleEventSound
<1>8. ASSUME NEW c \in Clients, NEW I \in SUBSET Incidents, Select(c, I)
      PROVE  RelaySound' /\ StillComing
  BY <1>8, SelectSound
<1>9. ASSUME NEW c \in Clients, NEW t \in Topics,
             Read(c, t) \/ FailFetch(c, t) \/ RetryFetch(c, t)
      PROVE  RelaySound' /\ StillComing
  BY <1>9, QuerySound
<1>10. QED
  BY <1>1, <1>2, <1>3, <1>4, <1>5, <1>6, <1>7, <1>8, <1>9
     DEF Relaying, RelayStep, StreamStep

\* The steps of the system, sorted by what they do to the debt.
LEMMA Steps ==
    ASSUME [Next]_vars
    PROVE  \/ \E A \in SUBSET Incidents : \E C \in SUBSET A : CommitIngestion(A, C)
           \/ RecordFailure
           \/ Relaying
           \/ \E c \in Clients, t \in Topics : Answer(c, t)
           \/ UNCHANGED vars
BY DEF Next, Relaying, QueryStep

\* Every step keeps the invariant.
LEMMA StepSound == ASSUME RelaySound, [Next]_vars PROVE RelaySound'
<1>1. ASSUME NEW A \in SUBSET Incidents, NEW C \in SUBSET A, CommitIngestion(A, C)
      PROVE  RelaySound'
  BY <1>1, IngestionSound
<1>2. CASE RecordFailure
  BY <1>2, FailureSound
<1>3. CASE Relaying
  BY <1>3, RelayingSound
<1>4. ASSUME NEW c \in Clients, NEW t \in Topics, Answer(c, t) PROVE RelaySound'
  BY <1>4, AnswerSound
<1>5. CASE UNCHANGED vars
  <2>1. Types /\ MarkerEndsQueue
    BY Unmapped DEF RelaySound
  <2>2. Types' /\ MarkerEndsQueue'
    BY <1>5, <2>1 DEF vars, Types, MarkerEndsQueue
  <2>3. StillTold /\ UNCHANGED <<database, browser>>
    BY <1>5 DEF vars, StillTold, Told, database, browser
  <2>4. QED
    BY <2>2, <2>3, HintStep
<1>6. QED
  BY <1>1, <1>2, <1>3, <1>4, <1>5, Steps

\* Whatever is lost on the channel, in a full queue or with a stream, a screen
\* that lags behind the database has a change coming, but for an empty list
\* and a first answer that was joined; queues stay bounded with the marker at
\* their end; and an overtaken answer is owed its successor.
THEOREM NothingLagsSilently == Spec => []RelaySound
<1>1. Init => RelaySound
  BY InitSound
<1>2. RelaySound /\ [Next]_vars => RelaySound'
  BY StepSound
<1>3. QED
  BY <1>1, <1>2, PTL DEF Spec

-----------------------------------------------------------------------------
(* Refinement.                                                             *)

\* The mapping's debt to each client.
Owed == [c \in Clients |-> {t \in Topics : Coming(c, t)}]

\* In the beginning nothing is known.
LEMMA InitImplements == Init => Feed!Init
<1> SUFFICES ASSUME Init PROVE Feed!Init
  OBVIOUS
<1>1. Owed \in [Clients -> SUBSET Topics]
  BY DEF Owed
<1>2. QED
  BY <1>1 DEF Init, Feed!Init, Owed, Feed!Topics, Topics, Feed!NoData, NoData

\* A step that shows nothing and takes nothing out of the debt is a warning.
LEMMA Warning ==
    ASSUME UNCHANGED <<committed, active, view>>, StillComing
    PROVE  Feed!Next
<1>1. Owed' \in [Clients -> SUBSET Topics]
  BY DEF Owed
<1>2. \A c \in Clients : Owed[c] \subseteq Owed'[c]
  BY DEF Owed, StillComing
<1>3. Feed!Warn
  BY <1>1, <1>2 DEF Feed!Warn, Owed, Feed!Topics, Topics
<1>4. QED
  BY <1>3 DEF Feed!Next

\* The debt after a transaction that tells of W.
LEMMA TellingOwes ==
    ASSUME NEW W \in SUBSET Topics, UNCHANGED browser,
           \A c \in Clients, t \in Topics : Told(c, t)' <=> Told(c, t) \/ t \in W
    PROVE  Owed' = [c \in Clients |-> Owed[c] \cup W]
<1>1. \A c \in Clients, t \in Topics : Coming(c, t)' <=> Coming(c, t) \/ t \in W
  BY DEF Coming, browser
<1>2. QED
  BY <1>1 DEF Owed

\* An ingestion changes versions, and owes everyone those it tells of.
LEMMA IngestionImplements ==
    ASSUME RelaySound, NEW A \in SUBSET Incidents, NEW C \in SUBSET A, CommitIngestion(A, C)
    PROVE  Feed!Next
<1>1. Types
  BY Unmapped DEF RelaySound
<1>2. PICK T : T = Changed(A, C)
  OBVIOUS
<1>3. PICK W : W = Announced(A)
  OBVIOUS
<1>4. W \in SUBSET Topics
  BY <1>3 DEF Announced, Topics
<1>5. UNCHANGED browser /\ Bump(T) /\ active' = A
  BY <1>2 DEF CommitIngestion, Changed
<1>6. Owed' = [c \in Clients |-> Owed[c] \cup W]
  BY <1>1, <1>3, <1>4, <1>5, IngestionTells, TellingOwes
<1>7. Feed!Commit(T, W)
  BY <1>5, <1>6 DEF Feed!Commit, Owed, Bump, browser, Feed!Topics, Topics
<1>8. Feed!Ingest(A, C)
  BY <1>2, <1>3, <1>5, <1>7 DEF Feed!Ingest, Changed, Announced
<1>9. QED
  BY <1>8 DEF Feed!Next

\* So does a recorded failure.
LEMMA FailureImplements == ASSUME RelaySound, RecordFailure PROVE Feed!Next
<1>1. Types
  BY Unmapped DEF RelaySound
<1>2. PICK W : W = {Source}
  OBVIOUS
<1>3. W \in SUBSET Topics
  BY <1>2 DEF Topics
<1>4. UNCHANGED browser /\ Bump(W) /\ active' = active
  BY <1>2 DEF RecordFailure
<1>5. Owed' = [c \in Clients |-> Owed[c] \cup W]
  BY <1>1, <1>2, <1>3, <1>4, FailureTells, TellingOwes
<1>6. Feed!Commit(W, W)
  BY <1>4, <1>5 DEF Feed!Commit, Owed, Bump, browser, Feed!Topics, Topics
<1>7. Feed!Fail
  BY <1>2, <1>4, <1>6 DEF Feed!Fail
<1>8. QED
  BY <1>7 DEF Feed!Next

\* An answer puts on the screen what was current when it was read.
LEMMA AnswerImplements ==
    ASSUME RelaySound, NEW c \in Clients, NEW t \in Topics, Answer(c, t)
    PROVE  Feed!Next
<1>1. Types /\ OvertakenAnswersOwed
  BY Unmapped DEF RelaySound
<1>2. PICK v : v = fetch[c][t].version
  OBVIOUS
<1>3. /\ fetch[c][t].state = "read"
      /\ view' = [view EXCEPT ![c][t] = v]
      /\ fetch' = [fetch EXCEPT ![c][t] = Idle]
      /\ UNCHANGED <<committed, active, conn, wire, stream, queue, joined>>
  BY <1>2 DEF Answer, database
<1>4. /\ v \in view[c][t] .. committed[t]
      /\ v # committed[t] => Told(c, t) \/ Unannounced(t) \/ view[c][t] = NoData
  BY <1>1, <1>2, <1>3 DEF OvertakenAnswersOwed
<1>5. v \in Versions /\ view[c][t] <= v /\ v <= committed[t]
  <2>1. fetch[c][t] \in Fetches
    BY <1>1 DEF Types
  <2>2. PICK u \in Versions : fetch[c][t] = ReadAt(u)
    BY <1>3, <2>1 DEF Fetches, Off, Idle, Asked, Failed
  <2>3. committed[t] \in Nat /\ view[c][t] \in Nat /\ v \in Versions
    BY <1>1, <1>2, <2>2, RelayAssumption DEF Types, Versions, NoData, ReadAt
  <2>4. QED
    BY <1>4, <2>3
<1>6. \A d \in Clients, u \in Topics :
         /\ Told(d, u)' <=> Told(d, u)
         /\ fetch'[d][u] = IF d = c /\ u = t THEN Idle ELSE fetch[d][u]
  BY <1>1, <1>3 DEF Told, Types
<1>7. fetch[c][t] # Idle
  BY <1>3 DEF Idle
<1>8. CASE Told(c, t)
  <2>1. \A d \in Clients, u \in Topics : Coming(d, u)' <=> Coming(d, u)
    BY <1>6, <1>8 DEF Coming
  <2>2. Owed' = Owed
    BY <2>1 DEF Owed
  <2>3. Feed!Show(c, t)
    BY <1>3, <1>5, <2>2 DEF Feed!Show, Feed!Versions, Versions, Owed
  <2>4. QED
    BY <2>3 DEF Feed!Next, Feed!Topics, Topics
<1>9. CASE ~Told(c, t)
  <2>1. v = committed[t] \/ view[c][t] = NoData \/ (t = List /\ active = {})
    BY <1>4, <1>9 DEF Unannounced
  <2>2. Feed!Settles(c, t, v)
    BY <2>1 DEF Feed!Settles, Feed!NoData, NoData
  <2>3. \A d \in Clients, u \in Topics :
           Coming(d, u)' <=> Coming(d, u) /\ ~(d = c /\ u = t)
    BY <1>6, <1>7, <1>9 DEF Coming
  <2>4. Owed' = [Owed EXCEPT ![c] = @ \ {t}]
    BY <2>3 DEF Owed
  <2>5. Feed!Show(c, t)
    BY <1>3, <1>5, <2>2, <2>4 DEF Feed!Show, Feed!Versions, Versions, Owed
  <2>6. QED
    BY <2>5 DEF Feed!Next, Feed!Topics, Topics
<1>10. QED
  BY <1>8, <1>9

\* Every step of the relay is a step of the change feed, or none.
LEMMA StepImplements == ASSUME RelaySound, [Next]_vars PROVE [Feed!Next]_(Feed!vars)
<1>1. ASSUME NEW A \in SUBSET Incidents, NEW C \in SUBSET A, CommitIngestion(A, C)
      PROVE  Feed!Next
  BY <1>1, IngestionImplements
<1>2. CASE RecordFailure
  BY <1>2, FailureImplements
<1>3. CASE Relaying
  <2>1. StillComing
    BY <1>3, RelayingSound
  <2>2. UNCHANGED <<committed, active, view>>
    BY <1>3 DEF Relaying, NotifyGarbage, RelayStep, Connect, Listen, Register, Receive, Cleanup,
         Break, Restart, StreamStep, OpenStream, HandleOpen, HandleEvent, NoticeCut, CutStream,
         Select, Read, FailFetch, RetryFetch, database, browser
  <2>3. QED
    BY <2>1, <2>2, Warning
<1>4. ASSUME NEW c \in Clients, NEW t \in Topics, Answer(c, t) PROVE Feed!Next
  BY <1>4, AnswerImplements
<1>5. CASE UNCHANGED vars
  BY <1>5 DEF vars, Feed!vars, Coming, Told
<1>6. QED
  BY <1>1, <1>2, <1>3, <1>4, <1>5, Steps

\* The channel, the bus and the browsers implement the promise of ChangeFeed: a
\* committed change that is announced is owed until an answer with it, or the
\* first answer of all, is on the screen.
THEOREM FeedImplemented == Spec => ImplementsFeed
<1>1. Init => Feed!Init
  BY InitImplements
<1>2. RelaySound /\ [Next]_vars => [Feed!Next]_(Feed!vars)
  BY StepImplements
<1>3. Spec => []RelaySound
  BY NothingLagsSilently
<1>4. QED
  BY <1>1, <1>2, <1>3, PTL DEF Spec, ImplementsFeed, Feed!Spec
=============================================================================
