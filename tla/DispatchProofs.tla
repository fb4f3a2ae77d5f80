--------------------------- MODULE DispatchProofs ---------------------------
(***************************************************************************)
(* Proofs about Dispatch.tla, for any number of rides and drivers, any      *)
(* interleaving of requests, consumer, retry loop and listener, any         *)
(* failures and any number of restarts: types, that nothing is dispatched   *)
(* once ride-accepted has been handled, and, within the TTL, that every     *)
(* offer sent can be retracted.                                             *)
(***************************************************************************)
EXTENDS Dispatch, TLAPS, SequenceTheorems

-----------------------------------------------------------------------------
(* The inductive invariant                                                 *)

\* Which handler is at which await.
HandlerOK ==
    /\ handler.step # "idle" => handler.topic \in Topics /\ handler.ride \in Rides
    /\ handler.step \in {"search", "sadd", "expire", "offer"} => handler.topic = Requested
    /\ handler.step \in {"members", "delete"} => handler.topic = Accepted
    /\ handler.step = "idle" => handler.topic = "none"

Closed == {r \in Rides : phase[r] = "closed"}

\* ride-accepted is only ever about a ride that has left REQUESTED, which it never enters
\* again: whatever has it, and whoever has handled it.
AcceptedIsClosed ==
    /\ \A r \in Rides : <<Accepted, r>> \in unsent => r \in Closed
    /\ queue[Accepted] \in Seq(Closed)
    /\ fetched[Accepted] \in Seq(Closed)
    /\ handler.topic = Accepted => handler.ride \in Closed
    /\ cleared \subseteq Closed

\* SADD comes before the offers.
TargetsAreDispatched ==
    handler.step \in {"expire", "offer"} => handler.targets \subseteq dispatched[handler.ride]

IInv == TypeOK /\ HandlerOK /\ AcceptedIsClosed /\ NothingAfterAccepted

-----------------------------------------------------------------------------
(* Sequences and rows                                                      *)

\* What a queue of members of S yields and becomes.
LEMMA QueueFacts ==
    ASSUME NEW S, NEW q \in Seq(S)
    PROVE  /\ \A x \in S : Append(q, x) \in Seq(S)
           /\ q # <<>> => Head(q) \in S /\ Tail(q) \in Seq(S)
           /\ \A p \in Seq(S) : p \o q \in Seq(S)
           /\ <<>> \in Seq(S)
           /\ \A T : S \subseteq T => q \in Seq(T)
  BY SeqMonotonic

\* A ride that has left REQUESTED stays so.
LEMMA ClosedStaysClosed ==
    ASSUME TypeOK, NEW r \in Rides, Rows!Open(r) \/ Rows!Close(r) \/ \E d \in Drivers : Rows!Assign(r, d)
    PROVE  /\ phase' \in [Rides -> {"none", "open", "closed"}] /\ assigned' \in [Rides -> SUBSET Drivers]
           /\ Closed \subseteq Closed'
           /\ (\E d \in Drivers : Rows!Assign(r, d)) => r \in Closed'
  <1>t. phase \in [Rides -> {"none", "open", "closed"}] /\ assigned \in [Rides -> SUBSET Drivers]
    BY DEF TypeOK
  <1>1. CASE Rows!Open(r)
    BY <1>1, <1>t DEF Rows!Open, Rows!Assign, Closed
  <1>2. CASE Rows!Close(r)
    BY <1>2, <1>t DEF Rows!Close, Rows!Assign, Closed
  <1>3. ASSUME NEW d \in Drivers, Rows!Assign(r, d)
        PROVE  /\ phase' \in [Rides -> {"none", "open", "closed"}] /\ assigned' \in [Rides -> SUBSET Drivers]
               /\ Closed \subseteq Closed' /\ r \in Closed'
    BY <1>3, <1>t DEF Rows!Assign, Closed
  <1>4. Rows!Open(r) \/ Rows!Close(r) => ~\E d \in Drivers : Rows!Assign(r, d)
    BY <1>t DEF Rows!Open, Rows!Close, Rows!Assign
  <1> QED
    BY <1>1, <1>2, <1>3, <1>4

\* Distinct topics.
LEMMA TopicFacts ==
    /\ Requested # Accepted /\ Completed # Accepted /\ Cancelled # Accepted /\ Requested # "none" /\ Accepted # "none"
    /\ {Requested, Accepted, Completed, Cancelled} \subseteq Topics
    /\ "none" \notin Topics
  BY DEF Requested, Accepted, Completed, Cancelled, Topics

-----------------------------------------------------------------------------
(* Types                                                                   *)

Steps == {"idle", "read", "search", "sadd", "expire", "offer", "members", "delete"}

Handlers == [topic : Topics \cup {"none"}, ride : Rides \cup {None}, step : Steps, targets : SUBSET Drivers]

LEMMA TypeParts ==
    TypeOK <=>
        /\ phase \in [Rides -> {"none", "open", "closed"}] /\ assigned \in [Rides -> SUBSET Drivers]
        /\ free \subseteq Drivers /\ unsent \subseteq Topics \X Rides
        /\ queue \in [Topics -> Seq(Rides)] /\ fetched \in [Topics -> Seq(Rides)]
        /\ handler \in Handlers
        /\ dispatched \in [Rides -> SUBSET Drivers] /\ expiring \subseteq Rides
        /\ listening \in BOOLEAN
        /\ channel \in Seq(Drivers \X Rides) /\ shown \in [Drivers -> SUBSET Rides]
        /\ aged \subseteq Rides
        /\ retry \in [step : {"sleep", "publish", "dead"}, todo : SUBSET Rides]
        /\ cleared \subseteq Rides /\ crashes \in 0..MaxCrashes
  BY DEF TypeOK, Handlers, Steps

LEMMA InitInv == Init => IInv
  <1> SUFFICES ASSUME Init PROVE IInv
    OBVIOUS
  <1>1. /\ phase = [r \in Rides |-> "none"] /\ assigned = [r \in Rides |-> {}]
        /\ handler = Idle /\ retry = Asleep /\ cleared = {} /\ crashes = 0 /\ unsent = {}
        /\ queue = [topic \in Topics |-> <<>>] /\ fetched = [topic \in Topics |-> <<>>]
    BY DEF Init, Rows!Init
  <1>2. TypeOK
    <2>1. /\ free \subseteq Drivers /\ dispatched = [r \in Rides |-> {}] /\ expiring = {} /\ listening = FALSE
          /\ channel = <<>> /\ shown = [d \in Drivers |-> {}] /\ aged = {}
      BY DEF Init
    <2>2. queue \in [Topics -> Seq(Rides)] /\ fetched \in [Topics -> Seq(Rides)]
      BY <1>1
    <2>3. phase \in [Rides -> {"none", "open", "closed"}] /\ assigned \in [Rides -> SUBSET Drivers]
      BY <1>1
    <2>4. handler \in Handlers
      BY <1>1 DEF Handlers, Steps, Idle
    <2>5. channel \in Seq(Drivers \X Rides) /\ shown \in [Drivers -> SUBSET Rides]
      BY <2>1
    <2>6. dispatched \in [Rides -> SUBSET Drivers] /\ expiring \subseteq Rides /\ listening \in BOOLEAN
      BY <2>1
    <2>7. retry \in [step : {"sleep", "publish", "dead"}, todo : SUBSET Rides]
      BY <1>1 DEF Asleep
    <2>8. unsent \subseteq Topics \X Rides /\ aged \subseteq Rides /\ cleared \subseteq Rides /\ crashes \in 0..MaxCrashes
      BY <1>1, <2>1, BoundAssumption DEF BoundAssumption
    <2> QED
      BY <2>1, <2>2, <2>3, <2>4, <2>5, <2>6, <2>7, <2>8, TypeParts
  <1>3. HandlerOK /\ NothingAfterAccepted
    BY <1>1 DEF HandlerOK, NothingAfterAccepted, Idle
  <1>4. AcceptedIsClosed
    BY <1>1, TopicFacts DEF AcceptedIsClosed, Idle
  <1> QED
    BY <1>2, <1>3, <1>4 DEF IInv

\* A request: its row, and the publish it owes.
LEMMA RequestsKeep ==
    ASSUME IInv, Requests
    PROVE  IInv'
  <1>t. TypeOK /\ HandlerOK /\ AcceptedIsClosed /\ NothingAfterAccepted
    BY DEF IInv
  <1>1. ASSUME NEW r \in Rides, NEW topic \in Topics, Owe(topic, r),
               phase' \in [Rides -> {"none", "open", "closed"}], assigned' \in [Rides -> SUBSET Drivers],
               Closed \subseteq Closed', topic = Accepted => r \in Closed'
        PROVE  IInv'
    <2>1. /\ unsent' \subseteq unsent \cup {<<topic, r>>}
          /\ UNCHANGED <<free, queue, fetched, handler, dispatched, expiring, listening, channel, shown, cleared, aged,
                         retry, crashes>>
      BY <1>1 DEF Owe, kafka, offers
    <2>2. TypeOK'
      BY <1>t, <1>1, <2>1 DEF TypeOK
    <2>3. HandlerOK' /\ NothingAfterAccepted'
      BY <1>t, <2>1 DEF HandlerOK, NothingAfterAccepted, FanningOut
    <2>4. AcceptedIsClosed'
      <3>1. queue[Accepted] \in Seq(Closed') /\ fetched[Accepted] \in Seq(Closed')
        BY <1>t, <1>1, QueueFacts DEF AcceptedIsClosed
      <3> QED
        BY <1>t, <1>1, <2>1, <3>1 DEF AcceptedIsClosed
    <2> QED
      BY <2>2, <2>3, <2>4 DEF IInv
  <1>2. ASSUME NEW r \in Rides, RequestRide(r)
        PROVE  IInv'
    BY <1>1, <1>2, <1>t, ClosedStaysClosed, TopicFacts DEF RequestRide
  <1>3. ASSUME NEW r \in Rides, NEW d \in Drivers, AcceptRide(r, d)
        PROVE  IInv'
    BY <1>1, <1>3, <1>t, ClosedStaysClosed, TopicFacts DEF AcceptRide
  <1>4. ASSUME NEW r \in Rides, CompleteRide(r)
        PROVE  IInv'
    BY <1>1, <1>4, <1>t, TopicFacts DEF CompleteRide, TypeOK, Closed, rows
  <1>5. ASSUME NEW r \in Rides, CancelRide(r)
        PROVE  IInv'
    <2>1. CASE Rows!Close(r)
      BY <1>1, <1>5, <1>t, <2>1, ClosedStaysClosed, TopicFacts DEF CancelRide
    <2>2. CASE UNCHANGED rows
      BY <1>1, <1>5, <1>t, <2>2, TopicFacts DEF CancelRide, TypeOK, Closed, rows
    <2> QED
      BY <1>5, <2>1, <2>2 DEF CancelRide
  <1>6. ASSUME NEW d \in Drivers, Move(d)
        PROVE  IInv'
    <2>1. /\ free' \subseteq Drivers
          /\ UNCHANGED <<phase, assigned, unsent, queue, fetched, handler, dispatched, expiring, listening, channel, shown,
                         cleared, aged, retry, crashes>>
      BY <1>6, <1>t DEF Move, TypeOK, rows, kafka, offers
    <2> QED
      BY <1>t, <2>1 DEF IInv, TypeOK, HandlerOK, AcceptedIsClosed, Closed, NothingAfterAccepted, FanningOut
  <1> QED
    BY <1>2, <1>3, <1>4, <1>5, <1>6 DEF Requests

-----------------------------------------------------------------------------
(* Kafka                                                                   *)

\* The rest of the invariant, when only the queues move.
LEMMA KafkaMoves ==
    ASSUME IInv, UNCHANGED <<phase, assigned, free, dispatched, expiring, cleared, aged, retry>>,
           crashes' \in 0..MaxCrashes, listening' \in BOOLEAN, shown' \in [Drivers -> SUBSET Rides], channel' \in Seq(Drivers \X Rides),
           unsent' \subseteq unsent,
           handler' \in Handlers, HandlerOK', handler'.step \in {"idle", "read", handler.step},
           handler'.step \notin {"idle", "read"} => handler' = handler,
           handler'.topic = Accepted => handler'.ride \in Closed,
           queue' \in [Topics -> Seq(Rides)], queue'[Accepted] \in Seq(Closed),
           fetched' \in [Topics -> Seq(Rides)], fetched'[Accepted] \in Seq(Closed)
    PROVE  IInv'
  <1>t. TypeOK /\ HandlerOK /\ AcceptedIsClosed /\ NothingAfterAccepted
    BY DEF IInv
  <1>0. Closed' = Closed
    BY DEF Closed
  <1>1. TypeOK'
    BY <1>t, TypeParts DEF TypeOK, Handlers, Steps
  <1>2. AcceptedIsClosed'
    BY <1>t, <1>0 DEF AcceptedIsClosed
  <1>3. NothingAfterAccepted'
    <2>1. ASSUME NEW r \in cleared, FanningOut(r)'
          PROVE  FALSE
      <3>1. handler'.topic = Requested /\ handler'.step # "read" /\ handler'.step # "idle"
        BY <2>1, TopicFacts DEF FanningOut, HandlerOK
      <3> QED
        BY <1>t, <2>1, <3>1 DEF NothingAfterAccepted, FanningOut
    <2> QED
      BY <1>t, <2>1 DEF NothingAfterAccepted
  <1> QED
    BY <1>1, <1>2, <1>3 DEF IInv

LEMMA KafkaKeeps ==
    ASSUME IInv, \/ \E m \in unsent : Send(m) \/ SendFails(m)
                 \/ \E topic \in Topics : Poll(topic)
                 \/ AutoCommit \/ RetryPublish \/ Crash \/ Stop
    PROVE  IInv'
  <1>t. TypeOK /\ HandlerOK /\ AcceptedIsClosed /\ NothingAfterAccepted
    BY DEF IInv
  <1>q. /\ queue \in [Topics -> Seq(Rides)] /\ fetched \in [Topics -> Seq(Rides)]
        /\ queue[Accepted] \in Seq(Closed) /\ fetched[Accepted] \in Seq(Closed)
        /\ handler \in Handlers /\ (handler.topic = Accepted => handler.ride \in Closed)
        /\ crashes \in 0..MaxCrashes /\ listening \in BOOLEAN /\ shown \in [Drivers -> SUBSET Rides] /\ channel \in Seq(Drivers \X Rides)
        /\ Accepted \in Topics /\ unsent \subseteq Topics \X Rides
    BY <1>t, TypeParts, TopicFacts DEF AcceptedIsClosed
  <1>e. ASSUME NEW topic \in Topics, NEW r \in Rides, Enqueue(topic, r), topic = Accepted => r \in Closed
        PROVE  queue' \in [Topics -> Seq(Rides)] /\ queue'[Accepted] \in Seq(Closed)
    <2>1. /\ Append(queue[topic], r) \in Seq(Rides)
          /\ topic = Accepted => Append(queue[topic], r) \in Seq(Closed)
      BY <1>e, <1>q, QueueFacts
    <2> QED
      BY <1>e, <1>q, <2>1 DEF Enqueue
  <1>1. ASSUME NEW m \in unsent, Send(m)
        PROVE  IInv'
    <2>1. m[1] \in Topics /\ m[2] \in Rides /\ m = <<m[1], m[2]>>
      BY <1>q
    <2>2. m[1] = Accepted => m[2] \in Closed
      BY <1>t, <2>1 DEF AcceptedIsClosed
    <2>3. queue' \in [Topics -> Seq(Rides)] /\ queue'[Accepted] \in Seq(Closed)
      BY <1>1, <1>e, <2>1, <2>2 DEF Send
    <2>4. /\ unsent' \subseteq unsent
          /\ UNCHANGED <<phase, assigned, free, fetched, handler, dispatched, expiring, listening, channel, shown, cleared,
                         aged, retry, crashes>>
      BY <1>1 DEF Send, requests, rows, offers
    <2>5. HandlerOK'
      BY <1>t, <2>4 DEF HandlerOK
    <2> QED
      BY <1>q, <2>3, <2>4, <2>5, KafkaMoves
  <1>2. ASSUME NEW m \in unsent, SendFails(m)
        PROVE  IInv'
    <2>1. /\ unsent' \subseteq unsent
          /\ UNCHANGED <<phase, assigned, free, queue, fetched, handler, dispatched, expiring, listening, channel, shown,
                         cleared, aged, retry, crashes>>
      BY <1>2 DEF SendFails, requests, rows, kafka, offers
    <2>2. HandlerOK'
      BY <1>t, <2>1 DEF HandlerOK
    <2> QED
      BY <1>q, <2>1, <2>2, KafkaMoves
  <1>3. ASSUME NEW topic \in Topics, Poll(topic)
        PROVE  IInv'
    <2>1. /\ queue[topic] # <<>> /\ handler.step = "idle"
          /\ queue' = [queue EXCEPT ![topic] = Tail(queue[topic])]
          /\ fetched' = [fetched EXCEPT ![topic] = Append(fetched[topic], Head(queue[topic]))]
          /\ handler' = [topic |-> topic, ride |-> Head(queue[topic]), step |-> "read", targets |-> {}]
          /\ UNCHANGED <<phase, assigned, free, unsent, dispatched, expiring, listening, channel, shown, cleared, aged,
                         retry, crashes>>
      BY <1>3 DEF Poll, Working, requests, rows, offers
    <2>2. Head(queue[topic]) \in Rides /\ Tail(queue[topic]) \in Seq(Rides)
          /\ Append(fetched[topic], Head(queue[topic])) \in Seq(Rides)
      BY <1>q, <2>1, QueueFacts
    <2>3. topic = Accepted => /\ Head(queue[topic]) \in Closed /\ Tail(queue[topic]) \in Seq(Closed)
                              /\ Append(fetched[topic], Head(queue[topic])) \in Seq(Closed)
      BY <1>q, <2>1, QueueFacts
    <2>4. /\ queue' \in [Topics -> Seq(Rides)] /\ queue'[Accepted] \in Seq(Closed)
          /\ fetched' \in [Topics -> Seq(Rides)] /\ fetched'[Accepted] \in Seq(Closed)
      BY <1>q, <2>1, <2>2, <2>3
    <2>5. handler' \in Handlers /\ handler'.step = "read" /\ handler'.topic = topic
          /\ handler'.ride = Head(queue[topic])
      BY <2>1, <2>2 DEF Handlers, Steps
    <2>6. HandlerOK'
      BY <2>2, <2>5 DEF HandlerOK
    <2> QED
      BY <1>q, <2>1, <2>3, <2>4, <2>5, <2>6, KafkaMoves
  <1>4. CASE AutoCommit
    <2>1. /\ fetched' = [topic \in Topics |-> <<>>]
          /\ UNCHANGED <<phase, assigned, free, unsent, queue, handler, dispatched, expiring, listening, channel, shown,
                         cleared, aged, retry, crashes>>
      BY <1>4 DEF AutoCommit, requests, rows, offers
    <2>2. fetched' \in [Topics -> Seq(Rides)] /\ fetched'[Accepted] \in Seq(Closed)
      BY <1>q, <2>1, QueueFacts
    <2>3. HandlerOK'
      BY <1>t, <2>1 DEF HandlerOK
    <2> QED
      BY <1>q, <2>1, <2>2, <2>3, KafkaMoves
  <1>5. CASE RetryPublish
    <2>1. PICK r \in retry.todo :
              /\ Enqueue(Requested, r)
              /\ retry' = IF retry.todo = {r} THEN Asleep ELSE [retry EXCEPT !.todo = @ \ {r}]
      BY <1>5 DEF RetryPublish
    <2>2. retry \in [step : {"sleep", "publish", "dead"}, todo : SUBSET Rides] /\ r \in Rides
      BY <1>t DEF TypeOK
    <2>3. queue' \in [Topics -> Seq(Rides)] /\ queue'[Accepted] \in Seq(Closed)
      BY <1>e, <2>1, <2>2, TopicFacts
    <2>4. UNCHANGED <<phase, assigned, free, unsent, fetched, handler, dispatched, expiring, listening, channel, shown,
                      cleared, aged, crashes>>
      BY <1>5 DEF RetryPublish, requests, rows, offers
    <2>5. retry' \in [step : {"sleep", "publish", "dead"}, todo : SUBSET Rides]
      BY <2>1, <2>2 DEF Asleep
    <2>6. TypeOK'
      BY <1>t, <2>3, <2>4, <2>5 DEF TypeOK
    <2>7. HandlerOK' /\ AcceptedIsClosed' /\ NothingAfterAccepted'
      BY <1>t, <2>3, <2>4 DEF HandlerOK, AcceptedIsClosed, Closed, NothingAfterAccepted, FanningOut
    <2> QED
      BY <2>6, <2>7 DEF IInv
  <1>6. CASE Crash \/ Stop
    <2>1. /\ fetched' = [topic \in Topics |-> <<>>] /\ handler' = Idle /\ channel' = <<>>
          /\ listening' = FALSE
          /\ shown' = [d \in Drivers |-> {}] /\ crashes' = crashes + 1 /\ crashes < MaxCrashes /\ retry' = Asleep
          /\ UNCHANGED <<phase, assigned, free, dispatched, expiring, cleared, aged>>
          /\ unsent' \subseteq unsent
          /\ queue' = queue \/ queue' = [topic \in Topics |-> fetched[topic] \o queue[topic]]
      BY <1>6 DEF Crash, Stop, Restart, requests, rows
    <2>2. fetched' \in [Topics -> Seq(Rides)] /\ fetched'[Accepted] \in Seq(Closed)
          /\ channel' \in Seq(Drivers \X Rides) /\ shown' \in [Drivers -> SUBSET Rides]
      BY <1>q, <2>1, QueueFacts
    <2>3. queue' \in [Topics -> Seq(Rides)] /\ queue'[Accepted] \in Seq(Closed)
      <3>1. \A topic \in Topics : fetched[topic] \o queue[topic] \in Seq(Rides)
        BY <1>q, QueueFacts
      <3>2. fetched[Accepted] \o queue[Accepted] \in Seq(Closed)
        BY <1>q, QueueFacts
      <3> QED
        BY <1>q, <2>1, <3>1, <3>2
    <2>4. /\ handler'.step = "idle" /\ handler'.topic = "none" /\ handler' \in Handlers
      BY <2>1 DEF Idle, Handlers, Steps
    <2>5. crashes' \in 0..MaxCrashes
      BY <1>q, <2>1, BoundAssumption DEF BoundAssumption
    <2>6. retry' \in [step : {"sleep", "publish", "dead"}, todo : SUBSET Rides]
      BY <2>1 DEF Asleep
    <2>7. TypeOK'
      BY <1>t, <1>q, <2>1, <2>2, <2>3, <2>4, <2>5, <2>6 DEF TypeOK, Handlers, Steps
    <2>8. HandlerOK' /\ NothingAfterAccepted'
      BY <1>t, <2>1, <2>4, TopicFacts DEF HandlerOK, NothingAfterAccepted, FanningOut
    <2>9. AcceptedIsClosed'
      BY <1>t, <2>1, <2>2, <2>3, <2>4, TopicFacts DEF AcceptedIsClosed, Closed
    <2> QED
      BY <2>7, <2>8, <2>9 DEF IInv
  <1> QED
    BY <1>1, <1>2, <1>3, <1>4, <1>5, <1>6

-----------------------------------------------------------------------------
(* The handlers and the loops                                              *)

\* One await of a handler.
LEMMA HandleKeeps ==
    ASSUME IInv, Handle \/ HandlerFails
    PROVE  IInv'
  <1>t. TypeOK /\ HandlerOK /\ AcceptedIsClosed /\ NothingAfterAccepted
    BY DEF IInv
  <1>0. /\ handler \in Handlers /\ dispatched \in [Rides -> SUBSET Drivers] /\ channel \in Seq(Drivers \X Rides)
        /\ shown \in [Drivers -> SUBSET Rides] /\ expiring \subseteq Rides /\ cleared \subseteq Rides
        /\ free \subseteq Drivers /\ cleared \subseteq Closed
        /\ Idle \in Handlers /\ Idle.step = "idle" /\ Idle.topic = "none"
    BY <1>t, TypeParts DEF AcceptedIsClosed, Idle, Handlers, Steps
  \* What each step below has left to show.
  <1>1. ASSUME UNCHANGED <<phase, assigned, free, unsent, queue, fetched, aged, retry, crashes, listening>>,
               handler' \in Handlers, HandlerOK', handler'.topic = Accepted => handler'.ride \in Closed,
               dispatched' \in [Rides -> SUBSET Drivers], expiring' \subseteq Rides,
               channel' \in Seq(Drivers \X Rides), shown' \in [Drivers -> SUBSET Rides],
               cleared' \subseteq Closed, NothingAfterAccepted'
        PROVE  IInv'
    <2>1. TypeOK'
      BY <1>t, <1>1, TypeParts DEF TypeOK, Handlers, Steps, Closed
    <2>2. AcceptedIsClosed'
      BY <1>t, <1>1 DEF AcceptedIsClosed, Closed
    <2> QED
      BY <1>1, <2>1, <2>2 DEF IInv
  \* A handler that returns or goes on to a step where it still fans out, or does not.
  <1>2. ASSUME NEW step \in Steps, handler' = Idle \/ handler' = [handler EXCEPT !.step = step]
        PROVE  /\ handler' \in Handlers
               /\ handler' = Idle \/ (handler'.step = step /\ handler'.topic = handler.topic
                                        /\ handler'.ride = handler.ride /\ handler'.targets = handler.targets)
    BY <1>0, <1>2 DEF Handlers
  <1>3. CASE ReadRide
    <2>1. /\ handler.step = "read"
          /\ UNCHANGED <<phase, assigned, free, unsent, queue, fetched, aged, retry, crashes,
                         dispatched, expiring, listening, channel, shown, cleared>>
      BY <1>3 DEF ReadRide, Working, requests, rows, kafka, offers
    <2>2. CASE handler.topic = Requested /\ phase[handler.ride] = "open" /\ Goto("search")
      <3>1. handler' \in Handlers /\ handler'.step = "search" /\ handler'.topic = Requested
            /\ handler'.ride = handler.ride
        BY <1>0, <1>2, <2>2 DEF Goto, Steps, Handlers
      <3>2. HandlerOK'
        BY <1>t, <2>1, <2>2, <3>1 DEF HandlerOK
      <3>3. handler.ride \notin cleared
        BY <1>0, <2>2 DEF Closed
      <3>4. NothingAfterAccepted'
        BY <1>t, <2>1, <3>1, <3>3 DEF NothingAfterAccepted, FanningOut
      <3> QED
        BY <1>0, <1>1, <2>1, <3>1, <3>2, <3>4, TopicFacts
    <2>3. CASE handler.topic = Accepted /\ Goto("members")
      <3>1. handler' \in Handlers /\ handler'.step = "members" /\ handler'.topic = Accepted
            /\ handler'.ride = handler.ride
        BY <1>0, <1>2, <2>3 DEF Goto, Steps, Handlers
      <3>2. HandlerOK'
        BY <1>t, <2>1, <2>3, <3>1 DEF HandlerOK
      <3>3. NothingAfterAccepted'
        BY <1>t, <2>1, <3>1, TopicFacts DEF NothingAfterAccepted, FanningOut
      <3> QED
        BY <1>0, <1>1, <1>t, <2>1, <2>3, <3>1, <3>2, <3>3 DEF AcceptedIsClosed
    <2>4. CASE Return
      BY <1>0, <1>1, <1>t, <2>1, <2>4, TopicFacts DEF Return, HandlerOK, NothingAfterAccepted, FanningOut
    <2> QED
      BY <1>3, <2>2, <2>3, <2>4 DEF ReadRide, Dispatchable
  <1>4. CASE HandlerFails
    <2>1. /\ handler' = Idle
          /\ UNCHANGED <<phase, assigned, free, unsent, queue, fetched, aged, retry, crashes,
                         dispatched, expiring, listening, channel, shown, cleared>>
      BY <1>4 DEF HandlerFails, Return, requests, rows, kafka, offers
    <2> QED
      BY <1>0, <1>1, <1>t, <2>1, TopicFacts DEF HandlerOK, NothingAfterAccepted, FanningOut
  <1>5. CASE Search
    <2>1. /\ handler.step = "search"
          /\ UNCHANGED <<phase, assigned, free, unsent, queue, fetched, aged, retry, crashes,
                         dispatched, expiring, listening, channel, shown, cleared>>
      BY <1>5 DEF Search, Working, requests, rows, kafka, offers
    <2>2. CASE Return
      BY <1>0, <1>1, <1>t, <2>1, <2>2, TopicFacts DEF Return, HandlerOK, NothingAfterAccepted, FanningOut
    <2>3. CASE handler' = [handler EXCEPT !.step = "sadd", !.targets = free]
      <3>1. handler' \in Handlers /\ handler'.step = "sadd" /\ handler'.topic = handler.topic
            /\ handler'.ride = handler.ride
        BY <1>0, <2>3 DEF Handlers, Steps
      <3>2. HandlerOK'
        BY <1>t, <2>1, <3>1 DEF HandlerOK
      <3>3. NothingAfterAccepted'
        BY <1>t, <2>1, <3>1 DEF NothingAfterAccepted, FanningOut, HandlerOK
      <3> QED
        BY <1>0, <1>1, <1>t, <2>1, <3>1, <3>2, <3>3 DEF AcceptedIsClosed
    <2> QED
      BY <1>5, <2>2, <2>3 DEF Search
  <1>6. CASE AddDispatched
    <2>1. /\ handler.step = "sadd" /\ Goto("expire")
          /\ dispatched' = [dispatched EXCEPT ![handler.ride] = @ \cup handler.targets]
          /\ UNCHANGED <<phase, assigned, free, unsent, queue, fetched, aged, retry, crashes,
                         expiring, listening, channel, shown, cleared>>
      BY <1>6 DEF AddDispatched, Sadd, Working, requests, rows, kafka
    <2>2. handler' \in Handlers /\ handler'.step = "expire" /\ handler'.topic = handler.topic
          /\ handler'.ride = handler.ride
      BY <1>0, <1>2, <2>1 DEF Goto, Steps, Handlers
    <2>3. HandlerOK'
      BY <1>t, <2>1, <2>2 DEF HandlerOK
    <2>4. handler.topic = Requested /\ handler.ride \in Rides /\ handler.ride \notin cleared
      BY <1>t, <2>1 DEF HandlerOK, NothingAfterAccepted, FanningOut
    <2>5. dispatched' \in [Rides -> SUBSET Drivers]
      BY <1>0, <2>1, <2>4 DEF Handlers
    <2>6. NothingAfterAccepted'
      BY <1>t, <1>0, <2>1, <2>2, <2>4 DEF NothingAfterAccepted, FanningOut
    <2> QED
      BY <1>0, <1>1, <2>1, <2>2, <2>3, <2>4, <2>5, <2>6, TopicFacts
  <1>7. CASE SetTtl
    <2>1. /\ handler.step = "expire" /\ Goto("offer")
          /\ expiring' \subseteq expiring \cup {handler.ride}
          /\ UNCHANGED <<phase, assigned, free, unsent, queue, fetched, aged, retry, crashes,
                         dispatched, listening, channel, shown, cleared>>
      BY <1>7 DEF SetTtl, Working, requests, rows, kafka
    <2>2. handler' \in Handlers /\ handler'.step = "offer" /\ handler'.topic = handler.topic
          /\ handler'.ride = handler.ride
      BY <1>0, <1>2, <2>1 DEF Goto, Steps, Handlers
    <2>3. HandlerOK' /\ handler.ride \in Rides
      BY <1>t, <2>1, <2>2 DEF HandlerOK
    <2>4. NothingAfterAccepted'
      BY <1>t, <2>1, <2>2 DEF NothingAfterAccepted, FanningOut
    <2> QED
      BY <1>0, <1>1, <1>t, <2>1, <2>2, <2>3, <2>4 DEF AcceptedIsClosed
  <1>8. CASE PublishOffer
    <2>1. PICK d \in handler.targets :
              /\ handler.step = "offer"
              /\ channel' \in {channel, Append(channel, <<d, handler.ride>>)}
              /\ handler' = IF handler.targets = {d} THEN Idle ELSE [handler EXCEPT !.targets = @ \ {d}]
              /\ UNCHANGED <<phase, assigned, free, unsent, queue, fetched, aged, retry, crashes,
                             dispatched, expiring, listening, shown, cleared>>
      BY <1>8 DEF PublishOffer, Offer, Working, requests, rows, kafka
    <2>2. /\ handler' \in Handlers
          /\ handler' = Idle \/ (handler'.step = "offer" /\ handler'.topic = handler.topic
                                   /\ handler'.ride = handler.ride)
      BY <1>0, <2>1 DEF Handlers
    <2>3. HandlerOK' /\ handler.ride \in Rides
      BY <1>0, <1>t, <2>1, <2>2 DEF HandlerOK
    <2>4. NothingAfterAccepted'
      BY <1>0, <1>t, <2>1, <2>2, TopicFacts DEF NothingAfterAccepted, FanningOut
    <2>5. channel' \in Seq(Drivers \X Rides)
      <3>1. <<d, handler.ride>> \in Drivers \X Rides
        BY <1>0, <2>1, <2>3 DEF Handlers
      <3>2. CASE channel' = channel
        BY <1>0, <3>2
      <3>3. CASE channel' = Append(channel, <<d, handler.ride>>)
        BY <1>0, <3>1, <3>3, QueueFacts
      <3> QED
        BY <2>1, <3>2, <3>3
    <2> QED
      BY <1>0, <1>1, <1>t, <2>1, <2>2, <2>3, <2>4, <2>5, TopicFacts DEF AcceptedIsClosed
  <1>9. CASE CancelOffers
    <2>1. PICK driver \in assigned[handler.ride] \cup {None} :
              shown' = [d \in Drivers |-> IF d \in dispatched[handler.ride] \ {driver}
                                          THEN shown[d] \ {handler.ride} ELSE shown[d]]
      BY <1>9 DEF CancelOffers
    <2>2. /\ handler.step = "members" /\ Goto("delete")
          /\ UNCHANGED <<phase, assigned, free, unsent, queue, fetched, aged, retry, crashes,
                         dispatched, expiring, listening, channel, cleared>>
      BY <1>9 DEF CancelOffers, Working, requests, rows, kafka
    <2>3. handler' \in Handlers /\ handler'.step = "delete" /\ handler'.topic = handler.topic
          /\ handler'.ride = handler.ride
      BY <1>0, <1>2, <2>2 DEF Goto, Steps, Handlers
    <2>4. HandlerOK'
      BY <1>t, <2>2, <2>3 DEF HandlerOK
    <2>5. NothingAfterAccepted'
      BY <1>t, <2>2, <2>3 DEF NothingAfterAccepted, FanningOut
    <2>6. shown' \in [Drivers -> SUBSET Rides]
      BY <1>0, <2>1
    <2> QED
      BY <1>0, <1>1, <1>t, <2>2, <2>3, <2>4, <2>5, <2>6 DEF AcceptedIsClosed
  <1>10. CASE DeleteDispatched
    <2>1. /\ handler.step = "delete" /\ handler' = Idle
          /\ dispatched' = [dispatched EXCEPT ![handler.ride] = {}]
          /\ expiring' \subseteq expiring
          /\ cleared' = cleared \cup {handler.ride}
          /\ UNCHANGED <<phase, assigned, free, unsent, queue, fetched, aged, retry, crashes, listening, channel, shown>>
      BY <1>10 DEF DeleteDispatched, Return, Working, requests, rows, kafka
    <2>2. handler.ride \in Closed /\ handler.ride \in Rides
      BY <1>t, <2>1 DEF HandlerOK, AcceptedIsClosed
    <2>3. HandlerOK' /\ handler' \in Handlers /\ handler'.topic = "none"
      BY <1>0, <2>1 DEF HandlerOK
    <2>4. dispatched' \in [Rides -> SUBSET Drivers]
      BY <1>0, <2>1
    <2>5. NothingAfterAccepted'
      BY <1>0, <1>t, <2>1, <2>2, <2>3, TopicFacts DEF NothingAfterAccepted, FanningOut
    <2> QED
      BY <1>0, <1>1, <2>1, <2>2, <2>3, <2>4, <2>5, TopicFacts
  <1> QED
    BY <1>3, <1>4, <1>5, <1>6, <1>7, <1>8, <1>9, <1>10 DEF Handle

\* The listener, the TTL, the passing of time, and the rest of the retry loop.
LEMMA LoopsKeep ==
    ASSUME IInv, Subscribe \/ Deliver \/ (\E r \in Rides : Expire(r) \/ Age(r)) \/ RetryQuery \/ RetryFails \/ UNCHANGED vars
    PROVE  IInv'
  <1>t. TypeOK /\ HandlerOK /\ AcceptedIsClosed /\ NothingAfterAccepted
    BY DEF IInv
  <1>1. CASE Deliver
    <2>1. /\ channel # <<>> /\ channel' = Tail(channel)
          /\ shown' = [shown EXCEPT ![Head(channel)[1]] = @ \cup {Head(channel)[2]}]
          /\ UNCHANGED <<phase, assigned, free, unsent, queue, fetched, aged, retry, crashes, handler,
                         dispatched, expiring, listening, cleared>>
      BY <1>1 DEF Deliver, requests, rows, kafka
    <2>2. channel \in Seq(Drivers \X Rides) /\ shown \in [Drivers -> SUBSET Rides]
      BY <1>t DEF TypeOK
    <2>3. Head(channel) \in Drivers \X Rides /\ channel' \in Seq(Drivers \X Rides)
      BY <2>1, <2>2, QueueFacts
    <2>4. shown' \in [Drivers -> SUBSET Rides]
      BY <2>1, <2>2, <2>3
    <2>5. TypeOK'
      BY <1>t, <2>1, <2>3, <2>4 DEF TypeOK
    <2> QED
      BY <1>t, <2>1, <2>5 DEF IInv, HandlerOK, AcceptedIsClosed, Closed, NothingAfterAccepted, FanningOut
  <1>0. CASE Subscribe
    <2>1. /\ listening' = TRUE
          /\ UNCHANGED <<phase, assigned, free, unsent, queue, fetched, aged, retry, crashes, handler,
                         dispatched, expiring, channel, shown, cleared>>
      BY <1>0 DEF Subscribe, requests, rows, kafka
    <2> QED
      BY <1>t, <2>1 DEF IInv, TypeOK, HandlerOK, AcceptedIsClosed, Closed, NothingAfterAccepted, FanningOut
  <1>2. ASSUME NEW r \in Rides, Expire(r)
        PROVE  IInv'
    <2>1. /\ expiring' = expiring \ {r} /\ dispatched' = [dispatched EXCEPT ![r] = {}]
          /\ UNCHANGED <<phase, assigned, free, unsent, queue, fetched, aged, retry, crashes, handler,
                         listening, channel, shown, cleared>>
      BY <1>2 DEF Expire, requests, rows, kafka
    <2>2. TypeOK'
      BY <1>t, <2>1 DEF TypeOK
    <2>3. dispatched \in [Rides -> SUBSET Drivers] /\ cleared \subseteq Rides
      BY <1>t DEF TypeOK
    <2>4. NothingAfterAccepted'
      BY <1>t, <2>1, <2>3 DEF NothingAfterAccepted, FanningOut
    <2> QED
      BY <1>t, <2>1, <2>2, <2>4 DEF IInv, HandlerOK, AcceptedIsClosed, Closed
  <1>3. ASSUME NEW r \in Rides, Age(r)
        PROVE  IInv'
    <2>1. /\ aged' = aged \cup {r}
          /\ UNCHANGED <<phase, assigned, free, unsent, queue, fetched, retry, crashes, handler,
                         dispatched, expiring, listening, channel, shown, cleared>>
      BY <1>3 DEF Age, requests, rows, kafka, offers
    <2> QED
      BY <1>t, <2>1 DEF IInv, TypeOK, HandlerOK, AcceptedIsClosed, Closed, NothingAfterAccepted, FanningOut
  <1>4. CASE RetryQuery \/ RetryFails
    <2>1. UNCHANGED <<phase, assigned, free, unsent, queue, fetched, crashes, handler, aged,
                      dispatched, expiring, listening, channel, shown, cleared>>
      BY <1>4 DEF RetryQuery, RetryFails, requests, rows, kafka, offers
    <2>2. retry' \in [step : {"sleep", "publish", "dead"}, todo : SUBSET Rides]
      <3>1. Stale \subseteq Rides
        BY <1>t DEF Stale, TypeOK
      <3> QED
        BY <1>4, <3>1 DEF RetryQuery, RetryFails, Asleep, Dead
    <2>3. TypeOK'
      BY <1>t, <2>1, <2>2 DEF TypeOK
    <2> QED
      BY <1>t, <2>1, <2>3 DEF IInv, HandlerOK, AcceptedIsClosed, Closed, NothingAfterAccepted, FanningOut
  <1>5. CASE UNCHANGED vars
    <2>1. UNCHANGED <<phase, assigned, free, unsent, queue, fetched, crashes, handler, aged, retry,
                      dispatched, expiring, listening, channel, shown, cleared>>
      BY <1>5 DEF vars, requests, rows, kafka, offers
    <2> QED
      BY <1>t, <2>1 DEF IInv, TypeOK, HandlerOK, AcceptedIsClosed, Closed, NothingAfterAccepted, FanningOut
  <1> QED
    BY <1>0, <1>1, <1>2, <1>3, <1>4, <1>5

LEMMA StepInv == IInv /\ [Next]_vars => IInv'
  BY RequestsKeep, KafkaKeeps, HandleKeeps, LoopsKeep DEF Next

-----------------------------------------------------------------------------
(* Offers                                                                  *)

Held == OffersCanBeRetracted /\ TargetsAreDispatched

\* OffersCanBeRetracted, offer by offer.
LEMMA OffersOneByOne ==
    OffersCanBeRetracted <=>
        \A r \in Rides \ cleared : \A d \in Drivers :
            (r \in shown[d] \/ \E i \in DOMAIN channel : channel[i] = <<d, r>>) => d \in dispatched[r]
  BY DEF OffersCanBeRetracted, Offered

\* Within the TTL a key goes only when ride-accepted has been handled; until then what is
\* sent was added before, and nothing else takes a driver out.
LEMMA HeldKeeps ==
    ASSUME ~MayExpire, IInv, Held, [Next]_vars
    PROVE  Held'
  <1>t. /\ HandlerOK /\ handler \in Handlers /\ dispatched \in [Rides -> SUBSET Drivers]
        /\ channel \in Seq(Drivers \X Rides) /\ shown \in [Drivers -> SUBSET Rides]
    BY TypeParts DEF IInv
  <1>h. OffersCanBeRetracted /\ TargetsAreDispatched
    BY DEF Held
  <1>o. \A r \in Rides \ cleared : \A d \in Drivers :
            (r \in shown[d] \/ \E i \in DOMAIN channel : channel[i] = <<d, r>>) => d \in dispatched[r]
    BY <1>h, OffersOneByOne
  <1>i. Idle.step = "idle"
    BY DEF Idle
  \* Handlers that only return or go on.
  <1>1. ASSUME UNCHANGED <<dispatched, channel, shown, cleared>>,
               \/ UNCHANGED handler \/ handler'.step \notin {"expire", "offer"}
               \/ handler.step = "expire" /\ handler'.ride = handler.ride /\ handler'.targets = handler.targets
        PROVE  Held'
    <2>1. OffersCanBeRetracted'
      BY <1>1, <1>h DEF OffersCanBeRetracted, Offered
    <2>2. TargetsAreDispatched'
      BY <1>1, <1>h DEF TargetsAreDispatched
    <2> QED
      BY <2>1, <2>2 DEF Held
  <1>2. CASE \/ Requests \/ (\E m \in unsent : Send(m) \/ SendFails(m)) \/ AutoCommit
             \/ Subscribe \/ (\E r \in Rides : Age(r)) \/ RetryQuery \/ RetryPublish \/ RetryFails \/ UNCHANGED vars
    <2>1. UNCHANGED <<handler, dispatched, channel, shown, cleared>>
      BY <1>2 DEF Requests, RequestRide, AcceptRide, CompleteRide, CancelRide, Move, Owe, Send, SendFails,
                  AutoCommit, Subscribe, Age, RetryQuery, RetryPublish, RetryFails, vars, offers
    <2> QED
      BY <1>1, <2>1
  <1>3. CASE \/ (\E topic \in Topics : Poll(topic)) \/ ReadRide \/ Search \/ SetTtl \/ HandlerFails
    <2>1. UNCHANGED <<dispatched, channel, shown, cleared>>
      BY <1>3 DEF Poll, ReadRide, Search, SetTtl, HandlerFails, offers
    <2>2. CASE \E topic \in Topics : Poll(topic)
      <3>1. handler'.step = "read"
        BY <2>2 DEF Poll
      <3> QED
        BY <1>1, <2>1, <3>1
    <2>3. CASE ReadRide \/ Search \/ HandlerFails
      <3>1. handler'.step \in {"idle", "search", "sadd", "members"}
        BY <1>t, <1>i, <2>3 DEF ReadRide, Search, HandlerFails, Goto, Return, Handlers
      <3> QED
        BY <1>1, <2>1, <3>1
    <2>4. CASE SetTtl
      <3>1. handler.step = "expire" /\ handler'.ride = handler.ride /\ handler'.targets = handler.targets
        BY <1>t, <2>4 DEF SetTtl, Working, Goto, Handlers
      <3> QED
        BY <1>1, <2>1, <3>1
    <2> QED
      BY <1>3, <2>2, <2>3, <2>4
  <1>4. CASE AddDispatched
    <2>1. /\ handler.step = "sadd"
          /\ dispatched' = [dispatched EXCEPT ![handler.ride] = @ \cup handler.targets]
          /\ UNCHANGED <<channel, shown, cleared>>
          /\ handler'.ride = handler.ride /\ handler'.targets = handler.targets
      BY <1>4, <1>t DEF AddDispatched, Sadd, Goto, Working, Handlers
    <2>2. handler.ride \in Rides
      BY <1>t, <2>1 DEF HandlerOK
    <2>3. /\ \A r \in Rides : dispatched[r] \subseteq dispatched'[r]
          /\ handler.targets \subseteq dispatched'[handler.ride]
      BY <1>t, <2>1, <2>2
    <2>4. OffersCanBeRetracted'
      BY <1>h, <2>1, <2>3 DEF OffersCanBeRetracted, Offered
    <2>5. TargetsAreDispatched'
      BY <2>1, <2>3 DEF TargetsAreDispatched
    <2> QED
      BY <2>4, <2>5 DEF Held
  <1>5. CASE PublishOffer
    <2>1. PICK d \in handler.targets :
              /\ handler.step = "offer"
              /\ channel' \in {channel, Append(channel, <<d, handler.ride>>)}
              /\ handler' = IF handler.targets = {d} THEN Idle ELSE [handler EXCEPT !.targets = @ \ {d}]
              /\ UNCHANGED <<dispatched, shown, cleared>>
      BY <1>5 DEF PublishOffer, Offer, Working
    <2>2. d \in dispatched[handler.ride]
      BY <1>h, <2>1 DEF TargetsAreDispatched
    <2>3. ASSUME NEW i \in DOMAIN channel'
          PROVE  (i \in DOMAIN channel /\ channel'[i] = channel[i]) \/ channel'[i] = <<d, handler.ride>>
      <3>1. CASE channel' = channel
        BY <2>3, <3>1
      <3>2. CASE channel' = Append(channel, <<d, handler.ride>>)
        BY <1>t, <2>3, <3>2
      <3> QED
        BY <2>1, <3>1, <3>2
    <2>4. ASSUME NEW r \in Rides \ cleared, NEW e \in Drivers,
                 r \in shown[e] \/ \E i \in DOMAIN channel' : channel'[i] = <<e, r>>
          PROVE  e \in dispatched[r]
      <3>1. CASE r \in shown[e]
        BY <1>o, <3>1
      <3>2. CASE \E i \in DOMAIN channel' : channel'[i] = <<e, r>>
        <4>1. (\E i \in DOMAIN channel : channel[i] = <<e, r>>) \/ <<e, r>> = <<d, handler.ride>>
          BY <2>3, <3>2
        <4> QED
          BY <1>o, <2>2, <4>1
      <3> QED
        BY <2>4, <3>1, <3>2
    <2>5. OffersCanBeRetracted'
      BY <2>1, <2>4 DEF OffersCanBeRetracted, Offered
    <2>6. TargetsAreDispatched'
      <3>1. CASE handler' = Idle
        BY <1>i, <3>1 DEF TargetsAreDispatched
      <3>2. CASE handler' = [handler EXCEPT !.targets = @ \ {d}]
        <4>1. handler'.ride = handler.ride /\ handler'.targets \subseteq handler.targets
          BY <1>t, <3>2 DEF Handlers
        <4> QED
          BY <1>h, <2>1, <4>1 DEF TargetsAreDispatched
      <3> QED
        BY <2>1, <3>1, <3>2
    <2> QED
      BY <2>5, <2>6 DEF Held
  <1>6. CASE CancelOffers
    <2>1. PICK driver \in assigned[handler.ride] \cup {None} :
              shown' = [d \in Drivers |-> IF d \in dispatched[handler.ride] \ {driver}
                                          THEN shown[d] \ {handler.ride} ELSE shown[d]]
      BY <1>6 DEF CancelOffers
    <2>2. UNCHANGED <<dispatched, channel, cleared>> /\ handler'.step = "delete"
      BY <1>6, <1>t DEF CancelOffers, Goto, Handlers
    <2>3. \A d \in Drivers : shown'[d] \subseteq shown[d]
      BY <2>1
    <2>4. OffersCanBeRetracted'
      BY <1>h, <2>2, <2>3 DEF OffersCanBeRetracted, Offered
    <2> QED
      BY <2>2, <2>4 DEF Held, TargetsAreDispatched
  <1>7. CASE DeleteDispatched
    <2>1. /\ dispatched' = [dispatched EXCEPT ![handler.ride] = {}] /\ handler' = Idle
          /\ cleared' = cleared \cup {handler.ride} /\ UNCHANGED <<channel, shown>>
      BY <1>7 DEF DeleteDispatched, Return
    <2>2. \A r \in Rides \ cleared' : r \notin cleared /\ dispatched'[r] = dispatched[r]
      BY <1>t, <2>1
    <2>3. OffersCanBeRetracted'
      BY <1>h, <2>1, <2>2 DEF OffersCanBeRetracted, Offered
    <2> QED
      BY <1>i, <2>1, <2>3 DEF Held, TargetsAreDispatched
  <1>8. CASE Deliver
    <2>1. /\ channel # <<>> /\ channel' = Tail(channel)
          /\ shown' = [shown EXCEPT ![Head(channel)[1]] = @ \cup {Head(channel)[2]}]
          /\ UNCHANGED <<handler, dispatched, cleared>>
      BY <1>8 DEF Deliver
    <2>2. /\ Head(channel) \in Drivers \X Rides /\ Head(channel) = channel[1] /\ 1 \in DOMAIN channel
          /\ \A i \in DOMAIN channel' : i + 1 \in DOMAIN channel /\ channel'[i] = channel[i + 1]
      BY <1>t, <2>1
    <2>3. ASSUME NEW r \in Rides, NEW d \in Drivers,
                 r \in shown'[d] \/ \E i \in DOMAIN channel' : channel'[i] = <<d, r>>
          PROVE  r \in shown[d] \/ \E i \in DOMAIN channel : channel[i] = <<d, r>>
      <3>1. CASE r \in shown'[d]
        <4>1. r \in shown[d] \/ Head(channel) = <<d, r>>
          BY <1>t, <2>1, <2>2, <3>1
        <4> QED
          BY <2>2, <4>1
      <3>2. CASE \E i \in DOMAIN channel' : channel'[i] = <<d, r>>
        BY <2>2, <3>2
      <3> QED
        BY <2>3, <3>1, <3>2
    <2>4. OffersCanBeRetracted'
      BY <1>o, <2>1, <2>3 DEF OffersCanBeRetracted, Offered
    <2> QED
      BY <1>h, <2>1, <2>4 DEF Held, TargetsAreDispatched
  <1>9. CASE Crash \/ Stop
    <2>1. /\ handler' = Idle /\ channel' = <<>> /\ shown' = [d \in Drivers |-> {}]
          /\ UNCHANGED <<dispatched, cleared>>
      BY <1>9 DEF Crash, Stop, Restart
    <2> QED
      BY <1>i, <2>1 DEF Held, TargetsAreDispatched, OffersCanBeRetracted, Offered
  <1>10. ASSUME NEW r \in Rides, Expire(r)
         PROVE  FALSE
    BY <1>10 DEF Expire
  <1> QED
    BY <1>2, <1>3, <1>4, <1>5, <1>6, <1>7, <1>8, <1>9, <1>10 DEF Next, Handle

-----------------------------------------------------------------------------
(* The theorems                                                            *)

LEMMA InvariantHolds == Spec => []IInv
  <1> QED
    BY InitInv, StepInv, PTL DEF Spec

\* The stores, queues and loops keep their types.
THEOREM TypeCorrect == Spec => []TypeOK
  <1>1. IInv => TypeOK
    BY DEF IInv
  <1> QED
    BY <1>1, InvariantHolds, PTL

\* Once ride-accepted has been handled its ride is not dispatched again, whatever is
\* retried, redelivered or overtaken.
THEOREM AcceptedIsTheEnd == Spec => []NothingAfterAccepted
  <1>1. IInv => NothingAfterAccepted
    BY DEF IInv
  <1> QED
    BY <1>1, InvariantHolds, PTL

\* As long as the TTL does not pass, every driver who has been sent an offer is in the set
\* that ride-accepted will retract it from: TargetsAreDispatched makes it inductive.
THEOREM OffersStayRetractable ==
    ASSUME ~MayExpire
    PROVE  Spec => []OffersCanBeRetracted
  <1>1. Init => Held
    BY DEF Init, Idle, Held, OffersCanBeRetracted, Offered, TargetsAreDispatched
  <1>2. IInv /\ Held /\ [Next]_vars => Held'
    BY HeldKeeps
  <1>3. Held => OffersCanBeRetracted
    BY DEF Held
  <1> QED
    BY <1>1, <1>2, <1>3, InvariantHolds, PTL DEF Spec
=============================================================================
