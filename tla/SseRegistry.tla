----------------------------- MODULE SseRegistry -----------------------------
(***************************************************************************)
(* The in-process registry of Server-Sent-Events streams (sse.py), the two *)
(* endpoints that open streams (routers/rides.py, routers/driver.py) and    *)
(* everybody who emits to them or completes them.                          *)
(*                                                                         *)
(* sse.py never awaits but in stream()'s queue.get(), so register, emit,   *)
(* complete and unregister are atomic; what is not atomic is an endpoint:   *)
(* it checks the ride, returns a StreamingResponse, and only when that      *)
(* response starts does stream() register.  Every connection has a queue of *)
(* its own, here named by the connection.                                  *)
(***************************************************************************)
EXTENDS Naturals, Sequences, FiniteSets

CONSTANTS Rides,       \* ride ids: keys of the location streams
          Drivers,     \* driver ids: keys of the offer streams
          Conns,       \* bound on the connections ever opened
          None,        \* no queue under that key
          MaxPending,  \* bound on the events waiting in one queue
          AtOnce       \* how many connections clients keep under one key at a time

Keys == Rides \cup Drivers

ASSUME KeyAssumption == Rides \cap Drivers = {} /\ None \notin Conns \cup Keys
ASSUME PendingAssumption == MaxPending \in Nat \ {0} /\ AtOnce \in Nat

VARIABLES emitters,   \* _emitters: the connection whose queue is under each key, or None
          queue,      \* per connection: the items of its asyncio.Queue
          conn,       \* per connection: its key and where its request is
          status,     \* Postgres: rides.status
          event,      \* Kafka: the ride-completed and -cancelled messages to be handled
          newest      \* history: the connection that started last under each key

vars == <<emitters, queue, conn, status, event, newest>>

Ended == {"COMPLETED", "CANCELLED"} \X Rides

Unused == [key |-> None, state |-> "unused"]

Init ==
    /\ emitters = [k \in Keys |-> None]
    /\ queue = [c \in Conns |-> <<>>]
    /\ conn = [c \in Conns |-> Unused]
    /\ status = [r \in Rides |-> "REQUESTED"]
    /\ event = {}
    /\ newest = [k \in Keys |-> None]

-----------------------------------------------------------------------------
(* sse.py                                                                  *)

Register_Swapped(c, k) == emitters' = [emitters EXCEPT ![k] = k]

Register(c, k) == emitters' = [emitters EXCEPT ![k] = c]

Unregister(k) == emitters' = [emitters EXCEPT ![k] = None]

Put(c, item) == queue' = [queue EXCEPT ![c] = Append(@, item)]

\* An event: a no-op when nothing is registered under the key.
Emit(k) ==
    /\ IF emitters[k] = None THEN UNCHANGED queue
       ELSE Len(queue[emitters[k]]) < MaxPending /\ Put(emitters[k], "event")
    /\ UNCHANGED <<emitters, conn, status, event, newest>>

Popped_Kept(k) == UNCHANGED emitters
Popped(k) == Unregister(k)

\* Pops the queue and pushes the sentinel onto it.
Complete(k) ==
    IF emitters[k] = None THEN UNCHANGED <<emitters, queue>>
    ELSE Put(emitters[k], "close") /\ Popped(k)

-----------------------------------------------------------------------------
(* The endpoints and stream()                                              *)

Trackable == {"MATCHED", "IN_PROGRESS"}

\* GET /rides/{id}/location finds the ride trackable, GET /driver/offers has no guard;
\* both return a response whose stream() has yet to run.
Accept(c, k) ==
    /\ conn[c] = Unused
    /\ Cardinality({d \in Conns : conn[d].key = k /\ conn[d].state # "closed"}) < AtOnce
    /\ k \in Rides => status[k] \in Trackable
    /\ conn' = [conn EXCEPT ![c] = [key |-> k, state |-> "accepted"]]
    /\ UNCHANGED <<emitters, queue, status, event, newest>>

Move(c, s) == conn' = [conn EXCEPT ![c].state = s]

\* stream() starts: register(key) replaces whatever queue was there.
Start(c) ==
    /\ conn[c].state = "accepted"
    /\ Move(c, "open")
    /\ Register(c, conn[c].key)
    /\ newest' = [newest EXCEPT ![conn[c].key] = c]
    /\ UNCHANGED <<queue, status, event>>

Ends_Never(item) == FALSE
Ends(item) == item = "close"

\* queue.get(): an event is written to the client, the sentinel ends the stream.
Get(c) ==
    /\ conn[c].state = "open"
    /\ queue[c] # <<>>
    /\ queue' = [queue EXCEPT ![c] = Tail(@)]
    /\ IF Ends(Head(queue[c])) THEN Move(c, "closed") /\ Unregister(conn[c].key)
                               ELSE UNCHANGED <<conn, emitters>>
    /\ UNCHANGED <<status, event, newest>>

Finally_Leak(c) == UNCHANGED emitters
Finally(c) == IF conn[c].state = "open" THEN Unregister(conn[c].key) ELSE UNCHANGED emitters

\* The client is gone.  A stream() that has started runs its finally; its queue is
\* garbage.  After a restart of the process every client is.
Disconnect(c) ==
    /\ conn[c].state \in {"accepted", "open"}
    /\ Move(c, "closed")
    /\ queue' = [queue EXCEPT ![c] = <<>>]
    /\ Finally(c)
    /\ UNCHANGED <<status, event, newest>>

-----------------------------------------------------------------------------
(* Who emits and completes                                                 *)

\* A save of the ride, from whatever row it was read: RideService has saves that take an
\* ended ride to an earlier status, though none back to REQUESTED.  The event of a save
\* that ends it may get lost.
Advance(r) ==
    /\ \E s \in {"MATCHED", "IN_PROGRESS", "COMPLETED", "CANCELLED"} :
        /\ status[r] = "REQUESTED" => s \in {"MATCHED", "CANCELLED"}
        /\ status' = [status EXCEPT ![r] = s]
        /\ event' \in {event, event \cup ({<<s, r>>} \cap Ended)}
    /\ UNCHANGED <<emitters, queue, conn, newest>>

\* handle_ride_completed, which has the row confirm it, and handle_ride_cancelled.  A
\* message may be delivered again.
HandleEnd(s, r) ==
    /\ <<s, r>> \in event
    /\ event' \in {event, event \ {<<s, r>>}}
    /\ IF s = "COMPLETED" /\ status[r] # s THEN UNCHANGED <<emitters, queue>> ELSE Complete(r)
    /\ UNCHANGED <<conn, status, newest>>

\* go_offline closes the driver's own stream.
GoOffline(d) ==
    /\ Complete(d)
    /\ UNCHANGED <<conn, status, event, newest>>

Next ==
    \/ \E c \in Conns, k \in Keys : Accept(c, k)
    \/ \E c \in Conns : Start(c) \/ Get(c) \/ Disconnect(c)
    \/ \E k \in Keys : Emit(k)
    \/ \E r \in Rides : Advance(r)
    \/ \E m \in event : HandleEnd(m[1], m[2])
    \/ \E d \in Drivers : GoOffline(d)

Spec == Init /\ [][Next]_vars

\* The loop resumes a stream that waits for an item when there is one.
Fairness == \A c \in Conns : WF_vars(Get(c))

LiveSpec == Spec /\ Fairness

-----------------------------------------------------------------------------
(* Properties                                                              *)

\* Types of the registry, the queues and the connections.
TypeOK ==
    /\ emitters \in [Keys -> Conns \cup {None}]
    /\ queue \in [Conns -> Seq({"event", "close"})]
    /\ conn \in [Conns -> [key : Keys \cup {None}, state : {"unused", "accepted", "open", "closed"}]]
    /\ status \in [Rides -> {"REQUESTED", "MATCHED", "IN_PROGRESS", "COMPLETED", "CANCELLED"}]
    /\ event \subseteq Ended
    /\ newest \in [Keys -> Conns \cup {None}]

\* Whatever connects, reconnects and drops in whatever order, the registry only holds
\* queues somebody is reading, each under the key its client asked for: no event piles
\* up in a dead queue or goes to another client's stream.
RegisteredIsLive ==
    \A k \in Keys : emitters[k] # None =>
        conn[emitters[k]] = [key |-> k, state |-> "open"]

\* Nothing is ever queued behind the close sentinel, where it would be lost without a
\* reader knowing, and a queue that holds the sentinel is out of the registry.
CloseIsLast ==
    \A c \in Conns : \A i \in DOMAIN queue[c] :
        queue[c][i] = "close" => i = Len(queue[c]) /\ \A k \in Keys : emitters[k] # c

Closing(c) == \E i \in DOMAIN queue[c] : queue[c][i] = "close"

\* sse.py:1-2: the registry maps "a key ... to a live SSE connection's event queue".  The
\* stream that was started last under its key, open and not about to be closed, gets the
\* events of its key.
NewestIsRegistered ==
    \A k \in Keys :
        LET c == newest[k]
        IN  c # None /\ conn[c].state = "open" /\ ~Closing(c) => emitters[k] = c

\* A stream that has been completed ends, however many events are ahead of the sentinel.
CompletedStreamsEnd == \A c \in Conns : Closing(c) ~> conn[c].state = "closed"
=============================================================================
