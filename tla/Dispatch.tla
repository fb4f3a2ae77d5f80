------------------------------ MODULE Dispatch ------------------------------
(***************************************************************************)
(* From a committed ride to an offer on a driver's stream: the four Kafka  *)
(* topics, the consumer loop and its handlers (kafka_consumer.py), the     *)
(* fan-out (dispatch.py), the retry loop (stale_ride_retry.py) and the     *)
(* pub/sub listener (ride_offer_listener.py), each await a step.           *)
(*                                                                         *)
(* The requests of services/ride.py are the steps of RideAssignment, which  *)
(* RideService.tla is proved to implement, each followed by the publish it  *)
(* owes: what holds here holds for whatever the overlapping, failing        *)
(* handlers of RideService do to a ride.  A topic is one partition,         *)
(* read in order; nothing orders two topics.  The consumer commits its      *)
(* offsets in the background, whether or not the last message it fetched    *)
(* has been handled.  The payload of an offer is its ride.                  *)
(***************************************************************************)
EXTENDS Naturals, Sequences, FiniteSets

CONSTANTS Rides,         \* ride ids
          Drivers,       \* users with a driver profile
          None,          \* Python's None
          Published,     \* the topics this instance's requests publish on
          MaxQueue,      \* bound on the unread, and on the uncommitted, messages of a topic
          MaxChannel,    \* bound on the pub/sub messages the listener has yet to read
          MaxCrashes,    \* bound on the restarts of the process
          MayFail,       \* whether an awaited call of a handler or request may raise
          RetryMayFail,  \* whether an awaited call of the retry loop may raise
          MayExpire      \* whether DISPATCHED_TTL_SECONDS may pass

ASSUME BoundAssumption ==
    MaxQueue \in Nat \ {0} /\ MaxChannel \in Nat \ {0} /\ MaxCrashes \in Nat
ASSUME SwitchAssumption == {MayFail, RetryMayFail, MayExpire} \subseteq BOOLEAN
ASSUME NoneAssumption == None \notin Drivers

Requested == "ride-requested"
Accepted  == "ride-accepted"
Completed == "ride-completed"
Cancelled == "ride-cancelled"
Topics == {Requested, Accepted, Completed, Cancelled}

ASSUME PublishedAssumption == Published \subseteq Topics

VARIABLES phase,        \* Postgres: rides, as RideAssignment has them: "open" is REQUESTED
          assigned,     \* and whose accept of a ride has been committed
          free,         \* Redis: the drivers a search would find
          unsent,       \* events whose row is committed and whose publish is under way
          queue,        \* Kafka: per topic, the messages not yet fetched
          fetched,      \* Kafka: per topic, those fetched since the last offset commit
          handler,      \* _consume_loop: the message being handled and where
          dispatched,   \* Redis: the dispatched:{ride id} sets
          expiring,     \* Redis: the rides whose dispatched key has a TTL
          listening,    \* ride_offer_listener: whether it has subscribed
          channel,      \* Redis pub/sub: <<driver, ride>> offers on their way to the listener
          shown,        \* per driver: the offers pushed to the stream and not cancelled
          aged,         \* rides requested more than RETRY_CUTOFF ago
          retry,        \* _retry_loop: where it is and the rides still to publish
          cleared,      \* history: rides whose ride-accepted has been handled to the end
          crashes       \* how often the process has been restarted

rows     == <<phase, assigned>>
requests == <<rows, free>>
kafka    == <<queue, fetched>>
offers   == <<dispatched, expiring, listening, channel, shown, cleared>>
vars     == <<requests, unsent, kafka, handler, offers, aged, retry, crashes>>

Rows == INSTANCE RideAssignment

Idle == [topic |-> "none", ride |-> None, step |-> "idle", targets |-> {}]
Asleep == [step |-> "sleep", todo |-> {}]
Dead == [step |-> "dead", todo |-> {}]

Init ==
    /\ Rows!Init
    /\ free \in SUBSET Drivers
    /\ unsent = {}
    /\ queue = [topic \in Topics |-> <<>>]
    /\ fetched = [topic \in Topics |-> <<>>]
    /\ handler = Idle
    /\ dispatched = [r \in Rides |-> {}]
    /\ expiring = {}
    /\ listening = FALSE
    /\ channel = <<>>
    /\ shown = [d \in Drivers |-> {}]
    /\ aged = {}
    /\ retry = Asleep
    /\ cleared = {}
    /\ crashes = 0

-----------------------------------------------------------------------------
(* The requests: steps of RideAssignment, and the publish that follows     *)

\* The request that has just committed ride r owes the topic an event.
Owe(topic, r) ==
    /\ unsent' = IF topic \in Published THEN unsent \cup {<<topic, r>>} ELSE unsent
    /\ UNCHANGED <<free, kafka, handler, offers, aged, retry, crashes>>

RequestRide(r) == Rows!Open(r) /\ Owe(Requested, r)

AcceptRide(r, d) == Rows!Assign(r, d) /\ Owe(Accepted, r)

\* Saves of a ride that has left REQUESTED, start_ride's (which owes nothing) included.
CompleteRide(r) == assigned[r] # {} /\ UNCHANGED rows /\ Owe(Completed, r)

CancelRide(r) ==
    /\ Rows!Close(r) \/ (phase[r] = "closed" /\ UNCHANGED rows)
    /\ Owe(Cancelled, r)

\* A driver comes into range or becomes available, or the opposite: update_location, the
\* mode endpoints, and the marks of accept, complete and cancel, each an await of its own.
Move(d) ==
    /\ free' = IF d \in free THEN free \ {d} ELSE free \cup {d}
    /\ UNCHANGED <<rows, unsent, kafka, handler, offers, aged, retry, crashes>>

Enqueue(topic, r) ==
    /\ Len(queue[topic]) < MaxQueue
    /\ queue' = [queue EXCEPT ![topic] = Append(@, r)]

\* send_and_wait.
Send(m) ==
    /\ m \in unsent
    /\ Enqueue(m[1], m[2])
    /\ unsent' = unsent \ {m}
    /\ UNCHANGED <<requests, fetched, handler, offers, aged, retry, crashes>>

\* The send raises: the request answers 500, its row stays committed.
SendFails(m) ==
    /\ MayFail
    /\ m \in unsent
    /\ unsent' = unsent \ {m}
    /\ UNCHANGED <<requests, kafka, handler, offers, aged, retry, crashes>>

-----------------------------------------------------------------------------
(* _consume_loop: one message at a time                                    *)

Working(step) == handler.step = step

Goto(step) == handler' = [handler EXCEPT !.step = step]
Return == handler' = Idle

Poll(topic) ==
    /\ Working("idle")
    /\ queue[topic] # <<>>
    /\ Len(fetched[topic]) < MaxQueue
    /\ queue' = [queue EXCEPT ![topic] = Tail(@)]
    /\ fetched' = [fetched EXCEPT ![topic] = Append(@, Head(queue[topic]))]
    /\ handler' = [topic |-> topic, ride |-> Head(queue[topic]), step |-> "read", targets |-> {}]
    /\ UNCHANGED <<requests, unsent, offers, aged, retry, crashes>>

AutoCommit ==
    /\ \E topic \in Topics : fetched[topic] # <<>>
    /\ fetched' = [topic \in Topics |-> <<>>]
    /\ UNCHANGED <<requests, unsent, queue, handler, offers, aged, retry, crashes>>

Dispatchable_Any(r) == phase[r] # "none"
Dispatchable(r) == phase[r] = "open"

\* find_by_id and the guard of each handler.  ride-completed and ride-cancelled only
\* close the ride's location stream (SseRegistry.tla).
ReadRide ==
    /\ Working("read")
    /\ CASE handler.topic = Requested /\ Dispatchable(handler.ride) -> Goto("search")
         [] handler.topic = Accepted /\ phase[handler.ride] # "none" -> Goto("members")
         [] OTHER -> Return
    /\ UNCHANGED <<requests, unsent, kafka, offers, aged, retry, crashes>>

\* GEOSEARCH, then SMISMEMBER (Quotes.tla has the two apart): as drivers come and go
\* freely between any two steps here, one step finds whatever the two may find.
Search ==
    /\ Working("search")
    /\ IF free = {} THEN Return
                    ELSE handler' = [handler EXCEPT !.step = "sadd", !.targets = free]
    /\ UNCHANGED <<requests, unsent, kafka, offers, aged, retry, crashes>>

Sadd_Replace(set, members) == members
Sadd(set, members) == set \cup members

\* SADD dispatched:{ride} for every driver found.
AddDispatched ==
    /\ Working("sadd")
    /\ dispatched' = [dispatched EXCEPT ![handler.ride] = Sadd(@, handler.targets)]
    /\ Goto("expire")
    /\ UNCHANGED <<requests, unsent, kafka, expiring, listening, channel, shown, cleared, aged, retry, crashes>>

\* EXPIRE, a call of its own; on a key that is gone it does nothing.
SetTtl ==
    /\ Working("expire")
    /\ expiring' = IF dispatched[handler.ride] = {} THEN expiring
                                                    ELSE expiring \cup {handler.ride}
    /\ Goto("offer")
    /\ UNCHANGED <<requests, unsent, kafka, dispatched, listening, channel, shown, cleared, aged, retry, crashes>>

Offer_Swapped(d, r) == <<r, d>>
Offer(d, r) == <<d, r>>

\* PUBLISH ride_offers:{driver}, one driver after the other.  Pub/sub forgets what is
\* published while nobody is subscribed.
PublishOffer ==
    /\ Working("offer")
    /\ Len(channel) < MaxChannel
    /\ \E d \in handler.targets :
        /\ channel' = IF listening THEN Append(channel, Offer(d, handler.ride)) ELSE channel
        /\ handler' = IF handler.targets = {d} THEN Idle
                      ELSE [handler EXCEPT !.targets = @ \ {d}]
    /\ UNCHANGED <<requests, unsent, kafka, dispatched, expiring, listening, shown, cleared, aged, retry, crashes>>

\* SMEMBERS, and offer_cancelled to everybody in it but the driver of the row, who is the
\* winner or, after the save of a cancel that read the row before him, nobody.  Before
\* that comes a GEOPOS for the rider's stream, which changes nothing here.
CancelOffers ==
    /\ Working("members")
    /\ \E driver \in assigned[handler.ride] \cup {None} :
        shown' = [d \in Drivers |-> IF d \in dispatched[handler.ride] \ {driver}
                                    THEN shown[d] \ {handler.ride} ELSE shown[d]]
    /\ Goto("delete")
    /\ UNCHANGED <<requests, unsent, kafka, dispatched, expiring, listening, channel, cleared, aged, retry, crashes>>

\* DEL dispatched:{ride}.
DeleteDispatched ==
    /\ Working("delete")
    /\ dispatched' = [dispatched EXCEPT ![handler.ride] = {}]
    /\ expiring' = expiring \ {handler.ride}
    /\ cleared' = cleared \cup {handler.ride}
    /\ Return
    /\ UNCHANGED <<requests, unsent, kafka, listening, channel, shown, aged, retry, crashes>>

\* An awaited call raises: logged, and on to the next message.
HandlerFails ==
    /\ MayFail
    /\ ~Working("idle")
    /\ Return
    /\ UNCHANGED <<requests, unsent, kafka, offers, aged, retry, crashes>>

-----------------------------------------------------------------------------
(* ride_offer_listener, the TTL, stale_ride_retry, restarts                 *)

\* lifespan starts the consumer and the retry loop first, then the listener, and only
\* then lets requests in.
Subscribe ==
    /\ ~listening
    /\ listening' = TRUE
    /\ UNCHANGED <<requests, unsent, kafka, handler, dispatched, expiring, channel, shown, cleared,
                   aged, retry, crashes>>

\* The listener forwards the next pub/sub message to the driver's stream.
Deliver ==
    /\ channel # <<>>
    /\ channel' = Tail(channel)
    /\ shown' = [shown EXCEPT ![Head(channel)[1]] = @ \cup {Head(channel)[2]}]
    /\ UNCHANGED <<requests, unsent, kafka, handler, dispatched, expiring, listening, cleared, aged, retry, crashes>>

Expire(r) ==
    /\ MayExpire
    /\ r \in expiring
    /\ expiring' = expiring \ {r}
    /\ dispatched' = [dispatched EXCEPT ![r] = {}]
    /\ UNCHANGED <<requests, unsent, kafka, handler, listening, channel, shown, cleared, aged, retry, crashes>>

\* RETRY_CUTOFF passes after requested_at.
Age(r) ==
    /\ phase[r] # "none"
    /\ r \notin aged
    /\ aged' = aged \cup {r}
    /\ UNCHANGED <<requests, unsent, kafka, handler, offers, retry, crashes>>

Stale_Fresh == {r \in Rides \ aged : phase[r] = "open"}
Stale == {r \in aged : phase[r] = "open"}

\* The loop wakes up and asks for the rides that have been REQUESTED for too long.
RetryQuery ==
    /\ retry.step = "sleep"
    /\ retry' = IF Stale = {} THEN Asleep ELSE [step |-> "publish", todo |-> Stale]
    /\ UNCHANGED <<requests, unsent, kafka, handler, offers, aged, crashes>>

RetryPublish ==
    /\ retry.step = "publish"
    /\ \E r \in retry.todo :
        /\ Enqueue(Requested, r)
        /\ retry' = IF retry.todo = {r} THEN Asleep ELSE [retry EXCEPT !.todo = @ \ {r}]
    /\ UNCHANGED <<requests, unsent, fetched, handler, offers, aged, crashes>>

\* _retry_loop has no try: an exception of the query or a publish ends the task.
RetryFails ==
    /\ RetryMayFail
    /\ retry # Dead
    /\ retry' = Dead
    /\ UNCHANGED <<requests, unsent, kafka, handler, offers, aged, crashes>>

\* The process is gone and started again: the loops, what pub/sub had for the listener
\* and the streams are new.
Restart ==
    /\ crashes < MaxCrashes
    /\ crashes' = crashes + 1
    /\ fetched' = [topic \in Topics |-> <<>>]
    /\ handler' = Idle
    /\ listening' = FALSE
    /\ channel' = <<>>
    /\ shown' = [d \in Drivers |-> {}]
    /\ retry' = Asleep
    /\ UNCHANGED <<requests, dispatched, expiring, cleared, aged>>

\* It dies.  The messages whose offsets were not committed come again; publishes under
\* way are lost.
Crash ==
    /\ Restart
    /\ unsent' = {}
    /\ queue' = [topic \in Topics |-> fetched[topic] \o queue[topic]]

\* It is shut down.  Requests are answered first; lifespan cancels the loops where they
\* are, and consumer.stop() commits the offset of the message being handled as well.
Stop ==
    /\ unsent = {}
    /\ Restart
    /\ UNCHANGED <<unsent, queue>>

Requests ==
    /\ listening
    /\ \/ \E r \in Rides : \/ RequestRide(r) \/ CompleteRide(r) \/ CancelRide(r)
                           \/ \E d \in Drivers : AcceptRide(r, d)
       \/ \E d \in Drivers : Move(d)

Handle == \/ ReadRide \/ Search \/ AddDispatched \/ SetTtl \/ PublishOffer
          \/ CancelOffers \/ DeleteDispatched

Next ==
    \/ Requests
    \/ \E m \in unsent : Send(m) \/ SendFails(m)
    \/ \E topic \in Topics : Poll(topic)
    \/ AutoCommit \/ Handle \/ HandlerFails
    \/ Subscribe \/ Deliver
    \/ \E r \in Rides : Expire(r) \/ Age(r)
    \/ RetryQuery \/ RetryPublish \/ RetryFails
    \/ Crash \/ Stop

Spec == Init /\ [][Next]_vars

\* The loops run and time passes.  A call that is made again and again succeeds now
\* and then, and the consumer fetches from every topic.  Clients owe nothing.
Fairness ==
    /\ WF_vars(AutoCommit) /\ WF_vars(Subscribe) /\ WF_vars(Deliver) /\ WF_vars(RetryQuery)
    /\ \A r \in Rides : WF_vars(Age(r))
    /\ \A topic \in Topics : SF_vars(Poll(topic))
    /\ SF_vars(ReadRide) /\ SF_vars(Search) /\ SF_vars(AddDispatched)
    /\ SF_vars(SetTtl) /\ SF_vars(PublishOffer)
    /\ WF_vars(CancelOffers) /\ WF_vars(DeleteDispatched)
    /\ SF_vars(RetryPublish)

LiveSpec == Spec /\ Fairness

-----------------------------------------------------------------------------
(* Properties                                                              *)

\* Types of the stores, queues and loops.
TypeOK ==
    /\ phase \in [Rides -> {"none", "open", "closed"}]
    /\ assigned \in [Rides -> SUBSET Drivers]
    /\ free \subseteq Drivers
    /\ unsent \subseteq Topics \X Rides
    /\ queue \in [Topics -> Seq(Rides)]
    /\ fetched \in [Topics -> Seq(Rides)]
    /\ handler \in [topic : Topics \cup {"none"}, ride : Rides \cup {None},
                    step : {"idle", "read", "search", "sadd", "expire", "offer", "members", "delete"},
                    targets : SUBSET Drivers]
    /\ dispatched \in [Rides -> SUBSET Drivers]
    /\ expiring \subseteq Rides
    /\ listening \in BOOLEAN
    /\ channel \in Seq(Drivers \X Rides)
    /\ shown \in [Drivers -> SUBSET Rides]
    /\ aged \subseteq Rides
    /\ retry \in [step : {"sleep", "publish", "dead"}, todo : SUBSET Rides]
    /\ cleared \subseteq Rides
    /\ crashes \in 0..MaxCrashes

FanningOut(r) == handler.ride = r /\ handler.topic = Requested /\ handler.step # "read"

\* The offers of r that have left the fan-out: on the way to the listener, or shown.
Offered(r) == {d \in Drivers : r \in shown[d] \/ \E i \in DOMAIN channel : channel[i] = <<d, r>>}

\* Until ride-accepted is handled (and within the TTL) every driver who has been sent an
\* offer is in the dispatched set, so that the handler will tell him it is gone: whatever
\* crashed or failed half way through a fan-out.
OffersCanBeRetracted == \A r \in Rides \ cleared : Offered(r) \subseteq dispatched[r]

\* Once ride-accepted has been handled the ride is never dispatched again, although
\* retries, redeliveries and the slower ride-requested topic still bring its id.
NothingAfterAccepted == \A r \in cleared : dispatched[r] = {} /\ ~FanningOut(r)

\* A ride cannot stay REQUESTED for ever with a driver waiting in range for ever who is
\* not shown its offer, even if its event was never published, a handler failed before or
\* after the SADD, nobody had subscribed yet or the process was restarted: what the retry
\* loop is for (stale_ride_retry.py:1-4).
WaitingRideIsOffered ==
    \A r \in Rides, d \in Drivers :
        []<>(phase[r] # "open" \/ d \notin free \/ r \in shown[d])

\* README.md:121-123: "re-publishes any ride still REQUESTED after 2 minutes".
StaleRidesAreRetried ==
    \A r \in Rides :
        [](phase[r] = "open" /\ r \in aged
              => <>(phase[r] # "open" \/ (retry.step = "publish" /\ r \in retry.todo)))
=============================================================================
