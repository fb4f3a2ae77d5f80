-------------------------- MODULE SseRegistryProofs --------------------------
(***************************************************************************)
(* Theorems about SseRegistry, for every set of rides, drivers and         *)
(* connections and every length of a queue.                                *)
(***************************************************************************)
EXTENDS SseRegistry, TLAPS, FiniteSetTheorems

States == {"unused", "accepted", "open", "closed"}
Statuses == {"REQUESTED", "MATCHED", "IN_PROGRESS", "COMPLETED", "CANCELLED"}
Items == {"event", "close"}

\* A connection whose stream() has yet to start has a key to start under, and no queue.
NotStarted ==
    \A c \in Conns : conn[c].state \in {"unused", "accepted"} =>
        /\ queue[c] = <<>>
        /\ conn[c].state = "accepted" => conn[c].key \in Keys

IInv == TypeOK /\ RegisteredIsLive /\ CloseIsLast /\ NotStarted

\* An event put into a registered queue, which has no sentinel, leaves none.
LEMMA AppendKeepsOrder ==
    ASSUME NEW q \in Seq(Items), NEW item \in Items,
           \A i \in DOMAIN q : q[i] # "close"
    PROVE  /\ Append(q, item) \in Seq(Items)
           /\ \A i \in DOMAIN Append(q, item) :
                Append(q, item)[i] = "close" => item = "close" /\ i = Len(Append(q, item))
  OBVIOUS

LEMMA TailKeepsOrder ==
    ASSUME NEW q \in Seq(Items), q # <<>>,
           \A i \in DOMAIN q : q[i] = "close" => i = Len(q)
    PROVE  /\ Tail(q) \in Seq(Items)
           /\ \A i \in DOMAIN Tail(q) : Tail(q)[i] = "close" => i = Len(Tail(q)) /\ Len(q) \in DOMAIN q
                                                                /\ q[Len(q)] = "close"
           /\ Head(q) = "close" => Tail(q) = <<>>
  OBVIOUS

\* RegisteredIsLive, connection by connection.
LEMMA OneKeyEach ==
    ASSUME KeyAssumption, IInv
    PROVE  /\ \A k \in Keys : emitters[k] # None =>
                 emitters[k] \in Conns /\ conn[emitters[k]].key = k /\ conn[emitters[k]].state = "open"
           /\ \A c \in Conns, k \in Keys : emitters[k] = c => conn[c].key = k /\ conn[c].state = "open"
  <1>1. \A k \in Keys : emitters[k] # None =>
           emitters[k] \in Conns /\ conn[emitters[k]] = [key |-> k, state |-> "open"]
    BY DEF IInv, TypeOK, RegisteredIsLive
  <1>2. ASSUME NEW k \in Keys, emitters[k] # None
        PROVE  emitters[k] \in Conns /\ conn[emitters[k]].key = k /\ conn[emitters[k]].state = "open"
    <2>1. conn[emitters[k]] = [key |-> k, state |-> "open"]
      BY <1>1, <1>2
    <2>2. conn[emitters[k]].key = k /\ conn[emitters[k]].state = "open"
      BY <2>1
    <2> QED
      BY <1>1, <1>2, <2>2
  <1>3. ASSUME NEW c \in Conns, NEW k \in Keys, emitters[k] = c
        PROVE  conn[c].key = k /\ conn[c].state = "open"
    <2>1. emitters[k] # None
      BY <1>3 DEF KeyAssumption
    <2> QED
      BY <1>2, <1>3, <2>1
  <1> QED
    BY <1>2, <1>3

LEMMA InitInv == KeyAssumption /\ Init => IInv
  BY DEF KeyAssumption, Init, IInv, TypeOK, RegisteredIsLive, CloseIsLast, NotStarted, Unused, Keys

\* complete(), whoever calls it.
LEMMA CompleteInv ==
    ASSUME KeyAssumption, IInv, NEW k \in Keys, Complete(k), UNCHANGED conn
    PROVE  /\ emitters' \in [Keys -> Conns \cup {None}] /\ queue' \in [Conns -> Seq(Items)]
           /\ RegisteredIsLive' /\ CloseIsLast' /\ NotStarted'
  <1>t. TypeOK /\ RegisteredIsLive /\ CloseIsLast /\ NotStarted
    BY DEF IInv
  <1>r. \A c \in Conns, j \in Keys : emitters[j] = c => conn[c].key = j
    BY OneKeyEach
  <1>1. CASE emitters[k] = None
    BY <1>1, <1>t DEF Complete, TypeOK, RegisteredIsLive, CloseIsLast, NotStarted, Items
  <1>2. CASE emitters[k] # None
    <2> DEFINE c == emitters[k]
    <2>1. c \in Conns /\ conn[c] = [key |-> k, state |-> "open"] /\ queue[c] \in Seq(Items)
      BY <1>2, <1>t DEF TypeOK, RegisteredIsLive, Items
    <2>2. /\ queue' = [queue EXCEPT ![c] = Append(queue[c], "close")]
          /\ emitters' = [emitters EXCEPT ![k] = None]
      BY <1>2 DEF Complete, Put, Popped, Unregister
    <2>3. \A i \in DOMAIN queue[c] : queue[c][i] # "close"
      BY <1>t, <2>1 DEF CloseIsLast
    <2> DEFINE q == Append(queue[c], "close")
    <2>4. q \in Seq(Items) /\ \A i \in DOMAIN q : q[i] = "close" => i = Len(q)
      BY <2>1, <2>3, AppendKeepsOrder DEF Items
    <2>5. \A j \in Keys : emitters'[j] # c
      <3>1. \A j \in Keys : emitters'[j] = IF j = k THEN None ELSE emitters[j]
        BY <1>t, <2>2 DEF TypeOK
      <3>2. c # None
        BY <1>2
      <3> QED
        BY <1>r, <2>1, <3>1, <3>2
    <2> HIDE DEF q, c
    <2>6. queue' \in [Conns -> Seq(Items)] /\ queue'[c] = q /\ \A d \in Conns \ {c} : queue'[d] = queue[d]
      BY <1>t, <2>1, <2>2, <2>4 DEF TypeOK, Items, q
    <2>7. emitters' \in [Keys -> Conns \cup {None}] /\ \A j \in Keys : emitters'[j] \in {emitters[j], None}
      BY <1>t, <2>2 DEF TypeOK
    <2>8. CloseIsLast'
      <3>1. SUFFICES ASSUME NEW d \in Conns, NEW i \in DOMAIN queue'[d], queue'[d][i] = "close"
                     PROVE  i = Len(queue'[d]) /\ \A j \in Keys : emitters'[j] # d
        BY DEF CloseIsLast
      <3>2. CASE d = c
        BY <2>4, <2>5, <2>6, <3>1, <3>2
      <3>3. CASE d # c
        <4>1. i = Len(queue[d]) /\ \A j \in Keys : emitters[j] # d
          BY <1>t, <2>6, <3>1, <3>3 DEF CloseIsLast
        <4> QED
          BY <2>6, <2>7, <3>3, <4>1 DEF KeyAssumption
      <3> QED
        BY <3>2, <3>3
    <2>9. RegisteredIsLive' /\ NotStarted'
      <3>1. RegisteredIsLive'
        BY <1>t, <2>7 DEF RegisteredIsLive
      <3>2. conn[c].state = "open"
        BY <2>1
      <3> QED
        BY <1>t, <2>6, <3>1, <3>2 DEF NotStarted
    <2> QED
      BY <2>6, <2>7, <2>8, <2>9
  <1> QED
    BY <1>1, <1>2

LEMMA StepInv == KeyAssumption /\ IInv /\ [Next]_vars => IInv'
  <1> SUFFICES ASSUME KeyAssumption, IInv, [Next]_vars PROVE IInv'
    OBVIOUS
  <1>t. TypeOK /\ RegisteredIsLive /\ CloseIsLast /\ NotStarted
    BY DEF IInv
  <1>q. /\ emitters \in [Keys -> Conns \cup {None}] /\ queue \in [Conns -> Seq(Items)]
        /\ conn \in [Conns -> [key : Keys \cup {None}, state : States]]
        /\ status \in [Rides -> Statuses] /\ event \subseteq Ended
        /\ newest \in [Keys -> Conns \cup {None}]
    BY <1>t DEF TypeOK, Items, States, Statuses
  <1>r. /\ \A k \in Keys : emitters[k] # None => emitters[k] \in Conns /\ conn[emitters[k]].state = "open"
        /\ \A c \in Conns, k \in Keys : emitters[k] = c => conn[c].key = k /\ conn[c].state = "open"
    BY OneKeyEach
  <1>n. \A c \in Conns : c # None
    BY DEF KeyAssumption
  <1>1. ASSUME NEW c \in Conns, NEW k \in Keys, Accept(c, k) PROVE IInv'
    <2>1. /\ conn[c] = Unused /\ conn' = [conn EXCEPT ![c] = [key |-> k, state |-> "accepted"]]
          /\ UNCHANGED <<emitters, queue, status, event, newest>>
      BY <1>1 DEF Accept
    <2>2. TypeOK'
      BY <1>t, <2>1 DEF TypeOK
    <2>3. RegisteredIsLive'
      BY <1>q, <1>t, <2>1 DEF RegisteredIsLive, Unused
    <2>4. CloseIsLast' /\ NotStarted'
      BY <1>q, <1>t, <2>1 DEF CloseIsLast, NotStarted, Unused
    <2> QED
      BY <2>2, <2>3, <2>4 DEF IInv
  <1>2. ASSUME NEW c \in Conns, Start(c) PROVE IInv'
    <2> DEFINE k == conn[c].key
    <2>1. /\ conn[c].state = "accepted" /\ k \in Keys /\ queue[c] = <<>>
          /\ conn' = [conn EXCEPT ![c].state = "open"]
          /\ emitters' = [emitters EXCEPT ![k] = c] /\ newest' = [newest EXCEPT ![k] = c]
          /\ UNCHANGED <<queue, status, event>>
      BY <1>2, <1>t DEF Start, Move, Register, NotStarted
    <2>2. conn'[c] = [key |-> k, state |-> "open"] /\ \A d \in Conns \ {c} : conn'[d] = conn[d]
      BY <1>q, <2>1
    <2>3. TypeOK'
      BY <1>t, <2>1 DEF TypeOK
    <2>4. RegisteredIsLive'
      BY <1>q, <1>t, <2>1, <2>2 DEF RegisteredIsLive
    <2>5. CloseIsLast'
      BY <1>q, <1>t, <2>1 DEF CloseIsLast
    <2>6. NotStarted'
      BY <1>q, <1>t, <2>1, <2>2 DEF NotStarted
    <2> QED
      BY <2>3, <2>4, <2>5, <2>6 DEF IInv
  <1>3. ASSUME NEW c \in Conns, Get(c) PROVE IInv'
    <2>1. /\ conn[c].state = "open" /\ queue[c] # <<>>
          /\ queue' = [queue EXCEPT ![c] = Tail(queue[c])]
          /\ UNCHANGED <<status, event, newest>>
      BY <1>3 DEF Get
    <2> DEFINE q == Tail(queue[c])
    <2>2. q \in Seq(Items)
          /\ (\A i \in DOMAIN q : q[i] = "close" => i = Len(q) /\ Len(queue[c]) \in DOMAIN queue[c]
                                                    /\ queue[c][Len(queue[c])] = "close")
      BY <1>q, <1>t, <2>1, TailKeepsOrder DEF CloseIsLast
    <2> HIDE DEF q
    <2>3. queue' \in [Conns -> Seq(Items)] /\ queue'[c] = q /\ \A d \in Conns \ {c} : queue'[d] = queue[d]
      BY <1>q, <2>1, <2>2 DEF q
    <2>4. ASSUME \A k \in Keys : emitters'[k] \in {emitters[k], None}
          PROVE  CloseIsLast'
      <3>1. SUFFICES ASSUME NEW d \in Conns, NEW i \in DOMAIN queue'[d], queue'[d][i] = "close"
                     PROVE  i = Len(queue'[d]) /\ \A j \in Keys : emitters'[j] # d
        BY DEF CloseIsLast
      <3>2. i = Len(queue'[d]) /\ \A j \in Keys : emitters[j] # d
        BY <1>t, <2>2, <2>3, <3>1 DEF CloseIsLast
      <3> QED
        BY <2>4, <3>2 DEF KeyAssumption
    <2>5. CASE Ends(Head(queue[c]))
      <3>1. /\ conn' = [conn EXCEPT ![c].state = "closed"]
            /\ emitters' = [emitters EXCEPT ![conn[c].key] = None]
        BY <1>3, <2>5 DEF Get, Move, Unregister
      <3>2. conn'[c].state = "closed" /\ \A d \in Conns \ {c} : conn'[d] = conn[d]
        BY <1>q, <3>1
      <3>3. \A k \in Keys : emitters'[k] \in {emitters[k], None} /\ emitters'[k] # c
        <4>1. \A k \in Keys : emitters'[k] = IF k = conn[c].key THEN None ELSE emitters[k]
          BY <1>q, <3>1
        <4> QED
          BY <1>r, <1>n, <4>1
      <3>4. TypeOK'
        BY <1>q, <1>t, <2>1, <2>3, <3>1 DEF TypeOK, Items
      <3>5. RegisteredIsLive'
        BY <1>q, <1>t, <3>2, <3>3 DEF RegisteredIsLive
      <3>6. NotStarted'
        BY <1>t, <2>1, <2>3, <3>2 DEF NotStarted
      <3>7. CloseIsLast'
        BY <2>4, <3>3
      <3> QED
        BY <3>4, <3>5, <3>6, <3>7 DEF IInv
    <2>6. CASE ~Ends(Head(queue[c]))
      <3>1. UNCHANGED <<conn, emitters>>
        BY <1>3, <2>6 DEF Get
      <3>2. TypeOK'
        BY <1>t, <2>1, <2>3, <3>1 DEF TypeOK, Items
      <3>3. RegisteredIsLive' /\ NotStarted'
        BY <1>t, <2>1, <2>3, <3>1 DEF RegisteredIsLive, NotStarted
      <3>4. CloseIsLast'
        BY <2>4, <3>1
      <3> QED
        BY <3>2, <3>3, <3>4 DEF IInv
    <2> QED
      BY <2>5, <2>6
  <1>4. ASSUME NEW c \in Conns, Disconnect(c) PROVE IInv'
    <2>1. /\ conn[c].state \in {"accepted", "open"}
          /\ conn' = [conn EXCEPT ![c].state = "closed"]
          /\ queue' = [queue EXCEPT ![c] = <<>>]
          /\ emitters' = IF conn[c].state = "open" THEN [emitters EXCEPT ![conn[c].key] = None] ELSE emitters
          /\ UNCHANGED <<status, event, newest>>
      BY <1>4 DEF Disconnect, Move, Finally, Unregister
    <2>2. conn'[c].state = "closed" /\ \A d \in Conns \ {c} : conn'[d] = conn[d]
      BY <1>q, <2>1
    <2>3. emitters' \in [Keys -> Conns \cup {None}]
          /\ \A k \in Keys : emitters'[k] \in {emitters[k], None} /\ emitters'[k] # c
      <3>1. CASE conn[c].state = "open"
        <4>1. emitters' = [emitters EXCEPT ![conn[c].key] = None]
          BY <2>1, <3>1
        <4>2. \A k \in Keys : emitters'[k] = IF k = conn[c].key THEN None ELSE emitters[k]
          BY <1>q, <4>1
        <4> QED
          BY <1>q, <1>r, <1>n, <4>1, <4>2
      <3>2. CASE conn[c].state # "open"
        <4>1. emitters' = emitters
          BY <2>1, <3>2
        <4> QED
          BY <1>q, <1>r, <3>2, <4>1
      <3> QED
        BY <3>1, <3>2
    <2>4. queue' \in [Conns -> Seq(Items)] /\ queue'[c] = <<>> /\ \A d \in Conns \ {c} : queue'[d] = queue[d]
      BY <1>q, <2>1
    <2>5. TypeOK'
      BY <1>q, <1>t, <2>1, <2>3, <2>4 DEF TypeOK, Items
    <2>6. RegisteredIsLive'
      BY <1>q, <1>t, <2>2, <2>3 DEF RegisteredIsLive
    <2>7. CloseIsLast'
      <3>1. SUFFICES ASSUME NEW d \in Conns, NEW i \in DOMAIN queue'[d], queue'[d][i] = "close"
                     PROVE  i = Len(queue'[d]) /\ \A j \in Keys : emitters'[j] # d
        BY DEF CloseIsLast
      <3>2. d # c
        BY <2>4, <3>1
      <3>3. i = Len(queue'[d]) /\ \A j \in Keys : emitters[j] # d
        BY <1>t, <2>4, <3>1, <3>2 DEF CloseIsLast
      <3> QED
        BY <2>3, <3>3 DEF KeyAssumption
    <2>8. NotStarted'
      BY <1>t, <2>2, <2>4 DEF NotStarted
    <2> QED
      BY <2>5, <2>6, <2>7, <2>8 DEF IInv
  <1>5. ASSUME NEW k \in Keys, Emit(k) PROVE IInv'
    <2>1. UNCHANGED <<emitters, conn, status, event, newest>>
      BY <1>5 DEF Emit
    <2>2. CASE emitters[k] = None
      BY <1>5, <1>t, <2>1, <2>2 DEF Emit, IInv, TypeOK, RegisteredIsLive, CloseIsLast, NotStarted
    <2>3. CASE emitters[k] # None
      <3> DEFINE c == emitters[k]
                 q == Append(queue[c], "event")
      <3>1. c \in Conns /\ conn[c].state = "open" /\ queue[c] \in Seq(Items)
        BY <1>q, <1>r, <2>3
      <3>2. \A i \in DOMAIN queue[c] : queue[c][i] # "close"
        BY <1>t, <3>1 DEF CloseIsLast
      <3>3. q \in Seq(Items) /\ \A i \in DOMAIN q : q[i] # "close"
        BY <3>1, <3>2, AppendKeepsOrder DEF Items
      <3>4. queue' = [queue EXCEPT ![c] = q]
        BY <1>5, <2>3 DEF Emit, Put
      <3> HIDE DEF c, q
      <3>5. queue' \in [Conns -> Seq(Items)] /\ queue'[c] = q /\ \A d \in Conns \ {c} : queue'[d] = queue[d]
        BY <1>q, <3>1, <3>3, <3>4
      <3>6. CloseIsLast'
        BY <1>t, <2>1, <3>3, <3>5 DEF CloseIsLast
      <3>7. NotStarted' /\ RegisteredIsLive'
        BY <1>t, <2>1, <3>1, <3>5 DEF NotStarted, RegisteredIsLive
      <3>8. TypeOK'
        BY <1>t, <2>1, <3>5 DEF TypeOK, Items
      <3> QED
        BY <3>6, <3>7, <3>8 DEF IInv
    <2> QED
      BY <2>2, <2>3
  <1>6. ASSUME NEW r \in Rides, Advance(r) PROVE IInv'
    <2>1. UNCHANGED <<emitters, queue, conn, newest>> /\ status' \in [Rides -> Statuses] /\ event' \subseteq Ended
      BY <1>6, <1>q DEF Advance, Statuses
    <2> QED
      BY <1>t, <2>1 DEF IInv, TypeOK, RegisteredIsLive, CloseIsLast, NotStarted, Statuses
  <1>7. ASSUME NEW m \in event, HandleEnd(m[1], m[2]) PROVE IInv'
    <2>1. UNCHANGED <<conn, status, newest>> /\ event' \subseteq Ended /\ m[2] \in Rides /\ m[2] \in Keys
      BY <1>7, <1>q DEF HandleEnd, Keys, Ended
    <2>2. CASE Complete(m[2])
      <3>1. /\ emitters' \in [Keys -> Conns \cup {None}] /\ queue' \in [Conns -> Seq(Items)]
            /\ RegisteredIsLive' /\ CloseIsLast' /\ NotStarted'
        BY <2>1, <2>2, CompleteInv
      <3> QED
        BY <1>t, <2>1, <3>1 DEF IInv, TypeOK, Items
    <2>3. CASE UNCHANGED <<emitters, queue>>
      BY <1>t, <2>1, <2>3 DEF IInv, TypeOK, RegisteredIsLive, CloseIsLast, NotStarted
    <2> QED
      BY <1>7, <2>2, <2>3 DEF HandleEnd
  <1>8. ASSUME NEW d \in Drivers, GoOffline(d) PROVE IInv'
    <2>1. UNCHANGED <<conn, status, event, newest>> /\ Complete(d) /\ d \in Keys
      BY <1>8 DEF GoOffline, Keys
    <2>2. /\ emitters' \in [Keys -> Conns \cup {None}] /\ queue' \in [Conns -> Seq(Items)]
          /\ RegisteredIsLive' /\ CloseIsLast' /\ NotStarted'
      BY <2>1, CompleteInv
    <2> QED
      BY <1>t, <2>1, <2>2 DEF IInv, TypeOK, Items
  <1>9. CASE UNCHANGED vars
    BY <1>9, <1>t DEF IInv, vars, TypeOK, RegisteredIsLive, CloseIsLast, NotStarted
  <1> QED
    BY <1>1, <1>2, <1>3, <1>4, <1>5, <1>6, <1>7, <1>8, <1>9 DEF Next

-----------------------------------------------------------------------------

LEMMA InvariantHolds == Spec => []IInv
  <1>1. Init => IInv
    BY KeyAssumption, InitInv
  <1>2. IInv /\ [Next]_vars => IInv'
    BY KeyAssumption, StepInv
  <1> QED
    BY <1>1, <1>2, PTL DEF Spec

\* The registry, the queues and the connections keep their types.
THEOREM TypeCorrect == Spec => []TypeOK
  <1>1. IInv => TypeOK
    BY DEF IInv
  <1> QED
    BY <1>1, InvariantHolds, PTL

\* The registry only ever holds queues of open streams, each under its client's key.
THEOREM RegistryIsLive == Spec => []RegisteredIsLive
  <1>1. IInv => RegisteredIsLive
    BY DEF IInv
  <1> QED
    BY <1>1, InvariantHolds, PTL

\* Nothing is ever queued behind the close sentinel.
THEOREM SentinelIsLast == Spec => []CloseIsLast
  <1>1. IInv => CloseIsLast
    BY DEF IInv
  <1> QED
    BY <1>1, InvariantHolds, PTL

-----------------------------------------------------------------------------
(* Clients that keep one connection under a key                            *)

Busy(c) == conn[c].state \in {"accepted", "open"}

\* A key has one connection at most, and a connection that was started last keeps its key.
OneAtATime ==
    /\ \A c \in Conns : conn[c].state = "unused" => conn[c].key = None
    /\ \A c \in Conns : Busy(c) => conn[c].key \in Keys
    /\ \A c, d \in Conns : Busy(c) /\ Busy(d) /\ conn[c].key = conn[d].key => c = d
    /\ \A k \in Keys : newest[k] # None => conn[newest[k]].key = k

\* Every open stream that has not been completed is in the registry.
Receives(c) == conn[c].state = "open" /\ ~Closing(c) => emitters[conn[c].key] = c

LoneInv == OneAtATime /\ \A c \in Conns : Receives(c)

\* The guard of Accept: nobody is connected under the key.
LEMMA NobodyElse ==
    ASSUME IInv, AtOnce = 1, OneAtATime, NEW c \in Conns, NEW k \in Keys, Accept(c, k)
    PROVE  \A d \in Conns : Busy(d) => conn[d].key # k
  <1> DEFINE S == {d \in Conns : conn[d].key = k /\ conn[d].state # "closed"}
  <1>1. \A d \in S : Busy(d)
    BY KeyAssumption DEF IInv, TypeOK, OneAtATime, Busy
  <1>2. \A d, e \in S : d = e
    BY <1>1 DEF OneAtATime
  <1>3. Cardinality(S) < 1
    BY DEF Accept
  <1>4. ASSUME NEW d \in S PROVE FALSE
    <2>1. S = {d}
      BY <1>2
    <2>2. Cardinality(S) = 1
      BY <2>1, FS_Singleton
    <2> QED
      BY <1>3, <2>2
  <1> QED
    BY <1>4 DEF Busy

\* A queue that grows keeps its sentinel, and so does one that loses another item.
LEMMA StillClosing ==
    ASSUME NEW q \in Seq(Items), NEW item \in Items
    PROVE  /\ (\E i \in DOMAIN q : q[i] = "close")
                  => \E i \in DOMAIN Append(q, item) : Append(q, item)[i] = "close"
           /\ \E i \in DOMAIN Append(q, "close") : Append(q, "close")[i] = "close"
           /\ q # <<>> /\ Head(q) # "close" /\ (\E i \in DOMAIN q : q[i] = "close")
                  => \E i \in DOMAIN Tail(q) : Tail(q)[i] = "close"
  <1>1. ASSUME NEW i \in DOMAIN q, q[i] = "close"
        PROVE  i \in DOMAIN Append(q, item) /\ Append(q, item)[i] = "close"
    BY <1>1
  <1>2. /\ Len(q) + 1 \in DOMAIN Append(q, "close")
        /\ Append(q, "close")[Len(q) + 1] = "close"
    BY DEF Items
  <1>3. ASSUME q # <<>>, Head(q) # "close", NEW i \in DOMAIN q, q[i] = "close"
        PROVE  i - 1 \in DOMAIN Tail(q) /\ Tail(q)[i - 1] = "close"
    BY <1>3
  <1> QED
    BY <1>1, <1>2, <1>3

\* A step under one key that leaves the connections alone.
LEMMA ConnectionsStay ==
    ASSUME OneAtATime, UNCHANGED <<conn, newest>> PROVE OneAtATime'
  BY DEF OneAtATime, Busy

\* complete() takes nobody out of the registry whom it does not close.
LEMMA CompleteLone ==
    ASSUME IInv, LoneInv, NEW k \in Keys, Complete(k), UNCHANGED <<conn, newest>>
    PROVE  LoneInv'
  <1>1. CASE emitters[k] = None
    BY <1>1 DEF Complete, LoneInv, OneAtATime, Busy, Receives, Closing
  <1>2. CASE emitters[k] # None
    <2> DEFINE c == emitters[k]
    <2>1. /\ c \in Conns /\ conn[c].key = k /\ conn[c].state = "open"
          /\ queue[c] \in Seq(Items)
          /\ emitters \in [Keys -> Conns \cup {None}] /\ queue \in [Conns -> Seq(Items)]
      BY <1>2, OneKeyEach, KeyAssumption DEF IInv, TypeOK, Items
    <2>2. /\ queue' = [queue EXCEPT ![c] = Append(queue[c], "close")]
          /\ emitters' = [emitters EXCEPT ![k] = None]
      BY <1>2 DEF Complete, Put, Popped, Unregister
    <2> HIDE DEF c
    <2>3. /\ queue'[c] = Append(queue[c], "close")
          /\ \A d \in Conns \ {c} : queue'[d] = queue[d]
          /\ \A j \in Keys \ {k} : emitters'[j] = emitters[j]
      BY <2>1, <2>2
    <2>4. ASSUME NEW d \in Conns \ {c}, conn[d].state = "open" PROVE conn[d].key \in Keys \ {k}
      BY <2>1, <2>4 DEF LoneInv, OneAtATime, Busy
    <2>5. \E i \in DOMAIN queue'[c] : queue'[c][i] = "close"
      <3>1. "close" \in Items
        BY DEF Items
      <3>2. \E i \in DOMAIN Append(queue[c], "close") : Append(queue[c], "close")[i] = "close"
        BY <2>1, <3>1, StillClosing
      <3> QED
        BY <2>3, <3>2
    <2>6. \A d \in Conns : Receives(d)'
      BY <2>3, <2>4, <2>5 DEF LoneInv, Receives, Closing
    <2> QED
      BY <2>6, ConnectionsStay DEF LoneInv
  <1> QED
    BY <1>1, <1>2

\* A connection that closes leaves its key, and touches no other.
LEMMA CloseLone ==
    ASSUME IInv, LoneInv, NEW c \in Conns, Busy(c), UNCHANGED newest,
           conn' = [conn EXCEPT ![c].state = "closed"],
           \A k \in Keys \ {conn[c].key} : emitters'[k] = emitters[k],
           \A d \in Conns \ {c} : queue'[d] = queue[d]
    PROVE  LoneInv'
  <1>1. /\ conn'[c].state = "closed" /\ conn'[c].key = conn[c].key
        /\ \A d \in Conns \ {c} : conn'[d] = conn[d]
        /\ newest \in [Keys -> Conns \cup {None}]
    BY DEF IInv, TypeOK
  <1>2. OneAtATime'
    BY <1>1 DEF LoneInv, OneAtATime, Busy
  <1>3. ASSUME NEW d \in Conns \ {c}, conn[d].state = "open" PROVE conn[d].key \in Keys \ {conn[c].key}
    BY <1>3 DEF LoneInv, OneAtATime, Busy
  <1>4. \A d \in Conns : Receives(d)'
    BY <1>1, <1>3 DEF LoneInv, Receives, Closing
  <1> QED
    BY <1>2, <1>4 DEF LoneInv

LEMMA StepLone ==
    ASSUME AtOnce = 1, IInv, LoneInv, [Next]_vars PROVE LoneInv'
  <1>q. /\ emitters \in [Keys -> Conns \cup {None}] /\ queue \in [Conns -> Seq(Items)]
        /\ conn \in [Conns -> [key : Keys \cup {None}, state : States]]
        /\ newest \in [Keys -> Conns \cup {None}]
    BY DEF IInv, TypeOK, Items, States
  <1>1. ASSUME NEW c \in Conns, NEW k \in Keys, Accept(c, k) PROVE LoneInv'
    <2>1. /\ conn[c] = Unused /\ conn' = [conn EXCEPT ![c] = [key |-> k, state |-> "accepted"]]
          /\ UNCHANGED <<emitters, queue, newest>>
      BY <1>1 DEF Accept
    <2>2. /\ conn[c].key = None /\ conn'[c] = [key |-> k, state |-> "accepted"]
          /\ \A d \in Conns \ {c} : conn'[d] = conn[d]
      BY <1>q, <2>1 DEF Unused
    <2>3. \A d \in Conns : Busy(d) => conn[d].key # k
      BY <1>1, NobodyElse DEF LoneInv
    <2>4. \A j \in Keys : newest[j] # c
      BY <2>2, KeyAssumption DEF LoneInv, OneAtATime
    <2>5. OneAtATime'
      BY <1>q, <2>1, <2>2, <2>3, <2>4 DEF LoneInv, OneAtATime, Busy
    <2>6. \A d \in Conns : Receives(d)'
      BY <2>1, <2>2 DEF LoneInv, Receives, Closing
    <2> QED
      BY <2>5, <2>6 DEF LoneInv
  <1>2. ASSUME NEW c \in Conns, Start(c) PROVE LoneInv'
    <2> DEFINE k == conn[c].key
    <2>1. /\ conn[c].state = "accepted" /\ k \in Keys
          /\ conn' = [conn EXCEPT ![c].state = "open"]
          /\ emitters' = [emitters EXCEPT ![k] = c] /\ newest' = [newest EXCEPT ![k] = c]
          /\ UNCHANGED queue
      BY <1>2 DEF Start, Move, Register, LoneInv, OneAtATime, Busy
    <2>2. /\ conn'[c].key = k /\ conn'[c].state = "open" /\ emitters'[k] = c
          /\ \A d \in Conns \ {c} : conn'[d] = conn[d]
          /\ \A j \in Keys \ {k} : emitters'[j] = emitters[j]
          /\ \A j \in Keys : newest'[j] = IF j = k THEN c ELSE newest[j]
      BY <1>q, <2>1
    <2>3. OneAtATime'
      BY <1>q, <2>1, <2>2 DEF LoneInv, OneAtATime, Busy
    <2>4. ASSUME NEW d \in Conns \ {c}, conn[d].state = "open" PROVE conn[d].key \in Keys \ {k}
      BY <2>1, <2>4 DEF LoneInv, OneAtATime, Busy
    <2>5. \A d \in Conns : Receives(d)'
      BY <2>1, <2>2, <2>4 DEF LoneInv, Receives, Closing
    <2> QED
      BY <2>3, <2>5 DEF LoneInv
  <1>3. ASSUME NEW c \in Conns, Get(c) PROVE LoneInv'
    <2>1. /\ conn[c].state = "open" /\ queue[c] # <<>>
          /\ queue' = [queue EXCEPT ![c] = Tail(queue[c])] /\ UNCHANGED newest
      BY <1>3 DEF Get
    <2>2. queue'[c] = Tail(queue[c]) /\ \A d \in Conns \ {c} : queue'[d] = queue[d]
      BY <1>q, <2>1
    <2>3. CASE Ends(Head(queue[c]))
      <3>1. /\ conn' = [conn EXCEPT ![c].state = "closed"]
            /\ emitters' = [emitters EXCEPT ![conn[c].key] = None]
        BY <1>3, <2>3 DEF Get, Move, Unregister
      <3>2. \A k \in Keys \ {conn[c].key} : emitters'[k] = emitters[k]
        BY <1>q, <3>1
      <3> QED
        BY <2>1, <2>2, <3>1, <3>2, CloseLone DEF Busy
    <2>4. CASE ~Ends(Head(queue[c]))
      <3>1. UNCHANGED <<conn, emitters>> /\ Head(queue[c]) # "close"
        BY <1>3, <2>4 DEF Get, Ends
      <3>2. Closing(c) => Closing(c)'
        BY <1>q, <2>1, <2>2, <3>1, StillClosing DEF Closing, Items
      <3>3. \A d \in Conns : Receives(d)'
        BY <2>2, <3>1, <3>2 DEF LoneInv, Receives, Closing
      <3> QED
        BY <2>1, <3>1, <3>3, ConnectionsStay DEF LoneInv
    <2> QED
      BY <2>3, <2>4
  <1>4. ASSUME NEW c \in Conns, Disconnect(c) PROVE LoneInv'
    <2>1. /\ Busy(c) /\ conn' = [conn EXCEPT ![c].state = "closed"]
          /\ queue' = [queue EXCEPT ![c] = <<>>] /\ UNCHANGED newest
          /\ emitters' = IF conn[c].state = "open" THEN [emitters EXCEPT ![conn[c].key] = None] ELSE emitters
      BY <1>4 DEF Disconnect, Move, Finally, Unregister, Busy
    <2>2. /\ \A k \in Keys \ {conn[c].key} : emitters'[k] = emitters[k]
          /\ \A d \in Conns \ {c} : queue'[d] = queue[d]
      BY <1>q, <2>1
    <2> QED
      BY <2>1, <2>2, CloseLone
  <1>5. ASSUME NEW k \in Keys, Emit(k) PROVE LoneInv'
    <2>1. UNCHANGED <<emitters, conn, newest>>
      BY <1>5 DEF Emit
    <2>2. \A d \in Conns : Closing(d) => Closing(d)'
      <3>1. CASE emitters[k] = None
        BY <1>5, <3>1 DEF Emit, Closing
      <3>2. CASE emitters[k] # None
        <4> DEFINE c == emitters[k]
        <4>1. c \in Conns /\ queue' = [queue EXCEPT ![c] = Append(queue[c], "event")]
          BY <1>5, <1>q, <3>2 DEF Emit, Put
        <4> HIDE DEF c
        <4>2. queue'[c] = Append(queue[c], "event") /\ \A d \in Conns \ {c} : queue'[d] = queue[d]
          BY <1>q, <4>1
        <4>3. Closing(c) => \E i \in DOMAIN queue'[c] : queue'[c][i] = "close"
          <5>1. "event" \in Items /\ queue[c] \in Seq(Items)
            BY <1>q, <4>1 DEF Items
          <5>2. Closing(c) => \E i \in DOMAIN Append(queue[c], "event") :
                                  Append(queue[c], "event")[i] = "close"
            BY <5>1, StillClosing DEF Closing
          <5> QED
            BY <4>2, <5>2
        <4> QED
          BY <4>2, <4>3 DEF Closing
      <3> QED
        BY <3>1, <3>2
    <2>3. \A d \in Conns : Receives(d)'
      BY <2>1, <2>2 DEF LoneInv, Receives
    <2> QED
      BY <2>1, <2>3, ConnectionsStay DEF LoneInv
  <1>6. ASSUME NEW r \in Rides, Advance(r) PROVE LoneInv'
    BY <1>6 DEF Advance, LoneInv, OneAtATime, Busy, Receives, Closing
  <1>7. ASSUME NEW m \in event, HandleEnd(m[1], m[2]) PROVE LoneInv'
    <2>1. UNCHANGED <<conn, newest>> /\ m[2] \in Keys
      BY <1>7 DEF HandleEnd, IInv, TypeOK, Ended, Keys
    <2>2. CASE Complete(m[2])
      BY <2>1, <2>2, CompleteLone
    <2>3. CASE UNCHANGED <<emitters, queue>>
      BY <2>1, <2>3 DEF LoneInv, OneAtATime, Busy, Receives, Closing
    <2> QED
      BY <1>7, <2>2, <2>3 DEF HandleEnd
  <1>8. ASSUME NEW d \in Drivers, GoOffline(d) PROVE LoneInv'
    BY <1>8, CompleteLone DEF GoOffline, Keys
  <1>9. CASE UNCHANGED vars
    BY <1>9 DEF vars, LoneInv, OneAtATime, Busy, Receives, Closing
  <1> QED
    BY <1>1, <1>2, <1>3, <1>4, <1>5, <1>6, <1>7, <1>8, <1>9 DEF Next

\* What sse.py:1-2 says, and a second connection under a key breaks, is true of clients
\* that open a stream only when their last one is closed: the newest stream of a key,
\* open and not being closed, is the one that gets its events.
THEOREM LoneStreamsAreRegistered == ASSUME AtOnce = 1 PROVE Spec => []NewestIsRegistered
  <1>1. Init => LoneInv
    BY DEF Init, LoneInv, OneAtATime, Receives, Busy, Unused
  <1>2. IInv /\ LoneInv /\ [Next]_vars => LoneInv'
    BY StepLone
  <1>3. IInv /\ LoneInv => NewestIsRegistered
    BY DEF IInv, TypeOK, LoneInv, OneAtATime, Receives, NewestIsRegistered
  <1> QED
    BY <1>1, <1>2, <1>3, InvariantHolds, PTL DEF Spec
=============================================================================
