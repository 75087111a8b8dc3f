--------------------------- MODULE EventBusProofs ---------------------------
(***************************************************************************)
(* The event bus for any number of subscriptions, identifiers, types of    *)
(* events and limits: what the log replays, what a subscriber gets, and    *)
(* that every running task can be found.  Two theorems name what they need *)
(* beyond the assumption of the module, since the runs show that they fail *)
(* without it: streams and callbacks that share no identifier, and         *)
(* callbacks that publish nothing while the bus is being stopped.          *)
(***************************************************************************)
EXTENDS EventBus, SequenceTheorems, TLAPS

Points == Alive \cup {"none", "done", "cancelled", "streaming"}

BusTypes ==
  /\ running \in BOOLEAN /\ stopping \in BOOLEAN
  /\ awaited \subseteq Handles
  /\ published \in Seq(Kinds)
  /\ kept \in Seq(Nat) /\ base \in Nat
  /\ registry \in [Ids -> Handles \cup {None}]
  /\ tasks \in [Ids -> Handles \cup {None}]
  /\ sub \in [Handles -> Subscriptions \cup {None}]
  /\ loop \in [Handles -> Points]
  /\ queue \in [Handles -> Seq(Nat)]
  /\ delivered \in [Handles -> Seq(Nat)]
  /\ dropped \in [Handles -> SUBSET Nat]
  /\ since \in [Handles -> Nat]
  /\ until \in [Handles -> Nat]

\* The log holds the newest events, and its base is the number of the first.
LogInv ==
  /\ base + Len(kept) = Len(published)
  /\ Len(kept) <= MaxLog
  /\ base > 0 => Len(kept) = MaxLog
  /\ \A i \in 1..Len(kept) : kept[i] = base + i - 1

\* An identifier is registered for a subscription that bears it.
RegistryInv ==
  \A i \in Ids : registry[i] # None => sub[registry[i]] # None /\ sub[registry[i]].id = i

\* Nothing has happened to a subscription that is not made, and what bounds the
\* events of the others is not ahead of what is published.
MadeInv ==
  \A h \in Handles :
    /\ sub[h] = None =>
         /\ delivered[h] = <<>> /\ queue[h] = <<>> /\ dropped[h] = {}
         /\ loop[h] = "none"
    /\ since[h] <= Len(published) /\ until[h] <= Len(published)

\* The events that a subscriber gets or has lost
Due(h) ==
  {e \in 0..Len(published) - 1 :
     /\ Wants(h, published[e + 1])
     /\ since[h] =< e
     /\ Registered(h) \/ e < until[h]}

Stream(h) == delivered[h] \o queue[h]

Exact(h) ==
  sub[h] # None =>
    /\ \A i, j \in 1..Len(Stream(h)) : i < j => Stream(h)[i] < Stream(h)[j]
    /\ Due(h) = Range(Stream(h)) \cup dropped[h]

DeliveryInv == BusTypes /\ LogInv /\ RegistryInv /\ MadeInv /\ NothingSkipped

-----------------------------------------------------------------------------
(* Sequences *)

LEMMA HeadToTail ==
  ASSUME NEW q \in Seq(Nat), q # <<>>, NEW d \in Seq(Nat)
  PROVE  /\ Append(d, Head(q)) \o Tail(q) = d \o q
         /\ Append(d, Head(q)) \in Seq(Nat) /\ Tail(q) \in Seq(Nat)
         /\ Len(Tail(q)) <= Len(q)
<1>1. /\ Head(q) \in Nat /\ Tail(q) \in Seq(Nat) /\ Len(Tail(q)) = Len(q) - 1
      /\ Head(q) = q[1]
  BY HeadTailProperties
<1>2. Len(q) \in Nat /\ 1 \in 1..Len(q) /\ Len(q) \in 1..Len(q)
  <2>1. Len(q) \in Nat /\ Len(q) # 0
    BY EmptySeq
  <2> QED
    BY <2>1
<1>3. q = <<Head(q)>> \o Tail(q)
  <2>1. SubSeq(q, 1, Len(q)) = <<q[1]>> \o SubSeq(q, 1 + 1, Len(q))
    BY <1>2, SubSeqRecursiveFirst
  <2>2. SubSeq(q, 1, Len(q)) = q /\ Tail(q) = SubSeq(q, 2, Len(q))
    BY SubSeqFull, TailIsSubSeq
  <2> QED
    BY <2>1, <2>2, <1>1
<1>4. Append(d, Head(q)) = d \o <<Head(q)>> /\ Append(d, Head(q)) \in Seq(Nat)
  BY <1>1, AppendIsConcat, AppendProperties
<1>5. (d \o <<Head(q)>>) \o Tail(q) = d \o (<<Head(q)>> \o Tail(q))
  <2>1. <<Head(q)>> \in Seq(Nat)
    BY <1>1
  <2> QED
    BY <2>1, <1>1, ConcatAssociative, SMTT(30)
<1>6. Append(d, Head(q)) \o Tail(q) = d \o q
  <2>1. Append(d, Head(q)) \o Tail(q) = d \o (<<Head(q)>> \o Tail(q))
    BY <1>4, <1>5, Zenon
  <2> QED
    BY <2>1, <1>3, Zenon
<1>7. Len(Tail(q)) <= Len(q)
  BY <1>1, <1>2
<1> QED
  BY <1>1, <1>4, <1>6, <1>7

LEMMA AppendLast ==
  ASSUME NEW d \in Seq(Nat), NEW q \in Seq(Nat), NEW e \in Nat
  PROVE  d \o Append(q, e) = Append(d \o q, e) /\ d \o q \in Seq(Nat)
OBVIOUS

LEMMA AppendGreater ==
  ASSUME NEW s \in Seq(Nat), NEW e \in Nat,
         \A i, j \in 1..Len(s) : i < j => s[i] < s[j],
         \A x \in Range(s) : x < e
  PROVE  LET t == Append(s, e)
         IN  /\ \A i, j \in 1..Len(t) : i < j => t[i] < t[j]
             /\ Range(t) = Range(s) \cup {e}
<1> DEFINE t == Append(s, e)
<1>1. /\ t \in Seq(Nat) /\ Len(t) = Len(s) + 1 /\ t[Len(s) + 1] = e
      /\ Len(s) \in Nat /\ \A i \in 1..Len(s) : t[i] = s[i] /\ s[i] \in Nat
  OBVIOUS
<1>2. DOMAIN t = 1..(Len(s) + 1) /\ DOMAIN s = 1..Len(s)
  BY <1>1
<1> HIDE DEF t
<1>3. \A i \in 1..Len(s) : t[i] < e
  BY <1>1, <1>2 DEF Range
<1>4. ASSUME NEW i \in 1..Len(t), NEW j \in 1..Len(t), i < j PROVE t[i] < t[j]
  <2>1. i \in 1..Len(s)
    BY <1>1, <1>4
  <2>2. CASE j \in 1..Len(s)
    BY <2>1, <2>2, <1>1, <1>4
  <2>3. CASE j = Len(s) + 1
    BY <2>1, <2>3, <1>1, <1>3
  <2> QED
    BY <2>2, <2>3, <1>1
<1>5. Range(t) = Range(s) \cup {e}
  BY <1>1, <1>2 DEF Range
<1> QED
  BY <1>4, <1>5 DEF t

\* Only the newest MaxLog events stay.
LEMMA RetainedNewest ==
  ASSUME NEW log \in Seq(Nat)
  PROVE  /\ Retained(log) \in Seq(Nat)
         /\ Len(Retained(log)) = IF Len(log) <= MaxLog THEN Len(log) ELSE MaxLog
         /\ \A i \in 1..Len(Retained(log)) :
              Retained(log)[i] = log[Len(log) - Len(Retained(log)) + i]
<1>1. Len(log) \in Nat /\ MaxLog \in Nat \ {0}
      /\ \A i \in 1..Len(log) : log[i] \in Nat
  BY BusAssumption
<1>2. CASE Len(log) <= MaxLog
  BY <1>1, <1>2 DEF Retained
<1>3. CASE Len(log) > MaxLog
  <2> DEFINE lo == Len(log) - MaxLog + 1
             hi == Len(log)
  <2>1. lo \in Int /\ hi \in Int /\ hi - lo + 1 = MaxLog /\ lo <= hi
        /\ \A i \in lo..hi : log[i] \in Nat
    BY <1>1, <1>3
  <2>2. Retained(log) = SubSeq(log, lo, hi)
    BY <1>1, <1>3 DEF Retained
  <2>3. /\ SubSeq(log, lo, hi) \in Seq(Nat)
        /\ Len(SubSeq(log, lo, hi)) = hi - lo + 1
        /\ \A i \in 1..hi - lo + 1 : SubSeq(log, lo, hi)[i] = log[lo + i - 1]
    <3> HIDE DEF lo, hi
    <3> QED
      BY <2>1, SubSeqProperties, SMTT(30)
  <2>4. \A i \in Int : lo + i - 1 = Len(log) - MaxLog + i
    BY <1>1
  <2>5. Len(Retained(log)) = MaxLog
    BY <2>1, <2>2, <2>3, Zenon
  <2>6. ASSUME NEW i \in 1..MaxLog
        PROVE  Retained(log)[i] = log[Len(log) - MaxLog + i]
    <3>1. Retained(log)[i] = log[lo + i - 1]
      BY <2>1, <2>2, <2>3, Zenon
    <3>2. i \in Int
      BY <1>1
    <3> QED
      BY <2>4, <3>1, <3>2, Zenon
  <2> QED
    BY <1>1, <1>3, <2>2, <2>3, <2>5, <2>6
<1> QED
  BY <1>1, <1>2, <1>3

LEMMA PutTypes ==
  ASSUME NEW q \in Seq(Nat), NEW e \in Nat
  PROVE  Put(q, e) \in Seq(Nat)
BY AppendProperties DEF Put

LEMMA SubscriptionFields ==
  ASSUME NEW s \in Subscriptions
  PROVE  s # None /\ s.id \in Ids /\ s.types \subseteq Kinds /\ s.callback \in BOOLEAN
BY BusAssumption DEF Subscriptions

-----------------------------------------------------------------------------
(* Types *)

LEMMA TypesInit == Init => BusTypes
<1> SUFFICES ASSUME Init PROVE BusTypes
  OBVIOUS
<1>1. published \in Seq(Kinds) /\ kept \in Seq(Nat)
  BY DEF Init
<1>2. queue \in [Handles -> Seq(Nat)] /\ delivered \in [Handles -> Seq(Nat)]
  <2>1. <<>> \in Seq(Nat)
    OBVIOUS
  <2> QED
    BY <2>1 DEF Init
<1>3. /\ running \in BOOLEAN /\ stopping \in BOOLEAN /\ awaited \subseteq Handles
      /\ base \in Nat
      /\ dropped \in [Handles -> SUBSET Nat]
      /\ since \in [Handles -> Nat] /\ until \in [Handles -> Nat]
  BY DEF Init
<1>4. /\ registry \in [Ids -> Handles \cup {None}]
      /\ tasks \in [Ids -> Handles \cup {None}]
      /\ sub \in [Handles -> Subscriptions \cup {None}]
  BY DEF Init
<1>5. loop \in [Handles -> Points]
  BY DEF Init, Points
<1> QED
  BY <1>1, <1>2, <1>3, <1>4, <1>5 DEF BusTypes

LEMMA RegisterTypes ==
  ASSUME BusTypes, NEW h \in Handles, NEW id \in Ids, NEW types \in Filters,
         NEW callback \in BOOLEAN, Register(h, id, types, callback)
  PROVE  /\ sub' \in [Handles -> Subscriptions \cup {None}]
         /\ registry' \in [Ids -> Handles \cup {None}]
         /\ since' \in [Handles -> Nat]
<1>1. [id |-> id, types |-> types, callback |-> callback] \in Subscriptions
  BY BusAssumption DEF Subscriptions
<1>2. Len(published) \in Nat
  BY DEF BusTypes
<1> QED
  BY <1>1, <1>2 DEF BusTypes, Register

LEMMA DeregisterTypes ==
  ASSUME BusTypes, NEW id \in Ids, Deregister(id)
  PROVE  /\ registry' \in [Ids -> Handles \cup {None}]
         /\ until' \in [Handles -> Nat]
<1>1. Len(published) \in Nat
  BY DEF BusTypes
<1> QED
  BY <1>1 DEF BusTypes, Deregister

LEMMA TypesStep ==
  ASSUME BusTypes, MadeInv, [Next]_vars
  PROVE  BusTypes'
<1>1. ASSUME NEW k \in Kinds, Publish(k) PROVE BusTypes'
  <2>1. Len(published) \in Nat /\ published' = Append(published, k)
    BY <1>1 DEF BusTypes, Publish
  <2>2. published' \in Seq(Kinds)
    BY <2>1, AppendProperties DEF BusTypes
  <2>3. Append(kept, Len(published)) \in Seq(Nat)
        /\ Len(Append(kept, Len(published))) \in Nat
    BY <2>1, AppendProperties DEF BusTypes
  <2>4. kept' = Retained(Append(kept, Len(published)))
        /\ base' = base + Len(Append(kept, Len(published))) - Len(kept')
    BY <1>1 DEF Publish
  <2>5. kept' \in Seq(Nat) /\ Len(kept') \in Nat
        /\ Len(kept') <= Len(Append(kept, Len(published)))
    <3> DEFINE log == Append(kept, Len(published))
    <3>1. log \in Seq(Nat) /\ Len(log) \in Nat /\ kept' = Retained(log)
      BY <2>3, <2>4
    <3> HIDE DEF log
    <3>2. /\ Retained(log) \in Seq(Nat)
          /\ Len(Retained(log)) = IF Len(log) <= MaxLog THEN Len(log) ELSE MaxLog
      BY <3>1, RetainedNewest
    <3>3. kept' \in Seq(Nat) /\ Len(kept') \in Nat /\ Len(kept') <= Len(log)
      BY <3>1, <3>2, BusAssumption
    <3> QED
      BY <3>3 DEF log
  <2>6. base' \in Nat
    BY <2>3, <2>4, <2>5 DEF BusTypes
  <2>7. queue' \in [Handles -> Seq(Nat)]
    BY <1>1, <2>1, PutTypes DEF BusTypes, Publish
  <2>8. dropped' \in [Handles -> SUBSET Nat]
    BY <1>1, <2>1 DEF BusTypes, Publish
  <2> QED
    BY <1>1, <2>2, <2>5, <2>6, <2>7, <2>8
    DEF BusTypes, Publish, switch, subscriptions
<1>2. ASSUME NEW h \in Handles, Begin(h) \/ TimeOut(h) \/ Return(h) PROVE BusTypes'
  <2>1. loop' = [loop EXCEPT ![h] = Continued(h)] /\ Continued(h) \in Points
    BY <1>2 DEF Begin, TimeOut, Return, Continued, Points, Alive
  <2> QED
    BY <1>2, <2>1
    DEF BusTypes, Begin, TimeOut, Return, switch, eventLog, subscriptions, traffic
<1>3. ASSUME NEW h \in Handles, Call(h) \/ StreamNext(h) PROVE BusTypes'
  <2>1. Deliver(h)
    BY <1>3 DEF Call, StreamNext
  <2>2. /\ queue[h] \in Seq(Nat) /\ delivered[h] \in Seq(Nat) /\ queue[h] # <<>>
        /\ queue' = [queue EXCEPT ![h] = Tail(queue[h])]
        /\ delivered' = [delivered EXCEPT ![h] = Append(delivered[h], Head(queue[h]))]
        /\ dropped' = dropped
    BY <2>1 DEF BusTypes, Deliver
  <2>3. Tail(queue[h]) \in Seq(Nat) /\ Append(delivered[h], Head(queue[h])) \in Seq(Nat)
    BY <2>2, HeadToTail
  <2>4. queue' \in [Handles -> Seq(Nat)] /\ delivered' \in [Handles -> Seq(Nat)]
    BY <2>2, <2>3 DEF BusTypes
  <2>5. loop' \in [Handles -> Points]
    BY <1>3 DEF BusTypes, Call, StreamNext, Points, Alive
  <2> QED
    BY <1>3, <2>2, <2>4, <2>5
    DEF BusTypes, Call, StreamNext, switch, eventLog, subscriptions
<1>4. ASSUME NEW h \in Handles, CloseStream(h) PROVE BusTypes'
  <2>1. sub[h] \in Subscriptions
    BY <1>4 DEF BusTypes, MadeInv, CloseStream
  <2>2. sub[h].id \in Ids /\ Deregister(sub[h].id)
    BY <1>4, <2>1, SubscriptionFields DEF CloseStream
  <2> QED
    BY <1>4, <2>2, DeregisterTypes
    DEF BusTypes, CloseStream, Points, switch, eventLog, traffic
<1>5. ASSUME NEW h \in Handles, NEW i \in CallbackIds, NEW f \in Filters,
             Subscribe(h, i, f)
      PROVE  BusTypes'
  <2>1. i \in Ids /\ Register(h, i, f, TRUE)
    BY <1>5 DEF Subscribe, Ids
  <2> QED
    BY <1>5, <2>1, RegisterTypes
    DEF BusTypes, Subscribe, Points, Alive, switch, eventLog, traffic
<1>6. ASSUME NEW h \in Handles, NEW i \in StreamIds, NEW f \in Filters,
             OpenStream(h, i, f)
      PROVE  BusTypes'
  <2>1. i \in Ids /\ Register(h, i, f, FALSE)
    BY <1>6 DEF OpenStream, Ids
  <2> QED
    BY <1>6, <2>1, RegisterTypes
    DEF BusTypes, OpenStream, Points, switch, eventLog, traffic
<1>7. ASSUME NEW i \in Ids, Unsubscribe(i) PROVE BusTypes'
  <2>1. Deregister(i)
    BY <1>7 DEF Unsubscribe
  <2> QED
    BY <1>7, <2>1, DeregisterTypes
    DEF BusTypes, Unsubscribe, CancelTask, Points, switch, eventLog, traffic
<1>8. ASSUME Start PROVE BusTypes'
  BY <1>8
  DEF BusTypes, Start, Unserved, Points, Alive, eventLog, subscriptions, traffic
<1>9. ASSUME Stop PROVE BusTypes'
  <2>1. awaited' \subseteq Handles
    BY <1>9 DEF BusTypes, Stop, Gathered
  <2> QED
    BY <1>9, <2>1 DEF BusTypes, Stop, eventLog, subscriptions, traffic
<1>10. ASSUME Stopped PROVE BusTypes'
  BY <1>10 DEF BusTypes, Stopped, Cleared, eventLog, subscriptions, traffic
<1>11. ASSUME UNCHANGED vars PROVE BusTypes'
  BY <1>11 DEF BusTypes, vars
<1> QED
  BY <1>1, <1>2, <1>3, <1>4, <1>5, <1>6, <1>7, <1>8, <1>9, <1>10, <1>11
  DEF Next, Run

-----------------------------------------------------------------------------
(* The event log *)

LEMMA LogStep ==
  ASSUME BusTypes, LogInv, [Next]_vars
  PROVE  LogInv'
<1>1. ASSUME NEW k \in Kinds, Publish(k) PROVE LogInv'
  <2> DEFINE log == Append(kept, Len(published))
  <2>1. /\ Len(published) \in Nat /\ published \in Seq(Kinds) /\ kept \in Seq(Nat)
        /\ Len(kept) \in Nat /\ base \in Nat
        /\ published' = Append(published, k)
        /\ kept' = Retained(log) /\ base' = base + Len(log) - Len(Retained(log))
    BY <1>1 DEF BusTypes, Publish
  <2>2. Len(published') = Len(published) + 1
    BY <2>1, AppendProperties
  <2>3. /\ log \in Seq(Nat) /\ Len(log) = Len(kept) + 1
        /\ log[Len(kept) + 1] = Len(published)
        /\ \A i \in 1..Len(kept) : log[i] = kept[i]
    BY <2>1, AppendProperties
  <2> HIDE DEF log
  <2> DEFINE n == Len(kept')
             m == Len(log)
  <2>4. /\ n = IF m <= MaxLog THEN m ELSE MaxLog
        /\ \A i \in 1..n : kept'[i] = log[m - n + i]
        /\ base' = base + m - n
    BY <2>1, <2>3, RetainedNewest
  <2>5. /\ base + Len(kept) = Len(published) /\ Len(kept) <= MaxLog
        /\ (base > 0 => Len(kept) = MaxLog)
        /\ \A i \in 1..Len(kept) : kept[i] = base + i - 1
    BY DEF LogInv
  <2>6. MaxLog \in Nat
    BY BusAssumption
  <2>7. m \in Nat /\ m = Len(kept) + 1
    BY <2>1, <2>3
  <2> HIDE DEF n, m
  <2>8. n \in Nat /\ n <= m /\ n <= MaxLog /\ (n = m \/ n = MaxLog)
    BY <2>4, <2>6, <2>7
  <2>9. base' + n = Len(published')
    BY <2>1, <2>2, <2>4, <2>5, <2>7, <2>8
  <2>10. base' > 0 => n = MaxLog
    <3>1. CASE n = m
      BY <3>1, <2>1, <2>4, <2>5, <2>6, <2>7, <2>8
    <3> QED
      BY <3>1, <2>8
  <2>11. ASSUME NEW i \in 1..m PROVE log[i] = base + i - 1
    <3>1. CASE i \in 1..Len(kept)
      BY <3>1, <2>3, <2>5
    <3>2. CASE i = Len(kept) + 1
      BY <3>2, <2>1, <2>3, <2>5
    <3> QED
      BY <3>1, <3>2, <2>1, <2>7
  <2>12. ASSUME NEW i \in 1..n PROVE kept'[i] = base' + i - 1
    <3>1. m - n + i \in 1..m
      BY <2>7, <2>8
    <3>2. kept'[i] = base + (m - n + i) - 1
      BY <3>1, <2>4, <2>11
    <3>3. base' + i - 1 = base + (m - n + i) - 1
      <4>1. i \in Int /\ base \in Int /\ m \in Int /\ n \in Int
        BY <2>1, <2>7, <2>8
      <4>2. base' = base + m - n
        BY <2>4
      <4> QED
        BY <4>1, <4>2
    <3> QED
      BY <3>2, <3>3, Zenon
  <2> QED
    BY <2>8, <2>9, <2>10, <2>12 DEF LogInv, n
<1>2. CASE UNCHANGED eventLog
  BY <1>2 DEF LogInv, eventLog
<1>3. [Next]_vars /\ ~(\E k \in Kinds : Publish(k)) => UNCHANGED eventLog
  BY DEF Next, Run, Begin, TimeOut, Call, Return, StreamNext, CloseStream, Subscribe,
         OpenStream, Unsubscribe, Start, Stop, Stopped, vars, eventLog
<1> QED
  BY <1>1, <1>2, <1>3

LEMMA LogReplays ==
  ASSUME BusTypes, LogInv
  PROVE  ReplayIsExact
<1> SUFFICES ASSUME NEW from \in 0..Len(published)
             PROVE  /\ \A i \in 1..Len(Replay(from)) - 1 :
                         Replay(from)[i] < Replay(from)[i + 1]
                    /\ Range(Replay(from)) =
                         {e \in 0..Len(published) - 1 :
                            e >= from /\ e >= Len(published) - MaxLog}
  BY DEF ReplayIsExact
<1> DEFINE first == IF from > base THEN from ELSE base
           lo == first - base + 1
           hi == Len(kept)
           events == Replay(from)
<1>1. /\ Len(published) \in Nat /\ hi \in Nat /\ base \in Nat /\ from \in Nat
      /\ base + hi = Len(published) /\ hi <= MaxLog /\ (base > 0 => hi = MaxLog)
      /\ MaxLog \in Nat
  BY BusAssumption DEF BusTypes, LogInv
<1>2. /\ first \in Nat /\ lo \in Int /\ lo >= 1 /\ lo <= hi + 1 /\ from <= first
      /\ base <= first /\ hi - lo + 1 = Len(published) - first
      /\ first <= Len(published) /\ (first = from \/ first = base)
  BY <1>1
<1>3. \A i \in 1..hi : kept[i] = base + i - 1
  BY DEF LogInv
<1>4. events = SubSeq(kept, lo, hi)
  BY DEF Replay
<1>5. \A i \in lo..hi : kept[i] \in Nat
  BY <1>1, <1>2, <1>3
<1>6. /\ events \in Seq(Nat)
      /\ Len(events) = IF lo <= hi THEN hi - lo + 1 ELSE 0
      /\ \A i \in 1..hi - lo + 1 : events[i] = kept[lo + i - 1]
  <2> HIDE DEF events, lo, hi
  <2> QED
    BY <1>1, <1>2, <1>4, <1>5, SubSeqProperties
<1> HIDE DEF events, lo, hi, first
<1>7. Len(events) = Len(published) - first
  BY <1>1, <1>2, <1>6
<1>8. ASSUME NEW i \in 1..Len(events) PROVE events[i] = first + i - 1
  <2>1. lo + i - 1 \in 1..hi /\ i \in 1..hi - lo + 1
    BY <1>1, <1>2, <1>7
  <2>2. events[i] = base + (lo + i - 1) - 1
    BY <2>1, <1>3, <1>6
  <2> QED
    BY <2>1, <2>2, <1>1, <1>2
<1>9. Range(events) = {events[i] : i \in 1..Len(events)}
  BY <1>6, LenProperties DEF Range
<1>10. ASSUME NEW i \in 1..Len(events) - 1 PROVE events[i] < events[i + 1]
  <2>1. i \in 1..Len(events) /\ i + 1 \in 1..Len(events)
    BY <1>1, <1>2, <1>7
  <2>2. events[i] = first + i - 1 /\ events[i + 1] = first + (i + 1) - 1
    BY <2>1, <1>8
  <2> QED
    BY <2>1, <2>2, <1>2
<1>11. Range(events) = first..Len(published) - 1
  <2>1. ASSUME NEW e \in first..Len(published) - 1 PROVE e \in Range(events)
    <3>1. e - first + 1 \in 1..Len(events)
      BY <1>1, <1>2, <1>7
    <3>2. events[e - first + 1] = first + (e - first + 1) - 1
      BY <3>1, <1>8
    <3>3. events[e - first + 1] = e
      BY <3>2, <1>1, <1>2
    <3> QED
      BY <3>1, <3>3, <1>9
  <2>2. ASSUME NEW e \in Range(events) PROVE e \in first..Len(published) - 1
    BY <1>1, <1>2, <1>7, <1>8, <1>9
  <2> QED
    BY <2>1, <2>2
<1>12. first..Len(published) - 1 = {e \in 0..Len(published) - 1 :
                                     e >= from /\ e >= Len(published) - MaxLog}
  BY <1>1, <1>2
<1> QED
  BY <1>10, <1>11, <1>12 DEF events

-----------------------------------------------------------------------------
(* Subscriptions *)

LEMMA Registering ==
  ASSUME BusTypes, NEW h \in Handles, NEW id \in Ids, NEW f \in Filters,
         NEW c \in BOOLEAN, Register(h, id, f, c)
  PROVE  /\ sub[h] = None /\ registry[id] = None
         /\ sub'[h] # None /\ sub'[h].id = id /\ sub'[h].callback = c
         /\ \A g \in Handles : g # h => sub'[g] = sub[g] /\ since'[g] = since[g]
         /\ registry'[id] = h /\ since'[h] = Len(published)
         /\ \A i \in Ids : i # id => registry'[i] = registry[i]
<1>1. [id |-> id, types |-> f, callback |-> c] \in Subscriptions
  BY BusAssumption DEF Subscriptions
<1>2. [id |-> id, types |-> f, callback |-> c] # None
  BY <1>1, BusAssumption
<1> QED
  BY <1>2 DEF BusTypes, Register

LEMMA RegistryStep ==
  ASSUME BusTypes, RegistryInv, MadeInv, [Next]_vars
  PROVE  RegistryInv'
<1>1. ASSUME NEW h \in Handles, NEW id \in Ids, NEW f \in Filters, NEW c \in BOOLEAN,
             Register(h, id, f, c)
      PROVE  RegistryInv'
  <2> SUFFICES ASSUME NEW i \in Ids, registry'[i] # None
               PROVE  sub'[registry'[i]] # None /\ sub'[registry'[i]].id = i
    BY DEF RegistryInv
  <2>1. CASE i = id
    BY <1>1, <2>1, Registering
  <2>2. CASE i # id
    <3>1. registry'[i] = registry[i]
      BY <1>1, <2>2, Registering
    <3>2. registry[i] \in Handles /\ sub[registry[i]] # None /\ sub[registry[i]].id = i
      BY <3>1 DEF BusTypes, RegistryInv
    <3>3. registry[i] # h
      BY <1>1, <3>2, Registering
    <3>4. sub'[registry[i]] = sub[registry[i]]
      BY <1>1, <3>2, <3>3, Registering
    <3> QED
      BY <3>1, <3>2, <3>4
  <2> QED
    BY <2>1, <2>2
<1>2. ASSUME NEW id \in Ids, Deregister(id), UNCHANGED sub PROVE RegistryInv'
  BY <1>2 DEF BusTypes, RegistryInv, Deregister
<1>3. ASSUME NEW h \in Handles, CloseStream(h) PROVE RegistryInv'
  <2>1. sub[h] \in Subscriptions
    BY <1>3 DEF BusTypes, MadeInv, CloseStream
  <2>2. sub[h].id \in Ids
    BY <2>1, SubscriptionFields
  <2> QED
    BY <1>2, <1>3, <2>2 DEF CloseStream
<1>4. CASE UNCHANGED <<registry, sub>>
  BY <1>4 DEF RegistryInv
<1>5. \/ UNCHANGED <<registry, sub>>
      \/ \E h \in Handles : CloseStream(h)
      \/ \E id \in Ids : Deregister(id) /\ UNCHANGED sub
      \/ \E h \in Handles, id \in Ids, f \in Filters, c \in BOOLEAN :
           Register(h, id, f, c)
  BY DEF Next, Run, Publish, Begin, TimeOut, Call, Return, StreamNext, Subscribe, Ids,
         OpenStream, Unsubscribe, Start, Stop, Stopped, vars, subscriptions
<1> QED
  BY <1>1, <1>2, <1>3, <1>4, <1>5

LEMMA MadeStep ==
  ASSUME BusTypes, RegistryInv, MadeInv, [Next]_vars
  PROVE  MadeInv'
<1> DEFINE Calm(h) ==
             sub'[h] = None =>
               /\ sub[h] = None /\ delivered'[h] = delivered[h]
               /\ queue'[h] = queue[h] /\ dropped'[h] = dropped[h] /\ loop'[h] = loop[h]
           Bounded(h) ==
             /\ since'[h] = since[h] \/ since'[h] = Len(published)
             /\ until'[h] = until[h] \/ until'[h] = Len(published)
<1>1. Len(published) \in Nat /\ Len(published') \in Nat
      /\ Len(published) <= Len(published')
  <2>1. CASE \E k \in Kinds : Publish(k)
    BY <2>1, AppendProperties DEF BusTypes, Publish
  <2>2. [Next]_vars /\ ~(\E k \in Kinds : Publish(k)) => UNCHANGED published
    BY DEF Next, Run, Begin, TimeOut, Call, Return, StreamNext, CloseStream, Subscribe,
           OpenStream, Unsubscribe, Start, Stop, Stopped, vars, eventLog
  <2> QED
    BY <2>1, <2>2 DEF BusTypes
<1>2. ASSUME \A h \in Handles : Calm(h) /\ Bounded(h)
      PROVE  MadeInv'
  <2>1. ASSUME NEW h \in Handles
        PROVE  since'[h] <= Len(published') /\ until'[h] <= Len(published')
    <3>1. /\ since[h] \in Nat /\ until[h] \in Nat
          /\ since[h] <= Len(published) /\ until[h] <= Len(published)
      BY DEF MadeInv, BusTypes
    <3> QED
      BY <1>1, <1>2, <3>1
  <2>2. ASSUME NEW h \in Handles, sub'[h] = None
        PROVE  /\ delivered'[h] = <<>> /\ queue'[h] = <<>> /\ dropped'[h] = {}
               /\ loop'[h] = "none"
    BY <1>2, <2>2 DEF MadeInv
  <2> QED
    BY <2>1, <2>2 DEF MadeInv
<1>3. ASSUME NEW k \in Kinds, Publish(k), NEW h \in Handles
      PROVE  Calm(h) /\ Bounded(h)
  BY <1>3 DEF Publish, Registered, subscriptions, BusTypes
<1>4. ASSUME NEW g \in Handles, Run(g) \/ StreamNext(g), NEW h \in Handles
      PROVE  Calm(h) /\ Bounded(h)
  <2>1. sub[g] # None /\ UNCHANGED subscriptions
    BY <1>4 DEF Run, Begin, TimeOut, Call, Return, StreamNext, MadeInv
  <2>2. h # g => UNCHANGED <<delivered[h], queue[h], dropped[h], loop[h]>>
    BY <1>4 DEF Run, Begin, TimeOut, Call, Return, StreamNext, Deliver, traffic, BusTypes
  <2> QED
    BY <2>1, <2>2 DEF subscriptions
<1>5. ASSUME NEW g \in Handles, CloseStream(g), NEW h \in Handles
      PROVE  Calm(h) /\ Bounded(h)
  BY <1>5 DEF CloseStream, Deregister, MadeInv, BusTypes, traffic
<1>6. ASSUME NEW g \in Handles, NEW id \in Ids, NEW f \in Filters, NEW c \in BOOLEAN,
             Register(g, id, f, c),
             UNCHANGED <<traffic, until>>, loop' = [loop EXCEPT ![g] = loop'[g]],
             NEW h \in Handles
      PROVE  Calm(h) /\ Bounded(h)
  <2>1. sub'[h] = None => h # g /\ sub[h] = None
    BY <1>6, Registering
  <2>2. h # g => loop'[h] = loop[h]
    BY <1>6 DEF BusTypes
  <2>3. since'[h] = since[h] \/ since'[h] = Len(published)
    BY <1>6, Registering
  <2> QED
    BY <1>6, <2>1, <2>2, <2>3 DEF traffic
<1>7. ASSUME NEW i \in Ids, Unsubscribe(i), NEW h \in Handles
      PROVE  Calm(h) /\ Bounded(h)
  <2>1. CASE loop'[h] = loop[h]
    BY <1>7, <2>1 DEF Unsubscribe, Deregister, traffic, BusTypes
  <2>2. CASE loop'[h] # loop[h]
    <3>1. loop[h] \in Alive
      BY <1>7, <2>2 DEF Unsubscribe, CancelTask, BusTypes
    <3>2. sub[h] # None
      BY <3>1 DEF MadeInv, Alive
    <3> QED
      BY <1>7, <3>2 DEF Unsubscribe, Deregister, traffic, BusTypes
  <2> QED
    BY <2>1, <2>2
<1>8. ASSUME Start, NEW h \in Handles PROVE Calm(h) /\ Bounded(h)
  BY <1>8 DEF Start, Unserved, RegistryInv, subscriptions, traffic, BusTypes
<1>9. ASSUME Stop \/ Stopped \/ UNCHANGED vars, NEW h \in Handles
      PROVE  Calm(h) /\ Bounded(h)
  BY <1>9 DEF Stop, Stopped, vars, subscriptions, traffic
<1>10. ASSUME NEW g \in Handles, NEW id \in Ids, NEW f \in Filters,
              Subscribe(g, id, f) \/ OpenStream(g, id, f), NEW h \in Handles
       PROVE  Calm(h) /\ Bounded(h)
  <2>1. loop' = [loop EXCEPT ![g] = loop'[g]]
    BY <1>10 DEF Subscribe, OpenStream, BusTypes
  <2>2. UNCHANGED <<traffic, until>> /\ \E c \in BOOLEAN : Register(g, id, f, c)
    BY <1>10 DEF Subscribe, OpenStream
  <2> QED
    BY <1>6, <2>1, <2>2
<1> HIDE DEF Calm, Bounded
<1> QED
  BY <1>2, <1>3, <1>4, <1>5, <1>7, <1>8, <1>9, <1>10 DEF Next, Ids

-----------------------------------------------------------------------------
(* What subscribers get *)

\* A step that publishes nothing and leaves alone what a subscription has got and
\* may get keeps it exact.
LEMMA SameIsExact ==
  ASSUME NEW h \in Handles, Exact(h), UNCHANGED published, sub[h] # None,
         sub'[h] = sub[h], since'[h] = since[h],
         Stream(h)' = Stream(h), dropped'[h] = dropped[h],
         \A e \in 0..Len(published) - 1 :
           (Registered(h) \/ e < until[h]) <=> (Registered(h)' \/ e < until'[h])
  PROVE  Exact(h)'
<1>1. \A k : Wants(h, k)' <=> Wants(h, k)
  BY DEF Wants
<1>2. Due(h)' = Due(h)
  BY <1>1 DEF Due
<1> QED
  BY <1>2 DEF Exact

\* What a registration does to the others: the identifier was nobody's.
LEMMA RegisterIsExact ==
  ASSUME BusTypes, MadeInv, NEW h \in Handles, NEW id \in Ids, NEW f \in Filters,
         NEW c \in BOOLEAN, Register(h, id, f, c), UNCHANGED <<published, traffic, until>>,
         NEW g \in Handles, Exact(g)
  PROVE  Exact(g)'
<1>1. CASE g = h
  <2>1. /\ Len(published) \in Nat /\ since'[g] = Len(published)
        /\ delivered'[g] = <<>> /\ queue'[g] = <<>> /\ dropped'[g] = {}
    BY <1>1, Registering DEF BusTypes, MadeInv, traffic
  <2>2. Stream(g)' = <<>> /\ Len(<<>>) = 0 /\ Range(<<>>) = {}
    BY <2>1 DEF Stream, Range
  <2>3. Due(g)' = {}
    BY <2>1 DEF Due
  <2>4. /\ \A i, j \in 1..Len(Stream(g)') : i < j => Stream(g)'[i] < Stream(g)'[j]
        /\ Due(g)' = Range(Stream(g)') \cup dropped'[g]
    BY <2>1, <2>2, <2>3
  <2> QED
    BY <2>4 DEF Exact
<1>2. CASE g # h /\ sub[g] = None
  BY <1>2, Registering DEF Exact
<1>3. CASE g # h /\ sub[g] # None
  <2>1. sub'[g] = sub[g] /\ since'[g] = since[g] /\ until' = until
    BY <1>3, Registering
  <2>2. sub[g].id \in Ids
    BY <1>3, SubscriptionFields DEF BusTypes
  <2>3. registry'[sub[g].id] = g <=> registry[sub[g].id] = g
    <3>1. g # None
      BY BusAssumption
    <3> QED
      BY <1>3, <2>2, <3>1, Registering
  <2>4. Registered(g)' <=> Registered(g)
    BY <2>1, <2>3 DEF Registered
  <2>5. Stream(g)' = Stream(g) /\ dropped'[g] = dropped[g]
    BY DEF Stream, traffic
  <2> QED
    BY <1>3, <2>1, <2>4, <2>5, SameIsExact
<1> QED
  BY <1>1, <1>2, <1>3

\* A subscription that gives up its identifier gets no later event.
LEMMA DeregisterIsExact ==
  ASSUME BusTypes, RegistryInv, NEW id \in Ids, Deregister(id),
         UNCHANGED <<published, traffic, sub, since>>, NEW g \in Handles, Exact(g)
  PROVE  Exact(g)'
<1>1. CASE sub[g] = None
  BY <1>1 DEF Exact
<1>2. CASE sub[g] # None
  <2>1. sub[g].id \in Ids /\ g # None /\ Len(published) \in Nat
    BY <1>2, SubscriptionFields, BusAssumption DEF BusTypes
  <2>2. Stream(g)' = Stream(g) /\ dropped'[g] = dropped[g]
    BY DEF Stream, traffic
  <2>3. CASE registry[id] = g
    <3>1. until'[g] = Len(published) /\ Registered(g)
      BY <2>1, <2>3, <1>2 DEF Deregister, BusTypes, RegistryInv, Registered
    <3>2. \A e \in 0..Len(published) - 1 : Registered(g) /\ e < until'[g]
      BY <2>1, <3>1
    <3> QED
      BY <1>2, <2>2, <3>2, SameIsExact
  <2>4. CASE registry[id] # g
    <3>1. until'[g] = until[g]
      BY <2>4 DEF Deregister, BusTypes
    <3>2. registry'[sub[g].id] = g <=> registry[sub[g].id] = g
      BY <2>1, <2>4 DEF Deregister, BusTypes
    <3>3. Registered(g)' <=> Registered(g)
      BY <3>2 DEF Registered
    <3> QED
      BY <1>2, <2>2, <3>1, <3>3, SameIsExact
  <2> QED
    BY <2>3, <2>4
<1> QED
  BY <1>1, <1>2

LEMMA DeliverIsExact ==
  ASSUME BusTypes, MadeInv, NEW h \in Handles, Deliver(h),
         UNCHANGED <<published, subscriptions>>, NEW g \in Handles, Exact(g)
  PROVE  Exact(g)'
<1>1. CASE sub[g] = None
  BY <1>1 DEF Exact, subscriptions
<1>2. CASE sub[g] # None
  <2>1. Stream(g)' = Stream(g)
    <3>1. CASE g = h
      <4>1. /\ queue[g] \in Seq(Nat) /\ delivered[g] \in Seq(Nat) /\ queue[g] # <<>>
            /\ queue'[g] = Tail(queue[g])
            /\ delivered'[g] = Append(delivered[g], Head(queue[g]))
        BY <3>1 DEF Deliver, BusTypes
      <4> QED
        BY <4>1, HeadToTail DEF Stream
    <3>2. CASE g # h
      BY <3>2 DEF Deliver, BusTypes, Stream
    <3> QED
      BY <3>1, <3>2
  <2>2. Registered(g)' <=> Registered(g)
    BY DEF Registered, subscriptions
  <2> QED
    BY <1>2, <2>1, <2>2, SameIsExact DEF Deliver, subscriptions
<1> QED
  BY <1>1, <1>2

\* The new event is the last of all, and is due to those that are put to.
LEMMA PublishIsExact ==
  ASSUME BusTypes, MadeInv, NEW k \in Kinds, Publish(k), NEW h \in Handles, Exact(h)
  PROVE  Exact(h)'
<1> DEFINE e == Len(published)
           hears == Registered(h) /\ Wants(h, k)
           full == Len(queue[h]) >= MaxQueue
<1>1. /\ e \in Nat /\ Len(published') = e + 1 /\ published'[e + 1] = k
      /\ \A x \in 0..e - 1 : published'[x + 1] = published[x + 1]
  <2>1. published \in Seq(Kinds) /\ published' = Append(published, k) /\ e \in Nat
    BY DEF BusTypes, Publish
  <2>2. /\ Len(published') = e + 1 /\ published'[e + 1] = k
        /\ \A i \in 1..e : published'[i] = published[i]
    BY <2>1, AppendProperties
  <2> QED
    BY <2>1, <2>2
<1>2. UNCHANGED <<registry, sub, since, until, delivered>>
  BY DEF Publish, subscriptions
<1>3. CASE sub[h] = None
  BY <1>2, <1>3 DEF Exact
<1>4. CASE sub[h] # None
  <2>1. /\ queue'[h] = IF hears THEN Put(queue[h], e) ELSE queue[h]
        /\ dropped'[h] = IF hears /\ full THEN dropped[h] \cup {e} ELSE dropped[h]
    BY DEF Publish, BusTypes
  <2>2. /\ since[h] <= e /\ until[h] <= e /\ since[h] \in Nat /\ until[h] \in Nat
        /\ queue[h] \in Seq(Nat) /\ delivered[h] \in Seq(Nat) /\ dropped[h] \subseteq Nat
    BY DEF MadeInv, BusTypes
  <2>3. Due(h)' = IF hears THEN Due(h) \cup {e} ELSE Due(h)
    <3>1. Due(h)' = {x \in 0..e : /\ Wants(h, published'[x + 1])
                                  /\ since[h] =< x
                                  /\ Registered(h) \/ x < until[h]}
      <4>1. \A x : Wants(h, x)' <=> Wants(h, x)
        BY <1>2 DEF Wants
      <4>2. Registered(h)' <=> Registered(h)
        BY <1>2 DEF Registered
      <4>3. 0..Len(published') - 1 = 0..e
        BY <1>1
      <4> QED
        BY <1>2, <4>1, <4>2, <4>3 DEF Due
    <3>2. ~(e < until[h]) /\ since[h] =< e
      BY <1>1, <2>2
    <3>3. 0..e = (0..e - 1) \cup {e} /\ e \notin 0..e - 1
      BY <1>1
    <3>4. Due(h) = {x \in 0..e - 1 : /\ Wants(h, published'[x + 1])
                                     /\ since[h] =< x
                                     /\ Registered(h) \/ x < until[h]}
      BY <1>1 DEF Due
    <3> HIDE DEF e
    <3> QED
      BY <1>1, <3>1, <3>2, <3>3, <3>4
  <2>4. Stream(h) \in Seq(Nat) /\ \A x \in Range(Stream(h)) : x < e
    <3>1. Stream(h) \in Seq(Nat)
      BY <2>2, ConcatProperties DEF Stream
    <3>2. Range(Stream(h)) \subseteq Due(h)
      BY <1>4 DEF Exact
    <3>3. \A x \in Due(h) : x < e
      BY <1>1 DEF Due
    <3> QED
      BY <3>1, <3>2, <3>3
  <2>5. CASE hears /\ ~full
    <3>1. queue'[h] = Append(queue[h], e) /\ dropped'[h] = dropped[h]
      <4>1. Len(queue[h]) < MaxQueue
        BY <2>2, <2>5, BusAssumption
      <4> QED
        BY <2>1, <2>5, <4>1 DEF Put
    <3>2. Stream(h)' = Append(Stream(h), e)
      <4>1. Stream(h)' = delivered[h] \o Append(queue[h], e)
        BY <1>2, <3>1 DEF Stream
      <4>2. e \in Nat
        BY <1>1
      <4> HIDE DEF e
      <4>3. delivered[h] \o Append(queue[h], e) = Append(delivered[h] \o queue[h], e)
        BY <2>2, <4>2, AppendLast
      <4> QED
        BY <4>1, <4>3 DEF Stream
    <3>3. \A i, j \in 1..Len(Stream(h)) : i < j => Stream(h)[i] < Stream(h)[j]
      BY <1>4 DEF Exact
    <3>4. /\ \A i, j \in 1..Len(Stream(h)') : i < j => Stream(h)'[i] < Stream(h)'[j]
          /\ Range(Stream(h)') = Range(Stream(h)) \cup {e}
      <4> DEFINE s == Stream(h)
      <4>1. s \in Seq(Nat) /\ \A x \in Range(s) : x < e
        BY <2>4
      <4>2. \A i, j \in 1..Len(s) : i < j => s[i] < s[j]
        BY <3>3
      <4>3. e \in Nat
        BY <1>1
      <4> HIDE DEF s, e
      <4>4. /\ \A i, j \in 1..Len(Append(s, e)) : i < j => Append(s, e)[i] < Append(s, e)[j]
            /\ Range(Append(s, e)) = Range(s) \cup {e}
        BY <4>1, <4>2, <4>3, AppendGreater
      <4> QED
        BY <3>2, <4>4 DEF s, e
    <3>5. Due(h)' = Range(Stream(h)') \cup dropped'[h]
      BY <1>4, <2>3, <2>5, <3>1, <3>4 DEF Exact
    <3> QED
      BY <3>4, <3>5 DEF Exact
  <2>6. CASE ~hears \/ full
    <3>1. queue'[h] = queue[h]
      <4>1. full => ~(Len(queue[h]) < MaxQueue)
        BY <2>2, BusAssumption
      <4> QED
        BY <2>1, <2>6, <4>1 DEF Put
    <3>2. Stream(h)' = Stream(h)
      BY <1>2, <3>1 DEF Stream
    <3>3. Due(h)' = Range(Stream(h)') \cup dropped'[h]
      BY <1>4, <2>1, <2>3, <2>6, <3>2 DEF Exact
    <3> QED
      BY <1>2, <1>4, <3>2, <3>3 DEF Exact
  <2> QED
    BY <2>5, <2>6
<1> QED
  BY <1>3, <1>4

LEMMA ExactStep ==
  ASSUME BusTypes, RegistryInv, MadeInv, NothingSkipped, [Next]_vars
  PROVE  NothingSkipped'
<1> SUFFICES ASSUME NEW g \in Handles, Exact(g) PROVE Exact(g)'
  BY DEF NothingSkipped, Exact, Stream, Due
<1>1. ASSUME NEW k \in Kinds, Publish(k) PROVE Exact(g)'
  BY <1>1, PublishIsExact
<1>2. ASSUME NEW h \in Handles, Call(h) \/ StreamNext(h) PROVE Exact(g)'
  BY <1>2, DeliverIsExact DEF Call, StreamNext, eventLog
<1>3. ASSUME NEW id \in Ids, Unsubscribe(id) PROVE Exact(g)'
  BY <1>3, DeregisterIsExact DEF Unsubscribe, eventLog
<1>4. ASSUME NEW h \in Handles, CloseStream(h) PROVE Exact(g)'
  <2>1. sub[h] \in Subscriptions
    BY <1>4 DEF BusTypes, MadeInv, CloseStream
  <2>2. sub[h].id \in Ids
    BY <2>1, SubscriptionFields
  <2> QED
    BY <1>4, <2>2, DeregisterIsExact DEF CloseStream, eventLog
<1>5. ASSUME NEW h \in Handles, NEW id \in Ids, NEW f \in Filters,
             Subscribe(h, id, f) \/ OpenStream(h, id, f)
      PROVE  Exact(g)'
  BY <1>5, RegisterIsExact DEF Subscribe, OpenStream, eventLog
<1>6. CASE UNCHANGED <<published, subscriptions, traffic>>
  BY <1>6 DEF subscriptions, traffic, Exact, Stream, Due, Registered, Wants
<1>7. \/ UNCHANGED <<published, subscriptions, traffic>>
      \/ \E k \in Kinds : Publish(k)
      \/ \E h \in Handles : Call(h) \/ StreamNext(h) \/ CloseStream(h)
      \/ \E id \in Ids : Unsubscribe(id)
      \/ \E h \in Handles, id \in Ids, f \in Filters :
           Subscribe(h, id, f) \/ OpenStream(h, id, f)
  BY DEF Next, Run, Begin, TimeOut, Return, Ids, Start, Stop, Stopped, vars,
         subscriptions, traffic, eventLog
<1> QED
  BY <1>1, <1>2, <1>3, <1>4, <1>5, <1>6, <1>7

-----------------------------------------------------------------------------
(* What the log and the subscribers get, always *)

THEOREM DeliveryAlways == Spec => []DeliveryInv
<1>1. Init => DeliveryInv
  <2> SUFFICES ASSUME Init PROVE DeliveryInv
    OBVIOUS
  <2>1. BusTypes
    BY TypesInit
  <2>2. LogInv /\ RegistryInv /\ MadeInv
    <3>1. Len(<<>>) = 0 /\ MaxLog \in Nat
      BY BusAssumption
    <3> QED
      BY <3>1 DEF Init, LogInv, RegistryInv, MadeInv
  <2>3. NothingSkipped
    BY DEF Init, NothingSkipped
  <2> QED
    BY <2>1, <2>2, <2>3 DEF DeliveryInv
<1>2. DeliveryInv /\ [Next]_vars => DeliveryInv'
  <2> SUFFICES ASSUME DeliveryInv, [Next]_vars PROVE DeliveryInv'
    OBVIOUS
  <2>1. BusTypes /\ LogInv /\ RegistryInv /\ MadeInv /\ NothingSkipped
    BY DEF DeliveryInv
  <2> QED
    BY <2>1, TypesStep, LogStep, RegistryStep, MadeStep, ExactStep DEF DeliveryInv
<1> QED
  BY <1>1, <1>2, PTL DEF Spec

\* A replay from any number gives every event from it on that is still kept, in
\* order and once, however many events the log has evicted (events.py:135-147).
THEOREM ReplayIsExactAlways == Spec => []ReplayIsExact
<1>1. DeliveryInv => ReplayIsExact
  BY LogReplays DEF DeliveryInv
<1> QED
  BY <1>1, DeliveryAlways, PTL

\* A subscriber gets the events that it asked for while it was registered, each
\* once and in their order, except those that found its queue full
\* (events.py:218-234).
THEOREM NothingSkippedAlways == Spec => []NothingSkipped
<1>1. DeliveryInv => NothingSkipped
  BY DEF DeliveryInv
<1> QED
  BY <1>1, DeliveryAlways, PTL

-----------------------------------------------------------------------------
(* The dispatch tasks *)

\* A task serves the callback of its identifier, and between stop() and start()
\* there is none; no task ends of itself while the bus runs.
TasksInv ==
  /\ stopping => ~running
  /\ ~running /\ ~stopping => \A i \in Ids : tasks[i] = None
  /\ \A i \in Ids :
       tasks[i] # None =>
         /\ sub[tasks[i]] # None /\ sub[tasks[i]].id = i /\ sub[tasks[i]].callback
         /\ running => loop[tasks[i]] \in Alive
  /\ ServedWhileRunning

Inv == DeliveryInv /\ TasksInv

LEMMA InvParts ==
  ASSUME Inv
  PROVE  /\ BusTypes /\ RegistryInv /\ MadeInv /\ TasksInv /\ None \notin Handles
         /\ \A i \in Ids : registry[i] # None => registry[i] \in Handles
         /\ \A i \in Ids : tasks[i] # None => tasks[i] \in Handles
BY BusAssumption DEF Inv, DeliveryInv, BusTypes

LEMMA TasksStep ==
  ASSUME Inv, [Next]_vars
  PROVE  TasksInv'
<1>a. /\ BusTypes /\ RegistryInv /\ MadeInv /\ TasksInv /\ None \notin Handles
      /\ \A i \in Ids : registry[i] # None => registry[i] \in Handles
      /\ \A i \in Ids : tasks[i] # None => tasks[i] \in Handles
  BY InvParts
<1> USE <1>a
<1> DEFINE Serves(i) ==
             tasks[i] # None =>
               /\ sub[tasks[i]] # None /\ sub[tasks[i]].id = i /\ sub[tasks[i]].callback
               /\ running => loop[tasks[i]] \in Alive
           Served(i) ==
             running =>
               (registry[i] # None /\ sub[registry[i]].callback =>
                  tasks[i] = registry[i] /\ loop[tasks[i]] \in Alive)
<1>1. \A i \in Ids : Serves(i) /\ Served(i)
  BY DEF TasksInv, ServedWhileRunning
<1>2. ASSUME (stopping => ~running)', (~running /\ ~stopping => \A i \in Ids : tasks[i] = None)',
             \A i \in Ids : Serves(i)' /\ Served(i)'
      PROVE  TasksInv'
  BY <1>2 DEF TasksInv, ServedWhileRunning
\* a step that moves no task from one subscription to another
<1>3. ASSUME UNCHANGED <<running, stopping, tasks, registry, sub>>,
             \A h \in Handles : running /\ loop[h] \in Alive => loop'[h] \in Alive
      PROVE  TasksInv'
  BY <1>1, <1>2, <1>3 DEF TasksInv
<1>4. CASE \E k \in Kinds : Publish(k)
  BY <1>3, <1>4 DEF Publish, switch, subscriptions
<1>5. CASE \E h \in Handles : Run(h)
  BY <1>3, <1>5
  DEF Run, Begin, TimeOut, Call, Return, Continued, switch, subscriptions, Alive, BusTypes
<1>6. CASE \E h \in Handles : StreamNext(h)
  BY <1>3, <1>6 DEF StreamNext, switch, subscriptions
<1>7. ASSUME NEW h \in Handles, CloseStream(h) PROVE TasksInv'
  <2>1. \A g \in Handles : loop[g] \in Alive => loop'[g] \in Alive
    BY <1>7 DEF CloseStream, Alive, BusTypes
  <2>2. \A i \in Ids : registry'[i] # None => registry'[i] = registry[i]
    BY <1>7 DEF CloseStream, Deregister, BusTypes
  <2> QED
    BY <1>1, <1>2, <1>7, <2>1, <2>2 DEF CloseStream, switch, TasksInv
<1>8. ASSUME NEW h \in Handles, NEW id \in CallbackIds, NEW f \in Filters,
             Subscribe(h, id, f)
      PROVE  TasksInv'
  <2>1. id \in Ids /\ Register(h, id, f, TRUE) /\ UNCHANGED <<running, stopping>>
    BY <1>8 DEF Subscribe, Ids, switch
  <2>q. PICK c \in BOOLEAN : c = TRUE /\ Register(h, id, f, c)
    BY <2>1
  <2>p. Register(h, id, f, c)
    BY <2>q
  <2>r. /\ sub[h] = None /\ registry[id] = None
        /\ sub'[h] # None /\ sub'[h].id = id /\ sub'[h].callback = c
        /\ \A g \in Handles : g # h => sub'[g] = sub[g]
        /\ registry'[id] = h
        /\ \A i \in Ids : i # id => registry'[i] = registry[i]
    BY <2>1, <2>p, Registering
  <2>2. \A i \in Ids : tasks[i] # h /\ registry[i] # h
    BY <2>r DEF TasksInv, RegistryInv
  <2>3. ASSUME NEW i \in Ids PROVE Serves(i)' /\ Served(i)'
    <3>1. CASE i = id
      <4>1. registry'[i] = h /\ sub'[h] # None /\ sub'[h].id = i /\ sub'[h].callback
        BY <3>1, <2>q, <2>r
      <4>2. CASE running
        <5>1. tasks'[i] = h /\ loop'[h] = "ready"
          BY <3>1, <4>2, <1>8, <2>1 DEF Subscribe, BusTypes
        <5> QED
          BY <4>1, <5>1 DEF Alive
      <4>3. CASE ~running
        <5>1. tasks'[i] = tasks[i] /\ ~running'
          BY <4>3, <1>8, <2>1 DEF Subscribe
        <5> QED
          BY <4>3, <5>1, <1>1, <2>2, <2>r
      <4> QED
        BY <4>2, <4>3
    <3>2. CASE i # id
      <4>1. tasks'[i] = tasks[i] /\ registry'[i] = registry[i]
        BY <3>2, <1>8, <2>1, <2>r DEF Subscribe, BusTypes
      <4>2. \A g \in Handles : g # h => loop'[g] = loop[g] /\ sub'[g] = sub[g]
        BY <1>8, <2>1, <2>r DEF Subscribe, BusTypes
      <4> QED
        BY <1>1, <2>1, <2>2, <4>1, <4>2
    <3> QED
      BY <3>1, <3>2
  <2>4. ~running => tasks' = tasks
    BY <1>8 DEF Subscribe
  <2> QED
    BY <1>2, <2>1, <2>3, <2>4 DEF TasksInv
<1>9. ASSUME NEW h \in Handles, NEW id \in StreamIds, NEW f \in Filters,
             OpenStream(h, id, f)
      PROVE  TasksInv'
  <2>1. /\ id \in Ids /\ Register(h, id, f, FALSE)
        /\ UNCHANGED <<running, stopping, tasks>>
    BY <1>9 DEF OpenStream, Ids, switch
  <2>q. PICK c \in BOOLEAN : c = FALSE /\ Register(h, id, f, c)
    BY <2>1
  <2>p. Register(h, id, f, c)
    BY <2>q
  <2>r. /\ sub[h] = None /\ registry[id] = None
        /\ sub'[h] # None /\ sub'[h].id = id /\ sub'[h].callback = c
        /\ \A g \in Handles : g # h => sub'[g] = sub[g]
        /\ registry'[id] = h
        /\ \A i \in Ids : i # id => registry'[i] = registry[i]
    BY <2>1, <2>p, Registering
  <2>2. \A i \in Ids : tasks[i] # h /\ registry[i] # h
    BY <2>r DEF TasksInv, RegistryInv
  <2>3. \A g \in Handles : g # h => loop'[g] = loop[g] /\ sub'[g] = sub[g]
    BY <1>9, <2>1, <2>r DEF OpenStream, BusTypes
  <2>4. ASSUME NEW i \in Ids PROVE Serves(i)' /\ Served(i)'
    <3>1. Serves(i)'
      BY <1>1, <2>1, <2>2, <2>3
    <3>2. Served(i)'
      BY <1>1, <2>1, <2>2, <2>3, <2>q, <2>r
    <3> QED
      BY <3>1, <3>2
  <2> QED
    BY <1>2, <2>1, <2>4 DEF TasksInv
<1>10. ASSUME NEW id \in Ids, Unsubscribe(id) PROVE TasksInv'
  <2>1. /\ UNCHANGED <<running, stopping, sub>>
        /\ registry' = [registry EXCEPT ![id] = None]
        /\ tasks' = [tasks EXCEPT ![id] = None]
    BY <1>10 DEF Unsubscribe, Deregister, switch
  <2>2. \A i \in Ids : i # id /\ tasks[i] # None => tasks[i] # tasks[id]
    BY <1>1
  <2>3. \A g \in Handles : g # tasks[id] => loop'[g] = loop[g]
    BY <1>10 DEF Unsubscribe, CancelTask, BusTypes
  <2>4. ASSUME NEW i \in Ids PROVE Serves(i)' /\ Served(i)'
    <3>1. CASE i = id
      BY <3>1, <2>1 DEF BusTypes
    <3>2. CASE i # id
      <4>1. tasks'[i] = tasks[i] /\ registry'[i] = registry[i]
        BY <3>2, <2>1 DEF BusTypes
      <4> QED
        BY <3>2, <4>1, <1>1, <2>1, <2>2, <2>3
    <3> QED
      BY <3>1, <3>2
  <2>5. \A i \in Ids : tasks[i] = None => tasks'[i] = None
    BY <2>1 DEF BusTypes
  <2> QED
    BY <1>2, <2>1, <2>4, <2>5 DEF TasksInv
<1>11. ASSUME Start PROVE TasksInv'
  <2>1. \A i \in Ids : tasks[i] = None
    BY <1>11 DEF Start, TasksInv
  <2>2. UNCHANGED <<registry, sub, stopping>> /\ running' /\ ~stopping
    BY <1>11 DEF Start, subscriptions
  <2>3. ASSUME NEW i \in Ids PROVE Serves(i)' /\ Served(i)'
    <3>1. CASE i \in Unserved
      <4>1. tasks'[i] = registry[i] /\ registry[i] \in Handles /\ registry[i] # None
            /\ sub[registry[i]].callback
        BY <1>11, <3>1 DEF Start, Unserved
      <4>2. loop'[registry[i]] = "ready"
        BY <1>11, <3>1, <4>1 DEF Start
      <4> QED
        BY <2>2, <4>1, <4>2 DEF RegistryInv, Alive
    <3>2. CASE i \notin Unserved
      <4>1. tasks'[i] = None
        BY <1>11, <3>2, <2>1 DEF Start
      <4>2. ~(registry[i] # None /\ sub[registry[i]].callback)
        BY <3>2, <2>1 DEF Unserved
      <4> QED
        BY <2>2, <4>1, <4>2
    <3> QED
      BY <3>1, <3>2
  <2> QED
    BY <1>2, <2>2, <2>3
<1>12. ASSUME Stop PROVE TasksInv'
  BY <1>1, <1>2, <1>12 DEF Stop, subscriptions
<1>13. ASSUME Stopped PROVE TasksInv'
  <2>1. ~running' /\ \A i \in Ids : tasks'[i] = None
    BY <1>13 DEF Stopped, Cleared, TasksInv
  <2> QED
    BY <1>2, <2>1
<1>14. CASE UNCHANGED vars
  BY <1>3, <1>14 DEF vars
<1> QED
  BY <1>4, <1>5, <1>6, <1>7, <1>8, <1>9, <1>10, <1>11, <1>12, <1>13, <1>14 DEF Next

THEOREM InvAlways == Spec => []Inv
<1>1. Init => TasksInv
  BY DEF Init, TasksInv, ServedWhileRunning
<1>2. Inv /\ [Next]_vars => TasksInv'
  BY TasksStep
<1>3. DeliveryInv /\ TasksInv <=> Inv
  BY DEF Inv
<1> QED
  BY <1>1, <1>2, <1>3, DeliveryAlways, PTL DEF Spec

\* While the bus runs every registered callback has a living task, also after
\* stop() and start() and under an identifier used before (events.py:305-310).
THEOREM ServedAlways == Spec => []ServedWhileRunning
<1>1. Inv => ServedWhileRunning
  BY DEF Inv, TasksInv
<1> QED
  BY <1>1, InvAlways, PTL

-----------------------------------------------------------------------------
(* Every living task can be found, where streams and callbacks share no       *)
(* identifier                                                                *)

Apart == CallbackIds \cap StreamIds = {}

\* A living task is the one of its identifier, its subscription is registered, and
\* a stop() that waits does wait for it.
ReachInv ==
  /\ \A h \in Handles :
       loop[h] \in Alive =>
         /\ sub[h] # None /\ sub[h].callback
         /\ tasks[sub[h].id] = h /\ registry[sub[h].id] = h
         /\ stopping => h \in awaited
  /\ \A h \in Handles : loop[h] = "streaming" => sub[h] # None /\ ~sub[h].callback
  /\ \A h \in Handles :
       sub[h] # None =>
         /\ sub[h].callback => sub[h].id \in CallbackIds
         /\ ~sub[h].callback => sub[h].id \in StreamIds

LEMMA ReachStep ==
  ASSUME Apart, Inv, ReachInv, [Next]_vars
  PROVE  ReachInv'
<1>a. /\ BusTypes /\ RegistryInv /\ MadeInv /\ TasksInv /\ None \notin Handles
      /\ \A i \in Ids : registry[i] # None => registry[i] \in Handles
      /\ \A i \in Ids : tasks[i] # None => tasks[i] \in Handles
  BY InvParts
<1> USE <1>a
<1> DEFINE Found(h) ==
             loop[h] \in Alive =>
               /\ sub[h] # None /\ sub[h].callback
               /\ tasks[sub[h].id] = h /\ registry[sub[h].id] = h
               /\ stopping => h \in awaited
           Streams(h) == loop[h] = "streaming" => sub[h] # None /\ ~sub[h].callback
           Named(h) ==
             sub[h] # None =>
               /\ sub[h].callback => sub[h].id \in CallbackIds
               /\ ~sub[h].callback => sub[h].id \in StreamIds
<1>1. \A h \in Handles : Found(h) /\ Streams(h) /\ Named(h)
  BY DEF ReachInv
<1>2. ASSUME \A h \in Handles : Found(h)' /\ Streams(h)' /\ Named(h)'
      PROVE  ReachInv'
  BY <1>2 DEF ReachInv
<1>3. \A h \in Handles : sub[h] # None => sub[h].id \in Ids /\ sub[h].callback \in BOOLEAN
  BY SubscriptionFields DEF BusTypes
\* a step after which a task lives or streams only if it did before
<1>4. ASSUME UNCHANGED <<stopping, awaited, tasks, registry, sub>>,
             \A h \in Handles :
               /\ loop'[h] \in Alive => loop[h] \in Alive
               /\ loop'[h] = "streaming" => loop[h] = "streaming"
      PROVE  ReachInv'
  BY <1>1, <1>2, <1>4
<1>5. CASE \E k \in Kinds : Publish(k)
  BY <1>4, <1>5 DEF Publish, switch, subscriptions
<1>6. CASE \E h \in Handles : Run(h) \/ StreamNext(h)
  BY <1>4, <1>6
  DEF Run, Begin, TimeOut, Call, Return, StreamNext, Continued, switch, subscriptions,
      Alive, BusTypes
<1>7. ASSUME NEW g \in Handles, CloseStream(g) PROVE ReachInv'
  <2>1. /\ sub[g] # None /\ sub[g].id \in StreamIds /\ sub[g].id \in Ids
        /\ loop' = [loop EXCEPT ![g] = "done"]
        /\ registry' = [registry EXCEPT ![sub[g].id] = None]
        /\ UNCHANGED <<stopping, awaited, tasks, sub>>
    BY <1>1, <1>3, <1>7 DEF CloseStream, Deregister, switch
  <2>2. ASSUME NEW h \in Handles, loop'[h] \in Alive
        PROVE  loop[h] \in Alive /\ registry'[sub[h].id] = registry[sub[h].id]
    <3>1. loop[h] \in Alive
      BY <2>1, <2>2 DEF Alive, BusTypes
    <3>2. sub[h].id \in CallbackIds /\ sub[h].id \in Ids
      BY <1>1, <1>3, <3>1
    <3>3. sub[h].id # sub[g].id
      BY <2>1, <3>2 DEF Apart
    <3> QED
      BY <2>1, <3>1, <3>2, <3>3 DEF BusTypes
  <2>3. \A h \in Handles : loop'[h] = "streaming" => loop[h] = "streaming"
    BY <2>1 DEF BusTypes
  <2> QED
    BY <1>1, <1>2, <2>1, <2>2, <2>3
<1>8. ASSUME NEW g \in Handles, NEW id \in Ids, NEW f \in Filters, NEW c \in BOOLEAN,
             Register(g, id, f, c), UNCHANGED <<stopping, awaited>>,
             IF c THEN id \in CallbackIds ELSE id \in StreamIds,
             \A h \in Handles : h # g => loop'[h] = loop[h],
             \A i \in Ids : i # id => tasks'[i] = tasks[i],
             loop'[g] \in Alive => c /\ ~stopping /\ tasks'[id] = g,
             loop'[g] = "streaming" => ~c
      PROVE  ReachInv'
  <2>1. /\ sub[g] = None /\ registry[id] = None
        /\ sub'[g] # None /\ sub'[g].id = id /\ sub'[g].callback = c
        /\ \A h \in Handles : h # g => sub'[h] = sub[h]
        /\ registry'[id] = g
        /\ \A i \in Ids : i # id => registry'[i] = registry[i]
    BY <1>8, Registering
  <2>2. Found(g)' /\ Streams(g)' /\ Named(g)'
    BY <1>8, <2>1
  <2>3. ASSUME NEW h \in Handles, h # g PROVE Found(h)' /\ Streams(h)' /\ Named(h)'
    <3>1. loop'[h] = loop[h] /\ sub'[h] = sub[h]
      BY <1>8, <2>1, <2>3
    <3>2. Streams(h)' /\ Named(h)'
      BY <1>1, <3>1
    <3>3. ASSUME loop[h] \in Alive PROVE Found(h)'
      <4>1. sub[h].id \in Ids /\ registry[sub[h].id] = h /\ tasks[sub[h].id] = h
        BY <1>1, <1>3, <3>3
      <4>2. sub[h].id # id
        BY <2>1, <4>1
      <4>3. registry'[sub[h].id] = h /\ tasks'[sub[h].id] = h
        BY <1>8, <2>1, <4>1, <4>2
      <4> QED
        BY <1>1, <1>8, <3>1, <3>3, <4>3
    <3> QED
      BY <3>1, <3>2, <3>3
  <2> QED
    BY <1>2, <2>2, <2>3
<1>9. ASSUME NEW g \in Handles, NEW id \in CallbackIds, NEW f \in Filters,
             Subscribe(g, id, f)
      PROVE  ReachInv'
  <2>1. id \in Ids /\ Register(g, id, f, TRUE) /\ UNCHANGED <<stopping, awaited>>
    BY <1>9 DEF Subscribe, Ids, switch
  <2>2. loop[g] = "none"
    BY <2>1 DEF Register, MadeInv
  <2>3. \A h \in Handles : h # g => loop'[h] = loop[h]
    BY <1>9 DEF Subscribe, BusTypes
  <2>4. \A i \in Ids : i # id => tasks'[i] = tasks[i]
    BY <1>9 DEF Subscribe, BusTypes
  <2>5. loop'[g] \in Alive => ~stopping /\ tasks'[id] = g
    BY <1>9, <2>1, <2>2 DEF Subscribe, BusTypes, TasksInv, Alive
  <2>6. loop'[g] # "streaming"
    BY <1>9, <2>2 DEF Subscribe, BusTypes
  <2>7. PICK c \in BOOLEAN : c /\ Register(g, id, f, c)
    BY <2>1
  <2>8. Register(g, id, f, c) /\ (IF c THEN id \in CallbackIds ELSE id \in StreamIds)
    BY <2>7
  <2> QED
    BY <1>8, <2>1, <2>3, <2>4, <2>5, <2>6, <2>7, <2>8
<1>10. ASSUME NEW g \in Handles, NEW id \in StreamIds, NEW f \in Filters,
              OpenStream(g, id, f)
       PROVE  ReachInv'
  <2>1. /\ id \in Ids /\ Register(g, id, f, FALSE)
        /\ UNCHANGED <<stopping, awaited, tasks>>
    BY <1>10 DEF OpenStream, Ids, switch
  <2>2. loop'[g] \notin Alive /\ \A h \in Handles : h # g => loop'[h] = loop[h]
    BY <1>10 DEF OpenStream, BusTypes, Alive
  <2>3. PICK c \in BOOLEAN : ~c /\ Register(g, id, f, c)
    BY <2>1
  <2>4. Register(g, id, f, c) /\ (IF c THEN id \in CallbackIds ELSE id \in StreamIds)
    BY <2>3
  <2> QED
    BY <1>8, <2>1, <2>2, <2>3, <2>4
<1>11. ASSUME NEW id \in Ids, Unsubscribe(id) PROVE ReachInv'
  <2>1. /\ UNCHANGED <<stopping, awaited, sub>>
        /\ registry' = [registry EXCEPT ![id] = None]
        /\ tasks' = [tasks EXCEPT ![id] = None]
        /\ loop' = CancelTask(id)
    BY <1>11 DEF Unsubscribe, Deregister, switch
  <2>2. \A h \in Handles : loop'[h] # loop[h] => loop'[h] = "cancelled"
    BY <2>1 DEF CancelTask, BusTypes
  <2>3. ASSUME NEW h \in Handles, loop'[h] \in Alive
        PROVE  loop[h] \in Alive /\ sub[h].id # id
    <3>1. loop'[h] = loop[h] /\ loop[h] \in Alive
      BY <2>2, <2>3 DEF Alive
    <3>2. ASSUME tasks[id] = h PROVE FALSE
      <4>1. loop'[h] = "cancelled"
        BY <2>1, <3>1, <3>2 DEF CancelTask, BusTypes
      <4> QED
        BY <2>3, <4>1 DEF Alive
    <3> QED
      BY <1>1, <3>1, <3>2
  <2>4. ASSUME NEW h \in Handles PROVE Found(h)'
    <3>1. ASSUME loop'[h] \in Alive
          PROVE  registry'[sub[h].id] = h /\ tasks'[sub[h].id] = h
      BY <1>1, <1>3, <2>1, <2>3, <3>1 DEF BusTypes
    <3> QED
      BY <1>1, <2>1, <2>3, <3>1
  <2> QED
    BY <1>1, <1>2, <2>1, <2>2, <2>4
<1>12. ASSUME Start PROVE ReachInv'
  <2>1. \A i \in Ids : tasks[i] = None
    BY <1>12 DEF Start, TasksInv
  <2>2. \A h \in Handles : loop[h] \notin Alive
    BY <1>1, <1>3, <2>1
  <2>3. UNCHANGED <<registry, sub, stopping, awaited>> /\ ~stopping
    BY <1>12 DEF Start, subscriptions
  <2>4. ASSUME NEW h \in Handles, loop'[h] \in Alive
        PROVE  sub[h] # None /\ sub[h].callback /\ tasks'[sub[h].id] = h
               /\ registry[sub[h].id] = h
    <3>1. PICK i \in Unserved : registry[i] = h
      BY <1>12, <2>2, <2>4 DEF Start
    <3>2. i \in Ids /\ sub[h] # None /\ sub[h].id = i /\ sub[h].callback
      BY <3>1 DEF Unserved, RegistryInv
    <3> QED
      BY <1>12, <3>1, <3>2 DEF Start
  <2>5. \A h \in Handles : loop'[h] = "streaming" => loop[h] = "streaming"
    BY <1>12 DEF Start
  <2> QED
    BY <1>1, <1>2, <2>3, <2>4, <2>5
<1>13. ASSUME Stop PROVE ReachInv'
  <2>1. UNCHANGED <<tasks, registry, sub, loop>> /\ awaited' = Gathered
    BY <1>13 DEF Stop, subscriptions
  <2>2. ASSUME NEW h \in Handles, loop[h] \in Alive PROVE h \in awaited'
    BY <1>1, <1>3, <2>1, <2>2 DEF Gathered
  <2> QED
    BY <1>1, <1>2, <2>1, <2>2
<1>14. ASSUME Stopped PROVE ReachInv'
  <2>1. \A h \in Handles : loop[h] \notin Alive
    BY <1>1, <1>14 DEF Stopped, Alive
  <2>2. UNCHANGED <<loop, sub>>
    BY <1>14 DEF Stopped, subscriptions
  <2> QED
    BY <1>1, <1>2, <2>1, <2>2
<1>15. CASE UNCHANGED vars
  BY <1>4, <1>15 DEF vars
<1> QED
  BY <1>5, <1>6, <1>7, <1>9, <1>10, <1>11, <1>12, <1>13, <1>14, <1>15 DEF Next

\* No subscription leaves a running task behind that nothing can cancel
\* (events.py:238-260), provided that no stream bears an identifier of a callback:
\* the closing of a stream gives up its identifier, whoever has taken it since.
THEOREM NoOrphanAlways ==
  ASSUME CallbackIds \cap StreamIds = {}
  PROVE  Spec => []NoOrphanTask
<1>1. Init => ReachInv
  BY DEF Init, ReachInv, Alive
<1>2. Inv /\ ReachInv /\ [Next]_vars => ReachInv'
  BY ReachStep DEF Apart
<1>3. ReachInv /\ Inv => NoOrphanTask
  <2> SUFFICES ASSUME ReachInv, Inv, NEW h \in Handles, loop[h] \in Alive
               PROVE  \E i \in Ids : tasks[i] = h
    BY DEF NoOrphanTask
  <2>1. sub[h] \in Subscriptions /\ tasks[sub[h].id] = h
    BY DEF ReachInv, Inv, DeliveryInv, BusTypes
  <2> QED
    BY <2>1, SubscriptionFields
<1> QED
  BY <1>1, <1>2, <1>3, InvAlways, PTL DEF Spec

-----------------------------------------------------------------------------
(* Nothing is left in a queue, where callbacks do not publish during stop()   *)

\* The tasks that stop() waits for live until their queue is empty.
DrainInv ==
  stopping => \A h \in awaited : /\ loop[h] \in Alive \cup {"done", "cancelled"}
                                 /\ loop[h] = "done" => queue[h] = <<>>

LEMMA DrainStep ==
  ASSUME ~CallbacksPublish, Inv, DrainInv, [Next]_vars
  PROVE  DrainInv'
<1>a. /\ BusTypes /\ MadeInv /\ TasksInv /\ None \notin Handles
      /\ \A i \in Ids : tasks[i] # None => tasks[i] \in Handles
  BY InvParts
<1> USE <1>a
<1> DEFINE Drained(h) == /\ loop[h] \in Alive \cup {"done", "cancelled"}
                         /\ loop[h] = "done" => queue[h] = <<>>
<1>1. awaited \subseteq Handles /\ (stopping => \A h \in awaited : Drained(h))
  BY DEF BusTypes, DrainInv
<1>2. ASSUME UNCHANGED <<stopping, awaited>>,
             stopping => \A h \in awaited : Drained(h) => Drained(h)'
      PROVE  DrainInv'
  BY <1>1, <1>2 DEF DrainInv
<1>3. CASE \E k \in Kinds : Publish(k)
  BY <1>2, <1>3 DEF Publish, switch
<1>4. ASSUME NEW g \in Handles, Begin(g) \/ TimeOut(g) \/ Return(g) PROVE DrainInv'
  <2>1. /\ UNCHANGED <<stopping, awaited, queue>>
        /\ loop' = [loop EXCEPT ![g] = Continued(g)]
    BY <1>4 DEF Begin, TimeOut, Return, switch, traffic
  <2>2. stopping => Continued(g) = IF queue[g] # <<>> THEN "waiting" ELSE "done"
    BY DEF Continued, TasksInv
  <2> QED
    BY <1>1, <1>2, <2>1, <2>2 DEF BusTypes, Alive
<1>5. ASSUME NEW g \in Handles, Call(g) PROVE DrainInv'
  BY <1>1, <1>2, <1>5 DEF Call, Deliver, switch, BusTypes, Alive
<1>6. ASSUME NEW g \in Handles, StreamNext(g) \/ CloseStream(g) PROVE DrainInv'
  <2>1. stopping => g \notin awaited
    BY <1>1, <1>6 DEF StreamNext, CloseStream, Alive
  <2>2. UNCHANGED <<stopping, awaited>>
        /\ \A h \in Handles : h # g => loop'[h] = loop[h] /\ queue'[h] = queue[h]
    BY <1>6 DEF StreamNext, CloseStream, Deliver, switch, traffic, BusTypes
  <2> QED
    BY <1>1, <1>2, <2>1, <2>2
<1>7. ASSUME NEW g \in Handles, NEW id \in Ids, NEW f \in Filters,
             Subscribe(g, id, f) \/ OpenStream(g, id, f)
      PROVE  DrainInv'
  <2>1. loop[g] = "none"
    BY <1>7 DEF Subscribe, OpenStream, Register, MadeInv
  <2>2. stopping => g \notin awaited
    BY <1>1, <2>1 DEF Alive
  <2>3. UNCHANGED <<stopping, awaited, queue>>
        /\ \A h \in Handles : h # g => loop'[h] = loop[h]
    BY <1>7 DEF Subscribe, OpenStream, switch, traffic, BusTypes
  <2> QED
    BY <1>1, <1>2, <2>2, <2>3
<1>8. ASSUME NEW id \in Ids, Unsubscribe(id) PROVE DrainInv'
  <2>1. UNCHANGED <<stopping, awaited, queue>>
        /\ \A h \in Handles : loop'[h] = loop[h] \/ loop'[h] = "cancelled"
    BY <1>8 DEF Unsubscribe, CancelTask, switch, traffic, BusTypes
  <2> QED
    BY <1>1, <1>2, <2>1
<1>9. CASE Start
  BY <1>9 DEF Start, DrainInv
<1>10. ASSUME Stop PROVE DrainInv'
  <2>1. \A h \in Gathered : loop[h] \in Alive
    BY <1>10 DEF Stop, Gathered, TasksInv
  <2> QED
    BY <1>10, <2>1 DEF Stop, DrainInv, Alive
<1>11. CASE Stopped
  BY <1>11 DEF Stopped, DrainInv
<1>12. CASE UNCHANGED vars
  BY <1>2, <1>12 DEF vars
<1> QED
  BY <1>3, <1>4, <1>5, <1>6, <1>7, <1>8, <1>9, <1>10, <1>11, <1>12 DEF Next, Run, Ids

\* When stop() returns the loops it waited for have emptied their queues
\* (events.py:286-292, 312-318), provided that no callback publishes meanwhile.
THEOREM DrainedAlways ==
  ASSUME ~CallbacksPublish
  PROVE  Spec => DrainedWhenStopped
<1>1. Init => DrainInv
  BY DEF Init, DrainInv
<1>2. Inv /\ DrainInv /\ [Next]_vars => DrainInv'
  BY DrainStep
<1>3. DrainInv => [Stopped => \A h \in awaited : loop[h] = "done" => queue[h] = <<>>]_vars
  BY DEF DrainInv, Stopped
<1> QED
  BY <1>1, <1>2, <1>3, InvAlways, PTL DEF Spec, DrainedWhenStopped

=============================================================================
