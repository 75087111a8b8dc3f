------------------------------ MODULE EventBus ------------------------------
(***************************************************************************)
(* The event bus and its event log (src/mittelwerk/core/events.py): every  *)
(* event gets the next global sequence number, is kept in a bounded log    *)
(* and is put into the bounded queue of each subscription that wants it.   *)
(* A callback subscription is served by a dispatch task, a stream by the   *)
(* coroutine that iterates over it.  All run on one event loop: a step is  *)
(* what happens between two suspensions.  An event is its number; a handle *)
(* is one subscription object together with the task that serves it, since *)
(* an identifier may be given up and taken again.                          *)
(***************************************************************************)
EXTENDS Integers, Sequences, Functions

CONSTANTS Handles,           \* subscription objects
          CallbackIds,       \* identifiers under which callbacks subscribe
          StreamIds,         \* identifiers under which streams subscribe
          Kinds,             \* event types
          Filters,           \* the event_types that subscribers ask for
          MaxQueue,          \* max_queue
          MaxLog,            \* max_size of the event log
          CallbacksPublish,  \* whether a callback may publish during stop()
          MaxPublished,      \* bound: how many events are published
          None               \* no handle

Ids == CallbackIds \cup StreamIds

\* What a subscription is made of
Subscriptions == [id : Ids, types : SUBSET Kinds, callback : BOOLEAN]

ASSUME BusAssumption ==
  /\ MaxQueue \in Nat \ {0}
  /\ MaxLog \in Nat \ {0}
  /\ MaxPublished \in Nat
  /\ CallbacksPublish \in BOOLEAN
  /\ \A f \in Filters : f \subseteq Kinds
  /\ None \notin Handles /\ None \notin Subscriptions

VARIABLES running,    \* _running
          stopping,   \* a stop() waits for the tasks it gathered
          awaited,    \* those tasks
          published,  \* history: the types of all events ever published
          kept,       \* _log
          base,       \* _base_sequence
          registry,   \* _subscriptions
          tasks,      \* _dispatch_tasks
          sub,        \* the subscription each handle stands for, once made
          loop,       \* where the dispatch task of a handle stands
          queue,      \* the asyncio.Queue of each subscription
          delivered,  \* history: what reached the callback or the stream
          dropped,    \* history: what found the queue full
          since,      \* history: the first event published after it subscribed
          until       \* history: the first event published after it left

vars == <<running, stopping, awaited, published, kept, base, registry, tasks, sub,
          loop, queue, delivered, dropped, since, until>>
switch == <<running, stopping, awaited>>
eventLog == <<published, kept, base>>
subscriptions == <<registry, sub, since, until>>
traffic == <<queue, delivered, dropped>>

Alive == {"ready", "waiting", "calling"}

Init ==
  /\ running = FALSE
  /\ stopping = FALSE
  /\ awaited = {}
  /\ published = <<>>
  /\ kept = <<>>
  /\ base = 0
  /\ registry = [i \in Ids |-> None]
  /\ tasks = [i \in Ids |-> None]
  /\ sub = [h \in Handles |-> None]
  /\ loop = [h \in Handles |-> "none"]
  /\ queue = [h \in Handles |-> <<>>]
  /\ delivered = [h \in Handles |-> <<>>]
  /\ dropped = [h \in Handles |-> {}]
  /\ since = [h \in Handles |-> 0]
  /\ until = [h \in Handles |-> 0]

-----------------------------------------------------------------------------
\* Publishing

Registered(h) == sub[h] # None /\ registry[sub[h].id] = h

\* An empty filter asks for everything.
Wants(h, kind) == sub[h].types = {} \/ kind \in sub[h].types

\* What is left of the log once the oldest events have been evicted
Retained(log) ==
  IF Len(log) =< MaxLog THEN log ELSE SubSeq(log, Len(log) - MaxLog + 1, Len(log))

\* For mutation: a full queue makes room by losing its oldest event.
MakeRoom(q, e) == IF Len(q) < MaxQueue THEN Append(q, e) ELSE Append(Tail(q), e)

\* put_nowait: an event that finds the queue full is lost.
Put(q, e) == IF Len(q) < MaxQueue THEN Append(q, e) ELSE q

\* publish().  While the bus is being stopped only callbacks still run: the
\* application stops everything else that publishes before (main.py:714-719).
Publish(kind) ==
  /\ Len(published) < MaxPublished
  /\ stopping => CallbacksPublish /\ \E h \in Handles : loop[h] = "calling"
  /\ LET e == Len(published)
         log == Append(kept, e)
         hearing == {h \in Handles : Registered(h) /\ Wants(h, kind)}
     IN  /\ published' = Append(published, kind)
         /\ kept' = Retained(log)
         /\ base' = base + Len(log) - Len(Retained(log))
         /\ queue' = [h \in Handles |->
                        IF h \in hearing THEN Put(queue[h], e) ELSE queue[h]]
         /\ dropped' = [h \in Handles |->
                          IF h \in hearing /\ Len(queue[h]) >= MaxQueue
                          THEN dropped[h] \cup {e} ELSE dropped[h]]
  /\ UNCHANGED <<switch, subscriptions, tasks, loop, delivered>>

\* For mutation: a replay starts one event late.
ReplayLate(from) ==
  LET start == (IF from > base THEN from ELSE base) - base
  IN  SubSeq(kept, start + 2, Len(kept))

\* replay() without a filter
Replay(from) ==
  LET start == (IF from > base THEN from ELSE base) - base
  IN  SubSeq(kept, start + 1, Len(kept))

-----------------------------------------------------------------------------
\* Subscriptions

Register(h, id, types, callback) ==
  /\ sub[h] = None
  /\ registry[id] = None
  /\ sub' = [sub EXCEPT ![h] = [id |-> id, types |-> types, callback |-> callback]]
  /\ registry' = [registry EXCEPT ![id] = h]
  /\ since' = [since EXCEPT ![h] = Len(published)]

\* The entry of an identifier is removed, whoever holds it.
Deregister(id) ==
  /\ registry' = [registry EXCEPT ![id] = None]
  /\ until' = IF registry[id] = None THEN until
              ELSE [until EXCEPT ![registry[id]] = Len(published)]

\* subscribe()
Subscribe(h, id, types) ==
  /\ Register(h, id, types, TRUE)
  /\ IF running
     THEN /\ tasks' = [tasks EXCEPT ![id] = h]
          /\ loop' = [loop EXCEPT ![h] = "ready"]
     ELSE UNCHANGED <<tasks, loop>>
  /\ UNCHANGED <<switch, eventLog, traffic, until>>

\* For mutation: the task is forgotten, not cancelled.
Abandoned(id) == loop

\* The task of an identifier is cancelled, unless it has ended.
CancelTask(id) ==
  IF tasks[id] # None /\ loop[tasks[id]] \in Alive
  THEN [loop EXCEPT ![tasks[id]] = "cancelled"] ELSE loop

\* unsubscribe()
Unsubscribe(id) ==
  /\ Deregister(id)
  /\ loop' = CancelTask(id)
  /\ tasks' = [tasks EXCEPT ![id] = None]
  /\ UNCHANGED <<switch, eventLog, sub, since, traffic>>

\* The first step of a stream
OpenStream(h, id, types) ==
  /\ Register(h, id, types, FALSE)
  /\ loop' = [loop EXCEPT ![h] = "streaming"]
  /\ UNCHANGED <<switch, eventLog, tasks, traffic, until>>

\* An event reaches its subscriber.
Deliver(h) ==
  /\ queue[h] # <<>>
  /\ delivered' = [delivered EXCEPT ![h] = Append(@, Head(queue[h]))]
  /\ queue' = [queue EXCEPT ![h] = Tail(@)]
  /\ UNCHANGED dropped

StreamNext(h) ==
  /\ loop[h] = "streaming"
  /\ Deliver(h)
  /\ UNCHANGED <<switch, eventLog, subscriptions, tasks, loop>>

\* The finally clause of a stream
CloseStream(h) ==
  /\ loop[h] = "streaming"
  /\ loop' = [loop EXCEPT ![h] = "done"]
  /\ Deregister(sub[h].id)
  /\ UNCHANGED <<switch, eventLog, tasks, sub, since, traffic>>

-----------------------------------------------------------------------------
\* The dispatch tasks

\* For mutation: the task ends with events in its queue.
EndsAtOnce(h) == IF running THEN "waiting" ELSE "done"

\* The loop condition
Continued(h) == IF running \/ queue[h] # <<>> THEN "waiting" ELSE "done"

Begin(h) ==
  /\ loop[h] = "ready"
  /\ loop' = [loop EXCEPT ![h] = Continued(h)]
  /\ UNCHANGED <<switch, eventLog, subscriptions, tasks, traffic>>

\* For mutation: the task waits for an event as long as it takes.
NeverTimesOut(h) == FALSE

\* wait_for gives up.  An event put meanwhile stays in the queue, so the loop
\* goes on waiting for it.
TimeOut(h) ==
  /\ loop[h] = "waiting"
  /\ loop' = [loop EXCEPT ![h] = Continued(h)]
  /\ UNCHANGED <<switch, eventLog, subscriptions, tasks, traffic>>

\* The next event goes to the callback.
Call(h) ==
  /\ loop[h] = "waiting"
  /\ Deliver(h)
  /\ loop' = [loop EXCEPT ![h] = "calling"]
  /\ UNCHANGED <<switch, eventLog, subscriptions, tasks>>

\* The callback returns, or raises, which is logged.
Return(h) ==
  /\ loop[h] = "calling"
  /\ loop' = [loop EXCEPT ![h] = Continued(h)]
  /\ UNCHANGED <<switch, eventLog, subscriptions, tasks, traffic>>

-----------------------------------------------------------------------------
\* Start and stop, which the application calls in turn (main.py:413, 719)

\* The registered callbacks that have no task
Unserved ==
  {i \in Ids : registry[i] # None /\ sub[registry[i]].callback /\ tasks[i] = None}

Start ==
  /\ ~running /\ ~stopping
  /\ running' = TRUE
  /\ tasks' = [i \in Ids |-> IF i \in Unserved THEN registry[i] ELSE tasks[i]]
  /\ loop' = [h \in Handles |->
                IF \E i \in Unserved : registry[i] = h THEN "ready" ELSE loop[h]]
  /\ UNCHANGED <<stopping, awaited, eventLog, subscriptions, traffic>>

\* The tasks that gather() gets
Gathered == {tasks[i] : i \in Ids} \ {None}

\* stop() up to its suspension
Stop ==
  /\ running
  /\ running' = FALSE
  /\ stopping' = TRUE
  /\ awaited' = Gathered
  /\ UNCHANGED <<eventLog, subscriptions, tasks, loop, traffic>>

\* For mutation: _dispatch_tasks keeps the ended tasks.
Uncleared == tasks

Cleared == [i \in Ids |-> None]

\* stop() after it
Stopped ==
  /\ stopping
  /\ \A h \in awaited : loop[h] \in {"done", "cancelled"}
  /\ stopping' = FALSE
  /\ awaited' = {}
  /\ tasks' = Cleared
  /\ UNCHANGED <<running, eventLog, subscriptions, loop, traffic>>

Run(h) == Begin(h) \/ TimeOut(h) \/ Call(h) \/ Return(h)

Next ==
  \/ \E k \in Kinds : Publish(k)
  \/ \E h \in Handles :
       \/ Run(h) \/ StreamNext(h) \/ CloseStream(h)
       \/ \E f \in Filters :
            \/ \E i \in CallbackIds : Subscribe(h, i, f)
            \/ \E i \in StreamIds : OpenStream(h, i, f)
  \/ \E i \in Ids : Unsubscribe(i)
  \/ Start \/ Stop \/ Stopped

\* The event loop runs every task that can go on; timers fire; callbacks return.
Fairness == WF_vars(Stopped) /\ \A h \in Handles : WF_vars(Run(h))

Spec == Init /\ [][Next]_vars

FairSpec == Spec /\ Fairness

-----------------------------------------------------------------------------
\* Properties

\* Numbers stay global however much is evicted: who replays from the first number
\* it has not seen gets, in order and without a repetition, everything it missed
\* among the newest MaxLog events.
ReplayIsExact ==
  \A from \in 0..Len(published) :
    LET events == Replay(from)
    IN  /\ \A i \in 1..Len(events) - 1 : events[i] < events[i + 1]
        /\ Range(events) =
             {e \in 0..Len(published) - 1 : e >= from /\ e >= Len(published) - MaxLog}

\* What a subscriber got and what its queue holds are, in the order of their
\* numbers and each once, the events published while it was registered that its
\* filter asks for, save those that found the queue full.
NothingSkipped ==
  \A h \in Handles :
    sub[h] # None =>
      LET stream == delivered[h] \o queue[h]
      IN  /\ \A i, j \in 1..Len(stream) : i < j => stream[i] < stream[j]
          /\ {e \in 0..Len(published) - 1 :
                /\ Wants(h, published[e + 1])
                /\ since[h] =< e
                /\ Registered(h) \/ e < until[h]}
             = Range(stream) \cup dropped[h]

\* While the bus runs each registered callback is served by a living task, which
\* unsubscribe() can find, also after a restart.
ServedWhileRunning ==
  running => \A i \in Ids :
    registry[i] # None /\ sub[registry[i]].callback =>
      tasks[i] = registry[i] /\ loop[tasks[i]] \in Alive

\* "a new subscription can never orphan an existing one's dispatch task"
\* (events.py:208): a living task is always found under some identifier.  Once
\* stop() has returned no identifier has a task, so no callback runs any more.
NoOrphanTask ==
  \A h \in Handles : loop[h] \in Alive => \E i \in Ids : tasks[i] = h

\* "Drain remaining queued events on shutdown so no event is lost"
\* (events.py:287): when stop() returns, no callback that it waited for has an
\* event in its queue.
DrainedWhenStopped ==
  [][Stopped => \A h \in awaited : loop[h] = "done" => queue[h] = <<>>]_vars

\* A queued event reaches its callback, whatever the other subscribers do and
\* whether or not the bus is being stopped, unless the subscriber leaves.
QueuedIsDelivered ==
  \A h \in Handles : \A e \in 0..MaxPublished - 1 :
    loop[h] \in Alive /\ e \in Range(queue[h])
      ~> e \in Range(delivered[h]) \/ loop[h] = "cancelled"

\* stop() returns.
StopEnds == stopping ~> ~stopping

=============================================================================
