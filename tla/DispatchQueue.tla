---------------------------- MODULE DispatchQueue ---------------------------
(***************************************************************************)
(* The two-sided queue of one asset (src/mittelwerk/core/queue.py): two    *)
(* sorted maps from keys to rate levels, each level a FIFO deque, and an   *)
(* index of the orders that rest.  A level exists exactly while its key is *)
(* in the domain of the map.  Every public operation holds the queue's     *)
(* lock, so each is one action.  The index keeps the side and the rate of  *)
(* an order; neither ever changes, so here it is the set of its keys.      *)
(***************************************************************************)
EXTENDS RateTime, Sequences, FiniteSets

CONSTANTS WorkOrders,  \* the identifiers of work orders
          Side,        \* the side of each order
          Rate         \* its max_hourly_rate, NoRate if it has none

ASSUME OrdersAssumption ==
  /\ Side \in [WorkOrders -> Sides]
  /\ Rate \in [WorkOrders -> Nat]

VARIABLES queue,   \* _requests and _offers: side -> key -> deque
          index,   \* _work_order_index
          clock,   \* history: how many orders have joined
          joined,  \* history: when each order joined, 0 if it never did
          taken    \* history: the orders returned by pop_best_*

vars == <<queue, index, clock, joined, taken>>
pastVars == <<clock, joined, taken>>

KeyOf(o) == Key(Side[o], Rate[o])

-----------------------------------------------------------------------------
\* The maps and the deques

\* RateLevel(): a level that is not there yet is empty.
Level(side, k) == IF k \in DOMAIN queue[side] THEN queue[side][k] ELSE <<>>

\* The map of a side after `queue[key] = level`.
WithLevel(side, k, level) ==
  [queue EXCEPT ![side] =
     [j \in DOMAIN queue[side] \cup {k} |->
        IF j = k THEN level ELSE queue[side][j]]]

\* For mutation: the level stays when it is empty.
KeepingEmptyLevel(side, k, level) == WithLevel(side, k, level)

\* The map of a side after a removal left `level` at its key: an empty level
\* is deleted.
AfterRemoval(side, k, level) ==
  IF level = <<>>
  THEN [queue EXCEPT ![side] =
          [j \in DOMAIN queue[side] \ {k} |-> queue[side][j]]]
  ELSE WithLevel(side, k, level)

\* remove_work_order: the others keep their order.
Remove(level, i) ==
  [j \in 1..(Len(level) - 1) |-> IF j < i THEN level[j] ELSE level[j + 1]]

\* peekitem(0): the key of the best level of a side.
IsFirstKey(side, k) ==
  /\ k \in DOMAIN queue[side]
  /\ \A j \in DOMAIN queue[side] : k =< j

-----------------------------------------------------------------------------
Init ==
  /\ queue = [side \in Sides |-> [k \in {} |-> <<>>]]
  /\ index = {}
  /\ clock = 0
  /\ joined = [o \in WorkOrders |-> 0]
  /\ taken = {}

\* RateLevel.add
Push(level, o) == Append(level, o)

\* add_work_order.  The engine rests an order at most once (identifiers are
\* never reused), which is the first conjunct.
AddWorkOrder(o) ==
  /\ joined[o] = 0
  /\ Rate[o] # NoRate
  /\ queue' = WithLevel(Side[o], KeyOf(o), Push(Level(Side[o], KeyOf(o)), o))
  /\ index' = index \cup {o}
  /\ clock' = clock + 1
  /\ joined' = [joined EXCEPT ![o] = clock + 1]
  /\ UNCHANGED taken

\* cancel_work_order of an identifier that is unknown or rests no longer
CancelUnknown(o) ==
  /\ o \notin index
  /\ UNCHANGED vars

\* cancel_work_order
CancelWorkOrder(o) ==
  /\ o \in index
  /\ index' = index \ {o}
  /\ LET level == Level(Side[o], KeyOf(o)) IN
       IF \E i \in 1..Len(level) : level[i] = o
       THEN \E i \in 1..Len(level) :
              /\ level[i] = o
              /\ \A j \in 1..(i - 1) : level[j] # o
              /\ queue' = AfterRemoval(Side[o], KeyOf(o), Remove(level, i))
       ELSE queue' = queue
  /\ UNCHANGED pastVars

\* The index once the order has been taken.
Unindexed(o) == index \ {o}

\* pop_best_request, pop_best_offer
PopBest(side) ==
  \E k \in DOMAIN queue[side] :
    /\ IsFirstKey(side, k)
    /\ LET o == Head(queue[side][k]) IN
         /\ index' = Unindexed(o)
         /\ queue' = AfterRemoval(side, k, Tail(queue[side][k]))
         /\ taken' = taken \cup {o}
    /\ UNCHANGED <<clock, joined>>

Next ==
  \/ \E o \in WorkOrders : AddWorkOrder(o) \/ CancelWorkOrder(o) \/ CancelUnknown(o)
  \/ \E side \in Sides : PopBest(side)

Spec == Init /\ [][Next]_vars

-----------------------------------------------------------------------------
\* What the queue answers

\* peek_best_request_order, peek_best_offer_order
IsFront(side, o) ==
  \E k \in DOMAIN queue[side] : IsFirstKey(side, k) /\ o = Head(queue[side][k])

-----------------------------------------------------------------------------
\* Properties

\* The maps hold deques of work orders under integer keys, and the index and
\* the history range over the work orders.
TypeOK ==
  /\ DOMAIN queue = Sides
  /\ \A side \in Sides :
       /\ DOMAIN queue[side] \subseteq Int
       /\ \A k \in DOMAIN queue[side] : queue[side][k] \in Seq(WorkOrders)
  /\ index \subseteq WorkOrders
  /\ clock \in Nat
  /\ joined \in [WorkOrders -> Nat]
  /\ taken \subseteq WorkOrders

\* No level is empty: peekitem(0) always leads to an order, so a match never
\* stops at a level whose orders were all cancelled (queue.py:138, 215).
NoEmptyLevel ==
  \A side \in Sides : \A k \in DOMAIN queue[side] : queue[side][k] # <<>>

\* Whatever stands in a level is an indexed order of that side and that rate.
LevelsIndexed ==
  \A side \in Sides : \A k \in DOMAIN queue[side] :
    \A i \in 1..Len(queue[side][k]) :
      LET o == queue[side][k][i]
      IN  o \in index /\ Side[o] = side /\ KeyOf(o) = k

\* Every indexed order stands in its level: a client can cancel exactly the
\* orders that can still be matched.
IndexInLevels ==
  \A o \in index :
    /\ KeyOf(o) \in DOMAIN queue[Side[o]]
    /\ \E i \in 1..Len(queue[Side[o]][KeyOf(o)]) :
         queue[Side[o]][KeyOf(o)][i] = o

\* The index and the levels tell the same story.
IndexCoherent == LevelsIndexed /\ IndexInLevels

\* Inside a level orders stand in the order of their arrival, each once.
FifoLevels ==
  \A side \in Sides : \A k \in DOMAIN queue[side] :
    \A i, j \in 1..Len(queue[side][k]) :
      i < j => joined[queue[side][k][i]] < joined[queue[side][k][j]]

\* The history: an order that rests has joined, and nobody joins in the future.
JoinedInPast ==
  /\ \A o \in WorkOrders : joined[o] =< clock
  /\ \A o \in index : joined[o] > 0

\* The inductive invariant
QueueInv ==
  TypeOK /\ NoEmptyLevel /\ LevelsIndexed /\ IndexInLevels /\ FifoLevels /\ JoinedInPast

\* Order p stands before order o in the maps.
Ahead(p, o) ==
  \/ KeyOf(p) < KeyOf(o)
  \/ /\ KeyOf(p) = KeyOf(o)
     /\ \E i, j \in 1..Len(queue[Side[o]][KeyOf(o)]) :
          /\ i < j
          /\ queue[Side[o]][KeyOf(o)][i] = p
          /\ queue[Side[o]][KeyOf(o)][j] = o

Line == INSTANCE PriorityLine WITH waiting <- index

\* The order a peek shows is the one that no waiting order of its side precedes,
\* so the engine, which peeks, deals and only then pops, deals with the order
\* it pops (engine.py:424-455).
PeekIsBest ==
  \A side \in Sides : \A o \in WorkOrders :
    IsFront(side, o) => o \in Line!Line(side) /\ Line!IsBest(o)

\* The queue implements the line: what pop_best_* returns is the order that no
\* waiting order of its side precedes, and a cancelled order is never returned.
ImplementsLine == Line!Spec

=============================================================================
