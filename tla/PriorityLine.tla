---------------------------- MODULE PriorityLine ----------------------------
(***************************************************************************)
(* What the dispatch queue of one asset promises, without levels, deques   *)
(* or an index: a set of waiting work orders, each with the time it        *)
(* joined.  Orders may join once and leave at any time; whoever takes the  *)
(* next order of a side gets the one that no other precedes.               *)
(***************************************************************************)
EXTENDS RateTime

CONSTANTS WorkOrders, Side, Rate

VARIABLES waiting,   \* the orders in the line
          joined,    \* when each order joined; 0 before it does
          taken      \* the orders that were taken as the best of their side

vars == <<waiting, joined, taken>>

Line(side) == {o \in waiting : Side[o] = side}

IsBest(o) ==
  \A p \in Line(Side[o]) \ {o} :
    Precedes(Side[o], Rate[o], joined[o], Rate[p], joined[p])

Init ==
  /\ waiting = {}
  /\ joined = [o \in WorkOrders |-> 0]
  /\ taken = {}

Join(o) ==
  /\ joined[o] = 0
  /\ Rate[o] # NoRate
  /\ waiting' = waiting \cup {o}
  /\ \A p \in WorkOrders : joined[p] < joined'[o]
  /\ joined' = [joined EXCEPT ![o] = joined'[o]]
  /\ UNCHANGED taken

Leave(o) ==
  /\ waiting' = waiting \ {o}
  /\ UNCHANGED <<joined, taken>>

Take(o) ==
  /\ o \in waiting
  /\ IsBest(o)
  /\ waiting' = waiting \ {o}
  /\ taken' = taken \cup {o}
  /\ UNCHANGED joined

Next == \E o \in WorkOrders : Join(o) \/ Leave(o) \/ Take(o)

Spec == Init /\ [][Next]_vars

=============================================================================
