------------------------ MODULE DispatchQueueProofs -------------------------
(***************************************************************************)
(* For any set of work orders, sides and rates: the levels and the index   *)
(* agree, a peek shows the order that comes first, and the queue           *)
(* implements the line of PriorityLine.                                    *)
(***************************************************************************)
EXTENDS DispatchQueue, SequenceTheorems, TLAPS

-----------------------------------------------------------------------------
\* Deques

\* Remove takes one position out and moves nobody past anybody.
LEMMA RemoveIsDeque ==
  ASSUME NEW level \in Seq(WorkOrders), NEW i \in 1..Len(level)
  PROVE  /\ Remove(level, i) \in Seq(WorkOrders)
         /\ Len(Remove(level, i)) = Len(level) - 1
         /\ \A j \in 1..(Len(level) - 1) :
              Remove(level, i)[j] = IF j < i THEN level[j] ELSE level[j + 1]
         /\ Remove(level, i) = <<>> <=> Len(level) = 1
<1> DEFINE e(j) == IF j < i THEN level[j] ELSE level[j + 1]
           n == Len(level) - 1
<1>1. n \in Nat
  BY LenProperties
<1>2. \A j \in 1..n : e(j) \in WorkOrders
  BY <1>1, ElementOfSeq
<1>3. [j \in 1..n |-> e(j)] \in Seq(WorkOrders)
  <2> HIDE DEF e, n
  <2>1. QED
    BY <1>1, <1>2, IsASeq
<1>4. Remove(level, i) = [j \in 1..n |-> e(j)]
  BY DEF Remove
<1>5. Len(Remove(level, i)) = n
  BY <1>1, <1>3, <1>4, LenProperties
<1>6. \A j \in 1..n : Remove(level, i)[j] = e(j)
  BY <1>4
<1>7. Remove(level, i) = <<>> <=> n = 0
  BY <1>1, <1>3, <1>4, <1>5, EmptySeq
<1>8. n = 0 <=> Len(level) = 1
  BY <1>1, LenProperties
<1>9. QED
  BY <1>3, <1>4, <1>5, <1>6, <1>7, <1>8

\* popleft is the removal of the first position.
LEMMA TailIsRemove ==
  ASSUME NEW level \in Seq(WorkOrders), level # <<>>
  PROVE  /\ 1 \in 1..Len(level)
         /\ Tail(level) = Remove(level, 1)
         /\ Head(level) = level[1]
<1>1. Len(level) \in Nat \ {0}
  BY EmptySeq
<1>2. Tail(level) \in Seq(WorkOrders) /\ Remove(level, 1) \in Seq(WorkOrders)
  BY <1>1, HeadTailProperties, RemoveIsDeque
<1>3. Len(Tail(level)) = Len(Remove(level, 1))
  BY <1>1, RemoveIsDeque
<1>4. \A j \in 1..Len(Tail(level)) : Tail(level)[j] = Remove(level, 1)[j]
  <2>1. /\ Len(Tail(level)) = Len(level) - 1
        /\ \A j \in 1..(Len(level) - 1) : Tail(level)[j] = level[j + 1]
    BY <1>1, HeadTailProperties
  <2>2. \A j \in 1..(Len(level) - 1) : Remove(level, 1)[j] = level[j + 1]
    BY <1>1 DEF Remove
  <2>3. QED
    BY <2>1, <2>2
<1>5. Tail(level) = Remove(level, 1)
  <2> DEFINE t == Tail(level)
             u == Remove(level, 1)
  <2>1. t \in Seq(WorkOrders) /\ u \in Seq(WorkOrders) /\ Len(t) = Len(u)
        /\ \A j \in 1..Len(t) : t[j] = u[j]
    BY <1>2, <1>3, <1>4
  <2> HIDE DEF t, u
  <2>2. t = u
    BY <2>1, SeqEqual
  <2>3. QED
    BY <2>2 DEF t, u
<1>6. Head(level) = level[1]
  OBVIOUS
<1>7. QED
  BY <1>1, <1>5, <1>6

-----------------------------------------------------------------------------
\* The operations

\* An empty queue satisfies the invariant.
LEMMA InitQueue == Init => QueueInv
<1> SUFFICES ASSUME Init PROVE QueueInv
  OBVIOUS
<1>1. \A side \in Sides : DOMAIN queue[side] = {}
  BY DEF Init
<1>2. QED
  BY <1>1 DEF Init, QueueInv, TypeOK, NoEmptyLevel, LevelsIndexed, IndexInLevels,
              FifoLevels, JoinedInPast

\* The keys are integers, and on one side they tell rates apart.
LEMMA KeyIsInteger ==
  ASSUME NEW o \in WorkOrders
  PROVE  KeyOf(o) \in Int /\ Side[o] \in Sides /\ Rate[o] \in Nat
BY OrdersAssumption DEF KeyOf, Key

\* A new order goes behind all the orders of its level.
LEMMA AddKeepsQueue ==
  ASSUME QueueInv, NEW o \in WorkOrders, AddWorkOrder(o)
  PROVE  QueueInv'
<1> DEFINE s == Side[o]
           k == KeyOf(o)
           old == Level(s, k)
           new == Append(old, o)
<1>1. TypeOK /\ k \in Int /\ s \in Sides
  BY KeyIsInteger DEF QueueInv
<1>2. old \in Seq(WorkOrders)
  BY <1>1 DEF TypeOK, Level
<1>3. /\ new \in Seq(WorkOrders) /\ new # <<>>
      /\ Len(new) = Len(old) + 1 /\ Len(old) \in Nat
      /\ \A i \in 1..Len(old) : new[i] = old[i]
      /\ new[Len(old) + 1] = o
  BY <1>2, AppendProperties, LenProperties
<1>4. /\ queue' = WithLevel(s, k, new)
      /\ index' = index \cup {o}
      /\ clock' = clock + 1
      /\ joined' = [joined EXCEPT ![o] = clock + 1]
      /\ taken' = taken
      /\ joined[o] = 0
  BY DEF AddWorkOrder, Push
<1>5. /\ DOMAIN queue' = Sides
      /\ \A t \in Sides \ {s} : queue'[t] = queue[t]
      /\ DOMAIN queue'[s] = DOMAIN queue[s] \cup {k}
      /\ queue'[s][k] = new
      /\ \A j \in DOMAIN queue[s] \ {k} : queue'[s][j] = queue[s][j]
  BY <1>1, <1>4 DEF WithLevel, TypeOK
<1>6. o \notin index
  BY <1>4 DEF QueueInv, JoinedInPast
<1>7. TypeOK'
  <2>1. /\ index' \subseteq WorkOrders /\ clock' \in Nat
        /\ joined' \in [WorkOrders -> Nat] /\ taken' \subseteq WorkOrders
    BY <1>1, <1>4 DEF TypeOK
  <2>2. ASSUME NEW t \in Sides
        PROVE  /\ DOMAIN queue'[t] \subseteq Int
               /\ \A j \in DOMAIN queue'[t] : queue'[t][j] \in Seq(WorkOrders)
    <3>1. CASE t = s
      <4>1. \A j \in DOMAIN queue'[t] : j = k \/ j \in DOMAIN queue[s] \ {k}
        BY <1>5, <3>1
      <4>2. QED
        BY <1>1, <1>3, <1>5, <3>1, <4>1 DEF TypeOK
    <3>2. CASE t # s
      BY <1>1, <1>5, <3>2 DEF TypeOK
    <3>3. QED
      BY <3>1, <3>2
  <2>3. QED
    BY <1>5, <2>1, <2>2 DEF TypeOK
<1>8. NoEmptyLevel'
  <2>1. ASSUME NEW t \in Sides, NEW j \in DOMAIN queue'[t] PROVE queue'[t][j] # <<>>
    <3>1. CASE t = s /\ j = k
      BY <1>3, <1>5, <3>1
    <3>2. CASE ~(t = s /\ j = k)
      <4>1. j \in DOMAIN queue[t] /\ queue'[t][j] = queue[t][j]
        BY <1>5, <2>1, <3>2
      <4>2. QED
        BY <4>1 DEF QueueInv, NoEmptyLevel
    <3>3. QED
      BY <3>1, <3>2
  <2>2. QED
    BY <2>1 DEF NoEmptyLevel
<1>9. \A i \in 1..Len(old) : old[i] \in index /\ Side[old[i]] = s /\ KeyOf(old[i]) = k
  BY <1>1, LenProperties DEF QueueInv, LevelsIndexed, Level
<1>10. LevelsIndexed'
  <2>1. SUFFICES ASSUME NEW t \in Sides, NEW j \in DOMAIN queue'[t],
                        NEW i \in 1..Len(queue'[t][j])
                 PROVE  LET p == queue'[t][j][i]
                        IN  p \in index' /\ Side[p] = t /\ KeyOf(p) = j
    BY DEF LevelsIndexed
  <2>2. CASE t = s /\ j = k
    <3>1. queue'[t][j] = new
      BY <1>5, <2>2
    <3>2. CASE i \in 1..Len(old)
      <4>1. queue'[t][j][i] = old[i]
        BY <1>3, <3>1, <3>2
      <4>2. QED
        BY <1>4, <1>9, <2>2, <3>2, <4>1
    <3>3. CASE i = Len(old) + 1
      <4>1. queue'[t][j][i] = o
        BY <1>3, <3>1, <3>3
      <4>2. o \in index'
        BY <1>4
      <4>3. QED
        BY <2>2, <4>1, <4>2
    <3>4. QED
      BY <1>3, <3>1, <3>2, <3>3
  <2>3. CASE ~(t = s /\ j = k)
    <3>1. j \in DOMAIN queue[t] /\ queue'[t][j] = queue[t][j]
      BY <1>5, <2>3
    <3>2. QED
      BY <1>4, <3>1 DEF QueueInv, LevelsIndexed
  <2>4. QED
    BY <2>2, <2>3
<1>11. IndexInLevels'
  <2>1. SUFFICES ASSUME NEW p \in index'
                 PROVE  /\ KeyOf(p) \in DOMAIN queue'[Side[p]]
                        /\ \E i \in 1..Len(queue'[Side[p]][KeyOf(p)]) :
                             queue'[Side[p]][KeyOf(p)][i] = p
    BY DEF IndexInLevels
  <2>2. CASE p = o
    BY <1>3, <1>5, <2>2
  <2>3. CASE p # o
    <3>1. p \in index /\ p \in WorkOrders
      BY <1>1, <1>4, <2>3 DEF TypeOK
    <3>2. Side[p] \in Sides
      BY <3>1, KeyIsInteger
    <3>3. KeyOf(p) \in DOMAIN queue[Side[p]]
      BY <3>1 DEF QueueInv, IndexInLevels
    <3>4. PICK i \in 1..Len(queue[Side[p]][KeyOf(p)]) : queue[Side[p]][KeyOf(p)][i] = p
      BY <3>1 DEF QueueInv, IndexInLevels
    <3>5. CASE Side[p] = s /\ KeyOf(p) = k
      <4>1. old = queue[s][k]
        BY <3>3, <3>5 DEF Level
      <4>2. i \in 1..Len(old) /\ i \in 1..Len(new) /\ new[i] = p
        BY <1>3, <3>4, <3>5, <4>1
      <4>3. QED
        BY <1>5, <3>5, <4>2
    <3>6. CASE ~(Side[p] = s /\ KeyOf(p) = k)
      <4>1. /\ KeyOf(p) \in DOMAIN queue'[Side[p]]
            /\ queue'[Side[p]][KeyOf(p)] = queue[Side[p]][KeyOf(p)]
        BY <1>5, <3>2, <3>3, <3>6
      <4>2. QED
        BY <3>4, <4>1
    <3>7. QED
      BY <3>5, <3>6
  <2>4. QED
    BY <2>2, <2>3
<1>12. \A p \in index : p # o /\ p \in WorkOrders /\ joined'[p] = joined[p] /\ joined'[p] =< clock
  BY <1>1, <1>4, <1>6 DEF TypeOK, QueueInv, JoinedInPast
<1>13. joined'[o] = clock + 1 /\ clock \in Nat
  BY <1>1, <1>4 DEF TypeOK
<1>14. FifoLevels'
  <2>1. SUFFICES ASSUME NEW t \in Sides, NEW j \in DOMAIN queue'[t],
                        NEW x \in 1..Len(queue'[t][j]), NEW y \in 1..Len(queue'[t][j]),
                        x < y
                 PROVE  joined'[queue'[t][j][x]] < joined'[queue'[t][j][y]]
    BY DEF FifoLevels
  <2>2. CASE t = s /\ j = k
    <3>1. x \in 1..Len(old) /\ new[x] = old[x] /\ old[x] \in index
      BY <1>3, <1>5, <1>9, <2>1, <2>2
    <3>2. CASE y = Len(old) + 1
      <4>1. joined'[old[x]] =< clock /\ joined'[old[x]] \in Nat
        BY <1>7, <1>12, <3>1 DEF TypeOK
      <4>2. queue'[t][j][x] = old[x] /\ queue'[t][j][y] = o
        BY <1>3, <1>5, <2>2, <3>1, <3>2
      <4>3. QED
        BY <1>13, <4>1, <4>2
    <3>3. CASE y \in 1..Len(old)
      <4>1. k \in DOMAIN queue[s] /\ old = queue[s][k]
        BY <3>1, EmptySeq DEF Level
      <4>2. joined[old[x]] < joined[old[y]]
        BY <1>1, <2>1, <3>1, <3>3, <4>1 DEF QueueInv, FifoLevels
      <4>3. queue'[t][j] = new /\ new[x] = old[x] /\ new[y] = old[y]
        BY <1>3, <1>5, <2>2, <3>1, <3>3
      <4>4. old[y] \in index
        BY <1>9, <3>3
      <4>5. joined'[old[x]] = joined[old[x]] /\ joined'[old[y]] = joined[old[y]]
        BY <1>12, <3>1, <4>4
      <4>6. QED
        BY <4>2, <4>3, <4>5
    <3>4. QED
      BY <1>3, <1>5, <2>2, <3>2, <3>3
  <2>3. CASE ~(t = s /\ j = k)
    <3>1. j \in DOMAIN queue[t] /\ queue'[t][j] = queue[t][j]
      BY <1>5, <2>3
    <3>2. queue[t][j][x] \in index /\ queue[t][j][y] \in index
      BY <3>1 DEF QueueInv, LevelsIndexed
    <3>3. joined[queue[t][j][x]] < joined[queue[t][j][y]]
      BY <2>1, <3>1 DEF QueueInv, FifoLevels
    <3>4. QED
      BY <1>12, <3>1, <3>2, <3>3
  <2>4. QED
    BY <2>2, <2>3
<1>15. JoinedInPast'
  <2>1. \A p \in WorkOrders : joined'[p] =< clock'
    BY <1>1, <1>4, <1>13 DEF QueueInv, JoinedInPast, TypeOK
  <2>2. \A p \in index' : joined'[p] > 0
    BY <1>4, <1>12, <1>13 DEF QueueInv, JoinedInPast
  <2>3. QED
    BY <2>1, <2>2 DEF JoinedInPast
<1>16. QED
  BY <1>7, <1>8, <1>10, <1>11, <1>14, <1>15 DEF QueueInv


\* One position of one level is taken out, by a cancellation or by a pop: what
\* both leave behind.
LEMMA RemovalKeepsQueue ==
  ASSUME QueueInv, NEW s \in Sides, NEW k \in DOMAIN queue[s],
         NEW i \in 1..Len(queue[s][k]),
         queue' = AfterRemoval(s, k, Remove(queue[s][k], i)),
         index' = index \ {queue[s][k][i]},
         UNCHANGED <<clock, joined>>, taken' \subseteq WorkOrders
  PROVE  QueueInv'
<1> DEFINE old == queue[s][k]
           o == queue[s][k][i]
           new == Remove(old, i)
<1>1. TypeOK /\ old \in Seq(WorkOrders) /\ k \in Int /\ Len(old) \in Nat
  <2>1. TypeOK
    BY DEF QueueInv
  <2>2. old \in Seq(WorkOrders) /\ k \in Int
    BY <2>1 DEF TypeOK
  <2>3. QED
    BY <2>1, <2>2, LenProperties
<1>2. /\ new \in Seq(WorkOrders) /\ Len(new) = Len(old) - 1
      /\ \A j \in 1..(Len(old) - 1) : new[j] = IF j < i THEN old[j] ELSE old[j + 1]
      /\ new = <<>> <=> Len(old) = 1
  BY <1>1, RemoveIsDeque
<1>3. /\ DOMAIN queue' = Sides
      /\ \A t \in Sides \ {s} : queue'[t] = queue[t]
      /\ DOMAIN queue'[s] = IF new = <<>> THEN DOMAIN queue[s] \ {k} ELSE DOMAIN queue[s]
      /\ new # <<>> => queue'[s][k] = new
      /\ \A j \in DOMAIN queue[s] \ {k} : queue'[s][j] = queue[s][j]
  <2>1. DOMAIN queue = Sides
    BY <1>1 DEF TypeOK
  <2>2. CASE new = <<>>
    BY <2>1, <2>2 DEF AfterRemoval
  <2>3. CASE new # <<>>
    BY <2>1, <2>3 DEF AfterRemoval, WithLevel
  <2>4. QED
    BY <2>2, <2>3
<1>4. \A t \in Sides : \A j \in DOMAIN queue'[t] :
        \/ t = s /\ j = k /\ new # <<>> /\ queue'[t][j] = new
        \/ ~(t = s /\ j = k) /\ j \in DOMAIN queue[t] /\ queue'[t][j] = queue[t][j]
  BY <1>3
<1>5. TypeOK'
  <2>1. \A t \in Sides : \A j \in DOMAIN queue'[t] :
          j \in DOMAIN queue[t] /\ queue'[t][j] \in Seq(WorkOrders)
    <3>1. SUFFICES ASSUME NEW t \in Sides, NEW j \in DOMAIN queue'[t]
                   PROVE  j \in DOMAIN queue[t] /\ queue'[t][j] \in Seq(WorkOrders)
      OBVIOUS
    <3>2. CASE t = s /\ j = k /\ new # <<>> /\ queue'[t][j] = new
      BY <1>1, <1>2, <3>2
    <3>3. CASE j \in DOMAIN queue[t] /\ queue'[t][j] = queue[t][j]
      BY <1>1, <3>1, <3>3 DEF TypeOK
    <3>4. QED
      BY <1>4, <3>1, <3>2, <3>3
  <2>2. QED
    BY <1>1, <1>3, <2>1 DEF TypeOK
<1>6. NoEmptyLevel'
  BY <1>4 DEF QueueInv, NoEmptyLevel
<1>7. \A x \in 1..Len(old) : old[x] \in index /\ Side[old[x]] = s /\ KeyOf(old[x]) = k
  BY DEF QueueInv, LevelsIndexed
<1>8. \A x, y \in 1..Len(old) : x < y => joined[old[x]] < joined[old[y]]
  BY DEF QueueInv, FifoLevels
<1>9. \A x \in 1..Len(old) : old[x] \in WorkOrders /\ joined[old[x]] \in Nat
  BY <1>1, ElementOfSeq DEF TypeOK
<1>10. \A x \in 1..Len(old) : x # i => old[x] # o
  BY <1>8, <1>9
\* A position of the shorter level is a position of the level before.
<1>11. \A x \in 1..Len(new) :
         \/ x < i /\ x \in 1..Len(old) /\ new[x] = old[x]
         \/ x >= i /\ x + 1 \in 1..Len(old) /\ new[x] = old[x + 1]
  BY <1>1, <1>2
<1>12. LevelsIndexed'
  <2>1. SUFFICES ASSUME NEW t \in Sides, NEW j \in DOMAIN queue'[t],
                        NEW x \in 1..Len(queue'[t][j])
                 PROVE  LET p == queue'[t][j][x]
                        IN  p \in index' /\ Side[p] = t /\ KeyOf(p) = j
    BY DEF LevelsIndexed
  <2>2. CASE t = s /\ j = k /\ new # <<>> /\ queue'[t][j] = new
    <3>1. PICK y \in 1..Len(old) : y # i /\ new[x] = old[y]
      BY <1>11, <2>1, <2>2
    <3>2. QED
      BY <1>7, <1>10, <2>2, <3>1
  <2>3. CASE ~(t = s /\ j = k) /\ j \in DOMAIN queue[t] /\ queue'[t][j] = queue[t][j]
    <3>1. LET p == queue[t][j][x] IN p \in index /\ Side[p] = t /\ KeyOf(p) = j
      BY <2>1, <2>3 DEF QueueInv, LevelsIndexed
    <3>2. Side[o] = s /\ KeyOf(o) = k
      BY <1>7
    <3>3. QED
      BY <2>3, <3>1, <3>2
  <2>4. QED
    BY <1>4, <2>2, <2>3
<1>13. IndexInLevels'
  <2>1. SUFFICES ASSUME NEW p \in index, p # o
                 PROVE  /\ KeyOf(p) \in DOMAIN queue'[Side[p]]
                        /\ \E x \in 1..Len(queue'[Side[p]][KeyOf(p)]) :
                             queue'[Side[p]][KeyOf(p)][x] = p
    BY DEF IndexInLevels
  <2>2. p \in WorkOrders /\ Side[p] \in Sides
    BY <1>1, KeyIsInteger DEF TypeOK
  <2>3. KeyOf(p) \in DOMAIN queue[Side[p]]
    BY DEF QueueInv, IndexInLevels
  <2>4. PICK x \in 1..Len(queue[Side[p]][KeyOf(p)]) : queue[Side[p]][KeyOf(p)][x] = p
    BY DEF QueueInv, IndexInLevels
  <2>5. CASE Side[p] = s /\ KeyOf(p) = k
    <3>1. x \in 1..Len(old) /\ old[x] = p /\ x # i
      BY <2>1, <2>4, <2>5
    <3>2. new # <<>>
      BY <1>1, <1>2, <3>1
    <3>3. KeyOf(p) \in DOMAIN queue'[Side[p]] /\ queue'[Side[p]][KeyOf(p)] = new
      BY <1>3, <2>5, <3>2
    <3>4. CASE x < i
      <4>1. x \in 1..(Len(old) - 1) /\ new[x] = p
        BY <1>1, <1>2, <3>1, <3>4
      <4>2. QED
        BY <1>2, <3>3, <4>1
    <3>5. CASE x > i
      <4>1. x - 1 \in 1..(Len(old) - 1) /\ ~(x - 1 < i) /\ (x - 1) + 1 = x
        BY <1>1, <3>1, <3>5
      <4>2. new[x - 1] = p
        BY <1>2, <3>1, <4>1
      <4>3. QED
        BY <1>2, <3>3, <4>1, <4>2
    <3>6. QED
      BY <3>1, <3>4, <3>5
  <2>6. CASE ~(Side[p] = s /\ KeyOf(p) = k)
    <3>1. /\ KeyOf(p) \in DOMAIN queue'[Side[p]]
          /\ queue'[Side[p]][KeyOf(p)] = queue[Side[p]][KeyOf(p)]
      BY <1>3, <2>2, <2>3, <2>6
    <3>2. QED
      BY <2>4, <3>1
  <2>7. QED
    BY <2>5, <2>6
<1>14. FifoLevels'
  <2>1. SUFFICES ASSUME NEW t \in Sides, NEW j \in DOMAIN queue'[t],
                        NEW x \in 1..Len(queue'[t][j]), NEW y \in 1..Len(queue'[t][j]),
                        x < y
                 PROVE  joined[queue'[t][j][x]] < joined[queue'[t][j][y]]
    BY DEF FifoLevels
  <2>2. CASE t = s /\ j = k /\ new # <<>> /\ queue'[t][j] = new
    <3>1. x \in 1..Len(new) /\ y \in 1..Len(new) /\ x \in Nat /\ y \in Nat
      BY <1>1, <1>2, <2>2
    <3>2. \E v \in 1..Len(old) : new[x] = old[v] /\ (v = x \/ (v = x + 1 /\ x >= i))
      BY <1>11, <3>1
    <3>3. \E w \in 1..Len(old) : new[y] = old[w] /\ ((w = y /\ y < i) \/ w = y + 1)
      BY <1>11, <3>1
    <3>4. PICK v \in 1..Len(old), w \in 1..Len(old) :
            v < w /\ new[x] = old[v] /\ new[y] = old[w]
      BY <2>1, <3>1, <3>2, <3>3
    <3>5. QED
      BY <1>8, <2>2, <3>4
  <2>3. CASE ~(t = s /\ j = k) /\ j \in DOMAIN queue[t] /\ queue'[t][j] = queue[t][j]
    BY <2>1, <2>3 DEF QueueInv, FifoLevels
  <2>4. QED
    BY <1>4, <2>2, <2>3
<1>15. JoinedInPast'
  BY <1>1 DEF QueueInv, JoinedInPast
<1>16. QED
  BY <1>5, <1>6, <1>12, <1>13, <1>14, <1>15 DEF QueueInv


\* Every operation keeps the levels and the index in step.
LEMMA NextQueue == QueueInv /\ [Next]_vars => QueueInv'
<1> SUFFICES ASSUME QueueInv, [Next]_vars PROVE QueueInv'
  OBVIOUS
<1>1. ASSUME NEW o \in WorkOrders, AddWorkOrder(o) PROVE QueueInv'
  BY <1>1, AddKeepsQueue
<1>2. ASSUME NEW o \in WorkOrders, CancelWorkOrder(o) PROVE QueueInv'
  <2> DEFINE level == queue[Side[o]][KeyOf(o)]
  <2>1. /\ o \in index /\ index' = index \ {o} /\ UNCHANGED <<clock, joined, taken>>
    BY <1>2 DEF CancelWorkOrder, pastVars
  <2>2. /\ Side[o] \in Sides /\ KeyOf(o) \in DOMAIN queue[Side[o]]
        /\ \E i \in 1..Len(level) : level[i] = o
    BY <2>1, KeyIsInteger DEF QueueInv, IndexInLevels
  <2>3. Level(Side[o], KeyOf(o)) = level
    BY <2>2 DEF Level
  <2>4. PICK i \in 1..Len(level) :
          level[i] = o /\ queue' = AfterRemoval(Side[o], KeyOf(o), Remove(level, i))
    BY <1>2, <2>2, <2>3 DEF CancelWorkOrder
  <2>5. taken' \subseteq WorkOrders
    BY <2>1 DEF QueueInv, TypeOK
  <2>6. QED
    BY <2>1, <2>2, <2>4, <2>5, RemovalKeepsQueue
<1>3. ASSUME NEW side \in Sides, PopBest(side) PROVE QueueInv'
  <2>1. PICK k \in DOMAIN queue[side] :
          /\ index' = index \ {Head(queue[side][k])}
          /\ queue' = AfterRemoval(side, k, Tail(queue[side][k]))
          /\ taken' = taken \cup {Head(queue[side][k])}
          /\ UNCHANGED <<clock, joined>>
    BY <1>3 DEF PopBest, Unindexed
  <2>2. queue[side][k] \in Seq(WorkOrders) /\ queue[side][k] # <<>>
    BY <2>1 DEF QueueInv, TypeOK, NoEmptyLevel
  <2>3. /\ 1 \in 1..Len(queue[side][k])
        /\ Tail(queue[side][k]) = Remove(queue[side][k], 1)
        /\ Head(queue[side][k]) = queue[side][k][1]
    BY <2>2, TailIsRemove
  <2>4. taken' \subseteq WorkOrders
    BY <2>1, <2>2, HeadTailProperties DEF QueueInv, TypeOK
  <2>5. QED
    BY <2>1, <2>3, <2>4, RemovalKeepsQueue
<1>4. ASSUME UNCHANGED vars PROVE QueueInv'
  BY <1>4 DEF vars, QueueInv, TypeOK, NoEmptyLevel, LevelsIndexed, IndexInLevels,
              FifoLevels, JoinedInPast
<1>5. ASSUME NEW o \in WorkOrders, CancelUnknown(o) PROVE QueueInv'
  BY <1>4, <1>5 DEF CancelUnknown
<1>6. QED
  BY <1>1, <1>2, <1>3, <1>4, <1>5 DEF Next

\* The inductive invariant of the queue.
THEOREM QueueCorrect == Spec => []QueueInv
<1>1. QED
  BY InitQueue, NextQueue, PTL DEF Spec

\* The levels and the index agree: a client can cancel exactly the orders that
\* a match can still reach.
THEOREM IndexAlwaysCoherent == Spec => []IndexCoherent
<1>1. QueueInv => IndexCoherent
  BY DEF QueueInv, IndexCoherent
<1>2. QED
  BY <1>1, QueueCorrect, PTL

-----------------------------------------------------------------------------
\* The queue and the line

(* A level holds one rate: the sign of the key is that of the side, so two   *)
(* rates with one key are the same rate (queue.py, the SortedDict keys).     *)
LEMMA KeyTellsRates ==
  ASSUME NEW side \in Sides, NEW r1 \in Nat, NEW r2 \in Nat,
         Key(side, r1) = Key(side, r2)
  PROVE  r1 = r2
<1>1. CASE side = "REQUEST"
  <2>1. -r1 = -r2
    BY <1>1 DEF Key
  <2>2. QED
    BY <2>1
<1>2. CASE side # "REQUEST"
  BY <1>2 DEF Key
<1>3. QED
  BY <1>1, <1>2

\* The front of the first level comes before everybody else on its side.
LEMMA FrontIsBest ==
  ASSUME QueueInv, NEW side \in Sides, NEW k \in DOMAIN queue[side],
         IsFirstKey(side, k)
  PROVE  LET o == Head(queue[side][k]) IN
           o \in index /\ o \in WorkOrders /\ Side[o] = side /\ Line!IsBest(o)
<1> DEFINE level == queue[side][k]
           o == level[1]
<1>1. level \in Seq(WorkOrders) /\ level # <<>>
  BY DEF QueueInv, TypeOK, NoEmptyLevel
<1>2. 1 \in 1..Len(level) /\ Head(level) = o
  BY <1>1, TailIsRemove
<1>3. o \in index /\ Side[o] = side /\ KeyOf(o) = k /\ o \in WorkOrders
  BY <1>2 DEF QueueInv, LevelsIndexed, TypeOK
<1>4. ASSUME NEW p \in index, Side[p] = side, p # o
      PROVE  Line!Precedes(side, Rate[o], joined[o], Rate[p], joined[p])
  <2>1. p \in WorkOrders /\ KeyOf(p) \in DOMAIN queue[side]
    BY <1>4 DEF QueueInv, TypeOK, IndexInLevels
  <2>2. k =< KeyOf(p)
    BY <2>1 DEF IsFirstKey
  <2>3. Rate[o] \in Nat /\ Rate[p] \in Nat
    BY <1>3, <2>1, OrdersAssumption
  <2>4. KeyOf(o) = Key(side, Rate[o]) /\ KeyOf(p) = Key(side, Rate[p])
    BY <1>3, <1>4 DEF KeyOf
  <2>5. CASE KeyOf(p) = k
    <3>1. PICK i \in 1..Len(level) : level[i] = p
      BY <1>4, <2>5 DEF QueueInv, IndexInLevels
    <3>2. 1 < i
      BY <1>1, <1>4, <3>1
    <3>3. joined[o] < joined[p]
      BY <1>2, <3>1, <3>2 DEF QueueInv, FifoLevels
    <3>4. Key(side, Rate[o]) = Key(side, Rate[p])
      BY <1>3, <2>4, <2>5
    <3>5. Rate[o] = Rate[p]
      BY <2>3, <3>4, KeyTellsRates
    <3>6. QED
      BY <3>3, <3>5 DEF Line!Precedes
  <2>6. CASE KeyOf(p) # k
    <3>1. Key(side, Rate[o]) < Key(side, Rate[p])
      <4>1. k \in Int /\ KeyOf(p) \in Int
        BY <1>3, <2>1, KeyIsInteger
      <4>2. k < KeyOf(p)
        BY <2>2, <2>6, <4>1
      <4>3. KeyOf(o) = k
        BY <1>3
      <4>4. QED
        BY <2>4, <4>2, <4>3
    <3>2. CASE side = "REQUEST"
      <4>1. -Rate[o] < -Rate[p]
        BY <3>1, <3>2 DEF Key
      <4>2. Rate[o] > Rate[p]
        BY <2>3, <4>1
      <4>3. QED
        BY <3>2, <4>2 DEF Line!Precedes
    <3>3. CASE side # "REQUEST"
      <4>1. Rate[o] < Rate[p]
        BY <3>1, <3>3 DEF Key
      <4>2. QED
        BY <3>3, <4>1 DEF Line!Precedes
    <3>4. QED
      BY <3>2, <3>3
  <2>7. QED
    BY <2>5, <2>6
<1>5. Line!IsBest(o)
  BY <1>3, <1>4 DEF Line!IsBest, Line!Line
<1>6. QED
  BY <1>2, <1>3, <1>5

\* A peek shows the order that no waiting order of its side precedes.
THEOREM PeekAlwaysBest == Spec => []PeekIsBest
<1>1. QueueInv => PeekIsBest
  <2>1. SUFFICES ASSUME QueueInv, NEW side \in Sides, NEW o \in WorkOrders, IsFront(side, o)
                 PROVE  o \in Line!Line(side) /\ Line!IsBest(o)
    BY DEF PeekIsBest
  <2>2. PICK k \in DOMAIN queue[side] : IsFirstKey(side, k) /\ o = Head(queue[side][k])
    BY <2>1 DEF IsFront
  <2>3. QED
    BY <2>1, <2>2, FrontIsBest DEF Line!Line
<1>2. QED
  BY <1>1, QueueCorrect, PTL

\* Each operation is a step of the line.
LEMMA StepOfLine == QueueInv /\ [Next]_vars => [Line!Next]_(Line!vars)
<1> SUFFICES ASSUME QueueInv, [Next]_vars PROVE [Line!Next]_(Line!vars)
  OBVIOUS
<1>1. ASSUME NEW o \in WorkOrders, AddWorkOrder(o) PROVE Line!Next
  <2>1. /\ joined' = [joined EXCEPT ![o] = clock + 1]
        /\ index' = index \cup {o} /\ taken' = taken
        /\ joined[o] = 0 /\ Rate[o] # NoRate
    BY <1>1 DEF AddWorkOrder
  <2>2. joined'[o] = clock + 1 /\ clock \in Nat
    BY <2>1 DEF QueueInv, TypeOK
  <2>3. \A p \in WorkOrders : joined[p] < joined'[o]
    BY <2>2 DEF QueueInv, TypeOK, JoinedInPast
  <2>4. Line!Join(o)
    BY <2>1, <2>2, <2>3 DEF Line!Join, NoRate, Line!NoRate
  <2>5. QED
    BY <2>4 DEF Line!Next
<1>2. ASSUME NEW o \in WorkOrders, CancelWorkOrder(o) PROVE Line!Next
  <2>1. Line!Leave(o)
    BY <1>2 DEF CancelWorkOrder, pastVars, Line!Leave
  <2>2. QED
    BY <2>1 DEF Line!Next
<1>3. ASSUME NEW side \in Sides, PopBest(side) PROVE Line!Next
  <2>1. PICK k \in DOMAIN queue[side] :
          /\ IsFirstKey(side, k)
          /\ index' = index \ {Head(queue[side][k])}
          /\ taken' = taken \cup {Head(queue[side][k])}
          /\ UNCHANGED <<clock, joined>>
    BY <1>3 DEF PopBest, Unindexed
  <2>2. Line!Take(Head(queue[side][k])) /\ Head(queue[side][k]) \in WorkOrders
    BY <2>1, FrontIsBest DEF Line!Take
  <2>3. QED
    BY <2>2 DEF Line!Next
<1>4. ASSUME UNCHANGED vars PROVE UNCHANGED Line!vars
  BY <1>4 DEF vars, Line!vars
<1>5. ASSUME NEW o \in WorkOrders, CancelUnknown(o) PROVE UNCHANGED Line!vars
  BY <1>4, <1>5 DEF CancelUnknown
<1>6. QED
  BY <1>1, <1>2, <1>3, <1>4, <1>5 DEF Next

\* The queue implements the line: a pop returns the order that comes first, a
\* cancelled order is never returned.
THEOREM QueueImplementsLine == Spec => ImplementsLine
<1>1. Init => Line!Init
  BY DEF Init, Line!Init
<1>2. QED
  BY <1>1, StepOfLine, QueueCorrect, PTL DEF Spec, Line!Spec, ImplementsLine

=============================================================================
