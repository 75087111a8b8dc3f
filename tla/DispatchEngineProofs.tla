------------------------ MODULE DispatchEngineProofs ------------------------
(***************************************************************************)
(* What holds of the dispatch engine for any orders, organizations, assets,*)
(* reference data and verdicts of the pre-dispatch check: first its own    *)
(* invariants, then what it promises its clients.  Sums over finite sets   *)
(* carry the accounts; the inductive invariant of the book does most of    *)
(* the work of the refinement: whatever rests, and the order of the        *)
(* running turn, is live and has hours left.                               *)
(***************************************************************************)
EXTENDS DispatchEngine, SumTheorems, SequenceTheorems, TLAPS

-----------------------------------------------------------------------------
\* Type correctness, one lemma per group of steps

\* Nothing has been submitted yet.
LEMMA InitType == Init => TypeOK
<1> SUFFICES ASSUME Init PROVE TypeOK
  OBVIOUS
<1>1. known = {} /\ order \in [known -> WorkOrder]
  BY DEF Init
<1>2. heard \in [WorkOrders -> Events]
  BY DEF Init, Events, Event, Statuses
<1>3. log \in Seq(Assignments) /\ fills \in Seq(Assignments) /\ said \in 0..Len(fills)
  BY DEF Init
<1>4. QED
  BY <1>1, <1>2, <1>3 DEF Init, TypeOK, Statuses, Phases, NoRate

\* A status change with its event keeps the types.
LEMMA TellType ==
  ASSUME TypeOK, NEW o \in WorkOrders, NEW t, NEW s \in Statuses,
         t \in {"ACCEPTED", "REJECTED", "CANCELLED", "ASSIGNED", "PARTIALLY_ASSIGNED"},
         Tell(o, t, s)
  PROVE  /\ status' \in [WorkOrders -> Statuses]
         /\ heard' \in [WorkOrders -> Events]
<1>1. assigned[o] \in Nat
  BY DEF TypeOK
<1>2. Event(t, s, assigned[o]) \in Events
  BY <1>1 DEF Event, Events
<1>3. QED
  BY <1>2 DEF TypeOK, Tell

\* The end of a turn keeps the types of the turn.
LEMMA EndTurnType ==
  ASSUME EndTurn
  PROVE  /\ phase' = "idle" /\ current' = None
         /\ fills' = <<>> /\ fills' \in Seq(Assignments)
         /\ said' \in 0..Len(fills')
BY DEF EndTurn

\* A submission makes its identifier known and starts with no hours assigned.
LEMMA SubmitType ==
  ASSUME TypeOK, NEW o \in WorkOrders, NEW w \in Submissions, Submit(o, w)
  PROVE  TypeOK'
<1>1. w \in WorkOrder
  BY EngineAssumption
<1>2. order' \in [known' -> WorkOrder]
  BY <1>1 DEF TypeOK, Submit
<1>3. w.status \in Statuses /\ w.hours \in Nat
  BY <1>1 DEF WorkOrder
<1>4. heard' \in [WorkOrders -> Events]
  BY <1>3 DEF TypeOK, Submit, Event, Events
<1>5. \A p \in known' : assigned'[p] =< order'[p].hours
  BY <1>3 DEF TypeOK, Submit
<1>6. resting' \in [Assets -> SUBSET known']
  BY DEF TypeOK, Submit
<1>7. QED
  BY <1>2, <1>3, <1>4, <1>5, <1>6 DEF TypeOK, Submit, Phases, ledger

\* The steps that end or continue a turn by telling a status.
LEMMA TellingType ==
  ASSUME TypeOK, Reject \/ StandDownComplete \/ SettleAssigned \/ StandDownResidual
                 \/ Admit \/ SettlePartial
  PROVE  TypeOK'
<1>1. current \in known /\ current \in WorkOrders
  BY DEF TypeOK, Reject, StandDownComplete, SettleAssigned, StandDownResidual,
         Admit, SettlePartial
<1>2. CASE Reject \/ StandDownComplete \/ SettleAssigned \/ StandDownResidual
  <2>1. status' \in [WorkOrders -> Statuses] /\ heard' \in [WorkOrders -> Events]
    BY <1>1, <1>2, TellType
       DEF Reject, StandDownComplete, SettleAssigned, StandDownResidual, Statuses
  <2>2. UNCHANGED <<book, assigned, resting, ledger>> /\ EndTurn
    BY <1>2 DEF Reject, StandDownComplete, SettleAssigned, StandDownResidual
  <2>3. QED
    BY <2>1, <2>2, EndTurnType DEF TypeOK, book, ledger, Phases
<1>3. CASE Admit \/ SettlePartial
  <2>1. status' \in [WorkOrders -> Statuses] /\ heard' \in [WorkOrders -> Events]
    <3>1. CASE Admit
      BY <1>1, <3>1, TellType DEF Admit, Statuses
    <3>2. CASE SettlePartial
      BY <1>1, <3>2, TellType DEF SettlePartial, Statuses, TypeOK
    <3>3. QED
      BY <1>3, <3>1, <3>2
  <2>2. /\ UNCHANGED <<book, assigned, resting, ledger, current, fills, said>>
        /\ phase' \in {"admitted", "residual"}
        /\ phase # "idle"
    BY <1>3 DEF Admit, SettlePartial, GoTo
  <2>3. QED
    BY <1>1, <2>1, <2>2 DEF TypeOK, book, ledger, Phases
<1>4. QED
  BY <1>2, <1>3

\* The steps that change no order.
LEMMA MovingType ==
  ASSUME TypeOK, CheckRaises \/ BeginMatch \/ EndMatch \/ Rest
  PROVE  TypeOK'
<1>1. current \in known
  BY DEF TypeOK, CheckRaises, BeginMatch, EndMatch, Rest
<1>2. CASE CheckRaises \/ Rest
  <2>1. UNCHANGED <<book, status, assigned, heard, ledger>> /\ EndTurn
    BY <1>2 DEF CheckRaises, Rest
  <2>2. resting' \in [Assets -> SUBSET known]
    <3>1. CASE CheckRaises
      BY <3>1 DEF TypeOK, CheckRaises
    <3>2. CASE Rest
      BY <1>1, <3>2 DEF TypeOK, Rest
    <3>3. QED
      BY <1>2, <3>1, <3>2
  <2>3. QED
    BY <2>1, <2>2, EndTurnType DEF TypeOK, book, ledger, Phases
<1>3. CASE BeginMatch \/ EndMatch
  <2>1. /\ UNCHANGED <<book, status, assigned, heard, resting, ledger, current, fills, said>>
        /\ phase' \in {"matching", "announcing"}
    BY <1>3 DEF BeginMatch, EndMatch, GoTo
  <2>2. QED
    BY <1>1, <2>1 DEF TypeOK, book, ledger, Phases
<1>4. QED
  BY <1>2, <1>3

\* What one round of the match deals: an assignment between two known orders,
\* of at least one hour and of no more than either has left.
LEMMA DealtHours ==
  ASSUME TypeOK, NEW r \in WorkOrders, Match(r)
  PROVE  /\ current \in known /\ r \in known
         /\ order[current] \in WorkOrder /\ order[r] \in WorkOrder
         /\ Assignment(current, r) \in Assignments
         /\ HoursDealt(current, r) \in Nat
         /\ HoursDealt(current, r) =< order[current].hours - assigned[current]
         /\ HoursDealt(current, r) =< order[r].hours - assigned[r]
<1>1. current \in known
  BY DEF TypeOK, Match
<1>2. order[current] \in WorkOrder
  BY <1>1 DEF TypeOK
<1>3. order[current].asset \in Assets
  BY <1>2 DEF WorkOrder
<1>4. r \in known
  BY <1>3 DEF TypeOK, Match, Counterparts, Line
<1>5. order[r] \in WorkOrder
  BY <1>4 DEF TypeOK
<1>6. /\ order[current].hours \in Nat /\ order[r].hours \in Nat
      /\ order[r].rate \in Nat
  BY <1>2, <1>5 DEF WorkOrder
<1>7. /\ assigned[current] \in Nat /\ assigned[r] \in Nat
      /\ assigned[current] =< order[current].hours
      /\ assigned[r] =< order[r].hours
  BY <1>1, <1>4 DEF TypeOK
<1>8. /\ HoursDealt(current, r) \in Nat
      /\ HoursDealt(current, r) =< order[current].hours - assigned[current]
      /\ HoursDealt(current, r) =< order[r].hours - assigned[r]
  BY <1>6, <1>7 DEF HoursDealt, Remaining
<1>9. current \in WorkOrders
  BY <1>1 DEF TypeOK
<1>10. Assignment(current, r) \in Assignments
  BY <1>3, <1>6, <1>8, <1>9 DEF Assignment, Assignments
<1>11. QED
  BY <1>1, <1>2, <1>4, <1>5, <1>8, <1>10

\* A round of the match assigns no more than either order asked for.
LEMMA MatchType ==
  ASSUME TypeOK, NEW r \in WorkOrders, Match(r)
  PROVE  TypeOK'
<1> DEFINE d == Assignment(current, r)
           a == order[current].asset
           full == assigned[r] + d.hours >= order[r].hours
<1>1. /\ current \in known /\ r \in known
      /\ order[current] \in WorkOrder /\ order[r] \in WorkOrder
      /\ d \in Assignments
      /\ d.hours = HoursDealt(current, r)
      /\ d.asset = a
  BY DealtHours DEF Assignment
<1>2. /\ d.hours \in Nat
      /\ d.hours =< order[current].hours - assigned[current]
      /\ d.hours =< order[r].hours - assigned[r]
      /\ d.rate \in Nat
  BY <1>1, DealtHours DEF Assignments
<1>3. /\ assigned' = [assigned EXCEPT ![current] = @ + d.hours, ![r] = @ + d.hours]
      /\ status' = [status EXCEPT ![r] = IF full THEN "ASSIGNED" ELSE "PARTIALLY_ASSIGNED"]
      /\ resting' = IF full THEN Popped(a, r) ELSE resting
      /\ net' = Applied(d)
      /\ mark' = MarkedBy(d)
      /\ fills' = Append(fills, d)
      /\ UNCHANGED <<book, log, heard, phase, current, said>>
      /\ phase = "matching"
  BY DEF Match
<1>4. current # r
  BY <1>1 DEF Match, Counterparts, Line, Opposite, WorkOrder, Sides
<1>5. /\ assigned' \in [WorkOrders -> Nat]
      /\ \A o \in known : assigned'[o] =< order[o].hours
  <2>1. order[current].hours \in Nat /\ order[r].hours \in Nat
    BY <1>1 DEF WorkOrder
  <2>2. /\ current \in WorkOrders
        /\ assigned[current] \in Nat /\ assigned[r] \in Nat
    BY <1>1 DEF TypeOK
  <2>3. /\ assigned'[current] = assigned[current] + d.hours
        /\ assigned'[r] = assigned[r] + d.hours
        /\ \A o \in WorkOrders \ {current, r} : assigned'[o] = assigned[o]
        /\ DOMAIN assigned' = WorkOrders
    BY <1>3, <1>4, <2>2 DEF TypeOK
  <2>4. assigned' \in [WorkOrders -> Nat]
    <3>1. assigned' = [o \in WorkOrders |-> assigned'[o]]
      BY <1>3 DEF TypeOK
    <3>2. ASSUME NEW o \in WorkOrders PROVE assigned'[o] \in Nat
      <4>1. assigned[o] \in Nat
        BY DEF TypeOK
      <4>2. CASE o \in {current, r}
        BY <1>2, <2>2, <2>3, <4>2
      <4>3. CASE o \notin {current, r}
        BY <2>3, <4>1, <4>3
      <4>4. QED
        BY <4>2, <4>3
    <3>3. QED
      BY <3>1, <3>2
  <2>5. ASSUME NEW o \in known PROVE assigned'[o] =< order[o].hours
    <3>1. CASE o = current
      BY <1>2, <2>1, <2>2, <2>3, <3>1
    <3>2. CASE o = r
      BY <1>2, <2>1, <2>2, <2>3, <3>2
    <3>3. CASE o \in WorkOrders \ {current, r}
      BY <2>3, <3>3 DEF TypeOK
    <3>4. QED
      BY <3>1, <3>2, <3>3 DEF TypeOK
  <2>6. QED
    BY <2>4, <2>5
<1>6. status' \in [WorkOrders -> Statuses]
  BY <1>3 DEF TypeOK, Statuses
<1>7. resting' \in [Assets -> SUBSET known]
  BY <1>3 DEF TypeOK, Popped
<1>8. net' \in [Orgs -> [Assets -> Int]]
  <2>1. ASSUME NEW g \in Orgs PROVE net'[g] \in [Assets -> Int]
    <3>1. net[g] \in [Assets -> Int]
      BY DEF TypeOK
    <3>2. d.asset \in Assets /\ net[g][d.asset] \in Int
      BY <1>1, <3>1 DEF Assignments
    <3>3. net'[g] = [net[g] EXCEPT ![d.asset] =
                       net[g][d.asset]
                       + (IF g = order[d.requester].org THEN d.hours ELSE 0)
                       - (IF g = order[d.provider].org THEN d.hours ELSE 0)]
      BY <1>3 DEF Applied
    <3>4. net[g][d.asset]
            + (IF g = order[d.requester].org THEN d.hours ELSE 0)
            - (IF g = order[d.provider].org THEN d.hours ELSE 0) \in Int
      BY <1>2, <3>2
    <3>5. QED
      BY <3>1, <3>3, <3>4
  <2>2. net' = [g \in Orgs |-> net'[g]]
    BY <1>3 DEF Applied
  <2>3. QED
    BY <2>1, <2>2
<1>9. mark' \in [Orgs -> [Assets -> Nat]]
  BY <1>2, <1>3 DEF TypeOK, MarkedBy
<1>10. fills' \in Seq(Assignments) /\ said' \in 0..Len(fills')
  BY <1>1, <1>3 DEF TypeOK
<1>11. QED
  BY <1>1, <1>3, <1>5, <1>6, <1>7, <1>8, <1>9, <1>10 DEF TypeOK, book

\* An assignment of the turn moves on to the log.
LEMMA AnnounceType ==
  ASSUME TypeOK, Announce
  PROVE  TypeOK'
<1> DEFINE d == ToAnnounce
<1>1. d \in Assignments /\ d.resting \in WorkOrders
  <2>1. said + 1 \in 1..Len(fills)
    BY DEF TypeOK, Announce
  <2>2. fills \in Seq(Assignments)
    BY DEF TypeOK
  <2>3. d \in Assignments
    BY <2>1, <2>2 DEF ToAnnounce
  <2>4. QED
    BY <2>3 DEF Assignments
<1>2. log' \in Seq(Assignments)
  BY <1>1 DEF TypeOK, Announce
<1>3. heard' \in [WorkOrders -> Events]
  <2>1. Event(TypeOfFill(d.resting), status[d.resting], assigned[d.resting]) \in Events
    BY <1>1 DEF TypeOK, Event, Events, TypeOfFill
  <2>2. QED
    BY <2>1 DEF TypeOK, Announce
<1>4. said' \in 0..Len(fills')
  BY DEF TypeOK, Announce
<1>5. QED
  BY <1>2, <1>3, <1>4 DEF TypeOK, Announce, book

\* The workloads are marked at the rate of an assignment of the turn.
LEMMA RepriceType ==
  ASSUME TypeOK, Reprice
  PROVE  TypeOK'
<1>1. current \in known
  BY DEF TypeOK, Reprice
<1>2. mark' \in [Orgs -> [Assets -> Nat]]
  <2>1. CASE fills = <<>>
    BY <2>1 DEF TypeOK, Reprice
  <2>2. CASE fills # <<>>
    <3>1. Len(fills) \in 1..Len(fills)
      BY <2>2 DEF TypeOK
    <3>2. fills[Len(fills)] \in Assignments
      BY <3>1 DEF TypeOK
    <3>3. LastRate \in Nat
      BY <3>2 DEF LastRate, Assignments
    <3>4. QED
      BY <2>2, <3>3 DEF TypeOK, Reprice, OpenMarked
  <2>3. QED
    BY <2>1, <2>2
<1>3. QED
  BY <1>1, <1>2 DEF TypeOK, Reprice, book, GoTo, Phases

\* A cancellation takes an order out of one line and tells it.
LEMMA CancelType ==
  ASSUME TypeOK, NEW o \in WorkOrders, NEW scope \in Scopes, Cancel(o, scope)
  PROVE  TypeOK'
<1>1. PICK a \in scope : o \in resting[a] /\ resting' = Withdrawn(a, o)
  BY DEF Cancel
<1>2. a \in Assets
  BY DEF Scopes
<1>3. resting' \in [Assets -> SUBSET known]
  BY <1>1, <1>2 DEF TypeOK, Withdrawn
<1>4. status' \in [WorkOrders -> Statuses] /\ heard' \in [WorkOrders -> Events]
  BY TellType DEF Cancel, Statuses
<1>5. QED
  BY <1>3, <1>4 DEF TypeOK, Cancel, book, ledger, turn

\* A duplicate or a cancellation that finds nothing changes nothing.
LEMMA StutterType == TypeOK /\ UNCHANGED vars => TypeOK'
BY DEF TypeOK, vars

\* A reading marks workloads and changes nothing else.
LEMMA ReadingType ==
  ASSUME TypeOK, NEW a \in Assets, NEW reading \in Readings, ApplyReading(a, reading)
  PROVE  TypeOK'
<1>1. mark' \in [Orgs -> [Assets -> Nat]]
  BY EngineAssumption DEF TypeOK, ApplyReading, OpenMarked
<1>2. QED
  BY <1>1 DEF TypeOK, ApplyReading, book, turn

\* Every step of the engine keeps the types.
LEMMA NextType == TypeOK /\ [Next]_vars => TypeOK'
<1> SUFFICES ASSUME TypeOK, [Next]_vars PROVE TypeOK'
  OBVIOUS
<1>1. ASSUME NEW o \in WorkOrders, NEW w \in Submissions, Submit(o, w) PROVE TypeOK'
  BY <1>1, SubmitType
<1>2. ASSUME NEW o \in WorkOrders, SubmitDuplicate(o) PROVE TypeOK'
  BY <1>2, StutterType DEF SubmitDuplicate
<1>3. ASSUME NEW o \in WorkOrders, NEW scope \in Scopes, Cancel(o, scope) PROVE TypeOK'
  BY <1>3, CancelType
<1>4. ASSUME NEW o \in WorkOrders, NEW scope \in Scopes, CancelNothing(o, scope) PROVE TypeOK'
  BY <1>4, StutterType DEF CancelNothing
<1>5. ASSUME Step PROVE TypeOK'
  BY <1>5, TellingType, MovingType, MatchType, AnnounceType, RepriceType DEF Step
<1>6. ASSUME NEW a \in Assets, NEW reading \in Readings, ApplyReading(a, reading) PROVE TypeOK'
  BY <1>6, ReadingType
<1>7. CASE UNCHANGED vars
  BY <1>7, StutterType
<1>8. QED
  BY <1>1, <1>2, <1>3, <1>4, <1>5, <1>6, <1>7 DEF Next

\* The engine's state always has its declared shape, whatever is submitted; in
\* particular no order is ever assigned more hours than it asked for.
THEOREM TypeCorrect == Spec => []TypeOK
<1>1. QED
  BY InitType, NextType, PTL DEF Spec


-----------------------------------------------------------------------------
\* The queues: what rests is live, nothing is crossed, nothing is lost

\* A step that adds nothing to a queue and leaves what stays there as it is
\* keeps the queues live and uncrossed.
LEMMA QueuesShrink ==
  ASSUME TypeOK, RestingIsLive, NeverCrossed,
         \A o \in known : order'[o] = order[o],
         \A a \in Assets : resting'[a] \subseteq resting[a],
         \A a \in Assets : \A o \in resting'[a] :
           status'[o] = status[o] /\ assigned'[o] = assigned[o]
  PROVE  RestingIsLive' /\ NeverCrossed'
<1>1. \A a \in Assets : \A o \in resting'[a] :
        /\ o \in resting[a] /\ o \in known /\ order'[o] = order[o]
        /\ status'[o] = status[o] /\ assigned'[o] = assigned[o]
  BY DEF TypeOK
<1>2. RestingIsLive'
  BY <1>1 DEF RestingIsLive, Active
<1>3. NeverCrossed'
  BY <1>1 DEF NeverCrossed, Line
<1>4. QED
  BY <1>2, <1>3

\* Nothing rests at the start.
LEMMA InitBook == Init => BookInv
<1> SUFFICES ASSUME Init PROVE BookInv
  OBVIOUS
<1>1. TypeOK
  BY InitType
<1>2. \A a \in Assets : resting[a] = {}
  BY DEF Init
<1>3. known = {} /\ phase = "idle"
  BY DEF Init
<1>4. QED
  BY <1>1, <1>2, <1>3
     DEF BookInv, RestingIsLive, NeverCrossed, Line, TurnDoesNotRest, TurnIsActive,
         TurnIsSpent, OthersRest

\* A new order is in no queue, and all the other active orders rest.
LEMMA SubmitBook ==
  ASSUME BookInv, NEW o \in WorkOrders, NEW w \in Submissions, Submit(o, w)
  PROVE  BookInv'
<1>1. TypeOK /\ TypeOK'
  BY SubmitType DEF BookInv
<1>2. o \notin known /\ known' = known \cup {o} /\ UNCHANGED resting
  BY DEF Submit, IsFresh
<1>3. \A p \in known :
        /\ order'[p] = order[p] /\ status'[p] = status[p] /\ assigned'[p] = assigned[p]
  BY <1>1, <1>2 DEF Submit, TypeOK
<1>4. \A a \in Assets : resting[a] \subseteq known
  BY <1>1 DEF TypeOK
<1>5. RestingIsLive' /\ NeverCrossed'
  BY <1>1, <1>2, <1>3, <1>4, QueuesShrink DEF BookInv
<1>6. current = None /\ current' = o /\ phase' = "entered"
  BY <1>1 DEF Submit, TypeOK
<1>7. TurnDoesNotRest' /\ TurnIsActive' /\ TurnIsSpent'
  BY <1>2, <1>4, <1>6 DEF TurnDoesNotRest, TurnIsActive, TurnIsSpent
<1>8. OthersRest'
  <2>1. SUFFICES ASSUME NEW p \in known' \ {current'}, Active(p)'
                 PROVE  p \in resting'[order'[p].asset]
    BY DEF OthersRest
  <2>2. p \in known /\ p # o
    BY <1>2, <1>6
  <2>3. Active(p) /\ p \in known \ {current}
    BY <1>1, <1>3, <1>6, <2>1, <2>2, EngineAssumption DEF Active, TypeOK
  <2>4. p \in resting[order[p].asset]
    BY <2>3 DEF BookInv, OthersRest
  <2>5. QED
    BY <1>2, <1>3, <2>2, <2>4
<1>9. QED
  BY <1>1, <1>5, <1>7, <1>8 DEF BookInv

\* The steps that tell the status of the turn's order touch no queue: the order
\* does not rest.
LEMMA TellingBook ==
  ASSUME BookInv, Reject \/ StandDownComplete \/ SettleAssigned \/ StandDownResidual
                  \/ Admit \/ SettlePartial
  PROVE  BookInv'
<1>1. TypeOK /\ TypeOK'
  BY TellingType DEF BookInv
<1>2. /\ UNCHANGED <<known, order, assigned, resting>>
      /\ phase # "idle"
  BY DEF Reject, StandDownComplete, SettleAssigned, StandDownResidual, Admit,
         SettlePartial, book
<1>3. \A p \in WorkOrders \ {current} : status'[p] = status[p]
  BY <1>1 DEF Reject, StandDownComplete, SettleAssigned, StandDownResidual, Admit,
              SettlePartial, Tell, TypeOK
<1>4. \A a \in Assets : resting[a] \subseteq WorkOrders \ {current}
  BY <1>1, <1>2 DEF BookInv, TurnDoesNotRest, TypeOK
<1>5. RestingIsLive' /\ NeverCrossed'
  BY <1>1, <1>2, <1>3, <1>4, QueuesShrink DEF BookInv
<1>6. current \in known /\ current \in WorkOrders
  BY <1>1, <1>2 DEF TypeOK
<1>7. CASE Reject \/ StandDownComplete \/ SettleAssigned \/ StandDownResidual
  <2>1. phase' = "idle" /\ current' = None
    BY <1>7 DEF Reject, StandDownComplete, SettleAssigned, StandDownResidual, EndTurn
  <2>2. status'[current] \in Terminal
    BY <1>1, <1>6, <1>7
       DEF Reject, StandDownComplete, SettleAssigned, StandDownResidual, Tell, Terminal,
           TypeOK
  <2>3. TurnDoesNotRest' /\ TurnIsActive' /\ TurnIsSpent'
    BY <2>1 DEF TurnDoesNotRest, TurnIsActive, TurnIsSpent
  <2>4. OthersRest'
    BY <1>1, <1>2, <1>3, <2>2 DEF BookInv, OthersRest, Active, Terminal, TypeOK
  <2>5. QED
    BY <1>1, <1>5, <2>3, <2>4 DEF BookInv
<1>8. CASE Admit
  <2>1. phase' = "admitted" /\ current' = current /\ status'[current] = "ACCEPTED"
    BY <1>1, <1>6, <1>8 DEF Admit, GoTo, Tell, TypeOK
  <2>2. TurnDoesNotRest' /\ TurnIsActive' /\ TurnIsSpent'
    BY <1>2, <2>1 DEF BookInv, TurnDoesNotRest, TurnIsActive, TurnIsSpent
  <2>3. OthersRest'
    BY <1>1, <1>2, <1>3, <2>1 DEF BookInv, OthersRest, Active, TypeOK
  <2>4. QED
    BY <1>1, <1>5, <2>2, <2>3 DEF BookInv
<1>9. CASE SettlePartial
  <2>1. phase' = "residual" /\ current' = current /\ phase = "settling"
    BY <1>9 DEF SettlePartial, GoTo
  <2>2. status[current] = "ACCEPTED"
    BY <2>1 DEF BookInv, TurnIsActive
  <2>3. Active(current)'
    BY <1>1, <1>6, <1>9, <2>1, <2>2 DEF SettlePartial, Tell, Active, TypeOK
  <2>4. assigned'[current'] < order'[current'].hours
    <3>1. order[current] \in WorkOrder /\ assigned[current] \in Nat
      BY <1>1, <1>6 DEF TypeOK
    <3>2. order[current].hours \in Nat /\ ~(assigned[current] >= order[current].hours)
      BY <1>9, <3>1 DEF WorkOrder, SettlePartial, FullyAssigned
    <3>3. QED
      BY <1>2, <2>1, <3>1, <3>2
  <2>5. TurnDoesNotRest' /\ TurnIsActive'
    BY <1>2, <2>1, <2>3, <2>4 DEF BookInv, TurnDoesNotRest, TurnIsActive
  <2>6. TurnIsSpent'
    BY <1>2, <2>1 DEF BookInv, TurnIsSpent, Counterparts, Line, Crosses
  <2>7. OthersRest'
    BY <1>1, <1>2, <1>3, <2>1 DEF BookInv, OthersRest, Active, TypeOK
  <2>8. QED
    BY <1>1, <1>5, <2>5, <2>6, <2>7 DEF BookInv
<1>10. QED
  BY <1>7, <1>8, <1>9


\* If the best counterpart does not cross, no counterpart does: the others have
\* no better rate.
LEMMA BestDecides ==
  ASSUME TypeOK, NEW o \in known, NEW r \in Counterparts(o), NEW p \in Counterparts(o),
         IsBest(r, Counterparts(o)), ~Crosses(o, r)
  PROVE  ~Crosses(o, p)
<1>1. order[o] \in WorkOrder
  BY DEF TypeOK
<1>2. order[o].asset \in Assets /\ order[o].side \in Sides /\ order[o].rate \in Nat
  BY <1>1 DEF WorkOrder
<1>3. r \in known /\ p \in known
  BY <1>2 DEF Counterparts, Line, TypeOK
<1>4. order[r] \in WorkOrder /\ order[p] \in WorkOrder
  BY <1>3 DEF TypeOK
<1>5. order[r].rate \in Nat /\ order[p].rate \in Nat
  BY <1>4 DEF WorkOrder
<1>6. order[r].side = Opposite(order[o].side)
  BY DEF Counterparts, Line
<1>7. CASE p = r
  BY <1>7
<1>8. CASE p # r
  <2>1. Precedes(order[r].side, order[r].rate, since[r], order[p].rate, since[p])
    BY <1>8 DEF IsBest
  <2>2. /\ order[o].mode = "RATE_CAPPED"
        /\ ~Accepts(order[o].side, order[o].rate, order[r].rate)
    BY DEF Crosses
  <2>3. CASE order[o].side = "REQUEST"
    <3>1. order[o].rate < order[r].rate
      BY <1>2, <1>5, <2>2, <2>3 DEF Accepts
    <3>2. order[r].rate =< order[p].rate
      BY <1>5, <1>6, <2>1, <2>3 DEF Precedes, Opposite
    <3>3. QED
      BY <1>2, <1>5, <2>2, <2>3, <3>1, <3>2 DEF Crosses, Accepts
  <2>4. CASE order[o].side = "OFFER"
    <3>1. order[o].rate > order[r].rate
      BY <1>2, <1>5, <2>2, <2>4 DEF Accepts
    <3>2. order[r].rate >= order[p].rate
      BY <1>5, <1>6, <2>1, <2>4 DEF Precedes, Opposite
    <3>3. QED
      BY <1>2, <1>5, <2>2, <2>4, <3>1, <3>2 DEF Crosses, Accepts
  <2>5. QED
    BY <1>2, <2>3, <2>4 DEF Sides
<1>9. QED
  BY <1>7, <1>8

\* The steps that change neither an order nor a queue.
LEMMA MovingBook ==
  ASSUME BookInv, CheckRaises \/ BeginMatch \/ EndMatch \/ Announce \/ Reprice
  PROVE  BookInv'
<1>1. TypeOK /\ TypeOK'
  BY MovingType, AnnounceType, RepriceType DEF BookInv
<1>2. UNCHANGED <<known, order, status, assigned, resting>>
  BY DEF CheckRaises, BeginMatch, EndMatch, Announce, Reprice, book
<1>3. RestingIsLive' /\ NeverCrossed'
  BY <1>1, <1>2, QueuesShrink DEF BookInv
<1>4. current \in known /\ phase # "idle"
  BY <1>1 DEF TypeOK, CheckRaises, BeginMatch, EndMatch, Announce, Reprice
<1>5. CASE CheckRaises
  <2>1. phase' = "idle" /\ status[current] = "NEW"
    BY <1>5 DEF CheckRaises, EndTurn, Admissible
  <2>2. TurnDoesNotRest' /\ TurnIsActive' /\ TurnIsSpent'
    BY <2>1 DEF TurnDoesNotRest, TurnIsActive, TurnIsSpent
  <2>3. OthersRest'
    BY <1>2, <2>1 DEF BookInv, OthersRest, Active
  <2>4. QED
    BY <1>1, <1>3, <2>2, <2>3 DEF BookInv
<1>6. CASE BeginMatch
  <2>1. phase = "admitted" /\ phase' = "matching" /\ current' = current
    BY <1>6 DEF BeginMatch, GoTo
  <2>2. TurnDoesNotRest' /\ TurnIsActive' /\ TurnIsSpent' /\ OthersRest'
    BY <1>2, <2>1
       DEF BookInv, TurnDoesNotRest, TurnIsActive, TurnIsSpent, OthersRest, Active
  <2>3. QED
    BY <1>1, <1>3, <2>2 DEF BookInv
<1>7. CASE EndMatch
  <2>1. phase = "matching" /\ phase' = "announcing" /\ current' = current
    BY <1>7 DEF EndMatch, GoTo
  <2>2. TurnDoesNotRest' /\ TurnIsActive' /\ OthersRest'
    BY <1>2, <2>1 DEF BookInv, TurnDoesNotRest, TurnIsActive, OthersRest, Active
  <2>3. TurnIsSpent'
    <3>1. SUFFICES ASSUME assigned[current] < order[current].hours,
                          NEW p \in Counterparts(current)
                   PROVE  ~Crosses(current, p)
      BY <1>2, <2>1 DEF TurnIsSpent, Counterparts, Line, Crosses
    <3>2. order[current] \in WorkOrder /\ assigned[current] \in Nat
      BY <1>1, <1>4 DEF TypeOK
    <3>3. ~(Remaining(current) =< 0)
      BY <3>1, <3>2 DEF Remaining, WorkOrder
    <3>4. PICK r \in Counterparts(current) :
            IsBest(r, Counterparts(current)) /\ ~Crosses(current, r)
      BY <1>7, <3>1, <3>3 DEF EndMatch
    <3>5. QED
      BY <1>1, <1>4, <3>4, BestDecides
  <2>4. QED
    BY <1>1, <1>3, <2>2, <2>3 DEF BookInv
<1>8. CASE Announce \/ Reprice
  <2>1. phase = "announcing" /\ phase' \in {"announcing", "settling"} /\ current' = current
    BY <1>8 DEF Announce, Reprice, GoTo
  <2>2. TurnDoesNotRest' /\ TurnIsActive' /\ OthersRest'
    BY <1>2, <2>1 DEF BookInv, TurnDoesNotRest, TurnIsActive, OthersRest, Active
  <2>3. TurnIsSpent'
    BY <1>2, <2>1 DEF BookInv, TurnIsSpent, Counterparts, Line, Crosses
  <2>4. QED
    BY <1>1, <1>3, <2>2, <2>3 DEF BookInv
<1>9. QED
  BY <1>5, <1>6, <1>7, <1>8

\* A residual rests below, or above, everything it could have dealt with.
LEMMA RestBook ==
  ASSUME BookInv, Rest
  PROVE  BookInv'
<1>1. TypeOK /\ TypeOK'
  BY MovingType DEF BookInv
<1>2. /\ UNCHANGED <<known, order, status, assigned>>
      /\ resting' = [resting EXCEPT ![order[current].asset] = @ \cup {current}]
      /\ phase = "residual" /\ phase' = "idle" /\ current' = None
  BY DEF Rest, EndTurn, book
<1>3. current \in known /\ order[current] \in WorkOrder
  BY <1>1, <1>2 DEF TypeOK
<1>4. order[current].asset \in Assets /\ order[current].side \in Sides
  BY <1>3 DEF WorkOrder
<1>5. /\ order[current].mode = "RATE_CAPPED" /\ order[current].window = "OPEN"
      /\ Active(current) /\ assigned[current] < order[current].hours
  BY <1>2 DEF Rest, MayRest, BookInv, TurnIsActive
<1>6. \A a \in Assets : \A o \in resting'[a] :
        o \in resting[a] \/ (o = current /\ a = order[current].asset)
  BY <1>1, <1>2 DEF TypeOK
<1>7. RestingIsLive'
  BY <1>2, <1>5, <1>6 DEF BookInv, RestingIsLive, Active
<1>8. NeverCrossed'
  <2>1. SUFFICES ASSUME NEW a \in Assets, NEW r \in resting'[a], NEW f \in resting'[a],
                        order[r].side = "REQUEST", order[f].side = "OFFER"
                 PROVE  order[r].rate < order[f].rate
    BY <1>2 DEF NeverCrossed, Line
  <2>2. r \in known /\ f \in known
    BY <1>1, <1>2, <2>1 DEF TypeOK
  <2>3. order[r].rate \in Nat /\ order[f].rate \in Nat
    BY <1>1, <2>2 DEF TypeOK, WorkOrder
  <2>4. \A p \in Counterparts(current) : ~Crosses(current, p)
    BY <1>2, <1>5 DEF BookInv, TurnIsSpent
  <2>5. CASE r = current
    <3>1. f \in resting[a] /\ a = order[current].asset
      BY <1>2, <1>6, <2>1, <2>5 DEF BookInv, RestingIsLive, TurnDoesNotRest
    <3>2. f \in Counterparts(current)
      BY <2>1, <2>5, <3>1 DEF Counterparts, Line, Opposite
    <3>3. QED
      BY <2>1, <2>3, <2>4, <2>5, <3>2 DEF Crosses, Accepts
  <2>6. CASE f = current
    <3>1. r \in resting[a] /\ a = order[current].asset
      BY <1>2, <1>6, <2>1, <2>6 DEF BookInv, RestingIsLive, TurnDoesNotRest
    <3>2. r \in Counterparts(current)
      BY <2>1, <2>6, <3>1 DEF Counterparts, Line, Opposite
    <3>3. QED
      BY <2>1, <2>3, <2>4, <2>6, <3>2 DEF Crosses, Accepts
  <2>7. CASE r # current /\ f # current
    BY <1>6, <2>1, <2>7 DEF BookInv, NeverCrossed, Line
  <2>8. QED
    BY <2>5, <2>6, <2>7
<1>9. OthersRest'
  BY <1>1, <1>2, <1>4, <1>6 DEF BookInv, OthersRest, Active, TypeOK
<1>10. TurnDoesNotRest' /\ TurnIsActive' /\ TurnIsSpent'
  BY <1>2 DEF TurnDoesNotRest, TurnIsActive, TurnIsSpent
<1>11. QED
  BY <1>1, <1>7, <1>8, <1>9, <1>10 DEF BookInv


\* A round of the match fills the best counterpart in part, and it stays, or in
\* full, and it leaves.
LEMMA MatchBook ==
  ASSUME BookInv, NEW r \in WorkOrders, Match(r)
  PROVE  BookInv'
<1> DEFINE d == Assignment(current, r)
           a == order[current].asset
           full == assigned[r] + d.hours >= order[r].hours
<1>1. TypeOK /\ TypeOK'
  BY MatchType DEF BookInv
<1>2. /\ UNCHANGED <<known, order, phase, current>>
      /\ phase = "matching"
      /\ assigned' = [assigned EXCEPT ![current] = @ + d.hours, ![r] = @ + d.hours]
      /\ status' = [status EXCEPT ![r] = IF full THEN "ASSIGNED" ELSE "PARTIALLY_ASSIGNED"]
      /\ resting' = IF full THEN Popped(a, r) ELSE resting
      /\ r \in Counterparts(current)
  BY DEF Match, book
<1>3. /\ current \in known /\ r \in known
      /\ order[current] \in WorkOrder /\ order[r] \in WorkOrder
      /\ d.hours \in Nat
  BY <1>1, DealtHours DEF Assignment
<1>4. a \in Assets /\ r \in resting[a] /\ order[r].asset = a
  BY <1>2, <1>3 DEF Counterparts, Line, WorkOrder, BookInv, RestingIsLive
<1>5. \A b \in Assets : current \notin resting[b]
  BY <1>2 DEF BookInv, TurnDoesNotRest
<1>6. current # r
  BY <1>4, <1>5
<1>7. /\ assigned'[r] = assigned[r] + d.hours
      /\ \A o \in WorkOrders \ {current, r} : assigned'[o] = assigned[o]
      /\ \A o \in WorkOrders \ {r} : status'[o] = status[o]
      /\ status'[r] = IF full THEN "ASSIGNED" ELSE "PARTIALLY_ASSIGNED"
  BY <1>1, <1>2, <1>3, <1>6 DEF TypeOK
<1>8. /\ \A b \in Assets : resting'[b] \subseteq resting[b]
      /\ \A b \in Assets : \A o \in resting[b] : o # r => o \in resting'[b]
      /\ full => \A b \in Assets : r \notin resting'[b]
  BY <1>1, <1>2, <1>4 DEF TypeOK, Popped, BookInv, RestingIsLive
<1>9. NeverCrossed'
  BY <1>2, <1>8 DEF BookInv, NeverCrossed, Line
<1>10. RestingIsLive'
  <2>1. SUFFICES ASSUME NEW b \in Assets, NEW o \in resting'[b]
                 PROVE  Active(o)' /\ assigned'[o] < order[o].hours
    BY <1>2, <1>8 DEF BookInv, RestingIsLive
  <2>2. o \in resting[b] /\ o # current /\ o \in WorkOrders
    BY <1>1, <1>5, <1>8 DEF TypeOK
  <2>3. CASE o # r
    BY <1>7, <2>2, <2>3 DEF BookInv, RestingIsLive, Active
  <2>4. CASE o = r
    <3>1. ~full
      BY <1>8, <2>4
    <3>2. assigned[r] \in Nat /\ order[r].hours \in Nat
      BY <1>1, <1>3 DEF TypeOK, WorkOrder
    <3>3. QED
      BY <1>3, <1>7, <2>4, <3>1, <3>2 DEF Active
  <2>5. QED
    BY <2>3, <2>4
<1>11. TurnDoesNotRest'
  BY <1>2, <1>5, <1>8 DEF TurnDoesNotRest
<1>12. TurnIsActive'
  BY <1>1, <1>2, <1>3, <1>6, <1>7 DEF BookInv, TurnIsActive, TypeOK
<1>13. TurnIsSpent'
  BY <1>2 DEF TurnIsSpent
<1>14. OthersRest'
  <2>1. SUFFICES ASSUME NEW o \in known, o # current, Active(o)'
                 PROVE  o \in resting'[order[o].asset]
    BY <1>2 DEF OthersRest
  <2>2. CASE o # r
    <3>1. Active(o)
      BY <1>1, <1>7, <2>1, <2>2 DEF Active, TypeOK
    <3>2. order[o].asset \in Assets
      BY <1>1 DEF TypeOK, WorkOrder
    <3>3. QED
      BY <1>8, <2>1, <2>2, <3>1, <3>2 DEF BookInv, OthersRest
  <2>3. CASE o = r
    <3>1. ~full
      BY <1>7, <2>1, <2>3 DEF Active
    <3>2. QED
      BY <1>2, <1>4, <2>3, <3>1
  <2>4. QED
    BY <2>2, <2>3
<1>15. QED
  BY <1>1, <1>9, <1>10, <1>11, <1>12, <1>13, <1>14 DEF BookInv

\* A cancelled order leaves its queue and is active no more.
LEMMA CancelBook ==
  ASSUME BookInv, NEW o \in WorkOrders, NEW scope \in Scopes, Cancel(o, scope)
  PROVE  BookInv'
<1>1. TypeOK /\ TypeOK'
  BY CancelType DEF BookInv
<1>2. PICK a \in scope : o \in resting[a] /\ resting' = Withdrawn(a, o)
  BY DEF Cancel
<1>3. a \in Assets /\ o \in known /\ order[o].asset = a
  BY <1>1, <1>2 DEF Scopes, TypeOK, BookInv, RestingIsLive
<1>4. /\ UNCHANGED <<known, order, assigned, phase, current>>
      /\ phase = "idle" /\ current = None
      /\ status' = [status EXCEPT ![o] = "CANCELLED"]
  BY <1>1 DEF Cancel, Tell, book, turn, TypeOK
<1>5. /\ \A b \in Assets : resting'[b] \subseteq resting[b] /\ o \notin resting'[b]
      /\ \A b \in Assets : \A p \in resting[b] : p # o => p \in resting'[b]
  BY <1>1, <1>2, <1>3 DEF TypeOK, Withdrawn, BookInv, RestingIsLive
<1>6. RestingIsLive' /\ NeverCrossed'
  BY <1>1, <1>4, <1>5, QueuesShrink DEF BookInv, TypeOK
<1>7. TurnDoesNotRest' /\ TurnIsActive' /\ TurnIsSpent'
  BY <1>4 DEF TurnDoesNotRest, TurnIsActive, TurnIsSpent
<1>8. OthersRest'
  <2>1. SUFFICES ASSUME NEW p \in known, Active(p)'
                 PROVE  p \in resting'[order[p].asset]
    BY <1>4 DEF OthersRest
  <2>2. p # o /\ Active(p)
    BY <1>1, <1>3, <1>4, <2>1 DEF Active, TypeOK
  <2>3. order[p].asset \in Assets /\ p # current
    BY <1>1, <1>4, EngineAssumption DEF TypeOK, WorkOrder
  <2>4. QED
    BY <1>5, <2>2, <2>3 DEF BookInv, OthersRest
<1>9. QED
  BY <1>1, <1>6, <1>7, <1>8 DEF BookInv

\* A step that changes no variable of the book keeps the queues as they are.
LEMMA SameBook ==
  ASSUME BookInv, TypeOK',
         UNCHANGED <<known, order, status, assigned, resting, phase, current>>
  PROVE  BookInv'
<1>1. QED
  BY
     DEF BookInv, RestingIsLive, NeverCrossed, TurnDoesNotRest, TurnIsActive,
         TurnIsSpent, OthersRest, Active, Line, Counterparts, Crosses

\* A duplicate or a cancellation that finds nothing leaves the queues as they are.
LEMMA StutterBook == BookInv /\ UNCHANGED vars => BookInv'
BY StutterType, SameBook DEF BookInv, vars

\* So does a reading.
LEMMA ReadingBook ==
  ASSUME BookInv, NEW a \in Assets, NEW reading \in Readings, ApplyReading(a, reading)
  PROVE  BookInv'
<1>1. TypeOK'
  BY ReadingType DEF BookInv
<1>2. QED
  BY <1>1, SameBook DEF ApplyReading, book, turn

\* Every step of the engine keeps the queues live, uncrossed and complete.
LEMMA NextBook == BookInv /\ [Next]_vars => BookInv'
<1> SUFFICES ASSUME BookInv, [Next]_vars PROVE BookInv'
  OBVIOUS
<1>1. ASSUME NEW o \in WorkOrders, NEW w \in Submissions, Submit(o, w) PROVE BookInv'
  BY <1>1, SubmitBook
<1>2. ASSUME NEW o \in WorkOrders, SubmitDuplicate(o) PROVE BookInv'
  BY <1>2, StutterBook DEF SubmitDuplicate
<1>3. ASSUME NEW o \in WorkOrders, NEW scope \in Scopes, Cancel(o, scope) PROVE BookInv'
  BY <1>3, CancelBook
<1>4. ASSUME NEW o \in WorkOrders, NEW scope \in Scopes, CancelNothing(o, scope) PROVE BookInv'
  BY <1>4, StutterBook DEF CancelNothing
<1>5. ASSUME Step PROVE BookInv'
  BY <1>5, TellingBook, MovingBook, MatchBook, RestBook DEF Step
<1>6. ASSUME NEW a \in Assets, NEW reading \in Readings, ApplyReading(a, reading) PROVE BookInv'
  BY <1>6, ReadingBook
<1>7. CASE UNCHANGED vars
  BY <1>7, StutterBook
<1>8. QED
  BY <1>1, <1>2, <1>3, <1>4, <1>5, <1>6, <1>7 DEF Next

\* The inductive invariant of the queues.
THEOREM BookCorrect == Spec => []BookInv
<1>1. QED
  BY InitBook, NextBook, PTL DEF Spec

\* What rests is live, in every reachable state, the middle of a turn included.
THEOREM RestingAlwaysLive == Spec => []RestingIsLive
<1>1. BookInv => RestingIsLive
  BY DEF BookInv
<1>2. QED
  BY <1>1, BookCorrect, PTL

\* No queue is ever crossed.
THEOREM QueuesNeverCross == Spec => []NeverCrossed
<1>1. BookInv => NeverCrossed
  BY DEF BookInv
<1>2. QED
  BY <1>1, BookCorrect, PTL

\* No active order is lost: between turns each rests where a match and its
\* client find it.
THEOREM NoOrderIsLost == Spec => []ActiveIsResting
<1>1. BookInv => ActiveIsResting
  BY EngineAssumption DEF BookInv, TypeOK, OthersRest, ActiveIsResting
<1>2. QED
  BY <1>1, BookCorrect, PTL


-----------------------------------------------------------------------------
\* What a step may never do

\* Only a submission touches what identifiers stand for, and only a fresh one.
LEMMA IdentifiersStep ==
  ASSUME TypeOK, [Next]_vars, NEW o \in known
  PROVE  o \in known' /\ order'[o] = order[o]
<1>1. ASSUME NEW p \in WorkOrders, NEW w \in Submissions, Submit(p, w)
      PROVE  o \in known' /\ order'[o] = order[o]
  BY <1>1 DEF Submit, IsFresh
<1>2. ASSUME UNCHANGED <<known, order>>
      PROVE  o \in known' /\ order'[o] = order[o]
  BY <1>2
<1>3. ASSUME Step PROVE UNCHANGED <<known, order>>
  BY <1>3 DEF Step, Reject, CheckRaises, Admit, StandDownComplete, BeginMatch, Match,
              EndMatch, Announce, Reprice, SettleAssigned, SettlePartial, Rest,
              StandDownResidual, book
<1>4. ASSUME NEW p \in WorkOrders, NEW scope \in Scopes,
             Cancel(p, scope) \/ CancelNothing(p, scope)
      PROVE  UNCHANGED <<known, order>>
  BY <1>4 DEF Cancel, CancelNothing, book, vars
<1>5. ASSUME NEW p \in WorkOrders, SubmitDuplicate(p)
      PROVE  UNCHANGED <<known, order>>
  BY <1>5 DEF SubmitDuplicate, vars
<1>6. ASSUME NEW a \in Assets, NEW reading \in Readings, ApplyReading(a, reading)
      PROVE  UNCHANGED <<known, order>>
  BY <1>6 DEF ApplyReading, book
<1>7. CASE UNCHANGED vars
  BY <1>2, <1>7 DEF vars
<1>8. QED
  BY <1>1, <1>2, <1>3, <1>4, <1>5, <1>6, <1>7 DEF Next

\* An identifier is reserved for good and names one order.
THEOREM IdentifiersNeverReused == Spec => IdentifiersArePermanent
<1>1. TypeOK /\ [Next]_vars =>
        [\A o \in known : o \in known' /\ order'[o] = order[o]]_vars
  BY IdentifiersStep
<1>2. QED
  BY <1>1, TypeCorrect, PTL DEF Spec, IdentifiersArePermanent

\* A step leaves every ended order alone: it rests in no queue, so no match and
\* no cancellation reaches it.
LEMMA TerminalStep ==
  ASSUME BookInv, BookInv', Next, NEW o \in known \ {current}, status[o] \in Terminal
  PROVE  /\ status'[o] = status[o] /\ assigned'[o] = assigned[o]
         /\ \A a \in Assets : o \notin resting'[a]
<1>1. TypeOK /\ o \in WorkOrders
  BY DEF BookInv, TypeOK
<1>2. \A a \in Assets : o \notin resting[a]
  BY DEF BookInv, RestingIsLive, Active, Terminal
<1>3. /\ status'[o] = status[o] /\ assigned'[o] = assigned[o]
  <2>1. ASSUME NEW p \in WorkOrders, NEW w \in Submissions, Submit(p, w)
        PROVE  status'[o] = status[o] /\ assigned'[o] = assigned[o]
    BY <1>1, <2>1 DEF Submit, IsFresh, TypeOK
  <2>2. ASSUME NEW p \in WorkOrders, NEW scope \in Scopes, Cancel(p, scope)
        PROVE  status'[o] = status[o] /\ assigned'[o] = assigned[o]
    <3>1. p # o
      BY <1>2, <2>2 DEF Cancel, Scopes
    <3>2. QED
      BY <1>1, <2>2, <3>1 DEF Cancel, Tell, TypeOK
  <2>3. ASSUME NEW r \in WorkOrders, Match(r)
        PROVE  status'[o] = status[o] /\ assigned'[o] = assigned[o]
    <3>1. current \in known /\ order[current].asset \in Assets
      BY <1>1, <2>3, DealtHours DEF WorkOrder
    <3>2. r # o
      BY <1>2, <2>3, <3>1 DEF Match, Counterparts, Line
    <3>3. QED
      BY <1>1, <2>3, <3>2 DEF Match, TypeOK
  <2>4. ASSUME Reject \/ Admit \/ StandDownComplete \/ SettleAssigned \/ SettlePartial
               \/ StandDownResidual
        PROVE  status'[o] = status[o] /\ assigned'[o] = assigned[o]
    BY <1>1, <2>4 DEF Reject, Admit, StandDownComplete, SettleAssigned, SettlePartial,
                      StandDownResidual, Tell, TypeOK
  <2>5. ASSUME CheckRaises \/ BeginMatch \/ EndMatch \/ Announce \/ Reprice \/ Rest
        PROVE  status'[o] = status[o] /\ assigned'[o] = assigned[o]
    BY <2>5 DEF CheckRaises, BeginMatch, EndMatch, Announce, Reprice, Rest
  <2>6. ASSUME NEW p \in WorkOrders, SubmitDuplicate(p) \/ (\E scope \in Scopes : CancelNothing(p, scope))
        PROVE  status'[o] = status[o] /\ assigned'[o] = assigned[o]
    BY <2>6 DEF SubmitDuplicate, CancelNothing, vars
  <2>7. ASSUME NEW a \in Assets, NEW reading \in Readings, ApplyReading(a, reading)
        PROVE  status'[o] = status[o] /\ assigned'[o] = assigned[o]
    BY <2>7 DEF ApplyReading
  <2>8. QED
    BY <2>1, <2>2, <2>3, <2>4, <2>5, <2>6, <2>7 DEF Next, Step
<1>4. \A a \in Assets : o \notin resting'[a]
  BY <1>3 DEF BookInv, RestingIsLive, Active, Terminal
<1>5. QED
  BY <1>3, <1>4

\* An order that has ended keeps its status and its hours and never rests again.
THEOREM EndedOrdersStay == Spec => TerminalIsFinal
<1>1. BookInv /\ BookInv' /\ [Next]_vars =>
        [\A o \in known \ {current} :
           status[o] \in Terminal =>
             /\ status'[o] = status[o] /\ assigned'[o] = assigned[o]
             /\ \A a \in Assets : o \notin resting'[a]]_vars
  BY TerminalStep
<1>2. QED
  BY <1>1, BookCorrect, PTL DEF Spec, TerminalIsFinal

-----------------------------------------------------------------------------
\* At which rates hours are dealt

\* An assignment is between known orders and within the caps of both.
Fair(d) ==
  \A o \in {d.requester, d.provider} :
    /\ o \in known
    /\ order[o].mode = "RATE_CAPPED" => Accepts(order[o].side, order[o].rate, d.rate)

DealsAreFair ==
  /\ \A i \in 1..Len(log) : Fair(log[i])
  /\ \A i \in 1..Len(fills) : Fair(fills[i])

\* Before its match a turn has dealt nothing, and after the announcements all that
\* it has dealt is announced.
TurnIsInOrder ==
  /\ phase \in {"idle", "entered", "admitted"} => fills = <<>>
  /\ phase \in {"settling", "residual"} => said = Len(fills)

DealInv == BookInv /\ DealsAreFair /\ TurnIsInOrder /\ NoTradeThrough

\* An appended element comes after the others, which stay as they are.
LEMMA Appended ==
  ASSUME NEW S, NEW s \in Seq(S), NEW d \in S
  PROVE  /\ Len(Append(s, d)) = Len(s) + 1 /\ Append(s, d)[Len(s) + 1] = d
         /\ \A i \in 1..Len(s) : Append(s, d)[i] = s[i]
         /\ Len(s) \in Nat /\ 1..Len(s) + 1 = 1..Len(s) \cup {Len(s) + 1}
OBVIOUS

\* What a round of the match deals suits both orders: the rate is the cap of the
\* resting one, and the incoming one crosses it.
LEMMA MatchIsFair ==
  ASSUME TypeOK, NEW r \in WorkOrders, Match(r)
  PROVE  Fair(Assignment(current, r))
<1> DEFINE d == Assignment(current, r)
<1>1. /\ current \in known /\ r \in known
      /\ order[current] \in WorkOrder /\ order[r] \in WorkOrder
  BY DealtHours
<1>2. d.rate = order[r].rate /\ {d.requester, d.provider} \subseteq {current, r}
  BY DEF Assignment
<1>3. order[r].rate \in Nat
  BY <1>1 DEF WorkOrder
<1>4. Accepts(order[r].side, order[r].rate, order[r].rate)
  BY <1>3 DEF Accepts
<1>5. Crosses(current, r)
  BY DEF Match
<1> HIDE DEF d
<1> QED
  BY <1>1, <1>2, <1>4, <1>5 DEF Fair, Crosses, d

\* What is dealt once stays fair, since identifiers are permanent.
LEMMA FairStep ==
  ASSUME TypeOK, DealsAreFair, [Next]_vars
  PROVE  DealsAreFair'
<1>1. ASSUME NEW d, Fair(d) PROVE Fair(d)'
  BY <1>1, IdentifiersStep DEF Fair
<1>2. ASSUME NEW r \in WorkOrders, Match(r) PROVE DealsAreFair'
  <2> DEFINE d == Assignment(current, r)
  <2>1. d \in Assignments /\ fills \in Seq(Assignments)
    BY <1>2, DealtHours DEF TypeOK
  <2>2. Fair(d)
    BY <1>2, MatchIsFair
  <2>3. fills' = Append(fills, d) /\ log' = log
    BY <1>2 DEF Match
  <2> HIDE DEF d
  <2>4. \A i \in 1..Len(fills') : Fair(fills'[i])
    <3>1. /\ Len(fills') = Len(fills) + 1 /\ fills'[Len(fills) + 1] = d
          /\ \A i \in 1..Len(fills) : fills'[i] = fills[i]
          /\ Len(fills) \in Nat /\ 1..Len(fills) + 1 = 1..Len(fills) \cup {Len(fills) + 1}
      BY <2>1, <2>3, Appended
    <3> QED
      BY <2>2, <3>1 DEF DealsAreFair
  <2> QED
    BY <1>1, <2>3, <2>4 DEF DealsAreFair
<1>3. ASSUME Announce PROVE DealsAreFair'
  <2> DEFINE d == ToAnnounce
  <2>1. said + 1 \in 1..Len(fills) /\ fills \in Seq(Assignments)
        /\ log \in Seq(Assignments)
    BY <1>3 DEF Announce, TypeOK
  <2>2. d \in Assignments /\ Fair(d)
    BY <2>1 DEF ToAnnounce, DealsAreFair
  <2>3. log' = Append(log, d) /\ fills' = fills
    BY <1>3 DEF Announce
  <2> HIDE DEF d
  <2>4. \A i \in 1..Len(log') : Fair(log'[i])
    <3>1. /\ Len(log') = Len(log) + 1 /\ log'[Len(log) + 1] = d
          /\ \A i \in 1..Len(log) : log'[i] = log[i]
          /\ Len(log) \in Nat /\ 1..Len(log) + 1 = 1..Len(log) \cup {Len(log) + 1}
      BY <2>1, <2>2, <2>3, Appended
    <3> QED
      BY <2>2, <3>1 DEF DealsAreFair
  <2> QED
    BY <1>1, <2>3, <2>4 DEF DealsAreFair
<1>4. ASSUME log' = log, fills' = fills \/ fills' = <<>> PROVE DealsAreFair'
  <2>1. Len(<<>>) = 0
    OBVIOUS
  <2> QED
    BY <1>1, <1>4, <2>1 DEF DealsAreFair
<1>5. \/ log' = log /\ (fills' = fills \/ fills' = <<>>)
      \/ Announce
      \/ \E r \in WorkOrders : Match(r)
  BY DEF Next, Step, Submit, SubmitDuplicate, Cancel, CancelNothing, ApplyReading, Reject,
         CheckRaises, Admit, StandDownComplete, BeginMatch, EndMatch, Reprice,
         SettleAssigned, SettlePartial, Rest, StandDownResidual, EndTurn, GoTo, ledger,
         turn, vars
<1> QED
  BY <1>2, <1>3, <1>4, <1>5

\* The steps of a turn come in their order.
LEMMA OrderStep ==
  ASSUME TypeOK, TurnIsInOrder, [Next]_vars
  PROVE  TurnIsInOrder'
<1>1. ASSUME NEW o \in WorkOrders, NEW w \in Submissions, Submit(o, w)
      PROVE  TurnIsInOrder'
  BY <1>1 DEF Submit, TurnIsInOrder
<1>2. ASSUME UNCHANGED turn PROVE TurnIsInOrder'
  BY <1>2 DEF TurnIsInOrder, turn
<1>3. CASE EndTurn
  BY <1>3 DEF EndTurn, TurnIsInOrder
<1>4. ASSUME Step, ~EndTurn PROVE TurnIsInOrder'
  <2>1. CASE Admit \/ BeginMatch \/ EndMatch \/ SettlePartial
    BY <2>1 DEF Admit, BeginMatch, EndMatch, SettlePartial, GoTo, TurnIsInOrder
  <2>2. CASE Reprice
    BY <2>2 DEF Reprice, GoTo, TurnIsInOrder
  <2>3. CASE Announce \/ \E r \in WorkOrders : Match(r)
    BY <2>3 DEF Announce, Match, TurnIsInOrder
  <2> QED
    BY <1>4, <2>1, <2>2, <2>3
    DEF Step, Reject, CheckRaises, StandDownComplete, SettleAssigned, Rest,
        StandDownResidual
<1> QED
  BY <1>1, <1>2, <1>3, <1>4
  DEF Next, SubmitDuplicate, Cancel, CancelNothing, ApplyReading, turn, vars

\* No counterpart is served at a better rate than the best.
LEMMA BestIsNoWorse ==
  ASSUME TypeOK, NEW o \in known, NEW r \in Counterparts(o), NEW p \in Counterparts(o),
         IsBest(r, Counterparts(o))
  PROVE  Accepts(order[o].side, order[p].rate, order[r].rate)
<1>1. order[o] \in WorkOrder
  BY DEF TypeOK
<1>2. order[o].asset \in Assets /\ order[o].side \in Sides
  BY <1>1 DEF WorkOrder
<1>3. r \in known /\ p \in known
  BY <1>2 DEF Counterparts, Line, TypeOK
<1>4. order[r].rate \in Nat /\ order[p].rate \in Nat
  BY <1>3 DEF TypeOK, WorkOrder
<1>5. order[r].side = Opposite(order[o].side)
  BY DEF Counterparts, Line
<1>6. CASE p = r
  BY <1>4, <1>6 DEF Accepts
<1>7. CASE p # r
  <2>1. Precedes(order[r].side, order[r].rate, since[r], order[p].rate, since[p])
    BY <1>7 DEF IsBest
  <2> QED
    BY <1>2, <1>4, <1>5, <2>1 DEF Precedes, Opposite, Accepts, Sides
<1> QED
  BY <1>6, <1>7

\* A match deals with the best first, and what is left is no better.
LEMMA ThroughStep ==
  ASSUME BookInv, TurnIsInOrder, NoTradeThrough, [Next]_vars
  PROVE  NoTradeThrough'
<1>1. TypeOK
  BY DEF BookInv
<1>2. ASSUME fills' = <<>> \/ phase' = "idle" PROVE NoTradeThrough'
  <2>1. Len(<<>>) = 0
    OBVIOUS
  <2> QED
    BY <1>2, <2>1 DEF NoTradeThrough
<1>3. ASSUME NEW o \in WorkOrders, NEW w \in Submissions, Submit(o, w)
      PROVE  fills' = <<>>
  BY <1>3 DEF Submit, TurnIsInOrder
<1>4. ASSUME UNCHANGED <<order, resting, current, fills>>, phase # "idle"
      PROVE  NoTradeThrough'
  BY <1>4 DEF NoTradeThrough, Counterparts, Line
<1>5. ASSUME NEW r \in WorkOrders, Match(r) PROVE NoTradeThrough'
  <2> DEFINE d == Assignment(current, r)
  <2>1. d \in Assignments /\ fills \in Seq(Assignments) /\ d.rate = order[r].rate
        /\ current \in known
    BY <1>1, <1>5, DealtHours DEF TypeOK, Assignment
  <2>2. /\ fills' = Append(fills, d) /\ UNCHANGED <<order, current, phase>>
        /\ phase = "matching" /\ r \in Counterparts(current)
        /\ IsBest(r, Counterparts(current))
    BY <1>5 DEF Match, book
  <2> HIDE DEF d
  <2>3. Counterparts(current)' \subseteq Counterparts(current)
    <3>1. \A a \in Assets : resting'[a] \subseteq resting[a]
      BY <1>1, <1>5 DEF Match, Popped, TypeOK
    <3>2. order[current].asset \in Assets
      BY <1>1, <2>1 DEF TypeOK, WorkOrder
    <3> QED
      BY <2>2, <3>1, <3>2 DEF Counterparts, Line
  <2>4. /\ Len(fills') = Len(fills) + 1 /\ fills'[Len(fills) + 1] = d
        /\ \A i \in 1..Len(fills) : fills'[i] = fills[i]
        /\ Len(fills) \in Nat /\ 1..Len(fills) + 1 = 1..Len(fills) \cup {Len(fills) + 1}
    BY <2>1, <2>2, Appended
  <2>5. ASSUME NEW i \in 1..Len(fills'), NEW p \in Counterparts(current)'
        PROVE  Accepts(order[current].side, order[p].rate, fills'[i].rate)
    <3>1. p \in Counterparts(current)
      BY <2>3
    <3>2. CASE i \in 1..Len(fills)
      BY <2>2, <2>4, <3>1, <3>2 DEF NoTradeThrough
    <3>3. CASE i = Len(fills) + 1
      BY <1>1, <2>1, <2>2, <2>4, <3>1, <3>3, BestIsNoWorse
    <3> QED
      BY <2>4, <3>2, <3>3
  <2> QED
    BY <2>2, <2>5 DEF NoTradeThrough
<1>6. ASSUME Step PROVE NoTradeThrough'
  BY <1>2, <1>4, <1>5, <1>6
  DEF Step, Reject, CheckRaises, Admit, StandDownComplete, BeginMatch, EndMatch, Announce,
      Reprice, SettleAssigned, SettlePartial, Rest, StandDownResidual, EndTurn, GoTo, book
<1>7. CASE UNCHANGED vars
  BY <1>2, <1>4, <1>7 DEF vars
<1> QED
  BY <1>2, <1>3, <1>6, <1>7
  DEF Next, SubmitDuplicate, Cancel, CancelNothing, ApplyReading, turn, vars

\* The inductive invariant of the dealing, from the first submission on: what a match
\* deals is within both caps and in the order of the line (engine.py:414-458).
THEOREM DealsAlwaysFair == Spec => []DealInv
<1>1. Init => DealsAreFair /\ TurnIsInOrder /\ NoTradeThrough
  <2>1. Len(<<>>) = 0
    OBVIOUS
  <2> QED
    BY <2>1 DEF Init, DealsAreFair, TurnIsInOrder, NoTradeThrough
<1>2. BookInv => TypeOK
  BY DEF BookInv
<1>3. DealInv /\ [Next]_vars => DealsAreFair' /\ TurnIsInOrder' /\ NoTradeThrough'
  BY <1>2, FairStep, OrderStep, ThroughStep DEF DealInv
<1>4. DealInv <=> BookInv /\ DealsAreFair /\ TurnIsInOrder /\ NoTradeThrough
  BY DEF DealInv
<1> QED
  BY <1>1, <1>3, <1>4, BookCorrect, PTL DEF Spec

\* What has been executed is in the log or among the assignments of the turn.
LEMMA ExecutedIsDealt ==
  ASSUME TypeOK
  PROVE  \A i \in 1..Len(Executed) :
           \/ \E j \in 1..Len(log) : Executed[i] = log[j]
           \/ \E j \in 1..Len(fills) : Executed[i] = fills[j]
<1>1. /\ log \in Seq(Assignments) /\ fills \in Seq(Assignments) /\ said \in 0..Len(fills)
  BY DEF TypeOK
<1> DEFINE rest == SubSeq(fills, said + 1, Len(fills))
<1>2. /\ rest \in Seq(Assignments)
      /\ \A i \in 1..Len(rest) : \E j \in 1..Len(fills) : rest[i] = fills[j]
  <2>1. Len(fills) \in Nat /\ said \in Nat
    BY <1>1
  <2>2. /\ Len(rest) = Len(fills) - said
        /\ \A i \in 1..Len(rest) : rest[i] = fills[said + i]
    BY <1>1, <2>1
  <2>3. \A i \in 1..Len(rest) : said + i \in 1..Len(fills)
    BY <1>1, <2>1, <2>2
  <2> QED
    BY <1>1, <2>1, <2>2, <2>3
<1> HIDE DEF rest
<1>3. \A i \in 1..Len(log \o rest) :
        \/ \E j \in 1..Len(log) : (log \o rest)[i] = log[j]
        \/ \E j \in 1..Len(rest) : (log \o rest)[i] = rest[j]
  BY <1>1, <1>2
<1>4. \A i \in 1..Len(log \o rest) :
        \/ \E j \in 1..Len(log) : (log \o rest)[i] = log[j]
        \/ \E j \in 1..Len(fills) : (log \o rest)[i] = fills[j]
  BY <1>2, <1>3
<1> QED
  BY <1>4 DEF Executed, rest

\* Nobody deals beyond a cap, whichever order rested (engine.py:414-458).
THEOREM CapsAlwaysRespected == Spec => []CapsRespected
<1>1. ASSUME DealInv PROVE CapsRespected
  <2>1. TypeOK /\ DealsAreFair
    BY <1>1 DEF DealInv, BookInv
  <2>2. \A i \in 1..Len(Executed) : Fair(Executed[i])
    BY <2>1, ExecutedIsDealt DEF DealsAreFair
  <2> QED
    BY <2>2 DEF CapsRespected, Fair
<1> QED
  BY <1>1, DealsAlwaysFair, PTL

\* No better rate is left behind in the middle of a turn (engine.py:414-458).
THEOREM NoTradeThroughAlways == Spec => []NoTradeThrough
<1>1. DealInv => NoTradeThrough
  BY DEF DealInv
<1> QED
  BY <1>1, DealsAlwaysFair, PTL

-----------------------------------------------------------------------------
\* What is told

\* The last event about an order tells its status and hours.
Told(o) ==
  /\ heard[o].status = status[o]
  /\ heard[o].assigned = assigned[o]
  /\ heard[o].type = IF status[o] = "NEW" THEN "SUBMITTED" ELSE status[o]

\* An assignment of the turn that touched the order waits to be announced.
IsAwaited(o) == \E i \in (said + 1)..Len(fills) : fills[i].resting = o

\* Every order is told but that of the turn and those that will be.
OthersAreTold == \A o \in known \ {current} : Told(o) \/ IsAwaited(o)

\* What an announcement will say of the resting order is what happened to it.
FillsAreTrue ==
  \A i \in 1..Len(fills) :
    LET r == fills[i].resting
    IN  r \in known \ {current} /\ status[r] = TypeOfFill(r)

\* The order of the turn is told until it is dealt with, and again once its partial
\* assignment is.
TurnIsTold ==
  /\ phase = "entered" =>
       heard[current] = Event("SUBMITTED", status[current], assigned[current])
  /\ phase = "admitted" => Told(current)
  /\ phase \in {"matching", "announcing", "settling"} /\ fills = <<>> => Told(current)
  /\ phase = "residual" => Told(current)

TellInv ==
  BookInv /\ TurnIsInOrder /\ OthersAreTold /\ FillsAreTrue /\ TurnIsTold

\* A change of status with its event tells the order and leaves the others alone.
LEMMA TellTells ==
  ASSUME TypeOK, NEW o \in known, NEW s \in Statuses \ {"NEW"}, Tell(o, s, s),
         assigned' = assigned
  PROVE  /\ Told(o)'
         /\ \A p \in known \ {o} : heard'[p] = heard[p] /\ status'[p] = status[p]
<1>1. o \in DOMAIN status /\ o \in DOMAIN heard /\ known \subseteq WorkOrders
  BY DEF TypeOK
<1>2. status'[o] = s /\ heard'[o] = Event(s, s, assigned[o])
  BY <1>1 DEF Tell
<1>3. \A p \in known \ {o} : heard'[p] = heard[p] /\ status'[p] = status[p]
  BY <1>1 DEF Tell
<1> QED
  BY <1>2, <1>3 DEF Told, Event

\* While nothing waits to be announced all the others are told.
LEMMA NothingAwaited ==
  ASSUME TypeOK, TurnIsInOrder, OthersAreTold,
         phase \in {"idle", "entered", "admitted", "settling", "residual"}
  PROVE  \A o \in known \ {current} : Told(o)
<1>1. said \in Nat /\ Len(fills) \in Nat /\ said =< Len(fills) /\ Len(<<>>) = 0
  BY DEF TypeOK
<1>2. said = Len(fills)
  BY <1>1 DEF TurnIsInOrder
<1>3. (said + 1)..Len(fills) = {}
  BY <1>1, <1>2
<1> QED
  BY <1>3 DEF OthersAreTold, IsAwaited

\* Without assignments in the turn it is enough that the others are told.
LEMMA NoFills ==
  ASSUME fills' = <<>>, said' = 0, (\A o \in known \ {current} : Told(o))'
  PROVE  OthersAreTold' /\ FillsAreTrue'
<1>1. Len(<<>>) = 0
  OBVIOUS
<1> QED
  BY <1>1 DEF OthersAreTold, FillsAreTrue

\* A turn that ends has told its order.
LEMMA EndTold ==
  ASSUME TypeOK, TurnIsInOrder, OthersAreTold, EndTurn,
         phase \in {"entered", "admitted", "settling", "residual"},
         known' = known, assigned' = assigned, NEW c \in known, c = current, Told(c)',
         \A p \in known \ {c} : heard'[p] = heard[p] /\ status'[p] = status[p]
  PROVE  OthersAreTold' /\ FillsAreTrue' /\ TurnIsTold'
<1>1. \A p \in known \ {c} : Told(p)
  BY NothingAwaited
<1>2. \A p \in known \ {c} : Told(p)'
  BY <1>1 DEF Told
<1>3. (\A o \in known \ {current} : Told(o))'
  BY <1>2
<1>4. fills' = <<>> /\ said' = 0 /\ phase' = "idle"
  BY DEF EndTurn
<1>5. OthersAreTold' /\ FillsAreTrue'
  BY <1>3, <1>4, NoFills
<1> QED
  BY <1>4, <1>5 DEF TurnIsTold

\* The steps that end a turn.
LEMMA EndingTold ==
  ASSUME TellInv,
         Reject \/ StandDownComplete \/ SettleAssigned \/ StandDownResidual
           \/ CheckRaises \/ Rest
  PROVE  OthersAreTold' /\ FillsAreTrue' /\ TurnIsTold'
<1>1. TypeOK /\ TurnIsInOrder /\ OthersAreTold /\ TurnIsTold
  BY DEF TellInv, BookInv
<1>2. /\ EndTurn /\ known' = known /\ assigned' = assigned
      /\ phase \in {"entered", "admitted", "settling", "residual"}
  BY DEF Reject, StandDownComplete, SettleAssigned, StandDownResidual, CheckRaises, Rest,
         book
<1>3. PICK c \in known : c = current
  BY <1>1, <1>2 DEF TypeOK
<1>4. CASE Reject \/ StandDownComplete \/ SettleAssigned \/ StandDownResidual
  <2>1. \E s \in Statuses \ {"NEW"} : Tell(c, s, s)
    BY <1>3, <1>4
    DEF Reject, StandDownComplete, SettleAssigned, StandDownResidual, Statuses
  <2> QED
    BY <1>1, <1>2, <1>3, <2>1, TellTells, EndTold
<1>5. CASE CheckRaises \/ Rest
  <2>1. heard' = heard /\ status' = status
    BY <1>5 DEF CheckRaises, Rest
  <2>2. Told(c)
    BY <1>1, <1>3, <1>5 DEF CheckRaises, Rest, Admissible, TurnIsTold, Told, Event
  <2>3. Told(c)'
    BY <1>2, <2>1, <2>2 DEF Told
  <2> QED
    BY <1>1, <1>2, <1>3, <2>1, <2>3, EndTold
<1> QED
  BY <1>4, <1>5

\* A submission is told as it comes in.
LEMMA SubmitTold ==
  ASSUME TellInv, NEW o \in WorkOrders, NEW w \in Submissions, Submit(o, w)
  PROVE  OthersAreTold' /\ FillsAreTrue' /\ TurnIsTold'
<1>1. TypeOK /\ TurnIsInOrder /\ OthersAreTold
  BY DEF TellInv, BookInv
<1>2. /\ o \notin known /\ known' = known \cup {o} /\ current' = o
      /\ phase = "idle" /\ phase' = "entered" /\ fills' = fills /\ said' = said
  BY DEF Submit, IsFresh
<1>3. current = None /\ known \subseteq WorkOrders /\ None \notin WorkOrders
  BY <1>1, <1>2, EngineAssumption DEF TypeOK
<1>4. /\ status'[o] = w.status /\ assigned'[o] = 0
      /\ heard'[o] = Event("SUBMITTED", w.status, 0)
      /\ \A p \in known : /\ heard'[p] = heard[p] /\ status'[p] = status[p]
                          /\ assigned'[p] = assigned[p]
  BY <1>1, <1>2, <1>3 DEF Submit, TypeOK
<1>5. \A p \in known : Told(p)
  BY <1>1, <1>2, <1>3, NothingAwaited
<1>6. \A p \in known : Told(p)'
  BY <1>4, <1>5 DEF Told
<1>7. (\A p \in known \ {current} : Told(p))'
  BY <1>2, <1>6
<1>8. fills = <<>> /\ said = 0
  <2>1. fills = <<>> /\ Len(<<>>) = 0
    BY <1>1, <1>2 DEF TurnIsInOrder
  <2> QED
    BY <1>1, <2>1 DEF TypeOK
<1> QED
  BY <1>2, <1>4, <1>7, <1>8, NoFills DEF TurnIsTold

\* Where nothing changes about an order or the turn nothing has to be told.
LEMMA QuietTold ==
  ASSUME TellInv,
         UNCHANGED <<known, order, status, assigned, heard, current, fills, said>>,
         \/ phase' = phase
         \/ phase = "admitted" /\ phase' = "matching"
         \/ phase = "matching" /\ phase' = "announcing"
         \/ phase = "announcing" /\ phase' = "settling"
  PROVE  OthersAreTold' /\ FillsAreTrue' /\ TurnIsTold'
<1>1. OthersAreTold /\ FillsAreTrue /\ TurnIsTold
  BY DEF TellInv
<1>2. OthersAreTold'
  BY <1>1 DEF OthersAreTold, IsAwaited, Told
<1>3. FillsAreTrue'
  BY <1>1 DEF FillsAreTrue, TypeOfFill, FullyAssigned
<1>4. \A o : Told(o)' <=> Told(o)
  BY DEF Told
<1>5. TurnIsTold'
  BY <1>1, <1>4 DEF TurnIsTold
<1> QED
  BY <1>2, <1>3, <1>5

\* The order of the turn is told of a step on its way.
LEMMA OnwardTold ==
  ASSUME TellInv, Admit \/ SettlePartial
  PROVE  OthersAreTold' /\ FillsAreTrue' /\ TurnIsTold'
<1>1. TypeOK /\ TurnIsInOrder /\ OthersAreTold /\ FillsAreTrue /\ TurnIsTold
  BY DEF TellInv, BookInv
<1>2. /\ UNCHANGED <<known, order, assigned, current, fills, said>>
      /\ \/ phase = "entered" /\ phase' = "admitted"
         \/ phase = "settling" /\ phase' = "residual"
  BY DEF Admit, SettlePartial, GoTo, book
<1>3. PICK c \in known : c = current
  BY <1>1, <1>2 DEF TypeOK
<1>4. /\ Told(c)'
      /\ \A p \in known \ {c} : heard'[p] = heard[p] /\ status'[p] = status[p]
  <2>1. CASE UNCHANGED <<status, heard>> /\ ~Admit
    <3>1. Told(c)
      <4>1. fills = <<>> \/ \E s \in Statuses \ {"NEW"} : Tell(c, s, s)
        BY <1>3, <2>1 DEF SettlePartial, Statuses
      <4>2. CASE fills = <<>>
        BY <1>1, <1>3, <2>1, <4>2 DEF SettlePartial, TurnIsTold
      <4>3. CASE \E s \in Statuses \ {"NEW"} : Tell(c, s, s)
        <5>1. Told(c)'
          BY <1>1, <1>2, <1>3, <4>3, TellTells
        <5> QED
          BY <1>2, <2>1, <5>1 DEF Told
      <4> QED
        BY <4>1, <4>2, <4>3
    <3> QED
      BY <1>2, <2>1, <3>1 DEF Told
  <2>2. CASE \E s \in Statuses \ {"NEW"} : Tell(c, s, s)
    BY <1>1, <1>2, <1>3, <2>2, TellTells
  <2>3. \/ UNCHANGED <<status, heard>> /\ ~Admit
        \/ \E s \in Statuses \ {"NEW"} : Tell(c, s, s)
    BY <1>3 DEF Admit, SettlePartial, Statuses
  <2> QED
    BY <2>1, <2>2, <2>3
<1>5. \A p \in known \ {c} : Told(p) => Told(p)'
  BY <1>2, <1>4 DEF Told
<1>6. OthersAreTold'
  BY <1>1, <1>2, <1>3, <1>5 DEF OthersAreTold, IsAwaited
<1>7. FillsAreTrue'
  BY <1>1, <1>2, <1>3, <1>4 DEF FillsAreTrue, TypeOfFill, FullyAssigned
<1>8. TurnIsTold'
  BY <1>2, <1>3, <1>4 DEF TurnIsTold
<1> QED
  BY <1>6, <1>7, <1>8

\* A cancellation tells the order it withdraws.
LEMMA CancelTold ==
  ASSUME TellInv, NEW o \in WorkOrders, NEW scope \in Scopes, Cancel(o, scope)
  PROVE  OthersAreTold' /\ FillsAreTrue' /\ TurnIsTold'
<1>1. TypeOK /\ TurnIsInOrder /\ OthersAreTold
  BY DEF TellInv, BookInv
<1>2. /\ UNCHANGED <<known, order, assigned, phase, current, fills, said>>
      /\ phase = "idle" /\ Tell(o, "CANCELLED", "CANCELLED")
  BY DEF Cancel, book, turn
<1>3. o \in known
  <2>1. \E a \in scope : o \in resting[a]
    BY DEF Cancel
  <2>2. scope \subseteq Assets
    BY DEF Scopes
  <2> QED
    BY <1>1, <2>1, <2>2 DEF TypeOK
<1>4. "CANCELLED" \in Statuses \ {"NEW"}
  BY DEF Statuses
<1>5. /\ Told(o)'
      /\ \A p \in known \ {o} : heard'[p] = heard[p] /\ status'[p] = status[p]
  BY <1>1, <1>2, <1>3, <1>4, TellTells
<1>6. \A p \in known \ {current} : Told(p)
  BY <1>1, <1>2, NothingAwaited
<1>7. \A p \in known \ {current} : Told(p)'
  BY <1>2, <1>5, <1>6 DEF Told
<1>8. (\A p \in known \ {current} : Told(p))'
  BY <1>2, <1>7
<1>9. fills' = <<>> /\ said' = 0
  <2>1. fills = <<>> /\ Len(<<>>) = 0
    BY <1>1, <1>2 DEF TurnIsInOrder
  <2> QED
    BY <1>1, <1>2, <2>1 DEF TypeOK
<1> QED
  BY <1>2, <1>8, <1>9, NoFills DEF TurnIsTold

\* What a round of the match does to the resting order waits to be announced.
LEMMA MatchTold ==
  ASSUME TellInv, NEW r \in WorkOrders, Match(r)
  PROVE  OthersAreTold' /\ FillsAreTrue' /\ TurnIsTold'
<1> DEFINE d == Assignment(current, r)
<1>1. TypeOK /\ OthersAreTold /\ FillsAreTrue
  BY DEF TellInv, BookInv
<1>2. /\ current \in known /\ r \in known /\ d \in Assignments
      /\ order[current] \in WorkOrder /\ order[r] \in WorkOrder
  BY <1>1, DealtHours
<1>3. d.resting = r
  BY DEF Assignment
<1>4. current # r
  BY <1>2 DEF Match, Counterparts, Line, Opposite, WorkOrder, Sides
<1>5. /\ fills' = Append(fills, d) /\ UNCHANGED <<known, order, heard, current, said>>
      /\ phase' = "matching"
      /\ status' = [status EXCEPT ![r] =
                      IF assigned[r] + d.hours >= order[r].hours THEN "ASSIGNED"
                      ELSE "PARTIALLY_ASSIGNED"]
      /\ assigned' = [assigned EXCEPT ![current] = @ + d.hours, ![r] = @ + d.hours]
  BY DEF Match, book
<1> HIDE DEF d
<1>6. /\ assigned'[r] = assigned[r] + d.hours
      /\ status'[r] = IF assigned[r] + d.hours >= order[r].hours THEN "ASSIGNED"
                      ELSE "PARTIALLY_ASSIGNED"
      /\ \A p \in known \ {current, r} :
           status'[p] = status[p] /\ assigned'[p] = assigned[p]
  BY <1>1, <1>2, <1>4, <1>5 DEF TypeOK
<1>7. /\ Len(fills') = Len(fills) + 1 /\ fills'[Len(fills) + 1] = d
      /\ \A i \in 1..Len(fills) : fills'[i] = fills[i]
      /\ Len(fills) \in Nat /\ 1..Len(fills) + 1 = 1..Len(fills) \cup {Len(fills) + 1}
      /\ said \in Nat /\ said =< Len(fills)
  <2>1. fills \in Seq(Assignments) /\ said \in 0..Len(fills)
    BY <1>1 DEF TypeOK
  <2> QED
    BY <1>2, <1>5, <2>1, Appended
<1>8. status'[r] = TypeOfFill(r)'
  BY <1>5, <1>6 DEF TypeOfFill, FullyAssigned
<1>9. OthersAreTold'
  <2> SUFFICES ASSUME NEW p \in known \ {current} PROVE Told(p)' \/ IsAwaited(p)'
    BY <1>5 DEF OthersAreTold
  <2>1. CASE p = r
    <3>1. Len(fills) + 1 \in (said' + 1)..Len(fills')
      BY <1>5, <1>7
    <3> QED
      BY <1>3, <1>7, <2>1, <3>1 DEF IsAwaited
  <2>2. CASE p # r /\ Told(p)
    BY <1>5, <1>6, <2>2 DEF Told
  <2>3. CASE IsAwaited(p)
    <3>1. PICK i \in (said + 1)..Len(fills) : fills[i].resting = p
      BY <2>3 DEF IsAwaited
    <3>2. i \in (said' + 1)..Len(fills') /\ i \in 1..Len(fills)
      BY <1>5, <1>7
    <3> QED
      BY <1>7, <3>1, <3>2 DEF IsAwaited
  <2> QED
    BY <1>1, <2>1, <2>2, <2>3 DEF OthersAreTold
<1>10. FillsAreTrue'
  <2> SUFFICES ASSUME NEW i \in 1..Len(fills'), NEW p, p = fills'[i].resting
               PROVE  p \in known \ {current} /\ status'[p] = TypeOfFill(p)'
    BY <1>5 DEF FillsAreTrue, TypeOfFill, FullyAssigned
  <2>1. CASE i = Len(fills) + 1
    BY <1>2, <1>3, <1>4, <1>7, <1>8, <2>1
  <2>2. CASE i \in 1..Len(fills)
    <3>1. p \in known \ {current} /\ status[p] = TypeOfFill(p)
      BY <1>1, <1>7, <2>2 DEF FillsAreTrue
    <3> QED
      BY <1>5, <1>6, <1>8, <3>1 DEF TypeOfFill, FullyAssigned
  <2> QED
    BY <1>7, <2>1, <2>2
<1>11. TurnIsTold'
  <2>1. fills' # <<>>
    <3>1. Len(<<>>) = 0
      OBVIOUS
    <3> QED
      BY <1>7, <3>1
  <2> QED
    BY <1>5, <2>1 DEF TurnIsTold
<1> QED
  BY <1>9, <1>10, <1>11

\* An announcement tells the resting order that it is about.
LEMMA AnnounceTold ==
  ASSUME TellInv, Announce
  PROVE  OthersAreTold' /\ FillsAreTrue' /\ TurnIsTold'
<1>1. TypeOK /\ OthersAreTold /\ FillsAreTrue /\ TurnIsTold
  BY DEF TellInv, BookInv
<1>2. said \in Nat /\ Len(fills) \in Nat /\ said + 1 \in 1..Len(fills)
  BY <1>1 DEF Announce, TypeOK
<1>3. PICK r \in known \ {current} :
        ToAnnounce.resting = r /\ status[r] = TypeOfFill(r) /\ fills[said + 1].resting = r
  BY <1>1, <1>2 DEF FillsAreTrue, ToAnnounce
<1>4. /\ UNCHANGED <<known, order, status, assigned, phase, current, fills>>
      /\ phase = "announcing" /\ said' = said + 1
      /\ heard' = [heard EXCEPT ![r] = Event(TypeOfFill(r), status[r], assigned[r])]
  BY <1>3 DEF Announce, book
<1>5. /\ heard'[r] = Event(TypeOfFill(r), status[r], assigned[r])
      /\ \A p \in known \ {r} : heard'[p] = heard[p]
  BY <1>1, <1>3, <1>4 DEF TypeOK
<1>6. Told(r)'
  BY <1>3, <1>4, <1>5 DEF Told, Event, TypeOfFill
<1>7. \A p \in known \ {r} : Told(p)' <=> Told(p)
  BY <1>4, <1>5 DEF Told
<1>8. OthersAreTold'
  <2> SUFFICES ASSUME NEW p \in known \ {current} PROVE Told(p)' \/ IsAwaited(p)'
    BY <1>4 DEF OthersAreTold
  <2>1. CASE p = r
    BY <1>6, <2>1
  <2>2. CASE p # r /\ Told(p)
    BY <1>7, <2>2
  <2>3. CASE p # r /\ IsAwaited(p)
    <3>1. PICK i \in (said + 1)..Len(fills) : fills[i].resting = p
      BY <2>3 DEF IsAwaited
    <3>2. i # said + 1
      BY <1>3, <2>3, <3>1
    <3>3. i \in (said' + 1)..Len(fills')
      BY <1>2, <1>4, <3>2
    <3> QED
      BY <1>4, <3>1, <3>3 DEF IsAwaited
  <2> QED
    BY <1>1, <2>1, <2>2, <2>3 DEF OthersAreTold
<1>9. FillsAreTrue'
  BY <1>1, <1>4 DEF FillsAreTrue, TypeOfFill, FullyAssigned
<1>10. TurnIsTold'
  <2>1. current \in known \ {r}
    BY <1>1, <1>3, <1>4 DEF TypeOK
  <2> QED
    BY <1>1, <1>4, <1>7, <2>1 DEF TurnIsTold
<1> QED
  BY <1>8, <1>9, <1>10

\* Every step keeps what is told.
LEMMA ToldStep ==
  ASSUME TellInv, [Next]_vars
  PROVE  OthersAreTold' /\ FillsAreTrue' /\ TurnIsTold'
<1>1. CASE UNCHANGED vars
  BY <1>1, QuietTold DEF vars
<1>2. ASSUME NEW a \in Assets, NEW reading \in Readings, ApplyReading(a, reading)
      PROVE  OthersAreTold' /\ FillsAreTrue' /\ TurnIsTold'
  BY <1>2, QuietTold DEF ApplyReading, book, turn
<1>3. CASE BeginMatch \/ EndMatch \/ Reprice
  BY <1>3, QuietTold DEF BeginMatch, EndMatch, Reprice, GoTo, book
<1>4. CASE Step
  BY <1>3, <1>4, EndingTold, OnwardTold, MatchTold, AnnounceTold DEF Step
<1> QED
  BY <1>1, <1>2, <1>4, SubmitTold, CancelTold DEF Next, SubmitDuplicate, CancelNothing

\* The inductive invariant of what is told: at every moment of a turn each order is
\* told, or is the turn's, or waits in the assignments still to be announced
\* (_finalise and _publish_resting_assignment, engine.py:355-413 and 616).
THEOREM AlwaysTold == Spec => []TellInv
<1>1. Init => OthersAreTold /\ FillsAreTrue /\ TurnIsTold
  <2>1. Len(<<>>) = 0
    OBVIOUS
  <2> QED
    BY <2>1 DEF Init, OthersAreTold, FillsAreTrue, TurnIsTold
<1>2. DealInv => BookInv /\ TurnIsInOrder
  BY DEF DealInv
<1>3. TellInv <=> BookInv /\ TurnIsInOrder /\ OthersAreTold /\ FillsAreTrue /\ TurnIsTold
  BY DEF TellInv
<1>4. TellInv /\ [Next]_vars => OthersAreTold' /\ FillsAreTrue' /\ TurnIsTold'
  BY ToldStep
<1> QED
  BY <1>1, <1>2, <1>3, <1>4, DealsAlwaysFair, PTL DEF Spec

\* Between turns whoever followed the events knows every order as it is
\* (engine.py:355-413 and 616).
THEOREM EventsAlwaysTellState == Spec => []EventsTellState
<1>1. ASSUME TellInv PROVE EventsTellState
  <2> SUFFICES ASSUME phase = "idle" PROVE \A o \in known : Told(o)
    BY DEF EventsTellState, Told
  <2>1. TypeOK /\ TurnIsInOrder /\ OthersAreTold
    BY <1>1 DEF TellInv, BookInv
  <2>2. known \ {current} = known
    BY <2>1, EngineAssumption DEF TypeOK
  <2> QED
    BY <2>1, <2>2, NothingAwaited
<1> QED
  BY <1>1, AlwaysTold, PTL

-----------------------------------------------------------------------------
\* How open workloads are marked

\* The mark of an asset is a reading or the last rate that the log has of it.
IsLastMark(a, m) ==
  \/ m \in Readings
  \/ \E i \in 1..Len(log) :
       /\ log[i].asset = a /\ log[i].rate = m
       /\ \A j \in (i + 1)..Len(log) : log[j].asset # a

\* The open workloads of an asset carry one mark.
IsMarked(a) ==
  \A g \in Orgs :
    net[g][a] # 0 =>
      /\ \A h \in Orgs : net[h][a] # 0 => mark[h][a] = mark[g][a]
      /\ IsLastMark(a, mark[g][a])

\* The turn has dealt at the asset and has not marked it yet.
IsUnsettled(a) ==
  /\ phase \in {"matching", "announcing"}
  /\ fills # <<>>
  /\ order[current].asset = a

AssetsAreMarked == \A a \in Assets : IsMarked(a) \/ IsUnsettled(a)

\* A turn deals at its own asset, and what it has announced ends the log.
TurnIsLogged ==
  /\ \A i \in 1..Len(fills) : fills[i].asset = order[current].asset
  /\ phase = "announcing" /\ said > 0 => Len(log) > 0 /\ log[Len(log)] = fills[said]
  /\ phase = "matching" => said = 0

MarkInv == BookInv /\ TurnIsInOrder /\ AssetsAreMarked /\ TurnIsLogged

\* Where the workloads and the log stay the marks do.
LEMMA MarkKept ==
  ASSUME AssetsAreMarked, UNCHANGED ledger,
         \A a \in Assets : IsUnsettled(a) => IsUnsettled(a)'
  PROVE  AssetsAreMarked'
BY DEF AssetsAreMarked, IsMarked, IsLastMark, ledger

\* The steps of a turn that neither deal nor announce nor mark.
LEMMA OtherStepsMarked ==
  ASSUME MarkInv, Step, ~Announce, ~Reprice, ~\E r \in WorkOrders : Match(r)
  PROVE  AssetsAreMarked' /\ TurnIsLogged'
<1>1. TypeOK /\ TurnIsInOrder /\ AssetsAreMarked /\ TurnIsLogged
  BY DEF MarkInv, BookInv
<1>2. CASE EndTurn
  <2>1. /\ UNCHANGED ledger
        /\ phase \in {"entered", "admitted", "settling", "residual"}
    BY <1>2
    DEF Step, Reject, CheckRaises, Admit, StandDownComplete, BeginMatch, EndMatch,
        SettleAssigned, SettlePartial, Rest, StandDownResidual, EndTurn, GoTo
  <2>2. AssetsAreMarked'
    BY <1>1, <2>1, MarkKept DEF IsUnsettled
  <2>3. fills' = <<>> /\ phase' = "idle" /\ Len(<<>>) = 0
    BY <1>2 DEF EndTurn
  <2> QED
    BY <2>2, <2>3 DEF TurnIsLogged
<1>3. CASE ~EndTurn
  <2>1. /\ UNCHANGED <<order, ledger, current, fills, said>>
        /\ \/ phase = "entered" /\ phase' = "admitted"
           \/ phase = "admitted" /\ phase' = "matching"
           \/ phase = "matching" /\ phase' = "announcing"
           \/ phase = "settling" /\ phase' = "residual"
    BY <1>3
    DEF Step, Reject, CheckRaises, Admit, StandDownComplete, BeginMatch, EndMatch,
        SettleAssigned, SettlePartial, Rest, StandDownResidual, GoTo, book
  <2>2. AssetsAreMarked'
    BY <1>1, <2>1, MarkKept DEF IsUnsettled
  <2>3. phase = "admitted" => said = 0
    <3>1. Len(<<>>) = 0
      OBVIOUS
    <3> QED
      BY <1>1, <3>1 DEF TurnIsInOrder, TypeOK
  <2>4. TurnIsLogged'
    BY <1>1, <2>1, <2>3 DEF TurnIsLogged
  <2> QED
    BY <2>2, <2>4
<1> QED
  BY <1>2, <1>3

\* A round of the match leaves the workloads of other assets alone.
LEMMA MatchMarked ==
  ASSUME MarkInv, NEW r \in WorkOrders, Match(r)
  PROVE  AssetsAreMarked' /\ TurnIsLogged'
<1> DEFINE d == Assignment(current, r)
<1>1. TypeOK /\ AssetsAreMarked /\ TurnIsLogged
  BY DEF MarkInv, BookInv
<1>2. d \in Assignments /\ d.asset = order[current].asset
  BY <1>1, DealtHours DEF Assignment
<1>3. /\ fills' = Append(fills, d) /\ net' = Applied(d) /\ mark' = MarkedBy(d)
      /\ UNCHANGED <<order, log, current, said, phase>> /\ phase = "matching"
  BY DEF Match, book
<1> HIDE DEF d
<1>4. /\ Len(fills') = Len(fills) + 1 /\ fills'[Len(fills) + 1] = d
      /\ \A i \in 1..Len(fills) : fills'[i] = fills[i]
      /\ Len(fills) \in Nat /\ 1..Len(fills) + 1 = 1..Len(fills) \cup {Len(fills) + 1}
  BY <1>1, <1>2, <1>3, Appended DEF TypeOK
<1>5. fills' # <<>>
  <2>1. Len(<<>>) = 0
    OBVIOUS
  <2> QED
    BY <1>4, <2>1
<1>6. TurnIsLogged'
  BY <1>1, <1>2, <1>3, <1>4 DEF TurnIsLogged
<1>7. ASSUME NEW a \in Assets PROVE IsMarked(a)' \/ IsUnsettled(a)'
  <2>1. CASE order[current].asset = a
    BY <1>3, <1>5, <2>1 DEF IsUnsettled
  <2>2. CASE order[current].asset # a
    <3>1. \A g \in Orgs : net'[g][a] = net[g][a] /\ mark'[g][a] = mark[g][a]
      BY <1>1, <1>2, <1>3, <2>2 DEF Applied, MarkedBy, TypeOK
    <3>2. IsMarked(a)
      BY <1>1, <2>2 DEF AssetsAreMarked, IsUnsettled
    <3> QED
      BY <1>3, <3>1, <3>2 DEF IsMarked, IsLastMark
  <2> QED
    BY <2>1, <2>2
<1> QED
  BY <1>6, <1>7 DEF AssetsAreMarked

\* An announcement ends the log with an assignment at the asset of the turn.
LEMMA AnnounceMarked ==
  ASSUME MarkInv, Announce
  PROVE  AssetsAreMarked' /\ TurnIsLogged'
<1> DEFINE d == ToAnnounce
<1>1. TypeOK /\ AssetsAreMarked /\ TurnIsLogged
  BY DEF MarkInv, BookInv
<1>2. /\ said \in Nat /\ Len(fills) \in Nat /\ said + 1 \in 1..Len(fills)
      /\ fills \in Seq(Assignments) /\ log \in Seq(Assignments)
  BY <1>1 DEF Announce, TypeOK
<1>3. d \in Assignments /\ d.asset = order[current].asset /\ d = fills[said + 1]
  BY <1>1, <1>2 DEF ToAnnounce, TurnIsLogged
<1>4. /\ log' = Append(log, d) /\ said' = said + 1 /\ phase = "announcing"
      /\ UNCHANGED <<order, net, mark, current, fills, phase>>
  BY DEF Announce, book
<1> HIDE DEF d
<1>5. /\ Len(log') = Len(log) + 1 /\ log'[Len(log) + 1] = d
      /\ \A i \in 1..Len(log) : log'[i] = log[i]
      /\ Len(log) \in Nat /\ 1..Len(log) + 1 = 1..Len(log) \cup {Len(log) + 1}
  BY <1>2, <1>3, <1>4, Appended
<1>6. TurnIsLogged'
  BY <1>1, <1>2, <1>3, <1>4, <1>5 DEF TurnIsLogged
<1>7. ASSUME NEW a \in Assets PROVE IsMarked(a)' \/ IsUnsettled(a)'
  <2>1. CASE order[current].asset = a
    <3>1. fills # <<>>
      <4>1. Len(<<>>) = 0
        OBVIOUS
      <4> QED
        BY <1>2, <4>1
    <3> QED
      BY <1>4, <2>1, <3>1 DEF IsUnsettled
  <2>2. CASE order[current].asset # a
    <3>1. IsMarked(a)
      BY <1>1, <2>2 DEF AssetsAreMarked, IsUnsettled
    <3>2. ASSUME NEW m, IsLastMark(a, m) PROVE IsLastMark(a, m)'
      <4>1. CASE m \in Readings
        BY <4>1 DEF IsLastMark
      <4>2. CASE m \notin Readings
        <5>1. PICK i \in 1..Len(log) :
                /\ log[i].asset = a /\ log[i].rate = m
                /\ \A j \in (i + 1)..Len(log) : log[j].asset # a
          BY <3>2, <4>2 DEF IsLastMark
        <5>2. i \in 1..Len(log') /\ log'[i] = log[i]
          BY <1>5
        <5>3. \A j \in (i + 1)..Len(log') : log'[j].asset # a
          <6> DEFINE n == Len(log)
          <6>1. n \in Nat /\ i \in 1..n /\ Len(log') = n + 1
            BY <1>5
          <6> HIDE DEF n
          <6>2. \A j \in (i + 1)..(n + 1) :
                  j = n + 1 \/ (j \in 1..n /\ j \in (i + 1)..n)
            BY <6>1
          <6>3. \A j \in (i + 1)..Len(log') :
                  j = Len(log) + 1 \/ (j \in 1..Len(log) /\ j \in (i + 1)..Len(log))
            BY <6>1, <6>2 DEF n
          <6> QED
            BY <1>3, <1>5, <2>2, <5>1, <6>3
        <5> QED
          BY <5>1, <5>2, <5>3 DEF IsLastMark
      <4> QED
        BY <4>1, <4>2
    <3>3. \A g \in Orgs : net'[g][a] = net[g][a] /\ mark'[g][a] = mark[g][a]
      BY <1>4
    <3>4. ASSUME NEW g \in Orgs, net[g][a] # 0
          PROVE  /\ \A h \in Orgs : net'[h][a] # 0 => mark'[h][a] = mark'[g][a]
                 /\ IsLastMark(a, mark[g][a])'
      <4>1. /\ \A h \in Orgs : net[h][a] # 0 => mark[h][a] = mark[g][a]
            /\ IsLastMark(a, mark[g][a])
        BY <3>1, <3>4 DEF IsMarked
      <4>2. PICK m : m = mark[g][a]
        OBVIOUS
      <4>3. IsLastMark(a, m)'
        BY <3>2, <4>1, <4>2
      <4> QED
        BY <3>3, <4>1, <4>2, <4>3 DEF IsLastMark
    <3> QED
      BY <3>3, <3>4 DEF IsMarked
  <2> QED
    BY <2>1, <2>2
<1> QED
  BY <1>6, <1>7 DEF AssetsAreMarked

\* A mark given to all open workloads of an asset leaves the other assets alone.
LEMMA OpenMarkedMarks ==
  ASSUME TypeOK, NEW x \in Assets, NEW m, mark' = OpenMarked(x, m), net' = net, log' = log,
         \A a \in Assets \ {x} : IsMarked(a), IsLastMark(x, m)
  PROVE  \A a \in Assets : IsMarked(a)'
<1>1. ASSUME NEW a \in Assets, a # x PROVE IsMarked(a)'
  <2>1. \A g \in Orgs : mark'[g][a] = mark[g][a]
    BY <1>1 DEF OpenMarked, TypeOK
  <2>2. IsMarked(a)
    BY <1>1
  <2> QED
    BY <2>1, <2>2 DEF IsMarked, IsLastMark
<1>2. IsMarked(x)'
  <2>1. \A g \in Orgs : net[g][x] # 0 => mark'[g][x] = m
    BY DEF OpenMarked, TypeOK
  <2> QED
    BY <2>1 DEF IsMarked, IsLastMark
<1> QED
  BY <1>1, <1>2

\* The turn marks its asset at the rate that it dealt at last.
LEMMA RepriceMarked ==
  ASSUME MarkInv, Reprice
  PROVE  AssetsAreMarked' /\ TurnIsLogged'
<1>1. TypeOK /\ AssetsAreMarked /\ TurnIsLogged
  BY DEF MarkInv, BookInv
<1>2. /\ said = Len(fills) /\ phase = "announcing" /\ phase' = "settling"
      /\ UNCHANGED <<order, net, log, current, fills, said>>
  BY DEF Reprice, GoTo, book
<1>3. TurnIsLogged'
  BY <1>1, <1>2 DEF TurnIsLogged
<1>4. CASE fills = <<>>
  <2>1. UNCHANGED ledger
    BY <1>2, <1>4 DEF Reprice, ledger
  <2> QED
    BY <1>1, <1>3, <1>4, <2>1, MarkKept DEF IsUnsettled
<1>5. CASE fills # <<>>
  <2>1. PICK x \in Assets : x = order[current].asset
    BY <1>1, <1>2 DEF TypeOK, WorkOrder
  <2>2. PICK m : m = LastRate
    OBVIOUS
  <2>3. mark' = OpenMarked(x, m)
    BY <1>5, <2>1, <2>2 DEF Reprice
  <2>4. \A a \in Assets \ {x} : IsMarked(a)
    BY <1>1, <2>1 DEF AssetsAreMarked, IsUnsettled
  <2>5. IsLastMark(x, m)
    <3>1. Len(fills) \in Nat /\ Len(fills) > 0 /\ Len(log) \in Nat
      BY <1>1, <1>5 DEF TypeOK
    <3>2. Len(log) > 0 /\ log[Len(log)] = fills[Len(fills)]
      BY <1>1, <1>2, <3>1 DEF TurnIsLogged
    <3>3. fills[Len(fills)].asset = x
      BY <1>1, <2>1, <3>1 DEF TurnIsLogged
    <3>4. Len(log) \in 1..Len(log) /\ (Len(log) + 1)..Len(log) = {}
      BY <3>1, <3>2
    <3> QED
      BY <2>2, <3>2, <3>3, <3>4 DEF IsLastMark, LastRate
  <2>6. \A a \in Assets : IsMarked(a)'
    BY <1>1, <1>2, <2>3, <2>4, <2>5, OpenMarkedMarks
  <2> QED
    BY <1>3, <2>6 DEF AssetsAreMarked
<1> QED
  BY <1>4, <1>5

\* Outside of turns orders come and go and readings mark.
LEMMA IdleMarked ==
  ASSUME MarkInv, phase = "idle", [Next]_vars
  PROVE  AssetsAreMarked' /\ TurnIsLogged'
<1>1. TypeOK /\ AssetsAreMarked /\ fills = <<>> /\ Len(fills) = 0
  <2>1. Len(<<>>) = 0
    OBVIOUS
  <2> QED
    BY <2>1 DEF MarkInv, BookInv, TurnIsInOrder
<1>2. /\ fills' = fills /\ phase' \in {"idle", "entered"}
      /\ \/ UNCHANGED ledger
         \/ \E a \in Assets, reading \in Readings : ApplyReading(a, reading)
  BY DEF Next, Step, Submit, SubmitDuplicate, Cancel, CancelNothing, ApplyReading, Reject,
         CheckRaises, Admit, StandDownComplete, BeginMatch, EndMatch, Match, Announce,
         Reprice, SettleAssigned, SettlePartial, Rest, StandDownResidual, ledger, turn,
         vars
<1>3. TurnIsLogged'
  BY <1>1, <1>2 DEF TurnIsLogged
<1>4. CASE UNCHANGED ledger
  BY <1>1, <1>3, <1>4, MarkKept DEF IsUnsettled
<1>5. ASSUME NEW x \in Assets, NEW reading \in Readings, ApplyReading(x, reading)
      PROVE  AssetsAreMarked'
  <2>1. mark' = OpenMarked(x, reading) /\ net' = net /\ log' = log
    BY <1>5 DEF ApplyReading
  <2>2. \A a \in Assets \ {x} : IsMarked(a)
    BY <1>1 DEF AssetsAreMarked, IsUnsettled
  <2>3. IsLastMark(x, reading)
    BY DEF IsLastMark
  <2> QED
    BY <1>1, <2>1, <2>2, <2>3, OpenMarkedMarks DEF AssetsAreMarked
<1> QED
  BY <1>2, <1>3, <1>4, <1>5

\* The inductive invariant of the marks: every asset is marked but that at which the
\* turn has dealt and which it will mark (engine.py:275-354, and reprice_asset, 150-158).
THEOREM AlwaysMarked == Spec => []MarkInv
<1>1. Init => AssetsAreMarked /\ TurnIsLogged
  <2>1. Len(<<>>) = 0
    OBVIOUS
  <2> QED
    BY <2>1 DEF Init, AssetsAreMarked, IsMarked, TurnIsLogged
<1>2. DealInv => BookInv /\ TurnIsInOrder
  BY DEF DealInv
<1>3. MarkInv <=> BookInv /\ TurnIsInOrder /\ AssetsAreMarked /\ TurnIsLogged
  BY DEF MarkInv
<1>4. MarkInv /\ [Next]_vars => AssetsAreMarked' /\ TurnIsLogged'
  <2> SUFFICES ASSUME MarkInv, [Next]_vars, phase # "idle"
               PROVE  AssetsAreMarked' /\ TurnIsLogged'
    BY IdleMarked
  <2>1. CASE UNCHANGED vars
    <3>1. TurnIsLogged'
      BY <2>1 DEF vars, MarkInv, TurnIsLogged
    <3> QED
      BY <2>1, <3>1, MarkKept DEF vars, ledger, MarkInv, IsUnsettled
  <2>2. CASE Step
    BY <2>2, OtherStepsMarked, MatchMarked, AnnounceMarked, RepriceMarked
  <2> QED
    BY <2>1, <2>2
    DEF Next, Submit, SubmitDuplicate, Cancel, CancelNothing, ApplyReading
<1> QED
  BY <1>1, <1>2, <1>3, <1>4, DealsAlwaysFair, PTL DEF Spec

\* Between turns all open workloads of an asset carry one mark, the last reading or
\* the last rate dealt at (engine.py:275-354).
THEOREM MarksAlwaysAtLastRate == Spec => []MarkedAtLastRate
<1>1. MarkInv => MarkedAtLastRate
  BY DEF MarkInv, AssetsAreMarked, IsMarked, IsLastMark, IsUnsettled, MarkedAtLastRate
<1> QED
  BY <1>1, AlwaysMarked, PTL

-----------------------------------------------------------------------------
\* In which portions hours are dealt

\* Sums and differences of whole lots are whole lots.
LEMMA WholeMultiples ==
  ASSUME NEW lot \in Nat \ {0}, NEW x \in Int, NEW y \in Int, x % lot = 0, y % lot = 0
  PROVE  (x - y) % lot = 0 /\ (x + y) % lot = 0 /\ 0 % lot = 0
<1>1. \A z \in Int : z % lot = 0 => \E k \in Int : z = k * lot
  <2> TAKE z \in Int
  <2>1. z = (z \div lot) * lot + (z % lot)
    BY SMTT(30)
  <2>2. z \div lot \in Int
    BY SMTT(30)
  <2> QED
    BY <2>1, <2>2
<1>2. \A k \in Int : (k * lot) % lot = 0
  BY SMTT(30)
<1>3. PICK p \in Int : x = p * lot
  BY <1>1
<1>4. PICK q \in Int : y = q * lot
  BY <1>1
<1>5. x - y = (p - q) * lot /\ x + y = (p + q) * lot /\ 0 = 0 * lot
  BY <1>3, <1>4
<1>6. p - q \in Int /\ p + q \in Int /\ 0 \in Int
  OBVIOUS
<1> QED
  BY <1>2, <1>5, <1>6

\* An order is supported and has whole lots so far.
IsWhole(o) ==
  /\ Supported(order[o])
  /\ DOMAIN Equipment # {} => assigned[o] % Equipment[order[o].asset].lot = 0

\* An assignment is of whole lots at a whole increment.
IsWholeDeal(d) ==
  DOMAIN Equipment # {} =>
    /\ d.hours % Equipment[d.asset].lot = 0
    /\ d.rate % Equipment[d.asset].increment = 0

\* Whatever may be dealt with was found supported first: only the order of a turn
\* that has just begun may call itself active without having been looked at.
ActiveIsWhole ==
  /\ \A o \in known : Active(o) => IsWhole(o) \/ (phase = "entered" /\ o = current)
  /\ phase = "entered" => assigned[current] = 0

DealsAreWhole ==
  /\ \A i \in 1..Len(log) : IsWholeDeal(log[i])
  /\ \A i \in 1..Len(fills) : IsWholeDeal(fills[i])

LotInv == BookInv /\ ActiveIsWhole /\ DealsAreWhole

\* What an order has left is whole when it is.
LEMMA WholeLeft ==
  ASSUME TypeOK, NEW o \in known, IsWhole(o), DOMAIN Equipment # {}
  PROVE  /\ Equipment[order[o].asset].lot \in Nat \ {0}
         /\ Remaining(o) \in Int /\ Remaining(o) % Equipment[order[o].asset].lot = 0
<1>1. order[o].hours \in Int /\ assigned[o] \in Int
  BY DEF TypeOK, WorkOrder
<1> DEFINE lot == Equipment[order[o].asset].lot
<1>2. /\ lot \in Nat \ {0}
      /\ order[o].hours % lot = 0 /\ assigned[o] % lot = 0
  BY EngineAssumption DEF IsWhole, Supported
<1> HIDE DEF lot
<1>3. (order[o].hours - assigned[o]) % lot = 0
  BY <1>1, <1>2, WholeMultiples
<1> QED
  BY <1>1, <1>2, <1>3 DEF Remaining, lot

\* A round of the match deals whole lots and leaves whole lots.
LEMMA MatchIsWhole ==
  ASSUME LotInv, NEW r \in WorkOrders, Match(r)
  PROVE  ActiveIsWhole' /\ DealsAreWhole'
<1> DEFINE d == Assignment(current, r)
<1>1. TypeOK /\ RestingIsLive /\ TurnIsActive /\ ActiveIsWhole /\ DealsAreWhole
  BY DEF LotInv, BookInv
<1>2. /\ current \in known /\ r \in known /\ d \in Assignments
      /\ order[current] \in WorkOrder /\ order[r] \in WorkOrder
      /\ d.hours = HoursDealt(current, r) /\ d.rate = order[r].rate
      /\ d.asset = order[current].asset
  BY <1>1, DealtHours DEF Assignment
<1>3. /\ fills' = Append(fills, d) /\ UNCHANGED <<known, order, log, current, phase>>
      /\ phase = "matching"
      /\ status' = [status EXCEPT ![r] =
                      IF assigned[r] + d.hours >= order[r].hours THEN "ASSIGNED"
                      ELSE "PARTIALLY_ASSIGNED"]
      /\ assigned' = [assigned EXCEPT ![current] = @ + d.hours, ![r] = @ + d.hours]
  BY DEF Match, book
<1>4. /\ r \in resting[order[current].asset] /\ order[current].asset \in Assets
      /\ order[current].side # order[r].side
  BY <1>2 DEF Match, Counterparts, Line, Opposite, WorkOrder, Sides
<1>5. /\ current # r /\ order[r].asset = order[current].asset
      /\ order[r].mode = "RATE_CAPPED" /\ Active(r) /\ Active(current)
  BY <1>1, <1>3, <1>4 DEF RestingIsLive, TurnIsActive, Active
<1>6. IsWhole(r) /\ IsWhole(current)
  BY <1>1, <1>2, <1>3, <1>5 DEF ActiveIsWhole
<1>7. order[r].rate # NoRate
  BY <1>2, <1>5 DEF WorkOrder
<1>8. ASSUME DOMAIN Equipment # {}
      PROVE  /\ d.hours % Equipment[d.asset].lot = 0
             /\ d.rate % Equipment[d.asset].increment = 0
  <2>1. HoursDealt(current, r) % Equipment[d.asset].lot = 0
    BY <1>1, <1>2, <1>5, <1>6, <1>8, WholeLeft DEF HoursDealt
  <2> QED
    BY <1>2, <1>5, <1>6, <1>7, <1>8, <2>1 DEF IsWhole, Supported
<1> HIDE DEF d
<1>9. /\ assigned'[r] = assigned[r] + d.hours
      /\ assigned'[current] = assigned[current] + d.hours
      /\ assigned[r] \in Int /\ assigned[current] \in Int /\ d.hours \in Int
      /\ \A p \in known \ {current, r} :
           status'[p] = status[p] /\ assigned'[p] = assigned[p]
  BY <1>1, <1>2, <1>3, <1>5 DEF TypeOK, Assignments
<1>10. ASSUME DOMAIN Equipment # {}
       PROVE  /\ assigned'[r] % Equipment[d.asset].lot = 0
              /\ assigned'[current] % Equipment[d.asset].lot = 0
  <2> DEFINE lot == Equipment[d.asset].lot
  <2>1. lot \in Nat \ {0}
    BY <1>1, <1>2, <1>6, <1>10, WholeLeft
  <2>2. assigned[r] % lot = 0 /\ assigned[current] % lot = 0 /\ d.hours % lot = 0
    BY <1>2, <1>5, <1>6, <1>8, <1>10 DEF IsWhole
  <2> HIDE DEF lot
  <2>3. (assigned[r] + d.hours) % lot = 0 /\ (assigned[current] + d.hours) % lot = 0
    BY <1>9, <2>1, <2>2, WholeMultiples
  <2> QED
    BY <1>9, <2>3 DEF lot
<1>11. ASSUME NEW p \in known, Active(p)' PROVE IsWhole(p)'
  <2>1. CASE p \in {current, r}
    BY <1>2, <1>3, <1>5, <1>6, <1>10, <2>1 DEF IsWhole
  <2>2. CASE p \notin {current, r}
    <3>1. Active(p)
      BY <1>9, <1>11, <2>2 DEF Active
    <3>2. IsWhole(p)
      BY <1>1, <1>3, <3>1 DEF ActiveIsWhole
    <3> QED
      BY <1>3, <1>9, <2>2, <3>2 DEF IsWhole
  <2> QED
    BY <2>1, <2>2
<1>12. ActiveIsWhole'
  BY <1>3, <1>11 DEF ActiveIsWhole
<1>13. IsWholeDeal(d)
  BY <1>8 DEF IsWholeDeal
<1>14. /\ Len(fills') = Len(fills) + 1 /\ fills'[Len(fills) + 1] = d
       /\ \A i \in 1..Len(fills) : fills'[i] = fills[i]
       /\ Len(fills) \in Nat /\ 1..Len(fills) + 1 = 1..Len(fills) \cup {Len(fills) + 1}
  BY <1>1, <1>2, <1>3, Appended DEF TypeOK
<1>15. DealsAreWhole'
  BY <1>1, <1>3, <1>13, <1>14 DEF DealsAreWhole, IsWholeDeal
<1> QED
  BY <1>12, <1>15

\* What is announced was dealt.
LEMMA AnnounceIsWhole ==
  ASSUME TypeOK, DealsAreWhole, Announce
  PROVE  DealsAreWhole'
<1> DEFINE d == ToAnnounce
<1>1. said + 1 \in 1..Len(fills) /\ fills \in Seq(Assignments) /\ log \in Seq(Assignments)
  BY DEF Announce, TypeOK
<1>2. d \in Assignments /\ IsWholeDeal(d)
  BY <1>1 DEF ToAnnounce, DealsAreWhole
<1>3. log' = Append(log, d) /\ fills' = fills
  BY DEF Announce
<1> HIDE DEF d
<1>4. /\ Len(log') = Len(log) + 1 /\ log'[Len(log) + 1] = d
      /\ \A i \in 1..Len(log) : log'[i] = log[i]
      /\ Len(log) \in Nat /\ 1..Len(log) + 1 = 1..Len(log) \cup {Len(log) + 1}
  BY <1>1, <1>2, <1>3, Appended
<1> QED
  BY <1>2, <1>3, <1>4 DEF DealsAreWhole, IsWholeDeal

\* Every other step makes no order active that was not, but for an admission, which
\* looks at the boundary.
LEMMA LotStep ==
  ASSUME LotInv, [Next]_vars
  PROVE  ActiveIsWhole' /\ DealsAreWhole'
<1>1. TypeOK /\ ActiveIsWhole /\ DealsAreWhole /\ TurnIsActive
  BY DEF LotInv, BookInv
<1>2. ASSUME NEW r \in WorkOrders, Match(r) PROVE ActiveIsWhole' /\ DealsAreWhole'
  BY <1>2, MatchIsWhole
<1>3. ASSUME log' = log, fills' = fills \/ fills' = <<>> PROVE DealsAreWhole'
  <2>1. Len(<<>>) = 0
    OBVIOUS
  <2> QED
    BY <1>1, <1>3, <2>1 DEF DealsAreWhole, IsWholeDeal
<1>4. ASSUME UNCHANGED <<known, order, assigned>>, phase' # "entered",
             \A p \in known : Active(p)' => IsWhole(p)
      PROVE  ActiveIsWhole'
  BY <1>4 DEF ActiveIsWhole, IsWhole
<1>5. ASSUME NEW o \in WorkOrders, NEW w \in Submissions, Submit(o, w)
      PROVE  ActiveIsWhole' /\ DealsAreWhole'
  <2>1. /\ known' = known \cup {o} /\ phase = "idle" /\ phase' = "entered"
        /\ current' = o /\ assigned'[o] = 0 /\ log' = log /\ fills' = fills
    BY <1>1, <1>5 DEF Submit, ledger, TypeOK
  <2>2. \A p \in known : /\ order'[p] = order[p] /\ status'[p] = status[p]
                         /\ assigned'[p] = assigned[p]
    BY <1>1, <1>5 DEF Submit, IsFresh, TypeOK
  <2>3. ActiveIsWhole'
    BY <1>1, <2>1, <2>2 DEF ActiveIsWhole, IsWhole, Active
  <2> QED
    BY <1>3, <2>1, <2>3
<1>6. CASE Step /\ phase = "entered"
  <2>1. /\ UNCHANGED <<known, order, assigned>> /\ phase' # "entered"
        /\ log' = log /\ (fills' = fills \/ fills' = <<>>)
        /\ Reject \/ CheckRaises \/ Admit
    BY <1>6
    DEF Step, Reject, CheckRaises, Admit, StandDownComplete, BeginMatch, EndMatch, Match,
        Announce, Reprice, SettleAssigned, SettlePartial, Rest, StandDownResidual, EndTurn,
        GoTo, book, ledger
  <2>2. PICK c \in known : c = current
    BY <1>1, <1>6 DEF TypeOK
  <2>3. \A p \in known \ {c} : status'[p] = status[p]
    BY <1>1, <2>1, <2>2 DEF Reject, CheckRaises, Admit, Tell, TypeOK
  <2>4. \A p \in known \ {c} : Active(p)' => IsWhole(p)
    BY <1>1, <2>2, <2>3 DEF ActiveIsWhole, Active
  <2>5. Active(c)' => IsWhole(c)
    <3>1. CASE Admit
      <4>1. Supported(order[c]) /\ assigned[c] = 0
        BY <1>1, <1>6, <2>2, <3>1 DEF Admit, Admissible, ActiveIsWhole
      <4>2. DOMAIN Equipment # {} => Equipment[order[c].asset].lot \in Nat \ {0}
        BY <4>1, EngineAssumption DEF Supported
      <4>3. \A lot \in Nat \ {0} : 0 % lot = 0
        OBVIOUS
      <4> QED
        BY <4>1, <4>2, <4>3 DEF IsWhole
    <3>2. CASE Reject
      <4>1. status'[c] = "REJECTED"
        BY <1>1, <2>2, <3>2 DEF Reject, Tell, TypeOK
      <4> QED
        BY <4>1 DEF Active
    <3>3. CASE CheckRaises
      <4>1. status'[c] = "NEW"
        BY <2>2, <3>3 DEF CheckRaises, Admissible
      <4> QED
        BY <4>1 DEF Active
    <3> QED
      BY <2>1, <3>1, <3>2, <3>3
  <2> QED
    BY <1>3, <1>4, <2>1, <2>4, <2>5
<1>7. ASSUME phase # "entered", UNCHANGED <<known, order, assigned>>, phase' # "entered",
             \A p \in known : Active(p)' => Active(p)
      PROVE  ActiveIsWhole'
  BY <1>1, <1>4, <1>7 DEF ActiveIsWhole
<1>8. CASE Announce
  <2>1. DealsAreWhole'
    BY <1>1, <1>8, AnnounceIsWhole
  <2> QED
    BY <1>7, <1>8, <2>1 DEF Announce, book, Active
<1>9. ASSUME Step, phase # "entered", ~Announce, ~\E r \in WorkOrders : Match(r)
      PROVE  ActiveIsWhole' /\ DealsAreWhole'
  <2>1. /\ UNCHANGED <<known, order, assigned>> /\ phase' # "entered"
        /\ log' = log /\ (fills' = fills \/ fills' = <<>>)
    BY <1>9
    DEF Step, Reject, CheckRaises, Admit, StandDownComplete, BeginMatch, EndMatch,
        Reprice, SettleAssigned, SettlePartial, Rest, StandDownResidual, EndTurn,
        GoTo, book, ledger
  <2>2. \A p \in known : Active(p)' => Active(p)
    <3>1. CASE StandDownComplete \/ BeginMatch \/ EndMatch \/ Reprice \/ SettleAssigned
                 \/ Rest \/ StandDownResidual
      BY <1>1, <3>1
      DEF StandDownComplete, BeginMatch, EndMatch, Reprice, SettleAssigned, Rest,
          StandDownResidual, Tell, Active, TypeOK
    <3>2. CASE SettlePartial
      BY <1>1, <3>2 DEF SettlePartial, Tell, Active, TypeOK, TurnIsActive
    <3> QED
      BY <1>9, <3>1, <3>2 DEF Step, Reject, CheckRaises, Admit
  <2> QED
    BY <1>3, <1>7, <1>9, <2>1, <2>2
<1>10. ASSUME NEW o \in WorkOrders, NEW scope \in Scopes, Cancel(o, scope)
       PROVE  ActiveIsWhole' /\ DealsAreWhole'
  <2>1. /\ UNCHANGED <<known, order, assigned, log, fills>> /\ phase = "idle"
        /\ phase' = "idle" /\ \A p \in known : Active(p)' => Active(p)
    BY <1>1, <1>10 DEF Cancel, Tell, book, ledger, turn, Active, TypeOK
  <2> QED
    BY <1>3, <1>7, <2>1
<1>11. CASE UNCHANGED <<known, order, status, assigned, log, fills, phase, current>>
  BY <1>1, <1>3, <1>11 DEF ActiveIsWhole, IsWhole, Active
<1> QED
  BY <1>2, <1>5, <1>6, <1>8, <1>9, <1>10, <1>11
  DEF Next, SubmitDuplicate, CancelNothing, ApplyReading, vars, book, turn

\* The inductive invariant of the portions: what may be dealt with was found supported
\* (_validate_boundary, engine.py:237-271) and is assigned whole lots only.
THEOREM AlwaysWhole == Spec => []LotInv
<1>1. Init => ActiveIsWhole /\ DealsAreWhole
  <2>1. Len(<<>>) = 0
    OBVIOUS
  <2> QED
    BY <2>1 DEF Init, ActiveIsWhole, DealsAreWhole
<1>2. LotInv <=> BookInv /\ ActiveIsWhole /\ DealsAreWhole
  BY DEF LotInv
<1>3. LotInv /\ [Next]_vars => ActiveIsWhole' /\ DealsAreWhole'
  BY LotStep
<1> QED
  BY <1>1, <1>2, <1>3, BookCorrect, PTL DEF Spec

\* With reference data hours are dealt in whole lots at whole increments, and whole
\* lots stay in the queues (engine.py:237-271 and 414-519).
THEOREM LotsAlwaysWhole == Spec => []WholeLots
<1>1. ASSUME LotInv PROVE WholeLots
  <2>1. TypeOK /\ RestingIsLive /\ TurnDoesNotRest /\ ActiveIsWhole /\ DealsAreWhole
    BY <1>1 DEF LotInv, BookInv
  <2>2. \A i \in 1..Len(Executed) : IsWholeDeal(Executed[i])
    BY <2>1, ExecutedIsDealt DEF DealsAreWhole
  <2>3. ASSUME NEW a \in Assets, NEW o \in resting[a], DOMAIN Equipment # {}
        PROVE  Remaining(o) % Equipment[a].lot = 0
    <3>1. o \in known /\ Active(o) /\ order[o].asset = a
      BY <2>1 DEF RestingIsLive, TypeOK
    <3>2. IsWhole(o)
      BY <2>1, <3>1 DEF ActiveIsWhole, TurnDoesNotRest
    <3> QED
      BY <2>1, <2>3, <3>1, <3>2, WholeLeft
  <2> QED
    BY <2>2, <2>3 DEF WholeLots, IsWholeDeal
<1> QED
  BY <1>1, AlwaysWhole, PTL

-----------------------------------------------------------------------------
\* What the engine promises its clients: the assignments account for all hours and
\* workloads, a COMPLETE order gets all of its hours or none, and the engine implements
\* the exchange that they see.

\* What a turn has not matched yet has been assigned nothing.
TurnIsFresh == phase \in {"entered", "admitted"} => assigned[current] = 0

\* Nothing is assigned to an order before its match begins.
LEMMA FreshStep == TypeOK /\ TurnIsFresh /\ [Next]_vars => TurnIsFresh'
<1> SUFFICES ASSUME TypeOK, TurnIsFresh, [Next]_vars PROVE TurnIsFresh'
  OBVIOUS
<1>1. ASSUME NEW o \in WorkOrders, NEW w \in Submissions, Submit(o, w) PROVE TurnIsFresh'
  BY <1>1 DEF Submit, TurnIsFresh, TypeOK
<1>2. ASSUME Step PROVE TurnIsFresh'
  BY <1>2 DEF Step, Reject, CheckRaises, Admit, StandDownComplete, BeginMatch, Match,
              EndMatch, Announce, Reprice, SettleAssigned, SettlePartial, Rest,
              StandDownResidual, GoTo, EndTurn, TurnIsFresh
<1>3. ASSUME NEW o \in WorkOrders, NEW scope \in Scopes,
             Cancel(o, scope) \/ CancelNothing(o, scope) \/ SubmitDuplicate(o)
      PROVE  TurnIsFresh'
  BY <1>3 DEF Cancel, CancelNothing, SubmitDuplicate, turn, vars, TurnIsFresh
<1>4. ASSUME NEW a \in Assets, NEW reading \in Readings, ApplyReading(a, reading)
      PROVE  TurnIsFresh'
  BY <1>4 DEF ApplyReading, turn, TurnIsFresh
<1>5. CASE UNCHANGED vars
  BY <1>5 DEF vars, TurnIsFresh
<1>6. QED
  BY <1>1, <1>2, <1>3, <1>4, <1>5 DEF Next, Scopes

\* The invariant of the refinement
THEOREM TurnsStartUnassigned == Spec => [](BookInv /\ TurnIsFresh)
<1>1. Init => TurnIsFresh
  BY DEF Init, TurnIsFresh
<1>2. QED
  BY <1>1, FreshStep, TypeCorrect, BookCorrect, PTL DEF Spec

-----------------------------------------------------------------------------
\* What is accounted

\* What comes after the first n elements
After(t, n) == SubSeq(t, n + 1, Len(t))

\* Taking the elements of a sequence one by one from its front ...
LEMMA MovedOn ==
  ASSUME NEW S, NEW s \in Seq(S), NEW t \in Seq(S), NEW n \in 0..(Len(t) - 1)
  PROVE  Append(s, t[n + 1]) \o SubSeq(t, n + 2, Len(t)) = s \o SubSeq(t, n + 1, Len(t))
<1>1. Len(t) \in Nat /\ n + 1 \in 1..Len(t) /\ Len(t) \in (n + 1)..Len(t)
  OBVIOUS
<1>2. t[n + 1] \in S
  BY <1>1
<1>3. SubSeq(t, n + 1, Len(t)) = <<t[n + 1]>> \o SubSeq(t, (n + 1) + 1, Len(t))
  BY <1>1, SubSeqRecursiveFirst
<1>4. (n + 1) + 1 = n + 2
  BY <1>1
<1>5. \A i \in (n + 2)..Len(t) : t[i] \in S
  BY <1>1
<1>6. n + 2 \in Int /\ Len(t) \in Int
  BY <1>1
<1>7. SubSeq(t, n + 2, Len(t)) \in Seq(S)
  BY <1>5, <1>6, SubSeqProperties
<1>8. Append(s, t[n + 1]) = s \o <<t[n + 1]>>
  BY <1>2, AppendIsConcat
<1>9. <<t[n + 1]>> \in Seq(S)
  BY <1>2
<1> DEFINE w == SubSeq(t, n + 2, Len(t))
           e == <<t[n + 1]>>
<1>10. w \in Seq(S) /\ e \in Seq(S)
  BY <1>7, <1>9
<1> HIDE DEF w, e
<1>11. (s \o e) \o w = s \o (e \o w)
  BY <1>10, ConcatAssociative, SMTT(30)
<1> QED
  BY <1>3, <1>4, <1>8, <1>11 DEF w, e

\* ... and adding one at its end
LEMMA AddedLast ==
  ASSUME NEW S, NEW s \in Seq(S), NEW t \in Seq(S), NEW n \in 0..Len(t), NEW d \in S
  PROVE  s \o After(Append(t, d), n) = Append(s \o After(t, n), d)
<1> DEFINE u == Append(t, d)
<1>1. /\ u \in Seq(S) /\ Len(u) = Len(t) + 1 /\ u[Len(u)] = d
      /\ \A i \in 1..Len(t) : u[i] = t[i]
      /\ Len(t) \in Nat /\ n \in Nat
  BY AppendProperties
<1> HIDE DEF u
<1>2. SubSeq(u, n + 1, Len(u)) = SubSeq(u, n + 1, Len(u) - 1) \o <<u[Len(u)]>>
  <2>1. n + 1 \in 1..Len(u) /\ Len(u) \in (n + 1)..Len(u)
    BY <1>1
  <2> QED BY <1>1, <2>1, SubSeqRecursiveSecond
<1>3. SubSeq(u, n + 1, Len(u) - 1) = SubSeq(t, n + 1, Len(t))
  <2>1. Len(u) - 1 = Len(t)
    BY <1>1
  <2>2. \A i \in (n + 1)..Len(t) : u[i] = t[i]
    BY <1>1
  <2> QED BY <1>1, <2>1, <2>2
<1>4. SubSeq(t, n + 1, Len(t)) \in Seq(S)
  <2>1. n + 1 \in Int /\ Len(t) \in Int /\ \A i \in (n + 1)..Len(t) : t[i] \in S
    BY <1>1
  <2> QED BY <2>1, SubSeqProperties
<1>5. <<d>> \in Seq(S)
  OBVIOUS
<1> DEFINE w == SubSeq(t, n + 1, Len(t))
           e == <<d>>
<1>9. w \in Seq(S) /\ e \in Seq(S)
  BY <1>4, <1>5
<1>10. SubSeq(u, n + 1, Len(u)) = w \o e
  BY <1>1, <1>2, <1>3
<1> HIDE DEF w, e
<1>11. (s \o w) \o e = s \o (w \o e)
  BY <1>9, ConcatAssociative
<1>6. s \o SubSeq(u, n + 1, Len(u)) = (s \o SubSeq(t, n + 1, Len(t))) \o <<d>>
  BY <1>10, <1>11 DEF w, e
<1>7. s \o SubSeq(t, n + 1, Len(t)) \in Seq(S)
  BY <1>4, ConcatProperties
<1>8. Append(s \o SubSeq(t, n + 1, Len(t)), d) = (s \o SubSeq(t, n + 1, Len(t))) \o <<d>>
  BY <1>7, AppendIsConcat
<1> QED BY <1>6, <1>8 DEF After, u

LEMMA ExecutedType == TypeOK => Executed \in Seq(Assignments) /\ Len(Executed) \in Nat
<1> SUFFICES ASSUME TypeOK PROVE Executed \in Seq(Assignments)
  OBVIOUS
<1>1. /\ log \in Seq(Assignments) /\ fills \in Seq(Assignments) /\ said \in Nat
      /\ Len(fills) \in Nat
  BY DEF TypeOK
<1>2. said + 1 \in Int /\ Len(fills) \in Int /\ \A i \in (said + 1)..Len(fills) : fills[i] \in Assignments
  BY <1>1
<1>3. SubSeq(fills, said + 1, Len(fills)) \in Seq(Assignments)
  BY <1>2, SubSeqProperties
<1> QED BY <1>1, <1>3, ConcatProperties DEF Executed

\* Only a round of the match executes anything.
LEMMA ExecutedStep ==
  ASSUME TypeOK, TurnIsInOrder, [Next]_vars, ~\E r \in WorkOrders : Match(r)
  PROVE  Executed' = Executed
<1>1. /\ log \in Seq(Assignments) /\ fills \in Seq(Assignments) /\ said \in 0..Len(fills)
      /\ Len(fills) \in Nat
  BY DEF TypeOK
<1>2. ASSUME UNCHANGED <<log, fills, said>> PROVE Executed' = Executed
  BY <1>2 DEF Executed
<1>3. ASSUME EndTurn, log' = log, phase \in {"entered", "admitted", "settling", "residual"}
      PROVE  Executed' = Executed
  <2>1. said = Len(fills)
    <3>1. Len(<<>>) = 0
      OBVIOUS
    <3> QED BY <1>1, <1>3, <3>1 DEF TurnIsInOrder
  <2>2. said + 1 \in Int /\ Len(fills) \in Int /\ Len(fills) < said + 1
    BY <1>1, <2>1
  <2>3. SubSeq(fills, said + 1, Len(fills)) = <<>>
    BY <2>2, SubSeqEmpty
  <2>4. SubSeq(fills', said' + 1, Len(fills')) = <<>>
    <3>1. fills' = <<>> /\ said' = 0 /\ Len(<<>>) = 0
      BY <1>3 DEF EndTurn
    <3> QED BY <3>1, SubSeqEmpty
  <2> QED BY <1>3, <2>3, <2>4 DEF Executed
<1>4. CASE Announce
  <2>1. said \in 0..(Len(fills) - 1)
    BY <1>1, <1>4 DEF Announce
  <2>2. log' = Append(log, fills[said + 1]) /\ said' = said + 1 /\ fills' = fills
    BY <1>4 DEF Announce, ToAnnounce
  <2>3. said' + 1 = said + 2
    BY <2>1, <2>2
  <2>4. Append(log, fills[said + 1]) \o SubSeq(fills, said + 2, Len(fills))
          = log \o SubSeq(fills, said + 1, Len(fills))
    BY <1>1, <2>1, MovedOn
  <2> QED BY <2>2, <2>3, <2>4 DEF Executed
<1>5. CASE Reject \/ CheckRaises \/ StandDownComplete \/ SettleAssigned \/ Rest
             \/ StandDownResidual
  BY <1>3, <1>5 DEF Reject, CheckRaises, StandDownComplete, SettleAssigned, Rest,
                    StandDownResidual, ledger
<1>6. CASE Admit \/ BeginMatch \/ EndMatch \/ Reprice \/ SettlePartial
  BY <1>2, <1>6 DEF Admit, BeginMatch, EndMatch, Reprice, SettlePartial, GoTo, ledger
<1>7. ASSUME NEW o \in WorkOrders, NEW w \in Submissions, Submit(o, w)
      PROVE  Executed' = Executed
  BY <1>2, <1>7 DEF Submit, ledger
<1>8. ASSUME NEW o \in WorkOrders, NEW scope \in Scopes,
             Cancel(o, scope) \/ CancelNothing(o, scope) \/ SubmitDuplicate(o)
      PROVE  Executed' = Executed
  BY <1>2, <1>8 DEF Cancel, CancelNothing, SubmitDuplicate, turn, ledger, vars
<1>9. ASSUME NEW a \in Assets, NEW reading \in Readings, ApplyReading(a, reading)
      PROVE  Executed' = Executed
  BY <1>2, <1>9 DEF ApplyReading, turn
<1>10. CASE UNCHANGED vars
  BY <1>2, <1>10 DEF vars
<1> QED
  BY <1>4, <1>5, <1>6, <1>7, <1>8, <1>9, <1>10 DEF Next, Step, Scopes

LEMMA ExecutedMatch ==
  ASSUME TypeOK, NEW r \in WorkOrders, Match(r)
  PROVE  Executed' = Append(Executed, Assignment(current, r))
<1> DEFINE d == Assignment(current, r)
<1>1. d \in Assignments
  BY DealtHours
<1>2. fills' = Append(fills, d) /\ log' = log /\ said' = said
  BY DEF Match
<1> HIDE DEF d
<1>3. log \in Seq(Assignments) /\ fills \in Seq(Assignments) /\ said \in 0..Len(fills)
  BY DEF TypeOK
<1>4. log \o After(Append(fills, d), said) = Append(log \o After(fills, said), d)
  BY <1>1, <1>3, AddedLast
<1> QED BY <1>2, <1>4 DEF Executed, After, d

-----------------------------------------------------------------------------
\* The accounts

HoursAt(s, is) == SumFunctionOnSet([i \in is |-> s[i].hours], is)

\* One assignment more: the hours of those of a kind grow by its own if it is one.
LEMMA HoursGrow ==
  ASSUME NEW s \in Seq(Assignments), NEW t \in Seq(Assignments), NEW n \in Nat,
         n = Len(s), Len(t) = n + 1, \A i \in 1..n : t[i] = s[i],
         NEW is \in SUBSET (1..n), NEW js \in SUBSET (1..(n + 1)),
         \A i \in 1..n : i \in js <=> i \in is
  PROVE  /\ HoursAt(s, is) \in Int
         /\ HoursAt(t, js) = HoursAt(s, is) + (IF n + 1 \in js THEN t[n + 1].hours ELSE 0)
<1> DEFINE f == [i \in is |-> s[i].hours]
           h == [i \in js |-> t[i].hours]
<1>0. 1..(n + 1) = 1..n \cup {n + 1} /\ n + 1 \notin 1..n
  OBVIOUS
<1>1. IsFiniteSet(is)
  <2>1. IsFiniteSet(1..n)
    BY FS_Interval
  <2> QED BY <2>1, FS_Subset
<1>2. \A i \in 1..(n + 1) : t[i] \in Assignments /\ t[i].hours \in Int
  <2>1. \A e \in Assignments : e.hours \in Int
    BY DEF Assignments
  <2>2. \A i \in 1..Len(t) : t[i] \in Assignments
    OBVIOUS
  <2> HIDE DEF f, h
  <2> QED BY <2>1, <2>2
<1>3. \A i \in is : h[i] = f[i] /\ f[i] \in Int
  <2> SUFFICES ASSUME NEW i \in is PROVE h[i] = f[i] /\ f[i] \in Int
    OBVIOUS
  <2>1. i \in 1..n /\ i \in 1..(n + 1) /\ i \in js
    OBVIOUS
  <2> QED BY <1>2, <2>1
<1>4. \A i \in js : h[i] \in Int /\ h[i] = t[i].hours
  BY <1>2
<1> HIDE DEF f, h
<1>5. SumFunctionOnSet(f, is) \in Int
  BY <1>1, <1>3, SumRemove
<1>6. SumFunctionOnSet(h, is) = SumFunctionOnSet(f, is)
  BY <1>1, <1>3, SumCongruence
<1>7. CASE n + 1 \in js
  <2>1. js = is \cup {n + 1} /\ n + 1 \notin is
    BY <1>0, <1>7
  <2>2. SumFunctionOnSet(h, is \cup {n + 1}) = h[n + 1] + SumFunctionOnSet(h, is)
    BY <1>1, <1>4, <2>1, SumInsert
  <2>3. h[n + 1] \in Int /\ h[n + 1] = t[n + 1].hours
    BY <1>4, <1>7
  <2> QED BY <1>5, <1>6, <1>7, <2>1, <2>2, <2>3 DEF HoursAt, f, h
<1>8. CASE n + 1 \notin js
  <2>1. js = is
    BY <1>0, <1>8
  <2> QED BY <1>5, <1>6, <1>8, <2>1 DEF HoursAt, f, h
<1> QED BY <1>7, <1>8

\* The numbers of the assignments of an order, and of those that the orders of a set
\* requested or provided for an asset
Involving(s, o) == {i \in 1..Len(s) : o \in {s[i].requester, s[i].provider}}
RequestedBy(s, a, os) == {i \in 1..Len(s) : s[i].asset = a /\ s[i].requester \in os}
ProvidedBy(s, a, os) == {i \in 1..Len(s) : s[i].asset = a /\ s[i].provider \in os}

OrdersOf(g) == {o \in known : order[o].org = g}

\* The ledger is right about the assignments s.
Accounts(s) ==
  /\ \A o \in known : assigned[o] = HoursAt(s, Involving(s, o))
  /\ \A a \in Assets, g \in Orgs :
       net[g][a] = HoursAt(s, RequestedBy(s, a, OrdersOf(g)))
                     - HoursAt(s, ProvidedBy(s, a, OrdersOf(g)))

NetCancels == \A a \in Assets : SumFunctionOnSet([g \in Orgs |-> net[g][a]], Orgs) = 0

AccountInv == DealInv /\ Accounts(Executed) /\ NetCancels

\* What is executed is between known orders.
LEMMA ExecutedKnown ==
  ASSUME TypeOK, DealsAreFair
  PROVE  \A i \in 1..Len(Executed) :
           Executed[i].requester \in known /\ Executed[i].provider \in known
BY ExecutedIsDealt DEF DealsAreFair, Fair

\* What a round of the match does to the accounts
LEMMA MatchAccounts ==
  ASSUME TypeOK, DealsAreFair, Accounts(Executed), NEW r \in WorkOrders, Match(r)
  PROVE  Accounts(Executed)'
<1> DEFINE d == Assignment(current, r)
           s == Executed
           t == Append(Executed, d)
           n == Len(Executed)
<1>1. /\ current \in known /\ r \in known /\ d \in Assignments
      /\ s \in Seq(Assignments) /\ n \in Nat
  BY DealtHours, ExecutedType
<1>2. d.hours \in Int /\ d.asset = order[current].asset /\ d.asset \in Assets
  BY <1>1 DEF Assignments, Assignment
<1>3. current # r
  BY <1>1, DealtHours DEF Match, Counterparts, Line, Opposite, WorkOrder, Sides
<1>4. /\ assigned' = [assigned EXCEPT ![current] = @ + d.hours, ![r] = @ + d.hours]
      /\ net' = Applied(d) /\ known' = known /\ order' = order
  BY DEF Match, book
<1>5. {d.requester, d.provider} = {current, r}
  BY DEF Assignment
<1>6. Executed' = t
  BY ExecutedMatch
<1>7. /\ t \in Seq(Assignments) /\ Len(t) = n + 1 /\ t[n + 1] = d
      /\ \A i \in 1..n : t[i] = s[i]
  BY <1>1, AppendProperties
<1> HIDE DEF d, s, t, n
<1>8. n = Len(s)
  BY DEF n, s
<1>12. ASSUME NEW is \in SUBSET (1..n), NEW js \in SUBSET (1..(n + 1)),
              \A i \in 1..n : i \in js <=> i \in is
       PROVE  /\ HoursAt(s, is) \in Int
              /\ HoursAt(t, js) = HoursAt(s, is) + (IF n + 1 \in js THEN d.hours ELSE 0)
  BY <1>1, <1>7, <1>8, <1>12, HoursGrow, SMTT(30)
<1>9. ASSUME NEW o \in known PROVE assigned'[o] = HoursAt(t, Involving(t, o))
  <2>1. /\ Involving(s, o) \in SUBSET (1..n) /\ Involving(t, o) \in SUBSET (1..(n + 1))
        /\ \A i \in 1..n : i \in Involving(t, o) <=> i \in Involving(s, o)
        /\ n + 1 \in Involving(t, o) <=> o \in {current, r}
    <3>1. n \in Nat /\ Len(s) = n /\ Len(t) = n + 1 /\ t[n + 1] = d
      BY <1>1, <1>7, <1>8
    <3>2. Involving(s, o) \in SUBSET (1..n) /\ Involving(t, o) \in SUBSET (1..(n + 1))
      BY <3>1 DEF Involving
    <3>3. n + 1 \in Involving(t, o) <=> o \in {current, r}
      BY <1>5, <3>1 DEF Involving
    <3>4. \A i \in 1..n : i \in Involving(t, o) <=> i \in Involving(s, o)
      BY <1>7, <3>1 DEF Involving
    <3> QED BY <3>2, <3>3, <3>4
  <2>2. HoursAt(t, Involving(t, o))
          = HoursAt(s, Involving(s, o))
              + (IF n + 1 \in Involving(t, o) THEN d.hours ELSE 0)
    BY <1>12, <2>1
  <2>3. assigned[o] = HoursAt(s, Involving(s, o)) /\ assigned[o] \in Nat
    BY DEF Accounts, s, TypeOK
  <2>4. assigned'[o] = assigned[o] + (IF o \in {current, r} THEN d.hours ELSE 0)
    BY <1>1, <1>2, <1>3, <1>4, <2>3 DEF TypeOK
  <2> QED BY <1>7, <2>1, <2>2, <2>3, <2>4
<1>10. ASSUME NEW a \in Assets, NEW g \in Orgs
       PROVE  net'[g][a] = HoursAt(t, RequestedBy(t, a, OrdersOf(g)))
                             - HoursAt(t, ProvidedBy(t, a, OrdersOf(g)))
  <2> DEFINE os == OrdersOf(g)
  <2>1. /\ d.requester \in os <=> order[d.requester].org = g
        /\ d.provider \in os <=> order[d.provider].org = g
    BY <1>1, <1>5 DEF OrdersOf
  <2> HIDE DEF os
  <2>2. /\ RequestedBy(s, a, os) \in SUBSET (1..n)
        /\ RequestedBy(t, a, os) \in SUBSET (1..(n + 1))
        /\ \A i \in 1..n : i \in RequestedBy(t, a, os) <=> i \in RequestedBy(s, a, os)
        /\ n + 1 \in RequestedBy(t, a, os) <=> d.asset = a /\ d.requester \in os
    BY <1>1, <1>7, <1>8 DEF RequestedBy
  <2>3. /\ ProvidedBy(s, a, os) \in SUBSET (1..n)
        /\ ProvidedBy(t, a, os) \in SUBSET (1..(n + 1))
        /\ \A i \in 1..n : i \in ProvidedBy(t, a, os) <=> i \in ProvidedBy(s, a, os)
        /\ n + 1 \in ProvidedBy(t, a, os) <=> d.asset = a /\ d.provider \in os
    BY <1>1, <1>7, <1>8 DEF ProvidedBy
  <2>4. /\ HoursAt(s, RequestedBy(s, a, os)) \in Int
        /\ HoursAt(t, RequestedBy(t, a, os))
             = HoursAt(s, RequestedBy(s, a, os))
                 + (IF n + 1 \in RequestedBy(t, a, os) THEN d.hours ELSE 0)
    BY <1>12, <2>2
  <2>5. /\ HoursAt(s, ProvidedBy(s, a, os)) \in Int
        /\ HoursAt(t, ProvidedBy(t, a, os))
             = HoursAt(s, ProvidedBy(s, a, os))
                 + (IF n + 1 \in ProvidedBy(t, a, os) THEN d.hours ELSE 0)
    BY <1>12, <2>3
  <2>6. net[g][a] = HoursAt(s, RequestedBy(s, a, os)) - HoursAt(s, ProvidedBy(s, a, os))
    BY DEF Accounts, s, os
  <2>7. net[g] \in [Assets -> Int]
    BY DEF TypeOK
  <2>8. net'[g] = [net[g] EXCEPT ![d.asset] =
                     net[g][d.asset]
                     + (IF g = order[d.requester].org THEN d.hours ELSE 0)
                     - (IF g = order[d.provider].org THEN d.hours ELSE 0)]
    BY <1>4 DEF Applied
  <2>9. net'[g][a] = IF a = d.asset
                     THEN net[g][a]
                       + (IF d.requester \in os THEN d.hours ELSE 0)
                       - (IF d.provider \in os THEN d.hours ELSE 0)
                     ELSE net[g][a]
    BY <2>1, <2>7, <2>8
  <2>10. net'[g][a] = HoursAt(t, RequestedBy(t, a, os)) - HoursAt(t, ProvidedBy(t, a, os))
    BY <1>2, <1>7, <2>2, <2>3, <2>4, <2>5, <2>6, <2>9
  <2> QED BY <2>10 DEF os
<1>11. \A g : OrdersOf(g)' = OrdersOf(g)
  BY <1>4 DEF OrdersOf
<1> QED BY <1>4, <1>6, <1>9, <1>10, <1>11 DEF Accounts

\* No other step assigns hours, and a new order has none.
LEMMA OthersAssignNothing ==
  ASSUME TypeOK, [Next]_vars, ~\E r \in WorkOrders : Match(r)
  PROVE  /\ net' = net
         /\ \A o \in known : assigned'[o] = assigned[o]
         /\ \A o \in known' \ known : assigned'[o] = 0
<1>1. ASSUME NEW o \in WorkOrders, NEW w \in Submissions, Submit(o, w)
      PROVE  /\ net' = net
             /\ \A p \in known : assigned'[p] = assigned[p]
             /\ \A p \in known' \ known : assigned'[p] = 0
  BY <1>1 DEF Submit, IsFresh, ledger, TypeOK
<1>2. ASSUME UNCHANGED <<net, assigned, known>>
      PROVE  /\ net' = net
             /\ \A p \in known : assigned'[p] = assigned[p]
             /\ \A p \in known' \ known : assigned'[p] = 0
  BY <1>2
<1>3. ASSUME Step PROVE UNCHANGED <<net, assigned, known>>
  BY <1>3 DEF Step, Reject, CheckRaises, Admit, StandDownComplete, BeginMatch, EndMatch,
              Announce, Reprice, SettleAssigned, SettlePartial, Rest, StandDownResidual,
              book, ledger
<1>4. ASSUME NEW o \in WorkOrders, NEW scope \in Scopes,
             Cancel(o, scope) \/ CancelNothing(o, scope) \/ SubmitDuplicate(o)
      PROVE  UNCHANGED <<net, assigned, known>>
  BY <1>4 DEF Cancel, CancelNothing, SubmitDuplicate, book, ledger, vars
<1>5. ASSUME NEW a \in Assets, NEW reading \in Readings, ApplyReading(a, reading)
      PROVE  UNCHANGED <<net, assigned, known>>
  BY <1>5 DEF ApplyReading, book
<1>6. CASE UNCHANGED vars
  BY <1>2, <1>6 DEF vars
<1> QED
  BY <1>1, <1>2, <1>3, <1>4, <1>5, <1>6 DEF Next, Scopes

\* Without a new assignment the accounts stay as they are, also those of an order
\* that is submitted.
LEMMA OtherAccounts ==
  ASSUME TypeOK, TurnIsInOrder, DealsAreFair, Accounts(Executed), [Next]_vars,
         ~\E r \in WorkOrders : Match(r)
  PROVE  Accounts(Executed)'
<1> DEFINE s == Executed
<1>1. Executed' = s
  BY ExecutedStep
<1>2. /\ net' = net
      /\ \A o \in known : assigned'[o] = assigned[o]
      /\ \A o \in known' \ known : assigned'[o] = 0
  BY OthersAssignNothing
<1>3. \A i \in 1..Len(s) : s[i].requester \in known /\ s[i].provider \in known
  BY ExecutedKnown
<1>4. \A o \in known : o \in known' /\ order'[o] = order[o]
  BY IdentifiersStep
<1> HIDE DEF s
<1>5. ASSUME NEW o \in known' PROVE assigned'[o] = HoursAt(s, Involving(s, o))
  <2>1. CASE o \in known
    BY <1>2, <2>1 DEF Accounts, s
  <2>2. CASE o \notin known
    <3>1. Involving(s, o) = {}
      BY <1>3, <2>2 DEF Involving
    <3>2. HoursAt(s, {}) = 0
      BY SumEmpty DEF HoursAt
    <3> QED BY <1>2, <2>2, <3>1, <3>2
  <2> QED BY <2>1, <2>2
<1>6. ASSUME NEW a \in Assets, NEW g \in Orgs
      PROVE  net'[g][a] = HoursAt(s, RequestedBy(s, a, OrdersOf(g)'))
                            - HoursAt(s, ProvidedBy(s, a, OrdersOf(g)'))
  <2>1. \A o \in known : o \in OrdersOf(g)' <=> o \in OrdersOf(g)
    BY <1>4 DEF OrdersOf
  <2>2. /\ RequestedBy(s, a, OrdersOf(g)') = RequestedBy(s, a, OrdersOf(g))
        /\ ProvidedBy(s, a, OrdersOf(g)') = ProvidedBy(s, a, OrdersOf(g))
    BY <1>3, <2>1 DEF RequestedBy, ProvidedBy
  <2> QED BY <1>2, <2>2 DEF Accounts, s
<1> QED BY <1>1, <1>5, <1>6 DEF Accounts

\* What one organization gains at an assignment another one loses.
LEMMA CancelsStep ==
  ASSUME TypeOK, NetCancels, [Next]_vars
  PROVE  NetCancels'
<1>1. CASE ~\E r \in WorkOrders : Match(r)
  BY <1>1, OthersAssignNothing DEF NetCancels
<1>2. ASSUME NEW r \in WorkOrders, Match(r) PROVE NetCancels'
  <2> DEFINE d == Assignment(current, r)
             q == order[d.requester].org
             p == order[d.provider].org
  <2>1. /\ d \in Assignments /\ current \in known /\ r \in known
        /\ order[current] \in WorkOrder /\ order[r] \in WorkOrder
    BY <1>2, DealtHours
  <2>2. d.hours \in Int /\ d.requester \in {current, r} /\ d.provider \in {current, r}
    BY <2>1 DEF Assignments, Assignment
  <2>3. q \in Orgs /\ p \in Orgs
    BY <2>1, <2>2 DEF WorkOrder
  <2>4. \A g \in Orgs : net[g] \in [Assets -> Int]
    BY DEF TypeOK
  <2>5. net' = Applied(d)
    BY <1>2 DEF Match
  <2> SUFFICES ASSUME NEW a \in Assets
               PROVE  SumFunctionOnSet([g \in Orgs |-> net'[g][a]], Orgs) = 0
    BY DEF NetCancels
  <2> DEFINE f == [g \in Orgs |-> net[g][a]]
             h == [g \in Orgs |-> net'[g][a]]
             m == [g \in Orgs |-> IF g = q THEN f[g] + d.hours ELSE f[g]]
  <2>6. SumFunctionOnSet(f, Orgs) = 0
    BY DEF NetCancels
  <2>7. CASE a # d.asset
    <3>1. \A g \in Orgs : net'[g][a] = net[g][a]
      BY <2>4, <2>5, <2>7 DEF Applied
    <3>2. h = f
      BY <3>1
    <3> QED BY <2>6, <3>2
  <2>8. CASE a = d.asset
    <3>1. \A g \in Orgs : net'[g][a] = net[g][a] + (IF g = q THEN d.hours ELSE 0)
                                                - (IF g = p THEN d.hours ELSE 0)
      BY <2>4, <2>5, <2>8 DEF Applied
    <3>2. \A g \in Orgs : f[g] \in Int /\ m[g] \in Int /\ h[g] \in Int
      BY <2>2, <2>4, <3>1
    <3>3. /\ m[q] = f[q] + d.hours /\ \A g \in Orgs \ {q} : m[g] = f[g]
          /\ h[p] = m[p] - d.hours /\ \A g \in Orgs \ {p} : h[g] = m[g]
      BY <2>2, <2>3, <2>4, <3>1
    <3> HIDE DEF f, h, m, d, q, p
    <3>4. SumFunctionOnSet(m, Orgs) = SumFunctionOnSet(f, Orgs) + (m[q] - f[q])
      BY <2>3, <3>2, <3>3, EngineAssumption, SumUpdate
    <3>5. SumFunctionOnSet(h, Orgs) = SumFunctionOnSet(m, Orgs) + (h[p] - m[p])
      BY <2>3, <3>2, <3>3, EngineAssumption, SumUpdate
    <3>6. f[q] \in Int /\ m[p] \in Int
      BY <2>3, <3>2
    <3>7. SumFunctionOnSet(h, Orgs) = 0
      BY <2>2, <2>6, <3>3, <3>4, <3>5, <3>6 DEF f
    <3> QED BY <3>7 DEF h
  <2> QED BY <2>7, <2>8
<1> QED BY <1>1, <1>2

\* The inductive invariant of the accounts: whatever the steps of a turn have come to,
\* what is executed is accounted for (engine.py:461-500).
THEOREM AccountsAlwaysRight == Spec => []AccountInv
<1>1. Init => Accounts(Executed) /\ NetCancels
  <2> SUFFICES ASSUME Init PROVE Accounts(Executed) /\ NetCancels
    OBVIOUS
  <2>1. Executed = <<>>
    <3>1. Len(<<>>) = 0 /\ SubSeq(<<>>, 0 + 1, 0) = <<>>
      BY SubSeqEmpty
    <3> QED BY <3>1 DEF Init, Executed
  <2>2. \A is : is \subseteq 1..Len(<<>>) => HoursAt(<<>>, is) = 0
    <3>1. \A is : is \subseteq 1..Len(<<>>) => is = {}
      OBVIOUS
    <3>2. HoursAt(<<>>, {}) = 0
      BY SumEmpty DEF HoursAt
    <3> QED BY <3>1, <3>2
  <2>3. Accounts(<<>>)
    <3>1. \A a, os : /\ HoursAt(<<>>, RequestedBy(<<>>, a, os)) = 0
                     /\ HoursAt(<<>>, ProvidedBy(<<>>, a, os)) = 0
      BY <2>2 DEF RequestedBy, ProvidedBy
    <3>2. known = {} /\ \A a \in Assets, g \in Orgs : net[g][a] = 0
      BY DEF Init
    <3> QED BY <3>1, <3>2 DEF Accounts
  <2>4. NetCancels
    <3> SUFFICES ASSUME NEW a \in Assets
                 PROVE  SumFunctionOnSet([g \in Orgs |-> net[g][a]], Orgs) = 0
      BY DEF NetCancels
    <3> DEFINE f == [g \in Orgs |-> net[g][a]]
    <3>1. \A g \in Orgs : f[g] = 0
      BY DEF Init
    <3> HIDE DEF f
    <3>2. SumFunctionOnSet(f, Orgs) = 0
      BY <3>1, EngineAssumption, SumZero
    <3> QED BY <3>2 DEF f
  <2> QED BY <2>1, <2>3, <2>4
<1>2. AccountInv /\ [Next]_vars => Accounts(Executed)' /\ NetCancels'
  <2> SUFFICES ASSUME AccountInv, [Next]_vars PROVE Accounts(Executed)' /\ NetCancels'
    OBVIOUS
  <2>1. TypeOK /\ DealsAreFair /\ TurnIsInOrder
    BY DEF AccountInv, DealInv, BookInv
  <2>2. Accounts(Executed)'
    BY <2>1, MatchAccounts, OtherAccounts DEF AccountInv
  <2>3. NetCancels'
    BY <2>1, CancelsStep DEF AccountInv
  <2> QED BY <2>2, <2>3
<1>3. AccountInv <=> DealInv /\ Accounts(Executed) /\ NetCancels
  BY DEF AccountInv
<1> QED BY <1>1, <1>2, <1>3, DealsAlwaysFair, PTL DEF Spec

\* The assignments account for all hours, all workloads and their balance, at every
\* moment of a turn (engine.py:461-500, models.py:283-294).
THEOREM LogAlwaysAccountsForAll == Spec => []LogAccountsForAll
<1>1. AccountInv => LogAccountsForAll
  <2> SUFFICES ASSUME AccountInv PROVE LogAccountsForAll
    OBVIOUS
  <2>1. TypeOK /\ DealsAreFair
    BY DEF AccountInv, DealInv, BookInv
  <2>2. Accounts(Executed) /\ NetCancels
    BY DEF AccountInv
  <2>3. \A is : HoursIn(is) = HoursAt(Executed, is)
    BY DEF HoursIn, HoursAt
  <2>4. \A o \in known : assigned[o] = HoursOf(o)
    BY <2>2, <2>3 DEF Accounts, HoursOf, Involving
  <2>5. ASSUME NEW g \in Orgs, NEW a \in Assets PROVE net[g][a] = NetOf(g, a)
    <3>1. \A i \in 1..Len(Executed) :
            Executed[i].requester \in known /\ Executed[i].provider \in known
      BY <2>1, ExecutedKnown
    <3>2. {i \in 1..Len(Executed) :
             Executed[i].asset = a /\ order[Executed[i]["requester"]].org = g}
            = RequestedBy(Executed, a, OrdersOf(g))
      BY <3>1 DEF RequestedBy, OrdersOf
    <3>3. {i \in 1..Len(Executed) :
             Executed[i].asset = a /\ order[Executed[i]["provider"]].org = g}
            = ProvidedBy(Executed, a, OrdersOf(g))
      BY <3>1 DEF ProvidedBy, OrdersOf
    <3>4. NetOf(g, a) = HoursIn(RequestedBy(Executed, a, OrdersOf(g)))
                          - HoursIn(ProvidedBy(Executed, a, OrdersOf(g)))
      BY <3>2, <3>3 DEF NetOf
    <3> QED BY <2>2, <2>3, <3>4 DEF Accounts
  <2> QED BY <2>2, <2>4, <2>5 DEF LogAccountsForAll, NetCancels
<1> QED BY <1>1, AccountsAlwaysRight, PTL

-----------------------------------------------------------------------------
\* COMPLETE orders

AllOrNothing(o) ==
  /\ assigned[o] \in {0, order[o].hours}
  /\ status[o] = "ASSIGNED" <=> assigned[o] = order[o].hours

\* From its pre-check on a COMPLETE order finds the hours it still asks for, and it
\* never comes to a residual.
TurnIsCovered ==
  /\ phase \in {"matching", "announcing", "settling"} =>
       (order[current].window = "COMPLETE" => CanAssignFully(current))
  /\ phase = "residual" => order[current].window # "COMPLETE"

OthersAllOrNothing ==
  \A o \in known \ {current} : order[o].window = "COMPLETE" => AllOrNothing(o)

CompleteInv ==
  /\ BookInv /\ TurnIsFresh /\ IsFiniteSet(known) /\ TurnIsCovered /\ OthersAllOrNothing

\* A round of the match takes from an order's capacity what it takes from its hours.
LEMMA CapacityFollows ==
  ASSUME TypeOK, IsFiniteSet(known), CanAssignFully(current), NEW r \in WorkOrders, Match(r)
  PROVE  CanAssignFully(current)'
<1> DEFINE h == HoursDealt(current, r)
           a == order[current].asset
           full == assigned[r] + h >= order[r].hours
           C == {x \in Counterparts(current) : Crosses(current, x)}
           f == [o \in C |-> Remaining(o)]
           f2 == [o \in C' |-> Remaining(o)']
<1>1. /\ current \in known /\ r \in known
      /\ order[current] \in WorkOrder /\ order[r] \in WorkOrder
      /\ h \in Nat /\ h =< Remaining(current) /\ h =< Remaining(r)
  BY DealtHours DEF Remaining
<1>2. current \notin C /\ r \in C /\ C \in SUBSET known /\ a \in Assets
  <2>1. a \in Assets
    BY <1>1 DEF WorkOrder
  <2> QED
    BY <1>1, <2>1 DEF Match, Counterparts, Line, Opposite, WorkOrder, Sides, TypeOK
<1>3. /\ assigned' = [assigned EXCEPT ![current] = @ + h, ![r] = @ + h]
      /\ resting' = IF full THEN Popped(a, r) ELSE resting
      /\ order' = order /\ current' = current
  BY DEF Match, Assignment, book
<1>4. C' = IF full THEN C \ {r} ELSE C
  <2>1. \A x : Crosses(current, x)' <=> Crosses(current, x)
    BY <1>3 DEF Crosses
  <2>2. resting'[a] = IF full THEN resting[a] \ {r} ELSE resting[a]
    BY <1>2, <1>3 DEF Popped, TypeOK
  <2>3. Counterparts(current)' = IF full THEN Counterparts(current) \ {r}
                                 ELSE Counterparts(current)
    BY <1>3, <2>2 DEF Counterparts, Line
  <2> QED BY <1>3, <2>1, <2>3
<1>5. \A o \in known : assigned[o] \in Nat /\ order[o].hours \in Nat
  BY DEF TypeOK, WorkOrder
<1>6. /\ Remaining(current)' = Remaining(current) - h
      /\ Remaining(r)' = Remaining(r) - h
      /\ \A o \in C \ {r} : Remaining(o)' = Remaining(o)
      /\ \A o \in known : Remaining(o) \in Int
  <2>1. current # r /\ assigned \in [WorkOrders -> Nat] /\ known \subseteq WorkOrders
    BY <1>2 DEF TypeOK
  <2>2. C \in SUBSET known /\ current \notin C
    BY <1>2
  <2> HIDE DEF C, h, f, f2, full, a
  <2>3. /\ assigned'[current] = assigned[current] + h
        /\ assigned'[r] = assigned[r] + h
        /\ \A o \in C \ {r} : assigned'[o] = assigned[o]
    BY <1>1, <1>3, <2>1, <2>2
  <2>4. \A o \in C \ {r} : Remaining(o)' = Remaining(o)
    BY <1>3, <2>3 DEF Remaining
  <2>5. /\ Remaining(current)' = order[current].hours - assigned'[current]
        /\ Remaining(r)' = order[r].hours - assigned'[r]
    BY <1>3 DEF Remaining
  <2>6. \A o \in known : Remaining(o) \in Int
    BY <1>5 DEF Remaining
  <2>7. /\ assigned[current] \in Nat /\ order[current].hours \in Nat
        /\ assigned[r] \in Nat /\ order[r].hours \in Nat
    BY <1>1, <1>5
  <2>8. Remaining(current)' = Remaining(current) - h
    BY <1>1, <2>3, <2>5, <2>7 DEF Remaining
  <2>9. Remaining(r)' = Remaining(r) - h
    BY <1>1, <2>3, <2>5, <2>7 DEF Remaining
  <2> QED BY <2>4, <2>6, <2>8, <2>9
<1>7. full => h = Remaining(r)
  BY <1>1, <1>5 DEF Remaining
<1>8. Capacity(current) = SumFunctionOnSet(f, C) /\ Capacity(current)' = SumFunctionOnSet(f2, C')
  BY <1>3 DEF Capacity, HoursLeft
<1>9. /\ \A o \in C : f[o] \in Int /\ f[o] = Remaining(o)
      /\ \A o \in C' : f2[o] = Remaining(o)'
  BY <1>2, <1>6
<1>10. IsFiniteSet(C) /\ IsFiniteSet(C \ {r})
  BY <1>2, FS_Subset
<1>a. CanAssignFully(current) <=> SumFunctionOnSet(f, C) >= Remaining(current)
  BY <1>8 DEF CanAssignFully
<1>b. CanAssignFully(current)' <=> SumFunctionOnSet(f2, C') >= Remaining(current)'
  BY <1>8 DEF CanAssignFully
<1> HIDE DEF f, f2, C, h, full, a
<1>11. /\ SumFunctionOnSet(f, C \ {r}) \in Int
       /\ SumFunctionOnSet(f, C) = Remaining(r) + SumFunctionOnSet(f, C \ {r})
  BY <1>2, <1>9, <1>10, SumRemove
<1>12. \A o \in C \ {r} : f2[o] = f[o]
  BY <1>4, <1>6, <1>9
<1>13. SumFunctionOnSet(f2, C \ {r}) = SumFunctionOnSet(f, C \ {r})
  BY <1>10, <1>12, SumCongruence
<1>14. SumFunctionOnSet(f2, C') = SumFunctionOnSet(f, C) - h
  <2>1. Remaining(r) \in Int
    BY <1>1, <1>6
  <2>2. CASE full
    BY <1>1, <1>4, <1>7, <1>11, <1>13, <2>1, <2>2
  <2>3. CASE ~full
    <3>1. \A o \in C : f2[o] \in Int
      BY <1>1, <1>2, <1>4, <1>6, <1>9, <2>3
    <3>2. f2[r] = Remaining(r) - h
      BY <1>2, <1>4, <1>6, <1>9, <2>3
    <3>3. SumFunctionOnSet(f2, C) = f2[r] + SumFunctionOnSet(f2, C \ {r})
      BY <1>2, <1>10, <3>1, SumRemove
    <3> QED BY <1>1, <1>4, <1>11, <1>13, <2>1, <2>3, <3>2, <3>3
  <2> QED BY <2>2, <2>3
<1>15. Remaining(current) \in Int /\ SumFunctionOnSet(f, C) \in Int
  BY <1>1, <1>6, <1>11
<1>16. CanAssignFully(current)
  OBVIOUS
<1> QED BY <1>1, <1>6, <1>14, <1>15, <1>16, <1>a, <1>b

\* When the match has nothing left to deal with, a COMPLETE order is full.
LEMMA CoveredIsFull ==
  ASSUME TypeOK, TurnIsSpent, TurnIsCovered, phase \in {"announcing", "settling"},
         order[current].window = "COMPLETE"
  PROVE  assigned[current] = order[current].hours
<1>1. current \in known /\ assigned[current] \in Nat /\ order[current].hours \in Nat
      /\ assigned[current] =< order[current].hours
  BY DEF TypeOK, WorkOrder
<1>2. CASE assigned[current] < order[current].hours
  <2>1. \A r \in Counterparts(current) : ~Crosses(current, r)
    BY <1>2 DEF TurnIsSpent
  <2>2. {r \in Counterparts(current) : Crosses(current, r)} = {}
    BY <2>1
  <2>3. Capacity(current) = 0
    BY <2>2, SumEmpty DEF Capacity, HoursLeft
  <2> QED BY <1>1, <1>2, <2>3 DEF TurnIsCovered, CanAssignFully, Remaining
<1> QED BY <1>1, <1>2

\* Every other step of a turn keeps what its order finds, and a COMPLETE order has no
\* residual.
LEMMA OtherStepsCover ==
  ASSUME TypeOK, TurnIsCovered, TurnIsSpent, TurnIsFresh, Step,
         ~ \E r \in WorkOrders : Match(r)
  PROVE  TurnIsCovered'
<1>1. CASE Reject \/ CheckRaises \/ Admit \/ StandDownComplete \/ SettleAssigned
           \/ Rest \/ StandDownResidual
  BY <1>1 DEF Reject, CheckRaises, Admit, StandDownComplete, SettleAssigned, Rest,
          StandDownResidual, EndTurn, GoTo, TurnIsCovered
<1>2. CASE BeginMatch \/ EndMatch \/ Announce \/ Reprice
  <2>1. UNCHANGED <<order, assigned, resting, current>>
    BY <1>2 DEF BeginMatch, EndMatch, Announce, Reprice, GoTo, book
  <2>2. CanAssignFully(current)' <=> CanAssignFully(current)
    BY <2>1 DEF CanAssignFully, Capacity, HoursLeft, Remaining, Counterparts, Line, Crosses
  <2>3. order[current].window = "COMPLETE" => CanAssignFully(current)
    BY <1>2 DEF BeginMatch, EndMatch, Announce, Reprice, IsKilled, TurnIsCovered
  <2>4. phase' # "residual"
    BY <1>2 DEF BeginMatch, EndMatch, Announce, Reprice, GoTo
  <2> QED BY <2>1, <2>2, <2>3, <2>4 DEF TurnIsCovered
<1>3. CASE SettlePartial
  <2>1. order[current].window # "COMPLETE"
    <3>1. assigned[current] \in Nat /\ order[current].hours \in Nat
      BY <1>3 DEF SettlePartial, TypeOK, WorkOrder
    <3> QED BY <1>3, <3>1, CoveredIsFull DEF SettlePartial, FullyAssigned
  <2>2. phase' = "residual" /\ order' = order /\ current' = current
    BY <1>3 DEF SettlePartial, GoTo, book
  <2> QED BY <2>1, <2>2 DEF TurnIsCovered
<1> QED BY <1>1, <1>2, <1>3 DEF Step

\* What a COMPLETE order leaves its turn with is all of its hours or none.
LEMMA TurnEndsAllOrNothing ==
  ASSUME TypeOK, TurnIsActive, TurnIsCovered, TurnIsFresh,
         Reject \/ CheckRaises \/ StandDownComplete \/ SettleAssigned \/ Rest
           \/ StandDownResidual,
         order[current].window = "COMPLETE"
  PROVE  /\ assigned'[current] \in {0, order'[current].hours}
         /\ status'[current] = "ASSIGNED" <=> assigned'[current] = order'[current].hours
<1>1. /\ current \in known /\ current \in WorkOrders
      /\ assigned[current] \in Nat /\ order[current].hours \in Nat \ {0}
      /\ assigned[current] =< order[current].hours
      /\ status \in [WorkOrders -> Statuses]
  BY DEF TypeOK, WorkOrder, Reject, CheckRaises, StandDownComplete, SettleAssigned, Rest,
         StandDownResidual
<1>2. order' = order /\ assigned' = assigned
  BY DEF book, Reject, CheckRaises, StandDownComplete, SettleAssigned, Rest,
         StandDownResidual
<1>3. CASE Reject \/ StandDownComplete
  <2>1. assigned[current] = 0
    BY <1>3 DEF Reject, StandDownComplete, TurnIsFresh
  <2>2. status'[current] # "ASSIGNED"
    BY <1>1, <1>3 DEF Reject, StandDownComplete, Tell
  <2> QED BY <1>1, <1>2, <2>1, <2>2
<1>4. CASE CheckRaises
  <2>1. assigned[current] = 0 /\ status'[current] = "NEW"
    BY <1>4 DEF CheckRaises, Admissible, TurnIsFresh
  <2> QED BY <1>1, <1>2, <2>1
<1>5. CASE SettleAssigned
  <2>1. assigned[current] = order[current].hours /\ status'[current] = "ASSIGNED"
    BY <1>1, <1>5 DEF SettleAssigned, FullyAssigned, Tell
  <2> QED BY <1>1, <1>2, <2>1
<1>6. CASE Rest \/ StandDownResidual
  BY <1>6 DEF Rest, StandDownResidual, TurnIsCovered
<1> QED BY <1>3, <1>4, <1>5, <1>6

LEMMA CoverStep ==
  ASSUME BookInv, TurnIsFresh, IsFiniteSet(known), TurnIsCovered, [Next]_vars
  PROVE  TurnIsCovered'
<1>1. TypeOK /\ TurnIsSpent
  BY DEF BookInv
<1>2. ASSUME NEW o \in WorkOrders, NEW w \in Submissions, Submit(o, w) PROVE TurnIsCovered'
  BY <1>2 DEF Submit, TurnIsCovered
<1>3. ASSUME NEW r \in WorkOrders, Match(r) PROVE TurnIsCovered'
  <2>1. /\ phase = "matching" /\ phase' = phase
        /\ order' = order /\ current' = current
    BY <1>3 DEF Match, book
  <2>2. order[current].window = "COMPLETE" => CanAssignFully(current)'
    BY <1>1, <1>3, <2>1, CapacityFollows DEF TurnIsCovered
  <2> QED BY <2>1, <2>2 DEF TurnIsCovered
<1>4. ASSUME Step, ~ \E r \in WorkOrders : Match(r) PROVE TurnIsCovered'
  BY <1>1, <1>4, OtherStepsCover
<1>5. ASSUME phase = "idle" /\ phase' = phase PROVE TurnIsCovered'
  BY <1>5 DEF TurnIsCovered
<1>6. CASE UNCHANGED vars
  <2>1. UNCHANGED <<order, assigned, resting, current, phase>>
    BY <1>6 DEF vars
  <2>2. CanAssignFully(current)' <=> CanAssignFully(current)
    BY <2>1 DEF CanAssignFully, Capacity, HoursLeft, Remaining, Counterparts, Line, Crosses
  <2> QED BY <2>1, <2>2 DEF TurnIsCovered
<1>7. ASSUME NEW o \in WorkOrders, NEW scope \in Scopes,
             Cancel(o, scope) \/ CancelNothing(o, scope) \/ SubmitDuplicate(o)
      PROVE  TurnIsCovered'
  BY <1>5, <1>7 DEF Cancel, CancelNothing, SubmitDuplicate, turn, vars
<1>8. ASSUME NEW a \in Assets, NEW reading \in Readings, ApplyReading(a, reading)
      PROVE  TurnIsCovered'
  BY <1>5, <1>8 DEF ApplyReading, turn
<1>9. Assets \in Scopes
  BY DEF Scopes
<1> QED BY <1>2, <1>3, <1>4, <1>6, <1>7, <1>8, <1>9 DEF Next, Step

LEMMA CompleteStep ==
  ASSUME BookInv, TurnIsFresh, TurnIsCovered, OthersAllOrNothing, [Next]_vars
  PROVE  OthersAllOrNothing'
<1>1. TypeOK /\ RestingIsLive /\ TurnIsActive
  BY DEF BookInv
<1>2. ASSUME NEW o \in WorkOrders, NEW w \in Submissions, Submit(o, w)
      PROVE  OthersAllOrNothing'
  <2>1. /\ known' = known \cup {o} /\ current' = o /\ o \notin known
        /\ \A p \in known : order'[p] = order[p]
        /\ \A p \in known : assigned'[p] = assigned[p] /\ status'[p] = status[p]
    BY <1>1, <1>2 DEF Submit, IsFresh, TypeOK
  <2>2. current = None /\ None \notin known
    BY <1>1, <1>2, EngineAssumption DEF Submit, TypeOK
  <2> QED BY <2>1, <2>2 DEF OthersAllOrNothing, AllOrNothing
<1>3. ASSUME NEW r \in WorkOrders, Match(r) PROVE OthersAllOrNothing'
  <2>1. /\ known' = known /\ order' = order /\ current' = current
        /\ \A p \in known \ {current, r} : assigned'[p] = assigned[p] /\ status'[p] = status[p]
    BY <1>1, <1>3 DEF Match, book, TypeOK
  <2>2. order[r].window = "OPEN"
    <3>1. order[current].asset \in Assets
      BY <1>1, <1>3 DEF Match, TypeOK, WorkOrder
    <3> QED BY <1>1, <1>3, <3>1 DEF Match, Counterparts, Line, RestingIsLive
  <2> QED BY <2>1, <2>2 DEF OthersAllOrNothing, AllOrNothing
<1>4. CASE Reject \/ CheckRaises \/ StandDownComplete \/ SettleAssigned \/ Rest
             \/ StandDownResidual
  <2>1. /\ known' = known /\ order' = order /\ assigned' = assigned /\ current' = None
        /\ \A p \in known \ {current} : status'[p] = status[p]
    BY <1>1, <1>4 DEF Reject, CheckRaises, StandDownComplete, SettleAssigned, Rest,
       StandDownResidual, EndTurn, Tell, book, TypeOK
  <2>2. \A p \in known \ {current} : order[p].window = "COMPLETE" =>
          /\ assigned'[p] \in {0, order'[p].hours}
          /\ status'[p] = "ASSIGNED" <=> assigned'[p] = order'[p].hours
    BY <2>1 DEF OthersAllOrNothing, AllOrNothing
  <2>3. order[current].window = "COMPLETE" =>
          /\ assigned'[current] \in {0, order'[current].hours}
          /\ status'[current] = "ASSIGNED" <=> assigned'[current] = order'[current].hours
    BY <1>1, <1>4, TurnEndsAllOrNothing
  <2> QED BY <2>1, <2>2, <2>3 DEF OthersAllOrNothing, AllOrNothing
<1>5. CASE Admit \/ BeginMatch \/ EndMatch \/ Announce \/ Reprice \/ SettlePartial
  <2>1. /\ known' = known /\ order' = order /\ assigned' = assigned /\ current' = current
        /\ \A p \in known \ {current} : status'[p] = status[p]
    BY <1>1, <1>5 DEF Admit, BeginMatch, EndMatch, Announce, Reprice, SettlePartial, GoTo,
       Tell, book, TypeOK
  <2> QED BY <2>1 DEF OthersAllOrNothing, AllOrNothing
<1>6. ASSUME NEW o \in WorkOrders, NEW scope \in Scopes, Cancel(o, scope)
      PROVE  OthersAllOrNothing'
  <2>1. PICK a \in scope : o \in resting[a]
    BY <1>6 DEF Cancel
  <2>2. a \in Assets
    BY <2>1 DEF Scopes
  <2>3. order[o].window = "OPEN"
    BY <1>1, <2>1, <2>2 DEF RestingIsLive
  <2>4. /\ known' = known /\ order' = order /\ assigned' = assigned /\ current' = current
        /\ \A p \in known \ {o} : status'[p] = status[p]
    BY <1>1, <1>6 DEF Cancel, Tell, book, turn, TypeOK
  <2> QED BY <2>3, <2>4 DEF OthersAllOrNothing, AllOrNothing
<1>7. ASSUME UNCHANGED <<known, order, status, assigned, current>>
      PROVE  OthersAllOrNothing'
  BY <1>7 DEF OthersAllOrNothing, AllOrNothing
<1>8. ASSUME UNCHANGED vars PROVE OthersAllOrNothing'
  BY <1>7, <1>8 DEF vars
<1>9. ASSUME NEW a \in Assets, NEW reading \in Readings, ApplyReading(a, reading)
      PROVE  OthersAllOrNothing'
  BY <1>7, <1>9 DEF ApplyReading, turn, book
<1> QED BY <1>2, <1>3, <1>4, <1>5, <1>6, <1>8, <1>9
        DEF Next, Step, SubmitDuplicate, CancelNothing

\* A COMPLETE order leaves its turn with all of its hours or with none, in every
\* reachable state (engine.py:320-334, engine.py:394-409).
THEOREM CompleteAlwaysAllOrNothing == Spec => []CompleteAllOrNothing
<1>1. Init => IsFiniteSet(known) /\ TurnIsCovered /\ OthersAllOrNothing
  BY FS_EmptySet DEF Init, TurnIsCovered, OthersAllOrNothing
<1>2. IsFiniteSet(known) /\ [Next]_vars => IsFiniteSet(known)'
  <2>1. [Next]_vars => known' = known \/ \E o \in WorkOrders : known' = known \cup {o}
    BY DEF Next, Step, Submit, SubmitDuplicate, Cancel, CancelNothing, ApplyReading,
       Reject, CheckRaises, Admit, StandDownComplete, BeginMatch, Match, EndMatch, Announce,
       Reprice, SettleAssigned, SettlePartial, Rest, StandDownResidual, book, vars
  <2> QED BY <2>1, FS_AddElement
<1>3. /\ BookInv /\ TurnIsFresh /\ IsFiniteSet(known) /\ TurnIsCovered
      /\ OthersAllOrNothing /\ [Next]_vars
      => TurnIsCovered' /\ OthersAllOrNothing'
  BY CoverStep, CompleteStep
<1>4. BookInv /\ OthersAllOrNothing => CompleteAllOrNothing
  <2> SUFFICES ASSUME BookInv, OthersAllOrNothing, phase = "idle"
               PROVE  \A o \in known : order[o].window = "COMPLETE" => AllOrNothing(o)
    BY DEF CompleteAllOrNothing, AllOrNothing
  <2>1. current \notin known
    BY EngineAssumption DEF BookInv, TypeOK
  <2> QED BY <2>1 DEF OthersAllOrNothing
<1> QED BY <1>1, <1>2, <1>3, <1>4, TurnsStartUnassigned, PTL DEF Spec

-----------------------------------------------------------------------------
\* The stages and the hours left, order by order

Stages == [o \in WorkOrders |-> Stage(o)]
Left == [o \in WorkOrders |-> IF o \in known THEN Remaining(o) ELSE 0]

\* An order keeps its stage while its status does not change, unless it enters
\* its turn or its verdict falls.
LEMMA StageKept ==
  ASSUME NEW p \in WorkOrders, known' = known, status'[p] = status[p],
         ~(phase = "entered" /\ p = current), ~(phase' = "entered" /\ p = current')
  PROVE  Stage(p)' = Stage(p)
BY DEF Stage, Undecided

\* The hours that orders have left change only with what is assigned.
LEMMA LeftKept ==
  ASSUME UNCHANGED <<known, order, assigned>>
  PROVE  UNCHANGED Left
BY DEF Left, Remaining

\* What is active and is not waiting for its verdict is live.
LEMMA ActiveIsLive ==
  ASSUME NEW p \in known, Active(p), ~(phase = "entered" /\ p = current)
  PROVE  Stage(p) = "live"
BY DEF Stage, Undecided, Active

\* The order of the turn changes its status: nobody else changes its stage.
LEMMA TellingStages ==
  ASSUME BookInv, phase \in Phases \ {"idle"}, NEW t, NEW s, Tell(current, t, s),
         known' = known, phase' # "entered"
  PROVE  \A p \in WorkOrders \ {current} : Stage(p)' = Stage(p)
<1>1. TypeOK /\ current \in known
  BY DEF BookInv, TypeOK
<1>2. SUFFICES ASSUME NEW p \in WorkOrders \ {current} PROVE Stage(p)' = Stage(p)
  OBVIOUS
<1>3. status'[p] = status[p]
  BY <1>1 DEF Tell, TypeOK
<1>4. QED
  BY <1>3, StageKept

-----------------------------------------------------------------------------
\* Each step of the engine is a step of the exchange or changes nothing there

\* A submission opens the order with the terms it was built with.
LEMMA SubmitOpens ==
  ASSUME BookInv, NEW o \in WorkOrders, NEW w \in Submissions, Submit(o, w)
  PROVE  Exchange!Open(o)
<1>1. TypeOK /\ w.hours \in Nat
  BY EngineAssumption DEF BookInv, WorkOrder
<1>2. /\ o \notin known /\ known' = known \cup {o} /\ phase = "idle"
      /\ phase' = "entered" /\ current' = o
      /\ order' = [p \in known \cup {o} |-> IF p = o THEN w ELSE order[p]]
      /\ DOMAIN order = known
      /\ \A p \in WorkOrders \ {o} : status'[p] = status[p] /\ assigned'[p] = assigned[p]
      /\ assigned'[o] = 0
  BY <1>1 DEF Submit, IsFresh, TypeOK
<1>3. Stage(o) = "unknown" /\ Stage(o)' = "pending"
  BY <1>2 DEF Stage, Undecided
<1>4. ASSUME NEW p \in WorkOrders \ {o} PROVE Stage(p)' = Stage(p)
  BY <1>2 DEF Stage, Undecided
<1>5. Stages' = [Stages EXCEPT ![o] = "pending"]
  BY <1>3, <1>4 DEF Stages
<1>6. Left' = [Left EXCEPT ![o] = w.hours]
  <2>1. \A p \in WorkOrders : Left'[p] = IF p = o THEN w.hours ELSE Left[p]
    <3>1. order'[o] = w /\ \A p \in known : p # o /\ order'[p] = order[p]
      BY <1>2
    <3>2. \A p \in WorkOrders :
            Left'[p] = IF p \in known' THEN order'[p].hours - assigned'[p] ELSE 0
      BY DEF Left, Remaining
    <3>3. Left'[o] = w.hours
      <4>1. Left'[o] = order'[o].hours - assigned'[o]
        BY <1>2, <3>2
      <4>2. order'[o].hours = w.hours /\ assigned'[o] = 0
        BY <1>2, <3>1
      <4>3. QED
        BY <1>1, <4>1, <4>2
    <3>4. \A p \in WorkOrders \ {o} : Left'[p] = Left[p]
      BY <1>2, <3>1, <3>2 DEF Left, Remaining
    <3>5. QED
      BY <3>3, <3>4
  <2>2. QED
    BY <2>1 DEF Left
<1>7. QED
  BY <1>2, <1>3, <1>5, <1>6 DEF Exchange!Open, Stages, Left

\* A rejection or an admission decides a pending order.
LEMMA VerdictDecides ==
  ASSUME BookInv, Reject \/ Admit
  PROVE  Exchange!Decide(current)
<1>1. TypeOK /\ phase = "entered" /\ current \in known /\ current \in WorkOrders
  BY DEF BookInv, TypeOK, Reject, Admit
<1>2. /\ UNCHANGED <<known, order, assigned>> /\ phase' # "entered"
      /\ \E t : \E s \in {"REJECTED", "ACCEPTED"} : Tell(current, t, s)
  BY DEF Reject, Admit, book, EndTurn, GoTo
<1>3. PICK s \in {"REJECTED", "ACCEPTED"} : \E t : Tell(current, t, s)
  BY <1>2
<1>4. \A p \in WorkOrders \ {current} : Stage(p)' = Stage(p)
  BY <1>1, <1>2, <1>3, TellingStages DEF TypeOK
<1>5. PICK c \in WorkOrders : c = current
  BY <1>1
<1>6. Stage(c) = "pending"
  BY <1>1, <1>5 DEF Stage, Undecided
<1>7. status'[c] = s
  BY <1>1, <1>3, <1>5 DEF Tell, TypeOK
<1>8. Stage(c)' \in {"live", "refused"}
  BY <1>1, <1>2, <1>5, <1>7 DEF Stage, Undecided
<1>9. PICK s2 \in {"live", "refused"} : Stages' = [Stages EXCEPT ![c] = s2]
  BY <1>4, <1>5, <1>8 DEF Stages
<1>10. QED
  BY <1>1, <1>2, <1>5, <1>6, <1>9, LeftKept DEF Exchange!Decide, Stages, Left

\* A live order with hours left that is stood down or cancelled is withdrawn.
LEMMA WithdrawalOf ==
  ASSUME NEW o \in WorkOrders, Stage(o) = "live", Left[o] > 0,
         UNCHANGED <<known, order, assigned>>,
         o \in known, status'[o] = "CANCELLED", phase' # "entered",
         \A p \in WorkOrders \ {o} : Stage(p)' = Stage(p)
  PROVE  Exchange!Withdraw(o)
<1>1. Stage(o)' = "withdrawn"
  BY DEF Stage, Undecided
<1>2. Stages' = [Stages EXCEPT ![o] = "withdrawn"]
  BY <1>1 DEF Stages
<1>3. QED
  BY <1>2, LeftKept DEF Exchange!Withdraw, Stages, Left

\* A COMPLETE order that cannot be filled, or a residual, is withdrawn.
LEMMA StandDownWithdraws ==
  ASSUME BookInv, TurnIsFresh, StandDownComplete \/ StandDownResidual
  PROVE  Exchange!Withdraw(current)
<1>1. TypeOK /\ phase \in {"admitted", "residual"} /\ current \in known
      /\ current \in WorkOrders /\ order[current] \in WorkOrder
  BY DEF BookInv, TypeOK, StandDownComplete, StandDownResidual
<1>2. /\ UNCHANGED <<known, order, assigned>> /\ phase' = "idle"
      /\ Tell(current, "CANCELLED", "CANCELLED")
  BY DEF StandDownComplete, StandDownResidual, book, EndTurn
<1>3. \A p \in WorkOrders \ {current} : Stage(p)' = Stage(p)
  BY <1>1, <1>2, TellingStages DEF Phases
<1>4. Active(current) /\ assigned[current] < order[current].hours
  BY <1>1 DEF BookInv, TurnIsActive, TurnIsFresh, Active, WorkOrder
<1>5. Stage(current) = "live"
  BY <1>1, <1>4, ActiveIsLive
<1>6. Left[current] > 0
  BY <1>1, <1>4 DEF Left, Remaining, TypeOK, WorkOrder
<1>7. status'[current] = "CANCELLED"
  BY <1>1, <1>2 DEF Tell, TypeOK
<1>8. QED
  BY <1>1, <1>2, <1>3, <1>5, <1>6, <1>7, WithdrawalOf

\* A cancellation withdraws an order that rests.
LEMMA CancelWithdraws ==
  ASSUME BookInv, NEW o \in WorkOrders, NEW scope \in Scopes, Cancel(o, scope)
  PROVE  Exchange!Withdraw(o)
<1>1. PICK a \in Assets : o \in resting[a]
  BY DEF Cancel, Scopes
<1>2. TypeOK /\ o \in known /\ Active(o) /\ assigned[o] < order[o].hours
      /\ order[o] \in WorkOrder
  BY <1>1 DEF BookInv, RestingIsLive, TypeOK
<1>3. /\ UNCHANGED <<known, order, assigned, phase, current>> /\ phase = "idle"
      /\ Tell(o, "CANCELLED", "CANCELLED")
  BY DEF Cancel, book, turn
<1>4. Stage(o) = "live"
  BY <1>2, <1>3, ActiveIsLive
<1>5. Left[o] > 0
  BY <1>2 DEF Left, Remaining, TypeOK, WorkOrder
<1>6. /\ status'[o] = "CANCELLED"
      /\ \A p \in WorkOrders \ {o} : status'[p] = status[p]
  BY <1>2, <1>3 DEF Tell, TypeOK
<1>7. \A p \in WorkOrders \ {o} : Stage(p)' = Stage(p)
  BY <1>3, <1>6, StageKept
<1>8. QED
  BY <1>2, <1>3, <1>4, <1>5, <1>6, <1>7, WithdrawalOf

\* The steps that the clients do not see.
LEMMA UnseenSteps ==
  ASSUME BookInv,
         CheckRaises \/ BeginMatch \/ EndMatch \/ Announce \/ Reprice \/ Rest
         \/ SettleAssigned \/ SettlePartial \/ UNCHANGED vars
  PROVE  UNCHANGED <<Stages, order, Left>>
<1>1. TypeOK
  BY DEF BookInv
<1>2. UNCHANGED <<known, order, assigned>>
  BY DEF CheckRaises, BeginMatch, EndMatch, Announce, Reprice, Rest, SettleAssigned,
         SettlePartial, vars, book
<1>3. \A p \in WorkOrders : Stage(p)' = Stage(p)
  <2>1. CASE CheckRaises
    BY <2>1 DEF CheckRaises, Admissible, EndTurn, Stage, Undecided, book
  <2>2. CASE BeginMatch \/ EndMatch \/ Announce \/ Reprice \/ Rest
    BY <1>2, <2>2, StageKept
       DEF BeginMatch, EndMatch, Announce, Reprice, Rest, GoTo, EndTurn, book
  <2>3. CASE SettleAssigned \/ (SettlePartial /\ fills # <<>>)
    <3>1. /\ phase = "settling" /\ phase' # "entered"
          /\ current \in known /\ current \in WorkOrders
      BY <1>1, <2>3 DEF SettleAssigned, SettlePartial, EndTurn, GoTo, TypeOK
    <3>2. PICK s \in {"ASSIGNED", "PARTIALLY_ASSIGNED"} : Tell(current, s, s)
      BY <2>3 DEF SettleAssigned, SettlePartial
    <3>3. \A p \in WorkOrders \ {current} : Stage(p)' = Stage(p)
      BY <1>2, <3>1, <3>2, TellingStages DEF Phases
    <3>4. Stage(current) = "live"
      BY <3>1, ActiveIsLive DEF BookInv, TurnIsActive, Active
    <3>5. ASSUME NEW c \in WorkOrders, c = current PROVE Stage(c)' = Stage(c)
      <4>1. status'[c] = s
        BY <1>1, <3>1, <3>2, <3>5 DEF Tell, TypeOK
      <4>2. Stage(c)' = "live"
        BY <1>2, <3>1, <3>5, <4>1 DEF Stage, Undecided
      <4>3. QED
        BY <3>4, <3>5, <4>2
    <3>6. QED
      BY <3>1, <3>3, <3>5
  <2>4. CASE SettlePartial /\ fills = <<>>
    BY <1>2, <2>4, StageKept DEF SettlePartial, GoTo
  <2>5. CASE UNCHANGED vars
    BY <2>5 DEF vars, Stage, Undecided
  <2>6. QED
    BY <2>1, <2>2, <2>3, <2>4, <2>5
<1>4. QED
  BY <1>2, <1>3, LeftKept DEF Stages

\* A round of the match is a trade of the hours it deals, at the resting rate.
LEMMA MatchTrades ==
  ASSUME BookInv, NEW r \in WorkOrders, Match(r)
  PROVE  \E q, f \in WorkOrders : Exchange!Trade(q, f)
<1> DEFINE h == HoursDealt(current, r)
           full == assigned[r] + h >= order[r].hours
<1>0. SUFFICES ASSUME NEW q \in WorkOrders, NEW f \in WorkOrders,
                      q = IF order[current].side = "REQUEST" THEN current ELSE r,
                      f = IF order[current].side = "REQUEST" THEN r ELSE current
               PROVE  Exchange!Trade(q, f)
  BY DealtHours DEF BookInv, TypeOK
<1>1. /\ TypeOK /\ phase = "matching" /\ current \in known /\ r \in known
      /\ current \in WorkOrders
      /\ order[current] \in WorkOrder /\ order[r] \in WorkOrder
      /\ r \in Counterparts(current) /\ Crosses(current, r)
      /\ Remaining(current) > 0
  BY DealtHours DEF BookInv, TypeOK, Match
<1>2. /\ order[current].asset \in Assets /\ order[current].side \in Sides
      /\ order[r].rate \in Nat /\ order[r].hours \in Nat /\ order[current].hours \in Nat
      /\ assigned[r] \in Nat /\ assigned[current] \in Nat
  BY <1>1 DEF WorkOrder, TypeOK
<1>3. /\ r \in resting[order[current].asset]
      /\ order[r].side = Opposite(order[current].side)
  BY <1>1 DEF Counterparts, Line
<1>4. /\ order[r].asset = order[current].asset /\ order[r].mode = "RATE_CAPPED"
      /\ Active(r) /\ assigned[r] < order[r].hours
  BY <1>2, <1>3 DEF BookInv, RestingIsLive
<1>5. Stage(r) = "live" /\ Stage(current) = "live"
  <2>1. Active(current)
    BY <1>1 DEF BookInv, TurnIsActive, Active
  <2>2. QED
    BY <1>1, <1>4, <2>1, ActiveIsLive
<1>6. h \in Nat /\ h > 0 /\ h =< Left[current] /\ h =< Left[r]
      /\ Left[current] = order[current].hours - assigned[current]
      /\ Left[r] = order[r].hours - assigned[r]
  BY <1>1, <1>2, <1>4 DEF HoursDealt, Remaining, Left
<1>7. current # r
  BY <1>2, <1>3 DEF Opposite, Sides
<1>8. /\ assigned' = [assigned EXCEPT ![current] = @ + h, ![r] = @ + h]
      /\ status' = [status EXCEPT ![r] = IF full THEN "ASSIGNED" ELSE "PARTIALLY_ASSIGNED"]
      /\ UNCHANGED <<known, order, phase, current>>
  BY DEF Match, Assignment, book
<1>9. UNCHANGED Stages
  <2>1. \A p \in WorkOrders \ {r} : Stage(p)' = Stage(p)
    BY <1>1, <1>8, StageKept DEF TypeOK
  <2>2. Stage(r)' = "live"
    BY <1>1, <1>8 DEF Stage, Undecided, TypeOK
  <2>3. QED
    BY <1>5, <2>1, <2>2 DEF Stages
<1>10. Left' = [Left EXCEPT ![q] = @ - h, ![f] = @ - h]
  <2>1. /\ assigned'[current] = assigned[current] + h
        /\ assigned'[r] = assigned[r] + h
        /\ \A p \in WorkOrders \ {current, r} : assigned'[p] = assigned[p]
    BY <1>1, <1>7, <1>8 DEF TypeOK
  <2>2. /\ Left'[current] = Left[current] - h
        /\ Left'[r] = Left[r] - h
        /\ \A p \in WorkOrders \ {current, r} : Left'[p] = Left[p]
    <3>1. \A p \in WorkOrders :
            Left'[p] = IF p \in known THEN order[p].hours - assigned'[p] ELSE 0
      BY <1>8 DEF Left, Remaining
    <3>2. \A p \in WorkOrders :
            Left[p] = IF p \in known THEN order[p].hours - assigned[p] ELSE 0
      BY DEF Left, Remaining
    <3>3. /\ Left'[current] = Left[current] - h
          /\ Left'[r] = Left[r] - h
      BY <1>1, <1>2, <1>6, <2>1, <3>1
    <3>4. QED
      BY <2>1, <3>1, <3>2, <3>3
  <2>3. {q, f} = {current, r}
    BY <1>0
  <2>4. QED
    BY <1>1, <1>7, <2>2, <2>3 DEF Left
<1>11. /\ q \in WorkOrders /\ f \in WorkOrders
       /\ order[q].side = "REQUEST" /\ order[f].side = "OFFER"
       /\ order[q].asset = order[f].asset
       /\ Stages[q] = "live" /\ Stages[f] = "live"
  BY <1>0, <1>1, <1>2, <1>3, <1>4, <1>5 DEF Opposite, Sides, Stages
<1>12. /\ order[r].rate # NoRate
       /\ Exchange!Suits(order[r].rate, order[q]) /\ Exchange!Suits(order[r].rate, order[f])
  <2>1. order[r].rate # NoRate
    BY <1>1, <1>4 DEF WorkOrder
  <2>2. Exchange!Suits(order[r].rate, order[r])
    BY <1>2 DEF Exchange!Suits, Exchange!Accepts
  <2>3. Exchange!Suits(order[r].rate, order[current])
    BY <1>1 DEF Crosses, Accepts, Exchange!Suits, Exchange!Accepts
  <2>4. QED
    BY <1>0, <2>1, <2>2, <2>3
<1>13. QED
  <2>1. order[r].rate \in {order[q].rate, order[f].rate}
    BY <1>0
  <2>2. h \in 1..Left[q] /\ h =< Left[f]
    BY <1>0, <1>2, <1>6
  <2>3. QED
    BY <1>8, <1>9, <1>10, <1>11, <1>12, <2>1, <2>2
       DEF Exchange!Trade, Exchange!NoRate, NoRate, Stages, Left

\* Every step of the engine is a step of the exchange or is not seen there.
LEMMA StepOfExchange ==
  BookInv /\ TurnIsFresh /\ [Next]_vars => [Exchange!Next]_(Exchange!vars)
<1> SUFFICES ASSUME BookInv, TurnIsFresh, [Next]_vars
             PROVE  [Exchange!Next]_(Exchange!vars)
  OBVIOUS
<1>1. current \in WorkOrders \/ phase = "idle"
  BY DEF BookInv, TypeOK
<1>2. ASSUME NEW o \in WorkOrders, NEW w \in Submissions, Submit(o, w) PROVE Exchange!Next
  BY <1>2, SubmitOpens DEF Exchange!Next
<1>3. ASSUME Reject \/ Admit PROVE Exchange!Next
  BY <1>1, <1>3, VerdictDecides DEF Exchange!Next, Reject, Admit
<1>4. ASSUME StandDownComplete \/ StandDownResidual PROVE Exchange!Next
  BY <1>1, <1>4, StandDownWithdraws DEF Exchange!Next, StandDownComplete, StandDownResidual
<1>5. ASSUME NEW o \in WorkOrders, NEW scope \in Scopes, Cancel(o, scope) PROVE Exchange!Next
  BY <1>5, CancelWithdraws DEF Exchange!Next
<1>6. ASSUME NEW r \in WorkOrders, Match(r) PROVE Exchange!Next
  BY <1>6, MatchTrades DEF Exchange!Next
<1>7. ASSUME CheckRaises \/ BeginMatch \/ EndMatch \/ Announce \/ Reprice \/ Rest
             \/ SettleAssigned \/ SettlePartial \/ UNCHANGED vars
      PROVE  UNCHANGED Exchange!vars
  BY <1>7, UnseenSteps DEF Exchange!vars, Stages, Left
<1>8. ASSUME NEW o \in WorkOrders, NEW scope \in Scopes,
             SubmitDuplicate(o) \/ CancelNothing(o, scope)
      PROVE  UNCHANGED vars
  BY <1>8 DEF SubmitDuplicate, CancelNothing
<1>9. ASSUME NEW a \in Assets, NEW reading \in Readings, ApplyReading(a, reading)
      PROVE  UNCHANGED Exchange!vars
  <2>1. UNCHANGED <<known, order, status, assigned, phase, current>>
    BY <1>9 DEF ApplyReading, book, turn
  <2>2. \A p \in WorkOrders : Stage(p)' = Stage(p)
    BY <2>1 DEF Stage, Undecided
  <2>3. QED
    BY <2>1, <2>2, LeftKept DEF Exchange!vars, Stages, Left
<1>10. QED
  BY <1>2, <1>3, <1>4, <1>5, <1>6, <1>7, <1>8, <1>9 DEF Next, Step, Scopes

\* The engine implements the exchange, for any orders, assets and verdicts.
THEOREM EngineImplementsExchange == Spec => ImplementsExchange
<1>1. Init => Exchange!Init
  BY DEF Init, Exchange!Init, Stage
<1>2. QED
  BY <1>1, StepOfExchange, TurnsStartUnassigned, PTL DEF Spec, ImplementsExchange, Exchange!Spec

=============================================================================
