--------------------------- MODULE DispatchEngine ---------------------------
(***************************************************************************)
(* The dispatch engine (src/mittelwerk/core/engine.py).  publish() of the  *)
(* event bus contains no suspension point, so a submission runs in one     *)
(* turn of the event loop from the duplicate guard to its last event: a    *)
(* turn is a sequence of steps (phase, current), and a new submission or a *)
(* cancellation begins only between turns.                                 *)
(*                                                                         *)
(* The queue of an asset is the line that PriorityLine describes and       *)
(* DispatchQueue implements: the set of the orders that rest, served by    *)
(* rate and then by the time they joined, which is the value that          *)
(* _work_order_count took when they were submitted.                        *)
(***************************************************************************)
EXTENDS RateTime, Sequences, FiniteSetsExt

CONSTANTS WorkOrders,   \* work-order identifiers
          Orgs,         \* organizations
          Assets,       \* asset identifiers
          Equipment,    \* reference data: asset -> [lot, increment]; no asset: not configured
          Submissions,  \* the work orders that clients build
          Verdicts,     \* what the pre-dispatch check may answer
          Readings,     \* the readings that the telemetry pump applies
          None          \* no work order

Modes == {"RATE_CAPPED", "ANY_RATE", "ESCALATION", "ESCALATION_CAPPED"}
Windows == {"OPEN", "SHIFT", "IMMEDIATE", "COMPLETE", "SCHEDULED_END"}
Statuses == {"NEW", "ACCEPTED", "PARTIALLY_ASSIGNED", "ASSIGNED", "CANCELLED",
             "REJECTED", "EXPIRED"}
Terminal == {"ASSIGNED", "CANCELLED", "REJECTED", "EXPIRED"}

\* A constructed WorkOrder: validation asks a cap of rate-capped modes only.
WorkOrder ==
  {w \in [org : Orgs, asset : Assets, side : Sides, mode : Modes,
          window : Windows, hours : Nat \ {0}, rate : Nat, status : Statuses] :
     w.mode \in {"RATE_CAPPED", "ESCALATION_CAPPED"} => w.rate # NoRate}

ASSUME EngineAssumption ==
  /\ None \notin WorkOrders
  /\ IsFiniteSet(Orgs)
  /\ Submissions \subseteq WorkOrder
  /\ Readings \subseteq Nat
  /\ \A a \in DOMAIN Equipment :
       Equipment[a].lot \in Nat \ {0} /\ Equipment[a].increment \in Nat \ {0}

VARIABLES known,     \* _known_work_order_ids
          order,     \* what each known work order asks for; never changes
          status,    \* its status
          assigned,  \* its assigned_hours
          since,     \* _work_order_count at its submission
          count,     \* _work_order_count
          resting,   \* _queues: the orders in the queue of each asset
          log,       \* _assignment_log
          net,       \* net_hours of the workload of an organization and an asset
          mark,      \* last_rate of that workload, NoRate before the first
          heard,     \* the last lifecycle event published about each order
          phase,     \* where the running turn stands
          current,   \* the order the turn submits, None between turns
          fills,     \* assignments_with_resting of the turn
          said       \* how many of them have been logged and published

vars == <<known, order, status, assigned, since, count, resting, log, net, mark,
          heard, phase, current, fills, said>>
book == <<known, order, since, count>>
ledger == <<log, net, mark>>
turn == <<phase, current, fills, said>>

Phases == {"idle", "entered", "admitted", "matching", "announcing", "settling",
           "residual"}

-----------------------------------------------------------------------------
\* Work orders and lines

\* remaining_hours, is_fully_assigned
Remaining(o) == order[o].hours - assigned[o]
FullyAssigned(o) == assigned[o] >= order[o].hours

\* The orders that rest on one side of an asset.
Line(a, side) == {o \in resting[a] : order[o].side = side}

\* The orders an incoming order can deal with.
Counterparts(o) == Line(order[o].asset, Opposite(order[o].side))

\* For mutation: arrival does not break a tie between rates.
IsStrictlyBest(o, line) ==
  \A p \in line \ {o} :
    Key(order[o].side, order[o].rate) < Key(order[o].side, order[p].rate)

\* For mutation: the worst rate is served first.
IsWorst(o, line) ==
  \A p \in line \ {o} :
    Precedes(order[o].side, order[p].rate, since[p], order[o].rate, since[o])

\* peek_best_request_order, peek_best_offer_order
IsBest(o, line) ==
  \A p \in line \ {o} :
    Precedes(order[o].side, order[o].rate, since[o], order[p].rate, since[p])

\* For mutation: the cap is not compared at all.
CrossesAlways(o, r) == TRUE

\* For mutation: only a strictly better rate crosses.
CrossesStrictly(o, r) ==
  order[o].mode = "RATE_CAPPED" =>
    Accepts(order[o].side, order[o].rate, order[r].rate)
      /\ order[o].rate # order[r].rate

\* An incoming order deals with a resting one at the resting rate: only
\* rate-capped orders look at their cap.
Crosses(o, r) ==
  order[o].mode = "RATE_CAPPED" =>
    Accepts(order[o].side, order[o].rate, order[r].rate)

\* The hours that the orders of a set have left, together
HoursLeft(os) == SumFunctionOnSet([o \in os |-> Remaining(o)], os)

\* For mutation: every level counts, whatever its rate.
CapacityAtAnyRate(o) == HoursLeft(Counterparts(o))

\* _can_assign_fully: the hours of the levels that an order would cross.
Capacity(o) == HoursLeft({r \in Counterparts(o) : Crosses(o, r)})
CanAssignFully(o) == Capacity(o) >= Remaining(o)

\* For mutation: the lot size is not looked at.
SupportedAnyHours(w) ==
  /\ w.mode \notin {"ESCALATION", "ESCALATION_CAPPED"}
  /\ w.window \notin {"SHIFT", "SCHEDULED_END"}
  /\ DOMAIN Equipment # {} =>
       /\ w.asset \in DOMAIN Equipment
       /\ w.rate # NoRate => w.rate % Equipment[w.asset].increment = 0

\* _validate_boundary
Supported(w) ==
  /\ w.mode \notin {"ESCALATION", "ESCALATION_CAPPED"}
  /\ w.window \notin {"SHIFT", "SCHEDULED_END"}
  /\ DOMAIN Equipment # {} =>
       /\ w.asset \in DOMAIN Equipment
       /\ w.hours % Equipment[w.asset].lot = 0
       /\ w.rate # NoRate => w.rate % Equipment[w.asset].increment = 0

\* The lifecycle event of type t about an order, with the status and the hours
\* its payload carries.
Event(t, s, h) == [type |-> t, status |-> s, assigned |-> h]

-----------------------------------------------------------------------------
Init ==
  /\ known = {}
  /\ order = [o \in {} |-> None]
  /\ status = [o \in WorkOrders |-> "NEW"]
  /\ assigned = [o \in WorkOrders |-> 0]
  /\ since = [o \in WorkOrders |-> 0]
  /\ count = 0
  /\ resting = [a \in Assets |-> {}]
  /\ log = <<>>
  /\ net = [g \in Orgs |-> [a \in Assets |-> 0]]
  /\ mark = [g \in Orgs |-> [a \in Assets |-> NoRate]]
  /\ heard = [o \in WorkOrders |-> Event("none", "NEW", 0)]
  /\ phase = "idle"
  /\ current = None
  /\ fills = <<>>
  /\ said = 0

\* The turn ends.
EndTurn ==
  /\ phase' = "idle"
  /\ current' = None
  /\ fills' = <<>>
  /\ said' = 0

GoTo(p) == phase' = p /\ UNCHANGED <<current, fills, said>>

\* The status of an order changes and the event that tells it is published.
Tell(o, t, s) ==
  /\ status' = [status EXCEPT ![o] = s]
  /\ heard' = [heard EXCEPT ![o] = Event(t, s, assigned[o])]

\* The duplicate guard; it reserves the identifier for good.
IsFresh(o) == o \notin known

\* submit_work_order up to its first event
Submit(o, w) ==
  /\ phase = "idle"
  /\ IsFresh(o)
  /\ known' = known \cup {o}
  /\ order' = [p \in known \cup {o} |-> IF p = o THEN w ELSE order[p]]
  /\ status' = [status EXCEPT ![o] = w.status]
  /\ assigned' = [assigned EXCEPT ![o] = 0]
  /\ count' = count + 1
  /\ since' = [since EXCEPT ![o] = count + 1]
  /\ heard' = [heard EXCEPT ![o] = Event("SUBMITTED", w.status, 0)]
  /\ phase' = "entered"
  /\ current' = o
  /\ UNCHANGED <<fills, said, resting, ledger>>

\* DuplicateWorkOrderError
SubmitDuplicate(o) ==
  /\ phase = "idle"
  /\ o \in known
  /\ UNCHANGED vars

Admissible(o) == status[o] = "NEW" /\ Supported(order[o])

\* Not NEW, refused at the boundary, or refused by the pre-dispatch check
Reject ==
  /\ phase = "entered"
  /\ Admissible(current) => "deny" \in Verdicts
  /\ Tell(current, "REJECTED", "REJECTED")
  /\ EndTurn
  /\ UNCHANGED <<book, assigned, resting, ledger>>

\* The check raises, or denies with a reason that is no string: the order stays
\* NEW, its identifier stays reserved, nothing is published.
CheckRaises ==
  /\ phase = "entered"
  /\ Admissible(current)
  /\ "raise" \in Verdicts
  /\ EndTurn
  /\ UNCHANGED <<book, status, assigned, heard, resting, ledger>>

Admit ==
  /\ phase = "entered"
  /\ Admissible(current)
  /\ "allow" \in Verdicts
  /\ Tell(current, "ACCEPTED", "ACCEPTED")
  /\ GoTo("admitted")
  /\ UNCHANGED <<book, assigned, resting, ledger>>

\* A COMPLETE order that the line cannot fill
IsKilled(o) == order[o].window = "COMPLETE" /\ ~CanAssignFully(o)

StandDownComplete ==
  /\ phase = "admitted"
  /\ IsKilled(current)
  /\ Tell(current, "CANCELLED", "CANCELLED")
  /\ EndTurn
  /\ UNCHANGED <<book, assigned, resting, ledger>>

BeginMatch ==
  /\ phase = "admitted"
  /\ ~IsKilled(current)
  /\ GoTo("matching")
  /\ UNCHANGED <<book, status, assigned, heard, resting, ledger>>

-----------------------------------------------------------------------------
\* One round of _match

\* For mutation: the resting order may get more than it asked for.
HoursOfIncoming(o, r) == Remaining(o)

HoursDealt(o, r) ==
  IF Remaining(o) < Remaining(r) THEN Remaining(o) ELSE Remaining(r)

\* The ServiceAssignment that _execute_assignment returns, and the resting order
\* that _match pairs it with
Assignment(o, r) ==
  [asset |-> order[o].asset, rate |-> order[r].rate, hours |-> HoursDealt(o, r),
   requester |-> IF order[o].side = "REQUEST" THEN o ELSE r,
   provider |-> IF order[o].side = "REQUEST" THEN r ELSE o,
   resting |-> r]

\* For mutation: only the requester's workload is kept.
AppliedOnce(d) ==
  [g \in Orgs |->
    [net[g] EXCEPT ![d.asset] =
       @ + (IF g = order[d.requester].org THEN d.hours ELSE 0)]]

\* apply_assignment for the requester and the provider
Applied(d) ==
  [g \in Orgs |->
    [net[g] EXCEPT ![d.asset] =
       @ + (IF g = order[d.requester].org THEN d.hours ELSE 0)
         - (IF g = order[d.provider].org THEN d.hours ELSE 0)]]

\* last_rate after it
MarkedBy(d) ==
  [g \in Orgs |->
     IF g \in {order[d.requester].org, order[d.provider].org}
     THEN [mark[g] EXCEPT ![d.asset] = d.rate] ELSE mark[g]]

\* A resting order that is fully assigned leaves its queue.
Popped(a, r) == [resting EXCEPT ![a] = @ \ {r}]

Match(r) ==
  /\ phase = "matching"
  /\ Remaining(current) > 0
  /\ r \in Counterparts(current)
  /\ IsBest(r, Counterparts(current))
  /\ Crosses(current, r)
  /\ LET d == Assignment(current, r)
         a == order[current].asset
         full == assigned[r] + d.hours >= order[r].hours
     IN  /\ assigned' = [assigned EXCEPT ![current] = @ + d.hours,
                                         ![r] = @ + d.hours]
         /\ status' = [status EXCEPT ![r] = IF full THEN "ASSIGNED"
                                            ELSE "PARTIALLY_ASSIGNED"]
         /\ resting' = IF full THEN Popped(a, r) ELSE resting
         /\ net' = Applied(d)
         /\ mark' = MarkedBy(d)
         /\ fills' = Append(fills, d)
  /\ UNCHANGED <<book, log, heard, phase, current, said>>

EndMatch ==
  /\ phase = "matching"
  /\ \/ Remaining(current) =< 0
     \/ Counterparts(current) = {}
     \/ \E r \in Counterparts(current) :
          IsBest(r, Counterparts(current)) /\ ~Crosses(current, r)
  /\ GoTo("announcing")
  /\ UNCHANGED <<book, status, assigned, heard, resting, ledger>>

\* For mutation: the partial event is told whatever the order got.
AlwaysPartial(r) == "PARTIALLY_ASSIGNED"

\* _publish_resting_assignment
TypeOfFill(r) == IF FullyAssigned(r) THEN "ASSIGNED" ELSE "PARTIALLY_ASSIGNED"

ToAnnounce == fills[said + 1]

\* One assignment is logged and published, then the resting order it touched.
Announce ==
  /\ phase = "announcing"
  /\ said < Len(fills)
  /\ LET d == ToAnnounce
         r == d.resting
     IN  /\ log' = Append(log, d)
         /\ heard' = [heard EXCEPT ![r] =
                        Event(TypeOfFill(r), status[r], assigned[r])]
  /\ said' = said + 1
  /\ UNCHANGED <<book, status, assigned, resting, net, mark, phase, current, fills>>

\* For mutation: only the workloads of those who dealt in the turn are marked.
DealersMarked(a, rate) ==
  [g \in Orgs |->
     IF \E i \in DOMAIN fills : g \in {order[fills[i].requester].org, order[fills[i].provider].org}
     THEN [mark[g] EXCEPT ![a] = rate] ELSE mark[g]]

\* reprice_asset: every open workload of the asset is marked.
OpenMarked(a, rate) ==
  [g \in Orgs |-> IF net[g][a] # 0 THEN [mark[g] EXCEPT ![a] = rate] ELSE mark[g]]

\* The rate that marks the asset after the turn's assignments
LastRate == fills[Len(fills)].rate

Reprice ==
  /\ phase = "announcing"
  /\ said = Len(fills)
  /\ mark' = IF fills = <<>> THEN mark
             ELSE OpenMarked(order[current].asset, LastRate)
  /\ GoTo("settling")
  /\ UNCHANGED <<book, status, assigned, heard, resting, log, net>>

-----------------------------------------------------------------------------
\* _finalise

SettleAssigned ==
  /\ phase = "settling"
  /\ FullyAssigned(current)
  /\ Tell(current, "ASSIGNED", "ASSIGNED")
  /\ EndTurn
  /\ UNCHANGED <<book, assigned, resting, ledger>>

\* A partial assignment is told before the residual is dealt with.
SettlePartial ==
  /\ phase = "settling"
  /\ ~FullyAssigned(current)
  /\ IF fills # <<>>
     THEN Tell(current, "PARTIALLY_ASSIGNED", "PARTIALLY_ASSIGNED")
     ELSE UNCHANGED <<status, heard>>
  /\ GoTo("residual")
  /\ UNCHANGED <<book, assigned, resting, ledger>>

MayRest(o) == order[o].mode = "RATE_CAPPED" /\ order[o].window = "OPEN"

Rest ==
  /\ phase = "residual"
  /\ MayRest(current)
  /\ resting' = [resting EXCEPT ![order[current].asset] = @ \cup {current}]
  /\ EndTurn
  /\ UNCHANGED <<book, status, assigned, heard, ledger>>

StandDownResidual ==
  /\ phase = "residual"
  /\ ~MayRest(current)
  /\ Tell(current, "CANCELLED", "CANCELLED")
  /\ EndTurn
  /\ UNCHANGED <<book, assigned, resting, ledger>>

-----------------------------------------------------------------------------
\* cancel_work_order looks in the queue of one asset, or in all of them

Scopes == {Assets} \cup {{a} : a \in Assets}

Withdrawn(a, o) == [resting EXCEPT ![a] = @ \ {o}]

Cancel(o, scope) ==
  /\ phase = "idle"
  /\ \E a \in scope :
       /\ o \in resting[a]
       /\ resting' = Withdrawn(a, o)
  /\ Tell(o, "CANCELLED", "CANCELLED")
  /\ UNCHANGED <<book, assigned, ledger, turn>>

CancelNothing(o, scope) ==
  /\ phase = "idle"
  /\ \A a \in scope : o \notin resting[a]
  /\ UNCHANGED vars

-----------------------------------------------------------------------------
\* The telemetry pump of the application marks the workloads of a reading's asset
\* at the reading, in a turn of the event loop of its own.

ApplyReading(a, reading) ==
  /\ phase = "idle"
  /\ mark' = OpenMarked(a, reading)
  /\ UNCHANGED <<book, status, assigned, heard, resting, log, net, turn>>

-----------------------------------------------------------------------------
\* The steps of a running turn
Step ==
  \/ Reject \/ CheckRaises \/ Admit \/ StandDownComplete \/ BeginMatch
  \/ \E r \in WorkOrders : Match(r)
  \/ EndMatch \/ Announce \/ Reprice
  \/ SettleAssigned \/ SettlePartial \/ Rest \/ StandDownResidual

Next ==
  \/ \E o \in WorkOrders :
       \/ \E w \in Submissions : Submit(o, w)
       \/ SubmitDuplicate(o)
       \/ \E scope \in Scopes : Cancel(o, scope) \/ CancelNothing(o, scope)
  \/ \E a \in Assets, reading \in Readings : ApplyReading(a, reading)
  \/ Step

\* A turn that has begun runs on: nothing else can be scheduled before its end.
Fairness == WF_vars(Step)

Spec == Init /\ [][Next]_vars

FairSpec == Spec /\ Fairness

-----------------------------------------------------------------------------
\* Properties

Events == [type : {"none", "SUBMITTED", "ACCEPTED", "REJECTED", "CANCELLED",
                   "ASSIGNED", "PARTIALLY_ASSIGNED"},
           status : Statuses, assigned : Nat]

Assignments == [asset : Assets, rate : Nat, hours : Nat, requester : WorkOrders,
                provider : WorkOrders, resting : WorkOrders]

\* Every variable has the shape its declaration says, no order is assigned more
\* than it asked for (which WorkOrder validates, models.py:291); a turn is about a known
\* order, and no more assignments are announced than were made.
TypeOK ==
  /\ known \subseteq WorkOrders
  /\ order \in [known -> WorkOrder]
  /\ status \in [WorkOrders -> Statuses]
  /\ assigned \in [WorkOrders -> Nat]
  /\ \A o \in known : assigned[o] =< order[o].hours
  /\ since \in [WorkOrders -> Nat]
  /\ count \in Nat
  /\ resting \in [Assets -> SUBSET known]
  /\ log \in Seq(Assignments)
  /\ net \in [Orgs -> [Assets -> Int]]
  /\ mark \in [Orgs -> [Assets -> Nat]]
  /\ heard \in [WorkOrders -> Events]
  /\ phase \in Phases
  /\ phase = "idle" => current = None
  /\ phase # "idle" => current \in known
  /\ fills \in Seq(Assignments)
  /\ said \in 0..Len(fills)

Active(o) == status[o] \in {"ACCEPTED", "PARTIALLY_ASSIGNED"}

\* What rests can be dealt with: it stands in the queue of its own asset, is a
\* rate-capped OPEN order, is active and has hours left.  A match therefore
\* never meets a resting order without a rate (engine.py:431), nor one that was
\* filled, cancelled or rejected.
RestingIsLive ==
  \A a \in Assets : \A o \in resting[a] :
    /\ order[o].asset = a
    /\ order[o].mode = "RATE_CAPPED" /\ order[o].window = "OPEN"
    /\ Active(o)
    /\ assigned[o] < order[o].hours

\* Between turns every active order rests, so no accepted order is lost: it is
\* there to be matched and its client can cancel it.
ActiveIsResting ==
  phase = "idle" =>
    \A o \in known : Active(o) => o \in resting[order[o].asset]

\* No queue is ever crossed: the best request stays below the best offer, since
\* an order rests only after it has dealt with all it could deal with.
NeverCrossed ==
  \A a \in Assets :
    \A r \in Line(a, "REQUEST"), f \in Line(a, "OFFER") :
      order[r].rate < order[f].rate

\* What is true in the middle of a turn and makes the three invariants above
\* inductive.  The order of the turn does not rest yet; ...
TurnDoesNotRest ==
  phase # "idle" => \A a \in Assets : current \notin resting[a]

\* ... once admitted it is active until it is settled, and a residual has hours
\* left; ...
TurnIsActive ==
  /\ phase \in {"admitted", "matching", "announcing", "settling"} =>
       status[current] = "ACCEPTED"
  /\ phase = "residual" =>
       Active(current) /\ assigned[current] < order[current].hours

\* ... when its match has ended it is full or has nothing left to deal with; ...
TurnIsSpent ==
  /\ phase \in {"announcing", "settling", "residual"}
  /\ assigned[current] < order[current].hours
  => \A r \in Counterparts(current) : ~Crosses(current, r)

\* ... and every other active order rests.
OthersRest ==
  \A o \in known \ {current} : Active(o) => o \in resting[order[o].asset]

BookInv ==
  /\ TypeOK /\ RestingIsLive /\ NeverCrossed
  /\ TurnDoesNotRest /\ TurnIsActive /\ TurnIsSpent /\ OthersRest

\* The assignments made so far, those of the running turn included.
Executed == log \o SubSeq(fills, said + 1, Len(fills))

\* The hours of the assignments with the numbers is
HoursIn(is) == SumFunctionOnSet([i \in is |-> Executed[i].hours], is)

HoursOf(o) ==
  HoursIn({i \in 1..Len(Executed) : o \in {Executed[i].requester, Executed[i].provider}})

NetOf(g, a) ==
  LET sum(role) ==
        HoursIn({i \in 1..Len(Executed) :
                   Executed[i].asset = a /\ order[Executed[i][role]].org = g})
  IN  sum("requester") - sum("provider")

\* The assignments account for everything, at every moment of a turn: the hours of
\* an order are the hours of its assignments, the workload of an organization is
\* what it requested less what it provided, and over all organizations an asset's
\* workloads cancel out.
LogAccountsForAll ==
  /\ \A o \in known : assigned[o] = HoursOf(o)
  /\ \A a \in Assets :
       /\ \A g \in Orgs : net[g][a] = NetOf(g, a)
       /\ SumFunctionOnSet([g \in Orgs |-> net[g][a]], Orgs) = 0

\* Nobody deals beyond a cap: an assignment's rate suits the rate-capped order
\* of either side, whichever of them was resting.
CapsRespected ==
  \A i \in 1..Len(Executed) :
    \A o \in {Executed[i].requester, Executed[i].provider} :
      order[o].mode = "RATE_CAPPED" =>
        Accepts(order[o].side, order[o].rate, Executed[i].rate)

\* With reference data, hours are dealt in whole lots and at whole increments,
\* and what an order leaves in a queue is a whole number of lots again.
WholeLots ==
  DOMAIN Equipment # {} =>
    /\ \A i \in 1..Len(Executed) :
         /\ Executed[i].hours % Equipment[Executed[i].asset].lot = 0
         /\ Executed[i].rate % Equipment[Executed[i].asset].increment = 0
    /\ \A a \in Assets : \A o \in resting[a] : Remaining(o) % Equipment[a].lot = 0

\* No better rate is left behind: whatever the turn's order can still deal with
\* is no better than what it has dealt with.
NoTradeThrough ==
  phase # "idle" =>
    \A i \in 1..Len(fills) : \A r \in Counterparts(current) :
      Accepts(order[current].side, order[r].rate, fills[i].rate)

\* COMPLETE is all or nothing: the pre-check counts exactly the hours the match
\* then finds, level by level.
CompleteAllOrNothing ==
  phase = "idle" =>
    \A o \in known :
      order[o].window = "COMPLETE" =>
        /\ assigned[o] \in {0, order[o].hours}
        /\ status[o] = "ASSIGNED" <=> assigned[o] = order[o].hours

\* Between turns all open workloads of an asset carry one mark, whoever opened or
\* touched them last, and it is a reading or else the last rate the asset was
\* dealt at: their unrealised costs can be added up.
MarkedAtLastRate ==
  phase = "idle" =>
    \A g \in Orgs, a \in Assets :
      net[g][a] # 0 =>
        /\ \A h \in Orgs : net[h][a] # 0 => mark[h][a] = mark[g][a]
        /\ \/ mark[g][a] \in Readings
           \/ \E i \in 1..Len(log) :
                /\ log[i].asset = a /\ log[i].rate = mark[g][a]
                /\ \A j \in (i + 1)..Len(log) : log[j].asset # a

\* Between turns whoever followed the events knows every order as it is: the
\* last event about it carries its status and its hours, and its type is that
\* of the status.
EventsTellState ==
  phase = "idle" =>
    \A o \in known :
      /\ heard[o].status = status[o]
      /\ heard[o].assigned = assigned[o]
      /\ heard[o].type = IF status[o] = "NEW" THEN "SUBMITTED" ELSE status[o]

\* An order that reached a terminal status outside its own turn keeps it: its
\* hours stay and it never rests again, whatever is submitted or cancelled.
TerminalIsFinal ==
  [][\A o \in known \ {current} :
       status[o] \in Terminal =>
         /\ status'[o] = status[o] /\ assigned'[o] = assigned[o]
         /\ \A a \in Assets : o \notin resting'[a]]_vars

\* Identifiers are reserved for good and name one order: what an identifier
\* stands for never changes, even after a rejection (engine.py:280-287).
IdentifiersArePermanent ==
  [][\A o \in known : o \in known' /\ order'[o] = order[o]]_vars

\* Not rejected and not accepted yet, or never, when the check raised
Undecided(o) == status[o] = "NEW" \/ (phase = "entered" /\ o = current)

\* What the clients of the engine see of an order
Stage(o) ==
  IF o \notin known THEN "unknown"
  ELSE IF Undecided(o) THEN "pending"
  ELSE IF status[o] = "REJECTED" THEN "refused"
  ELSE IF status[o] = "CANCELLED" THEN "withdrawn"
  ELSE "live"

Exchange == INSTANCE WorkOrderExchange WITH
  stage <- [o \in WorkOrders |-> Stage(o)],
  terms <- order,
  left <- [o \in WorkOrders |-> IF o \in known THEN Remaining(o) ELSE 0]

\* The engine implements the exchange: whatever is matched, settled or cancelled,
\* a client sees only what WorkOrderExchange allows - hours that two live orders
\* trade in equal measure at a rate that suits both, and no withdrawal of an
\* order that is full, refused or withdrawn already.
ImplementsExchange == Exchange!Spec

\* A submission always comes to its end and the engine is free again.
TurnsEnd == phase # "idle" ~> phase = "idle"

=============================================================================
