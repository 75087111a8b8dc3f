------------------------- MODULE OperationsAnalytics ------------------------
(***************************************************************************)
(* How analytics/operations.py combines the books of organizational units  *)
(* for one asset.  A unit has the workloads of its provider, which it      *)
(* asks before every result, and a budget.  Which of two workloads was     *)
(* updated last is left open.  A unit also has capacity models             *)
(* (analytics/capacity.py) under weights and a history of its backlog.     *)
(***************************************************************************)
EXTENDS WorkloadLedger

CONSTANTS Assets,     \* what capacity models are registered for
          Models,     \* [backlog, daily, rate]: daily hours of the whole crew
          Weights,    \* the weights of a registration
          Deltas,     \* a day's change of the organization's backlog
          MaxRecords  \* bound: what is registered and recorded

ASSUME UnitAssumption ==
  /\ \A m \in Models : m.backlog \in Nat /\ m.daily \in Nat \ {0} /\ m.rate \in Nat \ {0}
  /\ Weights \subseteq Int /\ Deltas \subseteq Int

VARIABLES capacity,  \* for each organization its registered models and their weights
          history,   \* the changes of its backlog, day by day
          records    \* how much was registered and recorded

unitVars == <<capacity, history, records>>

UnitInit ==
  /\ capacity = [g \in Orgs |-> <<>>]
  /\ history = [g \in Orgs |-> <<>>]
  /\ records = 0

\* register_capacity() replaces the model of an asset; it keeps a copy, which the
\* caller's later changes do not reach.
Registered(models, a, entry) ==
  [b \in DOMAIN models \cup {a} |-> IF b = a THEN entry ELSE models[b]]

RegisterCapacity(g, a, model, weight) ==
  /\ records < MaxRecords
  /\ capacity' = [capacity EXCEPT ![g] = Registered(@, a, [model |-> model, weight |-> weight])]
  /\ records' = records + 1
  /\ UNCHANGED history

RecordDailyBacklog(g, delta) ==
  /\ records < MaxRecords
  /\ history' = [history EXCEPT ![g] = Append(@, delta)]
  /\ records' = records + 1
  /\ UNCHANGED capacity

UnitNext ==
  \/ \E g \in Orgs, a \in Assets, model \in Models, weight \in Weights :
       RegisterCapacity(g, a, model, weight)
  \/ \E g \in Orgs, delta \in Deltas : RecordDailyBacklog(g, delta)

\* Trading and what the units record take turns.
UnitSpec ==
  /\ LedgerInit /\ UnitInit
  /\ [][(LedgerNext /\ UNCHANGED unitVars) \/ (UnitNext /\ UNCHANGED ledgerVars)]_<<ledgerVars, unitVars>>

-----------------------------------------------------------------------------
\* Workloads that are joined

Opposed(v, w) == v.net * w.net < 0

\* For mutation: the mean is not weighted with the hours.
MeanOfBothPlain(v, w) == Over(Plus(v.average, w.average), 2)

MeanOfBoth(v, w) ==
  Over(Plus(Times(v.average, Magnitude(v.net)), Times(w.average, Magnitude(w.net))),
       Magnitude(v.net) + Magnitude(w.net))

Surviving(v, w) == IF Magnitude(v.net) > Magnitude(w.net) THEN v ELSE w

\* _aggregate_workload(): w joins v, which is the one updated last or not.
Aggregated(v, w, vIsLatest) ==
  LET latest == IF vIsLatest THEN v ELSE w
      hours == v.net + w.net
  IN  [net |-> hours,
       average |-> CASE hours = 0 -> Whole(0)
                     [] hours # 0 /\ Opposed(v, w) -> Surviving(v, w).average
                     [] OTHER -> MeanOfBoth(v, w),
       realized |-> Plus(v.realized, w.realized),
       unrealized |-> Plus(v.unrealized, w.unrealized),
       last |-> CASE hours = 0 -> 0
                  [] hours # 0 /\ Opposed(v, w) -> Surviving(v, w).last
                  [] OTHER -> latest.last]

\* exposure_value(): at the mark, or at the average when there is none
Exposure(w) == Times(IF w.last = 0 THEN w.average ELSE Whole(w.last), w.net)

\* A unit takes the workload of its provider anew before every result.
Unit(g) == [workload |-> workload[g], budget |-> Whole(0),
            capacity |-> capacity[g], history |-> history[g]]

\* total_exposure_value and total_cost of a unit
ExposureOf(u) == Plus(Exposure(u.workload), u.budget)
CostOf(u) == Plus(u.workload.realized, u.workload.unrealized)

\* What a capacity model projects; the sensitivities are differences of these.
CompletionDays == [m \in Models |-> Lowest(m.backlog, m.daily)]
CostEstimate == [m \in Models |-> Whole(m.backlog * m.rate)]

\* aggregate_capacity() of one metric
Aggregate(models, metric) ==
  LET Add(a, sum) == Plus(sum, Times(metric[models[a].model], models[a].weight))
  IN  FoldSet(Add, Whole(0), DOMAIN models)

\* compute_utilization()
Utilization(u) ==
  [completion_days |-> Aggregate(u.capacity, CompletionDays),
   cost_estimate |-> Aggregate(u.capacity, CostEstimate)]

\* max_backlog_overrun(): the highest rise of the cumulated backlog
MaxOverrun(days) ==
  LET after == [i \in 0..Len(days) |-> SumFunctionOnSet(days, 1..i)]
      lowest(i) == Min({after[j] : j \in 0..i})
  IN  Max({after[i] - lowest(i) : i \in 0..Len(days)})

\* Two models of one asset under other parameters, or histories of different
\* lengths, are refused.
SameModel(v, w) == v.model = w.model

Combinable(t, u) ==
  /\ t.history = <<>> \/ u.history = <<>> \/ Len(t.history) = Len(u.history)
  /\ \A a \in DOMAIN t.capacity \cap DOMAIN u.capacity :
       SameModel(t.capacity[a], u.capacity[a])

DaysOfBoth(t, u) ==
  CASE t.history = <<>> -> u.history
    [] u.history = <<>> -> t.history
    [] OTHER -> [i \in DOMAIN t.history |-> t.history[i] + u.history[i]]

CapacityOfBoth(t, u) ==
  [a \in DOMAIN t.capacity \cup DOMAIN u.capacity |->
     IF a \notin DOMAIN t.capacity THEN u.capacity[a]
     ELSE IF a \notin DOMAIN u.capacity THEN t.capacity[a]
     ELSE [t.capacity[a] EXCEPT !.weight = @ + u.capacity[a].weight]]

\* __add__(): what netting takes from the exposure goes to the budget.
Combined(t, u, tIsLatest) ==
  LET w == Aggregated(t.workload, u.workload, tIsLatest)
      source == Plus(Exposure(t.workload), Exposure(u.workload))
  IN  [workload |-> w,
       budget |-> Plus(Plus(t.budget, u.budget), Minus(source, Exposure(w))),
       capacity |-> CapacityOfBoth(t, u), history |-> DaysOfBoth(t, u)]

\* __mul__()
Scaled(u, k) ==
  [workload |-> [u.workload EXCEPT !.net = @ * k, !.realized = Times(@, k),
                                   !.unrealized = Times(@, k)],
   budget |-> Times(u.budget, k),
   capacity |-> [a \in DOMAIN u.capacity |-> [u.capacity[a] EXCEPT !.weight = @ * k]],
   history |-> [i \in DOMAIN u.history |-> u.history[i] * k]]

\* __sub__()
Difference(t, u, tIsLatest) == Combined(t, Scaled(u, -1), tIsLatest)

-----------------------------------------------------------------------------
\* Properties

\* The two units' averages on the side that has the hours bound the combined one.
AverageBetween(t, u, both) ==
  LET side == {w \in {t.workload, u.workload} : w.net * both.workload.net > 0}
  IN  IF both.workload.net = 0 THEN both.workload.average = Whole(0)
      ELSE /\ \E w \in side : AtMost(w.average, both.workload.average)
           /\ \E w \in side : AtMost(both.workload.average, w.average)

\* Both metrics of two units
SumOf(m, n) == [metric \in DOMAIN m |-> Plus(m[metric], n[metric])]

\* Combining loses nothing: cost and exposure add up, also with a third unit; if these are
\* all there are they have no hours left, since each assignment has two sides, and all of
\* the exposure is in the budget; what is added and taken away again leaves hours, cost, exposure and
\* utilization as they were; a combined average lies between those of the side that
\* survives; utilizations add up, and no overrun is larger than the two together.
CombiningLosesNothing ==
  \A g, h \in Orgs, latest \in BOOLEAN :
    LET both == Combined(Unit(g), Unit(h), latest)
        back == Difference(both, Unit(h), ~latest)
    IN  g # h /\ Combinable(Unit(g), Unit(h)) =>
          /\ AverageBetween(Unit(g), Unit(h), both)
          /\ CostOf(both) = Plus(CostOf(Unit(g)), CostOf(Unit(h)))
          /\ ExposureOf(both) = Plus(ExposureOf(Unit(g)), ExposureOf(Unit(h)))
          /\ Utilization(both) = SumOf(Utilization(Unit(g)), Utilization(Unit(h)))
          /\ MaxOverrun(both.history) =< MaxOverrun(history[g]) + MaxOverrun(history[h])
          /\ back.workload.net = workload[g].net
          /\ CostOf(back) = CostOf(Unit(g)) /\ ExposureOf(back) = ExposureOf(Unit(g))
          /\ Combinable(both, Unit(h)) /\ Utilization(back) = Utilization(Unit(g))
          /\ MaxOverrun(back.history) = MaxOverrun(history[g])
          /\ \A k \in Orgs \ {g, h} :
               LET all == Combined(both, Unit(k), latest)
               IN  Combinable(both, Unit(k)) =>
                     /\ Orgs = {g, h, k} => all.workload.net = 0
                     /\ CostOf(all) = Plus(CostOf(both), CostOf(Unit(k)))
                     /\ ExposureOf(all) = Plus(ExposureOf(both), ExposureOf(Unit(k)))
                     /\ all.workload.net = 0 => all.budget = ExposureOf(all)

=============================================================================
