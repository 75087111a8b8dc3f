--------------------------- MODULE WorkloadLedger ---------------------------
(***************************************************************************)
(* The workloads of the organizations for one asset: WorkloadManager       *)
(* (src/mittelwerk/core/engine.py) and Workload (src/mittelwerk/core/      *)
(* models.py).  The engine applies each assignment to the requester and    *)
(* then to the provider and marks the open workloads after a match.        *)
(* Amounts are exact fractions; the code's Decimals round a division to 28 *)
(* digits, which no property here is about.                                *)
(***************************************************************************)
EXTENDS Integers, Sequences, FiniteSetsExt

CONSTANTS Orgs,       \* organizations
          Hours,      \* the hours an assignment may have
          Rates,      \* the rates it may have, and the marks
          MaxTrades   \* bound: how many assignments are made

ASSUME LedgerAssumption ==
  /\ Hours \subseteq Nat \ {0} /\ Rates \subseteq Nat \ {0}
  /\ MaxTrades \in Nat

VARIABLES workload,  \* what is known of each organization's workload
          trades     \* history: the assignments made

ledgerVars == <<workload, trades>>

-----------------------------------------------------------------------------
\* Exact fractions in lowest terms

Lowest(n, d) ==
  LET g == Max({k \in 1..d : n % k = 0 /\ d % k = 0})
  IN  [n |-> n \div g, d |-> d \div g]

Whole(n) == [n |-> n, d |-> 1]
Plus(p, q) == Lowest(p.n * q.d + q.n * p.d, p.d * q.d)
Times(p, k) == Lowest(p.n * k, p.d)
Over(p, k) == Lowest(p.n, p.d * k)
Minus(p, q) == Plus(p, Times(q, -1))
AtMost(p, q) == p.n * q.d =< q.n * p.d

Magnitude(k) == IF k < 0 THEN -k ELSE k
Sign(k) == IF k > 0 THEN 1 ELSE -1

-----------------------------------------------------------------------------
\* One workload w after delta signed hours at a rate

Idle == [net |-> 0, average |-> Whole(0), realized |-> Whole(0),
         unrealized |-> Whole(0), last |-> 0]

SameSide(w, delta) == w.net # 0 /\ (w.net > 0 <=> delta > 0)
Reduces(w, delta) == w.net # 0 /\ ~SameSide(w, delta)

\* For mutation: a flip is taken to close all the hours it brings.
ClosingAll(w, delta) == Magnitude(delta)

\* closing_hours
Closing(w, delta) ==
  IF Magnitude(delta) < Magnitude(w.net) THEN Magnitude(delta) ELSE Magnitude(w.net)

\* The cost that is realised
Realised(w, delta, rate) ==
  IF Reduces(w, delta)
  THEN Times(Minus(Whole(rate), w.average), Closing(w, delta) * Sign(w.net))
  ELSE Whole(0)

\* The volume-weighted rate once hours have joined on the same side
Weighted(w, delta, rate) ==
  Over(Plus(Times(w.average, Magnitude(w.net)), Whole(rate * Magnitude(delta))),
       Magnitude(w.net + delta))

\* average_service_rate: opened or flipped, increased, closed, reduced
Average(w, delta, rate) ==
  CASE w.net = 0 \/ w.net * (w.net + delta) < 0 -> Whole(rate)
    [] SameSide(w, delta) -> Weighted(w, delta, rate)
    [] w.net + delta = 0 -> Whole(0)
    [] OTHER -> w.average

\* reprice and _recompute_unrealized_cost
Marked(w, rate) ==
  [w EXCEPT !.last = rate,
            !.unrealized = IF w.net = 0 THEN Whole(0)
                           ELSE Times(Minus(Whole(rate), w.average), w.net)]

\* Workload.apply_assignment
Applied(w, delta, rate) ==
  Marked([w EXCEPT !.net = @ + delta,
                   !.average = Average(w, delta, rate),
                   !.realized = Plus(@, Realised(w, delta, rate))], rate)

-----------------------------------------------------------------------------
LedgerInit ==
  /\ workload = [g \in Orgs |-> Idle]
  /\ trades = <<>>

\* apply_assignment for the requester, then for the provider, which may be one
\* organization
Assigned(w, q, p, h, r) ==
  LET requested == [w EXCEPT ![q] = Applied(@, h, r)]
  IN  [requested EXCEPT ![p] = Applied(@, -h, r)]

Assign(q, p, h, r) ==
  /\ Len(trades) < MaxTrades
  /\ workload' = Assigned(workload, q, p, h, r)
  /\ trades' = Append(trades, [requester |-> q, provider |-> p, hours |-> h, rate |-> r])

\* reprice_asset marks the open workloads.
Reprice(r) ==
  /\ workload' = [g \in Orgs |->
                    IF workload[g].net # 0 THEN Marked(workload[g], r) ELSE workload[g]]
  /\ UNCHANGED trades

LedgerNext ==
  \/ \E q, p \in Orgs, h \in Hours, r \in Rates : Assign(q, p, h, r)
  \/ \E r \in Rates : Reprice(r)

LedgerSpec == LedgerInit /\ [][LedgerNext]_ledgerVars

-----------------------------------------------------------------------------
\* Properties

\* The signed hours that assignment i gave to an organization
SignedHours(g, i) ==
  (IF trades[i].requester = g THEN trades[i].hours ELSE 0)
    - (IF trades[i].provider = g THEN trades[i].hours ELSE 0)

TotalCost(g) == Plus(workload[g].realized, workload[g].unrealized)

\* Whatever opened, increased, reduced, closed or flipped a workload, its total
\* cost is what its assignments are worth at its mark: no cost is lost or counted
\* twice when it is realised.
CostIsMarkToMarket ==
  \A g \in Orgs :
    TotalCost(g) =
      Whole(SumFunctionOnSet(
        [i \in DOMAIN trades |-> SignedHours(g, i) * (workload[g].last - trades[i].rate)],
        DOMAIN trades))

=============================================================================
