---------------------------- MODULE MCEngineParts ---------------------------
(***************************************************************************)
(* What the engine works on: the queue of an asset, the workloads for it,  *)
(* and what else the units have that analytics combines.  No two of the    *)
(* three touch each other, so that each behaviour exercises one.           *)
(***************************************************************************)
EXTENDS DispatchQueue, OperationsAnalytics, TLC

AllInit == Init /\ LedgerInit /\ UnitInit

Untraded == trades = <<>> /\ workload = [g \in Orgs |-> Idle]

AllNext ==
  \/ Untraded /\ records = 0 /\ Next /\ UNCHANGED <<ledgerVars, unitVars>>
  \/ clock = 0 /\ records = 0 /\ LedgerNext /\ UNCHANGED <<vars, unitVars>>
  \/ clock = 0 /\ Untraded /\ UnitNext /\ UNCHANGED <<vars, ledgerVars>>

AllSpec == AllInit /\ [][AllNext]_<<vars, ledgerVars, unitVars>>

-----------------------------------------------------------------------------
\* Values

CONSTANTS r1, r2, r3, r4, f1, f2, x

\* Seven orders: four requests of which three share a rate, two offers at one rate
\* and an order without a rate, which never rests.
SevenOrders == {r1, r2, r3, r4, f1, f2, x}
SevenSides == [o \in SevenOrders |-> IF o \in {f1, f2} THEN "OFFER" ELSE "REQUEST"]
SevenRates == [o \in SevenOrders |-> CASE o = x -> NoRate
                                      [] o = r4 -> 2
                                      [] OTHER -> 1]

SomeModels == {[backlog |-> 6, daily |-> 4, rate |-> 1],
               [backlog |-> 3, daily |-> 2, rate |-> 2]}
SomeDeltas == {-1, 2}

\* The organizations, and the orders of one side and rate, may be treated alike.
Symmetric == Permutations(Orgs) \cup Permutations({r1, r2, r3}) \cup Permutations({f1, f2})
=============================================================================
