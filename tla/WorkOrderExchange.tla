-------------------------- MODULE WorkOrderExchange -------------------------
(***************************************************************************)
(* What the dispatch engine promises its clients, without queues, turns,   *)
(* priorities or events: a work order is opened once, with terms that      *)
(* never change; it is refused or admitted; while it is live it may trade  *)
(* hours, as many as the other party, with a live order of the other side  *)
(* of its asset at a rate that suits both; and while hours are left it may *)
(* be withdrawn, for good.                                                 *)
(***************************************************************************)
EXTENDS RateTime

CONSTANTS WorkOrders,  \* work-order identifiers
          Submissions  \* the terms that clients ask for

VARIABLES stage,  \* unknown, pending, live, withdrawn or refused
          terms,  \* what each order that was opened asks for
          left    \* the hours it has still to get

vars == <<stage, terms, left>>

Init ==
  /\ stage = [o \in WorkOrders |-> "unknown"]
  /\ terms = [o \in {} |-> "none"]
  /\ left = [o \in WorkOrders |-> 0]

Open(o) ==
  /\ stage[o] = "unknown"
  /\ stage' = [stage EXCEPT ![o] = "pending"]
  /\ \E w \in Submissions :
       /\ terms' = [p \in DOMAIN terms \cup {o} |-> IF p = o THEN w ELSE terms[p]]
       /\ left' = [left EXCEPT ![o] = w.hours]

Decide(o) ==
  /\ stage[o] = "pending"
  /\ \E s \in {"live", "refused"} : stage' = [stage EXCEPT ![o] = s]
  /\ UNCHANGED <<terms, left>>

Suits(rate, w) == w.mode = "RATE_CAPPED" => Accepts(w.side, w.rate, rate)

Trade(q, f) ==
  /\ stage[q] = "live" /\ stage[f] = "live"
  /\ terms[q].side = "REQUEST" /\ terms[f].side = "OFFER"
  /\ terms[q].asset = terms[f].asset
  /\ \E rate \in {terms[q].rate, terms[f].rate} \ {NoRate} :
       Suits(rate, terms[q]) /\ Suits(rate, terms[f])
  /\ \E h \in 1..left[q] :
       /\ h =< left[f]
       /\ left' = [left EXCEPT ![q] = @ - h, ![f] = @ - h]
  /\ UNCHANGED <<stage, terms>>

Withdraw(o) ==
  /\ stage[o] = "live"
  /\ left[o] > 0
  /\ stage' = [stage EXCEPT ![o] = "withdrawn"]
  /\ UNCHANGED <<terms, left>>

Next ==
  \/ \E o \in WorkOrders : Open(o) \/ Decide(o) \/ Withdraw(o)
  \/ \E q, f \in WorkOrders : Trade(q, f)

Spec == Init /\ [][Next]_vars

=============================================================================
