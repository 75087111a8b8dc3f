-------------------------- MODULE MCDispatchEngine --------------------------
(* Small sets of work orders for the engine.                                *)
EXTENDS DispatchEngine, TLC

CONSTANTS alpha, beta, gamma, cnc, press, mill

W(g, a, s, m, win, h, r, st) ==
  [org |-> g, asset |-> a, side |-> s, mode |-> m, window |-> win, hours |-> h,
   rate |-> r, status |-> st]

\* One asset, all the ways to trade: requests of alpha and offers of beta at two
\* rates, an order that is filled or not at all, and orders that take any rate.
TradingSubmissions ==
  {W(g, cnc, s, "RATE_CAPPED", "OPEN", h, r, "NEW") :
     <<g, s>> \in {<<alpha, "REQUEST">>, <<beta, "OFFER">>}, h \in {1, 2}, r \in {1, 2}}
  \cup {W(alpha, cnc, "OFFER", "RATE_CAPPED", "COMPLETE", 2, 2, "NEW"),
        W(alpha, cnc, "REQUEST", "ANY_RATE", "OPEN", 3, NoRate, "NEW"),
        W(alpha, cnc, "OFFER", "ANY_RATE", "COMPLETE", 3, NoRate, "NEW")}

NoEquipment == [a \in {} |-> [lot |-> 1, increment |-> 1]]

\* Two configured assets and one that is not, orders to match on the configured
\* ones, and every way to be refused.
FullEquipment == (cnc :> [lot |-> 2, increment |-> 2] @@ press :> [lot |-> 1, increment |-> 1])
BoundarySubmissions ==
  {W(beta, a, "OFFER", "RATE_CAPPED", "OPEN", 2, r, "NEW") : a \in {cnc, press}, r \in {2, 4}}
  \cup {W(alpha, cnc, "REQUEST", "RATE_CAPPED", "OPEN", 4, 4, "NEW"),
        W(alpha, press, "REQUEST", "RATE_CAPPED", "IMMEDIATE", 3, 4, "NEW"),
        W(alpha, cnc, "REQUEST", "RATE_CAPPED", "OPEN", 1, 2, "NEW"),
        W(alpha, cnc, "REQUEST", "RATE_CAPPED", "OPEN", 2, 1, "NEW"),
        W(beta, mill, "OFFER", "RATE_CAPPED", "OPEN", 2, 2, "NEW"),
        W(beta, cnc, "OFFER", "ESCALATION", "OPEN", 2, 2, "NEW"),
        W(beta, cnc, "OFFER", "RATE_CAPPED", "SHIFT", 2, 2, "NEW"),
        W(beta, cnc, "OFFER", "RATE_CAPPED", "OPEN", 2, 2, "ACCEPTED")}

\* Three organizations deal in two assets at two rates: while two of them deal, the
\* third one looks on with a workload it opened at another rate.
MarkedSubmissions ==
  {W(beta, press, "OFFER", "RATE_CAPPED", "OPEN", 2, r, "NEW") : r \in {2, 4}}
  \cup {W(g, press, "REQUEST", "RATE_CAPPED", "OPEN", h, 4, "NEW") :
          g \in {alpha, gamma}, h \in {2, 4}}
  \cup {W(beta, cnc, "OFFER", "RATE_CAPPED", "OPEN", 2, 2, "NEW"),
        W(gamma, cnc, "REQUEST", "RATE_CAPPED", "OPEN", 2, 4, "NEW")}

BoundaryAndMarks == BoundarySubmissions \cup MarkedSubmissions

\* Bound: a behaviour has three orders to be checked at the boundary, or four that are
\* all admitted and leave workloads to be marked.
OneScene ==
  LET submitted == {order[o] : o \in known}
      refused == {o \in known : status[o] = "REJECTED" \/ (status[o] = "NEW" /\ current # o)}
  IN  \/ submitted \subseteq BoundarySubmissions /\ Cardinality(known) < 4
      \/ submitted \subseteq MarkedSubmissions /\ refused = {}

\* Bound: identifiers, which are numbers here, are taken in their order.  What is
\* submitted does not depend on them, so every behaviour has one like it that does.
InOrder == known = 1..Cardinality(known)
=============================================================================
