------------------------- MODULE MCDispatchService --------------------------
(* Two organizations and the requests, keys and orders TLC may treat alike. *)
EXTENDS DispatchService, TLC

CONSTANTS alpha, beta

ReadDispatch == {"read", "dispatch"}
AllGrants == {ReadDispatch}

Symmetric == Permutations(WorkOrders) \cup Permutations(Requests) \cup Permutations(RawKeys)
             \cup Permutations(Sides)

\* Bound: a run in which a key was revoked or rotated away goes on only while no
\* two orders are known; what a handler does no longer depends on its key.
EarlyRevocation ==
  (\E k \in RawKeys : Known(k) /\ records[k].revoked) => Cardinality(DOMAIN terms) =< 1

\* Bound: one request at a time is admitted and not handled yet, since it brings no
\* more than the grants it was admitted with and may be admitted later as well.
OneAdmitted == Cardinality({r \in Requests : requests[r].step = "admitted"}) =< 1

\* Bound: one order comes over the MCP server, among those of the API.
OneByMcp == Cardinality({o \in DOMAIN terms : terms[o].front = "mcp"}) =< 1

\* Bounds of the run about the dashboards, which neither the store nor a revocation
\* touches: no key is revoked, the store is off and handlers answer.
NothingRevoked == \A k \in RawKeys : Known(k) => ~records[k].revoked
NoStore == store = "off"
=============================================================================
