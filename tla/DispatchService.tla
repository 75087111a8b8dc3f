-------------------------- MODULE DispatchService ---------------------------
(***************************************************************************)
(* The two front ends of the dispatch engine and what they keep of their   *)
(* own: the REST API with its keys, the book of each organization and the  *)
(* telemetry store (src/mittelwerk/api, auth/keys.py, telemetry/store.py), *)
(* and the write tools of an MCP server over the same engine               *)
(* (src/mittelwerk/mcp_server/server.py).                                  *)
(*                                                                         *)
(* Handlers run on one event loop and a turn of the engine never suspends, *)
(* so that a submission is one step up to the write of its assignments,    *)
(* which a worker thread makes in a session of its own.  Over a database   *)
(* file a session has a connection of its own as well; over an in-memory   *)
(* database all of them share one (StaticPool), and its one transaction.   *)
(* Of the engine only what its clients see is kept: a turn deals hours     *)
(* with resting orders of the other side and then rests, or not.           *)
(***************************************************************************)
EXTENDS KeyRing, Sequences, FiniteSetsExt

CONSTANTS WorkOrders,    \* work-order identifiers
          Requests,      \* the API requests that are handled side by side
          Sides,         \* DispatchSide: the two sides, which the clients may not tell apart
          Hours,         \* the hours an order may ask for
          McpOrg,        \* the organization the MCP server is bound to
          HistoryLimit,  \* COST_HISTORY_LIMIT
          InMemory       \* whether the database is an in-memory one

ASSUME ServiceAssumption ==
  /\ InMemory \in BOOLEAN
  /\ IsFiniteSet(Orgs) /\ IsFiniteSet(WorkOrders)
  /\ HistoryLimit \in Nat \ {0}

VARIABLES stage,       \* of each order: unknown, live, full, withdrawn, refused
          terms,       \* who submitted it, over which front end, and its side
          left,        \* the hours it has still to get
          partners,    \* the orders it was assigned to in its own turn
          withdrawer,  \* history: who had it withdrawn
          turns,       \* history: the parties of each API turn that assigned hours
          requests,    \* what each request is doing
          book,        \* the orders registered for each organization
          costs,       \* the turns in each organization's cost trajectory
          answer,      \* what the client was told about its submission
          store,       \* off, open or closed
          rows,        \* the assignments in the store
          pending,     \* those each session inserted and nobody committed yet
          owned        \* owned_open_work_order_ids of the MCP server

engineVars == <<stage, terms, left, partners, withdrawer>>
apiVars == <<requests, book, costs, answer, turns>>
storeVars == <<store, rows, pending>>
vars == <<keyVars, engineVars, apiVars, storeVars, owned>>

Idle == [step |-> "idle"]

Init ==
  /\ KeyInit
  /\ stage = [o \in WorkOrders |-> "unknown"]
  /\ terms = [o \in {} |-> "none"]
  /\ left = [o \in WorkOrders |-> 0]
  /\ partners = [o \in WorkOrders |-> {}]
  /\ withdrawer = [o \in WorkOrders |-> "none"]
  /\ turns = <<>>
  /\ requests = [r \in Requests |-> Idle]
  /\ book = [g \in Orgs |-> {}]
  /\ costs = [g \in Orgs |-> <<>>]
  /\ answer = [o \in WorkOrders |-> "none"]
  /\ store \in {"off", "open"}
  /\ rows = {}
  /\ pending = [r \in Requests |-> {}]
  /\ owned = {}

-----------------------------------------------------------------------------
\* The engine

Counterparts(side) == {p \in WorkOrders : stage[p] = "live" /\ terms[p].side # side}

Total(d) == MapThenSumSet(LAMBDA p : d[p], DOMAIN d)

\* The hours a turn for h hours may deal with each resting order: only the last
\* one may keep some.
Deals(side, h) ==
  {d \in [Counterparts(side) -> 0..h] :
     /\ \A p \in DOMAIN d : d[p] =< left[p]
     /\ Total(d) =< h
     /\ Total(d) < h => \A p \in DOMAIN d : d[p] \in {0, left[p]}}

Parties(o, t, d) == {t.org} \cup {terms[p].org : p \in {q \in DOMAIN d : d[q] > 0}}

\* The pairs that the assignments of order o are between
Assignments(o) == {o} \X partners[o]

Opened(o, t) == [p \in DOMAIN terms \cup {o} |-> IF p = o THEN t ELSE terms[p]]

\* An accepted order is matched; its residual rests or is stood down.
Accept(o, t, h, d, rests) ==
  LET residual == h - Total(d)
      after(p) == IF p = o THEN residual
                  ELSE IF p \in DOMAIN d THEN left[p] - d[p] ELSE left[p]
  IN  /\ stage[o] = "unknown"
      /\ terms' = Opened(o, t)
      /\ left' = [p \in WorkOrders |-> after(p)]
      /\ stage' = [p \in WorkOrders |->
                     IF p = o THEN IF residual = 0 THEN "full"
                                   ELSE IF rests THEN "live" ELSE "withdrawn"
                     ELSE IF stage[p] = "live" /\ after(p) = 0 THEN "full"
                     ELSE stage[p]]
      /\ partners' = [partners EXCEPT ![o] = {p \in DOMAIN d : d[p] > 0}]
      /\ UNCHANGED withdrawer

\* A refused identifier stays reserved.
Reject(o, t) ==
  /\ stage[o] = "unknown"
  /\ terms' = Opened(o, t)
  /\ stage' = [stage EXCEPT ![o] = "refused"]
  /\ UNCHANGED <<left, partners, withdrawer>>

\* engine.cancel_work_order of an order that rests
Withdraw(o, by) ==
  /\ stage[o] = "live"
  /\ stage' = [stage EXCEPT ![o] = "withdrawn"]
  /\ withdrawer' = [withdrawer EXCEPT ![o] = by]
  /\ UNCHANGED <<terms, left, partners>>

-----------------------------------------------------------------------------
\* The API

\* The middleware validates the key once; the handler runs later.
Admit(r, k) ==
  /\ requests[r] = Idle
  /\ Valid(k)
  /\ requests' = [requests EXCEPT ![r] =
                    [step |-> "admitted", org |-> records[k].org,
                     perms |-> records[k].perms]]
  /\ UNCHANGED <<keyVars, engineVars, book, costs, answer, turns, storeVars, owned>>

\* The sessions on the connection of request r
Mine(r) == IF InMemory THEN Requests ELSE {r}

\* What its transaction has inserted, and what is pending once it has ended
Inserted(r) == UNION {pending[q] : q \in Mine(r)}
Settled(r) == [q \in Requests |-> IF q \in Mine(r) THEN {} ELSE pending[q]]

\* An invalid body, a missing permission, an identifier that is taken or an order
\* that is unknown to the caller or rests no more changes nothing; nor does a query,
\* but its session ends the transaction of its connection.
Dismiss(r) ==
  /\ requests[r].step = "admitted"
  /\ requests' = [requests EXCEPT ![r] = Idle]
  /\ \/ UNCHANGED storeVars
     \/ /\ rows' \in {rows, rows \cup Inserted(r)}
        /\ pending' = Settled(r)
        /\ UNCHANGED store
  /\ UNCHANGED <<keyVars, engineVars, book, costs, answer, turns, owned>>

MayDispatch(r) == requests[r].step = "admitted" /\ "dispatch" \in requests[r].perms

\* For mutation: only a submission that is answered with success is registered.
RegisterAnswered(g, o) ==
  book' = IF \E r \in Requests : requests'[r] = [step |-> "writing", order |-> o] THEN book
          ELSE [book EXCEPT ![g] = @ \cup {o}]

Register(g, o) == book' = [book EXCEPT ![g] = @ \cup {o}]

\* For mutation: a full deque takes nothing more.
KeepOldest(s) == IF Len(s) > HistoryLimit THEN SubSeq(s, 1, HistoryLimit) ELSE s

\* deque(maxlen=COST_HISTORY_LIMIT)
Bounded(s) == IF Len(s) > HistoryLimit THEN Tail(s) ELSE s

\* _record_cost: a point for every organization that the assignments touch
RecordCost(parties) ==
  /\ turns' = Append(turns, parties)
  /\ costs' = [g \in Orgs |-> IF g \in parties THEN Bounded(Append(costs[g], Len(turns) + 1))
                              ELSE costs[g]]

Tell(r, o, what) ==
  /\ requests' = [requests EXCEPT ![r] = Idle]
  /\ answer' = [answer EXCEPT ![o] = what]

\* For mutation: a store that is closed is taken for one that is off.
PersistIfOpen(r, o) ==
  IF store = "open"
  THEN /\ requests' = [requests EXCEPT ![r] = [step |-> "writing", order |-> o]]
       /\ UNCHANGED answer
  ELSE Tell(r, o, "created")

\* _persist_assignments of a turn that made some, up to the hand-over to a thread
Persist(r, o) ==
  CASE store = "off" -> Tell(r, o, "created")
    [] store = "closed" -> Tell(r, o, "failed")
    [] OTHER -> /\ requests' = [requests EXCEPT ![r] = [step |-> "writing", order |-> o]]
                /\ UNCHANGED answer

Submit(r, o, side, h) ==
  LET t == [org |-> requests[r].org, front |-> "api", side |-> side]
  IN  /\ MayDispatch(r)
      /\ \/ /\ Reject(o, t)
            /\ Tell(r, o, "rejected")
            /\ UNCHANGED <<costs, turns>>
         \/ \E d \in Deals(side, h), rests \in BOOLEAN :
              /\ Accept(o, t, h, d, rests)
              /\ IF partners'[o] = {}
                 THEN Tell(r, o, "created") /\ UNCHANGED <<costs, turns>>
                 ELSE Persist(r, o) /\ RecordCost(Parties(o, t, d))
      /\ Register(t.org, o)
      /\ UNCHANGED <<keyVars, storeVars, owned>>

\* For mutation: the order is looked up in every book.
ShownAnyBook(g, o) == \E f \in Orgs : o \in book[f]

\* get_work_order: other organizations' orders look unknown.
Shown(g, o) == o \in book[g]

\* work_orders_for and active_work_order_count: what the lists and the dashboard of
\* an organization show
Listed(g) == {o \in WorkOrders : Shown(g, o)}
ActiveCount(g) == Cardinality({o \in Listed(g) : stage[o] = "live"})

Cancel(r, o) ==
  /\ MayDispatch(r)
  /\ Shown(requests[r].org, o)
  /\ Withdraw(o, requests[r].org)
  /\ requests' = [requests EXCEPT ![r] = Idle]
  /\ UNCHANGED <<keyVars, book, costs, answer, turns, storeVars, owned>>

-----------------------------------------------------------------------------
\* The store, as the worker thread of a request uses it

\* session() opens only on a store that is not closed; the flush inserts all rows.
OpenSession(r) ==
  /\ requests[r].step = "writing"
  /\ \/ /\ store = "open"
        /\ pending' = [pending EXCEPT ![r] = Assignments(requests[r].order)]
        /\ requests' = [requests EXCEPT ![r].step = "flushed"]
     \/ /\ requests' = [requests EXCEPT ![r].step = IF store = "open" THEN "failed" ELSE "lost"]
        /\ UNCHANGED pending
  /\ UNCHANGED <<keyVars, engineVars, book, costs, answer, turns, store, rows, owned>>

\* The transaction of the connection is committed, or fails: a connection in use is
\* left alone by close(), except for the one of an in-memory database.
Commit(r) ==
  \/ /\ InMemory => store = "open"
     /\ rows' = rows \cup Inserted(r)
     /\ pending' = Settled(r)
     /\ requests' = [requests EXCEPT ![r].step = "committed"]
  \/ /\ requests' = [requests EXCEPT ![r].step = "failed"]
     /\ UNCHANGED <<rows, pending>>

CommitSession(r) ==
  /\ requests[r].step = "flushed"
  /\ Commit(r)
  /\ UNCHANGED <<keyVars, engineVars, book, costs, answer, turns, store, owned>>

\* Whatever its connection has not committed is rolled back when a session ends.
EndSession(r) ==
  /\ requests[r].step \in {"committed", "failed"}
  /\ requests' = [requests EXCEPT ![r].step =
                     IF requests[r].step = "committed" THEN "stored" ELSE "lost"]
  /\ pending' = Settled(r)
  /\ UNCHANGED <<keyVars, engineVars, book, costs, answer, turns, store, rows, owned>>

\* The handler resumes and answers 201, or 500 with what there is to reconcile.
Answer(r) ==
  /\ requests[r].step \in {"stored", "lost"}
  /\ IF answer[requests[r].order] = "none"
     THEN Tell(r, requests[r].order,
               IF requests[r].step = "stored" THEN "created" ELSE "failed")
     ELSE requests' = [requests EXCEPT ![r] = Idle] /\ UNCHANGED answer
  /\ UNCHANGED <<keyVars, engineVars, book, costs, turns, storeVars, owned>>

\* The server cancels the handler while it waits: nobody is answered, and the thread
\* goes on, unless it had not begun.
Abandon(r) ==
  /\ requests[r].step \notin {"idle", "admitted"}
  /\ answer[requests[r].order] = "none"
  /\ answer' = [answer EXCEPT ![requests[r].order] = "unheard"]
  /\ \/ UNCHANGED requests
     \/ requests[r].step = "writing" /\ requests' = [requests EXCEPT ![r] = Idle]
  /\ UNCHANGED <<keyVars, engineVars, book, costs, turns, storeVars, owned>>

\* The owner of the store closes it: the application's teardown, or whoever
\* handed the store to create_app.
CloseStore ==
  /\ store = "open"
  /\ store' = "closed"
  /\ IF InMemory THEN rows' = {} /\ pending' = [r \in Requests |-> {}]
     ELSE UNCHANGED <<rows, pending>>
  /\ UNCHANGED <<keyVars, engineVars, apiVars, owned>>

-----------------------------------------------------------------------------
\* The write tools of the MCP server; they keep no book and store nothing.

\* An order that is active after its turn is noted.
OwnedAfter(o) == IF stage'[o] = "live" THEN owned \cup {o} ELSE owned

McpSubmit(o, side, h) ==
  LET t == [org |-> McpOrg, front |-> "mcp", side |-> side]
  IN  /\ \/ Reject(o, t)
         \/ \E d \in Deals(side, h), rests \in BOOLEAN : Accept(o, t, h, d, rests)
      /\ owned' = OwnedAfter(o)
      /\ UNCHANGED <<keyVars, apiVars, storeVars>>

\* The note goes, whether the order still rested or not.
McpCancel(o) ==
  /\ o \in owned
  /\ owned' = owned \ {o}
  /\ IF stage[o] = "live" THEN Withdraw(o, "mcp") ELSE UNCHANGED engineVars
  /\ UNCHANGED <<keyVars, apiVars, storeVars>>

-----------------------------------------------------------------------------
ManageKeys ==
  /\ KeyNext
  /\ UNCHANGED <<engineVars, apiVars, storeVars, owned>>

Next ==
  \/ ManageKeys
  \/ \E r \in Requests, k \in RawKeys : Admit(r, k)
  \/ \E r \in Requests, o \in WorkOrders, side \in Sides, h \in Hours : Submit(r, o, side, h)
  \/ \E r \in Requests, o \in WorkOrders : Cancel(r, o)
  \/ \E r \in Requests : \/ Dismiss(r)
                         \/ OpenSession(r) \/ CommitSession(r) \/ EndSession(r)
                         \/ Answer(r) \/ Abandon(r)
  \/ CloseStore
  \/ \E o \in WorkOrders, side \in Sides, h \in Hours : McpSubmit(o, side, h)
  \/ \E o \in WorkOrders : McpCancel(o)

Spec == Init /\ [][Next]_vars

-----------------------------------------------------------------------------
\* Properties

ByApi == {o \in DOMAIN terms : terms[o].front = "api"}

\* Where sessions have connections of their own (over a shared one the end of a query's
\* session may roll back what another has flushed), the assignments of a submission over
\* the API are in the store all or none; all of them are when its client was told so,
\* and none when it was told that they are not: however the write, the closing of the
\* store, other requests and the cancelling of the handler interleave.
NothingLostSilently ==
  ~InMemory =>
    /\ \A o \in ByApi :
         /\ Assignments(o) \subseteq rows \/ Assignments(o) \cap rows = {}
         /\ answer[o] = "created" /\ store # "off" => Assignments(o) \subseteq rows
         /\ answer[o] = "failed" => Assignments(o) \cap rows = {} /\ Assignments(o) # {}
         /\ answer[o] = "none" => \E r \in Requests : /\ requests[r] # Idle
                                                      /\ requests[r].step # "admitted"
                                                      /\ requests[r].order = o
    /\ rows \subseteq UNION {Assignments(o) : o \in ByApi}

\* An order that rests can be cancelled by the one who submitted it, through the
\* front end it came by, from the moment it rests: also while its assignments are
\* being written and after that has failed.
RestingIsCancellable ==
  \A o \in WorkOrders :
    stage[o] = "live" =>
      IF terms[o].front = "api" THEN Shown(terms[o].org, o) ELSE o \in owned

\* Nobody but its submitter has an order withdrawn or sees it listed, although
\* everybody's orders rest in one queue and requests of several keys interleave.
OwnersOnly ==
  /\ \A o \in WorkOrders :
       withdrawer[o] # "none" =>
         withdrawer[o] = IF terms[o].front = "api" THEN terms[o].org ELSE "mcp"
  /\ \A g \in Orgs : Listed(g) = {o \in ByApi : terms[o].org = g}

\* The turns whose assignments touched an organization
Touched(g) == {i \in DOMAIN turns : g \in turns[i]}

\* The trajectory on the dashboard of an organization has the latest of the turns
\* that touched it, its own and its counterparties', in their order, without gap or
\* repetition; and the dashboards together count each order that rests once.
DashboardIsExact ==
  /\ \A g \in Orgs :
       LET n == Cardinality(Touched(g))
       IN  /\ Len(costs[g]) = IF n < HistoryLimit THEN n ELSE HistoryLimit
           /\ \A i, j \in DOMAIN costs[g] : i < j => costs[g][i] < costs[g][j]
           /\ \A i \in DOMAIN costs[g] :
                /\ costs[g][i] \in Touched(g)
                /\ \A t \in Touched(g) :
                     t > costs[g][i] => \E j \in DOMAIN costs[g] : costs[g][j] = t
  /\ SumFunctionOnSet([g \in Orgs |-> ActiveCount(g)], Orgs)
       = Cardinality({o \in ByApi : stage[o] = "live"})

=============================================================================
