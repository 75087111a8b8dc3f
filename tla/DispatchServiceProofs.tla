----------------------- MODULE DispatchServiceProofs ------------------------
(***************************************************************************)
(* The promises of the two front ends to their clients, for any number of  *)
(* organizations, keys, orders and requests that are handled side by side. *)
(* The keys come first: whatever their number, their grants and lifetimes, *)
(* and however long the clock runs, a key that was refused stays refused.  *)
(***************************************************************************)
EXTENDS DispatchService, SumTheorems, SequenceTheorems, TLAPS

Record == [org : Orgs, perms : Grants, end : Nat \cup {NoEnd}, revoked : BOOLEAN]

\* The clock only matters to a record as a number that grows.
KeyTypeOK ==
  /\ now \in Nat
  /\ DOMAIN records \subseteq RawKeys
  /\ records \in [DOMAIN records -> Record]

-----------------------------------------------------------------------------
\* A lifetime that is let in ends at a moment, or never.
LEMMA ExpiryType ==
  ASSUME now \in Nat, NEW ttl \in Ends
  PROVE  Expiry(ttl) \in Nat \cup {NoEnd}
BY LifetimesAssumption DEF Expiry, Lifetime, Ends

\* Storing a key keeps the records what they are: records of raw keys.
LEMMA StoredType ==
  ASSUME now \in Nat, NEW rs, NEW k \in RawKeys, NEW org \in Orgs, NEW perms \in Grants,
         NEW ttl \in Ends, DOMAIN rs \subseteq RawKeys, rs \in [DOMAIN rs -> Record]
  PROVE  LET st == Stored(rs, k, org, perms, ttl)
         IN  /\ DOMAIN st = DOMAIN rs \cup {k}
             /\ DOMAIN st \subseteq RawKeys
             /\ st \in [DOMAIN st -> Record]
BY ExpiryType DEF Stored, Record

\* Revoking one changes its mark and nothing else.
LEMMA RevokedType ==
  ASSUME KeyTypeOK, NEW k, Known(k)
  PROVE  /\ DOMAIN Revoked(k) = DOMAIN records
         /\ Revoked(k) \in [DOMAIN records -> Record]
         /\ \A j \in DOMAIN records : /\ Revoked(k)[j].org = records[j].org
                                      /\ Revoked(k)[j].perms = records[j].perms
                                      /\ Revoked(k)[j].end = records[j].end
                                      /\ records[j].revoked => Revoked(k)[j].revoked
BY DEF KeyTypeOK, Known, Revoked, Record

\* The manager begins with no key, or with one that was registered properly.
LEMMA KeyInitTypes == KeyInit => KeyTypeOK
<1> SUFFICES ASSUME KeyInit PROVE KeyTypeOK
  OBVIOUS
<1>1. now \in Nat
  BY DEF KeyInit
<1>2. /\ DOMAIN NoRecords \subseteq RawKeys
      /\ NoRecords \in [DOMAIN NoRecords -> Record]
  BY DEF NoRecords
<1>3. CASE records = NoRecords
  BY <1>1, <1>2, <1>3 DEF KeyTypeOK
<1>4. CASE records \in Bootstrapped
  <2>1. PICK k \in RawKeys, org \in Orgs, perms \in Grants :
          records = Stored(NoRecords, k, org, perms, NoEnd)
    BY <1>4 DEF Bootstrapped
  <2>2. NoEnd \in Ends
    BY DEF Ends
  <2> QED BY <1>1, <1>2, <2>1, <2>2, StoredType DEF KeyTypeOK
<1> QED BY <1>3, <1>4 DEF KeyInit

\* Every operation keeps the types.
LEMMA KeyStepTypes == KeyTypeOK /\ [KeyNext]_keyVars => KeyTypeOK'
<1> SUFFICES ASSUME KeyTypeOK, [KeyNext]_keyVars PROVE KeyTypeOK'
  OBVIOUS
<1>1. ASSUME NEW k \in RawKeys, NEW org \in Orgs, NEW perms \in Grants, NEW ttl \in Ends,
             StoreKey(k, org, perms, ttl)
      PROVE  KeyTypeOK'
  BY <1>1, StoredType DEF StoreKey, KeyTypeOK
<1>2. ASSUME NEW k \in RawKeys, RevokeKey(k) \/ RotateBadly(k)
      PROVE  KeyTypeOK'
  BY <1>2, RevokedType DEF RevokeKey, RotateBadly, KeyTypeOK
<1>3. ASSUME NEW k \in RawKeys, NEW new \in RawKeys, NEW ttl \in Ends,
             RotateKey(k, new, ttl)
      PROVE  KeyTypeOK'
  <2>1. records[k].org \in Orgs /\ records[k].perms \in Grants
    BY <1>3 DEF RotateKey, Known, KeyTypeOK, Record
  <2>2. DOMAIN Revoked(k) = DOMAIN records /\ Revoked(k) \in [DOMAIN records -> Record]
    BY <1>3, RevokedType DEF RotateKey
  <2> QED BY <1>3, <2>1, <2>2, StoredType DEF RotateKey, KeyTypeOK
<1>4. CASE Tick
  BY <1>4 DEF Tick, KeyTypeOK
<1>5. CASE UNCHANGED keyVars
  BY <1>5 DEF keyVars, KeyTypeOK
<1> QED BY <1>1, <1>2, <1>3, <1>4, <1>5 DEF KeyNext

\* What the manager's state always is (KeyManager._records)
THEOREM KeyTypes == KeySpec => []KeyTypeOK
BY KeyInitTypes, KeyStepTypes, PTL DEF KeySpec

-----------------------------------------------------------------------------
\* What a step may do to a raw key that was stored before
Kept(k) ==
  /\ Known(k)'
  /\ Active(k)' => Active(k)
  /\ records'[k].org = records[k].org
  /\ records'[k].perms = records[k].perms

\* Storing another key leaves a record alone.
LEMMA StoredKeeps ==
  ASSUME NEW rs, NEW k, NEW org, NEW perms, NEW ttl, NEW j \in DOMAIN rs, j # k
  PROVE  /\ j \in DOMAIN Stored(rs, k, org, perms, ttl)
         /\ Stored(rs, k, org, perms, ttl)[j] = rs[j]
BY DEF Stored

\* No step gives a key back what it has lost.
LEMMA StepKeeps ==
  ASSUME KeyTypeOK, KeyNext, NEW k \in RawKeys, Known(k)
  PROVE  Kept(k)
<1>1. ASSUME NEW j \in RawKeys, NEW org \in Orgs, NEW perms \in Grants, NEW ttl \in Ends,
             StoreKey(j, org, perms, ttl)
      PROVE  Kept(k)
  <2>1. k # j
    BY <1>1 DEF StoreKey, MayStore
  <2>2. k \in DOMAIN records' /\ records'[k] = records[k] /\ now' = now
    BY <1>1, <2>1, StoredKeeps DEF StoreKey, Known
  <2> QED BY <2>2 DEF Kept, Known, Active
<1>2. ASSUME NEW j \in RawKeys, RevokeKey(j) \/ RotateBadly(j)
      PROVE  Kept(k)
  BY <1>2, RevokedType DEF RevokeKey, RotateBadly, Kept, Known, Active
<1>3. ASSUME NEW j \in RawKeys, NEW new \in RawKeys, NEW ttl \in Ends, RotateKey(j, new, ttl)
      PROVE  Kept(k)
  <2>1. k # new /\ Known(j)
    BY <1>3 DEF RotateKey, MayStore
  <2>2. k \in DOMAIN Revoked(j)
    BY <2>1, RevokedType DEF Known
  <2>3. k \in DOMAIN records' /\ records'[k] = Revoked(j)[k] /\ now' = now
    BY <1>3, <2>1, <2>2, StoredKeeps DEF RotateKey
  <2> QED BY <2>1, <2>3, RevokedType DEF Kept, Known, Active
<1>4. CASE Tick
  <2>1. records[k].end \in Nat \cup {NoEnd}
    BY DEF KeyTypeOK, Known, Record
  <2> QED BY <1>4, <2>1 DEF Tick, Kept, Known, Active, KeyTypeOK
<1> QED BY <1>1, <1>2, <1>3, <1>4 DEF KeyNext

\* A raw key whose record was revoked, was rotated away or has expired is never valid
\* again, and its organization and permissions never change (validate_key).
THEOREM KeysAreRefusedForGood == KeySpec => RefusedForGood
<1>1. KeyTypeOK /\ [KeyNext]_keyVars =>
        [\A k \in RawKeys :
           Known(k) => /\ Known(k)'
                       /\ Active(k)' => Active(k)
                       /\ records'[k].org = records[k].org
                       /\ records'[k].perms = records[k].perms]_keyVars
  BY StepKeeps DEF Kept
<1> QED BY <1>1, KeyTypes, PTL DEF KeySpec, RefusedForGood

-----------------------------------------------------------------------------
\* The front ends

Busy == {"writing", "flushed", "failed", "committed", "stored", "lost"}
Request == {Idle} \cup [step : {"admitted"}, org : Orgs, perms : Grants]
                  \cup [step : Busy, order : WorkOrders]

Answers == {"none", "created", "failed", "rejected", "unheard"}

\* Request r stands between the execution of order o and the answer about it.
Handles(r, o) == requests[r].step \in Busy /\ requests[r].order = o

TypesHold ==
  /\ KeyTypeOK
  /\ requests \in [Requests -> Request]
  /\ DOMAIN terms \subseteq WorkOrders
  /\ \A o \in DOMAIN terms : terms[o].front \in {"api", "mcp"}
  /\ \A o \in ByApi : terms[o].org \in Orgs
  /\ stage \in [WorkOrders -> {"unknown", "live", "full", "withdrawn", "refused"}]
  /\ \A o \in WorkOrders : stage[o] = "unknown" <=> o \notin DOMAIN terms
  /\ partners \in [WorkOrders -> SUBSET WorkOrders]
  /\ withdrawer \in [WorkOrders -> Orgs \cup {"none", "mcp"}]
  /\ answer \in [WorkOrders -> Answers]
  /\ \A o \in WorkOrders \ ByApi : answer[o] = "none"
  /\ book \in [Orgs -> SUBSET WorkOrders]
  /\ owned \subseteq WorkOrders

\* An order is handled by one request at most, until its client is answered.
HandledOnce ==
  /\ \A r \in Requests, o \in WorkOrders :
       Handles(r, o) => o \in ByApi /\ answer[o] \in {"none", "unheard"} /\ partners[o] # {}
  /\ \A r, q \in Requests, o \in WorkOrders : Handles(r, o) /\ Handles(q, o) => r = q
  /\ \A o \in ByApi : answer[o] = "none" => \E r \in Requests : Handles(r, o)

\* Where sessions have connections of their own, the rows of an order that is handled
\* are all there once they are committed, and none before.
WrittenWhole ==
  ~InMemory =>
    \A r \in Requests, o \in WorkOrders :
      Handles(r, o) =>
        IF requests[r].step \in {"committed", "stored"} THEN Assignments(o) \subseteq rows
        ELSE Assignments(o) \cap rows = {}

\* A session has inserted what its commit is to store.
FlushedBy(r) ==
  /\ requests[r].step \notin {"flushed", "failed"} => pending[r] = {}
  /\ \A o \in WorkOrders :
       Handles(r, o) /\ requests[r].step = "flushed" => pending[r] = Assignments(o)

FlushedWhole == ~InMemory => \A r \in Requests : FlushedBy(r)

AnsweredTruly ==
  ~InMemory =>
    \A o \in ByApi :
      /\ Assignments(o) \subseteq rows \/ Assignments(o) \cap rows = {}
      /\ answer[o] = "created" /\ store # "off" => Assignments(o) \subseteq rows
      /\ answer[o] = "failed" => Assignments(o) \cap rows = {} /\ Assignments(o) # {}

\* All that was executed over the API
Executed == UNION {Assignments(o) : o \in ByApi}

RowsAreAssignments ==
  /\ rows \subseteq Executed
  /\ pending \in [Requests -> SUBSET Executed]

\* Every order that came over the API is in its organization's book, and no other.
BooksAreOwn ==
  /\ \A g \in Orgs : book[g] = {o \in ByApi : terms[o].org = g}
  /\ \A o \in DOMAIN terms : terms[o].front = "mcp" /\ stage[o] = "live" => o \in owned
  /\ \A o \in owned : o \in DOMAIN terms /\ terms[o].front = "mcp"

WithdrawnByOwner ==
  \A o \in WorkOrders :
    withdrawer[o] # "none" =>
      /\ o \in DOMAIN terms
      /\ withdrawer[o] = IF terms[o].front = "api" THEN terms[o].org ELSE "mcp"

ServiceInv ==
  /\ TypesHold /\ HandledOnce /\ WrittenWhole /\ FlushedWhole /\ AnsweredTruly
  /\ RowsAreAssignments /\ BooksAreOwn /\ WithdrawnByOwner

-----------------------------------------------------------------------------

\* What the engine does to an order it had not seen
Opens(o, t) ==
  /\ o \notin DOMAIN terms
  /\ DOMAIN terms' = DOMAIN terms \cup {o}
  /\ terms'[o] = t
  /\ \A p \in DOMAIN terms : terms'[p] = terms[p]
  /\ stage' \in [WorkOrders -> {"unknown", "live", "full", "withdrawn", "refused"}]
  /\ \A p \in WorkOrders : stage'[p] = "unknown" <=> p \notin DOMAIN terms'
  /\ \A p \in DOMAIN terms : stage'[p] = "live" => stage[p] = "live"
  /\ partners' \in [WorkOrders -> SUBSET WorkOrders]
  /\ \A p \in WorkOrders \ {o} : partners'[p] = partners[p]
  /\ withdrawer' = withdrawer

\* An accepted order is opened, and no other order begins to rest.
LEMMA AcceptOpens ==
  ASSUME TypesHold, NEW o \in WorkOrders, NEW t, NEW side, NEW h,
         NEW d \in Deals(side, h), NEW rests \in BOOLEAN, Accept(o, t, h, d, rests)
  PROVE  Opens(o, t)
<1>1. DOMAIN d \subseteq WorkOrders
  BY DEF Deals, Counterparts
<1>2. o \notin DOMAIN terms /\ stage[o] = "unknown"
  BY DEF Accept, TypesHold
<1>3. /\ DOMAIN terms' = DOMAIN terms \cup {o} /\ terms'[o] = t
      /\ \A p \in DOMAIN terms : terms'[p] = terms[p]
  <2>1. terms' = [p \in DOMAIN terms \cup {o} |-> IF p = o THEN t ELSE terms[p]]
    BY DEF Accept, Opened
  <2> QED BY <1>2, <2>1
<1>4. /\ partners' \in [WorkOrders -> SUBSET WorkOrders]
      /\ \A p \in WorkOrders \ {o} : partners'[p] = partners[p]
      /\ withdrawer' = withdrawer
  <2>1. {p \in DOMAIN d : d[p] > 0} \subseteq WorkOrders
    BY <1>1
  <2> QED BY <2>1 DEF Accept, TypesHold
<1>5. /\ DOMAIN stage' = WorkOrders
      /\ stage'[o] \in {"full", "live", "withdrawn"}
      /\ \A p \in WorkOrders \ {o} :
           stage'[p] = stage[p] \/ (stage[p] = "live" /\ stage'[p] = "full")
  <2> DEFINE residual == h - Total(d)
             after(p) == IF p = o THEN residual
                         ELSE IF p \in DOMAIN d THEN left[p] - d[p] ELSE left[p]
  <2>1. stage' = [p \in WorkOrders |->
                    IF p = o THEN IF residual = 0 THEN "full"
                                  ELSE IF rests THEN "live" ELSE "withdrawn"
                    ELSE IF stage[p] = "live" /\ after(p) = 0 THEN "full"
                    ELSE stage[p]]
    BY DEF Accept
  <2> HIDE DEF residual, after
  <2> QED BY <2>1, Zenon
<1>6. stage' \in [WorkOrders -> {"unknown", "live", "full", "withdrawn", "refused"}]
  <2>1. stage' = [p \in WorkOrders |-> stage'[p]]
    BY DEF Accept
  <2>2. \A p \in WorkOrders :
          stage'[p] \in {"unknown", "live", "full", "withdrawn", "refused"}
    BY <1>5 DEF TypesHold
  <2> QED BY <2>1, <2>2
<1>7. \A p \in WorkOrders : stage'[p] = "unknown" <=> p \notin DOMAIN terms'
  BY <1>3, <1>5 DEF TypesHold
<1>8. \A p \in DOMAIN terms : stage'[p] = "live" => stage[p] = "live"
  BY <1>2, <1>5 DEF TypesHold
<1> QED BY <1>2, <1>3, <1>4, <1>6, <1>7, <1>8 DEF Opens

\* So is a refused one.
LEMMA RejectOpens ==
  ASSUME TypesHold, NEW o \in WorkOrders, NEW t, Reject(o, t)
  PROVE  Opens(o, t) /\ stage'[o] = "refused" /\ partners' = partners
<1>1. o \notin DOMAIN terms
  BY DEF Reject, TypesHold
<1>2. /\ DOMAIN terms' = DOMAIN terms \cup {o} /\ terms'[o] = t
      /\ \A p \in DOMAIN terms : terms'[p] = terms[p]
  <2>1. terms' = [p \in DOMAIN terms \cup {o} |-> IF p = o THEN t ELSE terms[p]]
    BY DEF Reject, Opened
  <2> QED BY <1>1, <2>1
<1>3. /\ stage' \in [WorkOrders -> {"unknown", "live", "full", "withdrawn", "refused"}]
      /\ stage'[o] = "refused" /\ \A p \in WorkOrders \ {o} : stage'[p] = stage[p]
  BY DEF Reject, TypesHold
<1>4. /\ partners' \in [WorkOrders -> SUBSET WorkOrders] /\ partners' = partners
      /\ withdrawer' = withdrawer
  BY DEF Reject, TypesHold
<1>5. \A p \in WorkOrders : stage'[p] = "unknown" <=> p \notin DOMAIN terms'
  BY <1>2, <1>3 DEF TypesHold
<1>6. \A p \in DOMAIN terms : stage'[p] = "live" => stage[p] = "live"
  BY <1>1, <1>3 DEF TypesHold
<1> QED BY <1>1, <1>2, <1>3, <1>4, <1>5, <1>6 DEF Opens

\* The rows of an order nobody has seen are not in the store.
LEMMA NoRowsOfUnseen ==
  ASSUME RowsAreAssignments, NEW o \in WorkOrders \ ByApi
  PROVE  ({o} \X WorkOrders) \cap rows = {}
BY DEF RowsAreAssignments, Executed, Assignments, ByApi

\* The orders of others have the rows they had.
LEMMA OthersAssignments ==
  ASSUME NEW o, NEW t, Opens(o, t)
  PROVE  \A p \in WorkOrders \ {o} : Assignments(p)' = Assignments(p)
BY DEF Opens, Assignments

-----------------------------------------------------------------------------
\* In the beginning nothing is known to anybody.
LEMMA ServiceInit == Init => ServiceInv
<1> SUFFICES ASSUME Init PROVE ServiceInv
  OBVIOUS
<1>1. KeyTypeOK
  BY KeyInitTypes DEF Init
<1>2. \A r \in Requests, o \in WorkOrders : ~Handles(r, o)
  BY DEF Init, Handles, Busy, Idle
<1>3. ByApi = {} /\ DOMAIN terms = {}
  BY DEF Init, ByApi
<1>4. TypesHold
  BY <1>1, <1>3 DEF Init, TypesHold, Request, Answers
<1>5. BooksAreOwn /\ WithdrawnByOwner
  BY <1>3 DEF Init, BooksAreOwn, WithdrawnByOwner
<1>6. FlushedWhole /\ RowsAreAssignments
  BY <1>2 DEF Init, Idle, FlushedWhole, FlushedBy, RowsAreAssignments
<1> QED BY <1>2, <1>3, <1>4, <1>5, <1>6 DEF ServiceInv, HandledOnce, WrittenWhole, AnsweredTruly


-----------------------------------------------------------------------------
\* A step that leaves engine, books and answers alone, and the requests with the orders
\* they handle
SameHandling ==
  /\ UNCHANGED <<engineVars, book, answer, owned>>
  /\ KeyTypeOK'
  /\ requests' \in [Requests -> Request]
  /\ \A r \in Requests, o \in WorkOrders : Handles(r, o)' <=> Handles(r, o)

\* It can only disturb what the invariant says of the store.
LEMMA SameHandlingKeeps ==
  ASSUME ServiceInv, SameHandling
  PROVE  /\ TypesHold' /\ HandledOnce' /\ BooksAreOwn' /\ WithdrawnByOwner'
         /\ ByApi' = ByApi /\ \A o \in WorkOrders : Assignments(o)' = Assignments(o)
         /\ Executed' = Executed
<1> USE DEF SameHandling, engineVars
<1>1. /\ ByApi' = ByApi /\ \A o \in WorkOrders : Assignments(o)' = Assignments(o)
      /\ Executed' = Executed
  BY DEF ByApi, Assignments, Executed
<1>2. TypesHold'
  BY <1>1 DEF ServiceInv, TypesHold
<1>3. HandledOnce'
  <2>1. \A r \in Requests, o \in WorkOrders :
          Handles(r, o)' => o \in ByApi' /\ answer'[o] \in {"none", "unheard"} /\ partners'[o] # {}
    BY <1>1 DEF ServiceInv, HandledOnce
  <2>2. \A r, q \in Requests, o \in WorkOrders : Handles(r, o)' /\ Handles(q, o)' => r = q
    BY DEF ServiceInv, HandledOnce
  <2>3. \A o \in ByApi' : answer'[o] = "none" => \E r \in Requests : Handles(r, o)'
    <3>1. ByApi \subseteq WorkOrders
      BY DEF ByApi, ServiceInv, TypesHold
    <3> QED BY <1>1, <3>1 DEF ServiceInv, HandledOnce
  <2> QED BY <2>1, <2>2, <2>3 DEF HandledOnce
<1>4. BooksAreOwn' /\ WithdrawnByOwner'
  BY <1>1 DEF ServiceInv, BooksAreOwn, WithdrawnByOwner
<1> QED BY <1>1, <1>2, <1>3, <1>4

\* A step that moves no request into, within or out of the handling of an order, and
\* disturbs no rows but those of an in-memory database
Quiet ==
  /\ UNCHANGED <<engineVars, book, answer, store, owned>>
  /\ ~InMemory => UNCHANGED <<rows, pending>>
  /\ rows' \subseteq Executed
  /\ pending' \in [Requests -> SUBSET Executed]
  /\ KeyTypeOK'
  /\ requests' \in [Requests -> Request]
  /\ \A r \in Requests : requests[r].step \in Busy \/ requests'[r].step \in Busy =>
                           requests'[r] = requests[r]

LEMMA QuietKeeps == ServiceInv /\ Quiet => ServiceInv'
<1> SUFFICES ASSUME ServiceInv, Quiet PROVE ServiceInv'
  OBVIOUS
<1>1. \A r \in Requests, o \in WorkOrders :
        /\ Handles(r, o)' <=> Handles(r, o)
        /\ Handles(r, o) => requests'[r].step = requests[r].step
  BY DEF Handles, Quiet
<1>2. SameHandling
  BY <1>1 DEF Quiet, SameHandling
<1>3. /\ TypesHold' /\ HandledOnce' /\ BooksAreOwn' /\ WithdrawnByOwner'
      /\ ByApi' = ByApi /\ \A o \in WorkOrders : Assignments(o)' = Assignments(o)
      /\ Executed' = Executed
  BY <1>2, SameHandlingKeeps
<1>4. WrittenWhole'
  BY <1>1, <1>3 DEF Quiet, ServiceInv, WrittenWhole
<1>5. ByApi \subseteq WorkOrders
  BY DEF ByApi, ServiceInv, TypesHold
<1>6. AnsweredTruly'
  BY <1>3, <1>5 DEF Quiet, ServiceInv, AnsweredTruly
<1>7. RowsAreAssignments'
  BY <1>3 DEF Quiet, RowsAreAssignments
<1>8. FlushedWhole'
  <2> SUFFICES ASSUME ~InMemory, NEW r \in Requests PROVE FlushedBy(r)'
    BY DEF FlushedWhole, Quiet
  <2>1. FlushedBy(r) /\ pending' = pending
    BY DEF Quiet, ServiceInv, FlushedWhole
  <2>2. CASE requests'[r].step \in Busy
    BY <1>1, <1>3, <2>1, <2>2 DEF FlushedBy, Quiet
  <2>3. CASE requests'[r].step \notin Busy
    <3>1. requests[r].step \notin Busy
      BY <2>3 DEF Quiet
    <3> QED BY <2>1, <2>3, <3>1 DEF FlushedBy, Handles, Busy
  <2> QED BY <2>2, <2>3
<1> QED BY <1>3, <1>4, <1>6, <1>7, <1>8 DEF ServiceInv

\* A step that leaves the store alone altogether
LEMMA NothingStored ==
  ASSUME ServiceInv, UNCHANGED storeVars
  PROVE  /\ store' = store
         /\ ~InMemory => UNCHANGED <<rows, pending>>
         /\ rows' \subseteq Executed
         /\ pending' \in [Requests -> SUBSET Executed]
BY DEF storeVars, ServiceInv, RowsAreAssignments

LEMMA AdmitKeeps ==
  ASSUME ServiceInv, NEW r \in Requests, NEW k \in RawKeys, Admit(r, k)
  PROVE  ServiceInv'
<1>1. records[k].org \in Orgs /\ records[k].perms \in Grants
  BY DEF Admit, Valid, Known, ServiceInv, TypesHold, KeyTypeOK, Record
<1>2. KeyTypeOK'
  BY DEF Admit, keyVars, ServiceInv, TypesHold, KeyTypeOK
<1>3. requests' \in [Requests -> Request] /\ \A q \in Requests \ {r} : requests'[q] = requests[q]
  BY <1>1 DEF Admit, ServiceInv, TypesHold, Request
<1>4. requests[r].step \notin Busy /\ requests'[r].step \notin Busy
  BY DEF Admit, Idle, Busy, ServiceInv, TypesHold
<1>5. Quiet
  BY <1>2, <1>3, <1>4, NothingStored DEF Quiet, Admit
<1> QED BY <1>5, QuietKeeps

LEMMA DismissKeeps ==
  ASSUME ServiceInv, NEW r \in Requests, Dismiss(r)
  PROVE  ServiceInv'
<1>1. KeyTypeOK'
  BY DEF Dismiss, keyVars, ServiceInv, TypesHold, KeyTypeOK
<1>2. requests' \in [Requests -> Request] /\ \A q \in Requests \ {r} : requests'[q] = requests[q]
  BY DEF Dismiss, ServiceInv, TypesHold, Request
<1>3. requests[r].step \notin Busy /\ requests'[r].step \notin Busy
  BY DEF Dismiss, Idle, Busy, ServiceInv, TypesHold
<1>4. /\ store' = store
      /\ ~InMemory => UNCHANGED <<rows, pending>>
      /\ rows' \subseteq Executed
      /\ pending' \in [Requests -> SUBSET Executed]
  <2>1. CASE UNCHANGED storeVars
    BY <2>1, NothingStored
  <2>2. CASE /\ rows' \in {rows, rows \cup Inserted(r)}
             /\ pending' = Settled(r)
             /\ UNCHANGED store
    <3>1. rows \subseteq Executed /\ pending \in [Requests -> SUBSET Executed]
      BY DEF ServiceInv, RowsAreAssignments
    <3>2. Inserted(r) \subseteq Executed /\ Settled(r) \in [Requests -> SUBSET Executed]
      BY <3>1 DEF Inserted, Settled, Mine
    <3>3. ASSUME ~InMemory PROVE Inserted(r) = {} /\ Settled(r) = pending
      <4>1. pending[r] = {}
        BY <3>3 DEF Dismiss, ServiceInv, FlushedWhole, FlushedBy
      <4> QED BY <3>1, <3>3, <4>1 DEF Inserted, Settled, Mine
    <3> QED BY <2>2, <3>1, <3>2, <3>3
  <2> QED BY <2>1, <2>2 DEF Dismiss
<1>5. Quiet
  BY <1>1, <1>2, <1>3, <1>4 DEF Quiet, Dismiss
<1> QED BY <1>5, QuietKeeps

LEMMA ManageKeysKeeps ==
  ASSUME ServiceInv, ManageKeys
  PROVE  ServiceInv'
<1>1. KeyTypeOK'
  BY KeyStepTypes DEF ManageKeys, ServiceInv, TypesHold
<1>2. Quiet
  BY <1>1, NothingStored DEF Quiet, ManageKeys, apiVars, ServiceInv, TypesHold
<1> QED BY <1>2, QuietKeeps

-----------------------------------------------------------------------------
\* A request goes on with the order it handles.
LEMMA GoesOn ==
  ASSUME TypesHold, NEW r \in Requests, requests[r].step \in Busy, NEW s \in Busy,
         requests' = [requests EXCEPT ![r].step = s]
  PROVE  /\ requests' \in [Requests -> Request]
         /\ \A q \in Requests, o \in WorkOrders : Handles(q, o)' <=> Handles(q, o)
         /\ requests[r].order \in WorkOrders /\ Handles(r, requests[r].order)
         /\ requests'[r].step = s /\ requests'[r].order = requests[r].order
         /\ \A q \in Requests \ {r} : requests'[q] = requests[q]
<1>1. requests[r] \in [step : Busy, order : WorkOrders]
  BY DEF TypesHold, Request, Busy, Idle
<1>2. /\ requests'[r] \in [step : Busy, order : WorkOrders]
      /\ requests'[r].step = s /\ requests'[r].order = requests[r].order
      /\ \A q \in Requests \ {r} : requests'[q] = requests[q]
  BY <1>1 DEF TypesHold
<1>3. requests' \in [Requests -> Request]
  BY <1>2 DEF TypesHold, Request
<1> QED BY <1>1, <1>2, <1>3 DEF Handles

\* The assignments of two orders have no row in common.
LEMMA RowsApart ==
  ASSUME NEW o, NEW p, o # p
  PROVE  Assignments(o) \cap Assignments(p) = {}
BY DEF Assignments

\* What the transaction of a connection may make durable or drop
LEMMA SettledIsExecuted ==
  ASSUME ServiceInv, NEW r \in Requests
  PROVE  /\ Inserted(r) \subseteq Executed
         /\ Settled(r) \in [Requests -> SUBSET Executed]
         /\ ~InMemory => /\ Inserted(r) = pending[r] /\ Settled(r)[r] = {}
                         /\ \A q \in Requests \ {r} : Settled(r)[q] = pending[q]
<1>1. pending \in [Requests -> SUBSET Executed]
  BY DEF ServiceInv, RowsAreAssignments
<1> QED BY <1>1 DEF Inserted, Settled, Mine

\* What a step of a session leaves true that goes on with its order: all but what it
\* does to the rows.
LEMMA SessionGoesOn ==
  ASSUME ServiceInv, NEW r \in Requests, requests[r].step \in Busy, NEW s \in Busy,
         requests' = [requests EXCEPT ![r].step = s],
         UNCHANGED <<keyVars, engineVars, book, answer, store, owned>>
  PROVE  /\ TypesHold' /\ HandledOnce' /\ BooksAreOwn' /\ WithdrawnByOwner'
         /\ ByApi' = ByApi /\ ByApi \subseteq WorkOrders /\ Executed' = Executed
         /\ \A p \in WorkOrders : Assignments(p)' = Assignments(p)
         /\ \A q \in Requests, p \in WorkOrders : Handles(q, p)' <=> Handles(q, p)
         /\ requests[r].order \in ByApi /\ Handles(r, requests[r].order)
         /\ requests'[r].step = s /\ requests'[r].order = requests[r].order
         /\ \A q \in Requests \ {r} : requests'[q] = requests[q]
         /\ \A q \in Requests \ {r} : ~Handles(q, requests[r].order)
<1>1. /\ requests' \in [Requests -> Request]
      /\ \A q \in Requests, p \in WorkOrders : Handles(q, p)' <=> Handles(q, p)
      /\ requests[r].order \in WorkOrders /\ Handles(r, requests[r].order)
      /\ requests'[r].step = s /\ requests'[r].order = requests[r].order
      /\ \A q \in Requests \ {r} : requests'[q] = requests[q]
  BY GoesOn DEF ServiceInv
<1>2. SameHandling
  BY <1>1 DEF SameHandling, keyVars, ServiceInv, TypesHold, KeyTypeOK
<1>3. requests[r].order \in ByApi /\ ByApi \subseteq WorkOrders
  BY <1>1 DEF ByApi, ServiceInv, TypesHold, HandledOnce
<1>4. \A q \in Requests \ {r} : ~Handles(q, requests[r].order)
  BY <1>1 DEF ServiceInv, HandledOnce
<1> QED BY <1>1, <1>2, <1>3, <1>4, SameHandlingKeeps

\* What the other requests have inserted stays what they are to commit.
LEMMA OthersFlushed ==
  ASSUME ServiceInv, NEW q \in Requests, requests'[q] = requests[q], pending'[q] = pending[q],
         \A p \in WorkOrders : Handles(q, p) => Assignments(p)' = Assignments(p), ~InMemory
  PROVE  FlushedBy(q)'
<1>1. FlushedBy(q)
  BY DEF ServiceInv, FlushedWhole
<1>2. \A p \in WorkOrders : Handles(q, p)' <=> Handles(q, p)
  BY DEF Handles
<1> QED BY <1>1, <1>2 DEF FlushedBy

LEMMA OpenSessionKeeps ==
  ASSUME ServiceInv, NEW r \in Requests, OpenSession(r)
  PROVE  ServiceInv'
<1> DEFINE o == requests[r].order
<1>1. /\ requests[r].step = "writing" /\ requests[r].step \in Busy
      /\ UNCHANGED <<keyVars, engineVars, book, answer, store, owned>>
      /\ rows' = rows
  BY DEF OpenSession, Busy
<1>2. PICK s \in {"flushed", "failed", "lost"} :
        /\ requests' = [requests EXCEPT ![r].step = s]
        /\ pending' = IF s = "flushed" THEN [pending EXCEPT ![r] = Assignments(o)] ELSE pending
  BY DEF OpenSession
<1>3. s \in Busy
  BY DEF Busy
<1>4. /\ TypesHold' /\ HandledOnce' /\ BooksAreOwn' /\ WithdrawnByOwner'
      /\ ByApi' = ByApi /\ ByApi \subseteq WorkOrders /\ Executed' = Executed
      /\ \A p \in WorkOrders : Assignments(p)' = Assignments(p)
      /\ \A q \in Requests, p \in WorkOrders : Handles(q, p)' <=> Handles(q, p)
      /\ o \in ByApi /\ requests'[r].step = s /\ requests'[r].order = o
      /\ \A q \in Requests \ {r} : requests'[q] = requests[q]
  BY <1>1, <1>2, <1>3, SessionGoesOn
<1>5. pending \in [Requests -> SUBSET Executed] /\ Assignments(o) \subseteq Executed
  BY <1>4 DEF ServiceInv, RowsAreAssignments, Executed
<1>6. WrittenWhole'
  BY <1>1, <1>4 DEF ServiceInv, WrittenWhole
<1>7. FlushedWhole'
  <2> SUFFICES ASSUME ~InMemory, NEW q \in Requests PROVE FlushedBy(q)'
    BY DEF FlushedWhole
  <2>1. CASE q = r
    <3>1. pending[r] = {}
      BY <1>1 DEF ServiceInv, FlushedWhole, FlushedBy
    <3>2. \A p \in WorkOrders : Handles(r, p)' => p = o
      BY <1>4 DEF Handles
    <3> QED BY <1>2, <1>4, <1>5, <2>1, <3>1, <3>2 DEF FlushedBy
  <2>2. CASE q # r
    BY <1>2, <1>4, <1>5, <2>2, OthersFlushed
  <2> QED BY <2>1, <2>2
<1>8. AnsweredTruly'
  BY <1>1, <1>4 DEF ServiceInv, AnsweredTruly
<1>9. RowsAreAssignments'
  BY <1>1, <1>2, <1>4, <1>5 DEF ServiceInv, RowsAreAssignments
<1> QED BY <1>4, <1>6, <1>7, <1>8, <1>9 DEF ServiceInv

LEMMA CommitSessionKeeps ==
  ASSUME ServiceInv, NEW r \in Requests, CommitSession(r)
  PROVE  ServiceInv'
<1> DEFINE o == requests[r].order
<1>1. /\ requests[r].step = "flushed" /\ requests[r].step \in Busy
      /\ UNCHANGED <<keyVars, engineVars, book, answer, store, owned>>
  BY DEF CommitSession, Busy
<1>2. PICK s \in {"committed", "failed"} :
        /\ requests' = [requests EXCEPT ![r].step = s]
        /\ rows' = IF s = "committed" THEN rows \cup Inserted(r) ELSE rows
        /\ pending' = IF s = "committed" THEN Settled(r) ELSE pending
  BY DEF CommitSession, Commit
<1>3. s \in Busy
  BY DEF Busy
<1>4. /\ TypesHold' /\ HandledOnce' /\ BooksAreOwn' /\ WithdrawnByOwner'
      /\ ByApi' = ByApi /\ ByApi \subseteq WorkOrders /\ Executed' = Executed
      /\ \A p \in WorkOrders : Assignments(p)' = Assignments(p)
      /\ \A q \in Requests, p \in WorkOrders : Handles(q, p)' <=> Handles(q, p)
      /\ o \in ByApi /\ Handles(r, o)
      /\ requests'[r].step = s /\ requests'[r].order = o
      /\ \A q \in Requests \ {r} : requests'[q] = requests[q]
      /\ \A q \in Requests \ {r} : ~Handles(q, o)
  BY <1>1, <1>2, <1>3, SessionGoesOn
<1>5. /\ Inserted(r) \subseteq Executed
      /\ Settled(r) \in [Requests -> SUBSET Executed]
      /\ ~InMemory => /\ Inserted(r) = pending[r] /\ Settled(r)[r] = {}
                      /\ \A q \in Requests \ {r} : Settled(r)[q] = pending[q]
  BY SettledIsExecuted
<1>6. ASSUME ~InMemory
      PROVE  /\ rows' = IF s = "committed" THEN rows \cup Assignments(o) ELSE rows
             /\ Assignments(o) \cap rows = {} /\ answer[o] \in {"none", "unheard"}
             /\ \A p \in WorkOrders \ {o} : /\ Assignments(p) \cap rows' = Assignments(p) \cap rows
                                            /\ Assignments(p) \subseteq rows' <=>
                                                 Assignments(p) \subseteq rows
  <2>1. rows' = IF s = "committed" THEN rows \cup Assignments(o) ELSE rows
    BY <1>1, <1>2, <1>4, <1>5, <1>6 DEF ServiceInv, FlushedWhole, FlushedBy
  <2>2. Assignments(o) \cap rows = {} /\ answer[o] \in {"none", "unheard"}
    BY <1>1, <1>4, <1>6 DEF ServiceInv, WrittenWhole, HandledOnce
  <2>3. \A p \in WorkOrders \ {o} : Assignments(p) \cap Assignments(o) = {}
    BY RowsApart
  <2> QED BY <2>1, <2>2, <2>3
<1>7. WrittenWhole'
  <2> SUFFICES ASSUME ~InMemory, NEW q \in Requests, NEW p \in WorkOrders, Handles(q, p)
               PROVE  IF requests'[q].step \in {"committed", "stored"}
                      THEN Assignments(p) \subseteq rows' ELSE Assignments(p) \cap rows' = {}
    BY <1>4 DEF WrittenWhole
  <2>1. CASE q = r
    <3>1. p = o
      BY <2>1 DEF Handles
    <3> QED BY <1>4, <1>6, <2>1, <3>1
  <2>2. CASE q # r
    <3>1. p # o /\ requests'[q] = requests[q]
      BY <1>4, <2>2
    <3>2. IF requests[q].step \in {"committed", "stored"} THEN Assignments(p) \subseteq rows
          ELSE Assignments(p) \cap rows = {}
      BY DEF ServiceInv, WrittenWhole
    <3> QED BY <1>6, <3>1, <3>2
  <2> QED BY <2>1, <2>2
<1>8. FlushedWhole'
  <2> SUFFICES ASSUME ~InMemory, NEW q \in Requests PROVE FlushedBy(q)'
    BY DEF FlushedWhole
  <2>1. CASE q = r
    BY <1>2, <1>4, <1>5, <2>1 DEF FlushedBy, ServiceInv, FlushedWhole
  <2>2. CASE q # r
    <3>1. pending'[q] = pending[q] /\ requests'[q] = requests[q]
      BY <1>2, <1>4, <1>5, <2>2
    <3> QED BY <1>4, <3>1, OthersFlushed
  <2> QED BY <2>1, <2>2
<1>9. AnsweredTruly'
  <2> SUFFICES ASSUME ~InMemory, NEW p \in ByApi
               PROVE  /\ Assignments(p) \subseteq rows' \/ Assignments(p) \cap rows' = {}
                      /\ answer[p] = "created" /\ store # "off" => Assignments(p) \subseteq rows'
                      /\ answer[p] = "failed" => /\ Assignments(p) \cap rows' = {}
                                                 /\ Assignments(p) # {}
    BY <1>1, <1>4 DEF AnsweredTruly
  <2>1. /\ Assignments(p) \subseteq rows \/ Assignments(p) \cap rows = {}
        /\ answer[p] = "created" /\ store # "off" => Assignments(p) \subseteq rows
        /\ answer[p] = "failed" => Assignments(p) \cap rows = {} /\ Assignments(p) # {}
    BY DEF ServiceInv, AnsweredTruly
  <2>2. CASE p = o
    BY <1>6, <2>2
  <2>3. CASE p # o
    BY <1>4, <1>6, <2>1, <2>3
  <2> QED BY <2>2, <2>3
<1>10. RowsAreAssignments'
  BY <1>2, <1>4, <1>5 DEF ServiceInv, RowsAreAssignments
<1> QED BY <1>4, <1>7, <1>8, <1>9, <1>10 DEF ServiceInv

LEMMA EndSessionKeeps ==
  ASSUME ServiceInv, NEW r \in Requests, EndSession(r)
  PROVE  ServiceInv'
<1> DEFINE o == requests[r].order
           s == IF requests[r].step = "committed" THEN "stored" ELSE "lost"
<1>1. /\ requests[r].step \in {"committed", "failed"} /\ requests[r].step \in Busy
      /\ requests' = [requests EXCEPT ![r].step = s] /\ s \in Busy
      /\ UNCHANGED <<keyVars, engineVars, book, answer, store, owned>>
      /\ rows' = rows /\ pending' = Settled(r)
  BY DEF EndSession, Busy
<1>2. /\ TypesHold' /\ HandledOnce' /\ BooksAreOwn' /\ WithdrawnByOwner'
      /\ ByApi' = ByApi /\ ByApi \subseteq WorkOrders /\ Executed' = Executed
      /\ \A p \in WorkOrders : Assignments(p)' = Assignments(p)
      /\ \A q \in Requests, p \in WorkOrders : Handles(q, p)' <=> Handles(q, p)
      /\ requests'[r].step = s
      /\ \A q \in Requests \ {r} : requests'[q] = requests[q]
  BY <1>1, SessionGoesOn
<1>3. /\ Settled(r) \in [Requests -> SUBSET Executed]
      /\ ~InMemory => /\ Settled(r)[r] = {}
                      /\ \A q \in Requests \ {r} : Settled(r)[q] = pending[q]
  BY SettledIsExecuted
<1>4. WrittenWhole'
  BY <1>1, <1>2 DEF ServiceInv, WrittenWhole
<1>5. FlushedWhole'
  <2> SUFFICES ASSUME ~InMemory, NEW q \in Requests PROVE FlushedBy(q)'
    BY DEF FlushedWhole
  <2>1. CASE q = r
    BY <1>1, <1>2, <1>3, <2>1 DEF FlushedBy
  <2>2. CASE q # r
    <3>1. pending'[q] = pending[q] /\ requests'[q] = requests[q]
      BY <1>1, <1>2, <1>3, <2>2
    <3> QED BY <1>2, <3>1, OthersFlushed
  <2> QED BY <2>1, <2>2
<1>6. AnsweredTruly'
  BY <1>1, <1>2 DEF ServiceInv, AnsweredTruly
<1>7. RowsAreAssignments'
  BY <1>1, <1>2, <1>3 DEF ServiceInv, RowsAreAssignments
<1> QED BY <1>2, <1>4, <1>5, <1>6, <1>7 DEF ServiceInv

\* The client of a submission is answered, or nobody is.
LEMMA HandlingEnds ==
  ASSUME ServiceInv, NEW r \in Requests, requests[r].step \in Busy,
         NEW what \in Answers \ {"none"},
         \/ requests' = requests /\ what = "unheard"
         \/ /\ requests' = [requests EXCEPT ![r] = Idle]
            /\ requests[r].step \in {"writing", "stored", "lost"},
         answer' = [answer EXCEPT ![requests[r].order] = what],
         UNCHANGED <<keyVars, engineVars, book, storeVars, owned>>,
         ~InMemory /\ what = "created" => Assignments(requests[r].order) \subseteq rows,
         ~InMemory /\ what = "failed" => Assignments(requests[r].order) \cap rows = {}
  PROVE  ServiceInv'
<1>1. PICK o \in WorkOrders : o = requests[r].order /\ Handles(r, o)
  BY DEF ServiceInv, TypesHold, Request, Idle, Handles, Busy
<1>2. o \in ByApi /\ ByApi \subseteq WorkOrders /\ partners[o] # {}
  BY <1>1 DEF ServiceInv, HandledOnce, ByApi, TypesHold
<1>3. /\ requests' \in [Requests -> Request]
      /\ \A q \in Requests \ {r} : requests'[q] = requests[q]
      /\ requests'[r] = requests[r] \/ requests'[r].step = "idle"
      /\ requests'[r] = requests[r] => what = "unheard"
  BY DEF ServiceInv, TypesHold, Request, Idle, Busy
<1>4. \A q \in Requests, p \in WorkOrders :
        /\ Handles(q, p)' => Handles(q, p) /\ requests'[q] = requests[q]
        /\ Handles(q, p) /\ q # r => Handles(q, p)' /\ p # o
        /\ Handles(r, p) => p = o
        /\ Handles(r, p)' => what = "unheard"
  BY <1>1, <1>3 DEF Handles, Busy, ServiceInv, HandledOnce
<1>5. /\ answer' \in [WorkOrders -> Answers]
      /\ answer'[o] = what /\ \A p \in WorkOrders \ {o} : answer'[p] = answer[p]
  BY <1>1 DEF ServiceInv, TypesHold
<1>6. /\ ByApi' = ByApi /\ \A p \in WorkOrders : Assignments(p)' = Assignments(p)
      /\ Executed' = Executed /\ rows' = rows /\ pending' = pending /\ store' = store
      /\ partners' = partners
  BY DEF ByApi, Assignments, Executed, engineVars, storeVars
<1>7. TypesHold'
  <2>1. KeyTypeOK'
    BY DEF ServiceInv, TypesHold, KeyTypeOK, keyVars
  <2>2. \A p \in WorkOrders \ ByApi' : answer'[p] = "none"
    BY <1>2, <1>5, <1>6 DEF ServiceInv, TypesHold
  <2> QED BY <1>3, <1>5, <1>6, <2>1, <2>2 DEF ServiceInv, TypesHold, engineVars
<1>8. HandledOnce'
  <2>1. \A q \in Requests, p \in WorkOrders :
          Handles(q, p)' => /\ p \in ByApi' /\ answer'[p] \in {"none", "unheard"}
                            /\ partners'[p] # {}
    <3> SUFFICES ASSUME NEW q \in Requests, NEW p \in WorkOrders, Handles(q, p)'
                 PROVE  p \in ByApi /\ answer'[p] \in {"none", "unheard"} /\ partners[p] # {}
      BY <1>6
    <3>1. Handles(q, p)
      BY <1>4
    <3>2. p \in ByApi /\ answer[p] \in {"none", "unheard"} /\ partners[p] # {}
      BY <3>1 DEF ServiceInv, HandledOnce
    <3>3. CASE q = r
      BY <1>4, <1>5, <3>1, <3>2, <3>3
    <3>4. CASE q # r
      BY <1>4, <1>5, <3>1, <3>2, <3>4
    <3> QED BY <3>3, <3>4
  <2>2. \A q, u \in Requests, p \in WorkOrders : Handles(q, p)' /\ Handles(u, p)' => q = u
    BY <1>4 DEF ServiceInv, HandledOnce
  <2>3. \A p \in ByApi' : answer'[p] = "none" => \E q \in Requests : Handles(q, p)'
    <3> SUFFICES ASSUME NEW p \in ByApi, answer'[p] = "none"
                 PROVE  \E q \in Requests : Handles(q, p)'
      BY <1>6
    <3>1. p # o /\ p \in WorkOrders /\ answer[p] = "none"
      BY <1>2, <1>5
    <3>2. PICK q \in Requests : Handles(q, p)
      BY <3>1 DEF ServiceInv, HandledOnce
    <3>3. q # r
      BY <1>4, <3>1, <3>2
    <3> QED BY <1>4, <3>1, <3>2, <3>3
  <2> QED BY <2>1, <2>2, <2>3 DEF HandledOnce
<1>9. WrittenWhole'
  BY <1>4, <1>6 DEF ServiceInv, WrittenWhole
<1>10. FlushedWhole'
  <2> SUFFICES ASSUME ~InMemory, NEW q \in Requests PROVE FlushedBy(q)'
    BY DEF FlushedWhole
  <2>1. CASE requests'[q] = requests[q]
    BY <1>6, <2>1, OthersFlushed
  <2>2. CASE requests'[q] # requests[q]
    <3>1. /\ requests[q].step \in {"writing", "stored", "lost"}
          /\ requests'[q].step = "idle"
      BY <1>3, <2>2
    <3>2. pending[q] = {}
      BY <3>1 DEF ServiceInv, FlushedWhole, FlushedBy
    <3> QED BY <1>6, <3>1, <3>2 DEF FlushedBy
  <2> QED BY <2>1, <2>2
<1>11. AnsweredTruly'
  <2> SUFFICES ASSUME ~InMemory, NEW p \in ByApi
               PROVE  /\ Assignments(p) \subseteq rows \/ Assignments(p) \cap rows = {}
                      /\ answer'[p] = "created" /\ store # "off" => Assignments(p) \subseteq rows
                      /\ answer'[p] = "failed" => /\ Assignments(p) \cap rows = {}
                                                  /\ Assignments(p) # {}
    BY <1>2, <1>6 DEF AnsweredTruly
  <2>1. CASE p = o
    <3>1. Assignments(o) # {}
      <4>1. PICK q : q \in partners[o]
        BY <1>2
      <4>2. <<o, q>> \in Assignments(o)
        BY <4>1 DEF Assignments
      <4> QED BY <4>2
    <3> QED BY <1>1, <1>5, <2>1, <3>1 DEF ServiceInv, AnsweredTruly
  <2>2. CASE p # o
    BY <1>2, <1>5, <2>2 DEF ServiceInv, AnsweredTruly
  <2> QED BY <2>1, <2>2
<1>12. RowsAreAssignments'
  BY <1>6 DEF ServiceInv, RowsAreAssignments
<1>13. BooksAreOwn' /\ WithdrawnByOwner'
  BY <1>6 DEF engineVars, ServiceInv, BooksAreOwn, WithdrawnByOwner
<1> QED BY <1>7, <1>8, <1>9, <1>10, <1>11, <1>12, <1>13 DEF ServiceInv

\* The client is told what became of its assignments, unless its handler was cancelled.
LEMMA AnswerKeeps ==
  ASSUME ServiceInv, NEW r \in Requests, Answer(r)
  PROVE  ServiceInv'
<1>1. PICK o \in WorkOrders : o = requests[r].order /\ Handles(r, o)
  BY DEF Answer, ServiceInv, TypesHold, Request, Idle, Handles, Busy
<1>2. /\ requests[r].step \in {"stored", "lost"} /\ requests[r].step \in Busy
      /\ requests' = [requests EXCEPT ![r] = Idle]
      /\ UNCHANGED <<keyVars, engineVars, book, storeVars, owned>>
  BY DEF Answer, Tell, Busy
<1>3. ~InMemory => IF requests[r].step = "stored" THEN Assignments(o) \subseteq rows
                   ELSE Assignments(o) \cap rows = {}
  BY <1>1, <1>2 DEF ServiceInv, WrittenWhole
<1>4. CASE answer[o] = "none"
  <2>1. PICK what \in {"created", "failed"} :
          /\ what = IF requests[r].step = "stored" THEN "created" ELSE "failed"
          /\ answer' = [answer EXCEPT ![o] = what]
    BY <1>1, <1>4 DEF Answer, Tell
  <2> QED BY <1>1, <1>2, <1>3, <2>1, HandlingEnds DEF Answers
<1>5. CASE answer[o] = "unheard"
  <2>1. answer' = [answer EXCEPT ![o] = "unheard"]
    BY <1>1, <1>5 DEF Answer, ServiceInv, TypesHold
  <2> QED BY <1>1, <1>2, <2>1, HandlingEnds DEF Answers
<1> QED BY <1>1, <1>4, <1>5 DEF ServiceInv, HandledOnce

LEMMA AbandonKeeps ==
  ASSUME ServiceInv, NEW r \in Requests, Abandon(r)
  PROVE  ServiceInv'
<1>1. requests[r].step \in Busy
  BY DEF Abandon, ServiceInv, TypesHold, Request, Idle, Busy
<1>2. /\ answer' = [answer EXCEPT ![requests[r].order] = "unheard"]
      /\ \/ requests' = requests
         \/ requests[r].step = "writing" /\ requests' = [requests EXCEPT ![r] = Idle]
      /\ UNCHANGED <<keyVars, engineVars, book, storeVars, owned>>
  BY DEF Abandon
<1> QED BY <1>1, <1>2, HandlingEnds DEF Answers

LEMMA CloseStoreKeeps ==
  ASSUME ServiceInv, CloseStore
  PROVE  ServiceInv'
<1>1. /\ store = "open" /\ store' = "closed"
      /\ UNCHANGED <<keyVars, engineVars, requests, book, answer, owned>>
      /\ ~InMemory => rows' = rows /\ pending' = pending
  BY DEF CloseStore, apiVars
<1>2. \A r \in Requests, o \in WorkOrders : Handles(r, o)' <=> Handles(r, o)
  BY <1>1 DEF Handles
<1>3. SameHandling
  BY <1>1, <1>2 DEF SameHandling, keyVars, ServiceInv, TypesHold, KeyTypeOK
<1>4. /\ TypesHold' /\ HandledOnce' /\ BooksAreOwn' /\ WithdrawnByOwner'
      /\ ByApi' = ByApi /\ \A o \in WorkOrders : Assignments(o)' = Assignments(o)
      /\ Executed' = Executed
  BY <1>3, SameHandlingKeeps
<1>5. ByApi \subseteq WorkOrders
  BY DEF ByApi, ServiceInv, TypesHold
<1>6. WrittenWhole'
  BY <1>1, <1>2, <1>4 DEF ServiceInv, WrittenWhole
<1>7. FlushedWhole'
  BY <1>1, <1>4, OthersFlushed DEF FlushedWhole
<1>8. AnsweredTruly'
  BY <1>1, <1>4, <1>5 DEF ServiceInv, AnsweredTruly
<1>9. RowsAreAssignments'
  <2>1. rows \subseteq Executed /\ pending \in [Requests -> SUBSET Executed]
    BY DEF ServiceInv, RowsAreAssignments
  <2>2. rows' \subseteq Executed /\ pending' \in [Requests -> SUBSET Executed]
    BY <2>1 DEF CloseStore
  <2> QED BY <1>4, <2>2 DEF RowsAreAssignments
<1> QED BY <1>4, <1>6, <1>7, <1>8, <1>9 DEF ServiceInv

-----------------------------------------------------------------------------
\* An order that rests is withdrawn by the one it belongs to.
LEMMA WithdrawKeeps ==
  ASSUME ServiceInv, NEW o \in WorkOrders, NEW by, Withdraw(o, by),
         by = IF terms[o].front = "api" THEN terms[o].org ELSE "mcp",
         KeyTypeOK', requests' \in [Requests -> Request],
         \A r \in Requests : requests[r].step \in Busy \/ requests'[r].step \in Busy =>
                               requests'[r] = requests[r],
         UNCHANGED <<book, answer, storeVars>>,
         owned' \subseteq owned, owned \subseteq owned' \cup {o}
  PROVE  ServiceInv'
<1>1. /\ stage[o] = "live" /\ stage' = [stage EXCEPT ![o] = "withdrawn"]
      /\ withdrawer' = [withdrawer EXCEPT ![o] = by]
      /\ terms' = terms /\ partners' = partners
  BY DEF Withdraw
<1>2. o \in DOMAIN terms
  BY <1>1 DEF ServiceInv, TypesHold
<1>3. by \in Orgs \cup {"mcp"}
  BY <1>2 DEF ServiceInv, TypesHold, ByApi
<1>4. /\ stage' \in [WorkOrders -> {"unknown", "live", "full", "withdrawn", "refused"}]
      /\ stage'[o] = "withdrawn" /\ \A p \in WorkOrders \ {o} : stage'[p] = stage[p]
  BY <1>1 DEF ServiceInv, TypesHold
<1>5. /\ withdrawer' \in [WorkOrders -> Orgs \cup {"none", "mcp"}]
      /\ withdrawer'[o] = by /\ \A p \in WorkOrders \ {o} : withdrawer'[p] = withdrawer[p]
  BY <1>1, <1>3 DEF ServiceInv, TypesHold
<1>6. /\ ByApi' = ByApi /\ \A p \in WorkOrders : Assignments(p)' = Assignments(p)
      /\ rows' = rows /\ store' = store /\ answer' = answer /\ book' = book
      /\ pending' = pending /\ Executed' = Executed
  BY <1>1 DEF ByApi, Assignments, Executed, storeVars
<1>7. TypesHold'
  <2>1. \A p \in WorkOrders : stage'[p] = "unknown" <=> p \notin DOMAIN terms'
    BY <1>1, <1>2, <1>4 DEF ServiceInv, TypesHold
  <2> QED BY <1>1, <1>4, <1>5, <1>6, <2>1 DEF ServiceInv, TypesHold
<1>8. \A r \in Requests, p \in WorkOrders :
        /\ Handles(r, p)' <=> Handles(r, p)
        /\ Handles(r, p) => requests'[r].step = requests[r].step
  BY DEF Handles
<1>9. ByApi \subseteq WorkOrders
  BY DEF ByApi, ServiceInv, TypesHold
<1>10. HandledOnce'
  <2>1. \A r \in Requests, p \in WorkOrders :
          Handles(r, p)' => p \in ByApi' /\ answer'[p] \in {"none", "unheard"} /\ partners'[p] # {}
    BY <1>1, <1>6, <1>8 DEF ServiceInv, HandledOnce
  <2>2. \A r, q \in Requests, p \in WorkOrders : Handles(r, p)' /\ Handles(q, p)' => r = q
    BY <1>8 DEF ServiceInv, HandledOnce
  <2>3. \A p \in ByApi' : answer'[p] = "none" => \E r \in Requests : Handles(r, p)'
    BY <1>6, <1>8, <1>9 DEF ServiceInv, HandledOnce
  <2> QED BY <2>1, <2>2, <2>3 DEF HandledOnce
<1>11. WrittenWhole'
  BY <1>6, <1>8 DEF ServiceInv, WrittenWhole
<1>12. AnsweredTruly' /\ RowsAreAssignments'
  BY <1>6, <1>9 DEF ServiceInv, AnsweredTruly, RowsAreAssignments
<1>15. FlushedWhole'
  <2> SUFFICES ASSUME ~InMemory, NEW r \in Requests PROVE FlushedBy(r)'
    BY DEF FlushedWhole
  <2>1. CASE requests'[r] = requests[r]
    BY <1>6, <2>1, OthersFlushed
  <2>2. CASE requests'[r] # requests[r]
    <3>1. requests[r].step \notin Busy /\ requests'[r].step \notin Busy
      BY <2>2
    <3> QED BY <1>6, <3>1 DEF FlushedBy, Busy, ServiceInv, FlushedWhole
  <2> QED BY <2>1, <2>2
<1>13. BooksAreOwn'
  <2>1. \A g \in Orgs : book'[g] = {p \in ByApi' : terms'[p].org = g}
    BY <1>1, <1>6 DEF ServiceInv, BooksAreOwn
  <2>2. \A p \in DOMAIN terms' : terms'[p].front = "mcp" /\ stage'[p] = "live" => p \in owned'
    BY <1>1, <1>4 DEF ServiceInv, BooksAreOwn, TypesHold
  <2>3. \A p \in owned' : p \in DOMAIN terms' /\ terms'[p].front = "mcp"
    BY <1>1 DEF ServiceInv, BooksAreOwn
  <2> QED BY <2>1, <2>2, <2>3 DEF BooksAreOwn
<1>14. WithdrawnByOwner'
  BY <1>1, <1>2, <1>5 DEF ServiceInv, WithdrawnByOwner
<1> QED BY <1>7, <1>10, <1>11, <1>12, <1>13, <1>14, <1>15 DEF ServiceInv

LEMMA CancelKeeps ==
  ASSUME ServiceInv, NEW r \in Requests, NEW o \in WorkOrders, Cancel(r, o)
  PROVE  ServiceInv'
<1>1. PICK g : g = requests[r].org
  OBVIOUS
<1>2. requests[r].step = "admitted" /\ g \in Orgs
  BY <1>1 DEF Cancel, MayDispatch, ServiceInv, TypesHold, Request, Idle, Busy
<1>3. o \in ByApi /\ terms[o].org = g
  BY <1>1, <1>2 DEF Cancel, Shown, ServiceInv, BooksAreOwn
<1>4. terms[o].front = "api"
  BY <1>3 DEF ByApi
<1>5. Withdraw(o, g)
  BY <1>1 DEF Cancel
<1>6. KeyTypeOK'
  BY DEF Cancel, keyVars, ServiceInv, TypesHold, KeyTypeOK
<1>7. /\ requests' \in [Requests -> Request]
      /\ \A q \in Requests \ {r} : requests'[q] = requests[q]
      /\ requests'[r].step \notin Busy /\ requests[r].step \notin Busy
  BY <1>2 DEF Cancel, ServiceInv, TypesHold, Request, Idle, Busy
<1>8. UNCHANGED <<book, answer, storeVars, owned>>
  BY DEF Cancel
<1> QED BY <1>3, <1>4, <1>5, <1>6, <1>7, <1>8, WithdrawKeeps

LEMMA McpCancelKeeps ==
  ASSUME ServiceInv, NEW o \in WorkOrders, McpCancel(o)
  PROVE  ServiceInv'
<1>1. /\ o \in owned /\ owned' = owned \ {o}
      /\ UNCHANGED <<keyVars, apiVars, storeVars>>
  BY DEF McpCancel
<1>2. o \in DOMAIN terms /\ terms[o].front = "mcp"
  BY <1>1 DEF ServiceInv, BooksAreOwn
<1>3. KeyTypeOK' /\ requests' = requests /\ book' = book /\ answer' = answer
  BY <1>1 DEF keyVars, apiVars, ServiceInv, TypesHold, KeyTypeOK
<1>4. CASE stage[o] = "live"
  <2>1. Withdraw(o, "mcp")
    BY <1>4 DEF McpCancel
  <2> QED BY <1>1, <1>2, <1>3, <2>1, WithdrawKeeps DEF ServiceInv, TypesHold
<1>5. CASE stage[o] # "live"
  <2>1. UNCHANGED engineVars
    BY <1>5 DEF McpCancel
  <2>2. /\ ByApi' = ByApi /\ \A p \in WorkOrders : Assignments(p)' = Assignments(p)
        /\ \A r \in Requests, p \in WorkOrders : Handles(r, p)' <=> Handles(r, p)
        /\ Executed' = Executed
    BY <1>3, <2>1 DEF ByApi, Assignments, Executed, Handles, engineVars
  <2>3. ByApi \subseteq WorkOrders
    BY DEF ByApi, ServiceInv, TypesHold
  <2>4. TypesHold'
    BY <1>1, <1>3, <2>1, <2>2 DEF ServiceInv, TypesHold, engineVars
  <2>5. HandledOnce'
    <3>1. \A r \in Requests, p \in WorkOrders :
            Handles(r, p)' => p \in ByApi' /\ answer'[p] \in {"none", "unheard"} /\ partners'[p] # {}
      BY <1>3, <2>1, <2>2 DEF engineVars, ServiceInv, HandledOnce
    <3>2. \A r, q \in Requests, p \in WorkOrders : Handles(r, p)' /\ Handles(q, p)' => r = q
      BY <2>2 DEF ServiceInv, HandledOnce
    <3>3. \A p \in ByApi' : answer'[p] = "none" => \E r \in Requests : Handles(r, p)'
      BY <1>3, <2>2, <2>3 DEF ServiceInv, HandledOnce
    <3> QED BY <3>1, <3>2, <3>3 DEF HandledOnce
  <2>6. WrittenWhole'
    BY <1>1, <1>3, <2>2 DEF storeVars, ServiceInv, WrittenWhole
  <2>7. AnsweredTruly'
    BY <1>1, <1>3, <2>2, <2>3 DEF storeVars, ServiceInv, AnsweredTruly
  <2>8. RowsAreAssignments'
    BY <1>1, <2>2, <2>3 DEF storeVars, ServiceInv, RowsAreAssignments
  <2>9. BooksAreOwn'
    BY <1>1, <1>3, <1>5, <2>1, <2>2 DEF engineVars, ServiceInv, BooksAreOwn
  <2>10. WithdrawnByOwner'
    BY <2>1 DEF engineVars, ServiceInv, WithdrawnByOwner
  <2>11. FlushedWhole'
    BY <1>1, <1>3, <2>2, OthersFlushed DEF storeVars, FlushedWhole
  <2> QED BY <2>4, <2>5, <2>6, <2>7, <2>8, <2>9, <2>10, <2>11 DEF ServiceInv
<1> QED BY <1>4, <1>5

-----------------------------------------------------------------------------
\* What the opening of an order leaves true, over either front end
LEMMA OpeningKeeps ==
  ASSUME ServiceInv, NEW o \in WorkOrders, NEW t, Opens(o, t),
         t.front \in {"api", "mcp"}, t.front = "api" => t.org \in Orgs
  PROVE  /\ o \notin ByApi /\ ByApi \subseteq WorkOrders /\ \A r \in Requests : ~Handles(r, o)
         /\ ByApi' = ByApi \cup (IF t.front = "api" THEN {o} ELSE {})
         /\ DOMAIN terms' \subseteq WorkOrders
         /\ \A p \in DOMAIN terms' : terms'[p].front \in {"api", "mcp"}
         /\ \A p \in ByApi' : terms'[p].org \in Orgs
         /\ \A p \in WorkOrders \ {o} : Assignments(p)' = Assignments(p)
         /\ Assignments(o)' \cap rows = {}
         /\ Executed \subseteq Executed'
         /\ WithdrawnByOwner'
<1>1. o \notin ByApi /\ ByApi \subseteq WorkOrders
  BY DEF Opens, ByApi, ServiceInv, TypesHold
<1>2. ByApi' = ByApi \cup (IF t.front = "api" THEN {o} ELSE {})
  BY DEF Opens, ByApi
<1>3. DOMAIN terms' \subseteq WorkOrders
  BY DEF Opens, ServiceInv, TypesHold
<1>4. \A p \in DOMAIN terms' : terms'[p].front \in {"api", "mcp"}
  BY DEF Opens, ServiceInv, TypesHold
<1>5. \A p \in ByApi' : terms'[p].org \in Orgs
  BY <1>2 DEF Opens, ByApi, ServiceInv, TypesHold
<1>6. Assignments(o)' \cap rows = {}
  <2>1. Assignments(o)' \subseteq {o} \X WorkOrders
    BY DEF Assignments, Opens
  <2> QED BY <1>1, <2>1, NoRowsOfUnseen DEF ServiceInv
<1>7. WithdrawnByOwner'
  BY DEF Opens, ServiceInv, WithdrawnByOwner
<1>8. \A r \in Requests : ~Handles(r, o)
  BY <1>1 DEF ServiceInv, HandledOnce
<1>9. Executed \subseteq Executed'
  <2> SUFFICES ASSUME NEW p \in ByApi PROVE p \in ByApi' /\ Assignments(p) \subseteq Assignments(p)'
    BY DEF Executed
  <2> QED BY <1>1, <1>2, OthersAssignments
<1> QED BY <1>1, <1>2, <1>3, <1>4, <1>5, <1>6, <1>7, <1>8, <1>9, OthersAssignments

\* A submission over the API that is answered at once: it was refused, assigned nothing,
\* needs no store or meets one that is closed.
LEMMA ToldAtOnce ==
  ASSUME ServiceInv, NEW r \in Requests, NEW o \in WorkOrders, NEW t, NEW what,
         Opens(o, t), t.front = "api", t.org \in Orgs,
         requests[r].step = "admitted", Tell(r, o, what), Register(t.org, o),
         UNCHANGED <<keyVars, storeVars, owned>>,
         \/ what = "rejected"
         \/ what = "created" /\ (partners'[o] = {} \/ store = "off")
         \/ what = "failed" /\ partners'[o] # {}
  PROVE  ServiceInv'
<1>1. /\ o \notin ByApi /\ ByApi \subseteq WorkOrders /\ \A q \in Requests : ~Handles(q, o)
      /\ ByApi' = ByApi \cup {o}
      /\ DOMAIN terms' \subseteq WorkOrders
      /\ \A p \in DOMAIN terms' : terms'[p].front \in {"api", "mcp"}
      /\ \A p \in ByApi' : terms'[p].org \in Orgs
      /\ \A p \in WorkOrders \ {o} : Assignments(p)' = Assignments(p)
      /\ Assignments(o)' \cap rows = {}
      /\ Executed \subseteq Executed'
      /\ WithdrawnByOwner'
  BY OpeningKeeps
<1>2. /\ requests' \in [Requests -> Request]
      /\ \A q \in Requests \ {r} : requests'[q] = requests[q]
      /\ requests'[r].step \notin Busy /\ requests[r].step \notin Busy
  BY DEF Tell, ServiceInv, TypesHold, Request, Idle, Busy
<1>3. \A q \in Requests, p \in WorkOrders :
        /\ Handles(q, p)' <=> Handles(q, p)
        /\ Handles(q, p) => requests'[q].step = requests[q].step
  BY <1>2 DEF Handles
<1>4. /\ answer' \in [WorkOrders -> Answers]
      /\ answer'[o] = what /\ \A p \in WorkOrders \ {o} : answer'[p] = answer[p]
  BY DEF Tell, ServiceInv, TypesHold, Answers
<1>5. rows' = rows /\ pending' = pending /\ store' = store /\ owned' = owned
  BY DEF storeVars
<1>6. /\ book' \in [Orgs -> SUBSET WorkOrders]
      /\ book'[t.org] = book[t.org] \cup {o}
      /\ \A g \in Orgs \ {t.org} : book'[g] = book[g]
  BY DEF Register, ServiceInv, TypesHold
<1>7. TypesHold'
  <2>1. KeyTypeOK'
    BY DEF ServiceInv, TypesHold, KeyTypeOK, keyVars
  <2> QED BY <1>1, <1>2, <1>4, <1>5, <1>6, <2>1 DEF Opens, ServiceInv, TypesHold
<1>8. HandledOnce'
  <2>1. \A q \in Requests, p \in WorkOrders :
          Handles(q, p)' => p \in ByApi' /\ answer'[p] \in {"none", "unheard"} /\ partners'[p] # {}
    BY <1>1, <1>3, <1>4 DEF Opens, ServiceInv, HandledOnce
  <2>2. \A q, u \in Requests, p \in WorkOrders : Handles(q, p)' /\ Handles(u, p)' => q = u
    BY <1>3 DEF ServiceInv, HandledOnce
  <2>3. \A p \in ByApi' : answer'[p] = "none" => \E q \in Requests : Handles(q, p)'
    BY <1>1, <1>3, <1>4 DEF ServiceInv, HandledOnce
  <2> QED BY <2>1, <2>2, <2>3 DEF HandledOnce
<1>9. WrittenWhole'
  BY <1>1, <1>3, <1>5 DEF ServiceInv, WrittenWhole
<1>10. AnsweredTruly'
  <2> SUFFICES ASSUME ~InMemory, NEW p \in ByApi'
               PROVE  /\ Assignments(p)' \subseteq rows \/ Assignments(p)' \cap rows = {}
                      /\ answer'[p] = "created" /\ store # "off" => Assignments(p)' \subseteq rows
                      /\ answer'[p] = "failed" => /\ Assignments(p)' \cap rows = {}
                                                  /\ Assignments(p)' # {}
    BY <1>5 DEF AnsweredTruly
  <2>1. CASE p = o
    <3>1. partners'[o] = {} => Assignments(o)' = {}
      BY DEF Assignments
    <3>2. ASSUME partners'[o] # {} PROVE Assignments(o)' # {}
      <4>1. PICK q : q \in partners'[o]
        BY <3>2
      <4>2. <<o, q>> \in Assignments(o)'
        BY <4>1 DEF Assignments
      <4> QED BY <4>2
    <3> QED BY <1>1, <1>4, <2>1, <3>1, <3>2
  <2>2. CASE p # o
    BY <1>1, <1>4, <2>2 DEF ServiceInv, AnsweredTruly
  <2> QED BY <2>1, <2>2
<1>11. RowsAreAssignments'
  BY <1>1, <1>5 DEF ServiceInv, RowsAreAssignments
<1>12. BooksAreOwn'
  <2>1. \A g \in Orgs : book'[g] = {p \in ByApi' : terms'[p].org = g}
    BY <1>1, <1>6 DEF Opens, ByApi, ServiceInv, BooksAreOwn
  <2>2. \A p \in DOMAIN terms' : terms'[p].front = "mcp" /\ stage'[p] = "live" => p \in owned'
    BY <1>5 DEF Opens, ServiceInv, BooksAreOwn
  <2>3. \A p \in owned' : p \in DOMAIN terms' /\ terms'[p].front = "mcp"
    BY <1>5 DEF Opens, ServiceInv, BooksAreOwn
  <2> QED BY <2>1, <2>2, <2>3 DEF BooksAreOwn
<1>13. FlushedWhole'
  <2> SUFFICES ASSUME ~InMemory, NEW q \in Requests PROVE FlushedBy(q)'
    BY DEF FlushedWhole
  <2>1. CASE q = r
    BY <1>2, <1>5, <2>1 DEF FlushedBy, Busy, ServiceInv, FlushedWhole
  <2>2. CASE q # r
    BY <1>1, <1>2, <1>5, <2>2, OthersFlushed
  <2> QED BY <2>1, <2>2
<1> QED BY <1>1, <1>7, <1>8, <1>9, <1>10, <1>11, <1>12, <1>13 DEF ServiceInv

\* A submission whose assignments go to a worker thread
LEMMA HandedOver ==
  ASSUME ServiceInv, NEW r \in Requests, NEW o \in WorkOrders, NEW t,
         Opens(o, t), t.front = "api", t.org \in Orgs, requests[r].step = "admitted",
         requests' = [requests EXCEPT ![r] = [step |-> "writing", order |-> o]],
         UNCHANGED answer, Register(t.org, o),
         UNCHANGED <<keyVars, storeVars, owned>>, partners'[o] # {}
  PROVE  ServiceInv'
<1>1. /\ o \notin ByApi /\ ByApi \subseteq WorkOrders /\ \A q \in Requests : ~Handles(q, o)
      /\ ByApi' = ByApi \cup {o}
      /\ DOMAIN terms' \subseteq WorkOrders
      /\ \A p \in DOMAIN terms' : terms'[p].front \in {"api", "mcp"}
      /\ \A p \in ByApi' : terms'[p].org \in Orgs
      /\ \A p \in WorkOrders \ {o} : Assignments(p)' = Assignments(p)
      /\ Assignments(o)' \cap rows = {}
      /\ Executed \subseteq Executed'
      /\ WithdrawnByOwner'
  BY OpeningKeeps
<1>2. /\ requests' \in [Requests -> Request]
      /\ \A q \in Requests \ {r} : requests'[q] = requests[q]
      /\ requests'[r] = [step |-> "writing", order |-> o]
      /\ requests[r].step \notin Busy /\ "writing" \in Busy
  <2>1. [step |-> "writing", order |-> o] \in Request
    BY DEF Request, Busy
  <2> QED BY <2>1 DEF ServiceInv, TypesHold, Busy
<1>3. \A q \in Requests, p \in WorkOrders :
        Handles(q, p)' <=> \/ q # r /\ Handles(q, p)
                           \/ q = r /\ p = o
  BY <1>2 DEF Handles
<1>4. \A p \in WorkOrders : ~Handles(r, p)
  BY <1>2 DEF Handles
<1>5. /\ rows' = rows /\ pending' = pending /\ store' = store /\ owned' = owned
      /\ answer' = answer /\ answer[o] = "none"
  BY <1>1 DEF storeVars, ServiceInv, TypesHold
<1>6. /\ book' \in [Orgs -> SUBSET WorkOrders]
      /\ book'[t.org] = book[t.org] \cup {o}
      /\ \A g \in Orgs \ {t.org} : book'[g] = book[g]
  BY DEF Register, ServiceInv, TypesHold
<1>7. TypesHold'
  <2>1. KeyTypeOK'
    BY DEF ServiceInv, TypesHold, KeyTypeOK, keyVars
  <2> QED BY <1>1, <1>2, <1>5, <1>6, <2>1 DEF Opens, ServiceInv, TypesHold
<1>8. HandledOnce'
  <2>1. \A q \in Requests, p \in WorkOrders :
          Handles(q, p)' => p \in ByApi' /\ answer'[p] \in {"none", "unheard"} /\ partners'[p] # {}
    BY <1>1, <1>3, <1>5 DEF Opens, ServiceInv, HandledOnce
  <2>2. \A q, u \in Requests, p \in WorkOrders : Handles(q, p)' /\ Handles(u, p)' => q = u
    BY <1>1, <1>3 DEF ServiceInv, HandledOnce
  <2>3. \A p \in ByApi' : answer'[p] = "none" => \E q \in Requests : Handles(q, p)'
    <3> SUFFICES ASSUME NEW p \in ByApi', answer'[p] = "none"
                 PROVE  \E q \in Requests : Handles(q, p)'
      OBVIOUS
    <3>1. CASE p = o
      BY <1>3, <3>1
    <3>2. CASE p # o
      <4>1. PICK q \in Requests : Handles(q, p)
        BY <1>1, <1>5, <3>2 DEF ServiceInv, HandledOnce
      <4> QED BY <1>1, <1>3, <1>4, <3>2, <4>1
    <3> QED BY <3>1, <3>2
  <2> QED BY <2>1, <2>2, <2>3 DEF HandledOnce
<1>9. WrittenWhole'
  <2> SUFFICES ASSUME ~InMemory, NEW q \in Requests, NEW p \in WorkOrders, Handles(q, p)'
               PROVE  IF requests'[q].step \in {"committed", "stored"}
                      THEN Assignments(p)' \subseteq rows ELSE Assignments(p)' \cap rows = {}
    BY <1>5 DEF WrittenWhole
  <2>1. CASE q = r
    BY <1>1, <1>2, <1>3, <2>1
  <2>2. CASE q # r
    <3>1. Handles(q, p) /\ p # o /\ requests'[q] = requests[q]
      BY <1>1, <1>2, <1>3, <2>2
    <3> QED BY <1>1, <3>1 DEF ServiceInv, WrittenWhole
  <2> QED BY <2>1, <2>2
<1>10. AnsweredTruly'
  BY <1>1, <1>5 DEF ServiceInv, AnsweredTruly
<1>11. RowsAreAssignments'
  BY <1>1, <1>5 DEF ServiceInv, RowsAreAssignments
<1>12. BooksAreOwn'
  <2>1. \A g \in Orgs : book'[g] = {p \in ByApi' : terms'[p].org = g}
    BY <1>1, <1>6 DEF Opens, ByApi, ServiceInv, BooksAreOwn
  <2>2. \A p \in DOMAIN terms' : terms'[p].front = "mcp" /\ stage'[p] = "live" => p \in owned'
    BY <1>5 DEF Opens, ServiceInv, BooksAreOwn
  <2>3. \A p \in owned' : p \in DOMAIN terms' /\ terms'[p].front = "mcp"
    BY <1>5 DEF Opens, ServiceInv, BooksAreOwn
  <2> QED BY <2>1, <2>2, <2>3 DEF BooksAreOwn
<1>13. FlushedWhole'
  <2> SUFFICES ASSUME ~InMemory, NEW q \in Requests PROVE FlushedBy(q)'
    BY DEF FlushedWhole
  <2>1. CASE q = r
    BY <1>2, <1>5, <2>1 DEF FlushedBy, Busy, ServiceInv, FlushedWhole
  <2>2. CASE q # r
    BY <1>1, <1>2, <1>5, <2>2, OthersFlushed
  <2> QED BY <2>1, <2>2
<1> QED BY <1>1, <1>7, <1>8, <1>9, <1>10, <1>11, <1>12, <1>13 DEF ServiceInv

LEMMA SubmitKeeps ==
  ASSUME ServiceInv, NEW r \in Requests, NEW o \in WorkOrders, NEW side \in Sides,
         NEW h \in Hours, Submit(r, o, side, h)
  PROVE  ServiceInv'
<1>1. PICK t : t = [org |-> requests[r].org, front |-> "api", side |-> side]
  OBVIOUS
<1>2. requests[r].step = "admitted" /\ requests[r].org \in Orgs
  BY DEF Submit, MayDispatch, ServiceInv, TypesHold, Request, Idle, Busy
<1>3. t.front = "api" /\ t.org \in Orgs
  BY <1>1, <1>2
<1>4. Register(t.org, o) /\ UNCHANGED <<keyVars, storeVars, owned>>
  BY <1>1 DEF Submit
<1>5. CASE Reject(o, t) /\ Tell(r, o, "rejected")
  <2>1. Opens(o, t)
    BY <1>5, RejectOpens DEF ServiceInv
  <2> QED BY <1>2, <1>3, <1>4, <1>5, <2>1, ToldAtOnce
<1>6. ASSUME NEW d \in Deals(side, h), NEW rests \in BOOLEAN, Accept(o, t, h, d, rests),
             IF partners'[o] = {} THEN Tell(r, o, "created") ELSE Persist(r, o)
      PROVE  ServiceInv'
  <2>1. Opens(o, t)
    BY <1>6, AcceptOpens DEF ServiceInv
  <2>2. CASE partners'[o] = {}
    <3>1. Tell(r, o, "created")
      BY <1>6, <2>2
    <3> QED BY <1>2, <1>3, <1>4, <2>1, <2>2, <3>1, ToldAtOnce
  <2>3. CASE partners'[o] # {} /\ store = "off"
    <3>1. Tell(r, o, "created")
      BY <1>6, <2>3 DEF Persist
    <3> QED BY <1>2, <1>3, <1>4, <2>1, <2>3, <3>1, ToldAtOnce
  <2>4. CASE partners'[o] # {} /\ store = "closed"
    <3>1. Tell(r, o, "failed")
      BY <1>6, <2>4 DEF Persist
    <3> QED BY <1>2, <1>3, <1>4, <2>1, <2>4, <3>1, ToldAtOnce
  <2>5. CASE partners'[o] # {} /\ store \notin {"off", "closed"}
    <3>1. /\ requests' = [requests EXCEPT ![r] = [step |-> "writing", order |-> o]]
          /\ UNCHANGED answer
      BY <1>6, <2>5 DEF Persist
    <3> QED BY <1>2, <1>3, <1>4, <2>1, <2>5, <3>1, HandedOver
  <2> QED BY <2>2, <2>3, <2>4, <2>5
<1> QED BY <1>1, <1>5, <1>6 DEF Submit

LEMMA McpSubmitKeeps ==
  ASSUME ServiceInv, NEW o \in WorkOrders, NEW side \in Sides, NEW h \in Hours,
         McpSubmit(o, side, h)
  PROVE  ServiceInv'
<1>1. PICK t : t = [org |-> McpOrg, front |-> "mcp", side |-> side]
  OBVIOUS
<1>2. Opens(o, t)
  BY <1>1, AcceptOpens, RejectOpens DEF McpSubmit, ServiceInv
<1>3. t.front = "mcp"
  BY <1>1
<1>4. /\ o \notin ByApi /\ ByApi \subseteq WorkOrders /\ \A q \in Requests : ~Handles(q, o)
      /\ ByApi' = ByApi
      /\ DOMAIN terms' \subseteq WorkOrders
      /\ \A p \in DOMAIN terms' : terms'[p].front \in {"api", "mcp"}
      /\ \A p \in ByApi' : terms'[p].org \in Orgs
      /\ \A p \in WorkOrders \ {o} : Assignments(p)' = Assignments(p)
      /\ Executed \subseteq Executed'
      /\ WithdrawnByOwner'
  BY <1>2, <1>3, OpeningKeeps
<1>5. /\ UNCHANGED <<keyVars, apiVars, storeVars>>
      /\ requests' = requests /\ book' = book /\ answer' = answer
      /\ rows' = rows /\ pending' = pending /\ store' = store
      /\ owned' = IF stage'[o] = "live" THEN owned \cup {o} ELSE owned
  BY DEF McpSubmit, OwnedAfter, apiVars, storeVars
<1>6. TypesHold'
  <2>1. KeyTypeOK'
    BY <1>5 DEF ServiceInv, TypesHold, KeyTypeOK, keyVars
  <2>2. owned' \subseteq WorkOrders
    BY <1>5 DEF ServiceInv, TypesHold
  <2> QED BY <1>2, <1>4, <1>5, <2>1, <2>2 DEF Opens, ServiceInv, TypesHold
<1>7. \A q \in Requests, p \in WorkOrders : Handles(q, p)' <=> Handles(q, p)
  BY <1>5 DEF Handles
<1>8. HandledOnce'
  <2>1. \A q \in Requests, p \in WorkOrders :
          Handles(q, p)' => p \in ByApi' /\ answer'[p] \in {"none", "unheard"} /\ partners'[p] # {}
    BY <1>2, <1>4, <1>5, <1>7 DEF Opens, ServiceInv, HandledOnce
  <2>2. \A q, u \in Requests, p \in WorkOrders : Handles(q, p)' /\ Handles(u, p)' => q = u
    BY <1>7 DEF ServiceInv, HandledOnce
  <2>3. \A p \in ByApi' : answer'[p] = "none" => \E q \in Requests : Handles(q, p)'
    BY <1>4, <1>5, <1>7 DEF ServiceInv, HandledOnce
  <2> QED BY <2>1, <2>2, <2>3 DEF HandledOnce
<1>9. WrittenWhole'
  BY <1>4, <1>5, <1>7 DEF ServiceInv, WrittenWhole
<1>10. AnsweredTruly' /\ RowsAreAssignments'
  BY <1>4, <1>5 DEF ServiceInv, AnsweredTruly, RowsAreAssignments
<1>12. FlushedWhole'
  BY <1>4, <1>5, OthersFlushed DEF FlushedWhole
<1>11. BooksAreOwn'
  <2>1. \A g \in Orgs : book'[g] = {p \in ByApi' : terms'[p].org = g}
    BY <1>2, <1>4, <1>5 DEF Opens, ByApi, ServiceInv, BooksAreOwn
  <2>2. \A p \in DOMAIN terms' : terms'[p].front = "mcp" /\ stage'[p] = "live" => p \in owned'
    BY <1>2, <1>5 DEF Opens, ServiceInv, BooksAreOwn
  <2>3. \A p \in owned' : p \in DOMAIN terms' /\ terms'[p].front = "mcp"
    BY <1>2, <1>3, <1>5 DEF Opens, ServiceInv, BooksAreOwn
  <2> QED BY <2>1, <2>2, <2>3 DEF BooksAreOwn
<1> QED BY <1>4, <1>6, <1>8, <1>9, <1>10, <1>11, <1>12 DEF ServiceInv

-----------------------------------------------------------------------------
\* Every step of either front end, of the keys and of the store keeps the invariant.
LEMMA ServiceStep == ServiceInv /\ [Next]_vars => ServiceInv'
<1> SUFFICES ASSUME ServiceInv, [Next]_vars PROVE ServiceInv'
  OBVIOUS
<1>1. CASE ManageKeys
  BY <1>1, ManageKeysKeeps
<1>2. CASE \E r \in Requests, k \in RawKeys : Admit(r, k)
  BY <1>2, AdmitKeeps
<1>3. CASE \E r \in Requests, o \in WorkOrders, side \in Sides, h \in Hours :
             Submit(r, o, side, h)
  BY <1>3, SubmitKeeps
<1>4. CASE \E r \in Requests, o \in WorkOrders : Cancel(r, o)
  BY <1>4, CancelKeeps
<1>5. CASE \E r \in Requests : \/ Dismiss(r)
                             \/ OpenSession(r) \/ CommitSession(r) \/ EndSession(r)
                             \/ Answer(r) \/ Abandon(r)
  BY <1>5, DismissKeeps, OpenSessionKeeps, CommitSessionKeeps, EndSessionKeeps, AnswerKeeps,
     AbandonKeeps
<1>6. CASE CloseStore
  BY <1>6, CloseStoreKeeps
<1>7. CASE \E o \in WorkOrders, side \in Sides, h \in Hours : McpSubmit(o, side, h)
  BY <1>7, McpSubmitKeeps
<1>8. CASE \E o \in WorkOrders : McpCancel(o)
  BY <1>8, McpCancelKeeps
<1>9. CASE UNCHANGED vars
  <2>1. KeyTypeOK'
    BY <1>9 DEF vars, keyVars, ServiceInv, TypesHold, KeyTypeOK
  <2>2. Quiet
    BY <1>9, <2>1, NothingStored DEF vars, apiVars, Quiet, ServiceInv, TypesHold
  <2> QED BY <2>2, QuietKeeps
<1> QED BY <1>1, <1>2, <1>3, <1>4, <1>5, <1>6, <1>7, <1>8, <1>9 DEF Next

\* The inductive invariant of both front ends (service.py, server.py)
THEOREM ServiceInvariant == Spec => []ServiceInv
BY ServiceInit, ServiceStep, PTL DEF Spec

\* What the client of a submission is told of its assignments is what is in the store,
\* and the store has all or none of them, whatever else is handled meanwhile, whenever
\* the store is closed and whichever handler is cancelled, as long as sessions do not
\* share a connection (submit_work_order, _persist_assignments, TelemetryStore.session).
THEOREM NothingIsLostSilently == Spec => []NothingLostSilently
<1>1. ServiceInv => NothingLostSilently
  <2> SUFFICES ASSUME ServiceInv PROVE NothingLostSilently
    OBVIOUS
  <2>1. ASSUME NEW o \in ByApi, answer[o] = "none"
        PROVE  \E r \in Requests : /\ requests[r] # Idle
                                   /\ requests[r].step # "admitted"
                                   /\ requests[r].order = o
    <3>1. PICK r \in Requests : Handles(r, o)
      BY <2>1 DEF ServiceInv, HandledOnce
    <3> QED BY <3>1 DEF Handles, Busy, Idle
  <2> QED BY <2>1 DEF ServiceInv, AnsweredTruly, RowsAreAssignments, Executed, NothingLostSilently
<1> QED BY <1>1, ServiceInvariant, PTL

\* Whoever has an order resting can have it withdrawn (cancel_work_order of either
\* front end), also while its submission is still being answered.
THEOREM RestingOrdersAreCancellable == Spec => []RestingIsCancellable
<1>1. ServiceInv => RestingIsCancellable
  <2> SUFFICES ASSUME ServiceInv, NEW o \in WorkOrders, stage[o] = "live"
               PROVE  IF terms[o].front = "api" THEN Shown(terms[o].org, o) ELSE o \in owned
    BY DEF RestingIsCancellable
  <2>1. o \in DOMAIN terms /\ terms[o].front \in {"api", "mcp"}
    BY DEF ServiceInv, TypesHold
  <2>2. CASE terms[o].front = "api"
    <3>1. o \in ByApi /\ terms[o].org \in Orgs
      BY <2>1, <2>2 DEF ByApi, ServiceInv, TypesHold
    <3> QED BY <2>2, <3>1 DEF Shown, ServiceInv, BooksAreOwn
  <2>3. CASE terms[o].front = "mcp"
    BY <2>1, <2>3 DEF ServiceInv, BooksAreOwn
  <2> QED BY <2>1, <2>2, <2>3
<1> QED BY <1>1, ServiceInvariant, PTL

\* No organization withdraws or is listed an order of another one (get_work_order,
\* work_orders_for, the MCP server's own identifiers).
THEOREM OrdersStayWithTheirOwners == Spec => []OwnersOnly
<1>1. ServiceInv => OwnersOnly
  <2> SUFFICES ASSUME ServiceInv PROVE OwnersOnly
    OBVIOUS
  <2>1. \A g \in Orgs : Listed(g) = {o \in ByApi : terms[o].org = g}
    BY DEF Listed, Shown, ServiceInv, BooksAreOwn, TypesHold
  <2> QED BY <2>1 DEF ServiceInv, WithdrawnByOwner, OwnersOnly
<1> QED BY <1>1, ServiceInvariant, PTL

-----------------------------------------------------------------------------
\* The cost trajectories

\* c has the latest of the numbers T, as many as the trajectory holds, in their order.
Latest(c, T) ==
  /\ c \in Seq(Nat)
  /\ Len(c) = IF Cardinality(T) < HistoryLimit THEN Cardinality(T) ELSE HistoryLimit
  /\ \A i, j \in 1..Len(c) : i < j => c[i] < c[j]
  /\ \A i \in 1..Len(c) :
       /\ c[i] \in T
       /\ \A t \in T : t > c[i] => \E j \in 1..Len(c) : c[j] = t

\* A new point pushes out the oldest one once the trajectory is full.
LEMMA LatestGrows ==
  ASSUME NEW n \in Nat, NEW T \in SUBSET (1..n), NEW c, Latest(c, T),
         NEW a \in Seq(Nat), Len(a) = Len(c) + 1, \A i \in 1..Len(c) : a[i] = c[i],
         a[Len(c) + 1] = n + 1
  PROVE  Latest(Bounded(a), T \cup {n + 1})
<1> DEFINE m == Len(c)
           U == T \cup {n + 1}
<1>1. HistoryLimit \in Nat \ {0} /\ m \in Nat /\ c \in Seq(Nat)
  BY ServiceAssumption DEF Latest
<1>2. /\ Cardinality(T) \in Nat /\ Cardinality(U) = Cardinality(T) + 1
  <2>1. IsFiniteSet(T)
    <3>1. IsFiniteSet(1..n)
      BY FS_Interval
    <3> QED BY <3>1, FS_Subset
  <2>2. n + 1 \notin T
    OBVIOUS
  <2> QED BY <2>1, <2>2, FS_AddElement, FS_CardinalityType
<1>3. \A i \in 1..m : c[i] \in T /\ c[i] \in 1..n
  BY DEF Latest
<1>4. \A i \in 1..(m + 1) : i \in 1..m \/ i = m + 1
  BY <1>1
<1>5. \A i, j \in 1..(m + 1) : i < j => a[i] < a[j]
  <2> SUFFICES ASSUME NEW i \in 1..(m + 1), NEW j \in 1..(m + 1), i < j PROVE a[i] < a[j]
    OBVIOUS
  <2>1. i \in 1..m
    BY <1>1
  <2>2. CASE j \in 1..m
    BY <2>1, <2>2 DEF Latest
  <2>3. CASE j = m + 1
    <3>1. a[i] = c[i] /\ c[i] \in 1..n /\ a[j] = n + 1
      BY <1>3, <2>1, <2>3
    <3> QED BY <3>1
  <2> QED BY <1>4, <2>2, <2>3
<1>6. \A i \in 1..(m + 1) : a[i] \in U /\ a[i] =< n + 1
  <2>1. \A i \in 1..m : a[i] \in U /\ a[i] =< n + 1
    BY <1>3
  <2> QED BY <1>4, <2>1
<1>7. \A i \in 1..(m + 1) : \A t \in U : t > a[i] => \E j \in 1..(m + 1) : a[j] = t
  <2> SUFFICES ASSUME NEW i \in 1..(m + 1), NEW t \in U, t > a[i]
               PROVE  \E j \in 1..(m + 1) : a[j] = t
    OBVIOUS
  <2>1. CASE t = n + 1
    <3>1. m + 1 \in 1..(m + 1)
      BY <1>1
    <3> QED BY <2>1, <3>1
  <2>2. CASE t \in T /\ i \in 1..m
    <3>1. \E j \in 1..m : c[j] = t
      BY <2>2 DEF Latest
    <3> QED BY <1>1, <3>1
  <2>3. CASE t \in T /\ i = m + 1
    BY <2>3
  <2> QED BY <1>4, <2>1, <2>2, <2>3
<1>8. m =< HistoryLimit /\ (m < HistoryLimit => m = Cardinality(T))
      /\ (m = HistoryLimit => Cardinality(T) >= HistoryLimit)
  BY <1>1, <1>2 DEF Latest
<1>9. CASE m < HistoryLimit
  <2>1. Bounded(a) = a
    BY <1>1, <1>9 DEF Bounded
  <2>2. Len(a) = IF Cardinality(U) < HistoryLimit THEN Cardinality(U) ELSE HistoryLimit
    BY <1>1, <1>2, <1>8, <1>9
  <2> HIDE DEF U
  <2> QED BY <1>5, <1>6, <1>7, <2>1, <2>2 DEF Latest, U
<1>10. CASE m = HistoryLimit
  <2>1. PICK b \in Seq(Nat) : /\ b = Bounded(a) /\ Len(b) = m
                              /\ \A i \in 1..m : b[i] = a[i + 1]
    <3>1. Bounded(a) = Tail(a)
      BY <1>1, <1>10 DEF Bounded
    <3>2. a # <<>> /\ Len(a) - 1 = m
      BY <1>1
    <3>3. /\ Tail(a) \in Seq(Nat) /\ Len(Tail(a)) = Len(a) - 1
          /\ \A i \in 1..Len(Tail(a)) : Tail(a)[i] = a[i + 1]
      BY <3>2, HeadTailProperties
    <3> HIDE DEF m
    <3> QED BY <3>1, <3>2, <3>3
  <2>2. Len(b) = IF Cardinality(U) < HistoryLimit THEN Cardinality(U) ELSE HistoryLimit
    BY <1>1, <1>2, <1>8, <1>10, <2>1
  <2>3. \A i \in 1..m : i + 1 \in 1..(m + 1)
    BY <1>1
  <2>4. ASSUME NEW i \in 1..m, NEW j \in 1..m, i < j PROVE b[i] < b[j]
    <3>1. i + 1 < j + 1 /\ i + 1 \in 1..(m + 1) /\ j + 1 \in 1..(m + 1)
      BY <1>1, <2>3, <2>4
    <3>2. a[i + 1] < a[j + 1]
      BY <1>5, <3>1
    <3> QED BY <2>1, <3>2
  <2>5. ASSUME NEW i \in 1..m, NEW t \in U, t > b[i] PROVE \E j \in 1..m : b[j] = t
    <3>1. t > a[i + 1]
      BY <2>1, <2>5
    <3>2. PICK k \in 1..(m + 1) : a[k] = t
      BY <1>7, <2>3, <3>1
    <3>3. k # 1
      <4>1. 1 \in 1..(m + 1) /\ 1 < i + 1
        BY <1>1
      <4>2. a[1] < a[i + 1]
        BY <1>5, <2>3, <4>1
      <4>3. a[1] \in Nat /\ a[i + 1] \in Nat
        BY <1>1, <2>3, <4>1
      <4> QED BY <3>1, <3>2, <4>2, <4>3
    <3>4. k - 1 \in 1..m /\ (k - 1) + 1 = k
      BY <1>1, <3>3
    <3> QED BY <2>1, <3>2, <3>4
  <2>6. \A i \in 1..m : b[i] \in U
    BY <1>6, <2>1, <2>3
  <2> HIDE DEF U
  <2> QED BY <2>1, <2>2, <2>4, <2>5, <2>6 DEF Latest, U
<1> QED BY <1>1, <1>8, <1>9, <1>10

\* turns is a sequence, of sets of organizations.
TrajectoriesAreExact ==
  /\ \E S : turns \in Seq(S)
  /\ costs = [g \in Orgs |-> costs[g]]
  /\ \A g \in Orgs : Latest(costs[g], Touched(g))

\* Before the first turn no trajectory has a point.
LEMMA TrajectoriesBegin == Init => TrajectoriesAreExact
<1> SUFFICES ASSUME Init PROVE TrajectoriesAreExact
  OBVIOUS
<1>1. turns \in Seq({}) /\ costs = [g \in Orgs |-> <<>>]
  BY DEF Init
<1>2. ASSUME NEW g \in Orgs PROVE Latest(<<>>, Touched(g))
  <2>1. Touched(g) = {}
    BY <1>1 DEF Touched
  <2> QED BY <2>1, FS_EmptySet, ServiceAssumption DEF Latest
<1> QED BY <1>1, <1>2 DEF TrajectoriesAreExact

\* A turn gives a point to each organization it touches.
LEMMA PointRecorded ==
  ASSUME TrajectoriesAreExact, NEW parties, RecordCost(parties)
  PROVE  TrajectoriesAreExact'
<1> DEFINE n == Len(turns)
<1>1. PICK S : turns \in Seq(S)
  BY DEF TrajectoriesAreExact
<1>2. n \in Nat /\ DOMAIN turns = 1..n
  BY <1>1
<1>3. /\ turns' \in Seq(S \cup {parties}) /\ DOMAIN turns' = 1..(n + 1)
      /\ \A i \in 1..n : turns'[i] = turns[i]
      /\ turns'[n + 1] = parties
  <2>1. turns' = Append(turns, parties)
    BY DEF RecordCost
  <2>2. turns \in Seq(S \cup {parties})
    BY <1>1
  <2> QED BY <1>1, <2>1, <2>2
<1>4. \A g \in Orgs : costs'[g] = IF g \in parties THEN Bounded(Append(costs[g], n + 1))
                                 ELSE costs[g]
  BY DEF RecordCost
<1>5. \A g \in Orgs : Touched(g)' = IF g \in parties THEN Touched(g) \cup {n + 1} ELSE Touched(g)
  BY <1>2, <1>3 DEF Touched
<1>6. ASSUME NEW g \in Orgs PROVE Latest(costs'[g], Touched(g)')
  <2>1. Latest(costs[g], Touched(g)) /\ costs[g] \in Seq(Nat)
    BY DEF TrajectoriesAreExact, Latest
  <2>2. CASE g \in parties
    <3>1. PICK a \in Seq(Nat) : a = Append(costs[g], n + 1)
      <4>1. n + 1 \in Nat
        BY <1>2
      <4> HIDE DEF n
      <4>2. Append(costs[g], n + 1) \in Seq(Nat)
        BY <2>1, <4>1
      <4> QED BY <4>2
    <3>2. /\ Len(a) = Len(costs[g]) + 1 /\ a[Len(costs[g]) + 1] = n + 1
          /\ \A i \in 1..Len(costs[g]) : a[i] = costs[g][i]
      BY <1>2, <2>1, <3>1
    <3>3. Touched(g) \in SUBSET (1..n)
      BY <1>2 DEF Touched
    <3>4. Latest(Bounded(a), Touched(g) \cup {n + 1})
      BY <1>2, <2>1, <3>2, <3>3, LatestGrows
    <3> QED BY <1>4, <1>5, <2>2, <3>1, <3>4
  <2>3. CASE g \notin parties
    BY <1>4, <1>5, <2>1, <2>3
  <2> QED BY <2>2, <2>3
<1>7. costs' = [g \in Orgs |-> costs'[g]]
  BY DEF RecordCost
<1>8. \A g \in Orgs : Latest(costs[g], Touched(g))'
  BY <1>6 DEF Latest
<1> QED BY <1>3, <1>7, <1>8 DEF TrajectoriesAreExact

\* Only _record_cost() after a submission writes to the trajectories.
LEMMA TrajectoryStep == TrajectoriesAreExact /\ [Next]_vars => TrajectoriesAreExact'
<1> SUFFICES ASSUME TrajectoriesAreExact, [Next]_vars PROVE TrajectoriesAreExact'
  OBVIOUS
<1>1. ASSUME UNCHANGED <<costs, turns>> PROVE TrajectoriesAreExact'
  <2>1. PICK S : turns \in Seq(S)
    BY DEF TrajectoriesAreExact
  <2>2. turns' \in Seq(S)
    BY <1>1, <2>1
  <2>3. \A g \in Orgs : Latest(costs[g], Touched(g))'
    <3>1. \A g \in Orgs : Latest(costs'[g], Touched(g)')
      BY <1>1 DEF TrajectoriesAreExact, Touched
    <3> QED BY <3>1 DEF Latest
  <2>4. costs' = [g \in Orgs |-> costs'[g]]
    BY <1>1 DEF TrajectoriesAreExact
  <2> QED BY <2>2, <2>3, <2>4 DEF TrajectoriesAreExact
<1>2. ASSUME NEW r \in Requests, NEW o \in WorkOrders, NEW side \in Sides, NEW h \in Hours,
             Submit(r, o, side, h)
      PROVE  TrajectoriesAreExact'
  <2>1. UNCHANGED <<costs, turns>> \/ \E parties : RecordCost(parties)
    BY <1>2 DEF Submit
  <2> QED BY <1>1, <2>1, PointRecorded
<1> QED BY <1>1, <1>2
        DEF Next, ManageKeys, Admit, Cancel, Dismiss, OpenSession, CommitSession, EndSession,
            Answer, Abandon, CloseStore, McpSubmit, McpCancel, apiVars, vars

\* Whoever looks at the dashboards sees every turn that touched its organization as
\* far back as a trajectory goes, and each order that rests is counted once
\* (_record_cost, active_work_order_count).
THEOREM DashboardsAreExact == Spec => []DashboardIsExact
<1>1. ServiceInv /\ TrajectoriesAreExact => DashboardIsExact
  <2> SUFFICES ASSUME ServiceInv, TrajectoriesAreExact PROVE DashboardIsExact
    OBVIOUS
  <2> DEFINE P == [g \in Orgs |-> {o \in Listed(g) : stage[o] = "live"}]
             f == [g \in Orgs |-> ActiveCount(g)]
  <2>1. \A g \in Orgs : Listed(g) = {o \in ByApi : terms[o].org = g} /\ Listed(g) \subseteq WorkOrders
    BY DEF Listed, Shown, ServiceInv, BooksAreOwn, TypesHold
  <2>2. \A g \in Orgs : IsFiniteSet(P[g]) /\ f[g] = Cardinality(P[g])
    <3>1. \A g \in Orgs : P[g] \subseteq WorkOrders
      BY <2>1
    <3>2. \A g \in Orgs : IsFiniteSet(P[g])
      BY <3>1, ServiceAssumption, FS_Subset
    <3> QED BY <3>2 DEF ActiveCount
  <2>3. \A g, h \in Orgs : g # h => P[g] \cap P[h] = {}
    BY <2>1
  <2>4. UNION {P[g] : g \in Orgs} = {o \in ByApi : stage[o] = "live"}
    BY <2>1 DEF ServiceInv, TypesHold
  <2>5. \A g \in Orgs : DOMAIN costs[g] = 1..Len(costs[g])
    BY DEF TrajectoriesAreExact, Latest
  <2> HIDE DEF P, f
  <2>6. SumFunctionOnSet(f, Orgs) = Cardinality({o \in ByApi : stage[o] = "live"})
    BY <2>2, <2>3, <2>4, ServiceAssumption, SumOfParts
  <2> QED BY <2>5, <2>6 DEF TrajectoriesAreExact, Latest, DashboardIsExact, f
<1> QED BY <1>1, ServiceInvariant, TrajectoriesBegin, TrajectoryStep, PTL DEF Spec

=============================================================================
