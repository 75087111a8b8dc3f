---------------------------- MODULE RuntimeProofs ----------------------------
(***************************************************************************)
(* The small machines around the engine, each by itself and for every      *)
(* value of its constants: one life of the application, with any           *)
(* combination of failures and interruptions; the task of a WebSocket feed *)
(* and disconnect(); the rate limiter under any number of threads; the     *)
(* memory of the dispatch policies; the tables of the telemetry store and  *)
(* the bars that are made of its readings, after any calls.                *)
(***************************************************************************)
EXTENDS Lifespan, FeedAdapter, TokenBucket, DispatchPolicies, TelemetryStore,
        SumTheorems, SequenceTheorems, TLAPS

-----------------------------------------------------------------------------
\* One life of the application: what still runs afterwards, and what is reported

Resources == {"feed", "bus", "store"}
Steps == Resources \cup {"pump"}
Teardown == {"releasing", "cancelling"}
Early == {"wiring", "starting bus", "starting feed", "serving"}
Finished == {"done", "failed", "cancelled"}

LifeTypeOK ==
  /\ phase \in Early \cup Teardown \cup {"ended"}
  /\ setup \in Setups
  /\ acquired \subseteq {"feed", "bus"}
  /\ up \subseteq Resources
  /\ pump \in {"none", "running"} \cup Finished
  /\ todo \in Seq(Steps) /\ hit \in Seq(Steps)
  /\ failures \subseteq Steps
  /\ controlling \in Steps \cup {"none"}

\* Step s is not passed over: it is still to run, or failed, or was interrupted.
Accounted(s) == Has(todo, s) \/ s \in failures \/ Has(hit, s)

\* What runs was acquired or is the store, and the feed runs only if there is one.
UpIsAcquired ==
  /\ up \subseteq acquired \cup {"store"}
  /\ "store" \in up => setup.store \in {"owned", "given"}
  /\ "feed" \in up => setup.feed
  /\ phase = "starting feed" => setup.feed
  /\ phase = "serving" /\ setup.feed => "feed" \in up

UpIsAccounted ==
  /\ phase \in Teardown =>
       \A r \in up : (r = "store" /\ setup.store = "given") \/ Accounted(r)
  /\ OnlyTheBrokenSurvive

\* The wait for the feed task is the first step that is left while it is cancelled.
PumpIsAccounted ==
  /\ phase \in Teardown /\ pump \in {"running", "failed"} => Accounted("pump")
  /\ phase = "cancelling" => todo # <<>> /\ Head(todo) = "pump"
  /\ Ended /\ pump \in {"running", "failed"} => "pump" \in failures \/ Has(hit, "pump")

FirstIsKept ==
  /\ hit = <<>> => controlling = "none"
  /\ hit # <<>> => controlling = Head(hit)

NoticeIsTrue ==
  /\ phase \in Early => ending \notin Teardown \cup {"ended"}
  /\ notice # "none" => pump \in Finished
  /\ notice = "alarm" => pump = "failed" \/ ending \notin Teardown \cup {"ended"}

\* Nothing was to be reported before the teardown, and no feed task before serving.
EarlyIsClean ==
  /\ phase \in Early => hit = <<>> /\ failures = {} /\ inFlight = "nothing"
  /\ phase \in Early \ {"serving"} => pump = "none"
  /\ phase = "wiring" => acquired = {}

LifeInv ==
  /\ LifeTypeOK /\ EarlyIsClean /\ UpIsAcquired /\ UpIsAccounted /\ PumpIsAccounted
  /\ FirstIsKept /\ FirstCause /\ NoticeIsTrue

-----------------------------------------------------------------------------
\* Sequences of steps
LEMMA TailHas ==
  ASSUME NEW seq \in Seq(Steps), seq # <<>>, NEW x, Has(seq, x)
  PROVE  Has(Tail(seq), x) \/ x = Head(seq)
<1>1. PICK i \in DOMAIN seq : seq[i] = x
  BY DEF Has
<1>2. i \in 1..Len(seq)
  BY <1>1
<1>3. CASE i = 1
  BY <1>1, <1>3
<1>4. CASE i # 1
  <2>1. i - 1 \in DOMAIN Tail(seq) /\ Tail(seq)[i - 1] = seq[i]
    BY <1>2, <1>4
  <2> QED BY <1>1, <2>1 DEF Has
<1> QED BY <1>3, <1>4

LEMMA HeadIsStep ==
  ASSUME NEW seq \in Seq(Steps), seq # <<>>
  PROVE  Head(seq) \in Steps /\ Head(seq) # "none"
<1>1. Head(seq) \in Steps
  OBVIOUS
<1> QED BY <1>1 DEF Steps, Resources

LEMMA AppendHas ==
  ASSUME NEW seq \in Seq(Steps), NEW y \in Steps
  PROVE  /\ Append(seq, y) \in Seq(Steps) /\ Append(seq, y) # <<>>
         /\ Has(Append(seq, y), y)
         /\ \A x : Has(seq, x) => Has(Append(seq, y), x)
         /\ Head(Append(seq, y)) = IF seq = <<>> THEN y ELSE Head(seq)
<1>1. /\ Append(seq, y) \in Seq(Steps) /\ Append(seq, y) # <<>>
      /\ Len(Append(seq, y)) = Len(seq) + 1
      /\ Append(seq, y)[Len(seq) + 1] = y
      /\ \A i \in 1..Len(seq) : Append(seq, y)[i] = seq[i]
  OBVIOUS
<1>2. Has(Append(seq, y), y)
  <2>1. Len(seq) + 1 \in DOMAIN Append(seq, y)
    BY <1>1
  <2> QED BY <1>1, <2>1 DEF Has
<1>3. ASSUME NEW x, Has(seq, x) PROVE Has(Append(seq, y), x)
  <2>1. PICK i \in DOMAIN seq : seq[i] = x
    BY <1>3 DEF Has
  <2>2. i \in DOMAIN Append(seq, y) /\ Append(seq, y)[i] = x
    BY <1>1, <2>1
  <2> QED BY <2>2 DEF Has
<1>4. Head(Append(seq, y)) = IF seq = <<>> THEN y ELSE Head(seq)
  BY <1>1
<1> QED BY <1>1, <1>2, <1>3, <1>4

LEMMA ConcatHas ==
  ASSUME NEW a \in Seq(Steps), NEW b \in Seq(Steps)
  PROVE  /\ a \o b \in Seq(Steps)
         /\ \A x : Has(a, x) \/ Has(b, x) => Has(a \o b, x)
<1>1. a \o b \in Seq(Steps) /\ Len(a \o b) = Len(a) + Len(b)
  OBVIOUS
<1>2. ASSUME NEW x, Has(a, x) PROVE Has(a \o b, x)
  <2>1. PICK i \in DOMAIN a : a[i] = x
    BY <1>2 DEF Has
  <2>2. i \in DOMAIN (a \o b) /\ (a \o b)[i] = x
    BY <1>1, <2>1
  <2> QED BY <2>2 DEF Has
<1>3. ASSUME NEW x, Has(b, x) PROVE Has(a \o b, x)
  <2>1. PICK i \in DOMAIN b : b[i] = x
    BY <1>3 DEF Has
  <2>2. Len(a) + i \in DOMAIN (a \o b) /\ (a \o b)[Len(a) + i] = x
    BY <1>1, <2>1
  <2> QED BY <2>2 DEF Has
<1> QED BY <1>1, <1>2, <1>3

LEMMA IfHas ==
  ASSUME NEW present, NEW s \in Steps
  PROVE  If(present, s) \in Seq(Steps) /\ (present => Has(If(present, s), s))
<1>1. CASE present
  <2>1. If(present, s) = <<s>>
    BY <1>1 DEF If
  <2>2. <<s>> \in Seq(Steps) /\ 1 \in DOMAIN <<s>> /\ <<s>>[1] = s
    OBVIOUS
  <2> QED BY <2>1, <2>2 DEF Has
<1>2. CASE ~present
  BY <1>2 DEF If
<1> QED BY <1>1, <1>2

\* The teardown has a step for all there is to release.
LEMMA StepsForAll ==
  ASSUME NEW acq
  PROVE  /\ StepsFor(acq) \in Seq(Steps)
         /\ "feed" \in acq => Has(StepsFor(acq), "feed")
         /\ "bus" \in acq => Has(StepsFor(acq), "bus")
         /\ pump # "none" => Has(StepsFor(acq), "pump")
         /\ setup.store = "owned" => Has(StepsFor(acq), "store")
<1> DEFINE a == If("feed" \in acq, "feed")
           b == If(pump # "none", "pump")
           c == If("bus" \in acq, "bus")
           d == If(OwnsStore, "store")
<1>1. /\ a \in Seq(Steps) /\ ("feed" \in acq => Has(a, "feed"))
      /\ b \in Seq(Steps) /\ (pump # "none" => Has(b, "pump"))
      /\ c \in Seq(Steps) /\ ("bus" \in acq => Has(c, "bus"))
      /\ d \in Seq(Steps) /\ (OwnsStore => Has(d, "store"))
  BY IfHas DEF Steps, Resources
<1>2. StepsFor(acq) = ((a \o b) \o c) \o d
  BY DEF StepsFor
<1> HIDE DEF a, b, c, d
<1>3. a \o b \in Seq(Steps) /\ \A x : Has(a, x) \/ Has(b, x) => Has(a \o b, x)
  BY <1>1, ConcatHas
<1>4. /\ (a \o b) \o c \in Seq(Steps)
      /\ \A x : Has(a \o b, x) \/ Has(c, x) => Has((a \o b) \o c, x)
  BY <1>1, <1>3, ConcatHas
<1>5. /\ ((a \o b) \o c) \o d \in Seq(Steps)
      /\ \A x : Has((a \o b) \o c, x) \/ Has(d, x) => Has(((a \o b) \o c) \o d, x)
  BY <1>1, <1>4, ConcatHas
<1> QED BY <1>1, <1>2, <1>3, <1>4, <1>5 DEF OwnsStore

-----------------------------------------------------------------------------
LEMMA LifeBegins == LifeInit => LifeInv
<1> SUFFICES ASSUME LifeInit PROVE LifeInv
  OBVIOUS
<1>1. <<>> \in Seq(Steps)
  OBVIOUS
<1>2. LifeTypeOK
  BY <1>1 DEF LifeInit, LifeTypeOK, Early, Resources
<1>3. UpIsAcquired
  BY DEF LifeInit, UpIsAcquired, Setups
<1> QED BY <1>2, <1>3 DEF LifeInit, LifeInv, EarlyIsClean, UpIsAccounted, OnlyTheBrokenSurvive,
          PumpIsAccounted, FirstIsKept, FirstCause, NoticeIsTrue, Ended, Early, Teardown

\* The teardown begins with a step for everything that runs and for the feed task.
LEMMA TeardownAccounts ==
  ASSUME LifeInv, phase \in Early, NEW acq, acquired \subseteq acq, acq \subseteq {"feed", "bus"},
         NEW u, u \subseteq acq \cup {"store"}, "store" \in u => setup.store \in {"owned", "given"}
  PROVE  /\ StepsFor(acq) \in Seq(Steps)
         /\ \A r \in u : (r = "store" /\ setup.store = "given") \/ Has(StepsFor(acq), r)
         /\ pump # "none" => Has(StepsFor(acq), "pump")
BY StepsForAll

LEMMA StartKeeps ==
  ASSUME LifeInv, NEW r \in {"bus", "feed"}, NEW here, NEW next, Start(r, here, next),
         r = "bus" => here = "starting bus" /\ next \in {"starting feed", "serving"}
                      /\ (next = "starting feed" <=> setup.feed),
         r = "feed" => here = "starting feed" /\ next = "serving"
  PROVE  LifeInv'
<1> USE DEF LifeInv, Early, Teardown, Finished, Steps, Resources
<1>1. phase = here /\ phase \in Early \ {"serving"} /\ pump = "none"
  BY DEF Start, EarlyIsClean
<1>2. /\ UNCHANGED <<watchVars, setup, failures, controlling, hit, result>>
      /\ acquired' = acquired \cup {r} /\ up' \subseteq up \cup {r} /\ up \subseteq up'
  BY DEF Start, Intended
<1>3. /\ hit = <<>> /\ failures = {} /\ controlling = "none" /\ notice = "none"
      /\ ending \notin {"releasing", "cancelling", "ended"}
  BY <1>1 DEF EarlyIsClean, FirstIsKept, NoticeIsTrue
<1>4. CASE phase' = next /\ up' = up \cup {r} /\ pump' = (IF r = "feed" THEN "running" ELSE pump)
           /\ UNCHANGED <<todo, inFlight>>
  <2>1. LifeTypeOK'
    BY <1>1, <1>2, <1>4 DEF LifeTypeOK
  <2>2. UpIsAcquired'
    BY <1>1, <1>2, <1>4 DEF UpIsAcquired
  <2>3. EarlyIsClean' /\ NoticeIsTrue'
    BY <1>1, <1>2, <1>3, <1>4 DEF EarlyIsClean, NoticeIsTrue, watchVars
  <2>4. UpIsAccounted' /\ PumpIsAccounted' /\ FirstIsKept' /\ FirstCause'
    BY <1>1, <1>2, <1>3, <1>4 DEF UpIsAccounted, OnlyTheBrokenSurvive, PumpIsAccounted, FirstIsKept,
       FirstCause, Ended
  <2> QED BY <2>1, <2>2, <2>3, <2>4
<1>5. CASE phase' = "releasing" /\ todo' = StepsFor(acquired') /\ pump' = pump
           /\ inFlight' \in {"error", "cancellation"}
  <2>1. acquired' \subseteq {"feed", "bus"} /\ up' \subseteq acquired' \cup {"store"}
        /\ ("store" \in up' => setup.store \in {"owned", "given"})
    BY <1>2 DEF LifeTypeOK, UpIsAcquired
  <2>2. /\ todo' \in Seq(Steps)
        /\ \A x \in up' : (x = "store" /\ setup.store = "given") \/ Has(todo', x)
    BY <1>1, <1>2, <1>5, <2>1, TeardownAccounts
  <2>3. LifeTypeOK'
    BY <1>1, <1>2, <1>5, <2>1, <2>2 DEF LifeTypeOK
  <2>4. UpIsAcquired'
    BY <1>1, <1>2, <1>5, <2>1 DEF UpIsAcquired
  <2>5. UpIsAccounted'
    BY <1>2, <1>5, <2>2 DEF UpIsAccounted, OnlyTheBrokenSurvive, Ended, Accounted
  <2>6. EarlyIsClean' /\ PumpIsAccounted' /\ FirstIsKept' /\ FirstCause' /\ NoticeIsTrue'
    BY <1>1, <1>2, <1>3, <1>5 DEF EarlyIsClean, PumpIsAccounted, FirstIsKept, FirstCause, NoticeIsTrue,
       Ended, watchVars
  <2> QED BY <2>3, <2>4, <2>5, <2>6
<1> QED BY <1>4, <1>5 DEF Start, BeginTeardown

LEMMA WireKeeps ==
  ASSUME LifeInv, Wire \/ FailToWire
  PROVE  LifeInv'
<1> USE DEF LifeInv, Early, Teardown, Finished, Steps, Resources
<1>1. /\ phase = "wiring" /\ pump = "none" /\ hit = <<>> /\ failures = {}
      /\ inFlight = "nothing" /\ controlling = "none"
      /\ notice = "none" /\ ending \notin {"releasing", "cancelling", "ended"}
  BY DEF Wire, FailToWire, EarlyIsClean, FirstIsKept, NoticeIsTrue
<1>2. /\ UNCHANGED <<watchVars, setup, acquired, pump, todo, failures, controlling, inFlight, hit>>
      /\ up' \subseteq up /\ phase' \in {"starting bus", "ended"}
      /\ phase' = "ended" /\ "store" \in up' => setup.store # "owned"
  BY DEF Wire, FailToWire, OwnsStore
<1>3. LifeTypeOK'
  BY <1>1, <1>2 DEF LifeTypeOK
<1>4. UpIsAcquired'
  BY <1>1, <1>2 DEF UpIsAcquired
<1>5. UpIsAccounted'
  <2>1. "feed" \notin up /\ "bus" \notin up
    BY <1>1 DEF EarlyIsClean, UpIsAcquired
  <2> QED BY <1>1, <1>2, <1>4, <2>1 DEF UpIsAccounted, OnlyTheBrokenSurvive, Ended, UpIsAcquired,
             LifeTypeOK
<1>6. EarlyIsClean' /\ NoticeIsTrue' /\ FirstIsKept' /\ PumpIsAccounted'
  BY <1>1, <1>2 DEF EarlyIsClean, NoticeIsTrue, FirstIsKept, PumpIsAccounted, Ended, watchVars
<1>7. FirstCause'
  BY <1>1, <1>2 DEF FirstCause, Ended
<1> QED BY <1>3, <1>4, <1>5, <1>6, <1>7

\* The feed task ends by itself, in any phase, or its end is noticed.
LEMMA PumpKeeps ==
  ASSUME LifeInv, PumpEnds \/ Notice
  PROVE  LifeInv'
<1> USE DEF LifeInv, Early, Teardown, Finished, Steps, Resources
<1>1. /\ UNCHANGED <<phase, setup, acquired, up, todo, failures, controlling, inFlight, hit, result>>
      /\ pump' = pump \/ (pump = "running" /\ pump' \in {"done", "failed", "cancelled"})
  BY DEF PumpEnds, Notice
<1>2. \A x : Accounted(x)' <=> Accounted(x)
  BY <1>1 DEF Accounted
<1>3. LifeTypeOK' /\ UpIsAcquired'
  <2>1. LifeTypeOK'
    BY <1>1 DEF LifeTypeOK
  <2>2. UpIsAcquired'
    BY <1>1 DEF UpIsAcquired
  <2> QED BY <2>1, <2>2
<1>4. EarlyIsClean'
  BY <1>1 DEF EarlyIsClean
<1>5. UpIsAccounted' /\ PumpIsAccounted'
  BY <1>1, <1>2 DEF UpIsAccounted, OnlyTheBrokenSurvive, PumpIsAccounted, Ended
<1>6. FirstIsKept' /\ FirstCause'
  BY <1>1 DEF FirstIsKept, FirstCause, Ended
<1>7. NoticeIsTrue'
  <2>1. CASE PumpEnds
    BY <2>1 DEF PumpEnds, NoticeIsTrue
  <2>2. CASE Notice
    BY <2>2 DEF Notice, NoticeIsTrue, ShuttingDown, LifeTypeOK
  <2> QED BY <2>1, <2>2
<1> QED BY <1>3, <1>4, <1>5, <1>6, <1>7

LEMMA StopServingKeeps ==
  ASSUME LifeInv, StopServing
  PROVE  LifeInv'
<1> USE DEF LifeInv, Early, Teardown, Finished, Steps, Resources
<1>1. /\ phase = "serving" /\ phase' = "releasing" /\ todo' = StepsFor(acquired)
      /\ UNCHANGED <<watchVars, setup, acquired, up, pump, failures, controlling, hit, result>>
  BY DEF StopServing, BeginTeardown
<1>2. /\ hit = <<>> /\ failures = {} /\ controlling = "none"
      /\ ending \notin {"releasing", "cancelling", "ended"}
  BY <1>1 DEF EarlyIsClean, FirstIsKept, NoticeIsTrue
<1>3. /\ todo' \in Seq(Steps)
      /\ \A x \in up : (x = "store" /\ setup.store = "given") \/ Has(todo', x)
      /\ pump # "none" => Has(todo', "pump")
  BY <1>1, TeardownAccounts DEF LifeTypeOK, UpIsAcquired
<1>4. LifeTypeOK' /\ UpIsAcquired'
  BY <1>1, <1>3 DEF LifeTypeOK, UpIsAcquired
<1>5. UpIsAccounted' /\ PumpIsAccounted'
  BY <1>1, <1>3 DEF UpIsAccounted, OnlyTheBrokenSurvive, PumpIsAccounted, Accounted, Ended
<1>6. EarlyIsClean' /\ FirstIsKept' /\ FirstCause' /\ NoticeIsTrue'
  BY <1>1, <1>2 DEF EarlyIsClean, FirstIsKept, FirstCause, NoticeIsTrue, Ended, watchVars
<1> QED BY <1>4, <1>5, <1>6

-----------------------------------------------------------------------------
\* A step of the teardown, however it ends, passes over none of the others; and if it
\* does not succeed this is kept, too.
LEMMA StepAccounts ==
  ASSUME LifeTypeOK, FirstIsKept, todo # <<>>, Succeed \/ Fail \/ Interrupt
  PROVE  /\ todo' \in Seq(Steps) /\ hit' \in Seq(Steps) /\ failures' \subseteq Steps
         /\ controlling' \in Steps \cup {"none"}
         /\ FirstIsKept'
         /\ \A x : Accounted(x) /\ x # Head(todo) => Accounted(x)'
         /\ \A x : (Fail \/ Interrupt) /\ x = Head(todo) => Accounted(x)'
<1>1. todo \in Seq(Steps) /\ hit \in Seq(Steps) /\ Head(todo) \in Steps
  BY HeadIsStep DEF LifeTypeOK
<1>2. Tail(todo) \in Seq(Steps) /\ todo' = Tail(todo)
  BY <1>1 DEF Succeed, Fail, Interrupt, AfterFailure
<1>3. \A x : Has(todo, x) /\ x # Head(todo) => Has(todo', x)
  BY <1>1, <1>2, TailHas
<1>4. failures' \subseteq Steps /\ failures \subseteq failures'
  BY <1>1 DEF Succeed, Fail, Interrupt, LifeTypeOK, Current
<1>5. Fail => Head(todo) \in failures'
  BY DEF Fail, Current
<1>6. CASE Interrupt
  <2>1. /\ hit' = Append(hit, Head(todo))
        /\ controlling' = IF controlling = "none" THEN Head(todo) ELSE controlling
    BY <1>6 DEF Interrupt, Current, Keep
  <2>2. /\ hit' \in Seq(Steps) /\ hit' # <<>> /\ Has(hit', Head(todo))
        /\ \A x : Has(hit, x) => Has(hit', x)
        /\ Head(hit') = IF hit = <<>> THEN Head(todo) ELSE Head(hit)
    BY <1>1, <2>1, AppendHas
  <2>3. controlling' = Head(hit') /\ controlling' \in Steps
    <3>1. CASE hit = <<>>
      BY <1>1, <2>1, <2>2, <3>1 DEF FirstIsKept
    <3>2. CASE hit # <<>>
      <4>1. Head(hit) \in Steps /\ Head(hit) # "none" /\ controlling = Head(hit)
        BY <1>1, <3>2, HeadIsStep DEF FirstIsKept
      <4> QED BY <2>1, <2>2, <3>2, <4>1
    <3> QED BY <3>1, <3>2
  <2>4. FirstIsKept'
    BY <2>2, <2>3 DEF FirstIsKept
  <2>5. \A x : Accounted(x) /\ x # Head(todo) => Accounted(x)'
    BY <1>3, <1>4, <2>2 DEF Accounted
  <2>6. \A x : x = Head(todo) => Accounted(x)'
    BY <2>2 DEF Accounted
  <2> QED BY <1>2, <1>4, <2>2, <2>3, <2>4, <2>5, <2>6
<1>7. CASE ~Interrupt
  <2>1. hit' = hit /\ controlling' = controlling
    BY <1>7 DEF Succeed, Fail
  <2>2. FirstIsKept' /\ hit' \in Seq(Steps) /\ controlling' \in Steps \cup {"none"}
    BY <2>1 DEF FirstIsKept, LifeTypeOK
  <2>3. \A x : Accounted(x) /\ x # Head(todo) => Accounted(x)'
    BY <1>3, <1>4, <2>1 DEF Accounted
  <2>4. \A x : Fail /\ x = Head(todo) => Accounted(x)'
    BY <1>5 DEF Accounted
  <2> QED BY <1>2, <1>4, <1>7, <2>2, <2>3, <2>4
<1> QED BY <1>6, <1>7

LEMMA ReleaseKeeps ==
  ASSUME LifeInv, NEW r \in {"feed", "bus", "store"}, Release(r)
  PROVE  LifeInv'
<1> USE DEF LifeInv, Early, Teardown, Finished
<1>1. /\ phase = "releasing" /\ todo # <<>> /\ Head(todo) = r
      /\ UNCHANGED <<watchVars, phase, setup, acquired, pump, inFlight, result>>
      /\ up' \subseteq up
      /\ (Succeed /\ up' = up \ {r}) \/ Fail \/ Interrupt
  BY DEF Release, Releasing, Current
<1>2. /\ todo' \in Seq(Steps) /\ hit' \in Seq(Steps) /\ failures' \subseteq Steps
      /\ controlling' \in Steps \cup {"none"}
      /\ FirstIsKept'
      /\ \A x : Accounted(x) /\ x # r => Accounted(x)'
      /\ Fail \/ Interrupt => Accounted(r)'
  <2>1. LifeTypeOK /\ FirstIsKept
    OBVIOUS
  <2> QED BY <1>1, <2>1, StepAccounts
<1>3. LifeTypeOK' /\ UpIsAcquired'
  BY <1>1, <1>2 DEF LifeTypeOK, UpIsAcquired
<1>4. UpIsAccounted'
  BY <1>1, <1>2 DEF UpIsAccounted, OnlyTheBrokenSurvive, Ended
<1>5. PumpIsAccounted'
  BY <1>1, <1>2 DEF PumpIsAccounted, Ended
<1>6. EarlyIsClean' /\ FirstCause' /\ NoticeIsTrue'
  BY <1>1 DEF EarlyIsClean, FirstCause, NoticeIsTrue, Ended, watchVars
<1> QED BY <1>2, <1>3, <1>4, <1>5, <1>6

\* The step that waits for the feed task, also with the cancellation of the task
LEMMA DrainKeeps ==
  ASSUME LifeInv, Drain \/ DrainInterrupted \/ EndCancelling
  PROVE  LifeInv'
<1> USE DEF LifeInv, Early, Teardown, Finished
<1>1. /\ phase \in {"releasing", "cancelling"} /\ todo # <<>> /\ Head(todo) = "pump"
      /\ phase' = "releasing"
      /\ UNCHANGED <<notice, setup, acquired, up, inFlight, result>>
      /\ Succeed \/ Fail \/ Interrupt
  <2>1. CASE Drain
    BY <2>1 DEF Drain, Releasing, Current, watchVars
  <2>2. CASE DrainInterrupted
    BY <2>2 DEF DrainInterrupted, Releasing, Current, watchVars
  <2>3. CASE EndCancelling
    BY <2>3 DEF EndCancelling, PumpIsAccounted
  <2> QED BY <2>1, <2>2, <2>3
<1>2. /\ pump' \in {"none", "running"} \cup Finished
      /\ pump' \in {"running", "failed"} => Fail \/ Interrupt
      /\ pump \in Finished => pump' = pump
      /\ \/ pump' = pump /\ ending' = ending
         \/ pump = "running" /\ pump' \in Finished /\ ending' = phase
  <2>1. CASE Drain
    BY <2>1 DEF Drain, watchVars, LifeTypeOK
  <2>2. CASE DrainInterrupted
    BY <2>2 DEF DrainInterrupted, watchVars, LifeTypeOK
  <2>3. CASE EndCancelling
    BY <2>3 DEF EndCancelling, LifeTypeOK
  <2> QED BY <2>1, <2>2, <2>3
<1>3. /\ todo' \in Seq(Steps) /\ hit' \in Seq(Steps) /\ failures' \subseteq Steps
      /\ controlling' \in Steps \cup {"none"}
      /\ FirstIsKept'
      /\ \A x : Accounted(x) /\ x # "pump" => Accounted(x)'
      /\ Fail \/ Interrupt => Accounted("pump")'
  <2>1. LifeTypeOK /\ FirstIsKept
    OBVIOUS
  <2> QED BY <1>1, <2>1, StepAccounts
<1>4. LifeTypeOK' /\ UpIsAcquired'
  BY <1>1, <1>2, <1>3 DEF LifeTypeOK, UpIsAcquired
<1>5. UpIsAccounted'
  BY <1>1, <1>3 DEF UpIsAccounted, OnlyTheBrokenSurvive, Ended, LifeTypeOK, Resources
<1>6. PumpIsAccounted'
  BY <1>1, <1>2, <1>3 DEF PumpIsAccounted, Ended
<1>7. EarlyIsClean' /\ FirstCause'
  BY <1>1 DEF EarlyIsClean, FirstCause, Ended
<1>8. NoticeIsTrue'
  BY <1>1, <1>2 DEF NoticeIsTrue
<1> QED BY <1>3, <1>4, <1>5, <1>6, <1>7, <1>8

LEMMA TimeOutKeeps ==
  ASSUME LifeInv, DrainTimesOut
  PROVE  LifeInv'
<1> USE DEF LifeInv, Early, Teardown, Finished, Steps, Resources
<1>1. /\ phase = "releasing" /\ todo # <<>> /\ Head(todo) = "pump" /\ phase' = "cancelling"
      /\ UNCHANGED <<watchVars, setup, acquired, up, pump, todo, failures, controlling, inFlight,
                     hit, result>>
  BY DEF DrainTimesOut, Releasing, Current
<1>2. \A x : Accounted(x)' <=> Accounted(x)
  BY <1>1 DEF Accounted
<1>3. LifeTypeOK' /\ UpIsAcquired'
  BY <1>1 DEF LifeTypeOK, UpIsAcquired
<1>4. UpIsAccounted' /\ PumpIsAccounted'
  BY <1>1, <1>2 DEF UpIsAccounted, OnlyTheBrokenSurvive, PumpIsAccounted, Ended
<1>5. EarlyIsClean' /\ FirstIsKept' /\ FirstCause' /\ NoticeIsTrue'
  BY <1>1 DEF EarlyIsClean, FirstIsKept, FirstCause, NoticeIsTrue, Ended, watchVars
<1> QED BY <1>3, <1>4, <1>5

LEMMA ReportKeeps ==
  ASSUME LifeInv, Report
  PROVE  LifeInv'
<1> USE DEF LifeInv, Early, Teardown, Finished
<1>1. /\ phase = "releasing" /\ todo = <<>> /\ phase' = "ended" /\ result' = Outcome
      /\ UNCHANGED <<watchVars, setup, acquired, up, pump, todo, failures, controlling, inFlight, hit>>
  BY DEF Report
<1>2. \A x : Accounted(x) => x \in failures \/ Has(hit, x)
  BY <1>1 DEF Accounted, Has
<1>3. LifeTypeOK' /\ UpIsAcquired'
  BY <1>1 DEF LifeTypeOK, UpIsAcquired
<1>4. UpIsAccounted'
  BY <1>1, <1>2 DEF UpIsAccounted, OnlyTheBrokenSurvive, Ended, Has
<1>5. PumpIsAccounted'
  BY <1>1, <1>2 DEF PumpIsAccounted, Ended, Has
<1>6. EarlyIsClean' /\ FirstIsKept' /\ NoticeIsTrue'
  BY <1>1 DEF EarlyIsClean, FirstIsKept, NoticeIsTrue, watchVars
<1>7. FirstCause'
  <2>1. hit # <<>> => controlling = Head(hit) /\ controlling # "none"
    <3>1. hit \in Seq(Steps)
      BY DEF LifeTypeOK
    <3> QED BY <3>1, HeadIsStep DEF FirstIsKept
  <2>2. hit = <<>> => controlling = "none"
    BY DEF FirstIsKept
  <2>3. hit # <<>> => result' = InterruptedAt(Head(hit))
    BY <1>1, <2>1 DEF Outcome
  <2>4. hit = <<>> /\ inFlight # "nothing" => result' = inFlight
    BY <1>1, <2>2 DEF Outcome
  <2>5. hit = <<>> /\ inFlight = "nothing" /\ failures # {} => result' = "teardown failed"
    BY <1>1, <2>2 DEF Outcome
  <2>6. hit' = hit /\ inFlight' = inFlight /\ failures' = failures
    BY <1>1
  <2> QED BY <2>3, <2>4, <2>5, <2>6 DEF FirstCause
<1> QED BY <1>3, <1>4, <1>5, <1>6, <1>7

-----------------------------------------------------------------------------
\* Every step of the lifespan keeps the invariant.
LEMMA LifeStep == LifeInv /\ [LifeNext]_lifeVars => LifeInv'
<1> SUFFICES ASSUME LifeInv, [LifeNext]_lifeVars PROVE LifeInv'
  OBVIOUS
<1>1. CASE Wire \/ FailToWire
  BY <1>1, WireKeeps
<1>2. CASE StartBus
  BY <1>2, StartKeeps DEF StartBus
<1>3. CASE StartFeed
  BY <1>3, StartKeeps DEF StartFeed
<1>4. CASE PumpEnds \/ Notice
  BY <1>4, PumpKeeps
<1>5. CASE StopServing
  BY <1>5, StopServingKeeps
<1>6. CASE \E r \in {"feed", "bus", "store"} : Release(r)
  BY <1>6, ReleaseKeeps
<1>7. CASE Drain \/ DrainInterrupted \/ EndCancelling
  BY <1>7, DrainKeeps
<1>8. CASE DrainTimesOut
  BY <1>8, TimeOutKeeps
<1>9. CASE Report
  BY <1>9, ReportKeeps
<1>10. CASE UNCHANGED lifeVars
  <2>1. \A x : Accounted(x)' <=> Accounted(x)
    BY <1>10 DEF lifeVars, Accounted
  <2>2. LifeTypeOK' /\ EarlyIsClean' /\ UpIsAcquired'
    BY <1>10 DEF lifeVars, LifeInv, LifeTypeOK, EarlyIsClean, UpIsAcquired
  <2>3. UpIsAccounted' /\ PumpIsAccounted'
    BY <1>10, <2>1 DEF lifeVars, LifeInv, UpIsAccounted, OnlyTheBrokenSurvive, PumpIsAccounted, Ended
  <2>4. FirstIsKept' /\ FirstCause'
    BY <1>10 DEF lifeVars, LifeInv, FirstIsKept, FirstCause, Ended
  <2>5. NoticeIsTrue'
    BY <1>10 DEF lifeVars, watchVars, LifeInv, NoticeIsTrue
  <2> QED BY <2>2, <2>3, <2>4, <2>5 DEF LifeInv
<1> QED BY <1>1, <1>2, <1>3, <1>4, <1>5, <1>6, <1>7, <1>8, <1>9, <1>10 DEF LifeNext

\* The inductive invariant of the lifespan (main.py: lifespan, _release_resources)
THEOREM LifespanInvariant == LifeSpec => []LifeInv
BY LifeBegins, LifeStep, PTL DEF LifeSpec

\* Whatever fails or is interrupted during startup, service and teardown, what survives
\* the lifespan was handed in or is itself broken (_release_resources).
THEOREM NothingElseSurvives == LifeSpec => []OnlyTheBrokenSurvive
<1>1. LifeInv => OnlyTheBrokenSurvive
  BY DEF LifeInv, UpIsAccounted
<1> QED BY <1>1, LifespanInvariant, PTL

\* The first interruption, the error under way and the end of the feed task are
\* reported as what they were (_report_shutdown_failures, _feed_task_supervisor,
\* health_check).
THEOREM EveryCauseIsReported == LifeSpec => []CausesAreReported
<1>1. LifeInv => CausesAreReported
  <2> SUFFICES ASSUME LifeInv PROVE FeedTaskIsWatched
    BY DEF CausesAreReported, LifeInv
  <2>1. phase = "serving" /\ Health = "healthy" => (setup.feed <=> "feed" \in up)
    BY DEF LifeInv, UpIsAcquired
  <2> QED BY <2>1 DEF LifeInv, PumpIsAccounted, NoticeIsTrue, FeedTaskIsWatched, Teardown
<1> QED BY <1>1, LifespanInvariant, PTL

-----------------------------------------------------------------------------
\* The WebSocket feed

\* Whoever asked has cleared the flag the loop looks at, and no socket is held between
\* two attempts.
AdapterInv ==
  /\ known \in BOOLEAN /\ running \in BOOLEAN /\ closing \in BOOLEAN /\ asked \in BOOLEAN
  /\ ~breach /\ (asked => ~running)
  /\ stage \in {"ended", "connecting", "waiting"} => ~known
  /\ stage = "ended" => ~running
  /\ socket = "open" => known
  /\ DisconnectHolds

LEMMA AdapterStep == AdapterInv /\ [AdapterNext]_adapterVars => AdapterInv'
<1> SUFFICES ASSUME AdapterInv, [AdapterNext]_adapterVars PROVE AdapterInv'
  OBVIOUS
<1>1. CASE Connect
  BY <1>1 DEF Connect, Attempt, AdapterInv, DisconnectHolds
<1>2. CASE FailToConnect
  BY <1>2 DEF FailToConnect, Retry, End, AdapterInv, DisconnectHolds
<1>3. CASE Open
  BY <1>3 DEF Open, AdapterInv, DisconnectHolds
<1>4. CASE Subscribe
  BY <1>4 DEF Subscribe, AdapterInv, DisconnectHolds
<1>5. CASE Receive
  BY <1>5 DEF Receive, Message, AdapterInv, DisconnectHolds
<1>6. CASE StreamEnds
  BY <1>6 DEF StreamEnds, AdapterInv, DisconnectHolds
<1>7. CASE LeaveSocket
  BY <1>7 DEF LeaveSocket, Retry, End, AdapterInv, DisconnectHolds
<1>8. CASE Wake
  BY <1>8 DEF Wake, Attempt, End, AdapterInv, DisconnectHolds
<1>9. CASE CancelTask
  BY <1>9 DEF CancelTask, End, AdapterInv, DisconnectHolds
<1>10. CASE Disconnect
  BY <1>10 DEF Disconnect, ClosesSocket, AdapterInv, DisconnectHolds
<1>11. CASE Closed
  BY <1>11 DEF Closed, AdapterInv, DisconnectHolds
<1>12. CASE UNCHANGED adapterVars
  BY <1>12 DEF adapterVars, AdapterInv, DisconnectHolds
<1> QED BY <1>1, <1>2, <1>3, <1>4, <1>5, <1>6, <1>7, <1>8, <1>9, <1>10, <1>11, <1>12
        DEF AdapterNext

\* Wherever disconnect() finds the task of connect(), nothing is begun or published
\* after it, and the socket is on its way to be closed unless it was about to be opened
\* (feed.py:WebSocketFeedAdapter).
THEOREM DisconnectAlwaysHolds ==
  AdapterInit /\ [][AdapterNext]_adapterVars => []DisconnectHolds
<1>1. AdapterInit => AdapterInv
  BY DEF AdapterInit, AdapterInv, DisconnectHolds
<1>2. AdapterInv => DisconnectHolds
  BY DEF AdapterInv
<1> QED BY <1>1, <1>2, AdapterStep, PTL

-----------------------------------------------------------------------------
\* The rate limiter

GrantRecord == [at : Nat, tokens : Nat]

Granted(s, i, j) == SumFunctionOnSet([k \in i..j |-> s[k].tokens], i..j)

BucketTypeOK ==
  /\ clock \in Nat /\ tokens \in 0..Burst /\ refilled \in 0..clock
  /\ caller \in [Threads -> [wants : Nat, until : Int]]
  /\ grants \in Seq(GrantRecord)
  /\ \A i \in DOMAIN grants : grants[i].at =< refilled

\* What was granted since grant i, with what is in the bucket, is no more than a full
\* bucket and what has come in meanwhile.
SpareIsKept ==
  \A i \in DOMAIN grants :
    GrantedIn(i, Len(grants)) + tokens =< Burst + (refilled - grants[i].at) * TokenRate

BucketInv == BucketTypeOK /\ SpareIsKept /\ RateIsKept

LEMMA GrantFields ==
  ASSUME NEW s \in Seq(GrantRecord), NEW i \in 1..Len(s)
  PROVE  s[i].at \in Nat /\ s[i].tokens \in Nat
<1>1. s[i] \in GrantRecord
  OBVIOUS
<1> QED BY <1>1 DEF GrantRecord

LEMMA GrantedType ==
  ASSUME NEW s \in Seq(GrantRecord), NEW i \in 1..Len(s), NEW j \in 1..Len(s)
  PROVE  Granted(s, i, j) \in Nat
<1> DEFINE f == [k \in i..j |-> s[k].tokens]
<1>1. \A k \in i..j : k \in 1..Len(s)
  OBVIOUS
<1>2. \A k \in 1..Len(s) : s[k].tokens \in Nat
  BY GrantFields
<1>3. \A k \in i..j : f[k] \in Nat
  BY <1>1, <1>2
<1>4. IsFiniteSet(i..j)
  BY FS_Interval
<1> HIDE DEF f
<1>5. SumFunctionOnSet(f, i..j) \in Nat
  BY <1>3, <1>4, SumGrows
<1> QED BY <1>5 DEF Granted, f

\* One more grant
LEMMA GrantsGrow ==
  ASSUME NEW s \in Seq(GrantRecord), NEW t \in Seq(GrantRecord),
         NEW n \in Nat, n = Len(s), Len(t) = n + 1, \A i \in 1..n : t[i] = s[i]
  PROVE  /\ \A i, j \in 1..n : Granted(t, i, j) = Granted(s, i, j)
         /\ \A i \in 1..n : Granted(t, i, n + 1) = Granted(s, i, n) + t[n + 1].tokens
         /\ Granted(t, n + 1, n + 1) = t[n + 1].tokens
<1>1. ASSUME NEW i \in 1..n, NEW j \in 1..n PROVE Granted(t, i, j) = Granted(s, i, j)
  <2> DEFINE f == [k \in i..j |-> s[k].tokens]
             h == [k \in i..j |-> t[k].tokens]
  <2>1. \A k \in i..j : h[k] = f[k]
    OBVIOUS
  <2>2. IsFiniteSet(i..j)
    BY FS_Interval
  <2> HIDE DEF f, h
  <2>3. SumFunctionOnSet(h, i..j) = SumFunctionOnSet(f, i..j)
    BY <2>1, <2>2, SumCongruence
  <2> QED BY <2>3 DEF Granted, f, h
<1>2. ASSUME NEW i \in 1..(n + 1)
      PROVE  Granted(t, i, n + 1) = t[n + 1].tokens + SumFunctionOnSet([k \in i..(n + 1) |-> t[k].tokens], i..n)
  <2> DEFINE h == [k \in i..(n + 1) |-> t[k].tokens]
  <2>1. \A k \in i..(n + 1) : k \in 1..Len(t)
    OBVIOUS
  <2>2. \A k \in 1..Len(t) : t[k].tokens \in Int
    BY GrantFields
  <2>3. \A k \in i..(n + 1) : h[k] \in Int /\ h[k] = t[k].tokens
    BY <2>1, <2>2
  <2>4. i..(n + 1) = (i..n) \cup {n + 1} /\ n + 1 \notin i..n /\ n + 1 \in i..(n + 1)
    OBVIOUS
  <2>5. IsFiniteSet(i..n)
    BY FS_Interval
  <2> HIDE DEF h
  <2>6. SumFunctionOnSet(h, (i..n) \cup {n + 1}) = h[n + 1] + SumFunctionOnSet(h, i..n)
    BY <2>3, <2>4, <2>5, SumInsert
  <2>7. h[n + 1] = t[n + 1].tokens
    BY <2>3, <2>4
  <2> QED BY <2>4, <2>6, <2>7 DEF Granted, h
<1>3. ASSUME NEW i \in 1..n
      PROVE  Granted(t, i, n + 1) = Granted(s, i, n) + t[n + 1].tokens
  <2> DEFINE f == [k \in i..n |-> s[k].tokens]
             h == [k \in i..(n + 1) |-> t[k].tokens]
  <2>1. \A k \in i..n : h[k] = f[k]
    OBVIOUS
  <2>2. IsFiniteSet(i..n)
    BY FS_Interval
  <2>3. Granted(t, i, n + 1) = t[n + 1].tokens + SumFunctionOnSet(h, i..n)
    BY <1>2
  <2>4. Granted(s, i, n) = SumFunctionOnSet(f, i..n)
    BY DEF Granted
  <2>5. Granted(s, i, n) \in Int /\ t[n + 1].tokens \in Int
    <3>1. n \in 1..Len(s) /\ i \in 1..Len(s) /\ n + 1 \in 1..Len(t)
      OBVIOUS
    <3>2. Granted(s, i, n) \in Nat
      BY <3>1, GrantedType
    <3> QED BY <3>1, <3>2, GrantFields
  <2> HIDE DEF f, h
  <2>6. SumFunctionOnSet(h, i..n) = SumFunctionOnSet(f, i..n)
    BY <2>1, <2>2, SumCongruence
  <2> QED BY <2>3, <2>4, <2>5, <2>6
<1>4. Granted(t, n + 1, n + 1) = t[n + 1].tokens
  <2> SUFFICES ASSUME NEW i \in 1..(n + 1), i = n + 1
               PROVE  Granted(t, i, n + 1) = t[n + 1].tokens
    OBVIOUS
  <2>1. i..n = {} /\ n + 1 \in 1..Len(t)
    OBVIOUS
  <2>2. Granted(t, i, n + 1)
          = t[n + 1].tokens + SumFunctionOnSet([k \in i..(n + 1) |-> t[k].tokens], i..n)
    BY <1>2
  <2>3. t[n + 1].tokens \in Int
    BY <2>1, GrantFields
  <2> QED BY <2>1, <2>2, <2>3, SumEmpty
<1> QED BY <1>1, <1>3, <1>4

\* A bucket whose tokens have not grown faster than they come in
LEMMA Inflow ==
  ASSUME NEW rate \in Nat, NEW burst \in Nat, NEW g \in Nat, NEW at \in Nat,
         NEW then \in Nat, NEW now \in Nat, NEW had \in Nat, NEW has \in Nat,
         g + had =< burst + (then - at) * rate,
         has =< had + (now - then) * rate
  PROVE  g + has =< burst + (now - at) * rate
<1>1. (now - at) * rate = (now - then) * rate + (then - at) * rate
  BY SMTT(30)
<1>2. (now - then) * rate \in Int /\ (then - at) * rate \in Int
  OBVIOUS
<1> QED BY <1>1, <1>2

LEMMA BucketFacts ==
  ASSUME BucketInv
  PROVE  /\ TokenRate \in Nat /\ Burst \in Nat /\ clock \in Nat
         /\ tokens \in Nat /\ tokens =< Burst /\ refilled \in Nat /\ refilled =< clock
         /\ grants \in Seq(GrantRecord) /\ Len(grants) \in Nat
         /\ DOMAIN grants = 1..Len(grants)
         /\ \A i \in 1..Len(grants) :
              /\ grants[i].at \in Nat /\ grants[i].at =< refilled
              /\ Granted(grants, i, Len(grants)) \in Nat
              /\ Granted(grants, i, Len(grants)) + tokens
                   =< Burst + (refilled - grants[i].at) * TokenRate
<1>1. /\ TokenRate \in Nat /\ Burst \in Nat /\ clock \in Nat
      /\ tokens \in Nat /\ tokens =< Burst /\ refilled \in Nat /\ refilled =< clock
      /\ grants \in Seq(GrantRecord)
  BY BucketAssumption DEF BucketInv, BucketTypeOK
<1>2. Len(grants) \in Nat /\ DOMAIN grants = 1..Len(grants)
  BY <1>1
<1>3. ASSUME NEW i \in 1..Len(grants)
      PROVE  /\ grants[i].at \in Nat /\ grants[i].at =< refilled
             /\ Granted(grants, i, Len(grants)) \in Nat
             /\ Granted(grants, i, Len(grants)) + tokens
                  =< Burst + (refilled - grants[i].at) * TokenRate
  <2>1. grants[i].at \in Nat
    BY <1>1, GrantFields
  <2>2. grants[i].at =< refilled
    BY <1>2 DEF BucketInv, BucketTypeOK
  <2>3. Granted(grants, i, Len(grants)) \in Nat
    <3>1. Len(grants) \in 1..Len(grants)
      BY <1>2
    <3> QED BY <1>1, <3>1, GrantedType
  <2>4. Granted(grants, i, Len(grants)) + tokens
          =< Burst + (refilled - grants[i].at) * TokenRate
    BY <1>2 DEF BucketInv, SpareIsKept, GrantedIn, Granted
  <2> QED BY <2>1, <2>2, <2>3, <2>4
<1> QED BY <1>1, <1>2, <1>3

LEMMA RefilledType ==
  ASSUME BucketInv
  PROVE  /\ Refilled \in Nat /\ Refilled =< Burst
         /\ Refilled =< tokens + (clock - refilled) * TokenRate
<1>1. /\ TokenRate \in Nat /\ Burst \in Nat /\ tokens \in Nat
      /\ clock - refilled \in Nat
  BY BucketFacts
<1>2. (clock - refilled) * TokenRate \in Nat
  BY <1>1
<1> QED BY <1>1, <1>2 DEF Refilled, Least

LEMMA GrantKeeps ==
  ASSUME BucketInv, NEW n \in Nat, NEW t \in Threads, Grant(t, n),
         caller' \in [Threads -> [wants : Nat, until : Int]]
  PROVE  BucketInv'
<1> DEFINE m == Len(grants)
<1>1. /\ n =< Refilled /\ tokens' = Refilled - n /\ refilled' = clock /\ clock' = clock
      /\ grants' = Append(grants, [at |-> clock, tokens |-> n])
  BY DEF Grant
<1>2. m \in Nat /\ clock \in Nat /\ [at |-> clock, tokens |-> n] \in GrantRecord
  BY BucketFacts DEF GrantRecord
<1>3. /\ grants' \in Seq(GrantRecord) /\ Len(grants') = m + 1 /\ DOMAIN grants' = 1..(m + 1)
      /\ \A i \in 1..m : grants'[i] = grants[i]
      /\ grants'[m + 1] = [at |-> clock, tokens |-> n]
  BY <1>1, <1>2, BucketFacts
<1>4. grants'[m + 1].at = clock /\ grants'[m + 1].tokens = n
  BY <1>3
<1>5. /\ \A i, j \in 1..m : Granted(grants', i, j) = Granted(grants, i, j)
      /\ \A i \in 1..m : Granted(grants', i, m + 1) = Granted(grants, i, m) + n
      /\ Granted(grants', m + 1, m + 1) = n
  <2>1. grants \in Seq(GrantRecord)
    BY BucketFacts
  <2> HIDE DEF m
  <2>2. m = Len(grants)
    BY DEF m
  <2>3. ASSUME NEW u \in Seq(GrantRecord), Len(u) = m + 1, \A i \in 1..m : u[i] = grants[i]
        PROVE  /\ \A i, j \in 1..m : Granted(u, i, j) = Granted(grants, i, j)
               /\ \A i \in 1..m : Granted(u, i, m + 1) = Granted(grants, i, m) + u[m + 1].tokens
               /\ Granted(u, m + 1, m + 1) = u[m + 1].tokens
    BY <1>2, <2>1, <2>2, <2>3, GrantsGrow
  <2> QED BY <1>3, <1>4, <2>3
<1>6. ASSUME NEW i \in 1..m
      PROVE  Granted(grants, i, m) + Refilled =< Burst + (clock - grants[i].at) * TokenRate
  BY BucketFacts, RefilledType, Inflow
<1>7. /\ Granted(grants', m + 1, m + 1) + tokens' =< Burst
      /\ (clock - clock) * TokenRate = 0
  BY <1>1, <1>5, BucketFacts, RefilledType
<1>8. \A i \in 1..(m + 1) : i \in 1..m \/ i = m + 1
  BY <1>2
<1>9. BucketTypeOK'
  <2>1. \A i \in 1..(m + 1) : grants'[i].at =< clock
    <3>1. \A i \in 1..m : grants'[i].at =< clock
      BY <1>3, BucketFacts
    <3> QED BY <1>2, <1>4, <1>8, <3>1
  <2>2. tokens' \in 0..Burst
    BY <1>1, BucketFacts, RefilledType
  <2> QED BY <1>1, <1>2, <1>3, <2>1, <2>2 DEF BucketTypeOK
<1>10. \A i, j : GrantedIn(i, j)' = Granted(grants', i, j)
  BY DEF GrantedIn, Granted
<1>11. ASSUME NEW i \in 1..(m + 1)
       PROVE  Granted(grants', i, m + 1) + tokens' =< Burst + (clock - grants'[i].at) * TokenRate
  <2>1. CASE i \in 1..m
    <3>1. Granted(grants', i, m + 1) = Granted(grants, i, m) + n /\ grants'[i] = grants[i]
      BY <1>3, <1>5, <2>1
    <3>2. Granted(grants, i, m) + Refilled =< Burst + (clock - grants[i].at) * TokenRate
      BY <1>6, <2>1
    <3>3. Granted(grants, i, m) \in Nat /\ Refilled \in Nat
      BY <2>1, BucketFacts, RefilledType
    <3>4. Granted(grants', i, m + 1) + tokens' = Granted(grants, i, m) + Refilled
      BY <1>1, <3>1, <3>3
    <3> QED BY <3>1, <3>2, <3>4
  <2>2. CASE i = m + 1
    <3>1. Burst \in Nat
      BY BucketFacts
    <3>2. Burst + (clock - clock) * TokenRate = Burst
      BY <1>7, <3>1
    <3> QED BY <1>4, <1>7, <2>2, <3>2
  <2> QED BY <1>8, <2>1, <2>2
<1>12. SpareIsKept'
  BY <1>1, <1>3, <1>10, <1>11 DEF SpareIsKept
<1>13. RateIsKept'
  <2> SUFFICES ASSUME NEW i \in 1..(m + 1), NEW j \in 1..(m + 1), i =< j
               PROVE  Granted(grants', i, j) =< Burst + (grants'[j].at - grants'[i].at) * TokenRate
    BY <1>3, <1>10 DEF RateIsKept
  <2>1. CASE j \in 1..m
    <3>1. i \in 1..m
      BY <1>2, <2>1
    <3>2. GrantedIn(i, j) =< Burst + (grants[j].at - grants[i].at) * TokenRate
      BY <2>1, <3>1, BucketFacts DEF BucketInv, RateIsKept
    <3>3. Granted(grants', i, j) = GrantedIn(i, j)
      BY <1>5, <2>1, <3>1 DEF GrantedIn, Granted
    <3>4. grants'[i] = grants[i] /\ grants'[j] = grants[j]
      BY <1>3, <2>1, <3>1
    <3> QED BY <3>2, <3>3, <3>4
  <2>2. CASE j = m + 1
    <3>1. Granted(grants', i, m + 1) + tokens' =< Burst + (clock - grants'[i].at) * TokenRate
      BY <1>11
    <3>2. Granted(grants', i, m + 1) \in Int /\ tokens' \in Nat
      <4>1. m + 1 \in 1..Len(grants')
        BY <1>2, <1>3
      <4>2. Granted(grants', i, m + 1) \in Nat
        BY <1>3, <4>1, GrantedType
      <4> QED BY <1>1, <4>2, RefilledType
    <3>3. Burst + (clock - grants'[i].at) * TokenRate \in Int
      <4>1. grants'[i].at \in Nat
        BY <1>3, GrantFields
      <4> QED BY <4>1, BucketFacts, SMTT(30)
    <3> HIDE DEF m
    <3>4. Granted(grants', i, m + 1) =< Burst + (clock - grants'[i].at) * TokenRate
      BY <3>1, <3>2, <3>3
    <3> QED BY <1>4, <2>2, <3>4
  <2> QED BY <1>8, <2>1, <2>2
<1> QED BY <1>9, <1>12, <1>13 DEF BucketInv

\* While nothing is granted the bucket may fill up.
LEMMA FillKeeps ==
  ASSUME BucketInv, clock' \in Nat, refilled' \in Nat, refilled =< refilled', refilled' =< clock',
         tokens' \in Nat, tokens' =< Burst,
         tokens' =< tokens + (refilled' - refilled) * TokenRate,
         caller' \in [Threads -> [wants : Nat, until : Int]], UNCHANGED grants
  PROVE  BucketInv'
<1>1. BucketTypeOK'
  <2>1. \A i \in DOMAIN grants : grants[i].at =< refilled'
    BY BucketFacts, SMTT(30)
  <2>2. grants \in Seq(GrantRecord)
    BY BucketFacts
  <2>3. tokens' \in 0..Burst /\ refilled' \in 0..clock'
    BY BucketFacts
  <2> QED BY <2>1, <2>2, <2>3 DEF BucketTypeOK
<1>2. \A i, j : /\ GrantedIn(i, j) = Granted(grants, i, j)
                /\ GrantedIn(i, j)' = Granted(grants, i, j)
  BY DEF GrantedIn, Granted
<1>3. ASSUME NEW i \in 1..Len(grants)
      PROVE  Granted(grants, i, Len(grants)) + tokens' =< Burst + (refilled' - grants[i].at) * TokenRate
  BY BucketFacts, Inflow
<1>4. SpareIsKept'
  BY <1>2, <1>3, BucketFacts DEF SpareIsKept
<1>5. RateIsKept'
  BY <1>2 DEF RateIsKept, BucketInv
<1> QED BY <1>1, <1>4, <1>5 DEF BucketInv

LEMMA RefuseKeeps ==
  ASSUME BucketInv, NEW n, Refuse(n), caller' \in [Threads -> [wants : Nat, until : Int]]
  PROVE  BucketInv'
<1>1. /\ tokens' = Refilled /\ refilled' = clock /\ UNCHANGED <<clock, grants>>
  BY DEF Refuse
<1>2. /\ clock' \in Nat /\ refilled' \in Nat /\ refilled =< refilled' /\ refilled' =< clock'
      /\ tokens' \in Nat /\ tokens' =< Burst
      /\ tokens' =< tokens + (refilled' - refilled) * TokenRate
  BY <1>1, BucketFacts, RefilledType
<1> QED BY <1>1, <1>2, FillKeeps

LEMMA BucketStep == BucketInv /\ [BucketNext]_bucketVars => BucketInv'
<1> SUFFICES ASSUME BucketInv, [BucketNext]_bucketVars PROVE BucketInv'
  OBVIOUS
<1>1. caller \in [Threads -> [wants : Nat, until : Int]]
  BY DEF BucketInv, BucketTypeOK
<1>2. \A n \in Nat : clock + SleepFor(n) \in Int
  <2>1. TokenRate \in Nat \ {0} /\ clock \in Nat /\ Refilled \in Nat
    BY BucketAssumption, BucketFacts, RefilledType
  <2> QED BY <2>1 DEF SleepFor
<1>3. 1..Burst \subseteq Nat
  BY BucketFacts
<1>4. ASSUME NEW t \in Threads, NEW n \in 1..Burst, Acquire(t, n) PROVE BucketInv'
  BY <1>1, <1>3, <1>4, GrantKeeps, RefuseKeeps DEF Acquire
<1>5. ASSUME NEW t \in Threads, NEW n \in 1..Burst, Wait(t, n) PROVE BucketInv'
  <2>1. CASE Grant(t, n) /\ UNCHANGED caller
    BY <1>1, <1>3, <2>1, GrantKeeps
  <2>2. CASE /\ Refuse(n)
             /\ caller' = [caller EXCEPT ![t] = [wants |-> n, until |-> clock + SleepFor(n)]]
    <3>1. caller' \in [Threads -> [wants : Nat, until : Int]]
      BY <1>1, <1>2, <1>3, <2>2
    <3> QED BY <2>2, <3>1, RefuseKeeps
  <2> QED BY <1>5, <2>1, <2>2 DEF Wait
<1>6. ASSUME NEW t \in Threads, Awake(t) PROVE BucketInv'
  <2>1. caller[t].wants \in Nat
    BY <1>1
  <2>2. CASE /\ Grant(t, caller[t].wants)
             /\ caller' = [caller EXCEPT ![t] = NotWaiting]
    <3>1. caller' \in [Threads -> [wants : Nat, until : Int]]
      BY <1>1, <2>2 DEF NotWaiting
    <3> QED BY <2>1, <2>2, <3>1, GrantKeeps
  <2>3. CASE /\ Refuse(caller[t].wants)
             /\ caller' = [caller EXCEPT ![t].until = clock + SleepFor(caller[t].wants)]
    <3>1. caller' \in [Threads -> [wants : Nat, until : Int]]
      BY <1>1, <1>2, <2>1, <2>3
    <3> QED BY <2>3, <3>1, RefuseKeeps
  <2> QED BY <1>6, <2>2, <2>3 DEF Awake, TakesOrSleeps
<1>7. ASSUME clock' \in Nat, clock =< clock', UNCHANGED <<tokens, refilled, caller, grants>>
      PROVE  BucketInv'
  <2>1. /\ refilled' \in Nat /\ refilled =< refilled' /\ refilled' =< clock'
        /\ tokens' \in Nat /\ tokens' =< Burst
        /\ tokens' =< tokens + (refilled' - refilled) * TokenRate
    BY <1>7, BucketFacts
  <2> QED BY <1>1, <1>7, <2>1, FillKeeps
<1>8. TickOver \/ UNCHANGED bucketVars => BucketInv'
  BY <1>7, BucketFacts DEF TickOver, bucketVars
<1> QED BY <1>4, <1>5, <1>6, <1>8 DEF BucketNext

\* Whatever the threads ask for and however their sleeps overlap, no span of time grants
\* more than a full bucket and what comes in meanwhile
\* (decorators.py:RateLimiter).
THEOREM RateAlwaysKept == BucketInit /\ [][BucketNext]_bucketVars => []RateIsKept
<1>1. BucketInit => BucketInv
  BY BucketAssumption DEF BucketInit, BucketInv, BucketTypeOK, SpareIsKept, RateIsKept, NotWaiting
<1>2. BucketInv => RateIsKept
  BY DEF BucketInv
<1> QED BY <1>1, <1>2, BucketStep, PTL

-----------------------------------------------------------------------------
\* The dispatch policies

Verdicts == {"high", "low", "inside", "near", "few", "calm", "flat"}
Evaluation == [verdict : Verdicts, told : BOOLEAN]
              \cup [verdict : Verdicts, told : BOOLEAN, at : Nat]

LEMMA EvaluationFields ==
  ASSUME NEW log \in Seq(Evaluation), NEW i \in 1..Len(log)
  PROVE  log[i].verdict \in Verdicts /\ log[i].told \in BOOLEAN
<1>1. log[i] \in Evaluation
  OBVIOUS
<1> QED BY <1>1 DEF Evaluation

\* What the last decided of the first n evaluations says, reset if there is none
Standing(log, n, reset) ==
  LET d == Decided(log, n + 1, reset)
  IN  IF d = {} THEN reset ELSE log[Max(d)].verdict

LEMMA StandingType ==
  ASSUME NEW log \in Seq(Evaluation), NEW n \in 0..Len(log), NEW reset
  PROVE  Standing(log, n, reset) \in {"high", "low", reset}
<1> DEFINE d == Decided(log, n + 1, reset)
<1>1. n \in Nat /\ d \in SUBSET (1..n) /\ \A j \in d : log[j].verdict \in {"high", "low", reset}
  BY DEF Decided
<1>2. d # {} => Max(d) \in d
  BY <1>1, GreatestNumber
<1> QED BY <1>1, <1>2 DEF Standing

LEMMA NewsIsChange ==
  ASSUME NEW log \in Seq(Evaluation), NEW i \in 1..Len(log), NEW reset
  PROVE  IsNews(log, i, reset) <=> Standing(log, i - 1, reset) # log[i].verdict
<1>1. (i - 1) + 1 = i
  OBVIOUS
<1> QED BY <1>1 DEF IsNews, Standing

LEMMA StandingGrows ==
  ASSUME NEW log \in Seq(Evaluation), NEW u \in Seq(Evaluation), Len(u) = Len(log) + 1,
         \A i \in 1..Len(log) : u[i] = log[i], NEW reset
  PROVE  LET n == Len(log)
         IN  /\ \A i \in 0..n : Standing(u, i, reset) = Standing(log, i, reset)
             /\ u[n + 1].verdict \in {"high", "low", reset}
                  => Standing(u, n + 1, reset) = u[n + 1].verdict
             /\ u[n + 1].verdict \notin {"high", "low", reset}
                  => Standing(u, n + 1, reset) = Standing(log, n, reset)
<1> DEFINE n == Len(log)
<1>0. n \in Nat /\ Len(u) = n + 1 /\ \A i \in 1..n : u[i] = log[i]
  OBVIOUS
<1> HIDE DEF n
<1>1. ASSUME NEW i \in 0..n PROVE Standing(u, i, reset) = Standing(log, i, reset)
  <2>1. Decided(u, i + 1, reset) = Decided(log, i + 1, reset)
        /\ Decided(log, i + 1, reset) \in SUBSET (1..n)
    BY <1>0 DEF Decided
  <2>2. CASE Decided(log, i + 1, reset) # {}
    <3>1. Max(Decided(log, i + 1, reset)) \in 1..n
      BY <1>0, <2>1, <2>2, GreatestNumber
    <3> QED BY <1>0, <2>1, <3>1 DEF Standing
  <2> QED BY <2>1, <2>2 DEF Standing
<1>2. Standing(u, n + 1, reset) = IF u[n + 1].verdict \in {"high", "low", reset}
                                  THEN u[n + 1].verdict ELSE Standing(log, n, reset)
  <2> DEFINE d == Decided(u, n + 2, reset)
  <2>1. CASE u[n + 1].verdict \in {"high", "low", reset}
    <3>1. d \in SUBSET (1..(n + 1)) /\ n + 1 \in d /\ d # {} /\ n + 1 \in Nat
      BY <1>0, <2>1 DEF Decided
    <3> HIDE DEF d
    <3>2. Max(d) \in d /\ n + 1 =< Max(d)
      BY <3>1, GreatestNumber
    <3>a. Max(d) \in 1..(n + 1)
      BY <3>1, <3>2
    <3>3. Max(d) = n + 1 /\ d # {}
      BY <1>0, <3>1, <3>2, <3>a
    <3>4. Standing(u, n + 1, reset) = u[n + 1].verdict
      <4>1. (n + 1) + 1 = n + 2
        BY <1>0
      <4> QED BY <3>3, <4>1 DEF Standing, d
    <3> QED BY <2>1, <3>4
  <2>2. CASE u[n + 1].verdict \notin {"high", "low", reset}
    <3>1. d = Decided(u, n + 1, reset)
      BY <1>0, <2>2 DEF Decided
    <3>2. (n + 1) + 1 = n + 2
      BY <1>0
    <3>3. Standing(u, n + 1, reset) = Standing(u, n, reset)
      BY <3>1, <3>2 DEF Standing
    <3> QED BY <1>0, <1>1, <2>2, <3>3
  <2> QED BY <2>1, <2>2
<1> QED BY <1>1, <1>2 DEF n

\* The end of the buffer is the end of the stream.
EndsAlike(s, t) == \A i \in 0..(Len(s) - 1) : s[Len(s) - i] = t[Len(t) - i]

LEMMA MinOfTwo ==
  ASSUME NEW a \in Nat, NEW b \in Nat
  PROVE  Min({a, b}) = IF a =< b THEN a ELSE b
BY DEF Min

\* A verdict is about the last Lookback + 1 readings only.
LEMMA VerdictOfTheEnd ==
  ASSUME NEW s \in Seq(Values), NEW t \in Seq(Values), EndsAlike(s, t),
         Len(s) > Lookback, Len(t) > Lookback
  PROVE  Verdict(s) = Verdict(t)
<1>1. Lookback \in Nat /\ Lookback >= 2 /\ Len(s) \in Nat /\ Len(t) \in Nat
  BY PolicyAssumption
<1>2. Last(s) = Last(t)
  <2>1. s[Len(s) - 0] = t[Len(t) - 0]
    <3>1. 0 \in 0..(Len(s) - 1)
      BY <1>1
    <3> QED BY <3>1 DEF EndsAlike
  <2>2. Len(s) - 0 = Len(s) /\ Len(t) - 0 = Len(t)
    BY <1>1
  <2> QED BY <2>1, <2>2 DEF Last
<1>3. Window(s) = Window(t)
  <2>1. /\ Window(s) \in Seq(Values) /\ Len(Window(s)) = Lookback
        /\ \A i \in 1..Lookback : Window(s)[i] = s[Len(s) - Lookback + i - 1]
    BY <1>1 DEF Window
  <2>2. /\ Window(t) \in Seq(Values) /\ Len(Window(t)) = Lookback
        /\ \A i \in 1..Lookback : Window(t)[i] = t[Len(t) - Lookback + i - 1]
    BY <1>1 DEF Window
  <2>3. ASSUME NEW i \in 1..Lookback PROVE Window(s)[i] = Window(t)[i]
    <3>1. s[Len(s) - (Lookback + 1 - i)] = t[Len(t) - (Lookback + 1 - i)]
      <4>1. Lookback + 1 - i \in 0..(Len(s) - 1)
        BY <1>1
      <4> QED BY <4>1 DEF EndsAlike
    <3>2. /\ Len(s) - (Lookback + 1 - i) = Len(s) - Lookback + i - 1
          /\ Len(t) - (Lookback + 1 - i) = Len(t) - Lookback + i - 1
      BY <1>1
    <3> QED BY <2>1, <2>2, <3>1, <3>2
  <2> QED BY <2>1, <2>2, <2>3
<1> QED BY <1>2, <1>3 DEF Verdict

\* What the policy remembers of its evaluations
State(log, reset) ==
  LET v == Standing(log, Len(log), reset) IN IF v = reset THEN "none" ELSE v

\* Every evaluation told what was news, and only that.
ToldRight(log, decided, reset) ==
  \A i \in DOMAIN log :
    log[i].told <=> log[i].verdict \in decided /\ IsNews(log, i, reset)

\* The buffer is the end of the stream, as much of it as fits.
BufferInv ==
  /\ buffer \in Seq(Values) /\ stream \in Seq(Values)
  /\ Len(buffer) = IF Len(stream) < MaxBuffer THEN Len(stream) ELSE MaxBuffer
  /\ EndsAlike(buffer, stream)

\* Every evaluation saw what the stream up to it shows.
SeenRight(log, s) ==
  \A i \in DOMAIN log :
    /\ log[i].at \in 0..Len(s)
    /\ log[i].verdict = Shown(SubSeq(s, 1, log[i].at))

\* The inductive invariant of both policies
PolicyInv ==
  /\ BufferInv /\ SeenRight(looks, stream)
  /\ looks \in Seq(Evaluation) /\ scores \in Seq(Evaluation)
  /\ breached = State(looks, "inside") /\ imbalance = State(scores, "calm")
  /\ ToldRight(looks, {"high", "low"}, "inside")
  /\ ToldRight(scores, {"high", "low", "calm"}, "calm")

\* A reading more, and the oldest one gone
LEMMA TrimmedEnd ==
  ASSUME NEW b \in Seq(Values), NEW s \in Seq(Values), NEW v \in Values,
         Len(b) = IF Len(s) < MaxBuffer THEN Len(s) ELSE MaxBuffer,
         EndsAlike(b, s)
  PROVE  /\ Trimmed(Append(b, v)) \in Seq(Values)
         /\ Len(Trimmed(Append(b, v))) = IF Len(s) + 1 < MaxBuffer THEN Len(s) + 1 ELSE MaxBuffer
         /\ EndsAlike(Trimmed(Append(b, v)), Append(s, v))
<1> DEFINE m == IF Len(b) + 1 =< MaxBuffer THEN Len(b) + 1 ELSE MaxBuffer
<1>1. MaxBuffer \in Nat /\ Len(b) \in Nat /\ Len(s) \in Nat /\ m \in Nat /\ m =< Len(b) + 1
      /\ m = (IF Len(s) + 1 < MaxBuffer THEN Len(s) + 1 ELSE MaxBuffer)
  BY PolicyAssumption
<1>2. PICK a \in Seq(Values) : /\ a = Append(b, v) /\ Len(a) = Len(b) + 1
                               /\ \A i \in 1..Len(b) : a[i] = b[i]
                               /\ a[Len(b) + 1] = v
  <2>1. /\ Append(b, v) \in Seq(Values) /\ Len(Append(b, v)) = Len(b) + 1
        /\ \A i \in 1..Len(b) : Append(b, v)[i] = b[i]
        /\ Append(b, v)[Len(b) + 1] = v
    BY AppendProperties
  <2> QED BY <2>1
<1>3. PICK z \in Seq(Values) : /\ z = Append(s, v) /\ Len(z) = Len(s) + 1
                               /\ \A i \in 1..Len(s) : z[i] = s[i]
                               /\ z[Len(s) + 1] = v
  <2>1. /\ Append(s, v) \in Seq(Values) /\ Len(Append(s, v)) = Len(s) + 1
        /\ \A i \in 1..Len(s) : Append(s, v)[i] = s[i]
        /\ Append(s, v)[Len(s) + 1] = v
    BY AppendProperties
  <2> QED BY <2>1
<1>4. Min({Len(a), MaxBuffer}) = m
  BY <1>1, <1>2, MinOfTwo, SMTT(30)
<1> HIDE DEF m
<1>5. PICK t \in Seq(Values) : /\ t = Trimmed(a) /\ Len(t) = m
                               /\ \A i \in 1..m : t[i] = a[Len(a) - m + i]
  <2>1. Trimmed(a) = SubSeq(a, Len(a) - m + 1, Len(a))
    BY <1>4 DEF Trimmed
  <2>2. /\ SubSeq(a, Len(a) - m + 1, Len(a)) \in Seq(Values)
        /\ Len(SubSeq(a, Len(a) - m + 1, Len(a))) = m
        /\ \A i \in 1..m : SubSeq(a, Len(a) - m + 1, Len(a))[i] = a[Len(a) - m + i]
    <3>1. Len(a) \in Nat /\ Len(a) - m \in Nat
      BY <1>1, <1>2
    <3>2. PICK k \in Nat : k = Len(a) - m
      BY <3>1
    <3>3. k + 1 \in 1..(Len(a) + 1) /\ Len(a) - (k + 1) + 1 = m
      <4>1. \A x, y \in Nat : k = x - y => k + 1 \in 1..(x + 1) /\ x - (k + 1) + 1 = y
        OBVIOUS
      <4>2. m \in Nat
        BY <1>1
      <4> QED BY <3>1, <3>2, <4>1, <4>2
    <3>4. /\ SubSeq(a, k + 1, Len(a)) \in Seq(Values)
          /\ Len(SubSeq(a, k + 1, Len(a))) = m
          /\ \A i \in 1..m : SubSeq(a, k + 1, Len(a))[i] = a[k + i]
      BY <1>1, <3>1, <3>3
    <3> QED BY <3>2, <3>4
  <2> QED BY <2>1, <2>2
<1>6. ASSUME NEW i \in 0..(m - 1) PROVE t[m - i] = z[Len(z) - i]
  <2>1. t[m - i] = a[Len(a) - i]
    <3>1. m - i \in 1..m /\ Len(a) - m + (m - i) = Len(a) - i
      BY <1>1, <1>2
    <3> QED BY <1>5, <3>1
  <2>2. CASE i = 0
    <3>1. Len(a) - i = Len(b) + 1 /\ Len(z) - i = Len(s) + 1
      BY <1>1, <1>2, <1>3, <2>2
    <3> QED BY <1>2, <1>3, <2>1, <3>1
  <2>3. CASE i # 0
    <3>1. b[Len(b) - (i - 1)] = s[Len(s) - (i - 1)]
      <4>1. i - 1 \in 0..(Len(b) - 1)
        BY <1>1, <2>3
      <4> QED BY <4>1 DEF EndsAlike
    <3>a. i \in Int /\ 1 =< i /\ i =< m - 1 /\ Len(b) =< Len(s)
      BY <1>1, <2>3
    <3>2. /\ Len(a) - i = Len(b) - (i - 1) /\ Len(b) - (i - 1) \in 1..Len(b)
          /\ Len(z) - i = Len(s) - (i - 1) /\ Len(s) - (i - 1) \in 1..Len(s)
      BY <1>1, <1>2, <1>3, <3>a
    <3> QED BY <1>2, <1>3, <2>1, <3>1, <3>2
  <2> QED BY <2>2, <2>3
<1> QED BY <1>1, <1>2, <1>3, <1>5, <1>6 DEF EndsAlike

\* One more evaluation
LEMMA EvaluationKeeps ==
  ASSUME NEW log \in Seq(Evaluation), NEW decided, NEW reset, reset \notin {"high", "low"},
         ToldRight(log, decided, reset),
         NEW e \in Evaluation,
         e.told <=> e.verdict \in decided /\ Standing(log, Len(log), reset) # e.verdict
  PROVE  /\ Append(log, e) \in Seq(Evaluation)
         /\ ToldRight(Append(log, e), decided, reset)
         /\ State(Append(log, e), reset) =
              IF e.verdict \in {"high", "low"} THEN e.verdict
              ELSE IF e.verdict = reset THEN "none" ELSE State(log, reset)
<1> DEFINE n == Len(log)
<1>1. n \in Nat
  OBVIOUS
<1>2. PICK u \in Seq(Evaluation) : /\ u = Append(log, e) /\ Len(u) = n + 1
                                   /\ \A i \in 1..n : u[i] = log[i]
                                   /\ u[n + 1] = e
  <2>1. /\ Append(log, e) \in Seq(Evaluation) /\ Len(Append(log, e)) = Len(log) + 1
        /\ \A i \in 1..Len(log) : Append(log, e)[i] = log[i]
        /\ Append(log, e)[Len(log) + 1] = e
    BY AppendProperties
  <2> QED BY <2>1
<1>3. /\ \A i \in 0..n : Standing(u, i, reset) = Standing(log, i, reset)
      /\ Standing(u, n + 1, reset) = IF u[n + 1].verdict \in {"high", "low", reset}
                                     THEN u[n + 1].verdict ELSE Standing(log, n, reset)
  <2>1. u \in Seq(Evaluation) /\ Len(u) = Len(log) + 1 /\ \A i \in 1..Len(log) : u[i] = log[i]
    BY <1>2
  <2>2. ASSUME NEW w \in Seq(Evaluation), Len(w) = Len(log) + 1, \A i \in 1..Len(log) : w[i] = log[i]
        PROVE  /\ \A i \in 0..n : Standing(w, i, reset) = Standing(log, i, reset)
               /\ w[n + 1].verdict \in {"high", "low", reset}
                    => Standing(w, n + 1, reset) = w[n + 1].verdict
               /\ w[n + 1].verdict \notin {"high", "low", reset}
                    => Standing(w, n + 1, reset) = Standing(log, n, reset)
    BY <2>2, StandingGrows
  <2> HIDE DEF n
  <2> QED BY <2>1, <2>2
<1>4. ASSUME NEW i \in 1..(n + 1)
      PROVE  u[i].told <=> u[i].verdict \in decided /\ IsNews(u, i, reset)
  <2>1. IsNews(u, i, reset) <=> Standing(log, i - 1, reset) # u[i].verdict
    <3>1. i - 1 \in 0..n
      BY <1>1
    <3>2. Standing(u, i - 1, reset) = Standing(log, i - 1, reset)
      BY <1>3, <3>1
    <3>3. i \in 1..Len(u)
      BY <1>2
    <3> QED BY <3>2, <3>3, NewsIsChange
  <2>2. CASE i \in 1..n
    <3>1. IsNews(log, i, reset) <=> Standing(log, i - 1, reset) # log[i].verdict
      BY <2>2, NewsIsChange
    <3> QED BY <1>2, <2>1, <2>2, <3>1 DEF ToldRight
  <2>3. CASE i = n + 1
    <3>1. i - 1 = n
      BY <1>1, <2>3
    <3> QED BY <1>2, <2>1, <2>3, <3>1
  <2> QED BY <1>1, <2>2, <2>3
<1>5. ToldRight(u, decided, reset)
  BY <1>2, <1>4 DEF ToldRight
<1>6. State(u, reset) = IF e.verdict \in {"high", "low"} THEN e.verdict
              ELSE IF e.verdict = reset THEN "none" ELSE State(log, reset)
  BY <1>2, <1>3 DEF State
<1> QED BY <1>2, <1>5, <1>6

LEMMA VerdictIsOne ==
  ASSUME NEW s
  PROVE  Verdict(s) \in {"high", "low", "inside", "near"}
BY DEF Verdict

\* What the stream showed it shows for good.
LEMMA SeenStaysRight ==
  ASSUME NEW log, NEW s \in Seq(Values), NEW v \in Values, SeenRight(log, s)
  PROVE  SeenRight(log, Append(s, v))
<1>1. PICK z \in Seq(Values) : /\ z = Append(s, v) /\ Len(z) = Len(s) + 1
                               /\ \A i \in 1..Len(s) : z[i] = s[i]
  <2>1. /\ Append(s, v) \in Seq(Values) /\ Len(Append(s, v)) = Len(s) + 1
        /\ \A i \in 1..Len(s) : Append(s, v)[i] = s[i]
    BY AppendProperties
  <2> QED BY <2>1
<1>2. ASSUME NEW n \in 0..Len(s) PROVE n \in 0..Len(z) /\ SubSeq(z, 1, n) = SubSeq(s, 1, n)
  <2>1. n \in Nat /\ n =< Len(s) /\ n =< Len(z)
    BY <1>1
  <2>2. /\ SubSeq(z, 1, n) = [i \in 1..n |-> z[i]]
        /\ SubSeq(s, 1, n) = [i \in 1..n |-> s[i]]
    BY <2>1
  <2>3. \A i \in 1..n : z[i] = s[i]
    BY <1>1, <2>1
  <2> QED BY <1>1, <2>1, <2>2, <2>3
<1> QED BY <1>1, <1>2 DEF SeenRight

\* The buffer is judged as the stream is.
LEMMA JudgedAsShown ==
  ASSUME BufferInv
  PROVE  (IF Len(buffer) < MinTicks THEN "few" ELSE Verdict(buffer))
           = Shown(SubSeq(stream, 1, Len(stream)))
<1>1. /\ MinTicks \in Nat /\ MaxBuffer \in Nat /\ Lookback \in Nat /\ Lookback < MinTicks
      /\ Len(buffer) \in Nat /\ Len(stream) \in Nat
  BY PolicyAssumption DEF BufferInv
<1>2. SubSeq(stream, 1, Len(stream)) = stream
  BY DEF BufferInv
<1>3. Len(buffer) < MinTicks <=> Len(stream) < MinTicks \/ MaxBuffer < MinTicks
  BY <1>1 DEF BufferInv
<1>4. ASSUME Len(buffer) >= MinTicks PROVE Verdict(buffer) = Verdict(stream)
  <2>1. Len(buffer) > Lookback /\ Len(stream) > Lookback
    BY <1>1, <1>4 DEF BufferInv
  <2> QED BY <2>1, VerdictOfTheEnd DEF BufferInv
<1>5. CASE Len(buffer) < MinTicks
  BY <1>2, <1>3, <1>5 DEF Shown
<1>6. CASE ~(Len(buffer) < MinTicks)
  <2>1. Len(buffer) >= MinTicks
    BY <1>1, <1>6
  <2> QED BY <1>2, <1>3, <1>4, <1>6, <2>1 DEF Shown
<1> QED BY <1>5, <1>6

LEMMA PolicyStep == PolicyInv /\ [BreachNext \/ ImbalanceNext]_policyVars => PolicyInv'
<1> SUFFICES ASSUME PolicyInv, [BreachNext \/ ImbalanceNext]_policyVars PROVE PolicyInv'
  OBVIOUS
<1>1. ASSUME NEW v \in Values, OnReading(v) PROVE PolicyInv'
  <2>1. BufferInv'
    <3>1. buffer' = Trimmed(Append(buffer, v)) /\ stream' = Append(stream, v)
      BY <1>1 DEF OnReading
    <3>2. /\ Trimmed(Append(buffer, v)) \in Seq(Values)
          /\ Len(Trimmed(Append(buffer, v))) =
               IF Len(stream) + 1 < MaxBuffer THEN Len(stream) + 1 ELSE MaxBuffer
          /\ EndsAlike(Trimmed(Append(buffer, v)), Append(stream, v))
      BY TrimmedEnd DEF PolicyInv, BufferInv
    <3>3. Append(stream, v) \in Seq(Values) /\ Len(Append(stream, v)) = Len(stream) + 1
      BY DEF PolicyInv, BufferInv
    <3> QED BY <3>1, <3>2, <3>3 DEF BufferInv, EndsAlike
  <2>2. SeenRight(looks, stream)'
    <3>1. SeenRight(looks, Append(stream, v))
      BY SeenStaysRight DEF PolicyInv, BufferInv
    <3> QED BY <1>1, <3>1 DEF OnReading
  <2> QED BY <1>1, <2>1, <2>2 DEF OnReading, PolicyInv, State, ToldRight
<1>2. CASE LookForBreach
  <2>1. PICK v \in {"few", "high", "low", "inside", "near"} :
          v = IF Len(buffer) < MinTicks THEN "few" ELSE Verdict(buffer)
    BY VerdictIsOne
  <2>2. PICK e \in Evaluation :
          e = [verdict |-> v, told |-> v \in {"high", "low"} /\ breached # v, at |-> Len(stream)]
    <3>1. (v \in {"high", "low"} /\ breached # v) \in BOOLEAN /\ Len(stream) \in Nat
      BY DEF PolicyInv, BufferInv
    <3> QED BY <3>1 DEF Evaluation, Verdicts
  <2>3. looks' = Append(looks, e) /\ breached' = BreachAfter(v)
        /\ UNCHANGED <<buffer, stream, imbalance, scores>>
    BY <1>2, <2>1, <2>2 DEF LookForBreach
  <2>4. e.verdict = v /\ (e.told <=> v \in {"high", "low"} /\ breached # v) /\ e.at = Len(stream)
    BY <2>2
  <2>5. e.told <=> e.verdict \in {"high", "low"} /\ Standing(looks, Len(looks), "inside") # e.verdict
    BY <2>4 DEF PolicyInv, State
  <2>6. /\ Append(looks, e) \in Seq(Evaluation)
        /\ ToldRight(Append(looks, e), {"high", "low"}, "inside")
        /\ State(Append(looks, e), "inside") =
             IF e.verdict \in {"high", "low"} THEN e.verdict
             ELSE IF e.verdict = "inside" THEN "none" ELSE State(looks, "inside")
    BY <2>5, EvaluationKeeps DEF PolicyInv
  <2>7. BreachAfter(v) = State(Append(looks, e), "inside")
    BY <2>4, <2>6 DEF BreachAfter, PolicyInv
  <2>8. SeenRight(Append(looks, e), stream)
    <3>1. e.at \in 0..Len(stream) /\ e.verdict = Shown(SubSeq(stream, 1, e.at))
      <4>1. Len(stream) \in 0..Len(stream)
        BY DEF PolicyInv, BufferInv
      <4> QED BY <2>1, <2>4, <4>1, JudgedAsShown DEF PolicyInv
    <3>2. /\ looks \in Seq(Evaluation)
          /\ Len(Append(looks, e)) = Len(looks) + 1
          /\ \A i \in 1..Len(looks) : Append(looks, e)[i] = looks[i]
          /\ Append(looks, e)[Len(looks) + 1] = e
      BY AppendProperties DEF PolicyInv
    <3>3. PICK u \in Seq(Evaluation) : u = Append(looks, e)
      BY <2>6
    <3>4. ASSUME NEW i \in DOMAIN u
          PROVE  u[i].at \in 0..Len(stream) /\ u[i].verdict = Shown(SubSeq(stream, 1, u[i].at))
      <4>1. i \in 1..Len(looks) \/ i = Len(looks) + 1
        BY <3>2, <3>3
      <4>2. CASE i \in 1..Len(looks)
        BY <3>2, <3>3, <4>2 DEF PolicyInv, SeenRight
      <4>3. CASE i = Len(looks) + 1
        BY <3>1, <3>2, <3>3, <4>3
      <4> QED BY <4>1, <4>2, <4>3
    <3> QED BY <3>3, <3>4 DEF SeenRight
  <2> QED BY <2>3, <2>6, <2>7, <2>8 DEF PolicyInv, BufferInv, EndsAlike, State, ToldRight
<1>3. ASSUME NEW z \in Scores, LookForImbalance(z) PROVE PolicyInv'
  <2>1. PICK e \in Evaluation : e = [verdict |-> z, told |-> Told(z)]
    <3>1. Told(z) \in BOOLEAN /\ z \in Verdicts
      BY DEF Told, Scores, Verdicts
    <3> QED BY <3>1 DEF Evaluation
  <2>2. scores' = Append(scores, e)
    BY <1>3, <2>1 DEF LookForImbalance
  <2>3. e.verdict = z /\ (e.told <=> Told(z))
    BY <2>1
  <2>4. e.told <=> e.verdict \in {"high", "low", "calm"} /\ Standing(scores, Len(scores), "calm") # e.verdict
    <3>1. Standing(scores, Len(scores), "calm") \in {"high", "low", "calm"}
      BY StandingType DEF PolicyInv
    <3> QED BY <2>3, <3>1 DEF PolicyInv, State, Told, Scores
  <2>5. /\ Append(scores, e) \in Seq(Evaluation)
        /\ ToldRight(Append(scores, e), {"high", "low", "calm"}, "calm")
        /\ State(Append(scores, e), "calm") =
             IF e.verdict \in {"high", "low"} THEN e.verdict
             ELSE IF e.verdict = "calm" THEN "none" ELSE State(scores, "calm")
    BY <2>4, EvaluationKeeps DEF PolicyInv
  <2>6. imbalance' = State(Append(scores, e), "calm")
    BY <1>3, <2>3, <2>5 DEF LookForImbalance, PolicyInv
  <2> QED BY <1>3, <2>2, <2>5, <2>6 DEF LookForImbalance, PolicyInv, BufferInv, EndsAlike, State,
                                        ToldRight, SeenRight
<1>4. CASE UNCHANGED policyVars
  BY <1>4 DEF policyVars, PolicyInv, BufferInv, EndsAlike, State, ToldRight, SeenRight
<1> QED BY <1>1, <1>2, <1>3, <1>4 DEF BreachNext, ImbalanceNext

\* However long the stream of readings runs and whatever the sizes of buffer and window,
\* an evaluation says of the trimmed buffer what the whole stream shows, and each breach
\* or imbalance is told once, and its end once, however its readings fall into the window
\* (BasePolicy._buffer_reading, generate_recommendations of CapacityBreach and
\* CrossAssetTelemetryImbalance).  A policy that asks for more readings than the buffer
\* of base.py:178 holds, which no constructor forbids, tells nothing.
THEOREM AlarmsAlwaysOnce ==
  PolicyInit /\ [][BreachNext \/ ImbalanceNext]_policyVars => []AlarmsOncePerEvent
<1>1. PolicyInit => PolicyInv
  <2> SUFFICES ASSUME PolicyInit PROVE PolicyInv
    OBVIOUS
  <2>1. BufferInv
    BY PolicyAssumption DEF PolicyInit, BufferInv, EndsAlike
  <2>2. /\ looks = <<>> /\ scores = <<>> /\ <<>> \in Seq(Evaluation) /\ Len(<<>>) = 0
        /\ breached = "none" /\ imbalance = "none"
    BY DEF PolicyInit
  <2>3. \A reset : State(<<>>, reset) = "none" /\ ToldRight(<<>>, {}, reset)
    <3>1. \A reset : Decided(<<>>, 1, reset) = {}
      BY DEF Decided
    <3> QED BY <3>1, <2>2 DEF State, Standing, ToldRight
  <2>4. \A decided, reset : ToldRight(<<>>, decided, reset)
    BY DEF ToldRight
  <2>5. SeenRight(<<>>, stream)
    BY DEF SeenRight
  <2> QED BY <2>1, <2>2, <2>3, <2>4, <2>5 DEF PolicyInv
<1>2. PolicyInv => AlarmsOncePerEvent
  BY DEF PolicyInv, SeenRight, ToldRight, AlarmsOncePerEvent
<1> QED BY <1>1, <1>2, PolicyStep, PTL

-----------------------------------------------------------------------------
\* The store: the order that is chosen for the elements of a finite set

\* b puts the elements of S in a strict order, in which any two of them have a place.
StrictlyOrders(b, S) ==
  /\ \A x \in S : <<x, x>> \notin b
  /\ \A x, y \in S : x = y \/ <<x, y>> \in b \/ <<y, x>> \in b
  /\ \A x, y, z \in S : <<x, y>> \in b /\ <<y, z>> \in b => <<x, z>> \in b

\* A finite set in such an order has a last element.
LEMMA LastInOrder ==
  ASSUME NEW S, IsFiniteSet(S), S # {}, NEW b, StrictlyOrders(b, S)
  PROVE  \E m \in S : \A x \in S : x # m => <<x, m>> \in b
<1> DEFINE HasLast(T) == \E m \in T : \A x \in T : x # m => <<x, m>> \in b
           D == {T \in SUBSET S : T # {} => HasLast(T)}
<1>1. ASSUME NEW T \in SUBSET S, \A U \in SUBSET T : U # T => U \in D
      PROVE  T \in D
  <2>1. SUFFICES ASSUME T # {} PROVE HasLast(T)
    OBVIOUS
  <2>2. PICK c \in T : TRUE
    BY <2>1
  <2>3. CASE T \ {c} = {}
    <3>1. \A x \in T : x = c
      BY <2>3
    <3> QED BY <3>1
  <2>4. CASE T \ {c} # {}
    <3>1. T \ {c} \in D
      <4> HIDE DEF D
      <4>1. T \ {c} \in SUBSET T /\ T \ {c} # T
        BY <2>2
      <4> QED BY <1>1, <4>1
    <3>2. PICK m \in T \ {c} : \A x \in T \ {c} : x # m => <<x, m>> \in b
      BY <2>4, <3>1
    <3>3. CASE <<c, m>> \in b
      <4>1. \A x \in T : x # m => <<x, m>> \in b
        BY <3>2, <3>3
      <4> QED BY <4>1
    <3>4. CASE <<m, c>> \in b
      <4>1. ASSUME NEW x \in T, x # c PROVE <<x, c>> \in b
        <5>1. x = m \/ <<x, m>> \in b
          BY <3>2, <4>1
        <5>2. x \in S /\ m \in S /\ c \in S
          OBVIOUS
        <5> QED BY <3>4, <5>1, <5>2 DEF StrictlyOrders
      <4> QED BY <4>1
    <3>5. m \in S /\ c \in S /\ m # c
      OBVIOUS
    <3> QED BY <3>3, <3>4, <3>5 DEF StrictlyOrders
  <2> QED BY <2>3, <2>4
<1> HIDE DEF D
<1>2. S \in D
  BY <1>1, SubsetInduction
<1> QED BY <1>2 DEF D

\* It can be arranged,
LEMMA ArrangementExists ==
  ASSUME NEW S, IsFiniteSet(S), NEW b, StrictlyOrders(b, S)
  PROVE  \E o \in [1..Cardinality(S) -> S] :
           \A j, k \in 1..Cardinality(S) : j < k => <<o[j], o[k]>> \in b
<1> DEFINE Arrangeable(T, n) == \E o \in [1..n -> T] : \A j, k \in 1..n : j < k => <<o[j], o[k]>> \in b
           D == {T \in SUBSET S : Arrangeable(T, Cardinality(T))}
<1>1. ASSUME NEW T \in SUBSET S, \A U \in SUBSET T : U # T => U \in D
      PROVE  T \in D
  <2>0. IsFiniteSet(T) /\ Cardinality(T) \in Nat
    BY FS_Subset, FS_CardinalityType
  <2>1. CASE T = {}
    <3>1. Cardinality(T) = 0
      BY <2>1, FS_EmptySet
    <3>2. PICK o : o = [i \in 1..0 |-> 0]
      OBVIOUS
    <3>3. 1..0 = {} /\ o \in [1..0 -> T]
      BY <3>2
    <3>4. \A j, k \in 1..0 : j < k => <<o[j], o[k]>> \in b
      BY <3>3
    <3>5. Arrangeable(T, 0)
      BY <3>3, <3>4
    <3> QED BY <3>1, <3>5
  <2>2. CASE T # {}
    <3>1. StrictlyOrders(b, T)
      BY DEF StrictlyOrders
    <3>2. PICK m \in T : \A x \in T : x # m => <<x, m>> \in b
      BY <2>0, <2>2, <3>1, LastInOrder
    <3>3. T \ {m} \in D
      <4> HIDE DEF D
      <4>1. T \ {m} \in SUBSET T /\ T \ {m} # T
        BY <3>2
      <4> QED BY <1>1, <4>1
    <3>4. PICK n \in Nat : n = Cardinality(T \ {m}) /\ Cardinality(T) = n + 1
      <4>1. IsFiniteSet(T \ {m}) /\ Cardinality(T \ {m}) = Cardinality(T) - 1
        BY <2>0, FS_RemoveElement
      <4>2. PICK n : n = Cardinality(T \ {m})
        OBVIOUS
      <4>3. n \in Nat
        BY <4>1, <4>2, FS_CardinalityType
      <4>4. Cardinality(T) = n + 1
        BY <2>0, <4>1, <4>2, <4>3
      <4> QED BY <4>2, <4>3, <4>4
    <3>5. PICK o \in [1..n -> T \ {m}] : \A j, k \in 1..n : j < k => <<o[j], o[k]>> \in b
      BY <3>3, <3>4
    <3> DEFINE p == [k \in 1..(n + 1) |-> IF k = n + 1 THEN m ELSE o[k]]
    <3>6. \A k \in 1..n : p[k] = o[k] /\ p[k] \in T /\ p[k] # m
      OBVIOUS
    <3>7. p[n + 1] = m
      OBVIOUS
    <3>8. p \in [1..(n + 1) -> T]
      OBVIOUS
    <3> HIDE DEF p
    <3>9. ASSUME NEW j \in 1..(n + 1), NEW k \in 1..(n + 1), j < k
          PROVE  <<p[j], p[k]>> \in b
      <4>1. j \in 1..n
        BY <3>9
      <4>2. CASE k = n + 1
        BY <3>2, <3>6, <3>7, <4>1, <4>2
      <4>3. CASE k # n + 1
        <5>1. k \in 1..n
          BY <4>3
        <5> QED BY <3>5, <3>6, <3>9, <4>1, <5>1
      <4> QED BY <4>2, <4>3
    <3>10. Arrangeable(T, n + 1)
      BY <3>8, <3>9
    <3> QED BY <3>4, <3>10
  <2> QED BY <2>1, <2>2
<1> HIDE DEF D
<1>2. S \in D
  BY <1>1, SubsetInduction
<1> QED BY <1>2 DEF D

\* and the arrangement that is chosen has every element once.
LEMMA ArrangedRight ==
  ASSUME NEW S, IsFiniteSet(S), NEW b, StrictlyOrders(b, S), NEW o, o = Arranged(S, b),
         NEW n, n = Cardinality(S)
  PROVE  /\ n \in Nat /\ o \in [1..n -> S]
         /\ \A j, k \in 1..n : j < k => <<o[j], o[k]>> \in b
         /\ \A j, k \in 1..n : o[j] = o[k] => j = k
         /\ \A x \in S : \E k \in 1..n : o[k] = x
<1>1. n \in Nat
  BY FS_CardinalityType
<1>2. \E q \in [1..n -> S] : \A j, k \in 1..n : j < k => <<q[j], q[k]>> \in b
  BY ArrangementExists
<1>3. /\ o \in [1..n -> S]
      /\ \A j, k \in 1..n : j < k => <<o[j], o[k]>> \in b
  BY <1>2 DEF Arranged
<1>4. ASSUME NEW j \in 1..n, NEW k \in 1..n, o[j] = o[k]
      PROVE  j = k
  <2>1. ~(j < k) /\ ~(k < j)
    <3>1. o[j] \in S /\ o[k] \in S
      BY <1>3
    <3>2. <<o[j], o[k]>> \notin b /\ <<o[k], o[j]>> \notin b
      BY <1>4, <3>1 DEF StrictlyOrders
    <3> QED BY <1>3, <3>2
  <2>2. j \in Int /\ k \in Int
    OBVIOUS
  <2> QED BY <2>1, <2>2
<1>5. o \in Injection(1..n, S)
  BY <1>3, <1>4 DEF Injection, IsInjective
<1>6. Cardinality(1..n) = Cardinality(S)
  BY <1>1, FS_Interval
<1>7. o \in Surjection(1..n, S)
  BY <1>5, <1>6, FS_Injection
<1>8. \A x \in S : \E k \in 1..n : o[k] = x
  BY <1>7 DEF Surjection
<1> QED BY <1>1, <1>3, <1>4, <1>8

-----------------------------------------------------------------------------
\* Pages

\* The beginning of a sequence
LEMMA BeginningOf ==
  ASSUME NEW X, NEW s \in Seq(X), NEW m \in Nat, m =< Len(s)
  PROVE  /\ SubSeq(s, 1, m) \in Seq(X) /\ Len(SubSeq(s, 1, m)) = m
         /\ \A i \in 1..m : SubSeq(s, 1, m)[i] = s[i]
<1>1. SubSeq(s, 1, m) \in Seq(X)
  OBVIOUS
<1>2. Len(SubSeq(s, 1, m)) = m
  OBVIOUS
<1>3. \A i \in 1..m : SubSeq(s, 1, m)[i] = s[i]
  OBVIOUS
<1> QED BY <1>1, <1>2, <1>3

\* FirstOf() returns the beginning of what it is given, up to the limit and the ceiling.
LEMMA FirstOfRight ==
  ASSUME NEW X, NEW s \in Seq(X), NEW limit \in Nat, limit =< QueryCeiling,
         NEW t, t = FirstOf(s, limit)
  PROVE  /\ t \in Seq(X) /\ Len(t) =< Len(s) /\ Len(t) =< limit
         /\ Len(t) = Len(s) \/ Len(t) = limit
         /\ \A i \in 1..Len(t) : t[i] = s[i]
<1>1. AtMostCeiling(limit) = limit
  BY StoreAssumption DEF AtMostCeiling
<1>2. PICK n \in Nat : n = Len(s)
  OBVIOUS
<1>3. Min({n, limit}) = IF n =< limit THEN n ELSE limit
  BY LesserOfTwo
<1>4. PICK m \in Nat : m = Min({n, limit}) /\ m =< Len(s)
  BY <1>2, <1>3
<1>5. t = SubSeq(s, 1, m)
  BY <1>1, <1>2, <1>4 DEF FirstOf
<1>6. t \in Seq(X) /\ Len(t) = m /\ \A i \in 1..m : t[i] = s[i]
  <2>1. m =< Len(s)
    BY <1>4
  <2>2. /\ SubSeq(s, 1, m) \in Seq(X) /\ Len(SubSeq(s, 1, m)) = m
        /\ \A i \in 1..m : SubSeq(s, 1, m)[i] = s[i]
    BY <2>1, BeginningOf
  <2> QED BY <1>5, <2>2
<1>7. m =< Len(s) /\ m =< limit /\ (m = Len(s) \/ m = limit)
  BY <1>2, <1>3, <1>4
<1> QED BY <1>6, <1>7

\* IsPrefix() of sequences, element by element
LEMMA PrefixByElements ==
  ASSUME NEW X, NEW s \in Seq(X), NEW t \in Seq(X), Len(s) =< Len(t),
         \A i \in 1..Len(s) : s[i] = t[i]
  PROVE  IsPrefix(s, t)
<1>1. SubSeq(s, 1, Len(s)) = SubSeq(t, 1, Len(s))
  OBVIOUS
<1> QED BY <1>1 DEF IsPrefix

\* Of one order, what is returned for a smaller limit is where the larger begins.
LEMMA ShorterBegins ==
  ASSUME NEW X, NEW s \in Seq(X), NEW n \in 1..(QueryCeiling - 1)
  PROVE  IsPrefix(FirstOf(s, n), FirstOf(s, n + 1))
<1>1. Len(s) \in Nat
  OBVIOUS
<1>2. n \in Nat /\ n =< QueryCeiling
  BY StoreAssumption
<1>3. PICK m \in Nat : m = n + 1 /\ m =< QueryCeiling
  BY StoreAssumption
<1>4. PICK t, u : t = FirstOf(s, n) /\ u = FirstOf(s, m)
  OBVIOUS
<1>5. /\ t \in Seq(X) /\ Len(t) =< Len(s) /\ Len(t) =< n
      /\ Len(t) = Len(s) \/ Len(t) = n
      /\ \A i \in 1..Len(t) : t[i] = s[i]
  BY <1>1, <1>2, <1>4, FirstOfRight
<1>6. /\ u \in Seq(X) /\ Len(u) =< Len(s) /\ Len(u) =< m
      /\ Len(u) = Len(s) \/ Len(u) = m
      /\ \A i \in 1..Len(u) : u[i] = s[i]
  BY <1>1, <1>3, <1>4, FirstOfRight
<1>7. Len(t) =< Len(u)
  BY <1>1, <1>2, <1>3, <1>5, <1>6
<1>8. \A i \in 1..Len(t) : t[i] = u[i]
  <2>1. Len(t) \in Nat /\ Len(u) \in Nat
    BY <1>5, <1>6
  <2>2. \A i \in 1..Len(t) : i \in 1..Len(u)
    BY <1>7, <2>1
  <2> QED BY <1>5, <1>6, <2>2
<1> QED BY <1>3, <1>4, <1>5, <1>6, <1>7, <1>8, PrefixByElements

\* A part of a sequence's indices is finite, and its size a number.
LEMMA IndicesAreFinite ==
  ASSUME NEW X, NEW s \in Seq(X), NEW T \in SUBSET (DOMAIN s)
  PROVE  IsFiniteSet(T) /\ Cardinality(T) \in Nat /\ T \in SUBSET (1..Len(s))
<1>1. DOMAIN s = 1..Len(s) /\ Len(s) \in Nat
  OBVIOUS
<1>2. IsFiniteSet(1..Len(s))
  BY <1>1, FS_Interval
<1> QED BY <1>1, <1>2, FS_Subset, FS_CardinalityType

\* Newest() for a smaller limit is where the larger begins.
LEMMA NewestBegins ==
  ASSUME NEW table, NEW found, Cardinality(found) \in Nat, NEW n \in 1..(QueryCeiling - 1)
  PROVE  IsPrefix(Newest(table, found, n), Newest(table, found, n + 1))
<1> DEFINE o == Arranged(found, Newer(table, found))
           s == [k \in 1..Cardinality(found) |-> table[o[k]]]
<1>1. PICK c \in Nat : c = Cardinality(found)
  OBVIOUS
<1>2. s \in Seq({table[i] : i \in {o[k] : k \in 1..c}})
  BY <1>1
<1>3. Newest(table, found, n) = FirstOf(s, n) /\ Newest(table, found, n + 1) = FirstOf(s, n + 1)
  BY DEF Newest
<1> HIDE DEF s
<1> QED BY <1>2, <1>3, ShorterBegins

\* The assets of rows that the list of equipment can have
Known(rows) == {row.asset : row \in rows} \cap {IdOrder[k] : k \in DOMAIN IdOrder}

\* The list of equipment is a sequence, which has every asset that some row has and
\* that is known.
LEMMA ByIdRight ==
  ASSUME NEW rows, NEW s, s = ById(rows)
  PROVE  /\ s \in Seq({s[k] : k \in DOMAIN s})
         /\ Assets(s) = Known(rows)
<1> DEFINE places == {k \in DOMAIN IdOrder : \E row \in rows : row.asset = IdOrder[k]}
           before == {p \in places \X places : p[1] < p[2]}
<1>1. PICK P, b : P = places /\ b = before
  OBVIOUS
<1>a. PICK o, c : o = Arranged(P, b) /\ c = Cardinality(P)
  OBVIOUS
<1>2. s = [k \in 1..c |-> CHOOSE row \in rows : row.asset = IdOrder[o[k]]]
  <2>1. s = [k \in 1..Cardinality(places) |->
               CHOOSE row \in rows : row.asset = IdOrder[Arranged(places, before)[k]]]
    BY Zenon DEF ById
  <2> HIDE DEF places, before
  <2> QED BY <1>1, <1>a, <2>1
<1>3. IsFiniteSet(P) /\ c \in Nat /\ P \subseteq Nat
  BY <1>1, <1>a, StoreAssumption, IndicesAreFinite
<1>4. StrictlyOrders(b, P)
  <2>1. \A x, y \in P : <<x, y>> \in b <=> x < y
    BY <1>1
  <2>2. \A x, y, z \in P : ~(x < x) /\ (x = y \/ x < y \/ y < x) /\ (x < y /\ y < z => x < z)
    BY <1>3
  <2> QED BY <2>1, <2>2 DEF StrictlyOrders
<1>5. o \in [1..c -> P] /\ \A x \in P : \E k \in 1..c : o[k] = x
  <2> HIDE DEF places, before
  <2> QED BY <1>a, <1>3, <1>4, ArrangedRight
<1>6. \A k \in 1..c : s[k] \in rows /\ s[k].asset = IdOrder[o[k]]
  <2> TAKE k \in 1..c
  <2>0. o[k] \in P
    BY <1>5
  <2>1. PICK row \in rows : row.asset = IdOrder[o[k]]
    BY <1>1, <2>0
  <2>2. s[k] = CHOOSE r \in rows : r.asset = IdOrder[o[k]]
    BY <1>2
  <2> QED BY <2>1, <2>2
<1>7. DOMAIN s = 1..c
  BY <1>2
<1>8. s \in Seq({s[k] : k \in DOMAIN s})
  <2>1. s \in [1..c -> {s[k] : k \in DOMAIN s}]
    BY <1>2, <1>7
  <2> QED BY <1>3, <2>1
<1>9. {s[k].asset : k \in DOMAIN s}
        = {row.asset : row \in rows} \cap {IdOrder[k] : k \in DOMAIN IdOrder}
  <2>1. ASSUME NEW k \in DOMAIN s
        PROVE  s[k].asset \in {row.asset : row \in rows} \cap {IdOrder[i] : i \in DOMAIN IdOrder}
    <3>1. k \in 1..c /\ o[k] \in P
      BY <1>5, <1>7
    <3>2. s[k] \in rows /\ s[k].asset = IdOrder[o[k]]
      BY <1>6, <3>1
    <3> QED BY <1>1, <3>1, <3>2
  <2>2. ASSUME NEW a \in {row.asset : row \in rows} \cap {IdOrder[k] : k \in DOMAIN IdOrder}
        PROVE  a \in {s[k].asset : k \in DOMAIN s}
    <3>1. PICK x \in P : a = IdOrder[x]
      <4>1. PICK x \in DOMAIN IdOrder : a = IdOrder[x]
        OBVIOUS
      <4>2. PICK row \in rows : row.asset = a
        OBVIOUS
      <4>3. x \in P
        BY <1>1, <4>1, <4>2
      <4> QED BY <4>1, <4>3
    <3>2. PICK k \in 1..c : o[k] = x
      BY <1>5
    <3> QED BY <1>6, <1>7, <3>1, <3>2
  <2> QED BY <2>1, <2>2
<1>10. Assets(s) = {s[k].asset : k \in DOMAIN s}
  <2> HIDE DEF places, before
  <2> QED BY DEF Assets, ToSet
<1>11. Assets(s) = Known(rows)
  <2> HIDE DEF places, before
  <2> QED BY <1>9, <1>10 DEF Known
<1> QED BY <1>8, <1>11

\* A stretch of a sequence
LEMMA StretchOf ==
  ASSUME NEW X, NEW s \in Seq(X), NEW p \in 1..Len(s), NEW r \in p..Len(s)
  PROVE  /\ SubSeq(s, p, r) \in Seq(X) /\ Len(SubSeq(s, p, r)) = r - p + 1
         /\ \A i \in 1..(r - p + 1) : SubSeq(s, p, r)[i] = s[p + i - 1]
<1>1. \A i \in p..r : s[i] \in X
  OBVIOUS
<1>2. p \in Int /\ r \in Int /\ p =< r
  OBVIOUS
<1>3. SubSeq(s, p, r) \in Seq(X)
  BY <1>1, <1>2, SubSeqProperties, Zenon
<1>4. Len(SubSeq(s, p, r)) = IF p =< r THEN r - p + 1 ELSE 0
  BY <1>1, <1>2, SubSeqProperties, Zenon
<1>5. \A i \in 1..(r - p + 1) : SubSeq(s, p, r)[i] = s[p + i - 1]
  BY <1>2
<1> QED BY <1>2, <1>3, <1>4, <1>5

\* Rows of known instants can be put in the order of a page.
Dated(table, found) ==
  /\ IsFiniteSet(found) /\ found \subseteq Nat
  /\ \A i \in found : table[i].when \in Int

\* The order of a page is strict, and any two rows have a place in it.
LEMMA NewerOrders ==
  ASSUME NEW table, NEW found, Dated(table, found)
  PROVE  /\ StrictlyOrders(Newer(table, found), found)
         /\ \A i, j \in found : <<i, j>> \in Newer(table, found) <=>
              \/ table[i].when > table[j].when
              \/ table[i].when = table[j].when /\ i > j
<1>1. \A i, j \in found : <<i, j>> \in Newer(table, found) <=>
              \/ table[i].when > table[j].when
              \/ table[i].when = table[j].when /\ i > j
  BY DEF Newer
<1>2. \A i \in found : i \in Int /\ table[i].when \in Int
  BY DEF Dated
<1>3. \A x \in found : <<x, x>> \notin Newer(table, found)
  BY <1>1, <1>2
<1>4. ASSUME NEW x \in found, NEW y \in found
      PROVE  x = y \/ <<x, y>> \in Newer(table, found) \/ <<y, x>> \in Newer(table, found)
  <2>1. PICK i, j \in Int : i = table[x].when /\ j = table[y].when
    BY <1>2
  <2>2. x \in Int /\ y \in Int
    BY <1>2
  <2>3. i > j \/ i = j \/ j > i
    OBVIOUS
  <2>4. x > y \/ x = y \/ y > x
    BY <2>2
  <2> QED BY <1>1, <2>1, <2>3, <2>4
<1>5. ASSUME NEW x \in found, NEW y \in found, NEW z \in found,
             <<x, y>> \in Newer(table, found), <<y, z>> \in Newer(table, found)
      PROVE  <<x, z>> \in Newer(table, found)
  BY <1>1, <1>2, <1>5
<1> QED BY <1>1, <1>3, <1>4, <1>5 DEF StrictlyOrders

\* What Newest() returns, as an order o of the n rows found
Lists(t, table, found, o, n) ==
  /\ n \in Nat /\ o \in [1..n -> found]
  /\ \A j, k \in 1..n : j < k => <<o[j], o[k]>> \in Newer(table, found)
  /\ \A j, k \in 1..n : o[j] = o[k] => j = k
  /\ \A x \in found : \E k \in 1..n : o[k] = x
  /\ t \in Seq({table[i] : i \in found})
  /\ Len(t) =< n /\ Len(t) =< QueryCeiling /\ (Len(t) = n \/ Len(t) = QueryCeiling)
  /\ \A k \in 1..Len(t) : t[k] = table[o[k]]

LEMMA NewestLists ==
  ASSUME NEW table, NEW found, Dated(table, found)
  PROVE  \E o, n : Lists(Newest(table, found, QueryCeiling), table, found, o, n)
<1> DEFINE b == Newer(table, found)
<1>1. PICK o, n : o = Arranged(found, b) /\ n = Cardinality(found)
  OBVIOUS
<1>2. StrictlyOrders(b, found) /\ IsFiniteSet(found)
  BY NewerOrders DEF Dated
<1>3. /\ n \in Nat /\ o \in [1..n -> found]
      /\ \A j, k \in 1..n : j < k => <<o[j], o[k]>> \in b
      /\ \A j, k \in 1..n : o[j] = o[k] => j = k
      /\ \A x \in found : \E k \in 1..n : o[k] = x
  <2> HIDE DEF b
  <2> QED BY <1>1, <1>2, ArrangedRight
<1> DEFINE X == {table[i] : i \in found}
           s == [k \in 1..n |-> table[o[k]]]
<1>4. s \in Seq(X) /\ Len(s) = n /\ \A k \in 1..n : s[k] = table[o[k]]
  BY <1>3
<1>5. Newest(table, found, QueryCeiling) = FirstOf(s, QueryCeiling)
  BY <1>1 DEF Newest
<1> HIDE DEF s, X
<1>6. QueryCeiling \in Nat /\ QueryCeiling =< QueryCeiling
  BY StoreAssumption
<1>7. PICK c \in Nat : c = QueryCeiling
  BY <1>6
<1>8. PICK t : t = FirstOf(s, c)
  OBVIOUS
<1>9. s \in Seq(X)
  BY <1>4
<1>10. /\ t \in Seq(X) /\ Len(t) =< Len(s) /\ Len(t) =< c
       /\ Len(t) = Len(s) \/ Len(t) = c
       /\ \A i \in 1..Len(t) : t[i] = s[i]
  <2>1. c =< QueryCeiling /\ t = FirstOf(s, c)
    BY <1>7, <1>8
  <2> QED BY <1>9, <2>1, FirstOfRight
<1>11. Len(t) \in Nat /\ Len(t) =< n
  <2>1. t \in Seq(X) /\ Len(t) =< Len(s)
    BY <1>10
  <2>2. Len(s) = n
    BY <1>4
  <2> QED BY <2>1, <2>2
<1>12. \A k \in 1..Len(t) : t[k] = table[o[k]]
  <2>1. \A k \in 1..n : s[k] = table[o[k]]
    BY <1>4
  <2>2. \A k \in 1..Len(t) : k \in 1..n
    BY <1>3, <1>11
  <2>3. \A k \in 1..Len(t) : t[k] = s[k]
    BY <1>10
  <2> QED BY <2>1, <2>2, <2>3, Zenon
<1>13. Lists(t, table, found, o, n)
  BY <1>3, <1>4, <1>8, <1>10, <1>11, <1>12, <1>7 DEF Lists, X
<1> QED BY <1>5, <1>8, <1>13, <1>7

\* The rows at some indices that are of one instant
OfInstant(rows, part, w) == {i \in part : rows[i].when = w}

\* The rows of one instant stand together on a page, in the order in which they begin
\* the page of the instant.
LEMMA InstantIsPrefix ==
  ASSUME NEW table, NEW found, Dated(table, found), NEW w,
         NEW all, all = Newest(table, found, QueryCeiling),
         NEW at, at = OfInstant(all, DOMAIN all, w), at # {},
         NEW same, same = OfInstant(table, found, w)
  PROVE  IsPrefix(SubSeq(all, Min(at), Max(at)), Newest(table, same, QueryCeiling))
<1> USE DEF OfInstant
<1>1. PICK o, n : Lists(all, table, found, o, n)
  BY NewestLists
<1>2. Dated(table, same)
  BY FS_Subset DEF Dated
<1>3. PICK one : one = Newest(table, same, QueryCeiling)
  OBVIOUS
<1>4. PICK q, m : Lists(one, table, same, q, m)
  BY <1>2, <1>3, NewestLists
<1>5. /\ Len(all) \in Nat /\ DOMAIN all = 1..Len(all) /\ Len(all) =< n /\ n \in Nat
      /\ Len(one) \in Nat /\ m \in Nat
  BY <1>1, <1>4 DEF Lists
<1>6. IsFiniteSet(at) /\ at \subseteq Int
  <2>1. at \in SUBSET (1..Len(all)) /\ IsFiniteSet(1..Len(all))
    BY <1>5, FS_Interval
  <2> QED BY <2>1, FS_Subset
<1>7. PICK p \in at : p = Min(at) /\ \A i \in at : p =< i
  BY <1>6, LeastOf
<1>8. PICK r \in at : r = Max(at) /\ \A i \in at : i =< r
  BY <1>6, GreatestOf
<1>9. p \in 1..Len(all) /\ r \in p..Len(all) /\ p \in 1..n /\ r \in 1..n
  BY <1>5, <1>6, <1>7, <1>8
<1>10. \A k \in 1..n : o[k] \in found /\ table[o[k]].when \in Int /\ o[k] \in Int
  <2>1. \A k \in 1..n : o[k] \in found
    BY <1>1 DEF Lists
  <2>2. \A i \in found : i \in Int /\ table[i].when \in Int
    BY DEF Dated
  <2> QED BY <2>1, <2>2, Zenon
<1>11. \A j, k \in 1..n : j < k => \/ table[o[j]].when > table[o[k]].when
                                   \/ table[o[j]].when = table[o[k]].when /\ o[j] > o[k]
  BY <1>1, <1>10, NewerOrders DEF Lists
<1>12. table[o[p]].when = w /\ table[o[r]].when = w
  BY <1>1, <1>5, <1>7, <1>8 DEF Lists
<1>13. ASSUME NEW k \in p..r PROVE k \in 1..n /\ o[k] \in same
  <2>1. k \in 1..n
    <3>1. p \in Int /\ r \in Int /\ 1 =< p /\ r =< n
      BY <1>5, <1>9
    <3> QED BY <1>5, <3>1
  <2>2. p = k \/ table[o[p]].when >= table[o[k]].when
    <3>1. p \in Int /\ k \in Int /\ p =< k
      BY <1>9
    <3>2. p < k => table[o[p]].when >= table[o[k]].when
      BY <1>9, <1>10, <1>11, <2>1
    <3> QED BY <3>1, <3>2
  <2>3. k = r \/ table[o[k]].when >= table[o[r]].when
    <3>1. r \in Int /\ k \in Int /\ k =< r
      BY <1>9
    <3>2. k < r => table[o[k]].when >= table[o[r]].when
      BY <1>9, <1>10, <1>11, <2>1
    <3> QED BY <3>1, <3>2
  <2>4. table[o[k]].when = w
    <3>1. table[o[k]].when \in Int /\ w \in Int
      BY <1>9, <1>10, <1>12, <2>1
    <3> QED BY <1>12, <2>2, <2>3, <3>1
  <2> QED BY <1>10, <2>1, <2>4
<1>14. ASSUME NEW k \in 1..(r - p + 1),
              \A l \in 1..(k - 1) : l =< m /\ q[l] = o[p + l - 1]
       PROVE  k =< m /\ q[k] = o[p + k - 1]
  <2>1. PICK c \in p..r : c = p + k - 1
    BY <1>9
  <2>2. c \in 1..n /\ o[c] \in same
    BY <1>13
  <2>3. PICK l \in 1..m : q[l] = o[c]
    BY <1>4, <2>2 DEF Lists
  <2>4. ~(l < k)
    <3> SUFFICES ASSUME l < k PROVE FALSE
      OBVIOUS
    <3>1. l \in 1..(k - 1)
      BY <1>5, <1>9
    <3>2. PICK d \in Int : d = p + l - 1
      BY <1>9, <3>1
    <3>3. d \in 1..n /\ d # c
      <4>1. p \in Int /\ 1 =< p /\ l \in Int /\ k \in Int /\ 1 =< l /\ c \in Int /\ c =< n
        BY <1>5, <1>9, <2>2, <3>1
      <4>2. d < c /\ 1 =< d
        BY <2>1, <3>2, <4>1
      <4> QED BY <1>5, <3>2, <4>1, <4>2
    <3>4. q[l] = o[d]
      BY <1>14, <3>1, <3>2
    <3>5. \A i, j \in 1..n : o[i] = o[j] => i = j
      BY <1>1 DEF Lists
    <3> QED BY <2>2, <2>3, <3>3, <3>4, <3>5
  <2>5. k =< l /\ k \in 1..m
    BY <1>5, <1>9, <2>4
  <2>6. CASE l = k
    BY <2>1, <2>3, <2>5, <2>6
  <2>7. CASE l # k
    <3>1. k < l
      BY <1>5, <1>9, <2>5, <2>7
    <3>2. q[k] \in same /\ q[l] \in same /\ <<q[k], q[l]>> \in Newer(table, same)
      BY <1>4, <2>5, <3>1 DEF Lists
    <3>3. q[k] > o[c]
      <4>1. table[q[k]].when = w /\ table[q[l]].when = w
        BY <3>2
      <4>2. w \in Int
        BY <1>10, <2>2
      <4> QED BY <1>2, <2>3, <3>2, <4>1, <4>2, NewerOrders
    <3>4. PICK j \in 1..n : o[j] = q[k]
      BY <1>1, <3>2 DEF Lists
    <3>5. table[o[j]].when = w /\ table[o[c]].when = w
      BY <2>2, <3>2, <3>4
    <3>6. ~(c < j)
      <4>1. w \in Int /\ o[c] \in Int /\ o[j] \in Int
        BY <1>10, <2>2, <3>5
      <4> QED BY <1>11, <2>2, <3>3, <3>4, <3>5, <4>1
    <3>7. j # c
      BY <1>10, <2>2, <3>3, <3>4
    <3>8. j \in 1..Len(all) /\ j < c
      BY <1>5, <1>9, <2>2, <3>6, <3>7
    <3>9. j \in at
      <4>1. all[j] = table[o[j]]
        BY <1>1, <3>8 DEF Lists
      <4> QED BY <1>5, <3>5, <3>8, <4>1
    <3>10. PICK i \in 1..(k - 1) : i = j - p + 1
      <4>1. p =< j /\ p \in Int /\ j \in Int /\ k \in Int
        BY <1>7, <1>9, <3>9
      <4>2. j - p + 1 \in Int /\ 1 =< j - p + 1 /\ j - p + 1 =< k - 1
        BY <2>1, <3>8, <4>1
      <4>3. j - p + 1 \in 1..(k - 1)
        BY <4>1, <4>2
      <4> QED BY <4>3
    <3>11. p + i - 1 = j
      BY <1>9, <3>10
    <3>12. q[i] = q[k] /\ i \in 1..m
      BY <1>5, <1>9, <1>14, <2>5, <3>4, <3>10, <3>11
    <3>13. i = k
      BY <1>4, <2>5, <3>12 DEF Lists
    <3> QED BY <1>9, <3>10, <3>13
  <2> QED BY <2>6, <2>7
<1>15. ASSUME NEW k \in 1..(r - p + 1) PROVE k =< m /\ q[k] = o[p + k - 1]
  <2> DEFINE Bad == {i \in 1..(r - p + 1) : ~(i =< m /\ q[i] = o[p + i - 1])}
  <2> SUFFICES ASSUME Bad # {} PROVE FALSE
    OBVIOUS
  <2>1. Bad \in SUBSET Nat
    BY <1>9
  <2>2. PICK i \in Bad : \A j \in Bad : i =< j
    <3> HIDE DEF Bad
    <3> QED BY <2>1, LeastNumber
  <2>3. \A l \in 1..(i - 1) : l \in 1..(r - p + 1) /\ l \notin Bad
    BY <1>9, <2>1, <2>2
  <2>4. \A l \in 1..(i - 1) : l =< m /\ q[l] = o[p + l - 1]
    BY <2>3
  <2> QED BY <1>14, <2>2, <2>4
<1>16. PICK s : s = SubSeq(all, p, r)
  OBVIOUS
<1> DEFINE X == {table[i] : i \in found}
<1>17. all \in Seq(X) /\ one \in Seq(X)
  <2>1. {table[i] : i \in same} \subseteq X
    OBVIOUS
  <2>2. one \in Seq({table[i] : i \in same})
    BY <1>4 DEF Lists
  <2>3. one \in Seq(X)
    BY <2>1, <2>2
  <2> QED BY <1>1, <2>3 DEF Lists
<1> HIDE DEF X
<1>18. /\ s \in Seq(X) /\ Len(s) = r - p + 1
       /\ \A i \in 1..(r - p + 1) : s[i] = all[p + i - 1]
  BY <1>9, <1>16, <1>17, StretchOf
<1>19. Len(s) =< Len(one)
  <2>1. r - p + 1 \in 1..(r - p + 1) /\ r - p + 1 =< Len(all)
    BY <1>5, <1>9
  <2>2. r - p + 1 =< m
    BY <1>15, <2>1
  <2>3. Len(all) =< QueryCeiling /\ (Len(one) = m \/ Len(one) = QueryCeiling)
    BY <1>1, <1>4 DEF Lists
  <2> QED BY <1>5, <1>9, <1>18, <2>1, <2>2, <2>3, StoreAssumption
<1>20. ASSUME NEW i \in 1..Len(s) PROVE s[i] = one[i]
  <2>1. i \in 1..(r - p + 1)
    BY <1>18
  <2>2. PICK c \in 1..Len(all) : c = p + i - 1
    BY <1>5, <1>9, <2>1
  <2>3. s[i] = table[o[c]]
    BY <1>1, <1>18, <2>1, <2>2 DEF Lists
  <2>4. q[i] = o[c]
    BY <1>15, <2>1, <2>2
  <2>5. i \in 1..Len(one)
    BY <1>5, <1>18, <1>19
  <2>6. one[i] = table[q[i]]
    BY <1>4, <2>5 DEF Lists
  <2> QED BY <2>3, <2>4, <2>6
<1>21. IsPrefix(s, one)
  BY <1>17, <1>18, <1>19, <1>20, PrefixByElements
<1> QED BY <1>3, <1>7, <1>8, <1>16, <1>21

-----------------------------------------------------------------------------
\* What the calls of a kind were given

\* Calls that were given rows of X
Calls(X) == [kind : {"readings", "intervals", "assignments", "equipment", "clear"}, rows : Seq(X)]

\* The steps that RowsOf() takes
GatheringSteps(kind, calls, X) ==
  [k \in 1..Len(calls) |-> [rows \in Seq(X) |-> Gathered(kind, rows, calls[k])]]

LEMMA GatheringIsIn ==
  ASSUME NEW X, NEW calls \in Seq(Calls(X)), NEW kind
  PROVE  StepsIn(GatheringSteps(kind, calls, X), Len(calls), Seq(X))
<1>1. ASSUME NEW k \in 1..Len(calls), NEW rows \in Seq(X)
      PROVE  Gathered(kind, rows, calls[k]) \in Seq(X)
  <2>0. calls[k] \in Calls(X)
    OBVIOUS
  <2>1. calls[k].rows \in Seq(X)
    BY <2>0 DEF Calls
  <2>2. rows \o calls[k].rows \in Seq(X) /\ <<>> \in Seq(X)
    BY <2>1
  <2> QED BY <2>2, Zenon DEF Gathered
<1> QED BY <1>1 DEF StepsIn, GatheringSteps

LEMMA RowsOfOutcome ==
  ASSUME NEW X, NEW calls \in Seq(Calls(X)), NEW kind
  PROVE  RowsOf(kind, calls) = OutcomeAfter(GatheringSteps(kind, calls, X), <<>>, Len(calls))
<1> DEFINE F == GatheringSteps(kind, calls, X)
           n == Len(calls)
           Rows(h) == h = [s \in SUBSET (DOMAIN calls) |->
                             IF s = {} THEN <<>>
                             ELSE Gathered(kind, h[s \ {Max(s)}], calls[Max(s)])]
<1>1. RowsOf(kind, calls) = (CHOOSE h : Rows(h))[DOMAIN calls]
  BY DEF RowsOf, FoldLeft, MapThenFoldSet
<1>2. n \in Nat /\ DOMAIN calls = 1..n
  OBVIOUS
<1>3. PICK g : g \in [SUBSET (1..n) -> Seq(X)] /\ Takings(F, <<>>, n, g)
  <2>1. StepsIn(F, n, Seq(X)) /\ <<>> \in Seq(X)
    BY GatheringIsIn
  <2> HIDE DEF F, n
  <2> QED BY <1>2, <2>1, TakingsExist
<1>4. ASSUME NEW s \in SUBSET (1..n), s # {}
      PROVE  /\ Max(s) \in s /\ s \ {Max(s)} \in SUBSET (1..n)
             /\ \A rows \in Seq(X) : F[Max(s)][rows] = Gathered(kind, rows, calls[Max(s)])
  <2>1. Max(s) \in s
    BY <1>2, <1>4, GreatestNumber
  <2> QED BY <2>1 DEF GatheringSteps
<1> HIDE DEF F, n
<1>5. ASSUME NEW s \in SUBSET (1..n)
      PROVE  g[s] = IF s = {} THEN <<>> ELSE Gathered(kind, g[s \ {Max(s)}], calls[Max(s)])
  <2>1. g[s] = IF s = {} THEN <<>> ELSE F[Max(s)][g[s \ {Max(s)}]]
    BY <1>3 DEF Takings
  <2>2. CASE s = {}
    BY <2>1, <2>2
  <2>3. CASE s # {}
    <3>1. g[s \ {Max(s)}] \in Seq(X)
      BY <1>3, <1>4, <2>3
    <3> QED BY <1>4, <2>1, <2>3, <3>1
  <2> QED BY <2>2, <2>3
<1>6. Rows(g)
  <2>1. g = [s \in SUBSET (1..n) |-> g[s]]
    BY <1>3
  <2> QED BY <1>2, <1>5, <2>1, Zenon
<1>7. PICK h : h = CHOOSE x : Rows(x)
  OBVIOUS
<1>8. Rows(h)
  BY <1>6, <1>7
<1> DEFINE D == {s \in SUBSET (1..n) : g[s] = h[s]}
<1>9. ASSUME NEW s \in SUBSET (1..n), \A u \in SUBSET s : u # s => u \in D
      PROVE  s \in D
  <2>1. CASE s = {}
    BY <1>2, <1>5, <1>8, <2>1
  <2>2. CASE s # {}
    <3>1. g[s \ {Max(s)}] = h[s \ {Max(s)}]
      BY <1>4, <1>9, <2>2
    <3>2. h[s] = Gathered(kind, h[s \ {Max(s)}], calls[Max(s)])
      BY <1>2, <1>8, <2>2
    <3> QED BY <1>5, <2>2, <3>1, <3>2
  <2> QED BY <2>1, <2>2
<1>10. \A s \in SUBSET (1..n) : s \in D
  <2>1. IsFiniteSet(1..n)
    BY <1>2, FS_Interval
  <2> HIDE DEF D
  <2> QED BY <1>9, <2>1, SubsetInduction
<1>11. g[1..n] = h[1..n]
  BY <1>10
<1>12. Takings(F, <<>>, n, g)
  BY <1>3
<1>13. OutcomeAfter(F, <<>>, n) = g[1..n]
  BY <1>2, <1>12, OutcomeOf
<1> QED BY <1>1, <1>2, <1>7, <1>11, <1>13 DEF F, n

\* A call more
LEMMA RowsOfAppend ==
  ASSUME NEW X, NEW calls \in Seq(Calls(X)), NEW call \in Calls(X), NEW kind
  PROVE  /\ RowsOf(kind, calls) \in Seq(X)
         /\ RowsOf(kind, Append(calls, call)) = Gathered(kind, RowsOf(kind, calls), call)
<1>1. PICK more : more = Append(calls, call)
  OBVIOUS
<1>2. PICK n, m : n = Len(calls) /\ m = Len(more)
  OBVIOUS
<1>3. /\ more \in Seq(Calls(X)) /\ n \in Nat /\ m = n + 1
      /\ more[m] = call /\ \A k \in 1..n : more[k] = calls[k]
  BY <1>1, <1>2
<1>4. PICK F, G : F = GatheringSteps(kind, calls, X) /\ G = GatheringSteps(kind, more, X)
  OBVIOUS
<1>5. StepsIn(F, n, Seq(X)) /\ StepsIn(G, m, Seq(X))
  BY <1>2, <1>3, <1>4, GatheringIsIn
<1>6. SameSteps(F, G, n)
  <2>1. \A k \in 1..n : k \in 1..m
    BY <1>3
  <2> QED BY <1>2, <1>3, <1>4, <2>1 DEF SameSteps, GatheringSteps
<1>7. <<>> \in Seq(X)
  OBVIOUS
<1>8. OutcomeAfter(F, <<>>, n) \in Seq(X) /\ OutcomeAfter(G, <<>>, m) = G[m][OutcomeAfter(F, <<>>, n)]
  <2>1. PICK A, base : A = Seq(X) /\ base = <<>>
    OBVIOUS
  <2>2. base \in A /\ StepsIn(F, n, A) /\ StepsIn(G, m, A) /\ n \in Nat /\ m = n + 1
    BY <1>3, <1>5, <1>7, <2>1
  <2>3. OutcomeAfter(F, base, n) \in A /\ OutcomeAfter(G, base, m) = G[m][OutcomeAfter(F, base, n)]
    BY <1>6, <2>2, NextOutcome
  <2> QED BY <2>1, <2>3
<1>9. RowsOf(kind, calls) = OutcomeAfter(F, <<>>, n) /\ RowsOf(kind, more) = OutcomeAfter(G, <<>>, m)
  BY <1>2, <1>3, <1>4, RowsOfOutcome
<1>10. \A rows \in Seq(X) : G[m][rows] = Gathered(kind, rows, call)
  <2>1. m \in 1..m
    BY <1>3
  <2> QED BY <1>2, <1>3, <1>4, <2>1 DEF GatheringSteps
<1> QED BY <1>1, <1>8, <1>9, <1>10

\* No call
LEMMA RowsOfNone ==
  ASSUME NEW kind
  PROVE  RowsOf(kind, <<>>) = <<>>
<1>0. <<>> \in Seq(Calls({}))
  OBVIOUS
<1>1. PICK calls, X : calls = <<>> /\ calls \in Seq(Calls(X))
  BY <1>0
<1>2. Len(calls) = 0
  BY <1>1
<1>3. PICK F : F = GatheringSteps(kind, calls, X)
  OBVIOUS
<1>4. RowsOf(kind, calls) = OutcomeAfter(F, <<>>, 0)
  BY <1>1, <1>2, <1>3, RowsOfOutcome
<1> QED BY <1>1, <1>4, NoOutcome

-----------------------------------------------------------------------------
\* Equipment: of a definition that is repeated the last one counts

\* Tables of equipment with rows of X
Tables(X) == UNION {[K -> X] : K \in SUBSET {row.asset : row \in X}}

\* The steps of upsert_equipments()
UpsertSteps(rows, A) ==
  [k \in 1..Len(rows) |-> [table \in A |-> Upserted(table, rows[k])]]

LEMMA UpsertedIsTable ==
  ASSUME NEW X, NEW table \in Tables(X), NEW row \in X
  PROVE  Upserted(table, row) \in Tables(X)
<1>1. PICK K \in SUBSET {r.asset : r \in X} : table \in [K -> X]
  BY DEF Tables
<1>2. K \cup {row.asset} \in SUBSET {r.asset : r \in X}
  OBVIOUS
<1>3. Upserted(table, row) \in [K \cup {row.asset} -> X]
  BY <1>1 DEF Upserted
<1> QED BY <1>2, <1>3 DEF Tables

LEMMA UpsertingIsIn ==
  ASSUME NEW X, NEW rows \in Seq(X)
  PROVE  StepsIn(UpsertSteps(rows, Tables(X)), Len(rows), Tables(X))
<1>1. \A k \in 1..Len(rows) : rows[k] \in X
  OBVIOUS
<1>2. PICK A : A = Tables(X)
  OBVIOUS
<1>3. \A k \in 1..Len(rows) : \A table \in A : Upserted(table, rows[k]) \in A
  BY <1>1, <1>2, UpsertedIsTable
<1>4. StepsIn(UpsertSteps(rows, A), Len(rows), A)
  BY <1>3 DEF StepsIn, UpsertSteps
<1> QED BY <1>2, <1>4

LEMMA UpsertOutcome ==
  ASSUME NEW X, NEW rows \in Seq(X), NEW base \in Tables(X)
  PROVE  FoldLeft(Upserted, base, rows)
           = OutcomeAfter(UpsertSteps(rows, Tables(X)), base, Len(rows))
<1> DEFINE F == UpsertSteps(rows, Tables(X))
           n == Len(rows)
           Made(h) == h = [s \in SUBSET (DOMAIN rows) |->
                             IF s = {} THEN base
                             ELSE Upserted(h[s \ {Max(s)}], rows[Max(s)])]
<1>1. FoldLeft(Upserted, base, rows) = (CHOOSE h : Made(h))[DOMAIN rows]
  BY DEF FoldLeft, MapThenFoldSet
<1>2. n \in Nat /\ DOMAIN rows = 1..n
  OBVIOUS
<1>3. PICK g : g \in [SUBSET (1..n) -> Tables(X)] /\ Takings(F, base, n, g)
  <2>1. StepsIn(F, n, Tables(X))
    BY UpsertingIsIn
  <2> HIDE DEF F, n
  <2> QED BY <1>2, <2>1, TakingsExist
<1>4. ASSUME NEW s \in SUBSET (1..n), s # {}
      PROVE  /\ Max(s) \in s /\ s \ {Max(s)} \in SUBSET (1..n)
             /\ \A t \in Tables(X) : F[Max(s)][t] = Upserted(t, rows[Max(s)])
  <2>1. Max(s) \in s
    BY <1>2, <1>4, GreatestNumber
  <2> QED BY <2>1 DEF UpsertSteps
<1> HIDE DEF F, n
<1>5. ASSUME NEW s \in SUBSET (1..n)
      PROVE  g[s] = IF s = {} THEN base ELSE Upserted(g[s \ {Max(s)}], rows[Max(s)])
  <2>1. g[s] = IF s = {} THEN base ELSE F[Max(s)][g[s \ {Max(s)}]]
    BY <1>3 DEF Takings
  <2>2. CASE s = {}
    BY <2>1, <2>2
  <2>3. CASE s # {}
    <3>1. g[s \ {Max(s)}] \in Tables(X)
      BY <1>3, <1>4, <2>3
    <3> QED BY <1>4, <2>1, <2>3, <3>1
  <2> QED BY <2>2, <2>3
<1>6. Made(g)
  <2>1. g = [s \in SUBSET (1..n) |-> g[s]]
    BY <1>3
  <2> QED BY <1>2, <1>5, <2>1, Zenon
<1>7. PICK h : h = CHOOSE x : Made(x)
  OBVIOUS
<1>8. Made(h)
  BY <1>6, <1>7
<1> DEFINE D == {s \in SUBSET (1..n) : g[s] = h[s]}
<1>9. ASSUME NEW s \in SUBSET (1..n), \A u \in SUBSET s : u # s => u \in D
      PROVE  s \in D
  <2>1. CASE s = {}
    BY <1>2, <1>5, <1>8, <2>1
  <2>2. CASE s # {}
    <3>1. g[s \ {Max(s)}] = h[s \ {Max(s)}]
      BY <1>4, <1>9, <2>2
    <3>2. h[s] = Upserted(h[s \ {Max(s)}], rows[Max(s)])
      BY <1>2, <1>8, <2>2
    <3> QED BY <1>5, <2>2, <3>1, <3>2
  <2> QED BY <2>1, <2>2
<1>10. \A s \in SUBSET (1..n) : s \in D
  <2>1. IsFiniteSet(1..n)
    BY <1>2, FS_Interval
  <2> HIDE DEF D
  <2> QED BY <1>9, <2>1, SubsetInduction
<1>11. g[1..n] = h[1..n]
  BY <1>10
<1>12. Takings(F, base, n, g)
  BY <1>3
<1>13. OutcomeAfter(F, base, n) = g[1..n]
  BY <1>2, <1>12, OutcomeOf
<1> QED BY <1>1, <1>2, <1>7, <1>11, <1>13 DEF F, n

\* The table has the last of the definitions of every asset, and no other.
IsLastOf(table, defs) ==
  /\ DOMAIN table = {defs[i].asset : i \in DOMAIN defs}
  /\ \A i \in DOMAIN defs :
       \/ table[defs[i].asset] = defs[i]
       \/ \E j \in (i + 1)..Len(defs) : defs[j].asset = defs[i].asset

LEMMA UpsertedIsLast ==
  ASSUME NEW X, NEW table, NEW defs \in Seq(X), IsLastOf(table, defs), NEW row \in X
  PROVE  IsLastOf(Upserted(table, row), Append(defs, row))
<1>1. PICK more, new : more = Append(defs, row) /\ new = Upserted(table, row)
  OBVIOUS
<1>2. PICK n, m \in Nat : n = Len(defs) /\ m = Len(more) /\ m = n + 1
  BY <1>1
<1>3. /\ DOMAIN defs = 1..n /\ DOMAIN more = 1..m /\ more[m] = row
      /\ \A i \in 1..n : more[i] = defs[i] /\ i \in 1..m
  BY <1>1, <1>2
<1>4. /\ DOMAIN new = DOMAIN table \cup {row.asset}
      /\ \A a \in DOMAIN new : new[a] = IF a = row.asset THEN row ELSE table[a]
  BY <1>1 DEF Upserted
<1>5. DOMAIN new = {more[i].asset : i \in 1..m}
  <2>1. DOMAIN table = {more[i].asset : i \in 1..n}
    BY <1>3 DEF IsLastOf
  <2>2. 1..m = (1..n) \cup {m}
    BY <1>2
  <2> QED BY <1>3, <1>4, <2>1, <2>2
<1>6. ASSUME NEW i \in 1..m
      PROVE  \/ new[more[i].asset] = more[i]
             \/ \E j \in (i + 1)..m : more[j].asset = more[i].asset
  <2>1. more[i].asset \in DOMAIN new
    BY <1>5
  <2>2. CASE i = m
    BY <1>3, <1>4, <2>1, <2>2
  <2>3. CASE i # m /\ more[i].asset = row.asset
    <3>1. m \in (i + 1)..m
      BY <2>3
    <3> QED BY <1>3, <2>3, <3>1
  <2>4. CASE i # m /\ more[i].asset # row.asset
    <3>1. i \in 1..n /\ more[i] = defs[i]
      BY <1>2, <1>3, <2>4
    <3>2. CASE table[defs[i].asset] = defs[i]
      BY <1>4, <2>1, <2>4, <3>1, <3>2
    <3>3. CASE \E j \in (i + 1)..n : defs[j].asset = defs[i].asset
      <4>1. PICK j \in (i + 1)..n : defs[j].asset = defs[i].asset
        BY <3>3
      <4>2. j \in 1..n /\ j \in (i + 1)..m
        BY <1>2, <3>1
      <4>3. more[j] = defs[j]
        BY <1>3, <4>2
      <4>4. more[j].asset = more[i].asset
        BY <3>1, <4>1, <4>3
      <4> QED BY <4>2, <4>4
    <3> QED BY <1>2, <1>3, <3>1, <3>2, <3>3 DEF IsLastOf
  <2> QED BY <2>2, <2>3, <2>4
<1> QED BY <1>1, <1>2, <1>3, <1>5, <1>6 DEF IsLastOf

\* After a batch the table has the last of what was defined before and by the batch.
LEMMA UpsertsAreLast ==
  ASSUME NEW Y, NEW X \in SUBSET Y, NEW table \in Tables(X), NEW defs \in Seq(Y),
         IsLastOf(table, defs), NEW rows \in Seq(X)
  PROVE  /\ FoldLeft(Upserted, table, rows) \in Tables(X)
         /\ IsLastOf(FoldLeft(Upserted, table, rows), defs \o rows)
<1> DEFINE n == Len(rows)
           F == UpsertSteps(rows, Tables(X))
           at(k) == OutcomeAfter(F, table, k)
           D == {k \in 0..n : IsLastOf(at(k), defs \o SubSeq(rows, 1, k))}
<1>1. n \in Nat /\ \A k \in 1..n : rows[k] \in X
  OBVIOUS
<1>2. StepsIn(F, n, Tables(X))
  BY UpsertingIsIn
<1>3. /\ at(0) = table
      /\ \A k \in 0..n : at(k) \in Tables(X) /\ (k # n => at(k + 1) = F[k + 1][at(k)])
  <2> HIDE DEF F, n
  <2> QED BY <1>1, <1>2, NoOutcome, EveryOutcome
<1>4. ASSUME NEW k \in 0..(n - 1) PROVE at(k + 1) = Upserted(at(k), rows[k + 1])
  <2>1. at(k + 1) = F[k + 1][at(k)] /\ at(k) \in Tables(X) /\ k + 1 \in 1..n
    BY <1>3
  <2> HIDE DEF at
  <2> QED BY <2>1 DEF UpsertSteps
<1> HIDE DEF F
<1>5. 0 \in D
  <2>1. SubSeq(rows, 1, 0) = <<>>
    OBVIOUS
  <2>2. defs \o <<>> = defs
    OBVIOUS
  <2>3. IsLastOf(at(0), defs \o SubSeq(rows, 1, 0))
    <3> HIDE DEF at
    <3> QED BY <1>3, <2>1, <2>2
  <2>4. 0 \in 0..n
    BY <1>1
  <2> QED BY <2>3, <2>4
<1>6. ASSUME NEW k \in 0..(n - 1), k \in D PROVE k + 1 \in D
  <2>1. PICK m \in 1..n : m = k + 1
    OBVIOUS
  <2>2. PICK old, new : old = defs \o SubSeq(rows, 1, k) /\ new = defs \o SubSeq(rows, 1, m)
    OBVIOUS
  <2>3. old \in Seq(Y) /\ new = Append(old, rows[m])
    <3>1. SubSeq(rows, 1, k) \in Seq(Y)
      <4>1. k \in Nat /\ k =< Len(rows)
        OBVIOUS
      <4>2. rows \in Seq(Y)
        OBVIOUS
      <4> HIDE DEF D, at, n
      <4> QED BY <4>1, <4>2, BeginningOf
    <3>2. SubSeq(rows, 1, m) = Append(SubSeq(rows, 1, k), rows[m])
      BY <2>1
    <3>3. \A s, t \in Seq(Y) : \A x \in Y : s \o Append(t, x) = Append(s \o t, x)
      OBVIOUS
    <3>4. PICK t : t = SubSeq(rows, 1, k)
      OBVIOUS
    <3>5. t \in Seq(Y) /\ old = defs \o t /\ new = defs \o Append(t, rows[m])
      BY <2>2, <3>1, <3>2, <3>4
    <3>6. rows[m] \in Y
      BY <1>1
    <3> HIDE DEF D, at, n
    <3>7. old \in Seq(Y)
      BY <3>5
    <3>8. new = Append(defs \o t, rows[m])
      BY <3>3, <3>5, <3>6
    <3> QED BY <3>5, <3>7, <3>8
  <2>4. IsLastOf(at(k), old)
    BY <1>6, <2>2
  <2>5. IsLastOf(Upserted(at(k), rows[m]), new)
    <3> HIDE DEF at, n, D
    <3>1. rows[m] \in Y
      BY <1>1
    <3> QED BY <2>3, <2>4, <3>1, UpsertedIsLast
  <2> QED BY <1>4, <2>1, <2>2, <2>5
<1>7. n \in D
  <2>1. n \in 0..n
    BY <1>1
  <2> HIDE DEF D, n
  <2> QED BY <1>1, <1>5, <1>6, <2>1, UpTo
<1>8. SubSeq(rows, 1, n) = rows
  OBVIOUS
<1>9. FoldLeft(Upserted, table, rows) = at(n)
  BY UpsertOutcome DEF F
<1> QED BY <1>1, <1>3, <1>7, <1>8, <1>9

-----------------------------------------------------------------------------
\* The bars of readings

\* Readings as the table has them
Measured(rs) ==
  \A i \in DOMAIN rs : rs[i].when \in Int /\ rs[i].figure \in Int /\ rs[i].samples \in Int

\* A bar that is opened describes the reading that opens it,
LEMMA OpenedDescribes ==
  ASSUME NEW rs, Measured(rs), NEW i \in DOMAIN rs,
         NEW bar, bar = [open |-> rs[i].figure, high |-> rs[i].figure, low |-> rs[i].figure,
                         close |-> rs[i].figure, samples |-> rs[i].samples]
  PROVE  Describes(bar, rs, {i})
<1>1. PICK f, w \in Int : f = rs[i].figure /\ w = rs[i].when
  BY DEF Measured
<1>2. {rs[x].figure : x \in {i}} = {f} /\ {rs[x].when : x \in {i}} = {w}
  BY <1>1
<1>3. Max({f}) = f /\ Min({f}) = f /\ Max({w}) = w /\ Min({w}) = w
  BY OnlyOne
<1>4. SumFunctionOnSet([x \in DOMAIN rs |-> rs[x].samples], {i}) = rs[i].samples
  <2> DEFINE h == [x \in DOMAIN rs |-> rs[x].samples]
  <2>1. h[i] = rs[i].samples /\ h[i] \in Int
    BY DEF Measured
  <2>2. \A y \in {} \cup {i} : h[y] \in Int
    BY <2>1
  <2> HIDE DEF h
  <2>3. SumFunctionOnSet(h, {} \cup {i}) = h[i] + SumFunctionOnSet(h, {})
    <3>1. IsFiniteSet({}) /\ i \notin {}
      BY FS_EmptySet
    <3> QED BY <2>2, <3>1, SumInsert
  <2>4. SumFunctionOnSet(h, {}) = 0
    BY SumEmpty
  <2>5. {} \cup {i} = {i}
    OBVIOUS
  <2>6. SumFunctionOnSet(h, {i}) = h[i]
    BY <2>1, <2>3, <2>4, <2>5
  <2> QED BY <2>1, <2>6 DEF h
<1>5. /\ bar.open = f /\ bar.close = f /\ bar.high = f /\ bar.low = f
      /\ bar.samples = rs[i].samples
  BY <1>1
<1>6. /\ f \in {rs[x].figure : x \in {j \in {i} : rs[j].when = Min({rs[y].when : y \in {i}})}}
      /\ f \in {rs[x].figure : x \in {j \in {i} : rs[j].when = Max({rs[y].when : y \in {i}})}}
  BY <1>1, <1>2, <1>3
<1> QED BY <1>2, <1>3, <1>4, <1>5, <1>6, Zenon DEF Describes

\* and one that absorbs a later reading describes what it did and that.
LEMMA AbsorbedDescribes ==
  ASSUME NEW rs, Measured(rs), NEW part \in SUBSET (DOMAIN rs), IsFiniteSet(part), part # {},
         NEW bar, Describes(bar, rs, part),
         NEW i \in DOMAIN rs, i \notin part, \A x \in part : rs[x].when =< rs[i].when,
         NEW new, new = [open |-> bar.open,
                         high |-> Max({bar.high, rs[i].figure}),
                         low |-> Min({bar.low, rs[i].figure}),
                         close |-> rs[i].figure, samples |-> bar.samples + rs[i].samples]
  PROVE  Describes(new, rs, part \cup {i})
<1> DEFINE figures == {rs[x].figure : x \in part}
           whens == {rs[x].when : x \in part}
<1>1. PICK f, w \in Int : f = rs[i].figure /\ w = rs[i].when
  BY DEF Measured
<1>2. /\ {rs[x].figure : x \in part \cup {i}} = figures \cup {f}
      /\ {rs[x].when : x \in part \cup {i}} = whens \cup {w}
  BY <1>1
<1>3. IsFiniteSet(figures) /\ figures # {} /\ figures \subseteq Int
  <2>1. PICK h : h = [x \in part |-> rs[x].figure]
    OBVIOUS
  <2>2. IsFiniteSet({h[x] : x \in part})
    BY FiniteImage
  <2>3. figures = {h[x] : x \in part}
    BY <2>1
  <2> QED BY <2>2, <2>3 DEF Measured
<1>4. IsFiniteSet(whens) /\ whens # {} /\ whens \subseteq Int
  <2>1. PICK h : h = [x \in part |-> rs[x].when]
    OBVIOUS
  <2>2. IsFiniteSet({h[x] : x \in part})
    BY FiniteImage
  <2>3. whens = {h[x] : x \in part}
    BY <2>1
  <2> QED BY <2>2, <2>3 DEF Measured
<1>5. \A x \in whens : x =< w
  BY <1>1
<1>6. /\ bar.high = Max(figures) /\ bar.low = Min(figures)
      /\ bar.samples = SumFunctionOnSet([x \in DOMAIN rs |-> rs[x].samples], part)
      /\ bar.open \in {rs[x].figure : x \in {j \in part : rs[j].when = Min(whens)}}
  BY DEF Describes
<1>7. /\ new.open = bar.open /\ new.close = f
      /\ new.high = Max({bar.high, f}) /\ new.low = Min({bar.low, f})
      /\ new.samples = bar.samples + rs[i].samples
  BY <1>1
<1> HIDE DEF figures, whens
<1>8. new.high = Max(figures \cup {f}) /\ new.low = Min(figures \cup {f})
  <2>1. Max(figures \cup {f}) = Max({Max(figures), f})
    BY <1>3, GreatestOfMore
  <2>2. Min(figures \cup {f}) = Min({Min(figures), f})
    BY <1>3, LeastOfMore
  <2>3. new.high = Max({bar.high, f}) /\ bar.high = Max(figures)
    BY <1>6, <1>7
  <2>4. new.low = Min({bar.low, f}) /\ bar.low = Min(figures)
    BY <1>6, <1>7
  <2> QED BY <2>1, <2>2, <2>3, <2>4, Zenon
<1>9. Max(whens \cup {w}) = w /\ Min(whens \cup {w}) = Min(whens)
  <2>1. Max(whens \cup {w}) = Max({Max(whens), w}) /\ Min(whens \cup {w}) = Min({Min(whens), w})
    BY <1>4, GreatestOfMore, LeastOfMore
  <2>2. PICK p, q \in Int : p = Max(whens) /\ q = Min(whens) /\ p =< w /\ q =< w
    <3>1. Max(whens) \in whens /\ Min(whens) \in whens
      BY <1>4, GreatestOf, LeastOf
    <3> QED BY <1>4, <1>5, <3>1
  <2>3. Max({p, w}) = w
    BY <2>2, GreaterOfTwo
  <2>4. Min({q, w}) = q
    BY <2>2, LesserOfTwo
  <2> QED BY <2>1, <2>2, <2>3, <2>4
<1>10. new.samples = SumFunctionOnSet([x \in DOMAIN rs |-> rs[x].samples], part \cup {i})
  <2> DEFINE h == [x \in DOMAIN rs |-> rs[x].samples]
  <2>1. \A y \in part \cup {i} : h[y] \in Int
    BY DEF Measured
  <2>2. h[i] = rs[i].samples
    OBVIOUS
  <2>3. bar.samples = SumFunctionOnSet(h, part)
    BY <1>6
  <2> HIDE DEF h
  <2>4. SumFunctionOnSet(h, part \cup {i}) = h[i] + SumFunctionOnSet(h, part)
    BY <2>1, SumInsert
  <2>5. PICK a, b \in Int : a = h[i] /\ b = SumFunctionOnSet(h, part)
    <3>1. h[i] \in Int
      BY <2>1
    <3>2. SumFunctionOnSet(h, part) \in Int
      <4>1. \A y \in part : h[y] \in Int
        BY <2>1
      <4> QED BY <4>1, SumRemove
    <3> QED BY <3>1, <3>2
  <2>6. SumFunctionOnSet(h, part \cup {i}) = new.samples
    BY <1>7, <2>2, <2>3, <2>4, <2>5
  <2> QED BY <2>6 DEF h
<1>11. new.open \in {rs[x].figure :
                       x \in {j \in part \cup {i} : rs[j].when = Min(whens \cup {w})}}
  BY <1>6, <1>7, <1>9
<1>12. new.close \in {rs[x].figure :
                        x \in {j \in part \cup {i} : rs[j].when = Max(whens \cup {w})}}
  BY <1>1, <1>7, <1>9
<1>13. Describes(new, rs, part \cup {i})
       <=> /\ new.high = Max({rs[x].figure : x \in part \cup {i}})
           /\ new.low = Min({rs[x].figure : x \in part \cup {i}})
           /\ new.samples = SumFunctionOnSet([x \in DOMAIN rs |-> rs[x].samples], part \cup {i})
           /\ new.open \in {rs[x].figure :
                x \in {j \in part \cup {i} : rs[j].when = Min({rs[y].when : y \in part \cup {i}})}}
           /\ new.close \in {rs[x].figure :
                x \in {j \in part \cup {i} : rs[j].when = Max({rs[y].when : y \in part \cup {i}})}}
  BY DEF Describes
<1> QED BY <1>2, <1>8, <1>10, <1>11, <1>12, <1>13

\* Sets of readings as the table has them, and of tables of bars over their buckets
MeasuredRows(R) == \A r \in R : r.when \in Int /\ r.figure \in Int /\ r.samples \in Int
BarRecords == [open : Int, high : Int, low : Int, close : Int, samples : Int]
BarTables(R) == UNION {[K -> BarRecords] : K \in SUBSET {Bucket(r) : r \in R}}

\* What becomes of the bar of a bucket
NewBar(bars, r) ==
  IF Bucket(r) \in DOMAIN bars
  THEN [open |-> bars[Bucket(r)].open,
        high |-> Max({bars[Bucket(r)].high, r.figure}),
        low |-> Min({bars[Bucket(r)].low, r.figure}),
        close |-> r.figure, samples |-> bars[Bucket(r)].samples + r.samples]
  ELSE [open |-> r.figure, high |-> r.figure, low |-> r.figure,
        close |-> r.figure, samples |-> r.samples]

LEMMA AbsorbedIs ==
  ASSUME NEW bars, NEW r
  PROVE  Absorbed(bars, r) = [k \in DOMAIN bars \cup {Bucket(r)} |->
                                IF k = Bucket(r) THEN NewBar(bars, r) ELSE bars[k]]
BY Zenon DEF Absorbed, NewBar

LEMMA AbsorbedIsTable ==
  ASSUME NEW R, MeasuredRows(R), NEW bars \in BarTables(R), NEW r \in R
  PROVE  Absorbed(bars, r) \in BarTables(R)
<1>1. PICK K \in SUBSET {Bucket(x) : x \in R} : bars \in [K -> BarRecords]
  BY DEF BarTables
<1>2. PICK key : key = Bucket(r)
  OBVIOUS
<1>3. NewBar(bars, r) \in BarRecords
  <2>1. PICK f, n \in Int : f = r.figure /\ n = r.samples
    BY DEF MeasuredRows
  <2>2. CASE key \in DOMAIN bars
    <3>1. bars[key] \in BarRecords
      BY <1>1, <2>2
    <3>2. PICK h, l \in Int : h = bars[key].high /\ l = bars[key].low
      BY <3>1 DEF BarRecords
    <3>3. Max({h, f}) \in Int /\ Min({l, f}) \in Int
      BY GreaterOfTwo, LesserOfTwo
    <3>4. NewBar(bars, r) = [open |-> bars[key].open, high |-> Max({h, f}), low |-> Min({l, f}),
                             close |-> f, samples |-> bars[key].samples + n]
      BY <1>2, <2>1, <2>2, <3>2 DEF NewBar
    <3>5. bars[key].open \in Int /\ bars[key].samples + n \in Int
      BY <3>1 DEF BarRecords
    <3> QED BY <3>3, <3>4, <3>5 DEF BarRecords
  <2>3. CASE key \notin DOMAIN bars
    <3>1. NewBar(bars, r) = [open |-> f, high |-> f, low |-> f, close |-> f, samples |-> n]
      BY <1>2, <2>1, <2>3 DEF NewBar
    <3> QED BY <3>1 DEF BarRecords
  <2> QED BY <2>2, <2>3
<1>4. Absorbed(bars, r) = [k \in K \cup {key} |-> IF k = key THEN NewBar(bars, r) ELSE bars[k]]
  BY <1>1, <1>2, AbsorbedIs
<1>5. K \cup {key} \in SUBSET {Bucket(x) : x \in R}
  BY <1>2
<1>6. \A k \in K : bars[k] \in BarRecords
  BY <1>1
<1>7. Absorbed(bars, r) \in [K \cup {key} -> BarRecords]
  BY <1>3, <1>4, <1>6
<1> QED BY <1>5, <1>7 DEF BarTables

\* The steps of readings_to_intervals()
AbsorbSteps(rs, A) == [k \in 1..Len(rs) |-> [bars \in A |-> Absorbed(bars, rs[k])]]

LEMMA AbsorbingIsIn ==
  ASSUME NEW R, MeasuredRows(R), NEW rs \in Seq(R)
  PROVE  StepsIn(AbsorbSteps(rs, BarTables(R)), Len(rs), BarTables(R))
<1>1. \A k \in 1..Len(rs) : rs[k] \in R
  OBVIOUS
<1>2. PICK A : A = BarTables(R)
  OBVIOUS
<1>3. \A k \in 1..Len(rs) : \A bars \in A : Absorbed(bars, rs[k]) \in A
  BY <1>1, <1>2, AbsorbedIsTable
<1>4. StepsIn(AbsorbSteps(rs, A), Len(rs), A)
  BY <1>3 DEF StepsIn, AbsorbSteps
<1> QED BY <1>2, <1>4

\* No reading
LEMMA NoBars ==
  ASSUME NEW R
  PROVE  <<>> \in BarTables(R)
<1>1. {} \in SUBSET {Bucket(r) : r \in R}
  OBVIOUS
<1>2. <<>> \in [{} -> BarRecords]
  OBVIOUS
<1> QED BY <1>1, <1>2 DEF BarTables

LEMMA BarsOutcome ==
  ASSUME NEW R, MeasuredRows(R), NEW rs \in Seq(R)
  PROVE  FoldLeft(Absorbed, <<>>, rs)
           = OutcomeAfter(AbsorbSteps(rs, BarTables(R)), <<>>, Len(rs))
<1> DEFINE F == AbsorbSteps(rs, BarTables(R))
           n == Len(rs)
           Made(h) == h = [s \in SUBSET (DOMAIN rs) |->
                             IF s = {} THEN <<>>
                             ELSE Absorbed(h[s \ {Max(s)}], rs[Max(s)])]
<1>1. FoldLeft(Absorbed, <<>>, rs) = (CHOOSE h : Made(h))[DOMAIN rs]
  BY DEF FoldLeft, MapThenFoldSet
<1>2. n \in Nat /\ DOMAIN rs = 1..n
  OBVIOUS
<1>3. PICK g : g \in [SUBSET (1..n) -> BarTables(R)] /\ Takings(F, <<>>, n, g)
  <2>1. StepsIn(F, n, BarTables(R)) /\ <<>> \in BarTables(R)
    BY AbsorbingIsIn, NoBars
  <2> HIDE DEF F, n
  <2> QED BY <1>2, <2>1, TakingsExist
<1>4. ASSUME NEW s \in SUBSET (1..n), s # {}
      PROVE  /\ Max(s) \in s /\ s \ {Max(s)} \in SUBSET (1..n)
             /\ \A t \in BarTables(R) : F[Max(s)][t] = Absorbed(t, rs[Max(s)])
  <2>1. Max(s) \in s
    BY <1>2, <1>4, GreatestNumber
  <2> QED BY <2>1 DEF AbsorbSteps
<1> HIDE DEF F, n
<1>5. ASSUME NEW s \in SUBSET (1..n)
      PROVE  g[s] = IF s = {} THEN <<>> ELSE Absorbed(g[s \ {Max(s)}], rs[Max(s)])
  <2>1. g[s] = IF s = {} THEN <<>> ELSE F[Max(s)][g[s \ {Max(s)}]]
    BY <1>3 DEF Takings
  <2>2. CASE s = {}
    BY <2>1, <2>2
  <2>3. CASE s # {}
    <3>1. g[s \ {Max(s)}] \in BarTables(R)
      BY <1>3, <1>4, <2>3
    <3> QED BY <1>4, <2>1, <2>3, <3>1
  <2> QED BY <2>2, <2>3
<1>6. Made(g)
  <2>1. g = [s \in SUBSET (1..n) |-> g[s]]
    BY <1>3
  <2> QED BY <1>2, <1>5, <2>1, Zenon
<1>7. PICK h : h = CHOOSE x : Made(x)
  OBVIOUS
<1>8. Made(h)
  BY <1>6, <1>7
<1> DEFINE D == {s \in SUBSET (1..n) : g[s] = h[s]}
<1>9. ASSUME NEW s \in SUBSET (1..n), \A u \in SUBSET s : u # s => u \in D
      PROVE  s \in D
  <2>1. CASE s = {}
    BY <1>2, <1>5, <1>8, <2>1
  <2>2. CASE s # {}
    <3>1. g[s \ {Max(s)}] = h[s \ {Max(s)}]
      BY <1>4, <1>9, <2>2
    <3>2. h[s] = Absorbed(h[s \ {Max(s)}], rs[Max(s)])
      BY <1>2, <1>8, <2>2
    <3> QED BY <1>5, <2>2, <3>1, <3>2
  <2> QED BY <2>1, <2>2
<1>10. \A s \in SUBSET (1..n) : s \in D
  <2>1. IsFiniteSet(1..n)
    BY <1>2, FS_Interval
  <2> HIDE DEF D
  <2> QED BY <1>9, <2>1, SubsetInduction
<1>11. g[1..n] = h[1..n]
  BY <1>10
<1>12. Takings(F, <<>>, n, g)
  BY <1>3
<1>13. OutcomeAfter(F, <<>>, n) = g[1..n]
  BY <1>2, <1>12, OutcomeOf
<1> QED BY <1>1, <1>2, <1>7, <1>11, <1>13 DEF F, n

\* The sequence c has the readings rs in chronological order, which is o.
InOrder(rs, c, o, n) ==
  /\ o \in [1..n -> 1..n]
  /\ \A j, k \in 1..n : j < k => rs[o[j]].when =< rs[o[k]].when
  /\ \A j, k \in 1..n : o[j] = o[k] => j = k
  /\ \A i \in 1..n : \E k \in 1..n : o[k] = i
  /\ Len(c) = n /\ \A k \in 1..n : c[k] = rs[o[k]]

LEMMA ChronologicalRight ==
  ASSUME NEW R, MeasuredRows(R), NEW rs \in Seq(R), NEW n, n = Len(rs)
  PROVE  /\ Chronological(rs) \in Seq(R)
         /\ \E o : InOrder(rs, Chronological(rs), o, n)
<1> DEFINE b == Earlier(rs)
<1>1. n \in Nat /\ DOMAIN rs = 1..n /\ Cardinality(1..n) = n /\ IsFiniteSet(1..n)
  <2>1. n \in Nat /\ DOMAIN rs = 1..n
    OBVIOUS
  <2>2. PICK m \in Nat : m = n
    BY <2>1
  <2>3. Cardinality(1..m) = m /\ IsFiniteSet(1..m)
    BY FirstNumbers
  <2> QED BY <2>1, <2>2, <2>3
<1>2. \A i \in 1..n : rs[i].when \in Int /\ i \in Int /\ rs[i] \in R
  BY <1>1 DEF MeasuredRows
<1>3. \A i, j \in 1..n : <<i, j>> \in b <=> \/ rs[i].when < rs[j].when
                                            \/ rs[i].when = rs[j].when /\ i < j
  BY <1>1 DEF Earlier
<1> HIDE DEF b
<1>4. StrictlyOrders(b, 1..n)
  <2>1. \A x \in 1..n : <<x, x>> \notin b
    BY <1>2, <1>3
  <2>2. ASSUME NEW x \in 1..n, NEW y \in 1..n PROVE x = y \/ <<x, y>> \in b \/ <<y, x>> \in b
    <3>1. PICK i, j \in Int : i = rs[x].when /\ j = rs[y].when
      BY <1>2
    <3>2. (i < j \/ i = j \/ j < i) /\ (x < y \/ x = y \/ y < x)
      OBVIOUS
    <3> QED BY <1>3, <3>1, <3>2
  <2>3. ASSUME NEW x \in 1..n, NEW y \in 1..n, NEW z \in 1..n, <<x, y>> \in b, <<y, z>> \in b
        PROVE  <<x, z>> \in b
    <3>1. PICK i, j, k \in Int : i = rs[x].when /\ j = rs[y].when /\ k = rs[z].when
      BY <1>2
    <3>2. (i < j \/ (i = j /\ x < y)) /\ (j < k \/ (j = k /\ y < z))
      BY <1>3, <2>3, <3>1
    <3>3. i < k \/ (i = k /\ x < z)
      BY <1>2, <3>2
    <3> QED BY <1>3, <3>1, <3>3
  <2> QED BY <2>1, <2>2, <2>3 DEF StrictlyOrders
<1>5. PICK o : o = Arranged(1..n, b)
  OBVIOUS
<1>6. /\ o \in [1..n -> 1..n]
      /\ \A j, k \in 1..n : j < k => <<o[j], o[k]>> \in b
      /\ \A j, k \in 1..n : o[j] = o[k] => j = k
      /\ \A i \in 1..n : \E k \in 1..n : o[k] = i
  <2>1. PICK S : S = 1..n
    OBVIOUS
  <2>2. IsFiniteSet(S) /\ StrictlyOrders(b, S) /\ o = Arranged(S, b) /\ n = Cardinality(S)
    BY <1>1, <1>4, <1>5, <2>1
  <2>3. /\ o \in [1..n -> S]
        /\ \A j, k \in 1..n : j < k => <<o[j], o[k]>> \in b
        /\ \A j, k \in 1..n : o[j] = o[k] => j = k
        /\ \A x \in S : \E k \in 1..n : o[k] = x
    BY <2>2, ArrangedRight
  <2> QED BY <2>1, <2>3
<1>7. ASSUME NEW j \in 1..n, NEW k \in 1..n, j < k PROVE rs[o[j]].when =< rs[o[k]].when
  <2>1. o[j] \in 1..n /\ o[k] \in 1..n /\ <<o[j], o[k]>> \in b
    BY <1>6, <1>7
  <2>2. PICK x, y \in Int : x = rs[o[j]].when /\ y = rs[o[k]].when
    BY <1>2, <2>1
  <2>3. x < y \/ x = y
    BY <1>3, <2>1, <2>2
  <2> QED BY <2>2, <2>3
<1>8. Chronological(rs) = [k \in 1..n |-> rs[o[k]]]
  BY <1>1, <1>5 DEF Chronological, b
<1>9. \A k \in 1..n : rs[o[k]] \in R
  BY <1>2, <1>6
<1>10. Chronological(rs) \in [1..n -> R]
  BY <1>8, <1>9
<1>11. Chronological(rs) \in Seq(R) /\ Len(Chronological(rs)) = n
  BY <1>1, <1>10
<1>12. \A k \in 1..n : Chronological(rs)[k] = rs[o[k]]
  BY <1>8
<1>13. InOrder(rs, Chronological(rs), o, n)
  BY <1>6, <1>7, <1>11, <1>12 DEF InOrder
<1> QED BY <1>11, <1>13

\* The bars are those of the readings at the indices in part.
BarsOf(bars, rs, part) ==
  /\ DOMAIN bars = {Bucket(rs[i]) : i \in part}
  /\ \A key \in DOMAIN bars : Describes(bars[key], rs, {i \in part : Bucket(rs[i]) = key})

\* A reading that is not earlier keeps it so.
LEMMA AbsorbedBars ==
  ASSUME NEW rs, Measured(rs), NEW part \in SUBSET (DOMAIN rs), IsFiniteSet(part),
         NEW bars, BarsOf(bars, rs, part),
         NEW i \in DOMAIN rs, i \notin part, \A x \in part : rs[x].when =< rs[i].when
  PROVE  BarsOf(Absorbed(bars, rs[i]), rs, part \cup {i})
<1> DEFINE inside(k, p) == {x \in p : Bucket(rs[x]) = k}
<1>1. PICK key, new, bar : /\ key = Bucket(rs[i]) /\ new = Absorbed(bars, rs[i])
                           /\ bar = NewBar(bars, rs[i])
  OBVIOUS
<1>2. new = [k \in DOMAIN bars \cup {key} |-> IF k = key THEN bar ELSE bars[k]]
  BY <1>1, AbsorbedIs
<1>3. DOMAIN new = {Bucket(rs[x]) : x \in part \cup {i}}
  BY <1>1, <1>2 DEF BarsOf
<1>4. ASSUME NEW k \in DOMAIN new, k # key
      PROVE  Describes(new[k], rs, inside(k, part \cup {i}))
  <2>1. k \in DOMAIN bars /\ new[k] = bars[k]
    BY <1>2, <1>4
  <2>2. inside(k, part \cup {i}) = inside(k, part)
    BY <1>1, <1>4
  <2>3. Describes(bars[k], rs, inside(k, part))
    BY <2>1 DEF BarsOf
  <2> HIDE DEF inside
  <2> QED BY <2>1, <2>2, <2>3
<1>5. Describes(bar, rs, inside(key, part \cup {i}))
  <2>1. CASE key \in DOMAIN bars
    <3>1. PICK q : q = inside(key, part)
      OBVIOUS
    <3>2. q \in SUBSET (DOMAIN rs) /\ IsFiniteSet(q) /\ i \notin q /\ q # {}
      <4>1. q \in SUBSET part
        BY <3>1
      <4>2. q # {}
        BY <2>1, <3>1 DEF BarsOf
      <4> QED BY <4>1, <4>2, FS_Subset
    <3>3. \A x \in q : rs[x].when =< rs[i].when
      BY <3>1
    <3>4. Describes(bars[key], rs, q)
      BY <2>1, <3>1 DEF BarsOf
    <3>5. PICK old : old = bars[key]
      OBVIOUS
    <3>6. bar = [open |-> old.open,
                 high |-> Max({old.high, rs[i].figure}),
                 low |-> Min({old.low, rs[i].figure}),
                 close |-> rs[i].figure, samples |-> old.samples + rs[i].samples]
      BY <1>1, <2>1, <3>5, Zenon DEF NewBar
    <3>7. Describes(bar, rs, q \cup {i})
      BY <3>2, <3>3, <3>4, <3>5, <3>6, AbsorbedDescribes
    <3>8. inside(key, part \cup {i}) = q \cup {i}
      BY <1>1, <3>1
    <3> QED BY <3>7, <3>8
  <2>2. CASE key \notin DOMAIN bars
    <3>1. inside(key, part \cup {i}) = {i}
      BY <1>1, <2>2 DEF BarsOf
    <3>2. bar = [open |-> rs[i].figure, high |-> rs[i].figure, low |-> rs[i].figure,
                 close |-> rs[i].figure, samples |-> rs[i].samples]
      BY <1>1, <2>2, Zenon DEF NewBar
    <3>3. Describes(bar, rs, {i})
      BY <3>2, OpenedDescribes
    <3> QED BY <3>1, <3>3
  <2> QED BY <2>1, <2>2
<1>6. new[key] = bar
  BY <1>2
<1>7. \A k \in DOMAIN new : Describes(new[k], rs, inside(k, part \cup {i}))
  <2> HIDE DEF inside
  <2> QED BY <1>4, <1>5, <1>6
<1> QED BY <1>1, <1>3, <1>7 DEF BarsOf

\* readings_to_intervals() is right about every bucket, in whatever order the readings
\* are given.
LEMMA BarsRight ==
  ASSUME NEW R, MeasuredRows(R), NEW rs \in Seq(R)
  PROVE  BarsOf(FoldLeft(Absorbed, <<>>, Chronological(rs)), rs, DOMAIN rs)
<1>1. PICK n \in Nat : n = Len(rs) /\ DOMAIN rs = 1..n
  OBVIOUS
<1>2. PICK c : c = Chronological(rs)
  OBVIOUS
<1>3. PICK o : InOrder(rs, c, o, n)
  BY <1>1, <1>2, ChronologicalRight
<1>4. /\ o \in [1..n -> 1..n]
      /\ \A j, k \in 1..n : j < k => rs[o[j]].when =< rs[o[k]].when
      /\ \A j, k \in 1..n : o[j] = o[k] => j = k
      /\ \A i \in 1..n : \E k \in 1..n : o[k] = i
      /\ Len(c) = n /\ \A k \in 1..n : c[k] = rs[o[k]]
  BY <1>3 DEF InOrder
<1>5. \A j \in 1..n : o[j] \in 1..n
  BY <1>4
<1>6. c \in Seq(R) /\ Len(c) = n
  BY <1>1, <1>2, <1>4, ChronologicalRight
<1> DEFINE F == AbsorbSteps(c, BarTables(R))
           at(k) == OutcomeAfter(F, <<>>, k)
           upTo(k) == {o[j] : j \in 1..k}
           D == {k \in 0..n : BarsOf(at(k), rs, upTo(k))}
<1>7. StepsIn(F, n, BarTables(R))
  BY <1>6, AbsorbingIsIn
<1>8. /\ at(0) = <<>>
      /\ \A k \in 0..n : at(k) \in BarTables(R) /\ (k # n => at(k + 1) = F[k + 1][at(k)])
  <2>1. PICK A, base : A = BarTables(R) /\ base = <<>>
    OBVIOUS
  <2>2. base \in A /\ StepsIn(F, n, A)
    BY <1>7, <2>1, NoBars
  <2> HIDE DEF F
  <2>3. \A k \in 0..n : /\ OutcomeAfter(F, base, k) \in A
                        /\ k # n => OutcomeAfter(F, base, k + 1) = F[k + 1][OutcomeAfter(F, base, k)]
    BY <2>2, EveryOutcome
  <2> QED BY <2>1, <2>3, NoOutcome
<1>9. ASSUME NEW k \in 0..(n - 1) PROVE at(k + 1) = Absorbed(at(k), rs[o[k + 1]])
  <2>1. at(k + 1) = F[k + 1][at(k)] /\ at(k) \in BarTables(R) /\ k + 1 \in 1..n
    BY <1>8
  <2>2. F[k + 1][at(k)] = Absorbed(at(k), c[k + 1])
    <3>1. k + 1 \in 1..Len(c)
      BY <1>6, <2>1
    <3> HIDE DEF at
    <3> QED BY <2>1, <3>1 DEF AbsorbSteps
  <2>3. c[k + 1] = rs[o[k + 1]]
    BY <1>4, <2>1
  <2> QED BY <2>1, <2>2, <2>3
<1> HIDE DEF F
<1>10. Measured(rs)
  BY DEF Measured, MeasuredRows
<1>11. 0 \in D
  <2>1. upTo(0) = {}
    OBVIOUS
  <2>2. DOMAIN at(0) = {}
    BY <1>8
  <2>3. BarsOf(at(0), rs, upTo(0))
    BY <2>1, <2>2 DEF BarsOf
  <2>4. 0 \in 0..n
    BY <1>1
  <2> QED BY <2>3, <2>4
<1>12. ASSUME NEW k \in 0..(n - 1), k \in D PROVE k + 1 \in D
  <2>1. PICK m \in 1..n : m = k + 1
    OBVIOUS
  <2>2. PICK p, i : p = upTo(k) /\ i = o[m]
    OBVIOUS
  <2>3. \A j \in 1..k : j \in 1..n /\ j < m /\ j # m
    BY <2>1
  <2>4. i \in DOMAIN rs /\ p \in SUBSET (DOMAIN rs)
    <3>1. o[m] \in 1..n /\ \A j \in 1..k : o[j] \in 1..n
      BY <1>5, <2>3
    <3> QED BY <1>1, <2>2, <3>1
  <2>5. i \notin p
    <3>1. \A j \in 1..k : o[j] # o[m]
      BY <1>4, <2>3
    <3> QED BY <2>2, <3>1
  <2>6. IsFiniteSet(p)
    <3>1. IsFiniteSet(DOMAIN rs)
      BY <1>1, FS_Interval
    <3> QED BY <2>4, <3>1, FS_Subset
  <2>7. \A x \in p : rs[x].when =< rs[i].when
    <3>1. \A j \in 1..k : rs[o[j]].when =< rs[o[m]].when
      BY <1>4, <2>3
    <3> QED BY <2>2, <3>1
  <2>8. upTo(m) = p \cup {i}
    <3>1. 1..m = (1..k) \cup {m}
      BY <2>1
    <3> QED BY <2>2, <3>1
  <2>9. BarsOf(at(k), rs, p)
    BY <1>12, <2>2
  <2> HIDE DEF at, upTo
  <2>10. BarsOf(Absorbed(at(k), rs[i]), rs, p \cup {i})
    BY <1>10, <2>4, <2>5, <2>6, <2>7, <2>9, AbsorbedBars
  <2>11. at(m) = Absorbed(at(k), rs[i])
    BY <1>9, <2>1, <2>2
  <2>12. BarsOf(at(m), rs, upTo(m))
    BY <2>8, <2>10, <2>11
  <2> QED BY <2>1, <2>12
<1>13. n \in D
  <2>1. n \in 0..n
    BY <1>1
  <2> HIDE DEF D
  <2> QED BY <1>11, <1>12, <2>1, UpTo
<1>14. upTo(n) = DOMAIN rs
  <2>1. \A i \in 1..n : \E k \in 1..n : o[k] = i
    BY <1>4
  <2> HIDE DEF at, D
  <2>2. 1..n \in SUBSET upTo(n)
    BY <2>1
  <2>3. upTo(n) \in SUBSET (1..n)
    BY <1>5
  <2> QED BY <1>1, <2>2, <2>3
<1>15. FoldLeft(Absorbed, <<>>, Chronological(rs)) = at(n)
  BY <1>2, <1>6, BarsOutcome DEF F
<1> QED BY <1>13, <1>14, <1>15

-----------------------------------------------------------------------------
\* The weighted average

\* What is rounded is not further than half from the result, and at half from an even one.
LEMMA HalfEvenIs ==
  ASSUME NEW n \in Int, NEW d \in Nat, d > 0, NEW h, h = HalfEven(n, d)
  PROVE  /\ h \in Int
         /\ (2 * h - 1) * d =< 2 * n /\ 2 * n =< (2 * h + 1) * d
         /\ 2 * n \in {(2 * h - 1) * d, (2 * h + 1) * d} => h % 2 = 0
<1>1. PICK q, r \in Int : q = n \div d /\ r = n % d
  OBVIOUS
<1>2. n = d * q + r /\ 0 =< r /\ r < d
  BY <1>1
<1>3. PICK m \in Int : m = d * q
  OBVIOUS
<1>4. /\ (2 * q - 1) * d = 2 * m - d /\ (2 * q + 1) * d = 2 * m + d
      /\ (2 * (q + 1) - 1) * d = 2 * m + d /\ (2 * (q + 1) + 1) * d = 2 * m + 3 * d
  BY <1>3
<1>5. 2 * n = 2 * m + 2 * r
  BY <1>2, <1>3
<1>6. h = IF 2 * r < d \/ (2 * r = d /\ q % 2 = 0) THEN q ELSE q + 1
  BY <1>1 DEF HalfEven
<1>7. CASE 2 * r < d \/ (2 * r = d /\ q % 2 = 0)
  <2>1. h = q
    BY <1>6, <1>7
  <2> QED BY <1>2, <1>4, <1>5, <1>7, <2>1
<1>8. CASE ~(2 * r < d \/ (2 * r = d /\ q % 2 = 0))
  <2>1. h = q + 1
    BY <1>6, <1>8
  <2>2. 2 * r >= d /\ (2 * r = d => q % 2 # 0)
    BY <1>8
  <2>3. q % 2 # 0 => (q + 1) % 2 = 0
    OBVIOUS
  <2> QED BY <1>2, <1>4, <1>5, <2>1, <2>2, <2>3
<1> QED BY <1>7, <1>8

\* Rounding keeps the order of fractions.
LEMMA HalfEvenOrder ==
  ASSUME NEW a \in Int, NEW b \in Nat, b > 0, NEW c \in Int, NEW d \in Nat, d > 0,
         a * d =< c * b
  PROVE  HalfEven(a, b) =< HalfEven(c, d)
<1>1. PICK h, k : h = HalfEven(a, b) /\ k = HalfEven(c, d)
  OBVIOUS
<1>2. /\ h \in Int /\ k \in Int
      /\ (2 * h - 1) * b =< 2 * a /\ 2 * c =< (2 * k + 1) * d
      /\ 2 * a \in {(2 * h - 1) * b, (2 * h + 1) * b} => h % 2 = 0
      /\ 2 * c \in {(2 * k - 1) * d, (2 * k + 1) * d} => k % 2 = 0
  BY <1>1, HalfEvenIs
<1>3. SUFFICES ASSUME h > k PROVE FALSE
  BY <1>1, <1>2
<1>4. PICK x, y \in Int : x = 2 * h - 1 /\ y = 2 * k + 1
  BY <1>2
<1>5. y =< x
  BY <1>2, <1>3, <1>4
<1>6. PICK p \in Nat : p = b * d /\ p > 0
  OBVIOUS
<1>7. x * p =< y * p
  <2>1. PICK aa, cc \in Int : aa = 2 * a /\ cc = 2 * c
    OBVIOUS
  <2>2. x * b =< aa /\ cc =< y * d
    BY <1>2, <1>4, <2>1
  <2>3. (x * b) * d =< aa * d /\ cc * b =< (y * d) * b
    <3>1. x * b \in Int /\ y * d \in Int
      OBVIOUS
    <3> QED BY <2>2, <3>1, WeightedOrder
  <2>4. aa * d =< cc * b
    <3>1. aa * d = 2 * (a * d) /\ cc * b = 2 * (c * b)
      BY <2>1
    <3> QED BY <3>1
  <2>5. (x * b) * d = x * p /\ (y * d) * b = y * p
    BY <1>6
  <2>6. (x * b) * d \in Int /\ aa * d \in Int /\ cc * b \in Int /\ (y * d) * b \in Int
    OBVIOUS
  <2> QED BY <2>3, <2>4, <2>5, <2>6
<1>8. x = y
  <2>1. SUFFICES ASSUME y + 1 =< x PROVE FALSE
    BY <1>5
  <2>2. (y + 1) * p =< x * p
    BY <2>1, WeightedOrder
  <2>3. (y + 1) * p = y * p + p /\ y * p \in Int /\ x * p \in Int
    OBVIOUS
  <2> QED BY <1>6, <1>7, <2>2, <2>3
<1>9. h = k + 1
  BY <1>2, <1>4, <1>8
<1>10. 2 * a = x * b /\ 2 * c = y * d
  <2>1. PICK aa, cc \in Int : aa = 2 * a /\ cc = 2 * c
    OBVIOUS
  <2>2. PICK u, v \in Int : u = x * b /\ v = y * d
    OBVIOUS
  <2>3. u =< aa /\ cc =< v
    BY <1>2, <1>4, <2>1, <2>2
  <2>4. aa * d =< cc * b
    <3>1. aa * d = 2 * (a * d) /\ cc * b = 2 * (c * b)
      BY <2>1
    <3> QED BY <3>1
  <2>5. u * d = v * b
    BY <1>8, <2>2
  <2>6. u * d =< aa * d /\ cc * b =< v * b
    BY <2>3, WeightedOrder
  <2>7. aa = u
    <3>1. SUFFICES ASSUME u + 1 =< aa PROVE FALSE
      BY <2>3
    <3>2. (u + 1) * d =< aa * d
      BY <3>1, WeightedOrder
    <3>3. (u + 1) * d = u * d + d /\ u * d \in Int /\ aa * d \in Int /\ cc * b \in Int
      OBVIOUS
    <3> QED BY <2>4, <2>5, <2>6, <3>2, <3>3
  <2>8. cc = v
    <3>1. SUFFICES ASSUME cc + 1 =< v PROVE FALSE
      BY <2>3
    <3>2. (cc + 1) * b =< v * b
      BY <3>1, WeightedOrder
    <3>3. (cc + 1) * b = cc * b + b /\ v * b \in Int /\ aa * d \in Int /\ cc * b \in Int
      OBVIOUS
    <3> QED BY <2>4, <2>5, <2>6, <3>2, <3>3
  <2> QED BY <2>1, <2>2, <2>7, <2>8
<1>11. h % 2 = 0 /\ k % 2 = 0
  BY <1>2, <1>4, <1>10
<1> QED BY <1>2, <1>9, <1>11

\* The weighted average of readings is between two of them.
LEMMA AverageIsWithin ==
  ASSUME NEW rs, Measured(rs), IsFiniteSet(DOMAIN rs),
         \A i \in DOMAIN rs : rs[i].samples >= 0
  PROVE  AverageWithin(rs)
<1>1. PICK D : D = DOMAIN rs
  OBVIOUS
<1>2. PICK s, p : s = [i \in D |-> rs[i].samples] /\ p = [i \in D |-> rs[i].figure * rs[i].samples]
  OBVIOUS
<1>3. PICK count, sum : count = SumFunctionOnSet(s, D) /\ sum = SumFunctionOnSet(p, D)
  OBVIOUS
<1>4. WeightedAverage(rs) = IF count = 0 THEN {} ELSE {HalfEven(sum, count * Micro)}
  BY <1>1, <1>2, <1>3, Zenon DEF WeightedAverage
<1>5. \A i \in D : /\ rs[i].figure \in Int /\ s[i] \in Int /\ s[i] >= 0
                   /\ p[i] = rs[i].figure * s[i] /\ p[i] \in Int
  <2> TAKE i \in D
  <2>1. rs[i].figure \in Int /\ rs[i].samples \in Int /\ rs[i].samples >= 0
    BY <1>1 DEF Measured
  <2>2. s[i] = rs[i].samples /\ p[i] = rs[i].figure * rs[i].samples
    BY <1>2
  <2>3. rs[i].figure * rs[i].samples \in Int
    BY <2>1, WeightedOrder
  <2> QED BY <2>1, <2>2, <2>3
<1>6. \A i \in D : s[i] \in Int /\ p[i] \in Int
  BY <1>5
<1>7. SUFFICES ASSUME count # 0
      PROVE  \E i, j \in D : /\ HalfEven(rs[i].figure, Micro) =< HalfEven(sum, count * Micro)
                             /\ HalfEven(sum, count * Micro) =< HalfEven(rs[j].figure, Micro)
  <2>1. CASE count = 0
    BY <1>4, <2>1 DEF AverageWithin
  <2>2. CASE count # 0
    <3>1. WeightedAverage(rs) = {HalfEven(sum, count * Micro)}
      BY <1>4, <2>2
    <3>2. PICK average : average = HalfEven(sum, count * Micro)
      OBVIOUS
    <3>3. \E i, j \in DOMAIN rs : /\ HalfEven(rs[i].figure, Micro) =< average
                                 /\ average =< HalfEven(rs[j].figure, Micro)
      BY <1>1, <1>7, <2>2, <3>2
    <3> QED BY <3>1, <3>2, <3>3, Zenon DEF AverageWithin
  <2> QED BY <2>1, <2>2
<1>8. count \in Nat /\ count > 0 /\ sum \in Int
  <2>1. count \in Int /\ sum \in Int
    BY <1>1, <1>3, <1>6, WeightedSum
  <2>2. \A i \in D : 0 * s[i] =< s[i]
    BY <1>5
  <2>3. 0 * count =< count
    <3>1. \A i \in D : s[i] \in Int /\ s[i] \in Int
      BY <1>5
    <3> QED BY <1>1, <1>3, <2>2, <3>1, WeightedSum
  <2> QED BY <1>7, <2>1, <2>3
<1>9. D # {}
  BY <1>3, <1>7, SumEmpty
<1>10. PICK F : F = {rs[i].figure : i \in D}
  OBVIOUS
<1>11. IsFiniteSet(F) /\ F # {} /\ F \subseteq Int
  <2>1. PICK h : h = [x \in D |-> rs[x].figure]
    OBVIOUS
  <2>2. IsFiniteSet({h[x] : x \in D})
    BY <1>1, FiniteImage
  <2>3. F = {h[x] : x \in D}
    BY <1>10, <2>1
  <2> QED BY <1>5, <1>9, <1>10, <2>2, <2>3
<1>12. PICK lo, hi \in D : \A i \in D : rs[lo].figure =< rs[i].figure /\ rs[i].figure =< rs[hi].figure
  <2>1. Min(F) \in F /\ Max(F) \in F /\ \A f \in F : Min(F) =< f /\ f =< Max(F)
    BY <1>11, GreatestOf, LeastOf
  <2>2. PICK a, b \in D : rs[a].figure = Min(F) /\ rs[b].figure = Max(F)
    BY <1>10, <2>1
  <2>3. \A i \in D : rs[i].figure \in F
    BY <1>10
  <2> QED BY <2>1, <2>2, <2>3
<1>13. PICK c, e \in Int : c = rs[lo].figure /\ e = rs[hi].figure
  BY <1>5
<1>14. \A i \in D : c * s[i] =< p[i] /\ p[i] =< e * s[i]
  <2> TAKE i \in D
  <2>1. PICK f \in Int : f = rs[i].figure /\ c =< f /\ f =< e
    BY <1>5, <1>12, <1>13
  <2>2. PICK w \in Int : w = s[i] /\ w >= 0
    BY <1>5
  <2>3. c * w =< f * w /\ f * w =< e * w
    BY <2>1, <2>2, WeightedOrder
  <2>4. p[i] = f * w
    BY <1>5, <2>1, <2>2
  <2> QED BY <2>2, <2>3, <2>4
<1>15. c * count =< sum /\ sum =< e * count
  BY <1>1, <1>3, <1>6, <1>14, WeightedSum
<1>16. PICK m \in Nat : m = Micro /\ m > 0
  BY StoreAssumption
<1>17. PICK w \in Nat : w = count * m /\ w > 0
  BY <1>8, <1>16
<1>18. c * w =< sum * m /\ sum * m =< e * w
  <2>1. (c * count) * m =< sum * m /\ sum * m =< (e * count) * m
    <3>1. c * count \in Int /\ e * count \in Int
      BY <1>8
    <3> QED BY <1>8, <1>15, <1>16, <3>1, WeightedOrder
  <2>2. (c * count) * m = c * w /\ (e * count) * m = e * w
    BY <1>8, <1>17
  <2> QED BY <2>1, <2>2
<1>19. HalfEven(c, m) =< HalfEven(sum, w) /\ HalfEven(sum, w) =< HalfEven(e, m)
  BY <1>8, <1>16, <1>17, <1>18, HalfEvenOrder
<1> QED BY <1>13, <1>16, <1>17, <1>19

-----------------------------------------------------------------------------
\* What is read from a store

\* The rows of a table that a query finds, and how they are listed
LEMMA FoundRows ==
  ASSUME NEW R, NEW table \in Seq(R), \A r \in R : r.when \in Int,
         NEW found \in SUBSET (DOMAIN table)
  PROVE  /\ Dated(table, found) /\ Cardinality(found) \in Nat
         /\ Newest(table, found, QueryCeiling) \in Seq(R)
<1>1. /\ IsFiniteSet(found) /\ Cardinality(found) \in Nat /\ found \in SUBSET (1..Len(table))
  BY IndicesAreFinite
<1>2. \A i \in 1..Len(table) : table[i] \in R /\ i \in Nat
  OBVIOUS
<1>3. Dated(table, found)
  BY <1>1, <1>2 DEF Dated
<1>4. PICK t : t = Newest(table, found, QueryCeiling)
  OBVIOUS
<1>5. PICK o, n : Lists(t, table, found, o, n)
  BY <1>3, <1>4, NewestLists
<1>6. t \in Seq({table[i] : i \in found})
  BY <1>5 DEF Lists
<1>7. {table[i] : i \in found} \in SUBSET R
  BY <1>1, <1>2
<1>8. t \in Seq(R)
  <2>1. PICK Y : Y = {table[i] : i \in found}
    OBVIOUS
  <2>2. t \in Seq(Y) /\ Y \in SUBSET R
    BY <1>6, <1>7, <2>1
  <2> QED BY <2>2
<1> QED BY <1>1, <1>3, <1>4, <1>8

\* Readings with a binary float for their figure and with counts of samples
FloatedRows(R) ==
  \A r \in R : {"asset", "figure", "when", "samples"} \subseteq DOMAIN r /\ Double[r.figure] \in Int
CountedRows(R) == MeasuredRows(R) /\ FloatedRows(R) /\ \A r \in R : r.samples >= 0

\* The readings of an asset are read right, whatever the table holds.
LEMMA ReadingsRight ==
  ASSUME NEW R, CountedRows(R), readings \in Seq(R), NEW a
  PROVE  ReadingsAreRight(a)
<1>1. PICK found : found = {i \in DOMAIN readings : /\ readings[i].asset = AssetId(a)
                                                    /\ 0 =< readings[i].when
                                                    /\ readings[i].when =< LastInstant}
  OBVIOUS
<1>2. \A n : Page(a, 0, LastInstant, n) = Newest(readings, found, n)
  BY <1>1, Zenon DEF Page
<1>3. PICK all : all = Newest(readings, found, QueryCeiling)
  OBVIOUS
<1>4. \A r \in R : r.when \in Int
  BY DEF CountedRows, MeasuredRows
<1>5. found \in SUBSET (DOMAIN readings)
  BY <1>1
<1>6. Dated(readings, found) /\ Cardinality(found) \in Nat /\ all \in Seq(R)
  BY <1>3, <1>4, <1>5, FoundRows
<1>7. Beginnings(LAMBDA n : Page(a, 0, LastInstant, n))
  BY <1>2, <1>6, NewestBegins, Zenon DEF Beginnings
<1>8. ASSUME NEW w, w \in {all[i].when : i \in DOMAIN all}, NEW at, at = {i \in DOMAIN all : all[i].when = w}
      PROVE  IsPrefix(SubSeq(all, Min(at), Max(at)), Page(a, w, w, QueryCeiling))
  <2>1. PICK same : same = {i \in found : readings[i].when = w}
    OBVIOUS
  <2>2. at # {}
    BY <1>8
  <2>3. IsPrefix(SubSeq(all, Min(at), Max(at)), Newest(readings, same, QueryCeiling))
    <3>1. PICK v : v = w
      OBVIOUS
    <3>2. PICK table : table = readings
      OBVIOUS
    <3>3. /\ all = Newest(table, found, QueryCeiling) /\ Dated(table, found)
          /\ at = OfInstant(all, DOMAIN all, v) /\ same = OfInstant(table, found, v)
      BY <1>3, <1>6, <1>8, <2>1, <3>1, <3>2, Zenon DEF OfInstant
    <3>4. IsPrefix(SubSeq(all, Min(at), Max(at)), Newest(table, same, QueryCeiling))
      BY <2>2, <3>3, InstantIsPrefix
    <3> QED BY <3>2, <3>4
  <2>4. PICK x \in found : readings[x].when = w
    <3>1. PICK o, n : Lists(all, readings, found, o, n)
      BY <1>3, <1>6, NewestLists
    <3>2. all \in Seq({readings[i] : i \in found})
      BY <3>1 DEF Lists
    <3>3. PICK k \in DOMAIN all : all[k].when = w
      BY <1>8
    <3>4. all[k] \in {readings[i] : i \in found}
      BY <3>2, <3>3
    <3> QED BY <3>3, <3>4
  <2>5. 0 =< w /\ w =< LastInstant /\ w \in Int
    BY <1>1, <1>6, <2>4 DEF Dated
  <2>6. \A i \in DOMAIN readings : readings[i].when \in Int
    BY <1>4
  <2>7. same = {i \in DOMAIN readings : /\ readings[i].asset = AssetId(a)
                                        /\ w =< readings[i].when /\ readings[i].when =< w}
    BY <1>1, <2>1, <2>5, <2>6
  <2>8. Page(a, w, w, QueryCeiling) = Newest(readings, same, QueryCeiling)
    BY <2>7, Zenon DEF Page
  <2> QED BY <2>3, <2>8
<1>10. \A i \in DOMAIN all : all[i] \in R
  BY <1>6
<1>9. PICK values : /\ values = InFloats(all) /\ BarsOf(Bars(all), values, DOMAIN all)
                    /\ \A i \in DOMAIN all : Bucket(values[i]) = Bucket(all[i])
  <2>1. PICK values, V : values = InFloats(all) /\ V = {values[i] : i \in DOMAIN all}
    OBVIOUS
  <2>2. /\ DOMAIN values = DOMAIN all
        /\ \A i \in DOMAIN all : values[i] = [all[i] EXCEPT !.figure = Double[all[i].figure]]
    BY <2>1 DEF InFloats
  <2>3. \A i \in DOMAIN all : /\ values[i].asset = all[i].asset /\ values[i].when = all[i].when
                              /\ values[i].samples = all[i].samples
                              /\ values[i].figure = Double[all[i].figure]
    BY <1>10, <2>2 DEF CountedRows, FloatedRows
  <2>4. MeasuredRows(V)
    BY <1>10, <2>1, <2>3 DEF CountedRows, MeasuredRows, FloatedRows
  <2>5. values \in Seq(V)
    <3>1. DOMAIN all = 1..Len(all) /\ Len(all) \in Nat
      BY <1>6
    <3>2. values = [i \in 1..Len(all) |-> values[i]]
      BY <2>1, <3>1 DEF InFloats
    <3>3. \A i \in 1..Len(all) : values[i] \in V
      BY <2>1, <3>1
    <3> QED BY <3>1, <3>2, <3>3
  <2>6. BarsOf(FoldLeft(Absorbed, <<>>, Chronological(values)), values, DOMAIN values)
    BY <2>4, <2>5, BarsRight
  <2>7. \A i \in DOMAIN all : Bucket(values[i]) = Bucket(all[i])
    BY <2>3 DEF Bucket
  <2> QED BY <2>1, <2>2, <2>6, <2>7 DEF Bars
<1>11. AverageWithin(all)
  <2>1. Measured(all) /\ \A i \in DOMAIN all : all[i].samples >= 0
    BY <1>10 DEF Measured, CountedRows, MeasuredRows
  <2>2. IsFiniteSet(DOMAIN all)
    BY <1>6, IndicesAreFinite
  <2> QED BY <2>1, <2>2, AverageIsWithin
<1>12. /\ DOMAIN Bars(all) = {Bucket(all[i]) : i \in DOMAIN all}
       /\ \A key \in DOMAIN Bars(all) : Describes(Bars(all)[key], values, Inside(all, key))
  BY <1>9 DEF BarsOf, Inside
<1>13. Page(a, 0, LastInstant, QueryCeiling) = all
  BY <1>2, <1>3
<1> QED BY <1>7, <1>8, <1>9, <1>11, <1>12, <1>13, Zenon DEF ReadingsAreRight

\* So are pages of intervals and of assignments,
LEMMA IntervalsBegin ==
  ASSUME NEW R, intervals \in Seq(R), NEW a, NEW i
  PROVE  Beginnings(LAMBDA n : IntervalPage(a, i, n))
<1>1. PICK found : found = {k \in DOMAIN intervals : /\ intervals[k].asset = AssetId(a)
                                                     /\ intervals[k].interval = i}
  OBVIOUS
<1>2. \A n : IntervalPage(a, i, n) = Newest(intervals, found, n)
  BY <1>1, Zenon DEF IntervalPage
<1>3. found \in SUBSET (DOMAIN intervals)
  BY <1>1
<1>4. Cardinality(found) \in Nat
  BY <1>3, IndicesAreFinite
<1> QED BY <1>2, <1>4, NewestBegins, Zenon DEF Beginnings

LEMMA AssignmentsBegin ==
  ASSUME NEW R, assignments \in Seq(R), NEW chosen
  PROVE  Beginnings(LAMBDA n : AssignmentPage(chosen, n))
<1>1. PICK found : found = {k \in DOMAIN assignments : assignments[k].asset \in chosen}
  OBVIOUS
<1>2. \A n : AssignmentPage(chosen, n) = Newest(assignments, found, n)
  BY <1>1, Zenon DEF AssignmentPage
<1>3. found \in SUBSET (DOMAIN assignments)
  BY <1>1
<1>4. Cardinality(found) \in Nat
  BY <1>3, IndicesAreFinite
<1> QED BY <1>2, <1>4, NewestBegins, Zenon DEF Beginnings

\* What LIKE finds casefold() finds, and in plain texts no more.
LEMMA SearchesDo ==
  ASSUME \A row \in Listed : row.asset \in Texts /\ row.name \in Texts
  PROVE  SearchesAgree
<1>1. ASSUME NEW term \in Texts
      PROVE  /\ \A n \in 1..(QueryCeiling - 1) : IsPrefix(Search(term, n), Search(term, n + 1))
             /\ Assets(Search(term, QueryCeiling)) \subseteq Assets(Scanned(Listed, term))
             /\ term \in Plain /\ AllPlain =>
                  \A n \in 1..QueryCeiling : Search(term, n) = SearchInMemory(Listed, term, n)
  <2>1. PICK rows, more : /\ rows = {row \in Listed : Like(term, row.asset) \/ Like(term, row.name)}
                          /\ more = {row \in Listed : Folded(term, row.asset) \/ Folded(term, row.name)}
    OBVIOUS
  <2>2. PICK s, t : s = ById(rows) /\ t = ById(more)
    OBVIOUS
  <2>3. (\A n : Search(term, n) = FirstOf(s, n)) /\ Scanned(Listed, term) = t
    BY <2>1, <2>2, Zenon DEF Search, Scanned
  <2>4. PICK X, Y : /\ X = {s[k] : k \in DOMAIN s} /\ s \in Seq(X)
                    /\ Y = {t[k] : k \in DOMAIN t} /\ t \in Seq(Y)
    <3>1. s \in Seq({s[k] : k \in DOMAIN s}) /\ t \in Seq({t[k] : k \in DOMAIN t})
      BY <2>2, ByIdRight
    <3> QED BY <3>1
  <2>5. \A n \in 1..(QueryCeiling - 1) : IsPrefix(Search(term, n), Search(term, n + 1))
    BY <2>3, <2>4, ShorterBegins
  <2>6. Assets(Search(term, QueryCeiling)) \subseteq Assets(t)
    <3>1. PICK u : u = FirstOf(s, QueryCeiling)
      OBVIOUS
    <3>2. u \in Seq(X) /\ Len(u) =< Len(s) /\ \A i \in 1..Len(u) : u[i] = s[i]
      <4>1. QueryCeiling \in Nat /\ QueryCeiling =< QueryCeiling
        BY StoreAssumption
      <4> QED BY <2>4, <3>1, <4>1, FirstOfRight
    <3>3. Assets(u) \subseteq Assets(s)
      <4>1. DOMAIN u = 1..Len(u) /\ DOMAIN s = 1..Len(s) /\ Len(u) \in Nat /\ Len(s) \in Nat
        BY <2>4, <3>2
      <4>2. \A i \in DOMAIN u : i \in DOMAIN s /\ u[i] = s[i]
        <5>1. \A i \in 1..Len(u) : i \in 1..Len(s)
          BY <3>2, <4>1
        <5> QED BY <3>2, <4>1, <5>1
      <4> QED BY <4>2 DEF Assets, ToSet
    <3>4. rows \subseteq more
      BY <2>1, TextAssumption
    <3>5. Known(rows) \subseteq Known(more)
      BY <3>4 DEF Known
    <3>6. Assets(s) = Known(rows) /\ Assets(t) = Known(more)
      BY <2>2, ByIdRight
    <3> QED BY <2>3, <3>1, <3>3, <3>5, <3>6
  <2>7. ASSUME term \in Plain, AllPlain, NEW n \in 1..QueryCeiling
        PROVE  Search(term, n) = SearchInMemory(Listed, term, n)
    <3>1. \A text \in Plain : Like(term, text) <=> Folded(term, text)
      BY <2>7 DEF Plain, Like, Folded
    <3>2. rows = more
      BY <2>1, <2>7, <3>1 DEF AllPlain
    <3>3. AtMostCeiling(n) = n
      BY StoreAssumption DEF AtMostCeiling
    <3>4. SearchInMemory(Listed, term, n) = SubSeq(t, 1, Min({Len(t), n}))
      BY <2>3, Zenon DEF SearchInMemory
    <3> QED BY <2>2, <2>3, <3>2, <3>3, <3>4 DEF FirstOf
  <2> QED BY <2>3, <2>5, <2>6, <2>7
<1> QED BY <1>1, Zenon DEF SearchesAgree, Beginnings

-----------------------------------------------------------------------------
\* What the operations leave in it

\* The rows that a table can have, of the ones that callers give
BuiltRows(rows) == {Built(row) : row \in Soundly(rows)}
AllRows == BuiltRows(ReadingRows) \cup BuiltRows(IntervalRows)
             \cup BuiltRows(AssignmentRows) \cup BuiltRows(EquipmentRows)

\* A batch of sound rows is built.
LEMMA BuiltBatch ==
  ASSUME NEW rows, NEW batch \in Seq(rows), \A i \in DOMAIN batch : Sound(batch[i])
  PROVE  BuiltAll(batch) \in Seq(BuiltRows(rows))
<1>1. PICK n \in Nat : n = Len(batch) /\ DOMAIN batch = 1..n
  OBVIOUS
<1>2. \A i \in 1..n : Built(batch[i]) \in BuiltRows(rows)
  BY <1>1 DEF BuiltRows, Soundly
<1>3. BuiltAll(batch) = [i \in 1..n |-> Built(batch[i])]
  BY <1>1 DEF BuiltAll
<1> QED BY <1>2, <1>3

\* What a batch is
LEMMA BatchIsSequence ==
  ASSUME NEW rows, NEW batch \in Batches(rows)
  PROVE  batch \in Seq(rows)
BY StoreAssumption DEF Batches

\* Built readings have an instant, a figure and a count of samples.
LEMMA ReadingsAreCounted == CountedRows(BuiltRows(ReadingRows))
<1>1. SUFFICES ASSUME NEW row \in ReadingRows, Sound(row)
               PROVE  /\ Built(row).when \in Int /\ Built(row).figure \in Int
                      /\ Built(row).samples \in Int /\ Built(row).samples >= 0
                      /\ {"asset", "figure", "when", "samples"} \subseteq DOMAIN Built(row)
                      /\ Double[Built(row).figure] \in Int
  BY DEF BuiltRows, Soundly, CountedRows, MeasuredRows, FloatedRows
<1>2. /\ {"asset", "figure", "when", "samples"} \subseteq DOMAIN row
      /\ row.figure.n \in Int /\ row.samples \in Int /\ Double[row.figure.n] \in Int
      /\ row.when.clock \in Int /\ row.when.offset \in Int
  BY <1>1, ReadingAssumption
<1>3. row.samples >= 0
  BY <1>1, <1>2 DEF Sound, Counted
<1>4. InUTC(row.when) \in Int
  BY <1>2 DEF InUTC
<1>5. /\ Built(row).when = InUTC(row.when) /\ Built(row).figure = row.figure.n
      /\ Built(row).samples = row.samples /\ DOMAIN Built(row) = DOMAIN row
  BY <1>2 DEF Built
<1> QED BY <1>2, <1>3, <1>4, <1>5

\* What the tables have is what the calls that returned were given.
IsExact(rd, iv, as, eq, acc) ==
  /\ acc \in Seq(Calls(AllRows))
  /\ rd \in Seq(BuiltRows(ReadingRows)) /\ iv \in Seq(AllRows) /\ as \in Seq(AllRows)
  /\ eq \in Tables(BuiltRows(EquipmentRows))
  /\ rd = RowsOf("readings", acc)
  /\ iv = RowsOf("intervals", acc)
  /\ as = RowsOf("assignments", acc)
  /\ IsLastOf(eq, RowsOf("equipment", acc))

\* It stays so with a call of any of the five kinds.
LEMMA AnotherCall ==
  ASSUME NEW acc \in Seq(Calls(AllRows)), NEW call \in Calls(AllRows)
  PROVE  /\ Append(acc, call) \in Seq(Calls(AllRows))
         /\ \A kind : /\ RowsOf(kind, acc) \in Seq(AllRows)
                      /\ RowsOf(kind, Append(acc, call)) = Gathered(kind, RowsOf(kind, acc), call)
<1>1. \A kind : /\ RowsOf(kind, acc) \in Seq(AllRows)
                /\ RowsOf(kind, Append(acc, call)) = Gathered(kind, RowsOf(kind, acc), call)
  BY RowsOfAppend
<1> QED BY <1>1

\* A call that inserts readings, intervals or assignments, defines equipment or clears it
LEMMA ReadingsStayExact ==
  ASSUME NEW rd, NEW iv, NEW as, NEW eq, NEW acc, IsExact(rd, iv, as, eq, acc),
         NEW rows \in Seq(BuiltRows(ReadingRows)),
         NEW call, call = [kind |-> "readings", rows |-> rows]
  PROVE  IsExact(rd \o rows, iv, as, eq, Append(acc, call))
<1>1. call \in Calls(AllRows) /\ acc \in Seq(Calls(AllRows))
  <2>1. rows \in Seq(AllRows)
    BY DEF AllRows
  <2> QED BY <2>1 DEF Calls, IsExact
<1>2. PICK new : new = Append(acc, call)
  OBVIOUS
<1>3. new \in Seq(Calls(AllRows)) /\ \A kind : RowsOf(kind, new) = Gathered(kind, RowsOf(kind, acc), call)
  BY <1>1, <1>2, AnotherCall
<1>4. call.kind = "readings" /\ call.rows = rows
  OBVIOUS
<1>5. /\ RowsOf("readings", new) = RowsOf("readings", acc) \o rows
      /\ RowsOf("intervals", new) = RowsOf("intervals", acc)
      /\ RowsOf("assignments", new) = RowsOf("assignments", acc)
      /\ RowsOf("equipment", new) = RowsOf("equipment", acc)
  BY <1>3, <1>4 DEF Gathered
<1>6. /\ rd \in Seq(BuiltRows(ReadingRows)) /\ iv \in Seq(AllRows) /\ as \in Seq(AllRows)
      /\ eq \in Tables(BuiltRows(EquipmentRows))
      /\ rd = RowsOf("readings", acc) /\ iv = RowsOf("intervals", acc)
      /\ as = RowsOf("assignments", acc) /\ IsLastOf(eq, RowsOf("equipment", acc))
  BY DEF IsExact
<1>7. rd \o rows \in Seq(BuiltRows(ReadingRows)) /\ rd \o rows = RowsOf("readings", new)
  BY <1>5, <1>6
<1> QED BY <1>2, <1>3, <1>5, <1>6, <1>7 DEF IsExact

LEMMA IntervalsStayExact ==
  ASSUME NEW rd, NEW iv, NEW as, NEW eq, NEW acc, IsExact(rd, iv, as, eq, acc),
         NEW rows \in Seq(AllRows), NEW call, call = [kind |-> "intervals", rows |-> rows]
  PROVE  IsExact(rd, iv \o rows, as, eq, Append(acc, call))
<1>1. call \in Calls(AllRows) /\ acc \in Seq(Calls(AllRows))
  BY DEF Calls, IsExact
<1>2. PICK new : new = Append(acc, call)
  OBVIOUS
<1>3. new \in Seq(Calls(AllRows)) /\ \A kind : RowsOf(kind, new) = Gathered(kind, RowsOf(kind, acc), call)
  BY <1>1, <1>2, AnotherCall
<1>4. call.kind = "intervals" /\ call.rows = rows
  OBVIOUS
<1>5. /\ RowsOf("intervals", new) = RowsOf("intervals", acc) \o rows
      /\ RowsOf("readings", new) = RowsOf("readings", acc)
      /\ RowsOf("assignments", new) = RowsOf("assignments", acc)
      /\ RowsOf("equipment", new) = RowsOf("equipment", acc)
  BY <1>3, <1>4 DEF Gathered
<1>6. /\ rd \in Seq(BuiltRows(ReadingRows)) /\ iv \in Seq(AllRows) /\ as \in Seq(AllRows)
      /\ eq \in Tables(BuiltRows(EquipmentRows))
      /\ rd = RowsOf("readings", acc) /\ iv = RowsOf("intervals", acc)
      /\ as = RowsOf("assignments", acc) /\ IsLastOf(eq, RowsOf("equipment", acc))
  BY DEF IsExact
<1>7. iv \o rows \in Seq(AllRows) /\ iv \o rows = RowsOf("intervals", new)
  BY <1>5, <1>6
<1> QED BY <1>2, <1>3, <1>5, <1>6, <1>7 DEF IsExact

LEMMA AssignmentsStayExact ==
  ASSUME NEW rd, NEW iv, NEW as, NEW eq, NEW acc, IsExact(rd, iv, as, eq, acc),
         NEW rows \in Seq(AllRows), NEW call, call = [kind |-> "assignments", rows |-> rows]
  PROVE  IsExact(rd, iv, as \o rows, eq, Append(acc, call))
<1>1. call \in Calls(AllRows) /\ acc \in Seq(Calls(AllRows))
  BY DEF Calls, IsExact
<1>2. PICK new : new = Append(acc, call)
  OBVIOUS
<1>3. new \in Seq(Calls(AllRows)) /\ \A kind : RowsOf(kind, new) = Gathered(kind, RowsOf(kind, acc), call)
  BY <1>1, <1>2, AnotherCall
<1>4. call.kind = "assignments" /\ call.rows = rows
  OBVIOUS
<1>5. /\ RowsOf("assignments", new) = RowsOf("assignments", acc) \o rows
      /\ RowsOf("readings", new) = RowsOf("readings", acc)
      /\ RowsOf("intervals", new) = RowsOf("intervals", acc)
      /\ RowsOf("equipment", new) = RowsOf("equipment", acc)
  BY <1>3, <1>4 DEF Gathered
<1>6. /\ rd \in Seq(BuiltRows(ReadingRows)) /\ iv \in Seq(AllRows) /\ as \in Seq(AllRows)
      /\ eq \in Tables(BuiltRows(EquipmentRows))
      /\ rd = RowsOf("readings", acc) /\ iv = RowsOf("intervals", acc)
      /\ as = RowsOf("assignments", acc) /\ IsLastOf(eq, RowsOf("equipment", acc))
  BY DEF IsExact
<1>7. as \o rows \in Seq(AllRows) /\ as \o rows = RowsOf("assignments", new)
  BY <1>5, <1>6
<1> QED BY <1>2, <1>3, <1>5, <1>6, <1>7 DEF IsExact

LEMMA EquipmentStaysExact ==
  ASSUME NEW rd, NEW iv, NEW as, NEW eq, NEW acc, IsExact(rd, iv, as, eq, acc),
         NEW rows \in Seq(BuiltRows(EquipmentRows)),
         NEW call, call = [kind |-> "equipment", rows |-> rows]
  PROVE  IsExact(rd, iv, as, FoldLeft(Upserted, eq, rows), Append(acc, call))
<1>1. call \in Calls(AllRows) /\ acc \in Seq(Calls(AllRows))
  <2>1. rows \in Seq(AllRows)
    BY DEF AllRows
  <2> QED BY <2>1 DEF Calls, IsExact
<1>2. PICK new, X, E : new = Append(acc, call) /\ X = AllRows /\ E = BuiltRows(EquipmentRows)
  OBVIOUS
<1>3. /\ new \in Seq(Calls(X))
      /\ \A kind : /\ RowsOf(kind, acc) \in Seq(X)
                   /\ RowsOf(kind, new) = Gathered(kind, RowsOf(kind, acc), call)
  BY <1>1, <1>2, AnotherCall
<1>4. call.kind = "equipment" /\ call.rows = rows
  OBVIOUS
<1>5. /\ RowsOf("equipment", new) = RowsOf("equipment", acc) \o rows
      /\ RowsOf("readings", new) = RowsOf("readings", acc)
      /\ RowsOf("intervals", new) = RowsOf("intervals", acc)
      /\ RowsOf("assignments", new) = RowsOf("assignments", acc)
  BY <1>3, <1>4 DEF Gathered
<1>6. /\ rd \in Seq(BuiltRows(ReadingRows)) /\ iv \in Seq(X) /\ as \in Seq(X)
      /\ eq \in Tables(E)
      /\ rd = RowsOf("readings", acc) /\ iv = RowsOf("intervals", acc)
      /\ as = RowsOf("assignments", acc) /\ IsLastOf(eq, RowsOf("equipment", acc))
  BY <1>2 DEF IsExact
<1>7. PICK defs : defs = RowsOf("equipment", acc)
  OBVIOUS
<1>8. defs \in Seq(X) /\ IsLastOf(eq, defs) /\ rows \in Seq(E) /\ E \subseteq X
  BY <1>2, <1>3, <1>6, <1>7 DEF AllRows
<1>9. PICK table : table = FoldLeft(Upserted, eq, rows)
  OBVIOUS
<1>10. table \in Tables(E) /\ IsLastOf(table, defs \o rows)
  BY <1>6, <1>8, <1>9, UpsertsAreLast
<1>11. IsLastOf(table, RowsOf("equipment", new))
  BY <1>5, <1>7, <1>10
<1>12. IsExact(rd, iv, as, table, new)
  BY <1>2, <1>3, <1>5, <1>6, <1>10, <1>11, Zenon DEF IsExact
<1> QED BY <1>2, <1>9, <1>12

\* Without a definition there is no equipment.
LEMMA NothingDefined == <<>> \in Tables(BuiltRows(EquipmentRows)) /\ IsLastOf(<<>>, <<>>)
<1>1. DOMAIN <<>> = {}
  OBVIOUS
<1>2. /\ <<>> \in [{} -> BuiltRows(EquipmentRows)]
      /\ {} \in SUBSET {row.asset : row \in BuiltRows(EquipmentRows)}
  OBVIOUS
<1>3. IsLastOf(<<>>, <<>>)
  BY <1>1 DEF IsLastOf
<1> QED BY <1>2, <1>3 DEF Tables

LEMMA ClearingStaysExact ==
  ASSUME NEW rd, NEW iv, NEW as, NEW eq, NEW acc, IsExact(rd, iv, as, eq, acc),
         NEW call, call = [kind |-> "clear", rows |-> <<>>]
  PROVE  IsExact(rd, iv, as, <<>>, Append(acc, call))
<1>1. call \in Calls(AllRows) /\ acc \in Seq(Calls(AllRows))
  BY DEF Calls, IsExact
<1>2. PICK new : new = Append(acc, call)
  OBVIOUS
<1>3. new \in Seq(Calls(AllRows)) /\ \A kind : RowsOf(kind, new) = Gathered(kind, RowsOf(kind, acc), call)
  BY <1>1, <1>2, AnotherCall
<1>4. call.kind = "clear"
  OBVIOUS
<1>5. /\ RowsOf("equipment", new) = <<>>
      /\ RowsOf("readings", new) = RowsOf("readings", acc)
      /\ RowsOf("intervals", new) = RowsOf("intervals", acc)
      /\ RowsOf("assignments", new) = RowsOf("assignments", acc)
  BY <1>3, <1>4 DEF Gathered
<1>6. /\ rd \in Seq(BuiltRows(ReadingRows)) /\ iv \in Seq(AllRows) /\ as \in Seq(AllRows)
      /\ rd = RowsOf("readings", acc) /\ iv = RowsOf("intervals", acc)
      /\ as = RowsOf("assignments", acc)
  BY DEF IsExact
<1>7. <<>> \in Tables(BuiltRows(EquipmentRows)) /\ IsLastOf(<<>>, <<>>)
  BY NothingDefined
<1>8. IsLastOf(<<>>, RowsOf("equipment", new))
  BY <1>5, <1>7
<1> QED BY <1>2, <1>3, <1>5, <1>6, <1>7, <1>8 DEF IsExact

\* The inductive invariant: the tables and the calls that returned
StoreInv == IsExact(readings, intervals, assignments, equipment, accepted)

\* The new store
LEMMA StoreStarts == StoreInit => StoreInv
<1>1. \A kind : RowsOf(kind, <<>>) = <<>>
  BY RowsOfNone
<1>2. <<>> \in Tables(BuiltRows(EquipmentRows)) /\ IsLastOf(<<>>, <<>>)
  BY NothingDefined
<1>3. IsExact(<<>>, <<>>, <<>>, <<>>, <<>>)
  BY <1>1, <1>2 DEF IsExact
<1> QED BY <1>3 DEF StoreInit, StoreInv

\* One batch of each kind
LEMMA ReadingsStep ==
  ASSUME StoreInv, NEW batch \in Seq(ReadingRows), InsertReadings(batch)
  PROVE  StoreInv'
<1>1. PICK rows, call : rows = BuiltAll(batch) /\ call = [kind |-> "readings", rows |-> rows]
  OBVIOUS
<1>2. rows \in Seq(BuiltRows(ReadingRows))
  BY <1>1, BuiltBatch DEF InsertReadings, Takes
<1>3. PICK rd, acc : rd = readings /\ acc = accepted
  OBVIOUS
<1>4. IsExact(rd, intervals, assignments, equipment, acc)
  BY <1>3 DEF StoreInv
<1>5. IsExact(rd \o rows, intervals, assignments, equipment, Append(acc, call))
  BY <1>1, <1>2, <1>4, ReadingsStayExact
<1>6. /\ readings' = rd \o rows /\ accepted' = Append(acc, call)
      /\ intervals' = intervals /\ assignments' = assignments /\ equipment' = equipment
  BY <1>1, <1>3 DEF InsertReadings, Returns
<1> QED BY <1>5, <1>6 DEF StoreInv

LEMMA IntervalsStep ==
  ASSUME StoreInv, NEW batch \in Seq(IntervalRows), InsertIntervals(batch)
  PROVE  StoreInv'
<1>1. PICK rows, call : rows = BuiltAll(batch) /\ call = [kind |-> "intervals", rows |-> rows]
  OBVIOUS
<1>2. rows \in Seq(AllRows)
  <2>1. rows \in Seq(BuiltRows(IntervalRows))
    BY <1>1, BuiltBatch DEF InsertIntervals, Takes
  <2> QED BY <2>1 DEF AllRows
<1>3. PICK iv, acc : iv = intervals /\ acc = accepted
  OBVIOUS
<1>4. IsExact(readings, iv, assignments, equipment, acc)
  BY <1>3 DEF StoreInv
<1>5. IsExact(readings, iv \o rows, assignments, equipment, Append(acc, call))
  BY <1>1, <1>2, <1>4, IntervalsStayExact
<1>6. /\ intervals' = iv \o rows /\ accepted' = Append(acc, call)
      /\ readings' = readings /\ assignments' = assignments /\ equipment' = equipment
  BY <1>1, <1>3 DEF InsertIntervals, Returns
<1> QED BY <1>5, <1>6 DEF StoreInv

\* A batch of assignments is taken whole or not at all.
LEMMA AssignmentsStep ==
  ASSUME StoreInv, NEW batch \in Seq(AssignmentRows), InsertAssignments(batch)
  PROVE  StoreInv'
<1>1. PICK rows, call : rows = BuiltAll(batch) /\ call = [kind |-> "assignments", rows |-> rows]
  OBVIOUS
<1>2. rows \in Seq(AllRows)
  <2>1. rows \in Seq(BuiltRows(AssignmentRows))
    BY <1>1, BuiltBatch DEF InsertAssignments, Takes
  <2> QED BY <2>1 DEF AllRows
<1>3. PICK as, acc : as = assignments /\ acc = accepted
  OBVIOUS
<1>4. IsExact(readings, intervals, as, equipment, acc)
  BY <1>3 DEF StoreInv
<1>5. /\ readings' = readings /\ intervals' = intervals /\ equipment' = equipment
  BY DEF InsertAssignments
<1>6. CASE WholeBatch(batch) = batch
  <2>1. IsExact(readings, intervals, as \o rows, equipment, Append(acc, call))
    BY <1>1, <1>2, <1>4, AssignmentsStayExact
  <2>2. assignments' = as \o rows /\ accepted' = Append(acc, call)
    BY <1>1, <1>3, <1>6 DEF InsertAssignments, Returns
  <2> QED BY <1>5, <2>1, <2>2 DEF StoreInv
<1>7. CASE WholeBatch(batch) # batch
  <2>1. WholeBatch(batch) = <<>>
    BY <1>7 DEF WholeBatch
  <2>2. assignments' = as \o BuiltAll(<<>>) /\ accepted' = acc
    BY <1>3, <1>7, <2>1 DEF InsertAssignments
  <2>3. BuiltAll(<<>>) = <<>>
    BY DEF BuiltAll
  <2>4. as \in Seq(AllRows)
    BY <1>4 DEF IsExact
  <2>5. assignments' = as
    <3>1. as \o <<>> = as
      BY <2>4
    <3> QED BY <2>2, <2>3, <3>1, Zenon
  <2> QED BY <1>4, <1>5, <2>2, <2>5 DEF StoreInv
<1> QED BY <1>6, <1>7

LEMMA EquipmentStep ==
  ASSUME StoreInv, NEW batch \in Seq(EquipmentRows), UpsertEquipments(batch)
  PROVE  StoreInv'
<1>1. PICK rows, call : rows = BuiltAll(batch) /\ call = [kind |-> "equipment", rows |-> rows]
  OBVIOUS
<1>2. rows \in Seq(BuiltRows(EquipmentRows))
  BY <1>1, BuiltBatch DEF UpsertEquipments, Takes
<1>3. PICK eq, acc : eq = equipment /\ acc = accepted
  OBVIOUS
<1>4. IsExact(readings, intervals, assignments, eq, acc)
  BY <1>3 DEF StoreInv
<1>5. IsExact(readings, intervals, assignments, FoldLeft(Upserted, eq, rows), Append(acc, call))
  BY <1>1, <1>2, <1>4, EquipmentStaysExact
<1>6. /\ equipment' = FoldLeft(Upserted, eq, rows) /\ accepted' = Append(acc, call)
      /\ readings' = readings /\ intervals' = intervals /\ assignments' = assignments
  BY <1>1, <1>3, Zenon DEF UpsertEquipments, Returns
<1> QED BY <1>5, <1>6, Zenon DEF StoreInv

LEMMA ClearStep == StoreInv /\ ClearEquipment => StoreInv'
<1> SUFFICES ASSUME StoreInv, ClearEquipment PROVE StoreInv'
  OBVIOUS
<1>1. PICK call : call = [kind |-> "clear", rows |-> <<>>]
  OBVIOUS
<1>2. BuiltAll(<<>>) = <<>>
  BY DEF BuiltAll
<1>3. PICK eq, acc : eq = equipment /\ acc = accepted
  OBVIOUS
<1>4. IsExact(readings, intervals, assignments, eq, acc)
  BY <1>3 DEF StoreInv
<1>5. IsExact(readings, intervals, assignments, <<>>, Append(acc, call))
  BY <1>1, <1>4, ClearingStaysExact
<1>6. /\ equipment' = <<>> /\ accepted' = Append(acc, call)
      /\ readings' = readings /\ intervals' = intervals /\ assignments' = assignments
  BY <1>1, <1>2, <1>3 DEF ClearEquipment, Returns
<1> QED BY <1>5, <1>6 DEF StoreInv

\* Every operation keeps it.
LEMMA StoreKeeps == StoreInv /\ [StoreNext]_storeVars => StoreInv'
<1> SUFFICES ASSUME StoreInv, [StoreNext]_storeVars PROVE StoreInv'
  OBVIOUS
<1>1. ASSUME NEW b \in Batches(ReadingRows), InsertReadings(b) PROVE StoreInv'
  BY <1>1, BatchIsSequence, ReadingsStep
<1>2. ASSUME NEW b \in Batches(IntervalRows), InsertIntervals(b) PROVE StoreInv'
  BY <1>2, BatchIsSequence, IntervalsStep
<1>3. ASSUME NEW b \in Batches(AssignmentRows), InsertAssignments(b) PROVE StoreInv'
  BY <1>3, BatchIsSequence, AssignmentsStep
<1>4. ASSUME NEW b \in Batches(EquipmentRows), UpsertEquipments(b) PROVE StoreInv'
  BY <1>4, BatchIsSequence, EquipmentStep
<1>5. ASSUME NEW row \in ReadingRows, InsertReading(row) PROVE StoreInv'
  <2>1. <<row>> \in Seq(ReadingRows)
    OBVIOUS
  <2> QED BY <1>5, <2>1, ReadingsStep DEF InsertReading
<1>6. ASSUME NEW row \in IntervalRows, InsertInterval(row) PROVE StoreInv'
  <2>1. <<row>> \in Seq(IntervalRows)
    OBVIOUS
  <2> QED BY <1>6, <2>1, IntervalsStep DEF InsertInterval
<1>7. ASSUME NEW row \in AssignmentRows, InsertAssignment(row) PROVE StoreInv'
  <2>1. <<row>> \in Seq(AssignmentRows)
    OBVIOUS
  <2> QED BY <1>7, <2>1, AssignmentsStep DEF InsertAssignment
<1>8. CASE ClearEquipment
  BY <1>8, ClearStep
<1>9. CASE CloseStore \/ UNCHANGED storeVars
  BY <1>9 DEF CloseStore, storeVars, StoreInv
<1> QED BY <1>1, <1>2, <1>3, <1>4, <1>5, <1>6, <1>7, <1>8, <1>9 DEF StoreNext

\* The invariant says all that HistoryIsExact does.
LEMMA ExactTables == StoreInv => HistoryIsExact
<1> SUFFICES ASSUME StoreInv PROVE HistoryIsExact
  OBVIOUS
<1>1. /\ readings \in Seq(BuiltRows(ReadingRows))
      /\ intervals \in Seq(AllRows) /\ assignments \in Seq(AllRows)
      /\ readings = RowsOf("readings", accepted) /\ intervals = RowsOf("intervals", accepted)
      /\ assignments = RowsOf("assignments", accepted)
      /\ IsLastOf(equipment, RowsOf("equipment", accepted))
  BY DEF StoreInv, IsExact
<1>2. EquipmentIsLast
  BY <1>1, Zenon DEF EquipmentIsLast, Defined, IsLastOf
<1>3. \A a : ReadingsAreRight(a)
  BY <1>1, ReadingsAreCounted, ReadingsRight
<1>4. \A a, i : \A n \in 1..(QueryCeiling - 1) :
        IsPrefix(IntervalPage(a, i, n), IntervalPage(a, i, n + 1))
  BY <1>1, IntervalsBegin, Zenon DEF Beginnings
<1>5. \A chosen : \A n \in 1..(QueryCeiling - 1) :
        IsPrefix(AssignmentPage(chosen, n), AssignmentPage(chosen, n + 1))
  BY <1>1, AssignmentsBegin, Zenon DEF Beginnings
<1>6. SearchesAgree
  <2>1. \A a \in DOMAIN equipment : equipment[a] \in BuiltRows(EquipmentRows)
    BY DEF StoreInv, IsExact, Tables
  <2>2. ASSUME NEW row \in EquipmentRows, Sound(row)
        PROVE  Built(row).asset \in Texts /\ Built(row).name \in Texts
    <3>1. /\ "asset" \in DOMAIN row /\ "name" \in DOMAIN row
          /\ AssetId(row.asset) \in Texts /\ row.name \in Texts
      BY <2>2, TextAssumption
    <3>2. Built(row).asset = AssetId(row.asset) /\ Built(row).name = row.name
      BY <3>1 DEF Built
    <3> QED BY <3>1, <3>2
  <2>3. \A row \in Listed : row.asset \in Texts /\ row.name \in Texts
    BY <2>1, <2>2 DEF Listed, BuiltRows, Soundly
  <2> QED BY <2>3, SearchesDo
<1> QED BY <1>1, <1>2, <1>3, <1>4, <1>5, <1>6, Zenon DEF HistoryIsExact, Beginnings

\* For any rows, assets, widths of intervals and ceilings, and any sequence of calls of any
\* batches: the tables of the store hold what the calls that returned were given and
\* nothing of a batch that was refused, the equipment is what was last defined, shorter
\* pages are where longer ones begin, bars say what the readings of their bucket do in
\* whatever order they arrived, averages are between readings, and a search finds with
\* the store nothing that the scan without it misses, and in texts that both read alike
\* the same page (store.py, transform.py and the search of service.py).
THEOREM HistoryAlwaysExact == StoreInit /\ [][StoreNext]_storeVars => []HistoryIsExact
<1>1. StoreInit => StoreInv
  BY StoreStarts
<1>2. StoreInv /\ [StoreNext]_storeVars => StoreInv'
  BY StoreKeeps
<1>3. StoreInv => HistoryIsExact
  BY ExactTables
<1> QED BY <1>1, <1>2, <1>3, PTL

=============================================================================
