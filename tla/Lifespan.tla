------------------------------ MODULE Lifespan ------------------------------
(***************************************************************************)
(* One life of the application (src/main.py): it is wired by create_app,   *)
(* its lifespan starts the event bus, the telemetry feed and the task that *)
(* pumps readings into the engine, serves, and releases all of it again.   *)
(* Any step may fail, and a cancellation or an interrupt may arrive at any *)
(* step, at several of them too.                                           *)
(***************************************************************************)
EXTENDS Integers, Sequences

VARIABLES phase,       \* where the lifespan stands
          setup,       \* whether a feed is configured, and whose the store is
          acquired,    \* the resources the teardown has to release
          up,          \* the resources that run or are open
          pump,        \* the feed task: none, running, done, failed, cancelled
          notice,      \* what its done-callback logged: nothing yet, quiet, alarm
          ending,      \* history: the phase in which the feed task ended
          todo,        \* the teardown steps that are still to run
          failures,    \* the steps that failed
          controlling, \* the step whose interruption is raised again in the end
          inFlight,    \* what ends the serving: nothing, an error, a cancellation
          hit,         \* history: the steps an interruption reached, in order
          result       \* how the lifespan ends

lifeVars == <<phase, setup, acquired, up, pump, notice, ending, todo, failures,
              controlling, inFlight, hit, result>>
watchVars == <<notice, ending>>

Has(seq, x) == \E i \in DOMAIN seq : seq[i] = x

\* _build_feed() gives a feed or none; a store is handed in, opened or left out.
Setups == [feed : BOOLEAN, store : {"none", "owned", "given"}]

LifeInit ==
  /\ phase = "wiring"
  /\ setup \in Setups
  /\ acquired = {}
  /\ up = IF setup.store = "none" THEN {} ELSE {"store"}
  /\ pump = "none"
  /\ notice = "none"
  /\ ending = "none"
  /\ todo = <<>>
  /\ failures = {}
  /\ controlling = "none"
  /\ inFlight = "nothing"
  /\ hit = <<>>
  /\ result = "none"

-----------------------------------------------------------------------------
\* The store goes with the lifespan only if create_app opened it.
OwnsStore == setup.store = "owned"

Wire ==
  /\ phase = "wiring"
  /\ phase' = "starting bus"
  /\ UNCHANGED <<watchVars, setup, acquired, up, pump, todo, failures,
                 controlling, inFlight, hit, result>>

\* Wiring fails after the store was opened: no lifespan will close it.
FailToWire ==
  /\ phase = "wiring"
  /\ phase' = "ended"
  /\ up' = IF OwnsStore THEN up \ {"store"} ELSE up
  /\ result' = "error"
  /\ UNCHANGED <<watchVars, setup, acquired, pump, todo, failures, controlling,
                 inFlight, hit>>

\* The flag is set before the start is awaited.
Intended(r) == acquired \cup {r}

\* The teardown, as far as there is something to release
If(present, step) == IF present THEN <<step>> ELSE <<>>

StepsFor(acq) ==
  If("feed" \in acq, "feed") \o If(pump # "none", "pump")
    \o If("bus" \in acq, "bus") \o If(OwnsStore, "store")

BeginTeardown(acq) ==
  /\ phase' = "releasing"
  /\ todo' = StepsFor(acq)

\* event_bus.start() or feed.start(): what it changed before it fails stays.
Start(r, here, next) ==
  /\ phase = here
  /\ \/ /\ phase' = next
        /\ up' = up \cup {r}
        /\ acquired' = Intended(r)
        /\ pump' = IF r = "feed" THEN "running" ELSE pump
        /\ UNCHANGED <<todo, inFlight>>
     \/ /\ up' \in {up, up \cup {r}}
        /\ acquired' = Intended(r)
        /\ inFlight' \in {"error", "cancellation"}
        /\ BeginTeardown(acquired')
        /\ UNCHANGED pump
  /\ UNCHANGED <<watchVars, setup, failures, controlling, hit, result>>

StartBus == Start("bus", "starting bus", IF setup.feed THEN "starting feed" ELSE "serving")
StartFeed == Start("feed", "starting feed", "serving")

\* The feed task ends: with the feed, by an error, or because it is cancelled.
PumpEnds ==
  /\ pump = "running"
  /\ pump' \in {"failed", "cancelled"} \cup (IF "feed" \in up THEN {} ELSE {"done"})
  /\ ending' = phase
  /\ UNCHANGED <<notice, phase, setup, acquired, up, todo, failures, controlling,
                 inFlight, hit, result>>

\* _ShutdownFlag
ShuttingDown == phase \in {"releasing", "cancelling", "ended"}

\* The done-callback of the feed task, which the event loop calls some time after
\* the task has ended: an end nobody asked for is logged as an error.
Notice ==
  /\ pump \in {"done", "failed", "cancelled"} /\ notice = "none"
  /\ notice' = IF pump = "failed" \/ ~ShuttingDown THEN "alarm" ELSE "quiet"
  /\ UNCHANGED <<phase, setup, acquired, up, pump, ending, todo, failures, controlling,
                 inFlight, hit, result>>

StopServing ==
  /\ phase = "serving"
  /\ inFlight' \in {"nothing", "error", "cancellation"}
  /\ BeginTeardown(acquired)
  /\ UNCHANGED <<watchVars, setup, acquired, up, pump, failures, controlling,
                 hit, result>>

-----------------------------------------------------------------------------
\* _release_resources

Current == Head(todo)
Releasing(s) == phase = "releasing" /\ todo # <<>> /\ Current = s

\* For mutation: a step that fails ends the teardown.
AfterFailureStops == <<>>

\* Every step is tried, whatever became of the one before.
AfterFailure == Tail(todo)

Succeed ==
  /\ todo' = Tail(todo)
  /\ UNCHANGED <<failures, controlling, hit>>

Fail ==
  /\ todo' = AfterFailure
  /\ failures' = failures \cup {Current}
  /\ UNCHANGED <<controlling, hit>>

\* For mutation: the last interruption is kept.
KeepLast == Current

\* "if outcome.controlling is None"
Keep == IF controlling = "none" THEN Current ELSE controlling

Interrupt ==
  /\ todo' = Tail(todo)
  /\ controlling' = Keep
  /\ hit' = Append(hit, Current)
  /\ UNCHANGED failures

\* feed.stop(), event_bus.stop() and store.close(); one that does not succeed may
\* have done its work or not.
Release(r) ==
  /\ Releasing(r)
  /\ \/ Succeed /\ up' = up \ {r}
     \/ (Fail \/ Interrupt) /\ up' \in {up, up \ {r}}
  /\ UNCHANGED <<watchVars, phase, setup, acquired, pump, inFlight, result>>

\* _stop_task, when the task has ended: its error is a failure of the step; that it
\* was cancelled is none, not even if a cancellation arrives together with that.
Drain ==
  /\ Releasing("pump")
  /\ CASE pump \in {"done", "cancelled"} -> Succeed
       [] pump = "failed" -> Fail
       [] OTHER -> FALSE
  /\ UNCHANGED <<watchVars, phase, setup, acquired, up, pump, inFlight, result>>

\* A cancellation reaches the wait for the task; the shield keeps it from the task.
DrainInterrupted ==
  /\ Releasing("pump")
  /\ pump # "cancelled"
  /\ Interrupt
  /\ UNCHANGED <<watchVars, phase, setup, acquired, up, pump, inFlight, result>>

\* The task overruns the timeout and is cancelled; the wait for that suppresses
\* every cancellation, also one that is meant for the lifespan.
DrainTimesOut ==
  /\ Releasing("pump")
  /\ pump = "running"
  /\ phase' = "cancelling"
  /\ UNCHANGED <<watchVars, setup, acquired, up, pump, todo, failures,
                 controlling, inFlight, hit, result>>

EndCancelling ==
  /\ phase = "cancelling"
  /\ phase' = "releasing"
  /\ pump' \in IF pump = "running" THEN {"cancelled", "failed"} ELSE {pump}
  /\ ending' = IF pump = "running" THEN phase ELSE ending
  /\ IF pump' = "failed" THEN Fail ELSE Succeed
  /\ UNCHANGED <<notice, setup, acquired, up, inFlight, result>>

InterruptedAt(s) == "interrupted at " \o s

\* _report_shutdown_failures, and what is raised if it raises nothing
Outcome ==
  IF controlling # "none" THEN InterruptedAt(controlling)
  ELSE IF inFlight # "nothing" THEN inFlight
  ELSE IF failures # {} THEN "teardown failed" ELSE "clean"

Report ==
  /\ phase = "releasing" /\ todo = <<>>
  /\ phase' = "ended"
  /\ result' = Outcome
  /\ UNCHANGED <<watchVars, setup, acquired, up, pump, todo, failures,
                 controlling, inFlight, hit>>

LifeNext ==
  \/ Wire \/ FailToWire \/ StartBus \/ StartFeed \/ PumpEnds \/ Notice \/ StopServing
  \/ \E r \in {"feed", "bus", "store"} : Release(r)
  \/ Drain \/ DrainInterrupted \/ DrainTimesOut \/ EndCancelling \/ Report

LifeSpec == LifeInit /\ [][LifeNext]_lifeVars

-----------------------------------------------------------------------------
\* What /health says of the feed: app.state.feed_task is cleared in the end.
FeedState ==
  CASE ~setup.feed -> "off"
    [] pump = "running" /\ phase # "ended" -> "running"
    [] OTHER -> "stopped"

\* health_check
Health == IF FeedState = "stopped" THEN "degraded" ELSE "healthy"

-----------------------------------------------------------------------------
\* Properties

Ended == phase = "ended"

\* Nothing outlives the application but for a reason it reports: what still runs
\* or is open in the end is a store somebody handed in, or a resource whose own
\* release failed or was interrupted.  One broken resource never strands another.
OnlyTheBrokenSurvive ==
  Ended => \A r \in up : \/ r = "store" /\ setup.store = "given"
                         \/ r \in failures
                         \/ Has(hit, r)

\* A cancellation or an interrupt is never downgraded: the first one that reached
\* the teardown ends the lifespan, and an error that was already under way is not
\* replaced by a failure of the cleanup.
FirstCause ==
  Ended /\ result # "none" =>
    /\ hit # <<>> => result = InterruptedAt(Head(hit))
    /\ hit = <<>> /\ inFlight # "nothing" => result = inFlight
    /\ hit = <<>> /\ inFlight = "nothing" /\ failures # {} => result = "teardown failed"

\* The feed task never dies in silence, and its orderly end is no alarm: the teardown
\* fails with the error of a task that failed unless the wait for it was interrupted,
\* an alarm tells of an error or of an end before the shutdown, and a server that
\* calls itself healthy has a feed that runs or was configured without one.
FeedTaskIsWatched ==
  /\ Ended /\ pump = "failed" => "pump" \in failures \/ Has(hit, "pump")
  /\ notice = "alarm" => pump = "failed" \/ ending \notin {"releasing", "cancelling", "ended"}
  /\ phase = "serving" /\ Health = "healthy" => (setup.feed <=> "feed" \in up)

\* What ended the application, and its feed task, is reported as what it was.
CausesAreReported == FirstCause /\ FeedTaskIsWatched

=============================================================================
