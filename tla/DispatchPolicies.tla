-------------------------- MODULE DispatchPolicies --------------------------
(***************************************************************************)
(* What the dispatch policies (src/mittelwerk/dispatch_policies) keep      *)
(* between two evaluations: the bounded buffer of readings, the breach     *)
(* CapacityBreach has told of, and the imbalance the cross-asset policy    *)
(* holds to be active.  CapacityBreach is followed for one asset, since it *)
(* treats its assets one after the other; the score of the cross-asset     *)
(* policy, a floating-point statistic, may be any.                         *)
(***************************************************************************)
EXTENDS Integers, Sequences, SequencesExt, FiniteSetsExt

CONSTANTS Values,       \* what a reading may say
          Lookback,     \* parameters of CapacityBreach
          MinTicks,
          Multiplier,
          MaxBuffer,    \* max_buffer of _buffer_reading
          MaxReadings,  \* bound: readings
          MaxLooks      \* bound: evaluations

ASSUME PolicyAssumption ==
  /\ Values \subseteq Nat \ {0} /\ Multiplier \in Nat
  /\ Lookback \in Nat /\ Lookback >= 2
  /\ MinTicks \in Nat /\ MinTicks > Lookback
  /\ MaxBuffer \in Nat

VARIABLES buffer,    \* _reading_buffer of the asset
          stream,    \* history: every reading of it
          breached,  \* _breach_state of the asset
          imbalance, \* _active_imbalance of the pair
          looks,     \* history: the evaluations of CapacityBreach, and when they were
          scores     \* history: the evaluations of the cross-asset policy

policyVars == <<buffer, stream, breached, imbalance, looks, scores>>

PolicyInit ==
  /\ buffer = <<>> /\ stream = <<>>
  /\ breached = "none" /\ imbalance = "none"
  /\ looks = <<>> /\ scores = <<>>

-----------------------------------------------------------------------------
\* The oldest readings are evicted.
Trimmed(s) == SubSeq(s, Len(s) - Min({Len(s), MaxBuffer}) + 1, Len(s))

OnReading(v) ==
  /\ Len(stream) < MaxReadings
  /\ buffer' = Trimmed(Append(buffer, v))
  /\ stream' = Append(stream, v)
  /\ UNCHANGED <<breached, imbalance, looks, scores>>

\* The channel: the readings before the last one
Window(s) == SubSeq(s, Len(s) - Lookback, Len(s) - 1)

Distance(a, b) == IF a > b THEN a - b ELSE b - a
Moves(w) == MapThenSumSet(LAMBDA i : Distance(w[i], w[i + 1]), 1..(Lookback - 1))

\* Where the last reading lies; the average move is the moves over Lookback - 1.
Verdict(s) ==
  LET w == Window(s)
      upper == Max(ToSet(w))
      lower == Min(ToSet(w))
      current == Last(s)
      slack == Multiplier * Moves(w)
  IN  CASE (current - upper) * (Lookback - 1) > slack -> "high"
        [] (lower - current) * (Lookback - 1) > slack -> "low"
        [] lower =< current /\ current =< upper -> "inside"
        [] OTHER -> "near"

\* For mutation: a return into the channel is not noted.
BreachKept(v) == IF v \in {"high", "low"} THEN v ELSE breached

\* Between channel and threshold the state stays as it is, and so it does without an
\* evaluation.
BreachAfter(v) ==
  CASE v \in {"high", "low"} -> v
    [] v = "inside" -> "none"
    [] OTHER -> breached

\* CapacityBreach.generate_recommendations: an asset with too few readings is skipped.
LookForBreach ==
  LET v == IF Len(buffer) < MinTicks THEN "few" ELSE Verdict(buffer)
  IN  /\ Len(looks) < MaxLooks
      /\ looks' = Append(looks, [verdict |-> v, told |-> v \in {"high", "low"} /\ breached # v,
                                 at |-> Len(stream)])
      /\ breached' = BreachAfter(v)
      /\ UNCHANGED <<buffer, stream, imbalance, scores>>

\* The score of the pair against entry_z and exit_z; flat: no deviation to divide by
Scores == {"high", "low", "calm", "near", "flat"}

\* An imbalance is told when it is not the active one, its end when there was one.
Told(z) ==
  \/ z \in {"high", "low"} /\ imbalance # z
  \/ z = "calm" /\ imbalance # "none"

\* CrossAssetTelemetryImbalance.generate_recommendations
LookForImbalance(z) ==
  /\ Len(scores) < MaxLooks
  /\ scores' = Append(scores, [verdict |-> z, told |-> Told(z)])
  /\ imbalance' = CASE z \in {"high", "low"} -> z
                    [] z = "calm" -> "none"
                    [] OTHER -> imbalance
  /\ UNCHANGED <<buffer, stream, breached, looks>>

BreachNext == LookForBreach \/ \E v \in Values : OnReading(v)
ImbalanceNext == \E z \in Scores : LookForImbalance(z)

-----------------------------------------------------------------------------
\* Properties

\* The last evaluation before i that was decided
Decided(log, i, reset) == {j \in 1..(i - 1) : log[j].verdict \in {"high", "low", reset}}

\* Evaluation i is news: the last decided one before it, if any, says otherwise.
IsNews(log, i, reset) ==
  LET d == Decided(log, i, reset)
  IN  IF d = {} THEN log[i].verdict # reset ELSE log[Max(d)].verdict # log[i].verdict

\* What the whole stream of readings shows: a buffer that does not hold as many as are
\* asked for is never judged.
Shown(s) ==
  IF Len(s) < MinTicks \/ MaxBuffer < MinTicks THEN "few" ELSE Verdict(s)

\* What is evicted from the buffer is never missed: every evaluation tells a breach
\* exactly when the whole stream up to then shows one that was not yet told of, and
\* again once the readings were back inside the channel; and the cross-asset policy
\* tells each imbalance once, and its end only if it was told.
AlarmsOncePerEvent ==
  /\ \A i \in DOMAIN looks :
       /\ looks[i].verdict = Shown(SubSeq(stream, 1, looks[i].at))
       /\ looks[i].told <=> looks[i].verdict \in {"high", "low"} /\ IsNews(looks, i, "inside")
  /\ \A i \in DOMAIN scores :
       scores[i].told <=> scores[i].verdict \in {"high", "low", "calm"} /\ IsNews(scores, i, "calm")

=============================================================================
