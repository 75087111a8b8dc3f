----------------------------- MODULE MCRuntime ------------------------------
(***************************************************************************)
(* The small machines around the engine and beside it, each on its own:    *)
(* TLC follows one of them in each behaviour, since none of them shares a  *)
(* variable with another.                                                  *)
(***************************************************************************)
EXTENDS Lifespan, FeedAdapter, KeyRing, TokenBucket, DispatchPolicies,
        TelemetryStore, LegacyReset, EvidenceCheck, TLC

VARIABLE machine

Machines == {"lifespan", "adapter", "keys", "bucket", "breaches", "imbalances",
             "store", "legacy", "evidence"}

edgeVars == <<lifeVars, adapterVars, keyVars>>     \* the server's edges
toolVars == <<bucketVars, policyVars, storeVars>>  \* what it works with
helpVars == <<legacyVars, evidenceVars>>           \* the workshop's command line

vars == <<machine, edgeVars, toolVars, helpVars>>

Init ==
  /\ machine \in Machines
  /\ LifeInit /\ AdapterInit /\ KeyInit /\ BucketInit /\ PolicyInit
  /\ StoreInit /\ LegacyInit /\ EvidenceInit
  /\ machine # "lifespan" => setup = [feed |-> FALSE, store |-> "none"]
  /\ machine # "keys" => records = NoRecords
  /\ machine # "legacy" => ~dirMade /\ \A t \in TargetSet : contents[t] = "none"

Runs(m) == machine = m /\ UNCHANGED machine

Next ==
  \/ /\ Runs("lifespan") /\ LifeNext
     /\ UNCHANGED <<adapterVars, keyVars, toolVars, helpVars>>
  \/ /\ Runs("adapter") /\ AdapterNext
     /\ UNCHANGED <<lifeVars, keyVars, toolVars, helpVars>>
  \/ /\ Runs("keys") /\ KeyNext
     /\ UNCHANGED <<lifeVars, adapterVars, toolVars, helpVars>>
  \/ /\ Runs("bucket") /\ BucketNext
     /\ UNCHANGED <<edgeVars, policyVars, storeVars, helpVars>>
  \/ /\ \/ Runs("breaches") /\ BreachNext
        \/ Runs("imbalances") /\ ImbalanceNext
     /\ UNCHANGED <<edgeVars, bucketVars, storeVars, helpVars>>
  \/ /\ Runs("store") /\ StoreNext
     /\ UNCHANGED <<edgeVars, bucketVars, policyVars, helpVars>>
  \/ /\ Runs("legacy") /\ LegacyNext
     /\ UNCHANGED <<edgeVars, toolVars, evidenceVars>>
  \/ /\ Runs("evidence") /\ EvidenceNext
     /\ UNCHANGED <<edgeVars, toolVars, legacyVars>>

AdapterOnly(step) ==
  Runs("adapter") /\ step /\ UNCHANGED <<lifeVars, keyVars, toolVars, helpVars>>

Spec == /\ Init /\ [][Next]_vars
        /\ WF_vars(AdapterOnly(TaskProgress))
        /\ WF_vars(AdapterOnly(Closed))

-----------------------------------------------------------------------------
\* Values

Permits == SUBSET {"read", "dispatch"} \ {{}}

\* Rows: two readings of one instant in different offsets, one before them in their
\* bar, another asset's, and rows that are refused
Exactly(n) == [kind |-> "decimal", n |-> n]
At(t) == [clock |-> t, offset |-> 0]
Reading(a, t, v) == [asset |-> a, figure |-> Exactly(v), when |-> At(t), samples |-> v]
SomeReadings ==
  {Reading("cnc", 1, 1), Reading("cnc", 0, 2), Reading("press", 2, 2),
   [Reading("CNC", 2, 3) EXCEPT !.when.offset = 1],
   [Reading("cnc", 1, 1) EXCEPT !.figure.kind = "float"]}
SomeIntervals ==
  {[asset |-> "cnc", interval |-> "1m", figure |-> Exactly(v), when |-> At(0), samples |-> v] :
     v \in {1, 2}}
SomeAssignments ==
  {[id |-> "first", asset |-> "cnc", figure |-> Exactly(1), when |-> At(1)],
   [id |-> "second", asset |-> "press", figure |-> Exactly(1), when |-> At(0)],
   [id |-> "third", asset |-> "press", figure |-> Exactly(1),
    when |-> [clock |-> 0, offset |-> 99]]}
SomeEquipment ==
  {[asset |-> "cnc", name |-> "Masz", figure |-> Exactly(1)],
   [asset |-> "CNC", name |-> "Mass", figure |-> Exactly(1)],
   [asset |-> "press", name |-> "Mass", figure |-> Exactly(1)]}
SomeIds == [a \in {"cnc", "CNC", "press", " "} |->
              CASE a = "press" -> "PRESS" [] a = " " -> "none" [] OTHER -> "CNC"]
SomeOrder == <<"CNC", "PRESS">>

\* Texts letter by letter, the German sharp s written sz, and what the two foldings make
\* of a letter
Spelled ==
  [t \in {"CNC", "PRESS", "Mass", "Masz", "ss", "sz", "a"} |->
     CASE t = "CNC" -> <<"C", "N", "C">>
       [] t = "PRESS" -> <<"P", "R", "E", "S", "S">>
       [] t = "Mass" -> <<"M", "a", "s", "s">>
       [] t = "Masz" -> <<"M", "a", "sz">>
       [] t = "ss" -> <<"s", "s">>
       [] OTHER -> <<t>>]
Capitals == <<"C", "E", "M", "N", "P", "R", "S">>
Lowers == <<"c", "e", "m", "n", "p", "r", "s">>
Lower(letter) ==
  IF \E i \in DOMAIN Capitals : Capitals[i] = letter
  THEN Lowers[CHOOSE i \in DOMAIN Capitals : Capitals[i] = letter] ELSE letter
FoldLetter(letter) == IF letter = "sz" THEN <<"s", "s">> ELSE <<Lower(letter)>>
SomeLikeForms == [t \in DOMAIN Spelled |-> [i \in DOMAIN Spelled[t] |-> Lower(Spelled[t][i])]]
SomeCasefolds ==
  [t \in DOMAIN Spelled |-> FlattenSeq([i \in DOMAIN Spelled[t] |-> FoldLetter(Spelled[t][i])])]

\* Two figures that no binary float tells apart
SomeDoubles == [n \in 1..3 |-> IF n = 3 THEN 2 ELSE n]

SomeTargets == <<"api", "tests">>

\* A line of an evidence file: a heading or not, the label and the value of a field
Line(level, label, chars, left) ==
  [level |-> level, starts |-> label, words |-> 1, chars |-> chars,
   mentions |-> TRUE, template |-> left]
SomeLines ==
  {Line(2, "section", 0, FALSE), Line(3, "block", 0, FALSE),
   Line(0, "field", 2, FALSE), Line(0, "field", 1, FALSE),
   Line(0, "decision", 2, FALSE), Line(0, "text", 0, TRUE)}
=============================================================================
