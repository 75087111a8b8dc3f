-------------------------- MODULE MCScenarioRunner --------------------------
(* Two terminals, one scenario with one payload and one path of the          *)
(* participant's own.  There is no own directory or a nested one.  In an     *)
(* attempt the payload is edited in place and a file added, or the payload   *)
(* deleted and a link added, or an empty directory made.                     *)
EXTENDS ScenarioRunner, TLC

MCStage == <<"a">>
MCExtra == {"x"}
Of(a, x) == [f \in {"a", "x"} |-> IF f = "a" THEN a ELSE x]
MCContents == {"gone", "own", "dir", "link", "spoilt", "first",
                "second", "torn", "bare", "mine", "hollow"}
MCHomes == {Of("own", "dir")}
MCEdits == {Of("mine", "mine"), Of(Gone, "link"), Of("first", "hollow")}
MCSpoilt == Of("spoilt", Gone)
ProcSymmetry == Permutations(Procs)
=============================================================================
