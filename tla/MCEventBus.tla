----------------------------- MODULE MCEventBus -----------------------------
(* Small sets of subscriptions for the event bus. *)
EXTENDS EventBus, TLC

CONSTANTS work, telemetry

Everything == {}
Filtered == {Everything, {work}}
Unfiltered == {Everything}

Symmetric == Permutations(Handles)
=============================================================================
