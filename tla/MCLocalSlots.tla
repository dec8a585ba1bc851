---------------------------- MODULE MCLocalSlots ----------------------------
(* Small instances of LocalSlots.                                          *)
EXTENDS LocalSlots, TLC

CONSTANT m2

Bounds(model, q, f, r, o) ==
  [startup |-> model, requests |-> q, failures |-> f, restarts |-> r, overlap |-> o]

\* The operator changes his mind, one request after the other.
Sequential == {Bounds(m2, 2, 2, 1, 1)}

\* His requests overlap others, and the runtime or a request fails.
Overlapping ==
  {Bounds(None, 2, 0, 0, 2), Bounds(m2, 1, 1, 0, 2), Bounds(None, 1, 0, 1, 2)}

MCScenarios == Sequential \cup Overlapping
=============================================================================
