---------------------------- MODULE MCToolCalls ----------------------------
(* Small instances of ToolCalls: every backend and caller with mishaps,      *)
(* two calls that share the sandbox, a tested server while the catalog is    *)
(* edited, two editors without a call.                                     *)
EXTENDS ToolCalls

CONSTANTS c1, c2

Scene(backends, origins, calls, edits, faults) ==
  [backend : backends, origin : origins, calls : {calls}, edits : {edits}, faults : {faults}]

MCScenes == Scene(Backends, Origins, {c1}, 0, 2)
            \cup Scene({"sandbox"}, {"agent"}, {c1, c2}, 0, 0)
            \cup Scene({"web"}, {"test"}, {c1}, 1, 0)
            \cup Scene({"web"}, {"agent"}, {}, 2, 0)

\* The first number, the one that follows it, one that leaves a gap, and none.
MCNamed == {-1, 1, 2, 3}
=============================================================================
