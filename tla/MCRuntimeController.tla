------------------------ MODULE MCRuntimeController ------------------------
(* Small instances of RuntimeController: the same id can be loaded again   *)
(* while waiters of earlier loads run.                                     *)
EXTENDS RuntimeController, TLC
=============================================================================
