-------------------------- MODULE MCModelLifecycle --------------------------
(* Small instances of ModelLifecycle.                                      *)
EXTENDS ModelLifecycle, TLC

MCSymmetry == Permutations(Credentials) \cup Permutations(Handlers)
                \cup Permutations(Workers)
=============================================================================
