-------------------------- MODULE MCWorkflowChat --------------------------
(* A small instance of WorkflowChat.                                       *)
EXTENDS WorkflowChat, TLC

\* Requests differ in nothing but their names.
Symmetry == Permutations(Requests)

\* Of four requests two overlap and one thing goes wrong, or three overlap
\* and nothing does, or they come one after the other and much goes wrong.
\* What settings or a row that are gone leave behind shows in three.
None == [failures |-> 0, losses |-> 0, crashes |-> 0, deletions |-> 0,
         requests |-> 4, overlap |-> 2]
MCRooms == { [None EXCEPT !.failures = 1], [None EXCEPT !.crashes = 1],
             [None EXCEPT !.overlap = 3],
             [None EXCEPT !.requests = 3, !.losses = 1],
             [None EXCEPT !.requests = 3, !.deletions = 1],
             [None EXCEPT !.failures = 2, !.crashes = 1, !.overlap = 1] }
=============================================================================
