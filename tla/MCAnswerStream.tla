-------------------------- MODULE MCAnswerStream --------------------------
(* Small instances of AnswerStream: every route with and without the       *)
(* gateway, of one model or two, streamed or not, with two mishaps.        *)
EXTENDS AnswerStream

Setup(alias, kept, faults) ==
  [route : Routes, gateway : BOOLEAN, models : {1, 2}, streamed : BOOLEAN,
   alias : {alias}, kept : {kept}, faults : {faults}]

\* Without the alias of the local runtime, and in a chat that is not kept,
\* one mishap is enough.
MCSetups == Setup(TRUE, TRUE, 2) \cup Setup(FALSE, TRUE, 1) \cup Setup(TRUE, FALSE, 1)
===========================================================================
