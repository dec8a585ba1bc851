-------------------------- MODULE MCKnowledgeBase --------------------------
(* Small instances of KnowledgeBase.                                       *)
EXTENDS KnowledgeBase, TLC

CONSTANTS short, w1

\* A short text, and a long one of two batches of chunks.
MCChunksOf == [x \in Texts |-> IF x = short THEN 1 ELSE 2]

\* A document is created, updated and deleted, one after the other or at
\* once.
Documents == [requests |-> 3, changes |-> 0, crashes |-> 0, runs |-> 0,
              workers |-> {w1}, texts |-> Texts]
\* Two of these with one run, and a crash of the process in the middle.
CrashedDocuments == [requests |-> 2, changes |-> 0, crashes |-> 1, runs |-> 1,
                     workers |-> {w1}, texts |-> Texts]
\* What a sync leaves behind shows in the next one.
Syncs == [requests |-> 2, changes |-> 1, crashes |-> 0, runs |-> 2,
          workers |-> {w1}, texts |-> Texts]
\* The process crashes in the middle of either sync.
CrashedSyncs == [requests |-> 2, changes |-> 0, crashes |-> 1, runs |-> 2,
                 workers |-> {w1}, texts |-> {short}]
\* Two workers; nothing is asked about contents.
Polls == [requests |-> 2, changes |-> 0, crashes |-> 0, runs |-> 2,
          workers |-> Workers, texts |-> {short}]

MCScenarios ==
  {Documents, CrashedDocuments, Syncs, CrashedSyncs, Polls}
=============================================================================
