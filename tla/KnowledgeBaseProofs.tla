------------------------ MODULE KnowledgeBaseProofs ------------------------
(***************************************************************************)
(* Proofs about the knowledge base: the types of its state, the job queue  *)
(* that its sync runs are, what becomes of the chunks in its index, and    *)
(* what the success of an operation means.                                 *)
(*                                                                         *)
(* The first invariant describes the plans of the threads: which calls an  *)
(* operation makes, in which order, and what each call finds in the locals *)
(* it uses.  The others say, of the call a thread is about to make, what   *)
(* the operation has achieved so far.                                      *)
(***************************************************************************)
EXTENDS KnowledgeBase, FiniteSetTheorems, TLAPS

-----------------------------------------------------------------------------
(* What each thread has in its hands.                                      *)

Results == {"ready", "syncing", "error"}
RowType == [text : Texts \cup {None}, chunks : 0..MaxChunks, linked : BOOLEAN]
LocalType == [op : Ops, plan : Seq(Calls), result : Results,
              doc : Docs \cup {None}, text : Texts \cup {None}, n : Nat,
              todo : SUBSET Docs, seen : SUBSET Files, snap : [Docs -> RowType],
              run : Runs \cup {NoRun}]

Reports == {"result", "source_result"}
Rebuilds == {"wipe", "each_stored", "list", "count", "result", "finish"}
Syncs == {"sync", "resync"}
Steps == Calls \ {"snapshot", "finish"}

\* The calls that an operation makes at some time.
Makes(op, c) ==
  \/ op = "create" /\ c \in {"mark", "chunk", "insert", "upsert", "remove",
                             "list", "count", "result"}
  \/ op = "update" /\ c \in {"mark", "chunk", "unindex", "update", "upsert",
                             "list", "count", "result"}
  \/ op = "delete" /\ c \in {"mark", "unindex", "remove", "list", "count", "result"}
  \/ op = "drop" /\ c \in {"mark", "each_pruned", "unindex", "remove", "drop_source",
                           "list", "count", "result"}
  \/ op = "edit" /\ c = "result"
  \/ op = "request_sync" /\ c \in {"mark", "mark_source"}
  \/ op = "request_resync" /\ c = "mark"
  \/ op \in Syncs /\ c \in {"mark", "mark_source", "scan", "each_file",
       "insert", "upsert", "unindex", "update", "prune", "each_pruned", "remove",
       "list", "count", "finish", "source_result", "result"}
  \/ op = "sync" /\ c = "resolve"
  \/ op = "resync" /\ c \in {"reconcile", "snapshot", "wipe", "each_stored", "recount"}

\* The order in which it makes them.
Follows(op, a, b) ==
  \/ a = "mark" /\ \/ op \in {"create", "update"} /\ b = "chunk"
                   \/ op = "delete" /\ b = "unindex"
                   \/ op = "drop" /\ b = "each_pruned"
                   \/ op \in {"request_sync", "sync"} /\ b = "mark_source"
                   \/ op = "resync" /\ b = "reconcile"
  \/ a = "chunk" /\ \/ op = "create" /\ b = "insert"
                    \/ op = "update" /\ b = "unindex"
  \/ a = "insert" /\ b = "upsert"
  \/ a = "upsert" /\ \/ op \in {"create", "update"} /\ b = "list"
                     \/ op = "sync" /\ b = "each_file"
                     \/ op = "resync" /\ b \in {"each_file", "each_stored"}
  \/ a = "unindex" /\ \/ op \in {"update", "sync", "resync"} /\ b = "update"
                      \/ op \in {"delete", "drop", "sync", "resync"} /\ b = "remove"
  \/ a = "update" /\ b = "upsert"
  \/ a = "remove" /\ \/ op \in {"create", "delete"} /\ b = "list"
                     \/ op \in {"drop", "sync", "resync"} /\ b = "each_pruned"
  \/ a = "each_pruned" /\ \/ op = "drop" /\ b = "drop_source"
                          \/ op \in Syncs /\ b = "list"
  \/ a = "drop_source" /\ b = "list"
  \/ a = "resolve" /\ b = "mark"
  \/ a = "reconcile" /\ b = "snapshot"
  \/ a = "mark_source" /\ b = "scan"
  \/ a \in {"scan", "each_file"} /\ b = "prune"
  \/ a = "prune" /\ b = "list"
  \/ a = "snapshot" /\ b = "wipe"
  \/ a = "wipe" /\ b = "each_stored"
  \/ a = "each_stored" /\ b = "list"
  \/ a = "recount" /\ b = "upsert"
  \/ a = "list" /\ b = "count"
  \/ a = "count" /\ \/ op \in {"create", "update", "delete", "drop"} /\ b = "result"
                    \/ op = "sync" /\ b = "finish"
                    \/ op = "resync" /\ b \in {"source_result", "result"}
  \/ a = "finish" /\ \/ op = "sync" /\ b = "source_result"
                     \/ op = "resync" /\ b = "result"
  \/ a = "source_result" /\ \/ op = "sync" /\ b = "result"
                            \/ op = "resync" /\ b \in {"snapshot", "finish"}
  \/ a = "result" /\ op = "resync" /\ b = "finish"

Chained(op, s) ==
  /\ \A i \in 1..Len(s) : Makes(op, s[i])
  /\ \A i \in 1..(Len(s) - 1) : Follows(op, s[i], s[i + 1])

\* The snapshot is taken once, for the index to be rebuilt from it, and a run
\* is reported once, after which only statuses are written.
Once(s) ==
  \A i, j \in 1..Len(s) : i < j =>
    /\ s[i] = "snapshot" => s[j] \in Rebuilds
    /\ s[i] = "finish" => s[j] \in Reports

Reporting(s) == \A i \in 1..Len(s) : s[i] \in Reports

PlanOK(op, s) ==
  /\ s \in Seq(Calls) /\ Chained(op, s) /\ Once(s)
  /\ op \in Syncs => Among("finish", s) \/ Reporting(s)

Is(L, calls) == L.plan # << >> /\ Head(L.plan) \in calls

\* The locals of an operation, and what a call finds in those it uses.
FieldsOK(L) ==
  /\ L.op # "edit" => L.result # "syncing"
  /\ L.op \in Syncs <=> L.run # NoRun
  /\ L.op \in {"create", "update", "delete"} => L.doc \in ManualDocs
  /\ L.op \notin Syncs \cup {"drop"} => L.todo = {}
  /\ L.op \in {"sync", "drop"} => L.todo \subseteq Files
  /\ Among("each_file", L.plan) => L.todo \subseteq Files

Args(L) ==
  /\ Is(L, {"unindex", "remove", "insert", "update", "upsert", "recount"})
       => L.doc \in Docs
  /\ Is(L, {"insert", "update", "upsert", "recount"}) => L.text \in Texts
  /\ L.op \in {"create", "update"} /\ Is(L, {"mark", "chunk", "unindex"})
       => L.text \in Texts
  /\ Is(L, {"unindex"}) /\ Len(L.plan) > 1 /\ L.plan[2] = "update" => L.text \in Texts
  /\ Is(L, {"unindex"}) => L.n <= L.snap[L.doc].chunks
  /\ Is(L, {"upsert"}) => L.n <= ChunksOf[L.text]
  /\ Is(L, {"count"}) => L.n <= Cardinality(Docs)
  /\ Among("each_pruned", L.plan) /\ Is(L, {"unindex", "remove"}) => L.doc \notin L.todo
  /\ Is(L, {"insert", "unindex", "update", "recount", "upsert"}) /\ L.op # "create"
       => L.doc \notin L.todo

LocalOK(L) ==
  /\ L \in LocalType
  /\ L.op = "none" \/ L.plan = << >> => L = Idling
  /\ PlanOK(L.op, L.plan) /\ FieldsOK(L) /\ Args(L)

\* The other variables.
KbType == [status : Results, count : 0..Cardinality(Docs)]
SourceType == [exists : BOOLEAN, active : BOOLEAN, status : Results]
RunType == [op : Syncs, status : {"new", "queued", "running", "ready", "error",
                                  "deleted"}]
DataOK ==
  /\ kb \in KbType
  /\ rows \in [Docs -> RowType]
  /\ index \in [Docs -> [Ordinals -> Texts \cup {None}]]
  /\ source \in SourceType
  /\ files \in [Files -> Texts \cup {None}]
  /\ runs \in [Runs -> RunType]
  /\ minted \subseteq ManualDocs
  /\ room \in Scenario
  /\ alone \subseteq Threads
  /\ mixed \subseteq Docs

LocalsOK == DOMAIN thread = Threads /\ \A t \in Threads : LocalOK(thread[t])

TypeInv == DataOK /\ LocalsOK

-----------------------------------------------------------------------------
(* Plans.                                                                  *)

\* What is left of a plan after its first call.
LEMMA TailPlan ==
  ASSUME NEW op, NEW s, PlanOK(op, s), s # << >>
  PROVE  /\ PlanOK(op, Tail(s)) /\ Makes(op, Head(s)) /\ Head(s) \in Calls
         /\ Tail(s) # << >> => Follows(op, Head(s), Head(Tail(s)))
         /\ \A c : Among(c, s) <=> c = Head(s) \/ Among(c, Tail(s))
         /\ Head(s) = "snapshot" => \A c : Among(c, Tail(s)) => c \in Rebuilds
         /\ Head(s) = "finish" => Reporting(Tail(s))
         /\ op \in Syncs /\ Head(s) \notin Reports \cup {"finish"}
              => Among("finish", Tail(s))
         /\ Tail(s) # << >> => Head(Tail(s)) = s[2] /\ Len(s) > 1
<1> DEFINE t == Tail(s)
<1>1. s \in Seq(Calls)
  BY DEF PlanOK
<1>2. /\ t \in Seq(Calls) /\ Head(s) = s[1] /\ Len(s) \in Nat \ {0} /\ Len(t) = Len(s) - 1
      /\ \A i \in 1..(Len(s) - 1) : t[i] = s[i + 1]
      /\ t # << >> => Head(t) = s[2] /\ 2 \in 2..Len(s)
      /\ \A i \in 1..Len(s) : s[i] \in Calls
  BY <1>1
<1> HIDE DEF t
<1>3. \A i \in 1..Len(t) : i + 1 \in 1..Len(s) /\ i + 1 # 1 /\ t[i] = s[i + 1]
  BY <1>2
<1>4. Chained(op, t)
  <2>1. \A i \in 1..Len(t) : Makes(op, t[i])
    BY <1>3 DEF PlanOK, Chained
  <2>2. ASSUME NEW i \in 1..(Len(t) - 1) PROVE Follows(op, t[i], t[i + 1])
    <3>1. /\ i + 1 \in 1..(Len(s) - 1) /\ t[i] = s[i + 1] /\ t[i + 1] = s[(i + 1) + 1]
      BY <1>2
    <3> QED BY <3>1 DEF PlanOK, Chained
  <2> QED BY <2>1, <2>2 DEF Chained
<1>5. Once(t)
  <2>1. ASSUME NEW i \in 1..Len(t), NEW j \in 1..Len(t)
        PROVE  i < j => /\ t[i] = "snapshot" => t[j] \in Rebuilds
                        /\ t[i] = "finish" => t[j] \in Reports
    <3>1. /\ i + 1 \in 1..Len(s) /\ j + 1 \in 1..Len(s)
          /\ t[i] = s[i + 1] /\ t[j] = s[j + 1]
          /\ i < j => i + 1 < j + 1
      BY <1>2
    <3> QED BY <3>1 DEF PlanOK, Once
  <2> QED BY <2>1 DEF Once
<1>6. \A c : Among(c, s) <=> c = Head(s) \/ Among(c, t)
  <2>1. ASSUME NEW c, Among(c, s), c # Head(s) PROVE Among(c, t)
    <3>1. PICK i \in 1..Len(s) : s[i] = c
      BY <2>1 DEF Among
    <3>2. i - 1 \in 1..Len(t) /\ t[i - 1] = c
      BY <1>2, <2>1, <3>1
    <3> QED BY <3>2 DEF Among
  <2>2. ASSUME NEW c, Among(c, t) PROVE Among(c, s)
    BY <1>3, <2>2 DEF Among
  <2>3. Among(Head(s), s)
    BY <1>2 DEF Among
  <2> QED BY <2>1, <2>2, <2>3
<1>7. Head(s) = "snapshot" => \A c : Among(c, t) => c \in Rebuilds
  <2>1. \A i \in 1..Len(t) : 1 \in 1..Len(s) /\ i + 1 \in 1..Len(s) /\ 1 < i + 1
    BY <1>2
  <2> QED BY <1>2, <1>3, <2>1, SMTT(30) DEF PlanOK, Once, Among
<1>8. Head(s) = "finish" => Reporting(t)
  <2>1. \A i \in 1..Len(t) : 1 \in 1..Len(s) /\ i + 1 \in 1..Len(s) /\ 1 < i + 1
    BY <1>2
  <2> QED BY <1>2, <1>3, <2>1 DEF PlanOK, Once, Reporting
<1>9. op \in Syncs => Among("finish", t) \/ Reporting(t)
  <2>1. Reporting(s) => Reporting(t)
    BY <1>3 DEF Reporting
  <2> QED BY <1>6, <1>8, <2>1 DEF PlanOK
<1>10. op \in Syncs /\ Head(s) \notin Reports \cup {"finish"} => Among("finish", t)
  <2>1. Reporting(s) => Head(s) \in Reports
    BY <1>2 DEF Reporting
  <2> QED BY <1>6, <2>1 DEF PlanOK
<1>11. Makes(op, Head(s)) /\ (t # << >> => Follows(op, Head(s), Head(t)))
  <2>1. Makes(op, s[1])
    BY <1>2 DEF PlanOK, Chained
  <2>2. t # << >> => 1 \in 1..(Len(s) - 1) /\ 1 + 1 = 2
    BY <1>2
  <2>3. t # << >> => Follows(op, s[1], s[2])
    BY <2>2 DEF PlanOK, Chained
  <2> QED BY <1>2, <2>1, <2>3
<1>12. t # << >> => Head(t) = s[2] /\ Len(s) > 1
  BY <1>2
<1>13. PlanOK(op, t) /\ Head(s) \in Calls
  BY <1>2, <1>4, <1>5, <1>9 DEF PlanOK
<1> QED BY <1>6, <1>7, <1>8, <1>10, <1>11, <1>12, <1>13 DEF t

\* Calls put in front of a plan.
LEMMA FrontPlan ==
  ASSUME NEW op, NEW p \in Seq(Steps), NEW s, Chained(op, p), PlanOK(op, s),
         s # << >>, p # << >> => Follows(op, p[Len(p)], Head(s)),
         op \in Syncs => Among("finish", s)
  PROVE  /\ PlanOK(op, p \o s) /\ p \o s # << >>
         /\ Head(p \o s) = IF p = << >> THEN Head(s) ELSE p[1]
         /\ \A c : Among(c, p \o s) <=> Among(c, p) \/ Among(c, s)
         /\ Len(p) > 1 => (p \o s)[2] = p[2]
<1> DEFINE r == p \o s
<1>1. s \in Seq(Calls) /\ p \in Seq(Calls)
  BY DEF PlanOK, Steps
<1>2. /\ r \in Seq(Calls) /\ Len(p) \in Nat /\ Len(s) \in Nat \ {0} /\ Len(r) = Len(p) + Len(s)
      /\ \A i \in 1..Len(p) : r[i] = p[i]
      /\ \A i \in 1..Len(s) : r[Len(p) + i] = s[i]
      /\ Head(s) = s[1] /\ Head(r) = r[1] /\ r # << >>
      /\ p # << >> <=> Len(p) # 0
  BY <1>1
<1>3. \A i \in 1..Len(p) : p[i] \in Steps
  BY <1>2
<1> HIDE DEF r
<1>4. \A i \in 1..Len(r) : \/ i \in 1..Len(p) /\ r[i] = p[i]
                           \/ i - Len(p) \in 1..Len(s) /\ r[i] = s[i - Len(p)]
  <2> SUFFICES ASSUME NEW i \in 1..Len(r), i \notin 1..Len(p)
               PROVE  i - Len(p) \in 1..Len(s) /\ r[i] = s[i - Len(p)]
    BY <1>2
  <2>1. i - Len(p) \in 1..Len(s) /\ Len(p) + (i - Len(p)) = i
    BY <1>2
  <2> QED BY <1>2, <2>1
<1>5. Chained(op, r)
  <2>1. \A i \in 1..Len(r) : Makes(op, r[i])
    BY <1>4 DEF PlanOK, Chained
  <2>2. ASSUME NEW i \in 1..(Len(r) - 1) PROVE Follows(op, r[i], r[i + 1])
    <3>1. CASE i < Len(p)
      <4>1. i \in 1..(Len(p) - 1) /\ r[i] = p[i] /\ r[i + 1] = p[i + 1]
        BY <1>2, <3>1
      <4> QED BY <4>1 DEF Chained
    <3>2. CASE i = Len(p)
      <4>1. p # << >> /\ r[i] = p[Len(p)] /\ r[i + 1] = Head(s)
        BY <1>2, <3>2
      <4> QED BY <4>1
    <3>3. CASE i > Len(p)
      <4>1. /\ i - Len(p) \in 1..(Len(s) - 1) /\ i = Len(p) + (i - Len(p))
        BY <1>2, <3>3
      <4>2. PICK k \in 1..(Len(s) - 1) : i = Len(p) + k
        BY <4>1
      <4>3. /\ k \in 1..Len(s) /\ k + 1 \in 1..Len(s) /\ i + 1 = Len(p) + (k + 1)
        BY <1>2, <4>2
      <4>4. r[i] = s[k] /\ r[i + 1] = s[k + 1]
        BY <1>2, <4>2, <4>3
      <4> QED BY <4>4 DEF PlanOK, Chained
    <3> QED BY <1>2, <3>1, <3>2, <3>3
  <2> QED BY <2>1, <2>2 DEF Chained
<1>6. Once(r)
  <2>1. \A i \in 1..Len(r) : r[i] \in {"snapshot", "finish"} =>
          i - Len(p) \in 1..Len(s) /\ r[i] = s[i - Len(p)] /\ i > Len(p)
    BY <1>2, <1>3, <1>4 DEF Steps
  <2>2. ASSUME NEW i \in 1..Len(r), NEW j \in 1..Len(r), i < j,
               r[i] \in {"snapshot", "finish"}
        PROVE  /\ r[i] = "snapshot" => r[j] \in Rebuilds
               /\ r[i] = "finish" => r[j] \in Reports
    <3>1. i - Len(p) \in 1..Len(s) /\ r[i] = s[i - Len(p)] /\ i > Len(p)
      BY <2>1, <2>2
    <3>2. j - Len(p) \in 1..Len(s) /\ r[j] = s[j - Len(p)] /\ i - Len(p) < j - Len(p)
      <4>1. j \notin 1..Len(p) /\ i - Len(p) < j - Len(p)
        BY <1>2, <2>2, <3>1
      <4> QED BY <1>4, <4>1
    <3> QED BY <3>1, <3>2 DEF PlanOK, Once
  <2> QED BY <2>2 DEF Once
<1>7. \A c : Among(c, r) <=> Among(c, p) \/ Among(c, s)
  <2>1. ASSUME NEW c, Among(c, r) PROVE Among(c, p) \/ Among(c, s)
    BY <1>4, <2>1 DEF Among
  <2>2. ASSUME NEW c, Among(c, p) PROVE Among(c, r)
    <3>1. \A i \in 1..Len(p) : i \in 1..Len(r)
      BY <1>2
    <3> QED BY <1>2, <2>2, <3>1 DEF Among
  <2>3. ASSUME NEW c, Among(c, s) PROVE Among(c, r)
    <3>1. \A i \in 1..Len(s) : Len(p) + i \in 1..Len(r)
      BY <1>2
    <3> QED BY <1>2, <2>3, <3>1 DEF Among
  <2> QED BY <2>1, <2>2, <2>3
<1>8. Head(r) = IF p = << >> THEN Head(s) ELSE p[1]
  <2>1. CASE p = << >>
    BY <1>2, <2>1
  <2>2. CASE p # << >>
    BY <1>2, <2>2
  <2> QED BY <2>1, <2>2
<1>9. Len(p) > 1 => r[2] = p[2]
  BY <1>2
<1>10. PlanOK(op, r)
  BY <1>2, <1>5, <1>6, <1>7 DEF PlanOK
<1> QED BY <1>2, <1>7, <1>8, <1>9, <1>10 DEF r

\* A plan of one or two calls, or of three.
LEMMA ShortPlans ==
  ASSUME NEW op, NEW a \in Steps, NEW b \in Steps, NEW c \in Steps
  PROVE  /\ Makes(op, a) => Chained(op, <<a>>)
         /\ Makes(op, a) /\ Makes(op, b) /\ Follows(op, a, b) => Chained(op, <<a, b>>)
         /\ Makes(op, a) /\ Makes(op, b) /\ Makes(op, c) /\ Follows(op, a, b) /\ Follows(op, b, c)
              => Chained(op, <<a, b, c>>)
<1>1. Len(<<a>>) = 1 /\ Len(<<a, b>>) = 2 /\ Len(<<a, b, c>>) = 3
  OBVIOUS
<1>2. Makes(op, a) => Chained(op, <<a>>)
  BY DEF Chained
<1>3. Makes(op, a) /\ Makes(op, b) /\ Follows(op, a, b) => Chained(op, <<a, b>>)
  <2> SUFFICES ASSUME Makes(op, a), Makes(op, b), Follows(op, a, b) PROVE Chained(op, <<a, b>>)
    OBVIOUS
  <2> DEFINE s == <<a, b>>
  <2>1. s[1] = a /\ s[2] = b /\ Len(s) = 2
    OBVIOUS
  <2> HIDE DEF s
  <2>2. (\A i \in 1..2 : i = 1 \/ i = 2) /\ (\A i \in 1..(2 - 1) : i = 1 /\ i + 1 = 2)
    OBVIOUS
  <2>3. Chained(op, s)
    BY <2>1, <2>2 DEF Chained
  <2> QED BY <2>3 DEF s
<1>4. Makes(op, a) /\ Makes(op, b) /\ Makes(op, c) /\ Follows(op, a, b) /\ Follows(op, b, c)
        => Chained(op, <<a, b, c>>)
  <2> SUFFICES ASSUME Makes(op, a), Makes(op, b), Makes(op, c),
                      Follows(op, a, b), Follows(op, b, c)
               PROVE  Chained(op, <<a, b, c>>)
    OBVIOUS
  <2> DEFINE s == <<a, b, c>>
  <2>1. s[1] = a /\ s[2] = b /\ s[3] = c /\ Len(s) = 3
    OBVIOUS
  <2> HIDE DEF s
  <2>2. /\ \A i \in 1..3 : i = 1 \/ i = 2 \/ i = 3
        /\ \A i \in 1..(3 - 1) : (i = 1 /\ i + 1 = 2) \/ (i = 2 /\ i + 1 = 3)
    OBVIOUS
  <2>3. Chained(op, s)
    BY <2>1, <2>2 DEF Chained
  <2> QED BY <2>3 DEF s
<1> QED BY <1>2, <1>3, <1>4

\* What is reported at the end, and the except clauses.
LEMMA EndPlans ==
  /\ \A op \in {"create", "update", "delete", "drop"} :
       PlanOK(op, DocumentDone) /\ DocumentDone # << >> /\ Head(DocumentDone) = "list"
  /\ \A op \in {"create", "update", "delete", "drop", "edit"} : PlanOK(op, <<"result">>)
  /\ PlanOK("sync", <<"finish", "source_result", "result">>)
  /\ PlanOK("resync", <<"finish", "result">>)
  /\ PlanOK("resync", <<"source_result", "finish", "result">>)
  /\ PlanOK("create", <<"remove">> \o DocumentDone)
  /\ Head(<<"remove">> \o DocumentDone) = "remove"
  /\ \A c : Among(c, <<"remove">> \o DocumentDone) =>
       c \in {"remove", "list", "count", "result"}
  /\ \A c : Among(c, DocumentDone) => c \in {"list", "count", "result"}
<1>1. ASSUME NEW op \in {"create", "update", "delete", "drop"}
      PROVE  /\ PlanOK(op, DocumentDone) /\ DocumentDone # << >> /\ Head(DocumentDone) = "list"
             /\ \A c : Among(c, DocumentDone) => c \in {"list", "count", "result"}
  <2> DEFINE s == DocumentDone
  <2>1. /\ s[1] = "list" /\ s[2] = "count" /\ s[3] = "result" /\ Len(s) = 3
        /\ s \in Seq(Calls) /\ s # << >> /\ Head(s) = "list"
    BY DEF DocumentDone, Calls
  <2> HIDE DEF s
  <2>2. /\ \A i \in 1..3 : i = 1 \/ i = 2 \/ i = 3
        /\ \A i \in 1..(3 - 1) : (i = 1 /\ i + 1 = 2) \/ (i = 2 /\ i + 1 = 3)
    OBVIOUS
  <2>3. Chained(op, s) /\ Once(s) /\ op \notin Syncs
    BY <2>1, <2>2 DEF Chained, Makes, Follows, Once, Syncs
  <2>4. \A c : Among(c, s) => c \in {"list", "count", "result"}
    BY <2>1, <2>2 DEF Among
  <2> QED BY <2>1, <2>3, <2>4 DEF PlanOK, s
<1>2. ASSUME NEW op \in {"create", "update", "delete", "drop", "edit"}
      PROVE  PlanOK(op, <<"result">>)
  <2>1. Chained(op, <<"result">>) /\ Once(<<"result">>)
    BY DEF Chained, Makes, Once
  <2> QED BY <2>1 DEF PlanOK, Syncs, Calls
<1>3. ASSUME NEW op, NEW a, NEW b, NEW c, op = "sync" \/ op = "resync",
             op = "sync" => a = "finish" /\ b = "source_result" /\ c = "result",
             op = "resync" => a = "source_result" /\ b = "finish" /\ c = "result"
      PROVE  PlanOK(op, <<a, b, c>>)
  <2> DEFINE s == <<a, b, c>>
  <2>1. /\ s[1] = a /\ s[2] = b /\ s[3] = c /\ Len(s) = 3
        /\ s \in Seq(Calls)
    BY <1>3 DEF Calls
  <2> HIDE DEF s
  <2>2. /\ \A i \in 1..3 : i = 1 \/ i = 2 \/ i = 3
        /\ \A i \in 1..(3 - 1) : (i = 1 /\ i + 1 = 2) \/ (i = 2 /\ i + 1 = 3)
    OBVIOUS
  <2>3. Chained(op, s)
    BY <1>3, <2>1, <2>2 DEF Chained, Makes, Follows, Syncs
  <2>4. Once(s)
    BY <1>3, <2>1, <2>2 DEF Once, Reports
  <2>5. Among("finish", s)
    BY <1>3, <2>1 DEF Among
  <2> QED BY <2>1, <2>3, <2>4, <2>5 DEF PlanOK, s
<1>4. PlanOK("resync", <<"finish", "result">>)
  <2> DEFINE s == <<"finish", "result">>
  <2>1. /\ s[1] = "finish" /\ s[2] = "result" /\ Len(s) = 2
        /\ s \in Seq(Calls)
    BY DEF Calls
  <2> HIDE DEF s
  <2>2. (\A i \in 1..2 : i = 1 \/ i = 2) /\ (\A i \in 1..(2 - 1) : i = 1 /\ i + 1 = 2)
    OBVIOUS
  <2>3. Chained("resync", s) /\ Once(s) /\ Among("finish", s)
    BY <2>1, <2>2 DEF Chained, Makes, Follows, Once, Among, Reports, Syncs
  <2> QED BY <2>1, <2>3 DEF PlanOK, s
<1>5. PlanOK("create", <<"remove">> \o DocumentDone)
      /\ Head(<<"remove">> \o DocumentDone) = "remove"
      /\ \A c : Among(c, <<"remove">> \o DocumentDone) =>
           c \in {"remove", "list", "count", "result"}
  <2>1. Chained("create", <<"remove">>) /\ <<"remove">> \in Seq(Steps)
    BY DEF Chained, Makes, Steps, Calls
  <2>2. <<"remove">>[Len(<<"remove">>)] = "remove" /\ <<"remove">>[1] = "remove"
    OBVIOUS
  <2>3. Follows("create", "remove", "list") /\ "create" \notin Syncs
    BY DEF Follows, Syncs
  <2>4. PlanOK("create", DocumentDone) /\ DocumentDone # << >> /\ Head(DocumentDone) = "list"
    BY <1>1
  <2> DEFINE p == <<"remove">>
  <2>5. p \in Seq(Steps) /\ Chained("create", p) /\ p[Len(p)] = "remove" /\ p[1] = "remove"
        /\ p # << >> /\ \A c : Among(c, p) => c = "remove"
    BY <2>1, <2>2 DEF Among
  <2> HIDE DEF p
  <2>6. /\ PlanOK("create", p \o DocumentDone) /\ Head(p \o DocumentDone) = "remove"
        /\ \A c : Among(c, p \o DocumentDone) <=> Among(c, p) \/ Among(c, DocumentDone)
    BY <2>3, <2>4, <2>5, FrontPlan
  <2> QED BY <1>1, <2>5, <2>6 DEF p
<1> QED BY <1>1, <1>2, <1>3, <1>4, <1>5

\* What an exception leaves of an operation.
LEMMA RescuePlan ==
  ASSUME NEW L, L.op \in Ops, L.op \notin {"none", "request_sync", "request_resync"},
         L.op \in Syncs => L.plan # << >>
  PROVE  /\ PlanOK(L.op, Rescue(L)) /\ Rescue(L) # << >>
         /\ Head(Rescue(L)) \in {"remove", "finish", "source_result", "result"}
         /\ Head(Rescue(L)) = "remove" => L.op = "create"
         /\ L.op \in Syncs => Among("finish", Rescue(L))
         /\ \A c : Among(c, Rescue(L)) =>
              c \in {"remove", "list", "count", "finish", "source_result", "result"}
<1>0. Ops = {"create", "update", "delete", "drop", "edit", "request_sync", "request_resync",
             "sync", "resync", "none"}
  BY DEF Ops, Program
<1>1. CASE L.op = "create"
  <2>1. Rescue(L) = <<"remove">> \o DocumentDone
    BY <1>1 DEF Rescue
  <2> DEFINE s == <<"remove">> \o DocumentDone
  <2>2. PlanOK("create", s) /\ s # << >> /\ Head(s) = "remove"
    <3>1. PlanOK("create", s) /\ Head(s) = "remove"
      BY EndPlans
    <3>2. s # << >>
      BY DEF DocumentDone
    <3> QED BY <3>1, <3>2
  <2>3. \A c : Among(c, s) => c \in {"remove", "list", "count", "result"}
    BY EndPlans
  <2> QED BY <1>1, <2>1, <2>2, <2>3 DEF Syncs
<1>2. CASE L.op \in {"update", "delete", "drop", "edit"}
  <2>1. Rescue(L) = <<"result">>
    BY <1>2 DEF Rescue
  <2>2. PlanOK(L.op, <<"result">>)
    BY <1>2, EndPlans
  <2>3. \A c : Among(c, <<"result">>) => c = "result"
    BY DEF Among
  <2> QED BY <1>2, <2>1, <2>2, <2>3 DEF Syncs
<1>3. ASSUME NEW s, \/ s = <<"finish", "source_result", "result">>
                    \/ s = <<"source_result", "finish", "result">>
                    \/ s = <<"finish", "result">>
      PROVE  /\ s # << >> /\ Head(s) \in {"finish", "source_result"} /\ Among("finish", s)
             /\ \A c : Among(c, s) => c \in {"finish", "source_result", "result"}
  <2>1. CASE s = <<"finish", "source_result", "result">>
    <3>1. s[1] = "finish" /\ s[2] = "source_result" /\ s[3] = "result" /\ Len(s) = 3
          /\ s # << >> /\ Head(s) = "finish" /\ \A i \in 1..3 : i = 1 \/ i = 2 \/ i = 3
      BY <2>1
    <3> QED BY <3>1 DEF Among
  <2>2. CASE s = <<"source_result", "finish", "result">>
    <3>1. s[1] = "source_result" /\ s[2] = "finish" /\ s[3] = "result" /\ Len(s) = 3
          /\ s # << >> /\ Head(s) = "source_result" /\ \A i \in 1..3 : i = 1 \/ i = 2 \/ i = 3
      BY <2>2
    <3> QED BY <3>1 DEF Among
  <2>3. CASE s = <<"finish", "result">>
    <3>1. s[1] = "finish" /\ s[2] = "result" /\ Len(s) = 2
          /\ s # << >> /\ Head(s) = "finish" /\ \A i \in 1..2 : i = 1 \/ i = 2
      BY <2>3
    <3> QED BY <3>1 DEF Among
  <2> QED BY <1>3, <2>1, <2>2, <2>3
<1>4. CASE L.op = "sync"
  <2>1. Rescue(L) = <<"finish", "source_result", "result">>
    BY <1>4 DEF Rescue
  <2> QED BY <1>3, <1>4, <2>1, EndPlans
<1>5. CASE L.op = "resync"
  <2>1. Rescue(L) \in {<<"source_result", "finish", "result">>, <<"finish", "result">>}
    BY <1>5 DEF Rescue
  <2> QED BY <1>3, <1>5, <2>1, EndPlans
<1> QED BY <1>0, <1>1, <1>2, <1>4, <1>5

\* The plans that operations start with.
LEMMA Programs ==
  ASSUME NEW op \in DOMAIN Program
  PROVE  /\ PlanOK(op, Program[op]) /\ Program[op] # << >>
         /\ Head(Program[op]) = IF op = "edit" THEN "result"
                                ELSE IF op = "sync" THEN "resolve" ELSE "mark"
         /\ \A c \in {"each_file", "each_pruned"} : Among(c, Program[op]) =>
              op = "drop" /\ c = "each_pruned"
         /\ op = "resync" => Among("snapshot", Program[op])
         /\ Among("each_stored", Program[op]) => op = "resync"
         /\ op \in Syncs <=> Among("finish", Program[op])
<1>0. DOMAIN Program = {"create", "update", "delete", "drop", "edit", "request_sync",
                        "request_resync", "sync", "resync"}
  BY DEF Program
<1>1. ASSUME NEW p \in Seq(Steps), p # << >>, Chained(op, p), Follows(op, p[Len(p)], "list"),
             op \in {"create", "update", "delete", "drop"}, p[1] = "mark",
             Program[op] = p \o DocumentDone, Among("each_pruned", p) => op = "drop"
      PROVE  /\ PlanOK(op, Program[op]) /\ Program[op] # << >> /\ Head(Program[op]) = "mark"
             /\ Among("each_pruned", Program[op]) => op = "drop"
  <2>1. /\ PlanOK(op, DocumentDone) /\ DocumentDone # << >> /\ Head(DocumentDone) = "list"
        /\ \A c : Among(c, DocumentDone) => c \in {"list", "count", "result"}
    BY <1>1, EndPlans
  <2>2. op \notin Syncs
    BY <1>1 DEF Syncs
  <2>3. /\ PlanOK(op, p \o DocumentDone) /\ p \o DocumentDone # << >>
        /\ Head(p \o DocumentDone) = "mark"
        /\ \A c : Among(c, p \o DocumentDone) <=> Among(c, p) \/ Among(c, DocumentDone)
    BY <1>1, <2>1, <2>2, FrontPlan
  <2>4. ~Among("each_pruned", DocumentDone)
    BY <2>1
  <2>5. Among("each_pruned", p \o DocumentDone) => op = "drop"
    BY <1>1, <2>3, <2>4
  <2> QED BY <1>1, <2>3, <2>5
<1>2. ASSUME PlanOK(op, Program[op])
      PROVE  /\ Among("each_stored", Program[op]) => op = "resync"
             /\ Among("finish", Program[op]) => op \in Syncs
             /\ Among("each_file", Program[op]) => op \in Syncs
             /\ Among("each_pruned", Program[op]) => op \in Syncs \cup {"drop"}
  BY <1>2 DEF PlanOK, Chained, Makes, Among
<1>3. CASE op \in {"create", "update"}
  <2> DEFINE p == IF op = "create" THEN <<"mark", "chunk", "insert", "upsert">>
                  ELSE <<"mark", "chunk", "unindex", "update", "upsert">>
  <2>1. Program[op] = p \o DocumentDone
    <3>1. CASE op = "create"
      BY <3>1 DEF Program
    <3>2. CASE op = "update"
      BY <3>2 DEF Program, UpdatePlan
    <3> QED BY <1>3, <3>1, <3>2
  <2>2. /\ p[1] = "mark" /\ p[2] = "chunk" /\ p[Len(p)] = "upsert" /\ p # << >>
        /\ op = "create" => Len(p) = 4 /\ p[3] = "insert" /\ p[4] = "upsert"
        /\ op = "update" => Len(p) = 5 /\ p[3] = "unindex" /\ p[4] = "update" /\ p[5] = "upsert"
    BY <1>3
  <2>3. p \in Seq(Steps)
    <3>1. /\ <<"mark", "chunk", "insert", "upsert">> \in Seq(Steps)
          /\ <<"mark", "chunk", "unindex", "update", "upsert">> \in Seq(Steps)
      BY DEF Steps, Calls
    <3> QED BY <3>1
  <2> HIDE DEF p
  <2>4. /\ \A i \in 1..4 : i = 1 \/ i = 2 \/ i = 3 \/ i = 4
        /\ \A i \in 1..5 : i = 1 \/ i = 2 \/ i = 3 \/ i = 4 \/ i = 5
    OBVIOUS
  <2>5. /\ \A i \in 1..(4 - 1) : (i = 1 /\ i + 1 = 2) \/ (i = 2 /\ i + 1 = 3) \/ (i = 3 /\ i + 1 = 4)
        /\ \A i \in 1..(5 - 1) : \/ (i = 1 /\ i + 1 = 2) \/ (i = 2 /\ i + 1 = 3)
                                 \/ (i = 3 /\ i + 1 = 4) \/ (i = 4 /\ i + 1 = 5)
    OBVIOUS
  <2>6. Chained(op, p) /\ Follows(op, p[Len(p)], "list")
    BY <1>3, <2>2, <2>4, <2>5, SMTT(30) DEF Chained, Makes, Follows, Syncs
  <2>7. ~Among("each_pruned", p)
    BY <1>3, <2>2, <2>4 DEF Among
  <2> QED BY <1>1, <1>2, <1>3, <2>1, <2>2, <2>3, <2>6, <2>7 DEF Syncs
<1>4. CASE op \in {"delete", "drop"}
  <2> DEFINE p == IF op = "delete" THEN <<"mark", "unindex", "remove">>
                  ELSE <<"mark", "each_pruned", "drop_source">>
  <2>1. Program[op] = p \o DocumentDone
    BY <1>4 DEF Program, DeletePlan
  <2>2. /\ p[1] = "mark" /\ Len(p) = 3 /\ p # << >>
        /\ op = "delete" => p[2] = "unindex" /\ p[3] = "remove"
        /\ op = "drop" => p[2] = "each_pruned" /\ p[3] = "drop_source"
    BY <1>4
  <2>3. p \in Seq(Steps)
    <3>1. /\ <<"mark", "unindex", "remove">> \in Seq(Steps)
          /\ <<"mark", "each_pruned", "drop_source">> \in Seq(Steps)
      BY DEF Steps, Calls
    <3> QED BY <3>1
  <2> HIDE DEF p
  <2>4. /\ \A i \in 1..3 : i = 1 \/ i = 2 \/ i = 3
        /\ \A i \in 1..(3 - 1) : (i = 1 /\ i + 1 = 2) \/ (i = 2 /\ i + 1 = 3)
    OBVIOUS
  <2>6. Chained(op, p) /\ Follows(op, p[Len(p)], "list")
    BY <1>4, <2>2, <2>4 DEF Chained, Makes, Follows, Syncs
  <2>7. Among("each_pruned", p) => op = "drop"
    BY <1>4, <2>2, <2>4 DEF Among
  <2> QED BY <1>1, <1>2, <1>4, <2>1, <2>2, <2>3, <2>6, <2>7 DEF Syncs
<1>5. CASE op \in {"edit", "request_sync", "request_resync"}
  <2> DEFINE s == Program[op]
  <2>1. /\ op = "edit" => s = <<"result">>
        /\ op = "request_sync" => s = <<"mark", "mark_source">>
        /\ op = "request_resync" => s = <<"mark">>
    BY <1>5 DEF Program
  <2> HIDE DEF s
  <2>2. /\ s \in Seq(Calls) /\ s # << >> /\ Len(s) \in {1, 2} /\ Head(s) = s[1]
        /\ op = "edit" => Len(s) = 1 /\ s[1] = "result"
        /\ op = "request_sync" => Len(s) = 2 /\ s[1] = "mark" /\ s[2] = "mark_source"
        /\ op = "request_resync" => Len(s) = 1 /\ s[1] = "mark"
    <3>0. /\ <<"result">> \in Seq(Calls) /\ <<"mark", "mark_source">> \in Seq(Calls)
          /\ <<"mark">> \in Seq(Calls)
      BY DEF Calls
    <3>1. CASE op = "edit"
      <4>1. s = <<"result">>
        BY <2>1, <3>1
      <4>2. s[1] = "result" /\ Len(s) = 1 /\ Head(s) = s[1] /\ s # << >>
        BY <4>1
      <4> QED BY <3>0, <3>1, <4>1, <4>2
    <3>2. CASE op = "request_sync"
      <4>1. s = <<"mark", "mark_source">>
        BY <2>1, <3>2
      <4>2. s[1] = "mark" /\ s[2] = "mark_source" /\ Len(s) = 2 /\ Head(s) = s[1] /\ s # << >>
        BY <4>1
      <4> QED BY <3>0, <3>2, <4>1, <4>2
    <3>3. CASE op = "request_resync"
      <4>1. s = <<"mark">>
        BY <2>1, <3>3
      <4>2. s[1] = "mark" /\ Len(s) = 1 /\ Head(s) = s[1] /\ s # << >>
        BY <4>1
      <4> QED BY <3>0, <3>3, <4>1, <4>2
    <3> QED BY <1>5, <3>1, <3>2, <3>3
  <2>3. /\ \A i \in 1..2 : i = 1 \/ i = 2
        /\ \A i \in 1..1 : i = 1
        /\ \A i \in 1..(2 - 1) : i = 1 /\ i + 1 = 2
        /\ \A i \in 1..(1 - 1) : FALSE
    OBVIOUS
  <2>4. Chained(op, s) /\ Once(s)
    <3>1. CASE op = "edit"
      BY <2>2, <2>3, <3>1 DEF Chained, Makes, Follows, Once
    <3>2. CASE op = "request_sync"
      BY <2>2, <2>3, <3>2 DEF Chained, Makes, Follows, Once
    <3>3. CASE op = "request_resync"
      BY <2>2, <2>3, <3>3 DEF Chained, Makes, Follows, Once
    <3> QED BY <1>5, <3>1, <3>2, <3>3
  <2>5. PlanOK(op, s)
    BY <1>5, <2>2, <2>4 DEF PlanOK, Syncs
  <2> QED BY <1>2, <1>5, <2>2, <2>5 DEF Syncs, s
<1>6. CASE op = "sync"
  <2> DEFINE p == <<"resolve", "mark">> \o SyncSource
             q == <<"finish", "source_result", "result">>
  <2>1. Program[op] = p \o q
    BY <1>6 DEF Program
  <2>2. /\ p[1] = "resolve" /\ p[2] = "mark" /\ p[3] = "mark_source" /\ p[4] = "scan"
        /\ p[5] = "prune" /\ p[6] = "list" /\ p[7] = "count" /\ Len(p) = 7 /\ p # << >>
    BY DEF SyncSource
  <2>3. p \in Seq(Steps)
    BY DEF Steps, Calls, SyncSource
  <2>4. /\ PlanOK(op, q) /\ q # << >> /\ Head(q) = "finish" /\ Among("finish", q)
        /\ q[1] = "finish" /\ q[2] = "source_result" /\ q[3] = "result" /\ Len(q) = 3
    BY <1>6, EndPlans DEF Among
  <2> HIDE DEF p, q
  <2>5. /\ \A i \in 1..7 : i = 1 \/ i = 2 \/ i = 3 \/ i = 4 \/ i = 5 \/ i = 6 \/ i = 7
        /\ \A i \in 1..(7 - 1) : \/ (i = 1 /\ i + 1 = 2) \/ (i = 2 /\ i + 1 = 3)
                                 \/ (i = 3 /\ i + 1 = 4) \/ (i = 4 /\ i + 1 = 5)
                                 \/ (i = 5 /\ i + 1 = 6) \/ (i = 6 /\ i + 1 = 7)
        /\ \A i \in 1..3 : i = 1 \/ i = 2 \/ i = 3
    OBVIOUS
  <2>6. Chained(op, p) /\ Follows(op, p[Len(p)], Head(q))
    BY <1>6, <2>2, <2>4, <2>5 DEF Chained, Makes, Follows, Syncs
  <2>7. \A c \in {"each_file", "each_pruned"} : ~Among(c, p) /\ ~Among(c, q)
    BY <2>2, <2>4, <2>5 DEF Among
  <2>8. /\ PlanOK(op, p \o q) /\ p \o q # << >> /\ Head(p \o q) = "resolve"
        /\ \A c : Among(c, p \o q) <=> Among(c, p) \/ Among(c, q)
    BY <2>2, <2>3, <2>4, <2>6, FrontPlan
  <2> QED BY <1>2, <1>6, <2>1, <2>4, <2>7, <2>8 DEF Syncs
<1>7. CASE op = "resync"
  <2> DEFINE s == Program[op]
  <2>1. s = ResyncPlan
    BY <1>7 DEF Program
  <2> HIDE DEF s
  <2>2. /\ s[1] = "mark" /\ s[2] = "reconcile" /\ s[3] = "snapshot" /\ s[4] = "wipe"
        /\ s[5] = "each_stored" /\ s[6] = "list" /\ s[7] = "count" /\ s[8] = "result"
        /\ s[9] = "finish" /\ Len(s) = 9 /\ Head(s) = "mark" /\ s # << >>
    BY <2>1 DEF ResyncPlan
  <2>3. s \in Seq(Calls)
    BY <2>1 DEF ResyncPlan, Calls
  <2>4. \A i \in 1..9 : i = 1 \/ i = 2 \/ i = 3 \/ i = 4 \/ i = 5 \/ i = 6 \/ i = 7 \/ i = 8 \/ i = 9
    OBVIOUS
  <2>5. \A i \in 1..(9 - 1) : \/ (i = 1 /\ i + 1 = 2) \/ (i = 2 /\ i + 1 = 3)
                              \/ (i = 3 /\ i + 1 = 4) \/ (i = 4 /\ i + 1 = 5)
                              \/ (i = 5 /\ i + 1 = 6) \/ (i = 6 /\ i + 1 = 7)
                              \/ (i = 7 /\ i + 1 = 8) \/ (i = 8 /\ i + 1 = 9)
    OBVIOUS
  <2>6. Chained(op, s)
    BY <1>7, <2>2, <2>4, <2>5 DEF Chained, Makes, Follows, Syncs
  <2>7. Once(s)
    <3>1. \A i \in 1..9 : (s[i] = "snapshot" => i = 3) /\ (s[i] = "finish" => i = 9)
      BY <2>2, <2>4
    <3>2. \A i \in 1..9 : i > 3 => s[i] \in Rebuilds
      BY <2>2, <2>4 DEF Rebuilds
    <3>3. \A i, j \in 1..9 : i < j => (i = 3 => j > 3) /\ i # 9
      OBVIOUS
    <3> QED BY <2>2, <3>1, <3>2, <3>3 DEF Once
  <2>8. /\ Among("finish", s) /\ Among("snapshot", s)
        /\ \A c \in {"each_file", "each_pruned"} : ~Among(c, s)
    BY <2>2, <2>4 DEF Among
  <2>9. PlanOK(op, s)
    BY <2>3, <2>6, <2>7, <2>8 DEF PlanOK
  <2> QED BY <1>2, <1>7, <2>2, <2>8, <2>9 DEF Syncs, s
<1> QED BY <1>0, <1>3, <1>4, <1>5, <1>6, <1>7

-----------------------------------------------------------------------------
(* Locals.                                                                 *)

Done(N) == IF N.plan = << >> THEN Idling ELSE N

\* The operations that have a plan, and idling.
LEMMA OpsAre ==
  /\ Ops = DOMAIN Program \cup {"none"}
  /\ DOMAIN Program = {"create", "update", "delete", "drop", "edit", "request_sync",
                       "request_resync", "sync", "resync"}
  /\ {"sync", "resync"} = Syncs
BY DEF Ops, Program, Syncs

\* The rows that an operation writes are rows.
LEMMA RowTypes ==
  /\ Absent \in RowType /\ NoRows \in [Docs -> RowType]
  /\ \A x \in Texts, b \in BOOLEAN : Row(x, b) \in RowType /\ Row(x, b).text = x
                                     /\ Row(x, b).chunks = ChunksOf[x] /\ Row(x, b).linked = b
  /\ \A x \in Texts : ChunksOf[x] \in 1..MaxChunks /\ ChunksOf[x] \in Nat /\ x # None
  /\ NoRun \notin Runs /\ MaxChunks \in Nat
  /\ \A f \in Files : f \in Docs /\ f \notin ManualDocs
  /\ \A d \in ManualDocs : d \in Docs /\ d \notin Files
<1>1. MaxChunks \in Nat /\ ChunksOf \in [Texts -> 1..MaxChunks] /\ None \notin Texts
      /\ ManualDocs \cap Files = {}
  BY KnowledgeAssumption
<1>2. Absent \in RowType
  BY <1>1 DEF Absent, RowType
<1>3. NoRows \in [Docs -> RowType]
  BY <1>2 DEF NoRows
<1>4. \A x \in Texts : ChunksOf[x] \in 1..MaxChunks /\ ChunksOf[x] \in Nat /\ x # None
  BY <1>1
<1>5. \A x \in Texts, b \in BOOLEAN : Row(x, b) \in RowType /\ Row(x, b).text = x
                                      /\ Row(x, b).chunks = ChunksOf[x] /\ Row(x, b).linked = b
  BY <1>1, <1>4 DEF Row, RowType
<1>6. NoRun \notin Runs
  BY DEF NoRun, Runs
<1>7. /\ \A f \in Files : f \in Docs /\ f \notin ManualDocs
      /\ \A d \in ManualDocs : d \in Docs /\ d \notin Files
  BY <1>1 DEF Docs
<1> QED BY <1>1, <1>2, <1>3, <1>4, <1>5, <1>6, <1>7

\* Counts of stored documents are numbers.
LEMMA DocsFinite ==
  /\ IsFiniteSet(Docs) /\ Cardinality(Docs) \in Nat
  /\ \A S \in SUBSET Docs : /\ IsFiniteSet(S) /\ Cardinality(S) \in Nat
                            /\ Cardinality(S) <= Cardinality(Docs)
  /\ StoredDocs \subseteq Docs
<1>1. IsFiniteSet(Docs)
  BY KnowledgeAssumption
<1> QED BY <1>1, FS_Subset, FS_CardinalityType DEF StoredDocs

\* A thread between operations has well-formed locals.
LEMMA IdlingOK ==
  /\ LocalOK(Idling)
  /\ Idling.plan = << >> /\ Idling.op = "none" /\ Idling.run = NoRun /\ Idling.todo = {}
<1>1. /\ Idling.plan = << >> /\ Idling.op = "none" /\ Idling.run = NoRun /\ Idling.todo = {}
      /\ Idling.result = "ready"
  BY DEF Idling, Local
<1>2. Idling \in LocalType
  <2>1. NoRows \in [Docs -> RowType] /\ "none" \in Ops
    BY RowTypes DEF Ops
  <2> QED BY <2>1 DEF Idling, Local, LocalType, Results
<1>3. PlanOK("none", << >>) /\ \A c : ~Among(c, << >>)
  BY DEF PlanOK, Chained, Once, Syncs, Among
<1>4. FieldsOK(Idling)
  BY <1>1, <1>3 DEF FieldsOK, Syncs
<1>5. \A calls : ~Is(Idling, calls)
  BY <1>1 DEF Is
<1>6. Args(Idling)
  BY <1>1, <1>5 DEF Args
<1> QED BY <1>1, <1>2, <1>3, <1>4, <1>6 DEF LocalOK

\* A thread at work.
LEMMA AtWork ==
  ASSUME LocalsOK, NEW t \in Threads, ~Idle(t)
  PROVE  /\ thread[t] \in LocalType /\ thread[t].op \in DOMAIN Program
         /\ thread[t].op # "none" /\ thread[t].plan # << >>
         /\ PlanOK(thread[t].op, thread[t].plan)
         /\ FieldsOK(thread[t]) /\ Args(thread[t])
<1>1. LocalOK(thread[t]) /\ thread[t].plan # << >>
  BY DEF LocalsOK, Idle
<1>2. thread[t].op # "none"
  BY <1>1, IdlingOK DEF LocalOK
<1>3. thread[t].op \in Ops
  BY <1>1 DEF LocalOK, LocalType
<1> QED BY <1>1, <1>2, <1>3, OpsAre DEF LocalOK

\* A thread that goes on with N.
LEMMA GoesOn ==
  ASSUME LocalsOK, NEW t \in Threads, NEW N, Become(t, N) \/ thread' = [thread EXCEPT ![t] = N],
         N \in LocalType, N.op # "none", PlanOK(N.op, N.plan), FieldsOK(N), Args(N),
         Become(t, N) \/ N.plan # << >>
  PROVE  LocalsOK' /\ thread'[t] = Done(N)
         /\ \A u \in Threads \ {t} : thread'[u] = thread[u]
<1>1. LocalOK(Done(N))
  BY IdlingOK DEF LocalOK, Done
<1>2. thread' = [thread EXCEPT ![t] = Done(N)]
  BY DEF Become, Done
<1>3. /\ DOMAIN thread' = Threads /\ thread'[t] = Done(N)
      /\ \A u \in Threads \ {t} : thread'[u] = thread[u]
  BY <1>2 DEF LocalsOK
<1>4. \A u \in Threads : LocalOK(thread'[u])
  BY <1>1, <1>3 DEF LocalsOK
<1> QED BY <1>3, <1>4 DEF LocalsOK

\* L after its first call.
After(L) == [L EXCEPT !.plan = Tail(@), !.n = 0]

\* What going past the first call leaves of the locals.
LEMMA AfterFields ==
  ASSUME NEW L \in LocalType, L.plan # << >>
  PROVE  /\ After(L) \in LocalType /\ After(L).plan = Tail(L.plan) /\ After(L).n = 0
         /\ After(L).op = L.op /\ After(L).result = L.result /\ After(L).doc = L.doc
         /\ After(L).text = L.text /\ After(L).todo = L.todo /\ After(L).seen = L.seen
         /\ After(L).snap = L.snap /\ After(L).run = L.run
<1>1. Tail(L.plan) \in Seq(Calls) /\ 0 \in Nat
  BY DEF LocalType
<1> QED BY <1>1 DEF After, LocalType

\* A thread that goes past its first call keeps well-formed locals.
LEMMA Proceeds ==
  ASSUME LocalsOK, NEW t \in Threads, ~Idle(t), Proceed(t)
  PROVE  /\ LocalsOK' /\ thread'[t] = Done(After(thread[t]))
         /\ \A u \in Threads \ {t} : thread'[u] = thread[u]
<1> DEFINE L == thread[t]
           N == After(L)
           a == Head(L.plan)
           b == Head(N.plan)
<1>1. /\ L \in LocalType /\ L.op \in DOMAIN Program /\ L.op # "none" /\ L.plan # << >>
      /\ PlanOK(L.op, L.plan) /\ FieldsOK(L) /\ Args(L)
  BY AtWork
<1>2. Become(t, N)
  BY DEF Proceed, Continue, After
<1>3. /\ N \in LocalType /\ N.plan = Tail(L.plan) /\ N.n = 0
      /\ N.op = L.op /\ N.result = L.result /\ N.doc = L.doc
      /\ N.text = L.text /\ N.todo = L.todo /\ N.snap = L.snap /\ N.run = L.run
  BY <1>1, AfterFields
<1>4. /\ PlanOK(N.op, N.plan) /\ Makes(L.op, a)
      /\ N.plan # << >> => Follows(L.op, a, b) /\ b = L.plan[2] /\ Len(L.plan) > 1
      /\ \A c : Among(c, N.plan) => Among(c, L.plan)
  <2>1. /\ PlanOK(L.op, Tail(L.plan)) /\ Makes(L.op, Head(L.plan))
        /\ Tail(L.plan) # << >> => /\ Follows(L.op, Head(L.plan), Head(Tail(L.plan)))
                                   /\ Head(Tail(L.plan)) = L.plan[2] /\ Len(L.plan) > 1
        /\ \A c : Among(c, Tail(L.plan)) => Among(c, L.plan)
    BY <1>1, TailPlan
  <2> QED BY <1>3, <2>1
<1>5. /\ L.snap \in [Docs -> RowType] /\ L.doc \in Docs \cup {None} /\ L.text \in Texts \cup {None}
      /\ N.plan \in Seq(Calls) /\ L.todo \subseteq Docs
  BY <1>1, <1>3 DEF LocalType
<1> HIDE DEF N, L
<1>6. FieldsOK(N)
  BY <1>1, <1>3, <1>4 DEF FieldsOK
<1>7. \A calls : Is(L, calls) <=> a \in calls
  BY <1>1 DEF Is
<1>8. L.op \in {"create", "update", "delete"} => L.doc \in Docs
  BY <1>1, RowTypes DEF FieldsOK
<1>9. N.plan = << >> => Args(N)
  BY DEF Args, Is
<1>10. ASSUME N.plan # << >> PROVE Args(N)
  <2>1. \A calls : Is(N, calls) <=> b \in calls
    BY <1>10 DEF Is
  <2>2. Follows(L.op, a, b) /\ b = L.plan[2] /\ Len(L.plan) > 1
    BY <1>4, <1>10
  <2>3. b = "unindex" =>
          /\ L.op = "delete" \/ L.op = "update"
          /\ L.op = "update" => a = "chunk"
    BY <2>2 DEF Follows
  <2>4. b = "remove" => a = "unindex"
    BY <2>2 DEF Follows
  <2>5. b = "insert" => a = "chunk" /\ L.op = "create"
    BY <2>2 DEF Follows
  <2>6. b = "update" => a = "unindex"
    BY <2>2 DEF Follows
  <2>7. b = "upsert" => a \in {"insert", "update", "recount"}
    BY <2>2 DEF Follows
  <2>8. b # "recount"
    BY <2>2 DEF Follows
  <2>9. b \in {"mark", "chunk"} => L.op \in {"sync"} \/ a = "mark"
    BY <1>4, <2>2 DEF Follows, Makes, Syncs
  <2>10. L.op \in {"create", "update"} /\ b \in {"mark", "chunk", "unindex"}
           => a \in {"mark", "chunk"}
    BY <2>3, <2>9, <2>2 DEF Follows
  <2>11. b \in {"unindex", "remove", "insert", "update", "upsert", "recount"} => L.doc \in Docs
    <3>1. a \in {"unindex", "insert", "update", "recount"} => L.doc \in Docs
      BY <1>1, <1>7 DEF Args
    <3> QED BY <1>8, <2>3, <2>4, <2>5, <2>6, <2>7, <2>8, <3>1
  <2>12. b \in {"insert", "update", "upsert", "recount"} => L.text \in Texts
    <3>1. a \in {"insert", "update", "recount"} => L.text \in Texts
      BY <1>1, <1>7 DEF Args
    <3>2. a = "chunk" /\ L.op = "create" => L.text \in Texts
      BY <1>1, <1>7 DEF Args
    <3>3. a = "unindex" /\ b = "update" => L.text \in Texts
      BY <1>1, <1>7, <2>2 DEF Args
    <3> QED BY <2>5, <2>6, <2>7, <2>8, <3>1, <3>2, <3>3
  <2>13. L.op \in {"create", "update"} /\ b \in {"mark", "chunk", "unindex"} => L.text \in Texts
    BY <1>1, <1>7, <2>10 DEF Args
  <2>14. b = "unindex" /\ Len(N.plan) > 1 /\ N.plan[2] = "update" => L.text \in Texts
    <3>1. b = "unindex" /\ Len(N.plan) > 1 => Follows(L.op, b, N.plan[2])
      <4> SUFFICES ASSUME b = "unindex", Len(N.plan) > 1 PROVE Follows(L.op, b, N.plan[2])
        OBVIOUS
      <4>1. 1 \in 1..(Len(N.plan) - 1) /\ b = N.plan[1] /\ 1 + 1 = 2
        BY <1>5, <1>10
      <4>2. \A i \in 1..(Len(N.plan) - 1) : Follows(L.op, N.plan[i], N.plan[i + 1])
        BY <1>3, <1>4 DEF PlanOK, Chained
      <4> QED BY <4>1, <4>2
    <3>2. b = "unindex" /\ Len(N.plan) > 1 /\ N.plan[2] = "update" => L.op # "delete"
      BY <3>1 DEF Follows
    <3> QED BY <2>3, <2>13, <3>2
  <2>15. b = "unindex" => 0 <= L.snap[L.doc].chunks
    BY <1>5, <2>11, RowTypes DEF RowType
  <2>16. b = "upsert" => 0 <= ChunksOf[L.text]
    BY <2>12, RowTypes
  <2>17. 0 <= Cardinality(Docs)
    BY DocsFinite
  <2>18. L.op \notin Syncs \cup {"drop"} => L.doc \notin L.todo
    BY <1>1 DEF FieldsOK
  <2>19. Among("each_pruned", N.plan) /\ b \in {"unindex", "remove"} => L.doc \notin L.todo
    <3>1. b = "unindex" => L.op \notin Syncs \cup {"drop"}
      BY <2>3 DEF Syncs
    <3>2. a = "unindex" /\ Among("each_pruned", L.plan) => L.doc \notin L.todo
      BY <1>1, <1>7 DEF Args
    <3> QED BY <1>4, <2>4, <2>18, <3>1, <3>2
  <2>20. b \in {"insert", "unindex", "update", "recount", "upsert"} /\ L.op # "create"
           => L.doc \notin L.todo
    <3>1. b = "unindex" => L.op \notin Syncs \cup {"drop"}
      BY <2>3 DEF Syncs
    <3>2. a \in {"insert", "unindex", "update", "recount"} /\ L.op # "create"
            => L.doc \notin L.todo
      BY <1>1, <1>7 DEF Args
    <3> QED BY <2>5, <2>6, <2>7, <2>8, <2>18, <3>1, <3>2
  <2> QED BY <1>3, <2>11, <2>12, <2>13, <2>14, <2>15, <2>16, <2>17, <2>19, <2>20 DEF Args, Is
<1>11. /\ LocalsOK' /\ thread'[t] = Done(N)
       /\ \A u \in Threads \ {t} : thread'[u] = thread[u]
  BY <1>1, <1>2, <1>3, <1>4, <1>6, <1>9, <1>10, GoesOn
<1> QED BY <1>11 DEF L, N

\* An operation that fails.
Failed(L) ==
  [L EXCEPT !.plan = Rescue(L), !.result = "error", !.n = 0,
            !.todo = {}, !.seen = {}, !.snap = NoRows]

\* What an exception leaves of the locals.
LEMMA FailedFields ==
  ASSUME NEW L \in LocalType, L.op \notin {"none", "request_sync", "request_resync"},
         L.op \in Syncs => L.plan # << >>
  PROVE  /\ Failed(L) \in LocalType /\ Failed(L).plan = Rescue(L) /\ Failed(L).n = 0
         /\ Failed(L).op = L.op /\ Failed(L).result = "error" /\ Failed(L).doc = L.doc
         /\ Failed(L).text = L.text /\ Failed(L).todo = {} /\ Failed(L).seen = {}
         /\ Failed(L).snap = NoRows /\ Failed(L).run = L.run
         /\ Done(Failed(L)) = Failed(L)
<1>1. L.op \in Ops
  BY DEF LocalType
<1>2. Rescue(L) \in Seq(Calls) /\ Rescue(L) # << >>
  BY <1>1, RescuePlan DEF PlanOK
<1>3. NoRows \in [Docs -> RowType]
  BY RowTypes
<1>4. /\ Failed(L) \in LocalType /\ Failed(L).plan = Rescue(L) /\ Failed(L).n = 0
      /\ Failed(L).op = L.op /\ Failed(L).result = "error" /\ Failed(L).doc = L.doc
      /\ Failed(L).text = L.text /\ Failed(L).todo = {} /\ Failed(L).seen = {}
      /\ Failed(L).snap = NoRows /\ Failed(L).run = L.run
  BY <1>2, <1>3 DEF Failed, LocalType, Results
<1> QED BY <1>2, <1>4 DEF Done

\* A thread whose call raises keeps well-formed locals.
LEMMA Fails ==
  ASSUME LocalsOK, NEW t \in Threads, ~Idle(t), Fail(t),
         thread[t].op \notin {"request_sync", "request_resync"}
  PROVE  /\ LocalsOK' /\ thread'[t] = Failed(thread[t])
         /\ \A u \in Threads \ {t} : thread'[u] = thread[u]
<1> DEFINE L == thread[t]
           N == Failed(L)
<1>1. /\ L \in LocalType /\ L.op \in DOMAIN Program /\ L.op # "none" /\ L.plan # << >>
      /\ PlanOK(L.op, L.plan) /\ FieldsOK(L) /\ Args(L)
  BY AtWork
<1>2. Become(t, N)
  BY DEF Fail, Failed
<1>3. /\ N \in LocalType /\ N.plan = Rescue(L) /\ N.n = 0
      /\ N.op = L.op /\ N.result = "error" /\ N.doc = L.doc
      /\ N.text = L.text /\ N.todo = {} /\ N.snap = NoRows /\ N.run = L.run /\ Done(N) = N
  BY <1>1, FailedFields
<1>4. /\ PlanOK(L.op, Rescue(L)) /\ Rescue(L) # << >>
      /\ Head(Rescue(L)) \in {"remove", "finish", "source_result", "result"}
      /\ Head(Rescue(L)) = "remove" => L.op = "create"
  BY <1>1, RescuePlan, OpsAre
<1> HIDE DEF N, L
<1>5. FieldsOK(N)
  BY <1>1, <1>3 DEF FieldsOK
<1>6. \A calls : Is(N, calls) =>
        \E c \in {"remove", "finish", "source_result", "result"} : c \in calls
  BY <1>3, <1>4 DEF Is
<1>7. Is(N, {"unindex", "remove", "insert", "update", "upsert", "recount"}) => L.doc \in Docs
  <2>1. Is(N, {"unindex", "remove", "insert", "update", "upsert", "recount"}) => L.op = "create"
    BY <1>3, <1>4 DEF Is
  <2> QED BY <1>1, <2>1, RowTypes DEF FieldsOK
<1>8. Args(N)
  BY <1>3, <1>6, <1>7 DEF Args
<1> QED BY <1>1, <1>2, <1>3, <1>4, <1>5, <1>8, GoesOn DEF L, N

\* A thread whose exception nobody catches keeps well-formed locals.
LEMMA Escapes ==
  ASSUME LocalsOK, NEW t \in Threads, Escape(t)
  PROVE  /\ LocalsOK' /\ thread'[t] = Idling
         /\ \A u \in Threads \ {t} : thread'[u] = thread[u]
<1>1. /\ DOMAIN thread' = Threads /\ thread'[t] = Idling
      /\ \A u \in Threads \ {t} : thread'[u] = thread[u]
  BY DEF Escape, LocalsOK
<1>2. \A u \in Threads : LocalOK(thread'[u])
  BY <1>1, IdlingOK DEF LocalsOK
<1> QED BY <1>1, <1>2 DEF LocalsOK

-----------------------------------------------------------------------------
(* The locals after each step.                                             *)

\* The thread goes on with N, the others stay where they are.
Goes(t, N) ==
  /\ thread'[t] = Done(N)
  /\ \A u \in Threads \ {t} : thread'[u] = thread[u]

\* N is L but for the fields given.
Turns(L, N, plan, n, doc, text, todo, seen, snap) ==
  /\ N \in LocalType
  /\ N.op = L.op /\ N.run = L.run /\ N.result = L.result
  /\ N.plan = plan /\ N.n = n /\ N.doc = doc /\ N.text = text
  /\ N.todo = todo /\ N.seen = seen /\ N.snap = snap

\* The thread's next call and its locals.
Working(t, L) ==
  /\ L = thread[t] /\ L \in LocalType /\ L.plan # << >>
  /\ L.op \in DOMAIN Program /\ L.op # "none"
  /\ PlanOK(L.op, L.plan) /\ FieldsOK(L) /\ Args(L)
  /\ L.op \in Ops /\ L.plan \in Seq(Calls) /\ L.result \in Results
  /\ L.doc \in Docs \cup {None} /\ L.text \in Texts \cup {None} /\ L.n \in Nat
  /\ L.todo \subseteq Docs /\ L.seen \subseteq Files /\ L.snap \in [Docs -> RowType]
  /\ L.run \in Runs \cup {NoRun}
  /\ Makes(L.op, Head(L.plan)) /\ Tail(L.plan) \in Seq(Calls)

\* A thread whose step keeps its locals well formed keeps those of all.
LEMMA Works ==
  ASSUME LocalsOK, NEW t \in Threads, NEW call, At(t, call)
  PROVE  Working(t, thread[t]) /\ Head(thread[t].plan) = call /\ ~Idle(t)
<1>1. ~Idle(t) /\ Head(thread[t].plan) = call
  BY DEF At
<1> DEFINE L == thread[t]
<1>2. /\ L \in LocalType /\ L.op \in DOMAIN Program /\ L.op # "none" /\ L.plan # << >>
      /\ PlanOK(L.op, L.plan) /\ FieldsOK(L) /\ Args(L)
  BY <1>1, AtWork
<1>3. Makes(L.op, Head(L.plan)) /\ Tail(L.plan) \in Seq(Calls)
  <2>1. Makes(L.op, Head(L.plan)) /\ PlanOK(L.op, Tail(L.plan))
    BY <1>2, TailPlan
  <2> QED BY <2>1 DEF PlanOK
<1> QED BY <1>1, <1>2, <1>3 DEF Working, LocalType

\* A loop that takes a turn goes on with what the turn gives.
LEMMA TurnGoes ==
  ASSUME LocalsOK, NEW t \in Threads, NEW L, Working(t, L), NEW N,
         NEW plan, NEW n, NEW doc, NEW text, NEW todo, NEW seen, NEW snap,
         Turns(L, N, plan, n, doc, text, todo, seen, snap), Become(t, N),
         PlanOK(L.op, plan), Args(N),
         doc = L.doc \/ L.op \in Syncs \cup {"drop"},
         L.op \notin Syncs \cup {"drop"} => todo = {},
         L.op \in {"sync", "drop"} \/ Among("each_file", plan) => todo \subseteq Files
  PROVE  LocalsOK' /\ Goes(t, N)
<1>1. FieldsOK(N)
  BY DEF Working, Turns, FieldsOK, Syncs
<1>2. N \in LocalType /\ N.op # "none" /\ PlanOK(N.op, N.plan)
  BY DEF Working, Turns
<1> QED BY <1>1, <1>2, GoesOn DEF Goes

\* A deletion that lists the documents of a source.
LEMMA ListTurns ==
  ASSUME LocalsOK, NEW t \in Threads, NEW L, L = thread[t], List(t)
  PROVE  /\ LocalsOK'
         /\ \E N : /\ Goes(t, N)
                   /\ Turns(L, N, Tail(L.plan), Cardinality(StoredDocs), L.doc, L.text,
                            L.todo, L.seen, L.snap)
<1>1. At(t, "list")
  BY DEF List
<1>2. Working(t, L) /\ Head(L.plan) = "list"
  BY <1>1, Works
<1> DEFINE N == [L EXCEPT !.plan = Tail(@), !.n = Cardinality(StoredDocs)]
<1>3. Cardinality(StoredDocs) \in Nat /\ Cardinality(StoredDocs) <= Cardinality(Docs)
  BY DocsFinite
<1>4. Turns(L, N, Tail(L.plan), Cardinality(StoredDocs), L.doc, L.text,
            L.todo, L.seen, L.snap)
  BY <1>2, <1>3 DEF Working, Turns, LocalType
<1>5. Become(t, N)
  BY DEF List
<1>6. /\ PlanOK(L.op, Tail(L.plan))
      /\ Tail(L.plan) # << >> => Follows(L.op, Head(L.plan), Head(Tail(L.plan)))
      /\ \A c : Among(c, Tail(L.plan)) => Among(c, L.plan)
  BY <1>2, TailPlan DEF Working
<1> HIDE DEF N
<1>7. Tail(L.plan) # << >> => Head(Tail(L.plan)) = "count"
  BY <1>2, <1>6 DEF Follows
<1>8. Args(N)
  BY <1>3, <1>4, <1>7 DEF Args, Turns, Is
<1>9. LocalsOK' /\ Goes(t, N)
  BY <1>2, <1>4, <1>5, <1>6, <1>8, TurnGoes DEF Working, FieldsOK
<1> QED BY <1>4, <1>9

\* The upsert of the next chunk.
LEMMA UpsertTurns ==
  ASSUME LocalsOK, NEW t \in Threads, NEW L, L = thread[t], At(t, "upsert"),
         \/ L.n = ChunksOf[L.text] /\ Continue(t, [L EXCEPT !.text = None])
         \/ L.n # ChunksOf[L.text] /\ Become(t, [L EXCEPT !.n = @ + 1])
  PROVE  /\ LocalsOK'
         /\ \E N : /\ Goes(t, N)
                   /\ \/ L.n = ChunksOf[L.text] /\
                         Turns(L, N, Tail(L.plan), 0, L.doc, None, L.todo, L.seen, L.snap)
                      \/ L.n # ChunksOf[L.text] /\
                         Turns(L, N, L.plan, L.n + 1, L.doc, L.text, L.todo, L.seen, L.snap)
<1>1. Working(t, L) /\ Head(L.plan) = "upsert"
  BY Works
<1>2. L.text \in Texts /\ L.doc \in Docs /\ L.n <= ChunksOf[L.text] /\ ChunksOf[L.text] \in Nat
  BY <1>1, RowTypes DEF Working, Args, Is
<1>3. ASSUME L.n = ChunksOf[L.text], Continue(t, [L EXCEPT !.text = None])
      PROVE  /\ LocalsOK'
             /\ \E N : /\ Goes(t, N)
                       /\ Turns(L, N, Tail(L.plan), 0, L.doc, None, L.todo, L.seen, L.snap)
  <2> DEFINE N == [[L EXCEPT !.text = None] EXCEPT !.plan = Tail(@), !.n = 0]
  <2>1. Turns(L, N, Tail(L.plan), 0, L.doc, None, L.todo, L.seen, L.snap)
    BY <1>1 DEF Working, Turns, LocalType
  <2>2. Become(t, N)
    BY <1>3 DEF Continue
  <2>3. /\ PlanOK(L.op, Tail(L.plan))
        /\ Tail(L.plan) # << >> => Follows(L.op, Head(L.plan), Head(Tail(L.plan)))
        /\ \A c : Among(c, Tail(L.plan)) => Among(c, L.plan)
    BY <1>1, TailPlan DEF Working
  <2> HIDE DEF N
  <2>4. Tail(L.plan) # << >> => Head(Tail(L.plan)) \in {"list", "each_file", "each_stored"}
    BY <1>1, <2>3 DEF Follows
  <2>5. Args(N)
    BY <2>1, <2>4 DEF Args, Turns, Is
  <2>6. LocalsOK' /\ Goes(t, N)
    BY <1>1, <2>1, <2>2, <2>3, <2>5, TurnGoes DEF Working, FieldsOK
  <2> QED BY <2>1, <2>6
<1>4. ASSUME L.n # ChunksOf[L.text], Become(t, [L EXCEPT !.n = @ + 1])
      PROVE  /\ LocalsOK'
             /\ \E N : /\ Goes(t, N)
                       /\ Turns(L, N, L.plan, L.n + 1, L.doc, L.text, L.todo, L.seen, L.snap)
  <2> DEFINE N == [L EXCEPT !.n = @ + 1]
  <2>1. Turns(L, N, L.plan, L.n + 1, L.doc, L.text, L.todo, L.seen, L.snap)
    <3>1. L.n + 1 \in Nat
      BY <1>1 DEF Working
    <3> QED BY <1>1, <3>1 DEF Working, Turns, LocalType
  <2>2. Become(t, N)
    BY <1>4
  <2> HIDE DEF N
  <2>3. L.n + 1 <= ChunksOf[L.text]
    BY <1>1, <1>2, <1>4 DEF Working
  <2>4. Args(L) /\ Head(L.plan) = "upsert"
    BY <1>1 DEF Working
  <2>5. Args(N)
    BY <2>1, <2>3, <2>4 DEF Args, Turns, Is
  <2>6. LocalsOK' /\ Goes(t, N)
    BY <1>1, <2>1, <2>2, <2>5, TurnGoes DEF Working, FieldsOK
  <2> QED BY <2>1, <2>6
<1> QED BY <1>3, <1>4

\* The deletion of the next chunk.
LEMMA UnindexTurns ==
  ASSUME LocalsOK, NEW t \in Threads, NEW L, L = thread[t], At(t, "unindex"),
         L.n # L.snap[L.doc].chunks, Become(t, [L EXCEPT !.n = @ + 1])
  PROVE  /\ LocalsOK'
         /\ \E N : /\ Goes(t, N)
                   /\ Turns(L, N, L.plan, L.n + 1, L.doc, L.text, L.todo, L.seen, L.snap)
<1>1. Working(t, L) /\ Head(L.plan) = "unindex"
  BY Works
<1>2. L.doc \in Docs /\ L.n <= L.snap[L.doc].chunks /\ L.snap[L.doc].chunks \in Nat
  <2>1. L.doc \in Docs /\ L.n <= L.snap[L.doc].chunks
    BY <1>1 DEF Working, Args, Is
  <2>2. L.snap[L.doc] \in RowType
    BY <1>1, <2>1 DEF Working
  <2> QED BY <2>1, <2>2, RowTypes DEF RowType
<1> DEFINE N == [L EXCEPT !.n = @ + 1]
<1>3. Turns(L, N, L.plan, L.n + 1, L.doc, L.text, L.todo, L.seen, L.snap)
  <2>1. L.n + 1 \in Nat
    BY <1>1 DEF Working
  <2> QED BY <1>1, <2>1 DEF Working, Turns, LocalType
<1>4. Become(t, N)
  OBVIOUS
<1> HIDE DEF N
<1>5. L.n + 1 <= L.snap[L.doc].chunks
  BY <1>1, <1>2 DEF Working
<1>6. Args(L) /\ Head(L.plan) = "unindex"
  BY <1>1 DEF Working
<1>7. Args(N)
  BY <1>3, <1>5, <1>6 DEF Args, Turns, Is
<1>8. LocalsOK' /\ Goes(t, N)
  BY <1>1, <1>3, <1>4, <1>7, TurnGoes DEF Working, FieldsOK
<1> QED BY <1>3, <1>8

\* An empty plan has no call.
LEMMA AmongNothing ==
  \A c : ~Among(c, << >>)
BY DEF Among

\* One call put in front of a plan, or two, or three.
LEMMA FrontOne ==
  ASSUME NEW op, NEW s, PlanOK(op, s), NEW a \in Steps,
         s # << >>, op \in Syncs => Among("finish", s),
         Makes(op, a), Follows(op, a, Head(s))
  PROVE  /\ PlanOK(op, <<a>> \o s) /\ <<a>> \o s # << >> /\ Head(<<a>> \o s) = a
         /\ \A x : Among(x, <<a>> \o s) <=> x = a \/ Among(x, s)
<1> DEFINE p == <<a>>
<1>1. /\ p \in Seq(Steps) /\ p # << >> /\ p[Len(p)] = a /\ p[1] = a
      /\ \A x : Among(x, p) <=> x = a
  BY DEF Among
<1>2. Chained(op, p)
  BY ShortPlans
<1> HIDE DEF p
<1>3. /\ PlanOK(op, p \o s) /\ p \o s # << >> /\ Head(p \o s) = p[1]
      /\ \A x : Among(x, p \o s) <=> Among(x, p) \/ Among(x, s)
  BY <1>1, <1>2, FrontPlan
<1>4. \A x : Among(x, p \o s) <=> x = a \/ Among(x, s)
  BY <1>1, <1>3
<1> QED BY <1>1, <1>3, <1>4 DEF p

\* Two calls put in front of a plan.
LEMMA FrontTwo ==
  ASSUME NEW op, NEW s, PlanOK(op, s), NEW a \in Steps, NEW b \in Steps,
         s # << >>, op \in Syncs => Among("finish", s),
         Makes(op, a), Makes(op, b), Follows(op, a, b), Follows(op, b, Head(s))
  PROVE  /\ PlanOK(op, <<a, b>> \o s) /\ <<a, b>> \o s # << >>
         /\ Head(<<a, b>> \o s) = a /\ (<<a, b>> \o s)[2] = b
         /\ \A x : Among(x, <<a, b>> \o s) <=> x \in {a, b} \/ Among(x, s)
<1> DEFINE p == <<a, b>>
<1>1. /\ p \in Seq(Steps) /\ p # << >> /\ p[Len(p)] = b /\ p[1] = a /\ p[2] = b /\ Len(p) = 2
      /\ \A i \in 1..2 : i = 1 \/ i = 2
  OBVIOUS
<1>2. Chained(op, p)
  BY ShortPlans
<1> HIDE DEF p
<1>3. \A x : Among(x, p) <=> x \in {a, b}
  BY <1>1 DEF Among
<1>4. Follows(op, p[Len(p)], Head(s)) /\ Len(p) > 1
  BY <1>1
<1>5. /\ PlanOK(op, p \o s) /\ p \o s # << >> /\ Head(p \o s) = p[1]
      /\ \A x : Among(x, p \o s) <=> Among(x, p) \/ Among(x, s)
  BY <1>1, <1>2, <1>4, FrontPlan
<1>6. (p \o s)[2] = p[2]
  BY <1>1, <1>2, <1>4, FrontPlan
<1>7. \A x : Among(x, p \o s) <=> x \in {a, b} \/ Among(x, s)
  BY <1>3, <1>5
<1> QED BY <1>1, <1>5, <1>6, <1>7 DEF p

\* Three calls put in front of a plan.
LEMMA FrontThree ==
  ASSUME NEW op, NEW s, PlanOK(op, s), NEW a \in Steps, NEW b \in Steps, NEW c \in Steps,
         s # << >>, op \in Syncs => Among("finish", s),
         Makes(op, a), Makes(op, b), Makes(op, c), Follows(op, a, b), Follows(op, b, c),
         Follows(op, c, Head(s))
  PROVE  /\ PlanOK(op, <<a, b, c>> \o s) /\ <<a, b, c>> \o s # << >>
         /\ Head(<<a, b, c>> \o s) = a /\ (<<a, b, c>> \o s)[2] = b
         /\ \A x : Among(x, <<a, b, c>> \o s) <=> x \in {a, b, c} \/ Among(x, s)
<1> DEFINE p == <<a, b, c>>
<1>1. /\ p \in Seq(Steps) /\ p # << >> /\ p[Len(p)] = c /\ p[1] = a /\ p[2] = b /\ p[3] = c
      /\ Len(p) = 3 /\ \A i \in 1..3 : i = 1 \/ i = 2 \/ i = 3
  OBVIOUS
<1>2. Chained(op, p)
  BY ShortPlans
<1> HIDE DEF p
<1>3. \A x : Among(x, p) <=> x \in {a, b, c}
  BY <1>1 DEF Among
<1>4. Follows(op, p[Len(p)], Head(s)) /\ Len(p) > 1
  BY <1>1
<1>5. /\ PlanOK(op, p \o s) /\ p \o s # << >> /\ Head(p \o s) = p[1]
      /\ \A x : Among(x, p \o s) <=> Among(x, p) \/ Among(x, s)
  BY <1>1, <1>2, <1>4, FrontPlan
<1>6. (p \o s)[2] = p[2]
  BY <1>1, <1>2, <1>4, FrontPlan
<1>7. \A x : Among(x, p \o s) <=> x \in {a, b, c} \/ Among(x, s)
  BY <1>3, <1>5
<1> QED BY <1>1, <1>5, <1>6, <1>7 DEF p

\* The files of a source are documents.
LEMMA SourceFiles ==
  Linked \subseteq Files /\ Present \subseteq Files /\ Files \subseteq Docs
BY DEF Linked, Present, Docs

\* The scan of a source.
LEMMA ScanTurns ==
  ASSUME LocalsOK, NEW t \in Threads, NEW L, L = thread[t], Scan(t)
  PROVE  /\ LocalsOK'
         /\ \E N : /\ Goes(t, N)
                   /\ Turns(L, N, <<"each_file">> \o Tail(L.plan), L.n, L.doc, L.text,
                            Present, Present, L.snap)
                   /\ \A c : Among(c, N.plan) => c = "each_file" \/ Among(c, L.plan)
                   /\ N.plan # << >> /\ Head(N.plan) = "each_file"
<1>1. At(t, "scan")
  BY DEF Scan
<1>2. Working(t, L) /\ Head(L.plan) = "scan"
  BY <1>1, Works
<1> DEFINE N == [L EXCEPT !.plan = <<"each_file">> \o Tail(@), !.todo = Present, !.seen = Present]
           s == Tail(L.plan)
<1>3. L.op \in Syncs
  BY <1>2 DEF Working, Makes
<1>4. /\ PlanOK(L.op, s) /\ Among("finish", s)
      /\ s # << >> => Follows(L.op, "scan", Head(s))
      /\ \A c : Among(c, s) => Among(c, L.plan)
  BY <1>2, <1>3, TailPlan DEF Working, Reports
<1>5. s # << >> /\ Head(s) = "prune"
  <2>1. s # << >>
    BY <1>4, AmongNothing
  <2> QED BY <1>4, <2>1 DEF Follows
<1>6. "each_file" \in Steps /\ Makes(L.op, "each_file") /\ Follows(L.op, "each_file", "prune")
  BY <1>3 DEF Steps, Calls, Makes, Follows
<1>7. /\ PlanOK(L.op, <<"each_file">> \o s) /\ <<"each_file">> \o s # << >>
      /\ Head(<<"each_file">> \o s) = "each_file"
      /\ \A x : Among(x, <<"each_file">> \o s) <=> x = "each_file" \/ Among(x, s)
  <2>1. L.op \in Syncs => Among("finish", s)
    BY <1>4
  <2>2. Follows(L.op, "each_file", Head(s))
    BY <1>5, <1>6
  <2> HIDE DEF s
  <2> QED BY <1>4, <1>5, <1>6, <2>1, <2>2, FrontOne
<1>8. <<"each_file">> \o s \in Seq(Calls)
  BY <1>7 DEF PlanOK
<1>9. Turns(L, N, <<"each_file">> \o s, L.n, L.doc, L.text, Present, Present, L.snap)
  BY <1>2, <1>8, SourceFiles DEF Working, Turns, LocalType
<1>10. Become(t, N)
  BY DEF Scan
<1> HIDE DEF N, s
<1>11. Args(N)
  BY <1>7, <1>9 DEF Args, Turns, Is
<1>12. LocalsOK' /\ Goes(t, N)
  BY <1>2, <1>3, <1>7, <1>9, <1>10, <1>11, SourceFiles, TurnGoes
<1>13. /\ \A c : Among(c, N.plan) => c = "each_file" \/ Among(c, L.plan)
       /\ N.plan # << >> /\ Head(N.plan) = "each_file"
  BY <1>4, <1>7, <1>9 DEF Turns
<1> QED BY <1>9, <1>12, <1>13 DEF s

\* The listing of the documents that a source no longer has.
LEMMA PruneTurns ==
  ASSUME LocalsOK, NEW t \in Threads, NEW L, L = thread[t], Prune(t),
         rows \in [Docs -> RowType]
  PROVE  /\ LocalsOK'
         /\ \E N : /\ Goes(t, N)
                   /\ Turns(L, N, <<"each_pruned">> \o Tail(L.plan), L.n, L.doc, L.text,
                            Linked \ L.seen, {}, rows)
                   /\ \A c : Among(c, N.plan) => c = "each_pruned" \/ Among(c, L.plan)
                   /\ Among("each_pruned", N.plan)
                   /\ N.plan # << >> /\ Head(N.plan) = "each_pruned"
<1>1. At(t, "prune")
  BY DEF Prune
<1>2. Working(t, L) /\ Head(L.plan) = "prune"
  BY <1>1, Works
<1> DEFINE N == [L EXCEPT !.plan = <<"each_pruned">> \o Tail(@), !.snap = rows,
                          !.todo = Linked \ L.seen, !.seen = {}]
           s == Tail(L.plan)
<1>3. L.op \in Syncs
  BY <1>2 DEF Working, Makes
<1>4. /\ PlanOK(L.op, s) /\ Among("finish", s)
      /\ s # << >> => Follows(L.op, "prune", Head(s))
      /\ \A c : Among(c, s) => Among(c, L.plan)
  BY <1>2, <1>3, TailPlan DEF Working, Reports
<1>5. s # << >> /\ Head(s) = "list"
  <2>1. s # << >>
    BY <1>4, AmongNothing
  <2> QED BY <1>4, <2>1 DEF Follows
<1>6. "each_pruned" \in Steps /\ Makes(L.op, "each_pruned") /\ Follows(L.op, "each_pruned", "list")
  BY <1>3 DEF Steps, Calls, Makes, Follows
<1>7. /\ PlanOK(L.op, <<"each_pruned">> \o s) /\ <<"each_pruned">> \o s # << >>
      /\ Head(<<"each_pruned">> \o s) = "each_pruned"
      /\ \A x : Among(x, <<"each_pruned">> \o s) <=> x = "each_pruned" \/ Among(x, s)
  <2>1. L.op \in Syncs => Among("finish", s)
    BY <1>4
  <2>2. Follows(L.op, "each_pruned", Head(s))
    BY <1>5, <1>6
  <2> HIDE DEF s
  <2> QED BY <1>4, <1>5, <1>6, <2>1, <2>2, FrontOne
<1>8. <<"each_pruned">> \o s \in Seq(Calls) /\ Linked \ L.seen \subseteq Docs
      /\ Linked \ L.seen \subseteq Files
  BY <1>7, SourceFiles DEF PlanOK
<1>9. Turns(L, N, <<"each_pruned">> \o s, L.n, L.doc, L.text, Linked \ L.seen, {}, rows)
  BY <1>2, <1>8 DEF Working, Turns, LocalType
<1>10. Become(t, N)
  BY DEF Prune
<1> HIDE DEF N, s
<1>11. Args(N)
  BY <1>7, <1>9 DEF Args, Turns, Is
<1>12. LocalsOK' /\ Goes(t, N)
  BY <1>2, <1>3, <1>7, <1>8, <1>9, <1>10, <1>11, TurnGoes
<1>13. /\ \A c : Among(c, N.plan) => c = "each_pruned" \/ Among(c, L.plan)
       /\ Among("each_pruned", N.plan)
       /\ N.plan # << >> /\ Head(N.plan) = "each_pruned"
  BY <1>4, <1>7, <1>9 DEF Turns
<1> QED BY <1>9, <1>12, <1>13 DEF s

\* The listing of the documents that a resync indexes again.
LEMMA SnapshotTurns ==
  ASSUME LocalsOK, NEW t \in Threads, NEW L, L = thread[t], Snapshot(t),
         rows \in [Docs -> RowType]
  PROVE  /\ LocalsOK' /\ L.op = "resync"
         /\ \E N : /\ Goes(t, N)
                   /\ Turns(L, N, Tail(L.plan), 0, L.doc, L.text, StoredDocs, L.seen, rows)
                   /\ \A c : Among(c, N.plan) => c \in Rebuilds
                   /\ N.plan # << >> /\ Head(N.plan) = "wipe"
<1>1. At(t, "snapshot")
  BY DEF Snapshot
<1>2. Working(t, L) /\ Head(L.plan) = "snapshot"
  BY <1>1, Works
<1> DEFINE N == [[L EXCEPT !.todo = StoredDocs, !.snap = rows] EXCEPT !.plan = Tail(@), !.n = 0]
           s == Tail(L.plan)
<1>3. L.op = "resync" /\ L.op \in Syncs
  BY <1>2 DEF Working, Makes, Syncs
<1>4. /\ PlanOK(L.op, s) /\ Among("finish", s)
      /\ s # << >> => Follows(L.op, "snapshot", Head(s))
      /\ \A c : Among(c, s) => c \in Rebuilds
  BY <1>2, <1>3, TailPlan DEF Working, Reports
<1>5. s # << >> /\ Head(s) = "wipe"
  <2>1. s # << >>
    BY <1>4, AmongNothing
  <2> QED BY <1>4, <2>1 DEF Follows
<1>6. s \in Seq(Calls) /\ StoredDocs \subseteq Docs
  BY <1>4, DocsFinite DEF PlanOK
<1>7. Turns(L, N, s, 0, L.doc, L.text, StoredDocs, L.seen, rows)
  BY <1>2, <1>6 DEF Working, Turns, LocalType
<1>8. Become(t, N)
  BY DEF Snapshot, Continue
<1> HIDE DEF N, s
<1>9. Args(N)
  BY <1>5, <1>7 DEF Args, Turns, Is
<1>10. ~Among("each_file", s)
  BY <1>4 DEF Rebuilds
<1>11. LocalsOK' /\ Goes(t, N)
  BY <1>2, <1>3, <1>4, <1>7, <1>8, <1>9, <1>10, TurnGoes
<1> QED BY <1>3, <1>4, <1>5, <1>7, <1>11 DEF s, Turns

\* The end of a loop over documents.
LEMMA LoopEnds ==
  ASSUME LocalsOK, NEW t \in Threads, NEW L, L = thread[t],
         NEW call \in {"each_file", "each_pruned", "each_stored"}, At(t, call), L.todo = {},
         Continue(t, [L EXCEPT !.doc = None, !.snap = NoRows])
  PROVE  /\ LocalsOK'
         /\ \E N : /\ Goes(t, N)
                   /\ Turns(L, N, Tail(L.plan), 0, None, L.text, {}, L.seen, NoRows)
<1>1. Working(t, L) /\ Head(L.plan) = call
  BY Works
<1> DEFINE N == [[L EXCEPT !.doc = None, !.snap = NoRows] EXCEPT !.plan = Tail(@), !.n = 0]
<1>2. Turns(L, N, Tail(L.plan), 0, None, L.text, {}, L.seen, NoRows)
  BY <1>1, RowTypes DEF Working, Turns, LocalType
<1>3. Become(t, N)
  BY DEF Continue
<1>4. /\ PlanOK(L.op, Tail(L.plan)) /\ Makes(L.op, call)
      /\ Tail(L.plan) # << >> => Follows(L.op, call, Head(Tail(L.plan)))
  BY <1>1, TailPlan DEF Working
<1> HIDE DEF N
<1>5. Tail(L.plan) # << >> => Head(Tail(L.plan)) \in {"prune", "drop_source", "list"}
  BY <1>4 DEF Follows
<1>6. Args(N)
  BY <1>2, <1>5 DEF Args, Turns, Is
<1>7. L.op \in Syncs \cup {"drop"}
  BY <1>4 DEF Makes, Syncs
<1>8. LocalsOK' /\ Goes(t, N)
  BY <1>1, <1>2, <1>3, <1>4, <1>6, <1>7, TurnGoes
<1> QED BY <1>2, <1>8

\* A file taken up.
AtFile(L, f, x) == [L EXCEPT !.todo = @ \ {f}, !.doc = f, !.text = x,
                             !.snap = [NoRows EXCEPT ![f] = rows[f]]]
FileSteps == {<< >>, <<"insert", "upsert">>, <<"unindex", "update", "upsert">>}

FileGoes(t, L, N, f, x, p) ==
  /\ Goes(t, N)
  /\ Turns(L, N, p \o L.plan, 0, f, x, L.todo \ {f}, L.seen, [NoRows EXCEPT ![f] = rows[f]])
  /\ N.plan # << >>
  /\ Head(N.plan) = IF p = << >> THEN "each_file" ELSE p[1]
  /\ \A c : Among(c, N.plan) =>
       c \in {"insert", "unindex", "update", "upsert"} \/ Among(c, L.plan)
  /\ Among("each_file", N.plan)

\* The turn of a sync at one file.
LEMMA FileTurns ==
  ASSUME LocalsOK, NEW t \in Threads, NEW L, L = thread[t], At(t, "each_file"),
         rows \in [Docs -> RowType], NEW f \in L.todo, NEW x \in Texts, NEW p \in FileSteps,
         CallFirst(t, AtFile(L, f, x), p)
  PROVE  /\ LocalsOK' /\ f \in Files /\ L.op \in Syncs
         /\ \E N : FileGoes(t, L, N, f, x, p)
<1> DEFINE K == AtFile(L, f, x)
           N == [K EXCEPT !.plan = p \o @, !.n = 0]
           snap == [NoRows EXCEPT ![f] = rows[f]]
           s == L.plan
<1>1. Working(t, L) /\ Head(s) = "each_file"
  BY Works
<1>2. L.op \in Syncs
  BY <1>1 DEF Working, Makes
<1>3. /\ PlanOK(L.op, s) /\ Among("finish", s) /\ s # << >> /\ Among("each_file", s)
  BY <1>1, <1>2, TailPlan DEF Working, Reports
<1>4. L.todo \subseteq Files /\ f \in Files /\ f \in Docs
  BY <1>1, <1>3, SourceFiles DEF Working, FieldsOK
<1>5. snap \in [Docs -> RowType] /\ snap[f] = rows[f] /\ rows[f].chunks \in Nat
  BY <1>4, RowTypes DEF RowType
<1>6. /\ \A c \in {"insert", "upsert", "unindex", "update"} : c \in Steps /\ Makes(L.op, c)
      /\ Follows(L.op, "insert", "upsert") /\ Follows(L.op, "upsert", "each_file")
      /\ Follows(L.op, "unindex", "update") /\ Follows(L.op, "update", "upsert")
  BY <1>2 DEF Steps, Calls, Makes, Follows, Syncs
<1> HIDE DEF snap, s
<1>7. /\ PlanOK(L.op, p \o s) /\ p \o s # << >>
      /\ Head(p \o s) = IF p = << >> THEN "each_file" ELSE p[1]
      /\ \A c : Among(c, p \o s) =>
           c \in {"insert", "unindex", "update", "upsert"} \/ Among(c, s)
      /\ \A c : Among(c, s) => Among(c, p \o s)
  <2>1. CASE p = << >>
    <3>1. p \o s = s
      BY <1>3, <2>1 DEF PlanOK
    <3> QED BY <1>1, <1>3, <2>1, <3>1
  <2>2. CASE p = <<"insert", "upsert">>
    <3>1. /\ PlanOK(L.op, <<"insert", "upsert">> \o s) /\ <<"insert", "upsert">> \o s # << >>
          /\ Head(<<"insert", "upsert">> \o s) = "insert"
          /\ \A c : Among(c, <<"insert", "upsert">> \o s) <=>
                      c \in {"insert", "upsert"} \/ Among(c, s)
      BY <1>1, <1>3, <1>6, FrontTwo
    <3>2. p # << >> /\ p[1] = "insert"
      BY <2>2
    <3> QED BY <2>2, <3>1, <3>2
  <2>3. CASE p = <<"unindex", "update", "upsert">>
    <3>1. /\ PlanOK(L.op, <<"unindex", "update", "upsert">> \o s)
          /\ <<"unindex", "update", "upsert">> \o s # << >>
          /\ Head(<<"unindex", "update", "upsert">> \o s) = "unindex"
          /\ \A c : Among(c, <<"unindex", "update", "upsert">> \o s) <=>
                      c \in {"unindex", "update", "upsert"} \/ Among(c, s)
      BY <1>1, <1>3, <1>6, FrontThree
    <3>2. p # << >> /\ p[1] = "unindex"
      BY <2>3
    <3> QED BY <2>3, <3>1, <3>2
  <2> QED BY <2>1, <2>2, <2>3 DEF FileSteps
<1>8. p \o s \in Seq(Calls)
  BY <1>7 DEF PlanOK
<1>9. Turns(L, N, p \o s, 0, f, x, L.todo \ {f}, L.seen, snap)
  BY <1>1, <1>4, <1>5, <1>8 DEF Working, Turns, LocalType, snap, s, AtFile
<1>10. Become(t, N)
  BY DEF CallFirst
<1> HIDE DEF N, K
<1>11. Head(p \o s) \in {"each_file", "insert", "unindex"}
  <2>1. p # << >> => p[1] \in {"insert", "unindex"}
    BY DEF FileSteps
  <2> QED BY <1>7, <2>1
<1>12. f \notin L.todo \ {f} /\ ~(x \notin Texts)
  OBVIOUS
<1>13. Args(N)
  <2>1. /\ N.plan = p \o s /\ N.n = 0 /\ N.doc = f /\ N.text = x /\ N.todo = L.todo \ {f}
        /\ N.snap = snap
    BY <1>9 DEF Turns
  <2> QED BY <1>4, <1>5, <1>7, <1>11, <1>12, <2>1 DEF Args, Is
<1>14. LocalsOK' /\ Goes(t, N)
  <2>1. L.todo \ {f} \subseteq Files
    BY <1>4
  <2> QED BY <1>1, <1>2, <1>7, <1>9, <1>10, <1>13, <2>1, TurnGoes
<1>15. N.plan = p \o s
  BY <1>9 DEF Turns
<1>16. /\ N.plan # << >>
       /\ Head(N.plan) = IF p = << >> THEN "each_file" ELSE p[1]
       /\ \A c : Among(c, N.plan) =>
            c \in {"insert", "unindex", "update", "upsert"} \/ Among(c, s)
       /\ Among("each_file", N.plan)
  BY <1>3, <1>7, <1>15
<1>17. FileGoes(t, L, N, f, x, p)
  BY <1>9, <1>14, <1>16 DEF s, snap, FileGoes
<1> QED BY <1>2, <1>4, <1>14, <1>17

\* The turn of a sync at one document to prune.
LEMMA PrunedTurns ==
  ASSUME LocalsOK, NEW t \in Threads, NEW L, L = thread[t], At(t, "each_pruned"),
         NEW d \in L.todo,
         CallFirst(t, [L EXCEPT !.todo = @ \ {d}, !.doc = d], <<"unindex", "remove">>)
  PROVE  /\ LocalsOK' /\ d \in Docs /\ L.op \in Syncs \cup {"drop"}
         /\ \E N : /\ Goes(t, N)
                   /\ Turns(L, N, <<"unindex", "remove">> \o L.plan, 0, d, L.text,
                            L.todo \ {d}, L.seen, L.snap)
                   /\ N.plan # << >> /\ Head(N.plan) = "unindex" /\ N.plan[2] = "remove"
                   /\ \A c : Among(c, N.plan) => c \in {"unindex", "remove"} \/ Among(c, L.plan)
                   /\ Among("each_pruned", N.plan) /\ Among("each_pruned", L.plan)
<1> DEFINE K == [L EXCEPT !.todo = @ \ {d}, !.doc = d]
           N == [K EXCEPT !.plan = <<"unindex", "remove">> \o @, !.n = 0]
           s == L.plan
<1>1. Working(t, L) /\ Head(s) = "each_pruned"
  BY Works
<1>2. L.op \in Syncs \cup {"drop"}
  BY <1>1 DEF Working, Makes
<1>3. /\ PlanOK(L.op, s) /\ s # << >> /\ Among("each_pruned", s)
      /\ L.op \in Syncs => Among("finish", s)
  BY <1>1, TailPlan DEF Working, Reports
<1>4. /\ \A c \in {"unindex", "remove"} : c \in Steps /\ Makes(L.op, c)
      /\ Follows(L.op, "unindex", "remove") /\ Follows(L.op, "remove", "each_pruned")
  BY <1>2 DEF Steps, Calls, Makes, Follows, Syncs
<1> HIDE DEF s
<1>5. /\ PlanOK(L.op, <<"unindex", "remove">> \o s) /\ <<"unindex", "remove">> \o s # << >>
      /\ Head(<<"unindex", "remove">> \o s) = "unindex"
      /\ (<<"unindex", "remove">> \o s)[2] = "remove"
      /\ \A c : Among(c, <<"unindex", "remove">> \o s) <=> c \in {"unindex", "remove"} \/ Among(c, s)
  BY <1>1, <1>3, <1>4, FrontTwo
<1>6. <<"unindex", "remove">> \o s \in Seq(Calls) /\ d \in Docs
  BY <1>1, <1>5 DEF PlanOK, Working
<1>7. Turns(L, N, <<"unindex", "remove">> \o s, 0, d, L.text, L.todo \ {d}, L.seen, L.snap)
  BY <1>1, <1>6 DEF Working, Turns, LocalType, s
<1>8. Become(t, N)
  BY DEF CallFirst
<1> HIDE DEF N, K
<1>9. 0 <= L.snap[d].chunks
  <2>1. L.snap[d] \in RowType
    BY <1>1, <1>6 DEF Working
  <2> QED BY <2>1, RowTypes DEF RowType
<1>10. Args(N)
  <2>1. /\ N.plan = <<"unindex", "remove">> \o s /\ N.n = 0 /\ N.doc = d /\ N.op = L.op
        /\ N.todo = L.todo \ {d} /\ N.snap = L.snap
    BY <1>7 DEF Turns
  <2>2. L.op \notin {"create", "update"}
    BY <1>2 DEF Syncs
  <2> QED BY <1>5, <1>6, <1>9, <2>1, <2>2 DEF Args, Is
<1>11. LocalsOK' /\ Goes(t, N)
  <2>1. /\ L.op \in {"sync", "drop"} => L.todo \subseteq Files
        /\ Among("each_file", s) => L.todo \subseteq Files
    BY <1>1 DEF Working, FieldsOK, s
  <2>2. L.op \in {"sync", "drop"} \/ Among("each_file", <<"unindex", "remove">> \o s)
          => L.todo \ {d} \subseteq Files
    BY <1>5, <2>1
  <2> QED BY <1>1, <1>2, <1>5, <1>7, <1>8, <1>10, <2>2, TurnGoes
<1> QED BY <1>2, <1>3, <1>5, <1>6, <1>7, <1>11 DEF Turns, s

\* A resync reconciles the source before it takes its snapshot.
LEMMA ReconcileTurns ==
  ASSUME LocalsOK, NEW t \in Threads, NEW L, L = thread[t], At(t, "reconcile"),
         Become(t, [L EXCEPT !.plan = SyncSource \o <<"source_result">> \o Tail(@)])
  PROVE  /\ LocalsOK' /\ L.op = "resync"
         /\ \E N : /\ Goes(t, N)
                   /\ Turns(L, N, SyncSource \o <<"source_result">> \o Tail(L.plan), L.n,
                            L.doc, L.text, L.todo, L.seen, L.snap)
                   /\ N.plan # << >> /\ Head(N.plan) = "mark_source"
                   /\ \A c : Among(c, N.plan) =>
                        \/ c \in {"mark_source", "scan", "prune", "list", "count", "source_result"}
                        \/ Among(c, L.plan)
                   /\ Among("finish", N.plan)
<1> DEFINE N == [L EXCEPT !.plan = SyncSource \o <<"source_result">> \o Tail(@)]
           p == SyncSource \o <<"source_result">>
           s == Tail(L.plan)
<1>1. Working(t, L) /\ Head(L.plan) = "reconcile"
  BY Works
<1>2. L.op = "resync" /\ L.op \in Syncs
  BY <1>1 DEF Working, Makes, Syncs
<1>3. /\ PlanOK(L.op, s) /\ Among("finish", s)
      /\ s # << >> => Follows(L.op, "reconcile", Head(s))
      /\ \A c : Among(c, s) => Among(c, L.plan)
  BY <1>1, <1>2, TailPlan DEF Working, Reports
<1>4. s # << >> /\ Head(s) = "snapshot"
  <2>1. s # << >>
    BY <1>3, AmongNothing
  <2> QED BY <1>3, <2>1 DEF Follows
<1>5. /\ p[1] = "mark_source" /\ p[2] = "scan" /\ p[3] = "prune" /\ p[4] = "list"
      /\ p[5] = "count" /\ p[6] = "source_result" /\ Len(p) = 6 /\ p # << >>
  BY DEF SyncSource
<1>6. p \in Seq(Steps)
  BY DEF SyncSource, Steps, Calls
<1> HIDE DEF p, s
<1>7. /\ \A i \in 1..6 : i = 1 \/ i = 2 \/ i = 3 \/ i = 4 \/ i = 5 \/ i = 6
      /\ \A i \in 1..(6 - 1) : \/ (i = 1 /\ i + 1 = 2) \/ (i = 2 /\ i + 1 = 3)
                               \/ (i = 3 /\ i + 1 = 4) \/ (i = 4 /\ i + 1 = 5)
                               \/ (i = 5 /\ i + 1 = 6)
  OBVIOUS
<1>8. Chained(L.op, p) /\ Follows(L.op, p[Len(p)], Head(s))
  BY <1>2, <1>4, <1>5, <1>7 DEF Chained, Makes, Follows, Syncs
<1>9. \A c : Among(c, p) =>
        c \in {"mark_source", "scan", "prune", "list", "count", "source_result"}
  BY <1>5, <1>7 DEF Among
<1>10. /\ PlanOK(L.op, p \o s) /\ p \o s # << >> /\ Head(p \o s) = p[1]
       /\ \A c : Among(c, p \o s) <=> Among(c, p) \/ Among(c, s)
  BY <1>3, <1>4, <1>5, <1>6, <1>8, FrontPlan, Zenon
<1>11. p \o s \in Seq(Calls)
  BY <1>10 DEF PlanOK
<1>12. Turns(L, N, p \o s, L.n, L.doc, L.text, L.todo, L.seen, L.snap)
  BY <1>1, <1>11 DEF Working, Turns, LocalType, p, s
<1>13. Become(t, N)
  OBVIOUS
<1> HIDE DEF N
<1>14. N.plan = p \o s
  BY <1>12 DEF Turns
<1>15. Args(N)
  BY <1>5, <1>10, <1>14 DEF Args, Is
<1>16. LocalsOK' /\ Goes(t, N)
  <2>1. Among("each_file", L.plan) => L.todo \subseteq Files
    BY <1>1 DEF Working, FieldsOK
  <2>2. L.op \in {"sync", "drop"} \/ Among("each_file", p \o s) => L.todo \subseteq Files
    BY <1>2, <1>3, <1>9, <1>10, <2>1
  <2> QED BY <1>1, <1>2, <1>10, <1>12, <1>13, <1>15, <2>2, TurnGoes
<1>17. /\ N.plan # << >> /\ Head(N.plan) = "mark_source"
       /\ \A c : Among(c, N.plan) =>
            \/ c \in {"mark_source", "scan", "prune", "list", "count", "source_result"}
            \/ Among(c, L.plan)
       /\ Among("finish", N.plan)
  BY <1>3, <1>5, <1>9, <1>10, <1>14
<1> QED BY <1>2, <1>12, <1>16, <1>17 DEF p, s

\* A document taken up in a resync.
AtStored(L, d, x) == [L EXCEPT !.todo = @ \ {d}, !.doc = d, !.text = x]

StoredGoes(t, L, N, d, x, p) ==
  /\ Goes(t, N)
  /\ Turns(L, N, p \o L.plan, 0, d, x, L.todo \ {d}, L.seen, L.snap)
  /\ N.plan # << >> /\ Head(N.plan) = p[1]
  /\ \A c : Among(c, N.plan) => c \in {"recount", "upsert"} \/ Among(c, L.plan)
  /\ Among("each_stored", N.plan)

\* The turn of a resync at one document.
LEMMA RebuildTurns ==
  ASSUME LocalsOK, NEW t \in Threads, NEW L, L = thread[t], At(t, "each_stored"),
         NEW d \in L.todo, NEW x \in Texts, NEW p \in {<<"upsert">>, <<"recount", "upsert">>},
         CallFirst(t, AtStored(L, d, x), p)
  PROVE  /\ LocalsOK' /\ d \in Docs /\ L.op = "resync"
         /\ \E N : StoredGoes(t, L, N, d, x, p)
<1> DEFINE K == AtStored(L, d, x)
           N == [K EXCEPT !.plan = p \o @, !.n = 0]
           s == L.plan
<1>1. Working(t, L) /\ Head(s) = "each_stored"
  BY Works
<1>2. L.op = "resync" /\ L.op \in Syncs
  BY <1>1 DEF Working, Makes, Syncs
<1>3. /\ PlanOK(L.op, s) /\ s # << >> /\ Among("each_stored", s) /\ Among("finish", s)
  BY <1>1, <1>2, TailPlan DEF Working, Reports
<1>4. /\ \A c \in {"recount", "upsert"} : c \in Steps /\ Makes(L.op, c)
      /\ Follows(L.op, "recount", "upsert") /\ Follows(L.op, "upsert", "each_stored")
  BY <1>2 DEF Steps, Calls, Makes, Follows, Syncs
<1> HIDE DEF s
<1>5. /\ PlanOK(L.op, p \o s) /\ p \o s # << >> /\ Head(p \o s) = p[1]
      /\ \A c : Among(c, p \o s) => c \in {"recount", "upsert"} \/ Among(c, s)
      /\ \A c : Among(c, s) => Among(c, p \o s)
      /\ p[1] \in {"recount", "upsert"}
  <2>1. CASE p = <<"upsert">>
    <3>1. /\ PlanOK(L.op, <<"upsert">> \o s) /\ <<"upsert">> \o s # << >>
          /\ Head(<<"upsert">> \o s) = "upsert"
          /\ \A c : Among(c, <<"upsert">> \o s) <=> c = "upsert" \/ Among(c, s)
      BY <1>1, <1>3, <1>4, FrontOne
    <3>2. p[1] = "upsert"
      BY <2>1
    <3> QED BY <2>1, <3>1, <3>2
  <2>2. CASE p = <<"recount", "upsert">>
    <3>1. /\ PlanOK(L.op, <<"recount", "upsert">> \o s) /\ <<"recount", "upsert">> \o s # << >>
          /\ Head(<<"recount", "upsert">> \o s) = "recount"
          /\ \A c : Among(c, <<"recount", "upsert">> \o s) <=>
                      c \in {"recount", "upsert"} \/ Among(c, s)
      BY <1>1, <1>3, <1>4, FrontTwo
    <3>2. p[1] = "recount"
      BY <2>2
    <3> QED BY <2>2, <3>1, <3>2
  <2> QED BY <2>1, <2>2
<1>6. p \o s \in Seq(Calls) /\ d \in Docs
  BY <1>1, <1>5 DEF PlanOK, Working
<1>7. Turns(L, N, p \o s, 0, d, x, L.todo \ {d}, L.seen, L.snap)
  BY <1>1, <1>6 DEF Working, Turns, LocalType, s, AtStored
<1>8. Become(t, N)
  BY DEF CallFirst
<1> HIDE DEF N, K
<1>9. N.plan = p \o s
  BY <1>7 DEF Turns
<1>10. Args(N)
  <2>1. /\ N.n = 0 /\ N.doc = d /\ N.text = x /\ N.op = "resync"
        /\ N.todo = L.todo \ {d} /\ d \notin L.todo \ {d} /\ 0 <= ChunksOf[x]
    BY <1>2, <1>7, RowTypes DEF Turns
  <2> QED BY <1>5, <1>6, <1>9, <2>1 DEF Args, Is
<1>11. LocalsOK' /\ Goes(t, N)
  <2>1. Among("each_file", s) => L.todo \subseteq Files
    BY <1>1 DEF Working, FieldsOK, s
  <2>2. L.op \in {"sync", "drop"} \/ Among("each_file", p \o s) => L.todo \ {d} \subseteq Files
    BY <1>2, <1>5, <2>1
  <2> QED BY <1>1, <1>2, <1>5, <1>7, <1>8, <1>10, <2>2, TurnGoes
<1>12. /\ N.plan # << >> /\ Head(N.plan) = p[1]
       /\ \A c : Among(c, N.plan) => c \in {"recount", "upsert"} \/ Among(c, s)
       /\ Among("each_stored", N.plan)
  BY <1>3, <1>5, <1>9
<1>13. StoredGoes(t, L, N, d, x, p)
  BY <1>7, <1>11, <1>12 DEF s, StoredGoes
<1> QED BY <1>2, <1>6, <1>11, <1>13

-----------------------------------------------------------------------------
(* The types of the state.                                                 *)

\* The locals that an operation starts with.
Opens(N, op, result, doc, text, todo, snap, run) ==
  /\ N \in LocalType
  /\ N.op = op /\ N.plan = Program[op] /\ N.result = result /\ N.doc = doc /\ N.text = text
  /\ N.n = 0 /\ N.todo = todo /\ N.seen = {} /\ N.snap = snap /\ N.run = run

\* What an operation that opens has for locals.
LEMMA Opened ==
  ASSUME NEW op \in DOMAIN Program, NEW result \in Results, NEW doc \in Docs \cup {None},
         NEW text \in Texts \cup {None}, NEW todo \in SUBSET Docs,
         NEW snap \in [Docs -> RowType], NEW run \in Runs \cup {NoRun}
  PROVE  /\ Opens(Local(op, doc, text), op, "ready", doc, text, {}, NoRows, NoRun)
         /\ rows \in [Docs -> RowType] => \A d \in Docs :
              /\ Opens(Existing(op, d, text), op, "ready", d, text, {},
                       [NoRows EXCEPT ![d] = rows[d]], NoRun)
              /\ [NoRows EXCEPT ![d] = rows[d]] \in [Docs -> RowType]
         /\ Opens([Local(op, None, None) EXCEPT !.todo = todo, !.snap = snap],
                  op, "ready", None, None, todo, snap, NoRun)
         /\ Opens([Local(op, None, None) EXCEPT !.result = result],
                  op, result, None, None, {}, NoRows, NoRun)
         /\ Opens([Local(op, None, None) EXCEPT !.run = run],
                  op, "ready", None, None, {}, NoRows, run)
<1>1. /\ Program[op] \in Seq(Calls) /\ op \in Ops /\ op # "none" /\ NoRows \in [Docs -> RowType]
      /\ "ready" \in Results /\ 0 \in Nat
  BY Programs, OpsAre, RowTypes DEF PlanOK, Results
<1>2. \A x \in Docs \cup {None}, y \in Texts \cup {None} :
        Opens(Local(op, x, y), op, "ready", x, y, {}, NoRows, NoRun)
  BY <1>1 DEF Opens, Local, LocalType
<1>3. ASSUME rows \in [Docs -> RowType], NEW d \in Docs
      PROVE  /\ Opens(Existing(op, d, text), op, "ready", d, text, {},
                      [NoRows EXCEPT ![d] = rows[d]], NoRun)
             /\ [NoRows EXCEPT ![d] = rows[d]] \in [Docs -> RowType]
  <2>1. [NoRows EXCEPT ![d] = rows[d]] \in [Docs -> RowType]
    BY <1>1, <1>3
  <2> DEFINE K == Local(op, d, text)
  <2>2. Opens(K, op, "ready", d, text, {}, NoRows, NoRun)
    BY <1>2
  <2>3. Existing(op, d, text) = [K EXCEPT !.snap[d] = rows[d]]
    BY DEF Existing
  <2> HIDE DEF K
  <2>4. Existing(op, d, text) = [K EXCEPT !.snap = [NoRows EXCEPT ![d] = rows[d]]]
    BY <2>2, <2>3 DEF Opens
  <2> QED BY <2>1, <2>2, <2>4 DEF Opens, LocalType
<1>4. Opens([Local(op, None, None) EXCEPT !.todo = todo, !.snap = snap],
            op, "ready", None, None, todo, snap, NoRun)
  <2> DEFINE K == Local(op, None, None)
  <2>1. Opens(K, op, "ready", None, None, {}, NoRows, NoRun)
    BY <1>2
  <2> HIDE DEF K
  <2>2. Opens([K EXCEPT !.todo = todo, !.snap = snap],
              op, "ready", None, None, todo, snap, NoRun)
    BY <2>1 DEF Opens, LocalType
  <2> QED BY <2>2 DEF K
<1>5. Opens([Local(op, None, None) EXCEPT !.result = result],
            op, result, None, None, {}, NoRows, NoRun)
  <2> DEFINE K == Local(op, None, None)
  <2>1. Opens(K, op, "ready", None, None, {}, NoRows, NoRun)
    BY <1>2
  <2> HIDE DEF K
  <2>2. Opens([K EXCEPT !.result = result], op, result, None, None, {}, NoRows, NoRun)
    BY <2>1 DEF Opens, LocalType
  <2> QED BY <2>2 DEF K
<1>6. Opens([Local(op, None, None) EXCEPT !.run = run],
            op, "ready", None, None, {}, NoRows, run)
  <2> DEFINE K == Local(op, None, None)
  <2>1. Opens(K, op, "ready", None, None, {}, NoRows, NoRun)
    BY <1>2
  <2> HIDE DEF K
  <2>2. Opens([K EXCEPT !.run = run], op, "ready", None, None, {}, NoRows, run)
    BY <2>1 DEF Opens, LocalType
  <2> QED BY <2>2 DEF K
<1> QED BY <1>2, <1>3, <1>4, <1>5, <1>6

\* An operation starts.
LEMMA Starts ==
  ASSUME LocalsOK, NEW t \in Threads, NEW N, Start(t, N),
         NEW op \in DOMAIN Program, NEW result, NEW doc, NEW text, NEW todo, NEW snap, NEW run,
         Opens(N, op, result, doc, text, todo, snap, run),
         op # "edit" => result # "syncing",
         op \in Syncs <=> run # NoRun,
         op \in {"create", "update", "delete"} => doc \in ManualDocs,
         op \in {"create", "update"} => text \in Texts,
         op # "drop" => todo = {}, todo \subseteq Files
  PROVE  LocalsOK' /\ Goes(t, N) /\ Idle(t)
         /\ N.plan # << >> /\ Done(N) = N
<1>1. /\ PlanOK(op, Program[op]) /\ Program[op] # << >>
      /\ Head(Program[op]) \in {"result", "resolve", "mark"}
  BY Programs
<1>2. op # "none"
  BY OpsAre
<1>3. FieldsOK(N)
  BY DEF FieldsOK, Opens, Syncs
<1>4. Args(N)
  BY <1>1 DEF Args, Is, Opens
<1>5. LocalsOK' /\ Goes(t, N)
  BY <1>1, <1>2, <1>3, <1>4, GoesOn DEF Start, Goes, Opens
<1> QED BY <1>1, <1>5 DEF Start, Opens, Done

\* A request to create a document opens as such.
LEMMA CreateOpens ==
  ASSUME TypeInv, NEW t \in Threads, NEW d \in ManualDocs, NEW x \in Texts, Create(t, d, x)
  PROVE  /\ LocalsOK'
         /\ \E N : /\ Goes(t, N) /\ Done(N) = N /\ Start(t, N)
                   /\ Opens(N, "create", "ready", d, x, {}, NoRows, NoRun)
<1> DEFINE N == Local("create", d, x)
<1>1. Start(t, N) /\ LocalsOK
  BY DEF Create, TypeInv
<1>2. Opens(N, "create", "ready", d, x, {}, NoRows, NoRun)
  <2>1. /\ "create" \in DOMAIN Program /\ d \in Docs /\ NoRows \in [Docs -> RowType]
        /\ "ready" \in Results
    BY OpsAre, RowTypes DEF Results
  <2> QED BY <2>1, Opened
<1> HIDE DEF N
<1>3. LocalsOK' /\ Goes(t, N) /\ Done(N) = N
  <2>1. "create" \in DOMAIN Program /\ "create" \notin Syncs
    BY OpsAre DEF Syncs
  <2> QED BY <1>1, <1>2, <2>1, Starts
<1> QED BY <1>1, <1>2, <1>3

\* A request to change a document opens as such.
LEMMA UpdateOpens ==
  ASSUME TypeInv, NEW t \in Threads, NEW d \in ManualDocs, NEW x \in Texts, Update(t, d, x)
  PROVE  /\ LocalsOK'
         /\ \E N : /\ Goes(t, N) /\ Done(N) = N /\ Start(t, N)
                   /\ Opens(N, "update", "ready", d, x, {}, [NoRows EXCEPT ![d] = rows[d]], NoRun)
<1> DEFINE N == Existing("update", d, x)
<1>1. Start(t, N) /\ LocalsOK
  BY DEF Update, TypeInv
<1>2. Opens(N, "update", "ready", d, x, {}, [NoRows EXCEPT ![d] = rows[d]], NoRun)
  <2>1. /\ "update" \in DOMAIN Program /\ d \in Docs /\ NoRows \in [Docs -> RowType]
        /\ "ready" \in Results /\ rows \in [Docs -> RowType]
    BY OpsAre, RowTypes DEF Results, TypeInv, DataOK
  <2> QED BY <2>1, Opened
<1> HIDE DEF N
<1>3. LocalsOK' /\ Goes(t, N) /\ Done(N) = N
  <2>1. "update" \in DOMAIN Program /\ "update" \notin Syncs
    BY OpsAre DEF Syncs
  <2> QED BY <1>1, <1>2, <2>1, Starts
<1> QED BY <1>1, <1>2, <1>3

\* A request to delete a document opens as such.
LEMMA DeleteOpens ==
  ASSUME TypeInv, NEW t \in Threads, NEW d \in ManualDocs, Delete(t, d)
  PROVE  /\ LocalsOK'
         /\ \E N : /\ Goes(t, N) /\ Done(N) = N /\ Start(t, N)
                   /\ Opens(N, "delete", "ready", d, None, {}, [NoRows EXCEPT ![d] = rows[d]], NoRun)
<1> DEFINE N == Existing("delete", d, None)
<1>1. Start(t, N) /\ LocalsOK
  BY DEF Delete, TypeInv
<1>2. Opens(N, "delete", "ready", d, None, {}, [NoRows EXCEPT ![d] = rows[d]], NoRun)
  <2>1. /\ "delete" \in DOMAIN Program /\ d \in Docs /\ NoRows \in [Docs -> RowType]
        /\ "ready" \in Results /\ rows \in [Docs -> RowType]
    BY OpsAre, RowTypes DEF Results, TypeInv, DataOK
  <2> QED BY <2>1, Opened
<1> HIDE DEF N
<1>3. LocalsOK' /\ Goes(t, N) /\ Done(N) = N
  <2>1. "delete" \in DOMAIN Program /\ "delete" \notin Syncs
    BY OpsAre DEF Syncs
  <2> QED BY <1>1, <1>2, <2>1, Starts
<1> QED BY <1>1, <1>2, <1>3

\* A request to drop a source opens as such.
LEMMA DropOpens ==
  ASSUME TypeInv, NEW t \in Threads, DropSource(t)
  PROVE  /\ LocalsOK'
         /\ \E N : /\ Goes(t, N) /\ Done(N) = N /\ Start(t, N)
                   /\ Opens(N, "drop", "ready", None, None, Linked, rows, NoRun)
<1> DEFINE N == [Local("drop", None, None) EXCEPT !.todo = Linked, !.snap = rows]
<1>1. Start(t, N) /\ LocalsOK
  BY DEF DropSource, TypeInv
<1>2. Opens(N, "drop", "ready", None, None, Linked, rows, NoRun)
  <2>1. /\ "drop" \in DOMAIN Program /\ Linked \in SUBSET Docs
        /\ "ready" \in Results /\ rows \in [Docs -> RowType]
    BY OpsAre, SourceFiles DEF Results, TypeInv, DataOK
  <2> QED BY <2>1, Opened
<1> HIDE DEF N
<1>3. LocalsOK' /\ Goes(t, N) /\ Done(N) = N
  <2>1. "drop" \in DOMAIN Program /\ "drop" \notin Syncs
    BY OpsAre DEF Syncs
  <2> QED BY <1>1, <1>2, <2>1, SourceFiles, Starts
<1> QED BY <1>1, <1>2, <1>3

\* A request to edit a source opens as such.
LEMMA EditOpens ==
  ASSUME TypeInv, NEW t \in Threads, EditKnowledgeBase(t)
  PROVE  /\ LocalsOK'
         /\ \E N : /\ Goes(t, N) /\ Done(N) = N /\ Start(t, N)
                   /\ Opens(N, "edit", kb.status, None, None, {}, NoRows, NoRun)
<1> DEFINE N == [Local("edit", None, None) EXCEPT !.result = kb.status]
<1>1. Start(t, N) /\ LocalsOK
  BY DEF EditKnowledgeBase, TypeInv
<1>2. Opens(N, "edit", kb.status, None, None, {}, NoRows, NoRun)
  <2>1. "edit" \in DOMAIN Program /\ kb.status \in Results /\ NoRows \in [Docs -> RowType]
    BY OpsAre, RowTypes DEF TypeInv, DataOK, KbType
  <2> QED BY <2>1, Opened
<1> HIDE DEF N
<1>3. LocalsOK' /\ Goes(t, N) /\ Done(N) = N
  <2>1. "edit" \in DOMAIN Program /\ "edit" \notin Syncs
    BY OpsAre DEF Syncs
  <2> QED BY <1>1, <1>2, <2>1, Starts
<1> QED BY <1>1, <1>2, <1>3

\* A request for a run opens as such.
LEMMA SubmitOpens ==
  ASSUME TypeInv, NEW t \in Threads, NEW op \in {"request_sync", "request_resync"},
         Start(t, Local(op, None, None))
  PROVE  /\ LocalsOK'
         /\ \E N : /\ Goes(t, N) /\ Done(N) = N /\ Start(t, N)
                   /\ Opens(N, op, "ready", None, None, {}, NoRows, NoRun)
<1> DEFINE N == Local(op, None, None)
<1>1. Start(t, N) /\ LocalsOK
  BY DEF TypeInv
<1>2. op \in DOMAIN Program /\ op \notin Syncs /\ op \notin {"edit", "create", "update", "delete"}
  BY OpsAre DEF Syncs
<1>3. Opens(N, op, "ready", None, None, {}, NoRows, NoRun)
  <2>1. NoRows \in [Docs -> RowType] /\ "ready" \in Results
    BY RowTypes DEF Results
  <2> QED BY <1>2, <2>1, Opened
<1> HIDE DEF N
<1>4. LocalsOK' /\ Goes(t, N) /\ Done(N) = N
  BY <1>1, <1>2, <1>3, Starts
<1> QED BY <1>1, <1>3, <1>4

\* A run that the worker claims opens as such.
LEMMA ClaimOpens ==
  ASSUME TypeInv, NEW w \in Threads, Claim(w)
  PROVE  /\ LocalsOK'
         /\ \E r \in Runs : \E N :
              /\ Oldest(r) /\ runs' = [runs EXCEPT ![r].status = "running"]
              /\ runs[r].op \in Syncs
              /\ Goes(w, N) /\ Done(N) = N /\ Start(w, N)
              /\ Opens(N, runs[r].op, "ready", None, None, {}, NoRows, r)
<1>1. PICK r \in Runs : /\ Oldest(r)
                        /\ runs' = [runs EXCEPT ![r].status = "running"]
                        /\ Start(w, [Local(runs[r].op, None, None) EXCEPT !.run = r])
  BY DEF Claim
<1> DEFINE N == [Local(runs[r].op, None, None) EXCEPT !.run = r]
           op == runs[r].op
<1>2. op \in Syncs /\ op \in DOMAIN Program /\ op \notin {"edit", "create", "update", "delete"}
  BY OpsAre DEF TypeInv, DataOK, RunType, Syncs
<1>3. r # NoRun /\ NoRows \in [Docs -> RowType] /\ "ready" \in Results
  BY RowTypes DEF Results
<1> HIDE DEF op
<1>4. Opens(N, op, "ready", None, None, {}, NoRows, r)
  <2>1. Opens([Local(op, None, None) EXCEPT !.run = r],
              op, "ready", None, None, {}, NoRows, r)
    BY <1>2, <1>3, Opened
  <2> QED BY <2>1 DEF op
<1>5. Start(w, N) /\ LocalsOK
  BY <1>1 DEF TypeInv
<1> HIDE DEF N
<1>6. LocalsOK' /\ Goes(w, N) /\ Done(N) = N
  BY <1>2, <1>3, <1>4, <1>5, Starts
<1> QED BY <1>1, <1>2, <1>4, <1>5, <1>6 DEF op

-----------------------------------------------------------------------------
(* Every step keeps the types.                                             *)

\* The room of a scenario.
LEMMA RoomTypes ==
  ASSUME TypeInv
  PROVE  /\ room \in Scenario /\ room.texts \subseteq Texts /\ room.runs \in 0..MaxRuns
         /\ room.workers \subseteq Workers /\ room.requests \in Nat /\ room.changes \in Nat
         /\ room.crashes \in Nat
BY DEF TypeInv, DataOK, Scenario

\* The documents that a thread may write.
LEMMA TouchedAre ==
  ASSUME NEW L
  PROVE  /\ L.op \in {"create", "update", "delete"} => Touched(L) = {L.doc}
         /\ L.op \in {"sync", "drop"} => Touched(L) = Files
         /\ L.op = "resync" => Touched(L) = Docs
         /\ L.op \notin {"create", "update", "delete", "sync", "drop", "resync"}
              => Touched(L) = {}
<1>1. L.op \in {"create", "update", "delete"} => Touched(L) = {L.doc}
  BY DEF Touched
<1>2. L.op \in {"sync", "drop"} => Touched(L) = Files
  BY DEF Touched
<1>3. L.op = "resync" => Touched(L) = Docs
  BY DEF Touched
<1>4. L.op \notin {"create", "update", "delete", "sync", "drop", "resync"} => Touched(L) = {}
  BY DEF Touched
<1> QED BY <1>1, <1>2, <1>3, <1>4

\* They are documents.
LEMMA TouchedDocs ==
  ASSUME NEW L, FieldsOK(L)
  PROVE  Touched(L) \subseteq Docs
BY TouchedAre, RowTypes, SourceFiles DEF FieldsOK

\* What the history records when an operation starts.
LEMMA HistoryTypes ==
  ASSUME TypeInv, LocalsOK', NEW t \in Threads, NEW N, Start(t, N), Goes(t, N), Done(N) = N
  PROVE  alone' \subseteq Threads /\ mixed' \subseteq Docs
<1>1. Touched(N) \subseteq Docs
  BY TouchedDocs DEF LocalsOK, LocalOK, Goes
<1>2. \E S : mixed' = mixed \cup (Touched(N) \cap S)
  BY DEF Start
<1>3. alone' = {t} \/ alone' = {}
  BY DEF Start
<1> QED BY <1>1, <1>2, <1>3 DEF TypeInv, DataOK

\* A run that is submitted is well formed.
LEMMA SubmitTypes ==
  ASSUME TypeInv, NEW op \in Syncs, Submit(op)
  PROVE  runs' \in [Runs -> RunType]
<1>1. PICK r \in 1..room.runs : runs' = [runs EXCEPT ![r] = [op |-> op, status |-> "queued"]]
  BY DEF Submit
<1>2. [op |-> op, status |-> "queued"] \in RunType
  BY DEF RunType
<1> QED BY <1>1, <1>2 DEF TypeInv, DataOK

\* A request keeps the types.
LEMMA RequestKeepsTypes ==
  ASSUME TypeInv, NEW t \in Handlers, Request(t)
  PROVE  TypeInv'
<1>1. t \in Threads /\ room' \in Scenario
  <2>1. room.requests - 1 \in Nat
    BY RoomTypes DEF Request
  <2> QED BY <2>1 DEF Request, TypeInv, DataOK, Scenario, Threads
<1>2. \A x \in room.texts : x \in Texts
  BY RoomTypes
<1>3. CASE \E d \in ManualDocs, x \in room.texts : Create(t, d, x)
  <2>1. PICK d \in ManualDocs, x \in Texts : Create(t, d, x)
    BY <1>2, <1>3
  <2>2. LocalsOK' /\ alone' \subseteq Threads /\ mixed' \subseteq Docs
    BY <1>1, <2>1, CreateOpens, HistoryTypes
  <2>3. UNCHANGED <<kb, rows, index, source, files, runs>> /\ minted' = minted \cup {d}
    BY <2>1 DEF Create
  <2> QED BY <1>1, <2>2, <2>3 DEF TypeInv, DataOK
<1>4. CASE \E d \in ManualDocs, x \in room.texts : Update(t, d, x)
  <2>1. PICK d \in ManualDocs, x \in Texts : Update(t, d, x)
    BY <1>2, <1>4
  <2>2. LocalsOK' /\ alone' \subseteq Threads /\ mixed' \subseteq Docs
    BY <1>1, <2>1, UpdateOpens, HistoryTypes
  <2>3. UNCHANGED <<kb, index, source, files, database>>
    BY <2>1 DEF Update
  <2> QED BY <1>1, <2>2, <2>3 DEF TypeInv, DataOK, database
<1>5. CASE \E d \in ManualDocs : Delete(t, d)
  <2>1. PICK d \in ManualDocs : Delete(t, d)
    BY <1>5
  <2>2. LocalsOK' /\ alone' \subseteq Threads /\ mixed' \subseteq Docs
    BY <1>1, <2>1, DeleteOpens, HistoryTypes
  <2>3. UNCHANGED <<kb, index, source, files, database>>
    BY <2>1 DEF Delete
  <2> QED BY <1>1, <2>2, <2>3 DEF TypeInv, DataOK, database
<1>6. CASE DropSource(t)
  <2>1. LocalsOK' /\ alone' \subseteq Threads /\ mixed' \subseteq Docs
    BY <1>1, <1>6, DropOpens, HistoryTypes
  <2>2. UNCHANGED <<kb, index, source, files, database>>
    BY <1>6 DEF DropSource
  <2> QED BY <1>1, <2>1, <2>2 DEF TypeInv, DataOK, database
<1>7. CASE EditKnowledgeBase(t)
  <2>1. LocalsOK' /\ alone' \subseteq Threads /\ mixed' \subseteq Docs
    BY <1>1, <1>7, EditOpens, HistoryTypes
  <2>2. UNCHANGED <<kb, index, source, files, database>>
    BY <1>7 DEF EditKnowledgeBase
  <2> QED BY <1>1, <2>1, <2>2 DEF TypeInv, DataOK, database
<1>8. CASE RequestSync(t)
  <2>1. LocalsOK' /\ alone' \subseteq Threads /\ mixed' \subseteq Docs
    BY <1>1, <1>8, SubmitOpens, HistoryTypes DEF RequestSync
  <2>2. runs' \in [Runs -> RunType]
    BY <1>8, SubmitTypes DEF RequestSync, Syncs
  <2>3. UNCHANGED <<kb, index, source, files, rows, minted>>
    BY <1>8 DEF RequestSync
  <2> QED BY <1>1, <2>1, <2>2, <2>3 DEF TypeInv, DataOK
<1>9. CASE RequestResync(t)
  <2>1. LocalsOK' /\ alone' \subseteq Threads /\ mixed' \subseteq Docs
    BY <1>1, <1>9, SubmitOpens, HistoryTypes DEF RequestResync
  <2>2. runs' \in [Runs -> RunType]
    BY <1>9, SubmitTypes DEF RequestResync, Syncs
  <2>3. UNCHANGED <<kb, index, source, files, rows, minted>>
    BY <1>9 DEF RequestResync
  <2> QED BY <1>1, <2>1, <2>2, <2>3 DEF TypeInv, DataOK
<1> QED BY <1>3, <1>4, <1>5, <1>6, <1>7, <1>8, <1>9 DEF Request

\* A claim keeps the types.
LEMMA ClaimKeepsTypes ==
  ASSUME TypeInv, NEW w \in Workers, Claim(w)
  PROVE  TypeInv'
<1>1. w \in Threads
  BY DEF Threads
<1>2. LocalsOK' /\ alone' \subseteq Threads /\ mixed' \subseteq Docs
  BY <1>1, ClaimOpens, HistoryTypes
<1>3. runs' \in [Runs -> RunType]
  <2>1. PICK r \in Runs : runs' = [runs EXCEPT ![r].status = "running"]
    BY DEF Claim
  <2>2. [runs[r] EXCEPT !.status = "running"] \in RunType
    BY DEF TypeInv, DataOK, RunType
  <2> QED BY <2>1, <2>2 DEF TypeInv, DataOK
<1>4. UNCHANGED <<kb, index, source, files, rows, minted, room>>
  BY DEF Claim
<1> QED BY <1>2, <1>3, <1>4 DEF TypeInv, DataOK

\* A call that may raise keeps the types when it does.
LEMMA FailsAt ==
  ASSUME LocalsOK, NEW t \in Threads, NEW call, At(t, call), call \notin {"mark", "mark_source"},
         Fail(t)
  PROVE  /\ LocalsOK' /\ Goes(t, Failed(thread[t])) /\ Done(Failed(thread[t])) = Failed(thread[t])
         /\ thread[t].op \notin {"request_sync", "request_resync"}
<1>1. Working(t, thread[t]) /\ Head(thread[t].plan) = call /\ ~Idle(t)
  BY Works
<1>2. Makes(thread[t].op, call)
  BY <1>1 DEF Working
<1>3. thread[t].op \notin {"request_sync", "request_resync"}
  BY <1>2 DEF Makes, Syncs
<1>4. LocalsOK' /\ thread'[t] = Failed(thread[t])
      /\ \A u \in Threads \ {t} : thread'[u] = thread[u]
  BY <1>1, <1>3, Fails
<1>5. Done(Failed(thread[t])) = Failed(thread[t])
  BY <1>1, <1>3, FailedFields DEF Working
<1> QED BY <1>3, <1>4, <1>5 DEF Goes

\* A call that ends keeps the types.
LEMMA ProceedsAt ==
  ASSUME LocalsOK, NEW t \in Threads, NEW call, At(t, call), Proceed(t)
  PROVE  /\ LocalsOK' /\ Goes(t, After(thread[t]))
<1>1. ~Idle(t)
  BY DEF At
<1> QED BY <1>1, Proceeds DEF Goes

\* What a call finds in its locals.
LEMMA ArgsAt ==
  ASSUME LocalsOK, NEW t \in Threads, NEW L, L = thread[t], NEW call, At(t, call)
  PROVE  /\ call \in {"unindex", "remove", "insert", "update", "upsert", "recount"} => L.doc \in Docs
         /\ call \in {"insert", "update", "upsert", "recount"} => L.text \in Texts
         /\ call = "unindex" => L.n <= L.snap[L.doc].chunks /\ L.snap[L.doc] \in RowType
         /\ call = "upsert" => L.n <= ChunksOf[L.text]
         /\ call = "count" => L.n \in 0..Cardinality(Docs)
         /\ L.op \in Syncs <=> L.run \in Runs
         /\ L.op \in Syncs => L.result \in {"ready", "error"}
<1>1. Working(t, L) /\ Head(L.plan) = call
  BY Works
<1>2. Args(L) /\ \A calls : call \in calls => Is(L, calls)
  BY <1>1 DEF Working, Is
<1>3. call \in {"unindex", "remove", "insert", "update", "upsert", "recount"} => L.doc \in Docs
  BY <1>2 DEF Args
<1>4. call \in {"insert", "update", "upsert", "recount"} => L.text \in Texts
  BY <1>2 DEF Args
<1>5. call = "unindex" => L.n <= L.snap[L.doc].chunks
  BY <1>2 DEF Args
<1>6. call = "upsert" => L.n <= ChunksOf[L.text]
  BY <1>2 DEF Args
<1>7. call = "count" => L.n <= Cardinality(Docs)
  BY <1>2 DEF Args
<1>8. L.snap \in [Docs -> RowType] /\ L.n \in Nat /\ Cardinality(Docs) \in Nat
  BY <1>1, DocsFinite DEF Working
<1>9. (L.op \in Syncs <=> L.run # NoRun) /\ (L.op # "edit" => L.result # "syncing")
  BY <1>1 DEF Working, FieldsOK
<1>10. L.run \in Runs \cup {NoRun} /\ L.result \in Results
  BY <1>1 DEF Working
<1> QED BY <1>3, <1>4, <1>5, <1>6, <1>7, <1>8, <1>9, <1>10, RowTypes DEF Results, Syncs

\* Calls that write statuses and counts.
LEMMA ReportKeepsTypes ==
  ASSUME TypeInv, NEW t \in Threads,
         \/ Mark(t) \/ Result(t) \/ Count(t) \/ MarkSource(t) \/ SourceResult(t) \/ FinishRun(t)
  PROVE  TypeInv'
<1> DEFINE L == thread[t]
<1>0. LocalsOK
  BY DEF TypeInv
<1>1. ASSUME NEW call, At(t, call), Proceed(t) PROVE LocalsOK'
  BY <1>0, <1>1, ProceedsAt
<1>2. CASE Mark(t)
  <2>1. LocalsOK'
    BY <1>1, <1>2 DEF Mark
  <2>2. kb' \in KbType
    BY <1>2 DEF Mark, TypeInv, DataOK, KbType, Results
  <2> QED BY <1>2, <2>1, <2>2 DEF Mark, TypeInv, DataOK, database, history
<1>3. CASE Result(t)
  <2>1. LocalsOK'
    BY <1>1, <1>3 DEF Result
  <2>2. L.result \in Results
    BY <1>0, <1>3, Works DEF Result, Working
  <2>3. kb' \in KbType
    BY <1>3, <2>2 DEF Result, TypeInv, DataOK, KbType
  <2> QED BY <1>3, <2>1, <2>3 DEF Result, TypeInv, DataOK, database, history
<1>4. CASE Count(t)
  <2>1. LocalsOK'
    BY <1>1, <1>4 DEF Count
  <2>2. L.n \in 0..Cardinality(Docs)
    BY <1>0, <1>4, ArgsAt DEF Count
  <2>3. kb' \in KbType
    BY <1>4, <2>2 DEF Count, TypeInv, DataOK, KbType
  <2> QED BY <1>4, <2>1, <2>3 DEF Count, TypeInv, DataOK, database, history
<1>5. CASE MarkSource(t)
  <2>1. LocalsOK'
    BY <1>1, <1>5 DEF MarkSource
  <2>2. source' \in SourceType
    BY <1>5 DEF MarkSource, TypeInv, DataOK, SourceType, Results
  <2> QED BY <1>5, <2>1, <2>2 DEF MarkSource, TypeInv, DataOK, database, history
<1>6. CASE SourceResult(t)
  <2>1. LocalsOK'
    BY <1>1, <1>6 DEF SourceResult
  <2>2. L.result \in Results
    BY <1>0, <1>6, Works DEF SourceResult, Working
  <2>3. source' \in SourceType
    BY <1>6, <2>2 DEF SourceResult, TypeInv, DataOK, SourceType
  <2> QED BY <1>6, <2>1, <2>3 DEF SourceResult, TypeInv, DataOK, database, history
<1>7. CASE FinishRun(t)
  <2>1. LocalsOK'
    BY <1>1, <1>7 DEF FinishRun
  <2>2. L.run \in Runs /\ L.result \in {"ready", "error"}
    <3>1. Working(t, L) /\ Head(L.plan) = "finish"
      BY <1>0, <1>7, Works DEF FinishRun
    <3>2. L.op \in Syncs
      BY <3>1 DEF Working, Makes
    <3> QED BY <1>0, <1>7, <3>2, ArgsAt DEF FinishRun
  <2>3. runs' \in [Runs -> RunType]
    <3>1. [runs[L.run] EXCEPT !.status = L.result] \in RunType
      BY <2>2 DEF TypeInv, DataOK, RunType
    <3>2. runs' = runs \/ runs' = [runs EXCEPT ![L.run] = [runs[L.run] EXCEPT !.status = L.result]]
      BY <1>7, <2>2 DEF FinishRun, TypeInv, DataOK
    <3> QED BY <3>1, <3>2 DEF TypeInv, DataOK
  <2> QED BY <1>7, <2>1, <2>3 DEF FinishRun, TypeInv, DataOK, history
<1> QED BY <1>2, <1>3, <1>4, <1>5, <1>6, <1>7

\* Calls that write rows.
LEMMA RowCallsKeepTypes ==
  ASSUME TypeInv, NEW t \in Threads,
         Insert(t) \/ UpdateRow(t) \/ Remove(t) \/ Recount(t) \/ DeleteSourceRow(t)
  PROVE  TypeInv'
<1> DEFINE L == thread[t]
<1>0. LocalsOK
  BY DEF TypeInv
<1>1. ASSUME NEW call, At(t, call), call \notin {"mark", "mark_source"}, Proceed(t) \/ Fail(t)
      PROVE  LocalsOK'
  BY <1>0, <1>1, ProceedsAt, FailsAt
<1>2. \A d \in Docs, R \in RowType : [rows EXCEPT ![d] = R] \in [Docs -> RowType]
  BY DEF TypeInv, DataOK
<1>3. CASE Insert(t)
  <2>1. LocalsOK'
    BY <1>1, <1>3 DEF Insert
  <2>2. L.doc \in Docs /\ L.text \in Texts /\ (L.doc \in Files) \in BOOLEAN
    BY <1>0, <1>3, ArgsAt DEF Insert
  <2>3. rows' \in [Docs -> RowType]
    <3>1. Row(L.text, L.doc \in Files) \in RowType
      BY <2>2, RowTypes
    <3>2. rows' = rows \/ rows' = [rows EXCEPT ![L.doc] = Row(L.text, L.doc \in Files)]
      BY <1>3 DEF Insert
    <3> QED BY <1>2, <2>2, <3>1, <3>2 DEF TypeInv, DataOK
  <2> QED BY <1>3, <2>1, <2>3 DEF Insert, TypeInv, DataOK, history
<1>4. CASE UpdateRow(t)
  <2>1. LocalsOK'
    BY <1>1, <1>4 DEF UpdateRow
  <2>2. L.doc \in Docs /\ L.text \in Texts /\ (L.doc \in Files) \in BOOLEAN
    BY <1>0, <1>4, ArgsAt DEF UpdateRow
  <2>3. rows' \in [Docs -> RowType]
    <3>1. Row(L.text, L.doc \in Files) \in RowType
      BY <2>2, RowTypes
    <3>2. rows' = rows \/ rows' = [rows EXCEPT ![L.doc] = Row(L.text, L.doc \in Files)]
      BY <1>4 DEF UpdateRow
    <3> QED BY <1>2, <2>2, <3>1, <3>2 DEF TypeInv, DataOK
  <2> QED BY <1>4, <2>1, <2>3 DEF UpdateRow, TypeInv, DataOK, history
<1>5. CASE Remove(t)
  <2>1. LocalsOK'
    BY <1>1, <1>5 DEF Remove
  <2>2. L.doc \in Docs
    BY <1>0, <1>5, ArgsAt DEF Remove
  <2>3. rows' \in [Docs -> RowType]
    BY <1>2, <1>5, <2>2, RowTypes DEF Remove
  <2> QED BY <1>5, <2>1, <2>3 DEF Remove, TypeInv, DataOK, history
<1>6. CASE Recount(t)
  <2>1. LocalsOK'
    BY <1>1, <1>6 DEF Recount
  <2>2. L.doc \in Docs /\ L.text \in Texts
    BY <1>0, <1>6, ArgsAt DEF Recount
  <2>3. rows' \in [Docs -> RowType]
    <3>1. [rows[L.doc] EXCEPT !.chunks = ChunksOf[L.text]] \in RowType
      <4>1. ChunksOf[L.text] \in 0..MaxChunks
        BY <2>2, RowTypes
      <4>2. rows[L.doc] \in RowType
        BY <2>2 DEF TypeInv, DataOK
      <4> QED BY <4>1, <4>2 DEF RowType
    <3>2. rows' = rows \/ rows' = [rows EXCEPT ![L.doc] =
                                     [rows[L.doc] EXCEPT !.chunks = ChunksOf[L.text]]]
      BY <1>6, <2>2 DEF Recount, TypeInv, DataOK
    <3> QED BY <1>2, <2>2, <3>1, <3>2 DEF TypeInv, DataOK
  <2> QED BY <1>6, <2>1, <2>3 DEF Recount, TypeInv, DataOK, history
<1>7. CASE DeleteSourceRow(t)
  <2>1. LocalsOK'
    BY <1>1, <1>7 DEF DeleteSourceRow
  <2>2. rows' \in [Docs -> RowType]
    <3>1. \A d \in Docs : [rows[d] EXCEPT !.linked = FALSE] \in RowType
      BY DEF TypeInv, DataOK, RowType
    <3>2. rows' = rows \/ rows' = [d \in Docs |-> [rows[d] EXCEPT !.linked = FALSE]]
      BY <1>7 DEF DeleteSourceRow
    <3> QED BY <3>1, <3>2 DEF TypeInv, DataOK
  <2>3. runs' \in [Runs -> RunType]
    <3>1. \A r \in Runs : [runs[r] EXCEPT !.status = "deleted"] \in RunType
      BY DEF TypeInv, DataOK, RunType
    <3>2. runs' = runs \/ runs' = [r \in Runs |->
                                     IF runs[r].op = "sync" /\ runs[r].status # "new"
                                     THEN [runs[r] EXCEPT !.status = "deleted"] ELSE runs[r]]
      BY <1>7 DEF DeleteSourceRow
    <3> QED BY <3>1, <3>2 DEF TypeInv, DataOK
  <2>4. source' \in SourceType
    BY <1>7 DEF DeleteSourceRow, TypeInv, DataOK, SourceType
  <2> QED BY <1>7, <2>1, <2>2, <2>3, <2>4 DEF DeleteSourceRow, TypeInv, DataOK, history
<1> QED BY <1>3, <1>4, <1>5, <1>6, <1>7

\* Calls to the index.
LEMMA IndexCallsKeepTypes ==
  ASSUME TypeInv, NEW t \in Threads, Chunk(t) \/ Unindex(t) \/ Upsert(t) \/ Wipe(t)
  PROVE  TypeInv'
<1> DEFINE L == thread[t]
<1>0. LocalsOK /\ index \in [Docs -> [Ordinals -> Texts \cup {None}]]
  BY DEF TypeInv, DataOK
<1>1. ASSUME NEW call, At(t, call), call \notin {"mark", "mark_source"},
             Proceed(t) \/ Fail(t) \/ Escape(t)
      PROVE  LocalsOK'
  BY <1>0, <1>1, ProceedsAt, FailsAt, Escapes
<1>2. ASSUME NEW d \in Docs, NEW n, NEW x \in Texts \cup {None}
      PROVE  [index EXCEPT ![d][n] = x] \in [Docs -> [Ordinals -> Texts \cup {None}]]
  <2>1. [index[d] EXCEPT ![n] = x] \in [Ordinals -> Texts \cup {None}]
    BY <1>0
  <2>2. [index EXCEPT ![d][n] = x] = [index EXCEPT ![d] = [index[d] EXCEPT ![n] = x]]
    BY <1>0
  <2> QED BY <1>0, <2>1, <2>2
<1>3. CASE Chunk(t)
  <2>1. LocalsOK'
    BY <1>1, <1>3 DEF Chunk
  <2> QED BY <1>3, <2>1 DEF Chunk, TypeInv, DataOK, database, history
<1>4. CASE Unindex(t)
  <2>1. At(t, "unindex") /\ UNCHANGED <<kb, source, files, database, history>>
    BY <1>4 DEF Unindex
  <2>2. L.doc \in Docs
    BY <1>0, <2>1, ArgsAt
  <2>3. LocalsOK'
    BY <1>0, <1>1, <1>4, <2>1, UnindexTurns DEF Unindex
  <2>4. index' = index \/ index' = [index EXCEPT ![L.doc][L.n] = None]
    BY <1>4 DEF Unindex
  <2>5. index' \in [Docs -> [Ordinals -> Texts \cup {None}]]
    BY <1>0, <1>2, <2>2, <2>4
  <2> QED BY <2>1, <2>3, <2>5 DEF TypeInv, DataOK, database, history
<1>5. CASE Upsert(t)
  <2>1. At(t, "upsert") /\ UNCHANGED <<kb, source, files, database, history>>
    BY <1>5 DEF Upsert
  <2>2. L.doc \in Docs /\ L.text \in Texts
    BY <1>0, <2>1, ArgsAt
  <2>3. LocalsOK'
    BY <1>0, <1>1, <1>5, <2>1, UpsertTurns DEF Upsert
  <2>4. index' = index \/ index' = [index EXCEPT ![L.doc][L.n] = L.text]
    BY <1>5 DEF Upsert
  <2>5. index' \in [Docs -> [Ordinals -> Texts \cup {None}]]
    BY <1>0, <1>2, <2>2, <2>4
  <2> QED BY <2>1, <2>3, <2>5 DEF TypeInv, DataOK, database, history
<1>6. CASE Wipe(t)
  <2>1. LocalsOK'
    BY <1>1, <1>6 DEF Wipe
  <2>2. index' = index \/ index' = EmptyIndex
    BY <1>6 DEF Wipe
  <2>3. index' \in [Docs -> [Ordinals -> Texts \cup {None}]]
    BY <1>0, <2>2 DEF EmptyIndex
  <2> QED BY <1>6, <2>1, <2>3 DEF Wipe, TypeInv, DataOK, database, history
<1> QED BY <1>3, <1>4, <1>5, <1>6

\* The cases of the loops over documents.
LEMMA FileCases ==
  ASSUME TypeInv, NEW t \in Threads, EachFile(t)
  PROVE  /\ At(t, "each_file")
         /\ \/ /\ thread[t].todo = {}
               /\ Continue(t, [thread[t] EXCEPT !.doc = None, !.snap = NoRows])
            \/ Fail(t)
            \/ \E f \in thread[t].todo, x \in Texts, p \in FileSteps :
                 /\ f \in Files /\ x = files[f]
                 /\ p = IF f \notin Linked THEN <<"insert", "upsert">>
                        ELSE IF rows[f] = Row(x, TRUE) THEN << >>
                        ELSE <<"unindex", "update", "upsert">>
                 /\ CallFirst(t, AtFile(thread[t], f, x), p)
<1>1. At(t, "each_file") /\ LocalsOK
  BY DEF EachFile, TypeInv
<1>2. Working(t, thread[t]) /\ Head(thread[t].plan) = "each_file"
  BY <1>1, Works
<1>3. thread[t].todo \subseteq Files
  <2>1. Among("each_file", thread[t].plan)
    BY <1>2, TailPlan DEF Working
  <2> QED BY <1>2, <2>1 DEF Working, FieldsOK
<1>4. ASSUME NEW f \in thread[t].todo, IndexFile(t, f), ~Fail(t)
      PROVE  \E x \in Texts, p \in FileSteps :
                 /\ f \in Files /\ x = files[f]
                 /\ p = IF f \notin Linked THEN <<"insert", "upsert">>
                        ELSE IF rows[f] = Row(x, TRUE) THEN << >>
                        ELSE <<"unindex", "update", "upsert">>
                 /\ CallFirst(t, AtFile(thread[t], f, x), p)
  <2> DEFINE x == files[f]
             p == IF f \notin Linked THEN <<"insert", "upsert">>
                  ELSE IF rows[f] = Row(x, TRUE) THEN << >>
                  ELSE <<"unindex", "update", "upsert">>
             K == AtFile(thread[t], f, x)
  <2>1. f \in Files /\ x # None
    BY <1>3, <1>4 DEF IndexFile
  <2>2. x \in Texts /\ p \in FileSteps
    BY <2>1 DEF TypeInv, DataOK, FileSteps
  <2>3. CallFirst(t, K, p)
    <3> HIDE DEF K
    <3>1. IF f \notin Linked THEN CallFirst(t, K, <<"insert", "upsert">>)
          ELSE IF rows[f] = Row(x, TRUE) THEN CallFirst(t, K, <<>>)
          ELSE CallFirst(t, K, <<"unindex", "update", "upsert">>)
      BY <1>4, <2>1 DEF IndexFile, K, AtFile
    <3> QED BY <3>1
  <2> QED BY <2>1, <2>2, <2>3
<1> QED BY <1>1, <1>4 DEF EachFile

\* The ways a turn at a document to prune may go.
LEMMA PrunedCases ==
  ASSUME NEW t \in Threads, EachPruned(t)
  PROVE  /\ At(t, "each_pruned")
         /\ \/ /\ thread[t].todo = {}
               /\ Continue(t, [thread[t] EXCEPT !.doc = None, !.snap = NoRows])
            \/ \E d \in thread[t].todo :
                 CallFirst(t, [thread[t] EXCEPT !.todo = @ \ {d}, !.doc = d],
                           <<"unindex", "remove">>)
BY DEF EachPruned

\* The ways a turn at a document to index again may go.
LEMMA StoredCases ==
  ASSUME TypeInv, NEW t \in Threads, EachStored(t)
  PROVE  /\ At(t, "each_stored")
         /\ \/ /\ thread[t].todo = {}
               /\ Continue(t, [thread[t] EXCEPT !.doc = None, !.snap = NoRows])
            \/ Fail(t)
            \/ \E d \in thread[t].todo, x \in Texts, p \in {<<"upsert">>, <<"recount", "upsert">>} :
                 /\ d \in Docs /\ x = TextToIndex(thread[t].snap[d], d)
                 /\ p = IF thread[t].snap[d].chunks = ChunksOf[x] THEN <<"upsert">>
                        ELSE <<"recount", "upsert">>
                 /\ CallFirst(t, AtStored(thread[t], d, x), p)
<1>1. At(t, "each_stored") /\ LocalsOK
  BY DEF EachStored, TypeInv
<1>2. Working(t, thread[t])
  BY <1>1, Works
<1>3. ASSUME NEW d \in thread[t].todo, TextToIndex(thread[t].snap[d], d) # None
      PROVE  d \in Docs /\ TextToIndex(thread[t].snap[d], d) \in Texts
  <2>1. d \in Docs /\ thread[t].snap[d] \in RowType
    BY <1>2 DEF Working
  <2>2. thread[t].snap[d].text \in Texts \cup {None}
    BY <2>1 DEF RowType
  <2>3. d \in Files => files[d] \in Texts \cup {None}
    BY DEF TypeInv, DataOK
  <2> QED BY <1>3, <2>1, <2>2, <2>3 DEF TextToIndex
<1>4. CASE thread[t].todo # {} /\ ~Fail(t)
  <2>1. PICK d \in thread[t].todo :
          /\ TextToIndex(thread[t].snap[d], d) # None
          /\ CallFirst(t, [thread[t] EXCEPT !.todo = @ \ {d}, !.doc = d,
                                            !.text = TextToIndex(thread[t].snap[d], d)],
                       IF thread[t].snap[d].chunks = ChunksOf[TextToIndex(thread[t].snap[d], d)]
                       THEN <<"upsert">> ELSE <<"recount", "upsert">>)
    BY <1>4 DEF EachStored
  <2> DEFINE x == TextToIndex(thread[t].snap[d], d)
             p == IF thread[t].snap[d].chunks = ChunksOf[x]
                  THEN <<"upsert">> ELSE <<"recount", "upsert">>
             K == AtStored(thread[t], d, x)
  <2>2. d \in Docs /\ x \in Texts
    BY <1>3, <2>1
  <2>3. p \in {<<"upsert">>, <<"recount", "upsert">>}
    OBVIOUS
  <2>4. CallFirst(t, K, p)
    BY <2>1 DEF AtStored
  <2> QED BY <1>1, <2>2, <2>3, <2>4
<1> QED BY <1>1, <1>4 DEF EachStored

\* The turns of the loops keep the types.
LEMMA LoopsKeepTypes ==
  ASSUME TypeInv, NEW t \in Threads,
         \/ List(t) \/ Scan(t) \/ EachFile(t) \/ Prune(t) \/ EachPruned(t)
         \/ Reconcile(t) \/ Snapshot(t) \/ EachStored(t) \/ Resolve(t)
  PROVE  TypeInv'
<1>0. LocalsOK /\ rows \in [Docs -> RowType]
  BY DEF TypeInv, DataOK
<1>1. ASSUME NEW call, At(t, call), call \notin {"mark", "mark_source"},
             Proceed(t) \/ Fail(t) \/ Escape(t)
      PROVE  LocalsOK'
  BY <1>0, <1>1, ProceedsAt, FailsAt, Escapes
<1>2. UNCHANGED <<kb, index, source, files, database, history>>
  BY DEF List, Scan, EachFile, Prune, EachPruned, Reconcile, Snapshot, EachStored, Resolve
<1>3. CASE List(t)
  BY <1>0, <1>2, <1>3, ListTurns DEF TypeInv, DataOK, database, history
<1>4. CASE Scan(t)
  BY <1>0, <1>2, <1>4, ScanTurns DEF TypeInv, DataOK, database, history
<1>5. CASE EachFile(t)
  <2>1. LocalsOK'
    BY <1>0, <1>1, <1>5, FileCases, FileTurns, LoopEnds
  <2> QED BY <1>2, <2>1 DEF TypeInv, DataOK, database, history
<1>6. CASE Prune(t)
  BY <1>0, <1>2, <1>6, PruneTurns DEF TypeInv, DataOK, database, history
<1>7. CASE EachPruned(t)
  <2>1. LocalsOK'
    BY <1>0, <1>1, <1>7, PrunedCases, PrunedTurns, LoopEnds
  <2> QED BY <1>2, <2>1 DEF TypeInv, DataOK, database, history
<1>8. CASE Reconcile(t)
  <2>1. LocalsOK'
    BY <1>0, <1>1, <1>8, ReconcileTurns DEF Reconcile
  <2> QED BY <1>2, <2>1 DEF TypeInv, DataOK, database, history
<1>9. CASE Snapshot(t)
  BY <1>0, <1>2, <1>9, SnapshotTurns DEF TypeInv, DataOK, database, history
<1>10. CASE EachStored(t)
  <2>1. LocalsOK'
    <3>1. At(t, "each_stored")
      BY <1>10, StoredCases
    <3>2. CASE /\ thread[t].todo = {}
               /\ Continue(t, [thread[t] EXCEPT !.doc = None, !.snap = NoRows])
      BY <1>0, <3>1, <3>2, LoopEnds
    <3>3. CASE Fail(t)
      BY <1>1, <3>1, <3>3
    <3>4. CASE \E d \in thread[t].todo, x \in Texts, p \in {<<"upsert">>, <<"recount", "upsert">>} :
                 CallFirst(t, AtStored(thread[t], d, x), p)
      BY <1>0, <3>1, <3>4, RebuildTurns
    <3> QED BY <1>10, <3>2, <3>3, <3>4, StoredCases
  <2> QED BY <1>2, <2>1 DEF TypeInv, DataOK, database, history
<1>11. CASE Resolve(t)
  <2>1. LocalsOK'
    BY <1>0, <1>1, <1>11 DEF Resolve
  <2> QED BY <1>2, <2>1 DEF TypeInv, DataOK, database, history
<1> QED BY <1>3, <1>4, <1>5, <1>6, <1>7, <1>8, <1>9, <1>10, <1>11

\* The steps of the world and of the worker keep the types.
LEMMA OthersKeepTypes ==
  ASSUME TypeInv, UpdateSource \/ FileChanges \/ CrashAndRestart
  PROVE  TypeInv'
<1>1. CASE UpdateSource
  <2>1. room' \in Scenario /\ alone' = {}
    <3>1. room.changes - 1 \in Nat
      BY <1>1, RoomTypes DEF UpdateSource, Disturbed
    <3> QED BY <1>1, <3>1 DEF UpdateSource, Disturbed, TypeInv, DataOK, Scenario
  <2>2. source' \in SourceType
    BY <1>1 DEF UpdateSource, TypeInv, DataOK, SourceType
  <2>3. UNCHANGED <<kb, index, files, thread, rows, runs, minted, mixed>>
    BY <1>1 DEF UpdateSource, database
  <2> QED BY <2>1, <2>2, <2>3 DEF TypeInv, DataOK, LocalsOK
<1>2. CASE FileChanges
  <2>1. room' \in Scenario /\ alone' = {}
    <3>1. room.changes - 1 \in Nat
      BY <1>2, RoomTypes DEF FileChanges, Disturbed
    <3> QED BY <1>2, <3>1 DEF FileChanges, Disturbed, TypeInv, DataOK, Scenario
  <2>2. files' \in [Files -> Texts \cup {None}]
    <3>1. PICK f \in Files, x \in room.texts \cup {None} : files' = [files EXCEPT ![f] = x]
      BY <1>2 DEF FileChanges
    <3>2. x \in Texts \cup {None}
      BY RoomTypes
    <3> QED BY <3>1, <3>2 DEF TypeInv, DataOK
  <2>3. UNCHANGED <<kb, index, source, thread, rows, runs, minted, mixed>>
    BY <1>2 DEF FileChanges, database
  <2> QED BY <2>1, <2>2, <2>3 DEF TypeInv, DataOK, LocalsOK
<1>3. CASE CrashAndRestart
  <2>1. room' \in Scenario /\ alone' = {}
    <3>1. room.crashes - 1 \in Nat
      BY <1>3, RoomTypes DEF CrashAndRestart
    <3> QED BY <1>3, <3>1 DEF CrashAndRestart, TypeInv, DataOK, Scenario
  <2>2. LocalsOK'
    BY <1>3, IdlingOK DEF CrashAndRestart, LocalsOK
  <2>3. runs' \in [Runs -> RunType]
    <3>1. PICK stale \in 0..MaxRuns :
            runs' = [r \in Runs |-> IF runs[r].status = "running" /\ r <= stale
                                    THEN [runs[r] EXCEPT !.status = "error"] ELSE runs[r]]
      BY <1>3 DEF CrashAndRestart
    <3>2. \A r \in Runs : [runs[r] EXCEPT !.status = "error"] \in RunType
      BY DEF TypeInv, DataOK, RunType
    <3> QED BY <3>1, <3>2 DEF TypeInv, DataOK
  <2>4. UNCHANGED <<kb, rows, index, source, files, minted, mixed>>
    BY <1>3 DEF CrashAndRestart
  <2> QED BY <2>1, <2>2, <2>3, <2>4 DEF TypeInv, DataOK
<1> QED BY <1>1, <1>2, <1>3

\* The types, and what the calls left to make need, hold always.
LEMMA TypesHold == Spec => []TypeInv
<1>1. Init => TypeInv
  <2> SUFFICES ASSUME Init PROVE TypeInv
    OBVIOUS
  <2>1. room \in Scenario /\ room.texts \subseteq Texts
    BY KnowledgeAssumption DEF Init, Scenario
  <2>2. kb \in KbType /\ source \in SourceType
    BY DocsFinite DEF Init, KbType, SourceType, Results
  <2>3. rows \in [Docs -> RowType] /\ index \in [Docs -> [Ordinals -> Texts \cup {None}]]
    BY RowTypes DEF Init, EmptyIndex
  <2>4. files \in [Files -> Texts \cup {None}]
    BY <2>1 DEF Init
  <2>5. runs \in [Runs -> RunType]
    BY DEF Init, RunType, Syncs
  <2>6. LocalsOK
    BY IdlingOK DEF Init, LocalsOK
  <2> QED BY <2>1, <2>2, <2>3, <2>4, <2>5, <2>6 DEF Init, TypeInv, DataOK
<1>2. TypeInv /\ [Next]_vars => TypeInv'
  <2> SUFFICES ASSUME TypeInv, [Next]_vars PROVE TypeInv'
    OBVIOUS
  <2>1. CASE \E h \in Handlers : Request(h)
    BY <2>1, RequestKeepsTypes
  <2>2. CASE \E w \in room.workers : Claim(w)
    BY <2>2, ClaimKeepsTypes, RoomTypes
  <2>3. CASE \E t \in Threads : Work(t)
    BY <2>3, ReportKeepsTypes, RowCallsKeepTypes, IndexCallsKeepTypes, LoopsKeepTypes DEF Work
  <2>4. CASE UpdateSource \/ FileChanges \/ CrashAndRestart
    BY <2>4, OthersKeepTypes
  <2>5. CASE UNCHANGED vars
    BY <2>5 DEF vars, database, history, TypeInv, DataOK, LocalsOK
  <2> QED BY <2>1, <2>2, <2>3, <2>4, <2>5 DEF Next, Quiet
<1> QED BY <1>1, <1>2, PTL DEF Spec

\* Every variable keeps its type and every thread a plan that it can follow.
THEOREM TypeCorrect == Spec => []TypeOK
<1>1. TypeInv => TypeOK
  <2> SUFFICES ASSUME TypeInv PROVE TypeOK
    OBVIOUS
  <2>1. ASSUME NEW t \in Threads
        PROVE  /\ thread[t].op \in Ops
               /\ thread[t].plan \in Seq(Calls)
               /\ thread[t].result \in {"ready", "syncing", "error"}
               /\ thread[t].doc \in Docs \cup {None}
               /\ thread[t].text \in Texts \cup {None}
               /\ thread[t].n \in Nat
               /\ thread[t].todo \subseteq Docs /\ thread[t].seen \subseteq Files
               /\ thread[t].run \in Runs \cup {NoRun}
               /\ thread[t].op \in {"sync", "resync"} <=> thread[t].run # NoRun
    BY <2>1 DEF TypeInv, LocalsOK, LocalOK, LocalType, FieldsOK, Syncs, Results
  <2> QED BY <2>1 DEF TypeInv, DataOK, TypeOK, KbType, SourceType, RunType, RowType, Results,
      Syncs
<1> QED BY <1>1, TypesHold, PTL

-----------------------------------------------------------------------------
(* The sync runs as a queue of jobs.                                       *)

\* A thread that will still report run r.
Holds(L, r) == L.run = r /\ Among("finish", L.plan)

\* A thread that has ended holds no run.
LEMMA DoneHolds ==
  ASSUME NEW N, NEW r \in Runs
  PROVE  Holds(Done(N), r) <=> Holds(N, r)
<1>1. CASE N.plan = << >>
  <2>1. ~Among("finish", N.plan)
    BY <1>1, AmongNothing
  <2>2. ~Among("finish", Idling.plan)
    BY IdlingOK, AmongNothing
  <2> QED BY <1>1, <2>1, <2>2 DEF Done, Holds
<1>2. CASE N.plan # << >>
  BY <1>2 DEF Done
<1> QED BY <1>1, <1>2

\* What is known of a thread's run while it makes a call.
LEMMA RunAt ==
  ASSUME LocalsOK, NEW t \in Threads, NEW call, At(t, call)
  PROVE  /\ call \notin Reports \cup {"finish"} /\ thread[t].op \in Syncs
              => Among("finish", thread[t].plan)
         /\ call = "finish" => /\ thread[t].op \in Syncs /\ thread[t].run \in Runs
                               /\ Holds(thread[t], thread[t].run)
         /\ call \notin {"finish"} =>
              (Among("finish", Tail(thread[t].plan)) <=> Among("finish", thread[t].plan))
         /\ call = "finish" => ~Among("finish", Tail(thread[t].plan))
         /\ thread[t].op \notin Syncs => thread[t].run = NoRun
         /\ call \in {"chunk", "insert", "update", "drop_source"} => call # "finish"
<1> DEFINE L == thread[t]
<1>1. Working(t, L) /\ Head(L.plan) = call
  BY Works
<1>2. /\ \A c : Among(c, L.plan) <=> c = call \/ Among(c, Tail(L.plan))
      /\ call = "finish" => Reporting(Tail(L.plan))
      /\ L.op \in Syncs /\ call \notin Reports \cup {"finish"} => Among("finish", Tail(L.plan))
      /\ Makes(L.op, call)
  BY <1>1, TailPlan DEF Working
<1>3. \A s : Reporting(s) => ~Among("finish", s)
  BY DEF Reporting, Among, Reports
<1>4. call = "finish" => L.op \in Syncs
  BY <1>2 DEF Makes, Syncs
<1>5. L.op \in Syncs <=> L.run # NoRun
  BY <1>1 DEF Working, FieldsOK
<1>6. L.run \in Runs \cup {NoRun}
  BY <1>1 DEF Working
<1> QED BY <1>2, <1>3, <1>4, <1>5, <1>6 DEF Holds

\* A thread that goes on holds what it held.
LEMMA TurnHolds ==
  ASSUME LocalsOK, LocalsOK', NEW t \in Threads, NEW call, At(t, call), NEW N, Goes(t, N),
         N.op = thread[t].op, N.run = thread[t].run,
         call \notin Reports \cup {"finish"}, N.plan # << >>,
         Head(N.plan) \notin Reports \cup {"finish"}
  PROVE  \A r \in Runs : Holds(thread'[t], r) <=> Holds(thread[t], r)
<1>1. thread'[t] = N /\ LocalOK(N)
  BY DEF Goes, Done, LocalsOK
<1>2. N.op \in Syncs => Among("finish", N.plan)
  <2>1. PlanOK(N.op, N.plan)
    BY <1>1 DEF LocalOK
  <2> QED BY <2>1, TailPlan
<1>3. thread[t].op \in Syncs => Among("finish", thread[t].plan)
  BY RunAt
<1>4. thread[t].op \notin Syncs => thread[t].run = NoRun
  BY RunAt
<1> QED BY <1>1, <1>2, <1>3, <1>4, RowTypes DEF Holds

\* A thread that goes past its first call still holds its run.
LEMMA TailHolds ==
  ASSUME LocalsOK, NEW t \in Threads, NEW call, At(t, call), NEW N, Goes(t, N),
         N.run = thread[t].run, N.plan = Tail(thread[t].plan)
  PROVE  /\ call # "finish" => \A r \in Runs : Holds(thread'[t], r) <=> Holds(thread[t], r)
         /\ call = "finish" => \A r \in Runs : ~Holds(thread'[t], r)
<1>1. \A r \in Runs : Holds(thread'[t], r) <=> Holds(N, r)
  BY DoneHolds DEF Goes
<1> QED BY <1>1, RunAt DEF Holds

\* A thread whose call raises still holds its run.
LEMMA FailHolds ==
  ASSUME LocalsOK, NEW t \in Threads, NEW call, At(t, call), Fail(t),
         call \notin Reports \cup {"finish", "mark", "mark_source"}
  PROVE  \A r \in Runs : Holds(thread'[t], r) <=> Holds(thread[t], r)
<1> DEFINE L == thread[t]
<1>1. /\ LocalsOK' /\ Goes(t, Failed(L)) /\ Done(Failed(L)) = Failed(L)
      /\ L.op \notin {"request_sync", "request_resync"} /\ Working(t, L)
  BY FailsAt, Works
<1>2. Failed(L).run = L.run /\ Failed(L).plan = Rescue(L)
  BY <1>1, FailedFields DEF Working
<1>3. L.op \in Syncs => Among("finish", Rescue(L)) /\ Among("finish", L.plan)
  BY <1>1, RescuePlan, RunAt DEF Working
<1>4. L.op \notin Syncs => L.run = NoRun
  BY RunAt
<1> QED BY <1>1, <1>2, <1>3, <1>4, RowTypes DEF Holds, Goes

\* What a turn at a file puts in front reports nothing.
LEMMA FileHeads ==
  ASSUME LocalsOK, rows \in [Docs -> RowType], NEW t \in Threads, At(t, "each_file"),
         NEW f \in thread[t].todo, NEW x \in Texts, NEW p \in FileSteps,
         CallFirst(t, AtFile(thread[t], f, x), p)
  PROVE  \E N : /\ Goes(t, N) /\ N.op = thread[t].op /\ N.run = thread[t].run
                /\ N.plan # << >> /\ Head(N.plan) \notin Reports \cup {"finish"}
<1>1. \E N : FileGoes(t, thread[t], N, f, x, p)
  BY FileTurns
<1>2. PICK N : FileGoes(t, thread[t], N, f, x, p)
  BY <1>1
<1>3. p # << >> => p[1] \in {"insert", "unindex"}
  BY DEF FileSteps
<1>4. Head(N.plan) \in {"each_file", "insert", "unindex"}
  BY <1>2, <1>3 DEF FileGoes
<1>5. N.op = thread[t].op /\ N.run = thread[t].run
  BY <1>2 DEF Turns, FileGoes
<1> QED BY <1>2, <1>4, <1>5 DEF Reports, FileGoes

\* What a turn of a resync puts in front reports nothing.
LEMMA RebuildHeads ==
  ASSUME LocalsOK, NEW t \in Threads, At(t, "each_stored"),
         NEW d \in thread[t].todo, NEW x \in Texts,
         NEW p \in {<<"upsert">>, <<"recount", "upsert">>},
         CallFirst(t, AtStored(thread[t], d, x), p)
  PROVE  \E N : /\ Goes(t, N) /\ N.op = thread[t].op /\ N.run = thread[t].run
                /\ N.plan # << >> /\ Head(N.plan) \notin Reports \cup {"finish"}
<1>1. \E N : StoredGoes(t, thread[t], N, d, x, p)
  BY RebuildTurns
<1>2. PICK N : StoredGoes(t, thread[t], N, d, x, p)
  BY <1>1
<1>3. p[1] \in {"recount", "upsert"}
  OBVIOUS
<1>4. N.op = thread[t].op /\ N.run = thread[t].run
  BY <1>2 DEF Turns, StoredGoes
<1> QED BY <1>2, <1>3, <1>4 DEF Reports, StoredGoes

\* What a step of a thread does to the run it holds, and to the others.
LEMMA WorkHolds ==
  ASSUME TypeInv, NEW t \in Threads, Work(t)
  PROVE  /\ \A u \in Threads \ {t} : thread'[u] = thread[u]
         /\ thread'[t].run \in {NoRun, thread[t].run}
         /\ \/ \A r \in Runs : Holds(thread'[t], r) <=> Holds(thread[t], r)
            \/ /\ FinishRun(t) /\ Holds(thread[t], thread[t].run)
               /\ \A r \in Runs : ~Holds(thread'[t], r)
            \/ /\ Resolve(t) /\ Escape(t) /\ thread'[t] = Idling
               /\ \A r \in Runs : ~Holds(thread'[t], r)
<1> DEFINE L == thread[t]
           Same == \A r \in Runs : Holds(thread'[t], r) <=> Holds(thread[t], r)
           Others == \A u \in Threads \ {t} : thread'[u] = thread[u]
           Good == Others /\ thread'[t].run \in {NoRun, L.run} /\ Same
<1>0. LocalsOK /\ LocalsOK' /\ TypeInv' /\ rows \in [Docs -> RowType]
  BY ReportKeepsTypes, RowCallsKeepTypes, IndexCallsKeepTypes, LoopsKeepTypes
     DEF Work, TypeInv, DataOK
<1>1. ASSUME NEW N, Goes(t, N), N.run = L.run PROVE Others /\ thread'[t].run \in {NoRun, L.run}
  BY <1>1, IdlingOK DEF Goes, Done
<1>2. ASSUME NEW call, At(t, call), Proceed(t)
      PROVE  /\ Others /\ thread'[t].run \in {NoRun, L.run}
             /\ call # "finish" => Same
             /\ call = "finish" => \A r \in Runs : ~Holds(thread'[t], r)
  <2>1. Goes(t, After(L)) /\ Working(t, L)
    BY <1>0, <1>2, ProceedsAt, Works
  <2>2. After(L).run = L.run /\ After(L).plan = Tail(L.plan)
    BY <2>1, AfterFields DEF Working
  <2> HIDE DEF L
  <2>3. Others /\ thread'[t].run \in {NoRun, L.run}
    BY <1>1, <2>1, <2>2
  <2> QED BY <1>0, <1>2, <2>1, <2>2, <2>3, TailHolds DEF L
<1>3. ASSUME NEW call, At(t, call), Fail(t),
             call \notin Reports \cup {"finish", "mark", "mark_source"}
      PROVE  Good
  <2>1. Goes(t, Failed(L)) /\ Working(t, L) /\ L.op \notin {"request_sync", "request_resync"}
    BY <1>0, <1>3, FailsAt, Works
  <2>2. Failed(L).run = L.run
    BY <2>1, FailedFields DEF Working
  <2>3. Same
    BY <1>0, <1>3, FailHolds
  <2>4. Others /\ thread'[t].run \in {NoRun, L.run}
    BY <1>1, <2>1, <2>2
  <2> QED BY <2>3, <2>4
<1>4. ASSUME NEW call, At(t, call), Escape(t)
      PROVE  /\ Others /\ thread'[t].run \in {NoRun, L.run} /\ thread'[t] = Idling
             /\ \A r \in Runs : ~Holds(thread'[t], r)
             /\ L.op \notin Syncs => Same
  <2>1. thread'[t] = Idling /\ Others
    BY <1>0, <1>4, Escapes
  <2>2. \A r \in Runs : ~Holds(thread'[t], r)
    BY <2>1, IdlingOK, RowTypes DEF Holds
  <2>3. L.op \notin Syncs => \A r \in Runs : ~Holds(thread[t], r)
    BY <1>0, <1>4, RunAt, RowTypes DEF Holds
  <2> QED BY <2>1, <2>2, <2>3, IdlingOK
<1>5. ASSUME NEW call, At(t, call), call # "finish",
             \E N, n, doc, text, todo, seen, snap :
               Goes(t, N) /\ Turns(L, N, Tail(L.plan), n, doc, text, todo, seen, snap)
      PROVE  Good
  <2>1. PICK N : Goes(t, N) /\ N.run = L.run /\ N.plan = Tail(L.plan)
    BY <1>5 DEF Turns
  <2>2. Same
    BY <1>0, <1>5, <2>1, TailHolds
  <2> QED BY <1>1, <2>1, <2>2
<1>6. ASSUME NEW call, At(t, call), call \notin Reports \cup {"finish"},
             \E N, plan, n, doc, text, todo, seen, snap :
               /\ Goes(t, N) /\ Turns(L, N, plan, n, doc, text, todo, seen, snap)
               /\ N.plan # << >> /\ Head(N.plan) \notin Reports \cup {"finish"}
      PROVE  Good
  <2>1. PICK N : /\ Goes(t, N) /\ N.run = L.run /\ N.op = L.op
                 /\ N.plan # << >> /\ Head(N.plan) \notin Reports \cup {"finish"}
    BY <1>6 DEF Turns
  <2>2. Same
    BY <1>0, <1>6, <2>1, TurnHolds
  <2> QED BY <1>1, <2>1, <2>2
<1>7. CASE Mark(t) \/ Result(t) \/ Count(t) \/ MarkSource(t) \/ SourceResult(t) \/ Recount(t)
  <2>1. \E call : At(t, call) /\ call # "finish" /\ Proceed(t)
    BY <1>7 DEF Mark, Result, Count, MarkSource, SourceResult, Recount
  <2> QED BY <1>2, <2>1
<1>8. CASE Insert(t) \/ UpdateRow(t) \/ Remove(t) \/ DeleteSourceRow(t)
  <2>1. \E call : /\ At(t, call) /\ call \in {"insert", "update", "remove", "drop_source"}
                  /\ Proceed(t) \/ Fail(t)
    BY <1>8 DEF Insert, UpdateRow, Remove, DeleteSourceRow
  <2> QED BY <1>2, <1>3, <2>1 DEF Reports
<1>9. CASE FinishRun(t)
  <2>1. At(t, "finish") /\ Proceed(t)
    BY <1>9 DEF FinishRun
  <2>2. Holds(L, L.run)
    BY <1>0, <2>1, RunAt
  <2> QED BY <1>2, <1>9, <2>1, <2>2
<1>10. CASE Resolve(t)
  <2>1. At(t, "resolve") /\ (Proceed(t) \/ Escape(t))
    BY <1>10 DEF Resolve
  <2> QED BY <1>2, <1>4, <1>10, <2>1
<1>11. CASE Chunk(t)
  <2>1. At(t, "chunk") /\ (Proceed(t) \/ Escape(t))
    BY <1>11 DEF Chunk
  <2>2. L.op \notin Syncs
    <3>1. Makes(L.op, "chunk")
      BY <1>0, <2>1, Works DEF Working
    <3> QED BY <3>1 DEF Makes, Syncs
  <2> QED BY <1>2, <1>4, <2>1, <2>2
<1>12. CASE Wipe(t)
  <2>1. At(t, "wipe") /\ (Proceed(t) \/ Fail(t))
    BY <1>12 DEF Wipe
  <2> QED BY <1>2, <1>3, <2>1 DEF Reports
<1>13. CASE List(t)
  <2>1. At(t, "list")
    BY <1>13 DEF List
  <2>2. \E N, n, doc, text, todo, seen, snap :
          Goes(t, N) /\ Turns(L, N, Tail(L.plan), n, doc, text, todo, seen, snap)
    BY <1>0, <1>13, ListTurns
  <2> QED BY <1>5, <2>1, <2>2
<1>14. CASE Unindex(t)
  <2>1. At(t, "unindex")
    BY <1>14 DEF Unindex
  <2>2. CASE Proceed(t) \/ Fail(t)
    BY <1>2, <1>3, <2>1, <2>2 DEF Reports
  <2>3. CASE L.n # L.snap[L.doc].chunks /\ Become(t, [L EXCEPT !.n = @ + 1])
    <3>1. /\ \E N : /\ Goes(t, N)
                    /\ Turns(L, N, L.plan, L.n + 1, L.doc, L.text, L.todo, L.seen, L.snap)
          /\ Working(t, L) /\ Head(L.plan) = "unindex"
      BY <1>0, <2>1, <2>3, UnindexTurns, Works
    <3>2. PICK N : Goes(t, N) /\ Turns(L, N, L.plan, L.n + 1, L.doc, L.text, L.todo, L.seen, L.snap)
      BY <3>1
    <3>3. N.plan # << >> /\ Head(N.plan) \notin Reports \cup {"finish"}
      BY <3>1, <3>2 DEF Turns, Working, Reports
    <3>4. "unindex" \notin Reports \cup {"finish"}
      BY DEF Reports
    <3> QED BY <1>6, <2>1, <3>2, <3>3, <3>4
  <2> QED BY <1>14, <2>2, <2>3 DEF Unindex
<1>15. CASE Upsert(t)
  <2>1. At(t, "upsert") /\ "upsert" \notin Reports \cup {"finish"}
    BY <1>15 DEF Upsert, Reports
  <2>2. CASE Fail(t)
    BY <1>3, <2>1, <2>2 DEF Reports
  <2>3. CASE ~Fail(t)
    <3>1. /\ \E N : /\ Goes(t, N)
                    /\ \/ Turns(L, N, Tail(L.plan), 0, L.doc, None, L.todo, L.seen, L.snap)
                       \/ Turns(L, N, L.plan, L.n + 1, L.doc, L.text, L.todo, L.seen, L.snap)
          /\ Working(t, L) /\ Head(L.plan) = "upsert"
      BY <1>0, <1>15, <2>1, <2>3, UpsertTurns, Works DEF Upsert
    <3>2. PICK N : /\ Goes(t, N)
                   /\ \/ Turns(L, N, Tail(L.plan), 0, L.doc, None, L.todo, L.seen, L.snap)
                      \/ Turns(L, N, L.plan, L.n + 1, L.doc, L.text, L.todo, L.seen, L.snap)
      BY <3>1
    <3>3. CASE Turns(L, N, Tail(L.plan), 0, L.doc, None, L.todo, L.seen, L.snap)
      BY <1>5, <2>1, <3>2, <3>3
    <3>4. CASE Turns(L, N, L.plan, L.n + 1, L.doc, L.text, L.todo, L.seen, L.snap)
      <4>1. N.plan # << >> /\ Head(N.plan) \notin Reports \cup {"finish"}
        BY <3>1, <3>4 DEF Turns, Working, Reports
      <4> QED BY <1>6, <2>1, <3>2, <3>4, <4>1
    <3> QED BY <3>2, <3>3, <3>4
  <2> QED BY <2>2, <2>3
<1>16. CASE Scan(t)
  <2>1. At(t, "scan") /\ "scan" \notin Reports \cup {"finish"}
        /\ "each_file" \notin Reports \cup {"finish"}
    BY <1>16 DEF Scan, Reports
  <2>2. \E N : /\ Goes(t, N)
               /\ Turns(L, N, <<"each_file">> \o Tail(L.plan), L.n, L.doc, L.text,
                        Present, Present, L.snap)
               /\ N.plan # << >> /\ Head(N.plan) = "each_file"
    BY <1>0, <1>16, ScanTurns
  <2> QED BY <1>6, <2>1, <2>2
<1>17. CASE Prune(t)
  <2>1. At(t, "prune") /\ "prune" \notin Reports \cup {"finish"}
        /\ "each_pruned" \notin Reports \cup {"finish"}
    BY <1>17 DEF Prune, Reports
  <2>2. \E N : /\ Goes(t, N)
               /\ Turns(L, N, <<"each_pruned">> \o Tail(L.plan), L.n, L.doc, L.text,
                        Linked \ L.seen, {}, rows)
               /\ N.plan # << >> /\ Head(N.plan) = "each_pruned"
    BY <1>0, <1>17, PruneTurns
  <2> QED BY <1>6, <2>1, <2>2
<1>18. CASE Snapshot(t)
  <2>1. At(t, "snapshot")
    BY <1>18 DEF Snapshot
  <2>2. \E N : Goes(t, N) /\ Turns(L, N, Tail(L.plan), 0, L.doc, L.text, StoredDocs, L.seen, rows)
    BY <1>0, <1>18, SnapshotTurns
  <2> QED BY <1>5, <2>1, <2>2
<1>19. CASE Reconcile(t)
  <2>1. At(t, "reconcile") /\ "reconcile" \notin Reports \cup {"finish"}
        /\ "mark_source" \notin Reports \cup {"finish"}
    BY <1>19 DEF Reconcile, Reports
  <2>2. CASE Proceed(t) \/ Fail(t)
    BY <1>2, <1>3, <2>1, <2>2 DEF Reports
  <2>3. CASE Become(t, [L EXCEPT !.plan = SyncSource \o <<"source_result">> \o Tail(@)])
    <3>1. \E N : /\ Goes(t, N)
                 /\ Turns(L, N, SyncSource \o <<"source_result">> \o Tail(L.plan), L.n,
                          L.doc, L.text, L.todo, L.seen, L.snap)
                 /\ N.plan # << >> /\ Head(N.plan) = "mark_source"
      BY <1>0, <2>1, <2>3, ReconcileTurns
    <3> QED BY <1>6, <2>1, <3>1
  <2> QED BY <1>19, <2>2, <2>3 DEF Reconcile
<1>20. ASSUME NEW call \in {"each_file", "each_pruned", "each_stored"}, At(t, call),
              L.todo = {}, Continue(t, [L EXCEPT !.doc = None, !.snap = NoRows])
       PROVE  Good
  <2>1. \E N : Goes(t, N) /\ Turns(L, N, Tail(L.plan), 0, None, L.text, {}, L.seen, NoRows)
    BY <1>0, <1>20, LoopEnds
  <2> QED BY <1>5, <1>20, <2>1
<1>21. CASE EachFile(t)
  <2>1. At(t, "each_file") /\ "each_file" \notin Reports \cup {"finish"}
    BY <1>21 DEF EachFile, Reports
  <2>2. CASE Fail(t)
    BY <1>3, <2>1, <2>2 DEF Reports
  <2>3. CASE L.todo = {} /\ Continue(t, [L EXCEPT !.doc = None, !.snap = NoRows])
    BY <1>20, <2>1, <2>3
  <2>4. ASSUME NEW f \in L.todo, NEW x \in Texts, NEW p \in FileSteps,
               CallFirst(t, AtFile(L, f, x), p)
        PROVE  Good
    <3>1. PICK N : /\ Goes(t, N) /\ N.op = thread[t].op /\ N.run = thread[t].run
                   /\ N.plan # << >> /\ Head(N.plan) \notin Reports \cup {"finish"}
      BY <1>0, <2>1, <2>4, FileHeads
    <3> QED BY <1>0, <1>1, <2>1, <3>1, TurnHolds
  <2>5. CASE \E f \in L.todo, x \in Texts, p \in FileSteps :
               CallFirst(t, AtFile(L, f, x), p)
    BY <2>4, <2>5
  <2> QED BY <1>21, <2>2, <2>3, <2>5, FileCases
<1>22. CASE EachPruned(t)
  <2>1. At(t, "each_pruned") /\ "each_pruned" \notin Reports \cup {"finish"}
        /\ "unindex" \notin Reports \cup {"finish"}
    BY <1>22 DEF EachPruned, Reports
  <2>2. CASE L.todo = {} /\ Continue(t, [L EXCEPT !.doc = None, !.snap = NoRows])
    BY <1>20, <2>1, <2>2
  <2>3. ASSUME NEW d \in L.todo,
               CallFirst(t, [L EXCEPT !.todo = @ \ {d}, !.doc = d], <<"unindex", "remove">>)
        PROVE  Good
    <3>1. \E N : /\ Goes(t, N)
                 /\ Turns(L, N, <<"unindex", "remove">> \o L.plan, 0, d, L.text,
                          L.todo \ {d}, L.seen, L.snap)
                 /\ N.plan # << >> /\ Head(N.plan) = "unindex"
      BY <1>0, <2>1, <2>3, PrunedTurns
    <3> QED BY <1>6, <2>1, <3>1
  <2> QED BY <1>22, <2>2, <2>3, PrunedCases
<1>23. CASE EachStored(t)
  <2>1. At(t, "each_stored") /\ "each_stored" \notin Reports \cup {"finish"}
    BY <1>23 DEF EachStored, Reports
  <2>2. CASE Fail(t)
    BY <1>3, <2>1, <2>2 DEF Reports
  <2>3. CASE L.todo = {} /\ Continue(t, [L EXCEPT !.doc = None, !.snap = NoRows])
    BY <1>20, <2>1, <2>3
  <2>4. ASSUME NEW d \in L.todo, NEW x \in Texts, NEW p \in {<<"upsert">>, <<"recount", "upsert">>},
               CallFirst(t, AtStored(L, d, x), p)
        PROVE  Good
    <3>1. PICK N : /\ Goes(t, N) /\ N.op = thread[t].op /\ N.run = thread[t].run
                   /\ N.plan # << >> /\ Head(N.plan) \notin Reports \cup {"finish"}
      BY <1>0, <2>1, <2>4, RebuildHeads
    <3> QED BY <1>0, <1>1, <2>1, <3>1, TurnHolds
  <2>5. CASE \E d \in L.todo, x \in Texts, p \in {<<"upsert">>, <<"recount", "upsert">>} :
               CallFirst(t, AtStored(L, d, x), p)
    BY <2>4, <2>5
  <2> QED BY <1>23, <2>2, <2>3, <2>5, StoredCases
<1> QED BY <1>7, <1>8, <1>9, <1>10, <1>11, <1>12, <1>13, <1>14, <1>15, <1>16, <1>17, <1>18,
           <1>19, <1>21, <1>22, <1>23 DEF Work


\* A run that a thread will still report was claimed by this worker only, and
\* is not finished before the worker reports it.
RunsHeld ==
  \A t \in Threads, r \in Runs : Holds(thread[t], r) =>
    /\ t \in Workers /\ runs[r].status \in {"running", "deleted"}
    /\ \A u \in Threads : Holds(thread[u], r) => u = t

\* The holder of a run, as a function of the state.
HolderOf(rs, th, r) ==
  LET holders == {t \in Threads : Holds(th[t], r)}
  IN  IF rs[r].status = "running" /\ holders # {}
      THEN CHOOSE t \in holders : TRUE ELSE Nobody

\* Who holds a run, as its status and the threads decide.
LEMMA HoldersAre ==
  ASSUME NEW rs, NEW th, NEW r
  PROVE  /\ rs[r].status # "running" => HolderOf(rs, th, r) = Nobody
         /\ (\A t \in Threads : ~Holds(th[t], r)) => HolderOf(rs, th, r) = Nobody
         /\ \A t \in Threads :
              /\ rs[r].status = "running" /\ Holds(th[t], r)
              /\ \A u \in Threads : Holds(th[u], r) => u = t
              => HolderOf(rs, th, r) = t
         /\ \A t \in Threads :
              HolderOf(rs, th, r) = t => t = Nobody \/ Holds(th[t], r)
<1> DEFINE holders == {t \in Threads : Holds(th[t], r)}
<1>1. HolderOf(rs, th, r) = IF rs[r].status = "running" /\ holders # {}
                            THEN CHOOSE t \in holders : TRUE ELSE Nobody
  BY DEF HolderOf
<1>2. (\A t \in Threads : ~Holds(th[t], r)) => holders = {}
  OBVIOUS
<1>3. ASSUME NEW t \in Threads, Holds(th[t], r), \A u \in Threads : Holds(th[u], r) => u = t
      PROVE  holders # {} /\ (CHOOSE u \in holders : TRUE) = t
  <2>1. holders = {t}
    BY <1>3
  <2> QED BY <2>1
<1>4. holders # {} => (CHOOSE t \in holders : TRUE) \in holders
  OBVIOUS
<1>5. \A t \in holders : t \in Threads /\ Holds(th[t], r)
  OBVIOUS
<1> HIDE DEF holders
<1> QED BY <1>1, <1>2, <1>3, <1>4, <1>5

\* A step that leaves the claims alone leaves the holders alone.
LEMMA SameHolder ==
  ASSUME NEW rs, NEW th, NEW rs2, NEW th2, NEW r,
         rs2[r].status = "running" <=> rs[r].status = "running",
         \A t \in Threads : Holds(th2[t], r) <=> Holds(th[t], r)
  PROVE  HolderOf(rs2, th2, r) = HolderOf(rs, th, r)
<1> DEFINE S == {t \in Threads : Holds(th[t], r)}
           S2 == {t \in Threads : Holds(th2[t], r)}
<1>1. S2 = S
  OBVIOUS
<1>2. /\ HolderOf(rs, th, r) = IF rs[r].status = "running" /\ S # {}
                               THEN CHOOSE t \in S : TRUE ELSE Nobody
      /\ HolderOf(rs2, th2, r) = IF rs2[r].status = "running" /\ S2 # {}
                                 THEN CHOOSE t \in S2 : TRUE ELSE Nobody
  BY DEF HolderOf
<1> HIDE DEF S, S2
<1> QED BY <1>1, <1>2

\* The holder, as the mapping to the queue names it.
LEMMA RunsMapped ==
  /\ \A r : RunHolder(r) = HolderOf(runs, thread, r)
  /\ \A r : RunHolder(r)' = HolderOf(runs', thread', r)
<1>1. \A r : RunHolder(r) = HolderOf(runs, thread, r)
  BY DEF RunHolder, HolderOf, Holds
<1>2. \A r : RunHolder(r)' = HolderOf(runs', thread', r)
  BY DEF RunHolder, HolderOf, Holds
<1> QED BY <1>1, <1>2

\* An idle thread, or one with no run, holds nothing.
LEMMA HoldsNothing ==
  ASSUME NEW L, L.plan = << >> \/ L.run = NoRun
  PROVE  \A r \in Runs : ~Holds(L, r)
<1>1. L.plan = << >> => ~Among("finish", L.plan)
  BY AmongNothing
<1> QED BY <1>1, RowTypes DEF Holds

\* A step at which the queue stands still.
LEMMA QueueStutters ==
  ASSUME RunsHeld,
         \A r \in Runs : /\ runs'[r].status = runs[r].status
                         /\ \A t \in Threads : Holds(thread'[t], r) <=> Holds(thread[t], r)
  PROVE  RunsHeld' /\ UNCHANGED Queue!queue
<1>1. ASSUME NEW r \in Runs
      PROVE  RunHolder(r)' = RunHolder(r) /\ RunStatus(r)' = RunStatus(r)
  <2>1. HolderOf(runs', thread', r) = HolderOf(runs, thread, r)
    BY SameHolder
  <2>2. RunStatus(r)' = RunStatus(r)
    BY DEF RunStatus
  <2> QED BY <2>1, <2>2, RunsMapped
<1>2. [r \in Runs |-> RunStatus(r)]' = [r \in Runs |-> RunStatus(r)]
  BY <1>1
<1>3. [r \in Runs |-> RunHolder(r)]' = [r \in Runs |-> RunHolder(r)]
  BY <1>1
<1>4. RunsHeld'
  BY DEF RunsHeld
<1> QED BY <1>2, <1>3, <1>4 DEF Queue!queue

\* A request queues at most a run.
LEMMA RequestQueues ==
  ASSUME TypeInv, RunsHeld, NEW t \in Handlers, Request(t)
  PROVE  RunsHeld' /\ [Queue!QueueNext]_(Queue!queue)
<1>1. t \in Threads /\ LocalsOK
  BY DEF Threads, TypeInv
<1>2. \E N : Goes(t, N) /\ Done(N) = N /\ Start(t, N) /\ N.run = NoRun
  <2>1. \A x \in room.texts : x \in Texts
    BY RoomTypes
  <2>2. CASE \E d \in ManualDocs, x \in room.texts : Create(t, d, x)
    BY <1>1, <2>1, <2>2, CreateOpens DEF Opens
  <2>3. CASE \E d \in ManualDocs, x \in room.texts : Update(t, d, x)
    <3>1. PICK d \in ManualDocs, x \in Texts : Update(t, d, x)
      BY <2>1, <2>3
    <3>2. PICK N : /\ Goes(t, N) /\ Done(N) = N /\ Start(t, N)
                   /\ Opens(N, "update", "ready", d, x, {}, [NoRows EXCEPT ![d] = rows[d]], NoRun)
      BY <1>1, <3>1, UpdateOpens
    <3> QED BY <3>2 DEF Opens
  <2>4. CASE \E d \in ManualDocs : Delete(t, d)
    <3>1. PICK d \in ManualDocs : Delete(t, d)
      BY <2>4
    <3>2. PICK N : /\ Goes(t, N) /\ Done(N) = N /\ Start(t, N)
                   /\ Opens(N, "delete", "ready", d, None, {}, [NoRows EXCEPT ![d] = rows[d]], NoRun)
      BY <1>1, <3>1, DeleteOpens
    <3> QED BY <3>2 DEF Opens
  <2>5. CASE DropSource(t)
    BY <1>1, <2>5, DropOpens DEF Opens
  <2>6. CASE EditKnowledgeBase(t)
    BY <1>1, <2>6, EditOpens DEF Opens
  <2>7. CASE RequestSync(t) \/ RequestResync(t)
    BY <1>1, <2>7, SubmitOpens DEF Opens, RequestSync, RequestResync
  <2> QED BY <2>2, <2>3, <2>4, <2>5, <2>6, <2>7 DEF Request
<1>3. PICK N : Goes(t, N) /\ Done(N) = N /\ Start(t, N) /\ N.run = NoRun
  BY <1>2
<1>4. \A u \in Threads, r \in Runs : Holds(thread'[u], r) <=> Holds(thread[u], r)
  <2>1. \A r \in Runs : ~Holds(thread[t], r) /\ ~Holds(thread'[t], r)
    BY <1>3, HoldsNothing DEF Start, Idle, Goes
  <2> QED BY <1>3, <2>1 DEF Goes
<1>5. CASE UNCHANGED runs
  BY <1>4, <1>5, QueueStutters
<1>6. CASE \E op \in Syncs : Submit(op)
  <2>1. PICK op \in Syncs, r \in 1..room.runs :
          /\ runs[r].status = "new" /\ \A q \in 1..(r - 1) : runs[q].status # "new"
          /\ runs' = [runs EXCEPT ![r] = [op |-> op, status |-> "queued"]]
    BY <1>6 DEF Submit
  <2>2. r \in Runs /\ \A q \in 1..(r - 1) : q \in Runs
    BY RoomTypes, KnowledgeAssumption DEF Runs
  <2>3. runs \in [Runs -> RunType]
    BY DEF TypeInv, DataOK
  <2>4. runs'[r].status = "queued" /\ \A q \in Runs : q # r => runs'[q] = runs[q]
    BY <2>1, <2>2, <2>3
  <2>5. \A u \in Threads : ~Holds(thread[u], r)
    BY <2>1, <2>2 DEF RunsHeld
  <2>6. RunsHeld'
    BY <1>4, <2>4, <2>5 DEF RunsHeld
  <2>7. \A q \in Runs : RunHolder(q)' = RunHolder(q)
    <3>1. \A q \in Runs : runs'[q].status = "running" <=> runs[q].status = "running"
      BY <2>1, <2>2, <2>4
    <3>2. \A q \in Runs : HolderOf(runs', thread', q) = HolderOf(runs, thread, q)
      BY <1>4, <3>1, SameHolder
    <3> QED BY <3>2, RunsMapped
  <2>8. \A q \in Runs : RunStatus(q)' = IF q = r THEN "queued" ELSE RunStatus(q)
    BY <2>4 DEF RunStatus
  <2>9. RunStatus(r) = "new" /\ \A q \in 1..(r - 1) : q \in Runs /\ RunStatus(q) # "new"
    BY <2>1, <2>2 DEF RunStatus
  <2>10. Queue!Submit(r)
    BY <2>2, <2>7, <2>8, <2>9 DEF Queue!Submit
  <2> QED BY <2>2, <2>6, <2>10 DEF Queue!QueueNext, Queue!Jobs, Runs
<1> QED BY <1>5, <1>6 DEF Request, Create, Update, Delete, DropSource, EditKnowledgeBase,
        RequestSync, RequestResync, Syncs, database

\* A worker that claims a run holds it.
LEMMA ClaimQueues ==
  ASSUME TypeInv, RunsHeld, NEW w \in Workers, Claim(w)
  PROVE  RunsHeld' /\ [Queue!QueueNext]_(Queue!queue)
<1>1. w \in Threads /\ w # Nobody
  BY KnowledgeAssumption DEF Threads
<1>0. PICK r \in Runs : \E N :
        /\ Oldest(r) /\ runs' = [runs EXCEPT ![r].status = "running"] /\ runs[r].op \in Syncs
        /\ Goes(w, N) /\ Done(N) = N /\ Start(w, N)
        /\ Opens(N, runs[r].op, "ready", None, None, {}, NoRows, r)
  BY <1>1, ClaimOpens
<1>2. PICK N :
        /\ Oldest(r) /\ runs' = [runs EXCEPT ![r].status = "running"] /\ runs[r].op \in Syncs
        /\ Goes(w, N) /\ Done(N) = N /\ Start(w, N)
        /\ Opens(N, runs[r].op, "ready", None, None, {}, NoRows, r)
  BY <1>0
<1>3. \A q \in Runs : ~Holds(thread[w], q)
  BY <1>2, HoldsNothing DEF Start, Idle
<1>4. runs \in [Runs -> RunType]
  BY DEF TypeInv, DataOK
<1>5. runs'[r].status = "running" /\ \A q \in Runs : q # r => runs'[q] = runs[q]
  BY <1>2, <1>4 DEF RunType
<1>6. \A u \in Threads : ~Holds(thread[u], r)
  BY <1>2 DEF RunsHeld, Oldest
<1>7. Holds(thread'[w], r) /\ \A q \in Runs : q # r => ~Holds(thread'[w], q)
  <2>1. thread'[w].run = r /\ thread'[w].plan = Program[runs[r].op]
    BY <1>2 DEF Goes, Opens
  <2>2. Among("finish", Program[runs[r].op])
    <3>1. PlanOK(runs[r].op, Program[runs[r].op])
          /\ Head(Program[runs[r].op]) \in {"result", "resolve", "mark"}
          /\ Program[runs[r].op] # << >>
      BY <1>2, OpsAre, Programs
    <3>2. Among("finish", Program["sync"]) /\ Among("finish", Program["resync"])
      <4>1. Program["sync"][8] = "finish" /\ 8 \in 1..Len(Program["sync"])
        BY DEF Program, SyncSource
      <4>2. Program["resync"][9] = "finish" /\ 9 \in 1..Len(Program["resync"])
        BY DEF Program, ResyncPlan
      <4> QED BY <4>1, <4>2 DEF Among
    <3> QED BY <1>2, <3>2 DEF Syncs
  <2> QED BY <2>1, <2>2 DEF Holds
<1>8. \A u \in Threads : u # w => thread'[u] = thread[u]
  BY <1>2 DEF Goes
<1>9. RunsHeld'
  <2> SUFFICES ASSUME NEW u \in Threads, NEW q \in Runs, Holds(thread'[u], q)
               PROVE  /\ u \in Workers /\ runs'[q].status \in {"running", "deleted"}
                      /\ \A v \in Threads : Holds(thread'[v], q) => v = u
    BY DEF RunsHeld
  <2>1. CASE q = r
    BY <1>5, <1>6, <1>8, <2>1
  <2>2. CASE q # r
    <3>1. u # w /\ Holds(thread[u], q) /\ runs'[q] = runs[q]
      BY <1>5, <1>7, <1>8, <2>2
    <3>2. \A v \in Threads : Holds(thread'[v], q) => Holds(thread[v], q)
      BY <1>7, <1>8, <2>2
    <3> QED BY <3>1, <3>2 DEF RunsHeld
  <2> QED BY <2>1, <2>2
<1>10. ASSUME NEW q \in Runs PROVE RunHolder(q)' = IF q = r THEN w ELSE RunHolder(q)
  <2>1. CASE q = r
    <3>1. \A u \in Threads : Holds(thread'[u], r) => u = w
      BY <1>6, <1>8
    <3>2. HolderOf(runs', thread', r) = w
      BY <1>1, <1>5, <1>7, <3>1, HoldersAre
    <3> QED BY <2>1, <3>2, RunsMapped
  <2>2. CASE q # r
    <3>1. \A u \in Threads : Holds(thread'[u], q) <=> Holds(thread[u], q)
      BY <1>3, <1>7, <1>8, <2>2
    <3>2. HolderOf(runs', thread', q) = HolderOf(runs, thread, q)
      BY <1>5, <2>2, <3>1, SameHolder
    <3> QED BY <2>2, <3>2, RunsMapped
  <2> QED BY <2>1, <2>2
<1>11. \A q \in Runs : RunStatus(q)' = IF q = r THEN "running" ELSE RunStatus(q)
  BY <1>5 DEF RunStatus
<1>12. RunStatus(r) = "queued" /\ \A q \in 1..(r - 1) : q \in Runs /\ RunStatus(q) # "queued"
  <2>1. \A q \in 1..(r - 1) : q \in Runs
    BY KnowledgeAssumption DEF Runs
  <2> QED BY <1>2, <2>1 DEF RunStatus, Oldest
<1>13. \A q \in Runs : RunHolder(q) # w
  BY <1>1, <1>3, HoldersAre, RunsMapped
<1>14. Queue!Claim(w, r)
  <2>1. Queue!Jobs = Runs
    BY DEF Queue!Jobs, Runs
  <2> QED BY <1>10, <1>11, <1>12, <1>13, <2>1 DEF Queue!Claim
<1> QED BY <1>9, <1>14 DEF Queue!QueueNext, Queue!Jobs, Runs


\* Whatever a thread does to its run, it is a step of the queue.
LEMMA WorkQueues ==
  ASSUME TypeInv, RunsHeld, NEW t \in Threads, Work(t)
  PROVE  RunsHeld' /\ [Queue!QueueNext]_(Queue!queue)
<1>1. runs \in [Runs -> RunType] /\ LocalsOK
  BY DEF TypeInv, DataOK
<1>2. \A u \in Threads : u # t => thread'[u] = thread[u]
  BY WorkHolds
<1>3. Queue!Jobs = Runs
  BY DEF Queue!Jobs, Runs
<1>4. CASE FinishRun(t) /\ Holds(thread[t], thread[t].run) /\ \A r \in Runs : ~Holds(thread'[t], r)
  <2>1. PICK r \in Runs : r = thread[t].run /\ thread[t].result \in {"ready", "error"}
    BY <1>1, <1>4, ArgsAt, RunAt DEF FinishRun
  <2>2. /\ Holds(thread[t], r) /\ runs[r].status \in {"running", "deleted"} /\ t \in Workers
        /\ \A u \in Threads : Holds(thread[u], r) => u = t
    BY <1>4, <2>1 DEF RunsHeld
  <2>3. \A q \in Runs : q # r => ~Holds(thread[t], q)
    BY <2>1 DEF Holds
  <2>4. \A u \in Threads : ~Holds(thread'[u], r)
    BY <1>2, <1>4, <2>2
  <2>5. \A q \in Runs : q # r => \A u \in Threads : Holds(thread'[u], q) <=> Holds(thread[u], q)
    BY <1>2, <1>4, <2>3
  <2>6. \A q \in Runs : q # r => runs'[q] = runs[q]
    BY <1>1, <1>4, <2>1 DEF FinishRun
  <2>7. RunsHeld'
    <3> SUFFICES ASSUME NEW u \in Threads, NEW q \in Runs, Holds(thread'[u], q)
                 PROVE  /\ u \in Workers /\ runs'[q].status \in {"running", "deleted"}
                        /\ \A v \in Threads : Holds(thread'[v], q) => v = u
      BY DEF RunsHeld
    <3>1. q # r /\ Holds(thread[u], q)
      BY <2>4, <2>5
    <3> QED BY <2>5, <2>6, <3>1 DEF RunsHeld
  <2>8. \A q \in Runs : RunHolder(q)' = IF q = r THEN Nobody ELSE RunHolder(q)
    <3>1. HolderOf(runs', thread', r) = Nobody
      BY <2>4, HoldersAre
    <3>2. \A q \in Runs : q # r => HolderOf(runs', thread', q) = HolderOf(runs, thread, q)
      BY <2>5, <2>6, SameHolder
    <3> QED BY <3>1, <3>2, RunsMapped
  <2>9. CASE runs[r].status = "deleted"
    <3>1. runs' = runs
      BY <1>4, <2>1, <2>9 DEF FinishRun
    <3>2. RunHolder(r) = Nobody
      BY <2>9, HoldersAre, RunsMapped
    <3>3. \A q \in Runs : RunHolder(q)' = RunHolder(q) /\ RunStatus(q)' = RunStatus(q)
      BY <2>8, <3>1, <3>2 DEF RunStatus
    <3>4. [q \in Runs |-> RunStatus(q)]' = [q \in Runs |-> RunStatus(q)]
      BY <3>3
    <3>5. [q \in Runs |-> RunHolder(q)]' = [q \in Runs |-> RunHolder(q)]
      BY <3>3
    <3> QED BY <2>7, <3>4, <3>5 DEF Queue!queue
  <2>10. CASE runs[r].status = "running"
    <3>1. runs'[r].status = thread[t].result
      BY <1>1, <1>4, <2>1, <2>10 DEF FinishRun, RunType
    <3>2. RunHolder(r) = t /\ t # Nobody
      BY <2>2, <2>10, HoldersAre, RunsMapped, KnowledgeAssumption
    <3>3. PICK s \in {"done", "failed"} : s = IF thread[t].result = "ready" THEN "done" ELSE "failed"
      OBVIOUS
    <3>4. \A q \in Runs : RunStatus(q)' = IF q = r THEN s ELSE RunStatus(q)
      BY <2>1, <2>6, <3>1, <3>3 DEF RunStatus
    <3>5. Queue!Finish(r)
      BY <1>3, <2>8, <3>2, <3>4 DEF Queue!Finish
    <3> QED BY <1>3, <2>7, <3>5 DEF Queue!QueueNext
  <2> QED BY <2>2, <2>9, <2>10
<1>5. CASE Resolve(t) /\ \A r \in Runs : ~Holds(thread'[t], r)
  <2>1. runs' = runs
    BY <1>5 DEF Resolve, database
  <2>2. CASE \E r \in Runs : Holds(thread[t], r) /\ runs[r].status = "running"
    <3>1. PICK r \in Runs : Holds(thread[t], r) /\ runs[r].status = "running"
      BY <2>2
    <3>2. \A u \in Threads : Holds(thread[u], r) => u = t
      BY <3>1 DEF RunsHeld
    <3>3. \A q \in Runs : q # r => ~Holds(thread[t], q)
      BY <3>1 DEF Holds
    <3>4. \A u \in Threads, q \in Runs : Holds(thread'[u], q) => Holds(thread[u], q) /\ q # r
      BY <1>2, <1>5, <3>2
    <3>5. RunsHeld'
      BY <2>1, <3>4 DEF RunsHeld
    <3>6. RunHolder(r) = t /\ t # Nobody
      BY <3>1, <3>2, HoldersAre, RunsMapped, KnowledgeAssumption
    <3>7. \A q \in Runs : RunHolder(q)' = IF q = r THEN Nobody ELSE RunHolder(q)
      <4>1. HolderOf(runs', thread', r) = Nobody
        BY <3>4, HoldersAre
      <4>2. \A q \in Runs : q # r => \A u \in Threads : Holds(thread'[u], q) <=> Holds(thread[u], q)
        BY <1>2, <3>3, <3>4
      <4>3. \A q \in Runs : q # r => HolderOf(runs', thread', q) = HolderOf(runs, thread, q)
        BY <2>1, <4>2, SameHolder
      <4> QED BY <4>1, <4>3, RunsMapped
    <3>8. \A q \in Runs : RunStatus(q)' = RunStatus(q)
      BY <2>1 DEF RunStatus
    <3>9. Queue!Abandon(r)
      BY <1>3, <3>6, <3>7, <3>8 DEF Queue!Abandon
    <3> QED BY <1>3, <3>5, <3>9 DEF Queue!QueueNext
  <2>3. CASE \A r \in Runs : Holds(thread[t], r) => runs[r].status # "running"
    <3>1. \A u \in Threads, q \in Runs : Holds(thread'[u], q) => Holds(thread[u], q)
      BY <1>2, <1>5
    <3>2. RunsHeld'
      BY <2>1, <3>1 DEF RunsHeld
    <3>3. ASSUME NEW q \in Runs PROVE RunHolder(q)' = RunHolder(q)
      <4>1. CASE runs[q].status = "running"
        <5>1. \A u \in Threads : Holds(thread'[u], q) <=> Holds(thread[u], q)
          BY <1>2, <1>5, <2>3, <4>1
        <5>2. HolderOf(runs', thread', q) = HolderOf(runs, thread, q)
          BY <2>1, <5>1, SameHolder
        <5> QED BY <5>2, RunsMapped
      <4>2. CASE runs[q].status # "running"
        <5>1. HolderOf(runs', thread', q) = Nobody /\ HolderOf(runs, thread, q) = Nobody
          BY <2>1, <4>2, HoldersAre
        <5> QED BY <5>1, RunsMapped
      <4> QED BY <4>1, <4>2
    <3>4. \A q \in Runs : RunStatus(q)' = RunStatus(q)
      BY <2>1 DEF RunStatus
    <3>5. [q \in Runs |-> RunStatus(q)]' = [q \in Runs |-> RunStatus(q)]
      BY <3>4
    <3>6. [q \in Runs |-> RunHolder(q)]' = [q \in Runs |-> RunHolder(q)]
      BY <3>3
    <3> QED BY <3>2, <3>5, <3>6 DEF Queue!queue
  <2> QED BY <2>2, <2>3
<1>6. CASE /\ DeleteSourceRow(t) /\ source.exists
           /\ \A r \in Runs : Holds(thread'[t], r) <=> Holds(thread[t], r)
  <2> DEFINE S == {r \in Runs : runs[r].op = "sync" /\ runs[r].status # "new"}
  <2>1. \A u \in Threads, q \in Runs : Holds(thread'[u], q) <=> Holds(thread[u], q)
    BY <1>2, <1>6
  <2>2. runs' = [r \in Runs |-> IF r \in S THEN [runs[r] EXCEPT !.status = "deleted"] ELSE runs[r]]
    BY <1>6 DEF DeleteSourceRow
  <2>3. /\ \A r \in S : r \in Runs /\ runs'[r].status = "deleted" /\ runs[r].status # "new"
        /\ \A r \in Runs \ S : runs'[r] = runs[r]
    BY <1>1, <2>2 DEF RunType
  <2> HIDE DEF S
  <2>4. RunsHeld'
    <3> SUFFICES ASSUME NEW u \in Threads, NEW q \in Runs, Holds(thread'[u], q)
                 PROVE  /\ u \in Workers /\ runs'[q].status \in {"running", "deleted"}
                        /\ \A v \in Threads : Holds(thread'[v], q) => v = u
      BY DEF RunsHeld
    <3>1. runs'[q].status \in {runs[q].status, "deleted"}
      BY <2>3
    <3> QED BY <2>1, <3>1 DEF RunsHeld
  <2>5. \A q \in Runs : RunHolder(q)' = IF q \in S THEN Nobody ELSE RunHolder(q)
    <3>1. \A q \in S : HolderOf(runs', thread', q) = Nobody
      BY <2>3, HoldersAre
    <3>2. \A q \in Runs \ S : HolderOf(runs', thread', q) = HolderOf(runs, thread, q)
      BY <2>1, <2>3, SameHolder
    <3> QED BY <3>1, <3>2, RunsMapped
  <2>6. \A q \in Runs : RunStatus(q)' = IF q \in S THEN "deleted" ELSE RunStatus(q)
    BY <2>3 DEF RunStatus
  <2>7. S \in SUBSET Runs /\ \A q \in S : RunStatus(q) # "new"
    BY <2>3 DEF RunStatus
  <2>8. Queue!Delete(S)
    <3>1. [q \in Runs |-> RunStatus(q)]' = [q \in Runs |-> IF q \in S THEN "deleted" ELSE RunStatus(q)]
      BY <2>6
    <3>2. [q \in Runs |-> RunHolder(q)]' = [q \in Runs |-> IF q \in S THEN Nobody ELSE RunHolder(q)]
      BY <2>5
    <3> QED BY <1>3, <2>7, <3>1, <3>2 DEF Queue!Delete
  <2> QED BY <1>3, <2>4, <2>7, <2>8 DEF Queue!QueueNext
<1>7. CASE /\ runs' = runs
           /\ \A r \in Runs : Holds(thread'[t], r) <=> Holds(thread[t], r)
  <2>1. \A u \in Threads, r \in Runs : Holds(thread'[u], r) <=> Holds(thread[u], r)
    BY <1>2, <1>7
  <2> QED BY <1>7, <2>1, QueueStutters
<1>8. FinishRun(t) \/ (DeleteSourceRow(t) /\ source.exists) \/ runs' = runs
  BY DEF Work, Mark, Result, List, Count, MarkSource, SourceResult, Insert, UpdateRow, Remove,
     Recount, DeleteSourceRow, Chunk, Unindex, Upsert, Wipe, Scan, EachFile, Prune, EachPruned,
     Reconcile, Snapshot, EachStored, Resolve, database
<1>9. FinishRun(t) => ~\A r \in Runs : Holds(thread'[t], r) <=> Holds(thread[t], r)
  <2> SUFFICES ASSUME FinishRun(t)
               PROVE  ~\A r \in Runs : Holds(thread'[t], r) <=> Holds(thread[t], r)
    OBVIOUS
  <2>1. At(t, "finish") /\ Proceed(t)
    BY DEF FinishRun
  <2>2. thread[t].run \in Runs /\ Holds(thread[t], thread[t].run)
    BY <1>1, <2>1, RunAt
  <2>3. Goes(t, After(thread[t])) /\ Working(t, thread[t])
    BY <1>1, <2>1, ProceedsAt, Works
  <2>4. After(thread[t]).run = thread[t].run /\ After(thread[t]).plan = Tail(thread[t].plan)
    BY <2>3, AfterFields DEF Working
  <2>5. ~Holds(thread'[t], thread[t].run)
    BY <1>1, <2>1, <2>2, <2>3, <2>4, TailHolds
  <2> QED BY <2>2, <2>5
<1> QED BY <1>4, <1>5, <1>6, <1>7, <1>8, <1>9, WorkHolds

\* The restart of the process.
LEMMA RestartQueues ==
  ASSUME TypeInv, RunsHeld, CrashAndRestart
  PROVE  RunsHeld' /\ Queue!QueueNext
<1>1. PICK stale \in 0..MaxRuns :
        runs' = [r \in Runs |-> IF runs[r].status = "running" /\ r <= stale
                                THEN [runs[r] EXCEPT !.status = "error"] ELSE runs[r]]
  BY DEF CrashAndRestart
<1>2. \A t \in Threads, r \in Runs : ~Holds(thread'[t], r)
  BY IdlingOK, HoldsNothing DEF CrashAndRestart
<1>3. runs \in [Runs -> RunType]
  BY DEF TypeInv, DataOK
<1>4. \A r \in Runs : RunHolder(r)' = Nobody
  BY <1>2, HoldersAre, RunsMapped
<1>5. \A r \in Runs : runs'[r].status = IF runs[r].status = "running" /\ r <= stale
                                        THEN "error" ELSE runs[r].status
  BY <1>1, <1>3 DEF RunType
<1>6. \A r \in Runs : RunStatus(r)' = IF RunStatus(r) = "running" /\ r <= stale
                                      THEN "failed" ELSE RunStatus(r)
  BY <1>5 DEF RunStatus
<1>7. Queue!Restart(stale)
  <2>1. Queue!Jobs = Runs
    BY DEF Queue!Jobs, Runs
  <2>2. [r \in Runs |-> RunHolder(r)]' = [r \in Runs |-> Nobody]
    BY <1>4
  <2>3. [r \in Runs |-> RunStatus(r)]' =
          [r \in Runs |-> IF RunStatus(r) = "running" /\ r <= stale THEN "failed" ELSE RunStatus(r)]
    BY <1>6
  <2> QED BY <2>1, <2>2, <2>3 DEF Queue!Restart
<1>8. RunsHeld'
  BY <1>2 DEF RunsHeld
<1> QED BY <1>7, <1>8 DEF Queue!QueueNext

\* A sync run is claimed once, in the order of submission and by one worker,
\* and is final once it is finished: the runs implement the queue.
THEOREM RunsImplementQueue == Spec => RunsAreQueued
<1>1. Init => Queue!QueueInit /\ RunsHeld
  <2> SUFFICES ASSUME Init PROVE Queue!QueueInit /\ RunsHeld
    OBVIOUS
  <2>1. \A t \in Threads, r \in Runs : ~Holds(thread[t], r)
    BY IdlingOK, HoldsNothing DEF Init
  <2>2. \A r \in Runs : RunStatus(r) = "new" /\ RunHolder(r) = Nobody
    <3>1. \A r \in Runs : runs[r].status = "new"
      BY DEF Init
    <3> QED BY <2>1, <3>1, HoldersAre, RunsMapped DEF RunStatus
  <2>3. RunsHeld
    BY <2>1 DEF RunsHeld
  <2> QED BY <2>2, <2>3 DEF Queue!QueueInit, Queue!Jobs, Runs
<1>2. ASSUME TypeInv, RunsHeld, [Next]_vars
      PROVE  RunsHeld' /\ [Queue!QueueNext]_(Queue!queue)
  <2>1. CASE \E h \in Handlers : Request(h)
    BY <1>2, <2>1, RequestQueues
  <2>2. CASE \E w \in room.workers : Claim(w)
    BY <1>2, <2>2, ClaimQueues, RoomTypes
  <2>3. CASE \E t \in Threads : Work(t)
    BY <1>2, <2>3, WorkQueues
  <2>4. CASE CrashAndRestart
    BY <1>2, <2>4, RestartQueues
  <2>5. CASE UpdateSource \/ FileChanges \/ UNCHANGED vars
    <3>1. UNCHANGED <<runs, thread>>
      BY <2>5 DEF UpdateSource, FileChanges, vars, database
    <3> QED BY <1>2, <3>1, QueueStutters
  <2> QED BY <1>2, <2>1, <2>2, <2>3, <2>4, <2>5 DEF Next, Quiet
<1>3. Spec => []TypeInv
  BY TypesHold
<1> QED BY <1>1, <1>2, <1>3, PTL DEF Spec, RunsAreQueued, Queue!QueueSpec


-----------------------------------------------------------------------------
(* The index.                                                              *)

\* Calls that one call excludes from the rest of the plan.
Bars(a, b) ==
  \/ a \in {"reconcile", "prune", "each_pruned"} /\ b \in {"scan", "each_file"}
  \/ a = "each_stored" /\ b \in {"scan", "each_file", "prune", "each_pruned", "snapshot"}
  \/ a = "drop_source" /\ b = "each_pruned"
Ordered(s) == \A i, j \in 1..Len(s) : i < j => ~Bars(s[i], s[j])

\* The chunks I of a document, and what its row R accounts for.
Blank(I) == \A c \in Ordinals : I[c] = None
Covered(d, R, I) ==
  \A c \in Ordinals : I[c] # None => c < R.chunks /\ (d \in ManualDocs => I[c] = R.text)
\* Only a create that failed leaves chunks without a row, and its id is not
\* drawn again.
DocFine(d, R, I, m) ==
  /\ R.text # None => Covered(d, R, I)
  /\ R.text = None /\ d \notin m => Blank(I)
  /\ d \in ManualDocs \ m => R.text = None

\* What a call knows of the document it is about.
KnowsDoc(L, R, I) ==
  /\ L.op \in {"update", "delete"} /\ Is(L, {"mark", "chunk"})
       => R = L.snap[L.doc] /\ R.text # None
  /\ L.op = "create" /\ Is(L, {"mark", "chunk", "insert"}) => R.text = None /\ Blank(I)
  /\ L.op # "create" /\ Is(L, {"insert"}) => L.doc \in Files
  /\ Is(L, {"unindex"}) => /\ R = L.snap[L.doc] /\ R.text # None
                           /\ \A c \in Ordinals : c < L.n => I[c] = None
  /\ Is(L, {"update"}) => Blank(I)
  /\ L.op # "create" /\ Is(L, {"remove"}) => Blank(I)
  /\ Is(L, {"recount"}) => Blank(I)
  /\ Is(L, {"recount", "upsert"}) => /\ R.text # None
                                     /\ L.doc \in ManualDocs => R.text = L.text
  /\ Is(L, {"upsert"}) => R.chunks = ChunksOf[L.text]

\* What a loop knows of a document it has yet to come to.
Pruning(L) == Among("each_pruned", L.plan) /\ ~Among("each_file", L.plan)
Rebuilding(L) ==
  /\ Among("each_stored", L.plan)
  /\ \A c \in {"each_file", "each_pruned", "snapshot"} : ~Among(c, L.plan)
KnowsTodo(L, d, R, I) ==
  /\ Pruning(L) \/ Rebuilding(L) => R = L.snap[d] /\ R.text # None
  /\ Rebuilding(L) => Is(L, {"wipe"}) \/ Blank(I)

\* What an operation knows of the documents that it alone works on, and that
\* it writes no others.
Within(L, m) ==
  /\ L.doc \in Touched(L) \cup {None} /\ L.todo \subseteq Touched(L)
  /\ L.op = "create" => L.doc \in m
Knows(L, rs, ix, mx, m) ==
  /\ Ordered(L.plan) /\ Within(L, m)
  /\ L.doc \in Docs \ mx => KnowsDoc(L, rs[L.doc], ix[L.doc])
  /\ \A d \in L.todo \ mx : KnowsTodo(L, d, rs[d], ix[d])

DocsFine(rs, ix, mx, m) ==
  /\ \A d \in ManualDocs : ~rs[d].linked
  /\ \A d \in Docs \ mx : DocFine(d, rs[d], ix[d], m)
Apart(th, mx) ==
  \A t, u \in Threads : t # u => Touched(th[t]) \cap Touched(th[u]) \subseteq mx

IndexInv ==
  /\ Apart(thread, mixed) /\ DocsFine(rows, index, mixed, minted)
  /\ \A t \in Threads : Knows(thread[t], rows, index, mixed, minted)


-----------------------------------------------------------------------------
(* Ordered plans.                                                          *)

\* What is left of an ordered plan.
LEMMA OrderedTail ==
  ASSUME NEW s \in Seq(Calls), s # << >>, Ordered(s)
  PROVE  /\ Ordered(Tail(s))
         /\ \A c : Among(c, Tail(s)) => ~Bars(Head(s), c) /\ Among(c, s)
         /\ \A c : Among(c, s) => c = Head(s) \/ Among(c, Tail(s))
<1> DEFINE t == Tail(s)
<1>1. /\ Len(s) \in Nat \ {0} /\ Len(t) = Len(s) - 1 /\ Head(s) = s[1]
      /\ \A i \in 1..Len(t) : t[i] = s[i + 1] /\ i + 1 \in 1..Len(s) /\ 1 < i + 1
      /\ 1 \in 1..Len(s)
  OBVIOUS
<1>2. \A i \in 1..Len(s) : i = 1 \/ (i - 1 \in 1..Len(t) /\ s[i] = t[i - 1])
  <2> SUFFICES ASSUME NEW i \in 1..Len(s), i # 1
               PROVE  i - 1 \in 1..Len(t) /\ s[i] = t[i - 1]
    OBVIOUS
  <2>1. i - 1 \in 1..Len(t) /\ (i - 1) + 1 = i
    BY <1>1
  <2> QED BY <1>1, <2>1
<1> HIDE DEF t
<1>3. Ordered(t)
  <2> SUFFICES ASSUME NEW i \in 1..Len(t), NEW j \in 1..Len(t), i < j PROVE ~Bars(t[i], t[j])
    BY DEF Ordered
  <2>1. i + 1 < j + 1 /\ i + 1 \in 1..Len(s) /\ j + 1 \in 1..Len(s)
    BY <1>1
  <2>2. ~Bars(s[i + 1], s[j + 1])
    BY <2>1 DEF Ordered
  <2> QED BY <1>1, <2>2
<1>4. \A c : Among(c, t) => ~Bars(Head(s), c) /\ Among(c, s)
  <2> SUFFICES ASSUME NEW i \in 1..Len(t) PROVE ~Bars(Head(s), t[i]) /\ Among(t[i], s)
    BY DEF Among
  <2>1. ~Bars(s[1], s[i + 1])
    BY <1>1 DEF Ordered
  <2> QED BY <1>1, <2>1 DEF Among
<1>5. \A c : Among(c, s) => c = Head(s) \/ Among(c, t)
  BY <1>1, <1>2 DEF Among
<1> QED BY <1>3, <1>4, <1>5 DEF t

\* Calls put in front of an ordered plan.
LEMMA OrderedFront ==
  ASSUME NEW p \in Seq(Calls), NEW s \in Seq(Calls), Ordered(p), Ordered(s),
         \A i \in 1..Len(p) : \A c : Among(c, s) => ~Bars(p[i], c)
  PROVE  Ordered(p \o s)
<1> DEFINE r == p \o s
<1>1. /\ Len(p) \in Nat /\ Len(s) \in Nat /\ Len(r) = Len(p) + Len(s)
      /\ \A i \in 1..Len(p) : r[i] = p[i]
      /\ \A i \in 1..Len(s) : r[Len(p) + i] = s[i]
  OBVIOUS
<1> HIDE DEF r
<1>2. \A i \in 1..Len(r) : i \in 1..Len(p) \/ (i - Len(p) \in 1..Len(s) /\ r[i] = s[i - Len(p)])
  <2> SUFFICES ASSUME NEW i \in 1..Len(r), i \notin 1..Len(p)
               PROVE  i - Len(p) \in 1..Len(s) /\ r[i] = s[i - Len(p)]
    OBVIOUS
  <2>1. i - Len(p) \in 1..Len(s) /\ Len(p) + (i - Len(p)) = i
    BY <1>1
  <2> QED BY <1>1, <2>1
<1> SUFFICES ASSUME NEW i \in 1..Len(r), NEW j \in 1..Len(r), i < j PROVE ~Bars(r[i], r[j])
  BY DEF Ordered, r
<1>3. CASE i \in 1..Len(p) /\ j \in 1..Len(p)
  BY <1>1, <1>3 DEF Ordered
<1>4. CASE i \in 1..Len(p) /\ j \notin 1..Len(p)
  <2>1. Among(r[j], s)
    BY <1>2, <1>4 DEF Among
  <2> QED BY <1>1, <1>4, <2>1
<1>5. CASE i \notin 1..Len(p)
  <2>1. j \notin 1..Len(p) /\ i - Len(p) < j - Len(p)
    BY <1>1, <1>5
  <2> QED BY <1>2, <1>5, <2>1 DEF Ordered
<1> QED BY <1>3, <1>4, <1>5

\* The calls about one document exclude none.
LEMMA OrderedSteps ==
  ASSUME NEW p \in Seq(Calls),
         \A c : Among(c, p) =>
           c \notin {"reconcile", "prune", "each_pruned", "each_stored", "drop_source"}
  PROVE  Ordered(p) /\ \A s \in Seq(Calls) : Ordered(s) => Ordered(p \o s)
<1>1. \A i \in 1..Len(p) : \A c : ~Bars(p[i], c)
  BY DEF Among, Bars
<1>2. Ordered(p)
  BY <1>1 DEF Ordered
<1> QED BY <1>1, <1>2, OrderedFront

\* The plans that operations start with are ordered.
LEMMA OrderedPrograms ==
  ASSUME NEW op \in DOMAIN Program
  PROVE  Ordered(Program[op])
<1>1. PlanOK(op, Program[op]) /\ Program[op] \in Seq(Calls)
  BY Programs DEF PlanOK
<1>2. \A c : Among(c, Program[op]) => Makes(op, c)
  BY <1>1 DEF PlanOK, Chained, Among
<1>3. CASE op \notin {"drop", "sync", "resync"}
  <2>1. \A c : Among(c, Program[op]) =>
          c \notin {"reconcile", "prune", "each_pruned", "each_stored", "drop_source"}
    BY <1>2, <1>3 DEF Makes, Syncs
  <2> QED BY <1>1, <2>1, OrderedSteps
<1>4. CASE op = "drop"
  <2> DEFINE s == Program[op]
  <2>1. /\ s[1] = "mark" /\ s[2] = "each_pruned" /\ s[3] = "drop_source" /\ s[4] = "list"
        /\ s[5] = "count" /\ s[6] = "result" /\ Len(s) = 6
    BY <1>4 DEF Program, DocumentDone
  <2> HIDE DEF s
  <2>2. \A i \in 1..6 : i = 1 \/ i = 2 \/ i = 3 \/ i = 4 \/ i = 5 \/ i = 6
    OBVIOUS
  <2>3. /\ \A i \in 1..6 : s[i] \notin {"reconcile", "prune", "each_stored", "scan", "each_file"}
        /\ \A i \in 1..6 : (s[i] = "each_pruned" => i = 2) /\ (s[i] = "drop_source" => i = 3)
    BY <2>1, <2>2
  <2>4. Ordered(s)
    BY <2>1, <2>3 DEF Ordered, Bars
  <2> QED BY <2>4 DEF s
<1>5. CASE op = "sync"
  <2> DEFINE s == Program[op]
  <2>1. /\ s[1] = "resolve" /\ s[2] = "mark" /\ s[3] = "mark_source" /\ s[4] = "scan"
        /\ s[5] = "prune" /\ s[6] = "list" /\ s[7] = "count" /\ s[8] = "finish"
        /\ s[9] = "source_result" /\ s[10] = "result" /\ Len(s) = 10
    BY <1>5 DEF Program, SyncSource
  <2> HIDE DEF s
  <2>2. \A i \in 1..10 : \/ i = 1 \/ i = 2 \/ i = 3 \/ i = 4 \/ i = 5
                         \/ i = 6 \/ i = 7 \/ i = 8 \/ i = 9 \/ i = 10
    OBVIOUS
  <2>3. /\ \A i \in 1..10 : s[i] \notin {"reconcile", "each_pruned", "each_stored",
                                         "drop_source", "each_file"}
        /\ \A i \in 1..10 : (s[i] = "prune" => i = 5) /\ (s[i] = "scan" => i = 4)
    BY <2>1, <2>2
  <2>4. Ordered(s)
    BY <2>1, <2>3 DEF Ordered, Bars
  <2> QED BY <2>4 DEF s
<1>6. CASE op = "resync"
  <2> DEFINE s == Program[op]
  <2>1. /\ s[1] = "mark" /\ s[2] = "reconcile" /\ s[3] = "snapshot" /\ s[4] = "wipe"
        /\ s[5] = "each_stored" /\ s[6] = "list" /\ s[7] = "count" /\ s[8] = "result"
        /\ s[9] = "finish" /\ Len(s) = 9
    BY <1>6 DEF Program, ResyncPlan
  <2> HIDE DEF s
  <2>2. \A i \in 1..9 : i = 1 \/ i = 2 \/ i = 3 \/ i = 4 \/ i = 5 \/ i = 6 \/ i = 7 \/ i = 8 \/ i = 9
    OBVIOUS
  <2>3. /\ \A i \in 1..9 : s[i] \notin {"prune", "each_pruned", "drop_source", "each_file", "scan"}
        /\ \A i \in 1..9 : (s[i] = "snapshot" => i = 3) /\ (s[i] = "each_stored" => i = 5)
    BY <2>1, <2>2
  <2>4. Ordered(s)
    BY <2>1, <2>3 DEF Ordered, Bars
  <2> QED BY <2>4 DEF s
<1> QED BY <1>3, <1>4, <1>5, <1>6


-----------------------------------------------------------------------------
(* What is known, from one call to the next.                               *)

\* The calls that lead to a call about a document.
Leads == {"mark", "chunk", "insert", "unindex", "update", "recount"}

\* A call that does not lead to one about a document leaves nothing to know.
LEMMA QuietNext ==
  ASSUME NEW L, NEW N, PlanOK(L.op, L.plan), L.plan # << >>, Head(L.plan) \notin Leads,
         N.op = L.op, N.plan = Tail(L.plan)
  PROVE  \A R, I : KnowsDoc(N, R, I)
<1>1. CASE N.plan = << >>
  BY <1>1 DEF KnowsDoc, Is
<1>2. CASE N.plan # << >>
  <2>1. /\ Makes(L.op, Head(L.plan)) /\ Follows(L.op, Head(L.plan), Head(N.plan))
    BY <1>2, TailPlan
  <2>2. /\ Head(N.plan) \notin {"chunk", "insert", "unindex", "update", "upsert", "recount", "remove"}
        /\ Head(N.plan) = "mark" => Head(L.plan) = "resolve"
    BY <2>1 DEF Follows, Leads
  <2>3. Head(N.plan) = "mark" => L.op = "sync"
    BY <2>1, <2>2 DEF Makes, Syncs
  <2> QED BY <2>2, <2>3 DEF KnowsDoc, Is
<1> QED BY <1>1, <1>2

\* A thread between operations knows nothing.
LEMMA IdleKnows ==
  /\ \A rs, ix, mx, m : Knows(Idling, rs, ix, mx, m)
  /\ Touched(Idling) = {}
<1>1. Idling.plan = << >> /\ Idling.op = "none" /\ Idling.todo = {} /\ Idling.doc = None
  BY DEF Idling, Local
<1>2. Ordered(<< >>)
  BY DEF Ordered
<1>3. \A R, I : KnowsDoc(Idling, R, I)
  BY <1>1 DEF KnowsDoc, Is
<1>4. Touched(Idling) = {}
  BY <1>1, TouchedAre
<1> QED BY <1>1, <1>2, <1>3, <1>4 DEF Knows, Within

\* What a thread may write depends on its operation and its document.
LEMMA TouchedSame ==
  ASSUME NEW L, NEW N, N.op = L.op, N.doc = L.doc \/ L.op \notin {"create", "update", "delete"}
  PROVE  Touched(N) = Touched(L)
BY TouchedAre

\* After an exception nothing is known and nothing is looped over.
LEMMA FailKnows ==
  ASSUME NEW t, NEW L, Working(t, L), L.op \notin {"request_sync", "request_resync"},
         NEW rs, NEW ix, NEW mx, NEW m, Knows(L, rs, ix, mx, m)
  PROVE  /\ \A rs2, ix2 : Knows(Failed(L), rs2, ix2, mx, m)
         /\ Touched(Failed(L)) = Touched(L)
<1> DEFINE N == Failed(L)
<1>1. /\ N.plan = Rescue(L) /\ N.op = L.op /\ N.doc = L.doc /\ N.todo = {} /\ L.op \in Ops
      /\ L.op # "none" /\ L.plan # << >>
  BY FailedFields DEF Working
<1>2. /\ PlanOK(L.op, N.plan) /\ N.plan # << >>
      /\ Head(N.plan) \in {"remove", "finish", "source_result", "result"}
      /\ Head(N.plan) = "remove" => L.op = "create"
      /\ \A c : Among(c, N.plan) =>
              c \in {"remove", "list", "count", "finish", "source_result", "result"}
  BY <1>1, RescuePlan
<1> HIDE DEF N
<1>3. Ordered(N.plan)
  BY <1>2, OrderedSteps DEF PlanOK
<1>4. \A R, I : KnowsDoc(N, R, I)
  BY <1>1, <1>2 DEF KnowsDoc, Is
<1>5. Touched(N) = Touched(L)
  BY <1>1, TouchedSame
<1>6. Within(N, m)
  BY <1>1, <1>5 DEF Within, Knows
<1>7. \A rs2, ix2 : Knows(N, rs2, ix2, mx, m)
  BY <1>1, <1>3, <1>4, <1>6 DEF Knows
<1> QED BY <1>5, <1>7 DEF N

\* What a loop knows outlives the calls about one document.
LEMMA TodoPasses ==
  ASSUME NEW L, NEW N, L.plan \in Seq(Calls), L.plan # << >>, Ordered(L.plan),
         N.snap = L.snap, N.plan = L.plan \/ N.plan = Tail(L.plan),
         Head(L.plan) \notin {"each_file", "each_pruned", "snapshot"}
  PROVE  /\ Ordered(N.plan)
         /\ Pruning(N) => Pruning(L)
         /\ Rebuilding(N) => Rebuilding(L)
         /\ \A d, R, I : KnowsTodo(L, d, R, I) /\ ~Is(L, {"wipe"}) => KnowsTodo(N, d, R, I)
<1>1. CASE N.plan = L.plan
  BY <1>1 DEF Pruning, Rebuilding, KnowsTodo, Is
<1>2. CASE N.plan = Tail(L.plan)
  <2>1. /\ Ordered(N.plan) /\ \A c : Among(c, N.plan) => Among(c, L.plan)
        /\ \A c \in {"each_file", "each_pruned", "snapshot"} : Among(c, L.plan) => Among(c, N.plan)
    BY <1>2, OrderedTail
  <2>2. (Pruning(N) => Pruning(L)) /\ (Rebuilding(N) => Rebuilding(L))
    BY <2>1 DEF Pruning, Rebuilding
  <2> QED BY <2>1, <2>2 DEF KnowsTodo, Is
<1> QED BY <1>1, <1>2

\* A call that writes nothing about a document.
LEMMA PassKnows ==
  ASSUME NEW t, NEW L, Working(t, L), NEW N, NEW rs, NEW ix, NEW mx, NEW m,
         Knows(L, rs, ix, mx, m),
         N.op = L.op, N.plan = Tail(L.plan), N.doc = L.doc, N.todo = L.todo, N.snap = L.snap,
         Head(L.plan) \notin {"each_file", "each_pruned", "snapshot", "wipe"},
         L.doc \in Docs \ mx => KnowsDoc(N, rs[L.doc], ix[L.doc])
  PROVE  Knows(N, rs, ix, mx, m) /\ Touched(N) = Touched(L)
<1>1. L.plan \in Seq(Calls) /\ L.plan # << >> /\ Ordered(L.plan) /\ ~Is(L, {"wipe"})
  BY DEF Working, Knows, Is
<1>2. Ordered(N.plan) /\ \A d, R, I : KnowsTodo(L, d, R, I) => KnowsTodo(N, d, R, I)
  BY <1>1, TodoPasses
<1>3. Touched(N) = Touched(L)
  BY TouchedSame
<1>4. Within(N, m)
  BY <1>3 DEF Knows, Within
<1>5. \A d \in N.todo \ mx : KnowsTodo(N, d, rs[d], ix[d])
  BY <1>2 DEF Knows
<1> QED BY <1>2, <1>3, <1>4, <1>5 DEF Knows

\* The calls before the first one that writes.
LEMMA LeadsOn ==
  ASSUME NEW t, NEW L, Working(t, L), NEW N, NEW R, NEW I, KnowsDoc(L, R, I),
         Head(L.plan) \in {"mark", "chunk"},
         N.op = L.op, N.plan = Tail(L.plan), N.doc = L.doc, N.snap = L.snap, N.n = 0
  PROVE  KnowsDoc(N, R, I)
<1>0. PlanOK(L.op, L.plan) /\ L.plan # << >>
  BY DEF Working
<1>1. CASE N.plan = << >>
  BY <1>1 DEF KnowsDoc, Is
<1>2. CASE N.plan # << >>
  <2>1. Makes(L.op, Head(L.plan)) /\ Follows(L.op, Head(L.plan), Head(N.plan))
    BY <1>0, <1>2, TailPlan
  <2>2. /\ Head(N.plan) \in {"chunk", "insert", "unindex", "each_pruned", "mark_source", "reconcile"}
        /\ Head(N.plan) = "unindex" => L.op \in {"update", "delete"}
        /\ Head(N.plan) = "insert" => L.op = "create"
        /\ Head(N.plan) = "chunk" => L.op \in {"create", "update"}
    BY <2>1 DEF Follows
  <2>3. L.op \in {"update", "delete"} => R = L.snap[L.doc] /\ R.text # None
    BY <1>0 DEF KnowsDoc, Is
  <2>4. L.op = "create" => R.text = None /\ Blank(I)
    BY <1>0 DEF KnowsDoc, Is
  <2>5. \A c \in Ordinals : ~(c < 0)
    BY RowTypes DEF Ordinals
  <2> QED BY <2>2, <2>3, <2>4, <2>5 DEF KnowsDoc, Is
<1> QED BY <1>1, <1>2


-----------------------------------------------------------------------------
(* The index, step by step.                                                *)

\* A step of one thread that knows what it needs afterwards and writes only
\* what it may.
LEMMA StepKeeps ==
  ASSUME TypeInv, IndexInv, NEW t \in Threads, NEW N, Goes(t, N),
         mixed' = mixed, minted' = minted, Touched(N) \subseteq Touched(thread[t]),
         \A d \in Docs \ Touched(thread[t]) : rows'[d] = rows[d] /\ index'[d] = index[d],
         \A d \in ManualDocs : ~rows'[d].linked,
         \A d \in Docs \ mixed :
           d \in Touched(thread[t]) => DocFine(d, rows'[d], index'[d], minted),
         Knows(N, rows', index', mixed, minted)
  PROVE  IndexInv'
<1>1. /\ Knows(thread'[t], rows', index', mixed, minted)
      /\ Touched(thread'[t]) \subseteq Touched(thread[t])
      /\ \A u \in Threads \ {t} : thread'[u] = thread[u]
  BY IdleKnows DEF Goes, Done
<1>2. Apart(thread, mixed) /\ DocsFine(rows, index, mixed, minted)
      /\ \A u \in Threads : Knows(thread[u], rows, index, mixed, minted)
  BY DEF IndexInv
<1>3. Apart(thread', mixed)
  BY <1>1, <1>2 DEF Apart
<1>4. DocsFine(rows', index', mixed, minted)
  BY <1>2 DEF DocsFine
<1>5. ASSUME NEW u \in Threads, u # t
      PROVE  Knows(thread'[u], rows', index', mixed, minted)
  <2> DEFINE K == thread[u]
  <2>1. K = thread'[u] /\ Knows(K, rows, index, mixed, minted)
    BY <1>1, <1>2, <1>5
  <2>2. Touched(K) \cap Touched(thread[t]) \subseteq mixed /\ Touched(K) \subseteq Docs
    BY <1>2, <1>5, TouchedDocs DEF Apart, TypeInv, LocalsOK, LocalOK
  <2>3. K.doc \in Touched(K) \cup {None} /\ K.todo \subseteq Touched(K) /\ None \notin Docs
    BY <2>1, KnowledgeAssumption DEF Knows, Within
  <2>4. \A d \in Touched(K) \ mixed : rows'[d] = rows[d] /\ index'[d] = index[d]
    BY <2>2
  <2> HIDE DEF K
  <2>5. K.doc \in Docs \ mixed => KnowsDoc(K, rows'[K.doc], index'[K.doc])
    BY <2>1, <2>3, <2>4 DEF Knows
  <2>6. \A d \in K.todo \ mixed : KnowsTodo(K, d, rows'[d], index'[d])
    BY <2>1, <2>3, <2>4 DEF Knows
  <2> QED BY <2>1, <2>5, <2>6 DEF Knows
<1>6. \A u \in Threads : Knows(thread'[u], rows', index', mixed, minted)
  BY <1>1, <1>5
<1> QED BY <1>3, <1>4, <1>6 DEF IndexInv

\* A step that writes neither rows nor the index.
LEMMA QuietKeeps ==
  ASSUME TypeInv, IndexInv, NEW t \in Threads, NEW N, Goes(t, N),
         mixed' = mixed, minted' = minted, rows' = rows, index' = index,
         Touched(N) \subseteq Touched(thread[t]), Knows(N, rows, index, mixed, minted)
  PROVE  IndexInv'
<1>1. /\ \A d \in ManualDocs : ~rows[d].linked
      /\ \A d \in Docs \ mixed : DocFine(d, rows[d], index[d], minted)
  BY DEF IndexInv, DocsFine
<1>2. /\ \A d \in Docs \ Touched(thread[t]) : rows'[d] = rows[d] /\ index'[d] = index[d]
      /\ \A d \in ManualDocs : ~rows'[d].linked
      /\ \A d \in Docs \ mixed :
           d \in Touched(thread[t]) => DocFine(d, rows'[d], index'[d], minted)
      /\ Knows(N, rows', index', mixed, minted)
  BY <1>1
<1> QED BY <1>2, StepKeeps

\* The calls about one document.
DocCalls == {"insert", "update", "recount", "remove", "unindex", "upsert"}

\* A call about one document, which only that document feels.
LEMMA DocKeeps ==
  ASSUME TypeInv, IndexInv, NEW t \in Threads, NEW L, Working(t, L), NEW N, Goes(t, N),
         mixed' = mixed, minted' = minted,
         Head(L.plan) \in DocCalls, N.plan = L.plan \/ N.plan = Tail(L.plan),
         N.op = L.op, N.doc = L.doc, N.todo = L.todo, N.snap = L.snap,
         \A d \in Docs \ {L.doc} : rows'[d] = rows[d] /\ index'[d] = index[d],
         L.doc \in ManualDocs => ~rows'[L.doc].linked,
         L.doc \notin mixed => /\ DocFine(L.doc, rows'[L.doc], index'[L.doc], minted)
                               /\ KnowsDoc(N, rows'[L.doc], index'[L.doc])
  PROVE  IndexInv'
<1>1. /\ Knows(L, rows, index, mixed, minted) /\ L = thread[t]
      /\ L.plan \in Seq(Calls) /\ L.plan # << >> /\ PlanOK(L.op, L.plan)
      /\ DocsFine(rows, index, mixed, minted)
  BY DEF IndexInv, Working
<1>2. L.doc \in Docs /\ L.doc # None
  BY <1>1, KnowledgeAssumption DEF Working, Args, Is, DocCalls
<1>3. L.doc \in Touched(L) /\ L.todo \subseteq Touched(L)
  BY <1>1, <1>2 DEF Knows, Within
<1>4. /\ Ordered(N.plan)
      /\ \A d, R, I : KnowsTodo(L, d, R, I) => KnowsTodo(N, d, R, I)
  BY <1>1, TodoPasses DEF Knows, Is, DocCalls
<1>5. Touched(N) = Touched(L)
  BY TouchedSame
<1>6. Within(N, minted)
  BY <1>1, <1>5 DEF Knows, Within
<1>7. L.doc \in L.todo => ~Pruning(N) /\ ~Rebuilding(N)
  <2>1. SUFFICES ASSUME L.doc \in L.todo PROVE ~Pruning(N) /\ ~Rebuilding(N)
    OBVIOUS
  <2>2. L.op \in Syncs \cup {"drop"}
    BY <2>1 DEF Working, FieldsOK
  <2>3. Head(L.plan) = "remove" /\ ~Among("each_pruned", L.plan)
    BY <1>1, <2>1, <2>2 DEF Working, Args, Is, DocCalls, Syncs
  <2>4. /\ \A c : Among(c, L.plan) <=> c = Head(L.plan) \/ Among(c, Tail(L.plan))
        /\ Tail(L.plan) # << >> => Follows(L.op, Head(L.plan), Head(Tail(L.plan)))
        /\ PlanOK(L.op, Tail(L.plan))
    BY <1>1, TailPlan
  <2>5. Tail(L.plan) # << >> => Among(Head(Tail(L.plan)), Tail(L.plan))
    BY <2>4, TailPlan
  <2>6. Tail(L.plan) = << >>
    <3> SUFFICES ASSUME Tail(L.plan) # << >> PROVE FALSE
      OBVIOUS
    <3>1. Head(Tail(L.plan)) = "each_pruned"
      BY <2>2, <2>3, <2>4 DEF Follows, Syncs
    <3> QED BY <2>3, <2>4, <2>5, <3>1
  <2>7. \A c : Among(c, L.plan) => c = "remove"
    BY <2>3, <2>4, <2>6, AmongNothing
  <2>8. \A c : Among(c, N.plan) => c = "remove"
    BY <2>6, <2>7, AmongNothing
  <2> QED BY <2>8 DEF Pruning, Rebuilding
<1>8. \A d \in L.todo \ mixed : KnowsTodo(N, d, rows'[d], index'[d])
  <2> SUFFICES ASSUME NEW d \in L.todo \ mixed PROVE KnowsTodo(N, d, rows'[d], index'[d])
    OBVIOUS
  <2>1. CASE d = L.doc
    BY <1>7, <2>1 DEF KnowsTodo
  <2>2. CASE d # L.doc
    <3>1. d \in Docs
      BY DEF Working
    <3> QED BY <1>1, <1>4, <2>2, <3>1 DEF Knows
  <2> QED BY <2>1, <2>2
<1>9. Knows(N, rows', index', mixed, minted)
  BY <1>2, <1>4, <1>6, <1>8 DEF Knows
<1>10. /\ \A d \in Docs \ Touched(L) : rows'[d] = rows[d] /\ index'[d] = index[d]
       /\ \A d \in ManualDocs : ~rows'[d].linked
  BY <1>1, <1>3, RowTypes DEF DocsFine
<1>11. \A d \in Docs \ mixed : DocFine(d, rows'[d], index'[d], minted)
  BY <1>1 DEF DocsFine
<1> QED BY <1>1, <1>5, <1>9, <1>10, <1>11, StepKeeps


\* A call that ends without writing.
LEMMA ProceedKeeps ==
  ASSUME TypeInv, IndexInv, NEW t \in Threads, NEW call, At(t, call), Proceed(t),
         rows' = rows, index' = index, mixed' = mixed, minted' = minted,
         call \notin {"each_file", "each_pruned", "snapshot", "wipe"},
         call \in {"mark", "chunk"} \/ call \notin Leads
  PROVE  IndexInv'
<1> DEFINE L == thread[t]
           N == After(L)
<1>1. LocalsOK /\ Knows(L, rows, index, mixed, minted)
  BY DEF TypeInv, IndexInv
<1>2. Working(t, L) /\ Head(L.plan) = call /\ Goes(t, N)
  BY <1>1, Works, ProceedsAt
<1> HIDE DEF L
<1>3. /\ N.plan = Tail(L.plan) /\ N.n = 0 /\ N.op = L.op /\ N.doc = L.doc
      /\ N.todo = L.todo /\ N.snap = L.snap
      /\ PlanOK(L.op, L.plan) /\ L.plan # << >>
  BY <1>2, AfterFields DEF Working
<1> HIDE DEF N
<1>4. L.doc \in Docs \ mixed => KnowsDoc(N, rows[L.doc], index[L.doc])
  <2>1. CASE call \notin Leads
    BY <1>2, <1>3, <2>1, QuietNext
  <2>2. CASE call \in {"mark", "chunk"}
    <3> SUFFICES ASSUME L.doc \in Docs \ mixed PROVE KnowsDoc(N, rows[L.doc], index[L.doc])
      OBVIOUS
    <3>1. KnowsDoc(L, rows[L.doc], index[L.doc])
      BY <1>1 DEF Knows
    <3> QED BY <1>2, <1>3, <2>2, <3>1, LeadsOn
  <2> QED BY <2>1, <2>2
<1>5. Knows(N, rows, index, mixed, minted) /\ Touched(N) = Touched(L)
  BY <1>1, <1>2, <1>3, <1>4, PassKnows
<1> QED BY <1>2, <1>5, QuietKeeps DEF L

\* An exception, whatever the call has written.
LEMMA FailKeeps ==
  ASSUME TypeInv, IndexInv, NEW t \in Threads, NEW call, At(t, call),
         call \notin {"mark", "mark_source"}, Fail(t), mixed' = mixed, minted' = minted,
         \A d \in Docs \ Touched(thread[t]) : rows'[d] = rows[d] /\ index'[d] = index[d],
         \A d \in ManualDocs : ~rows'[d].linked,
         \A d \in Docs \ mixed :
           d \in Touched(thread[t]) => DocFine(d, rows'[d], index'[d], minted)
  PROVE  IndexInv'
<1> DEFINE L == thread[t]
           N == Failed(L)
<1>1. LocalsOK /\ Knows(L, rows, index, mixed, minted)
  BY DEF TypeInv, IndexInv
<1>2. Working(t, L) /\ Goes(t, N) /\ L.op \notin {"request_sync", "request_resync"}
  BY <1>1, Works, FailsAt
<1> HIDE DEF L
<1>3. Knows(N, rows', index', mixed, minted) /\ Touched(N) = Touched(L)
  BY <1>1, <1>2, FailKnows
<1> HIDE DEF N
<1> QED BY <1>2, <1>3, StepKeeps DEF L

\* An exception of a call that has written nothing.
LEMMA FailQuiet ==
  ASSUME TypeInv, IndexInv, NEW t \in Threads, NEW call, At(t, call),
         call \notin {"mark", "mark_source"}, Fail(t),
         rows' = rows, index' = index, mixed' = mixed, minted' = minted
  PROVE  IndexInv'
<1>1. /\ \A d \in ManualDocs : ~rows[d].linked
      /\ \A d \in Docs \ mixed : DocFine(d, rows[d], index[d], minted)
  BY DEF IndexInv, DocsFine
<1>2. /\ \A d \in Docs \ Touched(thread[t]) : rows'[d] = rows[d] /\ index'[d] = index[d]
      /\ \A d \in ManualDocs : ~rows'[d].linked
      /\ \A d \in Docs \ mixed :
           d \in Touched(thread[t]) => DocFine(d, rows'[d], index'[d], minted)
  BY <1>1
<1> QED BY <1>2, FailKeeps

\* An exception that nobody catches.
LEMMA EscapeKeeps ==
  ASSUME TypeInv, IndexInv, NEW t \in Threads, Escape(t),
         rows' = rows, index' = index, mixed' = mixed, minted' = minted
  PROVE  IndexInv'
<1>1. Goes(t, Idling)
  BY Escapes, IdlingOK DEF TypeInv, Goes, Done
<1>2. Knows(Idling, rows, index, mixed, minted) /\ Touched(Idling) \subseteq Touched(thread[t])
  BY IdleKnows
<1> QED BY <1>1, <1>2, QuietKeeps

\* Where the next call is not about a document, nothing need be known of one.
LEMMA NoDocCall ==
  ASSUME NEW N, N.plan # << >>,
         Head(N.plan) \notin DocCalls \cup {"mark", "chunk"}
  PROVE  \A R, I : KnowsDoc(N, R, I)
BY DEF KnowsDoc, Is, DocCalls

\* The calls of two plans, one after the other.
LEMMA AmongFront ==
  ASSUME NEW p \in Seq(Calls), NEW s \in Seq(Calls)
  PROVE  \A c : Among(c, p \o s) <=> Among(c, p) \/ Among(c, s)
<1> DEFINE r == p \o s
<1>1. /\ Len(p) \in Nat /\ Len(s) \in Nat /\ Len(r) = Len(p) + Len(s)
      /\ \A i \in 1..Len(p) : r[i] = p[i] /\ i \in 1..Len(r)
      /\ \A i \in 1..Len(s) : r[Len(p) + i] = s[i] /\ Len(p) + i \in 1..Len(r)
  OBVIOUS
<1> HIDE DEF r
<1>2. \A i \in 1..Len(r) : i \in 1..Len(p) \/ (i - Len(p) \in 1..Len(s) /\ r[i] = s[i - Len(p)])
  <2> SUFFICES ASSUME NEW i \in 1..Len(r), i \notin 1..Len(p)
               PROVE  i - Len(p) \in 1..Len(s) /\ r[i] = s[i - Len(p)]
    OBVIOUS
  <2>1. i - Len(p) \in 1..Len(s) /\ Len(p) + (i - Len(p)) = i
    BY <1>1
  <2> QED BY <1>1, <2>1
<1>3. \A c : Among(c, r) => Among(c, p) \/ Among(c, s)
  BY <1>1, <1>2 DEF Among
<1>4. \A c : Among(c, p) \/ Among(c, s) => Among(c, r)
  BY <1>1 DEF Among
<1> QED BY <1>3, <1>4 DEF r

\* What a loop knows when calls are put in front of its plan.
LEMMA TodoFront ==
  ASSUME NEW L, NEW N, NEW p \in Seq(Calls), NEW s \in Seq(Calls),
         N.plan = p \o s, N.snap = L.snap, ~Is(L, {"wipe"}),
         \A c \in {"each_pruned", "each_stored"} :
           ~Among(c, p) /\ (Among(c, s) => Among(c, L.plan)),
         \A c \in {"each_file", "each_pruned", "snapshot"} : Among(c, L.plan) => Among(c, s)
  PROVE  \A d, R, I : KnowsTodo(L, d, R, I) => KnowsTodo(N, d, R, I)
<1>1. \A c : Among(c, N.plan) <=> Among(c, p) \/ Among(c, s)
  BY AmongFront
<1>2. Pruning(N) => Pruning(L)
  BY <1>1 DEF Pruning
<1>3. Rebuilding(N) => Rebuilding(L)
  BY <1>1 DEF Rebuilding
<1> QED BY <1>2, <1>3 DEF KnowsTodo, Is


\* The loops: what a call about the next document has to know of it.
LEMMA ScanKeeps ==
  ASSUME TypeInv, IndexInv, NEW t \in Threads, Scan(t)
  PROVE  IndexInv'
<1> DEFINE L == thread[t]
<1>1. /\ LocalsOK /\ Knows(L, rows, index, mixed, minted) /\ At(t, "scan")
      /\ rows' = rows /\ index' = index /\ mixed' = mixed /\ minted' = minted
  BY DEF TypeInv, IndexInv, Scan, database, history
<1>2. Working(t, L) /\ Head(L.plan) = "scan"
  BY <1>1, Works
<1>3. PICK N : /\ Goes(t, N)
               /\ Turns(L, N, <<"each_file">> \o Tail(L.plan), L.n, L.doc, L.text,
                        Present, Present, L.snap)
               /\ N.plan # << >> /\ Head(N.plan) = "each_file"
  BY <1>1, ScanTurns
<1> HIDE DEF L
<1>4. /\ N.op = L.op /\ N.doc = L.doc /\ N.todo = Present
      /\ N.plan = <<"each_file">> \o Tail(L.plan)
  BY <1>3 DEF Turns
<1>5. Tail(L.plan) \in Seq(Calls) /\ Ordered(Tail(L.plan))
  BY <1>1, <1>2, OrderedTail DEF Working, Knows
<1>6. Ordered(N.plan) /\ Among("each_file", N.plan)
  <2> DEFINE p == <<"each_file">>
  <2>1. p \in Seq(Calls) /\ \A c : Among(c, p) <=> c = "each_file"
    BY DEF Calls, Among
  <2> HIDE DEF p
  <2>2. Ordered(p \o Tail(L.plan)) /\ Among("each_file", p \o Tail(L.plan))
    BY <1>5, <2>1, OrderedSteps, AmongFront
  <2> QED BY <1>4, <2>2 DEF p
<1>7. \A R, I : KnowsDoc(N, R, I)
  BY <1>3, NoDocCall DEF DocCalls
<1>8. Touched(N) = Touched(L) /\ Present \subseteq Touched(L)
  <2>1. L.op \in Syncs
    BY <1>2 DEF Working, Makes
  <2> QED BY <1>4, <2>1, TouchedSame, TouchedAre, SourceFiles DEF Syncs
<1>9. Within(N, minted)
  BY <1>1, <1>4, <1>8 DEF Knows, Within
<1>10. \A d, R, I : KnowsTodo(N, d, R, I)
  BY <1>6 DEF KnowsTodo, Pruning, Rebuilding
<1>11. Knows(N, rows, index, mixed, minted)
  BY <1>6, <1>7, <1>9, <1>10 DEF Knows
<1> QED BY <1>1, <1>3, <1>8, <1>11, QuietKeeps DEF L

\* The documents to prune are read with their rows.
LEMMA PruneKeeps ==
  ASSUME TypeInv, IndexInv, NEW t \in Threads, Prune(t)
  PROVE  IndexInv'
<1> DEFINE L == thread[t]
<1>1. /\ LocalsOK /\ Knows(L, rows, index, mixed, minted) /\ At(t, "prune")
      /\ rows' = rows /\ index' = index /\ mixed' = mixed /\ minted' = minted
      /\ rows \in [Docs -> RowType]
  BY DEF TypeInv, DataOK, IndexInv, Prune, database, history
<1>2. Working(t, L) /\ Head(L.plan) = "prune"
  BY <1>1, Works
<1>3. PICK N : /\ Goes(t, N)
               /\ Turns(L, N, <<"each_pruned">> \o Tail(L.plan), L.n, L.doc, L.text,
                        Linked \ L.seen, {}, rows)
               /\ Among("each_pruned", N.plan)
               /\ N.plan # << >> /\ Head(N.plan) = "each_pruned"
  BY <1>1, PruneTurns
<1> HIDE DEF L
<1>4. /\ N.op = L.op /\ N.doc = L.doc /\ N.todo = Linked \ L.seen /\ N.snap = rows
      /\ N.plan = <<"each_pruned">> \o Tail(L.plan)
  BY <1>3 DEF Turns
<1>5. /\ Tail(L.plan) \in Seq(Calls) /\ Ordered(Tail(L.plan))
      /\ \A c : Among(c, Tail(L.plan)) => ~Bars("prune", c)
  BY <1>1, <1>2, OrderedTail DEF Working, Knows
<1>6. Ordered(N.plan)
  <2> DEFINE p == <<"each_pruned">>
  <2>1. p \in Seq(Calls) /\ \A i \in 1..Len(p) : p[i] = "each_pruned"
    BY DEF Calls
  <2>2. Ordered(p)
    BY DEF Ordered
  <2> HIDE DEF p
  <2>3. \A i \in 1..Len(p) : \A c : Among(c, Tail(L.plan)) => ~Bars(p[i], c)
    BY <1>5, <2>1 DEF Bars
  <2>4. Ordered(p \o Tail(L.plan))
    BY <1>5, <2>1, <2>2, <2>3, OrderedFront
  <2> QED BY <1>4, <2>4 DEF p
<1>7. \A R, I : KnowsDoc(N, R, I)
  BY <1>3, NoDocCall DEF DocCalls
<1>8. Touched(N) = Touched(L) /\ Linked \subseteq Touched(L)
  <2>1. L.op \in Syncs
    BY <1>2 DEF Working, Makes
  <2> QED BY <1>4, <2>1, TouchedSame, TouchedAre, SourceFiles DEF Syncs
<1>9. Within(N, minted)
  BY <1>1, <1>4, <1>8 DEF Knows, Within
<1>10. \A d \in N.todo : KnowsTodo(N, d, rows[d], index[d])
  BY <1>3, <1>4 DEF KnowsTodo, Rebuilding, Linked, Stored
<1>11. Knows(N, rows, index, mixed, minted)
  BY <1>6, <1>7, <1>9, <1>10 DEF Knows
<1> QED BY <1>1, <1>3, <1>8, <1>11, QuietKeeps DEF L

\* The documents to index again are read with their rows.
LEMMA SnapshotKeeps ==
  ASSUME TypeInv, IndexInv, NEW t \in Threads, Snapshot(t)
  PROVE  IndexInv'
<1> DEFINE L == thread[t]
<1>1. /\ LocalsOK /\ Knows(L, rows, index, mixed, minted) /\ At(t, "snapshot")
      /\ rows' = rows /\ index' = index /\ mixed' = mixed /\ minted' = minted
      /\ rows \in [Docs -> RowType]
  BY DEF TypeInv, DataOK, IndexInv, Snapshot, database, history
<1>2. Working(t, L) /\ Head(L.plan) = "snapshot" /\ L.op = "resync"
  BY <1>1, Works, SnapshotTurns
<1>3. PICK N : /\ Goes(t, N)
               /\ Turns(L, N, Tail(L.plan), 0, L.doc, L.text, StoredDocs, L.seen, rows)
               /\ N.plan # << >> /\ Head(N.plan) = "wipe"
  BY <1>1, SnapshotTurns
<1> HIDE DEF L
<1>4. /\ N.op = L.op /\ N.doc = L.doc /\ N.todo = StoredDocs /\ N.snap = rows
      /\ N.plan = Tail(L.plan)
  BY <1>3 DEF Turns
<1>5. Ordered(N.plan)
  BY <1>1, <1>2, <1>4, OrderedTail DEF Working, Knows
<1>6. \A R, I : KnowsDoc(N, R, I)
  BY <1>3, NoDocCall DEF DocCalls
<1>7. Touched(N) = Touched(L) /\ StoredDocs \subseteq Touched(L)
  BY <1>2, <1>4, TouchedSame, TouchedAre DEF StoredDocs
<1>8. Within(N, minted)
  BY <1>1, <1>4, <1>7 DEF Knows, Within
<1>9. \A d \in N.todo : KnowsTodo(N, d, rows[d], index[d])
  BY <1>3, <1>4 DEF KnowsTodo, Is, StoredDocs, Stored
<1>10. Knows(N, rows, index, mixed, minted)
  BY <1>5, <1>6, <1>8, <1>9 DEF Knows
<1> QED BY <1>1, <1>3, <1>7, <1>10, QuietKeeps DEF L

\* A loop that has come to its end.
LEMMA LoopEndKeeps ==
  ASSUME TypeInv, IndexInv, NEW t \in Threads,
         NEW call \in {"each_file", "each_pruned", "each_stored"}, At(t, call),
         thread[t].todo = {}, Continue(t, [thread[t] EXCEPT !.doc = None, !.snap = NoRows]),
         rows' = rows, index' = index, mixed' = mixed, minted' = minted
  PROVE  IndexInv'
<1> DEFINE L == thread[t]
<1>1. LocalsOK /\ Knows(L, rows, index, mixed, minted)
  BY DEF TypeInv, IndexInv
<1>2. Working(t, L) /\ Head(L.plan) = call /\ PlanOK(L.op, L.plan) /\ L.plan # << >>
  BY <1>1, Works DEF Working
<1>3. PICK N : Goes(t, N) /\ Turns(L, N, Tail(L.plan), 0, None, L.text, {}, L.seen, NoRows)
  BY <1>1, LoopEnds
<1> HIDE DEF L
<1>4. N.op = L.op /\ N.doc = None /\ N.todo = {} /\ N.plan = Tail(L.plan)
  BY <1>3 DEF Turns
<1>5. Ordered(N.plan)
  BY <1>1, <1>2, <1>4, OrderedTail DEF Working, Knows
<1>6. \A R, I : KnowsDoc(N, R, I)
  <2>1. Head(L.plan) \notin Leads
    BY <1>2 DEF Leads
  <2> QED BY <1>2, <1>4, <2>1, QuietNext
<1>7. L.op \notin {"create", "update", "delete"}
  BY <1>2 DEF Working, Makes, Syncs
<1>8. Touched(N) = Touched(L)
  BY <1>4, <1>7, TouchedSame
<1>9. Within(N, minted)
  BY <1>4, <1>7 DEF Within
<1>10. Knows(N, rows, index, mixed, minted)
  BY <1>4, <1>5, <1>6, <1>9 DEF Knows
<1> QED BY <1>3, <1>8, <1>10, QuietKeeps DEF L

\* A resync that syncs first.
LEMMA ReconcileKeeps ==
  ASSUME TypeInv, IndexInv, NEW t \in Threads, Reconcile(t)
  PROVE  IndexInv'
<1> DEFINE L == thread[t]
<1>1. /\ LocalsOK /\ Knows(L, rows, index, mixed, minted) /\ At(t, "reconcile")
      /\ rows' = rows /\ index' = index /\ mixed' = mixed /\ minted' = minted
  BY DEF TypeInv, IndexInv, Reconcile, database, history
<1>2. Working(t, L) /\ Head(L.plan) = "reconcile"
  BY <1>1, Works
<1>3. CASE Proceed(t)
  BY <1>1, <1>3, ProceedKeeps DEF Leads
<1>4. CASE Fail(t)
  BY <1>1, <1>4, FailQuiet
<1>5. CASE Become(t, [L EXCEPT !.plan = SyncSource \o <<"source_result">> \o Tail(@)])
  <2> DEFINE p == SyncSource \o <<"source_result">>
             s == Tail(L.plan)
  <2>1. PICK N : /\ Goes(t, N)
                 /\ Turns(L, N, SyncSource \o <<"source_result">> \o Tail(L.plan), L.n,
                          L.doc, L.text, L.todo, L.seen, L.snap)
                 /\ N.plan # << >> /\ Head(N.plan) = "mark_source"
    BY <1>1, <1>5, ReconcileTurns
  <2>2. /\ N.op = L.op /\ N.doc = L.doc /\ N.todo = L.todo /\ N.snap = L.snap
        /\ N.plan = p \o s
    BY <2>1 DEF Turns
  <2>3. /\ s \in Seq(Calls) /\ Ordered(s)
        /\ \A c : Among(c, s) => ~Bars("reconcile", c) /\ Among(c, L.plan)
        /\ \A c : Among(c, L.plan) => c = "reconcile" \/ Among(c, s)
    BY <1>1, <1>2, OrderedTail DEF Working, Knows
  <2>4. /\ p[1] = "mark_source" /\ p[2] = "scan" /\ p[3] = "prune" /\ p[4] = "list"
        /\ p[5] = "count" /\ p[6] = "source_result" /\ Len(p) = 6 /\ p \in Seq(Calls)
    BY DEF SyncSource, Calls
  <2> HIDE DEF L, p, s
  <2>5. \A i \in 1..6 : i = 1 \/ i = 2 \/ i = 3 \/ i = 4 \/ i = 5 \/ i = 6
    OBVIOUS
  <2>6. /\ \A i \in 1..6 : p[i] \in {"mark_source", "scan", "prune", "list", "count", "source_result"}
        /\ \A i \in 1..6 : (p[i] = "scan" => i = 2) /\ (p[i] = "prune" => i = 3)
    BY <2>4, <2>5
  <2>7. Ordered(p)
    BY <2>4, <2>6 DEF Ordered, Bars
  <2>8. \A i \in 1..Len(p) : \A c : Among(c, s) => ~Bars(p[i], c)
    BY <2>3, <2>4, <2>6 DEF Bars
  <2>9. Ordered(N.plan)
    BY <2>2, <2>3, <2>4, <2>7, <2>8, OrderedFront
  <2>10. \A R, I : KnowsDoc(N, R, I)
    BY <2>1, NoDocCall DEF DocCalls
  <2>11. \A c \in {"each_pruned", "each_stored"} : ~Among(c, p)
    BY <2>4, <2>6 DEF Among
  <2>12. \A d, R, I : KnowsTodo(L, d, R, I) => KnowsTodo(N, d, R, I)
    <3>1. ~Is(L, {"wipe"})
      BY <1>2 DEF Is
    <3>2. /\ \A c \in {"each_pruned", "each_stored"} :
               ~Among(c, p) /\ (Among(c, s) => Among(c, L.plan))
          /\ \A c \in {"each_file", "each_pruned", "snapshot"} : Among(c, L.plan) => Among(c, s)
      BY <2>3, <2>11
    <3> QED BY <2>2, <2>3, <2>4, <3>1, <3>2, TodoFront
  <2>13. Touched(N) = Touched(L)
    BY <2>2, TouchedSame
  <2>14. Within(N, minted)
    BY <1>1, <2>2, <2>13 DEF Knows, Within
  <2>15. Knows(N, rows, index, mixed, minted)
    BY <1>1, <2>2, <2>9, <2>10, <2>12, <2>14 DEF Knows
  <2> QED BY <1>1, <2>1, <2>13, <2>15, QuietKeeps DEF L
<1> QED BY <1>3, <1>4, <1>5 DEF Reconcile


\* A document that a loop comes to: what the loop knew of it is what the first
\* call about it has to know.
LEMMA TurnKeeps ==
  ASSUME TypeInv, IndexInv, NEW t \in Threads, NEW L, Working(t, L), NEW N, Goes(t, N),
         rows' = rows, index' = index, mixed' = mixed, minted' = minted,
         NEW p \in Seq(Calls), NEW d \in L.todo,
         \A c : Among(c, p) => c \in DocCalls,
         N.plan = p \o L.plan, N.op = L.op, L.op \notin {"create", "update", "delete"},
         N.doc = d, N.todo = L.todo \ {d},
         N.snap = L.snap \/ Among("each_file", N.plan),
         Head(L.plan) \in {"each_file", "each_pruned", "each_stored"},
         d \notin mixed => KnowsDoc(N, rows[d], index[d])
  PROVE  IndexInv'
<1>1. /\ Knows(L, rows, index, mixed, minted) /\ L = thread[t]
      /\ L.plan \in Seq(Calls) /\ L.plan # << >>
  BY DEF IndexInv, Working
<1>2. Ordered(N.plan)
  <2>1. \A c : Among(c, p) =>
          c \notin {"reconcile", "prune", "each_pruned", "each_stored", "drop_source"}
    BY DEF DocCalls
  <2> QED BY <1>1, <2>1, OrderedSteps DEF Knows
<1>3. Touched(N) = Touched(L)
  BY TouchedSame
<1>4. Within(N, minted)
  BY <1>1, <1>3 DEF Knows, Within
<1>5. \A e \in N.todo \ mixed : KnowsTodo(N, e, rows[e], index[e])
  <2>1. CASE Among("each_file", N.plan)
    BY <2>1 DEF KnowsTodo, Pruning, Rebuilding
  <2>2. CASE N.snap = L.snap
    <3> DEFINE s == L.plan
    <3>1. ~Is(L, {"wipe"})
      BY DEF Is
    <3>2. /\ \A c \in {"each_pruned", "each_stored"} :
               ~Among(c, p) /\ (Among(c, s) => Among(c, L.plan))
          /\ \A c \in {"each_file", "each_pruned", "snapshot"} : Among(c, L.plan) => Among(c, s)
          /\ s \in Seq(Calls) /\ N.plan = p \o s
      BY <1>1 DEF DocCalls
    <3> HIDE DEF s
    <3>3. \A e, R, I : KnowsTodo(L, e, R, I) => KnowsTodo(N, e, R, I)
      BY <2>2, <3>1, <3>2, TodoFront
    <3> QED BY <1>1, <3>3 DEF Knows
  <2> QED BY <2>1, <2>2
<1>6. Knows(N, rows, index, mixed, minted)
  BY <1>2, <1>4, <1>5 DEF Knows
<1> QED BY <1>1, <1>3, <1>6, QuietKeeps

\* The turns at the files of a source.
LEMMA EachFileKeeps ==
  ASSUME TypeInv, IndexInv, NEW t \in Threads, EachFile(t)
  PROVE  IndexInv'
<1> DEFINE L == thread[t]
<1>1. /\ LocalsOK /\ At(t, "each_file") /\ rows \in [Docs -> RowType]
      /\ rows' = rows /\ index' = index /\ mixed' = mixed /\ minted' = minted
  BY DEF TypeInv, DataOK, EachFile, database, history
<1>2. Working(t, L) /\ Head(L.plan) = "each_file"
  BY <1>1, Works
<1>3. CASE L.todo = {} /\ Continue(t, [L EXCEPT !.doc = None, !.snap = NoRows])
  BY <1>1, <1>3, LoopEndKeeps
<1>4. CASE Fail(t)
  BY <1>1, <1>4, FailQuiet
<1>5. ASSUME NEW f \in L.todo, NEW x \in Texts, NEW p \in FileSteps,
             f \in Files,
             p = IF f \notin Linked THEN <<"insert", "upsert">>
                 ELSE IF rows[f] = Row(x, TRUE) THEN << >>
                 ELSE <<"unindex", "update", "upsert">>,
             CallFirst(t, AtFile(L, f, x), p)
      PROVE  IndexInv'
  <2>1. PICK N : FileGoes(t, L, N, f, x, p)
    BY <1>1, <1>5, FileTurns
  <2>2. L.op \in Syncs
    BY <1>1, <1>5, FileTurns
  <2> HIDE DEF L
  <2>3. /\ Goes(t, N) /\ N.plan = p \o L.plan /\ N.n = 0 /\ N.op = L.op /\ N.doc = f
        /\ N.todo = L.todo \ {f} /\ N.snap = [NoRows EXCEPT ![f] = rows[f]]
        /\ N.plan # << >> /\ Among("each_file", N.plan)
        /\ Head(N.plan) = IF p = << >> THEN "each_file" ELSE p[1]
    BY <2>1 DEF FileGoes, Turns
  <2>4. f \in Docs /\ N.snap[f] = rows[f]
    BY <1>5, <2>3, RowTypes
  <2>5. KnowsDoc(N, rows[f], index[f])
    <3>1. CASE p = << >>
      BY <2>3, <3>1, NoDocCall DEF DocCalls
    <3>2. CASE p = <<"insert", "upsert">>
      <4>1. Head(N.plan) = "insert"
        BY <2>3, <3>2
      <4> QED BY <1>5, <2>2, <2>3, <4>1 DEF KnowsDoc, Is, Syncs
    <3>3. CASE p = <<"unindex", "update", "upsert">>
      <4>1. Head(N.plan) = "unindex"
        BY <2>3, <3>3
      <4>2. f \in Linked
        <5>1. p[1] = "unindex" /\ <<"insert", "upsert">>[1] = "insert"
          BY <3>3
        <5> QED BY <1>5, <5>1
      <4>3. rows[f].text # None
        BY <4>2 DEF Linked, Stored
      <4>4. \A c \in Ordinals : ~(c < 0)
        BY RowTypes DEF Ordinals
      <4> QED BY <2>2, <2>3, <2>4, <4>1, <4>3, <4>4 DEF KnowsDoc, Is, Syncs
    <3> QED BY <3>1, <3>2, <3>3 DEF FileSteps
  <2>6. p \in Seq(Calls) /\ \A c : Among(c, p) => c \in DocCalls
    <3>1. CASE p = << >>
      BY <3>1, AmongNothing
    <3>2. CASE p = <<"insert", "upsert">>
      BY <3>2 DEF Among, Calls, DocCalls
    <3>3. CASE p = <<"unindex", "update", "upsert">>
      BY <3>3 DEF Among, Calls, DocCalls
    <3> QED BY <3>1, <3>2, <3>3 DEF FileSteps
  <2>7. f \in L.todo /\ Head(L.plan) \in {"each_file", "each_pruned", "each_stored"}
        /\ L.op \notin {"create", "update", "delete"} /\ Working(t, L)
    BY <1>2, <1>5, <2>2 DEF Syncs, L
  <2> QED BY <1>1, <2>3, <2>5, <2>6, <2>7, TurnKeeps
<1>6. CASE \E f \in L.todo, x \in Texts, p \in FileSteps :
             /\ f \in Files /\ x = files[f]
             /\ p = IF f \notin Linked THEN <<"insert", "upsert">>
                    ELSE IF rows[f] = Row(x, TRUE) THEN << >>
                    ELSE <<"unindex", "update", "upsert">>
             /\ CallFirst(t, AtFile(L, f, x), p)
  BY <1>5, <1>6
<1> QED BY <1>3, <1>4, <1>6, FileCases

\* The turns at the documents to prune.
LEMMA EachPrunedKeeps ==
  ASSUME TypeInv, IndexInv, NEW t \in Threads, EachPruned(t)
  PROVE  IndexInv'
<1> DEFINE L == thread[t]
<1>1. /\ LocalsOK /\ At(t, "each_pruned") /\ Knows(L, rows, index, mixed, minted)
      /\ rows' = rows /\ index' = index /\ mixed' = mixed /\ minted' = minted
  BY DEF TypeInv, IndexInv, EachPruned, database, history
<1>2. Working(t, L) /\ Head(L.plan) = "each_pruned" /\ L.plan \in Seq(Calls) /\ L.plan # << >>
  BY <1>1, Works DEF Working
<1>3. CASE L.todo = {} /\ Continue(t, [L EXCEPT !.doc = None, !.snap = NoRows])
  BY <1>1, <1>3, LoopEndKeeps
<1>4. ASSUME NEW d \in L.todo,
             CallFirst(t, [L EXCEPT !.todo = @ \ {d}, !.doc = d], <<"unindex", "remove">>)
      PROVE  IndexInv'
  <2> DEFINE p == <<"unindex", "remove">>
  <2>1. PICK N : /\ Goes(t, N)
                 /\ Turns(L, N, <<"unindex", "remove">> \o L.plan, 0, d, L.text,
                          L.todo \ {d}, L.seen, L.snap)
                 /\ N.plan # << >> /\ Head(N.plan) = "unindex"
                 /\ Among("each_pruned", L.plan)
    BY <1>1, <1>4, PrunedTurns
  <2>2. L.op \in Syncs \cup {"drop"}
    BY <1>1, <1>4, PrunedTurns
  <2> HIDE DEF L
  <2>3. /\ N.plan = p \o L.plan /\ N.n = 0 /\ N.op = L.op /\ N.doc = d
        /\ N.todo = L.todo \ {d} /\ N.snap = L.snap
    BY <2>1 DEF Turns
  <2>4. p \in Seq(Calls) /\ \A c : Among(c, p) => c \in DocCalls
    BY DEF Among, Calls, DocCalls
  <2> HIDE DEF p
  <2>5. Pruning(L)
    <3>1. Ordered(L.plan)
      BY <1>1 DEF Knows
    <3>2. Among("each_file", L.plan) => Among("each_file", Tail(L.plan))
      BY <1>2, <3>1, OrderedTail
    <3>3. ~Among("each_file", Tail(L.plan))
      BY <1>2, <3>1, OrderedTail DEF Bars
    <3> QED BY <2>1, <3>2, <3>3 DEF Pruning
  <2>6. d \notin mixed => rows[d] = L.snap[d] /\ rows[d].text # None
    BY <1>1, <1>4, <2>5 DEF Knows, KnowsTodo
  <2>7. d \notin mixed => KnowsDoc(N, rows[d], index[d])
    <3>1. \A c \in Ordinals : ~(c < 0)
      BY RowTypes DEF Ordinals
    <3> QED BY <2>1, <2>2, <2>3, <2>6, <3>1 DEF KnowsDoc, Is, Syncs
  <2>8. L.op \notin {"create", "update", "delete"}
    BY <2>2 DEF Syncs
  <2> QED BY <1>1, <1>2, <1>4, <2>1, <2>3, <2>4, <2>7, <2>8, TurnKeeps
<1> QED BY <1>3, <1>4, PrunedCases

\* The turns at the documents to index again.
LEMMA EachStoredKeeps ==
  ASSUME TypeInv, IndexInv, NEW t \in Threads, EachStored(t)
  PROVE  IndexInv'
<1> DEFINE L == thread[t]
<1>1. /\ LocalsOK /\ At(t, "each_stored") /\ Knows(L, rows, index, mixed, minted)
      /\ rows' = rows /\ index' = index /\ mixed' = mixed /\ minted' = minted
  BY DEF TypeInv, IndexInv, EachStored, database, history
<1>2. Working(t, L) /\ Head(L.plan) = "each_stored" /\ L.plan \in Seq(Calls) /\ L.plan # << >>
  BY <1>1, Works DEF Working
<1>3. CASE L.todo = {} /\ Continue(t, [L EXCEPT !.doc = None, !.snap = NoRows])
  BY <1>1, <1>3, LoopEndKeeps
<1>4. CASE Fail(t)
  BY <1>1, <1>4, FailQuiet
<1>5. ASSUME NEW d \in L.todo, NEW x \in Texts,
             NEW p \in {<<"upsert">>, <<"recount", "upsert">>},
             d \in Docs, x = TextToIndex(L.snap[d], d),
             p = IF L.snap[d].chunks = ChunksOf[x] THEN <<"upsert">>
                 ELSE <<"recount", "upsert">>,
             CallFirst(t, AtStored(L, d, x), p)
      PROVE  IndexInv'
  <2>1. PICK N : StoredGoes(t, L, N, d, x, p)
    BY <1>1, <1>5, RebuildTurns
  <2>2. L.op = "resync"
    BY <1>1, <1>5, RebuildTurns
  <2> HIDE DEF L
  <2>3. /\ Goes(t, N) /\ N.plan = p \o L.plan /\ N.n = 0 /\ N.op = L.op /\ N.doc = d /\ N.text = x
        /\ N.todo = L.todo \ {d} /\ N.snap = L.snap
        /\ N.plan # << >> /\ Head(N.plan) = p[1]
    BY <2>1 DEF StoredGoes, Turns
  <2>4. p \in Seq(Calls) /\ \A c : Among(c, p) => c \in DocCalls
    <3>1. CASE p = <<"upsert">>
      BY <3>1 DEF Among, Calls, DocCalls
    <3>2. CASE p = <<"recount", "upsert">>
      BY <3>2 DEF Among, Calls, DocCalls
    <3> QED BY <1>5, <3>1, <3>2
  <2>5. Rebuilding(L)
    <3>1. Ordered(L.plan)
      BY <1>1 DEF Knows
    <3>2. \A c \in {"each_file", "each_pruned", "snapshot"} :
            Among(c, L.plan) => Among(c, Tail(L.plan))
      BY <1>2, <3>1, OrderedTail
    <3>3. \A c \in {"each_file", "each_pruned", "snapshot"} : ~Among(c, Tail(L.plan))
      BY <1>2, <3>1, OrderedTail DEF Bars
    <3>4. Among("each_stored", L.plan)
      BY <1>2, TailPlan DEF Working
    <3> QED BY <3>2, <3>3, <3>4 DEF Rebuilding
  <2>6. d \notin mixed => rows[d] = L.snap[d] /\ rows[d].text # None /\ Blank(index[d])
    BY <1>1, <1>2, <1>5, <2>5 DEF Knows, KnowsTodo, Is
  <2>7. d \in ManualDocs => x = L.snap[d].text
    BY <1>5, RowTypes DEF TextToIndex
  <2>8. d \notin mixed => KnowsDoc(N, rows[d], index[d])
    <3>1. CASE L.snap[d].chunks = ChunksOf[x]
      <4>1. Head(N.plan) = "upsert"
        BY <1>5, <2>3, <3>1
      <4> QED BY <2>2, <2>3, <2>6, <2>7, <3>1, <4>1 DEF KnowsDoc, Is
    <3>2. CASE L.snap[d].chunks # ChunksOf[x]
      <4>1. Head(N.plan) = "recount"
        BY <1>5, <2>3, <3>2
      <4> QED BY <2>2, <2>3, <2>6, <2>7, <4>1 DEF KnowsDoc, Is
    <3> QED BY <3>1, <3>2
  <2> QED BY <1>1, <1>2, <1>5, <2>2, <2>3, <2>4, <2>8, TurnKeeps
<1>6. CASE \E d \in L.todo, x \in Texts, p \in {<<"upsert">>, <<"recount", "upsert">>} :
             /\ d \in Docs /\ x = TextToIndex(L.snap[d], d)
             /\ p = IF L.snap[d].chunks = ChunksOf[x] THEN <<"upsert">>
                    ELSE <<"recount", "upsert">>
             /\ CallFirst(t, AtStored(L, d, x), p)
  BY <1>5, <1>6
<1> QED BY <1>3, <1>4, <1>6, StoredCases


\* The calls that write a row.
LEMMA RowWritten ==
  ASSUME NEW L, NEW N, PlanOK(L.op, L.plan), L.plan # << >>,
         Head(L.plan) \in {"insert", "update"}, N.op = L.op, N.plan = Tail(L.plan),
         N.text \in Texts, NEW R, R.text = N.text, R.chunks = ChunksOf[N.text]
  PROVE  \A I : KnowsDoc(N, R, I)
<1>1. CASE N.plan = << >>
  BY <1>1 DEF KnowsDoc, Is
<1>2. CASE N.plan # << >>
  <2>1. Follows(L.op, Head(L.plan), Head(N.plan))
    BY <1>2, TailPlan
  <2>2. Head(N.plan) = "upsert"
    BY <2>1 DEF Follows
  <2>3. N.text # None
    BY RowTypes
  <2> QED BY <2>2, <2>3 DEF KnowsDoc, Is
<1> QED BY <1>1, <1>2

\* What a call about a document knows of it, and what its end leaves.
LEMMA DocAt ==
  ASSUME TypeInv, IndexInv, NEW t \in Threads, NEW L, L = thread[t],
         NEW call \in DocCalls, At(t, call)
  PROVE  /\ Working(t, L) /\ Head(L.plan) = call /\ L.plan # << >> /\ PlanOK(L.op, L.plan)
         /\ L.doc \in Docs /\ L.doc \in Touched(L) /\ rows[L.doc] \in RowType
         /\ call \in {"insert", "update", "upsert", "recount"} => L.text \in Texts
         /\ L.op = "create" => L.doc \in minted
         /\ L.doc \in ManualDocs => ~rows[L.doc].linked
         /\ minted \subseteq ManualDocs
         /\ L.doc \notin mixed => /\ KnowsDoc(L, rows[L.doc], index[L.doc])
                                  /\ DocFine(L.doc, rows[L.doc], index[L.doc], minted)
         /\ Proceed(t) => Goes(t, After(L))
         /\ After(L).plan = Tail(L.plan) /\ After(L).n = 0 /\ After(L).op = L.op
         /\ After(L).doc = L.doc /\ After(L).text = L.text /\ After(L).todo = L.todo
         /\ After(L).snap = L.snap
<1>1. LocalsOK /\ rows \in [Docs -> RowType] /\ minted \subseteq ManualDocs
  BY DEF TypeInv, DataOK
<1>2. Working(t, L) /\ Head(L.plan) = call /\ L.plan # << >> /\ PlanOK(L.op, L.plan)
  BY <1>1, Works DEF Working
<1>3. L.doc \in Docs /\ (call \in {"insert", "update", "upsert", "recount"} => L.text \in Texts)
  BY <1>1, ArgsAt DEF DocCalls
<1>4. Knows(L, rows, index, mixed, minted) /\ DocsFine(rows, index, mixed, minted)
  BY DEF IndexInv
<1>5. L.doc \in Touched(L) /\ (L.op = "create" => L.doc \in minted)
  BY <1>3, <1>4, KnowledgeAssumption DEF Knows, Within
<1>6. /\ L.doc \in ManualDocs => ~rows[L.doc].linked
      /\ L.doc \notin mixed => /\ KnowsDoc(L, rows[L.doc], index[L.doc])
                               /\ DocFine(L.doc, rows[L.doc], index[L.doc], minted)
  BY <1>3, <1>4 DEF Knows, DocsFine
<1>7. Proceed(t) => Goes(t, After(L))
  BY <1>1, ProceedsAt
<1>8. /\ After(L).plan = Tail(L.plan) /\ After(L).n = 0 /\ After(L).op = L.op
      /\ After(L).doc = L.doc /\ After(L).text = L.text /\ After(L).todo = L.todo
      /\ After(L).snap = L.snap
  BY <1>2, AfterFields DEF Working
<1> QED BY <1>1, <1>2, <1>3, <1>5, <1>6, <1>7, <1>8

\* A row is inserted where there was none, over an index without chunks.
LEMMA InsertKeeps ==
  ASSUME TypeInv, IndexInv, NEW t \in Threads, Insert(t)
  PROVE  IndexInv'
<1> DEFINE L == thread[t]
           N == After(L)
           R == Row(L.text, L.doc \in Files)
<1>1. At(t, "insert") /\ index' = index /\ mixed' = mixed /\ minted' = minted
  BY DEF Insert, history
<1>2. CASE Fail(t) /\ rows' = rows
  BY <1>1, <1>2, FailQuiet
<1>3. CASE /\ ~(L.doc \in Files /\ (Stored(L.doc) \/ ~source.exists))
           /\ rows' = [rows EXCEPT ![L.doc] = R] /\ Proceed(t)
  <2>1. /\ Working(t, L) /\ Head(L.plan) = "insert" /\ L.plan # << >> /\ PlanOK(L.op, L.plan)
        /\ L.doc \in Docs /\ L.text \in Texts
        /\ L.op = "create" => L.doc \in minted
        /\ minted \subseteq ManualDocs
        /\ L.doc \notin mixed => /\ KnowsDoc(L, rows[L.doc], index[L.doc])
                                 /\ DocFine(L.doc, rows[L.doc], index[L.doc], minted)
        /\ Goes(t, N) /\ N.plan = Tail(L.plan) /\ N.op = L.op /\ N.doc = L.doc
        /\ N.text = L.text /\ N.todo = L.todo /\ N.snap = L.snap
    BY <1>1, <1>3, DocAt DEF DocCalls
  <2>2. /\ R.text = L.text /\ R.chunks = ChunksOf[L.text] /\ R.text # None
        /\ L.doc \notin Files => ~R.linked
    BY <2>1, RowTypes DEF Row
  <2>3. rows'[L.doc] = R /\ \A d \in Docs \ {L.doc} : rows'[d] = rows[d]
    BY <1>3, <2>1 DEF TypeInv, DataOK
  <2>4. ~Stored(L.doc) \/ L.doc \notin Files
    BY <1>3
  <2>5. \A I : KnowsDoc(N, R, I)
    BY <2>1, <2>2, RowWritten
  <2> HIDE DEF L, N, R
  <2>6. L.doc \notin mixed => Blank(index[L.doc]) /\ (L.op = "create" \/ L.doc \in Files)
    <3> SUFFICES ASSUME L.doc \notin mixed
                 PROVE  Blank(index[L.doc]) /\ (L.op = "create" \/ L.doc \in Files)
      OBVIOUS
    <3>1. CASE L.op = "create"
      BY <2>1, <3>1 DEF KnowsDoc, Is
    <3>2. CASE L.op # "create"
      <4>1. L.doc \in Files /\ L.doc \notin minted
        BY <2>1, <3>2, RowTypes DEF KnowsDoc, Is
      <4> QED BY <2>1, <2>4, <4>1 DEF DocFine, Stored
    <3> QED BY <3>1, <3>2
  <2>7. L.doc \notin mixed => DocFine(L.doc, R, index[L.doc], minted)
    BY <2>1, <2>2, <2>6, RowTypes DEF DocFine, Covered, Blank
  <2>8. L.doc \in ManualDocs => ~R.linked
    BY <2>2, RowTypes
  <2>9. Head(L.plan) \in DocCalls /\ \A d \in Docs \ {L.doc} : index'[d] = index[d]
    BY <1>1, <2>1 DEF DocCalls
  <2> QED BY <1>1, <2>1, <2>3, <2>5, <2>7, <2>8, <2>9, DocKeeps
<1> QED BY <1>2, <1>3 DEF Insert

\* A row is updated once the chunks of its old text are gone.
LEMMA UpdateRowKeeps ==
  ASSUME TypeInv, IndexInv, NEW t \in Threads, UpdateRow(t)
  PROVE  IndexInv'
<1> DEFINE L == thread[t]
           N == After(L)
           R == Row(L.text, L.doc \in Files)
<1>1. At(t, "update") /\ index' = index /\ mixed' = mixed /\ minted' = minted
  BY DEF UpdateRow, history
<1>2. CASE Fail(t) /\ rows' = rows
  BY <1>1, <1>2, FailQuiet
<1>3. CASE Stored(L.doc) /\ rows' = [rows EXCEPT ![L.doc] = R] /\ Proceed(t)
  <2>1. /\ Working(t, L) /\ Head(L.plan) = "update" /\ L.plan # << >> /\ PlanOK(L.op, L.plan)
        /\ L.doc \in Docs /\ L.text \in Texts
        /\ L.doc \notin mixed => /\ KnowsDoc(L, rows[L.doc], index[L.doc])
                                 /\ DocFine(L.doc, rows[L.doc], index[L.doc], minted)
        /\ Goes(t, N) /\ N.plan = Tail(L.plan) /\ N.op = L.op /\ N.doc = L.doc
        /\ N.text = L.text /\ N.todo = L.todo /\ N.snap = L.snap
    BY <1>1, <1>3, DocAt DEF DocCalls
  <2>2. /\ R.text = L.text /\ R.chunks = ChunksOf[L.text] /\ R.text # None
        /\ L.doc \notin Files => ~R.linked
    BY <2>1, RowTypes DEF Row
  <2>3. rows'[L.doc] = R /\ \A d \in Docs \ {L.doc} : rows'[d] = rows[d]
    BY <1>3, <2>1 DEF TypeInv, DataOK
  <2>4. rows[L.doc].text # None
    BY <1>3 DEF Stored
  <2>5. \A I : KnowsDoc(N, R, I)
    BY <2>1, <2>2, RowWritten
  <2> HIDE DEF L, N, R
  <2>6. L.doc \notin mixed => Blank(index[L.doc])
    BY <2>1 DEF KnowsDoc, Is
  <2>7. L.doc \notin mixed => DocFine(L.doc, R, index[L.doc], minted)
    BY <2>1, <2>2, <2>4, <2>6 DEF DocFine, Covered, Blank
  <2>8. L.doc \in ManualDocs => ~R.linked
    BY <2>2, RowTypes
  <2>9. Head(L.plan) \in DocCalls /\ \A d \in Docs \ {L.doc} : index'[d] = index[d]
    BY <1>1, <2>1 DEF DocCalls
  <2> QED BY <1>1, <2>1, <2>3, <2>5, <2>7, <2>8, <2>9, DocKeeps
<1> QED BY <1>2, <1>3 DEF UpdateRow

\* A row's chunk count is changed while the index holds none of its chunks.
LEMMA RecountKeeps ==
  ASSUME TypeInv, IndexInv, NEW t \in Threads, Recount(t)
  PROVE  IndexInv'
<1> DEFINE L == thread[t]
           N == After(L)
<1>1. /\ At(t, "recount") /\ index' = index /\ mixed' = mixed /\ minted' = minted /\ Proceed(t)
      /\ rows \in [Docs -> RowType]
  BY DEF Recount, history, TypeInv, DataOK
<1>2. /\ Working(t, L) /\ Head(L.plan) = "recount" /\ L.plan # << >> /\ PlanOK(L.op, L.plan)
      /\ L.doc \in Docs /\ L.text \in Texts /\ rows[L.doc] \in RowType
      /\ L.doc \in ManualDocs => ~rows[L.doc].linked
      /\ L.doc \notin mixed => /\ KnowsDoc(L, rows[L.doc], index[L.doc])
                               /\ DocFine(L.doc, rows[L.doc], index[L.doc], minted)
      /\ Goes(t, N) /\ N.plan = Tail(L.plan) /\ N.op = L.op /\ N.doc = L.doc
      /\ N.text = L.text /\ N.todo = L.todo /\ N.snap = L.snap
  BY <1>1, DocAt DEF DocCalls
<1>3. /\ rows' = IF Stored(L.doc) THEN [rows EXCEPT ![L.doc].chunks = ChunksOf[L.text]] ELSE rows
      /\ Stored(L.doc) <=> rows[L.doc].text # None
  BY DEF Recount, Stored
<1> HIDE DEF L, N
<1>4. /\ \A d \in Docs \ {L.doc} : rows'[d] = rows[d]
      /\ rows'[L.doc].linked = rows[L.doc].linked /\ rows'[L.doc].text = rows[L.doc].text
      /\ rows[L.doc].text # None => rows'[L.doc].chunks = ChunksOf[L.text]
  <2>1. CASE rows[L.doc].text # None
    BY <1>1, <1>2, <1>3, <2>1 DEF RowType
  <2>2. CASE rows[L.doc].text = None
    BY <1>3, <2>2
  <2> QED BY <2>1, <2>2
<1>5. L.doc \notin mixed => /\ Blank(index[L.doc]) /\ rows[L.doc].text # None
                            /\ L.doc \in ManualDocs => rows[L.doc].text = L.text
  BY <1>2 DEF KnowsDoc, Is
<1>6. L.doc \notin mixed => DocFine(L.doc, rows'[L.doc], index[L.doc], minted)
  BY <1>2, <1>4, <1>5 DEF DocFine, Covered, Blank
<1>7. L.doc \notin mixed => KnowsDoc(N, rows'[L.doc], index[L.doc])
  <2>1. CASE N.plan = << >>
    BY <2>1 DEF KnowsDoc, Is
  <2>2. CASE N.plan # << >>
    <3>1. Follows(L.op, Head(L.plan), Head(N.plan))
      BY <1>2, <2>2, TailPlan
    <3>2. Head(N.plan) = "upsert"
      BY <1>2, <3>1 DEF Follows
    <3> QED BY <1>2, <1>4, <1>5, <3>2 DEF KnowsDoc, Is
  <2> QED BY <2>1, <2>2
<1>8. Head(L.plan) \in DocCalls /\ \A d \in Docs \ {L.doc} : index'[d] = index[d]
  BY <1>1, <1>2 DEF DocCalls
<1> QED BY <1>1, <1>2, <1>4, <1>6, <1>7, <1>8, DocKeeps


\* A row is removed: whatever the index still holds of it, the id is not drawn
\* again.
LEMMA RemoveKeeps ==
  ASSUME TypeInv, IndexInv, NEW t \in Threads, Remove(t)
  PROVE  IndexInv'
<1> DEFINE L == thread[t]
           N == After(L)
<1>1. /\ At(t, "remove") /\ index' = index /\ mixed' = mixed /\ minted' = minted
      /\ rows' = [rows EXCEPT ![L.doc] = Absent] /\ rows \in [Docs -> RowType]
      /\ Fail(t) \/ Proceed(t)
  BY DEF Remove, history, TypeInv, DataOK
<1>2. /\ Working(t, L) /\ Head(L.plan) = "remove" /\ L.plan # << >> /\ PlanOK(L.op, L.plan)
      /\ L.doc \in Docs /\ L.doc \in Touched(L)
      /\ L.op = "create" => L.doc \in minted
      /\ L.doc \notin mixed => KnowsDoc(L, rows[L.doc], index[L.doc])
      /\ Proceed(t) => Goes(t, N)
      /\ N.plan = Tail(L.plan) /\ N.op = L.op /\ N.doc = L.doc
      /\ N.text = L.text /\ N.todo = L.todo /\ N.snap = L.snap
  BY <1>1, DocAt DEF DocCalls
<1>3. /\ rows'[L.doc] = Absent /\ \A d \in Docs \ {L.doc} : rows'[d] = rows[d]
      /\ Absent.text = None /\ ~Absent.linked
  BY <1>1, <1>2 DEF Absent
<1> HIDE DEF L, N
<1>4. L.doc \notin mixed => DocFine(L.doc, Absent, index[L.doc], minted)
  <2>1. L.doc \notin mixed /\ L.op # "create" => Blank(index[L.doc])
    BY <1>2 DEF KnowsDoc, Is
  <2> QED BY <1>2, <1>3, <2>1 DEF DocFine
<1>5. CASE Proceed(t)
  <2>1. \A R, I : KnowsDoc(N, R, I)
    BY <1>2, QuietNext DEF Leads
  <2>2. Head(L.plan) \in DocCalls /\ \A d \in Docs \ {L.doc} : index'[d] = index[d]
    BY <1>1, <1>2 DEF DocCalls
  <2> QED BY <1>1, <1>2, <1>3, <1>4, <1>5, <2>1, <2>2, DocKeeps
<1>6. CASE Fail(t)
  <2>1. /\ \A d \in Docs \ Touched(L) : rows'[d] = rows[d] /\ index'[d] = index[d]
        /\ \A d \in ManualDocs : ~rows'[d].linked
        /\ \A d \in Docs \ mixed : DocFine(d, rows'[d], index'[d], minted)
    <3>1. /\ \A d \in ManualDocs : d \in Docs /\ ~rows[d].linked
          /\ \A d \in Docs \ mixed : DocFine(d, rows[d], index[d], minted)
      BY RowTypes DEF IndexInv, DocsFine
    <3> QED BY <1>1, <1>2, <1>3, <1>4, <3>1
  <2> QED BY <1>1, <1>6, <2>1, FailKeeps DEF L
<1> QED BY <1>1, <1>5, <1>6

\* The chunks of a document are deleted one after the other, as many as its row
\* counts.
LEMMA UnindexKeeps ==
  ASSUME TypeInv, IndexInv, NEW t \in Threads, Unindex(t)
  PROVE  IndexInv'
<1> DEFINE L == thread[t]
<1>1. /\ At(t, "unindex") /\ rows' = rows /\ mixed' = mixed /\ minted' = minted
      /\ index \in [Docs -> [Ordinals -> Texts \cup {None}]] /\ LocalsOK
  BY DEF Unindex, database, history, TypeInv, DataOK
<1>2. /\ Working(t, L) /\ Head(L.plan) = "unindex" /\ L.plan # << >> /\ PlanOK(L.op, L.plan)
      /\ L.doc \in Docs /\ L.doc \in Touched(L)
      /\ L.op = "create" => L.doc \in minted
      /\ L.doc \in ManualDocs => ~rows[L.doc].linked
      /\ L.doc \notin mixed => /\ KnowsDoc(L, rows[L.doc], index[L.doc])
                               /\ DocFine(L.doc, rows[L.doc], index[L.doc], minted)
      /\ Proceed(t) => Goes(t, After(L))
      /\ After(L).plan = Tail(L.plan) /\ After(L).op = L.op /\ After(L).doc = L.doc
      /\ After(L).text = L.text /\ After(L).todo = L.todo /\ After(L).snap = L.snap
  BY <1>1, DocAt DEF DocCalls
<1>3. Head(L.plan) \in DocCalls /\ L.n \in Nat
  BY <1>2 DEF DocCalls, Working
<1>4. L.doc \notin mixed => /\ rows[L.doc] = L.snap[L.doc] /\ rows[L.doc].text # None
                            /\ \A c \in Ordinals : c < L.n => index[L.doc][c] = None
  BY <1>2 DEF KnowsDoc, Is
<1>5. CASE Fail(t) /\ index' = index
  BY <1>1, <1>5, FailQuiet
<1>6. CASE L.n = L.snap[L.doc].chunks /\ Proceed(t) /\ index' = index
  <2> DEFINE N == After(L)
  <2>1. L.doc \notin mixed => Blank(index[L.doc])
    BY <1>2, <1>4, <1>6 DEF DocFine, Covered, Blank
  <2> HIDE DEF L, N
  <2>2. L.doc \notin mixed => KnowsDoc(N, rows[L.doc], index[L.doc])
    <3>1. CASE N.plan = << >>
      BY <3>1 DEF KnowsDoc, Is
    <3>2. CASE N.plan # << >>
      <4>1. Follows(L.op, Head(L.plan), Head(N.plan))
        BY <1>2, <3>2, TailPlan DEF N
      <4>2. Head(N.plan) \in {"update", "remove"}
        BY <1>2, <4>1 DEF Follows
      <4> QED BY <2>1, <4>2 DEF KnowsDoc, Is
    <3> QED BY <3>1, <3>2
  <2> QED BY <1>1, <1>2, <1>3, <1>6, <2>2, DocKeeps DEF N
<1>7. CASE /\ L.n # L.snap[L.doc].chunks /\ index' = [index EXCEPT ![L.doc][L.n] = None]
           /\ Become(t, [L EXCEPT !.n = @ + 1])
  <2>1. PICK N : /\ Goes(t, N)
                 /\ Turns(L, N, L.plan, L.n + 1, L.doc, L.text, L.todo, L.seen, L.snap)
    BY <1>1, <1>7, UnindexTurns
  <2>2. /\ N.plan = L.plan /\ N.op = L.op /\ N.doc = L.doc /\ N.todo = L.todo
        /\ N.snap = L.snap /\ N.n = L.n + 1 /\ N.text = L.text
    BY <2>1 DEF Turns
  <2>3. /\ \A c \in Ordinals : index'[L.doc][c] = IF c = L.n THEN None ELSE index[L.doc][c]
        /\ \A d \in Docs \ {L.doc} : index'[d] = index[d]
    BY <1>1, <1>2, <1>7
  <2> HIDE DEF L
  <2>4. L.doc \notin mixed => DocFine(L.doc, rows[L.doc], index'[L.doc], minted)
    BY <1>2, <1>4, <2>3 DEF DocFine, Covered
  <2>5. \A c \in Ordinals : c < L.n + 1 => c < L.n \/ c = L.n
    BY <1>3, RowTypes DEF Ordinals
  <2>6. L.doc \notin mixed => KnowsDoc(N, rows[L.doc], index'[L.doc])
    BY <1>2, <1>4, <2>2, <2>3, <2>5 DEF KnowsDoc, Is
  <2> QED BY <1>1, <1>2, <1>3, <2>1, <2>2, <2>3, <2>4, <2>6, DocKeeps
<1> QED BY <1>5, <1>6, <1>7 DEF Unindex


\* The chunks of a document are written one after the other, as many as its row
\* counts.
LEMMA UpsertKeeps ==
  ASSUME TypeInv, IndexInv, NEW t \in Threads, Upsert(t)
  PROVE  IndexInv'
<1> DEFINE L == thread[t]
<1>1. /\ At(t, "upsert") /\ rows' = rows /\ mixed' = mixed /\ minted' = minted
      /\ index \in [Docs -> [Ordinals -> Texts \cup {None}]] /\ LocalsOK
  BY DEF Upsert, database, history, TypeInv, DataOK
<1>2. /\ Working(t, L) /\ Head(L.plan) = "upsert" /\ L.plan # << >> /\ PlanOK(L.op, L.plan)
      /\ L.doc \in Docs /\ L.text \in Texts
      /\ L.doc \in ManualDocs => ~rows[L.doc].linked
      /\ L.doc \notin mixed => /\ KnowsDoc(L, rows[L.doc], index[L.doc])
                               /\ DocFine(L.doc, rows[L.doc], index[L.doc], minted)
  BY <1>1, DocAt DEF DocCalls
<1>3. Head(L.plan) \in DocCalls /\ L.n \in Nat
  BY <1>2 DEF DocCalls, Working
<1>4. L.n <= ChunksOf[L.text] /\ ChunksOf[L.text] \in Nat
  BY <1>1, <1>2, ArgsAt, RowTypes
<1>5. L.doc \notin mixed => /\ rows[L.doc].text # None /\ rows[L.doc].chunks = ChunksOf[L.text]
                            /\ L.doc \in ManualDocs => rows[L.doc].text = L.text
  BY <1>2 DEF KnowsDoc, Is
<1>6. CASE Fail(t) /\ index' = index
  BY <1>1, <1>6, FailQuiet
<1>7. CASE L.n = ChunksOf[L.text] /\ Continue(t, [L EXCEPT !.text = None]) /\ index' = index
  <2>1. PICK N : /\ Goes(t, N)
                 /\ Turns(L, N, Tail(L.plan), 0, L.doc, None, L.todo, L.seen, L.snap)
    BY <1>1, <1>7, UpsertTurns
  <2>2. N.plan = Tail(L.plan) /\ N.op = L.op /\ N.doc = L.doc /\ N.todo = L.todo /\ N.snap = L.snap
    BY <2>1 DEF Turns
  <2> HIDE DEF L
  <2>3. \A R, I : KnowsDoc(N, R, I)
    BY <1>2, <2>2, QuietNext DEF Leads
  <2> QED BY <1>1, <1>2, <1>3, <1>7, <2>1, <2>2, <2>3, DocKeeps
<1>8. CASE /\ L.n # ChunksOf[L.text] /\ index' = [index EXCEPT ![L.doc][L.n] = L.text]
           /\ Become(t, [L EXCEPT !.n = @ + 1])
  <2>1. PICK N : /\ Goes(t, N)
                 /\ Turns(L, N, L.plan, L.n + 1, L.doc, L.text, L.todo, L.seen, L.snap)
    BY <1>1, <1>8, UpsertTurns
  <2>2. /\ N.plan = L.plan /\ N.op = L.op /\ N.doc = L.doc /\ N.todo = L.todo
        /\ N.snap = L.snap /\ N.text = L.text
    BY <2>1 DEF Turns
  <2>3. /\ \A c \in Ordinals : index'[L.doc][c] = IF c = L.n THEN L.text ELSE index[L.doc][c]
        /\ \A d \in Docs \ {L.doc} : index'[d] = index[d]
    BY <1>1, <1>2, <1>8
  <2>4. L.n < ChunksOf[L.text]
    BY <1>3, <1>4, <1>8
  <2> HIDE DEF L
  <2>5. L.doc \notin mixed => DocFine(L.doc, rows[L.doc], index'[L.doc], minted)
    BY <1>2, <1>5, <2>3, <2>4 DEF DocFine, Covered
  <2>6. L.doc \notin mixed => KnowsDoc(N, rows[L.doc], index'[L.doc])
    BY <1>2, <1>5, <2>2 DEF KnowsDoc, Is
  <2> QED BY <1>1, <1>2, <1>3, <2>1, <2>2, <2>3, <2>5, <2>6, DocKeeps
<1> QED BY <1>6, <1>7, <1>8 DEF Upsert

\* An empty index holds nothing that the rows do not account for.
LEMMA WipeKeeps ==
  ASSUME TypeInv, IndexInv, NEW t \in Threads, Wipe(t)
  PROVE  IndexInv'
<1> DEFINE L == thread[t]
           N == After(L)
<1>1. /\ At(t, "wipe") /\ rows' = rows /\ mixed' = mixed /\ minted' = minted /\ LocalsOK
      /\ index' \in {index, EmptyIndex} /\ (Fail(t) \/ (Proceed(t) /\ index' = EmptyIndex))
      /\ Knows(L, rows, index, mixed, minted)
  BY DEF Wipe, database, history, TypeInv, IndexInv
<1>2. Working(t, L) /\ Head(L.plan) = "wipe" /\ L.op = "resync"
  <2>1. Working(t, L) /\ Head(L.plan) = "wipe"
    BY <1>1, Works
  <2> QED BY <2>1 DEF Working, Makes, Syncs
<1>3. Touched(L) = Docs
  BY <1>2, TouchedAre
<1>4. /\ \A d \in ManualDocs : ~rows[d].linked
      /\ \A d \in Docs \ mixed : DocFine(d, rows[d], index[d], minted)
  BY DEF IndexInv, DocsFine
<1>5. \A d \in Docs : Blank(EmptyIndex[d])
  BY DEF EmptyIndex, Blank
<1>6. \A d \in Docs \ mixed : DocFine(d, rows[d], index'[d], minted)
  BY <1>1, <1>4, <1>5 DEF DocFine, Covered, Blank
<1>7. CASE Fail(t)
  BY <1>1, <1>3, <1>4, <1>6, <1>7, FailKeeps
<1>8. CASE Proceed(t) /\ index' = EmptyIndex
  <2>1. Goes(t, N)
    BY <1>1, <1>8, ProceedsAt
  <2>2. /\ N.plan = Tail(L.plan) /\ N.op = L.op /\ N.doc = L.doc /\ N.todo = L.todo
        /\ N.snap = L.snap /\ PlanOK(L.op, L.plan) /\ L.plan # << >> /\ L.plan \in Seq(Calls)
        /\ L.todo \subseteq Docs
    BY <1>2, AfterFields DEF Working
  <2> HIDE DEF L, N
  <2>3. \A R, I : KnowsDoc(N, R, I)
    BY <1>2, <2>2, QuietNext DEF Leads
  <2>4. Ordered(N.plan) /\ (Pruning(N) => Pruning(L)) /\ (Rebuilding(N) => Rebuilding(L))
    BY <1>1, <1>2, <2>2, TodoPasses DEF Knows
  <2>5. \A d \in N.todo \ mixed : KnowsTodo(N, d, rows[d], index'[d])
    BY <1>1, <1>5, <1>8, <2>2, <2>4 DEF Knows, KnowsTodo
  <2>6. Touched(N) = Touched(L)
    BY <2>2, TouchedSame
  <2>7. Within(N, minted)
    BY <1>1, <2>2, <2>6 DEF Knows, Within
  <2>8. Knows(N, rows', index', mixed, minted)
    BY <1>1, <2>3, <2>4, <2>5, <2>7 DEF Knows
  <2>9. L = thread[t]
    BY DEF L
  <2> QED BY <1>1, <1>3, <1>4, <1>6, <2>1, <2>6, <2>8, <2>9, StepKeeps
<1> QED BY <1>1, <1>7, <1>8

\* Dropping the source leaves its documents where they are.
LEMMA DropKeeps ==
  ASSUME TypeInv, IndexInv, NEW t \in Threads, DeleteSourceRow(t)
  PROVE  IndexInv'
<1> DEFINE L == thread[t]
           N == After(L)
<1>1. /\ At(t, "drop_source") /\ index' = index /\ mixed' = mixed /\ minted' = minted /\ LocalsOK
      /\ Knows(L, rows, index, mixed, minted) /\ rows \in [Docs -> RowType]
  BY DEF DeleteSourceRow, history, TypeInv, DataOK, IndexInv
<1>2. Working(t, L) /\ Head(L.plan) = "drop_source" /\ L.op = "drop"
  <2>1. Working(t, L) /\ Head(L.plan) = "drop_source"
    BY <1>1, Works
  <2> QED BY <2>1 DEF Working, Makes, Syncs
<1>3. Touched(L) = Files
  BY <1>2, TouchedAre
<1>4. CASE Fail(t) /\ rows' = rows
  BY <1>1, <1>4, FailQuiet
<1>5. CASE Proceed(t) /\ rows' = [d \in Docs |-> [rows[d] EXCEPT !.linked = FALSE]]
  <2>1. /\ \A d \in ManualDocs : ~rows[d].linked
        /\ \A d \in Docs \ mixed : DocFine(d, rows[d], index[d], minted)
    BY DEF IndexInv, DocsFine
  <2>2. \A d \in Docs : /\ rows'[d].text = rows[d].text /\ rows'[d].chunks = rows[d].chunks
                        /\ ~rows'[d].linked
                        /\ ~rows[d].linked => rows'[d] = rows[d]
    BY <1>1, <1>5 DEF RowType
  <2>3. \A d \in Docs \ mixed : DocFine(d, rows'[d], index'[d], minted)
    BY <1>1, <2>1, <2>2 DEF DocFine, Covered
  <2>4. Goes(t, N)
    BY <1>1, <1>5, ProceedsAt
  <2>5. /\ N.plan = Tail(L.plan) /\ N.op = L.op /\ N.doc = L.doc /\ N.todo = L.todo
        /\ N.snap = L.snap /\ PlanOK(L.op, L.plan) /\ L.plan # << >> /\ L.plan \in Seq(Calls)
        /\ PlanOK(L.op, Tail(L.plan))
    BY <1>2, AfterFields, TailPlan DEF Working
  <2> HIDE DEF L, N
  <2>6. \A R, I : KnowsDoc(N, R, I)
    BY <1>2, <2>5, QuietNext DEF Leads
  <2>7. Ordered(N.plan) /\ ~Among("each_pruned", N.plan)
    BY <1>1, <1>2, <2>5, OrderedTail DEF Knows, Bars
  <2>8. ~Among("each_stored", N.plan)
    BY <1>2, <2>5 DEF PlanOK, Chained, Among, Makes, Syncs
  <2>9. Touched(N) = Touched(L)
    BY <2>5, TouchedSame
  <2>10. Within(N, minted)
    BY <1>1, <2>5, <2>9 DEF Knows, Within
  <2>11. Knows(N, rows', index', mixed, minted)
    BY <2>6, <2>7, <2>8, <2>10 DEF Knows, KnowsTodo, Pruning, Rebuilding
  <2>12. /\ \A d \in Docs \ Touched(L) : rows'[d] = rows[d] /\ index'[d] = index[d]
         /\ \A d \in ManualDocs : ~rows'[d].linked
    <3>1. \A d \in Docs \ Files : d \in ManualDocs
      BY DEF Docs
    <3> QED BY <1>1, <1>3, <2>1, <2>2, <3>1, RowTypes
  <2>13. L = thread[t]
    BY DEF L
  <2> QED BY <1>1, <2>3, <2>4, <2>9, <2>11, <2>12, <2>13, StepKeeps
<1> QED BY <1>4, <1>5 DEF DeleteSourceRow


\* A call that only lists the documents.
LEMMA ListKeeps ==
  ASSUME TypeInv, IndexInv, NEW t \in Threads, List(t)
  PROVE  IndexInv'
<1> DEFINE L == thread[t]
<1>1. /\ LocalsOK /\ Knows(L, rows, index, mixed, minted) /\ At(t, "list")
      /\ rows' = rows /\ index' = index /\ mixed' = mixed /\ minted' = minted
  BY DEF TypeInv, IndexInv, List, database, history
<1>2. Working(t, L) /\ Head(L.plan) = "list" /\ PlanOK(L.op, L.plan) /\ L.plan # << >>
  BY <1>1, Works DEF Working
<1>3. PICK N : /\ Goes(t, N)
               /\ Turns(L, N, Tail(L.plan), Cardinality(StoredDocs), L.doc, L.text,
                        L.todo, L.seen, L.snap)
  BY <1>1, ListTurns
<1>4. N.plan = Tail(L.plan) /\ N.op = L.op /\ N.doc = L.doc /\ N.todo = L.todo /\ N.snap = L.snap
  BY <1>3 DEF Turns
<1> HIDE DEF L
<1>5. \A R, I : KnowsDoc(N, R, I)
  BY <1>2, <1>4, QuietNext DEF Leads
<1>6. Knows(N, rows, index, mixed, minted) /\ Touched(N) = Touched(L)
  <2>1. L.doc \in Docs \ mixed => KnowsDoc(N, rows[L.doc], index[L.doc])
    BY <1>5
  <2>2. Head(L.plan) \notin {"each_file", "each_pruned", "snapshot", "wipe"}
    BY <1>2
  <2>3. Working(t, L) /\ Knows(L, rows, index, mixed, minted)
    BY <1>1, <1>2
  <2> QED BY <1>4, <2>1, <2>2, <2>3, PassKnows
<1>7. L = thread[t]
  BY DEF L
<1> QED BY <1>1, <1>3, <1>6, <1>7, QuietKeeps

\* Calls that write neither rows nor the index.
LEMMA OthersKeep ==
  ASSUME TypeInv, IndexInv, NEW t \in Threads,
         \/ Mark(t) \/ Result(t) \/ Count(t) \/ MarkSource(t) \/ SourceResult(t)
         \/ Chunk(t) \/ Resolve(t) \/ FinishRun(t)
  PROVE  IndexInv'
<1>1. rows' = rows /\ index' = index /\ mixed' = mixed /\ minted' = minted
  BY DEF Mark, Result, Count, MarkSource, SourceResult, Chunk, Resolve, FinishRun, database, history
<1>2. \/ Escape(t)
      \/ \E call \in {"mark", "result", "count", "mark_source", "source_result", "chunk",
                      "resolve", "finish"} : At(t, call) /\ Proceed(t)
  BY DEF Mark, Result, Count, MarkSource, SourceResult, Chunk, Resolve, FinishRun
<1>3. CASE Escape(t)
  BY <1>1, <1>3, EscapeKeeps
<1>4. CASE \E call \in {"mark", "result", "count", "mark_source", "source_result", "chunk",
                        "resolve", "finish"} : At(t, call) /\ Proceed(t)
  <2>1. PICK call \in {"mark", "result", "count", "mark_source", "source_result", "chunk",
                       "resolve", "finish"} : At(t, call) /\ Proceed(t)
    BY <1>4
  <2>2. /\ call \notin {"each_file", "each_pruned", "snapshot", "wipe"}
        /\ call \in {"mark", "chunk"} \/ call \notin Leads
    BY DEF Leads
  <2> QED BY <1>1, <2>1, <2>2, ProceedKeeps
<1> QED BY <1>2, <1>3, <1>4

\* Every step of a thread at work.
LEMMA WorkKeeps ==
  ASSUME TypeInv, IndexInv, NEW t \in Threads, Work(t)
  PROVE  IndexInv'
<1>1. CASE \/ Mark(t) \/ Result(t) \/ Count(t) \/ MarkSource(t) \/ SourceResult(t)
           \/ Chunk(t) \/ Resolve(t) \/ FinishRun(t)
  BY <1>1, OthersKeep
<1>2. CASE Insert(t) \/ UpdateRow(t) \/ Remove(t) \/ Recount(t)
  BY <1>2, InsertKeeps, UpdateRowKeeps, RemoveKeeps, RecountKeeps
<1>3. CASE DeleteSourceRow(t) \/ Unindex(t) \/ Upsert(t) \/ Wipe(t)
  BY <1>3, DropKeeps, UnindexKeeps, UpsertKeeps, WipeKeeps
<1>4. CASE Scan(t) \/ EachFile(t) \/ Prune(t) \/ EachPruned(t)
  BY <1>4, ScanKeeps, EachFileKeeps, PruneKeeps, EachPrunedKeeps
<1>5. CASE Reconcile(t) \/ Snapshot(t) \/ EachStored(t) \/ List(t)
  BY <1>5, ReconcileKeeps, SnapshotKeeps, EachStoredKeeps, ListKeeps
<1> QED BY <1>1, <1>2, <1>3, <1>4, <1>5 DEF Work

\* An operation that starts knows what it has read, and what it shares with
\* others counts as mixed from now on.
LEMMA StartKeeps ==
  ASSUME TypeInv, IndexInv, NEW t \in Threads, NEW N, Start(t, N), Goes(t, N), Done(N) = N,
         rows' = rows, index' = index, minted \subseteq minted',
         Knows(N, rows, index, mixed', minted')
  PROVE  IndexInv'
<1>1. /\ Apart(thread, mixed) /\ DocsFine(rows, index, mixed, minted)
      /\ \A u \in Threads : Knows(thread[u], rows, index, mixed, minted)
  BY DEF IndexInv
<1>2. thread'[t] = N /\ \A u \in Threads \ {t} : thread'[u] = thread[u]
  BY DEF Goes
<1> DEFINE others == {u \in Threads \ {t} : ~Idle(u)}
<1>3. mixed' = mixed \cup (Touched(N) \cap UNION {Touched(thread[u]) : u \in others})
  BY DEF Start
<1>4. mixed \subseteq mixed'
  BY <1>3
<1>5. \A u \in Threads \ {t} : Touched(N) \cap Touched(thread[u]) \subseteq mixed'
  <2> SUFFICES ASSUME NEW u \in Threads \ {t}
               PROVE  Touched(N) \cap Touched(thread[u]) \subseteq mixed'
    OBVIOUS
  <2>1. CASE Idle(u)
    <3>1. thread[u] = Idling
      BY <2>1 DEF Idle, TypeInv, LocalsOK, LocalOK
    <3> QED BY <3>1, IdleKnows
  <2>2. CASE ~Idle(u)
    BY <1>3, <2>2
  <2> QED BY <2>1, <2>2
<1>6. Apart(thread', mixed')
  BY <1>1, <1>2, <1>4, <1>5 DEF Apart
<1>7. DocsFine(rows', index', mixed', minted')
  BY <1>1, <1>4 DEF DocsFine, DocFine
<1>8. \A u \in Threads \ {t} : Knows(thread[u], rows', index', mixed', minted')
  <2> SUFFICES ASSUME NEW u \in Threads \ {t}
               PROVE  Knows(thread[u], rows, index, mixed', minted')
    OBVIOUS
  <2> DEFINE K == thread[u]
  <2>1. Knows(K, rows, index, mixed, minted)
    BY <1>1
  <2> HIDE DEF K
  <2>2. Within(K, minted')
    BY <2>1 DEF Knows, Within
  <2>3. Knows(K, rows, index, mixed', minted')
    BY <1>4, <2>1, <2>2 DEF Knows
  <2> QED BY <2>3 DEF K
<1>9. \A u \in Threads : Knows(thread'[u], rows', index', mixed', minted')
  BY <1>2, <1>8
<1> QED BY <1>6, <1>7, <1>9 DEF IndexInv

\* What an operation knows when it opens.
LEMMA OpensKnows ==
  ASSUME NEW N, NEW op \in DOMAIN Program, NEW result, NEW doc, NEW text, NEW todo, NEW snap, NEW run,
         Opens(N, op, result, doc, text, todo, snap, run), NEW rs, NEW ix, NEW mx, NEW m,
         op \notin {"create", "update", "delete"} => doc = None,
         op # "drop" => todo = {}, todo \subseteq Files,
         op = "create" => doc \in m,
         doc \in Docs \ mx => /\ op \in {"update", "delete"} => rs[doc] = snap[doc] /\ rs[doc].text # None
                              /\ op = "create" => rs[doc].text = None /\ Blank(ix[doc]),
         \A d \in todo : rs[d] = snap[d] /\ rs[d].text # None
  PROVE  Knows(N, rs, ix, mx, m)
<1>1. /\ N.op = op /\ N.plan = Program[op] /\ N.doc = doc /\ N.todo = todo /\ N.snap = snap
  BY DEF Opens
<1>2. /\ PlanOK(op, Program[op]) /\ Program[op] # << >>
      /\ Head(Program[op]) \in {"result", "resolve", "mark"}
  BY Programs
<1>3. Ordered(N.plan)
  BY <1>1, OrderedPrograms
<1>4. Within(N, m)
  <2>1. /\ op \in {"create", "update", "delete"} => Touched(N) = {doc}
        /\ op = "drop" => Touched(N) = Files
    BY <1>1, TouchedAre
  <2> QED BY <1>1, <2>1 DEF Within
<1>5. doc \in Docs \ mx => KnowsDoc(N, rs[doc], ix[doc])
  BY <1>1, <1>2 DEF KnowsDoc, Is
<1>6. \A d \in todo \ mx : KnowsTodo(N, d, rs[d], ix[d])
  <2> SUFFICES ASSUME NEW d \in todo \ mx PROVE KnowsTodo(N, d, rs[d], ix[d])
    OBVIOUS
  <2>1. op = "drop"
    OBVIOUS
  <2>2. ~Among("each_stored", N.plan)
    BY <1>1, <1>2, <2>1 DEF PlanOK, Chained, Among, Makes, Syncs
  <2> QED BY <1>1, <2>2 DEF KnowsTodo, Rebuilding
<1> QED BY <1>1, <1>3, <1>4, <1>5, <1>6 DEF Knows


\* Requests.
LEMMA RequestKeeps ==
  ASSUME TypeInv, IndexInv, NEW t \in Handlers, Request(t)
  PROVE  IndexInv'
<1>1. t \in Threads /\ \A x \in room.texts : x \in Texts
  BY RoomTypes DEF Threads
<1>2. DocsFine(rows, index, mixed, minted) /\ \A d \in ManualDocs : d \in Docs
  BY RowTypes DEF IndexInv
<1>3. "create" \in DOMAIN Program /\ "update" \in DOMAIN Program /\ "delete" \in DOMAIN Program
      /\ "drop" \in DOMAIN Program /\ "edit" \in DOMAIN Program
      /\ "request_sync" \in DOMAIN Program /\ "request_resync" \in DOMAIN Program
  BY OpsAre
<1>4. ASSUME NEW d \in ManualDocs, NEW x \in Texts, Create(t, d, x)
      PROVE  IndexInv'
  <2>1. PICK N : /\ Goes(t, N) /\ Done(N) = N /\ Start(t, N)
                 /\ Opens(N, "create", "ready", d, x, {}, NoRows, NoRun)
    BY <1>1, <1>4, CreateOpens
  <2>2. /\ rows' = rows /\ index' = index /\ d \notin minted /\ minted' = minted \cup {d}
        /\ mixed \subseteq mixed'
    BY <1>4, <2>1 DEF Create, Start
  <2>3. d \in Docs \ mixed' => rows[d].text = None /\ Blank(index[d])
    BY <1>2, <2>2 DEF DocsFine, DocFine
  <2>4. Knows(N, rows, index, mixed', minted')
    BY <1>3, <2>1, <2>2, <2>3, OpensKnows
  <2> QED BY <1>1, <2>1, <2>2, <2>4, StartKeeps
<1>5. ASSUME NEW d \in ManualDocs, NEW x \in Texts, Update(t, d, x)
      PROVE  IndexInv'
  <2> DEFINE snap == [NoRows EXCEPT ![d] = rows[d]]
  <2>1. PICK N : /\ Goes(t, N) /\ Done(N) = N /\ Start(t, N)
                 /\ Opens(N, "update", "ready", d, x, {}, snap, NoRun)
    BY <1>1, <1>5, UpdateOpens
  <2>2. rows' = rows /\ index' = index /\ minted' = minted /\ rows[d].text # None
    BY <1>5 DEF Update, Stored, database
  <2>3. snap[d] = rows[d]
    BY <1>2 DEF NoRows
  <2> HIDE DEF snap
  <2>4. Knows(N, rows, index, mixed', minted')
    BY <1>3, <2>1, <2>2, <2>3, OpensKnows
  <2> QED BY <1>1, <2>1, <2>2, <2>4, StartKeeps
<1>6. ASSUME NEW d \in ManualDocs, Delete(t, d)
      PROVE  IndexInv'
  <2> DEFINE snap == [NoRows EXCEPT ![d] = rows[d]]
  <2>1. PICK N : /\ Goes(t, N) /\ Done(N) = N /\ Start(t, N)
                 /\ Opens(N, "delete", "ready", d, None, {}, snap, NoRun)
    BY <1>1, <1>6, DeleteOpens
  <2>2. rows' = rows /\ index' = index /\ minted' = minted /\ rows[d].text # None
    BY <1>6 DEF Delete, Stored, database
  <2>3. snap[d] = rows[d]
    BY <1>2 DEF NoRows
  <2> HIDE DEF snap
  <2>4. Knows(N, rows, index, mixed', minted')
    BY <1>3, <2>1, <2>2, <2>3, OpensKnows
  <2> QED BY <1>1, <2>1, <2>2, <2>4, StartKeeps
<1>7. ASSUME DropSource(t)
      PROVE  IndexInv'
  <2>1. PICK N : /\ Goes(t, N) /\ Done(N) = N /\ Start(t, N)
                 /\ Opens(N, "drop", "ready", None, None, Linked, rows, NoRun)
    BY <1>1, <1>7, DropOpens
  <2>2. rows' = rows /\ index' = index /\ minted' = minted
    BY <1>7 DEF DropSource, database
  <2>3. \A d \in Linked : rows[d].text # None
    BY DEF Linked, Stored
  <2>4. None \notin Docs /\ Linked \subseteq Files
    BY KnowledgeAssumption, SourceFiles
  <2>5. Knows(N, rows, index, mixed', minted')
    BY <1>3, <2>1, <2>2, <2>3, <2>4, OpensKnows
  <2> QED BY <1>1, <2>1, <2>2, <2>5, StartKeeps
<1>8. ASSUME EditKnowledgeBase(t) \/ RequestSync(t) \/ RequestResync(t)
      PROVE  IndexInv'
  <2>1. PICK op \in {"edit", "request_sync", "request_resync"} : \E N, result :
          /\ Goes(t, N) /\ Done(N) = N /\ Start(t, N)
          /\ Opens(N, op, result, None, None, {}, NoRows, NoRun)
    BY <1>1, <1>8, EditOpens, SubmitOpens DEF RequestSync, RequestResync
  <2>2. PICK N, result :
          /\ Goes(t, N) /\ Done(N) = N /\ Start(t, N)
          /\ Opens(N, op, result, None, None, {}, NoRows, NoRun)
    BY <2>1
  <2>3. rows' = rows /\ index' = index /\ minted' = minted
    BY <1>8 DEF EditKnowledgeBase, RequestSync, RequestResync, database
  <2>4. None \notin Docs /\ op \in DOMAIN Program /\ op \notin {"create", "update", "delete", "drop"}
    BY <1>3, KnowledgeAssumption
  <2>5. Knows(N, rows, index, mixed', minted')
    BY <2>3, <2>4, <2>2, OpensKnows
  <2> QED BY <1>1, <2>3, <2>5, <2>2, StartKeeps
<1>9. \/ \E d \in ManualDocs, x \in Texts : Create(t, d, x) \/ Update(t, d, x)
      \/ \E d \in ManualDocs : Delete(t, d)
      \/ DropSource(t) \/ EditKnowledgeBase(t) \/ RequestSync(t) \/ RequestResync(t)
  BY <1>1 DEF Request
<1> QED BY <1>4, <1>5, <1>6, <1>7, <1>8, <1>9

\* A worker that claims a run.
LEMMA ClaimKeeps ==
  ASSUME TypeInv, IndexInv, NEW w \in Workers, Claim(w)
  PROVE  IndexInv'
<1>1. w \in Threads
  BY DEF Threads
<1>2. PICK r \in Runs : \E N :
        /\ runs[r].op \in Syncs /\ Goes(w, N) /\ Done(N) = N /\ Start(w, N)
        /\ Opens(N, runs[r].op, "ready", None, None, {}, NoRows, r)
  BY <1>1, ClaimOpens
<1>3. PICK N : /\ Goes(w, N) /\ Done(N) = N /\ Start(w, N)
               /\ Opens(N, runs[r].op, "ready", None, None, {}, NoRows, r)
  BY <1>2
<1>4. rows' = rows /\ index' = index /\ minted' = minted
  BY DEF Claim
<1> DEFINE op == runs[r].op
<1>5. None \notin Docs /\ op \in DOMAIN Program /\ op \notin {"create", "update", "delete", "drop"}
  BY <1>2, KnowledgeAssumption, OpsAre DEF Syncs
<1>6. Opens(N, op, "ready", None, None, {}, NoRows, r)
  BY <1>3
<1> HIDE DEF op
<1>7. Knows(N, rows, index, mixed', minted')
  BY <1>5, <1>6, OpensKnows
<1> QED BY <1>1, <1>3, <1>4, <1>7, StartKeeps

\* After a crash all threads are idle.
LEMMA CrashKeeps ==
  ASSUME IndexInv, CrashAndRestart
  PROVE  IndexInv'
<1>1. /\ \A t \in Threads : thread'[t] = Idling
      /\ rows' = rows /\ index' = index /\ mixed' = mixed /\ minted' = minted
  BY DEF CrashAndRestart
<1>2. DocsFine(rows', index', mixed', minted')
  BY <1>1 DEF IndexInv
<1>3. Apart(thread', mixed')
  BY <1>1, IdleKnows DEF Apart
<1>4. \A t \in Threads : Knows(thread'[t], rows', index', mixed', minted')
  BY <1>1, IdleKnows
<1> QED BY <1>2, <1>3, <1>4 DEF IndexInv

\* The knowledge base is empty to begin with.
LEMMA IndexStarts ==
  ASSUME Init
  PROVE  IndexInv
<1>1. \A t \in Threads : thread[t] = Idling
  BY DEF Init
<1>2. Apart(thread, mixed)
  BY <1>1, IdleKnows DEF Apart
<1>3. \A t \in Threads : Knows(thread[t], rows, index, mixed, minted)
  BY <1>1, IdleKnows
<1>4. \A d \in Docs : rows[d] = Absent /\ Blank(index[d])
  BY DEF Init, NoRows, EmptyIndex, Blank
<1>5. DocsFine(rows, index, mixed, minted)
  BY <1>4, RowTypes DEF DocsFine, DocFine, Absent
<1> QED BY <1>2, <1>3, <1>5 DEF IndexInv

\* The invariant holds.
LEMMA IndexHolds == Spec => []IndexInv
<1>1. Init => IndexInv
  BY IndexStarts
<1>2. TypeInv /\ IndexInv /\ [Next]_vars => IndexInv'
  <2> SUFFICES ASSUME TypeInv, IndexInv, [Next]_vars
               PROVE  IndexInv'
    OBVIOUS
  <2>1. CASE \E h \in Handlers : Request(h)
    BY <2>1, RequestKeeps
  <2>2. CASE \E w \in room.workers : Claim(w)
    <3>1. room.workers \subseteq Workers
      BY RoomTypes
    <3> QED BY <2>2, <3>1, ClaimKeeps
  <2>3. CASE \E t \in Threads : Work(t)
    BY <2>3, WorkKeeps
  <2>4. CASE CrashAndRestart
    BY <2>4, CrashKeeps
  <2>5. CASE UpdateSource \/ FileChanges \/ UNCHANGED vars
    <3>1. UNCHANGED <<rows, index, thread, mixed, minted>>
      BY <2>5 DEF UpdateSource, FileChanges, vars, database, history
    <3> QED BY <3>1 DEF IndexInv
  <2> QED BY <2>1, <2>2, <2>3, <2>4, <2>5 DEF Next, Quiet
<1>3. Spec => []TypeInv
  BY TypesHold
<1> QED BY <1>1, <1>2, <1>3, PTL DEF Spec

\* In every reachable state the index holds no chunk of a document that the row
\* does not account for, and an operation about to remove a row has removed all
\* its chunks, whichever calls failed, however threads interleaved and whenever
\* the process crashed: as long as no two operations worked on the document at
\* once.
THEOREM ChunksStayAccounted == Spec => []NoStaleChunk
<1>1. TypeInv /\ IndexInv => ChunksHaveRows
  BY DEF IndexInv, DocsFine, DocFine, Covered, ChunksHaveRows, StoredDocs, Stored
<1>2. TypeInv /\ IndexInv => RemovalLeavesNoChunk
  <2> SUFFICES ASSUME TypeInv, IndexInv, NEW t \in Threads, At(t, "remove"),
                      thread[t].op # "create", thread[t].doc \notin mixed
               PROVE  Indexed(thread[t].doc, None)
    BY DEF RemovalLeavesNoChunk
  <2> DEFINE L == thread[t]
  <2>1. /\ Head(L.plan) = "remove" /\ L.plan # << >> /\ L.doc \in Docs
        /\ KnowsDoc(L, rows[L.doc], index[L.doc])
    BY DocAt DEF DocCalls
  <2>2. index[L.doc] \in [Ordinals -> Texts \cup {None}]
    BY <2>1 DEF TypeInv, DataOK
  <2> HIDE DEF L
  <2>3. Blank(index[L.doc])
    <3>1. L.op # "create"
      BY DEF L
    <3> QED BY <2>1, <3>1 DEF KnowsDoc, Is
  <2> QED BY <2>2, <2>3 DEF Indexed, Blank, L
<1>3. Spec => []TypeInv
  BY TypesHold
<1>4. Spec => []IndexInv
  BY IndexHolds
<1>5. Spec => []TypeOK
  BY TypeCorrect
<1> QED BY <1>1, <1>2, <1>3, <1>4, <1>5, PTL DEF NoStaleChunk


-----------------------------------------------------------------------------
(* What success means.                                                     *)

Mirrored(f) == rows[f] = Row(files[f], TRUE)
MirrorsAll == Linked = Present /\ \A f \in Linked : Mirrored(f)
TextsAreFiles ==
  source.exists /\ source.active => \A f \in Linked : rows[f].text = files[f]
Rebuilt(d) == Indexed(d, rows[d].text)

\* The document that a loop is at, until the call that settles it is made.
InHand(L, calls) == IF Is(L, calls) THEN {L.doc} ELSE {}

\* A resync that has yet to take its snapshot, and one that has.
Early(L) == L.op = "resync" => Among("snapshot", L.plan)
Late(L) ==
  L.op = "resync" /\ \A c \in Calls : Among(c, L.plan) => c \in Rebuilds \cup {"recount", "upsert"}

\* The files that the scan found and that are not left to do have documents.
Scanning(L) ==
  LET hand == InHand(L, {"insert", "unindex", "update"})
  IN  /\ L.seen = Present /\ L.todo \subseteq Present
      /\ \A f \in (Present \ L.todo) \ hand : Mirrored(f)
      /\ hand # {} => L.doc \in Present /\ L.text = files[L.doc]

\* The documents without a file are left to do.
PrunesRest(L) ==
  LET left == L.todo \cup InHand(L, {"unindex", "remove"})
  IN  /\ \A f \in Present : Mirrored(f)
      /\ Linked \ Present \subseteq left /\ left \cap Present = {}

\* The documents that are not left to do have the chunks of their texts.
Refills(L) ==
  LET hand == InHand(L, {"recount", "upsert"})
  IN  /\ TextsAreFiles
      /\ \A d \in L.todo : rows[d] = L.snap[d] /\ Stored(d)
      /\ IF Is(L, {"wipe"}) THEN L.todo = StoredDocs
         ELSE /\ \A d \in L.todo : Blank(index[d])
              /\ \A d \in (Docs \ L.todo) \ hand : Rebuilt(d)
      /\ hand # {} => L.text = rows[L.doc].text
      /\ Is(L, {"recount"}) => Blank(index[L.doc])
      /\ Is(L, {"upsert"}) =>
           index[L.doc] = [c \in Ordinals |-> IF c < L.n THEN L.text ELSE None]

\* Where a sync or resync is, and what it has done by then.
Stage(L) ==
  \/ Early(L) /\ Is(L, {"resolve", "mark", "reconcile", "mark_source", "scan"})
  \/ /\ Early(L) /\ Is(L, {"each_file", "insert", "unindex", "update", "upsert"})
     /\ Among("each_file", L.plan) /\ Scanning(L)
  \/ /\ Early(L) /\ Is(L, {"prune"})
     /\ L.seen = Present /\ \A f \in Present : Mirrored(f)
  \/ /\ Early(L) /\ Is(L, {"each_pruned", "unindex", "remove"})
     /\ Pruning(L) /\ PrunesRest(L)
  \/ Early(L) /\ Is(L, {"list", "count"}) /\ MirrorsAll
  \/ L.op = "sync" /\ Is(L, {"finish"}) /\ MirrorsAll
  \/ L.op = "sync" /\ Is(L, {"source_result", "result"})
  \/ L.op = "resync" /\ Early(L) /\ Is(L, {"source_result"}) /\ MirrorsAll
  \/ L.op = "resync" /\ Is(L, {"snapshot"}) /\ TextsAreFiles
  \/ Late(L) /\ Is(L, {"wipe", "each_stored", "recount", "upsert"}) /\ Refills(L)
  \/ Late(L) /\ Is(L, {"list", "count", "result", "finish"}) /\ \A d \in Docs : Rebuilt(d)

Counted(L) ==
  /\ Is(L, {"count"}) => L.n = Cardinality(StoredDocs)
  /\ Is(L, {"result", "finish", "source_result"}) => kb.count = Cardinality(StoredDocs)

\* An operation that has not failed has done what it says.
Sure(L) ==
  L.result = "ready" /\ L.op # "edit" /\ L.plan # << >> =>
    Counted(L) /\ (L.op \in Syncs => Stage(L))

\* Of an operation that nothing has overlapped.
SuccessInv ==
  \A t \in alone : /\ \A u \in Threads \ {t} : Idle(u)
                   /\ \A L \in {thread[t]} : Sure(L)


\* A plan with a call in it is not empty.
LEMMA AmongSome ==
  ASSUME NEW c, NEW s, Among(c, s)
  PROVE  s # << >>
BY AmongNothing

\* The calls about a file of the source.
LEMMA FileNext ==
  ASSUME NEW op \in Syncs, NEW s, PlanOK(op, s), Ordered(s), s # << >>, Among("each_file", s),
         Head(s) \in {"insert", "unindex", "update", "upsert"}
  PROVE  /\ Tail(s) # << >> /\ Among("each_file", Tail(s))
         /\ Head(Tail(s)) = IF Head(s) = "unindex" THEN "update"
                            ELSE IF Head(s) = "upsert" THEN "each_file" ELSE "upsert"
<1> DEFINE q == Tail(s)
           r == Tail(q)
<1>1. /\ PlanOK(op, q) /\ Among("each_file", q) /\ Ordered(q) /\ s \in Seq(Calls)
  BY TailPlan, OrderedTail DEF PlanOK
<1>2. q # << >>
  BY <1>1, AmongNothing
<1>3. /\ Follows(op, Head(s), Head(q)) /\ PlanOK(op, r) /\ q \in Seq(Calls)
      /\ \A c : Among(c, q) <=> c = Head(q) \/ Among(c, r)
      /\ \A c : Among(c, r) => ~Bars(Head(q), c)
  BY <1>1, <1>2, TailPlan, OrderedTail DEF PlanOK
<1>4. Head(q) # "each_stored"
  BY <1>1, <1>3 DEF Bars
<1>5. Head(q) # "remove"
  <2>0. SUFFICES ASSUME Head(q) = "remove" PROVE FALSE
    OBVIOUS
  <2>1. Among("each_file", r)
    BY <1>1, <1>3, <2>0
  <2>7. r # << >>
    BY <2>1, AmongSome
  <2>2. Follows(op, "remove", Head(r)) /\ Ordered(r) /\ r \in Seq(Calls)
    BY <1>1, <1>2, <1>3, <2>0, <2>7, TailPlan, OrderedTail DEF PlanOK
  <2>3. Head(r) = "each_pruned"
    BY <2>2 DEF Follows, Syncs
  <2>4. Among("each_file", Tail(r))
    BY <2>1, <2>2, <2>3, <2>7, OrderedTail
  <2> QED BY <2>2, <2>3, <2>4, <2>7, OrderedTail DEF Bars
<1>6. op \notin {"create", "update", "delete", "drop"}
  BY DEF Syncs
<1>7. Head(q) = IF Head(s) = "unindex" THEN "update"
                ELSE IF Head(s) = "upsert" THEN "each_file" ELSE "upsert"
  BY <1>3, <1>4, <1>5, <1>6 DEF Follows
<1> QED BY <1>1, <1>2, <1>7

\* The calls about a document to prune.
LEMMA PruneNext ==
  ASSUME NEW op \in Syncs, NEW s, PlanOK(op, s), Ordered(s), s # << >>, Among("each_pruned", s),
         ~Among("each_file", s), Head(s) \in {"unindex", "remove"}
  PROVE  /\ Tail(s) # << >> /\ Among("each_pruned", Tail(s)) /\ ~Among("each_file", Tail(s))
         /\ Head(Tail(s)) = IF Head(s) = "unindex" THEN "remove" ELSE "each_pruned"
<1> DEFINE q == Tail(s)
           r == Tail(q)
           u == Tail(r)
<1>1. /\ PlanOK(op, q) /\ Among("each_pruned", q) /\ ~Among("each_file", q) /\ Ordered(q)
      /\ s \in Seq(Calls)
  BY TailPlan, OrderedTail DEF PlanOK
<1>2. q # << >>
  BY <1>1, AmongNothing
<1>3. /\ Follows(op, Head(s), Head(q)) /\ PlanOK(op, r) /\ q \in Seq(Calls) /\ Ordered(r)
      /\ \A c : Among(c, q) <=> c = Head(q) \/ Among(c, r)
  BY <1>1, <1>2, TailPlan, OrderedTail DEF PlanOK
<1>4. Head(q) # "update"
  <2>0. SUFFICES ASSUME Head(q) = "update" PROVE FALSE
    OBVIOUS
  <2>1. Among("each_pruned", r)
    BY <1>1, <1>3, <2>0
  <2>8. r # << >>
    BY <2>1, AmongSome
  <2>2. /\ Follows(op, "update", Head(r)) /\ PlanOK(op, u) /\ r \in Seq(Calls) /\ Ordered(u)
        /\ \A c : Among(c, r) <=> c = Head(r) \/ Among(c, u)
    <3>0. r \in Seq(Calls)
      BY <1>3 DEF PlanOK
    <3>4. Follows(op, Head(q), Head(r))
      BY <1>1, <1>2, <2>8, TailPlan
    <3>1. Follows(op, "update", Head(r)) /\ r \in Seq(Calls)
      BY <2>0, <3>0, <3>4
    <3>2. PlanOK(op, u) /\ \A c : Among(c, r) <=> c = Head(r) \/ Among(c, u)
      BY <1>3, <2>8, TailPlan
    <3>3. Ordered(u)
      BY <1>3, <2>8, <3>1, OrderedTail
    <3> QED BY <3>1, <3>2, <3>3
  <2>3. Head(r) = "upsert"
    BY <2>2 DEF Follows
  <2>4. Among("each_pruned", u)
    BY <2>1, <2>2, <2>3
  <2>9. u # << >>
    BY <2>4, AmongSome
  <2>5. /\ Follows(op, "upsert", Head(u)) /\ u \in Seq(Calls)
        /\ \A c : Among(c, u) <=> c = Head(u) \/ Among(c, Tail(u))
        /\ \A c : Among(c, Tail(u)) => ~Bars(Head(u), c)
    <3>1. u \in Seq(Calls)
      BY <2>2 DEF PlanOK
    <3>2. \A c : Among(c, u) <=> c = Head(u) \/ Among(c, Tail(u))
      BY <2>2, <2>9, TailPlan
    <3>5. Follows(op, Head(r), Head(u))
      BY <1>3, <2>8, <2>9, TailPlan
    <3>3. Follows(op, "upsert", Head(u))
      BY <2>3, <3>5
    <3>4. \A c : Among(c, Tail(u)) => ~Bars(Head(u), c)
      BY <2>2, <2>9, <3>1, OrderedTail
    <3> QED BY <3>1, <3>2, <3>3, <3>4
  <2>6. Head(u) \in {"each_file", "each_stored"}
    BY <2>5 DEF Follows, Syncs
  <2>7. Head(u) # "each_file"
    BY <1>1, <1>3, <2>2, <2>5
  <2> QED BY <2>4, <2>5, <2>6, <2>7 DEF Bars
<1>5. Head(q) = IF Head(s) = "unindex" THEN "remove" ELSE "each_pruned"
  BY <1>3, <1>4 DEF Follows, Syncs
<1> QED BY <1>1, <1>2, <1>5

\* The calls of a resync between its sync and its snapshot.
LEMMA EarlyNext ==
  ASSUME NEW s, PlanOK("resync", s), s # << >>, Among("snapshot", s),
         Head(s) \in {"count", "source_result"}
  PROVE  Tail(s) # << >> /\ Head(Tail(s)) = IF Head(s) = "count" THEN "source_result" ELSE "snapshot"
<1> DEFINE q == Tail(s)
           r == Tail(q)
<1>0. PlanOK("resync", q) /\ Among("snapshot", q)
  BY TailPlan
<1>1. PlanOK("resync", q) /\ Among("snapshot", q) /\ q # << >>
  BY <1>0, AmongSome
<1>2. /\ Follows("resync", Head(s), Head(q)) /\ PlanOK("resync", r)
      /\ \A c : Among(c, q) <=> c = Head(q) \/ Among(c, r)
      /\ Head(q) = "finish" => Reporting(r)
  BY <1>1, TailPlan
<1>3. \A p : Reporting(p) => ~Among("snapshot", p)
  BY DEF Reporting, Reports, Among
<1>4. Head(q) # "finish"
  BY <1>1, <1>2, <1>3
<1>5. Head(q) # "result"
  <2>0. SUFFICES ASSUME Head(q) = "result" PROVE FALSE
    OBVIOUS
  <2>1. Among("snapshot", r)
    BY <1>1, <1>2, <2>0
  <2>4. r # << >>
    BY <2>1, AmongSome
  <2>2. /\ Follows("resync", "result", Head(r))
        /\ \A c : Among(c, r) <=> c = Head(r) \/ Among(c, Tail(r))
        /\ Head(r) = "finish" => Reporting(Tail(r))
    BY <1>1, <1>2, <2>0, <2>4, TailPlan
  <2>3. Head(r) = "finish"
    BY <2>2 DEF Follows
  <2> QED BY <1>3, <2>1, <2>2, <2>3
<1> QED BY <1>1, <1>2, <1>4, <1>5 DEF Follows


-----------------------------------------------------------------------------
(* What success means, step by step.                                       *)

\* L goes past its first call.
Passes(t, L, N) ==
  /\ Goes(t, N) /\ N.plan = Tail(L.plan) /\ N.n = 0
  /\ N.op = L.op /\ N.result = L.result /\ N.doc = L.doc /\ N.text = L.text
  /\ N.todo = L.todo /\ N.seen = L.seen /\ N.snap = L.snap

\* What a thread has done after its step is what it says.
StaysSure(t) == \E N : Goes(t, N) /\ Sure(N)'

\* A thread at a call.
LEMMA AtCall ==
  ASSUME TypeInv, IndexInv, NEW t \in Threads, NEW L, L = thread[t], NEW call, At(t, call)
  PROVE  /\ Working(t, L) /\ Head(L.plan) = call /\ L.plan # << >> /\ L.plan \in Seq(Calls)
         /\ PlanOK(L.op, L.plan) /\ Ordered(L.plan) /\ Args(L)
         /\ Proceed(t) => \E N : Passes(t, L, N)
<1>1. LocalsOK /\ Ordered(L.plan)
  BY DEF TypeInv, IndexInv, Knows
<1>2. Working(t, L) /\ Head(L.plan) = call
  BY <1>1, Works
<1>3. ASSUME Proceed(t) PROVE \E N : Passes(t, L, N)
  <2>1. Goes(t, After(L))
    BY <1>1, <1>3, ProceedsAt
  <2>2. L \in LocalType /\ L.plan # << >>
    BY <1>2 DEF Working
  <2>3. Passes(t, L, After(L))
    BY <2>1, <2>2, AfterFields DEF Passes
  <2> QED BY <2>3
<1> QED BY <1>1, <1>2, <1>3 DEF Working

\* What follows in its plan.
LEMMA NextCall ==
  ASSUME NEW L, NEW N, PlanOK(L.op, L.plan), L.plan # << >>, N.plan = Tail(L.plan), N.op = L.op
  PROVE  /\ N.plan # << >> => Follows(L.op, Head(L.plan), Head(N.plan))
         /\ Early(L) /\ Head(L.plan) # "snapshot" => Early(N)
         /\ Late(L) => Late(N)
         /\ L.op \in Syncs /\ Head(L.plan) \notin Reports \cup {"finish"} => N.plan # << >>
<1> DEFINE s == L.plan
<1>0. /\ Tail(s) # << >> => Follows(L.op, Head(s), Head(Tail(s)))
      /\ \A c : Among(c, s) <=> c = Head(s) \/ Among(c, Tail(s))
      /\ L.op \in Syncs /\ Head(s) \notin Reports \cup {"finish"} => Among("finish", Tail(s))
  <2> HIDE DEF s
  <2>1. PlanOK(L.op, s) /\ s # << >>
    BY DEF s
  <2> QED BY <2>1, TailPlan
<1>1. /\ N.plan # << >> => Follows(L.op, Head(L.plan), Head(N.plan))
      /\ \A c : Among(c, L.plan) <=> c = Head(L.plan) \/ Among(c, N.plan)
      /\ L.op \in Syncs /\ Head(L.plan) \notin Reports \cup {"finish"} => Among("finish", N.plan)
  BY <1>0
<1>2. Among("finish", N.plan) => N.plan # << >>
  BY AmongSome
<1>3. Early(L) /\ Head(L.plan) # "snapshot" => Early(N)
  BY <1>1 DEF Early
<1>4. Late(L) => Late(N)
  BY <1>1 DEF Late
<1> QED BY <1>1, <1>2, <1>3, <1>4

\* The counted number stays right past a call that does not change it.
LEMMA SurePass ==
  ASSUME NEW L, NEW N, PlanOK(L.op, L.plan), L.plan # << >>, Sure(L),
         N.plan = Tail(L.plan), N.op = L.op, N.result = L.result,
         Head(L.plan) \notin {"list", "count"},
         Head(L.plan) \in Reports \cup {"finish"} => kb'.count = kb.count /\ rows' = rows,
         L.result = "ready" /\ L.op \in Syncs /\ N.plan # << >> /\ Stage(L) => Stage(N)'
  PROVE  Sure(N)'
<1> SUFFICES ASSUME N.result = "ready", N.op # "edit", N.plan # << >>
             PROVE  Counted(N)' /\ (N.op \in Syncs => Stage(N)')
  BY DEF Sure
<1>1. Counted(L) /\ (L.op \in Syncs => Stage(L))
  BY DEF Sure
<1>2. Follows(L.op, Head(L.plan), Head(N.plan))
  BY NextCall
<1>3. Head(N.plan) # "count"
  BY <1>2 DEF Follows
<1>4. Head(N.plan) \in {"result", "finish", "source_result"}
        => Head(L.plan) \in Reports \cup {"finish"}
  BY <1>2 DEF Follows, Reports
<1>5. Head(L.plan) \in Reports \cup {"finish"} => kb.count = Cardinality(StoredDocs)
  BY <1>1 DEF Counted, Is, Reports
<1>6. Head(N.plan) \in {"result", "finish", "source_result"} => kb'.count = Cardinality(StoredDocs')
  BY <1>4, <1>5 DEF StoredDocs, Stored
<1>7. Counted(N)'
  BY <1>3, <1>6 DEF Counted, Is
<1> QED BY <1>1, <1>7

\* A call that puts calls in front, or is made again.
LEMMA SureTurn ==
  ASSUME NEW L, NEW N, L.plan # << >>, Sure(L), N.plan # << >>, N.op = L.op, N.result = L.result,
         Head(N.plan) \notin {"count", "result", "finish", "source_result"},
         L.result = "ready" /\ L.op \in Syncs /\ Stage(L) => Stage(N)'
  PROVE  Sure(N)'
<1>1. Counted(N)'
  BY DEF Counted, Is
<1> QED BY <1>1 DEF Sure

\* An exception reports an error.
LEMMA FailSure ==
  ASSUME TypeInv, NEW t \in Threads, NEW call, At(t, call), call \notin {"mark", "mark_source"},
         Fail(t)
  PROVE  StaysSure(t)
<1> DEFINE L == thread[t]
<1>1. LocalsOK
  BY DEF TypeInv
<1>2. Goes(t, Failed(L)) /\ L.op \notin {"request_sync", "request_resync"} /\ Working(t, L)
  BY <1>1, FailsAt, Works
<1>3. Failed(L).result = "error"
  BY <1>2, FailedFields DEF Working
<1>4. PICK N : Goes(t, N) /\ N.result = "error"
  BY <1>2, <1>3
<1>5. Sure(N)'
  BY <1>4 DEF Sure
<1> QED BY <1>4, <1>5 DEF StaysSure

\* An exception nobody catches reports nothing.
LEMMA EscapeSure ==
  ASSUME TypeInv, NEW t \in Threads, Escape(t)
  PROVE  StaysSure(t)
<1>1. PICK N : Goes(t, N) /\ N.plan = << >>
  BY Escapes, IdlingOK DEF TypeInv, Goes, Done
<1>2. Sure(N)'
  BY <1>1 DEF Sure
<1> QED BY <1>1, <1>2 DEF StaysSure

\* A mirror of the files has their texts.
LEMMA MirrorTexts ==
  ASSUME TypeInv
  PROVE  /\ \A f \in Present : Mirrored(f) => f \in Linked /\ rows[f].text = files[f]
         /\ \A f \in Present : files[f] \in Texts /\ f \in Files /\ f \in Docs
         /\ MirrorsAll => TextsAreFiles
<1>1. \A f \in Present : f \in Files /\ files[f] \in Texts /\ f \in Docs
  BY RowTypes DEF TypeInv, DataOK, Present
<1>2. \A f \in Present : Mirrored(f) => f \in Linked /\ rows[f].text = files[f]
  <2> SUFFICES ASSUME NEW f \in Present, Mirrored(f)
               PROVE  f \in Linked /\ rows[f].text = files[f]
    OBVIOUS
  <2>1. rows[f] = Row(files[f], TRUE) /\ f \in Files /\ files[f] \in Texts
    BY <1>1 DEF Mirrored
  <2>2. rows[f].text = files[f] /\ rows[f].linked /\ files[f] # None
    <3>1. files[f] # None
      BY <2>1, RowTypes
    <3>2. Row(files[f], TRUE).text = files[f] /\ Row(files[f], TRUE).linked = TRUE
      BY <2>1, RowTypes
    <3> QED BY <2>1, <3>1, <3>2
  <2> QED BY <2>1, <2>2 DEF Linked, Stored
<1>3. MirrorsAll => TextsAreFiles
  BY <1>2 DEF MirrorsAll, TextsAreFiles
<1> QED BY <1>1, <1>2, <1>3

\* Calls that write statuses.
LEMMA StatusSure ==
  ASSUME TypeInv, IndexInv, NEW t \in Threads, NEW L, L = thread[t], Sure(L),
         \/ Mark(t) \/ Result(t) \/ MarkSource(t) \/ SourceResult(t)
         \/ Chunk(t) \/ Resolve(t) \/ FinishRun(t)
  PROVE  StaysSure(t)
<1> DEFINE calls == {"mark", "result", "mark_source", "source_result", "chunk", "resolve", "finish"}
<1>1. rows' = rows /\ index' = index /\ files' = files
  BY DEF Mark, Result, MarkSource, SourceResult, Chunk, Resolve, FinishRun, database
<1>2. kb'.count = kb.count
  BY DEF Mark, Result, MarkSource, SourceResult, Chunk, Resolve, FinishRun, TypeInv, DataOK, KbType
<1>3. source'.exists = source.exists /\ source'.active = source.active
  BY DEF Mark, Result, MarkSource, SourceResult, Chunk, Resolve, FinishRun,
         TypeInv, DataOK, SourceType
<1>4. Escape(t) \/ \E call \in calls : At(t, call) /\ Proceed(t)
  BY DEF Mark, Result, MarkSource, SourceResult, Chunk, Resolve, FinishRun
<1>5. CASE Escape(t)
  BY <1>5, EscapeSure
<1>6. ASSUME NEW call \in calls, At(t, call), Proceed(t)
      PROVE  StaysSure(t)
  <2>1. /\ Head(L.plan) = call /\ L.plan # << >> /\ L.plan \in Seq(Calls)
        /\ PlanOK(L.op, L.plan) /\ Ordered(L.plan)
    BY <1>6, AtCall
  <2>2. PICK N : Passes(t, L, N)
    BY <1>6, AtCall
  <2>3. Goes(t, N) /\ N.plan = Tail(L.plan) /\ N.op = L.op /\ N.result = L.result
    BY <2>2 DEF Passes
  <2>4. /\ N.plan # << >> => Follows(L.op, call, Head(N.plan))
        /\ Early(L) => Early(N)
        /\ Late(L) => Late(N)
    BY <2>1, <2>3, NextCall
  <2>5. /\ MirrorsAll => MirrorsAll'
        /\ TextsAreFiles => TextsAreFiles'
        /\ (\A d \in Docs : Rebuilt(d)) => (\A d \in Docs : Rebuilt(d))'
    BY <1>1, <1>3 DEF MirrorsAll, Mirrored, Linked, Present, Stored, TextsAreFiles, Rebuilt, Indexed
  <2>6. MirrorsAll => TextsAreFiles
    BY MirrorTexts
  <2>7. ASSUME L.op \in Syncs, N.plan # << >>, Stage(L)
        PROVE  Stage(N)'
    <3>1. Follows(L.op, call, Head(N.plan))
      BY <2>4, <2>7
    <3>2. CASE call \in {"mark", "mark_source", "resolve"}
      <4>1. Early(L)
        BY <2>1, <2>7, <3>2 DEF Stage, Is
      <4>2. Head(N.plan) \in {"mark", "reconcile", "mark_source", "scan"}
        BY <2>7, <3>1, <3>2 DEF Follows, Syncs
      <4> QED BY <2>4, <2>7, <4>1, <4>2 DEF Stage, Is
    <3>3. CASE call = "chunk"
      BY <2>1, <2>7, <3>3 DEF Stage, Is
    <3>4. CASE call = "finish" /\ L.op = "sync"
      <4>1. Head(N.plan) = "source_result"
        BY <3>1, <3>4 DEF Follows
      <4> QED BY <2>3, <2>7, <3>4, <4>1 DEF Stage, Is
    <3>5. CASE call \in {"finish", "result"} /\ L.op = "resync"
      <4>1. Head(N.plan) \in {"result", "finish"}
        BY <3>1, <3>5 DEF Follows
      <4>2. Late(L) /\ \A d \in Docs : Rebuilt(d)
        BY <2>1, <2>7, <3>5 DEF Stage, Is
      <4>3. Late(N) /\ (\A d \in Docs : Rebuilt(d))'
        BY <2>4, <2>5, <4>2
      <4> QED BY <2>7, <4>1, <4>3 DEF Stage, Is
    <3>6. CASE call = "result" /\ L.op = "sync"
      BY <3>1, <3>6 DEF Follows
    <3>7. CASE call = "source_result" /\ L.op = "sync"
      <4>1. Head(N.plan) = "result"
        BY <3>1, <3>7 DEF Follows
      <4> QED BY <2>3, <2>7, <3>7, <4>1 DEF Stage, Is
    <3>8. CASE call = "source_result" /\ L.op = "resync"
      <4>1. Early(L) /\ MirrorsAll
        BY <2>1, <2>7, <3>8 DEF Stage, Is
      <4>2. Among("snapshot", L.plan)
        BY <3>8, <4>1 DEF Early
      <4>3. Head(Tail(L.plan)) = "snapshot"
        BY <2>1, <3>8, <4>2, EarlyNext
      <4>4. TextsAreFiles'
        BY <2>5, <2>6, <4>1
      <4> QED BY <2>3, <2>7, <3>8, <4>3, <4>4 DEF Stage, Is
    <3> QED BY <2>7, <3>2, <3>3, <3>4, <3>5, <3>6, <3>7, <3>8 DEF Syncs
  <2>8. Sure(N)'
    <3>1. call \notin {"list", "count"}
      OBVIOUS
    <3> QED BY <1>1, <1>2, <2>1, <2>3, <2>7, <3>1, SurePass
  <2> QED BY <2>3, <2>8 DEF StaysSure
<1> QED BY <1>4, <1>5, <1>6

\* The number of documents.
LEMMA CountSure ==
  ASSUME TypeInv, IndexInv, NEW t \in Threads, NEW L, L = thread[t], Sure(L), List(t) \/ Count(t)
  PROVE  StaysSure(t)
<1>1. rows' = rows /\ index' = index /\ files' = files /\ source' = source
  BY DEF List, Count, database
<1>2. MirrorsAll => MirrorsAll'
  BY <1>1 DEF MirrorsAll, Mirrored, Linked, Present, Stored
<1>3. (\A d \in Docs : Rebuilt(d)) => (\A d \in Docs : Rebuilt(d))'
  BY <1>1 DEF Rebuilt, Indexed
<1>4. CASE List(t)
  <2>1. At(t, "list")
    BY <1>4 DEF List
  <2>2. Head(L.plan) = "list" /\ L.plan # << >> /\ PlanOK(L.op, L.plan)
    BY <2>1, AtCall
  <2>3. PICK N : /\ Goes(t, N)
                 /\ Turns(L, N, Tail(L.plan), Cardinality(StoredDocs), L.doc, L.text,
                          L.todo, L.seen, L.snap)
    BY <1>4, ListTurns DEF TypeInv
  <2>4. /\ N.plan = Tail(L.plan) /\ N.op = L.op /\ N.result = L.result
        /\ N.n = Cardinality(StoredDocs)
    BY <2>3 DEF Turns
  <2>5. /\ N.plan # << >> => Head(N.plan) = "count"
        /\ Early(L) => Early(N)
        /\ Late(L) => Late(N)
    BY <2>2, <2>4, NextCall DEF Follows
  <2>6. ASSUME N.plan # << >> PROVE Counted(N)'
    <3>1. N.n = Cardinality(StoredDocs')
      BY <1>1, <2>4 DEF StoredDocs, Stored
    <3> QED BY <2>5, <2>6, <3>1 DEF Counted, Is
  <2>7. ASSUME N.plan # << >>, L.op \in Syncs, Stage(L) PROVE Stage(N)'
    <3>1. CASE Early(L) /\ MirrorsAll
      <4>1. Early(N) /\ MirrorsAll'
        BY <1>2, <2>5, <3>1
      <4> QED BY <2>5, <2>7, <4>1 DEF Stage, Is
    <3>2. CASE Late(L) /\ \A d \in Docs : Rebuilt(d)
      <4>1. Late(N) /\ (\A d \in Docs : Rebuilt(d))'
        BY <1>3, <2>5, <3>2
      <4> QED BY <2>5, <2>7, <4>1 DEF Stage, Is
    <3> QED BY <2>2, <2>7, <3>1, <3>2 DEF Stage, Is
  <2>8. Sure(N)'
    BY <2>2, <2>4, <2>6, <2>7 DEF Sure
  <2> QED BY <2>3, <2>8 DEF StaysSure
<1>5. CASE Count(t)
  <2>1. At(t, "count") /\ Proceed(t) /\ kb' = [kb EXCEPT !.count = L.n]
    BY <1>5 DEF Count
  <2>2. Head(L.plan) = "count" /\ L.plan # << >> /\ PlanOK(L.op, L.plan)
    BY <2>1, AtCall
  <2>3. PICK N : Passes(t, L, N)
    BY <2>1, AtCall
  <2>4. Goes(t, N) /\ N.plan = Tail(L.plan) /\ N.op = L.op /\ N.result = L.result
    BY <2>3 DEF Passes
  <2>5. /\ N.plan # << >> => Follows(L.op, "count", Head(N.plan))
        /\ Early(L) => Early(N)
        /\ Late(L) => Late(N)
    BY <2>2, <2>4, NextCall
  <2>6. ASSUME N.plan # << >>, Counted(L) PROVE Counted(N)'
    <3>1. L.n = Cardinality(StoredDocs)
      BY <2>2, <2>6 DEF Counted, Is
    <3>2. kb'.count = Cardinality(StoredDocs')
      BY <1>1, <2>1, <3>1 DEF StoredDocs, Stored, TypeInv, DataOK, KbType
    <3>3. Head(N.plan) # "count"
      BY <2>5, <2>6 DEF Follows
    <3> QED BY <3>2, <3>3 DEF Counted, Is
  <2>7. ASSUME N.plan # << >>, L.op \in Syncs, Stage(L) PROVE Stage(N)'
    <3>0. Follows(L.op, "count", Head(N.plan))
      BY <2>5, <2>7
    <3>1. CASE Early(L) /\ MirrorsAll /\ L.op = "sync"
      <4>1. Head(N.plan) = "finish"
        BY <3>0, <3>1 DEF Follows
      <4>2. MirrorsAll'
        BY <1>2, <3>1
      <4> QED BY <2>4, <2>7, <3>1, <4>1, <4>2 DEF Stage, Is
    <3>2. CASE Early(L) /\ MirrorsAll /\ L.op = "resync"
      <4>1. Among("snapshot", L.plan)
        BY <3>2 DEF Early
      <4>2. Head(Tail(L.plan)) = "source_result"
        BY <2>2, <3>2, <4>1, EarlyNext
      <4>3. Early(N) /\ MirrorsAll'
        BY <1>2, <2>5, <3>2
      <4> QED BY <2>4, <2>7, <3>2, <4>2, <4>3 DEF Stage, Is
    <3>3. CASE Late(L) /\ \A d \in Docs : Rebuilt(d)
      <4>1. Late(N) /\ (\A d \in Docs : Rebuilt(d))' /\ L.op = "resync"
        BY <1>3, <2>5, <3>3 DEF Late
      <4>2. Head(N.plan) \in {"result", "source_result"}
        BY <3>0, <4>1 DEF Follows
      <4>3. Head(N.plan) # "source_result"
        <5>1. Among(Head(N.plan), N.plan)
          BY <2>2, <2>4, <2>7, TailPlan
        <5> QED BY <4>1, <5>1 DEF Late, Calls, Rebuilds
      <4> QED BY <2>7, <4>1, <4>2, <4>3 DEF Stage, Is
    <3> QED BY <2>2, <2>7, <3>1, <3>2, <3>3 DEF Stage, Is, Syncs
  <2>8. Sure(N)'
    BY <2>2, <2>4, <2>6, <2>7 DEF Sure
  <2> QED BY <2>4, <2>8 DEF StaysSure
<1> QED BY <1>4, <1>5

\* A file whose document is in hand, and then is not: its row was written.
LEMMA ScanWritten ==
  ASSUME NEW L, NEW N, Scanning(L), Is(L, {"insert", "update"}), Is(N, {"upsert"}),
         N.seen = L.seen, N.todo = L.todo, files' = files,
         Mirrored(L.doc)', \A f \in Files : f # L.doc => rows'[f] = rows[f]
  PROVE  Scanning(N)'
<1>1. /\ InHand(L, {"insert", "unindex", "update"}) = {L.doc}
      /\ InHand(N, {"insert", "unindex", "update"}) = {}
  BY DEF InHand, Is
<1>2. /\ L.seen = Present /\ L.todo \subseteq Present /\ Present' = Present /\ Present \subseteq Files
      /\ \A f \in (Present \ L.todo) \ {L.doc} : Mirrored(f)
  BY <1>1 DEF Scanning, Present
<1>3. ASSUME NEW f \in Present \ L.todo PROVE Mirrored(f)'
  BY <1>2, <1>3 DEF Mirrored
<1> QED BY <1>1, <1>2, <1>3 DEF Scanning

\* The call that writes the document of a file.
LEMMA WriteSure ==
  ASSUME TypeInv, IndexInv, NEW t \in Threads, NEW L, L = thread[t], Sure(L),
         Insert(t) \/ UpdateRow(t)
  PROVE  StaysSure(t)
<1>1. PICK call \in {"insert", "update"} :
        /\ At(t, call) /\ files' = files
        /\ \/ Fail(t)
           \/ rows' = [rows EXCEPT ![L.doc] = Row(L.text, L.doc \in Files)] /\ Proceed(t)
  BY DEF Insert, UpdateRow
<1>2. CASE Fail(t)
  BY <1>1, <1>2, FailSure
<1>3. CASE rows' = [rows EXCEPT ![L.doc] = Row(L.text, L.doc \in Files)] /\ Proceed(t)
  <2>1. /\ Head(L.plan) = call /\ L.plan # << >> /\ L.plan \in Seq(Calls)
        /\ PlanOK(L.op, L.plan) /\ Ordered(L.plan)
    BY <1>1, AtCall
  <2>2. PICK N : Passes(t, L, N)
    BY <1>1, <1>3, AtCall
  <2>3. /\ Goes(t, N) /\ N.plan = Tail(L.plan) /\ N.op = L.op /\ N.result = L.result
        /\ N.seen = L.seen /\ N.todo = L.todo
    BY <2>2 DEF Passes
  <2>4. ASSUME L.op \in Syncs, Stage(L) PROVE Stage(N)'
    <3>1. Early(L) /\ Among("each_file", L.plan) /\ Scanning(L)
      BY <2>1, <2>4 DEF Stage, Is
    <3>2. N.plan # << >> /\ Among("each_file", N.plan) /\ Head(N.plan) = "upsert"
      BY <2>1, <2>3, <2>4, <3>1, FileNext
    <3>3. Early(N)
      BY <2>1, <2>3, <3>1, NextCall
    <3>4. L.doc \in Present /\ L.text = files[L.doc] /\ L.doc \in Files /\ L.doc \in Docs
      <4>1. InHand(L, {"insert", "unindex", "update"}) = {L.doc}
        BY <2>1 DEF InHand, Is
      <4> QED BY <3>1, <4>1, RowTypes DEF Scanning, Present
    <3>5. rows'[L.doc] = Row(files[L.doc], TRUE) /\ \A f \in Files : f # L.doc => rows'[f] = rows[f]
      <4>1. /\ rows'[L.doc] = Row(L.text, L.doc \in Files)
            /\ \A f \in Files : f # L.doc => rows'[f] = rows[f]
        BY <1>3, <3>4, RowTypes DEF TypeInv, DataOK
      <4>2. Row(L.text, L.doc \in Files) = Row(files[L.doc], TRUE)
        BY <3>4 DEF Row
      <4> QED BY <4>1, <4>2
    <3>6. Mirrored(L.doc)'
      BY <1>1, <3>5 DEF Mirrored
    <3>7. Is(L, {"insert", "update"}) /\ Is(N, {"upsert"})
      BY <2>1, <3>2 DEF Is
    <3>8. Scanning(N)'
      BY <1>1, <2>3, <3>1, <3>5, <3>6, <3>7, ScanWritten
    <3> QED BY <3>2, <3>3, <3>7, <3>8 DEF Stage, Is
  <2>5. Sure(N)'
    <3>1. Head(L.plan) \notin {"list", "count"} /\ Head(L.plan) \notin Reports \cup {"finish"}
      BY <2>1 DEF Reports
    <3> QED BY <2>1, <2>3, <2>4, <3>1, SurePass
  <2> QED BY <2>3, <2>5 DEF StaysSure
<1> QED BY <1>1, <1>2, <1>3

\* The scan of the directory.
LEMMA ScanSure ==
  ASSUME TypeInv, IndexInv, NEW t \in Threads, NEW L, L = thread[t], Sure(L), Scan(t)
  PROVE  StaysSure(t)
<1>1. At(t, "scan") /\ files' = files
  BY DEF Scan
<1>2. Head(L.plan) = "scan" /\ L.plan # << >> /\ PlanOK(L.op, L.plan)
  BY <1>1, AtCall
<1>3. PICK N : /\ Goes(t, N)
               /\ Turns(L, N, <<"each_file">> \o Tail(L.plan), L.n, L.doc, L.text,
                        Present, Present, L.snap)
               /\ N.plan # << >> /\ Head(N.plan) = "each_file"
  BY ScanTurns DEF TypeInv
<1>4. /\ N.plan = <<"each_file">> \o Tail(L.plan) /\ N.op = L.op /\ N.result = L.result
      /\ N.todo = Present /\ N.seen = Present
  BY <1>3 DEF Turns
<1>5. \A c : Among(c, N.plan) <=> Among(c, <<"each_file">>) \/ Among(c, Tail(L.plan))
  <2>1. <<"each_file">> \in Seq(Calls)
    BY DEF Calls
  <2>3. PlanOK(L.op, Tail(L.plan))
    BY <1>2, TailPlan
  <2>2. Tail(L.plan) \in Seq(Calls)
    BY <2>3 DEF PlanOK
  <2> DEFINE p == <<"each_file">>
             s == Tail(L.plan)
  <2>4. p \in Seq(Calls) /\ s \in Seq(Calls) /\ N.plan = p \o s
    BY <1>4, <2>1, <2>2
  <2> HIDE DEF p, s
  <2>5. \A c : Among(c, N.plan) <=> Among(c, p) \/ Among(c, s)
    BY <2>4, AmongFront
  <2> QED BY <2>5 DEF p, s
<1>6. Among("each_file", N.plan)
  <2>1. Among("each_file", <<"each_file">>)
    BY DEF Among
  <2> QED BY <1>5, <2>1
<1>7. Early(L) => Early(N)
  BY <1>2, <1>4, <1>5, TailPlan DEF Early
<1>8. Scanning(N)'
  <2>1. InHand(N, {"insert", "unindex", "update"}) = {}
    BY <1>3 DEF InHand, Is
  <2>2. Present' = Present
    BY <1>1 DEF Present
  <2> QED BY <1>4, <2>1, <2>2 DEF Scanning
<1>9. ASSUME Stage(L) PROVE Stage(N)'
  <2>1. Early(L)
    BY <1>2, <1>9 DEF Stage, Is
  <2> QED BY <1>3, <1>6, <1>7, <1>8, <2>1 DEF Stage, Is
<1>10. Sure(N)'
  BY <1>2, <1>3, <1>4, <1>9, SureTurn
<1> QED BY <1>3, <1>10 DEF StaysSure

\* The files the scan found.
LEMMA EachFileSure ==
  ASSUME TypeInv, IndexInv, NEW t \in Threads, NEW L, L = thread[t], Sure(L), EachFile(t)
  PROVE  StaysSure(t)
<1>1. At(t, "each_file") /\ files' = files /\ rows' = rows
  BY DEF EachFile, database
<1>2. Head(L.plan) = "each_file" /\ L.plan # << >> /\ PlanOK(L.op, L.plan)
  BY <1>1, AtCall
<1>3. /\ InHand(L, {"insert", "unindex", "update"}) = {} /\ Present' = Present
      /\ \A f : Mirrored(f) => Mirrored(f)'
  BY <1>1, <1>2 DEF InHand, Is, Present, Mirrored
<1>4. ASSUME Stage(L)
      PROVE  /\ Early(L) /\ Among("each_file", L.plan)
             /\ L.seen = Present /\ L.todo \subseteq Present
             /\ \A f \in Present \ L.todo : Mirrored(f)
  <2>1. Early(L) /\ Among("each_file", L.plan) /\ Scanning(L)
    BY <1>2, <1>4 DEF Stage, Is
  <2> QED BY <1>3, <2>1 DEF Scanning
<1>5. CASE L.todo = {} /\ Continue(t, [L EXCEPT !.doc = None, !.snap = NoRows])
  <2>1. PICK N : Goes(t, N) /\ Turns(L, N, Tail(L.plan), 0, None, L.text, {}, L.seen, NoRows)
    BY <1>1, <1>5, LoopEnds DEF TypeInv
  <2>2. N.plan = Tail(L.plan) /\ N.op = L.op /\ N.result = L.result /\ N.seen = L.seen
    BY <2>1 DEF Turns
  <2>3. /\ N.plan # << >> => Head(N.plan) = "prune"
        /\ Early(L) => Early(N)
    BY <1>2, <2>2, NextCall DEF Follows
  <2>4. ASSUME Stage(L), N.plan # << >> PROVE Stage(N)'
    <3>1. Early(N) /\ L.seen = Present /\ \A f \in Present : Mirrored(f)
      BY <1>4, <1>5, <2>3, <2>4
    <3>2. N.seen = Present' /\ \A f \in Present' : Mirrored(f)'
      BY <1>3, <2>2, <3>1
    <3> QED BY <2>3, <2>4, <3>1, <3>2 DEF Stage, Is
  <2>5. Sure(N)'
    <3>1. Head(L.plan) \notin {"list", "count"} /\ Head(L.plan) \notin Reports \cup {"finish"}
      BY <1>2 DEF Reports
    <3> QED BY <1>2, <2>2, <2>4, <3>1, SurePass
  <2> QED BY <2>1, <2>5 DEF StaysSure
<1>6. CASE Fail(t)
  BY <1>1, <1>6, FailSure
<1>7. ASSUME NEW f \in L.todo, NEW x \in Texts, NEW p \in FileSteps,
             f \in Files, x = files[f],
             p = IF f \notin Linked THEN <<"insert", "upsert">>
                 ELSE IF rows[f] = Row(x, TRUE) THEN << >>
                 ELSE <<"unindex", "update", "upsert">>,
             CallFirst(t, AtFile(L, f, x), p)
      PROVE  StaysSure(t)
  <2>1. PICK N : FileGoes(t, L, N, f, x, p)
    <3>1. LocalsOK /\ rows \in [Docs -> RowType]
      BY DEF TypeInv, DataOK
    <3> QED BY <1>1, <1>7, <3>1, FileTurns
  <2>2. /\ Goes(t, N) /\ N.plan = p \o L.plan /\ N.op = L.op /\ N.result = L.result
        /\ N.doc = f /\ N.text = x /\ N.todo = L.todo \ {f} /\ N.seen = L.seen
        /\ N.plan # << >> /\ Among("each_file", N.plan)
        /\ Head(N.plan) = IF p = << >> THEN "each_file" ELSE p[1]
    BY <2>1 DEF FileGoes, Turns
  <2>3. p \in Seq(Calls)
    <3>1. <<"insert", "upsert">> \in Seq(Calls) /\ <<"unindex", "update", "upsert">> \in Seq(Calls)
          /\ << >> \in Seq(Calls)
      BY DEF Calls
    <3> QED BY <3>1 DEF FileSteps
  <2>4. Early(L) => Early(N)
    <3>1. \A c : Among(c, N.plan) <=> Among(c, p) \/ Among(c, L.plan)
      <4>1. L.plan \in Seq(Calls)
        BY <1>2 DEF PlanOK
      <4> QED BY <2>2, <2>3, <4>1, AmongFront
    <3> QED BY <2>2, <3>1 DEF Early
  <2>5. CASE p = << >>
    <3>1. Head(N.plan) = "each_file" /\ Mirrored(f)
      <4>1. <<"insert", "upsert">> # << >> /\ <<"unindex", "update", "upsert">> # << >>
        OBVIOUS
      <4>2. rows[f] = Row(x, TRUE)
        BY <1>7, <2>5, <4>1
      <4> QED BY <1>7, <2>2, <2>5, <4>2 DEF Mirrored
    <3>2. InHand(N, {"insert", "unindex", "update"}) = {}
      BY <3>1 DEF InHand, Is
    <3>3. ASSUME Stage(L) PROVE Stage(N)'
      <4>1. Scanning(N)'
        <5>1. \A e \in Present \ N.todo : Mirrored(e)
          BY <1>4, <2>2, <3>1, <3>3
        <5> QED BY <1>3, <1>4, <2>2, <3>2, <3>3, <5>1 DEF Scanning
      <4> QED BY <1>4, <2>2, <2>4, <3>1, <3>3, <4>1 DEF Stage, Is
    <3>4. Sure(N)'
      BY <1>2, <2>2, <3>1, <3>3, SureTurn
    <3> QED BY <2>2, <3>4 DEF StaysSure
  <2>6. CASE p # << >>
    <3>1. Head(N.plan) \in {"insert", "unindex"}
      <4>1. <<"insert", "upsert">>[1] = "insert" /\ <<"unindex", "update", "upsert">>[1] = "unindex"
        OBVIOUS
      <4> QED BY <2>2, <2>6, <4>1 DEF FileSteps
    <3>2. InHand(N, {"insert", "unindex", "update"}) = {f}
      BY <2>2, <3>1 DEF InHand, Is
    <3>3. ASSUME Stage(L) PROVE Stage(N)'
      <4>1. Scanning(N)'
        <5>1. \A e \in (Present \ N.todo) \ {f} : Mirrored(e)
          BY <1>4, <2>2, <3>3
        <5>2. N.doc \in Present /\ N.text = files'[N.doc]
          BY <1>1, <1>4, <1>7, <2>2, <3>3
        <5> QED BY <1>3, <1>4, <2>2, <3>2, <3>3, <5>1, <5>2 DEF Scanning
      <4> QED BY <1>4, <2>2, <2>4, <3>1, <3>3, <4>1 DEF Stage, Is
    <3>4. Sure(N)'
      <4>1. Head(N.plan) \notin {"count", "result", "finish", "source_result"}
        BY <3>1
      <4> QED BY <1>2, <2>2, <3>3, <4>1, SureTurn
    <3> QED BY <2>2, <3>4 DEF StaysSure
  <2> QED BY <2>5, <2>6
<1>8. CASE \E f \in L.todo, x \in Texts, p \in FileSteps :
             /\ f \in Files /\ x = files[f]
             /\ p = IF f \notin Linked THEN <<"insert", "upsert">>
                    ELSE IF rows[f] = Row(x, TRUE) THEN << >>
                    ELSE <<"unindex", "update", "upsert">>
             /\ CallFirst(t, AtFile(L, f, x), p)
  BY <1>7, <1>8
<1> QED BY <1>5, <1>6, <1>8, FileCases

\* The documents of the source, once all files have theirs.
LEMMA PruneSure ==
  ASSUME TypeInv, IndexInv, NEW t \in Threads, NEW L, L = thread[t], Sure(L), Prune(t)
  PROVE  StaysSure(t)
<1>1. /\ At(t, "prune") /\ files' = files /\ rows' = rows /\ rows \in [Docs -> RowType]
      /\ LocalsOK
  BY DEF Prune, database, TypeInv, DataOK
<1>2. Head(L.plan) = "prune" /\ L.plan # << >> /\ PlanOK(L.op, L.plan) /\ Ordered(L.plan)
      /\ L.plan \in Seq(Calls)
  BY <1>1, AtCall
<1>3. PICK N : /\ Goes(t, N)
               /\ Turns(L, N, <<"each_pruned">> \o Tail(L.plan), L.n, L.doc, L.text,
                        Linked \ L.seen, {}, rows)
               /\ N.plan # << >> /\ Head(N.plan) = "each_pruned" /\ Among("each_pruned", N.plan)
  BY <1>1, PruneTurns
<1>4. /\ N.plan = <<"each_pruned">> \o Tail(L.plan) /\ N.op = L.op /\ N.result = L.result
      /\ N.todo = Linked \ L.seen
  BY <1>3 DEF Turns
<1>5. \A c : Among(c, N.plan) <=> Among(c, <<"each_pruned">>) \/ Among(c, Tail(L.plan))
  <2>1. <<"each_pruned">> \in Seq(Calls)
    BY DEF Calls
  <2>2. PlanOK(L.op, Tail(L.plan))
    BY <1>2, TailPlan
  <2>3. Tail(L.plan) \in Seq(Calls)
    BY <2>2 DEF PlanOK
  <2> DEFINE p == <<"each_pruned">>
             s == Tail(L.plan)
  <2>4. p \in Seq(Calls) /\ s \in Seq(Calls) /\ N.plan = p \o s
    BY <1>4, <2>1, <2>3
  <2> HIDE DEF p, s
  <2>5. \A c : Among(c, N.plan) <=> Among(c, p) \/ Among(c, s)
    BY <2>4, AmongFront
  <2> QED BY <2>5 DEF p, s
<1>6. Pruning(N)
  <2>1. ~Among("each_file", <<"each_pruned">>)
    BY DEF Among
  <2>2. ~Among("each_file", Tail(L.plan))
    BY <1>2, OrderedTail DEF Bars
  <2> QED BY <1>3, <1>5, <2>1, <2>2 DEF Pruning
<1>7. Early(L) => Early(N)
  BY <1>2, <1>4, <1>5, TailPlan DEF Early
<1>8. ASSUME Stage(L) PROVE Stage(N)'
  <2>1. Early(L) /\ L.seen = Present /\ \A f \in Present : Mirrored(f)
    BY <1>2, <1>8 DEF Stage, Is
  <2>2. /\ InHand(N, {"unindex", "remove"}) = {} /\ Present' = Present /\ Linked' = Linked
        /\ \A f : Mirrored(f) => Mirrored(f)'
    BY <1>1, <1>3 DEF InHand, Is, Present, Mirrored, Linked, Stored
  <2>3. PrunesRest(N)'
    BY <1>4, <2>1, <2>2 DEF PrunesRest
  <2> QED BY <1>3, <1>6, <1>7, <2>1, <2>3 DEF Stage, Is
<1>9. Sure(N)'
  BY <1>2, <1>3, <1>4, <1>8, SureTurn
<1> QED BY <1>3, <1>9 DEF StaysSure

\* What a sync that prunes has done.
LEMMA AtPruning ==
  ASSUME NEW L, Stage(L), Is(L, {"each_pruned", "remove"})
  PROVE  Early(L) /\ Pruning(L) /\ PrunesRest(L)
BY DEF Stage, Is

\* The documents without a file.
LEMMA EachPrunedSure ==
  ASSUME TypeInv, IndexInv, NEW t \in Threads, NEW L, L = thread[t], Sure(L), EachPruned(t)
  PROVE  StaysSure(t)
<1>1. At(t, "each_pruned") /\ files' = files /\ rows' = rows /\ LocalsOK
  BY DEF EachPruned, database, TypeInv
<1>2. Head(L.plan) = "each_pruned" /\ L.plan # << >> /\ PlanOK(L.op, L.plan)
      /\ L.plan \in Seq(Calls)
  BY <1>1, AtCall
<1>3. /\ InHand(L, {"unindex", "remove"}) = {} /\ Is(L, {"each_pruned", "remove"})
      /\ Present' = Present /\ Linked' = Linked /\ \A f : Mirrored(f) => Mirrored(f)'
  BY <1>1, <1>2 DEF InHand, Is, Present, Mirrored, Linked, Stored
<1>4. ASSUME Stage(L)
      PROVE  /\ Early(L) /\ Pruning(L) /\ \A f \in Present : Mirrored(f)
             /\ Linked \ Present \subseteq L.todo /\ L.todo \cap Present = {}
  BY <1>3, <1>4, AtPruning DEF PrunesRest
<1>5. CASE L.todo = {} /\ Continue(t, [L EXCEPT !.doc = None, !.snap = NoRows])
  <2>1. PICK N : Goes(t, N) /\ Turns(L, N, Tail(L.plan), 0, None, L.text, {}, L.seen, NoRows)
    BY <1>1, <1>5, LoopEnds
  <2>2. N.plan = Tail(L.plan) /\ N.op = L.op /\ N.result = L.result
    BY <2>1 DEF Turns
  <2>3. /\ N.plan # << >> => Follows(L.op, "each_pruned", Head(N.plan))
        /\ Early(L) => Early(N)
    BY <1>2, <2>2, NextCall
  <2>4. ASSUME L.op \in Syncs, Stage(L), N.plan # << >> PROVE Stage(N)'
    <3>1. MirrorsAll
      <4>1. \A f \in Present : f \in Linked
        BY <1>4, <2>4, MirrorTexts
      <4> QED BY <1>4, <1>5, <2>4, <4>1 DEF MirrorsAll
    <3>2. MirrorsAll'
      BY <1>3, <3>1 DEF MirrorsAll
    <3>3. Head(N.plan) = "list"
      BY <2>3, <2>4 DEF Follows, Syncs
    <3> QED BY <1>4, <2>3, <2>4, <3>2, <3>3 DEF Stage, Is
  <2>5. Sure(N)'
    <3>1. Head(L.plan) \notin {"list", "count"} /\ Head(L.plan) \notin Reports \cup {"finish"}
      BY <1>2 DEF Reports
    <3> QED BY <1>2, <2>2, <2>4, <3>1, SurePass
  <2> QED BY <2>1, <2>5 DEF StaysSure
<1>6. ASSUME NEW d \in L.todo,
             CallFirst(t, [L EXCEPT !.todo = @ \ {d}, !.doc = d], <<"unindex", "remove">>)
      PROVE  StaysSure(t)
  <2> DEFINE p == <<"unindex", "remove">>
  <2>1. PICK N : /\ Goes(t, N)
                 /\ Turns(L, N, <<"unindex", "remove">> \o L.plan, 0, d, L.text,
                          L.todo \ {d}, L.seen, L.snap)
                 /\ N.plan # << >> /\ Head(N.plan) = "unindex"
                 /\ \A c : Among(c, N.plan) => c \in {"unindex", "remove"} \/ Among(c, L.plan)
                 /\ Among("each_pruned", N.plan)
    BY <1>1, <1>6, PrunedTurns
  <2>2. /\ N.plan = p \o L.plan /\ N.op = L.op /\ N.result = L.result /\ N.doc = d
        /\ N.todo = L.todo \ {d}
    BY <2>1 DEF Turns
  <2>3. Early(L) => Early(N)
    <3>1. p \in Seq(Calls)
      BY DEF Calls
    <3> HIDE DEF p
    <3>2. \A c : Among(c, N.plan) <=> Among(c, p) \/ Among(c, L.plan)
      BY <1>2, <2>2, <3>1, AmongFront
    <3> QED BY <2>2, <3>2 DEF Early
  <2>4. ASSUME Stage(L) PROVE Stage(N)'
    <3>1. Pruning(N)
      BY <1>4, <2>1, <2>4 DEF Pruning
    <3>2. InHand(N, {"unindex", "remove"}) = {d}
      BY <2>1, <2>2 DEF InHand, Is
    <3>3. PrunesRest(N)'
      BY <1>3, <1>4, <1>6, <2>2, <2>4, <3>2 DEF PrunesRest
    <3> QED BY <1>4, <2>1, <2>3, <2>4, <3>1, <3>3 DEF Stage, Is
  <2>5. Sure(N)'
    BY <1>2, <2>1, <2>2, <2>4, SureTurn
  <2> QED BY <2>1, <2>5 DEF StaysSure
<1> QED BY <1>5, <1>6, PrunedCases

\* The call that removes one of them.
LEMMA RemoveSure ==
  ASSUME TypeInv, IndexInv, NEW t \in Threads, NEW L, L = thread[t], Sure(L), Remove(t)
  PROVE  StaysSure(t)
<1>1. /\ At(t, "remove") /\ files' = files /\ rows' = [rows EXCEPT ![L.doc] = Absent]
      /\ Fail(t) \/ Proceed(t)
  BY DEF Remove
<1>2. CASE Fail(t)
  BY <1>1, <1>2, FailSure
<1>3. CASE Proceed(t)
  <2>1. /\ Head(L.plan) = "remove" /\ L.plan # << >> /\ L.plan \in Seq(Calls)
        /\ PlanOK(L.op, L.plan) /\ Ordered(L.plan)
    BY <1>1, AtCall
  <2>2. PICK N : Passes(t, L, N)
    BY <1>1, <1>3, AtCall
  <2>3. /\ Goes(t, N) /\ N.plan = Tail(L.plan) /\ N.op = L.op /\ N.result = L.result
        /\ N.todo = L.todo
    BY <2>2 DEF Passes
  <2>4. ASSUME L.op \in Syncs, Stage(L) PROVE Stage(N)'
    <3>1. Early(L) /\ Pruning(L) /\ PrunesRest(L)
      <4>1. Is(L, {"each_pruned", "remove"})
        BY <2>1 DEF Is
      <4> QED BY <2>4, <4>1, AtPruning
    <3>2. /\ N.plan # << >> /\ Head(N.plan) = "each_pruned" /\ Pruning(N)
      BY <2>1, <2>3, <2>4, <3>1, PruneNext DEF Pruning
    <3>3. Early(N)
      BY <2>1, <2>3, <3>1, NextCall
    <3>4. /\ InHand(L, {"unindex", "remove"}) = {L.doc} /\ InHand(N, {"unindex", "remove"}) = {}
      BY <2>1, <3>2 DEF InHand, Is
    <3>5. /\ \A f \in Present : Mirrored(f)
          /\ Linked \ Present \subseteq L.todo \cup {L.doc}
          /\ (L.todo \cup {L.doc}) \cap Present = {}
      BY <3>1, <3>4 DEF PrunesRest
    <3>6. Linked' \subseteq Linked \ {L.doc}
      BY <1>1, RowTypes DEF Linked, Stored, Absent, TypeInv, DataOK
    <3>7. Present' = Present /\ \A f \in Present : rows'[f] = rows[f]
      BY <1>1, <3>5, MirrorTexts DEF Present, TypeInv, DataOK
    <3>8. PrunesRest(N)'
      <4>1. \A f \in Present : Mirrored(f)'
        BY <1>1, <3>5, <3>7 DEF Mirrored
      <4> QED BY <2>3, <3>4, <3>5, <3>6, <3>7, <4>1 DEF PrunesRest
    <3> QED BY <3>2, <3>3, <3>8 DEF Stage, Is
  <2>5. Sure(N)'
    <3>1. Head(L.plan) \notin {"list", "count"} /\ Head(L.plan) \notin Reports \cup {"finish"}
      BY <2>1 DEF Reports
    <3> QED BY <2>1, <2>3, <2>4, <3>1, SurePass
  <2> QED BY <2>3, <2>5 DEF StaysSure
<1> QED BY <1>1, <1>2, <1>3

\* The call that deletes the chunks of a document by number.
LEMMA UnindexSure ==
  ASSUME TypeInv, IndexInv, NEW t \in Threads, NEW L, L = thread[t], Sure(L), Unindex(t)
  PROVE  StaysSure(t)
<1>1. At(t, "unindex") /\ files' = files /\ rows' = rows /\ LocalsOK
  BY DEF Unindex, database, TypeInv
<1>2. /\ Head(L.plan) = "unindex" /\ L.plan # << >> /\ PlanOK(L.op, L.plan)
      /\ Ordered(L.plan) /\ L.plan \in Seq(Calls)
  BY <1>1, AtCall
<1>3. \/ Fail(t)
      \/ Proceed(t)
      \/ L.n # L.snap[L.doc].chunks /\ Become(t, [L EXCEPT !.n = @ + 1])
  BY DEF Unindex
<1>4. /\ Present' = Present /\ Linked' = Linked /\ \A f : Mirrored(f) => Mirrored(f)'
      /\ InHand(L, {"insert", "unindex", "update"}) = {L.doc}
      /\ InHand(L, {"unindex", "remove"}) = {L.doc}
  BY <1>1, <1>2 DEF Present, Mirrored, Linked, Stored, InHand, Is
<1>5. CASE Fail(t)
  BY <1>1, <1>5, FailSure
<1>6. CASE L.n # L.snap[L.doc].chunks /\ Become(t, [L EXCEPT !.n = @ + 1])
  <2>1. PICK N : /\ Goes(t, N)
                 /\ Turns(L, N, L.plan, L.n + 1, L.doc, L.text, L.todo, L.seen, L.snap)
    BY <1>1, <1>6, UnindexTurns
  <2>2. /\ N.plan = L.plan /\ N.op = L.op /\ N.result = L.result /\ N.doc = L.doc
        /\ N.text = L.text /\ N.todo = L.todo /\ N.seen = L.seen
    BY <2>1 DEF Turns
  <2>3. ASSUME Stage(L) PROVE Stage(N)'
    <3>1. Early(L) => Early(N)
      BY <2>2 DEF Early
    <3>2. /\ InHand(N, {"insert", "unindex", "update"}) = {L.doc}
          /\ InHand(N, {"unindex", "remove"}) = {L.doc}
      BY <1>2, <2>2 DEF InHand, Is
    <3>3. CASE Early(L) /\ Among("each_file", L.plan) /\ Scanning(L)
      <4>1. Scanning(N)'
        BY <1>1, <1>4, <2>2, <3>2, <3>3 DEF Scanning
      <4> QED BY <1>2, <2>2, <3>1, <3>3, <4>1 DEF Stage, Is
    <3>4. CASE Early(L) /\ Pruning(L) /\ PrunesRest(L)
      <4>1. PrunesRest(N)'
        BY <1>4, <2>2, <3>2, <3>4 DEF PrunesRest
      <4>2. Pruning(N)
        BY <2>2, <3>4 DEF Pruning
      <4> QED BY <1>2, <2>2, <3>1, <3>4, <4>1, <4>2 DEF Stage, Is
    <3> QED BY <1>2, <2>3, <3>3, <3>4 DEF Stage, Is
  <2>4. Sure(N)'
    BY <1>2, <2>2, <2>3, SureTurn
  <2> QED BY <2>1, <2>4 DEF StaysSure
<1>7. CASE Proceed(t)
  <2>1. PICK N : Passes(t, L, N)
    BY <1>1, <1>7, AtCall
  <2>2. /\ Goes(t, N) /\ N.plan = Tail(L.plan) /\ N.op = L.op /\ N.result = L.result
        /\ N.doc = L.doc /\ N.text = L.text /\ N.todo = L.todo /\ N.seen = L.seen
    BY <2>1 DEF Passes
  <2>3. ASSUME L.op \in Syncs, Stage(L) PROVE Stage(N)'
    <3>1. Early(L) => Early(N)
      BY <1>2, <2>2, NextCall
    <3>2. CASE Early(L) /\ Among("each_file", L.plan) /\ Scanning(L)
      <4>1. N.plan # << >> /\ Among("each_file", N.plan) /\ Head(N.plan) = "update"
        BY <1>2, <2>2, <2>3, <3>2, FileNext
      <4>2. InHand(N, {"insert", "unindex", "update"}) = {L.doc}
        BY <2>2, <4>1 DEF InHand, Is
      <4>3. Scanning(N)'
        BY <1>1, <1>4, <2>2, <3>2, <4>2 DEF Scanning
      <4> QED BY <3>1, <3>2, <4>1, <4>3 DEF Stage, Is
    <3>3. CASE Early(L) /\ Pruning(L) /\ PrunesRest(L)
      <4>1. N.plan # << >> /\ Head(N.plan) = "remove" /\ Pruning(N)
        BY <1>2, <2>2, <2>3, <3>3, PruneNext DEF Pruning
      <4>2. InHand(N, {"unindex", "remove"}) = {L.doc}
        BY <2>2, <4>1 DEF InHand, Is
      <4>3. PrunesRest(N)'
        BY <1>4, <2>2, <3>3, <4>2 DEF PrunesRest
      <4> QED BY <3>1, <3>3, <4>1, <4>3 DEF Stage, Is
    <3> QED BY <1>2, <2>3, <3>2, <3>3 DEF Stage, Is
  <2>4. Sure(N)'
    <3>1. Head(L.plan) \notin {"list", "count"} /\ Head(L.plan) \notin Reports \cup {"finish"}
      BY <1>2 DEF Reports
    <3> QED BY <1>2, <2>2, <2>3, <3>1, SurePass
  <2> QED BY <2>2, <2>4 DEF StaysSure
<1> QED BY <1>3, <1>5, <1>6, <1>7

\* The reconciliation of a resync with its source.
LEMMA ReconcileSure ==
  ASSUME TypeInv, IndexInv, NEW t \in Threads, NEW L, L = thread[t], Sure(L), Reconcile(t)
  PROVE  StaysSure(t)
<1>1. At(t, "reconcile") /\ source' = source /\ LocalsOK
  BY DEF Reconcile, TypeInv
<1>2. /\ Head(L.plan) = "reconcile" /\ L.plan # << >> /\ PlanOK(L.op, L.plan)
      /\ L.plan \in Seq(Calls)
  BY <1>1, AtCall
<1>3. \/ Fail(t)
      \/ ~(source.exists /\ source.active) /\ Proceed(t)
      \/ Become(t, [L EXCEPT !.plan = SyncSource \o <<"source_result">> \o Tail(@)])
  BY DEF Reconcile
<1>4. Stage(L) => Early(L)
  BY <1>2 DEF Stage, Is
<1>5. CASE Fail(t)
  BY <1>1, <1>5, FailSure
<1>6. CASE ~(source.exists /\ source.active) /\ Proceed(t)
  <2>1. PICK N : Passes(t, L, N)
    BY <1>1, <1>6, AtCall
  <2>2. Goes(t, N) /\ N.plan = Tail(L.plan) /\ N.op = L.op /\ N.result = L.result
    BY <2>1 DEF Passes
  <2>3. ASSUME L.op \in Syncs, N.plan # << >>, Stage(L) PROVE Stage(N)'
    <3>1. Head(N.plan) = "snapshot"
      BY <1>2, <2>2, <2>3, NextCall DEF Follows
    <3>2. L.op = "resync"
      <4>1. Makes(L.op, "reconcile")
        BY <1>2, TailPlan
      <4> QED BY <2>3, <4>1 DEF Makes, Syncs
    <3>3. TextsAreFiles'
      BY <1>1, <1>6 DEF TextsAreFiles
    <3> QED BY <2>2, <2>3, <3>1, <3>2, <3>3 DEF Stage, Is
  <2>4. Sure(N)'
    <3>1. Head(L.plan) \notin {"list", "count"} /\ Head(L.plan) \notin Reports \cup {"finish"}
      BY <1>2 DEF Reports
    <3> QED BY <1>2, <2>2, <2>3, <3>1, SurePass
  <2> QED BY <2>2, <2>4 DEF StaysSure
<1>7. CASE Become(t, [L EXCEPT !.plan = SyncSource \o <<"source_result">> \o Tail(@)])
  <2> DEFINE p == SyncSource \o <<"source_result">>
             s == Tail(L.plan)
  <2>1. PICK N : /\ Goes(t, N)
                 /\ Turns(L, N, SyncSource \o <<"source_result">> \o Tail(L.plan), L.n,
                          L.doc, L.text, L.todo, L.seen, L.snap)
                 /\ N.plan # << >> /\ Head(N.plan) = "mark_source"
    BY <1>1, <1>7, ReconcileTurns
  <2>2. /\ N.plan = p \o s /\ N.op = L.op /\ N.result = L.result
    BY <2>1 DEF Turns
  <2>3. p \in Seq(Calls)
    BY DEF SyncSource, Calls
  <2>4. PlanOK(L.op, s)
    BY <1>2, TailPlan
  <2>5. s \in Seq(Calls)
    BY <2>4 DEF PlanOK
  <2>6. Early(L) /\ L.op = "resync" => Among("snapshot", s)
    BY <1>2, TailPlan DEF Early
  <2> HIDE DEF p, s
  <2>7. Early(L) => Early(N)
    BY <2>2, <2>3, <2>5, <2>6, AmongFront DEF Early
  <2>8. Stage(L) => Stage(N)'
    BY <1>4, <2>1, <2>7 DEF Stage, Is
  <2>9. Sure(N)'
    BY <1>2, <2>1, <2>2, <2>8, SureTurn
  <2> QED BY <2>1, <2>9 DEF StaysSure
<1> QED BY <1>3, <1>5, <1>6, <1>7

\* The source's row, which no sync deletes.
LEMMA DropSure ==
  ASSUME TypeInv, IndexInv, NEW t \in Threads, NEW L, L = thread[t], Sure(L), DeleteSourceRow(t)
  PROVE  StaysSure(t)
<1>1. At(t, "drop_source") /\ (Fail(t) \/ Proceed(t))
  BY DEF DeleteSourceRow
<1>2. Head(L.plan) = "drop_source" /\ L.plan # << >> /\ PlanOK(L.op, L.plan)
  BY <1>1, AtCall
<1>3. CASE Fail(t)
  BY <1>1, <1>3, FailSure
<1>4. CASE Proceed(t)
  <2>1. PICK N : Passes(t, L, N)
    BY <1>1, <1>4, AtCall
  <2>2. Goes(t, N) /\ N.plan = Tail(L.plan) /\ N.op = L.op /\ N.result = L.result
    BY <2>1 DEF Passes
  <2>3. ~Stage(L)
    BY <1>2 DEF Stage, Is
  <2>4. Head(L.plan) \notin {"list", "count"} /\ Head(L.plan) \notin Reports \cup {"finish"}
    BY <1>2 DEF Reports
  <2>5. Sure(N)'
    BY <1>2, <2>2, <2>3, <2>4, SurePass
  <2> QED BY <2>2, <2>5 DEF StaysSure
<1> QED BY <1>1, <1>3, <1>4

\* A resync that rebuilds the index.
LEMMA AtRebuild ==
  ASSUME NEW L, Stage(L), Is(L, {"wipe", "each_stored", "recount"})
  PROVE  Late(L) /\ L.op = "resync" /\ Refills(L)
BY DEF Stage, Is, Late

\* What such a resync does next.
LEMMA RebuildNext ==
  ASSUME NEW N, Late(N), Is(N, {"wipe", "each_stored", "recount", "upsert"}), Refills(N)'
  PROVE  Stage(N)'
BY DEF Stage

\* The rows a resync indexes again.
LEMMA SnapshotSure ==
  ASSUME TypeInv, IndexInv, NEW t \in Threads, NEW L, L = thread[t], Sure(L), Snapshot(t)
  PROVE  StaysSure(t)
<1>1. /\ At(t, "snapshot") /\ rows' = rows /\ files' = files /\ source' = source
      /\ rows \in [Docs -> RowType] /\ LocalsOK
  BY DEF Snapshot, database, TypeInv, DataOK
<1>2. Head(L.plan) = "snapshot" /\ L.plan # << >>
  BY <1>1, AtCall
<1>3. PICK N : /\ Goes(t, N)
               /\ Turns(L, N, Tail(L.plan), 0, L.doc, L.text, StoredDocs, L.seen, rows)
               /\ \A c : Among(c, N.plan) => c \in Rebuilds
               /\ N.plan # << >> /\ Head(N.plan) = "wipe"
  BY <1>1, SnapshotTurns
<1>4. L.op = "resync"
  BY <1>1, SnapshotTurns
<1>5. N.op = L.op /\ N.result = L.result /\ N.todo = StoredDocs /\ N.snap = rows
  BY <1>3 DEF Turns
<1>6. Late(N) /\ Is(N, {"wipe"}) /\ ~Is(N, {"recount"}) /\ ~Is(N, {"upsert"})
      /\ InHand(N, {"recount", "upsert"}) = {}
  BY <1>3, <1>4, <1>5 DEF Late, Is, InHand
<1>7. ASSUME Stage(L) PROVE Stage(N)'
  <2>1. TextsAreFiles
    BY <1>2, <1>7 DEF Stage, Is
  <2>2. TextsAreFiles'
    BY <1>1, <2>1 DEF TextsAreFiles, Linked, Stored
  <2>3. N.todo = StoredDocs' /\ \A d \in N.todo : rows'[d] = N.snap[d] /\ Stored(d)'
    BY <1>1, <1>5 DEF StoredDocs, Stored
  <2>4. Refills(N)'
    BY <1>6, <2>2, <2>3 DEF Refills
  <2>5. Is(N, {"wipe", "each_stored", "recount", "upsert"})
    BY <1>3 DEF Is
  <2> QED BY <1>6, <2>4, <2>5, RebuildNext
<1>8. Sure(N)'
  BY <1>2, <1>3, <1>5, <1>7, SureTurn
<1> QED BY <1>3, <1>8 DEF StaysSure

\* The index is emptied.
LEMMA WipeSure ==
  ASSUME TypeInv, IndexInv, NEW t \in Threads, NEW L, L = thread[t], Sure(L), Wipe(t)
  PROVE  StaysSure(t)
<1>1. /\ At(t, "wipe") /\ rows' = rows /\ files' = files /\ source' = source
      /\ Fail(t) \/ (Proceed(t) /\ index' = EmptyIndex)
  BY DEF Wipe, database
<1>2. Head(L.plan) = "wipe" /\ L.plan # << >> /\ PlanOK(L.op, L.plan)
  BY <1>1, AtCall
<1>3. CASE Fail(t)
  BY <1>1, <1>3, FailSure
<1>4. CASE Proceed(t) /\ index' = EmptyIndex
  <2>1. PICK N : Passes(t, L, N)
    BY <1>1, <1>4, AtCall
  <2>2. /\ Goes(t, N) /\ N.plan = Tail(L.plan) /\ N.op = L.op /\ N.result = L.result
        /\ N.todo = L.todo /\ N.snap = L.snap
    BY <2>1 DEF Passes
  <2>3. ASSUME N.plan # << >>, Stage(L) PROVE Stage(N)'
    <3>1. Late(L) /\ Refills(L)
      <4>1. Is(L, {"wipe", "each_stored", "recount"})
        BY <1>2 DEF Is
      <4> QED BY <2>3, <4>1, AtRebuild
    <3>2. Head(N.plan) = "each_stored" /\ Late(N)
      BY <1>2, <2>2, <2>3, <3>1, NextCall DEF Follows
    <3>3. /\ ~Is(N, {"wipe"}) /\ ~Is(N, {"recount"}) /\ ~Is(N, {"upsert"})
          /\ InHand(N, {"recount", "upsert"}) = {} /\ Is(L, {"wipe"})
      BY <1>2, <3>2 DEF Is, InHand
    <3>4. /\ TextsAreFiles /\ L.todo = StoredDocs
          /\ \A d \in L.todo : rows[d] = L.snap[d] /\ Stored(d)
      BY <3>1, <3>3 DEF Refills
    <3>5. TextsAreFiles'
      BY <1>1, <3>4 DEF TextsAreFiles, Linked, Stored
    <3>6. \A d \in Docs : Blank(index'[d]) /\ index'[d] = [c \in Ordinals |-> None]
      BY <1>4 DEF EmptyIndex, Blank
    <3>7. ASSUME NEW d \in Docs \ N.todo PROVE Rebuilt(d)'
      <4>1. rows'[d].text = None
        BY <1>1, <2>2, <3>4, <3>7 DEF StoredDocs, Stored
      <4> QED BY <3>6, <4>1 DEF Rebuilt, Indexed
    <3>8. \A d \in N.todo : rows'[d] = N.snap[d] /\ Stored(d)' /\ Blank(index'[d])
      BY <1>1, <2>2, <3>4, <3>6 DEF StoredDocs, Stored
    <3>9. Refills(N)'
      BY <3>3, <3>5, <3>7, <3>8 DEF Refills
    <3>10. Is(N, {"wipe", "each_stored", "recount", "upsert"})
      BY <2>3, <3>2 DEF Is
    <3> QED BY <3>2, <3>9, <3>10, RebuildNext
  <2>4. Sure(N)'
    <3>1. Head(L.plan) \notin {"list", "count"} /\ Head(L.plan) \notin Reports \cup {"finish"}
      BY <1>2 DEF Reports
    <3> QED BY <1>2, <2>2, <2>3, <3>1, SurePass
  <2> QED BY <2>2, <2>4 DEF StaysSure
<1> QED BY <1>1, <1>3, <1>4

\* The document's chunks are written after its row is counted again.
LEMMA RecountSure ==
  ASSUME TypeInv, IndexInv, NEW t \in Threads, NEW L, L = thread[t], Sure(L), Recount(t)
  PROVE  StaysSure(t)
<1>1. /\ At(t, "recount") /\ index' = index /\ files' = files /\ source' = source /\ Proceed(t)
      /\ rows' = IF Stored(L.doc) THEN [rows EXCEPT ![L.doc].chunks = ChunksOf[L.text]] ELSE rows
  BY DEF Recount
<1>2. Head(L.plan) = "recount" /\ L.plan # << >> /\ PlanOK(L.op, L.plan) /\ Args(L)
  BY <1>1, AtCall
<1>3. PICK N : Passes(t, L, N)
  BY <1>1, AtCall
<1>4. /\ Goes(t, N) /\ N.plan = Tail(L.plan) /\ N.op = L.op /\ N.result = L.result
      /\ N.doc = L.doc /\ N.text = L.text /\ N.todo = L.todo /\ N.snap = L.snap /\ N.n = 0
  BY <1>3 DEF Passes
<1>5. /\ \A d \in Docs : rows'[d].text = rows[d].text /\ rows'[d].linked = rows[d].linked
      /\ \A d \in Docs : d # L.doc => rows'[d] = rows[d]
  BY <1>1 DEF TypeInv, DataOK, RowType
<1>6. ASSUME N.plan # << >>, Stage(L) PROVE Stage(N)'
  <2>1. Late(L) /\ L.op = "resync" /\ Refills(L)
    <3>1. Is(L, {"wipe", "each_stored", "recount"})
      BY <1>2 DEF Is
    <3> QED BY <1>6, <3>1, AtRebuild
  <2>2. Head(N.plan) = "upsert" /\ Late(N)
    BY <1>2, <1>4, <1>6, <2>1, NextCall DEF Follows
  <2>3. /\ ~Is(N, {"wipe"}) /\ ~Is(N, {"recount"}) /\ Is(N, {"upsert"})
        /\ InHand(N, {"recount", "upsert"}) = {L.doc}
        /\ ~Is(L, {"wipe"}) /\ Is(L, {"recount"}) /\ InHand(L, {"recount", "upsert"}) = {L.doc}
    BY <1>2, <1>4, <1>6, <2>2 DEF Is, InHand
  <2>4. L.doc \notin L.todo /\ L.doc \in Docs
    BY <1>2, <2>1 DEF Args, Is
  <2>5. /\ TextsAreFiles /\ \A d \in L.todo : rows[d] = L.snap[d] /\ Stored(d) /\ Blank(index[d])
        /\ \A d \in (Docs \ L.todo) \ {L.doc} : Rebuilt(d)
        /\ L.text = rows[L.doc].text /\ Blank(index[L.doc])
    BY <2>1, <2>3 DEF Refills
  <2>6. TextsAreFiles'
    BY <1>1, <1>5, <2>5, RowTypes DEF TextsAreFiles, Linked, Stored
  <2>7. L.todo \subseteq Docs
    BY <1>1, AtCall DEF Working
  <2>8. \A d \in N.todo : rows'[d] = N.snap[d] /\ Stored(d)' /\ Blank(index'[d])
    BY <1>1, <1>4, <1>5, <2>4, <2>5, <2>7 DEF Stored
  <2>9. \A d \in (Docs \ N.todo) \ {L.doc} : Rebuilt(d)'
    <3>1. \A d \in (Docs \ N.todo) \ {L.doc} : Rebuilt(d) /\ rows'[d].text = rows[d].text
      BY <1>4, <1>5, <2>5
    <3>2. index' = index
      BY <1>1
    <3>3. ASSUME NEW d \in (Docs \ N.todo) \ {L.doc} PROVE Rebuilt(d)'
      <4>1. Rebuilt(d) /\ rows'[d].text = rows[d].text
        BY <3>1
      <4> QED BY <3>2, <4>1 DEF Rebuilt, Indexed
    <3> QED BY <3>3
  <2>10. N.text = rows'[N.doc].text
    BY <1>4, <1>5, <2>4, <2>5
  <2>11. index'[N.doc] = [c \in Ordinals |-> IF c < N.n THEN N.text ELSE None]
    <3>1. \A c \in Ordinals : ~(c < 0)
      BY RowTypes DEF Ordinals
    <3>2. index[L.doc] \in [Ordinals -> Texts \cup {None}]
      BY <2>4 DEF TypeInv, DataOK
    <3>3. index[L.doc] = [c \in Ordinals |-> None]
      BY <2>5, <3>2 DEF Blank
    <3> QED BY <1>1, <1>4, <3>1, <3>3
  <2>12. Refills(N)'
    BY <1>4, <2>3, <2>6, <2>8, <2>9, <2>10, <2>11 DEF Refills
  <2>13. Is(N, {"wipe", "each_stored", "recount", "upsert"})
    BY <1>6, <2>2 DEF Is
  <2> QED BY <2>2, <2>12, <2>13, RebuildNext
<1>7. Sure(N)'
  <2>1. Head(L.plan) \notin {"list", "count"} /\ Head(L.plan) \notin Reports \cup {"finish"}
    BY <1>2 DEF Reports
  <2> QED BY <1>2, <1>4, <1>6, <2>1, SurePass
<1> QED BY <1>4, <1>7 DEF StaysSure

\* The chunks of a document that is being written again.
LEMMA RefillSure ==
  ASSUME TypeInv, NEW L, NEW N, Refills(L), Is(L, {"upsert"}), L.doc \in Docs \ L.todo,
         L.todo \subseteq Docs, L.text \in Texts, L.n \in Nat,
         rows' = rows, files' = files, source' = source,
         N.todo = L.todo, N.snap = L.snap,
         \/ /\ Is(N, {"upsert"}) /\ N.doc = L.doc /\ N.text = L.text /\ N.n = L.n + 1
            /\ index' = [index EXCEPT ![L.doc][L.n] = L.text]
         \/ Is(N, {"each_stored"}) /\ index' = index /\ L.n = ChunksOf[L.text]
  PROVE  Refills(N)'
<1>1. ~Is(L, {"wipe"}) /\ ~Is(L, {"recount"}) /\ InHand(L, {"recount", "upsert"}) = {L.doc}
  BY DEF Is, InHand
<1>2. ~Is(N, {"wipe"}) /\ ~Is(N, {"recount"})
  BY DEF Is
<1>3. /\ TextsAreFiles /\ \A d \in L.todo : rows[d] = L.snap[d] /\ Stored(d) /\ Blank(index[d])
      /\ \A d \in (Docs \ L.todo) \ {L.doc} : Rebuilt(d)
      /\ L.text = rows[L.doc].text
      /\ index[L.doc] = [c \in Ordinals |-> IF c < L.n THEN L.text ELSE None]
  BY <1>1 DEF Refills
<1>4. TextsAreFiles'
  BY <1>3 DEF TextsAreFiles, Linked, Stored
<1>5. \A d \in Docs : d # L.doc => index'[d] = index[d]
  BY DEF TypeInv, DataOK
<1>6. \A d \in N.todo : rows'[d] = N.snap[d] /\ Stored(d)' /\ Blank(index'[d])
  BY <1>3, <1>5 DEF Stored
<1>7. \A d \in (Docs \ N.todo) \ {L.doc} : Rebuilt(d)'
  BY <1>3, <1>5 DEF Rebuilt, Indexed
<1>8. CASE /\ Is(N, {"upsert"}) /\ N.doc = L.doc /\ N.text = L.text /\ N.n = L.n + 1
           /\ index' = [index EXCEPT ![L.doc][L.n] = L.text]
  <2>1. InHand(N, {"recount", "upsert"}) = {L.doc}
    BY <1>8 DEF Is, InHand
  <2>2. index'[N.doc] = [c \in Ordinals |-> IF c < N.n THEN N.text ELSE None]
    <3>1. index'[L.doc] = [index[L.doc] EXCEPT ![L.n] = L.text]
      BY <1>8 DEF TypeInv, DataOK
    <3>2. ASSUME NEW c \in Ordinals
          PROVE  index'[L.doc][c] = IF c < L.n + 1 THEN L.text ELSE None
      <4>1. c \in Nat
        BY RowTypes DEF Ordinals
      <4>2. CASE c = L.n
        BY <1>3, <3>1, <4>1, <4>2
      <4>3. CASE c # L.n
        BY <1>3, <3>1, <4>1, <4>3
      <4> QED BY <4>2, <4>3
    <3>3. index'[L.doc] = [c \in Ordinals |-> index'[L.doc][c]]
      BY <1>3, <3>1
    <3> QED BY <1>8, <3>2, <3>3
  <2>3. N.text = rows'[N.doc].text
    BY <1>3, <1>8
  <2> QED BY <1>2, <1>4, <1>6, <1>7, <2>1, <2>2, <2>3 DEF Refills
<1>9. CASE Is(N, {"each_stored"}) /\ index' = index /\ L.n = ChunksOf[L.text]
  <2>1. InHand(N, {"recount", "upsert"}) = {} /\ ~Is(N, {"upsert"})
    BY <1>9 DEF Is, InHand
  <2>2. Rebuilt(L.doc)'
    <3>1. L.text # None
      BY RowTypes
    <3> QED BY <1>3, <1>9, <3>1 DEF Rebuilt, Indexed
  <2>3. \A d \in Docs \ N.todo : Rebuilt(d)'
    BY <1>7, <2>2
  <2> QED BY <1>2, <1>4, <1>6, <2>1, <2>3 DEF Refills
<1> QED BY <1>8, <1>9

\* The call that writes a document's chunks.
LEMMA UpsertSure ==
  ASSUME TypeInv, IndexInv, NEW t \in Threads, NEW L, L = thread[t], Sure(L), Upsert(t)
  PROVE  StaysSure(t)
<1>1. /\ At(t, "upsert") /\ rows' = rows /\ files' = files /\ source' = source /\ LocalsOK
  BY DEF Upsert, database, TypeInv
<1>2. /\ Head(L.plan) = "upsert" /\ L.plan # << >> /\ PlanOK(L.op, L.plan) /\ Args(L)
      /\ Ordered(L.plan) /\ Working(t, L)
  BY <1>1, AtCall
<1>3. \/ Fail(t)
      \/ /\ L.n = ChunksOf[L.text] /\ Continue(t, [L EXCEPT !.text = None])
         /\ index' = index
      \/ /\ L.n # ChunksOf[L.text] /\ Become(t, [L EXCEPT !.n = @ + 1])
         /\ index' = [index EXCEPT ![L.doc][L.n] = L.text]
  BY DEF Upsert
<1>4. CASE Fail(t)
  BY <1>1, <1>4, FailSure
<1>5. ASSUME NEW N, Goes(t, N),
             N.op = L.op, N.result = L.result, N.todo = L.todo, N.seen = L.seen, N.snap = L.snap,
             \/ /\ N.plan = L.plan /\ N.doc = L.doc /\ N.text = L.text /\ N.n = L.n + 1
                /\ index' = [index EXCEPT ![L.doc][L.n] = L.text]
             \/ N.plan = Tail(L.plan) /\ index' = index /\ L.n = ChunksOf[L.text],
             L.op \in Syncs, Stage(L)
      PROVE  Stage(N)'
  <2>1. (Early(L) => Early(N)) /\ (Late(L) => Late(N))
    <3>1. CASE N.plan = L.plan
      BY <1>5, <3>1 DEF Early, Late
    <3>2. CASE N.plan = Tail(L.plan)
      BY <1>2, <1>5, <3>2, NextCall
    <3> QED BY <1>5, <3>1, <3>2
  <2>2. CASE Early(L) /\ Among("each_file", L.plan) /\ Scanning(L)
    <3>1. Is(N, {"upsert", "each_file"}) /\ Among("each_file", N.plan)
      <4>1. CASE N.plan = L.plan
        BY <1>2, <2>2, <4>1 DEF Is
      <4>2. CASE N.plan = Tail(L.plan)
        BY <1>2, <1>5, <2>2, <4>2, FileNext DEF Is
      <4> QED BY <1>5, <4>1, <4>2
    <3>2. /\ InHand(L, {"insert", "unindex", "update"}) = {}
          /\ InHand(N, {"insert", "unindex", "update"}) = {}
          /\ Present' = Present /\ \A f : Mirrored(f) => Mirrored(f)'
      BY <1>1, <1>2, <3>1 DEF Is, InHand, Present, Mirrored
    <3>3. Scanning(N)'
      BY <1>5, <2>2, <3>2 DEF Scanning
    <3> QED BY <2>1, <2>2, <3>1, <3>3 DEF Stage, Is
  <2>3. CASE Late(L) /\ Refills(L)
    <3>1. L.op = "resync" /\ Late(N) /\ Is(L, {"upsert"})
      BY <1>2, <2>1, <2>3 DEF Late, Is
    <3>2. N.plan = Tail(L.plan) => Is(N, {"each_stored"})
      <4> SUFFICES ASSUME N.plan = Tail(L.plan) PROVE Is(N, {"each_stored"})
        OBVIOUS
      <4>1. N.plan # << >> /\ Follows("resync", "upsert", Head(N.plan))
        BY <1>2, <1>5, <3>1, NextCall DEF Reports
      <4>2. Among(Head(N.plan), N.plan)
        BY <1>2, <4>1, TailPlan
      <4>3. Head(N.plan) # "each_file"
        BY <3>1, <4>2 DEF Late, Calls, Rebuilds
      <4> QED BY <4>1, <4>3 DEF Follows, Is
    <3>3. N.plan = L.plan => Is(N, {"upsert"})
      BY <1>2 DEF Is
    <3>4. L.doc \in Docs \ L.todo /\ L.text \in Texts /\ L.todo \subseteq Docs /\ L.n \in Nat
      BY <1>2, <3>1 DEF Args, Is, Working
    <3>5. Refills(N)'
      <4>1. \/ /\ Is(N, {"upsert"}) /\ N.doc = L.doc /\ N.text = L.text /\ N.n = L.n + 1
               /\ index' = [index EXCEPT ![L.doc][L.n] = L.text]
            \/ Is(N, {"each_stored"}) /\ index' = index /\ L.n = ChunksOf[L.text]
        BY <1>5, <3>2, <3>3
      <4> QED BY <1>1, <1>5, <2>3, <3>1, <3>4, <4>1, RefillSure
    <3>6. Is(N, {"wipe", "each_stored", "recount", "upsert"})
      BY <1>5, <3>2, <3>3 DEF Is
    <3> QED BY <3>1, <3>5, <3>6, RebuildNext
  <2> QED BY <1>2, <1>5, <2>2, <2>3 DEF Stage, Is
<1>6. CASE /\ L.n = ChunksOf[L.text] /\ Continue(t, [L EXCEPT !.text = None])
           /\ index' = index
  <2>1. PICK N : /\ Goes(t, N)
                 /\ Turns(L, N, Tail(L.plan), 0, L.doc, None, L.todo, L.seen, L.snap)
    BY <1>1, <1>6, UpsertTurns
  <2>2. /\ N.plan = Tail(L.plan) /\ N.op = L.op /\ N.result = L.result
        /\ N.todo = L.todo /\ N.seen = L.seen /\ N.snap = L.snap
    BY <2>1 DEF Turns
  <2>3. L.op \in Syncs /\ Stage(L) => Stage(N)'
    BY <1>5, <1>6, <2>1, <2>2
  <2>4. Head(L.plan) \notin {"list", "count"} /\ Head(L.plan) \notin Reports \cup {"finish"}
    BY <1>2 DEF Reports
  <2>5. Sure(N)'
    BY <1>2, <2>2, <2>3, <2>4, SurePass
  <2> QED BY <2>1, <2>5 DEF StaysSure
<1>7. CASE /\ L.n # ChunksOf[L.text] /\ Become(t, [L EXCEPT !.n = @ + 1])
           /\ index' = [index EXCEPT ![L.doc][L.n] = L.text]
  <2>1. PICK N : /\ Goes(t, N)
                 /\ Turns(L, N, L.plan, L.n + 1, L.doc, L.text, L.todo, L.seen, L.snap)
    BY <1>1, <1>7, UpsertTurns
  <2>2. /\ N.plan = L.plan /\ N.op = L.op /\ N.result = L.result
        /\ N.doc = L.doc /\ N.text = L.text /\ N.n = L.n + 1
        /\ N.todo = L.todo /\ N.seen = L.seen /\ N.snap = L.snap
    BY <2>1 DEF Turns
  <2>3. L.op \in Syncs /\ Stage(L) => Stage(N)'
    BY <1>5, <1>7, <2>1, <2>2
  <2>4. Sure(N)'
    BY <1>2, <2>2, <2>3, SureTurn
  <2> QED BY <2>1, <2>4 DEF StaysSure
<1> QED BY <1>3, <1>4, <1>6, <1>7

\* The stored documents, one after the other.
LEMMA EachStoredSure ==
  ASSUME TypeInv, IndexInv, NEW t \in Threads, NEW L, L = thread[t], Sure(L), EachStored(t)
  PROVE  StaysSure(t)
<1>1. /\ At(t, "each_stored") /\ rows' = rows /\ files' = files /\ source' = source
      /\ index' = index /\ LocalsOK
  BY DEF EachStored, database, TypeInv
<1>2. /\ Head(L.plan) = "each_stored" /\ L.plan # << >> /\ PlanOK(L.op, L.plan)
      /\ L.plan \in Seq(Calls) /\ Working(t, L)
  BY <1>1, AtCall
<1>3. ASSUME Stage(L)
      PROVE  /\ Late(L) /\ L.op = "resync" /\ TextsAreFiles /\ L.todo \subseteq Docs
             /\ \A d \in L.todo : rows[d] = L.snap[d] /\ Stored(d) /\ Blank(index[d])
             /\ \A d \in Docs \ L.todo : Rebuilt(d)
  <2>1. Is(L, {"wipe", "each_stored", "recount"}) /\ ~Is(L, {"wipe"})
        /\ InHand(L, {"recount", "upsert"}) = {}
    BY <1>2 DEF Is, InHand
  <2>2. Late(L) /\ L.op = "resync" /\ Refills(L)
    BY <1>3, <2>1, AtRebuild
  <2> QED BY <1>2, <2>1, <2>2 DEF Refills, Working
<1>4. CASE L.todo = {} /\ Continue(t, [L EXCEPT !.doc = None, !.snap = NoRows])
  <2>1. PICK N : Goes(t, N) /\ Turns(L, N, Tail(L.plan), 0, None, L.text, {}, L.seen, NoRows)
    BY <1>1, <1>4, LoopEnds
  <2>2. N.plan = Tail(L.plan) /\ N.op = L.op /\ N.result = L.result
    BY <2>1 DEF Turns
  <2>3. /\ N.plan # << >> => Head(N.plan) = "list"
        /\ Late(L) => Late(N)
    BY <1>2, <2>2, NextCall DEF Follows
  <2>4. ASSUME Stage(L), N.plan # << >> PROVE Stage(N)'
    <3>1. Late(N) /\ \A d \in Docs : Rebuilt(d)
      BY <1>3, <1>4, <2>3, <2>4
    <3>2. (\A d \in Docs : Rebuilt(d))'
      BY <1>1, <3>1 DEF Rebuilt, Indexed
    <3> QED BY <2>3, <2>4, <3>1, <3>2 DEF Stage, Is
  <2>5. Sure(N)'
    <3>1. Head(L.plan) \notin {"list", "count"} /\ Head(L.plan) \notin Reports \cup {"finish"}
      BY <1>2 DEF Reports
    <3> QED BY <1>2, <2>2, <2>4, <3>1, SurePass
  <2> QED BY <2>1, <2>5 DEF StaysSure
<1>5. CASE Fail(t)
  BY <1>1, <1>5, FailSure
<1>6. ASSUME NEW d \in L.todo, NEW x \in Texts,
             NEW p \in {<<"upsert">>, <<"recount", "upsert">>},
             d \in Docs, x = TextToIndex(L.snap[d], d),
             CallFirst(t, AtStored(L, d, x), p)
      PROVE  StaysSure(t)
  <2>1. PICK N : StoredGoes(t, L, N, d, x, p)
    BY <1>1, <1>6, RebuildTurns
  <2>2. /\ Goes(t, N) /\ N.op = L.op /\ N.result = L.result /\ N.n = 0
        /\ N.doc = d /\ N.text = x /\ N.todo = L.todo \ {d} /\ N.snap = L.snap
        /\ N.plan # << >> /\ Head(N.plan) = p[1]
        /\ \A c : Among(c, N.plan) => c \in {"recount", "upsert"} \/ Among(c, L.plan)
    BY <2>1 DEF StoredGoes, Turns
  <2>3. Head(N.plan) \in {"recount", "upsert"}
    <3>1. <<"upsert">>[1] = "upsert" /\ <<"recount", "upsert">>[1] = "recount"
      OBVIOUS
    <3> QED BY <1>6, <2>2, <3>1
  <2>4. ~Is(N, {"wipe"}) /\ InHand(N, {"recount", "upsert"}) = {d}
    BY <2>2, <2>3 DEF Is, InHand
  <2>5. ASSUME Stage(L) PROVE Stage(N)'
    <3>1. Late(N)
      BY <1>3, <2>2, <2>5 DEF Late
    <3>2. x = rows[d].text
      <4>1. rows[d] = L.snap[d] /\ Stored(d)
        BY <1>3, <1>6, <2>5
      <4>2. CASE d \in Files /\ rows[d].linked /\ source.exists /\ source.active
        <5>1. rows[d].text = files[d]
          BY <1>3, <2>5, <4>1, <4>2 DEF TextsAreFiles, Linked
        <5> QED BY <1>6, <4>1, <4>2, <5>1 DEF TextToIndex
      <4>3. CASE ~(d \in Files /\ rows[d].linked /\ source.exists /\ source.active)
        BY <1>6, <4>1, <4>3 DEF TextToIndex
      <4> QED BY <4>2, <4>3
    <3>3. TextsAreFiles'
      BY <1>1, <1>3, <2>5 DEF TextsAreFiles, Linked, Stored
    <3>4. \A e \in N.todo : rows'[e] = N.snap[e] /\ Stored(e)' /\ Blank(index'[e])
      BY <1>1, <1>3, <2>2, <2>5 DEF Stored
    <3>5. \A e \in (Docs \ N.todo) \ {d} : Rebuilt(e)'
      BY <1>1, <1>3, <2>2, <2>5 DEF Rebuilt, Indexed
    <3>6. Blank(index'[d])
      BY <1>1, <1>3, <1>6, <2>5
    <3>7. index'[d] = [c \in Ordinals |-> IF c < N.n THEN N.text ELSE None]
      <4>1. \A c \in Ordinals : ~(c < 0)
        BY RowTypes DEF Ordinals
      <4>2. index'[d] \in [Ordinals -> Texts \cup {None}]
        BY <1>1, <1>6 DEF TypeInv, DataOK
      <4>3. index'[d] = [c \in Ordinals |-> None]
        BY <3>6, <4>2 DEF Blank
      <4> QED BY <2>2, <4>1, <4>3
    <3>8. N.text = rows'[d].text
      BY <1>1, <2>2, <3>2
    <3>9. Refills(N)'
      BY <2>2, <2>4, <3>3, <3>4, <3>5, <3>6, <3>7, <3>8 DEF Refills
    <3>10. Is(N, {"wipe", "each_stored", "recount", "upsert"})
      BY <2>2, <2>3 DEF Is
    <3> QED BY <3>1, <3>9, <3>10, RebuildNext
  <2>6. Sure(N)'
    <3>1. Head(N.plan) \notin {"count", "result", "finish", "source_result"}
      BY <2>3
    <3> QED BY <1>2, <2>2, <2>5, <3>1, SureTurn
  <2> QED BY <2>2, <2>6 DEF StaysSure
<1>7. CASE \E d \in L.todo, x \in Texts, p \in {<<"upsert">>, <<"recount", "upsert">>} :
             /\ d \in Docs /\ x = TextToIndex(L.snap[d], d)
             /\ p = IF L.snap[d].chunks = ChunksOf[x] THEN <<"upsert">>
                    ELSE <<"recount", "upsert">>
             /\ CallFirst(t, AtStored(L, d, x), p)
  BY <1>6, <1>7
<1>8. \/ /\ L.todo = {} /\ Continue(t, [L EXCEPT !.doc = None, !.snap = NoRows])
      \/ Fail(t)
      \/ \E d \in L.todo, x \in Texts, p \in {<<"upsert">>, <<"recount", "upsert">>} :
           /\ d \in Docs /\ x = TextToIndex(L.snap[d], d)
           /\ p = IF L.snap[d].chunks = ChunksOf[x] THEN <<"upsert">>
                  ELSE <<"recount", "upsert">>
           /\ CallFirst(t, AtStored(L, d, x), p)
  BY StoredCases
<1> QED BY <1>4, <1>5, <1>7, <1>8

\* Every step of a thread at work.
LEMMA WorkSure ==
  ASSUME TypeInv, IndexInv, NEW t \in Threads, NEW L, L = thread[t], Sure(L), Work(t)
  PROVE  StaysSure(t)
<1>1. CASE Mark(t) \/ Result(t) \/ MarkSource(t) \/ SourceResult(t) \/ Chunk(t) \/ Resolve(t)
           \/ FinishRun(t)
  BY <1>1, StatusSure
<1>2. CASE List(t) \/ Count(t)
  BY <1>2, CountSure
<1>3. CASE Insert(t) \/ UpdateRow(t)
  BY <1>3, WriteSure
<1>4. CASE Remove(t) \/ Recount(t) \/ DeleteSourceRow(t)
  BY <1>4, RemoveSure, RecountSure, DropSure
<1>5. CASE Unindex(t) \/ Upsert(t) \/ Wipe(t)
  BY <1>5, UnindexSure, UpsertSure, WipeSure
<1>6. CASE Scan(t) \/ EachFile(t) \/ Prune(t) \/ EachPruned(t)
  BY <1>6, ScanSure, EachFileSure, PruneSure, EachPrunedSure
<1>7. CASE Reconcile(t) \/ Snapshot(t) \/ EachStored(t)
  BY <1>7, ReconcileSure, SnapshotSure, EachStoredSure
<1> QED BY <1>1, <1>2, <1>3, <1>4, <1>5, <1>6, <1>7 DEF Work

\* Only the operation that is alone takes such steps while it is alone.
LEMMA WorkSucceeds ==
  ASSUME TypeInv, IndexInv, SuccessInv, NEW t \in Threads, Work(t)
  PROVE  SuccessInv'
<1>1. ~Idle(t) /\ alone' = alone
  BY DEF Work, At, history, Mark, Result, List, Count, MarkSource, SourceResult, Insert,
         UpdateRow, Remove, Recount, DeleteSourceRow, Chunk, Unindex, Upsert, Wipe, Scan, EachFile,
         Prune, EachPruned, Reconcile, Snapshot, EachStored, Resolve, FinishRun
<1>2. SUFFICES ASSUME NEW u \in alone
               PROVE  /\ \A v \in Threads \ {u} : Idle(v)'
                      /\ \A L \in {thread'[u]} : Sure(L)'
  BY <1>1 DEF SuccessInv
<1>3. /\ u = t /\ \A v \in Threads \ {t} : Idle(v)
      /\ \A L \in {thread[t]} : Sure(L)
  BY <1>1 DEF SuccessInv
<1>4. StaysSure(t)
  <2>1. PICK L : L = thread[t] /\ Sure(L)
    BY <1>3
  <2> QED BY <2>1, WorkSure
<1>5. PICK N : Goes(t, N) /\ Sure(N)'
  BY <1>4 DEF StaysSure
<1>6. \A v \in Threads \ {t} : Idle(v)'
  BY <1>3, <1>5 DEF Goes, Idle
<1>7. ASSUME NEW L, L = thread'[t] PROVE Sure(L)'
  <2>1. CASE N.plan = << >>
    <3>1. L.plan = << >>
      BY <1>5, <1>7, <2>1, IdlingOK DEF Goes, Done
    <3> QED BY <3>1 DEF Sure
  <2>2. CASE N.plan # << >>
    <3>1. L = N
      BY <1>5, <1>7, <2>2 DEF Goes, Done
    <3> QED BY <1>5, <3>1
  <2> QED BY <2>1, <2>2
<1> QED BY <1>3, <1>6, <1>7

\* An operation that starts has nothing done, and says so.
LEMMA StartSucceeds ==
  ASSUME NEW t \in Threads, NEW N, Start(t, N), Goes(t, N), Done(N) = N,
         NEW op \in DOMAIN Program, NEW result, NEW doc, NEW text, NEW todo, NEW snap, NEW run,
         Opens(N, op, result, doc, text, todo, snap, run)
  PROVE  SuccessInv'
<1>1. /\ N.op = op /\ N.plan = Program[op] /\ N.result = result
  BY DEF Opens
<1>2. /\ Program[op] # << >>
      /\ Head(Program[op]) = IF op = "edit" THEN "result"
                             ELSE IF op = "sync" THEN "resolve" ELSE "mark"
      /\ op = "resync" => Among("snapshot", Program[op])
  BY Programs
<1>3. ASSUME op # "edit" PROVE Counted(N)' /\ Stage(N)'
  <2>1. Is(N, {"resolve", "mark"}) /\ Early(N)
    BY <1>1, <1>2, <1>3 DEF Is, Early
  <2> QED BY <2>1 DEF Counted, Stage, Is
<1>4. Sure(N)'
  BY <1>1, <1>3 DEF Sure
<1>5. /\ thread'[t] = N /\ \A u \in Threads \ {t} : thread'[u] = thread[u]
  BY DEF Goes
<1>6. \A u \in alone' : u = t /\ \A v \in Threads \ {t} : Idle(v)'
  BY <1>5 DEF Start, Idle
<1> QED BY <1>4, <1>5, <1>6 DEF SuccessInv

\* A request or a worker starts an operation.
LEMMA OpensSucceed ==
  ASSUME TypeInv, NEW t \in Threads, Request(t) \/ Claim(t)
  PROVE  SuccessInv'
<1>1. CASE Claim(t)
  <2>1. PICK r \in Runs : \E N :
          /\ runs[r].op \in Syncs /\ Goes(t, N) /\ Done(N) = N /\ Start(t, N)
          /\ Opens(N, runs[r].op, "ready", None, None, {}, NoRows, r)
    BY <1>1, ClaimOpens
  <2>2. PICK N : /\ Goes(t, N) /\ Done(N) = N /\ Start(t, N)
                 /\ Opens(N, runs[r].op, "ready", None, None, {}, NoRows, r)
    BY <2>1
  <2> DEFINE op == runs[r].op
  <2>3. op \in DOMAIN Program /\ Opens(N, op, "ready", None, None, {}, NoRows, r)
    BY <2>1, <2>2, OpsAre DEF Syncs
  <2> HIDE DEF op
  <2> QED BY <2>2, <2>3, StartSucceeds
<1>2. ASSUME NEW d \in ManualDocs, NEW x \in Texts, Create(t, d, x)
      PROVE  SuccessInv'
  <2>1. PICK N : /\ Goes(t, N) /\ Done(N) = N /\ Start(t, N)
                 /\ Opens(N, "create", "ready", d, x, {}, NoRows, NoRun)
    BY <1>2, CreateOpens
  <2>2. "create" \in DOMAIN Program
    BY OpsAre
  <2> QED BY <2>1, <2>2, StartSucceeds
<1>3. ASSUME NEW d \in ManualDocs, NEW x \in Texts, Update(t, d, x)
      PROVE  SuccessInv'
  <2>1. PICK N : \E snap :
                 /\ Goes(t, N) /\ Done(N) = N /\ Start(t, N)
                 /\ Opens(N, "update", "ready", d, x, {}, snap, NoRun)
    BY <1>3, UpdateOpens
  <2>2. PICK snap : /\ Goes(t, N) /\ Done(N) = N /\ Start(t, N)
                    /\ Opens(N, "update", "ready", d, x, {}, snap, NoRun)
    BY <2>1
  <2>3. "update" \in DOMAIN Program
    BY OpsAre
  <2> QED BY <2>2, <2>3, StartSucceeds
<1>4. ASSUME NEW d \in ManualDocs, Delete(t, d)
      PROVE  SuccessInv'
  <2>1. PICK N : \E snap :
                 /\ Goes(t, N) /\ Done(N) = N /\ Start(t, N)
                 /\ Opens(N, "delete", "ready", d, None, {}, snap, NoRun)
    BY <1>4, DeleteOpens
  <2>2. PICK snap : /\ Goes(t, N) /\ Done(N) = N /\ Start(t, N)
                    /\ Opens(N, "delete", "ready", d, None, {}, snap, NoRun)
    BY <2>1
  <2>3. "delete" \in DOMAIN Program
    BY OpsAre
  <2> QED BY <2>2, <2>3, StartSucceeds
<1>5. CASE DropSource(t)
  <2>1. PICK N : /\ Goes(t, N) /\ Done(N) = N /\ Start(t, N)
                 /\ Opens(N, "drop", "ready", None, None, Linked, rows, NoRun)
    BY <1>5, DropOpens
  <2>2. "drop" \in DOMAIN Program
    BY OpsAre
  <2> QED BY <2>1, <2>2, StartSucceeds
<1>6. CASE EditKnowledgeBase(t)
  <2>1. PICK N : /\ Goes(t, N) /\ Done(N) = N /\ Start(t, N)
                 /\ Opens(N, "edit", kb.status, None, None, {}, NoRows, NoRun)
    BY <1>6, EditOpens
  <2>2. "edit" \in DOMAIN Program
    BY OpsAre
  <2> QED BY <2>1, <2>2, StartSucceeds
<1>7. CASE RequestSync(t) \/ RequestResync(t)
  <2>1. PICK op \in {"request_sync", "request_resync"} : Start(t, Local(op, None, None))
    BY <1>7 DEF RequestSync, RequestResync
  <2>2. PICK N : /\ Goes(t, N) /\ Done(N) = N /\ Start(t, N)
                 /\ Opens(N, op, "ready", None, None, {}, NoRows, NoRun)
    BY <2>1, SubmitOpens
  <2>3. op \in DOMAIN Program
    BY OpsAre
  <2> QED BY <2>2, <2>3, StartSucceeds
<1>8. room.texts \subseteq Texts
  BY RoomTypes
<1> QED BY <1>1, <1>2, <1>3, <1>4, <1>5, <1>6, <1>7, <1>8 DEF Request

\* An operation that nothing overlapped, as long as it has not failed, has done
\* what the calls behind it stand for.
LEMMA SuccessHolds == Spec => []SuccessInv
<1>1. Init => SuccessInv
  BY DEF Init, SuccessInv
<1>2. TypeInv /\ IndexInv /\ SuccessInv /\ [Next]_vars => SuccessInv'
  <2> SUFFICES ASSUME TypeInv, IndexInv, SuccessInv, [Next]_vars
               PROVE  SuccessInv'
    OBVIOUS
  <2>1. CASE \E h \in Handlers : Request(h)
    BY <2>1, OpensSucceed DEF Threads
  <2>2. CASE \E w \in room.workers : Claim(w)
    <3>1. room.workers \subseteq Threads
      BY RoomTypes DEF Threads
    <3> QED BY <2>2, <3>1, OpensSucceed
  <2>3. CASE \E t \in Threads : Work(t)
    BY <2>3, WorkSucceeds
  <2>4. CASE UpdateSource \/ FileChanges \/ CrashAndRestart
    <3>1. alone' = {}
      BY <2>4 DEF UpdateSource, FileChanges, CrashAndRestart, Disturbed
    <3> QED BY <3>1 DEF SuccessInv
  <2>5. CASE UNCHANGED vars
    <3>1. /\ alone' = alone /\ thread' = thread /\ rows' = rows /\ index' = index
          /\ files' = files /\ source' = source /\ kb' = kb
      BY <2>5 DEF vars, database, history
    <3>2. ASSUME NEW L, Sure(L) PROVE Sure(L)'
      <4>1. Counted(L) => Counted(L)'
        BY <3>1 DEF Counted, StoredDocs, Stored
      <4>2. /\ Scanning(L) => Scanning(L)'
            /\ PrunesRest(L) => PrunesRest(L)'
            /\ MirrorsAll => MirrorsAll'
            /\ TextsAreFiles => TextsAreFiles'
            /\ Present' = Present /\ \A f : Mirrored(f) => Mirrored(f)'
        BY <3>1 DEF Scanning, PrunesRest, MirrorsAll, TextsAreFiles, Present, Mirrored,
                    Linked, Stored
      <4>3. /\ Refills(L) => Refills(L)'
            /\ \A d : Rebuilt(d) => Rebuilt(d)'
        BY <3>1 DEF Refills, TextsAreFiles, Linked, StoredDocs, Stored, Rebuilt, Indexed
      <4>4. Stage(L) => Stage(L)'
        BY <4>2, <4>3 DEF Stage
      <4> QED BY <3>2, <4>1, <4>4 DEF Sure
    <3> QED BY <3>1, <3>2 DEF SuccessInv, Idle
  <2> QED BY <2>1, <2>2, <2>3, <2>4, <2>5 DEF Next, Quiet
<1>3. Spec => []TypeInv
  BY TypesHold
<1>4. Spec => []IndexInv
  BY IndexHolds
<1> QED BY <1>1, <1>2, <1>3, <1>4, PTL DEF Spec

\* In every reachable state success means what it says, of an operation that no
\* other one, no change of the files and no restart has come between: a
\* knowledge base about to be marked ready has the right number of documents, a
\* sync about to report success has left one document per file with its text,
\* and a resync about to do so has left the index exactly the chunks of the
\* documents, whatever failures before have made of it.
THEOREM SuccessStaysTrue == Spec => []SuccessIsTrue
<1>1. SuccessInv => SuccessIsTrue
  <2> SUFFICES ASSUME SuccessInv PROVE SuccessIsTrue
    OBVIOUS
  <2>1. ASSUME NEW t \in alone, NEW call, At(t, call), thread[t].op # "edit",
               thread[t].result = "ready"
        PROVE  \E L : /\ L = thread[t] /\ Is(L, {call}) /\ Counted(L)
                      /\ L.op \in Syncs => Stage(L)
    <3>1. PICK L : L = thread[t] /\ Sure(L)
      BY DEF SuccessInv
    <3>2. L.plan # << >> /\ Head(L.plan) = call
      BY <2>1, <3>1 DEF At, Idle
    <3> QED BY <2>1, <3>1, <3>2 DEF Sure, Is
  <2>2. ReadyCountIsExact
    BY <2>1 DEF ReadyCountIsExact, Counted, Is
  <2>3. ASSUME NEW t \in alone, At(t, "finish"), thread[t].op \in Syncs, thread[t].result = "ready"
        PROVE  /\ thread[t].op = "sync" => MirrorsAll
               /\ thread[t].op = "resync" => \A d \in Docs : Rebuilt(d)
    <3>1. PICK L : L = thread[t] /\ Is(L, {"finish"}) /\ Stage(L)
      BY <2>1, <2>3 DEF Syncs
    <3> QED BY <3>1 DEF Stage, Is, Late
  <2>4. SyncMirrorsFiles
    BY <2>3 DEF SyncMirrorsFiles, MirrorsAll, Mirrored, Syncs
  <2>5. ResyncRebuilds
    BY <2>3 DEF ResyncRebuilds, Rebuilt, Syncs
  <2> QED BY <2>2, <2>4, <2>5 DEF SuccessIsTrue
<1>2. Spec => []SuccessInv
  BY SuccessHolds
<1> QED BY <1>1, <1>2, PTL
=============================================================================
