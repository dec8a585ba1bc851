--------------------------- MODULE DeploymentsProofs ---------------------------
(***************************************************************************)
(* Proofs about the platform control plane: the active profile is complete *)
(* and what an execution resolves is sound, for every set of profiles,     *)
(* providers and threads (Deployments); the judges of a binding do not     *)
(* contradict each other, for any capabilities, models, knowledge bases    *)
(* and offers (BindingContents).                                           *)
(*                                                                         *)
(* In BindingContents, what the validators establish of a saved binding    *)
(* speaks only of the binding and of what never changes, so that it        *)
(* outlasts every change of a model or a knowledge base; that its provider *)
(* is there is kept by the deletion, which no bound provider survives.     *)
(***************************************************************************)
EXTENDS Deployments, BindingContents, TLAPS

-----------------------------------------------------------------------------
(* The inductive invariant.  Its parts are stated of the table of profiles *)
(* `ps` and of one request `w`.                                            *)

Live(ps, p) == p \in Profiles /\ ps[p].slug \in Slugs
Used(ps, p) == p \in Profiles => ps[p].slug # "unused"
Bound(ps, p, c) == Live(ps, p) => ps[p].bindings[c] # NoProvider
Whole(ps, p) == \A c \in Required : Bound(ps, p, c)
In(c, s) == \E i \in 1..Len(s) : s[i] = c

Rows == [slug : Slugs \cup {"unused", "deleted"}, bindings : Bindings]

\* Of the profiles, only one may be incomplete: the local-default that a
\* bootstrap has yet to bind.
ProfilesOK(ps) ==
  /\ ps \in [Profiles -> Rows]
  /\ \A p, q \in Profiles :
       ps[p].slug = "local-default" /\ ps[q].slug = "local-default" => p = q
  /\ \A p \in Profiles : ps[p].slug = "other" => IsComplete(ps[p].bindings)

ActiveOK(ps, ac) ==
  /\ ac \in [profile : Profiles \cup {NoProfile}, previous : Profiles \cup {NoProfile}]
  /\ ac.profile # NoProfile => Live(ps, ac.profile) /\ Whole(ps, ac.profile)

\* Steps of a bootstrap that has its profile, and those behind a bootstrap.
Booting == {"list", "seedbind", "elect", "enter"}
Working == {"find", "write", "rename", "check", "current"}
Reading == {"read", "permit", "resolved"}

\* Behind its bootstrap, a request works on a profile that is complete, or
\* gone: until then the profile may be the one that is being bound.
Prepared(ps, w) ==
  /\ Used(ps, w.on) /\ Used(ps, w.home)
  /\ w.step \in Booting => w.home \in Profiles /\ (Whole(ps, w.on) \/ w.home = w.on)
  /\ w.step = "seedbind" =>
       \A c \in Required : In(c, w.left) \/ Bound(ps, w.home, c)
  /\ w.step \in {"elect", "enter"} => Whole(ps, w.home)
  /\ w.step \in Working => Whole(ps, w.on)
  /\ w.op = "clone" /\ w.step = "write" => IsComplete(w.bindings)
  /\ w.step = "current" => w.op = "activate"

\* What is resolved so far is of one profile, and no required binding that
\* is behind was missing.
Consistent(w) ==
  w.step \in Reading =>
    /\ \A c \in Capabilities : w.from[c] \in Profiles => w.from[c] = w.home
    /\ \A c \in Required : In(c, w.left) \/ w.bindings[c] # NoProvider
    /\ w.step = "permit" =>
         /\ w.left # << >>
         /\ Head(w.left) \in Required => w.bindings[Head(w.left)] # NoProvider
    /\ w.step = "resolved" => w.left = << >>

\* A request that never saw the platform online has resolved nothing from
\* a cloud, but for the binding whose permission it is about to ask for.
Offline(w, rt) ==
  w = NoTask \/
    /\ rt = "offline"
    /\ w.step \in Reading =>
         \A c \in Capabilities : w.bindings[c] \in Cloud =>
           w.step = "permit" /\ c = Head(w.left)

TaskOK(ps, w) == w \in Tasks /\ Prepared(ps, w) /\ Consistent(w)

IInv ==
  /\ TypeOK
  /\ ProfilesOK(profiles)
  /\ ActiveOK(profiles, active)
  /\ \A t \in Threads : TaskOK(profiles, work[t])
  /\ \A t \in Threads \ online : Offline(work[t], runtime)

-----------------------------------------------------------------------------
(* What the steps have in common.                                          *)

\* A table that follows another: no profile comes back, and none that is
\* there loses a required binding.
Follows(ps, qs) ==
  \A p \in Profiles : ps[p].slug # "unused" =>
    /\ qs[p].slug # "unused"
    /\ qs[p].slug \in Slugs =>
         /\ ps[p].slug \in Slugs
         /\ \A c \in Required :
              ps[p].bindings[c] # NoProvider => qs[p].bindings[c] # NoProvider

\* What a request relies on is not lost when the table moves on.
LEMMA PreparedStays ==
  ASSUME NEW ps, NEW qs, Follows(ps, qs), NEW w \in Tasks, Prepared(ps, w)
  PROVE  Prepared(qs, w)
<1>1. ASSUME NEW p \in Profiles \cup {NoProfile}, Used(ps, p)
      PROVE  /\ Used(qs, p)
             /\ \A c \in Required : Bound(ps, p, c) => Bound(qs, p, c)
             /\ Whole(ps, p) => Whole(qs, p)
  BY <1>1 DEF Follows, Used, Bound, Whole, Live
<1>2. w.on \in Profiles \cup {NoProfile} /\ w.home \in Profiles \cup {NoProfile}
  BY DEF Tasks
<1> QED BY <1>1, <1>2 DEF Prepared

\* One request moves to w, the others stay as they are.
LEMMA TaskMoves ==
  ASSUME IInv, NEW t \in Threads, NEW w,
         work' = [work EXCEPT ![t] = w],
         ProfilesOK(profiles'), ActiveOK(profiles', active'),
         Follows(profiles, profiles'),
         runtime' \in {"online", "offline"}, spent' \in 0..MaxRequests,
         online' \subseteq Threads,
         TaskOK(profiles', w), t \in online' \/ Offline(w, runtime'),
         \A g \in Threads \ {t} : g \notin online' =>
           g \notin online /\ runtime' \in {runtime, "offline"}
  PROVE  IInv'
<1>1. /\ work \in [Threads -> Tasks] /\ w \in Tasks /\ work'[t] = w
      /\ \A g \in Threads : g # t => work'[g] = work[g]
      /\ work' \in [Threads -> Tasks]
  BY DEF IInv, TypeOK, TaskOK
<1>2. TypeOK'
  BY <1>1 DEF TypeOK, ProfilesOK, ActiveOK, Rows
<1>3. ASSUME NEW g \in Threads
      PROVE  TaskOK(profiles', work'[g])
  <2>1. CASE g = t
    BY <1>1, <2>1
  <2>2. CASE g # t
    <3>1. TaskOK(profiles, work[g]) /\ work'[g] = work[g]
      BY <1>1, <2>2 DEF IInv
    <3> QED BY <3>1, PreparedStays DEF TaskOK
  <2> QED BY <2>1, <2>2
<1>4. ASSUME NEW g \in Threads, g \notin online'
      PROVE  Offline(work'[g], runtime')
  <2>1. CASE g = t
    BY <1>1, <1>4, <2>1
  <2>2. CASE g # t
    <3>1. Offline(work[g], runtime) /\ work'[g] = work[g]
          /\ runtime' \in {runtime, "offline"}
      BY <1>1, <1>4, <2>2 DEF IInv
    <3> QED BY <3>1 DEF Offline
  <2> QED BY <2>1, <2>2
<1> QED BY <1>2, <1>3, <1>4 DEF IInv

\* One row of the table is written.
LEMMA RowWritten ==
  ASSUME IInv, NEW p \in Profiles, NEW r \in Rows,
         profiles' = [profiles EXCEPT ![p] = r],
         r.slug = "local-default" =>
           profiles[p].slug = "local-default" \/ IsFree("local-default"),
         r.slug = "other" => IsComplete(r.bindings),
         profiles[p].slug # "unused" => r.slug # "unused",
         profiles[p].slug # "unused" /\ r.slug \in Slugs =>
           /\ profiles[p].slug \in Slugs
           /\ \A c \in Required :
                profiles[p].bindings[c] # NoProvider => r.bindings[c] # NoProvider,
         active.profile = p => r.slug \in Slugs
  PROVE  /\ ProfilesOK(profiles') /\ Follows(profiles, profiles')
         /\ ActiveOK(profiles', active)
<1>1. /\ profiles \in [Profiles -> Rows] /\ profiles' \in [Profiles -> Rows]
      /\ profiles'[p] = r
      /\ \A q \in Profiles : q # p => profiles'[q] = profiles[q]
  BY DEF IInv, ProfilesOK
<1>2. ASSUME NEW q \in Profiles, NEW s \in Profiles,
             profiles'[q].slug = "local-default", profiles'[s].slug = "local-default"
      PROVE  q = s
  BY <1>1, <1>2 DEF IInv, ProfilesOK, IsFree
<1>3. ProfilesOK(profiles')
  BY <1>1, <1>2 DEF IInv, ProfilesOK
<1>4. Follows(profiles, profiles')
  BY <1>1 DEF Follows
<1>5. ActiveOK(profiles', active)
  BY <1>1, DeploymentsAssumption
     DEF IInv, ActiveOK, Live, Whole, Bound, Slugs
<1> QED BY <1>3, <1>4, <1>5

LEMMA TableStays ==
  ASSUME IInv, UNCHANGED profiles
  PROVE  ProfilesOK(profiles') /\ Follows(profiles, profiles')
  BY DEF IInv, Follows

\* What a request that is under way satisfies.
LEMMA TaskFacts ==
  ASSUME IInv, NEW t \in Threads
  PROVE  /\ work[t] \in Tasks /\ TaskOK(profiles, work[t])
         /\ t \in online \/ Offline(work[t], runtime)
         /\ ProfilesOK(profiles) /\ ActiveOK(profiles, active)
         /\ runtime \in {"online", "offline"} /\ spent \in 0..MaxRequests
         /\ online \subseteq Threads
  BY DEF IInv, TypeOK

\* A request moves on, on tables that may be written meanwhile.
LEMMA Moves ==
  ASSUME IInv, NEW t \in Threads, NEW w, Become(t, w), UNCHANGED runtime,
         ProfilesOK(profiles'), ActiveOK(profiles', active'),
         Follows(profiles, profiles'),
         TaskOK(profiles', w), t \in online \/ Offline(w, runtime)
  PROVE  IInv'
  BY TaskFacts, TaskMoves DEF Become

\* A request that only reads.
LEMMA Reads ==
  ASSUME IInv, NEW t \in Threads, NEW w, Become(t, w),
         UNCHANGED <<profiles, active, runtime>>,
         TaskOK(profiles, w), t \in online \/ Offline(w, runtime)
  PROVE  IInv'
  BY TaskFacts, TableStays, Moves

\* Nothing is asked of a thread that is idle.
LEMMA IdleOK ==
  /\ NoTask.op = "none" /\ NoTask.step = "none" /\ NoTask.left = << >>
  /\ \A ps : TaskOK(ps, NoTask)
  /\ \A rt : Offline(NoTask, rt)
<1>1. NoTask \in Tasks
  BY DeploymentsAssumption
     DEF NoTask, Task, Tasks, NoBindings, Bindings, Slugs, Capabilities
<1> QED BY <1>1, DeploymentsAssumption
       DEF NoTask, Task, Offline, TaskOK, Prepared, Consistent, Used, Booting,
           Working, Reading

\* A new request has read nothing.
LEMMA NewTask ==
  ASSUME NEW op \in Ops \cup {"none"}, NEW step \in Steps, NEW p \in Profiles \cup {NoProfile}
  PROVE  /\ Task(op, step, p) \in Tasks
         /\ Task(op, step, p).op = op /\ Task(op, step, p).step = step
         /\ Task(op, step, p).on = p /\ Task(op, step, p).home = NoProfile
         /\ Task(op, step, p).bindings = NoBindings
         /\ Task(op, step, p).from = [c \in Capabilities |-> NoProfile]
  BY DeploymentsAssumption
     DEF Task, Tasks, NoBindings, Bindings, Slugs, Capabilities

-----------------------------------------------------------------------------
(* The steps of a request and of its bootstrap.                            *)

\* At the start local-default is complete or is not there.
LEMMA InitIInv == Init => IInv
<1> SUFFICES ASSUME Init PROVE IInv
  OBVIOUS
<1>1. /\ NoBindings \in Bindings /\ Default \in Bindings
      /\ IsComplete(Default)
  BY DeploymentsAssumption DEF NoBindings, Bindings, IsComplete
<1>2. \A slug \in {"local-default", "unused"}, b \in Bindings :
        /\ Row(slug, b) \in Rows /\ Row(slug, b).slug = slug
        /\ Row(slug, b).bindings = b
  BY DEF Row, Rows, Slugs
<1>3. ProfilesOK(profiles)
  BY <1>1, <1>2 DEF Init, ProfilesOK
<1>4. ActiveOK(profiles, active)
  <2>1. CASE active = [profile |-> NoProfile, previous |-> NoProfile]
    BY <2>1 DEF ActiveOK
  <2>2. CASE \E first \in Profiles :
               /\ profiles[first] = Row("local-default", Default)
               /\ active = [profile |-> first, previous |-> NoProfile]
    BY <1>1, <1>2, <2>2 DEF ActiveOK, Live, Whole, Bound, IsComplete, Slugs
  <2> QED BY <2>1, <2>2 DEF Init
<1>5. \A t \in Threads : work[t] = NoTask
  BY DEF Init
<1>6. TypeOK
  <2>1. work \in [Threads -> Tasks]
    BY <1>5, IdleOK DEF Init, TaskOK
  <2>2. spent \in 0..MaxRequests
    BY DeploymentsAssumption DEF Init
  <2> QED BY <1>3, <1>4, <2>1, <2>2
          DEF Init, TypeOK, ProfilesOK, ActiveOK, Rows
<1> QED BY <1>3, <1>4, <1>5, <1>6, IdleOK DEF IInv

\* A request begins on a profile that was there.
LEMMA BeginKeeps ==
  ASSUME IInv, NEW t \in Threads, Begin(t)
  PROVE  IInv'
<1>1. PICK w : /\ work' = [work EXCEPT ![t] = w]
               /\ \/ \E op \in Ops, p \in Profiles \cup {NoProfile} :
                       /\ p = NoProfile \/ Exists(p)
                       /\ w = Task(op, "seed", p)
                  \/ w = Task("switch", "find", NoProfile)
  BY DEF Begin, Ops
<1>2. /\ w \in Tasks /\ w.step \in {"seed", "find"} /\ w.home = NoProfile
      /\ w.step = "find" => w.on = NoProfile
      /\ w.on = NoProfile \/ Exists(w.on)
  <2>1. "seed" \in Steps /\ "find" \in Steps /\ "switch" \in Ops
    BY DEF Steps, Ops
  <2> QED BY <1>1, <2>1, NewTask
<1>3. TaskOK(profiles, w)
  BY <1>2, DeploymentsAssumption
     DEF TaskOK, Prepared, Consistent, Booting, Working, Reading, Used, Whole,
         Bound, Live, Exists, Slugs
<1>4. t \in online' \/ Offline(w, runtime')
  BY <1>2, TaskFacts DEF Begin, Offline, Reading
<1>5. /\ online' \subseteq Threads
      /\ \A g \in Threads \ {t} : g \notin online' => g \notin online
  BY TaskFacts DEF Begin
<1>6. spent' \in 0..MaxRequests /\ runtime' = runtime /\ UNCHANGED <<profiles, active>>
  BY TaskFacts, DeploymentsAssumption DEF Begin
<1> QED BY <1>1, <1>3, <1>4, <1>5, <1>6, TaskFacts, TableStays, TaskMoves

LEMMA EscapeKeeps ==
  ASSUME IInv, NEW t \in Threads, Escape(t)
  PROVE  IInv'
  BY IdleOK, Reads DEF Escape, End

\* The profile that a bootstrap finds or inserts is the one that may be
\* incomplete.
LEMMA SeedKeeps ==
  ASSUME IInv, NEW t \in Threads, Seed(t)
  PROVE  IInv'
<1>1. PICK p \in Profiles :
        /\ \/ profiles[p].slug = "local-default" /\ UNCHANGED profiles
           \/ /\ IsFree("local-default") /\ profiles[p].slug = "unused"
              /\ Put(p, Row("local-default", NoBindings))
        /\ Become(t, [work[t] EXCEPT !.step = "list", !.home = p])
  BY DEF Seed
<1> DEFINE w == [work[t] EXCEPT !.step = "list", !.home = p]
<1>2. /\ w \in Tasks /\ w.step = "list" /\ w.home = p /\ w.on = work[t].on
      /\ Used(profiles, w.on)
  BY TaskFacts DEF Seed, Tasks, Steps, TaskOK, Prepared
<1>3. /\ ProfilesOK(profiles') /\ ActiveOK(profiles', active)
      /\ Follows(profiles, profiles') /\ profiles'[p].slug = "local-default"
      /\ \A q \in Profiles : q # p /\ profiles'[q].slug \in Slugs
           => IsComplete(profiles'[q].bindings)
  <2>1. CASE profiles[p].slug = "local-default" /\ UNCHANGED profiles
    BY <2>1, TaskFacts, TableStays DEF ProfilesOK, Slugs
  <2>2. CASE /\ IsFree("local-default") /\ profiles[p].slug = "unused"
             /\ Put(p, Row("local-default", NoBindings))
    <3>1. /\ Row("local-default", NoBindings) \in Rows
          /\ Row("local-default", NoBindings).slug = "local-default"
      BY DeploymentsAssumption DEF Row, Rows, Slugs, NoBindings, Bindings
    <3>2. /\ ProfilesOK(profiles') /\ ActiveOK(profiles', active)
          /\ Follows(profiles, profiles')
      BY <2>2, <3>1, RowWritten DEF Put, Slugs
    <3>3. profiles'[p].slug = "local-default"
      BY <2>2, <3>1, TaskFacts DEF Put, ProfilesOK
    <3> QED BY <3>2, <3>3 DEF ProfilesOK, Slugs
  <2> QED BY <1>1, <2>1, <2>2
<1>4. Used(profiles', w.on) /\ (Whole(profiles', w.on) \/ w.home = w.on)
  BY <1>2, <1>3 DEF Used, Whole, Bound, Live, IsComplete, Follows
<1>5. TaskOK(profiles', w)
  BY <1>2, <1>3, <1>4
     DEF TaskOK, Prepared, Consistent, Booting, Working, Reading, Used
<1>6. t \in online \/ Offline(w, runtime)
  BY <1>2, IdleOK, TaskFacts DEF Seed, Offline, Reading
<1> QED BY <1>1, <1>3, <1>5, <1>6, Moves DEF Seed

LEMMA ListKeeps ==
  ASSUME IInv, NEW t \in Threads, List(t)
  PROVE  IInv'
<1> DEFINE w == [work[t] EXCEPT !.step = "seedbind", !.left = SeedOrder,
                                !.bindings = profiles[work[t].home].bindings]
<1>1. work[t] \in Tasks /\ Prepared(profiles, work[t]) /\ work[t].step = "list"
  BY TaskFacts DEF TaskOK, List
<1>2. work[t].home \in Profiles /\ profiles[work[t].home].bindings \in Bindings
  BY <1>1, TaskFacts DEF Prepared, Booting, ProfilesOK, Rows
<1>3. /\ w \in Tasks /\ w.step = "seedbind" /\ w.left = SeedOrder
      /\ w.home = work[t].home /\ w.on = work[t].on
  BY <1>1, <1>2, DeploymentsAssumption DEF Tasks, Steps
<1>4. \A c \in Required : In(c, SeedOrder)
  BY DeploymentsAssumption DEF In, Capabilities
<1>5. TaskOK(profiles, w)
  BY <1>1, <1>3, <1>4
     DEF TaskOK, Prepared, Consistent, Booting, Working, Reading
<1>6. t \in online \/ Offline(w, runtime)
  BY <1>1, <1>3, IdleOK, TaskFacts DEF Offline, Reading
<1> QED BY <1>5, <1>6, Reads DEF List

\* What is in a sequence and not its head is in its tail.
LEMMA InTail ==
  ASSUME NEW S, NEW s \in Seq(S), s # << >>
  PROVE  /\ Head(s) \in S /\ Tail(s) \in Seq(S)
         /\ \A c : In(c, s) => c = Head(s) \/ In(c, Tail(s))
<1>1. ASSUME NEW c, NEW i \in 1..Len(s), s[i] = c, c # Head(s)
      PROVE  In(c, Tail(s))
  <2>1. i # 1 /\ i - 1 \in 1..Len(Tail(s)) /\ Tail(s)[i - 1] = c
    BY <1>1
  <2> QED BY <2>1 DEF In
<1> QED BY <1>1 DEF In

\* A bootstrap binds a capability, by itself or a provider it has read.
LEMMA SeedBindingKeeps ==
  ASSUME IInv, NEW t \in Threads, SeedBinding(t)
  PROVE  IInv'
<1> DEFINE p == work[t].home
           c == Head(work[t].left)
           w == [work[t] EXCEPT !.left = Tail(@)]
           r == [profiles[p] EXCEPT !.bindings[c] = Seeded(t, c)]
<1>1. /\ work[t] \in Tasks /\ Prepared(profiles, work[t])
      /\ work[t].step = "seedbind" /\ work[t].left # << >>
      /\ p \in Profiles /\ profiles[p].slug \in Slugs
  BY TaskFacts DEF TaskOK, SeedBinding, Prepared, Booting, Bind, Exists
<1>2. /\ c \in Capabilities /\ Tail(work[t].left) \in Seq(Capabilities)
      /\ \A d : In(d, work[t].left) => d = c \/ In(d, Tail(work[t].left))
  BY <1>1, InTail DEF Tasks
<1>3. Seeded(t, c) \in Providers /\ Capability[Seeded(t, c)] = c
  BY <1>1, <1>2, DeploymentsAssumption DEF Seeded, Tasks, Bindings
<1>4. /\ profiles \in [Profiles -> Rows] /\ profiles[p] \in Rows
      /\ profiles[p].bindings \in Bindings
  BY <1>1, TaskFacts DEF ProfilesOK, Rows
<1>5. [profiles[p].bindings EXCEPT ![c] = Seeded(t, c)] \in Bindings
  BY <1>2, <1>3, <1>4, DeploymentsAssumption DEF Bindings
<1>6. /\ r \in Rows /\ r.slug = profiles[p].slug
      /\ r.bindings = [profiles[p].bindings EXCEPT ![c] = Seeded(t, c)]
      /\ r.bindings[c] # NoProvider
      /\ \A d \in Capabilities : profiles[p].bindings[d] # NoProvider
           => r.bindings[d] # NoProvider
  BY <1>2, <1>3, <1>4, <1>5, DeploymentsAssumption DEF Rows, Bindings
<1>7. profiles' = [profiles EXCEPT ![p] = r]
  BY <1>4 DEF SeedBinding, Bind
<1>8. r.slug = "other" => IsComplete(r.bindings)
  BY <1>1, <1>6, TaskFacts, DeploymentsAssumption DEF ProfilesOK, IsComplete
<1>9. /\ w \in Tasks /\ w.step = "seedbind" /\ w.left = Tail(work[t].left)
      /\ w.home = p /\ w.on = work[t].on
  BY <1>1, <1>2 DEF Tasks
<1>10. \A d \in Required : profiles[p].bindings[d] # NoProvider
         => r.bindings[d] # NoProvider
  BY <1>6, DeploymentsAssumption
<1>11. r.slug \in Slugs /\ r.slug # "unused"
  BY <1>1, <1>6 DEF Slugs
<1> HIDE DEF p, c, w, r
<1>12. /\ ProfilesOK(profiles') /\ ActiveOK(profiles', active)
       /\ Follows(profiles, profiles')
  BY <1>1, <1>6, <1>7, <1>8, <1>10, <1>11, RowWritten
<1>13. Prepared(profiles', work[t])
  BY <1>1, <1>12, PreparedStays
<1>14. Bound(profiles', p, c)
  BY <1>1, <1>4, <1>6, <1>7 DEF Bound
<1>15. \A d \in Required : In(d, w.left) \/ Bound(profiles', p, d)
  BY <1>1, <1>2, <1>9, <1>13, <1>14 DEF Prepared, p
<1>16. TaskOK(profiles', w)
  BY <1>1, <1>9, <1>13, <1>15
     DEF TaskOK, Prepared, Consistent, Booting, Working, Reading, p
<1>17. t \in online \/ Offline(w, runtime)
  BY <1>1, <1>9, IdleOK, TaskFacts DEF Offline, Reading
<1>18. Become(t, w) /\ UNCHANGED <<active, runtime>>
  BY DEF SeedBinding, w
<1> QED BY <1>12, <1>16, <1>17, <1>18, Moves

\* Behind the bootstrap a request works on its own profile, or resolves.
LEMMA BootedOK ==
  ASSUME IInv, NEW t \in Threads, work[t] # NoTask,
         Whole(profiles, work[t].on)
  PROVE  /\ TaskOK(profiles, Booted(t))
         /\ t \in online \/ Offline(Booted(t), runtime)
<1>1. work[t] \in Tasks /\ Used(profiles, work[t].on)
  BY TaskFacts DEF TaskOK, Prepared
<1>2. /\ work[t].op \in Ops \cup {"none"}
      /\ work[t].on \in Profiles \cup {NoProfile}
  BY <1>1 DEF Tasks
<1>3. t \in online \/ runtime = "offline"
  BY TaskFacts DEF Offline
<1>4. Used(profiles, NoProfile) /\ Whole(profiles, NoProfile)
  BY DeploymentsAssumption DEF Used, Whole, Bound, Live
<1>5. CASE work[t].op = "resolve"
  <2> DEFINE v == Task("resolve", "read", NoProfile)
             w == [v EXCEPT !.left = ResolveOrder]
  <2>1. /\ v \in Tasks /\ v.op = "resolve" /\ v.step = "read"
        /\ v.on = NoProfile /\ v.home = NoProfile /\ v.bindings = NoBindings
        /\ v.from = [c \in Capabilities |-> NoProfile]
    BY NewTask DEF Ops, Steps
  <2>2. Booted(t) = w
    BY <1>5 DEF Booted
  <2> HIDE DEF v
  <2>3. /\ w \in Tasks /\ w.op = "resolve" /\ w.step = "read"
        /\ w.on = NoProfile /\ w.home = NoProfile /\ w.bindings = NoBindings
        /\ w.from = [c \in Capabilities |-> NoProfile]
        /\ w.left = ResolveOrder
    BY <2>1, DeploymentsAssumption DEF Tasks
  <2> HIDE DEF w
  <2>4. \A c \in Required : In(c, ResolveOrder)
    BY DeploymentsAssumption DEF In
  <2>5. \A c \in Capabilities : w.from[c] \notin Profiles /\ w.bindings[c] \notin Cloud
    BY <2>3, DeploymentsAssumption DEF NoBindings
  <2>6. TaskOK(profiles, w)
    BY <1>4, <2>3, <2>4, <2>5
       DEF TaskOK, Prepared, Consistent, Booting, Working, Reading
  <2> QED BY <1>3, <2>2, <2>3, <2>5, <2>6 DEF Offline
<1>6. CASE work[t].op # "resolve"
  <2> DEFINE w == Task(work[t].op, "find", work[t].on)
  <2>1. Booted(t) = w
    BY <1>6 DEF Booted
  <2>2. /\ w \in Tasks /\ w.step = "find" /\ w.on = work[t].on
        /\ w.home = NoProfile
    BY <1>2, NewTask DEF Steps
  <2> HIDE DEF w
  <2>3. TaskOK(profiles, w)
    BY <1>1, <1>4, <2>2
       DEF TaskOK, Prepared, Consistent, Booting, Working, Reading
  <2> QED BY <1>3, <2>1, <2>2, <2>3 DEF Offline, Reading
<1> QED BY <1>5, <1>6

\* A step that leaves what the request holds.
LEMMA GoesOn ==
  ASSUME IInv, NEW t \in Threads, work[t] # NoTask, NEW step \in Steps,
         step \notin Reading,
         Goto(t, step), UNCHANGED <<profiles, active, runtime>>,
         Prepared(profiles, [work[t] EXCEPT !.step = step])
  PROVE  IInv'
<1> DEFINE w == [work[t] EXCEPT !.step = step]
<1>1. w \in Tasks /\ w.step = step
  BY TaskFacts DEF Tasks
<1>2. TaskOK(profiles, w)
  BY <1>1 DEF TaskOK, Consistent
<1>3. t \in online \/ Offline(w, runtime)
  BY <1>1, TaskFacts DEF Offline
<1>4. Become(t, w)
  BY TaskFacts DEF Goto, Become, IInv, TypeOK
<1> QED BY <1>2, <1>3, <1>4, Reads

LEMMA ElectKeeps ==
  ASSUME IInv, NEW t \in Threads, Elect(t)
  PROVE  IInv'
<1>1. /\ work[t] \in Tasks /\ Prepared(profiles, work[t])
      /\ work[t].step = "seedbind" /\ work[t].left = << >> /\ work[t] # NoTask
  BY TaskFacts, IdleOK DEF TaskOK, Elect
<1>2. Whole(profiles, work[t].home)
  BY <1>1 DEF Prepared, In, Whole
<1>3. Whole(profiles, work[t].on)
  BY <1>1, <1>2 DEF Prepared, Booting
<1>4. CASE Goto(t, "elect")
  <2>1. Prepared(profiles, [work[t] EXCEPT !.step = "elect"])
    BY <1>1, <1>2 DEF Prepared, Booting, Working, Tasks
  <2> QED BY <1>1, <1>4, <2>1, GoesOn DEF Elect, Steps, Reading, Booting
<1>5. CASE Become(t, Booted(t))
  BY <1>1, <1>3, <1>5, BootedOK, Reads DEF Elect
<1> QED BY <1>4, <1>5 DEF Elect

-----------------------------------------------------------------------------
(* Activations.                                                            *)

\* A request of a profile that is complete, at a later step.
LEMMA WorksOn ==
  ASSUME IInv, NEW t \in Threads, work[t] # NoTask, NEW w \in Tasks,
         w.on = work[t].on, Used(profiles, w.home),
         w.step \in Working, Whole(profiles, w.on),
         w.op = "clone" /\ w.step = "write" => IsComplete(w.bindings),
         w.step = "current" => w.op = "activate"
  PROVE  TaskOK(profiles, w) /\ (t \in online \/ Offline(w, runtime))
<1>1. TaskOK(profiles, w)
  BY TaskFacts
     DEF TaskOK, Prepared, Consistent, Booting, Working, Reading
<1> QED BY <1>1, TaskFacts DEF Offline, Working, Reading

LEMMA CurrentKeeps ==
  ASSUME IInv, NEW t \in Threads, Current(t)
  PROVE  IInv'
<1> DEFINE w == [work[t] EXCEPT !.step = IF @ = "elect" THEN "enter" ELSE "write",
                                !.from = [c \in Capabilities |-> active.profile]]
<1>1. /\ work[t] \in Tasks /\ Prepared(profiles, work[t]) /\ work[t] # NoTask
      /\ work[t].step \in {"elect", "current"}
      /\ active.profile \in Profiles \cup {NoProfile}
  BY TaskFacts, IdleOK DEF TaskOK, Current, ActiveOK
<1>2. /\ w \in Tasks /\ w.on = work[t].on /\ w.home = work[t].home
      /\ w.op = work[t].op /\ w.bindings = work[t].bindings
      /\ w.step = IF work[t].step = "elect" THEN "enter" ELSE "write"
  BY <1>1 DEF Tasks, Steps
<1> HIDE DEF w
<1>3. TaskOK(profiles, w)
  BY <1>1, <1>2
     DEF TaskOK, Prepared, Consistent, Booting, Working, Reading
<1>4. t \in online \/ Offline(w, runtime)
  BY <1>1, <1>2, TaskFacts DEF Offline, Reading
<1>5. Become(t, w) /\ UNCHANGED <<profiles, active, runtime>>
  BY DEF Current, w
<1> QED BY <1>3, <1>4, <1>5, Reads

\* A profile is entered only while it is there and complete.
LEMMA EnterOK ==
  ASSUME IInv, NEW t \in Threads, NEW p \in Profiles, Whole(profiles, p),
         Enter(t, p)
  PROVE  ActiveOK(profiles', active') /\ UNCHANGED <<profiles, runtime>>
<1>1. SeedOrder[1] \in Capabilities
  BY DeploymentsAssumption
<1>2. Previous(t) \in Profiles \cup {NoProfile}
  BY <1>1, TaskFacts DEF Previous, Tasks
<1> QED BY <1>2 DEF Enter, ActiveOK, Exists, Live

LEMMA ActivateFirstKeeps ==
  ASSUME IInv, NEW t \in Threads, ActivateFirst(t)
  PROVE  IInv'
<1>1. /\ work[t] \in Tasks /\ Prepared(profiles, work[t]) /\ work[t] # NoTask
      /\ work[t].step = "enter"
  BY TaskFacts, IdleOK DEF TaskOK, ActivateFirst
<1>2. /\ work[t].home \in Profiles /\ Whole(profiles, work[t].home)
      /\ Whole(profiles, work[t].on)
  BY <1>1 DEF Prepared, Booting
<1>3. ActiveOK(profiles', active') /\ UNCHANGED <<profiles, runtime>>
  BY <1>2, EnterOK DEF ActivateFirst
<1>4. /\ TaskOK(profiles, Booted(t))
      /\ t \in online \/ Offline(Booted(t), runtime)
  BY <1>1, <1>2, BootedOK
<1> QED BY <1>3, <1>4, TableStays, Moves DEF ActivateFirst

LEMMA ActivateKeeps ==
  ASSUME IInv, NEW t \in Threads, Activate(t)
  PROVE  IInv'
<1>1. Prepared(profiles, work[t]) /\ work[t].step = "write"
  BY TaskFacts DEF TaskOK, Activate, At
<1>2. work[t].on \in Profiles /\ Whole(profiles, work[t].on)
  BY <1>1 DEF Prepared, Working, Activate, Enter, Exists
<1>3. ActiveOK(profiles', active') /\ UNCHANGED <<profiles, runtime>>
  BY <1>2, EnterOK DEF Activate
<1> QED BY <1>3, IdleOK, TableStays, Moves DEF Activate, End

LEMMA FindBindingsKeeps ==
  ASSUME IInv, NEW t \in Threads, FindBindings(t)
  PROVE  IInv'
<1> DEFINE w == [work[t] EXCEPT !.step = "check",
                                !.bindings = profiles[work[t].on].bindings]
<1>1. /\ work[t] \in Tasks /\ Prepared(profiles, work[t]) /\ work[t] # NoTask
      /\ work[t].step = "find" /\ work[t].on \in Profiles
  BY TaskFacts, IdleOK DEF TaskOK, FindBindings, At, Exists
<1>2. profiles[work[t].on].bindings \in Bindings
  BY <1>1, TaskFacts DEF ProfilesOK, Rows
<1>3. /\ w \in Tasks /\ w.on = work[t].on /\ w.home = work[t].home
      /\ w.step = "check"
  BY <1>1, <1>2 DEF Tasks, Steps
<1> HIDE DEF w
<1>4. TaskOK(profiles, w) /\ (t \in online \/ Offline(w, runtime))
  BY <1>1, <1>3, WorksOn DEF Prepared, Working
<1>5. Become(t, w) /\ UNCHANGED <<profiles, active, runtime>>
  BY DEF FindBindings, w
<1> QED BY <1>4, <1>5, Reads

LEMMA PreflightKeeps ==
  ASSUME IInv, NEW t \in Threads, Preflight(t)
  PROVE  IInv'
<1>1. /\ work[t] \in Tasks /\ Prepared(profiles, work[t]) /\ work[t] # NoTask
      /\ work[t].step = "check" /\ work[t].op = "activate"
  BY TaskFacts, IdleOK DEF TaskOK, Preflight, At
<1>2. Prepared(profiles, [work[t] EXCEPT !.step = "current"])
  BY <1>1 DEF Prepared, Booting, Working, Tasks
<1> QED BY <1>1, <1>2, GoesOn DEF Preflight, Steps, Reading

-----------------------------------------------------------------------------
(* The edits.                                                              *)

\* A profile that is inserted is complete.
LEMMA Inserted ==
  ASSUME IInv, NEW slug \in Slugs, NEW b \in Bindings, IsComplete(b),
         Insert(slug, b)
  PROVE  /\ ProfilesOK(profiles') /\ Follows(profiles, profiles')
         /\ ActiveOK(profiles', active)
<1>1. PICK p \in Profiles : profiles[p].slug = "unused" /\ Put(p, Row(slug, b))
  BY DEF Insert
<1>2. /\ Row(slug, b) \in Rows /\ Row(slug, b).slug = slug
      /\ Row(slug, b).bindings = b
  BY DEF Row, Rows
<1>3. IsFree(slug)
  BY DEF Insert
<1> QED BY <1>1, <1>2, <1>3, RowWritten DEF Put, Slugs

LEMMA CreateKeeps ==
  ASSUME IInv, NEW t \in Threads, Create(t)
  PROVE  IInv'
  BY Inserted, IdleOK, Moves DEF Create, End

LEMMA FindSourceKeeps ==
  ASSUME IInv, NEW t \in Threads, FindSource(t)
  PROVE  IInv'
<1> DEFINE w == [work[t] EXCEPT !.step = "write",
                                !.bindings = profiles[work[t].on].bindings]
<1>1. /\ work[t] \in Tasks /\ Prepared(profiles, work[t]) /\ work[t] # NoTask
      /\ work[t].step = "find" /\ Exists(work[t].on)
  BY TaskFacts, IdleOK DEF TaskOK, FindSource, At
<1>2. /\ profiles[work[t].on].bindings \in Bindings
      /\ Whole(profiles, work[t].on)
      /\ IsComplete(profiles[work[t].on].bindings)
  BY <1>1, TaskFacts
     DEF Exists, ProfilesOK, Rows, Prepared, Working, Whole, Bound, Live, IsComplete
<1>3. /\ w \in Tasks /\ w.on = work[t].on /\ w.home = work[t].home
      /\ w.step = "write" /\ IsComplete(w.bindings)
  BY <1>1, <1>2 DEF Tasks, Steps
<1> HIDE DEF w
<1>4. TaskOK(profiles, w) /\ (t \in online \/ Offline(w, runtime))
  BY <1>1, <1>2, <1>3, WorksOn DEF Prepared, Working
<1>5. Become(t, w) /\ UNCHANGED <<profiles, active, runtime>>
  BY DEF FindSource, w
<1> QED BY <1>4, <1>5, Reads

LEMMA CloneKeeps ==
  ASSUME IInv, NEW t \in Threads, Clone(t)
  PROVE  IInv'
<1>1. work[t].bindings \in Bindings /\ IsComplete(work[t].bindings)
  BY TaskFacts DEF Clone, At, TaskOK, Prepared, Tasks
<1> QED BY <1>1, Inserted, IdleOK, Moves DEF Clone, End

\* A request that writes a row of its profile that is complete.
LEMMA UpdateKeeps ==
  ASSUME IInv, NEW t \in Threads, Update(t)
  PROVE  IInv'
<1> DEFINE p == work[t].on
<1>1. PICK slug \in Slugs, b \in Bindings :
        /\ IsComplete(b)
        /\ IsFree(slug) \/ profiles[p].slug = slug
        /\ Put(p, Row(slug, b))
  BY DEF Update
<1>2. p \in Profiles /\ profiles[p].slug \in Slugs
  BY DEF Update, Exists
<1>3. /\ Row(slug, b) \in Rows /\ Row(slug, b).slug = slug
      /\ Row(slug, b).bindings = b
  BY DEF Row, Rows
<1>4. \A c \in Required : Row(slug, b).bindings[c] # NoProvider
  BY <1>1, <1>3 DEF IsComplete
<1> HIDE DEF p
<1>5. /\ ProfilesOK(profiles') /\ Follows(profiles, profiles')
      /\ ActiveOK(profiles', active)
  BY <1>1, <1>2, <1>3, <1>4, RowWritten DEF Put, Slugs
<1> QED BY <1>5, IdleOK, Moves DEF Update, End

LEMMA FindIdentityKeeps ==
  ASSUME IInv, NEW t \in Threads, FindIdentity(t)
  PROVE  IInv'
<1>1. PICK slug \in Slugs :
        Become(t, [work[t] EXCEPT !.slug = slug,
                     !.step = IF work[t].op = "identify" THEN "rename" ELSE "write"])
  <2>1. Exists(work[t].on) => profiles[work[t].on].slug \in Slugs
    BY DEF Exists
  <2> QED BY <2>1 DEF FindIdentity
<1> DEFINE w == [work[t] EXCEPT !.slug = slug,
                   !.step = IF work[t].op = "identify" THEN "rename" ELSE "write"]
<1>2. /\ work[t] \in Tasks /\ Prepared(profiles, work[t]) /\ work[t] # NoTask
      /\ work[t].step = "find" /\ work[t].op \in {"identify", "bind"}
  BY TaskFacts, IdleOK DEF TaskOK, FindIdentity, At
<1>3. /\ w \in Tasks /\ w.on = work[t].on /\ w.home = work[t].home
      /\ w.step \in {"rename", "write"} /\ w.op = work[t].op
  BY <1>2 DEF Tasks, Steps
<1> HIDE DEF w
<1>4. TaskOK(profiles, w) /\ (t \in online \/ Offline(w, runtime))
  BY <1>2, <1>3, WorksOn DEF Prepared, Working
<1>5. UNCHANGED <<profiles, active, runtime>>
  BY DEF FindIdentity
<1> QED BY <1>1, <1>4, <1>5, Reads DEF w

\* A binding is written again, never removed.
LEMMA UpsertKeeps ==
  ASSUME IInv, NEW t \in Threads, Upsert(t)
  PROVE  IInv'
<1> DEFINE p == work[t].on
           w == [work[t] EXCEPT !.step = "rename"]
<1>1. PICK x \in Providers : Bind(p, Capability[x], x)
  BY DEF Upsert
<1> DEFINE c == Capability[x]
           b == [profiles[p].bindings EXCEPT ![c] = x]
           r == [profiles[p] EXCEPT !.bindings[c] = x]
<1>2. p \in Profiles /\ profiles[p].slug \in Slugs /\ c \in Capabilities
  BY <1>1, DeploymentsAssumption DEF Bind, Exists
<1>3. /\ profiles \in [Profiles -> Rows] /\ profiles[p] \in Rows
      /\ profiles[p].bindings \in Bindings
  BY <1>2, TaskFacts DEF ProfilesOK, Rows
<1>4. b \in Bindings /\ \A d \in Capabilities :
        profiles[p].bindings[d] # NoProvider => b[d] # NoProvider
  BY <1>2, <1>3, DeploymentsAssumption DEF Bindings
<1>5. r \in Rows /\ r.slug = profiles[p].slug /\ r.bindings = b
  BY <1>3, <1>4 DEF Rows
<1>6. profiles' = [profiles EXCEPT ![p] = r]
  BY <1>1, <1>3 DEF Bind
<1>7. r.slug = "other" => IsComplete(r.bindings)
  BY <1>2, <1>4, <1>5, TaskFacts, DeploymentsAssumption DEF ProfilesOK, IsComplete
<1>8. \A d \in Required : profiles[p].bindings[d] # NoProvider
        => r.bindings[d] # NoProvider
  BY <1>4, <1>5, DeploymentsAssumption
<1>9. r.slug \in Slugs /\ r.slug # "unused"
  BY <1>2, <1>5 DEF Slugs
<1>10. /\ work[t] \in Tasks /\ Prepared(profiles, work[t]) /\ work[t] # NoTask
       /\ work[t].step = "write"
  BY TaskFacts, IdleOK DEF TaskOK, Upsert, At
<1>11. w \in Tasks /\ w.step = "rename" /\ Prepared(profiles, w)
  BY <1>10 DEF Tasks, Steps, Prepared, Booting, Working
<1>12. Become(t, w) /\ UNCHANGED <<active, runtime>>
  BY TaskFacts DEF Upsert, Goto, Become, IInv, TypeOK
<1> HIDE DEF p, c, b, r, w
<1>13. /\ ProfilesOK(profiles') /\ ActiveOK(profiles', active)
       /\ Follows(profiles, profiles')
  BY <1>2, <1>5, <1>6, <1>7, <1>8, <1>9, RowWritten
<1>14. TaskOK(profiles', w)
  BY <1>11, <1>13, PreparedStays DEF TaskOK, Consistent, Reading
<1>15. t \in online \/ Offline(w, runtime)
  BY <1>10, <1>11, TaskFacts DEF Offline, Reading
<1> QED BY <1>12, <1>13, <1>14, <1>15, Moves

LEMMA IdentifyKeeps ==
  ASSUME IInv, NEW t \in Threads, Identify(t)
  PROVE  IInv'
<1> DEFINE p == work[t].on
           r == [profiles[p] EXCEPT !.slug = work[t].slug]
<1>1. /\ work[t] \in Tasks /\ Prepared(profiles, work[t])
      /\ work[t].step = "rename" /\ Rename(p, work[t].slug)
      /\ profiles \in [Profiles -> Rows]
  BY TaskFacts DEF TaskOK, Identify, ProfilesOK
<1>2. CASE ~Exists(p)
  <2>1. UNCHANGED profiles
    BY <1>1, <1>2 DEF Rename, Rows
  <2> QED BY <2>1, TaskFacts, TableStays, IdleOK, Moves DEF Identify, End
<1>3. CASE Exists(p)
  <2>1. p \in Profiles /\ profiles[p].slug \in Slugs
    BY <1>3 DEF Exists
  <2>2. /\ r \in Rows /\ r.slug = work[t].slug /\ r.slug \in Slugs
        /\ r.bindings = profiles[p].bindings
    BY <1>1, <2>1 DEF Rows, Tasks
  <2>3. profiles' = [profiles EXCEPT ![p] = r]
    BY <1>1, <1>3 DEF Rename
  <2>4. IsComplete(profiles[p].bindings)
    BY <1>1, <2>1 DEF Prepared, Working, Whole, Bound, Live, IsComplete
  <2>5. IsFree(r.slug) \/ profiles[p].slug = r.slug
    BY <1>1, <2>2 DEF Rename
  <2> HIDE DEF r
  <2>6. /\ ProfilesOK(profiles') /\ Follows(profiles, profiles')
        /\ ActiveOK(profiles', active)
    BY <2>1, <2>2, <2>3, <2>4, <2>5, RowWritten DEF Slugs
  <2> QED BY <2>6, IdleOK, Moves DEF Identify, End
<1> QED BY <1>2, <1>3

LEMMA FindInactiveKeeps ==
  ASSUME IInv, NEW t \in Threads, FindInactive(t)
  PROVE  IInv'
<1>1. /\ work[t] \in Tasks /\ Prepared(profiles, work[t]) /\ work[t] # NoTask
      /\ work[t].step = "find" /\ work[t].op = "unbind"
  BY TaskFacts, IdleOK DEF TaskOK, FindInactive, At
<1>2. Prepared(profiles, [work[t] EXCEPT !.step = "write"])
  BY <1>1 DEF Prepared, Booting, Working, Tasks
<1> QED BY <1>1, <1>2, GoesOn DEF FindInactive, Steps, Reading

\* Only an optional binding is removed.
LEMMA UnbindKeeps ==
  ASSUME IInv, NEW t \in Threads, Unbind(t)
  PROVE  IInv'
<1> DEFINE p == work[t].on
<1>1. PICK c \in Optional :
        profiles' = [profiles EXCEPT ![p].bindings[c] = NoProvider]
  BY DEF Unbind, Removable
<1> DEFINE b == [profiles[p].bindings EXCEPT ![c] = NoProvider]
           r == [profiles[p] EXCEPT !.bindings[c] = NoProvider]
<1>2. /\ p \in Profiles /\ profiles[p].slug \in Slugs
      /\ c \in Capabilities /\ c \notin Required
  BY DEF Unbind, Exists, Optional
<1>3. /\ profiles \in [Profiles -> Rows] /\ profiles[p] \in Rows
      /\ profiles[p].bindings \in Bindings
  BY <1>2, TaskFacts DEF ProfilesOK, Rows
<1>4. b \in Bindings /\ \A d \in Required : b[d] = profiles[p].bindings[d]
  BY <1>2, <1>3, DeploymentsAssumption DEF Bindings
<1>5. r \in Rows /\ r.slug = profiles[p].slug /\ r.bindings = b
  BY <1>3, <1>4 DEF Rows
<1>6. profiles' = [profiles EXCEPT ![p] = r]
  BY <1>1, <1>3
<1>7. r.slug = "other" => IsComplete(r.bindings)
  BY <1>2, <1>4, <1>5, TaskFacts DEF ProfilesOK, IsComplete
<1>8. \A d \in Required : profiles[p].bindings[d] # NoProvider
        => r.bindings[d] # NoProvider
  BY <1>4, <1>5
<1>9. r.slug \in Slugs /\ r.slug # "unused"
  BY <1>2, <1>5 DEF Slugs
<1> HIDE DEF p, b, r
<1>10. /\ ProfilesOK(profiles') /\ ActiveOK(profiles', active)
       /\ Follows(profiles, profiles')
  BY <1>2, <1>5, <1>6, <1>7, <1>8, <1>9, RowWritten
<1> QED BY <1>10, IdleOK, Moves DEF Unbind, End

LEMMA FindDeletableKeeps ==
  ASSUME IInv, NEW t \in Threads, FindDeletable(t)
  PROVE  IInv'
<1>1. /\ work[t] \in Tasks /\ Prepared(profiles, work[t]) /\ work[t] # NoTask
      /\ work[t].step = "find" /\ work[t].op = "delete"
  BY TaskFacts, IdleOK DEF TaskOK, FindDeletable, At
<1>2. Prepared(profiles, [work[t] EXCEPT !.step = "write"])
  BY <1>1 DEF Prepared, Booting, Working, Tasks
<1> QED BY <1>1, <1>2, GoesOn DEF FindDeletable, Steps, Reading

\* The profile that is active is not deleted; the one before may be.
LEMMA DeleteKeeps ==
  ASSUME IInv, NEW t \in Threads, Delete(t)
  PROVE  IInv'
<1> DEFINE p == work[t].on
<1>1. p \in Profiles /\ profiles[p].slug \in Slugs /\ active.profile # p
  BY DEF Delete, Exists, IsRestricted
<1>2. /\ Row("deleted", NoBindings) \in Rows
      /\ Row("deleted", NoBindings).slug = "deleted"
  BY DeploymentsAssumption DEF Row, Rows, Slugs, NoBindings, Bindings
<1>3. profiles' = [profiles EXCEPT ![p] = Row("deleted", NoBindings)]
  BY DEF Delete, Put
<1> HIDE DEF p
<1>4. /\ ProfilesOK(profiles') /\ ActiveOK(profiles', active)
      /\ Follows(profiles, profiles')
  BY <1>1, <1>2, <1>3, RowWritten DEF Slugs
<1>5. ActiveOK(profiles', active')
  BY <1>4 DEF Delete, ActiveOK
<1> QED BY <1>4, <1>5, IdleOK, Moves DEF Delete, End

-----------------------------------------------------------------------------
(* The runtime profile.                                                    *)

LEMMA FindActiveKeeps ==
  ASSUME IInv, NEW t \in Threads, FindActive(t)
  PROVE  IInv'
<1> DEFINE w == [work[t] EXCEPT !.step = "check", !.home = active.profile]
<1>1. /\ work[t] \in Tasks /\ Prepared(profiles, work[t]) /\ work[t] # NoTask
      /\ work[t].step = "find" /\ work[t].op = "switch"
  BY TaskFacts, IdleOK DEF TaskOK, FindActive, At
<1>2. active.profile \in Profiles /\ profiles[active.profile].slug \in Slugs
  BY TaskFacts DEF FindActive, ActiveOK, Live
<1>3. /\ w \in Tasks /\ w.on = work[t].on /\ w.home = active.profile
      /\ w.step = "check" /\ Used(profiles, w.home)
  BY <1>1, <1>2 DEF Tasks, Steps, Used, Slugs
<1> HIDE DEF w
<1>4. TaskOK(profiles, w) /\ (t \in online \/ Offline(w, runtime))
  BY <1>1, <1>3, WorksOn DEF Prepared, Working
<1>5. Become(t, w) /\ UNCHANGED <<profiles, active, runtime>>
  BY DEF FindActive, w
<1> QED BY <1>4, <1>5, Reads

LEMMA CheckOfflineKeeps ==
  ASSUME IInv, NEW t \in Threads, CheckOffline(t)
  PROVE  IInv'
<1>1. /\ work[t] \in Tasks /\ Prepared(profiles, work[t]) /\ work[t] # NoTask
      /\ work[t].step = "check" /\ work[t].op = "switch"
  BY TaskFacts, IdleOK DEF TaskOK, CheckOffline, At
<1>2. Prepared(profiles, [work[t] EXCEPT !.step = "write"])
  BY <1>1 DEF Prepared, Booting, Working, Tasks
<1> QED BY <1>1, <1>2, GoesOn DEF CheckOffline, Steps, Reading

LEMMA SwitchOfflineKeeps ==
  ASSUME IInv, NEW t \in Threads, SwitchOffline(t)
  PROVE  IInv'
<1>1. /\ work' = [work EXCEPT ![t] = NoTask] /\ runtime' = "offline"
      /\ UNCHANGED <<profiles, active, spent, online>>
  BY DEF SwitchOffline, End, Become
<1> QED BY <1>1, IdleOK, TaskFacts, TableStays, TaskMoves

\* Every request that is under way has now seen the platform online.
LEMMA SwitchOnlineKeeps ==
  ASSUME IInv, NEW t \in Threads, SwitchOnline(t)
  PROVE  IInv'
<1>1. /\ work' = [work EXCEPT ![t] = NoTask] /\ runtime' = "online"
      /\ online' = Threads /\ UNCHANGED <<profiles, active, spent>>
  BY DEF SwitchOnline
<1> QED BY <1>1, IdleOK, TaskFacts, TableStays, TaskMoves

-----------------------------------------------------------------------------
(* Resolutions.                                                            *)

\* A binding is read of the profile that is active, which is complete.
LEMMA ReadBindingKeeps ==
  ASSUME IInv, NEW t \in Threads, ReadBinding(t)
  PROVE  IInv'
<1> DEFINE c == Head(work[t].left)
           b == profiles[active.profile].bindings[c]
<1>1. /\ work[t] \in Tasks /\ Prepared(profiles, work[t])
      /\ Consistent(work[t]) /\ work[t] # NoTask
      /\ work[t].step = "read" /\ work[t].op = "resolve" /\ work[t].left # << >>
  BY TaskFacts, IdleOK DEF TaskOK, ReadBinding, At
<1>2. /\ c \in Capabilities /\ Tail(work[t].left) \in Seq(Capabilities)
      /\ \A d : In(d, work[t].left) => d = c \/ In(d, Tail(work[t].left))
  BY <1>1, InTail DEF Tasks
<1>3. CASE /\ c \in Optional
           /\ Become(t, [work[t] EXCEPT !.left = Tail(@)])
  <2> DEFINE w == [work[t] EXCEPT !.left = Tail(@)]
  <2>1. /\ w \in Tasks /\ w.step = "read" /\ w.op = "resolve"
        /\ w.on = work[t].on /\ w.home = work[t].home
        /\ w.left = Tail(work[t].left) /\ w.bindings = work[t].bindings
        /\ w.from = work[t].from
    BY <1>1, <1>2 DEF Tasks
  <2> HIDE DEF w
  <2>2. Prepared(profiles, w)
    BY <1>1, <2>1 DEF Prepared, Booting, Working
  <2>3. Consistent(w)
    BY <1>1, <1>2, <1>3, <2>1 DEF Consistent, Optional, Reading
  <2>4. t \in online \/ Offline(w, runtime)
    BY <1>1, <2>1, TaskFacts DEF Offline, Reading
  <2>5. Become(t, w)
    BY <1>3 DEF w
  <2> QED BY <2>1, <2>2, <2>3, <2>4, <2>5, Reads DEF ReadBinding, TaskOK
<1>4. CASE /\ Fits(t, c)
           /\ Become(t, [work[t] EXCEPT
                !.step = "permit", !.home = active.profile,
                !.bindings[c] = b, !.from[c] = active.profile])
  <2> DEFINE w == [work[t] EXCEPT !.step = "permit", !.home = active.profile,
                     !.bindings[c] = b, !.from[c] = active.profile]
  <2>1. /\ active.profile \in Profiles
        /\ profiles[active.profile].slug \in Slugs
        /\ profiles[active.profile].bindings \in Bindings
        /\ c \in Required => b # NoProvider
        /\ work[t].home \in {NoProfile, active.profile}
    BY <1>4, TaskFacts DEF Fits, ActiveOK, Live, ProfilesOK, Rows
  <2>2. [work[t].bindings EXCEPT ![c] = b] \in Bindings
    BY <1>1, <1>2, <2>1 DEF Tasks, Bindings
  <2>3. /\ w \in Tasks /\ w.step = "permit" /\ w.op = "resolve"
        /\ w.on = work[t].on /\ w.home = active.profile
        /\ w.left = work[t].left
        /\ w.bindings = [work[t].bindings EXCEPT ![c] = b]
        /\ w.from = [work[t].from EXCEPT ![c] = active.profile]
    BY <1>1, <1>2, <2>1, <2>2 DEF Tasks, Steps
  <2>4. /\ w.bindings[c] = b
        /\ \A d \in Capabilities : d # c => w.bindings[d] = work[t].bindings[d]
        /\ w.from[c] = active.profile
        /\ \A d \in Capabilities : d # c => w.from[d] = work[t].from[d]
    <3>1. /\ work[t].bindings \in [Capabilities -> Providers \cup {NoProvider}]
          /\ work[t].from \in [Capabilities -> Profiles \cup {NoProfile}]
      BY <1>1 DEF Tasks, Bindings
    <3> HIDE DEF b, c, w
    <3> QED BY <1>2, <2>3, <3>1
  <2> HIDE DEF w
  <2>5. Prepared(profiles, w)
    BY <1>1, <2>1, <2>3 DEF Prepared, Booting, Working, Used, Slugs
  <2>6. Consistent(w)
    <3>1. \A d \in Capabilities : w.from[d] \in Profiles => w.from[d] = w.home
      BY <1>1, <2>1, <2>3, <2>4, DeploymentsAssumption DEF Consistent, Reading
    <3>2. \A d \in Required : In(d, w.left) \/ w.bindings[d] # NoProvider
      BY <1>1, <2>1, <2>3, <2>4, DeploymentsAssumption DEF Consistent, Reading
    <3>3. /\ w.left # << >>
          /\ Head(w.left) \in Required => w.bindings[Head(w.left)] # NoProvider
      BY <1>1, <2>1, <2>3, <2>4
    <3> QED BY <2>3, <3>1, <3>2, <3>3 DEF Consistent
  <2>7. t \in online \/ Offline(w, runtime)
    BY <1>1, <2>3, <2>4, TaskFacts DEF Offline, Reading
  <2>8. Become(t, w)
    BY <1>4 DEF w
  <2> QED BY <2>3, <2>5, <2>6, <2>7, <2>8, Reads DEF ReadBinding, TaskOK
<1> QED BY <1>3, <1>4 DEF ReadBinding

\* A binding is of no cloud, or the platform is online.
LEMMA PermitKeeps ==
  ASSUME IInv, NEW t \in Threads, Permit(t)
  PROVE  IInv'
<1> DEFINE c == Head(work[t].left)
           w == [work[t] EXCEPT !.step = "read", !.left = Tail(@)]
<1>1. /\ work[t] \in Tasks /\ Prepared(profiles, work[t])
      /\ Consistent(work[t]) /\ work[t] # NoTask
      /\ work[t].step = "permit" /\ work[t].op = "resolve" /\ work[t].left # << >>
  BY TaskFacts, IdleOK DEF TaskOK, Permit, At, Consistent, Reading
<1>2. /\ c \in Capabilities /\ Tail(work[t].left) \in Seq(Capabilities)
      /\ \A d : In(d, work[t].left) => d = c \/ In(d, Tail(work[t].left))
  BY <1>1, InTail DEF Tasks
<1>3. /\ w \in Tasks /\ w.step = "read" /\ w.op = "resolve"
      /\ w.on = work[t].on /\ w.home = work[t].home
      /\ w.left = Tail(work[t].left) /\ w.bindings = work[t].bindings
      /\ w.from = work[t].from
  BY <1>1, <1>2 DEF Tasks, Steps
<1>4. Become(t, w) /\ UNCHANGED <<profiles, active, runtime>>
  BY DEF Permit
<1>5. work[t].bindings[c] \in Cloud => runtime = "online"
  BY DEF Permit
<1> HIDE DEF w
<1>6. Prepared(profiles, w)
  BY <1>1, <1>3 DEF Prepared, Booting, Working
<1>7. Consistent(w)
  BY <1>1, <1>2, <1>3 DEF Consistent, Reading
<1>8. t \in online \/ Offline(w, runtime)
  BY <1>1, <1>3, <1>5, TaskFacts DEF Offline, Reading
<1> QED BY <1>3, <1>4, <1>6, <1>7, <1>8, Reads DEF TaskOK

LEMMA ResolvedKeeps ==
  ASSUME IInv, NEW t \in Threads, Resolved(t)
  PROVE  IInv'
<1> DEFINE w == [work[t] EXCEPT !.step = "resolved"]
<1>1. /\ work[t] \in Tasks /\ Prepared(profiles, work[t])
      /\ Consistent(work[t]) /\ work[t] # NoTask
      /\ work[t].step = "read" /\ work[t].op = "resolve" /\ work[t].left = << >>
  BY TaskFacts, IdleOK DEF TaskOK, Resolved, At
<1>2. /\ w \in Tasks /\ w.step = "resolved" /\ w.op = "resolve"
      /\ w.on = work[t].on /\ w.home = work[t].home
      /\ w.left = work[t].left /\ w.bindings = work[t].bindings
      /\ w.from = work[t].from
  BY <1>1 DEF Tasks, Steps
<1>3. Become(t, w) /\ UNCHANGED <<profiles, active, runtime>>
  BY TaskFacts DEF Resolved, Goto, Become, IInv, TypeOK
<1> HIDE DEF w
<1>4. Prepared(profiles, w) /\ Consistent(w)
  BY <1>1, <1>2 DEF Prepared, Booting, Working, Consistent, Reading
<1>5. t \in online \/ Offline(w, runtime)
  BY <1>1, <1>2, TaskFacts DEF Offline, Reading
<1> QED BY <1>2, <1>3, <1>4, <1>5, Reads DEF TaskOK

-----------------------------------------------------------------------------
(* The theorems.                                                           *)

LEMMA NextKeeps == IInv /\ [Next]_vars => IInv'
<1> SUFFICES ASSUME IInv, [Next]_vars PROVE IInv'
  OBVIOUS
<1>1. CASE UNCHANGED vars
  BY <1>1 DEF vars, IInv, TypeOK
<1>2. ASSUME NEW t \in Threads, Begin(t) \/ Escape(t)
      PROVE  IInv'
  BY <1>2, BeginKeeps, EscapeKeeps
<1>3. ASSUME NEW t \in Threads, Boot(t)
      PROVE  IInv'
  BY <1>3, SeedKeeps, ListKeeps, SeedBindingKeeps, ElectKeeps,
     ActivateFirstKeeps DEF Boot
<1>4. ASSUME NEW t \in Threads, Edit(t)
      PROVE  IInv'
  BY <1>4, CreateKeeps, FindSourceKeeps, CloneKeeps, UpdateKeeps,
     FindIdentityKeeps, UpsertKeeps, IdentifyKeeps, FindInactiveKeeps,
     UnbindKeeps, FindDeletableKeeps, DeleteKeeps DEF Edit
<1>5. ASSUME NEW t \in Threads, Switch(t)
      PROVE  IInv'
  BY <1>5, FindBindingsKeeps, PreflightKeeps, CurrentKeeps, ActivateKeeps,
     FindActiveKeeps, CheckOfflineKeeps, SwitchOfflineKeeps, SwitchOnlineKeeps
     DEF Switch
<1>6. ASSUME NEW t \in Threads, Resolve(t)
      PROVE  IInv'
  BY <1>6, ReadBindingKeeps, PermitKeeps, ResolvedKeeps DEF Resolve
<1> QED BY <1>1, <1>2, <1>3, <1>4, <1>5, <1>6 DEF Next, Quiet

LEMMA Inductive == Spec => []IInv
  BY InitIInv, NextKeeps, PTL DEF Spec

\* Whatever requests overlap and wherever they are cut, the profile that is
\* active is there and binds every required capability.
THEOREM ActiveStaysComplete == Spec => []ActiveIsComplete
<1>1. IInv => ActiveIsComplete
  BY DeploymentsAssumption
     DEF IInv, ActiveIsComplete, ActiveOK, Live, Whole, Bound, Exists, IsComplete
<1> QED BY <1>1, Inductive, PTL

\* An execution is given the required bindings, all of one profile, and no
\* cloud provider unless the platform was online while it resolved them.
THEOREM SnapshotsAreSound == Spec => []SnapshotIsSound
<1>1. ASSUME IInv PROVE SnapshotOfOneProfile
  <2>1. ASSUME NEW t \in Threads, At(t, "resolve", "resolved")
        PROVE  Consistent(work[t]) /\ work[t].step = "resolved"
    BY <1>1, <2>1, TaskFacts DEF TaskOK, At
  <2>2. ASSUME NEW c PROVE ~In(c, << >>)
    BY DEF In
  <2> QED BY <2>1, <2>2 DEF SnapshotOfOneProfile, Consistent, Reading, IsComplete
<1>2. ASSUME IInv PROVE OfflineSnapshotIsLocal
  BY <1>2, TaskFacts, IdleOK DEF OfflineSnapshotIsLocal, Offline, At, Reading
<1> QED BY <1>1, <1>2, Inductive, PTL DEF SnapshotIsSound

-----------------------------------------------------------------------------
(* What the validators establish, whatever becomes of the models.          *)

SoundText(b) ==
  /\ b.resources \subseteq Models
  /\ b.default \in b.resources \cup {NoResource}
  /\ \A m \in b.resources : m \in External <=> b.instance \in CloudBased
SoundImage(c, b) ==
  /\ b.resources # {}
  /\ b.mode \in {"none", "task_defaults"}
  /\ TaskDefaultsFit(c, b)
  /\ \A m \in b.resources \cap Models : m \in External <=> b.instance \in CloudBased
SoundVector(b) == b.mode = "dynamic_namespace" => b.prefix
Sound(c, b) ==
  /\ Provides[b.instance] = c
  /\ c \in TextFeatures => SoundText(b)
  /\ c \in ImageFeatures => SoundImage(c, b)
  /\ c = "vector_store" => SoundVector(b)

\* A provider a binding of it resolves to.
Usable(h) == h.enabled /\ h.secret # "revoked"

ContentInv ==
  /\ ContentTypeOK
  /\ \A c \in Needed : bound[c] # NoBinding
  /\ \A c \in Features : bound[c] # NoBinding =>
       Sound(c, bound[c]) /\ instances[bound[c].instance].there
  /\ isActive /\ ~disturbed =>
       \A c \in Features : bound[c] # NoBinding => Usable(instances[bound[c].instance])

-----------------------------------------------------------------------------
(* A saved binding.                                                        *)

\* What is saved of a request, before its task defaults.
LEMMA SavedFields ==
  ASSUME NEW c \in Features, NEW i \in Instances, NEW r \in Requests(c, i)
  PROVE  /\ Saved(r).instance = i
         /\ Saved(r).resources = Named(r)
         /\ Saved(r).default \in Named(r) \cup {NoResource}
         /\ Saved(r).mode = r.mode
         /\ Saved(r).prefix = r.prefix
         /\ Named(r) \subseteq Resources
         /\ Saved(r) \in Content(c)
<1> DEFINE D == IF r.default \in Named(r) THEN r.default ELSE NoResource
<1>1. /\ r \in [instance : {i}, resources : SUBSET Offers[c],
                default : {o.id : o \in Offers[c]} \cup {NoResource},
                mode : ModesOf(c), prefix : BOOLEAN, defaults : {Unset(c)}]
  BY DEF Requests
<1>2. /\ r.instance = i /\ r.resources \subseteq Offers[c]
      /\ r.mode \in ModesOf(c) /\ r.prefix \in BOOLEAN /\ r.defaults = Unset(c)
  BY <1>1
<1>3. Named(r) \subseteq Resources
  BY <1>2, ContentsAssumption DEF Named
<1>4. ModesOf(c) \subseteq Modes
  BY DEF ModesOf, Modes
<1>5. Unset(c) \in [GroupKeys(c) -> Resources \cup {NoResource}]
  BY DEF Unset
<1>6. PICK q : q = [r EXCEPT !.resources = Named(r)]
  OBVIOUS
<1>7. /\ q \in [instance : Instances, resources : SUBSET Resources,
                default : {o.id : o \in Offers[c]} \cup {NoResource},
                mode : Modes, prefix : BOOLEAN,
                defaults : [GroupKeys(c) -> Resources \cup {NoResource}]]
      /\ q.instance = i /\ q.resources = Named(r)
      /\ q.mode = r.mode /\ q.prefix = r.prefix
  BY <1>1, <1>2, <1>3, <1>4, <1>5, <1>6
<1>8. D \in Named(r) \cup {NoResource}
  OBVIOUS
<1> HIDE DEF D
<1>9. PICK s : s = [q EXCEPT !.default = D]
  OBVIOUS
<1>10. /\ s \in Content(c)
       /\ s.instance = i /\ s.resources = Named(r) /\ s.default = D
       /\ s.mode = r.mode /\ s.prefix = r.prefix
  BY <1>3, <1>7, <1>8, <1>9 DEF Content
<1>11. Saved(r) = s
  BY <1>6, <1>9 DEF Saved, D
<1> QED BY <1>3, <1>8, <1>10, <1>11

\* The task defaults change nothing else.
LEMMA RefinedFields ==
  ASSUME NEW c \in Features, NEW i \in Instances, NEW r \in Requests(c, i),
         NEW b \in Refined(c, Saved(r))
  PROVE  /\ b.instance = i
         /\ b.resources = Named(r)
         /\ b.default = Saved(r).default
         /\ b.mode = r.mode
         /\ b.prefix = r.prefix
         /\ b \in Content(c)
<1>1. PICK s : s = Saved(r)
  OBVIOUS
<1>2. /\ s.instance = i /\ s.resources = Named(r) /\ s.mode = r.mode
      /\ s.prefix = r.prefix /\ Named(r) \subseteq Resources /\ s \in Content(c)
  BY <1>1, SavedFields
<1>3. CASE c \in ImageFeatures
  <2>1. PICK d \in [GroupKeys(c) -> {o.of : o \in Offers[c]} \cup {NoResource}] :
          b = [s EXCEPT !.defaults = d]
    BY <1>1, <1>3 DEF Refined
  <2>2. {o.of : o \in Offers[c]} \subseteq Resources
    BY ContentsAssumption
  <2>3. d \in [GroupKeys(c) -> Resources \cup {NoResource}]
    BY <2>1, <2>2
  <2> QED BY <1>1, <1>2, <2>1, <2>3 DEF Content
<1>4. CASE c \notin ImageFeatures
  BY <1>1, <1>2, <1>4 DEF Refined
<1> QED BY <1>3, <1>4

\* A model that may serve is of the origin of the provider.
LEMMA ServesAtItsOrigin ==
  ASSUME NEW c, NEW i, NEW m, MayServe(c, i, m)
  PROVE  m \in Models /\ (m \in External <=> i \in CloudBased)
BY DEF MayServe

\* What the validators let through is sound.
LEMMA ValidIsSound ==
  ASSUME NEW c \in Features, NEW i \in Instances, NEW r \in Requests(c, i),
         Provides[i] = c, IsValid(c, r), NEW b \in Refined(c, Saved(r)),
         c \in ImageFeatures => TaskDefaultsFit(c, b)
  PROVE  Sound(c, b)
<1>1. /\ b.instance = i /\ b.resources = Named(r) /\ b.mode = r.mode
      /\ b.prefix = r.prefix /\ b.default \in Named(r) \cup {NoResource}
  BY RefinedFields, SavedFields
<1>2. r.instance = i /\ r.resources \subseteq Offers[c]
  BY DEF Requests
<1>3. ASSUME c \in TextFeatures PROVE SoundText(b)
  <2>1. TextIsValid(c, r)
    BY <1>3 DEF IsValid, TextFeatures, ImageFeatures
  <2>2. \A m \in Named(r) : MayServe(c, i, m)
    BY <2>1, <1>2 DEF TextIsValid
  <2> QED BY <1>1, <2>2, ServesAtItsOrigin DEF SoundText
<1>4. ASSUME c \in ImageFeatures PROVE SoundImage(c, b)
  <2>1. ImageIsValid(c, r)
    BY <1>4 DEF IsValid, TextFeatures, ImageFeatures
  <2>2. \A m \in Named(r) : NeedsRow(c, m) => MayServe(c, i, m)
    BY <2>1, <1>2 DEF ImageIsValid
  <2>3. r.resources # {} /\ r.mode \in {"none", "task_defaults"}
    BY <2>1 DEF ImageIsValid
  <2>4. Named(r) # {}
    BY <2>3 DEF Named
  <2>5. \A m \in Named(r) \cap Models : NeedsRow(c, m)
    BY <1>2, <1>4, ContentsAssumption DEF Named, NeedsRow
  <2>6. \A m \in Named(r) \cap Models : m \in External <=> i \in CloudBased
    BY <2>2, <2>5, ServesAtItsOrigin
  <2> QED BY <1>1, <1>4, <2>3, <2>4, <2>6 DEF SoundImage
<1>5. ASSUME c = "vector_store" PROVE SoundVector(b)
  <2>1. VectorIsValid(r)
    BY <1>5 DEF IsValid, TextFeatures, ImageFeatures
  <2> QED BY <1>1, <2>1 DEF VectorIsValid, SoundVector
<1> QED BY <1>1, <1>3, <1>4, <1>5 DEF Sound

-----------------------------------------------------------------------------
(* The invariant.                                                          *)

LEMMA ContentInitHolds == ASSUME ContentInit PROVE ContentInv
<1>1. PICK home \in [Needed -> Instances] :
        /\ \A c \in Needed : Provides[home[c]] = c
        /\ bound = [c \in Features |->
                      IF c \in Needed THEN Empty(c, home[c]) ELSE NoBinding]
  BY DEF ContentInit
<1>2. PICK holders \in SUBSET CloudBased :
        instances = [i \in Instances |->
          [there |-> TRUE, enabled |-> TRUE, up |-> TRUE,
           secret |-> IF i \in holders THEN "active" ELSE "none",
           lists |-> {o.of : o \in Offers[Provides[i]]}]]
  BY DEF ContentInit
<1>3. \A i \in Instances : {o.of : o \in Offers[Provides[i]]} \subseteq Resources
  BY ContentsAssumption
<1>4. instances \in [Instances -> InstanceRow]
  BY <1>2, <1>3 DEF InstanceRow
<1>5. ASSUME NEW c \in Needed
      PROVE  /\ Empty(c, home[c]) \in Content(c)
             /\ Sound(c, Empty(c, home[c]))
             /\ Empty(c, home[c]).instance = home[c]
  <2>1. PICK e : e = Empty(c, home[c])
    OBVIOUS
  <2>2. Unset(c) \in [GroupKeys(c) -> Resources \cup {NoResource}]
    BY DEF Unset
  <2>3. home[c] \in Instances /\ Provides[home[c]] = c
    BY <1>1
  <2>4. /\ e.instance = home[c] /\ e.resources = {} /\ e.default = NoResource
        /\ e.mode = "none" /\ e \in Content(c)
    BY <2>1, <2>2, <2>3 DEF Empty, Content, Modes
  <2>5. c \notin ImageFeatures
    BY ContentsAssumption
  <2>6. SoundText(e) /\ SoundVector(e)
    BY <2>4 DEF SoundText, SoundVector
  <2> QED BY <2>1, <2>3, <2>4, <2>5, <2>6 DEF Sound
<1>6. \A c \in Features : IF c \in Needed THEN bound[c] = Empty(c, home[c])
                                          ELSE bound[c] = NoBinding
  BY <1>1
<1>7. DOMAIN bound = Features
  BY <1>1
<1>8. /\ models \in [Models -> ModelRow] /\ bases \in [Bases -> BaseRow]
      /\ isActive = FALSE /\ disturbed = FALSE
      /\ changes \in 0..MaxChanges /\ turns \in 0..MaxTurns
  BY ContentsAssumption DEF ContentInit, ModelRow, BaseRow
<1>9. ContentTypeOK
  <2>1. ASSUME NEW c \in Features PROVE bound[c] = NoBinding \/ bound[c] \in Content(c)
    BY <1>5, <1>6
  <2> QED BY <1>4, <1>7, <1>8, <2>1 DEF ContentTypeOK
<1>10. ASSUME NEW c \in Needed PROVE bound[c] # NoBinding
  <2>1. c \in Features
    BY ContentsAssumption
  <2>2. NoBinding \notin Content(c)
    BY <2>1, NoBindingAssumption
  <2> QED BY <1>5, <1>6, <2>1, <2>2
<1>11. ASSUME NEW c \in Features, bound[c] # NoBinding
       PROVE  Sound(c, bound[c]) /\ instances[bound[c].instance].there
  BY <1>1, <1>2, <1>5, <1>6, <1>11
<1> QED BY <1>8, <1>9, <1>10, <1>11 DEF ContentInv

\* A request counts, and a change around the bindings too.
LEMMA Counted ==
  ASSUME ContentTypeOK, Request \/ Around
  PROVE  changes' \in 0..MaxChanges /\ turns' \in 0..MaxTurns
BY ContentsAssumption DEF ContentTypeOK, Request, Around, Change

\* One binding is put in the place of another, or of none.
LEMMA Rebound ==
  ASSUME ContentInv, NEW c \in Features, NEW b,
         \/ b = NoBinding /\ c \notin Needed
         \/ b \in Content(c) /\ Sound(c, b) /\ instances[b.instance].there,
         bound' = [bound EXCEPT ![c] = b],
         UNCHANGED <<models, bases, instances, isActive>>,
         disturbed' \in BOOLEAN, isActive => disturbed',
         changes' \in 0..MaxChanges, turns' \in 0..MaxTurns
  PROVE  ContentInv'
<1>1. DOMAIN bound = Features
  BY DEF ContentInv, ContentTypeOK
<1>2. bound'[c] = b /\ \A d \in Features : d # c => bound'[d] = bound[d]
  BY <1>1
<1>3. DOMAIN bound' = Features
  BY <1>1
<1>4. ContentTypeOK'
  BY <1>2, <1>3 DEF ContentInv, ContentTypeOK
<1>5. \A d \in Needed : bound'[d] # NoBinding
  BY <1>2, NoBindingAssumption, ContentsAssumption DEF ContentInv
<1>6. \A d \in Features : bound'[d] # NoBinding =>
        Sound(d, bound'[d]) /\ instances'[bound'[d].instance].there
  BY <1>2 DEF ContentInv
<1> QED BY <1>4, <1>5, <1>6 DEF ContentInv

LEMMA SaveKeeps == ASSUME ContentInv, NEW c \in Features, Save(c) PROVE ContentInv'
<1>1. PICK i \in Instances :
        /\ instances[i].there /\ Provides[i] = c
        /\ \E r \in Requests(c, i) :
             /\ IsValid(c, r)
             /\ \E b \in Refined(c, Saved(r)) :
                  /\ c \in ImageFeatures => TaskDefaultsFit(c, b)
                  /\ bound' = [bound EXCEPT ![c] = b]
  BY DEF Save
<1>2. PICK r \in Requests(c, i) :
        /\ IsValid(c, r)
        /\ \E b \in Refined(c, Saved(r)) :
             /\ c \in ImageFeatures => TaskDefaultsFit(c, b)
             /\ bound' = [bound EXCEPT ![c] = b]
  BY <1>1
<1>3. PICK b \in Refined(c, Saved(r)) :
        /\ c \in ImageFeatures => TaskDefaultsFit(c, b)
        /\ bound' = [bound EXCEPT ![c] = b]
  BY <1>2
<1>4. b \in Content(c) /\ b.instance = i
  BY RefinedFields
<1>5. Sound(c, b)
  BY <1>1, <1>2, <1>3, ValidIsSound
<1>6. /\ Request /\ disturbed' = (disturbed \/ isActive)
      /\ UNCHANGED <<models, bases, instances, isActive>>
  BY DEF Save
<1>7. ContentTypeOK /\ disturbed' \in BOOLEAN /\ (isActive => disturbed')
  BY <1>6 DEF ContentInv, ContentTypeOK
<1>8. changes' \in 0..MaxChanges /\ turns' \in 0..MaxTurns
  BY <1>6, <1>7, Counted
<1> QED BY <1>1, <1>3, <1>4, <1>5, <1>6, <1>7, <1>8, Rebound

LEMMA DropKeeps == ASSUME ContentInv, NEW c \in Features, Drop(c) PROVE ContentInv'
<1>1. /\ Request /\ c \notin Needed /\ ~isActive
      /\ bound' = [bound EXCEPT ![c] = NoBinding]
      /\ UNCHANGED <<models, bases, instances, isActive, disturbed>>
  BY DEF Drop
<1>2. ContentTypeOK /\ disturbed' \in BOOLEAN
  BY <1>1 DEF ContentInv, ContentTypeOK
<1>3. changes' \in 0..MaxChanges /\ turns' \in 0..MaxTurns
  BY <1>1, <1>2, Counted
<1> QED BY <1>1, <1>2, <1>3, Rebound

\* The bindings and the providers stay as they are.
LEMMA BesideKeeps ==
  ASSUME ContentInv, UNCHANGED <<bound, instances>>,
         models' \in [Models -> ModelRow], bases' \in [Bases -> BaseRow],
         isActive' \in BOOLEAN, disturbed' \in BOOLEAN,
         isActive' /\ ~disturbed' =>
           \A c \in Features : bound[c] # NoBinding => Usable(instances[bound[c].instance]),
         changes' \in 0..MaxChanges, turns' \in 0..MaxTurns
  PROVE  ContentInv'
BY DEF ContentInv, ContentTypeOK

LEMMA ActivateBoundKeeps == ASSUME ContentInv, ActivateBound PROVE ContentInv'
<1>1. /\ Request /\ UNCHANGED <<bound, models, bases, instances>>
      /\ isActive' = TRUE /\ disturbed' = FALSE
  BY DEF ActivateBound
<1>2. ASSUME NEW c \in Features, bound[c] # NoBinding
      PROVE  Usable(instances[bound[c].instance])
  BY <1>2 DEF ActivateBound, IsBound, Host, PassesPreflight, HasSecret, Usable
<1>3. changes' \in 0..MaxChanges /\ turns' \in 0..MaxTurns
  BY <1>1, Counted DEF ContentInv
<1> QED BY <1>1, <1>2, <1>3, BesideKeeps DEF ContentInv, ContentTypeOK

LEMMA RetireKeeps == ASSUME ContentInv, Retire PROVE ContentInv'
<1>1. /\ Request /\ UNCHANGED <<bound, models, bases, instances, disturbed>>
      /\ isActive' = FALSE
  BY DEF Retire
<1>2. changes' \in 0..MaxChanges /\ turns' \in 0..MaxTurns
  BY <1>1, Counted DEF ContentInv
<1> QED BY <1>1, <1>2, BesideKeeps DEF ContentInv, ContentTypeOK

LEMMA TurnModelKeeps == ASSUME ContentInv, NEW m \in Models, TurnModel(m) PROVE ContentInv'
<1>1. /\ Around /\ UNCHANGED <<bound, bases, instances, isActive, disturbed>>
      /\ ContentTypeOK
  BY DEF TurnModel, ContentInv
<1>2. models[m] \in ModelRow /\ models \in [Models -> ModelRow]
  BY <1>1 DEF ContentTypeOK
<1>3. \E row \in ModelRow : models' = [models EXCEPT ![m] = row]
  <2>1. /\ [models[m] EXCEPT !.active = ~models[m].active] \in ModelRow
        /\ [models[m] EXCEPT !.validated = ~models[m].validated] \in ModelRow
        /\ [models[m] EXCEPT !.credential = ~models[m].credential] \in ModelRow
    BY <1>2 DEF ModelRow
  <2> QED BY <2>1 DEF TurnModel
<1>4. models' \in [Models -> ModelRow]
  BY <1>2, <1>3
<1>5. changes' \in 0..MaxChanges /\ turns' \in 0..MaxTurns
  BY <1>1, Counted
<1> QED BY <1>1, <1>4, <1>5, BesideKeeps DEF ContentInv, ContentTypeOK

LEMMA TurnBaseKeeps == ASSUME ContentInv, NEW k \in Bases, TurnBase(k) PROVE ContentInv'
<1>1. /\ Around /\ UNCHANGED <<bound, models, instances, isActive, disturbed>>
      /\ ContentTypeOK
  BY DEF TurnBase, ContentInv
<1>2. bases' \in [Bases -> BaseRow]
  BY <1>1 DEF TurnBase, ContentTypeOK, BaseRow
<1>3. changes' \in 0..MaxChanges /\ turns' \in 0..MaxTurns
  BY <1>1, Counted
<1> QED BY <1>1, <1>2, <1>3, BesideKeeps DEF ContentInv, ContentTypeOK

\* A provider changes: it is still there if anything is bound to it, and
\* still usable if nothing is disturbed.
LEMMA HostKeeps ==
  ASSUME ContentInv, NEW i \in Instances, NEW h \in InstanceRow,
         instances' = [instances EXCEPT ![i] = h],
         h.there \/ ~\E c \in Features : bound[c] # NoBinding /\ bound[c].instance = i,
         UNCHANGED <<bound, models, bases, isActive>>,
         disturbed' \in BOOLEAN,
         ~disturbed' => ~disturbed /\ (Usable(instances[i]) => Usable(h)),
         changes' \in 0..MaxChanges, turns' \in 0..MaxTurns
  PROVE  ContentInv'
<1>1. instances \in [Instances -> InstanceRow]
  BY DEF ContentInv, ContentTypeOK
<1>2. /\ instances' \in [Instances -> InstanceRow] /\ instances'[i] = h
      /\ \A j \in Instances : j # i => instances'[j] = instances[j]
  BY <1>1
<1>3. \A c \in Features : bound[c] # NoBinding => bound[c].instance \in Instances
  BY DEF ContentInv, ContentTypeOK, Content
<1>4. ContentTypeOK'
  BY <1>2 DEF ContentInv, ContentTypeOK
<1>5. \A c \in Features : bound[c] # NoBinding => instances'[bound[c].instance].there
  BY <1>2, <1>3 DEF ContentInv
<1>6. isActive /\ ~disturbed' =>
        \A c \in Features : bound[c] # NoBinding => Usable(instances'[bound[c].instance])
  BY <1>2, <1>3 DEF ContentInv
<1>7. /\ \A c \in Needed : bound'[c] # NoBinding
      /\ \A c \in Features : bound'[c] # NoBinding =>
           Sound(c, bound'[c]) /\ instances'[bound'[c].instance].there
      /\ isActive' /\ ~disturbed' =>
           \A c \in Features : bound'[c] # NoBinding => Usable(instances'[bound'[c].instance])
  BY <1>5, <1>6 DEF ContentInv
<1> QED BY <1>4, <1>7 DEF ContentInv

\* The row of a provider with one field changed.
LEMMA HostRow ==
  ASSUME ContentInv, NEW i \in Instances
  PROVE  /\ instances[i] \in InstanceRow
         /\ \A b \in BOOLEAN :
              /\ [instances[i] EXCEPT !.enabled = b] \in InstanceRow
              /\ [instances[i] EXCEPT !.there = b] \in InstanceRow
              /\ [instances[i] EXCEPT !.up = b] \in InstanceRow
         /\ [instances[i] EXCEPT !.secret = "revoked"] \in InstanceRow
         /\ \A S \in SUBSET Resources : [instances[i] EXCEPT !.lists = S] \in InstanceRow
<1>1. instances[i] \in InstanceRow
  BY DEF ContentInv, ContentTypeOK
<1> QED BY <1>1 DEF InstanceRow

LEMMA EnableKeeps ==
  ASSUME ContentInv, NEW i \in Instances, NEW on \in BOOLEAN, Enable(i, on) PROVE ContentInv'
<1>1. /\ Request /\ instances[i].there
      /\ instances' = [instances EXCEPT ![i].enabled = on]
      /\ disturbed' = (disturbed \/ ~on)
      /\ UNCHANGED <<bound, models, bases, isActive>>
  BY DEF Enable
<1>2. PICK h : h = [instances[i] EXCEPT !.enabled = on]
  OBVIOUS
<1>3. h \in InstanceRow /\ instances[i] \in InstanceRow
  BY <1>2, HostRow
<1>4. h.there = instances[i].there /\ h.enabled = on /\ h.secret = instances[i].secret
  BY <1>2, <1>3 DEF InstanceRow
<1>5. instances' = [instances EXCEPT ![i] = h]
  BY <1>1, <1>2
<1>6. changes' \in 0..MaxChanges /\ turns' \in 0..MaxTurns /\ disturbed' \in BOOLEAN
  BY <1>1, Counted DEF ContentInv, ContentTypeOK
<1>7. ~disturbed' => ~disturbed /\ (Usable(instances[i]) => Usable(h))
  BY <1>1, <1>4 DEF Usable
<1> QED BY <1>1, <1>3, <1>4, <1>5, <1>6, <1>7, HostKeeps

LEMMA RevokeKeeps == ASSUME ContentInv, NEW i \in Instances, Revoke(i) PROVE ContentInv'
<1>1. /\ Around
      /\ instances' = [instances EXCEPT ![i].secret = "revoked"]
      /\ disturbed' = TRUE
      /\ UNCHANGED <<bound, models, bases, isActive>>
  BY DEF Revoke
<1>2. PICK h : h = [instances[i] EXCEPT !.secret = "revoked"]
  OBVIOUS
<1>3. h \in InstanceRow /\ instances[i] \in InstanceRow
  BY <1>2, HostRow
<1>4. h.there = instances[i].there
  BY <1>2, <1>3 DEF InstanceRow
<1>5. instances' = [instances EXCEPT ![i] = h]
  BY <1>1, <1>2
<1>6. changes' \in 0..MaxChanges /\ turns' \in 0..MaxTurns
  BY <1>1, Counted DEF ContentInv
<1>7. h.there \/ ~\E c \in Features : bound[c] # NoBinding /\ bound[c].instance = i
  BY <1>4 DEF ContentInv
<1> QED BY <1>1, <1>3, <1>5, <1>6, <1>7, HostKeeps

LEMMA DeleteInstanceKeeps ==
  ASSUME ContentInv, NEW i \in Instances, DeleteInstance(i) PROVE ContentInv'
<1>1. /\ Request
      /\ ~\E c \in Features : bound[c] # NoBinding /\ bound[c].instance = i
      /\ instances' = [instances EXCEPT ![i].there = FALSE]
      /\ UNCHANGED <<bound, models, bases, isActive, disturbed>>
  BY DEF DeleteInstance, IsBound
<1>2. PICK h : h = [instances[i] EXCEPT !.there = FALSE]
  OBVIOUS
<1>3. h \in InstanceRow /\ instances[i] \in InstanceRow
  BY <1>2, HostRow
<1>4. h.enabled = instances[i].enabled /\ h.secret = instances[i].secret
  BY <1>2, <1>3 DEF InstanceRow
<1>5. instances' = [instances EXCEPT ![i] = h]
  BY <1>1, <1>2
<1>6. changes' \in 0..MaxChanges /\ turns' \in 0..MaxTurns /\ disturbed' \in BOOLEAN
  BY <1>1, Counted DEF ContentInv, ContentTypeOK
<1> QED BY <1>1, <1>3, <1>4, <1>5, <1>6, HostKeeps DEF Usable

LEMMA TurnKeeps == ASSUME ContentInv, NEW i \in Instances, Turn(i) PROVE ContentInv'
<1>1. instances[i] \in InstanceRow
  BY HostRow
<1>2. PICK h : /\ h \in InstanceRow
               /\ instances' = [instances EXCEPT ![i] = h]
               /\ h.there = instances[i].there /\ h.enabled = instances[i].enabled
               /\ h.secret = instances[i].secret
  <2>1. CASE instances' = [instances EXCEPT ![i].up = ~instances[i].up]
    <3>1. PICK h : h = [instances[i] EXCEPT !.up = ~instances[i].up]
      OBVIOUS
    <3>2. h \in InstanceRow /\ h.there = instances[i].there
          /\ h.enabled = instances[i].enabled /\ h.secret = instances[i].secret
      BY <1>1, <3>1 DEF InstanceRow
    <3> QED BY <2>1, <3>1, <3>2
  <2>2. ASSUME NEW S \in SUBSET Resources,
               instances' = [instances EXCEPT ![i].lists = S]
        PROVE  \E h : /\ h \in InstanceRow
                      /\ instances' = [instances EXCEPT ![i] = h]
                      /\ h.there = instances[i].there /\ h.enabled = instances[i].enabled
                      /\ h.secret = instances[i].secret
    <3>1. PICK h : h = [instances[i] EXCEPT !.lists = S]
      OBVIOUS
    <3>2. h \in InstanceRow /\ h.there = instances[i].there
          /\ h.enabled = instances[i].enabled /\ h.secret = instances[i].secret
      BY <1>1, <3>1 DEF InstanceRow
    <3> QED BY <2>2, <3>1, <3>2
  <2>3. instances[i].lists \subseteq Resources
    BY <1>1 DEF InstanceRow
  <2>4. \/ instances' = [instances EXCEPT ![i].up = ~instances[i].up]
        \/ \E S \in SUBSET Resources : instances' = [instances EXCEPT ![i].lists = S]
    BY <2>3 DEF Turn
  <2> QED BY <2>1, <2>2, <2>4
<1>3. Around /\ UNCHANGED <<bound, models, bases, isActive, disturbed>>
  BY DEF Turn
<1>4. changes' \in 0..MaxChanges /\ turns' \in 0..MaxTurns /\ disturbed' \in BOOLEAN
  BY <1>3, Counted DEF ContentInv, ContentTypeOK
<1>5. h.there \/ ~\E c \in Features : bound[c] # NoBinding /\ bound[c].instance = i
  BY <1>2 DEF ContentInv
<1> QED BY <1>2, <1>3, <1>4, <1>5, HostKeeps DEF Usable

LEMMA ContentNextKeeps == ASSUME ContentInv, [ContentNext]_contentVars PROVE ContentInv'
<1>1. ASSUME UNCHANGED contentVars PROVE ContentInv'
  BY <1>1 DEF contentVars, ContentInv, ContentTypeOK
<1> QED BY <1>1, SaveKeeps, DropKeeps, ActivateBoundKeeps, RetireKeeps,
           TurnModelKeeps, TurnBaseKeeps, EnableKeeps, RevokeKeeps,
           DeleteInstanceKeeps, TurnKeeps
        DEF ContentNext, Settled

-----------------------------------------------------------------------------
(* The judges.                                                             *)

\* A group of tasks is complete for the validators exactly when none of its
\* defaults is missing for the status.
LEMMA FilledIsNotMissing ==
  ASSUME NEW b, NEW g PROVE IsFilled(b, g) <=> ~GroupIsMissing(b, g)
BY DEF IsFilled, GroupIsMissing

LEMMA SoundIsReady == ASSUME ContentInv PROVE ValidIsReady
<1> SUFFICES ASSUME NEW c \in Features, IsBound(c), Host(c).enabled,
                    IsFilledIn(c, bound[c])
             PROVE  IsReady(c)
  BY DEF ValidIsReady
<1>1. PICK b : b = bound[c]
  OBVIOUS
<1>2. Sound(c, b) /\ IsFilledIn(c, b) /\ b \in Content(c)
  BY <1>1 DEF ContentInv, IsBound, ContentTypeOK
<1>3. CASE c \in TextFeatures
  <2>1. SoundText(b) /\ b.default # NoResource
    BY <1>2, <1>3 DEF Sound, IsFilledIn
  <2>2. b.resources # {} /\ OriginsFit(b)
    BY <2>1 DEF SoundText, OriginsFit
  <2> QED BY <1>1, <1>3, <2>1, <2>2 DEF IsReady, TextFeatures, ImageFeatures
<1>4. CASE c \in ImageFeatures
  <2>1. SoundImage(c, b)
    BY <1>2, <1>4 DEF Sound
  <2>2. ImageIsReady(c, b)
    BY <2>1, FilledIsNotMissing DEF SoundImage, TaskDefaultsFit, ImageIsReady, OriginsFit
  <2> QED BY <1>1, <1>4, <2>2 DEF IsReady, TextFeatures, ImageFeatures
<1>5. CASE c = "vector_store"
  <2>1. VectorIsReady(b)
    BY <1>2, <1>5 DEF Sound, SoundVector, IsFilledIn, VectorIsReady
  <2> QED BY <1>1, <1>5, <2>1 DEF IsReady, TextFeatures, ImageFeatures
<1>6. CASE c \notin TextFeatures \cup ImageFeatures \cup {"vector_store"}
  BY <1>6 DEF IsReady
<1> QED BY <1>3, <1>4, <1>5, <1>6

LEMMA SoundPasses == ASSUME ContentInv PROVE ValidPasses
<1> SUFFICES ASSUME NEW c \in Features, IsBound(c), Host(c).up,
                    HasSecret(bound[c].instance),
                    bound[c].resources \subseteq Host(c).lists,
                    c \in ImageFeatures => bound[c].mode = "task_defaults"
             PROVE  PassesPreflight(c)
  BY DEF ValidPasses
<1>1. Sound(c, bound[c])
  BY DEF ContentInv, IsBound
<1>2. ~IsSilent(c, bound[c]) /\ ~IsUnlisted(c, bound[c])
  BY DEF IsSilent, IsUnlisted, Host
<1>3. ~LacksTaskDefaults(c, bound[c])
  BY <1>1 DEF LacksTaskDefaults, Sound, SoundImage
<1> QED BY <1>2, <1>3 DEF PassesPreflight, Blocks

LEMMA PreflightAgrees == ASSUME ContentInv PROVE PassedIsValid
<1> SUFFICES ASSUME NEW c \in Features, isActive, IsBound(c), PassesPreflight(c),
                    c = "embeddings" => bound[c].default # NoResource
             PROVE  ProviderIsValid(bound[c].instance)
  BY DEF PassedIsValid
<1>1. instances[bound[c].instance].there /\ Provides[bound[c].instance] = c
  BY DEF ContentInv, IsBound, Sound
<1>2. HasSecret(bound[c].instance) /\ instances[bound[c].instance].up
  BY DEF PassesPreflight, Blocks, IsSilent, ContentInv, ContentTypeOK, IsBound, Content, InstanceRow
<1>3. c \in ActiveAt(bound[c].instance)
  BY DEF ActiveAt
<1> QED BY <1>1, <1>2, <1>3 DEF ProviderIsValid

\* Whatever changes around the bindings of a profile and however it is
\* edited: what the validators let through, and leaves nothing open, is
\* reported ready and passes the preflight; what passes is valid to the
\* validation of its provider; and what was activated undisturbed, or is
\* reported ready, is listed.
THEOREM JudgesStayInAgreement == ContentSpec => []JudgesAgree
<1>1. ContentInit => ContentInv
  BY ContentInitHolds
<1>2. ContentInv /\ [ContentNext]_contentVars => ContentInv'
  BY ContentNextKeeps
<1>3. ASSUME ContentInv PROVE ActivatedIsListed
  BY <1>3 DEF ContentInv, ActivatedIsListed, ListingWorks, Resolves, IsBound, Host,
              HasSecret, Usable
<1>4. ReadyIsListed
  BY DEF ReadyIsListed, ProfileIsReady, IsReady, ListingWorks, Resolves
<1>5. ContentInv => JudgesAgree
  BY <1>3, <1>4, SoundIsReady, SoundPasses, PreflightAgrees DEF JudgesAgree
<1> QED BY <1>1, <1>2, <1>5, PTL DEF ContentSpec

=============================================================================
