--------------------------- MODULE RequestsProofs ---------------------------
(***************************************************************************)
(* Requests of the backend: proofs about Accounts and WorkflowChat, where  *)
(* they overlap, and about AnswerStream, whatever the number of requests,  *)
(* of models, of tokens and of faults.                                     *)
(*                                                                         *)
(* Accounts.  update_role counts the superadmins before it writes, and     *)
(* another request may write in between.  The invariant says what the      *)
(* count is still worth then: as long as no two demotions have overlapped, *)
(* whoever is about to demote leaves another superadmin.                   *)
(*                                                                         *)
(* WorkflowChat.  PairInv is about the lock of the row: who holds it has   *)
(* counted the messages.  ActionInv is about the actions: every start that *)
(* still has its action, or greeted and ended well, is its only claimant   *)
(* until its lease runs out, and no cycle is known that no greeting began. *)
(* RunInv is about the run: as long as a request is alone, it works on the *)
(* run it has read and on messages it has inserted.  Most steps of a       *)
(* request only read; they are brought into a few forms (Quiet, Acts,      *)
(* Upserts, Inserts), and the invariants are proved of these.              *)
(*                                                                         *)
(* AnswerStream.  StreamInv says of each hop that what its reader has got  *)
(* and what is on its way to it are the text the hop before has (Link).    *)
(***************************************************************************)
EXTENDS Accounts, WorkflowChat, AnswerStream, FiniteSetTheorems, SequenceTheorems, TLAPS

-----------------------------------------------------------------------------
(* Accounts: the inductive invariant.                                      *)

\* A request about to count or to write has found its target.
Found(r, rows) ==
  /\ r.at = "superadmins" => r.op = "role"
  /\ r.at = "write" => r.op \in {"activate", "role"}
  /\ r.at \in {"superadmins", "write"} => r.target \in Users /\ rows[r.target] # NoAccount
  /\ r.at \in {"superadmins", "write"} /\ r.op = "role" => r.wanted \in Roles
TargetsFound == \A t \in Threads : Found(task[t], account)

\* Before the accounts are set up nothing is served, and the only rows are
\* superadmins': those of an earlier start, or the one just created.
NothingServed ==
  ~auth.initialized =>
    /\ \A t \in Threads : task[t].at \notin {"serve", "superadmins", "write"}
    /\ \A u \in Users : Exists(u) => u \in Superadmins

\* Whoever is about to declare the accounts set up has seen a superadmin.
SetUpHasSuperadmin ==
  /\ env.superadmin /\ ~clash
  /\ auth.initialized \/ \E t \in Threads : task[t].at = "finish"
  => Superadmins # {}

\* What a demotion will leave, as long as no two have overlapped.
DemotionsLeaveOne ==
  env.superadmin /\ ~clash =>
    \A t \in Threads : Demoting(t) => Superadmins \ {task[t].target} # {}

AccountsInv ==
  /\ AccountsTypeOK
  /\ TargetsFound
  /\ NothingServed
  /\ SetUpHasSuperadmin
  /\ DemotionsLeaveOne

-----------------------------------------------------------------------------
(* Accounts: steps that leave the rows in place.                           *)

\* What a step of t leaves of the rows: none goes, and no superadmin.
Keeps ==
  /\ account' \in [Users -> AccountRows \cup {NoAccount}]
  /\ \A u \in Users : Exists(u) => Exists(u)'
  /\ Superadmins \subseteq Superadmins'

\* The request of t goes on as r, the others stay.
Goes(t, r) == r \in Tasks /\ task' = [task EXCEPT ![t] = r]

\* A target that was found stays.
LEMMA FoundStays ==
  ASSUME AccountsTypeOK, TargetsFound, NEW t \in Threads, NEW r, Goes(t, r),
         \A u \in Users : Exists(u) => Exists(u)', Found(r, account')
  PROVE  TargetsFound' /\ task' \in [Threads -> Tasks]
<1>1. /\ task' \in [Threads -> Tasks] /\ task'[t] = r
      /\ \A o \in Threads : o # t => task'[o] = task[o]
  BY DEF Goes, AccountsTypeOK
<1>2. ASSUME NEW q, Found(q, account) PROVE Found(q, account')
  BY <1>2 DEF Found, Exists
<1>3. ASSUME NEW o \in Threads PROVE Found(task'[o], account')
  BY <1>1, <1>2 DEF TargetsFound
<1> QED BY <1>1, <1>3 DEF TargetsFound

\* A step that takes no superadmin away and starts no demotion keeps what
\* demotions leave, and lets the accounts be set up if there is a superadmin.
LEMMA GrowthKeeps ==
  ASSUME AccountsInv, NEW t \in Threads, NEW r, Goes(t, r), Keeps,
         clash' = clash, env' = env,
         r.at = "finish" /\ ~auth.initialized /\ env.superadmin => Superadmins' # {},
         auth'.initialized => auth.initialized \/ task[t].at = "finish",
         r.at = "write" /\ r.op = "role" /\ r.wanted # "superadmin" /\ env.superadmin /\ ~clash
           => Superadmins' \ {r.target} # {}
  PROVE  SetUpHasSuperadmin' /\ DemotionsLeaveOne'
<1>1. /\ task'[t] = r
      /\ \A o \in Threads : o # t => task'[o] = task[o]
  BY DEF Goes, AccountsInv, AccountsTypeOK
<1>2. Superadmins \subseteq Superadmins'
  BY DEF Keeps
<1>3. SetUpHasSuperadmin'
  <2> SUFFICES ASSUME env.superadmin, ~clash,
                      auth'.initialized \/ \E o \in Threads : task'[o].at = "finish"
               PROVE  Superadmins' # {}
    BY DEF SetUpHasSuperadmin
  <2>1. \/ auth.initialized \/ \E o \in Threads : task[o].at = "finish"
        \/ r.at = "finish" /\ ~auth.initialized
    BY <1>1
  <2>2. CASE auth.initialized \/ \E o \in Threads : task[o].at = "finish"
    BY <1>2, <2>2 DEF AccountsInv, SetUpHasSuperadmin
  <2> QED BY <2>1, <2>2
<1>4. DemotionsLeaveOne'
  <2> SUFFICES ASSUME env.superadmin, ~clash, NEW o \in Threads, Demoting(o)'
               PROVE  Superadmins' \ {task'[o].target} # {}
    BY DEF DemotionsLeaveOne
  <2>1. CASE o = t
    BY <1>1, <2>1 DEF Demoting
  <2>2. CASE o # t
    <3>1. task'[o] = task[o] /\ Demoting(o)
      BY <1>1, <2>2 DEF Demoting
    <3>2. Superadmins \ {task[o].target} # {}
      BY <3>1 DEF AccountsInv, DemotionsLeaveOne
    <3> QED BY <1>2, <3>1, <3>2
  <2> QED BY <2>1, <2>2
<1> QED BY <1>3, <1>4

\* Two superadmins are more than the one to demote.
LEMMA SecondSuperadmin ==
  ASSUME AccountsTypeOK, ~(Cardinality(Superadmins) <= 1), NEW u
  PROVE  Superadmins \ {u} # {}
<1> SUFFICES ASSUME Superadmins \subseteq {u} PROVE FALSE
  OBVIOUS
<1>1. IsFiniteSet({u}) /\ Cardinality({u}) = 1
  BY FS_Singleton
<1>2. Cardinality(Superadmins) <= Cardinality({u})
  BY <1>1, FS_Subset
<1> QED BY <1>1, <1>2

-----------------------------------------------------------------------------
(* Accounts: the steps.                                                    *)

\* A step that leaves the rows and clash alone and only moves its request on.
Reads(t, r) ==
  Goes(t, r) /\ account' = account /\ env' = env /\ clash' = clash

\* Such a step leaves the rows in place.
LEMMA ReadsKeep ==
  ASSUME AccountsTypeOK, account' = account
  PROVE  Keeps /\ Superadmins' = Superadmins
BY DEF AccountsTypeOK, Keeps, Exists, Superadmins

\* What is left to check of such a step.
LEMMA ReadsHold ==
  ASSUME AccountsInv, NEW t \in Threads, NEW r, Reads(t, r), Found(r, account),
         token' \subseteq Users, budget' \in [requests : Nat, faults : Nat],
         auth' \in [initialized : BOOLEAN, error : BOOLEAN],
         auth.initialized => auth'.initialized,
         r.at \in {"serve", "superadmins", "write"} => auth.initialized,
         r.at = "finish" /\ ~auth.initialized /\ env.superadmin => Superadmins # {},
         auth'.initialized => auth.initialized \/ task[t].at = "finish",
         r.at = "write" /\ r.op = "role" /\ r.wanted # "superadmin" /\ env.superadmin /\ ~clash
           => Superadmins \ {r.target} # {}
  PROVE  AccountsInv'
<1>1. AccountsTypeOK /\ TargetsFound /\ NothingServed
  BY DEF AccountsInv
<1>2. Goes(t, r) /\ account' = account /\ env' = env /\ clash' = clash
  BY DEF Reads
<1>3. Keeps /\ Superadmins' = Superadmins /\ \A u \in Users : Exists(u) => Exists(u)'
  BY <1>1, <1>2, ReadsKeep DEF Keeps
<1>4. TargetsFound' /\ task' \in [Threads -> Tasks]
  BY <1>1, <1>2, <1>3, FoundStays
<1>5. SetUpHasSuperadmin' /\ DemotionsLeaveOne'
  BY <1>2, <1>3, GrowthKeeps
<1>6. AccountsTypeOK'
  BY <1>1, <1>2, <1>4 DEF AccountsTypeOK
<1>7. NothingServed'
  <2>1. /\ task'[t] = r /\ \A o \in Threads : o # t => task'[o] = task[o]
    BY <1>1, <1>2 DEF Goes, AccountsTypeOK
  <2>2. \A u \in Users : Exists(u)' <=> Exists(u)
    BY <1>2 DEF Exists
  <2> QED BY <1>1, <1>3, <2>1, <2>2 DEF NothingServed
<1> QED BY <1>4, <1>5, <1>6, <1>7 DEF AccountsInv

\* A request served, or about to write, came after the accounts were set up.
LEMMA Served ==
  ASSUME AccountsInv, NEW t \in Threads,
         task[t].at \in {"serve", "superadmins", "write"}
  PROVE  auth.initialized /\ (env.superadmin /\ ~clash => Superadmins # {})
BY DEF AccountsInv, NothingServed, SetUpHasSuperadmin, AccountsTypeOK

\* The parts of a request.
LEMMA Parts ==
  ASSUME AccountsTypeOK, NEW t \in Threads
  PROVE  /\ task[t] \in Tasks /\ auth \in [initialized : BOOLEAN, error : BOOLEAN]
         /\ auth.initialized \in BOOLEAN /\ auth.error \in BOOLEAN
         /\ budget.requests \in Nat /\ budget.faults \in Nat
         /\ budget \in [requests : Nat, faults : Nat] /\ token \subseteq Users
         /\ task' = [task EXCEPT ![t] = NoTask] => Goes(t, NoTask)
         /\ \A place \in {"idle", "init", "count", "create", "finish", "auth", "serve",
                           "superadmins", "write"} :
              Moved(t, place) => Goes(t, [task[t] EXCEPT !.at = place])
<1>1. task[t] \in Tasks /\ NoTask \in Tasks
  BY DEF AccountsTypeOK, Tasks, NoTask, Required
<1>2. ASSUME NEW place \in {"idle", "init", "count", "create", "finish", "auth", "serve",
                            "superadmins", "write"}
      PROVE  [task[t] EXCEPT !.at = place] \in Tasks
  BY <1>1 DEF Tasks
<1> QED BY <1>1, <1>2 DEF AccountsTypeOK, Goes, Moved

\* A request that has no target to find.
LEMMA NothingToFind ==
  /\ \A rows : Found(NoTask, rows)
  /\ \A r, rows : r.at \notin {"superadmins", "write"} => Found(r, rows)
BY DEF Found, NoTask

\* A request arrives.
LEMMA ArriveHolds ==
  ASSUME AccountsInv, NEW t \in Threads, Arrive(t)
  PROVE  AccountsInv'
<1>1. AccountsTypeOK
  BY DEF AccountsInv
<1>2. PICK op \in DOMAIN Required, u \in token \cup {Nobody} :
        task' = [task EXCEPT ![t] = [NoTask EXCEPT !.at = "init", !.op = op, !.actor = u]]
  BY DEF Arrive
<1> DEFINE r == [NoTask EXCEPT !.at = "init", !.op = op, !.actor = u]
<1>3. r \in Tasks /\ r.at = "init"
  BY <1>1, <1>2 DEF Tasks, NoTask, AccountsTypeOK, Required
<1>4. Reads(t, r) /\ Found(r, account)
  BY <1>2, <1>3, NothingToFind DEF Reads, Goes, Arrive
<1>5. /\ token' = token /\ auth' = auth
      /\ budget' \in [requests : Nat, faults : Nat]
  BY <1>1 DEF Arrive, AccountsTypeOK
<1> HIDE DEF r
<1> QED BY <1>1, <1>3, <1>4, <1>5, ReadsHold, Parts

\* The initialisation, up to the superadmin's row.
LEMMA EnsureInitializedHolds ==
  ASSUME AccountsInv, NEW t \in Threads, EnsureInitialized(t)
  PROVE  AccountsInv'
<1>1. AccountsTypeOK
  BY DEF AccountsInv
<1>2. PICK place \in {"auth", "count"} : Moved(t, place)
  BY DEF EnsureInitialized
<1> DEFINE r == [task[t] EXCEPT !.at = place]
<1>3. /\ auth' \in [initialized : BOOLEAN, error : BOOLEAN] /\ auth'.initialized = auth.initialized
      /\ budget' \in [requests : Nat, faults : Nat]
  <2>1. CASE UNCHANGED <<auth, budget>>
    BY <1>1, <2>1 DEF AccountsTypeOK
  <2>2. CASE /\ budget.faults > 0 /\ budget' = [budget EXCEPT !.faults = @ - 1]
             /\ auth' = [auth EXCEPT !.error = TRUE]
    <3>0. budget.faults \in Nat
      BY <1>1 DEF AccountsTypeOK
    <3>1. budget.faults - 1 \in Nat
      BY <2>2, <3>0
    <3> QED BY <1>1, <2>2, <3>1 DEF AccountsTypeOK
  <2> QED BY <2>1, <2>2 DEF EnsureInitialized
<1>4. Goes(t, r) /\ r.at = place
  BY <1>1, <1>2, Parts DEF Tasks
<1>5. Reads(t, r) /\ Found(r, account) /\ token' = token
  BY <1>4, NothingToFind DEF Reads, EnsureInitialized
<1> HIDE DEF r
<1> QED BY <1>1, <1>3, <1>4, <1>5, ReadsHold, Parts

\* Only superadmins are in the table before the accounts are set up, so the
\* thread that finds a user there has found one.
LEMMA CountUsersHolds ==
  ASSUME AccountsInv, NEW t \in Threads, CountUsers(t)
  PROVE  AccountsInv'
<1>1. AccountsTypeOK /\ NothingServed
  BY DEF AccountsInv
<1>2. PICK place \in {"finish", "create"} :
        /\ Moved(t, place)
        /\ place = "finish" => (\E u \in Users : Exists(u)) \/ ~env.superadmin
  BY DEF CountUsers
<1> DEFINE r == [task[t] EXCEPT !.at = place]
<1>3. Goes(t, r) /\ r.at = place
  BY <1>1, <1>2, Parts DEF Tasks
<1>4. Reads(t, r) /\ Found(r, account) /\ token' = token /\ auth' = auth /\ budget' = budget
  BY <1>3, NothingToFind DEF Reads, CountUsers
<1>5. r.at = "finish" /\ ~auth.initialized /\ env.superadmin => Superadmins # {}
  BY <1>1, <1>2, <1>3 DEF NothingServed
<1> HIDE DEF r
<1> QED BY <1>1, <1>3, <1>4, <1>5, ReadsHold, Parts

\* The superadmin's row is created, or another thread has just done so.
LEMMA CreateSuperadminHolds ==
  ASSUME AccountsInv, NEW t \in Threads, CreateSuperadmin(t)
  PROVE  AccountsInv'
<1>1. AccountsTypeOK /\ NothingServed /\ TargetsFound
  BY DEF AccountsInv
<1>2. CASE Exists(Root)
  <2> DEFINE r == [task[t] EXCEPT !.at = "auth"]
  <2>1. Goes(t, r) /\ r.at = "auth"
    BY <1>1, <1>2, Parts DEF CreateSuperadmin, Tasks
  <2>2. Reads(t, r) /\ Found(r, account) /\ token' = token /\ budget' = budget
    BY <1>2, <2>1, NothingToFind DEF Reads, CreateSuperadmin
  <2>3. auth' \in [initialized : BOOLEAN, error : BOOLEAN] /\ auth'.initialized = auth.initialized
    BY <1>1, <1>2 DEF CreateSuperadmin, AccountsTypeOK
  <2> HIDE DEF r
  <2> QED BY <1>1, <2>1, <2>2, <2>3, ReadsHold, Parts
<1>3. CASE ~Exists(Root)
  <2> DEFINE r == [task[t] EXCEPT !.at = "finish"]
             row == [role |-> "superadmin", active |-> TRUE]
  <2>1. Goes(t, r) /\ r.at = "finish"
    BY <1>1, <1>3, Parts DEF CreateSuperadmin, Tasks
  <2>2. /\ account' = [account EXCEPT ![Root] = row] /\ row \in AccountRows /\ row # NoAccount
        /\ Root \in Users /\ UNCHANGED <<token, auth, env, clash, budget>>
    BY <1>3, AccountAssumption DEF CreateSuperadmin, AccountRows, Roles, NoAccount
  <2>3. /\ account'[Root] = row /\ \A u \in Users : u # Root => account'[u] = account[u]
        /\ account' \in [Users -> AccountRows \cup {NoAccount}]
    BY <1>1, <2>2 DEF AccountsTypeOK
  <2>4. Keeps /\ Root \in Superadmins'
    BY <2>2, <2>3 DEF Keeps, Exists, Superadmins
  <2>5. TargetsFound' /\ task' \in [Threads -> Tasks]
    <3>1. \A u \in Users : Exists(u) => Exists(u)'
      BY <2>4 DEF Keeps
    <3> QED BY <1>1, <2>1, <3>1, FoundStays, NothingToFind
  <2>6. SetUpHasSuperadmin' /\ DemotionsLeaveOne'
    BY <2>1, <2>2, <2>4, GrowthKeeps
  <2>7. AccountsTypeOK'
    BY <1>1, <2>2, <2>3, <2>5 DEF AccountsTypeOK
  <2>8. NothingServed'
    <3>1. /\ task'[t] = r /\ \A o \in Threads : o # t => task'[o] = task[o]
      BY <1>1, <2>1 DEF Goes, AccountsTypeOK
    <3>2. \A u \in Users : Exists(u)' => u = Root \/ Exists(u)
      BY <2>3 DEF Exists
    <3> QED BY <1>1, <2>1, <2>2, <2>4, <3>1, <3>2 DEF NothingServed, Keeps
  <2> QED BY <2>5, <2>6, <2>7, <2>8 DEF AccountsInv
<1> QED BY <1>2, <1>3

\* The accounts are declared set up.
LEMMA FinishInitializationHolds ==
  ASSUME AccountsInv, NEW t \in Threads, FinishInitialization(t)
  PROVE  AccountsInv'
<1>1. AccountsTypeOK
  BY DEF AccountsInv
<1> DEFINE r == [task[t] EXCEPT !.at = "auth"]
<1>2. Goes(t, r) /\ r.at = "auth" /\ task[t].at = "finish"
  BY <1>1, Parts DEF FinishInitialization, Tasks
<1>3. Reads(t, r) /\ Found(r, account) /\ token' = token /\ budget' = budget
  BY <1>2, NothingToFind DEF Reads, FinishInitialization
<1>4. auth' \in [initialized : BOOLEAN, error : BOOLEAN] /\ auth'.initialized
  BY <1>1 DEF FinishInitialization, AccountsTypeOK
<1> HIDE DEF r
<1> QED BY <1>1, <1>2, <1>3, <1>4, ReadsHold, Parts

\* A step whose request ends without a change of the rows.
LEMMA AnsweredHolds ==
  ASSUME AccountsInv, NEW t \in Threads, Answered(t), token' \subseteq Users,
         UNCHANGED <<account, auth, env, clash, budget>>
  PROVE  AccountsInv'
<1>1. AccountsTypeOK
  BY DEF AccountsInv
<1>2. Reads(t, NoTask) /\ Found(NoTask, account)
  BY <1>1, Parts, NothingToFind DEF Reads, Answered
<1> QED BY <1>1, <1>2, ReadsHold, Parts DEF NoTask

\* The token and the role are checked.
LEMMA AuthenticateHolds ==
  ASSUME AccountsInv, NEW t \in Threads, Authenticate(t)
  PROVE  AccountsInv'
<1>1. AccountsTypeOK
  BY DEF AccountsInv
<1>2. UNCHANGED <<account, token, auth, env, clash, budget>>
  BY DEF Authenticate
<1>3. CASE Answered(t)
  BY <1>1, <1>2, <1>3, AnsweredHolds, Parts
<1>4. CASE ~Answered(t)
  <2>1. PICK actor \in {task[t].actor, Nobody}, role \in Roles \cup {"none"} :
          /\ auth.initialized
          /\ task' = [task EXCEPT ![t].at = "serve", ![t].actor = actor, ![t].role = role]
    <3>1. PICK actor \in (IF task[t].actor \in token /\ auth.initialized
                                /\ account[task[t].actor].active
                            THEN {task[t].actor} ELSE {}) \cup {Nobody} :
            LET role == IF actor = Nobody THEN "none" ELSE account[actor].role
            IN  /\ auth.initialized
                /\ task' = [task EXCEPT ![t].at = "serve", ![t].actor = actor,
                                        ![t].role = role]
      BY <1>4 DEF Authenticate
    <3> DEFINE role == IF actor = Nobody THEN "none" ELSE account[actor].role
    <3>2. role \in Roles \cup {"none"}
      <4>1. CASE actor = Nobody
        BY <4>1
      <4>2. CASE actor # Nobody
        <5>1. actor \in Users
          BY <1>1, <3>1, <4>2 DEF AccountsTypeOK
        <5>2. account[actor] \in AccountRows \cup {NoAccount}
          BY <1>1, <5>1 DEF AccountsTypeOK
        <5> QED BY <4>2, <5>2 DEF AccountRows, NoAccount
      <4> QED BY <4>1, <4>2
    <3> QED BY <3>1, <3>2
  <2> DEFINE r == [task[t] EXCEPT !.at = "serve", !.actor = actor, !.role = role]
  <2>2. r \in Tasks /\ r.at = "serve"
    BY ZenonT(60), <1>1, <2>1 DEF AccountsTypeOK, Tasks
  <2>3. Goes(t, r)
    BY <1>1, <2>1, <2>2 DEF Goes, AccountsTypeOK
  <2>4. Reads(t, r) /\ Found(r, account)
    BY <1>2, <2>2, <2>3, NothingToFind DEF Reads
  <2> HIDE DEF r
  <2> QED BY <1>1, <1>2, <2>1, <2>2, <2>4, ReadsHold, Parts
<1> QED BY <1>3, <1>4

\* A request that ends and leaves the rows with all the superadmins they had.
LEMMA WritesHold ==
  ASSUME AccountsInv, NEW t \in Threads, Answered(t), Keeps, auth.initialized,
         UNCHANGED <<token, auth, env, clash, budget>>
  PROVE  AccountsInv'
<1>1. AccountsTypeOK /\ TargetsFound
  BY DEF AccountsInv
<1>2. Goes(t, NoTask)
  BY <1>1, Parts DEF Answered
<1>3. TargetsFound' /\ task' \in [Threads -> Tasks]
  <2>1. \A u \in Users : Exists(u) => Exists(u)'
    BY DEF Keeps
  <2> QED BY <1>1, <1>2, <2>1, FoundStays, NothingToFind
<1>4. SetUpHasSuperadmin' /\ DemotionsLeaveOne'
  BY <1>2, GrowthKeeps DEF NoTask
<1>5. AccountsTypeOK' /\ NothingServed'
  BY <1>1, <1>3 DEF AccountsTypeOK, NothingServed, Keeps
<1> QED BY <1>3, <1>4, <1>5 DEF AccountsInv

\* A row for an address that has none.
LEMMA RegisterHolds ==
  ASSUME AccountsInv, NEW t \in Threads, Register(t)
  PROVE  AccountsInv'
<1>1. /\ AccountsTypeOK /\ auth.initialized /\ Answered(t)
      /\ UNCHANGED <<token, auth, env, clash, budget>>
  BY Served DEF AccountsInv, Register
<1>2. CASE UNCHANGED account
  BY <1>1, <1>2, AnsweredHolds, Parts
<1>3. ASSUME NEW u \in Users, NEW row \in MayCreate(task[t].role), ~Exists(u),
             account' = [account EXCEPT ![u] = row]
      PROVE  Keeps
  <2>1. row \in AccountRows
    <3>1. [role |-> "user", active |-> FALSE] \in AccountRows
      BY DEF AccountRows, Roles
    <3>2. row \in AccountRows \/ row = [role |-> "user", active |-> FALSE]
      BY DEF MayCreate
    <3> QED BY <3>1, <3>2
  <2>2. row # NoAccount
    BY <2>1 DEF AccountRows, Roles, NoAccount
  <2>3. /\ account'[u] = row /\ \A v \in Users : v # u => account'[v] = account[v]
        /\ account' \in [Users -> AccountRows \cup {NoAccount}]
    BY <1>1, <1>3, <2>1 DEF AccountsTypeOK
  <2>4. u \notin Superadmins
    BY <1>3 DEF Exists, Superadmins, NoAccount
  <2> QED BY <2>2, <2>3, <2>4 DEF Keeps, Exists, Superadmins
<1> QED BY <1>1, <1>2, <1>3, WritesHold DEF Register

\* A login hands out a token.
LEMMA LoginHolds ==
  ASSUME AccountsInv, NEW t \in Threads, Login(t)
  PROVE  AccountsInv'
<1>1. token' \subseteq Users
  BY DEF AccountsInv, AccountsTypeOK, Login
<1> QED BY <1>1, AnsweredHolds DEF Login

\* The target of an activation is looked up.
LEMMA LookUpPendingHolds ==
  ASSUME AccountsInv, NEW t \in Threads, LookUpPending(t)
  PROVE  AccountsInv'
<1>1. /\ AccountsTypeOK /\ auth.initialized /\ task[t].op = "activate"
      /\ UNCHANGED <<account, token, auth, env, clash, budget>>
  BY Served DEF AccountsInv, LookUpPending
<1>2. CASE Answered(t)
  BY <1>1, <1>2, AnsweredHolds, Parts
<1>3. CASE ~Answered(t)
  <2>1. PICK u \in Users :
          Exists(u) /\ task' = [task EXCEPT ![t].at = "write", ![t].target = u]
    BY <1>3 DEF LookUpPending
  <2> DEFINE r == [task[t] EXCEPT !.at = "write", !.target = u]
  <2>2. r \in Tasks /\ r.at = "write" /\ r.op = "activate" /\ r.target = u
    BY ZenonT(60), <1>1, <2>1 DEF AccountsTypeOK, Tasks
  <2>3. Goes(t, r)
    BY <1>1, <2>1, <2>2 DEF Goes, AccountsTypeOK
  <2>4. Reads(t, r) /\ Found(r, account)
    BY <1>1, <2>1, <2>2, <2>3 DEF Reads, Found, Exists
  <2> HIDE DEF r
  <2> QED BY <1>1, <2>2, <2>4, ReadsHold, Parts
<1> QED BY <1>2, <1>3

\* The target is activated, and keeps its role.
LEMMA ActivateHolds ==
  ASSUME AccountsInv, NEW t \in Threads, Activate(t)
  PROVE  AccountsInv'
<1>1. /\ AccountsTypeOK /\ auth.initialized /\ Answered(t)
      /\ UNCHANGED <<token, auth, env, clash, budget>>
  BY Served DEF AccountsInv, Activate
<1> DEFINE u == task[t].target
<1>2. /\ u \in Users /\ account[u] \in AccountRows
      /\ account' = [account EXCEPT ![u].active = TRUE]
  <2>1. u \in Users /\ Exists(u)
    BY DEF AccountsInv, TargetsFound, Found, Activate, Exists
  <2> QED BY <1>1, <2>1 DEF AccountsTypeOK, Exists, Activate
<1> HIDE DEF u
<1>3. Keeps
  <2>1. [account[u] EXCEPT !.active = TRUE] \in AccountRows
        /\ [account[u] EXCEPT !.active = TRUE].role = account[u].role
    BY <1>2 DEF AccountRows
  <2>2. /\ account'[u] = [account[u] EXCEPT !.active = TRUE]
        /\ \A v \in Users : v # u => account'[v] = account[v]
        /\ account' \in [Users -> AccountRows \cup {NoAccount}]
    BY <1>1, <1>2, <2>1 DEF AccountsTypeOK
  <2>3. NoAccount \notin AccountRows
    BY DEF NoAccount, AccountRows, Roles
  <2> QED BY <2>1, <2>2, <2>3 DEF Keeps, Exists, Superadmins
<1> QED BY <1>1, <1>3, WritesHold

\* The target of a change of roles is looked up; if it is no superadmin, another
\* account is.
LEMMA LookUpTargetHolds ==
  ASSUME AccountsInv, NEW t \in Threads, LookUpTarget(t)
  PROVE  AccountsInv'
<1>1. /\ AccountsTypeOK /\ auth.initialized /\ task[t].op = "role"
      /\ UNCHANGED <<account, token, auth, env, clash, budget>>
      /\ env.superadmin /\ ~clash => Superadmins # {}
  BY Served DEF AccountsInv, LookUpTarget
<1>2. CASE Answered(t)
  BY <1>1, <1>2, AnsweredHolds, Parts
<1>3. CASE ~Answered(t)
  <2>1. PICK u \in Users, role \in Roles, place \in {"superadmins", "write"} :
          /\ Exists(u)
          /\ place = IF account[u].role = "superadmin" /\ role # "superadmin"
                     THEN "superadmins" ELSE "write"
          /\ task' = [task EXCEPT ![t].target = u, ![t].wanted = role, ![t].at = place]
    BY <1>3 DEF LookUpTarget
  <2> DEFINE r == [task[t] EXCEPT !.target = u, !.wanted = role, !.at = place]
  <2>2. /\ r \in Tasks /\ r.at = place /\ r.op = "role" /\ r.target = u /\ r.wanted = role
    <3> DEFINE p == [task[t] EXCEPT !.target = u]
               q == [p EXCEPT !.wanted = role]
    <3>1. task[t] \in Tasks /\ task[t].op = "role"
      BY <1>1 DEF AccountsTypeOK
    <3>2. p \in Tasks /\ p.op = "role" /\ p.target = u
      BY <3>1 DEF Tasks
    <3>3. r = [q EXCEPT !.at = place]
      BY <3>1 DEF Tasks
    <3> HIDE DEF p
    <3>4. q \in Tasks /\ q.op = "role" /\ q.target = u /\ q.wanted = role
      BY <3>2 DEF Tasks
    <3> HIDE DEF q, r
    <3>5. place \in {"superadmins", "write"}
      BY <2>1
    <3> QED BY <3>3, <3>4, <3>5 DEF Tasks
  <2>3. Goes(t, r)
    BY <1>1, <2>1, <2>2 DEF Goes, AccountsTypeOK
  <2> HIDE DEF r
  <2>4. Reads(t, r) /\ Found(r, account)
    BY <1>1, <2>1, <2>2, <2>3 DEF Reads, Found, Exists
  <2>5. r.at = "write" /\ r.wanted # "superadmin" /\ env.superadmin /\ ~clash
          => Superadmins \ {r.target} # {}
    <3> SUFFICES ASSUME r.at = "write", r.wanted # "superadmin", env.superadmin, ~clash
                 PROVE  Superadmins \ {r.target} # {}
      OBVIOUS
    <3>1. u \notin Superadmins
      BY <2>1, <2>2 DEF Superadmins
    <3> QED BY <1>1, <2>2, <3>1
  <2> QED BY <1>1, <2>1, <2>2, <2>4, <2>5, ReadsHold, Parts
<1> QED BY <1>2, <1>3

\* The superadmins are counted: one more than the one to demote.
LEMMA CountSuperadminsHolds ==
  ASSUME AccountsInv, NEW t \in Threads, CountSuperadmins(t)
  PROVE  AccountsInv'
<1>1. /\ AccountsTypeOK /\ auth.initialized /\ Found(task[t], account)
      /\ UNCHANGED <<account, token, auth, env, clash, budget>>
      /\ task[t].at = "superadmins"
  BY Served DEF AccountsInv, CountSuperadmins, TargetsFound
<1>2. CASE Answered(t)
  BY <1>1, <1>2, AnsweredHolds, Parts
<1>3. CASE ~Answered(t)
  <2>1. ~(Cardinality(Superadmins) <= 1) /\ Moved(t, "write")
    BY <1>3 DEF CountSuperadmins
  <2> DEFINE r == [task[t] EXCEPT !.at = "write"]
  <2>2. /\ Goes(t, r) /\ r.at = "write" /\ r.op = task[t].op
        /\ r.target = task[t].target /\ r.wanted = task[t].wanted
    BY <1>1, <2>1, Parts DEF Tasks
  <2> HIDE DEF r
  <2>3. Reads(t, r) /\ Found(r, account)
    BY <1>1, <2>2 DEF Reads, Found
  <2>4. Superadmins \ {r.target} # {}
    BY <1>1, <2>1, SecondSuperadmin
  <2> QED BY <1>1, <2>2, <2>3, <2>4, ReadsHold, Parts
<1> QED BY <1>2, <1>3

\* The role is written: what the count has promised holds, or two demotions
\* have overlapped.
LEMMA UpdateRoleHolds ==
  ASSUME AccountsInv, NEW t \in Threads, UpdateRole(t)
  PROVE  AccountsInv'
<1> DEFINE u == task[t].target
           w == task[t].wanted
<1>1. /\ AccountsTypeOK /\ TargetsFound /\ auth.initialized /\ Answered(t)
      /\ UNCHANGED <<token, auth, env, budget>>
      /\ task[t].at = "write" /\ task[t].op = "role"
      /\ account' = [account EXCEPT ![u].role = w]
      /\ clash' = (clash \/ (Demoting(t) /\ \E o \in Threads \ {t} : Demoting(o)))
  BY Served DEF AccountsInv, UpdateRole
<1>2. u \in Users /\ w \in Roles /\ account[u] \in AccountRows
  <2>1. u \in Users /\ w \in Roles /\ Exists(u)
    BY <1>1 DEF TargetsFound, Found, Exists
  <2> QED BY <1>1, <2>1 DEF AccountsTypeOK, Exists
<1>3. Demoting(t) <=> w # "superadmin"
  BY <1>1 DEF Demoting
<1> HIDE DEF u, w
<1>4. /\ account'[u].role = w /\ account'[u] \in AccountRows
      /\ \A v \in Users : v # u => account'[v] = account[v]
      /\ account' \in [Users -> AccountRows \cup {NoAccount}]
  <2>1. [account[u] EXCEPT !.role = w] \in AccountRows /\ [account[u] EXCEPT !.role = w].role = w
    BY <1>2 DEF AccountRows
  <2> QED BY <1>1, <1>2, <2>1 DEF AccountsTypeOK
<1>5. /\ \A v \in Users : Exists(v) => Exists(v)'
      /\ Superadmins \ {u} \subseteq Superadmins'
      /\ w = "superadmin" => Keeps
  <2>1. NoAccount \notin AccountRows
    BY DEF NoAccount, AccountRows, Roles
  <2> QED BY <1>4, <2>1 DEF Keeps, Exists, Superadmins
<1>6. CASE w = "superadmin"
  <2>1. clash' = clash
    BY <1>1, <1>3, <1>6 DEF AccountsTypeOK
  <2> QED BY <1>1, <1>5, <1>6, <2>1, WritesHold
<1>7. CASE w # "superadmin"
  <2>1. Goes(t, NoTask)
    BY <1>1, Parts DEF Answered
  <2>2. /\ task'[t] = NoTask
        /\ \A o \in Threads : o # t => task'[o] = task[o]
    BY <1>1, <2>1 DEF Goes, AccountsTypeOK
  <2>3. TargetsFound' /\ task' \in [Threads -> Tasks]
    BY <1>1, <1>5, <2>1, FoundStays, NothingToFind
  <2>4. clash' \in BOOLEAN
    BY <1>1 DEF AccountsTypeOK
  <2>5. AccountsTypeOK' /\ NothingServed'
    BY <1>1, <1>4, <2>3, <2>4 DEF AccountsTypeOK, NothingServed
  <2>6. ASSUME ~clash', env.superadmin
        PROVE  Superadmins' # {} /\ \A o \in Threads : ~Demoting(o)'
    <3>1. ~clash /\ \A o \in Threads \ {t} : ~Demoting(o)
      BY <1>1, <1>3, <1>7, <2>6
    <3>2. Superadmins \ {task[t].target} # {}
      BY <1>3, <1>7, <2>6, <3>1 DEF AccountsInv, DemotionsLeaveOne
    <3>3. \A o \in Threads : ~Demoting(o)'
      BY <2>2, <3>1 DEF Demoting, NoTask
    <3> QED BY <1>5, <3>2, <3>3 DEF u
  <2>7. SetUpHasSuperadmin' /\ DemotionsLeaveOne'
    BY <1>1, <2>6 DEF SetUpHasSuperadmin, DemotionsLeaveOne
  <2> QED BY <2>3, <2>5, <2>7 DEF AccountsInv
<1> QED BY <1>6, <1>7

-----------------------------------------------------------------------------
(* Accounts: the theorem.                                                  *)

\* An empty table, or the superadmin of an earlier start.
LEMMA InitHolds ==
  ASSUME AccountsInit
  PROVE  AccountsInv
<1>1. /\ Root \in Users /\ AccountBounds \subseteq [requests : Nat, faults : Nat]
  BY AccountAssumption
<1>2. \A t \in Threads : task[t] = NoTask
  BY DEF AccountsInit
<1>3. NoTask \in Tasks
  BY DEF Tasks, NoTask, Required
<1>4. \A u \in Users : account[u] = NoAccount
                      \/ account[u] = [role |-> "superadmin", active |-> TRUE]
  BY DEF AccountsInit
<1>5. AccountsTypeOK
  <2>1. [role |-> "superadmin", active |-> TRUE] \in AccountRows
    BY DEF AccountRows, Roles
  <2>2. account \in [Users -> AccountRows \cup {NoAccount}]
    BY <2>1 DEF AccountsInit
  <2>3. task \in [Threads -> Tasks]
    BY <1>3 DEF AccountsInit
  <2> QED BY <1>1, <2>2, <2>3 DEF AccountsInit, AccountsTypeOK
<1>6. TargetsFound
  BY <1>2, NothingToFind DEF TargetsFound
<1>7. NothingServed
  BY <1>2, <1>4 DEF NothingServed, NoTask, Exists, Superadmins
<1>8. SetUpHasSuperadmin /\ DemotionsLeaveOne
  BY <1>2 DEF AccountsInit, SetUpHasSuperadmin, DemotionsLeaveOne, Demoting, NoTask
<1> QED BY <1>5, <1>6, <1>7, <1>8 DEF AccountsInv

\* In every reachable state, for any number of users, threads and requests, every
\* variable has its type; and once the accounts are set up from an environment
\* that names a superadmin there is one, unless two demotions have overlapped.
THEOREM SuperadminIsLeft == AccountsSpec => []AccountsInvariant
<1>1. AccountsInit => AccountsInv
  BY InitHolds
<1>2. AccountsInv /\ [AccountsNext]_accountVars => AccountsInv'
  <2> SUFFICES ASSUME AccountsInv, [AccountsNext]_accountVars PROVE AccountsInv'
    OBVIOUS
  <2>1. ASSUME NEW t \in Threads, Arrive(t) PROVE AccountsInv'
    BY <2>1, ArriveHolds
  <2>2. ASSUME NEW t \in Threads, AccountStep(t) PROVE AccountsInv'
    BY <2>2, EnsureInitializedHolds, CountUsersHolds, CreateSuperadminHolds,
       FinishInitializationHolds, AuthenticateHolds, RegisterHolds, LoginHolds,
       LookUpPendingHolds, ActivateHolds, LookUpTargetHolds, CountSuperadminsHolds,
       UpdateRoleHolds DEF AccountStep
  <2>3. CASE UNCHANGED accountVars
    BY <2>3 DEF accountVars, AccountsInv, AccountsTypeOK, TargetsFound, NothingServed,
                SetUpHasSuperadmin, DemotionsLeaveOne, Demoting, Exists, Superadmins
  <2> QED BY <2>1, <2>2, <2>3 DEF AccountsNext
<1>3. AccountsInv => AccountsInvariant
  BY DEF AccountsInv, AccountsInvariant, SuperadminWithoutClash, SetUpHasSuperadmin
<1> QED BY <1>1, <1>2, <1>3, PTL DEF AccountsSpec

-----------------------------------------------------------------------------
(* WorkflowChat: messages and the lock.                                    *)

\* Places before the messages of a request are inserted, and those at which the
\* request knows which cycle it is about.
Before == {"idle", "load", "check", "claim", "engine", "lock", "insert"}
Told == {"engine", "lock", "insert", "reread", "upsert"}

By(r) == {i \in Positions : messages[i].by = r}

\* What a request of each kind is at, and what it knows there.
KindFits(q) ==
  /\ q.kind = "none" <=> q.at = "idle"
  /\ q.at = "load" => q.kind \in {"create", "turn"} /\ q.cycle = 0
  /\ q.at \in {"check", "claim", "consume", "restore"} => q.kind = "start"
  /\ q.at = "reread" => q.kind = "turn"
  /\ q.kind # "start" => q.target = 0
  /\ q.at \in {"claim", "upsert"} \cup (IF q.kind = "turn" /\ q.lost THEN {} ELSE Told) => q.cycle # 0
  /\ q.outcome # "none" <=> q.at = "done"
KindsFit == \A r \in Requests : KindFits(request[r])

\* Who is about to insert has counted the messages; nothing comes back to a
\* conversation that is gone.
LockCounts ==
  /\ \A r \in Requests :
       request[r].at = "insert" => conversation = "open" /\ request[r].next = Len(messages)
  /\ conversation # "open" => messages = <<>> /\ run = NoRun
  /\ conversation = "none" => \A r \in Requests : request[r].at = "idle"

Pairs ==
  \A i \in Positions :
    /\ messages[i].index = i - 1
    /\ messages[i].role = "user" =>
         /\ i < Len(messages)
         /\ messages[i + 1].role = "assistant"
         /\ messages[i + 1].by = messages[i].by

\* The message whose action a start is about.
Aims ==
  conversation = "open" => \A r \in Requests :
    request[r].kind = "start" => request[r].target \in Positions

PairInv == TypeOK /\ KindsFit /\ LockCounts /\ Pairs /\ Aims

-----------------------------------------------------------------------------
(* Steps and the lock.                                                     *)

RoomRows == [failures : Nat, losses : Nat, crashes : Nat, deletions : Nat,
             requests : Nat, overlap : Nat]

\* r goes on as q.
Own(r, q) ==
  /\ q \in RequestStates /\ request' = [request EXCEPT ![r] = q] /\ AtWork(r)
  /\ q.kind = request[r].kind /\ q.target = request[r].target /\ q.alone = request[r].alone
  /\ request[r].lost => q.lost
  /\ q.seen \in {request[r].seen, "none", "reconciled"}
  /\ q.at # "idle" /\ KindFits(q)

\* The lock goes with the place "insert".
LockFollows(r, q) ==
  \/ lock' = lock /\ (q.at = "insert" <=> request[r].at = "insert")
  \/ lock = NoRequest /\ lock' = r /\ q.at = "insert"
  \/ Unlock(r) /\ q.at # "insert"

\* Of the messages only what became of their actions changes.
SameMessages ==
  /\ messages' \in Seq(MessageRows) /\ Len(messages') = Len(messages)
  /\ \A i \in Positions : LET old == messages[i] new == messages'[i] IN
       /\ new.index = old.index /\ new.role = old.role /\ new.by = old.by
       /\ new.cycle = old.cycle /\ new.status = old.status
       /\ old.late => new.late
       /\ old.late \/ ~old.due => new.late \/ ~new.due
       /\ old.action # "none" => new.action # "none"

\* Every step but for a begin, a deletion, a crash and an insertion.
LEMMA OwnPairs ==
  ASSUME PairInv, NEW r \in Requests, NEW q, Own(r, q), LockFollows(r, q), SameMessages,
         mode' = mode, conversation' = conversation, room' \in RoomRows,
         run' \in {NoRun} \cup RunRows, conversation # "open" => run' = run,
         q.at = "insert" => conversation = "open" /\ q.next = Len(messages)
  PROVE  PairInv'
<1>1. /\ request' \in [Requests -> RequestStates] /\ request'[r] = q
      /\ \A x \in Requests : x # r => request'[x] = request[x]
  BY DEF Own, PairInv, TypeOK
<1>2. /\ lock' \in Requests \cup {NoRequest}
      /\ \A x \in Requests : lock' = x <=> request'[x].at = "insert"
  <2>1. /\ lock \in Requests \cup {NoRequest} /\ NoRequest \notin Requests
        /\ \A x \in Requests : lock = x <=> request[x].at = "insert"
    BY ChatAssumption DEF PairInv, TypeOK
  <2>2. CASE lock' = lock /\ (q.at = "insert" <=> request[r].at = "insert")
    BY <1>1, <2>1, <2>2
  <2>3. CASE lock = NoRequest /\ lock' = r /\ q.at = "insert"
    BY <1>1, <2>1, <2>3
  <2>4. CASE Unlock(r) /\ q.at # "insert"
    BY <1>1, <2>1, <2>4 DEF Unlock
  <2> QED BY <2>2, <2>3, <2>4 DEF LockFollows
<1>3. TypeOK'
  BY <1>1, <1>2 DEF PairInv, TypeOK, SameMessages, RoomRows
<1>4. KindsFit'
  BY <1>1 DEF KindsFit, PairInv, Own
<1>5. LockCounts'
  <2>1. messages = << >> => messages' = << >>
    BY EmptySeq DEF SameMessages
  <2>2. conversation # "none"
    BY DEF Own, AtWork, PairInv, LockCounts
  <2>3. ASSUME NEW x \in Requests, request'[x].at = "insert"
        PROVE  conversation = "open" /\ request'[x].next = Len(messages')
    <3>1. CASE x = r
      BY <1>1, <2>3, <3>1 DEF SameMessages
    <3>2. CASE x # r
      BY <1>1, <2>3, <3>2 DEF SameMessages, PairInv, LockCounts
    <3> QED BY <3>1, <3>2
  <2> QED BY <2>1, <2>2, <2>3 DEF PairInv, LockCounts
<1>6. Pairs'
  <2>1. /\ Positions' = Positions /\ Len(messages') = Len(messages) /\ Len(messages) \in Nat
        /\ \A i \in Positions : /\ messages'[i].index = messages[i].index
                               /\ messages'[i].role = messages[i].role
                               /\ messages'[i].by = messages[i].by
    BY DEF SameMessages, Positions, PairInv, TypeOK
  <2>2. ASSUME NEW i \in Positions
        PROVE  /\ messages'[i].index = i - 1
               /\ messages'[i].role = "user" =>
                    /\ i < Len(messages')
                    /\ messages'[i + 1].role = "assistant"
                    /\ messages'[i + 1].by = messages'[i].by
    <3>1. messages[i].role = "user" => i + 1 \in Positions
      BY <2>1 DEF PairInv, Pairs, Positions
    <3> QED BY <2>1, <3>1 DEF PairInv, Pairs
  <2> QED BY <2>1, <2>2 DEF Pairs
<1>7. Aims'
  <2>1. Positions' = Positions
    BY DEF SameMessages, Positions
  <2>2. \A x \in Requests : request'[x].kind = request[x].kind /\ request'[x].target = request[x].target
    BY <1>1 DEF Own
  <2> QED BY <2>1, <2>2 DEF Aims, PairInv
<1> QED BY <1>3, <1>4, <1>5, <1>6, <1>7 DEF PairInv

\* Messages that stay as they are.
LEMMA Unwritten ==
  ASSUME TypeOK, messages' = messages
  PROVE  SameMessages
BY DEF TypeOK, SameMessages

\* transition_message_action changes one action or none.
LEMMA Transitions ==
  ASSUME TypeOK, NEW m, NEW expected, NEW next \in ActionStates \ {"none"},
         Transition(m, expected, next)
  PROVE  /\ SameMessages
         /\ \A i \in Positions :
              \/ messages'[i] = messages[i] /\ ~(i = m /\ messages[m].action \in expected)
              \/ /\ i = m /\ messages[m].action \in expected
                 /\ messages'[m] = [messages[m] EXCEPT !.action = next, !.due = FALSE]
<1>1. CASE m \in 1..Len(messages) /\ messages[m].action \in expected
  <2> DEFINE e == [messages[m] EXCEPT !.action = next, !.due = FALSE]
  <2>1. messages \in Seq(MessageRows) /\ messages[m] \in MessageRows
    BY <1>1, ElementOfSeq DEF TypeOK
  <2>2. e \in MessageRows
    BY <2>1 DEF MessageRows
  <2>3. messages' = [messages EXCEPT ![m] = e]
    BY <1>1, <2>1 DEF Transition, MessageRows
  <2>4. /\ e.index = messages[m].index /\ e.role = messages[m].role /\ e.by = messages[m].by
        /\ e.cycle = messages[m].cycle /\ e.status = messages[m].status
        /\ e.late = messages[m].late /\ e.due = FALSE /\ e.action = next
    BY <2>1 DEF MessageRows
  <2>5. /\ messages' \in Seq(MessageRows) /\ Len(messages') = Len(messages)
        /\ \A i \in Positions : messages'[i] = IF i = m THEN e ELSE messages[i]
    <3> HIDE DEF e
    <3> QED BY <1>1, <2>1, <2>2, <2>3, ExceptSeq DEF Positions
  <2>6. SameMessages
    <3> HIDE DEF e
    <3> QED BY <2>4, <2>5 DEF SameMessages
  <2> QED BY <1>1, <2>5, <2>6 DEF Positions
<1>2. CASE ~(m \in 1..Len(messages) /\ messages[m].action \in expected)
  BY <1>2, Unwritten DEF Transition, Positions
<1> QED BY <1>1, <1>2
-----------------------------------------------------------------------------
(* The steps of a request that only read.                                  *)

\* A start that has its action, or still means to settle it.
Holds(q) ==
  /\ q.kind = "start"
  /\ \/ q.at \in {"engine", "lock", "insert", "upsert", "restore"}
     \/ q.at = "consume" /\ q.seen # "reconciled"

\* The frame of such a step.
Quiet(r, q) ==
  /\ Own(r, q) /\ LockFollows(r, q)
  /\ messages' = messages /\ run' = run /\ mode' = mode /\ conversation' = conversation
  /\ room' \in RoomRows
  /\ q.at = "insert" => conversation = "open" /\ q.next = Len(messages)

Loads(o, q) ==
  \/ /\ o.kind = "create" /\ o.at = "load" /\ q.at = "engine" /\ q.cycle = 1
  \/ /\ o.kind = "turn" /\ o.at = "load" /\ q.at = "engine"
     /\ \/ q.lost /\ q.cycle = 0
        \/ q.cycle = CycleOf(run) /\ StateOf(run) # "closed"
  \/ /\ o.kind = "create" /\ o.at = "load" /\ q.at = "done" /\ q.outcome = "ok" /\ q.lost

Checks(o, q) ==
  LET m == o.target
  IN  /\ o.kind = "start" /\ o.at = "check" /\ conversation = "open"
      /\ \/ q.at = "consume" /\ q.seen = "reconciled" /\ CycleOf(run) > messages[m].cycle
         \/ /\ q.at = "claim" /\ q.seen = o.seen /\ q.seen \in {"enabled", "expired"}
            /\ q.cycle = messages[m].cycle + 1
            /\ run # NoRun /\ run.cycle = messages[m].cycle /\ run.state = "active"

Advances(o, q) ==
  /\ q.seen = o.seen /\ q.lost = o.lost
  /\ \/ o.at = "engine" /\ q.at = "lock" /\ q.cycle = o.cycle
     \/ o.at = "lock" /\ q.at = "insert" /\ q.cycle = o.cycle /\ q.status = o.status
     \/ /\ o.at = "reread" /\ q.at = "upsert" /\ q.status = o.status
        /\ q.cycle = (IF o.cycle = 0 THEN CycleOf(run) ELSE o.cycle)
        /\ q.boundary = BoundaryOf(run)

Gives(o, q) ==
  \/ /\ o.kind = "start" /\ o.at = "engine" /\ q.at = "consume" /\ q.seen = o.seen /\ q.lost
  \/ /\ ~Holds(o) /\ o.at \notin {"consume", "restore"}
     /\ q.at = "done" /\ q.outcome \in {"refused", "failed"}
  \/ /\ o.kind = "start" /\ o.at \in {"engine", "lock", "insert", "upsert"}
     /\ q.at = "restore" /\ q.seen = o.seen
  \/ o.at \in {"consume", "restore"} /\ q.at = "done" /\ q.outcome = "broken"

Hops(o, q) ==
  Loads(o, q) \/ Checks(o, q) \/ Advances(o, q) \/ Gives(o, q)

\* What a request is.
LEMMA States ==
  ASSUME PairInv, NEW r \in Requests
  PROVE  /\ request[r] \in RequestStates /\ KindFits(request[r])
         /\ room \in RoomRows /\ messages \in Seq(MessageRows) /\ Len(messages) \in Nat
         /\ run \in {NoRun} \cup RunRows /\ BoundaryOf(run) \in Nat
         /\ CycleOf(run) \in Nat \ {0} /\ StateOf(run) \in {"active", "closed"}
         /\ \A i \in Positions : messages[i] \in MessageRows
<1>1. /\ request[r] \in RequestStates /\ KindFits(request[r])
      /\ room \in RoomRows /\ messages \in Seq(MessageRows) /\ Len(messages) \in Nat
      /\ run \in {NoRun} \cup RunRows
  BY DEF PairInv, TypeOK, KindsFit, RoomRows
<1>2. /\ BoundaryOf(run) \in Nat
      /\ CycleOf(run) \in Nat \ {0} /\ StateOf(run) \in {"active", "closed"}
  BY <1>1 DEF BoundaryOf, CycleOf, StateOf, RunRows
<1> QED BY <1>1, <1>2, ElementOfSeq DEF Positions

\* What the messages are.
LEMMA Rowed ==
  ASSUME PairInv
  PROVE  /\ Len(messages) \in Nat
         /\ \A i \in Positions : messages[i] \in MessageRows /\ messages[i].by \in Requests
<1>1. messages \in Seq(MessageRows)
  BY DEF PairInv, TypeOK
<1>2. Len(messages) \in Nat /\ \A i \in Positions : messages[i] \in MessageRows
  BY <1>1, ElementOfSeq DEF Positions
<1> QED BY <1>2 DEF MessageRows

\* A request that ends.
LEMMA Endings ==
  ASSUME PairInv, NEW r \in Requests, AtWork(r), NEW o \in RequestStates,
         o.kind = request[r].kind, o.target = request[r].target, o.alone = request[r].alone,
         request[r].lost => o.lost,
         NEW outcome \in Outcomes \ {"none"}, Set(r, Ended(o, outcome))
  PROVE  \E q : /\ Own(r, q) /\ q.at = "done" /\ q.outcome = outcome /\ q.seen = "none"
                /\ q.lost = o.lost
<1> DEFINE q == Ended(o, outcome)
<1>1. /\ q \in RequestStates /\ q.at = "done" /\ q.outcome = outcome /\ q.seen = "none"
      /\ q.lost = o.lost /\ q.kind = o.kind /\ q.target = o.target /\ q.alone = o.alone
  <2>1. Unused \in RequestStates /\ Unused.seen = "none"
    BY DEF Unused, RequestStates, Kinds, Places, Outcomes, Statuses, ActionStates
  <2>2. /\ o.kind \in Kinds /\ o.target \in Nat /\ o.lost \in BOOLEAN /\ o.alone \in BOOLEAN
        /\ "done" \in Places
    BY DEF RequestStates, Places
  <2> QED BY <2>1, <2>2 DEF Ended, RequestStates
<1>2. request' = [request EXCEPT ![r] = q]
  BY DEF Set
<1> HIDE DEF q
<1>3. KindFits(q)
  BY <1>1, States DEF KindFits, Told, AtWork
<1> QED BY <1>1, <1>2, <1>3 DEF Own

\* An exception.
LEMMA Raises ==
  ASSUME PairInv, NEW r \in Requests, AtWork(r), Raise(r)
  PROVE  \E q : Own(r, q) /\ q.at \in {"restore", "done"} /\ Hops(request[r], q)
<1> DEFINE o == request[r]
<1>1. o \in RequestStates /\ KindFits(o)
  BY States
<1>2. CASE o.kind = "start" /\ o.at \in {"engine", "lock", "insert", "upsert"}
  <2> DEFINE q == [o EXCEPT !.at = "restore"]
  <2>1. request' = [request EXCEPT ![r] = q]
    BY <1>2 DEF Raise, Goto, Set
  <2>2. /\ q \in RequestStates /\ q.at = "restore" /\ q.seen = o.seen /\ q.kind = o.kind
        /\ q.target = o.target /\ q.alone = o.alone /\ q.lost = o.lost /\ q.outcome = o.outcome
        /\ q.cycle = o.cycle
    BY <1>1 DEF RequestStates, Places
  <2> HIDE DEF q
  <2>3. KindFits(q)
    BY <1>1, <1>2, <2>2 DEF KindFits, Told
  <2>4. Own(r, q) /\ Hops(o, q)
    BY <1>2, <2>1, <2>2, <2>3 DEF Own, Hops, Gives
  <2> QED BY <2>2, <2>4
<1>3. CASE ~(o.kind = "start" /\ o.at \in {"engine", "lock", "insert", "upsert"})
  <2> DEFINE outcome == IF o.at \in {"consume", "restore"} THEN "broken" ELSE "failed"
  <2>1. Set(r, Ended(o, outcome)) /\ outcome \in Outcomes \ {"none"}
    BY <1>3 DEF Raise, End, Outcomes
  <2>2. PICK q : Own(r, q) /\ q.at = "done" /\ q.outcome = outcome /\ q.seen = "none"
    <3> HIDE DEF outcome
    <3> QED BY <1>1, <2>1, Endings
  <2>3. Hops(o, q)
    BY <1>3, <2>2 DEF Hops, Gives, Holds
  <2> QED BY <2>2, <2>3
<1> QED BY <1>2, <1>3

\* A request that goes on with some fields changed.
LEMMA Continues ==
  ASSUME PairInv, NEW r \in Requests, AtWork(r), NEW q \in RequestStates, Set(r, q),
         q.kind = request[r].kind, q.target = request[r].target, q.alone = request[r].alone,
         request[r].lost => q.lost, q.outcome = request[r].outcome,
         q.seen \in {request[r].seen, "reconciled"},
         q.at \in Places \ {"idle", "done", "load"},
         q.at \in {"check", "claim", "consume", "restore"} => q.kind = "start",
         q.at = "reread" => q.kind = "turn",
         q.at \in {"claim", "upsert"} \cup (IF q.kind = "turn" /\ q.lost THEN {} ELSE Told) => q.cycle # 0
  PROVE  Own(r, q)
<1>1. KindFits(request[r]) /\ request[r].at \notin {"idle", "done"}
  BY States DEF AtWork
<1>2. KindFits(q)
  BY <1>1 DEF KindFits, Told
<1> QED BY <1>2 DEF Own, Set

\* What a step that only reads leaves.
Frame ==
  /\ messages' = messages /\ run' = run /\ mode' = mode /\ conversation' = conversation
  /\ room' \in RoomRows

\* A request loads the run and the settings.
LEMMA LoadShapes ==
  ASSUME PairInv, NEW r \in Requests, LoadCreate(r) \/ LoadTurn(r)
  PROVE  \E q : Quiet(r, q) /\ Hops(request[r], q)
<1> DEFINE o == request[r]
           cycle == IF LoadCreate(r) THEN 1 ELSE CycleOf(run)
<1>1. /\ o \in RequestStates /\ KindFits(o) /\ CycleOf(run) \in Nat \ {0} /\ room \in RoomRows
  BY States
<1>2. /\ o.at = "load" /\ AtWork(r) /\ Frame /\ lock' = lock
  BY <1>1 DEF LoadCreate, LoadTurn, AtWork, Frame
<1>3. CASE /\ Set(r, [o EXCEPT !.at = "engine", !.cycle = cycle])
           /\ o.kind = "create" \/ (o.kind = "turn" /\ StateOf(run) # "closed")
           /\ o.kind = "create" => cycle = 1
           /\ o.kind = "turn" => cycle = CycleOf(run)
  <2> HIDE DEF cycle
  <2> DEFINE q == [o EXCEPT !.at = "engine", !.cycle = cycle]
  <2>1. cycle \in Nat \ {0}
    BY <1>1, <1>3
  <2>2. /\ q \in RequestStates /\ q.at = "engine" /\ q.cycle = cycle /\ q.seen = o.seen
        /\ q.kind = o.kind /\ q.target = o.target /\ q.alone = o.alone /\ q.lost = o.lost
        /\ q.outcome = o.outcome
    BY <1>1, <2>1 DEF RequestStates, Places
  <2>3. Set(r, q)
    BY <1>3
  <2> HIDE DEF q
  <2>4. Own(r, q)
    BY <1>2, <2>1, <2>2, <2>3, Continues DEF Places
  <2>5. Hops(o, q)
    BY <1>2, <1>3, <2>2 DEF Hops, Loads
  <2> QED BY <1>2, <2>2, <2>4, <2>5 DEF Quiet, Frame, LockFollows
<1>4. CASE End(r, "refused") /\ o.kind = "turn"
  <2>1. PICK q : Own(r, q) /\ q.at = "done" /\ q.outcome = "refused" /\ q.seen = "none"
    BY <1>1, <1>2, <1>4, Endings DEF End, Outcomes
  <2>2. Hops(o, q)
    BY <1>2, <1>4, <2>1 DEF Hops, Gives, Holds
  <2> QED BY <1>2, <2>1, <2>2 DEF Quiet, Frame, LockFollows
<1>5. CASE LoadCreate(r)
  BY <1>3, <1>5 DEF LoadCreate
<1>6. CASE ~LoadCreate(r) /\ LoadTurn(r)
  BY <1>3, <1>4, <1>6 DEF LoadTurn
<1> QED BY <1>5, <1>6

\* The settings are lost.
LEMMA LoseShapes ==
  ASSUME PairInv, NEW r \in Requests, LoseSettings(r)
  PROVE  \E q : Quiet(r, q) /\ Hops(request[r], q)
<1> DEFINE o == request[r]
           l == [o EXCEPT !.lost = TRUE]
<1>1. /\ o \in RequestStates /\ KindFits(o) /\ room \in RoomRows
  BY States
<1>2. o.at \in {"load", "engine", "check"} /\ AtWork(r) /\ Frame /\ lock' = lock
  <2>1. room' \in RoomRows
    BY <1>1 DEF LoseSettings, RoomRows
  <2> QED BY <1>1, <2>1 DEF LoseSettings, AtWork, Frame
<1>3. /\ l \in RequestStates /\ l.lost /\ l.at = o.at /\ l.kind = o.kind /\ l.target = o.target
      /\ l.alone = o.alone /\ l.seen = o.seen /\ l.cycle = o.cycle /\ l.outcome = o.outcome
  BY <1>1 DEF RequestStates
<1>4. \/ o.kind = "turn" /\ o.at = "load" /\ Set(r, [l EXCEPT !.at = "engine"])
      \/ /\ o.kind = "create" /\ o.at = "load"
         /\ Set(r, Ended(l, "ok")) \/ Set(r, [l EXCEPT !.at = "engine", !.cycle = 1])
      \/ o.kind = "start" /\ o.at = "engine" /\ Set(r, [l EXCEPT !.at = "consume"])
      \/ o.kind = "start" /\ o.at = "check" /\ Set(r, Ended(l, "refused"))
  BY DEF LoseSettings
<1> HIDE DEF l
<1>5. ASSUME NEW place \in {"engine", "consume"}, NEW cycle \in Nat,
             Set(r, [l EXCEPT !.at = place, !.cycle = cycle]),
             \/ o.kind = "turn" /\ o.at = "load" /\ place = "engine" /\ cycle = 0
             \/ o.kind = "create" /\ o.at = "load" /\ place = "engine" /\ cycle = 1
             \/ o.kind = "start" /\ o.at = "engine" /\ place = "consume"
      PROVE  \E q : Quiet(r, q) /\ Hops(request[r], q)
  <2> DEFINE q == [l EXCEPT !.at = place, !.cycle = cycle]
  <2>1. /\ q \in RequestStates /\ q.at = place /\ q.cycle = cycle /\ q.seen = o.seen
        /\ q.kind = o.kind /\ q.target = o.target /\ q.alone = o.alone /\ q.lost
        /\ q.outcome = o.outcome
    BY <1>3 DEF RequestStates, Places
  <2>2. Set(r, q)
    BY <1>5
  <2> HIDE DEF q
  <2>3. Own(r, q)
    BY <1>2, <1>5, <2>1, <2>2, Continues DEF Places, Told
  <2>4. Hops(o, q)
    BY <1>5, <2>1 DEF Hops, Loads, Gives
  <2> QED BY <1>2, <1>5, <2>1, <2>3, <2>4 DEF Quiet, Frame, LockFollows
<1>6. ASSUME NEW outcome \in {"ok", "refused"}, Set(r, Ended(l, outcome)),
             \/ o.kind = "create" /\ o.at = "load" /\ outcome = "ok"
             \/ o.kind = "start" /\ o.at = "check" /\ outcome = "refused"
      PROVE  \E q : Quiet(r, q) /\ Hops(request[r], q)
  <2>1. PICK q : Own(r, q) /\ q.at = "done" /\ q.outcome = outcome /\ q.seen = "none" /\ q.lost
    BY <1>2, <1>3, <1>6, Endings DEF Outcomes
  <2>2. Hops(o, q)
    BY <1>6, <2>1 DEF Hops, Loads, Gives, Holds
  <2> QED BY <1>2, <2>1, <2>2 DEF Quiet, Frame, LockFollows
<1>7. ASSUME NEW place, Set(r, [l EXCEPT !.at = place])
      PROVE  Set(r, [l EXCEPT !.at = place, !.cycle = l.cycle]) /\ l.cycle \in Nat
  BY <1>3, <1>7 DEF RequestStates
<1>8. o.at = "load" => l.cycle = 0
  BY <1>1, <1>3 DEF KindFits
<1> QED BY <1>4, <1>5, <1>6, <1>7, <1>8

\* The check of a start, of a conversation that is there or gone.
LEMMA CheckShapes ==
  ASSUME PairInv, NEW r \in Requests, CheckStart(r) \/ CheckDeleted(r)
  PROVE  \E q : Quiet(r, q) /\ Hops(request[r], q)
<1> DEFINE o == request[r]
           cycle == messages[o.target].cycle
<1>1. /\ o \in RequestStates /\ KindFits(o) /\ CycleOf(run) \in Nat \ {0} /\ room \in RoomRows
  BY States
<1>2. /\ o.at = "check" /\ o.kind = "start" /\ AtWork(r) /\ Frame /\ lock' = lock
  BY <1>1 DEF CheckStart, CheckDeleted, AtWork, Frame, KindFits
<1>3. CASE End(r, "refused")
  <2>1. PICK q : Own(r, q) /\ q.at = "done" /\ q.outcome = "refused" /\ q.seen = "none"
    BY <1>1, <1>2, <1>3, Endings DEF End, Outcomes
  <2>2. Hops(o, q)
    BY <1>2, <2>1 DEF Hops, Gives, Holds
  <2> QED BY <1>2, <2>1, <2>2 DEF Quiet, Frame, LockFollows
<1>4. CASE /\ conversation = "open" /\ CycleOf(run) > cycle /\ cycle \in Nat
           /\ Set(r, [o EXCEPT !.at = "consume", !.seen = "reconciled"])
  <2> DEFINE q == [o EXCEPT !.at = "consume", !.seen = "reconciled"]
  <2>1. /\ q \in RequestStates /\ q.at = "consume" /\ q.seen = "reconciled"
        /\ q.kind = o.kind /\ q.target = o.target /\ q.alone = o.alone /\ q.lost = o.lost
        /\ q.outcome = o.outcome
    BY <1>1 DEF RequestStates, Places
  <2>2. Set(r, q)
    BY <1>4
  <2> HIDE DEF q
  <2>3. Own(r, q)
    BY <1>2, <2>1, <2>2, Continues DEF Places, Told
  <2>4. Hops(o, q)
    BY <1>2, <1>4, <2>1 DEF Hops, Checks
  <2> QED BY <1>2, <2>1, <2>3, <2>4 DEF Quiet, Frame, LockFollows
<1>5. CASE /\ conversation = "open" /\ cycle \in Nat /\ run # NoRun /\ run.cycle = cycle /\ run.state = "active"
           /\ o.seen \in {"enabled", "expired"}
           /\ Set(r, [o EXCEPT !.at = "claim", !.cycle = cycle + 1])
  <2> DEFINE q == [o EXCEPT !.at = "claim", !.cycle = cycle + 1]
  <2>0. cycle + 1 \in Nat \ {0}
    BY <1>5
  <2>1. /\ q \in RequestStates /\ q.at = "claim" /\ q.seen = o.seen /\ q.cycle = cycle + 1
        /\ q.kind = o.kind /\ q.target = o.target /\ q.alone = o.alone /\ q.lost = o.lost
        /\ q.outcome = o.outcome
    <3> HIDE DEF cycle
    <3> QED BY <1>1, <2>0 DEF RequestStates, Places
  <2>2. Set(r, q)
    BY <1>5
  <2> HIDE DEF q
  <2>3. Own(r, q)
    BY <1>2, <2>0, <2>1, <2>2, Continues DEF Places, Told
  <2>4. Hops(o, q)
    BY <1>2, <1>5, <2>1 DEF Hops, Checks
  <2> QED BY <1>2, <2>1, <2>3, <2>4 DEF Quiet, Frame, LockFollows
<1>6. CASE CheckStart(r)
  <2>1. conversation = "open" /\ mode \in {"loop", "one_time"} /\ cycle \in Nat
    <3>1. conversation = "open" /\ mode \in {"loop", "one_time"}
      BY <1>6 DEF CheckStart, PairInv, TypeOK
    <3>2. messages[o.target] \in MessageRows
      BY <1>2, <3>1, States DEF PairInv, Aims
    <3> QED BY <3>1, <3>2 DEF MessageRows
  <2>2. \/ End(r, "refused")
        \/ CycleOf(run) > cycle /\ Set(r, [o EXCEPT !.at = "consume", !.seen = "reconciled"])
        \/ /\ run # NoRun /\ run.cycle = cycle /\ run.state = "active"
           /\ o.seen \in {"enabled", "expired"}
           /\ Set(r, [o EXCEPT !.at = "claim", !.cycle = cycle + 1])
    <3>1. CASE mode # "loop"
      BY <1>6, <3>1 DEF CheckStart
    <3>2. CASE mode = "loop" /\ CycleOf(run) > cycle
      BY <1>1, <1>6, <2>1, <3>2 DEF CheckStart
    <3>3. CASE mode = "loop" /\ CycleOf(run) <= cycle
      BY <1>1, <1>6, <2>1, <3>3 DEF CheckStart
    <3> QED BY <1>1, <2>1, <3>1, <3>2, <3>3
  <2> QED BY <1>3, <1>4, <1>5, <2>1, <2>2
<1>7. CASE CheckDeleted(r)
  BY <1>3, <1>7 DEF CheckDeleted
<1> QED BY <1>6, <1>7

\* The engine answers, and the row is locked.
LEMMA AdvanceShapes ==
  ASSUME PairInv, NEW r \in Requests, EngineAnswers(r) \/ LockConversation(r) \/ RereadRun(r)
  PROVE  \E q : Quiet(r, q) /\ Hops(request[r], q)
<1> DEFINE o == request[r]
<1>1. /\ o \in RequestStates /\ KindFits(o) /\ room \in RoomRows /\ BoundaryOf(run) \in Nat
      /\ CycleOf(run) \in Nat \ {0}
  BY States
<1>2. o.at \in {"engine", "lock", "reread"} /\ AtWork(r) /\ Frame
  BY <1>1 DEF EngineAnswers, LockConversation, RereadRun, AtWork, Frame
<1>3. CASE EngineAnswers(r)
  <2>1. PICK result \in {"awaiting_user_input", "completed"} :
          Set(r, [o EXCEPT !.at = "lock", !.status = result])
    BY <1>3 DEF EngineAnswers
  <2> DEFINE q == [o EXCEPT !.at = "lock", !.status = result]
  <2>2. /\ q \in RequestStates /\ q.at = "lock" /\ q.seen = o.seen /\ q.cycle = o.cycle
        /\ q.kind = o.kind /\ q.target = o.target /\ q.alone = o.alone /\ q.lost = o.lost
        /\ q.outcome = o.outcome
    BY <1>1 DEF RequestStates, Places, Statuses
  <2>3. Set(r, q) /\ o.at = "engine" /\ lock' = lock
    BY <1>3, <2>1 DEF EngineAnswers
  <2> HIDE DEF q
  <2>4. Own(r, q)
    BY <1>1, <1>2, <2>2, <2>3, Continues DEF Places, Told, KindFits
  <2>5. Hops(o, q)
    BY <2>2, <2>3 DEF Hops, Advances
  <2> QED BY <1>2, <2>2, <2>3, <2>4, <2>5 DEF Quiet, Frame, LockFollows
<1>4. CASE RereadRun(r)
  <2> DEFINE c == IF o.cycle = 0 THEN CycleOf(run) ELSE o.cycle
             q == [o EXCEPT !.at = "upsert", !.boundary = BoundaryOf(run), !.cycle = c]
  <2>1. c \in Nat \ {0} /\ o.status \in Statuses
    BY <1>1 DEF RequestStates
  <2>2. Set(r, q) /\ o.at = "reread" /\ lock' = lock
    BY <1>1, <1>4 DEF RereadRun, RequestStates
  <2>3. /\ q \in RequestStates /\ q.at = "upsert" /\ q.seen = o.seen /\ q.cycle = c
        /\ q.kind = o.kind /\ q.target = o.target /\ q.alone = o.alone /\ q.lost = o.lost
        /\ q.outcome = o.outcome /\ q.status = o.status /\ q.boundary = BoundaryOf(run)
    <3> HIDE DEF c
    <3> QED BY <1>1, <2>1 DEF RequestStates, Places
  <2> HIDE DEF q
  <2>4. Own(r, q)
    <3> HIDE DEF c
    <3> QED BY <1>2, <2>1, <2>2, <2>3, Continues DEF Places, Told
  <2>5. Hops(o, q)
    BY <2>2, <2>3 DEF Hops, Advances
  <2> QED BY <1>2, <2>2, <2>3, <2>4, <2>5 DEF Quiet, Frame, LockFollows
<1>5. CASE LockConversation(r)
  <2>1. o.at = "lock" /\ lock = NoRequest
    BY <1>5 DEF LockConversation
  <2>2. NextIndex = Len(messages)
    BY States, EmptySeq DEF NextIndex, PairInv, Pairs, Positions
  <2>3. CASE conversation = "open"
    <3> DEFINE q == [o EXCEPT !.at = "insert", !.next = NextIndex]
    <3>1. Set(r, q) /\ lock' = r
      BY <1>5, <2>3 DEF LockConversation
    <3>2. /\ q \in RequestStates /\ q.at = "insert" /\ q.seen = o.seen /\ q.cycle = o.cycle
          /\ q.kind = o.kind /\ q.target = o.target /\ q.alone = o.alone /\ q.lost = o.lost
          /\ q.outcome = o.outcome /\ q.status = o.status /\ q.next = Len(messages)
      BY <1>1, <2>2, States DEF RequestStates, Places
    <3> HIDE DEF q
    <3>3. Own(r, q)
      BY <1>1, <1>2, <2>1, <3>1, <3>2, Continues DEF Places, Told, KindFits
    <3>4. Hops(o, q)
      BY <2>1, <3>2 DEF Hops, Advances
    <3> QED BY <1>2, <2>1, <2>3, <3>1, <3>2, <3>3, <3>4 DEF Quiet, Frame, LockFollows
  <2>4. CASE conversation # "open"
    <3>1. Raise(r) /\ lock' = lock
      BY <1>5, <2>4 DEF LockConversation
    <3>2. PICK q : Own(r, q) /\ q.at \in {"restore", "done"} /\ Hops(o, q)
      BY <1>2, <3>1, Raises
    <3> QED BY <1>2, <2>1, <3>1, <3>2 DEF Quiet, Frame, LockFollows
  <2> QED BY <2>3, <2>4
<1> QED BY <1>3, <1>4, <1>5

\* A failure, also of an upsert whose conversation is gone.
LEMMA FailShapes ==
  ASSUME PairInv, NEW r \in Requests, Fail(r) \/ (UpsertRun(r) /\ conversation # "open")
  PROVE  \E q : Quiet(r, q) /\ Hops(request[r], q)
<1>1. room \in RoomRows /\ request[r] \in RequestStates
  BY States
<1>2. AtWork(r) /\ Raise(r) /\ Frame
  <2>1. CASE Fail(r)
    <3>1. room' \in RoomRows
      BY <1>1, <2>1 DEF Fail, RoomRows
    <3> QED BY <2>1, <3>1 DEF Fail, Frame
  <2>2. CASE UpsertRun(r) /\ conversation # "open"
    BY <1>1, <2>2 DEF UpsertRun, AtWork, Frame
  <2> QED BY <2>1, <2>2
<1>3. PICK q : Own(r, q) /\ q.at \in {"restore", "done"} /\ Hops(request[r], q)
  BY <1>2, Raises
<1>4. LockFollows(r, q)
  BY <1>3 DEF Fail, UpsertRun, LockFollows
<1> QED BY <1>2, <1>3, <1>4 DEF Quiet, Frame

-----------------------------------------------------------------------------
(* The steps of a request that write.                                      *)

\* What transition_message_action does to the messages.
Moves(m, expected, next) ==
  \A i \in Positions :
    \/ messages'[i] = messages[i] /\ ~(i = m /\ messages[m].action \in expected)
    \/ /\ i = m /\ messages[m].action \in expected
       /\ messages'[m] = [messages[m] EXCEPT !.action = next, !.due = FALSE]

Claims(o, q) ==
  /\ o.at = "claim" /\ Moves(o.target, ClaimedFrom(o.seen), "executing")
  /\ IF o.target \in Positions /\ messages[o.target].action \in ClaimedFrom(o.seen)
       THEN q.at = "engine" /\ q.seen = o.seen /\ q.cycle = o.cycle /\ q.lost = o.lost
       ELSE q.at = "done" /\ q.outcome = "refused" /\ q.lost = o.lost

Settles(o, q) ==
  /\ o.at = "consume" /\ q.at = "done" /\ q.outcome = "ok" /\ q.lost = o.lost
  /\ Moves(o.target, IF o.seen = "reconciled" THEN {"enabled", "executing"} ELSE {"executing"},
           "consumed")

Restores(o, q) ==
  /\ o.at = "restore" /\ q.at = "done" /\ q.outcome = "failed" /\ q.lost = o.lost
  /\ Moves(o.target, {"executing"}, "enabled")

\* A step on the action.
Acts(r, q) ==
  /\ Own(r, q) /\ lock' = lock /\ q.at # "insert" /\ SameMessages
  /\ run' = run /\ mode' = mode /\ conversation' = conversation /\ room' \in RoomRows
  /\ Claims(request[r], q) \/ Settles(request[r], q) \/ Restores(request[r], q)

\* A step on the run.
Upserts(r, q) ==
  LET o == request[r] IN
  /\ Own(r, q) /\ lock' = lock /\ messages' = messages
  /\ mode' = mode /\ conversation' = conversation /\ room' \in RoomRows
  /\ o.at = "upsert" /\ conversation = "open" /\ q.lost = o.lost
  /\ run' \in RunRows /\ run'.status = o.status /\ run'.state = SessionState(r)
  /\ run'.cycle = o.cycle /\ run'.boundary = o.boundary /\ run'.by = r
  /\ IF o.kind = "start"
       THEN q.at = "consume" /\ q.seen = o.seen /\ q.cycle = o.cycle
       ELSE q.at = "done" /\ q.outcome = "ok"

\* The messages of a request are there.
Inserts(r, q) ==
  LET o == request[r] IN
  /\ Own(r, q) /\ Unlock(r) /\ run' = run /\ mode' = mode /\ conversation' = conversation
  /\ room' \in RoomRows
  /\ o.at = "insert" /\ q.seen = o.seen /\ q.lost = o.lost /\ q.status = o.status
  /\ q.cycle = o.cycle
  /\ IF Bootstraps(r) THEN q.at = "upsert" /\ q.boundary = Len(messages) ELSE q.at = "reread"
  /\ messages' \in Seq(MessageRows)
  /\ Len(messages') = Len(messages) + (IF Bootstraps(r) THEN 1 ELSE 2)
  /\ \A i \in Positions : messages'[i] = messages[i]
  /\ \A i \in Positions' \ Positions : LET m == messages'[i] IN
       /\ m.index = i - 1 /\ m.by = r /\ m.status = o.status /\ ~m.late /\ ~m.due
       /\ m.cycle = (IF o.cycle = 0 THEN 1 ELSE o.cycle)
       /\ m.action \in {"none", "enabled"}
       /\ m.role = "assistant" <=> i = Len(messages')

\* A step that only reads keeps what PairInv says.
LEMMA QuietPairs ==
  ASSUME PairInv, NEW r \in Requests, NEW q, Quiet(r, q)
  PROVE  PairInv'
<1>1. SameMessages /\ run \in {NoRun} \cup RunRows
  BY Unwritten DEF PairInv, TypeOK, Quiet
<1> QED BY <1>1, OwnPairs DEF Quiet

\* A step on the action does.
LEMMA ActPairs ==
  ASSUME PairInv, NEW r \in Requests, NEW q, Acts(r, q)
  PROVE  PairInv'
<1>1. /\ run \in {NoRun} \cup RunRows /\ request[r].at # "insert"
  BY DEF PairInv, TypeOK, Acts, Claims, Settles, Restores
<1> QED BY <1>1, OwnPairs DEF Acts, LockFollows

\* So does an upsert.
LEMMA UpsertPairs ==
  ASSUME PairInv, NEW r \in Requests, NEW q, Upserts(r, q)
  PROVE  PairInv'
<1>1. /\ SameMessages /\ run' \in {NoRun} \cup RunRows
  BY Unwritten DEF PairInv, TypeOK, Upserts
<1>2. q.at \in {"consume", "done"} /\ request[r].at = "upsert" /\ conversation = "open"
  BY DEF Upserts
<1> QED BY <1>1, <1>2, OwnPairs DEF Upserts, LockFollows

\* An insertion counts on.
LEMMA InsertPairs ==
  ASSUME PairInv, NEW r \in Requests, NEW q, Inserts(r, q)
  PROVE  PairInv'
<1> DEFINE n == IF Bootstraps(r) THEN 1 ELSE 2
<1>1. /\ request' \in [Requests -> RequestStates] /\ request'[r] = q
      /\ \A x \in Requests : x # r => request'[x] = request[x]
  BY DEF Own, PairInv, TypeOK, Inserts
<1>2. /\ Len(messages) \in Nat /\ Len(messages') = Len(messages) + n /\ n \in {1, 2}
      /\ \A i \in Positions : messages'[i] = messages[i] /\ i \in Positions'
  BY States DEF Inserts, Positions
<1>3. q.at \in {"upsert", "reread"} /\ request[r].at = "insert"
  BY DEF Inserts
<1>4. /\ lock = r /\ lock' = NoRequest
      /\ \A x \in Requests : x # r => request[x].at # "insert"
  BY <1>3 DEF PairInv, TypeOK, Inserts, Unlock
<1>5. TypeOK'
  <2>1. lock' \in Requests \cup {NoRequest}
        /\ \A x \in Requests : lock' = x <=> request'[x].at = "insert"
    BY <1>1, <1>3, <1>4, ChatAssumption
  <2>2. mode' \in {"loop", "one_time"} /\ conversation' \in {"none", "open", "deleted"}
        /\ run' \in {NoRun} \cup RunRows /\ messages' \in Seq(MessageRows) /\ room' \in RoomRows
    BY DEF PairInv, TypeOK, Inserts
  <2> QED BY <1>1, <2>1, <2>2 DEF TypeOK, RoomRows
<1>6. KindsFit'
  BY <1>1 DEF KindsFit, PairInv, Own, Inserts
<1>7. LockCounts'
  <2>1. conversation = "open" /\ conversation' = conversation
    BY <1>3 DEF PairInv, LockCounts, Inserts
  <2> QED BY <1>1, <1>3, <1>4, <2>1 DEF LockCounts
<1>8. Pairs'
  <2>1. ASSUME NEW i \in Positions'
        PROVE  /\ messages'[i].index = i - 1
               /\ messages'[i].role = "user" =>
                    /\ i < Len(messages')
                    /\ messages'[i + 1].role = "assistant"
                    /\ messages'[i + 1].by = messages'[i].by
    <3>1. CASE i \in Positions
      <4>1. /\ messages[i].index = i - 1
            /\ messages[i].role = "user" =>
                 /\ i < Len(messages) /\ messages[i + 1].role = "assistant"
                 /\ messages[i + 1].by = messages[i].by
        BY <3>1 DEF PairInv, Pairs
      <4>2. messages[i].role = "user" => i + 1 \in Positions /\ i < Len(messages')
        BY <1>2, <3>1, <4>1 DEF Positions
      <4>3. messages'[i] = messages[i] /\ (i + 1 \in Positions => messages'[i + 1] = messages[i + 1])
        BY <1>2, <3>1
      <4> QED BY <4>1, <4>2, <4>3
    <3>2. CASE i \notin Positions
      <4>1. /\ messages'[i].index = i - 1 /\ messages'[i].by = r
            /\ messages'[i].role = "assistant" <=> i = Len(messages')
        BY <2>1, <3>2 DEF Inserts
      <4>2. i # Len(messages') =>
              i < Len(messages') /\ i + 1 \in Positions' \ Positions /\ i + 1 = Len(messages')
        BY <1>2, <2>1, <3>2 DEF Positions
      <4>3. i # Len(messages') =>
              messages'[i + 1].role = "assistant" /\ messages'[i + 1].by = r
        BY <4>2 DEF Inserts
      <4> QED BY <4>1, <4>2, <4>3
    <3> QED BY <3>1, <3>2
  <2> QED BY <2>1 DEF Pairs
<1>9. Aims'
  <2>1. \A x \in Requests : request'[x].kind = request[x].kind /\ request'[x].target = request[x].target
    BY <1>1 DEF Own, Inserts
  <2> QED BY <1>2, <2>1 DEF Aims, PairInv, Inserts
<1> QED BY <1>5, <1>6, <1>7, <1>8, <1>9 DEF PairInv

\* How transition_message_action is seen from the messages of this state.
LEMMA ActionMoves ==
  ASSUME TypeOK, NEW m, NEW expected, NEW next \in {"enabled", "executing", "consumed"},
         Transition(m, expected, next)
  PROVE  SameMessages /\ Moves(m, expected, next)
<1>1. next \in ActionStates \ {"none"}
  BY DEF ActionStates
<1> QED BY <1>1, Transitions DEF Moves

\* The transitions of an action.
LEMMA ActShapes ==
  ASSUME PairInv, NEW r \in Requests, Claim(r) \/ Consume(r) \/ Restore(r)
  PROVE  \E q : Acts(r, q)
<1> DEFINE o == request[r]
           Rest == /\ run' = run /\ mode' = mode /\ conversation' = conversation
                   /\ room' \in RoomRows /\ lock' = lock
<1>1. o \in RequestStates /\ KindFits(o) /\ TypeOK /\ room \in RoomRows
  BY States DEF PairInv
<1>2. Rest
  BY <1>1 DEF Claim, Consume, Restore
<1>3. CASE Consume(r)
  <2> DEFINE from == IF o.seen = "reconciled" THEN {"enabled", "executing"} ELSE {"executing"}
  <2>1. o.at = "consume" /\ Transition(o.target, from, "consumed") /\ End(r, "ok")
    BY <1>3 DEF Consume
  <2>2. SameMessages /\ Moves(o.target, from, "consumed")
    <3> HIDE DEF from
    <3> QED BY <1>1, <2>1, ActionMoves
  <2>3. PICK q : Own(r, q) /\ q.at = "done" /\ q.outcome = "ok" /\ q.lost = o.lost
    <3>1. AtWork(r)
      BY <2>1 DEF AtWork
    <3> QED BY <1>1, <2>1, <3>1, Endings DEF End, Outcomes
  <2> QED BY <1>2, <2>1, <2>2, <2>3 DEF Acts, Settles
<1>4. CASE Restore(r)
  <2>1. o.at = "restore" /\ Transition(o.target, {"executing"}, "enabled") /\ End(r, "failed")
    BY <1>4 DEF Restore
  <2>2. SameMessages /\ Moves(o.target, {"executing"}, "enabled")
    BY <1>1, <2>1, ActionMoves
  <2>3. PICK q : Own(r, q) /\ q.at = "done" /\ q.outcome = "failed" /\ q.lost = o.lost
    <3>1. AtWork(r)
      BY <2>1 DEF AtWork
    <3> QED BY <1>1, <2>1, <3>1, Endings DEF End, Outcomes
  <2> QED BY <1>2, <2>1, <2>2, <2>3 DEF Acts, Restores
<1>5. CASE Claim(r)
  <2> DEFINE granted == o.target \in Positions /\ messages[o.target].action \in ClaimedFrom(o.seen)
  <2>1. /\ o.at = "claim" /\ Transition(o.target, ClaimedFrom(o.seen), "executing")
        /\ IF granted THEN Goto(r, "engine") ELSE End(r, "refused")
    BY <1>5 DEF Claim, Positions
  <2>2. SameMessages /\ Moves(o.target, ClaimedFrom(o.seen), "executing")
    BY <1>1, <2>1, ActionMoves
  <2>3. AtWork(r)
    BY <2>1 DEF AtWork
  <2> HIDE DEF granted
  <2>4. CASE granted
    <3> DEFINE q == [o EXCEPT !.at = "engine"]
    <3>1. /\ q \in RequestStates /\ q.at = "engine" /\ q.seen = o.seen /\ q.cycle = o.cycle
          /\ q.kind = o.kind /\ q.target = o.target /\ q.alone = o.alone /\ q.lost = o.lost
          /\ q.outcome = o.outcome
      BY <1>1 DEF RequestStates, Places
    <3>2. Set(r, q)
      BY <2>1, <2>4 DEF Goto
    <3> HIDE DEF q
    <3>3. Own(r, q)
      BY <1>1, <2>1, <2>3, <3>1, <3>2, Continues DEF Places, Told, KindFits
    <3>4. Claims(o, q)
      BY <2>1, <2>2, <2>4, <3>1 DEF Claims, granted
    <3> QED BY <1>2, <2>2, <3>1, <3>3, <3>4 DEF Acts
  <2>5. CASE ~granted
    <3>1. PICK q : Own(r, q) /\ q.at = "done" /\ q.outcome = "refused" /\ q.lost = o.lost
      BY <1>1, <2>1, <2>3, <2>5, Endings DEF End, Outcomes
    <3>2. Claims(o, q)
      BY <2>1, <2>2, <2>5, <3>1 DEF Claims, granted
    <3> QED BY <1>2, <2>2, <3>1, <3>2 DEF Acts
  <2> QED BY <2>4, <2>5
<1> QED BY <1>3, <1>4, <1>5

\* The write of the run.
LEMMA UpsertShapes ==
  ASSUME PairInv, NEW r \in Requests, UpsertRun(r), conversation = "open"
  PROVE  \E q : Upserts(r, q)
<1> DEFINE o == request[r]
           new == [status |-> o.status, state |-> SessionState(r), cycle |-> o.cycle,
                   boundary |-> o.boundary, by |-> r]
<1>1. o \in RequestStates /\ KindFits(o) /\ room \in RoomRows
  BY States
<1>2. /\ o.at = "upsert" /\ AtWork(r) /\ lock' = lock /\ messages' = messages /\ mode' = mode
      /\ conversation' = conversation /\ room' \in RoomRows /\ run' = new
      /\ IF o.kind = "start" THEN Goto(r, "consume") ELSE End(r, "ok")
  BY <1>1 DEF UpsertRun, AtWork
<1>3. new \in RunRows
  BY <1>1, <1>2 DEF RunRows, RequestStates, SessionState, KindFits
<1>4. CASE o.kind = "start"
  <2> DEFINE q == [o EXCEPT !.at = "consume"]
  <2>1. /\ q \in RequestStates /\ q.at = "consume" /\ q.seen = o.seen /\ q.cycle = o.cycle
        /\ q.kind = o.kind /\ q.target = o.target /\ q.alone = o.alone /\ q.lost = o.lost
        /\ q.outcome = o.outcome
    BY <1>1 DEF RequestStates, Places
  <2>2. Set(r, q)
    BY <1>2, <1>4 DEF Goto
  <2> HIDE DEF q
  <2>3. Own(r, q)
    BY <1>1, <1>2, <1>4, <2>1, <2>2, Continues DEF Places, Told, KindFits
  <2> QED BY <1>2, <1>3, <1>4, <2>1, <2>3 DEF Upserts
<1>5. CASE o.kind # "start"
  <2>1. PICK q : Own(r, q) /\ q.at = "done" /\ q.outcome = "ok" /\ q.lost = o.lost
    BY <1>1, <1>2, <1>5, Endings DEF End, Outcomes
  <2> QED BY <1>2, <1>3, <1>5, <2>1 DEF Upserts
<1> QED BY <1>4, <1>5

\* The messages of a request.
LEMMA Rows ==
  ASSUME PairInv, NEW r \in Requests, NEW role \in {"user", "assistant"}, NEW index \in Nat,
         NEW action \in {"none", "enabled"}
  PROVE  LET m == Message(r, role, index, action) IN
           /\ m \in MessageRows /\ m.index = index /\ m.role = role /\ m.by = r
           /\ m.action = action /\ m.status = request[r].status /\ ~m.late /\ ~m.due
           /\ m.cycle = (IF request[r].cycle = 0 THEN 1 ELSE request[r].cycle)
<1>1. request[r].cycle \in Nat /\ request[r].status \in Statuses
  BY States DEF RequestStates
<1> QED BY <1>1 DEF Message, MessageRows, ActionStates

\* append_message_pair and append_messages, once the row is locked.
LEMMA InsertShapes ==
  ASSUME PairInv, NEW r \in Requests, InsertMessages(r)
  PROVE  \E q : Inserts(r, q)
<1> DEFINE o == request[r]
           first == Message(r, "assistant", o.next, Offer(r))
           asked == Message(r, "user", o.next, "none")
           answer == Message(r, "assistant", o.next + 1, Offer(r))
<1>1. o \in RequestStates /\ KindFits(o) /\ room \in RoomRows /\ Len(messages) \in Nat
      /\ messages \in Seq(MessageRows)
  BY States
<1>2. /\ o.at = "insert" /\ AtWork(r) /\ Unlock(r) /\ run' = run /\ mode' = mode
      /\ conversation' = conversation /\ room' \in RoomRows
      /\ o.next = Len(messages)
  BY <1>1 DEF InsertMessages, AtWork, PairInv, LockCounts
<1>3. Offer(r) \in {"none", "enabled"}
  BY DEF Offer
<1>4. /\ messages' = messages \o IF Bootstraps(r) THEN <<first>> ELSE <<asked, answer>>
      /\ IF Bootstraps(r) THEN Set(r, [o EXCEPT !.at = "upsert", !.boundary = o.next])
                          ELSE Goto(r, "reread")
  BY DEF InsertMessages
<1>5. /\ first \in MessageRows /\ first.index = o.next /\ first.role = "assistant"
      /\ first.by = r /\ first.action \in {"none", "enabled"} /\ first.status = o.status
      /\ ~first.late /\ ~first.due /\ first.cycle = (IF o.cycle = 0 THEN 1 ELSE o.cycle)
  BY <1>1, <1>2, <1>3, Rows
<1>6. /\ asked \in MessageRows /\ asked.index = o.next /\ asked.role = "user"
      /\ asked.by = r /\ asked.action \in {"none", "enabled"} /\ asked.status = o.status
      /\ ~asked.late /\ ~asked.due /\ asked.cycle = (IF o.cycle = 0 THEN 1 ELSE o.cycle)
  BY <1>1, <1>2, Rows
<1>7. /\ answer \in MessageRows /\ answer.index = o.next + 1 /\ answer.role = "assistant"
      /\ answer.by = r /\ answer.action \in {"none", "enabled"} /\ answer.status = o.status
      /\ ~answer.late /\ ~answer.due /\ answer.cycle = (IF o.cycle = 0 THEN 1 ELSE o.cycle)
  BY <1>1, <1>2, <1>3, Rows
<1> HIDE DEF first, asked, answer
<1>8. CASE Bootstraps(r)
  <2> DEFINE q == [o EXCEPT !.at = "upsert", !.boundary = o.next]
  <2>1. /\ q \in RequestStates /\ q.at = "upsert" /\ q.seen = o.seen /\ q.cycle = o.cycle
        /\ q.kind = o.kind /\ q.target = o.target /\ q.alone = o.alone /\ q.lost = o.lost
        /\ q.outcome = o.outcome /\ q.status = o.status /\ q.boundary = Len(messages)
    BY <1>1, <1>2 DEF RequestStates, Places
  <2>2. Set(r, q)
    BY <1>4, <1>8
  <2> HIDE DEF q
  <2>3. Own(r, q)
    BY <1>1, <1>2, <1>8, <2>1, <2>2, Continues DEF Places, Told, KindFits, Bootstraps
  <2>4. /\ messages' = Append(messages, first) /\ messages' \in Seq(MessageRows)
        /\ Len(messages') = Len(messages) + 1
        /\ \A i \in Positions : messages'[i] = messages[i]
        /\ messages'[Len(messages) + 1] = first
    BY <1>1, <1>4, <1>5, <1>8 DEF Positions
  <2>5. ASSUME NEW i \in Positions' \ Positions
        PROVE  i = Len(messages) + 1
    BY <1>1, <2>4 DEF Positions
  <2>6. \A i \in Positions' \ Positions : LET m == messages'[i] IN
          /\ m.index = i - 1 /\ m.by = r /\ m.status = o.status /\ ~m.late /\ ~m.due
          /\ m.cycle = (IF o.cycle = 0 THEN 1 ELSE o.cycle)
          /\ m.action \in {"none", "enabled"}
          /\ m.role = "assistant" <=> i = Len(messages')
    BY <1>1, <1>2, <1>5, <2>4, <2>5
  <2> QED BY <1>2, <1>8, <2>1, <2>3, <2>4, <2>6 DEF Inserts
<1>9. CASE ~Bootstraps(r)
  <2> DEFINE q == [o EXCEPT !.at = "reread"]
  <2>1. /\ q \in RequestStates /\ q.at = "reread" /\ q.seen = o.seen /\ q.cycle = o.cycle
        /\ q.kind = o.kind /\ q.target = o.target /\ q.alone = o.alone /\ q.lost = o.lost
        /\ q.outcome = o.outcome /\ q.status = o.status
    BY <1>1 DEF RequestStates, Places
  <2>2. Set(r, q)
    BY <1>4, <1>9 DEF Goto
  <2>0. o.kind = "turn"
    BY <1>1, <1>2, <1>9 DEF Bootstraps, KindFits, RequestStates, Kinds
  <2> HIDE DEF q
  <2>3. Own(r, q)
    BY <1>1, <1>2, <2>0, <2>1, <2>2, Continues DEF Places, Told, KindFits
  <2>4. /\ messages' = messages \o <<asked, answer>> /\ messages' \in Seq(MessageRows)
        /\ Len(messages') = Len(messages) + 2
        /\ \A i \in Positions : messages'[i] = messages[i]
        /\ messages'[Len(messages) + 1] = asked /\ messages'[Len(messages) + 2] = answer
    BY <1>1, <1>4, <1>6, <1>7, <1>9 DEF Positions
  <2>5. ASSUME NEW i \in Positions' \ Positions
        PROVE  i \in {Len(messages) + 1, Len(messages) + 2}
    BY <1>1, <2>4 DEF Positions
  <2>6. \A i \in Positions' \ Positions : LET m == messages'[i] IN
          /\ m.index = i - 1 /\ m.by = r /\ m.status = o.status /\ ~m.late /\ ~m.due
          /\ m.cycle = (IF o.cycle = 0 THEN 1 ELSE o.cycle)
          /\ m.action \in {"none", "enabled"}
          /\ m.role = "assistant" <=> i = Len(messages')
    BY <1>1, <1>2, <1>6, <1>7, <2>4, <2>5
  <2> QED BY <1>2, <1>9, <2>1, <2>3, <2>4, <2>6 DEF Inserts
<1> QED BY <1>8, <1>9

\* What a step of a request is.
LEMMA Steps ==
  ASSUME PairInv, NEW r \in Requests, Step(r) \/ LoseSettings(r) \/ Fail(r)
  PROVE  \/ \E q : Quiet(r, q) /\ Hops(request[r], q)
         \/ \E q : Acts(r, q)
         \/ \E q : Upserts(r, q)
         \/ \E q : Inserts(r, q)
<1>1. CASE \/ LoadCreate(r) \/ LoadTurn(r) \/ CheckStart(r) \/ CheckDeleted(r)
           \/ EngineAnswers(r) \/ LockConversation(r) \/ RereadRun(r)
           \/ LoseSettings(r) \/ Fail(r)
  BY <1>1, LoadShapes, CheckShapes, AdvanceShapes, LoseShapes, FailShapes
<1>2. CASE Claim(r) \/ Consume(r) \/ Restore(r)
  BY <1>2, ActShapes
<1>3. CASE InsertMessages(r)
  BY <1>3, InsertShapes
<1>4. CASE UpsertRun(r)
  BY <1>4, UpsertShapes, FailShapes
<1> QED BY <1>1, <1>2, <1>3, <1>4 DEF Step

-----------------------------------------------------------------------------
(* Begins, the lease, a deletion and a crash.                              *)

\* What is left of a request that ended.
LEMMA EndedIs ==
  ASSUME NEW o \in RequestStates, NEW outcome \in Outcomes
  PROVE  LET e == Ended(o, outcome) IN
           /\ e \in RequestStates /\ e.kind = o.kind /\ e.at = "done" /\ e.target = o.target
           /\ e.outcome = outcome /\ e.lost = o.lost /\ e.alone = o.alone
           /\ e.seen = "none" /\ e.cycle = 0 /\ e.status = "none"
<1>1. /\ Unused \in RequestStates /\ Unused.seen = "none" /\ Unused.cycle = 0
      /\ Unused.status = "none"
  BY DEF Unused, RequestStates, Kinds, Places, Outcomes, Statuses, ActionStates
<1>2. /\ o.kind \in Kinds /\ o.target \in Nat /\ o.lost \in BOOLEAN /\ o.alone \in BOOLEAN
      /\ "done" \in Places
  BY DEF RequestStates, Places
<1> QED BY <1>1, <1>2 DEF Ended, RequestStates

\* x is as it was, but perhaps no longer alone.
Stays(x) ==
  LET o == request[x] n == request'[x] IN
  /\ n.kind = o.kind /\ n.at = o.at /\ n.target = o.target /\ n.seen = o.seen
  /\ n.cycle = o.cycle /\ n.status = o.status /\ n.next = o.next /\ n.boundary = o.boundary
  /\ n.outcome = o.outcome /\ n.lost = o.lost
  /\ n.alone => o.alone
  /\ IF AtWork(x) THEN ~n.alone ELSE n = o

\* A request begins.
Begins(r) ==
  LET n == request'[r] IN
  /\ request' \in [Requests -> RequestStates] /\ lock' = lock /\ messages' = messages
  /\ run' = run /\ mode' = mode /\ room' = room /\ conversation' = "open"
  /\ request[r].at = "idle"
  /\ \A x \in Requests \ {r} : Stays(x)
  /\ KindFits(n) /\ n.kind # "none" /\ n.outcome = "none" /\ ~n.lost
  /\ n.alone => \A x \in Requests : ~AtWork(x)
  /\ \/ n.kind = "create" /\ n.at = "load" /\ conversation = "none"
     \/ n.kind = "turn" /\ n.at = "load" /\ conversation = "open"
     \/ /\ n.kind = "start" /\ n.at = "check" /\ conversation = "open"
        /\ n.target \in Positions /\ messages[n.target].action # "none"
        /\ n.seen = (IF messages[n.target].due THEN "expired" ELSE messages[n.target].action)

\* The three handlers that begin a request.
LEMMA BeginShapes ==
  ASSUME PairInv, NEW r \in Requests, CreateSession(r) \/ SendMessage(r) \/ StartCycle(r)
  PROVE  Begins(r)
<1>1. request \in [Requests -> RequestStates] /\ Len(messages) \in Nat
  BY States DEF PairInv, TypeOK
<1>2. ASSUME NEW kind \in {"create", "turn", "start"}, NEW target \in Nat,
             NEW place \in {"load", "check"}, Begin(r, kind, target, place),
             kind = "start" <=> target # 0, kind = "start" <=> place = "check",
             kind = "start" => target \in Positions
      PROVE  LET n == request'[r] IN
             /\ request' \in [Requests -> RequestStates] /\ request[r].at = "idle"
             /\ \A x \in Requests \ {r} : Stays(x)
             /\ KindFits(n) /\ n.kind = kind /\ n.at = place /\ n.target = target
             /\ n.outcome = "none" /\ ~n.lost
             /\ n.alone => \A x \in Requests : ~AtWork(x)
             /\ target # 0 =>
                  n.seen = IF messages[target].due THEN "expired" ELSE messages[target].action
  <2> DEFINE seen == IF target = 0 THEN "none"
                     ELSE IF messages[target].due THEN "expired"
                     ELSE messages[target].action
             alone == \A p \in Requests : ~AtWork(p)
             n == [Unused EXCEPT !.kind = kind, !.target = target, !.at = place,
                                 !.seen = seen, !.alone = alone]
  <2>1. seen \in ActionStates \cup {"expired"}
    <3>1. target # 0 => messages[target] \in MessageRows
      BY <1>2, States
    <3> QED BY <3>1 DEF MessageRows, ActionStates
  <2>2. alone \in BOOLEAN
    OBVIOUS
  <2> HIDE DEF seen, alone
  <2>3. /\ n \in RequestStates /\ n.kind = kind /\ n.at = place /\ n.target = target
        /\ n.seen = seen /\ n.alone = alone /\ n.cycle = 0 /\ n.outcome = "none" /\ ~n.lost
    BY <2>1, <2>2
    DEF Unused, RequestStates, Kinds, Places, Outcomes, Statuses, ActionStates
  <2>4. /\ request[r].at = "idle"
        /\ request' = [x \in Requests |->
             IF x = r THEN n
             ELSE IF AtWork(x) THEN [request[x] EXCEPT !.alone = FALSE] ELSE request[x]]
    BY <1>2 DEF Begin, seen, alone
  <2> HIDE DEF n
  <2>5. ASSUME NEW x \in Requests, x # r
        PROVE  request'[x] \in RequestStates /\ Stays(x)
    <3>1. request[x] \in RequestStates
      BY <1>1
    <3>2. CASE AtWork(x)
      <4>1. request'[x] = [request[x] EXCEPT !.alone = FALSE]
        BY <2>4, <2>5, <3>2
      <4> QED BY <3>1, <3>2, <4>1 DEF RequestStates, Stays
    <3>3. CASE ~AtWork(x)
      <4>1. request'[x] = request[x]
        BY <2>4, <2>5, <3>3
      <4> QED BY <3>1, <3>3, <4>1 DEF Stays
    <3> QED BY <3>2, <3>3
  <2>6. request'[r] = n
    BY <2>4
  <2>7. request' \in [Requests -> RequestStates]
    BY <2>3, <2>4, <2>5, <2>6
  <2>8. KindFits(n)
    BY <1>2, <2>3 DEF KindFits, Told
  <2>9. target # 0 => seen = IF messages[target].due THEN "expired" ELSE messages[target].action
    BY DEF seen
  <2>10. alone => \A x \in Requests : ~AtWork(x)
    BY DEF alone
  <2> QED BY <2>3, <2>4, <2>5, <2>6, <2>7, <2>8, <2>9, <2>10
<1>3. CASE CreateSession(r)
  BY <1>2, <1>3 DEF CreateSession, Begins
<1>4. CASE SendMessage(r)
  BY <1>2, <1>4 DEF SendMessage, Begins
<1>5. CASE StartCycle(r)
  <2>1. PICK m \in Positions : messages[m].action # "none" /\ Begin(r, "start", m, "check")
    BY <1>5 DEF StartCycle, Positions
  <2>2. m \in Nat \ {0}
    BY <1>1 DEF Positions
  <2>3. /\ lock' = lock /\ messages' = messages /\ run' = run /\ mode' = mode /\ room' = room
        /\ conversation = "open" /\ conversation' = conversation
    BY <1>5 DEF StartCycle
  <2> QED BY <1>2, <2>1, <2>2, <2>3 DEF Begins
<1> QED BY <1>3, <1>4, <1>5

\* The begin of a request keeps what PairInv says.
LEMMA BeginPairs ==
  ASSUME PairInv, NEW r \in Requests, Begins(r)
  PROVE  PairInv'
<1>1. \A x \in Requests : x # r => KindFits(request[x]) /\ Stays(x)
  BY States DEF Begins
<1>2. request'[r].at \in {"load", "check"} /\ request[r].at = "idle"
  BY DEF Begins
<1>3. TypeOK'
  <2>1. \A x \in Requests : lock' = x <=> request'[x].at = "insert"
    BY <1>1, <1>2 DEF Begins, PairInv, TypeOK, Stays
  <2> QED BY <2>1 DEF Begins, PairInv, TypeOK
<1>4. KindsFit'
  <2>1. ASSUME NEW x \in Requests
        PROVE  KindFits(request'[x])
    <3>1. CASE x = r
      BY <3>1 DEF Begins
    <3>2. CASE x # r
      BY <1>1, <3>2 DEF KindFits, Stays
    <3> QED BY <3>1, <3>2
  <2> QED BY <2>1 DEF KindsFit
<1>5. LockCounts'
  BY <1>1, <1>2 DEF Begins, PairInv, LockCounts, Stays
<1>6. Pairs'
  BY DEF Begins, PairInv, Pairs, Positions
<1>7. Aims'
  <2>1. conversation = "none" => \A x \in Requests : x # r => request'[x].kind # "start"
    BY <1>1 DEF PairInv, LockCounts, Stays, KindFits
  <2>2. Positions' = Positions /\ conversation' = "open"
    BY DEF Begins, Positions
  <2>3. ASSUME NEW x \in Requests, request'[x].kind = "start"
        PROVE  request'[x].target \in Positions
    <3>1. CASE x = r
      BY <2>3, <3>1 DEF Begins
    <3>2. CASE x # r
      BY <1>1, <2>1, <2>3, <3>2 DEF Begins, PairInv, Aims, Stays
    <3> QED BY <3>1, <3>2
  <2> QED BY <2>2, <2>3 DEF Aims
<1> QED BY <1>3, <1>4, <1>5, <1>6, <1>7 DEF PairInv

\* A lease that runs out marks one message.
Expires(m) ==
  /\ SameMessages /\ m \in Positions /\ messages[m].action = "executing"
  /\ messages'[m] = [messages[m] EXCEPT !.due = TRUE, !.late = TRUE]
  /\ \A i \in Positions : i # m => messages'[i] = messages[i]
  /\ request' = request /\ run' = run /\ mode' = mode /\ conversation' = conversation
  /\ lock' = lock /\ room' = room

\* What a lease that runs out leaves alone.
LEMMA LeaseShape ==
  ASSUME PairInv, NEW m, LeaseRunsOut(m)
  PROVE  Expires(m)
<1> DEFINE e == [messages[m] EXCEPT !.due = TRUE, !.late = TRUE]
<1>1. /\ m \in Positions /\ messages \in Seq(MessageRows) /\ messages[m] \in MessageRows
      /\ messages[m].action = "executing"
  <2>1. m \in Positions /\ messages[m].action = "executing"
    BY DEF LeaseRunsOut, Positions
  <2>2. messages \in Seq(MessageRows)
    BY DEF PairInv, TypeOK
  <2> QED BY <2>1, <2>2, ElementOfSeq DEF Positions
<1>2. e \in MessageRows
  BY <1>1 DEF MessageRows
<1>3. messages' = [messages EXCEPT ![m] = e]
  BY <1>1 DEF LeaseRunsOut, MessageRows
<1>4. /\ e.index = messages[m].index /\ e.role = messages[m].role /\ e.by = messages[m].by
      /\ e.cycle = messages[m].cycle /\ e.status = messages[m].status /\ e.late
      /\ e.action = messages[m].action
  BY <1>1 DEF MessageRows
<1> HIDE DEF e
<1>5. /\ messages' \in Seq(MessageRows) /\ Len(messages') = Len(messages)
      /\ \A i \in Positions : messages'[i] = IF i = m THEN e ELSE messages[i]
  BY <1>1, <1>2, <1>3, ExceptSeq DEF Positions
<1>6. SameMessages
  BY <1>4, <1>5 DEF SameMessages
<1> QED BY <1>1, <1>5, <1>6 DEF Expires, LeaseRunsOut, e

\* A lease that runs out keeps what PairInv says.
LEMMA LeasePairs ==
  ASSUME PairInv, NEW m, Expires(m)
  PROVE  PairInv'
<1>1. /\ Positions' = Positions /\ Len(messages') = Len(messages) /\ Len(messages) \in Nat
      /\ \A i \in Positions : /\ messages'[i].index = messages[i].index
                             /\ messages'[i].role = messages[i].role
                             /\ messages'[i].by = messages[i].by
  BY States DEF Expires, SameMessages, Positions
<1>2. TypeOK' /\ KindsFit' /\ Aims'
  BY <1>1 DEF PairInv, TypeOK, KindsFit, Aims, Expires, SameMessages
<1>3. LockCounts'
  BY <1>1 DEF PairInv, LockCounts, Expires, Positions
<1>4. Pairs'
  <2>1. \A i \in Positions : messages[i].role = "user" => i + 1 \in Positions
    BY <1>1 DEF PairInv, Pairs, Positions
  <2> QED BY <1>1, <2>1 DEF PairInv, Pairs
<1> QED BY <1>2, <1>3, <1>4 DEF PairInv

\* The conversation is deleted.
LEMMA DeletePairs ==
  ASSUME PairInv, DeleteSession
  PROVE  PairInv'
<1>1. /\ messages' = << >> /\ run' = NoRun /\ conversation' = "deleted" /\ request' = request
      /\ lock' = lock /\ lock = NoRequest /\ mode' = mode
  BY DEF DeleteSession
<1>2. room' \in RoomRows
  <2>1. room \in RoomRows
    BY DEF PairInv, TypeOK, RoomRows
  <2> QED BY <2>1 DEF DeleteSession, RoomRows
<1>3. Positions' = {} /\ << >> \in Seq(MessageRows)
  BY <1>1 DEF Positions
<1>4. \A x \in Requests : request[x].at # "insert"
  BY <1>1, ChatAssumption DEF PairInv, TypeOK
<1> QED BY <1>1, <1>2, <1>3, <1>4
   DEF PairInv, TypeOK, KindsFit, LockCounts, Pairs, Aims, RoomRows

\* Who was at work is lost.
LEMMA CrashShape ==
  ASSUME PairInv, Crash
  PROVE  /\ request' \in [Requests -> RequestStates] /\ lock' = NoRequest /\ messages' = messages
         /\ run' = run /\ mode' = mode /\ conversation' = conversation /\ room' \in RoomRows
         /\ \E r \in Requests : AtWork(r)
         /\ \A x \in Requests : LET n == request'[x] IN
              /\ ~AtWork(x) => n = request[x]
              /\ AtWork(x) => /\ n.kind = request[x].kind /\ n.target = request[x].target
                              /\ n.alone = request[x].alone /\ n.lost = request[x].lost
                              /\ n.at = "done" /\ n.outcome = "broken"
<1>1. request \in [Requests -> RequestStates] /\ room' \in RoomRows
  <2>1. room \in RoomRows /\ request \in [Requests -> RequestStates]
    BY DEF PairInv, TypeOK, RoomRows
  <2> QED BY <2>1 DEF Crash, RoomRows
<1>2. request' = [x \in Requests |-> IF AtWork(x) THEN Ended(request[x], "broken") ELSE request[x]]
  BY DEF Crash
<1>3. \A x \in Requests : LET e == Ended(request[x], "broken") IN
        /\ e \in RequestStates /\ e.kind = request[x].kind /\ e.target = request[x].target
        /\ e.alone = request[x].alone /\ e.lost = request[x].lost
        /\ e.at = "done" /\ e.outcome = "broken"
  BY <1>1, EndedIs DEF Outcomes
<1> QED BY <1>1, <1>2, <1>3 DEF Crash

\* A crash keeps what PairInv says.
LEMMA CrashPairs ==
  ASSUME PairInv, Crash
  PROVE  PairInv'
<1>1. /\ request' \in [Requests -> RequestStates] /\ lock' = NoRequest /\ messages' = messages
      /\ run' = run /\ mode' = mode /\ conversation' = conversation /\ room' \in RoomRows
  BY CrashShape
<1>2. \A x \in Requests :
        \/ request'[x] = request[x] /\ ~AtWork(x)
        \/ /\ request'[x].kind = request[x].kind /\ request'[x].target = request[x].target
           /\ request'[x].at = "done" /\ request'[x].outcome = "broken" /\ AtWork(x)
  BY CrashShape
<1>3. \A x \in Requests : request'[x].at # "insert"
  BY <1>2 DEF AtWork
<1>4. TypeOK'
  BY <1>1, <1>3, ChatAssumption DEF PairInv, TypeOK, RoomRows
<1>5. KindsFit'
  <2>1. ASSUME NEW x \in Requests
        PROVE  KindFits(request'[x])
    BY <1>2, States DEF KindFits, Told, AtWork
  <2> QED BY <2>1 DEF KindsFit
<1>6. LockCounts'
  BY <1>1, <1>2, <1>3 DEF PairInv, LockCounts, AtWork
<1>7. Pairs' /\ Aims'
  BY <1>1, <1>2 DEF PairInv, Pairs, Aims, Positions
<1> QED BY <1>4, <1>5, <1>6, <1>7 DEF PairInv

\* There are no messages at first.
LEMMA InitPairs ==
  ASSUME Init
  PROVE  PairInv
<1>1. /\ Unused \in RequestStates /\ Unused.at = "idle" /\ Unused.kind = "none"
      /\ Unused.cycle = 0 /\ Unused.outcome = "none" /\ Unused.target = 0
  BY DEF Unused, RequestStates, Kinds, Places, Outcomes, Statuses, ActionStates
<1>2. /\ Positions = {} /\ << >> \in Seq(MessageRows)
      /\ \A r \in Requests : request[r] = Unused
  BY DEF Init, Positions
<1>3. TypeOK
  BY <1>1, <1>2, ChatAssumption DEF Init, TypeOK
<1>4. KindsFit
  BY <1>1, <1>2 DEF KindsFit, KindFits, Told
<1> QED BY <1>1, <1>2, <1>3, <1>4 DEF PairInv, LockCounts, Pairs, Aims, Init

-----------------------------------------------------------------------------
(* The parts of the invariant about actions.                               *)

\* A start that has its action, or still means to settle it.
Holding(r) == Holds(request[r])

\* A start that has or had it, and greeted.
Claimant(r) ==
  \/ Holding(r)
  \/ request[r].kind = "start" /\ request[r].outcome = "ok" /\ By(r) # {}

\* Every cycle up to k was begun with a greeting.
Reached(k) ==
  \A c \in 2..k : \E j \in Positions : messages[j].cycle = c /\ Bootstraps(messages[j].by)

\* Whether a start has inserted nothing yet, or never will.
Silent(q) ==
  q.at \in Before \/ (q.at = "consume" /\ q.seen = "reconciled")
                  \/ (q.kind = "start" /\ q.outcome = "refused")

\* The messages of a request: of a bootstrap one.
Inserted ==
  /\ \A r \in Requests : Silent(request[r]) => By(r) = {}
  /\ \A r \in Requests : Bootstraps(r) => \A i, j \in By(r) : i = j
  /\ \A i \in Positions : messages[i].late \/ ~messages[i].due

\* What a start saw when it claimed its action.
SeenFits(q) ==
  q.kind = "start" /\ q.at \in {"claim", "engine", "lock", "insert", "upsert", "restore"}
    => q.seen \in {"enabled", "expired"}
AllSeen == \A r \in Requests : SeenFits(request[r])

\* A start and its target.
Targeted(r) ==
  LET q == request[r]
      m == request[r].target
  IN  /\ messages[m].action # "none"
      /\ q.seen = "expired" => messages[m].late
      /\ q.at \in {"claim", "engine", "lock", "insert"} => q.cycle = messages[m].cycle + 1
      /\ q.at = "upsert" \/ (q.at = "consume" /\ q.seen # "reconciled" /\ ~q.lost)
           => \E j \in By(r) : messages[j].cycle = messages[m].cycle + 1
      /\ q.at = "consume" /\ q.seen = "reconciled" => Reached(messages[m].cycle + 1)
Targets ==
  conversation = "open" => \A r \in Requests : request[r].kind = "start" => Targeted(r)

\* A request knows of no cycle that was not begun with a greeting.
Knows(q) ==
  /\ q.kind = "turn" /\ q.at \in Told => Reached(q.cycle)
  /\ q.kind = "create" /\ q.at \in Told => q.cycle = 1
  /\ q.kind = "start" /\ q.at = "upsert" => Reached(q.cycle)
CyclesReached ==
  conversation = "open" =>
    /\ run # NoRun => Reached(run.cycle)
    /\ \A i \in Positions : Reached(messages[i].cycle)
    /\ \A r \in Requests : Knows(request[r])

\* An action whose lease never ran out has one claimant.
OneClaimant ==
  \A r \in Requests :
    Claimant(r) /\ request[r].target \in Positions /\ ~messages[request[r].target].late
    => /\ messages[request[r].target].action \in {"executing", "consumed"}
       /\ request[r].outcome = "ok" => messages[request[r].target].action = "consumed"
       /\ \A s \in Requests : Claimant(s) /\ request[s].target = request[r].target => r = s

\* Somebody is at work on an action that is executing, or was lost with it.
ExecutingIsHeld ==
  \A i \in Positions : messages[i].action = "executing" =>
    \E r \in Requests : request[r].target = i /\ (Holding(r) \/ request[r].outcome = "broken")

ActionInv ==
  /\ Inserted /\ AllSeen /\ Targets /\ CyclesReached /\ OneClaimant /\ ExecutingIsHeld
  /\ StartedOncePerLease /\ ConsumedWasStarted

\* A step of r to q that is no insertion.
Does(r, q) == (Quiet(r, q) /\ Hops(request[r], q)) \/ Acts(r, q) \/ Upserts(r, q)

\* What all of them leave.
LEMMA DoesIs ==
  ASSUME PairInv, NEW r \in Requests, NEW q, Does(r, q)
  PROVE  /\ SameMessages /\ Own(r, q) /\ conversation' = conversation /\ mode' = mode
         /\ request'[r] = q /\ \A x \in Requests : x # r => request'[x] = request[x]
         /\ AtWork(r)
<1>1. SameMessages
  BY Unwritten DEF PairInv, Does, Quiet, Acts, Upserts
<1>2. Own(r, q) /\ conversation' = conversation /\ mode' = mode
  BY DEF Does, Quiet, Acts, Upserts
<1>3. request \in [Requests -> RequestStates]
  BY DEF PairInv, TypeOK
<1> QED BY <1>1, <1>2, <1>3 DEF Own

\* What becomes of a start.
LEMMA StartGoes ==
  ASSUME PairInv, AllSeen, NEW r \in Requests, NEW q, Does(r, q), request[r].kind = "start"
  PROVE  LET o == request[r] IN
         /\ SeenFits(q) /\ (Silent(q) => Silent(o))
         /\ Holds(q) => Holds(o) \/ (o.at = "claim" /\ Claims(o, q))
         /\ Holds(o) => Holds(q) \/ q.outcome = "broken" \/ Settles(o, q) \/ Restores(o, q)
         /\ q.outcome = "ok" => Settles(o, q)
<1> DEFINE o == request[r]
<1>1. /\ KindFits(o) /\ KindFits(q) /\ o.kind = "start" /\ q.kind = "start" /\ SeenFits(o)
      /\ o.at \in Places /\ o.at \notin {"idle", "done", "load", "reread"}
  <2>1. Own(r, q) /\ KindFits(o) /\ SeenFits(o) /\ o \in RequestStates
    BY States, DoesIs DEF AllSeen
  <2> QED BY <2>1 DEF Own, KindFits, AtWork, RequestStates
<1>2. CASE Quiet(r, q) /\ Hops(o, q)
  <2>1. CASE Checks(o, q)
    BY <1>1, <2>1 DEF Checks, SeenFits, Silent, Before, Holds, KindFits
  <2>2. CASE Advances(o, q)
    BY <1>1, <2>2 DEF Advances, SeenFits, Silent, Before, Holds, KindFits
  <2>3. CASE Gives(o, q)
    BY <1>1, <2>3 DEF Gives, SeenFits, Silent, Before, Holds, KindFits, Places
  <2> QED BY <1>1, <1>2, <2>1, <2>2, <2>3 DEF Hops, Loads
<1>3. CASE Acts(r, q)
  <2>1. CASE Claims(o, q)
    BY <1>1, <2>1 DEF Claims, SeenFits, Silent, Before, Holds, KindFits
  <2>2. CASE Settles(o, q)
    BY <1>1, <2>2 DEF Settles, SeenFits, Silent, Before, Holds, KindFits
  <2>3. CASE Restores(o, q)
    BY <1>1, <2>3 DEF Restores, SeenFits, Silent, Before, Holds, KindFits
  <2> QED BY <1>3, <2>1, <2>2, <2>3 DEF Acts
<1>4. CASE Upserts(r, q)
  <2>1. /\ o.at = "upsert" /\ q.at = "consume" /\ q.seen = o.seen
    BY <1>1, <1>4 DEF Upserts
  <2> QED BY <1>1, <2>1 DEF SeenFits, Silent, Before, Holds, KindFits
<1> QED BY <1>2, <1>3, <1>4 DEF Does

\* What becomes of an action: it changes for the target of a start only.
LEMMA ActionGoes ==
  ASSUME PairInv, AllSeen, NEW r \in Requests, NEW q, Does(r, q), NEW i \in Positions
  PROVE  LET o == request[r] old == messages[i].action new == messages'[i].action IN
         /\ messages'[i].late = messages[i].late
         /\ \/ /\ new = old
               /\ ~((Settles(o, q) \/ Restores(o, q)) /\ o.target = i /\ old = "executing")
            \/ /\ o.target = i /\ Claims(o, q) /\ q.at = "engine" /\ Holds(q)
               /\ old \in ClaimedFrom(o.seen) /\ new = "executing"
            \/ /\ o.target = i /\ Settles(o, q)
               /\ old \in {"enabled", "executing"} /\ new = "consumed"
            \/ o.target = i /\ Restores(o, q) /\ old = "executing" /\ new = "enabled"
<1> DEFINE o == request[r]
<1>1. messages[i] \in MessageRows /\ KindFits(o) /\ KindFits(q) /\ q.kind = o.kind
  BY States, DoesIs DEF Own
<1>2. ASSUME messages' = messages, o.at \notin {"consume", "restore"}
      PROVE  /\ messages'[i].late = messages[i].late
             /\ messages'[i].action = messages[i].action
             /\ ~(Settles(o, q) \/ Restores(o, q))
  BY <1>2 DEF Settles, Restores
<1>3. CASE Quiet(r, q) /\ Hops(o, q)
  <2>1. ~(Settles(o, q) \/ Restores(o, q))
    BY <1>3 DEF Settles, Restores, Hops, Loads, Checks, Advances, Gives
  <2> QED BY <1>3, <2>1 DEF Quiet
<1>4. CASE Upserts(r, q)
  BY <1>2, <1>4 DEF Upserts
<1>5. ASSUME NEW from, NEW next, Moves(o.target, from, next)
      PROVE  /\ messages'[i].late = messages[i].late
             /\ \/ messages'[i].action = messages[i].action /\ ~(i = o.target /\ messages[i].action \in from)
                \/ i = o.target /\ messages[i].action \in from /\ messages'[i].action = next
  <2>1. CASE messages'[i] = messages[i] /\ ~(i = o.target /\ messages[i].action \in from)
    BY <2>1
  <2>2. CASE /\ i = o.target /\ messages[i].action \in from
             /\ messages'[i] = [messages[i] EXCEPT !.action = next, !.due = FALSE]
    BY <1>1, <2>2 DEF MessageRows
  <2>3. \/ messages'[i] = messages[i] /\ ~(i = o.target /\ messages[o.target].action \in from)
        \/ /\ i = o.target /\ messages[o.target].action \in from
           /\ messages'[o.target] = [messages[o.target] EXCEPT !.action = next, !.due = FALSE]
    BY <1>5 DEF Moves
  <2>4. CASE i = o.target
    BY <2>1, <2>2, <2>3, <2>4
  <2>5. CASE i # o.target
    BY <2>1, <2>3, <2>5
  <2> QED BY <2>4, <2>5
<1>6. CASE Acts(r, q) /\ Claims(o, q)
  <2>1. /\ o.at = "claim" /\ Moves(o.target, ClaimedFrom(o.seen), "executing")
        /\ o.target = i /\ messages[i].action \in ClaimedFrom(o.seen) => q.at = "engine"
    BY <1>6 DEF Claims
  <2>2. ~Settles(o, q) /\ ~Restores(o, q)
    BY <2>1 DEF Settles, Restores
  <2>3. q.at = "engine" => Holds(q)
    BY <1>1, <2>1 DEF Holds, KindFits
  <2> QED BY <1>5, <1>6, <2>1, <2>2, <2>3
<1>7. CASE Acts(r, q) /\ Settles(o, q)
  <2> DEFINE from == IF o.seen = "reconciled" THEN {"enabled", "executing"} ELSE {"executing"}
  <2>1. Moves(o.target, from, "consumed") /\ o.at = "consume" /\ ~Restores(o, q)
    BY <1>7 DEF Settles, Restores
  <2>2. from \subseteq {"enabled", "executing"} /\ "executing" \in from
    OBVIOUS
  <2> HIDE DEF from
  <2> QED BY <1>5, <1>7, <2>1, <2>2
<1>8. CASE Acts(r, q) /\ Restores(o, q)
  <2> DEFINE from == {"executing"}
  <2>1. Moves(o.target, from, "enabled") /\ o.at = "restore" /\ ~Settles(o, q)
    BY <1>8 DEF Settles, Restores
  <2>2. \A x : x \in from <=> x = "executing"
    OBVIOUS
  <2> HIDE DEF from
  <2> QED BY <1>5, <1>8, <2>1, <2>2
<1> QED BY <1>3, <1>4, <1>6, <1>7, <1>8 DEF Does, Acts

\* Messages stay in their cycles, and theirs whose requests they are.
Lasting ==
  \A i \in Positions :
    LET old == messages[i] new == messages'[i] IN
       /\ i \in Positions' /\ new.by = old.by /\ new.cycle = old.cycle
       /\ (old.late => new.late) /\ (old.action # "none" => new.action # "none")
       /\ Bootstraps(messages[i].by) => request'[messages[i].by].kind \in {"create", "start"}

\* Reached(k) of the next state, for a k of this one.
ReachedNext(k) ==
  \A c \in 2..k : \E j \in Positions' :
    messages'[j].cycle = c /\ request'[messages'[j].by].kind \in {"create", "start"}

\* Greetings stay where they are.
LEMMA ReachedStays ==
  ASSUME Lasting
  PROVE  \A k : Reached(k) => ReachedNext(k)
<1>1. ASSUME NEW k, Reached(k), NEW c \in 2..k
      PROVE  \E j \in Positions' :
               messages'[j].cycle = c /\ request'[messages'[j].by].kind \in {"create", "start"}
  <2>1. PICK j \in Positions : messages[j].cycle = c /\ Bootstraps(messages[j].by)
    BY <1>1 DEF Reached
  <2> QED BY <2>1 DEF Lasting
<1> QED BY <1>1 DEF ReachedNext

\* A target that is there goes on to be one, for a request that does not move.
LEMMA TargetedStays ==
  ASSUME Lasting, NEW x \in Requests, request[x].target \in Positions, Targeted(x),
         request'[x].at = request[x].at, request'[x].target = request[x].target,
         request'[x].seen = request[x].seen, request'[x].cycle = request[x].cycle,
         request'[x].lost = request[x].lost
  PROVE  Targeted(x)'
<1> DEFINE m == request[x].target
<1>1. /\ messages'[m].cycle = messages[m].cycle
      /\ messages[m].late => messages'[m].late
      /\ messages[m].action # "none" => messages'[m].action # "none"
  BY DEF Lasting
<1>2. ASSUME NEW j \in By(x)
      PROVE  j \in By(x)' /\ messages'[j].cycle = messages[j].cycle
  BY <1>2 DEF By, Lasting
<1>3. Reached(messages[m].cycle + 1) => ReachedNext(messages'[m].cycle + 1)
  BY <1>1, ReachedStays
<1>4. messages'[m].action # "none" /\ (request'[x].seen = "expired" => messages'[m].late)
  BY <1>1 DEF Targeted
<1>5. request'[x].at \in {"claim", "engine", "lock", "insert"}
        => request'[x].cycle = messages'[m].cycle + 1
  BY <1>1 DEF Targeted
<1>6. \/ request'[x].at = "upsert"
      \/ request'[x].at = "consume" /\ request'[x].seen # "reconciled" /\ ~request'[x].lost
      => \E j \in By(x)' : messages'[j].cycle = messages'[m].cycle + 1
  BY <1>1, <1>2 DEF Targeted
<1>7. request'[x].at = "consume" /\ request'[x].seen = "reconciled"
        => ReachedNext(messages'[m].cycle + 1)
  BY <1>3 DEF Targeted
<1> QED BY <1>4, <1>5, <1>6, <1>7 DEF Targeted, Reached, ReachedNext, Bootstraps

-----------------------------------------------------------------------------
(* A step that is no insertion.                                            *)

\* A step that is no insertion takes no message away.
LEMMA DoesLasts ==
  ASSUME PairInv, NEW r \in Requests, NEW q, Does(r, q)
  PROVE  /\ Lasting /\ Positions' = Positions
         /\ \A x \in Requests : By(x)' = By(x) /\ request'[x].kind = request[x].kind
                                /\ request'[x].target = request[x].target
         /\ \A i \in Positions : messages[i].by \in Requests
<1>1. /\ SameMessages /\ request'[r] = q /\ q.kind = request[r].kind /\ q.target = request[r].target
      /\ \A x \in Requests : x # r => request'[x] = request[x]
  BY DoesIs DEF Own
<1>2. Positions' = Positions
  BY <1>1 DEF SameMessages, Positions
<1>3. \A i \in Positions : messages[i].by \in Requests /\ messages'[i].by = messages[i].by
  BY <1>1, States DEF MessageRows, SameMessages
<1>4. \A x \in Requests : /\ request'[x].kind = request[x].kind
                          /\ request'[x].target = request[x].target
  BY <1>1
<1>5. Lasting
  BY <1>1, <1>2, <1>3, <1>4 DEF Lasting, SameMessages, Bootstraps
<1> QED BY <1>2, <1>3, <1>4, <1>5 DEF By

\* What becomes of the others.
LEMMA OtherGoes ==
  ASSUME PairInv, NEW r \in Requests, NEW q, Does(r, q), request[r].kind # "start"
  PROVE  /\ SeenFits(q) /\ (Silent(q) => Silent(request[r]))
         /\ ~Holds(q) /\ ~Holds(request[r])
<1> DEFINE o == request[r]
<1>1. /\ KindFits(o) /\ KindFits(q) /\ q.kind = o.kind /\ o.kind # "start"
      /\ o.at \in Places /\ o.at \notin {"idle", "done"}
  BY States, DoesIs DEF Own, AtWork, RequestStates
<1>2. CASE Quiet(r, q) /\ Hops(o, q)
  <2>1. CASE Loads(o, q)
    BY <1>1, <2>1 DEF Loads, SeenFits, Silent, Before, Holds
  <2>2. CASE Advances(o, q)
    BY <1>1, <2>2 DEF Advances, SeenFits, Silent, Before, Holds
  <2>3. CASE Gives(o, q)
    BY <1>1, <2>3 DEF Gives, SeenFits, Silent, Before, Holds
  <2> QED BY <1>1, <1>2, <2>1, <2>2, <2>3 DEF Hops, Checks
<1>3. CASE Acts(r, q)
  BY <1>1, <1>3 DEF Acts, Claims, Settles, Restores, KindFits
<1>4. CASE Upserts(r, q)
  BY <1>1, <1>4 DEF Upserts, SeenFits, Silent, Before, Holds
<1> QED BY <1>2, <1>3, <1>4 DEF Does

\* Such a step inserts nothing.
LEMMA DoesInserted ==
  ASSUME PairInv, ActionInv, NEW r \in Requests, NEW q, Does(r, q)
  PROVE  Inserted' /\ AllSeen'
<1>1. /\ request'[r] = q /\ \A x \in Requests : x # r => request'[x] = request[x]
  BY DoesIs
<1>2. SeenFits(q) /\ (Silent(q) => Silent(request[r]))
  BY StartGoes, OtherGoes DEF ActionInv
<1>3. AllSeen'
  BY <1>1, <1>2 DEF AllSeen, ActionInv
<1>4. \A x \in Requests : Silent(request'[x]) => By(x)' = {}
  BY <1>1, <1>2, DoesLasts DEF ActionInv, Inserted
<1>5. \A x \in Requests : Bootstraps(x)' => \A i, j \in By(x)' : i = j
  BY DoesLasts DEF ActionInv, Inserted, Bootstraps
<1>6. \A i \in Positions' : messages'[i].late \/ ~messages'[i].due
  BY DoesLasts, DoesIs DEF ActionInv, Inserted, SameMessages
<1> QED BY <1>3, <1>4, <1>5, <1>6 DEF Inserted

\* The places of a start on its target.
LEMMA DoesTargeted ==
  ASSUME PairInv, ActionInv, NEW r \in Requests, NEW q, Does(r, q), conversation = "open",
         request[r].kind = "start"
  PROVE  Targeted(r)'
<1> DEFINE o == request[r]
           m == request[r].target
<1>1. /\ KindFits(o) /\ KindFits(q) /\ q.kind = "start" /\ SeenFits(o) /\ SeenFits(q)
      /\ q.target = m /\ request'[r] = q /\ q.seen \in {o.seen, "none", "reconciled"}
      /\ m \in Positions /\ messages[m] \in MessageRows /\ o.at \notin {"idle", "load", "reread", "done"}
  <2>1. /\ Own(r, q) /\ KindFits(o) /\ request'[r] = q /\ SeenFits(o) /\ SeenFits(q) /\ AtWork(r)
    BY States, DoesIs, StartGoes DEF ActionInv, AllSeen
  <2>2. m \in Positions /\ messages[m] \in MessageRows
    BY States DEF PairInv, Aims
  <2> QED BY <2>1, <2>2 DEF Own, KindFits, AtWork
<1>2. Targeted(r) /\ (run # NoRun => Reached(run.cycle))
  BY DEF ActionInv, Targets, CyclesReached
<1>3. /\ messages'[m].cycle = messages[m].cycle
      /\ messages[m].late => messages'[m].late
      /\ messages'[m].action # "none" /\ messages[m].cycle \in Nat \ {0}
  <2>1. messages[m].action # "none"
    BY <1>2 DEF Targeted
  <2> QED BY <1>1, <2>1, DoesLasts DEF Lasting, MessageRows
<1>4. q.seen = "expired" => messages'[m].late
  BY <1>1, <1>2, <1>3 DEF Targeted
<1>5. /\ q.at \in {"claim", "engine", "lock", "insert"} => q.cycle = messages[m].cycle + 1
      /\ q.at = "upsert" => FALSE
      /\ q.at = "consume" /\ q.seen # "reconciled" /\ ~q.lost => o.at = "upsert"
      /\ q.at = "consume" /\ q.seen = "reconciled" => CycleOf(run) > messages[m].cycle
  <2>1. CASE Quiet(r, q) /\ Checks(o, q)
    BY <1>1, <2>1 DEF Checks, KindFits
  <2>2. CASE Quiet(r, q) /\ Advances(o, q)
    BY <1>1, <1>2, <2>2 DEF Advances, Targeted
  <2>3. CASE Quiet(r, q) /\ Gives(o, q)
    BY <1>1, <2>3 DEF Gives, SeenFits
  <2>4. CASE Acts(r, q)
    BY <1>1, <1>2, <2>4 DEF Acts, Claims, Settles, Restores, Targeted
  <2>5. CASE Upserts(r, q)
    BY <1>1, <2>5 DEF Upserts, SeenFits
  <2> QED BY <1>1, <2>1, <2>2, <2>3, <2>4, <2>5 DEF Does, Hops, Loads
<1>6. q.at = "upsert" \/ (q.at = "consume" /\ q.seen # "reconciled" /\ ~q.lost)
        => \E j \in By(r)' : messages'[j].cycle = messages'[m].cycle + 1
  <2>1. o.at = "upsert" => \E j \in By(r) : messages[j].cycle = messages[m].cycle + 1
    BY <1>2 DEF Targeted
  <2>2. By(r)' = By(r) /\ \A j \in By(r) : messages'[j].cycle = messages[j].cycle
    BY DoesLasts DEF Lasting, By
  <2> QED BY <1>3, <1>5, <2>1, <2>2
<1>7. q.at = "consume" /\ q.seen = "reconciled" => ReachedNext(messages'[m].cycle + 1)
  <2>1. CycleOf(run) > messages[m].cycle => run # NoRun /\ run.cycle \in Nat /\ run.cycle >= messages[m].cycle + 1
    BY <1>3, States DEF CycleOf, RunRows
  <2>2. \A a, b \in Nat : Reached(a) /\ a >= b => Reached(b)
    BY DEF Reached
  <2>3. CycleOf(run) > messages[m].cycle => Reached(messages[m].cycle + 1)
    BY <1>2, <1>3, <2>1, <2>2
  <2> QED BY <1>3, <1>5, <2>3, DoesLasts, ReachedStays
<1> QED BY <1>1, <1>3, <1>4, <1>5, <1>6, <1>7 DEF Targeted, Reached, ReachedNext, Bootstraps

\* A start still has its message, and knows the cycle after it.
LEMMA DoesTargets ==
  ASSUME PairInv, ActionInv, NEW r \in Requests, NEW q, Does(r, q)
  PROVE  Targets'
<1>1. /\ request'[r] = q /\ \A x \in Requests : x # r => request'[x] = request[x]
      /\ conversation' = conversation
  BY DoesIs
<1>2. ASSUME conversation = "open", NEW x \in Requests, request'[x].kind = "start"
      PROVE  Targeted(x)'
  <2>1. request[x].kind = "start"
    BY <1>2, DoesLasts
  <2>2. CASE x = r
    BY <1>2, <2>1, <2>2, DoesTargeted
  <2>3. CASE x # r
    BY <1>1, <1>2, <2>1, <2>3, DoesLasts, TargetedStays DEF ActionInv, Targets, PairInv, Aims
  <2> QED BY <2>2, <2>3
<1> QED BY <1>1, <1>2 DEF Targets

\* Knows in the next state.
KnowsNext(q) ==
  /\ q.kind = "turn" /\ q.at \in Told => ReachedNext(q.cycle)
  /\ q.kind = "create" /\ q.at \in Told => q.cycle = 1
  /\ q.kind = "start" /\ q.at = "upsert" => ReachedNext(q.cycle)

\* KnowsNext is Knows in the next state.
LEMMA KnowsPrimed == ASSUME NEW x \in Requests PROVE Knows(request[x])' <=> KnowsNext(request'[x])
BY DEF Knows, KnowsNext, Reached, ReachedNext, Bootstraps

\* Whatever cycle a request knows was begun.
LEMMA DoesCycles ==
  ASSUME PairInv, ActionInv, NEW r \in Requests, NEW q, Does(r, q)
  PROVE  CyclesReached'
<1> DEFINE o == request[r]
<1>1. /\ request'[r] = q /\ \A x \in Requests : x # r => request'[x] = request[x]
      /\ conversation' = conversation /\ KindFits(o) /\ KindFits(q) /\ q.kind = o.kind
  BY DoesIs, States DEF Own
<1> SUFFICES ASSUME conversation = "open"
             PROVE  /\ run' # NoRun => ReachedNext(run'.cycle)
                    /\ \A i \in Positions' : ReachedNext(messages'[i].cycle)
                    /\ \A x \in Requests : KnowsNext(request'[x])
  BY <1>1, KnowsPrimed DEF CyclesReached, Reached, ReachedNext, Bootstraps
<1>2. /\ run # NoRun => Reached(run.cycle)
      /\ \A i \in Positions : Reached(messages[i].cycle)
      /\ \A x \in Requests : Knows(request[x])
  BY DEF ActionInv, CyclesReached
<1>3. /\ \A k : Reached(k) => ReachedNext(k)
      /\ ReachedNext(0) /\ ReachedNext(1) /\ ReachedNext(CycleOf(run))
  <2>1. \A k : Reached(k) => ReachedNext(k)
    BY DoesLasts, ReachedStays
  <2>2. Reached(0) /\ Reached(1)
    BY DEF Reached
  <2> QED BY <1>2, <2>1, <2>2 DEF CycleOf
<1>4. \A i \in Positions' : ReachedNext(messages'[i].cycle)
  BY <1>2, <1>3, DoesLasts DEF Lasting
<1>5. KnowsNext(o)
  BY <1>2, <1>3 DEF Knows, KnowsNext
<1>6. KnowsNext(q)
  <2>1. CASE Quiet(r, q) /\ Loads(o, q)
    BY <1>1, <1>3, <2>1 DEF Loads, KnowsNext, Told
  <2>2. CASE Quiet(r, q) /\ Checks(o, q)
    BY <1>1, <2>2 DEF Checks, KnowsNext
  <2>3. CASE Quiet(r, q) /\ Advances(o, q)
    BY <1>1, <1>3, <1>5, <2>3 DEF Advances, KnowsNext, Told, KindFits
  <2>4. CASE Quiet(r, q) /\ Gives(o, q)
    BY <1>1, <2>4 DEF Gives, KnowsNext, Told
  <2>5. CASE Acts(r, q)
    BY <1>1, <2>5 DEF Acts, Claims, Settles, Restores, KnowsNext, Told, KindFits
  <2>6. CASE Upserts(r, q)
    BY <1>1, <2>6 DEF Upserts, KnowsNext, Told
  <2> QED BY <2>1, <2>2, <2>3, <2>4, <2>5, <2>6 DEF Does, Hops
<1>7. \A x \in Requests : KnowsNext(request'[x])
  BY <1>1, <1>2, <1>3, <1>6 DEF Knows, KnowsNext
<1>8. run' # NoRun => ReachedNext(run'.cycle)
  <2>1. CASE Upserts(r, q)
    <3>1. run'.cycle = o.cycle /\ o.at = "upsert" /\ o.kind \in {"create", "turn", "start"}
      BY <1>1, <2>1, States DEF Upserts, RequestStates, Kinds, KindFits
    <3> QED BY <1>3, <1>5, <3>1 DEF KnowsNext, Told
  <2>2. CASE ~Upserts(r, q)
    BY <1>2, <1>3, <2>2 DEF Does, Quiet, Acts
  <2> QED BY <2>1, <2>2
<1> QED BY <1>4, <1>7, <1>8

\* Claimants come only by a claim.
LEMMA DoesClaimants ==
  ASSUME PairInv, ActionInv, NEW r \in Requests, NEW q, Does(r, q), NEW x \in Requests, Claimant(x)'
  PROVE  Claimant(x) \/ (x = r /\ request[r].at = "claim" /\ Claims(request[r], q))
<1>1. /\ request'[r] = q /\ \A y \in Requests : y # r => request'[y] = request[y]
      /\ By(x)' = By(x) /\ request'[x].kind = request[x].kind
  BY DoesIs, DoesLasts
<1>2. CASE x # r
  BY <1>1, <1>2 DEF Claimant, Holding
<1>3. CASE x = r /\ request[r].kind # "start"
  BY <1>1, <1>3 DEF Claimant, Holding, Holds
<1>4. CASE x = r /\ request[r].kind = "start"
  <2>1. CASE Holds(q)
    BY <1>4, <2>1, StartGoes DEF ActionInv, Claimant, Holding
  <2>2. CASE q.outcome = "ok" /\ By(r) # {}
    <3>1. Settles(request[r], q)
      BY <1>4, <2>2, StartGoes DEF ActionInv
    <3>2. ~Silent(request[r])
      BY <1>4, <2>2 DEF ActionInv, Inserted
    <3> QED BY <1>4, <3>1, <3>2 DEF Settles, Silent, Claimant, Holding, Holds
  <2> QED BY <1>1, <1>4, <2>1, <2>2 DEF Claimant, Holding
<1> QED BY <1>2, <1>3, <1>4

\* A claim compares and sets: an action with a claimant gets no second one
\* before its lease runs out.
LEMMA DoesOneClaimant ==
  ASSUME PairInv, ActionInv, NEW r \in Requests, NEW q, Does(r, q)
  PROVE  OneClaimant'
<1> DEFINE o == request[r]
<1>1. /\ request'[r] = q /\ \A x \in Requests : x # r => request'[x] = request[x]
      /\ Positions' = Positions
      /\ \A x \in Requests : request'[x].kind = request[x].kind /\ request'[x].target = request[x].target
  BY DoesIs, DoesLasts
<1> SUFFICES ASSUME NEW x \in Requests, Claimant(x)', request[x].target \in Positions,
                    ~messages'[request[x].target].late
             PROVE  /\ messages'[request[x].target].action \in {"executing", "consumed"}
                    /\ request'[x].outcome = "ok" => messages'[request[x].target].action = "consumed"
                    /\ \A s \in Requests :
                         Claimant(s)' /\ request[s].target = request[x].target => x = s
  BY <1>1 DEF OneClaimant
<1> DEFINE m == request[x].target
           old == messages[m].action
           new == messages'[m].action
<1>2. ~messages[m].late /\ conversation = "open"
  <2>1. ~messages[m].late
    BY ActionGoes DEF ActionInv
  <2>2. messages # << >>
    BY DEF Positions
  <2> QED BY <2>1, <2>2 DEF PairInv, LockCounts
<1>3. OneClaimant
  BY DEF ActionInv
\* A claim finds no claimant.
<1>4. ASSUME o.target = m, o.at = "claim", Claims(o, q), old \in ClaimedFrom(o.seen)
      PROVE  old = "enabled" /\ \A s \in Requests : request[s].target = m => ~Claimant(s)
  <2>1. /\ o.kind = "start" /\ o.seen \in {"enabled", "expired"}
    BY <1>4, States DEF ActionInv, AllSeen, SeenFits, KindFits
  <2>2. o.seen = "enabled"
    BY <1>2, <1>4, <2>1 DEF ActionInv, Targets, Targeted
  <2>3. old = "enabled"
    BY <1>4, <2>2 DEF ClaimedFrom
  <2> QED BY <1>2, <1>3, <2>3 DEF OneClaimant
<1>5. CASE Claimant(x)
  <2>1. /\ old \in {"executing", "consumed"}
        /\ request[x].outcome = "ok" => old = "consumed"
        /\ \A s \in Requests : Claimant(s) /\ request[s].target = m => x = s
    BY <1>2, <1>3, <1>5 DEF OneClaimant
  <2>2. ~(o.target = m /\ Claims(o, q) /\ old \in ClaimedFrom(o.seen))
    BY <1>4, <1>5 DEF Claims
  <2>3. o.target = m /\ Restores(o, q) => FALSE
    <3>1. SUFFICES ASSUME o.target = m, Restores(o, q) PROVE FALSE
      OBVIOUS
    <3>2. o.kind = "start" /\ o.at = "restore"
      BY <3>1, States DEF Restores, KindFits
    <3>3. r = x
      BY <2>1, <3>1, <3>2 DEF Claimant, Holding, Holds
    <3>4. q.at = "done" /\ q.outcome = "failed"
      BY <3>1 DEF Restores
    <3> QED BY <1>1, <3>3, <3>4 DEF Claimant, Holding, Holds
  <2>4. \/ new = old /\ ~(Settles(o, q) /\ o.target = m /\ old = "executing")
        \/ new = "consumed"
    BY <2>2, <2>3, ActionGoes DEF ActionInv
  <2>5. \A s \in Requests : Claimant(s)' /\ request[s].target = m => x = s
    <3>1. ASSUME NEW s \in Requests, Claimant(s)', request[s].target = m
          PROVE  Claimant(s)
      <4>1. CASE s = r /\ o.at = "claim" /\ Claims(o, q)
        <5>1. q.at = "done"
          BY <2>2, <3>1, <4>1 DEF Claims
        <5>2. q.outcome = "refused"
          BY <4>1, <5>1 DEF Claims
        <5> QED BY <1>1, <3>1, <4>1, <5>1, <5>2 DEF Claimant, Holding, Holds
      <4> QED BY <3>1, <4>1, DoesClaimants
    <3> QED BY <2>1, <3>1
  <2>6. request'[x].outcome = "ok" => new = "consumed"
    <3>1. CASE x = r /\ q.outcome = "ok"
      <4>1. Settles(o, q)
        BY <1>1, <1>5, <3>1, StartGoes DEF ActionInv, Claimant, Holding, Holds
      <4> QED BY <2>1, <2>4, <3>1, <4>1
    <3>2. CASE x # r
      BY <1>1, <2>1, <2>4, <3>2
    <3> QED BY <1>1, <3>1, <3>2
  <2> QED BY <2>1, <2>4, <2>5, <2>6
<1>6. CASE x = r /\ o.at = "claim" /\ Claims(o, q) /\ ~Claimant(x)
  <2>1. q.at = "engine" /\ old \in ClaimedFrom(o.seen)
    <3>1. q.at # "done" \/ q.outcome # "refused"
      BY <1>1, <1>6 DEF Claimant, Holding, Holds
    <3> QED BY <1>6, <3>1 DEF Claims
  <2>2. \A s \in Requests : request[s].target = m => ~Claimant(s)
    BY <1>4, <1>6, <2>1
  <2>3. \A s \in Requests : Claimant(s)' /\ request[s].target = m => x = s
    BY <1>6, <2>2, DoesClaimants
  <2>4. new = "executing"
    <3>1. ~Settles(o, q) /\ ~Restores(o, q)
      BY <1>6 DEF Settles, Restores
    <3>2. Moves(m, ClaimedFrom(o.seen), "executing") /\ messages[m] \in MessageRows
      BY <1>6, States DEF Claims
    <3> QED BY <2>1, <3>2 DEF Moves, MessageRows
  <2>5. q.outcome # "ok"
    <3>1. KindFits(q)
      BY DoesIs DEF Own
    <3> QED BY <2>1, <3>1 DEF KindFits
  <2> QED BY <1>1, <1>6, <2>3, <2>4, <2>5
<1> QED BY <1>5, <1>6, DoesClaimants

\* An action is given back, consumed or kept by whoever has it.
LEMMA DoesHeld ==
  ASSUME PairInv, ActionInv, NEW r \in Requests, NEW q, Does(r, q)
  PROVE  ExecutingIsHeld'
<1> DEFINE o == request[r]
<1>1. /\ request'[r] = q /\ \A x \in Requests : x # r => request'[x] = request[x]
      /\ Positions' = Positions /\ q.target = o.target /\ AtWork(r) /\ KindFits(o)
      /\ \A x \in Requests : request'[x].kind = request[x].kind /\ request'[x].target = request[x].target
  BY DoesIs, DoesLasts, States DEF Own
<1> SUFFICES ASSUME NEW i \in Positions, messages'[i].action = "executing"
             PROVE  \E x \in Requests : request'[x].target = i
                      /\ (Holds(request'[x]) \/ request'[x].outcome = "broken")
  BY <1>1 DEF ExecutingIsHeld, Holding
<1>2. CASE o.target = i /\ Holds(q)
  BY <1>1, <1>2
<1>3. CASE ~(o.target = i /\ Holds(q))
  <2>1. messages[i].action = "executing" /\ ~((Settles(o, q) \/ Restores(o, q)) /\ o.target = i)
    BY <1>3, ActionGoes DEF ActionInv
  <2>2. PICK x \in Requests : request[x].target = i /\ (Holds(request[x]) \/ request[x].outcome = "broken")
    BY <2>1 DEF ActionInv, ExecutingIsHeld, Holding
  <2>3. CASE x # r
    BY <1>1, <2>2, <2>3
  <2>4. CASE x = r
    <3>1. o.outcome # "broken"
      BY <1>1 DEF KindFits, AtWork
    <3>2. Holds(o) /\ o.kind = "start"
      BY <2>2, <2>4, <3>1 DEF Holds
    <3>3. q.outcome = "broken"
      BY <1>3, <2>1, <2>2, <2>4, <3>2, StartGoes DEF ActionInv
    <3> QED BY <1>1, <2>2, <2>4, <3>3
  <2> QED BY <2>3, <2>4
<1> QED BY <1>2, <1>3

\* What an end leaves of a failure.
LEMMA DoesEnds ==
  ASSUME PairInv, NEW r \in Requests, NEW q, Does(r, q), request[r].at = "restore"
  PROVE  q.outcome \in {"failed", "broken"}
<1> DEFINE o == request[r]
<1>1. o.kind = "start"
  BY States DEF KindFits
<1>2. CASE Quiet(r, q) /\ Hops(o, q)
  BY <1>1, <1>2 DEF Hops, Loads, Checks, Advances, Gives, Holds
<1>3. CASE Acts(r, q)
  BY <1>3 DEF Acts, Claims, Settles, Restores
<1>4. CASE Upserts(r, q)
  BY <1>4 DEF Upserts
<1> QED BY <1>2, <1>3, <1>4 DEF Does

\* Who was cut short stays so.
LEMMA DoesStarted ==
  ASSUME PairInv, ActionInv, NEW r \in Requests, NEW q, Does(r, q)
  PROVE  StartedOncePerLease'
<1>1. /\ request'[r] = q /\ \A x \in Requests : x # r => request'[x] = request[x]
      /\ Positions' = Positions /\ AtWork(r) /\ KindFits(request[r])
      /\ \A x \in Requests : request'[x].kind = request[x].kind /\ request'[x].target = request[x].target
      /\ \A i \in Positions : messages'[i].by = messages[i].by /\ messages[i].by \in Requests
                             /\ (messages[i].late => messages'[i].late)
  BY DoesIs, DoesLasts, States DEF Lasting
<1> SUFFICES ASSUME NEW i \in Positions, NEW j \in Positions, NEW x \in Requests, NEW y \in Requests,
                    i < j, messages[i].by = x, messages[j].by = y,
                    request[x].kind = "start", request[y].kind = "start",
                    request[x].target = request[y].target
             PROVE  \/ request'[x].outcome \in {"failed", "broken"} \/ request'[x].at = "restore"
                    \/ messages'[request[x].target].late
  BY <1>1 DEF StartedOncePerLease, Greets
<1>2. \/ request[x].outcome \in {"failed", "broken"} \/ request[x].at = "restore"
      \/ messages[request[x].target].late
  BY DEF ActionInv, StartedOncePerLease, Greets, Bootstraps
<1>3. request[x].target \in Positions
  BY DEF PairInv, Aims, LockCounts, Positions
<1>4. x = r /\ request[r].at = "restore" => q.outcome \in {"failed", "broken"}
  BY DoesEnds
<1>5. request[r].outcome \notin {"failed", "broken"}
  BY <1>1 DEF KindFits, AtWork
<1> QED BY <1>1, <1>2, <1>3, <1>4, <1>5

\* Who consumes an action has greeted, or has lost the settings.
LEMMA DoesConsumed ==
  ASSUME PairInv, ActionInv, NEW r \in Requests, NEW q, Does(r, q)
  PROVE  ConsumedWasStarted'
<1> DEFINE o == request[r]
<1>1. /\ request'[r] = q /\ \A x \in Requests : x # r => request'[x] = request[x]
      /\ Positions' = Positions /\ KindFits(o) /\ Own(r, q) /\ Lasting
      /\ \A x \in Requests : request'[x].kind = request[x].kind /\ request'[x].target = request[x].target
  BY DoesIs, DoesLasts, States
<1>2. \A x \in Requests : request[x].lost => request'[x].lost
  BY <1>1 DEF Own
<1> SUFFICES ASSUME NEW i \in Positions, messages'[i].action = "consumed"
             PROVE  \/ \E j \in Positions' : /\ messages'[j].cycle = messages'[i].cycle + 1
                                             /\ request'[messages'[j].by].kind \in {"create", "start"}
                    \/ \E x \in Requests : request'[x].target = i /\ request'[x].lost
  BY <1>1 DEF ConsumedWasStarted, Bootstraps
<1>3. ASSUME \E j \in Positions : messages[j].cycle = messages[i].cycle + 1 /\ Bootstraps(messages[j].by)
      PROVE  \E j \in Positions' : /\ messages'[j].cycle = messages'[i].cycle + 1
                                   /\ request'[messages'[j].by].kind \in {"create", "start"}
  BY <1>1, <1>3 DEF Lasting
<1>4. CASE messages[i].action = "consumed"
  <2>1. \/ \E j \in Positions : messages[j].cycle = messages[i].cycle + 1 /\ Bootstraps(messages[j].by)
        \/ \E x \in Requests : request[x].target = i /\ request[x].lost
    BY <1>4 DEF ActionInv, ConsumedWasStarted
  <2> QED BY <1>1, <1>2, <1>3, <2>1
<1>5. CASE messages[i].action # "consumed"
  <2>1. o.target = i /\ Settles(o, q)
    BY <1>5, ActionGoes DEF ActionInv
  <2>2. o.kind = "start" /\ o.at = "consume" /\ q.lost = o.lost /\ conversation = "open"
    <3>1. o.at = "consume" /\ q.lost = o.lost
      BY <2>1 DEF Settles
    <3>2. messages # << >>
      BY DEF Positions
    <3> QED BY <1>1, <3>1, <3>2 DEF KindFits, PairInv, LockCounts
  <2>3. Targeted(r) /\ messages[i].cycle \in Nat \ {0}
    BY <2>2, States DEF ActionInv, Targets, MessageRows
  <2>4. CASE o.lost
    BY <1>1, <2>1, <2>2, <2>4
  <2>5. CASE ~o.lost /\ o.seen # "reconciled"
    <3>1. PICK j \in By(r) : messages[j].cycle = messages[i].cycle + 1
      BY <2>1, <2>2, <2>3, <2>5 DEF Targeted
    <3>2. j \in Positions /\ Bootstraps(messages[j].by)
      BY <2>2, <3>1 DEF By, Bootstraps
    <3> QED BY <1>3, <3>1, <3>2
  <2>6. CASE o.seen = "reconciled"
    <3>1. Reached(messages[i].cycle + 1) /\ messages[i].cycle + 1 \in 2..(messages[i].cycle + 1)
      BY <2>1, <2>2, <2>3, <2>6 DEF Targeted
    <3>2. \E j \in Positions : messages[j].cycle = messages[i].cycle + 1 /\ Bootstraps(messages[j].by)
      BY <3>1 DEF Reached
    <3> QED BY <1>3, <3>2
  <2> QED BY <2>4, <2>5, <2>6
<1> QED BY <1>4, <1>5

\* A step that is no insertion keeps what ActionInv says.
LEMMA DoesActions ==
  ASSUME PairInv, ActionInv, NEW r \in Requests, NEW q, Does(r, q)
  PROVE  ActionInv'
BY DoesInserted, DoesTargets, DoesCycles, DoesOneClaimant, DoesHeld, DoesStarted, DoesConsumed
DEF ActionInv

-----------------------------------------------------------------------------
(* An insertion.                                                           *)

\* What an insertion leaves.
LEMMA InsertIs ==
  ASSUME PairInv, ActionInv, NEW r \in Requests, NEW q, Inserts(r, q)
  PROVE  LET o == request[r] IN
         /\ request'[r] = q /\ \A x \in Requests : x # r => request'[x] = request[x]
         /\ o.at = "insert" /\ conversation = "open" /\ conversation' = "open"
         /\ KindFits(o) /\ KindFits(q) /\ q.kind = o.kind /\ q.target = o.target
         /\ o.cycle \in Nat /\ (o.kind = "start" => o.cycle # 0 /\ q.at = "upsert")
         /\ Lasting /\ By(r) = {} /\ Len(messages) + 1 \in Positions' \ Positions
         /\ \A x \in Requests : x # r => By(x)' = By(x)
         /\ \A x \in Requests : request'[x].kind = request[x].kind
                                /\ request'[x].target = request[x].target
<1> DEFINE o == request[r]
<1>1. /\ o \in RequestStates /\ KindFits(o) /\ Own(r, q) /\ Len(messages) \in Nat
      /\ request \in [Requests -> RequestStates]
  BY States DEF Inserts, PairInv, TypeOK
<1>2. /\ request'[r] = q /\ \A x \in Requests : x # r => request'[x] = request[x]
      /\ KindFits(q) /\ q.kind = o.kind /\ q.target = o.target
  BY <1>1 DEF Own
<1>3. o.at = "insert" /\ conversation = "open" /\ conversation' = "open"
  BY DEF Inserts, PairInv, LockCounts
<1>4. o.cycle \in Nat /\ (o.kind = "start" => o.cycle # 0 /\ q.at = "upsert")
  BY <1>1, <1>3 DEF Inserts, KindFits, Told, RequestStates, Bootstraps
<1>5. /\ Len(messages) + 1 \in Positions' \ Positions
      /\ \A i \in Positions : i \in Positions' /\ messages'[i] = messages[i]
      /\ \A i \in Positions' \ Positions : messages'[i].by = r
  BY <1>1 DEF Inserts, Positions
<1>6. \A x \in Requests : request'[x].kind = request[x].kind /\ request'[x].target = request[x].target
  BY <1>2
<1>7. Lasting
  <2>1. \A i \in Positions : messages[i].by \in Requests
    BY States DEF MessageRows
  <2> QED BY <1>5, <1>6, <2>1 DEF Lasting, Bootstraps
<1>8. By(r) = {}
  BY <1>3 DEF ActionInv, Inserted, Silent, Before
<1>9. \A x \in Requests : x # r => By(x)' = By(x)
  BY <1>5 DEF By
<1> QED BY <1>2, <1>3, <1>4, <1>1, <1>5, <1>6, <1>7, <1>8, <1>9

\* The messages of a request are inserted once.
LEMMA InsertInserted ==
  ASSUME PairInv, ActionInv, NEW r \in Requests, NEW q, Inserts(r, q)
  PROVE  Inserted' /\ AllSeen'
<1> DEFINE o == request[r]
<1>1. /\ request'[r] = q /\ \A x \in Requests : x # r => request'[x] = request[x]
      /\ KindFits(q) /\ q.kind = o.kind /\ o.at = "insert"
      /\ q.seen = o.seen /\ q.at \in {"upsert", "reread"} /\ By(r) = {}
      /\ \A x \in Requests : x # r => By(x)' = By(x)
  BY InsertIs DEF Inserts
<1>2. AllSeen'
  BY <1>1 DEF AllSeen, SeenFits, ActionInv
<1>3. ~Silent(q)
  BY <1>1 DEF Silent, Before, KindFits
<1>4. \A x \in Requests : Silent(request'[x]) => By(x)' = {}
  BY <1>1, <1>3 DEF ActionInv, Inserted
<1>5. ASSUME NEW x \in Requests, Bootstraps(x)', NEW i \in By(x)', NEW j \in By(x)'
      PROVE  i = j
  <2>1. CASE x = r
    <3>1. Positions' = 1..(Len(messages) + 1) /\ Len(messages) \in Nat
      BY <1>1, <1>5, <2>1, States DEF Inserts, Bootstraps, Positions
    <3>2. \A k \in By(r)' : k \in Positions' \ Positions
      BY <1>1 DEF By, Inserts
    <3> QED BY <1>5, <2>1, <3>1, <3>2 DEF Positions
  <2>2. CASE x # r
    BY <1>1, <1>5, <2>2 DEF ActionInv, Inserted, Bootstraps
  <2> QED BY <2>1, <2>2
<1>6. ASSUME NEW i \in Positions'
      PROVE  messages'[i].late \/ ~messages'[i].due
  <2>1. CASE i \in Positions
    BY <2>1 DEF Inserts, ActionInv, Inserted
  <2>2. CASE i \notin Positions
    BY <1>6, <2>2 DEF Inserts
  <2> QED BY <2>1, <2>2
<1> QED BY <1>2, <1>4, <1>5, <1>6 DEF Inserted

\* An insertion moves no message.
LEMMA InsertTargets ==
  ASSUME PairInv, ActionInv, NEW r \in Requests, NEW q, Inserts(r, q)
  PROVE  Targets'
<1> DEFINE o == request[r]
<1>1. /\ request'[r] = q /\ \A x \in Requests : x # r => request'[x] = request[x]
      /\ conversation = "open" /\ Lasting
      /\ \A x \in Requests : request'[x].kind = request[x].kind /\ request'[x].target = request[x].target
  BY InsertIs
<1>2. ASSUME NEW x \in Requests, request'[x].kind = "start"
      PROVE  Targeted(x)'
  <2>1. request[x].kind = "start" /\ request[x].target \in Positions /\ Targeted(x)
    BY <1>1, <1>2 DEF ActionInv, Targets, PairInv, Aims
  <2>2. CASE x # r
    BY <1>1, <2>1, <2>2, TargetedStays
  <2>3. CASE x = r
    <3> DEFINE m == o.target
               n == Len(messages) + 1
    <3>1. /\ messages'[m].cycle = messages[m].cycle
          /\ messages[m].late => messages'[m].late
          /\ messages'[m].action # "none" /\ m \in Positions
      BY <1>1, <2>1, <2>3 DEF Lasting, Targeted
    <3>2. /\ o.at = "insert" /\ q.at = "upsert" /\ q.seen = o.seen /\ q.target = m
          /\ o.cycle \in Nat \ {0} /\ n \in Positions' \ Positions
      BY <2>1, <2>3, InsertIs DEF Inserts
    <3>3. o.cycle = messages[m].cycle + 1 /\ (o.seen = "expired" => messages[m].late)
      BY <2>1, <2>3, <3>2 DEF Targeted
    <3>4. messages'[n].cycle = messages'[m].cycle + 1 /\ n \in By(r)'
      BY <3>1, <3>2, <3>3 DEF Inserts, By
    <3> QED BY <1>1, <2>3, <3>1, <3>2, <3>3, <3>4 DEF Targeted
  <2> QED BY <2>2, <2>3
<1> QED BY <1>2 DEF Targets

\* The greeting of a start begins the cycle after that of its action.
LEMMA InsertCycles ==
  ASSUME PairInv, ActionInv, NEW r \in Requests, NEW q, Inserts(r, q)
  PROVE  CyclesReached'
<1> DEFINE o == request[r]
<1>1. /\ request'[r] = q /\ \A x \in Requests : x # r => request'[x] = request[x]
      /\ KindFits(o) /\ KindFits(q) /\ q.kind = o.kind /\ conversation = "open" /\ Lasting
      /\ o.at = "insert" /\ q.at \in {"upsert", "reread"} /\ q.cycle = o.cycle /\ o.cycle \in Nat
      /\ run' = run
  BY InsertIs DEF Inserts
<1> SUFFICES /\ run' # NoRun => ReachedNext(run'.cycle)
             /\ \A i \in Positions' : ReachedNext(messages'[i].cycle)
             /\ \A x \in Requests : KnowsNext(request'[x])
  BY KnowsPrimed DEF CyclesReached, Reached, ReachedNext, Bootstraps
<1>2. /\ run # NoRun => Reached(run.cycle)
      /\ \A i \in Positions : Reached(messages[i].cycle)
      /\ \A x \in Requests : Knows(request[x])
  BY <1>1 DEF ActionInv, CyclesReached
<1>3. /\ \A k : Reached(k) => ReachedNext(k)
      /\ ReachedNext(0) /\ ReachedNext(1)
  <2>1. \A k : Reached(k) => ReachedNext(k)
    BY <1>1, ReachedStays
  <2>2. Reached(0) /\ Reached(1)
    BY DEF Reached
  <2> QED BY <2>1, <2>2
<1>4. ReachedNext(o.cycle)
  <2>1. CASE o.kind = "turn"
    BY <1>1, <1>2, <1>3, <2>1 DEF Knows, Told
  <2>2. CASE o.kind = "create"
    BY <1>1, <1>2, <1>3, <2>2 DEF Knows, Told
  <2>3. CASE o.kind = "start"
    <3> DEFINE m == o.target
               n == Len(messages) + 1
    <3>1. m \in Positions /\ messages[m] \in MessageRows /\ o.cycle = messages[m].cycle + 1
      BY <1>1, <2>3, States DEF ActionInv, Targets, Targeted, PairInv, Aims
    <3>2. ReachedNext(messages[m].cycle) /\ messages[m].cycle \in Nat
      BY <1>2, <1>3, <3>1 DEF MessageRows
    <3>3. n \in Positions' /\ messages'[n].cycle = o.cycle /\ request'[messages'[n].by].kind = "start"
      BY <1>1, <2>3, InsertIs DEF Inserts
    <3>4. ASSUME NEW c \in 2..o.cycle
          PROVE  \E j \in Positions' : /\ messages'[j].cycle = c
                                       /\ request'[messages'[j].by].kind \in {"create", "start"}
      <4>1. CASE c = o.cycle
        BY <3>3, <4>1
      <4>2. CASE c # o.cycle
        <5>1. c \in 2..messages[m].cycle
          BY <3>1, <3>2, <3>4, <4>2
        <5> QED BY <3>2, <5>1 DEF ReachedNext
      <4> QED BY <4>1, <4>2
    <3> QED BY <3>4 DEF ReachedNext
  <2> QED BY <1>1, <2>1, <2>2, <2>3, States DEF KindFits, RequestStates, Kinds
<1>5. \A i \in Positions' : ReachedNext(messages'[i].cycle)
  <2>1. \A i \in Positions : ReachedNext(messages'[i].cycle)
    BY <1>1, <1>2, <1>3 DEF Lasting
  <2>2. \A i \in Positions' \ Positions : messages'[i].cycle \in {1, o.cycle}
    BY DEF Inserts
  <2> QED BY <1>3, <1>4, <2>1, <2>2
<1>6. KnowsNext(q)
  <2>1. Knows(o)
    BY <1>2
  <2> QED BY <1>1, <1>4, <2>1 DEF KnowsNext, Knows, Told
<1>7. \A x \in Requests : KnowsNext(request'[x])
  BY <1>1, <1>2, <1>3, <1>6 DEF Knows, KnowsNext
<1> QED BY <1>1, <1>2, <1>3, <1>5, <1>7

\* An insertion keeps what ActionInv says: a second greeting for one action
\* would be a second claimant.
LEMMA InsertActions ==
  ASSUME PairInv, ActionInv, NEW r \in Requests, NEW q, Inserts(r, q)
  PROVE  ActionInv'
<1> DEFINE o == request[r]
<1>1. /\ request'[r] = q /\ \A x \in Requests : x # r => request'[x] = request[x]
      /\ KindFits(o) /\ KindFits(q) /\ q.kind = o.kind /\ conversation = "open" /\ Lasting
      /\ o.at = "insert" /\ q.at \in {"upsert", "reread"} /\ q.lost = o.lost /\ q.target = o.target
      /\ By(r) = {} /\ \A x \in Requests : x # r => By(x)' = By(x)
      /\ \A x \in Requests : request'[x].kind = request[x].kind /\ request'[x].target = request[x].target
      /\ q.outcome = "none" /\ o.outcome = "none" /\ (o.kind = "start" => q.at = "upsert")
  <2>1. q.at \in {"upsert", "reread"} /\ q.lost = o.lost
    BY DEF Inserts
  <2> QED BY <2>1, InsertIs DEF KindFits
<1>2. /\ \A i \in Positions : i \in Positions' /\ messages'[i] = messages[i]
      /\ \A i \in Positions' \ Positions : messages'[i].by = r /\ messages'[i].action \in {"none", "enabled"}
  BY <1>1 DEF Inserts, Lasting
<1>3. \A x \in Requests : Claimant(x)' <=> Claimant(x)
  <2>1. ASSUME NEW x \in Requests
        PROVE  Claimant(x)' <=> Claimant(x)
    <3>1. CASE x = r
      <4>1. Holds(o) <=> Holds(q)
        BY <1>1 DEF Holds
      <4> QED BY <1>1, <3>1, <4>1 DEF Claimant, Holding
    <3>2. CASE x # r
      BY <1>1, <3>2 DEF Claimant, Holding
    <3> QED BY <3>1, <3>2
  <2> QED BY <2>1
<1>4. OneClaimant'
  <2> SUFFICES ASSUME NEW x \in Requests, Claimant(x)', request[x].target \in Positions',
                      ~messages'[request[x].target].late
               PROVE  /\ messages'[request[x].target].action \in {"executing", "consumed"}
                      /\ request'[x].outcome = "ok" =>
                           messages'[request[x].target].action = "consumed"
                      /\ \A s \in Requests :
                           Claimant(s)' /\ request[s].target = request[x].target => x = s
    BY <1>1 DEF OneClaimant
  <2>1. Claimant(x) /\ request[x].target \in Positions
    BY <1>1, <1>3 DEF PairInv, Aims, Claimant, Holding, Holds
  <2>2. request'[x].outcome = request[x].outcome
    BY <1>1
  <2> QED BY <1>2, <1>3, <2>1, <2>2 DEF ActionInv, OneClaimant
<1>5. ExecutingIsHeld'
  <2> SUFFICES ASSUME NEW i \in Positions', messages'[i].action = "executing"
               PROVE  \E x \in Requests : request'[x].target = i
                        /\ (Holds(request'[x]) \/ request'[x].outcome = "broken")
    BY DEF ExecutingIsHeld, Holding
  <2>1. i \in Positions /\ messages[i].action = "executing"
    BY <1>2
  <2>2. PICK x \in Requests : request[x].target = i /\ (Holds(request[x]) \/ request[x].outcome = "broken")
    BY <2>1 DEF ActionInv, ExecutingIsHeld, Holding
  <2>3. Holds(o) => Holds(q)
    BY <1>1 DEF Holds
  <2> QED BY <1>1, <2>2, <2>3
<1>6. StartedOncePerLease'
  <2> SUFFICES ASSUME NEW i \in Positions', NEW j \in Positions', NEW x \in Requests, NEW y \in Requests,
                      i < j, messages'[i].by = x, messages'[j].by = y,
                      request[x].kind = "start", request[y].kind = "start",
                      request[x].target = request[y].target
               PROVE  \/ request'[x].outcome \in {"failed", "broken"} \/ request'[x].at = "restore"
                      \/ messages'[request[x].target].late
    BY <1>1 DEF StartedOncePerLease, Greets
  <2>1. request[x].target \in Positions
    BY <1>1 DEF PairInv, Aims
  <2>2. CASE j \in Positions
    <3>1. i \in Positions
      BY <1>1, <2>2 DEF Positions
    <3>2. x # r /\ y # r
      BY <1>1, <1>2, <2>2, <3>1 DEF By
    <3>3. \/ request[x].outcome \in {"failed", "broken"} \/ request[x].at = "restore"
          \/ messages[request[x].target].late
      BY <1>2, <2>2, <3>1 DEF ActionInv, StartedOncePerLease, Greets, Bootstraps
    <3> QED BY <1>1, <1>2, <2>1, <3>2, <3>3
  <2>3. CASE j \notin Positions /\ i \in Positions
    <3>1. y = r /\ i \in By(x) /\ x # r
      BY <1>1, <1>2, <2>3 DEF By
    <3>2. ~Silent(request[x]) /\ KindFits(request[x]) /\ request[x] \in RequestStates
      BY <3>1, States DEF ActionInv, Inserted
    <3>3. Claimant(r)
      BY <1>1, <3>1 DEF Claimant, Holding, Holds
    <3>4. Claimant(x) \/ request[x].outcome \in {"failed", "broken"}
      BY <3>1, <3>2 DEF Claimant, Holding, Holds, Silent, Before, KindFits, RequestStates,
                        Outcomes, Places
    <3>5. Claimant(x) => messages[request[x].target].late
      BY <2>1, <3>1, <3>3 DEF ActionInv, OneClaimant
    <3> QED BY <1>1, <1>2, <2>1, <3>1, <3>4, <3>5
  <2>4. CASE i \notin Positions
    <3>1. x = r /\ j \notin Positions
      BY <1>2, <2>4, States DEF Positions
    <3>2. y = r
      BY <1>2, <3>1
    <3>3. i \in By(r)' /\ j \in By(r)' /\ Bootstraps(r)'
      BY <1>1, <3>1, <3>2 DEF By, Bootstraps
    <3>4. i = j
      BY <3>3, InsertInserted DEF Inserted
    <3>5. i \in Nat /\ j \in Nat
      BY States, InsertPairs DEF Positions, PairInv, TypeOK
    <3> QED BY <3>4, <3>5
  <2> QED BY <2>2, <2>3, <2>4
<1>7. ConsumedWasStarted'
  <2> SUFFICES ASSUME NEW i \in Positions', messages'[i].action = "consumed"
               PROVE  \/ \E j \in Positions' : /\ messages'[j].cycle = messages'[i].cycle + 1
                                               /\ request'[messages'[j].by].kind \in {"create", "start"}
                      \/ \E x \in Requests : request'[x].target = i /\ request'[x].lost
    BY DEF ConsumedWasStarted, Bootstraps
  <2>1. i \in Positions /\ messages[i].action = "consumed"
    BY <1>2
  <2>2. \/ \E j \in Positions : messages[j].cycle = messages[i].cycle + 1 /\ Bootstraps(messages[j].by)
        \/ \E x \in Requests : request[x].target = i /\ request[x].lost
    BY <2>1 DEF ActionInv, ConsumedWasStarted
  <2> QED BY <1>1, <2>1, <2>2 DEF Lasting
<1> QED BY <1>4, <1>5, <1>6, <1>7, InsertInserted, InsertTargets, InsertCycles DEF ActionInv

-----------------------------------------------------------------------------
(* Begins, the lease, a deletion and a crash.                              *)

\* The begin of a request keeps what ActionInv says.
LEMMA BeginActions ==
  ASSUME PairInv, ActionInv, NEW r \in Requests, Begins(r)
  PROVE  ActionInv'
<1> DEFINE n == request'[r]
<1>1. /\ messages' = messages /\ run' = run /\ conversation' = "open" /\ Positions' = Positions
      /\ \A x \in Requests : By(x)' = By(x) /\ (x # r => Stays(x))
      /\ By(r) = {} /\ request[r].at = "idle" /\ request[r].kind = "none"
      /\ request[r].outcome = "none" /\ request[r].target = 0
      /\ n.at \in {"load", "check"} /\ n.kind \in {"create", "turn", "start"} /\ n.outcome = "none"
  <2>1. /\ messages' = messages /\ run' = run /\ conversation' = "open" /\ request[r].at = "idle"
        /\ \A x \in Requests : x # r => Stays(x)
        /\ n.at \in {"load", "check"} /\ n.kind \in {"create", "turn", "start"} /\ n.outcome = "none"
    BY DEF Begins
  <2>2. By(r) = {}
    BY <2>1 DEF ActionInv, Inserted, Silent, Before
  <2>3. request[r].kind = "none" /\ request[r].outcome = "none" /\ request[r].target = 0
    BY <2>1, States DEF KindFits
  <2> QED BY <2>1, <2>2, <2>3 DEF By, Positions
<1>2. \A i \in Positions : messages[i].by \in Requests \ {r}
  BY <1>1, States DEF By, MessageRows
<1>3. Lasting
  BY <1>1, <1>2 DEF Lasting, Bootstraps, Stays
<1>4. conversation # "open" => Positions = {} /\ run = NoRun /\ \A x \in Requests : request[x].at = "idle"
  <2>1. conversation = "none" \/ conversation = "open"
    BY DEF Begins
  <2> QED BY <2>1 DEF PairInv, LockCounts, Positions
<1>5. Inserted' /\ AllSeen'
  <2>1. ASSUME NEW x \in Requests
        PROVE  SeenFits(request'[x]) /\ (Silent(request'[x]) => By(x) = {})
               /\ (Bootstraps(x)' => \A i, j \in By(x) : i = j)
    <3>1. CASE x = r
      BY <1>1, <3>1 DEF SeenFits
    <3>2. CASE x # r
      BY <1>1, <3>2 DEF ActionInv, AllSeen, Inserted, SeenFits, Silent, Stays, Bootstraps
    <3> QED BY <3>1, <3>2
  <2> QED BY <1>1, <2>1 DEF Inserted, AllSeen, ActionInv
<1>6. Targets'
  <2>1. ASSUME NEW x \in Requests, request'[x].kind = "start"
        PROVE  Targeted(x)'
    <3>1. CASE x # r
      <4>1. request[x].kind = "start" /\ Stays(x)
        BY <1>1, <2>1, <3>1 DEF Stays
      <4>2. conversation = "open"
        BY <1>4, <4>1, States DEF KindFits
      <4>3. Targeted(x) /\ request[x].target \in Positions
        BY <4>1, <4>2 DEF ActionInv, Targets, PairInv, Aims
      <4> QED BY <1>3, <4>1, <4>3, TargetedStays DEF Stays
    <3>2. CASE x = r
      <4>1. /\ n.at = "check" /\ n.target \in Positions /\ messages[n.target].action # "none"
            /\ n.seen = (IF messages[n.target].due THEN "expired" ELSE messages[n.target].action)
        BY <2>1, <3>2 DEF Begins
      <4>2. n.seen = "expired" => messages[n.target].late
        <5>1. messages[n.target].action \in ActionStates
          BY <4>1, States DEF MessageRows
        <5> QED BY <4>1, <5>1 DEF ActionInv, Inserted, ActionStates
      <4> QED BY <1>1, <3>2, <4>1, <4>2 DEF Targeted
    <3> QED BY <3>1, <3>2
  <2> QED BY <2>1 DEF Targets
<1>7. CyclesReached'
  <2>1. \A k : Reached(k) => ReachedNext(k)
    BY <1>3, ReachedStays
  <2>2. \A i \in Positions : ReachedNext(messages[i].cycle)
    BY <1>4, <2>1 DEF ActionInv, CyclesReached
  <2>3. run # NoRun => ReachedNext(run.cycle)
    BY <1>4, <2>1 DEF ActionInv, CyclesReached
  <2>4. ASSUME NEW x \in Requests
        PROVE  KnowsNext(request'[x])
    <3>1. CASE x = r
      BY <1>1, <3>1 DEF KnowsNext, Told
    <3>2. CASE x # r
      <4>1. CASE conversation = "open"
        BY <1>1, <2>1, <3>2, <4>1 DEF ActionInv, CyclesReached, Knows, KnowsNext, Stays
      <4>2. CASE conversation # "open"
        BY <1>1, <1>4, <3>2, <4>2 DEF KnowsNext, Stays, Told
      <4> QED BY <4>1, <4>2
    <3> QED BY <3>1, <3>2
  <2> QED BY <1>1, <2>2, <2>3, <2>4, KnowsPrimed DEF CyclesReached, Reached, ReachedNext, Bootstraps
<1>8. \A x \in Requests : /\ Claimant(x)' <=> Claimant(x)
                          /\ Claimant(x) => x # r
  <2>1. ASSUME NEW x \in Requests
        PROVE  (Claimant(x)' <=> Claimant(x)) /\ (Claimant(x) => x # r)
    <3>1. CASE x = r
      BY <1>1, <3>1 DEF Claimant, Holding, Holds
    <3>2. CASE x # r
      BY <1>1, <3>2 DEF Claimant, Holding, Holds, Stays
    <3> QED BY <3>1, <3>2
  <2> QED BY <2>1
<1>9. OneClaimant'
  <2> SUFFICES ASSUME NEW x \in Requests, Claimant(x)', request'[x].target \in Positions,
                      ~messages[request'[x].target].late
               PROVE  /\ messages[request'[x].target].action \in {"executing", "consumed"}
                      /\ request'[x].outcome = "ok" => messages[request'[x].target].action = "consumed"
                      /\ \A s \in Requests :
                           Claimant(s)' /\ request'[s].target = request'[x].target => x = s
    BY <1>1 DEF OneClaimant
  <2>1. \A s \in Requests : Claimant(s)' =>
          /\ Claimant(s) /\ request'[s].target = request[s].target
          /\ request'[s].outcome = request[s].outcome
    BY <1>1, <1>8 DEF Stays
  <2> QED BY <2>1 DEF ActionInv, OneClaimant
<1>10. ExecutingIsHeld'
  <2>1. ASSUME NEW i \in Positions, messages[i].action = "executing"
        PROVE  \E x \in Requests : request'[x].target = i
                 /\ (Holds(request'[x]) \/ request'[x].outcome = "broken")
    <3>1. PICK x \in Requests : request[x].target = i /\ (Holds(request[x]) \/ request[x].outcome = "broken")
      BY <2>1 DEF ActionInv, ExecutingIsHeld, Holding
    <3>2. x # r
      BY <1>1, <3>1 DEF Holds
    <3> QED BY <1>1, <3>1, <3>2 DEF Stays, Holds
  <2> QED BY <1>1, <2>1 DEF ExecutingIsHeld, Holding
<1>11. StartedOncePerLease'
  <2> SUFFICES ASSUME NEW i \in Positions, NEW j \in Positions, NEW x \in Requests, NEW y \in Requests,
                      i < j, messages[i].by = x, messages[j].by = y,
                      request'[x].kind = "start", request'[y].kind = "start",
                      request'[x].target = request'[y].target
               PROVE  \/ request'[x].outcome \in {"failed", "broken"} \/ request'[x].at = "restore"
                      \/ messages[request'[x].target].late
    BY <1>1 DEF StartedOncePerLease, Greets
  <2>1. Stays(x) /\ Stays(y)
    BY <1>1, <1>2
  <2>2. /\ request'[x].kind = request[x].kind /\ request'[y].kind = request[y].kind
        /\ request'[x].target = request[x].target /\ request'[y].target = request[y].target
        /\ request'[x].outcome = request[x].outcome /\ request'[x].at = request[x].at
    BY <2>1 DEF Stays
  <2>3. \/ request[x].outcome \in {"failed", "broken"} \/ request[x].at = "restore"
        \/ messages[request[x].target].late
    BY <2>2 DEF ActionInv, StartedOncePerLease, Greets, Bootstraps
  <2> QED BY <2>2, <2>3
<1>12. ConsumedWasStarted'
  <2>1. ASSUME NEW i \in Positions, messages[i].action = "consumed"
        PROVE  \/ \E j \in Positions : /\ messages[j].cycle = messages[i].cycle + 1
                                       /\ request'[messages[j].by].kind \in {"create", "start"}
               \/ \E x \in Requests : request'[x].target = i /\ request'[x].lost
    <3>1. \/ \E j \in Positions : messages[j].cycle = messages[i].cycle + 1 /\ Bootstraps(messages[j].by)
          \/ \E x \in Requests : request[x].target = i /\ request[x].lost
      BY <2>1 DEF ActionInv, ConsumedWasStarted
    <3>2. \A x \in Requests : request[x].target = i => x # r
      BY <1>1 DEF Positions
    <3>3. \A j \in Positions : Bootstraps(messages[j].by) =>
            request'[messages[j].by].kind \in {"create", "start"}
      BY <1>3 DEF Lasting
    <3> QED BY <1>1, <3>1, <3>2, <3>3 DEF Stays
  <2> QED BY <1>1, <2>1 DEF ConsumedWasStarted, Bootstraps
<1> QED BY <1>5, <1>6, <1>7, <1>9, <1>10, <1>11, <1>12 DEF ActionInv

\* A lease that runs out allows a second claimant, and takes nothing else.
LEMMA LeaseActions ==
  ASSUME PairInv, ActionInv, NEW m, Expires(m)
  PROVE  ActionInv'
<1>1. /\ Positions' = Positions /\ request' = request /\ run' = run /\ conversation' = conversation
      /\ \A i \in Positions : LET old == messages[i] new == messages'[i] IN
           /\ new.by = old.by /\ new.cycle = old.cycle /\ new.action = old.action
           /\ old.late => new.late
           /\ new.late \/ ~new.due
  <2>1. messages[m] \in MessageRows /\ m \in Positions /\ Positions' = Positions
    BY Rowed DEF Expires, SameMessages, Positions
  <2>2. \A i \in Positions : messages[i].late \/ ~messages[i].due
    BY DEF ActionInv, Inserted
  <2> QED BY ZenonT(60), <2>1, <2>2 DEF Expires, SameMessages, MessageRows
<1>2. \A x \in Requests : By(x)' = By(x) /\ Claimant(x)' = Claimant(x)
  BY <1>1 DEF By, Claimant, Holding
<1>3. \A i \in Positions : messages[i].by \in Requests
  BY Rowed
<1>4. Lasting
  BY <1>1, <1>3 DEF Lasting, Bootstraps
<1>5. Inserted' /\ AllSeen'
  BY <1>1, <1>2 DEF ActionInv, Inserted, AllSeen, Bootstraps
<1>6. Targets'
  <2>1. ASSUME conversation = "open", NEW x \in Requests, request[x].kind = "start"
        PROVE  Targeted(x)'
    BY <1>1, <1>4, <2>1, TargetedStays DEF ActionInv, Targets, PairInv, Aims
  <2> QED BY <1>1, <2>1 DEF Targets
<1>7. CyclesReached'
  <2>1. \A k : Reached(k) => ReachedNext(k)
    BY <1>4, ReachedStays
  <2>2. ASSUME conversation = "open"
        PROVE  /\ run # NoRun => ReachedNext(run.cycle)
               /\ \A i \in Positions : ReachedNext(messages'[i].cycle)
               /\ \A x \in Requests : KnowsNext(request[x])
    BY <1>1, <2>1, <2>2 DEF ActionInv, CyclesReached, Knows, KnowsNext
  <2> QED BY <1>1, <2>2, KnowsPrimed DEF CyclesReached, Reached, ReachedNext, Bootstraps
<1>8. OneClaimant'
  BY <1>1, <1>2 DEF ActionInv, OneClaimant
<1>9. ExecutingIsHeld'
  BY <1>1 DEF ActionInv, ExecutingIsHeld, Holding
<1>10. StartedOncePerLease'
  <2> SUFFICES ASSUME NEW i \in Positions, NEW j \in Positions, NEW x \in Requests, NEW y \in Requests,
                      i < j, messages[i].by = x, messages[j].by = y,
                      request[x].kind = "start", request[y].kind = "start",
                      request[x].target = request[y].target
               PROVE  \/ request[x].outcome \in {"failed", "broken"} \/ request[x].at = "restore"
                      \/ messages'[request[x].target].late
    BY <1>1 DEF StartedOncePerLease, Greets
  <2>1. request[x].target \in Positions
    BY DEF PairInv, Aims, LockCounts, Positions
  <2> QED BY <1>1, <2>1 DEF ActionInv, StartedOncePerLease, Greets, Bootstraps
<1>11. ConsumedWasStarted'
  <2> SUFFICES ASSUME NEW i \in Positions, messages[i].action = "consumed"
               PROVE  \/ \E j \in Positions : /\ messages'[j].cycle = messages'[i].cycle + 1
                                              /\ Bootstraps(messages[j].by)
                      \/ \E x \in Requests : request[x].target = i /\ request[x].lost
    BY <1>1 DEF ConsumedWasStarted, Bootstraps
  <2>1. \/ \E j \in Positions : messages[j].cycle = messages[i].cycle + 1 /\ Bootstraps(messages[j].by)
        \/ \E x \in Requests : request[x].target = i /\ request[x].lost
    BY DEF ActionInv, ConsumedWasStarted
  <2> QED BY <1>1, <2>1
<1> QED BY <1>5, <1>6, <1>7, <1>8, <1>9, <1>10, <1>11 DEF ActionInv

\* Without messages there is no action.
LEMMA DeleteActions ==
  ASSUME PairInv, ActionInv, DeleteSession
  PROVE  ActionInv'
<1>1. messages' = << >> /\ conversation' = "deleted" /\ request' = request
  BY DEF DeleteSession
<1>2. Positions' = {}
  BY <1>1 DEF Positions
<1>3. \A x \in Requests : By(x)' = {}
  BY <1>2 DEF By
<1>4. AllSeen' /\ Targets' /\ CyclesReached'
  BY <1>1 DEF ActionInv, AllSeen, Targets, CyclesReached
<1>5. Inserted' /\ OneClaimant' /\ ExecutingIsHeld'
  BY <1>2, <1>3 DEF Inserted, OneClaimant, ExecutingIsHeld
<1>6. StartedOncePerLease' /\ ConsumedWasStarted'
  BY <1>2 DEF StartedOncePerLease, ConsumedWasStarted
<1> QED BY <1>4, <1>5, <1>6 DEF ActionInv

\* An action whose claimant is lost stays executing, held by nobody.
LEMMA CrashActions ==
  ASSUME PairInv, ActionInv, Crash
  PROVE  ActionInv'
<1>1. /\ messages' = messages /\ run' = run /\ conversation' = conversation
      /\ Positions' = Positions /\ \A x \in Requests : By(x)' = By(x)
      /\ \A x \in Requests : LET o == request[x] n == request'[x] IN
           /\ n.kind = o.kind /\ n.target = o.target /\ n.lost = o.lost
           /\ \/ n = o /\ ~AtWork(x)
              \/ AtWork(x) /\ n.at = "done" /\ n.outcome = "broken"
      /\ \A x \in Requests : KindFits(request[x]) /\ KindFits(request'[x])
  <2>1. \A x \in Requests : KindFits(request[x]) /\ KindFits(request'[x])
    BY CrashPairs DEF PairInv, KindsFit
  <2> QED BY <2>1, CrashShape DEF By, Positions
<1>2. \A i \in Positions : messages[i].by \in Requests
  BY Rowed
<1>3. Lasting
  BY <1>1, <1>2 DEF Lasting, Bootstraps
<1>4. Inserted' /\ AllSeen'
  <2>1. ASSUME NEW x \in Requests
        PROVE  SeenFits(request'[x]) /\ (Silent(request'[x]) => By(x) = {})
    <3>1. CASE request'[x] = request[x]
      BY <3>1 DEF ActionInv, Inserted, AllSeen
    <3>2. CASE request'[x].at = "done" /\ request'[x].outcome = "broken"
      BY <3>2 DEF SeenFits, Silent, Before
    <3> QED BY <1>1, <3>1, <3>2
  <2> QED BY <1>1, <2>1 DEF ActionInv, Inserted, AllSeen, Bootstraps
<1>5. Targets'
  <2>1. ASSUME conversation = "open", NEW x \in Requests, request[x].kind = "start"
        PROVE  Targeted(x)'
    <3>1. Targeted(x) /\ request[x].target \in Positions
      BY <2>1 DEF ActionInv, Targets, PairInv, Aims
    <3>2. CASE request'[x] = request[x]
      BY <1>3, <3>1, <3>2, TargetedStays
    <3>3. CASE request'[x].at = "done" /\ AtWork(x)
      <4>1. request'[x].seen = "none"
        <5>1. request'[x] = Ended(request[x], "broken") /\ request[x] \in RequestStates
          BY <3>3, States DEF Crash
        <5> QED BY <5>1, EndedIs DEF Outcomes
      <4> QED BY <1>1, <3>1, <3>3, <4>1 DEF Targeted
    <3> QED BY <1>1, <3>2, <3>3
  <2> QED BY <1>1, <2>1 DEF Targets
<1>6. CyclesReached'
  <2>1. \A k : Reached(k) => ReachedNext(k)
    BY <1>3, ReachedStays
  <2>2. ASSUME conversation = "open"
        PROVE  /\ run # NoRun => ReachedNext(run.cycle)
               /\ \A i \in Positions : ReachedNext(messages[i].cycle)
               /\ \A x \in Requests : KnowsNext(request'[x])
    <3>1. ASSUME NEW x \in Requests
          PROVE  KnowsNext(request'[x])
      <4>1. CASE request'[x] = request[x]
        BY <2>1, <2>2, <4>1 DEF ActionInv, CyclesReached, Knows, KnowsNext
      <4>2. CASE request'[x].at = "done"
        BY <4>2 DEF KnowsNext, Told
      <4> QED BY <1>1, <4>1, <4>2
    <3> QED BY <2>1, <2>2, <3>1 DEF ActionInv, CyclesReached
  <2> QED BY <1>1, <2>2, KnowsPrimed DEF CyclesReached, Reached, ReachedNext, Bootstraps
<1>7. \A x \in Requests : Claimant(x)' => Claimant(x) /\ request'[x] = request[x]
  BY <1>1 DEF Claimant, Holding, Holds
<1>8. OneClaimant'
  <2> SUFFICES ASSUME NEW x \in Requests, Claimant(x)', request'[x].target \in Positions,
                      ~messages[request'[x].target].late
               PROVE  /\ messages[request'[x].target].action \in {"executing", "consumed"}
                      /\ request'[x].outcome = "ok" => messages[request'[x].target].action = "consumed"
                      /\ \A s \in Requests :
                           Claimant(s)' /\ request'[s].target = request'[x].target => x = s
    BY <1>1 DEF OneClaimant
  <2> QED BY <1>7 DEF ActionInv, OneClaimant
<1>9. ExecutingIsHeld'
  <2>1. ASSUME NEW i \in Positions, messages[i].action = "executing"
        PROVE  \E x \in Requests : request'[x].target = i
                 /\ (Holds(request'[x]) \/ request'[x].outcome = "broken")
    <3>1. PICK x \in Requests : request[x].target = i /\ (Holds(request[x]) \/ request[x].outcome = "broken")
      BY <2>1 DEF ActionInv, ExecutingIsHeld, Holding
    <3> QED BY <1>1, <3>1
  <2> QED BY <1>1, <2>1 DEF ExecutingIsHeld, Holding
<1>10. StartedOncePerLease'
  <2> SUFFICES ASSUME NEW i \in Positions, NEW j \in Positions, NEW x \in Requests, NEW y \in Requests,
                      i < j, messages[i].by = x, messages[j].by = y,
                      request[x].kind = "start", request[y].kind = "start",
                      request[x].target = request[y].target
               PROVE  \/ request'[x].outcome \in {"failed", "broken"} \/ request'[x].at = "restore"
                      \/ messages[request[x].target].late
    BY <1>1 DEF StartedOncePerLease, Greets
  <2>1. \/ request[x].outcome \in {"failed", "broken"} \/ request[x].at = "restore"
        \/ messages[request[x].target].late
    BY DEF ActionInv, StartedOncePerLease, Greets, Bootstraps
  <2> QED BY <1>1, <2>1
<1>11. ConsumedWasStarted'
  BY <1>1, <1>2 DEF ActionInv, ConsumedWasStarted, Bootstraps
<1> QED BY <1>4, <1>5, <1>6, <1>8, <1>9, <1>10, <1>11 DEF ActionInv

\* Without messages there is no action.
LEMMA InitActions ==
  ASSUME Init
  PROVE  ActionInv
<1>1. /\ Positions = {} /\ conversation = "none"
      /\ \A r \in Requests : request[r].kind = "none" /\ request[r].at = "idle"
  BY DEF Init, Positions, Unused
<1> QED BY <1>1
   DEF ActionInv, Inserted, AllSeen, SeenFits, Targets, CyclesReached, OneClaimant, ExecutingIsHeld,
       StartedOncePerLease, ConsumedWasStarted, By, Silent

-----------------------------------------------------------------------------
(* All steps.                                                              *)

\* What a step is.
LEMMA NextIs ==
  ASSUME PairInv, Next
  PROVE  \/ \E r \in Requests : \E q : Does(r, q)
         \/ \E r \in Requests : \E q : Inserts(r, q)
         \/ \E r \in Requests : Begins(r)
         \/ \E m : Expires(m)
         \/ DeleteSession \/ Crash
<1>1. CASE \E r \in Requests : Step(r) \/ LoseSettings(r) \/ Fail(r)
  BY <1>1, Steps DEF Does
<1>2. CASE \E r \in Requests : CreateSession(r) \/ SendMessage(r) \/ StartCycle(r)
  BY <1>2, BeginShapes
<1>3. CASE \E m \in 1..Len(messages) : LeaseRunsOut(m)
  BY <1>3, LeaseShape
<1> QED BY <1>1, <1>2, <1>3 DEF Next

\* Every step keeps what PairInv says.
LEMMA PairStep ==
  ASSUME PairInv, Next
  PROVE  PairInv'
<1>1. ASSUME NEW r \in Requests, NEW q, Does(r, q)
      PROVE  PairInv'
  BY <1>1, QuietPairs, ActPairs, UpsertPairs DEF Does
<1> QED BY <1>1, NextIs, InsertPairs, BeginPairs, LeasePairs, DeletePairs, CrashPairs

\* Every step keeps what ActionInv says.
LEMMA ActionStep ==
  ASSUME PairInv, ActionInv, Next
  PROVE  ActionInv'
BY NextIs, DoesActions, InsertActions, BeginActions, LeaseActions, DeleteActions, CrashActions

\* So does a step that changes nothing.
LEMMA Stutter ==
  ASSUME UNCHANGED vars
  PROVE  (PairInv => PairInv') /\ (ActionInv => ActionInv')
<1>1. PairInv => PairInv'
  BY DEF vars, PairInv, TypeOK, KindsFit, LockCounts, Pairs, Aims, Positions
<1>2. ActionInv => ActionInv'
  BY DEF vars, ActionInv, Inserted, AllSeen, Targets, Targeted, CyclesReached, Knows, OneClaimant,
         ExecutingIsHeld, StartedOncePerLease, ConsumedWasStarted, By, Reached, Claimant, Holding,
         Bootstraps, Greets, Positions
<1> QED BY <1>1, <1>2

-----------------------------------------------------------------------------
(* The parts of the invariant about the run.                               *)

\* A request that is alone works on the run it has read.
AloneFits(q) ==
  ~q.lost /\ conversation = "open" =>
    /\ q.kind = "turn" /\ q.at \in Told => q.cycle = CycleOf(run) /\ StateOf(run) = "active"
    /\ q.kind = "create" => run = NoRun
    /\ q.kind = "start" /\ q.at \in Told \cup {"claim"} =>
         run # NoRun /\ q.cycle = run.cycle + 1 /\ run.state = "active"
AloneInv ==
  \A r \in Requests :
    /\ request[r].at = "idle" => request[r].alone /\ ~request[r].lost
    /\ request[r].alone /\ AtWork(r) =>
         AloneFits(request[r]) /\ \A s \in Requests \ {r} : ~AtWork(s)

\* What becomes of the run when the last messages are those of a request alone.
Follows(q, last) ==
  ~q.lost =>
    /\ q.at \in {"reread", "upsert"} => last.status = q.status /\ last.cycle = q.cycle
    /\ q.at = "consume" \/ q.outcome = "ok" =>
         /\ run # NoRun /\ run.by = last.by
         /\ run.status = last.status /\ run.cycle = last.cycle
         /\ run.state = "closed" <=>
              q.kind = "turn" /\ mode = "one_time" /\ last.status = "completed"
LastInv ==
  \A r \in Requests :
    messages # << >> /\ messages[Len(messages)].by = r /\ request[r].alone =>
      /\ Follows(request[r], messages[Len(messages)])
      /\ \A s \in Requests \ {r} : request[s].at \notin {"reread", "upsert"}

\* The boundary of a cycle, as long as requests never overlap.
Bounded(boundary, cycle) == \A i \in Positions : i > boundary => messages[i].cycle >= cycle
BoundaryInv ==
  Undisturbed =>
    /\ run # NoRun => Bounded(run.boundary, run.cycle)
    /\ \A r \in Requests : request[r].at = "upsert" /\ conversation = "open" =>
         IF Bootstraps(r) THEN Bounded(request[r].boundary, request[r].cycle)
                          ELSE request[r].boundary = BoundaryOf(run)

RunInv == AloneInv /\ LastInv /\ BoundaryInv

\* A step of a request, be it an insertion or not.
GoesOn(r, q) == Does(r, q) \/ Inserts(r, q)

\* What a step of a request leaves alone.
LEMMA GoesIs ==
  ASSUME PairInv, ActionInv, NEW r \in Requests, NEW q, GoesOn(r, q)
  PROVE  LET o == request[r] IN
         /\ request'[r] = q /\ \A x \in Requests : x # r => request'[x] = request[x]
         /\ AtWork(r) /\ KindFits(o) /\ KindFits(q) /\ q.kind = o.kind /\ q.alone = o.alone
         /\ (o.lost => q.lost) /\ q.at # "idle" /\ conversation' = conversation /\ mode' = mode
         /\ o.kind \in {"create", "turn", "start"}
         /\ (q.at # "done" /\ ~Upserts(r, q) => run' = run)
<1>1. /\ Own(r, q) /\ conversation' = conversation /\ mode' = mode
      /\ request'[r] = q /\ \A x \in Requests : x # r => request'[x] = request[x]
  <2>1. CASE Does(r, q)
    BY <2>1, DoesIs
  <2>2. CASE Inserts(r, q)
    BY <2>2, InsertIs DEF Inserts
  <2> QED BY <2>1, <2>2 DEF GoesOn
<1>2. ~Upserts(r, q) => run' = run
  BY DEF GoesOn, Does, Quiet, Acts, Inserts
<1>3. KindFits(request[r]) /\ request[r] \in RequestStates
  BY States
<1> QED BY <1>1, <1>2, <1>3 DEF Own, AtWork, KindFits, RequestStates, Kinds

\* Of a request alone, at work on the run that is there.
LEMMA GoesAlone ==
  ASSUME PairInv, ActionInv, AloneInv, NEW r \in Requests, NEW q, GoesOn(r, q)
  PROVE  AloneInv'
<1> DEFINE o == request[r]
<1>1. /\ request'[r] = q /\ \A x \in Requests : x # r => request'[x] = request[x]
      /\ AtWork(r) /\ KindFits(o) /\ KindFits(q) /\ q.kind = o.kind /\ q.alone = o.alone
      /\ (o.lost => q.lost) /\ q.at # "idle" /\ conversation' = conversation
  BY GoesIs
<1>2. ASSUME NEW x \in Requests, x # r
      PROVE  ~(request[x].alone /\ AtWork(x))
  BY <1>1, <1>2 DEF AloneInv
<1>3. ASSUME q.alone, q.at # "done", ~q.lost, conversation = "open"
      PROVE  /\ q.kind = "turn" /\ q.at \in Told => q.cycle = CycleOf(run') /\ StateOf(run') = "active"
             /\ q.kind = "create" => run' = NoRun
             /\ q.kind = "start" /\ q.at \in Told \cup {"claim"} =>
                  run' # NoRun /\ q.cycle = run'.cycle + 1 /\ run'.state = "active"
  <2>1. AloneFits(o) /\ ~o.lost
    BY <1>1, <1>3 DEF AloneInv
  <2>2. CASE Quiet(r, q) /\ Loads(o, q)
    <3>1. run' = run /\ StateOf(run) \in {"active", "closed"}
      BY <2>2, States DEF Quiet
    <3> QED BY <1>1, <1>3, <2>1, <2>2, <3>1 DEF Loads, AloneFits
  <2>3. CASE Quiet(r, q) /\ Checks(o, q)
    <3>1. run' = run
      BY <2>3 DEF Quiet
    <3> QED BY <1>1, <1>3, <2>1, <2>3, <3>1 DEF Checks, AloneFits, Told
  <2>4. CASE Quiet(r, q) /\ Advances(o, q)
    <3>1. run' = run /\ q.cycle = o.cycle /\ o.at \in Told
      BY <1>1, <1>3, <2>1, <2>4 DEF Quiet, Advances, KindFits, Told
    <3> QED BY <1>1, <1>3, <2>1, <3>1 DEF AloneFits
  <2>5. CASE Quiet(r, q) /\ Gives(o, q)
    <3>1. run' = run /\ q.at \notin Told \cup {"claim"}
      BY <1>3, <2>5 DEF Quiet, Gives, Told
    <3> QED BY <1>1, <1>3, <2>1, <3>1 DEF AloneFits
  <2>6. CASE Acts(r, q)
    <3>1. run' = run /\ o.at = "claim" /\ q.cycle = o.cycle /\ o.kind = "start"
      BY <1>1, <1>3, <2>6 DEF Acts, Claims, Settles, Restores, KindFits
    <3> QED BY <1>1, <1>3, <2>1, <3>1 DEF AloneFits
  <2>7. CASE Upserts(r, q)
    <3>1. q.at = "consume" /\ q.kind = "start"
      BY <1>1, <1>3, <2>7 DEF Upserts
    <3> QED BY <3>1 DEF Told
  <2>8. CASE Inserts(r, q)
    <3>1. run' = run /\ o.at \in Told /\ q.cycle = o.cycle
      BY <2>8 DEF Inserts, Told
    <3> QED BY <1>1, <1>3, <2>1, <3>1 DEF AloneFits
  <2> QED BY <2>2, <2>3, <2>4, <2>5, <2>6, <2>7, <2>8 DEF GoesOn, Does, Hops
<1>4. q.alone /\ q.at # "done" => AloneFits(q)'
  BY <1>1, <1>3 DEF AloneFits, CycleOf, StateOf
<1>5. ASSUME NEW x \in Requests
      PROVE  /\ request'[x].at = "idle" => request'[x].alone /\ ~request'[x].lost
             /\ request'[x].alone /\ AtWork(x)' =>
                  AloneFits(request[x])' /\ \A s \in Requests \ {x} : ~AtWork(s)'
  <2>1. CASE x = r
    <3>1. q.alone => \A s \in Requests \ {r} : ~AtWork(s)
      BY <1>1 DEF AloneInv
    <3> QED BY <1>1, <1>4, <2>1, <3>1 DEF AtWork, AloneFits
  <2>2. CASE x # r
    BY <1>1, <1>2, <2>2 DEF AtWork, AloneInv
  <2> QED BY <2>1, <2>2
<1> QED BY <1>5 DEF AloneInv

\* Who writes the run writes what its own last message says.
LEMMA GoesLast ==
  ASSUME PairInv, ActionInv, AloneInv, LastInv, NEW x \in Requests, NEW q, Does(x, q)
  PROVE  LastInv'
<1> DEFINE o == request[x]
           n == Len(messages)
           last == messages[n]
<1>1. /\ request'[x] = q /\ \A y \in Requests : y # x => request'[y] = request[y]
      /\ AtWork(x) /\ KindFits(o) /\ KindFits(q) /\ q.kind = o.kind /\ q.alone = o.alone
      /\ (o.lost => q.lost) /\ mode' = mode /\ o.kind \in {"create", "turn", "start"}
  BY GoesIs DEF GoesOn
<1>2. /\ Len(messages') = n /\ n \in Nat /\ (messages' # << >> => messages # << >> /\ n \in Positions)
      /\ n \in Positions => /\ messages'[n].by = last.by /\ messages'[n].status = last.status
                            /\ messages'[n].cycle = last.cycle
  BY DoesIs, Rowed, EmptySeq DEF SameMessages, Positions, PairInv, TypeOK
<1>3. q.at \in {"reread", "upsert"} =>
        /\ o.at = "reread" /\ q.status = o.status /\ (~q.lost => q.cycle = o.cycle) /\ q.lost = o.lost
  <2>1. CASE Quiet(x, q) /\ Hops(o, q)
    BY <1>1, <2>1 DEF Hops, Loads, Checks, Advances, Gives, KindFits, Told
  <2>2. CASE Acts(x, q)
    BY <2>2 DEF Acts, Claims, Settles, Restores
  <2>3. CASE Upserts(x, q)
    BY <2>3 DEF Upserts
  <2> QED BY <2>1, <2>2, <2>3 DEF Does
<1> SUFFICES ASSUME NEW r \in Requests, messages' # << >>, messages'[n].by = r, request'[r].alone
             PROVE  /\ ~request'[r].lost =>
                         /\ request'[r].at \in {"reread", "upsert"} =>
                              last.status = request'[r].status /\ last.cycle = request'[r].cycle
                         /\ request'[r].at = "consume" \/ request'[r].outcome = "ok" =>
                              /\ run' # NoRun /\ run'.by = last.by
                              /\ run'.status = last.status /\ run'.cycle = last.cycle
                              /\ run'.state = "closed" <=>
                                   request'[r].kind = "turn" /\ mode = "one_time"
                                   /\ last.status = "completed"
                    /\ \A s \in Requests \ {r} : request'[s].at \notin {"reread", "upsert"}
  BY <1>1, <1>2 DEF LastInv, Follows
<1>4. /\ last.by = r /\ request[r].alone /\ Follows(request[r], last)
      /\ \A s \in Requests \ {r} : request[s].at \notin {"reread", "upsert"}
  BY <1>1, <1>2 DEF LastInv
<1>5. \A s \in Requests \ {r} : request'[s].at \notin {"reread", "upsert"}
  BY <1>1, <1>3, <1>4
<1>6. By(r) # {}
  BY <1>2, <1>4 DEF By
<1>7. CASE x # r
  <2>1. ~Upserts(x, q)
    BY <1>4, <1>7 DEF Upserts
  <2>2. run' = run
    BY <2>1 DEF Does, Quiet, Acts
  <2> QED BY <1>1, <1>4, <1>5, <1>7, <2>2 DEF Follows
<1>8. CASE x = r
  <2>1. ASSUME ~q.lost, q.at = "consume" \/ q.outcome = "ok"
        PROVE  /\ run' # NoRun /\ run'.by = last.by
               /\ run'.status = last.status /\ run'.cycle = last.cycle
               /\ run'.state = "closed" <=>
                    q.kind = "turn" /\ mode = "one_time" /\ last.status = "completed"
    <3>1. CASE Upserts(x, q)
      <4>1. last.status = o.status /\ last.cycle = o.cycle
        BY <1>1, <1>4, <1>8, <2>1, <3>1 DEF Follows, Upserts
      <4>2. SessionState(x) = "closed" <=>
              o.kind = "turn" /\ mode = "one_time" /\ o.status = "completed"
        BY <1>1, <2>1 DEF SessionState, Bootstraps, ModeOf
      <4>3. run' # NoRun
        BY <3>1, NoRunAssumption DEF Upserts
      <4> QED BY <1>1, <1>4, <1>8, <3>1, <4>1, <4>2, <4>3 DEF Upserts
    <3>2. CASE ~Upserts(x, q)
      <4>1. run' = run /\ ~Silent(o)
        BY <1>6, <1>8, <3>2 DEF Does, Quiet, Acts, ActionInv, Inserted
      <4>2. o.at = "consume" /\ ~o.lost
        <5>1. CASE Quiet(x, q) /\ Hops(o, q)
          BY <1>1, <2>1, <4>1, <5>1 DEF Hops, Loads, Checks, Advances, Gives, Silent, Before, KindFits
        <5>2. CASE Acts(x, q)
          BY <1>1, <2>1, <5>2 DEF Acts, Claims, Settles, Restores, KindFits
        <5> QED BY <3>2, <5>1, <5>2 DEF Does
      <4> QED BY <1>1, <1>4, <1>8, <4>1, <4>2 DEF Follows
    <3> QED BY <3>1, <3>2
  <2>2. ~q.lost /\ q.at \in {"reread", "upsert"} => last.status = q.status /\ last.cycle = q.cycle
    BY <1>1, <1>3, <1>4, <1>8 DEF Follows
  <2> QED BY <1>1, <1>5, <1>8, <2>1, <2>2
<1> QED BY <1>7, <1>8

\* Who has inserted the last messages still has to write the run.
LEMMA InsertLast ==
  ASSUME PairInv, ActionInv, AloneInv, LastInv, NEW x \in Requests, NEW q, Inserts(x, q)
  PROVE  LastInv'
<1> DEFINE o == request[x]
           n == Len(messages')
<1>1. /\ request'[x] = q /\ \A y \in Requests : y # x => request'[y] = request[y]
      /\ AtWork(x) /\ KindFits(o) /\ KindFits(q) /\ q.kind = o.kind /\ q.alone = o.alone
      /\ (o.lost => q.lost) /\ o.at = "insert"
  BY GoesIs DEF GoesOn, Inserts
<1>2. n \in Positions' \ Positions
  BY Rowed DEF Inserts, Positions
<1>3. /\ messages'[n].by = x /\ messages'[n].status = o.status
      /\ messages'[n].cycle = (IF o.cycle = 0 THEN 1 ELSE o.cycle)
      /\ q.status = o.status /\ q.cycle = o.cycle /\ q.lost = o.lost
      /\ q.at \in {"reread", "upsert"}
  BY <1>2 DEF Inserts
<1>4. ~q.lost => o.cycle # 0
  BY <1>1, <1>3 DEF KindFits, Told
<1>5. q.alone => \A s \in Requests \ {x} : request'[s].at \notin {"reread", "upsert"}
  BY <1>1 DEF AloneInv, AtWork
<1>6. /\ n = Len(messages') /\ q.at # "consume" /\ q.outcome # "ok"
      /\ ~q.lost => messages'[n].status = q.status /\ messages'[n].cycle = q.cycle
  BY <1>1, <1>3, <1>4 DEF KindFits
<1> HIDE DEF n, o
<1>7. \A r \in Requests : messages'[n].by = r /\ request'[r].alone =>
         /\ ~request'[r].lost =>
              /\ request'[r].at \in {"reread", "upsert"} =>
                   messages'[n].status = request'[r].status /\ messages'[n].cycle = request'[r].cycle
              /\ request'[r].at # "consume" /\ request'[r].outcome # "ok"
         /\ \A s \in Requests \ {r} : request'[s].at \notin {"reread", "upsert"}
  BY <1>1, <1>3, <1>5, <1>6
<1> QED BY <1>6, <1>7 DEF LastInv, Follows

\* The boundary that is written is that of the cycle that is written.
LEMMA DoesBounds ==
  ASSUME PairInv, ActionInv, AloneInv, BoundaryInv, NEW r \in Requests, NEW q, Does(r, q)
  PROVE  BoundaryInv'
<1> DEFINE o == request[r]
<1>1. /\ request'[r] = q /\ \A y \in Requests : y # r => request'[y] = request[y]
      /\ AtWork(r) /\ KindFits(o) /\ KindFits(q) /\ q.kind = o.kind /\ q.alone = o.alone
      /\ (o.lost => q.lost) /\ conversation' = conversation /\ o.kind \in {"create", "turn", "start"}
  BY GoesIs DEF GoesOn
<1>2. /\ Positions' = Positions
      /\ \A i \in Positions : messages'[i].cycle = messages[i].cycle
                              /\ messages[i].cycle \in Nat \ {0}
  <2>1. \A i \in Positions : messages[i].cycle \in Nat \ {0}
    BY Rowed DEF MessageRows
  <2> QED BY <2>1, DoesLasts DEF Lasting
<1> SUFFICES ASSUME Undisturbed'
             PROVE  /\ run' # NoRun => Bounded(run'.boundary, run'.cycle)
                    /\ \A x \in Requests : request'[x].at = "upsert" /\ conversation = "open" =>
                         IF request'[x].kind \in {"create", "start"}
                         THEN Bounded(request'[x].boundary, request'[x].cycle)
                         ELSE request'[x].boundary = BoundaryOf(run')
  BY <1>1, <1>2 DEF BoundaryInv, Bounded, Bootstraps, BoundaryOf
<1>3. Undisturbed /\ q.alone /\ ~q.lost
  BY <1>1 DEF Undisturbed
<1>4. /\ run # NoRun => Bounded(run.boundary, run.cycle)
      /\ \A x \in Requests : request[x].at = "upsert" /\ conversation = "open" =>
           IF Bootstraps(x) THEN Bounded(request[x].boundary, request[x].cycle)
                            ELSE request[x].boundary = BoundaryOf(run)
  BY <1>3 DEF BoundaryInv
<1>5. AloneFits(o) /\ ~o.lost /\ \A s \in Requests \ {r} : ~AtWork(s)
  BY <1>1, <1>3 DEF AloneInv
<1>6. CASE Upserts(r, q)
  <2>1. /\ run'.cycle = o.cycle /\ run'.boundary = o.boundary /\ o.at = "upsert"
        /\ q.at # "upsert" /\ conversation = "open"
    BY <1>6 DEF Upserts
  <2>2. Bounded(o.boundary, o.cycle)
    <3>1. CASE Bootstraps(r)
      BY <1>4, <2>1, <3>1
    <3>2. CASE ~Bootstraps(r)
      <4>1. o.boundary = BoundaryOf(run) /\ o.cycle = CycleOf(run)
        BY <1>1, <1>4, <1>5, <2>1, <3>2 DEF AloneFits, Bootstraps, Told
      <4>2. CASE run = NoRun
        BY <1>2, <4>1, <4>2 DEF BoundaryOf, CycleOf, Bounded
      <4>3. CASE run # NoRun
        BY <1>4, <4>1, <4>3 DEF BoundaryOf, CycleOf
      <4> QED BY <4>2, <4>3
    <3> QED BY <3>1, <3>2
  <2> QED BY <1>1, <1>5, <2>1, <2>2 DEF AtWork
<1>7. CASE ~Upserts(r, q)
  <2>1. run' = run
    BY <1>7 DEF Does, Quiet, Acts
  <2>2. q.at = "upsert" => q.kind = "turn" /\ q.boundary = BoundaryOf(run)
    <3>1. CASE Quiet(r, q) /\ Hops(o, q)
      BY <1>1, <3>1 DEF Hops, Loads, Checks, Advances, Gives, KindFits
    <3>2. CASE Acts(r, q)
      BY <3>2 DEF Acts, Claims, Settles, Restores
    <3> QED BY <1>7, <3>1, <3>2 DEF Does
  <2> QED BY <1>1, <1>4, <1>5, <2>1, <2>2 DEF AtWork
<1> QED BY <1>6, <1>7

\* Messages that are added are of the cycle of the run or of the next one.
LEMMA InsertBounds ==
  ASSUME PairInv, ActionInv, AloneInv, BoundaryInv, NEW r \in Requests, NEW q, Inserts(r, q)
  PROVE  BoundaryInv'
<1> DEFINE o == request[r]
<1>1. /\ request'[r] = q /\ \A y \in Requests : y # r => request'[y] = request[y]
      /\ AtWork(r) /\ KindFits(o) /\ KindFits(q) /\ q.kind = o.kind /\ q.alone = o.alone
      /\ (o.lost => q.lost) /\ conversation' = conversation /\ o.kind \in {"create", "turn", "start"}
      /\ o.at = "insert" /\ q.cycle = o.cycle /\ run' = run /\ conversation = "open"
      /\ q.at = "upsert" => o.kind # "turn" /\ q.boundary = Len(messages)
  <2>1. conversation = "open"
    BY InsertIs
  <2>2. /\ o.at = "insert" /\ q.cycle = o.cycle /\ run' = run
        /\ q.at = "upsert" => Bootstraps(r) /\ q.boundary = Len(messages)
    BY DEF Inserts
  <2> QED BY <2>1, <2>2, GoesIs DEF GoesOn, Bootstraps
<1> SUFFICES ASSUME Undisturbed'
             PROVE  /\ run # NoRun => \A i \in Positions' : i > run.boundary => messages'[i].cycle >= run.cycle
                    /\ \A x \in Requests : request'[x].at = "upsert" =>
                         /\ x = r
                         /\ \A i \in Positions' : i > q.boundary => messages'[i].cycle >= q.cycle
  BY <1>1 DEF BoundaryInv, Bounded, Bootstraps
<1>2. Undisturbed /\ q.alone /\ ~q.lost
  BY <1>1 DEF Undisturbed
<1>3. AloneFits(o) /\ ~o.lost /\ \A s \in Requests \ {r} : ~AtWork(s)
  BY <1>1, <1>2 DEF AloneInv
<1>4. o.cycle \in Nat \ {0} /\ run \in {NoRun} \cup RunRows
  BY <1>1, <1>2, <1>3, States DEF KindFits, Told, RequestStates
<1>5. /\ \A i \in Positions : messages'[i] = messages[i]
      /\ \A i \in Positions' \ Positions : messages'[i].cycle = o.cycle
  BY <1>4 DEF Inserts
<1>6. run # NoRun => o.cycle >= run.cycle /\ run.cycle \in Nat
  BY <1>1, <1>3, <1>4 DEF AloneFits, Told, CycleOf, RunRows
<1>7. run # NoRun => \A i \in Positions' : i > run.boundary => messages'[i].cycle >= run.cycle
  BY <1>2, <1>5, <1>6 DEF BoundaryInv, Bounded
<1>8. q.at = "upsert" => \A i \in Positions' : i > q.boundary => i \notin Positions
  BY <1>1, Rowed DEF Positions
<1>9. \A x \in Requests : request'[x].at = "upsert" => x = r
  BY <1>1, <1>3 DEF AtWork
<1> QED BY <1>1, <1>4, <1>5, <1>7, <1>8, <1>9

\* The begin of a request ends the solitude of those at work.
LEMMA BeginRun ==
  ASSUME PairInv, ActionInv, RunInv, NEW r \in Requests, Begins(r)
  PROVE  RunInv'
<1> DEFINE n == request'[r]
<1>1. /\ messages' = messages /\ run' = run /\ conversation' = "open" /\ Positions' = Positions
      /\ mode' = mode /\ request[r].at = "idle" /\ n.at \in {"load", "check"}
      /\ (n.alone => \A x \in Requests : ~AtWork(x))
      /\ (n.kind = "create" => conversation = "none")
      /\ \A x \in Requests : x # r => Stays(x)
  BY DEF Begins, Positions
<1>2. By(r) = {} /\ request[r].alone /\ ~request[r].lost
  BY <1>1 DEF ActionInv, Inserted, Silent, Before, RunInv, AloneInv
<1>3. \A x \in Requests : x # r =>
        /\ AtWork(x)' = AtWork(x) /\ request'[x].at = request[x].at
        /\ request'[x].alone => request'[x] = request[x] /\ ~AtWork(x)
        /\ request[x].at = "idle" => request'[x] = request[x]
  BY <1>1 DEF Stays, AtWork
<1>4. conversation = "none" => run = NoRun
  BY DEF PairInv, LockCounts
<1>5. AloneInv'
  <2>1. AloneFits(request[r])'
    BY <1>1, <1>4 DEF AloneFits, Told
  <2>2. ASSUME NEW x \in Requests
        PROVE  /\ request'[x].at = "idle" => request'[x].alone /\ ~request'[x].lost
               /\ request'[x].alone /\ AtWork(x)' =>
                    AloneFits(request[x])' /\ \A s \in Requests \ {x} : ~AtWork(s)'
    <3>1. CASE x = r
      <4>1. request'[r].alone => \A s \in Requests \ {r} : ~AtWork(s)'
        BY <1>1, <1>3
      <4>2. request'[r].at # "idle"
        BY <1>1
      <4> HIDE DEF n
      <4> QED BY <2>1, <3>1, <4>1, <4>2
    <3>2. CASE x # r
      BY <1>3, <3>2 DEF RunInv, AloneInv
    <3> QED BY <3>1, <3>2
  <2> QED BY <2>2 DEF AloneInv
<1>6. LastInv'
  <2> SUFFICES ASSUME NEW x \in Requests, messages # << >>, messages[Len(messages)].by = x,
                      request'[x].alone
               PROVE  /\ ~request'[x].lost =>
                           /\ request'[x].at \in {"reread", "upsert"} =>
                                /\ messages[Len(messages)].status = request'[x].status
                                /\ messages[Len(messages)].cycle = request'[x].cycle
                           /\ request'[x].at = "consume" \/ request'[x].outcome = "ok" =>
                                /\ run # NoRun /\ run.by = messages[Len(messages)].by
                                /\ run.status = messages[Len(messages)].status
                                /\ run.cycle = messages[Len(messages)].cycle
                                /\ run.state = "closed" <=>
                                     request'[x].kind = "turn" /\ mode = "one_time"
                                     /\ messages[Len(messages)].status = "completed"
                      /\ \A s \in Requests \ {x} : request'[s].at \notin {"reread", "upsert"}
    BY <1>1 DEF LastInv, Follows
  <2>1. Len(messages) \in Positions
    BY Rowed, EmptySeq DEF Positions, PairInv, TypeOK
  <2>2. x # r
    BY <1>2, <2>1 DEF By
  <2>3. request'[x] = request[x]
    BY <1>3, <2>2
  <2>4. Follows(request[x], messages[Len(messages)])
        /\ \A s \in Requests \ {x} : request[s].at \notin {"reread", "upsert"}
    BY <2>3 DEF RunInv, LastInv
  <2>5. \A s \in Requests \ {x} : request'[s].at \notin {"reread", "upsert"}
    BY <1>1, <1>3, <2>4
  <2> QED BY <2>3, <2>4, <2>5 DEF Follows
<1>7. BoundaryInv'
  <2> SUFFICES ASSUME Undisturbed'
               PROVE  /\ run # NoRun => Bounded(run.boundary, run.cycle)
                      /\ \A x \in Requests : request'[x].at # "upsert"
    BY <1>1 DEF BoundaryInv, Bounded
  <2>1. \A x \in Requests : x # r => request'[x] = request[x] /\ ~AtWork(x)
    BY <1>3 DEF Undisturbed
  <2>2. Undisturbed
    BY <1>2, <2>1 DEF Undisturbed
  <2> QED BY <1>1, <2>1, <2>2 DEF RunInv, BoundaryInv, AtWork
<1> QED BY <1>5, <1>6, <1>7 DEF RunInv

\* A lease says nothing of the run.
LEMMA LeaseRun ==
  ASSUME PairInv, RunInv, NEW m, Expires(m)
  PROVE  RunInv'
<1>1. /\ Positions' = Positions /\ Len(messages') = Len(messages) /\ request' = request
      /\ run' = run /\ conversation' = conversation /\ mode' = mode
      /\ \A i \in Positions : LET old == messages[i] new == messages'[i] IN
           new.by = old.by /\ new.cycle = old.cycle /\ new.status = old.status
  BY DEF Expires, SameMessages, Positions
<1>2. /\ messages' # << >> => messages # << >>
      /\ messages # << >> => Len(messages) \in Positions
  BY Rowed, EmptySeq DEF Positions, PairInv, TypeOK, Expires, SameMessages
<1>3. AloneInv'
  BY <1>1 DEF RunInv, AloneInv, AloneFits, AtWork
<1>4. LastInv'
  BY <1>1, <1>2 DEF RunInv, LastInv, Follows
<1>5. BoundaryInv'
  BY <1>1 DEF RunInv, BoundaryInv, Bounded, Undisturbed, Bootstraps
<1> QED BY <1>3, <1>4, <1>5 DEF RunInv

\* The run goes with the conversation.
LEMMA DeleteRun ==
  ASSUME RunInv, DeleteSession
  PROVE  RunInv'
<1>1. messages' = << >> /\ conversation' = "deleted" /\ request' = request /\ run' = NoRun
  BY DEF DeleteSession
<1> QED BY <1>1 DEF RunInv, AloneInv, AloneFits, AtWork, LastInv, BoundaryInv

\* After a crash nobody is at work.
LEMMA CrashRun ==
  ASSUME PairInv, RunInv, Crash
  PROVE  RunInv'
<1>1. /\ messages' = messages /\ run' = run /\ conversation' = conversation
      /\ Positions' = Positions /\ mode' = mode
      /\ \A x \in Requests : LET o == request[x] n == request'[x] IN
           /\ n.alone = o.alone /\ n.lost = o.lost
           /\ \/ n = o /\ ~AtWork(x)
              \/ AtWork(x) /\ n.at = "done" /\ n.outcome = "broken"
  BY CrashShape DEF Positions
<1>2. \A x \in Requests : ~AtWork(x)' /\ request'[x].at \notin {"reread", "upsert", "consume"}
  BY <1>1 DEF AtWork
<1>3. AloneInv'
  BY <1>1, <1>2 DEF RunInv, AloneInv
<1>4. LastInv'
  BY <1>1, <1>2 DEF RunInv, LastInv, Follows
<1>5. BoundaryInv'
  BY <1>1, <1>2 DEF RunInv, BoundaryInv, Bounded, Undisturbed
<1> QED BY <1>3, <1>4, <1>5 DEF RunInv

\* There is no run at first.
LEMMA InitRun ==
  ASSUME Init
  PROVE  RunInv
<1>1. /\ messages = << >> /\ run = NoRun
      /\ \A r \in Requests : request[r].at = "idle" /\ request[r].alone /\ ~request[r].lost
  BY DEF Init, Unused
<1> QED BY <1>1 DEF RunInv, AloneInv, AtWork, LastInv, BoundaryInv

-----------------------------------------------------------------------------
(* Theorems.                                                               *)

\* Every step keeps what RunInv says.
LEMMA RunStep ==
  ASSUME PairInv, ActionInv, RunInv, Next
  PROVE  RunInv'
<1>1. ASSUME NEW r \in Requests, NEW q, Does(r, q)
      PROVE  RunInv'
  BY <1>1, GoesAlone, GoesLast, DoesBounds DEF RunInv, GoesOn
<1>2. ASSUME NEW r \in Requests, NEW q, Inserts(r, q)
      PROVE  RunInv'
  BY <1>2, GoesAlone, InsertLast, InsertBounds DEF RunInv, GoesOn
<1> QED BY <1>1, <1>2, NextIs, BeginRun, LeaseRun, DeleteRun, CrashRun

\* So does a step that changes nothing.
LEMMA RunStutter ==
  ASSUME UNCHANGED vars
  PROVE  RunInv => RunInv'
BY DEF vars, RunInv, AloneInv, AloneFits, AtWork, LastInv, Follows, BoundaryInv, Bounded, Undisturbed,
       Bootstraps, Positions

\* Only a request that writes the run changes it into another one.
LEMMA RunMoves ==
  ASSUME PairInv, ActionInv, RunInv, Next, run # NoRun, run' # NoRun,
         request[run'.by].alone, ~request[run'.by].lost
  PROVE  ~(run'.cycle < run.cycle) /\ ~(run.state = "closed" /\ run'.state = "active")
<1>1. run \in RunRows
  BY DEF PairInv, TypeOK
<1>2. CASE run' = run
  BY <1>1, <1>2 DEF RunRows
<1>3. ASSUME NEW r \in Requests, NEW q, Upserts(r, q)
      PROVE  ~(run'.cycle < run.cycle) /\ ~(run.state = "closed" /\ run'.state = "active")
  <2>1. /\ run'.by = r /\ run'.cycle = request[r].cycle /\ request[r].at = "upsert"
        /\ conversation = "open"
    BY <1>3 DEF Upserts
  <2>2. AloneFits(request[r]) /\ request[r].alone /\ ~request[r].lost
    BY <2>1 DEF RunInv, AloneInv, AtWork
  <2>3. request[r].kind \in {"create", "turn", "start"}
    BY <2>1, States DEF KindFits, RequestStates, Kinds
  <2>4. run.state = "active" /\ run'.cycle >= run.cycle
    BY <1>1, <2>1, <2>2, <2>3 DEF AloneFits, Told, CycleOf, StateOf, RunRows
  <2>5. run.cycle \in Nat /\ run'.cycle \in Nat
    BY SMTT(30), <1>1, <1>3 DEF Upserts, RunRows
  <2> QED BY <2>4, <2>5
<1>4. run' = run \/ \E r \in Requests : \E q : Upserts(r, q)
  BY NextIs DEF Does, Quiet, Acts, Inserts, Begins, Expires, DeleteSession, Crash
<1> QED BY <1>2, <1>3, <1>4

\* Messages come in pairs, in the order of their indices, under the lock of the row.
THEOREM ConversationIsPaired == Spec => []MessagesInPairs
<1>1. Init => PairInv
  BY InitPairs
<1>2. PairInv /\ [Next]_vars => PairInv'
  BY PairStep, Stutter
<1>3. PairInv => MessagesInPairs
  BY DEF PairInv, Pairs, MessagesInPairs
<1> QED BY <1>1, <1>2, <1>3, PTL DEF Spec

\* An action starts its cycle once per lease, is consumed for a cycle, or given back.
THEOREM ActionsAreSettled == Spec => []ActionsAreUsedOnce
<1>1. Init => PairInv /\ ActionInv
  BY InitPairs, InitActions
<1>2. PairInv /\ ActionInv /\ [Next]_vars => PairInv' /\ ActionInv'
  BY PairStep, ActionStep, Stutter
<1>3. ActionInv => ActionsAreUsedOnce
  <2>1. ExecutingIsHeld => NoAbandonedAction
    BY DEF ExecutingIsHeld, NoAbandonedAction, Holding, Holds, AtWork
  <2> QED BY <2>1 DEF ActionInv, ActionsAreUsedOnce
<1> QED BY <1>1, <1>2, <1>3, PTL DEF Spec

\* A request that is alone and knows the settings moves the run only forward
\* (upsert_workflow_run after _build_execution_request or _start_workflow_cycle).
THEOREM RunIsMovedForward == Spec => RunAdvances
<1>1. Init => PairInv /\ ActionInv /\ RunInv
  BY InitPairs, InitActions, InitRun
<1>2. PairInv /\ ActionInv /\ RunInv /\ [Next]_vars => PairInv' /\ ActionInv' /\ RunInv'
  BY PairStep, ActionStep, RunStep, Stutter, RunStutter
<1>3. PairInv /\ ActionInv /\ RunInv /\ [Next]_vars =>
        [/\ run # NoRun /\ run' # NoRun
         /\ run'.cycle < run.cycle \/ (run.state = "closed" /\ run'.state = "active")
         => ~request[run'.by].alone \/ request[run'.by].lost]_vars
  BY RunMoves
<1> QED BY <1>1, <1>2, <1>3, PTL DEF Spec, RunAdvances

\* After a request that was alone, the run stands where the messages stand.
THEOREM RunStandsWithMessages == Spec => []RunFollowsMessages
<1>1. Init => PairInv /\ ActionInv /\ RunInv
  BY InitPairs, InitActions, InitRun
<1>2. PairInv /\ ActionInv /\ RunInv /\ [Next]_vars => PairInv' /\ ActionInv' /\ RunInv'
  BY PairStep, ActionStep, RunStep, Stutter, RunStutter
<1>3. PairInv /\ RunInv => RunFollowsMessages
  <2> SUFFICES ASSUME PairInv, RunInv, messages # << >>
               PROVE  LET last == messages[Len(messages)] r == last.by IN
                      /\ (request[r].outcome = "ok" /\ request[r].alone /\ ~request[r].lost) =>
                           /\ run # NoRun /\ run.by = r
                           /\ run.status = last.status /\ run.cycle = last.cycle
                           /\ run.state = "closed" <=>
                                request[r].kind = "turn" /\ mode = "one_time" /\ last.status = "completed"
                      /\ (Undisturbed /\ run # NoRun) =>
                           \A i \in Positions : i > run.boundary => messages[i].cycle >= run.cycle
    BY DEF RunFollowsMessages
  <2>1. messages[Len(messages)].by \in Requests
    BY Rowed, EmptySeq DEF Positions, PairInv, TypeOK
  <2>2. Undisturbed /\ run # NoRun =>
          \A i \in Positions : i > run.boundary => messages[i].cycle >= run.cycle
    BY DEF RunInv, BoundaryInv, Bounded
  <2> QED BY <2>1, <2>2 DEF RunInv, LastInv, Follows
<1> QED BY <1>1, <1>2, <1>3, PTL DEF Spec

-----------------------------------------------------------------------------
(* AnswerStream: the inductive invariant.                                  *)

\* A token names its attempt and its place.
Tokens == Nat \X Nat
Texts == Seq(Tokens)
\* What the wire, the line and the queue carry.
EventKinds == {"refused", "absent", "unreachable", "answer", "fault", "reset", "open", "delta",
          "done", "missing", "end", "complete", "error"}
Events == [kind : EventKinds, text : Texts]

\* The rows of the state.
SetupRows ==
  [route : Routes, gateway : BOOLEAN, models : Nat \ {0}, streamed : BOOLEAN, alias : BOOLEAN,
   kept : BOOLEAN, faults : Nat]
ModelRows ==
  [attempt : Nat, sent : 0..Length, at : {"idle", "asked", "sending", "over"}, quiet : BOOLEAN]
GatewayRows == [at : {"idle", "asked", "trying", "over"}, left : Nat, parts : Texts]
CallerRows ==
  [at : {"idle", "waiting", "over"}, asks : 0..2, tries : 0..2, head : BOOLEAN, parts : Texts,
   warned : BOOLEAN]
RelayRows ==
  [at : {"starting", "reading", "saving", "telling", "over"}, parts : Texts, text : Texts]
PageRows ==
  [shown : Texts, text : Texts, ended : {"open", "complete", "error", "broken", "left"}]

\* Typing, finer than StreamTypeOK: of the texts and the events, too.
StreamTyped ==
  /\ setup \in SetupRows /\ model \in ModelRows
  /\ wire \in Seq(Events) /\ line \in Seq(Events) /\ queue \in Seq(Events)
  /\ gateway \in GatewayRows /\ caller \in CallerRows /\ relay \in RelayRows
  /\ page \in PageRows /\ status \in {"running", "done", "failed"}

\* The events that belong to an answer that is coming.
PartKinds == {"open", "delta"}

\* An open event stands first.
Lead(s) == IF s # <<>> /\ s[1].kind = "open" THEN 1 ELSE 0
\* Nothing has ended yet.
OnlyParts(s) == \A j \in 1..Len(s) : s[j].kind \in PartKinds

\* What was read begins the text.
IsBeginning(read, text) ==
  Len(read) <= Len(text) /\ \A i \in 1..Len(read) : read[i] = text[i]

\* What text has after its first n tokens.
Carries(s, n, text) ==
  \A j \in 1..Len(s) :
    /\ s[j].kind = "open" => j = 1 /\ s[j].text = Nothing
    /\ s[j].kind = "delta" => /\ n + j - Lead(s) \in 1..Len(text)
                              /\ s[j].text = <<text[n + j - Lead(s)]>>
    /\ s[j].kind \in {"done", "complete"} => n + j - 1 - Lead(s) = Len(text)
    /\ s[j].kind = "complete" => s[j].text = text
    /\ s[j].kind \in {"delta", "done", "complete"} =>
         \A k \in 1..(j - 1) : s[k].kind \in PartKinds
    /\ s[j].kind # "answer"

\* What one side has read, what is on its way to it, and the text of the other side:
\* as long as that is open, the first two make up the third.
Link(read, s, text, open) ==
  /\ IsBeginning(read, text)
  /\ Carries(s, Len(read), text)
  /\ open => OnlyParts(s) /\ Len(read) + Len(s) - Lead(s) = Len(text)

\* What the reader of the model has got, and whether a text is of the attempt
\* under way.
Taken == IF setup.gateway THEN gateway.parts ELSE caller.parts
Attempted(text) == \A i \in 1..Len(text) : text[i] = <<model.attempt, i>>

\* What was got is of the attempt under way; a body brings no parts.
ModelInv ==
  /\ Attempted(gateway.parts) /\ Attempted(caller.parts)
  /\ model.at = "asked" => model.sent = 0
  /\ model.at = "sending" => setup.streamed
  /\ ~setup.gateway => gateway.at = "idle" /\ gateway.parts = Nothing
  /\ ~setup.streamed => /\ caller.parts = Nothing /\ page.shown = Nothing
                        /\ \A j \in 1..Len(wire) : wire[j].kind \notin PartKinds
                        /\ \A j \in 1..Len(line) : line[j].kind \notin PartKinds

\* The model and its reader: what ends a stream was declared finished, and that the
\* model is not there is told before anything else.
WireInv ==
  setup.streamed /\ ModelIsRead =>
    /\ Link(Taken, wire, Sent, model.at \in {"asked", "sending"})
    /\ model.at = "asked" => wire = Nothing
    /\ \A j \in 1..Len(wire) :
         /\ wire[j].kind = "done" => Sent \in whole
         /\ wire[j].kind = "absent" => Len(wire) = 1 /\ Taken = Nothing
         /\ wire[j].kind # "complete"

\* The gateway and the caller.
LineInv ==
  setup.gateway =>
    /\ gateway.at = "asked" => line = Nothing /\ caller.parts = Nothing
    /\ gateway.at = "trying" => IsBeginning(caller.parts, gateway.parts)
    /\ setup.streamed /\ caller.at = "waiting" =>
         /\ Link(caller.parts, line, gateway.parts, gateway.at = "trying") \/ gateway.at = "asked"
         /\ \A j \in 1..Len(line) :
              line[j].kind = "absent" => Len(line) = 1 /\ caller.parts = Nothing

\* The caller and the request, which shows what it reads.
QueueInv ==
  /\ relay.parts = page.shown
  /\ IsBeginning(page.shown, caller.parts)
  /\ setup.streamed /\ relay.at = "reading" =>
       /\ Link(page.shown, queue, caller.parts, caller.at = "waiting")
       /\ \A j \in 1..Len(queue) :
            /\ queue[j].kind # "open"
            /\ queue[j].kind = "complete" /\ ~setup.gateway => caller.parts \in whole

\* Before a request has begun nobody was asked; the caller has seen the head of the
\* response it has parts of.
StartInv ==
  /\ relay.at = "starting" => /\ caller.at = "idle" /\ caller.asks = 0
                              /\ caller.parts = Nothing /\ queue = Nothing
                              /\ gateway.at = "idle"
  /\ caller.at = "waiting" => caller.asks \in 1..2
  /\ caller.parts # Nothing => caller.head

\* The engine shows a call as done before its answer is read.
DoneInv ==
  /\ InEngine /\ relay.at = "reading" =>
       \A j \in 1..Len(queue) :
         queue[j].kind = "complete" => status = "done" /\ caller.at = "over"
  /\ relay.at \in {"saving", "telling"} \/ page.ended = "complete" \/ saved # Unsaved =>
       status = "done" /\ (InEngine => caller.at = "over")

\* The request, from the accepted answer to the end.
KeptInv ==
  /\ page.ended \notin {"open", "left"} => relay.at = "over"
  /\ relay.at \in {"starting", "reading", "saving"} => saved = Unsaved
  /\ relay.at = "saving" => setup.kept
  /\ relay.at = "telling" => saved = IF setup.kept THEN relay.text ELSE Unsaved
  /\ relay.at \in {"saving", "telling"} /\ setup.streamed =>
       /\ relay.text \in {page.shown, Append(page.shown, Citation)}
       /\ ~setup.gateway => \E text \in whole : relay.text \in {text, Append(text, Citation)}
  /\ CompleteAsShown /\ KeptIsWhole /\ ErrorKeepsNoPart

\* The inductive invariant.
StreamInv ==
  /\ StreamTyped /\ ModelInv /\ WireInv /\ LineInv
  /\ QueueInv /\ StartInv /\ DoneInv /\ KeptInv

-----------------------------------------------------------------------------
(* Sequences of events                                                     *)

\* The first of a sequence is taken from it.
LEMMA FirstTaken ==
  ASSUME NEW S, NEW s \in Seq(S), s # <<>>
  PROVE  /\ Len(s) \in Nat \ {0} /\ Head(s) = s[1] /\ s[1] \in S
         /\ Tail(s) \in Seq(S) /\ Len(Tail(s)) = Len(s) - 1
         /\ \A j \in 1..(Len(s) - 1) : Tail(s)[j] = s[j + 1]
OBVIOUS

\* One more at its end.
LEMMA LastAdded ==
  ASSUME NEW S, NEW s \in Seq(S), NEW e \in S
  PROVE  /\ Append(s, e) \in Seq(S) /\ Append(s, e) = s \o <<e>>
         /\ Len(s) \in Nat /\ Len(Append(s, e)) = Len(s) + 1
         /\ \A j \in 1..Len(s) : Append(s, e)[j] = s[j]
         /\ Append(s, e)[Len(s) + 1] = e
         /\ Append(s, e) # <<>>
OBVIOUS

\* Sequences that agree are equal.
LEMMA SameText ==
  ASSUME NEW s \in Texts, NEW t \in Texts, Len(s) = Len(t), \A i \in 1..Len(s) : s[i] = t[i]
  PROVE  s = t
BY DEF Texts

\* The empty text.
LEMMA EmptyText ==
  /\ Nothing \in Texts /\ Len(Nothing) = 0 /\ Nothing \in Seq(Events)
  /\ \A s \in Texts : Len(s) \in Nat /\ (Len(s) = 0 <=> s = Nothing)
BY DEF Texts, Nothing

\* Events with and without a text.
LEMMA SignsAreEvents ==
  /\ \A kind \in EventKinds : Sign(kind) \in Events /\ Sign(kind).kind = kind /\ Sign(kind).text = Nothing
  /\ \A kind \in EventKinds, text \in Texts :
       Event(kind, text) \in Events /\ Event(kind, text).kind = kind /\ Event(kind, text).text = text
BY EmptyText DEF Sign, Event, Events

\* Nothing was sent of an empty text ...
LEMMA LinkEmpty ==
  ASSUME NEW text \in Texts, Len(text) = 0, NEW open \in BOOLEAN
  PROVE  Link(Nothing, Nothing, text, open)
<1>1. Len(Nothing) = 0
  BY EmptyText
<1> QED BY <1>1 DEF Link, IsBeginning, Carries, OnlyParts, Lead, Nothing

\* ... or the head of the response.
LEMMA LinkOpens ==
  ASSUME NEW text \in Texts, Len(text) = 0, NEW open \in BOOLEAN
  PROVE  Link(Nothing, Append(Nothing, Sign("open")), text, open)
<1> DEFINE s == Append(Nothing, Sign("open"))
<1>1. Sign("open") \in Events /\ Sign("open").kind = "open" /\ Sign("open").text = Nothing
  BY SignsAreEvents DEF EventKinds
<1>2. Len(s) = 1 /\ s[1] = Sign("open") /\ s # <<>>
  BY <1>1, EmptyText, LastAdded DEF Nothing
<1>3. Lead(s) = 1
  BY <1>1, <1>2 DEF Lead
<1>4. Len(Nothing) = 0
  BY EmptyText
<1> HIDE DEF s
<1>5. Carries(s, 0, text)
  BY <1>1, <1>2, <1>3 DEF Carries
<1>6. OnlyParts(s)
  BY <1>1, <1>2 DEF OnlyParts, PartKinds
<1>7. IsBeginning(Nothing, text)
  BY <1>4 DEF IsBeginning
<1> QED BY <1>2, <1>3, <1>4, <1>5, <1>6, <1>7 DEF Link, s

\* Beyond its first, what leads a sequence stays.
LEMMA LeadKept ==
  ASSUME NEW s \in Seq(Events), NEW e \in Events, s # <<>> \/ e.kind # "open"
  PROVE  Lead(Append(s, e)) = Lead(s) /\ Lead(s) \in {0, 1} /\ (s # <<>> => Lead(s) <= Len(s))
<1>1. Append(s, e) # <<>> /\ Len(s) \in Nat
  BY LastAdded
<1>2. CASE s = <<>>
  <2>1. Append(s, e)[1] = e
    BY <1>2
  <2> QED BY <1>1, <1>2, <2>1 DEF Lead
<1>3. CASE s # <<>>
  <2>1. Append(s, e)[1] = s[1] /\ Len(s) >= 1
    BY <1>1, <1>3, LastAdded, FirstTaken
  <2> QED BY <1>1, <1>3, <2>1 DEF Lead
<1> QED BY <1>2, <1>3

\* One more token, on the way and in the text.
LEMMA LinkGrows ==
  ASSUME NEW read \in Texts, NEW s \in Seq(Events), NEW text \in Texts, NEW t \in Tokens,
         Link(read, s, text, TRUE)
  PROVE  Link(read, Append(s, Event("delta", <<t>>)), text \o <<t>>, TRUE)
<1> DEFINE e == Event("delta", <<t>>)
           more == text \o <<t>>
           longer == Append(s, e)
<1>1. <<t>> \in Texts
  BY DEF Texts
<1>2. e \in Events /\ e.kind = "delta" /\ e.text = <<t>>
  BY <1>1, SignsAreEvents DEF EventKinds
<1>3. /\ Len(longer) = Len(s) + 1 /\ Len(s) \in Nat /\ longer[Len(s) + 1] = e
      /\ \A j \in 1..Len(s) : longer[j] = s[j]
  BY <1>2, LastAdded
<1>4. /\ Len(more) = Len(text) + 1 /\ Len(text) \in Nat /\ more[Len(text) + 1] = t
      /\ \A j \in 1..Len(text) : more[j] = text[j]
  BY DEF Texts
<1>5. Lead(longer) = Lead(s) /\ Lead(s) \in {0, 1}
  BY <1>2, LeadKept
<1>6. Len(read) \in Nat
  BY EmptyText
<1>7. /\ IsBeginning(read, text) /\ Carries(s, Len(read), text) /\ OnlyParts(s)
      /\ Len(read) + Len(s) - Lead(s) = Len(text)
  BY DEF Link
<1> HIDE DEF e, more, longer
<1>8. IsBeginning(read, more)
  BY <1>4, <1>6, <1>7 DEF IsBeginning
<1>9. OnlyParts(longer)
  BY <1>2, <1>3, <1>7 DEF OnlyParts, PartKinds
<1>10. Carries(longer, Len(read), more)
  <2> SUFFICES ASSUME NEW j \in 1..Len(longer)
               PROVE  /\ longer[j].kind = "open" => j = 1 /\ longer[j].text = Nothing
                      /\ longer[j].kind = "delta" =>
                           /\ Len(read) + j - Lead(longer) \in 1..Len(more)
                           /\ longer[j].text = <<more[Len(read) + j - Lead(longer)]>>
                      /\ longer[j].kind \in PartKinds
    BY <1>3, <1>9 DEF Carries, PartKinds, OnlyParts
  <2>1. CASE j = Len(s) + 1
    <3>1. Len(read) + j - Lead(longer) = Len(text) + 1
      <4>1. Len(read) + Len(s) - Lead(s) = Len(text) /\ Len(s) \in Nat /\ Len(text) \in Nat
        BY <1>3, <1>4, <1>7
      <4> QED BY <1>5, <1>6, <2>1, <4>1
    <3> QED BY <1>2, <1>3, <1>4, <2>1, <3>1 DEF PartKinds
  <2>2. CASE j \in 1..Len(s)
    <3>1. longer[j] = s[j] /\ s[j].kind \in PartKinds
      BY <1>3, <1>7, <2>2 DEF OnlyParts
    <3>2. s[j].kind = "open" => j = 1 /\ s[j].text = Nothing
      BY <1>7, <2>2 DEF Carries
    <3>3. s[j].kind = "delta" => /\ Len(read) + j - Lead(s) \in 1..Len(text)
                                 /\ s[j].text = <<text[Len(read) + j - Lead(s)]>>
      BY <1>7, <2>2 DEF Carries
    <3> QED BY <1>4, <1>5, <3>1, <3>2, <3>3
  <2> QED BY <1>3, <2>1, <2>2
<1>11. Len(read) + Len(longer) - Lead(longer) = Len(more)
  BY <1>3, <1>4, <1>5, <1>6, <1>7
<1> QED BY <1>8, <1>9, <1>10, <1>11 DEF Link, e, more, longer

\* What ends a stream, or reports that it broke.
LEMMA LinkAfter ==
  ASSUME NEW read \in Texts, NEW s \in Seq(Events), NEW text \in Texts, NEW e \in Events,
         NEW open \in BOOLEAN, Link(read, s, text, open),
         e.kind \notin {"open", "delta", "answer"},
         e.kind \in {"done", "complete"} => open,
         e.kind = "complete" => e.text = text
  PROVE  Link(read, Append(s, e), text, FALSE)
<1> DEFINE longer == Append(s, e)
<1>1. /\ Len(longer) = Len(s) + 1 /\ Len(s) \in Nat /\ longer[Len(s) + 1] = e
      /\ \A j \in 1..Len(s) : longer[j] = s[j]
  BY LastAdded
<1>2. Lead(longer) = Lead(s) /\ Lead(s) \in {0, 1} /\ Len(read) \in Nat /\ Len(text) \in Nat
  BY LeadKept, EmptyText
<1>3. IsBeginning(read, text) /\ Carries(s, Len(read), text)
  BY DEF Link
<1>4. open => OnlyParts(s) /\ Len(read) + Len(s) - Lead(s) = Len(text)
  BY DEF Link
<1> HIDE DEF longer
<1>5. Carries(longer, Len(read), text)
  <2> SUFFICES ASSUME NEW j \in 1..Len(longer)
               PROVE  /\ longer[j].kind = "open" => j = 1 /\ longer[j].text = Nothing
                      /\ longer[j].kind = "delta" =>
                           /\ Len(read) + j - Lead(longer) \in 1..Len(text)
                           /\ longer[j].text = <<text[Len(read) + j - Lead(longer)]>>
                      /\ longer[j].kind \in {"done", "complete"} =>
                           Len(read) + j - 1 - Lead(longer) = Len(text)
                      /\ longer[j].kind = "complete" => longer[j].text = text
                      /\ longer[j].kind \in {"delta", "done", "complete"} =>
                           \A k \in 1..(j - 1) : longer[k].kind \in PartKinds
                      /\ longer[j].kind # "answer"
    BY DEF Carries
  <2>1. CASE j = Len(s) + 1
    <3>1. longer[j] = e
      BY <1>1, <2>1
    <3>2. CASE e.kind \in {"done", "complete"}
      <4>1. Len(read) + j - 1 - Lead(longer) = Len(text)
        BY <1>1, <1>2, <1>4, <2>1, <3>2
      <4>2. \A k \in 1..(j - 1) : longer[k].kind \in PartKinds
        BY <1>1, <1>4, <2>1, <3>2 DEF OnlyParts
      <4> QED BY <3>1, <3>2, <4>1, <4>2
    <3> QED BY <3>1, <3>2
  <2>2. CASE j \in 1..Len(s)
    <3>1. longer[j] = s[j] /\ \A k \in 1..(j - 1) : longer[k] = s[k]
      BY <1>1, <2>2
    <3> QED BY <1>2, <1>3, <2>2, <3>1 DEF Carries
  <2> QED BY <1>1, <2>1, <2>2
<1> QED BY <1>3, <1>5 DEF Link, longer

\* What the first event of a link is, and what is left of it.
LEMMA LinkFirst ==
  ASSUME NEW read \in Texts, NEW s \in Seq(Events), NEW text \in Texts, NEW open \in BOOLEAN,
         Link(read, s, text, open), s # <<>>
  PROVE  /\ Head(s).kind = "open" => Head(s).text = Nothing
         /\ Head(s).kind = "delta" => /\ Len(read) + 1 \in 1..Len(text)
                                      /\ Head(s).text = <<text[Len(read) + 1]>>
         /\ Head(s).kind \in {"done", "complete"} => read = text
         /\ Head(s).kind = "complete" => Head(s).text = text
         /\ Head(s).kind # "answer"
         /\ open => Head(s).kind \in PartKinds
         /\ Lead(s) = IF Head(s).kind = "open" THEN 1 ELSE 0
<1>1. Len(s) \in Nat \ {0} /\ Head(s) = s[1] /\ 1 \in 1..Len(s)
  BY FirstTaken
<1>2. Lead(s) = IF Head(s).kind = "open" THEN 1 ELSE 0
  BY <1>1 DEF Lead
<1>3. Len(read) \in Nat /\ Len(text) \in Nat
  BY EmptyText
<1>4. Carries(s, Len(read), text) /\ IsBeginning(read, text) /\ (open => OnlyParts(s))
  BY DEF Link
<1>5. /\ s[1].kind = "open" => s[1].text = Nothing
      /\ s[1].kind = "delta" => /\ Len(read) + 1 - Lead(s) \in 1..Len(text)
                                /\ s[1].text = <<text[Len(read) + 1 - Lead(s)]>>
      /\ s[1].kind \in {"done", "complete"} => Len(read) + 1 - 1 - Lead(s) = Len(text)
      /\ s[1].kind = "complete" => s[1].text = text
      /\ s[1].kind # "answer"
  BY <1>1, <1>4 DEF Carries
<1>6. s[1].kind \in {"done", "complete"} => read = text
  <2> SUFFICES ASSUME s[1].kind \in {"done", "complete"} PROVE read = text
    OBVIOUS
  <2>1. Len(read) = Len(text)
    BY <1>1, <1>2, <1>3, <1>5
  <2> QED BY <1>4, <2>1, SameText DEF IsBeginning
<1>7. open => s[1].kind \in PartKinds
  BY <1>1, <1>4 DEF OnlyParts
<1>8. s[1].kind = "delta" => Len(read) + 1 - Lead(s) = Len(read) + 1
  BY <1>1, <1>2, <1>3
<1> QED BY <1>1, <1>2, <1>5, <1>6, <1>7, <1>8

\* The same of a part of the answer alone.
LEMMA LinkFirstPart ==
  ASSUME NEW read \in Texts, NEW s \in Seq(Events), NEW text \in Texts, NEW open \in BOOLEAN,
         Link(read, s, text, open), s # <<>>, Head(s).kind = "delta"
  PROVE  /\ Len(read) + 1 \in 1..Len(text)
         /\ Head(s).text = <<text[Len(read) + 1]>>
BY LinkFirst

\* The head of the response is passed on, or an event skipped that ends nothing.
LEMMA LinkPasses ==
  ASSUME NEW read \in Texts, NEW s \in Seq(Events), NEW text \in Texts, NEW open \in BOOLEAN,
         Link(read, s, text, open), s # <<>>, Head(s).kind \notin {"delta", "done", "complete"}
  PROVE  Link(read, Tail(s), text, open)
<1> DEFINE rest == Tail(s)
<1>1. /\ Len(s) \in Nat \ {0} /\ Head(s) = s[1] /\ rest \in Seq(Events)
      /\ Len(rest) = Len(s) - 1 /\ \A j \in 1..(Len(s) - 1) : rest[j] = s[j + 1]
  BY FirstTaken
<1>2. Lead(s) = (IF s[1].kind = "open" THEN 1 ELSE 0) /\ (open => s[1].kind \in PartKinds)
  BY <1>1, LinkFirst
<1>3. Len(read) \in Nat /\ Len(text) \in Nat
  BY EmptyText
<1>4. Carries(s, Len(read), text) /\ IsBeginning(read, text)
      /\ (open => OnlyParts(s) /\ Len(read) + Len(s) - Lead(s) = Len(text))
  BY DEF Link
<1> HIDE DEF rest
<1>5. \A j \in 1..Len(rest) : j + 1 \in 1..Len(s) /\ rest[j] = s[j + 1] /\ rest[j].kind # "open"
  <2> SUFFICES ASSUME NEW j \in 1..Len(rest)
               PROVE  j + 1 \in 1..Len(s) /\ rest[j] = s[j + 1] /\ rest[j].kind # "open"
    OBVIOUS
  <2>1. j + 1 \in 1..Len(s) /\ rest[j] = s[j + 1] /\ j + 1 # 1
    BY <1>1
  <2> QED BY <1>4, <2>1 DEF Carries
<1>6. Lead(rest) = 0
  <2>1. rest # <<>> => 1 \in 1..Len(rest)
    BY <1>1
  <2> QED BY <1>5, <2>1 DEF Lead
<1>7. Carries(rest, Len(read), text)
  <2> SUFFICES ASSUME NEW j \in 1..Len(rest)
               PROVE  /\ rest[j].kind = "delta" =>
                           /\ Len(read) + j - Lead(rest) \in 1..Len(text)
                           /\ rest[j].text = <<text[Len(read) + j - Lead(rest)]>>
                      /\ rest[j].kind \in {"done", "complete"} =>
                           Len(read) + j - 1 - Lead(rest) = Len(text)
                      /\ rest[j].kind = "complete" => rest[j].text = text
                      /\ rest[j].kind \in {"delta", "done", "complete"} =>
                           \A k \in 1..(j - 1) : rest[k].kind \in PartKinds
                      /\ rest[j].kind # "answer"
    BY <1>5 DEF Carries
  <2>1. j + 1 \in 1..Len(s) /\ rest[j] = s[j + 1] /\ j \in Nat
    BY <1>1, <1>5
  <2>2. /\ s[j + 1].kind = "delta" => /\ Len(read) + (j + 1) - Lead(s) \in 1..Len(text)
                                      /\ s[j + 1].text = <<text[Len(read) + (j + 1) - Lead(s)]>>
        /\ s[j + 1].kind \in {"done", "complete"} =>
             Len(read) + (j + 1) - 1 - Lead(s) = Len(text)
        /\ s[j + 1].kind = "complete" => s[j + 1].text = text
        /\ s[j + 1].kind \in {"delta", "done", "complete"} =>
             \A k \in 1..((j + 1) - 1) : s[k].kind \in PartKinds
        /\ s[j + 1].kind # "answer"
    BY <1>4, <2>1 DEF Carries
  <2>3. s[j + 1].kind \in {"delta", "done", "complete"} => Lead(s) = 1
    <3>1. s[j + 1].kind \in {"delta", "done", "complete"} => s[1].kind \in PartKinds
      BY <2>1, <2>2
    <3> QED BY <1>1, <1>2, <3>1 DEF PartKinds
  <2>4. s[j + 1].kind \in {"delta", "done", "complete"} =>
          Len(read) + (j + 1) - Lead(s) = Len(read) + j - Lead(rest)
    BY <1>3, <1>6, <2>1, <2>3
  <2>5. s[j + 1].kind \in {"delta", "done", "complete"} =>
          Len(read) + (j + 1) - 1 - Lead(s) = Len(read) + j - 1 - Lead(rest)
    BY <1>3, <1>6, <2>1, <2>3
  <2>6. s[j + 1].kind \in {"delta", "done", "complete"} =>
          \A k \in 1..(j - 1) : rest[k].kind \in PartKinds
    <3> SUFFICES ASSUME s[j + 1].kind \in {"delta", "done", "complete"}, NEW k \in 1..(j - 1)
                 PROVE  rest[k].kind \in PartKinds
      OBVIOUS
    <3>1. k \in 1..Len(rest) /\ k + 1 \in 1..((j + 1) - 1)
      BY <1>1, <2>1
    <3> QED BY <1>5, <2>2, <3>1
  <2> QED BY <2>1, <2>2, <2>4, <2>5, <2>6
<1>8. open => OnlyParts(rest) /\ Len(read) + Len(rest) - Lead(rest) = Len(text)
  <2> SUFFICES ASSUME open PROVE OnlyParts(rest) /\ Len(read) + Len(rest) - Lead(rest) = Len(text)
    OBVIOUS
  <2>1. OnlyParts(rest)
    BY <1>4, <1>5 DEF OnlyParts
  <2>2. Lead(s) = 1
    BY <1>1, <1>2 DEF PartKinds
  <2> QED BY <1>1, <1>3, <1>4, <1>6, <2>1, <2>2
<1> QED BY <1>4, <1>7, <1>8 DEF Link, rest

\* A part of the answer is read.
LEMMA LinkReads ==
  ASSUME NEW read \in Texts, NEW s \in Seq(Events), NEW text \in Texts, NEW open \in BOOLEAN,
         Link(read, s, text, open), s # <<>>, Head(s).kind = "delta"
  PROVE  /\ read \o Head(s).text \in Texts
         /\ Len(read \o Head(s).text) = Len(read) + 1
         /\ Link(read \o Head(s).text, Tail(s), text, open)
<1> DEFINE rest == Tail(s)
           more == read \o Head(s).text
<1>1. /\ Len(s) \in Nat \ {0} /\ Head(s) = s[1] /\ rest \in Seq(Events)
      /\ Len(rest) = Len(s) - 1 /\ \A j \in 1..(Len(s) - 1) : rest[j] = s[j + 1]
  BY FirstTaken
<1>2. /\ Lead(s) = 0 /\ Len(read) + 1 \in 1..Len(text)
      /\ Head(s).text = <<text[Len(read) + 1]>>
  BY LinkFirst
<1>3. Len(read) \in Nat /\ Len(text) \in Nat
  BY EmptyText
<1>4. Carries(s, Len(read), text) /\ IsBeginning(read, text)
      /\ (open => OnlyParts(s) /\ Len(read) + Len(s) - Lead(s) = Len(text))
  BY DEF Link
<1>5. /\ more \in Texts /\ Len(more) = Len(read) + 1 /\ more[Len(read) + 1] = text[Len(read) + 1]
      /\ \A i \in 1..Len(read) : more[i] = read[i]
  <2>1. text[Len(read) + 1] \in Tokens
    BY <1>2 DEF Texts
  <2> DEFINE t == text[Len(read) + 1]
  <2>2. more = read \o <<t>>
    BY <1>2
  <2> HIDE DEF t, more
  <2>3. t \in Tokens
    BY <2>1 DEF t
  <2>4. /\ read \o <<t>> \in Seq(Tokens) /\ Len(read \o <<t>>) = Len(read) + 1
        /\ (read \o <<t>>)[Len(read) + 1] = t
        /\ \A i \in 1..Len(read) : (read \o <<t>>)[i] = read[i]
    BY <2>3 DEF Texts
  <2> QED BY <2>2, <2>4 DEF t, Texts
<1> HIDE DEF rest, more
<1>6. IsBeginning(more, text)
  BY <1>2, <1>3, <1>4, <1>5 DEF IsBeginning
<1>7. \A j \in 1..Len(rest) : j + 1 \in 1..Len(s) /\ rest[j] = s[j + 1] /\ rest[j].kind # "open"
  <2> SUFFICES ASSUME NEW j \in 1..Len(rest)
               PROVE  j + 1 \in 1..Len(s) /\ rest[j] = s[j + 1] /\ rest[j].kind # "open"
    OBVIOUS
  <2>1. j + 1 \in 1..Len(s) /\ rest[j] = s[j + 1] /\ j + 1 # 1
    BY <1>1
  <2> QED BY <1>4, <2>1 DEF Carries
<1>8. Lead(rest) = 0
  <2>1. rest # <<>> => 1 \in 1..Len(rest)
    BY <1>1
  <2> QED BY <1>7, <2>1 DEF Lead
<1>9. Carries(rest, Len(more), text)
  <2> SUFFICES ASSUME NEW j \in 1..Len(rest)
               PROVE  /\ rest[j].kind = "delta" =>
                           /\ Len(more) + j - Lead(rest) \in 1..Len(text)
                           /\ rest[j].text = <<text[Len(more) + j - Lead(rest)]>>
                      /\ rest[j].kind \in {"done", "complete"} =>
                           Len(more) + j - 1 - Lead(rest) = Len(text)
                      /\ rest[j].kind = "complete" => rest[j].text = text
                      /\ rest[j].kind \in {"delta", "done", "complete"} =>
                           \A k \in 1..(j - 1) : rest[k].kind \in PartKinds
                      /\ rest[j].kind # "answer"
    BY <1>7 DEF Carries
  <2>1. j + 1 \in 1..Len(s) /\ rest[j] = s[j + 1] /\ j \in Nat
    BY <1>1, <1>7
  <2>2. /\ s[j + 1].kind = "delta" => /\ Len(read) + (j + 1) - Lead(s) \in 1..Len(text)
                                      /\ s[j + 1].text = <<text[Len(read) + (j + 1) - Lead(s)]>>
        /\ s[j + 1].kind \in {"done", "complete"} =>
             Len(read) + (j + 1) - 1 - Lead(s) = Len(text)
        /\ s[j + 1].kind = "complete" => s[j + 1].text = text
        /\ s[j + 1].kind \in {"delta", "done", "complete"} =>
             \A k \in 1..((j + 1) - 1) : s[k].kind \in PartKinds
        /\ s[j + 1].kind # "answer"
    BY <1>4, <2>1 DEF Carries
  <2>4. Len(read) + (j + 1) - Lead(s) = Len(more) + j - Lead(rest)
    BY <1>2, <1>3, <1>5, <1>8, <2>1
  <2>5. Len(read) + (j + 1) - 1 - Lead(s) = Len(more) + j - 1 - Lead(rest)
    BY <1>2, <1>3, <1>5, <1>8, <2>1
  <2>6. s[j + 1].kind \in {"delta", "done", "complete"} =>
          \A k \in 1..(j - 1) : rest[k].kind \in PartKinds
    <3> SUFFICES ASSUME s[j + 1].kind \in {"delta", "done", "complete"}, NEW k \in 1..(j - 1)
                 PROVE  rest[k].kind \in PartKinds
      OBVIOUS
    <3>1. k \in 1..Len(rest) /\ k + 1 \in 1..((j + 1) - 1)
      BY <1>1, <2>1
    <3> QED BY <1>7, <2>2, <3>1
  <2> QED BY <2>1, <2>2, <2>4, <2>5, <2>6
<1>10. open => OnlyParts(rest) /\ Len(more) + Len(rest) - Lead(rest) = Len(text)
  <2> SUFFICES ASSUME open PROVE OnlyParts(rest) /\ Len(more) + Len(rest) - Lead(rest) = Len(text)
    OBVIOUS
  <2>1. OnlyParts(rest)
    BY <1>4, <1>7 DEF OnlyParts
  <2>2. Len(read) + Len(s) - 0 = Len(text)
    BY <1>2, <1>4
  <2>3. Len(more) = Len(read) + 1 /\ Len(rest) = Len(s) - 1 /\ Len(s) \in Nat
    BY <1>1, <1>5
  <2>4. Len(more) + Len(rest) - 0 = Len(text)
    BY <1>3, <2>2, <2>3
  <2> QED BY <1>8, <2>1, <2>4
<1> QED BY <1>5, <1>6, <1>9, <1>10 DEF Link, rest, more

-----------------------------------------------------------------------------
(* Types                                                                   *)

\* Sequences of events stay such.
LEMMA EventsJoined ==
  /\ \A s \in Seq(Events), e \in Events : Append(s, e) \in Seq(Events)
  /\ \A s \in Seq(Events), e \in Events, f \in Events :
       s \o <<e, f>> \in Seq(Events) /\ s \o <<e, f>> = Append(Append(s, e), f)
  /\ \A s \in Seq(Events) : s # <<>> => Tail(s) \in Seq(Events) /\ Head(s) \in Events
OBVIOUS

\* Texts stay such.
LEMMA TextsJoined ==
  /\ \A s \in Texts, t \in Texts : s \o t \in Texts
  /\ \A s \in Texts : Append(s, Citation) \in Texts
  /\ \A t \in Tokens : <<t>> \in Texts
BY DEF Texts, Tokens, Citation

\* What an attempt has sent is a text, and one more token makes it longer.
LEMMA SentIsText ==
  ASSUME NEW a \in Nat, NEW n \in Nat
  PROVE  /\ [i \in 1..n |-> <<a, i>>] \in Texts /\ Len([i \in 1..n |-> <<a, i>>]) = n
         /\ \A i \in 1..n : [j \in 1..n |-> <<a, j>>][i] = <<a, i>>
         /\ [i \in 1..(n + 1) |-> <<a, i>>] = [i \in 1..n |-> <<a, i>>] \o <<<<a, n + 1>>>>
<1>1. [i \in 1..n |-> <<a, i>>] \in Texts /\ Len([i \in 1..n |-> <<a, i>>]) = n
  BY DEF Texts, Tokens
<1>2. [i \in 1..(n + 1) |-> <<a, i>>] \in Texts /\ Len([i \in 1..(n + 1) |-> <<a, i>>]) = n + 1
  BY DEF Texts, Tokens
<1> DEFINE few == [i \in 1..n |-> <<a, i>>]
           many == [i \in 1..(n + 1) |-> <<a, i>>]
           last == <<a, n + 1>>
<1>3. last \in Tokens /\ \A i \in 1..n : few[i] = <<a, i>>
  BY DEF Tokens
<1>4. \A i \in 1..(n + 1) : many[i] = <<a, i>>
  OBVIOUS
<1> HIDE DEF few, many
<1>5. /\ few \o <<last>> \in Texts /\ Len(few \o <<last>>) = n + 1
      /\ (few \o <<last>>)[n + 1] = last /\ \A i \in 1..n : (few \o <<last>>)[i] = few[i]
  <2> HIDE DEF last
  <2> QED BY <1>1, <1>3 DEF few, Texts
<1>6. many = few \o <<last>>
  <2>1. many \in Texts /\ Len(many) = n + 1
    BY <1>2 DEF many
  <2> DEFINE joined == few \o <<last>>
  <2>2. \A i \in 1..(n + 1) : many[i] = joined[i]
    <3>0. joined[n + 1] = last /\ \A i \in 1..n : joined[i] = few[i]
      BY <1>5
    <3> HIDE DEF joined
    <3> SUFFICES ASSUME NEW i \in 1..(n + 1) PROVE many[i] = joined[i]
      OBVIOUS
    <3>1. CASE i = n + 1
      BY <1>4, <3>0, <3>1
    <3>2. CASE i \in 1..n
      BY <1>3, <1>4, <3>0, <3>2
    <3> QED BY <3>1, <3>2
  <2> HIDE DEF last
  <2> QED BY <1>5, <2>1, <2>2, SameText
<1> QED BY <1>1, <1>3, <1>6 DEF few, many

\* Rows stay such: those of the model,
LEMMA ModelRowsKept ==
  ASSUME NEW row \in ModelRows
  PROVE  /\ \A at \in {"idle", "asked", "sending", "over"} : [row EXCEPT !.at = at] \in ModelRows
         /\ \A q \in BOOLEAN : [row EXCEPT !.quiet = q] \in ModelRows
         /\ row.sent < Length => [row EXCEPT !.sent = @ + 1] \in ModelRows
         /\ [attempt |-> row.attempt + 1, sent |-> 0, at |-> "asked", quiet |-> FALSE] \in ModelRows
BY StreamAssumption DEF ModelRows

\* Those of the gateway,
LEMMA GatewayRowsKept ==
  ASSUME NEW row \in GatewayRows
  PROVE  /\ \A at \in {"idle", "asked", "trying", "over"} : [row EXCEPT !.at = at] \in GatewayRows
         /\ row.left > 0 => [row EXCEPT !.left = @ - 1] \in GatewayRows
         /\ \A text \in Texts : [row EXCEPT !.parts = row.parts \o text] \in GatewayRows
         /\ \A n \in Nat : [at |-> "trying", left |-> n, parts |-> Nothing] \in GatewayRows
<1>1. \A at \in {"idle", "asked", "trying", "over"} : [row EXCEPT !.at = at] \in GatewayRows
  BY DEF GatewayRows
<1>2. row.left > 0 => [row EXCEPT !.left = @ - 1] \in GatewayRows
  BY DEF GatewayRows
<1>3. ASSUME NEW text \in Texts
      PROVE  [row EXCEPT !.parts = row.parts \o text] \in GatewayRows
  <2>1. row.parts \o text \in Texts
    BY TextsJoined DEF GatewayRows
  <2> QED BY <2>1 DEF GatewayRows
<1>4. ASSUME NEW n \in Nat
      PROVE  [at |-> "trying", left |-> n, parts |-> Nothing] \in GatewayRows
  BY EmptyText DEF GatewayRows
<1> QED BY <1>1, <1>2, <1>3, <1>4

\* of the caller,
LEMMA CallerRowsKept ==
  ASSUME NEW row \in CallerRows
  PROVE  /\ \A at \in {"idle", "waiting", "over"} : [row EXCEPT !.at = at] \in CallerRows
         /\ [row EXCEPT !.at = "over", !.warned = TRUE] \in CallerRows
         /\ [row EXCEPT !.tries = 2] \in CallerRows
         /\ row.asks < 2 =>
              [row EXCEPT !.at = "waiting", !.asks = @ + 1, !.tries = 1, !.head = FALSE]
                \in CallerRows
         /\ \A text \in Texts : [row EXCEPT !.parts = @ \o text, !.head = TRUE] \in CallerRows
<1>1. /\ \A at \in {"idle", "waiting", "over"} : [row EXCEPT !.at = at] \in CallerRows
      /\ [row EXCEPT !.at = "over", !.warned = TRUE] \in CallerRows
  BY DEF CallerRows
<1>2. [row EXCEPT !.tries = 2] \in CallerRows
  <2>1. 2 \in 0..2
    OBVIOUS
  <2> QED BY <2>1 DEF CallerRows
<1>3. ASSUME row.asks < 2
      PROVE  [row EXCEPT !.at = "waiting", !.asks = @ + 1, !.tries = 1, !.head = FALSE]
               \in CallerRows
  <2>1. 1 \in 0..2 /\ row.asks + 1 \in 0..2
    BY <1>3 DEF CallerRows
  <2> QED BY <2>1 DEF CallerRows
<1>4. ASSUME NEW text \in Texts
      PROVE  [row EXCEPT !.parts = @ \o text, !.head = TRUE] \in CallerRows
  <2>1. row.parts \o text \in Texts
    BY TextsJoined DEF CallerRows
  <2> QED BY <2>1 DEF CallerRows
<1> QED BY <1>1, <1>2, <1>3, <1>4

\* of the request,
LEMMA RelayRowsKept ==
  ASSUME NEW row \in RelayRows
  PROVE  /\ \A at \in {"starting", "reading", "saving", "telling", "over"} :
              /\ [row EXCEPT !.at = at] \in RelayRows
              /\ \A text \in Texts : [row EXCEPT !.at = at, !.text = text] \in RelayRows
         /\ \A text \in Texts : [row EXCEPT !.parts = @ \o text] \in RelayRows
BY TextsJoined DEF RelayRows

\* of the page,
LEMMA PageRowsKept ==
  ASSUME NEW row \in PageRows
  PROVE  /\ \A how \in {"open", "complete", "error", "broken", "left"} :
              /\ [row EXCEPT !.ended = how] \in PageRows
              /\ \A text \in Texts : [row EXCEPT !.ended = how, !.text = text] \in PageRows
         /\ \A text \in Texts : [row EXCEPT !.shown = @ \o text] \in PageRows
BY TextsJoined DEF PageRows

\* and of the setup, which loses a fault.
LEMMA SetupRowsKept ==
  ASSUME setup \in SetupRows, Mishap \/ UNCHANGED setup
  PROVE  /\ setup' \in SetupRows
         /\ setup'.route = setup.route /\ setup'.gateway = setup.gateway
         /\ setup'.models = setup.models /\ setup'.streamed = setup.streamed
         /\ setup'.alias = setup.alias /\ setup'.kept = setup.kept
BY DEF Mishap, SetupRows

\* The state is typed in the beginning.
LEMMA TypedInit == StreamInit => StreamTyped
<1> SUFFICES ASSUME StreamInit PROVE StreamTyped
  OBVIOUS
<1>1. setup \in SetupRows
  BY StreamAssumption DEF StreamInit, SetupRows
<1>2. model \in ModelRows
  BY StreamAssumption DEF StreamInit, ModelRows
<1>3. gateway \in GatewayRows
  BY EmptyText DEF StreamInit, GatewayRows
<1>4. caller \in CallerRows
  BY EmptyText DEF StreamInit, CallerRows
<1>5. relay \in RelayRows /\ page \in PageRows
  BY EmptyText DEF StreamInit, RelayRows, PageRows
<1> QED BY <1>1, <1>2, <1>3, <1>4, <1>5, EmptyText DEF StreamInit, StreamTyped

\* Of the setup only the faults that are left change.
Fixed ==
  /\ setup'.route = setup.route /\ setup'.gateway = setup.gateway
  /\ setup'.models = setup.models /\ setup'.streamed = setup.streamed
  /\ setup'.alias = setup.alias /\ setup'.kept = setup.kept

\* Whatever the model does.
ModelSteps == ModelStep \/ ModelRefuses \/ ModelBreaks \/ ModelStalls \/ ModelGoesOn

\* It keeps the types.
LEMMA ModelStepsTyped ==
  ASSUME StreamTyped, ModelSteps
  PROVE  StreamTyped' /\ Fixed /\ whole \subseteq whole'
<1>1. /\ setup \in SetupRows /\ model \in ModelRows /\ wire \in Seq(Events)
      /\ model.attempt \in Nat /\ model.sent \in Nat /\ model.sent \in 0..Length
  BY StreamAssumption DEF StreamTyped, ModelRows
<1>2. \A e \in Events : Append(wire, e) \in Seq(Events)
  BY <1>1, EventsJoined
<1>3. \A kind \in EventKinds : Append(wire, Sign(kind)) \in Seq(Events)
  BY <1>2, SignsAreEvents
<1>4. SUFFICES /\ model' \in ModelRows /\ wire' \in Seq(Events) /\ whole \subseteq whole'
               /\ Mishap \/ UNCHANGED setup
               /\ UNCHANGED downstream
  BY <1>1, SetupRowsKept DEF StreamTyped, downstream, Fixed
<1>5. CASE ModelRefuses
  BY <1>1, <1>3, <1>5, ModelRowsKept DEF ModelRefuses, ModelOver, EventKinds
<1>6. CASE ModelAnswers
  <2>1. model' \in ModelRows /\ UNCHANGED downstream
    BY <1>1, <1>6, ModelRowsKept DEF ModelAnswers, ModelOver
  <2>2. CASE \E n \in 0..Length :
               LET text == [i \in 1..n |-> <<model.attempt, i>>]
               IN  /\ wire' = Append(wire, Event("answer", text))
                   /\ whole' = whole \cup {text}
                   /\ UNCHANGED setup
    <3>1. PICK n \in 0..Length :
            /\ wire' = Append(wire, Event("answer", [i \in 1..n |-> <<model.attempt, i>>]))
            /\ whole' = whole \cup {[i \in 1..n |-> <<model.attempt, i>>]}
            /\ UNCHANGED setup
      BY <2>2
    <3>2. n \in Nat
      BY StreamAssumption
    <3>3. [i \in 1..n |-> <<model.attempt, i>>] \in Texts
      BY <1>1, <3>2, SentIsText
    <3>4. Event("answer", [i \in 1..n |-> <<model.attempt, i>>]) \in Events
      BY <3>3, SignsAreEvents DEF EventKinds
    <3> QED BY <1>2, <2>1, <3>1, <3>4
  <2>3. CASE /\ Mishap
             /\ \E kind \in {"fault", "reset"} : wire' = Append(wire, Sign(kind))
             /\ UNCHANGED whole
    BY <1>3, <2>1, <2>3 DEF EventKinds
  <2> QED BY <1>6, <2>2, <2>3 DEF ModelAnswers
<1>7. CASE ModelOpens
  BY <1>1, <1>3, <1>7, ModelRowsKept DEF ModelOpens, EventKinds
<1>8. CASE ModelSends
  <2>1. <<model.attempt, model.sent + 1>> \in Tokens
    BY <1>1 DEF Tokens
  <2>2. Event("delta", <<<<model.attempt, model.sent + 1>>>>) \in Events
    BY <2>1, TextsJoined, SignsAreEvents DEF EventKinds
  <2> QED BY <1>1, <1>2, <1>8, <2>2, ModelRowsKept DEF ModelSends
<1>9. CASE ModelFinishes
  BY <1>1, <1>3, <1>9, ModelRowsKept DEF ModelFinishes, ModelOver, EventKinds
<1>10. CASE ModelBreaks
  <2>1. \A kind \in EventKinds : wire \o <<Sign(kind), Sign("end")>> \in Seq(Events)
    BY <1>1, SignsAreEvents, EventsJoined DEF EventKinds
  <2>2. wire' \in Seq(Events)
    BY <1>3, <1>10, <2>1 DEF ModelBreaks, EventKinds
  <2>3. model' \in ModelRows
    BY <1>1, <1>10, ModelRowsKept DEF ModelBreaks, ModelOver
  <2> QED BY <1>10, <2>2, <2>3 DEF ModelBreaks
<1>11. CASE ModelStalls \/ ModelGoesOn
  BY <1>1, <1>11, ModelRowsKept DEF ModelStalls, ModelGoesOn
<1> QED BY <1>5, <1>6, <1>7, <1>8, <1>9, <1>10, <1>11 DEF ModelSteps, ModelStep

\* A gateway that failed tries the next candidate, or reports it.
LEMMA GatewayFailsTyped ==
  ASSUME StreamTyped, GatewayFails
  PROVE  /\ model' \in ModelRows /\ gateway' \in GatewayRows
         /\ wire' \in Seq(Events) /\ line' \in Seq(Events)
<1>1. model \in ModelRows /\ gateway \in GatewayRows /\ line \in Seq(Events)
  BY DEF StreamTyped
<1>2. \A kind \in EventKinds : Append(line, Sign(kind)) \in Seq(Events)
  BY <1>1, EventsJoined, SignsAreEvents
<1>3. CASE MayFailOver
  BY <1>1, <1>3, GatewayRowsKept, ModelRowsKept, EmptyText
     DEF GatewayFails, MayFailOver, NewAttempt
<1>4. CASE ~MayFailOver
  BY <1>1, <1>2, <1>4, GatewayRowsKept, EmptyText DEF GatewayFails, EventKinds
<1> QED BY <1>3, <1>4

\* So does every step of the gateway.
LEMMA GatewayStepTyped ==
  ASSUME StreamTyped, GatewayStep
  PROVE  StreamTyped' /\ Fixed /\ UNCHANGED <<whole, caller, queue, relay, page, saved, status>>
<1>1. /\ setup \in SetupRows /\ model \in ModelRows /\ wire \in Seq(Events)
      /\ gateway \in GatewayRows /\ line \in Seq(Events)
      /\ gateway.parts \in Texts /\ setup.models \in Nat \ {0}
  BY DEF StreamTyped, GatewayRows, SetupRows
<1>2. \A e \in Events : Append(line, e) \in Seq(Events)
  BY <1>1, EventsJoined
<1>3. \A kind \in EventKinds : Append(line, Sign(kind)) \in Seq(Events)
  BY <1>2, SignsAreEvents
<1>4. wire # Nothing => /\ Head(wire) \in Events /\ Head(wire).text \in Texts
                        /\ Tail(wire) \in Seq(Events)
  BY <1>1, EventsJoined DEF Events, Nothing
<1>5. UNCHANGED <<whole, caller, queue, relay, page, saved, status>>
  BY DEF GatewayStep, GatewayResolves, GatewayReadsChunk, GatewayReadsBody, GatewayTimesOut,
     GatewayIsLeft
<1>6. SUFFICES /\ model' \in ModelRows /\ wire' \in Seq(Events) /\ line' \in Seq(Events)
               /\ gateway' \in GatewayRows
               /\ Mishap \/ UNCHANGED setup
  BY <1>1, <1>5, SetupRowsKept DEF StreamTyped, Fixed
<1>7. CASE GatewayResolves
  <2>1. CASE /\ Mishap
             /\ \E kind \in {"absent", "refused"} : line' = Append(line, Sign(kind))
             /\ gateway' = [gateway EXCEPT !.at = "over"]
             /\ UNCHANGED <<model, wire>>
    BY <1>1, <1>3, <2>1, GatewayRowsKept DEF EventKinds
  <2>2. CASE /\ gateway' = [at |-> "trying", left |-> setup.models - 1, parts |-> Nothing]
             /\ line' = IF setup.streamed THEN Append(line, Sign("open")) ELSE line
             /\ NewAttempt
             /\ wire' = Nothing
             /\ UNCHANGED setup
    <3>1. setup.models - 1 \in Nat
      BY <1>1
    <3>2. line' \in Seq(Events)
      BY <1>1, <1>3, <2>2 DEF EventKinds
    <3> QED BY <1>1, <2>2, <3>1, <3>2, GatewayRowsKept, ModelRowsKept, EmptyText DEF NewAttempt
  <2> QED BY <1>7, <2>1, <2>2 DEF GatewayResolves
<1>8. ASSUME GatewayFails, UNCHANGED setup
      PROVE  /\ model' \in ModelRows /\ wire' \in Seq(Events) /\ line' \in Seq(Events)
             /\ gateway' \in GatewayRows
             /\ Mishap \/ UNCHANGED setup
  BY <1>8, GatewayFailsTyped
<1>9. ASSUME GatewayCompletes, UNCHANGED setup
      PROVE  /\ model' \in ModelRows /\ wire' \in Seq(Events) /\ line' \in Seq(Events)
             /\ gateway' \in GatewayRows
             /\ Mishap \/ UNCHANGED setup
  <2>1. Event("complete", gateway.parts) \in Events
    BY <1>1, SignsAreEvents DEF EventKinds
  <2> QED BY <1>1, <1>2, <1>8, <1>9, <2>1, GatewayRowsKept, EmptyText DEF GatewayCompletes
<1>10. CASE GatewayReadsChunk
  <2>1. wire # Nothing /\ UNCHANGED setup
    BY <1>10 DEF GatewayReadsChunk
  <2>2. CASE wire' = Tail(wire) /\ UNCHANGED <<gateway, line, model>>
    BY <1>1, <1>4, <2>1, <2>2
  <2>3. CASE /\ wire' = Tail(wire)
             /\ gateway' = [gateway EXCEPT !.parts = @ \o Head(wire).text]
             /\ line' = Append(line, Head(wire))
             /\ UNCHANGED model
    BY <1>1, <1>2, <1>4, <2>1, <2>3, GatewayRowsKept
  <2>4. CASE /\ gateway' = [gateway EXCEPT !.at = "over"]
             /\ line' = Append(line, Head(wire))
             /\ wire' = Nothing
             /\ UNCHANGED model
    BY <1>1, <1>2, <1>4, <2>1, <2>4, GatewayRowsKept, EmptyText
  <2> QED BY <1>8, <1>9, <1>10, <2>1, <2>2, <2>3, <2>4 DEF GatewayReadsChunk
<1>11. CASE GatewayReadsBody
  <2>1. wire # Nothing /\ UNCHANGED setup
    BY <1>11 DEF GatewayReadsBody
  <2>2. CASE /\ gateway' = [gateway EXCEPT !.at = "over"]
             /\ line' = Append(line, IF Head(wire).kind = "answer" THEN Head(wire)
                                     ELSE Sign("refused"))
             /\ wire' = Nothing
             /\ UNCHANGED model
    <3>1. line' \in Seq(Events)
      BY <1>2, <1>3, <1>4, <2>1, <2>2 DEF EventKinds
    <3> QED BY <1>1, <2>1, <2>2, <3>1, GatewayRowsKept, EmptyText
  <2> QED BY <1>8, <1>11, <2>1, <2>2 DEF GatewayReadsBody
<1>12. CASE GatewayTimesOut
  BY <1>8, <1>12 DEF GatewayTimesOut
<1>13. CASE GatewayIsLeft
  BY <1>1, <1>13, GatewayRowsKept DEF GatewayIsLeft
<1> QED BY <1>7, <1>10, <1>11, <1>12, <1>13 DEF GatewayStep

\* A connection is opened, to the gateway or to the model.
LEMMA ConnectTyped ==
  ASSUME StreamTyped, Connect
  PROVE  /\ model' \in ModelRows /\ gateway' \in GatewayRows
         /\ wire' \in Seq(Events) /\ line' \in Seq(Events)
<1>1. model \in ModelRows /\ gateway \in GatewayRows /\ wire \in Seq(Events) /\ line \in Seq(Events)
  BY DEF StreamTyped
<1> QED BY <1>1, EmptyText, ModelRowsKept, GatewayRowsKept DEF Connect, NewAttempt

\* The same when the caller asks.
LEMMA AskTyped ==
  ASSUME StreamTyped, Ask, caller.asks < 2
  PROVE  /\ model' \in ModelRows /\ gateway' \in GatewayRows /\ caller' \in CallerRows
         /\ wire' \in Seq(Events) /\ line' \in Seq(Events)
<1>1. caller' \in CallerRows
  BY CallerRowsKept DEF StreamTyped, Ask
<1> QED BY SMTT(30), <1>1, ConnectTyped DEF Ask

\* What is received is an event.
LEMMA ReceivedTyped ==
  ASSUME StreamTyped, Incoming # Nothing
  PROVE  Received \in Events /\ Head(Incoming) \in Events /\ Incoming \in Seq(Events)
<1>1. Incoming \in Seq(Events)
  BY DEF Incoming, StreamTyped
<1>2. Head(Incoming) \in Events
  BY <1>1, EventsJoined DEF Nothing
<1>3. caller.parts \in Texts /\ Head(Incoming).text \in Texts
  BY <1>2 DEF StreamTyped, CallerRows, Events
<1> DEFINE first == Head(Incoming)
<1>4. /\ Event("complete", caller.parts) \in Events /\ Event("complete", first.text) \in Events
      /\ Sign("fault") \in Events /\ Sign("complete") \in Events
  BY <1>3, SignsAreEvents DEF EventKinds
<1> HIDE DEF first
<1>5. Normalized(first) \in Events
  BY <1>2, <1>4 DEF Normalized, first
<1>6. OfBody(first) \in Events
  BY SMTT(30), <1>4, <1>5 DEF OfBody
<1> QED BY <1>1, <1>2, <1>5, <1>6 DEF Received, first

\* The caller concludes.
LEMMA ConcludeTyped ==
  ASSUME StreamTyped, NEW event \in Events, Conclude(event)
  PROVE  /\ model' \in ModelRows /\ gateway' \in GatewayRows /\ caller' \in CallerRows
         /\ wire' \in Seq(Events) /\ line' \in Seq(Events) /\ queue' \in Seq(Events)
BY EmptyText, CallerRowsKept, EventsJoined DEF StreamTyped, Conclude

\* Whatever happens to the caller.
CallerSteps == CallerStep \/ EngineDies

\* It keeps the types.
LEMMA CallerStepsTyped ==
  ASSUME StreamTyped, StartInv, CallerSteps
  PROVE  StreamTyped' /\ Fixed /\ UNCHANGED <<whole, relay, page, saved>>
<1>1. /\ setup \in SetupRows /\ model \in ModelRows /\ wire \in Seq(Events)
      /\ gateway \in GatewayRows /\ line \in Seq(Events) /\ caller \in CallerRows
      /\ queue \in Seq(Events) /\ status \in {"running", "done", "failed"}
  BY DEF StreamTyped
<1>2. UNCHANGED <<whole, relay, page, saved>>
  BY DEF CallerSteps, CallerStep, SendAgain, CallerPasses, AdapterEnds, AdapterReturns, ClientEnds,
     ClientReturns, AdapterTimesOut, ClientTimesOut, CallerIsLeft, EngineDies
<1>3. SUFFICES /\ model' \in ModelRows /\ wire' \in Seq(Events) /\ line' \in Seq(Events)
               /\ gateway' \in GatewayRows /\ caller' \in CallerRows /\ queue' \in Seq(Events)
               /\ status' \in {"running", "done", "failed"}
               /\ Mishap \/ UNCHANGED setup
  BY <1>1, <1>2, SetupRowsKept DEF StreamTyped, Fixed
<1>4. \A kind \in {"error", "end"} : Sign(kind) \in Events /\ Append(queue, Sign(kind)) \in Seq(Events)
  BY <1>1, EventsJoined, SignsAreEvents DEF EventKinds
<1>5. ASSUME Conclude(Received) \/ Conclude(Sign("error")), MayConclude
      PROVE  /\ model' \in ModelRows /\ wire' \in Seq(Events) /\ line' \in Seq(Events)
             /\ gateway' \in GatewayRows /\ caller' \in CallerRows /\ queue' \in Seq(Events)
  <2>1. Received \in Events
    BY <1>5, ReceivedTyped DEF MayConclude
  <2> QED BY <1>4, <1>5, <2>1, ConcludeTyped
<1>6. ASSUME Ask, MayFallBack
      PROVE  /\ model' \in ModelRows /\ wire' \in Seq(Events) /\ line' \in Seq(Events)
             /\ gateway' \in GatewayRows /\ caller' \in CallerRows
  <2>1. caller.asks < 2
    BY <1>6 DEF MayFallBack
  <2> QED BY <1>6, <2>1, AskTyped
<1>7. CASE SendAgain
  <2>1. caller' \in CallerRows
    BY <1>1, <1>7, CallerRowsKept DEF SendAgain
  <2> QED BY SMTT(30), <1>1, <1>7, <2>1, ConnectTyped DEF SendAgain
<1>8. CASE CallerPasses
  <2>1. Incoming # Nothing /\ UNCHANGED <<setup, model, gateway, status>>
    BY <1>8 DEF CallerPasses
  <2>2. Received \in Events /\ Received.text \in Texts
    BY SMTT(30), <2>1, ReceivedTyped DEF Events
  <2>3. caller' \in CallerRows
    BY <1>1, <1>8, <2>2, CallerRowsKept DEF CallerPasses
  <2>4. queue' \in Seq(Events)
    BY <1>1, <1>8, <2>2, EventsJoined DEF CallerPasses
  <2>5. wire' \in Seq(Events) /\ line' \in Seq(Events)
    BY <1>1, <1>8, <2>1, EventsJoined DEF CallerPasses, Incoming, Nothing
  <2> QED BY <1>1, <2>1, <2>3, <2>4, <2>5
<1>9. CASE AdapterEnds
  <2>1. MayConclude /\ UNCHANGED <<setup, status>>
    BY SMTT(30), <1>9 DEF AdapterEnds
  <2>2. CASE /\ caller' = [caller EXCEPT !.at = "over", !.warned = TRUE]
             /\ queue' = Append(queue, Sign("end"))
             /\ wire' = Nothing
             /\ UNCHANGED <<gateway, line, model>>
    BY <1>1, <1>4, <2>1, <2>2, EmptyText, CallerRowsKept
  <2> QED BY <1>1, <1>5, <1>6, <1>9, <2>1, <2>2 DEF AdapterEnds
<1>10. CASE AdapterReturns
  BY <1>1, <1>5, <1>6, <1>10 DEF AdapterReturns
<1>11. CASE ClientEnds
  BY <1>1, <1>5, <1>11 DEF ClientEnds
<1>12. CASE ClientReturns
  BY <1>1, <1>5, <1>12 DEF ClientReturns
<1>13. CASE AdapterTimesOut \/ ClientTimesOut
  BY SMTT(30), <1>1, <1>4, <1>13, ConcludeTyped DEF AdapterTimesOut, ClientTimesOut
<1>14. CASE CallerIsLeft
  BY <1>1, <1>14, CallerRowsKept DEF CallerIsLeft
<1>15. CASE EngineDies
  BY <1>1, <1>4, <1>15, CallerRowsKept DEF EngineDies
<1> QED BY <1>7, <1>8, <1>9, <1>10, <1>11, <1>12, <1>13, <1>14, <1>15 DEF CallerSteps, CallerStep

\* Whatever the request and the browser do.
RelaySteps == RelayStep \/ Leave
\* The first step of a request.
Starts == ChatStarts \/ EngineIsAsked

\* The request ends.
LEMMA EndRequestTyped ==
  ASSUME StreamTyped, NEW how \in {"error", "broken", "left"}, EndRequest(how)
  PROVE  relay' \in RelayRows /\ page' \in PageRows
BY RelayRowsKept, PageRowsKept DEF StreamTyped, EndRequest

\* It begins, or is turned down.
LEMMA StartsTyped ==
  ASSUME StreamTyped, StartInv, Starts
  PROVE  StreamTyped' /\ Fixed /\ UNCHANGED <<whole, queue, saved, status>>
<1>1. UNCHANGED <<whole, queue, saved, status>> /\ relay.at = "starting"
  BY DEF Starts, ChatStarts, EngineIsAsked, Raised
<1>2. CASE /\ Mishap /\ UNCHANGED <<model, wire, gateway, line, caller>>
           /\ EndRequest("error") \/ EndRequest("broken")
  <2>1. relay' \in RelayRows /\ page' \in PageRows
    BY <1>2, EndRequestTyped
  <2> QED BY <1>1, <1>2, <2>1, SetupRowsKept DEF StreamTyped, Fixed
<1>3. CASE relay' = [relay EXCEPT !.at = "reading"] /\ Ask /\ UNCHANGED <<setup, page>>
  <2>1. caller.asks < 2
    BY <1>1 DEF StartInv
  <2>2. relay' \in RelayRows
    BY <1>3, RelayRowsKept DEF StreamTyped
  <2> QED BY <1>1, <1>3, <2>1, <2>2, AskTyped DEF StreamTyped, Fixed
<1> QED BY <1>2, <1>3 DEF Starts, ChatStarts, EngineIsAsked, Raised

-----------------------------------------------------------------------------
(* What stays                                                              *)

\* ModelInv depends on the model, its readers and what is under way.
LEMMA ModelFrame ==
  ASSUME ModelInv, Fixed, UNCHANGED <<model, wire, gateway, caller, line>>,
         page'.shown = page.shown \/ setup.streamed
  PROVE  ModelInv'
BY DEF ModelInv, Fixed, Attempted

\* WireInv on the model and its readers, and it wants no fewer whole texts.
LEMMA WireFrame ==
  ASSUME WireInv, Fixed, UNCHANGED <<model, wire, gateway, caller>>, whole \subseteq whole'
  PROVE  WireInv'
BY DEF WireInv, Fixed, ModelIsRead, Taken, Sent

\* LineInv on the gateway, the line and the caller.
LEMMA LineFrame ==
  ASSUME LineInv, Fixed, UNCHANGED <<gateway, caller, line>>
  PROVE  LineInv'
BY DEF LineInv, Fixed

\* QueueInv on the caller, the queue, the request and what the page shows.
LEMMA QueueFrame ==
  ASSUME QueueInv, Fixed, UNCHANGED <<relay, caller, queue>>, page'.shown = page.shown,
         whole \subseteq whole'
  PROVE  QueueInv'
BY DEF QueueInv, Fixed

\* StartInv on the request, the caller and the queue.
LEMMA StartFrame ==
  ASSUME StartInv, UNCHANGED <<relay, caller, queue>>,
         gateway'.at = gateway.at \/ gateway.at # "idle"
  PROVE  StartInv'
BY DEF StartInv

\* DoneInv on these and the status, as long as no answer is told as complete.
LEMMA DoneFrame ==
  ASSUME DoneInv, Fixed, UNCHANGED <<relay, caller, queue, saved, status>>,
         page'.ended # "complete" \/ page' = page
  PROVE  DoneInv'
BY DEF DoneInv, Fixed, InEngine

\* What the conversation keeps depends on the relay only.
LEMMA KeptFrame ==
  ASSUME KeptInv, DoneInv, Fixed, UNCHANGED <<relay, page, saved>>, whole \subseteq whole',
         status' = status \/ (/\ relay.at \notin {"saving", "telling"}
                               /\ page.ended # "complete" /\ saved = Unsaved)
  PROVE  KeptInv'
BY DEF KeptInv, Fixed, CompleteAsShown, KeptIsWhole, ErrorKeepsNoPart

-----------------------------------------------------------------------------
(* The model                                                               *)

\* What the model has sent so far, as a text.
LEMMA SentTyped ==
  ASSUME StreamTyped
  PROVE  Sent \in Texts /\ Len(Sent) = model.sent /\ model.sent \in Nat
         /\ \A i \in 1..Len(Sent) : Sent[i] = <<model.attempt, i>>
<1>1. model.attempt \in Nat /\ model.sent \in Nat
  BY StreamAssumption DEF StreamTyped, ModelRows
<1> QED BY <1>1, SentIsText DEF Sent

\* What was got are texts.
LEMMA TakenTyped ==
  ASSUME StreamTyped
  PROVE  Taken \in Texts /\ gateway.parts \in Texts /\ caller.parts \in Texts
BY DEF Taken, StreamTyped, GatewayRows, CallerRows

\* The model goes on, breaks or falls silent: what was got stays of its attempt.
LEMMA ModelStepsKeepModel ==
  ASSUME StreamTyped, ModelInv, WireInv, ModelSteps
  PROVE  ModelInv'
<1>1. StreamTyped' /\ Fixed
  BY ModelStepsTyped
<1>2. UNCHANGED downstream /\ model'.attempt = model.attempt
  BY DEF ModelSteps, ModelStep, ModelRefuses, ModelAnswers, ModelOpens, ModelSends, ModelFinishes,
     ModelBreaks, ModelStalls, ModelGoesOn, ModelOver, StreamTyped, ModelRows
<1>3. (model'.at = "asked" => model'.sent = 0) /\ (model'.at = "sending" => setup.streamed)
  BY DEF ModelSteps, ModelStep, ModelRefuses, ModelAnswers, ModelOpens, ModelSends, ModelFinishes,
     ModelBreaks, ModelStalls, ModelGoesOn, ModelOver, ModelAt, ModelInv, StreamTyped, ModelRows
<1>4. ASSUME ~setup.streamed
      PROVE  \A j \in 1..Len(wire') : wire'[j].kind \notin PartKinds
  <2>1. wire \in Seq(Events) /\ \A j \in 1..Len(wire) : wire[j].kind \notin PartKinds
    BY <1>4 DEF ModelInv, StreamTyped
  <2>2. \A e \in Events : e.kind \notin PartKinds =>
          \A j \in 1..Len(Append(wire, e)) : Append(wire, e)[j].kind \notin PartKinds
    <3> SUFFICES ASSUME NEW e \in Events, e.kind \notin PartKinds, NEW j \in 1..Len(Append(wire, e))
                 PROVE  Append(wire, e)[j].kind \notin PartKinds
      OBVIOUS
    <3>1. CASE j = Len(wire) + 1
      BY <2>1, <3>1, LastAdded
    <3>2. CASE j \in 1..Len(wire)
      BY <2>1, <3>2, LastAdded
    <3> QED BY <2>1, <3>1, <3>2, LastAdded
  <2>3. wire' = wire \/ \E e \in Events : e.kind \notin PartKinds /\ wire' = Append(wire, e)
    <3>1. CASE ModelRefuses
      BY <3>1, SignsAreEvents DEF ModelRefuses, EventKinds, PartKinds
    <3>2. CASE ModelAnswers
      <4>1. \A n \in 0..Length : [i \in 1..n |-> <<model.attempt, i>>] \in Texts
        <5>1. model.attempt \in Nat /\ \A n \in 0..Length : n \in Nat
          BY StreamAssumption DEF StreamTyped, ModelRows
        <5> QED BY <5>1, SentIsText
      <4>2. \A n \in 0..Length :
              LET e == Event("answer", [i \in 1..n |-> <<model.attempt, i>>])
              IN  e \in Events /\ e.kind = "answer"
        BY <4>1, SignsAreEvents DEF EventKinds
      <4>3. \A kind \in {"fault", "reset"} : Sign(kind) \in Events /\ Sign(kind).kind = kind
        BY SignsAreEvents DEF EventKinds
      <4> QED BY <3>2, <4>2, <4>3 DEF ModelAnswers, PartKinds
    <3>3. CASE ModelStalls \/ ModelGoesOn
      BY <3>3 DEF ModelStalls, ModelGoesOn
    <3>4. ~ModelOpens /\ ~ModelSends /\ ~ModelFinishes /\ ~ModelBreaks
      BY <1>4 DEF ModelOpens, ModelSends, ModelFinishes, ModelBreaks, ModelAt, ModelInv
    <3> QED BY <3>1, <3>2, <3>3, <3>4 DEF ModelSteps, ModelStep
  <2> QED BY <2>1, <2>2, <2>3
<1> QED BY <1>1, <1>2, <1>3, <1>4 DEF ModelInv, Fixed, downstream, Attempted

\* What it sends is what it has said so far.
LEMMA ModelStepsKeepWire ==
  ASSUME StreamTyped, ModelInv, WireInv, ModelSteps
  PROVE  WireInv'
<1>1. StreamTyped' /\ Fixed /\ whole \subseteq whole'
  BY ModelStepsTyped
<1>2. UNCHANGED downstream /\ model'.attempt = model.attempt
  BY DEF ModelSteps, ModelStep, ModelRefuses, ModelAnswers, ModelOpens, ModelSends, ModelFinishes,
     ModelBreaks, ModelStalls, ModelGoesOn, ModelOver, StreamTyped, ModelRows
<1>3. ModelIsRead' = ModelIsRead /\ Taken' = Taken
  BY <1>1, <1>2 DEF ModelIsRead, Taken, Fixed, downstream
<1> SUFFICES ASSUME setup.streamed, ModelIsRead
             PROVE  /\ Link(Taken, wire', Sent', model'.at \in {"asked", "sending"})
                    /\ model'.at = "asked" => wire' = Nothing
                    /\ \A j \in 1..Len(wire') :
                         /\ wire'[j].kind = "done" => Sent' \in whole'
                         /\ wire'[j].kind = "absent" => Len(wire') = 1 /\ Taken = Nothing
                         /\ wire'[j].kind # "complete"
  BY <1>1, <1>3 DEF WireInv, Fixed
<1>4. /\ wire \in Seq(Events) /\ Taken \in Texts /\ Sent \in Texts /\ Len(wire) \in Nat
      /\ Len(Sent) = model.sent
  BY SentTyped, TakenTyped DEF StreamTyped
<1>5. /\ Link(Taken, wire, Sent, model.at \in {"asked", "sending"})
      /\ model.at = "asked" => wire = Nothing
      /\ \A j \in 1..Len(wire) :
           /\ wire[j].kind = "done" => Sent \in whole
           /\ wire[j].kind = "absent" => Len(wire) = 1 /\ Taken = Nothing
           /\ wire[j].kind # "complete"
  BY DEF WireInv
<1>6. ASSUME model.at = "asked"
      PROVE  /\ Sent = Nothing /\ Taken = Nothing /\ wire = Nothing /\ Len(Sent) = 0
             /\ Link(Taken, wire, Sent, TRUE)
  <2>1. Len(Sent) = 0 /\ Sent = Nothing
    BY <1>4, <1>6, EmptyText DEF ModelInv
  <2>2. Len(Taken) = 0
    BY <1>4, <1>5, <2>1, EmptyText DEF Link, IsBeginning
  <2>3. (model.at \in {"asked", "sending"}) = TRUE
    BY <1>6
  <2>4. Link(Taken, wire, Sent, TRUE)
    BY <1>5, <2>3
  <2> QED BY <1>4, <1>5, <1>6, <2>1, <2>2, <2>4, EmptyText
<1>7. ASSUME model.at = "sending"
      PROVE  OnlyParts(wire) /\ Link(Taken, wire, Sent, TRUE)
  <2>1. (model.at \in {"asked", "sending"}) = TRUE
    BY <1>7
  <2> QED BY <1>5, <2>1 DEF Link
<1>8. ASSUME NEW e \in Events, e.kind \notin {"absent", "complete"}, wire' = Append(wire, e),
             Sent' = Sent, OnlyParts(wire), e.kind = "done" => Sent \in whole'
      PROVE  \A j \in 1..Len(wire') :
               /\ wire'[j].kind = "done" => Sent' \in whole'
               /\ wire'[j].kind = "absent" => Len(wire') = 1 /\ Taken = Nothing
               /\ wire'[j].kind # "complete"
  <2> SUFFICES ASSUME NEW j \in 1..Len(wire')
               PROVE  /\ wire'[j].kind = "done" => Sent' \in whole'
                      /\ wire'[j].kind = "absent" => Len(wire') = 1 /\ Taken = Nothing
                      /\ wire'[j].kind # "complete"
    OBVIOUS
  <2>1. CASE j = Len(wire) + 1
    BY <1>4, <1>8, <2>1, LastAdded
  <2>2. CASE j \in 1..Len(wire)
    <3>1. wire'[j] = wire[j] /\ wire[j].kind \in PartKinds
      BY <1>4, <1>8, <2>2, LastAdded DEF OnlyParts
    <3> QED BY <3>1 DEF PartKinds
  <2> QED BY <1>4, <1>8, <2>1, <2>2, LastAdded
<1>9. CASE ModelRefuses
  <2>1. model.at = "asked" /\ model'.at = "over" /\ Sent' = Sent
    BY <1>9 DEF ModelRefuses, ModelAt, ModelOver, Sent, StreamTyped, ModelRows
  <2>2. PICK kind \in {"refused", "absent", "unreachable"} : wire' = Append(wire, Sign(kind))
    BY <1>9 DEF ModelRefuses
  <2>3. Sign(kind) \in Events /\ Sign(kind).kind = kind
    BY SignsAreEvents DEF EventKinds
  <2>4. Len(wire') = 1 /\ wire'[1] = Sign(kind)
    BY <1>6, <2>1, <2>2, <2>3 DEF Nothing
  <2>5. Link(Taken, wire', Sent, FALSE)
    BY <1>4, <1>6, <2>1, <2>2, <2>3, LinkAfter
  <2>6. (model'.at \in {"asked", "sending"}) = FALSE
    BY <2>1
  <2>7. ASSUME NEW j \in 1..Len(wire')
        PROVE  wire'[j].kind \notin {"done", "complete"} /\ Len(wire') = 1
    BY <2>3, <2>4
  <2> QED BY <1>6, <2>1, <2>5, <2>6, <2>7
<1>10. CASE ModelAnswers
  BY <1>10 DEF ModelAnswers
<1>11. CASE ModelOpens
  <2>1. /\ model.at = "asked" /\ model'.at = "sending" /\ Sent' = Sent
        /\ wire' = Append(wire, Sign("open"))
    BY <1>11 DEF ModelOpens, ModelAt, Sent, StreamTyped, ModelRows
  <2>2. Link(Taken, wire', Sent, TRUE)
    BY <1>4, <1>6, <2>1, LinkOpens
  <2>3. Sign("open") \in Events /\ Sign("open").kind = "open"
    BY SignsAreEvents DEF EventKinds
  <2>4. Len(wire') = 1 /\ wire'[1] = Sign("open")
    BY <1>6, <2>1, <2>3 DEF Nothing
  <2>5. (model'.at \in {"asked", "sending"}) = TRUE
    BY <2>1
  <2>6. ASSUME NEW j \in 1..Len(wire')
        PROVE  wire'[j].kind = "open"
    BY <2>3, <2>4
  <2> QED BY <2>1, <2>2, <2>5, <2>6
<1>12. CASE ModelSends
  <2> DEFINE t == <<model.attempt, model.sent + 1>>
             e == Event("delta", <<t>>)
  <2>1. /\ model.at = "sending" /\ model'.at = "sending" /\ model'.sent = model.sent + 1
        /\ wire' = Append(wire, e)
    BY <1>12 DEF ModelSends, ModelAt, StreamTyped, ModelRows
  <2>2. t \in Tokens /\ <<t>> \in Texts
    BY SentTyped, TextsJoined DEF StreamTyped, ModelRows, Tokens
  <2>3. Sent' = Sent \o <<t>>
    <3>1. model.attempt \in Nat /\ model.sent \in Nat
      BY SentTyped DEF StreamTyped, ModelRows
    <3>2. [i \in 1..(model.sent + 1) |-> <<model.attempt, i>>] = Sent \o <<t>>
      BY <3>1, SentIsText DEF Sent
    <3> QED BY <1>2, <2>1, <3>2 DEF Sent
  <2>4. Link(Taken, wire', Sent', TRUE)
    <3> HIDE DEF t
    <3> QED BY <1>4, <1>7, <2>1, <2>2, <2>3, LinkGrows
  <2>5. e \in Events /\ e.kind = "delta"
    BY <2>2, SignsAreEvents DEF EventKinds
  <2>6. ASSUME NEW j \in 1..Len(wire')
        PROVE  wire'[j].kind \in PartKinds
    <3> (model'.at \in {"asked", "sending"}) = TRUE
      BY <2>1
    <3> QED BY <2>4 DEF Link, OnlyParts
  <2>7. (model'.at \in {"asked", "sending"}) = TRUE
    BY <2>1
  <2> HIDE DEF t, e
  <2> QED BY <2>1, <2>4, <2>6, <2>7 DEF PartKinds
<1>13. CASE ModelFinishes
  <2>1. /\ model.at = "sending" /\ model'.at = "over" /\ Sent' = Sent /\ Sent \in whole'
        /\ wire' = Append(wire, Sign("done"))
    BY <1>13 DEF ModelFinishes, ModelAt, ModelOver, Sent, StreamTyped, ModelRows
  <2>2. Sign("done") \in Events /\ Sign("done").kind = "done"
    BY SignsAreEvents DEF EventKinds
  <2>3. Link(Taken, wire', Sent, FALSE)
    BY <1>4, <1>7, <2>1, <2>2, LinkAfter
  <2>4. (model'.at \in {"asked", "sending"}) = FALSE
    BY <2>1
  <2> QED BY <1>7, <1>8, <2>1, <2>2, <2>3, <2>4
<1>14. CASE ModelBreaks
  <2>1. model.at = "sending" /\ model'.at = "over" /\ Sent' = Sent
    BY <1>14 DEF ModelBreaks, ModelAt, ModelOver, Sent, StreamTyped, ModelRows
  <2>2. (model'.at \in {"asked", "sending"}) = FALSE
    BY <2>1
  <2>3. CASE \E kind \in {"end", "reset"} : wire' = Append(wire, Sign(kind))
    <3>1. PICK kind \in {"end", "reset"} : wire' = Append(wire, Sign(kind))
      BY <2>3
    <3>2. Sign(kind) \in Events /\ Sign(kind).kind = kind
      BY SignsAreEvents DEF EventKinds
    <3>3. Link(Taken, wire', Sent, FALSE)
      BY <1>4, <1>7, <2>1, <3>1, <3>2, LinkAfter
    <3> QED BY <1>7, <1>8, <2>1, <2>2, <3>1, <3>2, <3>3
  <2>4. CASE \E kind \in {"fault", "missing"} : wire' = wire \o <<Sign(kind), Sign("end")>>
    <3>1. PICK kind \in {"fault", "missing"} : wire' = wire \o <<Sign(kind), Sign("end")>>
      BY <2>4
    <3> DEFINE some == Append(wire, Sign(kind))
    <3>2. Sign(kind) \in Events /\ Sign(kind).kind = kind /\ Sign("end") \in Events
          /\ Sign("end").kind = "end"
      BY SignsAreEvents DEF EventKinds
    <3>3. wire' = Append(some, Sign("end")) /\ some \in Seq(Events)
      BY <1>4, <3>1, <3>2, EventsJoined
    <3>4. Link(Taken, some, Sent, FALSE)
      BY <1>4, <1>7, <2>1, <3>2, LinkAfter
    <3> HIDE DEF some
    <3>5. Link(Taken, wire', Sent, FALSE)
      BY <1>4, <3>2, <3>3, <3>4, LinkAfter
    <3>6. ASSUME NEW j \in 1..Len(wire')
          PROVE  wire'[j].kind \notin {"done", "absent", "complete"}
      <4>1. /\ Len(some) = Len(wire) + 1 /\ Len(wire') = Len(wire) + 2
            /\ \A i \in 1..Len(wire) : some[i] = wire[i]
            /\ some[Len(wire) + 1] = Sign(kind)
        BY <1>4, <3>2, <3>3, LastAdded DEF some
      <4>2. /\ \A i \in 1..Len(some) : wire'[i] = some[i]
            /\ wire'[Len(wire) + 2] = Sign("end")
        BY <1>4, <3>2, <3>3, <4>1, LastAdded
      <4>3. CASE j = Len(wire) + 2
        BY <3>2, <4>2, <4>3
      <4>4. CASE j = Len(wire) + 1
        BY <1>4, <3>2, <4>1, <4>2, <4>4
      <4>5. CASE j \in 1..Len(wire)
        <5>1. wire'[j] = wire[j] /\ wire[j].kind \in PartKinds
          BY <1>4, <1>7, <2>1, <4>1, <4>2, <4>5 DEF OnlyParts
        <5> QED BY <5>1 DEF PartKinds
      <4> QED BY <1>4, <4>1, <4>3, <4>4, <4>5
    <3> QED BY <2>1, <2>2, <3>5, <3>6
  <2> QED BY <1>14, <2>3, <2>4 DEF ModelBreaks
<1>15. CASE ModelStalls \/ ModelGoesOn
  <2>1. model'.at = model.at /\ Sent' = Sent /\ UNCHANGED <<wire, whole>>
    BY <1>15 DEF ModelStalls, ModelGoesOn, Sent, StreamTyped, ModelRows
  <2>2. (model'.at \in {"asked", "sending"}) = (model.at \in {"asked", "sending"})
    BY <2>1
  <2> QED BY <1>5, <2>1, <2>2
<1> QED BY <1>9, <1>10, <1>11, <1>12, <1>13, <1>14, <1>15 DEF ModelSteps, ModelStep

\* Every step of the model.
LEMMA ModelStepsKeep ==
  ASSUME StreamInv, ModelSteps
  PROVE  StreamInv'
<1>1. /\ StreamTyped /\ ModelInv /\ WireInv /\ LineInv /\ QueueInv /\ StartInv /\ DoneInv
      /\ KeptInv
  BY DEF StreamInv
<1>2. StreamTyped' /\ Fixed /\ whole \subseteq whole'
  BY <1>1, ModelStepsTyped
<1>3. UNCHANGED downstream
  BY DEF ModelSteps, ModelStep, ModelRefuses, ModelAnswers, ModelOpens, ModelSends, ModelFinishes,
     ModelBreaks, ModelStalls, ModelGoesOn
<1>4. ModelInv' /\ WireInv'
  BY <1>1, ModelStepsKeepModel, ModelStepsKeepWire
<1>5. LineInv' /\ QueueInv' /\ StartInv' /\ DoneInv' /\ KeptInv'
  BY <1>1, <1>2, <1>3, LineFrame, QueueFrame, StartFrame, DoneFrame, KeptFrame DEF downstream
<1> QED BY <1>2, <1>4, <1>5 DEF StreamInv

-----------------------------------------------------------------------------
(* The gateway                                                             *)

\* Before anything is read nothing is owed.
LEMMA LinkFresh ==
  ASSUME NEW text \in Texts
  PROVE  Link(Nothing, Nothing, text, FALSE)
<1>1. Len(Nothing) = 0 /\ Len(text) \in Nat
  BY EmptyText
<1> QED BY <1>1 DEF Link, IsBeginning, Carries, OnlyParts, Lead, Nothing

\* The beginning of an attempt is of that attempt.
LEMMA BeginsAttempted ==
  ASSUME StreamTyped, NEW read \in Texts, IsBeginning(read, Sent)
  PROVE  Attempted(read)
<1>1. Len(read) \in Nat /\ Len(Sent) \in Nat /\ \A i \in 1..Len(Sent) : Sent[i] = <<model.attempt, i>>
  BY SentTyped, EmptyText
<1> QED BY <1>1 DEF IsBeginning, Attempted

\* Events of other kinds are added to those of other kinds.
LEMMA NoPartsAdded ==
  ASSUME NEW s \in Seq(Events), NEW e \in Events, NEW K,
         \A j \in 1..Len(s) : s[j].kind \notin K, e.kind \notin K
  PROVE  \A j \in 1..Len(Append(s, e)) : Append(s, e)[j].kind \notin K
<1> SUFFICES ASSUME NEW j \in 1..Len(Append(s, e))
             PROVE  Append(s, e)[j].kind \notin K
  OBVIOUS
<1>1. CASE j = Len(s) + 1
  BY <1>1, LastAdded
<1>2. CASE j \in 1..Len(s)
  BY <1>2, LastAdded
<1> QED BY <1>1, <1>2, LastAdded

\* The gateway reports the end of its answer, of whatever kind.
LEMMA GatewayEndsKeeps ==
  ASSUME StreamTyped, ModelInv, WireInv, LineInv, gateway.at = "trying", NEW e \in Events,
         e.kind \notin {"open", "delta", "absent"}, e.kind = "answer" => ~setup.streamed,
         e.kind = "complete" => e.text = gateway.parts,
         gateway' = [gateway EXCEPT !.at = "over"], line' = Append(line, e), wire' = Nothing,
         UNCHANGED <<setup, model, whole, caller, page>>
  PROVE  ModelInv' /\ WireInv' /\ LineInv'
<1>1. /\ gateway'.at = "over" /\ gateway'.parts = gateway.parts /\ setup.gateway
      /\ line \in Seq(Events) /\ caller.parts \in Texts /\ gateway.parts \in Texts
  BY TakenTyped DEF ModelInv, StreamTyped, GatewayRows
<1>2. ~setup.streamed => \A j \in 1..Len(line') : line'[j].kind \notin PartKinds
  <2> SUFFICES ASSUME ~setup.streamed PROVE \A j \in 1..Len(line') : line'[j].kind \notin PartKinds
    OBVIOUS
  <2>1. (\A j \in 1..Len(line) : line[j].kind \notin PartKinds) /\ e.kind \notin PartKinds
    BY DEF ModelInv, PartKinds
  <2> QED BY <1>1, <2>1, NoPartsAdded
<1>3. ModelInv'
  <2>1. \A j \in 1..Len(wire') : wire'[j].kind \notin PartKinds
    BY EmptyText DEF Nothing
  <2> QED BY <1>1, <1>2, <2>1 DEF ModelInv, Attempted
<1>4. WireInv'
  BY <1>1 DEF WireInv, ModelIsRead
<1>5. ASSUME setup.streamed, caller.at = "waiting"
      PROVE  /\ Link(caller.parts, line', gateway.parts, FALSE)
             /\ \A j \in 1..Len(line') : line'[j].kind \notin {"absent"}
  <2>1. (gateway.at = "trying") = TRUE
    OBVIOUS
  <2>2. Link(caller.parts, line, gateway.parts, TRUE)
    BY <1>1, <1>5, <2>1 DEF LineInv
  <2>3. \A j \in 1..Len(line) : line[j].kind \notin {"absent"}
    BY <2>2 DEF Link, OnlyParts, PartKinds
  <2>4. Link(caller.parts, line', gateway.parts, FALSE)
    BY <1>1, <1>5, <2>2, LinkAfter
  <2> QED BY <1>1, <2>3, <2>4, NoPartsAdded
<1>6. LineInv'
  <2>1. (gateway'.at = "trying") = FALSE
    BY <1>1
  <2> QED BY <1>1, <1>5, <2>1 DEF LineInv
<1> QED BY <1>3, <1>4, <1>6

\* A candidate is tried, while nobody has read a part of an answer.
LEMMA NewAttemptKeepsWire ==
  ASSUME StreamTyped, StreamTyped', NewAttempt, wire' = Nothing, Taken' = Nothing
  PROVE  WireInv' /\ model'.sent = 0 /\ model'.at = "asked"
<1>1. model'.at = "asked" /\ model'.sent = 0
  BY DEF NewAttempt
<1>2. Sent' \in Texts /\ Len(Sent') = 0
  <2>1. model'.attempt \in Nat
    BY DEF StreamTyped, ModelRows
  <2>2. Sent' = [i \in 1..model'.sent |-> <<model'.attempt, i>>]
    BY DEF Sent
  <2>3. Sent' = [i \in 1..0 |-> <<model'.attempt, i>>]
    BY <1>1, <2>2
  <2> QED BY <2>1, <2>3, SentIsText
<1>3. (model'.at \in {"asked", "sending"}) = TRUE
  BY <1>1
<1>4. Link(Taken', wire', Sent', TRUE)
  BY <1>2, LinkEmpty
<1>5. Len(wire') = 0
  BY EmptyText
<1>6. Link(Taken', wire', Sent', model'.at \in {"asked", "sending"})
  BY <1>3, <1>4
<1>7. \A j \in 1..Len(wire') : FALSE
  BY <1>5
<1> QED BY <1>1, <1>6, <1>7 DEF WireInv

\* Nothing is of every attempt.
LEMMA NothingIsAttempted == Attempted(Nothing) /\ Attempted(Nothing)'
BY EmptyText DEF Attempted, Nothing

\* The next candidate: no part of an answer was out.
LEMMA GatewayRetriesKeeps ==
  ASSUME StreamTyped, StreamTyped', ModelInv, WireInv, LineInv, gateway.at = "trying",
         gateway.parts = Nothing, gateway' = [gateway EXCEPT !.left = @ - 1],
         NewAttempt, wire' = Nothing, UNCHANGED <<setup, whole, caller, page, line>>
  PROVE  ModelInv' /\ WireInv' /\ LineInv'
<1>1. gateway'.at = gateway.at /\ gateway'.parts = Nothing /\ setup.gateway
  BY DEF ModelInv, StreamTyped, GatewayRows
<1>2. caller.parts = Nothing
  <2>1. IsBeginning(caller.parts, Nothing) /\ caller.parts \in Texts
    BY <1>1, TakenTyped DEF LineInv
  <2> QED BY <2>1, EmptyText DEF IsBeginning
<1>3. WireInv' /\ model'.sent = 0 /\ model'.at = "asked"
  BY <1>1, NewAttemptKeepsWire DEF Taken
<1>4. ModelInv'
  <2>1. \A j \in 1..Len(wire') : wire'[j].kind \notin PartKinds
    BY EmptyText DEF Nothing
  <2>2. Attempted(gateway.parts)' /\ Attempted(caller.parts)'
    BY <1>1, <1>2, NothingIsAttempted DEF Attempted
  <2> QED BY <1>1, <1>2, <1>3, <2>1, <2>2 DEF ModelInv
<1>5. LineInv'
  BY <1>1 DEF LineInv
<1> QED BY <1>3, <1>4, <1>5

\* A candidate failed: the next one is tried, or the failure reported.
LEMMA GatewayFailsKeeps ==
  ASSUME StreamTyped, StreamTyped', ModelInv, WireInv, LineInv, gateway.at = "trying",
         GatewayFails, UNCHANGED <<setup, whole, caller, page>>
  PROVE  ModelInv' /\ WireInv' /\ LineInv'
<1>1. CASE MayFailOver
  BY <1>1, GatewayRetriesKeeps DEF GatewayFails, MayFailOver
<1>2. CASE ~MayFailOver
  <2>1. PICK e \in Events : /\ e.kind \in {"fault", "refused"} /\ line' = Append(line, e)
    BY <1>2, SignsAreEvents DEF GatewayFails, EventKinds
  <2> QED BY <1>2, <2>1, GatewayEndsKeeps DEF GatewayFails
<1> QED BY <1>1, <1>2

\* An event that is skipped ends nothing.
LEMMA SkipKeepsWire ==
  ASSUME StreamTyped, StreamTyped', WireInv, wire # Nothing, ModelIsRead, ModelIsRead', setup.streamed,
         Head(wire).kind \notin {"delta", "done", "complete"}, wire' = Tail(wire),
         UNCHANGED <<model, whole>>, Fixed, Taken' = Taken
  PROVE  WireInv'
<1>1. wire \in Seq(Events) /\ Taken \in Texts /\ Sent \in Texts /\ Sent' = Sent
  BY SentTyped, TakenTyped DEF StreamTyped, Sent
<1>2. /\ Link(Taken, wire, Sent, model.at \in {"asked", "sending"})
      /\ \A j \in 1..Len(wire) :
           /\ wire[j].kind = "done" => Sent \in whole
           /\ wire[j].kind = "absent" => Len(wire) = 1 /\ Taken = Nothing
           /\ wire[j].kind # "complete"
      /\ model.at # "asked"
  BY DEF WireInv
<1>3. Link(Taken, wire', Sent, model.at \in {"asked", "sending"})
  <2> DEFINE open == model.at \in {"asked", "sending"}
  <2>1. open \in BOOLEAN /\ Link(Taken, wire, Sent, open)
    BY <1>2
  <2> HIDE DEF open
  <2>2. Link(Taken, wire', Sent, open)
    BY <1>1, <2>1, LinkPasses DEF Nothing
  <2> QED BY <2>2 DEF open
<1>4. /\ Len(wire) \in Nat \ {0} /\ Len(wire') = Len(wire) - 1
      /\ \A j \in 1..Len(wire') : j + 1 \in 1..Len(wire) /\ wire'[j] = wire[j + 1]
  BY <1>1, FirstTaken DEF Nothing
<1>5. ASSUME NEW j \in 1..Len(wire')
      PROVE  /\ wire'[j].kind = "done" => Sent \in whole
             /\ wire'[j].kind # "absent"
             /\ wire'[j].kind # "complete"
  <2>1. j + 1 \in 1..Len(wire) /\ wire'[j] = wire[j + 1] /\ Len(wire) # 1
    BY <1>4
  <2> QED BY <1>2, <2>1
<1> QED BY <1>1, <1>2, <1>3, <1>5 DEF WireInv, Fixed

\* A part of the answer is read from the model.
LEMMA ReadKeepsWire ==
  ASSUME StreamTyped, StreamTyped', WireInv, wire # Nothing, ModelIsRead, ModelIsRead', setup.streamed,
         Head(wire).kind = "delta", wire' = Tail(wire),
         UNCHANGED <<model, whole>>, Fixed, Taken' = Taken \o Head(wire).text
  PROVE  /\ WireInv'
         /\ IsBeginning(Taken', Sent)
         /\ \E t \in Tokens : Head(wire) = Event("delta", <<t>>)
<1>1. wire \in Seq(Events) /\ Taken \in Texts /\ Sent \in Texts /\ Sent' = Sent
  BY SentTyped, TakenTyped DEF StreamTyped, Sent
<1>2. /\ Link(Taken, wire, Sent, model.at \in {"asked", "sending"})
      /\ \A j \in 1..Len(wire) :
           /\ wire[j].kind = "done" => Sent \in whole
           /\ wire[j].kind = "absent" => Len(wire) = 1 /\ Taken = Nothing
           /\ wire[j].kind # "complete"
      /\ model.at # "asked"
  BY DEF WireInv
<1>3. Link(Taken', wire', Sent, model.at \in {"asked", "sending"})
  <2> DEFINE open == model.at \in {"asked", "sending"}
  <2>1. open \in BOOLEAN /\ Link(Taken, wire, Sent, open)
    BY <1>2
  <2> HIDE DEF open
  <2>2. Link(Taken', wire', Sent, open)
    BY <1>1, <2>1, LinkReads DEF Nothing
  <2> QED BY <2>2 DEF open
<1>4. /\ Len(wire) \in Nat \ {0} /\ Len(wire') = Len(wire) - 1
      /\ \A j \in 1..Len(wire') : j + 1 \in 1..Len(wire) /\ wire'[j] = wire[j + 1]
  BY <1>1, FirstTaken DEF Nothing
<1>5. ASSUME NEW j \in 1..Len(wire')
      PROVE  /\ wire'[j].kind = "done" => Sent \in whole
             /\ wire'[j].kind # "absent"
             /\ wire'[j].kind # "complete"
  <2>1. j + 1 \in 1..Len(wire) /\ wire'[j] = wire[j + 1] /\ Len(wire) # 1
    BY <1>4
  <2> QED BY <1>2, <2>1
<1>6. WireInv'
  BY <1>1, <1>2, <1>3, <1>5 DEF WireInv, Fixed
<1>7. IsBeginning(Taken', Sent)
  BY <1>3 DEF Link
<1>8. \E t \in Tokens : Head(wire) = Event("delta", <<t>>)
  <2>1. /\ Len(Taken) + 1 \in 1..Len(Sent)
        /\ Head(wire).text = <<Sent[Len(Taken) + 1]>>
    <3> DEFINE open == model.at \in {"asked", "sending"}
    <3>1. open \in BOOLEAN /\ Link(Taken, wire, Sent, open)
      BY <1>2
    <3> HIDE DEF open
    <3>2. wire # <<>>
      BY DEF Nothing
    <3>3. Head(wire).kind = "delta" => /\ Len(Taken) + 1 \in 1..Len(Sent)
                                       /\ Head(wire).text = <<Sent[Len(Taken) + 1]>>
      BY <1>1, <3>1, <3>2, LinkFirstPart
    <3> QED BY <3>3
  <2>2. Sent[Len(Taken) + 1] \in Tokens
    BY <1>1, <2>1 DEF Texts
  <2>3. Head(wire) \in Events
    BY <1>1, EventsJoined DEF Nothing
  <2>4. Head(wire) = [kind |-> "delta", text |-> <<Sent[Len(Taken) + 1]>>]
    BY <2>1, <2>3 DEF Events
  <2> QED BY <2>2, <2>4 DEF Event
<1> QED BY <1>6, <1>7, <1>8

\* A part of the answer goes through the gateway.
LEMMA GatewayPassesKeeps ==
  ASSUME StreamTyped, StreamTyped', ModelInv, WireInv, LineInv, gateway.at = "trying",
         wire # Nothing, setup.streamed, Head(wire).kind = "delta", wire' = Tail(wire),
         gateway' = [gateway EXCEPT !.parts = @ \o Head(wire).text],
         line' = Append(line, Head(wire)),
         UNCHANGED <<setup, model, whole, caller, page>>
  PROVE  ModelInv' /\ WireInv' /\ LineInv'
<1>1. /\ gateway'.at = "trying" /\ gateway'.parts = gateway.parts \o Head(wire).text
      /\ setup.gateway /\ Fixed
  BY DEF ModelInv, StreamTyped, GatewayRows, Fixed
<1>2. ModelIsRead /\ ModelIsRead' /\ Taken = gateway.parts /\ Taken' = Taken \o Head(wire).text
  BY <1>1 DEF ModelIsRead, Taken
<1>3. WireInv' /\ IsBeginning(gateway'.parts, Sent)
  BY <1>1, <1>2, ReadKeepsWire
<1>4. PICK t \in Tokens : Head(wire) = Event("delta", <<t>>)
  BY <1>1, <1>2, ReadKeepsWire
<1>5. gateway'.parts = gateway.parts \o <<t>> /\ line' = Append(line, Event("delta", <<t>>))
  <2>1. Head(wire).text = <<t>>
    BY <1>4, TextsJoined, SignsAreEvents DEF EventKinds
  <2> QED BY <1>1, <1>4, <2>1
<1>6. /\ line \in Seq(Events) /\ caller.parts \in Texts /\ gateway.parts \in Texts
      /\ gateway'.parts \in Texts
  BY TakenTyped DEF StreamTyped, GatewayRows
<1>7. ModelInv'
  <2>1. Attempted(gateway'.parts)
    BY <1>3, <1>6, BeginsAttempted
  <2> QED BY <1>1, <2>1 DEF ModelInv, Attempted
<1>8. IsBeginning(caller.parts, gateway'.parts)
  <2>1. IsBeginning(caller.parts, gateway.parts)
    BY <1>1 DEF LineInv
  <2>2. /\ Len(gateway.parts \o <<t>>) = Len(gateway.parts) + 1 /\ Len(gateway.parts) \in Nat
        /\ \A i \in 1..Len(gateway.parts) : (gateway.parts \o <<t>>)[i] = gateway.parts[i]
    BY <1>6 DEF Texts
  <2>3. Len(caller.parts) \in Nat
    BY <1>6, EmptyText
  <2> DEFINE more == gateway.parts \o <<t>>
  <2>4. /\ Len(more) = Len(gateway.parts) + 1 /\ Len(gateway.parts) \in Nat
        /\ \A i \in 1..Len(gateway.parts) : more[i] = gateway.parts[i]
    BY <2>2
  <2> HIDE DEF more
  <2>5. IsBeginning(caller.parts, more)
    BY <2>1, <2>3, <2>4 DEF IsBeginning
  <2> QED BY <1>5, <2>5 DEF more
<1>9. ASSUME caller.at = "waiting"
      PROVE  /\ Link(caller.parts, line', gateway'.parts, TRUE)
             /\ \A j \in 1..Len(line') : line'[j].kind # "absent"
  <2>1. (gateway.at = "trying") = TRUE
    OBVIOUS
  <2>2. Link(caller.parts, line, gateway.parts, TRUE)
    BY <1>1, <1>9, <2>1 DEF LineInv
  <2>3. Link(caller.parts, line', gateway'.parts, TRUE)
    BY <1>5, <1>6, <2>2, LinkGrows
  <2>4. \A j \in 1..Len(line') : line'[j].kind # "absent"
    BY <2>3 DEF Link, OnlyParts, PartKinds
  <2> QED BY <2>3, <2>4
<1>10. LineInv'
  <2>1. (gateway'.at = "trying") = TRUE
    BY <1>1
  <2> QED BY <1>1, <1>8, <1>9, <2>1 DEF LineInv
<1> QED BY <1>3, <1>7, <1>10

\* A model is looked up for the request.
LEMMA GatewayResolvesKeeps ==
  ASSUME StreamTyped, StreamTyped', Fixed, ModelInv, WireInv, LineInv, GatewayResolves
  PROVE  ModelInv' /\ WireInv' /\ LineInv'
<1>1. /\ gateway.at = "asked" /\ setup.gateway /\ line = Nothing /\ caller.parts = Nothing
      /\ UNCHANGED <<whole, caller, page>>
      /\ gateway.parts \in Texts /\ caller.parts \in Texts /\ line \in Seq(Events)
  BY TakenTyped DEF GatewayResolves, ModelInv, LineInv, StreamTyped
<1>2. CASE /\ \E kind \in {"absent", "refused"} : line' = Append(line, Sign(kind))
           /\ gateway' = [gateway EXCEPT !.at = "over"]
           /\ UNCHANGED <<model, wire>>
  <2>1. gateway'.at = "over" /\ gateway'.parts = gateway.parts
    BY <1>2 DEF StreamTyped, GatewayRows
  <2>2. PICK kind \in {"absent", "refused"} : line' = Append(Nothing, Sign(kind))
    BY <1>1, <1>2
  <2>3. Sign(kind) \in Events /\ Sign(kind).kind = kind
    BY SignsAreEvents DEF EventKinds
  <2>4. Len(line') = 1 /\ line'[1] = Sign(kind)
    BY <2>2, <2>3 DEF Nothing
  <2>5. \A j \in 1..Len(line') : line'[j].kind \in {"absent", "refused"}
    BY <2>3, <2>4
  <2>6. Link(caller.parts, Nothing, gateway.parts, FALSE)
    BY <1>1, LinkFresh
  <2>7. Link(caller.parts, line', gateway.parts, FALSE)
    BY <1>1, <2>2, <2>3, <2>6, EmptyText, LinkAfter
  <2>8. ModelInv'
    BY <1>1, <1>2, <2>1, <2>5 DEF ModelInv, Attempted, Fixed, PartKinds
  <2>9. WireInv'
    BY <1>1, <2>1 DEF WireInv, ModelIsRead, Fixed
  <2>10. LineInv'
    <3>1. (gateway'.at = "trying") = FALSE
      BY <2>1
    <3> QED BY <1>1, <2>1, <2>4, <2>7, <3>1 DEF LineInv
  <2> QED BY <2>8, <2>9, <2>10
<1>3. CASE /\ gateway' = [at |-> "trying", left |-> setup.models - 1, parts |-> Nothing]
           /\ line' = IF setup.streamed THEN Append(line, Sign("open")) ELSE line
           /\ NewAttempt
           /\ wire' = Nothing
           /\ UNCHANGED setup
  <2>1. gateway'.at = "trying" /\ gateway'.parts = Nothing
    BY <1>3
  <2>2. WireInv' /\ model'.sent = 0 /\ model'.at = "asked"
    BY <1>1, <1>3, <2>1, NewAttemptKeepsWire DEF Taken
  <2>3. \A j \in 1..Len(wire') : wire'[j].kind \notin PartKinds
    BY <1>3, EmptyText DEF Nothing
  <2>4. ~setup.streamed => \A j \in 1..Len(line') : line'[j].kind \notin PartKinds
    BY <1>1, <1>3, EmptyText DEF Nothing
  <2>5. Attempted(gateway.parts)' /\ Attempted(caller.parts)'
    BY <1>1, <2>1, NothingIsAttempted DEF Attempted
  <2>6. ModelInv'
    BY <1>1, <1>3, <2>1, <2>2, <2>3, <2>4, <2>5 DEF ModelInv
  <2>7. ASSUME setup.streamed
        PROVE  /\ Link(caller.parts, line', Nothing, TRUE)
               /\ \A j \in 1..Len(line') : line'[j].kind # "absent"
    <3>1. line' = Append(Nothing, Sign("open"))
      BY <1>1, <1>3, <2>7
    <3>2. Link(Nothing, line', Nothing, TRUE)
      BY <3>1, EmptyText, LinkOpens
    <3>3. \A j \in 1..Len(line') : line'[j].kind # "absent"
      BY <3>2 DEF Link, OnlyParts, PartKinds
    <3> QED BY <1>1, <3>2, <3>3
  <2>8. LineInv'
    <3>1. (gateway'.at = "trying") = TRUE
      BY <2>1
    <3>2. IsBeginning(Nothing, Nothing)
      BY EmptyText DEF IsBeginning, Nothing
    <3> QED BY <1>1, <1>3, <2>1, <2>7, <3>1, <3>2 DEF LineInv
  <2> QED BY <2>2, <2>6, <2>8
<1> QED BY <1>2, <1>3 DEF GatewayResolves

\* Every step of the gateway.
LEMMA GatewayStepKeeps ==
  ASSUME StreamInv, GatewayStep
  PROVE  StreamInv'
<1>1. /\ StreamTyped /\ ModelInv /\ WireInv /\ LineInv /\ QueueInv /\ StartInv /\ DoneInv
      /\ KeptInv
  BY DEF StreamInv
<1>2. StreamTyped' /\ Fixed /\ UNCHANGED <<whole, caller, queue, relay, page, saved, status>>
  BY <1>1, GatewayStepTyped
<1>3. gateway.at \in {"asked", "trying"}
  BY DEF GatewayStep, GatewayResolves, GatewayReadsChunk, GatewayReadsBody, GatewayTimesOut,
     GatewayIsLeft
<1>4. QueueInv' /\ StartInv' /\ DoneInv' /\ KeptInv'
  BY <1>1, <1>2, <1>3, QueueFrame, StartFrame, DoneFrame, KeptFrame
<1>5. SUFFICES ModelInv' /\ WireInv' /\ LineInv'
  BY <1>2, <1>4 DEF StreamInv
<1>6. wire # Nothing => Head(wire) \in Events
  BY <1>1, EventsJoined DEF StreamTyped, Nothing
<1>7. CASE GatewayResolves
  BY <1>1, <1>2, <1>7, GatewayResolvesKeeps
<1>8. ASSUME GatewayFails, gateway.at = "trying", UNCHANGED setup
      PROVE  ModelInv' /\ WireInv' /\ LineInv'
  BY <1>1, <1>2, <1>8, GatewayFailsKeeps
<1>9. CASE GatewayReadsChunk
  <2>1. wire # Nothing /\ gateway.at = "trying" /\ setup.streamed /\ UNCHANGED setup
    BY <1>9 DEF GatewayReadsChunk
  <2>2. CASE /\ Head(wire).kind \in {"open", "fault", "missing"}
             /\ wire' = Tail(wire)
             /\ UNCHANGED <<gateway, line, model>>
    <3>1. setup.gateway /\ Fixed
      BY <1>1, <1>2, <2>1 DEF ModelInv
    <3>2. ModelIsRead /\ ModelIsRead' /\ Taken' = Taken
      BY <1>2, <2>1, <2>2, <3>1 DEF ModelIsRead, Taken
    <3>3. WireInv'
      BY <1>1, <1>2, <2>1, <2>2, <3>1, <3>2, SkipKeepsWire
    <3>4. ModelInv'
      BY <1>1, <1>2, <2>1, <2>2 DEF ModelInv, Attempted
    <3>5. LineInv'
      BY <1>1, <1>2, <2>2, LineFrame
    <3> QED BY <3>3, <3>4, <3>5
  <2>3. CASE /\ Head(wire).kind = "delta"
             /\ wire' = Tail(wire)
             /\ gateway' = [gateway EXCEPT !.parts = @ \o Head(wire).text]
             /\ line' = Append(line, Head(wire))
             /\ UNCHANGED model
    BY <1>1, <1>2, <2>1, <2>3, GatewayPassesKeeps
  <2>4. CASE GatewayCompletes
    <3>1. CASE gateway.parts = Nothing
      BY <1>8, <2>1, <2>4, <3>1 DEF GatewayCompletes
    <3>2. CASE gateway.parts # Nothing
      <4>1. /\ Event("complete", gateway.parts) \in Events
            /\ Event("complete", gateway.parts).kind = "complete"
            /\ Event("complete", gateway.parts).text = gateway.parts
        BY <1>1, TakenTyped, SignsAreEvents DEF EventKinds
      <4> QED BY <1>1, <1>2, <2>1, <2>4, <3>2, <4>1, GatewayEndsKeeps DEF GatewayCompletes
    <3> QED BY <3>1, <3>2
  <2>5. CASE /\ Head(wire).kind = "reset"
             /\ gateway' = [gateway EXCEPT !.at = "over"]
             /\ line' = Append(line, Head(wire))
             /\ wire' = Nothing
             /\ UNCHANGED model
    BY <1>1, <1>2, <1>6, <2>1, <2>5, GatewayEndsKeeps
  <2> QED BY <1>8, <1>9, <2>1, <2>2, <2>3, <2>4, <2>5 DEF GatewayReadsChunk
<1>10. CASE GatewayReadsBody
  <2>1. wire # Nothing /\ gateway.at = "trying" /\ ~setup.streamed /\ UNCHANGED setup
    BY <1>10 DEF GatewayReadsBody
  <2>2. CASE /\ Head(wire).kind \in {"answer", "reset"}
             /\ gateway' = [gateway EXCEPT !.at = "over"]
             /\ line' = Append(line, IF Head(wire).kind = "answer" THEN Head(wire)
                                     ELSE Sign("refused"))
             /\ wire' = Nothing
             /\ UNCHANGED model
    <3>1. Sign("refused") \in Events /\ Sign("refused").kind = "refused"
      BY SignsAreEvents DEF EventKinds
    <3> DEFINE e == IF Head(wire).kind = "answer" THEN Head(wire) ELSE Sign("refused")
    <3>2. e \in Events /\ e.kind \in {"answer", "refused"} /\ line' = Append(line, e)
      BY <1>6, <2>1, <2>2, <3>1
    <3> HIDE DEF e
    <3> QED BY <1>1, <1>2, <2>1, <2>2, <3>2, GatewayEndsKeeps
  <2> QED BY <1>8, <1>10, <2>1, <2>2 DEF GatewayReadsBody
<1>11. CASE GatewayTimesOut
  BY <1>8, <1>11 DEF GatewayTimesOut
<1>12. CASE GatewayIsLeft
  <2>1. /\ gateway'.at = "over" /\ gateway'.parts = gateway.parts /\ caller.at = "over"
        /\ UNCHANGED <<setup, model, wire, line, caller, page>> /\ setup.gateway
    BY <1>1, <1>3, <1>12 DEF GatewayIsLeft, StreamTyped, GatewayRows, ModelInv
  <2>2. ModelInv'
    BY <1>1, <2>1 DEF ModelInv, Attempted
  <2>3. WireInv'
    BY <2>1 DEF WireInv, ModelIsRead
  <2>4. LineInv'
    BY <2>1 DEF LineInv
  <2> QED BY <2>2, <2>3, <2>4
<1> QED BY <1>7, <1>9, <1>10, <1>11, <1>12 DEF GatewayStep

-----------------------------------------------------------------------------
(* The caller                                                              *)

\* What the formats make of an event.
LEMMA ReceivedIsFirst ==
  ASSUME StreamTyped, Incoming # Nothing
  PROVE  /\ Received.kind \in PartKinds => Received = Head(Incoming)
         /\ Received.kind = "absent" => Head(Incoming).kind = "absent"
         /\ Received.kind = "missing" => Head(Incoming).kind = "missing"
         /\ Received.kind = "complete" /\ setup.streamed =>
              \/ Head(Incoming).kind = "answer"
              \/ Head(Incoming).kind = "done" /\ Received.text = caller.parts
              \/ Head(Incoming).kind = "complete" /\ Received = Head(Incoming)
<1> DEFINE first == Head(Incoming)
<1>1. first \in Events /\ caller.parts \in Texts /\ first.text \in Texts
  BY ReceivedTyped DEF StreamTyped, CallerRows, Events
<1>2. /\ Event("complete", caller.parts).kind = "complete"
      /\ Event("complete", caller.parts).text = caller.parts
      /\ Event("complete", first.text).kind = "complete"
      /\ Sign("fault").kind = "fault" /\ Sign("complete").kind = "complete"
  BY <1>1, SignsAreEvents DEF EventKinds
<1> HIDE DEF first
<1>3. \/ first.kind = "answer" /\ Normalized(first).kind = "complete"
      \/ first.kind = "done" /\ Normalized(first).kind = "complete"
           /\ Normalized(first).text = caller.parts
      \/ first.kind \in {"refused", "unreachable"} /\ Normalized(first).kind = "fault"
      \/ first.kind \notin {"answer", "done", "refused", "unreachable"} /\ Normalized(first) = first
  BY <1>2 DEF Normalized
<1>4. \/ OfBody(first).kind = "complete"
      \/ OfBody(first) = Normalized(first)
  BY <1>2 DEF OfBody
<1>5. Received = IF setup.streamed THEN Normalized(first) ELSE OfBody(first)
  BY DEF Received, first
<1>6. /\ Received.kind \in PartKinds => Received = first
      /\ Received.kind = "absent" => first.kind = "absent"
      /\ Received.kind = "missing" => first.kind = "missing"
      /\ Received.kind = "complete" /\ setup.streamed =>
           \/ first.kind = "answer"
           \/ first.kind = "done" /\ Received.text = caller.parts
           \/ first.kind = "complete" /\ Received = first
  BY <1>3, <1>4, <1>5 DEF PartKinds
<1> QED BY <1>6 DEF first

\* What the caller reads, over either way.
LEMMA IncomingLinked ==
  ASSUME StreamTyped, ModelInv, WireInv, LineInv, caller.at = "waiting", setup.streamed,
         Incoming # Nothing
  PROVE  /\ Head(Incoming).kind = "absent" => caller.parts = Nothing
         /\ Head(Incoming).kind # "answer"
         /\ Head(Incoming).kind = "complete" => Head(Incoming).text = caller.parts
         /\ Head(Incoming).kind \in {"done", "complete"} /\ ~setup.gateway =>
              caller.parts \in whole
         /\ Head(Incoming).kind = "open" => Head(Incoming).text = Nothing
         /\ Head(Incoming).kind \notin PartKinds /\ setup.gateway => gateway.at # "trying"
<1>1. /\ caller.parts \in Texts /\ Incoming \in Seq(Events) /\ Incoming # <<>>
      /\ Len(Incoming) \in Nat \ {0} /\ Head(Incoming) = Incoming[1] /\ 1 \in 1..Len(Incoming)
  BY TakenTyped, ReceivedTyped, FirstTaken DEF Nothing
<1>2. CASE setup.gateway
  <2> DEFINE open == gateway.at = "trying"
  <2>1. Incoming = line /\ gateway.at # "asked" /\ open \in BOOLEAN /\ gateway.parts \in Texts
    BY <1>2, TakenTyped DEF Incoming, LineInv
  <2>2. /\ Link(caller.parts, line, gateway.parts, open)
        /\ line[1].kind = "absent" => caller.parts = Nothing
    BY <1>1, <1>2, <2>1 DEF LineInv
  <2> HIDE DEF open
  <2>3. /\ Head(line).kind = "open" => Head(line).text = Nothing
        /\ Head(line).kind \in {"done", "complete"} => caller.parts = gateway.parts
        /\ Head(line).kind = "complete" => Head(line).text = gateway.parts
        /\ Head(line).kind # "answer"
        /\ open => Head(line).kind \in PartKinds
    BY <1>1, <2>1, <2>2, LinkFirst
  <2> QED BY <1>1, <1>2, <2>1, <2>2, <2>3 DEF open
<1>3. CASE ~setup.gateway
  <2> DEFINE open == model.at \in {"asked", "sending"}
  <2>1. Incoming = wire /\ ModelIsRead /\ Taken = caller.parts /\ open \in BOOLEAN
    BY <1>3 DEF Incoming, ModelIsRead, Taken
  <2>2. /\ Link(caller.parts, wire, Sent, open) /\ Sent \in Texts
        /\ wire[1].kind = "done" => Sent \in whole
        /\ wire[1].kind = "absent" => caller.parts = Nothing
        /\ wire[1].kind # "complete"
    BY <1>1, <2>1, SentTyped DEF WireInv
  <2> HIDE DEF open
  <2>3. /\ Head(wire).kind = "open" => Head(wire).text = Nothing
        /\ Head(wire).kind \in {"done", "complete"} => caller.parts = Sent
        /\ Head(wire).kind # "answer"
    BY <1>1, <2>1, <2>2, LinkFirst
  <2> QED BY <1>1, <1>3, <2>1, <2>2, <2>3
<1> QED BY <1>2, <1>3

\* Without streaming no part is received.
LEMMA PartsAreStreamed ==
  ASSUME StreamTyped, ModelInv, Incoming # Nothing, Received.kind \in PartKinds
  PROVE  setup.streamed
<1> SUFFICES ASSUME ~setup.streamed PROVE FALSE
  OBVIOUS
<1>1. Head(Incoming).kind \in PartKinds
  BY ReceivedIsFirst
<1>2. 1 \in 1..Len(Incoming) /\ Head(Incoming) = Incoming[1]
  BY ReceivedTyped, FirstTaken DEF Nothing
<1> QED BY <1>1, <1>2 DEF ModelInv, Incoming

\* A request is sent, again or for another model, before any part was received.
LEMMA ConnectKeeps ==
  ASSUME StreamTyped, StreamTyped', ModelInv, WireInv, LineInv, Connect, caller.parts = Nothing,
         caller'.parts = Nothing, UNCHANGED <<setup, whole, page>>
  PROVE  ModelInv' /\ WireInv' /\ LineInv'
<1>1. CASE setup.gateway
  <2>1. /\ gateway'.at = "asked" /\ gateway'.parts = gateway.parts /\ line' = Nothing
        /\ UNCHANGED <<model, wire>>
    BY <1>1 DEF Connect, StreamTyped, GatewayRows
  <2>2. \A j \in 1..Len(line') : FALSE
    BY <2>1, EmptyText
  <2>3. ModelInv'
    BY <1>1, <2>1, <2>2 DEF ModelInv, Attempted
  <2>4. WireInv'
    BY <1>1, <2>1 DEF WireInv, ModelIsRead
  <2>5. LineInv'
    BY <1>1, <2>1, <2>2 DEF LineInv
  <2> QED BY <2>3, <2>4, <2>5
<1>2. CASE ~setup.gateway
  <2>1. NewAttempt /\ wire' = Nothing /\ UNCHANGED <<gateway, line>> /\ gateway.parts = Nothing
    BY <1>2 DEF Connect, ModelInv
  <2>2. WireInv' /\ model'.sent = 0 /\ model'.at = "asked"
    BY <1>2, <2>1, NewAttemptKeepsWire DEF Taken
  <2>3. \A j \in 1..Len(wire') : FALSE
    BY <2>1, EmptyText
  <2>4. Attempted(gateway.parts)' /\ Attempted(caller.parts)'
    BY <2>1, NothingIsAttempted DEF Attempted
  <2>5. ModelInv'
    BY <1>2, <2>1, <2>2, <2>3, <2>4 DEF ModelInv
  <2>6. LineInv'
    BY <1>2 DEF LineInv
  <2> QED BY <2>2, <2>5, <2>6
<1> QED BY <1>1, <1>2

\* The same while the caller goes on waiting.
LEMMA ReconnectKeeps ==
  ASSUME StreamInv, StreamTyped', Connect, caller.parts = Nothing, caller'.parts = Nothing,
         caller.at = "waiting", caller'.at = "waiting", caller'.asks \in 1..2,
         UNCHANGED <<setup, whole, queue, relay, page, saved, status>>
  PROVE  StreamInv'
<1>1. /\ StreamTyped /\ ModelInv /\ WireInv /\ LineInv /\ QueueInv /\ StartInv /\ DoneInv
      /\ KeptInv /\ Fixed
  BY DEF StreamInv, Fixed
<1>2. ModelInv' /\ WireInv' /\ LineInv'
  BY <1>1, ConnectKeeps
<1>3. QueueInv'
  BY <1>1 DEF QueueInv
<1>4. StartInv'
  BY <1>1 DEF StartInv
<1>5. DoneInv' /\ KeptInv'
  <2>1. DoneInv'
    BY <1>1 DEF DoneInv, InEngine
  <2> QED BY <1>1, <2>1, KeptFrame
<1> QED BY <1>2, <1>3, <1>4, <1>5 DEF StreamInv

\* The pool of connections sends the request once more.
LEMMA SendAgainKeeps ==
  ASSUME StreamInv, SendAgain
  PROVE  StreamInv'
<1>1. StreamTyped /\ StartInv
  BY DEF StreamInv
<1>2. StreamTyped'
  BY <1>1, CallerStepsTyped DEF CallerSteps, CallerStep
<1>3. /\ caller.at = "waiting" /\ ~caller.head /\ caller' = [caller EXCEPT !.tries = 2] /\ Connect
      /\ UNCHANGED <<setup, whole, queue, relay, page, saved, status>>
  BY DEF SendAgain, MaySendAgain, CallerWaited, Unreachable, CallerRuns
<1>4. /\ caller.parts = Nothing /\ caller'.parts = Nothing /\ caller'.at = "waiting"
      /\ caller'.asks \in 1..2
  BY <1>1, <1>3 DEF StartInv, StreamTyped, CallerRows
<1> QED BY <1>2, <1>3, <1>4, ReconnectKeeps

\* The adapter asks for the local alias.
LEMMA FallBackKeeps ==
  ASSUME StreamInv, MayConclude, Received.kind = "absent", MayFallBack, Ask, StreamTyped',
         UNCHANGED <<setup, whole, queue, relay, page, saved, status>>
  PROVE  StreamInv'
<1>1. StreamTyped /\ ModelInv /\ WireInv /\ LineInv
  BY DEF StreamInv
<1>2. caller.at = "waiting" /\ Incoming # Nothing /\ caller.asks = 1
  BY DEF MayConclude, CallerRuns, MayFallBack
<1>3. caller.parts = Nothing
  <2>1. CASE setup.streamed
    BY <1>1, <1>2, <2>1, ReceivedIsFirst, IncomingLinked
  <2>2. CASE ~setup.streamed
    BY <1>1, <2>2 DEF ModelInv
  <2> QED BY <2>1, <2>2
<1>4. /\ Connect /\ caller'.at = "waiting" /\ caller'.parts = caller.parts /\ caller'.asks = 2
  BY <1>1, <1>2 DEF Ask, StreamTyped, CallerRows
<1> QED BY <1>2, <1>3, <1>4, ReconnectKeeps

\* Nothing is added to a text.
LEMMA NothingIsAdded == \A s \in Texts : s \o Nothing = s
BY DEF Texts, Nothing

\* A part is received from the model itself.
LEMMA ReadOfModelKeeps ==
  ASSUME StreamTyped, StreamTyped', ModelInv, WireInv, LineInv, ~setup.gateway, setup.streamed,
         caller.at = "waiting", wire # Nothing, Head(wire).kind \in PartKinds, wire' = Tail(wire),
         caller' = [caller EXCEPT !.parts = @ \o Head(wire).text, !.head = TRUE],
         UNCHANGED <<setup, model, whole, gateway, line, page>>
  PROVE  /\ ModelInv' /\ WireInv' /\ LineInv'
         /\ Head(wire).kind = "delta" => \E t \in Tokens : Head(wire) = Event("delta", <<t>>)
<1>1. /\ caller'.at = "waiting" /\ caller'.parts = caller.parts \o Head(wire).text
      /\ caller.parts \in Texts /\ caller'.parts \in Texts /\ Fixed
  BY TakenTyped DEF StreamTyped, CallerRows, Fixed
<1>2. ModelIsRead /\ ModelIsRead' /\ Taken = caller.parts /\ Taken' = caller'.parts
  BY <1>1 DEF ModelIsRead, Taken
<1>3. LineInv'
  BY DEF LineInv
<1>4. CASE Head(wire).kind = "open"
  <2>1. Head(wire).text = Nothing
    <3>1. Incoming = wire
      BY DEF Incoming
    <3> QED BY <1>4, <3>1, IncomingLinked
  <2>2. caller'.parts = caller.parts
    BY <1>1, <2>1, NothingIsAdded
  <2>3. WireInv'
    BY <1>1, <1>2, <1>4, <2>2, SkipKeepsWire
  <2>4. ModelInv'
    BY <2>2 DEF ModelInv, Attempted
  <2> QED BY <1>3, <1>4, <2>3, <2>4
<1>5. CASE Head(wire).kind = "delta"
  <2>1. /\ WireInv' /\ IsBeginning(caller'.parts, Sent)
        /\ \E t \in Tokens : Head(wire) = Event("delta", <<t>>)
    BY <1>1, <1>2, <1>5, ReadKeepsWire
  <2>2. Attempted(caller'.parts)
    BY <1>1, <2>1, BeginsAttempted
  <2>3. ModelInv'
    BY <2>2 DEF ModelInv, Attempted
  <2> QED BY <1>3, <2>1, <2>3
<1> QED BY <1>4, <1>5 DEF PartKinds

\* What begins a text of an attempt is of that attempt.
LEMMA BeginningAttempted ==
  ASSUME NEW read \in Texts, NEW text \in Texts, IsBeginning(read, text), Attempted(text)
  PROVE  Attempted(read)
<1>1. Len(read) \in Nat /\ Len(text) \in Nat
  BY EmptyText
<1> QED BY <1>1 DEF Attempted, IsBeginning

\* A part is received from the gateway.
LEMMA ReadOfGatewayKeeps ==
  ASSUME StreamTyped, StreamTyped', ModelInv, WireInv, LineInv, setup.gateway, setup.streamed,
         caller.at = "waiting", line # Nothing, Head(line).kind \in PartKinds, line' = Tail(line),
         caller' = [caller EXCEPT !.parts = @ \o Head(line).text, !.head = TRUE],
         UNCHANGED <<setup, model, whole, gateway, wire, page>>
  PROVE  /\ ModelInv' /\ WireInv' /\ LineInv'
         /\ Head(line).kind = "delta" => \E t \in Tokens : Head(line) = Event("delta", <<t>>)
<1> DEFINE open == gateway.at = "trying"
<1>1. /\ caller'.at = "waiting" /\ caller'.parts = caller.parts \o Head(line).text
      /\ caller.parts \in Texts /\ caller'.parts \in Texts /\ gateway.parts \in Texts
      /\ line \in Seq(Events) /\ line # <<>> /\ Head(line) \in Events
  BY TakenTyped, EventsJoined DEF StreamTyped, CallerRows, Nothing
<1>2. /\ Len(line) \in Nat \ {0} /\ Len(line') = Len(line) - 1
      /\ \A j \in 1..Len(line') : j + 1 \in 1..Len(line) /\ line'[j] = line[j + 1]
  BY <1>1, FirstTaken
<1>3. /\ gateway.at # "asked" /\ open \in BOOLEAN
      /\ Link(caller.parts, line, gateway.parts, open)
      /\ \A j \in 1..Len(line) :
           line[j].kind = "absent" => Len(line) = 1 /\ caller.parts = Nothing
  BY DEF LineInv
<1>4. \A j \in 1..Len(line') : line'[j].kind # "absent"
  <2> SUFFICES ASSUME NEW j \in 1..Len(line') PROVE line'[j].kind # "absent"
    OBVIOUS
  <2>1. j + 1 \in 1..Len(line) /\ line'[j] = line[j + 1] /\ Len(line) # 1
    BY <1>2
  <2> QED BY <1>3, <2>1
<1> HIDE DEF open
<1>5. /\ Link(caller'.parts, line', gateway.parts, open)
      /\ Head(line).kind = "delta" => \E t \in Tokens : Head(line) = Event("delta", <<t>>)
  <2>1. CASE Head(line).kind = "open"
    <3>1. Head(line).text = Nothing
      <4>1. Incoming = line
        BY DEF Incoming
      <4> QED BY <2>1, <4>1, IncomingLinked
    <3>2. caller'.parts = caller.parts
      BY <1>1, <3>1, NothingIsAdded
    <3>3. Link(caller.parts, Tail(line), gateway.parts, open)
      BY <1>1, <1>3, <2>1, LinkPasses
    <3> QED BY <2>1, <3>2, <3>3
  <2>2. CASE Head(line).kind = "delta"
    <3>1. Link(caller'.parts, line', gateway.parts, open)
      BY <1>1, <1>3, <2>2, LinkReads
    <3>2. /\ Len(caller.parts) + 1 \in 1..Len(gateway.parts)
          /\ Head(line).text = <<gateway.parts[Len(caller.parts) + 1]>>
      <4>1. /\ caller.parts \in Texts /\ gateway.parts \in Texts /\ line \in Seq(Events)
            /\ line # <<>> /\ open \in BOOLEAN /\ Link(caller.parts, line, gateway.parts, open)
        BY <1>1, <1>3
      <4> QED BY <2>2, <4>1, LinkFirstPart
    <3>3. gateway.parts[Len(caller.parts) + 1] \in Tokens
      BY <1>1, <3>2 DEF Texts
    <3>4. Head(line) = [kind |-> "delta", text |-> <<gateway.parts[Len(caller.parts) + 1]>>]
      BY <1>1, <2>2, <3>2 DEF Events
    <3> QED BY <3>1, <3>3, <3>4 DEF Event
  <2> QED BY <2>1, <2>2 DEF PartKinds
<1>6. IsBeginning(caller'.parts, gateway.parts)
  BY <1>5 DEF Link
<1>7. ModelInv'
  <2>1. Attempted(caller'.parts)
    <3>1. Attempted(gateway.parts)
      BY DEF ModelInv
    <3> QED BY <1>1, <1>6, <3>1, BeginningAttempted
  <2> QED BY <2>1 DEF ModelInv, Attempted
<1>8. WireInv'
  BY DEF WireInv, ModelIsRead, Taken, Sent
<1>9. LineInv'
  BY <1>1, <1>3, <1>4, <1>5, <1>6 DEF LineInv, open
<1> QED BY <1>5, <1>7, <1>8, <1>9

\* A text begins the longer one, too.
LEMMA BeginsLonger ==
  ASSUME NEW read \in Texts, NEW text \in Texts, NEW more \in Texts, IsBeginning(read, text)
  PROVE  IsBeginning(read, text \o more)
<1> DEFINE longer == text \o more
<1>1. /\ Len(longer) >= Len(text) /\ Len(text) \in Nat /\ Len(longer) \in Nat
      /\ \A i \in 1..Len(text) : longer[i] = text[i]
  BY DEF Texts
<1>2. Len(read) \in Nat
  BY EmptyText
<1> HIDE DEF longer
<1>3. IsBeginning(read, longer)
  BY <1>1, <1>2 DEF IsBeginning
<1> QED BY <1>3 DEF longer

\* What is received is passed on to the request.
LEMMA CallerPassesKeeps ==
  ASSUME StreamInv, CallerPasses
  PROVE  StreamInv'
<1>1. /\ StreamTyped /\ ModelInv /\ WireInv /\ LineInv /\ QueueInv /\ StartInv /\ DoneInv
      /\ KeptInv
  BY DEF StreamInv
<1>2. StreamTyped' /\ Fixed
  BY <1>1, CallerStepsTyped DEF CallerSteps, CallerStep
<1>3. /\ caller.at = "waiting" /\ Incoming # Nothing /\ Received.kind \in PartKinds
      /\ UNCHANGED <<setup, model, whole, gateway, relay, page, saved, status>>
  BY DEF CallerPasses, CallerRuns, PartKinds
<1>4. Received = Head(Incoming) /\ setup.streamed
  BY <1>1, <1>3, ReceivedIsFirst, PartsAreStreamed
<1> DEFINE e == Head(Incoming)
<1>5. /\ caller' = [caller EXCEPT !.parts = @ \o e.text, !.head = TRUE]
      /\ queue' = IF e.kind = "delta" THEN Append(queue, e) ELSE queue
      /\ e.kind \in PartKinds /\ e \in Events
  BY <1>1, <1>3, <1>4, ReceivedTyped DEF CallerPasses
<1>6. /\ caller'.at = "waiting" /\ caller'.head /\ caller'.asks = caller.asks
      /\ caller'.parts = caller.parts \o e.text /\ e.text \in Texts /\ caller.parts \in Texts
  BY <1>1, <1>3, <1>5, TakenTyped DEF StreamTyped, CallerRows, Events
<1>7. /\ ModelInv' /\ WireInv' /\ LineInv'
      /\ e.kind = "delta" => \E t \in Tokens : e = Event("delta", <<t>>)
  <2>1. CASE setup.gateway
    <3>1. Incoming = line /\ line' = Tail(line) /\ UNCHANGED wire
      BY <2>1 DEF CallerPasses, Incoming
    <3> QED BY <1>1, <1>2, <1>3, <1>4, <1>5, <2>1, <3>1, ReadOfGatewayKeeps
  <2>2. CASE ~setup.gateway
    <3>1. Incoming = wire /\ wire' = Tail(wire) /\ UNCHANGED line
      BY <2>2 DEF CallerPasses, Incoming
    <3> QED BY <1>1, <1>2, <1>3, <1>4, <1>5, <2>2, <3>1, ReadOfModelKeeps
  <2> QED BY <2>1, <2>2
<1>8. e.kind = "open" => e.text = Nothing
  BY <1>1, <1>3, <1>4, IncomingLinked
<1> HIDE DEF e
<1>9. ASSUME relay.at = "reading"
      PROVE  /\ Link(page.shown, queue', caller'.parts, TRUE)
             /\ \A j \in 1..Len(queue') : queue'[j].kind \notin {"open"}
  <2>1. (caller.at = "waiting") = TRUE
    BY <1>3
  <2>2. Link(page.shown, queue, caller.parts, TRUE)
    BY <1>1, <1>4, <1>9, <2>1 DEF QueueInv
  <2>3. \A j \in 1..Len(queue) : queue[j].kind \notin {"open"}
    BY <1>1, <1>4, <1>9 DEF QueueInv
  <2>4. page.shown \in Texts /\ queue \in Seq(Events)
    BY <1>1 DEF StreamTyped, PageRows
  <2>5. CASE e.kind = "open"
    <3>1. queue' = queue /\ caller'.parts = caller.parts
      BY <1>5, <1>6, <1>8, <2>5, NothingIsAdded
    <3> QED BY <2>2, <2>3, <3>1
  <2>6. CASE e.kind = "delta"
    <3>1. PICK t \in Tokens : e = Event("delta", <<t>>)
      BY <1>7, <2>6
    <3>2. e.text = <<t>>
      BY <3>1, TextsJoined, SignsAreEvents DEF EventKinds
    <3>3. queue' = Append(queue, Event("delta", <<t>>)) /\ caller'.parts = caller.parts \o <<t>>
      BY <1>5, <1>6, <2>6, <3>1, <3>2
    <3>4. Link(page.shown, queue', caller'.parts, TRUE)
      BY <1>6, <2>2, <2>4, <3>3, LinkGrows
    <3>5. queue' = Append(queue, e) /\ e \in Events /\ e.kind \notin {"open"}
      BY <1>5, <2>6
    <3>6. \A j \in 1..Len(queue') : queue'[j].kind \notin {"open"}
      BY <2>3, <2>4, <3>5, NoPartsAdded
    <3> QED BY <3>4, <3>6
  <2> QED BY <1>5, <2>5, <2>6 DEF PartKinds
<1>10. relay.at = "reading" => \A j \in 1..Len(queue') : queue'[j].kind # "complete"
  BY <1>9 DEF Link, OnlyParts, PartKinds
<1>11. QueueInv'
  <2>1. IsBeginning(page.shown, caller'.parts)
    <3>1. page.shown \in Texts /\ IsBeginning(page.shown, caller.parts)
      BY <1>1 DEF StreamTyped, PageRows, QueueInv
    <3> QED BY <1>6, <3>1, BeginsLonger
  <2>2. (caller'.at = "waiting") = TRUE
    BY <1>6
  <2>3. relay.parts = page.shown
    BY <1>1 DEF QueueInv
  <2> QED BY <1>3, <1>9, <1>10, <2>1, <2>2, <2>3 DEF QueueInv
<1>12. StartInv'
  BY <1>1, <1>3, <1>6 DEF StartInv
<1>13. DoneInv'
  BY <1>1, <1>3, <1>6, <1>10 DEF DoneInv, InEngine
<1>14. KeptInv'
  BY <1>1, <1>2, <1>3, KeptFrame
<1> QED BY <1>2, <1>7, <1>11, <1>12, <1>13, <1>14 DEF StreamInv

\* Whatever it is that comes last, the caller passes it on and is through.
LEMMA CallerOverKeeps ==
  ASSUME StreamInv, StreamTyped', Fixed, NEW event \in Events,
         event.kind \in {"complete", "error", "end", "reset"},
         setup.streamed /\ event.kind = "complete" =>
           event.text = caller.parts /\ (~setup.gateway => caller.parts \in whole),
         InEngine /\ event.kind = "complete" => status' = "done",
         status' = status \/ InEngine,
         caller.at = "waiting", caller'.at = "over", caller'.parts = caller.parts,
         caller'.head = caller.head, queue' = Append(queue, event),
         line' \in {line, Nothing}, wire' \in {wire, Nothing},
         setup.gateway /\ gateway.at = "trying" => wire' = wire,
         UNCHANGED <<gateway, model, whole, relay, page, saved>>
  PROVE  StreamInv'
<1>1. /\ StreamTyped /\ ModelInv /\ WireInv /\ LineInv /\ QueueInv /\ StartInv /\ DoneInv
      /\ KeptInv
  BY DEF StreamInv
<1>2. \A j \in 1..Len(Nothing) : FALSE
  BY EmptyText
<1>3. ModelInv'
  <2>1. ~setup.streamed => /\ \A j \in 1..Len(wire') : wire'[j].kind \notin PartKinds
                           /\ \A j \in 1..Len(line') : line'[j].kind \notin PartKinds
    BY <1>1, <1>2 DEF ModelInv
  <2>2. Attempted(gateway.parts)' /\ Attempted(caller.parts)'
    BY <1>1 DEF ModelInv, Attempted
  <2> HIDE DEF Attempted
  <2> QED BY <1>1, <2>1, <2>2 DEF ModelInv, Fixed
<1>4. WireInv'
  <2>1. CASE setup.gateway /\ gateway.at = "trying"
    <3>1. UNCHANGED <<model, wire, gateway, whole>> /\ Taken' = Taken /\ Sent' = Sent /\ ModelIsRead
      BY <2>1 DEF Taken, Sent, Fixed, ModelIsRead
    <3> QED BY <1>1, <3>1 DEF WireInv, Fixed
  <2>2. CASE ~(setup.gateway /\ gateway.at = "trying")
    BY <2>2 DEF WireInv, ModelIsRead, Fixed
  <2> QED BY <2>1, <2>2
<1>5. LineInv'
  BY <1>1 DEF LineInv, Fixed
<1>6. ASSUME relay.at = "reading", setup.streamed
      PROVE  /\ Link(page.shown, queue', caller.parts, FALSE)
             /\ \A j \in 1..Len(queue') : queue'[j].kind \notin {"open"}
             /\ ~setup.gateway =>
                  \A j \in 1..Len(queue') : queue'[j].kind = "complete" => caller.parts \in whole
  <2>1. (caller.at = "waiting") = TRUE
    OBVIOUS
  <2>2. Link(page.shown, queue, caller.parts, TRUE)
    BY <1>1, <1>6, <2>1 DEF QueueInv
  <2>3. \A j \in 1..Len(queue) : queue[j].kind \notin {"open"}
    BY <1>1, <1>6 DEF QueueInv
  <2>4. page.shown \in Texts /\ queue \in Seq(Events) /\ caller.parts \in Texts
    BY <1>1, TakenTyped DEF StreamTyped, PageRows
  <2>5. Link(page.shown, queue', caller.parts, FALSE)
    BY <1>6, <2>2, <2>4, LinkAfter
  <2>6. \A j \in 1..Len(queue') : queue'[j].kind \notin {"open"}
    BY <2>3, <2>4, NoPartsAdded
  <2>7. ASSUME ~setup.gateway, NEW j \in 1..Len(queue'), queue'[j].kind = "complete"
        PROVE  caller.parts \in whole
    <3>1. CASE j \in 1..Len(queue)
      <4>1. queue'[j] = queue[j]
        BY <2>4, <3>1, LastAdded
      <4> QED BY <2>2, <2>7, <3>1, <4>1 DEF Link, OnlyParts, PartKinds
    <3>2. CASE j = Len(queue) + 1
      <4>1. queue'[j] = event
        BY <2>4, <3>2, LastAdded
      <4> QED BY <1>6, <2>7, <4>1
    <3> QED BY <2>4, <3>1, <3>2, LastAdded
  <2> QED BY <2>5, <2>6, <2>7
<1>7. QueueInv'
  <2>1. (caller'.at = "waiting") = FALSE
    OBVIOUS
  <2>2. relay.parts = page.shown /\ IsBeginning(page.shown, caller.parts)
    BY <1>1 DEF QueueInv
  <2> QED BY <1>6, <2>1, <2>2 DEF QueueInv, Fixed
<1>8. StartInv'
  BY <1>1 DEF StartInv
<1>9. DoneInv'
  <2>1. ASSUME InEngine, relay.at = "reading", NEW j \in 1..Len(queue'), queue'[j].kind = "complete"
        PROVE  status' = "done"
    <3>1. queue \in Seq(Events)
      BY <1>1 DEF StreamTyped
    <3>2. CASE j \in 1..Len(queue)
      <4>1. queue'[j] = queue[j]
        BY <3>1, <3>2, LastAdded
      <4> QED BY <1>1, <2>1, <3>2, <4>1 DEF DoneInv
    <3>3. CASE j = Len(queue) + 1
      <4>1. queue'[j] = event
        BY <3>1, <3>3, LastAdded
      <4> QED BY <2>1, <4>1
    <3> QED BY <3>1, <3>2, <3>3, LastAdded
  <2>2. relay.at \in {"saving", "telling"} \/ page.ended = "complete" \/ saved # Unsaved
          => status' = "done"
    BY <1>1 DEF DoneInv
  <2>3. InEngine' = InEngine
    BY DEF InEngine, Fixed
  <2> QED BY <2>1, <2>2, <2>3 DEF DoneInv
<1>10. KeptInv'
  <2>1. status' = status \/ (/\ relay.at \notin {"saving", "telling"}
                              /\ page.ended # "complete" /\ saved = Unsaved)
    BY <1>1 DEF DoneInv
  <2> QED BY <1>1, <2>1, KeptFrame
<1> QED BY <1>3, <1>4, <1>5, <1>7, <1>8, <1>9, <1>10 DEF StreamInv

\* A complete answer is the text of the parts; of a model it was declared finished.
LEMMA CompleteIsReceived ==
  ASSUME StreamInv, MayConclude
  PROVE  /\ Received \in Events /\ caller.at = "waiting"
         /\ setup.streamed /\ Received.kind = "complete" =>
              Received.text = caller.parts /\ (~setup.gateway => caller.parts \in whole)
         /\ Received.kind = "missing" /\ setup.streamed /\ setup.gateway => gateway.at # "trying"
<1>1. /\ StreamTyped /\ ModelInv /\ WireInv /\ LineInv
      /\ caller.at = "waiting" /\ Incoming # Nothing
  BY DEF StreamInv, MayConclude, CallerRuns
<1>2. Received \in Events
  BY <1>1, ReceivedTyped
<1>3. ASSUME setup.streamed, Received.kind = "complete"
      PROVE  Received.text = caller.parts /\ (~setup.gateway => caller.parts \in whole)
  <2>1. \/ Head(Incoming).kind = "answer"
        \/ Head(Incoming).kind = "done" /\ Received.text = caller.parts
        \/ Head(Incoming).kind = "complete" /\ Received = Head(Incoming)
    BY <1>1, <1>3, ReceivedIsFirst
  <2>2. /\ Head(Incoming).kind # "answer"
        /\ Head(Incoming).kind = "complete" => Head(Incoming).text = caller.parts
        /\ Head(Incoming).kind \in {"done", "complete"} /\ ~setup.gateway =>
             caller.parts \in whole
    BY <1>1, <1>3, IncomingLinked
  <2> QED BY <2>1, <2>2
<1>4. ASSUME Received.kind = "missing", setup.streamed, setup.gateway
      PROVE  gateway.at # "trying"
  <2>1. Head(Incoming).kind = "missing"
    BY <1>1, <1>4, ReceivedIsFirst
  <2> QED BY <1>1, <1>4, <2>1, IncomingLinked DEF PartKinds
<1> QED BY <1>1, <1>2, <1>3, <1>4

\* The caller concludes: with the answer, an error or the end of its source.
LEMMA ConcludeKeeps ==
  ASSUME StreamInv, StreamTyped', caller.at = "waiting", NEW event \in Events, Conclude(event),
         event.kind \in {"complete", "error", "end", "reset"},
         setup.streamed /\ event.kind = "complete" =>
           event.text = caller.parts /\ (~setup.gateway => caller.parts \in whole),
         InEngine /\ event.kind = "complete" => status' = "done",
         status' = status \/ InEngine,
         UNCHANGED <<setup, whole, relay, page, saved>>
  PROVE  StreamInv'
<1>1. /\ caller'.at = "over" /\ caller'.parts = caller.parts /\ caller'.head = caller.head
      /\ queue' = Append(queue, event) /\ UNCHANGED <<gateway, model>>
      /\ line' \in {line, Nothing} /\ wire' \in {wire, Nothing} /\ (setup.gateway => wire' = wire)
  BY DEF Conclude, StreamInv, StreamTyped, CallerRows
<1> QED BY <1>1, CallerOverKeeps DEF Fixed

\* With what was received, as far as that is one of these.
LEMMA ReceivedConcludes ==
  ASSUME StreamInv, StreamTyped', MayConclude, Conclude(Received),
         Received.kind \in {"complete", "end", "reset"},
         InEngine /\ Received.kind = "complete" => status' = "done",
         status' = status \/ InEngine,
         UNCHANGED <<setup, whole, relay, page, saved>>
  PROVE  StreamInv'
<1>1. /\ Received \in Events /\ caller.at = "waiting"
      /\ setup.streamed /\ Received.kind = "complete" =>
              Received.text = caller.parts /\ (~setup.gateway => caller.parts \in whole)
  BY CompleteIsReceived
<1> HIDE DEF Received
<1> QED BY <1>1, ConcludeKeeps

\* With an error.
LEMMA ErrorConcludes ==
  ASSUME StreamInv, StreamTyped', caller.at = "waiting", Conclude(Sign("error")),
         status' = status \/ InEngine, UNCHANGED <<setup, whole, relay, page, saved>>
  PROVE  StreamInv'
<1>1. Sign("error") \in Events /\ Sign("error").kind = "error"
  BY SignsAreEvents DEF EventKinds
<1> QED BY <1>1, ConcludeKeeps

\* The adapter of the backend ends its stream, or asks another model.
LEMMA AdapterEndsKeeps ==
  ASSUME StreamInv, StreamTyped', AdapterEnds
  PROVE  StreamInv'
<1>1. /\ MayConclude /\ setup.streamed /\ caller.at = "waiting"
      /\ UNCHANGED <<whole, relay, page, saved, status>> /\ UNCHANGED setup
  BY CompleteIsReceived DEF AdapterEnds
<1>2. CASE Received.kind \in {"complete", "end", "reset"} /\ Conclude(Received)
  <2>1. ~InEngine
    BY DEF AdapterEnds
  <2> QED BY <1>1, <1>2, <2>1, ReceivedConcludes
<1>3. CASE Received.kind = "absent" /\ MayFallBack /\ Ask /\ UNCHANGED queue
  BY <1>1, <1>3, FallBackKeeps
<1>4. CASE /\ Received.kind = "missing"
           /\ caller' = [caller EXCEPT !.at = "over", !.warned = TRUE]
           /\ queue' = Append(queue, Sign("end"))
           /\ wire' = Nothing
           /\ UNCHANGED <<gateway, line, model>>
  <2>1. /\ caller'.at = "over" /\ caller'.parts = caller.parts /\ caller'.head = caller.head
    BY <1>4 DEF StreamInv, StreamTyped, CallerRows
  <2>2. Sign("end") \in Events /\ Sign("end").kind = "end"
    BY SignsAreEvents DEF EventKinds
  <2>3. setup.gateway => gateway.at # "trying"
    BY <1>1, <1>4, CompleteIsReceived
  <2> QED BY <1>1, <1>4, <2>1, <2>2, <2>3, CallerOverKeeps DEF Fixed
<1>5. CASE Conclude(Sign("error"))
  BY <1>1, <1>5, ErrorConcludes
<1> QED BY <1>2, <1>3, <1>4, <1>5 DEF AdapterEnds

\* It returns a body, or asks another model.
LEMMA AdapterReturnsKeeps ==
  ASSUME StreamInv, StreamTyped', AdapterReturns
  PROVE  StreamInv'
<1>1. /\ MayConclude /\ caller.at = "waiting" /\ ~InEngine
      /\ UNCHANGED <<whole, relay, page, saved, status>> /\ UNCHANGED setup
  BY CompleteIsReceived DEF AdapterReturns
<1>2. CASE Received.kind = "complete" /\ Conclude(Received)
  BY <1>1, <1>2, ReceivedConcludes
<1>3. CASE Received.kind = "absent" /\ MayFallBack /\ Ask /\ UNCHANGED queue
  BY <1>1, <1>3, FallBackKeeps
<1>4. CASE Conclude(Sign("error"))
  BY <1>1, <1>4, ErrorConcludes
<1> QED BY <1>2, <1>3, <1>4 DEF AdapterReturns

\* The client of the engine ends, with or without a stream.
LEMMA ClientKeeps ==
  ASSUME StreamInv, StreamTyped', ClientEnds \/ ClientReturns
  PROVE  StreamInv'
<1>1. /\ MayConclude /\ InEngine /\ UNCHANGED <<setup, whole, relay, page, saved>>
      /\ \/ Received.kind = "complete" /\ Conclude(Received) /\ status' = "done"
         \/ Conclude(Sign("error"))
  BY DEF ClientEnds, ClientReturns
<1>2. caller.at = "waiting"
  BY <1>1, CompleteIsReceived
<1> QED BY <1>1, <1>2, ReceivedConcludes, ErrorConcludes

\* The request is over before the caller.
LEMMA CallerIsLeftKeeps ==
  ASSUME StreamInv, StreamTyped', CallerIsLeft
  PROVE  StreamInv'
<1>1. /\ StreamTyped /\ ModelInv /\ WireInv /\ LineInv /\ QueueInv /\ StartInv /\ DoneInv
      /\ KeptInv /\ relay.at = "over" /\ Fixed
      /\ UNCHANGED <<setup, model, whole, wire, gateway, line, queue, relay, page, saved, status>>
  BY DEF StreamInv, CallerIsLeft, Fixed
<1>2. caller'.at = "over" /\ caller'.parts = caller.parts /\ caller'.head = caller.head
  BY <1>1 DEF CallerIsLeft, StreamTyped, CallerRows
<1>3. ModelInv'
  <2>1. Attempted(caller.parts)' /\ Attempted(gateway.parts)'
    BY <1>1, <1>2 DEF ModelInv, Attempted
  <2> HIDE DEF Attempted
  <2> QED BY <1>1, <1>2, <2>1 DEF ModelInv
<1>4. WireInv'
  <2>1. CASE setup.gateway
    <3>1. Taken' = Taken /\ Sent' = Sent /\ ModelIsRead' = ModelIsRead
      BY <1>1, <2>1 DEF Taken, Sent, ModelIsRead
    <3> HIDE DEF Taken, Sent, ModelIsRead, Link
    <3> QED BY <1>1, <3>1 DEF WireInv
  <2>2. CASE ~setup.gateway
    BY <1>1, <1>2, <2>2 DEF WireInv, ModelIsRead
  <2> QED BY <2>1, <2>2
<1>5. LineInv' /\ QueueInv' /\ StartInv' /\ DoneInv'
  BY <1>1, <1>2 DEF LineInv, QueueInv, StartInv, DoneInv, InEngine
<1>6. KeptInv'
  BY <1>1, KeptFrame
<1> QED BY <1>3, <1>4, <1>5, <1>6 DEF StreamInv

\* The engine is lost.
LEMMA EngineDiesKeeps ==
  ASSUME StreamInv, StreamTyped', Fixed, EngineDies
  PROVE  StreamInv'
<1>1. /\ caller'.at = "over" /\ caller'.parts = caller.parts /\ caller'.head = caller.head
      /\ caller.at = "waiting" /\ queue' = Append(queue, Sign("end"))
      /\ UNCHANGED <<model, whole, wire, gateway, line, relay, page, saved, status>>
  BY DEF EngineDies, StreamInv, StreamTyped, CallerRows
<1>2. Sign("end") \in Events /\ Sign("end").kind = "end"
  BY SignsAreEvents DEF EventKinds
<1> QED BY <1>1, <1>2, CallerOverKeeps

\* Every step of the caller.
LEMMA CallerStepsKeep ==
  ASSUME StreamInv, CallerSteps
  PROVE  StreamInv'
<1>1. StreamTyped' /\ Fixed
  BY CallerStepsTyped DEF StreamInv
<1>2. CASE AdapterTimesOut \/ ClientTimesOut
  <2>1. /\ caller.at = "waiting" /\ Conclude(Sign("error")) /\ (status' = status \/ InEngine)
        /\ UNCHANGED <<setup, whole, relay, page, saved>>
    BY <1>2 DEF AdapterTimesOut, ClientTimesOut, CallerWaited, CallerRuns
  <2> QED BY <1>1, <2>1, ErrorConcludes
<1> QED BY <1>1, <1>2, SendAgainKeeps, CallerPassesKeeps, AdapterEndsKeeps, AdapterReturnsKeeps,
           ClientKeeps, CallerIsLeftKeeps, EngineDiesKeeps DEF CallerSteps, CallerStep

-----------------------------------------------------------------------------
(* The request                                                             *)

\* The browser is told that its request ended without an answer, or is gone.
LEMMA EndRequestKeeps ==
  ASSUME StreamInv, StreamTyped', Fixed, NEW how \in {"error", "broken", "left"},
         EndRequest(how), relay.at # "over",
         saved' # Unsaved => relay.at = "saving" /\ saved' = relay.text /\ status' = status,
         how = "error" /\ saved' # Unsaved => ~setup.streamed,
         ~setup.gateway /\ setup.streamed /\ saved' # Unsaved =>
           \E text \in whole : saved' \in {text, Append(text, Citation)},
         UNCHANGED <<model, whole, wire, gateway, line, caller>>
  PROVE  StreamInv'
<1>1. /\ StreamTyped /\ ModelInv /\ WireInv /\ LineInv /\ QueueInv /\ StartInv /\ DoneInv
      /\ KeptInv
  BY DEF StreamInv
<1>2. relay'.at = "over" /\ relay'.parts = relay.parts /\ relay'.text = relay.text
  BY <1>1 DEF EndRequest, StreamTyped, RelayRows
<1>3. /\ page'.shown = page.shown
      /\ page'.ended \in {how, "left"}
  BY <1>1 DEF EndRequest, StreamTyped, PageRows
<1>4. ModelInv' /\ WireInv' /\ LineInv'
  BY <1>1, <1>3, ModelFrame, WireFrame, LineFrame
<1>5. QueueInv' /\ StartInv' /\ DoneInv'
  BY <1>1, <1>2, <1>3 DEF QueueInv, StartInv, DoneInv, InEngine, Fixed
<1>6. KeptInv'
  BY <1>1, <1>2, <1>3 DEF KeptInv, DoneInv, CompleteAsShown, KeptIsWhole, ErrorKeepsNoPart, Fixed
<1> QED BY <1>4, <1>5, <1>6 DEF StreamInv

\* While the request waits for an answer nothing is kept of one.
LEMMA NothingIsKept ==
  ASSUME KeptInv, relay.at \in {"starting", "reading"}
  PROVE  saved = Unsaved /\ page.ended \notin {"complete", "error", "broken"}
BY DEF KeptInv

\* The request begins: it is turned down, or a model is asked.
LEMMA StartsKeep ==
  ASSUME StreamInv, Starts
  PROVE  StreamInv'
<1>1. /\ StreamTyped /\ ModelInv /\ WireInv /\ LineInv /\ QueueInv /\ StartInv /\ DoneInv
      /\ KeptInv
  BY DEF StreamInv
<1>2. StreamTyped' /\ Fixed /\ UNCHANGED <<whole, queue, saved, status>>
  BY <1>1, StartsTyped
<1>3. relay.at = "starting" /\ saved = Unsaved /\ page.ended \notin {"complete", "error", "broken"}
  BY <1>1, NothingIsKept DEF Starts, ChatStarts, EngineIsAsked, Raised
<1>4. ASSUME NEW how \in {"error", "broken"}, EndRequest(how),
             UNCHANGED <<model, wire, gateway, line, caller>>
      PROVE  StreamInv'
  <2>1. how \in {"error", "broken", "left"}
    OBVIOUS
  <2> QED BY <1>2, <1>3, <1>4, <2>1, EndRequestKeeps
<1>5. ASSUME relay' = [relay EXCEPT !.at = "reading"], Ask, UNCHANGED <<setup, page>>
      PROVE  StreamInv'
  <2>1. /\ caller.parts = Nothing /\ queue = Nothing /\ caller.asks = 0
    BY <1>1, <1>3 DEF StartInv
  <2>2. /\ caller'.at = "waiting" /\ caller'.asks = 1 /\ caller'.parts = Nothing /\ Connect
    BY <1>1, <1>5, <2>1 DEF Ask, StreamTyped, CallerRows
  <2>3. relay'.at = "reading" /\ relay'.parts = relay.parts
    BY <1>1, <1>5 DEF StreamTyped, RelayRows
  <2>4. ModelInv' /\ WireInv' /\ LineInv'
    BY <1>1, <1>2, <1>5, <2>1, <2>2, ConnectKeeps
  <2>5. page.shown = Nothing
    <3>1. IsBeginning(page.shown, Nothing) /\ page.shown \in Texts
      BY <1>1, <2>1 DEF QueueInv, StreamTyped, PageRows
    <3> QED BY <3>1, EmptyText DEF IsBeginning
  <2>6. \A j \in 1..Len(Nothing) : FALSE
    BY EmptyText
  <2>7. QueueInv'
    <3>1. Link(Nothing, Nothing, Nothing, TRUE)
      BY EmptyText, LinkEmpty
    <3>2. (caller'.at = "waiting") = TRUE
      BY <2>2
    <3>3. IsBeginning(Nothing, Nothing)
      BY EmptyText DEF IsBeginning, Nothing
    <3>4. relay.parts = page.shown
      BY <1>1 DEF QueueInv
    <3> QED BY <1>2, <1>5, <2>1, <2>2, <2>3, <2>5, <2>6, <3>1, <3>2, <3>3, <3>4 DEF QueueInv
  <2>8. StartInv'
    BY <2>2, <2>3 DEF StartInv
  <2>9. DoneInv'
    BY <1>2, <1>3, <1>5, <2>1, <2>3, <2>6 DEF DoneInv
  <2>10. KeptInv'
    <3>1. page.ended \in {"open", "left"}
      BY <1>1, <1>3 DEF StreamTyped, PageRows
    <3> QED BY <1>2, <1>3, <1>5, <2>3, <3>1
            DEF KeptInv, CompleteAsShown, KeptIsWhole, ErrorKeepsNoPart
  <2> QED BY <1>2, <2>4, <2>7, <2>8, <2>9, <2>10 DEF StreamInv
<1> QED BY <1>4, <1>5 DEF Starts, ChatStarts, EngineIsAsked, Raised

\* The answers and streams that a request reads.
RelayReads == ChatReads \/ ChatReturns \/ AgentReads \/ AgentReturns \/ KnowledgeReads \/ KnowledgeReturns

\* Whatever the route: a part is shown, a complete answer accepted, or the request ends.
LEMMA ReadsOne ==
  ASSUME RelayReads
  PROVE  /\ relay.at = "reading" /\ queue # Nothing /\ queue' = Tail(queue)
         /\ UNCHANGED <<setup, model, whole, wire, gateway, line, caller, saved>>
         /\ \/ /\ setup.streamed /\ Head(queue).kind = "delta"
               /\ Show(Head(queue).text) /\ UNCHANGED status
            \/ /\ Head(queue).kind = "complete"
               /\ \E text \in Cited(IF setup.streamed THEN TextOf(Head(queue)) ELSE Head(queue).text) :
                    Accept(text)
               /\ status' = IF InEngine THEN status ELSE "done"
            \/ /\ \E how \in {"error", "broken"} : EndRequest(how)
               /\ status' \in {status, "failed"}
<1>1. CASE ChatReads
  BY <1>1, Zenon DEF ChatReads, upstream, Cited
<1>2. CASE ChatReturns
  BY <1>2, Zenon DEF ChatReturns, upstream, Cited
<1>3. CASE AgentReads
  BY <1>3, Zenon DEF AgentReads, upstream, Cited, InEngine
<1>4. CASE AgentReturns
  BY <1>4, Zenon DEF AgentReturns, upstream, Cited, InEngine
<1>5. CASE KnowledgeReads
  BY <1>5, Zenon DEF KnowledgeReads, upstream, InEngine
<1>6. CASE KnowledgeReturns
  BY <1>6, Zenon DEF KnowledgeReturns, upstream, InEngine
<1> QED BY <1>1, <1>2, <1>3, <1>4, <1>5, <1>6 DEF RelayReads

\* The rows of a request that shows a part or accepts an answer.
LEMMA ReadsTyped ==
  ASSUME StreamTyped, RelayReads
  PROVE  StreamTyped' /\ Fixed
<1>1. /\ queue # Nothing /\ queue' = Tail(queue)
      /\ UNCHANGED <<setup, model, whole, wire, gateway, line, caller, saved>>
  BY ReadsOne
<1>2. queue' \in Seq(Events) /\ Head(queue).text \in Texts
  BY <1>1, EventsJoined DEF StreamTyped, Nothing, Events
<1>3. CASE Show(Head(queue).text) /\ UNCHANGED status
  <2>1. relay' \in RelayRows /\ page' \in PageRows
    BY <1>2, <1>3, EndRequestTyped, RelayRowsKept, PageRowsKept DEF Show, StreamTyped
  <2> QED BY <1>1, <1>2, <1>3, <2>1 DEF StreamTyped, Fixed
<1>4. ASSUME NEW text \in Cited(IF setup.streamed THEN TextOf(Head(queue)) ELSE Head(queue).text),
             Accept(text), status' = IF InEngine THEN status ELSE "done"
      PROVE  StreamTyped' /\ Fixed
  <2>1. text \in Texts
    BY <1>2, <1>4, TextsJoined DEF Cited, TextOf, StreamTyped, RelayRows
  <2>2. relay' \in RelayRows /\ page' \in PageRows
    BY <1>4, <2>1, RelayRowsKept DEF Accept, StreamTyped
  <2> QED BY <1>1, <1>2, <1>4, <2>2 DEF StreamTyped, Fixed
<1>5. ASSUME NEW how \in {"error", "broken"}, EndRequest(how), status' \in {status, "failed"}
      PROVE  StreamTyped' /\ Fixed
  <2>1. relay' \in RelayRows /\ page' \in PageRows
    BY <1>5, EndRequestTyped
  <2> QED BY <1>1, <1>2, <1>5, <2>1 DEF StreamTyped, Fixed
<1> QED BY <1>3, <1>4, <1>5, ReadsOne

\* A part is shown, unless the browser is gone.
LEMMA ShowKeeps ==
  ASSUME StreamInv, StreamTyped', Fixed, relay.at = "reading", queue # Nothing,
         queue' = Tail(queue), setup.streamed, Head(queue).kind = "delta",
         Show(Head(queue).text),
         UNCHANGED <<model, whole, wire, gateway, line, caller, saved, status>>
  PROVE  StreamInv'
<1>1. /\ StreamTyped /\ ModelInv /\ WireInv /\ LineInv /\ QueueInv /\ StartInv /\ DoneInv
      /\ KeptInv /\ saved = Unsaved /\ page.ended \in {"open", "left"}
  BY NothingIsKept DEF StreamInv, StreamTyped, PageRows
<1>2. CASE EndRequest("left")
  BY <1>1, <1>2, EndRequestKeeps
<1>3. CASE /\ page' = [page EXCEPT !.shown = @ \o Head(queue).text]
           /\ relay' = [relay EXCEPT !.parts = @ \o Head(queue).text]
  <2> DEFINE open == caller.at = "waiting"
  <2>1. /\ page'.shown = page.shown \o Head(queue).text /\ page'.ended = page.ended
        /\ page'.text = page.text
        /\ relay'.parts = relay.parts \o Head(queue).text /\ relay'.at = "reading"
    BY <1>1, <1>3 DEF StreamTyped, PageRows, RelayRows
  <2>2. ModelInv' /\ WireInv' /\ LineInv'
    BY <1>1, ModelFrame, WireFrame, LineFrame
  <2>3. /\ page.shown \in Texts /\ queue \in Seq(Events) /\ caller.parts \in Texts
        /\ queue # <<>> /\ open \in BOOLEAN
    BY <1>1, TakenTyped DEF StreamTyped, PageRows, Nothing
  <2>4. /\ Link(page.shown, queue, caller.parts, open)
        /\ \A j \in 1..Len(queue) :
             /\ queue[j].kind # "open"
             /\ queue[j].kind = "complete" /\ ~setup.gateway => caller.parts \in whole
    BY <1>1 DEF QueueInv
  <2>5. \A j \in 1..Len(queue') : j + 1 \in 1..Len(queue) /\ queue'[j] = queue[j + 1]
    BY <2>3, FirstTaken
  <2>6. \A j \in 1..Len(queue') :
             /\ queue'[j].kind # "open"
             /\ queue'[j].kind = "complete" /\ ~setup.gateway => caller.parts \in whole
    BY <2>4, <2>5
  <2> HIDE DEF open
  <2>7. Link(page'.shown, queue', caller.parts, open)
    BY <2>1, <2>3, <2>4, LinkReads
  <2>8. QueueInv'
    <3>1. IsBeginning(page'.shown, caller.parts)
      BY <2>7 DEF Link
    <3>2. relay'.parts = page'.shown
      BY <1>1, <2>1 DEF QueueInv
    <3>3. Link(page'.shown, queue', caller'.parts, caller'.at = "waiting")
      BY <2>7 DEF open
    <3> HIDE DEF Link, IsBeginning
    <3> QED BY <2>6, <3>1, <3>2, <3>3 DEF QueueInv, Fixed
  <2>9. StartInv'
    BY <1>1, <2>1 DEF StartInv
  <2>10. DoneInv'
    <3>1. InEngine => \A j \in 1..Len(queue') :
            queue'[j].kind = "complete" => status = "done" /\ caller.at = "over"
      BY <1>1, <2>5 DEF DoneInv
    <3>2. InEngine' = InEngine
      BY DEF InEngine, Fixed
    <3> QED BY <1>1, <2>1, <3>1, <3>2 DEF DoneInv
  <2>11. KeptInv'
    BY <1>1, <2>1 DEF KeptInv, CompleteAsShown, KeptIsWhole, ErrorKeepsNoPart
  <2> QED BY <2>2, <2>8, <2>9, <2>10, <2>11 DEF StreamInv
<1> QED BY <1>2, <1>3 DEF Show

\* A complete answer is what was shown, and is accepted as such.
LEMMA AcceptKeeps ==
  ASSUME StreamInv, StreamTyped', Fixed, relay.at = "reading", queue # Nothing,
         Head(queue).kind = "complete",
         NEW text \in Cited(IF setup.streamed THEN TextOf(Head(queue)) ELSE Head(queue).text),
         Accept(text), status' = IF InEngine THEN status ELSE "done",
         UNCHANGED <<model, whole, wire, gateway, line, caller, saved>>
  PROVE  StreamInv'
<1>1. /\ StreamTyped /\ ModelInv /\ WireInv /\ LineInv /\ QueueInv /\ StartInv /\ DoneInv
      /\ KeptInv /\ saved = Unsaved /\ page.ended \in {"open", "left"}
  BY NothingIsKept DEF StreamInv, StreamTyped, PageRows
<1>2. /\ queue \in Seq(Events) /\ queue # <<>> /\ page.shown \in Texts /\ caller.parts \in Texts
      /\ 1 \in 1..Len(queue) /\ Head(queue) = queue[1]
  BY <1>1, TakenTyped, FirstTaken DEF StreamTyped, PageRows, Nothing
<1>3. /\ relay'.at = IF setup.kept THEN "saving" ELSE "telling"
      /\ relay'.text = text /\ relay'.parts = relay.parts /\ page' = page
  BY <1>1 DEF Accept, StreamTyped, RelayRows
<1>4. status' = "done" /\ (InEngine => caller.at = "over")
  BY <1>1, <1>2 DEF DoneInv
<1>5. ASSUME setup.streamed
      PROVE  /\ text \in {page.shown, Append(page.shown, Citation)}
             /\ ~setup.gateway => page.shown \in whole
  <2> DEFINE open == caller.at = "waiting"
  <2>1. /\ Link(page.shown, queue, caller.parts, open) /\ open \in BOOLEAN
        /\ ~setup.gateway => caller.parts \in whole
        /\ relay.parts = page.shown
    BY <1>1, <1>2, <1>5 DEF QueueInv
  <2> HIDE DEF open
  <2>2. page.shown = caller.parts /\ Head(queue).text = caller.parts
    BY <1>2, <2>1, LinkFirst
  <2>3. TextOf(Head(queue)) = page.shown
    BY <2>1, <2>2 DEF TextOf
  <2> QED BY <1>5, <2>1, <2>2, <2>3 DEF Cited
<1>6. ModelInv' /\ WireInv' /\ LineInv'
  BY <1>1, <1>3, ModelFrame, WireFrame, LineFrame
<1>7. QueueInv' /\ StartInv'
  BY <1>1, <1>3 DEF QueueInv, StartInv
<1>8. DoneInv'
  BY <1>3, <1>4 DEF DoneInv, InEngine, Fixed
<1>9. KeptInv'
  BY <1>1, <1>3, <1>5 DEF KeptInv, CompleteAsShown, KeptIsWhole, ErrorKeepsNoPart, Fixed
<1> QED BY <1>6, <1>7, <1>8, <1>9 DEF StreamInv

\* Every read of an answer or a stream.
LEMMA RelayReadsKeep ==
  ASSUME StreamInv, RelayReads
  PROVE  StreamInv'
<1>1. StreamTyped' /\ Fixed
  BY ReadsTyped DEF StreamInv
<1>2. /\ relay.at = "reading" /\ queue # Nothing /\ queue' = Tail(queue)
      /\ UNCHANGED <<setup, model, whole, wire, gateway, line, caller, saved>>
  BY ReadsOne
<1>3. saved = Unsaved
  BY <1>2, NothingIsKept DEF StreamInv
<1>4. CASE /\ setup.streamed /\ Head(queue).kind = "delta"
           /\ Show(Head(queue).text) /\ UNCHANGED status
  BY <1>1, <1>2, <1>4, ShowKeeps
<1>5. ASSUME Head(queue).kind = "complete",
             NEW text \in Cited(IF setup.streamed THEN TextOf(Head(queue)) ELSE Head(queue).text),
             Accept(text), status' = IF InEngine THEN status ELSE "done"
      PROVE  StreamInv'
  BY <1>1, <1>2, <1>5, AcceptKeeps
<1>6. ASSUME NEW how \in {"error", "broken"}, EndRequest(how)
      PROVE  StreamInv'
  <2>1. how \in {"error", "broken", "left"}
    OBVIOUS
  <2> QED BY <1>1, <1>2, <1>3, <1>6, <2>1, EndRequestKeeps
<1> QED BY <1>4, <1>5, <1>6, ReadsOne

\* The request gives up on the engine.
LEMMA RelayGivesUpKeeps ==
  ASSUME StreamInv, RelayTimesOut \/ RequestTimesOut
  PROVE  StreamInv'
<1>1. /\ relay.at = "reading" /\ EndRequest("error")
      /\ UNCHANGED <<setup, model, whole, wire, gateway, line, caller, queue, saved, status>>
  BY DEF RelayTimesOut, RequestTimesOut, RelayWaited, upstream
<1>2. StreamTyped /\ saved = Unsaved
  BY <1>1, NothingIsKept DEF StreamInv
<1>3. StreamTyped' /\ Fixed
  BY <1>1, <1>2, EndRequestTyped DEF StreamTyped, Fixed
<1> QED BY <1>1, <1>2, <1>3, EndRequestKeeps

\* The answer is appended to the conversation, or that fails.
LEMMA SaveKeeps ==
  ASSUME StreamInv, Save
  PROVE  StreamInv'
<1>1. /\ StreamTyped /\ ModelInv /\ WireInv /\ LineInv /\ QueueInv /\ StartInv /\ DoneInv
      /\ KeptInv
  BY DEF StreamInv
<1>2. /\ relay.at = "saving" /\ saved = Unsaved /\ page.ended \in {"open", "left"}
      /\ UNCHANGED <<model, whole, wire, gateway, line, caller, queue, status>>
  BY <1>1 DEF Save, KeptInv, StreamTyped, PageRows
<1>3. CASE saved' = relay.text /\ relay' = [relay EXCEPT !.at = "telling"] /\ UNCHANGED <<page, setup>>
  <2>1. relay'.at = "telling" /\ relay'.text = relay.text /\ relay'.parts = relay.parts
    BY <1>1, <1>3 DEF StreamTyped, RelayRows
  <2>2. StreamTyped' /\ Fixed
    BY <1>1, <1>2, <1>3, RelayRowsKept DEF StreamTyped, Fixed
  <2>3. ModelInv' /\ WireInv' /\ LineInv'
    BY <1>1, <1>2, <1>3, <2>2, ModelFrame, WireFrame, LineFrame
  <2>4. QueueInv' /\ StartInv' /\ DoneInv'
    BY <1>1, <1>2, <1>3, <2>1 DEF QueueInv, StartInv, DoneInv, InEngine
  <2>5. KeptInv'
    BY <1>1, <1>2, <1>3, <2>1 DEF KeptInv, CompleteAsShown, KeptIsWhole, ErrorKeepsNoPart
  <2> QED BY <2>2, <2>3, <2>4, <2>5 DEF StreamInv
<1>4. ASSUME Mishap, saved' \in {saved, relay.text}, NEW how \in {"error", "broken"},
             how = "error" => ~setup.streamed, EndRequest(how)
      PROVE  StreamInv'
  <2>1. StreamTyped' /\ Fixed
    BY <1>1, <1>2, <1>4, EndRequestTyped, SetupRowsKept DEF StreamTyped, Fixed
  <2>2. ~setup.gateway /\ setup.streamed /\ saved' # Unsaved =>
           \E text \in whole : saved' \in {text, Append(text, Citation)}
    BY <1>1, <1>2, <1>4 DEF KeptInv
  <2>3. how \in {"error", "broken", "left"} /\ (saved' # Unsaved => saved' = relay.text)
    BY <1>2, <1>4
  <2> QED BY <1>2, <1>4, <2>1, <2>2, <2>3, EndRequestKeeps
<1>5. CASE Mishap /\ saved' \in {saved, relay.text}
           /\ EndRequest(Raised)
  <2>1. CASE setup.streamed
    BY <1>4, <1>5, <2>1 DEF Raised
  <2>2. CASE ~setup.streamed
    BY <1>4, <1>5, <2>2 DEF Raised
  <2> QED BY <2>1, <2>2
<1> QED BY <1>3, <1>5 DEF Save

\* The browser is told of the complete answer.
LEMMA TellKeeps ==
  ASSUME StreamInv, Tell
  PROVE  StreamInv'
<1>1. /\ StreamTyped /\ ModelInv /\ WireInv /\ LineInv /\ QueueInv /\ StartInv /\ DoneInv
      /\ KeptInv
  BY DEF StreamInv
<1>2. /\ relay.at = "telling" /\ page.ended \in {"open", "left"}
      /\ UNCHANGED <<setup, model, whole, wire, gateway, line, caller, queue, saved, status>>
      /\ relay'.at = "over" /\ relay'.parts = relay.parts
      /\ page'.shown = page.shown
      /\ page' = page \/ (page'.ended = "complete" /\ page'.text = relay.text)
  BY <1>1 DEF Tell, upstream, KeptInv, StreamTyped, PageRows, RelayRows
<1>3. StreamTyped' /\ Fixed
  <2>1. relay' \in RelayRows /\ relay.text \in Texts
    BY <1>1, RelayRowsKept DEF Tell, StreamTyped, RelayRows
  <2>2. page' \in PageRows
    BY <1>1, <2>1, PageRowsKept DEF Tell, StreamTyped
  <2> QED BY <1>1, <1>2, <2>1, <2>2 DEF StreamTyped, Fixed
<1>4. ModelInv' /\ WireInv' /\ LineInv'
  BY <1>1, <1>2, <1>3, ModelFrame, WireFrame, LineFrame
<1>5. QueueInv' /\ StartInv' /\ DoneInv'
  BY <1>1, <1>2 DEF QueueInv, StartInv, DoneInv, InEngine
<1>6. status = "done"
  BY <1>1, <1>2 DEF DoneInv
<1>7. KeptInv'
  BY <1>1, <1>2, <1>6 DEF KeptInv, CompleteAsShown, KeptIsWhole, ErrorKeepsNoPart
<1> QED BY <1>3, <1>4, <1>5, <1>7 DEF StreamInv

\* The browser is gone.
LEMMA LeaveKeeps ==
  ASSUME StreamInv, Leave
  PROVE  StreamInv'
<1>1. /\ StreamTyped /\ ModelInv /\ WireInv /\ LineInv /\ QueueInv /\ StartInv /\ DoneInv
      /\ KeptInv
  BY DEF StreamInv
<1>2. /\ page.ended = "open" /\ page'.ended = "left" /\ page'.shown = page.shown
      /\ UNCHANGED <<model, whole, wire, gateway, line, caller, queue, relay, saved, status>>
  BY <1>1 DEF Leave, StreamTyped, PageRows
<1>3. StreamTyped' /\ Fixed
  BY <1>1, <1>2, SetupRowsKept, PageRowsKept DEF Leave, StreamTyped, Fixed
<1>4. ModelInv' /\ WireInv' /\ LineInv' /\ QueueInv' /\ StartInv' /\ DoneInv'
  BY <1>1, <1>2, <1>3, ModelFrame, WireFrame, LineFrame, QueueFrame, StartFrame, DoneFrame
<1>5. KeptInv'
  BY <1>1, <1>2, <1>3 DEF KeptInv, CompleteAsShown, KeptIsWhole, ErrorKeepsNoPart, Fixed
<1> QED BY <1>3, <1>4, <1>5 DEF StreamInv

\* Every step of the request, and that of the browser.
LEMMA RelayStepsKeep ==
  ASSUME StreamInv, RelaySteps
  PROVE  StreamInv'
BY StartsKeep, RelayReadsKeep, RelayGivesUpKeeps, SaveKeeps, TellKeeps, LeaveKeeps
   DEF RelaySteps, RelayStep, RelayReads, Starts

-----------------------------------------------------------------------------
(* The theorems                                                            *)

\* Nothing was asked yet.
LEMMA StreamInvInit == StreamInit => StreamInv
<1> SUFFICES ASSUME StreamInit PROVE StreamInv
  OBVIOUS
<1>1. StreamTyped
  BY TypedInit
<1>2. \A j \in 1..Len(Nothing) : FALSE
  BY EmptyText
<1>3. Attempted(Nothing) /\ IsBeginning(Nothing, Nothing)
  BY NothingIsAttempted, EmptyText DEF IsBeginning, Nothing
<1>4. /\ model.at = "idle" /\ gateway.at = "idle" /\ gateway.parts = Nothing
      /\ caller.at = "idle" /\ caller.asks = 0 /\ caller.parts = Nothing
      /\ relay.at = "starting" /\ relay.parts = Nothing
      /\ page.shown = Nothing /\ page.ended = "open" /\ saved = Unsaved
      /\ wire = Nothing /\ line = Nothing /\ queue = Nothing
  BY DEF StreamInit
<1>5. ModelInv /\ WireInv
  BY <1>2, <1>3, <1>4 DEF ModelInv, WireInv, ModelIsRead
<1>6. LineInv /\ QueueInv /\ StartInv /\ DoneInv
  BY <1>2, <1>3, <1>4 DEF LineInv, QueueInv, StartInv, DoneInv
<1>7. KeptInv
  BY <1>4 DEF KeptInv, CompleteAsShown, KeptIsWhole, ErrorKeepsNoPart
<1> QED BY <1>1, <1>5, <1>6, <1>7 DEF StreamInv

\* Every step, and none.
LEMMA StreamInvStep == StreamInv /\ [StreamNext]_streamVars => StreamInv'
<1>1. ASSUME StreamInv, StreamNext PROVE StreamInv'
  BY <1>1, ModelStepsKeep, GatewayStepKeeps, CallerStepsKeep, RelayStepsKeep
     DEF StreamNext, ModelSteps, CallerSteps, RelaySteps
<1>2. ASSUME StreamInv, UNCHANGED streamVars PROVE StreamInv'
  <2>1. /\ StreamTyped /\ ModelInv /\ WireInv /\ LineInv /\ QueueInv /\ StartInv /\ DoneInv
        /\ KeptInv
    BY <1>2 DEF StreamInv
  <2>2. /\ UNCHANGED <<setup, model, whole, wire, gateway, line, caller, queue, relay>>
        /\ UNCHANGED <<page, saved, status>> /\ Fixed
    BY <1>2 DEF streamVars, Fixed
  <2>3. StreamTyped'
    BY <2>1, <2>2 DEF StreamTyped
  <2>4. /\ ModelInv' /\ WireInv' /\ LineInv' /\ QueueInv' /\ StartInv' /\ DoneInv'
        /\ KeptInv'
    BY <2>1, <2>2, ModelFrame, WireFrame, LineFrame, QueueFrame, StartFrame, DoneFrame, KeptFrame
  <2> QED BY <2>3, <2>4 DEF StreamInv
<1> QED BY <1>1, <1>2

\* What is shown begins what the caller got, which is of the last attempt.
LEMMA ShownIsOneAttempt == StreamInv => OneAttemptShown
<1> SUFFICES ASSUME StreamInv, NEW i \in DOMAIN page.shown
             PROVE  page.shown[i][1] = page.shown[1][1] /\ page.shown[i][2] = i
  BY DEF OneAttemptShown
<1>1. /\ page.shown \in Texts /\ caller.parts \in Texts
      /\ IsBeginning(page.shown, caller.parts) /\ Attempted(caller.parts)
  BY TakenTyped DEF StreamInv, StreamTyped, PageRows, QueueInv, ModelInv
<1>2. Attempted(page.shown)
  BY <1>1, BeginningAttempted
<1>3. DOMAIN page.shown = 1..Len(page.shown) /\ Len(page.shown) \in Nat
  BY <1>1 DEF Texts
<1>4. i \in 1..Len(page.shown) /\ 1 \in 1..Len(page.shown)
  BY <1>3
<1>5. page.shown[i] = <<model.attempt, i>> /\ page.shown[1] = <<model.attempt, 1>>
  BY <1>2, <1>4 DEF Attempted
<1> QED BY <1>5

\* What is kept is part of the invariant.
LEMMA KeptIsAnswered == StreamInv => AnswerIsKeptWhole
<1>1. StreamTyped => StreamTypeOK
  BY DEF StreamTyped, StreamTypeOK, SetupRows, ModelRows, GatewayRows, CallerRows, RelayRows, PageRows
<1> QED BY <1>1 DEF StreamInv, KeptInv, AnswerIsKeptWhole

\* Neither the failover of the gateway (_iter_streaming_response_chunks of the
\* llm service) nor the fallback of the adapter (chat_completion_stream) continues,
\* for the user, a text that another model began: for any list of models, any
\* length of the answer and any number of faults.
THEOREM OneAttemptIsShown == StreamSpec => []OneAttemptShown
BY StreamInvInit, StreamInvStep, ShownIsOneAttempt, PTL DEF StreamSpec

\* What a conversation keeps (_persist_execution_result) is what the user saw and,
\* of a stream without a gateway, what a model declared finished; who is told of an
\* error may send the message again.
THEOREM AnswersStayWhole == StreamSpec => []AnswerIsKeptWhole
BY StreamInvInit, StreamInvStep, KeptIsAnswered, PTL DEF StreamSpec
=============================================================================
