------------------------------ MODULE Accounts ------------------------------
(***************************************************************************)
(* The accounts of the backend: the handlers of registration, login,       *)
(* activation and roles (handlers/auth_handlers.py), the check of the      *)
(* token before each request (auth_request_context.py) and the             *)
(* initialisation that the first requests run (auth_lifecycle.py).         *)
(*                                                                         *)
(* Requests are threads of one process.  Each of their statements is a     *)
(* transaction of its own, and what a request read may be stale when it    *)
(* writes: the role of its actor, the target it looked up, the number of   *)
(* superadmins it counted, the emptiness of the table that makes it create *)
(* the first superadmin.                                                   *)
(***************************************************************************)
EXTENDS Integers, FiniteSets

CONSTANTS
  Users,         \* e-mail addresses, unique in the table, which is finite
  Root,          \* that of the superadmin in the environment
  Nobody,        \* a request without a valid token
  Threads,       \* that serve requests
  AccountBounds  \* values of [requests, faults]: requests, failures of the database

ASSUME AccountAssumption ==
  /\ Root \in Users
  /\ Nobody \notin Users
  /\ IsFiniteSet(Users)
  /\ AccountBounds \subseteq [requests : Nat, faults : Nat]

VARIABLES
  account,  \* the row of each address
  token,    \* the addresses that logged in; logging out takes nothing back
  auth,     \* the flags _auth_initialized and _auth_init_error
  env,      \* whether the environment names a superadmin and allows to register
  task,     \* what each thread does
  clash,    \* whether a demotion was written while another was about to be
  budget

accountVars == <<account, token, auth, env, task, clash, budget>>

Roles == {"user", "admin", "superadmin"}
Rank == [none |-> 0, user |-> 1, admin |-> 2, superadmin |-> 3]
NoAccount == [role |-> "none", active |-> FALSE]
AccountRows == [role : Roles, active : BOOLEAN]

\* The role that the decorator of a route asks for.
Required == [register |-> "none", login |-> "none",
             activate |-> "admin", role |-> "superadmin"]

NoTask == [at |-> "idle", op |-> "login", actor |-> Nobody, role |-> "none",
           target |-> Nobody, wanted |-> "none"]

\* What a thread is at with a request.
Tasks == [at : {"idle", "init", "count", "create", "finish", "auth", "serve",
                "superadmins", "write"},
          op : DOMAIN Required, actor : Users \cup {Nobody},
          role : Roles \cup {"none"}, target : Users \cup {Nobody},
          wanted : Roles \cup {"none"}]

AccountsTypeOK ==
  /\ account \in [Users -> AccountRows \cup {NoAccount}]
  /\ token \subseteq Users
  /\ auth \in [initialized : BOOLEAN, error : BOOLEAN]
  /\ env \in [superadmin : BOOLEAN, register : BOOLEAN]
  /\ task \in [Threads -> Tasks]
  /\ clash \in BOOLEAN
  /\ budget \in [requests : Nat, faults : Nat]

Exists(u) == account[u] # NoAccount
Superadmins == {u \in Users : account[u].role = "superadmin"}

\* An empty table, or one with the accounts of an earlier start.
AccountsInit ==
  /\ account \in {[u \in Users |-> NoAccount],
                  [u \in Users |-> IF u = Root THEN [role |-> "superadmin", active |-> TRUE]
                                   ELSE NoAccount]}
  /\ token = {}
  /\ auth = [initialized |-> FALSE, error |-> FALSE]
  /\ env \in [superadmin : BOOLEAN, register : BOOLEAN]
  /\ task = [t \in Threads |-> NoTask]
  /\ clash = FALSE
  /\ budget \in AccountBounds

Moved(t, place) == task' = [task EXCEPT ![t].at = place]
Answered(t) == task' = [task EXCEPT ![t] = NoTask]

\* A request arrives, with the token of an account or with none.
Arrive(t) ==
  /\ task[t].at = "idle"
  /\ budget.requests > 0
  /\ \E op \in DOMAIN Required, u \in token \cup {Nobody} :
       task' = [task EXCEPT ![t] = [NoTask EXCEPT !.at = "init", !.op = op, !.actor = u]]
  /\ budget' = [budget EXCEPT !.requests = @ - 1]
  /\ UNCHANGED <<account, token, auth, env, clash>>

\* ensure_auth_initialized up to the migration, which may be run by several
\* threads.  A failure is kept: no later request tries again.
EnsureInitialized(t) ==
  /\ task[t].at = "init"
  /\ \/ /\ auth.initialized \/ auth.error
        /\ Moved(t, "auth")
        /\ UNCHANGED <<auth, budget>>
     \/ /\ ~auth.initialized /\ ~auth.error
        /\ Moved(t, "count")
        /\ UNCHANGED <<auth, budget>>
     \/ /\ ~auth.initialized /\ ~auth.error
        /\ budget.faults > 0
        /\ budget' = [budget EXCEPT !.faults = @ - 1]
        /\ auth' = [auth EXCEPT !.error = TRUE]
        /\ Moved(t, "auth")
  /\ UNCHANGED <<account, token, env, clash>>

\* bootstrap_superadmin counts the users.
CountUsers(t) ==
  /\ task[t].at = "count"
  /\ Moved(t, IF (\E u \in Users : Exists(u)) \/ ~env.superadmin THEN "finish" ELSE "create")
  /\ UNCHANGED <<account, token, auth, env, clash, budget>>

\* It creates the superadmin, unless another thread just did.
CreateSuperadmin(t) ==
  /\ task[t].at = "create"
  /\ IF Exists(Root)
     THEN /\ auth' = [auth EXCEPT !.error = TRUE]
          /\ Moved(t, "auth")
          /\ UNCHANGED account
     ELSE /\ account' = [account EXCEPT ![Root] = [role |-> "superadmin", active |-> TRUE]]
          /\ Moved(t, "finish")
          /\ UNCHANGED auth
  /\ UNCHANGED <<token, env, clash, budget>>

\* Mutant: only the thread that created the superadmin sets the flag.
FinishAlone(t) ==
  /\ task[t].at = "finish"
  /\ auth' = [auth EXCEPT !.initialized = @ \/ \A o \in Threads \ {t} : task[o].at = "idle"]
  /\ Moved(t, "auth")
  /\ UNCHANGED <<account, token, env, clash, budget>>

\* The workers are started and the flag is set.
FinishInitialization(t) ==
  /\ task[t].at = "finish"
  /\ auth' = [auth EXCEPT !.initialized = TRUE]
  /\ Moved(t, "auth")
  /\ UNCHANGED <<account, token, env, clash, budget>>

\* resolve_current_user_from_auth_header and the decorator of the route: the
\* role is that of the row, not the one in the token, which may have expired.
Authenticate(t) ==
  LET r == task[t]
      valid == r.actor \in token /\ auth.initialized /\ account[r.actor].active
  IN  /\ r.at = "auth"
      /\ \E actor \in (IF valid THEN {r.actor} ELSE {}) \cup {Nobody} :
           LET role == IF actor = Nobody THEN "none" ELSE account[actor].role
           IN  IF auth.initialized /\ Rank[role] >= Rank[Required[r.op]]
               THEN task' = [task EXCEPT ![t].at = "serve", ![t].actor = actor,
                                         ![t].role = role]
               ELSE Answered(t)
      /\ UNCHANGED <<account, token, auth, env, clash, budget>>

\* The rows an actor may create: a superadmin chooses the role and whether the
\* account is active, all others create pending users, if anything.
MayCreate(role) ==
  IF role = "superadmin" THEN AccountRows
  ELSE IF role = "admin" \/ (role = "none" /\ env.register)
       THEN {[role |-> "user", active |-> FALSE]}
       ELSE {}

\* register_user; an address that is taken is a conflict.
Register(t) ==
  /\ task[t].at = "serve" /\ task[t].op = "register"
  /\ \/ \E u \in Users, row \in MayCreate(task[t].role) :
          /\ ~Exists(u)
          /\ account' = [account EXCEPT ![u] = row]
     \/ UNCHANGED account
  /\ Answered(t)
  /\ UNCHANGED <<token, auth, env, clash, budget>>

\* login_user, with the right password of an active account or in vain.
Login(t) ==
  /\ task[t].at = "serve" /\ task[t].op = "login"
  /\ \/ \E u \in Users : account[u].active /\ token' = token \cup {u}
     \/ UNCHANGED token
  /\ Answered(t)
  /\ UNCHANGED <<account, auth, env, clash, budget>>

\* activate_pending_user looks the target up; an admin activates users only.
LookUpPending(t) ==
  /\ task[t].at = "serve" /\ task[t].op = "activate"
  /\ \E u \in Users :
       IF Exists(u) /\ (task[t].role = "admin" => account[u].role = "user")
       THEN task' = [task EXCEPT ![t].at = "write", ![t].target = u]
       ELSE Answered(t)
  /\ UNCHANGED <<account, token, auth, env, clash, budget>>

\* activate_user
Activate(t) ==
  /\ task[t].at = "write" /\ task[t].op = "activate"
  /\ account' = [account EXCEPT ![task[t].target].active = TRUE]
  /\ Answered(t)
  /\ UNCHANGED <<token, auth, env, clash, budget>>

\* update_role looks the target up.
LookUpTarget(t) ==
  /\ task[t].at = "serve" /\ task[t].op = "role"
  /\ \E u \in Users, role \in Roles :
       IF Exists(u)
       THEN task' =
              [task EXCEPT ![t].target = u, ![t].wanted = role,
                 ![t].at = IF account[u].role = "superadmin" /\ role # "superadmin"
                           THEN "superadmins" ELSE "write"]
       ELSE Answered(t)
  /\ UNCHANGED <<account, token, auth, env, clash, budget>>

\* Mutant: compared with the number that is left.
CountRemaining(t) ==
  /\ task[t].at = "superadmins"
  /\ IF Cardinality(Superadmins) < 1 THEN Answered(t) ELSE Moved(t, "write")
  /\ UNCHANGED <<account, token, auth, env, clash, budget>>

\* The last superadmin is not demoted; an inactive one counts as well.
CountSuperadmins(t) ==
  /\ task[t].at = "superadmins"
  /\ IF Cardinality(Superadmins) <= 1 THEN Answered(t) ELSE Moved(t, "write")
  /\ UNCHANGED <<account, token, auth, env, clash, budget>>

\* A thread that has made its checks and is about to write a lower role.
Demoting(t) == task[t].at = "write" /\ task[t].op = "role"
               /\ task[t].wanted # "superadmin"

\* update_user_role; clash records that another demotion was under way.
UpdateRole(t) ==
  LET r == task[t]
  IN  /\ r.at = "write" /\ r.op = "role"
      /\ account' = [account EXCEPT ![r.target].role = r.wanted]
      /\ clash' = (clash \/ (Demoting(t) /\ \E o \in Threads \ {t} : Demoting(o)))
      /\ Answered(t)
      /\ UNCHANGED <<token, auth, env, budget>>

AccountStep(t) ==
  \/ EnsureInitialized(t) \/ CountUsers(t) \/ CreateSuperadmin(t)
  \/ FinishInitialization(t) \/ Authenticate(t) \/ Register(t) \/ Login(t)
  \/ LookUpPending(t) \/ Activate(t) \/ LookUpTarget(t) \/ CountSuperadmins(t)
  \/ UpdateRole(t)

AccountsNext == \E t \in Threads : Arrive(t) \/ AccountStep(t)

\* A request that was taken up runs to its end.
AccountsFairness == \A t \in Threads : WF_accountVars(AccountStep(t))

AccountsSpec == AccountsInit /\ [][AccountsNext]_accountVars /\ AccountsFairness

-----------------------------------------------------------------------------
\* Once the accounts are set up from an environment that names a superadmin,
\* there is one, unless two demotions overlapped: update_role refuses to demote
\* the last (last_superadmin_demote_forbidden).
SuperadminWithoutClash ==
  env.superadmin /\ auth.initialized /\ ~clash => Superadmins # {}

\* What the run checks of every state: its type, and that a superadmin is left.
AccountsInvariant == AccountsTypeOK /\ SuperadminWithoutClash

\* The same with any overlap of requests.
SuperadminRemains == env.superadmin /\ auth.initialized => Superadmins # {}

\* Threads that run the initialisation at once do not shut each other out: with a
\* database that does not fail, the first request brings the accounts up, although
\* a thread that loses the race for the superadmin's row records an error for good.
AccountsComeUp ==
  (\E t \in Threads : task[t].at = "init") /\ budget.faults = 0 /\ ~auth.error
     ~> auth.initialized
=============================================================================
