----------------------------- MODULE Deployments -----------------------------
(***************************************************************************)
(* The deployment profiles of the platform: the provider each profile      *)
(* binds to each capability, the one profile that is active, and the       *)
(* runtime profile, online or offline.                                     *)
(*                                                                         *)
(* Superadmins edit, activate and delete profiles; executions resolve the  *)
(* bindings of the active one.  Every such request first runs              *)
(* ensure_platform_bootstrap_state, which writes the bindings of the       *)
(* profile local-default again.  Each action below is one transaction, or  *)
(* one statement where a transaction uses what an earlier statement of its *)
(* own read.  A request that a check refuses, and one that an exception    *)
(* cuts, ends where it is (Escape).  The providers are fixed and healthy.  *)
(***************************************************************************)
EXTENDS Sequences, Naturals

CONSTANTS
  Profiles,     \* ids of profiles; an id is never used twice
  Providers,    \* provider instances
  SeedOrder,    \* the capabilities, in the order the bootstrap binds them
  ResolveOrder, \* the capabilities, in the order an execution resolves them
  Required,     \* REQUIRED_CAPABILITIES
  Unread,       \* capabilities the bootstrap binds without regard to the
                \* binding there is
  Capability,   \* of a provider
  Default,      \* the provider the bootstrap has for a capability
  Cloud,        \* providers of a cloud family
  Threads,      \* threads of the backend that serve requests
  NoProfile,
  NoProvider,
  MaxRequests   \* bound on the requests served

Capabilities == {SeedOrder[i] : i \in 1..Len(SeedOrder)}
Optional == Capabilities \ Required

ASSUME DeploymentsAssumption ==
  /\ SeedOrder \in Seq(Capabilities) /\ SeedOrder # << >>
  /\ ResolveOrder \in Seq(Capabilities)
  /\ \A c \in Capabilities : \E i \in 1..Len(ResolveOrder) : ResolveOrder[i] = c
  /\ Required \subseteq Capabilities /\ Unread \subseteq Optional
  /\ Capability \in [Providers -> Capabilities]
  /\ Default \in [Capabilities -> Providers]
  /\ \A c \in Capabilities : Capability[Default[c]] = c
  /\ Cloud \subseteq Providers
  /\ NoProfile \notin Profiles /\ NoProvider \notin Providers
  /\ MaxRequests \in Nat

VARIABLES
  profiles,  \* platform_deployment_profiles with their bindings
  active,    \* platform_active_deployment
  runtime,   \* the runtime profile of system_runtime_config
  work,      \* the request each thread is at
  spent,     \* requests served
  online     \* history: threads whose request saw the runtime profile online

vars == <<profiles, active, runtime, work, spent, online>>

Slugs == {"local-default", "other"}
Bindings == {b \in [Capabilities -> Providers \cup {NoProvider}] :
               \A c \in Capabilities : b[c] # NoProvider => Capability[b[c]] = c}
NoBindings == [c \in Capabilities |-> NoProvider]
\* _require_complete_provider_binding_set
IsComplete(b) == \A c \in Required : b[c] # NoProvider
\* assert_bindings_allowed_for_runtime_profile
Allowed(b) == runtime = "online" \/ \A c \in Capabilities : b[c] \notin Cloud

Row(slug, b) == [slug |-> slug, bindings |-> b]
Exists(p) == p \in Profiles /\ profiles[p].slug \in Slugs
\* The slug is unique, but "other" stands for many.
IsFree(slug) == slug = "other" \/ \A p \in Profiles : profiles[p].slug # slug

Ops == {"create", "clone", "update", "identify", "bind", "unbind", "delete",
        "activate", "switch", "resolve"}
Steps == {"seed", "list", "seedbind", "elect", "current", "enter", "find",
          "write", "rename", "check", "read", "permit", "resolved"}
\* A request: `on` is the profile its URL names, `home` the one it works on,
\* `bindings` and `slug` what it read, `left` the capabilities still to do,
\* `from` the profile each resolved binding was read from.
Task(op, step, p) ==
  [op |-> op, step |-> step, on |-> p, home |-> NoProfile, left |-> << >>,
   bindings |-> NoBindings, slug |-> "other",
   from |-> [c \in Capabilities |-> NoProfile]]
NoTask == Task("none", "none", NoProfile)
Tasks == [op : Ops \cup {"none"}, step : Steps \cup {"none"},
          on : Profiles \cup {NoProfile}, home : Profiles \cup {NoProfile},
          left : Seq(Capabilities), bindings : Bindings, slug : Slugs,
          from : [Capabilities -> Profiles \cup {NoProfile}]]

\* Types of the variables.
TypeOK ==
  /\ profiles \in [Profiles -> [slug : Slugs \cup {"unused", "deleted"},
                                bindings : Bindings]]
  /\ active \in [profile : Profiles \cup {NoProfile},
                 previous : Profiles \cup {NoProfile}]
  /\ runtime \in {"online", "offline"}
  /\ work \in [Threads -> Tasks]
  /\ spent \in 0..MaxRequests
  /\ online \subseteq Threads

\* The platform before its first request, or booted.
Init ==
  /\ \/ /\ profiles = [p \in Profiles |-> Row("unused", NoBindings)]
        /\ active = [profile |-> NoProfile, previous |-> NoProfile]
     \/ \E first \in Profiles :
          /\ profiles = [p \in Profiles |-> IF p = first
                           THEN Row("local-default", Default)
                           ELSE Row("unused", NoBindings)]
          /\ active = [profile |-> first, previous |-> NoProfile]
  /\ runtime \in {"online", "offline"}
  /\ work = [t \in Threads |-> NoTask]
  /\ spent = 0
  /\ online = {}

-----------------------------------------------------------------------------
(* Threads.                                                                *)

Idle(t) == work[t] = NoTask
At(t, op, step) == work[t].op = op /\ work[t].step = step
Goto(t, step) == work' = [work EXCEPT ![t].step = step] /\ UNCHANGED <<spent, online>>
Become(t, task) == work' = [work EXCEPT ![t] = task] /\ UNCHANGED <<spent, online>>
End(t) == Become(t, NoTask)

\* A client names a profile it has seen; the routes of the platform boot it,
\* the one of the runtime profile does not.
Begin(t) ==
  /\ Idle(t)
  /\ spent < MaxRequests
  /\ spent' = spent + 1
  /\ online' = IF runtime = "online" THEN online \cup {t} ELSE online \ {t}
  /\ \/ \E op \in {"create", "resolve"} :
          work' = [work EXCEPT ![t] = Task(op, "seed", NoProfile)]
     \/ \E op \in Ops \ {"create", "resolve", "switch"}, p \in Profiles :
          /\ Exists(p)
          /\ work' = [work EXCEPT ![t] = Task(op, "seed", p)]
     \/ work' = [work EXCEPT ![t] = Task("switch", "find", NoProfile)]
  /\ UNCHANGED <<profiles, active, runtime>>

\* An exception, or a refusal, ends the request.
Escape(t) ==
  /\ ~Idle(t)
  /\ End(t)
  /\ UNCHANGED <<profiles, active, runtime>>

\* A statement on the tables of profiles.
Put(p, row) == profiles' = [profiles EXCEPT ![p] = row]
\* INSERT of a profile with its bindings.
Insert(slug, b) ==
  /\ IsFree(slug)
  /\ \E p \in Profiles : profiles[p].slug = "unused" /\ Put(p, Row(slug, b))
\* UPDATE platform_deployment_profiles SET slug: the row may be gone.
Rename(p, slug) ==
  /\ IsFree(slug) \/ profiles[p].slug = slug
  /\ profiles' = [profiles EXCEPT ![p].slug = IF Exists(p) THEN slug ELSE @]
\* INSERT ... ON CONFLICT of a binding; its profile must exist.
Bind(p, c, provider) ==
  /\ Exists(p)
  /\ profiles' = [profiles EXCEPT ![p].bindings[c] = provider]

-----------------------------------------------------------------------------
(* ensure_platform_bootstrap_state, before each request of the platform.   *)

\* ensure_deployment_profile finds local-default or inserts it.
Seed(t) ==
  /\ work[t].step = "seed"
  /\ \E p \in Profiles :
       /\ \/ profiles[p].slug = "local-default" /\ UNCHANGED profiles
          \/ /\ IsFree("local-default") /\ profiles[p].slug = "unused"
             /\ Put(p, Row("local-default", NoBindings))
       /\ Become(t, [work[t] EXCEPT !.step = "list", !.home = p])
  /\ UNCHANGED <<active, runtime>>

\* _existing_bindings_by_capability
List(t) ==
  /\ work[t].step = "list"
  /\ Become(t, [work[t] EXCEPT !.step = "seedbind", !.left = SeedOrder,
                               !.bindings = profiles[work[t].home].bindings])
  /\ UNCHANGED <<profiles, active, runtime>>

\* Deviation: what was read is kept, even if it was nothing.
SeededAsRead(t, c) == IF c \in Unread THEN Default[c] ELSE work[t].bindings[c]
\* _upsert_bootstrap_binding: the provider that was read, or the default.
Seeded(t, c) ==
  IF c \in Unread \/ work[t].bindings[c] = NoProvider
  THEN Default[c] ELSE work[t].bindings[c]

SeedBinding(t) ==
  /\ work[t].step = "seedbind" /\ work[t].left # << >>
  /\ Bind(work[t].home, Head(work[t].left), Seeded(t, Head(work[t].left)))
  /\ Become(t, [work[t] EXCEPT !.left = Tail(@)])
  /\ UNCHANGED <<active, runtime>>

\* What follows the bootstrap.
Booted(t) ==
  LET op == work[t].op
  IN  IF op = "resolve"
      THEN [Task(op, "read", NoProfile) EXCEPT !.left = ResolveOrder]
      ELSE Task(op, "find", work[t].on)

\* get_active_deployment: only the first boot activates local-default.
Elect(t) ==
  /\ work[t].step = "seedbind" /\ work[t].left = << >>
  /\ IF active.profile = NoProfile
     THEN Goto(t, "elect") ELSE Become(t, Booted(t))
  /\ UNCHANGED <<profiles, active, runtime>>

-----------------------------------------------------------------------------
(* activate_deployment_profile of the repository, for the bootstrap and    *)
(* for a request: one transaction that first reads the active profile.     *)

\* `slug` and `bindings` are of no more use; `from` holds what was read.
Current(t) ==
  /\ work[t].step \in {"elect", "current"}
  /\ Become(t, [work[t] EXCEPT
                  !.step = IF @ = "elect" THEN "enter" ELSE "write",
                  !.from = [c \in Capabilities |-> active.profile]])
  /\ UNCHANGED <<profiles, active, runtime>>

Previous(t) == work[t].from[SeedOrder[1]]

\* Both profiles must exist; the audit gets the same pair.
Enter(t, p) ==
  /\ Exists(p)
  /\ Previous(t) = NoProfile \/ Exists(Previous(t))
  /\ active' = [profile |-> p, previous |-> Previous(t)]
  /\ UNCHANGED <<profiles, runtime>>

ActivateFirst(t) ==
  /\ work[t].step = "enter"
  /\ Enter(t, work[t].home)
  /\ Become(t, Booted(t))

Activate(t) ==
  /\ At(t, "activate", "write")
  /\ Enter(t, work[t].on)
  /\ End(t)

FindBindings(t) ==
  /\ At(t, "activate", "find")
  /\ Exists(work[t].on)
  /\ Become(t, [work[t] EXCEPT !.step = "check",
                               !.bindings = profiles[work[t].on].bindings])
  /\ UNCHANGED <<profiles, active, runtime>>

\* The runtime profile is read next, and then every provider is validated.
Preflight(t) ==
  /\ At(t, "activate", "check")
  /\ Allowed(work[t].bindings)
  /\ Goto(t, "current")
  /\ UNCHANGED <<profiles, active, runtime>>

-----------------------------------------------------------------------------
(* The other requests of superadmins.                                      *)

Create(t) ==
  /\ At(t, "create", "find")
  /\ \E slug \in Slugs, b \in Bindings : IsComplete(b) /\ Insert(slug, b)
  /\ End(t)
  /\ UNCHANGED <<active, runtime>>

FindSource(t) ==
  /\ At(t, "clone", "find")
  /\ Exists(work[t].on) /\ profiles[work[t].on].bindings # NoBindings
  /\ Become(t, [work[t] EXCEPT !.step = "write",
                               !.bindings = profiles[work[t].on].bindings])
  /\ UNCHANGED <<profiles, active, runtime>>

Clone(t) ==
  /\ At(t, "clone", "write")
  /\ \E slug \in Slugs : Insert(slug, work[t].bindings)
  /\ End(t)
  /\ UNCHANGED <<active, runtime>>

\* One transaction replaces the profile's slug and all its bindings.
Update(t) ==
  LET p == work[t].on
  IN  /\ At(t, "update", "find")
      /\ Exists(p)
      /\ \E slug \in Slugs, b \in Bindings :
           /\ IsComplete(b)
           /\ IsFree(slug) \/ profiles[p].slug = slug
           /\ Put(p, Row(slug, b))
      /\ End(t)
      /\ UNCHANGED <<active, runtime>>

\* A payload without a slug keeps the one that was read.
FindIdentity(t) ==
  /\ At(t, "identify", "find") \/ At(t, "bind", "find")
  /\ Exists(work[t].on)
  /\ \E slug \in IF work[t].op = "identify" THEN Slugs
                 ELSE {profiles[work[t].on].slug} :
       Become(t, [work[t] EXCEPT !.slug = slug,
                    !.step = IF work[t].op = "identify" THEN "rename" ELSE "write"])
  /\ UNCHANGED <<profiles, active, runtime>>
Upsert(t) ==
  /\ At(t, "bind", "write")
  /\ \E provider \in Providers :
       Bind(work[t].on, Capability[provider], provider)
  /\ Goto(t, "rename")
  /\ UNCHANGED <<active, runtime>>

Identify(t) ==
  /\ work[t].step = "rename"
  /\ Rename(work[t].on, work[t].slug)
  /\ End(t)
  /\ UNCHANGED <<active, runtime>>

\* SELECT ... FOR UPDATE OF p: whether p is active is of the statement's
\* snapshot, and an activation may commit before the statement has its lock.
FindInactive(t) ==
  /\ At(t, "unbind", "find")
  /\ Exists(work[t].on) /\ work[t].on # active.profile
  /\ Goto(t, "write")
  /\ UNCHANGED <<profiles, active, runtime>>
Removable == Optional

Unbind(t) ==
  /\ At(t, "unbind", "write")
  /\ Exists(work[t].on)
  /\ \E c \in Removable :
       profiles' = [profiles EXCEPT ![work[t].on].bindings[c] = NoProvider]
  /\ End(t)
  /\ UNCHANGED <<active, runtime>>

\* The check that the profile is not active is of an earlier transaction;
\* the foreign key decides.
FindDeletable(t) ==
  /\ At(t, "delete", "find")
  /\ Exists(work[t].on) /\ work[t].on # active.profile
  /\ Goto(t, "write")
  /\ UNCHANGED <<profiles, active, runtime>>
IsRestricted(p) == p = active.profile

Delete(t) ==
  /\ At(t, "delete", "write")
  /\ Exists(work[t].on) /\ ~IsRestricted(work[t].on)
  /\ Put(work[t].on, Row("deleted", NoBindings))
  /\ active' = [active EXCEPT !.previous = IF @ = work[t].on THEN NoProfile ELSE @]
  /\ End(t)
  /\ UNCHANGED runtime

\* update_runtime_profile_state_response: a switch to offline looks at the
\* active bindings first.
FindActive(t) ==
  /\ At(t, "switch", "find")
  /\ active.profile # NoProfile
  /\ Become(t, [work[t] EXCEPT !.step = "check", !.home = active.profile])
  /\ UNCHANGED <<profiles, active, runtime>>

CheckOffline(t) ==
  /\ At(t, "switch", "check")
  /\ \A c \in Capabilities : profiles[work[t].home].bindings[c] \notin Cloud
  /\ Goto(t, "write")
  /\ UNCHANGED <<profiles, active, runtime>>

SwitchOffline(t) ==
  /\ \/ At(t, "switch", "write")
     \/ At(t, "switch", "find") /\ active.profile = NoProfile
  /\ runtime' = "offline"
  /\ End(t)
  /\ UNCHANGED <<profiles, active>>

SwitchOnline(t) ==
  /\ At(t, "switch", "find")
  /\ runtime' = "online"
  /\ work' = [work EXCEPT ![t] = NoTask]
  /\ online' = Threads
  /\ UNCHANGED <<profiles, active, spent>>

-----------------------------------------------------------------------------
(* get_active_platform_runtime: one binding of the active profile after    *)
(* the other, each read in a transaction of its own.                       *)

\* A required binding must exist, and all must be of one profile.  The code
\* compares the required ones after it has read them all.
Fits(t, c) ==
  /\ active.profile # NoProfile
  /\ c \in Required => profiles[active.profile].bindings[c] # NoProvider
  /\ work[t].home \in {NoProfile, active.profile}

ReadBinding(t) ==
  LET c == Head(work[t].left)
      b == profiles[active.profile].bindings[c]
  IN  /\ At(t, "resolve", "read") /\ work[t].left # << >>
      /\ IF active.profile # NoProfile /\ c \in Optional /\ b = NoProvider
         THEN Become(t, [work[t] EXCEPT !.left = Tail(@)])
         ELSE /\ Fits(t, c)
              /\ Become(t, [work[t] EXCEPT
                   !.step = "permit", !.home = active.profile,
                   !.bindings[c] = b, !.from[c] = active.profile])
      /\ UNCHANGED <<profiles, active, runtime>>

\* Deviation: nobody asks for the runtime profile.
PermitUnasked(t) ==
  /\ At(t, "resolve", "permit")
  /\ Become(t, [work[t] EXCEPT !.step = "read", !.left = Tail(@)])
  /\ UNCHANGED <<profiles, active, runtime>>

\* assert_provider_allowed_for_current_runtime
Permit(t) ==
  /\ At(t, "resolve", "permit")
  /\ work[t].bindings[Head(work[t].left)] \in Cloud => runtime = "online"
  /\ Become(t, [work[t] EXCEPT !.step = "read", !.left = Tail(@)])
  /\ UNCHANGED <<profiles, active, runtime>>

Resolved(t) ==
  /\ At(t, "resolve", "read") /\ work[t].left = << >>
  /\ Goto(t, "resolved")
  /\ UNCHANGED <<profiles, active, runtime>>

-----------------------------------------------------------------------------

\* Nothing was asked that is not done.
Quiet ==
  /\ \A t \in Threads : Idle(t)
  /\ spent = MaxRequests
  /\ UNCHANGED vars

Boot(t) ==
  Seed(t) \/ List(t) \/ SeedBinding(t) \/ Elect(t) \/ ActivateFirst(t)

Edit(t) ==
  \/ Create(t) \/ FindSource(t) \/ Clone(t) \/ Update(t) \/ FindIdentity(t)
  \/ Upsert(t) \/ Identify(t) \/ FindInactive(t) \/ Unbind(t)
  \/ FindDeletable(t) \/ Delete(t)

Switch(t) ==
  \/ FindBindings(t) \/ Preflight(t) \/ Current(t) \/ Activate(t)
  \/ FindActive(t) \/ CheckOffline(t) \/ SwitchOffline(t) \/ SwitchOnline(t)

Resolve(t) == ReadBinding(t) \/ Permit(t) \/ Resolved(t)

Next ==
  \/ \E t \in Threads :
       Begin(t) \/ Boot(t) \/ Edit(t) \/ Switch(t) \/ Resolve(t) \/ Escape(t)
  \/ Quiet

Spec == Init /\ [][Next]_vars

-----------------------------------------------------------------------------
(* Properties.                                                             *)

\* The active profile exists and binds every required capability, whatever
\* edits, deletions and half done bootstraps overlap its activation, which
\* itself does not look whether the profile is complete.
ActiveIsComplete ==
  /\ TypeOK
  /\ active.profile # NoProfile =>
       Exists(active.profile) /\ IsComplete(profiles[active.profile].bindings)

\* The bindings resolved for an execution are all of one profile, though the
\* active profile may change while they are read.
SnapshotOfOneProfile ==
  \A t \in Threads : At(t, "resolve", "resolved") =>
    /\ IsComplete(work[t].bindings)
    /\ \A c, d \in Capabilities :
         {work[t].from[c], work[t].from[d]} \subseteq Profiles
           => work[t].from[c] = work[t].from[d]

\* No cloud provider is resolved for an execution during which the runtime
\* profile was always offline, whatever is bound meanwhile.
OfflineSnapshotIsLocal ==
  \A t \in Threads \ online : At(t, "resolve", "resolved") =>
    \A c \in Capabilities : work[t].bindings[c] \notin Cloud

\* What an execution is given is consistent and permitted.
SnapshotIsSound == SnapshotOfOneProfile /\ OfflineSnapshotIsLocal
=============================================================================
