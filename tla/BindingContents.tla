--------------------------- MODULE BindingContents ---------------------------
(***************************************************************************)
(* What the bindings of a deployment profile carry: the resources a        *)
(* capability may use (managed models, knowledge bases, things only the    *)
(* provider knows), its default and its policy.                            *)
(*                                                                         *)
(* Three parts of the backend judge a binding, each by a code of its own:  *)
(* the validators when it is saved, the configuration status whenever the  *)
(* profile is shown, and the preflight when the profile is activated; two  *)
(* more judge its provider, the validation of a provider and the listing   *)
(* of the active capabilities.  Between any two of them the models, the    *)
(* knowledge bases and the providers may change.                           *)
(*                                                                         *)
(* One profile; Deployments has the rest of its life.  A task default is   *)
(* named by the task key its model must have, and what identifies a        *)
(* resource at its provider by the resource.                               *)
(***************************************************************************)
EXTENDS Naturals

CONSTANTS
  Features,     \* the capabilities that may be bound
  Needed,       \* REQUIRED_CAPABILITIES
  Instances,    \* provider instances
  Provides,     \* the capability of an instance
  CloudBased,   \* instances of a cloud family
  Models,       \* rows of model_registry
  External,     \* models whose backend_kind is external_api
  Nameless,     \* models without an identifier for the provider
  Bases,        \* knowledge bases
  StoredAt,     \* the vector store of a knowledge base
  EmbeddedAt,   \* the embeddings provider of a knowledge base
  EmbeddedWith, \* the embeddings model of a knowledge base
  SelfProvided, \* knowledge bases whose clients send the vectors
  Natives,      \* resources only a provider knows: indexes, processors
  TaskKey,      \* the task key of a model or of a native resource
  Groups,       \* the groups of task keys of an image capability
  Offers,       \* what clients send as a resource: an id, and what it names;
                \* a model that generates no images, sent for image generation,
                \* is a native resource
  NoBinding,
  NoResource,
  MaxChanges,   \* bound on the requests and on the changes around them
  MaxTurns      \* bound on the changes around them

Resources == Models \cup Bases \cup Natives
TextFeatures == {"llm_inference", "embeddings"}
ImageFeatures == {"image_analysis", "image_generation"}
GroupKeys(c) == UNION Groups[c]
\* IMAGE_GENERATION_MODEL_DEFAULT_KEYS: the others name native resources.
TextToImage == "image_text_to_image"
Modes == {"none", "explicit", "dynamic_namespace", "task_defaults"}

ASSUME ContentsAssumption ==
  /\ Needed \subseteq Features
  /\ Needed \cap ImageFeatures = {}
  /\ Provides \in [Instances -> Features]
  /\ \A c \in Needed : \E i \in Instances : Provides[i] = c
  /\ CloudBased \subseteq Instances
  /\ External \subseteq Models /\ Nameless \subseteq Models
  /\ Models \cap Bases = {} /\ Models \cap Natives = {} /\ Bases \cap Natives = {}
  /\ StoredAt \in [Bases -> Instances] /\ EmbeddedAt \in [Bases -> Instances]
  /\ EmbeddedWith \in [Bases -> Models] /\ SelfProvided \subseteq Bases
  /\ TaskKey \in [Models \cup Natives -> STRING]
  /\ Groups \in [Features -> SUBSET SUBSET STRING]
  /\ \A c \in Features \ ImageFeatures : Groups[c] = {}
  /\ DOMAIN Offers = Features
  /\ \A c \in Features : \A o \in Offers[c] : o.of \in Resources
  /\ \A c \in ImageFeatures \cap Features : \A o \in Offers[c] : o.of \notin Bases
  /\ "image_generation" \in Features =>
       \A o \in Offers["image_generation"] : o.of \in Models => TaskKey[o.of] = TextToImage
  /\ NoResource \notin Resources
  /\ MaxChanges \in Nat /\ MaxTurns \in Nat

VARIABLES
  bound,     \* the bindings of the profile, by capability
  models,    \* model_registry, as far as it changes
  bases,     \* context_knowledge_bases, as far as they change
  instances, \* platform_provider_instances, and what answers at their URL
  isActive,  \* is the profile the active one
  disturbed, \* history: since its activation the profile was edited, or one
             \* of its providers disabled, or the credential of one revoked
  changes,   \* bounded by MaxChanges
  turns      \* bounded by MaxTurns

contentVars == <<bound, models, bases, instances, isActive, disturbed, changes, turns>>

Content(c) == [instance : Instances, resources : SUBSET Resources,
               default : Resources \cup {NoResource}, mode : Modes, prefix : BOOLEAN,
               defaults : [GroupKeys(c) -> Resources \cup {NoResource}]]

ASSUME NoBindingAssumption == \A c \in Features : NoBinding \notin Content(c)

ModelRow == [active : BOOLEAN, validated : BOOLEAN, credential : BOOLEAN]
BaseRow == [active : BOOLEAN, ready : BOOLEAN]
\* What is stored of an instance: is it there, enabled, and its saved
\* credential; and what is true of the provider: does it answer, and what
\* does it list.
InstanceRow == [there : BOOLEAN, enabled : BOOLEAN,
                secret : {"none", "active", "revoked"},
                up : BOOLEAN, lists : SUBSET Resources]

ContentTypeOK ==
  /\ DOMAIN bound = Features
  /\ \A c \in Features : bound[c] = NoBinding \/ bound[c] \in Content(c)
  /\ models \in [Models -> ModelRow]
  /\ bases \in [Bases -> BaseRow]
  /\ instances \in [Instances -> InstanceRow]
  /\ isActive \in BOOLEAN /\ disturbed \in BOOLEAN
  /\ changes \in 0..MaxChanges /\ turns \in 0..MaxTurns

IsBound(c) == bound[c] # NoBinding
Host(c) == instances[bound[c].instance]
Unset(c) == [t \in GroupKeys(c) |-> NoResource]
Empty(c, i) ==
  [instance |-> i, resources |-> {}, default |-> NoResource, mode |-> "none",
   prefix |-> FALSE, defaults |-> Unset(c)]

\* A profile is created with the required bindings; none has a resource yet.
ContentInit ==
  /\ \E home \in [Needed -> Instances] :
       /\ \A c \in Needed : Provides[home[c]] = c
       /\ bound = [c \in Features |->
                     IF c \in Needed THEN Empty(c, home[c]) ELSE NoBinding]
  /\ models = [m \in Models |-> [active |-> TRUE, validated |-> TRUE, credential |-> TRUE]]
  /\ bases = [k \in Bases |-> [active |-> TRUE, ready |-> TRUE]]
  /\ \E holders \in SUBSET CloudBased :
       instances = [i \in Instances |->
         [there |-> TRUE, enabled |-> TRUE, up |-> TRUE,
          secret |-> IF i \in holders THEN "active" ELSE "none",
          lists |-> {o.of : o \in Offers[Provides[i]]}]]
  /\ isActive = FALSE /\ disturbed = FALSE /\ changes = 0 /\ turns = 0

Change == changes < MaxChanges /\ changes' = changes + 1
Request == Change /\ UNCHANGED turns
Around == Change /\ turns < MaxTurns /\ turns' = turns + 1

-----------------------------------------------------------------------------
(* The validators: what a request to save a binding must be.  A request    *)
(* has the fields of a binding; its resources are offers, and its default  *)
(* is an id.  The policy of a binding of text models is free, and unread,  *)
(* as is a prefix in another mode than that of namespaces.                 *)

ModesOf(c) ==
  CASE c \in TextFeatures -> {"none"}
    [] c \in ImageFeatures -> Modes \ {"dynamic_namespace"}
    [] c = "vector_store" -> Modes \ {"none"}
    [] OTHER -> {"none", "explicit"}

Requests(c, i) ==
  {r \in [instance : {i}, resources : SUBSET Offers[c],
          default : {o.id : o \in Offers[c]} \cup {NoResource},
          mode : ModesOf(c), prefix : BOOLEAN, defaults : {Unset(c)}] :
     r.prefix => r.mode = "dynamic_namespace"}
\* The same request with task defaults.
Refined(c, r) ==
  IF c \in ImageFeatures
  THEN {[r EXCEPT !.defaults = d] :
          d \in [GroupKeys(c) -> {o.of : o \in Offers[c]} \cup {NoResource}]}
  ELSE {r}

Named(r) == {o.of : o \in r.resources}
\* _normalize_binding_resources, and the primary key of the rows: the
\* validators store a model and a knowledge base under the id of its row.
NamesOnce(r) ==
  \A o, p \in r.resources : o # p => o.id # p.id /\ o.of # p.of
DefaultIsNamed(r) ==
  r.default # NoResource => \E o \in r.resources : o.id = r.default

TasksOf(c) ==
  CASE c = "llm_inference" -> {"llm"}
    [] c = "embeddings" -> {"embeddings"}
    [] c = "image_analysis" -> GroupKeys(c)
    [] OTHER -> {TextToImage}
\* Were the model not matched with the origin of the provider.
MayServeAnywhere(c, i, m) ==
  /\ m \in Models \ Nameless
  /\ TaskKey[m] \in TasksOf(c)
  /\ models[m].active /\ models[m].validated /\ models[m].credential
MayServe(c, i, m) ==
  /\ m \in Models
  /\ TaskKey[m] \in TasksOf(c)
  /\ models[m].active /\ models[m].validated
  /\ m \notin Nameless
  /\ IF i \in CloudBased THEN m \in External /\ models[m].credential
                         ELSE m \notin External

MaySearch(i, k) ==
  /\ bases[k].active /\ bases[k].ready
  /\ StoredAt[k] = i

\* Groups of task keys: one is asked for if a resource has one of its tasks,
\* or one of its defaults is given.
IsRequested(b, group) ==
  \E t \in group : \/ b.defaults[t] # NoResource
                   \/ \E r \in b.resources \cap DOMAIN TaskKey : TaskKey[r] = t
IsFilled(b, group) ==
  \A t \in group : /\ b.defaults[t] \in b.resources \cap DOMAIN TaskKey
                   /\ TaskKey[b.defaults[t]] = t
TaskDefaultsFit(c, b) ==
  /\ \A g \in Groups[c] : IsRequested(b, g) => IsFilled(b, g)
  /\ \E g \in Groups[c] : IsRequested(b, g) /\ IsFilled(b, g)

\* Whatever is not said to generate images passes as a native resource.
NeedsRow(c, m) == c = "image_generation" => TaskKey[m] = TextToImage

TextIsValid(c, r) ==
  /\ DefaultIsNamed(r)
  /\ \A m \in Named(r) : MayServe(c, r.instance, m)
ImageIsValid(c, r) ==
  /\ r.default = NoResource
  /\ r.resources # {}
  /\ r.mode \in {"none", "task_defaults"}
  /\ \A m \in Named(r) : NeedsRow(c, m) => MayServe(c, r.instance, m)
VectorIsValid(r) ==
  \/ /\ r.mode \in {"none", "explicit"}
     /\ DefaultIsNamed(r)
     /\ \A k \in Named(r) : k \in Bases => MaySearch(r.instance, k)
  \/ /\ r.mode = "dynamic_namespace"
     /\ r.prefix /\ r.resources = {} /\ r.default = NoResource
IsValid(c, r) ==
  /\ NamesOnce(r)
  /\ CASE c \in TextFeatures -> TextIsValid(c, r)
       [] c \in ImageFeatures -> ImageIsValid(c, r)
       [] c = "vector_store" -> VectorIsValid(r)
       [] OTHER -> r = Empty(c, r.instance)

\* _replace_binding_resources: the default is the resource whose id it is.
Saved(r) ==
  [r EXCEPT !.resources = Named(r),
            !.default = IF r.default \in Named(r) THEN r.default ELSE NoResource]

\* PUT of a binding; it need not spare the active profile.
Save(c) ==
  /\ Request
  /\ \E i \in Instances :
       /\ instances[i].there /\ Provides[i] = c
       /\ \E r \in Requests(c, i) :
            /\ IsValid(c, r)
            /\ \E b \in Refined(c, Saved(r)) :
                 /\ c \in ImageFeatures => TaskDefaultsFit(c, b)
                 /\ bound' = [bound EXCEPT ![c] = b]
  /\ disturbed' = (disturbed \/ isActive)
  /\ UNCHANGED <<models, bases, instances, isActive>>

\* DELETE of a binding.
Drop(c) ==
  /\ Request
  /\ c \notin Needed /\ IsBound(c) /\ ~isActive
  /\ bound' = [bound EXCEPT ![c] = NoBinding]
  /\ UNCHANGED <<models, bases, instances, isActive, disturbed>>

-----------------------------------------------------------------------------
(* The configuration status: is a binding reported ready?  It looks        *)
(* neither at the state of the models nor at the mode of an image binding. *)

OriginsFit(b) ==
  \A m \in b.resources \cap Models : m \in External <=> b.instance \in CloudBased
GroupIsMissing(b, group) ==
  \E t \in group : b.defaults[t] \notin {r \in b.resources \cap DOMAIN TaskKey : TaskKey[r] = t}
ImageIsReady(c, b) ==
  /\ b.resources # {}
  /\ ~\E g \in Groups[c] : IsRequested(b, g) /\ GroupIsMissing(b, g)
  /\ \E g \in Groups[c] : IsRequested(b, g) /\ ~GroupIsMissing(b, g)
  /\ OriginsFit(b)
\* A knowledge base is searched with vectors of the model it was embedded with.
SpaceFits(k) ==
  /\ k \notin SelfProvided
  /\ "embeddings" \in Features /\ IsBound("embeddings")
  /\ bound["embeddings"].instance = EmbeddedAt[k]
  /\ bound["embeddings"].default = EmbeddedWith[k]
VectorIsReady(b) ==
  /\ IF b.mode = "dynamic_namespace" THEN b.prefix ELSE b.resources # {}
  /\ \A k \in b.resources \cap Bases : SpaceFits(k)
IsReady(c) ==
  /\ IsBound(c)
  /\ Host(c).enabled
  /\ CASE c \in TextFeatures ->
            bound[c].resources # {} /\ bound[c].default # NoResource /\ OriginsFit(bound[c])
       [] c \in ImageFeatures -> ImageIsReady(c, bound[c])
       [] c = "vector_store" -> VectorIsReady(bound[c])
       [] OTHER -> TRUE

\* What an optional capability lacks does not count.
ProfileIsReady == \A c \in Needed : IsReady(c)

-----------------------------------------------------------------------------
(* The preflight of an activation, and the validation of a provider.       *)

\* resolve_binding_modelops_credential
HasSecret(i) == instances[i].secret # "revoked"
\* An embeddings provider is asked to embed, which takes a default; the
\* others are asked for what they list, or for an operation of theirs.
IsSilent(c, b) ==
  /\ ~instances[b.instance].up
  /\ c = "embeddings" => b.default # NoResource
\* A provider that lists nothing is not held to its list.
IsUnlisted(c, b) ==
  /\ c \in {"llm_inference"} \cup ImageFeatures
  /\ instances[b.instance].up
  /\ instances[b.instance].lists # {}
  /\ ~(b.resources \subseteq instances[b.instance].lists)
LacksTaskDefaults(c, b) ==
  /\ c \in ImageFeatures
  /\ b.resources = {} \/ b.mode # "task_defaults" \/ ~TaskDefaultsFit(c, b)
\* A binding of models without resources or default does not block.
Blocks(c, b) == IsSilent(c, b) \/ IsUnlisted(c, b) \/ LacksTaskDefaults(c, b)
PassesPreflight(c) == HasSecret(bound[c].instance) /\ ~Blocks(c, bound[c])

ActivateBound ==
  /\ Request
  /\ \A c \in Features : IsBound(c) => Host(c).enabled /\ PassesPreflight(c)
  /\ isActive' = TRUE /\ disturbed' = FALSE
  /\ UNCHANGED <<bound, models, bases, instances>>

\* Another profile becomes the active one.
Retire ==
  /\ Request
  /\ isActive /\ isActive' = FALSE
  /\ UNCHANGED <<bound, models, bases, instances, disturbed>>

\* A provider is validated with the binding the active profile has for it,
\* if any.
ActiveAt(i) == {c \in Features : isActive /\ IsBound(c) /\ bound[c].instance = i}
ProviderIsValid(i) ==
  /\ instances[i].there
  /\ HasSecret(i)
  /\ instances[i].up
  /\ Provides[i] = "embeddings" =>
       \E c \in ActiveAt(i) : bound[c].default # NoResource

-----------------------------------------------------------------------------
(* What the capabilities resolve to, and the listing of all of them.       *)

Resolves(c) == IsBound(c) /\ Host(c).enabled /\ HasSecret(bound[c].instance)
\* An optional capability may have no binding; any other trouble fails the
\* whole listing.
ListingWorks ==
  \A c \in Features : c \in Needed \/ IsBound(c) => Resolves(c)

-----------------------------------------------------------------------------
(* What changes around the bindings.                                       *)

\* A model is deactivated, its test outdated, its credential revoked, or
\* each of them made good again.
TurnModel(m) ==
  /\ Around
  /\ \/ models' = [models EXCEPT ![m].active = ~models[m].active]
     \/ models' = [models EXCEPT ![m].validated = ~models[m].validated]
     \/ /\ m \in External
        /\ models' = [models EXCEPT ![m].credential = ~models[m].credential]
  /\ UNCHANGED <<bound, bases, instances, isActive, disturbed>>
TurnBase(k) ==
  /\ Around
  /\ \/ bases' = [bases EXCEPT ![k].active = ~bases[k].active]
     \/ bases' = [bases EXCEPT ![k].ready = ~bases[k].ready]
  /\ UNCHANGED <<bound, models, instances, isActive, disturbed>>
\* PUT of a provider.
Enable(i, on) ==
  /\ Request
  /\ instances[i].there /\ instances[i].enabled # on
  /\ instances' = [instances EXCEPT ![i].enabled = on]
  /\ disturbed' = (disturbed \/ ~on)
  /\ UNCHANGED <<bound, models, bases, isActive>>
Revoke(i) ==
  /\ Around
  /\ instances[i].secret = "active"
  /\ instances' = [instances EXCEPT ![i].secret = "revoked"]
  /\ disturbed' = TRUE
  /\ UNCHANGED <<bound, models, bases, isActive>>
\* DELETE of a provider: no binding may refer to it.
DeleteInstance(i) ==
  /\ Request
  /\ instances[i].there
  /\ ~\E c \in Features : IsBound(c) /\ bound[c].instance = i
  /\ instances' = [instances EXCEPT ![i].there = FALSE]
  /\ UNCHANGED <<bound, models, bases, isActive, disturbed>>
\* The provider starts or stops to answer, or to serve a resource.
Turn(i) ==
  /\ Around
  /\ \/ instances' = [instances EXCEPT ![i].up = ~instances[i].up]
     \/ \E r \in instances[i].lists :
          instances' = [instances EXCEPT ![i].lists = instances[i].lists \ {r}]
     \/ /\ instances[i].lists # {}
        /\ instances' = [instances EXCEPT ![i].lists = {}]
  /\ UNCHANGED <<bound, models, bases, isActive, disturbed>>

\* Nobody has anything left to ask for.
Settled == changes = MaxChanges /\ UNCHANGED contentVars

ContentNext ==
  \/ \E c \in Features : Save(c) \/ Drop(c)
  \/ ActivateBound \/ Retire
  \/ \E m \in Models : TurnModel(m)
  \/ \E k \in Bases : TurnBase(k)
  \/ \E i \in Instances : (\E on \in BOOLEAN : Enable(i, on)) \/ Revoke(i)
                          \/ DeleteInstance(i) \/ Turn(i)
  \/ Settled

ContentSpec == ContentInit /\ [][ContentNext]_contentVars

-----------------------------------------------------------------------------
\* Is there nothing left to say in a binding?
IsFilledIn(c, b) ==
  /\ c \in TextFeatures => b.default # NoResource
  /\ c = "vector_store" =>
       /\ b.mode = "dynamic_namespace" \/ b.resources # {}
       /\ \A k \in b.resources \cap Bases : SpaceFits(k)

\* However the models, knowledge bases and providers change, what the
\* validators once let through stays usable.
\* The validators and the status agree: a binding that leaves nothing open
\* is reported ready while its provider is enabled.
ValidIsReady ==
  \A c \in Features :
    IsBound(c) /\ Host(c).enabled /\ IsFilledIn(c, bound[c]) => IsReady(c)
\* The validators and the preflight agree: the content of a binding, once
\* it says that it selects by task defaults, is no ground to refuse an
\* activation.
ValidPasses ==
  \A c \in Features :
    /\ IsBound(c) /\ Host(c).up /\ HasSecret(bound[c].instance)
    /\ bound[c].resources \subseteq Host(c).lists
    /\ c \in ImageFeatures => bound[c].mode = "task_defaults"
    => PassesPreflight(c)
\* The preflight and the validation of a provider agree: a provider the
\* active profile uses is not called broken for what the preflight accepts,
\* but for embeddings without a default.
PassedIsValid ==
  \A c \in Features :
    /\ isActive /\ IsBound(c) /\ PassesPreflight(c)
    /\ c = "embeddings" => bound[c].default # NoResource
    => ProviderIsValid(bound[c].instance)
\* What was activated is listed, until it is edited or its providers are
\* disabled or lose their credentials.
ActivatedIsListed == isActive /\ ~disturbed => ListingWorks

\* The status and the listing agree: a profile that is reported ready is
\* listed, if its providers have their credentials and the optional ones are
\* enabled.
ReadyIsListed ==
  /\ ProfileIsReady
  /\ \A c \in Features : IsBound(c) => HasSecret(bound[c].instance)
  /\ \A c \in Features \ Needed : IsBound(c) => Host(c).enabled
  => ListingWorks

\* The validators, the status, the preflight, the validation of providers
\* and the listing of the active capabilities do not contradict each other.
JudgesAgree ==
  ValidIsReady /\ ValidPasses /\ PassedIsValid /\ ActivatedIsListed /\ ReadyIsListed
=============================================================================
