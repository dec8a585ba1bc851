--------------------------- MODULE MCDeployments ----------------------------
(* Small instances of Deployments, with two required capabilities and,     *)
(* bound between them, an optional one, and of BindingContents: the        *)
(* bindings of one profile.  A scene is about one of the two.              *)
EXTENDS Deployments, BindingContents, TLC

MCSeedOrder == <<"llm_inference", "sandbox_execution", "mcp_runtime">>
MCResolveOrder == <<"llm_inference", "mcp_runtime", "sandbox_execution">>
MCRequired == {"llm_inference", "mcp_runtime"}
MCUnread == {"sandbox_execution"}
MCProviders == {"vllm", "openai", "gateway", "sandbox", "sandbox2"}
MCCapability == [p \in MCProviders |->
  CASE p \in {"vllm", "openai"} -> "llm_inference"
    [] p = "gateway" -> "mcp_runtime"
    [] OTHER -> "sandbox_execution"]
MCDefault == [c \in {"llm_inference", "mcp_runtime", "sandbox_execution"} |->
  CASE c = "llm_inference" -> "vllm"
    [] c = "mcp_runtime" -> "gateway"
    [] OTHER -> "sandbox"]
MCCloud == {"openai"}

-----------------------------------------------------------------------------
MCNeeded == {"llm_inference", "embeddings", "vector_store", "mcp_runtime"}
MCFeatures == MCNeeded \cup ImageFeatures
MCInstances == {"vllm", "openai", "embedder", "weaviate", "gateway", "analysis", "generation"}
MCProvides == [i \in MCInstances |->
  CASE i \in {"vllm", "openai"} -> "llm_inference"
    [] i = "embedder" -> "embeddings"
    [] i = "weaviate" -> "vector_store"
    [] i = "gateway" -> "mcp_runtime"
    [] i = "analysis" -> "image_analysis"
    [] OTHER -> "image_generation"]
\* Models for chats (one of a cloud, one without identifier), for vectors,
\* for plates and their texts, and for images; a processor of plates.
MCModels == {"chat", "gpt", "raw", "vec", "plates", "ocr", "painter"}
MCNatives == {"logo"}
MCTaskKey == [r \in MCModels \cup MCNatives |->
  CASE r \in {"chat", "gpt", "raw"} -> "llm"
    [] r = "vec" -> "embeddings"
    [] r = "painter" -> TextToImage
    [] OTHER -> r]
MCGroups == [c \in MCFeatures |->
  CASE c = "image_analysis" -> {{"plates", "ocr"}}
    [] c = "image_generation" -> {{TextToImage}, {"logo"}}
    [] OTHER -> {}]
\* A resource by its own id, and a model under another id.
Plain(S) == {[id |-> r, of |-> r] : r \in S}
MCOffers == [c \in MCFeatures |->
  CASE c = "llm_inference" ->
         Plain({"chat", "gpt", "raw"}) \cup {[id |-> "alias", of |-> "chat"]}
    [] c = "embeddings" -> Plain({"vec"})
    [] c = "vector_store" -> Plain(Bases)
    [] c = "image_analysis" -> Plain({"plates", "ocr"})
    [] c = "image_generation" -> Plain({"painter", "logo"})
    [] OTHER -> {}]
MCStoredAt == [k \in Bases |-> "weaviate"]
MCEmbeddedAt == [k \in Bases |-> "embedder"]
MCEmbeddedWith == [k \in Bases |-> "vec"]

VARIABLE scene

\* Nothing is bound in a scene about profiles.
NoContent ==
  /\ bound = [c \in Features |-> NoBinding]
  /\ models = << >> /\ bases = << >> /\ instances = << >>
  /\ isActive = FALSE /\ disturbed = FALSE /\ changes = 0 /\ turns = 0
MCInit ==
  /\ Init
  /\ \/ scene = "profiles" /\ NoContent
     \/ /\ scene = "contents" /\ ContentInit
        /\ active.profile = NoProfile /\ runtime = "online"
MCNext ==
  /\ \/ scene = "profiles" /\ Next /\ UNCHANGED contentVars
     \/ scene = "contents" /\ ContentNext /\ UNCHANGED vars
  /\ UNCHANGED scene
MCSpec == MCInit /\ [][MCNext]_<<vars, contentVars, scene>>

MCSymmetry == Permutations(Profiles) \cup Permutations(Threads)
=============================================================================
