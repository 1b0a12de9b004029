---------------------------- MODULE LoadOptions -----------------------------
(***************************************************************************)
(* One model from its settings files to the requests its server gets: the  *)
(* files are read and converted (Settings), a load replaces some fields    *)
(* for its own duration (LoadFields), the backend turns the outcome into   *)
(* the options of a server process or of a library, the executor gets its  *)
(* limit, and requests are admitted against what was configured and what   *)
(* was launched.                                                           *)
(*                                                                         *)
(* A load, an unload and a reload are one step each here; their steps are  *)
(* those of module Router.                                                 *)
(***************************************************************************)
EXTENDS LoadFields

CONSTANTS
    Models,        \* the models looked at: backend, base file, local files, traits
    MaxFailing,    \* see LoadFailed
    AskedTogether  \* for each backend, the sets of fields that overrides are made of

\* load_settings takes a maximum of thinking tokens for vllm_serve only.
ASSUME ModelsAssumption ==
    \A m \in Models :
        /\ m.backend \in Backends
        /\ m.format = Text(m.format.text) \/ m.format = Loose(m.format.text)
        /\ m.budgetMax \in Nat /\ (m.budgetMax > 0 => m.backend = "vllm_serve")

VARIABLES
    model,         \* which model it is
    local,         \* its entry in local.json
    configured,    \* ModelSettings, as of the last load_settings that was accepted
    lifecycle,
    override,      \* load_override, in the words of the client
    effective,     \* effective_settings of the loaded model, or NotSet
    launched,      \* the options its server was started with, or NotSet
    slots,         \* how many requests its executor lets run at a time
    sent           \* the last request that was admitted, and what the backend sent

vars == <<model, local, configured, lifecycle, override, effective, launched, slots, sent>>

NotSet == <<>>
Empty == <<>>
NoRequest == [request |-> "none"]

backend == model.backend

\* The value of an option, Null when it is not there.
Of(options, f) == IF f \in DOMAIN options THEN options[f] ELSE Null

Restricted(options, S) == [f \in DOMAIN options \cap S |-> options[f]]

-----------------------------------------------------------------------------
(* The effective settings: _apply_load_override. *)

\* With one branch per step the number of draft tokens is not free.
DraftTokensFixed(s) ==
    s.sglang_speculative_algorithm # Null /\ s.sglang_speculative_eagle_topk = Integer(1)

DraftTokens(s) == Integer(s.sglang_speculative_num_steps.int + 1)

\* Variant: a field that is null counts as one that was not sent.
Replaced_NotNull(payload) ==
    [f \in DOMAIN configured |->
        IF Of(payload, f) # Null THEN Normal(payload[f]) ELSE configured[f]]

Replaced(payload) ==
    [f \in DOMAIN configured |-> IF f \in DOMAIN payload THEN Normal(payload[f]) ELSE configured[f]]

OverrideAccepted(payload) ==
    /\ \A f \in DOMAIN payload :
          f \in DOMAIN Overrides[backend] /\ payload[f] \in Overrides[backend][f]
    /\ LET s == Replaced(payload)
       IN  /\ backend = "sglang_serve"
           /\ "sglang_speculative_num_draft_tokens" \in DOMAIN payload
           /\ DraftTokensFixed(s)
           => s.sglang_speculative_num_draft_tokens = DraftTokens(s)

Effective(payload) ==
    LET s == Replaced(payload)
    IN  IF /\ backend = "sglang_serve"
           /\ DOMAIN payload \ {"target_inflight"} # {}
           /\ DraftTokensFixed(s)
        THEN [s EXCEPT !.sglang_speculative_num_draft_tokens = DraftTokens(s)] ELSE s

-----------------------------------------------------------------------------
(* The options of the server: _command of each backend.  An option whose   *)
(* value is Null is not passed.                                            *)

Given(options) == Restricted(options, {f \in DOMAIN options : options[f] # Null})

\* "auto" is what the server does when it is not told.
Dtype(options, f) == IF options[f] = Text("auto") THEN Null ELSE options[f]

VllmSpeculative ==
    {"vllm_speculative_model", "vllm_speculative_moe_backend",
     "vllm_speculative_attention_backend", "vllm_num_speculative_tokens"}

\* Also of the library: the options are those of AsyncEngineArgs then.
VllmOptions(s) ==
    LET unused == IF s.vllm_speculative_method = Null THEN VllmSpeculative ELSE {}
    IN  Given([[f \in DOMAIN s \ (unused \cup {"target_inflight"}) |-> s[f]]
                  EXCEPT !.vllm_kv_cache_dtype = Dtype(s, "vllm_kv_cache_dtype")])

VllmServeOptions(s) == VllmOptions(s) ++ [max_num_seqs |-> s.target_inflight]

SglangSpeculative ==
    {"sglang_speculative_draft_model", "sglang_speculative_num_steps",
     "sglang_speculative_num_draft_tokens", "sglang_speculative_eagle_topk"}

SglangOptions(s) ==
    LET unused == IF s.sglang_speculative_algorithm = Null THEN SglangSpeculative ELSE {}
        tokens == IF s.sglang_speculative_eagle_topk = Integer(1)
                  THEN DraftTokens(s) ELSE s.sglang_speculative_num_draft_tokens
        passed == [f \in DOMAIN s |->
                      CASE f \in unused -> Null
                        [] f \notin unused /\ f = "sglang_kv_cache_dtype" -> Dtype(s, f)
                        [] f \notin unused /\ f = "sglang_speculative_num_draft_tokens" -> tokens
                        [] OTHER -> s[f]]
    IN  Given([f \in DOMAIN s \ {"target_inflight"} |-> passed[f]])
        ++ [max_num_seqs |-> s.target_inflight]

LlamaServerOptions(s) ==
    Given([f \in DOMAIN s \ {"target_inflight"} |-> s[f]]) ++ [max_num_seqs |-> s.target_inflight]

\* Written into a YAML file, over the one the settings name (model.yaml).
TrtllmOptions(s) ==
    Given([f \in DOMAIN s \ {"target_inflight"} |-> s[f]])
    ++ model.yaml ++ [max_num_seqs |-> s.target_inflight]

\* The constant that stands for "off" in llama.cpp may have the value of "auto"
\* because of the loads of other models: see LlamaCppLoad.
LlamaCppOptions(s) ==
    LET options == Given([f \in DOMAIN s \ {"target_inflight"} |-> s[f]])
    IN  {options} \cup (IF s.gguf_flash_attn = Text("off")
                        THEN {[options EXCEPT !.gguf_flash_attn = Text("auto")]} ELSE {})

ExllamaOptions(s) == Given([f \in DOMAIN s \ {"target_inflight"} |-> s[f]])

\* The other backends have no options among those looked at.
Options(s) ==
    CASE backend = "vllm_serve"   -> {VllmServeOptions(s)}
      [] backend = "vllm"         -> {VllmOptions(s)}
      [] backend = "sglang_serve" -> {SglangOptions(s)}
      [] backend = "trtllm_serve" -> {TrtllmOptions(s)}
      [] backend = "llama_server" -> {LlamaServerOptions(s)}
      [] backend = "llama_cpp"    -> LlamaCppOptions(s)
      [] backend = "exllamav3"    -> {ExllamaOptions(s)}
      [] OTHER                     -> {Empty}

\* The backend refuses to start: the limit of the server is given in the extra
\* arguments or in the YAML file too, or a configured value is out of range.
StartRefused(s) ==
    \/ backend \in Parallel \ {"openai_remote"} /\ model.reserved
    \/ backend = "trtllm_serve" /\ "max_num_seqs" \in DOMAIN model.yaml
    \/ /\ backend = "exllamav3"
       /\ \/ s.exllama_cache_size.int <= 0 \/ s.exllama_cache_size.int % 256 # 0
          \/ s.exllama_cache_quant \notin OrNull(Quants)
    \/ /\ backend = "llama_cpp"
       /\ {s.gguf_type_k, s.gguf_type_v} \ OrNull(Words(GgufTypes)) # {}
    \/ /\ backend = "sglang_serve"
       /\ \E f \in {"sglang_chunked_prefill_size", "sglang_mem_fraction_static"} :
             s[f] \notin OrNull(SglangOverrides[f])

\* Variant: the limit of the executor is the configured one.
Slots_Configured(s) == IF backend \in Parallel THEN configured.target_inflight.int ELSE 1

\* runtime_capability: other backends run one request at a time.
Slots(s) == IF backend \in Parallel THEN s.target_inflight.int ELSE 1

-----------------------------------------------------------------------------
(* Reading the settings, loading and unloading. *)

Init ==
    /\ model \in Models
    /\ local \in {l \in model.locals : FileAccepted(model.backend, Merged(model.file, l))}
    /\ configured = Converted(model.backend, Merged(model.file, local))
    /\ lifecycle = "unloaded"
    /\ override = Empty
    /\ effective = NotSet
    /\ launched = NotSet
    /\ slots = 0
    /\ sent = NoRequest

\* Somebody edits local.json; nothing happens until the settings are reloaded.
Edit ==
    /\ local' \in model.locals
    /\ local' # local
    /\ UNCHANGED <<model, configured, lifecycle, override, effective, launched, slots, sent>>

\* A field of an active model may not change.  When the definition changes the
\* state of the model is made anew.
Reload ==
    LET file == Merged(model.file, local)
        new == Converted(backend, file)
    IN  /\ FileAccepted(backend, file)
        /\ new # configured
        /\ lifecycle \in {"unloaded", "failed"}
        /\ configured' = new
        /\ lifecycle' = "unloaded"
        /\ override' = Empty
        /\ UNCHANGED <<model, local, effective, launched, slots, sent>>

\* Overrides made of the fields of S, or of some of them, with values of Table.
Bodies(S, Table) ==
    UNION {{asked \in [T -> UNION {Table[f] : f \in T}] : \A f \in T : asked[f] \in Table[f]} :
           T \in SUBSET (S \cap DOMAIN Table)}

\* The bodies of load requests that pass the schema.  One that _load_override_payload
\* refuses changes nothing.
Asked == [b \in Backends |-> UNION {Bodies(S, Schema) : S \in AskedTogether[b]}]

\* The lifecycle is already "loading" when the override is applied, and stays so.
LoadStranded(asked) ==
    /\ ~OverrideAccepted(Payload(asked))
    /\ lifecycle' = "loading"
    /\ UNCHANGED <<override, effective, launched, slots>>

\* The backend cannot be built, or its server does not come up.  MaxFailing bounds
\* the fields of the overrides for which that is looked at.
LoadFailed(asked) ==
    /\ OverrideAccepted(Payload(asked))
    /\ Cardinality(DOMAIN asked) <= MaxFailing
    /\ lifecycle' = "failed"
    /\ override' = Payload(asked)
    /\ UNCHANGED <<effective, launched, slots>>

LoadDone(asked) ==
    LET s == Effective(Payload(asked))
    IN  /\ OverrideAccepted(Payload(asked))
        /\ ~StartRefused(s)
        /\ lifecycle' = "loaded"
        /\ override' = Payload(asked)
        /\ effective' = s
        /\ launched' \in Options(s)
        /\ slots' = Slots(s)

Load ==
    /\ lifecycle \in {"unloaded", "failed"}
    /\ \E asked \in Asked[backend] :
          /\ ~PayloadRefused(asked)
          /\ LoadStranded(asked) \/ LoadFailed(asked) \/ LoadDone(asked)
    /\ UNCHANGED <<model, local, configured, sent>>

\* The requests of the model have finished by then.
Unload ==
    /\ lifecycle = "loaded"
    /\ lifecycle' = "unloaded"
    /\ override' = Empty
    /\ effective' = NotSet
    /\ launched' = NotSet
    /\ slots' = 0
    /\ sent' = NoRequest
    /\ UNCHANGED <<model, local, configured>>

-----------------------------------------------------------------------------
(* Requests: _admit_request_locked and _chat_completions_payload. *)

\* effort "absent", budget 0 and pixels 0: not in the request.
Requests ==
    [thinking : {"default", "enabled", "disabled"}, effort : {"absent", "none", "high"},
     budget : {0, 1, 2}, pixels : {0, 2, 8}, schema : BOOLEAN, maxTokens : {0, 2}]

GemmaOnly == {"gemma4_template"}

ThinkingFormats ==
    [ct2 |-> {"qwen3_template"}, exllamav3 |-> GemmaOnly \cup {"qwen3_template"},
     llama_cpp |-> GemmaOnly, vllm |-> GemmaOnly \cup {"qwen3_template"},
     sglang_serve |-> GemmaOnly, trtllm_serve |-> GemmaOnly, vllm_serve |-> GemmaOnly]

\* _model_thinking_modes: may a request decide about thinking?
ThinkingModes ==
    IF backend = "openai_remote" THEN model.remoteThinking # "absent"
    ELSE backend \in DOMAIN ThinkingFormats /\ Normal(model.format).text \in ThinkingFormats[backend]

\* _resolve_request_enable_thinking, and the remote one: an effort counts first.
Thinks(request, default) ==
    IF request.effort # "absent" THEN (IF request.effort = "none" THEN "disabled" ELSE "enabled")
    ELSE IF request.thinking # "default" THEN request.thinking ELSE default

\* _validate_reasoning_controls
ReasoningAdmitted(request) ==
    /\ request.effort # "absent" =>
          /\ request.effort \in model.efforts
          /\ ~(request.effort = "none" /\ request.thinking = "enabled")
          /\ ~(request.effort # "none" /\ request.thinking = "disabled")
    /\ request.budget > 0 =>
          /\ request.budget <= model.budgetMax
          /\ Thinks(request, "absent") = "enabled"
          /\ request.budget < (IF request.maxTokens > 0 THEN request.maxTokens ELSE model.maxTokens)

\* Variant: compares with what is configured, not with what is loaded.
PixelsAdmitted_Configured(request) ==
    request.pixels > 0 =>
        /\ backend = "vllm_serve"
        /\ configured.vllm_max_pixels # Null
        /\ request.pixels <= configured.vllm_max_pixels.int

\* _validate_mm_processor_kwargs, for the entry max_pixels.
PixelsAdmitted(request) ==
    request.pixels > 0 =>
        /\ backend = "vllm_serve"
        /\ effective.vllm_max_pixels # Null
        /\ request.pixels <= effective.vllm_max_pixels.int

\* What is asked of remote execution and of files refuses requests, and nothing of
\* it is sent; it is left out.
Admitted(request) ==
    /\ request.thinking # "default" => ThinkingModes
    /\ ReasoningAdmitted(request)
    /\ PixelsAdmitted(request)
    /\ request.schema => backend = "vllm_serve"

\* What is sent; "absent" when the payload says nothing of it.
Silent == [thinking |-> "absent", effort |-> "absent", budget |-> 0, pixels |-> 0,
           schema |-> FALSE, maxTokens |-> 0]

VllmServePayload(request) ==
    [request EXCEPT !.thinking = IF model.format = Text("gemma4_template")
                                 THEN Thinks(request, model.enableThinking) ELSE "absent"]

SglangPayload(request) == [Silent EXCEPT !.thinking = Thinks(request, model.enableThinking)]

TrtllmPayload(request) == SglangPayload(request)

LlamaServerPayload(request) == Silent

RemotePayload(request) ==
    [Silent EXCEPT !.thinking = Thinks(request, model.remoteThinking), !.effort = request.effort]

BackendPayload(request) ==
    CASE backend = "vllm_serve"    -> VllmServePayload(request)
      [] backend = "sglang_serve"  -> SglangPayload(request)
      [] backend = "trtllm_serve"  -> TrtllmPayload(request)
      [] backend = "llama_server"  -> LlamaServerPayload(request)
      [] backend = "openai_remote" -> RemotePayload(request)

\* Requests are looked at for the backends that forward them, while the model is
\* loaded without an override, or with one of a value that requests refer to.
Request ==
    /\ lifecycle = "loaded"
    /\ backend \in Parallel
    /\ DOMAIN override \subseteq {"vllm_max_pixels"}
    /\ \E request \in Requests :
        /\ Admitted(request)
        /\ sent' = [request |-> request, payload |-> BackendPayload(request)]
    /\ UNCHANGED <<model, local, configured, lifecycle, override, effective, launched, slots>>

Next == Edit \/ Reload \/ Load \/ Unload \/ Request

Spec == Init /\ [][Next]_vars

-----------------------------------------------------------------------------
Wanted(f) == IF f \in DOMAIN override THEN Normal(override[f]) ELSE configured[f]

(* A limit kept in two places: the server of a loaded model is told to     *)
(* take as many requests at a time as its executor sends it, and that is   *)
(* the number asked for with the load, or else the configured one; a       *)
(* runtime that can only do one gets one at a time.  What a server makes   *)
(* of its flag is its own: SGLang may go below it when it sizes its cache  *)
(* (docs/runtime-admin-api.md:999), and requests then wait inside it.      *)
LimitsAgree ==
    lifecycle = "loaded" =>
        IF backend \in Parallel
        THEN /\ Integer(slots) = Wanted("target_inflight")
             /\ backend # "openai_remote" => launched.max_num_seqs = Integer(slots)
        ELSE slots = 1

(* The server gets what was asked for, or else what is configured, and     *)
(* nothing from an earlier load: "if key exists in load_override"          *)
(* (docs/runtime-admin-api.md:349), though the value be null.  Stated with *)
(* its exceptions: "auto" is not passed; the details of speculation are    *)
(* passed only with a method; the draft tokens follow from the steps when  *)
(* there is one branch per step; what is null leaves the YAML file of      *)
(* trtllm as it is; and "off" may become "auto" for a model of llama.cpp   *)
(* when other models are loaded with "auto" (LlamaCppLoad).                *)
LaunchedAsAsked ==
    lifecycle = "loaded" =>
        /\ DOMAIN launched \subseteq DOMAIN configured \cup DOMAIN model.yaml \cup {"max_num_seqs"}
        /\ \A f \in DOMAIN configured \ {"target_inflight"} :
            \/ Of(launched, f) = Wanted(f)
            \/ Of(launched, f) = Null /\ Wanted(f) = Text("auto")
            \/ f \in VllmSpeculative /\ Wanted("vllm_speculative_method") = Null
            \/ f \in SglangSpeculative /\ Wanted("sglang_speculative_algorithm") = Null
            \/ /\ f = "sglang_speculative_num_draft_tokens"
               /\ Wanted("sglang_speculative_eagle_topk") = Integer(1)
               /\ launched[f] = Integer(Wanted("sglang_speculative_num_steps").int + 1)
            \/ Wanted(f) = Null /\ f \in DOMAIN model.yaml /\ launched[f] = model.yaml[f]
            \/ f = "gguf_flash_attn" /\ Wanted(f) = Text("off") /\ launched[f] = Text("auto")

Offered == [b \in Backends |-> UNION {Bodies(S, Advertised[b]) : S \in AskedTogether[b]}]

(* What load_constraints offers can be loaded: no override made of it is   *)
(* refused, in whatever state the settings have left the model, and none   *)
(* strands it in "loading".  Stated with its exceptions: a chunk size of   *)
(* 0, which lies between the advertised bounds; a number of draft tokens   *)
(* that contradicts the steps; and the bits of the two caches, which are   *)
(* asked for together or not at all.                                       *)
AdvertisedIsAccepted ==
    lifecycle \in {"unloaded", "failed"} =>
        \A asked \in Offered[backend] :
            \/ /\ \A f \in DOMAIN asked : asked[f] \in Schema[f]
               /\ ~PayloadRefused(asked)
               /\ OverrideAccepted(Payload(asked))
            \/ Of(asked, "sglang_chunked_prefill_size") = Integer(0)
            \/ /\ "sglang_speculative_num_draft_tokens" \in DOMAIN asked
               /\ DraftTokensFixed(Replaced(asked))
            \/ CacheBits \cap DOMAIN asked # {} /\ PayloadRefused(asked)

(* A control that a request is admitted with has its effect: it is in what *)
(* the backend sends, and no image is sent with more pixels than the       *)
(* server was launched for, though the settings or the override of the     *)
(* load may have changed since.  Stated with its exceptions: an effort     *)
(* goes to sglang and trtllm as the decision to think only; a model that   *)
(* has no way to decide about thinking sends none of it, though efforts    *)
(* are configured (README.md:268 says that an effort enables thinking);    *)
(* and vllm_serve wants the name of the format to be written exactly.      *)
AdmittedReachesServer ==
    sent # NoRequest =>
        LET request == sent.request
            payload == sent.payload
            decided == Thinks(request, "absent")
        IN  /\ payload.budget = request.budget
            /\ payload.pixels = request.pixels
            /\ payload.schema = request.schema
            /\ request.pixels > 0 => request.pixels <= launched.vllm_max_pixels.int
            /\ \/ payload.effort = request.effort
               \/ backend \in {"sglang_serve", "trtllm_serve", "llama_server"}
            /\ \/ payload.thinking = decided
               \/ decided = "absent"
               \/ request.thinking = "default" /\ ~ThinkingModes
               \/ backend = "vllm_serve" /\ Is(model.format, "loose")
=============================================================================
