----------------------------- MODULE LoadFields -----------------------------
(***************************************************************************)
(* The fields of a load override: what the request schema lets through     *)
(* (AdminLoadRequest in app/schemas.py), what the router accepts for each  *)
(* backend (_load_override_payload and _apply_load_override in             *)
(* app/engine/router.py), and what load_constraints tells a client it may  *)
(* send (_load_constraints_for_backend in app/engine/common.py).  Three    *)
(* tables of the same fields, kept in three places.                        *)
(***************************************************************************)
EXTENDS Settings, FiniteSets

From(low) == {v \in Values : Is(v, "int") /\ v.int >= low}
Between(low, high) == {v \in From(low) : v.int <= high}
Every(step) == {v \in From(step) : v.int % step = 0}
Fraction(low, high) == {v \in Values : Is(v, "num") /\ v.num >= low /\ v.num <= high}
Strings == {v \in Values : Is(v, "text") \/ Is(v, "bits")}
NonBlank == {v \in Strings : ~Blank(v)}
Words(S) == {v \in Values : Is(v, "text") /\ v.text \in S}
Clean(S) == {v \in S : ~Is(v, "loose")}
Switch == {Bool(TRUE), Bool(FALSE)}
OrNull(S) == S \cup {Null}

CacheBits == {"exllama_cache_k_bits", "exllama_cache_v_bits"}

Schema ==
    [f \in {"target_inflight", "gguf_n_ctx", "exllama_max_rq_tokens", "vllm_kv_cache_memory_bytes",
            "vllm_max_pixels", "vllm_num_speculative_tokens", "trtllm_max_seq_len",
            "trtllm_kv_cache_memory_bytes", "trtllm_max_num_tokens", "sglang_context_length",
            "sglang_max_total_tokens", "sglang_speculative_num_steps",
            "sglang_speculative_num_draft_tokens", "sglang_speculative_eagle_topk",
            "llama_server_n_ctx", "llama_server_image_max_tokens"} |-> OrNull(From(1))]
    ++ [f \in {"exllama_cache_size", "vllm_max_model_len"} |-> OrNull(From(256))]
    ++ [f \in CacheBits |-> OrNull(Between(2, 8))]
    ++ [f \in {"gguf_flash_attn", "gguf_type_k", "gguf_type_v", "exllama_cache_quant",
               "vllm_kv_cache_dtype", "vllm_speculative_method", "vllm_speculative_model",
               "vllm_speculative_moe_backend", "vllm_speculative_attention_backend",
               "trtllm_kv_cache_dtype", "sglang_kv_cache_dtype", "sglang_speculative_algorithm",
               "sglang_speculative_draft_model", "llama_server_spec_type"} |-> OrNull(Strings)]
    ++ [trtllm_enable_chunked_prefill |-> OrNull(Switch),
        sglang_mem_fraction_static    |-> OrNull(Fraction(1, 100)),
        sglang_chunked_prefill_size   |-> OrNull(From(-1000)),
        llama_server_spec_draft_n_max |-> OrNull(Between(1, 6)),
        llama_server_spec_draft_p_min |-> OrNull(Fraction(0, 100))]

-----------------------------------------------------------------------------
(* The router. *)

\* The backends whose runtimes take more than one request at a time.
Parallel == {"llama_server", "openai_remote", "sglang_serve", "trtllm_serve", "vllm_serve"}

FlashModes == {"on", "off", "auto"}

\* The types of GGUF caches that llama.cpp knows, as far as they are looked at.
GgufTypes == {"f16", "q8_0"}

LlamaCppOverrides ==
    [gguf_n_ctx      |-> Whole,
     gguf_flash_attn |-> Words(FlashModes),
     gguf_type_k     |-> OrNull(Words(GgufTypes)),
     gguf_type_v     |-> OrNull(Words(GgufTypes))]

\* _parse_exllama_cache_quant takes one number or two.
Quants == {Bits(k.int, v.int) : k \in Whole, v \in Whole}

Exllamav3Overrides ==
    [exllama_cache_size    |-> Every(256),
     exllama_cache_quant   |-> OrNull(Quants),
     exllama_max_rq_tokens |-> OrNull(Whole)]

VllmOverrides ==
    [f \in {"vllm_max_model_len", "vllm_kv_cache_memory_bytes", "vllm_max_pixels",
            "vllm_num_speculative_tokens"} |-> From(1)]
    ++ [f \in {"vllm_speculative_method", "vllm_speculative_model",
               "vllm_speculative_moe_backend", "vllm_speculative_attention_backend"}
            |-> OrNull(NonBlank)]
    ++ [vllm_kv_cache_dtype |-> NonBlank]

TrtllmDtypes == {"auto", "fp8", "nvfp4"}

TrtllmOverrides ==
    [f \in {"trtllm_max_seq_len", "trtllm_kv_cache_memory_bytes", "trtllm_max_num_tokens"}
        |-> From(1)]
    ++ [trtllm_enable_chunked_prefill |-> Switch,
        trtllm_kv_cache_dtype         |-> Words(TrtllmDtypes)]

SglangOverrides ==
    [f \in {"sglang_context_length", "sglang_max_total_tokens", "sglang_speculative_num_steps",
            "sglang_speculative_num_draft_tokens", "sglang_speculative_eagle_topk"} |-> From(1)]
    ++ [f \in {"sglang_speculative_algorithm", "sglang_speculative_draft_model"}
            |-> OrNull(NonBlank)]
    ++ [sglang_mem_fraction_static  |-> Fraction(1, 100),
        sglang_chunked_prefill_size |-> From(1) \cup (Values \cap {Integer(-1)}),
        sglang_kv_cache_dtype       |-> NonBlank]

LlamaServerOverrides ==
    [llama_server_n_ctx            |-> OrNull(From(1)),
     llama_server_image_max_tokens |-> OrNull(From(1)),
     llama_server_spec_type        |-> OrNull(Words({"draft-mtp"})),
     llama_server_spec_draft_n_max |-> OrNull(Between(1, 6)),
     llama_server_spec_draft_p_min |-> OrNull(Fraction(0, 100))]

Overrides ==
    [b \in Backends |->
     (IF b \in Parallel THEN [target_inflight |-> From(1)] ELSE <<>>) ++
     (CASE b = "llama_cpp"              -> LlamaCppOverrides
        [] b = "exllamav3"              -> Exllamav3Overrides
        [] b \in {"vllm", "vllm_serve"} -> VllmOverrides
        [] b = "trtllm_serve"           -> TrtllmOverrides
        [] b = "sglang_serve"           -> SglangOverrides
        [] b = "llama_server"           -> LlamaServerOverrides
        [] OTHER                        -> <<>>)]

\* _load_override_payload refuses before the model is touched: the two cache bits
\* belong together, and the mode of flash attention is looked at right away.
PayloadRefused(asked) ==
    LET bits == CacheBits \cap DOMAIN asked
    IN  \/ bits # {} /\ "exllama_cache_quant" \in DOMAIN asked
        \/ Cardinality(bits) = 1
        \/ \E f, g \in bits : asked[f] = Null /\ asked[g] # Null
        \/ "gguf_flash_attn" \in DOMAIN asked /\ asked.gguf_flash_attn \notin Words(FlashModes)

\* Variant: the cache bits are passed on as they are.
Payload_KeepsBits(asked) == asked

\* The cache bits become the text of exllama_cache_quant.
Payload(asked) ==
    LET kept  == [f \in DOMAIN asked \ CacheBits |->
                     IF f = "gguf_flash_attn" THEN Normal(asked[f]) ELSE asked[f]]
        quant == IF asked.exllama_cache_k_bits = Null THEN Null
                 ELSE Bits(asked.exllama_cache_k_bits.int, asked.exllama_cache_v_bits.int)
    IN  IF CacheBits \subseteq DOMAIN asked
        THEN [exllama_cache_quant |-> quant] ++ kept ELSE kept

-----------------------------------------------------------------------------
(* What load_constraints advertises. *)

AdvertisedLlamaCpp ==
    [gguf_n_ctx      |-> From(1),
     gguf_flash_attn |-> Clean(Words(FlashModes)),
     gguf_type_k     |-> OrNull(Clean(Words(GgufTypes))),
     gguf_type_v     |-> OrNull(Clean(Words(GgufTypes)))]

AdvertisedLlamaServer ==
    [llama_server_n_ctx            |-> From(1),
     llama_server_image_max_tokens |-> From(1),
     llama_server_spec_type        |-> Clean(Words({"draft-mtp"})),
     llama_server_spec_draft_n_max |-> Between(1, 6),
     llama_server_spec_draft_p_min |-> Fraction(0, 100)]

AdvertisedExllamav3 ==
    [exllama_cache_size    |-> Every(256),
     exllama_max_rq_tokens |-> From(1),
     exllama_cache_k_bits  |-> OrNull(Between(2, 8)),
     exllama_cache_v_bits  |-> OrNull(Between(2, 8)),
     exllama_cache_quant   |-> OrNull({v \in Values : Is(v, "bits")})]

AdvertisedVllm ==
    [f \in {"vllm_speculative_method", "vllm_speculative_model",
            "vllm_speculative_moe_backend", "vllm_speculative_attention_backend"}
        |-> OrNull(Clean(NonBlank))]
    ++ [vllm_max_model_len          |-> Every(256),
        vllm_kv_cache_dtype         |-> Clean(Words({"auto", "fp8"})),
        vllm_kv_cache_memory_bytes  |-> Every(268435456),
        vllm_max_pixels             |-> Every(200704),
        vllm_num_speculative_tokens |-> From(1)]

AdvertisedTrtllm ==
    [trtllm_max_seq_len            |-> Every(256),
     trtllm_kv_cache_memory_bytes  |-> Every(268435456),
     trtllm_max_num_tokens         |-> Every(256),
     trtllm_enable_chunked_prefill |-> Switch,
     trtllm_kv_cache_dtype         |-> Clean(Words(TrtllmDtypes))]

AdvertisedSglang ==
    [f \in {"sglang_context_length", "sglang_max_total_tokens"} |-> Every(256)]
    ++ [f \in {"sglang_speculative_num_steps", "sglang_speculative_num_draft_tokens",
               "sglang_speculative_eagle_topk"} |-> From(1)]
    ++ [f \in {"sglang_speculative_algorithm", "sglang_speculative_draft_model"}
            |-> OrNull(Clean(NonBlank))]
    ++ [sglang_mem_fraction_static  |-> Fraction(1, 100),
        sglang_chunked_prefill_size |-> From(-1),
        sglang_kv_cache_dtype       |-> Clean(Words({"auto", "nvfp4"}))]

Advertised ==
    [b \in Backends |->
     (IF b \in Parallel THEN [target_inflight |-> From(1)] ELSE <<>>) ++
     (CASE b = "llama_cpp"              -> AdvertisedLlamaCpp
        [] b = "exllamav3"              -> AdvertisedExllamav3
        [] b \in {"vllm", "vllm_serve"} -> AdvertisedVllm
        [] b = "trtllm_serve"           -> AdvertisedTrtllm
        [] b = "sglang_serve"           -> AdvertisedSglang
        [] b = "llama_server"           -> AdvertisedLlamaServer
        [] OTHER                        -> <<>>)]
=============================================================================
