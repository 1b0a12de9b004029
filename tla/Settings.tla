------------------------------ MODULE Settings ------------------------------
(***************************************************************************)
(* What load_settings (app/config.py) makes of the fields of a model in    *)
(* settings.json and local.json, for the fields that a load override can   *)
(* replace and those the admission of requests looks at.                   *)
(*                                                                         *)
(* A field is a value or absent; values are tagged by their JSON type.  A  *)
(* text is reduced to its words: Loose(s) is s in another spelling, which  *)
(* the conversion of its field takes for s: with blanks around it, and     *)
(* with capitals where the conversion lowers them.  Where it does not      *)
(* (llama_server_spec_type is only stripped), capitals are another text.   *)
(***************************************************************************)
EXTENDS Integers

CONSTANT Values    \* the values of fields that are looked at

\* The function f, and g where f is not defined.
f ++ g == [x \in DOMAIN f \cup DOMAIN g |-> IF x \in DOMAIN f THEN f[x] ELSE g[x]]

Null == [null |-> TRUE]
Integer(n) == [int |-> n]
Num(n) == [num |-> n]                     \* hundredths
Bool(b) == [bool |-> b]
Text(s) == [text |-> s]
Loose(s) == [text |-> s, loose |-> TRUE]
Bits(k, v) == [bits |-> <<k, v>>]         \* the text "k,v", or "k" when they agree

Is(v, tag) == tag \in DOMAIN v

Normal(v) == IF Is(v, "loose") THEN Text(v.text) ELSE v

Blank(v) == v = Text("")

-----------------------------------------------------------------------------
(* The two files: a mapping in local.json is merged into the one it finds, *)
(* key by key; anything else, null included, takes its place.              *)

Merged(base, local) == local ++ base

-----------------------------------------------------------------------------
(* The conversions, and the values each of them refuses.                   *)

OptionalText(v) == IF v = Null \/ Blank(v) THEN Null ELSE Normal(v)

OptionalPositive(v) == IF Is(v, "int") /\ v.int > 0 THEN v ELSE Null

Optional(v) == IF Blank(v) THEN Null ELSE v

AtLeastOne(v) == IF v.int < 1 THEN Integer(1) ELSE v

TextOr(default, v) == IF v = Null \/ Blank(v) THEN Text(default) ELSE Normal(v)

FlashMode(v) ==
    IF Is(v, "bool") THEN Text(IF v.bool THEN "on" ELSE "off") ELSE TextOr("auto", v)

Anything == Values \cup {Null}
Whole == {v \in Values : Is(v, "int")}

\* Values are tagged, and the numbers in a text are looked at on their own too.
ASSUME ValuesAssumption ==
    \A v \in Values :
        /\ Is(v, "int") => v.int \in Int /\ v = Integer(v.int)
        /\ Is(v, "bits") => \E k, m \in Whole : v = Bits(k.int, m.int)

WholeOrNone == Whole \cup {Null, Text("")}

\* A conversion: the value of a field that is absent, the values it takes, and
\* what it makes of them.
Conversion(default, Takes, Makes(_)) ==
    [default |-> default, takes |-> Takes, makes |-> [v \in Takes |-> Makes(v)]]

Texts == {v \in Anything : Is(v, "text") \/ Is(v, "bits") \/ v = Null}

OptionalTextField == Conversion(Null, Texts, OptionalText)
OptionalPositiveField == Conversion(Null, WholeOrNone, OptionalPositive)
DtypeField == Conversion(Text("auto"), Texts, LAMBDA v : TextOr("auto", v))
CountField(n) == Conversion(Integer(n), Whole, AtLeastOne)
FlashValues ==
    {v \in Anything : \/ Is(v, "bool")
                      \/ v \in {Null, Text("")}
                      \/ Is(v, "text") /\ v.text \in {"on", "off", "auto"}}
NumberField == Conversion(Null, {v \in Anything : Is(v, "num") \/ v = Null}, Optional)

ExllamaFields ==
    [exllama_cache_size    |-> Conversion(Integer(8192), Whole, Optional),
     exllama_cache_quant   |-> OptionalTextField,
     exllama_max_rq_tokens |-> Conversion(Null, WholeOrNone, Optional)]

LlamaCppFields ==
    [gguf_n_ctx      |-> Conversion(Integer(4096), Whole, Optional),
     gguf_flash_attn |->
        Conversion(Text("auto"), FlashValues, FlashMode),
     gguf_type_k     |-> OptionalTextField,
     gguf_type_v     |-> OptionalTextField]

LlamaServerFields ==
    [llama_server_n_ctx             |-> OptionalPositiveField,
     llama_server_image_max_tokens  |-> OptionalPositiveField,
     llama_server_spec_type         |-> OptionalTextField,
     llama_server_spec_draft_n_max  |-> OptionalPositiveField,
     llama_server_spec_draft_p_min  |-> NumberField]

\* vllm_max_pixels is the entry max_pixels of vllm_mm_processor_kwargs.
VllmFields ==
    [f \in {"vllm_max_model_len", "vllm_kv_cache_memory_bytes"} |-> OptionalPositiveField]
    ++ [f \in {"vllm_speculative_method", "vllm_speculative_model",
               "vllm_speculative_moe_backend", "vllm_speculative_attention_backend"}
            |-> OptionalTextField]
    ++ [vllm_kv_cache_dtype         |-> DtypeField,
        vllm_max_pixels             |-> Conversion(Null, Whole, Optional),
        vllm_num_speculative_tokens |-> CountField(1)]

TrtllmFields ==
    [f \in {"trtllm_max_seq_len", "trtllm_kv_cache_memory_bytes", "trtllm_max_num_tokens"}
        |-> OptionalPositiveField]
    ++ [trtllm_kv_cache_dtype |-> OptionalTextField,
        trtllm_enable_chunked_prefill |->
            Conversion(Null, {v \in Anything : Is(v, "bool") \/ v \in {Null, Text("")}}, Optional)]

SglangFields ==
    [f \in {"sglang_context_length", "sglang_max_total_tokens"} |-> OptionalPositiveField]
    ++ [f \in {"sglang_speculative_algorithm", "sglang_speculative_draft_model"}
            |-> OptionalTextField]
    ++ [sglang_mem_fraction_static          |-> NumberField,
        sglang_chunked_prefill_size         |-> Conversion(Null, WholeOrNone, Optional),
        sglang_kv_cache_dtype               |-> DtypeField,
        sglang_speculative_num_steps        |-> CountField(5),
        sglang_speculative_num_draft_tokens |-> CountField(6),
        sglang_speculative_eagle_topk       |-> CountField(1)]

Backends ==
    {"ct2", "exllamav3", "llama_cpp", "llama_server", "openai_remote", "sglang_serve", "stub",
     "trtllm_serve", "vllm", "vllm_serve"}

Fields ==
    [b \in Backends |->
     [target_inflight |-> CountField(1)] ++
     (CASE b = "exllamav3"           -> ExllamaFields
        [] b = "llama_cpp"           -> LlamaCppFields
        [] b = "llama_server"        -> LlamaServerFields
        [] b \in {"vllm", "vllm_serve"} -> VllmFields
        [] b = "trtllm_serve"        -> TrtllmFields
        [] b = "sglang_serve"        -> SglangFields
        [] OTHER                     -> <<>>)]

\* load_settings raises on a field it cannot convert.
FileAccepted(b, file) ==
    \A f \in DOMAIN file \cap DOMAIN Fields[b] : file[f] \in Fields[b][f].takes

Converted(b, file) ==
    [f \in DOMAIN Fields[b] |->
        IF f \in DOMAIN file THEN Fields[b][f].makes[file[f]] ELSE Fields[b][f].default]
=============================================================================
