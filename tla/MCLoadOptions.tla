--------------------------- MODULE MCLoadOptions ----------------------------
EXTENDS LoadOptions

Sampled ==
    {Integer(n) : n \in {-1, 0, 1, 2, 3, 7, 256, 300, 200704, 268435456}}
    \cup {Num(n) : n \in {0, 25, 100, 125}}
    \cup {Bool(TRUE), Bool(FALSE)}
    \cup {Bits(2, 2), Bits(2, 3)}
    \cup {Text(s) : s \in {"", "auto", "fp8", "off", "on", "q8_0", "mtp", "draft-mtp", "other"}}
    \cup {Loose(s) : s \in {"fp8", "off", "mtp"}}

Plain ==
    [file |-> [target_inflight |-> Integer(2)], locals |-> {Empty}, yaml |-> Empty,
     reserved |-> FALSE, format |-> Text("generic"), remoteThinking |-> "absent",
     enableThinking |-> "absent", efforts |-> {}, budgetMax |-> 0, maxTokens |-> 2]

Model(name, traits) == [backend |-> name] ++ traits ++ Plain

Gemma == [format |-> Text("gemma4_template"), efforts |-> {"none", "high"}]

LoadedModels ==
    {Model("vllm_serve", Gemma ++ [budgetMax |-> 2, enableThinking |-> "enabled",
        file |-> [vllm_max_pixels |-> Integer(7), vllm_kv_cache_dtype |-> Text("fp8")],
        locals |-> {Empty, [vllm_speculative_method |-> Loose("mtp"),
                            vllm_kv_cache_dtype |-> Null]}]),
     Model("vllm_serve", Gemma ++ [reserved |-> TRUE]),
     Model("vllm_serve", [efforts |-> {"high"}, format |-> Loose("gemma4_template")]),
     Model("vllm", [file |-> [vllm_speculative_method |-> Text("mtp")],
        locals |-> {Empty, [vllm_num_speculative_tokens |-> Integer(-1)]}]),
     Model("sglang_serve", Gemma ++
        [file |-> [sglang_speculative_algorithm |-> Text("mtp"),
                   sglang_speculative_num_steps |-> Integer(1)],
         locals |-> {Empty, [sglang_speculative_eagle_topk |-> Integer(2)],
                     [sglang_speculative_algorithm |-> Null]}]),
     Model("trtllm_serve", Gemma ++
        [yaml |-> [trtllm_max_num_tokens |-> Integer(300)],
         locals |-> {Empty, [trtllm_max_num_tokens |-> Integer(0),
                             trtllm_kv_cache_dtype |-> Loose("fp8")]}]),
     Model("trtllm_serve", [yaml |-> [max_num_seqs |-> Integer(7)]]),
     Model("llama_server", [efforts |-> {"none", "high"},
        file |-> [llama_server_spec_type |-> Text("other")],
        locals |-> {Empty, [llama_server_spec_type |-> Text(""), target_inflight |-> Integer(0)]}]),
     Model("llama_cpp", [locals |-> {Empty, [gguf_flash_attn |-> Bool(FALSE)]}]),
     Model("exllamav3", [file |-> [exllama_cache_quant |-> Bits(2, 3)],
        locals |-> {Empty, [exllama_cache_size |-> Integer(300)]}]),
     Model("openai_remote", [efforts |-> {"none", "high"}, remoteThinking |-> "disabled"])}

\* Each field with the limit, a field of another backend, and the fields that depend
\* on one another.
Dependent ==
    {CacheBits, {"exllama_cache_k_bits", "exllama_cache_quant"},
     {"vllm_speculative_method", "vllm_speculative_model"},
     {"vllm_speculative_method", "vllm_num_speculative_tokens"},
     {"vllm_max_pixels", "vllm_kv_cache_dtype"},
     {"sglang_speculative_num_draft_tokens", "sglang_speculative_num_steps"},
     {"sglang_speculative_num_draft_tokens", "sglang_speculative_eagle_topk"},
     {"sglang_speculative_num_draft_tokens", "sglang_speculative_algorithm"},
     {"trtllm_max_num_tokens", "trtllm_enable_chunked_prefill"}}

Together ==
    [b \in Backends |->
        LET own == DOMAIN Overrides[b] \cup DOMAIN Advertised[b]
        IN  {{f, "target_inflight"} : f \in own} \cup {S \in Dependent : S \subseteq own}
            \cup {{"gguf_n_ctx"}, {"vllm_max_pixels"}}]
=============================================================================
