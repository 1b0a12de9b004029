------------------------- MODULE LoadOptionsProofs -------------------------
(***************************************************************************)
(* Theorems about LoadOptions, for any values of the fields, any models    *)
(* and files, and any overrides a client can send.                         *)
(*                                                                         *)
(* LoadInv, the inductive invariant, keeps beside the properties           *)
(*   Settled     which fields are configured, and that the limit is a      *)
(*               number, whatever the files say;                           *)
(*   PixelsKept  that requests are admitted against the pixels the server  *)
(*               was launched for;                                         *)
(* and that a request is sent by a loaded model only.  What a load does    *)
(* follows from the tables: for each backend, what becomes of a field      *)
(* between the settings and the options of the server (LoadPasses).        *)
(* What is offered is compared with what is accepted field by field        *)
(* (BackendOffers).                                                        *)
(***************************************************************************)
EXTENDS LoadOptions, TLAPS, FiniteSetTheorems, SequenceTheorems

IsNumber(v) == v.int \in Int /\ v = Integer(v.int)

Settled ==
    /\ model \in Models
    /\ DOMAIN configured = DOMAIN Fields[backend]
    /\ IsNumber(configured.target_inflight)

PixelsKept ==
    /\ lifecycle = "loaded"
    /\ backend = "vllm_serve"
    /\ effective.vllm_max_pixels # Null
    => launched.vllm_max_pixels = effective.vllm_max_pixels

LoadInv ==
    /\ Settled
    /\ LimitsAgree
    /\ LaunchedAsAsked
    /\ PixelsKept
    /\ sent # NoRequest => lifecycle = "loaded"
    /\ AdmittedReachesServer

\* What a load with an override wants of a field: Wanted, before the load.
Asks(payload, f) == IF f \in DOMAIN payload THEN Normal(payload[f]) ELSE configured[f]

\* What LaunchedAsAsked says of one field and the options of the server.
Passed(payload, o, f) ==
    \/ Of(o, f) = Asks(payload, f)
    \/ Of(o, f) = Null /\ Asks(payload, f) = Text("auto")
    \/ f \in VllmSpeculative /\ Asks(payload, "vllm_speculative_method") = Null
    \/ f \in SglangSpeculative /\ Asks(payload, "sglang_speculative_algorithm") = Null
    \/ /\ f = "sglang_speculative_num_draft_tokens"
       /\ Asks(payload, "sglang_speculative_eagle_topk") = Integer(1)
       /\ f \in DOMAIN o
       /\ o[f] = Integer(Asks(payload, "sglang_speculative_num_steps").int + 1)
    \/ /\ Asks(payload, f) = Null /\ f \in DOMAIN model.yaml
       /\ f \in DOMAIN o /\ o[f] = model.yaml[f]
    \/ /\ f = "gguf_flash_attn" /\ Asks(payload, f) = Text("off")
       /\ f \in DOMAIN o /\ o[f] = Text("auto")

-----------------------------------------------------------------------------
\* Tables and their fields

\* The fields of one table put over another.
LEMMA OverDomain == \A f, g : DOMAIN (f ++ g) = DOMAIN f \cup DOMAIN g
BY DEF ++

\* What one table put over another holds.
LEMMA OverIs ==
  ASSUME NEW f, NEW g, NEW x
  PROVE  /\ x \in DOMAIN f => (f ++ g)[x] = f[x]
         /\ x \in DOMAIN g \ DOMAIN f => (f ++ g)[x] = g[x]
BY DEF ++

\* The null of JSON is none of the other values.
LEMMA NullIsNoValue ==
  /\ \A n : Integer(n) # Null
  /\ \A s : Text(s) # Null
  /\ \A n : Normal(Integer(n)) = Integer(n)
  /\ \A n, m : Integer(n) = Integer(m) => n = m
<1>1. \A n : DOMAIN Integer(n) = {"int"} /\ Integer(n).int = n
  BY DEF Integer
<1>2. \A s : DOMAIN Text(s) = {"text"}
  BY DEF Text
<1>3. DOMAIN Null = {"null"}
  BY DEF Null
<1>4. \A n : ~Is(Integer(n), "loose")
  BY <1>1 DEF Is
<1>5. \A n : Integer(n) # Null
  BY <1>1, <1>3
<1>6. \A s : Text(s) # Null
  BY <1>2, <1>3
<1> QED
  BY <1>1, <1>4, <1>5, <1>6 DEF Normal

\* A number is itself.
LEMMA NumberIs == \A n \in Int : IsNumber(Integer(n)) /\ Integer(n).int = n
BY DEF IsNumber, Integer

\* Every backend has a limit, converted like a count.
LEMMA LimitField ==
  ASSUME NEW b \in Backends
  PROVE  /\ "target_inflight" \in DOMAIN Fields[b]
         /\ Fields[b].target_inflight = CountField(1)
<1> DEFINE limit == [target_inflight |-> CountField(1)]
<1>1. PICK g : Fields[b] = limit ++ g
  BY DEF Fields
<1>2. DOMAIN limit = {"target_inflight"} /\ limit["target_inflight"] = CountField(1)
  OBVIOUS
<1> HIDE DEF limit
<1>3. DOMAIN (limit ++ g) = DOMAIN limit \cup DOMAIN g
  BY OverDomain
<1>4. (limit ++ g)["target_inflight"] = limit["target_inflight"]
  BY <1>2, OverIs
<1> QED
  BY <1>1, <1>2, <1>3, <1>4

\* A count is a whole number, at least one.
LEMMA CountIs ==
  /\ CountField(1).default = Integer(1)
  /\ CountField(1).takes = Whole
  /\ \A v \in Whole : CountField(1).makes[v] = AtLeastOne(v)
BY DEF CountField, Conversion

\* load_settings gives every field of the backend a value, and the limit a number.
LEMMA ConvertedIs ==
  ASSUME NEW b \in Backends, NEW file, FileAccepted(b, file)
  PROVE  /\ DOMAIN Converted(b, file) = DOMAIN Fields[b]
         /\ IsNumber(Converted(b, file).target_inflight)
<1> DEFINE t == "target_inflight"
           c == Converted(b, file)
<1>1. /\ DOMAIN c = DOMAIN Fields[b]
      /\ c[t] = IF t \in DOMAIN file THEN Fields[b][t].makes[file[t]] ELSE Fields[b][t].default
  BY LimitField DEF Converted
<1>2. CASE t \in DOMAIN file
  <2>1. file[t] \in Whole
    BY <1>2, LimitField, CountIs DEF FileAccepted
  <2>2. c[t] = AtLeastOne(file[t])
    BY <1>1, <1>2, <2>1, LimitField, CountIs
  <2>3. file[t].int \in Int /\ file[t] = Integer(file[t].int)
    BY <2>1, ValuesAssumption DEF Whole
  <2>4. c[t] \in {file[t], Integer(1)}
    BY <2>2 DEF AtLeastOne
  <2> QED
    BY <1>1, <2>3, <2>4, NumberIs DEF IsNumber
<1>3. CASE t \notin DOMAIN file
  BY <1>1, <1>3, LimitField, CountIs, NumberIs
<1> QED
  BY <1>1, <1>2, <1>3

\* The names of the fields, table by table.
LEMMA FieldNames ==
  ASSUME NEW b \in Backends
  PROVE  /\ "max_num_seqs" \notin DOMAIN Fields[b]
         /\ b \in {"vllm", "vllm_serve"} =>
              {"vllm_speculative_method", "vllm_max_pixels"} \subseteq DOMAIN Fields[b]
         /\ b = "sglang_serve" =>
              {"sglang_speculative_algorithm", "sglang_speculative_eagle_topk",
               "sglang_speculative_num_steps", "sglang_speculative_num_draft_tokens"}
                \subseteq DOMAIN Fields[b]
         /\ b \notin {"ct2", "openai_remote", "stub"} => DOMAIN Fields[b] \ {"target_inflight"} # {}
<1> DEFINE limit == [target_inflight |-> CountField(1)]
<1>1. DOMAIN limit = {"target_inflight"}
  OBVIOUS
<1>2. DOMAIN VllmFields =
        {"vllm_max_model_len", "vllm_kv_cache_memory_bytes"}
        \cup {"vllm_speculative_method", "vllm_speculative_model",
              "vllm_speculative_moe_backend", "vllm_speculative_attention_backend"}
        \cup {"vllm_kv_cache_dtype", "vllm_max_pixels", "vllm_num_speculative_tokens"}
  <2> DEFINE f == [x \in {"vllm_max_model_len", "vllm_kv_cache_memory_bytes"}
                      |-> OptionalPositiveField]
             g == [x \in {"vllm_speculative_method", "vllm_speculative_model",
                          "vllm_speculative_moe_backend", "vllm_speculative_attention_backend"}
                      |-> OptionalTextField]
             h == [vllm_kv_cache_dtype         |-> DtypeField,
                   vllm_max_pixels             |-> Conversion(Null, Whole, Optional),
                   vllm_num_speculative_tokens |-> CountField(1)]
  <2>1. VllmFields = f ++ g ++ h
    BY DEF VllmFields
  <2>2. /\ DOMAIN f = {"vllm_max_model_len", "vllm_kv_cache_memory_bytes"}
        /\ DOMAIN g = {"vllm_speculative_method", "vllm_speculative_model",
                       "vllm_speculative_moe_backend", "vllm_speculative_attention_backend"}
    OBVIOUS
  <2>3. DOMAIN h = {"vllm_kv_cache_dtype", "vllm_max_pixels", "vllm_num_speculative_tokens"}
    BY DEF Conversion
  <2> HIDE DEF f, g, h
  <2>4. DOMAIN (f ++ g ++ h) = DOMAIN (f ++ g) \cup DOMAIN h
    BY OverDomain
  <2>5. DOMAIN (f ++ g) = DOMAIN f \cup DOMAIN g
    BY OverDomain
  <2> QED
    BY <2>1, <2>2, <2>3, <2>4, <2>5
<1>3. DOMAIN SglangFields =
        {"sglang_context_length", "sglang_max_total_tokens"}
        \cup {"sglang_speculative_algorithm", "sglang_speculative_draft_model"}
        \cup {"sglang_mem_fraction_static", "sglang_chunked_prefill_size",
              "sglang_kv_cache_dtype", "sglang_speculative_num_steps",
              "sglang_speculative_num_draft_tokens", "sglang_speculative_eagle_topk"}
  <2> DEFINE f == [x \in {"sglang_context_length", "sglang_max_total_tokens"}
                      |-> OptionalPositiveField]
             g == [x \in {"sglang_speculative_algorithm", "sglang_speculative_draft_model"}
                      |-> OptionalTextField]
             h == [sglang_mem_fraction_static          |-> NumberField,
                   sglang_chunked_prefill_size         |-> Conversion(Null, WholeOrNone, Optional),
                   sglang_kv_cache_dtype               |-> DtypeField,
                   sglang_speculative_num_steps        |-> CountField(5),
                   sglang_speculative_num_draft_tokens |-> CountField(6),
                   sglang_speculative_eagle_topk       |-> CountField(1)]
  <2>1. SglangFields = f ++ g ++ h
    BY DEF SglangFields
  <2>2. /\ DOMAIN f = {"sglang_context_length", "sglang_max_total_tokens"}
        /\ DOMAIN g = {"sglang_speculative_algorithm", "sglang_speculative_draft_model"}
    OBVIOUS
  <2>3. DOMAIN h = {"sglang_mem_fraction_static", "sglang_chunked_prefill_size",
                    "sglang_kv_cache_dtype", "sglang_speculative_num_steps",
                    "sglang_speculative_num_draft_tokens", "sglang_speculative_eagle_topk"}
    BY DEF Conversion
  <2> HIDE DEF f, g, h
  <2>4. DOMAIN (f ++ g ++ h) = DOMAIN (f ++ g) \cup DOMAIN h
    BY OverDomain
  <2>5. DOMAIN (f ++ g) = DOMAIN f \cup DOMAIN g
    BY OverDomain
  <2> QED
    BY <2>1, <2>2, <2>3, <2>4, <2>5
<1>4. DOMAIN TrtllmFields =
        {"trtllm_max_seq_len", "trtllm_kv_cache_memory_bytes", "trtllm_max_num_tokens"}
        \cup {"trtllm_kv_cache_dtype", "trtllm_enable_chunked_prefill"}
  <2> DEFINE f == [x \in {"trtllm_max_seq_len", "trtllm_kv_cache_memory_bytes",
                          "trtllm_max_num_tokens"} |-> OptionalPositiveField]
             g == [trtllm_kv_cache_dtype |-> OptionalTextField,
                   trtllm_enable_chunked_prefill |->
                      Conversion(Null, {v \in Anything : Is(v, "bool") \/ v \in {Null, Text("")}},
                                 Optional)]
  <2>1. TrtllmFields = f ++ g
    BY DEF TrtllmFields
  <2>2. DOMAIN f = {"trtllm_max_seq_len", "trtllm_kv_cache_memory_bytes",
                    "trtllm_max_num_tokens"}
    OBVIOUS
  <2>3. DOMAIN g = {"trtllm_kv_cache_dtype", "trtllm_enable_chunked_prefill"}
    BY DEF Conversion
  <2> HIDE DEF f, g
  <2> QED
    BY <2>1, <2>2, <2>3, OverDomain
<1>5. /\ "max_num_seqs" \notin DOMAIN ExllamaFields
      /\ "max_num_seqs" \notin DOMAIN LlamaCppFields
      /\ "max_num_seqs" \notin DOMAIN LlamaServerFields
      /\ "exllama_cache_size" \in DOMAIN ExllamaFields
      /\ "gguf_n_ctx" \in DOMAIN LlamaCppFields
      /\ "llama_server_n_ctx" \in DOMAIN LlamaServerFields
  BY DEF ExllamaFields, LlamaCppFields, LlamaServerFields
<1>6. DOMAIN <<>> = {}
  BY EmptySeq
<1>7. PICK g :
        /\ Fields[b] = limit ++ g
        /\ \/ b \in {"vllm", "vllm_serve"} /\ g = VllmFields
           \/ b = "sglang_serve" /\ g = SglangFields
           \/ /\ b \notin {"vllm", "vllm_serve", "sglang_serve"}
              /\ g \in {ExllamaFields, LlamaCppFields, LlamaServerFields, TrtllmFields}
           \/ b \in {"ct2", "openai_remote", "stub"} /\ g = <<>>
  BY DEF Fields, Backends
<1> HIDE DEF limit
<1>8. DOMAIN Fields[b] = {"target_inflight"} \cup DOMAIN g
  BY <1>1, <1>7, OverDomain
<1>9. "max_num_seqs" \notin DOMAIN g
  BY <1>2, <1>3, <1>4, <1>5, <1>6, <1>7
<1>10. \/ b \in {"ct2", "openai_remote", "stub"}
       \/ \E f \in {"vllm_max_pixels", "sglang_context_length", "trtllm_max_seq_len",
                   "exllama_cache_size", "gguf_n_ctx", "llama_server_n_ctx"} : f \in DOMAIN g
  BY <1>2, <1>3, <1>4, <1>5, <1>7
<1>11. b \notin {"ct2", "openai_remote", "stub"} => DOMAIN Fields[b] \ {"target_inflight"} # {}
  BY <1>8, <1>10
<1> QED
  BY <1>2, <1>3, <1>7, <1>8, <1>9, <1>11

-----------------------------------------------------------------------------
\* What becomes of a field between the settings and the server

\* Given drops the options that are null, and only those.
LEMMA GivenIs ==
  ASSUME NEW options
  PROVE  /\ DOMAIN Given(options) \subseteq DOMAIN options
         /\ \A f \in DOMAIN options : Of(Given(options), f) = options[f]
BY DEF Given, Restricted, Of

\* Options put under others are those they were, where the others say nothing.
LEMMA OfUnder ==
  ASSUME NEW o, NEW h, NEW f, f \notin DOMAIN h
  PROVE  /\ f \in DOMAIN (o ++ h) <=> f \in DOMAIN o
         /\ Of(o ++ h, f) = Of(o, f)
         /\ f \in DOMAIN o => (o ++ h)[f] = o[f]
<1>1. f \in DOMAIN (o ++ h) <=> f \in DOMAIN o
  BY OverDomain
<1>2. f \in DOMAIN o => (o ++ h)[f] = o[f]
  BY OverIs
<1> QED
  BY <1>1, <1>2 DEF Of

\* Each option says of its field what it said.
LEMMA PassedUnder ==
  ASSUME NEW payload, NEW o, NEW h, NEW f, f \notin DOMAIN h, Passed(payload, o, f)
  PROVE  Passed(payload, o ++ h, f)
<1>1. f \in DOMAIN (o ++ h) <=> f \in DOMAIN o
  BY OfUnder
<1>2. Of(o ++ h, f) = Of(o, f)
  BY OfUnder
<1>3. f \in DOMAIN o => (o ++ h)[f] = o[f]
  BY OfUnder
<1> QED
  BY <1>1, <1>2, <1>3 DEF Passed

\* The effective settings have the configured fields; each of them is what is asked
\* for, but for the draft tokens of sglang.
LEMMA EffectiveIs ==
  ASSUME NEW payload
  PROVE  /\ DOMAIN Effective(payload) = DOMAIN configured
         /\ \A f \in DOMAIN configured :
               f # "sglang_speculative_num_draft_tokens" \/ backend # "sglang_serve"
               => Effective(payload)[f] = Asks(payload, f)
<1>1. /\ DOMAIN Replaced(payload) = DOMAIN configured
      /\ \A f \in DOMAIN configured : Replaced(payload)[f] = Asks(payload, f)
  BY DEF Replaced, Asks
<1> DEFINE s == Replaced(payload)
           t == [s EXCEPT !.sglang_speculative_num_draft_tokens = DraftTokens(s)]
<1>2. DOMAIN t = DOMAIN s
  OBVIOUS
<1>3. \A f \in DOMAIN s : f # "sglang_speculative_num_draft_tokens" => t[f] = s[f]
  OBVIOUS
<1>4. \/ Effective(payload) = s
      \/ Effective(payload) = t /\ backend = "sglang_serve"
  BY DEF Effective
<1> HIDE DEF s, t
<1>5. DOMAIN s = DOMAIN configured /\ \A f \in DOMAIN configured : s[f] = Asks(payload, f)
  BY <1>1 DEF s
<1> QED
  BY <1>2, <1>3, <1>4, <1>5

\* The draft tokens of sglang follow from the steps when there is one branch per step.
LEMMA DraftTokensAre ==
  ASSUME NEW payload, Settled, backend = "sglang_serve"
  PROVE  LET d == "sglang_speculative_num_draft_tokens"
         IN  \/ Effective(payload)[d] = Asks(payload, d)
             \/ /\ Asks(payload, "sglang_speculative_eagle_topk") = Integer(1)
                /\ Effective(payload)[d] =
                      Integer(Asks(payload, "sglang_speculative_num_steps").int + 1)
<1> DEFINE d == "sglang_speculative_num_draft_tokens"
           s == Replaced(payload)
           t == [s EXCEPT !.sglang_speculative_num_draft_tokens = DraftTokens(s)]
<1>1. {"sglang_speculative_eagle_topk", "sglang_speculative_num_steps", d} \subseteq DOMAIN configured
  BY FieldNames, ModelsAssumption DEF Settled, backend
<1>2. DOMAIN s = DOMAIN configured /\ \A f \in DOMAIN configured : s[f] = Asks(payload, f)
  BY DEF Replaced, Asks
<1>3. CASE Effective(payload) = s
  BY <1>1, <1>2, <1>3
<1>4. CASE Effective(payload) = t /\ DraftTokensFixed(s)
  <2>1. t[d] = DraftTokens(s)
    BY <1>1, <1>2
  <2>2. /\ s.sglang_speculative_eagle_topk = Asks(payload, "sglang_speculative_eagle_topk")
        /\ s.sglang_speculative_num_steps = Asks(payload, "sglang_speculative_num_steps")
    BY <1>1, <1>2
  <2> QED
    BY <1>4, <2>1, <2>2 DEF DraftTokens, DraftTokensFixed
<1>5. \/ Effective(payload) = s
      \/ Effective(payload) = t /\ DraftTokensFixed(s)
  BY DEF Effective
<1> QED
  BY <1>3, <1>4, <1>5

\* What is passed is one of the fields, in every backend whose options are the fields.
LEMMA GivenFields ==
  ASSUME NEW payload, NEW f \in DOMAIN configured \ {"target_inflight"},
         backend # "sglang_serve"
  PROVE  LET s == Effective(payload)
             o == Given([x \in DOMAIN s \ {"target_inflight"} |-> s[x]])
         IN  /\ DOMAIN o \subseteq DOMAIN configured
             /\ Of(o, f) = Asks(payload, f)
<1> DEFINE s == Effective(payload)
           u == [x \in DOMAIN s \ {"target_inflight"} |-> s[x]]
<1>1. DOMAIN s = DOMAIN configured
  BY EffectiveIs
<1>2. s[f] = Asks(payload, f)
  BY EffectiveIs
<1>3. DOMAIN u = DOMAIN configured \ {"target_inflight"} /\ u[f] = s[f]
  BY <1>1
<1> HIDE DEF u
<1>4. DOMAIN Given(u) \subseteq DOMAIN u
  BY GivenIs
<1>5. Of(Given(u), f) = u[f]
  BY <1>3, GivenIs
<1>6. DOMAIN Given(u) \subseteq DOMAIN configured /\ Of(Given(u), f) = Asks(payload, f)
  BY <1>2, <1>3, <1>4, <1>5
<1> QED
  BY <1>6 DEF u

\* The options of vllm.
LEMMA VllmPasses ==
  ASSUME NEW payload, Settled, backend \in {"vllm", "vllm_serve"},
         NEW f \in DOMAIN configured \ {"target_inflight"}
  PROVE  LET o == VllmOptions(Effective(payload))
         IN  /\ DOMAIN o \subseteq DOMAIN configured
             /\ Passed(payload, o, f)
             /\ f = "vllm_max_pixels" => Of(o, f) = Effective(payload)[f]
<1> DEFINE s == Effective(payload)
           unused == IF s.vllm_speculative_method = Null THEN VllmSpeculative ELSE {}
           u == [x \in DOMAIN s \ (unused \cup {"target_inflight"}) |-> s[x]]
           t == [u EXCEPT !.vllm_kv_cache_dtype = Dtype(s, "vllm_kv_cache_dtype")]
<1>1. DOMAIN s = DOMAIN configured /\ s[f] = Asks(payload, f)
  BY EffectiveIs
<1>2. "vllm_speculative_method" \in DOMAIN configured
  BY FieldNames, ModelsAssumption DEF Settled, backend
<1>3. s.vllm_speculative_method = Asks(payload, "vllm_speculative_method")
  BY <1>2, EffectiveIs
<1>4. VllmOptions(s) = Given(t)
  BY DEF VllmOptions
<1>5. DOMAIN t = DOMAIN s \ (unused \cup {"target_inflight"})
  OBVIOUS
<1>6. \A x \in DOMAIN t : t[x] = s[x] \/ (x = "vllm_kv_cache_dtype" /\ t[x] = Dtype(s, x))
  OBVIOUS
<1>7. unused = {} \/ (unused = VllmSpeculative /\ s.vllm_speculative_method = Null)
  OBVIOUS
<1> HIDE DEF s, unused, u, t
<1>8. DOMAIN Given(t) \subseteq DOMAIN configured
  BY <1>1, <1>5, GivenIs
<1>9. Passed(payload, Given(t), f)
  <2>1. CASE f \in unused
    BY <1>3, <1>7, <2>1 DEF Passed
  <2>2. CASE f \notin unused
    <3>1. f \in DOMAIN t
      BY <1>1, <1>5, <2>2
    <3>2. Of(Given(t), f) = t[f]
      BY <3>1, GivenIs
    <3>3. t[f] = s[f] \/ (t[f] = Null /\ s[f] = Text("auto"))
      BY <1>6, <3>1 DEF Dtype
    <3> QED
      BY <1>1, <3>2, <3>3 DEF Passed
  <2> QED
    BY <2>1, <2>2
<1>10. f = "vllm_max_pixels" => Of(Given(t), f) = s[f]
  <2>1. f = "vllm_max_pixels" => f \notin unused
    BY <1>7 DEF VllmSpeculative
  <2>2. f \notin unused => Of(Given(t), f) = t[f]
    BY <1>1, <1>5, GivenIs
  <2>3. f \notin unused /\ f # "vllm_kv_cache_dtype" => t[f] = s[f]
    BY <1>1, <1>5, <1>6
  <2> QED
    BY <2>1, <2>2, <2>3
<1> QED
  BY <1>4, <1>8, <1>9, <1>10 DEF s

\* The options of sglang.
LEMMA SglangPasses ==
  ASSUME NEW payload, Settled, backend = "sglang_serve",
         NEW f \in DOMAIN configured \ {"target_inflight"}
  PROVE  LET o == SglangOptions(Effective(payload))
         IN  /\ DOMAIN o \subseteq DOMAIN configured \cup {"max_num_seqs"}
             /\ o.max_num_seqs = Effective(payload).target_inflight
             /\ Passed(payload, o, f)
<1> DEFINE s == Effective(payload)
           d == "sglang_speculative_num_draft_tokens"
           unused == IF s.sglang_speculative_algorithm = Null THEN SglangSpeculative ELSE {}
           tokens == IF s.sglang_speculative_eagle_topk = Integer(1)
                     THEN DraftTokens(s) ELSE s.sglang_speculative_num_draft_tokens
           passed == [x \in DOMAIN s |->
                        CASE x \in unused -> Null
                          [] x \notin unused /\ x = "sglang_kv_cache_dtype" -> Dtype(s, x)
                          [] x \notin unused /\ x = d -> tokens
                          [] OTHER -> s[x]]
           t == [x \in DOMAIN s \ {"target_inflight"} |-> passed[x]]
           h == [max_num_seqs |-> s.target_inflight]
<1>1. DOMAIN s = DOMAIN configured
  BY EffectiveIs
<1>2. /\ {"sglang_speculative_algorithm", "sglang_speculative_eagle_topk",
          "sglang_speculative_num_steps", d} \subseteq DOMAIN configured
      /\ "max_num_seqs" \notin DOMAIN configured
  BY FieldNames, ModelsAssumption DEF Settled, backend
<1>3. /\ s.sglang_speculative_algorithm = Asks(payload, "sglang_speculative_algorithm")
      /\ s.sglang_speculative_eagle_topk = Asks(payload, "sglang_speculative_eagle_topk")
      /\ s.sglang_speculative_num_steps = Asks(payload, "sglang_speculative_num_steps")
  BY <1>2, EffectiveIs
<1>4. SglangOptions(s) = Given(t) ++ h
  BY DEF SglangOptions
<1>5. DOMAIN t = DOMAIN s \ {"target_inflight"} /\ t[f] = passed[f]
  BY <1>1
<1>6. /\ f \in unused => passed[f] = Null
      /\ f \notin unused /\ f = "sglang_kv_cache_dtype" => passed[f] = Dtype(s, f)
      /\ f \notin unused /\ f = d => passed[f] = tokens
      /\ f \notin unused /\ f # "sglang_kv_cache_dtype" /\ f # d => passed[f] = s[f]
  BY <1>1
<1>7. unused = {} \/ (unused = SglangSpeculative /\ s.sglang_speculative_algorithm = Null)
  OBVIOUS
<1>8. DOMAIN h = {"max_num_seqs"} /\ h["max_num_seqs"] = s.target_inflight
  OBVIOUS
<1>9. \/ tokens = s[d]
      \/ s.sglang_speculative_eagle_topk = Integer(1) /\ tokens = DraftTokens(s)
  OBVIOUS
<1> HIDE DEF s, unused, tokens, passed, t, h
<1>10. Of(Given(t), f) = passed[f]
  BY <1>1, <1>5, GivenIs
<1>11. Passed(payload, Given(t), f)
  <2>1. CASE f \in unused
    BY <1>3, <1>7, <2>1 DEF Passed
  <2>2. CASE f \notin unused /\ f = "sglang_kv_cache_dtype"
    <3>1. s[f] = Asks(payload, f)
      BY <2>2, EffectiveIs DEF s
    <3> QED
      BY <1>6, <1>10, <2>2, <3>1 DEF Passed, Dtype
  <2>3. CASE f \notin unused /\ f = d
    <3>1. passed[f] = Integer(Asks(payload, "sglang_speculative_num_steps").int + 1)
          /\ Asks(payload, "sglang_speculative_eagle_topk") = Integer(1)
          => passed[f] # Null
      BY NullIsNoValue
    <3>2. Of(Given(t), f) # Null => f \in DOMAIN Given(t) /\ Given(t)[f] = Of(Given(t), f)
      BY DEF Of
    <3>3. \/ s[d] = Asks(payload, d)
          \/ /\ Asks(payload, "sglang_speculative_eagle_topk") = Integer(1)
             /\ s[d] = Integer(Asks(payload, "sglang_speculative_num_steps").int + 1)
      BY DraftTokensAre DEF s
    <3>4. \/ passed[f] = Asks(payload, f)
          \/ /\ Asks(payload, "sglang_speculative_eagle_topk") = Integer(1)
             /\ passed[f] = Integer(Asks(payload, "sglang_speculative_num_steps").int + 1)
      BY <1>3, <1>6, <1>9, <2>3, <3>3 DEF DraftTokens
    <3> QED
      BY <1>10, <2>3, <3>1, <3>2, <3>4 DEF Passed
  <2>4. CASE f \notin unused /\ f # "sglang_kv_cache_dtype" /\ f # d
    <3>1. s[f] = Asks(payload, f)
      BY <2>4, EffectiveIs DEF s
    <3> QED
      BY <1>6, <1>10, <2>4, <3>1 DEF Passed
  <2> QED
    BY <2>1, <2>2, <2>3, <2>4
<1>12. Passed(payload, Given(t) ++ h, f)
  BY <1>2, <1>8, <1>11, PassedUnder
<1>13. DOMAIN Given(t) \subseteq DOMAIN configured \ {"target_inflight"}
  BY <1>1, <1>5, GivenIs
<1>14. DOMAIN (Given(t) ++ h) \subseteq DOMAIN configured \cup {"max_num_seqs"}
  BY <1>8, <1>13, OverDomain
<1>15. (Given(t) ++ h)["max_num_seqs"] = s.target_inflight
  BY <1>2, <1>8, <1>13, OverIs
<1> QED
  BY <1>4, <1>12, <1>14, <1>15 DEF s

\* What a server of one process is told beside its limit, the settings of the model.
LEMMA ServedPasses ==
  ASSUME NEW payload, Settled, NEW o, NEW limit, "max_num_seqs" \notin DOMAIN o,
         DOMAIN o \subseteq DOMAIN configured \cup DOMAIN model.yaml,
         NEW f \in DOMAIN configured, Passed(payload, o, f)
  PROVE  LET all == o ++ [max_num_seqs |-> limit]
         IN  /\ DOMAIN all \subseteq DOMAIN configured \cup DOMAIN model.yaml \cup {"max_num_seqs"}
             /\ all.max_num_seqs = limit
             /\ Passed(payload, all, f)
<1> DEFINE h == [max_num_seqs |-> limit]
<1>1. DOMAIN h = {"max_num_seqs"} /\ h["max_num_seqs"] = limit
  OBVIOUS
<1>2. "max_num_seqs" \notin DOMAIN configured
  BY FieldNames, ModelsAssumption DEF Settled, backend
<1> HIDE DEF h
<1>3. DOMAIN (o ++ h) = DOMAIN o \cup DOMAIN h
  BY OverDomain
<1>4. (o ++ h)["max_num_seqs"] = limit
  BY <1>1, OverIs
<1>5. f \notin DOMAIN h
  BY <1>1, <1>2
<1>6. Passed(payload, o ++ h, f)
  BY <1>5, PassedUnder
<1>7. DOMAIN (o ++ h) \subseteq DOMAIN configured \cup DOMAIN model.yaml \cup {"max_num_seqs"}
  BY <1>1, <1>3
<1> QED
  BY <1>4, <1>6, <1>7 DEF h

\* The options of trtllm, over those of the YAML file.
LEMMA TrtllmPasses ==
  ASSUME NEW payload, NEW f \in DOMAIN configured \ {"target_inflight"},
         backend = "trtllm_serve"
  PROVE  LET s == Effective(payload)
             o == Given([x \in DOMAIN s \ {"target_inflight"} |-> s[x]]) ++ model.yaml
         IN  /\ DOMAIN o \subseteq DOMAIN configured \cup DOMAIN model.yaml
             /\ Passed(payload, o, f)
<1> DEFINE s == Effective(payload)
           g == Given([x \in DOMAIN s \ {"target_inflight"} |-> s[x]])
           o == g ++ model.yaml
<1>1. DOMAIN g \subseteq DOMAIN configured /\ Of(g, f) = Asks(payload, f)
  BY GivenFields
<1> HIDE DEF g
<1>2. DOMAIN o = DOMAIN g \cup DOMAIN model.yaml
  BY OverDomain
<1>3. f \in DOMAIN g => o[f] = g[f]
  BY OverIs
<1>4. f \in DOMAIN model.yaml \ DOMAIN g => o[f] = model.yaml[f]
  BY OverIs
<1> HIDE DEF o
<1>5. Passed(payload, o, f)
  <2>1. CASE f \in DOMAIN g
    BY <1>1, <1>2, <1>3, <2>1 DEF Passed, Of
  <2>2. CASE f \notin DOMAIN g /\ f \in DOMAIN model.yaml
    <3>1. Asks(payload, f) = Null
      BY <1>1, <2>2 DEF Of
    <3> QED
      BY <1>2, <1>4, <2>2, <3>1 DEF Passed
  <2>3. CASE f \notin DOMAIN g /\ f \notin DOMAIN model.yaml
    BY <1>1, <1>2, <2>3 DEF Passed, Of
  <2> QED
    BY <2>1, <2>2, <2>3
<1>6. DOMAIN o \subseteq DOMAIN configured \cup DOMAIN model.yaml
  BY <1>1, <1>2
<1> QED
  BY <1>5, <1>6 DEF o, g

\* The options of llama.cpp, where "off" may have become "auto".
LEMMA LlamaCppPasses ==
  ASSUME NEW payload, NEW f \in DOMAIN configured \ {"target_inflight"},
         backend = "llama_cpp", NEW o \in LlamaCppOptions(Effective(payload))
  PROVE  DOMAIN o \subseteq DOMAIN configured /\ Passed(payload, o, f)
<1> DEFINE s == Effective(payload)
           g == Given([x \in DOMAIN s \ {"target_inflight"} |-> s[x]])
           t == [g EXCEPT !.gguf_flash_attn = Text("auto")]
<1>1. DOMAIN g \subseteq DOMAIN configured /\ Of(g, f) = Asks(payload, f)
  BY GivenFields
<1>2. \/ o = g
      \/ o = t /\ s.gguf_flash_attn = Text("off")
  BY DEF LlamaCppOptions
<1>3. s[f] = Asks(payload, f)
  BY EffectiveIs
<1>4. DOMAIN t = DOMAIN g /\ \A x \in DOMAIN g : x # "gguf_flash_attn" => t[x] = g[x]
  OBVIOUS
<1>5. "gguf_flash_attn" \in DOMAIN g => t["gguf_flash_attn"] = Text("auto")
  OBVIOUS
<1> HIDE DEF s, g, t
<1>6. CASE o = g
  BY <1>1, <1>6 DEF Passed
<1>7. CASE o = t /\ s.gguf_flash_attn = Text("off")
  <2>1. CASE f = "gguf_flash_attn"
    <3>1. f \in DOMAIN g
      BY <1>1, <1>3, <1>7, <2>1, NullIsNoValue DEF Of
    <3>2. o[f] = Text("auto") /\ f \in DOMAIN o
      BY <1>4, <1>5, <1>7, <2>1, <3>1
    <3>3. Asks(payload, f) = Text("off")
      BY <1>3, <1>7, <2>1
    <3> QED
      BY <1>1, <1>4, <1>7, <2>1, <3>2, <3>3 DEF Passed
  <2>2. CASE f # "gguf_flash_attn"
    BY <1>1, <1>4, <1>7, <2>2 DEF Passed, Of
  <2> QED
    BY <2>1, <2>2
<1> QED
  BY <1>2, <1>6, <1>7

\* Backends without a table have the limit alone.
LEMMA PlainFields ==
  ASSUME NEW b \in {"ct2", "openai_remote", "stub"}
  PROVE  DOMAIN Fields[b] = {"target_inflight"}
<1> DEFINE limit == [target_inflight |-> CountField(1)]
<1>1. DOMAIN limit = {"target_inflight"}
  OBVIOUS
<1>2. Fields[b] = limit ++ <<>>
  BY DEF Fields, Backends
<1> HIDE DEF limit
<1>3. DOMAIN <<>> = {}
  BY EmptySeq
<1>4. DOMAIN (limit ++ <<>>) = DOMAIN limit \cup DOMAIN <<>>
  BY OverDomain
<1> QED
  BY <1>1, <1>2, <1>3, <1>4

\* What a load passes to the server, or the library.
LEMMA LoadPasses ==
  ASSUME NEW payload, Settled, ~StartRefused(Effective(payload)),
         NEW o \in Options(Effective(payload)), NEW f \in DOMAIN configured \ {"target_inflight"}
  PROVE  /\ DOMAIN o \subseteq DOMAIN configured \cup DOMAIN model.yaml \cup {"max_num_seqs"}
         /\ Passed(payload, o, f)
         /\ backend \in Parallel \ {"openai_remote"} =>
              o.max_num_seqs = Effective(payload).target_inflight
<1> DEFINE s == Effective(payload)
           g == Given([x \in DOMAIN s \ {"target_inflight"} |-> s[x]])
           Goal == /\ DOMAIN o \subseteq DOMAIN configured \cup DOMAIN model.yaml \cup {"max_num_seqs"}
                   /\ Passed(payload, o, f)
                   /\ backend \in Parallel \ {"openai_remote"} => o.max_num_seqs = s.target_inflight
<1>1. backend \in Backends /\ "max_num_seqs" \notin DOMAIN configured
  BY FieldNames, ModelsAssumption DEF Settled, backend
<1>2. CASE backend = "vllm"
  <2>1. o = VllmOptions(s)
    BY <1>2 DEF Options
  <2>2. DOMAIN o \subseteq DOMAIN configured
    BY <1>2, <2>1, VllmPasses
  <2>3. Passed(payload, o, f)
    BY <1>2, <2>1, VllmPasses
  <2> QED
    BY <1>2, <2>2, <2>3 DEF Parallel
<1>3. CASE backend = "vllm_serve"
  <2>1. o = VllmOptions(s) ++ [max_num_seqs |-> s.target_inflight]
    BY <1>3 DEF Options, VllmServeOptions
  <2>2. DOMAIN VllmOptions(s) \subseteq DOMAIN configured
    BY <1>3, VllmPasses
  <2>3. Passed(payload, VllmOptions(s), f)
    BY <1>3, VllmPasses
  <2> QED
    BY <1>1, <2>1, <2>2, <2>3, ServedPasses
<1>4. CASE backend = "sglang_serve"
  <2>1. o = SglangOptions(s)
    BY <1>4 DEF Options
  <2> QED
    BY <1>4, <2>1, SglangPasses
<1>5. CASE backend = "trtllm_serve"
  <2>1. o = g ++ model.yaml ++ [max_num_seqs |-> s.target_inflight]
    BY <1>5 DEF Options, TrtllmOptions
  <2>2. /\ DOMAIN (g ++ model.yaml) \subseteq DOMAIN configured \cup DOMAIN model.yaml
        /\ Passed(payload, g ++ model.yaml, f)
    BY <1>5, TrtllmPasses
  <2>3. DOMAIN g \subseteq DOMAIN configured
    BY <1>5, GivenFields
  <2>4. "max_num_seqs" \notin DOMAIN model.yaml
    BY <1>5 DEF StartRefused
  <2> HIDE DEF g
  <2>5. "max_num_seqs" \notin DOMAIN (g ++ model.yaml)
    BY <1>1, <2>3, <2>4, OverDomain
  <2> HIDE DEF s
  <2> DEFINE y == g ++ model.yaml
  <2>6. /\ DOMAIN y \subseteq DOMAIN configured \cup DOMAIN model.yaml
        /\ Passed(payload, y, f) /\ "max_num_seqs" \notin DOMAIN y
        /\ o = y ++ [max_num_seqs |-> s.target_inflight]
    BY <2>1, <2>2, <2>5
  <2> HIDE DEF y
  <2>7. Goal
    BY <2>6, ServedPasses
  <2> QED
    BY <2>7 DEF s
<1>6. CASE backend = "llama_server"
  <2>1. o = g ++ [max_num_seqs |-> s.target_inflight]
    BY <1>6 DEF Options, LlamaServerOptions
  <2>2. DOMAIN g \subseteq DOMAIN configured /\ Of(g, f) = Asks(payload, f)
    BY <1>6, GivenFields
  <2>3. Passed(payload, g, f)
    BY <2>2 DEF Passed
  <2> HIDE DEF g
  <2> QED
    BY <1>1, <2>1, <2>2, <2>3, ServedPasses
<1>7. CASE backend = "llama_cpp"
  <2>1. o \in LlamaCppOptions(s)
    BY <1>7 DEF Options
  <2>2. DOMAIN o \subseteq DOMAIN configured
    BY <1>7, <2>1, LlamaCppPasses
  <2>3. Passed(payload, o, f)
    BY <1>7, <2>1, LlamaCppPasses
  <2> QED
    BY <1>7, <2>2, <2>3 DEF Parallel
<1>8. CASE backend = "exllamav3"
  <2>1. o = g
    BY <1>8 DEF Options, ExllamaOptions
  <2>2. DOMAIN g \subseteq DOMAIN configured /\ Of(g, f) = Asks(payload, f)
    BY <1>8, GivenFields
  <2>3. Passed(payload, g, f)
    BY <2>2 DEF Passed
  <2> HIDE DEF g
  <2> QED
    BY <1>8, <2>1, <2>2, <2>3 DEF Parallel
<1>9. CASE backend \in {"ct2", "openai_remote", "stub"}
  BY <1>9, PlainFields DEF Settled
<1> QED
  BY <1>1, <1>2, <1>3, <1>4, <1>5, <1>6, <1>7, <1>8, <1>9 DEF Backends

\* The fields of the options, and the limit among them.
LEMMA LoadLimit ==
  ASSUME NEW payload, Settled, ~StartRefused(Effective(payload)),
         NEW o \in Options(Effective(payload))
  PROVE  /\ DOMAIN o \subseteq DOMAIN configured \cup DOMAIN model.yaml \cup {"max_num_seqs"}
         /\ backend \in Parallel \ {"openai_remote"} =>
              o.max_num_seqs = Effective(payload).target_inflight
<1>1. backend \in Backends
  BY ModelsAssumption DEF Settled, backend
<1>2. CASE backend \in {"ct2", "openai_remote", "stub"}
  <2>1. o = <<>>
    BY <1>2 DEF Options, Empty
  <2>2. DOMAIN o = {}
    BY <2>1, EmptySeq
  <2> QED
    BY <1>2, <2>2 DEF Parallel
<1>3. CASE backend \notin {"ct2", "openai_remote", "stub"}
  <2>1. PICK f : f \in DOMAIN configured \ {"target_inflight"}
    BY <1>1, <1>3, FieldNames DEF Settled
  <2> QED
    BY <2>1, LoadPasses
<1> QED
  BY <1>2, <1>3

\* An override can set the limit of a backend that takes more than one request.
LEMMA LimitOverride ==
  ASSUME NEW b \in Parallel
  PROVE  "target_inflight" \in DOMAIN Overrides[b] /\ Overrides[b].target_inflight = From(1)
<1> DEFINE limit == [target_inflight |-> From(1)]
<1>1. PICK g : Overrides[b] = limit ++ g
  BY DEF Overrides, Parallel, Backends
<1>2. DOMAIN limit = {"target_inflight"} /\ limit["target_inflight"] = From(1)
  OBVIOUS
<1> HIDE DEF limit
<1>3. DOMAIN (limit ++ g) = DOMAIN limit \cup DOMAIN g
  BY OverDomain
<1>4. (limit ++ g)["target_inflight"] = limit["target_inflight"]
  BY <1>2, OverIs
<1> QED
  BY <1>1, <1>2, <1>3, <1>4

\* The limit of a load is a number, the one that is asked for.
LEMMA LimitIs ==
  ASSUME NEW payload, Settled, OverrideAccepted(payload), backend \in Parallel
  PROVE  LET limit == Effective(payload).target_inflight
         IN  limit = Asks(payload, "target_inflight") /\ IsNumber(limit)
<1> DEFINE t == "target_inflight"
<1>1. t \in DOMAIN configured
  BY LimitField, ModelsAssumption DEF Settled, backend
<1>2. Effective(payload)[t] = Asks(payload, t)
  BY <1>1, EffectiveIs
<1>3. CASE t \in DOMAIN payload
  <2>1. payload[t] \in Overrides[backend][t]
    BY <1>3 DEF OverrideAccepted
  <2>2. payload[t] \in From(1)
    BY <2>1, LimitOverride
  <2>3. payload[t] = Integer(payload[t].int) /\ payload[t].int \in Int
    BY <2>2, ValuesAssumption DEF From
  <2>4. Normal(payload[t]) = payload[t]
    BY <2>3, NullIsNoValue
  <2> QED
    BY <1>2, <1>3, <2>3, <2>4 DEF Asks, IsNumber
<1>4. CASE t \notin DOMAIN payload
  BY <1>2, <1>4 DEF Asks, Settled
<1> QED
  BY <1>3, <1>4

\* The server of vllm_serve is told the pixels of the effective settings.
LEMMA PixelsPassed ==
  ASSUME NEW payload, Settled, backend = "vllm_serve",
         NEW o \in Options(Effective(payload)), Effective(payload).vllm_max_pixels # Null
  PROVE  o.vllm_max_pixels = Effective(payload).vllm_max_pixels
<1> DEFINE s == Effective(payload)
           p == "vllm_max_pixels"
           h == [max_num_seqs |-> s.target_inflight]
           v == VllmOptions(s)
<1>1. o = v ++ h
  BY DEF Options, VllmServeOptions
<1>2. p \in DOMAIN configured \ {"target_inflight"}
  BY FieldNames, ModelsAssumption DEF Settled, backend
<1>3. Of(v, p) = s[p]
  BY <1>2, VllmPasses
<1>4. p \in DOMAIN v /\ v[p] = s[p]
  BY <1>3 DEF Of
<1> HIDE DEF v, h
<1>5. (v ++ h)[p] = v[p]
  BY <1>4, OverIs
<1> QED
  BY <1>1, <1>4, <1>5

-----------------------------------------------------------------------------
\* Requests

\* What AdmittedReachesServer says of a request and of what is sent for it.
Reaches(request, payload) ==
    LET decided == Thinks(request, "absent")
    IN  /\ payload.budget = request.budget
        /\ payload.pixels = request.pixels
        /\ payload.schema = request.schema
        /\ request.pixels > 0 => request.pixels <= launched.vllm_max_pixels.int
        /\ \/ payload.effort = request.effort
           \/ backend \in {"sglang_serve", "trtllm_serve", "llama_server"}
        /\ \/ payload.thinking = decided
           \/ decided = "absent"
           \/ request.thinking = "default" /\ ~ThinkingModes
           \/ backend = "vllm_serve" /\ Is(model.format, "loose")

\* A decision about thinking is the same whatever the default.
LEMMA DecisionIs ==
  ASSUME NEW request \in Requests, NEW default, Thinks(request, "absent") # "absent"
  PROVE  Thinks(request, default) = Thinks(request, "absent")
BY DEF Thinks

\* A format is loose, or it is its own text.
LEMMA FormatIs ==
  ASSUME NEW m \in Models
  PROVE  \/ Is(m.format, "loose")
         \/ m.format = Text(m.format.text) /\ Normal(m.format) = m.format
<1>1. Is(Loose(m.format.text), "loose")
  BY DEF Is, Loose
<1>2. ~Is(Text(m.format.text), "loose")
  BY DEF Is, Text
<1> QED
  BY <1>1, <1>2, ModelsAssumption DEF Normal

\* An admitted request is sent with what it asks for.
LEMMA AdmittedIsSent ==
  ASSUME model \in Models, backend \in Parallel, PixelsKept, lifecycle = "loaded",
         NEW request \in Requests, Admitted(request)
  PROVE  Reaches(request, BackendPayload(request))
<1> DEFINE decided == Thinks(request, "absent")
<1>1. /\ request.thinking \in {"default", "enabled", "disabled"}
      /\ request.effort \in {"absent", "none", "high"}
      /\ request.budget \in {0, 1, 2}
      /\ request.pixels \in {0, 2, 8}
      /\ request.schema \in BOOLEAN
  BY DEF Requests
<1>2. backend # "vllm_serve" => request.budget = 0 /\ request.pixels = 0 /\ request.schema = FALSE
  <2>1. model.budgetMax \in Nat /\ (model.budgetMax > 0 => backend = "vllm_serve")
    BY ModelsAssumption DEF backend
  <2> QED
    BY <1>1, <2>1 DEF Admitted, ReasoningAdmitted, PixelsAdmitted
<1>3. request.pixels > 0 => request.pixels <= launched.vllm_max_pixels.int
  BY DEF Admitted, PixelsAdmitted, PixelsKept
<1>4. ~ThinkingModes => request.thinking = "default"
  BY DEF Admitted
<1>5. \A default : decided = "absent" \/ Thinks(request, default) = decided
  BY DecisionIs
<1>6. CASE backend = "vllm_serve"
  <2>1. BackendPayload(request) = VllmServePayload(request)
    BY <1>6 DEF BackendPayload
  <2> DEFINE payload == VllmServePayload(request)
  <2>2. /\ payload.budget = request.budget
        /\ payload.pixels = request.pixels
        /\ payload.schema = request.schema
        /\ payload.effort = request.effort
        /\ payload.thinking = IF model.format = Text("gemma4_template")
                              THEN Thinks(request, model.enableThinking) ELSE "absent"
    BY DEF VllmServePayload, Requests
  <2>3. CASE model.format = Text("gemma4_template")
    BY <1>3, <1>5, <2>1, <2>2, <2>3 DEF Reaches
  <2>4. CASE model.format # Text("gemma4_template") /\ ~Is(model.format, "loose")
    <3>1. model.format = Text(model.format.text) /\ Normal(model.format) = model.format
      BY <2>4, FormatIs
    <3>2. Normal(model.format).text # "gemma4_template"
      BY <2>4, <3>1
    <3>3. ~ThinkingModes
      BY <1>6, <3>2 DEF ThinkingModes, ThinkingFormats, GemmaOnly
    <3> QED
      BY <1>3, <1>4, <2>1, <2>2, <3>3 DEF Reaches
  <2>5. CASE Is(model.format, "loose")
    BY <1>3, <1>6, <2>1, <2>2, <2>5 DEF Reaches
  <2> QED
    BY <2>3, <2>4, <2>5
<1>7. CASE backend \in {"sglang_serve", "trtllm_serve"}
  <2>1. BackendPayload(request) = SglangPayload(request)
    BY <1>7 DEF BackendPayload, TrtllmPayload
  <2>2. /\ SglangPayload(request).budget = 0
        /\ SglangPayload(request).pixels = 0
        /\ SglangPayload(request).schema = FALSE
        /\ SglangPayload(request).thinking = Thinks(request, model.enableThinking)
    BY DEF SglangPayload, Silent
  <2> QED
    BY <1>2, <1>3, <1>5, <1>7, <2>1, <2>2 DEF Reaches
<1>8. CASE backend = "llama_server"
  <2>1. BackendPayload(request) = Silent
    BY <1>8 DEF BackendPayload, LlamaServerPayload
  <2>2. ~ThinkingModes
    BY <1>8 DEF ThinkingModes, ThinkingFormats, GemmaOnly
  <2>3. Silent.budget = 0 /\ Silent.pixels = 0 /\ Silent.schema = FALSE
    BY DEF Silent
  <2>4. BackendPayload(request).budget = 0 /\ BackendPayload(request).pixels = 0
        /\ BackendPayload(request).schema = FALSE
    BY <2>1, <2>3
  <2> QED
    BY <1>2, <1>3, <1>4, <1>8, <2>2, <2>4 DEF Reaches
<1>9. CASE backend = "openai_remote"
  <2>1. BackendPayload(request) = RemotePayload(request)
    BY <1>9 DEF BackendPayload
  <2>2. /\ RemotePayload(request).budget = 0
        /\ RemotePayload(request).pixels = 0
        /\ RemotePayload(request).schema = FALSE
        /\ RemotePayload(request).effort = request.effort
        /\ RemotePayload(request).thinking = Thinks(request, model.remoteThinking)
    BY DEF RemotePayload, Silent
  <2> QED
    BY <1>2, <1>3, <1>5, <1>9, <2>1, <2>2 DEF Reaches
<1> QED
  BY <1>6, <1>7, <1>8, <1>9 DEF Parallel

-----------------------------------------------------------------------------
\* The invariant

\* The files are read into every field of the backend.
LEMMA InitIsSettled == Init => Settled
<1> SUFFICES ASSUME Init PROVE Settled
  OBVIOUS
<1>1. model.backend \in Backends
  BY ModelsAssumption DEF Init
<1>2. FileAccepted(model.backend, Merged(model.file, local))
  BY DEF Init
<1> QED
  BY <1>1, <1>2, ConvertedIs DEF Init, Settled, backend

\* Nothing is loaded, and nothing is sent, at first.
LEMMA InitInv == Init => LoadInv
BY InitIsSettled
   DEF Init, LoadInv, LimitsAgree, LaunchedAsAsked, PixelsKept, AdmittedReachesServer

\* While nothing is loaded, the rest of the invariant says nothing.
LEMMA NothingLoaded ==
  ASSUME Settled', lifecycle' # "loaded", sent' = NoRequest
  PROVE  LoadInv'
BY DEF LoadInv, LimitsAgree, LaunchedAsAsked, PixelsKept, AdmittedReachesServer, NoRequest

\* The settings stay settled while they are not read again.
LEMMA SettledFrame ==
  ASSUME Settled, UNCHANGED <<model, configured>>
  PROVE  Settled'
BY DEF Settled, backend

\* A load leaves what the properties say of a loaded model.
LEMMA DoneInv ==
  ASSUME LoadInv, NEW asked, LoadDone(asked), UNCHANGED <<model, configured, sent>>,
         sent = NoRequest
  PROVE  LoadInv'
<1> DEFINE payload == Payload(asked)
           s == Effective(payload)
           t == "target_inflight"
           Agrees(o, n) ==
               IF backend \in Parallel
               THEN /\ Integer(n) = Asks(payload, t)
                    /\ backend # "openai_remote" => o.max_num_seqs = Integer(n)
               ELSE n = 1
<1>1. Settled
  BY DEF LoadInv
<1>2. OverrideAccepted(payload) /\ ~StartRefused(s)
  BY DEF LoadDone
<1>3. /\ lifecycle' = "loaded" /\ override' = payload /\ effective' = s
      /\ launched' \in Options(s) /\ slots' = Slots(s)
  BY DEF LoadDone
<1> HIDE DEF payload, s
<1>4. PICK o : o \in Options(s) /\ launched' = o
  BY <1>3
<1>5. PICK n : n = Slots(s) /\ slots' = n
  BY <1>3
<1>6. Agrees(o, n)
  <2>1. CASE backend \in Parallel
    <3>1. s.target_inflight = Asks(payload, t) /\ IsNumber(s.target_inflight)
      BY <1>1, <1>2, <2>1, LimitIs DEF s
    <3>2. Integer(n) = s.target_inflight
      BY <1>5, <2>1, <3>1 DEF Slots, IsNumber
    <3>3. backend # "openai_remote" => o.max_num_seqs = s.target_inflight
      BY <1>1, <1>2, <1>4, <2>1, LoadLimit DEF s
    <3> QED
      BY <2>1, <3>1, <3>2, <3>3
  <2>2. CASE backend \notin Parallel
    BY <1>5, <2>2 DEF Slots
  <2> QED
    BY <2>1, <2>2
<1>7. DOMAIN o \subseteq DOMAIN configured \cup DOMAIN model.yaml \cup {"max_num_seqs"}
  BY <1>1, <1>2, <1>4, LoadLimit DEF s
<1>8. \A f \in DOMAIN configured \ {t} : Passed(payload, o, f)
  BY <1>1, <1>2, <1>4, LoadPasses DEF s
<1>9. backend = "vllm_serve" /\ s.vllm_max_pixels # Null
      => o.vllm_max_pixels = s.vllm_max_pixels
  BY <1>1, <1>4, PixelsPassed DEF s
<1>10. backend' = backend /\ model' = model /\ configured' = configured
  BY DEF backend
<1>11. \A f : Wanted(f)' = Asks(payload, f)
  BY <1>3, <1>10 DEF Wanted, Asks
<1>12. LimitsAgree'
  BY <1>3, <1>4, <1>5, <1>6, <1>10, <1>11 DEF LimitsAgree
<1>13. LaunchedAsAsked'
  <2>1. \A f \in DOMAIN configured \ {t} :
            \/ Of(o, f) = Wanted(f)'
            \/ Of(o, f) = Null /\ Wanted(f)' = Text("auto")
            \/ f \in VllmSpeculative /\ Wanted("vllm_speculative_method")' = Null
            \/ f \in SglangSpeculative /\ Wanted("sglang_speculative_algorithm")' = Null
            \/ /\ f = "sglang_speculative_num_draft_tokens"
               /\ Wanted("sglang_speculative_eagle_topk")' = Integer(1)
               /\ o[f] = Integer(Wanted("sglang_speculative_num_steps")'.int + 1)
            \/ Wanted(f)' = Null /\ f \in DOMAIN model.yaml /\ o[f] = model.yaml[f]
            \/ f = "gguf_flash_attn" /\ Wanted(f)' = Text("off") /\ o[f] = Text("auto")
    BY <1>8, <1>11 DEF Passed
  <2> QED
    BY <1>4, <1>7, <1>10, <2>1 DEF LaunchedAsAsked
<1>14. PixelsKept'
  BY <1>3, <1>4, <1>9, <1>10 DEF PixelsKept
<1>15. Settled'
  BY <1>1, <1>10, SettledFrame
<1>16. sent' = NoRequest
  OBVIOUS
<1> QED
  BY <1>3, <1>12, <1>13, <1>14, <1>15, <1>16 DEF LoadInv, AdmittedReachesServer

\* Each step keeps the invariant.
LEMMA NextInv == LoadInv /\ [Next]_vars => LoadInv'
<1> SUFFICES ASSUME LoadInv, [Next]_vars PROVE LoadInv'
  OBVIOUS
<1> USE DEF LoadInv
<1>1. CASE Edit
  BY <1>1 DEF Edit, Settled, LimitsAgree, LaunchedAsAsked, PixelsKept, AdmittedReachesServer,
     Wanted, Of, Thinks, ThinkingModes, backend
<1>2. CASE Reload
  <2>1. /\ FileAccepted(backend, Merged(model.file, local))
        /\ configured' = Converted(backend, Merged(model.file, local))
        /\ lifecycle \in {"unloaded", "failed"} /\ lifecycle' = "unloaded"
        /\ model' = model /\ sent' = sent
    BY <1>2 DEF Reload
  <2>2. backend \in Backends
    BY ModelsAssumption DEF Settled, backend
  <2>3. Settled'
    BY <2>1, <2>2, ConvertedIs DEF Settled, backend
  <2>4. sent' = NoRequest
    BY <2>1
  <2> QED
    BY <2>1, <2>3, <2>4, NothingLoaded
<1>3. CASE Load
  <2>1. PICK asked : LoadStranded(asked) \/ LoadFailed(asked) \/ LoadDone(asked)
    BY <1>3 DEF Load
  <2>2. UNCHANGED <<model, configured, sent>> /\ sent = NoRequest
    BY <1>3 DEF Load
  <2>3. CASE LoadStranded(asked) \/ LoadFailed(asked)
    <3>1. lifecycle' # "loaded"
      BY <2>3 DEF LoadStranded, LoadFailed
    <3>2. Settled'
      BY <2>2, SettledFrame
    <3> QED
      BY <2>2, <3>1, <3>2, NothingLoaded
  <2>4. CASE LoadDone(asked)
    BY <2>2, <2>4, DoneInv
  <2> QED
    BY <2>1, <2>3, <2>4
<1>4. CASE Unload
  <2>1. Settled'
    BY <1>4, SettledFrame DEF Unload
  <2> QED
    BY <1>4, <2>1, NothingLoaded DEF Unload
<1>5. CASE Request
  <2>1. UNCHANGED <<model, local, configured, lifecycle, override, effective, launched, slots>>
    BY <1>5 DEF Request
  <2>2. PICK request \in Requests :
            /\ Admitted(request)
            /\ sent' = [request |-> request, payload |-> BackendPayload(request)]
    BY <1>5 DEF Request
  <2>3. lifecycle = "loaded" /\ backend \in Parallel
    BY <1>5 DEF Request
  <2>4. Reaches(request, BackendPayload(request))
    BY <2>2, <2>3, AdmittedIsSent DEF Settled
  <2>5. PICK payload : payload = BackendPayload(request)
    OBVIOUS
  <2>6. sent'.request = request /\ sent'.payload = payload
    BY <2>2, <2>5
  <2>7. ThinkingModes' = ThinkingModes /\ backend' = backend
    BY <2>1 DEF ThinkingModes, backend
  <2>8. AdmittedReachesServer'
    BY <2>1, <2>4, <2>5, <2>6, <2>7 DEF AdmittedReachesServer, Reaches, Thinks
  <2>9. /\ Settled' /\ PixelsKept' /\ LimitsAgree'
        /\ LaunchedAsAsked'
    BY <2>1 DEF Settled, LimitsAgree, LaunchedAsAsked, PixelsKept, Wanted, Of, backend
  <2> QED
    BY <2>1, <2>3, <2>8, <2>9
<1>6. CASE UNCHANGED vars
  BY <1>6 DEF vars, Settled, LimitsAgree, LaunchedAsAsked, PixelsKept, AdmittedReachesServer,
     Wanted, Of, Thinks, ThinkingModes, backend
<1> QED
  BY <1>1, <1>2, <1>3, <1>4, <1>5, <1>6 DEF Next

-----------------------------------------------------------------------------
\* The theorems about what is loaded

\* In every state the settings are settled, the two limits agree, the server has
\* what was asked for, and requests are admitted against what it was launched with.
THEOREM LoadInvariance == Spec => []LoadInv
<1>1. Init => LoadInv
  BY InitInv
<1>2. LoadInv /\ [Next]_vars => LoadInv'
  BY NextInv
<1> QED
  BY <1>1, <1>2, PTL DEF Spec

\* The limit of the server and that of the executor are the same number, the one
\* that the load asked for or that is configured (LimitsAgree), for all settings.
THEOREM LimitsAlwaysAgree == Spec => []LimitsAgree
<1>1. LoadInv => LimitsAgree
  BY DEF LoadInv
<1> QED
  BY <1>1, LoadInvariance, PTL

\* A loaded model has what its load asked for, or else what is configured, in every
\* backend, and nothing of an earlier load (LaunchedAsAsked).
THEOREM LaunchedIsAsked == Spec => []LaunchedAsAsked
<1>1. LoadInv => LaunchedAsAsked
  BY DEF LoadInv
<1> QED
  BY <1>1, LoadInvariance, PTL

\* A control that a request is admitted with is in what the backend sends, within
\* what the server was launched for (AdmittedReachesServer).
THEOREM AdmittedAlwaysReaches == Spec => []AdmittedReachesServer
<1>1. LoadInv => AdmittedReachesServer
  BY DEF LoadInv
<1> QED
  BY <1>1, LoadInvariance, PTL

-----------------------------------------------------------------------------
\* What is offered to clients

\* The steps that are offered are whole numbers, above the least one.
LEMMA EveryFits ==
  ASSUME NEW n \in {256, 200704, 268435456}
  PROVE  Every(n) \subseteq From(1) /\ Every(n) \subseteq From(256)
<1>1. \A v \in Values : Is(v, "int") => v.int \in Int
  BY ValuesAssumption
<1> QED
  BY <1>1 DEF Every, From

\* Numbers with one bound lie among those with a lower one.
LEMMA NumbersFit ==
  /\ From(1) \subseteq From(-1000) /\ From(-1) \subseteq From(-1000)
  /\ From(1) \subseteq Whole
  /\ Between(1, 6) \subseteq From(1) /\ Between(2, 8) \subseteq Whole
<1>1. \A v \in Values : Is(v, "int") => v.int \in Int
  BY ValuesAssumption
<1> QED
  BY <1>1 DEF From, Between, Whole

\* A chunk size that is offered is one that is accepted, or 0.
LEMMA ChunksFit == From(-1) \subseteq From(1) \cup (Values \cap {Integer(-1)}) \cup {Integer(0)}
<1> SUFFICES ASSUME NEW v \in From(-1)
             PROVE  v \in From(1) \cup (Values \cap {Integer(-1)}) \cup {Integer(0)}
  OBVIOUS
<1>1. v \in Values /\ Is(v, "int") /\ v.int >= -1
  BY DEF From
<1>2. v.int \in Int /\ v = Integer(v.int)
  BY <1>1, ValuesAssumption
<1>3. v.int = -1 \/ v.int = 0 \/ v.int >= 1
  BY <1>1, <1>2
<1>4. v.int >= 1 => v \in From(1)
  BY <1>1 DEF From
<1> QED
  BY <1>1, <1>2, <1>3, <1>4

\* A clean text is one of the texts.
LEMMA CleanFits == \A S : Clean(S) \subseteq S
BY DEF Clean

\* A set may have null added.
LEMMA OrNullFits == \A S, T : S \subseteq T => S \subseteq OrNull(T) /\ OrNull(S) \subseteq OrNull(T)
BY DEF OrNull

\* Words are texts, and not blank but for the empty one.
LEMMA WordsFit ==
  ASSUME NEW S
  PROVE  /\ Words(S) \subseteq Strings
         /\ "" \notin S => Words(S) \subseteq NonBlank
         /\ NonBlank \subseteq Strings
<1>1. Text("").text = ""
  BY DEF Text
<1> QED
  BY <1>1 DEF Words, Strings, NonBlank, Blank

\* The bits that are offered are those that can be parsed.
LEMMA BitsFit ==
  LET all == {v \in Values : Is(v, "bits")}
  IN  all \subseteq Strings /\ all \subseteq Quants
BY ValuesAssumption DEF Strings, Quants

\* What the schema of a load request takes.
LEMMA SchemaIs ==
  /\ \A f \in {"target_inflight", "gguf_n_ctx", "exllama_max_rq_tokens",
               "vllm_kv_cache_memory_bytes", "vllm_max_pixels", "vllm_num_speculative_tokens",
               "trtllm_max_seq_len", "trtllm_kv_cache_memory_bytes", "trtllm_max_num_tokens",
               "sglang_context_length", "sglang_max_total_tokens",
               "sglang_speculative_num_steps", "sglang_speculative_num_draft_tokens",
               "sglang_speculative_eagle_topk", "llama_server_n_ctx",
               "llama_server_image_max_tokens"} : Schema[f] = OrNull(From(1))
  /\ \A f \in {"exllama_cache_size", "vllm_max_model_len"} : Schema[f] = OrNull(From(256))
  /\ \A f \in CacheBits : Schema[f] = OrNull(Between(2, 8))
  /\ \A f \in {"gguf_flash_attn", "gguf_type_k", "gguf_type_v", "exllama_cache_quant",
               "vllm_kv_cache_dtype", "vllm_speculative_method", "vllm_speculative_model",
               "vllm_speculative_moe_backend", "vllm_speculative_attention_backend",
               "trtllm_kv_cache_dtype", "sglang_kv_cache_dtype", "sglang_speculative_algorithm",
               "sglang_speculative_draft_model", "llama_server_spec_type"} :
        Schema[f] = OrNull(Strings)
  /\ Schema.trtllm_enable_chunked_prefill = OrNull(Switch)
  /\ Schema.sglang_mem_fraction_static = OrNull(Fraction(1, 100))
  /\ Schema.sglang_chunked_prefill_size = OrNull(From(-1000))
  /\ Schema.llama_server_spec_draft_n_max = OrNull(Between(1, 6))
  /\ Schema.llama_server_spec_draft_p_min = OrNull(Fraction(0, 100))
<1>1. \A f \in {"target_inflight", "gguf_n_ctx", "exllama_max_rq_tokens",
            "vllm_kv_cache_memory_bytes", "vllm_max_pixels", "vllm_num_speculative_tokens",
            "trtllm_max_seq_len", "trtllm_kv_cache_memory_bytes", "trtllm_max_num_tokens",
            "sglang_context_length", "sglang_max_total_tokens",
            "sglang_speculative_num_steps", "sglang_speculative_num_draft_tokens",
            "sglang_speculative_eagle_topk", "llama_server_n_ctx",
            "llama_server_image_max_tokens"} : Schema[f] = OrNull(From(1))
  BY DEF Schema, CacheBits, ++
<1>2. \A f \in {"exllama_cache_size", "vllm_max_model_len"} : Schema[f] = OrNull(From(256))
  BY DEF Schema, CacheBits, ++
<1>3. \A f \in CacheBits : Schema[f] = OrNull(Between(2, 8))
  BY DEF Schema, CacheBits, ++
<1>4. \A f \in {"gguf_flash_attn", "gguf_type_k", "gguf_type_v", "exllama_cache_quant",
            "vllm_kv_cache_dtype", "vllm_speculative_method", "vllm_speculative_model",
            "vllm_speculative_moe_backend", "vllm_speculative_attention_backend",
            "trtllm_kv_cache_dtype", "sglang_kv_cache_dtype", "sglang_speculative_algorithm",
            "sglang_speculative_draft_model", "llama_server_spec_type"} :
        Schema[f] = OrNull(Strings)
  BY DEF Schema, CacheBits, ++
<1>5. Schema.trtllm_enable_chunked_prefill = OrNull(Switch)
  BY DEF Schema, CacheBits, ++
<1>6. Schema.sglang_mem_fraction_static = OrNull(Fraction(1, 100))
  BY DEF Schema, CacheBits, ++
<1>7. Schema.sglang_chunked_prefill_size = OrNull(From(-1000))
  BY DEF Schema, CacheBits, ++
<1>8. Schema.llama_server_spec_draft_n_max = OrNull(Between(1, 6))
  BY DEF Schema, CacheBits, ++
<1>9. Schema.llama_server_spec_draft_p_min = OrNull(Fraction(0, 100))
  BY DEF Schema, CacheBits, ++
<1> QED
  BY <1>1, <1>2, <1>3, <1>4, <1>5, <1>6, <1>7, <1>8, <1>9

\* A field is offered with values that the schema and the router take; a chunk of 0
\* is the only one that the router does not.
Takes(f, S, Table) ==
    /\ f \in DOMAIN Table
    /\ S \subseteq Schema[f]
    /\ S \subseteq Table[f] \/ (f = "sglang_chunked_prefill_size" /\ S \subseteq Table[f] \cup {Integer(0)})

\* Values that lie in the set of the schema and in that of the router are taken.
LEMMA TakesValues ==
  ASSUME NEW f, NEW Table, f \in DOMAIN Table, NEW S, NEW A, NEW B,
         Schema[f] = OrNull(A), Table[f] = B \/ Table[f] = OrNull(B), S \subseteq A, S \subseteq B
  PROVE  Takes(f, S, Table)
BY OrNullFits DEF Takes

\* And so is null, when both take it.
LEMMA TakesNull ==
  ASSUME NEW f, NEW Table, f \in DOMAIN Table, NEW S, NEW A, NEW B,
         Schema[f] = OrNull(A), Table[f] = OrNull(B), S \subseteq A, S \subseteq B
  PROVE  Takes(f, OrNull(S), Table)
BY OrNullFits DEF Takes

\* What vllm offers.
LEMMA VllmOffers ==
  ASSUME NEW f \in DOMAIN AdvertisedVllm
  PROVE  Takes(f, AdvertisedVllm[f], VllmOverrides)
<1> DEFINE texts == {"vllm_speculative_method", "vllm_speculative_model",
                     "vllm_speculative_moe_backend", "vllm_speculative_attention_backend"}
           counts == {"vllm_max_model_len", "vllm_kv_cache_memory_bytes", "vllm_max_pixels",
                      "vllm_num_speculative_tokens"}
<1>1. f \in texts \cup counts \cup {"vllm_kv_cache_dtype"}
  BY DEF AdvertisedVllm, ++
<1>2. f \in texts => AdvertisedVllm[f] = OrNull(Clean(NonBlank))
  BY DEF AdvertisedVllm, ++
<1>3. /\ f = "vllm_max_model_len" => AdvertisedVllm[f] = Every(256)
      /\ f = "vllm_kv_cache_memory_bytes" => AdvertisedVllm[f] = Every(268435456)
      /\ f = "vllm_max_pixels" => AdvertisedVllm[f] = Every(200704)
      /\ f = "vllm_num_speculative_tokens" => AdvertisedVllm[f] = From(1)
  BY DEF AdvertisedVllm, ++
<1>4. f = "vllm_kv_cache_dtype" => AdvertisedVllm[f] = Clean(Words({"auto", "fp8"}))
  BY DEF AdvertisedVllm, ++
<1>5. f \in DOMAIN VllmOverrides
  BY <1>1 DEF VllmOverrides, ++
<1>6. f \in counts => VllmOverrides[f] = From(1)
  BY DEF VllmOverrides, ++
<1>7. f \in texts => VllmOverrides[f] = OrNull(NonBlank)
  BY DEF VllmOverrides, ++
<1>8. f = "vllm_kv_cache_dtype" => VllmOverrides[f] = NonBlank
  BY DEF VllmOverrides, ++
<1>9. CASE f \in texts
  <2>1. Clean(NonBlank) \subseteq NonBlank /\ NonBlank \subseteq Strings
    BY CleanFits, WordsFit
  <2>2. Clean(NonBlank) \subseteq Strings
    BY <2>1
  <2>3. Schema[f] = OrNull(Strings)
    BY <1>9, SchemaIs
  <2> QED
    BY <1>2, <1>5, <1>7, <1>9, <2>1, <2>2, <2>3, TakesNull
<1>10. CASE f \in counts
  <2>1. AdvertisedVllm[f] \subseteq From(1)
    BY <1>3, <1>10, EveryFits
  <2>2. f = "vllm_max_model_len" => AdvertisedVllm[f] \subseteq From(256)
    BY <1>3, EveryFits
  <2>3. IF f = "vllm_max_model_len" THEN Schema[f] = OrNull(From(256))
        ELSE Schema[f] = OrNull(From(1))
    BY <1>10, SchemaIs
  <2>4. AdvertisedVllm[f] \subseteq Schema[f]
    BY <2>1, <2>2, <2>3, OrNullFits
  <2> QED
    BY <1>5, <1>6, <1>10, <2>1, <2>4 DEF Takes
<1>11. CASE f = "vllm_kv_cache_dtype"
  <2>1. AdvertisedVllm[f] \subseteq Words({"auto", "fp8"})
    BY <1>4, <1>11, CleanFits
  <2>2. Words({"auto", "fp8"}) \subseteq NonBlank /\ NonBlank \subseteq Strings
    BY WordsFit
  <2>3. Schema[f] = OrNull(Strings)
    BY <1>11, SchemaIs
  <2>4. AdvertisedVllm[f] \subseteq NonBlank /\ AdvertisedVllm[f] \subseteq Strings
    BY <2>1, <2>2
  <2> QED
    BY <1>5, <1>8, <1>11, <2>3, <2>4, TakesValues
<1> QED
  BY <1>1, <1>9, <1>10, <1>11

\* What trtllm offers.
LEMMA TrtllmOffers ==
  ASSUME NEW f \in DOMAIN AdvertisedTrtllm
  PROVE  Takes(f, AdvertisedTrtllm[f], TrtllmOverrides)
<1> DEFINE counts == {"trtllm_max_seq_len", "trtllm_kv_cache_memory_bytes", "trtllm_max_num_tokens"}
           S == AdvertisedTrtllm[f]
<1>1. f \in counts \cup {"trtllm_enable_chunked_prefill", "trtllm_kv_cache_dtype"}
  BY DEF AdvertisedTrtllm
<1>2. f \in DOMAIN TrtllmOverrides
  BY <1>1 DEF TrtllmOverrides, ++
<1>3. CASE f \in counts
  <2>1. \E n \in {256, 268435456} : S = Every(n)
    BY <1>3 DEF AdvertisedTrtllm
  <2>2. S \subseteq From(1)
    BY <2>1, EveryFits
  <2>3. TrtllmOverrides[f] = From(1)
    BY <1>3 DEF TrtllmOverrides, ++
  <2>4. Schema[f] = OrNull(From(1))
    BY <1>3, SchemaIs
  <2> QED
    BY <1>2, <2>2, <2>3, <2>4, TakesValues
<1>4. CASE f = "trtllm_enable_chunked_prefill"
  <2>1. S = Switch
    BY <1>4 DEF AdvertisedTrtllm
  <2>2. TrtllmOverrides[f] = Switch
    BY <1>4 DEF TrtllmOverrides, ++
  <2>3. Schema[f] = OrNull(Switch)
    BY <1>4, SchemaIs
  <2> QED
    BY <1>2, <2>1, <2>2, <2>3, TakesValues
<1>5. CASE f = "trtllm_kv_cache_dtype"
  <2>1. S = Clean(Words(TrtllmDtypes))
    BY <1>5 DEF AdvertisedTrtllm
  <2>2. S \subseteq Words(TrtllmDtypes)
    BY <2>1, CleanFits
  <2>3. Words(TrtllmDtypes) \subseteq Strings
    BY WordsFit
  <2>4. TrtllmOverrides[f] = Words(TrtllmDtypes)
    BY <1>5 DEF TrtllmOverrides, ++
  <2>5. Schema[f] = OrNull(Strings)
    BY <1>5, SchemaIs
  <2>6. S \subseteq Strings
    BY <2>2, <2>3
  <2> QED
    BY <1>2, <2>2, <2>4, <2>5, <2>6, TakesValues
<1> QED
  BY <1>1, <1>3, <1>4, <1>5

\* What sglang offers.
LEMMA SglangOffers ==
  ASSUME NEW f \in DOMAIN AdvertisedSglang
  PROVE  Takes(f, AdvertisedSglang[f], SglangOverrides)
<1> DEFINE lengths == {"sglang_context_length", "sglang_max_total_tokens"}
           counts == {"sglang_speculative_num_steps", "sglang_speculative_num_draft_tokens",
                      "sglang_speculative_eagle_topk"}
           texts == {"sglang_speculative_algorithm", "sglang_speculative_draft_model"}
           S == AdvertisedSglang[f]
<1>1. f \in lengths \cup counts \cup texts
            \cup {"sglang_mem_fraction_static", "sglang_chunked_prefill_size",
                  "sglang_kv_cache_dtype"}
  BY DEF AdvertisedSglang, ++
<1>2. f \in DOMAIN SglangOverrides
  BY <1>1 DEF SglangOverrides, ++
<1>3. CASE f \in lengths \cup counts
  <2>1. f \in lengths => S = Every(256)
    BY DEF AdvertisedSglang, ++
  <2>2. f \in counts => S = From(1)
    BY DEF AdvertisedSglang, ++
  <2>3. S \subseteq From(1)
    BY <1>3, <2>1, <2>2, EveryFits
  <2>4. SglangOverrides[f] = From(1)
    BY <1>3 DEF SglangOverrides, ++
  <2>5. Schema[f] = OrNull(From(1))
    BY <1>3, SchemaIs
  <2> QED
    BY <1>2, <2>3, <2>4, <2>5, TakesValues
<1>4. CASE f \in texts
  <2>1. S = OrNull(Clean(NonBlank))
    BY <1>4 DEF AdvertisedSglang, ++
  <2>2. SglangOverrides[f] = OrNull(NonBlank)
    BY <1>4 DEF SglangOverrides, ++
  <2>3. Schema[f] = OrNull(Strings)
    BY <1>4, SchemaIs
  <2>4. Clean(NonBlank) \subseteq NonBlank
    BY CleanFits
  <2>5. Clean(NonBlank) \subseteq Strings
    BY <2>4, WordsFit
  <2> QED
    BY <1>2, <2>1, <2>2, <2>3, <2>4, <2>5, TakesNull
<1>5. CASE f = "sglang_mem_fraction_static"
  <2>1. S = Fraction(1, 100)
    BY <1>5 DEF AdvertisedSglang, ++
  <2>2. SglangOverrides[f] = Fraction(1, 100)
    BY <1>5 DEF SglangOverrides, ++
  <2>3. Schema[f] = OrNull(Fraction(1, 100))
    BY <1>5, SchemaIs
  <2> QED
    BY <1>2, <2>1, <2>2, <2>3, TakesValues
<1>6. CASE f = "sglang_chunked_prefill_size"
  <2>1. S = From(-1)
    BY <1>6 DEF AdvertisedSglang, ++
  <2>2. SglangOverrides[f] = From(1) \cup (Values \cap {Integer(-1)})
    BY <1>6 DEF SglangOverrides, ++
  <2>3. Schema[f] = OrNull(From(-1000))
    BY <1>6, SchemaIs
  <2>4. S \subseteq Schema[f]
    BY <2>1, <2>3, NumbersFit, OrNullFits
  <2>5. S \subseteq SglangOverrides[f] \cup {Integer(0)}
    BY <2>1, <2>2, ChunksFit
  <2> QED
    BY <1>2, <1>6, <2>4, <2>5 DEF Takes
<1>7. CASE f = "sglang_kv_cache_dtype"
  <2>1. S = Clean(Words({"auto", "nvfp4"}))
    BY <1>7 DEF AdvertisedSglang, ++
  <2>2. Words({"auto", "nvfp4"}) \subseteq NonBlank /\ NonBlank \subseteq Strings
    BY WordsFit
  <2>3. S \subseteq NonBlank /\ S \subseteq Strings
    BY <2>1, <2>2, CleanFits
  <2>4. SglangOverrides[f] = NonBlank
    BY <1>7 DEF SglangOverrides, ++
  <2>5. Schema[f] = OrNull(Strings)
    BY <1>7, SchemaIs
  <2> QED
    BY <1>2, <2>3, <2>4, <2>5, TakesValues
<1> QED
  BY <1>1, <1>3, <1>4, <1>5, <1>6, <1>7

\* What llama-server offers.
LEMMA LlamaServerOffers ==
  ASSUME NEW f \in DOMAIN AdvertisedLlamaServer
  PROVE  Takes(f, AdvertisedLlamaServer[f], LlamaServerOverrides)
<1> DEFINE counts == {"llama_server_n_ctx", "llama_server_image_max_tokens"}
           S == AdvertisedLlamaServer[f]
<1>1. f \in counts \cup {"llama_server_spec_type", "llama_server_spec_draft_n_max",
                        "llama_server_spec_draft_p_min"}
  BY DEF AdvertisedLlamaServer
<1>2. f \in DOMAIN LlamaServerOverrides
  BY <1>1 DEF LlamaServerOverrides
<1>3. CASE f \in counts
  <2>1. S = From(1)
    BY <1>3 DEF AdvertisedLlamaServer
  <2>2. LlamaServerOverrides[f] = OrNull(From(1))
    BY <1>3 DEF LlamaServerOverrides
  <2>3. Schema[f] = OrNull(From(1))
    BY <1>3, SchemaIs
  <2> QED
    BY <1>2, <2>1, <2>2, <2>3, TakesValues
<1>4. CASE f = "llama_server_spec_type"
  <2>1. S = Clean(Words({"draft-mtp"}))
    BY <1>4 DEF AdvertisedLlamaServer
  <2>2. LlamaServerOverrides[f] = OrNull(Words({"draft-mtp"}))
    BY <1>4 DEF LlamaServerOverrides
  <2>3. Schema[f] = OrNull(Strings)
    BY <1>4, SchemaIs
  <2>4. S \subseteq Words({"draft-mtp"})
    BY <2>1, CleanFits
  <2>5. Words({"draft-mtp"}) \subseteq Strings
    BY WordsFit
  <2>6. S \subseteq Strings
    BY <2>4, <2>5
  <2> QED
    BY <1>2, <2>2, <2>3, <2>4, <2>6, TakesValues
<1>5. CASE f = "llama_server_spec_draft_n_max"
  <2>1. S = Between(1, 6)
    BY <1>5 DEF AdvertisedLlamaServer
  <2>2. LlamaServerOverrides[f] = OrNull(Between(1, 6))
    BY <1>5 DEF LlamaServerOverrides
  <2>3. Schema[f] = OrNull(Between(1, 6))
    BY <1>5, SchemaIs
  <2> QED
    BY <1>2, <2>1, <2>2, <2>3, TakesValues
<1>6. CASE f = "llama_server_spec_draft_p_min"
  <2>1. S = Fraction(0, 100)
    BY <1>6 DEF AdvertisedLlamaServer
  <2>2. LlamaServerOverrides[f] = OrNull(Fraction(0, 100))
    BY <1>6 DEF LlamaServerOverrides
  <2>3. Schema[f] = OrNull(Fraction(0, 100))
    BY <1>6, SchemaIs
  <2> QED
    BY <1>2, <2>1, <2>2, <2>3, TakesValues
<1> QED
  BY <1>1, <1>3, <1>4, <1>5, <1>6

\* What llama.cpp offers.
LEMMA LlamaCppOffers ==
  ASSUME NEW f \in DOMAIN AdvertisedLlamaCpp
  PROVE  Takes(f, AdvertisedLlamaCpp[f], LlamaCppOverrides)
<1> DEFINE types == {"gguf_type_k", "gguf_type_v"}
           S == AdvertisedLlamaCpp[f]
<1>1. f \in types \cup {"gguf_n_ctx", "gguf_flash_attn"}
  BY DEF AdvertisedLlamaCpp
<1>2. f \in DOMAIN LlamaCppOverrides
  BY <1>1 DEF LlamaCppOverrides
<1>3. CASE f \in types
  <2>1. S = OrNull(Clean(Words(GgufTypes)))
    BY <1>3 DEF AdvertisedLlamaCpp
  <2>2. LlamaCppOverrides[f] = OrNull(Words(GgufTypes))
    BY <1>3 DEF LlamaCppOverrides
  <2>3. Schema[f] = OrNull(Strings)
    BY <1>3, SchemaIs
  <2>4. Clean(Words(GgufTypes)) \subseteq Words(GgufTypes)
    BY CleanFits
  <2>5. Words(GgufTypes) \subseteq Strings
    BY WordsFit
  <2>6. Clean(Words(GgufTypes)) \subseteq Strings
    BY <2>4, <2>5
  <2> QED
    BY <1>2, <2>1, <2>2, <2>3, <2>4, <2>6, TakesNull
<1>4. CASE f = "gguf_n_ctx"
  <2>1. S = From(1)
    BY <1>4 DEF AdvertisedLlamaCpp
  <2>2. LlamaCppOverrides[f] = Whole
    BY <1>4 DEF LlamaCppOverrides
  <2>3. Schema[f] = OrNull(From(1))
    BY <1>4, SchemaIs
  <2>4. From(1) \subseteq Whole
    BY NumbersFit
  <2> QED
    BY <1>2, <2>1, <2>2, <2>3, <2>4, TakesValues
<1>5. CASE f = "gguf_flash_attn"
  <2>1. S = Clean(Words(FlashModes))
    BY <1>5 DEF AdvertisedLlamaCpp
  <2>2. LlamaCppOverrides[f] = Words(FlashModes)
    BY <1>5 DEF LlamaCppOverrides
  <2>3. Schema[f] = OrNull(Strings)
    BY <1>5, SchemaIs
  <2>4. S \subseteq Words(FlashModes)
    BY <2>1, CleanFits
  <2>5. Words(FlashModes) \subseteq Strings
    BY WordsFit
  <2>6. S \subseteq Strings
    BY <2>4, <2>5
  <2> QED
    BY <1>2, <2>2, <2>3, <2>4, <2>6, TakesValues
<1> QED
  BY <1>1, <1>3, <1>4, <1>5

\* What exllamav3 offers, beside the bits of the two caches.
LEMMA Exllamav3Offers ==
  ASSUME NEW f \in DOMAIN AdvertisedExllamav3 \ CacheBits
  PROVE  Takes(f, AdvertisedExllamav3[f], Exllamav3Overrides)
<1> DEFINE S == AdvertisedExllamav3[f]
           all == {v \in Values : Is(v, "bits")}
<1>1. f \in {"exllama_cache_size", "exllama_max_rq_tokens", "exllama_cache_quant"}
  BY DEF AdvertisedExllamav3, CacheBits
<1>2. f \in DOMAIN Exllamav3Overrides
  BY <1>1 DEF Exllamav3Overrides
<1>3. CASE f = "exllama_cache_size"
  <2>1. S = Every(256)
    BY <1>3 DEF AdvertisedExllamav3
  <2>2. Exllamav3Overrides[f] = Every(256)
    BY <1>3 DEF Exllamav3Overrides
  <2>3. Schema[f] = OrNull(From(256))
    BY <1>3, SchemaIs
  <2>4. Every(256) \subseteq From(256)
    BY EveryFits
  <2> QED
    BY <1>2, <2>1, <2>2, <2>3, <2>4, TakesValues
<1>4. CASE f = "exllama_max_rq_tokens"
  <2>1. S = From(1)
    BY <1>4 DEF AdvertisedExllamav3
  <2>2. Exllamav3Overrides[f] = OrNull(Whole)
    BY <1>4 DEF Exllamav3Overrides
  <2>3. Schema[f] = OrNull(From(1))
    BY <1>4, SchemaIs
  <2>4. From(1) \subseteq Whole
    BY NumbersFit
  <2> QED
    BY <1>2, <2>1, <2>2, <2>3, <2>4, TakesValues
<1>5. CASE f = "exllama_cache_quant"
  <2>1. S = OrNull(all)
    BY <1>5 DEF AdvertisedExllamav3
  <2>2. Exllamav3Overrides[f] = OrNull(Quants)
    BY <1>5 DEF Exllamav3Overrides
  <2>3. Schema[f] = OrNull(Strings)
    BY <1>5, SchemaIs
  <2>4. all \subseteq Strings
    BY BitsFit
  <2>5. all \subseteq Quants
    BY BitsFit
  <2> HIDE DEF all
  <2> QED
    BY <1>2, <2>1, <2>2, <2>3, <2>4, <2>5, TakesNull
<1> QED
  BY <1>1, <1>3, <1>4, <1>5

\* What a backend offers beside the limit and the bits of the two caches, and what it
\* offers for those.
LEMMA BackendOffers ==
  ASSUME NEW b \in Backends, NEW f \in DOMAIN Advertised[b]
  PROVE  /\ f \in CacheBits => b = "exllamav3" /\ Advertised[b][f] = OrNull(Between(2, 8))
         /\ f \notin CacheBits => Takes(f, Advertised[b][f], Overrides[b])
         /\ f = "gguf_flash_attn" => Advertised[b][f] = Clean(Words(FlashModes))
<1> DEFINE Pair(A, O) ==
               \/ A = AdvertisedLlamaCpp /\ O = LlamaCppOverrides
               \/ b = "exllamav3" /\ A = AdvertisedExllamav3 /\ O = Exllamav3Overrides
               \/ A = AdvertisedVllm /\ O = VllmOverrides
               \/ A = AdvertisedTrtllm /\ O = TrtllmOverrides
               \/ A = AdvertisedSglang /\ O = SglangOverrides
               \/ A = AdvertisedLlamaServer /\ O = LlamaServerOverrides
               \/ A = <<>> /\ O = <<>>
           limit == IF b \in Parallel THEN [target_inflight |-> From(1)] ELSE <<>>
<1>1. PICK A, O : Advertised[b] = limit ++ A /\ Overrides[b] = limit ++ O /\ Pair(A, O)
  BY DEF Advertised, Overrides
<1>2. DOMAIN <<>> = {}
  BY EmptySeq
<1>3. \A x \in DOMAIN limit : x = "target_inflight" /\ limit[x] = From(1)
  BY <1>2
<1> HIDE DEF limit
<1>4. /\ DOMAIN (limit ++ A) = DOMAIN limit \cup DOMAIN A
      /\ DOMAIN (limit ++ O) = DOMAIN limit \cup DOMAIN O
  BY OverDomain
<1>5. /\ \A x \in CacheBits \cup {"gguf_flash_attn"} :
            /\ x \notin DOMAIN AdvertisedVllm
            /\ x \notin DOMAIN AdvertisedSglang
      /\ "target_inflight" \notin CacheBits
  BY DEF AdvertisedVllm, AdvertisedSglang, CacheBits, ++
<1>6. \A x \in CacheBits \cup {"gguf_flash_attn"} :
            /\ x \notin DOMAIN AdvertisedTrtllm
            /\ x \notin DOMAIN AdvertisedLlamaServer
  BY DEF AdvertisedTrtllm, AdvertisedLlamaServer, CacheBits
<1>7. /\ \A x \in CacheBits : x \notin DOMAIN AdvertisedLlamaCpp
      /\ AdvertisedLlamaCpp.gguf_flash_attn = Clean(Words(FlashModes))
      /\ "gguf_flash_attn" \notin DOMAIN AdvertisedExllamav3
      /\ \A x \in CacheBits : AdvertisedExllamav3[x] = OrNull(Between(2, 8))
  BY DEF AdvertisedLlamaCpp, AdvertisedExllamav3, CacheBits
<1>8. CASE f \in DOMAIN limit
  <2>1. f = "target_inflight" /\ limit[f] = From(1)
    BY <1>3, <1>8
  <2>2. (limit ++ A)[f] = limit[f]
    BY <1>8, OverIs
  <2>3. (limit ++ O)[f] = limit[f]
    BY <1>8, OverIs
  <2>4. Schema[f] = OrNull(From(1))
    BY <2>1, SchemaIs
  <2>5. Advertised[b][f] = From(1) /\ Overrides[b][f] = From(1) /\ f \in DOMAIN Overrides[b]
    BY <1>1, <1>4, <1>8, <2>1, <2>2, <2>3
  <2>6. Takes(f, Advertised[b][f], Overrides[b])
    BY <2>4, <2>5, TakesValues
  <2> QED
    BY <1>5, <2>1, <2>6
<1>9. CASE f \notin DOMAIN limit
  <2>1. f \in DOMAIN A
    BY <1>1, <1>4, <1>9
  <2>2. (limit ++ A)[f] = A[f]
    BY <1>9, <2>1, OverIs
  <2>3. f \in DOMAIN O => (limit ++ O)[f] = O[f]
    BY <1>9, OverIs
  <2>4. f \notin CacheBits => Takes(f, A[f], O)
    BY <1>1, <1>2, <2>1, LlamaCppOffers, Exllamav3Offers, VllmOffers, TrtllmOffers, SglangOffers,
       LlamaServerOffers
  <2>5. f \notin CacheBits => Takes(f, Advertised[b][f], Overrides[b])
    BY <1>1, <1>4, <2>2, <2>3, <2>4 DEF Takes
  <2>6. f \in CacheBits => b = "exllamav3" /\ A[f] = OrNull(Between(2, 8))
    BY <1>1, <1>2, <1>5, <1>6, <1>7, <2>1
  <2>7. f = "gguf_flash_attn" => A[f] = Clean(Words(FlashModes))
    BY <1>1, <1>2, <1>5, <1>6, <1>7, <2>1
  <2> QED
    BY <1>1, <2>2, <2>5, <2>6, <2>7
<1> QED
  BY <1>8, <1>9

\* An offer has some of the advertised fields, each with an advertised value.
LEMMA OfferIs ==
  ASSUME NEW b \in Backends, NEW asked \in Offered[b]
  PROVE  /\ DOMAIN asked \subseteq DOMAIN Advertised[b]
         /\ \A f \in DOMAIN asked : asked[f] \in Advertised[b][f]
         /\ asked = [f \in DOMAIN asked |-> asked[f]]
<1> DEFINE Table == Advertised[b]
<1>1. PICK S : asked \in Bodies(S, Table)
  BY DEF Offered
<1> HIDE DEF Table
<1>2. PICK T \in SUBSET (S \cap DOMAIN Table) :
        /\ asked \in [T -> UNION {Table[f] : f \in T}]
        /\ \A f \in T : asked[f] \in Table[f]
  BY <1>1 DEF Bodies
<1>3. DOMAIN asked = T /\ asked = [f \in DOMAIN asked |-> asked[f]]
  BY <1>2
<1> QED
  BY <1>2, <1>3 DEF Table

\* Without the bits of the caches the override is what was asked for.
LEMMA PlainPayload ==
  ASSUME NEW asked, asked = [f \in DOMAIN asked |-> asked[f]], CacheBits \cap DOMAIN asked = {},
         "gguf_flash_attn" \in DOMAIN asked => Normal(asked.gguf_flash_attn) = asked.gguf_flash_attn
  PROVE  Payload(asked) = asked
<1> DEFINE kept == [f \in DOMAIN asked \ CacheBits |->
                       IF f = "gguf_flash_attn" THEN Normal(asked[f]) ELSE asked[f]]
<1>1. ~(CacheBits \subseteq DOMAIN asked)
  BY DEF CacheBits
<1>2. Payload(asked) = kept
  BY <1>1 DEF Payload
<1>3. DOMAIN kept = DOMAIN asked
  OBVIOUS
<1>4. \A f \in DOMAIN asked : kept[f] = asked[f]
  OBVIOUS
<1>5. kept = [f \in DOMAIN kept |-> kept[f]]
  OBVIOUS
<1> HIDE DEF kept
<1> QED
  BY <1>2, <1>3, <1>4, <1>5

\* A value that is offered is taken, a chunk of 0 apart.
LEMMA OfferTaken ==
  ASSUME NEW b \in Backends, NEW asked \in Offered[b], NEW f \in DOMAIN asked \ CacheBits
  PROVE  /\ asked[f] \in Schema[f]
         /\ f \in DOMAIN Overrides[b]
         /\ asked[f] \in Overrides[b][f] \/ Of(asked, "sglang_chunked_prefill_size") = Integer(0)
         /\ f = "gguf_flash_attn" => asked[f] \in Words(FlashModes) /\ Normal(asked[f]) = asked[f]
<1>1. f \in DOMAIN Advertised[b] /\ asked[f] \in Advertised[b][f]
  BY OfferIs
<1>2. Takes(f, Advertised[b][f], Overrides[b])
  BY <1>1, BackendOffers
<1>3. f = "gguf_flash_attn" => Advertised[b][f] = Clean(Words(FlashModes))
  BY <1>1, BackendOffers
<1>4. f = "gguf_flash_attn" => asked[f] \in Words(FlashModes) /\ Normal(asked[f]) = asked[f]
  BY <1>1, <1>3 DEF Clean, Normal
<1>5. \/ asked[f] \in Overrides[b][f]
      \/ f = "sglang_chunked_prefill_size" /\ asked[f] = Integer(0)
  BY <1>1, <1>2 DEF Takes
<1> QED
  BY <1>1, <1>2, <1>4, <1>5 DEF Takes, Of

\* One of the two bits alone is refused.
LEMMA BitsTogether ==
  ASSUME NEW asked, CacheBits \cap DOMAIN asked # {}, ~PayloadRefused(asked)
  PROVE  CacheBits \subseteq DOMAIN asked
<1> DEFINE bits == CacheBits \cap DOMAIN asked
           k == "exllama_cache_k_bits"
           v == "exllama_cache_v_bits"
<1>1. Cardinality(bits) # 1
  BY DEF PayloadRefused
<1>2. \A x : Cardinality({x}) = 1
  BY FS_Singleton
<1>3. bits # {k} /\ bits # {v}
  BY <1>1, <1>2
<1>4. CacheBits = {k, v}
  BY DEF CacheBits
<1> QED
  BY <1>3, <1>4

\* An offer that is not refused for the bits of the caches becomes an override that
\* the router accepts.
LEMMA OfferAccepted ==
  ASSUME model \in Models, NEW asked \in Offered[backend]
  PROVE  \/ /\ \A f \in DOMAIN asked : asked[f] \in Schema[f]
            /\ ~PayloadRefused(asked)
            /\ OverrideAccepted(Payload(asked))
         \/ Of(asked, "sglang_chunked_prefill_size") = Integer(0)
         \/ /\ "sglang_speculative_num_draft_tokens" \in DOMAIN asked
            /\ DraftTokensFixed(Replaced(asked))
         \/ CacheBits \cap DOMAIN asked # {} /\ PayloadRefused(asked)
<1> DEFINE bits == CacheBits \cap DOMAIN asked
           p == Payload(asked)
           d == "sglang_speculative_num_draft_tokens"
           k == "exllama_cache_k_bits"
           v == "exllama_cache_v_bits"
           quant == "exllama_cache_quant"
<1> SUFFICES ASSUME Of(asked, "sglang_chunked_prefill_size") # Integer(0),
                    ~(d \in DOMAIN asked /\ DraftTokensFixed(Replaced(asked))),
                    bits = {} \/ ~PayloadRefused(asked)
             PROVE  /\ \A f \in DOMAIN asked : asked[f] \in Schema[f]
                    /\ ~PayloadRefused(asked)
                    /\ OverrideAccepted(p)
  OBVIOUS
<1>1. backend \in Backends
  BY ModelsAssumption DEF backend
<1>2. \A f \in DOMAIN asked \ CacheBits :
         /\ asked[f] \in Schema[f]
         /\ f \in DOMAIN Overrides[backend]
         /\ asked[f] \in Overrides[backend][f]
         /\ f = "gguf_flash_attn" => asked[f] \in Words(FlashModes) /\ Normal(asked[f]) = asked[f]
  BY <1>1, OfferTaken
<1>3. "gguf_flash_attn" \notin CacheBits
  BY DEF CacheBits
<1>4. CASE bits = {}
  <2>1. p = asked
    BY <1>1, <1>2, <1>3, <1>4, OfferIs, PlainPayload
  <2>2. Cardinality(bits) = 0
    BY <1>4, FS_EmptySet
  <2>3. ~PayloadRefused(asked)
    BY <1>2, <1>3, <1>4, <2>2 DEF PayloadRefused
  <2>4. OverrideAccepted(asked)
    BY <1>2, <1>4 DEF OverrideAccepted
  <2> QED
    BY <1>2, <1>4, <2>1, <2>3, <2>4
<1>5. CASE bits # {}
  <2>1. ~PayloadRefused(asked) /\ CacheBits \subseteq DOMAIN asked
    BY <1>5, BitsTogether
  <2>2. k \in CacheBits /\ v \in CacheBits /\ CacheBits = {k, v}
    BY DEF CacheBits
  <2>3. backend = "exllamav3"
    BY <1>1, <2>1, <2>2, OfferIs, BackendOffers
  <2>4. \A f \in CacheBits : asked[f] \in OrNull(Between(2, 8))
    BY <1>1, <2>1, OfferIs, BackendOffers
  <2>5. \A f \in CacheBits : asked[f] \in Schema[f]
    BY <2>4, SchemaIs
  <2>6. asked[k] # Null => asked[v] # Null
    BY <2>1, <2>2 DEF PayloadRefused
  <2> DEFINE q == IF asked.exllama_cache_k_bits = Null THEN Null
                  ELSE Bits(asked.exllama_cache_k_bits.int, asked.exllama_cache_v_bits.int)
             kept == [f \in DOMAIN asked \ CacheBits |->
                         IF f = "gguf_flash_attn" THEN Normal(asked[f]) ELSE asked[f]]
             table == [exllama_cache_quant |-> q]
  <2>7. q \in OrNull(Quants)
    <3>1. CASE asked[k] = Null
      BY <3>1 DEF OrNull
    <3>2. CASE asked[k] # Null
      <4>1. asked[k] \in Whole /\ asked[v] \in Whole
        BY <2>2, <2>4, <2>6, <3>2, NumbersFit DEF OrNull
      <4>2. q = Bits(asked[k].int, asked[v].int)
        BY <3>2
      <4> QED
        BY <4>1, <4>2 DEF OrNull, Quants
    <3> QED
      BY <3>1, <3>2
  <2>8. p = table ++ kept
    BY <2>1 DEF Payload
  <2>9. DOMAIN table = {quant} /\ table[quant] = q
    OBVIOUS
  <2>10. DOMAIN kept = DOMAIN asked \ CacheBits
    OBVIOUS
  <2>11. \A f \in DOMAIN kept : kept[f] = asked[f]
    BY <1>2
  <2> HIDE DEF q, kept, table, p
  <2>12. DOMAIN p = {quant} \cup (DOMAIN asked \ CacheBits)
    BY <2>8, <2>9, <2>10, OverDomain
  <2>13. p[quant] = q
    BY <2>8, <2>9, OverIs
  <2>14. \A f \in DOMAIN p : f # quant => p[f] = asked[f]
    BY <2>8, <2>9, <2>10, <2>11, <2>12, OverIs
  <2>15. quant \in DOMAIN Overrides[backend] /\ Overrides[backend][quant] = OrNull(Quants)
    <3> DEFINE O == Exllamav3Overrides
    <3>1. Overrides[backend] = <<>> ++ O
      BY <1>1, <2>3 DEF Overrides, Parallel
    <3>2. quant \in DOMAIN O /\ O[quant] = OrNull(Quants)
      BY DEF Exllamav3Overrides
    <3>3. DOMAIN <<>> = {}
      BY EmptySeq
    <3> HIDE DEF O
    <3>4. DOMAIN (<<>> ++ O) = DOMAIN <<>> \cup DOMAIN O
      BY OverDomain
    <3>5. (<<>> ++ O)[quant] = O[quant]
      BY <3>2, <3>3, OverIs
    <3> QED
      BY <3>1, <3>2, <3>4, <3>5
  <2>16. \A f \in DOMAIN p : f \in DOMAIN Overrides[backend] /\ p[f] \in Overrides[backend][f]
    BY <1>2, <2>7, <2>12, <2>13, <2>14, <2>15
  <2>17. OverrideAccepted(p)
    BY <2>3, <2>16 DEF OverrideAccepted
  <2> QED
    BY <1>2, <2>1, <2>5, <2>17
<1> QED
  BY <1>4, <1>5

\* What load_constraints offers can be loaded, in whatever state the settings have
\* left the model (AdvertisedIsAccepted).
THEOREM OfferIsAccepted == Spec => []AdvertisedIsAccepted
<1>1. LoadInv => AdvertisedIsAccepted
  BY OfferAccepted DEF LoadInv, Settled, AdvertisedIsAccepted
<1> QED
  BY <1>1, LoadInvariance, PTL

============================================================================
