----------------------------- MODULE BuilderWire -----------------------------
(***************************************************************************)
(* The configuration of a TensorRT-LLM executor on its way to the shim:    *)
(* what the caller sets (src/tensorrt_llm/src/builder.rs), what comes from *)
(* the engine (config.rs), sys::ExecutorConfig, and what executor_config   *)
(* of the shim reads (tensorrt_llm_executor.cpp).                          *)
(*                                                                         *)
(* A part of it has values (numbers, enumerations by their code), flags    *)
(* (the set of those that are on), options and lists of integers.          *)
(***************************************************************************)
EXTENDS RequestWire

Part(values, flags, options, lists) ==
    [values |-> values, flags |-> flags, options |-> [o \in options |-> {}],
     lists |-> [l \in lists |-> <<>>]]

-----------------------------------------------------------------------------
(* Defaults.  The setters replace a field.                                  *)

NoValues == [v \in {} |-> 0]

NewScheduler == Part([policy |-> 1], {}, {"context_chunking_policy"}, {})

NewDynamicBatch ==
    [table |-> <<>>, rest |-> Part([moving_average_window |-> 128], {}, {}, {})]

NewKvCache ==
    Part([event_buffer_max_size |-> 0, attention_dp_events_gather_period_ms |-> 5,
          max_gpu_total_bytes |-> 0],
         {"enable_block_reuse", "enable_partial_reuse", "copy_on_partial_reuse"},
         {"max_tokens", "sink_token_length", "free_gpu_memory_fraction", "host_cache_size",
          "cross_kv_cache_fraction", "secondary_offload_min_priority"},
         {"max_attention_window"})

NewRuntimeDefaults == Part(NoValues, {}, {"sink_token_length"}, {"max_attention_window"})

NewParallel ==
    [orchestrator |-> {},
     rest |-> Part([communication_type |-> 0, communication_mode |-> 0], {}, {"num_nodes"},
                   {"device_ids", "participant_ids"})]

NewOrchestrator ==
    Part(NoValues, {"is_orchestrator", "spawn_processes"}, {"worker_executable_path"}, {})

NewPeftCache ==
    Part([num_host_module_layer |-> 0, num_device_module_layer |-> 0,
          optimal_adapter_size |-> 8, max_adapter_size |-> 64, num_put_workers |-> 1,
          num_ensure_workers |-> 1, num_copy_streams |-> 1,
          max_pages_per_block_host |-> 24, max_pages_per_block_device |-> 8],
         {}, {"device_cache_percent", "host_cache_size", "lora_prefetch_dir"}, {})

NewDecoding ==
    [mode |-> {}, lookahead |-> {}, medusa_choices |-> <<>>, eagle_enabled |-> FALSE,
     eagle_choices |-> <<>>,
     eagle |-> Part(NoValues, {"greedy_sampling"}, {"threshold", "top_k"}, {})]

NewPerformance == Part([cuda_graph_cache_size |-> 0], {"multi_block_mode"}, {}, {})

NewSpeculative == Part(NoValues, {}, {}, {})

NewGuided(backend) ==
    [vocab |-> <<>>, rest |-> Part([backend |-> backend], {}, {"tokenizer_str"},
                                   {"stop_token_ids"})]

NewCacheTransceiver ==
    Part(NoValues, {}, {"backend_type", "max_tokens_in_buffer", "kv_transfer_timeout_ms",
                        "kv_transfer_sender_future_timeout_ms"}, {})

(* ExecutorBuilder::new                                                     *)
NewBuilder ==
    [own |-> Part([max_beam_width |-> 1, batching_type |-> 1, gpu_weights_percent |-> 100,
                   recv_poll_period_ms |-> 0, max_seq_idle_microseconds |-> 180000000],
                  {}, {"max_batch_size", "max_num_tokens", "max_queue_size"}, {}),
     scheduler |-> NewScheduler, dynamic_batch |-> {},
     kv_cache |-> NewKvCache, runtime_defaults |-> {},
     parallel |-> {}, peft_cache |-> {}, decoding |-> {},
     performance |-> NewPerformance, speculative |-> {}, guided |-> {},
     cache_transceiver |-> {}, outputs |-> <<>>]

(* Mutant of SetEagle: only the setter of the choices enables it.           *)
SetEagleOptions(d, setting) ==
    CASE setting.of = "choices" -> [d EXCEPT !.eagle_enabled = TRUE, !.eagle_choices = setting.to]
      [] setting.of = "on" -> [d EXCEPT !.eagle.flags = @ \cup {setting.to}]
      [] setting.of = "off" -> [d EXCEPT !.eagle.flags = @ \ {setting.to}]
      [] OTHER -> [d EXCEPT !.eagle.options[setting.of] = {setting.to}]

(* The eagle setters of DecodingConfig: each enables it.                    *)
SetEagle(d, setting) ==
    LET enabled == [d EXCEPT !.eagle_enabled = TRUE]
    IN  CASE setting.of = "choices" -> [enabled EXCEPT !.eagle_choices = setting.to]
          [] setting.of = "on" -> [enabled EXCEPT !.eagle.flags = @ \cup {setting.to}]
          [] setting.of = "off" -> [enabled EXCEPT !.eagle.flags = @ \ {setting.to}]
          [] OTHER -> [enabled EXCEPT !.eagle.options[setting.of] = {setting.to}]

WithEagle(d, settings) == FoldLeft(SetEagle, d, settings)

-----------------------------------------------------------------------------
(* What the types of a configuration make sure of, as of a request.         *)

PartTyped(p, new) ==
    /\ LikeNew(p, new) /\ LikeNew(p.options, new.options) /\ LikeNew(p.lists, new.lists)
    /\ \A o \in DOMAIN p.options : IsOption(p.options[o])
    /\ \A l \in DOMAIN p.lists : IsList(p.lists[l])

PartsTyped(option, new) == IsOption(option) /\ \A p \in option : PartTyped(p, new)

DynamicBatchTyped(d) ==
    LikeNew(d, NewDynamicBatch) /\ IsList(d.table) /\ PartTyped(d.rest, NewDynamicBatch.rest)

ParallelTyped(p) ==
    /\ LikeNew(p, NewParallel)
    /\ PartsTyped(p.orchestrator, NewOrchestrator) /\ PartTyped(p.rest, NewParallel.rest)

DecodingTyped(d) ==
    /\ LikeNew(d, NewDecoding) /\ IsOption(d.mode) /\ IsOption(d.lookahead)
    /\ IsWords(d.medusa_choices) /\ IsWords(d.eagle_choices)
    /\ PartTyped(d.eagle, NewDecoding.eagle)

GuidedTyped(g) ==
    LikeNew(g, NewGuided(0)) /\ IsList(g.vocab) /\ PartTyped(g.rest, NewGuided(0).rest)

BuilderTyped(b) ==
    /\ LikeNew(b, NewBuilder)
    /\ \A s \in {"own", "scheduler", "kv_cache", "performance"} : PartTyped(b[s], NewBuilder[s])
    /\ PartsTyped(b.runtime_defaults, NewRuntimeDefaults)
    /\ PartsTyped(b.peft_cache, NewPeftCache) /\ PartsTyped(b.speculative, NewSpeculative)
    /\ PartsTyped(b.cache_transceiver, NewCacheTransceiver)
    /\ \A s \in {"dynamic_batch", "parallel", "decoding", "guided"} : IsOption(b[s])
    /\ \A d \in b.dynamic_batch : DynamicBatchTyped(d)
    /\ \A p \in b.parallel : ParallelTyped(p)
    /\ \A d \in b.decoding : DecodingTyped(d)
    /\ \A g \in b.guided : GuidedTyped(g)
    /\ IsList(b.outputs)

(* Of an eagle setter: its value.                                           *)
SettingTyped(setting) ==
    \/ setting.of = "choices" /\ IsWords(setting.to)
    \/ setting.of \in {"on", "off"} \cup DOMAIN NewDecoding.eagle.options

-----------------------------------------------------------------------------
(* The engine: config.json, as far as it is read, and the outputs of        *)
(* rank0.engine.                                                            *)

(* DataType::from_binding_dtype, then dtype_for_data_type: other types of   *)
(* data are refused.                                                        *)
ModelDtypes == [bfloat16 |-> "bf16", float16 |-> "f16", float32 |-> "f32"]

(* Config::from_json, ValidationProfile::new; the numbers are usize.        *)
EngineValid(e) ==
    /\ e.pretrained # {}
    /\ \A p \in e.pretrained :
           /\ \E name \in p.dtype : name \in DOMAIN ModelDtypes
           /\ p.vocab_size # {} /\ p.hidden_size # {}
    /\ e.max_batch_size > 0 /\ e.max_num_tokens > 0

ProfileOf(e) ==
    LET p == The(e.pretrained)
    IN  [dtype |-> ModelDtypes[The(p.dtype)], vocab_size |-> The(p.vocab_size),
         hidden_size |-> The(p.hidden_size), max_num_tokens |-> e.max_num_tokens,
         max_table_size |-> e.max_table_size]

(* infer_additional_outputs                                                 *)
InferredOutputs(e) == Selected(e.outputs, ToSet(e.outputs) \ {<<"logits">>})

Else(option, other) == IF option = {} THEN other ELSE option

(* Executor::from_builder: limits that were not set are those of the        *)
(* engine, and so are the outputs.                                          *)
Defaulted(b, e) ==
    [b EXCEPT !.own.options["max_batch_size"] = Else(@, {e.max_batch_size}),
              !.own.options["max_num_tokens"] = Else(@, {e.max_num_tokens}),
              !.outputs = IF @ = <<>> THEN InferredOutputs(e) ELSE @]

(* usize_to_i32 of what the engine provides; maxInt is i32::MAX.            *)
LimitsFit(b, e, maxInt) ==
    /\ b.own.options["max_batch_size"] = {} => e.max_batch_size <= maxInt
    /\ b.own.options["max_num_tokens"] = {} => e.max_num_tokens <= maxInt

(* ExecutorBuilder::validate                                                *)
BuilderValid(b) ==
    /\ b.own.values["max_beam_width"] > 0
    /\ \A o \in {"max_batch_size", "max_num_tokens"} : \A n \in b.own.options[o] : n > 0
    /\ IsFinite(b.own.values["gpu_weights_percent"])
    /\ b.own.values["gpu_weights_percent"] >= 0

-----------------------------------------------------------------------------
(* sys::ExecutorConfig, and the lists it points at.                         *)

EncodedPart(p) ==
    [values |-> p.values, flags |-> p.flags, options |-> Flags(p.options),
     lists |-> [l \in DOMAIN p.lists |-> [values |-> p.lists[l], count |-> Len(p.lists[l])]]]

NoPart == Part(NoValues, {}, {}, {})

PartSection(option) == Section(option, EncodedPart, NoPart)

(* WordListBuffer::as_sys of builder.rs: no pointer is null.                *)
ChoiceView(words) == [tokens |-> Len(words.tokens), offsets |-> Len(words.offsets)]

EncodedDecoding(d) ==
    [mode |-> Flagged(d.mode), lookahead |-> Section(d.lookahead, LAMBDA l : l, {}),
     medusa_choices |-> ChoiceView(WordBuffer(d.medusa_choices)),
     eagle |-> Section(IF d.eagle_enabled THEN {d} ELSE {},
                       LAMBDA e : [choices |-> ChoiceView(WordBuffer(e.eagle_choices)),
                                   rest |-> EncodedPart(e.eagle)], {})]

EncodedGuided(g) == [vocab |-> Len(g.vocab), rest |-> EncodedPart(g.rest)]

EncodedDynamicBatch(d) == [table |-> Len(d.table), rest |-> EncodedPart(d.rest)]

EncodedParallel(p) ==
    [orchestrator |-> PartSection(p.orchestrator), rest |-> EncodedPart(p.rest)]

(* ExecutorBuilder::sys_parts                                               *)
ConfigEncoded(b) ==
    [own |-> EncodedPart(b.own),
     scheduler |-> EncodedPart(b.scheduler),
     dynamic_batch |-> Section(b.dynamic_batch, EncodedDynamicBatch, {}),
     kv_cache |-> EncodedPart(b.kv_cache),
     runtime_defaults |-> PartSection(b.runtime_defaults),
     parallel |-> Section(b.parallel, EncodedParallel, {}),
     peft_cache |-> PartSection(b.peft_cache),
     decoding |-> Section(b.decoding, EncodedDecoding, {}),
     performance |-> EncodedPart(b.performance), speculative |-> PartSection(b.speculative),
     guided |-> Section(b.guided, EncodedGuided, {}),
     cache_transceiver |-> PartSection(b.cache_transceiver), outputs |-> Len(b.outputs)]

(* The lists that ExecutorConfigParts keeps for the call.                   *)
ConfigLists(b) ==
    LET ChoicesOf(Of(_)) ==
            IF b.decoding = {} THEN NoWords ELSE WordBuffer(Of(The(b.decoding)))
    IN  [medusa |-> ChoicesOf(LAMBDA d : d.medusa_choices),
         eagle |-> ChoicesOf(LAMBDA d : IF d.eagle_enabled THEN d.eagle_choices ELSE <<>>),
         vocab |-> IF b.guided = {} THEN <<>> ELSE The(b.guided).vocab,
         table |-> IF b.dynamic_batch = {} THEN <<>> ELSE The(b.dynamic_batch).table,
         outputs |-> b.outputs]

-----------------------------------------------------------------------------
(* executor_config of the shim.                                             *)

(* What it throws at: nested_tokens, string_list, additional_model_outputs. *)
ConfigReadable(c, lists) ==
    /\ c.decoding.has =>
           LET d == c.decoding.fields
           IN  /\ WordsReadable(d.medusa_choices, lists.medusa)
               /\ d.eagle.has => WordsReadable(d.eagle.fields.choices, lists.eagle)
    /\ c.guided.has => OutputsReadable(c.guided.fields.vocab, lists.vocab)
    /\ OutputsReadable(c.outputs, lists.outputs)

(* optional_int_list                                                        *)
ReadList(view) == NonEmpty(SubSeq(view.values, 1, view.count))

ReadPart(p) ==
    [values |-> p.values, flags |-> p.flags, options |-> GivenAll(p.options),
     lists |-> [l \in DOMAIN p.lists |-> ReadList(p.lists[l])]]

(* Mutant of FilledKvCache: the defaults win.                               *)
FilledKvCacheOver(kv, defaults) ==
    [kv EXCEPT !.lists["max_attention_window"] =
                   Else(defaults.lists["max_attention_window"], @),
               !.options["sink_token_length"] = Else(defaults.options["sink_token_length"], @)]

(* fillEmptyFieldsFromRuntimeDefaults                                       *)
FilledKvCache(kv, defaults) ==
    [kv EXCEPT !.lists["max_attention_window"] =
                   Else(@, defaults.lists["max_attention_window"]),
               !.options["sink_token_length"] = Else(@, defaults.options["sink_token_length"])]

ReadKvCache(c) ==
    LET kv == ReadPart(c.kv_cache)
    IN  IF c.runtime_defaults.has THEN FilledKvCache(kv, ReadPart(c.runtime_defaults.fields))
        ELSE kv

ReadDecoding(d, lists) ==
    [mode |-> Given(d.mode), lookahead |-> SectionOf(d.lookahead, LAMBDA l : l),
     medusa_choices |-> NonEmpty(ReadWords(d.medusa_choices, lists.medusa)),
     eagle |-> SectionOf(d.eagle,
                   LAMBDA e : [choices |-> NonEmpty(ReadWords(e.choices, lists.eagle)),
                               rest |-> ReadPart(e.rest)])]

(* An empty table of batch sizes stands for the one of the backend.         *)
ConfigRead(c, lists) ==
    LET PartOf(section) == SectionOf(section, ReadPart)
    IN  [own |-> ReadPart(c.own), scheduler |-> ReadPart(c.scheduler),
         dynamic_batch |-> SectionOf(c.dynamic_batch,
             LAMBDA d : [table |-> NonEmpty(SubSeq(lists.table, 1, d.table)),
                         rest |-> ReadPart(d.rest)]),
         kv_cache |-> ReadKvCache(c),
         parallel |-> SectionOf(c.parallel,
             LAMBDA p : [orchestrator |-> PartOf(p.orchestrator), rest |-> ReadPart(p.rest)]),
         peft_cache |-> PartOf(c.peft_cache),
         decoding |-> SectionOf(c.decoding, LAMBDA d : ReadDecoding(d, lists)),
         performance |-> ReadPart(c.performance), speculative |-> PartOf(c.speculative),
         guided |-> SectionOf(c.guided,
                        LAMBDA g : [vocab |-> SubSeq(lists.vocab, 1, g.vocab),
                                    rest |-> ReadPart(g.rest)]),
         cache_transceiver |-> PartOf(c.cache_transceiver),
         outputs |-> SubSeq(lists.outputs, 1, c.outputs)]
=============================================================================
