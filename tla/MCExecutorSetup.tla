---------------------------- MODULE MCExecutorSetup ----------------------------
(* Configurations, calls, sinks and answers for ExecutorSetup: an engine    *)
(* with two tokens and a hidden size of two, and addresses 0 to 4 in device *)
(* memory.                                                                  *)
EXTENDS ExecutorSetup

EngineProfile ==
    [dtype |-> "f16", vocab_size |-> 2, hidden_size |-> 2, max_num_tokens |-> 4,
     max_table_size |-> 2]

Plain == NewRequest(<<0, 1>>)
Virtual == NewRequest(<<0, 3>>)
Cpu(dims, dtype) == Tensor(dims, dtype, TRUE, FALSE, "data")
Table(rows) == Tensor(<<rows, 2>>, "f16", TRUE, TRUE, "table")
Hashed(hashes) ==
    NewMultimodal(hashes, [i \in DOMAIN hashes |-> i], [i \in DOMAIN hashes |-> 1])
Until(start, end) == WithSome(With(NewRange(start), "priority", 100), "end", end)
Eagle(choices) == With(NewEagle, "choices", choices)

(* Requests that use every feature, in two groups.                          *)
Worded ==
    LET words == With(With(Plain, "bad_words", <<<<5>>, <<6, 7>>>>), "stop_words", <<<<8, 9>>>>)
        ids == WithSome(WithNumber(words, "end_id", 0), "position_ids", <<0, 1>>)
        sampled == [WithSampling(ids, "top_p", 0) EXCEPT !.sampling.beam_width_array = {<<>>}]
        pictured == WithSome(sampled, "multimodal",
                             With(Hashed(<<<<1, 2>>, <<3>>>>), "uuids", <<{"u"}, {}>>))
        biased == WithSome(WithFlag(pictured, "return_log_probs"), "bias", Cpu(<<2>>, "f32"))
    IN  WithSome(biased, "eagle", WithFlag(WithSome(Eagle(<<<<0>>, <<0, 1>>>>), "top_k", 2),
                                           "dynamic_tree"))

Structured ==
    LET ranges == <<Until(0, 2), NewRange(2)>>
        kept == WithSome(Plain, "retention", WithSome(NewRetention(ranges), "decode_duration", 0))
        draft == WithSome(WithSome(WithSome(NewDraft(<<1>>), "logits", Cpu(<<0, 2>>, "f32")),
                                   "threshold", 100), "fast_logits", TRUE)
        drafted == WithSome(WithSome(kept, "draft", draft), "encoder_tokens", <<>>)
        adapted == WithSome(WithSome(drafted, "mrope", Cpu(<<1>>, "i64")),
                            "lora", WithSome(NewLora, "weights", Cpu(<<1, 2>>, "bf16")))
        context == WithSome(WithSome(NewContextPhase(<<1>>), "draft_tokens", <<>>), "dp_rank", 0)
    IN  WithSome(WithSome(WithSome(adapted, "context", context),
                          "lookahead", NewLookahead(1, 1, 1)),
                 "guided", WithSome(NewGuidedParams("regex"), "guide", "g"))

(* Requests without a sink: each of the last is refused, or makes the shim  *)
(* throw.                                                                   *)
Requests ==
    {Worded, Structured,
     WithSome(Virtual, "prompt", Table(2)),
     WithSome(Virtual, "prompt", Table(1)),
     WithSome(WithSome(Plain, "multimodal", Hashed(<<>>)), "eagle", NewEagle),
     WithSome(Plain, "mrope", Cpu(<<0>>, "f32")),
     With(Plain, "stop_words", <<<<5>>, <<>>>>),
     WithSome(Plain, "retention", NewRetention(<<Until(0, 0)>>)),
     With(Plain, "max_new_tokens", 3),
     WithTensor(Plain, "multimodal_embedding", Cpu(<<2>>, "f64"))}

X == <<"x">>
Slot(name, dims, start) == [name |-> name, code |-> 1, dims |-> dims, start |-> start]

(* Logged and the first two of Sinks are accepted, and so are the third,    *)
(* two tensors of which go by one name, and the empty one; the others are   *)
(* refused.                                                                 *)
Paired == <<Slot(X, <<2>>, 0), Slot(ContextLogits, <<2>>, 2)>>
Logged == <<Slot(<<"logits">>, <<1>>, 0)>>
EncoderSink == <<Slot(EncoderOutput, <<2>>, 1), Slot(GenerationLogits, <<1>>, 0)>>
Sinks ==
    {Paired, EncoderSink,
     <<Slot(X, <<1>>, 0), Slot(<<"context", "x">>, <<1>>, 1)>>,
     <<Slot(X, <<3>>, 0), Slot(GenerationLogits, <<2>>, 2)>>,
     <<Slot(X, <<2>>, 1), Slot(EncoderOutput, <<2>>, 0)>>,
     <<>>, <<Slot(<<>>, <<1>>, 0)>>, <<Slot(X, <<3>>, 3)>>}

Logging == WithFlag(WithFlag(Plain, "return_context_logits"), "return_generation_logits")

AllCalls ==
    {[request |-> r, sink |-> {}] : r \in Requests}
    \cup {[request |-> Plain, sink |-> {s}] : s \in Sinks}
    \cup {[request |-> Logging, sink |-> {Logged}]}

(* Answers: lists of beams, additional outputs, and logits by name.         *)
Lists(tokens, cum, log) == [token_ids |-> tokens, cum_log_probs |-> cum, log_probs |-> log]
NoLogits == [n \in ToSet(LogitNames) |-> {}]
Result(lists, additional, logits) ==
    [error |-> FALSE, is_final |-> TRUE, lists |-> lists, additional |-> additional,
     logits |-> logits]
Partial(result) == [result EXCEPT !.is_final = FALSE]
Value(dims, v) == [code |-> 1, dims |-> dims, value |-> v]
Output(name, tensor) == [name |-> name, tensor |-> tensor]

Plainly == Result(Lists(<<<<5, 6>>>>, <<>>, <<>>), <<>>, NoLogits)
Failed == [Plainly EXCEPT !.error = TRUE]

Beams == Lists(<<<<5>>, <<6, 7>>>>, <<<<1, 2>>>>, <<<<1>>, <<2, 3>>>>)
OneBeam == Lists(<<<<5>>>>, <<>>, <<<<9>>>>)
Both == <<Output(<<"context", "x">>, Value(<<2>>, <<1, 2>>)),
          Output(<<"generation", "x">>, Value(<<2>>, <<3, 4>>)),
          Output(<<"context", "y">>, Value(<<1>>, <<5>>))>>

(* The logits that a request asks for                                       *)
LogitsFor(r) ==
    [NoLogits EXCEPT
        ![ContextLogits] =
            IF "return_context_logits" \in r.flags
            THEN {Value(IF "return_generation_logits" \in r.flags THEN <<1>> ELSE <<2>>, <<6>>)}
            ELSE {},
        ![GenerationLogits] =
            IF "return_generation_logits" \in r.flags THEN {Value(<<1>>, <<7>>)} ELSE {},
        ![EncoderOutput] =
            IF "return_encoder_output" \in r.flags THEN {Value(<<2>>, <<8>>)} ELSE {}]

(* Whole answers; a response that does not fit the sink, or is an error,    *)
(* after one that was copied; and a tensor of a type that has no size.      *)
Batches(r, option) ==
    IF option = {} THEN {<<Plainly>>, <<Result(Beams, <<>>, NoLogits)>>}
    ELSE IF ~Contains(r.outputs, X)
    THEN LET logits == LogitsFor(r)
         IN  {<<Result(OneBeam, <<>>, logits)>>}
             \cup {<<Result(OneBeam, <<>>,
                            [logits EXCEPT ![EncoderOutput] = {[t EXCEPT !.dims = <<1>>]}])>> :
                       t \in logits[EncoderOutput]}
    ELSE LET logits == LogitsFor(r)
             fits == Partial(Result(OneBeam, Both, logits))
             unfit == <<Output(<<"context", "y">>, Value(<<1>>, <<5>>)),
                        Output(<<"context", "x">>, Value(<<1>>, <<1>>))>>
         IN  {<<Result(Beams, Both, logits)>>,
              <<fits, Result(OneBeam, Both, NoLogits)>>,
              <<fits, Failed>>,
              <<fits, Result(OneBeam, unfit, logits)>>,
              <<Result(OneBeam, Both, logits), Partial(Result(OneBeam, unfit, logits))>>,
              <<Result(OneBeam, Tail(Both), logits)>>,
              <<Result(OneBeam, <<Head(Both), [Both[3] EXCEPT !.tensor.code = 0]>>, logits)>>}

(* Configurations: Engine gives EngineProfile.  The first ones are accepted *)
(* by the shim, the next make it throw, the last are refused.               *)
Engine ==
    [pretrained |-> {[dtype |-> {"float16"}, vocab_size |-> {2}, hidden_size |-> {2}]},
     max_batch_size |-> 3, max_num_tokens |-> 4, max_table_size |-> 2,
     outputs |-> <<X, <<"logits">>>>]

Setup(builder, eagle, engine) == [builder |-> builder, eagle |-> eagle, engine |-> engine]
Set(of, to) == [of |-> of, to |-> to]

Windowed ==
    [NewBuilder EXCEPT
        !.own.options["max_num_tokens"] = {2}, !.own.flags = {"chunked_context"},
        !.kv_cache.lists["max_attention_window"] = <<8>>,
        !.runtime_defaults = {[NewRuntimeDefaults EXCEPT
            !.lists["max_attention_window"] = <<9>>, !.options["sink_token_length"] = {1}]},
        !.dynamic_batch = {[NewDynamicBatch EXCEPT !.table = <<<<1, 2>>>>]},
        !.parallel = {[NewParallel EXCEPT !.rest.lists["device_ids"] = <<0, 1>>,
                                          !.orchestrator = {NewOrchestrator}]},
        !.peft_cache = {NewPeftCache},
        !.guided = {[NewGuided(1) EXCEPT !.vocab = <<<<"a">>, <<"b">>>>]},
        !.speculative = {NewSpeculative}, !.cache_transceiver = {NewCacheTransceiver}]

Drafting ==
    [NewBuilder EXCEPT
        !.own.options["max_queue_size"] = {0},
        !.kv_cache.options["sink_token_length"] = {3},
        !.runtime_defaults = {[NewRuntimeDefaults EXCEPT !.options["sink_token_length"] = {1}]},
        !.dynamic_batch = {NewDynamicBatch},
        !.decoding = {[NewDecoding EXCEPT !.mode = {9}, !.medusa_choices = <<<<0>>, <<0, 1>>>>]}]

Drafted(choices) == [NewBuilder EXCEPT !.decoding = {[NewDecoding EXCEPT !.medusa_choices = choices]}]

Eagles ==
    {<<>>, <<Set("off", "greedy_sampling")>>, <<Set("choices", <<>>), Set("threshold", 50)>>,
     <<Set("choices", <<<<0>>>>), Set("top_k", 2), Set("choices", <<<<0>>, <<1, 0>>>>)>>}

AllSetups ==
    {Setup(NewBuilder, <<>>, Engine), Setup(Windowed, <<>>, Engine)}
    \cup {Setup(Drafting, eagle, Engine) : eagle \in Eagles}
    \cup {Setup(Drafted(<<<<0>>, <<>>>>), <<>>, Engine), Setup(Drafted(<<<<>>>>), <<>>, Engine),
          Setup(Drafted(<<>>), <<Set("choices", <<<<>>>>)>>, Engine),
          Setup([NewBuilder EXCEPT !.guided = {[NewGuided(0) EXCEPT !.vocab = <<<<>>>>]}], <<>>,
                Engine)}
    \cup {Setup([NewBuilder EXCEPT !.own.values["max_beam_width"] = 0], <<>>, Engine),
          Setup([NewBuilder EXCEPT !.own.options["max_batch_size"] = {0}], <<>>, Engine),
          Setup(NewBuilder, <<>>, [Engine EXCEPT !.max_batch_size = 5]),
          Setup(NewBuilder, <<>>, [Engine EXCEPT !.pretrained = {}])}

(* Answers name additional outputs as the backend does.                     *)
ASSUME AnswersNamed == BackendNames

Symmetry == Permutations(Threads) \cup Permutations(Buffers)
===============================================================================
