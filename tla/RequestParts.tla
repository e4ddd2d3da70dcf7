---------------------------- MODULE RequestParts ----------------------------
(***************************************************************************)
(* A Request of tensorrt_llm and its parts, as their constructors leave    *)
(* them and as their setters change them (src/tensorrt_llm/src/request.rs, *)
(* sampling.rs).                                                           *)
(*                                                                         *)
(* An Option is a set of at most one element.  Tokens and other numbers    *)
(* are integers, real ones in hundredths; names, strings and the content   *)
(* of a tensor are model values.  Of the fields that are handed through    *)
(* unchecked, identifiers, endpoints and transfer modes are left out.      *)
(***************************************************************************)
EXTENDS TensorTypes

(* Fields of Request that are an optional number, a flag, or an optional    *)
(* tensor passed on as it is.                                               *)
NumberFields == {"end_id", "pad_id", "client_id", "priority", "encoder_output_length",
                 "language_adapter_uid", "allotted_time_ms", "cache_salt_id",
                 "disagg_request_id"}

TensorFields == {"multimodal_embedding", "encoder_input_features", "cross_attention_mask",
                 "skip_cross_attn_blocks"}

FlagFields == {"return_log_probs", "return_context_logits", "return_generation_logits",
               "exclude_input_from_output", "return_encoder_output",
               "return_all_generated_tokens"}

(* Optional fields of SamplingConfig; the real ones must be finite.         *)
RealSampling == {"top_p", "top_p_min", "top_p_decay", "temperature",
                 "beam_search_diversity_rate", "repetition_penalty", "presence_penalty",
                 "frequency_penalty", "length_penalty", "min_p"}

SamplingFields == RealSampling \cup
    {"top_k", "top_p_reset_ids", "seed", "min_tokens", "prompt_ignore_length",
     "early_stopping", "no_repeat_ngram_size", "num_return_sequences"}

(* Request::new, of the tokens.                                             *)
NewRequest(tokens) ==
    [tokens |-> tokens, max_new_tokens |-> 1,
     numbers |-> [f \in NumberFields |-> {}],
     tensors |-> [f \in TensorFields |-> {}],
     flags |-> {},
     sampling |-> [beam_width |-> 1, numbers |-> [f \in SamplingFields |-> {}],
                   beam_width_array |-> {}],
     prompt |-> {}, extra_ids |-> {}, position_ids |-> {}, bias |-> {},
     bad_words |-> <<>>, stop_words |-> <<>>, encoder_tokens |-> {},
     draft |-> {}, multimodal |-> {}, mrope |-> {}, lora |-> {}, lookahead |-> {},
     retention |-> {}, context |-> {}, eagle |-> {}, guided |-> {}, outputs |-> <<>>]

(* ExternalDraftTokensConfig::new                                          *)
NewDraft(tokens) == [tokens |-> tokens, logits |-> {}, threshold |-> {}, fast_logits |-> {}]

(* MultimodalInput::new; a UUID is an option.                              *)
NewMultimodal(hashes, positions, lengths) ==
    [hashes |-> hashes, positions |-> positions, lengths |-> lengths, uuids |-> <<>>]

(* LoraConfig::new; both are tensors.                                      *)
NewLora == [weights |-> {}, config |-> {}]

(* LookaheadConfig::new                                                    *)
NewLookahead(window, ngram, verification) ==
    [window |-> window, ngram |-> ngram, verification |-> verification]

(* KvCacheRetentionConfig::{MIN,MAX,DEFAULT}_RETENTION_PRIORITY            *)
RetentionPriorities == 0 .. 100

DefaultPriority == 35

(* KvCacheTokenRangeRetentionConfig::new: from a token to the end.         *)
NewRange(start) == [start |-> start, end |-> {}, priority |-> DefaultPriority, duration |-> {}]

(* KvCacheRetentionConfig::new                                             *)
NewRetention(ranges) ==
    [ranges |-> ranges, decode_priority |-> DefaultPriority, decode_duration |-> {}]

(* ContextPhaseParams::new                                                 *)
NewContextPhase(tokens) == [first_tokens |-> tokens, draft_tokens |-> {}, dp_rank |-> {}]

(* EagleConfig::new; its flags are greedy_sampling and use_dynamic_tree.   *)
NewEagle == [choices |-> <<>>, flags |-> {"greedy"}, threshold |-> {}, top_k |-> {}]

(* GuidedDecodingParams::new, of a GuidedDecodingType.                     *)
NewGuidedParams(type) == [type |-> type, guide |-> {}]

(* The setters of a part, or of a request: a field, a field that is an     *)
(* option, a flag, an optional number, a tensor, an option of the sampling.*)
With(part, field, value) == [part EXCEPT ![field] = value]

WithSome(part, field, value) == [part EXCEPT ![field] = {value}]

WithFlag(part, flag) == [part EXCEPT !.flags = @ \cup {flag}]

WithNumber(r, field, value) == [r EXCEPT !.numbers[field] = {value}]

WithTensor(r, field, tensor) == [r EXCEPT !.tensors[field] = {tensor}]

WithSampling(r, field, value) == [r EXCEPT !.sampling.numbers[field] = {value}]

(* A tensor of the caller: dimensions, dtype, layout, memory and content.   *)
Tensor(dims, dtype, contiguous, gpu, value) ==
    [dims |-> dims, dtype |-> dtype, contiguous |-> contiguous, gpu |-> gpu, value |-> value]

ByteLen(t) == Product(t.dims) * DtypeBytes[t.dtype]

-----------------------------------------------------------------------------
(* What the types of a request make sure of: the fields of a structure,     *)
(* options that are options and lists that are lists.                       *)

LikeNew(part, new) == part = [f \in DOMAIN new |-> part[f]]

IsWords(words) == words \in Seq(Seq(Int))

IsTensor(option) == IsOption(option) /\ \A t \in option : t.dims \in Seq(Nat)

DraftTyped(d) ==
    /\ LikeNew(d, NewDraft(<<>>))
    /\ IsTensor(d.logits) /\ IsOption(d.threshold) /\ IsOption(d.fast_logits)

MultimodalTyped(m) ==
    LikeNew(m, NewMultimodal(<<>>, <<>>, <<>>)) /\ IsWords(m.hashes) /\ IsList(m.uuids)

LoraTyped(l) == LikeNew(l, NewLora) /\ IsTensor(l.weights) /\ IsTensor(l.config)

RetentionTyped(k) ==
    LikeNew(k, NewRetention(<<>>)) /\ IsList(k.ranges) /\ IsOption(k.decode_duration)

ContextTyped(c) ==
    LikeNew(c, NewContextPhase(<<>>)) /\ IsOption(c.draft_tokens) /\ IsOption(c.dp_rank)

EagleTyped(e) ==
    LikeNew(e, NewEagle) /\ IsWords(e.choices) /\ IsOption(e.threshold) /\ IsOption(e.top_k)

SamplingTyped(s) ==
    LET new == NewRequest(<<>>).sampling
    IN  /\ LikeNew(s, new) /\ LikeNew(s.numbers, new.numbers)
        /\ \A f \in SamplingFields : IsOption(s.numbers[f])
        /\ IsOption(s.beam_width_array)

RequestTyped(r) ==
    LET new == NewRequest(<<>>)
    IN  /\ LikeNew(r, new) /\ LikeNew(r.numbers, new.numbers) /\ LikeNew(r.tensors, new.tensors)
        /\ r.tokens \in Seq(Int)
        /\ \A f \in NumberFields : IsOption(r.numbers[f])
        /\ \A f \in TensorFields : IsTensor(r.tensors[f])
        /\ SamplingTyped(r.sampling)
        /\ IsTensor(r.prompt) /\ IsTensor(r.bias) /\ IsTensor(r.mrope)
        /\ \A f \in {"extra_ids", "position_ids", "encoder_tokens", "draft", "multimodal", "lora",
                     "lookahead", "retention", "context", "eagle", "guided"} : IsOption(r[f])
        /\ IsWords(r.bad_words) /\ IsWords(r.stop_words) /\ IsList(r.outputs)
        /\ \A d \in r.draft : DraftTyped(d)
        /\ \A m \in r.multimodal : MultimodalTyped(m)
        /\ \A l \in r.lora : LoraTyped(l)
        /\ \A k \in r.retention : RetentionTyped(k)
        /\ \A c \in r.context : ContextTyped(c)
        /\ \A e \in r.eagle : EagleTyped(e)
=============================================================================
