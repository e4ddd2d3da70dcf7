---------------------------- MODULE RequestChecks ----------------------------
(***************************************************************************)
(* What Executor::prepare_request refuses before it builds anything        *)
(* (src/tensorrt_llm/src/executor.rs, sampling.rs).  A profile is the      *)
(* ValidationProfile of the engine.                                        *)
(***************************************************************************)
EXTENDS FiniteSets, RequestParts

(* A real number that is infinite or NaN.                                   *)
NotFinite == 1000000

IsFinite(v) == v # NotFinite

SamplingValid(s) ==
    /\ s.beam_width > 0
    /\ \A f \in RealSampling : \A v \in s.numbers[f] : IsFinite(v)
    /\ \A n \in s.numbers["num_return_sequences"] : n > 0
    /\ \A a \in s.beam_width_array : \A i \in DOMAIN a : a[i] > 0

WordsValid(words) == \A i \in DOMAIN words : words[i] # <<>>

PriorityValid(p) == p \in RetentionPriorities

RangeValid(range) ==
    /\ range.start >= 0
    /\ \A e \in range.end : e > range.start
    /\ PriorityValid(range.priority)

NumbersValid(n) ==
    /\ \A p \in n["priority"] : IsFinite(p)
    /\ \A l \in n["encoder_output_length"] : l > 0
    /\ \A u \in n["language_adapter_uid"] : u >= 0

DraftValid(d) ==
    /\ d.tokens # <<>>
    /\ \A t \in d.threshold : IsFinite(t) /\ t > 0 /\ t <= 100

MultimodalValid(m) ==
    /\ WordsValid(m.hashes)
    /\ Len(m.positions) = Len(m.hashes)
    /\ Len(m.lengths) = Len(m.hashes)
    /\ Len(m.uuids) \in {0, Len(m.hashes)}

EagleValid(e) ==
    /\ WordsValid(e.choices)
    /\ \A t \in e.threshold : IsFinite(t) /\ t >= 0
    /\ \A k \in e.top_k : k > 0

(* Executor::validate_request                                               *)
RequestValid(r, profile) ==
    /\ SamplingValid(r.sampling)
    /\ r.tokens # <<>>
    /\ r.max_new_tokens >= 0
    /\ \A ids \in r.position_ids \cup r.extra_ids : Len(ids) = Len(r.tokens)
    /\ NumbersValid(r.numbers)
    /\ \A d \in r.draft : DraftValid(d)
    /\ \A m \in r.multimodal : MultimodalValid(m)
    /\ \A l \in r.lookahead : l.window > 0 /\ l.ngram > 0 /\ l.verification > 0
    /\ \A k \in r.retention : /\ PriorityValid(k.decode_priority)
                              /\ \A i \in DOMAIN k.ranges : RangeValid(k.ranges[i])
    /\ \A c \in r.context : c.first_tokens # <<>>
    /\ \A e \in r.eagle : EagleValid(e)
    /\ WordsValid(r.bad_words)
    /\ WordsValid(r.stop_words)
    /\ Len(r.tokens) + r.max_new_tokens <= profile.max_num_tokens

(* Mutant of VirtualTokensValid: the end of the table is a row too.         *)
VirtualTokensClosed(tokens, profile, rows) ==
    \A i \in DOMAIN tokens : tokens[i] <= profile.vocab_size + rows

(* validate_virtual_tokens: a token past the vocabulary stands for a row.   *)
VirtualTokensValid(tokens, profile, rows) ==
    \A i \in DOMAIN tokens : tokens[i] < profile.vocab_size + rows

(* Executor::prompt_embedding                                               *)
PromptValid(r, profile) ==
    \A p \in r.prompt :
        /\ Len(p.dims) = 2
        /\ p.dims[1] \in 1 .. profile.max_table_size
        /\ p.dims[2] = profile.hidden_size
        /\ p.contiguous
        /\ p.dtype = profile.dtype
        /\ r.extra_ids = {} => VirtualTokensValid(r.tokens, profile, p.dims[1])

(* Executor::embedding_bias                                                 *)
BiasValid(r, profile) ==
    \A b \in r.bias : b.dims = <<profile.vocab_size>> /\ b.contiguous

(* Every tensor of a request.                                               *)
TensorsOf(r) ==
    r.prompt \cup r.bias \cup (UNION {r.tensors[f] : f \in TensorFields})
    \cup (UNION {d.logits : d \in r.draft}) \cup r.mrope
    \cup (UNION {l.weights \cup l.config : l \in r.lora})

(* TensorBuffer::new                                                        *)
TensorValid(t) == t.contiguous /\ t.dtype \in DOMAIN TypeCodes

(* prepare_request gets as far as the buffers.                              *)
Accepted(r, profile) ==
    /\ RequestValid(r, profile)
    /\ PromptValid(r, profile)
    /\ BiasValid(r, profile)
    /\ \A t \in TensorsOf(r) : TensorValid(t)
=============================================================================
