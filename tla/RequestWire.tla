----------------------------- MODULE RequestWire -----------------------------
(***************************************************************************)
(* A request on its way to the native executor: the lists that             *)
(* RequestBuffers lays out, the structure of pointers, counts and has_     *)
(* flags (sys::Request), and what the shim reads back from both            *)
(* (src/tensorrt_llm-sys/native/tensorrt_llm_executor.cpp).  The structure *)
(* only points at the lists: what is read is what they hold by then.       *)
(***************************************************************************)
EXTENDS RequestChecks

-----------------------------------------------------------------------------
(* RequestBuffers.                                                          *)

NoWords == [tokens |-> <<>>, offsets |-> <<>>]

(* RequestBuffers::default, and what RequestBuffers::clear leaves.          *)
EmptyBuffers ==
    [bad |-> NoWords, stop |-> NoWords, hashes |-> NoWords, choices |-> NoWords,
     uuids |-> <<>>, ranges |-> <<>>, outputs |-> <<>>]

(* Mutant of WordBuffer: a word is closed by where it starts.               *)
WordBufferStarts(words) ==
    [tokens |-> FlattenSeq(words),
     offsets |-> IF words = <<>> THEN <<>>
                 ELSE [i \in 1 .. Len(words) + 1 |->
                          Len(FlattenSeq(SubSeq(words, 1, i - 2)))]]

(* WordListBuffer::replace: the tokens in one list, and where words end.    *)
WordBuffer(words) ==
    [tokens |-> FlattenSeq(words),
     offsets |-> IF words = <<>> THEN <<>>
                 ELSE [i \in 1 .. Len(words) + 1 |->
                          Len(FlattenSeq(SubSeq(words, 1, i - 1)))]]

The(option) == CHOOSE v \in option : TRUE

(* The lists of a request, laid out in buffers that were checked out.  The  *)
(* ranges are added to what the buffers hold; the lists of a feature that   *)
(* the request does not use are left as they are.                           *)
Filled(buffers, r) ==
    [buffers EXCEPT
        !.bad = WordBuffer(r.bad_words),
        !.stop = WordBuffer(r.stop_words),
        !.hashes = IF r.multimodal = {} THEN @ ELSE WordBuffer(The(r.multimodal).hashes),
        !.uuids = IF r.multimodal = {} THEN @ ELSE The(r.multimodal).uuids,
        !.choices = IF r.eagle = {} THEN @ ELSE WordBuffer(The(r.eagle).choices),
        !.ranges = IF r.retention = {} THEN @ ELSE @ \o The(r.retention).ranges,
        !.outputs = r.outputs]

-----------------------------------------------------------------------------
(* sys::Request.                                                            *)

(* has_x: option.is_some(), x: option.unwrap_or_default()                   *)
Flagged(option) ==
    [has |-> option # {}, value |-> IF option = {} THEN 0 ELSE The(option)]

Flags(numbers) == [f \in DOMAIN numbers |-> Flagged(numbers[f])]

(* A slice, or a null pointer and no elements.                              *)
Slice(option) == IF option = {} THEN <<>> ELSE The(option)

(* WordListBuffer::as_sys: null pointers if there are no tokens.            *)
WordView(words) ==
    IF words.tokens = <<>> THEN [tokens |-> 0, offsets |-> 0]
    ELSE [tokens |-> Len(words.tokens), offsets |-> Len(words.offsets)]

NullView == [data |-> {}, bytes |-> 0, code |-> 0, shape |-> <<>>, gpu |-> FALSE]

(* TensorBuffer::as_sys; optional_tensor_view                               *)
View(option) ==
    IF option = {} THEN NullView
    ELSE LET t == The(option)
         IN  [data |-> {t.value}, bytes |-> ByteLen(t), code |-> TypeCodes[t.dtype],
              shape |-> t.dims, gpu |-> t.gpu]

(* Mutant of TokenExtraIds: rows are counted from 1.                        *)
TokenExtraIdsFrom1(r, profile) ==
    IF r.extra_ids # {} THEN The(r.extra_ids)
    ELSE [i \in DOMAIN r.tokens |->
             IF r.tokens[i] >= profile.vocab_size THEN r.tokens[i] - profile.vocab_size + 1
             ELSE 0]

(* The caller's extra ids, or the row of each virtual token                 *)
(* (input_token_extra_ids)                                                  *)
TokenExtraIds(r, profile) ==
    IF r.extra_ids # {} THEN The(r.extra_ids)
    ELSE [i \in DOMAIN r.tokens |->
             IF r.tokens[i] >= profile.vocab_size THEN r.tokens[i] - profile.vocab_size
             ELSE 0]

(* An optional structure: its flag, and its fields or their defaults.       *)
Section(option, Fields(_), default) ==
    [has |-> option # {}, fields |-> IF option = {} THEN default ELSE Fields(The(option))]

DraftFields(d) ==
    [tokens |-> d.tokens, logits |-> View(d.logits), threshold |-> Flagged(d.threshold),
     fast_logits |-> Flagged(d.fast_logits)]

MultimodalFields(m, buffers) ==
    [hashes |-> WordView(buffers.hashes), positions |-> m.positions, lengths |-> m.lengths,
     uuids |-> Len(buffers.uuids)]

RetentionFields(k, buffers) ==
    [ranges |-> Len(buffers.ranges), decode_priority |-> k.decode_priority,
     decode_duration |-> Flagged(k.decode_duration)]

ContextFields(c) ==
    [first_tokens |-> c.first_tokens, draft_tokens |-> Slice(c.draft_tokens),
     dp_rank |-> Flagged(c.dp_rank)]

EagleFields(e, buffers) ==
    [choices |-> WordView(buffers.choices), flags |-> e.flags,
     threshold |-> Flagged(e.threshold), top_k |-> Flagged(e.top_k)]

(* The structure prepare_request builds for r, whose lists are in buffers.  *)
Encoded(r, profile, buffers) ==
    [tokens |-> r.tokens, max_new_tokens |-> r.max_new_tokens,
     numbers |-> Flags(r.numbers),
     tensors |-> [f \in TensorFields |-> View(r.tensors[f])],
     flags |-> r.flags,
     sampling |-> [beam_width |-> r.sampling.beam_width,
                   numbers |-> Flags(r.sampling.numbers),
                   beam_width_array |-> Slice(r.sampling.beam_width_array)],
     prompt |-> View(r.prompt),
     rows |-> IF r.prompt = {} THEN 0 ELSE The(r.prompt).dims[1],
     hidden |-> IF r.prompt = {} THEN 0 ELSE profile.hidden_size,
     extra_ids |-> IF r.prompt = {} THEN <<>> ELSE TokenExtraIds(r, profile),
     position_ids |-> Slice(r.position_ids),
     bias |-> View(r.bias),
     bias_len |-> IF r.bias = {} THEN 0 ELSE The(r.bias).dims[1],
     bad |-> WordView(buffers.bad), stop |-> WordView(buffers.stop),
     encoder_tokens |-> Slice(r.encoder_tokens),
     draft |-> Section(r.draft, DraftFields, {}),
     multimodal |-> Section(r.multimodal, LAMBDA m : MultimodalFields(m, buffers), {}),
     mrope |-> Section(r.mrope, LAMBDA t : View({t}), NullView),
     lora |-> Section(r.lora, LAMBDA l : [weights |-> View(l.weights),
                                          config |-> View(l.config)], {}),
     lookahead |-> Section(r.lookahead, LAMBDA l : l, {}),
     retention |-> Section(r.retention, LAMBDA k : RetentionFields(k, buffers), {}),
     context |-> Section(r.context, ContextFields, {}),
     eagle |-> Section(r.eagle, LAMBDA e : EagleFields(e, buffers), {}),
     guided |-> Section(r.guided, LAMBDA g : g, {}),
     outputs |-> Len(buffers.outputs)]

-----------------------------------------------------------------------------
(* What the shim refuses: each of these throws.                             *)

(* word_list, nested_tokens                                                 *)
WordsReadable(view, words) ==
    \/ view.offsets = 0 /\ view.tokens = 0
    \/ /\ view.offsets >= 2
       /\ words.offsets[1] = 0
       /\ words.offsets[view.offsets] = view.tokens
       /\ \A i \in 1 .. view.offsets - 1 :
              /\ words.offsets[i] < words.offsets[i + 1]
              /\ words.offsets[i + 1] <= view.tokens

(* tensor_from_data, of the shape it is given                               *)
TensorReadable(view, shape) ==
    view.data # {} /\ view.bytes # 0 =>
        /\ view.code \in DOMAIN CodeBytes
        /\ Product(shape) * CodeBytes[view.code] = view.bytes

ViewReadable(view) == TensorReadable(view, view.shape)

MultimodalReadable(m, buffers) ==
    LET count == IF m.hashes.offsets = 0 THEN 0 ELSE m.hashes.offsets - 1
    IN  /\ WordsReadable(m.hashes, buffers.hashes)
        /\ Len(m.positions) = count
        /\ Len(m.lengths) = count
        /\ m.uuids \in {0, count}

(* additional_model_outputs                                                 *)
OutputsReadable(count, names) == \A i \in 1 .. count : names[i] # <<>>

(* request_from_sys                                                         *)
RequestReadable(w, buffers) ==
    /\ w.tokens # <<>>
    /\ w.max_new_tokens >= 0
    /\ w.rows > 0 => Len(w.extra_ids) = Len(w.tokens)
    /\ Len(w.position_ids) \in {0, Len(w.tokens)}
    /\ TensorReadable(w.prompt, <<w.rows, w.hidden>>)
    /\ TensorReadable(w.bias, <<w.bias_len>>)
    /\ WordsReadable(w.bad, buffers.bad)
    /\ WordsReadable(w.stop, buffers.stop)
    /\ \A f \in TensorFields : ViewReadable(w.tensors[f])
    /\ w.draft.has => w.draft.fields.tokens # <<>> /\ ViewReadable(w.draft.fields.logits)
    /\ w.multimodal.has => MultimodalReadable(w.multimodal.fields, buffers)
    /\ w.mrope.has => w.mrope.fields.bytes # 0 /\ ViewReadable(w.mrope.fields)
    /\ w.lora.has => /\ ViewReadable(w.lora.fields.weights)
                     /\ ViewReadable(w.lora.fields.config)
    /\ w.context.has => w.context.fields.first_tokens # <<>>
    /\ w.eagle.has => WordsReadable(w.eagle.fields.choices, buffers.choices)
    /\ OutputsReadable(w.outputs, buffers.outputs)

-----------------------------------------------------------------------------
(* What the shim reads.                                                     *)

Given(flagged) == IF flagged.has THEN {flagged.value} ELSE {}

GivenAll(flags) == [f \in DOMAIN flags |-> Given(flags[f])]

(* An empty list is no list.                                                *)
NonEmpty(list) == IF list = <<>> THEN {} ELSE {list}

ReadWords(view, words) ==
    IF view.offsets = 0 THEN <<>>
    ELSE [i \in 1 .. view.offsets - 1 |->
             SubSeq(words.tokens, words.offsets[i] + 1, words.offsets[i + 1])]

(* A tensor as the backend receives it; an empty one is no tensor.          *)
Received(data, code, dims, gpu) == [value |-> data, code |-> code, dims |-> dims, gpu |-> gpu]

ReadTensor(view, shape) ==
    IF view.bytes = 0 THEN {}
    ELSE {Received(v, view.code, shape, view.gpu) : v \in view.data}

ReadView(view) == ReadTensor(view, view.shape)

(* A structure is read if its flag is set.                                  *)
SectionOf(section, Fields(_)) == IF section.has THEN {Fields(section.fields)} ELSE {}

(* request_from_sys, of what it does not refuse                             *)
RequestRead(w, buffers) ==
    [tokens |-> w.tokens, max_new_tokens |-> w.max_new_tokens,
     numbers |-> GivenAll(w.numbers),
     tensors |-> [f \in TensorFields |-> ReadView(w.tensors[f])],
     flags |-> w.flags,
     sampling |-> [beam_width |-> w.sampling.beam_width,
                   numbers |-> GivenAll(w.sampling.numbers),
                   beam_width_array |-> NonEmpty(w.sampling.beam_width_array)],
     prompt |-> ReadTensor(w.prompt, <<w.rows, w.hidden>>),
     extra_ids |-> w.extra_ids,
     position_ids |-> NonEmpty(w.position_ids),
     bias |-> ReadTensor(w.bias, <<w.bias_len>>),
     bad_words |-> ReadWords(w.bad, buffers.bad),
     stop_words |-> ReadWords(w.stop, buffers.stop),
     encoder_tokens |-> NonEmpty(w.encoder_tokens),
     draft |-> SectionOf(w.draft, LAMBDA d :
         [tokens |-> d.tokens, logits |-> ReadView(d.logits),
          threshold |-> Given(d.threshold), fast_logits |-> Given(d.fast_logits)]),
     multimodal |-> SectionOf(w.multimodal, LAMBDA m :
         [hashes |-> ReadWords(m.hashes, buffers.hashes), positions |-> m.positions,
          lengths |-> m.lengths, uuids |-> SubSeq(buffers.uuids, 1, m.uuids)]),
     mrope |-> IF w.mrope.has THEN ReadView(w.mrope.fields) ELSE {},
     lora |-> SectionOf(w.lora, LAMBDA l :
         [weights |-> ReadView(l.weights), config |-> ReadView(l.config)]),
     lookahead |-> SectionOf(w.lookahead, LAMBDA l : l),
     retention |-> SectionOf(w.retention, LAMBDA k :
         [ranges |-> SubSeq(buffers.ranges, 1, k.ranges),
          decode_priority |-> k.decode_priority,
          decode_duration |-> Given(k.decode_duration)]),
     context |-> SectionOf(w.context, LAMBDA c :
         [first_tokens |-> c.first_tokens, draft_tokens |-> NonEmpty(c.draft_tokens),
          dp_rank |-> Given(c.dp_rank)]),
     eagle |-> SectionOf(w.eagle, LAMBDA e :
         [choices |-> ReadWords(e.choices, buffers.choices), flags |-> e.flags,
          threshold |-> Given(e.threshold), top_k |-> Given(e.top_k)]),
     guided |-> SectionOf(w.guided, LAMBDA g : g),
     outputs |-> SubSeq(buffers.outputs, 1, w.outputs)]
=============================================================================
