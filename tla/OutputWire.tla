------------------------------ MODULE OutputWire ------------------------------
(***************************************************************************)
(* The result of a request on its way back: what the shim allocates and    *)
(* borrows for each response (sys::Response of src/tensorrt_llm-sys), and  *)
(* the lazy tensors that tensorrt_llm makes of it                          *)
(* (src/tensorrt_llm/src/output.rs: from_sys, LazyTensor).                 *)
(*                                                                         *)
(* A heap maps its blocks to their parts, and those to what they hold.  A  *)
(* block <<i, kind, name>> is allocated for response i; the block Retained *)
(* is the responses themselves, which outlive the call while copies into a *)
(* sink are pending.                                                       *)
(***************************************************************************)
EXTENDS TensorTypes, SinkTensors, FiniteSets

Null == [block |-> <<>>, part |-> "all"]
Own(i, kind, name) == [block |-> <<i, kind, name>>, part |-> "all"]

Retained == <<0, "responses">>
Borrowed(i, name) == [block |-> Retained, part |-> <<i, name>>]

(* What a block that was freed may hold.                                    *)
Garbage == <<"freed">>

At(heap, pointer) ==
    IF pointer.block \in DOMAIN heap THEN heap[pointer.block][pointer.part] ELSE Garbage

Total(lists) == Len(FlattenSeq(lists))

(* Mutant of Offsets: where the beams start.                                *)
OffsetsStart(lists) == [i \in 1 .. Len(lists) + 1 |-> Total(SubSeq(lists, 1, i - 2))]

(* Where beams end in the list of all of them.                              *)
Offsets(lists) == [i \in 1 .. Len(lists) + 1 |-> Total(SubSeq(lists, 1, i - 1))]

(* Bytes of an element of a type of the backend; 9 is a type it has only.   *)
CodeSize(code) == IF code = 9 THEN 1 ELSE CodeBytes[code]

-----------------------------------------------------------------------------
(* A result of the backend: lists of beams by name (cum_log_probs has one   *)
(* list at most), additional outputs [name, tensor], and the logits, each   *)
(* an Option of a tensor [code, dims, value].                               *)

(* The lists, the names of their offsets, and their data types.             *)
ListNames == <<"token_ids", "cum_log_probs", "log_probs">>
OffsetNames == [token_ids |-> {"token_offsets"}, cum_log_probs |-> {},
                log_probs |-> {"log_prob_offsets"}]
ListCode == [token_ids |-> 3, cum_log_probs |-> 8, log_probs |-> 8]

LogitNames == <<ContextLogits, GenerationLogits, EncoderOutput>>

BackendTensor(t) == t.code \in 0 .. 9 /\ t.dims \in Seq(Nat)

(* The types of a result, whose outputs have names of their own.            *)
ResultTyped(result) ==
    /\ \A n \in ToSet(ListNames) : result.lists[n] \in Seq(Seq(Int))
    /\ IsList(result.additional)
    /\ \A o \in ToSet(result.additional) : BackendTensor(o.tensor)
    /\ \A n \in ToSet(LogitNames) :
           IsOption(result.logits[n]) /\ \A t \in result.logits[n] : BackendTensor(t)
    /\ \A i, j \in DOMAIN result.additional :
           i # j => result.additional[i].name # result.additional[j].name
    /\ \A o \in ToSet(result.additional) : o.name \notin ToSet(LogitNames)

(* How the backend names additional outputs: after one of the engine, which *)
(* has no such prefix and is not called as the output of an encoder.        *)
NamedByBackend(result) ==
    \A o \in ToSet(result.additional) :
        /\ o.name \in Seq(STRING)
        /\ \E prefix \in {"context", "generation"} : \E name \in Stripped(o.name, prefix) :
              /\ Stripped(name, "context") = {} /\ Stripped(name, "generation") = {}
              /\ name # EncoderOutput

(* The outputs of a result, in the order they are copied:                   *)
(* copy_additional_outputs, then the logits of copy_result.                 *)
Additional(result, names) ==
    Selected(result.additional,
             {o \in ToSet(result.additional) : ~SkipsGeneration(o.name, names)})

Logits(result) ==
    FlattenSeq([k \in DOMAIN LogitNames |->
        SetToSeq({[name |-> LogitNames[k], tensor |-> t] : t \in result.logits[LogitNames[k]]})])

Emitted(result, names) == Additional(result, names) \o Logits(result)

(* try_copy_tensor_to_sink: a tensor of the sink takes the output, or it is *)
(* copied to memory of the response.                                        *)
IsTaken(o, names) == TargetOf(o.name, names) # {}

Taken(list, names) == Selected(list, {o \in ToSet(list) : IsTaken(o, names)})

Kept(list, names) == Selected(list, {o \in ToSet(list) : ~IsTaken(o, names)})

-----------------------------------------------------------------------------
(* Mutant of ListOutput: a list is borrowed of responses that are not kept. *)
ListBorrowed(i, name, lists, deferred) ==
    LET owned == Len(lists) # 1
        ragged == owned /\ OffsetNames[name] # {}
    IN  [name |-> name, count |-> Total(lists), owned |-> owned,
         data |-> IF Total(lists) = 0 THEN Null
                  ELSE IF owned THEN Own(i, "list", <<name>>) ELSE Borrowed(i, name),
         offsets |-> IF ragged THEN Own(i, "offsets", <<name>>) ELSE Null,
         sequences |-> IF ragged THEN Len(lists) ELSE 0]

(* copy_token_ids, copy_log_probs: a single list is borrowed if the         *)
(* responses are kept, and has no offsets then.                             *)
ListOutput(i, name, lists, deferred) ==
    LET owned == ~deferred \/ Len(lists) # 1
        ragged == owned /\ OffsetNames[name] # {}
    IN  [name |-> name, count |-> Total(lists), owned |-> owned,
         data |-> IF Total(lists) = 0 THEN Null
                  ELSE IF owned THEN Own(i, "list", <<name>>) ELSE Borrowed(i, name),
         offsets |-> IF ragged THEN Own(i, "offsets", <<name>>) ELSE Null,
         sequences |-> IF ragged THEN Len(lists) ELSE 0]

(* copy_tensor_to_owned                                                     *)
TensorOutput(i, name, t) ==
    LET bytes == Product(t.dims) * CodeSize(t.code)
    IN  [name |-> name, code |-> t.code, shape |-> t.dims, bytes |-> bytes,
         data |-> IF bytes = 0 THEN Null ELSE Own(i, "tensor", name)]

(* copy_result, of response i, as far as the m-th output, which throws, or  *)
(* to the end: sys::Output.  The named tensors count once all are copied.   *)
Copied(i, result, names, deferred, m) ==
    LET present == Selected(ListNames, {n \in ToSet(ListNames) : result.lists[n] # <<>>})
        named == Additional(result, names)
        Owned(list) == LET kept == Kept(list, names)
                       IN  [k \in DOMAIN kept |->
                               TensorOutput(i, kept[k].name, kept[k].tensor)]
    IN  [is_final |-> result.is_final,
         lists |-> [k \in DOMAIN present |->
                       ListOutput(i, present[k], result.lists[present[k]], deferred)],
         named |-> IF m <= Len(named) THEN <<>> ELSE Owned(named),
         logits |-> Owned(SubSeq(Logits(result), 1, m - 1 - Len(named))),
         deferred |-> deferred]

(* A response that is not copied yet: calloc.                               *)
NoOutput ==
    [is_final |-> FALSE, lists |-> <<>>, named |-> <<>>, logits |-> <<>>, deferred |-> FALSE]

(* The blocks of sys::Output that responses_free frees.                     *)
Blocks(output) ==
    ({l.data.block : l \in {k \in ToSet(output.lists) : k.owned}}
     \cup {l.offsets.block : l \in ToSet(output.lists)}
     \cup {t.data.block : t \in ToSet(output.named) \cup ToSet(output.logits)}
     \cup IF output.deferred THEN {Retained} ELSE {}) \ {Null.block}

(* What the blocks of response i hold.                                      *)
Content(result, block) ==
    CASE block[2] = "list" -> FlattenSeq(result.lists[Head(block[3])])
      [] block[2] = "offsets" -> Offsets(result.lists[Head(block[3])])
      [] OTHER -> (CHOOSE o \in ToSet(result.additional \o Logits(result)) :
                      o.name = block[3]).tensor.value

(* The heap of a call that returned the responses of these results.         *)
HeapOf(results, outputs) ==
    LET blocks == UNION {Blocks(outputs[i]) : i \in DOMAIN outputs}
    IN  [b \in blocks |->
            IF b = Retained
            THEN [p \in (DOMAIN results) \X ToSet(ListNames) |->
                     FlattenSeq(results[p[1]].lists[p[2]])]
            ELSE [p \in {"all"} |-> Content(results[b[1]], b)]]

-----------------------------------------------------------------------------
(* Lazy tensors.                                                            *)

(* Mutant of KnownCodes: booleans are bytes.                                *)
KnownCodesBool == {0, 1, 3, 4, 5, 7, 8}

(* data_type_from_executor_i32 and data_type_size: types that have a size.  *)
KnownCodes == {1, 3, 4, 5, 7, 8}

(* TensorData::from_bytes: types that can be made a Candle tensor.          *)
CandleCodes == {1, 3, 4, 5, 7, 8}

(* from_sys: LazyTensor::from_typed_raw, from_offsets and from_owned, in    *)
(* the order of a response's outputs.  Named tensors lose context_.         *)
ListTensors(l) ==
    <<[kind |-> "raw", name |-> <<l.name>>, code |-> ListCode[l.name], data |-> l.data,
       bytes |-> l.count * CodeSize(ListCode[l.name]), shape |-> <<l.count>>,
       sequences |-> 0, count |-> l.count]>>
    \o SetToSeq({[kind |-> "offsets", name |-> <<n>>, code |-> 4, data |-> l.offsets,
                  bytes |-> 0, shape |-> <<l.sequences + 1>>,
                  sequences |-> l.sequences, count |-> l.count] : n \in OffsetNames[l.name]})

OwnedTensor(t, name) ==
    [kind |-> "raw", name |-> name, code |-> t.code, data |-> t.data, bytes |-> t.bytes,
     shape |-> t.shape, sequences |-> 0, count |-> 0]

Exposed(name) ==
    IF Stripped(name, "context") # {} THEN Tail(name) ELSE name

LazyTensors(output) ==
    LET lists == Selected(output.lists, {l \in ToSet(output.lists) : l.count > 0})
    IN  FlattenSeq([k \in DOMAIN lists |-> ListTensors(lists[k])])
        \o [k \in DOMAIN output.logits |->
               OwnedTensor(output.logits[k], output.logits[k].name)]
        \o [k \in DOMAIN output.named |->
               OwnedTensor(output.named[k], Exposed(output.named[k].name))]

(* RawTensorData::new, elem_count and validate_tensor_len;                  *)
(* OffsetTensorData::new                                                    *)
Valid(lazy, heap) ==
    IF lazy.kind = "raw"
    THEN /\ lazy.code \in KnownCodes
         /\ lazy.bytes % CodeSize(lazy.code) = 0
         /\ lazy.bytes \div CodeSize(lazy.code) = Product(lazy.shape)
    ELSE lazy.sequences > 0 =>
             /\ At(heap, lazy.data)[1] = 0
             /\ At(heap, lazy.data)[lazy.sequences + 1] = lazy.count

(* to_tensor: RawTensorData and OffsetTensorData, as they read memory.      *)
Decoded(lazy, heap) ==
    IF lazy.kind = "offsets" /\ lazy.sequences = 0 THEN <<0, lazy.count>>
    ELSE IF lazy.data = Null THEN <<>>
    ELSE At(heap, lazy.data)

(* The expectations of to_tensor hold: it does not panic.                   *)
Expected(lazy) ==
    lazy.kind = "raw" =>
        /\ lazy.code \in CandleCodes
        /\ lazy.bytes = Product(lazy.shape) * CodeSize(lazy.code)
===============================================================================
