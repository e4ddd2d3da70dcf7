----------------------------- MODULE SinkTensors -----------------------------
(***************************************************************************)
(* Names and memory of the tensors that outputs are copied into: the       *)
(* alias checks of tensorrt (src/tensorrt/src/candle.rs) and tensorrt_llm  *)
(* (src/tensorrt_llm/src/executor.rs), and how the shim matches outputs    *)
(* with sink tensors (tensorrt_llm_executor.cpp).                          *)
(*                                                                         *)
(* A name is the sequence of its parts, "context_x" is <<"context", "x">>; *)
(* the empty name has none.  A range is where a tensor starts and ends.    *)
(***************************************************************************)
EXTENDS Integers, Sequences

ContextLogits == <<"context", "logits">>
GenerationLogits == <<"generation", "logits">>
EncoderOutput == <<"encoder", "output">>

(* strip_prefix: the rest of the name, unless it is empty.                  *)
Stripped(name, prefix) ==
    IF Len(name) > 1 /\ Head(name) = prefix THEN {Tail(name)} ELSE {}

(* output_lookup_name                                                       *)
LookupName(name) ==
    IF Stripped(name, "context") # {} \/ Stripped(name, "generation") # {} THEN Tail(name)
    ELSE name

Matches(name, candidate) == candidate = name \/ candidate = LookupName(name)

(* find_output_sink: the first tensor of the sink that the output matches.  *)
TargetOf(name, names) ==
    {i \in DOMAIN names : /\ Matches(name, names[i])
                          /\ \A j \in DOMAIN names : j < i => ~Matches(name, names[j])}

(* should_skip_generation_counterpart                                       *)
SkipsGeneration(name, names) ==
    \E stripped \in Stripped(name, "generation") : \E i \in DOMAIN names : names[i] = stripped

(* rebuild_layout, validate_output_sink                                     *)
SinkNamesValid(names) ==
    /\ names # <<>>
    /\ \A i \in DOMAIN names : names[i] # <<>>
    /\ \A i, j \in DOMAIN names : i # j => LookupName(names[i]) # LookupName(names[j])

-----------------------------------------------------------------------------
(* CudaMemoryRange::new, of a tensor at an address: checked_add.            *)
RangeFits(start, bytes, maxAddress) == start + bytes <= maxAddress

MemoryRange(start, bytes) == [start |-> start, end |-> start + bytes]

(* Mutant of Overlaps: one range must start inside the other.               *)
StartsInside(a, b) == a.start <= b.start /\ b.start < a.end

(* CudaMemoryRange::overlaps                                                *)
Overlaps(a, b) == a.start < b.end /\ b.start < a.end

(* validate_cuda_output_aliases, among the outputs of a run.                *)
OutputsDisjoint(ranges) ==
    \A i, j \in DOMAIN ranges : i < j => ~Overlaps(ranges[i], ranges[j])

(* The addresses a range covers.                                            *)
Covered(range) == {a \in Int : range.start <= a /\ a < range.end}
=============================================================================
