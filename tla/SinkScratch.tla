------------------------------ MODULE SinkScratch ------------------------------
(***************************************************************************)
(* How Executor::run describes the tensors of a sink to the shim: names,   *)
(* dimensions and views in a scratch that is pooled between runs           *)
(* (OutputSinkScratch of src/tensorrt_llm/src/executor.rs).  A tensor of a *)
(* sink is [name, code, dims, start]; its memory starts at start.          *)
(***************************************************************************)
EXTENDS TensorTypes

NamesOf(tensors) == [i \in DOMAIN tensors |-> tensors[i].name]
DimsOf(tensors) == [i \in DOMAIN tensors |-> tensors[i].dims]

(* tensor_byte_len_for_shape                                                *)
SinkBytes(tensor) == Product(tensor.dims) * CodeBytes[tensor.code]

(* OutputSinkScratch::default, and what OutputSinkScratch::clear leaves.    *)
EmptyScratch == [names |-> <<>>, values |-> <<>>, ranges |-> <<>>, views |-> <<>>]

(* shape_slice: the dimensions of a tensor, out of the list of all.         *)
ShapeSlice(scratch, i) ==
    LET range == scratch.ranges[i]
    IN  SubSeq(scratch.values, range.start + 1, range.start + range.length)

(* layout_matches                                                           *)
LayoutMatches(scratch, tensors) ==
    /\ Len(scratch.views) = Len(tensors)
    /\ \A i \in DOMAIN tensors :
           /\ scratch.names[i] = tensors[i].name
           /\ scratch.views[i].code = tensors[i].code
           /\ ShapeSlice(scratch, i) = tensors[i].dims

(* rebuild_layout                                                           *)
Layout(tensors) ==
    [names |-> NamesOf(tensors),
     values |-> FlattenSeq(DimsOf(tensors)),
     ranges |-> [i \in DOMAIN tensors |->
                    [start |-> Len(FlattenSeq(SubSeq(DimsOf(tensors), 1, i - 1))),
                     length |-> Len(tensors[i].dims)]]]

(* OutputSinkParts::new, of the views; a layout that matches is kept.       *)
LaidOut(scratch, tensors) ==
    LET layout == IF LayoutMatches(scratch, tensors) THEN scratch ELSE Layout(tensors)
    IN  [names |-> layout.names, values |-> layout.values, ranges |-> layout.ranges,
         views |-> [i \in DOMAIN tensors |->
                       [code |-> tensors[i].code, data |-> tensors[i].start,
                        bytes |-> SinkBytes(tensors[i])]]]

(* The tensors that the shim finds: refresh_stable_pointers makes a view    *)
(* point at its name and at its dimensions.                                 *)
SinkSeen(scratch) ==
    [i \in DOMAIN scratch.views |->
        [name |-> scratch.names[i], code |-> scratch.views[i].code,
         dims |-> ShapeSlice(scratch, i), start |-> scratch.views[i].data]]
=============================================================================
