----------------------------- MODULE TensorTypes -----------------------------
(***************************************************************************)
(* Data types as tensorrt_llm and the shim encode them                     *)
(* (src/tensorrt_llm/src/executor.rs, tensorrt_llm_executor.cpp), and the  *)
(* size of a tensor.                                                       *)
(***************************************************************************)
EXTENDS Integers, SequencesExt

(* data_type_for_dtype, then data_type_to_executor_i32.                     *)
TypeCodes == [u8 |-> 1, i32 |-> 3, i64 |-> 4, bf16 |-> 5, f16 |-> 7, f32 |-> 8]

(* data_type_from_i32 of the shim, and the bytes of an element.             *)
CodeBytes ==
    [code \in 0 .. 8 |-> CASE code \in {3, 8} -> 4
                           [] code = 4 -> 8
                           [] code \in {5, 7} -> 2
                           [] OTHER -> 1]

DtypeBytes == [u8 |-> 1, i32 |-> 4, i64 |-> 8, bf16 |-> 2, f16 |-> 2, f32 |-> 4]

Product(dims) == FoldLeft(LAMBDA a, b : a * b, 1, dims)

(* What types make sure of: at most one value in an option, and lists that  *)
(* are lists.                                                               *)
IsOption(option) == \A v, w \in option : v = w

IsList(list) == list \in Seq({list[i] : i \in DOMAIN list})

(* The elements of a list that are in a set, in the order of the list.      *)
Selected(list, kept) ==
    LET upTo[i \in 0 .. Len(list)] ==
            IF i = 0 THEN <<>>
            ELSE IF list[i] \in kept THEN Append(upTo[i - 1], list[i])
            ELSE upTo[i - 1]
    IN  upTo[Len(list)]
=============================================================================
