---------------------------- MODULE TensorBindings ----------------------------
(***************************************************************************)
(* Checks of the tensors that a call of tensorrt binds                     *)
(* (src/tensorrt/src/session.rs, tensor.rs, data_type.rs).  A tensor of    *)
(* the engine is [mode, dims, dtype]; a dimension of -1 is dynamic.        *)
(***************************************************************************)
EXTENDS Integers, SequencesExt

(* A binding that a caller makes.  A host input is bound as it is or staged *)
(* in a device buffer; its type may be left open.                           *)
HostInput(name, dims, dtypes, bytes, location) ==
    [name |-> name, dims |-> dims, dtypes |-> dtypes, bytes |-> bytes, null |-> FALSE,
     at |-> IF location = "device" THEN "staged" ELSE "host"]

DeviceTensor(name, dims, dtype, bytes, null) ==
    [name |-> name, dims |-> dims, dtypes |-> {dtype}, bytes |-> bytes, null |-> null,
     at |-> "device"]

HostOutput(name, dims, bytes) ==
    [name |-> name, dims |-> dims, dtypes |-> {}, bytes |-> bytes, null |-> FALSE,
     at |-> "host"]

(* DataType::from_raw and TensorIOMode::from_raw: the codes of TensorRT.    *)
DataTypes == <<"float", "half", "int8", "int32", "bool", "uint8", "fp8", "bf16",
               "int64", "int4", "fp4", "e8m0">>
DataTypeOf(code) == IF code \in 0 .. 11 THEN DataTypes[code + 1] ELSE "unknown"
IOModeOf(code) == IF code \in 0 .. 2 THEN <<"none", "input", "output">>[code + 1]
                  ELSE "unknown"

(* Engine::io_tensors, of a tensor as TensorRT describes it.                *)
IoTensor(raw) == [mode |-> IOModeOf(raw.mode), dtype |-> DataTypeOf(raw.dtype),
                  dims |-> raw.dims]

(* DataType::bytes_per_element; other types have none.                      *)
ElementBytes == [float |-> 4, half |-> 2, bf16 |-> 2, int8 |-> 1, int32 |-> 4,
                 bool |-> 1, uint8 |-> 1, fp8 |-> 1, int64 |-> 8]

(* Mutant of Times: the product wraps at the width of usize.                *)
TimesWrapping(option, factor, maxSize) == {(n * factor) % (maxSize + 1) : n \in option}

(* checked_mul, of a number that may have overflown; maxSize is usize::MAX. *)
Times(option, factor, maxSize) == {n \in {m * factor : m \in option} : n <= maxSize}

(* element_count                                                            *)
ElementCount(dims, maxSize) ==
    FoldLeft(LAMBDA n, d : IF d < 0 THEN {} ELSE Times(n, d, maxSize), {1}, dims)

(* tensor_byte_len: an Option.                                              *)
TensorByteLen(dims, dtype, maxSize) ==
    IF dtype \notin DOMAIN ElementBytes THEN {}
    ELSE Times(ElementCount(dims, maxSize), ElementBytes[dtype], maxSize)

(* Session::validate_tensor_shape                                           *)
ShapeValid(tensor, dims) ==
    /\ Len(dims) = Len(tensor.dims)
    /\ \A i \in DOMAIN dims : /\ dims[i] >= 0
                              /\ tensor.dims[i] >= 0 => dims[i] = tensor.dims[i]

(* tensor_info, validate_tensor_shape, ensure_tensor_mode                   *)
Fits(tensors, binding, mode) ==
    /\ binding.name \in DOMAIN tensors
    /\ ShapeValid(tensors[binding.name], binding.dims)
    /\ tensors[binding.name].mode = mode

(* ensure_tensor_type, of the types that the binding names.                 *)
TypeValid(tensors, binding) ==
    \A t \in binding.dtypes : tensors[binding.name].dtype = t

(* Bytes of a host tensor: those of the engine's type for its shape.        *)
HostBytesValid(tensors, binding, maxSize) ==
    binding.bytes \in TensorByteLen(binding.dims, tensors[binding.name].dtype, maxSize)

(* validate_device_bytes, of the binding's own type, and the null check.    *)
DeviceBytesValid(binding, maxSize) ==
    /\ \A t \in binding.dtypes :
          binding.bytes \in TensorByteLen(binding.dims, t, maxSize)
    /\ ~binding.null

(* The bytes that TensorRT accesses, by its own codes of the types.         *)
RawBytes == <<4, 2, 1, 4, 1, 1, 1, 2, 8>>
AccessedBytes(raw, dims) ==
    FoldLeft(LAMBDA n, d : n * d, RawBytes[raw.dtype + 1], dims)
=============================================================================
